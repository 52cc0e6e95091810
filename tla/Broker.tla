---------------------------------- MODULE Broker ----------------------------------
(***************************************************************************)
(* The network broker of a consumer identity (crates/cli/src/               *)
(* client_broker.rs, client_transport.rs and client_ipc.rs).  Commands do   *)
(* not bind the consumer's endpoint themselves: they lease it from one      *)
(* detached broker process, which whoever needs it first starts and which   *)
(* ends by itself when nobody has used it for a while.                      *)
(*                                                                         *)
(* Two lock files order the processes: startup.lock serialises commands     *)
(* that may start a broker, owner.lock is held by the broker from before it *)
(* binds its socket until its endpoint is closed.                           *)
(***************************************************************************)
EXTENDS Naturals, FiniteSets

CONSTANTS
    Clients,        \* commands
    Brokers,        \* bound: broker processes that run at the same time
    None,           \* nobody
    MAX_LEASES,     \* 32 in the code
    MAX_FAULTS,     \* bound: processes killed, binds that fail
    MAX_RESUMES,    \* bound: suspensions of the machine
    Patient         \* TRUE: no 15 s startup deadline ends, a serving broker answers
                    \* within 2 s, and it is polled (every 20 ms) by the command that
                    \* started it before it has been idle for 2 s

ASSUME BrokerAssumption ==
    /\ None \notin Clients \cup Brokers
    /\ Clients \cap Brokers = {}
    /\ MAX_LEASES \in Nat /\ MAX_FAULTS \in Nat /\ MAX_RESUMES \in Nat
    /\ Patient \in BOOLEAN

VARIABLES
    owner,      \* who holds owner.lock: a broker, or a command that probes it
    startup,    \* which command holds startup.lock
    socket,     \* broker whose listener the socket file names, dead or alive
    phase,      \* where each broker is
    leases,     \* IPC connections that ask a broker for a lease, or have one
    conn,       \* publisher connection of each command, and its broker task
    client,     \* commands
    faults,     \* kills and failures so far
    resumes     \* suspensions so far

vars == <<owner, startup, socket, phase, leases, conn, client, faults, resumes>>

\* phase, in the order a broker goes through them:
\*   starting    spawned, reads its key
\*   locked      holds owner.lock
\*   binding     listens on the socket and binds the endpoint
\*   serving, rebuilding   the loop of serve, and its replacement of the endpoint
\*   leaving     out of the loop
\*   closing     tasks are gone, closes the endpoint
\*   closed      serve has returned: no endpoint, no listener
\*   unlinked    removed the socket file
\*   gone        ended, or not started yet
Phases == {"starting", "locked", "binding", "serving", "rebuilding",
           "leaving", "closing", "closed", "unlinked", "gone"}
Listening == {"binding", "serving", "rebuilding", "leaving", "closing"}

alive(b) == phase[b] # "gone"

\* An IPC connection that carries Operation::Lease: still in the listener's backlog
\* or leased; `live` until the command closes its end.  Abandoned requests of one
\* command at the same stage are not told apart.
LeaseStream == [client : Clients, live : BOOLEAN, stage : {"queued", "leased"}]

\* A task of Operation::Connect: connecting, connected, holding the endpoint that
\* was replaced under it, or about to end.  `cancelled` is its lease's token.
NoConn == [state |-> "none", broker |-> None, cancelled |-> FALSE]

\* A command without a lease is idle; `attach` is the first attempt, `queue` the wait
\* for startup.lock, `poll` and `probe` the loop below it, `probed` and `spawn` the
\* two halves of starting a broker.
WithStartup == {"poll", "probe", "probed", "spawn"}
NoLease == [state |-> "idle", server |-> None, started |-> FALSE]

TypeOK ==
    /\ owner \in Clients \cup Brokers \cup {None}
    /\ startup \in Clients \cup {None}
    /\ socket \in Brokers \cup {None}
    /\ phase \in [Brokers -> Phases]
    /\ leases \in [Brokers -> SUBSET LeaseStream]
    /\ \A b \in Brokers :
         Cardinality({s \in leases[b] : s.stage = "leased"}) <= MAX_LEASES
    /\ conn \in [Clients -> [state : {"none", "connecting", "stale", "open", "ending"},
                             broker : Brokers \cup {None}, cancelled : BOOLEAN]]
    /\ client \in [Clients ->
         [state : {"idle", "attach", "queue", "held", "failed", "dead"}
                    \cup WithStartup,
          server : Brokers \cup {None}, started : BOOLEAN]]
    /\ faults \in 0 .. MAX_FAULTS
    /\ resumes \in 0 .. MAX_RESUMES

Init ==
    /\ owner = None /\ startup = None /\ socket = None
    /\ phase = [b \in Brokers |-> "gone"]
    /\ leases = [b \in Brokers |-> {}]
    /\ conn = [k \in Clients |-> NoConn]
    /\ client = [k \in Clients |-> NoLease]
    /\ faults = 0 /\ resumes = 0

----------------------------------------------------------------------------
(* A command acquires a lease.                                             *)

request(k) == [client |-> k, live |-> TRUE, stage |-> "queued"]
granted(k) == [request(k) EXCEPT !.stage = "leased"]

\* The command's end of its IPC connection to its server is closed.
hang_up(k) ==
    leases' = [b \in Brokers |->
        IF b = client[k].server
        THEN {[s EXCEPT !.live = @ /\ s.client # k] : s \in leases[b]}
        ELSE leases[b]]

goto(k, state) == client' = [client EXCEPT ![k].state = state, ![k].server = None]

release_startup(k) == startup' = IF startup = k THEN None ELSE startup

\* The lease is gone when the broker's end of its connection is.
is_closed(k) == granted(k) \notin leases[client[k].server]

\* ClientEndpoint::lease keeps a lease that is not closed.
Acquire(k) ==
    /\ \/ client[k].state = "idle"
       \/ client[k].state = "held" /\ is_closed(k)
    /\ client' = [client EXCEPT ![k] = [NoLease EXCEPT !.state = "attach"]]
    /\ UNCHANGED <<owner, startup, socket, phase, leases, conn, faults, resumes>>

attaching(k) == client[k].state \in {"attach", "poll"}

somebody_listens == socket # None /\ phase[socket] \in Listening

\* attach connects to whatever listens on the socket and asks for a lease.
AttachConnect(k) ==
    /\ attaching(k) /\ client[k].server = None
    /\ somebody_listens
    /\ leases' = [leases EXCEPT ![socket] = @ \cup {request(k)}]
    /\ client' = [client EXCEPT ![k].server = socket]
    /\ UNCHANGED <<owner, startup, socket, phase, conn, faults, resumes>>

Attached(k) ==
    /\ attaching(k) /\ client[k].server # None
    /\ granted(k) \in leases[client[k].server]
    /\ client' = [client EXCEPT ![k].state = "held", ![k].started = FALSE]
    /\ release_startup(k)
    /\ UNCHANGED <<owner, socket, phase, leases, conn, faults, resumes>>

\* Nobody listens; the broker refused the request or dropped the connection; or two
\* seconds passed without an answer, which may be on its way.
attach_fails(k) ==
    /\ attaching(k)
    /\ \/ client[k].server = None /\ ~somebody_listens
       \/ /\ client[k].server # None
          /\ \/ {request(k), granted(k)} \cap leases[client[k].server] = {}
             \/ ~Patient \/ phase[client[k].server] # "serving"

AttachFails(k) ==
    /\ attach_fails(k)
    /\ hang_up(k)
    /\ goto(k, IF client[k].state = "attach" THEN "queue" ELSE "probe")
    /\ UNCHANGED <<owner, startup, socket, phase, conn, faults, resumes>>

LockStartup(k) ==
    /\ client[k].state = "queue" /\ startup = None
    /\ startup' = k
    /\ goto(k, "poll")
    /\ UNCHANGED <<owner, socket, phase, leases, conn, faults, resumes>>

\* The startup deadline, or a broker that cannot be spawned.
AcquireFails(k) ==
    /\ ~Patient
    /\ client[k].state \in {"queue", "probe", "spawn"}
    /\ goto(k, "failed")
    /\ release_startup(k)
    /\ UNCHANGED <<owner, socket, phase, leases, conn, faults, resumes>>

\* A command that has started a broker waits for it.
may_spawn(k) == ~client[k].started /\ owner = None

\* Mutant: a broker is started without looking for one that drains.
ProbeOwnerSkipped(k) ==
    /\ client[k].state = "probe"
    /\ goto(k, IF client[k].started THEN "poll" ELSE "spawn")
    /\ UNCHANGED <<owner, startup, socket, phase, leases, conn, faults, resumes>>

\* The lock is tried, to see whether a broker is starting or draining.
ProbeOwner(k) ==
    /\ client[k].state = "probe"
    /\ IF may_spawn(k)
       THEN owner' = k /\ goto(k, "probed")
       ELSE owner' = owner /\ goto(k, "poll")
    /\ UNCHANGED <<startup, socket, phase, leases, conn, faults, resumes>>

UnlockOwner(k) ==
    /\ client[k].state = "probed"
    /\ owner' = None
    /\ goto(k, "spawn")
    /\ UNCHANGED <<startup, socket, phase, leases, conn, faults, resumes>>

\* The new process is none that a command still remembers.
Spawn(k) ==
    /\ client[k].state = "spawn"
    /\ \E b \in Brokers :
         /\ ~alive(b) /\ \A j \in Clients : client[j].server # b
         /\ phase' = [phase EXCEPT ![b] = "starting"]
    /\ client' = [client EXCEPT ![k].state = "poll", ![k].started = TRUE]
    /\ UNCHANGED <<owner, startup, socket, leases, conn, faults, resumes>>

\* ClientEndpoint::close ends this command's lease only.
Close(k) ==
    /\ client[k].state = "held"
    /\ hang_up(k)
    /\ goto(k, "idle")
    /\ UNCHANGED <<owner, startup, socket, phase, conn, faults, resumes>>

\* A killed command loses its connections and its locks.
KillClient(k) ==
    /\ client[k].state # "dead" /\ faults < MAX_FAULTS
    /\ faults' = faults + 1
    /\ hang_up(k)
    /\ goto(k, "dead")
    /\ release_startup(k)
    /\ owner' = IF owner = k THEN None ELSE owner
    /\ UNCHANGED <<socket, phase, conn, resumes>>

----------------------------------------------------------------------------
(* Operation::Connect of a command that holds a lease.                     *)

\* ClientEndpoint::connect goes through the lease the command has.
holds_lease(k) == client[k].state = "held" /\ ~is_closed(k)

\* The lease is looked up, and the endpoint is cloned (the broker has none to lend
\* while it replaces it: the task waits for the lock).
Connect(k) ==
    /\ holds_lease(k) /\ conn[k] = NoConn
    /\ phase[client[k].server] = "serving"
    /\ conn' = [conn EXCEPT ![k] = [NoConn EXCEPT !.state = "connecting",
                                                  !.broker = client[k].server]]
    /\ UNCHANGED <<owner, startup, socket, phase, leases, client, faults, resumes>>

\* The publisher is reached.  The connection is stored whether or not the lease
\* was cancelled meanwhile.
Connected(k) ==
    /\ conn[k].state = "connecting"
    /\ conn' = [conn EXCEPT ![k].state = "open"]
    /\ UNCHANGED <<owner, startup, socket, phase, leases, client, faults, resumes>>

\* Mutant: connecting has no deadline, so an endpoint that was replaced and did not
\* close keeps the task that connects through it.
conn_ends_untimed(k) ==
    \/ conn[k].state \in {"connecting", "ending"}
    \/ conn[k].state # "none" /\ conn[k].cancelled

\* What ends the task: its lease is cancelled, connecting fails or times out (10 s,
\* waiting for the endpoint included), or the connection was closed.
conn_ends(k) ==
    \/ conn[k].state \in {"connecting", "stale", "ending"}
    \/ conn[k].state = "open" /\ conn[k].cancelled

ConnEnds(k) ==
    /\ conn_ends(k)
    /\ conn' = [conn EXCEPT ![k] = NoConn]
    /\ UNCHANGED <<owner, startup, socket, phase, leases, client, faults, resumes>>

\* The command or the publisher closes the connection.
ConnClosed(k) ==
    /\ conn[k].state = "open"
    /\ conn' = [conn EXCEPT ![k].state = "ending"]
    /\ UNCHANGED <<owner, startup, socket, phase, leases, client, faults, resumes>>

----------------------------------------------------------------------------
(* The broker.                                                             *)

\* Mutant: the lock is not taken.
LockOwnerNever(b) ==
    /\ phase[b] = "starting"
    /\ phase' = [phase EXCEPT ![b] = "locked"]
    /\ UNCHANGED <<owner, startup, socket, leases, conn, client, faults, resumes>>

\* The loser of a startup race ends at once.
LockOwner(b) ==
    /\ phase[b] = "starting"
    /\ IF owner = None
       THEN owner' = b /\ phase' = [phase EXCEPT ![b] = "locked"]
       ELSE owner' = owner /\ phase' = [phase EXCEPT ![b] = "gone"]
    /\ UNCHANGED <<startup, socket, leases, conn, client, faults, resumes>>

\* A socket file left by another broker is replaced.
BindSocket(b) ==
    /\ phase[b] = "locked"
    /\ socket' = b
    /\ phase' = [phase EXCEPT ![b] = "binding"]
    /\ UNCHANGED <<owner, startup, leases, conn, client, faults, resumes>>

BindEndpoint(b) ==
    /\ phase[b] = "binding"
    /\ phase' = [phase EXCEPT ![b] = "serving"]
    /\ UNCHANGED <<owner, startup, socket, leases, conn, client, faults, resumes>>

\* serve returns, and its listener with the backlog is dropped.
BindFails(b) ==
    /\ phase[b] = "binding" /\ faults < MAX_FAULTS
    /\ faults' = faults + 1
    /\ phase' = [phase EXCEPT ![b] = "closed"]
    /\ leases' = [leases EXCEPT ![b] = {}]
    /\ UNCHANGED <<owner, startup, socket, conn, client, resumes>>

leased(b) == {s \in leases[b] : s.stage = "leased"}

\* A connection is accepted and its task grants a lease, or refuses it.  An abandoned
\* request is granted too: its end is only noticed by the read that follows.
Accept(b, k) ==
    /\ phase[b] = "serving"
    /\ \E s \in leases[b] :
         /\ s.stage = "queued" /\ s.client = k
         /\ leases' = [leases EXCEPT ![b] =
              IF Cardinality(leased(b)) < MAX_LEASES
              THEN (@ \ {s}) \cup {[s EXCEPT !.stage = "leased"]}
              ELSE @ \ {s}]
    /\ UNCHANGED <<owner, startup, socket, phase, conn, client, faults, resumes>>

\* Mutant: the token stays in the table.
LeaseEndsWithoutRemoval(b, k) ==
    /\ \E s \in leased(b) :
         /\ s.client = k /\ ~s.live
         /\ conn' = [conn EXCEPT ![k].cancelled = @ \/ conn[k].broker = b]
    /\ UNCHANGED <<owner, startup, socket, phase, leases, client, faults, resumes>>

\* EOF, a byte or a killed command ends its lease and cancels its tasks.
LeaseEnds(b, k) ==
    /\ \E s \in leased(b) :
         /\ s.client = k /\ ~s.live
         /\ leases' = [leases EXCEPT ![b] = @ \ {s}]
         /\ conn' = [conn EXCEPT ![k].cancelled = @ \/ conn[k].broker = b]
    /\ UNCHANGED <<owner, startup, socket, phase, client, faults, resumes>>

no_tasks(b) == leased(b) = {} /\ \A k \in Clients : conn[k].broker # b

\* Mutant: leases do not count as use.
idle_without_connections(b) == \A k \in Clients : conn[k].broker # b

\* Requests that were not accepted yet do not count as use.
idle(b) ==
    /\ no_tasks(b)
    /\ Patient => \A k \in Clients : ~(client[k].state \in WithStartup /\ client[k].started)

IdleExit(b) ==
    /\ phase[b] = "serving" /\ idle(b)
    /\ phase' = [phase EXCEPT ![b] = "leaving"]
    /\ UNCHANGED <<owner, startup, socket, leases, conn, client, faults, resumes>>

\* The machine was suspended: the endpoint is replaced, its connections close, leases
\* stay.  Closing is given three seconds; a task that still connects keeps its clone of
\* an endpoint that takes longer.
Resume(b) ==
    /\ phase[b] = "serving" /\ resumes < MAX_RESUMES
    /\ resumes' = resumes + 1
    /\ phase' = [phase EXCEPT ![b] = "rebuilding"]
    /\ \E in_time \in BOOLEAN :
         conn' = [k \in Clients |->
            IF conn[k].broker = b
            THEN [conn[k] EXCEPT !.state =
                    IF @ = "connecting" /\ ~in_time THEN "stale" ELSE "ending"]
            ELSE conn[k]]
    /\ UNCHANGED <<owner, startup, socket, leases, client, faults>>

Rebuilt(b) ==
    /\ phase[b] = "rebuilding"
    /\ phase' = [phase EXCEPT ![b] = "serving"]
    /\ UNCHANGED <<owner, startup, socket, leases, conn, client, faults, resumes>>

RebuildFails(b) ==
    /\ phase[b] = "rebuilding" /\ faults < MAX_FAULTS
    /\ faults' = faults + 1
    /\ phase' = [phase EXCEPT ![b] = "leaving"]
    /\ UNCHANGED <<owner, startup, socket, leases, conn, client, resumes>>

drop_conns(b) ==
    conn' = [k \in Clients |-> IF conn[k].broker = b THEN NoConn ELSE conn[k]]

\* Leases are cancelled, tasks are aborted and waited for.
AbortTasks(b) ==
    /\ phase[b] = "leaving"
    /\ phase' = [phase EXCEPT ![b] = "closing"]
    /\ leases' = [leases EXCEPT ![b] = @ \ leased(b)]
    /\ drop_conns(b)
    /\ UNCHANGED <<owner, startup, socket, client, faults, resumes>>

\* The endpoint closes, or is dropped; so is the listener with its backlog.
ServeReturns(b) ==
    /\ phase[b] = "closing"
    /\ phase' = [phase EXCEPT ![b] = "closed"]
    /\ leases' = [leases EXCEPT ![b] = {}]
    /\ UNCHANGED <<owner, startup, socket, conn, client, faults, resumes>>

\* Mutant: the lock is given up first.
RemoveSocketUnlocked(b) ==
    /\ phase[b] = "closed"
    /\ IF owner = b
       THEN owner' = None /\ UNCHANGED <<socket, phase>>
       ELSE owner' = owner /\ socket' = None /\ phase' = [phase EXCEPT ![b] = "unlinked"]
    /\ UNCHANGED <<startup, leases, conn, client, faults, resumes>>

RemoveSocket(b) ==
    /\ phase[b] = "closed"
    /\ socket' = None
    /\ phase' = [phase EXCEPT ![b] = "unlinked"]
    /\ UNCHANGED <<owner, startup, leases, conn, client, faults, resumes>>

release_owner(b) == owner' = IF owner = b THEN None ELSE owner

Exit(b) ==
    /\ phase[b] = "unlinked"
    /\ release_owner(b)
    /\ phase' = [phase EXCEPT ![b] = "gone"]
    /\ UNCHANGED <<startup, socket, leases, conn, client, faults, resumes>>

\* A killed broker leaves its socket file behind.
KillBroker(b) ==
    /\ alive(b) /\ faults < MAX_FAULTS
    /\ faults' = faults + 1
    /\ release_owner(b)
    /\ phase' = [phase EXCEPT ![b] = "gone"]
    /\ leases' = [leases EXCEPT ![b] = {}]
    /\ drop_conns(b)
    /\ UNCHANGED <<startup, socket, client, resumes>>

----------------------------------------------------------------------------
Acquiring(k) ==
    \/ AttachConnect(k) \/ Attached(k) \/ AttachFails(k) \/ LockStartup(k)
    \/ ProbeOwner(k) \/ UnlockOwner(k) \/ Spawn(k)

Progress(b) ==
    \/ LockOwner(b) \/ BindSocket(b) \/ BindEndpoint(b) \/ BindFails(b) \/ Rebuilt(b)
    \/ RebuildFails(b) \/ AbortTasks(b) \/ ServeReturns(b) \/ RemoveSocket(b) \/ Exit(b)

Next ==
    \/ \E k \in Clients : \/ Acquire(k) \/ Acquiring(k) \/ AcquireFails(k)
                          \/ Close(k) \/ KillClient(k)
                          \/ Connect(k) \/ Connected(k) \/ ConnEnds(k) \/ ConnClosed(k)
    \/ \E b \in Brokers : \/ Progress(b) \/ IdleExit(b)
                          \/ Resume(b) \/ KillBroker(b)
                          \/ \E k \in Clients : Accept(b, k) \/ LeaseEnds(b, k)

Spec == Init /\ [][Next]_vars

\* Processes are scheduled: a command that began to acquire goes on, a broker goes
\* through its startup and its end, accepts, notices what was closed, and leaves when
\* it stays idle.  Requests are accepted in the order they come.  The loop of a
\* waiting command retries startup.lock for as long as it takes, so it gets the lock
\* when that is free again and again.
FairSpec ==
    /\ Spec
    /\ \A k \in Clients : /\ WF_vars(Acquiring(k))
                          /\ SF_vars(LockStartup(k))
                          /\ WF_vars(ConnEnds(k))
    /\ \A b \in Brokers : /\ WF_vars(Progress(b))
                          /\ \A k \in Clients : WF_vars(Accept(b, k))
                          /\ \A k \in Clients : WF_vars(LeaseEnds(b, k))
                          /\ WF_vars(IdleExit(b))

----------------------------------------------------------------------------
(* Properties.                                                             *)

HoldsEndpoint == Listening

\* The consumer identity is bound by one process at a time: commands that start brokers
\* concurrently, die halfway or find a draining one never register the identity twice
\* (comment in client_broker.rs at owner.lock).
OneEndpoint ==
    \A b, d \in Brokers :
        phase[b] \in HoldsEndpoint /\ phase[d] \in HoldsEndpoint => b = d

\* The socket file leads to the broker that serves: no broker that starts or ends takes
\* it away from another one.
SocketIsServers ==
    \A b \in Brokers : phase[b] \in {"binding", "serving", "rebuilding"} => socket = b

\* A broker that leaves because it is idle takes no lease from a command.
NoIdleEviction ==
    [][\A b \in Brokers : phase[b] = "serving" /\ phase'[b] = "leaving" =>
          \A k \in Clients : ~(client[k].state = "held" /\ client[k].server = b)]_vars

\* Every command that asks for a lease gets one, although brokers drain, exit idle and
\* drop their backlog while it asks: nobody waits for a broker nobody starts.
AcquireSucceeds ==
    \A k \in Clients : client[k].state = "attach" ~> client[k].state \in {"held", "dead"}

\* The broker exits by itself after the last lease (ClientEndpoint::close); no
\* connection outlives the lease it was made under, even one that was still being made
\* when the lease ended; and an endpoint that was replaced after a suspension does not
\* stay beside the new one for as long as the lease of the task that keeps it.
BrokerEnds ==
    /\ (\A k \in Clients : client[k].state \in {"idle", "failed", "dead"}) ~>
        (\/ \A b \in Brokers : ~alive(b)
         \/ \E k \in Clients : client[k].state \notin {"idle", "failed", "dead"})
    /\ \A k \in Clients :
        client[k].state \in {"idle", "dead"} /\ conn[k].state # "none" ~>
            conn[k].state = "none" \/ client[k].state \notin {"idle", "dead"}
    /\ \A k \in Clients : conn[k].state = "stale" ~> conn[k].state # "stale"

=============================================================================
