------------------------------- MODULE Broker_proofs -------------------------------
(***************************************************************************)
(* Proofs about Broker, for any numbers of commands, brokers, faults and      *)
(* suspensions: one endpoint per identity, a socket that leads to it, and no   *)
(* lease that an idle exit takes away.                                         *)
(***************************************************************************)
EXTENDS Broker, TLAPS

\* From owner.lock to the end of the process a broker owns the lock.
Owning == {"locked", "closed", "unlinked"} \cup Listening

\* The part of the types the argument needs.
TypeInv ==
    /\ owner \in Clients \cup Brokers \cup {None}
    /\ socket \in Brokers \cup {None}
    /\ phase \in [Brokers -> Phases]
    /\ conn \in [Clients -> [state : {"none", "connecting", "stale", "open", "ending"},
                             broker : Brokers \cup {None}, cancelled : BOOLEAN]]
    /\ client \in [Clients ->
         [state : {"idle", "attach", "queue", "held", "failed", "dead"}
                    \cup WithStartup,
          server : Brokers \cup {None}, started : BOOLEAN]]

\* owner.lock is where the phases say it is.
LockInv ==
    /\ \A b \in Brokers : phase[b] \in Owning => owner = b
    /\ \A k \in Clients : client[k].state = "probed" => owner = k

IInv == TypeInv /\ LockInv /\ SocketIsServers

LEMMA InitInv == Init => IInv
  BY BrokerAssumption
  DEF Init, IInv, TypeInv, LockInv, SocketIsServers, Owning, Listening,
      NoConn, NoLease, Phases, WithStartup

\* Steps that leave locks, phases and the socket alone.
LEMMA QuietStep ==
  ASSUME IInv, UNCHANGED <<owner, socket, phase>>, TypeInv',
         \A k \in Clients : client'[k].state = "probed" => client[k].state = "probed"
  PROVE  IInv'
  BY DEF IInv, LockInv, SocketIsServers

ClientStates ==
    {"idle", "attach", "queue", "held", "failed", "dead"} \cup WithStartup

\* goto moves one command.
LEMMA GotoType ==
  ASSUME TypeInv, NEW k \in Clients, NEW state \in ClientStates, goto(k, state)
  PROVE  /\ client' \in [Clients -> [state : ClientStates, server : Brokers \cup {None},
                                     started : BOOLEAN]]
         /\ client'[k].state = state
         /\ \A j \in Clients : j # k => client'[j] = client[j]
<1> DEFINE moved == [client[k] EXCEPT !.state = state, !.server = None]
<1>1. client' = [client EXCEPT ![k] = moved]
  BY DEF goto
<1>2. /\ moved \in [state : ClientStates, server : Brokers \cup {None}, started : BOOLEAN]
      /\ moved.state = state
  BY DEF TypeInv, ClientStates
<1> HIDE DEF moved
<1> QED BY <1>1, <1>2 DEF TypeInv, ClientStates

\* What a command does on its way to a lease, and what ends it.
LEMMA ClientStep ==
  ASSUME IInv, NEW k \in Clients,
         \/ Acquire(k) \/ Acquiring(k) \/ AcquireFails(k) \/ Close(k) \/ KillClient(k)
  PROVE  IInv'
<1>0. /\ {"attach", "queue", "probe", "poll", "probed", "spawn", "failed", "idle", "dead"}
         \subseteq ClientStates
      /\ TypeInv
  BY DEF ClientStates, WithStartup, IInv
<1> USE DEF NoLease
<1>1. CASE Acquire(k)
  BY <1>0, <1>1, QuietStep DEF Acquire, IInv, TypeInv
<1>2. CASE AttachConnect(k)
  BY <1>0, <1>2, QuietStep DEF AttachConnect, IInv, TypeInv
<1>3. CASE Attached(k)
  BY <1>0, <1>3, QuietStep, ZenonT(30) DEF Attached, IInv, TypeInv
<1>4. CASE AttachFails(k)
  <2> DEFINE next == IF client[k].state = "attach" THEN "queue" ELSE "probe"
  <2>1. next \in ClientStates /\ next # "probed" /\ goto(k, next)
    BY <1>0, <1>4 DEF AttachFails
  <2> HIDE DEF next
  <2> QED BY <1>0, <1>4, <2>1, GotoType, QuietStep
          DEF AttachFails, IInv, TypeInv, ClientStates
<1>5. CASE LockStartup(k)
  BY <1>0, <1>5, GotoType, QuietStep
  DEF LockStartup, IInv, TypeInv, ClientStates
<1>6. CASE AcquireFails(k)
  BY <1>0, <1>6, GotoType, QuietStep
  DEF AcquireFails, IInv, TypeInv, ClientStates
<1>7. CASE Close(k)
  BY <1>0, <1>7, GotoType, QuietStep
  DEF Close, IInv, TypeInv, ClientStates
<1>8. CASE ProbeOwner(k)
  <2>1. CASE may_spawn(k)
    <3>1. owner = None /\ owner' = k /\ goto(k, "probed") /\ UNCHANGED <<socket, phase, conn>>
      BY <1>8, <2>1 DEF ProbeOwner, may_spawn
    <3>2. TypeInv'
      BY <1>0, <3>1, GotoType DEF TypeInv, ClientStates
    <3> QED BY <1>0, <3>1, <3>2, GotoType, BrokerAssumption
            DEF IInv, LockInv, SocketIsServers
  <2>2. CASE ~may_spawn(k)
    BY <1>0, <1>8, <2>2, GotoType, QuietStep
    DEF ProbeOwner, IInv, TypeInv, ClientStates
  <2> QED BY <2>1, <2>2
<1>9. CASE UnlockOwner(k)
  <2>1. TypeInv'
    BY <1>0, <1>9, GotoType DEF UnlockOwner, TypeInv, ClientStates
  <2> QED BY <1>0, <1>9, <2>1, GotoType, BrokerAssumption
          DEF UnlockOwner, IInv, LockInv, SocketIsServers
<1>10. CASE Spawn(k)
  <2>1. PICK b \in Brokers : phase' = [phase EXCEPT ![b] = "starting"]
    BY <1>10 DEF Spawn
  <2>2. UNCHANGED <<owner, socket, conn>>
    BY <1>10 DEF Spawn
  <2>3. client' = [client EXCEPT ![k] = [client[k] EXCEPT !.state = "poll", !.started = TRUE]]
    BY <1>0, <1>10 DEF Spawn, TypeInv
  <2>4. TypeInv'
    BY <1>0, <2>1, <2>2, <2>3, ZenonT(30) DEF TypeInv, Phases, WithStartup
  <2>5. \A j \in Clients : client'[j].state = "probed" => client[j].state = "probed"
    BY <1>0, <2>3 DEF TypeInv
  <2> QED BY <1>0, <2>1, <2>2, <2>4, <2>5
          DEF IInv, TypeInv, LockInv, SocketIsServers, Owning, Listening
<1>11. CASE KillClient(k)
  <2>1. TypeInv'
    BY <1>0, <1>11, GotoType DEF KillClient, TypeInv, ClientStates
  <2> QED BY <1>0, <1>11, <2>1, GotoType, BrokerAssumption
          DEF KillClient, IInv, LockInv, SocketIsServers
<1> QED
  BY <1>1, <1>2, <1>3, <1>4, <1>5, <1>6, <1>7, <1>8, <1>9, <1>10, <1>11 DEF Acquiring

ConnType == [state : {"none", "connecting", "stale", "open", "ending"},
             broker : Brokers \cup {None}, cancelled : BOOLEAN]

\* The tasks of Operation::Connect.
LEMMA ConnectionStep ==
  ASSUME IInv, NEW k \in Clients,
         Connect(k) \/ Connected(k) \/ ConnEnds(k) \/ ConnClosed(k)
  PROVE  IInv'
<1>0. TypeInv BY DEF IInv
<1>1. UNCHANGED <<owner, socket, phase, client>>
  BY DEF Connect, Connected, ConnEnds, ConnClosed
<1>2. ASSUME NEW c \in ConnType, conn' = [conn EXCEPT ![k] = c]
      PROVE  IInv'
  <2>1. TypeInv'
    BY <1>0, <1>1, <1>2 DEF IInv, TypeInv, ConnType
  <2> QED BY <1>1, <2>1, QuietStep
<1>3. CASE Connect(k)
  <2> DEFINE c == [NoConn EXCEPT !.state = "connecting", !.broker = client[k].server]
  <2>1. c \in ConnType
    BY <1>0 DEF NoConn, ConnType, TypeInv
  <2> QED BY <1>2, <1>3, <2>1 DEF Connect
<1>4. CASE Connected(k)
  <2> DEFINE c == [conn[k] EXCEPT !.state = "open"]
  <2>1. c \in ConnType
    BY <1>0 DEF ConnType, TypeInv
  <2> QED BY <1>2, <1>4, <2>1 DEF Connected
<1>5. CASE ConnEnds(k)
  <2>1. NoConn \in ConnType
    BY DEF NoConn, ConnType
  <2> QED BY <1>2, <1>5, <2>1 DEF ConnEnds
<1>6. CASE ConnClosed(k)
  <2> DEFINE c == [conn[k] EXCEPT !.state = "ending"]
  <2>1. c \in ConnType
    BY <1>0 DEF ConnType, TypeInv
  <2> QED BY <1>2, <1>6, <2>1 DEF ConnClosed
<1> QED BY <1>3, <1>4, <1>5, <1>6

\* The broker's own steps.
LEMMA BrokerStep ==
  ASSUME IInv, NEW b \in Brokers,
         \/ Progress(b) \/ IdleExit(b) \/ Resume(b) \/ KillBroker(b)
         \/ \E k \in Clients : Accept(b, k) \/ LeaseEnds(b, k)
  PROVE  IInv'
<1> USE BrokerAssumption
    DEF IInv, TypeInv, LockInv, SocketIsServers, Owning, Listening, Phases
<1>1. CASE LockOwner(b)
  BY <1>1 DEF LockOwner
<1>2. CASE BindSocket(b)
  BY <1>2 DEF BindSocket
<1>3. CASE BindEndpoint(b)
  BY <1>3 DEF BindEndpoint
<1>4. CASE BindFails(b)
  BY <1>4 DEF BindFails
<1>5. CASE Rebuilt(b)
  BY <1>5 DEF Rebuilt
<1>6. CASE RebuildFails(b)
  BY <1>6 DEF RebuildFails
<1>7. CASE AbortTasks(b)
  BY <1>7 DEF AbortTasks, drop_conns, NoConn
<1>8. CASE ServeReturns(b)
  BY <1>8 DEF ServeReturns
<1>9. CASE RemoveSocket(b)
  BY <1>9 DEF RemoveSocket
<1>10. CASE Exit(b)
  BY <1>10 DEF Exit, release_owner
<1>11. CASE IdleExit(b)
  BY <1>11 DEF IdleExit
<1>12. CASE Resume(b)
  <2>1. PICK in_time \in BOOLEAN :
          conn' = [k \in Clients |->
            IF conn[k].broker = b
            THEN [conn[k] EXCEPT !.state =
                    IF @ = "connecting" /\ ~in_time THEN "stale" ELSE "ending"]
            ELSE conn[k]]
    BY <1>12 DEF Resume
  <2>2. TypeInv' BY <1>12, <2>1 DEF Resume
  <2>3. LockInv' /\ SocketIsServers' BY <1>12 DEF Resume
  <2> QED BY <2>2, <2>3
<1>13. CASE KillBroker(b)
  BY <1>13 DEF KillBroker, release_owner, drop_conns, NoConn
<1>14. ASSUME NEW k \in Clients, Accept(b, k) PROVE IInv'
  BY <1>14, QuietStep DEF Accept
<1>15. ASSUME NEW k \in Clients, LeaseEnds(b, k) PROVE IInv'
  <2> DEFINE gone == conn[k].cancelled \/ conn[k].broker = b
             c == [conn[k] EXCEPT !.cancelled = gone]
  <2>1. conn' = [conn EXCEPT ![k] = c] /\ UNCHANGED <<owner, socket, phase, client>>
    BY <1>15 DEF LeaseEnds
  <2>2. c \in ConnType /\ c.state = conn[k].state
    <3>1. conn[k] \in ConnType BY <1>15 DEF ConnType
    <3>2. gone \in BOOLEAN OBVIOUS
    <3> HIDE DEF gone
    <3> QED BY <3>1, <3>2 DEF ConnType
  <2> HIDE DEF c
  <2> QED BY <2>1, <2>2, QuietStep DEF ConnType
<1> QED
  BY <1>1, <1>2, <1>3, <1>4, <1>5, <1>6, <1>7, <1>8, <1>9, <1>10, <1>11, <1>12, <1>13,
     <1>14, <1>15 DEF Progress

LEMMA NextInv == IInv /\ [Next]_vars => IInv'
<1>1. ASSUME IInv, UNCHANGED vars PROVE IInv'
  BY <1>1 DEF vars, IInv, TypeInv, LockInv, SocketIsServers
<1> QED BY <1>1, ClientStep, ConnectionStep, BrokerStep DEF Next

LEMMA Invariant == Spec => []IInv
  BY InitInv, NextInv, PTL DEF Spec

\* For any number of commands and brokers, kills and failures: the socket file leads to
\* the broker that serves (client_broker.rs removes it only under owner.lock).
THEOREM SocketLeadsToServer == Spec => []SocketIsServers
<1>1. IInv => SocketIsServers BY DEF IInv
<1> QED BY Invariant, <1>1, PTL

\* For any number of commands and brokers, kills and failures: the consumer identity is
\* never bound by two processes (client_broker.rs holds owner.lock from before the bind
\* to after the close).
THEOREM OneEndpointPerIdentity == Spec => []OneEndpoint
<1>1. IInv => OneEndpoint
  BY BrokerAssumption DEF IInv, TypeInv, LockInv, OneEndpoint, Owning, HoldsEndpoint
<1> QED BY Invariant, <1>1, PTL

----------------------------------------------------------------------------
(* Leases.                                                                 *)

\* The broker has given up its leases.
Over == {"closing", "closed", "unlinked", "gone"}

LeaseType == leases \in [Brokers -> SUBSET LeaseStream]

\* The broker of a command that believes to hold a lease has that lease, until it
\* aborts its tasks.
HeldInv ==
    \A k \in Clients : client[k].state = "held" =>
        /\ client[k].server \in Brokers
        /\ \/ granted(k) \in leases[client[k].server]
           \/ phase[client[k].server] \in Over

LeaseInv == LeaseType /\ HeldInv

\* Initially nobody holds anything.
LEMMA InitLease == Init => LeaseInv
  BY DEF Init, LeaseInv, LeaseType, HeldInv, NoLease

\* A command's own stream is not another's, and a live one is not a queued one.
LEMMA Granted ==
  ASSUME NEW k \in Clients
  PROVE  /\ granted(k) \in LeaseStream
         /\ granted(k).client = k /\ granted(k).live = TRUE /\ granted(k).stage = "leased"
         /\ request(k) \in LeaseStream
  BY DEF granted, request, LeaseStream

\* Closing the end of one command leaves the leases of the others.
LEMMA HangUp ==
  ASSUME TypeInv, LeaseInv, NEW k \in Clients, hang_up(k)
  PROVE  /\ LeaseType'
         /\ \A j \in Clients, b \in Brokers :
              j # k /\ granted(j) \in leases[b] => granted(j) \in leases'[b]
<1> DEFINE closed(s) == [s EXCEPT !.live = s.live /\ s.client # k]
<1>1. leases' = [b \in Brokers |->
         IF b = client[k].server THEN {closed(s) : s \in leases[b]} ELSE leases[b]]
  BY Zenon DEF hang_up
<1>2. leases \in [Brokers -> SUBSET LeaseStream]
  BY DEF LeaseInv, LeaseType
<1>3. \A s \in LeaseStream : closed(s) \in LeaseStream
  <2> SUFFICES ASSUME NEW s \in LeaseStream PROVE closed(s) \in LeaseStream
    OBVIOUS
  <2>1. (s.live /\ s.client # k) \in BOOLEAN
    OBVIOUS
  <2> DEFINE still == s.live /\ s.client # k
  <2>2. closed(s) = [s EXCEPT !.live = still]
    OBVIOUS
  <2> HIDE DEF still
  <2>3. still \in BOOLEAN
    BY <2>1 DEF still
  <2>4. [s EXCEPT !.live = still] \in LeaseStream
    BY <2>3 DEF LeaseStream
  <2> QED BY <2>2, <2>4
<1>4. \A j \in Clients : j # k => closed(granted(j)) = granted(j)
  <2> SUFFICES ASSUME NEW j \in Clients, j # k PROVE closed(granted(j)) = granted(j)
    OBVIOUS
  <2>1. (granted(j).live /\ granted(j).client # k) = TRUE
    BY Granted
  <2>2. closed(granted(j)) = [granted(j) EXCEPT !.live = TRUE]
    BY <2>1
  <2>3. [granted(j) EXCEPT !.live = TRUE] = granted(j)
    BY Granted DEF LeaseStream
  <2> QED BY <2>2, <2>3
<1> HIDE DEF closed
<1>5. LeaseType'
  BY <1>1, <1>2, <1>3 DEF LeaseType
<1>6. ASSUME NEW j \in Clients, NEW b \in Brokers, j # k, granted(j) \in leases[b]
      PROVE  granted(j) \in leases'[b]
  BY <1>1, <1>4, <1>6
<1> QED BY <1>5, <1>6

\* Steps of a command that leave its server and the phases alone or let go of it.
LEMMA ClientMoves ==
  ASSUME TypeInv, LeaseInv, NEW k \in Clients, LeaseType', UNCHANGED phase,
         \A j \in Clients : j # k => client'[j] = client[j],
         \A j \in Clients, b \in Brokers :
              j # k /\ granted(j) \in leases[b] => granted(j) \in leases'[b],
         client'[k].state = "held" => /\ client'[k].server \in Brokers
                                      /\ granted(k) \in leases'[client'[k].server]
  PROVE  LeaseInv'
<1> SUFFICES ASSUME NEW j \in Clients, client'[j].state = "held"
             PROVE  /\ client'[j].server \in Brokers
                    /\ granted(j) \in leases'[client'[j].server]
                       \/ phase'[client'[j].server] \in Over
  BY DEF LeaseInv, HeldInv, granted, request
<1>1. CASE j = k
  BY <1>1
<1>2. CASE j # k
  BY <1>2 DEF LeaseInv, HeldInv
<1> QED BY <1>1, <1>2

\* A command holds what it attached to; nothing it does ends another's lease.
LEMMA ClientLease ==
  ASSUME TypeInv, LeaseInv, NEW k \in Clients,
         \/ Acquire(k) \/ Acquiring(k) \/ AcquireFails(k) \/ Close(k) \/ KillClient(k)
  PROVE  LeaseInv'
<1>0. /\ {"attach", "queue", "probe", "poll", "probed", "spawn", "failed", "idle", "dead"}
         \subseteq ClientStates \ {"held"}
      /\ leases \in [Brokers -> SUBSET LeaseStream]
      /\ client \in [Clients -> [state : ClientStates, server : Brokers \cup {None},
                                 started : BOOLEAN]]
  BY DEF ClientStates, WithStartup, LeaseInv, LeaseType, TypeInv
<1>1. ASSUME UNCHANGED <<phase, leases>>,
             \A j \in Clients : j # k => client'[j] = client[j],
             client'[k].state # "held"
      PROVE  LeaseInv'
  BY <1>0, <1>1, ClientMoves DEF LeaseType
<1>2. ASSUME UNCHANGED phase, hang_up(k), NEW state \in ClientStates \ {"held"},
             goto(k, state)
      PROVE  LeaseInv'
  BY <1>2, GotoType, HangUp, ClientMoves
<1>3. ASSUME UNCHANGED <<phase, leases>>, NEW state \in ClientStates \ {"held"},
             goto(k, state)
      PROVE  LeaseInv'
  BY <1>1, <1>3, GotoType
<1>4. CASE Acquire(k)
  <2>1. client' = [client EXCEPT ![k] = [NoLease EXCEPT !.state = "attach"]]
        /\ UNCHANGED <<phase, leases>>
    BY <1>4 DEF Acquire
  <2> QED BY <1>0, <1>1, <2>1 DEF NoLease
<1>5. CASE AttachConnect(k)
  <2>1. /\ socket \in Brokers /\ UNCHANGED phase /\ client[k].state # "held"
        /\ leases' = [leases EXCEPT ![socket] = @ \cup {request(k)}]
        /\ client' = [client EXCEPT ![k] = [client[k] EXCEPT !.server = socket]]
    BY <1>5 DEF AttachConnect, somebody_listens, TypeInv, attaching
  <2>2. LeaseType'
    BY <1>0, <2>1, Granted DEF LeaseType
  <2>3. \A b \in Brokers : leases[b] \subseteq leases'[b]
    BY <1>0, <2>1
  <2>4. client'[k].state = client[k].state /\ \A j \in Clients : j # k => client'[j] = client[j]
    BY <1>0, <2>1
  <2> QED BY <2>1, <2>2, <2>3, <2>4, ClientMoves
<1>6. CASE Attached(k)
  <2>1. /\ UNCHANGED <<phase, leases>> /\ client[k].server # None
        /\ granted(k) \in leases[client[k].server]
        /\ client' = [client EXCEPT ![k] =
                        [client[k] EXCEPT !.state = "held", !.started = FALSE]]
    BY <1>6 DEF Attached
  <2>2. /\ client'[k].server = client[k].server
        /\ \A j \in Clients : j # k => client'[j] = client[j]
        /\ client[k].server \in Brokers
    BY <1>0, <2>1
  <2>3. LeaseType'
    BY <1>0, <2>1 DEF LeaseType
  <2> QED BY <2>1, <2>2, <2>3, ClientMoves
<1>7. CASE AttachFails(k)
  BY <1>0, <1>2, <1>7 DEF AttachFails
<1>8. CASE LockStartup(k)
  BY <1>0, <1>3, <1>8 DEF LockStartup
<1>9. CASE AcquireFails(k)
  BY <1>0, <1>3, <1>9 DEF AcquireFails
<1>10. CASE Close(k)
  BY <1>0, <1>2, <1>10 DEF Close
<1>11. CASE ProbeOwner(k)
  BY <1>0, <1>3, <1>11 DEF ProbeOwner
<1>12. CASE UnlockOwner(k)
  BY <1>0, <1>3, <1>12 DEF UnlockOwner
<1>13. CASE KillClient(k)
  BY <1>0, <1>2, <1>13 DEF KillClient
<1>14. CASE Spawn(k)
  <2>1. PICK b \in Brokers : /\ \A j \in Clients : client[j].server # b
                             /\ phase' = [phase EXCEPT ![b] = "starting"]
    BY <1>14 DEF Spawn
  <2>2. /\ UNCHANGED leases
        /\ client' = [client EXCEPT ![k] =
                        [client[k] EXCEPT !.state = "poll", !.started = TRUE]]
    BY <1>14 DEF Spawn
  <2>3. /\ client'[k].state = "poll"
        /\ \A j \in Clients : j # k => client'[j] = client[j]
        /\ \A d \in Brokers : d # b => phase'[d] = phase[d]
    BY <1>0, <2>1, <2>2 DEF TypeInv
  <2>4. LeaseType'
    BY <1>0, <2>2 DEF LeaseType
  <2> QED BY <2>1, <2>2, <2>3, <2>4 DEF LeaseInv, HeldInv, granted, request
<1> QED
  BY <1>4, <1>5, <1>6, <1>7, <1>8, <1>9, <1>10, <1>11, <1>12, <1>13, <1>14 DEF Acquiring

\* A broker drops a lease when its command hung up or the broker ends.
LEMMA BrokerLease ==
  ASSUME TypeInv, LeaseInv, NEW b \in Brokers,
         \/ Progress(b) \/ IdleExit(b) \/ Resume(b) \/ KillBroker(b)
         \/ \E k \in Clients : Accept(b, k) \/ LeaseEnds(b, k)
  PROVE  LeaseInv'
<1>0. /\ leases \in [Brokers -> SUBSET LeaseStream] /\ phase \in [Brokers -> Phases]
  BY DEF LeaseInv, LeaseType, TypeInv
<1>1. ASSUME UNCHANGED <<leases, client>>, NEW f \in Phases,
             phase' = [phase EXCEPT ![b] = f],
             phase[b] \in Over => f \in Over
      PROVE  LeaseInv'
  BY <1>0, <1>1 DEF LeaseInv, LeaseType, HeldInv, granted, request
<1>2. ASSUME UNCHANGED client, NEW f \in Over, phase' = [phase EXCEPT ![b] = f],
             NEW L \in SUBSET LeaseStream, leases' = [leases EXCEPT ![b] = L]
      PROVE  LeaseInv'
  BY <1>0, <1>2 DEF LeaseInv, LeaseType, HeldInv, granted, request
<1>3. ASSUME UNCHANGED <<phase, client>>,
             NEW L \in SUBSET LeaseStream, leases' = [leases EXCEPT ![b] = L],
             \A k \in Clients : granted(k) \in leases[b] => granted(k) \in L
      PROVE  LeaseInv'
  BY <1>0, <1>3 DEF LeaseInv, LeaseType, HeldInv, granted, request
<1>4. CASE LockOwner(b)
  <2>1. PICK f \in {"locked", "gone"} : phase' = [phase EXCEPT ![b] = f]
    BY <1>4 DEF LockOwner
  <2> QED BY <1>1, <1>4, <2>1 DEF LockOwner, Phases, Over
<1>5. CASE BindSocket(b)
  BY <1>1, <1>5 DEF BindSocket, Phases, Over
<1>6. CASE BindEndpoint(b)
  BY <1>1, <1>6 DEF BindEndpoint, Phases, Over
<1>19. ASSUME UNCHANGED client, NEW f \in Over, phase' = [phase EXCEPT ![b] = f],
              leases' = [leases EXCEPT ![b] = {}]
       PROVE  LeaseInv'
  <2>1. {} \in SUBSET LeaseStream
    OBVIOUS
  <2> QED BY <1>2, <1>19, <2>1
<1>7. CASE BindFails(b)
  BY <1>19, <1>7 DEF BindFails, Over
<1>8. CASE Rebuilt(b)
  BY <1>1, <1>8 DEF Rebuilt, Phases, Over
<1>9. CASE RebuildFails(b)
  BY <1>1, <1>9 DEF RebuildFails, Phases, Over
<1>10. CASE AbortTasks(b)
  <2>1. leases[b] \ leased(b) \in SUBSET LeaseStream
    BY <1>0
  <2> QED BY <1>2, <1>10, <2>1 DEF AbortTasks, Over
<1>11. CASE ServeReturns(b)
  BY <1>19, <1>11 DEF ServeReturns, Over
<1>12. CASE RemoveSocket(b)
  BY <1>1, <1>12 DEF RemoveSocket, Phases, Over
<1>13. CASE Exit(b)
  BY <1>1, <1>13 DEF Exit, Phases, Over
<1>14. CASE IdleExit(b)
  BY <1>1, <1>14 DEF IdleExit, Phases, Over
<1>15. CASE Resume(b)
  BY <1>1, <1>15 DEF Resume, Phases, Over
<1>16. CASE KillBroker(b)
  BY <1>19, <1>16 DEF KillBroker, Over
<1>17. ASSUME NEW k \in Clients, Accept(b, k) PROVE LeaseInv'
  <2>1. PICK s \in leases[b] :
          /\ s.stage = "queued"
          /\ leases' = [leases EXCEPT ![b] =
               IF Cardinality(leased(b)) < MAX_LEASES
               THEN (@ \ {s}) \cup {[s EXCEPT !.stage = "leased"]}
               ELSE @ \ {s}]
    BY <1>17 DEF Accept
  <2> DEFINE L == IF Cardinality(leased(b)) < MAX_LEASES
                  THEN (leases[b] \ {s}) \cup {[s EXCEPT !.stage = "leased"]}
                  ELSE leases[b] \ {s}
  <2>2. leases' = [leases EXCEPT ![b] = L] /\ UNCHANGED <<phase, client>>
    BY <1>17, <2>1 DEF Accept
  <2>3. s \in LeaseStream /\ [s EXCEPT !.stage = "leased"] \in LeaseStream
    BY <1>0 DEF LeaseStream
  <2>4. \A j \in Clients : granted(j) # s
    BY <2>1, Granted
  <2>5. L \in SUBSET LeaseStream
    BY <1>0, <2>3
  <2>6. leases[b] \ {s} \subseteq L
    OBVIOUS
  <2> HIDE DEF L
  <2> QED BY <1>3, <2>2, <2>4, <2>5, <2>6
<1>18. ASSUME NEW k \in Clients, LeaseEnds(b, k) PROVE LeaseInv'
  <2>1. PICK s \in leases[b] : ~s.live /\ leases' = [leases EXCEPT ![b] = leases[b] \ {s}]
    BY <1>18 DEF LeaseEnds, leased
  <2>2. \A j \in Clients : granted(j) # s
    BY <2>1, Granted
  <2>3. leases[b] \ {s} \in SUBSET LeaseStream
    BY <1>0
  <2>4. UNCHANGED <<phase, client>>
    BY <1>18 DEF LeaseEnds
  <2> QED BY <1>3, <2>1, <2>2, <2>3, <2>4
<1> QED
  BY <1>4, <1>5, <1>6, <1>7, <1>8, <1>9, <1>10, <1>11, <1>12, <1>13, <1>14, <1>15, <1>16,
     <1>17, <1>18 DEF Progress

\* Every step keeps it.
LEMMA NextLease == IInv /\ LeaseInv /\ [Next]_vars => LeaseInv'
<1> SUFFICES ASSUME TypeInv, LeaseInv, [Next]_vars PROVE LeaseInv'
  BY DEF IInv
<1>1. ASSUME UNCHANGED <<phase, leases, client>> PROVE LeaseInv'
  BY <1>1 DEF LeaseInv, LeaseType, HeldInv, granted, request
<1>2. ASSUME NEW k \in Clients, Connect(k) \/ Connected(k) \/ ConnEnds(k) \/ ConnClosed(k)
      PROVE  LeaseInv'
  BY <1>1, <1>2 DEF Connect, Connected, ConnEnds, ConnClosed
<1>3. CASE UNCHANGED vars
  BY <1>1, <1>3 DEF vars
<1> QED BY <1>2, <1>3, ClientLease, BrokerLease DEF Next

\* A broker goes from serving to leaving by its idle exit only.
LEMMA LeavesIdle ==
  ASSUME TypeInv, [Next]_vars, NEW b \in Brokers,
         phase[b] = "serving", phase'[b] = "leaving"
  PROVE  IdleExit(b)
<1>0. phase \in [Brokers -> Phases]
  BY DEF TypeInv
<1>1. ASSUME NEW k \in Clients,
             \/ Acquire(k) \/ Acquiring(k) \/ AcquireFails(k) \/ Close(k) \/ KillClient(k)
             \/ Connect(k) \/ Connected(k) \/ ConnEnds(k) \/ ConnClosed(k)
      PROVE  phase' = phase \/ \E d \in Brokers : phase' = [phase EXCEPT ![d] = "starting"]
  BY <1>1 DEF Acquire, Acquiring, AttachConnect, Attached, AttachFails, LockStartup,
     ProbeOwner, UnlockOwner, Spawn, AcquireFails, Close, KillClient, Connect, Connected,
     ConnEnds, ConnClosed
<1>2. ASSUME NEW d \in Brokers, Progress(d)
      PROVE  \E f \in Phases : /\ phase' = [phase EXCEPT ![d] = f]
                               /\ phase[d] = "serving" => f # "leaving"
  BY <1>2 DEF Progress, LockOwner, BindSocket, BindEndpoint, BindFails, Rebuilt, RebuildFails,
     AbortTasks, ServeReturns, RemoveSocket, Exit, Phases
<1>3. ASSUME NEW d \in Brokers, Resume(d) \/ KillBroker(d)
      PROVE  \E f \in {"rebuilding", "gone"} : phase' = [phase EXCEPT ![d] = f]
  BY <1>3 DEF Resume, KillBroker
<1>4. ASSUME NEW d \in Brokers, NEW k \in Clients, Accept(d, k) \/ LeaseEnds(d, k)
      PROVE  phase' = phase
  BY <1>4 DEF Accept, LeaseEnds
<1>5. ASSUME NEW d \in Brokers, IdleExit(d) PROVE d = b
  BY <1>0, <1>5 DEF IdleExit
<1>6. ~UNCHANGED phase
  OBVIOUS
<1>7. ~\E d \in Brokers, f \in Phases \ {"leaving"} : phase' = [phase EXCEPT ![d] = f]
  BY <1>0
<1>8. ASSUME NEW d \in Brokers, Progress(d) PROVE FALSE
  BY <1>0, <1>2, <1>8
<1>9. {"starting", "rebuilding", "gone"} \subseteq Phases \ {"leaving"}
  BY DEF Phases
<1>10. ~UNCHANGED vars
  BY <1>6 DEF vars
<1> QED BY <1>1, <1>3, <1>4, <1>5, <1>6, <1>7, <1>8, <1>9, <1>10 DEF Next

\* For any number of commands, brokers, kills and suspensions: a broker that leaves
\* because it is idle takes no lease from a command that believes to hold one, although
\* leases arrive, end and are abandoned in between (client_broker.rs looks at its tasks
\* and its leases under one lock).
THEOREM IdleExitEvictsNobody == Spec => NoIdleEviction
<1> DEFINE Evicts == \E b \in Brokers :
               /\ phase[b] = "serving" /\ phase'[b] = "leaving"
               /\ \E k \in Clients : client[k].state = "held" /\ client[k].server = b
<1>1. IInv /\ LeaseInv /\ [Next]_vars => ~Evicts
  <2> SUFFICES ASSUME TypeInv, LeaseInv, [Next]_vars, NEW b \in Brokers,
                      phase[b] = "serving", phase'[b] = "leaving", NEW k \in Clients,
                      client[k].state = "held", client[k].server = b
               PROVE  FALSE
    BY DEF IInv
  <2>1. leased(b) = {}
    BY LeavesIdle DEF IdleExit, idle, no_tasks
  <2>2. granted(k) \in leases[b]
    BY DEF LeaseInv, HeldInv, Over
  <2> QED BY <2>1, <2>2, Granted DEF leased
<1>2. IInv /\ LeaseInv /\ [Next]_vars =>
        [\A b \in Brokers : phase[b] = "serving" /\ phase'[b] = "leaving" =>
          \A k \in Clients : ~(client[k].state = "held" /\ client[k].server = b)]_vars
  BY <1>1
<1> QED BY <1>2, InitLease, NextLease, Invariant, PTL DEF Spec, NoIdleEviction
=============================================================================
