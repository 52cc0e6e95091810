------------------------------- MODULE Sessions -------------------------------
(***************************************************************************)
(* What a publisher serves once it is reachable (serve_endpoint in server.rs): *)
(* SSH sessions with their commands (ssh/mod.rs, ssh/exec.rs) and forwarded    *)
(* TCP connections (forward.rs), and the client that forwards a port           *)
(* (Client and listen in forward.rs).                                         *)
(*                                                                           *)
(* Every connection has a task of its own, an SSH session a second one inside  *)
(* the SSH library, every command and every forwarded stream one more.  The    *)
(* account may be removed or replaced under all of them, the peers come and go, *)
(* and the server may be stopped at any moment.  Time is a step: a second       *)
(* passes when everything that was due in the one before has been done.        *)
(***************************************************************************)
EXTENDS Naturals, FiniteSets

CONSTANTS
    Conns,              \* incoming connections at a time
    Slots,              \* channels or streams of a connection at a time
    Consumer,           \* the identity the server was started for
    Other,              \* any other identity
    Nothing,
    MAX_PENDING_CONNECTIONS,
    MAX_AUTHENTICATED_CONNECTIONS,
    MAX_CHANNELS,       \* the 8 of channel_open_session
    MAX_STREAMS,
    Budgets             \* bounds: changes of the account on disk, connections of peers
                        \* and connections of the forwarding client, one choice per behaviour

ASSUME SessionBounds ==
    /\ MAX_PENDING_CONNECTIONS \in Nat \ {0}
    /\ MAX_AUTHENTICATED_CONNECTIONS \in Nat \ {0}
    /\ MAX_CHANNELS \in Nat \ {0}
    /\ MAX_STREAMS \in Nat \ {0}
    /\ Budgets \subseteq [changes : Nat, peers : Nat, opens : Nat]
    /\ Consumer # Other

\* A connection has finitely many channels, and none is no connection.
ASSUME SessionPlaces == IsFiniteSet(Slots) /\ Nothing \notin Conns

VARIABLES
    disk,       \* the consumer the publish account on disk authorizes
    since,      \* ghost: whole seconds since the disk stopped authorizing Consumer
    server,     \* serving, stopping (admission has ended), closed (serve_endpoint returned)
    conn,       \* the connections and where their tasks are
    chan,       \* their channels (SSH) or streams (TCP)
    fwd,        \* the forwarding client
    local,      \* the TCP connections it accepted
    budget      \* ghost: what is left of the bounds

vars == <<disk, since, server, conn, chan, fwd, local, budget>>
client == <<fwd, local>>

----------------------------------------------------------------------------
(* Connections.  One is `handshake' while it holds a pending permit, in one of   *)
(* Admitted while it holds an authenticated one, and `ended' when its task is    *)
(* gone and only what the task left behind is still there.                      *)

Admitted == {"setup", "auth", "open", "draining", "waiting", "update"}

at(c, places) == conn[c].at \in places

NoConn == [at |-> "free", alpn |-> "ssh", id |-> Consumer, capable |-> TRUE,
           due |-> "no", session |-> "none", ready |-> FALSE, left |-> FALSE]

NoChannel == [task |-> "none", listed |-> FALSE, cut |-> FALSE]

pending == {c \in Conns : at(c, {"handshake"})}

authenticated == {c \in Conns : at(c, Admitted)}

tasks(c) == {k \in Slots : chan[c][k].task # "none"}

channel_cancellations(c) == {k \in Slots : chan[c][k].listed}

\* The tokens of the channels are children of the session's, and that of the server's.
cancelled(c) == server # "serving" \/ ~at(c, {"auth", "open"})

\* Cancelling a token cancels those of all the channels under it.
cut(channels) == [k \in Slots |-> [channels[k] EXCEPT !.cut = @ \/ channels[k].task # "none"]]

\* The server's part of a connection goes to another place; its channels are cancelled.
cancel(c, place) ==
    /\ conn' = [conn EXCEPT ![c].at = place, ![c].due = "no"]
    /\ chan' = [chan EXCEPT ![c] = cut(@)]

\* The task of a connection returns, and with it everything it owned.
ended(c) == cancel(c, "ended")

\* authorize_consumer: the account is read from the disk every time.
authorized(id) == disk = id

\* ConsumerIdentityAuthorization: the identity was fixed when the endpoint was bound.
hook_accepts(id) == id = Consumer

NoForward == [at |-> "listening", holder |-> "listen", current |-> Nothing, setup |-> Nothing,
              tried |-> FALSE]

Init ==
    /\ disk = Consumer
    /\ since = 0
    /\ server = "serving"
    /\ conn = [c \in Conns |-> NoConn]
    /\ chan = [c \in Conns |-> [k \in Slots |-> NoChannel]]
    /\ fwd = NoForward
    /\ local = [k \in Slots |-> "none"]
    /\ budget \in Budgets

----------------------------------------------------------------------------
(* Admission: the loop of serve_endpoint, and the task it spawns. *)

\* A free place of the model, when the server has a pending permit for it.
admits(c) ==
    /\ server = "serving"
    /\ at(c, {"free"})
    /\ Cardinality(pending) < MAX_PENDING_CONNECTIONS

incoming(alpn, id, capable) ==
    [NoConn EXCEPT !.at = "handshake", !.alpn = alpn, !.id = id, !.capable = capable]

PeerConnects(c) ==
    /\ budget.peers > 0
    /\ admits(c)
    /\ \E alpn \in {"ssh", "update"}, peer \in {<<Consumer, TRUE>>, <<Consumer, FALSE>>, <<Other, TRUE>>} :
          conn' = [conn EXCEPT ![c] = incoming(alpn, peer[1], peer[2])]
    /\ budget' = [budget EXCEPT !.peers = @ - 1]
    /\ UNCHANGED <<disk, since, server, chan, client>>

\* The first thing each service does with an admitted connection: SSH and TCP ask the
\* disk who is authorized; SSH looks up the account of the system and its host key.
dispatched(c) ==
    CASE conn[c].alpn = "update" -> "update"
      [] authorized(conn[c].id) -> "setup"
      [] OTHER -> "ended"

\* The handshake ends in time.  Neither it nor the setup of an SSH session is
\* interrupted when the server stops.
HandshakeDone(c) ==
    /\ at(c, {"handshake"})
    /\ conn' = [conn EXCEPT ![c].at =
                    IF /\ hook_accepts(conn[c].id)
                       /\ Cardinality(authenticated) < MAX_AUTHENTICATED_CONNECTIONS
                    THEN dispatched(c)
                    ELSE "ended"]
    /\ UNCHANGED <<disk, since, server, chan, client, budget>>

HandshakeTimesOut(c) ==
    /\ at(c, {"handshake"})
    /\ ended(c)
    /\ UNCHANGED <<disk, since, server, client, budget>>

\* serve_stream starts the SSH library, which runs in a task of its own.
new_session(alpn) == IF alpn = "ssh" THEN "new" ELSE "none"

\* The setup request arrived and was answered.  The interval that rechecks the account
\* has its first tick at once.
SetupDone(c) ==
    /\ at(c, {"setup"}) /\ conn[c].capable /\ ~conn[c].left
    /\ conn[c].alpn = "tcp" => server = "serving"
    /\ conn' = [conn EXCEPT ![c].at = IF conn[c].alpn = "ssh" THEN "auth" ELSE "open",
                            ![c].due = "first", ![c].ready = TRUE,
                            ![c].session = new_session(conn[c].alpn)]
    /\ UNCHANGED <<disk, since, server, chan, client, budget>>

\* The system does not know the account the server runs as, or has no usable record of it.
LookupFails(c) ==
    /\ at(c, {"setup"}) /\ conn[c].alpn = "ssh"
    /\ ended(c)
    /\ UNCHANGED <<disk, since, server, client, budget>>

\* The host key cannot be read, opened or created, or is locked for 5 s.
HostKeyFails(c) ==
    /\ at(c, {"setup"}) /\ conn[c].alpn = "ssh"
    /\ ended(c)
    /\ UNCHANGED <<disk, since, server, client, budget>>

\* A wrong capability or a malformed request.
RequestRefused(c) ==
    /\ at(c, {"setup"}) /\ ~conn[c].capable
    /\ ended(c)
    /\ UNCHANGED <<disk, since, server, client, budget>>

\* The peer leaves, or 20 s pass without a request.
SetupTimesOut(c) ==
    /\ at(c, {"setup"})
    /\ ended(c)
    /\ UNCHANGED <<disk, since, server, client, budget>>

\* The update service, which Handoff models: its task may hand the server over.
UpdateEnds(c) ==
    /\ at(c, {"update"})
    /\ conn' = [conn EXCEPT ![c].at = "ended"]
    /\ UNCHANGED <<disk, since, server, chan, client, budget>>

\* Ctrl-C, the abort of a candidate, a handoff, or the end of the endpoint.
Stop ==
    /\ server = "serving"
    /\ server' = "stopping"
    /\ chan' = [c \in Conns |-> cut(chan[c])]
    /\ UNCHANGED <<disk, since, conn, client, budget>>

\* shutdown_connections has joined every task it spawned.
Drained ==
    /\ server = "stopping"
    /\ pending \cup authenticated = {}
    /\ server' = "closed"
    /\ UNCHANGED <<disk, since, conn, chan, client, budget>>

\* Nothing is left of a connection: its place is free.
Forgotten(c) ==
    /\ at(c, {"ended"}) /\ conn[c].session = "none" /\ tasks(c) = {}
    /\ c \notin {fwd.current, fwd.setup}
    /\ conn' = [conn EXCEPT ![c] = NoConn]
    /\ chan' = [chan EXCEPT ![c] = [k \in Slots |-> NoChannel]]
    /\ UNCHANGED <<disk, since, server, client, budget>>

----------------------------------------------------------------------------
(* The account, and the seconds that pass. *)

AccountChanges ==
    /\ budget.changes > 0
    /\ disk' \in {Consumer, Other, Nothing} \ {disk}
    /\ since' = IF disk' = Consumer THEN 0 ELSE since
    /\ budget' = [budget EXCEPT !.changes = @ - 1]
    /\ UNCHANGED <<server, conn, chan, client>>

\* A second passes only once every tick of the last one was taken and every cancelled
\* task has had its turn: both take far less.
settled ==
    \A c \in Conns : /\ conn[c].due = "no"
                     /\ \A k \in tasks(c) : ~chan[c][k].cut

Second ==
    /\ settled
    /\ since' = IF authorized(Consumer) THEN 0 ELSE IF since < 2 THEN since + 1 ELSE 2
    /\ conn' = [c \in Conns |-> IF at(c, {"auth", "open"}) THEN [conn[c] EXCEPT !.due = "tick"]
                                                           ELSE conn[c]]
    /\ UNCHANGED <<disk, server, chan, client, budget>>

\* Mutant: the tick looks at the account the session was admitted with.
TickTrusts(c) ==
    /\ conn[c].due # "no"
    /\ conn' = [conn EXCEPT ![c].due = "no"]
    /\ UNCHANGED <<disk, since, server, chan, client, budget>>

\* The recheck of every second.  SSH cancels the session and waits for it; TCP returns
\* and drops its streams.
Tick(c) ==
    /\ conn[c].due # "no"
    /\ IF authorized(conn[c].id)
       THEN /\ conn' = [conn EXCEPT ![c].due = "no"]
            /\ UNCHANGED chan
       ELSE cancel(c, IF conn[c].alpn = "ssh" THEN "draining" ELSE "ended")
    /\ UNCHANGED <<disk, since, server, client, budget>>

----------------------------------------------------------------------------
(* An SSH session: serve_stream and the task of the SSH library. *)

\* auth_succeeded; the library's task may come to it while the session is being ended.
Authenticates(c) ==
    /\ conn[c].session = "new" /\ conn[c].due # "first"
    /\ conn' = [conn EXCEPT ![c].session = "live", ![c].at = IF @ = "auth" THEN "open" ELSE @]
    /\ UNCHANGED <<disk, since, server, chan, client, budget>>

\* The library's task ends: the peer left, or failed to authenticate three times.
SessionOver(c) ==
    /\ conn[c].alpn = "ssh" /\ at(c, {"auth", "open"})
    /\ conn' = [conn EXCEPT ![c].at = "draining", ![c].due = "no", ![c].session = "none"]
    /\ chan' = [chan EXCEPT ![c] = [k \in Slots |-> [cut(@)[k] EXCEPT !.listed = FALSE]]]
    /\ UNCHANGED <<disk, since, server, client, budget>>

\* Mutant: an authenticated session is only ended by its ticks.
SessionOutlastsServer(c) ==
    /\ at(c, {"auth"})
    /\ cancel(c, "draining")
    /\ UNCHANGED <<disk, since, server, client, budget>>

\* 15 s have passed without authentication, or the server stops.
SessionCancelled(c) ==
    /\ conn[c].alpn = "ssh"
    /\ at(c, {"auth"}) \/ (at(c, {"open"}) /\ server # "serving")
    /\ cancel(c, "draining")
    /\ UNCHANGED <<disk, since, server, client, budget>>

\* The disconnect message is queued, or could not be for 2 s.
Disconnected(c) ==
    /\ at(c, {"draining"})
    /\ conn' = [conn EXCEPT ![c].at = "waiting"]
    /\ UNCHANGED <<disk, since, server, chan, client, budget>>

\* tasks.wait() returns and the connection is closed.
SessionDrained(c) ==
    /\ at(c, {"waiting"}) /\ tasks(c) = {}
    /\ conn' = [conn EXCEPT ![c].at = "ended"]
    /\ UNCHANGED <<disk, since, server, chan, client, budget>>

\* The library's task reads the disconnect message, or the closed connection; its
\* handler goes with it, and the list of channels.
LibraryEnds(c) ==
    /\ conn[c].session # "none" /\ at(c, {"waiting", "ended"})
    /\ conn' = [conn EXCEPT ![c].session = "none"]
    /\ chan' = [chan EXCEPT ![c] = [k \in Slots |-> [@[k] EXCEPT !.listed = FALSE]]]
    /\ UNCHANGED <<disk, since, server, client, budget>>

\* channel_open_session.  A channel counts until its task has ended and the peer has
\* acknowledged that.  It may be opened in a session that is being ended: its token is
\* then cancelled from the start.
ChannelOpens(c, k) ==
    /\ conn[c].session = "live"
    /\ chan[c][k] = NoChannel
    /\ Cardinality(channel_cancellations(c)) < MAX_CHANNELS
    /\ Cardinality(tasks(c)) < MAX_CHANNELS
    /\ chan' = [chan EXCEPT ![c][k] = [task |-> "asked", listed |-> TRUE, cut |-> cancelled(c)]]
    /\ UNCHANGED <<disk, since, server, conn, client, budget>>

\* channel_close: the peer's CLOSE takes the channel off the list and cancels its task.
ChannelCloses(c, k) ==
    /\ conn[c].session = "live"
    /\ chan[c][k].listed
    /\ chan' = [chan EXCEPT ![c][k].listed = FALSE, ![c][k].cut = chan[c][k].task # "none"]
    /\ UNCHANGED <<disk, since, server, conn, client, budget>>

\* run_channel starts the command.  Whether the request or the cancellation is seen
\* first, when both are there, is open: a cancelled channel may still start one.
Exec(c, k) ==
    /\ conn[c].session = "live"
    /\ chan[c][k].task = "asked"
    /\ chan' = [chan EXCEPT ![c][k].task = "running"]
    /\ UNCHANGED <<disk, since, server, conn, client, budget>>

----------------------------------------------------------------------------
(* A forwarded connection. *)

\* The client's marker makes a stream visible, whoever speaks first on it.
marker_sent(k) == local[k] = "opening"

\* The publisher's status: the port answered.
status_ready(c, k) == chan[c][k].task = "running"

\* A stream the client opened is accepted; the loop takes the end of the server and
\* the tick first.  Beyond
\* MAX_STREAMS it is reset, which the client sees as the end of the stream.
StreamOpens(c, k) ==
    /\ conn[c].alpn = "tcp" /\ at(c, {"open"}) /\ conn[c].due = "no" /\ server = "serving"
    /\ fwd.current = c /\ marker_sent(k)
    /\ chan[c][k] = NoChannel
    /\ Cardinality(tasks(c)) < MAX_STREAMS
    /\ chan' = [chan EXCEPT ![c][k] = [task |-> "asked", listed |-> FALSE, cut |-> FALSE]]
    /\ UNCHANGED <<disk, since, server, conn, client, budget>>

\* connect_loopback reached the port over IPv4 or IPv6.
StreamConnects(c, k) ==
    /\ conn[c].alpn = "tcp"
    /\ chan[c][k].task = "asked"
    /\ chan' = [chan EXCEPT ![c][k].task = "running"]
    /\ UNCHANGED <<disk, since, server, conn, client, budget>>

\* serve: cancellation drops the loop and its streams; the peer leaving ends it too.
ForwardEnds(c) ==
    /\ conn[c].alpn = "tcp" /\ at(c, {"setup", "open"})
    /\ server # "serving" \/ conn[c].left
    /\ ended(c)
    /\ UNCHANGED <<disk, since, server, client, budget>>

----------------------------------------------------------------------------
(* Channels and streams end alike. *)

\* A task without its command gives up (15 s, EOF, an invalid command; 20 s, a port that
\* does not answer); a cancelled one kills the process group and reaps the child, or drops
\* the socket; a command exits or a copy ends by itself.
TaskEnds(c, k) ==
    /\ chan[c][k].task # "none"
    /\ chan' = [chan EXCEPT ![c][k] = [@ EXCEPT !.task = "none", !.cut = FALSE]]
    /\ UNCHANGED <<disk, since, server, conn, client, budget>>

TaskMustEnd(c, k) ==
    /\ chan[c][k].cut \/ chan[c][k].task = "asked"
    /\ TaskEnds(c, k)

----------------------------------------------------------------------------
(* The forwarding client.  One task at a time is inside connection(): `listen', which  *)
(* wants to know that the publisher can be reached, or an accepted TCP connection.     *)

\* close_reason(): the client knows that its connection is gone.
usable == fwd.current # Nothing /\ ~conn[fwd.current].left /\ ~at(fwd.current, {"ended"})

Accepts(k) ==
    /\ fwd.at = "listening" /\ fwd.holder # "listen"
    /\ local[k] = "none"
    /\ Cardinality({j \in Slots : local[j] # "none"}) < MAX_STREAMS
    /\ local' = [local EXCEPT ![k] = "waiting"]
    /\ UNCHANGED <<disk, since, server, conn, chan, fwd, budget>>

\* connection() has the mutex: it takes the connection there is, or sets one up.
TakesConnection(k) ==
    /\ local[k] = "waiting" /\ fwd.holder = Nothing
    /\ IF usable
       THEN /\ local' = [local EXCEPT ![k] = "opening"]
            /\ UNCHANGED fwd
       ELSE /\ fwd' = [fwd EXCEPT !.holder = k, !.tried = FALSE]
            /\ UNCHANGED local
    /\ UNCHANGED <<disk, since, server, conn, chan, budget>>

\* open() reaches the publisher with the capability of the descriptor it holds, which
\* may be that of an earlier run.
Opens(c) ==
    /\ fwd.at = "listening" /\ fwd.holder # Nothing /\ fwd.setup = Nothing
    /\ budget.opens > 0
    /\ admits(c)
    /\ \E capable \in BOOLEAN : conn' = [conn EXCEPT ![c] = incoming("tcp", Consumer, capable)]
    /\ fwd' = [fwd EXCEPT !.setup = c]
    /\ budget' = [budget EXCEPT !.opens = @ - 1]
    /\ UNCHANGED <<disk, since, server, chan, local>>

\* The publisher answered Ready: the connection is committed.
SetupCommits ==
    /\ fwd.setup # Nothing /\ conn[fwd.setup].ready
    /\ fwd' = [fwd EXCEPT !.current = fwd.setup, !.setup = Nothing, !.holder = Nothing]
    /\ local' = [k \in Slots |-> IF fwd.holder = k THEN "opening" ELSE local[k]]
    /\ UNCHANGED <<disk, since, server, conn, chan, budget>>

\* The client closes its end; the publisher notices later.
leaves(cs) == conn' = [c \in Conns |-> IF c \in cs THEN [conn[c] EXCEPT !.left = TRUE] ELSE conn[c]]

\* open() fails or 20 s have passed.  SetupConnection closes what was not committed.  If
\* the service has another descriptor there is one more try; otherwise the holder fails,
\* and with `listen' the whole command.
setup_fails(closed) ==
    /\ fwd.at = "listening" /\ fwd.holder # Nothing
    /\ leaves(closed \cap {fwd.setup})
    /\ \/ /\ ~fwd.tried
          /\ fwd' = [fwd EXCEPT !.setup = Nothing, !.tried = TRUE]
          /\ UNCHANGED local
       \/ /\ fwd' = [fwd EXCEPT !.setup = Nothing, !.holder = Nothing,
                                !.at = IF fwd.holder = "listen" THEN "closing" ELSE @]
          /\ local' = [k \in Slots |-> IF fwd.holder = k THEN "none" ELSE local[k]]
    /\ UNCHANGED <<disk, since, server, chan, budget>>

\* Mutant: a setup that fails forgets its connection without closing it.
SetupForgotten == setup_fails({})

SetupBreaks == setup_fails(Conns)

\* forward_stream: the publisher connected the stream.
Copies(k) ==
    /\ local[k] = "opening" /\ fwd.current # Nothing
    /\ status_ready(fwd.current, k)
    /\ local' = [local EXCEPT ![k] = "copying"]
    /\ UNCHANGED <<disk, since, server, conn, chan, fwd, budget>>

\* The stream ends on either side, is reset, or could not be set up in 20 s.
LocalEnds(k) ==
    /\ local[k] \in {"opening", "copying"}
    /\ local' = [local EXCEPT ![k] = "none"]
    /\ UNCHANGED <<disk, since, server, conn, chan, fwd, budget>>

\* A signal: every task is dropped, and the endpoint with its connections is closed.
Interrupted ==
    /\ fwd.at = "listening"
    /\ fwd' = [fwd EXCEPT !.at = "closing", !.holder = Nothing, !.setup = Nothing]
    /\ local' = [k \in Slots |-> "none"]
    /\ leaves({fwd.setup})
    /\ UNCHANGED <<disk, since, server, chan, budget>>

\* endpoint.close(), given 3 s.
ForwardStops ==
    /\ fwd.at = "closing"
    /\ fwd' = [fwd EXCEPT !.at = "ended", !.current = Nothing]
    /\ leaves({fwd.current})
    /\ UNCHANGED <<disk, since, server, chan, local, budget>>

----------------------------------------------------------------------------
Next ==
    \/ AccountChanges \/ Second \/ Stop \/ Drained
    \/ \E c \in Conns :
          \/ PeerConnects(c) \/ HandshakeDone(c) \/ HandshakeTimesOut(c)
          \/ SetupDone(c) \/ LookupFails(c) \/ HostKeyFails(c) \/ RequestRefused(c)
          \/ SetupTimesOut(c) \/ UpdateEnds(c) \/ Forgotten(c)
          \/ Tick(c) \/ Authenticates(c) \/ SessionOver(c) \/ SessionCancelled(c)
          \/ Disconnected(c) \/ SessionDrained(c) \/ LibraryEnds(c) \/ ForwardEnds(c) \/ Opens(c)
          \/ \E k \in Slots : \/ ChannelOpens(c, k) \/ ChannelCloses(c, k) \/ Exec(c, k)
                              \/ StreamOpens(c, k) \/ StreamConnects(c, k) \/ TaskEnds(c, k)
    \/ SetupCommits \/ SetupBreaks \/ Interrupted \/ ForwardStops
    \/ \E k \in Slots : Accepts(k) \/ TakesConnection(k) \/ Copies(k) \/ LocalEnds(k)

Spec == Init /\ [][Next]_vars

\* Deadlines pass, cancelled tasks are run, sent messages are read or the connection is
\* found dead.  Nothing is assumed of what peers, commands and users decide.
Fairness ==
    /\ WF_vars(Drained)
    /\ \A c \in Conns :
          /\ WF_vars(HandshakeTimesOut(c)) /\ WF_vars(SetupTimesOut(c)) /\ WF_vars(UpdateEnds(c))
          /\ WF_vars(Tick(c)) /\ WF_vars(SessionCancelled(c)) /\ WF_vars(Disconnected(c)) /\ WF_vars(SessionDrained(c)) /\ WF_vars(LibraryEnds(c))
          /\ WF_vars(ForwardEnds(c))
          /\ \A k \in Slots : WF_vars(TaskMustEnd(c, k))

FairSpec == Spec /\ Fairness

----------------------------------------------------------------------------
running(c, k) == chan[c][k].task = "running"

\* A command runs, or a socket is open, only for the identity the server was started for,
\* on a connection that showed the capability; its authorization is taken back within two
\* seconds of the account's disappearance, whatever the session is doing then (the ticks of
\* ssh::serve_inner and forward::serve_inner); and no session has more than MAX_CHANNELS
\* commands, however fast the peer closes and opens channels (channel_open_session).
AccessIsRevoked ==
    \A c \in Conns :
        /\ \A k \in Slots : running(c, k) /\ ~chan[c][k].cut =>
              hook_accepts(conn[c].id) /\ conn[c].capable /\ since < 2
        /\ conn[c].alpn = "ssh" =>
              Cardinality({k \in Slots : running(c, k)}) <= MAX_CHANNELS

\* Once the server is told to stop, serve_endpoint returns, and from some moment on no
\* command runs and no socket is open: none started by the SSH library's task after the
\* session was ended survives either (serve_stream, shutdown_connections).
StoppedServerIsQuiet ==
    server = "stopping" ~>
        [](server = "closed" /\ \A c \in Conns : tasks(c) = {} /\ conn[c].session = "none")

\* Every connection the forwarding client made is the one it uses, the one it sets up, or
\* closed, and it sets up another only when the one it has is gone (Client::connection and
\* the drop of SetupConnection).
ForwarderOwnsConnections ==
    /\ \A c \in Conns :
          conn[c].alpn = "tcp" /\ ~at(c, {"free", "ended"}) /\ ~conn[c].left =>
              c \in {fwd.current, fwd.setup}
    /\ fwd.setup # Nothing /\ fwd.setup # fwd.current => ~usable

=============================================================================
