----------------------------- MODULE Sessions_proofs -----------------------------
(***************************************************************************)
(* Proofs about Sessions, for any connections, finitely many channels of each  *)
(* and any bounds: how long an account that is gone still gives access, and    *)
(* which connections the forwarding client answers for.                        *)
(***************************************************************************)
EXTENDS Sessions, FiniteSetTheorems, TLAPS

ConnState ==
    [at : {"free", "handshake", "ended"} \cup Admitted, alpn : {"ssh", "update", "tcp"},
     id : {Consumer, Other}, capable : BOOLEAN, due : {"no", "first", "tick"},
     session : {"none", "new", "live"}, ready : BOOLEAN, left : BOOLEAN]

ChannelState == [task : {"none", "asked", "running"}, listed : BOOLEAN, cut : BOOLEAN]

Served == {"auth", "open"}

busy(channels) == {k \in Slots : channels[k].task # "none"}

----------------------------------------------------------------------------
(* One connection d with its channels, s seconds after the account went.       *)

\* Channels that are not cancelled belong to a session that has taken its first tick.
ChannelsOwned(d, channels) ==
    /\ \A k \in Slots : channels[k].task # "none" /\ ~channels[k].cut => d.at \in Served /\ d.due # "first"
    /\ d.at = "free" => busy(channels) = {}
    /\ d.alpn = "ssh" => Cardinality(busy(channels)) <= MAX_CHANNELS

\* Who gets as far as a session.
Admission(d) ==
    /\ d.at \in {"setup"} \cup Served => d.id = Consumer
    /\ d.at \in Served => d.capable

\* A session that is served in the second after the account went has a tick to take,
\* and one that is served later has not begun.
Ticking(d, s) ==
    /\ d.due # "no" => d.at \in Served
    /\ d.due = "first" => d.session # "live"
    /\ d.session # "none" => d.at # "free"
    /\ d.at \in Served => (s = 0 \/ d.due # "no") /\ (s < 2 \/ d.due = "first")

Sound(d, channels, s) ==
    /\ d \in ConnState /\ channels \in [Slots -> ChannelState]
    /\ ChannelsOwned(d, channels) /\ Admission(d) /\ Ticking(d, s)

SessionInv ==
    /\ disk \in {Consumer, Other, Nothing} /\ since \in 0..2
    /\ disk = Consumer => since = 0
    /\ conn \in [Conns -> ConnState] /\ chan \in [Conns -> [Slots -> ChannelState]]
    /\ \A c \in Conns : Sound(conn[c], chan[c], since)

----------------------------------------------------------------------------
(* The forwarding client.                                                    *)

ForwardState ==
    [at : {"listening", "closing", "ended"}, holder : {"listen", Nothing} \cup Slots,
     current : Conns \cup {Nothing}, setup : Conns \cup {Nothing}, tried : BOOLEAN]

\* Whoever sets a connection up does so because the last one is gone, which it stays.
ForwardInv ==
    /\ fwd \in ForwardState
    /\ \A c \in {fwd.current, fwd.setup} \ {Nothing} : conn[c].at # "free"
    /\ fwd.setup # Nothing => fwd.holder # Nothing
    /\ fwd.holder # Nothing => ~usable
    /\ \A c \in Conns :
          conn[c].alpn = "tcp" /\ ~at(c, {"free", "ended"}) /\ ~conn[c].left =>
              c \in {fwd.current, fwd.setup}

----------------------------------------------------------------------------
(* Steps of one connection.                                                  *)

LEMMA NoConnType ==
    /\ NoConn \in ConnState /\ NoConn.at = "free" /\ NoConn.due = "no" /\ NoConn.left = FALSE
    /\ NoConn.session = "none" /\ NoConn.alpn = "ssh"
    /\ NoChannel \in ChannelState /\ NoChannel.task = "none"
  BY DEF NoConn, NoChannel, ConnState, ChannelState, Admitted

\* Cancelling leaves the same channels, all of them cancelled.
LEMMA CutAll ==
    ASSUME NEW channels \in [Slots -> ChannelState]
    PROVE  /\ cut(channels) \in [Slots -> ChannelState] /\ busy(cut(channels)) = busy(channels)
           /\ \A k \in Slots : /\ cut(channels)[k].task = channels[k].task
                               /\ cut(channels)[k].task # "none" => cut(channels)[k].cut
  <1> SUFFICES ASSUME NEW k \in Slots
               PROVE  /\ cut(channels)[k] \in ChannelState /\ cut(channels)[k].task = channels[k].task
                      /\ channels[k].task # "none" => cut(channels)[k].cut
    BY DEF cut, busy
  <1>1. channels[k] \in ChannelState
    OBVIOUS
  <1>2. cut(channels)[k] = [channels[k] EXCEPT !.cut = @ \/ channels[k].task # "none"]
    BY DEF cut
  <1> QED BY <1>1, <1>2 DEF ChannelState

LEMMA NoTasks ==
    /\ [k \in Slots |-> NoChannel] \in [Slots -> ChannelState]
    /\ busy([k \in Slots |-> NoChannel]) = {}
    /\ Cardinality(busy([k \in Slots |-> NoChannel])) <= MAX_CHANNELS
  <1>1. busy([k \in Slots |-> NoChannel]) = {}
    BY NoConnType DEF busy
  <1> QED BY <1>1, NoConnType, FS_EmptySet, SessionBounds

\* One connection and its channels change.
LEMMA OneConnection ==
    ASSUME SessionInv, NEW c \in Conns, NEW d, NEW channels,
           conn' = [conn EXCEPT ![c] = d], chan' = [chan EXCEPT ![c] = channels],
           disk' = disk, since' = since, Sound(d, channels, since)
    PROVE  SessionInv'
  <1>1. conn \in [Conns -> ConnState] /\ chan \in [Conns -> [Slots -> ChannelState]]
    BY DEF SessionInv
  <1>2. d \in ConnState /\ channels \in [Slots -> ChannelState]
    BY DEF Sound
  <1>3. ASSUME NEW x \in Conns PROVE Sound(conn'[x], chan'[x], since')
    <2>1. CASE x = c
      BY <1>1, <2>1
    <2>2. CASE x # c
      BY <1>1, <2>2 DEF SessionInv
    <2> QED BY <2>1, <2>2
  <1> QED BY <1>1, <1>2, <1>3 DEF SessionInv

LEMMA ConnectionOnly ==
    ASSUME SessionInv, NEW c \in Conns, NEW d,
           conn' = [conn EXCEPT ![c] = d], chan' = chan,
           disk' = disk, since' = since, Sound(d, chan[c], since)
    PROVE  SessionInv'
  <1>1. chan' = [chan EXCEPT ![c] = chan[c]]
    BY DEF SessionInv
  <1> QED BY <1>1, OneConnection

LEMMA ChannelsOnly ==
    ASSUME SessionInv, NEW c \in Conns, NEW channels,
           conn' = conn, chan' = [chan EXCEPT ![c] = channels],
           disk' = disk, since' = since, Sound(conn[c], channels, since)
    PROVE  SessionInv'
  <1>1. conn' = [conn EXCEPT ![c] = conn[c]]
    BY DEF SessionInv
  <1> QED BY <1>1, OneConnection

LEMMA SoundOf ==
    ASSUME SessionInv, NEW c \in Conns
    PROVE  /\ Sound(conn[c], chan[c], since) /\ conn[c] \in ConnState /\ chan[c] \in [Slots -> ChannelState]
           /\ ChannelsOwned(conn[c], chan[c]) /\ Admission(conn[c]) /\ Ticking(conn[c], since)
           /\ since \in 0..2 /\ (disk = Consumer => since = 0)
  BY DEF SessionInv, Sound

\* A connection is cancelled.
LEMMA CancelKeeps ==
    ASSUME SessionInv, NEW c \in Conns, NEW place \in {"ended", "draining"},
           cancel(c, place), disk' = disk, since' = since
    PROVE  SessionInv'
  <1> DEFINE d == [conn[c] EXCEPT !.at = place, !.due = "no"]
  <1>0. conn \in [Conns -> ConnState] /\ chan \in [Conns -> [Slots -> ChannelState]]
    BY DEF SessionInv
  <1>1. conn' = [conn EXCEPT ![c] = d] /\ chan' = [chan EXCEPT ![c] = cut(chan[c])]
    BY <1>0, Zenon DEF cancel
  <1>2. d \in ConnState /\ d.at = place /\ d.due = "no" /\ d.alpn = conn[c].alpn
    BY SoundOf DEF ConnState, Admitted
  <1> HIDE DEF d
  <1>3. /\ cut(chan[c]) \in [Slots -> ChannelState] /\ busy(cut(chan[c])) = busy(chan[c])
        /\ \A k \in Slots : cut(chan[c])[k].task # "none" => cut(chan[c])[k].cut
    BY SoundOf, CutAll
  <1>4. ChannelsOwned(d, cut(chan[c]))
    BY <1>2, <1>3, SoundOf DEF ChannelsOwned
  <1>5. Admission(d) /\ Ticking(d, since)
    BY <1>2 DEF Admission, Ticking, Served
  <1>6. Sound(d, cut(chan[c]), since)
    BY <1>2, <1>3, <1>4, <1>5 DEF Sound
  <1> QED BY <1>1, <1>6, OneConnection

\* The task of a connection goes on to a place where it serves nobody.
LEMMA MovesOn ==
    ASSUME SessionInv, NEW c \in Conns, NEW place \in {"setup", "update", "waiting", "ended"},
           conn' = [conn EXCEPT ![c].at = place], chan' = chan, disk' = disk, since' = since,
           conn[c].at \notin Served, conn[c].at # "free",
           place = "setup" => conn[c].id = Consumer
    PROVE  SessionInv'
  <1> DEFINE d == [conn[c] EXCEPT !.at = place]
  <1>1. conn' = [conn EXCEPT ![c] = d]
    OBVIOUS
  <1>2. /\ d \in ConnState /\ d.at = place /\ d.due = conn[c].due /\ d.alpn = conn[c].alpn
        /\ d.id = conn[c].id /\ d.session = conn[c].session
    BY SoundOf DEF ConnState, Admitted
  <1> HIDE DEF d
  <1>3. conn[c].due = "no"
    BY SoundOf DEF Ticking
  <1>4. ChannelsOwned(d, chan[c]) /\ Admission(d) /\ Ticking(d, since)
    BY <1>2, <1>3, SoundOf DEF ChannelsOwned, Admission, Ticking, Served
  <1> QED BY <1>1, <1>2, <1>4, SoundOf, ConnectionOnly DEF Sound

\* A peer or the forwarding client takes a free place.
LEMMA Arrives ==
    ASSUME SessionInv, NEW c \in Conns, NEW alpn \in {"ssh", "update", "tcp"}, NEW id \in {Consumer, Other},
           NEW capable \in BOOLEAN, at(c, {"free"}),
           conn' = [conn EXCEPT ![c] = incoming(alpn, id, capable)],
           chan' = chan, disk' = disk, since' = since
    PROVE  SessionInv'
  <1> DEFINE d == incoming(alpn, id, capable)
  <1>1. d \in ConnState /\ d.at = "handshake" /\ d.due = "no"
    BY NoConnType DEF incoming, ConnState
  <1>2. busy(chan[c]) = {} /\ \A k \in Slots : chan[c][k].task = "none"
    <2>1. busy(chan[c]) = {}
      BY SoundOf DEF ChannelsOwned, at
    <2> QED BY <2>1 DEF busy
  <1> HIDE DEF d
  <1>3. Cardinality(busy(chan[c])) <= MAX_CHANNELS
    BY <1>2, FS_EmptySet, SessionBounds
  <1>4. ChannelsOwned(d, chan[c]) /\ Admission(d) /\ Ticking(d, since)
    BY <1>1, <1>2, <1>3 DEF ChannelsOwned, Admission, Ticking, Served
  <1> QED BY <1>1, <1>4, SoundOf, ConnectionOnly DEF Sound, d

\* One channel changes; if it is a new one it is not one too many, and if it is not
\* cancelled the connection is served.
LEMMA OneChannel ==
    ASSUME SessionInv, NEW c \in Conns, NEW k \in Slots, NEW channel \in ChannelState,
           conn' = conn, chan' = [chan EXCEPT ![c][k] = channel], disk' = disk, since' = since,
           channel.task # "none" /\ ~channel.cut =>
               \/ chan[c][k].task # "none" /\ ~chan[c][k].cut
               \/ conn[c].at \in Served /\ conn[c].due # "first",
           channel.task # "none" /\ chan[c][k].task = "none" =>
               /\ conn[c].at # "free"
               /\ conn[c].alpn = "ssh" => Cardinality(busy(chan[c])) < MAX_CHANNELS
    PROVE  SessionInv'
  <1> DEFINE channels == [chan[c] EXCEPT ![k] = channel]
  <1>0. chan \in [Conns -> [Slots -> ChannelState]] /\ chan[c] \in [Slots -> ChannelState]
    BY DEF SessionInv
  <1>1. chan' = [chan EXCEPT ![c] = channels]
    BY <1>0
  <1>2. /\ channels \in [Slots -> ChannelState] /\ channels[k] = channel
        /\ \A j \in Slots \ {k} : channels[j] = chan[c][j]
    BY <1>0
  <1> HIDE DEF channels
  <1>3. IsFiniteSet(busy(chan[c])) /\ Cardinality(busy(chan[c])) \in Nat
    BY SessionPlaces, FS_Subset, FS_CardinalityType DEF busy
  <1>4. conn[c].alpn = "ssh" => Cardinality(busy(channels)) <= MAX_CHANNELS
    <2> SUFFICES ASSUME conn[c].alpn = "ssh" PROVE Cardinality(busy(channels)) <= MAX_CHANNELS
      OBVIOUS
    <2>1. Cardinality(busy(chan[c])) <= MAX_CHANNELS /\ MAX_CHANNELS \in Nat
      BY SoundOf, SessionBounds DEF ChannelsOwned
    <2>2. CASE channel.task = "none" \/ chan[c][k].task # "none"
      <3>1. busy(channels) \subseteq busy(chan[c])
        BY <1>2, <2>2 DEF busy
      <3>2. Cardinality(busy(channels)) <= Cardinality(busy(chan[c])) /\ IsFiniteSet(busy(channels))
        BY <1>3, <3>1, FS_Subset
      <3>3. Cardinality(busy(channels)) \in Nat
        BY <3>2, FS_CardinalityType
      <3> QED BY <1>3, <2>1, <3>2, <3>3
    <2>3. CASE channel.task # "none" /\ chan[c][k].task = "none"
      <3>1. busy(channels) = busy(chan[c]) \cup {k} /\ k \notin busy(chan[c])
        BY <1>2, <2>3 DEF busy
      <3>2. Cardinality(busy(channels)) = Cardinality(busy(chan[c])) + 1
        BY <1>3, <3>1, FS_AddElement
      <3>3. Cardinality(busy(chan[c])) < MAX_CHANNELS
        BY <2>3
      <3> QED BY <1>3, <2>1, <3>2, <3>3
    <2> QED BY <2>2, <2>3
  <1>5. conn[c].at = "free" => busy(channels) = {}
    <2> SUFFICES ASSUME conn[c].at = "free", NEW j \in busy(channels) PROVE FALSE
      OBVIOUS
    <2>1. busy(chan[c]) = {} /\ j \in Slots /\ channels[j].task # "none"
      BY SoundOf DEF ChannelsOwned, busy
    <2>2. j = k
      BY <1>2, <2>1 DEF busy
    <2>3. channel.task # "none" /\ chan[c][k].task = "none"
      BY <1>2, <2>1, <2>2 DEF busy
    <2> QED BY <2>3
  <1>6. ASSUME NEW j \in Slots, channels[j].task # "none", ~channels[j].cut
        PROVE  conn[c].at \in Served /\ conn[c].due # "first"
    <2>1. CASE j # k
      BY <1>2, <1>6, <2>1, SoundOf DEF ChannelsOwned
    <2>2. CASE j = k
      BY <1>2, <1>6, <2>2, SoundOf DEF ChannelsOwned
    <2> QED BY <2>1, <2>2
  <1>7. ChannelsOwned(conn[c], channels)
    BY <1>4, <1>5, <1>6 DEF ChannelsOwned
  <1> QED BY <1>1, <1>2, <1>7, SoundOf, ChannelsOnly DEF Sound

\* The forwarding client leaves some of its connections.
LEMMA LeavesKeeps ==
    ASSUME SessionInv, NEW cs, leaves(cs), chan' = chan, disk' = disk, since' = since
    PROVE  SessionInv'
  <1>1. ASSUME NEW c \in Conns PROVE conn'[c] \in ConnState /\ Sound(conn'[c], chan'[c], since')
    <2>1. CASE c \notin cs
      <3>1. conn'[c] = conn[c]
        BY <2>1 DEF leaves
      <3> QED BY <3>1, SoundOf
    <2>2. CASE c \in cs
      <3>1. conn'[c] = [conn[c] EXCEPT !.left = TRUE]
        BY <2>2 DEF leaves
      <3>2. /\ conn'[c] \in ConnState /\ conn'[c].at = conn[c].at /\ conn'[c].due = conn[c].due
            /\ conn'[c].alpn = conn[c].alpn /\ conn'[c].session = conn[c].session
            /\ conn'[c].id = conn[c].id /\ conn'[c].capable = conn[c].capable
        BY <3>1, SoundOf DEF ConnState
      <3>3. ChannelsOwned(conn'[c], chan[c]) /\ Admission(conn'[c]) /\ Ticking(conn'[c], since)
        BY <3>2, SoundOf DEF ChannelsOwned, Admission, Ticking
      <3> QED BY <3>2, <3>3, SoundOf DEF Sound
    <2> QED BY <2>1, <2>2
  <1>2. conn' \in [Conns -> ConnState]
    BY <1>1 DEF leaves
  <1> QED BY <1>1, <1>2 DEF SessionInv

----------------------------------------------------------------------------
LEMMA SessionInit == Init => SessionInv
  <1> SUFFICES ASSUME Init PROVE SessionInv
    OBVIOUS
  <1>1. /\ disk = Consumer /\ since = 0 /\ conn = [c \in Conns |-> NoConn]
        /\ chan = [c \in Conns |-> [k \in Slots |-> NoChannel]]
    BY DEF Init
  <1>2. ASSUME NEW c \in Conns PROVE Sound(conn[c], chan[c], since)
    <2>1. conn[c] = NoConn /\ chan[c] = [k \in Slots |-> NoChannel]
      BY <1>1
    <2>2. ChannelsOwned(conn[c], chan[c])
      <3>1. \A k \in Slots : chan[c][k].task = "none"
        BY <2>1, NoConnType
      <3> QED BY <2>1, <3>1, NoTasks, NoConnType DEF ChannelsOwned
    <2>3. Admission(conn[c]) /\ Ticking(conn[c], since)
      BY <2>1, NoConnType DEF Admission, Ticking, Served
    <2> QED BY <2>1, <2>2, <2>3, NoConnType, NoTasks DEF Sound
  <1> QED BY <1>1, <1>2, NoConnType, NoTasks DEF SessionInv

\* Steps of the server's tasks for one connection.
LEMMA ConnectionSteps ==
    ASSUME SessionInv, NEW c \in Conns,
           \/ PeerConnects(c) \/ HandshakeDone(c) \/ HandshakeTimesOut(c)
           \/ SetupDone(c) \/ LookupFails(c) \/ HostKeyFails(c) \/ RequestRefused(c)
           \/ SetupTimesOut(c) \/ UpdateEnds(c) \/ Forgotten(c)
           \/ Tick(c) \/ Authenticates(c) \/ SessionOver(c) \/ SessionCancelled(c)
           \/ Disconnected(c) \/ SessionDrained(c) \/ LibraryEnds(c) \/ ForwardEnds(c) \/ Opens(c)
    PROVE  SessionInv'
  <1>0. /\ conn \in [Conns -> ConnState] /\ chan \in [Conns -> [Slots -> ChannelState]]
        /\ conn[c] \in ConnState /\ chan[c] \in [Slots -> ChannelState]
        /\ ChannelsOwned(conn[c], chan[c]) /\ Admission(conn[c]) /\ Ticking(conn[c], since)
        /\ since \in 0..2 /\ (disk = Consumer => since = 0)
    BY SoundOf DEF SessionInv
  <1>1. CASE PeerConnects(c)
    <2>1. PICK alpn \in {"ssh", "update"}, peer \in {<<Consumer, TRUE>>, <<Consumer, FALSE>>, <<Other, TRUE>>} :
            conn' = [conn EXCEPT ![c] = incoming(alpn, peer[1], peer[2])]
      BY <1>1, Zenon DEF PeerConnects
    <2>2. chan' = chan /\ disk' = disk /\ since' = since /\ at(c, {"free"})
      BY <1>1, Zenon DEF PeerConnects, admits
    <2>3. peer[1] \in {Consumer, Other} /\ peer[2] \in BOOLEAN
      <3>1. /\ <<Consumer, TRUE>>[1] = Consumer /\ <<Consumer, TRUE>>[2] = TRUE
            /\ <<Consumer, FALSE>>[1] = Consumer /\ <<Consumer, FALSE>>[2] = FALSE
            /\ <<Other, TRUE>>[1] = Other /\ <<Other, TRUE>>[2] = TRUE
        OBVIOUS
      <3> QED BY <3>1, Zenon
    <2> QED BY <2>1, <2>2, <2>3, Arrives
  <1>2. CASE Opens(c)
    <2>1. PICK capable \in BOOLEAN : conn' = [conn EXCEPT ![c] = incoming("tcp", Consumer, capable)]
      BY <1>2, Zenon DEF Opens
    <2>2. chan' = chan /\ disk' = disk /\ since' = since /\ at(c, {"free"})
      BY <1>2, Zenon DEF Opens, admits
    <2> QED BY <2>1, <2>2, Arrives
  <1>3. CASE HandshakeDone(c)
    <2> DEFINE place == IF /\ hook_accepts(conn[c].id)
                           /\ Cardinality(authenticated) < MAX_AUTHENTICATED_CONNECTIONS
                        THEN dispatched(c) ELSE "ended"
    <2>1. /\ conn' = [conn EXCEPT ![c].at = place] /\ chan' = chan /\ disk' = disk /\ since' = since
          /\ conn[c].at = "handshake"
      BY <1>3 DEF HandshakeDone, at
    <2>2. place \in {"setup", "update", "ended"} /\ (place = "setup" => conn[c].id = Consumer)
      BY DEF dispatched, hook_accepts
    <2> HIDE DEF place
    <2> QED BY <2>1, <2>2, MovesOn DEF Served
  <1>4. CASE HandshakeTimesOut(c) \/ LookupFails(c) \/ HostKeyFails(c) \/ RequestRefused(c)
             \/ SetupTimesOut(c) \/ ForwardEnds(c)
    <2>1. cancel(c, "ended") /\ disk' = disk /\ since' = since
      BY <1>4, Zenon DEF HandshakeTimesOut, LookupFails, HostKeyFails, RequestRefused, SetupTimesOut,
         ForwardEnds, ended
    <2> QED BY <2>1, CancelKeeps
  <1>5. CASE SetupDone(c)
    <2> DEFINE d == [conn[c] EXCEPT !.at = IF conn[c].alpn = "ssh" THEN "auth" ELSE "open",
                            !.due = "first", !.ready = TRUE, !.session = new_session(conn[c].alpn)]
    <2>1. /\ conn' = [conn EXCEPT ![c] = d] /\ chan' = chan /\ disk' = disk /\ since' = since
          /\ conn[c].at = "setup" /\ conn[c].capable
      BY <1>0, <1>5 DEF SetupDone, at
    <2>2. /\ d \in ConnState /\ d.at \in Served /\ d.due = "first" /\ d.session # "live"
          /\ d.alpn = conn[c].alpn /\ d.id = conn[c].id /\ d.capable = conn[c].capable
      BY <1>0 DEF ConnState, Admitted, Served, new_session
    <2> HIDE DEF d
    <2>3. ChannelsOwned(d, chan[c])
      BY <1>0, <2>1, <2>2 DEF ChannelsOwned, Served
    <2>4. Admission(d) /\ Ticking(d, since)
      BY <1>0, <2>1, <2>2 DEF Admission, Ticking, Served
    <2> QED BY <1>0, <2>1, <2>2, <2>3, <2>4, ConnectionOnly DEF Sound
  <1>6. CASE UpdateEnds(c) \/ Disconnected(c) \/ SessionDrained(c)
    <2>1. /\ conn' = [conn EXCEPT ![c].at = "ended"] \/ conn' = [conn EXCEPT ![c].at = "waiting"]
          /\ chan' = chan /\ disk' = disk /\ since' = since
          /\ conn[c].at \in {"update", "draining", "waiting"}
      BY <1>6, Zenon DEF UpdateEnds, Disconnected, SessionDrained, at
    <2> QED BY <2>1, MovesOn DEF Served
  <1>7. CASE Forgotten(c)
    <2>1. /\ conn' = [conn EXCEPT ![c] = NoConn] /\ chan' = [chan EXCEPT ![c] = [k \in Slots |-> NoChannel]]
          /\ disk' = disk /\ since' = since
      BY <1>7, Zenon DEF Forgotten
    <2>2. ChannelsOwned(NoConn, [k \in Slots |-> NoChannel])
      BY NoTasks, NoConnType DEF ChannelsOwned
    <2>3. Admission(NoConn) /\ Ticking(NoConn, since)
      BY NoConnType DEF Admission, Ticking, Served
    <2> QED BY <2>1, <2>2, <2>3, NoTasks, NoConnType, OneConnection DEF Sound
  <1>8. CASE Tick(c)
    <2>1. CASE authorized(conn[c].id)
      <3> DEFINE d == [conn[c] EXCEPT !.due = "no"]
      <3>1. /\ conn' = [conn EXCEPT ![c] = d] /\ chan' = chan /\ disk' = disk /\ since' = since
            /\ conn[c].due # "no"
        BY <1>8, <2>1, Zenon DEF Tick
      <3>2. /\ d \in ConnState /\ d.at = conn[c].at /\ d.due = "no" /\ d.alpn = conn[c].alpn
            /\ d.id = conn[c].id /\ d.capable = conn[c].capable /\ d.session = conn[c].session
        BY <1>0 DEF ConnState
      <3> HIDE DEF d
      <3>3. since = 0
        BY <1>0, <2>1, <3>1 DEF Admission, Ticking, authorized
      <3>4. ChannelsOwned(d, chan[c]) /\ Admission(d) /\ Ticking(d, since)
        BY <1>0, <3>2, <3>3 DEF ChannelsOwned, Admission, Ticking
      <3> QED BY <1>0, <3>1, <3>2, <3>4, ConnectionOnly DEF Sound
    <2>2. CASE ~authorized(conn[c].id)
      <3>1. (cancel(c, "draining") \/ cancel(c, "ended")) /\ disk' = disk /\ since' = since
        BY <1>8, <2>2, Zenon DEF Tick
      <3> QED BY <3>1, CancelKeeps
    <2> QED BY <2>1, <2>2
  <1>9. CASE Authenticates(c)
    <2> DEFINE d == [conn[c] EXCEPT !.session = "live", !.at = IF @ = "auth" THEN "open" ELSE @]
    <2>1. /\ conn' = [conn EXCEPT ![c] = d] /\ chan' = chan /\ disk' = disk /\ since' = since
          /\ conn[c].due # "first" /\ conn[c].session = "new"
      BY <1>0, <1>9 DEF Authenticates
    <2>2. /\ d \in ConnState /\ d.at = (IF conn[c].at = "auth" THEN "open" ELSE conn[c].at)
          /\ d.due = conn[c].due /\ d.alpn = conn[c].alpn
          /\ d.id = conn[c].id /\ d.capable = conn[c].capable
      BY <1>0 DEF ConnState, Admitted
    <2> HIDE DEF d
    <2>3. ChannelsOwned(d, chan[c])
      BY <1>0, <2>1, <2>2 DEF ChannelsOwned, Served
    <2>4. Admission(d) /\ Ticking(d, since)
      BY <1>0, <2>1, <2>2 DEF Admission, Ticking, Served
    <2> QED BY <1>0, <2>1, <2>2, <2>3, <2>4, ConnectionOnly DEF Sound
  <1>10. CASE SessionOver(c)
    <2> DEFINE d == [conn[c] EXCEPT !.at = "draining", !.due = "no", !.session = "none"]
               channels == [k \in Slots |-> [cut(chan[c])[k] EXCEPT !.listed = FALSE]]
    <2>1. /\ conn' = [conn EXCEPT ![c] = d] /\ chan' = [chan EXCEPT ![c] = channels]
          /\ disk' = disk /\ since' = since
      BY <1>0, <1>10, Zenon DEF SessionOver
    <2>2. d \in ConnState /\ d.at = "draining" /\ d.due = "no" /\ d.alpn = conn[c].alpn
      BY <1>0 DEF ConnState, Admitted
    <2>3. \A k \in Slots : /\ channels[k] \in ChannelState /\ channels[k].task = chan[c][k].task
                           /\ channels[k].task # "none" => channels[k].cut
      <3> SUFFICES ASSUME NEW k \in Slots
                   PROVE  /\ channels[k] \in ChannelState /\ channels[k].task = chan[c][k].task
                          /\ channels[k].task # "none" => channels[k].cut
        OBVIOUS
      <3>1. /\ cut(chan[c])[k] \in ChannelState /\ cut(chan[c])[k].task = chan[c][k].task
            /\ cut(chan[c])[k].task # "none" => cut(chan[c])[k].cut
        BY <1>0, CutAll
      <3>2. channels[k] = [cut(chan[c])[k] EXCEPT !.listed = FALSE]
        OBVIOUS
      <3> HIDE DEF channels
      <3> QED BY <3>1, <3>2 DEF ChannelState
    <2>4. channels \in [Slots -> ChannelState]
      BY <2>3
    <2> HIDE DEF d, channels
    <2>5. busy(channels) = busy(chan[c])
      BY <2>3 DEF busy
    <2>6. ChannelsOwned(d, channels) /\ Admission(d) /\ Ticking(d, since)
      BY <1>0, <2>2, <2>3, <2>5 DEF ChannelsOwned, Admission, Ticking, Served
    <2> QED BY <2>1, <2>2, <2>4, <2>6, OneConnection DEF Sound
  <1>11. CASE SessionCancelled(c)
    <2>1. cancel(c, "draining") /\ disk' = disk /\ since' = since
      BY <1>11, Zenon DEF SessionCancelled
    <2> QED BY <2>1, CancelKeeps
  <1>12. CASE LibraryEnds(c)
    <2> DEFINE d == [conn[c] EXCEPT !.session = "none"]
               channels == [k \in Slots |-> [chan[c][k] EXCEPT !.listed = FALSE]]
    <2>1. /\ conn' = [conn EXCEPT ![c] = d] /\ chan' = [chan EXCEPT ![c] = channels]
          /\ disk' = disk /\ since' = since
      BY <1>0, <1>12, Zenon DEF LibraryEnds
    <2>2. /\ d \in ConnState /\ d.at = conn[c].at /\ d.due = conn[c].due /\ d.alpn = conn[c].alpn
          /\ d.id = conn[c].id /\ d.capable = conn[c].capable /\ d.session = "none"
      BY <1>0 DEF ConnState
    <2>3. \A k \in Slots : /\ channels[k] \in ChannelState /\ channels[k].task = chan[c][k].task
                           /\ channels[k].cut = chan[c][k].cut
      BY <1>0 DEF ChannelState
    <2>4. channels \in [Slots -> ChannelState]
      BY <2>3
    <2> HIDE DEF d, channels
    <2>5. busy(channels) = busy(chan[c])
      BY <2>3 DEF busy
    <2>6. ChannelsOwned(d, channels) /\ Admission(d) /\ Ticking(d, since)
      BY <1>0, <2>2, <2>3, <2>5 DEF ChannelsOwned, Admission, Ticking, Served
    <2> QED BY <2>1, <2>2, <2>4, <2>6, OneConnection DEF Sound
  <1> QED BY <1>1, <1>2, <1>3, <1>4, <1>5, <1>6, <1>7, <1>8, <1>9, <1>10, <1>11, <1>12

\* Steps of the task of a channel, or of the library for it.
LEMMA ChannelSteps ==
    ASSUME SessionInv, NEW c \in Conns, NEW k \in Slots,
           \/ ChannelOpens(c, k) \/ ChannelCloses(c, k) \/ Exec(c, k)
           \/ StreamOpens(c, k) \/ StreamConnects(c, k) \/ TaskEnds(c, k)
    PROVE  SessionInv'
  <1>0. /\ chan \in [Conns -> [Slots -> ChannelState]] /\ conn[c] \in ConnState
        /\ chan[c][k] \in ChannelState /\ Ticking(conn[c], since) /\ tasks(c) = busy(chan[c])
    BY SoundOf DEF SessionInv, tasks, busy
  <1>1. CASE ChannelOpens(c, k)
    <2> DEFINE channel == [task |-> "asked", listed |-> TRUE, cut |-> cancelled(c)]
    <2>1. /\ conn' = conn /\ chan' = [chan EXCEPT ![c][k] = channel] /\ disk' = disk /\ since' = since
          /\ conn[c].session = "live" /\ Cardinality(tasks(c)) < MAX_CHANNELS
      BY <1>1, Zenon DEF ChannelOpens
    <2>2. cancelled(c) \in BOOLEAN
      BY DEF cancelled
    <2>3. channel \in ChannelState /\ channel.cut = cancelled(c)
      BY <2>2 DEF ChannelState
    <2> HIDE DEF channel
    <2>4. ~channel.cut => conn[c].at \in Served
      BY <2>3 DEF cancelled, at, Served
    <2>5. conn[c].due # "first"
      BY <1>0, <2>1 DEF Ticking
    <2>6. conn[c].at # "free"
      BY <1>0, <2>1 DEF Ticking
    <2> QED BY <1>0, <2>1, <2>3, <2>4, <2>5, <2>6, OneChannel
  <1>2. CASE ChannelCloses(c, k)
    <2> DEFINE channel == [chan[c][k] EXCEPT !.listed = FALSE, !.cut = chan[c][k].task # "none"]
    <2>1. conn' = conn /\ chan' = [chan EXCEPT ![c][k] = channel] /\ disk' = disk /\ since' = since
      BY <1>0, <1>2, Zenon DEF ChannelCloses
    <2>2. channel \in ChannelState /\ channel.task = chan[c][k].task /\ (channel.task # "none" => channel.cut)
      BY <1>0 DEF ChannelState
    <2> HIDE DEF channel
    <2> QED BY <2>1, <2>2, OneChannel
  <1>3. CASE Exec(c, k) \/ StreamConnects(c, k)
    <2> DEFINE channel == [chan[c][k] EXCEPT !.task = "running"]
    <2>1. /\ conn' = conn /\ chan' = [chan EXCEPT ![c][k] = channel] /\ disk' = disk /\ since' = since
          /\ chan[c][k].task = "asked"
      BY <1>0, <1>3, Zenon DEF Exec, StreamConnects
    <2>2. channel \in ChannelState /\ channel.cut = chan[c][k].cut
      BY <1>0 DEF ChannelState
    <2> HIDE DEF channel
    <2> QED BY <2>1, <2>2, OneChannel
  <1>4. CASE StreamOpens(c, k)
    <2> DEFINE channel == [task |-> "asked", listed |-> FALSE, cut |-> FALSE]
    <2>1. /\ conn' = conn /\ chan' = [chan EXCEPT ![c][k] = channel] /\ disk' = disk /\ since' = since
          /\ conn[c].alpn = "tcp" /\ conn[c].at = "open" /\ conn[c].due = "no"
      BY <1>4, Zenon DEF StreamOpens, at
    <2>2. channel \in ChannelState
      BY DEF ChannelState
    <2> HIDE DEF channel
    <2> QED BY <2>1, <2>2, OneChannel DEF Served
  <1>5. CASE TaskEnds(c, k)
    <2> DEFINE channel == [chan[c][k] EXCEPT !.task = "none", !.cut = FALSE]
    <2>1. conn' = conn /\ chan' = [chan EXCEPT ![c][k] = channel] /\ disk' = disk /\ since' = since
      BY <1>0, <1>5, Zenon DEF TaskEnds
    <2>2. channel \in ChannelState /\ channel.task = "none"
      BY <1>0 DEF ChannelState
    <2> HIDE DEF channel
    <2> QED BY <2>1, <2>2, OneChannel
  <1> QED BY <1>1, <1>2, <1>3, <1>4, <1>5

LEMMA SessionStep ==
    ASSUME SessionInv, [Next]_vars
    PROVE  SessionInv'
  <1>0. /\ conn \in [Conns -> ConnState] /\ chan \in [Conns -> [Slots -> ChannelState]]
        /\ since \in 0..2 /\ disk \in {Consumer, Other, Nothing} /\ (disk = Consumer => since = 0)
    BY DEF SessionInv
  <1>1. CASE AccountChanges
    <2>1. /\ disk' \in {Consumer, Other, Nothing} /\ conn' = conn /\ chan' = chan
          /\ since' = IF disk' = Consumer THEN 0 ELSE since
      BY <1>1 DEF AccountChanges
    <2>2. ASSUME NEW c \in Conns PROVE Sound(conn'[c], chan'[c], since')
      <3>1. Ticking(conn[c], since')
        BY <2>1, SoundOf DEF Ticking
      <3> QED BY <2>1, <3>1, SoundOf DEF Sound
    <2> QED BY <1>0, <2>1, <2>2 DEF SessionInv
  <1>2. CASE Second
    <2>1. /\ settled /\ chan' = chan /\ disk' = disk
          /\ since' = IF disk = Consumer THEN 0 ELSE IF since < 2 THEN since + 1 ELSE 2
          /\ conn' = [c \in Conns |-> IF at(c, Served) THEN [conn[c] EXCEPT !.due = "tick"] ELSE conn[c]]
      BY <1>2 DEF Second, authorized, Served
    <2>2. since' \in 0..2 /\ (since' = 2 => since >= 1) /\ (disk = Consumer => since' = 0)
      BY <1>0, <2>1
    <2>3. ASSUME NEW c \in Conns PROVE conn'[c] \in ConnState /\ Sound(conn'[c], chan'[c], since')
      <3>1. conn[c].due = "no"
        BY <2>1 DEF settled
      <3>2. CASE conn[c].at \notin Served
        <4>1. conn'[c] = conn[c]
          BY <2>1, <3>2 DEF at
        <4>2. Ticking(conn[c], since')
          BY <3>2, SoundOf DEF Ticking
        <4> QED BY <2>1, <4>1, <4>2, SoundOf DEF Sound
      <3>3. CASE conn[c].at \in Served
        <4>1. conn'[c] = [conn[c] EXCEPT !.due = "tick"]
          BY <2>1, <3>3 DEF at
        <4>2. /\ conn'[c] \in ConnState /\ conn'[c].at = conn[c].at /\ conn'[c].due = "tick"
              /\ conn'[c].alpn = conn[c].alpn /\ conn'[c].session = conn[c].session
              /\ conn'[c].id = conn[c].id /\ conn'[c].capable = conn[c].capable
          BY <4>1, SoundOf DEF ConnState
        <4>3. since = 0 /\ since' < 2
          BY <1>0, <2>1, <2>2, <3>1, <3>3, SoundOf DEF Ticking
        <4>4. ChannelsOwned(conn'[c], chan[c]) /\ Admission(conn'[c]) /\ Ticking(conn'[c], since')
          BY <3>3, <4>2, <4>3, SoundOf DEF ChannelsOwned, Admission, Ticking
        <4> QED BY <2>1, <4>2, <4>4, SoundOf DEF Sound
      <3> QED BY <3>2, <3>3
    <2>4. conn' \in [Conns -> ConnState]
      BY <2>1, <2>3
    <2> QED BY <1>0, <2>1, <2>2, <2>3, <2>4 DEF SessionInv
  <1>3. CASE Stop
    <2>1. chan' = [c \in Conns |-> cut(chan[c])] /\ conn' = conn /\ disk' = disk /\ since' = since
      BY <1>3, Zenon DEF Stop
    <2>2. ASSUME NEW c \in Conns
          PROVE  chan'[c] \in [Slots -> ChannelState] /\ Sound(conn'[c], chan'[c], since')
      <3>1. /\ chan'[c] \in [Slots -> ChannelState] /\ busy(chan'[c]) = busy(chan[c])
            /\ \A k \in Slots : chan'[c][k].task # "none" => chan'[c][k].cut
        BY <2>1, SoundOf, CutAll
      <3>2. ChannelsOwned(conn[c], chan'[c])
        BY <3>1, SoundOf DEF ChannelsOwned
      <3> QED BY <2>1, <3>1, <3>2, SoundOf DEF Sound
    <2>3. chan' \in [Conns -> [Slots -> ChannelState]]
      BY <2>1, <2>2
    <2> QED BY <1>0, <2>1, <2>2, <2>3 DEF SessionInv
  <1>4. CASE SetupBreaks \/ Interrupted \/ ForwardStops
    <2>1. (\E cs : leaves(cs)) /\ chan' = chan /\ disk' = disk /\ since' = since
      BY <1>4, Zenon DEF SetupBreaks, setup_fails, Interrupted, ForwardStops
    <2> QED BY <2>1, LeavesKeeps
  <1>5. CASE \/ Drained \/ SetupCommits \/ UNCHANGED vars
             \/ \E k \in Slots : Accepts(k) \/ TakesConnection(k) \/ Copies(k) \/ LocalEnds(k)
    <2>1. conn' = conn /\ chan' = chan /\ disk' = disk /\ since' = since
      BY <1>5, Zenon DEF Drained, SetupCommits, Accepts, TakesConnection, Copies, LocalEnds, vars
    <2> QED BY <2>1 DEF SessionInv
  <1> QED BY <1>1, <1>2, <1>3, <1>4, <1>5, ConnectionSteps, ChannelSteps, Zenon DEF Next

\* A command runs or a socket is open only for the identity the server was started
\* for and with its capability, at most two seconds longer than the account allows it,
\* and no session has more than MAX_CHANNELS commands (the ticks of ssh::serve_inner
\* and forward::serve_inner, channel_open_session).
THEOREM RevokedInTwoSeconds == Spec => []AccessIsRevoked
  <1>1. SessionInv => AccessIsRevoked
    <2> SUFFICES ASSUME SessionInv, NEW c \in Conns
                 PROVE  /\ \A k \in Slots : running(c, k) /\ ~chan[c][k].cut =>
                             hook_accepts(conn[c].id) /\ conn[c].capable /\ since < 2
                        /\ conn[c].alpn = "ssh" =>
                             Cardinality({k \in Slots : running(c, k)}) <= MAX_CHANNELS
      BY DEF AccessIsRevoked
    <2>1. ASSUME NEW k \in Slots, running(c, k), ~chan[c][k].cut
          PROVE  hook_accepts(conn[c].id) /\ conn[c].capable /\ since < 2
      <3>1. conn[c].at \in Served /\ conn[c].due # "first"
        BY <2>1, SoundOf DEF ChannelsOwned, running
      <3> QED BY <3>1, SoundOf DEF Admission, Ticking, hook_accepts
    <2>2. ASSUME conn[c].alpn = "ssh" PROVE Cardinality({k \in Slots : running(c, k)}) <= MAX_CHANNELS
      <3>1. {k \in Slots : running(c, k)} \subseteq busy(chan[c])
        BY DEF running, busy
      <3>2. IsFiniteSet(busy(chan[c]))
        BY SessionPlaces, FS_Subset DEF busy
      <3>3. /\ Cardinality({k \in Slots : running(c, k)}) <= Cardinality(busy(chan[c]))
            /\ IsFiniteSet({k \in Slots : running(c, k)})
        BY <3>1, <3>2, FS_Subset
      <3>4. Cardinality(busy(chan[c])) \in Nat /\ Cardinality({k \in Slots : running(c, k)}) \in Nat
        BY <3>2, <3>3, FS_CardinalityType
      <3>5. Cardinality(busy(chan[c])) <= MAX_CHANNELS /\ MAX_CHANNELS \in Nat
        BY <2>2, SoundOf, SessionBounds DEF ChannelsOwned
      <3> QED BY <3>3, <3>4, <3>5
    <2> QED BY <2>1, <2>2
  <1>2. SessionInv /\ [Next]_vars => SessionInv'
    BY SessionStep
  <1> QED BY <1>1, <1>2, SessionInit, PTL DEF Spec

----------------------------------------------------------------------------
(* The connections of the forwarding client.                                 *)

\* What a server does with a connection never brings it back.
Ages(c) ==
    /\ conn'[c].alpn = conn[c].alpn
    /\ conn[c].left => conn'[c].left
    /\ conn[c].at = "ended" => conn'[c].at = "ended"
    /\ conn[c].at = "free" <=> conn'[c].at = "free"

LEMMA SameAges ==
    ASSUME NEW c, conn'[c] = conn[c]
    PROVE  Ages(c)
  BY DEF Ages

LEMMA OneAges ==
    ASSUME SessionInv, NEW c \in Conns, NEW d, conn' = [conn EXCEPT ![c] = d],
           d.alpn = conn[c].alpn, d.left = conn[c].left,
           conn[c].at = "ended" => d.at = "ended",
           conn[c].at = "free" <=> d.at = "free"
    PROVE  \A x \in Conns : Ages(x)
  BY DEF SessionInv, Ages

LEMMA AgingKeeps ==
    ASSUME ForwardInv, fwd' = fwd, \A c \in Conns : Ages(c)
    PROVE  ForwardInv'
  <1>1. fwd.current \in Conns \cup {Nothing} /\ fwd.setup \in Conns \cup {Nothing}
    BY DEF ForwardInv, ForwardState
  <1>2. usable' => usable
    BY <1>1 DEF Ages, usable, at
  <1>3. \A c \in {fwd.current, fwd.setup} \ {Nothing} : conn'[c].at # "free"
    BY <1>1 DEF ForwardInv, Ages
  <1>4. \A c \in Conns :
          conn'[c].alpn = "tcp" /\ conn'[c].at \notin {"free", "ended"} /\ ~conn'[c].left =>
              c \in {fwd.current, fwd.setup}
    BY DEF ForwardInv, Ages, at
  <1> QED BY <1>2, <1>3, <1>4 DEF ForwardInv, at

LEMMA ServerAges ==
    ASSUME SessionInv, NEW c \in Conns,
           \/ HandshakeDone(c) \/ HandshakeTimesOut(c)
           \/ SetupDone(c) \/ LookupFails(c) \/ HostKeyFails(c) \/ RequestRefused(c)
           \/ SetupTimesOut(c) \/ UpdateEnds(c)
           \/ Tick(c) \/ Authenticates(c) \/ SessionOver(c) \/ SessionCancelled(c)
           \/ Disconnected(c) \/ SessionDrained(c) \/ LibraryEnds(c) \/ ForwardEnds(c)
    PROVE  \A x \in Conns : Ages(x)
  <1>0. conn \in [Conns -> ConnState] /\ conn[c] \in ConnState /\ Ticking(conn[c], since)
    BY SoundOf DEF SessionInv
  <1>1. ASSUME NEW place, place # "free", conn[c].at # "free",
               conn[c].at = "ended" => place = "ended",
               \/ conn' = [conn EXCEPT ![c].at = place]
               \/ conn' = [conn EXCEPT ![c].at = place, ![c].due = "no"]
        PROVE  \A x \in Conns : Ages(x)
    <2>1. CASE conn' = [conn EXCEPT ![c].at = place]
      <3> DEFINE d == [conn[c] EXCEPT !.at = place]
      <3>1. d.at = place /\ d.alpn = conn[c].alpn /\ d.left = conn[c].left
        BY <1>0 DEF ConnState
      <3>2. conn' = [conn EXCEPT ![c] = d]
        BY <2>1
      <3> HIDE DEF d
      <3> QED BY <1>1, <3>1, <3>2, OneAges
    <2>2. CASE conn' = [conn EXCEPT ![c].at = place, ![c].due = "no"]
      <3> DEFINE d == [conn[c] EXCEPT !.at = place, !.due = "no"]
      <3>1. d.at = place /\ d.alpn = conn[c].alpn /\ d.left = conn[c].left
        BY <1>0 DEF ConnState
      <3>2. conn' = [conn EXCEPT ![c] = d]
        BY <1>0, <2>2, Zenon
      <3> HIDE DEF d
      <3> QED BY <1>1, <3>1, <3>2, OneAges
    <2> QED BY <1>1, <2>1, <2>2
  <1>2. CASE HandshakeDone(c)
    <2> DEFINE place == IF /\ hook_accepts(conn[c].id)
                           /\ Cardinality(authenticated) < MAX_AUTHENTICATED_CONNECTIONS
                        THEN dispatched(c) ELSE "ended"
    <2>1. conn' = [conn EXCEPT ![c].at = place] /\ conn[c].at = "handshake"
      BY <1>2 DEF HandshakeDone, at
    <2>2. place # "free"
      BY DEF dispatched
    <2> HIDE DEF place
    <2> QED BY <1>1, <2>1, <2>2
  <1>3. CASE HandshakeTimesOut(c) \/ LookupFails(c) \/ HostKeyFails(c) \/ RequestRefused(c)
             \/ SetupTimesOut(c) \/ ForwardEnds(c)
    <2>1. cancel(c, "ended") /\ conn[c].at # "free"
      BY <1>3 DEF HandshakeTimesOut, LookupFails, HostKeyFails, RequestRefused, SetupTimesOut,
         ForwardEnds, ended, at
    <2>2. conn' = [conn EXCEPT ![c].at = "ended", ![c].due = "no"]
      BY <2>1 DEF cancel
    <2>3. "ended" # "free" /\ "waiting" # "free"
      OBVIOUS
    <2> QED BY <1>1, <2>1, <2>2, <2>3, Zenon
  <1>4. CASE SetupDone(c)
    <2> DEFINE d == [conn[c] EXCEPT !.at = IF conn[c].alpn = "ssh" THEN "auth" ELSE "open",
                            !.due = "first", !.ready = TRUE, !.session = new_session(conn[c].alpn)]
    <2>1. conn' = [conn EXCEPT ![c] = d] /\ conn[c].at = "setup"
      BY <1>0, <1>4 DEF SetupDone, at
    <2>2. d.at \in {"auth", "open"} /\ d.alpn = conn[c].alpn /\ d.left = conn[c].left
      BY <1>0 DEF ConnState
    <2> HIDE DEF d
    <2> QED BY <2>1, <2>2, OneAges
  <1>5. CASE UpdateEnds(c) \/ Disconnected(c) \/ SessionDrained(c)
    <2>1. /\ conn' = [conn EXCEPT ![c].at = "ended"] \/ conn' = [conn EXCEPT ![c].at = "waiting"]
          /\ conn[c].at \in {"update", "draining", "waiting"}
      BY <1>5, Zenon DEF UpdateEnds, Disconnected, SessionDrained, at
    <2>2. conn[c].at # "free" /\ conn[c].at # "ended"
      BY <2>1
    <2>3. "ended" # "free" /\ "waiting" # "free"
      OBVIOUS
    <2> QED BY <1>1, <2>1, <2>2, <2>3, Zenon
  <1>6. CASE Tick(c)
    <2>1. conn[c].at \in Served
      BY <1>0, <1>6 DEF Tick, Ticking
    <2>2. \/ conn' = [conn EXCEPT ![c] = [conn[c] EXCEPT !.due = "no"]]
          \/ cancel(c, "draining") \/ cancel(c, "ended")
      BY <1>6, Zenon DEF Tick
    <2>3. CASE conn' = [conn EXCEPT ![c] = [conn[c] EXCEPT !.due = "no"]]
      <3> DEFINE d == [conn[c] EXCEPT !.due = "no"]
      <3>1. d.at = conn[c].at /\ d.alpn = conn[c].alpn /\ d.left = conn[c].left
        BY <1>0 DEF ConnState
      <3>2. conn' = [conn EXCEPT ![c] = d]
        BY <2>3
      <3> HIDE DEF d
      <3> QED BY <3>1, <3>2, OneAges
    <2>4. CASE cancel(c, "draining") \/ cancel(c, "ended")
      BY <1>1, <2>1, <2>4 DEF cancel, Served
    <2> QED BY <2>2, <2>3, <2>4
  <1>7. CASE Authenticates(c)
    <2> DEFINE d == [conn[c] EXCEPT !.session = "live", !.at = IF @ = "auth" THEN "open" ELSE @]
    <2>1. conn' = [conn EXCEPT ![c] = d]
      BY <1>0, <1>7 DEF Authenticates
    <2>2. /\ d.at = (IF conn[c].at = "auth" THEN "open" ELSE conn[c].at)
          /\ d.alpn = conn[c].alpn /\ d.left = conn[c].left
      BY <1>0 DEF ConnState
    <2> HIDE DEF d
    <2> QED BY <2>1, <2>2, OneAges
  <1>8. CASE SessionOver(c)
    <2> DEFINE d == [conn[c] EXCEPT !.at = "draining", !.due = "no", !.session = "none"]
    <2>1. conn' = [conn EXCEPT ![c] = d] /\ conn[c].at \in {"auth", "open"}
      BY <1>0, <1>8, Zenon DEF SessionOver, at
    <2>2. d.at = "draining" /\ d.alpn = conn[c].alpn /\ d.left = conn[c].left
      BY <1>0 DEF ConnState
    <2> HIDE DEF d
    <2> QED BY <2>1, <2>2, OneAges
  <1>9. CASE SessionCancelled(c)
    <2>1. cancel(c, "draining") /\ conn[c].at \in {"auth", "open"}
      BY <1>9 DEF SessionCancelled, at
    <2>2. conn' = [conn EXCEPT ![c].at = "draining", ![c].due = "no"]
      BY <2>1 DEF cancel
    <2>3. conn[c].at # "free" /\ conn[c].at # "ended"
      BY <2>1
    <2>4. "draining" # "free"
      OBVIOUS
    <2> QED BY <1>1, <2>2, <2>3, <2>4, Zenon
  <1>10. CASE LibraryEnds(c)
    <2> DEFINE d == [conn[c] EXCEPT !.session = "none"]
    <2>1. conn' = [conn EXCEPT ![c] = d]
      BY <1>0, <1>10, Zenon DEF LibraryEnds
    <2>2. d.at = conn[c].at /\ d.alpn = conn[c].alpn /\ d.left = conn[c].left
      BY <1>0 DEF ConnState
    <2> HIDE DEF d
    <2> QED BY <2>1, <2>2, OneAges
  <1> QED BY <1>2, <1>3, <1>4, <1>5, <1>6, <1>7, <1>8, <1>9, <1>10

\* The forwarding client leaves some of its connections.
LEMMA LeavesAges ==
    ASSUME SessionInv, NEW cs, leaves(cs)
    PROVE  /\ \A c \in Conns : Ages(c)
           /\ \A c \in Conns \cap cs : conn'[c].left
  <1> SUFFICES ASSUME NEW c \in Conns PROVE Ages(c) /\ (c \in cs => conn'[c].left)
    OBVIOUS
  <1>1. CASE c \notin cs
    BY <1>1 DEF leaves, Ages
  <1>2. CASE c \in cs
    <2>1. conn'[c] = [conn[c] EXCEPT !.left = TRUE] /\ conn[c] \in ConnState
      BY <1>2, SoundOf DEF leaves
    <2>2. conn'[c].left = TRUE /\ conn'[c].at = conn[c].at /\ conn'[c].alpn = conn[c].alpn
      BY <2>1 DEF ConnState
    <2> QED BY <2>2 DEF Ages
  <1> QED BY <1>1, <1>2

LEMMA ForwardInit == Init => ForwardInv
  <1> SUFFICES ASSUME Init PROVE ForwardInv
    OBVIOUS
  <1>1. fwd \in ForwardState /\ fwd.current = Nothing /\ fwd.setup = Nothing
    BY DEF Init, NoForward, ForwardState
  <1>2. \A c \in Conns : conn[c].at = "free"
    BY NoConnType DEF Init
  <1> QED BY <1>1, <1>2 DEF ForwardInv, usable, at

LEMMA ForwardStep ==
    ASSUME SessionInv, ForwardInv, [Next]_vars
    PROVE  ForwardInv'
  <1>0. /\ conn \in [Conns -> ConnState] /\ fwd \in ForwardState
        /\ fwd.current \in Conns \cup {Nothing} /\ fwd.setup \in Conns \cup {Nothing}
        /\ Nothing \notin Conns
    BY SessionPlaces DEF SessionInv, ForwardInv, ForwardState
  <1>1. ASSUME NEW c \in Conns, PeerConnects(c) \/ Opens(c) PROVE ForwardInv'
    <2>1. at(c, {"free"}) /\ c # fwd.current /\ c # fwd.setup
      BY <1>0, <1>1, Zenon DEF PeerConnects, Opens, admits, ForwardInv, at
    <2>2. PICK alpn \in {"ssh", "update", "tcp"}, id \in {Consumer, Other}, capable \in BOOLEAN :
            /\ conn' = [conn EXCEPT ![c] = incoming(alpn, id, capable)]
            /\ \/ alpn # "tcp" /\ fwd' = fwd
               \/ /\ fwd' = [fwd EXCEPT !.setup = c] /\ fwd.setup = Nothing /\ fwd.holder # Nothing
      <3>1. CASE Opens(c)
        BY <3>1, Zenon DEF Opens
      <3>2. CASE PeerConnects(c)
        <4>1. PICK alpn \in {"ssh", "update"}, peer \in {<<Consumer, TRUE>>, <<Consumer, FALSE>>, <<Other, TRUE>>} :
                conn' = [conn EXCEPT ![c] = incoming(alpn, peer[1], peer[2])]
          BY <3>2, Zenon DEF PeerConnects
        <4>2. fwd' = fwd /\ alpn # "tcp" /\ alpn \in {"ssh", "update", "tcp"}
          BY <3>2, <4>1 DEF PeerConnects, client
        <4>3. peer[1] \in {Consumer, Other} /\ peer[2] \in BOOLEAN
          <5>1. <<Consumer, TRUE>>[1] = Consumer /\ <<Consumer, FALSE>>[1] = Consumer /\ <<Other, TRUE>>[1] = Other
            OBVIOUS
          <5>2. /\ <<Consumer, TRUE>>[2] = TRUE /\ <<Consumer, FALSE>>[2] = FALSE
                /\ <<Other, TRUE>>[2] = TRUE
            OBVIOUS
          <5> QED BY <4>1, <5>1, <5>2, Zenon
        <4> QED BY <4>1, <4>2, <4>3, Zenon
      <3> QED BY <1>1, <3>1, <3>2
    <2> DEFINE d == incoming(alpn, id, capable)
    <2>3. d.at = "handshake" /\ d.alpn = alpn
      BY NoConnType DEF incoming, ConnState
    <2>4. conn'[c] = d /\ \A x \in Conns \ {c} : conn'[x] = conn[x]
      BY <1>0, <2>2
    <2> HIDE DEF d
    <2>5. fwd' \in ForwardState /\ fwd'.current = fwd.current /\ fwd'.holder = fwd.holder
          /\ (fwd'.setup = fwd.setup \/ (fwd'.setup = c /\ fwd.holder # Nothing /\ fwd.setup = Nothing))
          /\ (alpn = "tcp" => fwd'.setup = c)
      BY <1>0, <2>2 DEF ForwardState
    <2>6. usable' <=> usable
      BY <1>0, <2>1, <2>4, <2>5 DEF usable, at
    <2>7. \A x \in {fwd'.current, fwd'.setup} \ {Nothing} : conn'[x].at # "free"
      BY <1>0, <2>1, <2>3, <2>4, <2>5 DEF ForwardInv
    <2>8. ASSUME NEW x \in Conns, conn'[x].alpn = "tcp", conn'[x].at \notin {"free", "ended"}, ~conn'[x].left
          PROVE  x \in {fwd'.current, fwd'.setup}
      <3>1. CASE x = c
        BY <2>3, <2>4, <2>5, <2>8, <3>1
      <3>2. CASE x # c
        BY <1>0, <2>4, <2>5, <2>8, <3>2 DEF ForwardInv, at
      <3> QED BY <3>1, <3>2
    <2> QED BY <2>5, <2>6, <2>7, <2>8 DEF ForwardInv, at
  <1>2. ASSUME NEW c \in Conns, Forgotten(c) PROVE ForwardInv'
    <2>1. /\ c # fwd.current /\ c # fwd.setup /\ conn' = [conn EXCEPT ![c] = NoConn] /\ fwd' = fwd
      BY <1>2 DEF Forgotten, client
    <2>2. conn'[c].at = "free" /\ \A x \in Conns \ {c} : conn'[x] = conn[x]
      BY <1>0, <2>1, NoConnType
    <2>3. usable' <=> usable
      BY <1>0, <2>1, <2>2 DEF usable, at
    <2>4. \A x \in {fwd.current, fwd.setup} \ {Nothing} : conn'[x].at # "free"
      BY <1>0, <2>1, <2>2 DEF ForwardInv
    <2>5. \A x \in Conns :
            conn'[x].alpn = "tcp" /\ conn'[x].at \notin {"free", "ended"} /\ ~conn'[x].left =>
                x \in {fwd.current, fwd.setup}
      BY <2>2 DEF ForwardInv, at
    <2> QED BY <2>1, <2>3, <2>4, <2>5 DEF ForwardInv, at
  <1>3. ASSUME NEW c \in Conns,
               \/ HandshakeDone(c) \/ HandshakeTimesOut(c)
               \/ SetupDone(c) \/ LookupFails(c) \/ HostKeyFails(c) \/ RequestRefused(c)
               \/ SetupTimesOut(c) \/ UpdateEnds(c)
               \/ Tick(c) \/ Authenticates(c) \/ SessionOver(c) \/ SessionCancelled(c)
               \/ Disconnected(c) \/ SessionDrained(c) \/ LibraryEnds(c) \/ ForwardEnds(c)
        PROVE  ForwardInv'
    <2>1. fwd' = fwd
      BY <1>3, Zenon DEF HandshakeDone, HandshakeTimesOut, SetupDone, LookupFails, HostKeyFails,
         RequestRefused, SetupTimesOut, UpdateEnds, Tick, Authenticates, SessionOver,
         SessionCancelled, Disconnected, SessionDrained, LibraryEnds, ForwardEnds, client
    <2> QED BY <1>3, <2>1, ServerAges, AgingKeeps
  <1>4. CASE Second
    <2>1. fwd' = fwd
      BY <1>4, Zenon DEF Second, client
    <2>2. ASSUME NEW c \in Conns PROVE Ages(c)
      <3>1. conn[c] \in ConnState
        BY <1>0
      <3>2. conn'[c] = conn[c] \/ conn'[c] = [conn[c] EXCEPT !.due = "tick"]
        BY <1>4 DEF Second
      <3>3. conn'[c].at = conn[c].at /\ conn'[c].alpn = conn[c].alpn /\ conn'[c].left = conn[c].left
        BY <3>1, <3>2 DEF ConnState
      <3> QED BY <3>3 DEF Ages
    <2> QED BY <2>1, <2>2, AgingKeeps
  <1>5. CASE \/ AccountChanges \/ Stop \/ Drained \/ UNCHANGED vars
             \/ \E k \in Slots : Accepts(k) \/ Copies(k) \/ LocalEnds(k)
             \/ \E c \in Conns, k \in Slots : \/ ChannelOpens(c, k) \/ ChannelCloses(c, k) \/ Exec(c, k)
                              \/ StreamOpens(c, k) \/ StreamConnects(c, k) \/ TaskEnds(c, k)
    <2>1. conn' = conn /\ fwd' = fwd
      BY <1>5, ZenonT(30) DEF AccountChanges, Stop, Drained, vars, Accepts, Copies, LocalEnds, ChannelOpens,
         ChannelCloses, Exec, StreamOpens, StreamConnects, TaskEnds, client
    <2> QED BY <2>1, SameAges, AgingKeeps
  <1>6. ASSUME NEW k \in Slots, TakesConnection(k) PROVE ForwardInv'
    <2>1. conn' = conn /\ (fwd' = fwd \/ (fwd' = [fwd EXCEPT !.holder = k, !.tried = FALSE] /\ ~usable))
      BY <1>6, Zenon DEF TakesConnection
    <2>2. CASE fwd' = fwd
      BY <2>1, <2>2, SameAges, AgingKeeps
    <2>3. CASE fwd' = [fwd EXCEPT !.holder = k, !.tried = FALSE] /\ ~usable
      <3>1. fwd' \in ForwardState /\ fwd'.current = fwd.current /\ fwd'.setup = fwd.setup /\ fwd'.holder = k
        BY <1>0, <2>3 DEF ForwardState
      <3>2. fwd.holder = Nothing
        BY <1>6 DEF TakesConnection
      <3>3. ~usable'
        BY <2>1, <2>3, <3>1 DEF usable, at
      <3> QED BY <2>1, <3>1, <3>2, <3>3 DEF ForwardInv, at
    <2> QED BY <2>1, <2>2, <2>3
  <1>7. CASE SetupCommits
    <2>1. /\ fwd.setup # Nothing /\ conn' = conn
          /\ fwd' = [fwd EXCEPT !.current = fwd.setup, !.setup = Nothing, !.holder = Nothing]
      BY <1>7, Zenon DEF SetupCommits
    <2>2. /\ fwd' \in ForwardState /\ fwd'.current = fwd.setup /\ fwd'.setup = Nothing /\ fwd'.holder = Nothing
      BY <1>0, <2>1 DEF ForwardState
    <2>3. ~usable
      BY <2>1 DEF ForwardInv
    <2>4. ASSUME NEW c \in Conns, conn[c].alpn = "tcp", conn[c].at \notin {"free", "ended"}, ~conn[c].left
          PROVE  c = fwd.setup
      <3>1. c \in {fwd.current, fwd.setup}
        BY <2>4 DEF ForwardInv, at
      <3> QED BY <1>0, <2>3, <2>4, <3>1 DEF usable, at
    <2> QED BY <1>0, <2>1, <2>2, <2>4 DEF ForwardInv, at
  <1>8. CASE SetupBreaks \/ Interrupted
    <2>1. /\ \E cs : leaves(cs) /\ (fwd.setup \in Conns => fwd.setup \in cs)
          /\ \/ fwd' = [fwd EXCEPT !.setup = Nothing, !.tried = TRUE]
             \/ fwd' = [fwd EXCEPT !.setup = Nothing, !.holder = Nothing,
                                !.at = IF fwd.holder = "listen" THEN "closing" ELSE @]
             \/ fwd' = [fwd EXCEPT !.at = "closing", !.holder = Nothing, !.setup = Nothing]
      <3>1. CASE SetupBreaks
        <4>1. leaves(Conns \cap {fwd.setup})
          BY <3>1, Zenon DEF SetupBreaks, setup_fails
        <4>2. fwd.setup \in Conns => fwd.setup \in Conns \cap {fwd.setup}
          OBVIOUS
        <4>3. \/ fwd' = [fwd EXCEPT !.setup = Nothing, !.tried = TRUE]
              \/ fwd' = [fwd EXCEPT !.setup = Nothing, !.holder = Nothing,
                                !.at = IF fwd.holder = "listen" THEN "closing" ELSE @]
          BY <3>1 DEF SetupBreaks, setup_fails
        <4> QED BY <4>1, <4>2, <4>3, Zenon
      <3>2. CASE Interrupted
        BY <3>2, Zenon DEF Interrupted
      <3> QED BY <1>8, <3>1, <3>2
    <2>2. /\ fwd' \in ForwardState /\ fwd'.current = fwd.current /\ fwd'.setup = Nothing
          /\ fwd'.holder = Nothing \/ fwd'.holder = fwd.holder
      BY <1>0, <2>1 DEF ForwardState
    <2>3. (\A c \in Conns : Ages(c)) /\ (fwd.setup \in Conns => conn'[fwd.setup].left)
      BY <2>1, LeavesAges
    <2>4. usable' => usable
      BY <1>0, <2>2, <2>3 DEF usable, at, Ages
    <2>5. \A c \in {fwd'.current, fwd'.setup} \ {Nothing} : conn'[c].at # "free"
      BY <1>0, <2>2, <2>3 DEF ForwardInv, Ages
    <2>6. ASSUME NEW c \in Conns, conn'[c].alpn = "tcp", conn'[c].at \notin {"free", "ended"}, ~conn'[c].left
          PROVE  c = fwd.current
      <3>1. Ages(c)
        BY <2>3
      <3>2. c \in {fwd.current, fwd.setup}
        BY <2>6, <3>1 DEF ForwardInv, at, Ages
      <3> QED BY <2>3, <2>6, <3>2
    <2> QED BY <2>2, <2>4, <2>5, <2>6 DEF ForwardInv, at
  <1>9. CASE ForwardStops
    <2>1. leaves({fwd.current}) /\ fwd' = [fwd EXCEPT !.at = "ended", !.current = Nothing]
      BY <1>9, Zenon DEF ForwardStops
    <2>2. /\ fwd' \in ForwardState /\ fwd'.current = Nothing /\ fwd'.setup = fwd.setup
          /\ fwd'.holder = fwd.holder
      BY <1>0, <2>1 DEF ForwardState
    <2>3. (\A c \in Conns : Ages(c)) /\ (fwd.current \in Conns => conn'[fwd.current].left)
      BY <2>1, LeavesAges
    <2>4. \A c \in {fwd'.current, fwd'.setup} \ {Nothing} : conn'[c].at # "free"
      BY <1>0, <2>2, <2>3 DEF ForwardInv, Ages
    <2>5. ASSUME NEW c \in Conns, conn'[c].alpn = "tcp", conn'[c].at \notin {"free", "ended"}, ~conn'[c].left
          PROVE  c = fwd.setup
      <3>1. Ages(c)
        BY <2>3
      <3>2. c \in {fwd.current, fwd.setup}
        BY <2>5, <3>1 DEF ForwardInv, at, Ages
      <3> QED BY <2>3, <2>5, <3>2
    <2>6. ~usable'
      BY <2>2 DEF usable
    <2>7. fwd'.setup # Nothing => fwd'.holder # Nothing
      BY <2>2 DEF ForwardInv
    <2> QED BY <2>2, <2>4, <2>5, <2>6, <2>7 DEF ForwardInv, at
  <1> QED BY <1>1, <1>2, <1>3, <1>4, <1>5, <1>6, <1>7, <1>8, <1>9, Zenon DEF Next

\* Every connection the forwarding client made is the one it uses, the one it sets
\* up, or closed, and it sets up another only when the one it has is gone
\* (Client::connection, the drop of SetupConnection).
THEOREM ForwarderAnswersForAll == Spec => []ForwarderOwnsConnections
  <1>1. Init => SessionInv /\ ForwardInv
    BY SessionInit, ForwardInit
  <1>2. SessionInv /\ ForwardInv /\ [Next]_vars => SessionInv' /\ ForwardInv'
    BY SessionStep, ForwardStep
  <1>3. ForwardInv => ForwarderOwnsConnections
    BY DEF ForwardInv, ForwarderOwnsConnections
  <1> QED BY <1>1, <1>2, <1>3, PTL DEF Spec
=============================================================================
