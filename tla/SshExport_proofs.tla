---------------------------- MODULE SshExport_proofs ----------------------------
(***************************************************************************)
(* Proofs about SshExport, for any hosts, labels, brokers and bounds.        *)
(***************************************************************************)
EXTENDS SshExport, TLAPS

Places == {"down", "installing", "including", "started", "failed", "running", "stopping",
           "draining", "unpublished", "cleaning", "excluding"}

UserFile == [edits : Nat, block : BOOLEAN, edited : BOOLEAN]

ExporterState ==
    [at : Places, read : UserFile \cup {Nothing}, crashed : BOOLEAN,
     exit : {Nothing, "resumed", "shutdown"}]

----------------------------------------------------------------------------
(* The user's file.                                                          *)

\* Between its second look and the rename the exporter has what the user has.
FileInv ==
    /\ user \in UserFile /\ edits \in Nat /\ exporter \in ExporterState
    /\ exporter.at \notin {"down", "failed"} => exporter.read \in UserFile
    /\ exporter.at \in {"including", "excluding"} => user = exporter.read \/ slipped
    /\ user.edits = edits \/ slipped

\* The steps that leave the user's file alone and do not get ready to replace it.
LoopStep ==
    /\ UNCHANGED <<user, edits, slipped>>
    /\ exporter' \in ExporterState
    /\ exporter'.read = exporter.read
    /\ exporter'.at \notin {"including", "excluding"} \/ exporter'.at = exporter.at
    /\ exporter.at \in {"down", "failed"} => exporter'.at \in {"down", "failed"}

LEMMA LoopStepKeeps == FileInv /\ LoopStep => FileInv'
  BY DEF FileInv, LoopStep

LEMMA LoopSteps ==
    ASSUME FileInv, Turns \/ Tasks \/ Environment, ~Edit
    PROVE  LoopStep
  <1>0. exporter \in ExporterState
    BY DEF FileInv
  <1>1. CASE UNCHANGED <<files, exporter>>
    BY <1>0, <1>1 DEF LoopStep, files
  <1>2. CASE Begin \/ TearDown \/ Unpublish \/ Shutdown \/ Crash
    BY <1>0, <1>2 DEF LoopStep, files, Begin, TearDown, Unpublish, Shutdown, Crash, go, at,
       ExporterState, Places
  <1>3. CASE Tick
    BY <1>0, <1>3 DEF LoopStep, files, Tick, at, ExporterState, Places
  <1>4. CASE Discovered \/ \E t \in Targets : Prepared(t) \/ \E s \in Slots : Finished(t, s)
    <2>1. UNCHANGED <<files, exporter>>
      BY <1>4, Zenon DEF Discovered, Prepared, Finished
    <2> QED BY <1>1, <2>1
  <1>5. CASE Tasks
    <2>1. UNCHANGED <<files, exporter>>
      BY <1>5, Zenon DEF Tasks, Discover, DiscoverFails, Prepare, RetryDue, Accept, SetUp, SetupFails,
         StreamEnds, StopAccepting, ServeEnds, ServeFails, only_broker
    <2> QED BY <1>1, <2>1
  <1>6. CASE Sleep \/ \E t \in Targets : \/ PublisherChanges(t) \/ Lapse(t)
                           \/ \E trust_new_host_key \in BOOLEAN : OneShot(t, trust_new_host_key)
    <2>1. UNCHANGED <<files, exporter>>
      BY <1>6, Zenon DEF Sleep, PublisherChanges, Lapse, OneShot
    <2> QED BY <1>1, <2>1
  <1> QED BY <1>2, <1>3, <1>4, <1>5, <1>6, Zenon DEF Turns, Environment

LEMMA FileInit == Init => FileInv
  BY DEF Init, FileInv, UserFile, ExporterState, Places

LEMMA FileStep == FileInv /\ [Next]_vars => FileInv'
<1> SUFFICES ASSUME FileInv, [Next]_vars PROVE FileInv'
  OBVIOUS
<1>0. user \in UserFile /\ exporter \in ExporterState
  BY DEF FileInv
<1>1. CASE Install \/ CheckInstall \/ InstallFails \/ Cleanup \/ CheckCleanup
  BY <1>0, <1>1 DEF FileInv, files, Install, CheckInstall, InstallFails, Cleanup, CheckCleanup, at,
     go, ExporterState, Places, unchanged_since
<1>2. CASE Include \/ Exclude
  <2>1. exporter.read \in UserFile /\ (user = exporter.read \/ slipped)
    BY <1>2 DEF FileInv, Include, Exclude, at
  <2>2. user' \in UserFile /\ user'.edits = exporter.read.edits
    BY <1>2, <2>1 DEF Include, Exclude, UserFile
  <2>3. exporter' \in ExporterState /\ exporter'.read \in UserFile
        /\ exporter'.at \notin {"including", "excluding"}
    BY <1>0, <1>2, <2>1 DEF Include, Exclude, go, ExporterState, Places
  <2>4. UNCHANGED <<edits, slipped>>
    BY <1>2 DEF Include, Exclude
  <2> QED BY <2>1, <2>2, <2>3, <2>4 DEF FileInv
<1>3. CASE Edit
  <2>1. PICK block \in {user.block, FALSE}, edited \in {user.edited, user.block} :
          user' = [edits |-> user.edits + 1, block |-> block /\ ~edited, edited |-> edited]
    BY <1>3 DEF Edit
  <2>2. block \in BOOLEAN /\ edited \in BOOLEAN /\ user.edits \in Nat
    BY <1>0 DEF UserFile
  <2>3. (block /\ ~edited) \in BOOLEAN
    BY <2>2
  <2>4. user' \in UserFile /\ user'.edits = user.edits + 1
    BY <2>1, <2>2, <2>3 DEF UserFile
  <2>5. edits' = edits + 1 /\ exporter' = exporter
    BY <1>3 DEF Edit
  <2>6. slipped \/ exporter.at \in {"including", "excluding"} => slipped'
    BY <1>3, Zenon DEF Edit
  <2> QED BY <2>4, <2>5, <2>6 DEF FileInv
<1>4. CASE (Turns \/ Tasks \/ Environment) /\ ~Edit
  BY <1>4, LoopSteps, LoopStepKeeps
<1>5. CASE UNCHANGED vars
  BY <1>5 DEF vars, FileInv
<1> QED BY <1>1, <1>2, <1>3, <1>4, <1>5 DEF Next, Files

\* No edit of ~/.ssh/config is lost (replace_config), whatever interleaves with it,
\* unless it falls between the second look and the rename.
THEOREM EditsAreKept == Spec => []UserEditsKept
<1>1. FileInv => UserEditsKept
  BY DEF FileInv, UserEditsKept
<1> QED BY <1>1, FileInit, FileStep, PTL DEF Spec

----------------------------------------------------------------------------
(* Host keys.                                                                *)

Keys == {1, 2}

WorldType ==
    world \in [Targets -> [advertised : BOOLEAN, label : Labels, reachable : BOOLEAN, key : Keys]]

Brokers == Targets \X Slots

BrokerState ==
    [state : {"none", "serving", "retired", "ended"}, key : Keys \cup {Nothing}, setups : Nat,
     streams : SUBSET Keys, retired : BOOLEAN]

\* The results on their way to the loop.
Preparation == [state : {"pending", "ready", "failed"}, key : Keys \cup {Nothing}]

Preparations ==
    \A t \in DOMAIN preparing :
        /\ t \in Targets /\ preparing[t] \in Preparation
        /\ preparing[t].state \notin {"failed", "pending"} => preparing[t].key \in trusted[t]

\* A broker that may still set a connection up was prepared with a trusted key.
Trustworthy(b, next) ==
    /\ next \in BrokerState
    /\ next.streams \subseteq trusted[b[1]]
    /\ next.state = "serving" \/ next.setups > 0 => next.key \in trusted[b[1]]

BrokersType == broker \in [Brokers -> BrokerState]

KeyInv ==
    /\ WorldType
    /\ trusted \in [Targets -> SUBSET Keys]
    /\ Preparations
    /\ DOMAIN broker = Brokers
    /\ \A b \in Brokers : Trustworthy(b, broker[b])

LEMMA NoBrokerTrusted ==
    ASSUME KeyInv, NEW b \in Brokers
    PROVE  /\ Trustworthy(b, no_broker)
           /\ Trustworthy(b, [no_broker EXCEPT !.state = "ended"])
  <1> DEFINE over == [no_broker EXCEPT !.state = "ended"]
  <1>1. no_broker \in BrokerState /\ no_broker.streams = {} /\ no_broker.setups = 0
        /\ no_broker.state = "none"
    BY DEF no_broker, BrokerState
  <1>2. over \in BrokerState /\ over.streams = {} /\ over.setups = 0 /\ over.state = "ended"
    BY DEF no_broker, BrokerState
  <1> HIDE DEF over
  <1>3. Trustworthy(b, no_broker) /\ Trustworthy(b, over)
    BY <1>1, <1>2 DEF Trustworthy
  <1> QED BY <1>3 DEF over

\* The parts of a turn that concern keys and names.
LEMMA TurnIs ==
    ASSUME NEW hosts, NEW run, NEW prep, NEW order, NEW cooling,
           Turn(hosts, run, prep, order, cooling)
    PROVE  LET alive == Restrict(hosts, {t \in DOMAIN hosts : hosts[t].live})
               kept == Restrict(run, DOMAIN run \cap DOMAIN alive)
           IN  /\ known' = alive
               /\ running' = kept
               /\ config' = {configuration(t, kept[t], aliases(alive, t)) : t \in DOMAIN kept}
               /\ \A t \in DOMAIN preparing' :
                    \/ t \in DOMAIN alive /\ preparing'[t] = pending
                    \/ t \in DOMAIN prep /\ preparing'[t] = prep[t]
  <1> DEFINE alive == Restrict(hosts, {t \in DOMAIN hosts : hosts[t].live})
             kept == Restrict(run, DOMAIN run \cap DOMAIN alive)
             tried == SelectSeq(order, LAMBDA t : t \in DOMAIN alive)
             rank == preparation_order(alive, tried, cooling)
             ready == DOMAIN rank \ (DOMAIN kept \cup DOMAIN prep)
             free == Min({PREPARE_CONCURRENCY - Cardinality(DOMAIN prep), Cardinality(ready)})
  <1>1. PICK start \in kSubset(free, ready) :
          /\ known' = alive
          /\ running' = kept
          /\ preparing' = [t \in DOMAIN prep \cup start |-> IF t \in start THEN pending ELSE prep[t]]
          /\ config' = {configuration(t, kept[t], aliases(alive, t)) : t \in DOMAIN kept}
    BY Zenon DEF Turn
  <1>2. start \subseteq ready
    BY <1>1, Zenon DEF kSubset
  <1>3. ready \subseteq DOMAIN alive
    BY DEF preparation_order
  <1> HIDE DEF alive, kept, ready
  <1>4. \A t \in DOMAIN preparing' :
                    \/ t \in DOMAIN alive /\ preparing'[t] = pending
                    \/ t \in DOMAIN prep /\ preparing'[t] = prep[t]
    BY <1>1, <1>2, <1>3
  <1> QED BY <1>1, <1>4, Zenon DEF alive, kept

\* A turn keeps the results it had and starts others.
LEMMA TurnKeepsPreparations ==
    ASSUME NEW hosts, NEW run, NEW prep, NEW order, NEW cooling,
           Turn(hosts, run, prep, order, cooling), trusted' = trusted,
           DOMAIN hosts \subseteq Targets,
           \A t \in DOMAIN prep : t \in DOMAIN preparing /\ prep[t] = preparing[t],
           Preparations
    PROVE  Preparations'
  <1>1. ASSUME NEW t \in DOMAIN preparing'
        PROVE  /\ t \in Targets /\ preparing'[t] \in Preparation
               /\ preparing'[t].state \notin {"failed", "pending"} => preparing'[t].key \in trusted[t]
    <2> DEFINE alive == Restrict(hosts, {u \in DOMAIN hosts : hosts[u].live})
    <2>1. \/ t \in DOMAIN alive /\ preparing'[t] = pending
          \/ t \in DOMAIN prep /\ preparing'[t] = prep[t]
      BY <1>1, TurnIs
    <2>2. DOMAIN alive \subseteq DOMAIN hosts
      BY DEF Restrict
    <2>3. pending.state = "pending" /\ pending \in Preparation
      BY DEF pending, Preparation
    <2> QED BY <2>1, <2>2, <2>3 DEF Preparations
  <1> QED BY <1>1 DEF Preparations

\* Retiring a broker changes nothing but what it accepts.
LEMMA RetireKeeps ==
    ASSUME NEW brokers, NEW run, NEW b \in DOMAIN brokers, brokers[b] \in BrokerState
    PROVE  /\ DOMAIN retire(brokers, run) = DOMAIN brokers
           /\ retire(brokers, run)[b] \in BrokerState
           /\ retire(brokers, run)[b].state = brokers[b].state
           /\ retire(brokers, run)[b].key = brokers[b].key
           /\ retire(brokers, run)[b].setups = brokers[b].setups
           /\ retire(brokers, run)[b].streams = brokers[b].streams
  BY DEF retire, BrokerState

\* A step of one broker.
LEMMA BrokerStepKeeps ==
    ASSUME KeyInv, NEW b \in Brokers, NEW next, Trustworthy(b, next), trusted' = trusted,
           broker' = [broker EXCEPT ![b] = next]
    PROVE  DOMAIN broker' = Brokers /\ \A c \in Brokers : Trustworthy(c, broker[c])'
  BY DEF KeyInv, Trustworthy

----------------------------------------------------------------------------
(* Snapshots.                                                                *)

HostRow == [label : Labels, live : BOOLEAN]

Snapshots == UNION {[D -> HostRow] : D \in SUBSET Targets}

IsSnapshot(hosts) == DOMAIN hosts \in SUBSET Targets /\ hosts \in [DOMAIN hosts -> HostRow]

LEMMA SnapshotsAre ==
    ASSUME NEW hosts
    PROVE  hosts \in Snapshots <=> IsSnapshot(hosts)
  BY DEF Snapshots, IsSnapshot

\* The hosts the last discovery found, and those of one on its way.
SnapshotInv ==
    /\ IsSnapshot(known)
    /\ \/ discovery = Nothing \/ discovery = [failed |-> TRUE]
       \/ discovery \in [failed : {FALSE}, complete : BOOLEAN, hosts : Snapshots]

\* The snapshot a turn works on.
TurnHosts(hosts) ==
    \/ hosts = known
    \/ discovery # Nothing /\ ~discovery.failed /\ hosts = discovery.hosts

LEMMA TurnHostsIsSnapshot ==
    ASSUME SnapshotInv, NEW hosts, TurnHosts(hosts)
    PROVE  IsSnapshot(hosts)
  <1>1. CASE hosts = known
    BY <1>1 DEF SnapshotInv
  <1>2. CASE discovery # Nothing /\ ~discovery.failed /\ hosts = discovery.hosts
    <2>1. discovery # [failed |-> TRUE]
      BY <1>2
    <2>2. discovery.hosts \in Snapshots
      BY <1>2, <2>1 DEF SnapshotInv
    <2> QED BY <1>2, <2>2, SnapshotsAre
  <1> QED BY <1>1, <1>2 DEF TurnHosts

\* The turns of the loop that prepare, retire and publish.
Turning(hosts, run, prep) ==
    /\ TurnHosts(hosts)
    /\ \E order, cooling : Turn(hosts, run, prep, order, cooling)
    /\ at("running") /\ UNCHANGED <<world, trust, exporter>>
    /\ discovery' \in {discovery, Nothing}

LEMMA TickTurns ==
    ASSUME Tick, ~slept
    PROVE  Turning(known, running, preparing) /\ broker' = retire(broker, running')
  BY DEF Tick, Turning, TurnHosts

LEMMA DiscoveredTurns ==
    ASSUME Discovered
    PROVE  /\ \E hosts : Turning(hosts, running, preparing)
           /\ broker' = retire(broker, running')
  <1> DEFINE hosts == IF discovery.failed THEN known ELSE discovery.hosts
  <1>1. TurnHosts(hosts)
    BY DEF TurnHosts, Discovered
  <1>2. Turn(hosts, running, preparing, retries, waiting)
    BY Zenon DEF Discovered
  <1>3. at("running") /\ UNCHANGED <<world, trust, exporter>> /\ discovery' = Nothing
        /\ broker' = retire(broker, running')
    BY DEF Discovered
  <1> HIDE DEF hosts
  <1>4. Turning(hosts, running, preparing)
    BY <1>1, <1>2, <1>3 DEF Turning
  <1> QED BY <1>3, <1>4

\* A preparation ended: its broker begins to serve, or there is none.
LEMMA PreparedTurns ==
    ASSUME NEW t \in Targets, Prepared(t)
    PROVE  LET prep == Restrict(preparing, DOMAIN preparing \ {t})
           IN  /\ t \in DOMAIN preparing
               /\ \/ /\ Turning(known, running, prep)
                     /\ broker' = retire(broker, running')
                  \/ /\ preparing[t].state \notin {"failed", "pending"}
                     /\ \E s \in Slots :
                          LET run == [u \in DOMAIN running \cup {t} |->
                                          IF u = t THEN s ELSE running[u]]
                          IN  /\ Turning(known, run, prep)
                              /\ broker[<<t, s>>].state = "none"
                              /\ broker' = retire([broker EXCEPT ![<<t, s>>] =
                                     [no_broker EXCEPT !.state = "serving", !.key = preparing[t].key]],
                                     running')
  <1> DEFINE prep == Restrict(preparing, DOMAIN preparing \ {t})
             failed == preparing[t].state = "failed"
             order == IF failed THEN last_in(retries, t) ELSE retries
             cooling == IF failed THEN waiting \cup {t} ELSE waiting
             run(s) == [u \in DOMAIN running \cup {t} |-> IF u = t THEN s ELSE running[u]]
  <1>1. /\ at("running") /\ UNCHANGED <<world, trust, exporter, discovery>>
        /\ t \in DOMAIN preparing /\ preparing[t].state # "pending"
        /\ \/ /\ ~failed
              /\ \E s \in Slots :
                   /\ broker[<<t, s>>].state = "none"
                   /\ Turn(known, run(s), prep, order, cooling)
                   /\ broker' = retire([broker EXCEPT ![<<t, s>>] =
                          [no_broker EXCEPT !.state = "serving", !.key = preparing[t].key]], running')
           \/ /\ Turn(known, running, prep, order, cooling)
              /\ broker' = retire(broker, running')
    BY Zenon DEF Prepared
  <1> HIDE DEF prep, order, cooling
  <1>2. CASE Turn(known, running, prep, order, cooling) /\ broker' = retire(broker, running')
    <2>1. Turning(known, running, prep)
      BY <1>1, <1>2 DEF Turning, TurnHosts
    <2> QED BY <1>1, <1>2, <2>1, Zenon DEF prep
  <1>3. CASE ~failed /\ \E s \in Slots :
                   /\ broker[<<t, s>>].state = "none"
                   /\ Turn(known, run(s), prep, order, cooling)
                   /\ broker' = retire([broker EXCEPT ![<<t, s>>] =
                          [no_broker EXCEPT !.state = "serving", !.key = preparing[t].key]], running')
    <2>1. PICK s \in Slots :
                   /\ broker[<<t, s>>].state = "none"
                   /\ Turn(known, run(s), prep, order, cooling)
                   /\ broker' = retire([broker EXCEPT ![<<t, s>>] =
                          [no_broker EXCEPT !.state = "serving", !.key = preparing[t].key]], running')
      BY <1>3, Zenon
    <2>2. Turning(known, run(s), prep)
      <3> HIDE DEF run
      <3> QED BY <1>1, <2>1 DEF Turning, TurnHosts
    <2>3. preparing[t].state \notin {"failed", "pending"}
      BY <1>1, <1>3
    <2> QED BY <1>1, <2>1, <2>2, <2>3, Zenon DEF prep
  <1> QED BY <1>1, <1>2, <1>3, Zenon

\* A broker's task ended: its slot is free, and its host is forgotten if it was still
\* this broker's.
LEMMA FinishedTurns ==
    ASSUME NEW t \in Targets, NEW s \in Slots, Finished(t, s)
    PROVE  \E run :
             /\ \/ run = running /\ ~(t \in DOMAIN running /\ running[t] = s)
                \/ run = Restrict(running, DOMAIN running \ {t})
             /\ Turning(known, run, preparing)
             /\ broker' = retire([broker EXCEPT ![<<t, s>>] = no_broker], running')
  <1> DEFINE run == IF own_broker(t, s) THEN Restrict(running, DOMAIN running \ {t}) ELSE running
  <1>1. /\ Turn(known, run, preparing, retries, waiting)
        /\ at("running") /\ UNCHANGED <<world, trust, exporter, discovery>>
        /\ broker' = retire([broker EXCEPT ![<<t, s>>] = no_broker], running')
    BY Zenon DEF Finished
  <1>2. \/ run = running /\ ~(t \in DOMAIN running /\ running[t] = s)
        \/ run = Restrict(running, DOMAIN running \ {t})
    BY Zenon DEF own_broker
  <1> HIDE DEF run
  <1>3. Turning(known, run, preparing)
    BY <1>1 DEF Turning, TurnHosts
  <1> QED BY <1>1, <1>2, <1>3

\* What a turn leaves: the names it publishes are those of the brokers it kept, all of
\* them of hosts it knows.
LEMMA TurningNames ==
    ASSUME SnapshotInv, NEW hosts, NEW run, NEW prep, Turning(hosts, run, prep)
    PROVE  /\ SnapshotInv'
           /\ config' = {configuration(t, running'[t], aliases(known', t)) : t \in DOMAIN running'}
           /\ \A t \in DOMAIN running' :
                t \in DOMAIN known' /\ t \in DOMAIN run /\ running'[t] = run[t]
           /\ Preparations /\ (\A t \in DOMAIN prep : t \in DOMAIN preparing /\ prep[t] = preparing[t])
                => Preparations'
  <1>1. PICK order, cooling : Turn(hosts, run, prep, order, cooling)
    BY DEF Turning
  <1> DEFINE alive == Restrict(hosts, {t \in DOMAIN hosts : hosts[t].live})
             kept == Restrict(run, DOMAIN run \cap DOMAIN alive)
  <1>2. /\ known' = alive /\ running' = kept
        /\ config' = {configuration(t, kept[t], aliases(alive, t)) : t \in DOMAIN kept}
    BY <1>1, TurnIs
  <1>3. IsSnapshot(hosts)
    BY TurnHostsIsSnapshot DEF Turning
  <1>4. IsSnapshot(alive)
    BY <1>3 DEF IsSnapshot, Restrict
  <1>5. /\ DOMAIN kept \subseteq DOMAIN alive /\ DOMAIN kept \subseteq DOMAIN run
        /\ \A t \in DOMAIN kept : kept[t] = run[t]
    BY DEF Restrict
  <1> HIDE DEF alive, kept
  <1>6. IsSnapshot(known)'
    BY <1>2, <1>4 DEF IsSnapshot
  <1>7. SnapshotInv'
    <2>1. CASE discovery' = Nothing
      BY <1>6, <2>1 DEF SnapshotInv
    <2>2. CASE discovery' = discovery
      BY <1>6, <2>2 DEF SnapshotInv, IsSnapshot
    <2> QED BY <2>1, <2>2 DEF Turning
  <1>8. config' = {configuration(t, running'[t], aliases(known', t)) : t \in DOMAIN running'}
    BY <1>2, Zenon
  <1>9. DOMAIN hosts \subseteq Targets
    BY <1>3 DEF IsSnapshot
  <1>10. trusted' = trusted
    BY DEF Turning, trust
  <1>11. ASSUME Preparations, \A t \in DOMAIN prep : t \in DOMAIN preparing /\ prep[t] = preparing[t]
         PROVE  Preparations'
    BY <1>1, <1>9, <1>10, <1>11, TurnKeepsPreparations
  <1> QED BY <1>2, <1>5, <1>7, <1>8, <1>11

\* What a turn does to the brokers before it retires those it did not keep: a prepared
\* one takes a slot, one that ended frees its own, or neither.
Brokering(run, brokers) ==
    \/ brokers = broker /\ run = running
    \/ \E t \in Targets, s \in Slots :
         /\ t \in DOMAIN preparing /\ preparing[t].state \notin {"failed", "pending"}
         /\ run = [u \in DOMAIN running \cup {t} |-> IF u = t THEN s ELSE running[u]]
         /\ brokers = [broker EXCEPT ![<<t, s>>] =
                         [no_broker EXCEPT !.state = "serving", !.key = preparing[t].key]]
    \/ \E t \in Targets, s \in Slots :
         /\ DOMAIN run \subseteq DOMAIN running
         /\ \A u \in DOMAIN run : run[u] = running[u]
         /\ ~(t \in DOMAIN run /\ run[t] = s)
         /\ brokers = [broker EXCEPT ![<<t, s>>] = no_broker]

LoopTurn(hosts, run, prep, brokers) ==
    /\ Turning(hosts, run, prep)
    /\ \A t \in DOMAIN prep : t \in DOMAIN preparing /\ prep[t] = preparing[t]
    /\ Brokering(run, brokers)
    /\ broker' = retire(brokers, running')

LEMMA EveryTurn ==
    ASSUME \/ Tick /\ ~slept
           \/ Discovered
           \/ \E t \in Targets : Prepared(t) \/ \E s \in Slots : Finished(t, s)
    PROVE  \E hosts, run, prep, brokers : LoopTurn(hosts, run, prep, brokers)
  <1>1. CASE (Tick /\ ~slept) \/ Discovered
    <2>1. PICK hosts : Turning(hosts, running, preparing)
      BY <1>1, TickTurns, DiscoveredTurns
    <2>2. broker' = retire(broker, running')
      BY <1>1, TickTurns, DiscoveredTurns
    <2>3. LoopTurn(hosts, running, preparing, broker)
      BY <2>1, <2>2 DEF LoopTurn, Brokering
    <2> QED BY <2>3
  <1>2. ASSUME NEW t \in Targets, Prepared(t)
        PROVE  \E hosts, run, prep, brokers : LoopTurn(hosts, run, prep, brokers)
    <2> DEFINE prep == Restrict(preparing, DOMAIN preparing \ {t})
               run(s) == [u \in DOMAIN running \cup {t} |-> IF u = t THEN s ELSE running[u]]
               next(s) == [broker EXCEPT ![<<t, s>>] =
                              [no_broker EXCEPT !.state = "serving", !.key = preparing[t].key]]
    <2>1. \A u \in DOMAIN prep : u \in DOMAIN preparing /\ prep[u] = preparing[u]
      BY DEF Restrict
    <2>2. /\ t \in DOMAIN preparing
          /\ \/ Turning(known, running, prep) /\ broker' = retire(broker, running')
             \/ /\ preparing[t].state \notin {"failed", "pending"}
                /\ \E s \in Slots : Turning(known, run(s), prep) /\ broker' = retire(next(s), running')
      BY <1>2, PreparedTurns, Zenon
    <2> HIDE DEF prep
    <2>3. CASE Turning(known, running, prep) /\ broker' = retire(broker, running')
      <3>1. LoopTurn(known, running, prep, broker)
        BY <2>1, <2>3 DEF LoopTurn, Brokering
      <3> QED BY <3>1
    <2>4. ASSUME preparing[t].state \notin {"failed", "pending"}, NEW s \in Slots,
                 Turning(known, run(s), prep), broker' = retire(next(s), running')
          PROVE  \E hosts, r, p, brokers : LoopTurn(hosts, r, p, brokers)
      <3>1. Brokering(run(s), next(s))
        BY <2>2, <2>4, Zenon DEF Brokering
      <3> HIDE DEF run, next
      <3>2. LoopTurn(known, run(s), prep, next(s))
        BY <2>1, <2>4, <3>1 DEF LoopTurn
      <3> QED BY <3>2
    <2> QED BY <2>2, <2>3, <2>4
  <1>3. ASSUME NEW t \in Targets, NEW s \in Slots, Finished(t, s)
        PROVE  \E hosts, run, prep, brokers : LoopTurn(hosts, run, prep, brokers)
    <2> DEFINE next == [broker EXCEPT ![<<t, s>>] = no_broker]
    <2>1. PICK run :
             /\ \/ run = running /\ ~(t \in DOMAIN running /\ running[t] = s)
                \/ run = Restrict(running, DOMAIN running \ {t})
             /\ Turning(known, run, preparing)
             /\ broker' = retire(next, running')
      BY <1>3, FinishedTurns
    <2>2. /\ DOMAIN run \subseteq DOMAIN running
          /\ \A u \in DOMAIN run : run[u] = running[u]
          /\ ~(t \in DOMAIN run /\ run[t] = s)
      BY <2>1 DEF Restrict
    <2>3. Brokering(run, next)
      BY <2>2, Zenon DEF Brokering
    <2>4. LoopTurn(known, run, preparing, next)
      BY <2>1, <2>3 DEF LoopTurn
    <2> QED BY <2>4
  <1> QED BY <1>1, <1>2, <1>3

\* The names in the configuration while the loop runs, and what a stopped exporter left.
NamesInv ==
    /\ exporter \in ExporterState
    /\ exporter.at \notin {"running", "stopping"} => running = empty
    /\ at("running") =>
         /\ config = {configuration(t, running[t], aliases(known, t)) : t \in DOMAIN running}
         /\ \A t \in DOMAIN running :
              t \in DOMAIN known /\ running[t] \in Slots /\ broker[<<t, running[t]>>].state # "none"
    /\ exporter.at \in {"installing", "including", "started", "failed", "unpublished", "cleaning",
                        "excluding"} => config = {}
    /\ \/ exporter.at \in {"unpublished", "cleaning", "excluding"}
       \/ exporter.at \in {"down", "installing", "including", "started", "failed"} /\ ~exporter.crashed
       => config = {} /\ ~report.complete

ExportInv == SnapshotInv /\ KeyInv /\ NamesInv

\* Brokers stay trustworthy and the names true through a turn.
LEMMA TurnKeepsExport ==
    ASSUME ExportInv, NEW hosts, NEW run, NEW prep, NEW brokers, LoopTurn(hosts, run, prep, brokers)
    PROVE  ExportInv'
  <1>0. SnapshotInv /\ KeyInv /\ NamesInv /\ Turning(hosts, run, prep) /\ Brokering(run, brokers)
        /\ at("running") /\ UNCHANGED <<world, trusted, exporter>>
    BY DEF ExportInv, LoopTurn, Turning, trust
  <1>1. /\ SnapshotInv' /\ Preparations'
        /\ config' = {configuration(t, running'[t], aliases(known', t)) : t \in DOMAIN running'}
        /\ \A t \in DOMAIN running' :
              t \in DOMAIN known' /\ t \in DOMAIN run /\ running'[t] = run[t]
    BY <1>0, TurningNames DEF LoopTurn, KeyInv
  <1>2. DOMAIN brokers = Brokers /\ \A b \in Brokers : Trustworthy(b, brokers[b])
    <2>1. CASE brokers = broker
      BY <1>0, <2>1 DEF KeyInv
    <2>2. ASSUME NEW t \in Targets, NEW s \in Slots, NEW next, Trustworthy(<<t, s>>, next),
                 brokers = [broker EXCEPT ![<<t, s>>] = next]
          PROVE  DOMAIN brokers = Brokers /\ \A b \in Brokers : Trustworthy(b, brokers[b])
      BY <1>0, <2>2 DEF KeyInv, Brokers
    <2>3. ASSUME NEW t \in Targets, NEW s \in Slots PROVE Trustworthy(<<t, s>>, no_broker)
      BY <1>0, NoBrokerTrusted DEF Brokers
    <2>4. ASSUME NEW t \in Targets, NEW s \in Slots,
                 t \in DOMAIN preparing, preparing[t].state \notin {"failed", "pending"}
          PROVE  Trustworthy(<<t, s>>, [no_broker EXCEPT !.state = "serving", !.key = preparing[t].key])
      <3> DEFINE next == [no_broker EXCEPT !.state = "serving", !.key = preparing[t].key]
      <3>1. preparing[t].key \in trusted[t] /\ trusted[t] \subseteq Keys
        BY <1>0, <2>4 DEF KeyInv, Preparations
      <3>2. next \in BrokerState /\ next.state = "serving" /\ next.streams = {} /\ next.key = preparing[t].key
        BY <3>1 DEF no_broker, BrokerState
      <3> HIDE DEF next
      <3>3. Trustworthy(<<t, s>>, next)
        BY <3>1, <3>2 DEF Trustworthy
      <3> QED BY <3>3 DEF next
    <2> QED BY <1>0, <2>1, <2>2, <2>3, <2>4 DEF Brokering
  <1>3. ASSUME NEW t \in DOMAIN run, t \in Targets
        PROVE  run[t] \in Slots /\ brokers[<<t, run[t]>>].state # "none"
    <2>0. \A u \in DOMAIN running : running[u] \in Slots /\ broker[<<u, running[u]>>].state # "none"
      BY <1>0 DEF NamesInv
    <2>1. CASE brokers = broker /\ run = running
      BY <2>0, <2>1
    <2>2. ASSUME NEW u \in Targets, NEW s \in Slots,
                 run = [v \in DOMAIN running \cup {u} |-> IF v = u THEN s ELSE running[v]],
                 brokers = [broker EXCEPT ![<<u, s>>] =
                              [no_broker EXCEPT !.state = "serving", !.key = preparing[u].key]]
          PROVE  run[t] \in Slots /\ brokers[<<t, run[t]>>].state # "none"
      <3> DEFINE next == [no_broker EXCEPT !.state = "serving", !.key = preparing[u].key]
      <3>1. next.state = "serving"
        BY DEF no_broker
      <3>2. brokers = [broker EXCEPT ![<<u, s>>] = next]
        BY <2>2
      <3> HIDE DEF next
      <3>3. DOMAIN broker = Brokers
        BY <1>0 DEF KeyInv
      <3>4. CASE t = u
        BY <2>2, <3>1, <3>2, <3>3, <3>4 DEF Brokers
      <3>5. CASE t # u
        <4>1. t \in DOMAIN running /\ run[t] = running[t]
          BY <2>2, <3>5, <1>3
        <4>2. <<t, run[t]>> # <<u, s>> /\ <<t, run[t]>> \in Brokers
          BY <2>0, <3>5, <4>1, <1>3 DEF Brokers
        <4>3. brokers[<<t, run[t]>>] = broker[<<t, run[t]>>]
          BY <3>2, <3>3, <4>2
        <4> QED BY <2>0, <4>1, <4>3
      <3> QED BY <3>4, <3>5
    <2>3. ASSUME NEW u \in Targets, NEW s \in Slots,
                 DOMAIN run \subseteq DOMAIN running,
                 \A v \in DOMAIN run : run[v] = running[v],
                 ~(u \in DOMAIN run /\ run[u] = s),
                 brokers = [broker EXCEPT ![<<u, s>>] = no_broker]
          PROVE  run[t] \in Slots /\ brokers[<<t, run[t]>>].state # "none"
      <3>1. t \in DOMAIN running /\ run[t] = running[t]
        BY <2>3, <1>3
      <3>2. <<t, run[t]>> # <<u, s>> /\ <<t, run[t]>> \in Brokers
        BY <2>0, <2>3, <3>1, <1>3 DEF Brokers
      <3>3. brokers[<<t, run[t]>>] = broker[<<t, run[t]>>]
        BY <1>0, <2>3, <3>2 DEF KeyInv
      <3> QED BY <2>0, <3>1, <3>3
    <2> QED BY <1>0, <2>1, <2>2, <2>3 DEF Brokering
  <1>4. ASSUME NEW b \in Brokers
        PROVE  /\ DOMAIN broker' = Brokers
               /\ broker'[b] \in BrokerState /\ broker'[b].state = brokers[b].state
               /\ broker'[b].key = brokers[b].key /\ broker'[b].setups = brokers[b].setups
               /\ broker'[b].streams = brokers[b].streams
    <2>1. b \in DOMAIN brokers /\ brokers[b] \in BrokerState
      BY <1>2 DEF Trustworthy
    <2>2. broker' = retire(brokers, running')
      BY DEF LoopTurn
    <2>3. /\ DOMAIN retire(brokers, running') = DOMAIN brokers
          /\ retire(brokers, running')[b] \in BrokerState
          /\ retire(brokers, running')[b].state = brokers[b].state
          /\ retire(brokers, running')[b].key = brokers[b].key
          /\ retire(brokers, running')[b].setups = brokers[b].setups
          /\ retire(brokers, running')[b].streams = brokers[b].streams
      BY <2>1, RetireKeeps
    <2> QED BY <1>2, <2>2, <2>3
  <1>5. DOMAIN broker' = Brokers
    BY <1>2 DEF LoopTurn, retire
  <1>6. KeyInv'
    <2>1. \A b \in Brokers : Trustworthy(b, broker[b])'
      BY <1>0, <1>2, <1>4 DEF Trustworthy
    <2> QED BY <1>0, <1>1, <1>5, <2>1 DEF KeyInv, WorldType
  <1>7. ASSUME NEW t \in DOMAIN running'
        PROVE  t \in DOMAIN known' /\ running'[t] \in Slots /\ broker'[<<t, running'[t]>>].state # "none"
    <2>1. t \in DOMAIN known' /\ t \in DOMAIN run /\ running'[t] = run[t]
      BY <1>1, <1>7
    <2>2. t \in Targets
      BY <1>1, <2>1 DEF SnapshotInv, IsSnapshot
    <2>3. run[t] \in Slots /\ brokers[<<t, run[t]>>].state # "none"
      BY <1>3, <2>1, <2>2
    <2>4. <<t, run[t]>> \in Brokers
      BY <2>2, <2>3 DEF Brokers
    <2> QED BY <1>4, <2>1, <2>3, <2>4
  <1>8. NamesInv'
    BY <1>0, <1>1, <1>7 DEF NamesInv, at
  <1> QED BY <1>1, <1>6, <1>8 DEF ExportInv

----------------------------------------------------------------------------
(* The steps beside the turns.                                               *)

\* Steps of the exporter's life cycle and of what concerns neither names nor keys.
LifeCycle ==
    \/ Files \/ Begin \/ (Tick /\ slept) \/ Shutdown \/ Edit \/ Sleep
    \/ \E t \in Targets : RetryDue(t)

LEMMA LifeCycleKeepsExport ==
    ASSUME FileInv, ExportInv, LifeCycle
    PROVE  ExportInv'
  <1>0. exporter \in ExporterState /\ user \in UserFile /\ NamesInv
    BY DEF ExportInv, NamesInv, FileInv
  <1>1. UNCHANGED <<world, trust, known, discovery, preparing, running, broker>>
    BY DEF LifeCycle, Files, Install, CheckInstall, Include, InstallFails, Cleanup, CheckCleanup,
       Exclude, Begin, Tick, Shutdown, Edit, Sleep, RetryDue, loop
  <1>2. SnapshotInv' /\ KeyInv'
    BY <1>1 DEF ExportInv, SnapshotInv, IsSnapshot, KeyInv, WorldType, Preparations, Trustworthy, trust
  <1>3. NamesInv'
    <2>0. ASSUME exporter.at \notin {"running", "stopping"}, exporter' \in ExporterState,
                 exporter'.at \in {"installing", "including", "started", "failed", "down",
                                    "cleaning", "excluding"},
                 exporter'.at # "down" => config' = {},
                 exporter.at \in {"unpublished", "cleaning", "excluding"} \/ ~exporter'.crashed
                     => config' = {} /\ ~report'.complete,
                 exporter'.at \in {"cleaning", "excluding"} => ~report'.complete
          PROVE  NamesInv'
      BY <1>0, <1>1, <2>0 DEF NamesInv, at
    <2>1. CASE Install
      <3>1. exporter' \in ExporterState /\ exporter'.at = "installing"
            /\ exporter'.crashed = exporter.crashed
        BY <1>0, <2>1 DEF Install, ExporterState, Places
      <3> QED BY <1>0, <2>0, <2>1, <3>1 DEF NamesInv, Install, at
    <2>2. CASE CheckInstall \/ Include \/ InstallFails
      <3>1. /\ exporter' \in ExporterState /\ exporter'.crashed = exporter.crashed
            /\ exporter'.at \in {"started", "including", "failed", "down"}
            /\ exporter.at \in {"installing", "including", "failed"}
        BY <1>0, <2>2 DEF CheckInstall, Include, InstallFails, ExporterState, Places, go, at
      <3>2. config' = config /\ report' = report
        BY <2>2 DEF CheckInstall, Include, InstallFails, loop
      <3> QED BY <1>0, <2>0, <3>1, <3>2 DEF NamesInv
    <2>7. CASE Cleanup
      <3>1. exporter' \in ExporterState /\ exporter'.at \in {"cleaning", "down"}
        BY <1>0, <2>7 DEF Cleanup, ExporterState, Places
      <3> QED BY <2>0, <2>7, <3>1 DEF Cleanup, at
    <2>8. CASE CheckCleanup \/ Exclude
      <3>1. /\ exporter' \in ExporterState
            /\ exporter'.at \in {"excluding", "down"}
            /\ exporter.at \in {"cleaning", "excluding"}
        BY <1>0, <2>8 DEF CheckCleanup, Exclude, ExporterState, Places, go, at
      <3>2. config' = config /\ report' = report
        BY <2>8 DEF CheckCleanup, Exclude, loop
      <3> QED BY <1>0, <2>0, <3>1, <3>2 DEF NamesInv
    <2>3. CASE Begin
      <3>1. config = {} /\ running = empty /\ config' = config
        BY <1>0, <2>3 DEF NamesInv, Begin, at
      <3>2. {configuration(t, running[t], aliases(known, t)) : t \in DOMAIN running} = {}
        BY <3>1 DEF empty
      <3>3. exporter' \in ExporterState /\ exporter'.at = "running"
        BY <1>0, <2>3 DEF Begin, ExporterState, Places
      <3> QED BY <1>1, <3>1, <3>2, <3>3 DEF NamesInv, at, empty
    <2>4. CASE (Tick /\ slept) \/ Shutdown
      BY <1>0, <1>1, <2>4, ZenonT(30) DEF NamesInv, ExporterState, Places, at, Tick, Shutdown, loop
    <2>5. CASE UNCHANGED <<exporter, config, report>>
      BY <1>0, <1>1, <2>5 DEF NamesInv, at
    <2>6. CASE Edit \/ Sleep \/ \E t \in Targets : RetryDue(t)
      BY <2>5, <2>6 DEF Edit, Sleep, RetryDue, loop
    <2> QED BY <2>1, <2>2, <2>3, <2>4, <2>6, <2>7, <2>8 DEF LifeCycle, Files
  <1> QED BY <1>2, <1>3 DEF ExportInv

LEMMA EndKeepsExport == ExportInv /\ (TearDown \/ Unpublish \/ Crash) => ExportInv'
  <1> SUFFICES ASSUME ExportInv, TearDown \/ Unpublish \/ Crash PROVE ExportInv'
    OBVIOUS
  <1>0. exporter \in ExporterState /\ NamesInv /\ KeyInv /\ SnapshotInv
    BY DEF ExportInv, NamesInv
  <1>1. \/ known' = empty /\ preparing' = empty /\ running' = empty /\ discovery' = Nothing
        \/ UNCHANGED <<known, preparing, running, discovery>>
    BY DEF TearDown, Unpublish, Crash
  <1>2. SnapshotInv'
    BY <1>0, <1>1 DEF SnapshotInv, IsSnapshot, empty
  <1>3. UNCHANGED <<world, trust>>
    BY DEF TearDown, Unpublish, Crash
  <1>4. Preparations'
    BY <1>0, <1>1, <1>3 DEF KeyInv, Preparations, empty, trust
  <1>5. DOMAIN broker' = Brokers /\ \A b \in Brokers : Trustworthy(b, broker[b])'
    <2> DEFINE over == [no_broker EXCEPT !.state = "ended"]
    <2>1. DOMAIN broker' = Brokers /\ \A b \in Brokers : broker'[b] \in {no_broker, over}
      BY <1>0 DEF KeyInv, TearDown, Unpublish, Crash
    <2> HIDE DEF over
    <2>2. \A b \in Brokers : Trustworthy(b, no_broker) /\ Trustworthy(b, over)
      BY <1>0, NoBrokerTrusted DEF over
    <2> QED BY <1>3, <2>1, <2>2 DEF Trustworthy, trust
  <1>6. KeyInv'
    BY <1>0, <1>3, <1>4, <1>5 DEF KeyInv, WorldType, trust
  <1>7. NamesInv'
    <2>1. CASE TearDown
      BY <1>0, <2>1 DEF TearDown, NamesInv, ExporterState, Places, at, go
    <2>2. CASE Crash
      BY <1>0, <2>2 DEF Crash, NamesInv, ExporterState, Places, at
    <2>3. CASE Unpublish
      <3>1. running = empty /\ running' = running /\ config' = {} /\ ~report'.complete
        BY <1>0, <2>3 DEF NamesInv, Unpublish, at
      <3>2. exporter' \in ExporterState /\ exporter'.at \in {"running", "unpublished"}
        BY <1>0, <2>3 DEF Unpublish, ExporterState, Places, go
      <3>3. {configuration(t, running'[t], aliases(known', t)) : t \in DOMAIN running'} = {}
        BY <3>1 DEF empty
      <3> QED BY <3>1, <3>2, <3>3 DEF NamesInv, at, empty
    <2> QED BY <2>1, <2>2, <2>3
  <1> QED BY <1>2, <1>6, <1>7 DEF ExportInv

\* A lease that runs out changes no label.
LEMMA LapseKeepsNames ==
    ASSUME SnapshotInv, NEW t \in Targets, Lapse(t)
    PROVE  /\ SnapshotInv'
           /\ DOMAIN known' = DOMAIN known
           /\ \A u \in DOMAIN known : aliases(known', u) = aliases(known, u)
  <1> DEFINE lapsed(hosts) == [u \in DOMAIN hosts |->
                            IF u = t THEN [hosts[u] EXCEPT !.live = FALSE] ELSE hosts[u]]
  <1>1. ASSUME NEW hosts, IsSnapshot(hosts)
        PROVE  /\ IsSnapshot(lapsed(hosts)) /\ DOMAIN lapsed(hosts) = DOMAIN hosts
               /\ \A u \in DOMAIN hosts : lapsed(hosts)[u].label = hosts[u].label
    BY <1>1 DEF IsSnapshot, HostRow
  <1>2. /\ known' = lapsed(known)
        /\ discovery' = IF discovery = Nothing \/ discovery.failed THEN discovery
                        ELSE [discovery EXCEPT !.hosts = lapsed(@)]
    BY DEF Lapse
  <1> HIDE DEF lapsed
  <1>3. IsSnapshot(known) /\ IsSnapshot(known')
    BY <1>1, <1>2 DEF SnapshotInv
  <1>4. SnapshotInv'
    <2>1. CASE discovery = Nothing \/ discovery = [failed |-> TRUE]
      BY <1>2, <1>3, <2>1 DEF SnapshotInv, IsSnapshot
    <2>2. CASE discovery \in [failed : {FALSE}, complete : BOOLEAN, hosts : Snapshots] /\ discovery # Nothing
      <3>1. discovery.failed = FALSE /\ discovery.hosts \in Snapshots
        BY <2>2
      <3>2. lapsed(discovery.hosts) \in Snapshots
        BY <1>1, <3>1, SnapshotsAre
      <3>3. discovery' = [discovery EXCEPT !.hosts = lapsed(discovery.hosts)]
        BY <1>2, <2>2, <3>1
      <3>4. discovery' \in [failed : {FALSE}, complete : BOOLEAN, hosts : Snapshots]
        BY <2>2, <3>2, <3>3
      <3> QED BY <1>3, <3>4 DEF SnapshotInv, IsSnapshot
    <2> QED BY <2>1, <2>2 DEF SnapshotInv
  <1>5. DOMAIN known' = DOMAIN known /\ \A u \in DOMAIN known : known'[u].label = known[u].label
    BY <1>1, <1>2, <1>3
  <1>6. \A u \in DOMAIN known : aliases(known', u) = aliases(known, u)
    BY <1>5 DEF aliases
  <1> QED BY <1>4, <1>5, <1>6

LEMMA DiscoveryKeepsExport ==
    ASSUME ExportInv, Discover \/ DiscoverFails \/ \E t \in Targets : Lapse(t)
    PROVE  ExportInv'
  <1>0. SnapshotInv /\ KeyInv /\ NamesInv
    BY DEF ExportInv
  <1>1. UNCHANGED <<world, trust, preparing, config, report, exporter, running, broker>>
    BY Zenon DEF Discover, DiscoverFails, Lapse
  <1>2. KeyInv'
    BY <1>0, <1>1 DEF KeyInv, WorldType, Preparations, Trustworthy, trust
  <1>3. CASE Discover
    <2>1. PICK missing \in SUBSET Targets :
            LET fresh == {t \in Targets \ missing : world[t].advertised}
                old == {t \in missing \cap DOMAIN known : known[t].live}
            IN  discovery' = [failed |-> FALSE, complete |-> missing = {},
                     hosts |-> [t \in fresh \cup old |->
                         IF t \in fresh THEN [label |-> world[t].label, live |-> TRUE] ELSE known[t]]]
      BY <1>3, Zenon DEF Discover
    <2> DEFINE fresh == {t \in Targets \ missing : world[t].advertised}
               old == {t \in missing \cap DOMAIN known : known[t].live}
               hosts == [t \in fresh \cup old |->
                         IF t \in fresh THEN [label |-> world[t].label, live |-> TRUE] ELSE known[t]]
    <2>2. fresh \cup old \subseteq Targets /\ old \subseteq DOMAIN known
      OBVIOUS
    <2>3. \A t \in fresh : [label |-> world[t].label, live |-> TRUE] \in HostRow
      BY <1>0 DEF KeyInv, WorldType, HostRow
    <2>4. \A t \in old : known[t] \in HostRow
      BY <1>0 DEF SnapshotInv, IsSnapshot
    <2>5. discovery' = [failed |-> FALSE, complete |-> missing = {}, hosts |-> hosts]
      BY <2>1, Zenon
    <2> HIDE DEF fresh, old
    <2>6. IsSnapshot(hosts)
      BY <2>2, <2>3, <2>4 DEF IsSnapshot
    <2> HIDE DEF hosts
    <2>7. hosts \in Snapshots /\ (missing = {}) \in BOOLEAN
      BY <2>6, SnapshotsAre
    <2>8. discovery' \in [failed : {FALSE}, complete : BOOLEAN, hosts : Snapshots]
      BY <2>5, <2>7
    <2>9. known' = known
      BY <1>3 DEF Discover
    <2>10. SnapshotInv' /\ NamesInv'
      BY <1>0, <1>1, <2>8, <2>9 DEF SnapshotInv, IsSnapshot, NamesInv, at
    <2> QED BY <1>2, <2>10 DEF ExportInv
  <1>4. CASE DiscoverFails
    <2>1. known' = known /\ discovery' = [failed |-> TRUE]
      BY <1>4 DEF DiscoverFails
    <2>2. SnapshotInv' /\ NamesInv'
      BY <1>0, <1>1, <2>1 DEF SnapshotInv, IsSnapshot, NamesInv, at
    <2> QED BY <1>2, <2>2 DEF ExportInv
  <1>5. ASSUME NEW t \in Targets, Lapse(t) PROVE ExportInv'
    <2>1. /\ SnapshotInv'
          /\ DOMAIN known' = DOMAIN known
          /\ \A u \in DOMAIN known : aliases(known', u) = aliases(known, u)
      BY <1>0, <1>5, LapseKeepsNames
    <2>2. NamesInv'
      BY <1>0, <1>1, <2>1 DEF NamesInv, at
    <2> QED BY <1>2, <2>1, <2>2 DEF ExportInv
  <1> QED BY <1>3, <1>4, <1>5

\* Trust only grows.
LEMMA PinGrows ==
    ASSUME KeyInv, NEW t \in Targets, pin(t, host_key(t))
    PROVE  /\ trusted' \in [Targets -> SUBSET Keys]
           /\ host_key(t) \in trusted'[t] /\ host_key(t) \in Keys
           /\ \A u \in Targets : trusted[u] \subseteq trusted'[u]
  BY DEF KeyInv, WorldType, pin, host_key

LEMMA PinKeepsExport ==
    ASSUME ExportInv,
           \/ \E t \in Targets : Prepare(t)
           \/ \E t \in Targets, trust_new_host_key \in BOOLEAN : OneShot(t, trust_new_host_key)
    PROVE  ExportInv'
  <1>0. SnapshotInv /\ KeyInv /\ NamesInv
    BY DEF ExportInv
  <1>1. UNCHANGED <<world, known, discovery, config, report, exporter, running, broker>>
    BY Zenon DEF Prepare, OneShot, loop
  <1>2. SnapshotInv' /\ NamesInv'
    BY <1>0, <1>1 DEF SnapshotInv, IsSnapshot, NamesInv, at
  <1>3. ASSUME trusted' \in [Targets -> SUBSET Keys], \A u \in Targets : trusted[u] \subseteq trusted'[u],
               Preparations'
        PROVE  ExportInv'
    <2>1. \A b \in Brokers : b[1] \in Targets
      BY DEF Brokers
    <2>2. \A b \in Brokers : Trustworthy(b, broker[b])'
      BY <1>0, <1>1, <1>3, <2>1 DEF KeyInv, Trustworthy
    <2>3. KeyInv'
      BY <1>0, <1>1, <1>3, <2>2 DEF KeyInv, WorldType
    <2> QED BY <1>2, <2>3 DEF ExportInv
  <1>4. ASSUME NEW t \in Targets, NEW trust_new_host_key \in BOOLEAN, OneShot(t, trust_new_host_key)
        PROVE  ExportInv'
    <2>1. pin(t, host_key(t)) /\ preparing' = preparing
      BY <1>4, Zenon DEF OneShot, loop
    <2>2. /\ trusted' \in [Targets -> SUBSET Keys]
          /\ \A u \in Targets : trusted[u] \subseteq trusted'[u]
      BY <1>0, <2>1, PinGrows
    <2>3. Preparations'
      BY <1>0, <2>1, <2>2 DEF KeyInv, Preparations
    <2> QED BY <1>3, <2>2, <2>3
  <1>5. ASSUME NEW t \in Targets, Prepare(t) PROVE ExportInv'
    <2>1. CASE /\ preparing' = [preparing EXCEPT ![t] = [state |-> "ready", key |-> host_key(t)]]
               /\ pin(t, host_key(t)) /\ t \in DOMAIN preparing
      <3>1. /\ trusted' \in [Targets -> SUBSET Keys] /\ host_key(t) \in trusted'[t]
            /\ [state |-> "ready", key |-> host_key(t)] \in Preparation
            /\ \A u \in Targets : trusted[u] \subseteq trusted'[u]
        BY <1>0, <2>1, PinGrows DEF Preparation
      <3>2. Preparations'
        BY <1>0, <2>1, <3>1 DEF KeyInv, Preparations
      <3> QED BY <1>3, <3>1, <3>2
    <2>2. CASE /\ preparing' = [preparing EXCEPT ![t].state = "failed"] /\ UNCHANGED trust
               /\ t \in DOMAIN preparing /\ preparing[t].state = "pending"
      <3>1. trusted' = trusted
        BY <2>2 DEF trust
      <3>2. preparing'[t] \in Preparation /\ preparing'[t].state = "failed"
        BY <1>0, <2>2 DEF KeyInv, Preparations, Preparation
      <3>3. DOMAIN preparing' = DOMAIN preparing
            /\ \A u \in DOMAIN preparing : u # t => preparing'[u] = preparing[u]
        BY <2>2
      <3>4. Preparations'
        BY <1>0, <3>1, <3>2, <3>3 DEF KeyInv, Preparations
      <3> QED BY <1>0, <1>3, <3>1, <3>4 DEF KeyInv
    <2> QED BY <1>5, <2>1, <2>2, Zenon DEF Prepare
  <1> QED BY <1>4, <1>5

BrokerTask(b) ==
    \/ Accept(b) \/ SetUp(b) \/ SetupFails(b) \/ StreamEnds(b)
    \/ StopAccepting(b) \/ ServeEnds(b) \/ ServeFails(b)

\* What a broker's task makes of it: it never disappears by itself, and whatever it sets
\* up shows the key it was prepared with.
LEMMA BrokerTaskResult ==
    ASSUME KeyInv, NEW b \in Brokers, BrokerTask(b)
    PROVE  \E next : /\ broker' = [broker EXCEPT ![b] = next]
                     /\ Trustworthy(b, next)
                     /\ broker[b].state # "none" => next.state # "none"
  <1>0. broker[b] \in BrokerState /\ Trustworthy(b, broker[b]) /\ b[1] \in Targets
    BY DEF KeyInv, Trustworthy, Brokers
  <1>1. CASE Accept(b)
    <2> DEFINE next == [broker[b] EXCEPT !.setups = @ + 1]
    <2>1. broker' = [broker EXCEPT ![b] = next] /\ broker[b].state = "serving"
      BY <1>1 DEF Accept, only_broker, local_proxy
    <2>2. next \in BrokerState /\ next.state = broker[b].state /\ next.key = broker[b].key
          /\ next.streams = broker[b].streams
      BY <1>0 DEF BrokerState
    <2> HIDE DEF next
    <2>3. Trustworthy(b, next)
      BY <1>0, <2>1, <2>2 DEF Trustworthy
    <2> QED BY <2>1, <2>2, <2>3
  <1>2. CASE SetUp(b)
    <2> DEFINE next == [broker[b] EXCEPT !.setups = @ - 1, !.streams = @ \cup {host_key(b[1])}]
    <2>1. broker' = [broker EXCEPT ![b] = next] /\ broker[b].setups > 0 /\ host_key(b[1]) = broker[b].key
      BY <1>2 DEF SetUp, only_broker, same_identity
    <2>2. broker[b].key \in trusted[b[1]] /\ trusted[b[1]] \subseteq Keys
      BY <1>0, <2>1 DEF Trustworthy, KeyInv
    <2>3. next \in BrokerState /\ next.state = broker[b].state /\ next.key = broker[b].key
          /\ next.streams = broker[b].streams \cup {broker[b].key}
      <3>1. next = [broker[b] EXCEPT !.setups = broker[b].setups - 1,
                                     !.streams = broker[b].streams \cup {broker[b].key}]
        BY <2>1
      <3>2. broker[b].setups - 1 \in Nat /\ broker[b].streams \cup {broker[b].key} \in SUBSET Keys
        BY <1>0, <2>1, <2>2 DEF BrokerState
      <3> HIDE DEF next
      <3> QED BY <1>0, <3>1, <3>2 DEF BrokerState
    <2> HIDE DEF next
    <2>4. Trustworthy(b, next)
      BY <1>0, <2>2, <2>3 DEF Trustworthy
    <2> QED BY <2>1, <2>3, <2>4
  <1>3. CASE SetupFails(b)
    <2> DEFINE next == [broker[b] EXCEPT !.setups = @ - 1]
    <2>1. broker' = [broker EXCEPT ![b] = next] /\ broker[b].setups > 0
      BY <1>3 DEF SetupFails, only_broker
    <2>2. next \in BrokerState /\ next.state = broker[b].state /\ next.key = broker[b].key
          /\ next.streams = broker[b].streams
      BY <1>0, <2>1 DEF BrokerState
    <2> HIDE DEF next
    <2>3. Trustworthy(b, next)
      BY <1>0, <2>1, <2>2 DEF Trustworthy
    <2> QED BY <2>1, <2>2, <2>3
  <1>4. CASE StreamEnds(b)
    <2>1. PICK key \in broker[b].streams :
            broker' = [broker EXCEPT ![b] = [broker[b] EXCEPT !.streams = @ \ {key}]]
      BY <1>4 DEF StreamEnds, only_broker
    <2> DEFINE next == [broker[b] EXCEPT !.streams = @ \ {key}]
    <2>2. next \in BrokerState /\ next.state = broker[b].state /\ next.key = broker[b].key
          /\ next.streams = broker[b].streams \ {key} /\ next.setups = broker[b].setups
      BY <1>0, <2>1 DEF BrokerState
    <2>3. broker' = [broker EXCEPT ![b] = next]
      BY <2>1
    <2> HIDE DEF next
    <2>4. Trustworthy(b, next)
      BY <1>0, <2>2 DEF Trustworthy
    <2> QED BY <2>2, <2>3, <2>4
  <1>5. CASE StopAccepting(b) \/ ServeEnds(b)
    <2>1. PICK state \in {"retired", "ended"} :
            broker' = [broker EXCEPT ![b] = [broker[b] EXCEPT !.state = state]]
      BY <1>5 DEF StopAccepting, ServeEnds, only_broker
    <2> DEFINE next == [broker[b] EXCEPT !.state = state]
    <2>2. next \in BrokerState /\ next.state = state /\ next.key = broker[b].key
          /\ next.streams = broker[b].streams /\ next.setups = broker[b].setups
      BY <1>0, <2>1 DEF BrokerState
    <2>3. broker' = [broker EXCEPT ![b] = next]
      BY <2>1
    <2> HIDE DEF next
    <2>4. Trustworthy(b, next)
      BY <1>0, <2>2 DEF Trustworthy
    <2> QED BY <2>2, <2>3, <2>4
  <1>6. CASE ServeFails(b)
    <2> DEFINE next == [no_broker EXCEPT !.state = "ended"]
    <2>1. broker' = [broker EXCEPT ![b] = next]
      BY <1>6 DEF ServeFails
    <2>2. next.state = "ended"
      BY DEF no_broker
    <2>3. Trustworthy(b, next)
      BY NoBrokerTrusted
    <2> HIDE DEF next
    <2> QED BY <2>1, <2>2, <2>3
  <1> QED BY <1>1, <1>2, <1>3, <1>4, <1>5, <1>6 DEF BrokerTask

LEMMA BrokerTaskKeepsExport ==
    ASSUME ExportInv, NEW b \in DOMAIN broker, BrokerTask(b)
    PROVE  ExportInv'
  <1>0. SnapshotInv /\ KeyInv /\ NamesInv /\ b \in Brokers
    BY DEF ExportInv, KeyInv
  <1>1. UNCHANGED <<world, trusted, preparing, known, discovery, config, report, exporter, running>>
    BY Zenon DEF BrokerTask, Accept, SetUp, SetupFails, StreamEnds, StopAccepting, ServeEnds, ServeFails,
       only_broker, loop, trust
  <1>2. PICK next : /\ broker' = [broker EXCEPT ![b] = next]
                    /\ Trustworthy(b, next)
                    /\ broker[b].state # "none" => next.state # "none"
    BY <1>0, BrokerTaskResult
  <1>3. DOMAIN broker' = Brokers /\ \A c \in Brokers : Trustworthy(c, broker[c])'
    BY <1>0, <1>1, <1>2, BrokerStepKeeps
  <1>4. KeyInv'
    BY <1>0, <1>1, <1>3 DEF KeyInv, WorldType, Preparations
  <1>5. \A c \in Brokers : broker[c].state # "none" => broker'[c].state # "none"
    BY <1>0, <1>2 DEF KeyInv
  <1>6. \A t \in DOMAIN known : t \in Targets
    BY <1>0 DEF SnapshotInv, IsSnapshot
  <1>7. SnapshotInv' /\ NamesInv'
    BY <1>0, <1>1, <1>5, <1>6 DEF SnapshotInv, IsSnapshot, NamesInv, at, Brokers
  <1> QED BY <1>4, <1>7 DEF ExportInv

LEMMA PublishersKeepExport ==
    ASSUME ExportInv, NEW t \in Targets, PublisherChanges(t)
    PROVE  ExportInv'
  <1>0. SnapshotInv /\ KeyInv /\ NamesInv
    BY DEF ExportInv
  <1>1. UNCHANGED <<trusted, preparing, known, discovery, config, report, exporter, running, broker>>
    BY Zenon DEF PublisherChanges, loop, trust
  <1>2. WorldType'
    <2>0. world[t].advertised \in BOOLEAN /\ world[t].reachable \in BOOLEAN
      BY <1>0 DEF KeyInv, WorldType
    <2>1. CASE world' = [world EXCEPT ![t].advertised = ~@] \/ world' = [world EXCEPT ![t].reachable = ~@]
      BY <1>0, <2>0, <2>1, ZenonT(30) DEF KeyInv, WorldType
    <2>2. CASE \E label \in Labels : world' = [world EXCEPT ![t].label = label]
      BY <1>0, <2>2 DEF KeyInv, WorldType
    <2>3. CASE world' = [world EXCEPT ![t].key = 2]
      BY <1>0, <2>3 DEF KeyInv, WorldType, Keys
    <2> QED BY <2>1, <2>2, <2>3 DEF PublisherChanges
  <1>3. KeyInv'
    BY <1>0, <1>1, <1>2 DEF KeyInv, Preparations, Trustworthy
  <1>4. SnapshotInv' /\ NamesInv'
    BY <1>0, <1>1 DEF SnapshotInv, IsSnapshot, NamesInv, at
  <1> QED BY <1>3, <1>4 DEF ExportInv

----------------------------------------------------------------------------
(* The whole exporter.                                                       *)

LEMMA ExportInit == Init => ExportInv
  <1> SUFFICES ASSUME Init PROVE ExportInv
    OBVIOUS
  <1>1. SnapshotInv
    BY DEF Init, SnapshotInv, IsSnapshot, empty
  <1>2. KeyInv
    <2>1. no_broker \in BrokerState /\ no_broker.streams = {} /\ no_broker.setups = 0
          /\ no_broker.state = "none"
      BY DEF no_broker, BrokerState
    <2>2. DOMAIN broker = Brokers /\ \A b \in Brokers : Trustworthy(b, broker[b])
      BY <2>1 DEF Init, Brokers, Trustworthy
    <2> QED BY <2>2 DEF Init, KeyInv, WorldType, Preparations, Keys, empty
  <1>3. NamesInv
    BY DEF Init, NamesInv, at, ExporterState, Places, empty
  <1> QED BY <1>1, <1>2, <1>3 DEF ExportInv

LEMMA ExportStep == FileInv /\ ExportInv /\ [Next]_vars => ExportInv'
  <1> SUFFICES ASSUME FileInv, ExportInv, [Next]_vars PROVE ExportInv'
    OBVIOUS
  <1>1. CASE LifeCycle
    BY <1>1, LifeCycleKeepsExport
  <1>2. CASE \/ Tick /\ ~slept
             \/ Discovered
             \/ \E t \in Targets : Prepared(t) \/ \E s \in Slots : Finished(t, s)
    BY <1>2, EveryTurn, TurnKeepsExport
  <1>3. CASE TearDown \/ Unpublish \/ Crash
    BY <1>3, EndKeepsExport
  <1>4. CASE Discover \/ DiscoverFails \/ \E t \in Targets : Lapse(t)
    BY <1>4, DiscoveryKeepsExport
  <1>5. CASE \/ \E t \in Targets : Prepare(t)
             \/ \E t \in Targets, trust_new_host_key \in BOOLEAN : OneShot(t, trust_new_host_key)
    BY <1>5, PinKeepsExport
  <1>6. CASE \E b \in DOMAIN broker : BrokerTask(b)
    BY <1>6, BrokerTaskKeepsExport
  <1>7. CASE \E t \in Targets : PublisherChanges(t)
    BY <1>7, PublishersKeepExport
  <1>8. CASE UNCHANGED vars
    BY <1>8 DEF vars, ExportInv, SnapshotInv, IsSnapshot, KeyInv, WorldType, Preparations, Trustworthy,
       NamesInv, at
  <1>9. CASE Files
    BY <1>1, <1>9 DEF LifeCycle
  <1>10. CASE Turns
    BY <1>1, <1>2, <1>3, <1>10 DEF LifeCycle, Turns
  <1>11. CASE Tasks
    <2>1. CASE \E t \in Targets : RetryDue(t)
      BY <1>1, <2>1 DEF LifeCycle
    <2> QED BY <1>4, <1>5, <1>6, <1>11, <2>1 DEF Tasks, BrokerTask
  <1>12. CASE Environment
    <2>1. CASE Shutdown \/ Edit \/ Sleep
      BY <1>1, <2>1 DEF LifeCycle
    <2> QED BY <1>3, <1>4, <1>5, <1>7, <1>12, <2>1 DEF Environment
  <1> QED BY <1>8, <1>9, <1>10, <1>11, <1>12 DEF Next

\* Every proxied connection goes to a host key that was pinned on first use or trusted
\* by the user (Broker::prepare, Broker::serve, pin_host), whatever the publisher, the
\* user and crashes do between the preparation of a broker and the connection.
THEOREM KeysAreTrusted == Spec => []OnlyTrustedKeys
<1>1. ExportInv => OnlyTrustedKeys
  BY DEF ExportInv, KeyInv, Trustworthy, OnlyTrustedKeys
<1> QED BY <1>1, FileInit, FileStep, ExportInit, ExportStep, PTL DEF Spec

----------------------------------------------------------------------------
(* What is published stays.                                                  *)

\* No host is prepared while it has a broker.
OneBrokerAtATime == DOMAIN running \cap DOMAIN preparing = {}

\* A turn starts preparations only for hosts without a broker.
LEMMA TurnKeepsApart ==
    ASSUME NEW hosts, NEW run, NEW prep, NEW order, NEW cooling,
           Turn(hosts, run, prep, order, cooling), DOMAIN run \cap DOMAIN prep = {}
    PROVE  /\ OneBrokerAtATime'
           /\ \A t \in DOMAIN run \cap DOMAIN known' : t \in DOMAIN running' /\ running'[t] = run[t]
  <1> DEFINE alive == Restrict(hosts, {t \in DOMAIN hosts : hosts[t].live})
             kept == Restrict(run, DOMAIN run \cap DOMAIN alive)
             tried == SelectSeq(order, LAMBDA t : t \in DOMAIN alive)
             rank == preparation_order(alive, tried, cooling)
             ready == DOMAIN rank \ (DOMAIN kept \cup DOMAIN prep)
             free == Min({PREPARE_CONCURRENCY - Cardinality(DOMAIN prep), Cardinality(ready)})
  <1>1. PICK start \in kSubset(free, ready) :
          /\ known' = alive
          /\ running' = kept
          /\ preparing' = [t \in DOMAIN prep \cup start |-> IF t \in start THEN pending ELSE prep[t]]
    BY Zenon DEF Turn
  <1>2. start \subseteq ready
    BY <1>1, Zenon DEF kSubset
  <1>3. start \cap DOMAIN kept = {}
    BY <1>2
  <1>4. /\ DOMAIN kept = DOMAIN run \cap DOMAIN alive
        /\ \A t \in DOMAIN kept : kept[t] = run[t]
    BY DEF Restrict
  <1> HIDE DEF alive, kept, ready, free
  <1>5. DOMAIN preparing' = DOMAIN prep \cup start
    BY <1>1
  <1> QED BY <1>1, <1>3, <1>4, <1>5 DEF OneBrokerAtATime

\* The hosts a turn begins with: those that run, but for one whose broker has ended,
\* and perhaps one just prepared.
TurnFrom(run, prep) ==
    /\ \E hosts, order, cooling : Turn(hosts, run, prep, order, cooling)
    /\ DOMAIN run \cap DOMAIN prep = {}
    /\ \A t \in DOMAIN running :
          \/ t \in DOMAIN run /\ run[t] = running[t]
          \/ broker[<<t, running[t]>>].state = "ended"

LEMMA TurnsFrom ==
    ASSUME OneBrokerAtATime,
           \/ Tick /\ ~slept
           \/ Discovered
           \/ \E t \in Targets : Prepared(t) \/ \E s \in Slots : Finished(t, s)
    PROVE  \E run, prep : TurnFrom(run, prep)
  <1>1. CASE (Tick /\ ~slept) \/ Discovered
    <2>1. \E hosts, order, cooling : Turn(hosts, running, preparing, order, cooling)
      BY <1>1, TickTurns, DiscoveredTurns DEF Turning
    <2>2. TurnFrom(running, preparing)
      BY <2>1 DEF TurnFrom, OneBrokerAtATime
    <2> QED BY <2>2
  <1>2. ASSUME NEW t \in Targets, Prepared(t) PROVE \E run, prep : TurnFrom(run, prep)
    <2> DEFINE prep == Restrict(preparing, DOMAIN preparing \ {t})
               run(s) == [u \in DOMAIN running \cup {t} |-> IF u = t THEN s ELSE running[u]]
    <2>1. /\ t \in DOMAIN preparing
          /\ Turning(known, running, prep) \/ \E s \in Slots : Turning(known, run(s), prep)
      BY <1>2, PreparedTurns, Zenon
    <2>2. DOMAIN prep = DOMAIN preparing \ {t} /\ t \notin DOMAIN running
      BY <2>1 DEF Restrict, OneBrokerAtATime
    <2>3. CASE Turning(known, running, prep)
      <3> HIDE DEF prep
      <3>1. TurnFrom(running, prep)
        BY <2>2, <2>3 DEF TurnFrom, Turning, OneBrokerAtATime
      <3> QED BY <3>1
    <2>4. ASSUME NEW s \in Slots, Turning(known, run(s), prep)
          PROVE  \E r, q : TurnFrom(r, q)
      <3>1. /\ DOMAIN run(s) = DOMAIN running \cup {t}
            /\ \A u \in DOMAIN running : run(s)[u] = running[u]
        BY <2>2
      <3> HIDE DEF run, prep
      <3>2. TurnFrom(run(s), prep)
        BY <2>2, <2>4, <3>1 DEF TurnFrom, Turning, OneBrokerAtATime
      <3> QED BY <3>2
    <2> QED BY <2>1, <2>3, <2>4
  <1>3. ASSUME NEW t \in Targets, NEW s \in Slots, Finished(t, s)
        PROVE  \E run, prep : TurnFrom(run, prep)
    <2> DEFINE run == IF own_broker(t, s) THEN Restrict(running, DOMAIN running \ {t}) ELSE running
    <2>1. Turn(known, run, preparing, retries, waiting) /\ broker[<<t, s>>].state = "ended"
      BY <1>3, Zenon DEF Finished
    <2>2. /\ DOMAIN run \subseteq DOMAIN running
          /\ \A u \in DOMAIN running :
                \/ u \in DOMAIN run /\ run[u] = running[u]
                \/ u = t /\ running[u] = s
      BY DEF own_broker, Restrict
    <2> HIDE DEF run
    <2>3. TurnFrom(run, preparing)
      BY <2>1, <2>2 DEF TurnFrom, OneBrokerAtATime
    <2> QED BY <2>3
  <1> QED BY <1>1, <1>2, <1>3

\* Every other step of the running loop leaves the configuration alone.
LEMMA OtherSteps ==
    ASSUME [Next]_vars,
           ~(\/ Tick /\ ~slept
             \/ Discovered
             \/ \E t \in Targets : Prepared(t) \/ \E s \in Slots : Finished(t, s))
    PROVE  /\ at("running") /\ at("running")' => config' = config
           /\ \/ running' = empty /\ preparing' = empty
              \/ running' = running /\ DOMAIN preparing' = DOMAIN preparing
  <1>1. CASE Files \/ Begin \/ Shutdown \/ Edit \/ Sleep \/ \E t \in Targets : RetryDue(t)
    BY <1>1 DEF Files, Install, CheckInstall, Include, InstallFails, Cleanup, CheckCleanup, Exclude,
       Begin, Shutdown, Edit, Sleep, RetryDue, at, loop
  <1>2. CASE Tick \/ TearDown \/ Unpublish \/ Crash
    BY <1>2 DEF Tick, TearDown, Unpublish, Crash, at, loop
  <1>3. CASE Discover \/ DiscoverFails \/ \E t \in Targets : Lapse(t) \/ PublisherChanges(t)
    BY <1>3, Zenon DEF Discover, DiscoverFails, Lapse, PublisherChanges, loop
  <1>4. ASSUME NEW t \in Targets, Prepare(t)
        PROVE  config' = config /\ running' = running /\ DOMAIN preparing' = DOMAIN preparing
    <2>1. config' = config /\ running' = running
      BY <1>4 DEF Prepare
    <2>2. \E f : preparing' = [preparing EXCEPT ![t] = f]
      BY <1>4 DEF Prepare
    <2> QED BY <2>1, <2>2
  <1>5. CASE \E t \in Targets, trust_new_host_key \in BOOLEAN : OneShot(t, trust_new_host_key)
    BY <1>5 DEF OneShot, loop
  <1>6. CASE \E b \in DOMAIN broker : BrokerTask(b)
    BY <1>6 DEF BrokerTask, Accept, SetUp, SetupFails, StreamEnds, StopAccepting, ServeEnds, ServeFails,
       only_broker, loop
  <1>7. CASE UNCHANGED vars
    BY <1>7 DEF vars
  <1> QED BY <1>1, <1>2, <1>3, <1>4, <1>5, <1>6, <1>7
          DEF Next, Turns, Tasks, Environment, BrokerTask

\* A host and its broker stay published until it is not known any more or that broker
\* has ended.
LEMMA PublishedStays ==
    ASSUME ExportInv, ExportInv', OneBrokerAtATime, [Next]_vars
    PROVE  /\ OneBrokerAtATime'
           /\ at("running") /\ at("running")' => \A entry \in config :
                \/ entry.target \notin DOMAIN known'
                \/ broker[<<entry.target, entry.slot>>].state = "ended"
                \/ \E next \in config' : next.target = entry.target /\ next.slot = entry.slot
  <1>1. CASE \/ Tick /\ ~slept
             \/ Discovered
             \/ \E t \in Targets : Prepared(t) \/ \E s \in Slots : Finished(t, s)
    <2>1. PICK run, prep : TurnFrom(run, prep)
      BY <1>1, TurnsFrom
    <2>2. /\ OneBrokerAtATime'
          /\ \A t \in DOMAIN run \cap DOMAIN known' : t \in DOMAIN running' /\ running'[t] = run[t]
      BY <2>1, TurnKeepsApart DEF TurnFrom
    <2>3. ASSUME at("running"), at("running")', NEW entry \in config,
                 entry.target \in DOMAIN known', broker[<<entry.target, entry.slot>>].state # "ended"
          PROVE  \E next \in config' : next.target = entry.target /\ next.slot = entry.slot
      <3>1. PICK t \in DOMAIN running : entry = configuration(t, running[t], aliases(known, t))
        BY <2>3 DEF ExportInv, NamesInv
      <3>2. entry.target = t /\ entry.slot = running[t]
        BY <3>1 DEF configuration
      <3>3. t \in DOMAIN running' /\ running'[t] = running[t]
        BY <2>1, <2>2, <2>3, <3>2 DEF TurnFrom
      <3>4. config' = {configuration(u, running'[u], aliases(known', u)) : u \in DOMAIN running'}
        BY <2>3 DEF ExportInv, NamesInv
      <3>5. configuration(t, running'[t], aliases(known', t)) \in config'
        BY <3>3, <3>4
      <3> QED BY <3>2, <3>3, <3>5 DEF configuration
    <2> QED BY <2>2, <2>3
  <1>2. CASE ~(\/ Tick /\ ~slept
               \/ Discovered
               \/ \E t \in Targets : Prepared(t) \/ \E s \in Slots : Finished(t, s))
    <2>1. /\ at("running") /\ at("running")' => config' = config
          /\ \/ running' = empty /\ preparing' = empty
             \/ running' = running /\ DOMAIN preparing' = DOMAIN preparing
      BY <1>2, OtherSteps
    <2>2. OneBrokerAtATime'
      BY <2>1 DEF OneBrokerAtATime, empty
    <2> QED BY <2>1, <2>2
  <1> QED BY <1>1, <1>2

\* Every name in the managed configuration leads to one host and a broker of it while
\* the loop runs, and stays with that broker until the host is not known any more or the
\* broker has ended; an exporter that was not killed leaves no name and no complete report
\* behind (aliases, run, export, ManagedConfig), for any set of hosts and labels.
THEOREM NamesAreTrue == Spec => ConfigIsTruthful
<1>1. ExportInv => Truthful
  <2> SUFFICES ASSUME ExportInv PROVE Truthful
    OBVIOUS
  <2>1. ASSUME at("running"), NEW entry \in config
        PROVE  /\ broker[<<entry.target, entry.slot>>].state # "none"
               /\ entry.target \in DOMAIN known
               /\ entry.names \cap Targets = {entry.target}
               /\ \A n \in entry.names \ Targets : {t \in DOMAIN known : known[t].label = n} = {entry.target}
    <3>1. PICK t \in DOMAIN running : entry = configuration(t, running[t], aliases(known, t))
      BY <2>1 DEF ExportInv, NamesInv
    <3>2. t \in DOMAIN known /\ t \in Targets /\ broker[<<t, running[t]>>].state # "none"
      BY <2>1 DEF ExportInv, NamesInv, SnapshotInv, IsSnapshot
    <3>3. entry.target = t /\ entry.slot = running[t] /\ entry.names = aliases(known, t)
      BY <3>1 DEF configuration
    <3>4. aliases(known, t) \cap Targets = {t}
      BY <3>2 DEF aliases
    <3>5. ASSUME NEW n \in aliases(known, t) \ Targets
          PROVE  {u \in DOMAIN known : known[u].label = n} = {t}
      BY <3>2, <3>5 DEF aliases
    <3> QED BY <3>2, <3>3, <3>4, <3>5
  <2>2. at("down") /\ ~exporter.crashed => config = {} /\ ~report.complete
    BY DEF ExportInv, NamesInv, at
  <2> QED BY <2>1, <2>2, Zenon DEF Truthful
<1>2. Init => OneBrokerAtATime
  BY DEF Init, OneBrokerAtATime, empty
<1>3. ExportInv /\ ExportInv' /\ OneBrokerAtATime /\ [Next]_vars => OneBrokerAtATime'
  BY PublishedStays
<1>4. ExportInv /\ ExportInv' /\ OneBrokerAtATime /\ [Next]_vars => [Truthful' /\ NamesStay]_vars
  <2>1. ExportInv /\ ExportInv' /\ OneBrokerAtATime /\ [Next]_vars => [NamesStay]_vars
    BY PublishedStays DEF NamesStay
  <2>2. ExportInv' => Truthful'
    BY <1>1, PTL
  <2> QED BY <2>1, <2>2
<1> QED BY <1>2, <1>3, <1>4, FileInit, FileStep, ExportInit, ExportStep, PTL
        DEF Spec, ConfigIsTruthful
====
