--------------------------- MODULE Publication_proofs ---------------------------
(***************************************************************************)
(* Proofs about Publication, for any number of setups, intervals, runs and    *)
(* faults: what a serving publisher advertises, why setups fail, how far      *)
(* apart refreshes are, and that the shared descriptor implements Lease.       *)
(***************************************************************************)
EXTENDS Publication, TLAPS

Digest == [run : Nat, ssh : BOOLEAN]

Put == [run : Nat, ssh : BOOLEAN, issued : Nat, by : Nat, late : BOOLEAN]

PublisherState ==
    [phase : {"down", "initial", "serving", "putting"}, run : Nat,
     last : Digest \cup {Nothing}, sent : Digest, due : Int, periodic : BOOLEAN,
     ticked : Nat, answer : {"none", "stored", "error"}, starts : Nat]

ServiceType ==
    /\ now \in Nat /\ quiet \in Nat /\ quiet <= now
    /\ consent \in BOOLEAN
    /\ record \in Descriptor /\ previous \in Descriptor
    /\ net \in SUBSET Put
    /\ publisher \in PublisherState

\* Requests are named by the start and the tick they were sent at.  The one of the
\* present tick carries what the publisher remembers to have sent.
RequestsOf(puts) ==
    \A put \in puts :
        /\ put.issued <= now /\ put.by <= publisher.starts
        /\ put.by = publisher.starts => put.issued <= publisher.ticked
        /\ put.by = publisher.starts /\ put.issued = publisher.ticked =>
             put.run = publisher.run /\ put.ssh = publisher.sent.ssh

\* The clock of a publisher that is not down: it ticked in this interval or the one
\* before, and a publication that is under way began in this one.
TickInv ==
    /\ publisher.ticked <= now
    /\ publisher.sent.run = publisher.run
    /\ publisher.phase # "down" => publisher.ticked >= now - 1
    /\ publishing => publisher.ticked = now

\* While a publication is under way nothing is lost but by a disturbance: what it sent
\* is still the consent, and what the service stored is what it sent.
PublishingInv ==
    publishing /\ quiet < publisher.ticked =>
        /\ publisher.sent.ssh = consent
        /\ publisher.answer = "stored" =>
             /\ record.run = publisher.run /\ record.ssh = publisher.sent.ssh
             /\ record.expires >= publisher.ticked + DESCRIPTOR_LIFETIME

\* publisher.due - 1 is the tick of the last publication that succeeded.  If nothing
\* happened since, the record is still that publication's or a later one of the same
\* contents; and no tick beyond the deadline went by without a publication.
ServedInv ==
    serves =>
        /\ publisher.last \in Digest /\ publisher.last.run = publisher.run
        /\ publisher.due <= now + 1
        /\ quiet < publisher.due - 1 =>
             /\ publisher.last.ssh = consent
             /\ record.run = publisher.run /\ record.ssh = publisher.last.ssh
             /\ record.expires >= publisher.due - 1 + DESCRIPTOR_LIFETIME
        /\ publisher.phase = "serving" =>
             publisher.answer = "none" /\ (publisher.ticked <= publisher.due \/ quiet >= publisher.ticked)
        /\ publisher.phase = "putting" => now - 1 <= publisher.due \/ quiet >= now - 1

ServiceInv == ServiceType /\ RequestsOf(net) /\ TickInv /\ PublishingInv /\ ServedInv

LEMMA ServiceInit == Init => ServiceInv
  BY DEF Init, ServiceInv, ServiceType, RequestsOf, TickInv, PublishingInv, ServedInv,
         Digest, Descriptor, Put, PublisherState, publishing, serves, DESCRIPTOR_LIFETIME,
         REPUBLISH_INTERVAL

\* The invariant is enough for the property.
LEMMA ServiceInvSuffices == ServiceInv => ServingIsAdvertised
  BY DEF ServiceInv, ServiceType, TickInv, ServedInv, ServingIsAdvertised, serves, live,
         publishing, Descriptor, PublisherState, Digest, DESCRIPTOR_LIFETIME

\* A step that does not touch the publisher's side, the clock aside.
LEMMA ClientKeepsService ==
  ASSUME ServiceInv, UNCHANGED <<now, publisher_side>>
  PROVE  ServiceInv'
  BY DEF publisher_side, ServiceInv, ServiceType, RequestsOf, TickInv, PublishingInv,
         ServedInv, publishing, serves

LEMMA ServiceStep ==
  ASSUME ServiceInv, PublisherNext \/ NextInterval
  PROVE  ServiceInv'
<1> USE DEF publishing, serves, DESCRIPTOR_LIFETIME, REPUBLISH_INTERVAL
<1>0. ServiceType /\ RequestsOf(net) /\ TickInv /\ PublishingInv /\ ServedInv
  BY DEF ServiceInv
<1>1. CASE Start
  <2>0. publisher.run \in Nat
    BY <1>0 DEF ServiceType, PublisherState
  <2>1. PICK run \in {publisher.run, publisher.run + 1} :
          /\ publisher' = [phase |-> "initial", run |-> run, last |-> Nothing,
                          sent |-> [run |-> run, ssh |-> consent], due |-> -1,
                          periodic |-> FALSE, ticked |-> now, answer |-> "none",
                          starts |-> publisher.starts + 1]
          /\ net' = net \cup {request(run, publisher.starts + 1)}
    BY <1>1 DEF Start
  <2>2. run \in Nat /\ request(run, publisher.starts + 1) \in Put
    BY <1>0, <2>0 DEF ServiceType, request, Put, PublisherState
  <2>3. ServiceType'
    BY <1>0, <1>1, <2>1, <2>2 DEF ServiceType, Start, PublisherState, Digest
  <2>4. RequestsOf(net)'
    BY <1>0, <1>1, <2>1, <2>2 DEF ServiceType, RequestsOf, Start, request, PublisherState, Put
  <2>5. TickInv' /\ PublishingInv' /\ ServedInv'
    BY <1>0, <1>1, <2>1, <2>2 DEF ServiceType, TickInv, PublishingInv, ServedInv, Start, PublisherState
  <2> QED BY <2>3, <2>4, <2>5 DEF ServiceInv
<1>2. CASE Unchanged
  <2>1. ServiceType' /\ RequestsOf(net)'
    BY <1>0, <1>2 DEF ServiceType, RequestsOf, Unchanged, PublisherState, ticks, TickInv
  <2>2. now <= publisher.due
    <3>0. TRUE \in before_deadline
      BY <1>2, Zenon DEF Unchanged
    <3>1. now \in Int /\ publisher.due \in Int
      BY <1>0 DEF ServiceType, PublisherState
    <3>2. CASE now = publisher.due
      BY <3>1, <3>2
    <3>3. CASE ~(now = publisher.due)
      <4>1. before_deadline = {now < publisher.due}
        BY <3>3 DEF before_deadline
      <4>2. (now < publisher.due) = TRUE
        BY <3>0, <4>1, Zenon
      <4> QED BY <3>1, <4>2
    <3> QED BY <3>2, <3>3
  <2>3. publisher' = [publisher EXCEPT !.ticked = now] /\ publisher.phase = "serving"
        /\ UNCHANGED <<now, consent, record, quiet>>
    BY <1>2 DEF Unchanged, ticks
  <2>4. TickInv' /\ PublishingInv' /\ ServedInv'
    BY <1>0, <2>2, <2>3 DEF ServiceType, TickInv, PublishingInv, ServedInv, PublisherState
  <2> QED BY <2>1, <2>4 DEF ServiceInv
<1>3. CASE Republish
  <2>1. digest \in Digest /\ request(publisher.run, publisher.starts) \in Put
    BY <1>0 DEF ServiceType, request, Put, PublisherState, digest, Digest
  <2>2. ServiceType'
    BY <1>0, <1>3, <2>1 DEF ServiceType, Republish, PublisherState
  <2>3. RequestsOf(net)'
    BY <1>0, <1>3 DEF ServiceType, RequestsOf, Republish, request, PublisherState, Put, ticks, TickInv,
       digest
  <2>4. /\ publisher.phase = "serving"
        /\ publisher' = [publisher EXCEPT !.phase = "putting", !.sent = digest, !.ticked = now]
        /\ UNCHANGED <<now, consent, record, quiet>>
    BY <1>3 DEF Republish, ticks
  <2>5. TickInv' /\ ServedInv'
    BY <1>0, <2>1, <2>4 DEF ServiceType, TickInv, ServedInv, PublisherState, digest
  <2>6. publisher.answer = "none"
    BY <1>0, <2>4 DEF ServedInv
  <2>7. PublishingInv'
    BY <1>0, <2>1, <2>4, <2>6 DEF ServiceType, PublishingInv, PublisherState, digest
  <2> QED BY <2>2, <2>3, <2>5, <2>7 DEF ServiceInv
<1>4. CASE Answered
  <2>1. publisher' = [phase |-> "serving", run |-> publisher.run, last |-> publisher.sent,
                      sent |-> publisher.sent, due |-> publisher.ticked + 1,
                      periodic |-> (publisher.phase = "putting"), ticked |-> publisher.ticked,
                      answer |-> "none", starts |-> publisher.starts]
    BY <1>0, <1>4 DEF ServiceType, Answered, PublisherState
  <2>2. publishing /\ publisher.answer = "stored" /\ UNCHANGED <<now, record, previous, net, consent, quiet>>
    BY <1>4 DEF Answered
  <2>3. ServiceType' /\ RequestsOf(net)'
    BY <1>0, <2>1, <2>2 DEF ServiceType, RequestsOf, PublisherState
  <2>4. TickInv' /\ PublishingInv' /\ ServedInv'
    BY <1>0, <2>1, <2>2 DEF ServiceType, TickInv, PublishingInv, ServedInv, PublisherState, Digest
  <2> QED BY <2>3, <2>4 DEF ServiceInv
<1>5. CASE PutFails \/ PutRefused
  <2>1. net' \subseteq net /\ publication_fails
    BY <1>5 DEF PutFails, PutRefused, given_up
  <2>2. publisher' \in PublisherState /\ publisher'.starts = publisher.starts
        /\ publisher'.ticked = publisher.ticked /\ publisher'.run = publisher.run
        /\ publisher'.sent = publisher.sent
    BY <1>0, <2>1 DEF ServiceType, publication_fails, PublisherState
  <2>4. ServiceType' /\ RequestsOf(net)'
    BY <1>0, <2>1, <2>2 DEF ServiceType, RequestsOf, publication_fails
  <2>3. TickInv' /\ PublishingInv' /\ ServedInv'
    BY <1>0, <2>1 DEF ServiceType, TickInv, PublishingInv, ServedInv, publication_fails,
       PublisherState
  <2> QED BY <2>3, <2>4 DEF ServiceInv
<1>6. CASE Stop
  <2>1. net' \subseteq net
    BY <1>6 DEF Stop, given_up
  <2>2. ServiceType' /\ RequestsOf(net)'
    BY <1>0, <1>6, <2>1 DEF ServiceType, RequestsOf, Stop, PublisherState
  <2>3. TickInv' /\ PublishingInv' /\ ServedInv'
    BY <1>0, <1>6 DEF ServiceType, TickInv, PublishingInv, ServedInv, Stop, PublisherState
  <2> QED BY <2>2, <2>3 DEF ServiceInv
<1>7. CASE ChangeConsent
  <2>1. ServiceType' /\ RequestsOf(net)' /\ TickInv'
    BY <1>0, <1>7 DEF ServiceType, RequestsOf, TickInv, ChangeConsent
  <2>2. PublishingInv' /\ ServedInv'
    BY <1>0, <1>7 DEF ServiceType, TickInv, PublishingInv, ServedInv, ChangeConsent, PublisherState
  <2> QED BY <2>1, <2>2 DEF ServiceInv
<1>8. ASSUME NEW put \in net, Deliver(put) \/ Refuse(put) \/ NotForwarded(put)
      PROVE  ServiceInv'
  <2>1. put \in Put /\ stored(put) \in Descriptor
    BY <1>0 DEF ServiceType, stored, Put, Descriptor, DESCRIPTOR_LIFETIME
  <2>2. /\ net' = net \ {put}
        /\ \E status \in {"stored", "error"} :
             publisher' = [publisher EXCEPT !.answer = IF own(put) THEN status ELSE @]
        /\ UNCHANGED <<now, consent>>
        /\ quiet' \in {quiet, now}
    BY <1>8 DEF Deliver, Refuse, NotForwarded, error_response, answers
  <2>3. record' \in Descriptor /\ previous' \in Descriptor
    BY <1>0, <1>8, <2>1 DEF Deliver, Refuse, NotForwarded, ServiceType
  <2>4. ServiceType' /\ RequestsOf(net)' /\ TickInv'
    BY <1>0, <2>2, <2>3 DEF ServiceType, RequestsOf, TickInv, PublisherState
  <2>5. CASE quiet' = now
    <3>1. PublishingInv'
      BY <1>0, <2>2, <2>4, <2>5 DEF ServiceType, TickInv, PublishingInv, PublisherState
    <3>2. ServedInv'
      BY <1>0, <2>2, <2>4, <2>5 DEF ServiceType, TickInv, ServedInv, PublisherState, own
    <3> QED BY <2>4, <3>1, <3>2 DEF ServiceInv
  <2>6. CASE Deliver(put) /\ own(put)
    <3>1. put.run = publisher.run /\ put.ssh = publisher.sent.ssh /\ put.issued = now
      BY <1>0, <2>6 DEF RequestsOf, own, TickInv
    <3>2. record'.run = put.run /\ record'.ssh = put.ssh /\ record'.expires = put.issued + 3
      BY <2>6 DEF Deliver, stored
    <3>3. publishing /\ quiet' = quiet /\ publisher' = [publisher EXCEPT !.answer = "stored"]
      BY <2>6 DEF Deliver, answers, own
    <3>4. PublishingInv'
      BY <1>0, <2>2, <3>1, <3>2, <3>3 DEF ServiceType, TickInv, PublishingInv, PublisherState
    <3>5. ServedInv'
      BY <1>0, <2>2, <3>1, <3>2, <3>3 DEF ServiceType, TickInv, ServedInv, PublishingInv, PublisherState
    <3> QED BY <2>4, <3>4, <3>5 DEF ServiceInv
  <2> QED BY <1>8, <2>5, <2>6 DEF Deliver, Refuse, NotForwarded, error_response
<1>9. CASE NextInterval
  <2>1. \A put \in net : [put EXCEPT !.late = TRUE] \in Put
    BY <1>0 DEF ServiceType, Put
  <2>2. ServiceType'
    BY <1>0, <1>9, <2>1 DEF ServiceType, NextInterval
  <2>3. RequestsOf(net)'
    <3>1. \A put \in net : LET q == [put EXCEPT !.late = TRUE]
                           IN  q.run = put.run /\ q.ssh = put.ssh /\ q.issued = put.issued /\ q.by = put.by
      BY <1>0 DEF ServiceType, Put
    <3> QED BY <1>0, <1>9, <3>1 DEF ServiceType, RequestsOf, NextInterval, Put
  <2>4. TickInv' /\ PublishingInv' /\ ServedInv'
    BY <1>0, <1>9 DEF ServiceType, TickInv, PublishingInv, ServedInv, NextInterval, PublisherState, ticks
  <2> QED BY <2>2, <2>3, <2>4 DEF ServiceInv
<1> QED BY <1>1, <1>2, <1>3, <1>4, <1>5, <1>6, <1>7, <1>8, <1>9 DEF PublisherNext

\* A publisher that was left alone for three intervals is advertised (server.rs
\* run_publisher, publish_snapshot): the record is this run's, live and true to the
\* consent, for every number of intervals, runs and faults.
THEOREM AlwaysAdvertised == Spec => []ServingIsAdvertised
<1>1. Init => ServiceInv
  BY ServiceInit
<1>2. ServiceInv /\ [Next]_vars => ServiceInv'
  <2> SUFFICES ASSUME ServiceInv, [Next]_vars PROVE ServiceInv'
    OBVIOUS
  <2>1. CASE PublisherNext \/ NextInterval
    BY <2>1, ServiceStep
  <2>2. CASE ClientNext \/ UNCHANGED vars
    <3>1. UNCHANGED <<now, publisher_side>>
      BY <2>2 DEF ClientNext, Begin, TakeCurrent, CooledDown, BeginFetch, FetchRead, FetchSucceeds,
         FetchFails, OpenSucceeds, OpenFails, Abandon, CooldownEnds, Observe, vars, publisher_side
    <3> QED BY <3>1, ClientKeepsService
  <2> QED BY <2>1, <2>2 DEF Next
<1>3. ServiceInv => ServingIsAdvertised
  BY ServiceInvSuffices
<1> QED BY <1>1, <1>2, <1>3, PTL DEF Spec

----------------------------------------------------------------------------
(* The client: the descriptors it meets, and the setups.                    *)

CallerState ==
    [pc : {"idle", "asking", "fetching", "opening", "failed"},
     failed : Descriptor \cup {Nothing}, host : Descriptor \cup {Nothing},
     read : Descriptor \cup {Nothing}, late : BOOLEAN, excused : BOOLEAN]

ClientType ==
    /\ cache \in [current : Descriptor, recent : BOOLEAN]
    /\ caller \in [Callers -> CallerState]
    /\ holder \in Callers \cup {Nothing}
    /\ cooling \in BOOLEAN

\* A setup holds a descriptor while it opens, has read one only while it fetches, and
\* fetches exactly while it holds the mutex.
Shaped(c, setup, mutex) ==
    /\ setup.pc = "opening" <=> setup.host # Nothing
    /\ setup.read # Nothing => setup.pc = "fetching"
    /\ setup.pc = "fetching" <=> mutex = c

\* The descriptors a step can still use.
Seen == {record, previous, cache.current} \cup {caller[c].read : c \in Callers}

\* A revision stands for one descriptor, and none is ahead of the service.
RevisionInv ==
    \A d \in Seen \ {Nothing} :
        /\ d.revision <= record.revision
        /\ \A e \in Seen \ {Nothing} : d.revision = e.revision => d = e

\* What a fetch read is not older than the cache, which no one else moves meanwhile.
FetchInv ==
    \A c \in Callers : caller[c].read # Nothing =>
                           caller[c].read.revision >= cache.current.revision

LeaseInv ==
    /\ ServiceType /\ ClientType
    /\ \A c \in Callers : Shaped(c, caller[c], holder)
    /\ RevisionInv /\ FetchInv

LEMMA EndedCaller ==
    ASSUME ClientType, NEW c \in Callers, NEW excused \in BOOLEAN
    PROVE  /\ ended(c, excused) \in CallerState
           /\ ended(c, excused).pc = "failed"
           /\ ended(c, excused).host = Nothing /\ ended(c, excused).read = Nothing
           /\ ended(c, excused).failed = Nothing
           /\ ended(c, excused).excused <=> caller[c].excused \/ excused
  BY DEF ended, idle_caller, CallerState, ClientType

LEMMA AnsweredCaller ==
    ASSUME ClientType, NEW c \in Callers, NEW d \in Descriptor, NEW excused \in BOOLEAN
    PROVE  /\ answered(c, d, excused) \in CallerState
           /\ caller[c].failed = d => answered(c, d, excused) = ended(c, excused)
           /\ caller[c].failed # d =>
                /\ answered(c, d, excused).pc = "opening"
                /\ answered(c, d, excused).host = d
                /\ answered(c, d, excused).read = Nothing
                /\ answered(c, d, excused).failed = caller[c].failed
                /\ answered(c, d, excused).excused <=> caller[c].excused \/ excused
  <1>1. CASE caller[c].failed = d
    BY <1>1, EndedCaller DEF answered
  <1>2. CASE caller[c].failed # d
    BY <1>2, ZenonT(30) DEF answered, CallerState, ClientType
  <1> QED BY <1>1, <1>2

\* Why a setup that nothing excuses cannot fail.  The publisher can be reached; if its
\* first open failed, that was the descriptor's fault; what it read since, or opens with
\* since, is the descriptor of this run.
Justified(setup) ==
    /\ setup.pc = "failed" => setup.excused
    /\ setup.pc \in {"asking", "fetching", "opening"} /\ ~setup.excused =>
         /\ healthy
         /\ setup.failed # Nothing =>
              /\ ~live(setup.failed) \/ setup.failed.run # publisher.run
              /\ setup.pc = "opening" => live(setup.host) /\ setup.host.run = publisher.run
         /\ setup.read # Nothing =>
              live(setup.read) /\ setup.read.run = publisher.run /\ setup.read.ssh

\* The cache moves forward to a descriptor already seen, or not at all.
CacheMoves ==
    /\ cache' \in [current : Seen \ {Nothing}, recent : BOOLEAN]
    /\ cooling' \in BOOLEAN
    /\ cache'.current.revision >= cache.current.revision
    /\ UNCHANGED <<now, publisher_side>>

\* What a setup's step does to the lease: it takes the cache's descriptor, lets go of
\* its own, or neither.
Holds(setup, next) ==
    \/ next.host = setup.host
    \/ next.host = Nothing /\ cache'.current = cache.current
    \/ next.host = cache'.current /\ live(cache'.current)

\* The steps by which one setup becomes next: only the holder of the mutex moves the
\* cache, and what is read is the record.
SetupStep(c, next) ==
    /\ next \in CallerState
    /\ caller' = [caller EXCEPT ![c] = next]
    /\ CacheMoves
    /\ cache'.current # cache.current => holder = c
    /\ next.read \in {Nothing, caller[c].read, record}
    /\ next.read # Nothing => cache'.current = cache.current
    /\ \A d \in Callers \ {c} : holder' = d <=> holder = d
    /\ holder' \in Callers \cup {Nothing}
    /\ Shaped(c, next, holder')
    /\ Holds(caller[c], next)
    /\ Justified(caller[c]) => Justified(next)

LEMMA SetupStepKeeps ==
    ASSUME LeaseInv, NEW c \in Callers, NEW next, SetupStep(c, next)
    PROVE  LeaseInv'
  <1>0. ServiceType /\ ClientType /\ RevisionInv /\ FetchInv
    BY DEF LeaseInv
  <1>1. ServiceType'
    BY <1>0 DEF SetupStep, CacheMoves, publisher_side, ServiceType
  <1>2. Seen \ {Nothing} \subseteq Descriptor
    BY <1>0 DEF Seen, ServiceType, ClientType, CallerState
  <1>3. ClientType'
    BY <1>0, <1>2 DEF SetupStep, CacheMoves, ClientType
  <1>4. \A d \in Callers : Shaped(d, caller[d], holder)'
    BY <1>0 DEF SetupStep, LeaseInv, Shaped, ClientType
  <1>5. record' = record /\ previous' = previous /\ cache'.current \in Seen
    BY DEF SetupStep, CacheMoves, publisher_side
  <1>6. Seen' \subseteq Seen \cup {Nothing}
    <2>1. \A d \in Callers : caller'[d].read \in Seen \cup {Nothing}
      BY <1>0 DEF SetupStep, ClientType, Seen
    <2> QED BY <1>5, <2>1 DEF Seen
  <1>7. RevisionInv'
    BY <1>0, <1>5, <1>6 DEF RevisionInv
  <1>8. FetchInv'
    <2> SUFFICES ASSUME NEW d \in Callers, caller'[d].read # Nothing
                 PROVE  caller'[d].read.revision >= cache'.current.revision
      BY DEF FetchInv
    <2>1. CASE d # c
      <3>1. caller'[d] = caller[d] /\ caller[d].read # Nothing
        BY <1>0, <2>1 DEF SetupStep, ClientType
      <3>2. holder = d
        BY <3>1 DEF LeaseInv, Shaped
      <3>3. cache'.current = cache.current
        BY <2>1, <3>2 DEF SetupStep
      <3> QED BY <1>0, <3>1, <3>3 DEF FetchInv
    <2>2. CASE d = c
      <3>1. caller'[c] = next /\ cache'.current = cache.current
        BY <1>0, <2>2 DEF SetupStep, ClientType
      <3>2. CASE next.read = record
        <4>1. cache.current \in Seen \ {Nothing}
          BY <1>0, NothingIsNone DEF ClientType, Seen
        <4>2. cache.current.revision <= record.revision
          BY <1>0, <4>1 DEF RevisionInv
        <4>3. cache.current.revision \in Nat /\ record.revision \in Nat
          BY <1>0 DEF ServiceType, ClientType, Descriptor
        <4> QED BY <2>2, <3>1, <3>2, <4>2, <4>3
      <3>3. CASE next.read = caller[c].read
        BY <1>0, <2>2, <3>1, <3>3 DEF FetchInv
      <3> QED BY <2>2, <3>1, <3>2, <3>3 DEF SetupStep
    <2> QED BY <2>1, <2>2
  <1> QED BY <1>1, <1>3, <1>4, <1>7, <1>8 DEF LeaseInv

SetupNext(c) ==
    \/ Begin(c) \/ TakeCurrent(c) \/ CooledDown(c) \/ BeginFetch(c) \/ FetchRead(c)
    \/ FetchSucceeds(c) \/ FetchFails(c) \/ OpenSucceeds(c) \/ OpenFails(c) \/ Abandon(c)

\* Every action of a setup is such a step.
LEMMA EverySetupStep ==
    ASSUME LeaseInv, NEW c \in Callers, SetupNext(c)
    PROVE  \E next : SetupStep(c, next)
  <1>0. ServiceType /\ ClientType /\ RevisionInv /\ FetchInv /\ Shaped(c, caller[c], holder)
    BY DEF LeaseInv
  <1>1. /\ caller[c] \in CallerState /\ cache.current \in Descriptor
        /\ cache.current \in Seen \ {Nothing} /\ cache.recent \in BOOLEAN
        /\ record \in Descriptor /\ cache.current.revision \in Nat
        /\ holder \in Callers \cup {Nothing} /\ cooling \in BOOLEAN
    BY <1>0, NothingIsNone DEF ServiceType, ClientType, Seen, Descriptor
  <1>2. ASSUME UNCHANGED <<now, publisher_side>>, cooling' \in BOOLEAN,
               cache'.current = cache.current, cache' \in [current : Descriptor, recent : BOOLEAN]
        PROVE  CacheMoves
    BY <1>1, <1>2 DEF CacheMoves
  <1>11. CASE Begin(c)
    <2> DEFINE next == [idle_caller EXCEPT !.pc = "asking", !.excused = ~healthy]
    <2>1. /\ next \in CallerState /\ next.pc = "asking" /\ next.host = Nothing
          /\ next.read = Nothing /\ next.failed = Nothing /\ (next.excused <=> ~healthy)
      BY DEF idle_caller, CallerState
    <2>2. /\ caller' = [caller EXCEPT ![c] = next] /\ CacheMoves /\ cache' = cache /\ holder' = holder
          /\ caller[c].pc \notin {"fetching", "asking", "opening"}
      BY <1>0, <1>1, <1>2, <1>11 DEF Begin, ClientType, busy
    <2> HIDE DEF next
    <2>3. Shaped(c, next, holder') /\ Holds(caller[c], next) /\ Justified(next)
      BY <1>0, <2>1, <2>2, NothingIsNone DEF Shaped, Holds, Justified
    <2> QED BY <1>1, <2>1, <2>2, <2>3 DEF SetupStep
  <1>12. CASE TakeCurrent(c)
    <2>1. PICK outdated \in BOOLEAN :
            /\ outdated <=> caller[c].failed # Nothing /\ cache.current # record
            /\ caller' = [caller EXCEPT ![c] = answered(c, cache.current, outdated)]
      BY <1>12 DEF TakeCurrent
    <2> DEFINE next == answered(c, cache.current, outdated)
    <2>2. /\ CacheMoves /\ cache' = cache /\ holder' = holder /\ holder = Nothing
          /\ caller[c].pc = "asking" /\ live(cache.current) /\ caller[c].failed # cache.current
      BY <1>0, <1>1, <1>2, <1>12 DEF TakeCurrent, ClientType, asks, usable
    <2>3. /\ next \in CallerState /\ next.pc = "opening" /\ next.host = cache.current
          /\ next.read = Nothing /\ next.failed = caller[c].failed
          /\ next.excused <=> caller[c].excused \/ outdated
      BY <1>0, <1>1, <2>2, AnsweredCaller
    <2> HIDE DEF next
    <2>4. Shaped(c, next, holder') /\ Holds(caller[c], next)
      BY <1>0, <1>1, <2>2, <2>3, NothingIsNone DEF Shaped, Holds
    <2>5. Justified(caller[c]) => Justified(next)
      BY <1>0, <1>1, <2>1, <2>2, <2>3 DEF Justified, healthy
    <2> QED BY <1>1, <2>1, <2>2, <2>3, <2>4, <2>5 DEF SetupStep, next
  <1>13. CASE CooledDown(c)
    <2> DEFINE next == IF live(cache.current) THEN answered(c, cache.current, TRUE) ELSE ended(c, TRUE)
    <2>2. /\ CacheMoves /\ cache' = cache /\ holder' = holder /\ holder = Nothing
          /\ caller[c].pc = "asking" /\ caller' = [caller EXCEPT ![c] = next]
      BY <1>0, <1>1, <1>2, <1>13 DEF CooledDown, ClientType, asks
    <2>3. /\ next \in CallerState /\ next.pc \in {"opening", "failed"}
          /\ next.pc = "opening" => next.host = cache.current /\ live(cache.current)
          /\ next.pc = "failed" => next.host = Nothing
          /\ next.read = Nothing /\ next.excused
      <3>1. CASE next = ended(c, TRUE)
        <4> HIDE DEF next
        <4> QED BY <1>0, <3>1, EndedCaller
      <3>2. CASE next # ended(c, TRUE)
        <4>1. live(cache.current) /\ next = answered(c, cache.current, TRUE)
          BY <3>2
        <4> HIDE DEF next
        <4> QED BY <1>0, <1>1, <3>2, <4>1, AnsweredCaller, ZenonT(30)
      <3> QED BY <3>1, <3>2
    <2> HIDE DEF next
    <2>4. Shaped(c, next, holder') /\ Holds(caller[c], next)
      BY <1>0, <1>1, <2>2, <2>3, NothingIsNone DEF Shaped, Holds
    <2>5. Justified(next)
      BY <2>3 DEF Justified
    <2> QED BY <1>1, <2>2, <2>3, <2>4, <2>5 DEF SetupStep
  <1>14. CASE BeginFetch(c)
    <2> DEFINE next == [caller[c] EXCEPT !.pc = "fetching"]
    <2>2. /\ CacheMoves /\ cache'.current = cache.current /\ holder' = c /\ holder = Nothing
          /\ caller[c].pc = "asking" /\ caller' = [caller EXCEPT ![c] = next]
      BY <1>0, <1>1, <1>2, <1>14 DEF BeginFetch, ClientType, asks, attempted
    <2>3. /\ next \in CallerState /\ next.pc = "fetching" /\ next.host = caller[c].host
          /\ next.read = caller[c].read /\ next.failed = caller[c].failed
          /\ next.excused = caller[c].excused
      BY <1>1 DEF CallerState
    <2> HIDE DEF next
    <2>4. Shaped(c, next, holder') /\ Holds(caller[c], next) /\ (Justified(caller[c]) => Justified(next))
      BY <1>0, <1>1, <2>2, <2>3, NothingIsNone DEF Shaped, Holds, Justified
    <2> QED BY <1>1, <2>2, <2>3, <2>4, NothingIsNone DEF SetupStep
  <1>15. CASE FetchRead(c)
    <2> DEFINE next == [caller[c] EXCEPT !.read = record]
    <2>2. /\ CacheMoves /\ cache' = cache /\ holder' = holder
          /\ caller[c].pc = "fetching" /\ caller' = [caller EXCEPT ![c] = next]
      BY <1>0, <1>1, <1>2, <1>15 DEF FetchRead, ClientType
    <2>3. /\ next \in CallerState /\ next.pc = "fetching" /\ next.host = caller[c].host
          /\ next.read = record /\ next.failed = caller[c].failed
          /\ next.excused = caller[c].excused
      BY <1>1, <2>2 DEF CallerState
    <2> HIDE DEF next
    <2>4. Shaped(c, next, holder') /\ Holds(caller[c], next) /\ (Justified(caller[c]) => Justified(next))
      BY <1>0, <1>1, <2>2, <2>3 DEF Shaped, Holds, Justified, healthy
    <2> QED BY <1>1, <2>2, <2>3, <2>4 DEF SetupStep
  <1>16. CASE FetchSucceeds(c)
    <2> DEFINE next == answered(c, caller[c].read, FALSE)
    <2>1. caller[c].read \in Descriptor /\ caller[c].read \in Seen \ {Nothing}
      BY <1>1, <1>16 DEF FetchSucceeds, CallerState, Seen
    <2>2. /\ cache'.current = caller[c].read /\ holder' = Nothing /\ holder = c
          /\ caller[c].pc = "fetching" /\ caller' = [caller EXCEPT ![c] = next]
          /\ live(caller[c].read)
      BY <1>0, <1>16 DEF FetchSucceeds, Shaped, acceptable
    <2>3. CacheMoves
      BY <2>1, <1>16 DEF FetchSucceeds, CacheMoves, acceptable
    <2>4. /\ next \in CallerState
          /\ caller[c].failed = caller[c].read => next = ended(c, FALSE)
          /\ caller[c].failed # caller[c].read =>
               /\ next.pc = "opening" /\ next.host = caller[c].read
               /\ next.read = Nothing /\ next.failed = caller[c].failed
               /\ next.excused <=> caller[c].excused
      BY <1>0, <2>1, AnsweredCaller
    <2> HIDE DEF next
    <2>5. CASE caller[c].failed = caller[c].read
      <3>1. /\ next \in CallerState /\ next.pc = "failed" /\ next.host = Nothing
            /\ next.read = Nothing /\ next.failed = Nothing
            /\ next.excused <=> caller[c].excused
        BY <1>0, <2>4, <2>5, EndedCaller
      <3>2. Shaped(c, next, holder') /\ Holds(caller[c], next)
        BY <1>0, <2>2, <3>1, NothingIsNone DEF Shaped, Holds
      <3>3. Justified(caller[c]) => Justified(next)
        BY <1>1, <2>1, <2>2, <2>5, <3>1, NothingIsNone DEF Justified
      <3> QED BY <2>2, <2>3, <3>1, <3>2, <3>3, NothingIsNone DEF SetupStep
    <2>6. CASE caller[c].failed # caller[c].read
      <3>2. Shaped(c, next, holder') /\ Holds(caller[c], next)
        BY <1>0, <2>1, <2>2, <2>4, <2>6, NothingIsNone DEF Shaped, Holds
      <3>3. Justified(caller[c]) => Justified(next)
        BY <1>1, <2>1, <2>2, <2>4, <2>6, NothingIsNone DEF Justified
      <3> QED BY <2>2, <2>3, <2>4, <2>6, <3>2, <3>3, NothingIsNone DEF SetupStep
    <2> QED BY <2>5, <2>6
  <1>17. CASE FetchFails(c)
    <2>1. PICK refused \in BOOLEAN :
            /\ refused => caller[c].read # Nothing /\ ~acceptable(caller[c].read)
            /\ caller' = [caller EXCEPT ![c] = ended(c, ~refused)]
      BY <1>17 DEF FetchFails
    <2> DEFINE next == ended(c, ~refused)
    <2>2. /\ CacheMoves /\ cache'.current = cache.current /\ holder' = Nothing /\ holder = c
          /\ caller[c].pc = "fetching"
      BY <1>0, <1>1, <1>2, <1>17 DEF FetchFails, ClientType, Shaped
    <2>3. /\ next \in CallerState /\ next.pc = "failed" /\ next.host = Nothing
          /\ next.read = Nothing /\ next.failed = Nothing
          /\ next.excused <=> caller[c].excused \/ ~refused
      BY <1>0, EndedCaller
    <2> HIDE DEF next
    <2>4. Shaped(c, next, holder') /\ Holds(caller[c], next)
      BY <1>0, <2>2, <2>3, NothingIsNone DEF Shaped, Holds
    <2>5. Justified(caller[c]) => Justified(next)
      BY <1>0, <1>1, <2>1, <2>2, <2>3 DEF Justified, acceptable, FetchInv
    <2> QED BY <2>1, <2>2, <2>3, <2>4, <2>5, NothingIsNone DEF SetupStep, next
  <1>18. CASE OpenSucceeds(c)
    <2>2. /\ CacheMoves /\ cache' = cache /\ holder' = holder
          /\ caller[c].pc = "opening" /\ caller' = [caller EXCEPT ![c] = idle_caller]
      BY <1>0, <1>1, <1>2, <1>18 DEF OpenSucceeds, ClientType
    <2>3. /\ idle_caller \in CallerState /\ idle_caller.pc = "idle" /\ idle_caller.host = Nothing
          /\ idle_caller.read = Nothing
      BY DEF idle_caller, CallerState
    <2>4. Shaped(c, idle_caller, holder') /\ Holds(caller[c], idle_caller) /\ Justified(idle_caller)
      BY <1>0, <2>2, <2>3 DEF Shaped, Holds, Justified
    <2> QED BY <1>1, <2>2, <2>3, <2>4 DEF SetupStep
  <1>19. CASE OpenFails(c)
    <2>1. PICK path_fails \in BOOLEAN :
            /\ ~path_fails => ~opens(c)
            /\ caller' = [caller EXCEPT ![c] = after_failure(c, path_fails)]
      BY <1>19 DEF OpenFails
    <2> DEFINE next == after_failure(c, path_fails)
    <2>2. /\ CacheMoves /\ cache' = cache /\ holder' = holder
          /\ caller[c].pc = "opening"
      BY <1>0, <1>1, <1>2, <1>19 DEF OpenFails, ClientType
    <2>3. CASE caller[c].failed # Nothing
      <3>1. /\ next \in CallerState /\ next.pc = "failed" /\ next.host = Nothing
            /\ next.read = Nothing /\ next.failed = Nothing
            /\ next.excused <=> caller[c].excused \/ path_fails
        BY <1>0, <2>3, EndedCaller DEF after_failure
      <3> HIDE DEF next
      <3>2. Shaped(c, next, holder') /\ Holds(caller[c], next)
        BY <1>0, <2>2, <3>1, NothingIsNone DEF Shaped, Holds
      <3>3. Justified(caller[c]) => Justified(next)
        BY <1>1, <2>1, <2>2, <2>3, <3>1 DEF Justified, opens, healthy
      <3> QED BY <1>1, <2>1, <2>2, <3>1, <3>2, <3>3 DEF SetupStep, next
    <2>4. CASE caller[c].failed = Nothing
      <3>1. /\ next \in CallerState /\ next.pc = "asking" /\ next.host = Nothing
            /\ next.read = caller[c].read /\ next.failed = caller[c].host
            /\ next.excused <=> caller[c].excused \/ path_fails
        BY <1>1, <2>4 DEF after_failure, CallerState
      <3> HIDE DEF next
      <3>2. Shaped(c, next, holder') /\ Holds(caller[c], next)
        BY <1>0, <2>2, <3>1, NothingIsNone DEF Shaped, Holds
      <3>3. Justified(caller[c]) => Justified(next)
        BY <1>0, <1>1, <2>1, <2>2, <2>4, <3>1 DEF Justified, opens, healthy, Shaped
      <3> QED BY <1>1, <2>1, <2>2, <3>1, <3>2, <3>3 DEF SetupStep, next
    <2> QED BY <2>3, <2>4
  <1>20. CASE Abandon(c)
    <2> DEFINE next == ended(c, TRUE)
    <2>2. /\ CacheMoves /\ cache' = cache /\ holder' = (IF holder = c THEN Nothing ELSE holder)
          /\ caller' = [caller EXCEPT ![c] = next]
      BY <1>0, <1>1, <1>2, <1>20 DEF Abandon, ClientType
    <2>3. /\ next \in CallerState /\ next.pc = "failed" /\ next.host = Nothing
          /\ next.read = Nothing /\ next.excused
      BY <1>0, EndedCaller
    <2> HIDE DEF next
    <2>4. Shaped(c, next, holder') /\ Holds(caller[c], next) /\ Justified(next)
      BY <1>0, <2>2, <2>3, NothingIsNone DEF Shaped, Holds, Justified
    <2> QED BY <1>1, <2>2, <2>3, <2>4, NothingIsNone DEF SetupStep
  <1> QED BY <1>11, <1>12, <1>13, <1>14, <1>15, <1>16, <1>17, <1>18, <1>19, <1>20 DEF SetupNext

----------------------------------------------------------------------------
(* The publisher's side and the clock, seen from the client.                 *)

\* They leave every setup where it is, and one that is not excused afterwards was not
\* before and can still be expected to succeed.
SetupsStay ==
    /\ caller' \in [Callers -> CallerState]
    /\ \A c \in Callers :
         /\ caller'[c].pc = caller[c].pc /\ caller'[c].host = caller[c].host
         /\ caller'[c].read = caller[c].read /\ caller'[c].failed = caller[c].failed
         /\ caller[c].excused => caller'[c].excused
         /\ busy(c) /\ ~caller'[c].excused /\ healthy => healthy'

LEMMA WatchedSetups ==
    ASSUME ClientType, NEW next \in [Callers -> CallerState], caller' = watched(next),
           \A c \in Callers :
             /\ next[c].pc = caller[c].pc /\ next[c].host = caller[c].host
             /\ next[c].read = caller[c].read /\ next[c].failed = caller[c].failed
             /\ next[c].excused = caller[c].excused
    PROVE  SetupsStay
  <1> DEFINE W(c) == [next[c] EXCEPT !.excused = @ \/ ~healthy']
  <1>1. ASSUME NEW c \in Callers
        PROVE  /\ W(c) \in CallerState /\ W(c).pc = next[c].pc /\ W(c).host = next[c].host
               /\ W(c).read = next[c].read /\ W(c).failed = next[c].failed
               /\ W(c).excused <=> next[c].excused \/ ~healthy'
    BY ZenonT(30) DEF CallerState
  <1>2. caller' = [c \in Callers |-> IF busy(c) THEN W(c) ELSE next[c]]
    BY DEF watched
  <1> HIDE DEF W
  <1>3. caller' \in [Callers -> CallerState]
    BY <1>1, <1>2
  <1> QED BY <1>1, <1>2, <1>3 DEF SetupsStay

\* A publication is the record's next revision; every other step leaves the record.
RecordMoves ==
    \/ UNCHANGED <<record, previous>>
    \/ record'.revision = record.revision + 1 /\ previous' = record

LEMMA ServiceSeenByClient ==
    ASSUME ClientType, ServiceType, PublisherNext \/ NextInterval
    PROVE  UNCHANGED <<cache, holder, cooling>> /\ SetupsStay /\ RecordMoves
  <1>1. CASE Start \/ Unchanged \/ Republish \/ Answered \/ PutFails \/ PutRefused
    <2>1. UNCHANGED <<now, consent, record, previous, caller, cache, holder, cooling>>
      BY <1>1 DEF Start, Unchanged, Republish, Answered, PutFails, PutRefused, publication_fails
    <2>2. healthy => healthy'
      <3>1. ASSUME serves PROVE publisher'.run = publisher.run /\ serves'
        <4>1. CASE Start
          BY <3>1, <4>1 DEF Start, serves
        <4>2. CASE Unchanged \/ Republish \/ Answered
          BY <3>1, <4>2 DEF Unchanged, Republish, Answered, serves, ServiceType, PublisherState
        <4>3. CASE PutFails \/ PutRefused
          BY <3>1, <4>3 DEF PutFails, PutRefused, publication_fails, serves, ServiceType,
             PublisherState
        <4> QED BY <1>1, <4>1, <4>2, <4>3
      <3> QED BY <2>1, <3>1 DEF healthy, live
    <2> QED BY <2>1, <2>2 DEF SetupsStay, RecordMoves, ClientType
  <1>2. CASE Stop \/ ChangeConsent
    BY <1>2, WatchedSetups DEF Stop, ChangeConsent, RecordMoves, ClientType
  <1>3. ASSUME NEW put \in net, Refuse(put)
        PROVE  UNCHANGED <<cache, holder, cooling>> /\ SetupsStay /\ RecordMoves
    <2>1. UNCHANGED <<now, consent, record, previous, caller, cache, holder, cooling>>
      BY <1>3 DEF Refuse
    <2>2. publisher'.phase = publisher.phase /\ publisher'.run = publisher.run
      BY <1>3 DEF Refuse, error_response, answers, ServiceType, PublisherState
    <2> QED BY <2>1, <2>2 DEF SetupsStay, RecordMoves, ClientType, healthy, live, serves
  <1>4. ASSUME NEW put \in net, Deliver(put) \/ NotForwarded(put)
        PROVE  UNCHANGED <<cache, holder, cooling>> /\ SetupsStay /\ RecordMoves
    <2>1. record'.revision = record.revision + 1 /\ previous' = record
      BY <1>4 DEF Deliver, NotForwarded, stored
    <2> QED BY <1>4, <2>1, WatchedSetups DEF Deliver, NotForwarded, RecordMoves, ClientType
  <1>5. CASE NextInterval
    <2> DEFINE next == [c \in Callers |-> [caller[c] EXCEPT !.late = busy(c)]]
    <2>1. \A c \in Callers :
             /\ next[c] \in CallerState
             /\ next[c].pc = caller[c].pc /\ next[c].host = caller[c].host
             /\ next[c].read = caller[c].read /\ next[c].failed = caller[c].failed
             /\ next[c].excused = caller[c].excused
      <3>1. \A c \in Callers : busy(c) \in BOOLEAN
        BY SMT DEF busy
      <3> QED BY <3>1 DEF ClientType, CallerState
    <2>2. next \in [Callers -> CallerState]
      BY <2>1
    <2>3. caller' = watched(next) /\ UNCHANGED <<cache, holder, cooling, record, previous>>
      BY <1>5 DEF NextInterval
    <2> HIDE DEF next
    <2> QED BY <2>1, <2>2, <2>3, WatchedSetups DEF RecordMoves
  <1> QED BY <1>1, <1>2, <1>3, <1>4, <1>5 DEF PublisherNext

LEMMA ServiceKeepsLease ==
    ASSUME LeaseInv, ServiceType', PublisherNext \/ NextInterval
    PROVE  LeaseInv'
  <1>0. ServiceType /\ ClientType /\ RevisionInv /\ FetchInv
    BY DEF LeaseInv
  <1>1. UNCHANGED <<cache, holder, cooling>> /\ SetupsStay /\ RecordMoves
    BY <1>0, ServiceSeenByClient
  <1>2. ClientType' /\ FetchInv' /\ \A c \in Callers : Shaped(c, caller[c], holder)'
    BY <1>0, <1>1 DEF SetupsStay, ClientType, FetchInv, Shaped, LeaseInv
  <1>3. Seen' \subseteq Seen \cup {record'} /\ record \in Seen
    <2>1. \A c \in Callers : caller'[c].read = caller[c].read
      BY <1>1 DEF SetupsStay
    <2> QED BY <1>1, <2>1 DEF Seen, RecordMoves
  <1>4. Seen \ {Nothing} \subseteq Descriptor
    BY <1>0 DEF Seen, ServiceType, ClientType, CallerState
  <1>5. RevisionInv'
    <2>1. record.revision \in Nat /\ record \in Descriptor
      BY <1>0 DEF ServiceType, Descriptor
    <2>2. \A d \in Seen \ {Nothing} : d.revision \in Nat
      BY <1>4 DEF Descriptor
    <2> QED BY <1>0, <1>1, <1>3, <2>1, <2>2, NothingIsNone DEF RevisionInv, RecordMoves
  <1> QED BY <1>2, <1>5 DEF LeaseInv

\* Nor do they take away the reason why an unexcused setup cannot fail.
CauseInv == \A c \in Callers : Justified(caller[c])

LEMMA ServiceKeepsCause ==
    ASSUME LeaseInv, CauseInv, ServiceType', PublisherNext \/ NextInterval
    PROVE  CauseInv'
  <1>0. ServiceType /\ ClientType
    BY DEF LeaseInv
  <1>1. SetupsStay
    BY <1>0, ServiceSeenByClient
  <1>2. serves => publisher'.run = publisher.run
    <2>1. CASE Start
      BY <2>1 DEF Start, serves
    <2>2. CASE Stop \/ Unchanged \/ Republish \/ Answered \/ PutFails \/ PutRefused \/ ChangeConsent
      BY <1>0, <2>2 DEF Stop, Unchanged, Republish, Answered, PutFails, PutRefused, ChangeConsent,
         publication_fails, ServiceType, PublisherState
    <2>3. ASSUME NEW put \in net, Deliver(put) \/ Refuse(put) \/ NotForwarded(put)
          PROVE  publisher'.run = publisher.run
      BY <1>0, <2>3 DEF Deliver, Refuse, NotForwarded, error_response, answers, ServiceType,
         PublisherState
    <2>4. CASE NextInterval
      BY <2>4 DEF NextInterval
    <2> QED BY <2>1, <2>2, <2>3, <2>4 DEF PublisherNext
  <1>3. now' = now \/ NextInterval
    BY DEF PublisherNext, Start, Stop, Unchanged, Republish, Answered, PutFails, PutRefused,
       publication_fails, ChangeConsent, Deliver, Refuse, NotForwarded
  <1>4. now \in Nat /\ now' \in Nat /\ now' >= now
    BY <1>0, <1>3 DEF ServiceType, NextInterval
  <1> SUFFICES ASSUME NEW c \in Callers PROVE Justified(caller[c])'
    BY DEF CauseInv
  <1>5. /\ caller[c] \in CallerState /\ caller'[c] \in CallerState
        /\ caller'[c].pc = caller[c].pc /\ caller'[c].host = caller[c].host
        /\ caller'[c].read = caller[c].read /\ caller'[c].failed = caller[c].failed
        /\ caller[c].excused => caller'[c].excused
        /\ busy(c) /\ ~caller'[c].excused /\ healthy => healthy'
    BY <1>0, <1>1 DEF SetupsStay, ClientType
  <1>6. Justified(caller[c])
    BY DEF CauseInv
  <1>7. CASE ~busy(c) \/ caller'[c].excused
    BY <1>5, <1>6, <1>7 DEF Justified, busy
  <1>8. CASE busy(c) /\ ~caller'[c].excused
    <2>1. healthy /\ healthy' /\ publisher'.run = publisher.run /\ ~caller[c].excused
      BY <1>2, <1>5, <1>6, <1>8 DEF Justified, busy, healthy
    <2>2. CASE now' = now
      BY <1>5, <1>6, <2>1, <2>2 DEF Justified, live
    <2>3. CASE NextInterval
      <3>1. keeps_up(c)
        BY <1>8, <2>3 DEF NextInterval
      <3>2. record' = record /\ record.run = publisher.run /\ record.ssh /\ now' < record.expires
        BY <2>1, <2>3 DEF NextInterval, healthy, live
      <3>3. caller[c].failed # Nothing /\ ~live(caller[c].failed) => ~(now' < caller[c].failed.expires)
        BY <1>4, <1>5 DEF live, CallerState, Descriptor
      <3>4. caller[c].failed # Nothing /\ caller[c].pc = "opening" => caller[c].host = record
        BY <3>1, NothingIsNone DEF keeps_up, LeaseInv, Shaped
      <3>5. caller[c].read # Nothing => caller[c].read = record
        BY <3>1 DEF keeps_up
      <3> QED BY <1>5, <1>6, <1>8, <2>1, <3>2, <3>3, <3>4, <3>5 DEF Justified, live, busy
    <2> QED BY <1>3, <2>2, <2>3
  <1> QED BY <1>7, <1>8

----------------------------------------------------------------------------
(* The whole system.                                                         *)

Inv == ServiceInv /\ LeaseInv /\ CauseInv

LEMMA InvInit == Init => Inv
  <1> SUFFICES ASSUME Init PROVE Inv
    OBVIOUS
  <1>1. ServiceInv
    BY ServiceInit
  <1>2. idle_caller \in CallerState /\ idle_caller.pc = "idle" /\ idle_caller.host = Nothing
        /\ idle_caller.read = Nothing
    BY DEF idle_caller, CallerState
  <1>3. ClientType
    <2>1. record \in Descriptor
      BY DEF Init, Descriptor, DESCRIPTOR_LIFETIME
    <2> QED BY <1>2, <2>1 DEF Init, ClientType
  <1>4. (\A c \in Callers : Shaped(c, caller[c], holder)) /\ FetchInv /\ CauseInv
    BY <1>2, NothingIsNone DEF Init, Shaped, FetchInv, CauseInv, Justified
  <1>5. Seen \subseteq {record, Nothing} /\ record.revision = 1
    BY <1>2 DEF Init, Seen
  <1>6. RevisionInv
    BY <1>5 DEF RevisionInv
  <1> QED BY <1>1, <1>3, <1>4, <1>6 DEF Inv, LeaseInv, ServiceInv

\* The exporter's observation and the end of the cooldown.
LEMMA ObserverStep ==
    ASSUME LeaseInv, CooldownEnds \/ \E next \in {record, previous} : Observe(next)
    PROVE  /\ CacheMoves
           /\ UNCHANGED <<caller, holder>>
           /\ cache'.current # cache.current => holder = Nothing
  <1>0. cache.current \in Seen \ {Nothing} /\ cache.recent \in BOOLEAN /\ cache.current.revision \in Nat
    BY NothingIsNone DEF LeaseInv, ClientType, Seen, Descriptor
  <1>1. CASE CooldownEnds
    <2>1. cache' = [current |-> cache.current, recent |-> FALSE]
      BY <1>1 DEF CooldownEnds, LeaseInv, ClientType
    <2>2. cache'.current = cache.current
      BY <2>1
    <2>3. cache'.current.revision >= cache.current.revision
      BY <1>0, <2>2
    <2>4. cooling' \in BOOLEAN /\ UNCHANGED <<now, publisher_side, caller, holder>>
      BY <1>1 DEF CooldownEnds
    <2> QED BY <1>0, <2>1, <2>2, <2>3, <2>4 DEF CacheMoves
  <1>2. ASSUME NEW next \in {record, previous}, Observe(next)
        PROVE  /\ CacheMoves
               /\ UNCHANGED <<caller, holder>>
               /\ cache'.current # cache.current => holder = Nothing
    <2>1. next \in Seen \ {Nothing}
      BY NothingIsNone DEF Seen, LeaseInv, ServiceType
    <2> QED BY <1>0, <1>2, <2>1 DEF Observe, CacheMoves, not_older, LeaseInv, ClientType
  <1> QED BY <1>1, <1>2

LEMMA ObserverKeeps ==
    ASSUME LeaseInv, CacheMoves, UNCHANGED <<caller, holder>>,
           cache'.current # cache.current => holder = Nothing
    PROVE  LeaseInv'
  <1>0. ServiceType /\ ClientType /\ RevisionInv /\ FetchInv
    BY DEF LeaseInv
  <1>1. Seen \ {Nothing} \subseteq Descriptor /\ Seen' \subseteq Seen
    BY <1>0 DEF Seen, ServiceType, ClientType, CallerState, CacheMoves, publisher_side
  <1>2. ServiceType' /\ ClientType' /\ \A c \in Callers : Shaped(c, caller[c], holder)'
    BY <1>0, <1>1 DEF CacheMoves, publisher_side, ServiceType, ClientType, LeaseInv, Shaped
  <1>3. RevisionInv'
    BY <1>0, <1>1 DEF RevisionInv, CacheMoves, publisher_side
  <1>4. FetchInv'
    BY <1>0, NothingIsNone DEF FetchInv, LeaseInv, Shaped
  <1> QED BY <1>2, <1>3, <1>4 DEF LeaseInv

\* What justifies a setup concerns the publisher's side and the clock only.
LEMMA SetupKeepsCause ==
    ASSUME LeaseInv, CauseInv, NEW c \in Callers, NEW next, SetupStep(c, next)
    PROVE  CauseInv'
  <1>1. ASSUME NEW d \in Callers PROVE Justified(caller'[d])
    BY DEF CauseInv, SetupStep, LeaseInv, ClientType
  <1>2. UNCHANGED <<now, record, publisher, consent>>
    BY DEF SetupStep, CacheMoves, publisher_side
  <1> QED BY <1>1, <1>2 DEF CauseInv, Justified, healthy, live, serves

LEMMA InvStep == Inv /\ [Next]_vars => Inv'
  <1> SUFFICES ASSUME Inv, [Next]_vars PROVE Inv'
    OBVIOUS
  <1>0. ServiceInv /\ LeaseInv /\ CauseInv
    BY DEF Inv
  <1>1. CASE PublisherNext \/ NextInterval
    <2>1. ServiceInv'
      BY <1>0, <1>1, ServiceStep
    <2>2. ServiceType'
      BY <2>1 DEF ServiceInv
    <2> QED BY <1>0, <1>1, <2>1, <2>2, ServiceKeepsLease, ServiceKeepsCause DEF Inv
  <1>2. ASSUME NEW c \in Callers, SetupNext(c) PROVE Inv'
    <2>1. PICK next : SetupStep(c, next)
      BY <1>0, <1>2, EverySetupStep
    <2>2. UNCHANGED <<now, publisher_side>>
      BY <2>1 DEF SetupStep, CacheMoves
    <2> QED BY <1>0, <2>1, <2>2, ClientKeepsService, SetupStepKeeps, SetupKeepsCause DEF Inv
  <1>3. CASE CooldownEnds \/ \E next \in {record, previous} : Observe(next)
    <2>1. /\ CacheMoves
          /\ UNCHANGED <<caller, holder>>
          /\ cache'.current # cache.current => holder = Nothing
      BY <1>0, <1>3, ObserverStep
    <2>2. UNCHANGED <<now, publisher_side>>
      BY <2>1 DEF CacheMoves
    <2>3. CauseInv'
      BY <1>0, <2>1, <2>2 DEF CauseInv, Justified, healthy, live, serves, publisher_side
    <2> QED BY <1>0, <2>1, <2>2, <2>3, ClientKeepsService, ObserverKeeps DEF Inv
  <1>4. CASE UNCHANGED vars
    <2>1. UNCHANGED <<now, publisher_side, cache, holder, caller, cooling>>
      BY <1>4 DEF vars, publisher_side
    <2>2. ServiceInv'
      BY <1>0, <2>1, ClientKeepsService
    <2>3. LeaseInv'
      BY <1>0, <2>1, <2>2 DEF LeaseInv, ServiceInv, ClientType, Shaped, RevisionInv, Seen, FetchInv,
         publisher_side
    <2>4. CauseInv'
      BY <1>0, <2>1 DEF CauseInv, Justified, healthy, live, serves, publisher_side
    <2> QED BY <2>2, <2>3, <2>4 DEF Inv
  <1> QED BY <1>1, <1>2, <1>3, <1>4 DEF Next, ClientNext, SetupNext

\* A setup that fails was excused (open_current, get_with): for any number of setups
\* that share the cache, a publisher that serves, is advertised and consents throughout
\* is reached, even if it restarted with a new capability before.
THEOREM SetupsFailForCause == Spec => []FailedSetupHadCause
<1>1. Inv => FailedSetupHadCause
  BY DEF Inv, CauseInv, Justified, FailedSetupHadCause
<1> QED BY <1>1, InvInit, InvStep, PTL DEF Spec

----------------------------------------------------------------------------
(* The cooldown.                                                             *)

\* Within 2 s of an attempt the cache remembers it.
CoolInv == cooling => cache.recent

\* A refresh starts only while no other runs, and not within 2 s of the start of
\* another nor of the end of one that was not cancelled (get_with's mutex and its
\* last_attempt, recorded before awaiting).
THEOREM RefreshesAreSpaced == Spec => RefreshesSpaced
<1>1. Init => CoolInv
  BY DEF Init, CoolInv
<1>2. Inv /\ CoolInv /\ [Next]_vars => CoolInv'
  <2> SUFFICES ASSUME Inv, CoolInv, [Next]_vars PROVE CoolInv'
    OBVIOUS
  <2>0. cache \in [current : Descriptor, recent : BOOLEAN] /\ ClientType /\ ServiceType
    BY DEF Inv, LeaseInv, ClientType
  <2>1. CASE PublisherNext \/ NextInterval
    BY <2>0, <2>1, ServiceSeenByClient DEF CoolInv
  <2>2. ASSUME NEW c \in Callers, SetupNext(c) PROVE CoolInv'
    <3>1. CASE BeginFetch(c) \/ FetchSucceeds(c) \/ FetchFails(c)
      <4>1. cache' = [cache EXCEPT !.recent = TRUE]
            \/ cache' = [current |-> caller[c].read, recent |-> TRUE]
        BY <3>1 DEF BeginFetch, FetchSucceeds, FetchFails, attempted
      <4>2. cache'.recent = TRUE
        BY <2>0, <4>1
      <4> QED BY <4>2 DEF CoolInv
    <3>2. CASE ~(BeginFetch(c) \/ FetchSucceeds(c) \/ FetchFails(c))
      <4>1. UNCHANGED <<cache, cooling>>
        BY <2>2, <3>2 DEF SetupNext, Begin, TakeCurrent, CooledDown, FetchRead, OpenSucceeds,
           OpenFails, Abandon
      <4> QED BY <4>1 DEF CoolInv
    <3> QED BY <3>1, <3>2
  <2>3. CASE CooldownEnds \/ \E next \in {record, previous} : Observe(next)
    BY <2>0, <2>3 DEF CoolInv, CooldownEnds, Observe
  <2>4. CASE UNCHANGED vars
    BY <2>4 DEF CoolInv, vars
  <2> QED BY <2>1, <2>2, <2>3, <2>4 DEF Next, ClientNext, SetupNext
<1>3. Inv /\ CoolInv /\ [Next]_vars =>
        [\A c \in Callers : ~fetches(c) /\ fetches(c)' =>
            ~cooling /\ \A d \in Callers : ~fetches(d)]_vars
  <2> SUFFICES ASSUME Inv, CoolInv, Next, NEW c \in Callers, ~fetches(c), fetches(c)'
               PROVE  ~cooling /\ \A d \in Callers : ~fetches(d)
    OBVIOUS
  <2>0. /\ ClientType /\ ServiceType /\ caller \in [Callers -> CallerState]
        /\ \A d \in Callers : Shaped(d, caller[d], holder)
    BY DEF Inv, LeaseInv, ClientType
  <2>1. ~(PublisherNext \/ NextInterval)
    BY <2>0, ServiceSeenByClient DEF SetupsStay, fetches
  <2>2. BeginFetch(c)
    <3>1. ASSUME NEW d \in Callers,
                 Begin(d) \/ TakeCurrent(d) \/ CooledDown(d) \/ FetchRead(d) \/ FetchSucceeds(d)
                 \/ FetchFails(d) \/ OpenSucceeds(d) \/ OpenFails(d) \/ Abandon(d)
          PROVE  FALSE
      <4>1. \E setup : caller' = [caller EXCEPT ![d] = setup] /\ (d = c => setup.pc # "fetching")
        <5>1. \A e, x : ended(d, e).pc = "failed" /\ answered(d, x, e).pc # "fetching"
                                                  /\ after_failure(d, e).pc # "fetching"
          BY <2>0 DEF ended, answered, after_failure, idle_caller, CallerState
        <5>2. idle_caller.pc = "idle" /\ \A e : [idle_caller EXCEPT !.pc = "asking", !.excused = e].pc = "asking"
          BY DEF idle_caller
        <5>3. CASE FetchRead(d)
          BY <2>0, <5>3 DEF FetchRead, fetches
        <5>4. CASE FetchFails(d)
          BY <5>1, <5>4 DEF FetchFails
        <5>5. CASE OpenFails(d)
          BY <5>1, <5>5 DEF OpenFails
        <5>6. CASE Begin(d) \/ OpenSucceeds(d)
          BY <5>2, <5>6 DEF Begin, OpenSucceeds
        <5>7. CASE TakeCurrent(d)
          BY <5>1, <5>7 DEF TakeCurrent
        <5>8. CASE CooledDown(d)
          BY <5>1, <5>8 DEF CooledDown
        <5>9. CASE FetchSucceeds(d)
          BY <5>1, <5>9 DEF FetchSucceeds
        <5>10. CASE Abandon(d)
          BY <5>1, <5>10 DEF Abandon
        <5> QED BY <3>1, <5>3, <5>4, <5>5, <5>6, <5>7, <5>8, <5>9, <5>10
      <4> QED BY <2>0, <4>1 DEF fetches
    <3>2. ~(CooldownEnds \/ \E next \in {record, previous} : Observe(next))
      BY DEF CooldownEnds, Observe, fetches
    <3>3. ASSUME NEW d \in Callers, BeginFetch(d) PROVE d = c
      BY <2>0, <3>3 DEF BeginFetch, fetches
    <3> QED BY <2>1, <3>1, <3>2, <3>3 DEF Next, ClientNext
  <2>3. ~cooling /\ holder = Nothing
    BY <2>2 DEF BeginFetch, asks, CoolInv
  <2> QED BY <2>0, <2>3, NothingIsNone DEF Shaped, fetches
<1> QED BY <1>1, <1>2, <1>3, InvInit, InvStep, PTL DEF Spec, RefreshesSpaced

----------------------------------------------------------------------------
(* The cache is a lease.                                                     *)

\* Descriptors implements Lease: whatever the mutex, the cooldown, the cancellations and
\* the exporter's observations do, the cache never runs ahead of the service, moves to
\* later revisions only, and every setup holds a descriptor that was live when it got it.
THEOREM CacheIsALease == Spec => RefinesLease
<1>1. Init => L!Init
  BY DEF Init, L!Init, idle_caller
<1>2. Inv /\ [Next]_vars => [L!Next]_(L!vars)
  <2> SUFFICES ASSUME Inv, [Next]_vars PROVE [L!Next]_(L!vars)
    OBVIOUS
  <2> DEFINE held == [c \in Callers |-> caller[c].host]
  <2>0. ServiceType /\ ClientType /\ RevisionInv /\ LeaseInv
    BY DEF Inv, LeaseInv
  <2>1. CASE PublisherNext \/ NextInterval
    <3>1. UNCHANGED <<cache, holder, cooling>> /\ SetupsStay /\ RecordMoves
      BY <2>0, <2>1, ServiceSeenByClient
    <3>2. held' = held
      BY <3>1 DEF SetupsStay
    <3>3. CASE now' = now /\ record' = record
      BY <3>1, <3>2, <3>3 DEF L!vars
    <3>4. CASE now' = now /\ record' # record
      <4>1. L!Publish
        BY <3>1, <3>2, <3>4 DEF RecordMoves, L!Publish
      <4> QED BY <4>1 DEF L!Next
    <3>5. CASE NextInterval
      <4>1. L!TimePasses
        BY <2>0, <3>1, <3>2, <3>5 DEF NextInterval, L!TimePasses, ServiceType
      <4> QED BY <4>1 DEF L!Next
    <3>6. now' = now \/ NextInterval
      BY <2>1 DEF PublisherNext, Start, Stop, Unchanged, Republish, Answered, PutFails, PutRefused,
         publication_fails, ChangeConsent, Deliver, Refuse, NotForwarded
    <3> QED BY <3>3, <3>4, <3>5, <3>6
  <2>2. ASSUME CacheMoves
        PROVE  L!moves /\ UNCHANGED <<now, record>>
    <3>1. cache.current \in Seen \ {Nothing} /\ cache'.current \in Seen \ {Nothing}
          /\ record \in Seen \ {Nothing}
      BY <2>0, <2>2, NothingIsNone DEF CacheMoves, ClientType, ServiceType, Seen
    <3>2. cache.current.revision \in Nat /\ cache'.current.revision \in Nat
      BY <2>0, <3>1 DEF Seen, ServiceType, ClientType, CallerState, Descriptor
    <3> QED BY <2>0, <2>2, <3>1, <3>2 DEF RevisionInv, CacheMoves, L!moves, publisher_side
  <2>3. ASSUME NEW c \in Callers, SetupNext(c)
        PROVE  [L!Next]_(L!vars)
    <3>1. PICK next : SetupStep(c, next)
      BY <2>0, <2>3, EverySetupStep
    <3>2. L!moves /\ UNCHANGED <<now, record>>
      BY <2>2, <3>1 DEF SetupStep
    <3>3. held' = [held EXCEPT ![c] = next.host]
      BY <2>0, <3>1 DEF SetupStep, ClientType
    <3>4. CASE next.host = caller[c].host
      <4>1. held' = held
        BY <3>3, <3>4
      <4>2. L!Renew
        BY <3>2, <4>1 DEF L!Renew
      <4> QED BY <4>2 DEF L!Next
    <3>5. CASE next.host = Nothing /\ cache'.current = cache.current
      <4>1. L!GiveUp(c)
        BY <3>2, <3>3, <3>5 DEF L!GiveUp
      <4> QED BY <4>1 DEF L!Next
    <3>6. CASE next.host = cache'.current /\ live(cache'.current)
      <4>1. L!HandOut(c)
        BY <3>2, <3>3, <3>6 DEF L!HandOut, L!live, live
      <4> QED BY <4>1 DEF L!Next
    <3> QED BY <3>1, <3>4, <3>5, <3>6 DEF SetupStep, Holds
  <2>4. CASE CooldownEnds \/ \E next \in {record, previous} : Observe(next)
    <3>1. CacheMoves /\ UNCHANGED caller
      BY <2>0, <2>4, ObserverStep
    <3>2. L!Renew
      BY <2>2, <3>1 DEF L!Renew
    <3> QED BY <3>2 DEF L!Next
  <2>5. CASE UNCHANGED vars
    BY <2>5 DEF vars, L!vars
  <2> QED BY <2>1, <2>3, <2>4, <2>5 DEF Next, ClientNext, SetupNext
<1> QED BY <1>1, <1>2, InvInit, InvStep, PTL DEF Spec, RefinesLease, L!Spec
====
