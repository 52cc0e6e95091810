------------------------------- MODULE Publication -------------------------------
(***************************************************************************)
(* The discovery lease of one publisher: how `attached serve` keeps its      *)
(* encrypted host record alive at the service (crates/cli/src/server.rs      *)
(* run_supervisor and run_publisher, sync/publisher.rs) and how connection   *)
(* setups on a client find it (publisher_descriptor.rs, ssh/client.rs).      *)
(*                                                                           *)
(* Time is counted in intervals of 30 s, PUBLISH_INTERVAL = REPUBLISH_       *)
(* INTERVAL: now is the number of intervals gone by, and what lasts less     *)
(* (the 2 s cooldown, the 10 s and 20 s timeouts) is an order of steps, none *)
(* of which is still open when the second interval after it began starts.    *)
(* Lease is what the descriptor cache promises; RefinesLease says so.        *)
(***************************************************************************)
EXTENDS Integers, FiniteSets, FiniteSetsExt

CONSTANTS
    Callers,    \* connection setups (SSH or TCP) that share one Descriptors
    Nothing,    \* no descriptor
    MAX_TIME,   \* bound: intervals
    MAX_RUNS,   \* bound: capabilities generated by `attached serve`
    MAX_FAULTS  \* bound: stops, failed publications and faults of the SSH consent

ASSUME PublicationBounds ==
    MAX_TIME \in Nat /\ MAX_RUNS \in Nat /\ MAX_FAULTS \in Nat

\* A descriptor: the service's revision, the capability and the SSH consent of
\* the publisher that sent it, and when it expires.
Descriptor == [revision : Nat, run : Nat, ssh : BOOLEAN, expires : Int]

ASSUME NothingIsNone == Nothing \notin Callers /\ Nothing \notin Descriptor

\* 90 s and 30 s, in intervals.
DESCRIPTOR_LIFETIME == 3
REPUBLISH_INTERVAL == 1

VARIABLES
    now,        \* intervals gone by
    record,     \* the descriptor the service has
    previous,   \* the one it had before
    net,        \* PUT requests on their way to the service
    publisher,  \* the serving process and its Publisher
    consent,    \* what the local SSH policy answers (access_enabled)
    cache,      \* Descriptors: the current descriptor and a recent attempt
    holder,     \* the caller that holds the cache's mutex across its fetch
    caller,     \* the connection setups
    quiet,      \* ghost: the interval of the last disturbance of the publisher
    faults,     \* ghost: faults so far
    cooling     \* ghost: less than 2 s since a refresh began, or ended by itself

vars == <<now, record, previous, net, publisher, consent, cache, holder, caller, quiet,
          faults, cooling>>

publisher_side == <<record, previous, net, publisher, consent, quiet, faults>>

----------------------------------------------------------------------------
(* What a descriptor says, and the record the service has now.              *)

live(descriptor) == now < descriptor.expires

\* The service stores each PUT under the next revision; the lifetime was set
\* when the publisher built the descriptor, not when it arrived.
stored(put) ==
    [revision |-> record.revision + 1, run |-> put.run, ssh |-> put.ssh,
     expires |-> put.issued + DESCRIPTOR_LIFETIME]

digest == [run |-> publisher.run, ssh |-> consent]

idle_caller ==
    [pc |-> "idle", failed |-> Nothing, host |-> Nothing, read |-> Nothing,
     late |-> FALSE, excused |-> FALSE]

\* The client's catalog already lists the publisher's first record.
Init ==
    /\ now = 0
    /\ record = [revision |-> 1, run |-> 1, ssh |-> TRUE, expires |-> DESCRIPTOR_LIFETIME]
    /\ net = {}
    /\ publisher = [phase |-> "serving", run |-> 1, last |-> [run |-> 1, ssh |-> TRUE],
                    sent |-> [run |-> 1, ssh |-> TRUE], due |-> REPUBLISH_INTERVAL,
                    periodic |-> FALSE, ticked |-> 0, answer |-> "none", starts |-> 1]
    /\ consent = TRUE
    /\ cache = [current |-> record, recent |-> FALSE]
    /\ previous = record
    /\ holder = Nothing
    /\ caller = [c \in Callers |-> idle_caller]
    /\ quiet = 0
    /\ faults = 0
    /\ cooling = FALSE

----------------------------------------------------------------------------
(* The publisher.                                                            *)

serves == publisher.phase \in {"serving", "putting"}

busy(c) == caller[c].pc \in {"asking", "fetching", "opening"}

\* A setup that starts now can be expected to succeed.
healthy ==
    /\ serves /\ consent
    /\ record.run = publisher.run /\ record.ssh /\ live(record)

\* A setup is excused once that stops being so while it runs.
watched(next) ==
    [c \in Callers |-> IF busy(c) THEN [next[c] EXCEPT !.excused = @ \/ ~healthy'] ELSE next[c]]

\* publish_snapshot builds a descriptor from the state of this moment and sends
\* it; the Publisher remembers it only when the answer arrives.
request(run, start) ==
    [run |-> run, ssh |-> consent, issued |-> now, by |-> start, late |-> FALSE]

\* `attached serve` generates a capability; a candidate that takes over in an
\* update, and a supervisor that rolled back, keep the one they have.
Start ==
    /\ publisher.phase = "down"
    /\ \E run \in {publisher.run, publisher.run + 1} :
         /\ run <= MAX_RUNS
         /\ publisher' = [phase |-> "initial", run |-> run, last |-> Nothing,
                          sent |-> [run |-> run, ssh |-> consent], due |-> -1,
                          periodic |-> FALSE, ticked |-> now, answer |-> "none",
                          starts |-> publisher.starts + 1]
         /\ net' = net \cup {request(run, publisher.starts + 1)}
    /\ quiet' = now
    /\ UNCHANGED <<now, record, previous, consent, caller, cache, holder, cooling, faults>>

\* The comparison with the deadline, before which an unchanged descriptor is
\* not sent again.  A tick and the deadline the tick before it set are both 30 s
\* after the same tick, each later by its own scheduling latency, so either may
\* be first; the tick after the initial publication starts after its answer and
\* cannot be.
before_deadline ==
    IF now = publisher.due /\ publisher.periodic THEN BOOLEAN ELSE {now < publisher.due}

ticks == publisher.phase = "serving" /\ publisher.ticked < now

\* Mutant: a skipped tick also moves the deadline.
Unchanged_postpones ==
    /\ ticks
    /\ publisher.last = digest
    /\ TRUE \in before_deadline
    /\ publisher' = [publisher EXCEPT !.ticked = now, !.due = now + REPUBLISH_INTERVAL]
    /\ UNCHANGED <<now, record, previous, net, consent, cache, holder, caller, cooling, quiet, faults>>

\* PublishOutcome::Unchanged
Unchanged ==
    /\ ticks
    /\ publisher.last = digest
    /\ TRUE \in before_deadline
    /\ publisher' = [publisher EXCEPT !.ticked = now]
    /\ UNCHANGED <<now, record, previous, net, consent, cache, holder, caller, cooling, quiet, faults>>

Republish ==
    /\ ticks
    /\ publisher.last # digest \/ FALSE \in before_deadline
    /\ publisher' = [publisher EXCEPT !.phase = "putting", !.sent = digest, !.ticked = now]
    /\ net' = net \cup {request(publisher.run, publisher.starts)}
    /\ UNCHANGED <<now, record, previous, consent, cache, holder, caller, cooling, quiet, faults>>

publishing == publisher.phase \in {"initial", "putting"}

\* The request whose answer the publisher waits for.
own(put) == publishing /\ put.by = publisher.starts /\ put.issued = publisher.ticked

fault == faults < MAX_FAULTS /\ faults' = faults + 1

\* The service takes a request and answers it, if somebody still waits.
answers(put, status) ==
    /\ put \in net
    /\ net' = net \ {put}
    /\ publisher' = [publisher EXCEPT !.answer = IF own(put) THEN status ELSE @]

\* The service's transaction.  A request may outlive the process that sent it.
Deliver(put) ==
    /\ answers(put, "stored")
    /\ record' = stored(put)
    /\ previous' = record
    /\ quiet' = IF own(put) THEN quiet ELSE now
    /\ UNCHANGED <<now, consent, cache, holder, cooling, faults>>
    /\ caller' = watched(caller)

\* Unauthorized, too large, not an envelope, over the quota or unavailable: the
\* account object leaves its table alone.
error_response(put) ==
    /\ fault
    /\ answers(put, "error")
    /\ quiet' = now

Refuse(put) ==
    /\ error_response(put)
    /\ UNCHANGED <<now, record, previous, consent, cache, holder, caller, cooling>>

\* The Worker in front loses the account object, which stored the envelope all the
\* same (if it did not, or the request could not be read, this is a refusal).
NotForwarded(put) ==
    /\ error_response(put)
    /\ record' = stored(put)
    /\ previous' = record
    /\ UNCHANGED <<now, consent, cache, holder, cooling>>
    /\ caller' = watched(caller)

\* The answer arrived: the digest sent and the deadline measured from the start
\* of the publication become the Publisher's state.
Answered ==
    /\ publishing
    /\ publisher.answer = "stored"
    /\ publisher' = [publisher EXCEPT !.phase = "serving", !.answer = "none",
                          !.periodic = publisher.phase = "putting",
                          !.last = publisher.sent,
                          !.due = publisher.ticked + REPUBLISH_INTERVAL]
    /\ UNCHANGED <<now, record, previous, net, consent, cache, holder, caller, cooling, quiet, faults>>

\* The request of a publication that is given up may be lost or may arrive yet.
given_up == net' \in {net, {put \in net : ~own(put)}}

\* run_publisher warns and waits for its next tick; the initial publication ends
\* the process.
publication_fails ==
    /\ publishing
    /\ publisher' = [publisher EXCEPT !.phase = IF @ = "initial" THEN "down" ELSE "serving",
                                      !.answer = "none"]
    /\ quiet' = now
    /\ UNCHANGED <<now, record, previous, consent, cache, holder, caller, cooling>>

\* The request failed, timed out or its answer was lost.
PutFails == fault /\ given_up /\ publication_fails

\* The answer is neither 201 nor 204 with a revision.
PutRefused ==
    /\ publisher.answer = "error"
    /\ publication_fails
    /\ UNCHANGED <<net, faults>>

\* Shutdown, hand-off or death: the publisher task is aborted with its request
\* and the endpoint closes.
Stop ==
    /\ fault
    /\ publisher.phase # "down"
    /\ given_up
    /\ publisher' = [publisher EXCEPT !.phase = "down", !.answer = "none"]
    /\ UNCHANGED <<now, record, previous, consent, cache, holder, cooling, quiet>>
    /\ caller' = watched(caller)

\* The operator enables or revokes SSH on this machine.
ChangeConsent ==
    /\ fault
    /\ consent' = ~consent
    /\ quiet' = now
    /\ UNCHANGED <<now, record, previous, net, publisher, cache, holder, cooling>>
    /\ caller' = watched(caller)

\* What a refresh (10 s) read, or a second open (with the refresh before it,
\* 20 s) uses, was not replaced by a publication of this interval: one that
\* arrives does so in the interval's first 10 s.
keeps_up(c) ==
    /\ caller[c].read \in {Nothing, record}
    /\ caller[c].failed # Nothing => caller[c].host \in {Nothing, record}

\* The next interval begins.  The publisher ticked in this one and its request
\* is over; other requests and the setups last less than an interval.
NextInterval ==
    /\ now < MAX_TIME
    /\ publisher.phase \in {"serving", "down"}
    /\ ~ticks
    /\ \A put \in net : ~put.late
    /\ \A c \in Callers : busy(c) => ~caller[c].late /\ keeps_up(c)
    /\ now' = now + 1
    /\ net' = {[put EXCEPT !.late = TRUE] : put \in net}
    /\ UNCHANGED <<record, previous, publisher, consent, cache, holder, cooling, quiet, faults>>
    /\ caller' = watched([c \in Callers |-> [caller[c] EXCEPT !.late = busy(c)]])

----------------------------------------------------------------------------
(* The client's descriptor cache and the setups that share it.               *)

\* open_current calls get(account, None).
Begin(c) ==
    /\ ~busy(c)
    /\ caller' = [caller EXCEPT ![c] = [idle_caller EXCEPT !.pc = "asking", !.excused = ~healthy]]
    /\ UNCHANGED <<now, cache, holder, cooling, publisher_side>>

\* get_with's first test, with the mutex held.
usable(failed) == live(cache.current) /\ failed # cache.current

asks(c) == caller[c].pc = "asking" /\ holder = Nothing

ended(c, excused) ==
    [idle_caller EXCEPT !.pc = "failed", !.excused = caller[c].excused \/ excused]

\* A setup that gets the descriptor its first open failed with returns that
\* open's error.
answered(c, descriptor, excused) ==
    IF caller[c].failed = descriptor THEN ended(c, excused)
    ELSE [caller[c] EXCEPT !.pc = "opening", !.host = descriptor, !.read = Nothing,
                           !.excused = @ \/ excused]

\* A setup whose first open failed takes whatever the cache has moved to since,
\* which may be outdated as well.
TakeCurrent(c) ==
    /\ asks(c)
    /\ usable(caller[c].failed)
    /\ LET outdated == caller[c].failed # Nothing /\ cache.current # record
       IN  caller' = [caller EXCEPT ![c] = answered(c, cache.current, outdated)]
    /\ UNCHANGED <<now, cache, holder, cooling, publisher_side>>

\* Within the cooldown a descriptor that is still live is returned unchanged and
\* an expired one never.
CooledDown(c) ==
    /\ asks(c)
    /\ ~usable(caller[c].failed)
    /\ cache.recent
    /\ caller' = [caller EXCEPT ![c] = IF live(cache.current) THEN answered(c, cache.current, TRUE)
                                       ELSE ended(c, TRUE)]
    /\ UNCHANGED <<now, cache, holder, cooling, publisher_side>>

\* Mutant: an attempt is recorded only when it ends.
attempted_unrecorded == cache.recent

\* Recorded before awaiting; the mutex stays held.
attempted == TRUE

BeginFetch(c) ==
    /\ asks(c)
    /\ ~usable(caller[c].failed)
    /\ ~cache.recent
    /\ cache' = [cache EXCEPT !.recent = attempted]
    /\ cooling' = TRUE
    /\ holder' = c
    /\ caller' = [caller EXCEPT ![c].pc = "fetching"]
    /\ UNCHANGED <<now, publisher_side>>

\* refresh_ssh_attachment reads the index and the record.
FetchRead(c) ==
    /\ caller[c].pc = "fetching" /\ caller[c].read = Nothing
    /\ caller' = [caller EXCEPT ![c].read = record]
    /\ UNCHANGED <<now, cache, holder, cooling, publisher_side>>

\* The checks of refresh_ssh_attachment and of get_with on what was read.
acceptable(next) ==
    /\ next.revision >= cache.current.revision
    /\ live(next)
    /\ next.ssh

FetchSucceeds(c) ==
    /\ caller[c].pc = "fetching" /\ caller[c].read # Nothing
    /\ acceptable(caller[c].read)
    /\ cache' = [current |-> caller[c].read, recent |-> TRUE]
    /\ cooling' = TRUE
    /\ holder' = Nothing
    /\ caller' = [caller EXCEPT ![c] = answered(c, caller[c].read, FALSE)]
    /\ UNCHANGED <<now, publisher_side>>

\* What the service returned is refused, or it answers with an error or not
\* within REFRESH_TIMEOUT.
FetchFails(c) ==
    /\ caller[c].pc = "fetching"
    /\ \E refused \in BOOLEAN :
         /\ refused => caller[c].read # Nothing /\ ~acceptable(caller[c].read)
         /\ caller' = [caller EXCEPT ![c] = ended(c, ~refused)]
    /\ cache' = [cache EXCEPT !.recent = TRUE]
    /\ cooling' = TRUE
    /\ holder' = Nothing
    /\ UNCHANGED <<now, publisher_side>>

\* REFRESH_RETRY_DELAY has passed since the last attempt began and, unless it was
\* cancelled, since it ended.
CooldownEnds ==
    /\ cooling
    /\ cooling' = FALSE
    /\ cache' = [cache EXCEPT !.recent = FALSE]
    /\ UNCHANGED <<now, holder, caller, publisher_side>>

\* open: the expiry is checked again, and the publisher answers only a client
\* that shows the capability of this run while its policy allows SSH.
opens(c) ==
    /\ live(caller[c].host)
    /\ serves /\ consent
    /\ caller[c].host.run = publisher.run

OpenSucceeds(c) ==
    /\ caller[c].pc = "opening"
    /\ opens(c)
    /\ caller' = [caller EXCEPT ![c] = idle_caller]
    /\ UNCHANGED <<now, cache, holder, cooling, publisher_side>>

\* Mutant: a rejected open ends the setup without a second look at discovery.
after_failure_final(c, excused) == ended(c, excused)

\* The first failed open asks for another descriptor than the one that failed;
\* the second one ends the setup.
after_failure(c, excused) ==
    IF caller[c].failed # Nothing THEN ended(c, excused)
    ELSE [caller[c] EXCEPT !.pc = "asking", !.failed = caller[c].host, !.host = Nothing,
                           !.excused = @ \/ excused]

\* The publisher does not accept, or the path to it fails.
OpenFails(c) ==
    /\ caller[c].pc = "opening"
    /\ \E path_fails \in BOOLEAN :
         /\ ~path_fails => ~opens(c)
         /\ caller' = [caller EXCEPT ![c] = after_failure(c, path_fails)]
    /\ UNCHANGED <<now, cache, holder, cooling, publisher_side>>

\* The setup's own 20 s end it wherever it is; a fetch is dropped with the
\* mutex.  Its start stays recorded, its end is not: when the fetch has taken more
\* than REFRESH_RETRY_DELAY the next refresh may follow at once.
Abandon(c) ==
    /\ busy(c)
    /\ holder' = IF holder = c THEN Nothing ELSE holder
    /\ caller' = [caller EXCEPT ![c] = ended(c, TRUE)]
    /\ UNCHANGED <<now, cache, cooling, publisher_side>>

\* Mutant: an observation replaces the descriptor whatever its revision.
not_older_unchecked(next) == TRUE

not_older(next) == next.revision >= cache.current.revision

\* The export loop applies what its own discovery, which keeps hosts that are
\* live and allow SSH, read before, unless a refresh holds the mutex.
Observe(next) ==
    /\ holder = Nothing
    /\ live(next) /\ next.ssh
    /\ not_older(next)
    /\ next # cache.current
    /\ cache' = [cache EXCEPT !.current = next]
    /\ UNCHANGED <<now, holder, caller, cooling, publisher_side>>

----------------------------------------------------------------------------
PublisherNext ==
    \/ Start \/ Stop \/ Unchanged \/ Republish \/ Answered \/ PutFails \/ PutRefused
    \/ ChangeConsent
    \/ \E put \in net : Deliver(put) \/ Refuse(put) \/ NotForwarded(put)

ClientNext ==
    \/ \E c \in Callers :
         \/ Begin(c) \/ TakeCurrent(c) \/ CooledDown(c) \/ BeginFetch(c) \/ FetchRead(c)
         \/ FetchSucceeds(c) \/ FetchFails(c) \/ OpenSucceeds(c) \/ OpenFails(c) \/ Abandon(c)
    \/ CooldownEnds
    \/ \E next \in {record, previous} : Observe(next)

Next == PublisherNext \/ ClientNext \/ NextInterval

Spec == Init /\ [][Next]_vars

----------------------------------------------------------------------------
(* Properties.                                                               *)

\* Whatever happened before (failed publications, a request of an earlier run
\* that arrived late and replaced the record, a change of the SSH consent), three
\* intervals later the record is again this run's, live and true to the consent,
\* and while nothing happens it stays so although an unchanged descriptor is not
\* sent at every tick (publish_snapshot's digest and deadline).
ServingIsAdvertised ==
    serves /\ now >= quiet + DESCRIPTOR_LIFETIME =>
        record.run = publisher.run /\ live(record) /\ record.ssh = consent

\* A setup fails only for a reason: the publisher, its record or the consent was
\* not as it should be at some time during the setup, the path, the service or
\* the setup ran into an error or a timeout, the cooldown refused a refresh, or
\* the cache had moved to another outdated descriptor meanwhile.
\* In particular a publisher that restarted with a new capability is found again
\* although the client's descriptor is live (open_current).
FailedSetupHadCause == \A c \in Callers : caller[c].pc = "failed" => caller[c].excused

fetches(c) == caller[c].pc = "fetching"

\* However many setups are queued on the descriptor and whenever the one that
\* holds the mutex is cancelled, a refresh starts only while no other runs, and
\* not within 2 s of the start of another one, nor of the end of one that failed,
\* timed out or succeeded ("cancellation doesn't create a retry storm",
\* publisher_descriptor.rs:90).  A cancelled refresh counts from its start only.
RefreshesSpaced ==
    [][\A c \in Callers : ~fetches(c) /\ fetches(c)' =>
          ~cooling /\ \A d \in Callers : ~fetches(d)]_vars

\* The cache is a lease: it never runs ahead of the service, moves to later
\* revisions only and hands out live descriptors only.
L == INSTANCE Lease WITH
        clock <- now,
        lease <- cache.current,
        held <- [c \in Callers |-> caller[c].host]

\* Descriptors, with its mutex, cooldown, cancellation and the exporter's
\* observations, implements the lease.
RefinesLease == L!Spec

=============================================================================
