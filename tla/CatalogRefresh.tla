----------------------------- MODULE CatalogRefresh -----------------------------
(***************************************************************************)
(* Host discovery of a consumer (crates/cli/src/sync/refresh.rs and         *)
(* state_catalog.rs): several processes of one user (the CLI, an SSH config *)
(* exporter, the Herdr plugin) refresh the same cached catalog from the     *)
(* same account while publishers keep storing new revisions.                *)
(*                                                                         *)
(* A refresh holds no lock between its steps: it loads the catalog, lists   *)
(* the index, fetches every changed record (each fetch is a small protocol  *)
(* of its own, all of them concurrent), and reconciles what it accepted     *)
(* with whatever catalog it finds under the exclusive lock of save_refresh. *)
(***************************************************************************)
EXTENDS RecordStore

CONSTANTS
    Refreshers,                 \* processes that run refreshes
    Faithful,                   \* TRUE: the worker of this repository answers.
                                \* FALSE: a service that hides records and
                                \* replays stored ciphertext (README.md)
    MAX_RECORD_FETCH_ATTEMPTS,  \* 3 in the code
    MAX_GENERATION,             \* u64::MAX in the code: the last generation
    MAX_TIME                    \* bound of the clock

ASSUME RefreshAssumption ==
    /\ Faithful \in BOOLEAN
    /\ MAX_RECORD_FETCH_ATTEMPTS \in Nat \ {0}
    /\ MAX_GENERATION \in Nat
    /\ MAX_TIME \in Nat

VARIABLES
    now,        \* wall clock
    disk,       \* what is in host-catalog.json
    catalog,    \* the catalog in it: Table
    generation, \* and its generation
    pc,         \* where each refresher is
    started,    \* `now` of refresh_unlocked_at, read before anything else
    loaded,     \* the catalog it loaded: baseline revisions and generation
    accepted,   \* records it will offer to save_refresh
    fetch,      \* one fetch_consistent_record per changed record
    fetched,    \* the last row GET returned for a changed record
    \* Auxiliary variables, read by properties only.
    highest,    \* highest revision ever cached for a record (0: never cached)
    storedAt,   \* generation at which the cached row of a record was stored
    removedAt,  \* generation at which a record was last dropped
    listedAt,   \* generation the refresher's index listing was taken at
    undisturbed \* no PUT, failed fetch or foreign save since the catalog was loaded

refreshVars == <<pc, started, loaded, accepted, fetch, fetched>>
diskVars == <<disk, catalog, generation>>
cacheAuxVars == <<highest, storedAt, removedAt>>
auxVars == <<highest, storedAt, removedAt, listedAt, undisturbed>>
vars == <<store, history, now, disk, catalog, generation, pc, started, loaded,
          accepted, fetch, fetched, highest, storedAt, removedAt, listedAt,
          undisturbed>>

Time == 0 .. MAX_TIME
Generation == 0 .. MAX_GENERATION

\* A reconciliation in progress: about to GET, about to list the index again,
\* or over with a row or without one.  `indexed` is the revision floor.
Fetch == [phase : {"get", "recheck", "ready", "failed"},
          attempt : 1 .. MAX_RECORD_FETCH_ATTEMPTS,
          indexed : Revision]

\* The reconciliations of a refresh, one per changed record.
Fetches == UNION {[changed -> Fetch] : changed \in SUBSET Records}

TypeOK ==
    /\ StoreTypeOK
    /\ now \in Time
    /\ disk \in {"missing", "valid", "corrupt legacy", "unreadable"}
    /\ catalog \in Table
    /\ generation \in Generation
    /\ pc \in [Refreshers -> {"idle", "load", "list", "fetch", "listing"}]
    /\ started \in [Refreshers -> Time]
    /\ loaded \in [Refreshers -> [generation : Generation, records : Table]]
    /\ accepted \in [Refreshers -> Table]
    /\ fetch \in [Refreshers -> Fetches]
    /\ fetched \in [Refreshers -> Table]
    /\ highest \in [Records -> 0 .. MAX_REVISION]
    /\ storedAt \in [Records -> Generation]
    /\ removedAt \in [Records -> Generation]
    /\ listedAt \in [Refreshers -> Generation]
    /\ undisturbed \in [Refreshers -> BOOLEAN]

\* A corrupt legacy file is one that is neither an encrypted envelope nor valid
\* JSON; an unreadable one is an envelope that does not open or validate.
Init ==
    /\ StoreInit
    /\ now = 0
    /\ disk \in {"missing", "corrupt legacy", "unreadable"}
    /\ catalog = NoRows
    /\ generation = 0
    /\ pc = [p \in Refreshers |-> "idle"]
    /\ started = [p \in Refreshers |-> 0]
    /\ loaded = [p \in Refreshers |-> [generation |-> 0, records |-> NoRows]]
    /\ accepted = [p \in Refreshers |-> NoRows]
    /\ fetch = [p \in Refreshers |-> NoRows]
    /\ fetched = [p \in Refreshers |-> NoRows]
    /\ highest = [r \in Records |-> 0]
    /\ storedAt = [r \in Records |-> 0]
    /\ removedAt = [r \in Records |-> 0]
    /\ listedAt = [p \in Refreshers |-> 0]
    /\ undisturbed = [p \in Refreshers |-> FALSE]

----------------------------------------------------------------------------
(* What the service answers.                                               *)

IndexReplies ==
    IF Faithful
    THEN {load_index}
    ELSE UNION {[listed -> Revision] : listed \in SUBSET Records}

\* The envelope is bound to account and record, the revision is not: it is the
\* ETag the service puts on the answer.
RecordReplies(r) ==
    IF Faithful
    THEN {store[x] : x \in DOMAIN store \cap {r}}
    ELSE {[revision |-> n, envelope |-> old.envelope] :
              n \in Revision, old \in history[r]}

----------------------------------------------------------------------------
(* The environment: publishers and the clock.                              *)

Publish(r, envelope) ==
    /\ put_record(r, envelope)
    /\ undisturbed' = [p \in Refreshers |-> FALSE]
    /\ UNCHANGED <<now, diskVars, refreshVars, cacheAuxVars, listedAt>>

Tick ==
    /\ now < MAX_TIME
    /\ now' = now + 1
    /\ UNCHANGED <<storeVars, diskVars, refreshVars, auxVars>>

----------------------------------------------------------------------------
(* One refresh.                                                            *)

is_expired_at(row, time) == row.envelope.expires <= time

\* The refresh returns, with a result or an error, and its locals are gone.
finish(p) ==
    /\ pc' = [pc EXCEPT ![p] = "idle"]
    /\ started' = [started EXCEPT ![p] = 0]
    /\ loaded' = [loaded EXCEPT ![p] = [generation |-> 0, records |-> NoRows]]
    /\ accepted' = [accepted EXCEPT ![p] = NoRows]
    /\ fetch' = [fetch EXCEPT ![p] = NoRows]
    /\ fetched' = [fetched EXCEPT ![p] = NoRows]
    /\ listedAt' = [listedAt EXCEPT ![p] = 0]
    /\ undisturbed' = [undisturbed EXCEPT ![p] = FALSE]
    /\ UNCHANGED <<storeVars, now, diskVars, cacheAuxVars>>

\* The time of the refresh is read first, before the account is opened.
Start(p) ==
    /\ pc[p] = "idle"
    /\ pc' = [pc EXCEPT ![p] = "load"]
    /\ started' = [started EXCEPT ![p] = now]
    /\ UNCHANGED <<storeVars, now, diskVars, loaded, accepted, fetch, fetched, auxVars>>

\* state_catalog::load, under the shared lock.  A catalog that cannot be read
\* counts as an empty one of generation 0 (RefreshWarning::CatalogRebuilt).
Load(p) ==
    /\ pc[p] = "load"
    /\ pc' = [pc EXCEPT ![p] = "list"]
    /\ loaded' = [loaded EXCEPT ![p] =
                    IF disk = "valid"
                    THEN [generation |-> generation, records |-> catalog]
                    ELSE [generation |-> 0, records |-> NoRows]]
    /\ undisturbed' = [undisturbed EXCEPT ![p] = TRUE]
    /\ UNCHANGED <<storeVars, now, diskVars, started, accepted, fetch, fetched,
                   cacheAuxVars, listedAt>>

\* Mutant: a cached record counts as unchanged whatever its revision.
unchanged_at_any_revision(index, cached) == DOMAIN index \cap DOMAIN cached

\* Records the index lists at the revision that is already cached.
unchanged_records(index, cached) ==
    {r \in DOMAIN index \cap DOMAIN cached : cached[r].revision = index[r]}

\* An unchanged record is accepted from the cache unless it has expired; every
\* other listed record is fetched.
ListRecords(p) ==
    /\ pc[p] = "list"
    /\ \E index \in IndexReplies :
         LET cached == loaded[p].records
             same == unchanged_records(index, cached)
         IN /\ accepted' = [accepted EXCEPT ![p] =
                 [r \in {x \in same : ~is_expired_at(cached[x], started[p])} |->
                      cached[r]]]
            /\ fetch' = [fetch EXCEPT ![p] =
                 [r \in DOMAIN index \ same |->
                      [phase |-> "get", attempt |-> 1, indexed |-> index[r]]]]
    /\ pc' = [pc EXCEPT ![p] = "fetch"]
    /\ listedAt' = [listedAt EXCEPT ![p] = generation]
    /\ UNCHANGED <<storeVars, now, diskVars, started, loaded, fetched,
                   cacheAuxVars, undisturbed>>

fetching(p, r, phase) ==
    /\ pc[p] = "fetch"
    /\ r \in DOMAIN fetch[p]
    /\ fetch[p][r].phase = phase

\* An HTTP error or a 404: this record is unavailable, the others go on.
FetchUnavailable(p, r) ==
    /\ fetching(p, r, "get") \/ fetching(p, r, "recheck")
    /\ fetch' = [fetch EXCEPT ![p][r].phase = "failed"]
    /\ undisturbed' = [undisturbed EXCEPT ![p] = FALSE]
    /\ UNCHANGED <<storeVars, now, diskVars, pc, started, loaded, accepted,
                   fetched, cacheAuxVars, listedAt>>

\* What the revision of a GET answer makes of a reconciliation.
got_record(f, revision) ==
    CASE revision < f.indexed -> [f EXCEPT !.phase = "failed"]
      [] revision = f.indexed -> [f EXCEPT !.phase = "ready"]
      [] revision > f.indexed -> [f EXCEPT !.phase = "recheck"]

GetRecord(p, r) ==
    /\ fetching(p, r, "get")
    /\ \E row \in RecordReplies(r) :
         /\ fetch' = [fetch EXCEPT ![p][r] = got_record(@, row.revision)]
         /\ fetched' = [fetched EXCEPT ![p] =
                [x \in DOMAIN @ \cup {r} |-> IF x = r THEN row ELSE @[x]]]
    /\ UNCHANGED <<storeVars, now, diskVars, pc, started, loaded, accepted,
                   cacheAuxVars, listedAt, undisturbed>>

\* Mutant: the attempts are not limited.
rechecked_for_ever(f, got, revision) ==
    CASE revision < got -> [f EXCEPT !.phase = "failed"]
      [] revision = got -> [f EXCEPT !.phase = "ready"]
      [] revision > got ->
            [phase |-> "get", attempt |-> f.attempt + 1, indexed |-> revision]

\* What the second index observation makes of it, for a row that was fetched at
\* revision `got`: it is accepted only if the index lists exactly that revision.
rechecked(f, got, revision) ==
    CASE revision < got -> [f EXCEPT !.phase = "failed"]
      [] revision = got -> [f EXCEPT !.phase = "ready"]
      [] revision > got /\ f.attempt < MAX_RECORD_FETCH_ATTEMPTS ->
            [phase |-> "get", attempt |-> f.attempt + 1, indexed |-> revision]
      [] OTHER -> [f EXCEPT !.phase = "failed"]

RecheckIndex(p, r) ==
    /\ fetching(p, r, "recheck")
    /\ \E index \in IndexReplies :
         /\ r \in DOMAIN index
         /\ fetch' = [fetch EXCEPT ![p][r] =
                        rechecked(@, fetched[p][r].revision, index[r])]
    /\ UNCHANGED <<storeVars, now, diskVars, pc, started, loaded, accepted,
                   fetched, cacheAuxVars, listedAt, undisturbed>>

\* Mutant: the authentication tag is not checked.
opens_unauthenticated(row, time) == time < row.envelope.expires

\* open_host_access_descriptor with the time the refresh began.
opens_at(row, time) == row.envelope.authentic /\ time < row.envelope.expires

\* Mutant: the revision of the index listing is kept with the fetched envelope.
offered_at_indexed_revision(p) ==
    LET opened == {r \in DOMAIN fetch[p] : /\ fetch[p][r].phase = "ready"
                                           /\ opens_at(fetched[p][r], started[p])}
    IN  [r \in DOMAIN accepted[p] \cup opened |->
            IF r \in opened
            THEN [fetched[p][r] EXCEPT !.revision = fetch[p][r].indexed]
            ELSE accepted[p][r]]

\* What p offers to save_refresh: the unchanged records and the fetched ones
\* that open.
offered(p) ==
    LET opened == {r \in DOMAIN fetch[p] : /\ fetch[p][r].phase = "ready"
                                           /\ opens_at(fetched[p][r], started[p])}
    IN  [r \in DOMAIN accepted[p] \cup opened |->
            IF r \in opened THEN fetched[p][r] ELSE accepted[p][r]]

----------------------------------------------------------------------------
(* The reconciliation of save_refresh between the catalog found under the   *)
(* lock (current, at currentGeneration), the offered records, and the       *)
(* catalog the refresh loaded when it began (base).                         *)

\* Mutant: the generation is not compared.
selected_at_any_generation(offer, current, currentGeneration, base) == DOMAIN offer

\* A record some other refresh removed since is not brought back.
selected_records(offer, current, currentGeneration, base) ==
    {r \in DOMAIN offer :
        currentGeneration = base.generation \/ r \in DOMAIN current}

\* Mutant: the last writer wins.
last_of(offer, current, r) == offer[r]

newer_of(offer, current, r) ==
    IF r \in DOMAIN current /\ current[r].revision > offer[r].revision
    THEN current[r] ELSE offer[r]

\* Mutant: records the refresh did not offer are always dropped.
leftover_dropped(offer, current, base) == {}

\* A record some other refresh stored since is not dropped.
leftover_records(offer, current, base) ==
    {r \in DOMAIN current \ DOMAIN offer :
        ~(r \in DOMAIN base.records
            /\ base.records[r].revision = current[r].revision)}

reconcile(offer, current, currentGeneration, base) ==
    LET selected == selected_records(offer, current, currentGeneration, base)
        leftover == leftover_records(offer, current, base)
    IN  [r \in selected \cup leftover |->
            IF r \in selected THEN newer_of(offer, current, r) ELSE current[r]]

next_catalog(p) == reconcile(offered(p), catalog, generation, loaded[p])

fetches_done(p) ==
    /\ pc[p] = "fetch"
    /\ \A r \in DOMAIN fetch[p] : fetch[p][r].phase \in {"ready", "failed"}

\* A missing or corrupt legacy file counts as an empty catalog; an envelope that
\* does not open, an exhausted generation or too many records fail the save.
save_accepted(p) ==
    /\ disk # "unreadable"
    /\ generation < MAX_GENERATION
    /\ Cardinality(DOMAIN next_catalog(p)) <= MAX_LIVE_RECORDS

\* save_refresh runs under the exclusive catalog lock, reads the catalog again
\* and replaces the file by an atomic rename.
Save(p) ==
    /\ fetches_done(p)
    /\ save_accepted(p)
    /\ catalog' = next_catalog(p)
    /\ disk' = "valid"
    /\ generation' = generation + 1
    /\ accepted' = [accepted EXCEPT ![p] = offered(p)]
    /\ pc' = [pc EXCEPT ![p] = "listing"]
    /\ highest' = [r \in Records |->
         IF r \in DOMAIN catalog' /\ catalog'[r].revision > highest[r]
         THEN catalog'[r].revision ELSE highest[r]]
    /\ storedAt' = [r \in Records |->
         IF r \in DOMAIN catalog' /\ ~(r \in DOMAIN catalog /\ catalog[r] = catalog'[r])
         THEN generation' ELSE storedAt[r]]
    /\ removedAt' = [r \in Records |->
         IF r \in DOMAIN catalog \ DOMAIN catalog' THEN generation' ELSE removedAt[r]]
    /\ undisturbed' = [q \in Refreshers |-> q = p /\ undisturbed[p]]
    /\ UNCHANGED <<storeVars, now, started, loaded, fetch, fetched, listedAt>>

SaveRefused(p) ==
    /\ fetches_done(p)
    /\ ~save_accepted(p)
    /\ finish(p)

\* The listing loads the catalog again, after the lock was released.
Listing(p) ==
    /\ pc[p] = "listing"
    /\ finish(p)

\* The index is unavailable, a file cannot be read or written, or the process
\* dies: the refresh ends and leaves no trace.
Abandon(p) ==
    /\ pc[p] # "idle"
    /\ finish(p)

Refresh(p) ==
    \/ Load(p) \/ ListRecords(p)
    \/ \E r \in Records : FetchUnavailable(p, r) \/ GetRecord(p, r) \/ RecheckIndex(p, r)
    \/ Save(p)
    \/ SaveRefused(p)
    \/ Listing(p)

Next ==
    \/ \E r \in Records, envelope \in Envelopes : Publish(r, envelope)
    \/ Tick
    \/ \E p \in Refreshers : Start(p) \/ Refresh(p) \/ Abandon(p)

Spec == Init /\ [][Next]_vars

\* Every HTTP request ends in an answer or a timeout and the catalog lock is
\* only held for one save, so a refresh that began keeps moving.
FairSpec == Spec /\ \A p \in Refreshers : WF_vars(Refresh(p))

----------------------------------------------------------------------------
(* Properties.                                                             *)

\* Every cached record is a row the worker really stored: the revision written
\* to the catalog is the revision of the very envelope that was opened, although
\* index and record are read at different times (refresh.rs accepts
\* fetched.revision, not indexed.revision).
CachedAsPublished ==
    Faithful => \A r \in DOMAIN catalog : catalog[r] \in history[r]

\* A cached record is at the highest revision the catalog ever held for it: no
\* interleaving of refreshes, not even one that drops the record in between,
\* brings an older revision back (revoked permission, old ticket).
NeverOlderThanBefore ==
    Faithful => \A r \in DOMAIN catalog : catalog[r].revision = highest[r]

\* When a refresh lists hosts, each record it had accepted itself is listed at
\* that revision or a newer one, although the catalog was unlocked between its
\* save and its listing.
ListsWhatItAccepted ==
    Faithful => \A p \in Refreshers : pc[p] = "listing" =>
        \A r \in DOMAIN catalog \cap DOMAIN accepted[p] :
            catalog[r].revision >= accepted[p][r].revision

\* A refresh that no publication, failed fetch or other save disturbs leaves
\* exactly the service's openable records in the catalog: whatever earlier races
\* left there or left out is repaired by one quiet refresh.
QuietRefreshConverges ==
    Faithful => \A p \in Refreshers : (pc[p] = "listing" /\ undisturbed[p]) =>
        catalog = [r \in {x \in DOMAIN store : opens_at(store[x], started[p])} |->
                      store[r]]

\* Only what opened with the account's key is ever cached: nothing unauthentic,
\* whatever the service answers and whoever saves it (refresh_unlocked_at, save_refresh).
OnlyAuthenticCached ==
    \A r \in DOMAIN catalog : catalog[r].envelope.authentic

\* While a record stays cached its revision never moves backwards, whatever the
\* service answers and however refreshes overlap.
CachedRevisionsOnlyGrow ==
    [][\A r \in DOMAIN catalog \cap DOMAIN catalog' :
          catalog'[r].revision >= catalog[r].revision]_vars

saves(p) == pc[p] = "fetch" /\ pc'[p] = "listing"

\* A record that comes back to the catalog was listed by the service after the
\* save that dropped it: an older index observation cannot resurrect it.
NoStaleResurrection ==
    [][\A p \in Refreshers : saves(p) =>
          \A r \in DOMAIN catalog' \ DOMAIN catalog :
              removedAt[r] <= listedAt[p]]_vars

\* A record another refresh stored after this one loaded the catalog survives
\* this one's save, even if this one never saw it or could not fetch it, unless it
\* has expired.  Refreshers disagree about that: one may drop a record as expired
\* and one that began earlier bring it back at the same revision, which a third
\* cannot tell from the row it loaded.
ConcurrentRecordsSurvive ==
    [][Faithful => \A p \in Refreshers : saves(p) =>
          \A r \in DOMAIN catalog :
              (/\ storedAt[r] > loaded[p].generation
               /\ ~is_expired_at(catalog[r], now))
              => r \in DOMAIN catalog']_vars

\* Requests of a reconciliation that were answered: a GET and an index listing
\* in every attempt before this one, and the GET of this one.
requests_answered(f) == 2 * f.attempt - (IF f.phase = "get" THEN 2 ELSE 1)

\* "Continuous publication costs at most three GETs and three rechecks"
\* (refresh.rs:315): every step of a reconciliation ends it or is one of its
\* 2 * MAX_RECORD_FETCH_ATTEMPTS requests.  The revisions of a run are bounded
\* and would end it too, which is why the count is a property of its own.
RequestsRunOut ==
    [][\A p \in Refreshers : (pc[p] = "fetch" /\ pc'[p] = "fetch") =>
          \A r \in DOMAIN fetch[p] :
              LET f == fetch[p][r]
                  next == fetch'[p][r]
              IN  \/ next = f
                  \/ f.phase \in {"get", "recheck"} /\ next.phase \in {"ready", "failed"}
                  \/ /\ requests_answered(f) < requests_answered(next)
                     /\ requests_answered(next) < 2 * MAX_RECORD_FETCH_ATTEMPTS]_vars

\* A refresh that began ends, whatever the service answers: the reconciliation
\* of a record sends a limited number of requests, and one that failed does not
\* hold up the others (refresh.rs, fetch_consistent_record, fetch_changed_records).
RefreshEnds ==
    /\ RequestsRunOut
    /\ \A p \in Refreshers : pc[p] # "idle" ~> pc[p] = "idle"

=============================================================================
