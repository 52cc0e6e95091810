-------------------------- MODULE CatalogRefresh_proofs --------------------------
(***************************************************************************)
(* Proofs about CatalogRefresh, for any number of records, refreshers,      *)
(* revisions and generations.                                              *)
(***************************************************************************)
EXTENDS CatalogRefresh, TLAPS

----------------------------------------------------------------------------
(* Tables.                                                                 *)

\* A function from record IDs to rows is a table.
LEMMA TableIntro ==
    ASSUME NEW D \in SUBSET Records, NEW f \in [D -> Row]
    PROVE  f \in Table
  BY DEF Table

\* A table is a function from some record IDs to rows.
LEMMA TableElim ==
    ASSUME NEW f \in Table
    PROVE  /\ DOMAIN f \in SUBSET Records
           /\ f \in [DOMAIN f -> Row]
  BY DEF Table

\* The empty table, which a refresh starts and ends with, is one.
LEMMA NoRowsTyped == /\ NoRows \in Table
                     /\ NoRows \in Fetches
                     /\ DOMAIN NoRows = {}
  <1>1. NoRows \in [{} -> Row] /\ NoRows \in [{} -> Fetch]
    BY DEF NoRows
  <1>2. {} \in SUBSET Records
    OBVIOUS
  <1> QED
    BY <1>1, <1>2, TableIntro DEF Fetches, NoRows

\* Reconciliations of a refresh form a function into Fetch.
LEMMA FetchesIntro ==
    ASSUME NEW D \in SUBSET Records, NEW f \in [D -> Fetch]
    PROVE  f \in Fetches
  BY DEF Fetches

\* The converse of FetchesIntro.
LEMMA FetchesElim ==
    ASSUME NEW f \in Fetches
    PROVE  /\ DOMAIN f \in SUBSET Records
           /\ f \in [DOMAIN f -> Fetch]
  BY DEF Fetches

----------------------------------------------------------------------------
(* What the service answers is well typed.                                 *)

\* An index lists some records at revisions in range, whoever answers.
LEMMA IndexTyped ==
    ASSUME TypeOK, NEW index \in IndexReplies
    PROVE  /\ DOMAIN index \in SUBSET Records
           /\ index \in [DOMAIN index -> Revision]
  <1>1. CASE Faithful
    <2>1. DOMAIN store \in SUBSET Records /\ store \in [DOMAIN store -> Row]
      BY TableElim DEF TypeOK, StoreTypeOK
    <2> QED
      BY <1>1, <2>1 DEF IndexReplies, load_index, Row
  <1>2. CASE ~Faithful
    BY <1>2 DEF IndexReplies
  <1> QED
    BY <1>1, <1>2

\* A record answer is a row, whoever answers.
LEMMA RecordTyped ==
    ASSUME TypeOK, NEW r \in Records, NEW row \in RecordReplies(r)
    PROVE  row \in Row
  <1>1. CASE Faithful
    <2>1. DOMAIN store \in SUBSET Records /\ store \in [DOMAIN store -> Row]
      BY TableElim DEF TypeOK, StoreTypeOK
    <2> QED
      BY <1>1, <2>1 DEF RecordReplies
  <1>2. CASE ~Faithful
    <2>1. PICK n \in Revision, old \in history[r] :
              row = [revision |-> n, envelope |-> old.envelope]
      BY <1>2 DEF RecordReplies
    <2>2. old \in Row
      BY DEF TypeOK, StoreTypeOK
    <2> QED
      BY <2>1, <2>2 DEF Row
  <1> QED
    BY <1>1, <1>2

\* What a GET makes of a reconciliation: the floor is kept, and a row is only
\* compared or offered when it is not below it.
LEMMA GotRecord ==
    ASSUME NEW f \in Fetch, NEW n \in Revision
    PROVE  /\ got_record(f, n) \in Fetch
           /\ got_record(f, n).indexed = f.indexed
           /\ got_record(f, n).phase \in {"recheck", "ready"} => n >= f.indexed
  <1>1. f.indexed \in Nat /\ n \in Nat
    BY DEF Fetch, Revision
  <1>2. CASE n < f.indexed
    BY <1>1, <1>2 DEF got_record, Fetch
  <1>3. CASE n = f.indexed
    BY <1>1, <1>3 DEF got_record, Fetch
  <1>4. CASE n > f.indexed
    BY <1>1, <1>4 DEF got_record, Fetch
  <1> QED
    BY <1>1, <1>2, <1>3, <1>4

\* What an index recheck makes of one: the floor never moves backwards, another
\* attempt starts only below the limit, and the floor is kept otherwise.
LEMMA Rechecked ==
    ASSUME NEW f \in Fetch, NEW got \in Revision, NEW n \in Revision,
           got >= f.indexed
    PROVE  /\ rechecked(f, got, n) \in Fetch
           /\ rechecked(f, got, n).indexed >= f.indexed
           /\ rechecked(f, got, n).phase \in {"recheck", "ready"} =>
                 rechecked(f, got, n).indexed = f.indexed
  <1>1. /\ f.indexed \in Nat /\ got \in Nat /\ n \in Nat
        /\ f.attempt \in 1 .. MAX_RECORD_FETCH_ATTEMPTS
    BY DEF Fetch, Revision
  <1>2. CASE n < got
    BY <1>1, <1>2 DEF rechecked, Fetch
  <1>3. CASE n = got
    BY <1>1, <1>3 DEF rechecked, Fetch
  <1>4. CASE n > got /\ f.attempt < MAX_RECORD_FETCH_ATTEMPTS
    BY <1>1, <1>4, RefreshAssumption DEF rechecked, Fetch
  <1>5. CASE n > got /\ ~(f.attempt < MAX_RECORD_FETCH_ATTEMPTS)
    BY <1>1, <1>5 DEF rechecked, Fetch
  <1> QED
    BY <1>1, <1>2, <1>3, <1>4, <1>5

----------------------------------------------------------------------------
(* Type correctness.                                                       *)

\* A row has been fetched for every reconciliation that compares or offers one,
\* and it is not below the revision floor.
FetchedPresent ==
    \A p \in Refreshers : \A r \in DOMAIN fetch[p] :
        fetch[p][r].phase \in {"recheck", "ready"} =>
            /\ r \in DOMAIN fetched[p]
            /\ fetched[p][r].revision >= fetch[p][r].indexed

TypeInv == TypeOK /\ FetchedPresent

\* What a refresh offers is a table.
LEMMA OfferedTyped ==
    ASSUME TypeInv, NEW p \in Refreshers
    PROVE  offered(p) \in Table
  <1> DEFINE opened == {r \in DOMAIN fetch[p] : /\ fetch[p][r].phase = "ready"
                                                /\ opens_at(fetched[p][r], started[p])}
  <1>1. accepted[p] \in Table /\ fetched[p] \in Table /\ fetch[p] \in Fetches
    BY DEF TypeInv, TypeOK
  <1>2. /\ DOMAIN accepted[p] \in SUBSET Records
        /\ accepted[p] \in [DOMAIN accepted[p] -> Row]
        /\ fetched[p] \in [DOMAIN fetched[p] -> Row]
        /\ DOMAIN fetch[p] \in SUBSET Records
    BY <1>1, TableElim, FetchesElim
  <1>3. \A r \in opened : r \in DOMAIN fetched[p]
    BY DEF TypeInv, FetchedPresent
  <1>4. DOMAIN accepted[p] \cup opened \in SUBSET Records
    BY <1>2
  <1>5. offered(p) \in [DOMAIN accepted[p] \cup opened -> Row]
    BY <1>2, <1>3 DEF offered
  <1> QED
    BY <1>4, <1>5, TableIntro

\* What save_refresh writes is a table.
LEMMA NextCatalogTyped ==
    ASSUME TypeInv, NEW p \in Refreshers
    PROVE  next_catalog(p) \in Table
  <1> DEFINE offer == offered(p)
             selected == selected_records(offer, catalog, generation, loaded[p])
             leftover == leftover_records(offer, catalog, loaded[p])
  <1>1. /\ DOMAIN offer \in SUBSET Records /\ offer \in [DOMAIN offer -> Row]
        /\ DOMAIN catalog \in SUBSET Records /\ catalog \in [DOMAIN catalog -> Row]
    BY OfferedTyped, TableElim DEF TypeInv, TypeOK
  <1>2. selected \subseteq DOMAIN offer /\ leftover \subseteq DOMAIN catalog
    BY DEF selected_records, leftover_records
  <1>3. \A r \in selected : newer_of(offer, catalog, r) \in Row
    BY <1>1, <1>2 DEF newer_of
  <1> HIDE DEF offer, selected, leftover
  <1>4. [r \in selected \cup leftover |->
            IF r \in selected THEN newer_of(offer, catalog, r) ELSE catalog[r]]
          \in [selected \cup leftover -> Row]
    BY <1>1, <1>2, <1>3
  <1>5. selected \cup leftover \in SUBSET Records
    BY <1>1, <1>2
  <1>6. next_catalog(p) = [r \in selected \cup leftover |->
            IF r \in selected THEN newer_of(offer, catalog, r) ELSE catalog[r]]
    BY DEF next_catalog, reconcile, offer, selected, leftover
  <1> QED
    BY <1>4, <1>5, <1>6, TableIntro

\* The empty account and the empty catalog are well typed.
LEMMA InitTypeInv == Init => TypeInv
  <1> SUFFICES ASSUME Init PROVE TypeInv
    OBVIOUS
  <1> USE RecordStoreAssumption, RefreshAssumption
  <1>1. StoreTypeOK
    BY NoRowsTyped DEF Init, StoreInit, StoreTypeOK
  <1>2. 0 \in Time /\ 0 \in Generation /\ 0 \in 0 .. MAX_REVISION
    BY DEF Time, Generation
  <1>3. TypeOK
    BY <1>1, <1>2, NoRowsTyped DEF Init, TypeOK
  <1>4. FetchedPresent
    BY NoRowsTyped DEF Init, FetchedPresent
  <1> QED
    BY <1>3, <1>4 DEF TypeInv

\* Returning from a refresh keeps the types.
LEMMA FinishTypeInv ==
    ASSUME TypeInv, NEW p \in Refreshers, finish(p)
    PROVE  TypeInv'
  <1> USE RecordStoreAssumption, RefreshAssumption
  <1>1. 0 \in Time /\ 0 \in Generation
    BY DEF Time, Generation
  <1>2. [generation |-> 0, records |-> NoRows] \in [generation : Generation, records : Table]
    BY <1>1, NoRowsTyped
  <1>3. StoreTypeOK'
    BY DEF TypeInv, TypeOK, finish, StoreTypeOK, storeVars
  <1>4. TypeOK'
    BY <1>1, <1>2, <1>3, NoRowsTyped
    DEF TypeInv, TypeOK, finish, storeVars, diskVars, cacheAuxVars
  <1>5. FetchedPresent'
    BY NoRowsTyped DEF TypeInv, TypeOK, FetchedPresent, finish
  <1> QED
    BY <1>4, <1>5 DEF TypeInv

\* Every step keeps the types.
LEMMA NextTypeInv == TypeInv /\ [Next]_vars => TypeInv'
  <1> SUFFICES ASSUME TypeInv, [Next]_vars PROVE TypeInv'
    OBVIOUS
  <1> USE RecordStoreAssumption, RefreshAssumption
  <1>1. ASSUME NEW r \in Records, NEW envelope \in Envelopes, Publish(r, envelope)
        PROVE  TypeInv'
    <2> DEFINE row == [revision |-> next_revision(r), envelope |-> envelope]
    <2>1. DOMAIN store \in SUBSET Records /\ store \in [DOMAIN store -> Row]
      BY TableElim DEF TypeInv, TypeOK, StoreTypeOK
    <2>2. row \in Row
      BY <1>1, <2>1 DEF Publish, put_record, put_accepted, next_revision, Row, Revision
    <2>3. store' \in [DOMAIN store \cup {r} -> Row]
      BY <1>1, <2>1, <2>2 DEF Publish, put_record
    <2>4. DOMAIN store \cup {r} \in SUBSET Records
      BY <2>1
    <2>5. store' \in Table
      BY <2>3, <2>4, TableIntro
    <2>6. history' \in [Records -> SUBSET Row]
      BY <1>1, <2>2 DEF Publish, put_record, TypeInv, TypeOK, StoreTypeOK
    <2>7. TypeOK'
      BY <1>1, <2>5, <2>6
      DEF Publish, TypeInv, TypeOK, StoreTypeOK, diskVars, refreshVars, cacheAuxVars
    <2>8. FetchedPresent'
      BY <1>1 DEF Publish, TypeInv, FetchedPresent, refreshVars
    <2> QED
      BY <2>7, <2>8 DEF TypeInv
  <1>2. CASE Tick
    <2>1. now \in Time /\ now < MAX_TIME /\ now' = now + 1
      BY <1>2 DEF Tick, TypeInv, TypeOK
    <2>2. now' \in Time
      BY <2>1 DEF Time
    <2>3. TypeOK'
      BY <1>2, <2>2 DEF Tick, TypeInv, TypeOK, StoreTypeOK, storeVars, diskVars,
                        refreshVars, auxVars
    <2>4. FetchedPresent'
      BY <1>2 DEF Tick, TypeInv, FetchedPresent, refreshVars
    <2> QED
      BY <2>3, <2>4 DEF TypeInv
  <1>11. ASSUME NEW p \in Refreshers, Start(p) PROVE TypeInv'
    <2>1. TypeOK'
      BY <1>11 DEF Start, TypeInv, TypeOK, StoreTypeOK, storeVars, diskVars, auxVars
    <2>2. FetchedPresent'
      BY <1>11 DEF Start, TypeInv, FetchedPresent
    <2> QED
      BY <2>1, <2>2 DEF TypeInv
  <1>3. ASSUME NEW p \in Refreshers, Load(p) PROVE TypeInv'
    <2>1. [generation |-> 0, records |-> NoRows] \in [generation : Generation, records : Table]
      BY NoRowsTyped DEF Generation
    <2>2. TypeOK'
      BY <1>3, <2>1 DEF Load, TypeInv, TypeOK, StoreTypeOK, storeVars, diskVars,
                        cacheAuxVars
    <2>3. FetchedPresent'
      BY <1>3 DEF Load, TypeInv, FetchedPresent
    <2> QED
      BY <2>2, <2>3 DEF TypeInv
  <1>4. ASSUME NEW p \in Refreshers, ListRecords(p) PROVE TypeInv'
    <2> DEFINE cached == loaded[p].records
    <2>1. DOMAIN cached \in SUBSET Records /\ cached \in [DOMAIN cached -> Row]
      BY TableElim DEF TypeInv, TypeOK
    <2>2. PICK index \in IndexReplies :
            LET same == unchanged_records(index, cached)
            IN /\ accepted' = [accepted EXCEPT ![p] =
                    [r \in {x \in same : ~is_expired_at(cached[x], started[p])} |->
                         cached[r]]]
               /\ fetch' = [fetch EXCEPT ![p] =
                    [r \in DOMAIN index \ same |->
                         [phase |-> "get", attempt |-> 1, indexed |-> index[r]]]]
      BY <1>4 DEF ListRecords
    <2> DEFINE same == unchanged_records(index, cached)
               kept == {x \in same : ~is_expired_at(cached[x], started[p])}
    <2>3. DOMAIN index \in SUBSET Records /\ index \in [DOMAIN index -> Revision]
      BY IndexTyped DEF TypeInv
    <2>4. same \subseteq DOMAIN cached
      BY DEF unchanged_records
    <2>5. [r \in kept |-> cached[r]] \in Table
      <3>1. kept \in SUBSET Records
        BY <2>1, <2>4
      <3>2. [r \in kept |-> cached[r]] \in [kept -> Row]
        BY <2>1, <2>4
      <3> QED
        BY <3>1, <3>2, TableIntro
    <2>6. [r \in DOMAIN index \ same |->
             [phase |-> "get", attempt |-> 1, indexed |-> index[r]]] \in Fetches
      <3>1. DOMAIN index \ same \in SUBSET Records
        BY <2>3
      <3>2. [r \in DOMAIN index \ same |->
               [phase |-> "get", attempt |-> 1, indexed |-> index[r]]]
              \in [DOMAIN index \ same -> Fetch]
        BY <2>3 DEF Fetch
      <3> QED
        BY <3>1, <3>2, FetchesIntro
    <2>7. TypeOK'
      BY <1>4, <2>2, <2>5, <2>6
      DEF ListRecords, TypeInv, TypeOK, StoreTypeOK, storeVars, diskVars, cacheAuxVars
    <2>8. FetchedPresent'
      BY <1>4, <2>2 DEF ListRecords, TypeInv, TypeOK, FetchedPresent
    <2> QED
      BY <2>7, <2>8 DEF TypeInv
  <1>5. ASSUME NEW p \in Refreshers, NEW r \in Records, FetchUnavailable(p, r)
        PROVE  TypeInv'
    <2>1. DOMAIN fetch[p] \in SUBSET Records /\ fetch[p] \in [DOMAIN fetch[p] -> Fetch]
      BY FetchesElim DEF TypeInv, TypeOK
    <2>2. r \in DOMAIN fetch[p]
      BY <1>5 DEF FetchUnavailable, fetching
    <2>3. [fetch[p] EXCEPT ![r].phase = "failed"] \in Fetches
      BY <2>1, <2>2, FetchesIntro DEF Fetch
    <2>4. fetch' = [fetch EXCEPT ![p] = [fetch[p] EXCEPT ![r].phase = "failed"]]
      BY <1>5 DEF FetchUnavailable
    <2>6. undisturbed' \in [Refreshers -> BOOLEAN]
      BY <1>5 DEF FetchUnavailable, TypeInv, TypeOK
    <2>7. TypeOK'
      <3>1. fetch' \in [Refreshers -> Fetches]
        BY <2>3, <2>4 DEF TypeInv, TypeOK
      <3>2. UNCHANGED <<store, history, now, disk, catalog, generation, pc, started,
                        loaded, accepted, fetched, highest, storedAt, removedAt,
                        listedAt>>
        BY <1>5 DEF FetchUnavailable, storeVars, diskVars, cacheAuxVars
      <3> QED
        BY <2>6, <3>1, <3>2 DEF TypeInv, TypeOK, StoreTypeOK
    <2>8. FetchedPresent'
      <3>1. fetch \in [Refreshers -> Fetches] /\ fetched' = fetched
        BY <1>5 DEF FetchUnavailable, TypeInv, TypeOK
      <3> QED
        BY <2>1, <2>2, <2>4, <3>1 DEF TypeInv, FetchedPresent, Fetch
    <2> QED
      BY <2>7, <2>8 DEF TypeInv
  <1>6. ASSUME NEW p \in Refreshers, NEW r \in Records, GetRecord(p, r)
        PROVE  TypeInv'
    <2>1. PICK row \in RecordReplies(r) :
            /\ fetch' = [fetch EXCEPT ![p][r] = got_record(@, row.revision)]
            /\ fetched' = [fetched EXCEPT ![p] =
                   [x \in DOMAIN @ \cup {r} |-> IF x = r THEN row ELSE @[x]]]
      BY <1>6 DEF GetRecord
    <2>2. row \in Row
      BY RecordTyped DEF TypeInv
    <2>3. /\ DOMAIN fetch[p] \in SUBSET Records /\ fetch[p] \in [DOMAIN fetch[p] -> Fetch]
          /\ DOMAIN fetched[p] \in SUBSET Records
          /\ fetched[p] \in [DOMAIN fetched[p] -> Row]
      BY FetchesElim, TableElim DEF TypeInv, TypeOK
    <2>4. r \in DOMAIN fetch[p]
      BY <1>6 DEF GetRecord, fetching
    <2> DEFINE f == got_record(fetch[p][r], row.revision)
               table == [x \in DOMAIN fetched[p] \cup {r} |->
                            IF x = r THEN row ELSE fetched[p][x]]
    <2>5. /\ f \in Fetch /\ f.indexed = fetch[p][r].indexed
          /\ f.phase \in {"recheck", "ready"} => row.revision >= f.indexed
      BY <2>2, <2>3, <2>4, GotRecord DEF Row
    <2> HIDE DEF f
    <2>6. fetch' = [fetch EXCEPT ![p] = [fetch[p] EXCEPT ![r] = f]]
      BY <2>1 DEF f
    <2>7. [fetch[p] EXCEPT ![r] = f] \in Fetches
      BY <2>3, <2>5, FetchesIntro
    <2>8. table \in Table
      <3>1. DOMAIN fetched[p] \cup {r} \in SUBSET Records
        BY <2>3
      <3>2. table \in [DOMAIN fetched[p] \cup {r} -> Row]
        BY <2>2, <2>3
      <3> QED
        BY <3>1, <3>2, TableIntro
    <2>9. fetched' = [fetched EXCEPT ![p] = table]
      BY <2>1
    <2>11. TypeOK'
      BY <1>6, <2>6, <2>7, <2>8, <2>9
      DEF GetRecord, TypeInv, TypeOK, StoreTypeOK, storeVars, diskVars, cacheAuxVars
    <2>12. FetchedPresent'
      BY <2>3, <2>4, <2>5, <2>6, <2>9 DEF TypeInv, TypeOK, FetchedPresent
    <2> QED
      BY <2>11, <2>12 DEF TypeInv
  <1>7. ASSUME NEW p \in Refreshers, NEW r \in Records, RecheckIndex(p, r)
        PROVE  TypeInv'
    <2>1. PICK index \in IndexReplies :
            /\ r \in DOMAIN index
            /\ fetch' = [fetch EXCEPT ![p][r] =
                           rechecked(@, fetched[p][r].revision, index[r])]
      BY <1>7 DEF RecheckIndex
    <2>2. index[r] \in Revision
      BY <2>1, IndexTyped DEF TypeInv
    <2>3. /\ DOMAIN fetch[p] \in SUBSET Records /\ fetch[p] \in [DOMAIN fetch[p] -> Fetch]
          /\ fetched[p] \in [DOMAIN fetched[p] -> Row]
      BY FetchesElim, TableElim DEF TypeInv, TypeOK
    <2>4. r \in DOMAIN fetch[p] /\ fetch[p][r].phase = "recheck"
      BY <1>7 DEF RecheckIndex, fetching
    <2>5. /\ r \in DOMAIN fetched[p]
          /\ fetched[p][r].revision >= fetch[p][r].indexed
          /\ fetched[p][r].revision \in Revision
      BY <2>3, <2>4 DEF TypeInv, FetchedPresent, Row
    <2> DEFINE f == rechecked(fetch[p][r], fetched[p][r].revision, index[r])
    <2>6. /\ f \in Fetch
          /\ f.phase \in {"recheck", "ready"} => f.indexed = fetch[p][r].indexed
      BY <2>2, <2>3, <2>4, <2>5, Rechecked
    <2> HIDE DEF f
    <2>7. fetch' = [fetch EXCEPT ![p] = [fetch[p] EXCEPT ![r] = f]]
      BY <2>1 DEF f
    <2>8. [fetch[p] EXCEPT ![r] = f] \in Fetches
      BY <2>3, <2>6, FetchesIntro
    <2>10. TypeOK'
      BY <1>7, <2>7, <2>8
      DEF RecheckIndex, TypeInv, TypeOK, StoreTypeOK, storeVars, diskVars, cacheAuxVars
    <2>11. FetchedPresent'
      BY <1>7, <2>3, <2>4, <2>5, <2>6, <2>7, ZenonT(30)
      DEF RecheckIndex, TypeInv, TypeOK, FetchedPresent
    <2> QED
      BY <2>10, <2>11 DEF TypeInv
  <1>8. ASSUME NEW p \in Refreshers, Save(p) PROVE TypeInv'
    <2>1. catalog' \in Table /\ catalog' = next_catalog(p)
      BY <1>8, NextCatalogTyped DEF Save
    <2>2. DOMAIN catalog' \in SUBSET Records /\ catalog' \in [DOMAIN catalog' -> Row]
      BY <2>1, TableElim
    <2>3. accepted' \in [Refreshers -> Table]
      BY <1>8, OfferedTyped DEF Save, TypeInv, TypeOK
    <2>4. generation' \in Generation
      <3>1. generation \in Generation /\ generation < MAX_GENERATION
        BY <1>8 DEF Save, save_accepted, TypeInv, TypeOK
      <3>2. generation' = generation + 1
        BY <1>8 DEF Save
      <3> QED
        BY <3>1, <3>2 DEF Generation
    <2>5. highest' \in [Records -> 0 .. MAX_REVISION]
      <3>1. highest \in [Records -> 0 .. MAX_REVISION]
        BY DEF TypeInv, TypeOK
      <3>2. highest' = [r \in Records |->
              IF r \in DOMAIN catalog' /\ catalog'[r].revision > highest[r]
              THEN catalog'[r].revision ELSE highest[r]]
        BY <1>8 DEF Save
      <3>3. \A r \in DOMAIN catalog' : catalog'[r].revision \in 0 .. MAX_REVISION
        BY <2>2 DEF Row, Revision
      <3> QED
        BY <3>1, <3>2, <3>3
    <2>6. /\ storedAt' \in [Records -> Generation]
          /\ removedAt' \in [Records -> Generation]
      BY <1>8, <2>4 DEF Save, TypeInv, TypeOK
    <2>7. undisturbed' \in [Refreshers -> BOOLEAN]
      BY <1>8 DEF Save
    <2>8. TypeOK'
      BY <1>8, <2>1, <2>3, <2>4, <2>5, <2>6, <2>7
      DEF Save, TypeInv, TypeOK, StoreTypeOK, storeVars
    <2>9. FetchedPresent'
      BY <1>8 DEF Save, TypeInv, FetchedPresent
    <2> QED
      BY <2>8, <2>9 DEF TypeInv
  <1>9. ASSUME NEW p \in Refreshers, SaveRefused(p) \/ Listing(p) \/ Abandon(p)
        PROVE  TypeInv'
    BY <1>9, FinishTypeInv DEF SaveRefused, Listing, Abandon
  <1>10. CASE UNCHANGED vars
    BY <1>10 DEF vars, TypeInv, TypeOK, StoreTypeOK, FetchedPresent
  <1> QED
    BY <1>1, <1>2, <1>3, <1>4, <1>5, <1>6, <1>7, <1>8, <1>9, <1>10, <1>11
    DEF Next, Refresh

\* TypeOK is an invariant: in particular revisions and generations stay in range
\* (checked_add in save_refresh, the overflow check of put), attempts stay within
\* MAX_RECORD_FETCH_ATTEMPTS, and what is read from a fetched row is there.
THEOREM TypeCorrect == Spec => []TypeOK
  <1>1. TypeInv => TypeOK
    BY DEF TypeInv
  <1> QED
    BY <1>1, InitTypeInv, NextTypeInv, PTL DEF Spec

----------------------------------------------------------------------------
(* The requests of a reconciliation.                                       *)

\* One step of a reconciliation: it ends, or it is one more of its requests.
StepOrEnd(f, next) ==
    \/ next = f
    \/ f.phase \in {"get", "recheck"} /\ next.phase \in {"ready", "failed"}
    \/ /\ requests_answered(f) < requests_answered(next)
       /\ requests_answered(next) < 2 * MAX_RECORD_FETCH_ATTEMPTS

\* A GET answer is one.
LEMMA GetIsARequest ==
    ASSUME NEW f \in Fetch, f.phase = "get", NEW n \in Revision
    PROVE  StepOrEnd(f, got_record(f, n))
  <1>1. /\ f.indexed \in Nat /\ n \in Nat /\ f.attempt \in 1 .. MAX_RECORD_FETCH_ATTEMPTS
        /\ MAX_RECORD_FETCH_ATTEMPTS \in Nat
    BY RefreshAssumption DEF Fetch, Revision
  <1>2. CASE n < f.indexed
    <2>1. got_record(f, n).phase = "failed"
      BY <1>1, <1>2 DEF got_record, Fetch
    <2> QED
      BY <2>1 DEF StepOrEnd
  <1>3. CASE n = f.indexed
    <2>1. got_record(f, n).phase = "ready"
      BY <1>1, <1>3 DEF got_record, Fetch
    <2> QED
      BY <2>1 DEF StepOrEnd
  <1>4. CASE n > f.indexed
    <2>1. got_record(f, n).phase = "recheck" /\ got_record(f, n).attempt = f.attempt
      BY <1>1, <1>4 DEF got_record, Fetch
    <2>2. /\ requests_answered(f) = 2 * f.attempt - 2
          /\ requests_answered(got_record(f, n)) = 2 * f.attempt - 1
      BY <2>1 DEF requests_answered
    <2> QED
      BY <1>1, <2>2 DEF StepOrEnd
  <1> QED
    BY <1>1, <1>2, <1>3, <1>4

\* And so is a second look at the index.
LEMMA RecheckIsARequest ==
    ASSUME NEW f \in Fetch, f.phase = "recheck", NEW got \in Revision, NEW n \in Revision
    PROVE  StepOrEnd(f, rechecked(f, got, n))
  <1>1. /\ got \in Nat /\ n \in Nat /\ f.attempt \in 1 .. MAX_RECORD_FETCH_ATTEMPTS
        /\ MAX_RECORD_FETCH_ATTEMPTS \in Nat
    BY RefreshAssumption DEF Fetch, Revision
  <1>2. CASE n > got /\ f.attempt < MAX_RECORD_FETCH_ATTEMPTS
    <2>1. /\ rechecked(f, got, n).phase = "get"
          /\ rechecked(f, got, n).attempt = f.attempt + 1
      BY <1>1, <1>2 DEF rechecked
    <2>2. /\ requests_answered(f) = 2 * f.attempt - 1
          /\ requests_answered(rechecked(f, got, n)) = 2 * (f.attempt + 1) - 2
      BY <2>1 DEF requests_answered
    <2> QED
      BY <1>1, <1>2, <2>2 DEF StepOrEnd
  <1>3. CASE ~(n > got /\ f.attempt < MAX_RECORD_FETCH_ATTEMPTS)
    <2>1. rechecked(f, got, n).phase \in {"ready", "failed"}
      BY <1>1, <1>3 DEF rechecked, Fetch
    <2> QED
      BY <2>1 DEF StepOrEnd
  <1> QED
    BY <1>2, <1>3

\* A step that replaces one reconciliation by such a successor is such a step for
\* every reconciliation of every refresh.
LEMMA OneRequest ==
    ASSUME TypeInv, NEW p \in Refreshers, NEW r \in DOMAIN fetch[p], NEW f,
           fetch' = [fetch EXCEPT ![p][r] = f], StepOrEnd(fetch[p][r], f),
           NEW q \in Refreshers, NEW x \in DOMAIN fetch[q]
    PROVE  StepOrEnd(fetch[q][x], fetch'[q][x])
  <1>1. fetch \in [Refreshers -> Fetches]
    BY DEF TypeInv, TypeOK
  <1>2. fetch[p] \in [DOMAIN fetch[p] -> Fetch]
    BY <1>1, FetchesElim
  <1>3. CASE q = p /\ x = r
    BY <1>1, <1>2, <1>3
  <1>4. CASE ~(q = p /\ x = r)
    <2>1. fetch'[q][x] = fetch[q][x]
      BY <1>1, <1>2, <1>4
    <2> QED
      BY <2>1 DEF StepOrEnd
  <1> QED
    BY <1>3, <1>4

\* Whatever happens, a refresh that stays in its fetches takes such steps only.
LEMMA FetchStepsAreRequests ==
    ASSUME TypeInv, [Next]_vars, NEW q \in Refreshers,
           pc[q] = "fetch", pc'[q] = "fetch", NEW x \in DOMAIN fetch[q]
    PROVE  StepOrEnd(fetch[q][x], fetch'[q][x])
  <1> DEFINE kept == fetch'[q] = fetch[q]
  <1>0. /\ TypeOK /\ pc \in [Refreshers -> {"idle", "load", "list", "fetch", "listing"}]
        /\ fetch \in [Refreshers -> Fetches] /\ fetched \in [Refreshers -> Table]
    BY DEF TypeInv, TypeOK
  <1>1. ASSUME kept PROVE StepOrEnd(fetch[q][x], fetch'[q][x])
    BY <1>1 DEF StepOrEnd
  <1>2. CASE Tick \/ UNCHANGED vars \/ \E r \in Records, envelope \in Envelopes : Publish(r, envelope)
    BY <1>1, <1>2 DEF Tick, vars, Publish, refreshVars
  <1>3. ASSUME NEW p \in Refreshers, Start(p) \/ Load(p) \/ Save(p)
        PROVE  kept
    BY <1>3 DEF Start, Load, Save
  <1>4. ASSUME NEW p \in Refreshers, ListRecords(p) PROVE kept
    <2>1. p # q
      BY <1>4 DEF ListRecords
    <2>2. \E g : fetch' = [fetch EXCEPT ![p] = g]
      BY <1>4 DEF ListRecords
    <2> QED
      BY <1>0, <2>1, <2>2
  <1>5. ASSUME NEW p \in Refreshers, SaveRefused(p) \/ Listing(p) \/ Abandon(p) PROVE kept
    <2>1. finish(p)
      BY <1>5 DEF SaveRefused, Listing, Abandon
    <2>2. p # q
      BY <1>0, <2>1 DEF finish
    <2> QED
      BY <1>0, <2>1, <2>2 DEF finish
  <1>6. ASSUME NEW p \in Refreshers, NEW r \in Records, FetchUnavailable(p, r)
        PROVE  StepOrEnd(fetch[q][x], fetch'[q][x])
    <2> DEFINE f == [fetch[p][r] EXCEPT !.phase = "failed"]
    <2>1. /\ fetch' = [fetch EXCEPT ![p][r] = f] /\ r \in DOMAIN fetch[p]
          /\ fetch[p][r].phase \in {"get", "recheck"}
      BY <1>6 DEF FetchUnavailable, fetching
    <2>2. fetch[p][r] \in Fetch
      BY <1>0, <2>1, FetchesElim
    <2>3. f.phase = "failed"
      BY <2>2 DEF Fetch
    <2>4. StepOrEnd(fetch[p][r], f)
      BY <2>1, <2>3 DEF StepOrEnd
    <2> QED
      BY <2>1, <2>4, OneRequest
  <1>7. ASSUME NEW p \in Refreshers, NEW r \in Records, GetRecord(p, r)
        PROVE  StepOrEnd(fetch[q][x], fetch'[q][x])
    <2>1. PICK row \in RecordReplies(r) :
            fetch' = [fetch EXCEPT ![p][r] = got_record(fetch[p][r], row.revision)]
      BY <1>7 DEF GetRecord
    <2>2. row.revision \in Revision
      BY <1>0, RecordTyped DEF Row
    <2>3. r \in DOMAIN fetch[p] /\ fetch[p][r].phase = "get"
      BY <1>7 DEF GetRecord, fetching
    <2>4. fetch[p][r] \in Fetch
      BY <1>0, <2>3, FetchesElim
    <2>5. StepOrEnd(fetch[p][r], got_record(fetch[p][r], row.revision))
      BY <2>2, <2>3, <2>4, GetIsARequest
    <2> QED
      BY <2>1, <2>3, <2>5, OneRequest
  <1>8. ASSUME NEW p \in Refreshers, NEW r \in Records, RecheckIndex(p, r)
        PROVE  StepOrEnd(fetch[q][x], fetch'[q][x])
    <2>1. PICK index \in IndexReplies :
            /\ r \in DOMAIN index
            /\ fetch' = [fetch EXCEPT ![p][r] =
                           rechecked(fetch[p][r], fetched[p][r].revision, index[r])]
      BY <1>8 DEF RecheckIndex
    <2>2. index[r] \in Revision
      BY <1>0, <2>1, IndexTyped
    <2>3. r \in DOMAIN fetch[p] /\ fetch[p][r].phase = "recheck"
      BY <1>8 DEF RecheckIndex, fetching
    <2>4. fetch[p][r] \in Fetch
      BY <1>0, <2>3, FetchesElim
    <2>5. fetched[p] \in [DOMAIN fetched[p] -> Row] /\ r \in DOMAIN fetched[p]
      BY <1>0, <2>3, TableElim DEF TypeInv, FetchedPresent
    <2>6. fetched[p][r].revision \in Revision
      BY <2>5 DEF Row
    <2>7. StepOrEnd(fetch[p][r], rechecked(fetch[p][r], fetched[p][r].revision, index[r]))
      BY <2>2, <2>3, <2>4, <2>6, RecheckIsARequest
    <2> QED
      BY <2>1, <2>3, <2>7, OneRequest
  <1> QED
    BY <1>1, <1>2, <1>3, <1>4, <1>5, <1>6, <1>7, <1>8 DEF Next, Refresh

\* A reconciliation sends at most 2 * MAX_RECORD_FETCH_ATTEMPTS requests, however
\* long publishers go on and whatever the service answers (refresh.rs,
\* fetch_consistent_record): each of its steps ends it or is one of them.
THEOREM RequestsAreLimited == Spec => RequestsRunOut
  <1>1. TypeInv /\ [Next]_vars =>
            [\A p \in Refreshers : (pc[p] = "fetch" /\ pc'[p] = "fetch") =>
                \A r \in DOMAIN fetch[p] :
                    LET f == fetch[p][r]
                        next == fetch'[p][r]
                    IN  \/ next = f
                        \/ f.phase \in {"get", "recheck"} /\ next.phase \in {"ready", "failed"}
                        \/ /\ requests_answered(f) < requests_answered(next)
                           /\ requests_answered(next) < 2 * MAX_RECORD_FETCH_ATTEMPTS]_vars
    <2> SUFFICES ASSUME TypeInv, [Next]_vars, NEW p \in Refreshers,
                        pc[p] = "fetch", pc'[p] = "fetch", NEW r \in DOMAIN fetch[p]
                 PROVE  StepOrEnd(fetch[p][r], fetch'[p][r])
      BY DEF StepOrEnd
    <2> QED
      BY FetchStepsAreRequests
  <1> QED
    BY <1>1, InitTypeInv, NextTypeInv, PTL DEF Spec, RequestsRunOut

----------------------------------------------------------------------------
(* The inductive invariant.                                                *)

\* Generations only move up: what a refresh loaded is not newer than the file,
\* what it listed is not older than what it loaded, and removals are in the past.
GenerationsOrdered ==
    /\ \A p \in Refreshers :
          /\ loaded[p].generation <= generation
          /\ pc[p] = "fetch" => loaded[p].generation <= listedAt[p]
    /\ \A r \in Records : removedAt[r] <= generation

\* The generation identifies the catalog: a refresh that loaded the current
\* generation holds the current catalog as its baseline, and what it accepted
\* from the cache comes from there.
BaselineCurrent ==
    /\ disk # "valid" => catalog = NoRows /\ generation = 0
    /\ \A p \in Refreshers :
          /\ pc[p] \in {"list", "fetch"} /\ loaded[p].generation = generation =>
                loaded[p].records = catalog
          /\ pc[p] = "fetch" => DOMAIN accepted[p] \subseteq DOMAIN loaded[p].records

\* Every row anywhere was stored by the service.
RowsPublished ==
    /\ \A r \in DOMAIN store : store[r] \in history[r]
    /\ \A r \in DOMAIN catalog : catalog[r] \in history[r]
    /\ \A p \in Refreshers :
          /\ \A r \in DOMAIN loaded[p].records : loaded[p].records[r] \in history[r]
          /\ \A r \in DOMAIN accepted[p] : accepted[p][r] \in history[r]
          /\ \A r \in DOMAIN fetched[p] : fetched[p][r] \in history[r]

\* The service never goes back: its row is the last of the record's history.
StoreIsLatest ==
    \A r \in Records : \A row \in history[r] :
        r \in DOMAIN store /\ row.revision <= store[r].revision

\* The service is at least as new as anything ever cached, and so is the floor of
\* a refresh that no save has overtaken.
FloorsHold ==
    /\ \A r \in Records : highest[r] > 0 =>
          r \in DOMAIN store /\ highest[r] <= store[r].revision
    /\ \A p \in Refreshers :
          pc[p] = "fetch" /\ loaded[p].generation = generation =>
              \A r \in DOMAIN fetch[p] : highest[r] <= fetch[p][r].indexed

\* What holds when the worker of this repository answers.
FaithfulInv ==
    Faithful => /\ RowsPublished
                /\ StoreIsLatest
                /\ FloorsHold
                /\ NeverOlderThanBefore

----------------------------------------------------------------------------
(* The reconciliation of save_refresh, record by record.                   *)

\* An offered record comes from the cache or from a fetched row.
LEMMA OfferedFrom ==
    ASSUME TypeInv, NEW p \in Refreshers, NEW r \in DOMAIN offered(p)
    PROVE  \/ r \in DOMAIN accepted[p] /\ offered(p)[r] = accepted[p][r]
           \/ /\ r \in DOMAIN fetch[p] /\ r \in DOMAIN fetched[p]
              /\ fetched[p][r].revision >= fetch[p][r].indexed
              /\ offered(p)[r] = fetched[p][r]
  <1> DEFINE opened == {x \in DOMAIN fetch[p] : /\ fetch[p][x].phase = "ready"
                                                /\ opens_at(fetched[p][x], started[p])}
  <1>1. offered(p) = [x \in DOMAIN accepted[p] \cup opened |->
                        IF x \in opened THEN fetched[p][x] ELSE accepted[p][x]]
    BY DEF offered
  <1>2. r \in DOMAIN accepted[p] \cup opened
    BY <1>1
  <1>3. CASE r \in opened
    BY <1>1, <1>2, <1>3 DEF TypeInv, FetchedPresent
  <1>4. CASE r \notin opened
    BY <1>1, <1>2, <1>4
  <1> QED
    BY <1>3, <1>4

\* A saved record is what was there, the newer of that and the offer, or, when no
\* other save intervened, a new offer.
LEMMA SavedFrom ==
    ASSUME NEW p \in Refreshers, NEW r \in DOMAIN next_catalog(p)
    PROVE  \/ /\ r \in DOMAIN catalog
              /\ next_catalog(p)[r] = catalog[r]
              /\ r \in DOMAIN offered(p) =>
                    catalog[r].revision > offered(p)[r].revision
           \/ /\ r \in DOMAIN catalog /\ r \in DOMAIN offered(p)
              /\ ~(catalog[r].revision > offered(p)[r].revision)
              /\ next_catalog(p)[r] = offered(p)[r]
           \/ /\ r \notin DOMAIN catalog /\ r \in DOMAIN offered(p)
              /\ generation = loaded[p].generation
              /\ next_catalog(p)[r] = offered(p)[r]
  <1> DEFINE offer == offered(p)
             selected == selected_records(offer, catalog, generation, loaded[p])
             leftover == leftover_records(offer, catalog, loaded[p])
  <1>1. next_catalog(p) = [x \in selected \cup leftover |->
            IF x \in selected THEN newer_of(offer, catalog, x) ELSE catalog[x]]
    BY DEF next_catalog, reconcile
  <1>2. r \in selected \cup leftover
    BY <1>1
  <1>3. CASE r \in selected
    BY <1>1, <1>2, <1>3 DEF selected_records, newer_of
  <1>4. CASE r \notin selected
    <2>1. r \in DOMAIN catalog \ DOMAIN offer
      BY <1>2, <1>4 DEF leftover_records
    <2> QED
      BY <1>1, <1>2, <1>4, <2>1
  <1> QED
    BY <1>3, <1>4

\* Only a save writes the catalog file.
LEMMA OnlySaveWrites ==
    ASSUME [Next]_vars
    PROVE  \/ UNCHANGED diskVars
           \/ \E p \in Refreshers : Save(p)
  <1>1. ASSUME NEW r \in Records, NEW envelope \in Envelopes, Publish(r, envelope)
        PROVE  UNCHANGED diskVars
    BY <1>1 DEF Publish
  <1>2. CASE Tick
    BY <1>2 DEF Tick
  <1>3. ASSUME NEW p \in Refreshers, Start(p) \/ Load(p) \/ ListRecords(p)
        PROVE  UNCHANGED diskVars
    BY <1>3 DEF Start, Load, ListRecords
  <1>4. ASSUME NEW p \in Refreshers, NEW r \in Records,
               FetchUnavailable(p, r) \/ GetRecord(p, r) \/ RecheckIndex(p, r)
        PROVE  UNCHANGED diskVars
    BY <1>4 DEF FetchUnavailable, GetRecord, RecheckIndex
  <1>5. ASSUME NEW p \in Refreshers, SaveRefused(p) \/ Listing(p) \/ Abandon(p)
        PROVE  UNCHANGED diskVars
    BY <1>5 DEF SaveRefused, Listing, Abandon, finish
  <1>6. CASE UNCHANGED vars
    BY <1>6 DEF vars, diskVars
  <1> QED
    BY <1>1, <1>2, <1>3, <1>4, <1>5, <1>6 DEF Next, Refresh

\* A saved record that was cached is not older than it was.
LEMMA SaveKeepsRevisions ==
    ASSUME TypeInv, NEW p \in Refreshers, Save(p),
           NEW r \in DOMAIN catalog \cap DOMAIN catalog'
    PROVE  catalog'[r].revision >= catalog[r].revision
  <1>1. catalog' = next_catalog(p)
    BY DEF Save
  <1>2. offered(p) \in [DOMAIN offered(p) -> Row] /\ catalog \in [DOMAIN catalog -> Row]
    BY OfferedTyped, TableElim DEF TypeInv, TypeOK
  <1>3. catalog[r].revision \in Nat
    BY <1>2 DEF Row, Revision
  <1>4. r \in DOMAIN offered(p) => offered(p)[r].revision \in Nat
    BY <1>2 DEF Row, Revision
  <1> QED
    BY <1>1, <1>3, <1>4, SavedFrom

\* While a record stays cached its revision never moves backwards: save_refresh
\* takes the newer of the current and the offered record, whatever the service
\* answered and however refreshes overlap.
THEOREM RevisionsOnlyGrow == Spec => CachedRevisionsOnlyGrow
  <1> DEFINE Grow == \A r \in DOMAIN catalog \cap DOMAIN catalog' :
                        catalog'[r].revision >= catalog[r].revision
  <1>1. TypeInv /\ [Next]_vars => [Grow]_vars
    <2> SUFFICES ASSUME TypeInv, [Next]_vars PROVE Grow
      OBVIOUS
    <2>1. CASE UNCHANGED diskVars
      <3>1. catalog' = catalog /\ catalog \in [DOMAIN catalog -> Row]
        BY <2>1, TableElim DEF diskVars, TypeInv, TypeOK
      <3>2. \A r \in DOMAIN catalog : catalog[r].revision \in Nat
        BY <3>1 DEF Row, Revision
      <3> QED
        BY <3>1, <3>2
    <2>2. CASE \E p \in Refreshers : Save(p)
      BY <2>2, SaveKeepsRevisions
    <2> QED
      BY <2>1, <2>2, OnlySaveWrites
  <1> QED
    BY <1>1, InitTypeInv, NextTypeInv, PTL DEF Spec, CachedRevisionsOnlyGrow

----------------------------------------------------------------------------
(* Generations.                                                            *)

GenerationInv == TypeInv /\ GenerationsOrdered /\ BaselineCurrent

\* Generations are natural numbers.
LEMMA GenerationNat == Generation \subseteq Nat
  BY DEF Generation

\* Initially every generation is 0 and every catalog empty.
LEMMA InitGenerationInv == Init => GenerationInv
  <1> SUFFICES ASSUME Init PROVE GenerationInv
    OBVIOUS
  <1>1. TypeInv
    BY InitTypeInv
  <1>2. GenerationsOrdered
    <2>1. /\ generation = 0
          /\ \A p \in Refreshers : loaded[p].generation = 0 /\ pc[p] = "idle"
          /\ \A r \in Records : removedAt[r] = 0
      BY DEF Init
    <2> QED
      BY <2>1 DEF GenerationsOrdered
  <1>3. BaselineCurrent
    BY DEF Init, BaselineCurrent
  <1> QED
    BY <1>1, <1>2, <1>3 DEF GenerationInv

\* A refresh that returns keeps the order of generations.
LEMMA FinishGenerationInv ==
    ASSUME GenerationInv, NEW p \in Refreshers, finish(p)
    PROVE  GenerationInv'
  <1>1. TypeInv'
    BY FinishTypeInv DEF GenerationInv
  <1>2. /\ pc' = [pc EXCEPT ![p] = "idle"]
        /\ loaded' = [loaded EXCEPT ![p] = [generation |-> 0, records |-> NoRows]]
        /\ listedAt' = [listedAt EXCEPT ![p] = 0]
        /\ accepted' = [accepted EXCEPT ![p] = NoRows]
        /\ UNCHANGED <<disk, catalog, generation, removedAt>>
    BY DEF finish, diskVars, cacheAuxVars
  <1>3. /\ pc \in [Refreshers -> {"idle", "load", "list", "fetch", "listing"}]
        /\ loaded \in [Refreshers -> [generation : Generation, records : Table]]
        /\ listedAt \in [Refreshers -> Generation] /\ accepted \in [Refreshers -> Table]
        /\ generation \in Nat
    BY GenerationNat DEF GenerationInv, TypeInv, TypeOK
  <1>4. GenerationsOrdered'
    BY <1>2, <1>3 DEF GenerationInv, GenerationsOrdered
  <1>5. BaselineCurrent'
    BY <1>2, <1>3 DEF GenerationInv, BaselineCurrent
  <1> QED
    BY <1>1, <1>4, <1>5 DEF GenerationInv

\* Every step keeps it.
LEMMA NextGenerationInv == GenerationInv /\ [Next]_vars => GenerationInv'
  <1> SUFFICES ASSUME GenerationInv, [Next]_vars PROVE GenerationInv'
    OBVIOUS
  <1> USE RecordStoreAssumption, RefreshAssumption
  <1>1. TypeInv /\ TypeInv' /\ GenerationsOrdered /\ BaselineCurrent
    BY NextTypeInv DEF GenerationInv
  <1>2. /\ pc \in [Refreshers -> {"idle", "load", "list", "fetch", "listing"}]
        /\ loaded \in [Refreshers -> [generation : Generation, records : Table]]
        /\ listedAt \in [Refreshers -> Generation] /\ accepted \in [Refreshers -> Table]
        /\ generation \in Nat /\ Generation \subseteq Nat
        /\ removedAt \in [Records -> Generation]
    BY <1>1, GenerationNat DEF TypeInv, TypeOK
  <1>3. ASSUME UNCHANGED <<disk, catalog, generation, pc, loaded, accepted, removedAt,
                           listedAt>>
        PROVE  GenerationInv'
    BY <1>1, <1>3 DEF GenerationInv, GenerationsOrdered, BaselineCurrent
  <1>4. ASSUME NEW r \in Records, NEW envelope \in Envelopes, Publish(r, envelope)
        PROVE  GenerationInv'
    BY <1>3, <1>4 DEF Publish, diskVars, refreshVars, cacheAuxVars
  <1>5. CASE Tick
    BY <1>3, <1>5 DEF Tick, diskVars, refreshVars, auxVars
  <1>12. ASSUME NEW p \in Refreshers, Start(p) PROVE GenerationInv'
    <2>1. /\ pc' = [pc EXCEPT ![p] = "load"]
          /\ UNCHANGED <<disk, catalog, generation, loaded, accepted, removedAt, listedAt>>
      BY <1>12 DEF Start, diskVars, auxVars
    <2>2. GenerationsOrdered'
      BY <1>1, <1>2, <2>1 DEF GenerationsOrdered
    <2>3. BaselineCurrent'
      BY <1>1, <1>2, <2>1 DEF BaselineCurrent
    <2> QED
      BY <1>1, <2>2, <2>3 DEF GenerationInv
  <1>6. ASSUME NEW p \in Refreshers, Load(p) PROVE GenerationInv'
    <2>1. /\ pc' = [pc EXCEPT ![p] = "list"]
          /\ loaded' = [loaded EXCEPT ![p] =
                IF disk = "valid" THEN [generation |-> generation, records |-> catalog]
                ELSE [generation |-> 0, records |-> NoRows]]
          /\ UNCHANGED <<disk, catalog, generation, accepted, removedAt, listedAt>>
      BY <1>6 DEF Load, diskVars, cacheAuxVars
    <2>2. GenerationsOrdered'
      BY <1>1, <1>2, <2>1 DEF GenerationsOrdered
    <2>3. BaselineCurrent'
      BY <1>1, <1>2, <2>1 DEF BaselineCurrent
    <2> QED
      BY <1>1, <2>2, <2>3 DEF GenerationInv
  <1>7. ASSUME NEW p \in Refreshers, ListRecords(p) PROVE GenerationInv'
    <2>1. /\ pc[p] = "list" /\ pc' = [pc EXCEPT ![p] = "fetch"]
          /\ listedAt' = [listedAt EXCEPT ![p] = generation]
          /\ UNCHANGED <<disk, catalog, generation, loaded, removedAt>>
      BY <1>7 DEF ListRecords, diskVars, cacheAuxVars
    <2>2. /\ DOMAIN accepted'[p] \subseteq DOMAIN loaded[p].records
          /\ \A q \in Refreshers : q # p => accepted'[q] = accepted[q]
      BY <1>2, <1>7 DEF ListRecords, unchanged_records
    <2>3. GenerationsOrdered'
      BY <1>1, <1>2, <2>1 DEF GenerationsOrdered
    <2>4. BaselineCurrent'
      BY <1>1, <1>2, <2>1, <2>2 DEF BaselineCurrent
    <2> QED
      BY <1>1, <2>3, <2>4 DEF GenerationInv
  <1>8. ASSUME NEW p \in Refreshers, NEW r \in Records,
               FetchUnavailable(p, r) \/ GetRecord(p, r) \/ RecheckIndex(p, r)
        PROVE  GenerationInv'
    BY <1>3, <1>8 DEF FetchUnavailable, GetRecord, RecheckIndex, diskVars, cacheAuxVars
  <1>9. ASSUME NEW p \in Refreshers, Save(p) PROVE GenerationInv'
    <2>1. /\ pc' = [pc EXCEPT ![p] = "listing"]
          /\ generation' = generation + 1 /\ disk' = "valid"
          /\ UNCHANGED <<loaded, listedAt>>
          /\ accepted' = [accepted EXCEPT ![p] = offered(p)]
          /\ \A r \in Records : removedAt'[r] \in {generation', removedAt[r]}
      BY <1>9 DEF Save
    <2>2. GenerationsOrdered'
      <3>1. /\ \A q \in Refreshers : loaded[q].generation \in Nat
            /\ \A r \in Records : removedAt[r] \in Nat
        BY <1>2
      <3>2. ASSUME NEW q \in Refreshers
            PROVE  /\ loaded'[q].generation <= generation'
                   /\ pc'[q] = "fetch" => loaded'[q].generation <= listedAt'[q]
        BY <1>1, <1>2, <2>1, <3>1 DEF GenerationsOrdered
      <3>3. ASSUME NEW r \in Records
            PROVE  removedAt'[r] <= generation'
        <4>1. removedAt[r] <= generation
          BY <1>1 DEF GenerationsOrdered
        <4> QED
          BY <1>2, <2>1, <3>1, <4>1
      <3> QED
        BY <3>2, <3>3 DEF GenerationsOrdered
    <2>3. \A q \in Refreshers : loaded'[q].generation # generation'
      BY <1>1, <1>2, <2>1 DEF GenerationsOrdered
    <2>4. BaselineCurrent'
      BY <1>1, <1>2, <2>1, <2>3 DEF BaselineCurrent
    <2> QED
      BY <1>1, <2>2, <2>4 DEF GenerationInv
  <1>10. ASSUME NEW p \in Refreshers, SaveRefused(p) \/ Listing(p) \/ Abandon(p)
        PROVE  GenerationInv'
    BY <1>10, FinishGenerationInv DEF SaveRefused, Listing, Abandon
  <1>11. CASE UNCHANGED vars
    BY <1>3, <1>11 DEF vars
  <1> QED
    BY <1>4, <1>5, <1>6, <1>7, <1>8, <1>9, <1>10, <1>11, <1>12 DEF Next, Refresh

\* A record that comes back to the catalog was listed by the service after the
\* save that dropped it: the generation check of save_refresh keeps an older index
\* observation from resurrecting it.
THEOREM NoResurrection == Spec => NoStaleResurrection
  <1> DEFINE Fresh == \A p \in Refreshers : saves(p) =>
                         \A r \in DOMAIN catalog' \ DOMAIN catalog :
                             removedAt[r] <= listedAt[p]
  <1>1. GenerationInv /\ [Next]_vars => [Fresh]_vars
    <2> SUFFICES ASSUME GenerationInv, [Next]_vars,
                        NEW p \in Refreshers, saves(p),
                        NEW r \in DOMAIN catalog' \ DOMAIN catalog
                 PROVE  removedAt[r] <= listedAt[p]
      OBVIOUS
    <2>1. TypeOK /\ GenerationsOrdered
      BY DEF GenerationInv, TypeInv
    <2>2. ~UNCHANGED diskVars
      BY DEF diskVars
    <2>3. PICK q \in Refreshers : Save(q)
      BY <2>2, OnlySaveWrites
    <2>4. q = p
      BY <2>1, <2>3 DEF Save, fetches_done, saves, TypeOK
    <2>5. generation = loaded[p].generation
      BY <2>3, <2>4, SavedFrom DEF Save
    <2>6. catalog' \in Table
      BY <2>3, NextCatalogTyped DEF Save, GenerationInv
    <2>7. r \in Records
      BY <2>6, TableElim
    <2>8. generation \in Nat /\ removedAt[r] \in Nat /\ listedAt[p] \in Nat
      BY <2>1, <2>7, GenerationNat DEF TypeOK
    <2> QED
      BY <2>1, <2>5, <2>7, <2>8 DEF GenerationsOrdered, saves
  <1> QED
    BY <1>1, InitGenerationInv, NextGenerationInv, PTL DEF Spec, NoStaleResurrection

----------------------------------------------------------------------------
(* The catalog follows the service.                                        *)

IInv == GenerationInv /\ FaithfulInv

\* Nothing is stored, cached or fetched initially.
LEMMA InitIInv == Init => IInv
  <1> SUFFICES ASSUME Init PROVE IInv
    OBVIOUS
  <1>1. /\ DOMAIN store = {} /\ DOMAIN catalog = {}
        /\ \A r \in Records : history[r] = {} /\ highest[r] = 0
        /\ \A p \in Refreshers : /\ pc[p] = "idle"
                                 /\ DOMAIN loaded[p].records = {}
                                 /\ DOMAIN accepted[p] = {} /\ DOMAIN fetched[p] = {}
    BY NoRowsTyped DEF Init, StoreInit
  <1>2. RowsPublished
    BY <1>1 DEF RowsPublished
  <1>3. StoreIsLatest
    BY <1>1 DEF StoreIsLatest
  <1>4. FloorsHold
    BY <1>1 DEF FloorsHold
  <1>5. NeverOlderThanBefore
    BY <1>1 DEF NeverOlderThanBefore
  <1> QED
    BY <1>2, <1>3, <1>4, <1>5, InitGenerationInv DEF IInv, FaithfulInv

\* Revisions are natural numbers.
LEMMA RevisionsNat ==
    ASSUME TypeOK
    PROVE  /\ \A r \in DOMAIN store : r \in Records /\ store[r].revision \in Revision
           /\ \A r \in DOMAIN catalog : r \in Records /\ catalog[r].revision \in Revision
           /\ \A r \in Records : highest[r] \in Nat
           /\ Revision \subseteq Nat
           /\ \A r \in Records : \A row \in history[r] : row.revision \in Revision
  <1>1. /\ DOMAIN store \in SUBSET Records /\ store \in [DOMAIN store -> Row]
        /\ DOMAIN catalog \in SUBSET Records /\ catalog \in [DOMAIN catalog -> Row]
    BY TableElim DEF TypeOK, StoreTypeOK
  <1>2. /\ \A r \in DOMAIN store : r \in Records /\ store[r].revision \in Revision
        /\ \A r \in DOMAIN catalog : r \in Records /\ catalog[r].revision \in Revision
    BY <1>1 DEF Row
  <1>3. \A r \in Records : highest[r] \in Nat
    <2>1. highest \in [Records -> 0 .. MAX_REVISION]
      BY DEF TypeOK
    <2>2. 0 .. MAX_REVISION \subseteq Nat
      OBVIOUS
    <2> QED
      BY <2>1, <2>2
  <1>4. Revision \subseteq Nat
    BY DEF Revision
  <1>5. \A r \in Records : \A row \in history[r] : row.revision \in Revision
    <2>1. history \in [Records -> SUBSET Row]
      BY DEF TypeOK, StoreTypeOK
    <2> QED
      BY <2>1 DEF Row
  <1> QED
    BY <1>2, <1>3, <1>4, <1>5

\* A PUT moves the service forward and touches nothing else.
LEMMA PublishFaithful ==
    ASSUME IInv, Faithful, NEW r \in Records, NEW envelope \in Envelopes,
           Publish(r, envelope)
    PROVE  FaithfulInv'
  <1> DEFINE row == [revision |-> next_revision(r), envelope |-> envelope]
  <1>1. TypeOK /\ RowsPublished /\ StoreIsLatest /\ FloorsHold /\ NeverOlderThanBefore
    BY DEF IInv, GenerationInv, TypeInv, FaithfulInv
  <1>2. /\ store' = [x \in DOMAIN store \cup {r} |-> IF x = r THEN row ELSE store[x]]
        /\ history' = [history EXCEPT ![r] = @ \cup {row}]
        /\ history \in [Records -> SUBSET Row]
    BY <1>1 DEF Publish, put_record, TypeOK, StoreTypeOK
  <1>3. UNCHANGED <<catalog, generation, pc, loaded, accepted, fetch, fetched, highest>>
    BY DEF Publish, diskVars, refreshVars, cacheAuxVars
  <1>4. /\ DOMAIN store' = DOMAIN store \cup {r}
        /\ store'[r] = row
        /\ \A x \in DOMAIN store : x # r => store'[x] = store[x]
        /\ \A x \in Records : history[x] \subseteq history'[x]
        /\ \A x \in Records : x # r => history'[x] = history[x]
        /\ history'[r] = history[r] \cup {row}
    BY <1>2
  <1>5. /\ r \in DOMAIN store => row.revision = store[r].revision + 1
        /\ r \notin DOMAIN store => row.revision = 1
    BY DEF next_revision
  <1> HIDE DEF row
  <1>6. RowsPublished'
    <2>1. /\ DOMAIN store \subseteq Records /\ DOMAIN catalog \subseteq Records
          /\ \A p \in Refreshers : /\ DOMAIN loaded[p].records \subseteq Records
                                   /\ DOMAIN accepted[p] \subseteq Records
                                   /\ DOMAIN fetched[p] \subseteq Records
      BY <1>1, TableElim DEF TypeOK, StoreTypeOK
    <2> QED
      BY <1>1, <1>3, <1>4, <2>1 DEF RowsPublished
  <1>7. StoreIsLatest'
    <2> SUFFICES ASSUME NEW x \in Records, NEW old \in history'[x]
                 PROVE  x \in DOMAIN store' /\ old.revision <= store'[x].revision
      BY DEF StoreIsLatest
    <2>1. CASE x # r
      BY <1>1, <1>4, <2>1 DEF StoreIsLatest
    <2>2. CASE x = r /\ old = row
      <3>1. row.revision \in Nat
        BY <1>1, <1>5, RevisionsNat
      <3> QED
        BY <1>4, <2>2, <3>1
    <2>3. CASE x = r /\ old \in history[r]
      <3>1. /\ r \in DOMAIN store /\ old.revision <= store[r].revision
            /\ old.revision \in Nat /\ store[r].revision \in Nat
        BY <1>1, <2>3, RevisionsNat DEF StoreIsLatest
      <3> QED
        BY <1>4, <1>5, <2>3, <3>1
    <2> QED
      BY <1>4, <2>1, <2>2, <2>3
  <1>8. FloorsHold'
    <2>1. ASSUME NEW x \in Records, highest[x] > 0
          PROVE  x \in DOMAIN store' /\ highest[x] <= store'[x].revision
      <3>1. /\ x \in DOMAIN store /\ highest[x] <= store[x].revision
            /\ highest[x] \in Nat /\ store[x].revision \in Nat
        BY <1>1, <2>1, RevisionsNat DEF FloorsHold
      <3> QED
        BY <1>4, <1>5, <3>1
    <2> QED
      BY <1>1, <1>3, <2>1 DEF FloorsHold
  <1>9. NeverOlderThanBefore'
    BY <1>1, <1>3 DEF NeverOlderThanBefore
  <1> QED
    BY <1>6, <1>7, <1>8, <1>9 DEF FaithfulInv

\* A save writes rows the service stored, none older than the catalog ever held.
LEMMA SaveFaithful ==
    ASSUME IInv, Faithful, NEW p \in Refreshers, Save(p)
    PROVE  FaithfulInv'
  <1>1. /\ TypeInv /\ TypeOK /\ GenerationsOrdered /\ BaselineCurrent
        /\ RowsPublished /\ StoreIsLatest /\ FloorsHold /\ NeverOlderThanBefore
    BY DEF IInv, GenerationInv, TypeInv, FaithfulInv
  <1>2. /\ pc[p] = "fetch" /\ pc' = [pc EXCEPT ![p] = "listing"]
        /\ catalog' = next_catalog(p) /\ generation' = generation + 1
        /\ accepted' = [accepted EXCEPT ![p] = offered(p)]
        /\ highest' = [r \in Records |->
              IF r \in DOMAIN catalog' /\ catalog'[r].revision > highest[r]
              THEN catalog'[r].revision ELSE highest[r]]
        /\ UNCHANGED <<store, history, loaded, fetch, fetched>>
    BY DEF Save, fetches_done, storeVars
  <1>3. \A r \in DOMAIN offered(p) : offered(p)[r] \in history[r]
    BY <1>1, OfferedFrom DEF RowsPublished
  <1>4. \A r \in DOMAIN catalog' : catalog'[r] \in history[r]
    BY <1>1, <1>2, <1>3, SavedFrom DEF RowsPublished
  <1>5. DOMAIN catalog' \subseteq Records
    BY <1>1, <1>2, NextCatalogTyped, TableElim
  <1>6. DOMAIN offered(p) \subseteq Records
    BY <1>1, OfferedTyped, TableElim
  <1>7. RowsPublished'
    <2>1. accepted \in [Refreshers -> Table]
      BY <1>1 DEF TypeOK
    <2> QED
      BY <1>1, <1>2, <1>3, <1>4, <2>1 DEF RowsPublished
  <1>8. StoreIsLatest'
    BY <1>1, <1>2 DEF StoreIsLatest
  <1>9. FloorsHold'
    <2>1. ASSUME NEW r \in Records, highest'[r] > 0
          PROVE  r \in DOMAIN store /\ highest'[r] <= store[r].revision
      <3>1. CASE r \in DOMAIN catalog' /\ highest'[r] = catalog'[r].revision
        BY <1>1, <1>4, <3>1 DEF StoreIsLatest
      <3>2. CASE highest'[r] = highest[r]
        BY <1>1, <2>1, <3>2 DEF FloorsHold
      <3> QED
        BY <1>2, <3>1, <3>2
    <2>2. \A q \in Refreshers : loaded'[q].generation # generation'
      <3>1. \A q \in Refreshers : /\ loaded[q].generation \in Nat
                                  /\ loaded[q].generation <= generation
        BY <1>1, GenerationNat DEF GenerationsOrdered, TypeOK
      <3>2. generation \in Nat
        BY <1>1, GenerationNat DEF TypeOK
      <3> QED
        BY <1>2, <3>1, <3>2
    <2> QED
      BY <1>2, <2>1, <2>2 DEF FloorsHold
  <1>10. NeverOlderThanBefore'
    <2> SUFFICES ASSUME NEW r \in DOMAIN catalog'
                 PROVE  catalog'[r].revision = highest'[r]
      BY DEF NeverOlderThanBefore
    <2>1. r \in Records /\ highest[r] \in Nat /\ catalog'[r].revision \in Nat
      BY <1>1, <1>4, <1>5, RevisionsNat
    <2>2. SUFFICES catalog'[r].revision >= highest[r]
      BY <1>2, <2>1
    <2>3. CASE r \in DOMAIN catalog
      <3>1. catalog'[r].revision >= catalog[r].revision
        BY <1>1, <2>3, SaveKeepsRevisions
      <3>2. catalog[r].revision = highest[r]
        BY <1>1, <2>3 DEF NeverOlderThanBefore
      <3> QED
        BY <3>1, <3>2
    <2>4. CASE r \notin DOMAIN catalog
      <3>1. /\ generation = loaded[p].generation /\ r \in DOMAIN offered(p)
            /\ catalog'[r] = offered(p)[r]
        BY <1>2, <2>4, SavedFrom
      <3>2. r \notin DOMAIN accepted[p]
        BY <1>1, <1>2, <2>4, <3>1 DEF BaselineCurrent
      <3>3. /\ r \in DOMAIN fetch[p]
            /\ catalog'[r].revision >= fetch[p][r].indexed
        BY <1>1, <3>1, <3>2, OfferedFrom
      <3>4. highest[r] <= fetch[p][r].indexed
        BY <1>1, <1>2, <3>1, <3>3 DEF FloorsHold
      <3>5. fetch[p][r].indexed \in Nat
        <4>1. fetch[p] \in [DOMAIN fetch[p] -> Fetch]
          BY <1>1, FetchesElim DEF TypeOK
        <4> QED
          BY <1>1, <3>3, <4>1, RevisionsNat DEF Fetch
      <3> QED
        BY <2>1, <3>3, <3>4, <3>5
    <2> QED
      BY <2>3, <2>4
  <1> QED
    BY <1>7, <1>8, <1>9, <1>10 DEF FaithfulInv

\* Every step keeps the whole invariant.
LEMMA NextIInv == IInv /\ [Next]_vars => IInv'
  <1> SUFFICES ASSUME IInv, [Next]_vars PROVE IInv'
    OBVIOUS
  <1>1. GenerationInv'
    BY NextGenerationInv DEF IInv
  <1> SUFFICES ASSUME Faithful PROVE FaithfulInv'
    BY <1>1 DEF IInv, FaithfulInv
  <1>2. /\ TypeInv /\ TypeOK /\ TypeInv'
        /\ RowsPublished /\ StoreIsLatest /\ FloorsHold /\ NeverOlderThanBefore
    BY <1>1 DEF IInv, GenerationInv, TypeInv, FaithfulInv
  <1>3. /\ pc \in [Refreshers -> {"idle", "load", "list", "fetch", "listing"}]
        /\ loaded \in [Refreshers -> [generation : Generation, records : Table]]
        /\ accepted \in [Refreshers -> Table] /\ fetched \in [Refreshers -> Table]
        /\ fetch \in [Refreshers -> Fetches]
    BY <1>2 DEF TypeOK
  <1>4. ASSUME UNCHANGED <<store, history, catalog, highest>>, RowsPublished', FloorsHold'
        PROVE  FaithfulInv'
    BY <1>2, <1>4 DEF FaithfulInv, StoreIsLatest, NeverOlderThanBefore
  <1>5. ASSUME UNCHANGED <<store, history, catalog, generation, highest, pc, loaded,
                           accepted, fetch, fetched>>
        PROVE  FaithfulInv'
    BY <1>2, <1>4, <1>5 DEF RowsPublished, FloorsHold
  <1>6. CASE Tick
    BY <1>5, <1>6 DEF Tick, storeVars, diskVars, refreshVars, auxVars
  <1>14. ASSUME NEW p \in Refreshers, Start(p) PROVE FaithfulInv'
    <2>1. /\ pc' = [pc EXCEPT ![p] = "load"]
          /\ UNCHANGED <<store, history, catalog, generation, highest, loaded, accepted,
                         fetch, fetched>>
      BY <1>14 DEF Start, storeVars, diskVars, auxVars
    <2>2. RowsPublished'
      BY <1>2, <2>1 DEF RowsPublished
    <2>3. FloorsHold'
      BY <1>2, <1>3, <2>1 DEF FloorsHold
    <2> QED
      BY <1>4, <2>1, <2>2, <2>3
  <1>7. ASSUME NEW p \in Refreshers, Load(p) PROVE FaithfulInv'
    <2>1. /\ pc' = [pc EXCEPT ![p] = "list"]
          /\ loaded' = [loaded EXCEPT ![p] =
                IF disk = "valid" THEN [generation |-> generation, records |-> catalog]
                ELSE [generation |-> 0, records |-> NoRows]]
          /\ UNCHANGED <<store, history, catalog, generation, highest, accepted, fetch,
                         fetched>>
      BY <1>7 DEF Load, storeVars, diskVars, cacheAuxVars
    <2>2. RowsPublished'
      BY <1>2, <1>3, <2>1, NoRowsTyped DEF RowsPublished
    <2>3. FloorsHold'
      BY <1>2, <1>3, <2>1 DEF FloorsHold
    <2> QED
      BY <1>4, <2>1, <2>2, <2>3
  <1>8. ASSUME NEW p \in Refreshers, ListRecords(p) PROVE FaithfulInv'
    <2> DEFINE cached == loaded[p].records
               same == unchanged_records(load_index, cached)
               kept == {x \in same : ~is_expired_at(cached[x], started[p])}
    <2>1. /\ accepted' = [accepted EXCEPT ![p] = [r \in kept |-> cached[r]]]
          /\ fetch' = [fetch EXCEPT ![p] =
                [r \in DOMAIN load_index \ same |->
                    [phase |-> "get", attempt |-> 1, indexed |-> load_index[r]]]]
          /\ pc' = [pc EXCEPT ![p] = "fetch"]
          /\ UNCHANGED <<store, history, catalog, generation, highest, loaded, fetched>>
      BY <1>8 DEF ListRecords, IndexReplies, storeVars, diskVars, cacheAuxVars
    <2>2. kept \subseteq DOMAIN cached
      BY DEF unchanged_records
    <2>3. RowsPublished'
      BY <1>2, <1>3, <2>1, <2>2 DEF RowsPublished
    <2>4. FloorsHold'
      <3>1. ASSUME NEW r \in DOMAIN load_index \ same
            PROVE  highest[r] <= load_index[r]
        <4>1. r \in DOMAIN store /\ load_index[r] = store[r].revision
          BY DEF load_index
        <4>2. r \in Records /\ store[r].revision \in Nat /\ highest[r] \in Nat
          BY <1>2, <4>1, RevisionsNat
        <4>3. CASE highest[r] > 0
          BY <1>2, <4>1, <4>2, <4>3 DEF FloorsHold
        <4>4. CASE ~(highest[r] > 0)
          BY <4>1, <4>2, <4>4
        <4> QED
          BY <4>3, <4>4
      <3> QED
        BY <1>2, <1>3, <2>1, <3>1 DEF FloorsHold
    <2> QED
      BY <1>4, <2>1, <2>3, <2>4
  <1>9. ASSUME NEW p \in Refreshers, NEW r \in Records, FetchUnavailable(p, r)
        PROVE  FaithfulInv'
    <2>1. /\ r \in DOMAIN fetch[p]
          /\ fetch' = [fetch EXCEPT ![p] = [fetch[p] EXCEPT ![r].phase = "failed"]]
          /\ UNCHANGED <<store, history, catalog, generation, highest, pc, loaded,
                         accepted, fetched>>
      BY <1>9 DEF FetchUnavailable, fetching, storeVars, diskVars, cacheAuxVars
    <2>2. RowsPublished'
      BY <1>2, <2>1 DEF RowsPublished
    <2>3. FloorsHold'
      <3>1. \A q \in Refreshers : /\ DOMAIN fetch'[q] = DOMAIN fetch[q]
                                  /\ \A x \in DOMAIN fetch[q] :
                                        fetch'[q][x].indexed = fetch[q][x].indexed
        <4>1. fetch[p] \in [DOMAIN fetch[p] -> Fetch]
          BY <1>3, FetchesElim
        <4> QED
          BY <1>3, <2>1, <4>1 DEF Fetch
      <3> QED
        BY <1>2, <2>1, <3>1 DEF FloorsHold
    <2> QED
      BY <1>4, <2>1, <2>2, <2>3
  <1>10. ASSUME NEW p \in Refreshers, NEW r \in Records, GetRecord(p, r)
         PROVE  FaithfulInv'
    <2>1. PICK row \in RecordReplies(r) :
            /\ fetch' = [fetch EXCEPT ![p][r] = got_record(@, row.revision)]
            /\ fetched' = [fetched EXCEPT ![p] =
                   [x \in DOMAIN @ \cup {r} |-> IF x = r THEN row ELSE @[x]]]
      BY <1>10 DEF GetRecord
    <2>2. /\ r \in DOMAIN fetch[p]
          /\ UNCHANGED <<store, history, catalog, generation, highest, pc, loaded,
                         accepted>>
      BY <1>10 DEF GetRecord, fetching, storeVars, diskVars, cacheAuxVars
    <2>3. row \in history[r] /\ row.revision \in Revision
      <3>1. r \in DOMAIN store /\ row = store[r]
        BY DEF RecordReplies
      <3> QED
        BY <1>2, <3>1, RevisionsNat DEF RowsPublished
    <2>4. RowsPublished'
      BY <1>2, <1>3, <2>1, <2>2, <2>3 DEF RowsPublished
    <2>5. FloorsHold'
      <3>1. fetch[p] \in [DOMAIN fetch[p] -> Fetch]
        BY <1>3, FetchesElim
      <3>2. got_record(fetch[p][r], row.revision).indexed = fetch[p][r].indexed
        BY <2>2, <2>3, <3>1, GotRecord
      <3>3. \A q \in Refreshers : /\ DOMAIN fetch'[q] = DOMAIN fetch[q]
                                  /\ \A x \in DOMAIN fetch[q] :
                                        fetch'[q][x].indexed = fetch[q][x].indexed
        BY <1>3, <2>1, <2>2, <3>1, <3>2
      <3> QED
        BY <1>2, <2>2, <3>3 DEF FloorsHold
    <2> QED
      BY <1>4, <2>2, <2>4, <2>5
  <1>11. ASSUME NEW p \in Refreshers, NEW r \in Records, RecheckIndex(p, r)
         PROVE  FaithfulInv'
    <2>1. PICK index \in IndexReplies :
            /\ r \in DOMAIN index
            /\ fetch' = [fetch EXCEPT ![p][r] =
                           rechecked(@, fetched[p][r].revision, index[r])]
      BY <1>11 DEF RecheckIndex
    <2>2. /\ r \in DOMAIN fetch[p] /\ fetch[p][r].phase = "recheck"
          /\ UNCHANGED <<store, history, catalog, generation, highest, pc, loaded,
                         accepted, fetched>>
      BY <1>11 DEF RecheckIndex, fetching, storeVars, diskVars, cacheAuxVars
    <2>3. index[r] \in Revision
      BY <1>2, <2>1, IndexTyped
    <2>4. /\ fetch[p] \in [DOMAIN fetch[p] -> Fetch] /\ DOMAIN fetch[p] \subseteq Records
          /\ fetched[p] \in [DOMAIN fetched[p] -> Row]
      BY <1>3, FetchesElim, TableElim
    <2>5. /\ fetched[p][r].revision >= fetch[p][r].indexed
          /\ fetched[p][r].revision \in Revision
      BY <1>2, <2>2, <2>4 DEF TypeInv, FetchedPresent, Row
    <2>6. rechecked(fetch[p][r], fetched[p][r].revision, index[r]).indexed
            >= fetch[p][r].indexed
      BY <2>2, <2>3, <2>4, <2>5, Rechecked
    <2>7. RowsPublished'
      BY <1>2, <2>2 DEF RowsPublished
    <2>8. FloorsHold'
      <3>1. \A q \in Refreshers : /\ DOMAIN fetch'[q] = DOMAIN fetch[q]
                                  /\ \A x \in DOMAIN fetch[q] :
                                        \/ fetch'[q][x] = fetch[q][x]
                                        \/ /\ q = p /\ x = r
                                           /\ fetch'[q][x].indexed >= fetch[q][x].indexed
        BY <1>3, <2>1, <2>2, <2>4, <2>6
      <3>2. fetch'[p] \in [DOMAIN fetch'[p] -> Fetch]
        BY <1>2, FetchesElim DEF TypeInv, TypeOK
      <3>3. /\ highest[r] \in Nat /\ fetch[p][r].indexed \in Nat
            /\ fetch'[p][r].indexed \in Nat
        BY <1>2, <2>2, <2>4, <3>1, <3>2, RevisionsNat DEF Fetch
      <3> QED
        BY <1>2, <2>2, <3>1, <3>3 DEF FloorsHold
    <2> QED
      BY <1>4, <2>2, <2>7, <2>8
  <1>12. ASSUME NEW p \in Refreshers, SaveRefused(p) \/ Listing(p) \/ Abandon(p)
         PROVE  FaithfulInv'
    <2>1. finish(p)
      BY <1>12 DEF SaveRefused, Listing, Abandon
    <2>2. /\ pc' = [pc EXCEPT ![p] = "idle"]
          /\ loaded' = [loaded EXCEPT ![p] = [generation |-> 0, records |-> NoRows]]
          /\ accepted' = [accepted EXCEPT ![p] = NoRows]
          /\ fetch' = [fetch EXCEPT ![p] = NoRows]
          /\ fetched' = [fetched EXCEPT ![p] = NoRows]
          /\ UNCHANGED <<store, history, catalog, generation, highest>>
      BY <2>1 DEF finish, storeVars, diskVars, cacheAuxVars
    <2>3. RowsPublished'
      BY <1>2, <1>3, <2>2, NoRowsTyped DEF RowsPublished
    <2>4. FloorsHold'
      BY <1>2, <1>3, <2>2 DEF FloorsHold
    <2> QED
      BY <1>4, <2>2, <2>3, <2>4
  <1>13. CASE UNCHANGED vars
    BY <1>5, <1>13 DEF vars
  <1> QED
    BY <1>6, <1>7, <1>8, <1>9, <1>10, <1>11, <1>12, <1>13, <1>14, PublishFaithful,
       SaveFaithful
    DEF Next, Refresh

\* Against the worker of this repository every cached record is a row the worker
\* stored, revision and envelope together, although the index and the record are
\* read at different times.
THEOREM CatalogIsPublished == Spec => []CachedAsPublished
  <1>1. IInv => CachedAsPublished
    BY DEF IInv, FaithfulInv, RowsPublished, CachedAsPublished
  <1> QED
    BY <1>1, InitIInv, NextIInv, PTL DEF Spec

\* Against that worker a cached record is at the highest revision the catalog ever
\* held for it, however refreshes overlap and although save_refresh drops records
\* and lets them come back.
THEOREM CatalogNeverOlder == Spec => []NeverOlderThanBefore
  <1>1. IInv => NeverOlderThanBefore
    BY DEF IInv, FaithfulInv, NeverOlderThanBefore
  <1> QED
    BY <1>1, InitIInv, NextIInv, PTL DEF Spec
----------------------------------------------------------------------------
(* Authenticity: what opened stays authentic wherever it is kept.          *)

\* Every row of a table opens with the account's key.
Authentic(table) == \A r \in DOMAIN table : table[r].envelope.authentic

\* The catalog, its copies in the refreshers and what they will offer from the
\* cache are authentic; a fetched row need not be, opening it comes first.
AuthenticInv ==
    /\ Authentic(catalog)
    /\ \A p \in Refreshers : Authentic(loaded[p].records) /\ Authentic(accepted[p])

\* Only what opens is offered from a fetch, the rest comes from the cache.
LEMMA OfferedAuthentic ==
    ASSUME NEW p \in Refreshers, Authentic(accepted[p])
    PROVE  Authentic(offered(p))
  <1> DEFINE opened == {x \in DOMAIN fetch[p] : /\ fetch[p][x].phase = "ready"
                                                /\ opens_at(fetched[p][x], started[p])}
  <1>1. offered(p) = [x \in DOMAIN accepted[p] \cup opened |->
                        IF x \in opened THEN fetched[p][x] ELSE accepted[p][x]]
    BY DEF offered
  <1>2. \A x \in opened : fetched[p][x].envelope.authentic
    BY DEF opens_at
  <1> HIDE DEF opened
  <1> QED
    BY <1>1, <1>2 DEF Authentic

\* Every step keeps it, whatever the service answers.
LEMMA NextAuthenticInv == TypeInv /\ AuthenticInv /\ [Next]_vars => AuthenticInv'
  <1> SUFFICES ASSUME TypeInv, AuthenticInv, [Next]_vars PROVE AuthenticInv'
    OBVIOUS
  <1>1. /\ loaded \in [Refreshers -> [generation : Generation, records : Table]]
        /\ accepted \in [Refreshers -> Table]
    BY DEF TypeInv, TypeOK
  <1>2. Authentic(NoRows)
    BY NoRowsTyped DEF Authentic
  <1>3. ASSUME UNCHANGED <<catalog, loaded, accepted>> PROVE AuthenticInv'
    BY <1>3 DEF AuthenticInv, Authentic
  <1>4. ASSUME NEW r \in Records, NEW envelope \in Envelopes, Publish(r, envelope)
        PROVE  AuthenticInv'
    BY <1>3, <1>4 DEF Publish, diskVars, refreshVars
  <1>5. CASE Tick
    BY <1>3, <1>5 DEF Tick, diskVars, refreshVars
  <1>6. ASSUME NEW p \in Refreshers, Start(p) PROVE AuthenticInv'
    BY <1>3, <1>6 DEF Start, diskVars
  <1>7. ASSUME NEW p \in Refreshers, Load(p) PROVE AuthenticInv'
    <2>1. /\ loaded' = [loaded EXCEPT ![p] =
                IF disk = "valid" THEN [generation |-> generation, records |-> catalog]
                ELSE [generation |-> 0, records |-> NoRows]]
          /\ UNCHANGED <<catalog, accepted>>
      BY <1>7 DEF Load, diskVars
    <2>2. loaded'[p].records \in {catalog, NoRows}
      BY <1>1, <2>1
    <2>3. \A q \in Refreshers : q # p => loaded'[q] = loaded[q]
      BY <1>1, <2>1
    <2>4. \A q \in Refreshers : Authentic(loaded'[q].records)
      BY <1>2, <2>2, <2>3 DEF AuthenticInv
    <2>5. AuthenticInv' <=> /\ Authentic(catalog')
                            /\ \A q \in Refreshers : /\ Authentic(loaded'[q].records)
                                                     /\ Authentic(accepted'[q])
      BY DEF AuthenticInv, Authentic
    <2> QED
      BY <2>1, <2>4, <2>5 DEF AuthenticInv
  <1>8. ASSUME NEW p \in Refreshers, ListRecords(p) PROVE AuthenticInv'
    <2>1. PICK index \in IndexReplies :
            accepted' = [accepted EXCEPT ![p] =
               [r \in {x \in unchanged_records(index, loaded[p].records) :
                          ~is_expired_at(loaded[p].records[x], started[p])} |->
                    loaded[p].records[r]]]
      BY <1>8 DEF ListRecords
    <2>2. UNCHANGED <<catalog, loaded>>
      BY <1>8 DEF ListRecords, diskVars
    <2>3. /\ \A r \in DOMAIN accepted'[p] : /\ r \in DOMAIN loaded[p].records
                                            /\ accepted'[p][r] = loaded[p].records[r]
          /\ \A q \in Refreshers : q # p => accepted'[q] = accepted[q]
      BY <1>1, <2>1 DEF unchanged_records
    <2> QED
      BY <2>2, <2>3 DEF AuthenticInv, Authentic
  <1>9. ASSUME NEW p \in Refreshers, NEW r \in Records,
               FetchUnavailable(p, r) \/ GetRecord(p, r) \/ RecheckIndex(p, r)
        PROVE  AuthenticInv'
    BY <1>3, <1>9 DEF FetchUnavailable, GetRecord, RecheckIndex, diskVars
  <1>10. ASSUME NEW p \in Refreshers, Save(p) PROVE AuthenticInv'
    <2>1. /\ catalog' = next_catalog(p) /\ UNCHANGED loaded
          /\ accepted' = [accepted EXCEPT ![p] = offered(p)]
      BY <1>10 DEF Save
    <2>2. Authentic(offered(p))
      BY OfferedAuthentic DEF AuthenticInv
    <2>3. \A r \in DOMAIN next_catalog(p) :
              \/ r \in DOMAIN catalog /\ next_catalog(p)[r] = catalog[r]
              \/ r \in DOMAIN offered(p) /\ next_catalog(p)[r] = offered(p)[r]
      BY SavedFrom
    <2>4. Authentic(catalog)'
      BY <2>1, <2>2, <2>3 DEF AuthenticInv, Authentic
    <2>5. \A q \in Refreshers : accepted'[q] \in {offered(p), accepted[q]}
      BY <1>1, <2>1
    <2>6. \A q \in Refreshers : Authentic(accepted[q])'
      BY <2>2, <2>5 DEF AuthenticInv, Authentic
    <2> QED
      BY <2>1, <2>4, <2>6 DEF AuthenticInv, Authentic
  <1>11. ASSUME NEW p \in Refreshers, SaveRefused(p) \/ Listing(p) \/ Abandon(p)
         PROVE  AuthenticInv'
    <2>1. finish(p)
      BY <1>11 DEF SaveRefused, Listing, Abandon
    <2>2. /\ loaded' = [loaded EXCEPT ![p] = [generation |-> 0, records |-> NoRows]]
          /\ accepted' = [accepted EXCEPT ![p] = NoRows]
          /\ UNCHANGED catalog
      BY <2>1 DEF finish, diskVars
    <2>3. \A q \in Refreshers : /\ loaded'[q].records \in {loaded[q].records, NoRows}
                                /\ accepted'[q] \in {accepted[q], NoRows}
      BY <1>1, <2>2
    <2> QED
      BY <1>2, <2>2, <2>3 DEF AuthenticInv, Authentic
  <1>12. CASE UNCHANGED vars
    BY <1>3, <1>12 DEF vars
  <1> QED
    BY <1>4, <1>5, <1>6, <1>7, <1>8, <1>9, <1>10, <1>11, <1>12 DEF Next, Refresh

\* Nothing that does not open with the account's key is ever cached, whatever the
\* service answers: a row reaches the catalog through opens_at, and from there only
\* through the caches of other refreshes.
THEOREM OnlyOpenedIsCached == Spec => []OnlyAuthenticCached
  <1>1. Init => AuthenticInv
    <2> SUFFICES ASSUME Init PROVE AuthenticInv
      OBVIOUS
    <2>1. /\ DOMAIN catalog = {}
          /\ \A p \in Refreshers : DOMAIN loaded[p].records = {} /\ DOMAIN accepted[p] = {}
      BY NoRowsTyped DEF Init
    <2> QED
      BY <2>1 DEF AuthenticInv, Authentic
  <1>2. AuthenticInv => OnlyAuthenticCached
    BY DEF AuthenticInv, Authentic, OnlyAuthenticCached
  <1> QED
    BY <1>1, <1>2, InitTypeInv, NextTypeInv, NextAuthenticInv, PTL DEF Spec

----------------------------------------------------------------------------
(* What a refresh that no save has overtaken may bring back to the catalog. *)

\* A refresh that may bring r back to the catalog will do so at revision n or later.
FloorAt(r, n) ==
    \A q \in Refreshers :
        (pc[q] = "fetch" /\ loaded[q].generation = generation /\ r \in DOMAIN fetch[q])
        => fetch[q][r].indexed >= n

\* No step of a reconciliation lowers its floor.
LEMMA FetchKeepsFloors ==
    ASSUME TypeInv, TypeInv', NEW p \in Refreshers, NEW r \in Records,
           FetchUnavailable(p, r) \/ GetRecord(p, r) \/ RecheckIndex(p, r)
    PROVE  \A q \in Refreshers :
              /\ DOMAIN fetch'[q] = DOMAIN fetch[q]
              /\ \A x \in DOMAIN fetch[q] :
                    /\ fetch[q][x].indexed \in Nat /\ fetch'[q][x].indexed \in Nat
                    /\ fetch'[q][x].indexed >= fetch[q][x].indexed
  <1>1. TypeOK /\ fetch \in [Refreshers -> Fetches] /\ fetched \in [Refreshers -> Table]
    BY DEF TypeInv, TypeOK
  <1>2. \A q \in Refreshers : /\ DOMAIN fetch[q] \subseteq Records
                              /\ fetch[q] \in [DOMAIN fetch[q] -> Fetch]
                              /\ fetch'[q] \in [DOMAIN fetch'[q] -> Fetch]
    BY FetchesElim DEF TypeInv, TypeOK
  <1>3. \A q \in Refreshers :
            /\ \A x \in DOMAIN fetch[q] : fetch[q][x].indexed \in Nat
            /\ \A x \in DOMAIN fetch'[q] : fetch'[q][x].indexed \in Nat
    BY <1>2 DEF Fetch, Revision
  <1>4. r \in DOMAIN fetch[p] /\ fetch[p][r] \in Fetch
    BY <1>2 DEF FetchUnavailable, GetRecord, RecheckIndex, fetching
  <1>5. ASSUME NEW f, fetch' = [fetch EXCEPT ![p][r] = f], f.indexed >= fetch[p][r].indexed
        PROVE  \A q \in Refreshers :
                  /\ DOMAIN fetch'[q] = DOMAIN fetch[q]
                  /\ \A x \in DOMAIN fetch[q] :
                        fetch'[q][x].indexed >= fetch[q][x].indexed
    <2>1. /\ DOMAIN fetch'[p] = DOMAIN fetch[p] /\ fetch'[p][r] = f
          /\ \A x \in DOMAIN fetch[p] : x # r => fetch'[p][x] = fetch[p][x]
          /\ \A q \in Refreshers : q # p => fetch'[q] = fetch[q]
      BY <1>1, <1>2, <1>4, <1>5
    <2> QED
      BY <1>3, <1>5, <2>1
  <1>6. CASE FetchUnavailable(p, r)
    <2>1. fetch' = [fetch EXCEPT ![p][r] = [fetch[p][r] EXCEPT !.phase = "failed"]]
      BY <1>6 DEF FetchUnavailable
    <2>2. [fetch[p][r] EXCEPT !.phase = "failed"].indexed = fetch[p][r].indexed
      BY <1>4 DEF Fetch
    <2> QED
      BY <1>3, <1>4, <1>5, <2>1, <2>2
  <1>7. CASE GetRecord(p, r)
    <2>1. PICK row \in RecordReplies(r) :
            fetch' = [fetch EXCEPT ![p][r] = got_record(fetch[p][r], row.revision)]
      BY <1>7 DEF GetRecord
    <2>2. row.revision \in Revision
      BY <1>1, RecordTyped DEF Row
    <2>3. got_record(fetch[p][r], row.revision).indexed = fetch[p][r].indexed
      BY <1>4, <2>2, GotRecord
    <2> QED
      BY <1>3, <1>4, <1>5, <2>1, <2>3
  <1>8. CASE RecheckIndex(p, r)
    <2>1. PICK index \in IndexReplies :
            /\ r \in DOMAIN index
            /\ fetch' = [fetch EXCEPT ![p][r] =
                           rechecked(fetch[p][r], fetched[p][r].revision, index[r])]
      BY <1>8 DEF RecheckIndex
    <2>2. index[r] \in Revision
      BY <1>1, <2>1, IndexTyped
    <2>3. fetched[p] \in [DOMAIN fetched[p] -> Row]
      BY <1>1, TableElim
    <2>4. r \in DOMAIN fetched[p] /\ fetched[p][r].revision >= fetch[p][r].indexed
      BY <1>4, <1>8 DEF RecheckIndex, fetching, TypeInv, FetchedPresent
    <2>5. fetched[p][r].revision \in Revision
      BY <2>3, <2>4 DEF Row
    <2>6. rechecked(fetch[p][r], fetched[p][r].revision, index[r]).indexed
            >= fetch[p][r].indexed
      BY <1>4, <2>2, <2>4, <2>5, Rechecked
    <2> QED
      BY <1>3, <1>5, <2>1, <2>6
  <1> QED
    BY <1>3, <1>6, <1>7, <1>8

\* A save overtakes every refresh that is under way.
LEMMA SaveOvertakes ==
    ASSUME GenerationInv, NEW p \in Refreshers, Save(p)
    PROVE  \A q \in Refreshers : loaded'[q].generation # generation'
  <1>1. \A q \in Refreshers : /\ loaded[q].generation \in Nat
                              /\ loaded[q].generation <= generation
    BY GenerationNat DEF GenerationInv, GenerationsOrdered, TypeInv, TypeOK
  <1>2. generation \in Nat
    BY GenerationNat DEF GenerationInv, TypeInv, TypeOK
  <1>3. loaded' = loaded /\ generation' = generation + 1
    BY DEF Save
  <1> QED
    BY <1>1, <1>2, <1>3

\* A floor that the service has reached holds for every later listing.
LEMMA FloorStays ==
    ASSUME GenerationInv, Faithful, [Next]_vars, NEW r, NEW n \in Nat,
           r \in DOMAIN store, n <= store[r].revision, FloorAt(r, n)
    PROVE  FloorAt(r, n)'
  <1>1. TypeInv /\ TypeOK /\ TypeInv'
    BY NextTypeInv DEF GenerationInv, TypeInv
  <1>2. /\ pc \in [Refreshers -> {"idle", "load", "list", "fetch", "listing"}]
        /\ loaded \in [Refreshers -> [generation : Generation, records : Table]]
        /\ fetch \in [Refreshers -> Fetches]
    BY <1>1 DEF TypeOK
  <1>3. ASSUME UNCHANGED <<pc, loaded, generation, fetch>> PROVE FloorAt(r, n)'
    BY <1>3 DEF FloorAt
  <1>4. ASSUME NEW p \in Refreshers, UNCHANGED generation, pc'[p] # "fetch",
               \A q \in Refreshers : q # p => /\ pc'[q] = pc[q] /\ loaded'[q] = loaded[q]
                                              /\ fetch'[q] = fetch[q]
        PROVE  FloorAt(r, n)'
    BY <1>4 DEF FloorAt
  <1>5. ASSUME NEW x \in Records, NEW envelope \in Envelopes, Publish(x, envelope)
        PROVE  FloorAt(r, n)'
    BY <1>3, <1>5 DEF Publish, diskVars, refreshVars
  <1>6. CASE Tick
    BY <1>3, <1>6 DEF Tick, diskVars, refreshVars
  <1>7. ASSUME NEW p \in Refreshers, Start(p) PROVE FloorAt(r, n)'
    <2>1. /\ pc' = [pc EXCEPT ![p] = "load"]
          /\ UNCHANGED <<generation, loaded, fetch>>
      BY <1>7 DEF Start, diskVars
    <2>2. pc'[p] = "load" /\ \A q \in Refreshers : q # p => pc'[q] = pc[q]
      BY <1>2, <2>1
    <2> QED
      BY <1>4, <2>1, <2>2
  <1>8. ASSUME NEW p \in Refreshers, Load(p) PROVE FloorAt(r, n)'
    <2>1. /\ pc' = [pc EXCEPT ![p] = "list"]
          /\ \A q \in Refreshers : q # p => loaded'[q] = loaded[q]
          /\ UNCHANGED <<generation, fetch>>
      BY <1>2, <1>8 DEF Load, diskVars
    <2>2. pc'[p] = "list" /\ \A q \in Refreshers : q # p => pc'[q] = pc[q]
      BY <1>2, <2>1
    <2> QED
      BY <1>4, <2>1, <2>2
  <1>9. ASSUME NEW p \in Refreshers, ListRecords(p) PROVE FloorAt(r, n)'
    <2>1. /\ pc' = [pc EXCEPT ![p] = "fetch"]
          /\ UNCHANGED <<generation, loaded>>
      BY <1>9 DEF ListRecords, diskVars
    <2>2. fetch' = [fetch EXCEPT ![p] =
                [x \in DOMAIN load_index \ unchanged_records(load_index, loaded[p].records) |->
                    [phase |-> "get", attempt |-> 1, indexed |-> load_index[x]]]]
      BY <1>9 DEF ListRecords, IndexReplies
    <2>3. load_index[r] = store[r].revision /\ store[r].revision \in Nat
      BY <1>1, RevisionsNat DEF load_index
    <2>4. /\ r \in DOMAIN fetch'[p] => fetch'[p][r].indexed = load_index[r]
          /\ \A q \in Refreshers : q # p => pc'[q] = pc[q] /\ fetch'[q] = fetch[q]
      BY <1>2, <2>1, <2>2
    <2> QED
      BY <2>1, <2>3, <2>4 DEF FloorAt
  <1>10. ASSUME NEW p \in Refreshers, NEW x \in Records,
                FetchUnavailable(p, x) \/ GetRecord(p, x) \/ RecheckIndex(p, x)
         PROVE  FloorAt(r, n)'
    <2>1. UNCHANGED <<pc, loaded, generation>>
      BY <1>10 DEF FetchUnavailable, GetRecord, RecheckIndex, diskVars
    <2>2. \A q \in Refreshers :
              /\ DOMAIN fetch'[q] = DOMAIN fetch[q]
              /\ r \in DOMAIN fetch[q] =>
                    /\ fetch[q][r].indexed \in Nat /\ fetch'[q][r].indexed \in Nat
                    /\ fetch'[q][r].indexed >= fetch[q][r].indexed
      BY <1>1, <1>10, FetchKeepsFloors
    <2> QED
      BY <2>1, <2>2 DEF FloorAt
  <1>11. ASSUME NEW p \in Refreshers, Save(p) PROVE FloorAt(r, n)'
    BY <1>11, SaveOvertakes DEF FloorAt
  <1>12. ASSUME NEW p \in Refreshers, SaveRefused(p) \/ Listing(p) \/ Abandon(p)
         PROVE  FloorAt(r, n)'
    <2>1. finish(p)
      BY <1>12 DEF SaveRefused, Listing, Abandon
    <2>2. /\ pc'[p] = "idle" /\ UNCHANGED generation
          /\ \A q \in Refreshers : q # p => /\ pc'[q] = pc[q] /\ loaded'[q] = loaded[q]
                                            /\ fetch'[q] = fetch[q]
      BY <1>2, <2>1 DEF finish, diskVars
    <2> QED
      BY <1>4, <2>2
  <1>13. CASE UNCHANGED vars
    BY <1>3, <1>13 DEF vars
  <1> QED
    BY <1>5, <1>6, <1>7, <1>8, <1>9, <1>10, <1>11, <1>12, <1>13 DEF Next, Refresh

\* A save that brings a record back does so at its floor or above.
LEMMA ReturnsAboveFloor ==
    ASSUME GenerationInv, NEW p \in Refreshers, Save(p), NEW n \in Nat,
           NEW r \in DOMAIN catalog' \ DOMAIN catalog, FloorAt(r, n)
    PROVE  catalog'[r].revision \in Nat /\ catalog'[r].revision >= n
  <1>1. TypeInv /\ TypeOK /\ BaselineCurrent
    BY DEF GenerationInv, TypeInv
  <1>2. pc[p] = "fetch" /\ catalog' = next_catalog(p)
    BY DEF Save, fetches_done
  <1>3. /\ generation = loaded[p].generation /\ r \in DOMAIN offered(p)
        /\ catalog'[r] = offered(p)[r]
    BY <1>2, SavedFrom
  <1>4. r \notin DOMAIN accepted[p]
    BY <1>1, <1>2, <1>3 DEF BaselineCurrent
  <1>5. /\ r \in DOMAIN fetch[p]
        /\ catalog'[r].revision >= fetch[p][r].indexed
    BY <1>1, <1>3, <1>4, OfferedFrom
  <1>6. fetch[p][r].indexed \in Nat
    <2>1. fetch[p] \in [DOMAIN fetch[p] -> Fetch]
      BY <1>1, FetchesElim DEF TypeOK
    <2> QED
      BY <1>5, <2>1 DEF Fetch, Revision
  <1>7. catalog'[r].revision \in Nat
    <2>1. catalog' \in [DOMAIN catalog' -> Row]
      BY <1>1, <1>2, NextCatalogTyped, TableElim
    <2> QED
      BY <2>1 DEF Row, Revision
  <1>8. fetch[p][r].indexed >= n
    BY <1>2, <1>3, <1>5 DEF FloorAt
  <1> QED
    BY <1>5, <1>6, <1>7, <1>8

\* The service's revision of a record never falls.
LEMMA StoreGrows ==
    ASSUME TypeOK, [Next]_vars, NEW r \in DOMAIN store
    PROVE  /\ r \in DOMAIN store' /\ store'[r].revision \in Nat
           /\ store[r].revision \in Nat /\ store'[r].revision >= store[r].revision
  <1>1. store[r].revision \in Nat
    BY RevisionsNat
  <1>2. ASSUME UNCHANGED store PROVE store'[r].revision >= store[r].revision
    BY <1>1, <1>2
  <1>3. ASSUME NEW x \in Records, NEW envelope \in Envelopes, Publish(x, envelope)
        PROVE  r \in DOMAIN store' /\ store'[r].revision \in
                   {store[r].revision, store[r].revision + 1}
    BY <1>3 DEF Publish, put_record, next_revision
  <1>4. ASSUME ~(\E x \in Records, envelope \in Envelopes : Publish(x, envelope))
        PROVE  UNCHANGED store
    <2>1. CASE Tick
      BY <2>1 DEF Tick, storeVars
    <2>2. ASSUME NEW p \in Refreshers, Start(p) \/ Load(p) \/ ListRecords(p) \/ Save(p)
          PROVE  UNCHANGED store
      BY <2>2 DEF Start, Load, ListRecords, Save, storeVars
    <2>3. ASSUME NEW p \in Refreshers, NEW x \in Records,
                 FetchUnavailable(p, x) \/ GetRecord(p, x) \/ RecheckIndex(p, x)
          PROVE  UNCHANGED store
      BY <2>3 DEF FetchUnavailable, GetRecord, RecheckIndex, storeVars
    <2>4. ASSUME NEW p \in Refreshers, SaveRefused(p) \/ Listing(p) \/ Abandon(p)
          PROVE  UNCHANGED store
      BY <2>4 DEF SaveRefused, Listing, Abandon, finish, storeVars
    <2>5. CASE UNCHANGED vars
      BY <2>5 DEF vars
    <2> QED
      BY <1>4, <2>1, <2>2, <2>3, <2>4, <2>5 DEF Next, Refresh
  <1> QED
    BY <1>1, <1>2, <1>3, <1>4

----------------------------------------------------------------------------
(* What a refresh that has saved may still see.                            *)

\* What p accepted is a floor, for the catalog and for each refresh that may bring
\* the record back.
ListingInv == Faithful =>
    \A p \in Refreshers : pc[p] = "listing" =>
        \A r \in DOMAIN accepted[p] :
            /\ r \in DOMAIN catalog =>
                  catalog[r].revision >= accepted[p][r].revision
            /\ FloorAt(r, accepted[p][r].revision)

\* A refresh that lists hosts has just saved, or did so before and has not moved.
LEMMA ListingSince ==
    ASSUME TypeOK, [Next]_vars, NEW p \in Refreshers, pc'[p] = "listing"
    PROVE  Save(p) \/ (pc[p] = "listing" /\ accepted'[p] = accepted[p])
  <1>1. /\ pc \in [Refreshers -> {"idle", "load", "list", "fetch", "listing"}]
        /\ accepted \in [Refreshers -> Table]
    BY DEF TypeOK
  <1>2. ASSUME NEW r \in Records, NEW envelope \in Envelopes, Publish(r, envelope)
        PROVE  UNCHANGED <<pc, accepted>>
    BY <1>2 DEF Publish, refreshVars
  <1>3. CASE Tick
    BY <1>3 DEF Tick, refreshVars
  <1>4. ASSUME NEW q \in Refreshers, Start(q) \/ Load(q) \/ ListRecords(q)
        PROVE  pc[p] = "listing" /\ accepted'[p] = accepted[p]
    <2>1. q # p
      BY <1>1, <1>4 DEF Start, Load, ListRecords
    <2> QED
      BY <1>1, <1>4, <2>1 DEF Start, Load, ListRecords
  <1>5. ASSUME NEW q \in Refreshers, NEW r \in Records,
               FetchUnavailable(q, r) \/ GetRecord(q, r) \/ RecheckIndex(q, r)
        PROVE  UNCHANGED <<pc, accepted>>
    BY <1>5 DEF FetchUnavailable, GetRecord, RecheckIndex
  <1>6. ASSUME NEW q \in Refreshers, q # p, Save(q)
        PROVE  pc[p] = "listing" /\ accepted'[p] = accepted[p]
    BY <1>1, <1>6 DEF Save
  <1>7. ASSUME NEW q \in Refreshers, SaveRefused(q) \/ Listing(q) \/ Abandon(q)
        PROVE  pc[p] = "listing" /\ accepted'[p] = accepted[p]
    <2>1. finish(q)
      BY <1>7 DEF SaveRefused, Listing, Abandon
    <2>2. q # p
      BY <1>1, <2>1 DEF finish
    <2> QED
      BY <1>1, <2>1, <2>2 DEF finish
  <1>8. CASE UNCHANGED vars
    BY <1>8 DEF vars
  <1> QED
    BY <1>2, <1>3, <1>4, <1>5, <1>6, <1>7, <1>8 DEF Next, Refresh

\* Every step keeps it.
LEMMA NextListingInv == IInv /\ ListingInv /\ [Next]_vars => ListingInv'
  <1> SUFFICES ASSUME IInv, ListingInv, [Next]_vars, Faithful,
                      NEW p \in Refreshers, pc'[p] = "listing",
                      NEW r \in DOMAIN accepted'[p]
               PROVE  /\ r \in DOMAIN catalog' =>
                            catalog'[r].revision >= accepted'[p][r].revision
                      /\ FloorAt(r, accepted[p][r].revision)'
    BY DEF ListingInv
  <1>1. /\ GenerationInv /\ TypeInv /\ TypeOK
        /\ RowsPublished /\ StoreIsLatest
    BY DEF IInv, GenerationInv, TypeInv, FaithfulInv
  <1>2. CASE Save(p)
    <2>1. /\ accepted'[p] = offered(p) /\ catalog' = next_catalog(p)
      BY <1>1, <1>2 DEF Save, TypeOK
    <2>2. FloorAt(r, accepted[p][r].revision)'
      BY <1>1, <1>2, SaveOvertakes DEF FloorAt
    <2>3. ASSUME r \in DOMAIN catalog'
          PROVE  catalog'[r].revision >= accepted'[p][r].revision
      <3>1. /\ offered(p) \in [DOMAIN offered(p) -> Row]
            /\ catalog \in [DOMAIN catalog -> Row]
        BY <1>1, OfferedTyped, TableElim DEF TypeOK
      <3>2. offered(p)[r].revision \in Nat
        BY <2>1, <3>1 DEF Row, Revision
      <3>3. r \in DOMAIN catalog => catalog[r].revision \in Nat
        BY <3>1 DEF Row, Revision
      <3> QED
        BY <2>1, <2>3, <3>2, <3>3, SavedFrom
    <2> QED
      BY <2>2, <2>3
  <1>3. CASE pc[p] = "listing" /\ accepted'[p] = accepted[p]
    <2>7. r \in DOMAIN accepted[p]
      BY <1>3
    <2>2. r \in Records /\ accepted[p][r] \in history[r]
      BY <1>1, <2>7, TableElim DEF RowsPublished, TypeOK
    <2>8. accepted[p][r].revision \in Nat
      BY <1>1, <2>2, RevisionsNat
    <2>9. PICK n \in Nat : n = accepted[p][r].revision
      BY <2>8
    <2>1. /\ accepted'[p][r].revision = n
          /\ FloorAt(r, n)
          /\ r \in DOMAIN catalog => catalog[r].revision >= n
      BY <1>3, <2>7, <2>9 DEF ListingInv
    <2>3. r \in DOMAIN store /\ n <= store[r].revision
      BY <1>1, <2>2, <2>9 DEF StoreIsLatest
    <2>4. FloorAt(r, n)'
      BY <1>1, <2>1, <2>3, FloorStays
    <2>5. ASSUME r \in DOMAIN catalog' PROVE catalog'[r].revision >= n
      <3>1. CASE UNCHANGED diskVars
        BY <2>1, <2>5, <3>1 DEF diskVars
      <3>2. ASSUME NEW q \in Refreshers, Save(q) PROVE catalog'[r].revision >= n
        <4>1. CASE r \notin DOMAIN catalog
          BY <1>1, <2>1, <2>3, <2>5, <3>2, <4>1, ReturnsAboveFloor
        <4>2. CASE r \in DOMAIN catalog
          <5>1. catalog'[r].revision >= catalog[r].revision
            BY <1>1, <2>5, <3>2, <4>2, SaveKeepsRevisions
          <5>2. catalog' \in [DOMAIN catalog' -> Row] /\ catalog[r].revision \in Nat
            BY <1>1, <3>2, <4>2, NextCatalogTyped, TableElim, RevisionsNat DEF Save
          <5>3. catalog'[r].revision \in Nat
            BY <2>5, <5>2 DEF Row, Revision
          <5> QED
            BY <2>1, <2>3, <4>2, <5>1, <5>2, <5>3
        <4> QED
          BY <4>1, <4>2
      <3> QED
        BY <3>1, <3>2, OnlySaveWrites
    <2>6. (FloorAt(r, n)' /\ accepted'[p][r].revision = n)
            => FloorAt(r, accepted[p][r].revision)'
      BY DEF FloorAt
    <2> QED
      BY <2>1, <2>4, <2>5, <2>6
  <1> QED
    BY <1>1, <1>2, <1>3, ListingSince

\* With the repository's worker, a refresh that lists hosts shows nothing older than
\* it accepted itself, although the catalog was unlocked between save_refresh and the
\* listing and other refreshes may have dropped the record and brought it back.
THEOREM ListingIsCurrent == Spec => []ListsWhatItAccepted
  <1>1. Init => ListingInv
    BY DEF Init, ListingInv
  <1>2. ListingInv => ListsWhatItAccepted
    BY DEF ListingInv, ListsWhatItAccepted
  <1> QED
    BY <1>1, <1>2, InitIInv, NextIInv, NextListingInv, PTL DEF Spec

----------------------------------------------------------------------------
(* What survives a save.                                                   *)

\* The service stores one row per revision.
OneRowPerRevision ==
    \A r \in Records : \A a, b \in history[r] : a.revision = b.revision => a = b

\* No refresh began in the future and nothing was stored in it.
TimesOrdered ==
    /\ \A p \in Refreshers : started[p] <= now
    /\ \A r \in Records : storedAt[r] <= generation

\* What a refresh does not accept of its baseline has expired or is behind the
\* service.
BaselineOffered ==
    \A p \in Refreshers : pc[p] = "fetch" =>
        \A r \in DOMAIN loaded[p].records :
            \/ r \in DOMAIN accepted[p]
            \/ is_expired_at(loaded[p].records[r], now)
            \/ r \in DOMAIN store /\ store[r].revision > loaded[p].records[r].revision

\* The row has been cached since generation g or longer.
StillCached(r, row, g) ==
    r \in DOMAIN catalog /\ catalog[r] = row /\ storedAt[r] <= g

\* The record was dropped and only a later revision can come back.
GoneForGood(r, row) ==
    /\ r \notin DOMAIN catalog
    /\ r \in DOMAIN store /\ store[r].revision > row.revision
    /\ FloorAt(r, row.revision + 1)

\* What has become of a row that a refresh loaded at generation g.
Fate(r, row, g) ==
    \/ StillCached(r, row, g)
    \/ is_expired_at(row, now)
    \/ highest[r] > row.revision
    \/ GoneForGood(r, row)

BaselineFate ==
    \A p \in Refreshers : \A r \in DOMAIN loaded[p].records :
        Fate(r, loaded[p].records[r], loaded[p].generation)

SurvivalInv ==
    Faithful => OneRowPerRevision /\ TimesOrdered /\ BaselineOffered /\ BaselineFate

\* The clock does not run backwards, and only a save changes the catalog and what is
\* recorded about it.
LEMMA OnlySaveStores ==
    ASSUME TypeOK, [Next]_vars
    PROVE  /\ now \in Nat /\ now' \in Nat /\ now' >= now
           /\ \/ UNCHANGED <<catalog, generation, highest, storedAt>>
              \/ \E p \in Refreshers : Save(p)
  <1>1. now \in Nat
    <2>1. Time \subseteq Nat
      BY DEF Time
    <2> QED
      BY <2>1 DEF TypeOK
  <1>2. ASSUME NEW r \in Records, NEW envelope \in Envelopes, Publish(r, envelope)
        PROVE  UNCHANGED <<now, catalog, generation, highest, storedAt>>
    BY <1>2 DEF Publish, diskVars, cacheAuxVars
  <1>3. CASE Tick
    <2>1. now' = now + 1 /\ UNCHANGED <<catalog, generation, highest, storedAt>>
      BY <1>3 DEF Tick, diskVars, auxVars
    <2> QED
      BY <1>1, <2>1
  <1>4. ASSUME NEW p \in Refreshers, Start(p) \/ Load(p) \/ ListRecords(p)
        PROVE  UNCHANGED <<now, catalog, generation, highest, storedAt>>
    BY <1>4 DEF Start, Load, ListRecords, diskVars, cacheAuxVars, auxVars
  <1>5. ASSUME NEW p \in Refreshers, NEW r \in Records,
               FetchUnavailable(p, r) \/ GetRecord(p, r) \/ RecheckIndex(p, r)
        PROVE  UNCHANGED <<now, catalog, generation, highest, storedAt>>
    BY <1>5 DEF FetchUnavailable, GetRecord, RecheckIndex, diskVars, cacheAuxVars
  <1>6. ASSUME NEW p \in Refreshers, SaveRefused(p) \/ Listing(p) \/ Abandon(p)
        PROVE  UNCHANGED <<now, catalog, generation, highest, storedAt>>
    BY <1>6 DEF SaveRefused, Listing, Abandon, finish, diskVars, cacheAuxVars
  <1>7. ASSUME UNCHANGED vars
        PROVE  UNCHANGED <<now, catalog, generation, highest, storedAt>>
    BY <1>7 DEF vars
  <1>8. ASSUME NEW p \in Refreshers, Save(p) PROVE UNCHANGED now
    BY <1>8 DEF Save
  <1>9. UNCHANGED now => now' \in Nat /\ now' >= now
    BY <1>1
  <1>10. CASE \E p \in Refreshers : Save(p)
    BY <1>1, <1>8, <1>9, <1>10
  <1>11. CASE ~Tick /\ ~(\E p \in Refreshers : Save(p))
    <2>1. UNCHANGED <<now, catalog, generation, highest, storedAt>>
      BY <1>2, <1>4, <1>5, <1>6, <1>7, <1>11 DEF Next, Refresh
    <2> QED
      BY <1>1, <1>9, <2>1
  <1> QED
    BY <1>3, <1>10, <1>11

\* A record that a save drops was not offered, and its revision is the one that the
\* refresh had loaded.
LEMMA DroppedFrom ==
    ASSUME NEW p \in Refreshers, NEW r \in DOMAIN catalog \ DOMAIN next_catalog(p)
    PROVE  /\ r \notin DOMAIN offered(p) /\ r \notin DOMAIN accepted[p]
           /\ r \in DOMAIN loaded[p].records
           /\ loaded[p].records[r].revision = catalog[r].revision
  <1> DEFINE offer == offered(p)
             selected == selected_records(offer, catalog, generation, loaded[p])
             leftover == leftover_records(offer, catalog, loaded[p])
  <1>1. DOMAIN next_catalog(p) = selected \cup leftover
    BY DEF next_catalog, reconcile
  <1>2. r \notin DOMAIN offer
    BY <1>1 DEF selected_records
  <1>3. r \notin leftover
    BY <1>1
  <1>4. DOMAIN accepted[p] \subseteq DOMAIN offer
    BY DEF offered
  <1> HIDE DEF offer
  <1>5. /\ r \in DOMAIN loaded[p].records
        /\ loaded[p].records[r].revision = catalog[r].revision
    BY <1>2, <1>3 DEF leftover_records
  <1> QED
    BY <1>2, <1>4, <1>5 DEF offer

\* A refresh between its listing and its save has just listed, or goes on with what it
\* loaded and accepted.
LEMMA FetchingSince ==
    ASSUME TypeOK, [Next]_vars, NEW p \in Refreshers, pc'[p] = "fetch"
    PROVE  \/ ListRecords(p)
           \/ /\ pc[p] = "fetch" /\ loaded'[p] = loaded[p]
              /\ accepted'[p] = accepted[p]
  <1>1. /\ pc \in [Refreshers -> {"idle", "load", "list", "fetch", "listing"}]
        /\ accepted \in [Refreshers -> Table]
        /\ loaded \in [Refreshers -> [generation : Generation, records : Table]]
    BY DEF TypeOK
  <1>2. ASSUME NEW r \in Records, NEW envelope \in Envelopes, Publish(r, envelope)
        PROVE  UNCHANGED <<pc, loaded, accepted>>
    BY <1>2 DEF Publish, refreshVars
  <1>3. CASE Tick
    BY <1>3 DEF Tick, refreshVars
  <1>4. ASSUME NEW q \in Refreshers, Start(q) \/ Load(q) \/ Save(q)
        PROVE  pc[p] = "fetch" /\ loaded'[p] = loaded[p] /\ accepted'[p] = accepted[p]
    <2>1. q # p
      BY <1>1, <1>4 DEF Start, Load, Save
    <2> QED
      BY <1>1, <1>4, <2>1 DEF Start, Load, Save
  <1>5. ASSUME NEW q \in Refreshers, NEW r \in Records,
               FetchUnavailable(q, r) \/ GetRecord(q, r) \/ RecheckIndex(q, r)
        PROVE  UNCHANGED <<pc, loaded, accepted>>
    BY <1>5 DEF FetchUnavailable, GetRecord, RecheckIndex
  <1>6. ASSUME NEW q \in Refreshers, q # p, ListRecords(q)
        PROVE  pc[p] = "fetch" /\ loaded'[p] = loaded[p] /\ accepted'[p] = accepted[p]
    BY <1>1, <1>6 DEF ListRecords
  <1>7. ASSUME NEW q \in Refreshers, SaveRefused(q) \/ Listing(q) \/ Abandon(q)
        PROVE  pc[p] = "fetch" /\ loaded'[p] = loaded[p] /\ accepted'[p] = accepted[p]
    <2>1. finish(q)
      BY <1>7 DEF SaveRefused, Listing, Abandon
    <2>2. q # p
      BY <1>1, <2>1 DEF finish
    <2> QED
      BY <1>1, <2>1, <2>2 DEF finish
  <1>8. CASE UNCHANGED vars
    BY <1>8 DEF vars
  <1> QED
    BY <1>2, <1>3, <1>4, <1>5, <1>6, <1>7, <1>8 DEF Next, Refresh

\* A baseline is the catalog at the time of its load, kept, or given up.
LEMMA LoadedSince ==
    ASSUME TypeOK, [Next]_vars, NEW p \in Refreshers
    PROVE  \/ loaded'[p] = loaded[p]
           \/ loaded'[p].records = NoRows
           \/ /\ loaded'[p] = [generation |-> generation, records |-> catalog]
              /\ UNCHANGED <<catalog, generation, storedAt>>
  <1>1. loaded \in [Refreshers -> [generation : Generation, records : Table]]
    BY DEF TypeOK
  <1>2. ASSUME NEW r \in Records, NEW envelope \in Envelopes, Publish(r, envelope)
        PROVE  UNCHANGED loaded
    BY <1>2 DEF Publish, refreshVars
  <1>3. CASE Tick
    BY <1>3 DEF Tick, refreshVars
  <1>4. ASSUME NEW q \in Refreshers, Start(q) \/ ListRecords(q) \/ Save(q)
        PROVE  UNCHANGED loaded
    BY <1>4 DEF Start, ListRecords, Save
  <1>5. ASSUME NEW q \in Refreshers, NEW r \in Records,
               FetchUnavailable(q, r) \/ GetRecord(q, r) \/ RecheckIndex(q, r)
        PROVE  UNCHANGED loaded
    BY <1>5 DEF FetchUnavailable, GetRecord, RecheckIndex
  <1>6. ASSUME NEW q \in Refreshers, Load(q)
        PROVE  \/ loaded'[p] = loaded[p]
               \/ loaded'[p].records = NoRows
               \/ /\ loaded'[p] = [generation |-> generation, records |-> catalog]
                  /\ UNCHANGED <<catalog, generation, storedAt>>
    <2>1. /\ loaded' = [loaded EXCEPT ![q] =
                IF disk = "valid" THEN [generation |-> generation, records |-> catalog]
                ELSE [generation |-> 0, records |-> NoRows]]
          /\ UNCHANGED <<catalog, generation, storedAt>>
      BY <1>6 DEF Load, diskVars, cacheAuxVars
    <2> QED
      BY <1>1, <2>1
  <1>7. ASSUME NEW q \in Refreshers, SaveRefused(q) \/ Listing(q) \/ Abandon(q)
        PROVE  loaded'[p] = loaded[p] \/ loaded'[p].records = NoRows
    <2>1. loaded' = [loaded EXCEPT ![q] = [generation |-> 0, records |-> NoRows]]
      BY <1>7 DEF SaveRefused, Listing, Abandon, finish
    <2> QED
      BY <1>1, <2>1
  <1>8. CASE UNCHANGED vars
    BY <1>8 DEF vars
  <1> QED
    BY <1>2, <1>3, <1>4, <1>5, <1>6, <1>7, <1>8 DEF Next, Refresh

\* What has become of a loaded row only moves on: cached, then dropped as expired or
\* behind the service, or replaced by a later revision.
LEMMA FateStays ==
    ASSUME IInv, IInv', SurvivalInv, Faithful, [Next]_vars,
           NEW r \in Records, NEW row \in Row, NEW g \in Nat,
           row \in history[r], Fate(r, row, g)
    PROVE  Fate(r, row, g)'
  <1>1. /\ GenerationInv /\ TypeInv /\ TypeOK /\ TypeOK' /\ RowsPublished /\ RowsPublished'
        /\ NeverOlderThanBefore /\ NeverOlderThanBefore'
        /\ OneRowPerRevision /\ BaselineOffered
    BY DEF IInv, GenerationInv, TypeInv, FaithfulInv, SurvivalInv
  <1>2. row.revision \in Nat /\ row.envelope.expires \in Nat
    BY RecordStoreAssumption DEF Row, Revision
  <1>3. highest[r] \in Nat /\ highest'[r] \in Nat
    <2>1. 0 .. MAX_REVISION \subseteq Nat
      OBVIOUS
    <2> QED
      BY <1>1, <2>1 DEF TypeOK
  <1>4. now \in Nat /\ now' \in Nat /\ now' >= now
    BY <1>1, OnlySaveStores
  <1>5. r \in DOMAIN store /\ store[r].revision > row.revision =>
            /\ r \in DOMAIN store' /\ store'[r].revision > row.revision
    BY <1>1, <1>2, StoreGrows
  <1>6. CASE is_expired_at(row, now)
    <2>1. is_expired_at(row, now)'
      BY <1>2, <1>4, <1>6 DEF is_expired_at
    <2> QED
      BY <2>1 DEF Fate
  <1>7. CASE UNCHANGED <<catalog, generation, highest, storedAt>>
    <2>1. CASE StillCached(r, row, g)
      BY <1>7, <2>1 DEF Fate, StillCached
    <2>2. CASE highest[r] > row.revision
      BY <1>7, <2>2 DEF Fate
    <2>3. CASE GoneForGood(r, row)
      <3>1. r \in DOMAIN store /\ store[r].revision > row.revision
        BY <2>3 DEF GoneForGood
      <3>2. row.revision + 1 \in Nat /\ row.revision + 1 <= store[r].revision
        BY <1>1, <1>2, <3>1, RevisionsNat
      <3>3. FloorAt(r, row.revision + 1)'
        BY <1>1, <2>3, <3>1, <3>2, FloorStays DEF GoneForGood
      <3> QED
        BY <1>5, <1>7, <2>3, <3>1, <3>3 DEF Fate, GoneForGood
    <2> QED
      BY <1>6, <2>1, <2>2, <2>3 DEF Fate
  <1>8. ASSUME NEW p \in Refreshers, Save(p) PROVE Fate(r, row, g)'
    <2>1. /\ catalog' = next_catalog(p) /\ UNCHANGED <<store, history, now>>
          /\ pc[p] = "fetch"
          /\ storedAt' = [x \in Records |->
               IF x \in DOMAIN catalog' /\ ~(x \in DOMAIN catalog /\ catalog[x] = catalog'[x])
               THEN generation' ELSE storedAt[x]]
      BY <1>8 DEF Save, fetches_done, storeVars
    <2>2. FloorAt(r, row.revision + 1)'
      BY <1>1, <1>8, SaveOvertakes DEF FloorAt
    <2>3. ASSUME r \in DOMAIN catalog', catalog'[r].revision > row.revision
          PROVE  Fate(r, row, g)'
      <3>1. catalog'[r].revision = highest'[r]
        BY <1>1, <2>3 DEF NeverOlderThanBefore
      <3> QED
        BY <2>3, <3>1 DEF Fate
    <2>4. CASE highest[r] > row.revision
      <3>1. highest'[r] \in {highest[r], catalog'[r].revision}
            /\ (highest'[r] # highest[r] => catalog'[r].revision > highest[r])
        BY <1>8 DEF Save
      <3>2. highest'[r] >= highest[r]
        BY <1>3, <3>1
      <3> QED
        BY <1>2, <1>3, <2>4, <3>2 DEF Fate
    <2>5. CASE GoneForGood(r, row)
      <3>1. CASE r \notin DOMAIN catalog'
        BY <1>5, <2>2, <2>5, <3>1 DEF Fate, GoneForGood
      <3>2. CASE r \in DOMAIN catalog'
        <4>1. row.revision + 1 \in Nat
          BY <1>2
        <4>2. catalog'[r].revision \in Nat /\ catalog'[r].revision >= row.revision + 1
          BY <1>1, <1>8, <2>5, <3>2, <4>1, ReturnsAboveFloor DEF GoneForGood
        <4> QED
          BY <1>2, <2>3, <3>2, <4>2
      <3> QED
        BY <3>1, <3>2
    <2>6. CASE StillCached(r, row, g)
      <3>1. r \in DOMAIN catalog /\ catalog[r] = row /\ storedAt[r] <= g
        BY <2>6 DEF StillCached
      <3>2. CASE r \in DOMAIN catalog' /\ catalog'[r] = row
        BY <2>1, <3>1, <3>2 DEF Fate, StillCached
      <3>3. CASE r \in DOMAIN catalog' /\ catalog'[r] # row
        <4>1. catalog'[r] \in history[r]
          BY <1>1, <2>1, <3>3 DEF RowsPublished
        <4>2. catalog'[r].revision # row.revision
          BY <1>1, <3>3, <4>1 DEF OneRowPerRevision
        <4>3. catalog'[r].revision >= row.revision
          BY <1>1, <1>8, <3>1, <3>3, SaveKeepsRevisions
        <4>4. catalog'[r].revision \in Nat
          BY <1>1, <4>1, RevisionsNat
        <4> QED
          BY <1>2, <2>3, <3>3, <4>2, <4>3, <4>4
      <3>4. CASE r \notin DOMAIN catalog'
        <4>1. /\ r \notin DOMAIN accepted[p] /\ r \in DOMAIN loaded[p].records
              /\ loaded[p].records[r].revision = row.revision
          BY <2>1, <3>1, <3>4, DroppedFrom
        <4>2. loaded[p].records[r] = row
          BY <1>1, <4>1 DEF RowsPublished, OneRowPerRevision
        <4>3. \/ is_expired_at(row, now)
              \/ r \in DOMAIN store /\ store[r].revision > row.revision
          BY <1>1, <2>1, <4>1, <4>2 DEF BaselineOffered
        <4>4. ASSUME r \in DOMAIN store, store[r].revision > row.revision
              PROVE  Fate(r, row, g)'
          BY <1>5, <2>2, <3>4, <4>4 DEF Fate, GoneForGood
        <4> QED
          BY <1>6, <4>3, <4>4
      <3> QED
        BY <3>2, <3>3, <3>4
    <2> QED
      BY <1>6, <2>4, <2>5, <2>6 DEF Fate
  <1> QED
    BY <1>1, <1>7, <1>8, OnlySaveStores

\* Only a PUT adds a row, and its revision is new.
LEMMA NextOneRow ==
    ASSUME IInv, OneRowPerRevision, Faithful, [Next]_vars
    PROVE  OneRowPerRevision'
  <1>1. TypeOK /\ StoreIsLatest /\ history \in [Records -> SUBSET Row]
    BY DEF IInv, GenerationInv, TypeInv, FaithfulInv, TypeOK, StoreTypeOK
  <1>2. ASSUME UNCHANGED history PROVE OneRowPerRevision'
    BY <1>2 DEF OneRowPerRevision
  <1>3. ASSUME NEW x \in Records, NEW envelope \in Envelopes, Publish(x, envelope)
        PROVE  OneRowPerRevision'
    <2>1. PICK row : /\ row = [revision |-> next_revision(x), envelope |-> envelope]
                     /\ history' = [history EXCEPT ![x] = @ \cup {row}]
      BY <1>3 DEF Publish, put_record
    <2>2. \A old \in history[x] : old.revision # row.revision
      <3> SUFFICES ASSUME NEW old \in history[x] PROVE old.revision # row.revision
        OBVIOUS
      <3>1. x \in DOMAIN store /\ old.revision <= store[x].revision
        BY <1>1 DEF StoreIsLatest
      <3>2. old.revision \in Nat /\ store[x].revision \in Nat
        BY <1>1, <3>1, RevisionsNat
      <3>3. row.revision = store[x].revision + 1
        BY <2>1, <3>1 DEF next_revision
      <3> QED
        BY <3>1, <3>2, <3>3
    <2>3. /\ history'[x] = history[x] \cup {row}
          /\ \A r \in Records : r # x => history'[r] = history[r]
      BY <1>1, <2>1
    <2> QED
      BY <2>2, <2>3 DEF OneRowPerRevision
  <1>4. CASE Tick
    BY <1>2, <1>4 DEF Tick, storeVars
  <1>5. ASSUME NEW p \in Refreshers, Start(p) \/ Load(p) \/ ListRecords(p) \/ Save(p)
        PROVE  OneRowPerRevision'
    BY <1>2, <1>5 DEF Start, Load, ListRecords, Save, storeVars
  <1>6. ASSUME NEW p \in Refreshers, NEW r \in Records,
               FetchUnavailable(p, r) \/ GetRecord(p, r) \/ RecheckIndex(p, r)
        PROVE  OneRowPerRevision'
    BY <1>2, <1>6 DEF FetchUnavailable, GetRecord, RecheckIndex, storeVars
  <1>7. ASSUME NEW p \in Refreshers, SaveRefused(p) \/ Listing(p) \/ Abandon(p)
        PROVE  OneRowPerRevision'
    BY <1>2, <1>7 DEF SaveRefused, Listing, Abandon, finish, storeVars
  <1>8. CASE UNCHANGED vars
    BY <1>2, <1>8 DEF vars
  <1> QED
    BY <1>3, <1>4, <1>5, <1>6, <1>7, <1>8 DEF Next, Refresh

\* Times stay in order.
LEMMA NextTimesOrdered ==
    ASSUME TypeInv, TimesOrdered, [Next]_vars
    PROVE  TimesOrdered'
  <1>1. /\ TypeOK /\ TypeOK' /\ started \in [Refreshers -> Time]
        /\ storedAt \in [Records -> Generation]
    BY NextTypeInv DEF TypeInv, TypeOK
  <1>2. now \in Nat /\ now' \in Nat /\ now' >= now
    BY <1>1, OnlySaveStores
  <1>3. \A p \in Refreshers : started[p] \in Nat
    <2>1. Time \subseteq Nat
      BY DEF Time
    <2> QED
      BY <1>1, <2>1
  <1>4. \A p \in Refreshers : started'[p] \in {started[p], now, 0}
    <2>1. ASSUME NEW r \in Records, NEW envelope \in Envelopes, Publish(r, envelope)
          PROVE  UNCHANGED started
      BY <2>1 DEF Publish, refreshVars
    <2>2. CASE Tick
      BY <2>2 DEF Tick, refreshVars
    <2>3. ASSUME NEW p \in Refreshers, Load(p) \/ ListRecords(p) \/ Save(p)
          PROVE  UNCHANGED started
      BY <2>3 DEF Load, ListRecords, Save
    <2>4. ASSUME NEW p \in Refreshers, NEW r \in Records,
                 FetchUnavailable(p, r) \/ GetRecord(p, r) \/ RecheckIndex(p, r)
          PROVE  UNCHANGED started
      BY <2>4 DEF FetchUnavailable, GetRecord, RecheckIndex
    <2>5. ASSUME NEW q \in Refreshers, Start(q) \/ SaveRefused(q) \/ Listing(q) \/ Abandon(q)
          PROVE  \A p \in Refreshers : started'[p] \in {started[p], now, 0}
      BY <1>1, <2>5 DEF Start, SaveRefused, Listing, Abandon, finish
    <2>6. CASE UNCHANGED vars
      BY <2>6 DEF vars
    <2> QED
      BY <2>1, <2>2, <2>3, <2>4, <2>5, <2>6 DEF Next, Refresh
  <1>5. \A r \in Records : storedAt'[r] <= generation'
    <2>1. \A r \in Records : storedAt[r] \in Nat /\ storedAt[r] <= generation
      BY <1>1, GenerationNat DEF TimesOrdered
    <2>2. generation \in Nat
      BY <1>1, GenerationNat DEF TypeOK
    <2>3. ASSUME NEW p \in Refreshers, Save(p)
          PROVE  /\ generation' = generation + 1
                 /\ \A r \in Records : storedAt'[r] \in {generation', storedAt[r]}
      BY <2>3 DEF Save
    <2>4. CASE UNCHANGED <<catalog, generation, highest, storedAt>>
      BY <2>1, <2>4
    <2>5. CASE \E p \in Refreshers : Save(p)
      BY <2>1, <2>2, <2>3, <2>5
    <2> QED
      BY <1>1, <2>4, <2>5, OnlySaveStores
  <1> QED
    BY <1>2, <1>3, <1>4, <1>5 DEF TimesOrdered

\* A refresh accepts what its baseline has as the service has it and has not expired.
LEMMA NextBaselineOffered ==
    ASSUME IInv, SurvivalInv, Faithful, [Next]_vars
    PROVE  BaselineOffered'
  <1>1. /\ TypeOK /\ RowsPublished /\ StoreIsLatest
        /\ OneRowPerRevision /\ TimesOrdered /\ BaselineOffered
    BY DEF IInv, GenerationInv, TypeInv, FaithfulInv, SurvivalInv
  <1>2. now \in Nat /\ now' \in Nat /\ now' >= now
    BY <1>1, OnlySaveStores
  <1> SUFFICES ASSUME NEW p \in Refreshers, pc'[p] = "fetch",
                      NEW r \in DOMAIN loaded'[p].records
               PROVE  \/ r \in DOMAIN accepted'[p]
                      \/ is_expired_at(loaded'[p].records[r], now')
                      \/ /\ r \in DOMAIN store'
                         /\ store'[r].revision > loaded'[p].records[r].revision
    BY DEF BaselineOffered, is_expired_at
  <1>3. loaded'[p] = loaded[p]
    BY <1>1, FetchingSince DEF ListRecords
  <1> DEFINE base == loaded[p].records
  <1>4. base \in Table
    BY <1>1 DEF TypeOK
  <1>5. r \in Records /\ r \in DOMAIN base /\ base[r] \in Row
    BY <1>3, <1>4, TableElim
  <1>6. base[r].revision \in Nat /\ base[r].envelope.expires \in Nat
    BY <1>5, RecordStoreAssumption DEF Row, Revision
  <1>7. base[r] \in history[r]
    BY <1>1, <1>5 DEF RowsPublished
  <1>8. ASSUME is_expired_at(base[r], now)
        PROVE  is_expired_at(base[r], now')
    BY <1>2, <1>6, <1>8 DEF is_expired_at
  <1>9. ASSUME r \in DOMAIN store, store[r].revision > base[r].revision
        PROVE  r \in DOMAIN store' /\ store'[r].revision > base[r].revision
    BY <1>1, <1>6, <1>9, StoreGrows
  <1>10. CASE ListRecords(p)
    <2> DEFINE kept == {x \in unchanged_records(load_index, base) :
                          ~is_expired_at(base[x], started[p])}
    <2>1. DOMAIN accepted'[p] = kept
      <3>1. PICK index \in IndexReplies :
              accepted' = [accepted EXCEPT ![p] =
                 [x \in {y \in unchanged_records(index, base) :
                            ~is_expired_at(base[y], started[p])} |-> base[x]]]
        BY <1>10 DEF ListRecords
      <3>2. index = load_index
        BY DEF IndexReplies
      <3>3. accepted' = [accepted EXCEPT ![p] = [x \in kept |-> base[x]]]
        BY <3>1, <3>2
      <3>4. accepted \in [Refreshers -> Table]
        BY <1>1 DEF TypeOK
      <3> HIDE DEF base, kept
      <3> QED
        BY <3>3, <3>4
    <2>2. /\ r \in DOMAIN store /\ base[r].revision <= store[r].revision
          /\ store[r].revision \in Nat
      BY <1>1, <1>5, <1>7, RevisionsNat DEF StoreIsLatest
    <2>3. CASE store[r].revision = base[r].revision
      <3>1. r \in unchanged_records(load_index, base)
        BY <1>5, <2>2, <2>3 DEF unchanged_records, load_index
      <3>2. CASE is_expired_at(base[r], started[p])
        <4>1. started[p] <= now /\ started[p] \in Nat
          <5>1. Time \subseteq Nat
            BY DEF Time
          <5> QED
            BY <1>1, <5>1 DEF TimesOrdered, TypeOK
        <4>2. is_expired_at(base[r], now)
          BY <1>2, <1>6, <3>2, <4>1 DEF is_expired_at
        <4> QED
          BY <1>3, <1>8, <4>2
      <3>3. CASE ~is_expired_at(base[r], started[p])
        BY <2>1, <3>1, <3>3
      <3> QED
        BY <3>2, <3>3
    <2>4. CASE store[r].revision # base[r].revision
      BY <1>3, <1>6, <1>9, <2>2, <2>4
    <2> QED
      BY <2>3, <2>4
  <1>11. CASE pc[p] = "fetch" /\ accepted'[p] = accepted[p]
    <2>1. \/ r \in DOMAIN accepted[p] \/ is_expired_at(base[r], now)
          \/ r \in DOMAIN store /\ store[r].revision > base[r].revision
      BY <1>1, <1>5, <1>11 DEF BaselineOffered
    <2> QED
      BY <1>3, <1>8, <1>9, <1>11, <2>1
  <1> QED
    BY <1>1, <1>10, <1>11, FetchingSince

\* Every step keeps the whole of it.
LEMMA NextSurvivalInv == IInv /\ SurvivalInv /\ [Next]_vars => SurvivalInv'
  <1> SUFFICES ASSUME IInv, SurvivalInv, [Next]_vars, Faithful
               PROVE  (OneRowPerRevision /\ TimesOrdered /\ BaselineOffered /\ BaselineFate)'
    BY DEF SurvivalInv
  <1>1. /\ TypeInv /\ TypeOK /\ IInv' /\ RowsPublished
        /\ OneRowPerRevision /\ TimesOrdered /\ BaselineOffered /\ BaselineFate
    BY NextIInv DEF IInv, GenerationInv, TypeInv, FaithfulInv, SurvivalInv
  <1>2. OneRowPerRevision' /\ TimesOrdered' /\ BaselineOffered'
    BY <1>1, NextOneRow, NextTimesOrdered, NextBaselineOffered
  <1>3. BaselineFate'
    <2> SUFFICES ASSUME NEW p \in Refreshers, NEW r \in DOMAIN loaded'[p].records
                 PROVE  Fate(r, loaded[p].records[r], loaded[p].generation)'
      BY DEF BaselineFate
    <2>1. CASE loaded'[p] = loaded[p]
      <3>1. /\ r \in DOMAIN loaded[p].records /\ loaded[p].records \in Table
            /\ loaded[p].generation \in Nat
        BY <1>1, <2>1, GenerationNat DEF TypeOK
      <3>2. r \in Records /\ loaded[p].records[r] \in Row
        BY <3>1, TableElim
      <3>3. PICK row \in Row, g \in Nat :
                row = loaded[p].records[r] /\ g = loaded[p].generation
        BY <3>1, <3>2
      <3>4. row \in history[r] /\ Fate(r, row, g)
        BY <1>1, <3>1, <3>3 DEF RowsPublished, BaselineFate
      <3>5. Fate(r, row, g)'
        BY <1>1, <3>2, <3>4, FateStays
      <3>6. row = loaded'[p].records[r] /\ g = loaded'[p].generation
        BY <2>1, <3>3
      <3> QED
        BY <3>5, <3>6
    <2>2. CASE loaded'[p].records = NoRows
      BY <2>2, NoRowsTyped
    <2>3. CASE /\ loaded'[p] = [generation |-> generation, records |-> catalog]
               /\ UNCHANGED <<catalog, generation, storedAt>>
      <3>1. r \in DOMAIN catalog /\ loaded'[p].records[r] = catalog'[r]
        BY <2>3
      <3>2. r \in Records
        BY <1>1, <3>1, RevisionsNat
      <3>3. storedAt'[r] <= loaded'[p].generation
        BY <1>1, <2>3, <3>2 DEF TimesOrdered
      <3> QED
        BY <2>3, <3>1, <3>3 DEF Fate, StillCached
    <2> QED
      BY <1>1, <2>1, <2>2, <2>3, LoadedSince
  <1> QED
    BY <1>2, <1>3

\* With the repository's worker, a record that another refresh stored after this one
\* loaded the catalog survives this one's save_refresh unless it has expired: the
\* comparison of revisions there is enough, because a record comes back at the
\* revision it was dropped at only if it was dropped as expired.
THEOREM StoredRecordsSurvive == Spec => ConcurrentRecordsSurvive
  <1> DEFINE Survive == Faithful => \A p \in Refreshers : saves(p) =>
                          \A r \in DOMAIN catalog :
                              (/\ storedAt[r] > loaded[p].generation
                               /\ ~is_expired_at(catalog[r], now))
                              => r \in DOMAIN catalog'
  <1>1. IInv /\ SurvivalInv /\ [Next]_vars => [Survive]_vars
    <2> SUFFICES ASSUME IInv, SurvivalInv, [Next]_vars, Faithful,
                        NEW p \in Refreshers, saves(p), NEW r \in DOMAIN catalog,
                        storedAt[r] > loaded[p].generation,
                        ~is_expired_at(catalog[r], now),
                        r \notin DOMAIN catalog'
                 PROVE  FALSE
      OBVIOUS
    <2>1. /\ TypeOK /\ RowsPublished /\ NeverOlderThanBefore
          /\ OneRowPerRevision /\ BaselineFate
      BY DEF IInv, GenerationInv, TypeInv, FaithfulInv, SurvivalInv
    <2>2. ~UNCHANGED diskVars
      BY DEF diskVars
    <2>3. PICK q \in Refreshers : Save(q)
      BY <2>2, OnlySaveWrites
    <2>4. q = p
      BY <2>1, <2>3 DEF Save, fetches_done, saves, TypeOK
    <2>5. /\ r \in DOMAIN loaded[p].records
          /\ loaded[p].records[r].revision = catalog[r].revision
      BY <2>3, <2>4, DroppedFrom DEF Save
    <2>6. r \in Records
      BY <2>1, RevisionsNat
    <2>7. loaded[p].records[r] = catalog[r]
      BY <2>1, <2>5, <2>6 DEF RowsPublished, OneRowPerRevision
    <2>8. Fate(r, catalog[r], loaded[p].generation)
      BY <2>1, <2>5, <2>7 DEF BaselineFate
    <2>9. ~(highest[r] > catalog[r].revision)
      BY <2>1, <2>6, RevisionsNat DEF NeverOlderThanBefore
    <2>10. storedAt[r] \in Nat /\ loaded[p].generation \in Nat
      BY <2>1, <2>6, GenerationNat DEF TypeOK
    <2> QED
      BY <2>8, <2>9, <2>10 DEF Fate, StillCached, GoneForGood
  <1>2. Init => SurvivalInv
    <2> SUFFICES ASSUME Init PROVE SurvivalInv
      OBVIOUS
    <2>1. /\ now = 0 /\ generation = 0
          /\ \A r \in Records : history[r] = {} /\ storedAt[r] = 0
          /\ \A p \in Refreshers : /\ pc[p] = "idle" /\ started[p] = 0
                                   /\ DOMAIN loaded[p].records = {}
      BY NoRowsTyped DEF Init, StoreInit
    <2> QED
      BY <2>1 DEF SurvivalInv, OneRowPerRevision, TimesOrdered, BaselineOffered, BaselineFate
  <1> QED
    BY <1>1, <1>2, InitIInv, NextIInv, NextSurvivalInv, PTL
    DEF Spec, ConcurrentRecordsSurvive

----------------------------------------------------------------------------
(* A quiet refresh.                                                        *)

\* The rows of the service that open for a refresh that began at `time`.
Openable(time) ==
    [r \in {x \in DOMAIN store : opens_at(store[x], time)} |-> store[r]]

\* An undisturbed reconciliation asks for the row that the service has and gets it.
QuietFetch(p, r) ==
    /\ fetch[p][r].phase \in {"get", "ready"}
    /\ fetch[p][r].indexed = store[r].revision
    /\ fetch[p][r].phase = "ready" => fetched[p][r] = store[r]

\* A record that is not fetched is in the baseline as the service has it, and
\* accepted unless it has expired.
QuietAccepted(p, r) ==
    /\ r \in DOMAIN loaded[p].records /\ loaded[p].records[r] = store[r]
    /\ r \in DOMAIN accepted[p] <=> ~is_expired_at(store[r], started[p])
    /\ r \in DOMAIN accepted[p] => accepted[p][r] = store[r]

\* What p knows at each point if nothing has disturbed it.
Quiet(p) ==
    /\ pc[p] \in {"list", "fetch"} => loaded[p].generation = generation
    /\ pc[p] = "fetch" =>
          /\ DOMAIN fetch[p] \subseteq DOMAIN store
          /\ DOMAIN accepted[p] \subseteq DOMAIN store \ DOMAIN fetch[p]
          /\ \A r \in DOMAIN fetch[p] : QuietFetch(p, r)
          /\ \A r \in DOMAIN store \ DOMAIN fetch[p] : QuietAccepted(p, r)
    /\ pc[p] = "listing" => catalog = Openable(started[p])

QuietInv ==
    Faithful => \A p \in Refreshers : undisturbed[p] => Quiet(p)

\* A refresh that nothing disturbed offers exactly the rows that open.
LEMMA QuietOffer ==
    ASSUME TypeOK, AuthenticInv, NEW p \in Refreshers, Quiet(p), fetches_done(p)
    PROVE  offered(p) = Openable(started[p])
  <1> DEFINE opened == {x \in DOMAIN fetch[p] : /\ fetch[p][x].phase = "ready"
                                                /\ opens_at(fetched[p][x], started[p])}
             open == {x \in DOMAIN store : opens_at(store[x], started[p])}
  <1>1. /\ DOMAIN fetch[p] \subseteq DOMAIN store
        /\ DOMAIN accepted[p] \subseteq DOMAIN store \ DOMAIN fetch[p]
        /\ \A r \in DOMAIN fetch[p] : QuietFetch(p, r)
        /\ \A r \in DOMAIN store \ DOMAIN fetch[p] : QuietAccepted(p, r)
    BY DEF Quiet, fetches_done
  <1>2. \A r \in DOMAIN fetch[p] : fetch[p][r].phase = "ready" /\ fetched[p][r] = store[r]
    BY <1>1 DEF QuietFetch, fetches_done
  <1>3. \A r \in DOMAIN fetch[p] : r \in opened <=> r \in open
    BY <1>1, <1>2
  <1>4. \A r \in DOMAIN store \ DOMAIN fetch[p] : r \in DOMAIN accepted[p] <=> r \in open
    <2> SUFFICES ASSUME NEW r \in DOMAIN store \ DOMAIN fetch[p]
                 PROVE  r \in DOMAIN accepted[p] <=> opens_at(store[r], started[p])
      OBVIOUS
    <2>1. /\ r \in DOMAIN loaded[p].records /\ loaded[p].records[r] = store[r]
          /\ r \in DOMAIN accepted[p] <=> ~is_expired_at(store[r], started[p])
      BY <1>1 DEF QuietAccepted
    <2>2. store[r].envelope.authentic
      BY <2>1 DEF AuthenticInv, Authentic
    <2>3. store[r] \in Row /\ started[p] \in Nat
      <3>1. store \in Table
        BY DEF TypeOK, StoreTypeOK
      <3>2. store[r] \in Row
        BY <3>1, TableElim
      <3>3. started[p] \in Time
        BY DEF TypeOK
      <3> QED
        BY <3>2, <3>3 DEF Time
    <2>4. store[r].envelope.expires \in Nat
      BY <2>3, RecordStoreAssumption DEF Row
    <2>5. ~is_expired_at(store[r], started[p]) <=> started[p] < store[r].envelope.expires
      BY <2>3, <2>4 DEF is_expired_at
    <2> QED
      BY <2>1, <2>2, <2>5 DEF opens_at
  <1>5. offered(p) = [x \in DOMAIN accepted[p] \cup opened |->
                        IF x \in opened THEN fetched[p][x] ELSE accepted[p][x]]
    BY DEF offered
  <1>6. Openable(started[p]) = [x \in open |-> store[x]]
    BY DEF Openable
  <1>7. open \subseteq DOMAIN store /\ opened \subseteq DOMAIN fetch[p]
    OBVIOUS
  <1> HIDE DEF opened, open
  <1>8. DOMAIN accepted[p] \cup opened = open
    BY <1>1, <1>3, <1>4, <1>7
  <1>9. \A x \in open :
            (IF x \in opened THEN fetched[p][x] ELSE accepted[p][x]) = store[x]
    <2> SUFFICES ASSUME NEW x \in open
                 PROVE  (IF x \in opened THEN fetched[p][x] ELSE accepted[p][x]) = store[x]
      OBVIOUS
    <2>1. CASE x \in opened
      BY <1>2, <1>7, <2>1
    <2>2. CASE x \notin opened
      <3>1. x \in DOMAIN accepted[p] /\ x \in DOMAIN store \ DOMAIN fetch[p]
        BY <1>1, <1>8, <2>2
      <3>2. accepted[p][x] = store[x]
        BY <1>1, <3>1 DEF QuietAccepted
      <3> QED
        BY <2>2, <3>2
    <2> QED
      BY <2>1, <2>2
  <1> QED
    BY <1>5, <1>6, <1>8, <1>9

\* Its save writes what it offers and nothing else.
LEMMA QuietSave ==
    ASSUME IInv, AuthenticInv, Faithful, NEW p \in Refreshers, Quiet(p), Save(p)
    PROVE  catalog' = Openable(started[p])
  <1>1. TypeOK /\ BaselineCurrent /\ RowsPublished /\ StoreIsLatest
    BY DEF IInv, GenerationInv, TypeInv, FaithfulInv
  <1>2. /\ pc[p] = "fetch" /\ fetches_done(p) /\ catalog' = next_catalog(p)
    BY DEF Save, fetches_done
  <1>3. loaded[p].generation = generation /\ loaded[p].records = catalog
    BY <1>1, <1>2 DEF Quiet, BaselineCurrent
  <1>4. offered(p) = Openable(started[p])
    BY <1>1, <1>2, QuietOffer
  <1>5. \A r \in DOMAIN offered(p) : r \in DOMAIN store /\ offered(p)[r] = store[r]
    BY <1>4 DEF Openable
  <1>6. \A r \in DOMAIN offered(p) : newer_of(offered(p), catalog, r) = offered(p)[r]
    <2> SUFFICES ASSUME NEW r \in DOMAIN offered(p), r \in DOMAIN catalog
                 PROVE  ~(catalog[r].revision > offered(p)[r].revision)
      BY DEF newer_of
    <2>1. r \in Records /\ catalog[r].revision \in Nat /\ store[r].revision \in Nat
      BY <1>1, <1>5, RevisionsNat
    <2>2. catalog[r].revision <= store[r].revision
      BY <1>1, <2>1 DEF RowsPublished, StoreIsLatest
    <2> QED
      BY <1>5, <2>1, <2>2
  <1>7. selected_records(offered(p), catalog, generation, loaded[p]) = DOMAIN offered(p)
    BY <1>3 DEF selected_records
  <1>8. leftover_records(offered(p), catalog, loaded[p]) = {}
    BY <1>3 DEF leftover_records
  <1>9. next_catalog(p) = [r \in DOMAIN offered(p) |-> newer_of(offered(p), catalog, r)]
    BY <1>7, <1>8 DEF next_catalog, reconcile
  <1>10. next_catalog(p) = [r \in DOMAIN offered(p) |-> offered(p)[r]]
    BY <1>6, <1>9
  <1>11. offered(p) = [r \in DOMAIN offered(p) |-> offered(p)[r]]
    BY DEF offered
  <1> QED
    BY <1>2, <1>4, <1>10, <1>11

\* The listing sorts every record of the service to the fetched or the accepted ones.
LEMMA QuietListing ==
    ASSUME IInv, SurvivalInv, Faithful, NEW p \in Refreshers, Quiet(p), ListRecords(p)
    PROVE  Quiet(p)'
  <1>1. TypeOK /\ RowsPublished /\ OneRowPerRevision
    BY DEF IInv, GenerationInv, TypeInv, FaithfulInv, SurvivalInv
  <1> DEFINE base == loaded[p].records
             same == unchanged_records(load_index, base)
             kept == {x \in same : ~is_expired_at(base[x], started[p])}
  <1>2. /\ accepted'[p] = [r \in kept |-> base[r]]
        /\ fetch'[p] = [r \in DOMAIN load_index \ same |->
                          [phase |-> "get", attempt |-> 1, indexed |-> load_index[r]]]
    <2>1. /\ accepted' = [accepted EXCEPT ![p] = [r \in kept |-> base[r]]]
          /\ fetch' = [fetch EXCEPT ![p] = [r \in DOMAIN load_index \ same |->
                          [phase |-> "get", attempt |-> 1, indexed |-> load_index[r]]]]
      BY DEF ListRecords, IndexReplies
    <2>2. accepted \in [Refreshers -> Table] /\ fetch \in [Refreshers -> Fetches]
      BY <1>1 DEF TypeOK
    <2> HIDE DEF base, same, kept
    <2> QED
      BY <2>1, <2>2
  <1>3. /\ pc[p] = "list" /\ pc'[p] = "fetch"
        /\ UNCHANGED <<store, catalog, generation, started, loaded, fetched>>
    BY <1>1 DEF ListRecords, TypeOK, storeVars, diskVars
  <1>4. DOMAIN load_index = DOMAIN store /\ \A r \in DOMAIN store : load_index[r] = store[r].revision
    BY DEF load_index
  <1>5. /\ same \subseteq DOMAIN store /\ same \subseteq DOMAIN base
        /\ \A r \in same : base[r].revision = store[r].revision
    BY <1>4 DEF unchanged_records
  <1>6. \A r \in same : base[r] = store[r]
    <2> SUFFICES ASSUME NEW r \in same PROVE base[r] = store[r]
      OBVIOUS
    <2>1. r \in Records
      BY <1>1, <1>5, RevisionsNat
    <2>2. base[r] \in history[r] /\ store[r] \in history[r]
      BY <1>1, <1>5 DEF RowsPublished
    <2> QED
      BY <1>1, <1>5, <2>1, <2>2 DEF OneRowPerRevision
  <1>7. kept \subseteq same /\ \A r \in same : r \in kept <=> ~is_expired_at(store[r], started[p])
    BY <1>6
  <1> HIDE DEF base, same, kept
  <1>8. DOMAIN fetch'[p] = DOMAIN store \ same /\ DOMAIN accepted'[p] = kept
    BY <1>2, <1>4
  <1>9. \A r \in DOMAIN fetch'[p] : QuietFetch(p, r)'
    BY <1>2, <1>3, <1>4, <1>8 DEF QuietFetch
  <1>10. \A r \in DOMAIN store' \ DOMAIN fetch'[p] : QuietAccepted(p, r)'
    <2> SUFFICES ASSUME NEW r \in same PROVE QuietAccepted(p, r)'
      BY <1>3, <1>8
    <2>1. /\ r \in DOMAIN base /\ base[r] = store[r]
          /\ r \in DOMAIN accepted'[p] <=> ~is_expired_at(store[r], started[p])
          /\ r \in DOMAIN accepted'[p] => accepted'[p][r] = base[r]
      BY <1>2, <1>5, <1>6, <1>7, <1>8
    <2> QED
      BY <1>3, <2>1 DEF QuietAccepted, base, is_expired_at
  <1>11. loaded'[p].generation = generation'
    BY <1>3 DEF Quiet
  <1>12. DOMAIN accepted'[p] \subseteq DOMAIN store' \ DOMAIN fetch'[p]
    BY <1>3, <1>5, <1>7, <1>8
  <1> QED
    BY <1>3, <1>8, <1>9, <1>10, <1>11, <1>12 DEF Quiet

\* A GET answers with the row that the index listed.
LEMMA QuietGet ==
    ASSUME TypeInv, Faithful, NEW p \in Refreshers, NEW r \in Records,
           Quiet(p), GetRecord(p, r)
    PROVE  Quiet(p)'
  <1>1. /\ fetch \in [Refreshers -> Fetches] /\ fetched \in [Refreshers -> Table]
        /\ TypeOK /\ FetchedPresent
    BY DEF TypeInv, TypeOK
  <1>2. fetch[p] \in [DOMAIN fetch[p] -> Fetch]
    BY <1>1, FetchesElim
  <1>3. /\ pc[p] = "fetch" /\ r \in DOMAIN fetch[p] /\ fetch[p][r].phase = "get"
        /\ UNCHANGED <<store, catalog, generation, pc, started, loaded, accepted>>
    BY DEF GetRecord, fetching, storeVars, diskVars
  <1>4. /\ \A x \in DOMAIN fetch[p] : x \in DOMAIN store /\ QuietFetch(p, x)
        /\ fetch[p][r].indexed = store[r].revision
    BY <1>3 DEF Quiet, QuietFetch
  <1>5. /\ fetch' = [fetch EXCEPT ![p][r] = got_record(fetch[p][r], store[r].revision)]
        /\ fetched' = [fetched EXCEPT ![p] =
               [x \in DOMAIN @ \cup {r} |-> IF x = r THEN store[r] ELSE @[x]]]
    <2>1. PICK row \in RecordReplies(r) :
            /\ fetch' = [fetch EXCEPT ![p][r] = got_record(fetch[p][r], row.revision)]
            /\ fetched' = [fetched EXCEPT ![p] =
                   [x \in DOMAIN @ \cup {r} |-> IF x = r THEN row ELSE @[x]]]
      BY DEF GetRecord
    <2>2. row = store[r]
      BY DEF RecordReplies
    <2> QED
      BY <2>1, <2>2
  <1>6. store[r].revision \in Nat
    BY <1>1, <1>3, <1>4, RevisionsNat
  <1>7. got_record(fetch[p][r], store[r].revision) = [fetch[p][r] EXCEPT !.phase = "ready"]
    BY <1>4, <1>6 DEF got_record
  <1>8. /\ DOMAIN fetch'[p] = DOMAIN fetch[p]
        /\ \A x \in DOMAIN fetch[p] : x # r => fetch'[p][x] = fetch[p][x]
        /\ fetch'[p][r] = [fetch[p][r] EXCEPT !.phase = "ready"]
    BY <1>1, <1>2, <1>3, <1>5, <1>7
  <1>9. /\ fetched'[p][r] = store[r]
        /\ \A x \in DOMAIN fetched[p] : x # r => fetched'[p][x] = fetched[p][x]
    BY <1>1, <1>5
  <1>10. \A x \in DOMAIN fetch'[p] : QuietFetch(p, x)'
    <2> SUFFICES ASSUME NEW x \in DOMAIN fetch[p] PROVE QuietFetch(p, x)'
      BY <1>8
    <2>1. CASE x = r
      <3>1. /\ fetch'[p][r].phase = "ready"
            /\ fetch'[p][r].indexed = fetch[p][r].indexed
        BY <1>2, <1>3, <1>8 DEF Fetch
      <3> QED
        BY <1>3, <1>4, <1>9, <2>1, <3>1 DEF QuietFetch
    <2>2. CASE x # r
      <3>1. fetch[p][x].phase = "ready" => x \in DOMAIN fetched[p]
        BY <1>1 DEF FetchedPresent
      <3> QED
        BY <1>3, <1>4, <1>8, <1>9, <2>2, <3>1 DEF QuietFetch
    <2> QED
      BY <2>1, <2>2
  <1>11. \A x \in DOMAIN store' \ DOMAIN fetch'[p] : QuietAccepted(p, x)'
    <2>1. \A x \in DOMAIN store \ DOMAIN fetch[p] : QuietAccepted(p, x)
      BY <1>3 DEF Quiet
    <2> QED
      BY <1>3, <1>8, <2>1 DEF QuietAccepted, is_expired_at
  <1> QED
    BY <1>3, <1>8, <1>10, <1>11 DEF Quiet

\* Every step keeps it.
LEMMA NextQuietInv ==
    IInv /\ SurvivalInv /\ AuthenticInv /\ QuietInv /\ [Next]_vars => QuietInv'
  <1> SUFFICES ASSUME IInv, SurvivalInv, AuthenticInv, QuietInv, [Next]_vars, Faithful,
                      NEW p \in Refreshers, undisturbed'[p]
               PROVE  Quiet(p)'
    BY DEF QuietInv
  <1>1. TypeInv /\ TypeOK /\ BaselineCurrent
    BY DEF IInv, GenerationInv, TypeInv
  <1>2. /\ pc \in [Refreshers -> {"idle", "load", "list", "fetch", "listing"}]
        /\ started \in [Refreshers -> Time]
        /\ loaded \in [Refreshers -> [generation : Generation, records : Table]]
        /\ accepted \in [Refreshers -> Table] /\ fetched \in [Refreshers -> Table]
        /\ fetch \in [Refreshers -> Fetches] /\ undisturbed \in [Refreshers -> BOOLEAN]
    BY <1>1 DEF TypeOK
  <1>3. undisturbed[p] => Quiet(p)
    BY DEF QuietInv
  <1>4. ASSUME UNCHANGED <<store, catalog, generation>>,
               pc'[p] = pc[p], started'[p] = started[p], loaded'[p] = loaded[p],
               accepted'[p] = accepted[p], fetch'[p] = fetch[p], fetched'[p] = fetched[p],
               undisturbed'[p] = undisturbed[p]
        PROVE  Quiet(p)'
    <2>1. Quiet(p)
      BY <1>3, <1>4
    <2>2. Openable(started[p])' = Openable(started[p])
      BY <1>4 DEF Openable, opens_at
    <2>3. \A r : /\ QuietFetch(p, r) => QuietFetch(p, r)'
                 /\ QuietAccepted(p, r) => QuietAccepted(p, r)'
      BY <1>4 DEF QuietFetch, QuietAccepted, is_expired_at
    <2> QED
      BY <1>4, <2>1, <2>2, <2>3 DEF Quiet
  <1>5. ASSUME pc'[p] \in {"idle", "load"} PROVE Quiet(p)'
    BY <1>5 DEF Quiet
  <1>6. ASSUME NEW r \in Records, NEW envelope \in Envelopes, Publish(r, envelope)
        PROVE  FALSE
    BY <1>6 DEF Publish
  <1>7. CASE Tick
    BY <1>4, <1>7 DEF Tick, storeVars, diskVars, refreshVars, auxVars
  <1>8. ASSUME NEW q \in Refreshers, Start(q) PROVE Quiet(p)'
    <2>1. CASE q = p
      BY <1>2, <1>5, <1>8, <2>1 DEF Start
    <2>2. CASE q # p
      <3>1. UNCHANGED <<store, catalog, generation, loaded, accepted, fetch, fetched,
                        undisturbed>>
        BY <1>8 DEF Start, storeVars, diskVars, auxVars
      <3>2. pc'[p] = pc[p] /\ started'[p] = started[p]
        BY <1>2, <1>8, <2>2 DEF Start
      <3> QED
        BY <1>4, <3>1, <3>2
    <2> QED
      BY <2>1, <2>2
  <1>9. ASSUME NEW q \in Refreshers, Load(q) PROVE Quiet(p)'
    <2>1. UNCHANGED <<store, catalog, generation, started, accepted, fetch, fetched>>
      BY <1>9 DEF Load, storeVars, diskVars
    <2>2. CASE q = p
      <3>1. pc'[p] = "list"
        BY <1>2, <1>9, <2>2 DEF Load
      <3>2. loaded'[p].generation = IF disk = "valid" THEN generation ELSE 0
        BY <1>2, <1>9, <2>2 DEF Load
      <3>3. loaded'[p].generation = generation
        BY <1>1, <3>2 DEF BaselineCurrent
      <3> QED
        BY <2>1, <3>1, <3>3 DEF Quiet
    <2>3. CASE q # p
      <3>1. /\ pc'[p] = pc[p] /\ loaded'[p] = loaded[p]
            /\ undisturbed'[p] = undisturbed[p]
        BY <1>2, <1>9, <2>3 DEF Load
      <3> QED
        BY <1>4, <2>1, <3>1
    <2> QED
      BY <2>2, <2>3
  <1>10. ASSUME NEW q \in Refreshers, ListRecords(q) PROVE Quiet(p)'
    <2>1. UNCHANGED <<store, catalog, generation, started, loaded, fetched, undisturbed>>
      BY <1>10 DEF ListRecords, storeVars, diskVars
    <2>2. CASE q = p
      BY <1>3, <1>10, <2>1, <2>2, QuietListing
    <2>3. CASE q # p
      <3>1. /\ pc'[p] = pc[p] /\ accepted'[p] = accepted[p] /\ fetch'[p] = fetch[p]
        BY <1>2, <1>10, <2>3 DEF ListRecords
      <3> QED
        BY <1>4, <2>1, <3>1
    <2> QED
      BY <2>2, <2>3
  <1>11. ASSUME NEW q \in Refreshers, NEW r \in Records,
                FetchUnavailable(q, r) \/ GetRecord(q, r) \/ RecheckIndex(q, r)
         PROVE  Quiet(p)'
    <2>1. UNCHANGED <<store, catalog, generation, pc, started, loaded, accepted>>
      BY <1>11 DEF FetchUnavailable, GetRecord, RecheckIndex, storeVars, diskVars
    <2>2. CASE q # p
      <3>1. /\ fetch'[p] = fetch[p] /\ fetched'[p] = fetched[p]
            /\ undisturbed'[p] = undisturbed[p]
        BY <1>2, <1>11, <2>2 DEF FetchUnavailable, GetRecord, RecheckIndex
      <3> QED
        BY <1>4, <2>1, <3>1
    <2>3. CASE q = p /\ FetchUnavailable(p, r)
      BY <1>2, <2>3 DEF FetchUnavailable
    <2>4. CASE q = p /\ GetRecord(p, r)
      <3>1. undisturbed[p]
        BY <2>4 DEF GetRecord
      <3> QED
        BY <1>1, <1>3, <2>4, <3>1, QuietGet
    <2>5. CASE q = p /\ RecheckIndex(p, r)
      <3>1. undisturbed[p] /\ pc[p] = "fetch" /\ r \in DOMAIN fetch[p]
            /\ fetch[p][r].phase = "recheck"
        BY <2>5 DEF RecheckIndex, fetching
      <3> QED
        BY <1>3, <3>1 DEF Quiet, QuietFetch
    <2> QED
      BY <1>11, <2>2, <2>3, <2>4, <2>5
  <1>12. ASSUME NEW q \in Refreshers, Save(q) PROVE Quiet(p)'
    <2>1. q = p /\ undisturbed[p]
      BY <1>2, <1>12 DEF Save
    <2>2. catalog' = Openable(started[p])
      BY <1>3, <1>12, <2>1, QuietSave
    <2>3. pc'[p] = "listing" /\ UNCHANGED <<store, started>>
      BY <1>2, <1>12, <2>1 DEF Save, storeVars
    <2>4. Openable(started[p])' = Openable(started[p])
      BY <2>3 DEF Openable, opens_at
    <2> QED
      BY <2>2, <2>3, <2>4 DEF Quiet
  <1>13. ASSUME NEW q \in Refreshers, SaveRefused(q) \/ Listing(q) \/ Abandon(q)
         PROVE  Quiet(p)'
    <2>1. finish(q)
      BY <1>13 DEF SaveRefused, Listing, Abandon
    <2>2. CASE q = p
      BY <1>2, <1>5, <2>1, <2>2 DEF finish
    <2>3. CASE q # p
      <3>1. UNCHANGED <<store, catalog, generation>>
        BY <2>1 DEF finish, storeVars, diskVars
      <3>2. /\ pc'[p] = pc[p] /\ started'[p] = started[p] /\ loaded'[p] = loaded[p]
            /\ accepted'[p] = accepted[p] /\ fetch'[p] = fetch[p]
            /\ fetched'[p] = fetched[p] /\ undisturbed'[p] = undisturbed[p]
        BY <1>2, <2>1, <2>3 DEF finish
      <3> QED
        BY <1>4, <3>1, <3>2
    <2> QED
      BY <2>2, <2>3
  <1>14. CASE UNCHANGED vars
    BY <1>4, <1>14 DEF vars
  <1> QED
    BY <1>6, <1>7, <1>8, <1>9, <1>10, <1>11, <1>12, <1>13, <1>14 DEF Next, Refresh

\* With the repository's worker, one refresh that no publication, failed fetch or other
\* save disturbs leaves exactly the service's openable records in the catalog, whatever
\* earlier races left there or left out.
THEOREM QuietRefreshRepairs == Spec => []QuietRefreshConverges
  <1>1. Init => QuietInv /\ AuthenticInv /\ SurvivalInv
    <2> SUFFICES ASSUME Init PROVE QuietInv /\ AuthenticInv /\ SurvivalInv
      OBVIOUS
    <2>1. /\ now = 0 /\ generation = 0 /\ DOMAIN catalog = {}
          /\ \A r \in Records : history[r] = {} /\ storedAt[r] = 0
          /\ \A p \in Refreshers : /\ pc[p] = "idle" /\ started[p] = 0
                                   /\ DOMAIN loaded[p].records = {}
                                   /\ DOMAIN accepted[p] = {} /\ ~undisturbed[p]
      BY NoRowsTyped DEF Init, StoreInit
    <2>2. QuietInv /\ AuthenticInv
      BY <2>1 DEF QuietInv, AuthenticInv, Authentic
    <2> QED
      BY <2>1, <2>2
      DEF SurvivalInv, OneRowPerRevision, TimesOrdered, BaselineOffered, BaselineFate
  <1>2. QuietInv => QuietRefreshConverges
    BY DEF QuietInv, Quiet, Openable, QuietRefreshConverges
  <1>3. IInv => TypeInv
    BY DEF IInv, GenerationInv
  <1> QED
    BY <1>1, <1>2, <1>3, InitIInv, NextIInv, NextSurvivalInv, NextAuthenticInv,
       NextQuietInv, PTL
    DEF Spec
=============================================================================
