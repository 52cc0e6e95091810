------------------------------- MODULE RecordStore -------------------------------
(***************************************************************************)
(* The record table of one account object of the synchronization service   *)
(* (crates/session-sync-worker/src/storage.rs and model.rs).  A row holds   *)
(* the service revision of a record and the last envelope stored for it.    *)
(* The worker has no delete: a row, once inserted, stays, and every PUT     *)
(* moves its revision up by one.  SQL calls of a Durable Object are         *)
(* synchronous, so a PUT (read, quota check, write) is one step.            *)
(***************************************************************************)
EXTENDS Naturals, FiniteSets

\* What an envelope is to a client: opening it succeeds (it is sealed with the
\* account root key for this account and record) or not, and the descriptor
\* inside expires at some time.
CONSTANTS
    Records,            \* record IDs publishers may use
    Envelopes,          \* envelopes publishers may store
    MAX_LIVE_RECORDS,   \* row quota of an account
    MAX_REVISION        \* i64::MAX in the code: the last revision of a row

ASSUME RecordStoreAssumption ==
    /\ IsFiniteSet(Records)
    /\ Envelopes \subseteq [authentic : BOOLEAN, expires : Nat]
    /\ MAX_LIVE_RECORDS \in Nat
    /\ MAX_REVISION \in Nat \ {0}

VARIABLES
    store,      \* the table: a function from the IDs that have a row to rows
    history     \* auxiliary: every row each record ever had

storeVars == <<store, history>>

Revision == 1 .. MAX_REVISION

Row == [revision : Revision, envelope : Envelopes]

\* Tables are functions on the IDs that have a row.
Table == UNION {[live -> Row] : live \in SUBSET Records}

NoRows == [r \in {} |-> r]

StoreTypeOK ==
    /\ store \in Table
    /\ history \in [Records -> SUBSET Row]

StoreInit ==
    /\ store = NoRows
    /\ history = [r \in Records |-> {}]

\* LiveRecordIndex: the revision of every row.
load_index == [r \in DOMAIN store |-> store[r].revision]

\* MutationOutcome::Created starts a row at 1, Updated adds one to it.
next_revision(r) == IF r \in DOMAIN store THEN store[r].revision + 1 ELSE 1

\* Mutant: the largest revision is not checked.
put_without_overflow_check(r) ==
    r \in DOMAIN store \/ Cardinality(DOMAIN store) < MAX_LIVE_RECORDS

\* A new row needs room under the quota, an existing one a revision below the
\* largest; otherwise the PUT is refused and the table is left alone.
put_accepted(r) ==
    /\ r \in DOMAIN store \/ Cardinality(DOMAIN store) < MAX_LIVE_RECORDS
    /\ next_revision(r) <= MAX_REVISION

put_record(r, envelope) ==
    /\ put_accepted(r)
    /\ LET row == [revision |-> next_revision(r), envelope |-> envelope]
       IN  /\ store' = [x \in DOMAIN store \cup {r} |->
                            IF x = r THEN row ELSE store[x]]
           /\ history' = [history EXCEPT ![r] = @ \cup {row}]

=============================================================================
