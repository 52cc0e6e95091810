---------------------------------- MODULE Lease ----------------------------------
(***************************************************************************)
(* What the descriptor cache of one publisher promises its callers          *)
(* (Descriptors, crates/cli/src/publisher_descriptor.rs): a register that    *)
(* never runs ahead of the service, only moves to later revisions, and is    *)
(* handed out only while its descriptor is live.  How a                      *)
(* renewal is fetched, shared, bounded or cancelled is left open.            *)
(***************************************************************************)
EXTENDS Naturals

CONSTANTS
    Callers,    \* connection setups that share the cache
    Nothing     \* what a caller holds when it holds no descriptor

VARIABLES
    clock,      \* the time leases are compared with
    record,     \* the descriptor the service has
    lease,      \* the descriptor in the cache
    held        \* the descriptor each caller is using

vars == <<clock, record, lease, held>>

Init ==
    /\ clock \in Nat
    /\ lease = record
    /\ held = [c \in Callers |-> Nothing]

live(descriptor) == clock < descriptor.expires

TimePasses ==
    /\ clock' >= clock
    /\ UNCHANGED <<record, lease, held>>

\* The service replaces its record under the next revision.
Publish ==
    /\ record'.revision = record.revision + 1
    /\ UNCHANGED <<clock, lease, held>>

\* The cache moves to a later revision, and when it has caught up with the
\* service it has what the service has.
moves ==
    /\ lease.revision <= lease'.revision
    /\ lease'.revision <= record.revision
    /\ lease'.revision = record.revision => lease' = record
    /\ lease'.revision = lease.revision => lease' = lease

Renew ==
    /\ moves
    /\ UNCHANGED <<clock, record, held>>

\* A caller gets the descriptor in the cache, renewed first or not, and only a
\* live one.
HandOut(c) ==
    /\ moves
    /\ live(lease')
    /\ held' = [held EXCEPT ![c] = lease']
    /\ UNCHANGED <<clock, record>>

GiveUp(c) ==
    /\ held' = [held EXCEPT ![c] = Nothing]
    /\ UNCHANGED <<clock, record, lease>>

Next ==
    \/ TimePasses
    \/ Publish
    \/ Renew
    \/ \E c \in Callers : HandOut(c) \/ GiveUp(c)

Spec == Init /\ [][Next]_vars
=============================================================================
