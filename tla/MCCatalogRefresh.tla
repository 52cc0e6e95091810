---------------------------- MODULE MCCatalogRefresh ----------------------------
(* Small instances of CatalogRefresh for TLC. *)
EXTENDS CatalogRefresh, TLC

\* Expires within the run, outlives it, and does not open.
Short == [authentic |-> TRUE, expires |-> 1]
Long == [authentic |-> TRUE, expires |-> MAX_TIME + 1]
Foreign == [authentic |-> FALSE, expires |-> MAX_TIME + 1]

AllEnvelopes == {Short, Long, Foreign}
LastingEnvelopes == {Long, Foreign}

RefresherSymmetry == Permutations(Refreshers)
=============================================================================
