--------------------------------- MODULE MCBroker ---------------------------------
(* Small instances of Broker for TLC. *)
EXTENDS Broker, TLC

ProcessSymmetry == Permutations(Clients) \cup Permutations(Brokers)
=============================================================================
