--------------------------- MODULE MCResolverPool ---------------------------
(* Values of the constants of ResolverPool for TLC. *)
EXTENDS ResolverPool

Served(id, address, weight) ==
    [id |-> id, address |-> address, protocol |-> "http", weight |-> weight]

(* "n2" may come back with another weight. *)
MCInstances == {Served("n1", "a1", 1), Served("n2", "a2", 1), Served("n2", "a2", 2)}

MCKeyOrder == <<"n1", "n2">>

SlotSymmetry == Permutations(Slots) \cup Permutations(Requests)
=============================================================================
