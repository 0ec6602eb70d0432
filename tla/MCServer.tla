------------------------------ MODULE MCServer ------------------------------
(* Small servers: the workers and the connections are interchangeable. *)
EXTENDS Server, TLC

Symmetry == Permutations(Workers) \cup Permutations(Conns)
=============================================================================
