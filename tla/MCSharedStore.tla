--------------------------- MODULE MCSharedStore ---------------------------
(* A small SharedStore: a ticket, and a World under the registry's prefix. *)
EXTENDS SharedStore

CONSTANTS ticket, world

MCKeys == {ticket, world}
MCKeysUnder == [p \in Prefixes |-> IF p = "" THEN MCKeys ELSE {world}]
=============================================================================
