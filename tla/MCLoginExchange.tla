-------------------------- MODULE MCLoginExchange --------------------------
(* The group of the safe prime 7 = 2 * 3 + 1; as in the code, 2 generates  *)
(* its squares.  The exponents drawn are all of them modulo their order,   *)
(* and 0, which the checks are about, is among the hashes.  With K = 5     *)
(* some B is 0.                                                            *)
EXTENDS LoginExchange

MCNonces == 0 .. 2
MCHashes == 0 .. 2
=============================================================================
