----------------------------- MODULE MCRegistry -----------------------------
(* The intervals of the code, in seconds, with calls of up to one second.  *)
EXTENDS Registry
=============================================================================
