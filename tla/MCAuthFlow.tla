----------------------------- MODULE MCAuthFlow -----------------------------
(* A small AuthFlow.  Tickets, tokens and slots are interchangeable; the   *)
(* clients are not: one has an account.                                    *)
EXTENDS AuthFlow, TLC

Symmetry == Permutations(Tickets) \cup Permutations(Tokens)
            \cup Permutations(LoginSlots) \cup Permutations(WorldSlots)
=============================================================================
