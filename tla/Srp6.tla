-------------------------------- MODULE Srp6 --------------------------------
(***************************************************************************)
(* The arithmetic of security/srp6.hpp, over any group: what BIGNUM        *)
(* computes modulo N.  Hashes are numbers the caller draws.                *)
(***************************************************************************)
EXTENDS Naturals

CONSTANTS N,    \* kGroupNHex, a safe prime
          G,    \* kGroupG
          K     \* compute_k: H(N | PAD(g))

ASSUME Srp6Assumption ==
  /\ N \in Nat /\ N > 2 /\ K \in Nat
  /\ G \in 1 .. N - 1 /\ \E inverse \in 1 .. N - 1 : (G * inverse) % N = 1

(* BN_mod_exp *)
ModExp(base, exponent) ==
  LET power[e \in 0 .. exponent] == IF e = 0 THEN 1 ELSE (power[e - 1] * base) % N
  IN power[exponent]

(* compute_verifier_with_salt: v = g^x *)
Verifier(x) == ModExp(G, x)

(* server_begin: B = k v + g^b *)
PublicB(v, b) == (K * v + ModExp(G, b)) % N

(* client_respond: A = g^a *)
PublicA(a) == ModExp(G, a)

(* server_verify: S = (A v^u)^b, without and with u *)
ServerSecretUnblinded(A, v, u, b) == ModExp(A * v, b)

ServerSecret(A, v, u, b) == ModExp(A * ModExp(v, u), b)

(* client_respond: S = (B - k g^x)^(a + u x) *)
ClientSecret(B, x, a, u) ==
  ModExp((B + N * K - (K * ModExp(G, x))) % N, a + u * x)
=============================================================================
