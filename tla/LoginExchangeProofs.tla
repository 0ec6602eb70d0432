------------------------ MODULE LoginExchangeProofs ------------------------
(* Proofs about LoginExchange, for any group whose generator has an        *)
(* inverse, any nonces and hashes and any number of creators.  First the   *)
(* algebra of Srp6: the powers BN_mod_exp computes obey the laws of        *)
(* powers, so that the client and the server, each from what it knows,     *)
(* come to the same secret.  Then the exchange, phase by phase: one owner  *)
(* per username, mutual proof, and that the password an account was made   *)
(* with opens it.                                                          *)
EXTENDS LoginExchange, Integers, SequenceTheorems, WellFoundedInduction, TLAPS

(* A set of numbers that holds 0 and every successor holds every number:   *)
(* there would be a least one outside.  (The induction theorems of the     *)
(* library take a predicate.)                                              *)
LEMMA Induction ==
  ASSUME NEW S, S \subseteq Nat, 0 \in S, \A n \in S : n + 1 \in S
  PROVE  S = Nat
<1> SUFFICES ASSUME Nat \ S # {} PROVE FALSE
  OBVIOUS
<1>1. PICK n \in Nat \ S :
        \A m \in Nat \ S : <<m, n>> \notin OpToRel(<, Nat)
  BY NatLessThanWellFounded, WFMin
<1>2. \A m \in Nat \ S : ~(m < n)
  BY <1>1 DEF OpToRel
<1>3. n - 1 \in S
  BY <1>2
<1>4. (n - 1) + 1 = n
  OBVIOUS
<1> QED  BY <1>3, <1>4
-----------------------------------------------------------------------------
(* Remainders modulo N.  A product or a sum may be reduced anywhere.       *)
LEMMA Remainder ==
  ASSUME NEW x \in Nat
  PROVE  /\ x % N \in 0 .. N - 1 /\ x % N \in Nat /\ x \div N \in Nat
         /\ x = N * (x \div N) + (x % N)
  BY Srp6Assumption

LEMMA RemainderIs ==
  ASSUME NEW q \in Nat, NEW r \in 0 .. N - 1
  PROVE  (N * q + r) % N = r
  BY Srp6Assumption

LEMMA OfReduced ==
  ASSUME NEW x \in 0 .. N - 1
  PROVE  x % N = x
  BY Srp6Assumption

LEMMA ModSum ==
  ASSUME NEW x \in Nat, NEW y \in Nat
  PROVE  ((x % N) + y) % N = (x + y) % N
<1> DEFINE q == x \div N
           r == x % N
           p == (r + y) \div N
           s == (r + y) % N
<1>1. N \in Nat /\ q \in Nat /\ r \in Nat /\ x = N * q + r
  BY Remainder, Srp6Assumption
<1>2. p \in Nat /\ s \in 0 .. N - 1 /\ r + y = N * p + s
  <2>1. r + y \in Nat
    BY <1>1
  <2> HIDE DEF r
  <2> QED  BY <2>1, Remainder
<1> HIDE DEF q, r, p, s
<1>3. x + y = N * (q + p) + s
  <2>1. N * (q + p) = N * q + N * p /\ N * q \in Nat /\ N * p \in Nat
    BY <1>1, <1>2
  <2> QED  BY <1>1, <1>2, <2>1
<1>4. q + p \in Nat
  BY <1>1, <1>2
<1>5. (x + y) % N = s
  BY <1>2, <1>3, <1>4, RemainderIs
<1> QED  BY <1>5 DEF s, r

LEMMA ModMultiple ==
  ASSUME NEW x \in Nat, NEW q \in Nat
  PROVE  (N * q + x) % N = x % N
<1>1. N * q \in Nat /\ N * q + 0 = N * q /\ 0 \in 0 .. N - 1
  BY Srp6Assumption
<1>2. (N * q) % N = 0
  <2>1. (N * q + 0) % N = 0
    BY <1>1, RemainderIs
  <2> QED  BY <1>1, <2>1
<1>3. (((N * q) % N) + x) % N = (N * q + x) % N
  BY <1>1, ModSum
<1> QED  BY <1>2, <1>3

LEMMA ModProduct ==
  ASSUME NEW x \in Nat, NEW y \in Nat
  PROVE  ((x % N) * y) % N = (x * y) % N
<1> DEFINE q == x \div N
           r == x % N
           p == (r * y) \div N
           s == (r * y) % N
<1>1. N \in Nat /\ q \in Nat /\ r \in Nat /\ x = N * q + r
  BY Remainder, Srp6Assumption
<1>2. p \in Nat /\ s \in 0 .. N - 1 /\ r * y = N * p + s
  <2>1. r * y \in Nat
    BY <1>1
  <2> HIDE DEF r
  <2> QED  BY <2>1, Remainder
<1> HIDE DEF q, r, p, s
<1>3. x * y = N * (q * y + p) + s
  <2>1. x * y = (N * q) * y + r * y
    BY <1>1
  <2>2. (N * q) * y = N * (q * y)
    BY <1>1
  <2>3. q * y \in Nat
    BY <1>1
  <2>4. N * (q * y + p) = N * (q * y) + N * p
    BY <1>1, <1>2, <2>3
  <2>5. N * (q * y) \in Nat /\ N * p \in Nat
    BY <1>1, <1>2, <2>3
  <2> QED  BY <1>2, <2>1, <2>2, <2>4, <2>5
<1>4. q * y + p \in Nat
  BY <1>1, <1>2
<1>5. (x * y) % N = s
  BY <1>2, <1>3, <1>4, RemainderIs
<1> QED  BY <1>5 DEF s, r
-----------------------------------------------------------------------------
(* The function ModExp computes, and what it is the one and only solution  *)
(* of.                                                                     *)
ArePowers(power, base, exponent) ==
  power = [e \in 0 .. exponent |->
             IF e = 0 THEN 1 ELSE (power[e - 1] * base) % N]

Powers(base, exponent) == CHOOSE power : ArePowers(power, base, exponent)

(* There is such a function: each exponent extends that of the last.       *)
LEMMA PowersExist ==
  ASSUME NEW base \in Nat, NEW exponent \in Nat
  PROVE  ArePowers(Powers(base, exponent), base, exponent)
<1> DEFINE S == {n \in Nat : \E power : ArePowers(power, base, n)}
<1>1. 0 \in S
  <2>1. ArePowers([e \in 0 .. 0 |-> 1], base, 0)
    BY DEF ArePowers
  <2> QED  BY <2>1
<1>2. ASSUME NEW n \in S PROVE n + 1 \in S
  <2>1. PICK power : ArePowers(power, base, n)
    OBVIOUS
  <2> DEFINE longer == [e \in 0 .. n + 1 |->
                          IF e <= n THEN power[e] ELSE (power[n] * base) % N]
  <2>2. ASSUME NEW e \in 0 .. n + 1
        PROVE  longer[e] = IF e = 0 THEN 1 ELSE (longer[e - 1] * base) % N
    <3>1. CASE e = n + 1
      BY <3>1
    <3>2. CASE e \in 0 .. n
      <4>1. power[e] = IF e = 0 THEN 1 ELSE (power[e - 1] * base) % N
        BY <2>1, <3>2 DEF ArePowers
      <4> QED  BY <3>2, <4>1
    <3> QED  BY <3>1, <3>2
  <2>3. longer = [e \in 0 .. n + 1 |-> longer[e]]
    OBVIOUS
  <2> HIDE DEF longer
  <2>4. ArePowers(longer, base, n + 1)
    BY <2>2, <2>3 DEF ArePowers
  <2> QED  BY <2>4
<1>3. S = Nat
  <2> HIDE DEF S
  <2>1. S \subseteq Nat
    BY DEF S
  <2> QED  BY <1>1, <1>2, <2>1, Induction
<1>4. \E power : ArePowers(power, base, exponent)
  BY <1>3
<1> QED  BY <1>4, Zenon DEF Powers

(* Its values do not depend on how far it goes. *)
LEMMA PowersAgree ==
  ASSUME NEW base \in Nat, NEW exponent \in Nat, NEW e \in 0 .. exponent
  PROVE  Powers(base, exponent)[e] = Powers(base, e)[e]
<1> DEFINE S == {n \in Nat : \A m \in Nat : n <= m =>
                   Powers(base, m)[n] = Powers(base, n)[n]}
<1>0. ASSUME NEW m \in Nat, NEW n \in 0 .. m
      PROVE  Powers(base, m)[n] =
               IF n = 0 THEN 1 ELSE (Powers(base, m)[n - 1] * base) % N
  BY PowersExist DEF ArePowers
<1>1. 0 \in S
  BY <1>0
<1>2. ASSUME NEW n \in S PROVE n + 1 \in S
  <2> SUFFICES ASSUME NEW m \in Nat, n + 1 <= m
               PROVE  Powers(base, m)[n + 1] = Powers(base, n + 1)[n + 1]
    OBVIOUS
  <2>1. /\ Powers(base, m)[n + 1] = (Powers(base, m)[n] * base) % N
        /\ Powers(base, n + 1)[n + 1] = (Powers(base, n + 1)[n] * base) % N
    BY <1>0
  <2>2. /\ Powers(base, m)[n] = Powers(base, n)[n]
        /\ Powers(base, n + 1)[n] = Powers(base, n)[n]
    OBVIOUS
  <2> QED  BY <2>1, <2>2
<1>3. S = Nat
  <2> HIDE DEF S
  <2>1. S \subseteq Nat
    BY DEF S
  <2> QED  BY <1>1, <1>2, <2>1, Induction
<1> QED  BY <1>3

(* BN_mod_exp: the 0th power is 1, and the next one is the last one times  *)
(* the base.                                                               *)
LEMMA PowerZero ==
  ASSUME NEW base \in Nat
  PROVE  ModExp(base, 0) = 1
<1>1. ModExp(base, 0) = Powers(base, 0)[0]
  BY DEF ModExp, Powers, ArePowers
<1> QED  BY <1>1, PowersExist DEF ArePowers

LEMMA PowerNext ==
  ASSUME NEW base \in Nat, NEW e \in Nat
  PROVE  ModExp(base, e + 1) = (ModExp(base, e) * base) % N
<1>1. /\ ModExp(base, e) = Powers(base, e)[e]
      /\ ModExp(base, e + 1) = Powers(base, e + 1)[e + 1]
  BY DEF ModExp, Powers, ArePowers
<1>2. ArePowers(Powers(base, e + 1), base, e + 1)
  BY PowersExist
<1>3. Powers(base, e + 1)[e + 1] = (Powers(base, e + 1)[e] * base) % N
  <2> DEFINE power == Powers(base, e + 1)
  <2>1. ArePowers(power, base, e + 1)
    BY <1>2
  <2> HIDE DEF power
  <2>2. power[e + 1] = (power[e] * base) % N
    BY <2>1 DEF ArePowers
  <2> QED  BY <2>2 DEF power
<1>4. Powers(base, e + 1)[e] = Powers(base, e)[e]
  BY PowersAgree
<1> QED  BY <1>1, <1>3, <1>4

(* Every power is a remainder. *)
LEMMA PowerRange ==
  ASSUME NEW base \in Nat, NEW e \in Nat
  PROVE  ModExp(base, e) \in 0 .. N - 1
<1> DEFINE S == {n \in Nat : ModExp(base, n) \in 0 .. N - 1}
<1>1. 0 \in S
  BY PowerZero, Srp6Assumption
<1>2. ASSUME NEW n \in S PROVE n + 1 \in S
  <2>1. ModExp(base, n) * base \in Nat
    BY Srp6Assumption
  <2> QED  BY <2>1, PowerNext, Remainder
<1>3. S = Nat
  <2> HIDE DEF S
  <2>1. S \subseteq Nat
    BY DEF S
  <2> QED  BY <1>1, <1>2, <2>1, Induction
<1> QED  BY <1>3

LEMMA PowerNat ==
  ASSUME NEW base \in Nat, NEW e \in Nat
  PROVE  ModExp(base, e) \in Nat
  BY PowerRange, Srp6Assumption
-----------------------------------------------------------------------------
(* The laws of powers. *)
LEMMA PowerSum ==
  ASSUME NEW base \in Nat, NEW m \in Nat, NEW n \in Nat
  PROVE  ModExp(base, m + n) = (ModExp(base, m) * ModExp(base, n)) % N
<1> DEFINE S == {k \in Nat : ModExp(base, m + k) =
                               (ModExp(base, m) * ModExp(base, k)) % N}
<1>1. 0 \in S
  <2>1. ModExp(base, m) * ModExp(base, 0) = ModExp(base, m)
    BY PowerZero, PowerNat
  <2> QED  BY <2>1, PowerRange, OfReduced
<1>2. ASSUME NEW k \in S PROVE k + 1 \in S
  <2> DEFINE p == ModExp(base, m)
             q == ModExp(base, k)
  <2>0. p \in Nat /\ q \in Nat /\ p * q \in Nat /\ q * base \in Nat
    <3>1. p \in Nat /\ q \in Nat
      BY PowerNat
    <3> HIDE DEF p, q
    <3> QED  BY <3>1
  <2>1. ModExp(base, m + (k + 1)) = (ModExp(base, m + k) * base) % N
    <3>1. m + (k + 1) = (m + k) + 1 /\ m + k \in Nat
      OBVIOUS
    <3> QED  BY <3>1, PowerNext
  <2>2. ModExp(base, m + k) = (p * q) % N
    OBVIOUS
  <2>3. (((p * q) % N) * base) % N = ((p * q) * base) % N
    BY <2>0, ModProduct
  <2>4. (((q * base) % N) * p) % N = ((q * base) * p) % N
    BY <2>0, ModProduct
  <2>5. ModExp(base, k + 1) = (q * base) % N
    BY PowerNext
  <2>6. ((q * base) % N) * p = p * ((q * base) % N)
    <3>1. (q * base) % N \in Nat
      BY <2>0, Remainder
    <3> HIDE DEF p, q
    <3> QED  BY <2>0, <3>1
  <2>7. (q * base) * p = (p * q) * base
    <3> HIDE DEF p, q
    <3> QED  BY <2>0
  <2> QED  BY <2>1, <2>2, <2>3, <2>4, <2>5, <2>6, <2>7
<1>3. S = Nat
  <2> HIDE DEF S
  <2>1. S \subseteq Nat
    BY DEF S
  <2> QED  BY <1>1, <1>2, <2>1, Induction
<1> QED  BY <1>3

LEMMA PowerOfReduced ==
  ASSUME NEW base \in Nat, NEW n \in Nat
  PROVE  ModExp(base % N, n) = ModExp(base, n)
<1> DEFINE S == {k \in Nat : ModExp(base % N, k) = ModExp(base, k)}
<1>0. base % N \in Nat
  BY Remainder
<1>1. 0 \in S
  BY <1>0, PowerZero
<1>2. ASSUME NEW k \in S PROVE k + 1 \in S
  <2> DEFINE p == ModExp(base, k)
  <2>1. /\ ModExp(base % N, k + 1) = (p * (base % N)) % N
        /\ ModExp(base, k + 1) = (p * base) % N
    BY <1>0, PowerNext
  <2>2. ((base % N) * p) % N = (base * p) % N
    BY PowerNat, ModProduct
  <2>3. (base % N) * p = p * (base % N) /\ base * p = p * base
    <3>1. p \in Nat
      BY PowerNat
    <3> HIDE DEF p
    <3> QED  BY <1>0, <3>1
  <2> QED  BY <2>1, <2>2, <2>3
<1>3. S = Nat
  <2> HIDE DEF S
  <2>1. S \subseteq Nat
    BY DEF S
  <2> QED  BY <1>1, <1>2, <2>1, Induction
<1> QED  BY <1>3

LEMMA PowerOfPower ==
  ASSUME NEW base \in Nat, NEW m \in Nat, NEW n \in Nat
  PROVE  ModExp(ModExp(base, m), n) = ModExp(base, m * n)
<1> DEFINE p == ModExp(base, m)
           S == {k \in Nat : ModExp(p, k) = ModExp(base, m * k)}
<1>0. p \in Nat
  BY PowerNat
<1>1. 0 \in S
  <2>1. m * 0 = 0
    OBVIOUS
  <2> QED  BY <1>0, <2>1, PowerZero
<1>2. ASSUME NEW k \in S PROVE k + 1 \in S
  <2>1. m * (k + 1) = m * k + m /\ m * k \in Nat
    OBVIOUS
  <2>2. ModExp(base, m * k + m) = (ModExp(base, m * k) * p) % N
    BY <2>1, PowerSum
  <2>3. ModExp(p, k + 1) = (ModExp(p, k) * p) % N
    BY <1>0, PowerNext
  <2> QED  BY <2>1, <2>2, <2>3
<1>3. S = Nat
  <2> HIDE DEF S
  <2>1. S \subseteq Nat
    BY DEF S
  <2> QED  BY <1>1, <1>2, <2>1, Induction
<1> QED  BY <1>3

(* No power of the generator is zero: multiplied by its inverse, it would  *)
(* be zero one step earlier, and the 0th is 1.                             *)
LEMMA GeneratorPower ==
  ASSUME NEW n \in Nat
  PROVE  ModExp(G, n) # 0
<1> DEFINE S == {k \in Nat : ModExp(G, k) # 0}
<1>0. G \in Nat /\ 0 \in 0 .. N - 1 /\ 1 \in 0 .. N - 1
  BY Srp6Assumption
<1>1. 0 \in S
  BY <1>0, PowerZero
<1>2. ASSUME NEW k \in S PROVE k + 1 \in S
  <2> DEFINE p == ModExp(G, k)
  <2>1. PICK h \in Nat : (G * h) % N = 1
    BY Srp6Assumption
  <2>2. p \in 0 .. N - 1 /\ p \in Nat
    BY <1>0, PowerRange, PowerNat
  <2>3. p # 0
    OBVIOUS
  <2>4. ASSUME ModExp(G, k + 1) = 0 PROVE FALSE
    <3>1. (p * G) % N = 0
      BY <1>0, <2>4, PowerNext
    <3> HIDE DEF p
    <3>2. p * G \in Nat /\ G * h \in Nat
      BY <1>0, <2>1, <2>2
    <3>3. ((p * G) * h) % N = (0 * h) % N
      BY <2>1, <3>1, <3>2, ModProduct
    <3>4. (0 * h) % N = 0
      <4>1. 0 * h = 0
        BY <2>1
      <4> QED  BY <1>0, <4>1, OfReduced
    <3>5. (1 * p) % N = ((G * h) * p) % N
      BY <2>1, <2>2, <3>2, ModProduct
    <3>6. (G * h) * p = (p * G) * h /\ 1 * p = p
      BY <1>0, <2>1, <2>2
    <3> QED  BY <2>2, <2>3, <3>3, <3>4, <3>5, <3>6, OfReduced
  <2> QED  BY <2>4
<1>3. S = Nat
  <2> HIDE DEF S
  <2>1. S \subseteq Nat
    BY DEF S
  <2> QED  BY <1>1, <1>2, <2>1, Induction
<1> QED  BY <1>3
-----------------------------------------------------------------------------
(* The values of the exchange are remainders. *)
LEMMA ExchangeTypes ==
  ASSUME NEW x \in Nat, NEW a \in Nat, NEW b \in Nat, NEW w \in Nat,
         NEW A \in Nat, NEW B \in Nat, NEW v \in Nat
  PROVE  /\ Verifier(x) \in 0 .. N - 1 /\ PublicA(a) \in 0 .. N - 1
         /\ PublicB(v, b) \in 0 .. N - 1
         /\ ServerSecret(A, v, w, b) \in 0 .. N - 1
         /\ ClientSecret(B, x, a, w) \in 0 .. N - 1
<1>1. G \in Nat /\ K \in Nat /\ N \in Nat
  BY Srp6Assumption
<1>2. Verifier(x) \in 0 .. N - 1 /\ PublicA(a) \in 0 .. N - 1
  BY <1>1, PowerRange DEF Verifier, PublicA
<1>3. PublicB(v, b) \in 0 .. N - 1
  <2>1. ModExp(G, b) \in Nat /\ K * v \in Nat
    <3>1. ModExp(G, b) \in Nat
      BY <1>1, PowerNat
    <3> QED  BY <1>1, <3>1
  <2>2. K * v + ModExp(G, b) \in Nat
    BY <2>1
  <2> QED  BY <2>2, Remainder DEF PublicB
<1>4. ServerSecret(A, v, w, b) \in 0 .. N - 1
  <2> DEFINE p == ModExp(v, w)
  <2>1. A * p \in Nat
    <3>1. p \in Nat
      BY PowerNat
    <3> HIDE DEF p
    <3> QED  BY <3>1
  <2> QED  BY <2>1, PowerRange DEF ServerSecret
<1>5. ClientSecret(B, x, a, w) \in 0 .. N - 1
  <2> DEFINE p == ModExp(G, x)
             d == B + N * K - (K * p)
  <2>1. d \in Nat /\ a + w * x \in Nat
    <3>1. p \in 0 .. N - 1
      BY <1>1, PowerRange
    <3> HIDE DEF p
    <3>2. K * p <= K * N
      BY <1>1, <3>1
    <3> QED  BY <1>1, <3>1, <3>2
  <2>2. d % N \in Nat
    <3> HIDE DEF d
    <3> QED  BY <2>1, Remainder
  <2> QED  BY <2>1, <2>2, PowerRange DEF ClientSecret
<1> QED  BY <1>2, <1>3, <1>4, <1>5

(* A client that proves the password the account was created with comes to *)
(* the secret of the server, whatever is drawn, and its A is accepted.     *)
THEOREM SecretsAgree ==
  ASSUME NEW x \in Nat, NEW a \in Nat, NEW b \in Nat, NEW w \in Nat
  PROVE  /\ ClientSecret(PublicB(Verifier(x), b), x, a, w) =
              ServerSecret(PublicA(a), Verifier(x), w, b)
         /\ PublicA(a) % N # 0
<1> DEFINE v == ModExp(G, x)
           gb == ModExp(G, b)
           A == ModExp(G, a)
<1>0. /\ G \in Nat /\ K \in Nat /\ N \in Nat
      /\ v \in 0 .. N - 1 /\ v \in Nat
      /\ gb \in 0 .. N - 1 /\ gb \in Nat
      /\ A \in 0 .. N - 1 /\ A \in Nat
      /\ a + w * x \in Nat
  <2>1. G \in Nat /\ K \in Nat /\ N \in Nat /\ a + w * x \in Nat
    BY Srp6Assumption
  <2>2. v \in 0 .. N - 1 /\ gb \in 0 .. N - 1 /\ A \in 0 .. N - 1
    BY <2>1, PowerRange
  <2> QED  BY <2>1, <2>2
<1>1. PublicA(a) % N # 0
  BY <1>0, OfReduced, GeneratorPower DEF PublicA
(* The client takes k v off B again. *)
<1>2. (((K * v + gb) % N) + N * K - (K * v)) % N = gb
  <2> HIDE DEF v, gb
  <2> DEFINE B == (K * v + gb) % N
             q == (K * v + gb) \div N
             d == B + N * K - (K * v)
  <2>1. B \in Nat /\ q \in Nat /\ K * v + gb = N * q + B
    <3>1. K * v + gb \in Nat
      BY <1>0
    <3> QED  BY <3>1, Remainder
  <2> HIDE DEF B, q
  <2>2. d \in Nat
    <3>1. K * v <= K * N /\ K * v \in Nat
      BY <1>0
    <3> QED  BY <1>0, <2>1, <3>1
  <2>3. N * q + d = N * K + gb /\ N * q \in Nat
    <3>1. K * v \in Nat /\ N * K \in Nat /\ N * q \in Nat
      BY <1>0, <2>1
    <3> QED  BY <1>0, <2>1, <3>1
  <2> HIDE DEF d
  <2>4. d % N = (N * K + gb) % N
    BY <2>1, <2>2, <2>3, ModMultiple
  <2>5. (N * K + gb) % N = gb
    BY <1>0, RemainderIs
  <2> QED  BY <2>4, <2>5 DEF d, B
(* So both raise g to the same power. *)
<1>3. ModExp(gb, a + w * x) = ModExp(G, b * (a + w * x))
  BY <1>0, PowerOfPower
<1>4. (A * ModExp(v, w)) % N = ModExp(G, a + w * x)
  <2>1. ModExp(v, w) = ModExp(G, x * w)
    BY <1>0, PowerOfPower
  <2>2. x * w = w * x /\ w * x \in Nat
    OBVIOUS
  <2> QED  BY <1>0, <2>1, <2>2, PowerSum
<1>5. ModExp(A * ModExp(v, w), b) = ModExp(G, (a + w * x) * b)
  <2>1. A * ModExp(v, w) \in Nat
    <3>1. ModExp(v, w) \in Nat
      BY <1>0, PowerNat
    <3> HIDE DEF A, v
    <3> QED  BY <1>0, <3>1
  <2>2. ModExp(A * ModExp(v, w), b) = ModExp(ModExp(G, a + w * x), b)
    BY <1>4, <2>1, PowerOfReduced
  <2> QED  BY <1>0, <2>2, PowerOfPower
<1>6. (a + w * x) * b = b * (a + w * x)
  <2> DEFINE n == a + w * x
  <2>1. n \in Nat
    BY <1>0
  <2> HIDE DEF n
  <2>2. n * b = b * n
    BY <2>1
  <2> QED  BY <2>2 DEF n
<1>7. ClientSecret(PublicB(Verifier(x), b), x, a, w) = ModExp(gb, a + w * x)
  BY <1>2 DEF ClientSecret, PublicB, Verifier
<1>8. ServerSecret(PublicA(a), Verifier(x), w, b) = ModExp(A * ModExp(v, w), b)
  BY DEF ServerSecret, PublicA, Verifier
<1> QED  BY <1>1, <1>3, <1>5, <1>6, <1>7, <1>8
-----------------------------------------------------------------------------
(* The types of the exchange, but for the lengths of the queues.           *)
Types ==
  /\ creator \in [Creators -> {"start", "created", "refused", "error"}]
  /\ hash \in [Creators -> Hashes \cup {0}]
  /\ account \in Creators \cup {Other} /\ typed \in Creators \cup {Other}
  /\ at \in Waiting \cup {"start", "finished", "turned away", "exception",
                          "refused", "alert", "cut off"}
  /\ open \in BOOLEAN
  /\ stage \in {"hello", "proof", "put", "list", "done"}
  /\ server \in [v : 0 .. N - 1, b : Nonces \cup {0}]
  /\ proof \in [A : 0 .. N - 1, M1 : Secrets \X Secrets \X Secrets, S : Secrets]
  /\ u \in Hashes \cup {0}
  /\ result \in (0 .. N - 1) \X (Secrets \X Secrets \X Secrets) \X Secrets
  /\ looked \in {"none", "row", "absent", "unread"} /\ known \in BOOLEAN

(* The messages that can be on their way. *)
Hello == [op |-> "hello"]
TheProof == [op |-> "proof", A |-> proof.A, M1 |-> proof.M1]
TheError == [op |-> "error"]
TheChallenge == [op |-> "challenge", salt |-> IF looked = "row" THEN account ELSE Other,
                 B |-> PublicB(server.v, server.b)]
TheAnswer == [op |-> "proof", M2 |-> result]
TheWorlds == [op |-> "worlds"]

(* The phases of an exchange. *)
Greeting ==
  /\ stage = "hello" /\ at \in {"start", "challenge"} /\ looked = "none"
  /\ toServer \in {<<>>, <<Hello>>} /\ toClient \in {<<>>, <<TheError>>}
  /\ at = "start" => toServer = <<>> /\ toClient = <<>>
  /\ open => toClient = <<>>
  /\ result = NoResult

Challenged ==
  /\ stage = "proof" /\ at = "challenge"
  /\ toServer = <<>> /\ toClient = <<TheChallenge>>
  /\ result = NoResult

Proving ==
  /\ stage = "proof" /\ at = "proof"
  /\ toServer \in {<<>>, <<TheProof>>} /\ toClient \in {<<>>, <<TheError>>}
  /\ open => toClient = <<>>
  /\ toClient # <<>> => ~Verifies(proof.A, proof.M1)
  /\ result = NoResult

Proved ==
  /\ stage \in {"put", "list", "done"} /\ at \in {"proof", "worlds", "finished"}
  /\ toServer = <<>>
  /\ toClient \in {<<>>, <<TheAnswer>>, <<TheAnswer, TheWorlds>>, <<TheWorlds>>}
  /\ stage = "put" => toClient = <<>> /\ at = "proof"
  /\ stage = "list" => toClient \in {<<>>, <<TheAnswer>>} /\ at # "finished"
  /\ at = "proof" => toClient # <<TheWorlds>> /\ (open /\ stage # "put" => toClient # <<>>)
  /\ at = "worlds" => toClient \in {<<>>, <<TheWorlds>>}
  /\ at = "finished" => toClient = <<>>
  /\ result = ExpectedM2 /\ result # NoResult

Over ==
  /\ \/ at \in {"turned away", "refused", "cut off"} /\ ~open
     \/ at = "exception" /\ stage = "proof" /\ toServer = <<>>
  /\ Len(toServer) \in 0 .. 1 /\ Len(toClient) \in 0 .. 2
  /\ result # NoResult => result = ExpectedM2

FlowInv == Greeting \/ Challenged \/ Proving \/ Proved \/ Over

(* The account a client knew of stays; what the server has of it is of the *)
(* row; and then, u aside, its proof verifies.                             *)
AccountInv ==
  /\ known => typed \in Creators /\ account = typed
  /\ at # "start" /\ known => looked # "absent"
  /\ stage # "hello" => looked # "none"
  /\ looked = "row" => account \in Creators /\ server.v = Verifier(hash[account])

ProofInv ==
  /\ proof.M1[3] = proof.S
  /\ at = "proof" /\ known /\ looked = "row" /\ u # 0 => Verifies(proof.A, proof.M1)
  /\ RightPasswordPasses
-----------------------------------------------------------------------------
(* Short queues of messages, computed. *)
LEMMA ShortQueues ==
  \A m, n : /\ Append(<<>>, m) = <<m>> /\ Append(<<m>>, n) = <<m, n>>
            /\ Head(<<m>>) = m /\ Head(<<m, n>>) = m
            /\ Tail(<<m>>) = <<>> /\ Tail(<<m, n>>) = <<n>>
            /\ <<m>> # <<>> /\ <<m, n>> # <<>>
            /\ Len(<<m>>) = 1 /\ Len(<<m, n>>) = 2
<1> TAKE m, n
<1>1. Append(<<>>, m) = <<m>>
  OBVIOUS
<1>2. Append(<<m>>, n) = <<m, n>>
  <2> DEFINE s == <<m>>
             t == <<m, n>>
             a == Append(s, n)
  <2>1. /\ s \in Seq({m, n}) /\ t \in Seq({m, n}) /\ n \in {m, n}
        /\ Len(s) = 1 /\ Len(t) = 2
    OBVIOUS
  <2>2. a \in Seq({m, n}) /\ Len(a) = 2 /\ a[1] = s[1] /\ a[2] = n
    BY <2>1, AppendProperties
  <2>3. \A i \in 1 .. Len(t) : a[i] = t[i]
    BY <2>1, <2>2
  <2> HIDE DEF s, t, a
  <2>4. a = t
    BY <2>1, <2>2, <2>3, SeqEqual
  <2> QED  BY <2>4 DEF s, t, a
<1>3. Head(<<m>>) = m /\ Head(<<m, n>>) = m
  OBVIOUS
<1>4. Tail(<<m>>) = <<>>
  OBVIOUS
<1>5. Tail(<<m, n>>) = <<n>>
  OBVIOUS
<1>6. <<m>> # <<>> /\ <<m, n>> # <<>>
  OBVIOUS
<1>7. Len(<<m>>) = 1 /\ Len(<<m, n>>) = 2
  OBVIOUS
<1> QED  BY <1>1, <1>2, <1>3, <1>4, <1>5, <1>6, <1>7

LEMMA Lengths == Len(<<>>) = 0
  OBVIOUS

(* The kinds of the messages tell them apart. *)
LEMMA Kinds ==
  /\ Hello.op = "hello" /\ TheProof.op = "proof" /\ TheError.op = "error"
  /\ TheChallenge.op = "challenge" /\ TheAnswer.op = "proof"
  /\ TheWorlds.op = "worlds"
  /\ TheProof.A = proof.A /\ TheProof.M1 = proof.M1
  /\ TheAnswer.M2 = result
  /\ TheChallenge.B = PublicB(server.v, server.b)
  /\ TheChallenge.salt = IF looked = "row" THEN account ELSE Other
  BY DEF Hello, TheProof, TheError, TheChallenge, TheAnswer, TheWorlds

(* The phases and the message each reads. *)
LEMMA HelloWaits ==
  ASSUME FlowInv, Receives("hello")
  PROVE  /\ Greeting /\ at = "challenge" /\ toServer = <<Hello>>
         /\ toClient = <<>> /\ toServer' = <<>>
<1> USE ShortQueues, Kinds DEF Receives
<1>1. CASE Greeting
  BY <1>1 DEF Greeting
<1>2. CASE Challenged \/ Proved
  BY <1>2 DEF Challenged, Proved
<1>3. CASE Proving
  BY <1>3 DEF Proving
<1>4. CASE Over
  BY <1>4 DEF Over
<1> QED  BY <1>1, <1>2, <1>3, <1>4 DEF FlowInv

LEMMA ProofWaits ==
  ASSUME FlowInv, Receives("proof")
  PROVE  /\ Proving /\ toServer = <<TheProof>> /\ toClient = <<>>
         /\ Received.A = proof.A /\ Received.M1 = proof.M1 /\ toServer' = <<>>
<1> USE ShortQueues, Kinds DEF Receives, Received
<1>1. CASE Greeting
  BY <1>1 DEF Greeting
<1>2. CASE Challenged \/ Proved
  BY <1>2 DEF Challenged, Proved
<1>3. CASE Proving
  BY <1>3 DEF Proving
<1>4. CASE Over
  BY <1>4 DEF Over
<1> QED  BY <1>1, <1>2, <1>3, <1>4 DEF FlowInv

LEMMA ChallengeWaits ==
  ASSUME FlowInv, ClientReads("challenge")
  PROVE  \/ /\ Challenged /\ Answer = TheChallenge /\ toClient' = <<>>
            /\ Answer.op = "challenge"
         \/ Greeting /\ toClient = <<TheError>> /\ Answer.op = "error" /\ toClient' = <<>>
<1> USE ShortQueues, Kinds DEF ClientReads, Answer
<1>1. CASE Greeting
  BY <1>1 DEF Greeting
<1>2. CASE Challenged
  BY <1>2 DEF Challenged
<1>3. CASE Proving \/ Proved
  BY <1>3 DEF Proving, Proved
<1>4. CASE Over
  BY <1>4 DEF Over
<1> QED  BY <1>1, <1>2, <1>3, <1>4 DEF FlowInv

LEMMA AnswerWaits ==
  ASSUME FlowInv, ClientReads("proof")
  PROVE  \/ Proving /\ toClient = <<TheError>> /\ Answer.op = "error" /\ toClient' = <<>>
         \/ /\ Proved /\ Answer.op = "proof" /\ Answer.M2 = result
            /\ \/ toClient = <<TheAnswer>> /\ toClient' = <<>>
               \/ toClient = <<TheAnswer, TheWorlds>> /\ toClient' = <<TheWorlds>>
<1> USE ShortQueues, Kinds DEF ClientReads, Answer
<1>1. CASE Greeting \/ Challenged
  BY <1>1 DEF Greeting, Challenged
<1>2. CASE Proving
  BY <1>2 DEF Proving
<1>3. CASE Proved
  <2>1. toClient \in {<<TheAnswer>>, <<TheAnswer, TheWorlds>>}
    BY <1>3 DEF Proved
  <2>2. CASE toClient = <<TheAnswer>>
    BY <1>3, <2>2
  <2>3. CASE toClient = <<TheAnswer, TheWorlds>>
    BY <1>3, <2>3
  <2> QED  BY <2>1, <2>2, <2>3
<1>4. CASE Over
  BY <1>4 DEF Over
<1> QED  BY <1>1, <1>2, <1>3, <1>4 DEF FlowInv

LEMMA WorldsWait ==
  ASSUME FlowInv, ClientReads("worlds")
  PROVE  Proved /\ stage = "done" /\ toClient = <<TheWorlds>> /\ toClient' = <<>>
<1> USE ShortQueues, Kinds DEF ClientReads
<1>1. CASE Greeting \/ Challenged \/ Proving
  BY <1>1 DEF Greeting, Challenged, Proving
<1>2. CASE Proved
  <2>1. <<TheWorlds>> # <<TheAnswer>>
    OBVIOUS
  <2> QED  BY <1>2, <2>1 DEF Proved
<1>3. CASE Over
  BY <1>3 DEF Over
<1> QED  BY <1>1, <1>2, <1>3 DEF FlowInv
-----------------------------------------------------------------------------
(* The numbers of the exchange. *)
LEMMA Numbers ==
  ASSUME Types
  PROVE  /\ server.v \in Nat /\ server.b \in Nat /\ proof.A \in Nat /\ u \in Nat
         /\ \A c \in Creators : hash[c] \in Nat
<1>1. /\ Nonces \cup {0} \subseteq Nat /\ Hashes \cup {0} \subseteq Nat
      /\ 0 .. N - 1 \subseteq Nat
  BY LoginAssumption, Srp6Assumption
<1>2. server.v \in 0 .. N - 1 /\ server.b \in Nonces \cup {0} /\ proof.A \in 0 .. N - 1
  BY DEF Types
<1>3. u \in Hashes \cup {0} /\ \A c \in Creators : hash[c] \in Hashes \cup {0}
  BY DEF Types
<1> QED  BY <1>1, <1>2, <1>3

(* A step that does none of the arithmetic keeps the other types. *)
States == Waiting \cup {"start", "finished", "turned away", "exception",
                       "refused", "alert", "cut off"}

LEMMA TypeFrame ==
  ASSUME Types,
         UNCHANGED <<typed, server, proof, u, result, looked, known>>,
         creator' \in [Creators -> {"start", "created", "refused", "error"}],
         hash' \in [Creators -> Hashes \cup {0}],
         account' \in Creators \cup {Other},
         at' \in States, open' \in BOOLEAN,
         stage' \in {"hello", "proof", "put", "list", "done"}
  PROVE  Types'
<1>1. known' \in BOOLEAN
  BY Zenon DEF Types
<1>2. /\ typed' \in Creators \cup {Other} /\ u' \in Hashes \cup {0}
      /\ looked' \in {"none", "row", "absent", "unread"}
  BY DEF Types
<1>3. at' \in Waiting \cup {"start", "finished", "turned away", "exception",
                         "refused", "alert", "cut off"}
  BY DEF States
<1>4. server' \in [v : 0 .. N - 1, b : Nonces \cup {0}]
  BY DEF Types
<1>5. proof' \in [A : 0 .. N - 1, M1 : Secrets \X Secrets \X Secrets, S : Secrets]
  BY DEF Types
<1>6. result' \in (0 .. N - 1) \X (Secrets \X Secrets \X Secrets) \X Secrets
  BY DEF Types
<1> QED  BY <1>1, <1>2, <1>3, <1>4, <1>5, <1>6 DEF Types

(* A step keeps the types of the variables. *)
LEMMA TypeStep ==
  Types /\ FlowInv /\ [Next]_vars => Types'
<1> SUFFICES ASSUME Types, FlowInv, [Next]_vars PROVE Types'
  OBVIOUS
<1>0. /\ Nonces \subseteq Nat /\ Hashes \subseteq Nat /\ Other \notin Creators
      /\ N \in Nat /\ 0 .. N - 1 \subseteq Secrets /\ 0 .. N - 1 \subseteq Nat
  BY LoginAssumption, Srp6Assumption DEF Secrets
<1> USE DEF table, client, wire, session, history
<1>a. /\ creator \in [Creators -> {"start", "created", "refused", "error"}]
      /\ hash \in [Creators -> Hashes \cup {0}]
      /\ account \in Creators \cup {Other} /\ at \in States
      /\ stage \in {"hello", "proof", "put", "list", "done"}
  BY DEF Types, States
<1>b. open \in BOOLEAN
  BY Zenon DEF Types
<1>1. ASSUME NEW c \in Creators, Create(c) \/ CreateFails(c) \/ CreateThrows(c)
      PROVE  Types'
  <2>1. UNCHANGED <<client, wire, session, u, history>>
    BY <1>1 DEF Create, Insert, CreateFails, CreateThrows
  <2>2. creator' \in [Creators -> {"start", "created", "refused", "error"}]
    BY <1>1 DEF Types, Create, Insert, CreateFails, CreateThrows
  <2>3. hash' \in [Creators -> Hashes \cup {0}]
    BY <1>1 DEF Types, Create, Insert, CreateFails, CreateThrows
  <2>4. account' \in Creators \cup {Other}
    BY <1>1 DEF Types, Create, Insert, CreateFails, CreateThrows
  <2>5. UNCHANGED <<typed, at, open, stage, server, proof, u, result, looked, known>>
    BY <2>1
  <2> QED  BY <1>a, <1>b, <2>2, <2>3, <2>4, <2>5, TypeFrame
<1>2. CASE SendHello
  <2>1. known' \in BOOLEAN
    BY <1>2, Zenon DEF SendHello
  <2> QED  BY <1>2, <2>1 DEF SendHello, Types, Waiting
<1>3. CASE Respond
  <2>1. PICK a \in Nonces, h \in Hashes, x \in HashOfTyped(Answer.salt) :
          LET A == PublicA(a)
              S == ClientSecret(Answer.B, x, a, h)
              M1 == <<A, Answer.B, S>>
          IN u' = h /\ proof' = [A |-> A, M1 |-> M1, S |-> S]
    BY <1>3 DEF Respond
  <2>2. Answer.B \in 0 .. N - 1
    <3>1. Answer.B = PublicB(server.v, server.b)
      BY <1>3, ChallengeWaits, Kinds DEF Respond
    <3>2. server.v \in Nat /\ server.b \in Nat
      BY Numbers
    <3>3. \A v, b \in Nat : PublicB(v, b) \in 0 .. N - 1
      BY ExchangeTypes
    <3> QED  BY <3>1, <3>2, <3>3
  <2>3. x \in Nat
    BY <1>0, Numbers DEF HashOfTyped
  <2>4. PublicA(a) \in 0 .. N - 1 /\ ClientSecret(Answer.B, x, a, h) \in 0 .. N - 1
    BY <1>0, <2>2, <2>3, ExchangeTypes
  <2>5. proof' \in [A : 0 .. N - 1, M1 : Secrets \X Secrets \X Secrets, S : Secrets]
    BY <1>0, <2>1, <2>2, <2>4
  <2> QED  BY <1>3, <2>1, <2>5 DEF Respond, Types, Waiting
<1>4. CASE GiveUp \/ ReadProof \/ ReadWorlds \/ NoAnswer
  <2>1. UNCHANGED <<creator, hash, account, typed, open, stage, server, proof, u,
                    result, looked, known>>
    BY <1>4 DEF GiveUp, ReadProof, ReadWorlds, NoAnswer
  <2>2. at' \in States
    BY <1>4 DEF GiveUp, ReadProof, ReadWorlds, NoAnswer, States, Waiting
  <2> QED  BY <1>a, <1>b, <2>1, <2>2, TypeFrame
<1>5. CASE RefuseTicket \/ LookupFails \/ RefuseProof \/ Cut
  <2>1. UNCHANGED <<creator, hash, account, typed, at, stage, server, proof, u,
                    result, looked, known>>
    BY <1>5 DEF RefuseTicket, LookupFails, RefuseProof, Cut
  <2>2. open' = FALSE
    BY <1>5 DEF RefuseTicket, LookupFails, RefuseProof, Cut
  <2> QED  BY <1>a, <2>1, <2>2, TypeFrame
<1>6. CASE Lookup
  <2>1. looked' \in {"none", "row", "absent", "unread"}
    BY <1>6 DEF Lookup, FindResults
  <2>2. server' \in [v : 0 .. N - 1, b : Nonces \cup {0}]
    <3>1. PICK x \in Nat : \E salt : Challenge(salt, Verifier(x))
      <4>1. CASE looked' = "row" /\ Challenge(account, Verifier(hash[account]))
        <5>1. account \in Creators
          BY <1>6, <4>1 DEF Lookup, FindResults, Types
        <5> QED  BY <1>0, <4>1, <5>1 DEF Types
      <4> QED  BY <1>0, <1>6, <4>1 DEF Lookup
    <3>2. Verifier(x) \in 0 .. N - 1
      BY ExchangeTypes
    <3> QED  BY <3>1, <3>2 DEF Challenge
  <2> QED  BY <1>6, <2>1, <2>2 DEF Lookup, Types
<1>7. CASE AcceptProof
  <2>1. Received.A = proof.A /\ Received.M1 = proof.M1
    BY <1>7, ProofWaits DEF AcceptProof, ProofComes
  <2>2. SecretFor(proof.A) \in 0 .. N - 1
    BY Numbers, ExchangeTypes DEF SecretFor
  <2>3. result' \in (0 .. N - 1) \X (Secrets \X Secrets \X Secrets) \X Secrets
    BY <1>0, <1>7, <2>1, <2>2 DEF AcceptProof, M2Of, Types
  <2> QED  BY <1>7, <2>3 DEF AcceptProof, Types
<1>8. CASE SendProof \/ SendWorlds
  <2>1. UNCHANGED <<creator, hash, account, typed, at, open, server, proof, u,
                    result, looked, known>>
    BY <1>8 DEF SendProof, SendWorlds
  <2>2. stage' \in {"list", "done"}
    BY <1>8 DEF SendProof, SendWorlds
  <2> QED  BY <1>a, <1>b, <2>1, <2>2, TypeFrame
<1>9. CASE UNCHANGED vars
  <2>1. UNCHANGED <<creator, hash, account, typed, at, open, stage, server, proof,
                    u, result, looked, known>>
    BY <1>9 DEF vars
  <2> QED  BY <1>a, <1>b, <2>1, TypeFrame
<1> QED  BY <1>1, <1>2, <1>3, <1>4, <1>5, <1>6, <1>7, <1>8, <1>9
         DEF Next, ClientStep, ServerStep
-----------------------------------------------------------------------------
(* The phases depend on nothing but the exchange.                          *)
LEMMA FlowFrame ==
  ASSUME FlowInv, UNCHANGED <<at, toServer, toClient, open, stage, proof, server, u, result, looked>>,
         TheChallenge' = TheChallenge
  PROVE  FlowInv'
<1>1. /\ TheProof' = TheProof /\ TheAnswer' = TheAnswer /\ ExpectedM2' = ExpectedM2
      /\ Verifies(proof.A, proof.M1)' = Verifies(proof.A, proof.M1)
      /\ NoResult' = NoResult
  BY DEF TheProof, TheAnswer, ExpectedM2, Verifies, SecretFor, NoResult, M2Of, NoSecret
<1>2. Greeting => Greeting'
  BY <1>1 DEF Greeting
<1>3. Challenged => Challenged'
  BY <1>1 DEF Challenged
<1>4. Proving => Proving'
  BY <1>1 DEF Proving
<1>5. Proved => Proved'
  BY <1>1 DEF Proved
<1>6. Over => Over'
  BY <1>1 DEF Over
<1> QED  BY <1>2, <1>3, <1>4, <1>5, <1>6 DEF FlowInv

(* An exchange that ends leaves at most one message to the server and two  *)
(* to the client.                                                          *)
LEMMA OverFrom ==
  ASSUME FlowInv
  PROVE  /\ Len(toServer) \in 0 .. 1 /\ Len(toClient) \in 0 .. 2
         /\ result # NoResult => result = ExpectedM2
<1> USE ShortQueues, Lengths
<1>1. CASE Greeting
  BY <1>1 DEF Greeting
<1>2. CASE Challenged
  BY <1>2 DEF Challenged
<1>3. CASE Proving
  BY <1>3 DEF Proving
<1>4. CASE Proved
  BY <1>4 DEF Proved
<1>5. CASE Over
  BY <1>5 DEF Over
<1> QED  BY <1>1, <1>2, <1>3, <1>4, <1>5 DEF FlowInv

(* The client's steps lead from phase to phase. *)
LEMMA ClientFlow ==
  Types /\ FlowInv /\ ClientStep => FlowInv'
<1> SUFFICES ASSUME Types, FlowInv, ClientStep PROVE FlowInv'
  OBVIOUS
<1> USE DEF table, client, wire, session, history
<1>0. NoResult' = NoResult /\ Hello' = Hello /\ TheError' = TheError /\ TheWorlds' = TheWorlds
  OBVIOUS
<1>1. CASE SendHello
  <2>1. Greeting /\ toServer = <<>> /\ toClient = <<>>
    BY <1>1 DEF SendHello, FlowInv, Greeting, Challenged, Proving, Proved, Over
  <2>2. toServer' \in {<<>>, <<Hello>>}
    BY <1>1, <2>1, ShortQueues DEF SendHello, ClientSends, Hello
  <2> QED  BY <1>0, <1>1, <2>1, <2>2 DEF SendHello, FlowInv, Greeting
<1>2. CASE Respond
  <2>1. Challenged /\ toClient' = <<>>
    BY <1>2, ChallengeWaits, Kinds DEF Respond
  <2>2. PICK A, S, M1 : /\ proof' = [A |-> A, M1 |-> M1, S |-> S]
                        /\ ClientSends([op |-> "proof", A |-> A, M1 |-> M1])
    BY <1>2 DEF Respond
  <2>3. TheProof' = [op |-> "proof", A |-> A, M1 |-> M1]
    BY <2>2 DEF TheProof
  <2>4. toServer' \in {<<>>, <<TheProof'>>}
    BY <2>1, <2>2, <2>3, ShortQueues DEF ClientSends, Challenged
  <2>5. /\ at' = "proof" /\ UNCHANGED <<open, stage, result>>
    BY <1>2 DEF Respond
  <2>6. Proving'
    BY <1>0, <2>1, <2>4, <2>5 DEF Proving, Challenged
  <2> QED  BY <2>6 DEF FlowInv
<1>3. CASE GiveUp
  <2>1. /\ UNCHANGED <<toServer, open, stage, result, proof>>
        /\ \/ Answer.op # "challenge" /\ at' = "turned away"
           \/ Answer.op = "challenge" /\ at' = "exception"
    BY <1>3 DEF GiveUp
  <2>2. ExpectedM2' = ExpectedM2
    BY <2>1 DEF ExpectedM2
  <2>3. \/ Challenged /\ Answer.op = "challenge" /\ toClient' = <<>>
        \/ Greeting /\ toClient = <<TheError>> /\ Answer.op = "error" /\ toClient' = <<>>
    BY <1>3, ChallengeWaits DEF GiveUp
  <2>4. Over'
    <3>1. CASE Challenged /\ Answer.op = "challenge" /\ toClient' = <<>>
      BY <1>0, <2>1, <2>2, <3>1, Lengths DEF Challenged, Over
    <3>2. CASE Greeting /\ toClient = <<TheError>> /\ Answer.op = "error" /\ toClient' = <<>>
      <4>1. ~open
        BY <3>2, ShortQueues DEF Greeting
      <4>2. at' = "turned away"
        BY <2>1, <3>2
      <4>3. Len(toServer') \in 0 .. 1 /\ Len(toClient') \in 0 .. 2
        <5>1. Len(toServer) \in 0 .. 1 /\ toServer' = toServer /\ toClient' = <<>>
          BY <2>1, <3>2, OverFrom
        <5>2. Len(toClient') = 0
          BY <5>1, Lengths
        <5> QED  BY <5>1, <5>2
      <4>4. result' = NoResult
        BY <2>1, <3>2 DEF Greeting
      <4> QED  BY <1>0, <2>1, <4>1, <4>2, <4>3, <4>4 DEF Over
    <3> QED  BY <2>3, <3>1, <3>2
  <2> QED  BY <2>4 DEF FlowInv
<1>4. CASE ReadProof
  <2>1. UNCHANGED <<toServer, open, stage, result, proof>>
    BY <1>4 DEF ReadProof
  <2>2. ExpectedM2' = ExpectedM2 /\ TheAnswer' = TheAnswer
    BY <2>1 DEF ExpectedM2, TheAnswer
  <2>3. CASE Proving /\ toClient = <<TheError>> /\ Answer.op = "error" /\ toClient' = <<>>
    <3>1. ~open
      BY <2>3, ShortQueues DEF Proving
    <3>2. at' = "refused"
      BY <1>4, <2>3 DEF ReadProof
    <3>3. Over'
      BY <1>0, <2>1, <2>2, <2>3, <3>1, <3>2, Lengths, OverFrom DEF Over
    <3> QED  BY <3>3 DEF FlowInv
  <2>4. CASE /\ Proved /\ Answer.op = "proof" /\ Answer.M2 = result
             /\ \/ toClient = <<TheAnswer>> /\ toClient' = <<>>
                \/ toClient = <<TheAnswer, TheWorlds>> /\ toClient' = <<TheWorlds>>
    <3>1. at' = "worlds"
      BY <1>4, <2>4 DEF ReadProof, Proved
    <3>2. stage # "put"
      BY <2>4, ShortQueues DEF Proved
    <3>3. stage = "list" => toClient' = <<>>
      <4>1. <<TheAnswer, TheWorlds>> # <<TheAnswer>>
        OBVIOUS
      <4> QED  BY <2>4, <4>1, ShortQueues DEF Proved
    <3>4. Proved'
      BY <1>0, <2>1, <2>2, <2>4, <3>1, <3>2, <3>3 DEF Proved
    <3> QED  BY <3>4 DEF FlowInv
  <2> QED  BY <1>4, <2>3, <2>4, AnswerWaits DEF ReadProof
<1>5. CASE ReadWorlds
  <2>1. Proved /\ stage = "done" /\ toClient' = <<>>
    BY <1>5, WorldsWait DEF ReadWorlds
  <2>2. at' = "finished" /\ UNCHANGED <<toServer, open, stage, result, proof>>
    BY <1>5 DEF ReadWorlds
  <2>3. ExpectedM2' = ExpectedM2
    BY <2>2 DEF ExpectedM2
  <2>4. Proved'
    BY <1>0, <2>1, <2>2, <2>3 DEF Proved
  <2> QED  BY <2>4 DEF FlowInv
<1>6. CASE NoAnswer
  <2>1. /\ ~open /\ at' = "cut off"
        /\ UNCHANGED <<toServer, toClient, open, stage, result, proof>>
    BY <1>6 DEF NoAnswer
  <2>2. ExpectedM2' = ExpectedM2
    BY <2>1 DEF ExpectedM2
  <2>3. Over'
    BY <1>0, <2>1, <2>2, OverFrom DEF Over
  <2> QED  BY <2>3 DEF FlowInv
<1> QED  BY <1>1, <1>2, <1>3, <1>4, <1>5, <1>6 DEF ClientStep

(* So do the server's. *)
LEMMA ServerFlow ==
  Types /\ FlowInv /\ ProofInv /\ (ServerStep \/ Cut) => FlowInv'
<1> SUFFICES ASSUME Types, FlowInv, ProofInv, ServerStep \/ Cut PROVE FlowInv'
  OBVIOUS
<1> USE DEF table, client, wire, session, history
<1>0. NoResult' = NoResult /\ Hello' = Hello /\ TheError' = TheError /\ TheWorlds' = TheWorlds
  OBVIOUS
<1>1. CASE RefuseTicket
  <2>1. Greeting /\ toClient = <<>> /\ toServer' = <<>> /\ at = "challenge"
    BY <1>1, HelloWaits DEF RefuseTicket, HelloComes
  <2>2. UNCHANGED <<at, toClient, stage, result, looked>>
    BY <1>1 DEF RefuseTicket
  <2>3. Greeting'
    BY <1>0, <2>1, <2>2 DEF Greeting
  <2> QED  BY <2>3 DEF FlowInv
<1>2. CASE LookupFails
  <2>1. Greeting /\ toClient = <<>> /\ toServer' = <<>> /\ at = "challenge" /\ open
    BY <1>2, HelloWaits DEF LookupFails, HelloComes, Receives
  <2>2. UNCHANGED <<at, stage, result, looked>> /\ open' = FALSE
    BY <1>2 DEF LookupFails
  <2>3. toClient' = <<TheError>>
    BY <1>2, <2>1, ShortQueues DEF LookupFails, Says, TheError
  <2>4. Greeting'
    BY <1>0, <2>1, <2>2, <2>3 DEF Greeting
  <2> QED  BY <2>4 DEF FlowInv
<1>3. CASE Lookup
  <2>1. Greeting /\ toClient = <<>> /\ toServer' = <<>> /\ at = "challenge" /\ open
    BY <1>3, HelloWaits DEF Lookup, HelloComes, Receives
  <2>2. UNCHANGED <<at, result, account>> /\ stage' = "proof"
    BY <1>3 DEF Lookup
  <2>3. PICK salt, v :
          salt = (IF looked' = "row" THEN account ELSE Other) /\ Challenge(salt, v)
    BY <1>3 DEF Lookup
  <2>4. PICK b : /\ server' = [v |-> v, b |-> b]
                 /\ Says([op |-> "challenge", salt |-> salt, B |-> PublicB(v, b)])
    BY <2>3 DEF Challenge
  <2>5. TheChallenge' = [op |-> "challenge", salt |-> salt, B |-> PublicB(v, b)]
    BY <2>2, <2>3, <2>4 DEF TheChallenge
  <2>6. toClient' = <<TheChallenge'>>
    BY <2>1, <2>4, <2>5, ShortQueues DEF Says
  <2>7. Challenged'
    BY <1>0, <2>1, <2>2, <2>6 DEF Challenged, Greeting
  <2> QED  BY <2>7 DEF FlowInv
<1>4. CASE RefuseProof
  <2>1. /\ Proving /\ toClient = <<>> /\ toServer' = <<>> /\ open
        /\ Received.A = proof.A /\ Received.M1 = proof.M1
    BY <1>4, ProofWaits DEF RefuseProof, ProofComes, Receives
  <2>2. UNCHANGED <<at, stage, result, server, proof, u>> /\ open' = FALSE
    BY <1>4 DEF RefuseProof
  <2>3. toClient' = <<TheError>>
    BY <1>4, <2>1, ShortQueues DEF RefuseProof, Says, TheError
  <2>4. ~Verifies(proof.A, proof.M1)
    BY <1>4, <2>1 DEF RefuseProof
  <2>5. ~Verifies(proof.A, proof.M1)'
    BY <2>2, <2>4 DEF Verifies, SecretFor
  <2>6. Proving'
    BY <1>0, <2>1, <2>2, <2>3, <2>5 DEF Proving
  <2> QED  BY <2>6 DEF FlowInv
<1>5. CASE AcceptProof
  <2>1. /\ Proving /\ toClient = <<>> /\ toServer' = <<>> /\ open
        /\ Received.A = proof.A /\ Received.M1 = proof.M1
    BY <1>5, ProofWaits DEF AcceptProof, ProofComes, Receives
  <2>2. UNCHANGED <<at, toClient, proof>> /\ stage' = "put"
    BY <1>5 DEF AcceptProof
  <2>3. /\ Verifies(proof.A, proof.M1)
        /\ result' = <<proof.A, proof.M1, SecretFor(proof.A)>>
    BY <1>5, <2>1 DEF AcceptProof, M2Of
  <2>4. result'[1] # 0
    <3>1. 0 % N = 0
      BY Srp6Assumption
    <3> QED  BY <2>3, <3>1 DEF Verifies
  <2>5. result' # NoResult'
    BY <2>3, <2>4 DEF NoResult, M2Of
  <2>6. SecretFor(proof.A) = proof.S
    BY <2>3 DEF Verifies, ProofInv
  <2>7. result' = ExpectedM2'
    BY <2>2, <2>3, <2>6 DEF ExpectedM2, M2Of
  <2>8. Proved'
    <3>1. /\ stage' = "put" /\ at' = "proof" /\ toServer' = <<>> /\ toClient' = <<>>
      BY <2>1, <2>2 DEF Proving
    <3> QED  BY <2>5, <2>7, <3>1 DEF Proved
  <2> QED  BY <2>8 DEF FlowInv
<1>6. CASE SendProof \/ SendWorlds
  <2>1. UNCHANGED <<at, toServer, open, result, proof>>
    BY <1>6 DEF SendProof, SendWorlds
  <2>2. ExpectedM2' = ExpectedM2 /\ TheAnswer' = TheAnswer
    BY <2>1 DEF ExpectedM2, TheAnswer
  <2>3. Proved \/ Over
    BY <1>6 DEF SendProof, SendWorlds, FlowInv, Greeting, Challenged, Proving
  <2>4. CASE Over
    <3>1. ~open /\ at # "exception"
      BY <1>6, <2>4 DEF Over, SendProof, SendWorlds
    <3>2. toClient' = toClient
      BY <1>6, <3>1 DEF SendProof, SendWorlds, Says
    <3>3. Over'
      BY <1>0, <2>1, <2>2, <2>4, <3>1, <3>2 DEF Over
    <3> QED  BY <3>3 DEF FlowInv
  <2>5. CASE Proved /\ SendProof
    <3>1. toClient = <<>> /\ at = "proof" /\ stage' = "list"
      BY <2>5 DEF Proved, SendProof
    <3>2. toClient' = IF open THEN <<TheAnswer>> ELSE <<>>
      BY <2>5, <3>1, ShortQueues DEF SendProof, Says, TheAnswer
    <3>3. <<TheAnswer>> # <<TheWorlds>> /\ <<TheAnswer>> # <<>> /\ <<TheWorlds>> # <<>>
      <4>1. TheAnswer # TheWorlds
        BY Kinds
      <4> QED  BY <4>1
    <3>4. Proved'
      BY <1>0, <2>1, <2>2, <2>5, <3>1, <3>2, <3>3 DEF Proved
    <3> QED  BY <3>4 DEF FlowInv
  <2>6. CASE Proved /\ SendWorlds
    <3>1. /\ toClient \in {<<>>, <<TheAnswer>>} /\ at \in {"proof", "worlds"}
          /\ stage = "list" /\ stage' = "done"
      BY <2>6 DEF Proved, SendWorlds
    <3>2. \/ ~open /\ toClient' = toClient
          \/ open /\ toClient = <<>> /\ toClient' = <<TheWorlds>>
          \/ open /\ toClient = <<TheAnswer>> /\ toClient' = <<TheAnswer, TheWorlds>>
      BY <2>6, <3>1, ShortQueues DEF SendWorlds, Says, TheWorlds
    <3>3. /\ <<TheAnswer>> # <<TheWorlds>> /\ <<TheAnswer>> # <<>> /\ <<TheWorlds>> # <<>>
          /\ <<TheAnswer, TheWorlds>> # <<TheWorlds>> /\ <<TheAnswer, TheWorlds>> # <<>>
      <4>1. TheAnswer # TheWorlds
        BY Kinds
      <4> QED  BY <4>1
    <3>4. CASE at = "proof"
      <4>1. open => toClient = <<TheAnswer>>
        BY <2>6, <3>1, <3>4 DEF Proved
      <4>2. /\ toClient' \in {<<>>, <<TheAnswer>>, <<TheAnswer, TheWorlds>>}
            /\ open => toClient' # <<>>
        BY <3>1, <3>2, <3>3, <4>1
      <4>3. Proved'
        BY <1>0, <2>1, <2>2, <2>6, <3>1, <3>3, <3>4, <4>2 DEF Proved
      <4> QED  BY <4>3 DEF FlowInv
    <3>5. CASE at = "worlds"
      <4>1. toClient = <<>>
        BY <2>6, <3>1, <3>3, <3>5 DEF Proved
      <4>2. toClient' \in {<<>>, <<TheWorlds>>}
        BY <3>2, <4>1
      <4>3. Proved'
        BY <1>0, <2>1, <2>2, <2>6, <3>1, <3>5, <4>2 DEF Proved
      <4> QED  BY <4>3 DEF FlowInv
    <3> QED  BY <3>1, <3>4, <3>5
  <2> QED  BY <1>6, <2>3, <2>4, <2>5, <2>6
<1>7. CASE Cut
  <2>1. /\ UNCHANGED <<at, toServer, toClient, stage, result, server, proof, u, looked, account>>
        /\ open' = FALSE
    BY <1>7 DEF Cut
  <2>2. /\ TheProof' = TheProof /\ TheAnswer' = TheAnswer /\ ExpectedM2' = ExpectedM2
        /\ TheChallenge' = TheChallenge
        /\ Verifies(proof.A, proof.M1)' = Verifies(proof.A, proof.M1)
    BY <2>1 DEF TheProof, TheAnswer, ExpectedM2, TheChallenge, Verifies, SecretFor
  <2>3. Greeting => Greeting'
    BY <1>0, <2>1 DEF Greeting
  <2>4. Challenged => Challenged'
    BY <1>0, <2>1, <2>2 DEF Challenged
  <2>5. Proving => Proving'
    BY <1>0, <2>1, <2>2 DEF Proving
  <2>6. Proved => Proved'
    BY <1>0, <2>1, <2>2 DEF Proved
  <2>7. Over => Over'
    BY <1>0, <2>1, <2>2 DEF Over
  <2> QED  BY <2>3, <2>4, <2>5, <2>6, <2>7 DEF FlowInv
<1> QED  BY <1>1, <1>2, <1>3, <1>4, <1>5, <1>6, <1>7 DEF ServerStep
-----------------------------------------------------------------------------
(* At most one creator is told that the account is its own, whoever holds  *)
(* the row: the insertion finds no row.                                    *)
LEMMA CreatedStep ==
  Types /\ CreatedOnce /\ [Next]_vars => CreatedOnce'
<1> SUFFICES ASSUME Types, CreatedOnce, [Next]_vars PROVE CreatedOnce'
  OBVIOUS
<1> USE DEF table, client, wire, session, history
<1>1. ASSUME NEW c \in Creators, Create(c) PROVE CreatedOnce'
  <2>1. /\ account = Other /\ account' = c
        /\ creator' = [creator EXCEPT ![c] = "created"]
    BY <1>1 DEF Create, Insert
  <2>2. creator \in [Creators -> {"start", "created", "refused", "error"}]
    BY DEF Types
  <2> QED  BY <2>1, <2>2, LoginAssumption DEF CreatedOnce
<1>2. ASSUME NEW c \in Creators, CreateFails(c) \/ CreateThrows(c)
      PROVE  CreatedOnce'
  <2>1. /\ creator[c] = "start" /\ account' = account
        /\ \E end \in {"refused", "error"} : creator' = [creator EXCEPT ![c] = end]
    BY <1>2 DEF CreateFails, CreateThrows
  <2>2. creator \in [Creators -> {"start", "created", "refused", "error"}]
    BY DEF Types
  <2> QED  BY <2>1, <2>2 DEF CreatedOnce
<1>3. CASE ClientStep \/ ServerStep \/ Cut \/ UNCHANGED vars
  <2>1. UNCHANGED <<creator, account>>
    BY <1>3 DEF ClientStep, SendHello, Respond, GiveUp, ReadProof, ReadWorlds,
                NoAnswer, ServerStep, RefuseTicket, LookupFails, Lookup,
                RefuseProof, AcceptProof, SendProof, SendWorlds, Cut, vars
  <2> QED  BY <2>1 DEF CreatedOnce
<1> QED  BY <1>1, <1>2, <1>3 DEF Next

(* What the account has to do with the exchange. *)
LEMMA AccountStep ==
  Types /\ FlowInv /\ AccountInv /\ [Next]_vars => AccountInv'
<1> SUFFICES ASSUME Types, FlowInv, AccountInv, [Next]_vars PROVE AccountInv'
  OBVIOUS
<1> USE DEF table, client, wire, session, history
<1>1. ASSUME NEW c \in Creators, Create(c) PROVE AccountInv'
  <2>1. account = Other /\ UNCHANGED <<client, wire, session, u, history>>
    BY <1>1 DEF Create, Insert
  <2>2. ~known /\ looked # "row"
    BY <2>1, LoginAssumption DEF AccountInv
  <2> QED  BY <2>1, <2>2 DEF AccountInv
<1>2. ASSUME NEW c \in Creators, CreateFails(c) \/ CreateThrows(c)
      PROVE  AccountInv'
  <2>1. UNCHANGED <<hash, account, client, session, history>>
    BY <1>2 DEF CreateFails, CreateThrows
  <2> QED  BY <2>1 DEF AccountInv, Verifier
<1>3. CASE SendHello
  <2>1. /\ known' = (typed \in Creators /\ account = typed) /\ at' = "challenge"
        /\ UNCHANGED <<hash, account, typed, stage, server, looked>>
    BY <1>3 DEF SendHello
  <2>2. looked = "none" /\ stage = "hello"
    BY <1>3 DEF SendHello, FlowInv, Greeting, Challenged, Proving, Proved, Over
  <2> QED  BY <2>1, <2>2 DEF AccountInv
<1>4. CASE Respond \/ GiveUp \/ ReadProof \/ ReadWorlds \/ NoAnswer
  <2>1. /\ at # "start" /\ at' # "start"
        /\ UNCHANGED <<hash, account, typed, stage, server, looked, known>>
    BY <1>4 DEF Respond, GiveUp, ReadProof, ReadWorlds, NoAnswer, ClientReads,
                Waiting
  <2> QED  BY <2>1 DEF AccountInv
<1>5. CASE Lookup
  <2>1. at = "challenge"
    BY <1>5, HelloWaits DEF Lookup, HelloComes
  <2>2. /\ UNCHANGED <<hash, account, typed, at, known>> /\ stage' = "proof"
        /\ looked' \in FindResults
    BY <1>5 DEF Lookup
  <2>3. /\ looked' \in {"row", "absent", "unread"}
        /\ looked' = "absent" <=> account = Other
    BY <2>2 DEF FindResults
  <2>4. looked' = "row" => server'.v = Verifier(hash[account])
    <3> SUFFICES ASSUME looked' = "row" PROVE server'.v = Verifier(hash[account])
      OBVIOUS
    <3>1. Challenge(account, Verifier(hash[account]))
      BY <1>5 DEF Lookup
    <3>2. PICK b : server' = [v |-> Verifier(hash[account]), b |-> b]
      BY <3>1 DEF Challenge
    <3> QED  BY <3>2
  <2>5. account \in Creators \cup {Other}
    BY DEF Types
  <2> QED  BY <2>1, <2>2, <2>3, <2>4, <2>5, LoginAssumption DEF AccountInv
<1>6. CASE \/ RefuseTicket \/ LookupFails \/ RefuseProof \/ AcceptProof
           \/ SendProof \/ SendWorlds \/ Cut
  <2>1. /\ UNCHANGED <<hash, account, typed, at, server, looked, known>>
        /\ stage # "hello" \/ stage' = stage
    BY <1>6 DEF RefuseTicket, LookupFails, RefuseProof, AcceptProof, ProofComes,
                SendProof, SendWorlds, Cut
  <2> QED  BY <2>1 DEF AccountInv
<1>7. CASE UNCHANGED vars
  <2>1. UNCHANGED <<hash, account, typed, at, stage, server, looked, known>>
    BY <1>7 DEF vars
  <2> QED  BY <2>1 DEF AccountInv
<1> QED  BY <1>1, <1>2, <1>3, <1>4, <1>5, <1>6, <1>7 DEF Next, ClientStep, ServerStep

(* A client that types the password of a row the server has read proves    *)
(* the secret of the server: here the algebra of Srp6 is used.             *)
LEMMA Responds ==
  ASSUME Types, FlowInv, AccountInv, Respond, known, looked = "row", u' # 0
  PROVE  Verifies(proof.A, proof.M1)'
<1>1. /\ Answer.salt = account /\ Answer.B = PublicB(server.v, server.b)
  BY ChallengeWaits, Kinds DEF Respond
<1>2. /\ typed = account /\ account \in Creators
      /\ server.v = Verifier(hash[account])
  BY DEF AccountInv
<1>3. PICK a \in Nonces, h \in Hashes, x \in HashOfTyped(Answer.salt) :
        LET A == PublicA(a)
            S == ClientSecret(Answer.B, x, a, h)
            M1 == <<A, Answer.B, S>>
        IN u' = h /\ proof' = [A |-> A, M1 |-> M1, S |-> S]
  BY DEF Respond
<1>4. x = hash[account]
  BY <1>1, <1>2 DEF HashOfTyped
<1>5. x \in Nat /\ a \in Nat /\ h \in Nat /\ server.b \in Nat
  BY <1>2, <1>4, Numbers, LoginAssumption
<1> DEFINE A == PublicA(a)
           S == ClientSecret(Answer.B, x, a, h)
<1>6. S = ServerSecret(A, server.v, h, server.b) /\ A % N # 0
  BY <1>1, <1>2, <1>4, <1>5, SecretsAgree
<1>7. proof'.A = A /\ proof'.M1 = <<A, Answer.B, S>> /\ u' = h
  BY <1>3
<1>8. server' = server
  BY DEF Respond, session
<1> HIDE DEF A, S
<1> QED  BY <1>1, <1>6, <1>7, <1>8 DEF Verifies, SecretFor

(* So its proof is not refused. *)
LEMMA ProofStep ==
  Types /\ FlowInv /\ AccountInv /\ ProofInv /\ [Next]_vars => ProofInv'
<1> SUFFICES ASSUME Types, FlowInv, AccountInv, ProofInv, [Next]_vars
             PROVE  ProofInv'
  OBVIOUS
<1> USE DEF table, client, wire, session, history
<1>1. CASE \/ \E c \in Creators : Create(c) \/ CreateFails(c) \/ CreateThrows(c)
           \/ RefuseTicket \/ LookupFails \/ RefuseProof \/ AcceptProof
           \/ SendProof \/ SendWorlds \/ Cut \/ UNCHANGED vars
  <2>1. UNCHANGED <<proof, at, known, looked, u, server>>
    BY <1>1 DEF Create, Insert, CreateFails, CreateThrows, RefuseTicket,
                LookupFails, RefuseProof, AcceptProof, SendProof, SendWorlds,
                Cut, vars
  <2>2. Verifies(proof.A, proof.M1)' = Verifies(proof.A, proof.M1)
    BY <2>1 DEF Verifies, SecretFor
  <2> QED  BY <2>1, <2>2 DEF ProofInv, RightPasswordPasses
<1>2. CASE Lookup
  <2>1. at = "challenge" /\ at' = at /\ proof' = proof
    BY <1>2, HelloWaits DEF Lookup, HelloComes
  <2> QED  BY <2>1 DEF ProofInv, RightPasswordPasses
<1>3. CASE SendHello
  <2>1. at' = "challenge" /\ proof' = proof
    BY <1>3 DEF SendHello
  <2> QED  BY <2>1 DEF ProofInv, RightPasswordPasses
<1>4. CASE Respond
  <2>1. at' = "proof" /\ UNCHANGED <<known, looked>>
    BY <1>4 DEF Respond
  <2>2. proof'.M1[3] = proof'.S
    BY <1>4 DEF Respond
  <2>3. known /\ looked = "row" /\ u' # 0 => Verifies(proof.A, proof.M1)'
    BY <1>4, Responds
  <2> QED  BY <2>1, <2>2, <2>3 DEF ProofInv, RightPasswordPasses
<1>5. CASE ReadProof
  <2>1. UNCHANGED <<proof, known, looked, u, server>> /\ at' # "proof"
    BY <1>5 DEF ReadProof
  <2>2. ASSUME at' = "refused", known PROVE looked = "unread" \/ u = 0
    <3>1. Proving /\ toClient = <<TheError>>
      BY <1>5, <2>2, AnswerWaits DEF ReadProof
    <3>2. ~Verifies(proof.A, proof.M1) /\ at = "proof" /\ stage = "proof"
      BY <3>1, ShortQueues DEF Proving
    <3>3. ~(looked = "row" /\ u # 0)
      BY <2>2, <3>2 DEF ProofInv
    <3>4. looked \notin {"none", "absent"}
      BY <2>2, <3>2 DEF AccountInv
    <3>5. looked \in {"none", "row", "absent", "unread"}
      BY DEF Types
    <3> QED  BY <3>3, <3>4, <3>5
  <2> QED  BY <2>1, <2>2 DEF ProofInv, RightPasswordPasses
<1>6. CASE GiveUp \/ ReadWorlds \/ NoAnswer
  <2>1. proof' = proof /\ at' \notin {"proof", "refused"}
    BY <1>6 DEF GiveUp, ReadWorlds, NoAnswer
  <2> QED  BY <2>1 DEF ProofInv, RightPasswordPasses
<1> QED  BY <1>1, <1>2, <1>3, <1>4, <1>5, <1>6 DEF Next, ClientStep, ServerStep
-----------------------------------------------------------------------------
(* The inductive invariant. *)
IInv == Types /\ CreatedOnce /\ FlowInv /\ AccountInv /\ ProofInv

LEMMA Initially == Init => IInv
<1> SUFFICES ASSUME Init PROVE IInv
  OBVIOUS
<1>0. 0 \in 0 .. N - 1 /\ 0 .. N - 1 \subseteq Secrets /\ NoSecret \in Secrets
  BY Srp6Assumption DEF Secrets, NoSecret
<1>1. Types
  <2>1. /\ proof \in [A : 0 .. N - 1, M1 : Secrets \X Secrets \X Secrets, S : Secrets]
        /\ result \in (0 .. N - 1) \X (Secrets \X Secrets \X Secrets) \X Secrets
    BY <1>0 DEF Init, NoProof, NoResult, M2Of
  <2>2. server \in [v : 0 .. N - 1, b : Nonces \cup {0}]
    BY <1>0 DEF Init
  <2> QED  BY <2>1, <2>2 DEF Init, Types
<1>2. CreatedOnce
  BY LoginAssumption DEF Init, CreatedOnce
<1>3. FlowInv
  BY DEF Init, FlowInv, Greeting
<1>4. AccountInv /\ ProofInv
  BY DEF Init, AccountInv, ProofInv, RightPasswordPasses, NoProof
<1> QED  BY <1>1, <1>2, <1>3, <1>4 DEF IInv

LEMMA Inductive == IInv /\ [Next]_vars => IInv'
<1> SUFFICES ASSUME IInv, [Next]_vars PROVE IInv'
  OBVIOUS
<1>0. Types /\ CreatedOnce /\ FlowInv /\ AccountInv /\ ProofInv
  BY DEF IInv
<1>1. FlowInv'
  <2>1. CASE ClientStep
    BY <1>0, <2>1, ClientFlow
  <2>2. CASE ServerStep \/ Cut
    BY <1>0, <2>2, ServerFlow
  <2>3. CASE \/ \E c \in Creators : Create(c) \/ CreateFails(c) \/ CreateThrows(c)
             \/ UNCHANGED vars
    <3>1. UNCHANGED <<at, toServer, toClient, open, stage, proof, server, u, result, looked>>
      BY <2>3 DEF Create, Insert, CreateFails, CreateThrows, vars, table, client,
                  wire, session, history
    <3>2. account' = account \/ account = Other
      BY <2>3 DEF Create, Insert, CreateFails, CreateThrows, vars, table
    <3>3. looked = "row" => account # Other
      BY <1>0, LoginAssumption DEF AccountInv
    <3>4. TheChallenge' = TheChallenge
      BY <3>1, <3>2, <3>3 DEF TheChallenge
    <3> QED  BY <1>0, <3>1, <3>4, FlowFrame
  <2> QED  BY <2>1, <2>2, <2>3 DEF Next
<1> QED  BY <1>0, <1>1, TypeStep, CreatedStep, AccountStep, ProofStep DEF IInv

THEOREM Invariance == Spec => []IInv
  BY Initially, Inductive, PTL DEF Spec

(* The types of the exchange are kept, and the queues stay short. *)
THEOREM TypeCorrect == Spec => []TypeOK
<1>1. IInv => TypeOK
  <2> SUFFICES ASSUME IInv PROVE TypeOK
    OBVIOUS
  <2>1. Len(toServer) \in 0 .. 1 /\ Len(toClient) \in 0 .. 2
    <3>1. FlowInv
      BY DEF IInv
    <3> QED  BY <3>1, OverFrom
  <2>2. Len(toServer) <= 1 /\ Len(toClient) <= 2
    <3>1. \A m \in 0 .. 1, n \in 0 .. 2 : m <= 1 /\ n <= 2
      OBVIOUS
    <3> QED  BY <2>1, <3>1, Zenon
  <2>3. Types
    BY DEF IInv
  <2>4. {account, typed} \subseteq Creators \cup {Other}
    BY <2>3 DEF Types
  <2>5. open \in BOOLEAN /\ known \in BOOLEAN
    BY <2>3, Zenon DEF Types
  <2>6. /\ server \in [v : 0 .. N - 1, b : Nonces \cup {0}]
        /\ proof \in [A : 0 .. N - 1, M1 : Secrets \X Secrets \X Secrets, S : Secrets]
        /\ result \in (0 .. N - 1) \X (Secrets \X Secrets \X Secrets) \X Secrets
    BY <2>3 DEF Types
  <2>7. /\ creator \in [Creators -> {"start", "created", "refused", "error"}]
        /\ hash \in [Creators -> Hashes \cup {0}]
    BY <2>3 DEF Types
  <2>8. /\ at \in Waiting \cup {"start", "finished", "turned away", "exception",
                               "refused", "alert", "cut off"}
        /\ stage \in {"hello", "proof", "put", "list", "done"}
        /\ u \in Hashes \cup {0} /\ looked \in {"none", "row", "absent", "unread"}
    BY <2>3 DEF Types
  <2> QED  BY <2>2, <2>4, <2>5, <2>6, <2>7, <2>8 DEF TypeOK
<1> QED  BY <1>1, Invariance, PTL

(* create_account tells at most one run that it made the account, and the  *)
(* row in the table is that run's.                                         *)
THEOREM OneOwner == Spec => []CreatedOnce
<1>1. IInv => CreatedOnce
  BY DEF IInv
<1> QED  BY <1>1, Invariance, PTL

(* Login accepts the proof of a client with the same secret only, and the  *)
(* client goes on only with a Login that accepted it.                      *)
THEOREM ProofIsMutual == Spec => []MutualProof
<1>1. IInv => MutualProof
  <2> SUFFICES ASSUME FlowInv PROVE MutualProof
    BY DEF IInv
  <2>1. result # NoResult => result = ExpectedM2
    BY OverFrom
  <2>2. at \in {"worlds", "finished"} => result # NoResult
    BY DEF FlowInv, Greeting, Challenged, Proving, Proved, Over
  <2>3. at # "alert"
    BY DEF FlowInv, Greeting, Challenged, Proving, Proved, Over
  <2> QED  BY <2>1, <2>2, <2>3 DEF MutualProof
<1> QED  BY <1>1, Invariance, PTL

(* In every group: the password an account was made with is not refused,   *)
(* unless compute_u gave zero or the row could not be read.                *)
THEOREM PasswordPasses == Spec => []RightPasswordPasses
<1>1. IInv => RightPasswordPasses
  BY DEF IInv, ProofInv
<1> QED  BY <1>1, Invariance, PTL
=============================================================================
