----------------------------- MODULE CodecsProofs -----------------------------
(***************************************************************************)
(* What one side encodes, the other side decodes, for every size of a      *)
(* byte: fields, lists, frames (byte_io.hpp, framing.hpp) and each message *)
(* of Login, of Master and of the store.  Atoms is what a field is made    *)
(* of: the bytes and whatever else stands for content.                     *)
(***************************************************************************)
EXTENDS Codecs, SequenceTheorems, WellFoundedInduction, TLAPS

(* Every opcode of the three channels fits here, and in two bytes.         *)
MessageOpcodes == 0..104

(* A set of numbers that holds 0 and every successor holds every number:   *)
(* there would be a least one outside.                                     *)
LEMMA Induction ==
  ASSUME NEW S, S \subseteq Nat, 0 \in S, \A n \in S : n + 1 \in S
  PROVE  S = Nat
<1> SUFFICES ASSUME Nat \ S # {} PROVE FALSE
  OBVIOUS
<1>1. PICK n \in Nat \ S :
        \A m \in Nat \ S : <<m, n>> \notin OpToRel(<, Nat)
  BY NatLessThanWellFounded, WFMin
<1>2. \A m \in Nat \ S : ~(m < n)
  BY <1>1 DEF OpToRel
<1>3. n - 1 \in S
  BY <1>2
<1>4. (n - 1) + 1 = n
  OBVIOUS
<1> QED  BY <1>3, <1>4

(* A loop of n rounds ends, with a state after each of them: the recursive *)
(* functions of Wire exist.                                                *)
IsRun(f, T, start, round, n) ==
  /\ f \in [0..n -> T] /\ f[0] = start
  /\ \A i \in 1..n : f[i] = round[i][f[i - 1]]

LEMMA Iteration ==
  ASSUME NEW T, NEW start \in T, NEW n \in Nat, NEW round \in [1..n -> [T -> T]]
  PROVE  \E f : IsRun(f, T, start, round, n)
<1> DEFINE S == {m \in Nat : m <= n => \E f : IsRun(f, T, start, round, m)}
<1>1. 0 \in S
  <2>1. IsRun([i \in 0..0 |-> start], T, start, round, 0)
    BY DEF IsRun
  <2> QED  BY <2>1
<1>2. ASSUME NEW m \in S PROVE m + 1 \in S
  <2>1. CASE ~(m + 1 <= n)
    BY <2>1
  <2>2. CASE m + 1 <= n
    <3>1. m \in Nat /\ \E f : IsRun(f, T, start, round, m)
      BY <2>2
    <3>2. PICK f : IsRun(f, T, start, round, m)
      BY <3>1
    <3> DEFINE next == round[m + 1][f[m]]
               longer == [i \in 0..m + 1 |-> IF i = m + 1 THEN next ELSE f[i]]
    <3>3. next \in T
      BY <2>2, <3>1, <3>2 DEF IsRun
    <3>4. longer \in [0..m + 1 -> T] /\ longer[0] = start
      BY <3>1, <3>2, <3>3 DEF IsRun
    <3>5. ASSUME NEW i \in 1..m + 1 PROVE longer[i] = round[i][longer[i - 1]]
      <4>1. CASE i = m + 1
        <5>1. longer[m + 1] = next /\ longer[m] = f[m]
          BY <3>1
        <5> QED  BY <3>1, <4>1, <5>1
      <4>2. CASE i \in 1..m
        <5>1. longer[i] = f[i] /\ longer[i - 1] = f[i - 1]
          BY <3>1, <4>2
        <5> QED  BY <3>2, <4>2, <5>1 DEF IsRun
      <4> QED  BY <3>1, <4>1, <4>2
    <3>6. IsRun(longer, T, start, round, m + 1)
      <4> HIDE DEF longer
      <4> QED  BY <3>4, <3>5 DEF IsRun
    <3> QED  BY <3>1, <3>6
  <2> QED  BY <2>1, <2>2
<1>3. S = Nat
  <2>1. S \subseteq Nat
    OBVIOUS
  <2> HIDE DEF S
  <2> QED  BY <1>1, <1>2, <2>1, Induction
<1>4. n \in S
  BY <1>3
<1> QED  BY <1>4

(* Two runs that start alike and go on alike are alike.                    *)
Alike(f, g, n) ==
  f[0] = g[0] /\ \A i \in 1..n : f[i - 1] = g[i - 1] => f[i] = g[i]

LEMMA Agree ==
  ASSUME NEW n \in Nat, NEW f, NEW g, Alike(f, g, n)
  PROVE  \A i \in 0..n : f[i] = g[i]
<1> DEFINE S == {i \in Nat : i <= n => f[i] = g[i]}
<1>1. 0 \in S
  BY DEF Alike
<1>2. ASSUME NEW i \in S PROVE i + 1 \in S
  <2>1. i + 1 <= n => i + 1 \in 1..n /\ (i + 1) - 1 = i /\ f[i] = g[i]
    OBVIOUS
  <2> QED  BY <2>1 DEF Alike
<1>3. S = Nat
  <2>1. S \subseteq Nat
    OBVIOUS
  <2> HIDE DEF S
  <2> QED  BY <1>1, <1>2, <2>1, Induction
<1> QED  BY <1>3
-----------------------------------------------------------------------------
LEMMA Division ==
  ASSUME NEW x \in Nat
  PROVE  /\ x \div Byte \in Nat /\ x % Byte \in 0..Byte - 1 /\ x % Byte \in Nat
         /\ x = (x % Byte) + Byte * (x \div Byte)
  BY WireAssumption

(* ByteWriter shifts: what each byte leaves of a number.                   *)
AreQuotients(left, v, n) ==
  left = [i \in 0..n |-> IF i = 0 THEN v ELSE left[i - 1] \div Byte]

LEMMA QuotientsAre ==
  ASSUME NEW v \in Nat, NEW n \in Nat
  PROVE  /\ Quotients(v, n) \in [0..n -> Nat]
         /\ Quotients(v, n)[0] = v
         /\ \A i \in 1..n : Quotients(v, n)[i] = Quotients(v, n)[i - 1] \div Byte
<1> DEFINE g == [i \in 1..n |-> [x \in Nat |-> x \div Byte]]
           q == Quotients(v, n)
<1>1. g \in [1..n -> [Nat -> Nat]]
  BY Division
<1>2. PICK f : IsRun(f, Nat, v, g, n)
  <2> HIDE DEF g
  <2> QED  BY <1>1, Iteration
<1>3. f \in [0..n -> Nat] /\ f[0] = v /\ \A i \in 1..n : f[i] = g[i][f[i - 1]]
  <2> HIDE DEF g
  <2> QED  BY <1>2 DEF IsRun
<1>4. ASSUME NEW i \in 1..n PROVE f[i] = f[i - 1] \div Byte
  <2>1. i - 1 \in 0..n
    OBVIOUS
  <2>2. f[i - 1] \in Nat
    BY <1>3, <2>1
  <2>3. g[i][f[i - 1]] = f[i - 1] \div Byte
    BY <2>2
  <2> QED  BY <1>3, <2>3
<1>a. AreQuotients(f, v, n)
  BY <1>3, <1>4 DEF AreQuotients
<1>5. AreQuotients(q, v, n)
  BY <1>a, Zenon DEF Quotients, AreQuotients
<1> HIDE DEF q
<1>6. q[0] = v /\ \A i \in 1..n : q[i] = q[i - 1] \div Byte
  BY <1>5 DEF AreQuotients
<1> DEFINE S == {i \in Nat : i <= n => q[i] \in Nat}
<1>7. S = Nat
  <2>1. S \subseteq Nat /\ 0 \in S
    BY <1>6
  <2>2. ASSUME NEW i \in S PROVE i + 1 \in S
    <3> SUFFICES ASSUME i + 1 <= n PROVE q[i + 1] \in Nat
      OBVIOUS
    <3>1. q[i + 1] = q[i] \div Byte /\ q[i] \in Nat
      BY <1>6
    <3> QED  BY <3>1, Division
  <2> HIDE DEF S
  <2> QED  BY <2>1, <2>2, Induction
<1>8. q \in [0..n -> Nat]
  <2>1. \A i \in 0..n : q[i] \in Nat
    BY <1>7
  <2>2. q = [i \in 0..n |-> q[i]]
    BY <1>5 DEF AreQuotients
  <2> QED  BY <2>1, <2>2
<1> QED  BY <1>6, <1>8 DEF q

Bytes == 0..Byte - 1

(* A number that the width of a field can hold. *)
Fits(v, width) == Quotients(v, width)[width] = 0

LEMMA SequenceOf ==
  ASSUME NEW S, NEW n \in Nat, NEW f \in [1..n -> S]
  PROVE  f \in Seq(S) /\ Len(f) = n
  OBVIOUS

LEMMA NumberIs ==
  ASSUME NEW v \in Nat, NEW width \in Nat
  PROVE  /\ Number(v, width) \in Seq(Bytes) /\ Len(Number(v, width)) = width
         /\ \A i \in 1..width :
              Number(v, width)[i] = Quotients(v, width)[i - 1] % Byte
<1>1. Number(v, width) = [i \in 1..width |-> Quotients(v, width)[i - 1] % Byte]
  BY DEF Number
<1>2. ASSUME NEW i \in 1..width PROVE Quotients(v, width)[i - 1] % Byte \in Bytes
  <2>1. Quotients(v, width)[i - 1] \in Nat
    BY QuotientsAre
  <2> QED  BY <2>1, Division DEF Bytes
<1>3. Number(v, width) \in [1..width -> Bytes]
  BY <1>1, <1>2
<1>4. Number(v, width) \in Seq(Bytes) /\ Len(Number(v, width)) = width
  BY <1>3, SequenceOf
<1> QED  BY <1>1, <1>4

(* ByteReader::pop undoes push: the value of the last bytes is what the    *)
(* first ones left.                                                        *)
AreValues(value, b) ==
  value = [i \in 0..Len(b) |->
             IF i = 0 THEN 0 ELSE b[Len(b) - i + 1] + Byte * value[i - 1]]

Values(b) == CHOOSE value : AreValues(value, b)

LEMMA ValueOfNumber ==
  ASSUME NEW v \in Nat, NEW width \in Nat, Fits(v, width)
  PROVE  ValueOf(Number(v, width)) = v
<1> DEFINE q == Quotients(v, width)
           b == Number(v, width)
           f == [i \in 0..width |-> q[width - i]]
<1>1. q \in [0..width -> Nat] /\ q[0] = v /\ q[width] = 0
      /\ \A i \in 1..width : q[i] = q[i - 1] \div Byte
  BY QuotientsAre DEF Fits
<1>2. Len(b) = width /\ \A i \in 1..width : b[i] = q[i - 1] % Byte
  BY NumberIs
<1> HIDE DEF q, b
<1>3. ASSUME NEW i \in 1..width
      PROVE  q[width - i] = b[width - i + 1] + Byte * q[width - (i - 1)]
  <2>1. width - i + 1 \in 1..width /\ (width - i + 1) - 1 = width - i
        /\ width - (i - 1) = width - i + 1 /\ width - i \in 0..width
    OBVIOUS
  <2>2. b[width - i + 1] = q[width - i] % Byte
    BY <1>2, <2>1
  <2>3. q[width - i + 1] = q[width - i] \div Byte
    BY <1>1, <2>1
  <2>4. q[width - i] \in Nat
    BY <1>1, <2>1
  <2>5. q[width - i] = (q[width - i] % Byte) + Byte * (q[width - i] \div Byte)
    BY <2>4, Division
  <2> QED  BY <2>1, <2>2, <2>3, <2>5
<1>4. AreValues(f, b)
  <2>1. ASSUME NEW i \in 0..width
        PROVE f[i] = IF i = 0 THEN 0 ELSE b[width - i + 1] + Byte * f[i - 1]
    BY <1>1, <1>3
  <2>2. f = [i \in 0..width |-> f[i]]
    OBVIOUS
  <2> HIDE DEF f
  <2>3. f = [i \in 0..width |->
               IF i = 0 THEN 0 ELSE b[width - i + 1] + Byte * f[i - 1]]
    BY <2>1, <2>2
  <2> QED  BY <2>3, <1>2 DEF AreValues
<1> DEFINE value == Values(b)
<1>5. AreValues(value, b) /\ ValueOf(b) = value[width]
  <2>1. AreValues(value, b)
    BY <1>4, Zenon DEF Values
  <2>2. ValueOf(b) = value[Len(b)]
    BY DEF ValueOf, Values, AreValues
  <2> QED  BY <2>1, <2>2, <1>2
<1> HIDE DEF value
<1>6. /\ value[0] = 0
      /\ \A i \in 1..width : value[i] = b[width - i + 1] + Byte * value[i - 1]
  BY <1>2, <1>5 DEF AreValues
<1> DEFINE g == [i \in 0..width |-> q[width - i]]
<1>7. Alike(g, value, width)
  <2>1. g[0] = 0
    BY <1>1
  <2>2. ASSUME NEW i \in 1..width PROVE g[i] = b[width - i + 1] + Byte * g[i - 1]
    BY <1>3
  <2> HIDE DEF g
  <2> QED  BY <1>6, <2>1, <2>2 DEF Alike
<1>8. g[width] = value[width]
  <2> HIDE DEF g
  <2> QED  BY <1>7, Agree
<1>9. g[width] = v
  BY <1>1
<1> QED  BY <1>5, <1>8, <1>9 DEF b
-----------------------------------------------------------------------------
(* What stands first is read, and what follows is left.                    *)
LEMMA ReadFirst ==
  ASSUME NEW Atoms, NEW s \in Seq(Atoms), NEW t \in Seq(Atoms)
  PROVE  ReadBytes(s \o t, Len(s)) = Just([read |-> s, rest |-> t])
<1> DEFINE m == Len(s)
           n == Len(s) + Len(t)
           b == s \o t
<1>1. b \in Seq(Atoms) /\ Len(b) = n /\ m \in Nat /\ n \in Nat /\ m <= n
      /\ Len(t) \in Nat /\ n = m + Len(t)
      /\ \A i \in 1..n : b[i] = IF i <= m THEN s[i] ELSE t[i - m]
  BY ConcatProperties, LenProperties
<1>2. \A i \in 1..n : b[i] \in Atoms
  BY <1>1, ElementOfSeq
<1> HIDE DEF b, m, n
<1>3. SubSeq(b, 1, m) = s
  <2>1. /\ SubSeq(b, 1, m) \in Seq(Atoms) /\ Len(SubSeq(b, 1, m)) = m
        /\ \A i \in 1..m : SubSeq(b, 1, m)[i] = b[i]
    BY <1>1, <1>2, SubSeqProperties
  <2>2. \A i \in 1..m : SubSeq(b, 1, m)[i] = s[i]
    BY <1>1, <2>1
  <2> QED  BY <2>1, <2>2, SeqEqual DEF m
<1>4. SubSeq(b, m + 1, n) = t
  <2>1. /\ SubSeq(b, m + 1, n) \in Seq(Atoms)
        /\ Len(SubSeq(b, m + 1, n)) = Len(t)
        /\ \A i \in 1..Len(t) : SubSeq(b, m + 1, n)[i] = b[m + i]
    <3>1. \A i \in m + 1..n : b[i] \in Atoms
      BY <1>1, <1>2
    <3>2. /\ SubSeq(b, m + 1, n) \in Seq(Atoms)
          /\ Len(SubSeq(b, m + 1, n)) = IF m + 1 <= n THEN n - (m + 1) + 1 ELSE 0
          /\ \A i \in 1..n - (m + 1) + 1 :
               SubSeq(b, m + 1, n)[i] = b[(m + 1) + i - 1]
      BY <1>1, <3>1, SubSeqProperties
    <3> QED  BY <1>1, <3>2
  <2>2. \A i \in 1..Len(t) : SubSeq(b, m + 1, n)[i] = t[i]
    BY <1>1, <2>1
  <2> QED  BY <2>1, <2>2, SeqEqual
<1>5. ReadBytes(b, m) = Just([read |-> SubSeq(b, 1, m), rest |-> SubSeq(b, m + 1, n)])
  BY <1>1 DEF ReadBytes
<1> QED  BY <1>3, <1>4, <1>5 DEF b, m

(* An option that holds something. *)
LEMMA JustIs ==
  \A x : Just(x) # Nothing /\ Just(x)[1] = x
  BY DEF Just, Nothing

LEMMA Joined3 ==
  ASSUME NEW Atoms, NEW s \in Seq(Atoms), NEW t \in Seq(Atoms), NEW u \in Seq(Atoms)
  PROVE  /\ s \o t \in Seq(Atoms) /\ t \o u \in Seq(Atoms)
         /\ (s \o t) \o u = s \o (t \o u)
  BY ConcatProperties, ConcatAssociative

LEMMA NumberRead ==
  ASSUME NEW Atoms, Bytes \subseteq Atoms, NEW v \in Nat, NEW width \in Nat,
         Fits(v, width), NEW t \in Seq(Atoms)
  PROVE  ReadNumber(Number(v, width) \o t, width) = Just([read |-> v, rest |-> t])
<1> DEFINE s == Number(v, width)
           r == [read |-> s, rest |-> t]
<1>1. s \in Seq(Atoms) /\ Len(s) = width
  BY NumberIs, SeqMonotonic
<1>2. ReadBytes(s \o t, width) = Just(r)
  BY <1>1, ReadFirst
<1>3. ValueOf(s) = v
  BY ValueOfNumber
<1> HIDE DEF s
<1>4. ReadNumber(s \o t, width) = Just([read |-> ValueOf(s), rest |-> t])
  BY <1>2, JustIs DEF ReadNumber, Then
<1> QED  BY <1>3, <1>4 DEF s

(* The fields of a message, and those that their widths can hold.          *)
Kinds == {"u16", "u32", "str16", "str32", "hash"}

FieldFits(kind, x, Atoms) ==
  /\ kind \in {"u16", "u32"} => x \in Nat
  /\ kind = "u16" => Fits(x, 2)
  /\ kind = "u32" => Fits(x, 4)
  /\ kind \in {"str16", "str32", "hash"} => x \in Seq(Atoms)
  /\ kind = "str16" => Fits(Len(x), 2)
  /\ kind = "str32" => Fits(Len(x), 4)
  /\ kind = "hash" => Len(x) = HashSize

LEMMA FieldRead ==
  ASSUME NEW Atoms, Bytes \subseteq Atoms, NEW kind \in Kinds, NEW x,
         FieldFits(kind, x, Atoms), NEW t \in Seq(Atoms)
  PROVE  /\ WriteField(kind, x) \in Seq(Atoms)
         /\ ReadField(kind, WriteField(kind, x) \o t)
              = Just([read |-> x, rest |-> t])
<1>1. ASSUME NEW width \in {2, 4}, x \in Nat, Fits(x, width)
      PROVE  /\ Number(x, width) \in Seq(Atoms)
             /\ ReadNumber(Number(x, width) \o t, width)
                  = Just([read |-> x, rest |-> t])
  <2>1. Number(x, width) \in Seq(Atoms)
    BY <1>1, NumberIs, SeqMonotonic
  <2> QED  BY <1>1, <2>1, NumberRead
<1>2. ASSUME NEW width \in {2, 4}, x \in Seq(Atoms), Fits(Len(x), width)
      PROVE  /\ Number(Len(x), width) \o x \in Seq(Atoms)
             /\ Then(ReadNumber((Number(Len(x), width) \o x) \o t, width),
                     LAMBDA n : ReadBytes(n.rest, n.read))
                  = Just([read |-> x, rest |-> t])
  <2>1. Number(Len(x), width) \in Seq(Atoms) /\ Len(x) \in Nat /\ x \o t \in Seq(Atoms)
    BY <1>2, NumberIs, SeqMonotonic, LenProperties, ConcatProperties
  <2>2. (Number(Len(x), width) \o x) \o t = Number(Len(x), width) \o (x \o t)
    BY <1>2, <2>1, ConcatAssociative
  <2>3. ReadNumber(Number(Len(x), width) \o (x \o t), width)
          = Just([read |-> Len(x), rest |-> x \o t])
    <3>1. width \in Nat
      OBVIOUS
    <3> QED  BY <1>2, <2>1, <3>1, NumberRead
  <2>4. ReadBytes(x \o t, Len(x)) = Just([read |-> x, rest |-> t])
    BY <1>2, ReadFirst
  <2>5. Number(Len(x), width) \o x \in Seq(Atoms)
    BY <1>2, <2>1, ConcatProperties
  <2> DEFINE o == ReadNumber((Number(Len(x), width) \o x) \o t, width)
  <2>6. o # Nothing /\ o[1].read = Len(x) /\ o[1].rest = x \o t
    <3> DEFINE r == [read |-> Len(x), rest |-> x \o t]
    <3>1. r.read = Len(x) /\ r.rest = x \o t
      OBVIOUS
    <3>2. o = Just(r)
      BY <2>2, <2>3
    <3> HIDE DEF r, o
    <3> QED  BY <3>1, <3>2, JustIs
  <2> HIDE DEF o
  <2>7. Then(o, LAMBDA n : ReadBytes(n.rest, n.read))
          = Just([read |-> x, rest |-> t])
    BY <2>4, <2>6 DEF Then
  <2> QED  BY <2>5, <2>7 DEF o
<1>3. CASE kind = "u16"
  BY <1>1, <1>3 DEF WriteField, ReadField, FieldFits
<1>4. CASE kind = "u32"
  BY <1>1, <1>4 DEF WriteField, ReadField, FieldFits
<1>5. CASE kind = "str16"
  BY <1>2, <1>5 DEF WriteField, ReadField, FieldFits
<1>6. CASE kind = "str32"
  BY <1>2, <1>6 DEF WriteField, ReadField, FieldFits
<1>7. CASE kind = "hash"
  BY <1>7, ReadFirst DEF WriteField, ReadField, FieldFits
<1> QED  BY <1>3, <1>4, <1>5, <1>6, <1>7 DEF Kinds
-----------------------------------------------------------------------------
(* Parts in a row: what has been joined, and what is still to come.        *)
AreJoined(f, parts) ==
  f = [i \in 1..Len(parts) |-> IF i = 1 THEN parts[i] ELSE f[i - 1] \o parts[i]]

Joined(parts) == CHOOSE f : AreJoined(f, parts)

LEMMA PartsJoined ==
  ASSUME NEW Atoms, NEW parts \in Seq(Seq(Atoms))
  PROVE  \E f \in [0..Len(parts) -> Seq(Atoms)] :
           /\ f[0] = <<>> /\ FlattenSeq(parts) = f[Len(parts)]
           /\ \A i \in 1..Len(parts) : f[i] = f[i - 1] \o parts[i]
<1> DEFINE n == Len(parts)
           T == Seq(Atoms)
           round == [i \in 1..n |-> [s \in T |-> s \o parts[i]]]
<1>1. n \in Nat /\ \A i \in 1..n : parts[i] \in T
  BY LenProperties, ElementOfSeq
<1>2. <<>> \in T
  BY EmptySeq
<1>3. \A s, z \in T : s \o z \in T
  BY ConcatProperties
<1> HIDE DEF T, n
<1>4. round \in [1..n -> [T -> T]]
  BY <1>1, <1>3
<1>5. PICK f : IsRun(f, T, <<>>, round, n)
  <2> HIDE DEF round
  <2> QED  BY <1>1, <1>2, <1>4, Iteration
<1>6. f \in [0..n -> T] /\ f[0] = <<>> /\ \A i \in 1..n : f[i] = round[i][f[i - 1]]
  <2> HIDE DEF round
  <2> QED  BY <1>5 DEF IsRun
<1>7. ASSUME NEW i \in 1..n PROVE f[i] = f[i - 1] \o parts[i]
  <2>1. i - 1 \in 0..n
    BY <1>1
  <2>2. f[i - 1] \in T
    BY <1>6, <2>1
  <2>3. round[i][f[i - 1]] = f[i - 1] \o parts[i]
    BY <2>2
  <2> QED  BY <1>6, <2>3
<1> HIDE DEF round
<1>8. CASE n = 0
  <2>1. parts = <<>>
    BY <1>8, EmptySeq DEF n
  <2>2. FlattenSeq(parts) = parts
    BY <1>8 DEF FlattenSeq, n
  <2> QED  BY <1>6, <1>7, <1>8, <2>1, <2>2 DEF n, T
<1>9. CASE n # 0
  <2> DEFINE g == [i \in 1..n |-> f[i]]
             h == Joined(parts)
             k == [i \in 0..n |-> IF i = 0 THEN <<>> ELSE h[i]]
  <2>1. f[1] = parts[1]
    <3>1. 1 \in 1..n /\ 1 - 1 = 0
      BY <1>1, <1>9
    <3>2. f[1] = f[0] \o parts[1]
      BY <1>7, <3>1
    <3>3. parts[1] \in Seq(Atoms)
      BY <1>1, <3>1 DEF T
    <3> QED  BY <1>6, <3>2, <3>3, ConcatEmptySeq
  <2>2. AreJoined(g, parts)
    <3>1. ASSUME NEW i \in 1..n
          PROVE  g[i] = IF i = 1 THEN parts[i] ELSE g[i - 1] \o parts[i]
      <4>1. CASE i = 1
        BY <2>1, <4>1
      <4>2. CASE i # 1
        <5>1. g[i] = f[i] /\ g[i - 1] = f[i - 1]
          BY <1>1, <4>2
        <5> QED  BY <1>7, <4>2, <5>1
      <4> QED  BY <4>1, <4>2
    <3>2. g = [i \in 1..n |-> g[i]]
      OBVIOUS
    <3> HIDE DEF g
    <3>3. g = [i \in 1..n |-> IF i = 1 THEN parts[i] ELSE g[i - 1] \o parts[i]]
      BY <3>1, <3>2
    <3> QED  BY <3>3 DEF AreJoined, n
  <2>3. AreJoined(h, parts)
    BY <2>2, Zenon DEF Joined
  <2>4. FlattenSeq(parts) = h[n]
    BY <1>9 DEF FlattenSeq, Joined, AreJoined, n
  <2> HIDE DEF g, h
  <2>5. \A i \in 1..n : h[i] = IF i = 1 THEN parts[i] ELSE h[i - 1] \o parts[i]
    BY <2>3 DEF AreJoined, n
  <2>6. k[0] = f[0]
    BY <1>1, <1>6
  <2>7. ASSUME NEW i \in 1..n, k[i - 1] = f[i - 1] PROVE k[i] = f[i]
    <3>1. CASE i = 1
      BY <2>1, <2>5, <3>1
    <3>2. CASE i # 1
      <4>1. k[i] = h[i] /\ k[i - 1] = h[i - 1]
        BY <1>1, <3>2
      <4> QED  BY <1>7, <2>5, <2>7, <3>2, <4>1
    <3> QED  BY <3>1, <3>2
  <2>8. k[n] = h[n]
    BY <1>1, <1>9
  <2> HIDE DEF k
  <2>9. \A i \in 0..n : k[i] = f[i]
    <3>1. Alike(k, f, n)
      BY <2>6, <2>7 DEF Alike
    <3> QED  BY <1>1, <3>1, Agree
  <2>10. FlattenSeq(parts) = f[n]
    BY <1>1, <2>4, <2>8, <2>9
  <2>11. \A i \in 1..n : f[i] = f[i - 1] \o parts[i]
    BY <1>7
  <2> QED  BY <1>6, <2>10, <2>11 DEF n, T
<1> QED  BY <1>8, <1>9

Cat(s, t) == s \o t

(* r[i] is what the first i parts leave. *)
AreRests(r, parts, t, Atoms) ==
  /\ r \in [0..Len(parts) -> Seq(Atoms)]
  /\ r[0] = Cat(FlattenSeq(parts), t) /\ r[Len(parts)] = t
  /\ \A i \in 1..Len(parts) : r[i - 1] = Cat(parts[i], r[i])

LEMMA PartsFollow ==
  ASSUME NEW Atoms, NEW parts \in Seq(Seq(Atoms)), NEW t \in Seq(Atoms)
  PROVE  /\ FlattenSeq(parts) \in Seq(Atoms)
         /\ \E r : AreRests(r, parts, t, Atoms)
<1> DEFINE n == Len(parts)
           T == Seq(Atoms)
           round == [i \in 1..n |-> [s \in T |-> parts[n + 1 - i] \o s]]
<1>1. n \in Nat /\ \A i \in 1..n : parts[i] \in T
  BY LenProperties, ElementOfSeq
<1>2. PICK f \in [0..n -> T] :
        /\ f[0] = <<>> /\ FlattenSeq(parts) = f[n]
        /\ \A i \in 1..n : f[i] = f[i - 1] \o parts[i]
  BY PartsJoined
<1>3. \A s, z \in T : s \o z \in T
  BY ConcatProperties
<1>4. \A s, z, y \in T : (s \o z) \o y = s \o (z \o y)
  BY ConcatAssociative
<1>5. <<>> \o t = t /\ t \in T
  BY ConcatEmptySeq
<1> HIDE DEF T, n
<1>6. round \in [1..n -> [T -> T]]
  <2>1. \A i \in 1..n : n + 1 - i \in 1..n
    BY <1>1
  <2> QED  BY <1>1, <1>3, <2>1
<1>7. PICK b : IsRun(b, T, t, round, n)
  <2> HIDE DEF round
  <2> QED  BY <1>1, <1>5, <1>6, Iteration
<1>8. b \in [0..n -> T] /\ b[0] = t /\ \A i \in 1..n : b[i] = round[i][b[i - 1]]
  <2> HIDE DEF round
  <2> QED  BY <1>7 DEF IsRun
<1>9. ASSUME NEW i \in 1..n PROVE b[i] = parts[n + 1 - i] \o b[i - 1]
  <2>1. i - 1 \in 0..n
    BY <1>1
  <2>2. b[i - 1] \in T
    BY <1>8, <2>1
  <2>3. round[i][b[i - 1]] = parts[n + 1 - i] \o b[i - 1]
    BY <2>2
  <2> QED  BY <1>8, <2>3
<1> DEFINE r == [i \in 0..n |-> b[n - i]]
<1>10. r \in [0..n -> T] /\ r[n] = t
  <2>1. \A i \in 0..n : n - i \in 0..n
    BY <1>1
  <2> QED  BY <1>1, <1>8, <2>1
<1>11. ASSUME NEW i \in 1..n PROVE r[i - 1] = parts[i] \o r[i]
  <2>1. /\ n - (i - 1) = n + 1 - i /\ n + 1 - i \in 1..n
        /\ n + 1 - (n + 1 - i) = i /\ (n + 1 - i) - 1 = n - i
        /\ i - 1 \in 0..n /\ i \in 0..n
    BY <1>1
  <2>2. b[n + 1 - i] = parts[i] \o b[n - i]
    BY <1>9, <2>1
  <2>3. r[i - 1] = b[n + 1 - i] /\ r[i] = b[n - i]
    BY <2>1
  <2> QED  BY <2>2, <2>3
<1> HIDE DEF r, round
<1> DEFINE whole == [i \in 0..n |-> Cat(f[i], r[i])]
           same == [i \in 0..n |-> r[0]]
<1>12. whole[0] = same[0]
  <2>1. r[0] \in Seq(Atoms) /\ 0 \in 0..n
    BY <1>1, <1>10 DEF T
  <2>2. Cat(f[0], r[0]) = r[0]
    BY <1>2, <2>1, ConcatEmptySeq DEF Cat
  <2> QED  BY <2>1, <2>2
<1>13. ASSUME NEW i \in 1..n, whole[i - 1] = same[i - 1] PROVE whole[i] = same[i]
  <2>1. i - 1 \in 0..n /\ i \in 0..n
    BY <1>1
  <2>2. f[i - 1] \in T /\ r[i] \in T /\ parts[i] \in T
    BY <1>1, <1>2, <1>10, <2>1
  <2>3. f[i] = f[i - 1] \o parts[i] /\ r[i - 1] = parts[i] \o r[i]
    BY <1>2, <1>11
  <2>4. (f[i - 1] \o parts[i]) \o r[i] = f[i - 1] \o (parts[i] \o r[i])
    BY <1>4, <2>2
  <2>5. Cat(f[i], r[i]) = Cat(f[i - 1], r[i - 1])
    <3> HIDE DEF whole, same
    <3> QED  BY <2>3, <2>4, Zenon DEF Cat
  <2> QED  BY <1>13, <2>1, <2>5
<1>14. Cat(f[n], r[n]) = r[0]
  <2>1. whole[n] = Cat(f[n], r[n]) /\ same[n] = r[0]
    BY <1>1
  <2> HIDE DEF whole, same
  <2>2. Alike(whole, same, n)
    BY <1>12, <1>13 DEF Alike
  <2>3. \A i \in 0..n : whole[i] = same[i]
    BY <1>1, <2>2, Agree
  <2> QED  BY <1>1, <2>1, <2>3
<1>15. r[0] = Cat(FlattenSeq(parts), t) /\ FlattenSeq(parts) \in T
  BY <1>1, <1>2, <1>10, <1>14
<1>16. \A i \in 1..n : r[i - 1] = Cat(parts[i], r[i])
  BY <1>11, Zenon DEF Cat
<1>17. AreRests(r, parts, t, Atoms)
  BY <1>10, <1>15, <1>16 DEF AreRests, n, T
<1> QED  BY <1>15, <1>17 DEF T
-----------------------------------------------------------------------------
(* A loop that reads item after item, each from what the last one left,    *)
(* has all of them in the end.                                             *)
ItemsSoFar(items, r, i) == Just([read |-> SubSeq(items, 1, i), rest |-> r[i]])

LEMMA JustRead ==
  ASSUME NEW x, NEW y, NEW o, o = Just([read |-> x, rest |-> y])
  PROVE  o # Nothing /\ o[1].read = x /\ o[1].rest = y
<1> DEFINE p == [read |-> x, rest |-> y]
<1>1. p.read = x /\ p.rest = y
  OBVIOUS
<1>2. o = Just(p)
  OBVIOUS
<1> HIDE DEF p
<1> QED  BY <1>1, <1>2, JustIs

LEMMA OneMore ==
  ASSUME NEW Items, NEW items \in Seq(Items), NEW i \in 1..Len(items)
  PROVE  Append(SubSeq(items, 1, i - 1), items[i]) = SubSeq(items, 1, i)
<1>1. Len(items) \in Nat /\ \A j \in 1..Len(items) : items[j] \in Items
  BY LenProperties, ElementOfSeq
<1>2. /\ SubSeq(items, 1, i - 1) \in Seq(Items)
      /\ Len(SubSeq(items, 1, i - 1)) = i - 1
      /\ \A j \in 1..i - 1 : SubSeq(items, 1, i - 1)[j] = items[j]
  BY <1>1, SubSeqProperties
<1>3. /\ SubSeq(items, 1, i) \in Seq(Items) /\ Len(SubSeq(items, 1, i)) = i
      /\ \A j \in 1..i : SubSeq(items, 1, i)[j] = items[j]
  BY <1>1, SubSeqProperties
<1> DEFINE a == Append(SubSeq(items, 1, i - 1), items[i])
<1>4. /\ a \in Seq(Items) /\ Len(a) = i /\ a[i] = items[i]
      /\ \A j \in 1..i - 1 : a[j] = SubSeq(items, 1, i - 1)[j]
  BY <1>1, <1>2, AppendProperties
<1> HIDE DEF a
<1>5. \A j \in 1..i : a[j] = SubSeq(items, 1, i)[j]
  BY <1>1, <1>2, <1>3, <1>4
<1>6. a = SubSeq(items, 1, i)
  BY <1>3, <1>4, <1>5, SeqEqual
<1> QED  BY <1>6 DEF a

(* Fields in a row. *)
FieldsFit(kinds, fields, Atoms) ==
  /\ Len(fields) = Len(kinds)
  /\ \A i \in 1..Len(kinds) :
       kinds[i] \in Kinds /\ FieldFits(kinds[i], fields[i], Atoms)

NextField(kinds, o, i) ==
  ReadNext(o, LAMBDA rest : ReadField(kinds[i], rest))

AreReads(read, kinds, b) ==
  read = [i \in 0..Len(kinds) |->
            IF i = 0 THEN Just([read |-> <<>>, rest |-> b])
            ELSE NextField(kinds, read[i - 1], i)]

Reading(kinds, b) == CHOOSE read : AreReads(read, kinds, b)

LEMMA FieldsRead ==
  ASSUME NEW Atoms, Bytes \subseteq Atoms, NEW Items, NEW fields \in Seq(Items),
         NEW kinds, kinds \in Seq(Kinds), FieldsFit(kinds, fields, Atoms),
         NEW t \in Seq(Atoms)
  PROVE  /\ Write(kinds, fields) \in Seq(Atoms)
         /\ Read(kinds, Write(kinds, fields) \o t)
              = Just([read |-> fields, rest |-> t])
<1> DEFINE n == Len(kinds)
           parts == [i \in 1..n |-> WriteField(kinds[i], fields[i])]
           b == Write(kinds, fields) \o t
<1>1. n \in Nat /\ Len(fields) = n
      /\ \A i \in 1..n : kinds[i] \in Kinds /\ FieldFits(kinds[i], fields[i], Atoms)
  BY LenProperties DEF FieldsFit
<1>2. \A i \in 1..n : WriteField(kinds[i], fields[i]) \in Seq(Atoms)
  BY <1>1, FieldRead
<1>3. parts \in Seq(Seq(Atoms)) /\ Len(parts) = n
  <2>1. parts \in [1..n -> Seq(Atoms)]
    BY <1>2
  <2> HIDE DEF parts
  <2> QED  BY <1>1, <2>1, SequenceOf
<1>4. Write(kinds, fields) = FlattenSeq(parts)
  BY DEF Write
<1>5. \A i \in 1..n : parts[i] = WriteField(kinds[i], fields[i])
  OBVIOUS
<1> HIDE DEF parts, n
<1>6. FlattenSeq(parts) \in Seq(Atoms) /\ \E r : AreRests(r, parts, t, Atoms)
  BY <1>3, PartsFollow
<1>7. PICK r : AreRests(r, parts, t, Atoms)
  BY <1>6
<1>8. /\ r \in [0..n -> Seq(Atoms)]
      /\ r[0] = Cat(FlattenSeq(parts), t) /\ r[n] = t
      /\ \A i \in 1..n : r[i - 1] = Cat(parts[i], r[i])
  BY <1>3, <1>7 DEF AreRests
<1>9. ASSUME NEW i \in 1..n
      PROVE  ReadField(kinds[i], r[i - 1]) = Just([read |-> fields[i], rest |-> r[i]])
  <2>1. r[i] \in Seq(Atoms)
    BY <1>1, <1>8
  <2>2. kinds[i] \in Kinds /\ FieldFits(kinds[i], fields[i], Atoms)
    BY <1>1
  <2>3. ReadField(kinds[i], WriteField(kinds[i], fields[i]) \o r[i])
          = Just([read |-> fields[i], rest |-> r[i]])
    BY <2>1, <2>2, FieldRead, Zenon
  <2> QED  BY <1>5, <1>8, <2>3, Zenon DEF Cat
<1>10. ASSUME NEW i \in 1..n, NEW o, o = ItemsSoFar(fields, r, i - 1)
      PROVE  NextField(kinds, o, i) = ItemsSoFar(fields, r, i)
  <2> DEFINE z == ReadField(kinds[i], r[i - 1])
  <2>1. o # Nothing /\ o[1].read = SubSeq(fields, 1, i - 1) /\ o[1].rest = r[i - 1]
    BY <1>10, JustRead DEF ItemsSoFar
  <2>2. z = Just([read |-> fields[i], rest |-> r[i]])
    BY <1>9
  <2>3. z # Nothing /\ z[1].read = fields[i] /\ z[1].rest = r[i]
    <3> HIDE DEF z
    <3> QED  BY <2>2, JustRead
  <2>4. Append(SubSeq(fields, 1, i - 1), fields[i]) = SubSeq(fields, 1, i)
    BY <1>1, OneMore
  <2>5. NextField(kinds, o, i)
          = Just([read |-> Append(o[1].read, z[1].read), rest |-> z[1].rest])
    BY <2>1, <2>3 DEF NextField, ReadNext, Then
  <2> HIDE DEF z
  <2> QED  BY <2>1, <2>3, <2>4, <2>5 DEF ItemsSoFar
<1> DEFINE f == [i \in 0..n |-> ItemsSoFar(fields, r, i)]
           read == Reading(kinds, b)
<1>11. ItemsSoFar(fields, r, 0) = Just([read |-> <<>>, rest |-> b])
  <2>1. SubSeq(fields, 1, 0) = <<>>
    BY SubSeqEmpty
  <2>2. r[0] = b
    BY <1>4, <1>8, Zenon DEF Cat
  <2> HIDE DEF b
  <2> QED  BY <2>1, <2>2 DEF ItemsSoFar
<1> HIDE DEF b
<1>12. AreReads(f, kinds, b)
  <2>1. ASSUME NEW i \in 0..n
        PROVE  f[i] = IF i = 0 THEN Just([read |-> <<>>, rest |-> b])
                      ELSE NextField(kinds, f[i - 1], i)
    <3>1. CASE i = 0
      BY <1>11, <3>1
    <3>2. CASE i # 0
      <4>1. i \in 1..n /\ f[i] = ItemsSoFar(fields, r, i)
            /\ f[i - 1] = ItemsSoFar(fields, r, i - 1)
        BY <1>1, <3>2
      <4> QED  BY <1>10, <3>2, <4>1
    <3> QED  BY <3>1, <3>2
  <2>2. f = [i \in 0..n |-> f[i]]
    OBVIOUS
  <2> HIDE DEF f
  <2>3. f = [i \in 0..n |->
               IF i = 0 THEN Just([read |-> <<>>, rest |-> b])
               ELSE NextField(kinds, f[i - 1], i)]
    BY <2>1, <2>2
  <2> QED  BY <2>3 DEF AreReads, n
<1>13. AreReads(read, kinds, b)
  BY <1>12, Zenon DEF Reading
<1>14. Read(kinds, b) = read[n]
  BY DEF Read, Reading, AreReads, NextField, n
<1> HIDE DEF read
<1>15. Alike(f, read, n)
  <2>1. f[0] = ItemsSoFar(fields, r, 0) /\ read[0] = ItemsSoFar(fields, r, 0)
    BY <1>1, <1>11, <1>13 DEF AreReads, n
  <2>2. \A i \in 1..n :
          read[i] = NextField(kinds, read[i - 1], i)
    BY <1>1, <1>13 DEF AreReads, n
  <2>3. ASSUME NEW i \in 1..n, f[i - 1] = read[i - 1] PROVE f[i] = read[i]
    <3>1. f[i] = ItemsSoFar(fields, r, i) /\ f[i - 1] = ItemsSoFar(fields, r, i - 1)
      BY <1>1
    <3>2. read[i] = NextField(kinds, read[i - 1], i)
      BY <1>1, <2>2, Zenon
    <3> QED  BY <1>10, <2>3, <3>1, <3>2
  <2> HIDE DEF f
  <2> QED  BY <2>1, <2>3 DEF Alike
<1>16. f[n] = Just([read |-> fields, rest |-> t])
  <2>1. SubSeq(fields, 1, n) = fields
    BY <1>1, SubSeqFull
  <2>2. n \in 0..n
    BY <1>1
  <2>3. f[n] = ItemsSoFar(fields, r, n)
    BY <2>2
  <2> HIDE DEF f
  <2> QED  BY <1>8, <2>1, <2>3 DEF ItemsSoFar
<1>17. read[n] = f[n]
  <2> HIDE DEF f
  <2> QED  BY <1>1, <1>15, Agree
<1>18. Write(kinds, fields) \in Seq(Atoms)
  BY <1>4, <1>6
<1> QED  BY <1>14, <1>16, <1>17, <1>18 DEF b

(* Rows in a row, and the list that they make with their count.            *)
NextRow(kinds, o) == ReadNext(o, LAMBDA rest : Read(kinds, rest))

AreRowReads(read, kinds, n, b) ==
  read = [i \in 0..n |->
            IF i = 0 THEN Just([read |-> <<>>, rest |-> b])
            ELSE NextRow(kinds, read[i - 1])]

RowReading(kinds, n, b) == CHOOSE read : AreRowReads(read, kinds, n, b)

RowsFit(kinds, rows, Items, Atoms) ==
  \A i \in 1..Len(rows) :
    rows[i] \in Seq(Items) /\ FieldsFit(kinds, rows[i], Atoms)

JoinedRows(kinds, rows) ==
  FlattenSeq([i \in 1..Len(rows) |-> Write(kinds, rows[i])])

LEMMA RowsJoined ==
  ASSUME NEW Atoms, Bytes \subseteq Atoms, NEW Items, NEW rows \in Seq(Seq(Items)),
         NEW kinds, kinds \in Seq(Kinds), RowsFit(kinds, rows, Items, Atoms),
         NEW t \in Seq(Atoms)
  PROVE  /\ JoinedRows(kinds, rows) \in Seq(Atoms)
         /\ RowReading(kinds, Len(rows), JoinedRows(kinds, rows) \o t)[Len(rows)]
              = Just([read |-> rows, rest |-> t])
<1> DEFINE n == Len(rows)
           parts == [i \in 1..n |-> Write(kinds, rows[i])]
           b == JoinedRows(kinds, rows) \o t
<1>1. n \in Nat /\ \A i \in 1..n :
        rows[i] \in Seq(Items) /\ FieldsFit(kinds, rows[i], Atoms)
  BY LenProperties DEF RowsFit
<1>2. \A i \in 1..n : Write(kinds, rows[i]) \in Seq(Atoms)
  BY <1>1, FieldsRead
<1>3. parts \in Seq(Seq(Atoms)) /\ Len(parts) = n
  <2>1. parts \in [1..n -> Seq(Atoms)]
    BY <1>2
  <2> HIDE DEF parts
  <2> QED  BY <1>1, <2>1, SequenceOf
<1>4. JoinedRows(kinds, rows) = FlattenSeq(parts)
  BY DEF JoinedRows
<1>5. \A i \in 1..n : parts[i] = Write(kinds, rows[i])
  OBVIOUS
<1> HIDE DEF parts, n
<1>6. FlattenSeq(parts) \in Seq(Atoms) /\ \E r : AreRests(r, parts, t, Atoms)
  BY <1>3, PartsFollow
<1>7. PICK r : AreRests(r, parts, t, Atoms)
  BY <1>6
<1>8. /\ r \in [0..n -> Seq(Atoms)]
      /\ r[0] = Cat(FlattenSeq(parts), t) /\ r[n] = t
      /\ \A i \in 1..n : r[i - 1] = Cat(parts[i], r[i])
  BY <1>3, <1>7 DEF AreRests
<1>9. ASSUME NEW i \in 1..n
      PROVE  Read(kinds, r[i - 1]) = Just([read |-> rows[i], rest |-> r[i]])
  <2>1. r[i] \in Seq(Atoms)
    BY <1>1, <1>8
  <2>2. rows[i] \in Seq(Items) /\ FieldsFit(kinds, rows[i], Atoms)
    BY <1>1
  <2>3. Read(kinds, Write(kinds, rows[i]) \o r[i])
          = Just([read |-> rows[i], rest |-> r[i]])
    BY <2>1, <2>2, FieldsRead, Zenon
  <2> QED  BY <1>5, <1>8, <2>3, Zenon DEF Cat
<1>10. ASSUME NEW i \in 1..n, NEW o, o = ItemsSoFar(rows, r, i - 1)
      PROVE  NextRow(kinds, o) = ItemsSoFar(rows, r, i)
  <2> DEFINE z == Read(kinds, r[i - 1])
  <2>1. o # Nothing /\ o[1].read = SubSeq(rows, 1, i - 1) /\ o[1].rest = r[i - 1]
    BY <1>10, JustRead DEF ItemsSoFar
  <2>2. z = Just([read |-> rows[i], rest |-> r[i]])
    BY <1>9
  <2>3. z # Nothing /\ z[1].read = rows[i] /\ z[1].rest = r[i]
    <3> HIDE DEF z
    <3> QED  BY <2>2, JustRead
  <2>4. Append(SubSeq(rows, 1, i - 1), rows[i]) = SubSeq(rows, 1, i)
    BY <1>1, OneMore
  <2>5. NextRow(kinds, o)
          = Just([read |-> Append(o[1].read, z[1].read), rest |-> z[1].rest])
    BY <2>1, <2>3 DEF NextRow, ReadNext, Then
  <2> HIDE DEF z
  <2> QED  BY <2>1, <2>3, <2>4, <2>5 DEF ItemsSoFar
<1> DEFINE f == [i \in 0..n |-> ItemsSoFar(rows, r, i)]
           read == RowReading(kinds, n, b)
<1>11. ItemsSoFar(rows, r, 0) = Just([read |-> <<>>, rest |-> b])
  <2>1. SubSeq(rows, 1, 0) = <<>>
    BY SubSeqEmpty
  <2>2. r[0] = b
    BY <1>4, <1>8, Zenon DEF Cat
  <2> HIDE DEF b
  <2> QED  BY <2>1, <2>2 DEF ItemsSoFar
<1> HIDE DEF b
<1>12. AreRowReads(f, kinds, n, b)
  <2>1. ASSUME NEW i \in 0..n
        PROVE  f[i] = IF i = 0 THEN Just([read |-> <<>>, rest |-> b])
                      ELSE NextRow(kinds, f[i - 1])
    <3>1. CASE i = 0
      BY <1>11, <3>1
    <3>2. CASE i # 0
      <4>1. i \in 1..n /\ f[i] = ItemsSoFar(rows, r, i)
            /\ f[i - 1] = ItemsSoFar(rows, r, i - 1)
        BY <1>1, <3>2
      <4> QED  BY <1>10, <3>2, <4>1
    <3> QED  BY <3>1, <3>2
  <2>2. f = [i \in 0..n |-> f[i]]
    OBVIOUS
  <2> HIDE DEF f
  <2>3. f = [i \in 0..n |->
               IF i = 0 THEN Just([read |-> <<>>, rest |-> b])
               ELSE NextRow(kinds, f[i - 1])]
    BY <2>1, <2>2
  <2> QED  BY <2>3 DEF AreRowReads
<1>13. AreRowReads(read, kinds, n, b)
  BY <1>12, Zenon DEF RowReading
<1> HIDE DEF read
<1>14. Alike(f, read, n)
  <2>1. f[0] = ItemsSoFar(rows, r, 0) /\ read[0] = ItemsSoFar(rows, r, 0)
    BY <1>1, <1>11, <1>13 DEF AreRowReads
  <2>2. \A i \in 1..n :
          read[i] = NextRow(kinds, read[i - 1])
    BY <1>1, <1>13 DEF AreRowReads
  <2>3. ASSUME NEW i \in 1..n, f[i - 1] = read[i - 1] PROVE f[i] = read[i]
    <3>1. f[i] = ItemsSoFar(rows, r, i) /\ f[i - 1] = ItemsSoFar(rows, r, i - 1)
      BY <1>1
    <3>2. read[i] = NextRow(kinds, read[i - 1])
      BY <1>1, <2>2, Zenon
    <3> QED  BY <1>10, <2>3, <3>1, <3>2
  <2> HIDE DEF f
  <2> QED  BY <2>1, <2>3 DEF Alike
<1>15. f[n] = Just([read |-> rows, rest |-> t])
  <2>1. SubSeq(rows, 1, n) = rows
    BY <1>1, SubSeqFull DEF n
  <2>2. n \in 0..n
    BY <1>1
  <2>3. f[n] = ItemsSoFar(rows, r, n)
    BY <2>2
  <2> HIDE DEF f
  <2> QED  BY <1>8, <2>1, <2>3 DEF ItemsSoFar
<1>16. read[n] = f[n]
  <2> HIDE DEF f
  <2> QED  BY <1>1, <1>14, Agree
<1>17. JoinedRows(kinds, rows) \in Seq(Atoms)
  BY <1>4, <1>6
<1> QED  BY <1>15, <1>16, <1>17 DEF read, b, n

(* A list within the reader's limit arrives whole; a longer one is         *)
(* refused, however short its rows.                                        *)
LEMMA RowsRead ==
  ASSUME NEW Atoms, Bytes \subseteq Atoms, NEW Items, NEW rows \in Seq(Seq(Items)),
         NEW kinds, kinds \in Seq(Kinds), RowsFit(kinds, rows, Items, Atoms),
         Fits(Len(rows), 4), NEW t \in Seq(Atoms), NEW limit \in Nat
  PROVE  /\ WriteRows(kinds, rows) \in Seq(Atoms)
         /\ ReadRows(kinds, limit, Cat(WriteRows(kinds, rows), t))
              = IF Len(rows) > limit THEN Nothing
                ELSE Just([read |-> rows, rest |-> t])
<1> DEFINE n == Len(rows)
           count == Number(n, 4)
           joined == JoinedRows(kinds, rows)
           b == WriteRows(kinds, rows) \o t
           o == ReadNumber(b, 4)
<1>1. n \in Nat /\ count \in Seq(Atoms)
  BY LenProperties, NumberIs, SeqMonotonic
<1>2. joined \in Seq(Atoms)
      /\ RowReading(kinds, n, joined \o t)[n] = Just([read |-> rows, rest |-> t])
  BY RowsJoined
<1>3. WriteRows(kinds, rows) = count \o joined
  BY DEF WriteRows, JoinedRows
<1>4. count \o joined \in Seq(Atoms) /\ joined \o t \in Seq(Atoms)
      /\ (count \o joined) \o t = count \o (joined \o t)
  <2> HIDE DEF count, joined
  <2> QED  BY <1>1, <1>2, Joined3
<1>5. o = Just([read |-> n, rest |-> joined \o t])
  <2>1. b = count \o (joined \o t)
    BY <1>3, <1>4
  <2> HIDE DEF b, joined
  <2>2. ReadNumber(count \o (joined \o t), 4)
          = Just([read |-> n, rest |-> joined \o t])
    BY <1>1, <1>4, NumberRead
  <2> QED  BY <2>1, <2>2
<1> DEFINE z == joined \o t
<1>6. o # Nothing /\ o[1].read = n /\ o[1].rest = z
  <2>1. o = Just([read |-> n, rest |-> z])
    BY <1>5
  <2> HIDE DEF o, n, z
  <2> QED  BY <2>1, JustRead
<1>7. ReadRows(kinds, limit, b)
        = IF n > limit THEN Nothing ELSE RowReading(kinds, n, z)[n]
  <2>1. ReadRows(kinds, limit, b)
          = IF o[1].read > limit THEN Nothing
            ELSE RowReading(kinds, o[1].read, o[1].rest)[o[1].read]
    <3> HIDE DEF b
    <3> QED  BY <1>6, Zenon DEF ReadRows, Then, RowReading, AreRowReads, NextRow
  <2> HIDE DEF n, z, b, o
  <2> QED  BY <1>6, <2>1
<1> HIDE DEF o
<1> QED  BY <1>2, <1>3, <1>4, <1>7 DEF b, Cat
-----------------------------------------------------------------------------
(* Frames: the header is the length, high byte first. *)
LEMMA Reversed ==
  ASSUME NEW S, NEW s \in Seq(S)
  PROVE  /\ Reverse(s) \in Seq(S) /\ Len(Reverse(s)) = Len(s)
         /\ Reverse(Reverse(s)) = s
<1> DEFINE n == Len(s)
           r == Reverse(s)
<1>1. n \in Nat /\ \A i \in 1..n : s[i] \in S
  BY LenProperties, ElementOfSeq
<1>2. \A z \in Seq(S) : Reverse(z) = [i \in 1..Len(z) |-> z[(Len(z) - i) + 1]]
  BY DEF Reverse
<1>3. r = [i \in 1..n |-> s[(n - i) + 1]]
  BY <1>2
<1> HIDE DEF n
<1>4. r \in [1..n -> S]
  BY <1>1, <1>3
<1> HIDE DEF r
<1>5. r \in Seq(S) /\ Len(r) = n
  BY <1>1, <1>4, SequenceOf
<1>6. Reverse(r) = [i \in 1..n |-> r[(n - i) + 1]]
  BY <1>2, <1>5
<1>7. \A i \in 1..n : r[(n - i) + 1] = s[i]
  <2>1. ASSUME NEW i \in 1..n PROVE r[(n - i) + 1] = s[i]
    <3>1. (n - i) + 1 \in 1..n /\ (n - ((n - i) + 1)) + 1 = i
      BY <1>1
    <3> QED  BY <1>3, <3>1
  <2> QED  BY <2>1
<1>8. Reverse(r) \in [1..n -> S] /\ \A i \in 1..n : Reverse(r)[i] = s[i]
  BY <1>1, <1>6, <1>7
<1>9. Reverse(r) \in Seq(S) /\ Len(Reverse(r)) = n
  BY <1>1, <1>8, SequenceOf
<1>10. Reverse(r) = s
  BY <1>8, <1>9, SeqEqual DEF n
<1> QED  BY <1>5, <1>10 DEF r, n

LEMMA HeaderRead ==
  ASSUME NEW Atoms, Bytes \subseteq Atoms, NEW v \in Nat, Fits(v, 4),
         NEW t \in Seq(Atoms), NEW limit
  PROVE  /\ Reverse(Number(v, 4)) \in Seq(Atoms) /\ Len(Reverse(Number(v, 4))) = 4
         /\ Receive(Reverse(Number(v, 4)) \o t, limit)
              = IF v = 0 \/ v > limit THEN Nothing ELSE ReadBytes(t, v)
<1> DEFINE header == Reverse(Number(v, 4))
           stream == header \o t
           o == ReadBytes(stream, 4)
<1>1. Number(v, 4) \in Seq(Atoms) /\ Len(Number(v, 4)) = 4
  BY NumberIs, SeqMonotonic
<1>2. header \in Seq(Atoms) /\ Len(header) = 4
      /\ Reverse(header) = Number(v, 4)
  BY <1>1, Reversed
<1>3. ValueOf(Reverse(header)) = v
  BY <1>2, ValueOfNumber
<1> HIDE DEF header
<1>4. o = Just([read |-> header, rest |-> t])
  BY <1>2, ReadFirst
<1>5. o # Nothing /\ o[1].read = header /\ o[1].rest = t
  <2> HIDE DEF o
  <2> QED  BY <1>4, JustRead
<1>6. Receive(stream, limit)
        = IF v = 0 \/ v > limit THEN Nothing ELSE ReadBytes(t, v)
  <2> HIDE DEF stream
  <2> QED  BY <1>3, <1>5 DEF Receive, Then
<1> QED  BY <1>2, <1>6 DEF header

(* What send wrote is what read_frame gives, and the frames after it are   *)
(* left in the stream; an empty payload or one above the reader's limit    *)
(* ends the connection.                                                    *)
THEOREM FrameArrives ==
  ASSUME NEW Atoms, Bytes \subseteq Atoms, NEW payload \in Seq(Atoms),
         Fits(Len(payload), 4), NEW t \in Seq(Atoms), NEW limit \in Nat
  PROVE  Receive(Frame(payload) \o t, limit)
           = IF Len(payload) = 0 \/ Len(payload) > limit THEN Nothing
             ELSE Just([read |-> payload, rest |-> t])
<1> DEFINE v == Len(payload)
           header == Reverse(Number(v, 4))
<1>1. v \in Nat
  BY LenProperties
<1>2. header \in Seq(Atoms)
  BY <1>1, HeaderRead
<1>3. payload \o t \in Seq(Atoms) /\ Frame(payload) \o t = header \o (payload \o t)
  <2>1. Frame(payload) = header \o payload
    BY DEF Frame
  <2> HIDE DEF header
  <2> QED  BY <1>2, <2>1, Joined3
<1>4. ReadBytes(payload \o t, v) = Just([read |-> payload, rest |-> t])
  BY ReadFirst
<1>5. Receive(header \o (payload \o t), limit)
        = IF v = 0 \/ v > limit THEN Nothing ELSE ReadBytes(payload \o t, v)
  BY <1>1, <1>3, HeaderRead
<1> HIDE DEF header, v
<1> QED  BY <1>3, <1>4, <1>5 DEF v

LEMMA AfterFour ==
  ASSUME NEW Atoms, NEW s \in Seq(Atoms), Len(s) = 4, NEW t \in Seq(Atoms),
         NEW n \in Nat, n = Len(t)
  PROVE  /\ s \o t \in Seq(Atoms) /\ Len(s \o t) = 4 + n
         /\ \A i \in 1..4 + n : (s \o t)[i] = IF i <= 4 THEN s[i] ELSE t[i - 4]
<1> DEFINE b == s \o t
<1>1. /\ b \in Seq(Atoms) /\ Len(b) = Len(s) + Len(t)
      /\ \A i \in 1..Len(s) + Len(t) :
           b[i] = IF i <= Len(s) THEN s[i] ELSE t[i - Len(s)]
  BY ConcatProperties, LenProperties
<1> HIDE DEF b
<1>2. /\ b \in Seq(Atoms) /\ Len(b) = 4 + n
      /\ \A i \in 1..4 + n : b[i] = IF i <= 4 THEN s[i] ELSE t[i - 4]
  BY <1>1
<1> QED  BY <1>2 DEF b

(* A frame that the end of the stream cuts anywhere gives nothing.         *)
THEOREM CutFrameIsLost ==
  ASSUME NEW Atoms, Bytes \subseteq Atoms, NEW payload \in Seq(Atoms),
         Fits(Len(payload), 4), NEW limit \in Nat,
         NEW k \in 0..Len(Frame(payload)) - 1
  PROVE  Receive(SubSeq(Frame(payload), 1, k), limit) = Nothing
<1> DEFINE v == Len(payload)
           header == Reverse(Number(v, 4))
           frame == Frame(payload)
           cut == SubSeq(frame, 1, k)
<1>1. v \in Nat
  BY LenProperties
<1>2. header \in Seq(Atoms) /\ Len(header) = 4
  BY <1>1, HeaderRead
<1>3. frame = header \o payload
  BY DEF Frame
<1> HIDE DEF header
<1>4. frame \in Seq(Atoms) /\ Len(frame) = 4 + v
      /\ \A i \in 1..4 + v : frame[i] = IF i <= 4 THEN header[i] ELSE payload[i - 4]
  BY <1>1, <1>2, <1>3, AfterFour
<1>5. k \in Nat /\ k < 4 + v
  BY <1>1, <1>4
<1> HIDE DEF frame, v
<1>6. cut \in Seq(Atoms) /\ Len(cut) = k /\ \A i \in 1..k : cut[i] = frame[i]
  <2>1. \A i \in 1..k : frame[i] \in Atoms
    BY <1>1, <1>4, <1>5, ElementOfSeq
  <2> QED  BY <1>5, <2>1, SubSeqProperties
<1>7. CASE k < 4
  <2> HIDE DEF cut
  <2>1. ReadBytes(cut, 4) = Nothing
    BY <1>6, <1>7 DEF ReadBytes
  <2>2. Receive(cut, limit) = Nothing
    BY <2>1 DEF Receive, Then
  <2> QED  BY <2>2 DEF cut, frame
<1>8. CASE k >= 4
  <2> DEFINE m == k - 4
             t == SubSeq(payload, 1, m)
  <2>1. m \in Nat /\ m < v /\ k = 4 + m
    BY <1>1, <1>5, <1>8
  <2>2. \A i \in 1..m : payload[i] \in Atoms
    BY <1>1, <2>1, ElementOfSeq DEF v
  <2>3. t \in Seq(Atoms) /\ Len(t) = m /\ \A i \in 1..m : t[i] = payload[i]
    BY <2>1, <2>2, SubSeqProperties
  <2> HIDE DEF m, t
  <2>4. header \o t \in Seq(Atoms) /\ Len(header \o t) = 4 + m
        /\ \A i \in 1..4 + m : (header \o t)[i] = IF i <= 4 THEN header[i] ELSE t[i - 4]
    BY <1>2, <2>1, <2>3, AfterFour
  <2>5. \A i \in 1..k : cut[i] = (header \o t)[i]
    <3> DEFINE z == header \o t
    <3> HIDE DEF z, cut
    <3>1. \A i \in 1..4 + m : z[i] = IF i <= 4 THEN header[i] ELSE t[i - 4]
      BY <2>4 DEF z
    <3>2. ASSUME NEW i \in 1..k PROVE cut[i] = z[i]
      <4>1. cut[i] = frame[i] /\ i \in 1..4 + v /\ i \in 1..4 + m
        BY <1>1, <1>5, <1>6, <2>1
      <4>2. frame[i] = IF i <= 4 THEN header[i] ELSE payload[i - 4]
        BY <1>4, <4>1
      <4>3. z[i] = IF i <= 4 THEN header[i] ELSE t[i - 4]
        BY <3>1, <4>1
      <4>4. i > 4 => i - 4 \in 1..m
        BY <2>1, <4>1
      <4> QED  BY <2>3, <4>1, <4>2, <4>3, <4>4
    <3> QED  BY <3>2 DEF z
  <2>6. cut = header \o t
    <3> DEFINE z == header \o t
    <3>1. z \in Seq(Atoms) /\ Len(z) = k /\ \A i \in 1..k : cut[i] = z[i]
      BY <2>1, <2>4, <2>5
    <3> HIDE DEF z, cut
    <3>2. cut = z
      BY <1>6, <3>1, SeqEqual
    <3> QED  BY <3>2 DEF z
  <2>7. Receive(header \o t, limit)
          = IF v = 0 \/ v > limit THEN Nothing ELSE ReadBytes(t, v)
    BY <1>1, <2>3, HeaderRead DEF header, v
  <2>8. ReadBytes(t, v) = Nothing
    BY <1>1, <2>1, <2>3 DEF ReadBytes
  <2>9. Receive(cut, limit) = Nothing
    <3> HIDE DEF cut
    <3> QED  BY <2>6, <2>7, <2>8
  <2> QED  BY <2>9 DEF frame
<1> QED  BY <1>5, <1>7, <1>8
-----------------------------------------------------------------------------
(* Messages: the opcode, and what follows it. *)
LEMMA SmallFits ==
  ASSUME NEW v \in 0..Byte * Byte - 1
  PROVE  Fits(v, 2)
<1> DEFINE q == Quotients(v, 2)
<1>1. Byte \in Nat /\ Byte > 1 /\ v \in Nat /\ v < Byte * Byte
  BY WireAssumption
<1>2. q[0] = v /\ q[1] = q[0] \div Byte /\ q[2] = q[1] \div Byte
  BY <1>1, QuotientsAre
<1> HIDE DEF q
<1>3. PICK a \in Nat : a = q[1] /\ \E m \in 0..Byte - 1 : v = m + Byte * a
  BY <1>1, <1>2, Division
<1>4. a < Byte
  <2>1. ASSUME a >= Byte PROVE FALSE
    <3>1. Byte * a >= Byte * Byte
      BY <1>1, <2>1
    <3>2. PICK m \in Nat : v = m + Byte * a
      BY <1>1, <1>3
    <3>3. Byte * a \in Nat /\ Byte * Byte \in Nat
      BY <1>1
    <3> QED  BY <1>1, <3>1, <3>2, <3>3
  <2> QED  BY <1>1, <2>1
<1>5. PICK c \in Nat : c = q[2] /\ \E m \in 0..Byte - 1 : a = m + Byte * c
  BY <1>2, <1>3, Division
<1>6. c = 0
  <2>1. ASSUME c >= 1 PROVE FALSE
    <3>1. Byte * c >= Byte /\ Byte * c \in Nat
      BY <1>1, <2>1
    <3>2. PICK m \in Nat : a = m + Byte * c
      BY <1>1, <1>5
    <3> QED  BY <1>1, <1>4, <3>1, <3>2
  <2> QED  BY <2>1
<1> QED  BY <1>5, <1>6 DEF Fits, q

Message(op, s) == Number(op, 2) \o s

LEMMA OpcodeRead ==
  ASSUME NEW Atoms, Bytes \subseteq Atoms, NEW op \in MessageOpcodes, NEW s \in Seq(Atoms)
  PROVE  /\ Message(op, s) \in Seq(Atoms) /\ Len(Message(op, s)) >= 2
         /\ ReadNumber(Message(op, s), 2) = Just([read |-> op, rest |-> s])
<1>1. op \in Nat /\ Fits(op, 2)
  <2>1. Byte * Byte \in Nat /\ Byte * Byte > 104
    BY WireAssumption, CodecsAssumption
  <2> QED  BY <2>1, SmallFits DEF MessageOpcodes
<1>2. ReadNumber(Message(op, s), 2) = Just([read |-> op, rest |-> s])
  BY <1>1, NumberRead DEF Message
<1> DEFINE n == Number(op, 2)
<1>3. n \in Seq(Atoms) /\ Len(n) = 2
  BY <1>1, NumberIs, SeqMonotonic
<1> HIDE DEF n
<1>4. n \o s \in Seq(Atoms) /\ Len(n \o s) = Len(n) + Len(s) /\ Len(s) \in Nat
  BY <1>3, ConcatProperties, LenProperties
<1>5. Message(op, s) = n \o s
  BY DEF Message, n
<1>6. n \o s \in Seq(Atoms) /\ Len(n \o s) >= 2
  BY <1>3, <1>4
<1> QED  BY <1>2, <1>5, <1>6, Zenon

LEMMA MessageRead ==
  ASSUME NEW Atoms, Bytes \subseteq Atoms, NEW Items, NEW fields \in Seq(Items),
         NEW kinds, kinds \in Seq(Kinds), FieldsFit(kinds, fields, Atoms),
         NEW z, z = Read(kinds, Write(kinds, fields))
  PROVE  /\ Write(kinds, fields) \in Seq(Atoms)
         /\ z # Nothing /\ z[1].read = fields
<1> DEFINE w == Write(kinds, fields)
           t == <<>>
<1>1. t \in Seq(Atoms)
  OBVIOUS
<1>2. w \in Seq(Atoms)
      /\ Read(kinds, w \o t) = Just([read |-> fields, rest |-> t])
  BY <1>1, FieldsRead
<1> HIDE DEF w
<1>3. w \o t = w
  BY <1>2, ConcatEmptySeq
<1>4. z = Just([read |-> fields, rest |-> t])
  BY <1>2, <1>3 DEF w
<1> QED  BY <1>2, <1>4, JustRead DEF w

StartsWith(b, s, Atoms) == \E u \in Seq(Atoms) : b = Cat(s, u)

LEMMA FirstField ==
  ASSUME NEW Atoms, Bytes \subseteq Atoms, NEW Items, NEW fields \in Seq(Items),
         NEW kinds, kinds \in Seq(Kinds), FieldsFit(kinds, fields, Atoms),
         Len(kinds) # 0
  PROVE  StartsWith(Write(kinds, fields), WriteField(kinds[1], fields[1]), Atoms)
<1> DEFINE n == Len(kinds)
           parts == [i \in 1..n |-> WriteField(kinds[i], fields[i])]
           w == FlattenSeq(parts)
           t == <<>>
<1>1. n \in Nat /\ n # 0 /\ t \in Seq(Atoms)
      /\ \A i \in 1..n : kinds[i] \in Kinds /\ FieldFits(kinds[i], fields[i], Atoms)
  BY LenProperties DEF FieldsFit
<1>2. \A i \in 1..n : WriteField(kinds[i], fields[i]) \in Seq(Atoms)
  BY <1>1, FieldRead
<1>3. parts \in Seq(Seq(Atoms)) /\ Len(parts) = n
  <2>1. parts \in [1..n -> Seq(Atoms)]
    BY <1>2
  <2> HIDE DEF parts
  <2> QED  BY <1>1, <2>1, SequenceOf
<1>4. Write(kinds, fields) = w /\ parts[1] = WriteField(kinds[1], fields[1])
  BY <1>1 DEF Write
<1> HIDE DEF parts, n
<1>5. FlattenSeq(parts) \in Seq(Atoms) /\ \E r : AreRests(r, parts, t, Atoms)
  <2> HIDE DEF t
  <2> QED  BY <1>1, <1>3, PartsFollow
<1>6. PICK r : AreRests(r, parts, t, Atoms)
  BY <1>5
<1>7. r[1] \in Seq(Atoms) /\ r[0] = Cat(w, t) /\ r[0] = Cat(parts[1], r[1])
  BY <1>1, <1>3, <1>6 DEF AreRests
<1> HIDE DEF w
<1>8. Cat(w, t) = w
  BY <1>5, ConcatEmptySeq DEF Cat, w
<1> QED  BY <1>4, <1>7, <1>8 DEF StartsWith

LEMMA OneFieldRead ==
  ASSUME NEW Atoms, Bytes \subseteq Atoms, NEW kind \in Kinds, NEW x,
         FieldFits(kind, x, Atoms), NEW t \in Seq(Atoms)
  PROVE  Read(<<kind>>, Cat(WriteField(kind, x), t))
           = Just([read |-> <<x>>, rest |-> t])
<1> DEFINE kinds == <<kind>>
           fields == <<x>>
           p == WriteField(kind, x)
           parts == <<p>>
<1>1. kinds \in Seq(Kinds) /\ fields \in Seq({x}) /\ Len(kinds) = 1 /\ Len(fields) = 1
      /\ kinds[1] = kind /\ fields[1] = x
  OBVIOUS
<1>2. FieldsFit(kinds, fields, Atoms)
  BY <1>1 DEF FieldsFit
<1>3. p \in Seq(Atoms)
  BY FieldRead
<1>4. Write(kinds, fields) = FlattenSeq(parts)
  <2>1. [i \in 1..Len(kinds) |-> WriteField(kinds[i], fields[i])] = parts
    BY <1>1
  <2> QED  BY <2>1 DEF Write
<1> HIDE DEF p
<1>5. parts \in Seq(Seq(Atoms)) /\ Len(parts) = 1 /\ parts[1] = p
  BY <1>3
<1> HIDE DEF parts
<1>6. Cat(FlattenSeq(parts), t) = Cat(p, t)
  <2>1. PICK r : AreRests(r, parts, t, Atoms)
    BY <1>5, PartsFollow
  <2>2. r[0] = Cat(FlattenSeq(parts), t) /\ r[1] = t /\ r[0] = Cat(parts[1], r[1])
    BY <1>5, <2>1 DEF AreRests
  <2> QED  BY <1>5, <2>2
<1> HIDE DEF kinds, fields
<1>7. Read(kinds, Write(kinds, fields) \o t) = Just([read |-> fields, rest |-> t])
  BY <1>1, <1>2, FieldsRead
<1>8. Read(kinds, Cat(p, t)) = Just([read |-> fields, rest |-> t])
  BY <1>4, <1>6, <1>7, Zenon DEF Cat
<1> QED  BY <1>8, Zenon DEF kinds, fields, p

LEMMA WholeListRead ==
  ASSUME NEW Atoms, Bytes \subseteq Atoms, NEW Items, NEW rows \in Seq(Seq(Items)),
         NEW kinds, kinds \in Seq(Kinds), RowsFit(kinds, rows, Items, Atoms),
         Fits(Len(rows), 4), NEW limit \in Nat
  PROVE  /\ WriteRows(kinds, rows) \in Seq(Atoms)
         /\ ReadRows(kinds, limit, WriteRows(kinds, rows))
              = IF Len(rows) > limit THEN Nothing
                ELSE Just([read |-> rows, rest |-> <<>>])
<1> DEFINE w == WriteRows(kinds, rows)
           t == <<>>
<1>1. t \in Seq(Atoms)
  OBVIOUS
<1>2. w \in Seq(Atoms)
      /\ ReadRows(kinds, limit, Cat(w, t))
           = IF Len(rows) > limit THEN Nothing ELSE Just([read |-> rows, rest |-> t])
  <2> HIDE DEF t
  <2> QED  BY <1>1, RowsRead
<1> HIDE DEF w
<1>3. Cat(w, t) = w
  BY <1>2, ConcatEmptySeq DEF Cat
<1> QED  BY <1>2, <1>3 DEF w

LEMMA Decoded ==
  ASSUME NEW Atoms, Bytes \subseteq Atoms, NEW Items, NEW fields \in Seq(Items),
         NEW kinds, kinds \in Seq(Kinds), FieldsFit(kinds, fields, Atoms),
         NEW reads, NEW op \in DOMAIN reads, reads[op] = kinds
  PROVE  Decode(reads, op, Write(kinds, fields))
           = Just([op |-> op, fields |-> fields])
<1> DEFINE z == Read(kinds, Write(kinds, fields))
<1>1. z # Nothing /\ z[1].read = fields
  BY MessageRead
<1> QED  BY <1>1 DEF Decode, Then
-----------------------------------------------------------------------------
(* Each message of Login is read as the fields that it was written as. *)
LEMMA LoginKinds ==
  ASSUME NEW op \in DOMAIN LoginWrites
  PROVE  /\ op \in MessageOpcodes /\ op # WorldList /\ op \in DOMAIN LoginReads
         /\ LoginWrites[op] \in Seq(Kinds) /\ LoginReads[op] = LoginWrites[op]
<1> USE DEF ClientHello, ClientProof, ServerChallenge, ServerProof, ServerError
<1>1. op \in {1, 2, 100, 101, 102}
  BY DEF LoginWrites
<1>2. /\ op = 1 => LoginWrites[op] = <<"str16", "str16">>
      /\ op = 2 => LoginWrites[op] = <<"str32", "hash">>
      /\ op = 100 => LoginWrites[op] = <<"str16", "str32">>
      /\ op = 101 => LoginWrites[op] = <<"hash", "str16">>
      /\ op = 102 => LoginWrites[op] = <<>>
  BY DEF LoginWrites
<1>3. /\ op = 1 => LoginReads[op] = <<"str16", "str16">>
      /\ op = 2 => LoginReads[op] = <<"str32", "hash">>
      /\ op = 100 => LoginReads[op] = <<"str16", "str32">>
      /\ op = 101 => LoginReads[op] = <<"hash", "str16">>
      /\ op = 102 => LoginReads[op] = <<>>
  BY <1>1 DEF LoginReads
<1>4. op \in DOMAIN LoginReads
  BY <1>1 DEF LoginReads
<1>5. /\ <<"str16", "str16">> \in Seq(Kinds) /\ <<"str32", "hash">> \in Seq(Kinds)
      /\ <<"str16", "str32">> \in Seq(Kinds) /\ <<"hash", "str16">> \in Seq(Kinds)
      /\ <<>> \in Seq(Kinds)
  BY DEF Kinds
<1>6. LoginWrites[op] \in Seq(Kinds)
  BY <1>1, <1>2, <1>5, Zenon
<1> QED  BY <1>1, <1>2, <1>3, <1>4, <1>6 DEF WorldList, MessageOpcodes

(* Every message of Login other than the list is decoded as it was         *)
(* encoded (login_proto::encode_*, decode).                                *)
THEOREM LoginMessagesArrive ==
  ASSUME NEW Atoms, Bytes \subseteq Atoms, NEW Items, NEW fields \in Seq(Items),
         NEW op \in DOMAIN LoginWrites, FieldsFit(LoginWrites[op], fields, Atoms)
  PROVE  DecodeLogin(EncodeLogin(op, fields)) = Just([op |-> op, fields |-> fields])
<1> DEFINE kinds == LoginWrites[op]
           s == Write(kinds, fields)
           z == ReadNumber(Message(op, s), 2)
<1>1. /\ op \in MessageOpcodes /\ op # WorldList /\ op \in DOMAIN LoginReads
      /\ kinds \in Seq(Kinds) /\ LoginReads[op] = kinds
  BY LoginKinds
<1>2. s \in Seq(Atoms)
  BY <1>1, MessageRead
<1>3. z # Nothing /\ z[1].read = op /\ z[1].rest = s
  <2> HIDE DEF s, z
  <2>1. z = Just([read |-> op, rest |-> s])
    BY <1>1, <1>2, OpcodeRead DEF z
  <2> QED  BY <2>1, JustRead
<1>4. Decode(LoginReads, op, s) = Just([op |-> op, fields |-> fields])
  BY <1>1, Decoded
<1>5. EncodeLogin(op, fields) = Message(op, s)
  BY DEF EncodeLogin, Encode, Message
<1>6. DecodeLogin(EncodeLogin(op, fields)) = Decode(LoginReads, op, s)
  <2> HIDE DEF s
  <2> QED  BY <1>1, <1>3, <1>5 DEF DecodeLogin, Then
<1> QED  BY <1>4, <1>6

(* The rows of the two lists. *)
WorldKinds == <<"str16", "str16", "u16", "u32">>
EntryKinds == <<"str16", "str32">>

LEMMA ListKinds ==
  WorldKinds \in Seq(Kinds) /\ EntryKinds \in Seq(Kinds)
  BY DEF Kinds, WorldKinds, EntryKinds

(* A list of worlds that the client's limit admits is decoded as it was    *)
(* encoded; a longer one is refused.                                       *)
THEOREM WorldListArrives ==
  ASSUME NEW Atoms, Bytes \subseteq Atoms, NEW Items, NEW worlds \in Seq(Seq(Items)),
         RowsFit(WorldKinds, worlds, Items, Atoms), Fits(Len(worlds), 4)
  PROVE  DecodeLogin(EncodeWorldList(worlds))
           = IF Len(worlds) > MaxWorlds THEN Nothing
             ELSE Just([op |-> WorldList, fields |-> worlds])
<1> DEFINE s == WriteRows(WorldKinds, worlds)
           z == ReadNumber(Message(WorldList, s), 2)
           x == ReadRows(WorldKinds, MaxWorlds, s)
<1>1. MaxWorlds \in Nat /\ WorldKinds \in Seq(Kinds)
  BY CodecsAssumption, ListKinds
<1>2. s \in Seq(Atoms)
      /\ x = IF Len(worlds) > MaxWorlds THEN Nothing
             ELSE Just([read |-> worlds, rest |-> <<>>])
  BY <1>1, WholeListRead
<1>3. z # Nothing /\ z[1].read = WorldList /\ z[1].rest = s
  <2> HIDE DEF s
  <2>1. WorldList \in MessageOpcodes
    BY DEF WorldList, MessageOpcodes
  <2>2. z = Just([read |-> WorldList, rest |-> s])
    BY <1>2, <2>1, OpcodeRead
  <2> HIDE DEF z
  <2> QED  BY <2>2, JustRead
<1>4. EncodeWorldList(worlds) = Message(WorldList, s)
  BY DEF EncodeWorldList, Message, WorldKinds
<1>5. DecodeLogin(EncodeWorldList(worlds))
        = Then(x, LAMBDA r : Just([op |-> WorldList, fields |-> r.read]))
  <2> HIDE DEF s
  <2> QED  BY <1>3, <1>4, Zenon DEF DecodeLogin, Then, WorldKinds
<1> HIDE DEF x
<1>6. CASE Len(worlds) > MaxWorlds
  BY <1>2, <1>5, <1>6 DEF Then
<1>7. CASE ~(Len(worlds) > MaxWorlds)
  <2>1. x # Nothing /\ x[1].read = worlds
    BY <1>2, <1>7, JustRead
  <2> QED  BY <1>5, <1>7, <2>1 DEF Then
<1> QED  BY <1>6, <1>7
-----------------------------------------------------------------------------
(* A redirect of Master reaches the client with its ticket and its         *)
(* address, and is taken for NO_LOGIN only if the ticket is as long as     *)
(* that mark (master_protocol.hpp).                                        *)
THEOREM RedirectArrives ==
  ASSUME NEW Atoms, Bytes \subseteq Atoms, NEW ticket, NEW host, NEW port,
         FieldsFit(<<"str16", "str16", "u16">>, <<ticket, host, port>>, Atoms)
  PROVE  /\ DecodeRedirect(EncodeRedirect(ticket, host, port))
              = Just(<<ticket, host, port>>)
         /\ IsNoLogin(EncodeRedirect(ticket, host, port)) <=> Len(ticket) = NoLogin
<1> DEFINE kinds == <<"str16", "str16", "u16">>
           fields == <<ticket, host, port>>
           msg == Write(kinds, fields)
           x == Read(kinds, msg)
<1>1. kinds \in Seq(Kinds) /\ fields \in Seq({ticket, host, port})
  BY DEF Kinds
<1>2. msg \in Seq(Atoms) /\ x # Nothing /\ x[1].read = fields
  <2>1. FieldsFit(kinds, fields, Atoms)
    OBVIOUS
  <2> HIDE DEF kinds, fields
  <2> QED  BY <1>1, <2>1, MessageRead
<1>3. EncodeRedirect(ticket, host, port) = msg
  BY DEF EncodeRedirect
<1>4. DecodeRedirect(msg) = Then(x, LAMBDA r : Just(r.read))
  BY DEF DecodeRedirect
<1>5. DecodeRedirect(msg) = Just(fields)
  <2> HIDE DEF x, msg, fields
  <2> QED  BY <1>2, <1>4 DEF Then
<1>6. PICK u \in Seq(Atoms) : msg = Cat(WriteField("str16", ticket), u)
  <2>1. kinds[1] = "str16" /\ fields[1] = ticket /\ Len(kinds) = 3
    OBVIOUS
  <2>2. FieldsFit(kinds, fields, Atoms)
    OBVIOUS
  <2> HIDE DEF kinds, fields
  <2> DEFINE first == WriteField(kinds[1], fields[1])
  <2>3. first = WriteField("str16", ticket)
    BY <2>1
  <2>4. StartsWith(msg, first, Atoms)
    <3>1. Len(kinds) # 0
      BY <2>1
    <3>2. kinds \in Seq(Kinds) /\ fields \in Seq({ticket, host, port})
      BY <1>1
    <3> QED  BY <2>2, <3>1, <3>2, FirstField
  <2> HIDE DEF first
  <2> QED  BY <2>3, <2>4 DEF StartsWith
<1>7. ticket \in Seq(Atoms) /\ Len(ticket) \in Nat /\ Fits(Len(ticket), 2)
  <2>1. FieldFits("str16", ticket, Atoms)
    BY DEF FieldsFit
  <2> QED  BY <2>1, LenProperties DEF FieldFits
<1> DEFINE first == ReadNumber(msg, 2)
<1>8. first # Nothing /\ first[1].read = Len(ticket)
  <2> DEFINE v == Len(ticket)
             n == Number(v, 2)
  <2>1. n \in Seq(Atoms)
    BY <1>7, NumberIs, SeqMonotonic
  <2>2. msg = (n \o ticket) \o u
    BY <1>6 DEF Cat, WriteField
  <2>3. ticket \o u \in Seq(Atoms)
        /\ (n \o ticket) \o u = n \o (ticket \o u)
    <3> HIDE DEF n
    <3> QED  BY <1>6, <1>7, <2>1, Joined3
  <2>4. ReadNumber(n \o (ticket \o u), 2) = Just([read |-> v, rest |-> ticket \o u])
    BY <1>7, <2>3, NumberRead
  <2>5. first = Just([read |-> v, rest |-> ticket \o u])
    <3> HIDE DEF msg, n
    <3> QED  BY <2>2, <2>3, <2>4
  <2> HIDE DEF first, v
  <2>6. first # Nothing /\ first[1].read = v
    BY <2>5, JustRead
  <2> QED  BY <2>6 DEF v
<1>9. IsNoLogin(msg) <=> Len(ticket) = NoLogin
  <2> HIDE DEF msg
  <2> QED  BY <1>8 DEF IsNoLogin
<1> QED  BY <1>3, <1>5, <1>9

(* The information of a server, encoded and decoded. *)
LEMMA InfoRead ==
  ASSUME NEW Atoms, Bytes \subseteq Atoms, NEW Items, NEW info \in Seq(Items),
         NEW kinds, kinds \in Seq(Kinds), FieldsFit(kinds, info, Atoms)
  PROVE  Then(Read(kinds, Write(kinds, info)), LAMBDA r : Just(r.read)) = Just(info)
<1> DEFINE x == Read(kinds, Write(kinds, info))
<1>1. x # Nothing /\ x[1].read = info
  BY MessageRead
<1> HIDE DEF x
<1>2. Then(x, LAMBDA r : Just(r.read)) = Just(info)
  BY <1>1 DEF Then
<1> QED  BY <1>2 DEF x

(* What a Login registers is what Master reads, and what a World registers *)
(* is what Login reads (world_registry.hpp).                               *)
THEOREM InfosArrive ==
  ASSUME NEW Atoms, Bytes \subseteq Atoms, NEW Items, NEW info \in Seq(Items)
  PROVE  /\ FieldsFit(<<"str16", "u16">>, info, Atoms)
              => DecodeLoginInfo(EncodeLoginInfo(info)) = Just(info)
         /\ FieldsFit(<<"str16", "u16", "str16", "u32">>, info, Atoms)
              => DecodeWorldInfo(EncodeWorldInfo(info)) = Just(info)
<1>1. /\ <<"str16", "u16">> \in Seq(Kinds)
      /\ <<"str16", "u16", "str16", "u32">> \in Seq(Kinds)
  BY DEF Kinds
<1>2. ASSUME FieldsFit(<<"str16", "u16">>, info, Atoms)
      PROVE  DecodeLoginInfo(EncodeLoginInfo(info)) = Just(info)
  <2> DEFINE kinds == <<"str16", "u16">>
             x == Then(Read(kinds, Write(kinds, info)), LAMBDA r : Just(r.read))
  <2>1. DecodeLoginInfo(EncodeLoginInfo(info)) = x
    BY DEF DecodeLoginInfo, EncodeLoginInfo
  <2>2. x = Just(info)
    <3>1. kinds \in Seq(Kinds) /\ FieldsFit(kinds, info, Atoms)
      BY <1>1, <1>2
    <3> HIDE DEF kinds
    <3> QED  BY <3>1, InfoRead
  <2> QED  BY <2>1, <2>2
<1>3. ASSUME FieldsFit(<<"str16", "u16", "str16", "u32">>, info, Atoms)
      PROVE  DecodeWorldInfo(EncodeWorldInfo(info)) = Just(info)
  <2> DEFINE kinds == <<"str16", "u16", "str16", "u32">>
             x == Then(Read(kinds, Write(kinds, info)), LAMBDA r : Just(r.read))
  <2>1. DecodeWorldInfo(EncodeWorldInfo(info)) = x
    BY DEF DecodeWorldInfo, EncodeWorldInfo
  <2>2. x = Just(info)
    <3>1. kinds \in Seq(Kinds) /\ FieldsFit(kinds, info, Atoms)
      BY <1>1, <1>3
    <3> HIDE DEF kinds
    <3> QED  BY <3>1, InfoRead
  <2> QED  BY <2>1, <2>2
<1> QED  BY <1>2, <1>3
-----------------------------------------------------------------------------
(* The store's messages: the signature is the last byte, and matches. *)
LEMMA Signed ==
  ASSUME NEW Atoms, NEW body \in Seq(Atoms), Len(body) >= 2
  PROVE  /\ Len(Sign(body)) >= 3 /\ Front(Sign(body)) = body
         /\ Last(Sign(body)) = [hmac |-> body]
<1> DEFINE S == Atoms \cup {[hmac |-> body]}
           x == [hmac |-> body]
           n == Len(body)
           msg == Append(body, x)
<1>1. body \in Seq(S) /\ x \in S /\ n \in Nat
  BY SeqMonotonic, LenProperties
<1> HIDE DEF x, S
<1>2. msg \in Seq(S) /\ Len(msg) = n + 1 /\ msg[n + 1] = x
      /\ \A i \in 1..n : msg[i] = body[i]
  BY <1>1, AppendProperties
<1>3. \A i \in 1..n : msg[i] \in S
  BY <1>1, <1>2, ElementOfSeq
<1> HIDE DEF msg, n
<1> DEFINE f == SubSeq(msg, 1, n)
<1>4. f \in Seq(S) /\ Len(f) = n /\ \A i \in 1..n : f[i] = msg[i]
  BY <1>1, <1>2, <1>3, SubSeqProperties
<1>5. Len(msg) - 1 = n
  BY <1>1, <1>2
<1>6. Front(msg) = f
  BY <1>5 DEF Front
<1> HIDE DEF f
<1>7. f = body
  BY <1>1, <1>2, <1>4, SeqEqual DEF n
<1>8. Last(msg) = x
  BY <1>2 DEF Last
<1>9. Sign(body) = msg
  BY DEF Sign, msg, x
<1> QED  BY <1>1, <1>2, <1>6, <1>7, <1>8, <1>9 DEF x, n

LEMMA SignedLength ==
  ASSUME NEW Atoms, NEW body \in Seq(Atoms)
  PROVE  Len(Sign(body)) \in Nat
<1> DEFINE x == [hmac |-> body]
           S == Atoms \cup {x}
<1>1. body \in Seq(S) /\ x \in S
  BY SeqMonotonic
<1> HIDE DEF x, S
<1>2. Append(body, x) \in Seq(S)
  BY <1>1, AppendProperties
<1> QED  BY <1>2, LenProperties DEF Sign, x

(* What a verified message says is its opcode and what that decodes.       *)
LEMMA SignedRead ==
  ASSUME NEW Atoms, Bytes \subseteq Atoms, NEW op \in MessageOpcodes, NEW s \in Seq(Atoms)
  PROVE  /\ op # List => DecodeStore(Sign(Message(op, s))) = Decode(StoreReads, op, s)
         /\ op = List => DecodeStore(Sign(Message(op, s)))
                           = Then(ReadRows(EntryKinds, MaxEntries, s),
                                  LAMBDA r : Just([op |-> List, fields |-> r.read]))
<1> DEFINE body == Message(op, s)
           msg == Sign(body)
           z == ReadNumber(body, 2)
<1>1. body \in Seq(Atoms) /\ Len(body) >= 2
      /\ z = Just([read |-> op, rest |-> s])
  BY OpcodeRead
<1> HIDE DEF body
<1>2. Len(msg) >= 3 /\ Front(msg) = body /\ Last(msg) = [hmac |-> Front(msg)]
  <2>1. Len(msg) >= 3 /\ Front(msg) = body /\ Last(msg) = [hmac |-> body]
    BY <1>1, Signed
  <2> QED  BY <2>1
<1>3. z # Nothing /\ z[1].read = op /\ z[1].rest = s
  <2> HIDE DEF z
  <2> QED  BY <1>1, JustRead
<1> HIDE DEF msg
<1>4. ~(Len(msg) < 3)
  <2>1. \A n \in Int : n >= 3 => ~(n < 3)
    OBVIOUS
  <2>2. Len(msg) \in Int
    BY <1>1, SignedLength DEF msg
  <2> QED  BY <1>2, <2>1, <2>2
<1>5. DecodeStore(msg)
        = IF z[1].read = List
          THEN Then(ReadRows(EntryKinds, MaxEntries, z[1].rest),
                    LAMBDA r : Just([op |-> List, fields |-> r.read]))
          ELSE Decode(StoreReads, z[1].read, z[1].rest)
  BY <1>2, <1>3, <1>4, Zenon DEF DecodeStore, Then, EntryKinds
<1> HIDE DEF z
<1>6. CASE op # List
  BY <1>3, <1>5, <1>6 DEF msg, body
<1>7. CASE op = List
  BY <1>3, <1>5, <1>7 DEF msg, body
<1> QED  BY <1>6, <1>7

LEMMA StoreKinds ==
  ASSUME NEW op \in DOMAIN StoreWrites
  PROVE  /\ op \in MessageOpcodes /\ op # List /\ op \in DOMAIN StoreReads
         /\ StoreWrites[op] \in Seq(Kinds)
         /\ op \in {Get, Take, ListPrefix} =>
              /\ StoreWrites[op] = <<"str16", "u32", "u32">>
              /\ StoreReads[op] = <<"str16">>
         /\ op \notin {Get, Take, ListPrefix} => StoreReads[op] = StoreWrites[op]
<1> USE DEF Put, Get, Take, ListPrefix, Ok, Value, NotFound, Err
<1>1. op \in {1, 2, 3, 4, 100, 101, 102}
  BY DEF StoreWrites
<1>2. /\ op = 1 => StoreWrites[op] = <<"str16", "str32", "u32">>
      /\ op \in {2, 3, 4} => StoreWrites[op] = <<"str16", "u32", "u32">>
      /\ op \in {100, 102} => StoreWrites[op] = <<>>
      /\ op = 101 => StoreWrites[op] = <<"str32">>
  BY DEF StoreWrites
<1>3. /\ op = 1 => StoreReads[op] = <<"str16", "str32", "u32">>
      /\ op \in {2, 3, 4} => StoreReads[op] = <<"str16">>
      /\ op \in {100, 102} => StoreReads[op] = <<>>
      /\ op = 101 => StoreReads[op] = <<"str32">>
  BY <1>1 DEF StoreReads
<1>4. op \in DOMAIN StoreReads
  BY <1>1 DEF StoreReads
<1>5. /\ <<"str16", "str32", "u32">> \in Seq(Kinds)
      /\ <<"str16", "u32", "u32">> \in Seq(Kinds)
      /\ <<>> \in Seq(Kinds) /\ <<"str32">> \in Seq(Kinds)
  BY DEF Kinds
<1>6. op \in {2, 3, 4} \/ op = 1 \/ op \in {100, 102} \/ op = 101
  BY <1>1
<1>7. StoreWrites[op] \in Seq(Kinds)
  BY <1>2, <1>5, <1>6, Zenon
<1>8. op \notin {2, 3, 4} => StoreReads[op] = StoreWrites[op]
  BY <1>2, <1>3, <1>6, Zenon
<1> QED  BY <1>1, <1>2, <1>3, <1>4, <1>7, <1>8 DEF List, MessageOpcodes

(* Every message of the store is decoded as it was encoded; the two zeros  *)
(* that follow the key of Get, Take and ListPrefix are not read.           *)
THEOREM StoreMessagesArrive ==
  ASSUME NEW Atoms, Bytes \subseteq Atoms, NEW Items, NEW fields \in Seq(Items),
         NEW op \in DOMAIN StoreWrites, FieldsFit(StoreWrites[op], fields, Atoms)
  PROVE  DecodeStore(EncodeStore(op, fields))
           = Just([op |-> op,
                   fields |-> IF op \in {Get, Take, ListPrefix} THEN <<fields[1]>>
                              ELSE fields])
<1> DEFINE kinds == StoreWrites[op]
           s == Write(kinds, fields)
<1>1. /\ op \in MessageOpcodes /\ op # List /\ op \in DOMAIN StoreReads
      /\ kinds \in Seq(Kinds)
      /\ op \in {Get, Take, ListPrefix} =>
           kinds = <<"str16", "u32", "u32">> /\ StoreReads[op] = <<"str16">>
      /\ op \notin {Get, Take, ListPrefix} => StoreReads[op] = kinds
  BY StoreKinds
<1>2. s \in Seq(Atoms)
  BY <1>1, MessageRead
<1>3. EncodeStore(op, fields) = Sign(Message(op, s))
  BY DEF EncodeStore, Encode, Message
<1>4. DecodeStore(EncodeStore(op, fields)) = Decode(StoreReads, op, s)
  <2> HIDE DEF s
  <2>1. DecodeStore(Sign(Message(op, s))) = Decode(StoreReads, op, s)
    BY <1>1, <1>2, SignedRead
  <2> QED  BY <1>3, <2>1
<1>5. CASE op \notin {Get, Take, ListPrefix}
  <2>1. StoreReads[op] = kinds
    BY <1>1, <1>5
  <2>2. Decode(StoreReads, op, s) = Just([op |-> op, fields |-> fields])
    BY <1>1, <2>1, Decoded
  <2> QED  BY <1>4, <1>5, <2>2
<1>6. CASE op \in {Get, Take, ListPrefix}
  <2> DEFINE key == fields[1]
             z == Read(<<"str16">>, s)
  <2>1. kinds = <<"str16", "u32", "u32">> /\ StoreReads[op] = <<"str16">>
    BY <1>1, <1>6
  <2>2. kinds[1] = "str16" /\ Len(kinds) = 3
    BY <2>1
  <2>3. StartsWith(s, WriteField("str16", key), Atoms)
    <3> DEFINE first == WriteField(kinds[1], key)
    <3>1. first = WriteField("str16", key)
      BY <2>2
    <3>2. Len(kinds) # 0
      BY <2>2
    <3>3. StartsWith(s, first, Atoms)
      BY <1>1, <3>2, FirstField
    <3> QED  BY <3>1, <3>3
  <2>4. FieldFits("str16", key, Atoms)
    BY <2>2 DEF FieldsFit
  <2> HIDE DEF s, kinds
  <2>5. PICK u \in Seq(Atoms) : s = Cat(WriteField("str16", key), u)
    BY <2>3 DEF StartsWith
  <2>6. z = Just([read |-> <<key>>, rest |-> u])
    <3>1. "str16" \in Kinds
      BY DEF Kinds
    <3>2. Read(<<"str16">>, Cat(WriteField("str16", key), u))
            = Just([read |-> <<key>>, rest |-> u])
      BY <2>4, <3>1, OneFieldRead
    <3> QED  BY <2>5, <3>2
  <2> HIDE DEF key
  <2>7. z # Nothing /\ z[1].read = <<key>>
    <3> HIDE DEF z
    <3> QED  BY <2>6, JustRead
  <2>8. Decode(StoreReads, op, s) = Just([op |-> op, fields |-> <<key>>])
    <3>1. op \in DOMAIN StoreReads /\ z = Read(StoreReads[op], s)
      BY <1>1, <2>1
    <3> HIDE DEF z
    <3> QED  BY <2>7, <3>1 DEF Decode, Then
  <2>9. DecodeStore(EncodeStore(op, fields)) = Just([op |-> op, fields |-> <<key>>])
    BY <1>4, <2>8
  <2> QED  BY <1>6, <2>9 DEF key
<1> QED  BY <1>5, <1>6

(* A list of entries that the client accepts arrives; a longer one is      *)
(* refused.                                                                *)
THEOREM EntriesArrive ==
  ASSUME NEW Atoms, Bytes \subseteq Atoms, NEW Items, NEW entries \in Seq(Seq(Items)),
         RowsFit(EntryKinds, entries, Items, Atoms), Fits(Len(entries), 4)
  PROVE  DecodeStore(EncodeList(entries))
           = IF Len(entries) > MaxEntries THEN Nothing
             ELSE Just([op |-> List, fields |-> entries])
<1> DEFINE s == WriteRows(EntryKinds, entries)
           x == ReadRows(EntryKinds, MaxEntries, s)
<1>1. MaxEntries \in Nat /\ EntryKinds \in Seq(Kinds) /\ List \in MessageOpcodes
  BY CodecsAssumption, ListKinds DEF List, MessageOpcodes
<1>2. s \in Seq(Atoms)
      /\ x = IF Len(entries) > MaxEntries THEN Nothing
             ELSE Just([read |-> entries, rest |-> <<>>])
  BY <1>1, WholeListRead
<1>3. EncodeList(entries) = Sign(Message(List, s))
  BY DEF EncodeList, Message, EntryKinds
<1>4. DecodeStore(EncodeList(entries))
        = Then(x, LAMBDA r : Just([op |-> List, fields |-> r.read]))
  <2> HIDE DEF s
  <2>1. DecodeStore(Sign(Message(List, s)))
          = Then(x, LAMBDA r : Just([op |-> List, fields |-> r.read]))
    BY <1>1, <1>2, SignedRead
  <2> QED  BY <1>3, <2>1, Zenon
<1> HIDE DEF x
<1>5. CASE Len(entries) > MaxEntries
  BY <1>2, <1>4, <1>5 DEF Then
<1>6. CASE ~(Len(entries) > MaxEntries)
  <2>1. x # Nothing /\ x[1].read = entries
    BY <1>2, <1>6, JustRead
  <2> QED  BY <1>4, <1>6, <2>1 DEF Then
<1> QED  BY <1>5, <1>6
-----------------------------------------------------------------------------
B2 == Byte * Byte
B3 == Byte * Byte * Byte
B4 == Byte * Byte * Byte * Byte

(* What a byte counts, then two, three and four. *)
LEMMA Powers ==
  /\ Byte \in Nat /\ B2 \in Nat /\ B3 \in Nat /\ B4 \in Nat
  /\ B2 > 104 /\ B3 >= 10 * B2 /\ B4 >= 10 * B3 /\ B3 > 1040 /\ B4 >= B2 * B2
<1>1. Byte \in Nat /\ Byte > 1
  BY WireAssumption
<1>2. B2 \in Nat /\ B2 > 104
  BY <1>1, CodecsAssumption DEF B2
<1>3. Byte > 10
  <2>1. ASSUME Byte <= 10 PROVE FALSE
    <3>1. Byte \in {2, 3, 4, 5, 6, 7, 8, 9, 10}
      BY <1>1, <2>1
    <3>2. Byte * Byte <= 100
      BY <3>1
    <3> QED  BY <1>2, <3>2 DEF B2
  <2> QED  BY <1>1, <2>1
<1>4. ASSUME NEW n \in Nat PROVE n * Byte \in Nat /\ n * Byte >= 10 * n
  <2>1. n * Byte \in Nat /\ n * (Byte - 10) \in Nat
    BY <1>1, <1>3
  <2>2. n * Byte = n * (Byte - 10) + 10 * n
    BY <1>1, <1>3
  <2> QED  BY <2>1, <2>2
<1>5. B3 = B2 * Byte /\ B4 = B3 * Byte
  BY DEF B2, B3, B4
<1>6. B3 \in Nat /\ B3 >= 10 * B2
  BY <1>2, <1>4, <1>5
<1>7. B4 \in Nat /\ B4 >= 10 * B3
  BY <1>4, <1>5, <1>6
<1>8. B4 = B2 * B2
  BY <1>1 DEF B4, B2
<1> QED  BY <1>1, <1>2, <1>6, <1>7, <1>8

LEMMA LessQuotient ==
  ASSUME NEW v \in Nat, NEW m \in Nat, v < m * Byte
  PROVE  v \div Byte \in Nat /\ v \div Byte < m
<1>1. Byte \in Nat /\ Byte > 1
  BY WireAssumption
<1> DEFINE q == v \div Byte
           r == v % Byte
<1>2. q \in Nat /\ r \in Nat /\ v = r + Byte * q
  BY Division
<1> HIDE DEF q, r
<1>3. ASSUME q >= m PROVE FALSE
  <2>1. Byte * q >= Byte * m
    BY <1>1, <1>2, <1>3
  <2>2. Byte * m = m * Byte /\ Byte * m \in Nat /\ Byte * q \in Nat
    BY <1>1, <1>2
  <2> QED  BY <1>2, <2>1, <2>2
<1> QED  BY <1>2, <1>3 DEF q

LEMMA Fits4 ==
  ASSUME NEW v \in Nat, v < B4
  PROVE  Fits(v, 4)
<1> DEFINE q == Quotients(v, 4)
<1>1. q[0] = v /\ q[1] = q[0] \div Byte /\ q[2] = q[1] \div Byte
      /\ q[3] = q[2] \div Byte /\ q[4] = q[3] \div Byte
  <2> HIDE DEF q
  <2>1. 4 \in Nat
    OBVIOUS
  <2>2. q[0] = v
    BY <2>1, QuotientsAre DEF q
  <2>3. \A i \in 1..4 : q[i] = q[i - 1] \div Byte
    BY <2>1, QuotientsAre DEF q
  <2> QED  BY <2>2, <2>3
<1> HIDE DEF q
<1>2. Byte \in Nat /\ B4 = B3 * Byte /\ B3 = B2 * Byte /\ B2 = Byte * Byte
      /\ B3 \in Nat /\ B2 \in Nat /\ Byte = 1 * Byte
  BY Powers DEF B2, B3, B4
<1>4. q[1] \in Nat /\ q[1] < B3
  BY <1>1, <1>2, LessQuotient
<1>5. q[2] \in Nat /\ q[2] < B2
  BY <1>1, <1>2, <1>4, LessQuotient
<1>6. q[3] \in Nat /\ q[3] < Byte
  BY <1>1, <1>2, <1>5, LessQuotient
<1>7. q[4] \in Nat /\ q[4] < 1
  BY <1>1, <1>2, <1>6, LessQuotient
<1> QED  BY <1>7 DEF Fits, q

LEMMA Fits2 ==
  ASSUME NEW v \in Nat, v < B2
  PROVE  Fits(v, 2)
<1>1. B2 \in Nat /\ v \in 0..B2 - 1
  BY Powers
<1> QED  BY <1>1, SmallFits DEF B2
-----------------------------------------------------------------------------
(* Cat is a monoid. *)
LEMMA CatIs ==
  ASSUME NEW S, NEW s \in Seq(S), NEW t \in Seq(S)
  PROVE  /\ Cat(s, t) \in Seq(S) /\ Len(Cat(s, t)) = Len(s) + Len(t)
         /\ Len(s) \in Nat /\ Len(t) \in Nat
  BY ConcatProperties, LenProperties DEF Cat

LEMMA CatEmpty ==
  ASSUME NEW S, NEW s \in Seq(S)
  PROVE  Cat(s, <<>>) = s /\ Cat(<<>>, s) = s
  BY ConcatEmptySeq DEF Cat

LEMMA CatAt ==
  ASSUME NEW S, NEW s \in Seq(S), NEW t \in Seq(S), NEW i \in 1..Len(s) + Len(t)
  PROVE  Cat(s, t)[i] = IF i <= Len(s) THEN s[i] ELSE t[i - Len(s)]
  BY ConcatProperties, LenProperties DEF Cat

LEMMA CatAssoc ==
  ASSUME NEW S, NEW s \in Seq(S), NEW t \in Seq(S), NEW u \in Seq(S)
  PROVE  Cat(Cat(s, t), u) = Cat(s, Cat(t, u))
<1>1. (s \o t) \o u = s \o (t \o u)
  BY ConcatAssociative
<1> QED  BY <1>1, Zenon DEF Cat

(* One more part, at the end or at the beginning. *)
LEMMA FlatAppend ==
  ASSUME NEW S, NEW parts \in Seq(Seq(S)), NEW p \in Seq(S)
  PROVE  /\ FlattenSeq(parts) \in Seq(S)
         /\ FlattenSeq(Append(parts, p)) = Cat(FlattenSeq(parts), p)
<1> DEFINE n == Len(parts)
           more == Append(parts, p)
<1>1. n \in Nat /\ more \in Seq(Seq(S)) /\ Len(more) = n + 1 /\ more[n + 1] = p
      /\ \A i \in 1..n : more[i] = parts[i]
  BY LenProperties, AppendProperties
<1>2. PICK f \in [0..n -> Seq(S)] :
        /\ f[0] = <<>> /\ FlattenSeq(parts) = f[n]
        /\ \A i \in 1..n : f[i] = f[i - 1] \o parts[i]
  BY PartsJoined
<1> HIDE DEF more
<1>3. PICK g \in [0..Len(more) -> Seq(S)] :
        /\ g[0] = <<>> /\ FlattenSeq(more) = g[Len(more)]
        /\ \A i \in 1..Len(more) : g[i] = g[i - 1] \o more[i]
  BY <1>1, PartsJoined
<1> HIDE DEF n
<1>4. Alike(f, g, n)
  <2>1. ASSUME NEW i \in 1..n, f[i - 1] = g[i - 1] PROVE f[i] = g[i]
    <3>1. f[i] = f[i - 1] \o parts[i]
      BY <1>2
    <3>2. i \in 1..n + 1 /\ more[i] = parts[i]
      BY <1>1
    <3>3. g[i] = g[i - 1] \o more[i]
      BY <1>1, <1>3, <3>2
    <3> QED  BY <2>1, <3>1, <3>2, <3>3, Zenon
  <2> QED  BY <1>2, <1>3, <2>1 DEF Alike
<1>5. f[n] = g[n]
  <2>1. n \in Nat
    BY <1>1
  <2>2. \A i \in 0..n : f[i] = g[i]
    BY <1>4, <2>1, Agree
  <2> QED  BY <2>1, <2>2
<1>6. g[n + 1] = Cat(g[n], p)
  <2>1. n + 1 \in 1..n + 1 /\ (n + 1) - 1 = n
    BY <1>1
  <2>2. g[n + 1] = g[(n + 1) - 1] \o more[n + 1]
    BY <1>1, <1>3, <2>1
  <2> QED  BY <1>1, <2>1, <2>2, Zenon DEF Cat
<1>7. f[n] \in Seq(S)
  BY <1>1, <1>2
<1> QED  BY <1>1, <1>2, <1>3, <1>5, <1>6, <1>7 DEF more

LEMMA FlatEmpty ==
  FlattenSeq(<<>>) = <<>>
  BY DEF FlattenSeq

LEMMA LastPart ==
  ASSUME NEW T, NEW ps \in Seq(T), NEW n \in Nat, Len(ps) = n + 1
  PROVE  /\ SubSeq(ps, 1, n) \in Seq(T) /\ Len(SubSeq(ps, 1, n)) = n
         /\ ps[n + 1] \in T /\ ps = Append(SubSeq(ps, 1, n), ps[n + 1])
         /\ n >= 1 => /\ Head(SubSeq(ps, 1, n)) = Head(ps)
                      /\ Tail(ps) = Append(Tail(SubSeq(ps, 1, n)), ps[n + 1])
<1> DEFINE qs == SubSeq(ps, 1, n)
           p == ps[n + 1]
<1>1. qs \in Seq(T) /\ Len(qs) = n /\ \A i \in 1..n : qs[i] = ps[i]
  BY SubSeqProperties
<1>2. p \in T
  BY ElementOfSeq
<1> HIDE DEF qs, p
<1>3. ps = Append(qs, p)
  <2>1. Append(qs, p) \in Seq(T) /\ Len(Append(qs, p)) = Len(ps)
    BY <1>1, <1>2
  <2>2. \A i \in 1..Len(ps) : Append(qs, p)[i] = ps[i]
    BY <1>1, <1>2 DEF p
  <2> QED  BY <2>1, <2>2, SeqEqual
<1>4. ASSUME n >= 1 PROVE Head(qs) = Head(ps) /\ Tail(ps) = Append(Tail(qs), p)
  <2>1. Head(qs) = Head(ps)
    BY <1>1, <1>4
  <2>2. Tail(qs) \in Seq(T) /\ Len(Tail(qs)) = n - 1
        /\ \A i \in 1..n - 1 : Tail(qs)[i] = ps[i + 1]
    BY <1>1, <1>4
  <2>3. Tail(ps) \in Seq(T) /\ Len(Tail(ps)) = n
        /\ \A i \in 1..n : Tail(ps)[i] = ps[i + 1]
    BY <1>4
  <2> DEFINE r == Tail(qs)
             q == Tail(ps)
  <2> HIDE DEF r, q
  <2>4. Append(r, p) \in Seq(T) /\ Len(Append(r, p)) = n
        /\ \A i \in 1..n : Append(r, p)[i] = q[i]
    BY <1>2, <1>4, <2>2, <2>3 DEF r, q, p
  <2>5. q = Append(r, p)
    BY <2>3, <2>4, SeqEqual DEF q
  <2> QED  BY <2>1, <2>5 DEF r, q
<1> QED  BY <1>1, <1>2, <1>3, <1>4 DEF qs, p

LEMMA OnePart ==
  ASSUME NEW T, NEW ps \in Seq(T), Len(ps) = 1
  PROVE  /\ ps[1] \in T /\ Head(ps) = ps[1] /\ Tail(ps) = <<>>
         /\ ps = Append(<<>>, ps[1]) /\ ps = <<ps[1]>>
<1>1. ps[1] \in T /\ Head(ps) = ps[1]
  BY ElementOfSeq
<1>2. Tail(ps) \in Seq(T) /\ Len(Tail(ps)) = 0
  OBVIOUS
<1>3. Tail(ps) = <<>>
  BY <1>2, EmptySeq
<1>4. <<ps[1]>> \in Seq(T) /\ Len(<<ps[1]>>) = 1 /\ <<ps[1]>>[1] = ps[1]
  BY <1>1
<1>5. ps = <<ps[1]>>
  <2> DEFINE r == <<ps[1]>>
  <2> HIDE DEF r
  <2>1. r \in Seq(T) /\ Len(r) = Len(ps) /\ \A i \in 1..Len(ps) : r[i] = ps[i]
    BY <1>4 DEF r
  <2>2. r = ps
    BY <2>1, SeqEqual
  <2> QED  BY <2>2 DEF r
<1>6. Append(<<>>, ps[1]) = <<ps[1]>>
  OBVIOUS
<1> QED  BY <1>1, <1>3, <1>5, <1>6

LEMMA FlatHead ==
  ASSUME NEW S, NEW parts \in Seq(Seq(S)), parts # <<>>
  PROVE  /\ Head(parts) \in Seq(S) /\ Tail(parts) \in Seq(Seq(S))
         /\ FlattenSeq(parts) = Cat(Head(parts), FlattenSeq(Tail(parts)))
<1> DEFINE T == Seq(S)
           P(ps) == FlattenSeq(ps) = Cat(Head(ps), FlattenSeq(Tail(ps)))
           N == {n \in Nat : \A ps \in Seq(T) : Len(ps) = n + 1 => P(ps)}
<1>1. 0 \in N
  <2> SUFFICES ASSUME NEW ps \in Seq(T), Len(ps) = 0 + 1 PROVE P(ps)
    OBVIOUS
  <2>1. ps[1] \in T /\ Head(ps) = ps[1] /\ Tail(ps) = <<>> /\ ps = Append(<<>>, ps[1])
    <3> HIDE DEF T
    <3>1. Len(ps) = 1
      OBVIOUS
    <3> QED  BY <3>1, OnePart
  <2>2. FlattenSeq(Append(<<>>, ps[1])) = Cat(FlattenSeq(<<>>), ps[1])
    <3>1. <<>> \in Seq(Seq(S))
      OBVIOUS
    <3> QED  BY <2>1, <3>1, FlatAppend
  <2>3. Cat(<<>>, ps[1]) = ps[1] /\ Cat(ps[1], <<>>) = ps[1]
    BY <2>1, CatEmpty
  <2> QED  BY <2>1, <2>2, <2>3, FlatEmpty
<1>2. ASSUME NEW n \in N PROVE n + 1 \in N
  <2> SUFFICES ASSUME NEW ps \in Seq(T), Len(ps) = (n + 1) + 1 PROVE P(ps)
    OBVIOUS
  <2> DEFINE qs == SubSeq(ps, 1, n + 1)
             p == ps[(n + 1) + 1]
  <2>1. /\ qs \in Seq(T) /\ Len(qs) = n + 1 /\ p \in T /\ ps = Append(qs, p)
        /\ Head(qs) = Head(ps) /\ Tail(ps) = Append(Tail(qs), p)
    <3> HIDE DEF T
    <3> DEFINE m == n + 1
    <3>1. m \in Nat /\ m >= 1 /\ Len(ps) = m + 1
      OBVIOUS
    <3>2. n + 1 = m
      OBVIOUS
    <3> HIDE DEF m
    <3>3. /\ SubSeq(ps, 1, m) \in Seq(T) /\ Len(SubSeq(ps, 1, m)) = m
          /\ ps[m + 1] \in T /\ ps = Append(SubSeq(ps, 1, m), ps[m + 1])
          /\ Head(SubSeq(ps, 1, m)) = Head(ps)
          /\ Tail(ps) = Append(Tail(SubSeq(ps, 1, m)), ps[m + 1])
      BY <3>1, LastPart
    <3> QED  BY <3>2, <3>3, Zenon
  <2>2. P(qs)
    BY <2>1
  <2>3. Tail(qs) \in Seq(T) /\ Head(qs) \in T
    <3> HIDE DEF T, qs
    <3>1. n + 1 >= 1
      OBVIOUS
    <3> QED  BY <2>1, <3>1
  <2> HIDE DEF qs, p
  <2>4. /\ FlattenSeq(ps) = Cat(FlattenSeq(qs), p)
        /\ FlattenSeq(Tail(ps)) = Cat(FlattenSeq(Tail(qs)), p)
        /\ FlattenSeq(Tail(qs)) \in Seq(S)
    BY <2>1, <2>3, FlatAppend
  <2>5. Cat(Cat(Head(qs), FlattenSeq(Tail(qs))), p)
          = Cat(Head(qs), Cat(FlattenSeq(Tail(qs)), p))
    BY <2>1, <2>3, <2>4, CatAssoc
  <2> QED  BY <2>1, <2>2, <2>4, <2>5
<1>3. N = Nat
  <2> HIDE DEF N
  <2>1. N \subseteq Nat
    BY DEF N
  <2> QED  BY <1>1, <1>2, <2>1, Induction
<1>4. Len(parts) \in Nat /\ Len(parts) # 0 /\ Len(parts) - 1 \in Nat
      /\ Len(parts) = (Len(parts) - 1) + 1
  BY LenProperties, EmptySeq
<1>5. P(parts)
  <2> HIDE DEF P
  <2>1. Len(parts) - 1 \in N
    BY <1>3, <1>4
  <2> QED  BY <1>4, <2>1
<1>6. Head(parts) \in T /\ Tail(parts) \in Seq(T)
  <2> HIDE DEF T
  <2>1. parts \in Seq(T)
    BY DEF T
  <2> QED  BY <1>4, <2>1
<1> QED  BY <1>5, <1>6

(* What each of some values yields, one after the other.                   *)
Mapped(f, ps) == FlattenSeq([i \in 1..Len(ps) |-> f[ps[i]]])

LEMMA MappedParts ==
  ASSUME NEW S, NEW T, NEW f \in [T -> Seq(S)], NEW ps \in Seq(T)
  PROVE  /\ [i \in 1..Len(ps) |-> f[ps[i]]] \in Seq(Seq(S))
         /\ Len([i \in 1..Len(ps) |-> f[ps[i]]]) = Len(ps)
         /\ Len(ps) \in Nat /\ Mapped(f, ps) \in Seq(S)
<1> DEFINE n == Len(ps)
           parts == [i \in 1..n |-> f[ps[i]]]
<1>1. n \in Nat /\ \A i \in 1..n : ps[i] \in T
  BY LenProperties, ElementOfSeq
<1> HIDE DEF n
<1>2. parts \in [1..n -> Seq(S)]
  BY <1>1
<1>3. Mapped(f, ps) = FlattenSeq(parts)
  BY DEF Mapped, n
<1> HIDE DEF parts
<1>4. parts \in Seq(Seq(S)) /\ Len(parts) = n
  BY <1>1, <1>2, SequenceOf
<1>5. FlattenSeq(parts) \in Seq(S)
  BY <1>4, PartsFollow, EmptySeq
<1> QED  BY <1>1, <1>3, <1>4, <1>5 DEF parts, n

LEMMA MappedAppend ==
  ASSUME NEW S, NEW T, NEW f \in [T -> Seq(S)], NEW ps \in Seq(T), NEW p \in T
  PROVE  /\ Append(ps, p) \in Seq(T) /\ Mapped(f, ps) \in Seq(S)
         /\ Mapped(f, Append(ps, p)) = Cat(Mapped(f, ps), f[p])
<1> DEFINE n == Len(ps)
           more == Append(ps, p)
           parts == [i \in 1..n |-> f[ps[i]]]
           longer == [i \in 1..Len(more) |-> f[more[i]]]
           last == f[p]
<1>1. n \in Nat /\ more \in Seq(T) /\ Len(more) = n + 1 /\ more[n + 1] = p
      /\ \A i \in 1..n : more[i] = ps[i]
  BY LenProperties, AppendProperties
<1>2. parts \in Seq(Seq(S)) /\ Len(parts) = n /\ last \in Seq(S)
      /\ \A i \in 1..n : parts[i] = f[ps[i]]
  <2>1. last \in Seq(S)
    OBVIOUS
  <2>2. parts \in Seq(Seq(S)) /\ Len(parts) = n
    BY MappedParts
  <2> QED  BY <2>1, <2>2
<1>3. longer \in Seq(Seq(S)) /\ Len(longer) = n + 1 /\ longer[n + 1] = last
      /\ \A i \in 1..n : longer[i] = f[ps[i]]
  <2> HIDE DEF more, last
  <2>1. longer \in Seq(Seq(S)) /\ Len(longer) = Len(more)
    BY <1>1, MappedParts
  <2>2. \A i \in 1..n + 1 : longer[i] = f[more[i]]
    BY <1>1
  <2> QED  BY <1>1, <2>1, <2>2 DEF last
<1>4. longer = Append(parts, last)
  <2> HIDE DEF longer, parts, last, n
  <2>1. Append(parts, last) \in Seq(Seq(S)) /\ Len(Append(parts, last)) = n + 1
        /\ Append(parts, last)[n + 1] = last
        /\ \A i \in 1..n : Append(parts, last)[i] = parts[i]
    BY <1>1, <1>2, AppendProperties
  <2>2. \A i \in 1..n + 1 : longer[i] = Append(parts, last)[i]
    <3>1. \A i \in 1..n + 1 : i = n + 1 \/ i \in 1..n
      BY <1>1
    <3> QED  BY <1>1, <1>2, <1>3, <2>1, <3>1
  <2> QED  BY <1>1, <1>3, <2>1, <2>2, SeqEqual
<1>5. Mapped(f, ps) = FlattenSeq(parts) /\ Mapped(f, more) = FlattenSeq(longer)
  BY DEF Mapped
<1> HIDE DEF longer, parts, last, more
<1>6. FlattenSeq(parts) \in Seq(S)
      /\ FlattenSeq(Append(parts, last)) = Cat(FlattenSeq(parts), last)
  BY <1>2, FlatAppend
<1> QED  BY <1>1, <1>4, <1>5, <1>6 DEF more, last

LEMMA MappedHead ==
  ASSUME NEW S, NEW T, NEW f \in [T -> Seq(S)], NEW ps \in Seq(T), ps # <<>>
  PROVE  /\ Head(ps) \in T /\ Tail(ps) \in Seq(T) /\ Mapped(f, Tail(ps)) \in Seq(S)
         /\ Mapped(f, ps) = Cat(f[Head(ps)], Mapped(f, Tail(ps)))
<1> DEFINE n == Len(ps)
           rest == Tail(ps)
           parts == [i \in 1..n |-> f[ps[i]]]
           shorter == [i \in 1..Len(rest) |-> f[rest[i]]]
<1>1. n \in Nat /\ n >= 1 /\ rest \in Seq(T) /\ Len(rest) = n - 1
      /\ Head(ps) = ps[1] /\ ps[1] \in T /\ \A i \in 1..n - 1 : rest[i] = ps[i + 1]
  OBVIOUS
<1>2. parts \in Seq(Seq(S)) /\ Len(parts) = n
  BY MappedParts
<1>3. \A i \in 1..n : parts[i] = f[ps[i]]
  OBVIOUS
<1>4. shorter \in Seq(Seq(S)) /\ Len(shorter) = n - 1
      /\ \A i \in 1..n - 1 : shorter[i] = f[ps[i + 1]]
  <2> HIDE DEF rest
  <2>1. shorter \in Seq(Seq(S)) /\ Len(shorter) = Len(rest)
    BY <1>1, MappedParts
  <2>2. \A i \in 1..n - 1 : shorter[i] = f[rest[i]]
    BY <1>1
  <2> QED  BY <1>1, <2>1, <2>2
<1>5. Mapped(f, ps) = FlattenSeq(parts) /\ Mapped(f, rest) = FlattenSeq(shorter)
  BY DEF Mapped
<1>6. Mapped(f, rest) \in Seq(S)
  BY <1>1, MappedParts
<1> HIDE DEF parts, shorter, n, rest
<1>7. parts # <<>> /\ Head(parts) = f[ps[1]] /\ Tail(parts) \in Seq(Seq(S))
      /\ Len(Tail(parts)) = n - 1 /\ \A i \in 1..n - 1 : Tail(parts)[i] = parts[i + 1]
  <2>1. parts # <<>> /\ Head(parts) = parts[1] /\ Tail(parts) \in Seq(Seq(S))
        /\ Len(Tail(parts)) = n - 1 /\ \A i \in 1..n - 1 : Tail(parts)[i] = parts[i + 1]
    BY <1>1, <1>2
  <2>2. parts[1] = f[ps[1]]
    BY <1>1, <1>3
  <2> QED  BY <2>1, <2>2
<1>8. Tail(parts) = shorter
  <2> DEFINE q == Tail(parts)
  <2> HIDE DEF q
  <2>1. q \in Seq(Seq(S)) /\ Len(q) = n - 1
        /\ \A i \in 1..n - 1 : q[i] = f[ps[i + 1]]
    BY <1>1, <1>3, <1>7 DEF q
  <2>2. q = shorter
    BY <1>4, <2>1, SeqEqual
  <2> QED  BY <2>2 DEF q
<1>9. FlattenSeq(parts) = Cat(Head(parts), FlattenSeq(Tail(parts)))
  BY <1>2, <1>7, FlatHead
<1> QED  BY <1>1, <1>5, <1>6, <1>7, <1>8, <1>9 DEF rest
-----------------------------------------------------------------------------
(* The frames on a connection, one after the other, and what has come of   *)
(* them when it was cut.                                                   *)
Payloads == {p \in Seq(Bytes) : Len(p) < B4}

Frames(ps) == FlattenSeq([i \in 1..Len(ps) |-> Frame(ps[i])])

PartOf(s, b) == Len(s) <= Len(b) /\ \A i \in 1..Len(s) : s[i] = b[i]

Carries(s, ps) ==
  s \in Seq(Bytes) /\ ps \in Seq(Payloads) /\ PartOf(s, Frames(ps))

LEMMA FrameIs ==
  ASSUME NEW p \in Payloads
  PROVE  /\ Frame(p) \in Seq(Bytes) /\ Len(Frame(p)) = 4 + Len(p)
         /\ p \in Seq(Bytes) /\ Len(p) \in Nat /\ Len(p) < B4 /\ Fits(Len(p), 4)
<1>1. p \in Seq(Bytes) /\ Len(p) \in Nat /\ Len(p) < B4
  BY LenProperties DEF Payloads
<1>2. Fits(Len(p), 4)
  BY <1>1, Fits4
<1> DEFINE header == Reverse(Number(Len(p), 4))
<1>3. header \in Seq(Bytes) /\ Len(header) = 4
  <2>1. Number(Len(p), 4) \in Seq(Bytes) /\ Len(Number(Len(p), 4)) = 4
    BY <1>1, NumberIs
  <2> QED  BY <2>1, Reversed
<1>4. Frame(p) = Cat(header, p)
  BY Zenon DEF Frame, Cat
<1> HIDE DEF header
<1>5. Cat(header, p) \in Seq(Bytes) /\ Len(Cat(header, p)) = 4 + Len(p)
  BY <1>1, <1>3, CatIs
<1> QED  BY <1>1, <1>2, <1>4, <1>5

Framed == [p \in Payloads |-> Frame(p)]

LEMMA FramesMapped ==
  ASSUME NEW ps \in Seq(Payloads)
  PROVE  Framed \in [Payloads -> Seq(Bytes)] /\ Frames(ps) = Mapped(Framed, ps)
<1>1. Framed \in [Payloads -> Seq(Bytes)]
  BY FrameIs DEF Framed
<1>2. \A i \in 1..Len(ps) : ps[i] \in Payloads
  BY ElementOfSeq
<1>3. [i \in 1..Len(ps) |-> Frame(ps[i])] = [i \in 1..Len(ps) |-> Framed[ps[i]]]
  BY <1>2 DEF Framed
<1> QED  BY <1>1, <1>3 DEF Frames, Mapped

LEMMA FramesType ==
  ASSUME NEW ps \in Seq(Payloads)
  PROVE  Frames(ps) \in Seq(Bytes)
<1>1. Framed \in [Payloads -> Seq(Bytes)] /\ Frames(ps) = Mapped(Framed, ps)
  BY FramesMapped
<1>2. Mapped(Framed, ps) \in Seq(Bytes)
  BY <1>1, MappedParts
<1> QED  BY <1>1, <1>2

LEMMA FramesAppend ==
  ASSUME NEW ps \in Seq(Payloads), NEW p \in Payloads
  PROVE  /\ Append(ps, p) \in Seq(Payloads) /\ Frames(ps) \in Seq(Bytes)
         /\ Frames(Append(ps, p)) = Cat(Frames(ps), Frame(p))
<1>1. Append(ps, p) \in Seq(Payloads)
  OBVIOUS
<1>2. /\ Framed \in [Payloads -> Seq(Bytes)] /\ Frames(ps) = Mapped(Framed, ps)
      /\ Frames(Append(ps, p)) = Mapped(Framed, Append(ps, p))
  BY <1>1, FramesMapped
<1>3. Framed[p] = Frame(p)
  BY DEF Framed
<1>4. /\ Mapped(Framed, ps) \in Seq(Bytes)
      /\ Mapped(Framed, Append(ps, p)) = Cat(Mapped(Framed, ps), Framed[p])
  BY <1>2, MappedAppend
<1> QED  BY <1>1, <1>2, <1>3, <1>4

LEMMA AppendFirst ==
  ASSUME NEW S, NEW r \in Seq(S), Len(r) = 1, NEW q \in S
  PROVE  Append(r, q)[1] = r[1]
<1>1. \A i \in 1..Len(r) : Append(r, q)[i] = r[i]
  BY AppendProperties
<1>2. 1 \in 1..Len(r)
  OBVIOUS
<1> QED  BY <1>1, <1>2

LEMMA AppendTwo ==
  ASSUME NEW p, NEW q
  PROVE  Append(<<p>>, q) = <<p, q>>
<1> DEFINE r == <<p>>
           t == <<p, q>>
           S == {p, q}
<1>1. r \in Seq(S) /\ Len(r) = 1 /\ r[1] = p /\ q \in S
  OBVIOUS
<1>2. t \in Seq(S) /\ Len(t) = 2 /\ t[1] = p /\ t[2] = q
  OBVIOUS
<1> HIDE DEF r, t, S
<1>3. Append(r, q) \in Seq(S) /\ Len(Append(r, q)) = 2
      /\ Append(r, q)[1] = p /\ Append(r, q)[2] = q
  <2>1. Append(r, q) \in Seq(S) /\ Len(Append(r, q)) = Len(r) + 1
    BY <1>1, AppendProperties
  <2>2. Append(r, q)[Len(r) + 1] = q
    BY <1>1, AppendProperties
  <2>3. Append(r, q)[1] = r[1]
    BY <1>1, AppendFirst, Zenon
  <2> QED  BY <1>1, <2>1, <2>2, <2>3
<1>4. \A i \in 1..2 : Append(r, q)[i] = t[i]
  <2>1. \A i \in 1..2 : i = 1 \/ i = 2
    OBVIOUS
  <2> QED  BY <1>2, <1>3, <2>1
<1>5. Append(r, q) = t
  BY <1>2, <1>3, <1>4, SeqEqual
<1> QED  BY <1>5 DEF r, t

LEMMA FramesFew ==
  /\ Frames(<<>>) = <<>>
  /\ \A p \in Payloads : <<p>> \in Seq(Payloads) /\ Frames(<<p>>) = Frame(p)
  /\ \A p, q \in Payloads : /\ <<p, q>> \in Seq(Payloads)
                           /\ Frames(<<p, q>>) = Cat(Frame(p), Frame(q))
<1>1. Frames(<<>>) = <<>>
  <2>1. [i \in 1..Len(<<>>) |-> Frame(<<>>[i])] = <<>>
    OBVIOUS
  <2> QED  BY <2>1, FlatEmpty DEF Frames
<1>2. ASSUME NEW p \in Payloads
      PROVE  <<p>> \in Seq(Payloads) /\ Frames(<<p>>) = Frame(p)
  <2>1. Append(<<>>, p) = <<p>> /\ <<>> \in Seq(Payloads)
    OBVIOUS
  <2>2. Frames(Append(<<>>, p)) = Cat(Frames(<<>>), Frame(p))
    BY <2>1, FramesAppend
  <2>3. Cat(<<>>, Frame(p)) = Frame(p)
    BY FrameIs, CatEmpty
  <2>4. <<p>> \in Seq(Payloads)
    OBVIOUS
  <2> QED  BY <1>1, <2>1, <2>2, <2>3, <2>4
<1>3. ASSUME NEW p \in Payloads, NEW q \in Payloads
      PROVE  <<p, q>> \in Seq(Payloads) /\ Frames(<<p, q>>) = Cat(Frame(p), Frame(q))
  <2>1. Append(<<p>>, q) = <<p, q>> /\ <<p, q>> \in Seq(Payloads)
    <3>1. <<p, q>> \in Seq(Payloads)
      OBVIOUS
    <3>2. Append(<<p>>, q) = <<p, q>>
      BY Zenon, AppendTwo
    <3> QED  BY <3>1, <3>2
  <2>2. Frames(Append(<<p>>, q)) = Cat(Frames(<<p>>), Frame(q))
    BY <1>2, FramesAppend
  <2> QED  BY <1>2, <2>1, <2>2
<1> QED  BY <1>1, <1>2, <1>3

LEMMA FramesHead ==
  ASSUME NEW ps \in Seq(Payloads), ps # <<>>
  PROVE  /\ Head(ps) \in Payloads /\ Tail(ps) \in Seq(Payloads)
         /\ Frames(Tail(ps)) \in Seq(Bytes)
         /\ Frames(ps) = Cat(Frame(Head(ps)), Frames(Tail(ps)))
<1>1. Head(ps) \in Payloads /\ Tail(ps) \in Seq(Payloads)
  OBVIOUS
<1>2. /\ Framed \in [Payloads -> Seq(Bytes)] /\ Frames(ps) = Mapped(Framed, ps)
      /\ Frames(Tail(ps)) = Mapped(Framed, Tail(ps))
  BY <1>1, FramesMapped
<1>3. Framed[Head(ps)] = Frame(Head(ps))
  BY <1>1 DEF Framed
<1>4. /\ Mapped(Framed, Tail(ps)) \in Seq(Bytes)
      /\ Mapped(Framed, ps) = Cat(Framed[Head(ps)], Mapped(Framed, Tail(ps)))
  BY <1>2, MappedHead
<1> QED  BY <1>1, <1>2, <1>3, <1>4

(* The reader of a stream that carries some frames has the first of them,  *)
(* whole and as it was sent, or nothing; what it leaves carries the rest.  *)
HasFirst(o, s, ps, limit) ==
  /\ ps # <<>> /\ o[1].read = Head(ps) /\ Len(Head(ps)) \in 1..limit
  /\ Carries(o[1].rest, Tail(ps))
  /\ s = Frames(ps) => o[1].rest = Frames(Tail(ps))

LEMMA NothingInNothing ==
  ASSUME NEW limit
  PROVE  Receive(<<>>, limit) = Nothing
<1>1. Len(<<>>) = 0
  OBVIOUS
<1>2. ReadBytes(<<>>, 4) = Nothing
  BY <1>1 DEF ReadBytes
<1> QED  BY <1>2 DEF Receive, Then

LEMMA Split ==
  ASSUME NEW S, NEW s \in Seq(S), NEW n \in 0..Len(s)
  PROVE  /\ SubSeq(s, 1, n) \in Seq(S) /\ Len(SubSeq(s, 1, n)) = n
         /\ \A i \in 1..n : SubSeq(s, 1, n)[i] = s[i]
         /\ SubSeq(s, n + 1, Len(s)) \in Seq(S)
         /\ Len(SubSeq(s, n + 1, Len(s))) = Len(s) - n
         /\ \A i \in 1..Len(s) - n : SubSeq(s, n + 1, Len(s))[i] = s[n + i]
<1>1. Len(s) \in Nat /\ n \in Nat /\ n <= Len(s)
  BY LenProperties
<1>2. /\ SubSeq(s, 1, n) \in Seq(S) /\ Len(SubSeq(s, 1, n)) = n
      /\ \A i \in 1..n : SubSeq(s, 1, n)[i] = s[i]
  BY <1>1
<1>3. /\ SubSeq(s, n + 1, Len(s)) \in Seq(S)
      /\ Len(SubSeq(s, n + 1, Len(s))) = Len(s) - n
      /\ \A i \in 1..Len(s) - n : SubSeq(s, n + 1, Len(s))[i] = s[n + i]
  BY <1>1
<1> QED  BY <1>2, <1>3

LEMMA Arrives ==
  ASSUME NEW s, NEW ps, Carries(s, ps), NEW limit \in Nat,
         Receive(s, limit) # Nothing
  PROVE  HasFirst(Receive(s, limit), s, ps, limit)
<1>1. s \in Seq(Bytes) /\ ps \in Seq(Payloads) /\ PartOf(s, Frames(ps)) /\ Len(s) \in Nat
  BY LenProperties DEF Carries
<1>2. ps # <<>>
  <2>1. ASSUME ps = <<>> PROVE FALSE
    <3>1. Len(s) <= Len(<<>>) /\ Len(<<>>) = 0
      BY <1>1, <2>1, FramesFew DEF PartOf
    <3>2. s = <<>>
      BY <1>1, <3>1, EmptySeq
    <3> QED  BY <3>2, NothingInNothing
  <2> QED  BY <2>1
<1> DEFINE p == Head(ps)
           t == Frames(Tail(ps))
           h == Frame(p)
<1>3. p \in Payloads /\ Tail(ps) \in Seq(Payloads) /\ t \in Seq(Bytes)
      /\ Frames(ps) = Cat(h, t)
  BY <1>1, <1>2, FramesHead
<1> HIDE DEF p, t
<1>4. h \in Seq(Bytes) /\ Len(h) = 4 + Len(p) /\ p \in Seq(Bytes) /\ Len(p) \in Nat
      /\ Fits(Len(p), 4)
  BY <1>3, FrameIs
<1>5. Bytes \subseteq Bytes
  OBVIOUS
<1>6. Len(s) <= Len(h) + Len(t) /\ Len(t) \in Nat
      /\ \A i \in 1..Len(s) : s[i] = IF i <= Len(h) THEN h[i] ELSE t[i - Len(h)]
  <2>1. Len(Cat(h, t)) = Len(h) + Len(t) /\ Len(t) \in Nat /\ Len(h) \in Nat
    BY <1>3, <1>4, CatIs
  <2>2. Len(s) <= Len(h) + Len(t)
    BY <1>1, <1>3, <2>1 DEF PartOf
  <2>3. ASSUME NEW i \in 1..Len(s)
        PROVE  s[i] = IF i <= Len(h) THEN h[i] ELSE t[i - Len(h)]
    <3>1. s[i] = Cat(h, t)[i]
      BY <1>1, <1>3 DEF PartOf
    <3>2. i \in 1..Len(h) + Len(t)
      BY <1>1, <2>1, <2>2
    <3>3. Cat(h, t)[i] = IF i <= Len(h) THEN h[i] ELSE t[i - Len(h)]
      BY <1>3, <1>4, <3>2, CatAt
    <3> QED  BY <3>1, <3>3
  <2> QED  BY <2>1, <2>2, <2>3
<1>7. Len(s) >= Len(h)
  <2>1. ASSUME Len(s) < Len(h) PROVE FALSE
    <3> DEFINE k == Len(s)
    <3>1. k \in 0..Len(h) - 1 /\ k \in 0..Len(h)
      BY <1>1, <1>4, <2>1
    <3>2. Receive(SubSeq(Frame(p), 1, k), limit) = Nothing
      BY <1>4, <1>5, <3>1, CutFrameIsLost
    <3> DEFINE r == SubSeq(h, 1, k)
    <3>3. r \in Seq(Bytes) /\ Len(r) = k /\ \A i \in 1..k : r[i] = h[i]
      BY <1>4, <3>1, Split
    <3> HIDE DEF r
    <3>4. \A i \in 1..Len(s) : r[i] = s[i]
      BY <1>1, <1>6, <2>1, <3>3, <1>4
    <3>5. r = s
      BY <1>1, <3>3, <3>4, SeqEqual
    <3> QED  BY <3>2, <3>5 DEF r
  <2> QED  BY <1>1, <1>4, <2>1
<1> DEFINE n == Len(h)
           a == SubSeq(s, 1, n)
           u == SubSeq(s, n + 1, Len(s))
<1>8. n \in Nat /\ n \in 0..Len(s)
  BY <1>1, <1>4, <1>7
<1>9. /\ a \in Seq(Bytes) /\ Len(a) = n /\ \A i \in 1..n : a[i] = s[i]
      /\ u \in Seq(Bytes) /\ Len(u) = Len(s) - n
      /\ \A i \in 1..Len(s) - n : u[i] = s[n + i]
  <2> HIDE DEF n
  <2> QED  BY <1>1, <1>8, Split
<1> HIDE DEF a, u
<1>10. a = h
  <2>1. ASSUME NEW i \in 1..n PROVE a[i] = h[i]
    <3>1. i \in 1..Len(s) /\ i <= Len(h)
      BY <1>1, <1>8
    <3>2. s[i] = h[i]
      BY <1>6, <3>1
    <3> QED  BY <1>9, <3>2
  <2> QED  BY <1>4, <1>9, <2>1, SeqEqual
<1>11. PartOf(u, t)
  <2>1. ASSUME NEW i \in 1..Len(u) PROVE u[i] = t[i]
    <3>1. n + i \in 1..Len(s) /\ ~(n + i <= n) /\ (n + i) - n = i /\ i \in 1..Len(s) - n
      BY <1>1, <1>8, <1>9
    <3>2. s[n + i] = t[(n + i) - n]
      BY <1>6, <3>1
    <3> QED  BY <1>9, <3>1, <3>2
  <2>2. Len(u) <= Len(t)
    BY <1>1, <1>6, <1>8, <1>9
  <2> QED  BY <2>1, <2>2 DEF PartOf
<1>12. s = Cat(h, u)
  <2> DEFINE c == Cat(h, u)
  <2>1. c \in Seq(Bytes) /\ Len(c) = Len(h) + Len(u)
    BY <1>4, <1>9, CatIs
  <2>2. ASSUME NEW i \in 1..Len(s) PROVE c[i] = s[i]
    <3>1. i \in 1..Len(h) + Len(u)
      BY <1>1, <1>8, <1>9
    <3>2. c[i] = IF i <= Len(h) THEN h[i] ELSE u[i - Len(h)]
      BY <1>4, <1>9, <3>1, CatAt
    <3>3. CASE i <= n
      BY <1>1, <1>6, <1>8, <3>2, <3>3
    <3>4. CASE ~(i <= n)
      <4>1. i - n \in 1..Len(s) - n /\ n + (i - n) = i
        BY <1>1, <1>8, <3>4
      <4> QED  BY <1>9, <3>2, <3>4, <4>1
    <3> QED  BY <3>3, <3>4
  <2> HIDE DEF c
  <2>3. c = s
    <3>1. Len(c) = Len(s)
      BY <1>1, <1>8, <1>9, <2>1
    <3> QED  BY <1>1, <2>1, <2>2, <3>1, SeqEqual
  <2> QED  BY <2>3 DEF c
<1>13. Receive(s, limit) = IF Len(p) = 0 \/ Len(p) > limit THEN Nothing
                          ELSE Just([read |-> p, rest |-> u])
  <2>1. Receive(Frame(p) \o u, limit)
          = IF Len(p) = 0 \/ Len(p) > limit THEN Nothing
            ELSE Just([read |-> p, rest |-> u])
    BY <1>4, <1>5, <1>9, FrameArrives
  <2> QED  BY <1>12, <2>1, Zenon DEF Cat
<1>14. Len(p) \in 1..limit /\ Receive(s, limit) = Just([read |-> p, rest |-> u])
  BY <1>4, <1>13
<1> DEFINE o == Receive(s, limit)
<1>15. o[1].read = p /\ o[1].rest = u
  <2> HIDE DEF o
  <2>1. o = Just([read |-> p, rest |-> u])
    BY <1>14 DEF o
  <2> QED  BY <2>1, JustRead
<1>16. Carries(u, Tail(ps))
  BY <1>3, <1>9, <1>11 DEF Carries, t
<1>17. ASSUME s = Frames(ps) PROVE u = t
  <2>1. Len(u) = Len(t)
    <3>1. Len(s) = Len(h) + Len(t)
      BY <1>3, <1>4, <1>17, CatIs
    <3> QED  BY <1>6, <1>8, <1>9, <3>1
  <2> QED  BY <1>3, <1>9, <1>11, <2>1, SeqEqual DEF PartOf
<1> QED  BY <1>2, <1>14, <1>15, <1>16, <1>17 DEF HasFirst, p, t

(* A stream that is cut still carries what it carried. *)
LEMMA CutCarries ==
  ASSUME NEW s, NEW ps, Carries(s, ps), NEW n \in 0..Len(s)
  PROVE  Carries(SubSeq(s, 1, n), ps)
<1>1. s \in Seq(Bytes) /\ PartOf(s, Frames(ps)) /\ Len(s) \in Nat /\ ps \in Seq(Payloads)
  BY LenProperties DEF Carries
<1> DEFINE r == SubSeq(s, 1, n)
           b == Frames(ps)
<1>2. r \in Seq(Bytes) /\ Len(r) = n /\ \A i \in 1..n : r[i] = s[i]
  BY <1>1, Split
<1>3. Len(b) \in Nat
  <2>1. b \in Seq(Bytes)
    BY <1>1, FramesType
  <2> QED  BY <2>1, LenProperties
<1> HIDE DEF r, b
<1>4. Len(s) <= Len(b) /\ \A i \in 1..Len(s) : s[i] = b[i]
  BY <1>1 DEF PartOf, b
<1>5. Len(r) <= Len(b) /\ \A i \in 1..Len(r) : r[i] = b[i]
  BY <1>1, <1>2, <1>3, <1>4
<1> QED  BY <1>1, <1>2, <1>5 DEF Carries, PartOf, r, b

(* What has been sent and not cut carries what was sent; an empty stream   *)
(* may be what was cut of anything; what nothing was sent on is empty.     *)
LEMMA Whole ==
  ASSUME NEW ps \in Seq(Payloads)
  PROVE  Carries(Frames(ps), ps) /\ Carries(<<>>, ps)
<1>1. Frames(ps) \in Seq(Bytes) /\ Len(Frames(ps)) \in Nat
  BY FramesType, LenProperties
<1>2. <<>> \in Seq(Bytes) /\ Len(<<>>) = 0
  OBVIOUS
<1>3. PartOf(<<>>, Frames(ps))
  BY <1>1, <1>2 DEF PartOf
<1> QED  BY <1>1, <1>2, <1>3 DEF Carries, PartOf

LEMMA Empty ==
  ASSUME NEW s, Carries(s, <<>>)
  PROVE  s = <<>>
<1>1. s \in Seq(Bytes) /\ Len(s) <= Len(<<>>) /\ Len(<<>>) = 0 /\ Len(s) \in Nat
  BY FramesFew, LenProperties DEF Carries, PartOf
<1> QED  BY <1>1, EmptySeq

LEMMA OneFrame ==
  ASSUME NEW p \in Payloads
  PROVE  /\ Carries(Frame(p), <<p>>) /\ Carries(<<>>, <<p>>)
         /\ Cat(<<>>, Frame(p)) = Frame(p)
<1>1. <<p>> \in Seq(Payloads) /\ Frames(<<p>>) = Frame(p) /\ Frame(p) \in Seq(Bytes)
  BY FramesFew, FrameIs
<1> QED  BY <1>1, Whole, CatEmpty

(* Of a stream of one frame the first leaves nothing, of two the second.   *)
LEMMA FirstOfOne ==
  ASSUME NEW p, NEW s, NEW limit, NEW o, HasFirst(o, s, <<p>>, limit)
  PROVE  o[1].read = p /\ Len(p) \in 1..limit /\ o[1].rest = <<>>
<1> DEFINE one == <<p>>
<1>1. Head(one) = p /\ Tail(one) = <<>>
  OBVIOUS
<1>2. HasFirst(o, s, one, limit)
  BY DEF one
<1> HIDE DEF one
<1> QED  BY <1>1, <1>2, Empty DEF HasFirst

LEMMA FirstOfTwo ==
  ASSUME NEW p, NEW q, NEW s, NEW limit, NEW o, HasFirst(o, s, <<p, q>>, limit)
  PROVE  o[1].read = p /\ Len(p) \in 1..limit /\ Carries(o[1].rest, <<q>>)
<1> DEFINE two == <<p, q>>
<1>1. Head(two) = p
  OBVIOUS
<1>2. Tail(two) = <<q>>
  OBVIOUS
<1>3. HasFirst(o, s, two, limit)
  BY DEF two
<1> HIDE DEF two
<1> QED  BY <1>1, <1>2, <1>3 DEF HasFirst
-----------------------------------------------------------------------------
(* The sizes of messages, whether their fields fit or not. *)
IsField(kind, x, Atoms) ==
  /\ kind \in {"u16", "u32"} => x \in Nat
  /\ kind \notin {"u16", "u32"} => x \in Seq(Atoms)

Size(kind, x) ==
  IF kind = "u16" THEN 2 ELSE IF kind = "u32" THEN 4
  ELSE IF kind = "str16" THEN 2 + Len(x)
  ELSE IF kind = "str32" THEN 4 + Len(x) ELSE Len(x)

LEMMA NumberSize ==
  ASSUME NEW Atoms, Bytes \subseteq Atoms, NEW v \in Nat, NEW n \in Nat
  PROVE  Number(v, n) \in Seq(Atoms) /\ Len(Number(v, n)) = n
  BY NumberIs, SeqMonotonic

LEMMA FieldSize ==
  ASSUME NEW Atoms, Bytes \subseteq Atoms, NEW kind \in Kinds, NEW x,
         IsField(kind, x, Atoms)
  PROVE  /\ WriteField(kind, x) \in Seq(Atoms)
         /\ Len(WriteField(kind, x)) = Size(kind, x) /\ Size(kind, x) \in Nat
<1>1. CASE kind \in {"u16", "u32"}
  <2>1. x \in Nat
    BY <1>1 DEF IsField
  <2>2. WriteField(kind, x) = Number(x, Size(kind, x)) /\ Size(kind, x) \in Nat
    BY <1>1 DEF WriteField, Size
  <2> QED  BY <2>1, <2>2, NumberSize
<1>2. CASE kind \in {"str16", "str32"}
  <2> DEFINE n == IF kind = "str16" THEN 2 ELSE 4
             w == Number(Len(x), n)
  <2>1. x \in Seq(Atoms) /\ Len(x) \in Nat /\ n \in Nat
    BY <1>2, LenProperties DEF IsField
  <2>2. WriteField(kind, x) = Cat(w, x) /\ Size(kind, x) = n + Len(x)
    BY <1>2 DEF WriteField, Size, Cat
  <2> HIDE DEF n
  <2>3. w \in Seq(Atoms) /\ Len(w) = n
    BY <2>1, NumberSize
  <2> HIDE DEF w
  <2>4. Cat(w, x) \in Seq(Atoms) /\ Len(Cat(w, x)) = n + Len(x)
    BY <2>1, <2>3, CatIs
  <2> QED  BY <2>1, <2>2, <2>4
<1>3. CASE kind = "hash"
  <2>1. x \in Seq(Atoms) /\ Len(x) \in Nat
    BY <1>3, LenProperties DEF IsField
  <2>2. WriteField(kind, x) = x /\ Size(kind, x) = Len(x)
    BY <1>3 DEF WriteField, Size
  <2> QED  BY <2>1, <2>2
<1> QED  BY <1>1, <1>2, <1>3 DEF Kinds

LEMMA FlatSize ==
  ASSUME NEW S, NEW parts \in Seq(Seq(S))
  PROVE  /\ FlattenSeq(parts) \in Seq(S)
         /\ Len(parts) = 0 => Len(FlattenSeq(parts)) = 0
         /\ Len(parts) = 1 => Len(FlattenSeq(parts)) = Len(parts[1])
         /\ Len(parts) = 2 => Len(FlattenSeq(parts)) = Len(parts[1]) + Len(parts[2])
         /\ Len(parts) = 3 => Len(FlattenSeq(parts))
                                = Len(parts[1]) + Len(parts[2]) + Len(parts[3])
         /\ Len(parts) = 4 => Len(FlattenSeq(parts))
                                = Len(parts[1]) + Len(parts[2]) + Len(parts[3])
                                    + Len(parts[4])
<1> DEFINE n == Len(parts)
           T == Seq(S)
<1>1. n \in Nat /\ \A i \in 1..n : parts[i] \in T /\ Len(parts[i]) \in Nat
  BY LenProperties, ElementOfSeq
<1>2. PICK f \in [0..n -> T] :
        /\ f[0] = <<>> /\ FlattenSeq(parts) = f[n]
        /\ \A i \in 1..n : f[i] = f[i - 1] \o parts[i]
  BY PartsJoined
<1> HIDE DEF n
<1>3. ASSUME NEW i \in 1..n
      PROVE  Len(f[i]) = Len(f[i - 1]) + Len(parts[i])
  <2>1. f[i - 1] \in Seq(S) /\ parts[i] \in Seq(S)
    BY <1>1, <1>2
  <2>2. Len(Cat(f[i - 1], parts[i])) = Len(f[i - 1]) + Len(parts[i])
    BY <2>1, CatIs
  <2>3. f[i] = Cat(f[i - 1], parts[i])
    BY <1>2, Zenon DEF Cat
  <2> QED  BY <2>2, <2>3
<1>4. Len(f[0]) = 0 /\ FlattenSeq(parts) \in Seq(S)
  <2>1. f[n] \in T
    BY <1>1, <1>2
  <2> QED  BY <1>2, <2>1
<1>5. /\ n >= 1 => Len(f[1]) = Len(parts[1]) /\ Len(parts[1]) \in Nat
      /\ n >= 2 => Len(f[2]) = Len(f[1]) + Len(parts[2]) /\ Len(parts[2]) \in Nat
      /\ n >= 3 => Len(f[3]) = Len(f[2]) + Len(parts[3]) /\ Len(parts[3]) \in Nat
      /\ n >= 4 => Len(f[4]) = Len(f[3]) + Len(parts[4]) /\ Len(parts[4]) \in Nat
  <2>1. ASSUME n >= 1
        PROVE  Len(f[1]) = Len(f[0]) + Len(parts[1]) /\ Len(parts[1]) \in Nat
    <3>1. 1 \in 1..n
      BY <1>1, <2>1
    <3>2. Len(f[1]) = Len(f[1 - 1]) + Len(parts[1])
      BY <1>3, <3>1
    <3> QED  BY <1>1, <3>1, <3>2
  <2>2. ASSUME n >= 2
        PROVE  Len(f[2]) = Len(f[1]) + Len(parts[2]) /\ Len(parts[2]) \in Nat
    <3>1. 2 \in 1..n
      BY <1>1, <2>2
    <3>2. Len(f[2]) = Len(f[2 - 1]) + Len(parts[2])
      BY <1>3, <3>1
    <3> QED  BY <1>1, <3>1, <3>2
  <2>3. ASSUME n >= 3
        PROVE  Len(f[3]) = Len(f[2]) + Len(parts[3]) /\ Len(parts[3]) \in Nat
    <3>1. 3 \in 1..n
      BY <1>1, <2>3
    <3>2. Len(f[3]) = Len(f[3 - 1]) + Len(parts[3])
      BY <1>3, <3>1
    <3> QED  BY <1>1, <3>1, <3>2
  <2>4. ASSUME n >= 4
        PROVE  Len(f[4]) = Len(f[3]) + Len(parts[4]) /\ Len(parts[4]) \in Nat
    <3>1. 4 \in 1..n
      BY <1>1, <2>4
    <3>2. Len(f[4]) = Len(f[4 - 1]) + Len(parts[4])
      BY <1>3, <3>1
    <3> QED  BY <1>1, <3>1, <3>2
  <2>5. Len(f[0]) = 0
    BY <1>4
  <2>6. n >= 1 => Len(f[1]) = Len(parts[1]) /\ Len(parts[1]) \in Nat
    BY <2>1, <2>5
  <2> QED  BY <2>2, <2>3, <2>4, <2>6
<1>6. /\ n = 1 => n >= 1
      /\ n = 2 => n >= 1 /\ n >= 2
      /\ n = 3 => n >= 1 /\ n >= 2 /\ n >= 3
      /\ n = 4 => n >= 1 /\ n >= 2 /\ n >= 3 /\ n >= 4
  BY <1>1
<1> QED  BY <1>2, <1>4, <1>5, <1>6 DEF n

LEMMA WriteSize ==
  ASSUME NEW Atoms, Bytes \subseteq Atoms, NEW kinds \in Seq(Kinds), NEW fields,
         \A i \in 1..Len(kinds) : IsField(kinds[i], fields[i], Atoms)
  PROVE  /\ Write(kinds, fields) \in Seq(Atoms)
         /\ Len(kinds) = 0 => Len(Write(kinds, fields)) = 0
         /\ Len(kinds) = 1 => Len(Write(kinds, fields)) = Size(kinds[1], fields[1])
         /\ Len(kinds) = 2 => Len(Write(kinds, fields))
              = Size(kinds[1], fields[1]) + Size(kinds[2], fields[2])
         /\ Len(kinds) = 3 => Len(Write(kinds, fields))
              = Size(kinds[1], fields[1]) + Size(kinds[2], fields[2])
                  + Size(kinds[3], fields[3])
         /\ Len(kinds) = 4 => Len(Write(kinds, fields))
              = Size(kinds[1], fields[1]) + Size(kinds[2], fields[2])
                  + Size(kinds[3], fields[3]) + Size(kinds[4], fields[4])
<1> DEFINE n == Len(kinds)
           parts == [i \in 1..n |-> WriteField(kinds[i], fields[i])]
<1>1. n \in Nat /\ \A i \in 1..n : kinds[i] \in Kinds
  BY LenProperties, ElementOfSeq
<1>2. \A i \in 1..n : /\ WriteField(kinds[i], fields[i]) \in Seq(Atoms)
                      /\ Len(WriteField(kinds[i], fields[i])) = Size(kinds[i], fields[i])
  BY <1>1, FieldSize
<1>3. Write(kinds, fields) = FlattenSeq(parts)
  BY DEF Write
<1> HIDE DEF n
<1>4. parts \in Seq(Seq(Atoms)) /\ Len(parts) = n
  <2>1. parts \in [1..n -> Seq(Atoms)]
    BY <1>2
  <2> HIDE DEF parts
  <2> QED  BY <1>1, <2>1, SequenceOf
<1>5. \A i \in 1..n : Len(parts[i]) = Size(kinds[i], fields[i])
  BY <1>2
<1> HIDE DEF parts
<1>6. /\ FlattenSeq(parts) \in Seq(Atoms)
      /\ n = 0 => Len(FlattenSeq(parts)) = 0
      /\ n = 1 => Len(FlattenSeq(parts)) = Len(parts[1])
      /\ n = 2 => Len(FlattenSeq(parts)) = Len(parts[1]) + Len(parts[2])
      /\ n = 3 => Len(FlattenSeq(parts)) = Len(parts[1]) + Len(parts[2]) + Len(parts[3])
      /\ n = 4 => Len(FlattenSeq(parts))
                    = Len(parts[1]) + Len(parts[2]) + Len(parts[3]) + Len(parts[4])
  BY <1>4, FlatSize
<1>7. /\ n >= 1 => Len(parts[1]) = Size(kinds[1], fields[1])
      /\ n >= 2 => Len(parts[2]) = Size(kinds[2], fields[2])
      /\ n >= 3 => Len(parts[3]) = Size(kinds[3], fields[3])
      /\ n >= 4 => Len(parts[4]) = Size(kinds[4], fields[4])
  BY <1>1, <1>5
<1>8. (n = 1 => n >= 1) /\ (n = 2 => n >= 1 /\ n >= 2) /\ (n = 3 => n >= 1 /\ n >= 2 /\ n >= 3)
      /\ (n = 4 => n >= 1 /\ n >= 2 /\ n >= 3 /\ n >= 4)
  BY <1>1
<1> QED  BY <1>3, <1>6, <1>7, <1>8 DEF n

LEMMA Sizes1 ==
  ASSUME NEW Atoms, Bytes \subseteq Atoms, NEW k1 \in Kinds, NEW x1,
         IsField(k1, x1, Atoms)
  PROVE  /\ Write(<<k1>>, <<x1>>) \in Seq(Atoms)
         /\ Len(Write(<<k1>>, <<x1>>)) = Size(k1, x1)
<1> DEFINE kinds == <<k1>>
           fields == <<x1>>
<1>1. kinds \in Seq(Kinds) /\ Len(kinds) = 1 /\ kinds[1] = k1 /\ fields[1] = x1
  OBVIOUS
<1> HIDE DEF kinds, fields
<1>2. \A i \in 1..Len(kinds) : IsField(kinds[i], fields[i], Atoms)
  BY <1>1
<1>3. Write(kinds, fields) \in Seq(Atoms)
      /\ (Len(kinds) = 1 => Len(Write(kinds, fields)) = Size(kinds[1], fields[1]))
  BY <1>1, <1>2, WriteSize
<1> QED  BY <1>1, <1>3 DEF kinds, fields

LEMMA Sizes2 ==
  ASSUME NEW Atoms, Bytes \subseteq Atoms, NEW k1 \in Kinds, NEW k2 \in Kinds,
         NEW x1, NEW x2, IsField(k1, x1, Atoms), IsField(k2, x2, Atoms)
  PROVE  /\ Write(<<k1, k2>>, <<x1, x2>>) \in Seq(Atoms)
         /\ Len(Write(<<k1, k2>>, <<x1, x2>>)) = Size(k1, x1) + Size(k2, x2)
<1> DEFINE kinds == <<k1, k2>>
           fields == <<x1, x2>>
<1>1. kinds \in Seq(Kinds) /\ Len(kinds) = 2 /\ kinds[1] = k1 /\ kinds[2] = k2
      /\ fields[1] = x1 /\ fields[2] = x2
  OBVIOUS
<1> HIDE DEF kinds, fields
<1>2. \A i \in 1..Len(kinds) : IsField(kinds[i], fields[i], Atoms)
  <2>1. \A i \in 1..2 : i = 1 \/ i = 2
    OBVIOUS
  <2> QED  BY <1>1, <2>1
<1>3. Write(kinds, fields) \in Seq(Atoms)
      /\ (Len(kinds) = 2 => Len(Write(kinds, fields))
            = Size(kinds[1], fields[1]) + Size(kinds[2], fields[2]))
  BY <1>1, <1>2, WriteSize
<1> QED  BY <1>1, <1>3 DEF kinds, fields

LEMMA Sizes3 ==
  ASSUME NEW Atoms, Bytes \subseteq Atoms,
         NEW k1 \in Kinds, NEW k2 \in Kinds, NEW k3 \in Kinds,
         NEW x1, NEW x2, NEW x3,
         IsField(k1, x1, Atoms), IsField(k2, x2, Atoms), IsField(k3, x3, Atoms)
  PROVE  /\ Write(<<k1, k2, k3>>, <<x1, x2, x3>>) \in Seq(Atoms)
         /\ Len(Write(<<k1, k2, k3>>, <<x1, x2, x3>>))
              = Size(k1, x1) + Size(k2, x2) + Size(k3, x3)
<1> DEFINE kinds == <<k1, k2, k3>>
           fields == <<x1, x2, x3>>
<1>1. kinds \in Seq(Kinds) /\ Len(kinds) = 3
      /\ kinds[1] = k1 /\ kinds[2] = k2 /\ kinds[3] = k3
      /\ fields[1] = x1 /\ fields[2] = x2 /\ fields[3] = x3
  OBVIOUS
<1> HIDE DEF kinds, fields
<1>2. \A i \in 1..Len(kinds) : IsField(kinds[i], fields[i], Atoms)
  <2>1. \A i \in 1..3 : i = 1 \/ i = 2 \/ i = 3
    OBVIOUS
  <2> QED  BY <1>1, <2>1
<1>3. Write(kinds, fields) \in Seq(Atoms)
      /\ (Len(kinds) = 3 => Len(Write(kinds, fields))
            = Size(kinds[1], fields[1]) + Size(kinds[2], fields[2])
                + Size(kinds[3], fields[3]))
  BY <1>1, <1>2, WriteSize
<1> QED  BY <1>1, <1>3 DEF kinds, fields

LEMMA Sizes4 ==
  ASSUME NEW Atoms, Bytes \subseteq Atoms,
         NEW k1 \in Kinds, NEW k2 \in Kinds, NEW k3 \in Kinds, NEW k4 \in Kinds,
         NEW x1, NEW x2, NEW x3, NEW x4,
         IsField(k1, x1, Atoms), IsField(k2, x2, Atoms),
         IsField(k3, x3, Atoms), IsField(k4, x4, Atoms)
  PROVE  /\ Write(<<k1, k2, k3, k4>>, <<x1, x2, x3, x4>>) \in Seq(Atoms)
         /\ Len(Write(<<k1, k2, k3, k4>>, <<x1, x2, x3, x4>>))
              = Size(k1, x1) + Size(k2, x2) + Size(k3, x3) + Size(k4, x4)
<1> DEFINE kinds == <<k1, k2, k3, k4>>
           fields == <<x1, x2, x3, x4>>
<1>1. kinds \in Seq(Kinds) /\ Len(kinds) = 4
      /\ kinds[1] = k1 /\ kinds[2] = k2 /\ kinds[3] = k3 /\ kinds[4] = k4
      /\ fields[1] = x1 /\ fields[2] = x2 /\ fields[3] = x3 /\ fields[4] = x4
  OBVIOUS
<1> HIDE DEF kinds, fields
<1>2. \A i \in 1..Len(kinds) : IsField(kinds[i], fields[i], Atoms)
  <2>1. \A i \in 1..4 : i = 1 \/ i = 2 \/ i = 3 \/ i = 4
    OBVIOUS
  <2> QED  BY <1>1, <2>1
<1>3. Write(kinds, fields) \in Seq(Atoms)
      /\ (Len(kinds) = 4 => Len(Write(kinds, fields))
            = Size(kinds[1], fields[1]) + Size(kinds[2], fields[2])
                + Size(kinds[3], fields[3]) + Size(kinds[4], fields[4]))
  BY <1>1, <1>2, WriteSize
<1> QED  BY <1>1, <1>3 DEF kinds, fields

(* The fields by kind. *)
LEMMA StrField ==
  ASSUME NEW Atoms, NEW x \in Seq(Atoms)
  PROVE  /\ IsField("str16", x, Atoms) /\ Size("str16", x) = 2 + Len(x)
         /\ IsField("str32", x, Atoms) /\ Size("str32", x) = 4 + Len(x)
         /\ IsField("hash", x, Atoms) /\ Size("hash", x) = Len(x)
         /\ Len(x) \in Nat
         /\ Len(x) < B2 => FieldFits("str16", x, Atoms)
         /\ Len(x) < B4 => FieldFits("str32", x, Atoms)
         /\ Len(x) = HashSize => FieldFits("hash", x, Atoms)
<1>1. Len(x) \in Nat
  BY LenProperties
<1>2. Len(x) < B2 => Fits(Len(x), 2)
  BY <1>1, Fits2
<1>3. Len(x) < B4 => Fits(Len(x), 4)
  BY <1>1, Fits4
<1>4. /\ IsField("str16", x, Atoms) /\ Size("str16", x) = 2 + Len(x)
      /\ IsField("str32", x, Atoms) /\ Size("str32", x) = 4 + Len(x)
      /\ IsField("hash", x, Atoms) /\ Size("hash", x) = Len(x)
  BY DEF IsField, Size
<1> QED  BY <1>1, <1>2, <1>3, <1>4 DEF FieldFits

LEMMA NumField ==
  ASSUME NEW Atoms, NEW v \in Nat
  PROVE  /\ IsField("u16", v, Atoms) /\ Size("u16", v) = 2
         /\ IsField("u32", v, Atoms) /\ Size("u32", v) = 4
         /\ v < B2 => FieldFits("u16", v, Atoms)
         /\ v < B4 => FieldFits("u32", v, Atoms)
<1>1. v < B2 => Fits(v, 2)
  BY Fits2
<1>2. v < B4 => Fits(v, 4)
  BY Fits4
<1>3. /\ IsField("u16", v, Atoms) /\ Size("u16", v) = 2
      /\ IsField("u32", v, Atoms) /\ Size("u32", v) = 4
  BY DEF IsField, Size
<1> QED  BY <1>1, <1>2, <1>3 DEF FieldFits

IsEncoded(writes, op, fields, Atoms) ==
  /\ Encode(writes, op, fields) \in Seq(Atoms)
  /\ Len(Encode(writes, op, fields)) = 2 + Len(Write(writes[op], fields))
  /\ Len(Write(writes[op], fields)) \in Nat

LEMMA EncodeSize ==
  ASSUME NEW Atoms, Bytes \subseteq Atoms, NEW writes, NEW op \in MessageOpcodes, NEW fields,
         Write(writes[op], fields) \in Seq(Atoms)
  PROVE  IsEncoded(writes, op, fields, Atoms)
<1> DEFINE n == Number(op, 2)
           w == Write(writes[op], fields)
<1>1. n \in Seq(Atoms) /\ Len(n) = 2
  <2>1. op \in Nat /\ 2 \in Nat
    BY DEF MessageOpcodes
  <2> QED  BY <2>1, NumberSize
<1>2. Encode(writes, op, fields) = Cat(n, w)
  BY Zenon DEF Encode, Cat
<1> HIDE DEF n, w
<1>3. w \in Seq(Atoms)
  BY DEF w
<1>4. Cat(n, w) \in Seq(Atoms) /\ Len(Cat(n, w)) = 2 + Len(w) /\ Len(w) \in Nat
  BY <1>1, <1>3, CatIs
<1> QED  BY <1>2, <1>4 DEF IsEncoded, w

PairOf(kinds, k1, k2) ==
  kinds \in Seq(Kinds) /\ Len(kinds) = 2 /\ kinds[1] = k1 /\ kinds[2] = k2

LEMMA PairIs ==
  ASSUME NEW k1 \in Kinds, NEW k2 \in Kinds
  PROVE  PairOf(<<k1, k2>>, k1, k2)
  BY DEF PairOf

LEMMA KindsAre ==
  /\ "u16" \in Kinds /\ "u32" \in Kinds /\ "str16" \in Kinds /\ "str32" \in Kinds
  /\ "hash" \in Kinds /\ Bytes \subseteq Bytes
  BY DEF Kinds

LEMMA LoginWritesAre ==
  /\ PairOf(LoginWrites[ClientHello], "str16", "str16")
  /\ PairOf(LoginWrites[ServerChallenge], "str16", "str32")
  /\ PairOf(LoginWrites[ClientProof], "str32", "hash")
  /\ PairOf(LoginWrites[ServerProof], "hash", "str16")
  /\ {ClientHello, ClientProof, ServerChallenge, ServerProof} \subseteq DOMAIN LoginWrites
  /\ {ClientHello, ClientProof, ServerChallenge, ServerProof} \subseteq MessageOpcodes
<1>1. PairOf(LoginWrites[ClientHello], "str16", "str16")
  <2>1. LoginWrites[ClientHello] = <<"str16", "str16">>
    BY DEF LoginWrites, ClientHello, ClientProof, ServerChallenge, ServerProof, ServerError
  <2> QED  BY <2>1, PairIs, KindsAre
<1>2. PairOf(LoginWrites[ServerChallenge], "str16", "str32")
  <2>1. LoginWrites[ServerChallenge] = <<"str16", "str32">>
    BY DEF LoginWrites, ClientHello, ClientProof, ServerChallenge, ServerProof, ServerError
  <2> QED  BY <2>1, PairIs, KindsAre
<1>3. PairOf(LoginWrites[ClientProof], "str32", "hash")
  <2>1. LoginWrites[ClientProof] = <<"str32", "hash">>
    BY DEF LoginWrites, ClientHello, ClientProof, ServerChallenge, ServerProof, ServerError
  <2> QED  BY <2>1, PairIs, KindsAre
<1>4. PairOf(LoginWrites[ServerProof], "hash", "str16")
  <2>1. LoginWrites[ServerProof] = <<"hash", "str16">>
    BY DEF LoginWrites, ClientHello, ClientProof, ServerChallenge, ServerProof, ServerError
  <2> QED  BY <2>1, PairIs, KindsAre
<1>5. {ClientHello, ClientProof, ServerChallenge, ServerProof} \subseteq DOMAIN LoginWrites
  BY DEF LoginWrites, ClientHello, ClientProof, ServerChallenge, ServerProof, ServerError
<1>6. {ClientHello, ClientProof, ServerChallenge, ServerProof} \subseteq MessageOpcodes
  BY DEF MessageOpcodes, ClientHello, ClientProof, ServerChallenge, ServerProof, ServerError
<1> QED  BY <1>1, <1>2, <1>3, <1>4, <1>5, <1>6

LEMMA LoginSize ==
  ASSUME NEW op \in MessageOpcodes, NEW k1 \in Kinds, NEW k2 \in Kinds,
         PairOf(LoginWrites[op], k1, k2), NEW fields,
         IsField(k1, fields[1], Bytes), IsField(k2, fields[2], Bytes)
  PROVE  /\ EncodeLogin(op, fields) \in Seq(Bytes)
         /\ Len(EncodeLogin(op, fields)) = 2 + Size(k1, fields[1]) + Size(k2, fields[2])
<1> DEFINE kinds == LoginWrites[op]
           w == Write(kinds, fields)
<1>1. kinds \in Seq(Kinds) /\ Len(kinds) = 2 /\ kinds[1] = k1 /\ kinds[2] = k2
  BY DEF PairOf
<1>2. \A i \in 1..Len(kinds) : IsField(kinds[i], fields[i], Bytes)
  <2>1. \A i \in 1..2 : i = 1 \/ i = 2
    OBVIOUS
  <2> QED  BY <1>1, <2>1
<1>3. w \in Seq(Bytes) /\ Len(w) = Size(k1, fields[1]) + Size(k2, fields[2])
  <2> HIDE DEF kinds
  <2> QED  BY <1>1, <1>2, KindsAre, WriteSize
<1>4. Size(k1, fields[1]) \in Nat /\ Size(k2, fields[2]) \in Nat
  BY KindsAre, FieldSize
<1>5. /\ Encode(LoginWrites, op, fields) \in Seq(Bytes)
      /\ Len(Encode(LoginWrites, op, fields)) = 2 + Len(w)
  <2>1. IsEncoded(LoginWrites, op, fields, Bytes)
    BY <1>3, KindsAre, EncodeSize
  <2> QED  BY <2>1 DEF IsEncoded
<1> HIDE DEF w, kinds
<1> QED  BY <1>3, <1>4, <1>5 DEF EncodeLogin

\* The same of the pair of fields the callers build.
LEMMA LoginSizeOf ==
  ASSUME NEW op \in MessageOpcodes, NEW k1 \in Kinds, NEW k2 \in Kinds,
         PairOf(LoginWrites[op], k1, k2), NEW x, NEW y,
         IsField(k1, x, Bytes), IsField(k2, y, Bytes)
  PROVE  /\ EncodeLogin(op, <<x, y>>) \in Seq(Bytes)
         /\ Len(EncodeLogin(op, <<x, y>>)) = 2 + Size(k1, x) + Size(k2, y)
<1> DEFINE pair == <<x, y>>
<1>1. pair[1] = x /\ pair[2] = y
  OBVIOUS
<1> HIDE DEF pair
<1>2. IsField(k1, pair[1], Bytes) /\ IsField(k2, pair[2], Bytes)
  BY <1>1
<1>3. /\ EncodeLogin(op, pair) \in Seq(Bytes)
      /\ Len(EncodeLogin(op, pair)) = 2 + Size(k1, pair[1]) + Size(k2, pair[2])
  BY <1>2, LoginSize
<1> QED  BY <1>1, <1>3 DEF pair

LEMMA LoginSizes ==
  ASSUME NEW x \in Seq(Bytes), NEW y \in Seq(Bytes)
  PROVE  /\ EncodeLogin(ClientHello, <<x, y>>) \in Seq(Bytes)
         /\ Len(EncodeLogin(ClientHello, <<x, y>>)) = 6 + Len(x) + Len(y)
         /\ EncodeLogin(ServerChallenge, <<x, y>>) \in Seq(Bytes)
         /\ Len(EncodeLogin(ServerChallenge, <<x, y>>)) = 8 + Len(x) + Len(y)
         /\ EncodeLogin(ClientProof, <<x, y>>) \in Seq(Bytes)
         /\ Len(EncodeLogin(ClientProof, <<x, y>>)) = 6 + Len(x) + Len(y)
         /\ EncodeLogin(ServerProof, <<x, y>>) \in Seq(Bytes)
         /\ Len(EncodeLogin(ServerProof, <<x, y>>)) = 4 + Len(x) + Len(y)
<1>1. /\ Len(x) \in Nat /\ Len(y) \in Nat
      /\ Size("str16", x) = 2 + Len(x) /\ Size("str16", y) = 2 + Len(y)
      /\ Size("str32", x) = 4 + Len(x) /\ Size("str32", y) = 4 + Len(y)
      /\ Size("hash", x) = Len(x) /\ Size("hash", y) = Len(y)
  BY StrField
<1>2. /\ IsField("str16", x, Bytes) /\ IsField("str16", y, Bytes)
      /\ IsField("str32", x, Bytes) /\ IsField("str32", y, Bytes)
      /\ IsField("hash", x, Bytes) /\ IsField("hash", y, Bytes)
  BY StrField
<1>3. EncodeLogin(ClientHello, <<x, y>>) \in Seq(Bytes)
      /\ Len(EncodeLogin(ClientHello, <<x, y>>)) = 6 + Len(x) + Len(y)
  <2>1. EncodeLogin(ClientHello, <<x, y>>) \in Seq(Bytes)
        /\ Len(EncodeLogin(ClientHello, <<x, y>>)) = 2 + Size("str16", x) + Size("str16", y)
    <3>1. ClientHello \in MessageOpcodes /\ PairOf(LoginWrites[ClientHello], "str16", "str16")
      BY LoginWritesAre
    <3>2. "str16" \in Kinds /\ "str16" \in Kinds
      BY KindsAre
    <3>3. IsField("str16", x, Bytes) /\ IsField("str16", y, Bytes)
      BY <1>2
    <3> HIDE DEF ClientHello
    <3> QED  BY <3>1, <3>2, <3>3, LoginSizeOf
  <2> QED  BY <1>1, <2>1
<1>4. EncodeLogin(ServerChallenge, <<x, y>>) \in Seq(Bytes)
      /\ Len(EncodeLogin(ServerChallenge, <<x, y>>)) = 8 + Len(x) + Len(y)
  <2>1. EncodeLogin(ServerChallenge, <<x, y>>) \in Seq(Bytes)
        /\ Len(EncodeLogin(ServerChallenge, <<x, y>>)) = 2 + Size("str16", x) + Size("str32", y)
    <3>1. ServerChallenge \in MessageOpcodes /\ PairOf(LoginWrites[ServerChallenge], "str16", "str32")
      BY LoginWritesAre
    <3>2. "str16" \in Kinds /\ "str32" \in Kinds
      BY KindsAre
    <3>3. IsField("str16", x, Bytes) /\ IsField("str32", y, Bytes)
      BY <1>2
    <3> HIDE DEF ServerChallenge
    <3> QED  BY <3>1, <3>2, <3>3, LoginSizeOf
  <2> QED  BY <1>1, <2>1
<1>5. EncodeLogin(ClientProof, <<x, y>>) \in Seq(Bytes)
      /\ Len(EncodeLogin(ClientProof, <<x, y>>)) = 6 + Len(x) + Len(y)
  <2>1. EncodeLogin(ClientProof, <<x, y>>) \in Seq(Bytes)
        /\ Len(EncodeLogin(ClientProof, <<x, y>>)) = 2 + Size("str32", x) + Size("hash", y)
    <3>1. ClientProof \in MessageOpcodes /\ PairOf(LoginWrites[ClientProof], "str32", "hash")
      BY LoginWritesAre
    <3>2. "str32" \in Kinds /\ "hash" \in Kinds
      BY KindsAre
    <3>3. IsField("str32", x, Bytes) /\ IsField("hash", y, Bytes)
      BY <1>2
    <3> HIDE DEF ClientProof
    <3> QED  BY <3>1, <3>2, <3>3, LoginSizeOf
  <2>2. Size("str32", x) = 4 + Len(x) /\ Len(x) \in Nat
    BY <1>1
  <2>3. Size("hash", y) = Len(y) /\ Len(y) \in Nat
    BY <1>1
  <2>4. 2 + (4 + Len(x)) + Len(y) = 6 + Len(x) + Len(y)
    BY <1>1
  <2> QED  BY <2>1, <2>2, <2>3, <2>4, Zenon
<1>6. EncodeLogin(ServerProof, <<x, y>>) \in Seq(Bytes)
      /\ Len(EncodeLogin(ServerProof, <<x, y>>)) = 4 + Len(x) + Len(y)
  <2>1. EncodeLogin(ServerProof, <<x, y>>) \in Seq(Bytes)
        /\ Len(EncodeLogin(ServerProof, <<x, y>>)) = 2 + Size("hash", x) + Size("str16", y)
    <3>1. ServerProof \in MessageOpcodes /\ PairOf(LoginWrites[ServerProof], "hash", "str16")
      BY LoginWritesAre
    <3>2. "hash" \in Kinds /\ "str16" \in Kinds
      BY KindsAre
    <3>3. IsField("hash", x, Bytes) /\ IsField("str16", y, Bytes)
      BY <1>2
    <3> HIDE DEF ServerProof
    <3> QED  BY <3>1, <3>2, <3>3, LoginSizeOf
  <2>2. Size("hash", x) = Len(x) /\ Len(x) \in Nat
    BY <1>1
  <2>3. Size("str16", y) = 2 + Len(y) /\ Len(y) \in Nat
    BY <1>1
  <2> QED  BY <2>1, <2>2, <2>3
<1> QED  BY <1>3, <1>4, <1>5, <1>6
=============================================================================
