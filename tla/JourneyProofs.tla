--------------------------- MODULE JourneyProofs ---------------------------
(***************************************************************************)
(* A player's way, for every size of a byte, every server, name, key,      *)
(* proof and packet that the assumptions of Journey allow: wherever a      *)
(* connection is cut and whenever the registry changes, what one side      *)
(* makes of what it reads is what the other side meant.  Three parts: each *)
(* message on its way through an encoder, a frame with a limit and a       *)
(* decoder; the inductive invariant, which says of each stage of the way   *)
(* what is on the two streams; one lemma for each action.                  *)
(***************************************************************************)
EXTENDS Journey, CodecsProofs, FiniteSetTheorems

(* A message of Login that can be sent, and arrives as it was sent where   *)
(* it is not too long.                                                     *)
Travels(op, fields, limit) ==
  /\ EncodeLogin(op, fields) \in Payloads
  /\ Len(EncodeLogin(op, fields)) <= limit =>
       DecodeLogin(EncodeLogin(op, fields)) = Just([op |-> op, fields |-> fields])

PairFits(op, k1, k2, x, y) ==
  PairOf(LoginWrites[op], k1, k2) /\ FieldFits(k1, x, Bytes) /\ FieldFits(k2, y, Bytes)

(* A message of Login with two fields is decoded as it was encoded where   *)
(* each field fits its length prefix.                                      *)
LEMMA PairArrives ==
  ASSUME NEW op \in DOMAIN LoginWrites, NEW k1 \in Kinds, NEW k2 \in Kinds,
         NEW x \in Seq(Bytes), NEW y \in Seq(Bytes), PairFits(op, k1, k2, x, y)
  PROVE  DecodeLogin(EncodeLogin(op, <<x, y>>)) = Just([op |-> op, fields |-> <<x, y>>])
<1> DEFINE fields == <<x, y>>
           kinds == LoginWrites[op]
<1>1. fields \in Seq(Seq(Bytes)) /\ Len(fields) = 2 /\ fields[1] = x /\ fields[2] = y
  OBVIOUS
<1> HIDE DEF fields
<1>2. Len(kinds) = 2 /\ kinds[1] = k1 /\ kinds[2] = k2
      /\ FieldFits(k1, x, Bytes) /\ FieldFits(k2, y, Bytes)
  BY DEF PairFits, PairOf
<1> HIDE DEF kinds
<1>3. FieldsFit(kinds, fields, Bytes)
  <2>1. \A i \in 1..2 : i = 1 \/ i = 2
    OBVIOUS
  <2> QED  BY <1>1, <1>2, <2>1 DEF FieldsFit
<1>4. DecodeLogin(EncodeLogin(op, fields)) = Just([op |-> op, fields |-> fields])
  <2>1. Bytes \subseteq Bytes /\ FieldsFit(LoginWrites[op], fields, Bytes)
    BY <1>3 DEF kinds
  <2> QED  BY <1>1, <2>1, LoginMessagesArrive
<1> QED  BY <1>4 DEF fields

(* The limits that the assumptions set. *)
LEMMA Limits ==
  /\ LoginFrame \in Nat /\ InternalFrame \in Nat /\ WorldFrame \in Nat
  /\ AnswerFrame \in Nat
  /\ LoginFrame < B2 /\ InternalFrame < B2 /\ WorldFrame < B2 /\ B2 < AnswerFrame
  BY JourneyAssumption, Powers DEF B2

(* What is written as a string is a sequence of bytes that a four-byte     *)
(* length prefix can count, whole lists of them included; what is drawn    *)
(* also fits a two-byte prefix.                                            *)
LEMMA StringIs ==
  ASSUME NEW s, IsString(s)
  PROVE  s \in Seq(Bytes) /\ Len(s) \in Nat /\ Len(s) < B3 /\ Len(s) < B4 /\ 10 * Len(s) < B4
<1>1. s \in Seq(Bytes) /\ Len(s) < B3
  BY DEF IsString, Bytes, B3
<1>2. Len(s) \in Nat
  BY <1>1, LenProperties
<1> QED  BY <1>1, <1>2, Powers

LEMMA DrawnIs ==
  ASSUME NEW s, IsDrawn(s)
  PROVE  IsString(s) /\ Len(s) < B2
  BY DEF IsDrawn, B2

(* The four messages of the login exchange: whatever the ticket, the name, *)
(* the salt, the keys and the proofs are, the receiver decodes what the    *)
(* sender encoded, or the frame is over the limit and it decodes nothing   *)
(* of it.                                                                  *)
LEMMA HelloTravels ==
  ASSUME NEW name, IsString(name)
  PROVE  Travels(ClientHello, <<Ticket, name>>, LoginFrame)
<1> DEFINE hello == EncodeLogin(ClientHello, <<Ticket, name>>)
<1>1. IsDrawn(Ticket)
  BY JourneyTypes
<1>2. Ticket \in Seq(Bytes) /\ Len(Ticket) \in Nat /\ Len(Ticket) < B2
  BY <1>1, DrawnIs, StringIs
<1>3. name \in Seq(Bytes) /\ Len(name) \in Nat /\ 10 * Len(name) < B4
  BY StringIs
<1>4. hello \in Seq(Bytes) /\ Len(hello) = 6 + Len(Ticket) + Len(name)
  BY <1>2, <1>3, LoginSizes
<1> HIDE DEF hello
<1>5. hello \in Payloads
  <2>1. Len(hello) < B4
    BY <1>2, <1>3, <1>4, Powers
  <2> QED  BY <1>4, <2>1 DEF Payloads
<1>6. ASSUME Len(hello) <= LoginFrame
      PROVE  DecodeLogin(hello) = Just([op |-> ClientHello, fields |-> <<Ticket, name>>])
  <2>1. Len(name) < B2
    BY <1>2, <1>3, <1>4, <1>6, Limits, Powers
  <2>2. FieldFits("str16", Ticket, Bytes)
    BY <1>2, StrField
  <2>3. FieldFits("str16", name, Bytes)
    BY <1>3, <2>1, StrField
  <2>4. PairOf(LoginWrites[ClientHello], "str16", "str16") /\ ClientHello \in DOMAIN LoginWrites
    BY LoginWritesAre
  <2>5. PairFits(ClientHello, "str16", "str16", Ticket, name)
    BY <2>2, <2>3, <2>4 DEF PairFits
  <2>6. "str16" \in Kinds
    BY KindsAre
  <2> HIDE DEF ClientHello
  <2> QED  BY <1>2, <1>3, <2>4, <2>5, <2>6, PairArrives DEF hello
<1> QED  BY <1>5, <1>6 DEF Travels, hello

LEMMA ChallengeTravels ==
  ASSUME NEW salt, IsDrawn(salt), NEW key, IsString(key)
  PROVE  Travels(ServerChallenge, <<salt, key>>, AnswerFrame)
<1> DEFINE msg == EncodeLogin(ServerChallenge, <<salt, key>>)
<1>1. salt \in Seq(Bytes) /\ Len(salt) \in Nat /\ Len(salt) < B2
  BY DrawnIs, StringIs
<1>2. key \in Seq(Bytes) /\ Len(key) \in Nat /\ Len(key) < B4 /\ 10 * Len(key) < B4
  BY StringIs
<1>3. msg \in Seq(Bytes) /\ Len(msg) = 8 + Len(salt) + Len(key)
  BY <1>1, <1>2, LoginSizes
<1> HIDE DEF msg
<1>4. msg \in Payloads
  <2>1. Len(msg) < B4
    BY <1>1, <1>2, <1>3, Powers
  <2> QED  BY <1>3, <2>1 DEF Payloads
<1>5. FieldFits("str16", salt, Bytes) /\ FieldFits("str32", key, Bytes)
  BY <1>1, <1>2, StrField
<1>6. PairOf(LoginWrites[ServerChallenge], "str16", "str32") /\ ServerChallenge \in DOMAIN LoginWrites
  BY LoginWritesAre
<1>7. PairFits(ServerChallenge, "str16", "str32", salt, key) /\ "str16" \in Kinds /\ "str32" \in Kinds
  BY <1>5, <1>6, KindsAre DEF PairFits
<1> HIDE DEF ServerChallenge
<1>8. DecodeLogin(msg) = Just([op |-> ServerChallenge, fields |-> <<salt, key>>])
  BY <1>1, <1>2, <1>6, <1>7, PairArrives DEF msg
<1> QED  BY <1>4, <1>8 DEF Travels, msg


LEMMA ProofTravels ==
  ASSUME NEW key, IsString(key), NEW hash, IsString(hash), Len(hash) = HashSize
  PROVE  Travels(ClientProof, <<key, hash>>, AnswerFrame)
<1> DEFINE msg == EncodeLogin(ClientProof, <<key, hash>>)
<1>1. key \in Seq(Bytes) /\ Len(key) \in Nat /\ Len(key) < B4 /\ 10 * Len(key) < B4
  BY StringIs
<1>2. hash \in Seq(Bytes) /\ Len(hash) \in Nat /\ Len(hash) = HashSize /\ 10 * Len(hash) < B4
  BY StringIs
<1>3. msg \in Seq(Bytes) /\ Len(msg) = 6 + Len(key) + Len(hash)
  BY <1>1, <1>2, LoginSizes
<1> HIDE DEF msg
<1>4. msg \in Payloads
  <2>1. Len(msg) < B4
    BY <1>1, <1>2, <1>3, Powers
  <2> QED  BY <1>3, <2>1 DEF Payloads
<1>5. FieldFits("str32", key, Bytes) /\ FieldFits("hash", hash, Bytes)
  BY <1>1, <1>2, StrField
<1>6. PairOf(LoginWrites[ClientProof], "str32", "hash") /\ ClientProof \in DOMAIN LoginWrites
  BY LoginWritesAre
<1>7. PairFits(ClientProof, "str32", "hash", key, hash) /\ "str32" \in Kinds /\ "hash" \in Kinds
  BY <1>5, <1>6, KindsAre DEF PairFits
<1> HIDE DEF ClientProof
<1>8. DecodeLogin(msg) = Just([op |-> ClientProof, fields |-> <<key, hash>>])
  BY <1>1, <1>2, <1>6, <1>7, PairArrives DEF msg
<1> QED  BY <1>4, <1>8 DEF Travels, msg


LEMMA AnswerTravels ==
  ASSUME NEW hash, IsString(hash), Len(hash) = HashSize, NEW token, IsDrawn(token)
  PROVE  Travels(ServerProof, <<hash, token>>, AnswerFrame)
<1> DEFINE msg == EncodeLogin(ServerProof, <<hash, token>>)
<1>1. hash \in Seq(Bytes) /\ Len(hash) \in Nat /\ Len(hash) = HashSize /\ 10 * Len(hash) < B4
  BY StringIs
<1>2. token \in Seq(Bytes) /\ Len(token) \in Nat /\ Len(token) < B2
  BY DrawnIs, StringIs
<1>3. msg \in Seq(Bytes) /\ Len(msg) = 4 + Len(hash) + Len(token)
  BY <1>1, <1>2, LoginSizes
<1> HIDE DEF msg
<1>4. msg \in Payloads
  <2>1. Len(msg) < B4
    BY <1>1, <1>2, <1>3, Powers
  <2> QED  BY <1>3, <2>1 DEF Payloads
<1>5. FieldFits("hash", hash, Bytes) /\ FieldFits("str16", token, Bytes)
  BY <1>1, <1>2, StrField
<1>6. PairOf(LoginWrites[ServerProof], "hash", "str16") /\ ServerProof \in DOMAIN LoginWrites
  BY LoginWritesAre
<1>7. PairFits(ServerProof, "hash", "str16", hash, token) /\ "hash" \in Kinds /\ "str16" \in Kinds
  BY <1>5, <1>6, KindsAre DEF PairFits
<1> HIDE DEF ServerProof
<1>8. DecodeLogin(msg) = Just([op |-> ServerProof, fields |-> <<hash, token>>])
  BY <1>1, <1>2, <1>6, <1>7, PairArrives DEF msg
<1> QED  BY <1>4, <1>8 DEF Travels, msg


(* A port and an opcode fit in two bytes.                                  *)
LEMMA NumberField ==
  ASSUME NEW v
  PROVE  /\ IsU16(v) => v \in Nat /\ v < B2 /\ FieldFits("u16", v, Bytes)
         /\ IsU32(v) => v \in Nat /\ v < B4 /\ FieldFits("u32", v, Bytes)
<1>1. ASSUME IsU16(v) PROVE v \in Nat /\ v < B2 /\ FieldFits("u16", v, Bytes)
  <2>1. v \in Nat /\ v < B2
    <3>1. v \in 0..B2 - 1
      BY <1>1 DEF IsU16, B2
    <3> QED  BY <3>1, Powers
  <2> QED  BY <2>1, NumField
<1>2. ASSUME IsU32(v) PROVE v \in Nat /\ v < B4 /\ FieldFits("u32", v, Bytes)
  <2>1. v \in Nat /\ v < B4
    <3>1. v \in 0..B4 - 1
      BY <1>2 DEF IsU32, B4
    <3> QED  BY <3>1, Powers
  <2> QED  BY <2>1, NumField
<1> QED  BY <1>1, <1>2

(* What Master may say: that there is no Login, or the address of one.     *)
MasterSays(msg) ==
  /\ msg \in Payloads
  /\ \/ IsNoLogin(msg)
     \/ \E s \in Logins : \E i \in Infos[s] :
          DecodeRedirect(msg) = Just(<<Ticket, i[1], i[2]>>)

(* Master's two answers, no server and a redirect: the player reads the    *)
(* ticket, the host and the port of one announced login server, or that    *)
(* there is none.                                                          *)
LEMMA NoLoginSaid ==
  MasterSays(EncodeNoLogin)
<1> DEFINE v == Byte * Byte - 1
           msg == Number(v, 2)
<1>1. v \in Nat /\ v < B2 /\ 2 \in Nat
  BY Powers DEF B2
<1>2. Fits(v, 2)
  BY <1>1, Fits2
<1> HIDE DEF v
<1>3. msg \in Seq(Bytes) /\ Len(msg) = 2
  BY <1>1, NumberIs
<1>4. msg \in Payloads
  <2> HIDE DEF msg
  <2>1. Len(msg) < B4
    BY <1>3, Powers
  <2> QED  BY <1>3, <2>1 DEF Payloads
<1>5. ReadNumber(msg, 2) = Just([read |-> v, rest |-> <<>>])
  <2>1. Bytes \subseteq Bytes /\ <<>> \in Seq(Bytes)
    OBVIOUS
  <2>2. ReadNumber(Number(v, 2) \o <<>>, 2) = Just([read |-> v, rest |-> <<>>])
    BY <1>1, <1>2, <2>1, NumberRead
  <2>3. msg \o <<>> = msg
    BY <1>3, ConcatEmptySeq
  <2> QED  BY <2>2, <2>3
<1> HIDE DEF msg
<1>6. ReadNumber(msg, 2) # Nothing /\ ReadNumber(msg, 2)[1].read = v
  BY <1>5, JustRead
<1>7. IsNoLogin(msg)
  BY <1>6 DEF IsNoLogin, NoLogin, v
<1> QED  BY <1>4, <1>7 DEF MasterSays, EncodeNoLogin, NoLogin, msg, v

TripleOf(kinds, k1, k2, k3) ==
  /\ kinds \in Seq(Kinds) /\ Len(kinds) = 3
  /\ kinds[1] = k1 /\ kinds[2] = k2 /\ kinds[3] = k3

LEMMA RedirectSaid ==
  ASSUME NEW s \in Logins, NEW i \in Infos[s], Len(i[1]) < B2
  PROVE  MasterSays(EncodeRedirect(Ticket, i[1], i[2]))
<1> DEFINE host == i[1]
           port == i[2]
           msg == EncodeRedirect(Ticket, host, port)
           kinds == <<"str16", "str16", "u16">>
           fields == <<Ticket, host, port>>
<1>1. IsString(host) /\ IsU16(port) /\ IsDrawn(Ticket)
  BY JourneyTypes
<1> HIDE DEF host, port
<1>2. host \in Seq(Bytes) /\ Len(host) \in Nat /\ Len(host) < B2
  BY <1>1, StringIs DEF host
<1>3. Ticket \in Seq(Bytes) /\ Len(Ticket) \in Nat /\ Len(Ticket) < B2
  BY <1>1, DrawnIs, StringIs
<1>4. port \in Nat /\ FieldFits("u16", port, Bytes) /\ Size("u16", port) = 2
      /\ IsField("u16", port, Bytes)
  BY <1>1, NumberField, NumField
<1>5. FieldFits("str16", Ticket, Bytes) /\ FieldFits("str16", host, Bytes)
      /\ Size("str16", Ticket) = 2 + Len(Ticket) /\ Size("str16", host) = 2 + Len(host)
      /\ IsField("str16", Ticket, Bytes) /\ IsField("str16", host, Bytes)
  BY <1>2, <1>3, StrField
<1>6. msg \in Seq(Bytes) /\ Len(msg) = 6 + Len(Ticket) + Len(host)
  <2>1. /\ Write(kinds, fields) \in Seq(Bytes)
        /\ Len(Write(kinds, fields))
             = Size("str16", Ticket) + Size("str16", host) + Size("u16", port)
    BY <1>4, <1>5, KindsAre, Sizes3
  <2>2. (2 + Len(Ticket)) + (2 + Len(host)) + 2 = 6 + Len(Ticket) + Len(host)
    BY <1>2, <1>3
  <2>3. msg = Write(kinds, fields)
    BY DEF EncodeRedirect
  <2> HIDE DEF msg, kinds, fields
  <2> QED  BY <1>4, <1>5, <2>1, <2>2, <2>3, Zenon
<1>7. msg \in Payloads
  <2> HIDE DEF msg
  <2> QED  BY <1>2, <1>3, <1>6, Powers DEF Payloads
<1>8. FieldsFit(kinds, fields, Bytes)
  <2>1. /\ Len(kinds) = 3 /\ Len(fields) = 3
        /\ kinds[1] = "str16" /\ kinds[2] = "str16" /\ kinds[3] = "u16"
        /\ fields[1] = Ticket /\ fields[2] = host /\ fields[3] = port
    OBVIOUS
  <2> HIDE DEF kinds, fields
  <2>2. \A j \in 1..3 : j = 1 \/ j = 2 \/ j = 3
    OBVIOUS
  <2>3. \A j \in 1..3 : kinds[j] \in Kinds /\ FieldFits(kinds[j], fields[j], Bytes)
    BY <1>4, <1>5, <2>1, <2>2, KindsAre
  <2> QED  BY <2>1, <2>3 DEF FieldsFit
<1>9. DecodeRedirect(msg) = Just(<<Ticket, host, port>>)
  BY <1>8, KindsAre, RedirectArrives
<1> HIDE DEF msg
<1>10. \E t \in Logins : \E j \in Infos[t] : DecodeRedirect(msg) = Just(<<Ticket, j[1], j[2]>>)
  BY <1>9 DEF host, port
<1>11. MasterSays(msg)
  BY <1>7, <1>10 DEF MasterSays
<1> QED  BY <1>11 DEF msg, host, port

(* What a server tells of itself, and what is read of it.                  *)
LEMMA LoginInfoIs ==
  ASSUME NEW s \in Logins, NEW info \in Infos[s]
  PROVE  /\ EncodeLoginInfo(info) \in Seq(Bytes)
         /\ Len(info[1]) \in Nat
         /\ Len(EncodeLoginInfo(info)) = 4 + Len(info[1])
         /\ 4 + Len(info[1]) < B4
         /\ Len(info[1]) < B2 => DecodeLoginInfo(EncodeLoginInfo(info)) = Just(info)
<1> DEFINE host == info[1]
           port == info[2]
           kinds == <<"str16", "u16">>
           fields == <<host, port>>
           v == Write(kinds, fields)
<1>1. info = fields /\ IsString(host) /\ IsU16(port)
  BY JourneyTypes
<1> HIDE DEF host, port
<1>2. host \in Seq(Bytes) /\ Len(host) \in Nat /\ 10 * Len(host) < B4
  BY <1>1, StringIs
<1>3. port \in Nat /\ FieldFits("u16", port, Bytes) /\ Size("u16", port) = 2
      /\ IsField("u16", port, Bytes)
  BY <1>1, NumberField, NumField
<1>4. Size("str16", host) = 2 + Len(host) /\ IsField("str16", host, Bytes)
      /\ (Len(host) < B2 => FieldFits("str16", host, Bytes))
  BY <1>2, StrField
<1>5. v \in Seq(Bytes) /\ Len(v) = 4 + Len(host)
  <2>1. v \in Seq(Bytes) /\ Len(v) = Size("str16", host) + Size("u16", port)
    BY <1>3, <1>4, KindsAre, Sizes2
  <2>2. (2 + Len(host)) + 2 = 4 + Len(host)
    BY <1>2
  <2> HIDE DEF v
  <2> QED  BY <1>3, <1>4, <2>1, <2>2, Zenon
<1>6. 4 + Len(host) < B4
  BY <1>2, Powers
<1>7. ASSUME Len(host) < B2 PROVE DecodeLoginInfo(EncodeLoginInfo(fields)) = Just(fields)
  <2> DEFINE Items == {host, port}
  <2>1. /\ Len(kinds) = 2 /\ Len(fields) = 2 /\ fields \in Seq(Items)
        /\ kinds[1] = "str16" /\ kinds[2] = "u16"
        /\ fields[1] = host /\ fields[2] = port
    OBVIOUS
  <2>2. FieldsFit(kinds, fields, Bytes)
    <3> HIDE DEF kinds, fields
    <3>1. \A j \in 1..2 : j = 1 \/ j = 2
      OBVIOUS
    <3>2. \A j \in 1..2 : kinds[j] \in Kinds /\ FieldFits(kinds[j], fields[j], Bytes)
      BY <1>3, <1>4, <1>7, <2>1, <3>1, KindsAre
    <3> QED  BY <2>1, <3>2 DEF FieldsFit
  <2>3. FieldsFit(<<"str16", "u16">>, fields, Bytes)
    BY <2>2
  <2> HIDE DEF fields, Items
  <2> QED  BY <2>1, <2>3, KindsAre, InfosArrive
<1>8. v = EncodeLoginInfo(info)
  BY <1>1 DEF EncodeLoginInfo
<1> HIDE DEF v, fields
<1> QED  BY <1>1, <1>2, <1>5, <1>6, <1>7, <1>8 DEF host

LEMMA WorldInfoIs ==
  ASSUME NEW s \in Worlds, NEW info \in Infos[s]
  PROVE  /\ EncodeWorldInfo(info) \in Seq(Bytes)
         /\ Len(info[1]) \in Nat /\ Len(info[3]) \in Nat
         /\ Len(EncodeWorldInfo(info)) = 10 + Len(info[1]) + Len(info[3])
         /\ 10 + Len(info[1]) + Len(info[3]) < B4
         /\ Len(info[1]) < B2 /\ Len(info[3]) < B2
              => DecodeWorldInfo(EncodeWorldInfo(info)) = Just(info)
<1> DEFINE host == info[1]
           port == info[2]
           name == info[3]
           population == info[4]
           kinds == <<"str16", "u16", "str16", "u32">>
           fields == <<host, port, name, population>>
           v == Write(kinds, fields)
<1>1. info = fields /\ IsString(host) /\ IsU16(port) /\ IsString(name) /\ IsU32(population)
  BY JourneyTypes
<1> HIDE DEF host, port, name, population
<1>2. host \in Seq(Bytes) /\ Len(host) \in Nat /\ 10 * Len(host) < B4
      /\ name \in Seq(Bytes) /\ Len(name) \in Nat /\ 10 * Len(name) < B4
      /\ Len(host) < B3 /\ Len(name) < B3
  BY <1>1, StringIs
<1>3. /\ port \in Nat /\ FieldFits("u16", port, Bytes) /\ Size("u16", port) = 2
      /\ IsField("u16", port, Bytes)
      /\ population \in Nat /\ FieldFits("u32", population, Bytes)
      /\ Size("u32", population) = 4 /\ IsField("u32", population, Bytes)
  BY <1>1, NumberField, NumField
<1>4. /\ Size("str16", host) = 2 + Len(host) /\ IsField("str16", host, Bytes)
      /\ (Len(host) < B2 => FieldFits("str16", host, Bytes))
      /\ Size("str16", name) = 2 + Len(name) /\ IsField("str16", name, Bytes)
      /\ (Len(name) < B2 => FieldFits("str16", name, Bytes))
  BY <1>2, StrField
<1>5. v \in Seq(Bytes) /\ Len(v) = 10 + Len(host) + Len(name)
  <2>1. /\ v \in Seq(Bytes)
        /\ Len(v) = Size("str16", host) + Size("u16", port)
                      + Size("str16", name) + Size("u32", population)
    BY <1>3, <1>4, KindsAre, Sizes4
  <2>2. (2 + Len(host)) + 2 + (2 + Len(name)) + 4 = 10 + Len(host) + Len(name)
    BY <1>2
  <2> HIDE DEF v
  <2> QED  BY <1>3, <1>4, <2>1, <2>2, Zenon
<1>6. 10 + Len(host) + Len(name) < B4
  BY <1>2, Powers
<1>7. ASSUME Len(host) < B2, Len(name) < B2
      PROVE  DecodeWorldInfo(EncodeWorldInfo(fields)) = Just(fields)
  <2> DEFINE Items == {host, port, name, population}
  <2>1. /\ Len(kinds) = 4 /\ Len(fields) = 4 /\ fields \in Seq(Items)
        /\ kinds[1] = "str16" /\ kinds[2] = "u16" /\ kinds[3] = "str16" /\ kinds[4] = "u32"
        /\ fields[1] = host /\ fields[2] = port /\ fields[3] = name
        /\ fields[4] = population
    OBVIOUS
  <2>2. FieldsFit(kinds, fields, Bytes)
    <3> HIDE DEF kinds, fields
    <3>1. \A j \in 1..4 : j = 1 \/ j = 2 \/ j = 3 \/ j = 4
      OBVIOUS
    <3>2. \A j \in 1..4 : kinds[j] \in Kinds /\ FieldFits(kinds[j], fields[j], Bytes)
      BY <1>3, <1>4, <1>7, <2>1, <3>1, KindsAre
    <3> QED  BY <2>1, <3>2 DEF FieldsFit
  <2>3. FieldsFit(<<"str16", "u16", "str16", "u32">>, fields, Bytes)
    BY <2>2
  <2> HIDE DEF fields, Items
  <2> QED  BY <2>1, <2>3, KindsAre, InfosArrive
<1>8. v = EncodeWorldInfo(info)
  BY <1>1 DEF EncodeWorldInfo
<1> HIDE DEF v, fields
<1> QED  BY <1>1, <1>2, <1>5, <1>6, <1>7, <1>8 DEF host, name

(* A signed message at the other end of a store connection.                *)
LEMMA SignedArrives ==
  ASSUME NEW body \in Seq(Bytes), Len(body) >= 2, Len(body) + 1 < B4, NEW limit \in Nat
  PROVE  Receive(Frame(Sign(body)), limit)
           = IF Len(body) + 1 > limit THEN Nothing
             ELSE Just([read |-> Sign(body), rest |-> <<>>])
<1> DEFINE Atoms == Bytes \cup {[hmac |-> body]}
           msg == Sign(body)
<1>1. Bytes \subseteq Atoms /\ [hmac |-> body] \in Atoms
  OBVIOUS
<1> DEFINE m == [hmac |-> body]
<1> HIDE DEF Atoms, m
<1>2. body \in Seq(Atoms) /\ m \in Atoms /\ Len(body) \in Nat
  BY <1>1, SeqMonotonic, LenProperties DEF m
<1>3. msg = Append(body, m)
  BY DEF Sign, m
<1>4. msg \in Seq(Atoms) /\ Len(msg) = Len(body) + 1
  <2> HIDE DEF msg
  <2> QED  BY <1>2, <1>3, AppendProperties
<1> HIDE DEF msg
<1>5. Fits(Len(msg), 4) /\ <<>> \in Seq(Atoms)
  BY <1>2, <1>4, Fits4
<1>6. Receive(Frame(msg) \o <<>>, limit)
        = IF Len(msg) = 0 \/ Len(msg) > limit THEN Nothing
          ELSE Just([read |-> msg, rest |-> <<>>])
  BY <1>1, <1>4, <1>5, FrameArrives
<1>7. Frame(msg) \o <<>> = Frame(msg)
  <2> DEFINE h == Reverse(Number(Len(msg), 4))
             t == Cat(h, msg)
  <2>1. h \in Seq(Atoms)
    BY <1>1, <1>2, <1>4, <1>5, HeaderRead
  <2> HIDE DEF h
  <2>2. t \in Seq(Atoms)
    BY <1>4, <2>1, CatIs
  <2>3. Frame(msg) = t
    BY Zenon DEF Frame, Cat, h
  <2> HIDE DEF t
  <2> QED  BY <2>2, <2>3, ConcatEmptySeq
<1> QED  BY <1>2, <1>4, <1>6, <1>7 DEF msg

(* A call to the store as the store has it, and its answer as the caller   *)
(* has it.                                                                 *)
LEMMA CallArrives ==
  ASSUME NEW body \in Seq(Bytes), Len(body) >= 2, Len(body) + 1 < B4
  PROVE  /\ AtMaster(Sign(body))
              = IF Len(body) + 1 > InternalFrame THEN Nothing
                ELSE DecodeStore(Sign(body))
         /\ AtCaller(Sign(body))
              = IF Len(body) + 1 > AnswerFrame THEN Nothing
                ELSE DecodeStore(Sign(body))
<1> DEFINE msg == Sign(body)
           o(limit) == Receive(Frame(msg), limit)
<1>1. ASSUME NEW limit \in Nat
      PROVE  IF Len(body) + 1 > limit THEN o(limit) = Nothing
             ELSE o(limit) # Nothing /\ o(limit)[1].read = msg
  <2>1. o(limit) = IF Len(body) + 1 > limit THEN Nothing
                   ELSE Just([read |-> msg, rest |-> <<>>])
    BY SignedArrives
  <2> HIDE DEF o, msg
  <2> QED  BY <2>1, JustRead
<1>2. AtMaster(msg) = IF o(InternalFrame) = Nothing THEN Nothing
                      ELSE DecodeStore(o(InternalFrame)[1].read)
  BY DEF AtMaster, Then
<1>3. AtCaller(msg) = IF o(AnswerFrame) = Nothing THEN Nothing
                      ELSE DecodeStore(o(AnswerFrame)[1].read)
  BY DEF AtCaller, Then
<1> HIDE DEF o, msg
<1>4. AtMaster(msg) = IF Len(body) + 1 > InternalFrame THEN Nothing ELSE DecodeStore(msg)
  BY <1>1, <1>2, Limits
<1>5. AtCaller(msg) = IF Len(body) + 1 > AnswerFrame THEN Nothing ELSE DecodeStore(msg)
  BY <1>1, <1>3, Limits
<1> QED  BY <1>4, <1>5 DEF msg

(* What the store's messages are made of.                                  *)
LEMMA StoreWritesAre ==
  /\ TripleOf(StoreWrites[Put], "str16", "str32", "u32")
  /\ TripleOf(StoreWrites[Take], "str16", "u32", "u32")
  /\ StoreWrites[Value] = <<"str32">> /\ StoreWrites[NotFound] = <<>>
  /\ {Put, Take, Value, NotFound} \subseteq DOMAIN StoreWrites
  /\ {Put, Take, Value, NotFound} \subseteq MessageOpcodes
  /\ Put \notin {Get, Take, ListPrefix} /\ Take \in {Get, Take, ListPrefix}
  /\ Value \notin {Get, Take, ListPrefix} /\ NotFound \notin {Get, Take, ListPrefix}
  /\ NotFound # Value
<1>1. StoreWrites[Put] = <<"str16", "str32", "u32">>
      /\ StoreWrites[Take] = <<"str16", "u32", "u32">>
      /\ StoreWrites[Value] = <<"str32">> /\ StoreWrites[NotFound] = <<>>
  BY DEF StoreWrites, Put, Get, Take, ListPrefix, Ok, Value, NotFound
<1>2. TripleOf(<<"str16", "str32", "u32">>, "str16", "str32", "u32")
      /\ TripleOf(<<"str16", "u32", "u32">>, "str16", "u32", "u32")
  BY KindsAre DEF TripleOf
<1>3. {Put, Take, Value, NotFound} \subseteq DOMAIN StoreWrites
  BY DEF StoreWrites, Put, Get, Take, ListPrefix, Ok, Value, NotFound
<1>4. {Put, Take, Value, NotFound} \subseteq MessageOpcodes
  BY DEF MessageOpcodes, Put, Take, Value, NotFound
<1>5. /\ Put \notin {Get, Take, ListPrefix} /\ Take \in {Get, Take, ListPrefix}
      /\ Value \notin {Get, Take, ListPrefix} /\ NotFound \notin {Get, Take, ListPrefix}
      /\ NotFound # Value
  BY DEF Put, Get, Take, ListPrefix, Value, NotFound
<1> QED  BY <1>1, <1>2, <1>3, <1>4, <1>5, Zenon

(* What a message of the store is without its signature.                   *)
BodyOf(op, fields) == Encode(StoreWrites, op, fields)

TripleIs(op, k1, k2, k3, fields) ==
  /\ op \in MessageOpcodes /\ k1 \in Kinds /\ k2 \in Kinds /\ k3 \in Kinds
  /\ TripleOf(StoreWrites[op], k1, k2, k3)
  /\ IsField(k1, fields[1], Bytes) /\ IsField(k2, fields[2], Bytes)
  /\ IsField(k3, fields[3], Bytes)

(* The body of a store message with three fields, and that what fits is    *)
(* decoded.                                                                *)
LEMMA TripleBody ==
  ASSUME NEW op, NEW k1, NEW k2, NEW k3, NEW fields, TripleIs(op, k1, k2, k3, fields)
  PROVE  /\ BodyOf(op, fields) \in Seq(Bytes)
         /\ Len(BodyOf(op, fields))
              = 2 + (Size(k1, fields[1]) + Size(k2, fields[2]) + Size(k3, fields[3]))
<1> DEFINE kinds == StoreWrites[op]
           w == Write(kinds, fields)
<1>1. kinds \in Seq(Kinds) /\ Len(kinds) = 3
      /\ kinds[1] = k1 /\ kinds[2] = k2 /\ kinds[3] = k3
      /\ op \in MessageOpcodes /\ k1 \in Kinds /\ k2 \in Kinds /\ k3 \in Kinds
      /\ IsField(k1, fields[1], Bytes) /\ IsField(k2, fields[2], Bytes)
      /\ IsField(k3, fields[3], Bytes)
  BY DEF TripleIs, TripleOf
<1>2. \A i \in 1..Len(kinds) : IsField(kinds[i], fields[i], Bytes)
  <2>1. \A i \in 1..3 : i = 1 \/ i = 2 \/ i = 3
    OBVIOUS
  <2> QED  BY <1>1, <2>1
<1>3. w \in Seq(Bytes)
      /\ Len(w) = Size(k1, fields[1]) + Size(k2, fields[2]) + Size(k3, fields[3])
  <2> HIDE DEF kinds
  <2> QED  BY <1>1, <1>2, KindsAre, WriteSize
<1>4. /\ Encode(StoreWrites, op, fields) \in Seq(Bytes)
      /\ Len(Encode(StoreWrites, op, fields)) = 2 + Len(w)
  <2>1. Write(StoreWrites[op], fields) \in Seq(Bytes) /\ op \in MessageOpcodes
    BY <1>1, <1>3
  <2>2. IsEncoded(StoreWrites, op, fields, Bytes)
    BY <2>1, KindsAre, EncodeSize
  <2> QED  BY <2>2 DEF IsEncoded
<1> HIDE DEF w, kinds
<1> QED  BY <1>3, <1>4 DEF BodyOf

LEMMA TripleFits ==
  ASSUME NEW kinds, NEW k1, NEW k2, NEW k3, TripleOf(kinds, k1, k2, k3),
         NEW fields, Len(fields) = 3,
         k1 \in Kinds, k2 \in Kinds, k3 \in Kinds,
         FieldFits(k1, fields[1], Bytes), FieldFits(k2, fields[2], Bytes),
         FieldFits(k3, fields[3], Bytes)
  PROVE  FieldsFit(kinds, fields, Bytes)
<1>1. Len(kinds) = 3 /\ kinds[1] = k1 /\ kinds[2] = k2 /\ kinds[3] = k3
  BY DEF TripleOf
<1>2. \A j \in 1..3 : j = 1 \/ j = 2 \/ j = 3
  OBVIOUS
<1> QED  BY <1>1, <1>2 DEF FieldsFit

(* A put that gets through is decoded as it was made.                      *)
LEMMA PutArrives ==
  ASSUME NEW key \in Seq(Bytes), NEW value \in Seq(Bytes),
         13 + Len(key) + Len(value) < B4, NEW ttl \in Nat, ttl < B4,
         Stored(EncodeStore(Put, <<key, value, ttl>>))
  PROVE  /\ 13 + Len(key) + Len(value) <= InternalFrame
         /\ AtMaster(EncodeStore(Put, <<key, value, ttl>>))[1].fields[1] = key
         /\ AtMaster(EncodeStore(Put, <<key, value, ttl>>))[1].fields[2] = value
<1> DEFINE fields == <<key, value, ttl>>
           body == BodyOf(Put, fields)
           Items == Seq(Bytes) \cup Nat
<1>1. /\ fields[1] = key /\ fields[2] = value /\ fields[3] = ttl /\ Len(fields) = 3
      /\ fields \in Seq(Items)
  OBVIOUS
<1> HIDE DEF fields, Items
<1>2. /\ Len(key) \in Nat /\ Len(value) \in Nat
      /\ IsField("str16", key, Bytes) /\ Size("str16", key) = 2 + Len(key)
      /\ IsField("str32", value, Bytes) /\ Size("str32", value) = 4 + Len(value)
      /\ IsField("u32", ttl, Bytes) /\ Size("u32", ttl) = 4
  BY StrField, NumField
<1>3. body \in Seq(Bytes) /\ Len(body) = 12 + Len(key) + Len(value)
  <2>1. Put \in MessageOpcodes /\ TripleOf(StoreWrites[Put], "str16", "str32", "u32")
    BY StoreWritesAre
  <2>2. "str16" \in Kinds /\ "str32" \in Kinds /\ "u32" \in Kinds
    BY KindsAre
  <2>3. /\ IsField("str16", fields[1], Bytes) /\ IsField("str32", fields[2], Bytes)
        /\ IsField("u32", fields[3], Bytes)
    BY <1>1, <1>2
  <2>6. TripleIs(Put, "str16", "str32", "u32", fields)
    BY <2>1, <2>2, <2>3 DEF TripleIs
  <2> HIDE DEF Put
  <2>4. /\ BodyOf(Put, fields) \in Seq(Bytes)
        /\ Len(BodyOf(Put, fields))
             = 2 + (Size("str16", fields[1]) + Size("str32", fields[2])
                      + Size("u32", fields[3]))
    BY <2>6, TripleBody
  <2>5. 2 + ((2 + Len(key)) + (4 + Len(value)) + 4) = 12 + Len(key) + Len(value)
    BY <1>2
  <2> QED  BY <1>1, <1>2, <2>4, <2>5, Zenon
<1> HIDE DEF body
<1>4. EncodeStore(Put, fields) = Sign(body)
  BY DEF EncodeStore, body, BodyOf
<1>5. /\ Len(body) + 1 <= InternalFrame
      /\ AtMaster(Sign(body)) = DecodeStore(Sign(body))
  <2>1. AtMaster(Sign(body)) # Nothing
    BY <1>4 DEF Stored, fields
  <2>2. Len(body) >= 2 /\ Len(body) + 1 < B4 /\ Len(body) \in Nat
    BY <1>2, <1>3
  <2>3. AtMaster(Sign(body)) = IF Len(body) + 1 > InternalFrame THEN Nothing
                               ELSE DecodeStore(Sign(body))
    BY <1>3, <2>2, CallArrives
  <2> QED  BY <2>1, <2>2, <2>3, Limits
<1>6. 13 + Len(key) + Len(value) <= InternalFrame
  BY <1>2, <1>3, <1>5
<1>7. Len(key) < B2 /\ Len(value) < B4
  BY <1>2, <1>6, Limits, Powers
<1>8. FieldsFit(StoreWrites[Put], fields, Bytes)
  <2>1. /\ FieldFits("str16", fields[1], Bytes) /\ FieldFits("str32", fields[2], Bytes)
        /\ FieldFits("u32", fields[3], Bytes)
    BY <1>1, <1>7, StrField, NumField
  <2>2. TripleOf(StoreWrites[Put], "str16", "str32", "u32")
    BY StoreWritesAre
  <2> HIDE DEF Put
  <2> QED  BY <1>1, <2>1, <2>2, KindsAre, TripleFits
<1>9. DecodeStore(EncodeStore(Put, fields)) = Just([op |-> Put, fields |-> fields])
  <2>1. Bytes \subseteq Bytes /\ Put \in DOMAIN StoreWrites
        /\ Put \notin {Get, Take, ListPrefix}
    BY StoreWritesAre
  <2>2. DecodeStore(EncodeStore(Put, fields))
          = Just([op |-> Put,
                  fields |-> IF Put \in {Get, Take, ListPrefix} THEN <<fields[1]>>
                             ELSE fields])
    BY <1>1, <1>8, <2>1, StoreMessagesArrive
  <2> QED  BY <2>1, <2>2
<1>10. AtMaster(EncodeStore(Put, fields)) = Just([op |-> Put, fields |-> fields])
  BY <1>4, <1>5, <1>9
<1>11. AtMaster(EncodeStore(Put, fields))[1].fields = fields
  <2> DEFINE o == AtMaster(EncodeStore(Put, fields))
             r == [op |-> Put, fields |-> fields]
  <2>1. o[1] = r
    BY <1>10, JustIs
  <2>2. r.fields = fields
    OBVIOUS
  <2> QED  BY <2>1, <2>2
<1> QED  BY <1>1, <1>6, <1>11 DEF fields

(* A take is decoded as the key it asks for, which may be any short key.   *)
LEMMA TakeArrives ==
  ASSUME NEW key, IsDrawn(key), AtMaster(EncodeStore(Take, <<key, 0, 0>>)) # Nothing
  PROVE  AtMaster(EncodeStore(Take, <<key, 0, 0>>))[1].fields[1] = key
<1> DEFINE fields == <<key, 0, 0>>
           body == BodyOf(Take, fields)
           Items == Seq(Bytes) \cup Nat
<1>0. key \in Seq(Bytes) /\ Len(key) \in Nat /\ Len(key) < B2
  BY DrawnIs, StringIs
<1>1. /\ fields[1] = key /\ fields[2] = 0 /\ fields[3] = 0 /\ Len(fields) = 3
      /\ fields \in Seq(Items)
  BY <1>0
<1> HIDE DEF fields, Items
<1>2. /\ IsField("str16", key, Bytes) /\ Size("str16", key) = 2 + Len(key)
      /\ FieldFits("str16", key, Bytes)
      /\ IsField("u32", 0, Bytes) /\ Size("u32", 0) = 4 /\ FieldFits("u32", 0, Bytes)
  <2>1. 0 \in Nat /\ 0 < B4
    BY Powers
  <2> QED  BY <1>0, <2>1, StrField, NumField
<1>3. body \in Seq(Bytes) /\ Len(body) = 12 + Len(key)
  <2>1. Take \in MessageOpcodes /\ TripleOf(StoreWrites[Take], "str16", "u32", "u32")
    BY StoreWritesAre
  <2>2. "str16" \in Kinds /\ "u32" \in Kinds
    BY KindsAre
  <2>3. /\ IsField("str16", fields[1], Bytes) /\ IsField("u32", fields[2], Bytes)
        /\ IsField("u32", fields[3], Bytes)
    BY <1>1, <1>2
  <2>4. TripleIs(Take, "str16", "u32", "u32", fields)
    BY <2>1, <2>2, <2>3 DEF TripleIs
  <2> HIDE DEF Take
  <2>5. /\ BodyOf(Take, fields) \in Seq(Bytes)
        /\ Len(BodyOf(Take, fields))
             = 2 + (Size("str16", fields[1]) + Size("u32", fields[2])
                      + Size("u32", fields[3]))
    BY <2>4, TripleBody
  <2>6. 2 + ((2 + Len(key)) + 4 + 4) = 12 + Len(key)
    BY <1>0
  <2> QED  BY <1>1, <1>2, <2>5, <2>6, Zenon
<1> HIDE DEF body
<1>4. EncodeStore(Take, fields) = Sign(body)
  BY DEF EncodeStore, body, BodyOf
<1>5. AtMaster(Sign(body)) = DecodeStore(Sign(body))
  <2>1. AtMaster(Sign(body)) # Nothing
    BY <1>4 DEF fields
  <2>2. Len(body) >= 2 /\ Len(body) + 1 < B4 /\ Len(body) \in Nat
    BY <1>0, <1>3, Powers
  <2>3. AtMaster(Sign(body)) = IF Len(body) + 1 > InternalFrame THEN Nothing
                               ELSE DecodeStore(Sign(body))
    BY <1>3, <2>2, CallArrives
  <2> QED  BY <2>1, <2>3
<1>6. FieldsFit(StoreWrites[Take], fields, Bytes)
  <2>1. /\ FieldFits("str16", fields[1], Bytes) /\ FieldFits("u32", fields[2], Bytes)
        /\ FieldFits("u32", fields[3], Bytes)
    BY <1>1, <1>2
  <2>2. TripleOf(StoreWrites[Take], "str16", "u32", "u32")
    BY StoreWritesAre
  <2> HIDE DEF Take
  <2> QED  BY <1>1, <2>1, <2>2, KindsAre, TripleFits
<1> DEFINE o == AtMaster(EncodeStore(Take, fields))
           one == <<fields[1]>>
           r == [op |-> Take, fields |-> one]
<1>7. o = Just(r)
  <2>1. Bytes \subseteq Bytes /\ Take \in DOMAIN StoreWrites
        /\ Take \in {Get, Take, ListPrefix}
    BY StoreWritesAre
  <2>2. DecodeStore(EncodeStore(Take, fields))
          = Just([op |-> Take,
                  fields |-> IF Take \in {Get, Take, ListPrefix} THEN <<fields[1]>>
                             ELSE fields])
    BY <1>1, <1>6, <2>1, StoreMessagesArrive
  <2> QED  BY <1>4, <1>5, <2>1, <2>2
<1>8. o[1] = r
  BY <1>7, JustIs
<1>9. r.fields = one /\ one[1] = fields[1]
  OBVIOUS
<1> HIDE DEF o, r, one
<1>10. o[1].fields[1] = key
  BY <1>1, <1>8, <1>9
<1> QED  BY <1>10 DEF o, fields

(* What the store answers: a value, or that there is none.                 *)
LEMMA AnswerArrives ==
  /\ \A value \in Seq(Bytes) :
       Len(value) < InternalFrame /\ AtCaller(EncodeStore(Value, <<value>>)) # Nothing
         => AtCaller(EncodeStore(Value, <<value>>))[1].fields[1] = value
  /\ ~IsValue(AtCaller(EncodeStore(NotFound, <<>>)))
<1>1. ASSUME NEW value \in Seq(Bytes), Len(value) < InternalFrame,
             AtCaller(EncodeStore(Value, <<value>>)) # Nothing
      PROVE  AtCaller(EncodeStore(Value, <<value>>))[1].fields[1] = value
  <2> DEFINE fields == <<value>>
             kinds == <<"str32">>
             body == BodyOf(Value, fields)
             Items == Seq(Bytes)
  <2>1. fields[1] = value /\ Len(fields) = 1 /\ fields \in Seq(Items)
        /\ Len(kinds) = 1 /\ kinds[1] = "str32"
    OBVIOUS
  <2>2. Len(value) \in Nat /\ 7 + Len(value) < B4 /\ Len(value) < B4
    BY <1>1, LenProperties, Limits, Powers
  <2>3. IsField("str32", value, Bytes) /\ Size("str32", value) = 4 + Len(value)
        /\ FieldFits("str32", value, Bytes)
    BY <2>2, StrField
  <2>4. Write(kinds, fields) \in Seq(Bytes) /\ Len(Write(kinds, fields)) = 4 + Len(value)
    BY <2>3, KindsAre, Sizes1
  <2> HIDE DEF fields, Items, kinds
  <2>5. StoreWrites[Value] = kinds /\ Value \in MessageOpcodes
    BY StoreWritesAre DEF kinds
  <2> HIDE DEF Value
  <2>6. body \in Seq(Bytes) /\ Len(body) = 6 + Len(value)
    <3>1. Write(StoreWrites[Value], fields) \in Seq(Bytes)
      BY <2>4, <2>5
    <3>2. IsEncoded(StoreWrites, Value, fields, Bytes)
      BY <2>5, <3>1, KindsAre, EncodeSize
    <3>3. 2 + (4 + Len(value)) = 6 + Len(value)
      BY <2>2
    <3>4. body \in Seq(Bytes) /\ Len(body) = 2 + Len(Write(StoreWrites[Value], fields))
      BY <3>2 DEF IsEncoded, BodyOf
    <3> HIDE DEF body
    <3> QED  BY <2>4, <2>5, <3>3, <3>4
  <2> HIDE DEF body
  <2>7. EncodeStore(Value, fields) = Sign(body)
    BY DEF EncodeStore, body, BodyOf
  <2>8. AtCaller(Sign(body)) = DecodeStore(Sign(body))
    <3>1. AtCaller(Sign(body)) # Nothing
      BY <1>1, <2>7 DEF fields
    <3>2. Len(body) >= 2 /\ Len(body) + 1 < B4
      BY <2>2, <2>6
    <3>3. AtCaller(Sign(body)) = IF Len(body) + 1 > AnswerFrame THEN Nothing
                                 ELSE DecodeStore(Sign(body))
      BY <2>6, <3>2, CallArrives
    <3> QED  BY <3>1, <3>3
  <2>9. FieldsFit(StoreWrites[Value], fields, Bytes)
    <3>1. \A j \in 1..1 : j = 1
      OBVIOUS
    <3>2. FieldsFit(kinds, fields, Bytes)
      BY <2>1, <2>3, <3>1, KindsAre DEF FieldsFit
    <3> QED  BY <2>5, <3>2
  <2> DEFINE o == AtCaller(EncodeStore(Value, fields))
             r == [op |-> Value, fields |-> fields]
  <2>10. o = Just(r)
    <3>1. Value \in DOMAIN StoreWrites /\ Value \notin {Get, Take, ListPrefix}
      BY StoreWritesAre
    <3>2. DecodeStore(EncodeStore(Value, fields))
            = Just([op |-> Value,
                    fields |-> IF Value \in {Get, Take, ListPrefix} THEN <<fields[1]>>
                               ELSE fields])
      BY <2>1, <2>9, <3>1, KindsAre, StoreMessagesArrive
    <3> QED  BY <2>7, <2>8, <3>1, <3>2
  <2>11. o[1] = r
    BY <2>10, JustIs
  <2>12. r.fields = fields
    OBVIOUS
  <2> HIDE DEF o, r
  <2>13. o[1].fields[1] = value
    BY <2>1, <2>11, <2>12
  <2> QED  BY <2>13 DEF o, fields
<1>2. ~IsValue(AtCaller(EncodeStore(NotFound, <<>>)))
  <2> DEFINE fields == <<>>
             kinds == <<>>
             body == BodyOf(NotFound, fields)
             Items == Seq(Bytes)
  <2>1. Len(fields) = 0 /\ fields \in Seq(Items) /\ Len(kinds) = 0 /\ kinds \in Seq(Kinds)
    OBVIOUS
  <2> HIDE DEF fields, Items, kinds
  <2>2. StoreWrites[NotFound] = kinds /\ NotFound \in MessageOpcodes
    BY StoreWritesAre DEF kinds
  <2>3. \A i \in 1..Len(kinds) : FALSE
    BY <2>1
  <2>4. Write(kinds, fields) \in Seq(Bytes) /\ Len(Write(kinds, fields)) = 0
    <3>1. \A i \in 1..Len(kinds) : IsField(kinds[i], fields[i], Bytes)
      BY <2>3
    <3> QED  BY <2>1, <3>1, KindsAre, WriteSize
  <2> HIDE DEF NotFound
  <2>5. body \in Seq(Bytes) /\ Len(body) = 2
    <3>1. Write(StoreWrites[NotFound], fields) \in Seq(Bytes)
      BY <2>2, <2>4
    <3>2. IsEncoded(StoreWrites, NotFound, fields, Bytes)
      BY <2>2, <3>1, KindsAre, EncodeSize
    <3>3. body \in Seq(Bytes) /\ Len(body) = 2 + Len(Write(StoreWrites[NotFound], fields))
      BY <3>2 DEF IsEncoded, BodyOf
    <3> HIDE DEF body
    <3> QED  BY <2>2, <2>4, <3>3
  <2> HIDE DEF body
  <2>6. EncodeStore(NotFound, fields) = Sign(body)
    BY DEF EncodeStore, body, BodyOf
  <2>7. AtCaller(Sign(body)) = IF Len(body) + 1 > AnswerFrame THEN Nothing
                               ELSE DecodeStore(Sign(body))
    <3>1. Len(body) >= 2 /\ Len(body) + 1 < B4
      BY <2>5, Powers
    <3> QED  BY <2>5, <3>1, CallArrives
  <2>8. FieldsFit(StoreWrites[NotFound], fields, Bytes)
    BY <2>1, <2>2, <2>3 DEF FieldsFit
  <2> DEFINE o == AtCaller(EncodeStore(NotFound, fields))
             r == [op |-> NotFound, fields |-> fields]
  <2>9. DecodeStore(EncodeStore(NotFound, fields)) = Just(r)
    <3>1. NotFound \in DOMAIN StoreWrites /\ NotFound \notin {Get, Take, ListPrefix}
      BY StoreWritesAre
    <3>2. DecodeStore(EncodeStore(NotFound, fields))
            = Just([op |-> NotFound,
                    fields |-> IF NotFound \in {Get, Take, ListPrefix} THEN <<fields[1]>>
                               ELSE fields])
      BY <2>1, <2>8, <3>1, KindsAre, StoreMessagesArrive
    <3> QED  BY <3>1, <3>2
  <2>10. o = Nothing \/ o = Just(r)
    BY <2>6, <2>7, <2>9
  <2>11. r.op = NotFound
    OBVIOUS
  <2> HIDE DEF o, r
  <2>12. o = Nothing \/ o[1].op = NotFound
    BY <2>10, <2>11, JustIs
  <2>13. ~IsValue(o)
    BY <2>12, StoreWritesAre DEF IsValue
  <2> QED  BY <2>13 DEF o, fields
<1> QED  BY <1>1, <1>2

(* A take that yields a value yields what is under the key, and there is   *)
(* one.                                                                    *)
LEMMA TakenIs ==
  ASSUME NEW key, IsDrawn(key), IsValue(Taken(key)),
         key \in DOMAIN entries =>
           entries[key] \in Seq(Bytes) /\ Len(entries[key]) < InternalFrame
  PROVE  key \in DOMAIN entries /\ Taken(key)[1].fields[1] = entries[key]
<1> DEFINE r == AtMaster(EncodeStore(Take, <<key, 0, 0>>))
           k == r[1].fields[1]
           answer == IF k \in DOMAIN entries THEN EncodeStore(Value, <<entries[k]>>)
                     ELSE EncodeStore(NotFound, <<>>)
<1>1. Taken(key) = IF r = Nothing THEN Nothing ELSE AtCaller(answer)
  BY DEF Taken, Then
<1>2. Taken(key) # Nothing
  BY DEF IsValue
<1>3. r # Nothing => k = key
  BY TakeArrives
<1> HIDE DEF r, k, answer
<1>4. k = key /\ Taken(key) = AtCaller(answer)
  BY <1>1, <1>2, <1>3
<1>5. CASE key \in DOMAIN entries
  <2>1. answer = EncodeStore(Value, <<entries[key]>>)
    BY <1>4, <1>5 DEF answer
  <2>2. Taken(key) = AtCaller(EncodeStore(Value, <<entries[key]>>))
    BY <1>4, <2>1
  <2>3. entries[key] \in Seq(Bytes) /\ Len(entries[key]) < InternalFrame
    BY <1>5
  <2>4. Taken(key)[1].fields[1] = entries[key]
    BY <1>2, <2>2, <2>3, AnswerArrives
  <2> QED  BY <1>5, <2>4
<1>6. CASE key \notin DOMAIN entries
  <2>1. answer = EncodeStore(NotFound, <<>>)
    BY <1>4, <1>6 DEF answer
  <2>2. ~IsValue(Taken(key))
    BY <1>4, <2>1, AnswerArrives
  <2> QED  BY <2>2
<1> QED  BY <1>5, <1>6

(* How long a list may get.                                                *)
LEMMA Product ==
  ASSUME NEW a \in Nat, NEW b \in Nat, a <= b, NEW c \in Nat
  PROVE  a * c \in Nat /\ b * c \in Nat /\ a * c <= b * c
<1>1. (b - a) * c \in Nat /\ a * c \in Nat
  OBVIOUS
<1>2. b * c = a * c + (b - a) * c
  OBVIOUS
<1> QED  BY <1>1, <1>2

(* A list of rows each no longer than a bound is no longer than the rows   *)
(* times the bound.                                                        *)
LEMMA FlatBound ==
  ASSUME NEW S, NEW parts \in Seq(Seq(S)), NEW m \in Nat,
         \A i \in 1..Len(parts) : Len(parts[i]) <= m
  PROVE  Len(FlattenSeq(parts)) <= Len(parts) * m
<1> DEFINE n == Len(parts)
           T == Seq(S)
<1>1. n \in Nat /\ \A i \in 1..n : parts[i] \in T /\ Len(parts[i]) \in Nat
  BY LenProperties, ElementOfSeq
<1>2. PICK f \in [0..n -> T] :
        /\ f[0] = <<>> /\ FlattenSeq(parts) = f[n]
        /\ \A i \in 1..n : f[i] = f[i - 1] \o parts[i]
  BY PartsJoined
<1> HIDE DEF n
<1> DEFINE N == {i \in Nat : i <= n => Len(f[i]) <= i * m}
<1>3. 0 \in N
  <2>1. Len(f[0]) = 0 /\ 0 * m = 0
    BY <1>2
  <2> QED  BY <2>1
<1>4. ASSUME NEW i \in N PROVE i + 1 \in N
  <2>1. i \in Nat /\ (i <= n => Len(f[i]) <= i * m)
    OBVIOUS
  <2>2. ASSUME i + 1 <= n PROVE Len(f[i + 1]) <= (i + 1) * m
    <3>1. i + 1 \in 1..n /\ (i + 1) - 1 = i /\ i \in 0..n /\ i <= n
      BY <1>1, <2>1, <2>2
    <3>2. f[i] \in Seq(S) /\ parts[i + 1] \in Seq(S) /\ Len(parts[i + 1]) <= m
      BY <1>1, <1>2, <3>1 DEF n
    <3>3. f[i + 1] = f[(i + 1) - 1] \o parts[i + 1]
      BY <1>2, <3>1
    <3>4. f[i + 1] = Cat(f[i], parts[i + 1])
      BY <3>1, <3>3, Zenon DEF Cat
    <3>5. /\ Len(Cat(f[i], parts[i + 1])) = Len(f[i]) + Len(parts[i + 1])
          /\ Len(f[i]) \in Nat /\ Len(parts[i + 1]) \in Nat
      BY <3>2, CatIs
    <3>6. (i + 1) * m = i * m + m /\ i * m \in Nat
      BY <2>1
    <3>7. Len(f[i]) <= i * m
      BY <2>1, <3>1
    <3> DEFINE a == i * m
               b == (i + 1) * m
               l == Len(f[i])
               p == Len(parts[i + 1])
    <3>8. b = a + m /\ a \in Nat /\ l <= a /\ p <= m /\ l \in Nat /\ p \in Nat
          /\ Len(f[i + 1]) = l + p
      BY <3>2, <3>4, <3>5, <3>6, <3>7
    <3> HIDE DEF a, b, l, p
    <3>9. Len(f[i + 1]) <= b
      BY <3>8
    <3> QED  BY <3>9 DEF b
  <2> QED  BY <2>1, <2>2
<1>5. N = Nat
  <2>1. N \subseteq Nat
    OBVIOUS
  <2> HIDE DEF N
  <2> QED  BY <1>3, <1>4, <2>1, Induction
<1>6. n \in N
  BY <1>1, <1>5
<1>7. Len(f[n]) <= n * m
  BY <1>1, <1>6
<1> QED  BY <1>2, <1>7 DEF n

ListFits(kinds, rows, Items) ==
  /\ kinds \in Seq(Kinds) /\ rows \in Seq(Seq(Items))
  /\ RowsFit(kinds, rows, Items, Bytes)
  /\ 2 * Len(rows) <= B2
  /\ \A i \in 1..Len(rows) : Len(Write(kinds, rows[i])) <= B2

ListIs(kinds, rows) ==
  /\ WriteRows(kinds, rows) \in Seq(Bytes) /\ Len(WriteRows(kinds, rows)) \in Nat
  /\ 10 + Len(WriteRows(kinds, rows)) < B4
  /\ Fits(Len(rows), 4)

(* A list of not too many rows, each short, can be counted by a four-byte  *)
(* number, and so can its bytes.                                           *)
LEMMA ListSize ==
  ASSUME NEW kinds, NEW rows, NEW Items, ListFits(kinds, rows, Items)
  PROVE  ListIs(kinds, rows)
<1>1. /\ kinds \in Seq(Kinds) /\ rows \in Seq(Seq(Items))
      /\ RowsFit(kinds, rows, Items, Bytes) /\ Bytes \subseteq Bytes
      /\ \A i \in 1..Len(rows) : Len(Write(kinds, rows[i])) <= B2
  BY DEF ListFits
<1> DEFINE n == Len(rows)
           parts == [i \in 1..n |-> Write(kinds, rows[i])]
           head == Number(n, 4)
<1>2. n \in Nat /\ 2 * n <= B2
  BY <1>1, LenProperties DEF ListFits
<1> HIDE DEF n
<1>3. n < B4 /\ Fits(n, 4)
  <2>1. n < B4
    BY <1>2, Powers
  <2> QED  BY <1>2, <2>1, Fits4
<1>4. ASSUME NEW i \in 1..n PROVE Write(kinds, rows[i]) \in Seq(Bytes)
  <2>1. rows[i] \in Seq(Items) /\ FieldsFit(kinds, rows[i], Bytes)
    BY <1>1 DEF RowsFit, n
  <2>2. <<>> \in Seq(Bytes)
    OBVIOUS
  <2> QED  BY <1>1, <2>1, <2>2, FieldsRead
<1>5. parts \in Seq(Seq(Bytes)) /\ Len(parts) = n
  <2>1. parts \in [1..n -> Seq(Bytes)]
    BY <1>4
  <2> HIDE DEF parts
  <2> QED  BY <1>2, <2>1, SequenceOf
<1>6. \A i \in 1..n : Len(parts[i]) <= B2
  BY <1>1 DEF n
<1> HIDE DEF parts
<1>7. Len(FlattenSeq(parts)) <= n * B2
  BY <1>5, <1>6, Powers, FlatBound
<1>8. FlattenSeq(parts) \in Seq(Bytes)
  BY <1>5, FlatSize
<1>9. head \in Seq(Bytes) /\ Len(head) = 4
  <2>1. 4 \in Nat
    OBVIOUS
  <2> QED  BY <1>2, <2>1, NumberIs
<1>10. WriteRows(kinds, rows) = Cat(head, FlattenSeq(parts))
  BY Zenon DEF WriteRows, Cat, parts, head, n
<1> HIDE DEF head
<1> DEFINE t == FlattenSeq(parts)
<1> HIDE DEF t
<1>11. /\ Cat(head, t) \in Seq(Bytes) /\ Len(Cat(head, t)) = 4 + Len(t) /\ Len(t) \in Nat
  BY <1>8, <1>9, CatIs DEF t
<1>12. 14 + Len(t) < B4
  <2>1. Len(t) <= n * B2
    BY <1>7 DEF t
  <2>2. 2 * n \in Nat /\ B2 \in Nat
    BY <1>2, Powers
  <2>3. (2 * n) * B2 <= B2 * B2 /\ B2 * B2 \in Nat
    BY <1>2, <2>2, Product
  <2>4. (2 * n) * B2 = 2 * (n * B2) /\ n * B2 \in Nat
    BY <1>2, <2>2
  <2>5. 2 * Len(t) <= B4
    BY <1>11, <2>1, <2>3, <2>4, Powers
  <2> QED  BY <1>11, <2>5, Powers
<1> QED  BY <1>3, <1>10, <1>11, <1>12 DEF ListIs, t, n

(* One by one is the whole.                                                *)
LEMMA FlatSingletons ==
  ASSUME NEW T, NEW xs \in Seq(T)
  PROVE  FlattenSeq([i \in 1..Len(xs) |-> <<xs[i]>>]) = xs
<1> DEFINE n == Len(xs)
           parts == [i \in 1..n |-> <<xs[i]>>]
<1>1. n \in Nat /\ \A i \in 1..n : xs[i] \in T
  BY LenProperties, ElementOfSeq
<1>2. parts \in Seq(Seq(T)) /\ Len(parts) = n
  <2> HIDE DEF n
  <2>1. \A i \in 1..n : <<xs[i]>> \in Seq(T)
    BY <1>1
  <2>2. parts \in [1..n -> Seq(T)]
    BY <2>1
  <2> DEFINE ST == Seq(T)
  <2> HIDE DEF parts, ST
  <2> QED  BY <1>1, <2>2, SequenceOf DEF ST
<1>3. PICK f \in [0..Len(parts) -> Seq(T)] :
        /\ f[0] = <<>> /\ FlattenSeq(parts) = f[Len(parts)]
        /\ \A i \in 1..Len(parts) : f[i] = f[i - 1] \o parts[i]
  <2> HIDE DEF parts
  <2> QED  BY <1>2, PartsJoined
<1> DEFINE g == [i \in 0..n |-> SubSeq(xs, 1, i)]
<1>4. \A i \in 1..n : parts[i] = <<xs[i]>>
  OBVIOUS
<1> HIDE DEF parts
<1>5. Alike(f, g, n)
  <2>1. f[0] = g[0]
    BY <1>1, <1>3
  <2>2. ASSUME NEW i \in 1..n, f[i - 1] = g[i - 1] PROVE f[i] = g[i]
    <3>1. i - 1 \in 0..n /\ i \in 0..n
      BY <1>1
    <3>2. g[i - 1] = SubSeq(xs, 1, i - 1) /\ g[i] = SubSeq(xs, 1, i)
      BY <3>1
    <3>3. Append(SubSeq(xs, 1, i - 1), xs[i]) = SubSeq(xs, 1, i)
      BY OneMore
    <3> HIDE DEF g
    <3>4. f[i - 1] \in Seq(T) /\ xs[i] \in T
      BY <1>1, <1>2, <1>3, <3>1
    <3>5. Append(f[i - 1], xs[i]) = f[i - 1] \o <<xs[i]>>
      BY <3>4, AppendIsConcat
    <3>6. f[i] = f[i - 1] \o parts[i]
      BY <1>2, <1>3
    <3>7. f[i] = Append(f[i - 1], xs[i])
      BY <1>4, <3>5, <3>6
    <3> QED  BY <2>2, <3>2, <3>3, <3>7
  <2> HIDE DEF n, g
  <2> QED  BY <2>1, <2>2 DEF Alike
<1>6. \A i \in 0..n : f[i] = g[i]
  <2> HIDE DEF n, g
  <2> QED  BY <1>1, <1>5, Agree
<1>7. f[n] = SubSeq(xs, 1, n)
  BY <1>1, <1>6
<1>8. SubSeq(xs, 1, n) = xs
  BY SubSeqFull
<1> QED  BY <1>2, <1>3, <1>7, <1>8 DEF parts

(* What the store holds: under the key of a server what it announced,      *)
(* which was short enough for the Internal server, nothing of note under   *)
(* the ticket, the name under the token.                                   *)
ServerValue(s, info) ==
  IF s \in Logins THEN EncodeLoginInfo(info) ELSE EncodeWorldInfo(info)

Told(s, info, value) ==
  /\ info \in Infos[s] /\ value = ServerValue(s, info)
  /\ 13 + Len(s) + Len(value) <= InternalFrame

StoreInv ==
  /\ DOMAIN entries \subseteq Servers \cup {Ticket, Token}
  /\ announced = [s \in Servers |-> announced[s]]
  /\ \A s \in Servers : s \in DOMAIN entries =>
       \E info : announced[s] = Just(info) /\ Told(s, info, entries[s])
  /\ Ticket \in DOMAIN entries => entries[Ticket] = <<>>
  /\ Token \in DOMAIN entries => entries[Token] = typed /\ Len(typed) < InternalFrame
  /\ typed \in Usernames

IsRead(s, info, value) ==
  /\ value \in Seq(Bytes) /\ Len(value) \in Nat /\ s \in Seq(Bytes) /\ Len(s) \in Nat
  /\ 13 + Len(s) + Len(value) <= InternalFrame /\ info \in Infos[s]
  /\ s \in Logins => DecodeLoginInfo(value) = Just(info) /\ Len(info[1]) < B2
  /\ s \in Worlds => /\ DecodeWorldInfo(value) = Just(info)
                     /\ Len(info[1]) \in Nat /\ Len(info[3]) \in Nat
                     /\ Len(value) = 10 + Len(info[1]) + Len(info[3])

(* Whatever a server announced is decoded by whoever takes it from the     *)
(* store.                                                                  *)
LEMMA ToldIs ==
  ASSUME NEW s \in Servers, NEW info, NEW value, Told(s, info, value)
  PROVE  IsRead(s, info, value)
<1>1. info \in Infos[s] /\ value = ServerValue(s, info)
      /\ 13 + Len(s) + Len(value) <= InternalFrame
  BY DEF Told
<1>2. s \in Seq(Bytes) /\ Len(s) \in Nat
  <2>1. IsString(s)
    BY JourneyTypes
  <2> QED  BY <2>1, StringIs
<1>3. CASE s \in Logins
  <2>1. value = EncodeLoginInfo(info) /\ s \notin Worlds
    BY <1>1, <1>3, JourneyAssumption DEF ServerValue
  <2>2. /\ EncodeLoginInfo(info) \in Seq(Bytes) /\ Len(info[1]) \in Nat
        /\ Len(EncodeLoginInfo(info)) = 4 + Len(info[1])
        /\ Len(info[1]) < B2 => DecodeLoginInfo(EncodeLoginInfo(info)) = Just(info)
    BY <1>1, <1>3, LoginInfoIs
  <2>3. Len(info[1]) < B2 /\ Len(value) \in Nat
    <3>1. Len(value) = 4 + Len(info[1]) /\ Len(info[1]) \in Nat
      BY <2>1, <2>2
    <3>2. 13 + Len(s) + (4 + Len(info[1])) <= InternalFrame
      BY <1>1, <3>1
    <3>3. InternalFrame < B2 /\ InternalFrame \in Nat /\ B2 \in Nat
      BY Limits, Powers
    <3> DEFINE a == Len(info[1])
               b == Len(s)
    <3>4. a \in Nat /\ b \in Nat /\ 13 + b + (4 + a) <= InternalFrame
      BY <1>2, <3>1, <3>2
    <3> HIDE DEF a, b
    <3>5. a < B2 /\ 4 + a \in Nat
      BY <3>3, <3>4
    <3> QED  BY <3>1, <3>5 DEF a
  <2> QED  BY <1>1, <1>2, <2>1, <2>2, <2>3 DEF IsRead
<1>4. CASE s \in Worlds
  <2>1. value = EncodeWorldInfo(info) /\ s \notin Logins
    BY <1>1, <1>4, JourneyAssumption DEF ServerValue
  <2>2. /\ EncodeWorldInfo(info) \in Seq(Bytes)
        /\ Len(info[1]) \in Nat /\ Len(info[3]) \in Nat
        /\ Len(EncodeWorldInfo(info)) = 10 + Len(info[1]) + Len(info[3])
        /\ Len(info[1]) < B2 /\ Len(info[3]) < B2
             => DecodeWorldInfo(EncodeWorldInfo(info)) = Just(info)
    BY <1>1, <1>4, WorldInfoIs
  <2>3. Len(info[1]) < B2 /\ Len(info[3]) < B2 /\ Len(value) \in Nat
    <3>1. Len(value) = 10 + Len(info[1]) + Len(info[3])
          /\ Len(info[1]) \in Nat /\ Len(info[3]) \in Nat
      BY <2>1, <2>2
    <3>2. 13 + Len(s) + (10 + Len(info[1]) + Len(info[3])) <= InternalFrame
      BY <1>1, <3>1
    <3>3. InternalFrame < B2 /\ InternalFrame \in Nat /\ B2 \in Nat
      BY Limits, Powers
    <3> DEFINE a == Len(info[1])
               b == Len(s)
               c == Len(info[3])
    <3>4. a \in Nat /\ b \in Nat /\ c \in Nat /\ 13 + b + (10 + a + c) <= InternalFrame
      BY <1>2, <3>1, <3>2
    <3> HIDE DEF a, b, c
    <3>5. a < B2 /\ c < B2 /\ 10 + a + c \in Nat
      BY <3>3, <3>4
    <3> QED  BY <3>1, <3>5 DEF a, c
  <2> QED  BY <1>1, <1>2, <2>1, <2>2, <2>3 DEF IsRead
<1> QED  BY <1>3, <1>4 DEF Servers

(* An entry of the store's list fits a row.                                *)
LEMMA PairFitsKinds ==
  ASSUME NEW k1 \in Kinds, NEW k2 \in Kinds, NEW kinds, PairOf(kinds, k1, k2),
         NEW fields, Len(fields) = 2,
         FieldFits(k1, fields[1], Bytes), FieldFits(k2, fields[2], Bytes)
  PROVE  FieldsFit(kinds, fields, Bytes)
<1>1. Len(kinds) = 2 /\ kinds[1] = k1 /\ kinds[2] = k2
  BY DEF PairOf
<1>2. \A j \in 1..2 : j = 1 \/ j = 2
  OBVIOUS
<1> QED  BY <1>1, <1>2 DEF FieldsFit

IsEntryRow(row, s, value) ==
  /\ row \in Seq(Seq(Bytes)) /\ FieldsFit(EntryKinds, row, Bytes)
  /\ Len(Write(EntryKinds, row)) <= B2 /\ row[2] = value

LEMMA EntryRow ==
  ASSUME NEW s, NEW info, NEW value, IsRead(s, info, value)
  PROVE  IsEntryRow(<<s, value>>, s, value)
<1> DEFINE row == <<s, value>>
<1>1. /\ value \in Seq(Bytes) /\ Len(value) \in Nat /\ s \in Seq(Bytes) /\ Len(s) \in Nat
      /\ Len(s) < B2 /\ Len(value) < B4 /\ 6 + Len(s) + Len(value) <= B2
  <2>1. /\ value \in Seq(Bytes) /\ Len(value) \in Nat /\ s \in Seq(Bytes) /\ Len(s) \in Nat
        /\ 13 + Len(s) + Len(value) <= InternalFrame
    BY DEF IsRead
  <2> QED  BY <2>1, Limits, Powers
<1>2. row \in Seq(Seq(Bytes)) /\ Len(row) = 2 /\ row[1] = s /\ row[2] = value
  BY <1>1
<1>3. /\ IsField("str16", s, Bytes) /\ Size("str16", s) = 2 + Len(s)
      /\ FieldFits("str16", s, Bytes)
      /\ IsField("str32", value, Bytes) /\ Size("str32", value) = 4 + Len(value)
      /\ FieldFits("str32", value, Bytes)
  BY <1>1, StrField
<1>4. PairOf(EntryKinds, "str16", "str32")
  BY KindsAre, PairIs DEF EntryKinds
<1>5. FieldsFit(EntryKinds, row, Bytes)
  <2> HIDE DEF row
  <2> QED  BY <1>2, <1>3, <1>4, KindsAre, PairFitsKinds
<1>6. Len(Write(EntryKinds, row)) = (2 + Len(s)) + (4 + Len(value))
  <2>1. Len(Write(EntryKinds, row)) = Size("str16", s) + Size("str32", value)
    <3>1. /\ Write(<<"str16", "str32">>, <<s, value>>) \in Seq(Bytes)
          /\ Len(Write(<<"str16", "str32">>, <<s, value>>))
               = Size("str16", s) + Size("str32", value)
      BY <1>3, KindsAre, Sizes2
    <3> QED  BY <3>1 DEF EntryKinds
  <2> HIDE DEF row
  <2> QED  BY <1>3, <2>1, Zenon
<1> HIDE DEF row
<1>7. Len(Write(EntryKinds, row)) <= B2
  BY <1>1, <1>6
<1> QED  BY <1>2, <1>5, <1>7 DEF IsEntryRow, row

(* What Login learns of the worlds: all of them, or none.                  *)
InfosOf(keys) == [i \in 1..Len(keys) |-> announced[keys[i]][1]]

(* What the store holds of a server is what that server announced last.    *)
LEMMA StoredInfo ==
  ASSUME StoreInv, NEW s \in Servers, s \in DOMAIN entries
  PROVE  /\ announced[s] = Just(announced[s][1])
         /\ IsRead(s, announced[s][1], entries[s])
<1>1. PICK info : announced[s] = Just(info) /\ Told(s, info, entries[s])
  BY DEF StoreInv
<1>2. announced[s][1] = info
  BY <1>1, JustIs
<1> QED  BY <1>1, <1>2, ToldIs

EntryRows(keys) == [i \in DOMAIN keys |-> <<keys[i], entries[keys[i]]>>]

(* The store's list of worlds is decoded row by row as it was made.        *)
LEMMA ListArrives ==
  ASSUME NEW rows, NEW Items, ListFits(EntryKinds, rows, Items),
         AtCaller(EncodeList(rows)) # Nothing
  PROVE  AtCaller(EncodeList(rows))[1].fields = rows
<1> DEFINE w == WriteRows(EntryKinds, rows)
           n == Number(List, 2)
           body == Cat(n, w)
<1>1. ListIs(EntryKinds, rows)
  BY ListSize
<1>2. w \in Seq(Bytes) /\ Len(w) \in Nat /\ 10 + Len(w) < B4 /\ Fits(Len(rows), 4)
  BY <1>1 DEF ListIs
<1>3. EncodeList(rows) = Sign(body)
  BY Zenon DEF EncodeList, Cat, EntryKinds
<1>4. n \in Seq(Bytes) /\ Len(n) = 2
  <2>1. List \in Nat /\ 2 \in Nat
    BY DEF List
  <2> QED  BY <2>1, NumberIs
<1> HIDE DEF n, w
<1>5. body \in Seq(Bytes) /\ Len(body) = 2 + Len(w)
  BY <1>2, <1>4, CatIs
<1> HIDE DEF body
<1>6. AtCaller(Sign(body)) = IF Len(body) + 1 > AnswerFrame THEN Nothing
                             ELSE DecodeStore(Sign(body))
  <2>1. Len(body) >= 2 /\ Len(body) + 1 < B4
    BY <1>2, <1>5, Powers
  <2> QED  BY <1>5, <2>1, CallArrives
<1>7. DecodeStore(EncodeList(rows)) = IF Len(rows) > MaxEntries THEN Nothing
                                      ELSE Just([op |-> List, fields |-> rows])
  <2>1. rows \in Seq(Seq(Items)) /\ RowsFit(EntryKinds, rows, Items, Bytes)
    BY DEF ListFits
  <2> QED  BY <1>2, <2>1, KindsAre, EntriesArrive
<1> DEFINE o == AtCaller(EncodeList(rows))
           r == [op |-> List, fields |-> rows]
<1>8. o = Just(r)
  BY <1>3, <1>6, <1>7
<1>9. r.fields = rows
  OBVIOUS
<1>10. o[1] = r
  BY <1>8, JustIs
<1> QED  BY <1>9, <1>10

LEMMA EntryRowsFit ==
  ASSUME StoreInv, NEW keys \in Seq(KeysUnder(Worlds)), 2 * Len(keys) <= B2
  PROVE  /\ ListFits(EntryKinds, EntryRows(keys), Seq(Bytes))
         /\ DOMAIN EntryRows(keys) = 1..Len(keys) /\ Len(keys) \in Nat
         /\ \A i \in 1..Len(keys) :
              DecodeWorldInfo(EntryRows(keys)[i][2]) = Just(InfosOf(keys)[i])
<1> DEFINE n == Len(keys)
           rows == EntryRows(keys)
           Row == Seq(Seq(Bytes))
<1>1. n \in Nat /\ DOMAIN keys = 1..n /\ \A i \in 1..n : keys[i] \in KeysUnder(Worlds)
  BY LenProperties, ElementOfSeq
<1> HIDE DEF n
<1>2. \A i \in 1..n : rows[i] = <<keys[i], entries[keys[i]]>>
  BY <1>1 DEF EntryRows
<1>3. ASSUME NEW i \in 1..n
      PROVE  /\ IsEntryRow(rows[i], keys[i], entries[keys[i]])
             /\ DecodeWorldInfo(entries[keys[i]]) = Just(announced[keys[i]][1])
  <2> DEFINE s == keys[i]
  <2>1. s \in Worlds /\ s \in Servers /\ s \in DOMAIN entries
    BY <1>1 DEF KeysUnder, Servers
  <2> HIDE DEF s
  <2>2. IsRead(s, announced[s][1], entries[s])
    BY <2>1, StoredInfo
  <2>3. IsEntryRow(<<s, entries[s]>>, s, entries[s])
    BY <2>2, EntryRow
  <2>4. rows[i] = <<s, entries[s]>>
    BY <1>2 DEF s
  <2>5. DecodeWorldInfo(entries[s]) = Just(announced[s][1])
    BY <2>1, <2>2 DEF IsRead
  <2> QED  BY <2>3, <2>4, <2>5 DEF s
<1>4. DOMAIN rows = 1..n
  BY <1>1 DEF EntryRows
<1>5. rows = [i \in 1..n |-> rows[i]]
  BY <1>1, <1>2 DEF EntryRows
<1> HIDE DEF rows, Row
<1>6. \A i \in 1..n : /\ rows[i] \in Row /\ FieldsFit(EntryKinds, rows[i], Bytes)
                      /\ Len(Write(EntryKinds, rows[i])) <= B2
                      /\ rows[i][2] = entries[keys[i]]
  BY <1>3 DEF IsEntryRow, Row
<1>7. rows \in Seq(Row) /\ Len(rows) = n
  <2>1. rows \in [1..n -> Row]
    BY <1>5, <1>6
  <2> QED  BY <1>1, <2>1, SequenceOf
<1>8. ListFits(EntryKinds, rows, Seq(Bytes))
  <2>1. \A i \in 1..n : rows[i] \in Seq(Seq(Bytes))
    BY <1>6 DEF Row
  <2>2. RowsFit(EntryKinds, rows, Seq(Bytes), Bytes)
    BY <1>6, <1>7, <2>1 DEF RowsFit
  <2>3. rows \in Seq(Seq(Seq(Bytes)))
    BY <1>7 DEF Row
  <2>4. 2 * Len(rows) <= B2
    BY <1>7 DEF n
  <2> QED  BY <1>6, <1>7, <2>2, <2>3, <2>4, ListKinds DEF ListFits
<1>9. \A i \in 1..n : DecodeWorldInfo(rows[i][2]) = Just(InfosOf(keys)[i])
  <2>1. \A i \in 1..n : InfosOf(keys)[i] = announced[keys[i]][1]
    BY DEF InfosOf, n
  <2> QED  BY <1>3, <1>6, <2>1
<1> QED  BY <1>1, <1>4, <1>8, <1>9 DEF rows, n

(* What Login makes of that list: the announcement of each world.          *)
LEMMA WorldsListed ==
  ASSUME StoreInv, NEW keys \in Seq(KeysUnder(Worlds)), 2 * Len(keys) <= B2
  PROVE  ListWorlds(keys) = <<>> \/ ListWorlds(keys) = InfosOf(keys)
<1> DEFINE rows == EntryRows(keys)
           list == AtCaller(EncodeList(rows))
           n == Len(keys)
           infos == InfosOf(keys)
           T == {infos[i] : i \in 1..n}
<1>1. /\ ListFits(EntryKinds, rows, Seq(Bytes)) /\ DOMAIN rows = 1..n /\ n \in Nat
      /\ \A i \in 1..n : DecodeWorldInfo(rows[i][2]) = Just(infos[i])
  BY EntryRowsFit
<1>2. ListWorlds(keys) = IF list = Nothing THEN <<>>
                         ELSE FlattenSeq([i \in DOMAIN list[1].fields |->
                                DecodeWorldInfo(list[1].fields[i][2])])
  BY DEF ListWorlds, EntryRows
<1> HIDE DEF rows, n
<1>3. list # Nothing => list[1].fields = rows
  BY <1>1, ListArrives
<1> HIDE DEF list
<1>4. [i \in DOMAIN rows |-> DecodeWorldInfo(rows[i][2])] = [i \in 1..n |-> <<infos[i]>>]
  <2>1. \A i \in 1..n : DecodeWorldInfo(rows[i][2]) = <<infos[i]>>
    BY <1>1 DEF Just
  <2> HIDE DEF infos
  <2> QED  BY <1>1, <2>1
<1>5. infos \in [1..n -> T] /\ DOMAIN infos = 1..n
  BY DEF InfosOf, n
<1> HIDE DEF infos, T
<1>6. infos \in Seq(T) /\ Len(infos) = n
  BY <1>1, <1>5, SequenceOf
<1>7. FlattenSeq([i \in 1..n |-> <<infos[i]>>]) = infos
  <2>1. FlattenSeq([i \in 1..Len(infos) |-> <<infos[i]>>]) = infos
    BY <1>6, FlatSingletons
  <2> QED  BY <1>6, <2>1
<1> QED  BY <1>2, <1>3, <1>4, <1>7 DEF infos

(* The worlds that are announced, each once.                               *)
Listing == {announced[k][1] : k \in KeysUnder(Worlds)}

(* What tells the elements of a finite set apart is as many.               *)
LEMMA SameSize ==
  ASSUME NEW S, IsFiniteSet(S), NEW f,
         \A x \in S, y \in S : f[x] = f[y] => x = y
  PROVE  /\ IsFiniteSet({f[x] : x \in S})
         /\ Cardinality({f[x] : x \in S}) = Cardinality(S)
<1> DEFINE T == {f[x] : x \in S}
           g == [x \in S |-> f[x]]
<1>1. g \in [S -> T] /\ DOMAIN g = S /\ \A x \in S : g[x] = f[x]
  OBVIOUS
<1>2. \A t \in T : \E x \in S : t = f[x]
  OBVIOUS
<1> HIDE DEF g, T
<1>3. g \in Injection(S, T)
  BY <1>1 DEF Injection, IsInjective
<1>4. g \in Surjection(S, T)
  BY <1>1, <1>2 DEF Surjection
<1>5. ExistsBijection(S, T)
  BY <1>3, <1>4 DEF Bijection, ExistsBijection
<1>6. IsFiniteSet(T) /\ Cardinality(T) = Cardinality(S)
  BY <1>5, FS_Bijection
<1> QED  BY <1>6 DEF T

LEMMA EachOnce ==
  ASSUME NEW S, IsFiniteSet(S), NEW keys \in SetToSeqs(S)
  PROVE  /\ keys \in Seq(S) /\ Len(keys) = Cardinality(S) /\ Cardinality(S) \in Nat
         /\ \A x \in S : \E i \in 1..Len(keys) : keys[i] = x
<1> DEFINE n == Cardinality(S)
           D == 1..n
           T == {keys[i] : i \in D}
<1>1. n \in Nat
  BY FS_CardinalityType
<1>2. keys \in [D -> S] /\ \A i, j \in D : i # j => keys[i] # keys[j]
  BY DEF SetToSeqs
<1>3. keys \in Seq(S) /\ Len(keys) = n
  <2> HIDE DEF n
  <2> QED  BY <1>1, <1>2, SequenceOf
<1>4. IsFiniteSet(D) /\ Cardinality(D) = n
  <2> HIDE DEF n
  <2>1. 1 \in Int /\ n \in Int
    BY <1>1
  <2>2. IsFiniteSet(1..n) /\ Cardinality(1..n) = IF 1 > n THEN 0 ELSE n - 1 + 1
    BY <2>1, FS_Interval
  <2> QED  BY <1>1, <2>2
<1> HIDE DEF n, D
<1>5. Cardinality(T) = n
  BY <1>2, <1>4, SameSize
<1>6. T \in SUBSET S
  BY <1>2
<1>7. T = S
  <2> HIDE DEF T
  <2> QED  BY <1>5, <1>6, FS_Subset DEF n
<1>8. \A x \in S : \E i \in D : keys[i] = x
  BY <1>7
<1> QED  BY <1>1, <1>3, <1>8 DEF n, D

LEMMA KeysAre ==
  /\ IsFiniteSet(KeysUnder(Worlds)) /\ 2 * Cardinality(KeysUnder(Worlds)) <= B2
  /\ KeysUnder(Worlds) \subseteq Worlds
<1> DEFINE S == KeysUnder(Worlds)
<1>1. S \in SUBSET Worlds
  BY DEF KeysUnder
<1>2. IsFiniteSet(Worlds) /\ 2 * Cardinality(Worlds) <= B2
  BY JourneyTypes DEF B2
<1> HIDE DEF S
<1>3. IsFiniteSet(S) /\ Cardinality(S) <= Cardinality(Worlds)
  BY <1>1, <1>2, FS_Subset
<1>4. Cardinality(S) \in Nat /\ Cardinality(Worlds) \in Nat
  BY <1>2, <1>3, FS_CardinalityType
<1> QED  BY <1>1, <1>2, <1>3, <1>4, Powers DEF S

IsListing(infos) ==
  /\ Len(infos) = Cardinality(Listing)
  /\ {infos[i] : i \in 1..Len(infos)} = Listing

LEMMA ListedOnce ==
  ASSUME StoreInv, NEW keys \in SetToSeqs(KeysUnder(Worlds))
  PROVE  /\ keys \in Seq(KeysUnder(Worlds)) /\ 2 * Len(keys) <= B2
         /\ IsListing(InfosOf(keys))
<1> DEFINE S == KeysUnder(Worlds)
           n == Len(keys)
           f == [k \in S |-> announced[k][1]]
<1>1. IsFiniteSet(S) /\ 2 * Cardinality(S) <= B2 /\ S \subseteq Worlds
  BY KeysAre
<1>2. /\ keys \in Seq(S) /\ n = Cardinality(S) /\ Cardinality(S) \in Nat
      /\ \A x \in S : \E i \in 1..n : keys[i] = x
  BY <1>1, EachOnce
<1>3. \A k \in S : announced[k][1] \in Infos[k]
  <2> SUFFICES ASSUME NEW k \in S PROVE announced[k][1] \in Infos[k]
    OBVIOUS
  <2>1. k \in Servers /\ k \in DOMAIN entries
    BY <1>1 DEF KeysUnder, Servers
  <2> QED  BY <2>1, StoredInfo DEF IsRead
<1>4. \A k \in S, l \in S : f[k] = f[l] => k = l
  <2> SUFFICES ASSUME NEW k \in S, NEW l \in S, k # l PROVE f[k] # f[l]
    OBVIOUS
  <2>1. Infos[k] \cap Infos[l] = {}
    BY <1>1, JourneyTypes
  <2>2. f[k] \in Infos[k] /\ f[l] \in Infos[l]
    BY <1>3
  <2> QED  BY <2>1, <2>2
<1>5. Listing = {f[k] : k \in S}
  BY DEF Listing
<1>6. Cardinality(Listing) = n
  <2> HIDE DEF f, S
  <2> QED  BY <1>1, <1>2, <1>4, <1>5, SameSize
<1>7. n \in Nat /\ \A i \in 1..n : keys[i] \in S
  BY <1>2, ElementOfSeq
<1> DEFINE infos == InfosOf(keys)
<1>8. Len(infos) = n /\ \A i \in 1..n : infos[i] = announced[keys[i]][1]
  BY <1>7 DEF InfosOf
<1>9. {infos[i] : i \in 1..n} = Listing
  <2> HIDE DEF infos, S, n, f
  <2>1. \A i \in 1..n : infos[i] \in Listing
    BY <1>7, <1>8 DEF Listing, S
  <2>2. ASSUME NEW x \in Listing PROVE \E i \in 1..n : infos[i] = x
    <3>1. PICK k \in S : x = announced[k][1]
      BY DEF Listing, S
    <3>2. PICK i \in 1..n : keys[i] = k
      BY <1>2
    <3> QED  BY <1>8, <3>1, <3>2
  <2> QED  BY <2>1, <2>2
<1> QED  BY <1>1, <1>2, <1>6, <1>8, <1>9 DEF IsListing

(* What Login tells the client of them.                                    *)
RowOf(w) == <<w[3], w[1], w[2], w[4]>>
RowsOf(worlds) == [i \in DOMAIN worlds |-> RowOf(worlds[i])]
Fields == Seq(Bytes) \cup Nat

IsWorldRow(row) ==
  /\ row \in Seq(Fields) /\ FieldsFit(WorldKinds, row, Bytes)
  /\ Len(Write(WorldKinds, row)) <= B2

(* A world as the player's list shows it.                                  *)
LEMMA WorldRow ==
  ASSUME NEW s \in Worlds, NEW info, NEW value, IsRead(s, info, value)
  PROVE  IsWorldRow(RowOf(info))
<1> DEFINE host == info[1]
           port == info[2]
           name == info[3]
           population == info[4]
           row == <<name, host, port, population>>
<1>1. /\ info \in Infos[s] /\ Len(host) \in Nat /\ Len(name) \in Nat
      /\ 13 + Len(s) + Len(value) <= InternalFrame /\ Len(s) \in Nat
      /\ Len(value) = 10 + Len(host) + Len(name)
  BY DEF IsRead
<1>2. IsString(host) /\ IsU16(port) /\ IsString(name) /\ IsU32(population)
  BY <1>1, JourneyTypes
<1>3. Len(host) < B2 /\ Len(name) < B2 /\ 10 + Len(host) + Len(name) <= B2
  <2> DEFINE a == Len(host)
             b == Len(name)
             c == Len(s)
             d == Len(value)
  <2>1. a \in Nat /\ b \in Nat /\ c \in Nat /\ 13 + c + d <= InternalFrame /\ d = 10 + a + b
    BY <1>1
  <2> HIDE DEF a, b, c, d
  <2>2. a < B2 /\ b < B2 /\ 10 + a + b <= B2
    BY <2>1, Limits, Powers
  <2> QED  BY <2>2 DEF a, b
<1> HIDE DEF host, name, port, population
<1>4. host \in Seq(Bytes) /\ name \in Seq(Bytes) /\ Len(host) \in Nat /\ Len(name) \in Nat
  BY <1>2, StringIs
<1>5. /\ port \in Nat /\ FieldFits("u16", port, Bytes) /\ Size("u16", port) = 2
      /\ IsField("u16", port, Bytes)
      /\ population \in Nat /\ FieldFits("u32", population, Bytes)
      /\ Size("u32", population) = 4 /\ IsField("u32", population, Bytes)
  BY <1>2, NumberField, NumField
<1>6. /\ Size("str16", host) = 2 + Len(host) /\ IsField("str16", host, Bytes)
      /\ FieldFits("str16", host, Bytes)
      /\ Size("str16", name) = 2 + Len(name) /\ IsField("str16", name, Bytes)
      /\ FieldFits("str16", name, Bytes)
  BY <1>3, <1>4, StrField
<1>7. /\ row \in Seq(Fields) /\ Len(row) = 4
      /\ row[1] = name /\ row[2] = host /\ row[3] = port /\ row[4] = population
  BY <1>4, <1>5 DEF Fields
<1>8. Len(Write(WorldKinds, row)) = 10 + Len(host) + Len(name)
  <2> DEFINE v == Write(<<"str16", "str16", "u16", "u32">>, <<name, host, port, population>>)
  <2>1. /\ v \in Seq(Bytes)
        /\ Len(v) = Size("str16", name) + Size("str16", host)
                      + Size("u16", port) + Size("u32", population)
    BY <1>5, <1>6, KindsAre, Sizes4
  <2>2. v = Write(WorldKinds, row)
    BY DEF WorldKinds
  <2>3. (2 + Len(name)) + (2 + Len(host)) + 2 + 4 = 10 + Len(host) + Len(name)
    BY <1>4
  <2> HIDE DEF v, row
  <2> QED  BY <1>5, <1>6, <2>1, <2>2, <2>3, Zenon
<1> HIDE DEF row
<1>9. FieldsFit(WorldKinds, row, Bytes)
  <2>1. /\ Len(WorldKinds) = 4
        /\ WorldKinds[1] = "str16" /\ WorldKinds[2] = "str16"
        /\ WorldKinds[3] = "u16" /\ WorldKinds[4] = "u32"
    BY DEF WorldKinds
  <2>2. \A j \in 1..4 : j = 1 \/ j = 2 \/ j = 3 \/ j = 4
    OBVIOUS
  <2>3. \A j \in 1..4 : WorldKinds[j] \in Kinds /\ FieldFits(WorldKinds[j], row[j], Bytes)
    BY <1>5, <1>6, <1>7, <2>1, <2>2, KindsAre
  <2> QED  BY <1>7, <2>1, <2>3 DEF FieldsFit
<1>10. IsWorldRow(row)
  BY <1>3, <1>7, <1>8, <1>9 DEF IsWorldRow
<1> QED  BY <1>10 DEF RowOf, row, host, name, port, population

(* A message that shows the client the worlds.                             *)
Shown(rows, worlds) ==
  \/ rows = <<>>
  \/ Len(rows) = Cardinality(worlds) /\ ToSet(rows) = {RowOf(w) : w \in worlds}

ShowsWorlds(msg, worlds) ==
  /\ msg \in Payloads
  /\ \E rows : /\ Shown(rows, worlds)
               /\ \/ DecodeLogin(msg) = Nothing
                  \/ DecodeLogin(msg) = Just([op |-> WorldList, fields |-> rows])

(* The list of worlds on its way to the player: whole, or nothing of it is *)
(* decoded.                                                                *)
LEMMA ListMessage ==
  ASSUME NEW rows, ListFits(WorldKinds, rows, Fields)
  PROVE  /\ EncodeWorldList(rows) \in Payloads
         /\ \/ DecodeLogin(EncodeWorldList(rows)) = Nothing
            \/ DecodeLogin(EncodeWorldList(rows))
                 = Just([op |-> WorldList, fields |-> rows])
<1> DEFINE w == WriteRows(WorldKinds, rows)
           n == Number(WorldList, 2)
           body == Cat(n, w)
<1>1. ListIs(WorldKinds, rows)
  BY ListSize
<1>2. w \in Seq(Bytes) /\ Len(w) \in Nat /\ 10 + Len(w) < B4 /\ Fits(Len(rows), 4)
  BY <1>1 DEF ListIs
<1>3. EncodeWorldList(rows) = body
  BY Zenon DEF EncodeWorldList, Cat, WorldKinds
<1>4. n \in Seq(Bytes) /\ Len(n) = 2
  <2>1. WorldList \in Nat /\ 2 \in Nat
    BY DEF WorldList
  <2> QED  BY <2>1, NumberIs
<1> HIDE DEF n, w
<1>5. body \in Seq(Bytes) /\ Len(body) = 2 + Len(w)
  BY <1>2, <1>4, CatIs
<1> HIDE DEF body
<1>6. body \in Payloads
  <2>1. Len(body) < B4
    BY <1>2, <1>5, Powers
  <2> QED  BY <1>5, <2>1 DEF Payloads
<1>7. DecodeLogin(EncodeWorldList(rows)) = IF Len(rows) > MaxWorlds THEN Nothing
                                           ELSE Just([op |-> WorldList, fields |-> rows])
  <2>1. rows \in Seq(Seq(Fields)) /\ RowsFit(WorldKinds, rows, Fields, Bytes)
    BY DEF ListFits
  <2> QED  BY <1>2, <2>1, KindsAre, WorldListArrives
<1> QED  BY <1>3, <1>6, <1>7

LEMMA WorldsShown ==
  ASSUME StoreInv, NEW keys \in SetToSeqs(KeysUnder(Worlds)) \cup {<<>>}
  PROVE  ShowsWorlds(EncodeWorldList(RowsOf(ListWorlds(keys))), Listing)
<1> DEFINE worlds == ListWorlds(keys)
           rows == RowsOf(worlds)
<1>1. /\ keys \in Seq(KeysUnder(Worlds)) /\ 2 * Len(keys) <= B2
      /\ (keys = <<>> \/ IsListing(InfosOf(keys)))
  <2>1. CASE keys \in SetToSeqs(KeysUnder(Worlds))
    BY <2>1, ListedOnce
  <2>2. CASE keys = <<>>
    <3>1. Len(keys) = 0 /\ keys \in Seq(KeysUnder(Worlds))
      BY <2>2
    <3> QED  BY <2>2, <3>1, Powers
  <2> QED  BY <2>1, <2>2
<1>2. worlds = <<>> \/ worlds = InfosOf(keys)
  BY <1>1, WorldsListed
<1>3. worlds = <<>> \/ (worlds = InfosOf(keys) /\ IsListing(worlds))
  <2>1. keys = <<>> => InfosOf(keys) = <<>>
    <3>1. InfosOf(<<>>) = <<>>
      BY DEF InfosOf
    <3> QED  BY <3>1
  <2> HIDE DEF worlds
  <2> QED  BY <1>1, <1>2, <2>1
<1>4. CASE worlds = <<>>
  <2>1. rows = <<>>
    <3>1. RowsOf(<<>>) = <<>>
      BY DEF RowsOf
    <3> HIDE DEF worlds
    <3> QED  BY <1>4, <3>1
  <2> DEFINE none == <<>>
  <2>2. Len(none) = 0 /\ none \in Seq(Seq(Fields))
    OBVIOUS
  <2> HIDE DEF rows, none
  <2>3. rows = none
    BY <2>1 DEF none
  <2>4. ListFits(WorldKinds, none, Fields)
    BY <2>2, ListKinds, Powers DEF ListFits, RowsFit
  <2>5. ListFits(WorldKinds, rows, Fields)
    BY <2>3, <2>4
  <2>6. Shown(rows, Listing)
    BY <2>1 DEF Shown
  <2>7. ShowsWorlds(EncodeWorldList(rows), Listing)
    BY <2>5, <2>6, ListMessage DEF ShowsWorlds
  <2> QED  BY <2>7 DEF rows
<1>5. CASE worlds = InfosOf(keys) /\ IsListing(worlds)
  <2> DEFINE n == Len(keys)
  <2>1. n \in Nat /\ \A i \in 1..n : keys[i] \in KeysUnder(Worlds)
    BY <1>1, LenProperties, ElementOfSeq
  <2>2. /\ DOMAIN worlds = 1..n /\ Len(worlds) = n
        /\ \A i \in 1..n : worlds[i] = announced[keys[i]][1]
    <3> DEFINE infos == InfosOf(keys)
    <3>1. /\ DOMAIN infos = 1..n /\ Len(infos) = n
          /\ \A i \in 1..n : infos[i] = announced[keys[i]][1]
      BY <2>1 DEF InfosOf
    <3> HIDE DEF worlds, infos
    <3>2. worlds = infos
      BY <1>5 DEF infos
    <3> QED  BY <3>1, <3>2
  <2> HIDE DEF worlds
  <2>3. rows = [i \in 1..n |-> RowOf(worlds[i])]
    BY <2>2 DEF RowsOf
  <2>4. ASSUME NEW i \in 1..n PROVE IsWorldRow(RowOf(worlds[i]))
    <3> DEFINE s == keys[i]
    <3>1. s \in Worlds /\ s \in Servers /\ s \in DOMAIN entries
      BY <2>1 DEF KeysUnder, Servers
    <3> HIDE DEF s
    <3>2. IsRead(s, announced[s][1], entries[s])
      BY <3>1, StoredInfo
    <3>3. IsWorldRow(RowOf(announced[s][1]))
      BY <3>1, <3>2, WorldRow
    <3>4. worlds[i] = announced[s][1]
      BY <2>2 DEF s
    <3> QED  BY <3>3, <3>4
  <2>5. \A i \in 1..n : rows[i] = RowOf(worlds[i])
    BY <2>3
  <2>6. rows = [i \in 1..n |-> rows[i]]
    BY <2>3
  <2> HIDE DEF n, rows
  <2>7. \A i \in 1..n : /\ rows[i] \in Seq(Fields) /\ FieldsFit(WorldKinds, rows[i], Bytes)
                        /\ Len(Write(WorldKinds, rows[i])) <= B2
    BY <2>4, <2>5 DEF IsWorldRow
  <2>8. rows \in Seq(Seq(Fields)) /\ Len(rows) = n
    <3> DEFINE T == Seq(Fields)
    <3>1. rows \in [1..n -> T]
      BY <2>6, <2>7
    <3> HIDE DEF T
    <3>2. rows \in Seq(T) /\ Len(rows) = n
      BY <2>1, <3>1, SequenceOf
    <3> QED  BY <3>2 DEF T
  <2>9. ListFits(WorldKinds, rows, Fields)
    <3>1. RowsFit(WorldKinds, rows, Fields, Bytes)
      BY <2>7, <2>8 DEF RowsFit
    <3>2. 2 * Len(rows) <= B2
      BY <1>1, <2>8 DEF n
    <3> QED  BY <2>7, <2>8, <3>1, <3>2, ListKinds DEF ListFits
  <2>10. Shown(rows, Listing)
    <3>1. n = Cardinality(Listing) /\ {worlds[i] : i \in 1..n} = Listing
      BY <1>5, <2>2 DEF IsListing
    <3>2. DOMAIN rows = 1..n
      BY <2>6
    <3>3. ToSet(rows) = {RowOf(w) : w \in Listing}
      BY <2>5, <3>1, <3>2 DEF ToSet
    <3> QED  BY <2>8, <3>1, <3>3 DEF Shown
  <2>11. ShowsWorlds(EncodeWorldList(rows), Listing)
    BY <2>9, <2>10, ListMessage DEF ShowsWorlds
  <2> QED  BY <2>11 DEF rows, worlds
<1> QED  BY <1>3, <1>4, <1>5

(* Of what is carried, one message or two.                                 *)
CarriesOne(s, p) == Carries(s, <<p>>)
CarriesTwo(s, p, q) == Carries(s, <<p, q>>)

(* What one or two messages on a stream are read as.                       *)
OneRead(o, p, limit) ==
  o[1].read = p /\ o[1].rest = <<>> /\ Len(p) \in 1..limit

(* The next frame of a stream, when one or two were sent.                  *)
LEMMA OneArrives ==
  ASSUME NEW s, NEW p, CarriesOne(s, p), NEW limit \in Nat, Receive(s, limit) # Nothing
  PROVE  OneRead(Receive(s, limit), p, limit) /\ s # <<>>
<1>1. Carries(s, <<p>>)
  BY DEF CarriesOne
<1>2. HasFirst(Receive(s, limit), s, <<p>>, limit)
  BY <1>1, Arrives
<1> DEFINE o == Receive(s, limit)
<1>3. o[1].read = p /\ Len(p) \in 1..limit /\ o[1].rest = <<>>
  BY <1>2, FirstOfOne
<1>4. s # <<>>
  BY NothingInNothing
<1> QED  BY <1>3, <1>4 DEF OneRead

TwoRead(o, p, q, limit) ==
  o[1].read = p /\ CarriesOne(o[1].rest, q) /\ Len(p) \in 1..limit

LEMMA TwoArrive ==
  ASSUME NEW s, NEW p, NEW q, CarriesTwo(s, p, q), NEW limit \in Nat,
         Receive(s, limit) # Nothing
  PROVE  TwoRead(Receive(s, limit), p, q, limit)
<1>1. Carries(s, <<p, q>>)
  BY DEF CarriesTwo
<1>2. HasFirst(Receive(s, limit), s, <<p, q>>, limit)
  BY <1>1, Arrives
<1> DEFINE o == Receive(s, limit)
<1>3. o[1].read = p /\ Len(p) \in 1..limit /\ Carries(o[1].rest, <<q>>)
  BY <1>2, FirstOfTwo
<1> QED  BY <1>3 DEF TwoRead, CarriesOne

LEMMA CarriedIs ==
  ASSUME NEW s, NEW ps, Carries(s, ps)
  PROVE  s \in Seq(Bytes)
  BY DEF Carries

LEMMA Sent ==
  ASSUME NEW p \in Payloads
  PROVE  /\ CarriesOne(Frame(p), p) /\ CarriesOne(<<>>, p)
         /\ <<>> \o Frame(p) = Frame(p)
         /\ Frame(p) \in Seq(Bytes)
<1>1. Carries(Frame(p), <<p>>) /\ Carries(<<>>, <<p>>) /\ Cat(<<>>, Frame(p)) = Frame(p)
  BY OneFrame
<1>2. <<>> \o Frame(p) = Frame(p)
  BY <1>1, Zenon DEF Cat
<1> QED  BY <1>1, <1>2, FrameIs DEF CarriesOne

LEMMA SentTwo ==
  ASSUME NEW p \in Payloads, NEW q \in Payloads
  PROVE  /\ CarriesTwo(Frame(p) \o Frame(q), p, q) /\ CarriesTwo(<<>>, p, q)
         /\ <<>> \o (Frame(p) \o Frame(q)) = Frame(p) \o Frame(q)
         /\ Frame(p) \o Frame(q) \in Seq(Bytes)
<1>1. <<p, q>> \in Seq(Payloads) /\ Frames(<<p, q>>) = Cat(Frame(p), Frame(q))
  BY FramesFew
<1>2. Carries(Frames(<<p, q>>), <<p, q>>) /\ Carries(<<>>, <<p, q>>)
  BY <1>1, Whole
<1>3. Frame(p) \o Frame(q) = Frames(<<p, q>>)
  BY <1>1, Zenon DEF Cat
<1>4. Frames(<<p, q>>) \in Seq(Bytes)
  BY <1>1, FramesType
<1>5. Cat(<<>>, Frames(<<p, q>>)) = Frames(<<p, q>>)
  BY <1>4, CatEmpty
<1>6. <<>> \o Frames(<<p, q>>) = Frames(<<p, q>>)
  BY <1>5, Zenon DEF Cat
<1> QED  BY <1>2, <1>3, <1>4, <1>6, Zenon DEF CarriesTwo

(* What the two records of the journey are after a field has changed.      *)
SeenIs(r, redirect, challenge, proof, worlds, echoes) ==
  r = [redirect |-> redirect, challenge |-> challenge, proof |-> proof,
       worlds |-> worlds, echoes |-> echoes]

(* The records of what each side has, one field at a time.                 *)
LEMMA SeenFields ==
  ASSUME NEW r, NEW v1, NEW v2, NEW v3, NEW v4, NEW v5, SeenIs(r, v1, v2, v3, v4, v5)
  PROVE  /\ r.redirect = v1 /\ r.challenge = v2 /\ r.proof = v3 /\ r.worlds = v4
         /\ r.echoes = v5
         /\ SeenIs(r, r.redirect, r.challenge, r.proof, r.worlds, r.echoes)
  BY DEF SeenIs

LEMMA SeenExcept ==
  ASSUME NEW r, SeenIs(r, r.redirect, r.challenge, r.proof, r.worlds, r.echoes), NEW v
  PROVE  /\ SeenIs([r EXCEPT !.redirect = v],
                   v, r.challenge, r.proof, r.worlds, r.echoes)
         /\ SeenIs([r EXCEPT !.challenge = v],
                   r.redirect, v, r.proof, r.worlds, r.echoes)
         /\ SeenIs([r EXCEPT !.proof = v],
                   r.redirect, r.challenge, v, r.worlds, r.echoes)
         /\ SeenIs([r EXCEPT !.worlds = v],
                   r.redirect, r.challenge, r.proof, v, r.echoes)
         /\ SeenIs([r EXCEPT !.echoes = v],
                   r.redirect, r.challenge, r.proof, r.worlds, v)
  BY DEF SeenIs

KnownIs(r, user, proof, token, player) ==
  r = [user |-> user, proof |-> proof, token |-> token, player |-> player]

LEMMA KnownExcept ==
  ASSUME NEW r, KnownIs(r, r.user, r.proof, r.token, r.player), NEW v
  PROVE  /\ KnownIs([r EXCEPT !.user = v], v, r.proof, r.token, r.player)
         /\ KnownIs([r EXCEPT !.proof = v], r.user, v, r.token, r.player)
         /\ KnownIs([r EXCEPT !.token = v], r.user, r.proof, v, r.player)
         /\ KnownIs([r EXCEPT !.player = v], r.user, r.proof, r.token, v)
  BY DEF KnownIs

LEMMA KnownFields ==
  ASSUME NEW r, NEW v1, NEW v2, NEW v3, NEW v4, KnownIs(r, v1, v2, v3, v4)
  PROVE  /\ r.user = v1 /\ r.proof = v2 /\ r.token = v3 /\ r.player = v4
         /\ KnownIs(r, r.user, r.proof, r.token, r.player)
  BY DEF KnownIs

SentIs(r, challenge, clientProof, proof) ==
  r = [challenge |-> challenge, clientProof |-> clientProof, proof |-> proof]

LEMMA SentExcept ==
  ASSUME NEW r, SentIs(r, r.challenge, r.clientProof, r.proof), NEW v
  PROVE  /\ SentIs([r EXCEPT !.challenge = v], v, r.clientProof, r.proof)
         /\ SentIs([r EXCEPT !.clientProof = v], r.challenge, v, r.proof)
         /\ SentIs([r EXCEPT !.proof = v], r.challenge, r.clientProof, v)
  BY DEF SentIs

LEMMA SentFields ==
  ASSUME NEW r, NEW v1, NEW v2, NEW v3, SentIs(r, v1, v2, v3)
  PROVE  /\ r.challenge = v1 /\ r.clientProof = v2 /\ r.proof = v3
         /\ SentIs(r, r.challenge, r.clientProof, r.proof)
  BY DEF SentIs

-----------------------------------------------------------------------------
(* Where a journey is, step by step.  Nothing has been sent to a client    *)
(* that is at home, or nothing that is not in its records.                 *)
Records ==
  /\ SeenIs(seen, seen.redirect, seen.challenge, seen.proof, seen.worlds, seen.echoes)
  /\ KnownIs(known, known.user, known.proof, known.token, known.player)
  /\ SentIs(sent, sent.challenge, sent.clientProof, sent.proof)

(* What the streams and the session are made of.                           *)
ConnectionInv ==
  /\ at \in {"home", "master", "login", "world"} /\ open \in BOOLEAN
  /\ session \in {"start", "proof", "issuing", "listing", "done", "entering",
                  "auth", "closed"}
  /\ up \in Seq(Bytes) /\ down \in Seq(Bytes)
  /\ session = "closed" => ~open /\ up = <<>>

HomeInv == at = "home" => AtHome

MasterSent(s) == \E msg : MasterSays(msg) /\ CarriesOne(s, msg)

MasterInv ==
  at = "master" =>
    /\ session \in {"start", "closed"}
    /\ seen = NothingSeen /\ known = NothingKnown /\ sent = NothingSent
    /\ listed = {} /\ packets = <<>>
    /\ CarriesOne(up, <<1>>)
    /\ up = <<>> \/ down = <<>>
    /\ MasterSent(down)

(* Login gets the hello, sends the challenge, gets the proof, sends its    *)
(* own and the worlds.                                                     *)
TheHello == EncodeLogin(ClientHello, <<Ticket, typed>>)
TheChallenge == EncodeLogin(ServerChallenge, sent.challenge[1])
TheProof == EncodeLogin(ClientProof, sent.clientProof[1])
TheAnswer == EncodeLogin(ServerProof, sent.proof[1])

IsChallenge(o) == \E salt \in Salts, B \in PublicKeys : o = Just(<<salt, B>>)
IsProof(o) == \E A \in PublicKeys, M1 \in Hashes : o = Just(<<A, M1>>)
IsAnswer(o) == \E M2 \in Hashes : o = Just(<<M2, Token>>)

BothSent(s, answer, worlds) ==
  \E msg : ShowsWorlds(msg, worlds) /\ CarriesTwo(s, answer, msg)
WorldsSent(s, worlds) == \E msg : ShowsWorlds(msg, worlds) /\ CarriesOne(s, msg)
WorldsSeen(o, worlds) == \E rows : Shown(rows, worlds) /\ o = Just(rows)

(* The hello is on its way up, then the challenge down, the proof up, then *)
(* the answer and the worlds down, where the player may have read the      *)
(* answer before the worlds follow, or not.                                *)
Asking ==
  /\ session \in {"start", "closed"}
  /\ sent = NothingSent /\ known = NothingKnown
  /\ seen.challenge = Nothing /\ seen.proof = Nothing /\ seen.worlds = Nothing
  /\ session = "start" => CarriesOne(up, TheHello)
  /\ down = <<>>

Challenged ==
  /\ session \in {"proof", "closed"}
  /\ IsChallenge(sent.challenge) /\ sent.clientProof = Nothing /\ sent.proof = Nothing
  /\ known.user = Just(typed) /\ known.proof = Nothing
  /\ seen.challenge = Nothing /\ seen.proof = Nothing /\ seen.worlds = Nothing
  /\ up = <<>> /\ CarriesOne(down, TheChallenge)

Proving ==
  /\ session \in {"proof", "closed"}
  /\ IsChallenge(sent.challenge) /\ IsProof(sent.clientProof) /\ sent.proof = Nothing
  /\ known.user = Just(typed) /\ known.proof = Nothing
  /\ seen.challenge = sent.challenge /\ seen.proof = Nothing /\ seen.worlds = Nothing
  /\ session = "proof" => CarriesOne(up, TheProof)
  /\ down = <<>>

Accepted ==
  /\ IsChallenge(sent.challenge) /\ IsProof(sent.clientProof)
  /\ known.user = Just(typed) /\ known.proof = sent.clientProof
  /\ seen.challenge = sent.challenge /\ up = <<>>

Issuing ==
  /\ Accepted /\ session \in {"issuing", "closed"} /\ sent.proof = Nothing
  /\ seen.proof = Nothing /\ seen.worlds = Nothing
  /\ down = <<>>

Replied == Accepted /\ IsAnswer(sent.proof)

Answering ==
  /\ Replied /\ session \in {"listing", "closed"}
  /\ seen.proof = Nothing /\ seen.worlds = Nothing
  /\ CarriesOne(down, TheAnswer)
  /\ open => down = Frame(TheAnswer)

Waiting ==
  /\ Replied /\ session \in {"listing", "closed"}
  /\ seen.proof = sent.proof /\ seen.worlds = Nothing
  /\ down = <<>>

Answered ==
  /\ Replied /\ session \in {"done", "closed"}
  /\ seen.proof = Nothing /\ seen.worlds = Nothing
  /\ BothSent(down, TheAnswer, listed)

Proved ==
  /\ Replied /\ session \in {"done", "closed"}
  /\ seen.proof = sent.proof /\ seen.worlds = Nothing
  /\ WorldsSent(down, listed)

Listed ==
  /\ Replied /\ session \in {"done", "closed"}
  /\ seen.proof = sent.proof
  /\ WorldsSeen(seen.worlds, listed)
  /\ down = <<>>

LoginInv ==
  at = "login" =>
    /\ packets = <<>> /\ seen.echoes = <<>> /\ known.player = Nothing
    /\ \/ Asking \/ Challenged \/ Proving \/ Issuing \/ Answering
       \/ Waiting \/ Answered \/ Proved \/ Listed

(* World gets the token, then packets, some of which it sends back.        *)
EchoOf(payload) ==
  IF Echoed(payload) THEN <<SubSeq(payload, 3, Len(payload))>> ELSE <<>>
EchoesOf(ps) == FlattenSeq([i \in 1..Len(ps) |-> EchoOf(ps[i])])

PacketsOf(ps) == IF session = "start" THEN Tail(ps) ELSE ps

(* The packets and the echoes that are on their way: what was seen, the    *)
(* echoes under way and those of the packets that World has still to read  *)
(* are the moves sent, or a part of them once the connection is cut.       *)
Travelling(ps, answers) ==
  /\ Carries(up, ps) /\ Carries(down, answers)
  /\ session = "start" => ps # <<>> /\ Head(ps) = Token
  /\ PartOf(Cat(seen.echoes, answers), MovesIn(packets))
  /\ open => /\ up = Frames(ps) /\ down = Frames(answers)
             /\ Cat(Cat(seen.echoes, answers), EchoesOf(PacketsOf(ps)))
                  = MovesIn(packets)

OnTheWay == \E ps, answers : Travelling(ps, answers)

WorldInv ==
  at = "world" =>
    /\ session \in {"start", "entering", "auth", "closed"}
    /\ session = "entering" => known.token = Just(Token)
    /\ sent = NothingSent /\ known.proof = Nothing /\ listed = {}
    /\ known.user = Just(typed) /\ known.player \in {Nothing, Just(typed)}
    /\ seen.redirect = Nothing /\ seen.challenge = Nothing
    /\ seen.proof = Nothing /\ seen.worlds = Nothing
    /\ seen.echoes \in Seq(Payloads)
    /\ packets \in Seq(Opcodes \X Bodies)
    /\ OnTheWay

(* The inductive invariant: what the store holds, and of each place where  *)
(* the player may be, what is on the streams.                              *)
IInv ==
  /\ StoreInv /\ Records /\ ConnectionInv /\ RedirectAnnounced
  /\ HomeInv /\ MasterInv /\ LoginInv /\ WorldInv

(* The store keeps what its keys stand for.                                *)
LEMMA SameStored ==
  ASSUME StoreInv, UNCHANGED <<entries, announced, typed>>
  PROVE  StoreInv'
  BY DEF StoreInv

(* An entry that expires or is taken leaves the others as they were.       *)
LEMMA FewerStored ==
  ASSUME StoreInv, NEW gone,
         entries' = [k \in DOMAIN entries \ gone |-> entries[k]],
         announced' = [s \in Servers |-> announced'[s]],
         \A s \in Servers \ gone : announced'[s] = announced[s],
         typed' = typed
  PROVE  StoreInv'
<1>1. /\ DOMAIN entries' \subseteq DOMAIN entries
      /\ \A k \in DOMAIN entries' : entries'[k] = entries[k] /\ k \notin gone
  OBVIOUS
<1>2. DOMAIN entries' \subseteq Servers \cup {Ticket, Token}
  BY <1>1 DEF StoreInv
<1>3. \A s \in Servers : s \in DOMAIN entries' =>
        \E info : announced'[s] = Just(info) /\ Told(s, info, entries'[s])
  BY <1>1 DEF StoreInv
<1>4. /\ Ticket \in DOMAIN entries' => entries'[Ticket] = <<>>
      /\ Token \in DOMAIN entries' => entries'[Token] = typed' /\ Len(typed') < InternalFrame
      /\ typed' \in Usernames
  BY <1>1 DEF StoreInv
<1> QED  BY <1>2, <1>3, <1>4 DEF StoreInv

LEMMA ForgetStored ==
  ASSUME StoreInv, NEW servers, ForgetServers(servers), typed' = typed
  PROVE  StoreInv'
<1>1. /\ entries' = [k \in DOMAIN entries \ servers |-> entries[k]]
      /\ announced' = [s \in Servers |-> IF s \in servers THEN Nothing ELSE announced[s]]
  BY DEF ForgetServers
<1>2. /\ announced' = [s \in Servers |-> announced'[s]]
      /\ \A s \in Servers \ servers : announced'[s] = announced[s]
  BY <1>1
<1> QED  BY <1>1, <1>2, FewerStored

(* The keys under which the store has tickets, tokens and servers differ,  *)
(* so a put under one leaves what the others stand for.                    *)
LEMMA Apart ==
  Ticket \notin Servers /\ Token \notin Servers /\ Ticket # Token
  BY JourneyAssumption DEF Servers

LEMMA TicketStored ==
  ASSUME StoreInv, entries' = With(Ticket, <<>>), UNCHANGED <<announced, typed>>
  PROVE  StoreInv'
<1>1. /\ DOMAIN entries' = DOMAIN entries \cup {Ticket} /\ entries'[Ticket] = <<>>
      /\ \A k \in DOMAIN entries : k # Ticket => entries'[k] = entries[k]
  BY DEF With
<1>2. \A s \in Servers : s \in DOMAIN entries' =>
        \E info : announced'[s] = Just(info) /\ Told(s, info, entries'[s])
  BY <1>1, Apart DEF StoreInv
<1>3. Token \in DOMAIN entries' => entries'[Token] = typed' /\ Len(typed') < InternalFrame
  BY <1>1, Apart DEF StoreInv
<1> QED  BY <1>1, <1>2, <1>3 DEF StoreInv

LEMMA TokenStored ==
  ASSUME StoreInv, entries' = With(Token, typed), Len(typed) < InternalFrame,
         UNCHANGED <<announced, typed>>
  PROVE  StoreInv'
<1>1. /\ DOMAIN entries' = DOMAIN entries \cup {Token} /\ entries'[Token] = typed
      /\ \A k \in DOMAIN entries : k # Token => entries'[k] = entries[k]
  BY DEF With
<1>2. \A s \in Servers : s \in DOMAIN entries' =>
        \E info : announced'[s] = Just(info) /\ Told(s, info, entries'[s])
  BY <1>1, Apart DEF StoreInv
<1>3. Ticket \in DOMAIN entries' => entries'[Ticket] = <<>>
  BY <1>1, Apart DEF StoreInv
<1> QED  BY <1>1, <1>2, <1>3 DEF StoreInv

LEMMA ServerStored ==
  ASSUME StoreInv, NEW s \in Servers, NEW info \in Infos[s], NEW value,
         Told(s, info, value), entries' = With(s, value),
         announced' = [announced EXCEPT ![s] = Just(info)], typed' = typed
  PROVE  StoreInv'
<1>1. /\ DOMAIN entries' = DOMAIN entries \cup {s} /\ entries'[s] = value
      /\ \A k \in DOMAIN entries : k # s => entries'[k] = entries[k]
  BY DEF With
<1>2. /\ announced' = [r \in Servers |-> announced'[r]] /\ announced'[s] = Just(info)
      /\ \A r \in Servers : r # s => announced'[r] = announced[r]
  BY DEF StoreInv
<1>3. ASSUME NEW r \in Servers, r \in DOMAIN entries'
      PROVE  \E i : announced'[r] = Just(i) /\ Told(r, i, entries'[r])
  <2>1. CASE r = s
    BY <2>1, <1>1, <1>2
  <2>2. CASE r # s
    BY <2>2, <1>1, <1>2, <1>3 DEF StoreInv
  <2> QED  BY <2>1, <2>2
<1>4. /\ Ticket \in DOMAIN entries' => entries'[Ticket] = <<>>
      /\ Token \in DOMAIN entries' => entries'[Token] = typed' /\ Len(typed') < InternalFrame
  BY <1>1, Apart DEF StoreInv
<1>5. DOMAIN entries' \subseteq Servers \cup {Ticket, Token} /\ typed' \in Usernames
  BY <1>1 DEF StoreInv
<1> QED  BY <1>2, <1>3, <1>4, <1>5 DEF StoreInv

(* What does not depend on the store.                                      *)
RestInv ==
  Records /\ ConnectionInv /\ RedirectAnnounced /\ HomeInv /\ MasterInv
  /\ LoginInv /\ WorldInv

(* A step of a server with the store alone leaves the connection's         *)
(* invariants.                                                             *)
LEMMA RestSame ==
  ASSUME RestInv, UNCHANGED <<typed, connection, seen, known, listed, sent, packets>>
  PROVE  RestInv'
<1>0. /\ UNCHANGED <<typed, seen, known, listed, sent, packets>>
      /\ UNCHANGED <<at, open, up, down, session>>
  BY DEF connection
<1>1. Records' /\ ConnectionInv' /\ RedirectAnnounced' /\ HomeInv'
  BY <1>0 DEF RestInv, Records, ConnectionInv, RedirectAnnounced, HomeInv, AtHome
<1>2. MasterInv'
  BY <1>0 DEF RestInv, MasterInv
<1>3. LoginInv'
  BY <1>0 DEF RestInv, LoginInv, Asking, Challenged, Proving, Issuing, Answering,
       Waiting, Answered, Proved, Listed, Accepted, Replied, TheHello, TheChallenge,
       TheProof, TheAnswer
<1>4. OnTheWay => OnTheWay'
  BY <1>0 DEF OnTheWay, Travelling, PacketsOf
<1>5. WorldInv'
  BY <1>0, <1>4 DEF RestInv, WorldInv
<1> QED  BY <1>1, <1>2, <1>3, <1>5 DEF RestInv

(* A body made of short strings can be counted.                            *)
LEMMA ShortSum ==
  ASSUME NEW a \in Nat, NEW b \in Nat, NEW c \in Nat, a < B3, b < B3, c < B3
  PROVE  13 + a + (4 + b) < B4 /\ 13 + a + (10 + b + c) < B4 /\ 10 + b + c \in Nat
  BY Powers

(* registry_client's put of a server's announcement, new or renewed.       *)
LEMMA AnnounceKeeps ==
  ASSUME IInv, NEW s \in Servers, NEW info \in Infos[s], Announce(s, info)
  PROVE  IInv'
<1> DEFINE value == ServerValue(s, info)
           request == EncodeStore(Put, <<s, value, 15>>)
<1>1. /\ Stored(request) /\ StorePut(request)
      /\ announced' = [announced EXCEPT ![s] = Just(info)]
      /\ UNCHANGED <<typed, connection, seen, known, listed, sent, packets>>
  BY DEF Announce, ServerValue
<1>2. s \in Seq(Bytes) /\ Len(s) \in Nat /\ 10 * Len(s) < B4 /\ Len(s) < B3
  BY StringIs, JourneyTypes
<1>3. value \in Seq(Bytes) /\ Len(value) \in Nat /\ 13 + Len(s) + Len(value) < B4
  <2>1. CASE s \in Logins
    <3>1. value = EncodeLoginInfo(info)
      BY <2>1 DEF ServerValue
    <3>2. IsString(info[1])
      BY <2>1, JourneyTypes
    <3>3. Len(info[1]) < B3 /\ Len(info[1]) \in Nat
      BY <3>2, StringIs
    <3>4. value \in Seq(Bytes) /\ Len(value) = 4 + Len(info[1])
      BY <2>1, <3>1, LoginInfoIs
    <3>5. 13 + Len(s) + (4 + Len(info[1])) < B4
      BY <3>3, <1>2, ShortSum
    <3>6. 13 + Len(s) + Len(value) < B4
      BY <3>4, <3>5, Zenon
    <3>7. Len(value) \in Nat
      BY <3>3, <3>4
    <3> QED  BY <3>4, <3>6, <3>7
  <2>2. CASE s \in Worlds
    <3>1. value = EncodeWorldInfo(info)
      BY <2>2, JourneyAssumption DEF ServerValue
    <3>2. IsString(info[1]) /\ IsString(info[3])
      BY <2>2, JourneyTypes
    <3>3. /\ Len(info[1]) < B3 /\ Len(info[1]) \in Nat
          /\ Len(info[3]) < B3 /\ Len(info[3]) \in Nat
      BY <3>2, StringIs
    <3>4. value \in Seq(Bytes) /\ Len(value) = 10 + Len(info[1]) + Len(info[3])
      BY <2>2, <3>1, WorldInfoIs
    <3>5. 13 + Len(s) + (10 + Len(info[1]) + Len(info[3])) < B4
      BY <3>3, <1>2, ShortSum
    <3>6. 13 + Len(s) + Len(value) < B4
      BY <3>4, <3>5, Zenon
    <3>7. Len(value) \in Nat
      <4>1. 10 + Len(info[1]) + Len(info[3]) \in Nat
        BY <3>3, <1>2, ShortSum
      <4> QED  BY <3>4, <4>1, Zenon
    <3> QED  BY <3>4, <3>6, <3>7
  <2> QED  BY <2>1, <2>2 DEF Servers
<1> HIDE DEF value
<1>4. 15 \in Nat /\ 15 < B4
  BY Powers
<1>5. /\ 13 + Len(s) + Len(value) <= InternalFrame
      /\ AtMaster(request)[1].fields[1] = s /\ AtMaster(request)[1].fields[2] = value
  BY <1>1, <1>2, <1>3, <1>4, PutArrives
<1>6. entries' = With(s, value)
  BY <1>1, <1>5 DEF StorePut
<1>7. Told(s, info, value)
  BY <1>5 DEF Told, value
<1>8. StoreInv'
  BY <1>1, <1>6, <1>7, ServerStored DEF IInv
<1>9. RestInv'
  BY <1>1, RestSame DEF IInv, RestInv
<1> QED  BY <1>8, <1>9 DEF IInv, RestInv

(* An entry of the store at the end of its lifetime.                       *)
LEMMA ExpireKeeps ==
  ASSUME IInv, NEW k \in DOMAIN entries, Expire(k)
  PROVE  IInv'
<1>1. /\ entries' = [j \in DOMAIN entries \ {k} |-> entries[j]]
      /\ announced' = IF k \in Servers THEN [announced EXCEPT ![k] = Nothing] ELSE announced
      /\ UNCHANGED <<typed, connection, seen, known, listed, sent, packets>>
  BY DEF Expire, Without
<1>2. /\ announced' = [s \in Servers |-> announced'[s]]
      /\ \A s \in Servers \ {k} : announced'[s] = announced[s]
  BY <1>1 DEF IInv, StoreInv
<1>3. StoreInv'
  BY <1>1, <1>2, FewerStored DEF IInv
<1>4. RestInv'
  BY <1>1, RestSame DEF IInv, RestInv
<1> QED  BY <1>3, <1>4 DEF IInv, RestInv

(* The player connects to Master.                                          *)
LEMMA ToMasterKeeps ==
  ASSUME IInv, ToMaster
  PROVE  IInv'
<1>1. /\ at = "home" /\ at' = "master" /\ open' = TRUE
      /\ up' = Frame(<<1>>) /\ down' = <<>> /\ session' = "start"
      /\ UNCHANGED <<entries, announced, typed, seen, known, listed, sent, packets>>
  BY DEF ToMaster, ConnectTo, registry
<1>2. <<1>> \in Payloads
  <2>1. <<1>> \in Seq(Bytes) /\ Len(<<1>>) = 1
    BY WireAssumption DEF Bytes
  <2> QED  BY <2>1, Powers DEF Payloads
<1>3. CarriesOne(Frame(<<1>>), <<1>>) /\ Frame(<<1>>) \in Seq(Bytes)
  BY <1>2, Sent
<1>4. EncodeNoLogin \in Payloads /\ MasterSays(EncodeNoLogin)
  BY NoLoginSaid DEF MasterSays
<1>5. MasterSent(<<>>)
  BY <1>4, Sent DEF MasterSent
<1>6. AtHome
  BY <1>1 DEF IInv, HomeInv
<1>7. StoreInv'
  BY <1>1, SameStored DEF IInv
<1>8. Records' /\ ConnectionInv' /\ RedirectAnnounced' /\ HomeInv'
  <2>1. Records' /\ RedirectAnnounced'
    BY <1>1 DEF IInv, Records, RedirectAnnounced
  <2>2. ConnectionInv' /\ HomeInv'
    BY <1>1, <1>3 DEF ConnectionInv, HomeInv
  <2> QED  BY <2>1, <2>2
<1>9. MasterInv'
  BY <1>1, <1>3, <1>5, <1>6 DEF MasterInv, AtHome
<1>10. LoginInv' /\ WorldInv'
  BY <1>1 DEF LoginInv, WorldInv
<1> QED  BY <1>7, <1>8, <1>9, <1>10 DEF IInv

(* Sending a frame on a connection that carried none.                      *)
LEMMA OnlyPayloads ==
  ASSUME NEW s, NEW p, CarriesOne(s, p)
  PROVE  p \in Payloads /\ s \in Seq(Bytes)
<1> DEFINE ps == <<p>>
<1>1. ps \in Seq(Payloads) /\ s \in Seq(Bytes)
  BY DEF CarriesOne, Carries
<1>2. Len(ps) = 1 /\ ps[1] = p
  OBVIOUS
<1> HIDE DEF ps
<1> QED  BY <1>1, <1>2

LEMMA SendOne ==
  ASSUME ConnectionInv, NEW p \in Payloads, down = <<>>, Send(Frame(p))
  PROVE  CarriesOne(down', p) /\ down' \in Seq(Bytes)
<1>1. down' = Frame(p) \/ down' = <<>>
  BY Sent, Zenon DEF Send, ConnectionInv
<1>2. CarriesOne(Frame(p), p) /\ CarriesOne(<<>>, p) /\ Frame(p) \in Seq(Bytes)
  BY Sent
<1>3. CASE down' = Frame(p)
  BY <1>2, <1>3
<1>4. CASE down' = <<>>
  BY <1>2, <1>4
<1> QED  BY <1>1, <1>3, <1>4

(* Master picks a login server and sends the player there, with a ticket   *)
(* that it has put in the store.                                           *)
LEMMA RedirectKeeps ==
  ASSUME IInv, Redirect
  PROVE  IInv'
<1> DEFINE f == Receive(up, InternalFrame)
<1>1. at = "master" /\ f # Nothing /\ up' = f[1].rest
  BY DEF Redirect, Incoming
<1>2. /\ UNCHANGED <<announced, typed, at, open, session, seen, known, listed, sent,
                     packets>>
      /\ \E login \in PickLogin :
           \/ Send(Frame(EncodeNoLogin)) /\ UNCHANGED entries
           \/ /\ login # Nothing /\ entries' = With(Ticket, <<>>)
              /\ Send(Frame(EncodeRedirect(Ticket, login[1][1], login[1][2])))
  BY DEF Redirect
<1>3. CarriesOne(up, <<1>>) /\ (up = <<>> \/ down = <<>>)
  BY <1>1 DEF IInv, MasterInv
<1>4. up # <<>> /\ up' = <<>>
  BY <1>1, <1>3, OneArrives, Limits DEF OneRead
<1> HIDE DEF f
<1>5. down = <<>>
  BY <1>3, <1>4
<1>6. PICK login \in PickLogin :
           \/ Send(Frame(EncodeNoLogin)) /\ UNCHANGED entries
           \/ /\ login # Nothing /\ entries' = With(Ticket, <<>>)
              /\ Send(Frame(EncodeRedirect(Ticket, login[1][1], login[1][2])))
  BY <1>2
<1>7. /\ entries' = entries \/ entries' = With(Ticket, <<>>)
      /\ \E msg : MasterSays(msg) /\ Send(Frame(msg))
  <2>1. CASE Send(Frame(EncodeNoLogin)) /\ UNCHANGED entries
    BY <2>1, NoLoginSaid
  <2>2. CASE /\ login # Nothing /\ entries' = With(Ticket, <<>>)
             /\ Send(Frame(EncodeRedirect(Ticket, login[1][1], login[1][2])))
    <3>1. PICK k \in KeysUnder(Logins) : login = DecodeLoginInfo(entries[k])
      BY <2>2 DEF PickLogin
    <3>2. k \in Logins /\ k \in Servers /\ k \in DOMAIN entries
      BY DEF KeysUnder, Servers
    <3> DEFINE info == announced[k][1]
    <3>3. IsRead(k, info, entries[k])
      BY <3>2, StoredInfo DEF IInv
    <3> HIDE DEF info
    <3>4. info \in Infos[k] /\ Len(info[1]) < B2 /\ login = Just(info)
      BY <3>1, <3>2, <3>3 DEF IsRead
    <3>5. MasterSays(EncodeRedirect(Ticket, info[1], info[2]))
      BY <3>2, <3>4, RedirectSaid
    <3>6. login[1] = info
      BY <3>4, JustIs
    <3> QED  BY <2>2, <3>5, <3>6
  <2> QED  BY <1>6, <2>1, <2>2
<1>8. PICK msg : MasterSays(msg) /\ Send(Frame(msg))
  BY <1>7
<1>9. CarriesOne(down', msg) /\ down' \in Seq(Bytes)
  BY <1>5, <1>8, SendOne DEF MasterSays, IInv
<1>10. MasterSent(down')
  BY <1>8, <1>9 DEF MasterSent
<1>11. <<1>> \in Payloads
  BY <1>3, OnlyPayloads
<1>12. CarriesOne(<<>>, <<1>>)
  BY <1>11, Sent
<1>13. StoreInv'
  BY <1>2, <1>7, SameStored, TicketStored DEF IInv
<1>14. Records' /\ RedirectAnnounced'
  BY <1>2 DEF IInv, Records, RedirectAnnounced
<1>15. ConnectionInv'
  BY <1>2, <1>4, <1>9 DEF IInv, ConnectionInv
<1>16. MasterInv'
  BY <1>1, <1>2, <1>4, <1>10, <1>12 DEF IInv, MasterInv
<1>17. HomeInv' /\ LoginInv' /\ WorldInv'
  BY <1>1, <1>2 DEF HomeInv, LoginInv, WorldInv
<1> QED  BY <1>13, <1>14, <1>15, <1>16, <1>17 DEF IInv

(* The player reads the redirect and connects to Login with its hello.     *)
LEMMA FollowKeeps ==
  ASSUME IInv, Follow
  PROVE  IInv'
<1> DEFINE read == Receive(down, AnswerFrame)[1].read
           redirect == DecodeRedirect(read)
<1>1. /\ at = "master" /\ Receive(down, AnswerFrame) # Nothing
      /\ ~IsNoLogin(read) /\ redirect # Nothing
      /\ seen' = [seen EXCEPT !.redirect = redirect]
      /\ at' = "login" /\ open' = TRUE /\ down' = <<>> /\ session' = "start"
      /\ up' = Frame(EncodeLogin(ClientHello, <<redirect[1][1], typed>>))
      /\ ForgetServers(Logins)
      /\ UNCHANGED <<typed, known, listed, sent, packets>>
  BY DEF Follow, ClientReads, ConnectTo
<1>2. /\ seen = NothingSeen /\ known = NothingKnown /\ sent = NothingSent
      /\ packets = <<>> /\ MasterSent(down)
  BY <1>1 DEF IInv, MasterInv
<1>3. PICK msg : MasterSays(msg) /\ CarriesOne(down, msg)
  BY <1>2 DEF MasterSent
<1>4. read = msg
  BY <1>1, <1>3, OneArrives, Limits DEF OneRead
<1>5a. PICK s \in Logins :
         \E i \in Infos[s] : DecodeRedirect(msg) = Just(<<Ticket, i[1], i[2]>>)
  BY <1>1, <1>3, <1>4 DEF MasterSays
<1>5. PICK i \in Infos[s] : DecodeRedirect(msg) = Just(<<Ticket, i[1], i[2]>>)
  BY <1>5a
<1> DEFINE row == <<Ticket, i[1], i[2]>>
<1>6. redirect = Just(row) /\ redirect[1] = row
  BY <1>4, <1>5, JustIs
<1>7. row[1] = Ticket /\ <<row[2], row[3]>> = i
  BY JourneyTypes
<1> HIDE DEF row, redirect, read
<1>8. up' = Frame(EncodeLogin(ClientHello, <<Ticket, typed>>))
  BY <1>1, <1>6, <1>7
<1>9. EncodeLogin(ClientHello, <<Ticket, typed>>) \in Payloads
  <2>1. IsString(typed)
    BY JourneyTypes DEF IInv, StoreInv
  <2> QED  BY <2>1, HelloTravels DEF Travels
<1>10. CarriesOne(up', TheHello') /\ up' \in Seq(Bytes)
  <2>1. TheHello' = EncodeLogin(ClientHello, <<Ticket, typed>>)
    BY <1>1 DEF TheHello
  <2> QED  BY <2>1, <1>8, <1>9, Sent
<1>11. SeenIs(seen', redirect, seen.challenge, seen.proof, seen.worlds, seen.echoes)
  BY <1>1, SeenExcept DEF IInv, Records
<1>12. /\ seen'.redirect = redirect /\ seen'.challenge = Nothing
       /\ seen'.proof = Nothing /\ seen'.worlds = Nothing /\ seen'.echoes = <<>>
       /\ SeenIs(seen', seen'.redirect, seen'.challenge, seen'.proof, seen'.worlds,
                 seen'.echoes)
  <2>1. /\ seen.challenge = Nothing /\ seen.proof = Nothing /\ seen.worlds = Nothing
        /\ seen.echoes = <<>>
    BY <1>2 DEF NothingSeen
  <2> QED  BY <1>11, <2>1, SeenFields
<1>13. Records'
  BY <1>1, <1>12 DEF IInv, Records
<1>14. RedirectAnnounced'
  <2>1. {seen'.redirect[j] : j \in DOMAIN seen'.redirect} = {row}
    BY <1>6, <1>12 DEF Just
  <2> QED  BY <2>1, <1>7 DEF RedirectAnnounced
<1>15. ConnectionInv' /\ StoreInv'
  BY <1>1, <1>10, ForgetStored DEF IInv, ConnectionInv
<1>16. LoginInv'
  <2>1. Asking'
    BY <1>1, <1>2, <1>10, <1>12 DEF Asking
  <2>2. known'.player = Nothing
    BY <1>1, <1>2 DEF NothingKnown
  <2> QED  BY <2>1, <2>2, <1>1, <1>2, <1>12 DEF LoginInv
<1>17. HomeInv' /\ MasterInv' /\ WorldInv'
  BY <1>1 DEF HomeInv, MasterInv, WorldInv
<1> QED  BY <1>13, <1>14, <1>15, <1>16, <1>17 DEF IInv

(* What a message of Login that has arrived is decoded to.                 *)
IsMessage(o, op, first, second) ==
  o # Nothing /\ o[1].op = op /\ o[1].fields = <<first, second>>
  /\ o[1].fields[1] = first /\ o[1].fields[2] = second

(* What a decoded message with two fields holds.                           *)
LEMMA MessageIs ==
  ASSUME NEW op, NEW first, NEW second, NEW limit \in Nat,
         Travels(op, <<first, second>>, limit), NEW msg,
         msg = EncodeLogin(op, <<first, second>>), Len(msg) \in 1..limit
  PROVE  IsMessage(DecodeLogin(msg), op, first, second) /\ msg \in Payloads
<1> DEFINE pair == <<first, second>>
<1>1. pair[1] = first /\ pair[2] = second
  OBVIOUS
<1>2. Travels(op, pair, limit) /\ msg = EncodeLogin(op, pair)
  OBVIOUS
<1>3. IsMessage(DecodeLogin(msg), op, first, second) <=>
        /\ DecodeLogin(msg) # Nothing /\ DecodeLogin(msg)[1].op = op
        /\ DecodeLogin(msg)[1].fields = pair
        /\ DecodeLogin(msg)[1].fields[1] = first
        /\ DecodeLogin(msg)[1].fields[2] = second
  BY DEF IsMessage
<1> HIDE DEF pair
<1>4. Len(msg) <= limit
  OBVIOUS
<1>5. DecodeLogin(msg) = Just([op |-> op, fields |-> pair]) /\ msg \in Payloads
  BY <1>2, <1>4 DEF Travels
<1>6. DecodeLogin(msg) # Nothing /\ DecodeLogin(msg)[1] = [op |-> op, fields |-> pair]
  BY <1>5, JustIs
<1> QED  BY <1>1, <1>3, <1>5, <1>6

LEMMA PairJust ==
  ASSUME NEW o, NEW first, NEW second, o = Just(<<first, second>>)
  PROVE  o[1] = <<first, second>> /\ o[1][1] = first /\ o[1][2] = second /\ o # Nothing
<1> DEFINE pair == <<first, second>>
<1>1. pair[1] = first /\ pair[2] = second /\ o = Just(pair)
  OBVIOUS
<1> HIDE DEF pair
<1>2. o[1] = pair /\ o # Nothing
  BY <1>1, JustIs
<1> QED  BY <1>1, <1>2 DEF pair

(* Login takes the ticket, remembers the name and sends the challenge.     *)
LEMMA ChallengeKeeps ==
  ASSUME IInv, Challenge
  PROVE  IInv'
<1> DEFINE o == Receive(up, LoginFrame)
           hello == DecodeLogin(o[1].read)
<1>1. /\ at = "login" /\ session = "start" /\ o # Nothing
      /\ hello # Nothing /\ hello[1].op = ClientHello
      /\ IsValue(Taken(hello[1].fields[1]))
      /\ entries' = Without(hello[1].fields[1])
      /\ up' = o[1].rest
      /\ known' = [known EXCEPT !.user = Just(hello[1].fields[2])]
      /\ session' = "proof"
      /\ \E salt \in Salts, B \in PublicKeys :
           /\ sent' = [sent EXCEPT !.challenge = Just(<<salt, B>>)]
           /\ Send(Frame(EncodeLogin(ServerChallenge, <<salt, B>>)))
      /\ UNCHANGED <<announced, typed, at, open, seen, listed, packets>>
  BY DEF Challenge, Incoming
<1>2. Asking /\ packets = <<>> /\ seen.echoes = <<>>
  BY <1>1 DEF IInv, LoginInv, Challenged, Proving, Issuing, Answering, Waiting, Answered,
       Proved, Listed
<1>3. IsString(typed)
  BY JourneyTypes DEF IInv, StoreInv
<1>4. CarriesOne(up, TheHello)
  BY <1>1, <1>2 DEF Asking
<1>5. o[1].read = TheHello /\ up' = <<>> /\ Len(TheHello) \in 1..LoginFrame
  BY <1>1, <1>4, OneArrives, Limits DEF OneRead
<1>6. IsMessage(hello, ClientHello, Ticket, typed)
  BY <1>3, <1>5, HelloTravels, MessageIs, Limits DEF TheHello
<1> HIDE DEF hello, o
<1>7. /\ entries' = Without(Ticket)
      /\ known' = [known EXCEPT !.user = Just(typed)]
  BY <1>1, <1>6 DEF IsMessage
<1>8. PICK salt \in Salts, B \in PublicKeys :
           /\ sent' = [sent EXCEPT !.challenge = Just(<<salt, B>>)]
           /\ Send(Frame(EncodeLogin(ServerChallenge, <<salt, B>>)))
  BY <1>1
<1> DEFINE pair == <<salt, B>>
<1>9. EncodeLogin(ServerChallenge, pair) \in Payloads
  BY ChallengeTravels, JourneyTypes DEF Travels
<1>10. IsChallenge(Just(pair))
  BY DEF IsChallenge
<1>11. /\ sent' = [sent EXCEPT !.challenge = Just(pair)]
       /\ Send(Frame(EncodeLogin(ServerChallenge, pair)))
  BY <1>8
<1> HIDE DEF pair
<1>12. CarriesOne(down', EncodeLogin(ServerChallenge, pair)) /\ down' \in Seq(Bytes)
  BY <1>2, <1>9, <1>11, SendOne DEF IInv, Asking
<1>13. /\ SentIs(sent', Just(pair), sent.clientProof, sent.proof)
       /\ KnownIs(known', Just(typed), known.proof, known.token, known.player)
  BY <1>7, <1>11, SentExcept, KnownExcept DEF IInv, Records
<1>14. /\ sent'.challenge = Just(pair) /\ sent'.clientProof = Nothing
       /\ sent'.proof = Nothing
       /\ known'.user = Just(typed) /\ known'.proof = Nothing /\ known'.player = Nothing
  <2>1. /\ sent.clientProof = Nothing /\ sent.proof = Nothing
        /\ known.proof = Nothing /\ known.player = Nothing
    BY <1>2 DEF Asking, NothingSent, NothingKnown
  <2> QED  BY <1>13, <2>1, SentFields, KnownFields
<1>15. /\ SentIs(sent', sent'.challenge, sent'.clientProof, sent'.proof)
       /\ KnownIs(known', known'.user, known'.proof, known'.token, known'.player)
  BY <1>13, SentFields, KnownFields
<1>16. Records' /\ RedirectAnnounced'
  BY <1>1, <1>15 DEF IInv, Records, RedirectAnnounced
<1>17. StoreInv'
  BY <1>1, <1>7, FewerStored DEF IInv, StoreInv, Without
<1>18. ConnectionInv'
  BY <1>1, <1>5, <1>12 DEF IInv, ConnectionInv
<1>19. Challenged'
  <2>1. TheChallenge' = EncodeLogin(ServerChallenge, pair)
    BY <1>14, JustIs DEF TheChallenge
  <2> QED  BY <2>1, <1>1, <1>2, <1>5, <1>10, <1>12, <1>14 DEF Challenged, Asking
<1>20. LoginInv'
  BY <1>1, <1>2, <1>14, <1>19 DEF LoginInv
<1>21. HomeInv' /\ MasterInv' /\ WorldInv'
  BY <1>1 DEF HomeInv, MasterInv, WorldInv
<1> QED  BY <1>16, <1>17, <1>18, <1>20, <1>21 DEF IInv

(* A challenge, a proof and an answer are something.                       *)
LEMMA SentIsThere ==
  ASSUME NEW o, IsChallenge(o) \/ IsProof(o) \/ IsAnswer(o)
  PROVE  o # Nothing
  BY DEF IsChallenge, IsProof, IsAnswer, Just, Nothing

(* The player reads the challenge and sends its proof.                     *)
LEMMA ProveKeeps ==
  ASSUME IInv, Prove
  PROVE  IInv'
<1> DEFINE o == Receive(down, AnswerFrame)
           challenge == DecodeLogin(o[1].read)
<1>1. /\ at = "login" /\ seen.challenge = Nothing /\ o # Nothing
      /\ challenge # Nothing /\ challenge[1].op = ServerChallenge
      /\ seen' = [seen EXCEPT !.challenge = Just(challenge[1].fields)]
      /\ down' = o[1].rest
      /\ \E A \in PublicKeys, M1 \in Hashes :
           /\ sent' = [sent EXCEPT !.clientProof = Just(<<A, M1>>)]
           /\ up' = IF open
                    THEN up \o Frame(EncodeLogin(ClientProof, <<A, M1>>)) ELSE up
      /\ UNCHANGED <<entries, announced, typed, at, open, session, known, listed,
                     packets>>
  BY DEF Prove, ClientReads, registry
<1>2. down # <<>>
  BY <1>1, NothingInNothing
<1>3. /\ Challenged /\ packets = <<>> /\ seen.echoes = <<>> /\ known.player = Nothing
  BY <1>1, <1>2, SentIsThere
  DEF IInv, LoginInv, Asking, Proving, Issuing, Answering, Waiting, Answered, Proved,
      Listed, Accepted, Replied
<1>4. PICK salt \in Salts, B \in PublicKeys : sent.challenge = Just(<<salt, B>>)
  BY <1>3 DEF Challenged, IsChallenge
<1>5. sent.challenge[1] = <<salt, B>>
  BY <1>4, PairJust
<1>6. TheChallenge = EncodeLogin(ServerChallenge, <<salt, B>>)
  BY <1>5 DEF TheChallenge
<1>7. CarriesOne(down, TheChallenge)
  BY <1>3 DEF Challenged
<1>8. o[1].read = TheChallenge /\ down' = <<>> /\ Len(TheChallenge) \in 1..AnswerFrame
  BY <1>1, <1>7, OneArrives, Limits DEF OneRead
<1>9. Travels(ServerChallenge, <<salt, B>>, AnswerFrame)
  BY ChallengeTravels, JourneyTypes
<1>10. IsMessage(challenge, ServerChallenge, salt, B)
  BY <1>6, <1>8, <1>9, MessageIs, Limits
<1> HIDE DEF challenge, o
<1>11. seen' = [seen EXCEPT !.challenge = sent.challenge]
  BY <1>1, <1>4, <1>10 DEF IsMessage
<1>12. PICK A \in PublicKeys, M1 \in Hashes :
           /\ sent' = [sent EXCEPT !.clientProof = Just(<<A, M1>>)]
           /\ up' = IF open
                    THEN up \o Frame(EncodeLogin(ClientProof, <<A, M1>>)) ELSE up
  BY <1>1
<1> DEFINE pair == <<A, M1>>
           proof == EncodeLogin(ClientProof, pair)
<1>13. proof \in Payloads
  <2>1. IsString(A) /\ IsString(M1) /\ Len(M1) = HashSize
    BY JourneyTypes, JourneyAssumption
  <2> QED  BY <2>1, ProofTravels DEF Travels
<1>14. IsProof(Just(pair))
  BY DEF IsProof
<1>15. /\ sent' = [sent EXCEPT !.clientProof = Just(pair)]
       /\ up' = IF open THEN up \o Frame(proof) ELSE up
  BY <1>12
<1> HIDE DEF pair
<1>16. up = <<>>
  BY <1>3 DEF Challenged
<1>17. /\ CarriesOne(up', proof) /\ up' \in Seq(Bytes)
       /\ ~open => up' = <<>>
  <2>1. /\ CarriesOne(Frame(proof), proof) /\ CarriesOne(<<>>, proof)
        /\ <<>> \o Frame(proof) = Frame(proof) /\ Frame(proof) \in Seq(Bytes)
    BY <1>13, Sent
  <2> HIDE DEF proof
  <2>2. CASE open
    <3>1. up' = Frame(proof)
      BY <1>15, <1>16, <2>1, <2>2, Zenon
    <3> QED  BY <2>1, <2>2, <3>1
  <2>3. CASE ~open
    BY <1>15, <1>16, <2>1, <2>3
  <2> QED  BY <2>2, <2>3
<1> HIDE DEF proof
<1>18. /\ SeenIs(seen', seen.redirect, sent.challenge, seen.proof, seen.worlds,
                 seen.echoes)
       /\ SentIs(sent', sent.challenge, Just(pair), sent.proof)
  BY <1>11, <1>15, SeenExcept, SentExcept DEF IInv, Records
<1>19. /\ seen'.redirect = seen.redirect /\ seen'.challenge = sent.challenge
       /\ seen'.proof = seen.proof /\ seen'.worlds = seen.worlds
       /\ seen'.echoes = seen.echoes
       /\ SeenIs(seen', seen'.redirect, seen'.challenge, seen'.proof, seen'.worlds,
                 seen'.echoes)
  BY <1>18, SeenFields
<1>20. /\ sent'.challenge = sent.challenge /\ sent'.clientProof = Just(pair)
       /\ sent'.proof = sent.proof
       /\ SentIs(sent', sent'.challenge, sent'.clientProof, sent'.proof)
  BY <1>18, SentFields
<1>21. Records' /\ RedirectAnnounced'
  BY <1>1, <1>19, <1>20 DEF IInv, Records, RedirectAnnounced
<1>22. StoreInv' /\ ConnectionInv'
  BY <1>1, <1>8, <1>17, SameStored DEF IInv, ConnectionInv
<1>23. Proving'
  <2>1. TheProof' = proof
    BY <1>20, JustIs DEF TheProof, proof
  <2> QED
    BY <2>1, <1>1, <1>3, <1>8, <1>14, <1>17, <1>19, <1>20 DEF Challenged, Proving
<1>24. LoginInv'
  BY <1>1, <1>3, <1>19, <1>23 DEF LoginInv
<1>25. HomeInv' /\ MasterInv' /\ WorldInv'
  BY <1>1 DEF HomeInv, MasterInv, WorldInv
<1> QED  BY <1>21, <1>22, <1>24, <1>25 DEF IInv

(* What the player reads of Login's answer.                                *)
LEMMA AnswerMessage ==
  ASSUME IsAnswer(sent.proof)
  PROVE  /\ TheAnswer \in Payloads
         /\ Len(TheAnswer) \in 1..AnswerFrame =>
              /\ DecodeLogin(TheAnswer) # Nothing
              /\ Just(DecodeLogin(TheAnswer)[1].fields) = sent.proof
<1>1. PICK M2 \in Hashes : sent.proof = Just(<<M2, Token>>)
  BY DEF IsAnswer
<1>2. TheAnswer = EncodeLogin(ServerProof, <<M2, Token>>)
  BY <1>1, PairJust DEF TheAnswer
<1>3. Travels(ServerProof, <<M2, Token>>, AnswerFrame)
  <2>1. IsString(M2) /\ Len(M2) = HashSize /\ IsDrawn(Token)
    BY JourneyTypes, JourneyAssumption
  <2> QED  BY <2>1, AnswerTravels
<1>4. TheAnswer \in Payloads
  BY <1>2, <1>3 DEF Travels
<1>5. ASSUME Len(TheAnswer) \in 1..AnswerFrame
      PROVE  IsMessage(DecodeLogin(TheAnswer), ServerProof, M2, Token)
  BY <1>2, <1>3, <1>5, MessageIs, Limits
<1> QED  BY <1>1, <1>4, <1>5 DEF IsMessage

(* The player reads Login's proof and its token.                           *)
LEMMA ReadProofKeeps ==
  ASSUME IInv, ReadProof
  PROVE  IInv'
<1> DEFINE o == Receive(down, AnswerFrame)
<1>1. /\ at = "login" /\ seen.challenge # Nothing /\ seen.proof = Nothing
      /\ o # Nothing
      /\ seen' = [seen EXCEPT !.proof = Just(DecodeLogin(o[1].read)[1].fields)]
      /\ down' = o[1].rest
      /\ UNCHANGED <<entries, announced, typed, at, open, up, session, known, listed,
                     sent, packets>>
  BY DEF ReadProof, ClientReads, registry
<1>2. down # <<>>
  BY <1>1, NothingInNothing
<1>3. /\ Answering \/ Answered
      /\ packets = <<>> /\ seen.echoes = <<>> /\ known.player = Nothing
  BY <1>1, <1>2, SentIsThere
  DEF IInv, LoginInv, Asking, Challenged, Proving, Issuing, Waiting, Proved, Listed,
      Replied
<1>4. Replied
  BY <1>3 DEF Answering, Answered
<1>5. /\ o[1].read = TheAnswer /\ Len(TheAnswer) \in 1..AnswerFrame
      /\ down' \in Seq(Bytes)
      /\ \/ Answering /\ down' = <<>>
         \/ Answered /\ WorldsSent(down', listed)
  <2>1. CASE Answering
    <3>1. CarriesOne(down, TheAnswer) /\ <<>> \in Seq(Bytes)
      BY <2>1 DEF Answering
    <3>2. /\ o[1].read = TheAnswer /\ o[1].rest = <<>>
          /\ Len(TheAnswer) \in 1..AnswerFrame
      BY <1>1, <3>1, OneArrives, Limits DEF OneRead
    <3> HIDE DEF o
    <3> QED  BY <1>1, <2>1, <3>1, <3>2
  <2>2. CASE Answered
    <3>1. PICK msg : ShowsWorlds(msg, listed) /\ CarriesTwo(down, TheAnswer, msg)
      BY <2>2 DEF Answered, BothSent
    <3>2. /\ o[1].read = TheAnswer /\ CarriesOne(down', msg)
          /\ Len(TheAnswer) \in 1..AnswerFrame
      BY <1>1, <3>1, TwoArrive, Limits DEF TwoRead
    <3> HIDE DEF o
    <3>3. down' \in Seq(Bytes) /\ WorldsSent(down', listed)
      BY <3>1, <3>2, OnlyPayloads DEF WorldsSent
    <3> QED  BY <2>2, <3>2, <3>3
  <2> QED  BY <1>3, <2>1, <2>2
<1>6. seen' = [seen EXCEPT !.proof = sent.proof]
  BY <1>1, <1>4, <1>5, AnswerMessage DEF Replied
<1> HIDE DEF o
<1>7. SeenIs(seen', seen.redirect, seen.challenge, sent.proof, seen.worlds, seen.echoes)
  BY <1>6, SeenExcept DEF IInv, Records
<1>8. /\ seen'.redirect = seen.redirect /\ seen'.challenge = seen.challenge
      /\ seen'.proof = sent.proof /\ seen'.worlds = seen.worlds
      /\ seen'.echoes = seen.echoes
      /\ SeenIs(seen', seen'.redirect, seen'.challenge, seen'.proof, seen'.worlds,
                seen'.echoes)
  BY <1>7, SeenFields
<1>9. Records' /\ RedirectAnnounced'
  BY <1>1, <1>8 DEF IInv, Records, RedirectAnnounced
<1>10. StoreInv' /\ ConnectionInv'
  BY <1>1, <1>5, SameStored DEF IInv, ConnectionInv
<1>11. Replied'
  BY <1>1, <1>4, <1>8 DEF Accepted, Replied
<1>12. Waiting' \/ Proved'
  <2>1. CASE Answering /\ down' = <<>>
    BY <2>1, <1>1, <1>8, <1>11 DEF Answering, Waiting
  <2>2. CASE Answered /\ WorldsSent(down', listed)
    <3>1. WorldsSent(down', listed')
      BY <2>2, <1>1
    <3> QED  BY <2>2, <3>1, <1>1, <1>8, <1>11 DEF Answered, Proved
  <2> QED  BY <1>5, <2>1, <2>2
<1>13. LoginInv'
  BY <1>1, <1>3, <1>8, <1>12 DEF LoginInv
<1>14. HomeInv' /\ MasterInv' /\ WorldInv'
  BY <1>1 DEF HomeInv, MasterInv, WorldInv
<1> QED  BY <1>9, <1>10, <1>13, <1>14 DEF IInv

(* The player reads the list of worlds.                                    *)
LEMMA ReadWorldsKeeps ==
  ASSUME IInv, ReadWorlds
  PROVE  IInv'
<1> DEFINE o == Receive(down, AnswerFrame)
           worlds == DecodeLogin(o[1].read)
<1>1. /\ at = "login" /\ seen.proof # Nothing /\ o # Nothing
      /\ worlds # Nothing
      /\ seen' = [seen EXCEPT !.worlds = Just(worlds[1].fields)]
      /\ down' = o[1].rest
      /\ UNCHANGED <<entries, announced, typed, at, open, up, session, known, listed,
                     sent, packets>>
  BY DEF ReadWorlds, ClientReads, registry
<1>2. down # <<>>
  BY <1>1, NothingInNothing
<1>3. Proved /\ packets = <<>> /\ seen.echoes = <<>> /\ known.player = Nothing
  BY <1>1, <1>2 DEF IInv, LoginInv, Asking, Challenged, Proving, Issuing, Answering,
       Waiting, Answered, Listed
<1>4. PICK msg : ShowsWorlds(msg, listed) /\ CarriesOne(down, msg)
  BY <1>3 DEF Proved, WorldsSent
<1>5. o[1].read = msg /\ down' = <<>>
  BY <1>1, <1>4, OneArrives, Limits DEF OneRead
<1>6. PICK rows : /\ Shown(rows, listed)
                  /\ \/ DecodeLogin(msg) = Nothing
                     \/ DecodeLogin(msg) = Just([op |-> WorldList, fields |-> rows])
  BY <1>4 DEF ShowsWorlds
<1>7. worlds[1] = [op |-> WorldList, fields |-> rows]
  BY <1>1, <1>5, <1>6, JustIs
<1> HIDE DEF o, worlds
<1>8. seen' = [seen EXCEPT !.worlds = Just(rows)]
  BY <1>1, <1>7
<1>9. SeenIs(seen', seen.redirect, seen.challenge, seen.proof, Just(rows), seen.echoes)
  BY <1>8, SeenExcept DEF IInv, Records
<1>10. /\ seen'.redirect = seen.redirect /\ seen'.challenge = seen.challenge
       /\ seen'.proof = seen.proof /\ seen'.worlds = Just(rows)
       /\ seen'.echoes = seen.echoes
       /\ SeenIs(seen', seen'.redirect, seen'.challenge, seen'.proof, seen'.worlds,
                 seen'.echoes)
  BY <1>9, SeenFields
<1>11. Records' /\ RedirectAnnounced'
  BY <1>1, <1>10 DEF IInv, Records, RedirectAnnounced
<1>12. StoreInv' /\ ConnectionInv'
  BY <1>1, <1>5, SameStored DEF IInv, ConnectionInv
<1>13. Listed'
  <2>1. WorldsSeen(seen'.worlds, listed')
    BY <1>1, <1>6, <1>10 DEF WorldsSeen
  <2>2. Replied'
    BY <1>1, <1>3, <1>10 DEF Accepted, Replied, Proved
  <2> QED  BY <2>1, <2>2, <1>1, <1>3, <1>5, <1>10 DEF Proved, Listed
<1>14. LoginInv'
  BY <1>1, <1>3, <1>10, <1>13 DEF LoginInv
<1>15. HomeInv' /\ MasterInv' /\ WorldInv'
  BY <1>1 DEF HomeInv, MasterInv, WorldInv
<1> QED  BY <1>11, <1>12, <1>14, <1>15 DEF IInv

(* The put of a token is short enough when it gets through.                *)
LEMMA PutSum ==
  ASSUME NEW a \in Nat, NEW b \in Nat, NEW m \in Nat
  PROVE  /\ a < B3 /\ b < B3 => 13 + a + b < B4
         /\ 13 + a + b <= m => b < m
  BY Powers

(* Login reads the player's proof and puts the token.                      *)
LEMMA AcceptProofKeeps ==
  ASSUME IInv, AcceptProof
  PROVE  IInv'
<1> DEFINE o == Receive(up, LoginFrame)
           proof == DecodeLogin(o[1].read)
           request == EncodeStore(Put, <<Token, known.user[1], 60>>)
<1>1. /\ at = "login" /\ session = "proof" /\ o # Nothing
      /\ known' = [known EXCEPT !.proof = Just(proof[1].fields)]
      /\ up' = o[1].rest
      /\ (Stored(request) /\ StorePut(request)) \/ UNCHANGED entries
      /\ session' = "issuing"
      /\ UNCHANGED <<announced, typed, at, open, down, seen, listed, sent, packets>>
  BY DEF AcceptProof, Incoming
<1>2. up # <<>>
  BY <1>1, NothingInNothing
<1>3. Proving /\ packets = <<>> /\ seen.echoes = <<>> /\ known.player = Nothing
  BY <1>1, <1>2
  DEF IInv, LoginInv, Asking, Challenged, Issuing, Answering, Waiting, Answered, Proved,
      Listed, Accepted, Replied
<1>5. IsString(typed)
  BY JourneyTypes DEF IInv, StoreInv
<1>6. PICK A \in PublicKeys, M1 \in Hashes : sent.clientProof = Just(<<A, M1>>)
  BY <1>3 DEF Proving, IsProof
<1>7. TheProof = EncodeLogin(ClientProof, <<A, M1>>)
  BY <1>6, PairJust DEF TheProof
<1>8. CarriesOne(up, TheProof)
  BY <1>1, <1>3 DEF Proving
<1>9. o[1].read = TheProof /\ up' = <<>> /\ Len(TheProof) \in 1..LoginFrame
  BY <1>1, <1>8, OneArrives, Limits DEF OneRead
<1>10. Len(TheProof) \in 1..AnswerFrame
  <2>1. LoginFrame <= AnswerFrame
    BY Limits, Powers
  <2> QED  BY <1>9, <2>1, Limits
<1>11. IsMessage(proof, ClientProof, A, M1)
  <2>1. IsString(A) /\ IsString(M1) /\ Len(M1) = HashSize
    BY JourneyTypes, JourneyAssumption
  <2>2. Travels(ClientProof, <<A, M1>>, AnswerFrame)
    BY <2>1, ProofTravels
  <2> QED  BY <2>2, <1>7, <1>9, <1>10, MessageIs, Limits
<1> HIDE DEF proof, o
<1>12. known' = [known EXCEPT !.proof = sent.clientProof]
  BY <1>1, <1>6, <1>11 DEF IsMessage
<1>13. StoreInv'
  <2>1. CASE Stored(request) /\ StorePut(request)
    <3>1. request = EncodeStore(Put, <<Token, typed, 60>>)
      BY <1>3, JustIs DEF Proving
    <3>2. /\ Token \in Seq(Bytes) /\ Len(Token) < B3 /\ Len(Token) \in Nat
          /\ typed \in Seq(Bytes) /\ Len(typed) < B3 /\ Len(typed) \in Nat
      BY <1>5, StringIs, DrawnIs, JourneyTypes
    <3>3. 13 + Len(Token) + Len(typed) < B4 /\ 60 \in Nat /\ 60 < B4
      BY <3>2, PutSum, Powers
    <3>4. /\ 13 + Len(Token) + Len(typed) <= InternalFrame
          /\ AtMaster(request)[1].fields[1] = Token
          /\ AtMaster(request)[1].fields[2] = typed
      BY <2>1, <3>1, <3>2, <3>3, PutArrives
    <3>5. entries' = With(Token, typed)
      BY <2>1, <3>4 DEF StorePut
    <3>6. Len(typed) < InternalFrame
      BY <3>2, <3>4, PutSum, Limits
    <3> QED  BY <1>1, <3>5, <3>6, TokenStored DEF IInv
  <2>2. CASE UNCHANGED entries
    BY <2>2, <1>1, SameStored DEF IInv
  <2> QED  BY <1>1, <2>1, <2>2
<1> HIDE DEF request
<1>14. KnownIs(known', known.user, sent.clientProof, known.token, known.player)
  BY <1>12, KnownExcept DEF IInv, Records
<1>15. /\ known'.user = known.user /\ known'.proof = sent.clientProof
       /\ known'.player = known.player
       /\ KnownIs(known', known'.user, known'.proof, known'.token, known'.player)
  BY <1>14, KnownFields
<1>16. Records' /\ RedirectAnnounced'
  BY <1>1, <1>15 DEF IInv, Records, RedirectAnnounced
<1>17. ConnectionInv'
  BY <1>1, <1>9 DEF IInv, ConnectionInv
<1>18. Issuing'
  BY <1>1, <1>3, <1>9, <1>15 DEF Accepted, Proving, Issuing
<1>19. LoginInv'
  BY <1>1, <1>3, <1>15, <1>18 DEF LoginInv
<1>20. HomeInv' /\ MasterInv' /\ WorldInv'
  BY <1>1 DEF HomeInv, MasterInv, WorldInv
<1> QED  BY <1>13, <1>16, <1>17, <1>19, <1>20 DEF IInv

(* A message of Login, sent on a connection that carried none, is all that *)
(* is on its way while the connection is open.                             *)
LEMMA SendAll ==
  ASSUME ConnectionInv, NEW p \in Payloads, down = <<>>, Send(Frame(p))
  PROVE  open => down' = Frame(p)
<1>1. <<>> \o Frame(p) = Frame(p)
  BY Sent
<1> QED  BY <1>1, Zenon DEF Send

(* Login sends its own proof and the token.                                *)
LEMMA SendProofKeeps ==
  ASSUME IInv, SendProof
  PROVE  IInv'
<1>1. /\ at = "login" /\ session = "issuing" /\ session' = "listing"
      /\ \E M2 \in Hashes :
           /\ sent' = [sent EXCEPT !.proof = Just(<<M2, Token>>)]
           /\ Send(Frame(EncodeLogin(ServerProof, <<M2, Token>>)))
      /\ UNCHANGED <<entries, announced, typed, at, open, up, seen, known, listed,
                     packets>>
  BY DEF SendProof, registry
<1>2. Issuing /\ packets = <<>> /\ seen.echoes = <<>> /\ known.player = Nothing
  BY <1>1
  DEF IInv, LoginInv, Asking, Challenged, Proving, Answering, Waiting, Answered, Proved,
      Listed
<1>3. PICK M2 \in Hashes :
         /\ sent' = [sent EXCEPT !.proof = Just(<<M2, Token>>)]
         /\ Send(Frame(EncodeLogin(ServerProof, <<M2, Token>>)))
  BY <1>1
<1> DEFINE pair == <<M2, Token>>
           answer == EncodeLogin(ServerProof, pair)
<1>4. answer \in Payloads
  <2>1. IsString(M2) /\ Len(M2) = HashSize /\ IsDrawn(Token)
    BY JourneyTypes, JourneyAssumption
  <2> QED  BY <2>1, AnswerTravels DEF Travels
<1>5. IsAnswer(Just(pair))
  BY DEF IsAnswer
<1>6. sent' = [sent EXCEPT !.proof = Just(pair)] /\ Send(Frame(answer))
  BY <1>3
<1> HIDE DEF pair
<1>7. /\ CarriesOne(down', answer) /\ down' \in Seq(Bytes)
      /\ open => down' = Frame(answer)
  <2>1. down = <<>> /\ ConnectionInv
    BY <1>2 DEF Issuing, IInv
  <2> HIDE DEF answer
  <2> QED  BY <2>1, <1>4, <1>6, SendOne, SendAll
<1> HIDE DEF answer
<1>8. SentIs(sent', sent.challenge, sent.clientProof, Just(pair))
  BY <1>6, SentExcept DEF IInv, Records
<1>9. /\ sent'.challenge = sent.challenge /\ sent'.clientProof = sent.clientProof
      /\ sent'.proof = Just(pair)
      /\ SentIs(sent', sent'.challenge, sent'.clientProof, sent'.proof)
  BY <1>8, SentFields
<1>10. Records' /\ RedirectAnnounced'
  BY <1>1, <1>9 DEF IInv, Records, RedirectAnnounced
<1>11. StoreInv' /\ ConnectionInv'
  BY <1>1, <1>7, SameStored DEF IInv, ConnectionInv
<1>12. Answering'
  <2>1. TheAnswer' = answer
    BY <1>9, JustIs DEF TheAnswer, answer
  <2>2. Replied'
    BY <1>1, <1>2, <1>5, <1>9 DEF Accepted, Issuing, Replied
  <2> QED  BY <2>1, <2>2, <1>1, <1>2, <1>7 DEF Issuing, Answering
<1>13. LoginInv'
  BY <1>1, <1>2, <1>12 DEF LoginInv
<1>14. HomeInv' /\ MasterInv' /\ WorldInv'
  BY <1>1 DEF HomeInv, MasterInv, WorldInv
<1> QED  BY <1>10, <1>11, <1>13, <1>14 DEF IInv

(* Being a part of what is sent: it stays true as more is sent.            *)
LEMMA PartOfLonger ==
  ASSUME NEW S, NEW s \in Seq(S), NEW b \in Seq(S), NEW c \in Seq(S), PartOf(s, b)
  PROVE  PartOf(s, Cat(b, c))
<1>1. /\ Len(s) \in Nat /\ Len(b) \in Nat /\ Len(c) \in Nat /\ Len(s) <= Len(b)
      /\ Len(Cat(b, c)) = Len(b) + Len(c)
  BY CatIs DEF PartOf
<1>2. \A i \in 1..Len(s) : s[i] = b[i]
  BY DEF PartOf
<1>3. \A i \in 1..Len(s) : i \in 1..Len(b) + Len(c) /\ i <= Len(b)
  BY <1>1
<1>4. \A i \in 1..Len(s) : Cat(b, c)[i] = b[i]
  BY <1>3, CatAt
<1> QED  BY <1>1, <1>2, <1>4 DEF PartOf

(* What carries a message of two carries, so far, the two.                 *)
LEMMA FirstOfBoth ==
  ASSUME NEW s, NEW p \in Payloads, NEW q \in Payloads, CarriesOne(s, p)
  PROVE  CarriesTwo(s, p, q)
<1>1. s \in Seq(Bytes) /\ PartOf(s, Frame(p))
  BY FramesFew DEF CarriesOne, Carries
<1>2. Frame(p) \in Seq(Bytes) /\ Frame(q) \in Seq(Bytes)
  BY FrameIs
<1>3. PartOf(s, Cat(Frame(p), Frame(q)))
  BY <1>1, <1>2, PartOfLonger
<1> QED  BY <1>1, <1>3, FramesFew DEF CarriesTwo, Carries

(* Login sends the worlds: behind its proof, which a cut may have left     *)
(* alone, or after the player has read it.                                 *)
LEMMA SendWorldsKeeps ==
  ASSUME IInv, SendWorlds
  PROVE  IInv'
<1>1. /\ at = "login" /\ session = "listing" /\ session' = "done"
      /\ \E keys \in SetToSeqs(KeysUnder(Worlds)) \cup {<<>>} :
           Send(Frame(EncodeWorldList(RowsOf(ListWorlds(keys)))))
      /\ listed' = Listing
      /\ UNCHANGED <<entries, announced, typed, at, open, up, seen, known, sent,
                     packets>>
  BY DEF SendWorlds, registry, RowsOf, RowOf, Listing
<1>2. /\ Answering \/ Waiting
      /\ packets = <<>> /\ seen.echoes = <<>> /\ known.player = Nothing
  BY <1>1
  DEF IInv, LoginInv, Asking, Challenged, Proving, Issuing, Answered, Proved, Listed
<1>3. PICK keys \in SetToSeqs(KeysUnder(Worlds)) \cup {<<>>} :
         Send(Frame(EncodeWorldList(RowsOf(ListWorlds(keys)))))
  BY <1>1
<1> DEFINE msg == EncodeWorldList(RowsOf(ListWorlds(keys)))
<1>4. ShowsWorlds(msg, Listing) /\ msg \in Payloads
  BY WorldsShown DEF ShowsWorlds, IInv
<1>5. Send(Frame(msg))
  BY <1>3
<1> HIDE DEF msg
<1>6. Replied /\ ConnectionInv
  BY <1>2 DEF Answering, Waiting, IInv
<1>7. /\ down' \in Seq(Bytes)
      /\ \/ Answering /\ CarriesTwo(down', TheAnswer, msg)
         \/ Waiting /\ CarriesOne(down', msg)
  <2>1. CASE Answering
    <3>1. TheAnswer \in Payloads
      BY <1>6, AnswerMessage DEF Replied
    <3>2. CASE open
      <4>1. down = Frame(TheAnswer)
        BY <2>1, <3>2 DEF Answering
      <4>2. down' = Frame(TheAnswer) \o Frame(msg)
        BY <1>5, <3>2, <4>1, Zenon DEF Send
      <4>3. /\ CarriesTwo(Frame(TheAnswer) \o Frame(msg), TheAnswer, msg)
            /\ Frame(TheAnswer) \o Frame(msg) \in Seq(Bytes)
        BY <1>4, <3>1, SentTwo
      <4> QED  BY <2>1, <4>2, <4>3
    <3>3. CASE ~open
      <4>1. down' = down /\ CarriesOne(down, TheAnswer) /\ down \in Seq(Bytes)
        BY <1>5, <1>6, <2>1, <3>3 DEF Send, Answering, ConnectionInv
      <4>2. CarriesTwo(down, TheAnswer, msg)
        BY <1>4, <3>1, <4>1, FirstOfBoth
      <4> QED  BY <2>1, <4>1, <4>2
    <3> QED  BY <3>2, <3>3
  <2>2. CASE Waiting
    <3>1. down = <<>>
      BY <2>2 DEF Waiting
    <3> QED  BY <1>4, <1>5, <1>6, <2>2, <3>1, SendOne
  <2> QED  BY <1>2, <2>1, <2>2
<1>8. Records' /\ RedirectAnnounced'
  BY <1>1 DEF IInv, Records, RedirectAnnounced
<1>9. StoreInv' /\ ConnectionInv'
  BY <1>1, <1>6, <1>7, SameStored DEF IInv, ConnectionInv
<1>10. Replied'
  BY <1>1, <1>6 DEF Accepted, Replied
<1>11. Answered' \/ Proved'
  <2>1. ShowsWorlds(msg, listed')
    BY <1>1, <1>4
  <2>2. CASE Answering /\ CarriesTwo(down', TheAnswer, msg)
    <3>1. TheAnswer' = TheAnswer
      BY <1>1 DEF TheAnswer
    <3>2. BothSent(down', TheAnswer', listed')
      BY <2>1, <2>2, <3>1 DEF BothSent
    <3> QED  BY <1>1, <1>10, <2>2, <3>2 DEF Answering, Answered
  <2>3. CASE Waiting /\ CarriesOne(down', msg)
    <3>1. WorldsSent(down', listed')
      BY <2>1, <2>3 DEF WorldsSent
    <3> QED  BY <1>1, <1>10, <2>3, <3>1 DEF Waiting, Proved
  <2> QED  BY <1>7, <2>2, <2>3
<1>12. LoginInv'
  BY <1>1, <1>2, <1>11 DEF LoginInv
<1>13. HomeInv' /\ MasterInv' /\ WorldInv'
  BY <1>1 DEF HomeInv, MasterInv, WorldInv
<1> QED  BY <1>8, <1>9, <1>12, <1>13 DEF IInv

(* What World sends back, packet by packet: echoes of what is on its way,  *)
(* appended as packets are and taken off as they are read.                 *)
LEMMA EchoIs ==
  ASSUME NEW p \in Payloads
  PROVE  /\ EchoOf(p) \in Seq(Payloads)
         /\ Echoed(p) => /\ SubSeq(p, 3, Len(p)) \in Payloads
                         /\ EchoOf(p) = <<SubSeq(p, 3, Len(p))>>
         /\ ~Echoed(p) => EchoOf(p) = <<>>
<1>1. p \in Seq(Bytes) /\ Len(p) \in Nat /\ Len(p) < B4
  BY FrameIs
<1> DEFINE body == SubSeq(p, 3, Len(p))
<1>2. ASSUME Echoed(p) PROVE body \in Payloads
  <2>1. Len(p) >= 2
    BY <1>2 DEF Echoed
  <2>2. body \in Seq(Bytes) /\ Len(body) = Len(p) - 2
    <3> DEFINE n == 2
    <3>1. n \in 0..Len(p) /\ n + 1 = 3 /\ n = 2
      BY <1>1, <2>1
    <3> HIDE DEF n
    <3>2. /\ SubSeq(p, n + 1, Len(p)) \in Seq(Bytes)
          /\ Len(SubSeq(p, n + 1, Len(p))) = Len(p) - n
      BY <1>1, <3>1, Split
    <3> QED  BY <3>1, <3>2
  <2> QED  BY <1>1, <2>2, Powers DEF Payloads
<1> HIDE DEF body
<1>3. Echoed(p) => EchoOf(p) = <<body>>
  BY DEF EchoOf, body
<1>4. ~Echoed(p) => EchoOf(p) = <<>>
  BY DEF EchoOf
<1>5. EchoOf(p) \in Seq(Payloads)
  <2>1. CASE Echoed(p)
    <3>1. <<body>> \in Seq(Payloads)
      BY <2>1, <1>2
    <3> QED  BY <2>1, <1>3, <3>1, Zenon
  <2>2. CASE ~Echoed(p)
    BY <2>2, <1>4
  <2> QED  BY <2>1, <2>2
<1> QED  BY <1>2, <1>3, <1>4, <1>5 DEF body

Echoes == [p \in Payloads |-> EchoOf(p)]

LEMMA EchoesMapped ==
  ASSUME NEW ps \in Seq(Payloads)
  PROVE  Echoes \in [Payloads -> Seq(Payloads)] /\ EchoesOf(ps) = Mapped(Echoes, ps)
<1>1. Echoes \in [Payloads -> Seq(Payloads)]
  BY EchoIs DEF Echoes
<1>2. \A i \in 1..Len(ps) : ps[i] \in Payloads
  BY ElementOfSeq
<1>3. [i \in 1..Len(ps) |-> EchoOf(ps[i])] = [i \in 1..Len(ps) |-> Echoes[ps[i]]]
  BY <1>2 DEF Echoes
<1> QED  BY <1>1, <1>3 DEF EchoesOf, Mapped

LEMMA EchoesAppend ==
  ASSUME NEW ps \in Seq(Payloads), NEW p \in Payloads
  PROVE  /\ EchoesOf(ps) \in Seq(Payloads) /\ EchoOf(p) \in Seq(Payloads)
         /\ EchoesOf(Append(ps, p)) = Cat(EchoesOf(ps), EchoOf(p))
<1>1. Append(ps, p) \in Seq(Payloads)
  OBVIOUS
<1>2. /\ Echoes \in [Payloads -> Seq(Payloads)] /\ EchoesOf(ps) = Mapped(Echoes, ps)
      /\ EchoesOf(Append(ps, p)) = Mapped(Echoes, Append(ps, p))
  BY <1>1, EchoesMapped
<1>3. Echoes[p] = EchoOf(p)
  BY DEF Echoes
<1>4. /\ Mapped(Echoes, ps) \in Seq(Payloads)
      /\ Mapped(Echoes, Append(ps, p)) = Cat(Mapped(Echoes, ps), Echoes[p])
  BY <1>2, MappedAppend
<1> QED  BY <1>2, <1>3, <1>4, EchoIs

LEMMA EchoesHead ==
  ASSUME NEW ps \in Seq(Payloads), ps # <<>>
  PROVE  /\ Head(ps) \in Payloads /\ Tail(ps) \in Seq(Payloads)
         /\ EchoOf(Head(ps)) \in Seq(Payloads) /\ EchoesOf(Tail(ps)) \in Seq(Payloads)
         /\ EchoesOf(ps) = Cat(EchoOf(Head(ps)), EchoesOf(Tail(ps)))
<1>1. Head(ps) \in Payloads /\ Tail(ps) \in Seq(Payloads)
  OBVIOUS
<1>2. /\ Echoes \in [Payloads -> Seq(Payloads)] /\ EchoesOf(ps) = Mapped(Echoes, ps)
      /\ EchoesOf(Tail(ps)) = Mapped(Echoes, Tail(ps))
  BY <1>1, EchoesMapped
<1>3. Echoes[Head(ps)] = EchoOf(Head(ps))
  BY <1>1 DEF Echoes
<1>4. /\ Mapped(Echoes, Tail(ps)) \in Seq(Payloads)
      /\ Mapped(Echoes, ps) = Cat(Echoes[Head(ps)], Mapped(Echoes, Tail(ps)))
  BY <1>2, MappedHead
<1> QED  BY <1>1, <1>2, <1>3, <1>4, EchoIs

Packets == Opcodes \X Bodies
MoveOf(packet) == IF packet[1] \in {Move, Portal} THEN <<packet[2]>> ELSE <<>>
Moves == [packet \in Packets |-> MoveOf(packet)]

(* What of the packets sent is to come back, packet by packet.             *)
LEMMA BodiesSent ==
  Bodies \subseteq Payloads
<1>1. ASSUME NEW b \in Bodies PROVE b \in Payloads
  <2>1. IsString(b)
    BY JourneyTypes
  <2> QED  BY <2>1, StringIs DEF Payloads
<1> QED  BY <1>1

LEMMA MovesMapped ==
  ASSUME NEW ps \in Seq(Packets)
  PROVE  Moves \in [Packets -> Seq(Payloads)] /\ MovesIn(ps) = Mapped(Moves, ps)
<1>1. ASSUME NEW packet \in Packets PROVE MoveOf(packet) \in Seq(Payloads)
  <2>1. packet[2] \in Payloads
    BY BodiesSent DEF Packets
  <2> QED  BY <2>1 DEF MoveOf
<1>2. Moves \in [Packets -> Seq(Payloads)]
  BY <1>1 DEF Moves
<1>3. \A i \in 1..Len(ps) : ps[i] \in Packets
  BY ElementOfSeq
<1>4. DOMAIN ps = 1..Len(ps)
  BY LenProperties
<1>5. [i \in DOMAIN ps |-> IF ps[i][1] \in {Move, Portal} THEN <<ps[i][2]>> ELSE <<>>]
        = [i \in 1..Len(ps) |-> Moves[ps[i]]]
  BY <1>3, <1>4 DEF Moves, MoveOf
<1> QED  BY <1>2, <1>5 DEF MovesIn, Mapped

LEMMA MovesAppend ==
  ASSUME NEW ps \in Seq(Packets), NEW p \in Packets
  PROVE  /\ Append(ps, p) \in Seq(Packets) /\ MovesIn(ps) \in Seq(Payloads)
         /\ MovesIn(Append(ps, p)) = Cat(MovesIn(ps), MoveOf(p))
<1>1. Append(ps, p) \in Seq(Packets)
  OBVIOUS
<1>2. /\ Moves \in [Packets -> Seq(Payloads)] /\ MovesIn(ps) = Mapped(Moves, ps)
      /\ MovesIn(Append(ps, p)) = Mapped(Moves, Append(ps, p))
  BY <1>1, MovesMapped
<1>3. Moves[p] = MoveOf(p)
  BY DEF Moves
<1>4. /\ Mapped(Moves, ps) \in Seq(Payloads)
      /\ Mapped(Moves, Append(ps, p)) = Cat(Mapped(Moves, ps), Moves[p])
  BY <1>2, MappedAppend
<1> QED  BY <1>1, <1>2, <1>3, <1>4

(* A packet read by World is echoed exactly where the packet sent was a    *)
(* move.                                                                   *)
LEMMA EchoOfMove ==
  ASSUME NEW op \in Opcodes, NEW body \in Bodies
  PROVE  /\ Number(op, 2) \o body \in Payloads
         /\ EchoOf(Number(op, 2) \o body) = MoveOf(<<op, body>>)
<1>1. IsString(body) /\ IsU16(op)
  BY JourneyTypes
<1>2. body \in Seq(Bytes) /\ Len(body) \in Nat /\ Len(body) < B3
  BY <1>1, StringIs
<1>3. op \in Nat /\ op < B2 /\ Fits(op, 2)
  BY <1>1, NumberField, Fits2
<1> DEFINE head == Number(op, 2)
           p == head \o body
<1>4. head \in Seq(Bytes) /\ Len(head) = 2 /\ ValueOf(head) = op
  BY <1>3, NumberIs, ValueOfNumber
<1> HIDE DEF head
<1>5. p \in Seq(Bytes) /\ Len(p) = 2 + Len(body)
  <2>1. Cat(head, body) \in Seq(Bytes) /\ Len(Cat(head, body)) = Len(head) + Len(body)
    BY <1>2, <1>4, CatIs
  <2>2. p = Cat(head, body)
    BY Zenon DEF Cat
  <2> HIDE DEF p
  <2> QED  BY <1>4, <2>1, <2>2
<1>6. ReadBytes(p, 2) = Just([read |-> head, rest |-> body])
  BY <1>2, <1>4, ReadFirst
<1> HIDE DEF p
<1>7. SubSeq(p, 1, 2) = head /\ SubSeq(p, 3, Len(p)) = body
  <2>1. ReadBytes(p, 2) = Just([read |-> SubSeq(p, 1, 2), rest |-> SubSeq(p, 2 + 1, Len(p))])
    BY <1>2, <1>5 DEF ReadBytes
  <2> QED  BY <1>6, <2>1, JustIs
<1>8. p \in Payloads
  BY <1>2, <1>5, Powers DEF Payloads
<1>9. Echoed(p) <=> op \in {Move, Portal}
  <2>1. Echoed(p) <=> Len(p) >= 2 /\ ValueOf(SubSeq(p, 1, 2)) \in {Move, Portal}
    BY DEF Echoed
  <2>2. Len(p) >= 2
    BY <1>2, <1>5
  <2>3. ValueOf(SubSeq(p, 1, 2)) = op
    BY <1>4, <1>7
  <2> QED  BY <2>1, <2>2, <2>3
<1>10. EchoOf(p) = IF op \in {Move, Portal} THEN <<body>> ELSE <<>>
  BY <1>7, <1>9 DEF EchoOf
<1>11. MoveOf(<<op, body>>) = IF op \in {Move, Portal} THEN <<body>> ELSE <<>>
  BY DEF MoveOf
<1>12. p \in Payloads /\ EchoOf(p) = MoveOf(<<op, body>>)
  BY <1>8, <1>10, <1>11
<1> QED  BY <1>12 DEF p, head

(* A sequence is a part of itself.                                         *)
LEMMA PartOfItself ==
  ASSUME NEW S, NEW s \in Seq(S), NEW c \in Seq(S)
  PROVE  PartOf(s, s) /\ PartOf(s, Cat(s, c))
<1>1. PartOf(s, s)
  BY DEF PartOf
<1> QED  BY <1>1, PartOfLonger

(* An echo that is read moves from what is on its way to what was seen.    *)
LEMMA OneMoved ==
  ASSUME NEW S, NEW s \in Seq(S), NEW a \in Seq(S), a # <<>>
  PROVE  Cat(Append(s, Head(a)), Tail(a)) = Cat(s, a) /\ Append(s, Head(a)) \in Seq(S)
<1> DEFINE h == <<Head(a)>>
           t == Tail(a)
<1>1. /\ h \in Seq(S) /\ t \in Seq(S)
      /\ Append(s, Head(a)) = s \o h /\ a = h \o t
  OBVIOUS
<1> HIDE DEF h, t
<1>2. Append(s, Head(a)) = Cat(s, h) /\ a = Cat(h, t)
  BY <1>1, Zenon DEF Cat
<1>3. Cat(Cat(s, h), t) = Cat(s, Cat(h, t))
  BY <1>1, CatAssoc
<1>4. Cat(s, h) \in Seq(S)
  BY <1>1, CatIs
<1> QED  BY <1>2, <1>3, <1>4 DEF t

LEMMA EchoFramed ==
  ASSUME NEW answers \in Seq(Payloads), NEW p \in Payloads
  PROVE  /\ Frames(answers) \o Answer(p) = Frames(Cat(answers, EchoOf(p)))
         /\ Cat(answers, EchoOf(p)) \in Seq(Payloads)
<1> DEFINE body == SubSeq(p, 3, Len(p))
<1>1. CASE Echoed(p)
  <2>1. body \in Payloads /\ EchoOf(p) = <<body>>
    BY <1>1, EchoIs
  <2>2. Answer(p) = Frame(body)
    BY <1>1 DEF Answer
  <2> HIDE DEF body
  <2>3. Cat(answers, EchoOf(p)) = Append(answers, body)
    <3>1. answers \o <<body>> = Append(answers, body)
      BY <2>1
    <3> QED  BY <2>1, <3>1, Zenon DEF Cat
  <2>4. /\ Append(answers, body) \in Seq(Payloads)
        /\ Frames(Append(answers, body)) = Cat(Frames(answers), Frame(body))
    BY <2>1, FramesAppend
  <2> QED  BY <2>2, <2>3, <2>4, Zenon DEF Cat
<1>2. CASE ~Echoed(p)
  <2>1. EchoOf(p) = <<>> /\ Answer(p) = <<>>
    BY <1>2, EchoIs DEF Answer
  <2>2. Cat(answers, <<>>) = answers /\ Frames(answers) \in Seq(Bytes)
    BY CatEmpty, FramesType
  <2>3. Cat(Frames(answers), <<>>) = Frames(answers)
    BY <2>2, CatEmpty
  <2> QED  BY <2>1, <2>2, <2>3, Zenon DEF Cat
<1> QED  BY <1>1, <1>2

(* The player connects to World with its token.                            *)
LEMMA ToWorldKeeps ==
  ASSUME IInv, ToWorld
  PROVE  IInv'
<1>1. /\ at = "login" /\ seen.proof # Nothing
      /\ at' = "world" /\ open' = TRUE /\ up' = Frame(seen.proof[1][2]) /\ down' = <<>>
      /\ session' = "start"
      /\ seen' = NothingSeen /\ sent' = NothingSent /\ listed' = {}
      /\ known' = [known EXCEPT !.proof = Nothing]
      /\ ForgetServers(Servers)
      /\ UNCHANGED <<typed, packets>>
  BY DEF ToWorld, ConnectTo
<1>2. /\ Replied /\ seen.proof = sent.proof /\ known.player = Nothing /\ packets = <<>>
  BY <1>1 DEF IInv, LoginInv, Asking, Challenged, Proving, Issuing, Answering, Waiting,
       Answered, Proved, Listed
<1>3. up' = Frame(Token)
  <2>1. PICK M2 \in Hashes : sent.proof = Just(<<M2, Token>>)
    BY <1>2 DEF Replied, IsAnswer
  <2>2. seen.proof[1][2] = Token
    BY <1>2, <2>1, PairJust
  <2> QED  BY <1>1, <2>2
<1>4. Token \in Payloads
  BY DrawnIs, StringIs, JourneyTypes DEF Payloads
<1>5. StoreInv'
  BY <1>1, ForgetStored DEF IInv
<1>6. KnownIs(known', known.user, Nothing, known.token, known.player)
  BY <1>1, KnownExcept DEF IInv, Records
<1>7. /\ known'.user = Just(typed) /\ known'.proof = Nothing /\ known'.player = Nothing
      /\ KnownIs(known', known'.user, known'.proof, known'.token, known'.player)
  BY <1>2, <1>6, KnownFields DEF Accepted, Replied
<1>8. /\ seen'.redirect = Nothing /\ seen'.challenge = Nothing /\ seen'.proof = Nothing
      /\ seen'.worlds = Nothing /\ seen'.echoes = <<>>
      /\ SeenIs(seen', seen'.redirect, seen'.challenge, seen'.proof, seen'.worlds,
                seen'.echoes)
      /\ SentIs(sent', sent'.challenge, sent'.clientProof, sent'.proof)
  BY <1>1 DEF NothingSeen, NothingSent, SeenIs, SentIs
<1>9. Records' /\ RedirectAnnounced'
  BY <1>7, <1>8 DEF Records, RedirectAnnounced, Nothing
<1>10. /\ CarriesOne(up', Token) /\ up' \in Seq(Bytes)
       /\ <<Token>> \in Seq(Payloads) /\ Frames(<<Token>>) = Frame(Token)
  BY <1>3, <1>4, Sent, FramesFew
<1>11. ConnectionInv'
  BY <1>1, <1>10 DEF ConnectionInv
<1>12. OnTheWay'
  <2> DEFINE ps == <<Token>>
             none == <<>>
  <2>1. ps # <<>> /\ Head(ps) = Token /\ Tail(ps) = <<>>
    OBVIOUS
  <2>2. Carries(up', ps) /\ up' = Frames(ps)
    BY <1>3, <1>10 DEF CarriesOne
  <2>3. Carries(down', none) /\ down' = Frames(none)
    <3>1. none \in Seq(Payloads)
      OBVIOUS
    <3> QED  BY <1>1, <3>1, FramesFew, Whole
  <2>4. Cat(seen'.echoes, none) = <<>>
    <3>1. Cat(<<>>, <<>>) = <<>>
      BY DEF Cat
    <3> QED  BY <1>8, <3>1
  <2>5. MovesIn(packets') = <<>> /\ EchoesOf(<<>>) = <<>>
    <3>1. [i \in 1..Len(<<>>) |-> EchoOf(<<>>[i])] = <<>>
      OBVIOUS
    <3>2. [i \in DOMAIN <<>> |-> IF <<>>[i][1] \in {Move, Portal}
                                 THEN <<<<>>[i][2]>> ELSE <<>>] = <<>>
      OBVIOUS
    <3> QED  BY <1>1, <1>2, <3>1, <3>2, FlatEmpty DEF MovesIn, EchoesOf
  <2> HIDE DEF ps, none
  <2>6. PacketsOf(ps)' = <<>>
    BY <1>1, <2>1 DEF PacketsOf
  <2>7. PartOf(<<>>, <<>>) /\ Cat(<<>>, <<>>) = <<>>
    BY DEF PartOf, Cat
  <2>8. Travelling(ps, none)'
    BY <2>1, <2>2, <2>3, <2>4, <2>5, <2>6, <2>7 DEF Travelling
  <2> QED  BY <2>8 DEF OnTheWay
<1>13. WorldInv'
  BY <1>1, <1>2, <1>7, <1>8, <1>12 DEF WorldInv
<1>14. HomeInv' /\ MasterInv' /\ LoginInv'
  BY <1>1 DEF HomeInv, MasterInv, LoginInv
<1> QED  BY <1>5, <1>9, <1>11, <1>13, <1>14 DEF IInv

(* What a journey in World keeps, whatever is done there.                  *)
WorldRest ==
  /\ sent = NothingSent /\ known.proof = Nothing /\ listed = {}
  /\ known.user = Just(typed) /\ known.player \in {Nothing, Just(typed)}
  /\ seen.redirect = Nothing /\ seen.challenge = Nothing
  /\ seen.proof = Nothing /\ seen.worlds = Nothing
  /\ seen.echoes \in Seq(Payloads)
  /\ packets \in Seq(Packets)

(* What the invariant says of a player in World.                           *)
LEMMA InWorld ==
  ASSUME IInv, at = "world"
  PROVE  /\ WorldRest /\ OnTheWay
         /\ MovesIn(packets) \in Seq(Payloads)
<1>1. WorldRest /\ OnTheWay
  BY DEF IInv, WorldInv, WorldRest, Packets
<1>2. packets \in Seq(Packets)
  BY <1>1 DEF WorldRest
<1>3. MovesIn(packets) = Mapped(Moves, packets) /\ Moves \in [Packets -> Seq(Payloads)]
  BY <1>2, MovesMapped
<1>4. Mapped(Moves, packets) \in Seq(Payloads)
  BY <1>2, <1>3, MappedParts
<1> QED  BY <1>1, <1>3, <1>4

LEMMA TailAppend ==
  ASSUME NEW S, NEW ps \in Seq(S), ps # <<>>, NEW p \in S
  PROVE  /\ Tail(ps) \in Seq(S) /\ Tail(Append(ps, p)) = Append(Tail(ps), p)
         /\ Head(Append(ps, p)) = Head(ps) /\ Append(ps, p) # <<>>
  OBVIOUS

(* The player sends a packet.                                              *)
LEMMA PlayKeeps ==
  ASSUME IInv, NEW op \in Opcodes, NEW body \in Bodies, Play(op, body)
  PROVE  IInv'
<1> DEFINE p == Number(op, 2) \o body
           packet == <<op, body>>
<1>1. /\ at = "world" /\ open
      /\ up' = up \o Frame(p) /\ packets' = Append(packets, packet)
      /\ UNCHANGED <<entries, announced, typed, at, open, down, session, seen, known,
                     listed, sent>>
  BY DEF Play, registry
<1>2. WorldRest /\ OnTheWay /\ MovesIn(packets) \in Seq(Payloads)
  BY <1>1, InWorld
<1>3. PICK ps, answers : Travelling(ps, answers)
  BY <1>2 DEF OnTheWay
<1>4. p \in Payloads /\ EchoOf(p) = MoveOf(packet) /\ packet \in Packets
  BY EchoOfMove DEF Packets
<1> HIDE DEF p, packet
<1>5. /\ ps \in Seq(Payloads) /\ answers \in Seq(Payloads)
      /\ seen.echoes \in Seq(Payloads) /\ packets \in Seq(Packets)
      /\ Carries(down, answers)
      /\ up = Frames(ps) /\ down = Frames(answers)
      /\ PartOf(Cat(seen.echoes, answers), MovesIn(packets))
      /\ Cat(Cat(seen.echoes, answers), EchoesOf(PacketsOf(ps))) = MovesIn(packets)
      /\ session = "start" => ps # <<>> /\ Head(ps) = Token
  BY <1>1, <1>2, <1>3 DEF Travelling, Carries, WorldRest
<1> DEFINE more == Append(ps, p)
           echoed == Cat(seen.echoes, answers)
           rest == PacketsOf(ps)
<1>6. more \in Seq(Payloads) /\ up' = Frames(more) /\ Carries(up', more)
  <2>1. more \in Seq(Payloads) /\ Frames(more) = Cat(Frames(ps), Frame(p))
    BY <1>4, <1>5, FramesAppend
  <2>2. up' = Frames(more)
    BY <1>1, <1>5, <2>1, Zenon DEF Cat
  <2>3. Carries(Frames(more), more)
    BY <2>1, Whole
  <2> QED  BY <2>1, <2>2, <2>3
<1>7. session = "start" => more # <<>> /\ Head(more) = Token
  BY <1>4, <1>5, TailAppend
<1>8. /\ rest \in Seq(Payloads) /\ PacketsOf(more)' = Append(rest, p)
  <2>1. PacketsOf(more)' = PacketsOf(more)
    BY <1>1 DEF PacketsOf
  <2>2. CASE session = "start"
    <3>1. Tail(ps) \in Seq(Payloads) /\ Tail(more) = Append(Tail(ps), p)
      BY <1>4, <1>5, <2>2, TailAppend
    <3> QED  BY <2>1, <2>2, <3>1 DEF PacketsOf
  <2>3. CASE session # "start"
    BY <1>5, <2>1, <2>3 DEF PacketsOf
  <2> QED  BY <2>2, <2>3
<1> HIDE DEF more, rest
<1>9. /\ EchoesOf(rest) \in Seq(Payloads) /\ EchoOf(p) \in Seq(Payloads)
      /\ EchoesOf(Append(rest, p)) = Cat(EchoesOf(rest), EchoOf(p))
  BY <1>4, <1>8, EchoesAppend
<1>10. /\ packets' \in Seq(Packets)
       /\ MovesIn(packets') = Cat(MovesIn(packets), EchoOf(p))
  BY <1>1, <1>4, <1>5, MovesAppend
<1>11. echoed \in Seq(Payloads)
  BY <1>5, CatIs
<1> HIDE DEF echoed
<1>12. Cat(echoed, EchoesOf(PacketsOf(more)')) = MovesIn(packets')
  <2>1. Cat(echoed, EchoesOf(rest)) = MovesIn(packets)
    BY <1>5 DEF echoed, rest
  <2>2. Cat(Cat(echoed, EchoesOf(rest)), EchoOf(p))
          = Cat(echoed, Cat(EchoesOf(rest), EchoOf(p)))
    BY <1>9, <1>11, CatAssoc
  <2> QED  BY <1>8, <1>9, <1>10, <2>1, <2>2
<1>13. PartOf(echoed, MovesIn(packets'))
  <2>1. PartOf(echoed, MovesIn(packets))
    BY <1>5 DEF echoed
  <2>2. PartOf(echoed, Cat(MovesIn(packets), EchoOf(p)))
    BY <1>2, <1>9, <1>11, <2>1, PartOfLonger
  <2> QED  BY <1>10, <2>2
<1>14. Travelling(more, answers)'
  <2>1. echoed = Cat(seen'.echoes, answers)
    BY <1>1 DEF echoed
  <2>2. Carries(up', more) /\ Carries(down', answers)
    BY <1>1, <1>5, <1>6
  <2>3. session' = "start" => more # <<>> /\ Head(more) = Token
    BY <1>1, <1>7
  <2>4. PartOf(Cat(seen'.echoes, answers), MovesIn(packets'))
    BY <1>13, <2>1
  <2>5. /\ up' = Frames(more) /\ down' = Frames(answers)
        /\ Cat(Cat(seen'.echoes, answers), EchoesOf(PacketsOf(more)')) = MovesIn(packets')
    BY <1>1, <1>5, <1>6, <1>12, <2>1
  <2> QED  BY <2>2, <2>3, <2>4, <2>5 DEF Travelling
<1>15. OnTheWay'
  BY <1>14 DEF OnTheWay
<1>16. WorldInv'
  BY <1>1, <1>2, <1>10, <1>15 DEF WorldInv, WorldRest, Packets, IInv
<1>17. Records' /\ RedirectAnnounced' /\ StoreInv'
  BY <1>1, SameStored DEF IInv, Records, RedirectAnnounced
<1>18. ConnectionInv'
  <2>1. up' \in Seq(Bytes)
    BY <1>6 DEF Carries
  <2> QED  BY <1>1, <2>1 DEF IInv, ConnectionInv
<1>19. HomeInv' /\ MasterInv' /\ LoginInv'
  BY <1>1 DEF HomeInv, MasterInv, LoginInv
<1> QED  BY <1>16, <1>17, <1>18, <1>19 DEF IInv

(* World reads the token, and packets may follow.                          *)
LEMMA EnterKeeps ==
  ASSUME IInv, Enter
  PROVE  IInv'
<1> DEFINE o == Receive(up, WorldFrame)
<1>1. /\ at = "world" /\ session = "start" /\ o # Nothing
      /\ known' = [known EXCEPT !.token = Just(o[1].read)]
      /\ up' = o[1].rest /\ session' = "entering"
      /\ UNCHANGED <<entries, announced, typed, at, open, down, seen, listed, sent,
                     packets>>
  BY DEF Enter, Incoming, registry
<1>2. WorldRest /\ OnTheWay
  BY <1>1, InWorld
<1>3. PICK ps, answers : Travelling(ps, answers)
  BY <1>2 DEF OnTheWay
<1>4. Carries(up, ps) /\ ps \in Seq(Payloads) /\ ps # <<>> /\ Head(ps) = Token
  BY <1>1, <1>3 DEF Travelling, Carries
<1>5. HasFirst(o, up, ps, WorldFrame)
  BY <1>1, <1>4, Arrives, Limits
<1>6. /\ o[1].read = Token /\ Carries(up', Tail(ps))
      /\ up = Frames(ps) => up' = Frames(Tail(ps))
  BY <1>1, <1>4, <1>5 DEF HasFirst
<1>7. known' = [known EXCEPT !.token = Just(Token)]
  BY <1>1, <1>6
<1> HIDE DEF o
<1>8. KnownIs(known', known.user, known.proof, Just(Token), known.player)
  BY <1>7, KnownExcept DEF IInv, Records
<1>9. /\ known'.user = known.user /\ known'.proof = known.proof
      /\ known'.token = Just(Token) /\ known'.player = known.player
      /\ KnownIs(known', known'.user, known'.proof, known'.token, known'.player)
  BY <1>8, KnownFields
<1>10. Travelling(Tail(ps), answers)'
  <2>1. PacketsOf(ps) = Tail(ps) /\ PacketsOf(Tail(ps))' = Tail(ps)
    BY <1>1 DEF PacketsOf
  <2>2. open => up = Frames(ps)
    BY <1>3 DEF Travelling
  <2> QED  BY <1>1, <1>3, <1>6, <2>1, <2>2 DEF Travelling
<1>11. OnTheWay'
  BY <1>10 DEF OnTheWay
<1>12. WorldInv'
  BY <1>1, <1>2, <1>9, <1>11 DEF WorldInv, WorldRest, Packets
<1>13. StoreInv'
  BY <1>1, SameStored DEF IInv
<1>14. Records' /\ RedirectAnnounced'
  BY <1>1, <1>9 DEF IInv, Records, RedirectAnnounced
<1>15. ConnectionInv'
  <2>1. up' \in Seq(Bytes)
    BY <1>6 DEF Carries
  <2> QED  BY <1>1, <2>1 DEF IInv, ConnectionInv
<1>16. HomeInv' /\ MasterInv' /\ LoginInv'
  BY <1>1 DEF HomeInv, MasterInv, LoginInv
<1> QED  BY <1>12, <1>13, <1>14, <1>15, <1>16 DEF IInv

(* World has taken the token from the store and lets the player in.        *)
LEMMA EnteredKeeps ==
  ASSUME IInv, Entered
  PROVE  IInv'
<1> DEFINE value == Taken(Token)
<1>1. at = "world" /\ session = "entering"
  BY DEF Entered
<1>2. WorldRest /\ OnTheWay /\ known.token = Just(Token)
  BY <1>1, InWorld DEF IInv, WorldInv
<1>3. known.token[1] = Token
  BY <1>2, JustIs
<1>4. /\ IsValue(value) /\ entries' = Without(Token)
      /\ known' = [known EXCEPT !.player = Just(value[1].fields[1])]
      /\ session' = "auth"
      /\ UNCHANGED <<announced, typed, at, open, up, down, seen, listed, sent, packets>>
  BY <1>3 DEF Entered
<1>5. IsDrawn(Token)
  BY JourneyTypes
<1>6. Token \in DOMAIN entries =>
        /\ entries[Token] = typed /\ entries[Token] \in Seq(Bytes)
        /\ Len(entries[Token]) < InternalFrame
  <2>1. IsString(typed)
    BY JourneyTypes DEF IInv, StoreInv
  <2>2. typed \in Seq(Bytes)
    BY <2>1, StringIs
  <2> QED  BY <2>2 DEF IInv, StoreInv
<1>7. Token \in DOMAIN entries /\ value[1].fields[1] = entries[Token]
  BY <1>4, <1>5, <1>6, TakenIs
<1>8. known' = [known EXCEPT !.player = Just(typed)]
  BY <1>4, <1>6, <1>7
<1> HIDE DEF value
<1>9. KnownIs(known', known.user, known.proof, known.token, Just(typed))
  BY <1>8, KnownExcept DEF IInv, Records
<1>10. /\ known'.user = known.user /\ known'.proof = known.proof
       /\ known'.player = Just(typed)
       /\ KnownIs(known', known'.user, known'.proof, known'.token, known'.player)
  BY <1>9, KnownFields
<1>11. PICK ps, answers : Travelling(ps, answers)
  BY <1>2 DEF OnTheWay
<1>12. Travelling(ps, answers)'
  <2>1. PacketsOf(ps) = ps /\ PacketsOf(ps)' = ps
    BY <1>1, <1>4 DEF PacketsOf
  <2> QED  BY <1>4, <1>11, <2>1 DEF Travelling
<1>13. OnTheWay'
  BY <1>12 DEF OnTheWay
<1>14. WorldInv'
  BY <1>2, <1>4, <1>10, <1>13 DEF WorldInv, WorldRest, Packets
<1>15. StoreInv'
  BY <1>4, FewerStored DEF IInv, StoreInv, Without
<1>16. Records' /\ RedirectAnnounced'
  BY <1>4, <1>10 DEF IInv, Records, RedirectAnnounced
<1>17. ConnectionInv'
  BY <1>4 DEF IInv, ConnectionInv
<1>18. HomeInv' /\ MasterInv' /\ LoginInv'
  BY <1>1, <1>4 DEF HomeInv, MasterInv, LoginInv
<1> QED  BY <1>14, <1>15, <1>16, <1>17, <1>18 DEF IInv

(* World reads a packet and echoes a move.                                 *)
LEMMA DispatchKeeps ==
  ASSUME IInv, Dispatch
  PROVE  IInv'
<1> DEFINE o == Receive(up, WorldFrame)
<1>0. PICK read : read = o[1].read
  OBVIOUS
<1>1. /\ at = "world" /\ session = "auth" /\ o # Nothing
      /\ up' = o[1].rest
      /\ down' = IF open THEN down \o Answer(read) ELSE down
      /\ UNCHANGED <<entries, announced, typed, at, open, session, seen, known,
                     listed, sent, packets>>
  BY <1>0 DEF Dispatch, Incoming, Send, registry
<1>2. WorldRest /\ OnTheWay /\ MovesIn(packets) \in Seq(Payloads)
  BY <1>1, InWorld
<1>3. PICK ps, answers : Travelling(ps, answers)
  BY <1>2 DEF OnTheWay
<1>4. /\ ps \in Seq(Payloads) /\ answers \in Seq(Payloads)
      /\ seen.echoes \in Seq(Payloads)
      /\ Carries(up, ps) /\ Carries(down, answers)
      /\ PartOf(Cat(seen.echoes, answers), MovesIn(packets))
  BY <1>2, <1>3 DEF Travelling, Carries, WorldRest
<1>5. HasFirst(o, up, ps, WorldFrame)
  BY <1>1, <1>4, Arrives, Limits
<1> DEFINE rest == Tail(ps)
           echo == EchoOf(read)
           longer == Cat(answers, echo)
<1>6. /\ ps # <<>> /\ read = Head(ps) /\ Carries(up', rest)
      /\ up = Frames(ps) => up' = Frames(rest)
  BY <1>0, <1>1, <1>5 DEF HasFirst
<1>7. /\ read \in Payloads /\ rest \in Seq(Payloads)
      /\ echo \in Seq(Payloads) /\ EchoesOf(rest) \in Seq(Payloads)
      /\ EchoesOf(ps) = Cat(echo, EchoesOf(rest))
  BY <1>4, <1>6, EchoesHead
<1> HIDE DEF o, rest, echo
<1>8. /\ Frames(answers) \o Answer(read) = Frames(Cat(answers, echo))
      /\ Cat(answers, echo) \in Seq(Payloads)
  BY <1>4, <1>7, EchoFramed DEF echo
<1>9. ASSUME open PROVE Travelling(rest, longer)'
  <2>1. /\ up = Frames(ps) /\ down = Frames(answers)
        /\ Cat(Cat(seen.echoes, answers), EchoesOf(ps)) = MovesIn(packets)
    BY <1>1, <1>3, <1>9 DEF Travelling, PacketsOf
  <2> DEFINE echoes == seen.echoes
  <2>2. up' = Frames(rest) /\ down' = Frames(longer)
    BY <1>1, <1>6, <1>8, <1>9, <2>1
  <2>3. longer \in Seq(Payloads) /\ Carries(Frames(longer), longer)
    BY <1>8, Whole
  <2>4. Cat(echoes, answers) \in Seq(Payloads) /\ Cat(echoes, longer) \in Seq(Payloads)
    BY <1>4, <2>3, CatIs
  <2>5. Cat(Cat(echoes, longer), EchoesOf(rest)) = MovesIn(packets)
    <3>1. Cat(Cat(echoes, answers), Cat(echo, EchoesOf(rest))) = MovesIn(packets)
      BY <1>7, <2>1
    <3>2. Cat(Cat(Cat(echoes, answers), echo), EchoesOf(rest))
            = Cat(Cat(echoes, answers), Cat(echo, EchoesOf(rest)))
      BY <1>7, <2>4, CatAssoc
    <3>3. Cat(Cat(echoes, answers), echo) = Cat(echoes, longer)
      BY <1>4, <1>7, CatAssoc
    <3> QED  BY <3>1, <3>2, <3>3
  <2>6. PartOf(Cat(echoes, longer), MovesIn(packets))
    <3>1. PartOf(Cat(echoes, longer), Cat(Cat(echoes, longer), EchoesOf(rest)))
      BY <1>7, <2>4, PartOfItself
    <3> QED  BY <2>5, <3>1
  <2> HIDE DEF longer
  <2>7. Carries(down', longer)
    BY <2>2, <2>3
  <2>8. PacketsOf(rest)' = rest
    BY <1>1 DEF PacketsOf
  <2>9. /\ PartOf(Cat(seen'.echoes, longer), MovesIn(packets'))
        /\ Cat(Cat(seen'.echoes, longer), EchoesOf(PacketsOf(rest)')) = MovesIn(packets')
    BY <1>1, <2>5, <2>6, <2>8
  <2>10. session' # "start"
    BY <1>1
  <2> QED  BY <1>6, <2>2, <2>7, <2>9, <2>10 DEF Travelling
<1>10. ~open => Travelling(rest, answers)'
  BY <1>1, <1>4, <1>6 DEF Travelling
<1>11. OnTheWay'
  BY <1>9, <1>10 DEF OnTheWay
<1>12. WorldInv'
  BY <1>1, <1>2, <1>11 DEF WorldInv, WorldRest, Packets, IInv
<1>13. Records' /\ RedirectAnnounced' /\ StoreInv'
  BY <1>1, SameStored DEF IInv, Records, RedirectAnnounced
<1>14. ConnectionInv'
  <2>1. up' \in Seq(Bytes)
    BY <1>6 DEF Carries
  <2>2. down' \in Seq(Bytes)
    <3>1. CASE open
      <4>1. down' = Frames(Cat(answers, echo))
        BY <1>1, <1>3, <1>8, <3>1 DEF Travelling
      <4> QED  BY <1>8, <4>1, FramesType
    <3>2. CASE ~open
      BY <1>1, <1>4, <3>2 DEF Carries
    <3> QED  BY <3>1, <3>2
  <2> QED  BY <1>1, <2>1, <2>2 DEF IInv, ConnectionInv
<1>15. HomeInv' /\ MasterInv' /\ LoginInv'
  BY <1>1 DEF HomeInv, MasterInv, LoginInv
<1> QED  BY <1>12, <1>13, <1>14, <1>15 DEF IInv

(* The player reads an echo.                                               *)
LEMMA ReadEchoKeeps ==
  ASSUME IInv, ReadEcho
  PROVE  IInv'
<1> DEFINE o == Receive(down, AnswerFrame)
<1>1. /\ at = "world" /\ o # Nothing
      /\ seen' = [seen EXCEPT !.echoes = Append(seen.echoes, o[1].read)]
      /\ down' = o[1].rest
      /\ UNCHANGED <<entries, announced, typed, at, open, up, session, known,
                     listed, sent, packets>>
  BY DEF ReadEcho, ClientReads, registry
<1>2. WorldRest /\ OnTheWay
  BY <1>1, InWorld
<1>3. PICK ps, answers : Travelling(ps, answers)
  BY <1>2 DEF OnTheWay
<1>4. /\ answers \in Seq(Payloads) /\ seen.echoes \in Seq(Payloads)
      /\ Carries(down, answers)
  BY <1>2, <1>3 DEF Travelling, Carries, WorldRest
<1>5. HasFirst(o, down, answers, AnswerFrame)
  BY <1>1, <1>4, Arrives, Limits
<1> DEFINE rest == Tail(answers)
           echoes == Append(seen.echoes, Head(answers))
<1>6. /\ answers # <<>> /\ o[1].read = Head(answers) /\ Carries(down', rest)
      /\ down = Frames(answers) => down' = Frames(rest)
  BY <1>1, <1>5 DEF HasFirst
<1>7. seen' = [seen EXCEPT !.echoes = echoes]
  BY <1>1, <1>6
<1>8. Cat(echoes, rest) = Cat(seen.echoes, answers) /\ echoes \in Seq(Payloads)
  BY <1>4, <1>6, OneMoved
<1> HIDE DEF o, rest, echoes
<1>9. SeenIs(seen', seen.redirect, seen.challenge, seen.proof, seen.worlds, echoes)
  BY <1>7, SeenExcept DEF IInv, Records
<1>10. /\ seen'.redirect = seen.redirect /\ seen'.challenge = seen.challenge
       /\ seen'.proof = seen.proof /\ seen'.worlds = seen.worlds
       /\ seen'.echoes = echoes
       /\ SeenIs(seen', seen'.redirect, seen'.challenge, seen'.proof, seen'.worlds,
                 seen'.echoes)
  BY <1>9, SeenFields
<1>11. Travelling(ps, rest)'
  <2>1. PacketsOf(ps)' = PacketsOf(ps)
    BY <1>1 DEF PacketsOf
  <2>2. Cat(seen'.echoes, rest) = Cat(seen.echoes, answers)
    BY <1>8, <1>10
  <2> QED  BY <1>1, <1>3, <1>6, <2>1, <2>2 DEF Travelling
<1>12. OnTheWay'
  BY <1>11 DEF OnTheWay
<1>13. WorldInv'
  BY <1>1, <1>2, <1>8, <1>10, <1>12 DEF WorldInv, WorldRest, Packets, IInv
<1>14. Records' /\ RedirectAnnounced' /\ StoreInv'
  BY <1>1, <1>10, SameStored DEF IInv, Records, RedirectAnnounced
<1>15. ConnectionInv'
  <2>1. down' \in Seq(Bytes)
    BY <1>6 DEF Carries
  <2> QED  BY <1>1, <2>1 DEF IInv, ConnectionInv
<1>16. HomeInv' /\ MasterInv' /\ LoginInv'
  BY <1>1 DEF HomeInv, MasterInv, LoginInv
<1> QED  BY <1>13, <1>14, <1>15, <1>16 DEF IInv

(* What is left of a stream that is cut, or of one that is closed: it      *)
(* carries what the whole stream carried.                                  *)
Shorter(t, s) ==
  t \in Seq(Bytes) /\ (s = <<>> => t = <<>>) /\ \A ps : Carries(s, ps) => Carries(t, ps)

LEMMA LessIsShorter ==
  ASSUME NEW s \in Seq(Bytes)
  PROVE  /\ Shorter(s, s) /\ Shorter(<<>>, s)
         /\ \A n \in 0..Len(s) : Shorter(SubSeq(s, 1, n), s)
<1>1. Shorter(s, s)
  BY DEF Shorter
<1>2. Shorter(<<>>, s)
  <2>1. ASSUME NEW ps, Carries(s, ps) PROVE Carries(<<>>, ps)
    BY <2>1, Whole DEF Carries
  <2>2. <<>> \in Seq(Bytes)
    OBVIOUS
  <2> QED  BY <2>1, <2>2 DEF Shorter
<1>3. ASSUME NEW n \in 0..Len(s) PROVE Shorter(SubSeq(s, 1, n), s)
  <2> DEFINE t == SubSeq(s, 1, n)
  <2>1. t \in Seq(Bytes) /\ Len(t) = n
    BY Split
  <2>2. \A ps : Carries(s, ps) => Carries(t, ps)
    BY CutCarries
  <2>3. s = <<>> => n = 0
    OBVIOUS
  <2> HIDE DEF t
  <2>4. n = 0 => t = <<>>
    BY <2>1
  <2> QED  BY <2>1, <2>2, <2>3, <2>4 DEF Shorter, t
<1> QED  BY <1>1, <1>2, <1>3

(* What was said of a stream holds of a shorter one.                       *)
LEMMA ShorterCarries ==
  ASSUME NEW t, NEW s, Shorter(t, s)
  PROVE  /\ t \in Seq(Bytes) /\ (s = <<>> => t = <<>>)
         /\ \A p : CarriesOne(s, p) => CarriesOne(t, p)
         /\ MasterSent(s) => MasterSent(t)
         /\ \A answer, worlds : BothSent(s, answer, worlds) => BothSent(t, answer, worlds)
         /\ \A worlds : WorldsSent(s, worlds) => WorldsSent(t, worlds)
<1>1. t \in Seq(Bytes) /\ (s = <<>> => t = <<>>)
  BY DEF Shorter
<1>2. /\ \A p : CarriesOne(s, p) => CarriesOne(t, p)
      /\ \A p, q : CarriesTwo(s, p, q) => CarriesTwo(t, p, q)
  BY DEF Shorter, CarriesOne, CarriesTwo
<1> QED  BY <1>1, <1>2 DEF MasterSent, BothSent, WorldsSent

(* A connection that is lost: of what was under way a part is left, and    *)
(* nothing follows.                                                        *)
LEMMA LostKeeps ==
  ASSUME RestInv, at # "home", Shorter(up', up), Shorter(down', down),
         open' = FALSE, session' = session \/ session' = "closed",
         session' = "closed" => up' = <<>>,
         UNCHANGED <<typed, at, seen, known, listed, sent, packets>>
  PROVE  RestInv'
<1>0. UNCHANGED <<typed, at, seen, known, listed, sent, packets>>
  OBVIOUS
<1>1. Records' /\ RedirectAnnounced' /\ HomeInv'
  BY <1>0 DEF RestInv, Records, RedirectAnnounced, HomeInv
<1>2. up' \in Seq(Bytes) /\ down' \in Seq(Bytes)
  BY ShorterCarries
<1>3. ConnectionInv'
  BY <1>0, <1>2 DEF RestInv, ConnectionInv
<1>4. MasterInv'
  <2> SUFFICES ASSUME at = "master" PROVE MasterInv'
    BY <1>0 DEF MasterInv
  <2>1. MasterSent(down) /\ CarriesOne(up, <<1>>) /\ (up = <<>> \/ down = <<>>)
    BY DEF RestInv, MasterInv
  <2>2. MasterSent(down') /\ CarriesOne(up', <<1>>) /\ (up' = <<>> \/ down' = <<>>)
    BY <2>1, ShorterCarries
  <2> QED  BY <1>0, <2>2 DEF RestInv, MasterInv
<1>5. LoginInv'
  <2> SUFFICES ASSUME at = "login" PROVE LoginInv'
    BY <1>0 DEF LoginInv
  <2>0. /\ (up = <<>> => up' = <<>>) /\ (down = <<>> => down' = <<>>)
        /\ \A p : CarriesOne(up, p) => CarriesOne(up', p)
        /\ \A p : CarriesOne(down, p) => CarriesOne(down', p)
        /\ \A answer, worlds :
             BothSent(down, answer, worlds) => BothSent(down', answer, worlds)
        /\ \A worlds : WorldsSent(down, worlds) => WorldsSent(down', worlds)
    BY ShorterCarries
  <2>1. Asking => Asking'
    BY <1>0, <2>0 DEF Asking, TheHello
  <2>2. Challenged => Challenged'
    BY <1>0, <2>0 DEF Challenged, TheChallenge
  <2>3. Proving => Proving'
    BY <1>0, <2>0 DEF Proving, TheProof
  <2>4. (Accepted => Accepted') /\ (Replied => Replied')
    BY <1>0, <2>0 DEF Accepted, Replied
  <2>5. Answered => Answered'
    BY <1>0, <2>0, <2>4 DEF Answered, TheAnswer
  <2>6. Proved => Proved'
    BY <1>0, <2>0, <2>4 DEF Proved
  <2>7. Listed => Listed'
    BY <1>0, <2>0, <2>4 DEF Listed
  <2>8. (Issuing => Issuing') /\ (Waiting => Waiting')
    BY <1>0, <2>0, <2>4 DEF Issuing, Waiting
  <2>9. Answering => Answering'
    BY <1>0, <2>0, <2>4 DEF Answering, TheAnswer
  <2> QED
    BY <1>0, <2>1, <2>2, <2>3, <2>5, <2>6, <2>7, <2>8, <2>9 DEF RestInv, LoginInv
<1>6. WorldInv'
  <2> SUFFICES ASSUME at = "world" PROVE WorldInv'
    BY <1>0 DEF WorldInv
  <2>1. OnTheWay
    BY DEF RestInv, WorldInv
  <2>2. PICK ps, answers : Travelling(ps, answers)
    BY <2>1 DEF OnTheWay
  <2>3. Carries(up', ps) /\ Carries(down', answers)
    BY <2>2 DEF Shorter, Travelling
  <2>4. Travelling(ps, answers)'
    BY <1>0, <2>2, <2>3 DEF Travelling
  <2>5. OnTheWay'
    BY <2>4 DEF OnTheWay
  <2> QED  BY <1>0, <2>5 DEF RestInv, WorldInv
<1> QED  BY <1>1, <1>3, <1>4, <1>5, <1>6 DEF RestInv

(* The connection is lost, in the middle of anything.                      *)
LEMMA CutKeeps ==
  ASSUME IInv, Cut
  PROVE  IInv'
<1>1. /\ open /\ open' = FALSE
      /\ UNCHANGED <<entries, announced, typed, at, session, seen, known, listed, sent,
                     packets>>
      /\ \/ \E n \in Parts(up) : up' = SubSeq(up, 1, n) /\ UNCHANGED down
         \/ \E n \in Parts(down) : down' = SubSeq(down, 1, n) /\ UNCHANGED up
  BY DEF Cut, registry
<1>2. up \in Seq(Bytes) /\ down \in Seq(Bytes)
  BY DEF IInv, ConnectionInv
<1>3. Shorter(up', up) /\ Shorter(down', down)
  <2>1. CASE \E n \in Parts(up) : up' = SubSeq(up, 1, n) /\ UNCHANGED down
    <3>1. PICK n \in Parts(up) : up' = SubSeq(up, 1, n) /\ UNCHANGED down
      BY <2>1
    <3>2. n \in 0..Len(up)
      BY DEF Parts
    <3>3. Shorter(SubSeq(up, 1, n), up) /\ Shorter(down, down)
      BY <1>2, <3>2, LessIsShorter
    <3> QED  BY <3>1, <3>3
  <2>2. CASE \E n \in Parts(down) : down' = SubSeq(down, 1, n) /\ UNCHANGED up
    <3>1. PICK n \in Parts(down) : down' = SubSeq(down, 1, n) /\ UNCHANGED up
      BY <2>2
    <3>2. n \in 0..Len(down)
      BY DEF Parts
    <3>3. Shorter(SubSeq(down, 1, n), down) /\ Shorter(up, up)
      BY <1>2, <3>2, LessIsShorter
    <3> QED  BY <3>1, <3>3
  <2> QED  BY <1>1, <2>1, <2>2
<1>4. at # "home"
  BY <1>1 DEF IInv, HomeInv, AtHome
<1>5. session # "closed"
  BY <1>1 DEF IInv, ConnectionInv
<1>6. RestInv'
  BY <1>1, <1>3, <1>4, <1>5, LostKeeps DEF IInv, RestInv
<1>7. StoreInv'
  BY <1>1, SameStored DEF IInv
<1> QED  BY <1>6, <1>7 DEF IInv, RestInv

(* A server ends the session.                                              *)
LEMMA CloseKeeps ==
  ASSUME IInv, Close
  PROVE  IInv'
<1>1. /\ at # "home" /\ session' = "closed" /\ open' = FALSE /\ up' = <<>>
      /\ \/ UNCHANGED entries
         \/ \E key : entries' = Without(key)
      /\ UNCHANGED <<announced, typed, at, down, seen, known, listed, sent, packets>>
  BY DEF Close
<1>2. up \in Seq(Bytes) /\ down \in Seq(Bytes)
  BY DEF IInv, ConnectionInv
<1>3. Shorter(up', up) /\ Shorter(down', down)
  <2>1. Shorter(<<>>, up) /\ Shorter(down, down)
    BY <1>2, LessIsShorter
  <2> QED  BY <1>1, <2>1
<1>4. RestInv'
  BY <1>1, <1>3, LostKeeps DEF IInv, RestInv
<1>5. StoreInv'
  <2>1. CASE UNCHANGED entries
    BY <1>1, <2>1, SameStored DEF IInv
  <2>2. CASE \E key : entries' = Without(key)
    <3>1. PICK key : entries' = [k \in DOMAIN entries \ {key} |-> entries[k]]
      BY <2>2 DEF Without
    <3> QED  BY <1>1, <3>1, FewerStored DEF IInv, StoreInv
  <2> QED  BY <1>1, <2>1, <2>2
<1> QED  BY <1>4, <1>5 DEF IInv, RestInv

(* The initial states.                                                     *)
LEMMA InitKeeps ==
  ASSUME Init
  PROVE  IInv
<1>1. /\ entries = <<>> /\ announced = [s \in Servers |-> Nothing]
      /\ typed \in Usernames /\ AtHome
  BY DEF Init
<1>2. DOMAIN entries = {}
  BY <1>1
<1>3. StoreInv
  BY <1>1, <1>2 DEF StoreInv
<1>4. Records /\ RedirectAnnounced
  BY <1>1 DEF AtHome, Records, RedirectAnnounced, NothingSeen, NothingKnown, NothingSent,
       SeenIs, KnownIs, SentIs, Nothing
<1>5. ConnectionInv
  <2>1. <<>> \in Seq(Bytes)
    OBVIOUS
  <2> QED  BY <1>1, <2>1 DEF AtHome, ConnectionInv
<1>6. HomeInv /\ MasterInv /\ LoginInv /\ WorldInv
  BY <1>1 DEF AtHome, HomeInv, MasterInv, LoginInv, WorldInv
<1> QED  BY <1>3, <1>4, <1>5, <1>6 DEF IInv

(* A step that changes nothing.                                            *)
LEMMA StutterKeeps ==
  ASSUME IInv, UNCHANGED vars
  PROVE  IInv'
<1>1. /\ UNCHANGED <<entries, announced, typed>>
      /\ UNCHANGED <<typed, connection, seen, known, listed, sent, packets>>
  BY DEF vars, registry
<1> QED  BY <1>1, SameStored, RestSame DEF IInv, RestInv

(* Every step of the player, of the servers and of the store, and every    *)
(* loss of the connection, keeps the inductive invariant.                  *)
THEOREM JourneyInductive == Spec => []IInv
<1>1. Init => IInv
  BY InitKeeps
<1>2. IInv /\ [Next]_vars => IInv'
  <2> SUFFICES ASSUME IInv, [Next]_vars PROVE IInv'
    OBVIOUS
  <2>1. CASE \E s \in Servers : \E info \in Infos[s] : Announce(s, info)
    BY <2>1, AnnounceKeeps
  <2>2. CASE \E k \in DOMAIN entries : Expire(k)
    BY <2>2, ExpireKeeps
  <2>3. CASE ToMaster \/ Redirect \/ Follow
    BY <2>3, ToMasterKeeps, RedirectKeeps, FollowKeeps
  <2>4. CASE \/ Challenge \/ Prove \/ AcceptProof \/ SendProof \/ SendWorlds
             \/ ReadProof \/ ReadWorlds
    BY <2>4, ChallengeKeeps, ProveKeeps, AcceptProofKeeps, SendProofKeeps,
       SendWorldsKeeps, ReadProofKeeps, ReadWorldsKeeps
  <2>5. CASE ToWorld \/ Enter \/ Entered \/ Dispatch \/ ReadEcho
    BY <2>5, ToWorldKeeps, EnterKeeps, EnteredKeeps, DispatchKeeps, ReadEchoKeeps
  <2>6. CASE \E op \in Opcodes, body \in Bodies : Play(op, body)
    BY <2>6, PlayKeeps
  <2>7. CASE Cut \/ Close
    BY <2>7, CutKeeps, CloseKeeps
  <2>8. CASE UNCHANGED vars
    BY <2>8, StutterKeeps
  <2> QED  BY <2>1, <2>2, <2>3, <2>4, <2>5, <2>6, <2>7, <2>8 DEF Next
<1> QED  BY <1>1, <1>2, PTL DEF Spec

(* Whoever connects is in one of the stages: what it and the servers have  *)
(* decoded there.                                                          *)
LEMMA Decodings ==
  ASSUME IInv
  PROVE  /\ known.user \in {Nothing, Just(typed)}
         /\ known.player \in {Nothing, Just(typed)}
         /\ seen.challenge \in {Nothing, sent.challenge}
         /\ known.proof \in {Nothing, sent.clientProof}
         /\ seen.proof \in {Nothing, sent.proof}
         /\ seen.worlds = Nothing \/ WorldsSeen(seen.worlds, listed)
<1>1. CASE at \in {"home", "master"}
  BY <1>1 DEF IInv, HomeInv, AtHome, MasterInv, NothingSeen, NothingKnown, NothingSent
<1>2. CASE at = "login"
  <2>1. CASE Asking
    BY <1>2, <2>1 DEF IInv, LoginInv, Asking, NothingKnown
  <2>2. CASE Challenged
    BY <1>2, <2>2 DEF IInv, LoginInv, Challenged
  <2>3. CASE Proving
    BY <1>2, <2>3 DEF IInv, LoginInv, Proving
  <2>4. CASE Issuing \/ Answering \/ Waiting
    BY <1>2, <2>4 DEF IInv, LoginInv, Issuing, Answering, Waiting, Accepted, Replied
  <2>5. CASE Answered \/ Proved \/ Listed
    BY <1>2, <2>5 DEF IInv, LoginInv, Answered, Proved, Listed, Accepted, Replied
  <2> QED  BY <1>2, <2>1, <2>2, <2>3, <2>4, <2>5 DEF IInv, LoginInv
<1>3. CASE at = "world"
  BY <1>3 DEF IInv, WorldInv
<1> QED  BY <1>1, <1>2, <1>3 DEF IInv, ConnectionInv

(* The entries of the store and the two streams are bytes.                 *)
LEMMA StoredBytes ==
  ASSUME IInv, NEW k \in DOMAIN entries
  PROVE  k \in Seq(Bytes) /\ entries[k] \in Seq(Bytes)
<1>1. CASE k \in Servers
  BY <1>1, StoredInfo DEF IInv, IsRead
<1>2. CASE k = Ticket
  <2>1. IsString(Ticket) /\ entries[k] = <<>>
    BY <1>2, DrawnIs, JourneyTypes DEF IInv, StoreInv
  <2> QED  BY <1>2, <2>1, StringIs
<1>3. CASE k = Token
  <2>1. IsString(Token) /\ IsString(typed) /\ entries[k] = typed
    BY <1>3, DrawnIs, JourneyTypes DEF IInv, StoreInv
  <2> QED  BY <1>3, <2>1, StringIs
<1> QED  BY <1>1, <1>2, <1>3 DEF IInv, StoreInv

LEMMA BytesAre ==
  ASSUME NEW b \in Seq(Bytes)
  PROVE  IsBytes(b)
<1>1. \A i \in DOMAIN b : b[i] \in Bytes
  BY LenProperties, ElementOfSeq
<1> QED  BY <1>1 DEF IsBytes, Bytes

(* TypeOK: what the store holds and what travels are bytes, whoever made   *)
(* them and wherever they are cut, and the player and the session are in   *)
(* one of their stages.                                                    *)
THEOREM JourneyTyped == Spec => []TypeOK
<1>1. ASSUME IInv PROVE TypeOK
  <2>1. \A k \in DOMAIN entries : IsBytes(k) /\ IsBytes(entries[k])
    BY <1>1, StoredBytes, BytesAre
  <2>2. IsBytes(up) /\ IsBytes(down)
    BY <1>1, BytesAre DEF IInv, ConnectionInv
  <2> QED  BY <1>1, <2>1, <2>2 DEF TypeOK, IInv, ConnectionInv, StoreInv
<1> QED  BY <1>1, JourneyInductive, PTL

(* RedirectAnnounced: a player goes where some login server said that it   *)
(* listens, with the ticket that Master put in the store, whatever became  *)
(* of the registry in between.                                             *)
THEOREM RedirectsAnnounced == Spec => []RedirectAnnounced
<1>1. IInv => RedirectAnnounced
  BY DEF IInv
<1> QED  BY <1>1, JourneyInductive, PTL

(* UserIntact: the name that Login and World work with is the name the     *)
(* player typed, through the hello, the token's entry in the store and the *)
(* take that World makes of it.                                            *)
THEOREM UsersIntact == Spec => []UserIntact
<1>1. IInv => UserIntact
  BY Decodings DEF UserIntact
<1> QED  BY <1>1, JourneyInductive, PTL

(* ExchangeIntact: each side's challenge, proof and answer are those the   *)
(* other side sent, or none.                                               *)
THEOREM ExchangesIntact == Spec => []ExchangeIntact
<1>1. IInv => ExchangeIntact
  BY Decodings DEF ExchangeIntact
<1> QED  BY <1>1, JourneyInductive, PTL

(* WorldsIntact: the worlds a player is shown are those that were          *)
(* announced when Login asked the store, each once, with the host, the     *)
(* port, the name and the population announced, or no list.                *)
THEOREM ListsIntact == Spec => []WorldsIntact
<1>1. ASSUME IInv PROVE WorldsIntact
  <2>1. CASE seen.worlds = Nothing
    <3>1. DOMAIN seen.worlds = {}
      BY <2>1 DEF Nothing
    <3> QED  BY <3>1 DEF WorldsIntact
  <2>2. CASE WorldsSeen(seen.worlds, listed)
    <3>1. PICK rows : Shown(rows, listed) /\ seen.worlds = Just(rows)
      BY <2>2 DEF WorldsSeen
    <3>2. {seen.worlds[i] : i \in DOMAIN seen.worlds} = {rows}
      BY <3>1 DEF Just
    <3>3. \/ rows = <<>>
          \/ /\ Len(rows) = Cardinality(listed)
             /\ ToSet(rows) = {<<w[3], w[1], w[2], w[4]>> : w \in listed}
      BY <3>1, Zenon DEF Shown, RowOf
    <3> QED  BY <3>2, <3>3, Zenon DEF WorldsIntact
  <2> QED  BY <1>1, <2>1, <2>2, Decodings
<1> QED  BY <1>1, JourneyInductive, PTL

(* A part of a sequence, as Wire has it, is a prefix, as the property has  *)
(* it.                                                                     *)
LEMMA PartIsPrefix ==
  ASSUME NEW S, NEW s \in Seq(S), NEW a \in Seq(S), NEW t \in Seq(S),
         PartOf(Cat(s, a), t)
  PROVE  IsPrefix(s, t)
<1> DEFINE n == Len(s)
<1>1. /\ n \in Nat /\ Len(a) \in Nat /\ Len(t) \in Nat
      /\ Len(Cat(s, a)) = n + Len(a) /\ n + Len(a) <= Len(t)
  BY CatIs DEF PartOf
<1>2. \A i \in 1..n : Cat(s, a)[i] = s[i]
  <2>1. \A i \in 1..n : i \in 1..n + Len(a) /\ i <= n
    BY <1>1
  <2> QED  BY <2>1, CatAt
<1>3. \A i \in 1..n : s[i] = t[i]
  <2>1. \A i \in 1..n : i \in 1..Len(Cat(s, a))
    BY <1>1
  <2> QED  BY <1>2, <2>1 DEF PartOf
<1>4. n \in 0..Len(t) /\ n \in 0..Len(s)
  BY <1>1
<1>5. /\ SubSeq(s, 1, n) \in Seq(S) /\ Len(SubSeq(s, 1, n)) = n
      /\ \A i \in 1..n : SubSeq(s, 1, n)[i] = s[i]
      /\ SubSeq(t, 1, n) \in Seq(S) /\ Len(SubSeq(t, 1, n)) = n
      /\ \A i \in 1..n : SubSeq(t, 1, n)[i] = t[i]
  BY <1>4, Split
<1> HIDE DEF n
<1>6. SubSeq(s, 1, n) = SubSeq(t, 1, n)
  BY <1>1, <1>3, <1>5, SeqEqual
<1>7. n <= Len(t)
  BY <1>4
<1> QED  BY <1>6, <1>7 DEF IsPrefix, n

(* EchoIntact: what comes back from World is a beginning of the moves that *)
(* were sent, in their order, nothing added and nothing twice, wherever    *)
(* the connection is cut.                                                  *)
THEOREM EchoesIntact == Spec => []EchoIntact
<1>1. ASSUME IInv PROVE EchoIntact
  <2>1. CASE at = "world"
    <3>1. OnTheWay /\ seen.echoes \in Seq(Payloads) /\ MovesIn(packets) \in Seq(Payloads)
      BY <1>1, <2>1, InWorld DEF WorldRest
    <3>2. PICK ps, answers : Travelling(ps, answers)
      BY <3>1 DEF OnTheWay
    <3>3. answers \in Seq(Payloads) /\ PartOf(Cat(seen.echoes, answers), MovesIn(packets))
      BY <3>2 DEF Travelling, Carries
    <3> QED  BY <3>1, <3>3, PartIsPrefix DEF EchoIntact
  <2>2. CASE at # "world"
    <3>1. seen.echoes = <<>> /\ packets = <<>>
      BY <1>1, <2>2 DEF IInv, ConnectionInv, HomeInv, AtHome, MasterInv, LoginInv,
           NothingSeen
    <3>2. MovesIn(packets) = <<>>
      <4>1. [i \in DOMAIN <<>> |-> IF <<>>[i][1] \in {Move, Portal}
                                   THEN <<<<>>[i][2]>> ELSE <<>>] = <<>>
        OBVIOUS
      <4> QED  BY <3>1, <4>1, FlatEmpty DEF MovesIn
    <3>3. IsPrefix(<<>>, <<>>)
      BY DEF IsPrefix
    <3> QED  BY <3>1, <3>2, <3>3 DEF EchoIntact
  <2> QED  BY <2>1, <2>2
<1> QED  BY <1>1, JourneyInductive, PTL
=============================================================================
