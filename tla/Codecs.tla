------------------------------- MODULE Codecs -------------------------------
(***************************************************************************)
(* The messages of Master (net/master_protocol.hpp), of Login              *)
(* (net/login_protocol.hpp), of the store (store/store_wire.hpp) and the   *)
(* values of the registry (registry/world_registry.hpp).  What the         *)
(* encoders write stands apart from what the decoders read, as in the      *)
(* code: a message arrives only if the two agree.                          *)
(*                                                                         *)
(* An HMAC is one byte here: a value that only the body it signs yields.   *)
(***************************************************************************)
EXTENDS Wire

CONSTANTS MaxWorlds,   \* what login_proto::decode accepts in a WorldList
          MaxEntries   \* what store::decode_and_verify accepts in a List

ASSUME CodecsAssumption ==
  Byte * Byte > 104 /\ MaxWorlds \in Nat /\ MaxEntries \in Nat

(* A message is its opcode and its fields; those with rows are apart. *)
Encode(writes, op, fields) == Number(op, 2) \o Write(writes[op], fields)

Decode(reads, op, b) ==
  IF op \notin DOMAIN reads THEN Nothing
  ELSE Then(Read(reads[op], b),
            LAMBDA r : Just([op |-> op, fields |-> r.read]))
-----------------------------------------------------------------------------
(* login_protocol.hpp *)
ClientHello == 1
ClientProof == 2
ServerChallenge == 100
ServerProof == 101
ServerError == 102
WorldList == 103

LoginWrites ==
  [op \in {ClientHello, ClientProof, ServerChallenge, ServerProof, ServerError} |->
     CASE op = ClientHello -> <<"str16", "str16">>      \* ticket, username
       [] op = ClientProof -> <<"str32", "hash">>       \* A, M1
       [] op = ServerChallenge -> <<"str16", "str32">>  \* salt, B
       [] op = ServerProof -> <<"hash", "str16">>       \* M2, session_token
       [] op = ServerError -> <<>>]

LoginReads ==
  [op \in {ClientHello, ClientProof, ServerChallenge, ServerProof, ServerError} |->
     CASE op = ClientHello -> <<"str16", "str16">>
       [] op = ClientProof -> <<"str32", "hash">>
       [] op = ServerChallenge -> <<"str16", "str32">>
       [] op = ServerProof -> <<"hash", "str16">>
       [] op = ServerError -> <<>>]

EncodeLogin(op, fields) == Encode(LoginWrites, op, fields)

(* name, host, port, population *)
EncodeWorldList(worlds) ==
  Number(WorldList, 2) \o WriteRows(<<"str16", "str16", "u16", "u32">>, worlds)

DecodeLogin(msg) ==
  Then(ReadNumber(msg, 2), LAMBDA op :
    IF op.read = WorldList
    THEN Then(ReadRows(<<"str16", "str16", "u16", "u32">>, MaxWorlds, op.rest),
              LAMBDA r : Just([op |-> WorldList, fields |-> r.read]))
    ELSE Decode(LoginReads, op.read, op.rest))
-----------------------------------------------------------------------------
(* master_protocol.hpp: a ticket and the address of a Login, or no Login.  *)
NoLogin == Byte * Byte - 1

EncodeRedirect(ticket, host, port) ==
  Write(<<"str16", "str16", "u16">>, <<ticket, host, port>>)
EncodeNoLogin == Number(NoLogin, 2)

IsNoLogin(msg) ==
  LET first == ReadNumber(msg, 2) IN first # Nothing /\ first[1].read = NoLogin

DecodeRedirect(msg) ==
  Then(Read(<<"str16", "str16", "u16">>, msg), LAMBDA r : Just(r.read))
-----------------------------------------------------------------------------
(* world_registry.hpp: host, port; host, port, name, population. *)
EncodeLoginInfo(i) == Write(<<"str16", "u16">>, i)
DecodeLoginInfo(b) ==
  Then(Read(<<"str16", "u16">>, b), LAMBDA r : Just(r.read))

EncodeWorldInfo(i) == Write(<<"str16", "u16", "str16", "u32">>, i)
DecodeWorldInfoShortCount(b) ==
  Then(Read(<<"str16", "u16", "str16", "u16">>, b), LAMBDA r : Just(r.read))
DecodeWorldInfo(b) ==
  Then(Read(<<"str16", "u16", "str16", "u32">>, b), LAMBDA r : Just(r.read))
-----------------------------------------------------------------------------
(* store_wire.hpp *)
Put == 1
Get == 2
Take == 3
ListPrefix == 4
Ok == 100
Value == 101
NotFound == 102
Err == 103
List == 104

StoreWrites ==
  [op \in {Put, Get, Take, ListPrefix, Ok, Value, NotFound} |->
     CASE op = Put -> <<"str16", "str32", "u32">>       \* key, value, ttl
       [] op \in {Get, Take, ListPrefix} ->
            <<"str16", "u32", "u32">>                   \* key, 0, 0
       [] op \in {Ok, NotFound} -> <<>>
       [] op = Value -> <<"str32">>]

StoreReads ==
  [op \in {Put, Get, Take, ListPrefix, Ok, Value, NotFound, Err} |->
     CASE op = Put -> <<"str16", "str32", "u32">>
       [] op \in {Get, Take, ListPrefix} -> <<"str16">>
       [] op \in {Ok, NotFound, Err} -> <<>>
       [] op = Value -> <<"str32">>]

Sign(body) == Append(body, [hmac |-> body])

EncodeStore(op, fields) == Sign(Encode(StoreWrites, op, fields))

EncodeList(entries) ==
  Sign(Number(List, 2) \o WriteRows(<<"str16", "str32">>, entries))

(* decode_and_verify: the signature first, then the fields. *)
DecodeStore(msg) ==
  IF Len(msg) < 3 \/ Last(msg) # [hmac |-> Front(msg)] THEN Nothing
  ELSE Then(ReadNumber(Front(msg), 2), LAMBDA op :
         IF op.read = List
         THEN Then(ReadRows(<<"str16", "str32">>, MaxEntries, op.rest),
                   LAMBDA r : Just([op |-> List, fields |-> r.read]))
         ELSE Decode(StoreReads, op.read, op.rest))
=============================================================================
