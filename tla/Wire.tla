-------------------------------- MODULE Wire --------------------------------
(***************************************************************************)
(* Bytes, fields and frames: ByteWriter and ByteReader (net/byte_io.hpp)   *)
(* and the length prefix (net/framing.hpp, session.hpp).  Byte is 256 in   *)
(* the code; a smaller one keeps the widths (a u16 is two bytes) and       *)
(* brings their limits within reach.                                       *)
(***************************************************************************)
EXTENDS Integers, SequencesExt

CONSTANTS Byte,       \* the values of a byte
          HashSize    \* the bytes of M1 and M2

ASSUME WireAssumption == Byte \in Nat \ {0, 1} /\ HashSize \in Nat \ {0}

(* std::optional *)
Nothing == <<>>
Just(x) == <<x>>
Then(o, F(_)) == IF o = Nothing THEN Nothing ELSE F(o[1])
-----------------------------------------------------------------------------
(* Integers are copied from memory, low byte first, at their width: what   *)
(* does not fit is lost (static_cast).  Quotients(v, n)[i] is what the     *)
(* first i bytes leave of v.                                               *)
Quotients(v, n) ==
  LET left[i \in 0..n] == IF i = 0 THEN v ELSE left[i - 1] \div Byte IN left

NumberUntruncated(v, width) ==
  LET left == Quotients(v, width) IN [i \in 1..width |-> left[i - 1]]
Number(v, width) ==
  LET left == Quotients(v, width) IN [i \in 1..width |-> left[i - 1] % Byte]

ValueOf(b) ==
  LET value[i \in 0..Len(b)] ==   \* of the last i bytes
        IF i = 0 THEN 0 ELSE b[Len(b) - i + 1] + Byte * value[i - 1]
  IN value[Len(b)]

WriteField(kind, x) ==
  CASE kind = "u16" -> Number(x, 2)
    [] kind = "u32" -> Number(x, 4)
    [] kind = "str16" -> Number(Len(x), 2) \o x
    [] kind = "str32" -> Number(Len(x), 4) \o x
    [] kind = "hash" -> x

Write(kinds, fields) ==
  FlattenSeq([i \in 1..Len(kinds) |-> WriteField(kinds[i], fields[i])])

(* A reader gives what it read and what is left, or Nothing when there are *)
(* too few bytes.                                                          *)
ReadBytesThatAreThere(b, n) ==
  LET m == IF n > Len(b) THEN Len(b) ELSE n IN
  Just([read |-> SubSeq(b, 1, m), rest |-> SubSeq(b, m + 1, Len(b))])

ReadBytes(b, n) ==
  IF n > Len(b) THEN Nothing
  ELSE Just([read |-> SubSeq(b, 1, n), rest |-> SubSeq(b, n + 1, Len(b))])

ReadNumber(b, width) ==
  Then(ReadBytes(b, width),
       LAMBDA r : Just([read |-> ValueOf(r.read), rest |-> r.rest]))

ReadField(kind, b) ==
  CASE kind = "u16" -> ReadNumber(b, 2)
    [] kind = "u32" -> ReadNumber(b, 4)
    [] kind \in {"str16", "str32"} ->
         Then(ReadNumber(b, IF kind = "str16" THEN 2 ELSE 4),
              LAMBDA n : ReadBytes(n.rest, n.read))
    [] kind = "hash" -> ReadBytes(b, HashSize)

(* One more item, which Reads reads, after those that have been read. *)
ReadNext(o, Reads(_)) ==
  Then(o, LAMBDA r : Then(Reads(r.rest), LAMBDA f :
    Just([read |-> Append(r.read, f.read), rest |-> f.rest])))

Read(kinds, b) ==
  LET read[i \in 0..Len(kinds)] ==
        IF i = 0 THEN Just([read |-> <<>>, rest |-> b])
        ELSE ReadNext(read[i - 1], LAMBDA rest : ReadField(kinds[i], rest))
  IN read[Len(kinds)]

(* A list: a count, which has a limit, and as many rows. *)
WriteRows(kinds, rows) ==
  Number(Len(rows), 4)
    \o FlattenSeq([i \in 1..Len(rows) |-> Write(kinds, rows[i])])

ReadRows(kinds, limit, b) ==
  Then(ReadNumber(b, 4), LAMBDA count :
    LET read[i \in 0..count.read] ==
          IF i = 0 THEN Just([read |-> <<>>, rest |-> count.rest])
          ELSE ReadNext(read[i - 1], LAMBDA rest : Read(kinds, rest))
    IN IF count.read > limit THEN Nothing ELSE read[count.read])
-----------------------------------------------------------------------------
(* A frame: the length of the payload, high byte first, and the payload.   *)
Frame(payload) == Reverse(Number(Len(payload), 4)) \o payload

(* A reader waits for the header and for the whole payload; a length that  *)
(* is zero or above the reader's limit ends the connection, as the end of  *)
(* the stream does.                                                        *)
ReceiveAnyLength(stream, limit) ==
  Then(ReadBytes(stream, 4), LAMBDA header :
    ReadBytes(header.rest, ValueOf(Reverse(header.read))))

Receive(stream, limit) ==
  Then(ReadBytes(stream, 4), LAMBDA header :
    LET len == ValueOf(Reverse(header.read)) IN
    IF len = 0 \/ len > limit THEN Nothing ELSE ReadBytes(header.rest, len))
=============================================================================
