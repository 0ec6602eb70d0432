------------------------------ MODULE MCJourney ------------------------------
(* The byte has 12 values, so that a u16 wraps at 144; the limits keep the   *)
(* order they have in the code (2048, 4096, 8192, 65536, 1 << 20).           *)
EXTENDS Journey

Text(b, n) == [i \in 1..n |-> b]

MCLogins == {<<2, 1>>}
MCWorlds == {<<1, 1>>, <<1, 2>>, <<1, 3>>}

(* A world announces a short name, or one with which the list of two is too  *)
(* long for StoreClient, or one that a u16 cannot count; and more players    *)
(* than a u16 counts.                                                        *)
MCInfos ==
  (<<2, 1>> :> {<<<<2>>, 20>>, <<<<4>>, 21>>}) @@
  (<<1, 1>> :> {<<<<3>>, 30, <<1>>, 150>>, <<<<3>>, 30, Text(1, 54), 0>>}) @@
  (<<1, 2>> :> {<<<<3>>, 31, Text(2, 54), 1>>}) @@
  (<<1, 3>> :> {<<<<3>>, 32, Text(4, 2), 143>>,
                  <<<<3>>, 32, Text(4, 146), 5>>})

(* Names: short, the longest Login takes, one longer, and one that wraps.    *)
MCUsernames == {<<5>>, Text(6, 52), Text(6, 53), Text(7, 146)}
MCTicket == <<3, 1>>
MCToken == <<4, 1>>
MCSalts == {<<8>>}
MCPublicKeys == {<<9, 10>>}
MCHashes == {<<11, 0>>}
MCOpcodes == {1, 2, 3, 9}
MCBodies == {<<>>, <<5>>, <<6, 7>>}
=============================================================================
