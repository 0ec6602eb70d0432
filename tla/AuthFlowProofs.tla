--------------------------- MODULE AuthFlowProofs ---------------------------
(* Proofs about AuthFlow, for any numbers of clients, keys and sessions: a *)
(* key passes once and buys one proof, World gives a client's name only to *)
(* that client for a proof of its password, and a held key is stored       *)
(* unless its loss is on record.                                           *)
EXTENDS AuthFlow, TLAPS
PutOf(s, k) == rpc[s].op = "put" /\ rpc[s].key = k
TakeOf(s, k) == rpc[s].op = "take" /\ rpc[s].key = k
PutWaits(s, k) == PutOf(s, k) /\ answer[s] = "pending"
LatePut(o, k) == o \in orphans /\ o[2].op = "put" /\ o[2].key = k
Wins(s, k) == TakeOf(s, k) /\ answer[s] \in StoreValues

(* The types without the redundancy of Calls!TypeOK. *)
Types ==
  /\ store \in [StoreKeys -> StoreValues \cup {"none"}]
  /\ rpc \in [Slots -> Calls!Requests \cup {Calls!NoCall}]
  /\ answer \in [Slots -> StoreValues \cup {"none", "pending", "miss", "ok", "failed"}]
  /\ orphans \subseteq {"orphan"} \X Calls!Requests
  /\ issued \subseteq Keys
  /\ held \in [Clients -> SUBSET Keys]
  /\ peer \in [Slots -> Clients \cup {Nobody}]
  /\ pc \in [Slots -> {"free", "reading", "store"}]
  /\ stage \in [Slots -> {"start", "proof", "done", "auth"}]
  /\ pass \in [Slots -> StoreKeys \cup {"none"}]
  /\ user \in [Slots -> StoreValues \cup {Nobody}]
  /\ passed \in [Keys -> Nat] /\ proofs \in [Keys -> Nat]
  /\ proven \in [Clients -> SUBSET Tokens]
  /\ gone \subseteq Keys

(* A session is in a store call exactly when it has a request, and then it *)
(* has an answer or waits for one.                                         *)
Awaiting ==
  \A s \in Slots :
    /\ pc[s] = "store" <=> rpc[s] # Calls!NoCall
    /\ rpc[s] # Calls!NoCall <=> answer[s] # "none"

(* What the handlers have in hand at each place. *)
PlaceInv ==
  \A s \in Slots :
    /\ pc[s] = "free" => stage[s] = "start"
    /\ pc[s] # "free" => peer[s] \in Clients
    /\ rpc[s].op # "get"
    /\ rpc[s].op = "take" =>
         /\ stage[s] = "start"
         /\ rpc[s].key \in held[peer[s]] \cup Names
    /\ rpc[s].op \in {"put", "list"} => s \in LoginSlots /\ stage[s] = "proof"
    /\ rpc[s].op = "put" =>
         /\ rpc[s].key \in Tokens /\ rpc[s].value = peer[s]
         /\ peer[s] \in Accounts
         /\ answer[s] \in {"pending", "ok", "failed"}

(* A random key is drawn before anybody has it, and only a token is ever   *)
(* stored with the name of a client.                                       *)
IssuedInv ==
  /\ \A k \in Keys : store[k] # "none" \/ passed[k] # 0 => k \in issued
  /\ \A c \in Clients : held[c] \subseteq issued
  /\ \A s \in Slots : rpc[s].op \in {"take", "put"} => rpc[s].key \in issued \cup Names
  /\ \A o \in orphans : o[2].op \in {"take", "put"} /\ o[2].key \in issued \cup Names
  /\ \A k \in StoreKeys : store[k] \in Clients => k \in Tokens
  /\ \A s \in Slots : rpc[s].op = "take" /\ answer[s] \in Clients => rpc[s].key \in Tokens
  /\ \A o \in orphans : o[2].op = "put" => o[2].key \in Tokens

(* The entry of a key is in one place: on its way to the store, in the     *)
(* store, in an answer, or behind the session it let through.              *)
OnceInv ==
  \A k \in Keys :
    /\ passed[k] <= 1
    /\ \A s, z \in Slots : PutOf(s, k) /\ PutOf(z, k) => s = z
    /\ \A s, z \in Slots : Wins(s, k) /\ Wins(z, k) => s = z
    /\ \A o, q \in orphans : LatePut(o, k) /\ LatePut(q, k) => o = q
    /\ \A s \in Slots : Wins(s, k) => passed[k] = 0
    /\ store[k] # "none" => passed[k] = 0 /\ \A s \in Slots : ~Wins(s, k)
    /\ \A o \in orphans : LatePut(o, k) =>
         passed[k] = 0 /\ store[k] = "none" /\ \A s \in Slots : ~Wins(s, k)
    /\ \A s \in Slots : PutWaits(s, k) =>
         /\ passed[k] = 0 /\ store[k] = "none"
         /\ \A z \in Slots : ~Wins(z, k)
         /\ \A o \in orphans : ~LatePut(o, k)

(* One session at most is at the proof under a random key. *)
ProofInv ==
  /\ \A k \in Keys : proofs[k] <= 1 /\ (proofs[k] = 1 => passed[k] = 1)
  /\ \A s \in Slots : stage[s] = "proof" =>
       /\ s \in LoginSlots
       /\ \A k \in Keys : pass[s] = k =>
            /\ passed[k] = 1
            /\ pc[s] = "reading" => proofs[k] = 0
            /\ \A z \in Slots : stage[z] = "proof" /\ pass[z] = k => z = s

(* A token stands for one client, which has proved the password of its     *)
(* account to have it, wherever the token is.                              *)
StandsFor(k, c) ==
  \/ store[k] = c \/ k \in held[c]
  \/ \E s \in Slots : PutOf(s, k) /\ rpc[s].value = c
  \/ \E s \in Slots : Wins(s, k) /\ answer[s] = c
  \/ \E o \in orphans : LatePut(o, k) /\ o[2].value = c

StandsInv ==
  /\ \A k \in Tokens : \A c, d \in Clients :
       StandsFor(k, c) /\ StandsFor(k, d) => c = d
  /\ \A k \in Tokens : \A c \in Clients :
       StandsFor(k, c) => c \in Accounts /\ k \in proven[c]

(* What the answer to a put says of the token. *)
StoredInv ==
  /\ HeldIsStored
  /\ \A s \in Slots : \A k \in Keys : PutOf(s, k) =>
       /\ answer[s] = "ok" => store[k] # "none" \/ k \in gone
       /\ answer[s] = "failed" => k \in gone
-----------------------------------------------------------------------------
(* The kinds of keys and of values. *)
LEMMA Domains ==
  /\ Tickets \subseteq Keys /\ Tokens \subseteq Keys /\ Tickets \cap Tokens = {}
  /\ Keys \subseteq StoreKeys /\ Names \subseteq StoreKeys /\ Names \cap Keys = {}
  /\ \A k \in StoreKeys : k \in Keys \/ k \in Names
  /\ Clients \subseteq StoreValues /\ Accounts \subseteq Clients
  /\ {"blank", "service"} \subseteq StoreValues \ Clients /\ Nobody \notin Clients
  /\ {"none", "pending", "miss", "ok", "failed"} \cap StoreValues = {}
  /\ LoginSlots \cap WorldSlots = {}
  BY AuthAssumption DEF Keys, StoreKeys, StoreValues

(* What a request is made of. *)
LEMMA RequestParts ==
  ASSUME NEW r \in Calls!Requests
  PROVE  /\ r # Calls!NoCall
         /\ r.op \in {"get", "take", "put", "list"}
         /\ r.op \in {"get", "take", "put"} => r.key \in StoreKeys
         /\ r.op = "put" => r.value \in StoreValues
  BY DEF Calls!Requests, Calls!NoCall

LEMMA NoCallOp == Calls!NoCall.op = "none"
  BY DEF Calls!NoCall

(* The requests that the handlers make. *)
LEMMA RequestTypes ==
  /\ \A k \in StoreKeys : [op |-> "take", key |-> k] \in Calls!Requests
  /\ \A k \in Keys, c \in Clients :
       [op |-> "put", key |-> k, value |-> c] \in Calls!Requests
  /\ [op |-> "list"] \in Calls!Requests
  BY Domains DEF Calls!Requests

LEMMA CountTypes ==
  ASSUME NEW f \in [Keys -> Nat], NEW x
  PROVE  Counted(f, x) \in [Keys -> Nat]
  BY DEF Counted

(* Counting adds one to a random key, and nothing for a name. *)
LEMMA CountedIs ==
  ASSUME NEW f \in [Keys -> Nat], NEW x
  PROVE  /\ x \in Keys => Counted(f, x) = [f EXCEPT ![x] = f[x] + 1]
         /\ x \notin Keys => Counted(f, x) = f
  BY DEF Counted

(* A session that is let through adds to the count of its key, and one     *)
(* that verifies a proof to the count of the key that let it through.      *)
LEMMA PassedGrows ==
  ASSUME Types, NEW s \in Slots, HelloFound(s) \/ EnterFound(s)
  PROVE  /\ Wins(s, rpc[s].key)
         /\ \/ /\ rpc[s].key \in Keys
               /\ passed' = [passed EXCEPT ![rpc[s].key] = passed[rpc[s].key] + 1]
            \/ rpc[s].key \notin Keys /\ passed' = passed
<1>1. passed' = Counted(passed, rpc[s].key) /\ Wins(s, rpc[s].key)
  BY DEF HelloFound, EnterFound, Found, Answered, Calls!Answered, Wins, TakeOf
<1>2. passed \in [Keys -> Nat]
  BY DEF Types
<1> QED  BY <1>1, <1>2, CountedIs

LEMMA ProofsGrow ==
  ASSUME Types, NEW s \in Slots, AtProof(s)
  PROVE  \/ pass[s] \in Keys /\ proofs' = [proofs EXCEPT ![pass[s]] = proofs[pass[s]] + 1]
         \/ pass[s] \notin Keys /\ proofs' = proofs
<1>1. proofs' = Counted(proofs, pass[s])
  BY DEF AtProof
<1>2. proofs \in [Keys -> Nat]
  BY DEF Types
<1> QED  BY <1>1, <1>2, CountedIs

(* What serving a request does to the store. *)
LEMMA ApplyCases ==
  ASSUME NEW r \in Calls!Requests, Calls!Apply(r)
  PROVE  /\ r.op = "take" => store' = [store EXCEPT ![r.key] = "none"]
         /\ r.op = "put" => store' = [store EXCEPT ![r.key] = r.value]
         /\ r.op \in {"get", "list"} => store' = store
  BY DEF Calls!Apply

LEMMA ApplyTypes ==
  ASSUME store \in [StoreKeys -> StoreValues \cup {"none"}],
         NEW r \in Calls!Requests, Calls!Apply(r)
  PROVE  store' \in [StoreKeys -> StoreValues \cup {"none"}]
  BY ApplyCases, RequestParts

LEMMA TypesAreTypeOK == Types /\ Awaiting <=> TypeOK
  BY DEF Types, Awaiting, TypeOK, Calls!TypeOK

(* What a step of the store is, beside the step of the calls. *)
Beside ==
  /\ gone' = gone \cup {k \in Keys : store[k] # "none" /\ store'[k] = "none"}
                  \cup {rpc[s].key : s \in {z \in Slots : /\ rpc[z].op = "put"
                                                         /\ answer'[z] = "failed"}}
  /\ UNCHANGED <<issued, held, sessions, passed, proofs, proven>>

LEMMA BesideTypes ==
  Types /\ PlaceInv /\ Beside => gone \subseteq gone' /\ gone' \subseteq Keys
<1> SUFFICES ASSUME Types, PlaceInv, Beside PROVE gone' \subseteq Keys
  BY DEF Beside
<1>1. \A s \in Slots : rpc[s].op = "put" => rpc[s].key \in Keys
  BY Domains DEF PlaceInv
<1> QED  BY <1>1 DEF Beside, Types

LEMMA StoreCases ==
  StoreStep => /\ Beside
               /\ \/ \E k \in StoreKeys : Calls!Expire(k)
                  \/ Calls!MasterRestarts
                  \/ \E o \in orphans : Calls!ServeOrphan(o)
                  \/ \E lost \in SUBSET orphans : Calls!LoseOrphans(lost)
                  \/ \E s \in Slots : pc[s] = "store" /\ Calls!Serve(s)
                  \/ \E s \in Slots : pc[s] = "store" /\ Calls!Fail(s)
  BY DEF StoreStep, Calls!Environment, Beside
(* A step keeps the types of the variables. *)
LEMMA TypesStep == Types /\ Awaiting /\ PlaceInv /\ [Next]_vars => Types'
<1> SUFFICES ASSUME Types, Awaiting, PlaceInv, [Next]_vars PROVE Types'
  OBVIOUS
<1> USE Domains, RequestTypes DEF Types, sessions, calls, history, Goto, End, Ask, Answered, HangUp,
           Calls!Ask, Calls!Answered, Calls!HangUp
<1>1. ASSUME NEW c \in Clients, NEW t \in Tickets, Redirect(c, t) PROVE Types'
  BY <1>1 DEF Redirect
<1>2. ASSUME NEW s \in Slots, NEW c \in Clients, Connect(c, s) PROVE Types'
  BY <1>2 DEF Connect
<1>3. ASSUME NEW s \in Slots, Disconnect(s) PROVE Types'
  BY <1>3 DEF Disconnect
<1>4. ASSUME NEW s \in Slots, NEW k \in StoreKeys, Hello(s, k) PROVE Types'
  <2>1. [op |-> "take", key |-> k] \in Calls!Requests
    OBVIOUS
  <2> QED  BY <1>4, <2>1 DEF Hello, SendKey
<1>5. ASSUME NEW s \in Slots, HelloFound(s) PROVE Types'
  <2>1. rpc[s].key \in StoreKeys
    BY <1>5, RequestParts, NoCallOp DEF HelloFound, Found
  <2>2. passed' \in [Keys -> Nat]
    BY <1>5, CountTypes DEF HelloFound
  <2>3. peer[s] \in Clients
    BY <1>5, NoCallOp DEF HelloFound, Found, Awaiting, PlaceInv
  <2> QED  BY <1>5, <2>1, <2>2, <2>3 DEF HelloFound
<1>6. ASSUME NEW s \in Slots, TakeRefused(s) PROVE Types'
  BY <1>6 DEF TakeRefused
<1>7. ASSUME NEW s \in Slots, ProofWrong(s) PROVE Types'
  <2>1. proofs' \in [Keys -> Nat]
    BY <1>7, CountTypes DEF ProofWrong, AtProof
  <2> QED  BY <1>7, <2>1 DEF ProofWrong
<1>8. ASSUME NEW s \in Slots, NEW k \in Tokens, ProofRight(s, k) PROVE Types'
  <2>1. [op |-> "put", key |-> k, value |-> user[s]] \in Calls!Requests
    BY <1>8 DEF ProofRight, Keys
  <2>2. proofs' \in [Keys -> Nat]
    BY <1>8, CountTypes DEF ProofRight, AtProof
  <2> QED  BY <1>8, <2>1, <2>2 DEF ProofRight, Keys
<1>9. ASSUME NEW s \in Slots, SendToken(s) PROVE Types'
  <2>1. rpc[s].key \in Keys
    BY <1>9 DEF SendToken, PlaceInv
  <2> QED  BY <1>9, <2>1 DEF SendToken
<1>10. ASSUME NEW s \in Slots, SendWorlds(s) PROVE Types'
  BY <1>10 DEF SendWorlds
<1>11. ASSUME NEW s \in Slots, NEW k \in StoreKeys, Enter(s, k) PROVE Types'
  <2>1. [op |-> "take", key |-> k] \in Calls!Requests
    OBVIOUS
  <2> QED  BY <1>11, <2>1 DEF Enter, SendKey
<1>12. ASSUME NEW s \in Slots, EnterFound(s) PROVE Types'
  <2>1. rpc[s].key \in StoreKeys
    BY <1>12, RequestParts, NoCallOp DEF EnterFound, Found
  <2>2. passed' \in [Keys -> Nat]
    BY <1>12, CountTypes DEF EnterFound
  <2> QED  BY <1>12, <2>1, <2>2 DEF EnterFound, Found
<1>13. ASSUME Beside, NEW k \in StoreKeys, Calls!Expire(k) PROVE Types'
  BY <1>13, BesideTypes DEF Beside, Calls!Expire
<1>14. ASSUME Beside, Calls!MasterRestarts PROVE Types'
  BY <1>14, BesideTypes DEF Beside, Calls!MasterRestarts
<1>15. ASSUME Beside, NEW o \in orphans, Calls!ServeOrphan(o) PROVE Types'
  <2>1. o[2] \in Calls!Requests
    OBVIOUS
  <2>2. store' \in [StoreKeys -> StoreValues \cup {"none"}]
    BY <1>15, <2>1, ApplyTypes DEF Calls!ServeOrphan
  <2> QED  BY <1>15, <2>2, BesideTypes DEF Beside, Calls!ServeOrphan
<1>16. ASSUME Beside, NEW lost \in SUBSET orphans, Calls!LoseOrphans(lost)
      PROVE  Types'
  BY <1>16, BesideTypes DEF Beside, Calls!LoseOrphans
<1>17. ASSUME Beside, NEW s \in Slots, pc[s] = "store", Calls!Serve(s)
      PROVE  Types'
  <2>1. rpc[s] \in Calls!Requests
    BY <1>17 DEF Awaiting
  <2>2. store' \in [StoreKeys -> StoreValues \cup {"none"}]
    BY <1>17, <2>1, ApplyTypes DEF Calls!Serve
  <2>3. Calls!Returns(rpc[s]) \in StoreValues \cup {"miss", "ok"}
    BY <2>1, RequestParts DEF Calls!Returns, Calls!Lookup
  <2> QED  BY <1>17, <2>2, <2>3, BesideTypes DEF Beside, Calls!Serve
<1>18. ASSUME Beside, NEW s \in Slots, pc[s] = "store", Calls!Fail(s)
      PROVE  Types'
  <2>1. rpc[s] \in Calls!Requests
    BY <1>18 DEF Awaiting
  <2> QED  BY <1>18, <2>1, BesideTypes DEF Beside, Calls!Fail
<1>19. ASSUME NEW n \in Names, Announce(n) PROVE Types'
  BY <1>19 DEF Announce
<1>20. CASE UNCHANGED vars
  BY <1>20 DEF vars, history
<1> QED
  BY <1>1, <1>2, <1>3, <1>4, <1>5, <1>6, <1>7, <1>8, <1>9, <1>10, <1>11, <1>12,
     <1>13, <1>14, <1>15, <1>16, <1>17, <1>18, <1>19, <1>20, StoreCases
  DEF Next, SessionStep

(* A session that asks waits, and one that is answered goes on. *)
LEMMA AwaitingStep == Types /\ Awaiting /\ [Next]_vars => Awaiting'
<1> SUFFICES ASSUME Types, Awaiting, [Next]_vars PROVE Awaiting'
  OBVIOUS
<1> USE Domains DEF Types, Awaiting, sessions, calls, history, Goto, End, Ask, Answered, HangUp,
           Calls!Ask, Calls!Answered, Calls!HangUp, Calls!NoCall
<1>1. ASSUME NEW c \in Clients, NEW t \in Tickets, Redirect(c, t)
      PROVE  Awaiting'
  BY <1>1 DEF Redirect
<1>2. ASSUME NEW s \in Slots, NEW c \in Clients, Connect(c, s) PROVE Awaiting'
  BY <1>2 DEF Connect
<1>3. ASSUME NEW s \in Slots, Disconnect(s) PROVE Awaiting'
  BY <1>3 DEF Disconnect
<1>4. ASSUME NEW s \in Slots, NEW k \in StoreKeys, Hello(s, k) PROVE Awaiting'
  BY <1>4 DEF Hello, SendKey
<1>5. ASSUME NEW s \in Slots, HelloFound(s) PROVE Awaiting'
  BY <1>5 DEF HelloFound, Found
<1>6. ASSUME NEW s \in Slots, TakeRefused(s) PROVE Awaiting'
  BY <1>6 DEF TakeRefused
<1>7. ASSUME NEW s \in Slots, ProofWrong(s) PROVE Awaiting'
  BY <1>7 DEF ProofWrong, AtProof
<1>8. ASSUME NEW s \in Slots, NEW k \in Tokens, ProofRight(s, k)
      PROVE  Awaiting'
  BY <1>8 DEF ProofRight, AtProof
<1>9. ASSUME NEW s \in Slots, SendToken(s) PROVE Awaiting'
  BY <1>9 DEF SendToken
<1>10. ASSUME NEW s \in Slots, SendWorlds(s) PROVE Awaiting'
  BY <1>10 DEF SendWorlds
<1>11. ASSUME NEW s \in Slots, NEW k \in StoreKeys, Enter(s, k) PROVE Awaiting'
  BY <1>11 DEF Enter, SendKey
<1>12. ASSUME NEW s \in Slots, EnterFound(s) PROVE Awaiting'
  BY <1>12 DEF EnterFound, Found
<1>13. ASSUME Beside, NEW k \in StoreKeys, Calls!Expire(k) PROVE Awaiting'
  BY <1>13 DEF Beside, Calls!Expire
<1>14. ASSUME Beside, Calls!MasterRestarts PROVE Awaiting'
  BY <1>14 DEF Beside, Calls!MasterRestarts
<1>15. ASSUME Beside, NEW o \in orphans, Calls!ServeOrphan(o) PROVE Awaiting'
  BY <1>15 DEF Beside, Calls!ServeOrphan, Calls!Apply
<1>16. ASSUME Beside, NEW lost \in SUBSET orphans, Calls!LoseOrphans(lost)
      PROVE  Awaiting'
  BY <1>16 DEF Beside, Calls!LoseOrphans
<1>17. ASSUME Beside, NEW s \in Slots, pc[s] = "store", Calls!Serve(s)
      PROVE  Awaiting'
  BY <1>17 DEF Beside, Calls!Serve, Calls!Apply, Calls!Returns, Calls!Lookup
<1>18. ASSUME Beside, NEW s \in Slots, pc[s] = "store", Calls!Fail(s)
      PROVE  Awaiting'
  BY <1>18 DEF Beside, Calls!Fail
<1>19. ASSUME NEW n \in Names, Announce(n) PROVE Awaiting'
  BY <1>19 DEF Announce
<1>20. CASE UNCHANGED vars
  BY <1>20 DEF vars, history
<1> QED
  BY <1>1, <1>2, <1>3, <1>4, <1>5, <1>6, <1>7, <1>8, <1>9, <1>10, <1>11, <1>12,
     <1>13, <1>14, <1>15, <1>16, <1>17, <1>18, <1>19, <1>20, StoreCases
  DEF Next, SessionStep

(* A step takes each session from one place to another. *)
LEMMA PlaceStep == Types /\ Awaiting /\ PlaceInv /\ [Next]_vars => PlaceInv'
<1> SUFFICES ASSUME Types, Awaiting, PlaceInv, [Next]_vars PROVE PlaceInv'
  OBVIOUS
<1> USE Domains DEF Types, Awaiting, PlaceInv, sessions, calls, history, Goto, End, Ask, Answered, HangUp,
           Calls!Ask, Calls!Answered, Calls!HangUp, Calls!NoCall
<1>1. ASSUME NEW c \in Clients, NEW t \in Tickets, Redirect(c, t)
      PROVE  PlaceInv'
  BY <1>1 DEF Redirect
<1>2. ASSUME NEW s \in Slots, NEW c \in Clients, Connect(c, s) PROVE PlaceInv'
  BY <1>2 DEF Connect
<1>3. ASSUME NEW s \in Slots, Disconnect(s) PROVE PlaceInv'
  BY <1>3 DEF Disconnect
<1>4. ASSUME NEW s \in Slots, NEW k \in StoreKeys, Hello(s, k) PROVE PlaceInv'
  BY <1>4 DEF Hello, SendKey
<1>5. ASSUME NEW s \in Slots, HelloFound(s) PROVE PlaceInv'
  BY <1>5 DEF HelloFound, Found
<1>6. ASSUME NEW s \in Slots, TakeRefused(s) PROVE PlaceInv'
  BY <1>6 DEF TakeRefused
<1>7. ASSUME NEW s \in Slots, ProofWrong(s) PROVE PlaceInv'
  BY <1>7 DEF ProofWrong, AtProof
<1>8. ASSUME NEW s \in Slots, NEW k \in Tokens, ProofRight(s, k)
      PROVE  PlaceInv'
  BY <1>8 DEF ProofRight, AtProof
<1>9. ASSUME NEW s \in Slots, SendToken(s) PROVE PlaceInv'
  BY <1>9 DEF SendToken
<1>10. ASSUME NEW s \in Slots, SendWorlds(s) PROVE PlaceInv'
  BY <1>10 DEF SendWorlds
<1>11. ASSUME NEW s \in Slots, NEW k \in StoreKeys, Enter(s, k) PROVE PlaceInv'
  BY <1>11 DEF Enter, SendKey
<1>12. ASSUME NEW s \in Slots, EnterFound(s) PROVE PlaceInv'
  BY <1>12 DEF EnterFound, Found
<1>13. ASSUME Beside, NEW k \in StoreKeys, Calls!Expire(k) PROVE PlaceInv'
  BY <1>13 DEF Beside, Calls!Expire
<1>14. ASSUME Beside, Calls!MasterRestarts PROVE PlaceInv'
  BY <1>14 DEF Beside, Calls!MasterRestarts
<1>15. ASSUME Beside, NEW o \in orphans, Calls!ServeOrphan(o) PROVE PlaceInv'
  BY <1>15 DEF Beside, Calls!ServeOrphan, Calls!Apply
<1>16. ASSUME Beside, NEW lost \in SUBSET orphans, Calls!LoseOrphans(lost)
      PROVE  PlaceInv'
  BY <1>16 DEF Beside, Calls!LoseOrphans
<1>17. ASSUME Beside, NEW s \in Slots, pc[s] = "store", Calls!Serve(s)
      PROVE  PlaceInv'
  BY <1>17 DEF Beside, Calls!Serve, Calls!Apply, Calls!Returns, Calls!Lookup
<1>18. ASSUME Beside, NEW s \in Slots, pc[s] = "store", Calls!Fail(s)
      PROVE  PlaceInv'
  BY <1>18 DEF Beside, Calls!Fail
<1>19. ASSUME NEW n \in Names, Announce(n) PROVE PlaceInv'
  BY <1>19 DEF Announce
<1>20. CASE UNCHANGED vars
  BY <1>20 DEF vars, history
<1> QED
  BY <1>1, <1>2, <1>3, <1>4, <1>5, <1>6, <1>7, <1>8, <1>9, <1>10, <1>11, <1>12,
     <1>13, <1>14, <1>15, <1>16, <1>17, <1>18, <1>19, <1>20, StoreCases
  DEF Next, SessionStep

(* Nobody has a key before it is drawn. *)
LEMMA IssuedStep == Types /\ Awaiting /\ PlaceInv /\ IssuedInv /\ [Next]_vars => IssuedInv'
<1> SUFFICES ASSUME Types, Awaiting, PlaceInv, IssuedInv, [Next]_vars PROVE IssuedInv'
  OBVIOUS
<1> USE Domains, NoCallOp DEF Types, Awaiting, PlaceInv, IssuedInv, sessions, calls, history, Goto, End, Ask, Answered, HangUp,
           Calls!Ask, Calls!Answered, Calls!HangUp
<1>1. ASSUME NEW c \in Clients, NEW t \in Tickets, Redirect(c, t)
      PROVE  IssuedInv'
  BY <1>1 DEF Redirect
<1>2. ASSUME NEW s \in Slots, NEW c \in Clients, Connect(c, s)
      PROVE  IssuedInv'
  BY <1>2 DEF Connect
<1>3. ASSUME NEW s \in Slots, Disconnect(s) PROVE IssuedInv'
  BY <1>3 DEF Disconnect
<1>4. ASSUME NEW s \in Slots, NEW k \in StoreKeys, Hello(s, k) PROVE IssuedInv'
  BY <1>4 DEF Hello, SendKey
<1>5. ASSUME NEW s \in Slots, HelloFound(s) PROVE IssuedInv'
  <2> DEFINE k == rpc[s].key
  <2>1. /\ Wins(s, k)
        /\ \/ k \in Keys /\ passed' = [passed EXCEPT ![k] = passed[k] + 1]
           \/ k \notin Keys /\ passed' = passed
    BY <1>5, PassedGrows
  <2>2. k \in Keys => k \in issued
    BY <2>1 DEF Wins, TakeOf
  <2>3. /\ rpc' = [rpc EXCEPT ![s] = Calls!NoCall]
        /\ answer' = [answer EXCEPT ![s] = "none"]
        /\ UNCHANGED <<store, orphans, issued, held>>
    BY <1>5 DEF HelloFound
  <2> HIDE DEF k
  <2> QED  BY <2>1, <2>2, <2>3 DEF Wins, TakeOf
<1>6. ASSUME NEW s \in Slots, TakeRefused(s) PROVE IssuedInv'
  BY <1>6 DEF TakeRefused
<1>7. ASSUME NEW s \in Slots, ProofWrong(s) PROVE IssuedInv'
  BY <1>7 DEF ProofWrong, AtProof
<1>8. ASSUME NEW s \in Slots, NEW k \in Tokens, ProofRight(s, k)
      PROVE  IssuedInv'
  BY <1>8 DEF ProofRight, AtProof
<1>9. ASSUME NEW s \in Slots, SendToken(s) PROVE IssuedInv'
  BY <1>9 DEF SendToken
<1>10. ASSUME NEW s \in Slots, SendWorlds(s) PROVE IssuedInv'
  BY <1>10 DEF SendWorlds
<1>11. ASSUME NEW s \in Slots, NEW k \in StoreKeys, Enter(s, k) PROVE IssuedInv'
  BY <1>11 DEF Enter, SendKey
<1>12. ASSUME NEW s \in Slots, EnterFound(s) PROVE IssuedInv'
  <2> DEFINE k == rpc[s].key
  <2>1. /\ Wins(s, k)
        /\ \/ k \in Keys /\ passed' = [passed EXCEPT ![k] = passed[k] + 1]
           \/ k \notin Keys /\ passed' = passed
    BY <1>12, PassedGrows
  <2>2. k \in Keys => k \in issued
    BY <2>1 DEF Wins, TakeOf
  <2>3. /\ rpc' = [rpc EXCEPT ![s] = Calls!NoCall]
        /\ answer' = [answer EXCEPT ![s] = "none"]
        /\ UNCHANGED <<store, orphans, issued, held>>
    BY <1>12 DEF EnterFound
  <2> HIDE DEF k
  <2> QED  BY <2>1, <2>2, <2>3 DEF Wins, TakeOf
<1>13. ASSUME Beside, NEW k \in StoreKeys, Calls!Expire(k) PROVE IssuedInv'
  BY <1>13 DEF Beside, Calls!Expire
<1>14. ASSUME Beside, Calls!MasterRestarts PROVE IssuedInv'
  BY <1>14 DEF Beside, Calls!MasterRestarts
<1>15. ASSUME Beside, NEW o \in orphans, Calls!ServeOrphan(o) PROVE IssuedInv'
  BY <1>15 DEF Beside, Calls!ServeOrphan, Calls!Apply
<1>16. ASSUME Beside, NEW lost \in SUBSET orphans, Calls!LoseOrphans(lost)
      PROVE  IssuedInv'
  BY <1>16 DEF Beside, Calls!LoseOrphans
<1>17. ASSUME Beside, NEW s \in Slots, pc[s] = "store", Calls!Serve(s)
      PROVE  IssuedInv'
  BY <1>17 DEF Beside, Calls!Serve, Calls!Apply, Calls!Returns, Calls!Lookup
<1>18. ASSUME Beside, NEW s \in Slots, pc[s] = "store", Calls!Fail(s)
      PROVE  IssuedInv'
  BY <1>18 DEF Beside, Calls!Fail
<1>19. ASSUME NEW n \in Names, Announce(n) PROVE IssuedInv'
  BY <1>19 DEF Announce
<1>20. CASE UNCHANGED vars
  BY <1>20 DEF vars, history
<1> QED
  BY <1>1, <1>2, <1>3, <1>4, <1>5, <1>6, <1>7, <1>8, <1>9, <1>10, <1>11, <1>12,
     <1>13, <1>14, <1>15, <1>16, <1>17, <1>18, <1>19, <1>20, StoreCases
  DEF Next, SessionStep

(* An entry goes from one place to the next, and is then gone. *)
LEMMA OnceStep == Types /\ Awaiting /\ PlaceInv /\ IssuedInv /\ OnceInv /\ [Next]_vars => OnceInv'
<1> SUFFICES ASSUME Types, Awaiting, PlaceInv, IssuedInv, OnceInv, [Next]_vars PROVE OnceInv'
  OBVIOUS
<1> USE Domains, NoCallOp DEF Types, Awaiting, PlaceInv, IssuedInv, OnceInv, PutOf, TakeOf,
           PutWaits, LatePut, Wins, sessions, calls, history, Goto, End, Ask, Answered, HangUp,
           Calls!Ask, Calls!Answered, Calls!HangUp
<1>1. ASSUME NEW c \in Clients, NEW t \in Tickets, Redirect(c, t)
      PROVE  OnceInv'
  BY <1>1 DEF Redirect
<1>2. ASSUME NEW s \in Slots, NEW c \in Clients, Connect(c, s) PROVE OnceInv'
  BY <1>2 DEF Connect
<1>3. ASSUME NEW s \in Slots, Disconnect(s) PROVE OnceInv'
  BY <1>3 DEF Disconnect
<1>4. ASSUME NEW s \in Slots, NEW k \in StoreKeys, Hello(s, k) PROVE OnceInv'
  BY <1>4 DEF Hello, SendKey
<1>5. ASSUME NEW s \in Slots, HelloFound(s) PROVE OnceInv'
  <2> DEFINE k == rpc[s].key
  <2>1. /\ Wins(s, k)
        /\ \/ k \in Keys /\ passed' = [passed EXCEPT ![k] = passed[k] + 1]
           \/ k \notin Keys /\ passed' = passed
    BY <1>5, PassedGrows
  <2>2. k \in Keys => k \in issued
    BY <2>1 DEF Wins, TakeOf
  <2>3. /\ rpc' = [rpc EXCEPT ![s] = Calls!NoCall]
        /\ answer' = [answer EXCEPT ![s] = "none"]
        /\ UNCHANGED <<store, orphans, issued, held>>
    BY <1>5 DEF HelloFound
  <2> HIDE DEF k
  <2> QED  BY <2>1, <2>2, <2>3 DEF Wins, TakeOf
<1>6. ASSUME NEW s \in Slots, TakeRefused(s) PROVE OnceInv'
  BY <1>6 DEF TakeRefused
<1>7. ASSUME NEW s \in Slots, ProofWrong(s) PROVE OnceInv'
  BY <1>7 DEF ProofWrong, AtProof
<1>8. ASSUME NEW s \in Slots, NEW k \in Tokens, ProofRight(s, k)
      PROVE  OnceInv'
  BY <1>8 DEF ProofRight, AtProof
<1>9. ASSUME NEW s \in Slots, SendToken(s) PROVE OnceInv'
  BY <1>9 DEF SendToken
<1>10. ASSUME NEW s \in Slots, SendWorlds(s) PROVE OnceInv'
  BY <1>10 DEF SendWorlds
<1>11. ASSUME NEW s \in Slots, NEW k \in StoreKeys, Enter(s, k) PROVE OnceInv'
  BY <1>11 DEF Enter, SendKey
<1>12. ASSUME NEW s \in Slots, EnterFound(s) PROVE OnceInv'
  <2> DEFINE k == rpc[s].key
  <2>1. /\ Wins(s, k)
        /\ \/ k \in Keys /\ passed' = [passed EXCEPT ![k] = passed[k] + 1]
           \/ k \notin Keys /\ passed' = passed
    BY <1>12, PassedGrows
  <2>2. k \in Keys => k \in issued
    BY <2>1 DEF Wins, TakeOf
  <2>3. /\ rpc' = [rpc EXCEPT ![s] = Calls!NoCall]
        /\ answer' = [answer EXCEPT ![s] = "none"]
        /\ UNCHANGED <<store, orphans, issued, held>>
    BY <1>12 DEF EnterFound
  <2> HIDE DEF k
  <2> QED  BY <2>1, <2>2, <2>3 DEF Wins, TakeOf
<1>13. ASSUME Beside, NEW k \in StoreKeys, Calls!Expire(k) PROVE OnceInv'
  BY <1>13 DEF Beside, Calls!Expire
<1>14. ASSUME Beside, Calls!MasterRestarts PROVE OnceInv'
  BY <1>14 DEF Beside, Calls!MasterRestarts
<1>15. ASSUME Beside, NEW o \in orphans, Calls!ServeOrphan(o) PROVE OnceInv'
  BY <1>15 DEF Beside, Calls!ServeOrphan, Calls!Apply
<1>16. ASSUME Beside, NEW lost \in SUBSET orphans, Calls!LoseOrphans(lost)
      PROVE  OnceInv'
  BY <1>16 DEF Beside, Calls!LoseOrphans
<1>17. ASSUME Beside, NEW s \in Slots, pc[s] = "store", Calls!Serve(s)
      PROVE  OnceInv'
  BY <1>17 DEF Beside, Calls!Serve, Calls!Apply, Calls!Returns, Calls!Lookup
<1>18. ASSUME Beside, NEW s \in Slots, pc[s] = "store", Calls!Fail(s)
      PROVE  OnceInv'
  <2>1. /\ UNCHANGED <<store, rpc, passed, issued>>
        /\ answer' = [answer EXCEPT ![s] = "failed"]
    BY <1>18 DEF Beside, Calls!Fail
  <2>2. \/ orphans' = orphans
        \/ /\ answer[s] = "pending"
           /\ orphans' = orphans \cup {<<"orphan", rpc[s]>>}
    BY <1>18 DEF Calls!Fail
  <2>3. \A z \in Slots, k \in Keys :
          /\ PutOf(z, k)' <=> PutOf(z, k)
          /\ Wins(z, k)' => Wins(z, k)
          /\ PutWaits(z, k)' => PutWaits(z, k) /\ z # s
    BY <2>1
  <2>4. \A o \in orphans', k \in Keys : LatePut(o, k)' =>
          \/ o \in orphans /\ LatePut(o, k)
          \/ o = <<"orphan", rpc[s]>> /\ PutWaits(s, k)
    BY <2>2
  <2>5. \A z \in Slots, k \in Keys : PutWaits(z, k) => PutOf(z, k)
    OBVIOUS
  <2> HIDE DEF PutOf, Wins, PutWaits, LatePut, Types, Awaiting, PlaceInv, IssuedInv
  <2> QED  BY <2>1, <2>3, <2>4, <2>5
<1>19. ASSUME NEW n \in Names, Announce(n) PROVE OnceInv'
  BY <1>19 DEF Announce
<1>20. CASE UNCHANGED vars
  BY <1>20 DEF vars, history
<1> QED
  BY <1>1, <1>2, <1>3, <1>4, <1>5, <1>6, <1>7, <1>8, <1>9, <1>10, <1>11, <1>12,
     <1>13, <1>14, <1>15, <1>16, <1>17, <1>18, <1>19, <1>20, StoreCases
  DEF Next, SessionStep

(* A ticket's one proof is made by the session that it let through. *)
LEMMA ProofStep == Types /\ Awaiting /\ PlaceInv /\ OnceInv /\ ProofInv /\ [Next]_vars => ProofInv'
<1> SUFFICES ASSUME Types, Awaiting, PlaceInv, OnceInv, ProofInv, [Next]_vars PROVE ProofInv'
  OBVIOUS
<1> USE Domains, NoCallOp DEF Types, Awaiting, PlaceInv, OnceInv, ProofInv, PutOf, TakeOf, PutWaits,
           LatePut, Wins, sessions, calls, history, Goto, End, Ask, Answered, HangUp,
           Calls!Ask, Calls!Answered, Calls!HangUp
<1>1. ASSUME NEW c \in Clients, NEW t \in Tickets, Redirect(c, t)
      PROVE  ProofInv'
  BY <1>1 DEF Redirect
<1>2. ASSUME NEW s \in Slots, NEW c \in Clients, Connect(c, s) PROVE ProofInv'
  BY <1>2 DEF Connect
<1>3. ASSUME NEW s \in Slots, Disconnect(s) PROVE ProofInv'
  BY <1>3 DEF Disconnect
<1>4. ASSUME NEW s \in Slots, NEW k \in StoreKeys, Hello(s, k) PROVE ProofInv'
  BY <1>4 DEF Hello, SendKey
<1>5. ASSUME NEW s \in Slots, HelloFound(s) PROVE ProofInv'
  <2> DEFINE t == rpc[s].key
  <2>1. Wins(s, t) /\ s \in LoginSlots
    BY <1>5 DEF HelloFound, Found
  <2>4. /\ UNCHANGED proofs
        /\ \/ /\ stage' = [stage EXCEPT ![s] = "proof"]
              /\ pass' = [pass EXCEPT ![s] = t]
              /\ pc' = [pc EXCEPT ![s] = "reading"]
           \/ /\ stage' = [stage EXCEPT ![s] = "start"]
              /\ pass' = [pass EXCEPT ![s] = "none"]
              /\ pc' = [pc EXCEPT ![s] = "free"]
    BY <1>5 DEF HelloFound
  <2>2. CASE t \in Keys
    <3>1. passed[t] = 0
      BY <2>1, <2>2
    <3>2. proofs[t] = 0
      <4>1. proofs[t] \in Nat
        BY <2>2
      <4>2. proofs[t] <= 1 /\ (proofs[t] = 1 => passed[t] = 1)
        BY <2>2
      <4> HIDE DEF Types, Awaiting, PlaceInv, OnceInv, ProofInv
      <4> QED  BY <3>1, <4>1, <4>2
    <3>3. \A z \in Slots : stage[z] = "proof" => pass[z] # t
      BY <2>2, <3>1
    <3>4. passed' = [passed EXCEPT ![t] = 1]
      BY <1>5, <2>2, <3>1, PassedGrows
    <3> HIDE DEF t, Wins
    <3> QED  BY <1>5, <2>1, <2>2, <2>4, <3>1, <3>2, <3>3, <3>4
  <2>3. CASE t \notin Keys
    <3>1. passed' = passed
      BY <1>5, <2>3, PassedGrows
    <3> HIDE DEF t, Wins
    <3>2. \A z \in Slots, k \in Keys : stage'[z] = "proof" /\ pass'[z] = k =>
            stage[z] = "proof" /\ pass[z] = k /\ pc'[z] = pc[z]
      BY <2>3, <2>4
    <3>3. \A z \in Slots : stage'[z] = "proof" => z \in LoginSlots
      BY <2>1, <2>4
    <3> QED  BY <2>4, <3>1, <3>2, <3>3
  <2> QED  BY <2>2, <2>3
<1>6. ASSUME NEW s \in Slots, TakeRefused(s) PROVE ProofInv'
  BY <1>6 DEF TakeRefused
<1>7. ASSUME NEW s \in Slots, ProofWrong(s) PROVE ProofInv'
  <2>1. \/ pass[s] \in Keys /\ proofs' = [proofs EXCEPT ![pass[s]] = proofs[pass[s]] + 1]
        \/ pass[s] \notin Keys /\ proofs' = proofs
    BY <1>7, ProofsGrow DEF ProofWrong
  <2> QED  BY <1>7, <2>1 DEF ProofWrong, AtProof
<1>8. ASSUME NEW s \in Slots, NEW k \in Tokens, ProofRight(s, k)
      PROVE  ProofInv'
  <2>1. \/ pass[s] \in Keys /\ proofs' = [proofs EXCEPT ![pass[s]] = proofs[pass[s]] + 1]
        \/ pass[s] \notin Keys /\ proofs' = proofs
    BY <1>8, ProofsGrow DEF ProofRight
  <2> QED  BY <1>8, <2>1 DEF ProofRight, AtProof
<1>9. ASSUME NEW s \in Slots, SendToken(s) PROVE ProofInv'
  BY <1>9 DEF SendToken
<1>10. ASSUME NEW s \in Slots, SendWorlds(s) PROVE ProofInv'
  BY <1>10 DEF SendWorlds
<1>11. ASSUME NEW s \in Slots, NEW k \in StoreKeys, Enter(s, k) PROVE ProofInv'
  BY <1>11 DEF Enter, SendKey
<1>12. ASSUME NEW s \in Slots, EnterFound(s) PROVE ProofInv'
  <2> DEFINE t == rpc[s].key
  <2>1. Wins(s, t) /\ s \notin LoginSlots
    BY <1>12 DEF EnterFound, Found
  <2>2. \/ t \in Keys /\ passed' = [passed EXCEPT ![t] = passed[t] + 1]
        \/ t \notin Keys /\ passed' = passed
    BY <1>12, PassedGrows
  <2>3. t \in Keys => passed[t] = 0
    BY <2>1
  <2>4. \A k \in Keys : k = t => proofs[k] # 1
    BY <2>3
  <2>5. /\ UNCHANGED <<proofs, peer>> /\ s \notin LoginSlots
        /\ stage' = [stage EXCEPT ![s] = "auth"]
        /\ pass' = [pass EXCEPT ![s] = t]
        /\ pc' = [pc EXCEPT ![s] = "reading"]
    BY <1>12, <2>1 DEF EnterFound
  <2>6. \A z \in Slots : stage'[z] = "proof" => z # s /\ stage[z] = "proof"
    BY <2>5
  <2>7. \A z \in Slots : stage[z] = "proof" => pass[z] # t \/ t \notin Keys
    BY <2>3
  <2> HIDE DEF t, Wins
  <2> QED  BY <2>2, <2>3, <2>4, <2>5, <2>6, <2>7
<1>13. ASSUME Beside, NEW k \in StoreKeys, Calls!Expire(k) PROVE ProofInv'
  BY <1>13 DEF Beside, Calls!Expire
<1>14. ASSUME Beside, Calls!MasterRestarts PROVE ProofInv'
  BY <1>14 DEF Beside, Calls!MasterRestarts
<1>15. ASSUME Beside, NEW o \in orphans, Calls!ServeOrphan(o) PROVE ProofInv'
  BY <1>15 DEF Beside, Calls!ServeOrphan, Calls!Apply
<1>16. ASSUME Beside, NEW lost \in SUBSET orphans, Calls!LoseOrphans(lost)
      PROVE  ProofInv'
  BY <1>16 DEF Beside, Calls!LoseOrphans
<1>17. ASSUME Beside, NEW s \in Slots, pc[s] = "store", Calls!Serve(s)
      PROVE  ProofInv'
  BY <1>17 DEF Beside, Calls!Serve, Calls!Apply, Calls!Returns, Calls!Lookup
<1>18. ASSUME Beside, NEW s \in Slots, pc[s] = "store", Calls!Fail(s)
      PROVE  ProofInv'
  BY <1>18 DEF Beside, Calls!Fail
<1>19. ASSUME NEW n \in Names, Announce(n) PROVE ProofInv'
  BY <1>19 DEF Announce
<1>20. CASE UNCHANGED vars
  BY <1>20 DEF vars, history
<1> QED
  BY <1>1, <1>2, <1>3, <1>4, <1>5, <1>6, <1>7, <1>8, <1>9, <1>10, <1>11, <1>12,
     <1>13, <1>14, <1>15, <1>16, <1>17, <1>18, <1>19, <1>20, StoreCases
  DEF Next, SessionStep

(* What is held is stored, or its loss is on record. *)
LEMMA StoredStep == Types /\ Awaiting /\ PlaceInv /\ IssuedInv /\ StoredInv /\ [Next]_vars => StoredInv'
<1> SUFFICES ASSUME Types, Awaiting, PlaceInv, IssuedInv, StoredInv, [Next]_vars PROVE StoredInv'
  OBVIOUS
<1> USE Domains, NoCallOp DEF Types, Awaiting, PlaceInv, IssuedInv, StoredInv, HeldIsStored, PutOf, sessions, calls, history, Goto, End, Ask, Answered, HangUp,
           Calls!Ask, Calls!Answered, Calls!HangUp
<1>1. ASSUME NEW c \in Clients, NEW t \in Tickets, Redirect(c, t)
      PROVE  StoredInv'
  <2>1. \A d \in Clients : held'[d] \subseteq held[d] \cup {t}
    BY <1>1 DEF Redirect
  <2>2. store' = [store EXCEPT ![t] = "blank"] /\ t \in Keys
    BY <1>1 DEF Redirect
  <2> QED  BY <1>1, <2>1, <2>2 DEF Redirect
<1>2. ASSUME NEW s \in Slots, NEW c \in Clients, Connect(c, s)
      PROVE  StoredInv'
  BY <1>2 DEF Connect
<1>3. ASSUME NEW s \in Slots, Disconnect(s) PROVE StoredInv'
  BY <1>3 DEF Disconnect
<1>4. ASSUME NEW s \in Slots, NEW k \in StoreKeys, Hello(s, k) PROVE StoredInv'
  BY <1>4 DEF Hello, SendKey
<1>5. ASSUME NEW s \in Slots, HelloFound(s) PROVE StoredInv'
  BY <1>5 DEF HelloFound, Found
<1>6. ASSUME NEW s \in Slots, TakeRefused(s) PROVE StoredInv'
  BY <1>6 DEF TakeRefused
<1>7. ASSUME NEW s \in Slots, ProofWrong(s) PROVE StoredInv'
  BY <1>7 DEF ProofWrong, AtProof
<1>8. ASSUME NEW s \in Slots, NEW k \in Tokens, ProofRight(s, k)
      PROVE  StoredInv'
  BY <1>8 DEF ProofRight, AtProof
<1>9. ASSUME NEW s \in Slots, SendToken(s) PROVE StoredInv'
  <2>1. /\ PutOf(s, rpc[s].key) /\ rpc[s].key \in Keys
        /\ answer[s] \in {"ok", "failed"}
    BY <1>9 DEF SendToken
  <2>2. \A c \in Clients : held'[c] \subseteq held[c] \cup {rpc[s].key}
    BY <1>9 DEF SendToken
  <2>3. rpc[s].key \in gone \/ store[rpc[s].key] # "none"
    BY <2>1
  <2>4. HeldIsStored'
    BY <1>9, <2>2, <2>3 DEF SendToken
  <2> QED  BY <1>9, <2>4 DEF SendToken
<1>10. ASSUME NEW s \in Slots, SendWorlds(s) PROVE StoredInv'
  BY <1>10 DEF SendWorlds
<1>11. ASSUME NEW s \in Slots, NEW k \in StoreKeys, Enter(s, k) PROVE StoredInv'
  BY <1>11 DEF Enter, SendKey
<1>12. ASSUME NEW s \in Slots, EnterFound(s) PROVE StoredInv'
  BY <1>12 DEF EnterFound, Found
<1>13. ASSUME Beside, NEW k \in StoreKeys, Calls!Expire(k) PROVE StoredInv'
  BY <1>13 DEF Beside, Calls!Expire
<1>14. ASSUME Beside, Calls!MasterRestarts PROVE StoredInv'
  BY <1>14 DEF Beside, Calls!MasterRestarts
<1>15. ASSUME Beside, NEW o \in orphans, Calls!ServeOrphan(o) PROVE StoredInv'
  BY <1>15 DEF Beside, Calls!ServeOrphan, Calls!Apply
<1>16. ASSUME Beside, NEW lost \in SUBSET orphans, Calls!LoseOrphans(lost)
      PROVE  StoredInv'
  BY <1>16 DEF Beside, Calls!LoseOrphans
<1>17. ASSUME Beside, NEW s \in Slots, pc[s] = "store", Calls!Serve(s)
      PROVE  StoredInv'
  BY <1>17 DEF Beside, Calls!Serve, Calls!Apply, Calls!Returns, Calls!Lookup
<1>18. ASSUME Beside, NEW s \in Slots, pc[s] = "store", Calls!Fail(s)
      PROVE  StoredInv'
  BY <1>18 DEF Beside, Calls!Fail
<1>19. ASSUME NEW n \in Names, Announce(n) PROVE StoredInv'
  BY <1>19 DEF Announce
<1>20. CASE UNCHANGED vars
  BY <1>20 DEF vars, history
<1> QED
  BY <1>1, <1>2, <1>3, <1>4, <1>5, <1>6, <1>7, <1>8, <1>9, <1>10, <1>11, <1>12,
     <1>13, <1>14, <1>15, <1>16, <1>17, <1>18, <1>19, <1>20, StoreCases
  DEF Next, SessionStep

(* A token keeps standing for the client that it was drawn for. *)
LEMMA StandsStep == Types /\ Awaiting /\ PlaceInv /\ IssuedInv /\ StandsInv /\ [Next]_vars => StandsInv'
<1> SUFFICES ASSUME Types, Awaiting, PlaceInv, IssuedInv, StandsInv, [Next]_vars PROVE StandsInv'
  OBVIOUS
<1> USE Domains, NoCallOp DEF Types, Awaiting, PlaceInv, IssuedInv, StandsInv,
           StandsFor, PutOf, TakeOf, LatePut, Wins, sessions, calls, history, Goto, End, Ask, Answered, HangUp,
           Calls!Ask, Calls!Answered, Calls!HangUp
<1>1. ASSUME NEW c \in Clients, NEW t \in Tickets, Redirect(c, t)
      PROVE  StandsInv'
  BY <1>1 DEF Redirect
<1>2. ASSUME NEW s \in Slots, NEW c \in Clients, Connect(c, s)
      PROVE  StandsInv'
  BY <1>2 DEF Connect
<1>3. ASSUME NEW s \in Slots, Disconnect(s) PROVE StandsInv'
  BY <1>3 DEF Disconnect
<1>4. ASSUME NEW s \in Slots, NEW k \in StoreKeys, Hello(s, k) PROVE StandsInv'
  BY <1>4 DEF Hello, SendKey
<1>5. ASSUME NEW s \in Slots, HelloFound(s) PROVE StandsInv'
  <2>1. \A j \in Tokens, c \in Clients : StandsFor(j, c)' => StandsFor(j, c)
    BY <1>5 DEF HelloFound, Found
  <2>2. UNCHANGED proven
    BY <1>5 DEF HelloFound
  <2> HIDE DEF StandsFor
  <2> QED  BY <2>1, <2>2
<1>6. ASSUME NEW s \in Slots, TakeRefused(s) PROVE StandsInv'
  BY <1>6 DEF TakeRefused
<1>7. ASSUME NEW s \in Slots, ProofWrong(s) PROVE StandsInv'
  BY <1>7 DEF ProofWrong, AtProof
<1>8. ASSUME NEW s \in Slots, NEW k \in Tokens, ProofRight(s, k)
      PROVE  StandsInv'
  <2>1. \A c \in Clients : ~StandsFor(k, c)
    BY <1>8 DEF ProofRight, Keys
  <2>2. \A j \in Tokens, c \in Clients :
          StandsFor(j, c)' => StandsFor(j, c) \/ (j = k /\ c = user[s])
    <3>1. \A z \in Slots, j \in Tokens : PutOf(z, j)' =>
            \/ PutOf(z, j) /\ rpc'[z] = rpc[z]
            \/ j = k /\ rpc'[z].value = user[s]
      BY <1>8 DEF ProofRight
    <3>2. \A z \in Slots, j \in Tokens :
            Wins(z, j)' => Wins(z, j) /\ answer'[z] = answer[z]
      BY <1>8 DEF ProofRight
    <3>3. UNCHANGED <<store, held, orphans>>
      BY <1>8 DEF ProofRight
    <3> HIDE DEF PutOf, Wins, LatePut, Types, Awaiting, PlaceInv, IssuedInv,
                 StandsInv
    <3> QED  BY <3>1, <3>2, <3>3 DEF LatePut
  <2> QED  BY <1>8, <2>1, <2>2 DEF ProofRight, AtProof
<1>9. ASSUME NEW s \in Slots, SendToken(s) PROVE StandsInv'
  <2>1. \A j \in Tokens, c \in Clients : j \in held'[c] =>
          j \in held[c] \/ (PutOf(s, j) /\ c = peer[s])
    <3>1. held \in [Clients -> SUBSET Keys] /\ rpc[s].op = "put"
      BY <1>9 DEF SendToken
    <3> HIDE DEF Types, Awaiting, PlaceInv, IssuedInv, StandsInv
    <3> QED  BY <1>9, <3>1 DEF SendToken
  <2>2. \A j \in Tokens, c \in Clients : StandsFor(j, c)' => StandsFor(j, c)
    BY <1>9, <2>1 DEF SendToken
  <2>3. UNCHANGED proven
    BY <1>9 DEF SendToken
  <2> HIDE DEF StandsFor
  <2> QED  BY <2>2, <2>3
<1>10. ASSUME NEW s \in Slots, SendWorlds(s) PROVE StandsInv'
  BY <1>10 DEF SendWorlds
<1>11. ASSUME NEW s \in Slots, NEW k \in StoreKeys, Enter(s, k) PROVE StandsInv'
  BY <1>11 DEF Enter, SendKey
<1>12. ASSUME NEW s \in Slots, EnterFound(s) PROVE StandsInv'
  BY <1>12 DEF EnterFound, Found
<1>13. ASSUME Beside, NEW k \in StoreKeys, Calls!Expire(k) PROVE StandsInv'
  BY <1>13 DEF Beside, Calls!Expire
<1>14. ASSUME Beside, Calls!MasterRestarts PROVE StandsInv'
  <2>1. \A j \in Tokens, c \in Clients : StandsFor(j, c)' => StandsFor(j, c)
    BY <1>14 DEF Beside, Calls!MasterRestarts
  <2>2. UNCHANGED proven
    BY <1>14 DEF Beside
  <2> HIDE DEF StandsFor
  <2> QED  BY <2>1, <2>2
<1>15. ASSUME Beside, NEW o \in orphans, Calls!ServeOrphan(o) PROVE StandsInv'
  BY <1>15 DEF Beside, Calls!ServeOrphan, Calls!Apply
<1>16. ASSUME Beside, NEW lost \in SUBSET orphans, Calls!LoseOrphans(lost)
      PROVE  StandsInv'
  BY <1>16 DEF Beside, Calls!LoseOrphans
<1>17. ASSUME Beside, NEW s \in Slots, pc[s] = "store", Calls!Serve(s)
      PROVE  StandsInv'
  <2>1. rpc[s] \in Calls!Requests /\ rpc[s].op # "get"
    BY <1>17
  <2>2. /\ rpc[s].op = "take" =>
             /\ store' = [store EXCEPT ![rpc[s].key] = "none"]
             /\ answer' = [answer EXCEPT ![s] = IF store[rpc[s].key] = "none"
                              THEN "miss" ELSE store[rpc[s].key]]
        /\ rpc[s].op = "put" =>
             /\ store' = [store EXCEPT ![rpc[s].key] = rpc[s].value]
             /\ answer' = [answer EXCEPT ![s] = "ok"]
        /\ rpc[s].op = "list" =>
             store' = store /\ answer' = [answer EXCEPT ![s] = "ok"]
        /\ UNCHANGED <<rpc, orphans, held, proven>>
    BY <1>17, <2>1 DEF Beside, Calls!Serve, Calls!Apply, Calls!Returns, Calls!Lookup
  <2>3. rpc[s].op \in {"take", "put", "list"}
    BY <2>1, RequestParts
  <2>4. \A j \in Tokens, c \in Clients : StandsFor(j, c)' => StandsFor(j, c)
    BY <2>2, <2>3
  <2> HIDE DEF StandsFor
  <2> QED  BY <2>2, <2>4
<1>18. ASSUME Beside, NEW s \in Slots, pc[s] = "store", Calls!Fail(s)
      PROVE  StandsInv'
  BY <1>18 DEF Beside, Calls!Fail
<1>19. ASSUME NEW n \in Names, Announce(n) PROVE StandsInv'
  BY <1>19 DEF Announce
<1>20. CASE UNCHANGED vars
  BY <1>20 DEF vars, history
<1> QED
  BY <1>1, <1>2, <1>3, <1>4, <1>5, <1>6, <1>7, <1>8, <1>9, <1>10, <1>11, <1>12,
     <1>13, <1>14, <1>15, <1>16, <1>17, <1>18, <1>19, <1>20, StoreCases
  DEF Next, SessionStep

(* A client is known to World by a token, and has one by its proof. *)
LEMMA ProvedStep == Types /\ Awaiting /\ PlaceInv /\ IssuedInv /\ OnceInv /\ ProofInv /\ StandsInv /\ WorldUserProved /\ [Next]_vars => WorldUserProved'
<1> SUFFICES ASSUME Types, Awaiting, PlaceInv, IssuedInv, OnceInv, ProofInv, StandsInv, WorldUserProved, [Next]_vars PROVE WorldUserProved'
  OBVIOUS
<1> USE Domains, NoCallOp DEF Types, Awaiting, PlaceInv, IssuedInv, WorldUserProved, Slots, sessions, calls, history, Goto, End, Ask, Answered, HangUp,
           Calls!Ask, Calls!Answered, Calls!HangUp
<1>1. ASSUME NEW c \in Clients, NEW t \in Tickets, Redirect(c, t)
      PROVE  WorldUserProved'
  BY <1>1 DEF Redirect
<1>2. ASSUME NEW s \in Slots, NEW c \in Clients, Connect(c, s)
      PROVE  WorldUserProved'
  BY <1>2 DEF Connect
<1>3. ASSUME NEW s \in Slots, Disconnect(s) PROVE WorldUserProved'
  BY <1>3 DEF Disconnect
<1>4. ASSUME NEW s \in Slots, NEW k \in StoreKeys, Hello(s, k) PROVE WorldUserProved'
  BY <1>4 DEF Hello, SendKey
<1>5. ASSUME NEW s \in Slots, HelloFound(s) PROVE WorldUserProved'
  BY <1>5 DEF HelloFound, Found
<1>6. ASSUME NEW s \in Slots, TakeRefused(s) PROVE WorldUserProved'
  BY <1>6 DEF TakeRefused
<1>7. ASSUME NEW s \in Slots, ProofWrong(s) PROVE WorldUserProved'
  BY <1>7 DEF ProofWrong, AtProof
<1>8. ASSUME NEW s \in Slots, NEW k \in Tokens, ProofRight(s, k)
      PROVE  WorldUserProved'
  BY <1>8 DEF ProofRight, AtProof
<1>9. ASSUME NEW s \in Slots, SendToken(s) PROVE WorldUserProved'
  BY <1>9 DEF SendToken
<1>10. ASSUME NEW s \in Slots, SendWorlds(s) PROVE WorldUserProved'
  BY <1>10 DEF SendWorlds
<1>11. ASSUME NEW s \in Slots, NEW k \in StoreKeys, Enter(s, k) PROVE WorldUserProved'
  BY <1>11 DEF Enter, SendKey
<1>12. ASSUME NEW s \in Slots, EnterFound(s) PROVE WorldUserProved'
  <2> DEFINE k == rpc[s].key
  <2>1. CASE answer[s] \in Clients
    <3>1. /\ k \in Tokens /\ k \in held[peer[s]] /\ peer[s] \in Clients
      BY <1>12, <2>1 DEF EnterFound, Found, Keys
    <3>2. StandsFor(k, peer[s]) /\ StandsFor(k, answer[s])
      BY <1>12, <2>1, <3>1 DEF EnterFound, Found, StandsFor, Wins, TakeOf
    <3>3. answer[s] = peer[s] /\ answer[s] \in Accounts /\ k \in proven[peer[s]]
      BY <2>1, <3>1, <3>2 DEF StandsInv
    <3> QED  BY <1>12, <3>3 DEF EnterFound, Found
  <2>2. CASE answer[s] \notin Clients
    BY <1>12, <2>2 DEF EnterFound, Found
  <2> QED  BY <2>1, <2>2
<1>13. ASSUME Beside, NEW k \in StoreKeys, Calls!Expire(k) PROVE WorldUserProved'
  BY <1>13 DEF Beside, Calls!Expire
<1>14. ASSUME Beside, Calls!MasterRestarts PROVE WorldUserProved'
  BY <1>14 DEF Beside, Calls!MasterRestarts
<1>15. ASSUME Beside, NEW o \in orphans, Calls!ServeOrphan(o) PROVE WorldUserProved'
  BY <1>15 DEF Beside, Calls!ServeOrphan, Calls!Apply
<1>16. ASSUME Beside, NEW lost \in SUBSET orphans, Calls!LoseOrphans(lost)
      PROVE  WorldUserProved'
  BY <1>16 DEF Beside, Calls!LoseOrphans
<1>17. ASSUME Beside, NEW s \in Slots, pc[s] = "store", Calls!Serve(s)
      PROVE  WorldUserProved'
  BY <1>17 DEF Beside, Calls!Serve, Calls!Apply, Calls!Returns, Calls!Lookup
<1>18. ASSUME Beside, NEW s \in Slots, pc[s] = "store", Calls!Fail(s)
      PROVE  WorldUserProved'
  BY <1>18 DEF Beside, Calls!Fail
<1>19. ASSUME NEW n \in Names, Announce(n) PROVE WorldUserProved'
  BY <1>19 DEF Announce
<1>20. CASE UNCHANGED vars
  BY <1>20 DEF vars, history
<1> QED
  BY <1>1, <1>2, <1>3, <1>4, <1>5, <1>6, <1>7, <1>8, <1>9, <1>10, <1>11, <1>12,
     <1>13, <1>14, <1>15, <1>16, <1>17, <1>18, <1>19, <1>20, StoreCases
  DEF Next, SessionStep

-----------------------------------------------------------------------------
IInv ==
  /\ Types /\ Awaiting /\ PlaceInv /\ IssuedInv /\ OnceInv
  /\ ProofInv /\ StandsInv /\ WorldUserProved /\ StoredInv

LEMMA Inductive == Spec => []IInv
<1>1. Init => IInv
  BY Domains
  DEF Init, Calls!Init, Calls!NoCall, IInv, Types, Awaiting, PlaceInv, IssuedInv,
      OnceInv, ProofInv, StandsInv, WorldUserProved, StoredInv, HeldIsStored,
      StandsFor, PutOf, TakeOf, PutWaits, LatePut, Wins, Slots
<1>2. IInv /\ [Next]_vars => IInv'
  BY TypesStep, AwaitingStep, PlaceStep, IssuedStep, OnceStep, ProofStep,
     StandsStep, ProvedStep, StoredStep DEF IInv
<1> QED  BY <1>1, <1>2, PTL DEF Spec

(* The state of the authentication path keeps its type, and a session is   *)
(* in a store call exactly when it has a request.                          *)
THEOREM TypeCorrect == Spec => []TypeOK
<1>1. IInv => TypeOK
  BY TypesAreTypeOK DEF IInv
<1> QED  BY <1>1, Inductive, PTL

(* handle_hello and the token check of World: a one-time key lets at most  *)
(* one session through, whatever calls fail, are retried or come late.     *)
THEOREM PassedOnce == Spec => []KeyPassesOnce
<1>1. IInv => KeyPassesOnce
  BY DEF IInv, OnceInv, KeyPassesOnce
<1> QED  BY <1>1, Inductive, PTL

(* handle_proof: a ticket, or a token sent in its place, buys one attempt  *)
(* at a password.                                                          *)
THEOREM ProvedOnce == Spec => []OneProofPerKey
<1>1. IInv => OneProofPerKey
  BY DEF IInv, ProofInv, OneProofPerKey
<1> QED  BY <1>1, Inductive, PTL

(* WorldHandler: whoever World knows by a client's name is that client,    *)
(* let in by a token that Login drew for a right proof of its password.    *)
THEOREM WorldKnows == Spec => []WorldUserProved
<1>1. IInv => WorldUserProved
  BY DEF IInv
<1> QED  BY <1>1, Inductive, PTL

(* MasterHandler and handle_proof: a client is never ahead of the store. *)
THEOREM HeldStored == Spec => []HeldIsStored
<1>1. IInv => HeldIsStored
  BY DEF IInv, StoredInv
<1> QED  BY <1>1, Inductive, PTL
=============================================================================
