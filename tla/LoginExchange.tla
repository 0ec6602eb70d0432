--------------------------- MODULE LoginExchange ---------------------------
(***************************************************************************)
(* One login from end to end: the accounts that create_account writes      *)
(* (accounts/sqlite_account_repository.hpp), the messages between the      *)
(* client (tools/client_sim.cpp) and LoginHandler (net/login_protocol.hpp) *)
(* and the SRP6 they carry, computed in a small group.  Creators race for  *)
(* one username; the client types the password of one of them, or another. *)
(*                                                                         *)
(* A hash is a number drawn when it is first computed; the proofs M1 and   *)
(* M2, hashes as well, are what is hashed.  The ticket is AuthFlow's       *)
(* matter: here it is found or not.                                        *)
(***************************************************************************)
EXTENDS Srp6, Sequences

CONSTANTS Creators,    \* runs of create_account: the password of each
          Other,       \* a password nobody registered
          Nonces,      \* what BN_rand_range draws
          Hashes       \* what SHA-256 gives, as a number

ASSUME LoginAssumption ==
  Other \notin Creators /\ Nonces \subseteq Nat /\ Hashes \subseteq Nat

VARIABLES
  creator,   \* creator[c]: "start", "created", "refused" ("existe deja"), "error"
  hash,      \* hash[c]: compute_x of c's password under the salt c drew
  account,   \* the creator whose row is in the table, or Other
  typed,     \* the password the client types
  at,        \* the client: what it waits for, or how it ended
  toServer, toClient,  \* messages on their way
  open,      \* is the connection open?
  stage,     \* the session at Login: "hello", "proof", "put", "list", "done"
  server,    \* ServerChallenge: its v and b, those of a decoy too
  proof,     \* ClientProof: A, M1 and the secret S
  u,         \* compute_u of the A and B exchanged
  result,    \* ServerResult: M2, of a proof that Login has accepted
  looked,    \* history: what find() saw: "none", "row", "absent", "unread"
  known      \* history: typed was registered before the ClientHello

table == <<creator, hash, account>>
wire == <<toServer, toClient, open>>
session == <<stage, server, result>>
client == <<typed, at, proof>>
history == <<looked, known>>
vars == <<table, client, wire, session, u, history>>

NoSecret == N
NoProof == [A |-> 0, M1 |-> <<0, 0, NoSecret>>, S |-> NoSecret]

(* compute_M2 *)
M2Of(A, M1, S) == <<A, M1, S>>
ExpectedM2 == M2Of(proof.A, proof.M1, proof.S)
NoResult == M2Of(0, <<0, 0, NoSecret>>, NoSecret)
Waiting == {"challenge", "proof", "worlds"}

Init ==
  /\ creator = [c \in Creators |-> "start"]
  /\ hash = [c \in Creators |-> 0]
  /\ account = Other
  /\ typed \in Creators \cup {Other}
  /\ at = "start"
  /\ toServer = <<>> /\ toClient = <<>> /\ open = TRUE
  /\ stage = "hello" /\ server = [v |-> 0, b |-> 0]
  /\ proof = NoProof /\ u = 0
  /\ result = NoResult /\ looked = "none" /\ known = FALSE
-----------------------------------------------------------------------------
(* create_account: the row is new and inserted.  (SQLite runs a statement  *)
(* as one transaction; the primary key is the username.)                   *)
Insert(c) ==
  /\ \E x \in Hashes : hash' = [hash EXCEPT ![c] = x]
  /\ account' = c
  /\ creator' = [creator EXCEPT ![c] = "created"]
  /\ UNCHANGED <<client, wire, session, u, history>>

CreateOrReplace(c) == creator[c] = "start" /\ Insert(c)

Create(c) == creator[c] = "start" /\ account = Other /\ Insert(c)

(* The step is not SQLITE_DONE: there is a row already, or another writer  *)
(* held the lock for 5 s.  Both are reported as an account that exists.    *)
CreateFails(c) ==
  /\ creator[c] = "start"
  /\ creator' = [creator EXCEPT ![c] = "refused"]
  /\ UNCHANGED <<hash, account, client, wire, session, u, history>>

(* The file cannot be opened or prepared for. *)
CreateThrows(c) ==
  /\ creator[c] = "start"
  /\ creator' = [creator EXCEPT ![c] = "error"]
  /\ UNCHANGED <<hash, account, client, wire, session, u, history>>
-----------------------------------------------------------------------------
(* The client writes a frame, or reads one.  A write to a closed           *)
(* connection is not noticed before the next read.                         *)
ClientSends(message) ==
  toServer' = IF open THEN Append(toServer, message) ELSE toServer

ClientReads(what) ==
  /\ at = what /\ toClient # <<>>
  /\ toClient' = Tail(toClient)

Answer == Head(toClient)

SendHello ==
  /\ at = "start"
  /\ ClientSends([op |-> "hello"])
  /\ at' = "challenge"
  /\ known' = (typed \in Creators /\ account = typed)
  /\ UNCHANGED <<table, typed, proof, toClient, open, session, u, looked>>

(* compute_x: as registered, if the password is the one registered under   *)
(* the salt received; else any hash.                                       *)
HashOfTyped(salt) == IF salt \in Creators /\ salt = typed THEN {hash[typed]} ELSE Hashes

(* client_respond *)
Respond ==
  /\ ClientReads("challenge")
  /\ Answer.op = "challenge" /\ Answer.B % N # 0
  /\ \E a \in Nonces, h \in Hashes, x \in HashOfTyped(Answer.salt) :
       LET A == PublicA(a)
           S == ClientSecret(Answer.B, x, a, h)
           M1 == <<A, Answer.B, S>>
       IN /\ u' = h
          /\ proof' = [A |-> A, M1 |-> M1, S |-> S]
          /\ ClientSends([op |-> "proof", A |-> A, M1 |-> M1])
  /\ at' = "proof"
  /\ UNCHANGED <<table, typed, open, session, history>>

(* An answer other than a challenge; or one whose B is congruent to 0,     *)
(* which client_respond throws for.                                        *)
GiveUp ==
  /\ ClientReads("challenge")
  /\ \/ Answer.op # "challenge" /\ at' = "turned away"
     \/ Answer.op = "challenge" /\ Answer.B % N = 0 /\ at' = "exception"
  /\ UNCHANGED <<table, typed, proof, toServer, open, session, u, history>>

(* client_verify_server *)
ReadProof ==
  /\ ClientReads("proof")
  /\ \/ Answer.op # "proof" /\ at' = "refused"
     \/ /\ Answer.op = "proof"
        /\ at' = IF Answer.M2 = ExpectedM2 THEN "worlds" ELSE "alert"
  /\ UNCHANGED <<table, typed, proof, toServer, open, session, u, history>>

ReadWorlds ==
  /\ ClientReads("worlds")
  /\ at' = "finished"
  /\ UNCHANGED <<table, typed, proof, toServer, open, session, u, history>>

(* read_frame fails: the end of the stream, or a reset that loses what was *)
(* on its way.                                                             *)
NoAnswer ==
  /\ at \in Waiting /\ ~open
  /\ at' = "cut off"
  /\ UNCHANGED <<table, typed, proof, wire, session, u, history>>
-----------------------------------------------------------------------------
(* LoginHandler::on_message: session.send, session.close. *)
Says(message) == toClient' = IF open THEN Append(toClient, message) ELSE toClient

Receives(message) ==
  /\ open /\ toServer # <<>> /\ Head(toServer).op = message
  /\ toServer' = Tail(toServer)

HelloComes == Receives("hello") /\ stage = "hello"

(* The ticket is not found: closed without a word. *)
RefuseTicketLeavesOpen ==
  /\ HelloComes
  /\ UNCHANGED <<table, client, toClient, open, session, u, history>>

RefuseTicket ==
  /\ HelloComes
  /\ open' = FALSE
  /\ UNCHANGED <<table, client, toClient, session, u, history>>

(* find() throws: the statement cannot be prepared. *)
LookupFails ==
  /\ HelloComes
  /\ Says([op |-> "error"])
  /\ open' = FALSE
  /\ UNCHANGED <<table, client, session, u, history>>

(* server_begin *)
Challenge(salt, v) ==
  \E b \in Nonces :
    /\ server' = [v |-> v, b |-> b]
    /\ Says([op |-> "challenge", salt |-> salt, B |-> PublicB(v, b)])

(* find() returns the row; or nothing, because there is none or because    *)
(* the step reports an error.                                              *)
FindResults == IF account = Other THEN {"absent"} ELSE {"row", "unread"}

(* Without a row the challenge is that of a random password, under a salt  *)
(* of its own.                                                             *)
Lookup ==
  /\ HelloComes
  /\ looked' \in FindResults
  /\ \/ looked' = "row" /\ Challenge(account, Verifier(hash[account]))
     \/ looked' # "row" /\ \E x \in Hashes : Challenge(Other, Verifier(x))
  /\ stage' = "proof"
  /\ UNCHANGED <<table, client, open, result, u, known>>

(* server_verify *)
SecretFor(A) == ServerSecret(A, server.v, u, server.b)

VerifiesWithoutM1(A, M1) == A % N # 0 /\ u # 0

Verifies(A, M1) ==
  /\ A % N # 0 /\ u # 0
  /\ M1 = <<A, PublicB(server.v, server.b), SecretFor(A)>>

Received == Head(toServer)

ProofComes == Receives("proof") /\ stage = "proof"

RefuseProof ==
  /\ ProofComes /\ ~Verifies(Received.A, Received.M1)
  /\ Says([op |-> "error"])
  /\ open' = FALSE
  /\ UNCHANGED <<table, client, session, u, history>>

(* The session token is drawn; the put awaits the Store. *)
AcceptProof ==
  /\ ProofComes /\ Verifies(Received.A, Received.M1)
  /\ result' = M2Of(Received.A, Received.M1, SecretFor(Received.A))
  /\ stage' = "put"
  /\ UNCHANGED <<table, client, toClient, open, server, u, history>>

(* The put is over, whatever it gave; the list of worlds is asked for. *)
SendProofAgain ==
  /\ stage = "put"
  /\ Says([op |-> "proof", M2 |-> result])
  /\ UNCHANGED <<table, client, toServer, open, session, u, history>>

SendProof ==
  /\ stage = "put"
  /\ Says([op |-> "proof", M2 |-> result])
  /\ stage' = "list"
  /\ UNCHANGED <<table, client, toServer, open, server, result, u, history>>

SendWorlds ==
  /\ stage = "list"
  /\ Says([op |-> "worlds"])
  /\ stage' = "done"
  /\ UNCHANGED <<table, client, toServer, open, server, result, u, history>>

(* The connection breaks, or the session has been idle for too long; what  *)
(* was sent may still be read by the client.                               *)
Cut ==
  /\ open
  /\ open' = FALSE
  /\ UNCHANGED <<table, client, toServer, toClient, session, u, history>>
-----------------------------------------------------------------------------
ClientStep ==
  SendHello \/ Respond \/ GiveUp \/ ReadProof \/ ReadWorlds \/ NoAnswer

ServerStep ==
  \/ RefuseTicket \/ LookupFails \/ Lookup
  \/ RefuseProof \/ AcceptProof \/ SendProof \/ SendWorlds

Next ==
  \/ \E c \in Creators : Create(c) \/ CreateFails(c) \/ CreateThrows(c)
  \/ ClientStep \/ ServerStep \/ Cut

Spec == Init /\ [][Next]_vars

(* The client's program and the session's coroutine run; a call of the     *)
(* Store ends (StoreRpc).  The idle timer is not needed.                   *)
Fairness == WF_vars(ClientStep) /\ WF_vars(ServerStep)
FairSpec == Spec /\ Fairness
-----------------------------------------------------------------------------
Secrets == 0 .. N

(* The types of the exchange; one message waits on either side, but for    *)
(* the proof and the worlds, which follow each other.                      *)
TypeOK ==
  /\ creator \in [Creators -> {"start", "created", "refused", "error"}]
  /\ hash \in [Creators -> Hashes \cup {0}]
  /\ {account, typed} \subseteq Creators \cup {Other}
  /\ at \in Waiting \cup {"start", "finished", "turned away", "exception",
                          "refused", "alert", "cut off"}
  /\ Len(toServer) <= 1 /\ Len(toClient) <= 2 /\ open \in BOOLEAN
  /\ stage \in {"hello", "proof", "put", "list", "done"}
  /\ server \in [v : 0 .. N - 1, b : Nonces \cup {0}]
  /\ proof \in [A : 0 .. N - 1, M1 : Secrets \X Secrets \X Secrets, S : Secrets]
  /\ u \in Hashes \cup {0}
  /\ result \in (0 .. N - 1) \X (Secrets \X Secrets \X Secrets) \X Secrets
  /\ looked \in {"none", "row", "absent", "unread"} /\ known \in BOOLEAN

(* Whoever create_account told "cree" owns the account for good: at most   *)
(* one run is told so, and its row is the one in the table.                *)
CreatedOnce ==
  \A c \in Creators : creator[c] = "created" <=> account = c

(* The password that create_account accepted opens the account: it is      *)
(* refused only for a hash that is zero, or when the row could not be      *)
(* read, which find() does not tell from an account that does not exist.   *)
RightPasswordPasses ==
  at = "refused" /\ known => looked = "unread" \/ u = 0

(* "preuve mutuelle": Login accepts only the proof of a client that has    *)
(* computed the same secret; the client goes on only with a Login that     *)
(* accepted it, and never takes its own Login for an impostor.             *)
MutualProof ==
  /\ result # NoResult => result = ExpectedM2
  /\ at \in {"worlds", "finished"} => result # NoResult
  /\ at # "alert"

(* The client has no time-out of its own and needs none: whatever is       *)
(* refused, missing or broken on the other side, its program ends.         *)
ClientEnds == <>(at \notin Waiting \cup {"start"})
=============================================================================
