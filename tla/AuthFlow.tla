------------------------------ MODULE AuthFlow ------------------------------
(***************************************************************************)
(* The authentication path through the three servers: Master issues a      *)
(* one-time ticket (handlers/master_handler.hpp), Login takes the ticket,  *)
(* runs the SRP6 exchange and issues a one-time session token              *)
(* (handlers/login_handler.hpp), World takes the token                     *)
(* (handlers/world_handler.hpp).  Tickets and tokens live in the Master's  *)
(* SharedStore, which Login and World reach by the calls of StoreCalls: a  *)
(* call may be answered, fail before or after it was applied, or be        *)
(* applied after its caller has given it up, and the Master may restart.   *)
(* The store has one name space: Login and World take whatever key a       *)
(* client sends, a ticket, a token or the name under which a server is     *)
(* registered, and look at its value only to read a user's name from it.   *)
(*                                                                         *)
(* A session is a slot: the address of its Session object on its thread,   *)
(* used again after the session is gone, which is what the handlers key    *)
(* their per-session state by.                                             *)
(***************************************************************************)
EXTENDS Naturals, FiniteSets

CONSTANTS Clients,     \* each is named as its own account
          Accounts,    \* the clients that have one
          Tickets, Tokens,   \* random keys: one has them that was sent them
          Names,             \* keys of the service registry: everybody has them
          LoginSlots, WorldSlots,
          Nobody

ASSUME AuthAssumption ==
  /\ Accounts \subseteq Clients /\ Nobody \notin Clients
  /\ Tickets \cap Tokens = {} /\ LoginSlots \cap WorldSlots = {}
  /\ Names \cap (Tickets \cup Tokens) = {}
  /\ {"blank", "service", "none", "pending", "miss", "ok", "failed"} \cap Clients = {}

Slots == LoginSlots \cup WorldSlots
Keys == Tickets \cup Tokens

(* What the store holds: a ticket's value is empty, a token's is its user, *)
(* a name's the address of a server.                                       *)
StoreKeys == Keys \cup Names
StoreValues == Clients \cup {"blank", "service"}

VARIABLES
  store,    \* the Master's store
  issued,   \* the random keys generated so far
  held,     \* held[c]: the keys client c has received
  peer,     \* peer[s]: the client connected to the session, or Nobody
  pc,       \* pc[s]: "free", "reading" or "store" (in a store call)
  stage,    \* stage[s]: SessionState: "start" (also: none), "proof", "done"
            \* at Login, "start", "auth" at World
  pass,     \* history: pass[s]: the key that let the session through, or "none"
  user,     \* user[s]: SessionState::username
  rpc, answer, orphans,  \* the sessions' store calls: see StoreCalls
  passed,   \* history: passed[k]: sessions the random key k let through
  proofs,   \* history: proofs[k]: SRP6 proofs verified in a session k let through
  proven,   \* history: proven[c]: the tokens drawn for a right proof of the
            \* password of c
  gone      \* history: the keys that were taken, expired, were lost with the
            \* Master's memory, or whose put failed

sessions == <<peer, pc, stage, pass, user>>
calls == <<store, rpc, answer, orphans>>
history == <<passed, proofs, proven, gone>>
vars == <<issued, held, sessions, calls, history>>

Calls == INSTANCE StoreCalls WITH Callers <- Slots, Keys <- StoreKeys,
                                  Values <- StoreValues, OrphanIds <- {"orphan"}

Init ==
  /\ Calls!Init
  /\ issued = {}
  /\ held = [c \in Clients |-> {}]
  /\ peer = [s \in Slots |-> Nobody]
  /\ pc = [s \in Slots |-> "free"]
  /\ stage = [s \in Slots |-> "start"]
  /\ pass = [s \in Slots |-> "none"]
  /\ user = [s \in Slots |-> Nobody]
  /\ passed = [k \in Keys |-> 0]
  /\ proofs = [k \in Keys |-> 0]
  /\ proven = [c \in Clients |-> {}]
  /\ gone = {}
-----------------------------------------------------------------------------
(* MasterHandler::on_message: a fresh ticket is stored and sent; the       *)
(* client may be gone before it receives it.                               *)
Redirect(c, t) ==
  /\ t \in Tickets \ issued
  /\ issued' = issued \cup {t}
  /\ store' = [store EXCEPT ![t] = "blank"]
  /\ held' \in {held, [held EXCEPT ![c] = @ \cup {t}]}
  /\ UNCHANGED <<sessions, rpc, answer, orphans, history>>

(* A heartbeat of a Login or World process is applied: see Registry. *)
Announce(n) ==
  /\ store' = [store EXCEPT ![n] = "service"]
  /\ UNCHANGED <<issued, held, sessions, rpc, answer, orphans, history>>

(* The store and its calls go their own way: entries expire (30 s for a    *)
(* ticket, 60 s for a token), Master restarts, orphans are applied.        *)
StoreStep ==
  /\ \/ Calls!Environment
     \/ \E s \in Slots : pc[s] = "store" /\ (Calls!Serve(s) \/ Calls!Fail(s))
  /\ gone' = gone \cup {k \in Keys : store[k] # "none" /\ store'[k] = "none"}
                  \cup {rpc[s].key : s \in {z \in Slots : /\ rpc[z].op = "put"
                                                         /\ answer'[z] = "failed"}}
  /\ UNCHANGED <<issued, held, sessions, passed, proofs, proven>>

(* A handler awaits a call of its StoreClient, and then goes on. *)
Ask(s, r) == Calls!Ask(s, r)
Answered(s, op) == pc[s] = "store" /\ Calls!Answered(s, op)
HangUp(s) == Calls!HangUp(s)

Goto(s, where) == pc' = [pc EXCEPT ![s] = where]

(* Only random keys are counted: a name is stored again and again. *)
Counted(count, k) == [x \in Keys |-> IF x = k THEN count[x] + 1 ELSE count[x]]
-----------------------------------------------------------------------------
Connect(c, s) ==
  /\ pc[s] = "free"
  /\ Goto(s, "reading")
  /\ peer' = [peer EXCEPT ![s] = c]
  /\ UNCHANGED <<issued, held, stage, pass, user, calls, history>>

(* Session::run is over: on_disconnect erases what the handler keeps under *)
(* the address of the session, and the address is free.                    *)
EndKeepsState(s) ==
  /\ Goto(s, "free")
  /\ peer' = [peer EXCEPT ![s] = Nobody]
  /\ UNCHANGED <<stage, user, pass>>

End(s) ==
  /\ Goto(s, "free")
  /\ peer' = [peer EXCEPT ![s] = Nobody]
  /\ stage' = [stage EXCEPT ![s] = "start"]
  /\ user' = [user EXCEPT ![s] = Nobody]
  /\ pass' = [pass EXCEPT ![s] = "none"]

(* The client left, was idle too long, or sent a message that cannot be    *)
(* decoded or is out of sequence.                                          *)
Disconnect(s) ==
  /\ pc[s] = "reading"
  /\ End(s)
  /\ UNCHANGED <<issued, held, calls, history>>

(* The first message of a client: any key it has.  One that is not stored  *)
(* (a name nobody is registered under, for one) stands for all of those.   *)
SendKey(s, k) ==
  /\ pc[s] = "reading" /\ stage[s] = "start"
  /\ k \in held[peer[s]] \cup Names
  /\ Ask(s, [op |-> "take", key |-> k])
  /\ Goto(s, "store")
  /\ UNCHANGED <<issued, held, peer, stage, pass, user, history>>

Found(s) == Answered(s, "take") /\ answer[s] \in StoreValues

(* ClientHello: handle_hello up to the take. *)
Hello(s, k) == s \in LoginSlots /\ SendKey(s, k)

(* The key was found, whatever its value: account lookup (which may fail:  *)
(* the session is closed), challenge, a decoy where there is no account,   *)
(* on to the proof.                                                        *)
HelloFound(s) ==
  /\ s \in LoginSlots /\ Found(s)
  /\ passed' = Counted(passed, rpc[s].key)
  /\ \/ /\ stage' = [stage EXCEPT ![s] = "proof"]
        /\ user' = [user EXCEPT ![s] = peer[s]]
        /\ pass' = [pass EXCEPT ![s] = rpc[s].key]
        /\ Goto(s, "reading")
        /\ UNCHANGED peer
     \/ End(s)
  /\ HangUp(s)
  /\ UNCHANGED <<issued, held, proofs, proven, gone>>

(* take returned nullopt: no such key, expired, used, or a store error. *)
(* The session is closed, so that its next read fails.                     *)
TakeRefused(s) ==
  /\ Answered(s, "take") /\ answer[s] \in {"miss", "failed"}
  /\ HangUp(s)
  /\ End(s)
  /\ UNCHANGED <<issued, held, history>>

(* ClientProof: handle_proof.  A wrong proof closes the session; so does   *)
(* any proof for an account that does not exist.                           *)
AtProof(s) ==
  /\ s \in LoginSlots /\ pc[s] = "reading" /\ stage[s] = "proof"
  /\ proofs' = Counted(proofs, pass[s])

ProofWrongTriesAgain(s) ==
  /\ AtProof(s)
  /\ UNCHANGED <<issued, held, sessions, calls, passed, proven, gone>>

ProofWrong(s) ==
  /\ AtProof(s)
  /\ End(s)
  /\ UNCHANGED <<issued, held, calls, passed, proven, gone>>

ProofRight(s, k) ==
  /\ AtProof(s)
  /\ user[s] = peer[s] /\ user[s] \in Accounts
  /\ k \in Tokens \ issued
  /\ issued' = issued \cup {k}
  /\ proven' = [proven EXCEPT ![user[s]] = @ \cup {k}]
  /\ Ask(s, [op |-> "put", key |-> k, value |-> user[s]])
  /\ Goto(s, "store")
  /\ UNCHANGED <<held, peer, stage, pass, user, passed, gone>>

SendTokenAtOnce(s) ==
  /\ pc[s] = "store" /\ rpc[s].op = "put"
  /\ held' = [held EXCEPT ![peer[s]] = @ \cup {rpc[s].key}]
  /\ UNCHANGED <<issued, sessions, calls, history>>

(* The result of the put is not looked at: the token is sent, and the list *)
(* of worlds is asked for.  A send that fails only closes the socket: the  *)
(* handler goes on, and the next read ends the session.                    *)
SendToken(s) ==
  /\ Answered(s, "put")
  /\ held' \in {held, [held EXCEPT ![peer[s]] = @ \cup {rpc[s].key}]}
  /\ Ask(s, [op |-> "list"])
  /\ UNCHANGED <<issued, sessions, history>>

SendWorlds(s) ==
  /\ Answered(s, "list")
  /\ stage' = [stage EXCEPT ![s] = "done"]
  /\ HangUp(s)
  /\ Goto(s, "reading")
  /\ UNCHANGED <<issued, held, peer, pass, user, history>>

(* The first message to World: WorldHandler::on_message up to the take. *)
Enter(s, k) == s \in WorldSlots /\ SendKey(s, k)

(* The key was found: the session is authenticated, and its user is what   *)
(* was stored: nothing for a ticket, an address for a name.                *)
EnterFound(s) ==
  /\ s \in WorldSlots /\ Found(s)
  /\ passed' = Counted(passed, rpc[s].key)
  /\ stage' = [stage EXCEPT ![s] = "auth"]
  /\ user' = [user EXCEPT ![s] = answer[s]]
  /\ pass' = [pass EXCEPT ![s] = rpc[s].key]
  /\ HangUp(s)
  /\ Goto(s, "reading")
  /\ UNCHANGED <<issued, held, peer, proofs, proven, gone>>
-----------------------------------------------------------------------------
SessionStep(s) ==
  \/ \E c \in Clients : Connect(c, s)
  \/ Disconnect(s)
  \/ \E k \in StoreKeys : Hello(s, k)
  \/ HelloFound(s) \/ TakeRefused(s)
  \/ ProofWrong(s) \/ \E k \in Tokens : ProofRight(s, k)
  \/ SendToken(s) \/ SendWorlds(s)
  \/ \E k \in StoreKeys : Enter(s, k)
  \/ EnterFound(s)

Next ==
  \/ \E c \in Clients, t \in Tickets : Redirect(c, t)
  \/ \E s \in Slots : SessionStep(s)
  \/ \E n \in Names : Announce(n)
  \/ StoreStep

Spec == Init /\ [][Next]_vars
-----------------------------------------------------------------------------
(* The type of the state of the authentication path; a session is in a     *)
(* store call exactly when it has a request and an answer to wait for.     *)
TypeOK ==
  /\ Calls!TypeOK
  /\ issued \subseteq Keys
  /\ held \in [Clients -> SUBSET Keys]
  /\ peer \in [Slots -> Clients \cup {Nobody}]
  /\ pc \in [Slots -> {"free", "reading", "store"}]
  /\ stage \in [Slots -> {"start", "proof", "done", "auth"}]
  /\ pass \in [Slots -> StoreKeys \cup {"none"}]
  /\ user \in [Slots -> StoreValues \cup {Nobody}]
  /\ passed \in [Keys -> Nat] /\ proofs \in [Keys -> Nat]
  /\ proven \in [Clients -> SUBSET Tokens]
  /\ gone \subseteq Keys
  /\ \A s \in Slots : pc[s] = "store" <=> rpc[s] # Calls!NoCall

(* "jetons a usage unique": a ticket or a token lets at most one session   *)
(* through, be it past the ClientHello or into World, whatever is retried, *)
(* raced, lost, late or restarted, and to whichever server it is sent.     *)
KeyPassesOnce == \A k \in Keys : passed[k] <= 1

(* One ticket, or one token sent in its place, buys one attempt at a       *)
(* password: a session verifies one proof, and a wrong one ends it.        *)
OneProofPerKey == \A k \in Keys : proofs[k] <= 1

(* A session that World knows by the name of a client is a session of that *)
(* client, which has an account, and was let in by a token that Login drew *)
(* for a right proof of its password; with KeyPassesOnce, each such proof  *)
(* lets in one session.  (Neither a key that is not a token, nor the state *)
(* of an earlier session at the same address, ever gives it the name.)     *)
WorldUserProved ==
  \A s \in WorldSlots : stage[s] = "auth" /\ user[s] \in Clients =>
    user[s] = peer[s] /\ user[s] \in Accounts /\ pass[s] \in proven[user[s]]

(* A client is never ahead of the store: the ticket or token it has        *)
(* received is there to be taken, whatever server it turns to and however  *)
(* fast, unless it was used, has expired, went with the Master's memory,   *)
(* or its put failed, which Login does not look at.                        *)
HeldIsStored == \A c \in Clients : \A k \in held[c] \ gone : store[k] # "none"
=============================================================================
