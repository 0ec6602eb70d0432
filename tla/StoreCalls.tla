----------------------------- MODULE StoreCalls -----------------------------
(***************************************************************************)
(* What a StoreClient promises to the code that awaits it: a call is       *)
(* applied to the Master's store at most once and at one instant, and is   *)
(* answered by what it found there; or it fails, and then it may have been *)
(* applied, may be applied later (an orphan), or never.  The store is      *)
(* memory: a restart of the Master empties it.                             *)
(*                                                                         *)
(* StoreRpc shows how the connections of store/store_client.hpp and        *)
(* store/store_handler.hpp keep this promise; AuthFlow builds on it.       *)
(***************************************************************************)
CONSTANTS Callers,
          Keys, Values,
          OrphanIds     \* as many calls of one kind may be orphans at once

VARIABLES store,    \* store[k]: the value of key k, or "none"
          rpc,      \* rpc[s]: the call that caller s awaits, or NoCall
          answer,   \* answer[s]: what it returned, "pending", or "none"
          orphans   \* calls given up by their caller that may still be applied

NoCall == [op |-> "none"]
Requests == [op : {"get", "take"}, key : Keys]
            \cup [op : {"put"}, key : Keys, value : Values]
            \cup [op : {"list"}]

Init ==
  /\ store = [k \in Keys |-> "none"]
  /\ rpc = [s \in Callers |-> NoCall]
  /\ answer = [s \in Callers |-> "none"]
  /\ orphans = {}

(* A caller awaits a call; it goes on when it has an answer. *)
Ask(s, r) ==
  /\ answer[s] # "pending"
  /\ rpc' = [rpc EXCEPT ![s] = r]
  /\ answer' = [answer EXCEPT ![s] = "pending"]
  /\ UNCHANGED <<store, orphans>>

Answered(s, op) == rpc[s].op = op /\ answer[s] # "pending"

HangUp(s) ==
  /\ answer[s] # "pending"
  /\ rpc' = [rpc EXCEPT ![s] = NoCall]
  /\ answer' = [answer EXCEPT ![s] = "none"]
  /\ UNCHANGED <<store, orphans>>
-----------------------------------------------------------------------------
(* StoreHandler::on_message: what a request returns and does to the store. *)
Lookup(k) == IF store[k] = "none" THEN "miss" ELSE store[k]

ReturnsWithoutTest(r) == IF r.op \in {"get", "take"} THEN store[r.key] ELSE "ok"

Returns(r) == IF r.op \in {"get", "take"} THEN Lookup(r.key) ELSE "ok"

ApplyTakeAsGet(r) ==
  store' = IF r.op = "put" THEN [store EXCEPT ![r.key] = r.value] ELSE store

Apply(r) ==
  store' = CASE r.op = "take" -> [store EXCEPT ![r.key] = "none"]
             [] r.op = "put" -> [store EXCEPT ![r.key] = r.value]
             [] OTHER -> store

Serve(s) ==
  /\ answer[s] = "pending"
  /\ Apply(rpc[s])
  /\ answer' = [answer EXCEPT ![s] = Returns(rpc[s])]
  /\ UNCHANGED <<rpc, orphans>>

(* The call fails: it was lost, or it is still on its way (a get or a list *)
(* would change nothing), or it was applied and its answer is lost.        *)
Fail(s) ==
  /\ rpc[s] # NoCall /\ answer[s] # "failed"
  /\ answer' = [answer EXCEPT ![s] = "failed"]
  /\ \/ UNCHANGED orphans
     \/ /\ answer[s] = "pending" /\ rpc[s].op \in {"take", "put"}
        /\ \E i \in OrphanIds : orphans' = orphans \cup {<<i, rpc[s]>>}
  /\ UNCHANGED <<store, rpc>>

ServeOrphan(o) ==
  /\ o \in orphans
  /\ Apply(o[2])
  /\ orphans' = orphans \ {o}
  /\ UNCHANGED <<rpc, answer>>

LoseOrphans(lost) ==
  /\ orphans' = orphans \ lost
  /\ UNCHANGED <<store, rpc, answer>>

(* An entry's time to live is over. *)
Expire(k) ==
  /\ store[k] # "none"
  /\ store' = [store EXCEPT ![k] = "none"]
  /\ UNCHANGED <<rpc, answer, orphans>>

(* The Master process ends and is started again.  A pending call may be    *)
(* on a connection that is now broken, or may not have connected yet.      *)
MasterRestarts ==
  /\ store' = [k \in Keys |-> "none"]
  /\ orphans' = {}
  /\ UNCHANGED <<rpc, answer>>
-----------------------------------------------------------------------------
Environment ==
  \/ \E k \in Keys : Expire(k)
  \/ MasterRestarts
  \/ \E o \in orphans : ServeOrphan(o)
  \/ \E lost \in SUBSET orphans : LoseOrphans(lost)

Next ==
  \/ \E s \in Callers :
       \/ \E r \in Requests : Ask(s, r)
       \/ Serve(s) \/ Fail(s) \/ HangUp(s)
  \/ Environment

Spec == Init /\ [][Next]_<<store, rpc, answer, orphans>>

(* The type of the store and of the calls; a caller has an answer, or      *)
(* waits for one, exactly when it has made a call.                         *)
TypeOK ==
  /\ store \in [Keys -> Values \cup {"none"}]
  /\ rpc \in [Callers -> Requests \cup {NoCall}]
  /\ answer \in [Callers -> Values \cup {"none", "pending", "miss", "ok", "failed"}]
  /\ orphans \subseteq OrphanIds \X Requests
  /\ \A s \in Callers : rpc[s] # NoCall <=> answer[s] # "none"
=============================================================================
