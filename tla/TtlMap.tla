------------------------------- MODULE TtlMap -------------------------------
(***************************************************************************)
(* What store/shared_store.hpp promises to its callers: a map whose        *)
(* entries live for a time to live and disappear when it is over, and on   *)
(* which put, get and take each act at one instant between the call and    *)
(* its return.  No mutex, no lazy expiry and no sweeping is visible here.  *)
(*                                                                         *)
(* Time is relative: an entry holds the time it has LEFT                   *)
(* (expires_at - now), and Tick is one unit of it passing for every entry. *)
(***************************************************************************)
EXTENDS Naturals

CONSTANTS Threads, Keys, Values, MaxTtl

VARIABLES live,     \* live[k]: the entry of key k, or Absent
          status,   \* status[t]: where the call of thread t is
          call,     \* call[t]: that call
          result    \* result[t]: what it answers, as a set of <<key, value>>

vars == <<live, status, call, result>>

Absent == [value |-> "absent", left |-> 0]
Entries == [value : Values, left : 0..MaxTtl]

PutCalls == [op : {"put"}, key : Keys, value : Values, ttl : 0..MaxTtl]
KeyCalls == [op : {"get", "take"}, key : Keys]
NoCall == [op |-> "none"]

Init ==
  /\ live = [k \in Keys |-> Absent]
  /\ status = [t \in Threads |-> "idle"]
  /\ call = [t \in Threads |-> NoCall]
  /\ result = [t \in Threads |-> {}]

Invoke(t, c) ==
  /\ status[t] = "idle"
  /\ status' = [status EXCEPT ![t] = "pending"]
  /\ call' = [call EXCEPT ![t] = c]
  /\ UNCHANGED <<live, result>>

(* A time to live of zero is over at once. *)
Put(t) ==
  /\ status[t] = "pending" /\ call[t].op = "put"
  /\ live' = [live EXCEPT ![call[t].key] =
                IF call[t].ttl = 0 THEN Absent
                ELSE [value |-> call[t].value, left |-> call[t].ttl]]
  /\ status' = [status EXCEPT ![t] = "done"]
  /\ UNCHANGED <<call, result>>

Answer(k) == IF live[k] = Absent THEN {} ELSE {<<k, live[k].value>>}

Get(t) ==
  /\ status[t] = "pending" /\ call[t].op = "get"
  /\ result' = [result EXCEPT ![t] = Answer(call[t].key)]
  /\ status' = [status EXCEPT ![t] = "done"]
  /\ UNCHANGED <<live, call>>

(* The answer and the removal are one step: this is what makes a ticket or *)
(* a token single use.                                                     *)
Take(t) ==
  /\ status[t] = "pending" /\ call[t].op = "take"
  /\ result' = [result EXCEPT ![t] = Answer(call[t].key)]
  /\ live' = [live EXCEPT ![call[t].key] = Absent]
  /\ status' = [status EXCEPT ![t] = "done"]
  /\ UNCHANGED call

Return(t) ==
  /\ status[t] = "done"
  /\ status' = [status EXCEPT ![t] = "idle"]
  /\ call' = [call EXCEPT ![t] = NoCall]
  /\ result' = [result EXCEPT ![t] = {}]
  /\ UNCHANGED live

Tick ==
  /\ live' = [k \in Keys |->
                IF live[k].left <= 1 THEN Absent
                ELSE [value |-> live[k].value, left |-> live[k].left - 1]]
  /\ UNCHANGED <<status, call, result>>

Next ==
  \/ Tick
  \/ \E t \in Threads :
       \/ \E c \in PutCalls \cup KeyCalls : Invoke(t, c)
       \/ Put(t) \/ Get(t) \/ Take(t) \/ Return(t)

Spec == Init /\ [][Next]_vars
=============================================================================
