----------------------------- MODULE SharedStore -----------------------------
(***************************************************************************)
(* store/shared_store.hpp: the map behind the Master's tickets, the Login  *)
(* servers' session tokens and the service registry.  It is called by the  *)
(* threads of two servers and by the sweeping loop of main.cpp at once, so *)
(* every method is modelled as the steps it takes under mutex_: get the    *)
(* lock (shared or unique), work, release it on return.  The loops of      *)
(* list_prefix and sweep_expired are one step per entry, because each      *)
(* entry's expiry is tested against a clock that keeps running.            *)
(*                                                                         *)
(* Expiry is lazy: an expired entry stays in entries_ until it is swept or *)
(* overwritten.  An entry holds the time it has left, expires_at - now(),  *)
(* 0 when is_expired() holds.                                              *)
(***************************************************************************)
EXTENDS Integers

CONSTANTS Threads,    \* the threads that call the store
          Keys, Values,
          Prefixes,   \* the prefixes list_prefix is called with
          KeysUnder,  \* KeysUnder[p]: the keys that begin with p
          MaxTtl,     \* the longest time to live, in ticks
          NoThread

ASSUME StoreAssumption ==
  /\ KeysUnder \in [Prefixes -> SUBSET Keys]
  /\ MaxTtl \in Nat
  /\ NoThread \notin Threads
  /\ "absent" \notin Values

VARIABLES entries,    \* entries_: key -> Entry, or NoEntry
          writer,     \* the thread that holds mutex_ unique, or NoThread
          readers,    \* the threads that hold it shared
          pc, call,   \* where each thread is, and in which call
          visit,      \* the entries its loop has still to reach
          result,     \* the <<key, value>> pairs its call will return
          spent,      \* history: keys taken and not put since
          seen        \* history: the live pairs when a reader got the lock

vars == <<entries, writer, readers, pc, call, visit, result, spent, seen>>
mutex == <<writer, readers>>
history == <<spent, seen>>

NoEntry == [value |-> "absent", left |-> 0]
Entries == [value : Values, left : 0..MaxTtl]

PutCalls == [op : {"put"}, key : Keys, value : Values, ttl : 0..MaxTtl]
KeyCalls == [op : {"get", "take"}, key : Keys]
ListCalls == [op : {"list"}, prefix : Prefixes]
SweepCalls == [op : {"sweep"}]
NoCall == [op |-> "none"]
Calls == PutCalls \cup KeyCalls \cup ListCalls \cup SweepCalls

IsExpired(e) == e.left = 0

(* An entry one tick later. *)
AgedPastZero(e) == [value |-> e.value, left |-> e.left - 1]
Aged(e) == IF e.left = 0 THEN e ELSE [value |-> e.value, left |-> e.left - 1]

(* The pairs an atomic reader would find now. *)
LivePairs == {<<k, entries[k].value>> :
                k \in {j \in Keys : entries[j] # NoEntry /\ ~IsExpired(entries[j])}}

Init ==
  /\ entries = [k \in Keys |-> NoEntry]
  /\ writer = NoThread /\ readers = {}
  /\ pc = [t \in Threads |-> "idle"]
  /\ call = [t \in Threads |-> NoCall]
  /\ visit = [t \in Threads |-> {}]
  /\ result = [t \in Threads |-> {}]
  /\ spent = {}
  /\ seen = [t \in Threads |-> {}]
-----------------------------------------------------------------------------
Goto(t, where) == pc' = [pc EXCEPT ![t] = where]

Invoke(t, c) ==
  /\ pc[t] = "idle"
  /\ call' = [call EXCEPT ![t] = c]
  /\ Goto(t, "lock")
  /\ UNCHANGED <<entries, mutex, visit, result, history>>

(* The operations that lock mutex_ with std::unique_lock. *)
ExclusiveTakeShared == {"put", "sweep"}
Exclusive == {"put", "take", "sweep"}

BeginLoop(t) == visit' = [visit EXCEPT ![t] = {k \in Keys : entries[k] # NoEntry}]

LockUnique(t) ==
  /\ pc[t] = "lock" /\ call[t].op \in Exclusive
  /\ writer = NoThread /\ readers = {}
  /\ writer' = t
  /\ BeginLoop(t)
  /\ Goto(t, "body")
  /\ UNCHANGED <<entries, readers, call, result, history>>

LockShared(t) ==
  /\ pc[t] = "lock" /\ call[t].op \notin Exclusive
  /\ writer = NoThread
  /\ readers' = readers \cup {t}
  /\ BeginLoop(t)
  /\ seen' = [seen EXCEPT ![t] = LivePairs]
  /\ Goto(t, "body")
  /\ UNCHANGED <<entries, writer, call, result, spent>>

(* The lock guard goes out of scope and the method returns. *)
Unlock(t) ==
  /\ pc[t] = "unlock"
  /\ writer' = IF writer = t THEN NoThread ELSE writer
  /\ readers' = readers \ {t}
  /\ call' = [call EXCEPT ![t] = NoCall]
  /\ visit' = [visit EXCEPT ![t] = {}]
  /\ result' = [result EXCEPT ![t] = {}]
  /\ seen' = [seen EXCEPT ![t] = {}]
  /\ Goto(t, "idle")
  /\ UNCHANGED <<entries, spent>>
-----------------------------------------------------------------------------
PutInsert(t) ==
  /\ pc[t] = "body" /\ call[t].op = "put"
  /\ entries' = [entries EXCEPT ![call[t].key] =
                   [value |-> call[t].value, left |-> call[t].ttl]]
  /\ spent' = spent \ {call[t].key}
  /\ Goto(t, "unlock")
  /\ UNCHANGED <<mutex, call, visit, result, seen>>

(* find() == end() or is_expired(): the common test of get and take. *)
FoundEvenExpired(k) == entries[k] # NoEntry
Found(k) == entries[k] # NoEntry /\ ~IsExpired(entries[k])

GetRead(t) ==
  /\ pc[t] = "body" /\ call[t].op = "get"
  /\ result' = [result EXCEPT ![t] =
                  IF Found(call[t].key)
                  THEN {<<call[t].key, entries[call[t].key].value>>} ELSE {}]
  /\ Goto(t, "unlock")
  /\ UNCHANGED <<entries, mutex, call, visit, history>>

TakeMiss(t) ==
  /\ pc[t] = "body" /\ call[t].op = "take"
  /\ ~Found(call[t].key)
  /\ Goto(t, "unlock")
  /\ UNCHANGED <<entries, mutex, call, visit, result, history>>

(* The value is moved out of the entry; the entry is erased afterwards. *)
TakeFind(t) ==
  /\ pc[t] = "body" /\ call[t].op = "take"
  /\ Found(call[t].key)
  /\ result' = [result EXCEPT ![t] =
                  {<<call[t].key, entries[call[t].key].value>>}]
  /\ spent' = spent \cup {call[t].key}
  /\ Goto(t, "erase")
  /\ UNCHANGED <<entries, mutex, call, visit, seen>>

TakeErase(t) ==
  /\ pc[t] = "erase"
  /\ entries' = [entries EXCEPT ![call[t].key] = NoEntry]
  /\ Goto(t, "unlock")
  /\ UNCHANGED <<mutex, call, visit, result, history>>

SweepStep(t, k) ==
  /\ pc[t] = "body" /\ call[t].op = "sweep" /\ k \in visit[t]
  /\ entries' = [entries EXCEPT ![k] = IF IsExpired(@) THEN NoEntry ELSE @]
  /\ visit' = [visit EXCEPT ![t] = @ \ {k}]
  /\ UNCHANGED <<mutex, pc, call, result, history>>

ListStepAnyPrefix(t, k) ==
  /\ pc[t] = "body" /\ call[t].op = "list" /\ k \in visit[t]
  /\ result' = [result EXCEPT ![t] =
                  IF ~IsExpired(entries[k])
                  THEN @ \cup {<<k, entries[k].value>>} ELSE @]
  /\ visit' = [visit EXCEPT ![t] = @ \ {k}]
  /\ UNCHANGED <<entries, mutex, pc, call, history>>

ListStep(t, k) ==
  /\ pc[t] = "body" /\ call[t].op = "list" /\ k \in visit[t]
  /\ result' = [result EXCEPT ![t] =
                  IF ~IsExpired(entries[k]) /\ k \in KeysUnder[call[t].prefix]
                  THEN @ \cup {<<k, entries[k].value>>} ELSE @]
  /\ visit' = [visit EXCEPT ![t] = @ \ {k}]
  /\ UNCHANGED <<entries, mutex, pc, call, history>>

(* The end of the loop over entries_ in list_prefix and sweep_expired. *)
LoopEnds(t) ==
  /\ pc[t] = "body" /\ call[t].op \in {"list", "sweep"} /\ visit[t] = {}
  /\ Goto(t, "unlock")
  /\ UNCHANGED <<entries, mutex, call, visit, result, history>>

(* steady_clock moves on, whoever holds the lock. *)
Tick ==
  /\ entries' = [k \in Keys |-> Aged(entries[k])]
  /\ UNCHANGED <<mutex, pc, call, visit, result, history>>

Step(t) ==
  \/ \E c \in Calls : Invoke(t, c)
  \/ LockUnique(t) \/ LockShared(t) \/ Unlock(t)
  \/ PutInsert(t) \/ GetRead(t)
  \/ TakeMiss(t) \/ TakeFind(t) \/ TakeErase(t)
  \/ \E k \in Keys : SweepStep(t, k) \/ ListStep(t, k)
  \/ LoopEnds(t)

Next == Tick \/ \E t \in Threads : Step(t)

Spec == Init /\ [][Next]_vars
-----------------------------------------------------------------------------
Pairs == Keys \X Values

(* The type of the store's state. *)
TypeOK ==
  /\ entries \in [Keys -> Entries \cup {NoEntry}]
  /\ writer \in Threads \cup {NoThread} /\ readers \subseteq Threads
  /\ pc \in [Threads -> {"idle", "lock", "body", "erase", "unlock"}]
  /\ call \in [Threads -> Calls \cup {NoCall}]
  /\ visit \in [Threads -> SUBSET Keys]
  /\ result \in [Threads -> SUBSET Pairs]
  /\ spent \subseteq Keys
  /\ seen \in [Threads -> SUBSET Pairs]

(* "une fois take, une 2e tentative ne trouve plus rien": once a take has  *)
(* answered with an entry, no take, get or list_prefix of any thread hands *)
(* that key out until it is put again, however the calls interleave.       *)
SingleUse ==
  [][\A t \in Threads : \A p \in result'[t] \ result[t] : p[1] \notin spent]_vars

(* list_prefix is not a snapshot (each entry is tested against a later     *)
(* now()), but its answer is bounded on both sides: it lacks no entry that *)
(* is still live on return, and holds none outside the prefix or that was  *)
(* not live when the call got the lock.                                    *)
ListBounds ==
  \A t \in Threads :
    pc[t] = "unlock" /\ call[t].op = "list" =>
      LET under == KeysUnder[call[t].prefix] \X Values
      IN  /\ LivePairs \cap under \subseteq result[t]
          /\ result[t] \subseteq seen[t] \cap under

(* The abstract map: expired entries are gone, and so is an entry whose    *)
(* value a take has moved out but not yet erased.                          *)
Erasing(k) == \E t \in Threads : pc[t] = "erase" /\ call[t].key = k
MapCall(t) == call[t].op \in {"put", "get", "take"}

absLive == [k \in Keys |->
              IF IsExpired(entries[k]) \/ Erasing(k) THEN NoEntry ELSE entries[k]]
absStatus == [t \in Threads |->
                IF ~MapCall(t) THEN "idle"
                ELSE IF pc[t] \in {"lock", "body"} THEN "pending" ELSE "done"]
absCall == [t \in Threads |-> IF MapCall(t) THEN call[t] ELSE NoCall]
absResult == [t \in Threads |-> IF MapCall(t) THEN result[t] ELSE {}]

Map == INSTANCE TtlMap WITH live <- absLive, status <- absStatus,
                            call <- absCall, result <- absResult

(* put, get and take of the locked, lazily expiring store are atomic       *)
(* operations of the abstract TTL map, and sweeping is invisible to them.  *)
ImplementsTtlMap == Map!Spec
=============================================================================
