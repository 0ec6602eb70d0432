-------------------------- MODULE SharedStoreProofs --------------------------
(* Proofs, for any number of threads, keys and values and any time to live,*)
(* of what SharedStore states: its types, single use, the bounds of a list *)
(* and the refinement of TtlMap.                                           *)
EXTENDS SharedStore, TLAPS

Held(t) == pc[t] \in {"body", "erase", "unlock"}

(* mutex_ is held as the calls in progress require, and excludes: whoever  *)
(* holds it unique is alone.                                               *)
LockInv ==
  /\ \A t \in Threads :
       /\ pc[t] = "idle" <=> call[t] = NoCall
       /\ writer = t <=> Held(t) /\ call[t].op \in Exclusive
       /\ t \in readers <=> Held(t) /\ call[t].op \notin Exclusive
       /\ pc[t] = "erase" => call[t].op = "take"
  /\ writer # NoThread => readers = {}

(* A spent key has no entry, save while the take that spent it erases it.  *)
SpentInv == \A k \in spent : entries[k] = NoEntry \/ Erasing(k)

(* What a loop over the entries has found and has still to find. *)
ListInv ==
  \A t \in Threads :
    Held(t) /\ call[t].op = "list" =>
      LET under == KeysUnder[call[t].prefix] IN
      /\ LivePairs \subseteq seen[t]
      /\ \A k \in visit[t] : entries[k] # NoEntry
      /\ \A p \in result[t] : p \in seen[t] /\ p[1] \in under
      /\ \A k \in under : Found(k) =>
           k \in visit[t] \/ <<k, entries[k].value>> \in result[t]
      /\ pc[t] = "unlock" => visit[t] = {}

(* A call that has not found anything yet answers with nothing. *)
ResultInv ==
  \A t \in Threads :
    pc[t] \in {"idle", "lock"} \/ (pc[t] = "body" /\ call[t].op # "list") =>
      result[t] = {}

Inv == TypeOK /\ LockInv /\ SpentInv /\ ListInv /\ ResultInv
-----------------------------------------------------------------------------
(* What the type of a call says of its fields. *)
LEMMA CallFields ==
  ASSUME NEW c \in Calls \cup {NoCall}
  PROVE  /\ c.op \in {"put", "get", "take", "list", "sweep", "none"}
         /\ c.op = "none" <=> c = NoCall
         /\ c.op = "put" => c \in PutCalls
         /\ c.op \in {"get", "take"} => c \in KeyCalls
         /\ c.op = "list" => c \in ListCalls
         /\ c.op \in {"put", "get", "take"} => c.key \in Keys
         /\ c.op = "put" => c.value \in Values /\ c.ttl \in 0..MaxTtl
         /\ c.op = "list" => c.prefix \in Prefixes
  BY DEF Calls, PutCalls, KeyCalls, ListCalls, SweepCalls, NoCall

(* What the type of an entry says of its fields. *)
LEMMA EntryFields ==
  ASSUME NEW e \in Entries \cup {NoEntry}
  PROVE  /\ e.left \in 0..MaxTtl
         /\ e # NoEntry => e \in Entries /\ e.value \in Values
         /\ ~IsExpired(e) => e # NoEntry
  BY StoreAssumption DEF Entries, NoEntry, IsExpired

(* Growing older neither revives an entry nor changes its value. *)
LEMMA AgedFields ==
  ASSUME NEW e \in Entries \cup {NoEntry}
  PROVE  /\ Aged(e).value = e.value
         /\ e # NoEntry => Aged(e) # NoEntry
         /\ ~IsExpired(Aged(e)) => ~IsExpired(e) /\ e # NoEntry
         /\ e.left <= 1 <=> IsExpired(Aged(e))
  BY StoreAssumption DEF Aged, Entries, NoEntry, IsExpired

(* The pairs found now are pairs. *)
LEMMA LivePairsType ==
  ASSUME entries \in [Keys -> Entries \cup {NoEntry}]
  PROVE  LivePairs \subseteq Pairs
  BY EntryFields DEF LivePairs, Pairs

(* Every step of the store keeps the types of its variables. *)
LEMMA TypeStep == TypeOK /\ [Next]_vars => TypeOK'
<1> SUFFICES ASSUME TypeOK, [Next]_vars PROVE TypeOK'
  OBVIOUS
<1> USE DEF Goto, mutex, history
<1>1. CASE Tick
  <2>1. ASSUME NEW k \in Keys
        PROVE  Aged(entries[k]) \in Entries \cup {NoEntry}
    BY StoreAssumption DEF TypeOK, Entries, NoEntry, Aged
  <2> QED  BY <1>1, <2>1 DEF Tick, TypeOK
<1>2. ASSUME NEW t \in Threads, Step(t) PROVE TypeOK'
  <2>1. CASE \E c \in Calls : Invoke(t, c)
    BY <2>1 DEF Invoke, TypeOK
  <2>2. CASE LockUnique(t)
    BY <2>2 DEF LockUnique, BeginLoop, TypeOK
  <2>3. CASE LockShared(t)
    BY <2>3, LivePairsType DEF LockShared, BeginLoop, TypeOK
  <2>4. CASE Unlock(t)
    BY <2>4 DEF Unlock, TypeOK
  <2>5. CASE PutInsert(t)
    BY <2>5, CallFields DEF PutInsert, TypeOK, Entries
  <2>6. CASE GetRead(t)
    BY <2>6, CallFields, EntryFields DEF GetRead, Found, TypeOK, Pairs
  <2>7. CASE TakeMiss(t)
    BY <2>7 DEF TakeMiss, TypeOK
  <2>8. CASE TakeFind(t)
    BY <2>8, CallFields, EntryFields DEF TakeFind, Found, TypeOK, Pairs
  <2>9. CASE TakeErase(t)
    BY <2>9 DEF TakeErase, TypeOK
  <2>10. CASE \E k \in Keys : SweepStep(t, k)
    BY <2>10 DEF SweepStep, TypeOK
  <2>11. CASE \E k \in Keys : ListStep(t, k)
    BY <2>11, EntryFields DEF ListStep, TypeOK, Pairs
  <2>12. CASE LoopEnds(t)
    BY <2>12 DEF LoopEnds, TypeOK
  <2> QED  BY <1>2, <2>1, <2>2, <2>3, <2>4, <2>5, <2>6, <2>7, <2>8, <2>9,
              <2>10, <2>11, <2>12 DEF Step
<1>3. CASE UNCHANGED vars
  BY <1>3 DEF vars, TypeOK
<1> QED  BY <1>1, <1>2, <1>3 DEF Next

(* SharedStore keeps the types of its state, whatever the calls. *)
THEOREM TypeCorrect == Spec => []TypeOK
<1>1. Init => TypeOK
  BY DEF Init, TypeOK
<1> QED  BY <1>1, TypeStep, PTL DEF Spec
-----------------------------------------------------------------------------
(* mutex_ excludes: at most one writer, and then no reader. *)
LEMMA LockStep == TypeOK /\ LockInv /\ [Next]_vars => LockInv'
<1> SUFFICES ASSUME TypeOK, LockInv, [Next]_vars PROVE LockInv'
  OBVIOUS
<1> USE DEF Goto, mutex, history, Held
<1>0. \A t \in Threads : call[t] \in Calls \cup {NoCall}
  BY DEF TypeOK
<1>1. CASE Tick
  BY <1>1 DEF Tick, LockInv
<1>2. ASSUME NEW t \in Threads, Step(t) PROVE LockInv'
  <2>1. ASSUME NEW c \in Calls, Invoke(t, c) PROVE LockInv'
    <3>1. c # NoCall
      BY DEF Calls, PutCalls, KeyCalls, ListCalls, SweepCalls, NoCall
    <3> QED  BY <2>1, <3>1 DEF Invoke, LockInv, TypeOK
  <2>2. CASE LockUnique(t)
    BY <2>2, <1>0, StoreAssumption DEF LockUnique, LockInv, TypeOK
  <2>3. CASE LockShared(t)
    BY <2>3, <1>0, StoreAssumption DEF LockShared, LockInv, TypeOK
  <2>4. CASE Unlock(t)
    BY <2>4, <1>0, StoreAssumption DEF Unlock, LockInv, TypeOK
  <2>5. CASE PutInsert(t)
    BY <2>5 DEF PutInsert, LockInv, TypeOK
  <2>6. CASE GetRead(t)
    BY <2>6 DEF GetRead, LockInv, TypeOK
  <2>7. CASE TakeMiss(t)
    BY <2>7 DEF TakeMiss, LockInv, TypeOK
  <2>8. CASE TakeFind(t)
    BY <2>8 DEF TakeFind, LockInv, TypeOK
  <2>9. CASE TakeErase(t)
    BY <2>9 DEF TakeErase, LockInv, TypeOK
  <2>10. CASE \E k \in Keys : SweepStep(t, k)
    BY <2>10 DEF SweepStep, LockInv, TypeOK
  <2>11. CASE \E k \in Keys : ListStep(t, k)
    BY <2>11 DEF ListStep, LockInv, TypeOK
  <2>12. CASE LoopEnds(t)
    BY <2>12 DEF LoopEnds, LockInv, TypeOK
  <2> QED  BY <1>2, <2>1, <2>2, <2>3, <2>4, <2>5, <2>6, <2>7, <2>8, <2>9,
              <2>10, <2>11, <2>12 DEF Step
<1>3. CASE UNCHANGED vars
  BY <1>3 DEF vars, LockInv
<1> QED  BY <1>1, <1>2, <1>3 DEF Next

(* While one thread is between its lock and its return, no other thread is *)
(* inside an operation that excludes it.                                   *)
LEMMA Alone ==
  ASSUME TypeOK, LockInv, NEW t \in Threads, NEW u \in Threads,
         Held(t), Held(u), call[t].op \in Exclusive
  PROVE  u = t
  BY StoreAssumption DEF LockInv, TypeOK

(* A key that was taken stays without an entry until it is put again. *)
LEMMA SpentStep == TypeOK /\ LockInv /\ SpentInv /\ [Next]_vars => SpentInv'
<1> SUFFICES ASSUME TypeOK, LockInv, SpentInv, [Next]_vars PROVE SpentInv'
  OBVIOUS
<1> USE DEF Goto, mutex, history, SpentInv, Erasing
<1>1. CASE Tick
  BY <1>1 DEF Tick, TypeOK, NoEntry, Aged
<1>2. ASSUME NEW t \in Threads, Step(t) PROVE SpentInv'
  <2>1. ASSUME NEW c \in Calls, Invoke(t, c) PROVE SpentInv'
    BY <2>1 DEF Invoke, TypeOK
  <2>2. CASE LockUnique(t) \/ LockShared(t)
    BY <2>2 DEF LockUnique, LockShared, TypeOK
  <2>4. CASE Unlock(t)
    BY <2>4 DEF Unlock, TypeOK
  <2>5. CASE PutInsert(t)
    BY <2>5 DEF PutInsert, TypeOK
  <2>6. CASE GetRead(t) \/ TakeMiss(t) \/ LoopEnds(t)
    BY <2>6 DEF GetRead, TakeMiss, LoopEnds, TypeOK
  <2>8. CASE TakeFind(t)
    BY <2>8 DEF TakeFind, TypeOK
  <2>9. CASE TakeErase(t)
    BY <2>9 DEF TakeErase, TypeOK
  <2>10. ASSUME NEW k \in Keys, SweepStep(t, k) PROVE SpentInv'
    BY <2>10 DEF SweepStep, TypeOK
  <2>11. ASSUME NEW k \in Keys, ListStep(t, k) PROVE SpentInv'
    BY <2>11 DEF ListStep, TypeOK
  <2> QED  BY <1>2, <2>1, <2>2, <2>4, <2>5, <2>6, <2>8, <2>9, <2>10, <2>11
           DEF Step
<1>3. CASE UNCHANGED vars
  BY <1>3 DEF vars
<1> QED  BY <1>1, <1>2, <1>3 DEF Next

(* An operation that has found nothing yet has no answer. *)
LEMMA ResultStep == TypeOK /\ LockInv /\ ResultInv /\ [Next]_vars => ResultInv'
<1> SUFFICES ASSUME TypeOK, LockInv, ResultInv, [Next]_vars PROVE ResultInv'
  OBVIOUS
<1> USE DEF Goto, mutex, history, ResultInv
<1>1. CASE Tick
  BY <1>1 DEF Tick
<1>2. ASSUME NEW t \in Threads, Step(t) PROVE ResultInv'
  <2>1. ASSUME NEW c \in Calls, Invoke(t, c) PROVE ResultInv'
    BY <2>1 DEF Invoke, TypeOK
  <2>2. CASE LockUnique(t) \/ LockShared(t)
    BY <2>2 DEF LockUnique, LockShared, TypeOK
  <2>4. CASE Unlock(t)
    BY <2>4 DEF Unlock, TypeOK
  <2>5. CASE PutInsert(t) \/ TakeErase(t)
    BY <2>5 DEF PutInsert, TakeErase, TypeOK
  <2>6. CASE GetRead(t) \/ TakeMiss(t) \/ LoopEnds(t)
    BY <2>6 DEF GetRead, TakeMiss, LoopEnds, TypeOK
  <2>8. CASE TakeFind(t)
    BY <2>8 DEF TakeFind, TypeOK
  <2>10. ASSUME NEW k \in Keys, SweepStep(t, k) PROVE ResultInv'
    BY <2>10 DEF SweepStep, TypeOK
  <2>11. ASSUME NEW k \in Keys, ListStep(t, k) PROVE ResultInv'
    BY <2>11 DEF ListStep, TypeOK
  <2> QED  BY <1>2, <2>1, <2>2, <2>4, <2>5, <2>6, <2>8, <2>10, <2>11 DEF Step
<1>3. CASE UNCHANGED vars
  BY <1>3 DEF vars
<1> QED  BY <1>1, <1>2, <1>3 DEF Next
-----------------------------------------------------------------------------
(* The conjunct of ListInv about thread u. *)
ListInvOf(u) ==
  Held(u) /\ call[u].op = "list" =>
    LET under == KeysUnder[call[u].prefix] IN
    /\ LivePairs \subseteq seen[u]
    /\ \A k \in visit[u] : entries[k] # NoEntry
    /\ \A p \in result[u] : p \in seen[u] /\ p[1] \in under
    /\ \A k \in under : Found(k) =>
         k \in visit[u] \/ <<k, entries[k].value>> \in result[u]
    /\ pc[u] = "unlock" => visit[u] = {}

(* A step of another thread cannot disturb a list in progress as long as   *)
(* it leaves the entries alone, and only a holder of the unique lock does  *)
(* not.                                                                    *)
LEMMA ListFrame ==
  ASSUME NEW u \in Threads, ListInvOf(u), entries' = entries,
         pc'[u] = pc[u], call'[u] = call[u], visit'[u] = visit[u],
         result'[u] = result[u], seen'[u] = seen[u]
  PROVE  ListInvOf(u)'
  BY DEF ListInvOf, Held, LivePairs, Found, IsExpired

(* Every step keeps the account a list has of the entries. *)
LEMMA ListInvStep ==
  TypeOK /\ LockInv /\ ResultInv /\ ListInv /\ [Next]_vars => ListInv'
<1> SUFFICES ASSUME TypeOK, LockInv, ResultInv, ListInv, [Next]_vars,
                    NEW u \in Threads
             PROVE  ListInvOf(u)'
  BY DEF ListInv, ListInvOf
<1> USE DEF Goto, mutex, history
<1>0. ListInvOf(u)
  BY DEF ListInv, ListInvOf
<1>1. CASE Tick
  <2>1. \A k \in Keys : /\ entries[k] # NoEntry => entries'[k] # NoEntry
                        /\ entries'[k].value = entries[k].value
                        /\ Found(k)' => Found(k)
    BY <1>1, AgedFields DEF Tick, TypeOK, Found
  <2>2. LivePairs' \subseteq LivePairs
    BY <2>1 DEF LivePairs, Found
  <2>3. call[u].op = "list" => KeysUnder[call[u].prefix] \subseteq Keys
    BY CallFields, StoreAssumption DEF TypeOK
  <2>4. Held(u)' => Held(u)
    BY <1>1 DEF Tick, Held
  <2> QED  BY <1>0, <1>1, <2>1, <2>2, <2>3, <2>4 DEF Tick, ListInvOf, TypeOK
<1>2. ASSUME NEW t \in Threads, Step(t) PROVE ListInvOf(u)'
  <2>1. ASSUME NEW c \in Calls, Invoke(t, c) PROVE ListInvOf(u)'
    <3>1. CASE u = t
      BY <2>1, <3>1 DEF Invoke, ListInvOf, Held, TypeOK
    <3>2. CASE u # t
      BY <2>1, <3>2, <1>0, ListFrame DEF Invoke, TypeOK
    <3> QED  BY <3>1, <3>2
  <2>2. CASE LockUnique(t)
    <3>1. CASE u = t
      BY <2>2, <3>1 DEF LockUnique, Exclusive, ListInvOf, TypeOK
    <3>2. CASE u # t
      BY <2>2, <3>2, <1>0, ListFrame DEF LockUnique, BeginLoop, TypeOK
    <3> QED  BY <3>1, <3>2
  <2>3. CASE LockShared(t)
    <3>1. CASE u = t
      <4>1. result[t] = {}
        BY <2>3 DEF LockShared, ResultInv
      <4>2. LivePairs' = LivePairs /\ \A k : Found(k)' <=> Found(k)
        BY <2>3 DEF LockShared, LivePairs, Found
      <4>3. call[t].op = "list" => KeysUnder[call[t].prefix] \subseteq Keys
        BY CallFields, StoreAssumption DEF TypeOK
      <4> QED  BY <2>3, <3>1, <4>1, <4>2, <4>3
               DEF LockShared, BeginLoop, ListInvOf, Found, TypeOK
    <3>2. CASE u # t
      BY <2>3, <3>2, <1>0, ListFrame DEF LockShared, BeginLoop, TypeOK
    <3> QED  BY <3>1, <3>2
  <2>4. CASE Unlock(t)
    <3>1. CASE u = t
      BY <2>4, <3>1 DEF Unlock, ListInvOf, Held, TypeOK
    <3>2. CASE u # t
      BY <2>4, <3>2, <1>0, ListFrame DEF Unlock, TypeOK
    <3> QED  BY <3>1, <3>2
  <2>5. CASE \/ PutInsert(t) \/ TakeErase(t) \/ \E k \in Keys : SweepStep(t, k)
    <3>1. Held(t) /\ call[t].op \in Exclusive
      BY <2>5 DEF PutInsert, TakeErase, SweepStep, Held, Exclusive, LockInv
    <3>2. pc'[u] = "idle" \/ pc'[u] = "lock" \/ call'[u].op # "list"
      <4>1. CASE u = t
        BY <2>5, <4>1, <3>1 DEF PutInsert, TakeErase, SweepStep, Exclusive
      <4>2. CASE u # t
        <5>1. pc'[u] = pc[u]
          BY <2>5, <4>2 DEF PutInsert, TakeErase, SweepStep, TypeOK
        <5>2. ~Held(u)
          BY <3>1, <4>2, Alone
        <5> QED  BY <5>1, <5>2 DEF Held, TypeOK
      <4> QED  BY <4>1, <4>2
    <3> QED  BY <3>2 DEF ListInvOf, Held
  <2>6. CASE GetRead(t) \/ TakeMiss(t) \/ TakeFind(t)
    <3>1. CASE u = t
      BY <2>6, <3>1 DEF GetRead, TakeMiss, TakeFind, ListInvOf
    <3>2. CASE u # t
      BY <2>6, <3>2, <1>0, ListFrame DEF GetRead, TakeMiss, TakeFind, TypeOK
    <3> QED  BY <3>1, <3>2
  <2>7. ASSUME NEW k \in Keys, ListStep(t, k) PROVE ListInvOf(u)'
    <3>1. CASE u = t
      <4>1. LivePairs' = LivePairs /\ \A j : Found(j)' <=> Found(j)
        BY <2>7 DEF ListStep, LivePairs, Found
      <4>2. Found(k) <=> ~IsExpired(entries[k])
        BY <2>7, EntryFields DEF Found, TypeOK
      <4>3. Found(k) => <<k, entries[k].value>> \in LivePairs
        BY DEF Found, LivePairs
      <4> QED  BY <2>7, <3>1, <1>0, <4>1, <4>2, <4>3
               DEF ListStep, ListInvOf, Held, TypeOK
    <3>2. CASE u # t
      BY <2>7, <3>2, <1>0, ListFrame DEF ListStep, TypeOK
    <3> QED  BY <3>1, <3>2
  <2>8. CASE LoopEnds(t)
    <3>1. CASE u = t
      <4>1. LivePairs' = LivePairs /\ \A j : Found(j)' <=> Found(j)
        BY <2>8 DEF LoopEnds, LivePairs, Found
      <4> QED  BY <2>8, <3>1, <1>0, <4>1 DEF LoopEnds, ListInvOf, Held, TypeOK
    <3>2. CASE u # t
      BY <2>8, <3>2, <1>0, ListFrame DEF LoopEnds, TypeOK
    <3> QED  BY <3>1, <3>2
  <2> QED  BY <1>2, <2>1, <2>2, <2>3, <2>4, <2>5, <2>6, <2>7, <2>8 DEF Step
<1>3. CASE UNCHANGED vars
  BY <1>0, <1>3, ListFrame DEF vars
<1> QED  BY <1>1, <1>2, <1>3 DEF Next

(* Inv is an inductive invariant of the store. *)
THEOREM StoreInvariant == Spec => []Inv
<1>1. Init => Inv
  BY StoreAssumption
     DEF Init, Inv, TypeOK, LockInv, SpentInv, ListInv, ResultInv, Held, NoCall
<1>2. Inv /\ [Next]_vars => Inv'
  BY TypeStep, LockStep, SpentStep, ListInvStep, ResultStep DEF Inv
<1> QED  BY <1>1, <1>2, PTL DEF Spec

(* list_prefix answers within its bounds, for any number of threads. *)
THEOREM ListBounded == Spec => []ListBounds
<1>1. Inv => ListBounds
  <2> SUFFICES ASSUME Inv, NEW t \in Threads,
                      pc[t] = "unlock", call[t].op = "list"
               PROVE  LET under == KeysUnder[call[t].prefix] \X Values
                      IN  /\ LivePairs \cap under \subseteq result[t]
                          /\ result[t] \subseteq seen[t] \cap under
    BY DEF ListBounds
  <2> DEFINE under == KeysUnder[call[t].prefix]
  <2>1. /\ \A p \in result[t] : p \in seen[t] /\ p[1] \in under
        /\ \A k \in under : Found(k) => <<k, entries[k].value>> \in result[t]
    BY DEF Inv, ListInv, Held
  <2>2. \A p \in result[t] : p \in Keys \X Values
    BY DEF Inv, TypeOK, Pairs
  <2>3. \A p \in LivePairs : p[1] \in under => p \in result[t]
    BY <2>1 DEF LivePairs, Found
  <2> QED  BY <2>1, <2>2, <2>3
<1> QED  BY <1>1, StoreInvariant, PTL

(* What a take has answered with is never handed out again before a put:   *)
(* the single use of tickets and session tokens.                           *)
THEOREM TakenOnce == Spec => SingleUse
<1> DEFINE Fresh ==
      \A t \in Threads : \A p \in result'[t] \ result[t] : p[1] \notin spent
<1>1. ASSUME Inv, [Next]_vars PROVE [Fresh]_vars
  <2>1. CASE UNCHANGED vars
    BY <2>1
  <2>2. CASE Tick
    BY <2>2 DEF Tick
  <2>3. ASSUME NEW u \in Threads, Step(u),
               NEW t \in Threads, NEW p \in result'[t] \ result[t]
        PROVE  p[1] \notin spent
    <3> USE <1>1, <2>3 DEF Inv, TypeOK, Goto, history, mutex
    <3>1. u = t
      BY DEF Step, Invoke, LockUnique, LockShared, Unlock, PutInsert, GetRead,
             TakeMiss, TakeFind, TakeErase, SweepStep, ListStep, LoopEnds
    <3>2. /\ pc[t] = "body" /\ Found(p[1])
          /\ p[1] \in Keys
      <4>1. \/ GetRead(t) \/ TakeFind(t) \/ \E k \in Keys : ListStep(t, k)
        BY <3>1 DEF Step, Invoke, LockUnique, LockShared, Unlock, PutInsert,
                    TakeMiss, TakeErase, SweepStep, LoopEnds
      <4>2. CASE GetRead(t)
        BY <4>2, CallFields DEF GetRead
      <4>3. CASE TakeFind(t)
        BY <4>3, CallFields DEF TakeFind
      <4>4. ASSUME NEW k \in Keys, ListStep(t, k)
            PROVE  pc[t] = "body" /\ Found(p[1]) /\ p[1] \in Keys
        <5>1. p = <<k, entries[k].value>> /\ ~IsExpired(entries[k])
          BY <4>4 DEF ListStep
        <5> QED  BY <4>4, <5>1, EntryFields DEF ListStep, Found
      <4> QED  BY <4>1, <4>2, <4>3, <4>4
    <3>3. ASSUME NEW w \in Threads, pc[w] = "erase" PROVE FALSE
      BY <3>2, <3>3, Alone DEF Held, LockInv, Exclusive
    <3> QED  BY <3>2, <3>3 DEF SpentInv, Erasing, Found
  <2> QED  BY <1>1, <2>1, <2>2, <2>3 DEF Next
<1> QED  BY <1>1, StoreInvariant, PTL DEF Spec, SingleUse
-----------------------------------------------------------------------------
(* What the abstract map holds for a key no take is erasing. *)
LEMMA AbsentIffNotFound ==
  ASSUME TypeOK, NEW k \in Keys, ~Erasing(k)
  PROVE  /\ absLive[k] = NoEntry <=> ~Found(k)
         /\ Found(k) => absLive[k] = entries[k]
  BY EntryFields DEF absLive, Found, TypeOK

(* A step of thread t leaves the other threads' part of the abstract map. *)
LEMMA OthersKeepStatus ==
  ASSUME NEW t \in Threads,
         \A u \in Threads \ {t} : /\ pc'[u] = pc[u] /\ call'[u] = call[u]
                                  /\ result'[u] = result[u]
  PROVE  \A u \in Threads \ {t} : /\ absStatus'[u] = absStatus[u]
                                  /\ absCall'[u] = absCall[u]
                                  /\ absResult'[u] = absResult[u]
  BY DEF absStatus, absCall, absResult, MapCall

(* A step that keeps the abstract components one by one is a stutter of    *)
(* the abstract map.                                                       *)
LEMMA AbsStutter ==
  ASSUME NEW t \in Threads,
         \A u \in Threads \ {t} : /\ pc'[u] = pc[u] /\ call'[u] = call[u]
                                  /\ result'[u] = result[u],
         /\ absStatus'[t] = absStatus[t] /\ absCall'[t] = absCall[t]
         /\ absResult'[t] = absResult[t],
         \A k \in Keys : absLive'[k] = absLive[k]
  PROVE  UNCHANGED Map!vars
<1>1. /\ \A u \in Threads : absStatus'[u] = absStatus[u]
      /\ \A u \in Threads : absCall'[u] = absCall[u]
      /\ \A u \in Threads : absResult'[u] = absResult[u]
  BY OthersKeepStatus
<1>2. absStatus' = absStatus
  BY <1>1 DEF absStatus
<1>3. absCall' = absCall
  BY <1>1 DEF absCall
<1>4. absResult' = absResult
  BY <1>1 DEF absResult
<1>5. absLive' = absLive
  BY DEF absLive
<1> QED  BY <1>2, <1>3, <1>4, <1>5 DEF Map!vars

(* Every step of the locked, lazily expiring store is one step of the      *)
(* abstract map or none.                                                   *)
LEMMA RefinementStep == Inv /\ [Next]_vars => [Map!Next]_Map!vars
<1> SUFFICES ASSUME Inv, [Next]_vars PROVE [Map!Next]_Map!vars
  OBVIOUS
<1> USE DEF Goto, mutex, history
<1>0. TypeOK /\ LockInv /\ ResultInv
  BY DEF Inv
<1>1. CASE Tick
  <2>1. \A k : Erasing(k)' <=> Erasing(k)
    BY <1>1 DEF Tick, Erasing
  <2>2. \A k \in Keys :
          absLive'[k] = IF absLive[k].left <= 1 THEN NoEntry
                        ELSE [value |-> absLive[k].value,
                              left |-> absLive[k].left - 1]
    <3> SUFFICES ASSUME NEW k \in Keys
                 PROVE  absLive'[k] =
                          IF absLive[k].left <= 1 THEN NoEntry
                          ELSE [value |-> absLive[k].value,
                                left |-> absLive[k].left - 1]
      OBVIOUS
    <3>1. /\ entries'[k] = Aged(entries[k])
          /\ IsExpired(entries'[k]) <=> entries[k].left <= 1
          /\ entries[k].left \in Nat
      BY <1>0, <1>1, AgedFields, EntryFields, StoreAssumption DEF Tick, TypeOK
    <3>2. NoEntry.left = 0
      BY DEF NoEntry
    <3> QED  BY <2>1, <3>1, <3>2 DEF absLive, IsExpired, Aged
  <2>3. UNCHANGED <<absStatus, absCall, absResult>>
    BY <1>1 DEF Tick, absStatus, absCall, absResult, MapCall
  <2>4. absLive' = [k \in Keys |->
                      IF absLive[k].left <= 1 THEN NoEntry
                      ELSE [value |-> absLive[k].value,
                            left |-> absLive[k].left - 1]]
    BY <2>2 DEF absLive
  <2> QED  BY <2>3, <2>4 DEF Map!Next, Map!Tick, Map!Absent, NoEntry
<1>2. ASSUME NEW t \in Threads, Step(t) PROVE [Map!Next]_Map!vars
  <2>0. /\ \A u \in Threads \ {t} : /\ pc'[u] = pc[u] /\ call'[u] = call[u]
                                    /\ result'[u] = result[u]
        /\ call[t] \in Calls \cup {NoCall}
    BY <1>0, <1>2 DEF TypeOK, Step, Invoke, LockUnique, LockShared, Unlock,
          PutInsert, GetRead, TakeMiss, TakeFind, TakeErase, SweepStep,
          ListStep, LoopEnds
  <2>a. \A u \in Threads \ {t} : /\ absStatus'[u] = absStatus[u]
                                 /\ absCall'[u] = absCall[u]
                                 /\ absResult'[u] = absResult[u]
    BY <2>0, OthersKeepStatus
  <2>1. ASSUME NEW c \in Calls, Invoke(t, c) PROVE [Map!Next]_Map!vars
    <3>1. /\ pc[t] = "idle" /\ pc'[t] = "lock" /\ call[t] = NoCall
          /\ call'[t] = c /\ entries' = entries /\ result' = result
          /\ result[t] = {}
      BY <1>0, <2>1 DEF Invoke, TypeOK, LockInv, ResultInv
    <3>2. \A k \in Keys : absLive'[k] = absLive[k]
      BY <3>1, <2>0 DEF absLive, Erasing
    <3>3. CASE c \in PutCalls \cup KeyCalls
      <4>1. c.op \in {"put", "get", "take"}
        BY <3>3 DEF PutCalls, KeyCalls
      <4>2. /\ absStatus[t] = "idle" /\ absStatus'[t] = "pending"
            /\ absCall'[t] = c /\ absResult'[t] = absResult[t]
        BY <3>1, <4>1 DEF absStatus, absCall, absResult, MapCall, NoCall
      <4>3. /\ absStatus' = [absStatus EXCEPT ![t] = "pending"]
            /\ absCall' = [absCall EXCEPT ![t] = c]
        BY <2>a, <4>2 DEF absStatus, absCall
      <4>4. absResult' = absResult /\ absLive' = absLive
        BY <2>a, <3>2, <4>2 DEF absResult, absLive
      <4> QED  BY <3>3, <4>2, <4>3, <4>4
               DEF Map!Next, Map!Invoke, Map!PutCalls, Map!KeyCalls,
                   PutCalls, KeyCalls
    <3>4. CASE c \in ListCalls \cup SweepCalls
      <4>1. c.op \notin {"put", "get", "take"}
        BY <3>4 DEF ListCalls, SweepCalls
      <4>2. UNCHANGED Map!vars
        BY <2>0, <3>1, <3>2, <4>1, AbsStutter
           DEF absStatus, absCall, absResult, MapCall, NoCall
      <4> QED  BY <4>2
    <3> QED  BY <3>3, <3>4 DEF Calls
  <2>2. CASE LockUnique(t) \/ LockShared(t) \/ LoopEnds(t)
             \/ \E k \in Keys : SweepStep(t, k) \/ ListStep(t, k)
    <3>1. /\ absStatus'[t] = absStatus[t] /\ absCall'[t] = absCall[t]
          /\ absResult'[t] = absResult[t]
      BY <1>0, <2>2 DEF TypeOK, absStatus, absCall, absResult, MapCall,
                        LockUnique, LockShared, LoopEnds, SweepStep, ListStep
    <3>2. \A k : Erasing(k)' <=> Erasing(k)
      BY <1>0, <2>2 DEF TypeOK, Erasing, LockUnique, LockShared, LoopEnds,
                        SweepStep, ListStep
    <3>3. \A k \in Keys :
            \/ entries'[k] = entries[k]
            \/ IsExpired(entries[k]) /\ IsExpired(entries'[k])
      BY <1>0, <2>2 DEF TypeOK, LockUnique, LockShared, LoopEnds, SweepStep,
                        ListStep, IsExpired, NoEntry
    <3>4. \A k \in Keys : absLive'[k] = absLive[k]
      BY <3>2, <3>3 DEF absLive
    <3> QED  BY <2>0, <3>1, <3>4, AbsStutter
  <2>3. CASE Unlock(t)
    <3>1. /\ pc[t] = "unlock" /\ pc'[t] = "idle" /\ call'[t] = NoCall
          /\ result'[t] = {} /\ entries' = entries
      BY <1>0, <2>3 DEF Unlock, TypeOK
    <3>2. \A k \in Keys : absLive'[k] = absLive[k]
      BY <3>1, <2>0 DEF absLive, Erasing
    <3>3. absStatus'[t] = "idle" /\ absCall'[t] = NoCall /\ absResult'[t] = {}
      BY <3>1 DEF absStatus, absCall, absResult, MapCall, NoCall
    <3>4. CASE MapCall(t)
      <4>1. absStatus[t] = "done"
        BY <3>1, <3>4 DEF absStatus
      <4>2. /\ absStatus' = [absStatus EXCEPT ![t] = "idle"]
            /\ absCall' = [absCall EXCEPT ![t] = NoCall]
            /\ absResult' = [absResult EXCEPT ![t] = {}]
            /\ absLive' = absLive
        BY <2>a, <3>2, <3>3 DEF absStatus, absCall, absResult, absLive
      <4> QED  BY <4>1, <4>2 DEF Map!Next, Map!Return, Map!NoCall, NoCall
    <3>5. CASE ~MapCall(t)
      <4>1. /\ absStatus[t] = "idle" /\ absCall[t] = NoCall
            /\ absResult[t] = {}
        BY <3>5 DEF absStatus, absCall, absResult
      <4> QED  BY <2>0, <3>2, <3>3, <4>1, AbsStutter
    <3> QED  BY <3>4, <3>5
  <2>4. CASE PutInsert(t)
    <3> DEFINE k == call[t].key
               e == [value |-> call[t].value, left |-> call[t].ttl]
    <3>1. /\ pc[t] = "body" /\ pc'[t] = "unlock" /\ call[t].op = "put"
          /\ call' = call /\ result' = result /\ k \in Keys
          /\ entries' = [entries EXCEPT ![k] = e]
      BY <1>0, <2>0, <2>4, CallFields DEF PutInsert, TypeOK
    <3>2. \A j : ~Erasing(j) /\ ~Erasing(j)'
      BY <1>0, <2>0, <3>1, Alone DEF Erasing, Held, Exclusive, LockInv
    <3>3. absLive' = [absLive EXCEPT ![k] = IF call[t].ttl = 0 THEN NoEntry ELSE e]
      BY <1>0, <3>1, <3>2 DEF absLive, IsExpired, TypeOK
    <3>4. /\ absStatus[t] = "pending" /\ absStatus'[t] = "done"
          /\ absCall[t] = call[t] /\ absCall' = absCall
          /\ absResult' = absResult
      BY <3>1 DEF absStatus, absCall, absResult, MapCall
    <3>5. absStatus' = [absStatus EXCEPT ![t] = "done"]
      BY <2>a, <3>4 DEF absStatus
    <3> QED  BY <3>1, <3>3, <3>4, <3>5
             DEF Map!Next, Map!Put, Map!Absent, NoEntry
  <2>5. CASE GetRead(t)
    <3> DEFINE k == call[t].key
               answer == IF Found(k) THEN {<<k, entries[k].value>>} ELSE {}
    <3>1. /\ pc[t] = "body" /\ pc'[t] = "unlock" /\ call[t].op = "get"
          /\ call' = call /\ entries' = entries /\ k \in Keys
          /\ result' = [result EXCEPT ![t] = answer]
      BY <1>0, <2>0, <2>5, CallFields DEF GetRead, TypeOK
    <3>2. \A j : ~Erasing(j) /\ ~Erasing(j)'
      BY <1>0, <2>0, <3>1, Alone DEF Erasing, Held, Exclusive, LockInv
    <3>3. absLive' = absLive
      BY <3>1, <3>2 DEF absLive
    <3>4. answer = IF absLive[k] = NoEntry THEN {} ELSE {<<k, absLive[k].value>>}
      BY <1>0, <3>1, <3>2, AbsentIffNotFound
    <3>5. /\ absStatus[t] = "pending" /\ absStatus'[t] = "done"
          /\ absCall[t] = call[t] /\ absCall' = absCall
          /\ absResult'[t] = answer
      BY <1>0, <3>1 DEF absStatus, absCall, absResult, MapCall, TypeOK
    <3>6. /\ absStatus' = [absStatus EXCEPT ![t] = "done"]
          /\ absResult' = [absResult EXCEPT ![t] = answer]
      BY <2>a, <3>5 DEF absStatus, absResult
    <3> QED  BY <3>1, <3>3, <3>4, <3>5, <3>6
             DEF Map!Next, Map!Get, Map!Answer, Map!Absent, NoEntry
  <2>6. CASE TakeMiss(t) \/ TakeFind(t)
    <3> DEFINE k == call[t].key
               answer == IF Found(k) THEN {<<k, entries[k].value>>} ELSE {}
    <3>1. /\ pc[t] = "body" /\ pc'[t] \in {"erase", "unlock"}
          /\ call[t].op = "take" /\ result[t] = {}
          /\ call' = call /\ entries' = entries /\ k \in Keys
          /\ pc'[t] = "erase" <=> Found(k)
          /\ result' = [result EXCEPT ![t] = answer]
      BY <1>0, <2>0, <2>6, CallFields DEF TakeMiss, TakeFind, TypeOK, ResultInv
    <3>2. \A j : ~Erasing(j) /\ (Erasing(j)' <=> j = k /\ Found(k))
      BY <1>0, <2>0, <3>1, Alone DEF Erasing, Held, Exclusive, LockInv
    <3>3. absLive' = [absLive EXCEPT ![k] = NoEntry]
      <4>1. \A j \in Keys \ {k} : absLive'[j] = absLive[j]
        BY <3>1, <3>2 DEF absLive
      <4>2. absLive'[k] = NoEntry
        BY <1>0, <3>1, <3>2 DEF absLive, Found, TypeOK
      <4> QED  BY <4>1, <4>2 DEF absLive
    <3>4. answer = IF absLive[k] = NoEntry THEN {} ELSE {<<k, absLive[k].value>>}
      BY <1>0, <3>1, <3>2, AbsentIffNotFound
    <3>5. /\ absStatus[t] = "pending" /\ absStatus'[t] = "done"
          /\ absCall[t] = call[t] /\ absCall' = absCall
          /\ absResult'[t] = answer
      BY <1>0, <3>1 DEF absStatus, absCall, absResult, MapCall, TypeOK
    <3>6. /\ absStatus' = [absStatus EXCEPT ![t] = "done"]
          /\ absResult' = [absResult EXCEPT ![t] = answer]
      BY <2>a, <3>5 DEF absStatus, absResult
    <3> QED  BY <3>1, <3>3, <3>4, <3>5, <3>6
             DEF Map!Next, Map!Take, Map!Answer, Map!Absent, NoEntry
  <2>7. CASE TakeErase(t)
    <3> DEFINE k == call[t].key
    <3>1. /\ pc[t] = "erase" /\ pc'[t] = "unlock" /\ call[t].op = "take"
          /\ call' = call /\ result' = result
          /\ entries' = [entries EXCEPT ![k] = NoEntry]
      BY <1>0, <2>7 DEF TakeErase, TypeOK, LockInv
    <3>2. \A j : (Erasing(j) <=> j = k) /\ ~Erasing(j)'
      BY <1>0, <2>0, <3>1, Alone DEF Erasing, Held, Exclusive, LockInv
    <3>3. \A j \in Keys : absLive'[j] = absLive[j]
      BY <1>0, <3>1, <3>2 DEF absLive, TypeOK
    <3>4. /\ absStatus'[t] = absStatus[t] /\ absCall'[t] = absCall[t]
          /\ absResult'[t] = absResult[t]
      BY <3>1 DEF absStatus, absCall, absResult, MapCall
    <3> QED  BY <2>0, <3>3, <3>4, AbsStutter
  <2> QED  BY <1>2, <2>1, <2>2, <2>3, <2>4, <2>5, <2>6, <2>7 DEF Step
<1>3. CASE UNCHANGED vars
  BY <1>3 DEF vars, Map!vars, absLive, absStatus, absCall, absResult,
              MapCall, Erasing
<1> QED  BY <1>1, <1>2, <1>3 DEF Next

(* The store implements the atomic TTL map, for any number of threads.     *)
THEOREM Implements == Spec => ImplementsTtlMap
<1>1. Init => Map!Init
  <2> SUFFICES ASSUME Init PROVE Map!Init
    OBVIOUS
  <2>1. \A t \in Threads : ~MapCall(t)
    BY DEF Init, MapCall, NoCall
  <2>2. \A k \in Keys : IsExpired(entries[k])
    BY DEF Init, NoEntry, IsExpired
  <2> QED  BY <2>1, <2>2 DEF Map!Init, Map!Absent, Map!NoCall, absLive,
                             absStatus, absCall, absResult, NoEntry, NoCall
<1> QED  BY <1>1, RefinementStep, StoreInvariant, PTL
         DEF Spec, ImplementsTtlMap, Map!Spec
=============================================================================
