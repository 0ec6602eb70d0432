--------------------------- MODULE RegistryProofs ---------------------------
(* Proofs about Registry, for any servers, intervals, times to live and    *)
(* durations of calls that RegistryAssumption admits: the entry of a dead  *)
(* server vanishes, and that of a living one is kept and comes back.       *)
(*                                                                         *)
(* Each property is about where one server is in its loop; its invariant   *)
(* says how much of the entry's life each place in the loop leaves.        *)
EXTENDS Registry, TLAPS

(* What a server that is down has left in the network was there when it    *)
(* ended, and its entry was not renewed later than that allows.            *)
DeadInv ==
  \A s \in Servers : ~Running(s) =>
    /\ \A age \in late[s] : calm[s] <= age
    /\ left[s] = 0 \/ left[s] + calm[s] <= Ttl + Delay

(* The life used up since the last call that was applied: the rest of that *)
(* call, a period for each failed one, and the present sleep or call.      *)
Periods(s) == misses[s] * (Interval + Delay)

Renewed(s, periods) ==
  /\ at[s] = "applied" => left[s] + clock[s] >= Ttl
  /\ at[s] = "sleeping" => left[s] + periods + Delay + Interval >= Ttl + clock[s]
  /\ at[s] = "calling" => left[s] + periods + Delay + Interval + clock[s] >= Ttl

LivingInv == \A s \in Servers : misses[s] < MissCap => Renewed(s, Periods(s))

(* Either no call has been applied since the last disturbance, which was   *)
(* then not long ago, or one has, a period ago at most.                    *)
RelistedInv ==
  \A s \in Servers : master = "up" =>
    /\ at[s] = "applied" => \/ left[s] + clock[s] >= Ttl
                            \/ calm[s] <= clock[s]
    /\ at[s] = "sleeping" => \/ left[s] + Delay + Interval >= Ttl + clock[s]
                             \/ calm[s] + clock[s] <= Interval + Delay
    /\ at[s] = "calling" => \/ left[s] + Delay + Interval + clock[s] >= Ttl
                            \/ calm[s] <= Interval + Delay + clock[s]
-----------------------------------------------------------------------------
(* The constants, as the provers need them. *)
LEMMA Constants ==
  /\ Interval \in Nat /\ Interval > 0 /\ Ttl \in Nat /\ Ttl > 0 /\ Delay \in Nat
  /\ MissCap \in Nat /\ CalmCap \in Nat
  /\ Interval + 2 * Delay < Ttl /\ CalmCap > Ttl + Delay
  BY RegistryAssumption

(* A step of the registry keeps the types of its variables. *)
LEMMA TypeStep == TypeOK /\ [Next]_vars => TypeOK'
<1> SUFFICES ASSUME TypeOK, [Next]_vars PROVE TypeOK'
  OBVIOUS
<1> USE Constants DEF TypeOK, Running, InCall, process, history
<1>1. ASSUME NEW u \in Servers, Step(u) PROVE TypeOK'
  <2>1. CASE Start(u)
    BY <2>1 DEF Start
  <2>2. CASE Beat(u)
    BY <2>2 DEF Beat
  <2>3. CASE Apply(u)
    BY <2>3 DEF Apply, Stored
  <2>4. CASE Answered(u)
    BY <2>4 DEF Answered, Sleep
  <2>5. CASE Fails(u)
    BY <2>5 DEF Fails, Abandon, Sleep
  <2>6. CASE End(u)
    BY <2>6 DEF End, Abandon
  <2>7. CASE \E age \in late[u] : ApplyLate(u, age)
    BY <2>7 DEF ApplyLate, Stored
  <2>8. CASE \E age \in late[u] : LoseLate(u, age)
    BY <2>8 DEF LoseLate
  <2>9. CASE Taken(u)
    BY <2>9 DEF Taken
  <2> QED  BY <1>1, <2>1, <2>2, <2>3, <2>4, <2>5, <2>6, <2>7, <2>8, <2>9 DEF Step
<1>2. CASE MasterEnds
  BY <1>2 DEF MasterEnds
<1>3. CASE MasterStarts
  BY <1>3 DEF MasterStarts
<1>4. CASE Tick
  BY <1>4 DEF Tick, Due, Aged
<1>5. CASE UNCHANGED vars
  BY <1>5 DEF vars
<1> QED  BY <1>1, <1>2, <1>3, <1>4, <1>5 DEF Next

(* A call that is applied late is no older than its process is dead. *)
LEMMA DeadInvStep == TypeOK /\ DeadInv /\ [Next]_vars => DeadInv'
<1> SUFFICES ASSUME TypeOK, DeadInv, [Next]_vars PROVE DeadInv'
  OBVIOUS
<1> USE Constants DEF TypeOK, DeadInv, Running, InCall, process, history
<1>1. ASSUME NEW u \in Servers, Step(u) PROVE DeadInv'
  <2>1. CASE Start(u)
    BY <2>1 DEF Start
  <2>2. CASE Beat(u)
    BY <2>2 DEF Beat
  <2>3. CASE Apply(u)
    BY <2>3 DEF Apply, Stored
  <2>4. CASE Answered(u)
    BY <2>4 DEF Answered, Sleep
  <2>5. CASE Fails(u)
    BY <2>5 DEF Fails, Abandon, Sleep
  <2>6. CASE End(u)
    BY <2>6 DEF End, Abandon
  <2>7. CASE \E age \in late[u] : ApplyLate(u, age)
    BY <2>7 DEF ApplyLate, Stored
  <2>8. CASE \E age \in late[u] : LoseLate(u, age)
    BY <2>8 DEF LoseLate
  <2>9. CASE Taken(u)
    BY <2>9 DEF Taken
  <2> QED  BY <1>1, <2>1, <2>2, <2>3, <2>4, <2>5, <2>6, <2>7, <2>8, <2>9 DEF Step
<1>2. CASE MasterEnds
  BY <1>2 DEF MasterEnds
<1>3. CASE MasterStarts
  BY <1>3 DEF MasterStarts
<1>4. CASE Tick
  BY <1>4 DEF Tick, Due, Aged
<1>5. CASE UNCHANGED vars
  BY <1>5 DEF vars
<1> QED  BY <1>1, <1>2, <1>3, <1>4, <1>5 DEF Next

(* A period without disturbance has an applied call in it. *)
LEMMA RelistedInvStep == TypeOK /\ RelistedInv /\ [Next]_vars => RelistedInv'
<1> SUFFICES ASSUME TypeOK, RelistedInv, [Next]_vars PROVE RelistedInv'
  OBVIOUS
<1> USE Constants DEF TypeOK, RelistedInv, Running, InCall, process, history
<1>1. ASSUME NEW u \in Servers, Step(u) PROVE RelistedInv'
  <2>1. CASE Start(u)
    BY <2>1 DEF Start
  <2>2. CASE Beat(u)
    BY <2>2 DEF Beat
  <2>3. CASE Apply(u)
    BY <2>3 DEF Apply, Stored
  <2>4. CASE Answered(u)
    BY <2>4 DEF Answered, Sleep
  <2>5. CASE Fails(u)
    BY <2>5 DEF Fails, Abandon, Sleep
  <2>6. CASE End(u)
    BY <2>6 DEF End, Abandon
  <2>7. CASE \E age \in late[u] : ApplyLate(u, age)
    BY <2>7 DEF ApplyLate, Stored
  <2>8. CASE \E age \in late[u] : LoseLate(u, age)
    BY <2>8 DEF LoseLate
  <2>9. CASE Taken(u)
    BY <2>9 DEF Taken
  <2> QED  BY <1>1, <2>1, <2>2, <2>3, <2>4, <2>5, <2>6, <2>7, <2>8, <2>9 DEF Step
<1>2. CASE MasterEnds
  BY <1>2 DEF MasterEnds
<1>3. CASE MasterStarts
  BY <1>3 DEF MasterStarts
<1>4. CASE Tick
  BY <1>4 DEF Tick, Due, Aged
<1>5. CASE UNCHANGED vars
  BY <1>5 DEF vars
<1> QED  BY <1>1, <1>2, <1>3, <1>4, <1>5 DEF Next

(* One more failed call uses up one more period. *)
LEMMA OnePeriodMore ==
  ASSUME NEW m \in Nat
  PROVE  /\ m * (Interval + Delay) \in Nat
         /\ (m + 1) * (Interval + Delay) = m * (Interval + Delay) + Interval + Delay
  BY Constants

(* A step that counts no miss of s is within its periods. *)
LEMMA SamePeriods ==
  ASSUME TypeOK, [Next]_vars, NEW s \in Servers, NEW p \in Nat,
         misses[s] < MissCap, misses'[s] = misses[s], Renewed(s, p)
  PROVE  Renewed(s, p)'
<1> USE Constants DEF TypeOK, Renewed, Running, InCall, process, history
<1>1. ASSUME NEW u \in Servers, Step(u) PROVE Renewed(s, p)'
  <2>1. CASE Start(u)
    BY <2>1 DEF Start
  <2>2. CASE Beat(u)
    BY <2>2 DEF Beat
  <2>3. CASE Apply(u)
    BY <2>3 DEF Apply, Stored
  <2>4. CASE Answered(u)
    BY <2>4 DEF Answered, Sleep
  <2>5. CASE Fails(u)
    BY <2>5 DEF Fails, Sleep
  <2>6. CASE End(u)
    BY <2>6 DEF End
  <2>7. CASE \E age \in late[u] : ApplyLate(u, age)
    BY <2>7 DEF ApplyLate, Stored
  <2>8. CASE \E age \in late[u] : LoseLate(u, age)
    BY <2>8 DEF LoseLate
  <2>9. CASE Taken(u)
    BY <2>9 DEF Taken
  <2> QED  BY <1>1, <2>1, <2>2, <2>3, <2>4, <2>5, <2>6, <2>7, <2>8, <2>9 DEF Step
<1>2. CASE MasterEnds
  BY <1>2 DEF MasterEnds
<1>3. CASE MasterStarts
  BY <1>3 DEF MasterStarts
<1>4. CASE Tick
  BY <1>4 DEF Tick, Due, Aged
<1>5. CASE UNCHANGED vars
  BY <1>5 DEF vars
<1> QED  BY <1>1, <1>2, <1>3, <1>4, <1>5 DEF Next

(* Only s itself, a take of its entry and the end of the Master change     *)
(* what s has missed.                                                      *)
LEMMA WhoMisses ==
  ASSUME TypeOK, [Next]_vars, NEW s \in Servers, misses'[s] # misses[s]
  PROVE  misses'[s] = MissCap \/ Apply(s) \/ (Fails(s) /\ at[s] = "calling")
<1> USE DEF TypeOK, process, history
<1>1. ASSUME NEW u \in Servers, Step(u)
      PROVE  misses'[s] = MissCap \/ Apply(s) \/ (Fails(s) /\ at[s] = "calling")
  <2>1. CASE Start(u)
    BY <2>1 DEF Start
  <2>2. CASE Apply(u)
    BY <2>2 DEF Apply
  <2>3. CASE Fails(u)
    BY <2>3 DEF Fails
  <2>4. CASE Taken(u)
    BY <2>4 DEF Taken
  <2>5. CASE misses' = misses
    BY <2>5
  <2> QED  BY <1>1, <2>1, <2>2, <2>3, <2>4, <2>5
           DEF Step, Beat, Answered, End, ApplyLate, LoseLate
<1> QED  BY <1>1 DEF Next, MasterEnds, MasterStarts, Tick, vars

(* No call uses up more of the entry's life than Periods says. *)
LEMMA LivingInvStep == TypeOK /\ LivingInv /\ [Next]_vars => LivingInv'
<1> SUFFICES ASSUME TypeOK, LivingInv, [Next]_vars,
                    NEW s \in Servers, misses'[s] < MissCap
             PROVE  Renewed(s, Periods(s))'
  BY DEF LivingInv
<1>1. misses[s] \in Nat /\ misses[s] <= MissCap /\ MissCap \in Nat
  BY Constants DEF TypeOK
<1>2. Periods(s) \in Nat
  BY <1>1, OnePeriodMore DEF Periods
<1>3. CASE misses'[s] = misses[s]
  <2>1. Renewed(s, Periods(s))
    BY <1>3 DEF LivingInv
  <2>2. PICK p \in Nat : p = Periods(s)
    BY <1>2
  <2>3. Renewed(s, p)'
    BY <1>3, <2>1, <2>2, SamePeriods
  <2>4. Periods(s)' = p
    BY <1>3, <2>2 DEF Periods
  <2> QED  BY <2>3, <2>4 DEF Renewed
<1>4. CASE Apply(s)
  BY <1>4, Constants DEF Apply, Stored, Renewed, TypeOK
<1>5. CASE Fails(s) /\ at[s] = "calling" /\ misses'[s] # misses[s]
  <2>1. misses[s] < MissCap /\ misses'[s] = misses[s] + 1
    BY <1>5, <1>1 DEF Fails, TypeOK
  <2>2. Periods(s)' = Periods(s) + Interval + Delay
    BY <2>1, <1>1, OnePeriodMore DEF Periods
  <2>3. left[s] + Periods(s) + Delay + Interval + clock[s] >= Ttl
    BY <1>5, <2>1 DEF LivingInv, Renewed
  <2>4. /\ at'[s] = "sleeping" /\ clock'[s] = Interval /\ left'[s] = left[s]
        /\ left[s] \in Nat /\ clock[s] \in Nat /\ clock[s] <= Delay
    BY <1>5, Constants DEF Fails, Sleep, TypeOK
  <2>5. PICK p \in Nat : p = Periods(s)
    BY <1>2
  <2>6. left'[s] + (p + Interval + Delay) + Delay + Interval >= Ttl + clock'[s]
    BY <2>3, <2>4, <2>5, Constants
  <2> QED  BY <2>2, <2>4, <2>5, <2>6 DEF Renewed
<1> QED  BY <1>1, <1>3, <1>4, <1>5, WhoMisses
-----------------------------------------------------------------------------
(* The registry starts in its type and with nobody listed. *)
LEMMA InitHolds == Init => TypeOK /\ DeadInv /\ LivingInv /\ RelistedInv
<1> SUFFICES ASSUME Init PROVE TypeOK /\ DeadInv /\ LivingInv /\ RelistedInv
  OBVIOUS
<1> USE Constants DEF Init
<1>1. TypeOK
  BY DEF TypeOK
<1>2. DeadInv
  BY DEF DeadInv
<1>3. LivingInv
  BY DEF LivingInv, Renewed
<1>4. RelistedInv
  BY DEF RelistedInv
<1> QED  BY <1>1, <1>2, <1>3, <1>4

(* The state of the registry keeps its type. *)
THEOREM TypeCorrect == Spec => []TypeOK
<1> QED  BY InitHolds, TypeStep, PTL DEF Spec

(* All three invariants about the loop hold in every state. *)
LEMMA Invariants == Spec => [](DeadInv /\ LivingInv /\ RelistedInv)
<1>1. /\ TypeOK /\ DeadInv /\ LivingInv /\ RelistedInv /\ [Next]_vars
      => (DeadInv /\ LivingInv /\ RelistedInv)'
  BY DeadInvStep, LivingInvStep, RelistedInvStep
<1> QED  BY <1>1, InitHolds, TypeCorrect, PTL DEF Spec

(* A process that has ended is listed no longer than the time to live of a *)
(* last call that was still on its way.                                    *)
THEOREM DeadDisappear == Spec => []DeadVanishes
<1>1. TypeOK /\ DeadInv => DeadVanishes
  BY Constants DEF TypeOK, DeadInv, DeadVanishes, Listed
<1> QED  BY <1>1, TypeCorrect, Invariants, PTL

(* heartbeat_loop: a living server whose entry nobody takes stays listed   *)
(* as long as the periods of its failed calls fit in the time to live.     *)
THEOREM LivingStay == Spec => []LivingStaysListed
<1>1. ASSUME TypeOK, LivingInv, NEW s \in Servers, Running(s),
             (misses[s] + 1) * (Interval + Delay) + Delay < Ttl
      PROVE  left[s] > 0
  <2>1. misses[s] \in Nat /\ misses[s] <= MissCap /\ MissCap \in Nat
    BY <1>1, Constants DEF TypeOK
  <2>2. misses[s] < MissCap
    BY <1>1, <2>1, RegistryAssumption
  <2>3. PICK p \in Nat : p = Periods(s)
    BY <2>1, OnePeriodMore DEF Periods
  <2>4. p + Interval + Delay + Delay < Ttl
    BY <1>1, <2>1, <2>3, OnePeriodMore, Constants DEF Periods
  <2>5. Renewed(s, p)
    BY <1>1, <2>2, <2>3 DEF LivingInv
  <2> QED  BY <1>1, <2>4, <2>5, Constants DEF Renewed, TypeOK, Running
<1>2. TypeOK /\ LivingInv => LivingStaysListed
  BY <1>1 DEF LivingStaysListed, Listed
<1> QED  BY <1>2, TypeCorrect, Invariants, PTL

(* heartbeat_loop: a period without a failed call, a take of the entry or  *)
(* a restart of the Master lists a living server again.                    *)
THEOREM ComeBack == Spec => []Relisted
<1>1. TypeOK /\ RelistedInv => Relisted
  BY Constants DEF TypeOK, RelistedInv, Relisted, Listed, Running
<1> QED  BY <1>1, TypeCorrect, Invariants, PTL
=============================================================================
