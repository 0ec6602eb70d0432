------------------------------ MODULE Registry ------------------------------
(***************************************************************************)
(* The service registry (registry/world_registry.hpp): Login and World put *)
(* their own entry in the Master's store every Interval, with a time to    *)
(* live of Ttl, and an entry nobody renews disappears.  The loop is        *)
(*                                                                         *)
(*    for (;;) { put(key, value, ttl); sleep(interval); }                  *)
(*                                                                         *)
(* so that a period is Interval and the time of the call, whose result is  *)
(* not looked at.  A call may fail, before or after the Master applied it, *)
(* and what a call or a process leaves in the network may be applied after *)
(* it is gone.  An entry is a key of the store like any other, so that a   *)
(* client may take it by sending it where a ticket or token is expected.   *)
(* Time passes in ticks.  roundtrip has no time-out of its own: Delay      *)
(* bounds a call, and what it leaves behind, as long as the Master and the *)
(* network answer or fail it at all.                                       *)
(***************************************************************************)
EXTENDS Naturals

CONSTANTS Servers,     \* the Login and World processes, one key each
          Interval,    \* between an answer and the next call: 5 s
          Ttl,         \* time to live of an entry: 15 s
          Delay,       \* the longest a call lasts
          MissCap,     \* bound: failed calls in a row are counted up to here
          CalmCap      \* bound: ticks of calm are counted up to here

ASSUME RegistryAssumption ==
  /\ Interval \in Nat \ {0} /\ Ttl \in Nat \ {0} /\ Delay \in Nat
  /\ MissCap \in Nat /\ CalmCap \in Nat
  /\ Interval + 2 * Delay < Ttl
  /\ (MissCap + 1) * (Interval + Delay) + Delay >= Ttl
  /\ CalmCap > Ttl + Delay

VARIABLES
  master,   \* "up" or "down"
  left,     \* left[s]: time left to the entry of s, 0: not listed
  at,       \* at[s]: "down", "sleeping", "calling", "applied" (in a call
            \* that the Master has applied)
  clock,    \* clock[s]: time left to sleep, or time spent in the call
  late,     \* late[s]: ages of the abandoned calls that may still be applied
  misses,   \* history: calls of s not applied since one was, up to MissCap;
            \* MissCap also when what was applied is lost or taken
  calm      \* history: time since s started, ended or failed, or, for one
            \* that lives, since its entry was taken or the Master ended or
            \* started, up to CalmCap

process == <<at, clock>>
history == <<misses, calm>>
vars == <<master, left, process, late, history>>

Running(s) == at[s] # "down"
InCall(s) == at[s] \in {"calling", "applied"}

(* list_prefix as list_worlds and pick_login read it. *)
Listed == {s \in Servers : left[s] > 0}

Init ==
  /\ master = "up"
  /\ left = [s \in Servers |-> 0]
  /\ at = [s \in Servers |-> "down"]
  /\ clock = [s \in Servers |-> 0]
  /\ late = [s \in Servers |-> {}]
  /\ misses = [s \in Servers |-> MissCap]
  /\ calm = [s \in Servers |-> 0]
-----------------------------------------------------------------------------
(* run_login, run_world: the loop is spawned, and puts at once. *)
Start(s) ==
  /\ at[s] = "down"
  /\ at' = [at EXCEPT ![s] = "calling"]
  /\ clock' = [clock EXCEPT ![s] = 0]
  /\ calm' = [calm EXCEPT ![s] = 0]
  /\ misses' = [misses EXCEPT ![s] = MissCap]
  /\ UNCHANGED <<master, left, late>>

(* The timer has fired: value_provider() is read and put is called. *)
Beat(s) ==
  /\ at[s] = "sleeping" /\ clock[s] = 0
  /\ at' = [at EXCEPT ![s] = "calling"]
  /\ UNCHANGED <<master, left, clock, late, history>>

(* StoreHandler::on_message: the entry is new for Ttl. *)
StoredOneMore(s) == left' = [left EXCEPT ![s] = Ttl + 1]

StoredForInterval(s) == left' = [left EXCEPT ![s] = Interval]

Stored(s) == left' = [left EXCEPT ![s] = Ttl]

Apply(s) ==
  /\ master = "up" /\ at[s] = "calling"
  /\ Stored(s)
  /\ at' = [at EXCEPT ![s] = "applied"]
  /\ misses' = [misses EXCEPT ![s] = 0]
  /\ UNCHANGED <<master, clock, late, calm>>

(* put returns, true or false, and the loop sleeps for Interval. *)
SleepForTtl(s) ==
  /\ at' = [at EXCEPT ![s] = "sleeping"]
  /\ clock' = [clock EXCEPT ![s] = Ttl]

Sleep(s) ==
  /\ at' = [at EXCEPT ![s] = "sleeping"]
  /\ clock' = [clock EXCEPT ![s] = Interval]

Answered(s) ==
  /\ at[s] = "applied"
  /\ Sleep(s)
  /\ UNCHANGED <<master, left, late, history>>

(* What a call that is given up leaves in the network. *)
Abandon(s) ==
  \/ UNCHANGED late
  \/ at[s] = "calling" /\ late' = [late EXCEPT ![s] = @ \cup {clock[s]}]

Fails(s) ==
  /\ InCall(s)
  /\ Abandon(s)
  /\ Sleep(s)
  /\ misses' = [misses EXCEPT ![s] =
                  IF at[s] = "calling" /\ @ < MissCap THEN @ + 1 ELSE @]
  /\ calm' = [calm EXCEPT ![s] = 0]
  /\ UNCHANGED <<master, left>>

(* The process ends, or its one thread is busy in stop(): the loop ends    *)
(* where it is.                                                            *)
End(s) ==
  /\ Running(s)
  /\ Abandon(s)
  /\ at' = [at EXCEPT ![s] = "down"]
  /\ clock' = [clock EXCEPT ![s] = 0]
  /\ calm' = [calm EXCEPT ![s] = 0]
  /\ UNCHANGED <<master, left, misses>>

ApplyLate(s, age) ==
  /\ master = "up" /\ age \in late[s]
  /\ Stored(s)
  /\ late' = [late EXCEPT ![s] = @ \ {age}]
  /\ UNCHANGED <<master, process, history>>

LoseLate(s, age) ==
  /\ age \in late[s]
  /\ late' = [late EXCEPT ![s] = @ \ {age}]
  /\ UNCHANGED <<master, left, process, history>>

(* A take is applied whose key is the entry of s: Login and World pass on  *)
(* whatever bytes a client sends as its ticket or token, and tickets,      *)
(* tokens and entries share the store.                                     *)
Taken(s) ==
  /\ master = "up" /\ left[s] > 0
  /\ left' = [left EXCEPT ![s] = 0]
  /\ misses' = [misses EXCEPT ![s] = MissCap]
  /\ calm' = [calm EXCEPT ![s] = IF Running(s) THEN 0 ELSE @]
  /\ UNCHANGED <<master, process, late>>
-----------------------------------------------------------------------------
(* The store is the Master's memory: an entry, and a call applied to it,   *)
(* are lost with it.                                                       *)
MasterEnds ==
  /\ master = "up"
  /\ master' = "down"
  /\ left' = [s \in Servers |-> 0]
  /\ misses' = [s \in Servers |-> MissCap]
  /\ calm' = [s \in Servers |-> IF Running(s) THEN 0 ELSE calm[s]]
  /\ UNCHANGED <<process, late>>

MasterStarts ==
  /\ master = "down"
  /\ master' = "up"
  /\ calm' = [s \in Servers |-> IF Running(s) THEN 0 ELSE calm[s]]
  /\ UNCHANGED <<left, process, late, misses>>

(* A tick, if nothing is due before it: a timer that has fired is served   *)
(* and a call ends in its time.                                            *)
Due(s) ==
  \/ at[s] = "sleeping" /\ clock[s] = 0
  \/ InCall(s) /\ clock[s] >= Delay
  \/ \E age \in late[s] : age >= Delay

(* steady_clock::now() reaches an entry's expires_at. *)
AgedWhileServed(s) ==
  IF left[s] = 0 \/ ~Running(s) THEN left[s] ELSE left[s] - 1

Aged(s) == IF left[s] = 0 THEN 0 ELSE left[s] - 1

Tick ==
  /\ \A s \in Servers : ~Due(s)
  /\ left' = [s \in Servers |-> Aged(s)]
  /\ clock' = [s \in Servers |-> IF at[s] = "sleeping" THEN clock[s] - 1
                                ELSE IF Running(s) THEN clock[s] + 1 ELSE 0]
  /\ late' = [s \in Servers |-> {age + 1 : age \in late[s]}]
  /\ calm' = [s \in Servers |-> IF calm[s] < CalmCap THEN calm[s] + 1 ELSE CalmCap]
  /\ UNCHANGED <<master, at, misses>>
-----------------------------------------------------------------------------
Step(s) ==
  \/ Start(s) \/ Beat(s) \/ Apply(s) \/ Answered(s) \/ Fails(s) \/ End(s)
  \/ Taken(s)
  \/ \E age \in late[s] : ApplyLate(s, age) \/ LoseLate(s, age)

Next == (\E s \in Servers : Step(s)) \/ MasterEnds \/ MasterStarts \/ Tick

Spec == Init /\ [][Next]_vars
-----------------------------------------------------------------------------
(* The type of the registry: an entry never has more than its time to live *)
(* left, nor a loop more than an interval to sleep.                        *)
TypeOK ==
  /\ master \in {"up", "down"}
  /\ left \in [Servers -> 0 .. Ttl]
  /\ at \in [Servers -> {"down", "sleeping", "calling", "applied"}]
  /\ clock \in [Servers -> Nat]
  /\ \A s \in Servers : clock[s] <= IF at[s] = "sleeping" THEN Interval ELSE Delay
  /\ late \in [Servers -> SUBSET (0 .. Delay)]
  /\ misses \in [Servers -> 0 .. MissCap]
  /\ calm \in [Servers -> 0 .. CalmCap]

(* "si un process meurt, son entree expire toute seule et disparait du     *)
(* registre": a server that has ended is listed no longer than the time to *)
(* live of a last call that was still on its way.                          *)
DeadVanishes ==
  \A s \in Servers : ~Running(s) /\ calm[s] >= Ttl + Delay => s \notin Listed

(* A server that lives stays listed while its calls fail in a row, as long *)
(* as their periods fit in the time to live (with 5 s and 15 s, a single   *)
(* one, and only if a call takes no more than a second), provided that     *)
(* nobody takes its entry and the Master lives: then, as before the first  *)
(* call, nothing is promised until the next call is applied.               *)
LivingStaysListed ==
  \A s \in Servers :
    Running(s) /\ (misses[s] + 1) * (Interval + Delay) + Delay < Ttl => s \in Listed

(* After a start, a failed call, a take of its entry or a restart of the   *)
(* Master, a living server is listed again as soon as a period has gone by *)
(* without a new disturbance.  (Nobody tells it that its entry is gone, or *)
(* to announce itself to the new Master: only its own loop brings it back, *)
(* wherever in the loop the disturbance caught it.)                        *)
Relisted ==
  \A s \in Servers :
    Running(s) /\ master = "up" /\ calm[s] > Interval + 2 * Delay => s \in Listed
=============================================================================
