---------------------------- MODULE ServerProofs ----------------------------
(* Proofs about Server, for any number of workers and connections and any  *)
(* capacity: the types, the exactness of active_connections_, the bound on *)
(* the overshoot of the capacity, that a listener stays closed, what the   *)
(* stop handler reaches, and that a stopped server is quiet.               *)
EXTENDS Server, FiniteSetTheorems, SequenceTheorems, TLAPS

Admitting == {w \in Workers : worker[w] = "admitting"}
Served == {c \in Conns : conn[c] \in InService}

(* The count, the registries and the sessions agree. *)
CountInv ==
  /\ CountExact
  /\ \A c \in Conns : conn[c] = "idle" <=> owner[c] = NoWorker

(* Every worker that has passed the capacity test uses up one unit of the  *)
(* overshoot.                                                              *)
SlackInv ==
  active + Cardinality(Admitting) <= MaxConnections - 1 + Cardinality(Workers)

(* The sets that are counted are finite. *)
LEMMA Finite ==
  /\ IsFiniteSet(Served) /\ Cardinality(Served) \in Nat
  /\ IsFiniteSet(Admitting) /\ Cardinality(Admitting) \in Nat
  /\ Cardinality(Workers) \in Nat \ {0}
<1>1. IsFiniteSet(Served) /\ IsFiniteSet(Admitting)
  BY ServerAssumption, FS_Subset DEF Served, Admitting
<1>2. Cardinality(Workers) \in Nat /\ Cardinality(Workers) # 0
  BY ServerAssumption, FS_CardinalityType, FS_EmptySet
<1> QED  BY <1>1, <1>2, FS_CardinalityType

(* What is done to a queue of handlers leaves a queue of handlers. *)
LEMMA QueueTypes ==
  /\ <<>> \in Seq(Handlers) /\ <<"close">> \in Seq(Handlers)
  /\ \A q \in Seq(Handlers) :
       /\ \A h \in Handlers : Append(q, h) \in Seq(Handlers)
       /\ q # <<>> => Tail(q) \in Seq(Handlers)
  BY DEF Handlers

(* So does running the handler at its head. *)
LEMMA NextHandlerTypes ==
  ASSUME Types, NEW w \in Workers, NEW h \in Handlers, NextHandler(w, h)
  PROVE  queue' \in [Workers -> Seq(Handlers)]
<1>1. queue[w] \in Seq(Handlers) /\ queue[w] # <<>>
  BY DEF Types, NextHandler
<1>2. Tail(queue[w]) \in Seq(Handlers)
  BY <1>1, QueueTypes
<1>3. queue \in [Workers -> Seq(Handlers)]
  BY DEF Types
<1> QED  BY <1>2, <1>3 DEF NextHandler

(* A step of the server keeps the types of its variables. *)
LEMMA TypeStep == Types /\ [Next]_vars => Types'
<1> SUFFICES ASSUME Types, [Next]_vars PROVE Types'
  OBVIOUS
<1> USE DEF Types, threads, sessions, stopping, draining
<1>1. ASSUME NEW w \in Workers, ThreadStep(w) PROVE Types'
  <2>1. CASE Arm(w)
    BY <2>1, QueueTypes DEF Arm
  <2>2. CASE Spawn(w)
    BY <2>2, QueueTypes DEF Spawn, Handlers
  <2>3. CASE StartLoop(w) \/ BindFails(w)
    <3>1. queue' \in [Workers -> Seq(Handlers)]
      BY <2>3, NextHandlerTypes DEF StartLoop, BindFails, Handlers
    <3> QED  BY <2>3, <3>1 DEF StartLoop, BindFails
  <2>4. CASE RunClose(w)
    BY <2>4, NextHandlerTypes DEF RunClose, Handlers
  <2>5. CASE WorkerExits(w)
    BY <2>5 DEF WorkerExits
  <2>6. CASE AcceptAborted(w) \/ AcceptFails(w)
    BY <2>6 DEF AcceptAborted, AcceptFails, LoopEnds
  <2>7. CASE Notify(w)
    BY <2>7 DEF Notify
  <2>8. CASE Receive(w) \/ Replied(w)
    BY <2>8 DEF Receive, Replied
  <2> QED  BY <1>1, <2>1, <2>2, <2>3, <2>4, <2>5, <2>6, <2>7, <2>8 DEF ThreadStep
<1>2. ASSUME NEW w \in Workers, NEW c \in Conns, ConnStep(w, c) PROVE Types'
  <2>1. CASE AcceptCompletes(w, c)
    BY <2>1 DEF AcceptCompletes
  <2>2. CASE Refuse(w, c)
    BY <2>2 DEF Refuse, Forget
  <2>3. CASE PassCapacity(w, c)
    BY <2>3 DEF PassCapacity
  <2>4. CASE Admit(w, c)
    BY <2>4 DEF Admit, InService
  <2>5. CASE SessionEnds(w, c)
    BY <2>5 DEF SessionEnds, Forget
  <2>6. CASE HandlerRuns(w, c)
    <3>1. CASE ~SessionEnds(w, c)
      <4>1. closed' \subseteq Conns
        BY <2>6, <3>1 DEF HandlerRuns
      <4>2. conn' \in [Conns -> {"idle", "accepted"} \cup InService]
        BY <2>6, <3>1 DEF HandlerRuns, InService
      <4> QED  BY <2>6, <3>1, <4>1, <4>2 DEF HandlerRuns
    <3> QED  BY <2>5, <3>1
  <2>7. CASE Completes(w, c) \/ WriteReturns(w, c)
    BY <2>7 DEF Completes, WriteReturns, InService
  <2>8. CASE PeerGone(w, c) \/ IdleTimeout(w, c) \/ SocketClosed(w, c)
    BY <2>5, <2>8 DEF PeerGone, IdleTimeout, SocketClosed
  <2> QED  BY <1>2, <2>1, <2>2, <2>3, <2>4, <2>6, <2>7, <2>8 DEF ConnStep
<1>3. CASE MainStep
  <2>1. ASSUME NEW w \in Workers, RequestStop(w) PROVE Types'
    <3>1. queue' \in [Workers -> Seq(Handlers)]
      <4>1. Append(queue[w], "close") \in Seq(Handlers)
        BY QueueTypes DEF Handlers
      <4> QED  BY <2>1, <4>1 DEF RequestStop
    <3> QED  BY <2>1, <3>1 DEF RequestStop
  <2> QED  BY <1>3, <2>1 DEF MainStep, Signal, StartJoining, Join
<1>4. CASE DrainCall \/ DrainStep \/ DeadlinePasses
  <2>1. CASE DrainCall \/ DeadlinePasses
    BY <2>1 DEF DrainCall, DeadlinePasses
  <2>2. CASE DrainLoad
    BY <2>2 DEF DrainLoad, DrainReturn
  <2>3. CASE DrainCheck
    <3>1. deadline' \in BOOLEAN
      BY <2>3, Zenon DEF DrainCheck, DrainReturn
    <3> QED  BY <2>3, <3>1 DEF DrainCheck, DrainReturn
  <2>4. CASE DrainWait
    BY <2>4 DEF DrainWait
  <2> QED  BY <1>4, <2>1, <2>2, <2>3, <2>4 DEF DrainStep
<1>5. CASE UNCHANGED vars
  BY <1>5 DEF vars
<1> QED  BY <1>1, <1>2, <1>3, <1>4, <1>5 DEF Next

(* The variables stay in their sets. *)
THEOREM TypesCorrect == Spec => []Types
<1>1. Init => Types
  <2> SUFFICES ASSUME Init PROVE Types
    OBVIOUS
  <2>1. queue \in [Workers -> Seq(Handlers)]
    BY QueueTypes DEF Init
  <2>2. deadline \in BOOLEAN
    BY DEF Init
  <2>3. active \in Int /\ current \in Int
    BY DEF Init
  <2>4. udp \subseteq Workers
    BY ServerAssumption DEF Init
  <2> QED  BY <2>1, <2>2, <2>3, <2>4 DEF Init, Types
<1> QED  BY <1>1, TypeStep, PTL DEF Spec
-----------------------------------------------------------------------------
(* The steps that touch the sessions, told apart from all the others.      *)
Enters(w, c) ==
  /\ worker[w] = "admitting" /\ worker' = [worker EXCEPT ![w] = "running"]
  /\ conn[c] = "accepted" /\ owner[c] = w
  /\ conn' = [conn EXCEPT ![c] = "reading"] /\ UNCHANGED owner
  /\ registry' = [registry EXCEPT ![w] = @ \cup {c}]
  /\ active' = active + 1

Leaves(w, c) ==
  /\ worker[w] = "running"
  /\ worker' \in {worker, [worker EXCEPT ![w] = "notifying"]}
  /\ conn[c] \in InService /\ owner[c] = w
  /\ conn' = [conn EXCEPT ![c] = "idle"]
  /\ owner' = [owner EXCEPT ![c] = NoWorker]
  /\ registry' = [registry EXCEPT ![w] = @ \ {c}]
  /\ active' = active - 1

Passes(w) ==
  /\ worker[w] = "running" /\ worker' = [worker EXCEPT ![w] = "admitting"]
  /\ active < MaxConnections
  /\ UNCHANGED <<registry, conn, owner, active>>

Elsewhere ==
  /\ UNCHANGED <<registry, active>>
  /\ \A c \in Conns :
       \/ conn'[c] = conn[c] /\ owner'[c] = owner[c]
       \/ /\ conn[c] \in InService /\ conn'[c] \in InService
          /\ owner'[c] = owner[c]
       \/ /\ conn[c] \notin InService /\ conn'[c] \notin InService
          /\ conn'[c] = "idle" <=> owner'[c] = NoWorker
  /\ Admitting' = Admitting

(* Every step is of one of these four kinds. *)
LEMMA Kinds ==
  ASSUME Types, [Next]_vars
  PROVE  \/ \E w \in Workers : Passes(w)
         \/ \E w \in Workers, c \in Conns : Enters(w, c) \/ Leaves(w, c)
         \/ Elsewhere
<1> USE DEF Types, threads, sessions, stopping, draining
<1>1. ASSUME NEW w \in Workers, ThreadStep(w) PROVE Elsewhere
  <2>1. CASE Arm(w) \/ Spawn(w) \/ WorkerExits(w)
    BY <2>1 DEF Arm, Spawn, WorkerExits, Elsewhere, Admitting
  <2>2. CASE StartLoop(w) \/ BindFails(w) \/ RunClose(w)
    BY <2>2 DEF StartLoop, BindFails, RunClose, Elsewhere, Admitting
  <2>3. CASE AcceptAborted(w) \/ AcceptFails(w)
    BY <2>3 DEF AcceptAborted, AcceptFails, LoopEnds, Elsewhere, Admitting
  <2>4. CASE Notify(w)
    BY <2>4 DEF Notify, Elsewhere, Admitting
  <2>5. CASE Receive(w) \/ Replied(w)
    BY <2>5 DEF Receive, Replied, Elsewhere, Admitting
  <2> QED  BY <1>1, <2>1, <2>2, <2>3, <2>4, <2>5 DEF ThreadStep
<1>2. ASSUME NEW w \in Workers, NEW c \in Conns, ConnStep(w, c)
      PROVE  Passes(w) \/ Enters(w, c) \/ Leaves(w, c) \/ Elsewhere
  <2>1. CASE AcceptCompletes(w, c)
    BY <2>1, ServerAssumption
       DEF AcceptCompletes, Elsewhere, Admitting, InService
  <2>2. CASE Refuse(w, c)
    BY <2>2 DEF Refuse, Forget, Accepted, Elsewhere, Admitting, InService
  <2>3. CASE PassCapacity(w, c)
    BY <2>3, ServerAssumption DEF PassCapacity, AtCapacity, Passes
  <2>4. CASE Admit(w, c)
    BY <2>4 DEF Admit, Accepted, Enters
  <2>5. ASSUME InSession(w, c, InService), SessionEnds(w, c)
        PROVE  Leaves(w, c)
    BY <2>5 DEF InSession, SessionEnds, Forget, Leaves
  <2>6. CASE HandlerRuns(w, c)
    <3>1. InSession(w, c, InService)
      BY <2>6 DEF HandlerRuns, InSession, InService
    <3>2. CASE SessionEnds(w, c)
      BY <2>5, <3>1, <3>2
    <3>3. CASE ~SessionEnds(w, c)
      BY <2>6, <3>1, <3>3
         DEF HandlerRuns, InSession, InService, Elsewhere, Admitting
    <3> QED  BY <3>2, <3>3
  <2>7. CASE Completes(w, c) \/ WriteReturns(w, c)
    BY <2>7 DEF Completes, WriteReturns, InSession, InService, Elsewhere,
                Admitting
  <2>8. CASE PeerGone(w, c) \/ IdleTimeout(w, c) \/ SocketClosed(w, c)
    BY <2>5, <2>8 DEF PeerGone, IdleTimeout, SocketClosed, InSession, InService
  <2> QED  BY <1>2, <2>1, <2>2, <2>3, <2>4, <2>6, <2>7, <2>8 DEF ConnStep
<1>3. CASE MainStep
  BY <1>3 DEF MainStep, Signal, RequestStop, StartJoining, Join, Elsewhere,
              Admitting
<1>4. CASE DrainCall \/ DrainStep \/ DeadlinePasses
  BY <1>4 DEF DrainCall, DrainStep, DrainLoad, DrainCheck, DrainReturn, DrainWait,
              DeadlinePasses, Elsewhere, Admitting
<1>5. CASE UNCHANGED vars
  BY <1>5 DEF vars, Elsewhere, Admitting
<1> QED  BY <1>1, <1>2, <1>3, <1>4, <1>5 DEF Next
-----------------------------------------------------------------------------
(* Each kind of step keeps the count exact. *)
LEMMA CountStep == Types /\ CountInv /\ [Next]_vars => CountInv'
<1> SUFFICES ASSUME Types, CountInv, [Next]_vars PROVE CountInv'
  OBVIOUS
<1> USE DEF CountInv
<1>0. Types'
  BY TypeStep
<1>1. ASSUME NEW w \in Workers, NEW c \in Conns, Enters(w, c) PROVE CountInv'
  <2>1. Served' = Served \cup {c} /\ c \notin Served
    BY <1>1 DEF Enters, Served, InService, Types
  <2>2. Cardinality(Served') = Cardinality(Served) + 1
    BY <2>1, Finite, FS_AddElement
  <2>3. active' = Cardinality(Served')
    BY <1>1, <2>2, Finite DEF Enters, CountExact, Served
  <2>4. \A v \in Workers : registry'[v] = SessionsOf(v)'
    BY <1>1 DEF Enters, CountExact, SessionsOf, InService, Types
  <2>5. \A d \in Conns : conn'[d] = "idle" <=> owner'[d] = NoWorker
    BY <1>1 DEF Enters, Types
  <2> QED  BY <2>3, <2>4, <2>5 DEF CountExact, Served
<1>2. ASSUME NEW w \in Workers, NEW c \in Conns, Leaves(w, c) PROVE CountInv'
  <2>1. Served' = Served \ {c} /\ c \in Served
    BY <1>2 DEF Leaves, Served, InService, Types
  <2>2. Cardinality(Served') = Cardinality(Served) - 1
    BY <2>1, Finite, FS_RemoveElement
  <2>3. active' = Cardinality(Served')
    BY <1>2, <2>2, Finite DEF Leaves, CountExact, Served
  <2>4. \A v \in Workers : registry'[v] = SessionsOf(v)'
    BY <1>2, ServerAssumption
       DEF Leaves, CountExact, SessionsOf, InService, Types
  <2>5. \A d \in Conns : conn'[d] = "idle" <=> owner'[d] = NoWorker
    BY <1>2 DEF Leaves, Types
  <2> QED  BY <2>3, <2>4, <2>5 DEF CountExact, Served
<1>3. ASSUME NEW w \in Workers, Passes(w) PROVE CountInv'
  BY <1>3 DEF Passes, CountExact, SessionsOf
<1>4. CASE Elsewhere
  <2>1. Served' = Served
    BY <1>4 DEF Elsewhere, Served
  <2>2. \A v \in Workers : SessionsOf(v)' = SessionsOf(v)
    BY <1>4 DEF Elsewhere, SessionsOf
  <2>3. \A d \in Conns : conn'[d] = "idle" <=> owner'[d] = NoWorker
    BY <1>4 DEF Elsewhere, InService
  <2> QED  BY <1>4, <2>1, <2>2, <2>3 DEF CountExact, Served, Elsewhere
<1> QED  BY <1>1, <1>2, <1>3, <1>4, Kinds

(* Each kind of step keeps the slack. *)
LEMMA SlackStep == Types /\ CountInv /\ SlackInv /\ [Next]_vars => SlackInv'
<1> SUFFICES ASSUME Types, CountInv, SlackInv, [Next]_vars PROVE SlackInv'
  OBVIOUS
<1>0. active \in Int /\ MaxConnections \in Int
  BY ServerAssumption DEF Types
<1>1. ASSUME NEW w \in Workers, NEW c \in Conns, Enters(w, c) PROVE SlackInv'
  <2>1. Admitting' = Admitting \ {w} /\ w \in Admitting
    BY <1>1 DEF Enters, Admitting, Types
  <2>2. Cardinality(Admitting') = Cardinality(Admitting) - 1
    BY <2>1, Finite, FS_RemoveElement
  <2> QED  BY <1>0, <1>1, <2>2, Finite DEF Enters, SlackInv
<1>2. ASSUME NEW w \in Workers, NEW c \in Conns, Leaves(w, c) PROVE SlackInv'
  <2>1. Admitting' = Admitting
    BY <1>2 DEF Leaves, Admitting, Types
  <2> QED  BY <1>0, <1>2, <2>1, Finite DEF Leaves, SlackInv
<1>3. ASSUME NEW w \in Workers, Passes(w) PROVE SlackInv'
  <2>1. Admitting' = Admitting \cup {w} /\ w \notin Admitting
    BY <1>3 DEF Passes, Admitting, Types
  <2>2. Cardinality(Admitting') <= Cardinality(Workers)
    <3>1. Admitting' \subseteq Workers
      BY DEF Admitting
    <3> QED  BY <3>1, ServerAssumption, FS_Subset
  <2>3. active' = active /\ active < MaxConnections
    BY <1>3 DEF Passes
  <2>4. Cardinality(Admitting') \in Int
    <3>1. Cardinality(Admitting') = Cardinality(Admitting) + 1
      BY <2>1, Finite, FS_AddElement
    <3> QED  BY <3>1, Finite
  <2> QED  BY <1>0, <2>2, <2>3, <2>4, Finite DEF SlackInv
<1>4. CASE Elsewhere
  BY <1>4 DEF Elsewhere, SlackInv
<1> QED  BY <1>1, <1>2, <1>3, <1>4, Kinds

(* The invariants of the count hold in every behaviour. *)
THEOREM CountInvariant == Spec => [](Types /\ CountInv /\ SlackInv)
<1>1. Init => CountInv
  <2> SUFFICES ASSUME Init PROVE CountInv
    OBVIOUS
  <2>1. Served = {} /\ \A w \in Workers : SessionsOf(w) = {}
    BY DEF Init, Served, SessionsOf, InService
  <2> QED  BY <2>1, FS_EmptySet DEF Init, CountInv, CountExact, Served
<1>2. Init => SlackInv
  <2> SUFFICES ASSUME Init PROVE SlackInv
    OBVIOUS
  <2>1. Admitting = {}
    BY DEF Init, Admitting
  <2>2. Cardinality(Admitting) = 0
    BY <2>1, FS_EmptySet
  <2> QED  BY <2>2, Finite, ServerAssumption DEF Init, SlackInv
<1>3. Types /\ CountInv /\ SlackInv /\ [Next]_vars => (Types /\ CountInv /\ SlackInv)'
  BY TypeStep, CountStep, SlackStep
<1> QED  BY <1>1, <1>2, <1>3, TypesCorrect, PTL DEF Spec

(* active_connections_ is the number of registered sessions, always.       *)
THEOREM CountIsExact == Spec => []CountExact
<1>1. CountInv => CountExact
  BY DEF CountInv
<1> QED  BY <1>1, CountInvariant, PTL

(* The types of the server's state are kept: in particular the count never *)
(* wraps below zero.                                                       *)
THEOREM TypeCorrect == Spec => []TypeOK
<1>1. Types /\ CountInv => TypeOK
  BY Finite DEF CountInv, CountExact, Served, TypeOK
<1> QED  BY <1>1, CountInvariant, PTL

(* The capacity is exceeded by at most one connection per further worker.  *)
THEOREM OvershootIsBounded == Spec => []OvershootBounded
<1>1. Types /\ SlackInv => OvershootBounded
  BY Finite, ServerAssumption DEF SlackInv, OvershootBounded, Types
<1> QED  BY <1>1, CountInvariant, PTL

(* The roles that run one I/O thread (Master, Internal) keep their         *)
(* capacity.                                                               *)
THEOREM OneThreadWithinMax ==
  ASSUME Cardinality(Workers) = 1
  PROVE  Spec => []WithinMax
<1>1. OvershootBounded /\ Types => WithinMax
  BY ServerAssumption DEF OvershootBounded, WithinMax, Types
<1> QED  BY <1>1, OvershootIsBounded, TypesCorrect, PTL
-----------------------------------------------------------------------------
(* Where the close handler of a worker can be, when no stop is requested   *)
(* before every worker has spawned its accept loop: behind that loop.      *)
QueueInv ==
  /\ main # "serving" => \A w \in Workers : worker[w] \notin {"boot", "armed"}
  /\ main = "serving" => stopReq = {}
  /\ \A w \in Workers :
       /\ worker[w] \in {"boot", "armed"} => queue[w] = <<>>
       /\ queue[w] \in {<<>>, <<"loop">>, <<"close">>,
                        <<"loop", "close">>}
       /\ w \notin stopReq => queue[w] \in {<<>>, <<"loop">>}
       /\ w \in closeRan => queue[w] = <<>> /\ w \in stopReq
       /\ w \in closeRan => acceptor[w] # "listening"

(* The short queues of handlers, computed. *)
LEMMA ShortQueues ==
  /\ Append(<<>>, "loop") = <<"loop">>
  /\ Append(<<>>, "close") = <<"close">>
  /\ Append(<<"loop">>, "close") = <<"loop", "close">>
  /\ Tail(<<"loop">>) = <<>> /\ Tail(<<"close">>) = <<>>
  /\ Tail(<<"loop", "close">>) = <<"close">>
  /\ Head(<<"loop">>) = "loop" /\ Head(<<"close">>) = "close"
  /\ Head(<<"loop", "close">>) = "loop"
  /\ <<"loop">> # <<>> /\ <<"close">> # <<>>
  /\ <<"loop", "close">> # <<>>
  /\ <<"loop">> # <<"close">>
  /\ <<"loop", "close">> # <<"loop">>
<1>1. Append(<<>>, "loop") = <<"loop">>
  OBVIOUS
<1>2. Append(<<>>, "close") = <<"close">>
  OBVIOUS
<1>3. Append(<<"loop">>, "close") = <<"loop", "close">>
  <2> DEFINE s == <<"loop">>
             t == <<"loop", "close">>
             a == Append(s, "close")
  <2>1. /\ s \in Seq(Handlers) /\ t \in Seq(Handlers) /\ "close" \in Handlers
        /\ Len(s) = 1 /\ Len(t) = 2
    BY DEF Handlers
  <2>2. a \in Seq(Handlers) /\ Len(a) = 2 /\ a[1] = s[1] /\ a[2] = "close"
    BY <2>1, AppendProperties
  <2>3. \A i \in 1..Len(t) : a[i] = t[i]
    BY <2>1, <2>2
  <2> HIDE DEF s, t, a
  <2>4. a = t
    BY <2>1, <2>2, <2>3, SeqEqual
  <2> QED  BY <2>4 DEF s, t, a
<1>4. Tail(<<"loop">>) = <<>>
  OBVIOUS
<1>5. Tail(<<"close">>) = <<>>
  OBVIOUS
<1>6. Tail(<<"loop", "close">>) = <<"close">>
  OBVIOUS
<1>7. Head(<<"loop">>) = "loop"
  OBVIOUS
<1>8. Head(<<"close">>) = "close"
  OBVIOUS
<1>9. Head(<<"loop", "close">>) = "loop"
  OBVIOUS
<1>10. <<"loop">> # <<>>
  OBVIOUS
<1>11. <<"close">> # <<>>
  OBVIOUS
<1>12. <<"loop", "close">> # <<>>
  OBVIOUS
<1>13. <<"loop">> # <<"close">>
  OBVIOUS
<1>14. <<"loop", "close">> # <<"loop">>
  OBVIOUS
<1> QED  BY <1>1, <1>2, <1>3, <1>4, <1>5, <1>6, <1>7, <1>8, <1>9, <1>10, <1>11, <1>12, <1>13, <1>14

(* The conjunct of QueueInv about worker w. *)
QueueInvOf(w) ==
  /\ worker[w] \in {"boot", "armed"} => queue[w] = <<>>
  /\ queue[w] \in {<<>>, <<"loop">>, <<"close">>,
                   <<"loop", "close">>}
  /\ w \notin stopReq => queue[w] \in {<<>>, <<"loop">>}
  /\ w \in closeRan => queue[w] = <<>> /\ w \in stopReq
  /\ w \in closeRan => acceptor[w] # "listening"

(* A step that leaves a worker's queue and acceptor alone, and does not    *)
(* take it back to its boot, keeps its conjunct.                           *)
LEMMA QueueFrame ==
  ASSUME NEW w \in Workers, QueueInvOf(w), queue'[w] = queue[w],
         acceptor'[w] \in {acceptor[w], "closed"},
         worker'[w] \in {"boot", "armed"} => worker[w] \in {"boot", "armed"},
         w \in stopReq' <=> w \in stopReq, w \in closeRan' <=> w \in closeRan
  PROVE  QueueInvOf(w)'
  BY DEF QueueInvOf

(* If no signal precedes the workers' co_spawn, the close handler of a     *)
(* worker is always behind its accept loop, and runs once.                 *)
LEMMA QueueStep ==
  ASSUME ~StopAnytime
  PROVE  Types /\ QueueInv /\ [Next]_vars => QueueInv'
<1> SUFFICES ASSUME Types, QueueInv, [Next]_vars PROVE QueueInv'
  OBVIOUS
<1> USE DEF Types, threads, sessions, stopping, draining
<1>0. /\ \A v \in Workers : QueueInvOf(v)
      /\ main # "serving" => \A v \in Workers : worker[v] \notin {"boot", "armed"}
      /\ main = "serving" => stopReq = {}
  BY DEF QueueInv, QueueInvOf
<1>a. SUFFICES ASSUME NEW v \in Workers
      PROVE  /\ QueueInvOf(v)'
             /\ main' # "serving" => worker'[v] \notin {"boot", "armed"}
             /\ main' = "serving" => stopReq' = {}
  BY ServerAssumption DEF QueueInv, QueueInvOf
<1>1. ASSUME NEW w \in Workers, ThreadStep(w)
      PROVE  /\ QueueInvOf(v)'
             /\ main' # "serving" => worker'[v] \notin {"boot", "armed"}
             /\ main' = "serving" => stopReq' = {}
  <2>0. main' = main /\ stopReq' = stopReq
    BY <1>1 DEF ThreadStep, Arm, Spawn, StartLoop, BindFails, RunClose,
                WorkerExits, AcceptAborted, AcceptFails, LoopEnds, Notify,
                Receive, Replied
  <2>1. CASE Arm(w)
    <3>1. main = "serving" /\ stopReq = {}
      BY <1>0, <2>1 DEF Arm
    <3>2. queue' = queue
      BY <2>1, <3>1 DEF Arm
    <3>3. worker'[v] \in {"boot", "armed"} => worker[v] \in {"boot", "armed"}
      BY <2>1 DEF Arm
    <3> QED  BY <1>0, <2>0, <2>1, <3>1, <3>2, <3>3, QueueFrame DEF Arm
  <2>2. CASE Spawn(w)
    <3>1. main = "serving" /\ stopReq = {}
      BY <1>0, <2>2 DEF Spawn
    <3>2. CASE v = w
      <4>1. queue'[w] = <<"loop">>
        <5>1. queue[w] = <<>>
          BY <1>0, <2>2 DEF Spawn, QueueInvOf
        <5> QED  BY <2>2, <5>1, ShortQueues DEF Spawn
      <4>2. worker'[w] = "running" /\ closeRan' = closeRan
        BY <2>2 DEF Spawn
      <4>3. w \notin closeRan
        BY <1>0, <3>1 DEF QueueInvOf
      <4> QED  BY <2>0, <3>1, <3>2, <4>1, <4>2, <4>3 DEF QueueInvOf
    <3>3. CASE v # w
      BY <1>0, <2>0, <2>2, <3>1, <3>3, QueueFrame DEF Spawn
    <3> QED  BY <3>2, <3>3
  <2>3. CASE StartLoop(w) \/ BindFails(w)
    <3>1. worker' = worker /\ closeRan' = closeRan
      BY <2>3 DEF StartLoop, BindFails
    <3>2. CASE v = w
      <4>1. /\ queue'[w] = Tail(queue[w]) /\ queue[w] # <<>>
            /\ Head(queue[w]) = "loop"
        BY <2>3 DEF StartLoop, BindFails, NextHandler
      <4>2. \/ queue[w] = <<"loop">> /\ queue'[w] = <<>>
            \/ queue[w] = <<"loop", "close">> /\ queue'[w] = <<"close">>
        BY <1>0, <4>1, ShortQueues DEF QueueInvOf
      <4>3. w \notin closeRan
        BY <1>0, <4>1 DEF QueueInvOf
      <4> QED  BY <1>0, <2>0, <3>1, <3>2, <4>2, <4>3, ShortQueues DEF QueueInvOf
    <3>3. CASE v # w
      <4>1. queue'[v] = queue[v] /\ acceptor'[v] = acceptor[v]
        BY <2>3, <3>3 DEF StartLoop, BindFails, NextHandler
      <4> QED  BY <1>0, <2>0, <3>1, <4>1, QueueFrame
    <3> QED  BY <3>2, <3>3
  <2>4. CASE RunClose(w)
    <3>1. worker' = worker /\ closeRan' = closeRan \cup {w}
      BY <2>4 DEF RunClose
    <3>2. CASE v = w
      <4>1. /\ queue'[w] = Tail(queue[w]) /\ queue[w] # <<>>
            /\ Head(queue[w]) = "close" /\ acceptor'[w] # "listening"
        BY <2>4 DEF RunClose, NextHandler
      <4>2. queue[w] = <<"close">> /\ queue'[w] = <<>>
        BY <1>0, <4>1, ShortQueues DEF QueueInvOf
      <4>3. w \in stopReq
        BY <1>0, <4>2, ShortQueues DEF QueueInvOf
      <4> QED  BY <1>0, <2>0, <3>1, <3>2, <4>1, <4>2, <4>3 DEF QueueInvOf
    <3>3. CASE v # w
      <4>1. queue'[v] = queue[v] /\ acceptor'[v] = acceptor[v]
        BY <2>4, <3>3 DEF RunClose, NextHandler
      <4> QED  BY <1>0, <2>0, <3>1, <3>3, <4>1, QueueFrame
    <3> QED  BY <3>2, <3>3
  <2>5. CASE \/ WorkerExits(w) \/ AcceptAborted(w) \/ AcceptFails(w)
             \/ Notify(w) \/ Receive(w) \/ Replied(w)
    <3>1. /\ queue' = queue /\ closeRan' = closeRan
          /\ acceptor'[v] \in {acceptor[v], "closed"}
          /\ worker'[v] \in {"boot", "armed"} => worker[v] \in {"boot", "armed"}
      BY <2>5 DEF WorkerExits, AcceptAborted, AcceptFails, LoopEnds, Notify,
                  Receive, Replied
    <3> QED  BY <1>0, <2>0, <3>1, QueueFrame
  <2> QED  BY <1>1, <2>1, <2>2, <2>3, <2>4, <2>5 DEF ThreadStep
<1>2. ASSUME NEW w \in Workers, NEW c \in Conns, ConnStep(w, c)
      PROVE  /\ QueueInvOf(v)'
             /\ main' # "serving" => worker'[v] \notin {"boot", "armed"}
             /\ main' = "serving" => stopReq' = {}
  <2>1. /\ UNCHANGED <<queue, acceptor, stopping>>
        /\ worker'[v] \in {"boot", "armed"} => worker[v] \in {"boot", "armed"}
    BY <1>2 DEF ConnStep, AcceptCompletes, Refuse, PassCapacity, Admit,
                Completes, HandlerRuns, WriteReturns, PeerGone,
                IdleTimeout, SocketClosed, SessionEnds
  <2> QED  BY <1>0, <2>1, QueueFrame
<1>3. CASE MainStep
  <2>1. UNCHANGED <<worker, acceptor, closeRan>>
    BY <1>3 DEF MainStep, Signal, RequestStop, StartJoining, Join
  <2>2. CASE Signal \/ StartJoining \/ Join
    <3>1. /\ UNCHANGED <<queue, stopReq>> /\ main' # "serving"
          /\ worker[v] \notin {"boot", "armed"}
      BY <1>0, <2>2 DEF Signal, StartJoining, Join
    <3> QED  BY <1>0, <2>1, <3>1, QueueFrame
  <2>3. ASSUME NEW w \in Workers, RequestStop(w)
        PROVE  /\ QueueInvOf(v)'
               /\ main' # "serving" => worker'[v] \notin {"boot", "armed"}
               /\ main' = "serving" => stopReq' = {}
    <3>1. /\ main' = main /\ main # "serving" /\ w \notin stopReq
          /\ stopReq' = stopReq \cup {w}
          /\ worker[w] \notin {"boot", "armed"}
      BY <1>0, <2>3 DEF RequestStop
    <3>2. CASE v = w
      <4>1. queue[w] \in {<<>>, <<"loop">>} /\ w \notin closeRan
        BY <1>0, <3>1 DEF QueueInvOf
      <4>2. queue'[w] = queue[w] \/ queue'[w] = Append(queue[w], "close")
        BY <2>3 DEF RequestStop
      <4>3. queue'[w] \in {<<>>, <<"loop">>, <<"close">>,
                           <<"loop", "close">>}
        BY <4>1, <4>2, ShortQueues
      <4> QED  BY <2>1, <3>1, <3>2, <4>1, <4>3 DEF QueueInvOf
    <3>3. CASE v # w
      <4>1. queue'[v] = queue[v]
        BY <2>3, <3>3 DEF RequestStop
      <4> QED  BY <1>0, <2>1, <3>1, <3>3, <4>1, QueueFrame
    <3> QED  BY <3>2, <3>3
  <2> QED  BY <1>3, <2>2, <2>3 DEF MainStep
<1>4. CASE DrainCall \/ DrainStep \/ DeadlinePasses
  <2>1. UNCHANGED <<threads, stopping>>
    BY <1>4 DEF DrainCall, DrainStep, DrainLoad, DrainCheck, DrainReturn, DrainWait,
                DeadlinePasses
  <2> QED  BY <1>0, <2>1, QueueFrame
<1>5. CASE UNCHANGED vars
  BY <1>0, <1>5, QueueFrame DEF vars
<1> QED  BY <1>1, <1>2, <1>3, <1>4, <1>5 DEF Next

(* If no signal precedes the workers' co_spawn, a worker whose close       *)
(* handler has run never listens again.                                    *)
THEOREM ListenerClosed ==
  ASSUME ~StopAnytime
  PROVE  Spec => []ListenerStaysClosed
<1>1. Init => QueueInv
  BY DEF Init, QueueInv
<1>2. Types /\ QueueInv => ListenerStaysClosed
  BY DEF QueueInv, ListenerStaysClosed, Types
<1> QED  BY <1>1, <1>2, QueueStep, TypesCorrect, PTL DEF Spec
-----------------------------------------------------------------------------
(* Whenever the signal comes: a worker is asked to stop once and spawns    *)
(* its loop once, so its queue holds each handler at most once, and the    *)
(* loop that is queued has not begun.                                      *)
OnceInvOf(w) ==
  /\ queue[w] \in {<<>>, <<"loop">>, <<"close">>,
                   <<"loop", "close">>, <<"close", "loop">>}
  /\ queue[w] \notin {<<>>, <<"close">>} =>
       loop[w] = "none" /\ worker[w] \notin {"boot", "armed"}
  /\ worker[w] \in {"boot", "armed"} => loop[w] = "none"
  /\ worker[w] = "boot" => queue[w] = <<>>
  /\ w \notin stopReq => queue[w] \in {<<>>, <<"loop">>}

OnceInv == \A w \in Workers : OnceInvOf(w)

(* The other order of the two handlers, computed. *)
LEMMA CloseBeforeLoop ==
  /\ Append(<<"close">>, "loop") = <<"close", "loop">>
  /\ Tail(<<"close", "loop">>) = <<"loop">>
  /\ Head(<<"close", "loop">>) = "close"
  /\ <<"close", "loop">> # <<>> /\ <<"close", "loop">> # <<"close">>
  /\ <<"close", "loop">> # <<"loop">>
<1>1. Append(<<"close">>, "loop") = <<"close", "loop">>
  <2> DEFINE s == <<"close">>
             t == <<"close", "loop">>
             a == Append(s, "loop")
  <2>1. /\ s \in Seq(Handlers) /\ t \in Seq(Handlers) /\ "loop" \in Handlers
        /\ Len(s) = 1 /\ Len(t) = 2
    BY DEF Handlers
  <2>2. a \in Seq(Handlers) /\ Len(a) = 2 /\ a[1] = s[1] /\ a[2] = "loop"
    BY <2>1, AppendProperties
  <2>3. \A i \in 1..Len(t) : a[i] = t[i]
    BY <2>1, <2>2
  <2> HIDE DEF s, t, a
  <2>4. a = t
    BY <2>1, <2>2, <2>3, SeqEqual
  <2> QED  BY <2>4 DEF s, t, a
<1>2. Tail(<<"close", "loop">>) = <<"loop">>
  OBVIOUS
<1>3. Head(<<"close", "loop">>) = "close"
  OBVIOUS
<1>4. <<"close", "loop">> # <<>> /\ <<"close", "loop">> # <<"close">>
  OBVIOUS
<1>5. <<"close", "loop">> # <<"loop">>
  OBVIOUS
<1> QED  BY <1>1, <1>2, <1>3, <1>4, <1>5

(* What the handler at the head of a queue leaves behind it. *)
LEMMA HeadLeaves ==
  ASSUME Types, NEW w \in Workers, OnceInvOf(w), NEW h, NextHandler(w, h)
  PROVE  /\ h = "loop" => queue[w] \in {<<"loop">>, <<"loop", "close">>}
         /\ h = "close" => queue[w] \in {<<"close">>, <<"close", "loop">>}
         /\ queue[w] = <<"loop">> => queue'[w] = <<>>
         /\ queue[w] = <<"close">> => queue'[w] = <<>>
         /\ queue[w] = <<"loop", "close">> => queue'[w] = <<"close">>
         /\ queue[w] = <<"close", "loop">> => queue'[w] = <<"loop">>
<1>1. /\ queue'[w] = Tail(queue[w]) /\ queue[w] # <<>> /\ Head(queue[w]) = h
  BY DEF NextHandler, Types
<1>2. queue[w] \in {<<"loop">>, <<"close">>, <<"loop", "close">>, <<"close", "loop">>}
  BY <1>1 DEF OnceInvOf
<1> QED  BY <1>1, <1>2, ShortQueues, CloseBeforeLoop

(* A step that leaves a worker's queue and its request alone, does not     *)
(* take it back to its boot, and does not take its loop back, keeps its    *)
(* conjunct.                                                               *)
LEMMA OnceFrame ==
  ASSUME NEW w \in Workers, OnceInvOf(w), queue'[w] = queue[w],
         loop[w] = "none" => loop'[w] = "none",
         worker'[w] \in {"boot", "armed"} => worker'[w] = worker[w],
         w \in stopReq' <=> w \in stopReq
  PROVE  OnceInvOf(w)'
  BY DEF OnceInvOf

(* Each handler is queued once. *)
LEMMA OnceStep == Types /\ OnceInv /\ [Next]_vars => OnceInv'
<1> SUFFICES ASSUME Types, OnceInv, [Next]_vars, NEW v \in Workers
             PROVE  OnceInvOf(v)'
  BY DEF OnceInv
<1> USE DEF Types, threads, sessions, stopping, draining
<1>0. OnceInvOf(v)
  BY DEF OnceInv
<1>1. ASSUME NEW w \in Workers, ThreadStep(w) PROVE OnceInvOf(v)'
  <2>0. stopReq' = stopReq
    BY <1>1 DEF ThreadStep, Arm, Spawn, StartLoop, BindFails, RunClose,
                WorkerExits, AcceptAborted, AcceptFails, LoopEnds, Notify,
                Receive, Replied
  <2>1. CASE Arm(w)
    <3>1. CASE v = w
      <4>1. /\ worker[w] = "boot" /\ worker'[w] = "armed" /\ loop' = loop
            /\ queue'[w] = IF w \in stopReq THEN <<"close">> ELSE queue[w]
        BY <2>1 DEF Arm
      <4>2. queue[w] = <<>> /\ loop[w] = "none"
        BY <1>0, <3>1, <4>1 DEF OnceInvOf
      <4>3. queue'[w] = <<>> \/ (w \in stopReq /\ queue'[w] = <<"close">>)
        BY <4>1, <4>2
      <4> QED  BY <2>0, <3>1, <4>1, <4>2, <4>3 DEF OnceInvOf
    <3>2. CASE v # w
      <4>1. queue'[v] = queue[v] /\ worker'[v] = worker[v] /\ loop' = loop
        BY <2>1, <3>2 DEF Arm
      <4> QED  BY <1>0, <2>0, <4>1, OnceFrame
    <3> QED  BY <3>1, <3>2
  <2>2. CASE Spawn(w)
    <3>1. CASE v = w
      <4>1. /\ worker[w] = "armed" /\ worker'[w] = "running" /\ loop' = loop
            /\ queue'[w] = Append(queue[w], "loop")
        BY <2>2 DEF Spawn
      <4>2. /\ loop[w] = "none" /\ queue[w] \in {<<>>, <<"close">>}
            /\ w \notin stopReq => queue[w] \in {<<>>, <<"loop">>}
        BY <1>0, <3>1, <4>1 DEF OnceInvOf
      <4>3. \/ queue[w] = <<>> /\ queue'[w] = <<"loop">>
            \/ queue[w] = <<"close">> /\ queue'[w] = <<"close", "loop">>
        BY <4>1, <4>2, ShortQueues, CloseBeforeLoop
      <4> QED  BY <2>0, <3>1, <4>1, <4>2, <4>3, ShortQueues, CloseBeforeLoop
                  DEF OnceInvOf
    <3>2. CASE v # w
      <4>1. queue'[v] = queue[v] /\ worker'[v] = worker[v] /\ loop' = loop
        BY <2>2, <3>2 DEF Spawn
      <4> QED  BY <1>0, <2>0, <4>1, OnceFrame
    <3> QED  BY <3>1, <3>2
  <2>3. CASE StartLoop(w) \/ BindFails(w)
    <3>0. worker' = worker /\ NextHandler(w, "loop")
      BY <2>3 DEF StartLoop, BindFails
    <3>1. CASE v = w
      <4>1. \/ queue[w] = <<"loop">> /\ queue'[w] = <<>>
            \/ queue[w] = <<"loop", "close">> /\ queue'[w] = <<"close">>
        BY <1>0, <3>0, <3>1, HeadLeaves
      <4>2. worker[w] = "running"
        BY <3>0 DEF NextHandler
      <4>3. queue[w] = <<"loop", "close">> => w \in stopReq
        BY <1>0, <3>1, ShortQueues DEF OnceInvOf
      <4> QED  BY <2>0, <3>0, <3>1, <4>1, <4>2, <4>3 DEF OnceInvOf
    <3>2. CASE v # w
      <4>1. queue'[v] = queue[v] /\ loop'[v] = loop[v]
        BY <2>3, <3>2 DEF StartLoop, BindFails, NextHandler
      <4> QED  BY <1>0, <2>0, <3>0, <4>1, OnceFrame
    <3> QED  BY <3>1, <3>2
  <2>4. CASE RunClose(w)
    <3>0. worker' = worker /\ loop' = loop /\ NextHandler(w, "close")
      BY <2>4 DEF RunClose
    <3>1. CASE v = w
      <4>1. \/ queue[w] = <<"close">> /\ queue'[w] = <<>>
            \/ queue[w] = <<"close", "loop">> /\ queue'[w] = <<"loop">>
        BY <1>0, <3>0, <3>1, HeadLeaves
      <4>2. worker[w] = "running"
        BY <3>0 DEF NextHandler
      <4>3. queue[w] = <<"close", "loop">> => loop[w] = "none"
        BY <1>0, <3>1, CloseBeforeLoop DEF OnceInvOf
      <4> QED  BY <2>0, <3>0, <3>1, <4>1, <4>2, <4>3 DEF OnceInvOf
    <3>2. CASE v # w
      <4>1. queue'[v] = queue[v]
        BY <2>4, <3>2 DEF RunClose, NextHandler
      <4> QED  BY <1>0, <2>0, <3>0, <4>1, OnceFrame
    <3> QED  BY <3>1, <3>2
  <2>5. CASE \/ WorkerExits(w) \/ AcceptAborted(w) \/ AcceptFails(w)
             \/ Notify(w) \/ Receive(w) \/ Replied(w)
    <3>1. /\ queue' = queue /\ (loop[v] = "none" => loop'[v] = "none")
          /\ worker'[v] \in {"boot", "armed"} => worker'[v] = worker[v]
      BY <2>5 DEF WorkerExits, AcceptAborted, AcceptFails, LoopEnds, Notify,
                  Receive, Replied
    <3> QED  BY <1>0, <2>0, <3>1, OnceFrame
  <2> QED  BY <1>1, <2>1, <2>2, <2>3, <2>4, <2>5 DEF ThreadStep
<1>2. ASSUME NEW w \in Workers, NEW c \in Conns, ConnStep(w, c)
      PROVE  OnceInvOf(v)'
  <2>1. /\ UNCHANGED <<queue, stopReq>> /\ (loop[v] = "none" => loop'[v] = "none")
        /\ worker'[v] \in {"boot", "armed"} => worker'[v] = worker[v]
    BY <1>2 DEF ConnStep, AcceptCompletes, Refuse, PassCapacity, Admit, Accepted,
                Completes, HandlerRuns, WriteReturns, PeerGone,
                IdleTimeout, SocketClosed, SessionEnds
  <2> QED  BY <1>0, <2>1, OnceFrame
<1>3. CASE MainStep
  <2>1. UNCHANGED <<worker, loop>>
    BY <1>3 DEF MainStep, Signal, RequestStop, StartJoining, Join
  <2>2. CASE Signal \/ StartJoining \/ Join
    BY <1>0, <2>1, <2>2, OnceFrame DEF Signal, StartJoining, Join
  <2>3. ASSUME NEW w \in Workers, RequestStop(w) PROVE OnceInvOf(v)'
    <3>1. w \notin stopReq /\ stopReq' = stopReq \cup {w}
      BY <2>3 DEF RequestStop
    <3>2. CASE v = w
      <4>1. queue[w] \in {<<>>, <<"loop">>}
        BY <1>0, <3>1, <3>2 DEF OnceInvOf
      <4>2. \/ queue'[w] = queue[w]
            \/ worker[w] # "boot" /\ queue'[w] = Append(queue[w], "close")
        BY <2>3 DEF RequestStop
      <4>3. CASE queue'[w] = queue[w]
        BY <1>0, <2>1, <3>1, <3>2, <4>3 DEF OnceInvOf
      <4>4. CASE worker[w] # "boot" /\ queue'[w] = Append(queue[w], "close")
        <5>1. \/ queue[w] = <<>> /\ queue'[w] = <<"close">>
              \/ queue[w] = <<"loop">> /\ queue'[w] = <<"loop", "close">>
          BY <4>1, <4>4, ShortQueues
        <5>2. queue[w] = <<"loop">> =>
                loop[w] = "none" /\ worker[w] \notin {"boot", "armed"}
          BY <1>0, <3>2, ShortQueues DEF OnceInvOf
        <5>3. worker[w] = "armed" => loop[w] = "none"
          BY <1>0, <3>2 DEF OnceInvOf
        <5> QED  BY <2>1, <3>1, <3>2, <4>4, <5>1, <5>2, <5>3 DEF OnceInvOf
      <4> QED  BY <4>2, <4>3, <4>4
    <3>3. CASE v # w
      <4>1. queue'[v] = queue[v]
        BY <2>3, <3>3 DEF RequestStop
      <4> QED  BY <1>0, <2>1, <3>1, <3>3, <4>1, OnceFrame
    <3> QED  BY <3>2, <3>3
  <2> QED  BY <1>3, <2>2, <2>3 DEF MainStep
<1>4. CASE DrainCall \/ DrainStep \/ DeadlinePasses
  <2>1. UNCHANGED <<threads, stopping>>
    BY <1>4 DEF DrainCall, DrainStep, DrainLoad, DrainCheck, DrainReturn, DrainWait,
                DeadlinePasses
  <2> QED  BY <1>0, <2>1, OnceFrame
<1>5. CASE UNCHANGED vars
  BY <1>0, <1>5, OnceFrame DEF vars
<1> QED  BY <1>1, <1>2, <1>3, <1>4, <1>5 DEF Next
-----------------------------------------------------------------------------
(* A connection that is accepted and not yet admitted is the one its       *)
(* worker's accept loop has in hand.                                       *)
HandedOver ==
  \A c \in Conns : conn[c] = "accepted" =>
    /\ loop[owner[c]] = "completed"
    /\ \A d \in Conns : conn[d] = "accepted" /\ owner[d] = owner[c] => d = c

(* A thread that is past run() has no loop, no socket and no session; and  *)
(* every thread is, once stop() has joined them.                           *)
ExitedInvOf(w) ==
  worker[w] = "exited" =>
    loop[w] = "ended" /\ acceptor[w] = "closed" /\ SessionsOf(w) = {}

ExitedInv ==
  /\ \A w \in Workers : ExitedInvOf(w)
  /\ main = "stopped" => \A w \in Workers : worker[w] = "exited"

(* A step that accepts nothing, and touches the loop of no worker that has *)
(* a connection in hand, keeps HandedOver.                                 *)
LEMMA HandedFrame ==
  ASSUME HandedOver,
         \A c \in Conns : conn'[c] = "accepted" =>
           /\ conn[c] = "accepted" /\ owner'[c] = owner[c]
           /\ loop'[owner[c]] = loop[owner[c]]
  PROVE  HandedOver'
  BY DEF HandedOver

(* Each step keeps it. *)
LEMMA HandedStep ==
  Types /\ CountInv /\ OnceInv /\ HandedOver /\ [Next]_vars => HandedOver'
<1> SUFFICES ASSUME Types, CountInv, OnceInv, HandedOver, [Next]_vars
             PROVE  HandedOver'
  OBVIOUS
<1> USE DEF Types, threads, sessions, stopping, draining
<1>0. \A c \in Conns : conn[c] = "accepted" => owner[c] \in Workers
  BY DEF CountInv
<1>1. ASSUME NEW w \in Workers, ThreadStep(w) PROVE HandedOver'
  <2>0. conn' = conn /\ owner' = owner
    BY <1>1 DEF ThreadStep, Arm, Spawn, StartLoop, BindFails, RunClose,
                WorkerExits, AcceptAborted, AcceptFails, LoopEnds, Notify,
                Receive, Replied
  <2>1. loop' = loop \/ (loop[w] # "completed" /\ \E l : loop' = [loop EXCEPT ![w] = l])
    <3>1. NextHandler(w, "loop") => loop[w] = "none"
      <4>1. NextHandler(w, "loop") => queue[w] \in {<<"loop">>, <<"loop", "close">>}
        BY HeadLeaves DEF OnceInv
      <4> QED  BY <4>1, ShortQueues DEF OnceInv, OnceInvOf
    <3> QED  BY <1>1, <3>1
             DEF ThreadStep, Arm, Spawn, StartLoop, BindFails, RunClose,
                 WorkerExits, AcceptAborted, AcceptFails, LoopEnds, Notify,
                 Receive, Replied
  <2>2. \A c \in Conns : conn[c] = "accepted" => loop'[owner[c]] = loop[owner[c]]
    BY <1>0, <2>1 DEF HandedOver
  <2> QED  BY <2>0, <2>2, HandedFrame
<1>2. ASSUME NEW w \in Workers, NEW c \in Conns, ConnStep(w, c)
      PROVE  HandedOver'
  <2>1. CASE AcceptCompletes(w, c)
    <3>1. /\ loop[w] = "accepting" /\ loop' = [loop EXCEPT ![w] = "completed"]
          /\ conn' = [conn EXCEPT ![c] = "accepted"]
          /\ owner' = [owner EXCEPT ![c] = w]
      BY <2>1 DEF AcceptCompletes
    <3>2. \A d \in Conns : conn[d] = "accepted" => owner[d] # w
      BY <3>1 DEF HandedOver
    <3> QED  BY <1>0, <3>1, <3>2 DEF HandedOver
  <2>2. CASE Refuse(w, c) \/ Admit(w, c)
    <3>1. /\ conn[c] = "accepted" /\ owner[c] = w
          /\ conn' = [conn EXCEPT ![c] = conn'[c]] /\ conn'[c] # "accepted"
          /\ owner' = [owner EXCEPT ![c] = owner'[c]]
          /\ loop' = [loop EXCEPT ![w] = "accepting"]
      BY <2>2 DEF Refuse, Admit, Accepted, Forget
    <3>2. \A d \in Conns : conn[d] = "accepted" /\ owner[d] = w => d = c
      BY <3>1 DEF HandedOver
    <3>3. \A d \in Conns : conn'[d] = "accepted" =>
            conn[d] = "accepted" /\ owner'[d] = owner[d] /\ owner[d] # w
      BY <3>1, <3>2
    <3> QED  BY <1>0, <3>1, <3>3, HandedFrame
  <2>3. ASSUME SessionEnds(w, c) PROVE HandedOver'
    <3>1. /\ loop' = loop /\ conn' = [conn EXCEPT ![c] = "idle"]
          /\ owner' = [owner EXCEPT ![c] = NoWorker]
      BY <2>3 DEF SessionEnds, Forget
    <3> QED  BY <3>1, HandedFrame
  <2>4. CASE HandlerRuns(w, c) /\ ~SessionEnds(w, c)
    <3>1. /\ loop' = loop /\ owner' = owner
          /\ \E k \in InService : conn' = [conn EXCEPT ![c] = k]
      BY <2>4 DEF HandlerRuns, InService
    <3> QED  BY <3>1, HandedFrame DEF InService
  <2>5. CASE Completes(w, c) \/ WriteReturns(w, c)
    <3>1. /\ loop' = loop /\ owner' = owner
          /\ \E k \in InService : conn' = [conn EXCEPT ![c] = k]
      BY <2>5 DEF Completes, WriteReturns, InService
    <3> QED  BY <3>1, HandedFrame DEF InService
  <2>6. CASE PassCapacity(w, c)
    BY <2>6, HandedFrame DEF PassCapacity
  <2> QED  BY <1>2, <2>1, <2>2, <2>3, <2>4, <2>5, <2>6
           DEF ConnStep, PeerGone, IdleTimeout, SocketClosed
<1>3. CASE MainStep \/ DrainCall \/ DrainStep \/ DeadlinePasses \/ UNCHANGED vars
  <2>1. UNCHANGED <<conn, owner, loop>>
    BY <1>3 DEF MainStep, Signal, RequestStop, StartJoining, Join, DrainCall,
                DrainStep, DrainLoad, DrainCheck, DrainReturn, DrainWait,
                DeadlinePasses, vars
  <2> QED  BY <2>1, HandedFrame
<1> QED  BY <1>1, <1>2, <1>3 DEF Next

(* A thread that has left run() takes no further step, and nobody hands it *)
(* a connection.                                                           *)
LEMMA ExitedStep ==
  Types /\ ExitedInv /\ [Next]_vars => ExitedInv'
<1> SUFFICES ASSUME Types, ExitedInv, [Next]_vars PROVE ExitedInv'
  OBVIOUS
<1> USE DEF Types, threads, sessions, stopping, draining
<1>1. ASSUME NEW w \in Workers, ThreadStep(w) PROVE ExitedInv'
  <2>0. UNCHANGED <<conn, owner, main>>
    BY <1>1 DEF ThreadStep, Arm, Spawn, StartLoop, BindFails, RunClose,
                WorkerExits, AcceptAborted, AcceptFails, LoopEnds, Notify,
                Receive, Replied
  <2>1. \A v \in Workers : SessionsOf(v)' = SessionsOf(v)
    BY <2>0 DEF SessionsOf
  <2>2. CASE WorkerExits(w)
    BY <2>0, <2>1, <2>2 DEF WorkerExits, ExitedInv, ExitedInvOf
  <2>3. CASE ~WorkerExits(w)
    <3>1. /\ worker[w] # "exited" /\ worker'[w] # "exited"
          /\ \A v \in Workers \ {w} : /\ worker'[v] = worker[v]
                                      /\ loop'[v] = loop[v]
                                      /\ acceptor'[v] = acceptor[v]
      BY <1>1, <2>3 DEF ThreadStep, Arm, Spawn, StartLoop, BindFails, RunClose,
                        NextHandler, AcceptAborted, AcceptFails, LoopEnds,
                        Notify, Receive, Replied
    <3> QED  BY <2>0, <2>1, <3>1 DEF ExitedInv, ExitedInvOf
  <2> QED  BY <2>2, <2>3
<1>2. ASSUME NEW w \in Workers, NEW c \in Conns, ConnStep(w, c)
      PROVE  ExitedInv'
  <2>1. /\ worker[w] # "exited" /\ worker'[w] # "exited"
        /\ \A v \in Workers \ {w} : /\ worker'[v] = worker[v]
                                    /\ loop'[v] = loop[v]
        /\ UNCHANGED <<acceptor, main>>
    BY <1>2 DEF ConnStep, AcceptCompletes, Refuse, PassCapacity, Admit,
                Completes, HandlerRuns, WriteReturns, PeerGone,
                IdleTimeout, SocketClosed, SessionEnds, InSession
  <2>2. \A v \in Workers \ {w} : SessionsOf(v)' \subseteq SessionsOf(v)
    <3>1. \A d \in Conns \ {c} : conn'[d] = conn[d] /\ owner'[d] = owner[d]
      BY <1>2 DEF ConnStep, AcceptCompletes, Refuse, PassCapacity, Admit,
                  Completes, HandlerRuns, WriteReturns, PeerGone,
                  IdleTimeout, SocketClosed, SessionEnds, Forget
    <3>2. owner'[c] \in {w, NoWorker}
      BY <1>2 DEF ConnStep, AcceptCompletes, Refuse, PassCapacity, Admit, Accepted,
                  Completes, HandlerRuns, WriteReturns, PeerGone,
                  IdleTimeout, SocketClosed, SessionEnds, Forget, InSession
    <3> QED  BY <3>1, <3>2, ServerAssumption DEF SessionsOf
  <2> QED  BY <2>1, <2>2 DEF ExitedInv, ExitedInvOf
<1>3. CASE MainStep
  <2>1. UNCHANGED <<worker, acceptor, loop, conn, owner>>
    BY <1>3 DEF MainStep, Signal, RequestStop, StartJoining, Join
  <2>2. main' = "stopped" => \A w \in Workers : worker[w] = "exited"
    BY <1>3 DEF MainStep, Signal, RequestStop, StartJoining, Join, ExitedInv
  <2> QED  BY <2>1, <2>2 DEF ExitedInv, ExitedInvOf, SessionsOf
<1>4. CASE DrainCall \/ DrainStep \/ DeadlinePasses \/ UNCHANGED vars
  <2>1. UNCHANGED <<threads, sessions, main>>
    BY <1>4 DEF DrainCall, DrainStep, DrainLoad, DrainCheck, DrainReturn,
                DrainWait, DeadlinePasses, vars
  <2> QED  BY <2>1 DEF ExitedInv, ExitedInvOf, SessionsOf
<1> QED  BY <1>1, <1>2, <1>3, <1>4 DEF Next

(* A session leaves the closed and the late connections only with its      *)
(* registry, and a worker past its stop handler admits only late ones.     *)
LEMMA ReachStep ==
  Types /\ CountInv /\ CloseReachesEarlier /\ [Next]_vars => CloseReachesEarlier'
<1> SUFFICES ASSUME Types, CountInv, CloseReachesEarlier, [Next]_vars
             PROVE  CloseReachesEarlier'
  OBVIOUS
<1>a. Types'
  BY TypeStep
<1> SUFFICES ASSUME NEW v \in Workers, v \in closeRan'
               PROVE  registry'[v] \subseteq closed' \cup late'
  BY <1>a DEF CloseReachesEarlier, Types
<1> USE DEF Types, threads, sessions, stopping, draining
<1>0. v \in closeRan => registry[v] \subseteq closed \cup late
  BY DEF CloseReachesEarlier
<1>1. ASSUME NEW w \in Workers, RunClose(w)
      PROVE  registry'[v] \subseteq closed' \cup late'
  <2>1. /\ UNCHANGED <<registry, late>> /\ closed' = closed \cup registry[w]
        /\ closeRan' = closeRan \cup {w}
    BY <1>1 DEF RunClose
  <2> QED  BY <1>0, <2>1
<1>2. ASSUME NEW w \in Workers, NEW c \in Conns, InSession(w, c, InService),
             SessionEnds(w, c)
      PROVE  registry'[v] \subseteq closed' \cup late'
  <2>1. /\ closed' = closed \ {c} /\ late' = late \ {c} /\ closeRan' = closeRan
        /\ registry' = [registry EXCEPT ![w] = @ \ {c}]
    BY <1>2 DEF SessionEnds
  <2>2. c \notin registry'[v]
    BY <1>2, <2>1 DEF InSession, CountInv, CountExact, SessionsOf
  <2>3. registry'[v] \subseteq registry[v]
    BY <2>1
  <2> QED  BY <1>0, <2>1, <2>2, <2>3
<1>3. ASSUME NEW w \in Workers, NEW c \in Conns, Admit(w, c)
      PROVE  registry'[v] \subseteq closed' \cup late'
  <2>1. /\ UNCHANGED <<closed, closeRan>>
        /\ late' = IF w \in closeRan THEN late \cup {c} ELSE late
        /\ registry' = [registry EXCEPT ![w] = @ \cup {c}]
    BY <1>3 DEF Admit
  <2> QED  BY <1>0, <2>1
<1>4. CASE \/ UNCHANGED <<registry, late, closed, closeRan>>
           \/ \E c \in Conns : /\ closed' \in {closed, closed \cup {c}}
                               /\ UNCHANGED <<registry, late, closeRan>>
  BY <1>0, <1>4
<1>5. ASSUME NEW w \in Workers, ThreadStep(w), ~RunClose(w)
      PROVE  UNCHANGED <<registry, late, closed, closeRan>>
  BY <1>5 DEF ThreadStep, Arm, Spawn, StartLoop, BindFails, WorkerExits,
              AcceptAborted, AcceptFails, LoopEnds, Notify, Receive, Replied
<1>6. ASSUME NEW w \in Workers, NEW c \in Conns, ConnStep(w, c)
      PROVE  registry'[v] \subseteq closed' \cup late'
  <2>1. CASE HandlerRuns(w, c) /\ ~SessionEnds(w, c)
    <3>1. /\ closed' \in {closed, closed \cup {c}}
          /\ UNCHANGED <<registry, late, closeRan>>
      BY <2>1 DEF HandlerRuns
    <3> QED  BY <1>4, <3>1
  <2>2. CASE HandlerRuns(w, c) /\ SessionEnds(w, c)
    <3>1. InSession(w, c, InService)
      BY <2>2 DEF HandlerRuns, InSession, InService
    <3> QED  BY <1>2, <2>2, <3>1
  <2>3. CASE PeerGone(w, c) \/ IdleTimeout(w, c) \/ SocketClosed(w, c)
    <3>1. InSession(w, c, InService) /\ SessionEnds(w, c)
      BY <2>3 DEF PeerGone, IdleTimeout, SocketClosed, InSession, InService
    <3> QED  BY <1>2, <3>1
  <2>4. CASE Completes(w, c) \/ WriteReturns(w, c)
    BY <1>4, <2>4 DEF Completes, WriteReturns
  <2>5. CASE AcceptCompletes(w, c) \/ Refuse(w, c) \/ PassCapacity(w, c)
    BY <1>4, <2>5 DEF AcceptCompletes, Refuse, PassCapacity
  <2> QED  BY <1>3, <1>6, <2>1, <2>2, <2>3, <2>4, <2>5 DEF ConnStep
<1>7. CASE MainStep \/ DrainCall \/ DrainStep \/ DeadlinePasses \/ UNCHANGED vars
  <2>1. UNCHANGED <<registry, late, closed, closeRan>>
    BY <1>7 DEF MainStep, Signal, RequestStop, StartJoining, Join, DrainCall,
                DrainStep, DrainLoad, DrainCheck, DrainReturn, DrainWait,
                DeadlinePasses, vars
  <2> QED  BY <1>4, <2>1
<1> QED  BY <1>1, <1>4, <1>5, <1>6, <1>7 DEF Next

(* The invariants about the end of a server hold in every behaviour. *)
THEOREM StopInvariant ==
  Spec => [](OnceInv /\ HandedOver /\ ExitedInv /\ CloseReachesEarlier)
<1> DEFINE Inv == OnceInv /\ HandedOver /\ ExitedInv /\ CloseReachesEarlier
<1>1. Init => Inv
  BY DEF Init, OnceInv, OnceInvOf, HandedOver, ExitedInv, ExitedInvOf,
         CloseReachesEarlier
<1>2. (Types /\ CountInv) /\ Inv /\ [Next]_vars => Inv'
  BY OnceStep, HandedStep, ExitedStep, ReachStep
<1> HIDE DEF Inv
<1>3. Spec => []Inv
  BY <1>1, <1>2, CountInvariant, PTL DEF Spec
<1> QED  BY <1>3 DEF Inv

(* A thread that is past run() owns no connection and no socket, and once  *)
(* stop() has joined every thread the count is back at zero.               *)
THEOREM StoppedQuiet == Spec => []StoppedIsQuiet
<1>1. Types /\ CountInv /\ HandedOver /\ ExitedInv => StoppedIsQuiet
  <2> SUFFICES ASSUME Types, CountInv, HandedOver, ExitedInv
               PROVE  StoppedIsQuiet
    OBVIOUS
  <2>1. ASSUME NEW w \in Workers, worker[w] = "exited", NEW c \in Conns
        PROVE  owner[c] # w
    <3> SUFFICES ASSUME owner[c] = w PROVE FALSE
      OBVIOUS
    <3>1. loop[w] = "ended" /\ SessionsOf(w) = {}
      BY <2>1 DEF ExitedInv, ExitedInvOf
    <3>2. conn[c] # "idle"
      BY ServerAssumption DEF CountInv
    <3>3. conn[c] # "accepted"
      BY <3>1 DEF HandedOver
    <3>4. c \in SessionsOf(w)
      BY <3>2, <3>3 DEF SessionsOf, Types
    <3> QED  BY <3>1, <3>4
  <2>2. ASSUME NEW w \in Workers, worker[w] = "exited"
        PROVE  acceptor[w] = "closed" /\ registry[w] = {}
    BY <2>2 DEF ExitedInv, ExitedInvOf, CountInv, CountExact
  <2>3. ASSUME main = "stopped" PROVE active = 0
    <3>1. Served = {}
      <4> SUFFICES ASSUME NEW c \in Conns, conn[c] \in InService PROVE FALSE
        BY DEF Served
      <4>1. owner[c] \in Workers
        BY DEF CountInv, Types, InService
      <4>2. worker[owner[c]] = "exited"
        BY <2>3, <4>1 DEF ExitedInv
      <4> QED  BY <2>1, <4>1, <4>2
    <3> QED  BY <3>1, FS_EmptySet DEF CountInv, CountExact, Served
  <2> QED  BY <2>1, <2>2, <2>3 DEF StoppedIsQuiet
<1> QED  BY <1>1, CountInvariant, StopInvariant, PTL

(* The stop handler of a worker closes every session it had admitted; only *)
(* one that it admits afterwards can stay open.                            *)
THEOREM CloseReaches == Spec => []CloseReachesEarlier
  BY StopInvariant, PTL
=============================================================================
