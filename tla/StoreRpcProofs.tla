--------------------------- MODULE StoreRpcProofs ---------------------------
(* Proofs about StoreRpc, for any callers, keys, connections and capacity: *)
(* the Internal server keeps to its capacity, and through refusals, broken *)
(* connections and restarts the calls keep the promise of StoreCalls.      *)
EXTENDS StoreRpc, FiniteSetTheorems, TLAPS

Results == Values \cup {"miss", "ok"}

Types ==
  /\ store \in [Keys -> Values \cup {"none"}]
  /\ loop \in {"accepting", "ended", "exited"}
  /\ call \in [Callers -> Requests \cup {NoCall}]
  /\ at \in [Callers -> {"idle", "connecting", "writing", "reading", "done"}]
  /\ link \in [Callers -> Conns \cup {NoConn}]
  /\ outcome \in [Callers -> Values \cup {"none", "miss", "ok", "failed"}]
  /\ user \in [Conns -> Callers \cup {"gone"}]
  /\ server \in [Conns -> {"free", "backlog", "session", "closed"}]
  /\ request \in [Conns -> Requests \cup {NoCall, Rejected}]
  /\ reply \in [Conns -> Values \cup {"none", "miss", "ok"}]

(* A caller in its call has the client's end of one connection from the    *)
(* connect to the return, and what the call is to return at the end.       *)
CallerInv ==
  \A s \in Callers :
    /\ call[s] # NoCall <=> at[s] # "idle"
    /\ outcome[s] # "none" <=> at[s] = "done"
    /\ link[s] # NoConn <=> at[s] \in {"writing", "reading"}
    /\ link[s] # NoConn => user[link[s]] = s

(* What is on a connection: nothing on a free one, no request at a closed  *)
(* end, no reply without a reader, and the request that its caller sent,   *)
(* once, until it is answered.                                             *)
ConnInv ==
  \A c \in Conns :
    /\ user[c] # "gone" => link[user[c]] = c
    /\ server[c] = "free" => user[c] = "gone"
    /\ server[c] = "closed" => user[c] # "gone"
    /\ request[c] # NoCall => server[c] \in {"backlog", "session"}
    /\ reply[c] # "none" => user[c] # "gone" /\ request[c] = NoCall
    /\ user[c] # "gone" /\ at[user[c]] = "writing" =>
         request[c] = NoCall /\ reply[c] = "none"
    /\ user[c] # "gone" => request[c] \in {NoCall, Rejected, call[user[c]]}

CapacityInv == Active <= Capacity

IInv == Types /\ CallerInv /\ ConnInv /\ CapacityInv
-----------------------------------------------------------------------------
(* What a request is made of, and what is no request. *)
LEMMA RequestParts ==
  /\ \A r \in Requests :
       /\ r # NoCall /\ r # Rejected
       /\ r.op \in {"get", "take", "put", "list"}
       /\ r.op \in {"get", "take", "put"} => r.key \in Keys
       /\ r.op = "put" => r.value \in Values
  /\ NoCall # Rejected
  /\ NoCall.op \notin {"take", "put"} /\ Rejected.op \notin {"take", "put"}
  BY DEF Requests, Calls!Requests, NoCall, Calls!NoCall, Rejected

(* What serving a request does to the store, and what it returns. *)
LEMMA ApplyCases ==
  ASSUME NEW r \in Requests, Calls!Apply(r)
  PROVE  /\ r.op = "take" => store' = [store EXCEPT ![r.key] = "none"]
         /\ r.op = "put" => store' = [store EXCEPT ![r.key] = r.value]
         /\ r.op \in {"get", "list"} => store' = store
  BY DEF Calls!Apply

LEMMA ServeTypes ==
  ASSUME store \in [Keys -> Values \cup {"none"}], NEW r \in Requests,
         Calls!Apply(r)
  PROVE  /\ store' \in [Keys -> Values \cup {"none"}]
         /\ Calls!Returns(r) \in Results
<1>1. store' \in [Keys -> Values \cup {"none"}]
  BY ApplyCases, RequestParts
<1>2. Calls!Returns(r) \in Results
  BY RequestParts DEF Calls!Returns, Calls!Lookup, Results
<1> QED  BY <1>1, <1>2
(* A step keeps the types of the variables. *)
LEMMA TypesStep == Types /\ CallerInv /\ [Next]_vars => Types'
<1> SUFFICES ASSUME Types, CallerInv, [Next]_vars PROVE Types'
  OBVIOUS
<1> USE RpcAssumption, RequestParts DEF Types, client, wire
<1>1. ASSUME NEW s \in Callers, NEW r \in Requests, Call(s, r) PROVE Types'
  BY <1>1 DEF Call
<1>2. ASSUME NEW s \in Callers, ConnectFails(s) PROVE Types'
  BY <1>2 DEF ConnectFails
<1>3. ASSUME NEW s \in Callers, NEW c \in Conns, Connect(s, c) PROVE Types'
  BY <1>3 DEF Connect
<1>4. ASSUME NEW s \in Callers, Write(s) PROVE Types'
  BY <1>4 DEF Write
<1>5. ASSUME NEW s \in Callers, ReadReply(s) PROVE Types'
  <2>1. link[s] \in Conns
    BY <1>5 DEF ReadReply, CallerInv
  <2> QED  BY <1>5, <2>1 DEF ReadReply, Return
<1>6. ASSUME NEW s \in Callers, SocketFails(s) PROVE Types'
  BY <1>6 DEF SocketFails, Return
<1>7. ASSUME NEW s \in Callers, Resume(s) PROVE Types'
  BY <1>7 DEF Resume
<1>8. ASSUME NEW c \in Conns, Accept(c) PROVE Types'
  BY <1>8 DEF Accept
<1>9. ASSUME NEW c \in Conns, Refuse(c) PROVE Types'
  BY <1>9 DEF Refuse, CloseServer
<1>10. ASSUME NEW c \in Conns, Handle(c) PROVE Types'
  BY <1>10, ServeTypes DEF Handle, Answer, Results
<1>11. ASSUME NEW c \in Conns, Ignore(c) PROVE Types'
  BY <1>11 DEF Ignore
<1>12. ASSUME NEW c \in Conns, SessionEnds(c) PROVE Types'
  BY <1>12 DEF SessionEnds, CloseServer
<1>13. ASSUME NEW k \in Keys, Expire(k) PROVE Types'
  BY <1>13 DEF Expire
<1>14. CASE AcceptFails
  BY <1>14 DEF AcceptFails
<1>15. CASE WorkerExits
  BY <1>15 DEF WorkerExits, Reset
<1>16. CASE MasterRestarts
  BY <1>16 DEF MasterRestarts, Reset
<1>17. CASE UNCHANGED vars
  BY <1>17 DEF vars
<1> QED
  BY <1>1, <1>2, <1>3, <1>4, <1>5, <1>6, <1>7, <1>8, <1>9, <1>10, <1>11, <1>12,
     <1>13, <1>14, <1>15, <1>16, <1>17
  DEF Next, ClientStep, ServerStep

(* A step keeps a call's place, its connection and its outcome together. *)
LEMMA CallerStep == Types /\ CallerInv /\ ConnInv /\ [Next]_vars => CallerInv'
<1> SUFFICES ASSUME Types, CallerInv, ConnInv, [Next]_vars PROVE CallerInv'
  OBVIOUS
<1> USE RpcAssumption, RequestParts DEF Types, CallerInv, ConnInv, client, wire
<1>1. ASSUME NEW s \in Callers, NEW r \in Requests, Call(s, r)
      PROVE  CallerInv'
  BY <1>1 DEF Call
<1>2. ASSUME NEW s \in Callers, ConnectFails(s) PROVE CallerInv'
  BY <1>2 DEF ConnectFails
<1>3. ASSUME NEW s \in Callers, NEW c \in Conns, Connect(s, c)
      PROVE  CallerInv'
  BY <1>3 DEF Connect
<1>4. ASSUME NEW s \in Callers, Write(s) PROVE CallerInv'
  BY <1>4 DEF Write
<1>5. ASSUME NEW s \in Callers, ReadReply(s) PROVE CallerInv'
  BY <1>5 DEF ReadReply, Return
<1>6. ASSUME NEW s \in Callers, SocketFails(s) PROVE CallerInv'
  BY <1>6 DEF SocketFails, Return
<1>7. ASSUME NEW s \in Callers, Resume(s) PROVE CallerInv'
  BY <1>7 DEF Resume
<1>8. ASSUME NEW c \in Conns, Accept(c) PROVE CallerInv'
  BY <1>8 DEF Accept
<1>9. ASSUME NEW c \in Conns, Refuse(c) PROVE CallerInv'
  BY <1>9 DEF Refuse, CloseServer
<1>10. ASSUME NEW c \in Conns, Handle(c) PROVE CallerInv'
  BY <1>10 DEF Handle, Answer
<1>11. ASSUME NEW c \in Conns, Ignore(c) PROVE CallerInv'
  BY <1>11 DEF Ignore
<1>12. ASSUME NEW c \in Conns, SessionEnds(c) PROVE CallerInv'
  BY <1>12 DEF SessionEnds, CloseServer
<1>13. ASSUME NEW k \in Keys, Expire(k) PROVE CallerInv'
  BY <1>13 DEF Expire
<1>14. CASE AcceptFails
  BY <1>14 DEF AcceptFails
<1>15. CASE WorkerExits
  BY <1>15 DEF WorkerExits, Reset
<1>16. CASE MasterRestarts
  BY <1>16 DEF MasterRestarts, Reset
<1>17. CASE UNCHANGED vars
  BY <1>17 DEF vars
<1> QED
  BY <1>1, <1>2, <1>3, <1>4, <1>5, <1>6, <1>7, <1>8, <1>9, <1>10, <1>11, <1>12,
     <1>13, <1>14, <1>15, <1>16, <1>17
  DEF Next, ClientStep, ServerStep

(* A step keeps the two ends of a connection together. *)
LEMMA ConnStep == Types /\ CallerInv /\ ConnInv /\ [Next]_vars => ConnInv'
<1> SUFFICES ASSUME Types, CallerInv, ConnInv, [Next]_vars PROVE ConnInv'
  OBVIOUS
<1> USE RpcAssumption, RequestParts DEF Types, CallerInv, ConnInv, client, wire
<1>1. ASSUME NEW s \in Callers, NEW r \in Requests, Call(s, r) PROVE ConnInv'
  BY <1>1 DEF Call
<1>2. ASSUME NEW s \in Callers, ConnectFails(s) PROVE ConnInv'
  BY <1>2 DEF ConnectFails
<1>3. ASSUME NEW s \in Callers, NEW c \in Conns, Connect(s, c) PROVE ConnInv'
  BY <1>3 DEF Connect
<1>4. ASSUME NEW s \in Callers, Write(s) PROVE ConnInv'
  BY <1>4 DEF Write
<1>5. ASSUME NEW s \in Callers, ReadReply(s) PROVE ConnInv'
  BY <1>5 DEF ReadReply, Return
<1>6. ASSUME NEW s \in Callers, SocketFails(s) PROVE ConnInv'
  BY <1>6 DEF SocketFails, Return
<1>7. ASSUME NEW s \in Callers, Resume(s) PROVE ConnInv'
  BY <1>7 DEF Resume
<1>8. ASSUME NEW c \in Conns, Accept(c) PROVE ConnInv'
  BY <1>8 DEF Accept
<1>9. ASSUME NEW c \in Conns, Refuse(c) PROVE ConnInv'
  BY <1>9 DEF Refuse, CloseServer
<1>10. ASSUME NEW c \in Conns, Handle(c) PROVE ConnInv'
  BY <1>10 DEF Handle, Answer
<1>11. ASSUME NEW c \in Conns, Ignore(c) PROVE ConnInv'
  BY <1>11 DEF Ignore
<1>12. ASSUME NEW c \in Conns, SessionEnds(c) PROVE ConnInv'
  BY <1>12 DEF SessionEnds, CloseServer
<1>13. ASSUME NEW k \in Keys, Expire(k) PROVE ConnInv'
  BY <1>13 DEF Expire
<1>14. CASE AcceptFails
  BY <1>14 DEF AcceptFails
<1>15. CASE WorkerExits
  BY <1>15 DEF WorkerExits, Reset
<1>16. CASE MasterRestarts
  BY <1>16 DEF MasterRestarts, Reset
<1>17. CASE UNCHANGED vars
  BY <1>17 DEF vars
<1> QED
  BY <1>1, <1>2, <1>3, <1>4, <1>5, <1>6, <1>7, <1>8, <1>9, <1>10, <1>11, <1>12,
     <1>13, <1>14, <1>15, <1>16, <1>17
  DEF Next, ClientStep, ServerStep

(* The sessions are counted. *)
Sessions == {c \in Conns : server[c] = "session"}

LEMMA Finite == IsFiniteSet(Sessions) /\ Active \in Nat
<1>1. IsFiniteSet(Sessions)
  BY RpcAssumption, FS_Subset DEF Sessions
<1> QED  BY <1>1, FS_CardinalityType DEF Active, Sessions

(* Only an accept adds to them, and it tests the capacity. *)
LEMMA CapacityStep == Types /\ CapacityInv /\ [Next]_vars => CapacityInv'
<1> SUFFICES ASSUME Types, CapacityInv, [Next]_vars PROVE CapacityInv'
  OBVIOUS
<1>1. ASSUME NEW c \in Conns, Accept(c) PROVE CapacityInv'
  <2>1. Sessions' = Sessions \cup {c}
    BY <1>1 DEF Accept, Sessions, Types
  <2>2. /\ Cardinality(Sessions) \in Nat
        /\ Cardinality(Sessions') \in {Cardinality(Sessions), Cardinality(Sessions) + 1}
    BY <2>1, Finite, FS_AddElement, FS_CardinalityType
  <2>3. Active' \in {Active, Active + 1}
    BY <2>2 DEF Active, Sessions
  <2> QED  BY <1>1, <2>2, <2>3, Finite, RpcAssumption DEF Accept, CapacityInv
<1>2. CASE \A c \in Conns : ~Accept(c)
  <2>1. Sessions' \subseteq Sessions
    <3> USE DEF Types, Sessions, client, wire
    <3>1. ASSUME NEW s \in Callers, NEW r \in Requests, Call(s, r)
          PROVE  Sessions' \subseteq Sessions
      BY <3>1 DEF Call
    <3>2. ASSUME NEW s \in Callers, ClientStep(s) \/ Resume(s)
          PROVE  Sessions' \subseteq Sessions
      BY <3>2 DEF ClientStep, ConnectFails, Connect, Write, ReadReply,
                  SocketFails, Return, Resume
    <3>3. ASSUME NEW c \in Conns, ServerStep(c)
          PROVE  Sessions' \subseteq Sessions
      BY <1>2, <3>3 DEF ServerStep, Refuse, Handle, Answer, Ignore, SessionEnds,
                        CloseServer
    <3>4. CASE AcceptFails \/ WorkerExits \/ MasterRestarts
      BY <3>4 DEF AcceptFails, WorkerExits, MasterRestarts, Reset
    <3>5. CASE (\E k \in Keys : Expire(k)) \/ UNCHANGED vars
      BY <3>5 DEF Expire, vars
    <3> QED  BY <3>1, <3>2, <3>3, <3>4, <3>5 DEF Next
  <2>2. Active' <= Active /\ Active' \in Nat
    BY <2>1, Finite, FS_Subset, FS_CardinalityType DEF Active, Sessions
  <2> QED  BY <2>2, Finite, RpcAssumption DEF CapacityInv
<1> QED  BY <1>1, <1>2
-----------------------------------------------------------------------------
LEMMA Inductive == Spec => []IInv
<1>1. Init => IInv
  <2> SUFFICES ASSUME Init PROVE IInv
    OBVIOUS
  <2>1. Types /\ CallerInv /\ ConnInv
    BY RpcAssumption DEF Init, Types, CallerInv, ConnInv
  <2>2. Sessions = {}
    BY DEF Init, Sessions
  <2>3. Active = 0
    BY <2>2, FS_EmptySet DEF Active, Sessions
  <2> QED  BY <2>1, <2>3, RpcAssumption DEF IInv, CapacityInv
<1>2. IInv /\ [Next]_vars => IInv'
  BY TypesStep, CallerStep, ConnStep, CapacityStep DEF IInv
<1> QED  BY <1>1, <1>2, PTL DEF Spec

(* What the mapping makes of a caller and of a connection. *)
AnswerOf(s) ==
  IF at[s] = "idle" THEN "none"
  ELSE IF at[s] = "done" THEN outcome[s]
  ELSE IF link[s] # NoConn /\ reply[link[s]] # "none" THEN reply[link[s]]
  ELSE "pending"

IsOrphan(c) == user[c] = "gone" /\ request[c].op \in {"take", "put"}

LEMMA Mapping ==
  /\ absAnswer = [s \in Callers |-> AnswerOf(s)]
  /\ absAnswer' = [s \in Callers |-> AnswerOf(s)']
  /\ absOrphans = {<<c, request[c]>> : c \in {d \in Conns : IsOrphan(d)}}
  /\ absOrphans' = {<<c, request'[c]>> : c \in {d \in Conns : IsOrphan(d)'}}
<1>1. absAnswer = [s \in Callers |-> AnswerOf(s)]
  BY DEF absAnswer, AnswerOf
<1>2. absAnswer' = [s \in Callers |-> AnswerOf(s)']
  BY DEF absAnswer, AnswerOf
<1> QED  BY <1>1, <1>2 DEF absOrphans, IsOrphan

(* So that to know how the mapping moves it is enough to look at each      *)
(* caller and at each connection.                                          *)
SameAnswers(S) == \A s \in S : AnswerOf(s)' = AnswerOf(s)
SameOrphans(C) ==
  \A c \in C : /\ IsOrphan(c)' <=> IsOrphan(c)
               /\ IsOrphan(c) => request'[c] = request[c]

LEMMA AnswersMove ==
  /\ SameAnswers(Callers) => absAnswer' = absAnswer
  /\ \A s \in Callers : SameAnswers(Callers \ {s}) =>
       absAnswer' = [absAnswer EXCEPT ![s] = AnswerOf(s)']
  BY Mapping DEF SameAnswers

LEMMA OrphansMove ==
  /\ SameOrphans(Conns) => absOrphans' = absOrphans
  /\ \A c \in Conns : SameOrphans(Conns \ {c}) =>
       /\ ~IsOrphan(c) /\ IsOrphan(c)' =>
            absOrphans' = absOrphans \cup {<<c, request'[c]>>}
       /\ IsOrphan(c) /\ ~IsOrphan(c)' =>
            absOrphans' = absOrphans \ {<<c, request[c]>>}
       /\ ~IsOrphan(c) /\ ~IsOrphan(c)' => absOrphans' = absOrphans
  BY Mapping DEF SameOrphans

Stutters == UNCHANGED <<store, call, absAnswer, absOrphans>>
AbsStep == Calls!Next \/ Stutters
(* Every step is a step of the promise, or none. *)
LEMMA RefinementStep == Types /\ CallerInv /\ ConnInv /\ [Next]_vars => AbsStep
<1> SUFFICES ASSUME Types, CallerInv, ConnInv, [Next]_vars PROVE AbsStep
  OBVIOUS
<1> USE RpcAssumption, RequestParts, AnswersMove, OrphansMove DEF Types, CallerInv, ConnInv, client, wire
<1>1. ASSUME NEW s \in Callers, NEW r \in Requests, Call(s, r) PROVE AbsStep
  <2>1. SameAnswers(Callers \ {s}) /\ AnswerOf(s) = "none" /\ AnswerOf(s)' = "pending"
    BY <1>1 DEF Call, SameAnswers, AnswerOf
  <2>2. SameOrphans(Conns)
    BY <1>1 DEF Call, SameOrphans, IsOrphan
  <2>3. Calls!Ask(s, r)
    BY <1>1, <2>1, <2>2, Mapping DEF Call, Calls!Ask
  <2> QED  BY <2>3 DEF AbsStep, Calls!Next, Requests
<1>2. ASSUME NEW s \in Callers, ConnectFails(s) PROVE AbsStep
  <2>1. /\ SameAnswers(Callers \ {s})
        /\ AnswerOf(s) = "pending" /\ AnswerOf(s)' = "failed"
    BY <1>2 DEF ConnectFails, SameAnswers, AnswerOf
  <2>2. SameOrphans(Conns)
    BY <1>2 DEF ConnectFails, SameOrphans, IsOrphan
  <2>3. Calls!Fail(s)
    BY <1>2, <2>1, <2>2, Mapping DEF ConnectFails, Calls!Fail, NoCall
  <2> QED  BY <2>3 DEF AbsStep, Calls!Next
<1>3. ASSUME NEW s \in Callers, NEW c \in Conns, Connect(s, c) PROVE AbsStep
  <2>1. SameAnswers(Callers) /\ UNCHANGED <<store, call>>
    BY <1>3 DEF Connect, SameAnswers, AnswerOf
  <2>2. SameOrphans(Conns)
    BY <1>3 DEF Connect, SameOrphans, IsOrphan
  <2> QED  BY <2>1, <2>2 DEF AbsStep, Stutters
<1>4. ASSUME NEW s \in Callers, Write(s) PROVE AbsStep
  <2>1. SameAnswers(Callers) /\ UNCHANGED <<store, call>>
    BY <1>4 DEF Write, SameAnswers, AnswerOf
  <2>2. SameOrphans(Conns)
    BY <1>4 DEF Write, SameOrphans, IsOrphan
  <2> QED  BY <2>1, <2>2 DEF AbsStep, Stutters
<1>5. ASSUME NEW s \in Callers, ReadReply(s) PROVE AbsStep
  <2>1. SameAnswers(Callers) /\ UNCHANGED <<store, call>>
    BY <1>5 DEF ReadReply, Return, SameAnswers, AnswerOf
  <2>2. SameOrphans(Conns)
    BY <1>5 DEF ReadReply, Return, SameOrphans, IsOrphan
  <2> QED  BY <2>1, <2>2 DEF AbsStep, Stutters
<1>6. ASSUME NEW s \in Callers, SocketFails(s) PROVE AbsStep
  <2>1. PICK c \in Conns : c = link[s] /\ user[c] = s /\ call[s] # NoCall
    BY <1>6 DEF SocketFails
  <2>2. /\ SameAnswers(Callers \ {s})
        /\ AnswerOf(s) # "failed" /\ AnswerOf(s)' = "failed"
    BY <1>6, <2>1 DEF SocketFails, Return, SameAnswers, AnswerOf
  <2>3. SameOrphans(Conns \ {c}) /\ ~IsOrphan(c) /\ UNCHANGED <<store, call>>
    BY <1>6, <2>1 DEF SocketFails, Return, SameOrphans, IsOrphan
  <2>4. absAnswer' = [absAnswer EXCEPT ![s] = "failed"]
    BY <2>2
  <2>5. CASE ~IsOrphan(c)'
    <3>1. absOrphans' = absOrphans
      BY <2>1, <2>3, <2>5
    <3>2. Calls!Fail(s)
      BY <2>1, <2>2, <2>3, <2>4, <3>1, Mapping DEF Calls!Fail, NoCall
    <3> QED  BY <3>2 DEF AbsStep, Calls!Next
  <2>6. CASE IsOrphan(c)'
    <3>1. absOrphans' = absOrphans \cup {<<c, request'[c]>>}
      BY <2>1, <2>3, <2>6
    <3>2. request'[c] = call[s] /\ call[s].op \in {"take", "put"}
      BY <1>6, <2>1, <2>6 DEF SocketFails, Return, IsOrphan
    <3>3. AnswerOf(s) = "pending"
      BY <1>6, <2>1, <3>2 DEF SocketFails, Return, AnswerOf
    <3>4. Calls!Fail(s)
      BY <2>1, <2>2, <2>3, <2>4, <3>1, <3>2, <3>3, Mapping
      DEF Calls!Fail, NoCall
    <3> QED  BY <3>4 DEF AbsStep, Calls!Next
  <2> QED  BY <2>5, <2>6
<1>7. ASSUME NEW s \in Callers, Resume(s) PROVE AbsStep
  <2>1. /\ SameAnswers(Callers \ {s})
        /\ AnswerOf(s) # "pending" /\ AnswerOf(s)' = "none"
    BY <1>7 DEF Resume, SameAnswers, AnswerOf
  <2>2. SameOrphans(Conns)
    BY <1>7 DEF Resume, SameOrphans, IsOrphan
  <2>3. Calls!HangUp(s)
    BY <1>7, <2>1, <2>2, Mapping DEF Resume, Calls!HangUp, NoCall
  <2> QED  BY <2>3 DEF AbsStep, Calls!Next
<1>8. ASSUME NEW c \in Conns, Accept(c) PROVE AbsStep
  <2>1. SameAnswers(Callers) /\ UNCHANGED <<store, call>>
    BY <1>8 DEF Accept, SameAnswers, AnswerOf
  <2>2. SameOrphans(Conns)
    BY <1>8 DEF Accept, SameOrphans, IsOrphan
  <2> QED  BY <2>1, <2>2 DEF AbsStep, Stutters
<1>9. ASSUME NEW c \in Conns, Refuse(c) PROVE AbsStep
  <2>1. SameAnswers(Callers) /\ UNCHANGED <<store, call>>
    BY <1>9 DEF Refuse, CloseServer, SameAnswers, AnswerOf
  <2>2. SameOrphans(Conns \ {c}) /\ ~IsOrphan(c)'
    BY <1>9 DEF Refuse, CloseServer, SameOrphans, IsOrphan
  <2> DEFINE lost == absOrphans \ absOrphans'
  <2>3. absOrphans' = absOrphans \ lost
    BY <2>2
  <2>4. Calls!LoseOrphans(lost)
    BY <2>1, <2>3 DEF Calls!LoseOrphans
  <2> QED  BY <2>4 DEF AbsStep, Calls!Next, Calls!Environment
<1>10. ASSUME NEW c \in Conns, Handle(c) PROVE AbsStep
  <2> DEFINE r == request[c]
  <2>1. r \in Requests /\ Calls!Apply(r) /\ r # NoCall /\ UNCHANGED call
    BY <1>10 DEF Handle, Answer
  <2>2. SameOrphans(Conns \ {c}) /\ ~IsOrphan(c)'
    BY <1>10 DEF Handle, Answer, SameOrphans, IsOrphan
  <2>3. CASE user[c] = "gone" /\ r.op \in {"take", "put"}
    <3>1. SameAnswers(Callers)
      BY <1>10, <2>3 DEF Handle, Answer, SameAnswers, AnswerOf
    <3>2. IsOrphan(c) /\ <<c, r>> \in absOrphans
      BY <2>3, Mapping DEF IsOrphan
    <3>3. Calls!ServeOrphan(<<c, r>>)
      BY <2>1, <2>2, <3>1, <3>2 DEF Calls!ServeOrphan, Calls!Apply
    <3> QED  BY <3>2, <3>3 DEF AbsStep, Calls!Next, Calls!Environment
  <2>4. CASE user[c] = "gone" /\ r.op \notin {"take", "put"}
    <3>1. SameAnswers(Callers)
      BY <1>10, <2>4 DEF Handle, Answer, SameAnswers, AnswerOf
    <3>2. store' = store
      BY <2>1, <2>4, ApplyCases
    <3>3. ~IsOrphan(c)
      BY <2>4 DEF IsOrphan
    <3> QED  BY <2>1, <2>2, <3>1, <3>2, <3>3 DEF AbsStep, Stutters
  <2>5. CASE user[c] # "gone"
    <3>1. PICK s \in Callers :
            s = user[c] /\ link[s] = c /\ call[s] = r /\ reply[c] = "none"
      BY <1>10, <2>1, <2>5
    <3>2. at[s] = "reading"
      BY <1>10, <2>1, <3>1
    <3>3. Calls!Returns(r) \in Results
      BY <2>1, ServeTypes
    <3>4. /\ SameAnswers(Callers \ {s})
          /\ AnswerOf(s) = "pending" /\ AnswerOf(s)' = Calls!Returns(r)
      BY <1>10, <2>5, <3>1, <3>2, <3>3
      DEF Handle, Answer, SameAnswers, AnswerOf, Results
    <3>5. absAnswer' = [absAnswer EXCEPT ![s] = Calls!Returns(r)]
      BY <3>1, <3>4
    <3>6. absOrphans' = absOrphans
      BY <2>2, <2>5 DEF IsOrphan
    <3>7. Calls!Serve(s)
      BY <2>1, <3>1, <3>4, <3>5, <3>6, Mapping DEF Calls!Serve
    <3> QED  BY <3>1, <3>7 DEF AbsStep, Calls!Next
  <2> QED  BY <2>3, <2>4, <2>5
<1>11. ASSUME NEW c \in Conns, Ignore(c) PROVE AbsStep
  <2>1. SameAnswers(Callers) /\ UNCHANGED <<store, call>>
    BY <1>11 DEF Ignore, SameAnswers, AnswerOf
  <2>2. SameOrphans(Conns)
    BY <1>11 DEF Ignore, SameOrphans, IsOrphan
  <2> QED  BY <2>1, <2>2 DEF AbsStep, Stutters
<1>12. ASSUME NEW c \in Conns, SessionEnds(c) PROVE AbsStep
  <2>1. SameAnswers(Callers) /\ UNCHANGED <<store, call>>
    BY <1>12 DEF SessionEnds, CloseServer, SameAnswers, AnswerOf
  <2>2. SameOrphans(Conns \ {c}) /\ ~IsOrphan(c)'
    BY <1>12 DEF SessionEnds, CloseServer, SameOrphans, IsOrphan
  <2> DEFINE lost == absOrphans \ absOrphans'
  <2>3. absOrphans' = absOrphans \ lost
    BY <2>2
  <2>4. Calls!LoseOrphans(lost)
    BY <2>1, <2>3 DEF Calls!LoseOrphans
  <2> QED  BY <2>4 DEF AbsStep, Calls!Next, Calls!Environment
<1>13. ASSUME NEW k \in Keys, Expire(k) PROVE AbsStep
  <2>1. SameAnswers(Callers) /\ SameOrphans(Conns)
    BY <1>13 DEF Expire, SameAnswers, AnswerOf, SameOrphans, IsOrphan
  <2>2. Calls!Expire(k)
    BY <1>13, <2>1 DEF Expire, Calls!Expire
  <2> QED  BY <2>2 DEF AbsStep, Calls!Next, Calls!Environment
<1>14. CASE AcceptFails
  <2>1. SameAnswers(Callers) /\ UNCHANGED <<store, call>>
    BY <1>14 DEF AcceptFails, SameAnswers, AnswerOf
  <2>2. SameOrphans(Conns)
    BY <1>14 DEF AcceptFails, SameOrphans, IsOrphan
  <2> QED  BY <2>1, <2>2 DEF AbsStep, Stutters
<1>15. CASE WorkerExits
  <2>1. SameAnswers(Callers) /\ UNCHANGED <<store, call>>
    BY <1>15 DEF WorkerExits, Reset, SameAnswers, AnswerOf
  <2>2. \A c \in Conns : IsOrphan(c)' => IsOrphan(c) /\ request'[c] = request[c]
    BY <1>15 DEF WorkerExits, Reset, IsOrphan
  <2> DEFINE lost == absOrphans \ absOrphans'
  <2>3. absOrphans' = absOrphans \ lost
    BY <2>2, Mapping
  <2>4. Calls!LoseOrphans(lost)
    BY <2>1, <2>3 DEF Calls!LoseOrphans
  <2> QED  BY <2>4 DEF AbsStep, Calls!Next, Calls!Environment
<1>16. CASE MasterRestarts
  <2>1. SameAnswers(Callers)
    BY <1>16 DEF MasterRestarts, Reset, SameAnswers, AnswerOf
  <2>2. \A c \in Conns : ~IsOrphan(c)'
    BY <1>16 DEF MasterRestarts, Reset, IsOrphan
  <2>3. absOrphans' = {}
    BY <2>2, Mapping
  <2>4. Calls!MasterRestarts
    BY <1>16, <2>1, <2>3 DEF MasterRestarts, Calls!MasterRestarts
  <2> QED  BY <2>4 DEF AbsStep, Calls!Next, Calls!Environment
<1>17. CASE UNCHANGED vars
  <2>1. SameAnswers(Callers) /\ UNCHANGED <<store, call>>
    BY <1>17 DEF vars, SameAnswers, AnswerOf
  <2>2. SameOrphans(Conns)
    BY <1>17 DEF vars, SameOrphans, IsOrphan
  <2> QED  BY <2>1, <2>2 DEF AbsStep, Stutters
<1> QED
  BY <1>1, <1>2, <1>3, <1>4, <1>5, <1>6, <1>7, <1>8, <1>9, <1>10, <1>11, <1>12,
     <1>13, <1>14, <1>15, <1>16, <1>17
  DEF Next, ClientStep, ServerStep

(* The types, and the capacity of the Internal server, which an accept     *)
(* never exceeds.                                                          *)
THEOREM TypeCorrect == Spec => []TypeOK
<1>1. IInv => TypeOK
  <2> SUFFICES ASSUME IInv PROVE TypeOK
    OBVIOUS
  <2> USE RpcAssumption, RequestParts DEF IInv, Types, CallerInv, ConnInv
  <2>1. absAnswer \in
          [Callers -> Values \cup {"none", "pending", "miss", "ok", "failed"}]
    BY Mapping DEF AnswerOf
  <2>2. absOrphans \subseteq Conns \X Requests
    BY Mapping DEF IsOrphan
  <2>3. \A s \in Callers : call[s] # NoCall <=> absAnswer[s] # "none"
    BY Mapping DEF AnswerOf
  <2> QED  BY <2>1, <2>2, <2>3
           DEF TypeOK, Calls!TypeOK, CapacityInv, Requests, NoCall
<1> QED  BY <1>1, Inductive, PTL

(* StoreClient::roundtrip over TCP keeps the promise of StoreCalls.  *)
THEOREM Implements == Spec => ImplementsCalls
<1>1. Init => Calls!Init
  <2> SUFFICES ASSUME Init PROVE Calls!Init
    OBVIOUS
  <2>1. \A s \in Callers : AnswerOf(s) = "none"
    BY DEF Init, AnswerOf
  <2>2. \A c \in Conns : ~IsOrphan(c)
    BY RequestParts DEF Init, IsOrphan
  <2> QED  BY <2>1, <2>2, Mapping DEF Init, Calls!Init, NoCall
<1>2. IInv /\ [Next]_vars => [Calls!Next]_<<store, call, absAnswer, absOrphans>>
  BY RefinementStep DEF IInv, AbsStep, Stutters
<1> QED  BY <1>1, <1>2, Inductive, PTL DEF Spec, ImplementsCalls, Calls!Spec
=============================================================================
