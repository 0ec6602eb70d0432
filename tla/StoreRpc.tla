------------------------------ MODULE StoreRpc ------------------------------
(***************************************************************************)
(* A store call, connection by connection: StoreClient::roundtrip          *)
(* (store/store_client.hpp) opens one TCP connection per call to the       *)
(* Master's Internal server, which accepts it or refuses it at capacity,   *)
(* reads one signed request, applies it (store/store_handler.hpp) and      *)
(* answers.  The Internal server has one I/O thread, so that a handler of  *)
(* it is one step.                                                         *)
(*                                                                         *)
(* roundtrip has no time-out: it goes on when its socket does.             *)
(***************************************************************************)
EXTENDS Naturals, FiniteSets

CONSTANTS Callers,     \* the coroutines that call
          Strangers,   \* those in a process with another HMAC secret
          Keys, Values,
          Conns,       \* connections: ports, used again
          Capacity,    \* ServerConfig<Internal>::max_connections
          NoConn

ASSUME RpcAssumption ==
  /\ Strangers \subseteq Callers /\ "gone" \notin Callers
  /\ IsFiniteSet(Conns) /\ NoConn \notin Conns
  /\ Capacity \in Nat \ {0}
  /\ {"none", "pending", "miss", "ok", "failed"} \cap Values = {}

VARIABLES
  store,    \* the Master's store
  loop,     \* the Internal server's accept_loop: "accepting", "ended" by an
            \* error while its socket listens, "exited" with its thread
  call,     \* call[s]: the call that s awaits, or NoCall
  at,       \* at[s]: "idle", "connecting", "writing", "reading", "done"
  link,     \* link[s]: its connection, or NoConn
  outcome,  \* outcome[s]: what the call returns, or "none"
  user,     \* user[c]: the caller at the client's end of c, or "gone"
  server,   \* server[c]: the Master's end: "free", "backlog", "session", "closed"
  request,  \* request[c]: the request sent and not yet read by the server
  reply     \* reply[c]: the answer sent and not yet read, or "none"

client == <<call, at, link, outcome>>
wire == <<user, server, request, reply>>
vars == <<store, loop, client, wire>>

(* A request that decode_and_verify rejects: its signature is another's. *)
Rejected == [op |-> "rejected"]

(* The promise, in terms of the connections. *)
absAnswer == [s \in Callers |->
                CASE at[s] = "idle" -> "none"
                  [] at[s] = "done" -> outcome[s]
                  [] OTHER -> IF link[s] # NoConn /\ reply[link[s]] # "none"
                              THEN reply[link[s]] ELSE "pending"]

absOrphans == {<<c, request[c]>> :
                 c \in {d \in Conns : /\ user[d] = "gone"
                                      /\ request[d].op \in {"take", "put"}}}

Calls == INSTANCE StoreCalls WITH OrphanIds <- Conns, rpc <- call,
                                  answer <- absAnswer, orphans <- absOrphans

NoCall == Calls!NoCall
Requests == Calls!Requests

Init ==
  /\ store = [k \in Keys |-> "none"]
  /\ loop = "accepting"
  /\ call = [s \in Callers |-> NoCall]
  /\ at = [s \in Callers |-> "idle"]
  /\ link = [s \in Callers |-> NoConn]
  /\ outcome = [s \in Callers |-> "none"]
  /\ user = [c \in Conns |-> "gone"]
  /\ server = [c \in Conns |-> "free"]
  /\ request = [c \in Conns |-> NoCall]
  /\ reply = [c \in Conns |-> "none"]
-----------------------------------------------------------------------------
(* StoreClient::put, get, take or list_prefix is awaited. *)
Call(s, r) ==
  /\ at[s] = "idle"
  /\ call' = [call EXCEPT ![s] = r]
  /\ at' = [at EXCEPT ![s] = "connecting"]
  /\ UNCHANGED <<store, loop, link, outcome, wire>>

(* async_resolve or async_connect reports an error. *)
ConnectFails(s) ==
  /\ at[s] = "connecting"
  /\ at' = [at EXCEPT ![s] = "done"]
  /\ outcome' = [outcome EXCEPT ![s] = "failed"]
  /\ UNCHANGED <<store, loop, call, link, wire>>

(* The kernel completes the connection before the server accepts it, and   *)
(* whether it will accept it or not, as long as the socket listens.        *)
Connect(s, c) ==
  /\ at[s] = "connecting" /\ server[c] = "free" /\ loop # "exited"
  /\ at' = [at EXCEPT ![s] = "writing"]
  /\ link' = [link EXCEPT ![s] = c]
  /\ user' = [user EXCEPT ![c] = s]
  /\ server' = [server EXCEPT ![c] = "backlog"]
  /\ UNCHANGED <<store, loop, call, outcome, request, reply>>

(* async_write: the request is signed and sent; a closed end drops it. *)
Write(s) ==
  LET c == link[s]
      sent == IF s \in Strangers THEN Rejected ELSE call[s]
  IN
  /\ at[s] = "writing"
  /\ at' = [at EXCEPT ![s] = "reading"]
  /\ request' = [request EXCEPT ![c] = IF server[c] = "closed" THEN @ ELSE sent]
  /\ UNCHANGED <<store, loop, call, link, outcome, user, server, reply>>

(* roundtrip returns, and its socket is closed.  A connection is free for  *)
(* use again when both its ends are closed.                                *)
Return(s, result) ==
  LET c == link[s] IN
  /\ at' = [at EXCEPT ![s] = "done"]
  /\ outcome' = [outcome EXCEPT ![s] = result]
  /\ link' = [link EXCEPT ![s] = NoConn]
  /\ user' = [user EXCEPT ![c] = "gone"]
  /\ reply' = [reply EXCEPT ![c] = "none"]
  /\ server' = [server EXCEPT ![c] = IF @ = "closed" THEN "free" ELSE @]
  /\ UNCHANGED <<store, loop, call, request>>

(* The answer is read whole and its signature is verified. *)
ReadReply(s) ==
  /\ at[s] = "reading" /\ reply[link[s]] # "none"
  /\ Return(s, reply[link[s]])

(* A write or a read reports an error: the server has closed the           *)
(* connection, or the network has failed it.                               *)
SocketFails(s) ==
  /\ at[s] \in {"writing", "reading"}
  /\ Return(s, "failed")

(* The caller has its answer and goes on. *)
Resume(s) ==
  /\ at[s] = "done"
  /\ call' = [call EXCEPT ![s] = NoCall]
  /\ at' = [at EXCEPT ![s] = "idle"]
  /\ outcome' = [outcome EXCEPT ![s] = "none"]
  /\ UNCHANGED <<store, loop, link, wire>>
-----------------------------------------------------------------------------
Active == Cardinality({c \in Conns : server[c] = "session"})

(* The Master's end of c is closed; what it has not read is lost. *)
CloseServer(c) ==
  /\ server' = [server EXCEPT ![c] = IF user[c] = "gone" THEN "free" ELSE "closed"]
  /\ request' = [request EXCEPT ![c] = NoCall]

(* accept_loop of the Internal server. *)
AcceptOffByOne(c) ==
  /\ loop = "accepting" /\ server[c] = "backlog" /\ Active <= Capacity
  /\ server' = [server EXCEPT ![c] = "session"]
  /\ UNCHANGED <<store, loop, client, user, request, reply>>

Accept(c) ==
  /\ loop = "accepting" /\ server[c] = "backlog" /\ Active < Capacity
  /\ server' = [server EXCEPT ![c] = "session"]
  /\ UNCHANGED <<store, loop, client, user, request, reply>>

RefuseLeavesOpen(c) ==
  /\ loop = "accepting" /\ server[c] = "backlog" /\ Active >= Capacity
  /\ UNCHANGED vars

Refuse(c) ==
  /\ loop = "accepting" /\ server[c] = "backlog" /\ Active >= Capacity
  /\ CloseServer(c)
  /\ UNCHANGED <<store, loop, client, user, reply>>

(* An accept error (EMFILE...) ends the loop for good; its socket listens  *)
(* on and the sessions go on.                                              *)
AcceptFails ==
  /\ loop = "accepting"
  /\ loop' = "ended"
  /\ UNCHANGED <<store, client, wire>>

(* With the last session the thread has nothing to do: run() returns, the  *)
(* acceptor is destroyed, and the kernel resets what it had not accepted.  *)
Reset(cs) ==
  /\ server' = [c \in Conns |->
                  IF c \notin cs THEN server[c]
                  ELSE IF server[c] = "free" \/ user[c] = "gone" THEN "free"
                  ELSE "closed"]
  /\ request' = [c \in Conns |-> IF c \in cs THEN NoCall ELSE request[c]]

WorkerExits ==
  /\ loop = "ended" /\ Active = 0
  /\ loop' = "exited"
  /\ Reset({c \in Conns : server[c] = "backlog"})
  /\ UNCHANGED <<store, client, user, reply>>

(* StoreHandler::on_message: a request is applied and answered. *)
Answer(c) ==
  /\ server[c] = "session" /\ request[c] \in Requests
  /\ Calls!Apply(request[c])
  /\ reply' = [reply EXCEPT ![c] =
                 IF user[c] = "gone" THEN @ ELSE Calls!Returns(request[c])]

HandleKeepsFrame(c) ==
  /\ Answer(c)
  /\ UNCHANGED <<loop, client, user, server, request>>

Handle(c) ==
  /\ Answer(c)
  /\ request' = [request EXCEPT ![c] = NoCall]
  /\ UNCHANGED <<loop, client, user, server>>

(* One whose signature is wrong is ignored; the connection stays open. *)
Ignore(c) ==
  /\ server[c] = "session" /\ request[c] = Rejected
  /\ request' = [request EXCEPT ![c] = NoCall]
  /\ UNCHANGED <<store, loop, client, user, server, reply>>

(* The session ends: its client has closed, the connection failed, or it   *)
(* has been idle for 10 s.                                                 *)
SessionEnds(c) ==
  /\ server[c] = "session"
  /\ CloseServer(c)
  /\ UNCHANGED <<store, loop, client, user, reply>>

Expire(k) ==
  /\ store[k] # "none"
  /\ store' = [store EXCEPT ![k] = "none"]
  /\ UNCHANGED <<loop, client, wire>>

(* The Master ends and starts again; its sockets are closed by the kernel. *)
(* An answer that was sent may still be read.                              *)
MasterRestarts ==
  /\ store' = [k \in Keys |-> "none"]
  /\ loop' = "accepting"
  /\ Reset(Conns)
  /\ UNCHANGED <<client, user, reply>>
-----------------------------------------------------------------------------
ClientStep(s) ==
  \/ ConnectFails(s) \/ \E c \in Conns : Connect(s, c)
  \/ Write(s) \/ ReadReply(s) \/ SocketFails(s)

ServerStep(c) ==
  Accept(c) \/ Refuse(c) \/ Handle(c) \/ Ignore(c) \/ SessionEnds(c)

Next ==
  \/ \E s \in Callers : (\E r \in Requests : Call(s, r)) \/ ClientStep(s) \/ Resume(s)
  \/ \E c \in Conns : ServerStep(c)
  \/ \E k \in Keys : Expire(k)
  \/ AcceptFails \/ WorkerExits
  \/ MasterRestarts

(* The threads of both processes run, and a kernel reports to one end that *)
(* the other is closed.  The Internal server's idle timer ends a session   *)
(* that nothing else ends.  Nothing else is assumed of the network, and    *)
(* nothing of the life of the Master and of its accept loop.               *)
Fairness ==
  /\ \A s \in Callers :
       /\ WF_vars(ConnectFails(s) \/ \E c \in Conns : Connect(s, c))
       /\ WF_vars(Write(s))
       /\ WF_vars(ReadReply(s) \/ (SocketFails(s) /\ server[link[s]] = "closed"))
  /\ \A c \in Conns :
       /\ WF_vars(Accept(c) \/ Refuse(c))
       /\ WF_vars(Handle(c) \/ Ignore(c))
       /\ WF_vars(SessionEnds(c))
  /\ WF_vars(WorkerExits)

Spec == Init /\ [][Next]_vars
FairSpec == Spec /\ Fairness
-----------------------------------------------------------------------------
(* The type of the calls and of the connections; the Internal server never *)
(* serves more sessions than its capacity.                                 *)
TypeOK ==
  /\ Calls!TypeOK
  /\ loop \in {"accepting", "ended", "exited"}
  /\ at \in [Callers -> {"idle", "connecting", "writing", "reading", "done"}]
  /\ link \in [Callers -> Conns \cup {NoConn}]
  /\ outcome \in [Callers -> Values \cup {"none", "miss", "ok", "failed"}]
  /\ user \in [Conns -> Callers \cup {"gone"}]
  /\ server \in [Conns -> {"free", "backlog", "session", "closed"}]
  /\ request \in [Conns -> Requests \cup {NoCall, Rejected}]
  /\ reply \in [Conns -> Values \cup {"none", "miss", "ok"}]
  /\ Active <= Capacity

(* "Erreur reseau/protocole => nullopt": through refused, broken and       *)
(* abandoned connections and restarts, a call is applied at most once, to  *)
(* the store it talks of, and what it returns is what it found there, or   *)
(* nothing.                                                                *)
ImplementsCalls == Calls!Spec

(* A call that has begun returns: whoever is refused, ignored for its      *)
(* signature, cut off, or connected to a socket that nobody accepts on any *)
(* more, is not left waiting.                                              *)
CallEnds == \A s \in Callers : at[s] = "connecting" ~> at[s] = "done"
=============================================================================
