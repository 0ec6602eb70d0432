------------------------------- MODULE Server -------------------------------
(***************************************************************************)
(* server.hpp and session.hpp: the servers of one process, which are one   *)
(* template for TCP and for UDP.  Each worker thread owns an io_context (a *)
(* queue of handlers) and, for TCP, an acceptor on the shared port         *)
(* (SO_REUSEPORT) and a SessionRegistry; for UDP, a socket.  The threads   *)
(* of a server share only active_connections_.  The orchestrator thread of *)
(* main.cpp runs the signal handler, which calls stop() on the TCP server  *)
(* and then on the UDP server; a maintenance thread may be in              *)
(* wait_drained() of the TCP server.                                       *)
(*                                                                         *)
(* A worker runs one handler at a time up to its next co_await.  A handler *)
(* is one step here, except where it touches active_connections_ twice and *)
(* another thread can come between: the capacity test and the increment    *)
(* ("admitting"), the decrement and the notification ("notifying").        *)
(***************************************************************************)
EXTENDS Integers, FiniteSets, Sequences

CONSTANTS Workers,         \* the I/O threads of the servers
          Deployments,     \* those that may be the UDP server's: a process
                           \* has none, or some (World), or all
          Conns,           \* connections; one that has ended may come again
          MaxConnections,  \* ServerConfig<Role>::max_connections
          UsesStore,       \* do the handlers await a StoreClient?
          StopAnytime,     \* may a signal precede the workers' co_spawn?
          Maintenance,     \* is wait_drained() called?
          TimesOut,        \* and can its time-out pass, or is it endless?
          NoWorker

ASSUME ServerAssumption ==
  /\ IsFiniteSet(Workers) /\ Workers # {} /\ NoWorker \notin Workers
  /\ Deployments \subseteq SUBSET Workers
  /\ IsFiniteSet(Conns)
  /\ MaxConnections \in Nat \ {0}
  /\ {UsesStore, StopAnytime, Maintenance, TimesOut} \subseteq BOOLEAN

VARIABLES
  udp,        \* the workers of the UDP server: chosen once
  worker,     \* worker[w]: where the thread is
  queue,      \* queue[w]: the handlers posted to its io_context
  acceptor,   \* acceptor[w]: its acceptor or UDP socket: "unopened",
              \* "listening" (UDP: bound) or "closed"
  loop,       \* loop[w]: its accept_loop or datagram_loop: "none", "accepting"
              \* (async_accept or async_receive_from is pending), "completed"
              \* (an accept's completion is queued), "replying" (UDP), "ended"
  registry,   \* registry[w]: the connections of its SessionRegistry
  conn,       \* conn[c]: what the session of c is waiting for
  owner,      \* owner[c]: the worker that accepted c, or NoWorker
  closed,     \* the live connections whose socket has been closed
  late,       \* history: those admitted after the stop handler had run
  active,     \* active_connections_
  main,       \* the orchestrator thread: "serving" or inside stop()
  stopReq,    \* the workers request_stop() has been called for
  closeRan,   \* history: the workers whose stop handler has run
  drain,      \* where a wait_drained() call is
  current,    \* its local variable `current`
  deadline    \* has its deadline passed?

Handlers == {"loop", "close"}

threads == <<udp, worker, queue, acceptor, loop>>
sessions == <<registry, conn, owner, closed, late>>
stopping == <<main, stopReq, closeRan>>
draining == <<drain, current, deadline>>
vars == <<threads, sessions, active, stopping, draining>>

Init ==
  /\ udp \in Deployments
  /\ worker = [w \in Workers |-> "boot"]
  /\ queue = [w \in Workers |-> <<>>]
  /\ acceptor = [w \in Workers |-> "unopened"]
  /\ loop = [w \in Workers |-> "none"]
  /\ registry = [w \in Workers |-> {}]
  /\ conn = [c \in Conns |-> "idle"]
  /\ owner = [c \in Conns |-> NoWorker]
  /\ closed = {} /\ late = {}
  /\ active = 0
  /\ main = "serving" /\ stopReq = {} /\ closeRan = {}
  /\ drain = "idle" /\ current = 0 /\ deadline = FALSE

(* The coroutines of Session::run() that live on a worker. *)
InService == {"reading", "ready", "store", "writing"}
SessionsOf(w) == {c \in Conns : conn[c] \in InService /\ owner[c] = w}
-----------------------------------------------------------------------------
(* run_worker_impl.  The stop_callback is constructed: if the stop has     *)
(* been requested already it runs at once and posts the close handler,     *)
(* ahead of the loop.                                                      *)
Arm(w) ==
  /\ worker[w] = "boot"
  /\ worker' = [worker EXCEPT ![w] = "armed"]
  /\ queue' = [queue EXCEPT ![w] = IF w \in stopReq THEN <<"close">> ELSE @]
  /\ UNCHANGED <<udp, acceptor, loop, sessions, active, stopping, draining>>

(* co_spawn queues the loop, and run() begins. *)
Spawn(w) ==
  /\ worker[w] = "armed"
  /\ worker' = [worker EXCEPT ![w] = "running"]
  /\ queue' = [queue EXCEPT ![w] = Append(@, "loop")]
  /\ UNCHANGED <<udp, acceptor, loop, sessions, active, stopping, draining>>

NextHandler(w, h) ==
  /\ worker[w] = "running" /\ queue[w] # <<>> /\ Head(queue[w]) = h
  /\ queue' = [queue EXCEPT ![w] = Tail(@)]

(* accept_loop up to its first async_accept, or datagram_loop up to its    *)
(* first async_receive_from.                                               *)
StartLoop(w) ==
  /\ NextHandler(w, "loop")
  /\ acceptor' = [acceptor EXCEPT ![w] = "listening"]
  /\ loop' = [loop EXCEPT ![w] = "accepting"]
  /\ UNCHANGED <<udp, worker, sessions, active, stopping, draining>>

(* open, bind or listen throws: the exception ends the detached coroutine. *)
BindFails(w) ==
  /\ NextHandler(w, "loop")
  /\ loop' = [loop EXCEPT ![w] = "ended"]
  /\ UNCHANGED <<udp, worker, acceptor, sessions, active, stopping, draining>>

(* The lambda the stop_callback posts: close the acceptor, close_all (or   *)
(* close the UDP socket, beside which there are no sessions).              *)
RunCloseAcceptorOnly(w) ==
  /\ NextHandler(w, "close")
  /\ acceptor' = [acceptor EXCEPT ![w] = IF @ = "listening" THEN "closed" ELSE @]
  /\ closeRan' = closeRan \cup {w}
  /\ UNCHANGED <<udp, worker, loop, sessions, active, main, stopReq, draining>>

RunCloseSessionsOnly(w) ==
  /\ NextHandler(w, "close")
  /\ closed' = closed \cup registry[w]
  /\ closeRan' = closeRan \cup {w}
  /\ UNCHANGED <<udp, worker, acceptor, loop, registry, conn, owner, late,
                 active, main, stopReq, draining>>

RunClose(w) ==
  /\ NextHandler(w, "close")
  /\ acceptor' = [acceptor EXCEPT ![w] = IF @ = "listening" THEN "closed" ELSE @]
  /\ closed' = closed \cup registry[w]
  /\ closeRan' = closeRan \cup {w}
  /\ UNCHANGED <<udp, worker, loop, registry, conn, owner, late, active, main,
                 stopReq, draining>>

(* run() returns when nothing is queued and no coroutine waits for         *)
(* anything; the acceptor and the registry are destroyed.                  *)
WorkerExitsEarly(w) ==
  /\ worker[w] = "running" /\ queue[w] = <<>>
  /\ loop[w] = "ended"
  /\ worker' = [worker EXCEPT ![w] = "exited"]
  /\ acceptor' = [acceptor EXCEPT ![w] = "closed"]
  /\ UNCHANGED <<udp, queue, loop, sessions, active, stopping, draining>>

WorkerExits(w) ==
  /\ worker[w] = "running" /\ queue[w] = <<>>
  /\ loop[w] = "ended" /\ SessionsOf(w) = {}
  /\ worker' = [worker EXCEPT ![w] = "exited"]
  /\ acceptor' = [acceptor EXCEPT ![w] = "closed"]
  /\ UNCHANGED <<udp, queue, loop, sessions, active, stopping, draining>>
-----------------------------------------------------------------------------
(* The kernel hands a connection to a listening worker; async_accept has   *)
(* succeeded and its completion is queued.                                 *)
AcceptCompletes(w, c) ==
  /\ w \notin udp
  /\ worker[w] # "exited" /\ loop[w] = "accepting" /\ acceptor[w] = "listening"
  /\ conn[c] = "idle"
  /\ conn' = [conn EXCEPT ![c] = "accepted"]
  /\ owner' = [owner EXCEPT ![c] = w]
  /\ loop' = [loop EXCEPT ![w] = "completed"]
  /\ UNCHANGED <<udp, worker, queue, acceptor, registry, closed, late, active,
                 stopping, draining>>

(* async_accept or async_receive_from reports an error: operation_aborted  *)
(* or bad_descriptor when the socket is closed, any other (EMFILE...)      *)
(* while it listens.  The loop is over either way, and the socket stays as *)
(* it is.                                                                  *)
LoopEnds(w) ==
  /\ worker[w] = "running" /\ loop[w] = "accepting"
  /\ loop' = [loop EXCEPT ![w] = "ended"]
  /\ UNCHANGED <<udp, worker, queue, acceptor, sessions, active, stopping,
                 draining>>

AcceptAborted(w) == acceptor[w] = "closed" /\ LoopEnds(w)
AcceptFails(w) == acceptor[w] = "listening" /\ LoopEnds(w)

Accepted(w, c) == loop[w] = "completed" /\ conn[c] = "accepted" /\ owner[c] = w

Forget(c) ==
  /\ conn' = [conn EXCEPT ![c] = "idle"]
  /\ owner' = [owner EXCEPT ![c] = NoWorker]

AtCapacityOffByOne == active > MaxConnections
AtCapacity == active >= MaxConnections

(* The server is full: the new socket is closed and the loop goes on. *)
Refuse(w, c) ==
  /\ worker[w] = "running" /\ Accepted(w, c)
  /\ AtCapacity
  /\ Forget(c)
  /\ loop' = [loop EXCEPT ![w] = "accepting"]
  /\ UNCHANGED <<udp, worker, queue, acceptor, registry, closed, late, active,
                 stopping, draining>>

(* The capacity test has passed; the count is not taken yet. *)
PassCapacity(w, c) ==
  /\ worker[w] = "running" /\ Accepted(w, c)
  /\ ~AtCapacity
  /\ worker' = [worker EXCEPT ![w] = "admitting"]
  /\ UNCHANGED <<udp, queue, acceptor, loop, sessions, active, stopping,
                 draining>>

(* on_connection_opened, registry.add, co_spawn of the session, and        *)
(* async_accept again.                                                     *)
AdmitUncounted(w, c) ==
  /\ worker[w] = "admitting" /\ Accepted(w, c)
  /\ active' = active
  /\ registry' = [registry EXCEPT ![w] = @ \cup {c}]
  /\ late' = IF w \in closeRan THEN late \cup {c} ELSE late
  /\ conn' = [conn EXCEPT ![c] = "reading"]
  /\ worker' = [worker EXCEPT ![w] = "running"]
  /\ loop' = [loop EXCEPT ![w] = "accepting"]
  /\ UNCHANGED <<udp, queue, acceptor, owner, closed, stopping, draining>>

AdmitUnregistered(w, c) ==
  /\ worker[w] = "admitting" /\ Accepted(w, c)
  /\ active' = active + 1
  /\ registry' = registry
  /\ late' = IF w \in closeRan THEN late \cup {c} ELSE late
  /\ conn' = [conn EXCEPT ![c] = "reading"]
  /\ worker' = [worker EXCEPT ![w] = "running"]
  /\ loop' = [loop EXCEPT ![w] = "accepting"]
  /\ UNCHANGED <<udp, queue, acceptor, owner, closed, stopping, draining>>

Admit(w, c) ==
  /\ worker[w] = "admitting" /\ Accepted(w, c)
  /\ active' = active + 1
  /\ registry' = [registry EXCEPT ![w] = @ \cup {c}]
  /\ late' = IF w \in closeRan THEN late \cup {c} ELSE late
  /\ conn' = [conn EXCEPT ![c] = "reading"]
  /\ worker' = [worker EXCEPT ![w] = "running"]
  /\ loop' = [loop EXCEPT ![w] = "accepting"]
  /\ UNCHANGED <<udp, queue, acceptor, owner, closed, stopping, draining>>
-----------------------------------------------------------------------------
(* Session::run() is over, normally or by an exception: close(), then the  *)
(* lambda of accept_loop removes the session and decrements the count.     *)
SessionEndsNotifyAtOneLeft(w, c) ==
  /\ Forget(c)
  /\ closed' = closed \ {c} /\ late' = late \ {c}
  /\ registry' = [registry EXCEPT ![w] = @ \ {c}]
  /\ active' = active - 1
  /\ worker' = [worker EXCEPT ![w] = IF active = 2 THEN "notifying" ELSE @]
  /\ UNCHANGED <<udp, queue, acceptor, loop, stopping, draining>>

SessionEnds(w, c) ==
  /\ Forget(c)
  /\ closed' = closed \ {c} /\ late' = late \ {c}
  /\ registry' = [registry EXCEPT ![w] = @ \ {c}]
  /\ active' = active - 1
  /\ worker' = [worker EXCEPT ![w] = IF active = 1 THEN "notifying" ELSE @]
  /\ UNCHANGED <<udp, queue, acceptor, loop, stopping, draining>>

InSession(w, c, states) ==
  /\ worker[w] = "running" /\ owner[c] = w /\ conn[c] \in states

(* A whole frame was read, or the awaited store answered (the StoreClient  *)
(* runs on the orchestrator's io_context, which runs only while that       *)
(* thread is not in stop()): the handler is queued to run.                 *)
Completes(w, c) ==
  /\ \/ InSession(w, c, {"reading"}) /\ c \notin closed
     \/ InSession(w, c, {"store"}) /\ main = "serving"
  /\ conn' = [conn EXCEPT ![c] = "ready"]
  /\ UNCHANGED <<threads, registry, owner, closed, late, active, stopping,
                 draining>>

(* on_message goes on to its next co_await or to its end, where it may     *)
(* have closed the session, or throws.  A stop may have closed the socket  *)
(* since the frame was read: nobody looks.                                 *)
HandlerRuns(w, c) ==
  /\ InSession(w, c, {"ready"})
  /\ \/ /\ \/ conn' = [conn EXCEPT ![c] = "writing"] /\ UNCHANGED closed
           \/ UsesStore /\ conn' = [conn EXCEPT ![c] = "store"] /\ UNCHANGED closed
           \/ /\ conn' = [conn EXCEPT ![c] = "reading"]
              /\ closed' \in {closed, closed \cup {c}}
        /\ UNCHANGED <<threads, registry, owner, late, active, stopping, draining>>
     \/ SessionEnds(w, c)

(* send() is done: the client took the answer, or the write failed and the *)
(* socket is closed, which on_message does not notice.  It ends, or closes *)
(* the session, or asks the store (handle_proof, for the worlds).          *)
WriteReturns(w, c) ==
  /\ InSession(w, c, {"writing"})
  /\ \/ conn' = [conn EXCEPT ![c] = "reading"]
     \/ UsesStore /\ conn' = [conn EXCEPT ![c] = "store"]
  /\ closed' \in {closed, closed \cup {c}}
  /\ UNCHANGED <<threads, registry, owner, late, active, stopping, draining>>

(* EOF, a reset or an invalid frame. *)
PeerGone(w, c) ==
  /\ InSession(w, c, {"reading"}) /\ c \notin closed
  /\ SessionEnds(w, c)

(* wait_idle won the race; the timer runs only while a frame is awaited. *)
IdleTimeout(w, c) ==
  /\ InSession(w, c, {"reading"}) /\ c \notin closed
  /\ SessionEnds(w, c)

(* The read in progress fails on the closed socket. *)
SocketClosed(w, c) ==
  /\ InSession(w, c, {"reading"}) /\ c \in closed
  /\ SessionEnds(w, c)

(* notify_all: the waiter leaves the futex to compare the value again. *)
Notify(w) ==
  /\ worker[w] = "notifying"
  /\ worker' = [worker EXCEPT ![w] = "running"]
  /\ drain' = IF drain = "asleep" THEN "wait" ELSE drain
  /\ UNCHANGED <<udp, queue, acceptor, loop, sessions, active, stopping,
                 current, deadline>>
-----------------------------------------------------------------------------
(* A datagram has come: WorldUdpHandler::on_datagram sends it back, and the *)
(* loop awaits that before it receives the next.                           *)
Receive(w) ==
  /\ w \in udp
  /\ worker[w] = "running" /\ loop[w] = "accepting" /\ acceptor[w] = "listening"
  /\ loop' = [loop EXCEPT ![w] = "replying"]
  /\ UNCHANGED <<udp, worker, queue, acceptor, sessions, active, stopping,
                 draining>>

(* The datagram is sent, or not (a closed socket): nobody looks. *)
Replied(w) ==
  /\ worker[w] = "running" /\ loop[w] = "replying"
  /\ loop' = [loop EXCEPT ![w] = "accepting"]
  /\ UNCHANGED <<udp, worker, queue, acceptor, sessions, active, stopping,
                 draining>>
-----------------------------------------------------------------------------
(* SIGINT or SIGTERM: the handler calls stop() on the orchestrator thread. *)
Signal ==
  /\ main = "serving"
  /\ StopAnytime \/ \A w \in Workers : worker[w] \notin {"boot", "armed"}
  /\ main' = "stopping"
  /\ UNCHANGED <<threads, sessions, active, stopReq, closeRan, draining>>

(* request_stop: runs the stop_callback in this thread if there is one.    *)
(* udp_server.stop() begins when tcp_server.stop() has joined its threads. *)
RequestStop(w) ==
  /\ main = "stopping" /\ w \notin stopReq
  /\ w \in udp => \A v \in Workers \ udp : v \in stopReq /\ worker[v] = "exited"
  /\ stopReq' = stopReq \cup {w}
  /\ queue' = [queue EXCEPT ![w] =
                 IF worker[w] \in {"boot", "exited"} THEN @ ELSE Append(@, "close")]
  /\ UNCHANGED <<udp, worker, acceptor, loop, sessions, active, main, closeRan,
                 draining>>

(* Every worker of a server is asked before any of it is joined. *)
StartJoining ==
  /\ main = "stopping" /\ stopReq = Workers
  /\ main' = "joining"
  /\ UNCHANGED <<threads, sessions, active, stopReq, closeRan, draining>>

Join ==
  /\ main = "joining" /\ \A w \in Workers : worker[w] = "exited"
  /\ main' = "stopped"
  /\ UNCHANGED <<threads, sessions, active, stopReq, closeRan, draining>>
-----------------------------------------------------------------------------
(* wait_drained(timeout), called once. *)
DrainCall ==
  /\ Maintenance /\ drain = "idle"
  /\ drain' = "load"
  /\ UNCHANGED <<threads, sessions, active, stopping, current, deadline>>

DrainReturn ==
  /\ drain' = "returned"
  /\ current' = 0 /\ deadline' = FALSE

DrainLoad ==
  /\ drain = "load"
  /\ \/ active = 0 /\ DrainReturn
     \/ active # 0 /\ drain' = "check" /\ current' = active /\ UNCHANGED deadline
  /\ UNCHANGED <<threads, sessions, active, stopping>>

DrainCheck ==
  /\ drain = "check"
  /\ \/ deadline /\ DrainReturn
     \/ ~deadline /\ drain' = "wait" /\ UNCHANGED <<current, deadline>>
  /\ UNCHANGED <<threads, sessions, active, stopping>>

(* atomic::wait compares and sleeps in one step (a futex): it sleeps as    *)
(* long as the value is the one it was given.                              *)
DrainWait ==
  /\ drain = "wait"
  /\ \/ active = current /\ drain' = "asleep" /\ UNCHANGED current
     \/ active # current /\ drain' = "load" /\ current' = 0
  /\ UNCHANGED <<threads, sessions, active, stopping, deadline>>

DeadlinePasses ==
  /\ TimesOut /\ drain \notin {"idle", "returned"} /\ ~deadline
  /\ deadline' = TRUE
  /\ UNCHANGED <<threads, sessions, active, stopping, drain, current>>

DrainStep == DrainLoad \/ DrainCheck \/ DrainWait
-----------------------------------------------------------------------------
ThreadStep(w) ==
  \/ Arm(w) \/ Spawn(w) \/ StartLoop(w) \/ BindFails(w) \/ RunClose(w)
  \/ WorkerExits(w) \/ AcceptAborted(w) \/ AcceptFails(w) \/ Notify(w)
  \/ Receive(w) \/ Replied(w)

ConnStep(w, c) ==
  \/ AcceptCompletes(w, c) \/ Refuse(w, c) \/ PassCapacity(w, c) \/ Admit(w, c)
  \/ Completes(w, c) \/ HandlerRuns(w, c) \/ WriteReturns(w, c)
  \/ PeerGone(w, c) \/ IdleTimeout(w, c) \/ SocketClosed(w, c)

MainStep == Signal \/ (\E w \in Workers : RequestStop(w)) \/ StartJoining \/ Join

Next ==
  \/ \E w \in Workers : ThreadStep(w) \/ \E c \in Conns : ConnStep(w, c)
  \/ MainStep
  \/ DrainCall \/ DrainStep \/ DeadlinePasses

(* The steps a worker takes at most once each. *)
Lifecycle(w) ==
  \/ Arm(w) \/ Spawn(w) \/ StartLoop(w) \/ BindFails(w) \/ RunClose(w)
  \/ AcceptAborted(w) \/ WorkerExits(w)

(* What the threads and the queues of the program guarantee: a thread that *)
(* can run runs, and a posted handler is reached whatever else its worker  *)
(* does (an io_context is FIFO): the strong fairness, because sessions may *)
(* keep the worker busy again and again.  Nothing is assumed of clients,   *)
(* of the store, of signals or of errors.                                  *)
Fairness ==
  /\ \A w \in Workers :
       /\ SF_vars(Lifecycle(w))
       /\ WF_vars(\E c \in Conns : Refuse(w, c) \/ PassCapacity(w, c))
       /\ WF_vars(Notify(w) \/ \E c \in Conns : Admit(w, c))
       /\ WF_vars(Replied(w))
  /\ \A c \in Conns :
       /\ WF_vars(\E w \in Workers :
                    \/ HandlerRuns(w, c) \/ SocketClosed(w, c)
                    \/ WriteReturns(w, c) /\ c \in closed)
       /\ WF_vars(\E w \in Workers : IdleTimeout(w, c))
  /\ WF_vars(StartJoining \/ Join \/ \E w \in Workers : RequestStop(w))
  /\ WF_vars(DrainStep) /\ WF_vars(DeadlinePasses)

Spec == Init /\ [][Next]_vars
FairSpec == Spec /\ Fairness
-----------------------------------------------------------------------------
(* The sets the variables range over. *)
Types ==
  /\ udp \subseteq Workers
  /\ worker \in [Workers ->
       {"boot", "armed", "running", "admitting", "notifying", "exited"}]
  /\ queue \in [Workers -> Seq(Handlers)]
  /\ acceptor \in [Workers -> {"unopened", "listening", "closed"}]
  /\ loop \in [Workers ->
       {"none", "accepting", "completed", "replying", "ended"}]
  /\ registry \in [Workers -> SUBSET Conns]
  /\ conn \in [Conns -> {"idle", "accepted"} \cup InService]
  /\ owner \in [Conns -> Workers \cup {NoWorker}]
  /\ closed \subseteq Conns /\ late \subseteq Conns
  /\ active \in Int
  /\ main \in {"serving", "stopping", "joining", "stopped"}
  /\ stopReq \subseteq Workers /\ closeRan \subseteq Workers
  /\ drain \in {"idle", "load", "check", "wait", "asleep", "returned"}
  /\ current \in Int /\ deadline \in BOOLEAN

(* The type of the server's state; active_connections_ is a size_t. *)
TypeOK == Types /\ active \in Nat

(* active_connections_ (a size_t shared by all the workers) is at every    *)
(* instant the number of sessions in the registries: it neither wraps      *)
(* below zero nor leaks, however sessions end.                             *)
CountExact ==
  /\ active = Cardinality({c \in Conns : conn[c] \in InService})
  /\ \A w \in Workers : registry[w] = SessionsOf(w)

(* "capacite max" (server_role.hpp): the capacity as documented.  It holds *)
(* for the roles with one I/O thread.                                      *)
WithinMax == active <= MaxConnections

(* What the unsynchronised test and increment really guarantee: each       *)
(* worker but one may be one connection too generous.                      *)
OvershootBounded == active <= MaxConnections + Cardinality(Workers) - 1

(* A thread that is past the loop of run() holds no session, and once      *)
(* stop() has returned nothing is served, listened to or counted.          *)
StoppedIsQuiet ==
  /\ \A w \in Workers : worker[w] = "exited" =>
       /\ acceptor[w] = "closed" /\ registry[w] = {}
       /\ \A c \in Conns : owner[c] # w
  /\ main = "stopped" => active = 0

(* "ferme l'ecoute": a worker whose stop handler has run listens no more.  *)
ListenerStaysClosed == \A w \in closeRan : acceptor[w] # "listening"

(* "+ les sessions en cours": nor does it keep a session with an open      *)
(* socket.                                                                 *)
NoSurvivor == \A w \in closeRan : registry[w] \subseteq closed

(* What the stop handler really reaches: every session admitted before it  *)
(* ran has its socket closed.                                              *)
CloseReachesEarlier == \A w \in closeRan : registry[w] \subseteq closed \cup late

(* stop() returns, unless a connection that was admitted after its         *)
(* worker's stop handler had run stays open for ever.                      *)
StopReturns ==
  [](main = "stopping" => \/ <>(main = "stopped") \/ <>[](late \ closed # {}))

(* wait_drained() never misses the end of the last session: it returns, or *)
(* new sessions keep coming.                                               *)
DrainReturns == [](drain = "load" => \/ <>(drain = "returned") \/ []<>(active # 0))

(* "Attend (avec timeout)": it returns once its deadline has passed.       *)
DrainHonoursTimeout == (drain # "idle" /\ deadline) ~> (drain = "returned")
=============================================================================
