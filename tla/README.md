# Specifications of mmosrv-cpp

TLA+ models of the concurrent core of mmosrv-cpp, the TLC configurations that
check them, and TLAPS proofs of what matters most about them. Paths are
relative to the repository; definitions keep the names of the code they model,
and `PROJECT.json` maps each one to its lines.

## 1. The system

Three processes, one binary (`src/main.cpp`), each with an *orchestrator* thread
and one or two servers, TCP or UDP, built from one template.

| component | files (`include/` unless noted) | state | operations |
|---|---|---|---|
| Server core | `server.hpp`, `session.hpp` | per I/O thread: an `io_context`, an acceptor, a `SessionRegistry`; shared by the threads: `active_connections_` | `start`, `stop`, `wait_drained`, `active_connections`; the accept loop, `Session::run`, `send`, `close`; the datagram loop |
| Shared store | `store/shared_store.hpp` | `entries_` (key, value, expiry) under a `shared_mutex` | `put`, `get`, `take`, `sweep_expired`, `list_prefix`, `size` |
| Store RPC | `store/store_client.hpp`, `store/store_handler.hpp`, `store/store_wire.hpp` | none: one TCP connection per call, requests and answers signed by HMAC | `put`, `get`, `take`, `list_prefix`; `on_message` |
| Registry | `registry/world_registry.hpp` | entries of the shared store, 15 s to live | `heartbeat_loop` (every 5 s), `pick_login`, `list_worlds` |
| Handlers | `handlers/*.hpp` | thread_local maps from session address to stage, username, challenge | `on_message`, `on_disconnect` |
| Accounts | `accounts/*.hpp`, `tools/create_account.cpp` | an SQLite file, one connection per thread | `find`, `create` |
| SRP6 | `security/srp6.hpp` | none (pure) | registration, challenge, proof, verification |
| Framing, codecs | `net/*.hpp` | none (pure) | length prefix, readers and writers, messages |
| Channels | `net/channel.hpp`, `handlers/player_channel.hpp` | a dispatch table, built once | `dispatch` |
| Processes | `src/main.cpp`, `server_role.hpp` | the role and its constants | signals, sweeping every 30 s, start and stop |

How they interact:

- **Client → Master → Login → World.** Master answers any message with a ticket
  and the address of a Login server. Login *takes* the ticket, runs the SRP6
  exchange, *puts* a session token and sends it with the list of worlds. World
  *takes* the token and knows the session by the user name stored under it.
- **Login, World → Master.** Tickets, tokens and the registry are in the Master's
  memory. Login and World reach it by the Internal server, on a fresh
  connection per call. Two servers' threads (Master, Internal) and the sweeping
  loop therefore share one `SharedStore` in the Master process.
- **Orchestrator thread.** It runs the signal handler, which calls the blocking
  `stop()`, *and* the StoreClient's sockets, the heartbeats and the sweeping.

What is hard here, and hardly reachable by a test (`PROJECT.json` lists each
hazard at its line): the order of start-up, accepts and stop; the unsynchronised
capacity test; wake-ups and the time-out of `wait_drained`; shutting down from
the thread others wait for; single use of keys under concurrent takes, lazy
expiry, lost and late calls and restarts; per-session state keyed by an address
that is used again.

What makes each component correct:

- *Server*: the count is the number of sessions, bounded by the capacity; a stop
  closes listeners and sessions and returns; a drained server is noticed.
- *Store*: linearizable put/get/take with expiry; a taken key is gone; a list is
  bounded by what was and what still is there.
- *Flow*: a key lets one session through, a ticket buys one proof, World gives
  a client's name to nobody but that client, once it has proved its password.
- *RPC, registry*: a live server is listed, a dead one disappears, a refused
  call is not applied, and no call waits for ever. *Accounts*: an error is not an absence.
  *SRP6*: both sides agree exactly when the password is right. *Codecs*: what is
  written is what is read.

## 2. Modules

| module | models |
|---|---|
| `TtlMap` | what the store promises: an atomic map whose entries expire |
| `SharedStore` | `store/shared_store.hpp` as it is: mutex, lazy expiry, loops |
| `MCSharedStore` | its instances for TLC |
| `SharedStoreProofs` | theorems about `SharedStore`, and that it implements `TtlMap` |
| `Server` | `server.hpp` and `session.hpp`, for TCP and UDP, and the stop of `main.cpp` |
| `MCServer` | its instances for TLC |
| `ServerProofs` | theorems about `Server` |
| `StoreCalls` | what a store call over the network promises its caller |
| `StoreRpc` | `StoreClient` and `StoreHandler`, connection by connection |
| `MCStoreRpc` | its instance for TLC |
| `StoreRpcProofs` | theorems about `StoreRpc`, and that it implements `StoreCalls` |
| `AuthFlow` | the three handlers on top of `StoreCalls`, restarts of Master |
| `MCAuthFlow` | its instances for TLC |
| `AuthFlowProofs` | theorems about `AuthFlow` |
| `Registry` | the heartbeat loops of Login and World, and what they keep listed |
| `MCRegistry` | its instance for TLC |
| `RegistryProofs` | theorems about `Registry` |
| `Srp6` | the arithmetic of `security/srp6.hpp`, in any group |
| `LoginExchange` | one login: `create_account`, the account table, `client_sim`, `LoginHandler` and SRP6 |
| `MCLoginExchange` | its instance for TLC |
| `LoginExchangeProofs` | the laws of powers, that both sides compute one secret, theorems about `LoginExchange` |
| `Wire` | bytes, fields and frames: `net/byte_io.hpp`, `net/framing.hpp`, `read_frame`, `send` |
| `Codecs` | the messages of Master, Login and the store, the values of the registry |
| `CodecsProofs` | theorems about `Wire` and `Codecs`: what is encoded is decoded; frames on a stream that may be cut |
| `Journey` | a player's way through the three servers, byte by byte |
| `MCJourney` | its instance for TLC |
| `JourneyProofs` | theorems about `Journey` |

They make one chain: `SharedStore` implements `TtlMap` (the store of one process, by
threads); `StoreRpc` implements `StoreCalls` (the store of another process, by
connections), where a request is one step because of the former; `AuthFlow` runs its
handlers on an instance of `StoreCalls`. The time to live is left out of the last
three (`Expire` may happen at any time), which only adds behaviours; `Registry`,
where time is the matter, has its own view of the one `put` it uses. `LoginExchange`
justifies what `AuthFlow` takes for granted, that a proof is right exactly when the
password is; `Journey` justifies what all of them take for granted, that a message is
what its sender meant or nothing.

### SharedStore

Every method takes the lock, works and releases it on return; `pc[t]` is where
thread `t` is. `get`, `put` and the test of `take` are one step under the lock
(no other writer can come between), `take` is two (the value is moved out, then
the entry is erased), and the loops of `list_prefix` and `sweep_expired` are one
step per entry, in any order, because `is_expired` reads the clock again for
each entry: `Tick` may come at any moment. An entry keeps the time it has left,
so that the clock needs no bound. Two history variables serve the properties:
`spent` (keys taken and not put since) and `seen` (what was live when a reader
got the lock). `size()` is not modelled: it reads one number and nothing calls
it. The lock gives no order among the threads that wait for it, as the standard
gives none.

### Server

A worker runs one handler at a time, up to its next `co_await`: that is one
action, except where the shared counter is touched twice and another thread may
come between (`PassCapacity`/`Admit`, `SessionEnds`/`Notify`). `queue[w]` holds
what is posted or spawned onto the `io_context` (the close handler and the first
run of the accept loop): their order is the point. Completions of pending
operations (accept, read, write, timer, store answers) are not queued one by one: each is enabled when the operation can complete, in any order, with two
exceptions, because what runs before them matters: an accept that has completed but
has not been resumed (`loop[w] = "completed"`), and a read or a store call that
has completed but whose session has not been resumed (`conn[c] = "ready"`): a frame read
before `close_all` is handled after it.

| code | actions |
|---|---|
| `run_worker_impl` | `Arm` (stop_callback), `Spawn` (co_spawn, run), `RunClose` (the posted lambda), `WorkerExits` |
| `accept_loop` | `StartLoop`, `BindFails`, `AcceptCompletes`, `AcceptAborted`, `AcceptFails`, `Refuse`, `PassCapacity`, `Admit` |
| `datagram_loop`, `on_datagram` | `StartLoop`, `BindFails`, `Receive`, `Replied`, `AcceptAborted`, `AcceptFails` (there, of the receive) |
| `Session::run`, `send` | `Completes`, `HandlerRuns`, `WriteReturns`, `PeerGone`, `IdleTimeout`, `SocketClosed`; each end of a session is `SessionEnds` |
| `on_connection_closed` | the decrement in `SessionEnds`, `Notify` |
| `stop` and the signal | `Signal`, `RequestStop`, `StartJoining`, `Join` |
| `wait_drained` | `DrainCall`, `DrainLoad`, `DrainCheck`, `DrainWait`, `DeadlinePasses` |

A role is a choice of constants: `UsesStore` says whether its handlers await a
StoreClient (Login, World) or not (Master, Internal); the number of workers is
one for Master and Internal, the number of cores for Login and World. A send
that fails closes the socket and *returns*: the handler goes on, as in the code.
A connection that has ended may come again. `late` and `closeRan` are history.
`Maintenance` says whether `wait_drained` is called (nothing in `src/` calls it yet), and `TimesOut` whether
its time-out can pass: `DrainReturns` is checked without, so that it rests on the wake-ups alone.

A process has one or two servers, and `Deployments` says which of the workers may be
UDP ones: `udp` is chosen when the process starts. UDP workers share nothing with the
others but the thread that stops them all: `run_world` calls `tcp_server.stop()` and then
`udp_server.stop()`, so that no UDP worker is asked before the last TCP worker is
joined (`RequestStop`). `run_master` stops two TCP servers instead, Master and Internal, one after
the other (`main.cpp:127-128`). That is not modelled: they share no state that `Server` has, the
second is asked to stop once the first has returned, and each is an instance of its own. A UDP
worker has no session and no count; it goes from `Receive` to `Replied`, which its handler awaits, and its thread exits after a
receive error.

Session::run's comment (`session.hpp:64-71`) says an exception that leaves a
detached coroutine terminates the process; with `asio::detached` the completion
handler ignores the exception, and `BindFails` models that: the accept loop ends,
the thread has nothing to do and exits.

### StoreCalls and StoreRpc

`StoreCalls`: a call is `Ask`ed, `Serve`d at the Master's side in one step, and answered,
or it `Fail`s: it was never sent, or it was applied and its answer is lost, or it is
still on its way, in which case the request becomes an *orphan* that may be applied
later or lost. A failed call returns nothing, which its caller cannot tell from a miss.

`StoreRpc` is `roundtrip` against the Internal server, which has one I/O thread, so that
a handler is one step: `Call`, `Connect` or `ConnectFails`, `Write`, `ReadReply` or
`SocketFails` on the caller's side; `Accept` or `Refuse` (at capacity), `Handle` or `Ignore`
(`store_handler.hpp:43`: a wrong signature gets no answer and the connection stays open)
and `SessionEnds` on the Master's. The kernel completes a connection before it is
accepted, a request may be read after its caller has gone, an answer may be read after
the Master has ended. An accept error ends the accept loop (`AcceptFails`), and the
connections in the backlog wait until the last session ends, the thread exits and its
socket is closed (`WorkerExits`): `CallEnds` holds through that as well. The refinement mapping: a call has its answer as soon as the
answer is on the wire, and an orphan is a `put` or `take` in a connection whose caller
has gone. (The comment at `store_wire.hpp:123-127` says that the caller of
`decode_and_verify` must close the connection; `StoreHandler` ignores the message
instead, and what ends the call is the idle time-out.)

### AuthFlow

A session is a *slot*: the address of its `Session` object on its thread, which is
the key of the handlers' maps; a slot is used again after `End`, which is `on_disconnect`
and the end of the session in one step. A handler that awaits its StoreClient is a
slot in `pc = "store"` with a call of `StoreCalls`; a failed `take` is a refusal, and the
result of `put` is not looked at, as in the code. `MasterRestarts` empties the store.
Passwords are ideal: only a client with an account sends a right proof, and only
for itself. They may send wrong proofs too; a message the handlers reject is a `Disconnect`.

The store has one name space, and neither `handle_hello` (`login_handler.hpp:95`) nor World
(`world_handler.hpp:49`) asks what kind of key it takes: the first message of a client is any
key it was given, ticket or token, or the name under which a server is registered
(`main.cpp:150, 183`); it may be sent any number of times, from several
sessions and to either server (`SendKey`), and whatever value is found lets the session through
(`HelloFound`, `EnterFound`). So a ticket authenticates a session at World, with an empty user
name, and a registered name does with the server's address for a user name, although `world_handler.hpp:4` says that the first message is a token issued by Login.
What holds, and `WorldUserProved` states, is that such a session has no
client's name: a client's name is given only to that client, which has an account, by a
token that was drawn for a right proof of its password. `pass` is the key that let a session
through, and `proven[c]` the tokens drawn for c; both are history. `passed` and `proofs` count
per ticket and token alone (`Counted`), since a name is stored again at every heartbeat.

Assumed, by the shape of the state and by `AuthAssumption`: the random keys are not
guessed, clients do not hand keys to each other, and no user is named like the
address of a server. `gone` is history, the keys that were taken, have expired, went with
the Master's memory or were not put: `HeldIsStored` says that there is no other way for a
key that a client holds not to be in the store; in particular no token is sent before the
answer to its put. (A put that failed is on record in `gone`, as Login does not look at it.)
Not modelled here: restarts of Login and World (they lose only sessions), and the choice of
a Login by Master.

### Registry

Time is discrete. A server is where its `heartbeat_loop` is: asleep, in a call, in a
call the Master has applied, or down (the process has ended, or its orchestrator
thread is busy in `stop()`, which holds up the loop as well). An entry is the time
left to it. `roundtrip` has no time-out of its own, so `Delay`, the longest a call or
what it left in the network lasts, is a parameter, and every result is relative to
it: with the code's 5 s and 15 s, a server survives *one* failed heartbeat, and only
if a call takes no more than a second (two periods and one call in less than 15 s);
at two seconds the arithmetic no longer allows a single failure. `Taken` is an entry
erased by a client: Login and World pass any key on to `take`, a server's own among them,
so that a living server may be unlisted at any moment, until its next heartbeat is
applied, and is not told. `LivingStaysListed` is therefore about servers whose entry nobody has
taken since their last applied call, and `Relisted` counts a take among the disturbances
(failed calls, restarts) after which a server is back within a period. `misses` and
`calm` are history, counted up to `MissCap` and `CalmCap`, beyond which the properties do
not look: `RegistryAssumption` says so, and the proofs use it.

### Srp6 and LoginExchange

`Srp6` is `srp6.hpp` with `BIGNUM` as numbers: registration, `B`, `A` and the secret as
each side computes it. Of the group it assumes that g has an inverse modulo N: in the code
g is 2 and N is odd, so that (N + 1) / 2 is one. `LoginExchange` runs it between the three programs that take
part in a login. Runs of `create_account` race for one name (`Create`, `CreateFails`,
`CreateThrows`; an insertion is one step, as SQLite makes it). The client is where
`client_sim`'s `run` waits, or how it has ended (`at`): `SendHello`, `Respond`, `GiveUp`,
`ReadProof`, `ReadWorlds`, `NoAnswer`. `LoginHandler` is `RefuseTicket`, `LookupFails`, `Lookup`,
`RefuseProof`, `AcceptProof`, `SendProof`, `SendWorlds`; the last two follow an awaited store
call, and the connection may be cut between any two steps. A hash (x, u) is any
number, drawn when it is first computed; M1 and M2 are the tuples that are hashed. The client's `A` is
always a power of g, never a multiple of N (`SecretsAgree`), as `client_sim` computes it: what
`server_verify` does with another (`srp6.hpp:204`) is not covered by `MutualProof`. A
row that cannot be read and a row that does not exist give the same decoy
challenge (`FindResults`), and so does the model, which only remembers the difference.
Messages out of sequence are in `AuthFlow`.

### Wire, Codecs and Journey

`Wire` is `ByteWriter`, `ByteReader` and the frames, on sequences of bytes. A byte has `Byte`
values, 256 in the code: a smaller one keeps every width, low byte first in fields and high
byte first in frames, and brings the limits within reach. A size is truncated to the
width of its field, as `static_cast` does. `std::optional` is `Nothing` or `Just`. `Codecs` has
each message twice, as its encoder writes it and as its decoder reads it, since the
code states both.

`Journey` is one player's `client_sim`, and the game client it would go on as, with the
three servers and the registry. `up` and `down` are the bytes on its connection, which is
`Cut` anywhere: within a header, within a payload, after it. A store call is one step: it
goes through `Frame`, `Receive` and the codecs with the limits of the Internal server and of
StoreClient, and may fail (`StoreRpc` has its steps). A handler that goes on behind a store
call does so in a step of its own, and before it the connection may be cut, entries come and
go and packets arrive: `AcceptProof` (the put of the token), `SendProof` and `SendWorlds` (behind
`list_worlds`) in `handle_proof`, `Enter` (the message is read) and `Entered` (the take has
returned) in World. `Challenge` is one step, since `client_sim` sends nothing
before it has the challenge, and Login reads the registry only later; `Redirect` awaits nothing
but its send, as Master calls its own store. `Announce` is
a heartbeat's `put`; one that is too long for the Internal server is never stored, and
so does not happen. `Close` is each of the ways in which a server closes: a header out
of bounds, a key the store does not give, a message after the last.
What `seen` and `known` hold is compared with the histories `typed`, `sent`, `listed` and `packets`:

- `UserIntact`: no name is cut or wrapped on its way through five encodings, because
  `2048 < 4096 < 65536` keeps the long ones out at Login's own frame;
- `RedirectAnnounced`: the address is one Login server's, whatever else is announced;
- `ExchangeIntact`: salt, B, A, M1, M2 and token are what was sent;
- `WorldsIntact`: the list is complete or empty (or not read at all): a list that is too long
  for StoreClient becomes an empty list without a word, and one with too many worlds
  ends the client;
- `EchoIntact`: packets right behind the token wait for it; bodies come back in order. A
  move without a body is echoed as a frame of length zero, which every reader
  refuses (`session.hpp:132`, `client_sim.cpp:46`), and nothing is read after it.

What travels has the types of the code (`JourneyTypes`): a string is bytes and shorter than
`Byte^3`, so that no `u32` wraps (16 MiB in the code, where a string comes from a command line,
from a frame of at most 2^20, or is computed and short); the salts and keys that a server draws
are shorter than a `u16` counts; opcodes and ports are `u16`, a population is a `u32`. A login
server tells host and port, a world also its name and population, and no two worlds
tell the same, since they do not listen at the same address. There are at most half as
many worlds as a `u16` counts, which keeps the bytes of a list within a `u32`.

The entries of login servers are read by Master alone, those of worlds by Login alone:
`Follow` and `ToWorld` forget what nobody reads from there on, with what passed at Login
(`ForgetServers`, `IsLookedUp`), which keeps the instance small and takes no behaviour away.

## 3. Runs

| run | instance | shows |
|---|---|---|
| `store` | 3 threads, 2 keys, 1 value, 2 prefixes, ttl 0..1 | `SingleUse`, `ListBounds`; the refinement `ImplementsTtlMap`; types |
| `server_safety` | 2 workers, any of them UDP, 3 connections, capacity 1, store calls, stop at any time, `wait_drained` with its time-out | count, overshoot, what a stop reaches, what it leaves |
| `server_stop` | 2 workers, both TCP, one or both UDP, 2 connections that come again and again, capacity 1, no store calls; a stop once the threads have started, and a `wait_drained` without end | listeners stay closed, `stop()` returns, no wake-up is lost |
| `store_rpc` | 2 callers (1 with another secret), 2 connections, capacity 1, 1 key, 1 value | the promise of `StoreCalls`; every call ends |
| `registry` | 2 servers, 5 s, 15 s, calls of at most 1 s, takes by clients | the dead vanish, the living stay and come back |
| `auth` | 2 clients (1 account), 1 ticket, 1 token, 1 registered name, 1 Login slot, 1 World slot | single use end to end, proofs per key, whom World knows by a client's name, which held keys are stored |
| `journey` | 1 Login with 2 addresses, 3 Worlds, 4 user names, 2 packets, a byte of 12 values | what is meant arrives whole or not at all |
| `login` | 2 creators, 3 passwords, N = 7, g = 2, k = 5, 3 exponents, 3 hashes | one creation wins, its password passes, mutual proof, the client ends |

Four runs expect a violation: they check what a comment of the code says and
show a behaviour of the code that contradicts it.

| run | what the code says | what happens |
|---|---|---|
| `server_early_stop` | `stop()` "ferme l'ecoute" (`server.hpp:114-116`) | a stop during start-up closes an acceptor that is opened afterwards; `stop()` never returns |
| `server_late_accept` | "+ les sessions en cours" (same) | an accept completed behind the close handler is admitted and stays |
| `server_store_stop` | `stop()` returns once the threads are idle (same) | a session that awaits the store never ends: its answer needs the thread that joins |
| `server_drain_timeout` | "Attend (avec timeout)" (`server.hpp:122`) | a waiter asleep sees no deadline |

`max_connections` is called "capacite max" (`server_role.hpp:5`), but two threads pass the test
(`server.hpp:237`) before either counts: it is exceeded with two threads, and the real
bound, checked and proved, is `max_connections` + threads - 1 (`OvershootBounded`).

**Bounds.** Two workers are enough for every race between threads (they share one
counter); one more connection than the capacity is needed to refuse, and a
connection that returns covers re-use. In the store, two keys separate the
taken key from another one, three threads put a second reader or taker next to
a take and a put, a ttl of one already separates live, expired and swept, and
the two prefixes hold both keys and one. In the flow, a session at Login and one at World race for one key, as two at one server would: they share
nothing but the store; two clients tell whose state leaked, and a registered name, which is
stored again and again, lets a client come back as often as it likes. What is bounded there is the number of keys ever
drawn (tickets, tokens: random and never drawn twice). In `StoreRpc` one
connection more than the capacity is refused, and a caller that gave up leaves its
connection behind while it calls again. `Registry` runs with the code's own
intervals; its two history counters are capped where the properties stop looking.
In `login` the group is that of a safe prime, and g generates its squares, as in
the code; the exponents drawn are all there are modulo their order, hashes include 0,
and k is such that `B` may be 0. In `journey` the limits keep the order of the code (Login 60, Internal
80, World 100, u16 144, StoreClient and client 150 for 2048, 4096, 8192, 65536 and 2^20;
`JourneyAssumption` says so); user names are short, of the longest length Login
takes (52), one longer, and long enough to wrap (146); worlds announce a population beyond a u16, names
that wrap, and names of which two exceed the StoreClient's limit; three worlds
exceed `MaxWorlds`, while `MaxEntries` is out of reach, as it is in the code, where 100000
entries exceed 2^20 bytes first; `MaxPlays` packets with the echoed, the silent and an
unknown opcode, and with and without a body. No other counter is capped and no state constraint is used. Theorems cover the rest.

**Deadlock** is not checked for the server, which really stops, nor for a login and a
journey, which are over; it is checked everywhere else.

**Fairness** (`Server!Fairness`). A thread that can run does: weak fairness for
what a worker finishes once it is begun, for the orchestrator in `stop()`, for
the steps of `wait_drained` and its clock. A handler in an `io_context` is
reached whatever else its thread does, because the queue is first in first out:
sessions may keep the worker busy, so the steps a worker takes at most once
(`Lifecycle`) are strongly fair. A read on a closed socket fails and an idle
session times out. Nothing is assumed of clients, of the store, of signals or
of errors: a client may never read its answers, and `StopReturns` says what
becomes of that (a connection admitted late may hold `stop()` for ever).

`StoreRpc!Fairness`: the threads of both processes run, a kernel tells one end that
the other is closed (all that is asked of the network), and the idle timer of the Internal server
fires. Nothing is assumed of the Master's life or of its accept loop: after an accept error the
loop ends for good (`server.hpp:230-235`) while its socket goes on listening, but
the sessions it leaves end (their idle timer sees to it), the thread exits, and what
had connected is reset.

`LoginExchange!Fairness`: the client's program and the session run, and the store calls the
handler awaits end (`CallEnds` says when). The idle timer is not needed.

## 4. Proofs

`SharedStoreProofs` (any threads, keys, values, prefixes, times to live):

- `TypeCorrect`: `Spec => []TypeOK`.
- `TakenOnce`: `SingleUse`. The inductive invariant `Inv` adds to the type the lock
  discipline (a thread is in the body of a writing call only while it is *the* writer,
  and a reader excludes it), and that a spent key has no entry, or is the very key
  the writer is about to erase. A call can then read no spent key: whoever holds
  the lock next finds it erased.
- `ListBounded`: `ListBounds`, from an invariant about the loop: what is collected was
  live at the lock, and what is live and already visited is collected. It holds
  because a reader excludes every writer and expiry only removes.
- `Implements`: initial states map to initial states, and each step of the store is
  a step of `TtlMap` or a stutter under the mapping that hides expired entries and
  the entry a `take` is about to erase. Sweeping and list calls stutter; `Tick` maps to
  `Tick`; the linearization points are `PutInsert`, `GetRead`, `TakeMiss` and `TakeFind`.

`ServerProofs` (any workers, connections, capacity; a stop at any moment):

- `TypeCorrect`, `CountIsExact`: the count is the cardinality of the sessions in service, and
  each registry is what its worker serves. The induction needs that an accepted
  connection belongs to the one worker whose loop has completed.
- `OvershootIsBounded`: the strengthening counts the workers between the test and the
  increment: either nobody is there, or `active` plus their number is within
  `MaxConnections + Cardinality(Workers) - 1`.
- `OneThreadWithinMax`: its instance for one worker (Master, Internal): the capacity is exact.
- `ListenerClosed`: if no signal precedes `co_spawn`, the close handler is always behind
  the accept loop in the queue, so it closes what has been opened.
- `StoppedQuiet`, `CloseReaches`, with no such hypothesis: a handler is queued at most once
  and a loop that is queued has not begun (`OnceInv`); a connection that is accepted and not
  yet admitted is the one its worker's loop has in hand (`HandedOver`); and a worker that has
  exited has an ended loop, an empty queue and no session (`ExitedInv`). Without the first a
  second close handler could run after the sessions it should have reached; without the
  second an exited thread could own a connection that no registry holds.

`RegistryProofs` (any servers, intervals, times to live and delays with
`Interval + 2 * Delay < Ttl`):

- `TypeCorrect`, and one inductive invariant for each property, which says what
  each place in the loop leaves of the entry's life.
- `DeadDisappear`: what a dead server left in the network is as old as its death at least,
  so that the last renewal is at most `Delay` after it.
- `LivingStay`: since the last applied call the loop has used up at most the rest of
  that call, a period (`Interval + Delay`) per failed call, and where it is now. A take of the entry sets `misses` to its cap, where the property
  promises nothing, until the next call is applied.
- `ComeBack`: either a call was applied less than a period ago and its entry is left, or the last
  disturbance (a failed call, a take, a restart) was.

`StoreRpcProofs` (any callers, keys, values, connections and capacity):

- `CallerInv`, `ConnInv`, `CapacityInv`: a caller in its call has the client's end of one
  connection from the connect to the return, a connection carries the request of that
  caller or of one that has gone, an answer is the one its request gets, and the sessions
  are at most as many as the capacity.
- `TypeCorrect` and `Implements`: `Call` maps to `Ask`, `Resume` to the return to the caller,
  `ConnectFails` and `SocketFails` to `Fail` (with an orphan, if a `put` or `take` is left behind),
  `Handle` to `Serve` while the caller is there and to the late service of an orphan
  when it has gone, `Refuse` and `SessionEnds` to the loss of one; the rest are
  stutters. The invariants are needed where a connection is used again: a request that
  its caller left behind must not be taken for that of the connection's next user.

`AuthFlowProofs` (any clients, accounts, tickets, tokens and sessions), one inductive
invariant, `IInv`, in parts:

- `Types`, `Awaiting` and `PlaceInv` say which call a session may be in at its stage, and for which
  key; `IssuedInv`, that a key is drawn before anybody has it.
- `PassedOnce`, from `OnceInv`: the entry of a key is in one place, on its way to the store (in a
  call or in an orphan), in the store, in the answer of one `take`, or behind the session
  it let through, and it only moves forward: keys are drawn once.
- `ProvedOnce` (`OneProofPerKey`), from `ProofInv`: one session at most is at the proof for a ticket
  or token, and has not proved yet while it reads.
- `WorldKnows`, from `StandsInv`: wherever a token's entry is, it stands for one client, which
  has an account and for whose proof the token was drawn (`proven`); no other key ever has a
  client's name for its value. `WorldUserProved` is a part of the invariant beside it.
- `HeldStored`, from `StoredInv`: the answer to a `put` tells the truth, or the loss is in `gone`.

`LoginExchangeProofs`, first part (any group whose generator has an inverse): modular exponentiation is a
recursive function, and what it computes for every exponent is an induction over data. The
library's induction theorems take an operator, which the provers cannot instantiate, but
its theorem of the least element takes a set: `Induction` is made of that, and with it
the laws of powers. `SecretsAgree`: (B - k g^x)^(a + u x), as the client
computes it, is (A v^u)^b, as the server does, and A is never a multiple of N.

Second part (any nonces, hashes and any number of creators): the exchange is
followed by phases (`FlowInv`: nothing sent, challenged, proving, proved, over), each of
which says what is on the wire and what both sides have computed.

- `TypeCorrect`; `OneOwner` (`CreatedOnce`), from the place of each creator; `ProofIsMutual`
  (`MutualProof`): there is an answer on the wire only if Login has accepted the proof that the
  client computed, and it is the one the client expects.
- `PasswordPasses` (`RightPasswordPasses`): a client that knows the password and met a row that
  could be read sends the M1 that Login expects, by `SecretsAgree`, unless u is zero.

`CodecsProofs` (any size of a byte and of a hash, any limits, any content):

- `FrameArrives`, `CutFrameIsLost`: a frame gives its payload and leaves what follows it in
  the stream; an empty one, one above the limit or a part of one gives nothing.
- `LoginMessagesArrive`, `WorldListArrives`, `RedirectArrives`, `InfosArrive`, `StoreMessagesArrive`,
  `EntriesArrive`: each decoder gives what its encoder was given, a list that is too long is
  refused as a whole, and a redirect is taken for `NO_LOGIN` only if its ticket is as long as that mark.

  The hypothesis is that each field fits its width (`FieldsFit`); `Journey` shows what the
  limits make of those that do not. The argument is an induction along the bytes, again by
  the library's least element: a number by its quotients (`ValueOfNumber`), a row of fields by
  what the first i of them leave of the stream (`PartsFollow`), and what has been read
  after each (`FieldsRead`, `RowsRead`). `Wire` writes its loops as recursive functions for it.

  A second part is about streams: `Carries(s, ps)` says that s is what is left of the frames
  of ps when it is cut somewhere. A reader of such a stream gets the first payload, whole,
  and leaves a stream that carries the others, or gets nothing (`Arrives`); a cut, or another
  frame behind it, keeps that. Lists of what each payload yields (`Mapped`) follow the stream.

`JourneyProofs` (any servers, names, keys, proofs, packets and limits in the order of the code): each of
the six invariants of the run, for any registry, wherever and whenever the connection is cut.

- The messages first: each one arrives as it was meant or, when a limit is in the way, not at
  all (`Travels`, `MasterSays`, `PutArrives`, `TakeArrives`, `AnswerArrives`, `ListArrives`). This is
  where `FieldsFit` is discharged: a name too long for its prefix makes a frame that Login
  refuses, a world too long for its row is one the Internal server never stored.
- `JourneyInductive`: `IInv` holds in every state. Its parts are what the store holds (`StoreInv`: under a
  server's key the encoding of what it announced, short enough for the Internal server; under
  the token the name that was typed) and, for each place where the player may be, what is on the
  two streams. At Master and Login one side waits while the other speaks, and the
  stages are `Asking`, `Challenged`, `Proving`, `Issuing` (the token is put), `Answering` and `Waiting`
  (the proof is sent, unread or read, the worlds are not), `Answered`, `Proved` and `Listed`, each of
  which says which one or two messages a stream may carry. In World both sides speak: `Travelling` says that
  the echoes read, those on the way and those of the packets still unread are, in
  this order, the moves that were sent, or a part of them after a cut. The properties
  are about what has been decoded and say nothing of the bytes under way, so none of them is
  inductive by itself. There is one lemma per action (`AnnounceKeeps` ... `CloseKeeps`).
- `JourneyTyped` (`TypeOK`), `RedirectsAnnounced` (`RedirectAnnounced`), `UsersIntact` (`UserIntact`),
  `ExchangesIntact` (`ExchangeIntact`), `ListsIntact` (`WorldsIntact`) and `EchoesIntact` (`EchoIntact`) follow.
  `ListsIntact` is about registries within the bound of `JourneyTypes`; what is beyond it exceeds 2^20
  bytes, and StoreClient drops it.

Assumptions are the named `ASSUME`s of the modules: sentinels differ from members,
workers and connections are finite sets, the capacity is positive, the generator of the
group has an inverse, strings and numbers are within their C++ types. TLC evaluates each of them on its
instances. Every invariant and action property of a passing run is a theorem. Only model-checked
are the liveness properties (`StopReturns`, `DrainReturns`, `CallEnds`, `ClientEnds`), which rest on
fairness, beyond these provers, and the disagreements with docs that the four failing runs show.

## 5. Plan

In this order; each module has its instances and its properties before the next begins.

1. Done: the modules above, with their runs, and the proofs of section 4: the store, the servers for TCP and
   UDP, the store calls, the flow, the registry, one login, and the bytes of all of them.
2. `Accounts`: the connections per thread, the write lock and the busy time-out below
   `LoginExchange`'s insertion. To be shown: which error is told as which answer, and that
   "existe deja" (`create_account.cpp:34`) may be said of an account that does not exist.
3. Proofs: nothing is left of the safety properties. A second player in `Journey` would
   be the next model to prove about: tickets and tokens then tell players apart.

Not modelled and not planned: the HMAC and hash functions and the random
generator (OpenSSL; keys never repeat in the models), thread pinning, the pmr
arenas, the building of the dispatch table of `channel.hpp` (a magic static, which the
language makes safe), socket options, logging and printing, argument parsing, the build.
