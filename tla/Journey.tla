------------------------------ MODULE Journey ------------------------------
(***************************************************************************)
(* What travels: one player's way through Master, Login and World, byte by *)
(* byte, on connections that may be cut anywhere.  The servers announce    *)
(* themselves in the Master's store (registry/world_registry.hpp), Master  *)
(* sends the player to a Login, Login proves it and shows it the worlds,   *)
(* World knows it by its token and answers its packets                     *)
(* (handlers/world_handler.hpp, handlers/player_channel.hpp).  Every value *)
(* passes through several encoders, frames and decoders with their limits  *)
(* before somebody acts on it.                                             *)
(*                                                                         *)
(* A store call is one step here, which may fail (StoreRpc has its steps), *)
(* and a handler goes on after it in a step of its own where the player or *)
(* the servers may come between; passwords and proofs are right            *)
(* (LoginExchange has the others).                                         *)
(***************************************************************************)
EXTENDS Codecs

CONSTANTS Logins, Worlds,  \* the servers, each known by its registry key
          Infos,           \* Infos[s]: what server s may announce of itself
          Usernames,
          Ticket, Token,   \* the random keys, of which one of each is enough
          Salts, PublicKeys, Hashes,   \* what the SRP6 exchange carries
          Opcodes, Bodies, MaxPlays,   \* packets for World, and how many
          LoginFrame, InternalFrame, WorldFrame,  \* their read_buffer_bytes
          AnswerFrame      \* what a StoreClient and a client accept (1 << 20)

Servers == Logins \cup Worlds

(* The limits are ordered as in the code: no string that a server accepts  *)
(* has a length that a u16 cannot hold.                                    *)
ASSUME JourneyAssumption ==
  /\ {LoginFrame, InternalFrame, WorldFrame, AnswerFrame} \subseteq Nat
  /\ LoginFrame < InternalFrame /\ InternalFrame < WorldFrame
  /\ WorldFrame < Byte * Byte /\ Byte * Byte < AnswerFrame
  /\ Logins \cap Worlds = {} /\ {Ticket, Token} \cap Servers = {}
  /\ Ticket # Token
  /\ \A h \in Hashes : Len(h) = HashSize
  /\ MaxPlays \in Nat

(* Strings are bytes, and their lengths far from what a u32 counts; what   *)
(* the servers draw is short; numbers have the width of their C++ type;    *)
(* no two worlds have the same address.                                    *)
IsString(s) == s \in Seq(0..Byte - 1) /\ Len(s) < Byte * Byte * Byte
IsDrawn(s) == IsString(s) /\ Len(s) < Byte * Byte
IsU16(v) == v \in 0..Byte * Byte - 1
IsU32(v) == v \in 0..Byte * Byte * Byte * Byte - 1

ASSUME JourneyTypes ==
  /\ \A s \in Servers \cup Usernames \cup PublicKeys \cup Hashes \cup Bodies :
       IsString(s)
  /\ \A s \in {Ticket, Token} \cup Salts : IsDrawn(s)
  /\ \A op \in Opcodes : IsU16(op)
  /\ \A s \in Logins : \A i \in Infos[s] :
       i = <<i[1], i[2]>> /\ IsString(i[1]) /\ IsU16(i[2])
  /\ \A s \in Worlds : \A i \in Infos[s] :
       /\ i = <<i[1], i[2], i[3], i[4]>>
       /\ IsString(i[1]) /\ IsU16(i[2]) /\ IsString(i[3]) /\ IsU32(i[4])
  /\ \A s, t \in Worlds : s # t => Infos[s] \cap Infos[t] = {}
  /\ IsFiniteSet(Worlds) /\ 2 * Cardinality(Worlds) <= Byte * Byte

VARIABLES
  entries,    \* the Master's store: a function from keys to bytes
  announced,  \* history: announced[s]: what the entry of server s stands for
  typed,      \* the user name the player typed
  at,         \* where the client is
  open,       \* its connection has not been cut
  up, down,   \* the bytes on it to and from the server
  session,    \* the server's state for it: "start", "proof", "issuing",
              \* "listing" (in handle_proof), "done" (Login), "entering" (in
              \* a take), "auth" (World), or "closed"
  seen,       \* what the client has decoded
  known,      \* what the servers have decoded
  listed,     \* history: the worlds announced when Login asked for them
  sent,       \* history: what the client and Login gave to the encoders
  packets     \* history: the packets sent to World

registry == <<entries, announced>>
connection == <<at, open, up, down, session>>
vars == <<registry, typed, connection, seen, known, listed, sent, packets>>

NothingSeen == [redirect |-> Nothing, challenge |-> Nothing, proof |-> Nothing,
                worlds |-> Nothing, echoes |-> <<>>]
NothingKnown == [user |-> Nothing, proof |-> Nothing, token |-> Nothing,
                 player |-> Nothing]
NothingSent ==
  [challenge |-> Nothing, clientProof |-> Nothing, proof |-> Nothing]

AtHome ==
  /\ at = "home" /\ open = FALSE /\ up = <<>> /\ down = <<>>
  /\ session = "start"
  /\ seen = NothingSeen /\ known = NothingKnown /\ sent = NothingSent
  /\ listed = {} /\ packets = <<>>

Init ==
  /\ entries = <<>>
  /\ announced = [s \in Servers |-> Nothing]
  /\ typed \in Usernames
  /\ AtHome
-----------------------------------------------------------------------------
(* A store call over the wire: what StoreHandler decodes of the request,   *)
(* and what StoreClient decodes of the answer, if both get through.        *)
AtMaster(request) ==
  Then(Receive(Frame(request), InternalFrame), LAMBDA f : DecodeStore(f.read))
AtCaller(answer) ==
  Then(Receive(Frame(answer), AnswerFrame), LAMBDA f : DecodeStore(f.read))

With(key, value) ==
  [k \in DOMAIN entries \cup {key} |-> IF k = key THEN value ELSE entries[k]]
Without(key) == [k \in DOMAIN entries \ {key} |-> entries[k]]
KeysUnder(servers) == DOMAIN entries \cap servers

(* StoreClient::put; it is done, or it failed on the way, or it was too    *)
(* long for the Internal server.                                           *)
Stored(request) == AtMaster(request) # Nothing
StorePut(request) ==
  LET r == AtMaster(request)[1] IN entries' = With(r.fields[1], r.fields[2])

(* StoreClient::take: what its answer is decoded to. *)
Taken(key) ==
  LET r == AtMaster(EncodeStore(Take, <<key, 0, 0>>)) IN
  Then(r, LAMBDA q :
    LET k == q.fields[1] IN
    AtCaller(IF k \in DOMAIN entries THEN EncodeStore(Value, <<entries[k]>>)
             ELSE EncodeStore(NotFound, <<>>)))

IsValue(answer) == answer # Nothing /\ answer[1].op = Value

(* list_worlds: the values that can be decoded, in the order of a hash     *)
(* map; no worlds when the answer is too long for the StoreClient.         *)
ListWorlds(keys) ==
  LET list == AtCaller(EncodeList(
                [i \in DOMAIN keys |-> <<keys[i], entries[keys[i]]>>]))
  IN IF list = Nothing THEN <<>>
     ELSE FlattenSeq([i \in DOMAIN list[1].fields |->
                        DecodeWorldInfo(list[1].fields[i][2])])
-----------------------------------------------------------------------------
(* Whose entry may still be read: a Login's by Master, a World's by Login.  *)
(* Beyond that the entries are forgotten.                                  *)
IsLookedUp(s) == at \in {"home", "master"} \/ (at = "login" /\ s \in Worlds)
ForgetServers(servers) ==
  /\ entries' = [k \in DOMAIN entries \ servers |-> entries[k]]
  /\ announced' = [s \in Servers |-> IF s \in servers THEN Nothing
                                     ELSE announced[s]]

(* A heartbeat of server s: what it tells of itself, under its own key. *)
Announce(s, info) ==
  LET value == IF s \in Logins THEN EncodeLoginInfo(info)
               ELSE EncodeWorldInfo(info)
      request == EncodeStore(Put, <<s, value, 15>>)
  IN
  /\ IsLookedUp(s) /\ Stored(request)
  /\ StorePut(request)
  /\ announced' = [announced EXCEPT ![s] = Just(info)]
  /\ UNCHANGED <<typed, connection, seen, known, listed, sent, packets>>

(* An entry expires, or somebody else's take has its key (see Registry). *)
Expire(k) ==
  /\ k \in DOMAIN entries
  /\ entries' = Without(k)
  /\ announced' = IF k \in Servers THEN [announced EXCEPT ![k] = Nothing]
                  ELSE announced
  /\ UNCHANGED <<typed, connection, seen, known, listed, sent, packets>>
-----------------------------------------------------------------------------
(* The client connects to a server and sends a first message. *)
ConnectTo(server, message) ==
  /\ at' = server /\ open' = TRUE
  /\ up' = Frame(message) /\ down' = <<>>
  /\ session' = "start"

ToMaster ==
  /\ at = "home"
  /\ ConnectTo("master", <<1>>)
  /\ UNCHANGED <<registry, typed, seen, known, listed, sent, packets>>

(* The connection is cut, with what was under way: the receiver has a      *)
(* part of it, and nothing follows.                                        *)
Parts(stream) == {0, 3, 4, Len(stream) - 1} \cap 0..Len(stream)

Cut ==
  /\ open /\ open' = FALSE
  /\ \/ \E n \in Parts(up) : up' = SubSeq(up, 1, n) /\ UNCHANGED down
     \/ \E n \in Parts(down) : down' = SubSeq(down, 1, n) /\ UNCHANGED up
  /\ UNCHANGED <<registry, typed, at, session, seen, known, listed, sent,
                 packets>>

(* Session::read_frame gives the handler a payload, or ends the session.   *)
Incoming(server, limit) ==
  IF at = server THEN Receive(up, limit) ELSE Nothing

(* Session::send: nothing passes on a connection that has been cut. *)
Send(stream) == down' = IF open THEN down \o stream ELSE down

(* Session::run ends and closes the socket, unless it is in a handler: on  *)
(* a header that announces no frame it would read, and on a message that   *)
(* Login does not expect; and when the store does not give a ticket or     *)
(* token (the call may also fail after the key is taken).                  *)
LimitOf ==
  [master |-> InternalFrame, login |-> LoginFrame, world |-> WorldFrame]
Refused ==
  Len(up) >= 4 /\ ValueOf(Reverse(SubSeq(up, 1, 4))) \notin 1..LimitOf[at]

Close ==
  /\ at # "home"
  /\ \/ /\ session \in {"start", "proof", "done", "auth"} /\ Refused
        /\ UNCHANGED entries
     \/ /\ session = "done" /\ Incoming("login", LoginFrame) # Nothing
        /\ UNCHANGED entries
     \/ /\ session = "start" /\ Incoming("login", LoginFrame) # Nothing
        /\ entries' \in {entries, Without(Ticket)}
     \/ session = "entering" /\ entries' \in {entries, Without(Token)}
  /\ session' = "closed" /\ open' = FALSE /\ up' = <<>>
  /\ UNCHANGED <<announced, typed, at, down, seen, known, listed, sent,
                 packets>>

(* What the client reads, whole or not at all. *)
ClientReads == Receive(down, AnswerFrame)
-----------------------------------------------------------------------------
(* MasterHandler: whatever the message, a ticket and the address of a      *)
(* Login, the first of a hash map, or the word that there is none.         *)
PickAnyServer ==
  IF KeysUnder(Servers) = {} THEN {Nothing}
  ELSE {DecodeLoginInfo(entries[k]) : k \in KeysUnder(Servers)}

PickLogin ==
  IF KeysUnder(Logins) = {} THEN {Nothing}
  ELSE {DecodeLoginInfo(entries[k]) : k \in KeysUnder(Logins)}

Redirect ==
  LET f == Incoming("master", InternalFrame) IN
  /\ f # Nothing
  /\ up' = f[1].rest
  /\ \E login \in PickLogin :
       \/ /\ login = Nothing
          /\ Send(Frame(EncodeNoLogin))
          /\ UNCHANGED entries
       \/ /\ login # Nothing
          /\ entries' = With(Ticket, <<>>)
          /\ Send(Frame(EncodeRedirect(Ticket, login[1][1], login[1][2])))
  /\ UNCHANGED <<announced, typed, at, open, session, seen, known, listed,
                 sent, packets>>

(* client_sim: the redirection is read, and the ClientHello goes to Login. *)
Follow ==
  /\ at = "master" /\ ClientReads # Nothing
  /\ LET msg == ClientReads[1].read
         redirect == DecodeRedirect(msg)
     IN /\ ~IsNoLogin(msg) /\ redirect # Nothing
        /\ seen' = [seen EXCEPT !.redirect = redirect]
        /\ ConnectTo("login",
                     EncodeLogin(ClientHello, <<redirect[1][1], typed>>))
  /\ ForgetServers(Logins)
  /\ UNCHANGED <<typed, known, listed, sent, packets>>

(* handle_hello: the ticket is taken, and the challenge sent. *)
Challenge ==
  /\ at = "login" /\ session = "start"
  /\ Incoming("login", LoginFrame) # Nothing
  /\ LET f == Incoming("login", LoginFrame)[1]
         hello == DecodeLogin(f.read)
     IN /\ hello # Nothing /\ hello[1].op = ClientHello
        /\ IsValue(Taken(hello[1].fields[1]))
        /\ entries' = Without(hello[1].fields[1])
        /\ up' = f.rest
        /\ known' = [known EXCEPT !.user = Just(hello[1].fields[2])]
  /\ session' = "proof"
  /\ \E salt \in Salts, B \in PublicKeys :
       /\ sent' = [sent EXCEPT !.challenge = Just(<<salt, B>>)]
       /\ Send(Frame(EncodeLogin(ServerChallenge, <<salt, B>>)))
  /\ UNCHANGED <<announced, typed, at, open, seen, listed, packets>>

(* client_sim: the challenge is read and the proof sent. *)
Prove ==
  /\ at = "login" /\ seen.challenge = Nothing /\ ClientReads # Nothing
  /\ LET f == ClientReads[1]
         challenge == DecodeLogin(f.read)
     IN /\ challenge # Nothing /\ challenge[1].op = ServerChallenge
        /\ seen' = [seen EXCEPT !.challenge = Just(challenge[1].fields)]
        /\ down' = f.rest
  /\ \E A \in PublicKeys, M1 \in Hashes :
       /\ sent' = [sent EXCEPT !.clientProof = Just(<<A, M1>>)]
       /\ up' = IF open
                THEN up \o Frame(EncodeLogin(ClientProof, <<A, M1>>)) ELSE up
  /\ UNCHANGED <<registry, typed, at, open, session, known, listed, packets>>

(* handle_proof: the token is put, whether the store takes it or not. *)
AcceptProof ==
  /\ at = "login" /\ session = "proof"
  /\ Incoming("login", LoginFrame) # Nothing
  /\ LET f == Incoming("login", LoginFrame)[1]
         proof == DecodeLogin(f.read)
         request == EncodeStore(Put, <<Token, known.user[1], 60>>)
     IN /\ proof # Nothing /\ proof[1].op = ClientProof
        /\ known' = [known EXCEPT !.proof = Just(proof[1].fields)]
        /\ up' = f.rest
        /\ \/ Stored(request) /\ StorePut(request)
           \/ UNCHANGED entries
  /\ session' = "issuing"
  /\ UNCHANGED <<announced, typed, at, open, down, seen, listed, sent, packets>>

(* put has returned, and nobody looks at what: the proof is sent. *)
SendProof ==
  /\ at = "login" /\ session = "issuing"
  /\ session' = "listing"
  /\ \E M2 \in Hashes :
       /\ sent' = [sent EXCEPT !.proof = Just(<<M2, Token>>)]
       /\ Send(Frame(EncodeLogin(ServerProof, <<M2, Token>>)))
  /\ UNCHANGED <<registry, typed, at, open, up, seen, known, listed, packets>>

(* The list of worlds follows it on the stream. *)
SendWorlds ==
  /\ at = "login" /\ session = "listing"
  /\ session' = "done"
  /\ \E keys \in SetToSeqs(KeysUnder(Worlds)) \cup {<<>>} :
       LET worlds == ListWorlds(keys) IN
       /\ listed' = {announced[k][1] : k \in KeysUnder(Worlds)}
       /\ Send(Frame(EncodeWorldList(
                  [i \in DOMAIN worlds |-> <<worlds[i][3], worlds[i][1],
                                             worlds[i][2], worlds[i][4]>>])))
  /\ UNCHANGED <<registry, typed, at, open, up, seen, known, sent, packets>>

(* client_sim: the server's proof, then the worlds. *)
ReadProof ==
  /\ at = "login" /\ seen.challenge # Nothing /\ seen.proof = Nothing
  /\ ClientReads # Nothing
  /\ LET f == ClientReads[1]
         proof == DecodeLogin(f.read)
     IN /\ proof # Nothing /\ proof[1].op = ServerProof
        /\ seen' = [seen EXCEPT !.proof = Just(proof[1].fields)]
        /\ down' = f.rest
  /\ UNCHANGED <<registry, typed, at, open, up, session, known, listed, sent,
                 packets>>

ReadWorlds ==
  /\ at = "login" /\ seen.proof # Nothing /\ ClientReads # Nothing
  /\ LET f == ClientReads[1]
         worlds == DecodeLogin(f.read)
     IN /\ worlds # Nothing /\ worlds[1].op = WorldList
        /\ seen' = [seen EXCEPT !.worlds = Just(worlds[1].fields)]
        /\ down' = f.rest
  /\ UNCHANGED <<registry, typed, at, open, up, session, known, listed, sent,
                 packets>>
-----------------------------------------------------------------------------
(* The client goes to World with its token, to which World answers         *)
(* nothing: packets may follow at once.  Nobody reads from here what       *)
(* passed between the client and Login: it is forgotten.                   *)
ToWorld ==
  /\ at = "login" /\ seen.proof # Nothing
  /\ ConnectTo("world", seen.proof[1][2])
  /\ seen' = NothingSeen /\ sent' = NothingSent /\ listed' = {}
  /\ known' = [known EXCEPT !.proof = Nothing]
  /\ ForgetServers(Servers)
  /\ UNCHANGED <<typed, packets>>

Play(op, body) ==
  /\ at = "world" /\ open /\ Len(packets) < MaxPlays
  /\ up' = up \o Frame(Number(op, 2) \o body)
  /\ packets' = Append(packets, <<op, body>>)
  /\ UNCHANGED <<registry, typed, at, open, down, session, seen, known,
                 listed, sent>>

(* WorldHandler: the first message is the token, which is taken; packets   *)
(* may arrive meanwhile.                                                   *)
Enter ==
  /\ at = "world" /\ session = "start"
  /\ Incoming("world", WorldFrame) # Nothing
  /\ LET f == Incoming("world", WorldFrame)[1] IN
     /\ known' = [known EXCEPT !.token = Just(f.read)]
     /\ up' = f.rest
  /\ session' = "entering"
  /\ UNCHANGED <<registry, typed, at, open, down, seen, listed, sent, packets>>

(* Its value is the name of the player. *)
Entered ==
  /\ at = "world" /\ session = "entering"
  /\ LET token == known.token[1]
         value == Taken(token)
     IN /\ IsValue(value)
        /\ entries' = Without(token)
        /\ known' = [known EXCEPT !.player = Just(value[1].fields[1])]
  /\ session' = "auth"
  /\ UNCHANGED <<announced, typed, at, open, up, down, seen, listed, sent,
                 packets>>

(* Then packets: an opcode and a body, which PlayerChannel sends back for  *)
(* two of them; a packet too short for an opcode, and an unknown opcode,   *)
(* are ignored.                                                            *)
Pong == 1
Move == 2
Portal == 3

Echoed(payload) ==
  Len(payload) >= 2 /\ ValueOf(SubSeq(payload, 1, 2)) \in {Move, Portal}

AnswerWithOpcode(payload) == IF Echoed(payload) THEN Frame(payload) ELSE <<>>

Answer(payload) ==
  IF Echoed(payload) THEN Frame(SubSeq(payload, 3, Len(payload))) ELSE <<>>

Dispatch ==
  /\ at = "world" /\ session = "auth"
  /\ Incoming("world", WorldFrame) # Nothing
  /\ LET f == Incoming("world", WorldFrame)[1] IN
     up' = f.rest /\ Send(Answer(f.read))
  /\ UNCHANGED <<registry, typed, at, open, session, seen, known, listed,
                 sent, packets>>

ReadEcho ==
  /\ at = "world" /\ ClientReads # Nothing
  /\ seen' = [seen EXCEPT !.echoes = Append(@, ClientReads[1].read)]
  /\ down' = ClientReads[1].rest
  /\ UNCHANGED <<registry, typed, at, open, up, session, known, listed, sent,
                 packets>>
-----------------------------------------------------------------------------
Next ==
  \/ \E s \in Servers : \E info \in Infos[s] : Announce(s, info)
  \/ \E k \in DOMAIN entries : Expire(k)
  \/ ToMaster \/ Redirect \/ Follow
  \/ Challenge \/ Prove \/ AcceptProof \/ SendProof \/ SendWorlds
  \/ ReadProof \/ ReadWorlds
  \/ ToWorld \/ Enter \/ Entered \/ Dispatch \/ ReadEcho
  \/ \E op \in Opcodes, body \in Bodies : Play(op, body)
  \/ Cut \/ Close

Spec == Init /\ [][Next]_vars
-----------------------------------------------------------------------------
IsBytes(b) == \A i \in DOMAIN b : b[i] \in 0..Byte - 1

(* The type of the journey: what is stored, sent and received are bytes.   *)
TypeOK ==
  /\ \A k \in DOMAIN entries : IsBytes(k) /\ IsBytes(entries[k])
  /\ at \in {"home", "master", "login", "world"} /\ open \in BOOLEAN
  /\ IsBytes(up) /\ IsBytes(down)
  /\ session \in {"start", "proof", "issuing", "listing", "done", "entering",
                  "auth", "closed"}
  /\ typed \in Usernames

(* A client is redirected to an address that a Login announced, with the   *)
(* ticket Master drew, never to a mixture or to another kind of server.    *)
RedirectAnnounced ==
  \A r \in {seen.redirect[i] : i \in DOMAIN seen.redirect} :
    r[1] = Ticket /\ \E s \in Logins : <<r[2], r[3]>> \in Infos[s]

(* From the keyboard through ClientHello, the put of the token, the store  *)
(* and World's take, a player is known by the name that was typed, or not  *)
(* at all: no length that wraps and no frame that is cut yields another.   *)
UserIntact == {known.user, known.player} \subseteq {Nothing, Just(typed)}

(* What the SRP6 exchange carries arrives whole, or the exchange ends.     *)
ExchangeIntact ==
  /\ seen.challenge \in {Nothing, sent.challenge}
  /\ known.proof \in {Nothing, sent.clientProof}
  /\ seen.proof \in {Nothing, sent.proof}

(* The list a client is shown is the registry as Login found it, each      *)
(* world once and with its own fields, or it is empty; never a part of it. *)
WorldsIntact ==
  \A worlds \in {seen.worlds[i] : i \in DOMAIN seen.worlds} :
    \/ worlds = <<>>
    \/ /\ Len(worlds) = Cardinality(listed)
       /\ ToSet(worlds) = {<<w[3], w[1], w[2], w[4]>> : w \in listed}

(* The bodies of the moves among some packets. *)
MovesIn(ps) ==
  FlattenSeq([i \in DOMAIN ps |-> IF ps[i][1] \in {Move, Portal}
                                  THEN <<ps[i][2]>> ELSE <<>>])

(* World sends back the bodies of the moves, in their order, each in a     *)
(* frame of its own, whatever is pipelined or ignored between them.        *)
EchoIntact == IsPrefix(seen.echoes, MovesIn(packets))
=============================================================================
