-------------------------- MODULE HandshakeProofs ---------------------------
(***************************************************************************)
(* Proofs about Handshake: the two ends agree on a session however their   *)
(* frames overtake each other, and no end goes back to an earlier state.   *)
(***************************************************************************)
EXTENDS Handshake, TLAPS

\* States of a connection whose handshake is over.
Shaken == {"Authenticated", "Closed"}

\* A HelloReply on its way to the client carries the id of a server whose
\* handshake is over.
RepliesAgree ==
    \A f \in DOMAIN toClient : f.opcode = "HelloReply" =>
        server.state \in Shaken /\ f.id = server.id

\* AuthenticatedAgree is not inductive by itself: the reply the client is about to
\* accept must agree, the server must not take a reply itself, and the client must
\* not answer a Hello.
HandshakeInvariant ==
    /\ client \in Conn
    /\ server \in Conn
    /\ server.state # "Pending"
    /\ client.state = "Init" => client.id = NoId
    /\ RepliesAgree
    /\ AuthenticatedAgree

-----------------------------------------------------------------------------
(* The calls of Connection.                                                *)

\* c2 is what a call may make of c: it keeps the id and the state, goes forward,
\* or is closed.
Forward(c, c2) ==
    \/ c2.state = c.state
    \/ c2.state = "Pending" /\ c.state = "Init"
    \/ c2.state = "Authenticated" /\ c.state \in {"Init", "Pending"}
    \/ c2.state = "Closed"

\* The actions send a HelloReply only if they authenticate c2, with its id.
RepliesFor(c2, actions) ==
    \A f \in Sent(actions) : f.opcode = "HelloReply" =>
        c2.state = "Authenticated" /\ f.id = c2.id

\* What the action lists of Connection send: Close is no frame.
LEMMA SentFrames ==
    /\ Sent(<<>>) = {}
    /\ Sent(<<Close>>) = {}
    /\ \A f : Sent(<<SendFrame(f)>>) = {f}
    /\ \A f : Sent(<<SendFrame(f), Close>>) = {f}
<1>1. Sent(<<>>) = {}
    BY DEF Sent
<1>2. Sent(<<Close>>) = {}
    BY DEF Sent, Close
<1>3. ASSUME NEW f PROVE Sent(<<SendFrame(f)>>) = {f}
    BY DEF Sent, SendFrame
<1>4. ASSUME NEW f PROVE Sent(<<SendFrame(f), Close>>) = {f}
    BY DEF Sent, SendFrame, Close
<1> QED BY <1>1, <1>2, <1>3, <1>4

\* What the frames of Next look like.
LEMMA FrameFields ==
    ASSUME NEW f \in Frames
    PROVE  /\ f.opcode \in SessionOpcodes
           /\ f.opcode = "HelloReply" => f.id \in Ids
BY DEF Frames, Message, HelloReply, SessionOpcodes

\* A connection that has just been active has an age.
LEMMA ZeroAges == 0 \in 0..OldAge /\ 0 \in 0..HeartbeatInterval
BY ConnectionAssumption DEF OldAge

\* close keeps the id, update_activity and the passing of time the state as well.
LEMMA ConnFields ==
    ASSUME NEW c \in Conn
    PROVE  /\ CloseConn(c) \in Conn /\ CloseConn(c).id = c.id /\ CloseConn(c).state = "Closed"
           /\ UpdateActivity(c) \in Conn
           /\ UpdateActivity(c).id = c.id /\ UpdateActivity(c).state = c.state
           /\ Older(c) \in Conn /\ Older(c).id = c.id /\ Older(c).state = c.state
<1>1. OldAge \in Nat /\ HeartbeatInterval \in Nat
    BY ConnectionAssumption DEF OldAge
<1>2. CloseConn(c) \in Conn /\ CloseConn(c).id = c.id /\ CloseConn(c).state = "Closed"
    BY DEF Conn, ConnectionState, CloseConn
<1>3. /\ UpdateActivity(c) \in Conn
      /\ UpdateActivity(c).id = c.id /\ UpdateActivity(c).state = c.state
    BY ZeroAges DEF Conn, UpdateActivity
<1>4. PICK i, b : Older(c) = [c EXCEPT !.idle = i, !.beat = b]
                  /\ i = (IF c.idle < OldAge THEN c.idle + 1 ELSE c.idle)
                  /\ b = (IF c.beat # NoHeartbeat /\ c.beat < HeartbeatInterval
                          THEN c.beat + 1 ELSE c.beat)
    BY Zenon DEF Older
<1>5. i \in 0..OldAge
    BY <1>1, <1>4 DEF Conn
<1>6. b \in 0..HeartbeatInterval \cup {NoHeartbeat}
    BY <1>1, <1>4 DEF Conn
<1>7. Older(c) \in Conn /\ Older(c).id = c.id /\ Older(c).state = c.state
    BY <1>4, <1>5, <1>6 DEF Conn
<1> QED BY <1>2, <1>3, <1>7

\* handle_frame: forward only; a reply is taken in Pending, a Hello answered only
\* by a connection that has an id, and a HelloReply sent only then.
LEMMA HandleFrameResult ==
    ASSUME NEW c \in Conn, NEW f \in Frames, NEW r, r = HandleFrame(c, f)
    PROVE  /\ r.conn \in Conn
           /\ Forward(c, r.conn)
           /\ RepliesFor(r.conn, r.actions)
           /\ r.conn.state = "Pending" => c.state = "Pending"
           /\ r.conn.state = "Init" => c.state = "Init"
           /\ \/ r.conn.id = c.id
                 /\ (r.conn.state = "Authenticated" /\ c.state # "Authenticated" =>
                        c.state = "Init" /\ c.id # NoId)
              \/ /\ c.state = "Pending" /\ r.conn.state = "Authenticated"
                 /\ f.opcode = "HelloReply" /\ r.conn.id = f.id
<1>1. PICK d : d = UpdateActivity(c)
    OBVIOUS
<1>2. d \in Conn /\ d.id = c.id /\ d.state = c.state
    BY <1>1, ConnFields
<1>3. CloseConn(d) \in Conn /\ CloseConn(d).id = c.id /\ CloseConn(d).state = "Closed"
    BY <1>2, ConnFields
<1>4. [d EXCEPT !.state = "Authenticated"] \in Conn
    BY <1>2 DEF Conn, ConnectionState
<1>5. RepliesFor(d, <<>>) /\ RepliesFor(d, <<SendFrame(Message("Pong"))>>)
    BY SentFrames DEF RepliesFor, Message
<1>6. CASE r = Err(d)
    BY <1>2, <1>5, <1>6 DEF Err, Forward
<1>7. CASE c.state = "Init" /\ f.opcode = "Hello"
    <2>1. r = AnswerHello(d, f)
        BY <1>1, <1>2, <1>7 DEF HandleFrame
    <2>2. CASE f.valid /\ d.id # NoId
        <3>1. PICK a : a = [d EXCEPT !.state = "Authenticated"]
            OBVIOUS
        <3>2. a.state = "Authenticated" /\ a.id = d.id
            BY <1>2, <3>1 DEF Conn
        <3>3. r.conn = a /\ r.actions = <<SendFrame(HelloReply(d.id))>>
            BY <2>1, <2>2, <3>1 DEF AnswerHello, Ok
        <3>4. RepliesFor(a, <<SendFrame(HelloReply(d.id))>>)
            BY <3>2, SentFrames DEF RepliesFor, HelloReply
        <3> QED BY <1>2, <1>4, <1>7, <2>2, <3>1, <3>2, <3>3, <3>4 DEF Forward
    <2>3. CASE ~(f.valid /\ d.id # NoId)
        BY <1>6, <2>1, <2>3 DEF AnswerHello
    <2> QED BY <2>2, <2>3
<1>8. CASE c.state = "Pending" /\ f.opcode = "HelloReply"
    <2>1. r = AcceptReply(d, f)
        BY <1>1, <1>2, <1>8 DEF HandleFrame
    <2>2. CASE f.valid
        <3>1. PICK a : a = [d EXCEPT !.state = "Authenticated", !.id = f.id]
            OBVIOUS
        <3>2. f.id \in Ids
            BY <1>8, FrameFields
        <3>3. a \in Conn /\ a.state = "Authenticated" /\ a.id = f.id
            BY <1>2, <3>1, <3>2 DEF Conn, ConnectionState
        <3>4. r.conn = a /\ r.actions = <<>>
            BY <2>1, <2>2, <3>1 DEF AcceptReply, Ok
        <3>5. RepliesFor(a, <<>>)
            BY SentFrames DEF RepliesFor
        <3> QED BY <1>8, <3>3, <3>4, <3>5 DEF Forward
    <2>3. CASE ~f.valid
        BY <1>6, <2>1, <2>3 DEF AcceptReply
    <2> QED BY <2>2, <2>3
<1>9. CASE c.state = "Authenticated" /\ f.opcode \in {"Ping", "Pong"}
    <2>1. r \in {Ok(d, <<>>), Ok(d, <<SendFrame(Message("Pong"))>>)}
        BY <1>1, <1>2, <1>9 DEF HandleFrame
    <2> QED BY <1>2, <1>5, <2>1 DEF Ok, Forward
<1>10. CASE c.state # "Closed" /\ f.opcode = "Goodbye"
    <2>1. r = AcceptGoodbye(d, f)
        BY <1>1, <1>2, <1>10 DEF HandleFrame
    <2>2. CASE f.valid
        <3>1. r.conn = CloseConn(d) /\ r.actions = <<SendFrame(Message("Goodbye")), Close>>
            BY <2>1, <2>2 DEF AcceptGoodbye, Ok
        <3>2. RepliesFor(CloseConn(d), <<SendFrame(Message("Goodbye")), Close>>)
            BY SentFrames DEF RepliesFor, Message
        <3> QED BY <1>3, <3>1, <3>2 DEF Forward
    <2>3. CASE ~f.valid
        BY <1>6, <2>1, <2>3 DEF AcceptGoodbye
    <2> QED BY <2>2, <2>3
<1>11. CASE f.opcode = "Error"
    <2>1. r = Ok(CloseConn(d), <<Close>>)
        BY <1>1, <1>2, <1>11 DEF HandleFrame
    <2>2. RepliesFor(CloseConn(d), <<Close>>)
        BY SentFrames DEF RepliesFor
    <2> QED BY <1>3, <2>1, <2>2 DEF Ok, Forward
<1>12. CASE /\ ~(c.state = "Init" /\ f.opcode = "Hello")
            /\ ~(c.state = "Pending" /\ f.opcode = "HelloReply")
            /\ ~(c.state = "Authenticated" /\ f.opcode \in {"Ping", "Pong"})
            /\ ~(c.state # "Closed" /\ f.opcode = "Goodbye")
            /\ f.opcode # "Error"
    <2>1. r = Err(d)
        BY <1>1, <1>2, <1>12 DEF HandleFrame
    <2> QED BY <1>6, <2>1
<1> QED BY <1>7, <1>8, <1>9, <1>10, <1>11, <1>12

\* tick closes a connection or leaves its state, and sends no reply.
LEMMA TickResult ==
    ASSUME NEW c \in Conn, NEW r, r = Tick(c)
    PROVE  /\ r.conn \in Conn
           /\ r.conn.state \in {c.state, "Closed"}
           /\ r.conn.id = c.id
           /\ RepliesFor(r.conn, r.actions)
<1>1. CASE CheckTimeout(c)
    <2>1. r.conn = CloseConn(c) /\ r.actions = <<Close>>
        BY <1>1 DEF Tick, Ok
    <2>2. CloseConn(c) \in Conn /\ CloseConn(c).id = c.id /\ CloseConn(c).state = "Closed"
        BY ConnFields
    <2> QED BY <2>1, <2>2, SentFrames DEF RepliesFor
<1>2. CASE ~CheckTimeout(c) /\ HeartbeatDue(c)
    <2>1. /\ r.conn = [c EXCEPT !.beat = 0, !.idle = 0]
          /\ r.actions = <<SendFrame(Message("Ping"))>>
        BY <1>2 DEF Tick, Ok
    <2>2. r.conn \in Conn /\ r.conn.id = c.id /\ r.conn.state = c.state
        BY <2>1, ZeroAges DEF Conn
    <2>3. RepliesFor(r.conn, <<SendFrame(Message("Ping"))>>)
        BY SentFrames DEF RepliesFor, Message
    <2> QED BY <2>1, <2>2, <2>3
<1>3. CASE ~CheckTimeout(c) /\ ~HeartbeatDue(c)
    <2>1. r.conn = c /\ r.actions = <<>>
        BY <1>3 DEF Tick, Ok
    <2> QED BY <2>1, SentFrames DEF RepliesFor
<1> QED BY <1>1, <1>2, <1>3

-----------------------------------------------------------------------------
(* Frames under way.                                                       *)

\* The frames of a bag, after one is put in or taken out.
LEMMA BagDomains ==
    /\ DOMAIN EmptyBag = {}
    /\ \A B, S : DOMAIN (B (+) SetToBag(S)) = DOMAIN B \cup S
    /\ \A B, S : DOMAIN (B (-) SetToBag(S)) \subseteq DOMAIN B
<1>1. DOMAIN EmptyBag = {}
    BY DEF EmptyBag, SetToBag
<1>2. ASSUME NEW B, NEW S PROVE DOMAIN (B (+) SetToBag(S)) = DOMAIN B \cup S
    BY DEF SetToBag, (+)
<1>3. ASSUME NEW B, NEW S PROVE DOMAIN (B (-) SetToBag(S)) \subseteq DOMAIN B
    BY DEF SetToBag, (-)
<1> QED BY <1>1, <1>2, <1>3

\* Only what is sent is added.
LEMMA SendAdds ==
    ASSUME NEW end, NEW bag, NEW fs
    PROVE  DOMAIN Send(end, bag, fs) \subseteq DOMAIN bag \cup fs
BY BagDomains DEF Send

\* A step of the client: the server and its replies stay, the client moves forward
\* or accepts one of the replies.
LEMMA ClientMoves ==
    ASSUME HandshakeInvariant, client' \in Conn, server' = server,
           DOMAIN toClient' \subseteq DOMAIN toClient,
           client'.state = "Init" => client.state = "Init" /\ client'.id = client.id,
           client'.state = "Authenticated" =>
               \/ client.state = "Authenticated" /\ client'.id = client.id
               \/ client.state = "Init" /\ client.id # NoId
               \/ \E f \in DOMAIN toClient : f.opcode = "HelloReply" /\ client'.id = f.id
    PROVE  HandshakeInvariant'
<1> USE DEF HandshakeInvariant
<1>1. RepliesAgree'
    BY DEF RepliesAgree
<1>2. AuthenticatedAgree'
    BY DEF RepliesAgree, AuthenticatedAgree, Shaken
<1> QED BY <1>1, <1>2

\* A step of the server: it does not leave the states after the handshake nor
\* change its id in them, and its replies carry the id it has then.
LEMMA ServerMoves ==
    ASSUME HandshakeInvariant, server' \in Conn, client' = client,
           server'.state # "Pending",
           server.state \in Shaken => server'.state \in Shaken /\ server'.id = server.id,
           \A f \in DOMAIN toClient' : f.opcode = "HelloReply" =>
               f \in DOMAIN toClient \/ (server'.state \in Shaken /\ f.id = server'.id)
    PROVE  HandshakeInvariant'
<1> USE DEF HandshakeInvariant
<1>1. RepliesAgree'
    BY DEF RepliesAgree
<1>2. AuthenticatedAgree'
    BY DEF AuthenticatedAgree, Shaken
<1> QED BY <1>1, <1>2

-----------------------------------------------------------------------------
(* The actions.                                                            *)

\* send_hello.
LEMMA ClientHelloStep ==
    ASSUME HandshakeInvariant, ClientHello
    PROVE  HandshakeInvariant' /\ Forward(client, client') /\ Forward(server, server')
<1>1. /\ client' = [client EXCEPT !.state = "Pending", !.idle = 0]
      /\ client.state = "Init"
      /\ UNCHANGED <<server, toClient>>
    BY DEF ClientHello, ClientCall, SendHello, Ok
<1>2. client' \in Conn /\ client'.state = "Pending"
    BY <1>1, ZeroAges DEF HandshakeInvariant, Conn, ConnectionState
<1>3. HandshakeInvariant'
    BY <1>1, <1>2, ClientMoves
<1> QED BY <1>1, <1>2, <1>3 DEF Forward

\* handle_frame at the client.
LEMMA ClientReceiveStep ==
    ASSUME HandshakeInvariant, NEW f \in Frames, ClientReceive(f)
    PROVE  HandshakeInvariant' /\ Forward(client, client') /\ Forward(server, server')
<1>1. PICK r : r = HandleFrame(client, f)
    OBVIOUS
<1>2. /\ client' = r.conn
      /\ server' = server
      /\ f \in DOMAIN toClient
      /\ toClient' = toClient (-) SetToBag({f})
    BY <1>1 DEF ClientReceive, ClientCall, BagIn, BagToSet
<1>3. DOMAIN toClient' \subseteq DOMAIN toClient
    BY <1>2, BagDomains
<1>4. client \in Conn /\ (client.state = "Init" => client.id = NoId)
    BY DEF HandshakeInvariant
<1>5. /\ client' \in Conn
      /\ Forward(client, client')
      /\ client'.state = "Init" => client.state = "Init"
      /\ \/ client'.id = client.id
            /\ (client'.state = "Authenticated" /\ client.state # "Authenticated" =>
                   client.state = "Init" /\ client.id # NoId)
         \/ /\ client.state = "Pending" /\ client'.state = "Authenticated"
            /\ f.opcode = "HelloReply" /\ client'.id = f.id
    BY <1>1, <1>2, <1>4, HandleFrameResult
<1>6. HandshakeInvariant'
    BY <1>2, <1>3, <1>5, ClientMoves
<1> QED BY <1>2, <1>5, <1>6 DEF Forward

\* tick at the client.
LEMMA ClientTickStep ==
    ASSUME HandshakeInvariant, ClientTick
    PROVE  HandshakeInvariant' /\ Forward(client, client') /\ Forward(server, server')
<1>1. PICK r : r = Tick(client)
    OBVIOUS
<1>2. client' = r.conn /\ UNCHANGED <<server, toClient>>
    BY <1>1 DEF ClientTick, ClientCall
<1>3. client' \in Conn /\ client'.state \in {client.state, "Closed"} /\ client'.id = client.id
    BY <1>1, <1>2, TickResult DEF HandshakeInvariant
<1>4. HandshakeInvariant'
    BY <1>2, <1>3, ClientMoves
<1> QED BY <1>2, <1>3, <1>4 DEF Forward

\* What a call of the server sends is what its result sends.
LEMMA ServerCallSends ==
    ASSUME NEW r, ServerCall(r)
    PROVE  DOMAIN toClient' \subseteq DOMAIN toClient \cup Sent(r.actions)
BY SendAdds DEF ServerCall

\* handle_frame at the server, or handle_hello with an id chosen for the session.
LEMMA ServerReceiveStep ==
    ASSUME HandshakeInvariant, NEW f \in Frames, ServerReceive(f)
    PROVE  HandshakeInvariant' /\ Forward(client, client') /\ Forward(server, server')
<1>0. server \in Conn /\ server.state # "Pending"
    BY DEF HandshakeInvariant
<1>1. CASE ServerCall(HandleFrame(server, f))
    <2>1. PICK r : r = HandleFrame(server, f)
        OBVIOUS
    <2>2. server' = r.conn /\ client' = client
        BY <1>1, <2>1 DEF ServerCall
    <2>3. DOMAIN toClient' \subseteq DOMAIN toClient \cup Sent(r.actions)
        BY <1>1, <2>1, ServerCallSends
    <2>4. /\ server' \in Conn
          /\ Forward(server, server')
          /\ RepliesFor(server', r.actions)
          /\ server'.state # "Pending"
          /\ server'.id = server.id
        BY <1>0, <2>1, <2>2, HandleFrameResult
    <2>5. server.state \in Shaken => server'.state \in Shaken
        BY <2>4 DEF Forward, Shaken
    <2>6. HandshakeInvariant'
        BY <2>2, <2>3, <2>4, <2>5, ServerMoves DEF RepliesFor, Shaken
    <2> QED BY <2>2, <2>4, <2>6 DEF Forward
<1>2. ASSUME NEW id \in Ids, ServerCall(HandleHello(server, f, id))
      PROVE  HandshakeInvariant' /\ Forward(client, client') /\ Forward(server, server')
    <2>1. PICK r : r = HandleHello(server, f, id)
        OBVIOUS
    <2>2. server' = r.conn /\ client' = client
        BY <1>2, <2>1 DEF ServerCall
    <2>3. DOMAIN toClient' \subseteq DOMAIN toClient \cup Sent(r.actions)
        BY <1>2, <2>1, ServerCallSends
    <2>4. CASE server.state = "Init" /\ f.valid
        <3>1. /\ server' = [server EXCEPT !.state = "Authenticated", !.idle = 0, !.id = id]
              /\ r.actions = <<SendFrame(HelloReply(id))>>
            BY <2>1, <2>2, <2>4 DEF HandleHello, Ok
        <3>2. server' \in Conn /\ server'.state = "Authenticated" /\ server'.id = id
            BY <1>0, <3>1, ZeroAges DEF Conn, ConnectionState
        <3>3. RepliesFor(server', r.actions)
            BY <3>1, <3>2, SentFrames DEF RepliesFor, HelloReply
        <3>4. HandshakeInvariant'
            BY <2>2, <2>3, <2>4, <3>2, <3>3, ServerMoves DEF RepliesFor, Shaken
        <3> QED BY <2>2, <2>4, <3>2, <3>4 DEF Forward
    <2>5. CASE ~(server.state = "Init" /\ f.valid)
        <3>1. server' = server /\ r.actions = <<>>
            BY <2>1, <2>2, <2>5 DEF HandleHello, Err
        <3>2. DOMAIN toClient' \subseteq DOMAIN toClient
            BY <2>3, <3>1, SentFrames
        <3>3. HandshakeInvariant'
            BY <1>0, <2>2, <3>1, <3>2, ServerMoves
        <3> QED BY <2>2, <3>1, <3>3 DEF Forward
    <2> QED BY <2>4, <2>5
<1> QED BY <1>1, <1>2 DEF ServerReceive

\* tick at the server.
LEMMA ServerTickStep ==
    ASSUME HandshakeInvariant, ServerTick
    PROVE  HandshakeInvariant' /\ Forward(client, client') /\ Forward(server, server')
<1>1. PICK r : r = Tick(server)
    OBVIOUS
<1>2. server' = r.conn /\ client' = client /\ server \in Conn /\ server.state # "Pending"
    BY <1>1 DEF ServerTick, ServerCall, HandshakeInvariant
<1>3. DOMAIN toClient' \subseteq DOMAIN toClient \cup Sent(r.actions)
    BY <1>1, ServerCallSends DEF ServerTick
<1>4. /\ server' \in Conn /\ server'.state \in {server.state, "Closed"} /\ server'.id = server.id
      /\ RepliesFor(server', r.actions)
    BY <1>1, <1>2, TickResult
<1>5. HandshakeInvariant'
    BY <1>2, <1>3, <1>4, ServerMoves DEF RepliesFor, Shaken
<1> QED BY <1>2, <1>4, <1>5 DEF Forward

\* The steps that are no call of a connection.
LEMMA OtherSteps ==
    ASSUME HandshakeInvariant,
           \/ Elapse \/ SayGoodbye \/ ServerError \/ Disconnect \/ Hang
           \/ ClientLosesTransport \/ ServerLosesTransport \/ UNCHANGED vars
    PROVE  HandshakeInvariant' /\ Forward(client, client') /\ Forward(server, server')
<1>0. client \in Conn /\ server \in Conn /\ server.state # "Pending"
    BY DEF HandshakeInvariant
<1>1. CASE Elapse
    <2>1. /\ client' \in Conn /\ client'.id = client.id /\ client'.state = client.state
          /\ server' \in Conn /\ server'.id = server.id /\ server'.state = server.state
          /\ toClient' = toClient
        BY <1>0, <1>1, ConnFields DEF Elapse
    <2>2. HandshakeInvariant'
        BY <2>1 DEF HandshakeInvariant, RepliesAgree, AuthenticatedAgree
    <2> QED BY <2>1, <2>2 DEF Forward
<1>2. CASE SayGoodbye \/ ServerError
    <2>1. /\ UNCHANGED <<client, server>>
          /\ \E g \in {Message("Goodbye"), Message("Error")} :
                toClient' = toClient \/ toClient' = Send("client", toClient, {g})
        BY <1>2 DEF SayGoodbye, ServerError
    <2>2. \A f \in DOMAIN toClient' : f \in DOMAIN toClient \/ f.opcode # "HelloReply"
        BY <2>1, SendAdds DEF Message
    <2>3. HandshakeInvariant'
        BY <1>0, <2>1, <2>2, ServerMoves
    <2> QED BY <2>1, <2>3 DEF Forward
<1>3. CASE Disconnect \/ Hang \/ UNCHANGED vars
    <2>1. UNCHANGED <<client, server>> /\ toClient' \in {toClient, EmptyBag}
        BY <1>3 DEF Disconnect, Hang, vars
    <2>2. DOMAIN toClient' \subseteq DOMAIN toClient
        BY <2>1, BagDomains
    <2>3. HandshakeInvariant'
        BY <1>0, <2>1, <2>2, ServerMoves
    <2> QED BY <2>1, <2>3 DEF Forward
<1>4. CASE ClientLosesTransport
    <2>1. client' = CloseConn(client) /\ server' = server /\ toClient' = EmptyBag
        BY <1>4 DEF ClientLosesTransport
    <2>2. client' \in Conn /\ client'.state = "Closed"
        BY <1>0, <2>1, ConnFields
    <2>3. DOMAIN toClient' \subseteq DOMAIN toClient
        BY <2>1, BagDomains
    <2>4. HandshakeInvariant'
        BY <2>1, <2>2, <2>3, ClientMoves
    <2> QED BY <2>1, <2>2, <2>4 DEF Forward
<1>5. CASE ServerLosesTransport
    <2>1. server' = CloseConn(server) /\ client' = client /\ toClient' = toClient
        BY <1>5 DEF ServerLosesTransport
    <2>2. server' \in Conn /\ server'.state = "Closed" /\ server'.id = server.id
        BY <1>0, <2>1, ConnFields
    <2>3. HandshakeInvariant'
        BY <2>1, <2>2, ServerMoves DEF Shaken
    <2> QED BY <2>1, <2>2, <2>3 DEF Forward
<1> QED BY <1>1, <1>2, <1>3, <1>4, <1>5

\* Every step keeps the invariant and takes both ends forward.
LEMMA NextStep ==
    ASSUME HandshakeInvariant, [Next]_vars
    PROVE  HandshakeInvariant' /\ Forward(client, client') /\ Forward(server, server')
BY ClientHelloStep, ClientReceiveStep, ClientTickStep, ServerReceiveStep, ServerTickStep,
   OtherSteps DEF Next

\* The invariant holds at first.
LEMMA InitHolds == Init => HandshakeInvariant
<1> SUFFICES ASSUME Init PROVE HandshakeInvariant
    OBVIOUS
<1>1. 0 \in 0..OldAge
    BY ConnectionAssumption DEF OldAge
<1>2. NewConnection \in Conn /\ NewConnection.state = "Init" /\ NewConnection.id = NoId
    BY <1>1 DEF NewConnection, Conn, ConnectionState
<1>3. PICK id \in Ids : server = SetSessionId(NewConnection, id)
    BY DEF Init
<1>4. server \in Conn /\ server.state = "Init"
    BY <1>2, <1>3 DEF SetSessionId, Conn
<1>5. RepliesAgree
    BY BagDomains DEF Init, RepliesAgree
<1> QED BY <1>2, <1>4, <1>5 DEF Init, HandshakeInvariant, AuthenticatedAgree

\* The inductive invariant of the handshake: an id the client was given, or is about
\* to be given, is that of a server whose handshake is over (handle_frame, tick).
THEOREM HandshakeInvariantHolds == Spec => []HandshakeInvariant
<1>1. HandshakeInvariant /\ [Next]_vars => HandshakeInvariant'
    BY NextStep
<1> QED BY <1>1, InitHolds, PTL DEF Spec

\* A client that is authenticated has the id of a server that is authenticated, or
\* was closed since, for any ids, timeouts and number of frames under way
\* (handle_frame, handle_hello, tick).
THEOREM EndsAgree == Spec => []AuthenticatedAgree
<1>1. HandshakeInvariant => AuthenticatedAgree
    BY DEF HandshakeInvariant
<1> QED BY <1>1, HandshakeInvariantHolds, PTL

\* No call takes a connection back to an earlier state (handle_frame, tick).
THEOREM EndsOnlyAdvance == Spec => StatesOnlyAdvance
<1>1. ASSUME NEW c \in Conn, NEW d \in Conn, Forward(c, d)
      PROVE  Rank(d.state) >= Rank(c.state)
    <2>1. c.state \in ConnectionState
        BY DEF Conn
    <2> QED BY <1>1, <2>1 DEF Forward, Rank, ConnectionState
<1>2. HandshakeInvariant /\ [Next]_vars =>
          [/\ Rank(client'.state) >= Rank(client.state)
           /\ Rank(server'.state) >= Rank(server.state)]_vars
    BY <1>1, NextStep DEF HandshakeInvariant
<1> QED BY <1>2, HandshakeInvariantHolds, PTL DEF Spec, StatesOnlyAdvance
=============================================================================
