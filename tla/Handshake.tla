----------------------------- MODULE Handshake ------------------------------
(***************************************************************************)
(* Two ends of one connection: a client that sends Hello and a server that *)
(* answers it, over QUIC as lockframe-server/src/lib.rs uses it.  Every    *)
(* frame travels on a stream of its own, so frames may overtake each       *)
(* other.  A Close action closes the transport, also under frames that are *)
(* still on their way, and the other end finds its connection closed.      *)
(***************************************************************************)
EXTENDS Connection, Bags

CONSTANT MaxInFlight        \* bound: frames under way

ASSUME HandshakeAssumption == MaxInFlight \in Nat /\ Ids # {}

VARIABLES
    client, server,         \* the two connections
    toClient, toServer,     \* bags of frames under way
    open,                   \* the transport is open
    alive,                  \* the ends that have not hung
    farewells               \* the ends whose application has said goodbye

vars == <<client, server, toClient, toServer, open, alive, farewells>>

Ends == {"client", "server"}

\* handle_connection_accepted sets the id of the server's connection.
Init ==
    /\ client = NewConnection
    /\ \E id \in Ids : server = SetSessionId(NewConnection, id)
    /\ toClient = EmptyBag /\ toServer = EmptyBag
    /\ open = TRUE
    /\ alive = Ends
    /\ farewells = {}

-----------------------------------------------------------------------------
\* The driver's part (lib.rs, execute_actions): a SendFrame puts the frame on its
\* way, unless the transport is closed; a Close closes the transport.  Frames for
\* a hung end are never read and left out.
Sent(actions) ==
    {actions[i].frame : i \in {j \in DOMAIN actions : actions[j].type = "SendFrame"}}

Send(end, bag, fs) == IF open /\ end \in alive THEN bag (+) SetToBag(fs) ELSE bag

Execute(actions) == open' = (open /\ \A i \in DOMAIN actions : actions[i] # Close)

\* Another frame may be put on its way.  Frames that answer a received frame
\* take its place and need no room.
Room == BagCardinality(toClient) + BagCardinality(toServer) < MaxInFlight

ClientCall(result) ==
    /\ client' = result.conn
    /\ toServer' = Send("server", toServer, Sent(result.actions))
    /\ Execute(result.actions)
    /\ UNCHANGED <<server, alive, farewells>>

ServerCall(result) ==
    /\ server' = result.conn
    /\ toClient' = Send("client", toClient, Sent(result.actions))
    /\ Execute(result.actions)
    /\ UNCHANGED <<client, alive, farewells>>

ClientHello ==
    /\ "client" \in alive
    /\ client.state = "Init"
    /\ Room
    /\ ClientCall(SendHello(client))
    /\ UNCHANGED toClient

ClientReceive(f) ==
    /\ "client" \in alive
    /\ BagIn(f, toClient)
    /\ toClient' = toClient (-) SetToBag({f})
    /\ ClientCall(HandleFrame(client, f))

ServerReceive(f) ==
    /\ "server" \in alive
    /\ BagIn(f, toServer)
    /\ toServer' = toServer (-) SetToBag({f})
    /\ \/ ServerCall(HandleFrame(server, f))
       \/ f.opcode = "Hello" /\ \E id \in Ids : ServerCall(HandleHello(server, f, id))

ClientTick ==
    /\ "client" \in alive
    /\ Room \/ Sent(Tick(client).actions) = {}
    /\ ClientCall(Tick(client))
    /\ UNCHANGED toClient

ServerTick ==
    /\ "server" \in alive
    /\ Room \/ Sent(Tick(server).actions) = {}
    /\ ServerCall(Tick(server))
    /\ UNCHANGED toServer

\* Time passes for both ends.
Elapse ==
    /\ client' = Older(client)
    /\ server' = Older(server)
    /\ UNCHANGED <<toClient, toServer, open, alive, farewells>>

\* The application sends a Goodbye; its own connection waits for the answer.
SayGoodbye ==
    /\ Room
    /\ \/ /\ "client" \in alive \ farewells
          /\ client.state = "Authenticated"
          /\ toServer' = Send("server", toServer, {Message("Goodbye")})
          /\ farewells' = farewells \cup {"client"}
          /\ UNCHANGED toClient
       \/ /\ "server" \in alive \ farewells
          /\ server.state = "Authenticated"
          /\ toClient' = Send("client", toClient, {Message("Goodbye")})
          /\ farewells' = farewells \cup {"server"}
          /\ UNCHANGED toServer
    /\ UNCHANGED <<client, server, open, alive>>

\* make_error_response: a failed SyncRequest is answered with an Error frame.
ServerError ==
    /\ alive = Ends
    /\ client.state = "Authenticated" /\ server.state = "Authenticated"
    /\ Room
    /\ toClient' = Send("client", toClient, {Message("Error")})
    /\ UNCHANGED <<client, server, toServer, open, alive, farewells>>

\* The transport fails: the network, or the process of an end, is gone.
Disconnect ==
    /\ open' = FALSE
    /\ UNCHANGED <<client, server, toClient, toServer, alive, farewells>>

\* accept_bi fails: the driver closes its connection (handle_connection_closed),
\* and what was on its way to this end is lost.
ClientLosesTransport ==
    /\ ~open
    /\ "client" \in alive
    /\ client' = CloseConn(client)
    /\ toClient' = EmptyBag
    /\ UNCHANGED <<server, toServer, open, alive, farewells>>

ServerLosesTransport ==
    /\ ~open
    /\ "server" \in alive
    /\ server' = CloseConn(server)
    /\ toServer' = EmptyBag
    /\ UNCHANGED <<client, toClient, open, alive, farewells>>

\* The program of an end hangs: it reads and sends nothing any more.
Hang ==
    \E e \in alive :
        /\ alive' = alive \ {e}
        /\ toClient' = IF e = "client" THEN EmptyBag ELSE toClient
        /\ toServer' = IF e = "server" THEN EmptyBag ELSE toServer
        /\ UNCHANGED <<client, server, open, farewells>>

Frames ==
    {Message(o) : o \in SessionOpcodes \ {"HelloReply"}} \cup {HelloReply(id) : id \in Ids}

Next ==
    \/ ClientHello \/ ClientTick \/ ServerTick
    \/ \E f \in Frames : ClientReceive(f) \/ ServerReceive(f)
    \/ ClientLosesTransport \/ ServerLosesTransport
    \/ ServerError \/ SayGoodbye \/ Elapse \/ Disconnect \/ Hang

Spec == Init /\ [][Next]_vars

(***************************************************************************)
(* Fairness: time passes, tick is called periodically as its contract      *)
(* asks, QUIC delivers every frame it has accepted and reports a closed    *)
(* transport.                                                              *)
(***************************************************************************)
Fairness ==
    /\ WF_vars(Elapse) /\ WF_vars(ClientTick) /\ WF_vars(ServerTick)
    /\ WF_vars(ClientLosesTransport) /\ WF_vars(ServerLosesTransport)
    /\ \A f \in Frames : WF_vars(ClientReceive(f)) /\ WF_vars(ServerReceive(f))

FairSpec == Spec /\ Fairness

-----------------------------------------------------------------------------
\* A client that is authenticated has the id of the server's connection, which
\* is authenticated as well or was closed since, in whatever order Hello,
\* HelloReply, Ping, Goodbye and Error frames arrive.
AuthenticatedAgree ==
    client.state = "Authenticated" =>
        /\ server.state \in {"Authenticated", "Closed"}
        /\ client.id = server.id

Rank(state) ==
    CASE state = "Init" -> 0 [] state = "Pending" -> 1
      [] state = "Authenticated" -> 2 [] state = "Closed" -> 3

\* No frame takes a connection back: a HelloReply that comes after the handshake
\* timeout, or a second Hello, does not reopen it.
StatesOnlyAdvance ==
    [][/\ Rank(client'.state) >= Rank(client.state)
       /\ Rank(server'.state) >= Rank(server.state)]_vars

\* Every handshake a client starts is decided, also when the server hangs: the
\* reply or the timeout of tick ends it.
HandshakeDecided ==
    client.state = "Pending" ~>
        client.state \in {"Authenticated", "Closed"} \/ "client" \notin alive

\* A goodbye ends both connections: the receiver answers and closes, and the
\* answer, or the closed transport that may overtake it, closes the sender.
GoodbyeClosesBoth ==
    farewells # {} ~> \/ client.state = "Closed" /\ server.state = "Closed"
                      \/ alive # Ends
=============================================================================
