------------------------------- MODULE Server -------------------------------
(***************************************************************************)
(* Sessions of the server: the ServerDriver's connections and registry     *)
(* (lockframe-server/src/driver.rs) under the tasks of                     *)
(* lockframe-server/src/lib.rs: one handle_connection task per QUIC        *)
(* connection, and handle_stream tasks that outlive it.  What a room makes *)
(* of a frame is RoomPipeline's subject and left out here, as are the      *)
(* actions that send: they change no session.                              *)
(***************************************************************************)
EXTENDS Registry, Sequences, FiniteSets

CONSTANTS
    HandshakeTimeout, IdleTimeout, HeartbeatInterval, NoId, NoHeartbeat,
    MAX_CONNECTIONS,    \* DriverConfig.max_connections
    Streams,            \* handle_stream tasks
    ClientOpcodes,      \* the opcodes clients send
    Ticking,            \* the embedder calls process_event(Tick)
    Embedding           \* the embedder calls create_room and (un)subscribe

INSTANCE Connection WITH Ids <- Sessions

SessionLayer == {"Hello", "Ping", "Pong", "Goodbye"}

ASSUME ServerAssumption ==
    /\ HandshakeTimeout \in Nat /\ IdleTimeout \in Nat /\ HeartbeatInterval \in Nat
    /\ NoId \notin Sessions
    /\ NoHeartbeat \notin Nat
    /\ Absent \notin Conn
    /\ MAX_CONNECTIONS \in Nat
    /\ ClientOpcodes \subseteq SessionLayer \cup {"SyncRequest", "Welcome", "Room"}
    /\ Ticking \in BOOLEAN
    /\ Embedding \in BOOLEAN

\* Frames a client sends.  Room stands for every opcode the driver hands to the
\* RoomManager; only the payloads of Hello and Goodbye are decoded.
ClientFrame ==
    [opcode : ClientOpcodes \cap {"Hello", "Goodbye"}, valid : BOOLEAN, id : {NoId}]
        \cup [opcode : ClientOpcodes \cap {"Ping", "Pong"}, valid : {TRUE}, id : {NoId}]
        \cup [opcode : ClientOpcodes \cap {"SyncRequest", "Welcome", "Room"}, room : Rooms]

\* A stream task waits in read_exact, waits for the driver lock with the frame it
\* has read, or with a CloseConnection to execute, or has returned.
Stream ==
    [session : Sessions, at : {"reading", "closing", "ended"}]
        \cup [session : Sessions, at : {"read"}, frame : ClientFrame]
        \cup {Absent}

VARIABLES
    connections,    \* ServerDriver.connections
    shared,         \* sessions in SharedState.connections
    transport,      \* sessions whose QUIC connection is open
    task,           \* session -> where its handle_connection task is
    streams         \* stream -> its Stream, or Absent before it is spawned

runtimeVars == <<shared, transport, task, streams>>
vars == <<registryVars, connections, runtimeVars>>

\* A connection of the driver carries the session id it is filed under.
TypeOK ==
    /\ RegistryTypeOK
    /\ connections \in [Sessions -> Conn \cup {Absent}]
    /\ \A s \in Sessions : connections[s] # Absent => connections[s].id = s
    /\ shared \subseteq Sessions
    /\ transport \subseteq Sessions
    /\ task \in [Sessions -> {"none", "shared", "serving", "unshared", "done"}]
    /\ streams \in [Streams -> Stream]

Init ==
    /\ RegistryInit
    /\ connections = [s \in Sessions |-> Absent]
    /\ shared = {}
    /\ transport = {}
    /\ task = [s \in Sessions |-> "none"]
    /\ streams = [x \in Streams |-> Absent]

-----------------------------------------------------------------------------
(* Driver events, under the driver lock.                                   *)

Connected == {s \in Sessions : connections[s] # Absent}

\* Mutant of AtCapacity: one connection too many is accepted.
AtCapacity_OffByOne == Cardinality(Connected) > MAX_CONNECTIONS

AtCapacity == Cardinality(Connected) >= MAX_CONNECTIONS

\* Mutant of HandleConnectionAccepted: set_session_id is not called.
HandleConnectionAccepted_NoId(s) ==
    /\ connections' = [connections EXCEPT ![s] = NewConnection]
    /\ RegisterSession(s)

HandleConnectionAccepted(s) ==
    /\ connections' = [connections EXCEPT ![s] = SetSessionId(NewConnection, s)]
    /\ RegisterSession(s)

\* Mutant of HandleConnectionClosed: the registry keeps the session.
HandleConnectionClosed_SessionKept(s) ==
    /\ connections' = [connections EXCEPT ![s] = Absent]
    /\ UNCHANGED registryVars

HandleConnectionClosed(s) ==
    /\ connections' = [connections EXCEPT ![s] = Absent]
    /\ UnregisterSession(s)

\* Mutant of HandleSessionFrame: the session counts as authenticated although
\* handle_frame has refused the Hello.
HandleSessionFrame_AlwaysAuthenticates(s, f) ==
    /\ connections' = [connections EXCEPT ![s] = HandleFrame(@, f).conn]
    /\ IF f.opcode = "Hello" THEN Authenticate(s) ELSE UNCHANGED registryVars

\* A frame of the session layer.  An error of handle_frame returns before the
\* session is marked, but leaves the connection as handle_frame did.
HandleSessionFrame(s, f) ==
    /\ connections' = [connections EXCEPT ![s] = HandleFrame(@, f).conn]
    /\ IF f.opcode = "Hello" /\ HandleFrame(connections[s], f).ok
       THEN Authenticate(s)
       ELSE UNCHANGED registryVars

\* The sender of a Welcome is subscribed before the RoomManager sees the frame,
\* and stays subscribed when it refuses it.
HandleWelcome(s, f) ==
    /\ connections' = [connections EXCEPT ![s] = UpdateActivity(@)]
    /\ Subscribe(s, f.room)

HandleRoomFrame(s) ==
    /\ connections' = [connections EXCEPT ![s] = UpdateActivity(@)]
    /\ UNCHANGED registryVars

\* A SyncRequest is answered, and is no activity.
HandleSyncRequest == UNCHANGED <<connections, registryVars>>

\* handle_frame_received; without a connection it is Err(SessionNotFound).
HandleFrameReceived(s, f) ==
    CASE connections[s] = Absent      -> UNCHANGED <<connections, registryVars>>
      [] OTHER ->
           CASE f.opcode \in SessionLayer -> HandleSessionFrame(s, f)
             [] f.opcode = "SyncRequest"  -> HandleSyncRequest
             [] f.opcode = "Welcome"      -> HandleWelcome(s, f)
             [] f.opcode = "Room"         -> HandleRoomFrame(s)

\* The frame makes the driver return a CloseConnection.
Closes(s, f) ==
    /\ connections[s] # Absent
    /\ f.opcode \in SessionLayer
    /\ LET result == HandleFrame(connections[s], f)
       IN  \E i \in DOMAIN result.actions : result.actions[i] = Close

-----------------------------------------------------------------------------
(* execute_actions: CloseConnection closes what the shared map still holds. *)

\* Mutant of CloseConnections: the entry goes, the QUIC connection stays open.
CloseConnections_EntryOnly(ss) ==
    /\ shared' = shared \ ss
    /\ UNCHANGED transport

CloseConnections(ss) ==
    /\ shared' = shared \ ss
    /\ transport' = transport \ (ss \cap shared)

-----------------------------------------------------------------------------
(* handle_connection                                                       *)

\* A new connection gets its session id and enters the shared map.
Accept(s) ==
    /\ task[s] = "none"
    /\ task' = [task EXCEPT ![s] = "shared"]
    /\ shared' = shared \cup {s}
    /\ transport' = transport \cup {s}
    /\ UNCHANGED <<registryVars, connections, streams>>

\* ConnectionAccepted and its actions, under one lock.
Register(s) ==
    /\ task[s] = "shared"
    /\ task' = [task EXCEPT ![s] = "serving"]
    /\ IF AtCapacity
       THEN /\ CloseConnections({s})
            /\ UNCHANGED <<registryVars, connections>>
       ELSE /\ HandleConnectionAccepted(s)
            /\ UNCHANGED <<shared, transport>>
    /\ UNCHANGED streams

\* accept_bi returned a stream: a handle_stream task is spawned.
Spawn(s, x) ==
    /\ task[s] = "serving"
    /\ s \in transport
    /\ streams[x] = Absent
    /\ streams' = [streams EXCEPT ![x] = [session |-> s, at |-> "reading"]]
    /\ UNCHANGED <<registryVars, connections, shared, transport, task>>

\* Mutant of Leave: the task stops when somebody has removed the entry already.
Leave_OwnEntryOnly(s) ==
    /\ task[s] = "serving"
    /\ s \in shared \ transport
    /\ task' = [task EXCEPT ![s] = "unshared"]
    /\ shared' = shared \ {s}
    /\ UNCHANGED <<registryVars, connections, transport, streams>>

\* accept_bi failed: the connection is gone.
Leave(s) ==
    /\ task[s] = "serving"
    /\ s \notin transport
    /\ task' = [task EXCEPT ![s] = "unshared"]
    /\ shared' = shared \ {s}
    /\ UNCHANGED <<registryVars, connections, transport, streams>>

\* ConnectionClosed, and the end of the task.
Unregister(s) ==
    /\ task[s] = "unshared"
    /\ task' = [task EXCEPT ![s] = "done"]
    /\ HandleConnectionClosed(s)
    /\ UNCHANGED <<shared, transport, streams>>

\* The peer, or the network, ends the QUIC connection.
Disconnect(s) ==
    /\ s \in transport
    /\ transport' = transport \ {s}
    /\ UNCHANGED <<registryVars, connections, shared, task, streams>>

-----------------------------------------------------------------------------
(* handle_stream                                                           *)

Read(x, f) ==
    /\ streams[x] # Absent
    /\ streams[x].at = "reading"
    /\ streams[x].session \in transport
    /\ streams' = [streams EXCEPT ![x] =
                      [session |-> @.session, at |-> "read", frame |-> f]]
    /\ UNCHANGED <<registryVars, connections, shared, transport, task>>

\* Read error, or the client has finished the stream.
EndStream(x) ==
    /\ streams[x] # Absent
    /\ streams[x].at = "reading"
    /\ streams' = [streams EXCEPT ![x] = [session |-> @.session, at |-> "ended"]]
    /\ UNCHANGED <<registryVars, connections, shared, transport, task>>

\* FrameReceived.  Actions that close nothing leave the sessions alone, so the
\* task is back in its loop.
Process(x) ==
    /\ streams[x] # Absent
    /\ streams[x].at = "read"
    /\ LET s == streams[x].session
           f == streams[x].frame
       IN  /\ HandleFrameReceived(s, f)
           /\ streams' = [streams EXCEPT ![x] =
                 [session |-> s, at |-> IF Closes(s, f) THEN "closing" ELSE "reading"]]
    /\ UNCHANGED <<shared, transport, task>>

Execute(x) ==
    /\ streams[x] # Absent
    /\ streams[x].at = "closing"
    /\ CloseConnections({streams[x].session})
    /\ streams' = [streams EXCEPT ![x] = [session |-> @.session, at |-> "reading"]]
    /\ UNCHANGED <<registryVars, connections, task>>

-----------------------------------------------------------------------------
(* Calls of the embedding program, under the driver lock.                  *)

\* Tick, and its actions: every connection ticks, the expired ones are closed.
TickAll ==
    /\ Ticking
    /\ connections' = [s \in Sessions |->
          IF connections[s] = Absent THEN Absent ELSE Tick(connections[s]).conn]
    /\ CloseConnections({s \in Connected : CheckTimeout(connections[s])})
    /\ UNCHANGED <<registryVars, task, streams>>

Elapse ==
    /\ Ticking
    /\ connections' = [s \in Sessions |->
          IF connections[s] = Absent THEN Absent ELSE Older(connections[s])]
    /\ UNCHANGED <<registryVars, runtimeVars>>

\* create_room subscribes the creator; subscribe_to_room anyone.
Embed(s, r) ==
    /\ Embedding
    /\ Subscribe(s, r) \/ Unsubscribe(s, r)
    /\ UNCHANGED <<connections, runtimeVars>>

Next ==
    \/ \E s \in Sessions :
          \/ Accept(s) \/ Register(s) \/ Leave(s) \/ Unregister(s) \/ Disconnect(s)
          \/ \E x \in Streams : Spawn(s, x)
          \/ \E r \in Rooms : Embed(s, r)
    \/ \E x \in Streams :
          \/ \E f \in ClientFrame : Read(x, f)
          \/ EndStream(x) \/ Process(x) \/ Execute(x)
    \/ TickAll
    \/ Elapse

Spec == Init /\ [][Next]_vars

(***************************************************************************)
(* Fairness: the runtime runs every task that can go on, and the driver    *)
(* lock serves its waiters in order.  Nothing obliges a client.            *)
(***************************************************************************)
FairSpec ==
    /\ Spec
    /\ \A s \in Sessions : WF_vars(Register(s)) /\ WF_vars(Leave(s)) /\ WF_vars(Unregister(s))
    /\ \A x \in Streams : WF_vars(Process(x)) /\ WF_vars(Execute(x))

-----------------------------------------------------------------------------
\* The driver's two maps hold the same sessions, never more than
\* max_connections, although connections are accepted, closed and cleaned up by
\* tasks of their own.
ConnectionsAreSessions ==
    /\ \A s \in Sessions : connections[s] # Absent <=> HasSession(s)
    /\ Cardinality(Connected) <= MAX_CONNECTIONS

\* When the task of a connection is done nothing of its session is left, even if
\* streams of that connection still hold frames they read before it closed: those
\* find no connection, so a late Welcome subscribes nobody.
NothingLeftBehind ==
    \A s \in Sessions : task[s] = "done" =>
        /\ s \notin shared
        /\ connections[s] = Absent
        /\ ~HasSession(s)
        /\ \A r \in Rooms : s \notin SessionsInRoom(r)

\* A session marked authenticated has a connection that went through the
\* handshake: a refused Hello, or a second one, marks nothing.
AuthenticatedByHandshake ==
    \A s \in Sessions : sessions[s] = [authenticated |-> TRUE] =>
        /\ connections[s] # Absent
        /\ connections[s].state \in {"Authenticated", "Closed"}

\* A session that is being served over an open connection can be sent to: only
\* what closes the connection removes it from the shared map.
OpenIsReachable ==
    \A s \in Sessions : task[s] = "serving" /\ s \in transport => s \in shared

\* A connection the driver has closed, after a goodbye or a timeout, is given up
\* by the driver in the end: the CloseConnection reaches QUIC, the connection task
\* sees it and reports it back.
ClosedIsForgotten ==
    \A s \in Sessions :
        connections[s] # Absent /\ connections[s].state = "Closed" ~> connections[s] = Absent

\* The task of every connection that ends, whoever ends it, cleans up and returns.
DisconnectedIsDone ==
    \A s \in Sessions : task[s] # "none" /\ s \notin transport ~> task[s] = "done"
=============================================================================
