---------------------------- MODULE ServerProofs ----------------------------
(***************************************************************************)
(* Proofs about Registry and Server.  The two subscription maps of the     *)
(* registry agree after every sequence of calls.  Every step of the driver *)
(* and its tasks is one call of the registry or none, so the server        *)
(* implements RegistrySpec and inherits that; and driver, shared map,      *)
(* tasks and QUIC connections stay in step, by one inductive invariant.    *)
(***************************************************************************)
EXTENDS Server, FiniteSetTheorems, TLAPS

-----------------------------------------------------------------------------
(* The registry.                                                           *)

\* The inductive invariant.
RegistryInvariant == RegistryTypeOK /\ MapsAgree

\* Removing a subscriber: the type, the members and the entry that is left.
LEMMA WithoutSubscriber ==
    ASSUME NEW ss \in (SUBSET Sessions) \cup {Absent}, NEW s \in Sessions
    PROVE  /\ Without(ss, s) \in (SUBSET Sessions) \cup {Absent}
           /\ Without(ss, s) # {}
           /\ OrEmpty(Without(ss, s)) = OrEmpty(ss) \ {s}
<1>1. {} \in SUBSET Sessions /\ Absent # {}
    BY AbsentAssumption
<1>2. CASE ss = Absent
    BY <1>1, <1>2 DEF Without, OrEmpty
<1>3. CASE ss # Absent
    <2>1. ss \in SUBSET Sessions /\ OrEmpty(ss) = ss
        BY <1>3 DEF OrEmpty
    <2>2. ss \ {s} \in SUBSET Sessions
        BY <2>1
    <2>3. Absent # ss \ {s}
        BY <2>2, AbsentAssumption
    <2> QED BY <1>1, <2>1, <2>2, <2>3 DEF Without, OrEmpty
<1> QED BY <1>2, <1>3

\* A set of sessions or rooms is an entry, and its own OrEmpty.
LEMMA EntryIsSet ==
    /\ \A ss \in SUBSET Sessions : ss # Absent /\ OrEmpty(ss) = ss
    /\ \A rs \in SUBSET Rooms : rs # Absent /\ OrEmpty(rs) = rs
    /\ OrEmpty(Absent) = {}
BY AbsentAssumption DEF OrEmpty

\* Every entry, present or not, reads as a set.
LEMMA ReadsAsSet ==
    /\ \A ss \in (SUBSET Sessions) \cup {Absent} : OrEmpty(ss) \in SUBSET Sessions
    /\ \A rs \in (SUBSET Rooms) \cup {Absent} : OrEmpty(rs) \in SUBSET Rooms
BY EntryIsSet DEF OrEmpty

\* A SessionInfo is an entry, whatever its flag.
LEMMA SessionInfoIsEntry ==
    \A b \in BOOLEAN : [authenticated |-> b] \in SessionInfo /\ [authenticated |-> b] # Absent
<1>1. \A b \in BOOLEAN : [authenticated |-> b] \in SessionInfo
    BY DEF SessionInfo
<1> QED BY <1>1, AbsentAssumption

\* register_session gives a new session an empty room set.
LEMMA RegisterKeepsInvariant ==
    ASSUME RegistryInvariant, NEW s \in Sessions, RegisterSession(s)
    PROVE  RegistryInvariant'
<1> USE DEF RegistryInvariant
<1>1. CASE HasSession(s)
    BY <1>1 DEF RegisterSession, registryVars, RegistryTypeOK, MapsAgree,
                HasSession, SessionsInRoom, RoomsForSession
<1>2. CASE ~HasSession(s)
    <2>1. /\ sessions' = [sessions EXCEPT ![s] = [authenticated |-> FALSE]]
          /\ session_rooms' = [session_rooms EXCEPT ![s] = {}]
          /\ room_subscriptions' = room_subscriptions
        BY <1>2 DEF RegisterSession
    <2>2. [authenticated |-> FALSE] \in SessionInfo /\ [authenticated |-> FALSE] # Absent
        BY SessionInfoIsEntry
    <2>3. RegistryTypeOK'
        BY <2>1, <2>2 DEF RegistryTypeOK
    <2>4. session_rooms[s] = Absent /\ RoomsForSession(s) = {}
        BY <1>2, EntryIsSet DEF MapsAgree, RoomsForSession
    <2>5. {} # Absent /\ OrEmpty({}) = {}
        BY EntryIsSet
    <2>6. \A u \in Sessions : RoomsForSession(u)' = RoomsForSession(u)
        BY <2>1, <2>4, <2>5 DEF RoomsForSession, RegistryTypeOK
    <2>7. \A r \in Rooms : SessionsInRoom(r)' = SessionsInRoom(r)
        BY <2>1 DEF SessionsInRoom
    <2>8. \A u \in Sessions : HasSession(u)' <=> (session_rooms[u] # Absent)'
        BY <2>1, <2>2, <2>5 DEF MapsAgree, HasSession, RegistryTypeOK
    <2> QED BY <2>1, <2>3, <2>6, <2>7, <2>8 DEF MapsAgree
<1> QED BY <1>1, <1>2

\* unregister_session removes the session from every room it is subscribed to.
LEMMA UnregisterKeepsInvariant ==
    ASSUME RegistryInvariant, NEW s \in Sessions, UnregisterSession(s)
    PROVE  RegistryInvariant'
<1> USE DEF RegistryInvariant
<1>1. CASE ~HasSession(s)
    BY <1>1 DEF UnregisterSession, registryVars, RegistryTypeOK, MapsAgree,
                HasSession, SessionsInRoom, RoomsForSession
<1>2. CASE HasSession(s)
    <2>1. /\ sessions' = [sessions EXCEPT ![s] = Absent]
          /\ session_rooms' = [session_rooms EXCEPT ![s] = Absent]
          /\ room_subscriptions' =
                [r \in Rooms |-> IF r \in RoomsForSession(s)
                                 THEN Without(room_subscriptions[r], s)
                                 ELSE room_subscriptions[r]]
        BY <1>2 DEF UnregisterSession
    <2>2. \A r \in Rooms : room_subscriptions[r] \in (SUBSET Sessions) \cup {Absent}
        BY DEF RegistryTypeOK
    <2>3. \A r \in Rooms : /\ room_subscriptions'[r] \in (SUBSET Sessions) \cup {Absent}
                           /\ room_subscriptions'[r] # {}
        BY <2>1, <2>2, WithoutSubscriber DEF MapsAgree
    <2>4. RegistryTypeOK'
        BY <2>1, <2>3 DEF RegistryTypeOK
    <2>5. \A r \in Rooms : SessionsInRoom(r)' = SessionsInRoom(r) \ {s}
        <3> SUFFICES ASSUME NEW r \in Rooms
                     PROVE  SessionsInRoom(r)' = SessionsInRoom(r) \ {s}
            OBVIOUS
        <3>1. CASE r \in RoomsForSession(s)
            BY <3>1, <2>1, <2>2, WithoutSubscriber DEF SessionsInRoom
        <3>2. CASE r \notin RoomsForSession(s)
            <4>1. s \notin SessionsInRoom(r)
                BY <3>2 DEF MapsAgree
            <4> QED BY <3>2, <4>1, <2>1 DEF SessionsInRoom
        <3> QED BY <3>1, <3>2
    <2>6. \A u \in Sessions : RoomsForSession(u)' = IF u = s THEN {} ELSE RoomsForSession(u)
        BY <2>1, EntryIsSet DEF RoomsForSession, RegistryTypeOK
    <2>7. \A u \in Sessions : HasSession(u)' <=> (session_rooms[u] # Absent)'
        BY <2>1 DEF MapsAgree, HasSession, RegistryTypeOK
    <2> QED BY <2>3, <2>4, <2>5, <2>6, <2>7 DEF MapsAgree
<1> QED BY <1>1, <1>2

\* Marking a session authenticated touches no map.
LEMMA AuthenticateKeepsInvariant ==
    ASSUME RegistryInvariant, NEW s \in Sessions, Authenticate(s)
    PROVE  RegistryInvariant'
<1> USE DEF RegistryInvariant
<1>1. CASE ~HasSession(s)
    BY <1>1 DEF Authenticate, registryVars, RegistryTypeOK, MapsAgree,
                HasSession, SessionsInRoom, RoomsForSession
<1>2. CASE HasSession(s)
    <2>1. /\ sessions' = [sessions EXCEPT ![s] = [authenticated |-> TRUE]]
          /\ session_rooms' = session_rooms
          /\ room_subscriptions' = room_subscriptions
        BY <1>2 DEF Authenticate
    <2>2. [authenticated |-> TRUE] \in SessionInfo /\ [authenticated |-> TRUE] # Absent
        BY SessionInfoIsEntry
    <2>3. RegistryTypeOK'
        BY <2>1, <2>2 DEF RegistryTypeOK
    <2>4. \A u \in Sessions : HasSession(u)' <=> HasSession(u)
        BY <1>2, <2>1, <2>2 DEF HasSession, RegistryTypeOK
    <2> QED BY <2>1, <2>3, <2>4 DEF MapsAgree, SessionsInRoom, RoomsForSession
<1> QED BY <1>1, <1>2

\* subscribe enters the subscription in both maps.
LEMMA SubscribeKeepsInvariant ==
    ASSUME RegistryInvariant, NEW s \in Sessions, NEW r \in Rooms, Subscribe(s, r)
    PROVE  RegistryInvariant'
<1> USE DEF RegistryInvariant
<1>1. CASE ~HasSession(s)
    BY <1>1 DEF Subscribe, registryVars, RegistryTypeOK, MapsAgree,
                HasSession, SessionsInRoom, RoomsForSession
<1>2. CASE HasSession(s)
    <2> DEFINE subs == SessionsInRoom(r) \cup {s}
               rooms == RoomsForSession(s) \cup {r}
    <2>1. /\ room_subscriptions' = [room_subscriptions EXCEPT ![r] = subs]
          /\ session_rooms' = [session_rooms EXCEPT ![s] = rooms]
          /\ sessions' = sessions
        BY <1>2 DEF Subscribe, SessionsInRoom, RoomsForSession
    <2>2. subs \in SUBSET Sessions /\ rooms \in SUBSET Rooms
        BY ReadsAsSet DEF RegistryTypeOK, SessionsInRoom, RoomsForSession
    <2>3. /\ subs # Absent /\ OrEmpty(subs) = subs
          /\ rooms # Absent /\ OrEmpty(rooms) = rooms
          /\ subs # {}
        BY <2>2, EntryIsSet
    <2> HIDE DEF subs, rooms
    <2>4. RegistryTypeOK'
        BY <2>1, <2>2 DEF RegistryTypeOK
    <2>5. \A q \in Rooms : SessionsInRoom(q)' = IF q = r THEN subs ELSE SessionsInRoom(q)
        BY <2>1, <2>3 DEF SessionsInRoom, RegistryTypeOK
    <2>6. \A u \in Sessions : RoomsForSession(u)' = IF u = s THEN rooms ELSE RoomsForSession(u)
        BY <2>1, <2>3 DEF RoomsForSession, RegistryTypeOK
    <2>7. \A u \in Sessions, q \in Rooms : (u \in SessionsInRoom(q))' <=> (q \in RoomsForSession(u))'
        BY <2>5, <2>6 DEF MapsAgree, subs, rooms
    <2>8. \A u \in Sessions : HasSession(u)' <=> (session_rooms[u] # Absent)'
        BY <1>2, <2>1, <2>3 DEF MapsAgree, HasSession, RegistryTypeOK
    <2>9. \A q \in Rooms : room_subscriptions'[q] # {}
        BY <2>1, <2>3 DEF MapsAgree, RegistryTypeOK
    <2> QED BY <2>4, <2>7, <2>8, <2>9 DEF MapsAgree
<1> QED BY <1>1, <1>2

\* unsubscribe takes it out of both.
LEMMA UnsubscribeKeepsInvariant ==
    ASSUME RegistryInvariant, NEW s \in Sessions, NEW r \in Rooms, Unsubscribe(s, r)
    PROVE  RegistryInvariant'
<1> USE DEF RegistryInvariant
<1>1. room_subscriptions[r] \in (SUBSET Sessions) \cup {Absent}
    BY DEF RegistryTypeOK
<1>2. /\ room_subscriptions' =
            [room_subscriptions EXCEPT ![r] = Without(room_subscriptions[r], s)]
      /\ sessions' = sessions
    BY DEF Unsubscribe
<1>3. /\ session_rooms' =
            [session_rooms EXCEPT ![s] = IF session_rooms[s] = Absent THEN Absent
                                         ELSE session_rooms[s] \ {r}]
      /\ session_rooms[s] # Absent => session_rooms[s] \in SUBSET Rooms
    BY DEF Unsubscribe, RegistryTypeOK
<1>4. session_rooms[s] # Absent =>
          /\ session_rooms[s] \ {r} \in SUBSET Rooms
          /\ session_rooms[s] \ {r} # Absent
          /\ OrEmpty(session_rooms[s] \ {r}) = OrEmpty(session_rooms[s]) \ {r}
    <2>1. session_rooms[s] # Absent => session_rooms[s] \ {r} \in SUBSET Rooms
        BY <1>3
    <2> QED BY <1>3, <2>1, EntryIsSet
<1>5. RegistryTypeOK'
    BY <1>1, <1>2, <1>3, <1>4, WithoutSubscriber DEF RegistryTypeOK
<1>6. \A q \in Rooms :
          SessionsInRoom(q)' = IF q = r THEN SessionsInRoom(q) \ {s} ELSE SessionsInRoom(q)
    BY <1>1, <1>2, WithoutSubscriber DEF SessionsInRoom, RegistryTypeOK
<1>7. \A u \in Sessions :
          RoomsForSession(u)' = IF u = s THEN RoomsForSession(u) \ {r} ELSE RoomsForSession(u)
    BY <1>3, <1>4, EntryIsSet DEF RoomsForSession, RegistryTypeOK
<1>8. \A u \in Sessions : HasSession(u)' <=> (session_rooms[u] # Absent)'
    BY <1>2, <1>3, <1>4 DEF MapsAgree, HasSession, RegistryTypeOK
<1>9. \A q \in Rooms : room_subscriptions'[q] # {}
    BY <1>1, <1>2, WithoutSubscriber DEF MapsAgree, RegistryTypeOK
<1> QED BY <1>5, <1>6, <1>7, <1>8, <1>9 DEF MapsAgree

\* Every call of the registry keeps its invariant.
LEMMA RegistryStep ==
    ASSUME RegistryInvariant, [RegistryNext]_registryVars
    PROVE  RegistryInvariant'
<1>1. CASE UNCHANGED registryVars
    BY <1>1 DEF registryVars, RegistryInvariant, RegistryTypeOK, MapsAgree,
                HasSession, SessionsInRoom, RoomsForSession
<1>2. CASE RegistryNext
    BY <1>2, RegisterKeepsInvariant, UnregisterKeepsInvariant,
       AuthenticateKeepsInvariant, SubscribeKeepsInvariant, UnsubscribeKeepsInvariant
       DEF RegistryNext
<1> QED BY <1>1, <1>2

\* Whatever register, unregister, authenticate, subscribe and unsubscribe calls
\* the driver makes, the two subscription maps of ConnectionRegistry agree.
THEOREM RegistryMapsAgree == RegistrySpec => []MapsAgree
<1>1. RegistryInit => RegistryInvariant
    BY EntryIsSet DEF RegistryInit, RegistryInvariant, RegistryTypeOK, MapsAgree,
                      HasSession, SessionsInRoom, RoomsForSession
<1>2. RegistryInvariant /\ [RegistryNext]_registryVars => RegistryInvariant'
    BY RegistryStep
<1>3. RegistryInvariant => MapsAgree
    BY DEF RegistryInvariant
<1> QED BY <1>1, <1>2, <1>3, PTL DEF RegistrySpec

-----------------------------------------------------------------------------
(* The server.                                                             *)

\* The frames and sessions of the stream tasks are frames and sessions.
StreamsTyped == streams \in [Streams -> Stream]

\* A running stream task belongs to a session, and one that has read a frame
\* holds a frame a client sends.
LEMMA StreamFields ==
    ASSUME StreamsTyped, NEW x \in Streams, streams[x] # Absent
    PROVE  /\ streams[x].session \in Sessions
           /\ streams[x].at = "read" => streams[x].frame \in ClientFrame
<1>1. streams[x] \in Stream
    BY DEF StreamsTyped
<1>2. CASE streams[x] \in [session : Sessions, at : {"reading", "closing", "ended"}]
    <2>1. streams[x].session \in Sessions /\ streams[x].at \in {"reading", "closing", "ended"}
        BY <1>2
    <2> QED BY <2>1
<1>3. CASE streams[x] \in [session : Sessions, at : {"read"}, frame : ClientFrame]
    BY <1>3
<1> QED BY <1>1, <1>2, <1>3 DEF Stream

\* A Welcome names a room.
LEMMA WelcomeRoom ==
    ASSUME NEW f \in ClientFrame, f.opcode = "Welcome"
    PROVE  f.room \in Rooms
<1>1. CASE f \in [opcode : ClientOpcodes \cap {"Hello", "Goodbye"}, valid : BOOLEAN, id : {NoId}]
    <2>1. f.opcode \in {"Hello", "Goodbye"}
        BY <1>1
    <2> QED BY <2>1
<1>2. CASE f \in [opcode : ClientOpcodes \cap {"Ping", "Pong"}, valid : {TRUE}, id : {NoId}]
    <2>1. f.opcode \in {"Ping", "Pong"}
        BY <1>2
    <2> QED BY <2>1
<1>3. CASE f \in [opcode : ClientOpcodes \cap {"SyncRequest", "Welcome", "Room"}, room : Rooms]
    BY <1>3
<1> QED BY <1>1, <1>2, <1>3 DEF ClientFrame

\* What the tasks write into streams.
LEMMA StreamValues ==
    ASSUME NEW s \in Sessions
    PROVE  /\ \A a \in {"reading", "closing", "ended"} : [session |-> s, at |-> a] \in Stream
           /\ \A f \in ClientFrame : [session |-> s, at |-> "read", frame |-> f] \in Stream
<1>1. \A a \in {"reading", "closing", "ended"} :
          [session |-> s, at |-> a] \in [session : Sessions, at : {"reading", "closing", "ended"}]
    OBVIOUS
<1>2. \A f \in ClientFrame :
          [session |-> s, at |-> "read", frame |-> f]
              \in [session : Sessions, at : {"read"}, frame : ClientFrame]
    OBVIOUS
<1> QED BY <1>1, <1>2 DEF Stream

\* The stream tasks stay typed: each writes its own entry.
LEMMA StreamsStayTyped ==
    ASSUME StreamsTyped, [Next]_vars
    PROVE  StreamsTyped'
<1> USE DEF StreamsTyped
<1>1. ASSUME UNCHANGED streams PROVE StreamsTyped'
    BY <1>1
<1>2. ASSUME NEW s \in Sessions, NEW x \in Streams, Spawn(s, x) PROVE StreamsTyped'
    BY <1>2, StreamValues DEF Spawn
<1>3. ASSUME NEW x \in Streams, NEW f \in ClientFrame, Read(x, f) PROVE StreamsTyped'
    <2>1. streams[x].session \in Sessions
        BY <1>3, StreamFields DEF Read
    <2> QED BY <1>3, <2>1, StreamValues DEF Read
<1>4. ASSUME NEW x \in Streams, EndStream(x) \/ Execute(x) PROVE StreamsTyped'
    <2>1. streams[x].session \in Sessions
        BY <1>4, StreamFields DEF EndStream, Execute
    <2> QED BY <1>4, <2>1, StreamValues DEF EndStream, Execute
<1>5. ASSUME NEW x \in Streams, Process(x) PROVE StreamsTyped'
    <2>1. streams[x].session \in Sessions
        BY <1>5, StreamFields DEF Process
    <2>2. PICK a \in {"closing", "reading"} :
              streams' = [streams EXCEPT ![x] = [session |-> streams[x].session, at |-> a]]
        BY <1>5 DEF Process
    <2> QED BY <2>1, <2>2, StreamValues
<1>6. ASSUME NEW s \in Sessions,
             Accept(s) \/ Register(s) \/ Leave(s) \/ Unregister(s) \/ Disconnect(s)
      PROVE  UNCHANGED streams
    BY <1>6 DEF Accept, Register, Leave, Unregister, Disconnect
<1>7. ASSUME NEW s \in Sessions, NEW r \in Rooms, Embed(s, r) PROVE UNCHANGED streams
    BY <1>7 DEF Embed, runtimeVars
<1>8. ASSUME TickAll \/ Elapse \/ UNCHANGED vars PROVE UNCHANGED streams
    BY <1>8 DEF TickAll, Elapse, vars, runtimeVars
<1> QED BY <1>1, <1>2, <1>3, <1>4, <1>5, <1>6, <1>7, <1>8 DEF Next

\* handle_frame_received makes at most one call of the registry.
LEMMA FrameIsRegistryStep ==
    ASSUME NEW s \in Sessions, NEW f \in ClientFrame, HandleFrameReceived(s, f)
    PROVE  RegistryNext \/ UNCHANGED registryVars
<1>1. CASE connections[s] = Absent
    BY <1>1 DEF HandleFrameReceived
<1>2. CASE connections[s] # Absent
    <2>1. f.opcode \in SessionLayer \cup {"SyncRequest", "Welcome", "Room"}
        <3>1. f.opcode \in ClientOpcodes
            BY DEF ClientFrame
        <3> QED BY <3>1, ServerAssumption
    <2>2. CASE f.opcode \in SessionLayer
        <3>1. HandleSessionFrame(s, f)
            BY <1>2, <2>2 DEF HandleFrameReceived, SessionLayer
        <3> QED BY <3>1 DEF HandleSessionFrame, RegistryNext
    <2>3. CASE f.opcode = "SyncRequest"
        <3>1. HandleSyncRequest
            BY <1>2, <2>3 DEF HandleFrameReceived, SessionLayer
        <3> QED BY <3>1 DEF HandleSyncRequest
    <2>4. CASE f.opcode = "Welcome"
        <3>1. HandleWelcome(s, f)
            BY <1>2, <2>4 DEF HandleFrameReceived, SessionLayer
        <3>2. f.room \in Rooms
            BY <2>4, WelcomeRoom
        <3> QED BY <3>1, <3>2 DEF HandleWelcome, RegistryNext
    <2>5. CASE f.opcode = "Room"
        <3>1. HandleRoomFrame(s)
            BY <1>2, <2>5 DEF HandleFrameReceived, SessionLayer
        <3> QED BY <3>1 DEF HandleRoomFrame
    <2> QED BY <2>1, <2>2, <2>3, <2>4, <2>5
<1> QED BY <1>1, <1>2

\* Every step of the server is a call of the registry or leaves it alone.
LEMMA StepIsRegistryStep ==
    ASSUME StreamsTyped, [Next]_vars
    PROVE  [RegistryNext]_registryVars
<1>1. ASSUME NEW s \in Sessions, Accept(s) \/ Leave(s) \/ Disconnect(s)
      PROVE  UNCHANGED registryVars
    BY <1>1 DEF Accept, Leave, Disconnect
<1>2. ASSUME NEW s \in Sessions, Register(s)
      PROVE  RegistryNext \/ UNCHANGED registryVars
    BY <1>2 DEF Register, HandleConnectionAccepted, RegistryNext
<1>3. ASSUME NEW s \in Sessions, Unregister(s)
      PROVE  RegistryNext
    BY <1>3 DEF Unregister, HandleConnectionClosed, RegistryNext
<1>4. ASSUME NEW s \in Sessions, NEW x \in Streams, Spawn(s, x)
      PROVE  UNCHANGED registryVars
    BY <1>4 DEF Spawn
<1>5. ASSUME NEW s \in Sessions, NEW r \in Rooms, Embed(s, r)
      PROVE  RegistryNext
    BY <1>5 DEF Embed, RegistryNext
<1>6. ASSUME NEW x \in Streams, NEW f \in ClientFrame, Read(x, f)
      PROVE  UNCHANGED registryVars
    BY <1>6 DEF Read
<1>7. ASSUME NEW x \in Streams, EndStream(x) \/ Execute(x)
      PROVE  UNCHANGED registryVars
    BY <1>7 DEF EndStream, Execute
<1>8. ASSUME NEW x \in Streams, Process(x)
      PROVE  RegistryNext \/ UNCHANGED registryVars
    <2>1. /\ streams[x].session \in Sessions
          /\ streams[x].frame \in ClientFrame
        BY <1>8, StreamFields DEF Process
    <2>2. HandleFrameReceived(streams[x].session, streams[x].frame)
        BY <1>8 DEF Process
    <2> QED BY <2>1, <2>2, FrameIsRegistryStep
<1>9. ASSUME TickAll \/ Elapse \/ UNCHANGED vars
      PROVE  UNCHANGED registryVars
    BY <1>9 DEF TickAll, Elapse, vars
<1> QED BY <1>1, <1>2, <1>3, <1>4, <1>5, <1>6, <1>7, <1>8, <1>9 DEF Next

\* The sessions of the server implement the registry: whatever connections,
\* stream tasks, ticks and embedder calls interleave, what they do to the maps
\* is a sequence of registry calls.
THEOREM ServerImplementsRegistry == Spec => RegistrySpec
<1>1. Init => StreamsTyped
    BY DEF Init, StreamsTyped, Stream
<1>2. StreamsTyped /\ [Next]_vars => StreamsTyped'
    BY StreamsStayTyped
<1>3. Init => RegistryInit
    BY DEF Init
<1>4. StreamsTyped /\ [Next]_vars => [RegistryNext]_registryVars
    BY StepIsRegistryStep
<1> QED BY <1>1, <1>2, <1>3, <1>4, PTL DEF Spec, RegistrySpec

\* The subscription maps of the running server agree: no broadcast reaches a
\* session that is gone, and no cleanup misses a subscription.
THEOREM ServerMapsAgree == Spec => []MapsAgree
BY ServerImplementsRegistry, RegistryMapsAgree, PTL

-----------------------------------------------------------------------------
(* What the driver's calls do to connections and sessions.                 *)

\* States of a connection whose handshake is over.
Shaken == {"Authenticated", "Closed"}

Marked == [authenticated |-> TRUE]

\* A step that neither adds nor removes a connection or session, and marks a
\* session only after its handshake.
KeepsConnections ==
    /\ connections' \in [Sessions -> Conn \cup {Absent}]
    /\ \A u \in Sessions :
          /\ connections'[u] = Absent <=> connections[u] = Absent
          /\ connections[u] # Absent =>
                /\ connections'[u].id = connections[u].id
                /\ connections[u].state \in Shaken => connections'[u].state \in Shaken
          /\ HasSession(u)' <=> HasSession(u)
          /\ sessions'[u] = Marked =>
                sessions[u] = Marked \/ (connections'[u] # Absent /\ connections'[u].state \in Shaken)

\* handle_frame keeps the id of a connection and never takes it behind the
\* handshake; a Hello it accepts completes the handshake.
LEMMA HandleFrameKeepsConn ==
    ASSUME NEW c \in Conn, NEW f, f.opcode # "HelloReply"
    PROVE  /\ HandleFrame(c, f).conn \in Conn
           /\ HandleFrame(c, f).conn.id = c.id
           /\ c.state \in Shaken => HandleFrame(c, f).conn.state \in Shaken
           /\ f.opcode = "Hello" /\ HandleFrame(c, f).ok =>
                 HandleFrame(c, f).conn.state \in Shaken
<1>1. PICK d : d = UpdateActivity(c)
    OBVIOUS
<1>2. d \in Conn /\ d.id = c.id /\ d.state = c.state
    BY <1>1, ServerAssumption DEF Conn, UpdateActivity, OldAge
<1>3. CloseConn(d) \in Conn /\ CloseConn(d).id = d.id /\ CloseConn(d).state = "Closed"
    BY <1>2 DEF Conn, ConnectionState, CloseConn
<1>4. CASE f.opcode = "Hello" /\ d.state = "Init"
    <2>1. HandleFrame(c, f) = AnswerHello(d, f)
        BY <1>1, <1>4 DEF HandleFrame
    <2>2. [d EXCEPT !.state = "Authenticated"] \in Conn
        BY <1>2 DEF Conn, ConnectionState
    <2> QED BY <1>2, <1>4, <2>1, <2>2 DEF AnswerHello, Ok, Err, Shaken
<1>5. CASE f.opcode = "Goodbye" /\ d.state # "Closed"
    <2>1. HandleFrame(c, f) = AcceptGoodbye(d, f)
        BY <1>1, <1>5 DEF HandleFrame
    <2> QED BY <1>2, <1>3, <1>5, <2>1 DEF AcceptGoodbye, Ok, Err, Shaken
<1>6. CASE f.opcode = "Error"
    <2>1. HandleFrame(c, f) = Ok(CloseConn(d), <<Close>>)
        BY <1>1, <1>6 DEF HandleFrame
    <2> QED BY <1>2, <1>3, <1>6, <2>1 DEF Ok, Shaken
<1>7. CASE f.opcode \in {"Ping", "Pong"} /\ d.state = "Authenticated"
    <2>1. HandleFrame(c, f).conn = d
        BY <1>1, <1>7 DEF HandleFrame, Ok
    <2> QED BY <1>2, <1>7, <2>1
<1>8. CASE /\ ~(f.opcode = "Hello" /\ d.state = "Init")
           /\ ~(f.opcode = "Goodbye" /\ d.state # "Closed")
           /\ f.opcode # "Error"
           /\ ~(f.opcode \in {"Ping", "Pong"} /\ d.state = "Authenticated")
    <2>1. HandleFrame(c, f) = Err(d)
        BY <1>1, <1>8 DEF HandleFrame
    <2> QED BY <1>2, <2>1 DEF Err
<1> QED BY <1>4, <1>5, <1>6, <1>7, <1>8

\* A call that changes one connection and leaves the sessions, or marks its own.
LEMMA OneConnectionKept ==
    ASSUME TypeOK, NEW s \in Sessions, connections[s] # Absent, NEW c \in Conn,
           connections' = [connections EXCEPT ![s] = c],
           c.id = connections[s].id,
           connections[s].state \in Shaken => c.state \in Shaken,
           \/ UNCHANGED sessions
           \/ HasSession(s) /\ c.state \in Shaken /\ sessions' = [sessions EXCEPT ![s] = Marked]
    PROVE  KeepsConnections
<1>1. connections \in [Sessions -> Conn \cup {Absent}] /\ c # Absent
    BY ServerAssumption DEF TypeOK
<1>2. sessions \in [Sessions -> SessionInfo \cup {Absent}] /\ Marked # Absent
    BY SessionInfoIsEntry DEF TypeOK, RegistryTypeOK, Marked
<1> QED BY <1>1, <1>2 DEF KeepsConnections, HasSession

\* update_activity touches neither the id nor the state of a connection.
LEMMA ActivityKeepsConn ==
    ASSUME NEW c \in Conn
    PROVE  UpdateActivity(c) \in Conn /\ UpdateActivity(c).id = c.id
                /\ UpdateActivity(c).state = c.state
BY ServerAssumption DEF Conn, UpdateActivity, OldAge

\* handle_frame_received, whatever the frame.
LEMMA FrameKeepsConnections ==
    ASSUME TypeOK, NEW s \in Sessions, NEW f \in ClientFrame, HandleFrameReceived(s, f)
    PROVE  KeepsConnections
<1>1. CASE connections[s] = Absent
    <2>1. connections' = connections /\ sessions' = sessions
        BY <1>1 DEF HandleFrameReceived, registryVars
    <2> QED BY <2>1 DEF KeepsConnections, HasSession, TypeOK
<1>2. CASE connections[s] # Absent
    <2>0. connections[s] \in Conn
        BY <1>2 DEF TypeOK
    <2>1. f.opcode \in SessionLayer \cup {"SyncRequest", "Welcome", "Room"}
        <3>1. f.opcode \in ClientOpcodes
            BY DEF ClientFrame
        <3> QED BY <3>1, ServerAssumption
    <2>2. CASE f.opcode \in SessionLayer
        <3>1. HandleSessionFrame(s, f)
            BY <1>2, <2>2 DEF HandleFrameReceived, SessionLayer
        <3>2. PICK c : c = HandleFrame(connections[s], f).conn
            OBVIOUS
        <3>3. /\ c \in Conn
              /\ c.id = connections[s].id
              /\ connections[s].state \in Shaken => c.state \in Shaken
              /\ f.opcode = "Hello" /\ HandleFrame(connections[s], f).ok => c.state \in Shaken
            BY <2>0, <2>2, <3>2, HandleFrameKeepsConn DEF SessionLayer
        <3>4. connections' = [connections EXCEPT ![s] = c]
            BY <3>1, <3>2 DEF HandleSessionFrame
        <3>5. \/ UNCHANGED sessions
              \/ HasSession(s) /\ c.state \in Shaken /\ sessions' = [sessions EXCEPT ![s] = Marked]
            BY <3>1, <3>3 DEF HandleSessionFrame, Authenticate, registryVars, Marked
        <3> QED BY <1>2, <3>3, <3>4, <3>5, OneConnectionKept
    <2>3. CASE f.opcode = "SyncRequest"
        <3>1. connections' = connections /\ sessions' = sessions
            BY <1>2, <2>3 DEF HandleFrameReceived, SessionLayer, HandleSyncRequest, registryVars
        <3> QED BY <3>1 DEF KeepsConnections, HasSession, TypeOK
    <2>4. CASE f.opcode \in {"Welcome", "Room"}
        <3>1. HandleWelcome(s, f) \/ HandleRoomFrame(s)
            BY <1>2, <2>4 DEF HandleFrameReceived, SessionLayer
        <3>2. /\ connections' = [connections EXCEPT ![s] = UpdateActivity(connections[s])]
              /\ UNCHANGED sessions
            BY <3>1 DEF HandleWelcome, HandleRoomFrame, Subscribe, registryVars
        <3> QED BY <1>2, <2>0, <3>2, ActivityKeepsConn, OneConnectionKept
    <2> QED BY <2>1, <2>2, <2>3, <2>4
<1> QED BY <1>1, <1>2

\* tick and the passing of time.
LEMMA TickKeepsConn ==
    ASSUME NEW c \in Conn
    PROVE  /\ Tick(c).conn \in Conn /\ Tick(c).conn.id = c.id
           /\ c.state \in Shaken => Tick(c).conn.state \in Shaken
           /\ Older(c) \in Conn /\ Older(c).id = c.id /\ Older(c).state = c.state
<1>1. CloseConn(c) \in Conn /\ CloseConn(c).id = c.id /\ CloseConn(c).state = "Closed"
    BY DEF Conn, ConnectionState, CloseConn
<1>2. OldAge \in Nat /\ HeartbeatInterval \in Nat
    BY ServerAssumption DEF OldAge
<1>3. [c EXCEPT !.beat = 0, !.idle = 0] \in Conn
    <2>1. 0 \in 0..OldAge /\ 0 \in 0..HeartbeatInterval
        BY <1>2
    <2> QED BY <2>1 DEF Conn
<1>4. Tick(c).conn \in {CloseConn(c), [c EXCEPT !.beat = 0, !.idle = 0], c}
    <2>1. CASE CheckTimeout(c)
        BY <2>1 DEF Tick, Ok
    <2>2. CASE ~CheckTimeout(c) /\ HeartbeatDue(c)
        BY <2>2 DEF Tick, Ok
    <2>3. CASE ~CheckTimeout(c) /\ ~HeartbeatDue(c)
        BY <2>3 DEF Tick, Ok
    <2> QED BY <2>1, <2>2, <2>3
<1>5. /\ Tick(c).conn \in Conn /\ Tick(c).conn.id = c.id
      /\ c.state \in Shaken => Tick(c).conn.state \in Shaken
    BY <1>1, <1>3, <1>4 DEF Shaken, Conn
<1>6. Older(c) \in Conn
    <2>1. PICK i, b : Older(c) = [c EXCEPT !.idle = i, !.beat = b]
                      /\ i = (IF c.idle < OldAge THEN c.idle + 1 ELSE c.idle)
                      /\ b = (IF c.beat # NoHeartbeat /\ c.beat < HeartbeatInterval
                              THEN c.beat + 1 ELSE c.beat)
        BY DEF Older
    <2>2. i \in 0..OldAge
        BY <1>2, <2>1 DEF Conn
    <2>3. b \in 0..HeartbeatInterval \cup {NoHeartbeat}
        BY <1>2, <2>1 DEF Conn
    <2> QED BY <2>1, <2>2, <2>3 DEF Conn
<1>7. Older(c).id = c.id /\ Older(c).state = c.state
    BY DEF Conn, Older
<1> QED BY <1>5, <1>6, <1>7

\* process_tick and the passing of time.
LEMMA ClockKeepsConnections ==
    ASSUME TypeOK, TickAll \/ Elapse
    PROVE  KeepsConnections
<1>1. /\ \A u \in Sessions : connections[u] \in Conn \cup {Absent}
      /\ sessions' = sessions
    BY DEF TypeOK, TickAll, Elapse, registryVars
<1>2. CASE TickAll
    <2>1. connections' = [u \in Sessions |->
              IF connections[u] = Absent THEN Absent ELSE Tick(connections[u]).conn]
        BY <1>2 DEF TickAll
    <2> QED BY <1>1, <2>1, TickKeepsConn, ServerAssumption DEF KeepsConnections, HasSession
<1>3. CASE Elapse
    <2>1. connections' = [u \in Sessions |->
              IF connections[u] = Absent THEN Absent ELSE Older(connections[u])]
        BY <1>3 DEF Elapse
    <2> QED BY <1>1, <2>1, TickKeepsConn, ServerAssumption DEF KeepsConnections, HasSession
<1> QED BY <1>2, <1>3

\* Every step but the registration and the removal of a connection.
LEMMA StepKeepsConnections ==
    ASSUME TypeOK, [Next]_vars
    PROVE  \/ KeepsConnections
           \/ \E s \in Sessions : \/ Register(s) /\ ~AtCapacity
                                  \/ Unregister(s)
<1> DEFINE Same == connections' = connections /\ sessions' = sessions
<1>1. Same => KeepsConnections
    BY DEF KeepsConnections, HasSession, TypeOK
<1>2. ASSUME NEW s \in Sessions, Accept(s) \/ Leave(s) \/ Disconnect(s)
      PROVE  Same
    BY <1>2 DEF Accept, Leave, Disconnect, registryVars
<1>3. ASSUME NEW s \in Sessions, Register(s), AtCapacity
      PROVE  Same
    BY <1>3 DEF Register, registryVars
<1>4. ASSUME NEW s \in Sessions, NEW x \in Streams, Spawn(s, x)
      PROVE  Same
    BY <1>4 DEF Spawn, registryVars
<1>5. ASSUME NEW s \in Sessions, NEW r \in Rooms, Embed(s, r)
      PROVE  Same
    BY <1>5 DEF Embed, Subscribe, Unsubscribe, registryVars
<1>6. ASSUME NEW x \in Streams, NEW f \in ClientFrame, Read(x, f)
      PROVE  Same
    BY <1>6 DEF Read, registryVars
<1>7. ASSUME NEW x \in Streams, EndStream(x) \/ Execute(x)
      PROVE  Same
    BY <1>7 DEF EndStream, Execute, registryVars
<1>8. ASSUME NEW x \in Streams, Process(x)
      PROVE  KeepsConnections
    <2>1. /\ streams[x].session \in Sessions
          /\ streams[x].frame \in ClientFrame
        BY <1>8, StreamFields DEF Process, TypeOK, StreamsTyped
    <2>2. HandleFrameReceived(streams[x].session, streams[x].frame)
        BY <1>8 DEF Process
    <2> QED BY <2>1, <2>2, FrameKeepsConnections
<1>9. UNCHANGED vars => Same
    BY DEF vars, registryVars
<1> QED BY <1>1, <1>2, <1>3, <1>4, <1>5, <1>6, <1>7, <1>8, <1>9, ClockKeepsConnections DEF Next

-----------------------------------------------------------------------------
(* The inductive invariant.                                                *)

\* Only a task that is serving its connection, or cleaning up after it, has one
\* with the driver.
ConnectionHasTask ==
    \A s \in Sessions : connections[s] # Absent => task[s] \in {"serving", "unshared"}

\* The shared map holds connections of tasks that have not left it.
SharedHasTask ==
    \A s \in Sessions : s \in shared => task[s] \in {"shared", "serving"}

\* OpenIsReachable, from the moment a task has entered the shared map.
OpenIsShared ==
    \A s \in Sessions : task[s] \in {"shared", "serving"} /\ s \in transport => s \in shared

RuntimeInvariant == ConnectionHasTask /\ SharedHasTask /\ OpenIsShared

DriverInvariant ==
    /\ ConnectionsAreSessions
    /\ IsFiniteSet(Connected)
    /\ AuthenticatedByHandshake

ServerInvariant == TypeOK /\ MapsAgree /\ DriverInvariant /\ RuntimeInvariant

\* What the tasks do to shared, transport and task keeps their types.
LEMMA RuntimeStaysTyped ==
    ASSUME TypeOK, [Next]_vars
    PROVE  /\ shared' \subseteq Sessions
           /\ transport' \subseteq Sessions
           /\ task' \in [Sessions -> {"none", "shared", "serving", "unshared", "done"}]
<1> USE DEF TypeOK
<1>1. ASSUME NEW s \in Sessions,
             Accept(s) \/ Register(s) \/ Leave(s) \/ Unregister(s) \/ Disconnect(s)
      PROVE  /\ shared' \subseteq Sessions
             /\ transport' \subseteq Sessions
             /\ task' \in [Sessions -> {"none", "shared", "serving", "unshared", "done"}]
    BY <1>1 DEF Accept, Register, Leave, Unregister, Disconnect, CloseConnections
<1>2. ASSUME NEW s \in Sessions, NEW x \in Streams, Spawn(s, x)
      PROVE  UNCHANGED <<shared, transport, task>>
    BY <1>2 DEF Spawn
<1>3. ASSUME NEW s \in Sessions, NEW r \in Rooms, Embed(s, r)
      PROVE  UNCHANGED <<shared, transport, task>>
    BY <1>3 DEF Embed, runtimeVars
<1>4. ASSUME NEW x \in Streams, NEW f \in ClientFrame, Read(x, f)
      PROVE  UNCHANGED <<shared, transport, task>>
    BY <1>4 DEF Read
<1>5. ASSUME NEW x \in Streams, EndStream(x) \/ Process(x)
      PROVE  UNCHANGED <<shared, transport, task>>
    BY <1>5 DEF EndStream, Process
<1>6. ASSUME NEW x \in Streams, Execute(x)
      PROVE  /\ shared' \subseteq shared
             /\ transport' \subseteq transport
             /\ task' = task
    BY <1>6 DEF Execute, CloseConnections
<1>7. ASSUME TickAll
      PROVE  /\ shared' \subseteq shared
             /\ transport' \subseteq transport
             /\ task' = task
    BY <1>7 DEF TickAll, CloseConnections
<1>8. ASSUME Elapse \/ UNCHANGED vars
      PROVE  UNCHANGED <<shared, transport, task>>
    BY <1>8 DEF Elapse, vars, runtimeVars
<1> QED BY <1>1, <1>2, <1>3, <1>4, <1>5, <1>6, <1>7, <1>8 DEF Next

\* What a new connection looks like.
LEMMA AcceptedConn ==
    ASSUME NEW s \in Sessions
    PROVE  /\ SetSessionId(NewConnection, s) \in Conn
           /\ SetSessionId(NewConnection, s).id = s
<1>1. 0 \in 0..OldAge
    BY ServerAssumption DEF OldAge
<1> QED BY <1>1 DEF SetSessionId, NewConnection, Conn, ConnectionState

\* ConnectionAccepted adds a connection and a session that is not marked.
LEMMA AcceptedStep ==
    ASSUME TypeOK, ConnectionHasTask, ConnectionsAreSessions,
           NEW s \in Sessions, Register(s), ~AtCapacity
    PROVE  /\ ~HasSession(s)
           /\ connections[s] = Absent
           /\ connections' = [connections EXCEPT ![s] = SetSessionId(NewConnection, s)]
           /\ sessions' = [sessions EXCEPT ![s] = [authenticated |-> FALSE]]
<1>1. connections[s] = Absent
    BY DEF Register, ConnectionHasTask
<1>2. ~HasSession(s)
    BY <1>1 DEF ConnectionsAreSessions
<1> QED BY <1>1, <1>2 DEF Register, HandleConnectionAccepted, RegisterSession

\* ConnectionClosed removes a connection and its session.
LEMMA ClosedStep ==
    ASSUME ConnectionsAreSessions, TypeOK, NEW s \in Sessions, Unregister(s)
    PROVE  /\ connections' = [connections EXCEPT ![s] = Absent]
           /\ sessions' = [sessions EXCEPT ![s] = Absent]
<1>1. connections' = [connections EXCEPT ![s] = Absent] /\ UnregisterSession(s)
    BY DEF Unregister, HandleConnectionClosed
<1>2. CASE HasSession(s)
    BY <1>1, <1>2 DEF UnregisterSession
<1>3. CASE ~HasSession(s)
    <2>1. sessions' = sessions /\ sessions[s] = Absent
        BY <1>1, <1>3 DEF UnregisterSession, HasSession, registryVars
    <2>2. sessions \in [Sessions -> SessionInfo \cup {Absent}]
        BY DEF TypeOK, RegistryTypeOK
    <2>3. sessions = [sessions EXCEPT ![s] = Absent]
        BY <2>1, <2>2
    <2> QED BY <1>1, <2>1, <2>3
<1> QED BY <1>2, <1>3

\* The connections stay typed and filed under their ids.
LEMMA ConnectionsStayTyped ==
    ASSUME TypeOK, ConnectionHasTask, ConnectionsAreSessions, [Next]_vars
    PROVE  /\ connections' \in [Sessions -> Conn \cup {Absent}]
           /\ \A u \in Sessions : connections'[u] # Absent => connections'[u].id = u
<1> USE DEF TypeOK
<1>1. CASE KeepsConnections
    BY <1>1 DEF KeepsConnections
<1>2. ASSUME NEW s \in Sessions, Register(s), ~AtCapacity
      PROVE  /\ connections' \in [Sessions -> Conn \cup {Absent}]
             /\ \A u \in Sessions : connections'[u] # Absent => connections'[u].id = u
    BY <1>2, AcceptedStep, AcceptedConn
<1>3. ASSUME NEW s \in Sessions, Unregister(s)
      PROVE  /\ connections' \in [Sessions -> Conn \cup {Absent}]
             /\ \A u \in Sessions : connections'[u] # Absent => connections'[u].id = u
    BY <1>3, ClosedStep
<1> QED BY <1>1, <1>2, <1>3, StepKeepsConnections

\* The driver's maps, its capacity and its marks.
LEMMA DriverStep ==
    ASSUME TypeOK, ConnectionHasTask, DriverInvariant, [Next]_vars
    PROVE  DriverInvariant'
<1>0. /\ connections \in [Sessions -> Conn \cup {Absent}]
      /\ sessions \in [Sessions -> SessionInfo \cup {Absent}]
      /\ ConnectionsAreSessions
    BY DEF TypeOK, RegistryTypeOK, DriverInvariant
<1>1. CASE KeepsConnections
    <2>1. Connected' = Connected
        BY <1>1 DEF KeepsConnections, Connected
    <2>2. ConnectionsAreSessions'
        BY <1>1, <2>1, <1>0 DEF KeepsConnections, ConnectionsAreSessions
    <2>3. AuthenticatedByHandshake'
        BY <1>1 DEF KeepsConnections, AuthenticatedByHandshake, DriverInvariant, Marked, Shaken
    <2> QED BY <2>1, <2>2, <2>3 DEF DriverInvariant
<1>2. ASSUME NEW s \in Sessions, Register(s), ~AtCapacity
      PROVE  DriverInvariant'
    <2>1. /\ ~HasSession(s)
          /\ connections[s] = Absent
          /\ connections' = [connections EXCEPT ![s] = SetSessionId(NewConnection, s)]
          /\ sessions' = [sessions EXCEPT ![s] = [authenticated |-> FALSE]]
        BY <1>0, <1>2, AcceptedStep
    <2>2. SetSessionId(NewConnection, s) # Absent
        BY AcceptedConn, ServerAssumption
    <2>3. Connected' = Connected \cup {s} /\ s \notin Connected
        BY <1>0, <2>1, <2>2 DEF Connected
    <2>4. /\ IsFiniteSet(Connected)'
          /\ Cardinality(Connected)' = Cardinality(Connected) + 1
        BY <2>3, FS_AddElement DEF DriverInvariant
    <2>5. Cardinality(Connected)' <= MAX_CONNECTIONS
        <3>1. Cardinality(Connected) \in Nat
            BY FS_CardinalityType DEF DriverInvariant
        <3> QED BY <1>2, <2>4, <3>1, ServerAssumption DEF AtCapacity
    <2>6. [authenticated |-> FALSE] # Absent /\ [authenticated |-> FALSE] # [authenticated |-> TRUE]
        <3>1. [authenticated |-> FALSE].authenticated # [authenticated |-> TRUE].authenticated
            OBVIOUS
        <3> QED BY <3>1, SessionInfoIsEntry
    <2>7. ConnectionsAreSessions'
        BY <1>0, <2>1, <2>2, <2>5, <2>6 DEF ConnectionsAreSessions, HasSession
    <2>8. AuthenticatedByHandshake'
        BY <1>0, <2>1, <2>6 DEF AuthenticatedByHandshake, DriverInvariant
    <2> QED BY <2>4, <2>7, <2>8 DEF DriverInvariant
<1>3. ASSUME NEW s \in Sessions, Unregister(s)
      PROVE  DriverInvariant'
    <2>1. /\ connections' = [connections EXCEPT ![s] = Absent]
          /\ sessions' = [sessions EXCEPT ![s] = Absent]
        BY <1>0, <1>3, ClosedStep
    <2>2. Connected' = Connected \ {s}
        BY <1>0, <2>1 DEF Connected
    <2>3. /\ IsFiniteSet(Connected)'
          /\ Cardinality(Connected)' <= Cardinality(Connected)
          /\ Cardinality(Connected) \in Nat /\ Cardinality(Connected)' \in Nat
        BY <2>2, FS_Subset, FS_CardinalityType DEF DriverInvariant
    <2>4. ConnectionsAreSessions'
        BY <1>0, <2>1, <2>3, ServerAssumption DEF ConnectionsAreSessions, HasSession
    <2>5. Absent # [authenticated |-> TRUE]
        BY SessionInfoIsEntry
    <2>6. AuthenticatedByHandshake'
        BY <1>0, <2>1, <2>5 DEF AuthenticatedByHandshake, DriverInvariant
    <2> QED BY <2>3, <2>4, <2>6 DEF DriverInvariant
<1> QED BY <1>1, <1>2, <1>3, StepKeepsConnections

\* The tasks keep driver, shared map and transport in step.
LEMMA RuntimeStep ==
    ASSUME TypeOK, ConnectionsAreSessions, RuntimeInvariant, [Next]_vars
    PROVE  RuntimeInvariant'
<1> USE DEF RuntimeInvariant
<1>0. task \in [Sessions -> {"none", "shared", "serving", "unshared", "done"}]
    BY DEF TypeOK
<1>1. ASSUME task' = task,
             \A s \in Sessions : connections'[s] # Absent => connections[s] # Absent,
             \/ UNCHANGED <<shared, transport>>
             \/ \E ss \in SUBSET Sessions : CloseConnections(ss)
      PROVE  RuntimeInvariant'
    <2>1. PICK ss \in SUBSET Sessions :
              shared' = shared \ ss /\ transport' = transport \ (ss \cap shared)
        <3>1. CASE UNCHANGED <<shared, transport>>
            <4>1. {} \in SUBSET Sessions /\ shared = shared \ {}
                                        /\ transport = transport \ ({} \cap shared)
                OBVIOUS
            <4> QED BY <3>1, <4>1
        <3>2. CASE \E ss \in SUBSET Sessions : CloseConnections(ss)
            BY <3>2 DEF CloseConnections
        <3> QED BY <1>1, <3>1, <3>2
    <2> QED BY <1>1, <2>1 DEF ConnectionHasTask, SharedHasTask, OpenIsShared
<1>2. ASSUME NEW s \in Sessions, Accept(s)
      PROVE  RuntimeInvariant'
    BY <1>0, <1>2 DEF Accept, ConnectionHasTask, SharedHasTask, OpenIsShared
<1>3. ASSUME NEW s \in Sessions, Register(s)
      PROVE  RuntimeInvariant'
    <2>1. CASE AtCapacity
        BY <1>0, <1>3, <2>1 DEF Register, CloseConnections, ConnectionHasTask, SharedHasTask,
                                OpenIsShared
    <2>2. CASE ~AtCapacity
        <3>1. connections' = [connections EXCEPT ![s] = SetSessionId(NewConnection, s)]
            BY <1>3, <2>2, AcceptedStep
        <3>2. UNCHANGED <<shared, transport>> /\ task' = [task EXCEPT ![s] = "serving"]
            BY <1>3, <2>2 DEF Register
        <3> QED BY <1>0, <1>3, <3>1, <3>2
            DEF Register, TypeOK, ConnectionHasTask, SharedHasTask, OpenIsShared
    <2> QED BY <2>1, <2>2
<1>4. ASSUME NEW s \in Sessions, Leave(s)
      PROVE  RuntimeInvariant'
    BY <1>0, <1>4 DEF Leave, ConnectionHasTask, SharedHasTask, OpenIsShared
<1>5. ASSUME NEW s \in Sessions, Unregister(s)
      PROVE  RuntimeInvariant'
    <2>1. connections' = [connections EXCEPT ![s] = Absent]
        BY <1>5, ClosedStep
    <2>2. /\ task[s] = "unshared" /\ task' = [task EXCEPT ![s] = "done"]
          /\ UNCHANGED <<shared, transport>>
        BY <1>5 DEF Unregister
    <2> QED BY <1>0, <2>1, <2>2
        DEF TypeOK, ConnectionHasTask, SharedHasTask, OpenIsShared
<1>6. ASSUME NEW s \in Sessions, Disconnect(s)
      PROVE  RuntimeInvariant'
    BY <1>0, <1>6 DEF Disconnect, ConnectionHasTask, SharedHasTask, OpenIsShared
<1>7. ASSUME NEW s \in Sessions, NEW x \in Streams, Spawn(s, x)
      PROVE  RuntimeInvariant'
    BY <1>1, <1>7 DEF Spawn
<1>8. ASSUME NEW s \in Sessions, NEW r \in Rooms, Embed(s, r)
      PROVE  RuntimeInvariant'
    BY <1>1, <1>8 DEF Embed, runtimeVars
<1>9. ASSUME NEW x \in Streams, NEW f \in ClientFrame, Read(x, f)
      PROVE  RuntimeInvariant'
    BY <1>1, <1>9 DEF Read
<1>10. ASSUME NEW x \in Streams, EndStream(x)
       PROVE  RuntimeInvariant'
    BY <1>1, <1>10 DEF EndStream
<1>11. ASSUME NEW x \in Streams, Process(x)
       PROVE  RuntimeInvariant'
    <2>1. /\ streams[x].session \in Sessions
          /\ streams[x].frame \in ClientFrame
        BY <1>11, StreamFields DEF Process, TypeOK, StreamsTyped
    <2>2. HandleFrameReceived(streams[x].session, streams[x].frame)
        BY <1>11 DEF Process
    <2>3. KeepsConnections
        BY <2>1, <2>2, FrameKeepsConnections
    <2>4. \A s \in Sessions : connections'[s] # Absent => connections[s] # Absent
        BY <2>3 DEF KeepsConnections
    <2> QED BY <1>1, <1>11, <2>4 DEF Process
<1>12. ASSUME NEW x \in Streams, Execute(x)
       PROVE  RuntimeInvariant'
    <2>1. {streams[x].session} \in SUBSET Sessions
        BY <1>12, StreamFields DEF Execute, TypeOK, StreamsTyped
    <2> QED BY <1>1, <1>12, <2>1 DEF Execute
<1>13. ASSUME TickAll \/ Elapse
       PROVE  RuntimeInvariant'
    <2>1. \A s \in Sessions : connections'[s] # Absent => connections[s] # Absent
        BY <1>13, ClockKeepsConnections DEF KeepsConnections
    <2>2. {s \in Connected : CheckTimeout(connections[s])} \in SUBSET Sessions
        BY DEF Connected
    <2>3. /\ task' = task
          /\ \/ UNCHANGED <<shared, transport>>
             \/ \E ss \in SUBSET Sessions : CloseConnections(ss)
        BY <1>13, <2>2 DEF TickAll, Elapse, runtimeVars
    <2> QED BY <1>1, <2>1, <2>3
<1>14. ASSUME UNCHANGED vars
       PROVE  RuntimeInvariant'
    BY <1>1, <1>14 DEF vars, runtimeVars
<1> QED BY <1>2, <1>3, <1>4, <1>5, <1>6, <1>7, <1>8, <1>9, <1>10, <1>11, <1>12, <1>13, <1>14
    DEF Next

\* The invariant holds at first and is kept by every step.
THEOREM ServerInvariantHolds == Spec => []ServerInvariant
<1>1. Init => ServerInvariant
    <2> SUFFICES ASSUME Init PROVE ServerInvariant
        OBVIOUS
    <2>1. TypeOK
        BY DEF Init, RegistryInit, TypeOK, RegistryTypeOK, Stream
    <2>2. MapsAgree
        BY EntryIsSet DEF Init, RegistryInit, MapsAgree, HasSession, SessionsInRoom,
                          RoomsForSession
    <2>3. Connected = {}
        BY DEF Init, Connected
    <2>4. IsFiniteSet(Connected) /\ Cardinality(Connected) = 0
        BY <2>3, FS_EmptySet
    <2>5. Absent # [authenticated |-> TRUE]
        BY SessionInfoIsEntry
    <2>6. DriverInvariant
        BY <2>4, <2>5, ServerAssumption DEF Init, RegistryInit, DriverInvariant,
            ConnectionsAreSessions, AuthenticatedByHandshake, HasSession
    <2>7. RuntimeInvariant
        BY DEF Init, RuntimeInvariant, ConnectionHasTask, SharedHasTask, OpenIsShared
    <2> QED BY <2>1, <2>2, <2>6, <2>7 DEF ServerInvariant
<1>2. ServerInvariant /\ [Next]_vars => ServerInvariant'
    <2> SUFFICES ASSUME ServerInvariant, [Next]_vars PROVE ServerInvariant'
        OBVIOUS
    <2>1. /\ TypeOK /\ MapsAgree /\ DriverInvariant /\ RuntimeInvariant
          /\ ConnectionHasTask /\ ConnectionsAreSessions
        BY DEF ServerInvariant, RuntimeInvariant, DriverInvariant
    <2>2. StreamsTyped'
        BY <2>1, StreamsStayTyped DEF TypeOK, StreamsTyped
    <2>3. [RegistryNext]_registryVars
        BY <2>1, StepIsRegistryStep DEF TypeOK, StreamsTyped
    <2>4. RegistryTypeOK' /\ MapsAgree'
        BY <2>1, <2>3, RegistryStep DEF TypeOK, RegistryInvariant
    <2>5. TypeOK'
        BY <2>1, <2>2, <2>4, RuntimeStaysTyped, ConnectionsStayTyped DEF TypeOK, StreamsTyped
    <2> QED BY <2>1, <2>4, <2>5, DriverStep, RuntimeStep DEF ServerInvariant
<1> QED BY <1>1, <1>2, PTL DEF Spec

\* connections, shared map, tasks and streams have their types, and a connection
\* carries the id it is filed under.
THEOREM ServerTypeCorrect == Spec => []TypeOK
<1>1. ServerInvariant => TypeOK
    BY DEF ServerInvariant
<1> QED BY <1>1, ServerInvariantHolds, PTL

\* The driver's two maps hold the same sessions and never more than
\* max_connections, for any number of connections that come and go.
THEOREM CapacityKept == Spec => []ConnectionsAreSessions
<1>1. ServerInvariant => ConnectionsAreSessions
    BY DEF ServerInvariant, DriverInvariant
<1> QED BY <1>1, ServerInvariantHolds, PTL

\* Nothing is left of a session whose connection task is done.
THEOREM CleanupComplete == Spec => []NothingLeftBehind
<1>1. ServerInvariant => NothingLeftBehind
    <2> SUFFICES ASSUME ServerInvariant, NEW s \in Sessions, task[s] = "done"
                 PROVE  /\ s \notin shared
                        /\ connections[s] = Absent
                        /\ ~HasSession(s)
                        /\ \A r \in Rooms : s \notin SessionsInRoom(r)
        BY DEF NothingLeftBehind
    <2>1. s \notin shared /\ connections[s] = Absent
        BY DEF ServerInvariant, RuntimeInvariant, ConnectionHasTask, SharedHasTask
    <2>2. ~HasSession(s)
        BY <2>1 DEF ServerInvariant, DriverInvariant, ConnectionsAreSessions
    <2>3. RoomsForSession(s) = {}
        BY <2>2 DEF ServerInvariant, MapsAgree, RoomsForSession, OrEmpty
    <2>4. \A r \in Rooms : s \notin SessionsInRoom(r)
        BY <2>3 DEF ServerInvariant, MapsAgree
    <2> QED BY <2>1, <2>2, <2>4
<1> QED BY <1>1, ServerInvariantHolds, PTL

\* A session is marked authenticated only by a handshake of its connection.
THEOREM MarkedAfterHandshake == Spec => []AuthenticatedByHandshake
<1>1. ServerInvariant => AuthenticatedByHandshake
    BY DEF ServerInvariant, DriverInvariant
<1> QED BY <1>1, ServerInvariantHolds, PTL

\* A session served over an open connection is in the shared map.
THEOREM ServedIsReachable == Spec => []OpenIsReachable
<1>1. ServerInvariant => OpenIsReachable
    BY DEF ServerInvariant, RuntimeInvariant, OpenIsShared, OpenIsReachable
<1> QED BY <1>1, ServerInvariantHolds, PTL
=============================================================================
