-------------------------- MODULE ModelWorldProofs --------------------------
(***************************************************************************)
(* Proofs about ModelWorld: for every set of clients and rooms, after any  *)
(* sequence of operations, the client and server maps agree, the logs are  *)
(* sequential, a member's message is accepted, and what is accepted        *)
(* reaches the members it was meant for, in order.                         *)
(***************************************************************************)
EXTENDS ModelWorld, SequenceTheorems, WellFoundedInduction, TLAPS

\* A room's state is never mistaken for the absence of one.
LEMMA RoomIsEntry ==
    \A room \in ServerRoomState : room # NoRoom
BY ModelWorldAssumption

\* An epoch is never mistaken for the absence of a room.
LEMMA EpochIsEntry ==
    \A n \in Nat : n # NoRoom
BY ModelWorldAssumption

\* The fields of a room.
LEMMA RoomFields ==
    ASSUME NEW room \in ServerRoomState
    PROVE  /\ room.members \in SUBSET Clients
           /\ room.messages \in Seq(ModelMessage)
           /\ room.next_log_index \in Nat
           /\ room.epoch \in Nat
BY DEF ServerRoomState

\* The room a first member gets.
LEMMA NewRoomType ==
    ASSUME NEW c \in Clients
    PROVE  /\ NewServerRoom(c) \in ServerRoomState
           /\ NewServerRoom(c) # NoRoom
<1>1. <<>> \in Seq(ModelMessage) /\ {c} \in SUBSET Clients /\ 0 \in Nat
    BY EmptySeq
<1>2. NewServerRoom(c) \in ServerRoomState
    BY <1>1 DEF NewServerRoom, ServerRoomState
<1> QED BY <1>2, RoomIsEntry

\* A refused operation, a step of time, or a step that changes nothing.
LEMMA NothingChanges ==
    ASSUME WorldInvariant, UNCHANGED <<epochs, server_rooms, sent>>,
           pending' \in Seq(PendingMessage), result' \in OperationError \cup {"Ok"}
    PROVE  WorldInvariant'
BY DEF WorldInvariant, TypeOK, MembersAgree, IsMember, SequentialLog, EpochsNotAhead

\* Every error is one of the errors.
LEMMA RefuseKeepsInvariant ==
    ASSUME WorldInvariant, NEW e \in OperationError, Refuse(e)
    PROVE  WorldInvariant'
<1>1. pending \in Seq(PendingMessage)
    BY DEF WorldInvariant, TypeOK
<1> QED BY <1>1, NothingChanges DEF Refuse, historyVars

\* An operation on one room r keeps the invariant when the new entry of r is
\* itself right: its members are the clients that have the room, its log is
\* sequential, and no client is ahead of it.
LEMMA OneRoomChanges ==
    ASSUME WorldInvariant, TypeOK', NEW r \in Rooms, NEW new,
           server_rooms' = [server_rooms EXCEPT ![r] = new],
           \A d \in Clients, q \in Rooms : q # r => epochs'[d][q] = epochs[d][q],
           new # NoRoom => new.members # {} /\ SequentialRoom(new),
           \A d \in Clients : epochs'[d][r] # NoRoom <=> new # NoRoom /\ d \in new.members,
           \A d \in Clients : epochs'[d][r] # NoRoom => epochs'[d][r] <= new.epoch
    PROVE  WorldInvariant'
<1>1. /\ server_rooms'[r] = new
      /\ \A q \in Rooms : q # r => server_rooms'[q] = server_rooms[q]
    BY DEF WorldInvariant, TypeOK
<1>2. MembersAgree'
    BY <1>1 DEF WorldInvariant, MembersAgree, IsMember
<1>3. SequentialLog'
    <2> SUFFICES ASSUME NEW q \in Rooms, server_rooms'[q] # NoRoom
                 PROVE  SequentialRoom(server_rooms'[q])
        BY DEF SequentialLog, SequentialRoom
    <2> QED BY <1>1 DEF WorldInvariant, SequentialLog
<1>4. EpochsNotAhead'
    BY <1>1 DEF WorldInvariant, EpochsNotAhead, IsMember
<1> QED BY <1>2, <1>3, <1>4 DEF WorldInvariant

\* What the invariant says of a room that exists.
LEMMA RoomFacts ==
    ASSUME WorldInvariant, NEW r \in Rooms, server_rooms[r] # NoRoom
    PROVE  /\ server_rooms[r] \in ServerRoomState
           /\ SequentialRoom(server_rooms[r])
           /\ \A d \in Clients : IsMember(d, r) =>
                 /\ epochs[d][r] \in Nat
                 /\ epochs[d][r] <= server_rooms[r].epoch
BY DEF WorldInvariant, TypeOK, SequentialLog, EpochsNotAhead, IsMember

\* A log stays sequential when only the room's epoch grows.
LEMMA LaterEpochSequential ==
    ASSUME NEW room \in ServerRoomState, NEW new \in ServerRoomState, SequentialRoom(room),
           new.messages = room.messages, new.next_log_index = room.next_log_index,
           new.epoch = room.epoch + 1
    PROVE  SequentialRoom(new)
<1>1. \A i \in 1..Len(room.messages) : room.messages[i].epoch \in Nat
    <2>1. room.messages \in Seq(ModelMessage)
        BY RoomFields
    <2>2. \A i \in 1..Len(room.messages) : room.messages[i] \in ModelMessage
        BY <2>1, ElementOfSeq
    <2> QED BY <2>2 DEF ModelMessage
<1> QED BY <1>1, RoomFields DEF SequentialRoom

\* A room that moves to the next epoch with other members.
LEMMA RoomMoves ==
    ASSUME NEW room \in ServerRoomState, NEW members \in SUBSET Clients
    PROVE  /\ Moved(room, members) \in ServerRoomState
           /\ Moved(room, members).members = members
           /\ Moved(room, members).messages = room.messages
           /\ Moved(room, members).next_log_index = room.next_log_index
           /\ Moved(room, members).epoch = room.epoch + 1
<1>1. room.epoch + 1 \in Nat
    BY RoomFields
<1>2. Moved(room, members) = [members        |-> members,
                              messages       |-> room.messages,
                              next_log_index |-> room.next_log_index,
                              epoch          |-> room.epoch + 1]
    <2> DEFINE next == room.epoch + 1
    <2>1. Moved(room, members) = [room EXCEPT !.members = members, !.epoch = next]
        BY DEF Moved
    <2> HIDE DEF next
    <2>2. Moved(room, members) = [members        |-> members,
                                  messages       |-> room.messages,
                                  next_log_index |-> room.next_log_index,
                                  epoch          |-> next]
        BY <2>1 DEF ServerRoomState
    <2> QED BY <2>2 DEF next
<1> QED BY <1>1, <1>2, RoomFields DEF ServerRoomState

\* A client that creates a room, or joins one by creating it.
LEMMA CreateRoomKeepsInvariant ==
    ASSUME WorldInvariant, NEW c \in Ids, NEW r \in Rooms, CreateRoom(c, r)
    PROVE  WorldInvariant'
<1> DEFINE room == server_rooms[r]
           new  == RoomWith(room, c)
<1>1. CASE c \in Strangers
    BY <1>1, RefuseKeepsInvariant, ModelWorldAssumption DEF CreateRoom, OperationError
<1>2. CASE c \in Clients /\ IsMember(c, r)
    BY <1>2, RefuseKeepsInvariant, ModelWorldAssumption DEF CreateRoom, OperationError
<1>3. CASE c \in Clients /\ ~IsMember(c, r)
    <2>1. /\ result' = "Ok"
          /\ epochs' = [epochs EXCEPT ![c][r] = 0]
          /\ server_rooms' = [server_rooms EXCEPT ![r] = new]
          /\ pending' = pending
          /\ sent' = sent
        BY <1>3, ModelWorldAssumption DEF CreateRoom
    <2>2. /\ new \in ServerRoomState
          /\ SequentialRoom(new)
          /\ new.members = (IF room = NoRoom THEN {} ELSE room.members) \cup {c}
          /\ room # NoRoom => new.epoch = room.epoch
        <3>1. CASE room = NoRoom
            <4>1. new = NewServerRoom(c)
                BY <3>1 DEF RoomWith
            <4>2. SequentialRoom(new)
                BY <4>1, EmptySeq DEF NewServerRoom, SequentialRoom
            <4> QED BY <1>3, <3>1, <4>1, <4>2, NewRoomType DEF NewServerRoom
        <3>2. CASE room # NoRoom
            <4>1. room \in ServerRoomState /\ SequentialRoom(room)
                BY <3>2, RoomFacts
            <4>2. new = [room EXCEPT !.members = room.members \cup {c}]
                BY <3>2 DEF RoomWith
            <4> HIDE DEF room, new
            <4>3. /\ new \in ServerRoomState
                  /\ new.members = room.members \cup {c}
                  /\ new.messages = room.messages
                  /\ new.next_log_index = room.next_log_index
                  /\ new.epoch = room.epoch
                BY <1>3, <4>1, <4>2 DEF ServerRoomState
            <4>4. SequentialRoom(new)
                BY <4>1, <4>3 DEF SequentialRoom
            <4> QED BY <3>2, <4>3, <4>4
        <3> QED BY <3>1, <3>2
    <2>3. new # NoRoom
        BY <2>2, RoomIsEntry
    <2>4. /\ epochs'[c][r] = 0
          /\ \A d \in Clients, q \in Rooms :
                ~(d = c /\ q = r) => epochs'[d][q] = epochs[d][q]
        BY <1>3, <2>1 DEF WorldInvariant, TypeOK
    <2> HIDE DEF new
    <2>5. TypeOK'
        BY <1>3, <2>1, <2>2 DEF WorldInvariant, TypeOK
    <2>6. \A d \in Clients : epochs'[d][r] # NoRoom <=> d \in new.members
        BY <1>3, <2>2, <2>4, EpochIsEntry DEF WorldInvariant, MembersAgree, IsMember
    <2>7. \A d \in Clients : epochs'[d][r] # NoRoom => epochs'[d][r] <= new.epoch
        <3> SUFFICES ASSUME NEW d \in Clients, epochs'[d][r] # NoRoom
                     PROVE  epochs'[d][r] <= new.epoch
            OBVIOUS
        <3>1. CASE d = c
            BY <2>2, <2>4, <3>1, RoomFields
        <3>2. CASE d # c
            <4>1. IsMember(d, r) /\ room # NoRoom
                BY <2>4, <3>2 DEF WorldInvariant, MembersAgree, IsMember
            <4> QED BY <2>2, <2>4, <3>2, <4>1, RoomFacts
        <3> QED BY <3>1, <3>2
    <2> QED BY <2>1, <2>2, <2>3, <2>4, <2>5, <2>6, <2>7, OneRoomChanges
<1> QED BY <1>1, <1>2, <1>3 DEF Ids

\* The epochs after a departure or an invitation: only room r moves, c has what
\* it is given, and the others are one further or still out.
LEMMA AdvancedEpochs ==
    ASSUME WorldInvariant, NEW c \in Clients, NEW r \in Rooms,
           NEW e \in Nat \cup {NoRoom}, epochs' = Advanced(c, r, e)
    PROVE  /\ epochs' \in [Clients -> [Rooms -> Nat \cup {NoRoom}]]
           /\ \A d \in Clients, q \in Rooms : q # r => epochs'[d][q] = epochs[d][q]
           /\ epochs'[c][r] = e
           /\ \A d \in Clients : d # c /\ IsMember(d, r) => epochs'[d][r] = epochs[d][r] + 1
           /\ \A d \in Clients : d # c => (epochs'[d][r] # NoRoom <=> IsMember(d, r))
<1>1. \A d \in Clients, q \in Rooms : epochs[d][q] \in Nat \cup {NoRoom}
    BY DEF WorldInvariant, TypeOK
<1>2. \A d \in Clients, q \in Rooms :
          epochs'[d][q] = IF q # r THEN epochs[d][q]
                          ELSE IF d = c THEN e
                          ELSE IF IsMember(d, r) THEN epochs[d][r] + 1
                          ELSE NoRoom
    BY DEF Advanced
<1>3. \A d \in Clients : IsMember(d, r) => epochs[d][r] + 1 \in Nat
    BY <1>1 DEF IsMember
<1>4. \A d \in Clients, q \in Rooms : epochs'[d][q] \in Nat \cup {NoRoom}
    BY <1>1, <1>2, <1>3
<1>5. epochs' = [d \in Clients |-> [q \in Rooms |-> epochs'[d][q]]]
    BY DEF Advanced
<1>6. epochs' \in [Clients -> [Rooms -> Nat \cup {NoRoom}]]
    BY <1>4, <1>5
<1> QED BY <1>2, <1>3, <1>6, EpochIsEntry

\* A departure: the room loses the member and moves to the next epoch, or goes.
LEMMA DepartKeepsInvariant ==
    ASSUME WorldInvariant, NEW c \in Clients, NEW r \in Rooms, IsMember(c, r), Depart(c, r)
    PROVE  WorldInvariant'
<1> DEFINE room == server_rooms[r]
           new  == RoomWithout(room, c)
<1>1. /\ epochs' = Advanced(c, r, NoRoom)
      /\ server_rooms' = [server_rooms EXCEPT ![r] = new]
      /\ result' = "Ok"
      /\ pending' = pending
      /\ sent' = sent
    BY DEF Depart, historyVars
<1>2. /\ room # NoRoom
      /\ \A d \in Clients : IsMember(d, r) <=> d \in room.members
    BY DEF WorldInvariant, MembersAgree
<1>3. /\ room \in ServerRoomState
      /\ SequentialRoom(room)
      /\ \A d \in Clients : IsMember(d, r) => epochs[d][r] \in Nat /\ epochs[d][r] <= room.epoch
    BY <1>2, RoomFacts
<1>4. /\ epochs' \in [Clients -> [Rooms -> Nat \cup {NoRoom}]]
      /\ \A d \in Clients, q \in Rooms : q # r => epochs'[d][q] = epochs[d][q]
      /\ epochs'[c][r] = NoRoom
      /\ \A d \in Clients : d # c /\ IsMember(d, r) => epochs'[d][r] = epochs[d][r] + 1
      /\ \A d \in Clients : d # c => (epochs'[d][r] # NoRoom <=> IsMember(d, r))
    BY <1>1, AdvancedEpochs
<1>5. CASE room.members \subseteq {c}
    <2>1. new = NoRoom
        BY <1>5 DEF RoomWithout
    <2> HIDE DEF new
    <2>2. TypeOK'
        BY <1>1, <1>4, <2>1 DEF WorldInvariant, TypeOK
    <2>3. \A d \in Clients : epochs'[d][r] = NoRoom
        BY <1>2, <1>4, <1>5
    <2> QED BY <1>1, <1>4, <2>1, <2>2, <2>3, OneRoomChanges
<1>6. CASE ~(room.members \subseteq {c})
    <2>1. new = Moved(room, room.members \ {c})
        BY <1>2, <1>6 DEF RoomWithout
    <2> HIDE DEF room, new
    <2>2. /\ new \in ServerRoomState
          /\ new.members = room.members \ {c}
          /\ new.messages = room.messages
          /\ new.next_log_index = room.next_log_index
          /\ new.epoch = room.epoch + 1
        <3>1. room.members \ {c} \in SUBSET Clients
            BY <1>3, RoomFields
        <3> QED BY <1>3, <2>1, <3>1, RoomMoves
    <2>3. new # NoRoom /\ new.members # {}
        BY <1>6, <2>2, RoomIsEntry
    <2>4. SequentialRoom(new)
        BY <1>3, <2>2, LaterEpochSequential
    <2>5. TypeOK'
        BY <1>1, <1>4, <2>2 DEF WorldInvariant, TypeOK
    <2>6. \A d \in Clients : epochs'[d][r] # NoRoom <=> d \in new.members
        BY <1>2, <1>4, <2>2
    <2>7. \A d \in Clients : epochs'[d][r] # NoRoom => epochs'[d][r] <= new.epoch
        BY <1>3, <1>4, <2>2, RoomFields
    <2> QED BY <1>1, <1>4, <2>3, <2>4, <2>5, <2>6, <2>7, OneRoomChanges
<1> QED BY <1>5, <1>6

\* An invitation: the room gets the member and moves to the next epoch, which is
\* the epoch the invitee starts from.
LEMMA InviteKeepsInvariant ==
    ASSUME WorldInvariant, NEW c \in Clients, NEW d \in Clients, NEW r \in Rooms,
           IsMember(c, r), ~IsMember(d, r), Invite(d, r)
    PROVE  WorldInvariant'
<1> DEFINE room == server_rooms[r]
           new  == RoomAdding(room, d)
<1>1. /\ room # NoRoom
      /\ \A e \in Clients : IsMember(e, r) <=> e \in room.members
    BY DEF WorldInvariant, MembersAgree
<1>2. /\ room \in ServerRoomState
      /\ SequentialRoom(room)
      /\ \A e \in Clients : IsMember(e, r) => epochs[e][r] \in Nat /\ epochs[e][r] <= room.epoch
    BY <1>1, RoomFacts
<1>3. room.epoch + 1 \in Nat
    BY <1>2, RoomFields
<1>4. /\ epochs' = Advanced(d, r, room.epoch + 1)
      /\ server_rooms' = [server_rooms EXCEPT ![r] = new]
      /\ result' = "Ok"
      /\ pending' = pending
      /\ sent' = sent
    BY <1>1 DEF Invite, NewEpoch
<1>5. /\ epochs' \in [Clients -> [Rooms -> Nat \cup {NoRoom}]]
      /\ \A e \in Clients, q \in Rooms : q # r => epochs'[e][q] = epochs[e][q]
      /\ epochs'[d][r] = room.epoch + 1
      /\ \A e \in Clients : e # d /\ IsMember(e, r) => epochs'[e][r] = epochs[e][r] + 1
      /\ \A e \in Clients : e # d => (epochs'[e][r] # NoRoom <=> IsMember(e, r))
    BY <1>3, <1>4, AdvancedEpochs
<1>6. new = Moved(room, room.members \cup {d})
    BY <1>1 DEF RoomAdding
<1> HIDE DEF room, new
<1>7. /\ new \in ServerRoomState
      /\ new.members = room.members \cup {d}
      /\ new.messages = room.messages
      /\ new.next_log_index = room.next_log_index
      /\ new.epoch = room.epoch + 1
    <2>1. room.members \cup {d} \in SUBSET Clients
        BY <1>2, RoomFields
    <2> QED BY <1>2, <1>6, <2>1, RoomMoves
<1>8. new # NoRoom /\ new.members # {}
    BY <1>7, RoomIsEntry
<1>9. SequentialRoom(new)
    BY <1>2, <1>7, LaterEpochSequential
<1>10. TypeOK'
    BY <1>4, <1>5, <1>7 DEF WorldInvariant, TypeOK
<1>11. \A e \in Clients : epochs'[e][r] # NoRoom <=> e \in new.members
    BY <1>1, <1>3, <1>5, <1>7, EpochIsEntry
<1>12. \A e \in Clients : epochs'[e][r] # NoRoom => epochs'[e][r] <= new.epoch
    BY <1>2, <1>3, <1>5, <1>7, RoomFields
<1> QED BY <1>4, <1>5, <1>8, <1>9, <1>10, <1>11, <1>12, OneRoomChanges

\* An accepted message takes the next index of the log and the room's epoch.
LEMMA LoggingSequential ==
    ASSUME NEW room \in ServerRoomState, SequentialRoom(room), NEW m \in ModelMessage,
           m.log_index = room.next_log_index, m.epoch = room.epoch
    PROVE  /\ RoomLogging(room, m) \in ServerRoomState
           /\ RoomLogging(room, m).members = room.members
           /\ RoomLogging(room, m).epoch = room.epoch
           /\ SequentialRoom(RoomLogging(room, m))
<1> DEFINE new == RoomLogging(room, m)
           log == Append(room.messages, m)
<1>1. /\ room.messages \in Seq(ModelMessage)
      /\ room.next_log_index \in Nat
      /\ room.epoch \in Nat
    BY RoomFields
<1>2. /\ log \in Seq(ModelMessage)
      /\ Len(log) = Len(room.messages) + 1
      /\ \A i \in 1..Len(room.messages) : log[i] = room.messages[i]
      /\ log[Len(room.messages) + 1] = m
    BY <1>1, AppendProperties
<1>3. new = [members        |-> room.members,
             messages       |-> log,
             next_log_index |-> room.next_log_index + 1,
             epoch          |-> room.epoch]
    <2> DEFINE next == room.next_log_index + 1
    <2>1. new = [room EXCEPT !.messages = log, !.next_log_index = next]
        BY DEF RoomLogging
    <2> HIDE DEF log, next, new
    <2>2. new = [members        |-> room.members,
                 messages       |-> log,
                 next_log_index |-> next,
                 epoch          |-> room.epoch]
        BY <2>1 DEF ServerRoomState
    <2> QED BY <2>2 DEF next
<1>4. new \in ServerRoomState /\ new.members = room.members /\ new.epoch = room.epoch
    BY <1>1, <1>2, <1>3, RoomFields DEF ServerRoomState
<1>5. /\ new.messages = log
      /\ new.next_log_index = Len(log)
    BY <1>2, <1>3 DEF SequentialRoom
<1>6. Len(room.messages) \in Nat
    BY <1>1, LenProperties
<1>7. \A i \in 1..Len(room.messages) : room.messages[i].epoch \in Nat
    <2>1. \A i \in 1..Len(room.messages) : room.messages[i] \in ModelMessage
        BY <1>1, ElementOfSeq
    <2> QED BY <2>1 DEF ModelMessage
<1> HIDE DEF log, new
<1>8. ASSUME NEW i \in 1..Len(log)
      PROVE  /\ log[i].log_index = i - 1
             /\ log[i].epoch <= room.epoch
             /\ \A j \in 1..i : log[j].epoch <= log[i].epoch
    <2>1. CASE i \in 1..Len(room.messages)
        <3>1. /\ room.messages[i].log_index = i - 1
              /\ room.messages[i].epoch <= room.epoch
              /\ \A j \in 1..i : room.messages[j].epoch <= room.messages[i].epoch
            BY <2>1 DEF SequentialRoom
        <3>2. \A j \in 1..i : j \in 1..Len(room.messages)
            BY <1>6, <2>1
        <3>3. log[i] = room.messages[i] /\ \A j \in 1..i : log[j] = room.messages[j]
            BY <1>2, <2>1, <3>2
        <3> QED BY <3>1, <3>3
    <2>2. CASE i = Len(room.messages) + 1
        <3>1. log[i] = m /\ m.log_index = i - 1 /\ m.epoch = room.epoch
            BY <1>2, <1>6, <2>2 DEF SequentialRoom
        <3>2. \A j \in 1..Len(room.messages) : log[j].epoch <= room.epoch
            BY <1>2 DEF SequentialRoom
        <3> QED BY <1>1, <1>6, <2>2, <3>1, <3>2
    <2> QED BY <1>2, <1>6, <2>1, <2>2
<1>9. SequentialRoom(new)
    BY <1>4, <1>5, <1>8 DEF SequentialRoom
<1> QED BY <1>4, <1>9 DEF new

\* A message the server accepts.
LEMMA AcceptKeepsInvariant ==
    ASSUME WorldInvariant, NEW c \in Clients, NEW r \in Rooms,
           server_rooms[r] # NoRoom, Accept(c, r)
    PROVE  WorldInvariant'
<1> DEFINE room == server_rooms[r]
           m    == [sender |-> c, content |-> sent,
                    log_index |-> room.next_log_index, epoch |-> room.epoch]
           p    == [room |-> r, message |-> m, recipients |-> Recipients(room)]
           new  == RoomLogging(room, m)
<1>1. /\ server_rooms' = [server_rooms EXCEPT ![r] = new]
      /\ pending' = Append(pending, p)
      /\ result' = "Ok"
      /\ sent' = sent + 1
      /\ epochs' = epochs
    BY DEF Accept
<1>2. /\ room \in ServerRoomState
      /\ SequentialRoom(room)
      /\ \A d \in Clients : IsMember(d, r) => epochs[d][r] \in Nat /\ epochs[d][r] <= room.epoch
    BY RoomFacts
<1>3. m \in ModelMessage /\ m.log_index = room.next_log_index /\ m.epoch = room.epoch
    BY <1>2, RoomFields DEF ModelMessage, WorldInvariant, TypeOK
<1>4. p \in PendingMessage
    BY <1>2, <1>3, RoomFields DEF PendingMessage, Recipients
<1> HIDE DEF m, p
<1>5. /\ new \in ServerRoomState
      /\ new.members = room.members
      /\ new.epoch = room.epoch
      /\ SequentialRoom(new)
    BY <1>2, <1>3, LoggingSequential
<1>6. pending' \in Seq(PendingMessage)
    BY <1>1, <1>4, AppendProperties DEF WorldInvariant, TypeOK
<1> HIDE DEF new
<1>7. TypeOK'
    BY <1>1, <1>5, <1>6 DEF WorldInvariant, TypeOK
<1>8. /\ new # NoRoom
      /\ room.members # {}
      /\ \A d \in Clients : epochs[d][r] # NoRoom <=> d \in room.members
    BY <1>5, RoomIsEntry DEF WorldInvariant, MembersAgree, IsMember
<1> QED BY <1>1, <1>2, <1>5, <1>7, <1>8, OneRoomChanges DEF IsMember

\* Every step keeps the invariant.
LEMMA NextKeepsInvariant ==
    ASSUME WorldInvariant, [Next]_vars
    PROVE  WorldInvariant'
<1>1. /\ pending \in Seq(PendingMessage)
      /\ result \in OperationError \cup {"Ok"}
      /\ <<>> \in Seq(PendingMessage)
    BY EmptySeq DEF WorldInvariant, TypeOK
<1>2. ASSUME NEW c \in Ids, NEW r \in Rooms, CreateRoom(c, r)
      PROVE  WorldInvariant'
    BY <1>2, CreateRoomKeepsInvariant
<1>3. ASSUME NEW c \in Ids, NEW r \in Rooms, SendMessage(c, r)
      PROVE  WorldInvariant'
    BY <1>3, RefuseKeepsInvariant, AcceptKeepsInvariant
       DEF SendMessage, ProcessMessage, OperationError
<1>4. ASSUME NEW c \in Ids, NEW r \in Rooms, LeaveRoom(c, r)
      PROVE  WorldInvariant'
    BY <1>4, RefuseKeepsInvariant, DepartKeepsInvariant DEF LeaveRoom, OperationError
<1>5. ASSUME NEW c \in Ids, NEW d \in Ids, NEW r \in Rooms, AddMember(c, d, r)
      PROVE  WorldInvariant'
    BY <1>5, RefuseKeepsInvariant, InviteKeepsInvariant DEF AddMember, OperationError
<1>6. ASSUME NEW c \in Ids, NEW d \in Ids, NEW r \in Rooms, RemoveMember(c, d, r)
      PROVE  WorldInvariant'
    BY <1>6, RefuseKeepsInvariant, DepartKeepsInvariant DEF RemoveMember, OperationError
<1>7. CASE DeliverPending
    BY <1>1, <1>7, NothingChanges DEF DeliverPending, historyVars
<1>8. CASE AdvanceTime
    BY <1>1, <1>8, NothingChanges DEF AdvanceTime, historyVars
<1>9. CASE UNCHANGED vars
    BY <1>1, <1>9, NothingChanges DEF vars, historyVars
<1> QED BY <1>2, <1>3, <1>4, <1>5, <1>6, <1>7, <1>8, <1>9 DEF Next

\* In an empty world everything agrees.
LEMMA InitialWorld ==
    ASSUME Init
    PROVE  WorldInvariant
<1>1. TypeOK
    BY EmptySeq DEF Init, TypeOK
<1>2. \A r \in Rooms : server_rooms[r] = NoRoom /\ \A c \in Clients : ~IsMember(c, r)
    BY DEF Init, IsMember
<1> QED BY <1>1, <1>2 DEF WorldInvariant, MembersAgree, SequentialLog, EpochsNotAhead

\* After any sequence of operations on any set of clients and rooms, the clients
\* and the server agree on who is in a room, no room is empty, the logs are
\* sequential and no client is ahead of the server.
THEOREM WorldInvariantHolds == Spec => []WorldInvariant
BY InitialWorld, NextKeepsInvariant, PTL DEF Spec

\* The server never refuses what the client's own map allowed: process_message
\* fails for no member, whatever the others did before.
THEOREM MembersCanSend == Spec => MemberCanSend
<1>1. ASSUME WorldInvariant, NEW c \in Clients, NEW r \in Rooms,
             IsMember(c, r), SendMessage(c, r)
      PROVE  result' = "Ok"
    <2>1. server_rooms[r] # NoRoom /\ c \in server_rooms[r].members
        BY <1>1 DEF WorldInvariant, MembersAgree
    <2>2. Accept(c, r)
        BY <1>1, <2>1, ModelWorldAssumption DEF SendMessage, ProcessMessage
    <2> QED BY <2>2 DEF Accept
<1>2. WorldInvariant => [\A c \in Clients, r \in Rooms :
          IsMember(c, r) /\ SendMessage(c, r) => result' = "Ok"]_vars
    BY <1>1
<1> QED BY <1>2, WorldInvariantHolds, PTL DEF MemberCanSend

-----------------------------------------------------------------------------
(* Deliveries: the inductive invariant.                                    *)

\* Every message of got was accepted before the next one of got.
Ordered(got) ==
    \A i, j \in 1..Len(got) : i < j => got[i].content < got[j].content

\* m is one of the messages of got.
Among(m, got) == \E i \in 1..Len(got) : got[i] = m

\* c is a recipient of the k-th message of the queue, in room r.
Due(k, c, r) == pending[k].room = r /\ c \in pending[k].recipients

\* The deliveries' own state: what was accepted is numbered, and the queue holds
\* accepted messages in order, each for those that were members then.
QueueInvariant ==
    /\ messages \in [Clients -> [Rooms -> Seq(ModelMessage)]]
    /\ joined \in [Clients -> [Rooms -> Nat]]
    /\ audience \in Seq(SUBSET Clients)
    /\ Len(audience) = sent
    /\ \A k \in 1..Len(pending) :
          /\ pending[k].message.content < sent
          /\ pending[k].recipients = audience[pending[k].message.content + 1]
          /\ \A l \in 1..(k - 1) :
                pending[l].message.content < pending[k].message.content

\* What the clients hold, after the first k messages of the queue were handed
\* out, is in order, was meant for them, and is older than the rest of the queue.
HeldInvariant(held, k) ==
    \A c \in Clients, r \in Rooms :
        /\ Ordered(held[c][r])
        /\ \A i \in 1..Len(held[c][r]) :
              /\ held[c][r][i].content < sent
              /\ c \in audience[held[c][r][i].content + 1]
              /\ \A l \in (k + 1)..Len(pending) :
                    held[c][r][i].content < pending[l].message.content

\* The i-th message of the log of r was accepted, and every member that came in
\* before it holds it or is due it.
Logged(r, i) ==
    LET m == server_rooms[r].messages[i]
    IN  /\ m.content < sent
        /\ \A c \in Clients : IsMember(c, r) /\ m.content >= joined[c][r] =>
              \/ Among(m, messages[c][r])
              \/ \E k \in 1..Len(pending) : Due(k, c, r) /\ pending[k].message = m

LogInvariant ==
    \A r \in Rooms : server_rooms[r] # NoRoom =>
        \A i \in 1..Len(server_rooms[r].messages) : Logged(r, i)

\* The inductive invariant behind the deliveries.
DeliveryInvariant ==
    WorldInvariant /\ QueueInvariant /\ HeldInvariant(messages, 0) /\ LogInvariant

-----------------------------------------------------------------------------
(* The loop of apply_deliver_pending.                                      *)

\* A non-empty set of numbers has a least one: induction over the rounds.
LEMMA LeastNumber ==
    ASSUME NEW T, T \subseteq Nat, T # {}
    PROVE  \E n \in T : \A m \in T : n <= m
<1> DEFINE Less == {ss \in Nat \X Nat : ss[1] < ss[2]}
<1>1. IsWellFoundedOn(Less, Nat)
    BY NatLessThanWellFounded DEF OpToRel
<1> HIDE DEF Less
<1>2. PICK n \in T : \A m \in T : ~(<<m, n>> \in Less)
    BY <1>1, WFMin
<1>3. ASSUME NEW m \in T
      PROVE  n <= m
    <2>1. n \in Nat /\ m \in Nat /\ ~(<<m, n>> \in Less)
        BY <1>2
    <2>2. ~(m < n)
        BY <2>1, SMT DEF Less
    <2> QED BY <2>1, <2>2
<1> QED BY <1>3

\* The rounds do what the loop says: there is a function that satisfies the
\* recursive definition.
LEMMA Rounds ==
    ASSUME Len(pending) \in Nat
    PROVE  /\ Handed[0] = messages
           /\ \A k \in 1..Len(pending) : Handed[k] = Hand(pending[k], Handed[k - 1])
<1> DEFINE n == Len(pending)
           Round(f, k) == IF k = 0 THEN messages ELSE Hand(pending[k], f[k - 1])
           Does(f, m) == f = [k \in 0..m |-> Round(f, k)]
           Missing == {m \in 0..n : ~\E f : Does(f, m)}
<1>1. Missing = {}
    <2> SUFFICES ASSUME Missing # {} PROVE FALSE
        OBVIOUS
    <2>1. PICK m \in Missing : \A k \in Missing : m <= k
        <3>1. Missing \subseteq Nat
            OBVIOUS
        <3> HIDE DEF Missing
        <3> QED BY <3>1, LeastNumber
    <2>2. CASE m = 0
        <3> DEFINE f == [k \in 0..0 |-> messages]
        <3>1. Does(f, 0)
            OBVIOUS
        <3> QED BY <2>2, <3>1
    <2>3. CASE m # 0
        <3>1. m - 1 \in 0..n /\ m - 1 \notin Missing /\ m \in 1..n
            BY <2>1, <2>3
        <3>2. PICK g : Does(g, m - 1)
            BY <3>1
        <3> DEFINE f == [k \in 0..m |-> IF k < m THEN g[k] ELSE Hand(pending[m], g[m - 1])]
        <3>3. \A k \in 0..(m - 1) : f[k] = g[k]
            BY <3>1
        <3>4. \A k \in 0..m : f[k] = Round(f, k)
            <4> SUFFICES ASSUME NEW k \in 0..m PROVE f[k] = Round(f, k)
                OBVIOUS
            <4>1. CASE k = m
                <5>1. f[k - 1] = g[m - 1]
                    BY <3>1, <3>3, <4>1
                <5> QED BY <3>1, <4>1, <5>1
            <4>2. CASE k = 0 /\ k # m
                <5>1. g[0] = Round(g, 0)
                    BY <3>1, <3>2
                <5> QED BY <3>1, <3>3, <4>2, <5>1
            <4>3. CASE k # m /\ k # 0
                <5>1. k \in 0..(m - 1) /\ k - 1 \in 0..(m - 1)
                    BY <3>1, <4>3
                <5>2. g[k] = Round(g, k) /\ f[k] = g[k] /\ f[k - 1] = g[k - 1]
                    BY <3>2, <3>3, <5>1
                <5> QED BY <4>3, <5>2
            <4> QED BY <4>1, <4>2, <4>3
        <3>5. Does(f, m)
            BY <3>4
        <3> QED BY <3>5
    <2> QED BY <2>2, <2>3
<1>2. \E f : f = [k \in 0..n |-> IF k = 0 THEN messages ELSE Hand(pending[k], f[k - 1])]
    <2>1. n \in 0..n
        OBVIOUS
    <2> QED BY <1>1, <2>1
<1>3. Handed = [k \in 0..n |-> IF k = 0 THEN messages ELSE Hand(pending[k], Handed[k - 1])]
    BY <1>2 DEF Handed
<1> QED BY <1>3

\* The messages a client holds of a room.
HeldType == [Clients -> [Rooms -> Seq(ModelMessage)]]

\* What the rounds up to k keep: the clients still hold what they held, and every
\* member holds what it was due of the first k.
Carried(held, k) ==
    \A c \in Clients, r \in Rooms :
        /\ \A m \in ModelMessage : Among(m, messages[c][r]) => Among(m, held[c][r])
        /\ \A l \in 1..k : IsMember(c, r) /\ Due(l, c, r) =>
              Among(pending[l].message, held[c][r])

\* The queue's entries.
LEMMA QueueEntries ==
    ASSUME DeliveryInvariant
    PROVE  /\ Len(pending) \in Nat
           /\ sent \in Nat
           /\ \A k \in 1..Len(pending) :
                 /\ pending[k] \in PendingMessage
                 /\ pending[k].message \in ModelMessage
                 /\ pending[k].message.content \in Nat
<1>1. pending \in Seq(PendingMessage) /\ sent \in Nat
    BY DEF DeliveryInvariant, WorldInvariant, TypeOK
<1>2. Len(pending) \in Nat /\ \A k \in 1..Len(pending) : pending[k] \in PendingMessage
    BY <1>1, LenProperties, ElementOfSeq
<1> QED BY <1>1, <1>2 DEF PendingMessage, ModelMessage

\* A list that gets a message.
LEMMA OneMore ==
    ASSUME NEW got \in Seq(ModelMessage), NEW m \in ModelMessage
    PROVE  /\ Append(got, m) \in Seq(ModelMessage)
           /\ Among(m, Append(got, m))
           /\ \A x : Among(x, got) => Among(x, Append(got, m))
           /\ \A i \in 1..Len(Append(got, m)) :
                 Append(got, m)[i] = m \/ \E j \in 1..Len(got) : Append(got, m)[i] = got[j]
           /\ Ordered(got) /\ (\A i \in 1..Len(got) : got[i].content < m.content)
                 => Ordered(Append(got, m))
<1> DEFINE new == Append(got, m)
<1>1. /\ new \in Seq(ModelMessage)
      /\ Len(new) = Len(got) + 1
      /\ \A i \in 1..Len(got) : new[i] = got[i]
      /\ new[Len(got) + 1] = m
    BY AppendProperties
<1>2. Len(got) \in Nat
    BY LenProperties
<1> HIDE DEF new
<1>3. Among(m, new) /\ \A x : Among(x, got) => Among(x, new)
    BY <1>1, <1>2 DEF Among
<1>4. \A i \in 1..Len(new) : i \in 1..Len(got) \/ i = Len(got) + 1
    BY <1>1, <1>2
<1>5. \A i \in 1..Len(new) : new[i] = m \/ \E j \in 1..Len(got) : new[i] = got[j]
    BY <1>1, <1>4
<1>6. ASSUME Ordered(got), \A i \in 1..Len(got) : got[i].content < m.content
      PROVE  Ordered(new)
    <2> SUFFICES ASSUME NEW i \in 1..Len(new), NEW j \in 1..Len(new), i < j
                 PROVE  new[i].content < new[j].content
        BY DEF Ordered
    <2>1. i \in 1..Len(got) /\ new[i] = got[i]
        BY <1>1, <1>2, <1>4
    <2>2. CASE j \in 1..Len(got)
        BY <1>1, <1>6, <2>1, <2>2 DEF Ordered
    <2>3. CASE j = Len(got) + 1
        BY <1>1, <1>6, <2>1, <2>3
    <2> QED BY <1>4, <2>2, <2>3
<1> QED BY <1>1, <1>3, <1>5, <1>6 DEF new

\* One round hands out the next message of the queue and keeps what the clients
\* hold in order.
LEMMA RoundKeeps ==
    ASSUME DeliveryInvariant, NEW k \in 1..Len(pending), NEW held \in HeldType,
           HeldInvariant(held, k - 1), Carried(held, k - 1)
    PROVE  /\ Hand(pending[k], held) \in HeldType
           /\ HeldInvariant(Hand(pending[k], held), k)
           /\ Carried(Hand(pending[k], held), k)
<1> DEFINE p   == pending[k]
           new == Hand(p, held)
           Gets(c, r) == p.room = r /\ c \in p.recipients /\ IsMember(c, r)
<1>1. /\ Len(pending) \in Nat
      /\ k \in Nat
      /\ sent \in Nat
      /\ p.message \in ModelMessage
      /\ p.message.content \in Nat
      /\ \A l \in 1..Len(pending) : pending[l].message.content \in Nat
    BY QueueEntries
<1>2. \A c \in Clients, r \in Rooms :
          /\ held[c][r] \in Seq(ModelMessage)
          /\ new[c][r] = IF Gets(c, r) THEN Append(held[c][r], p.message) ELSE held[c][r]
    BY DEF Hand, HeldType
<1>3. \A c \in Clients, r \in Rooms : new[c][r] \in Seq(ModelMessage)
    BY <1>1, <1>2, OneMore
<1>4. new = [c \in Clients |-> [r \in Rooms |-> new[c][r]]]
    BY DEF Hand
<1> HIDE DEF new
<1>5. new \in HeldType
    BY <1>3, <1>4 DEF HeldType
<1>6. ASSUME NEW c \in Clients, NEW r \in Rooms
      PROVE  /\ Ordered(new[c][r])
             /\ \A i \in 1..Len(new[c][r]) :
                   /\ new[c][r][i].content < sent
                   /\ c \in audience[new[c][r][i].content + 1]
                   /\ \A l \in (k + 1)..Len(pending) :
                         new[c][r][i].content < pending[l].message.content
    <2> DEFINE got == held[c][r]
    <2>1. /\ got \in Seq(ModelMessage)
          /\ Ordered(got)
          /\ \A i \in 1..Len(got) :
                /\ got[i].content < sent
                /\ c \in audience[got[i].content + 1]
                /\ \A l \in ((k - 1) + 1)..Len(pending) :
                      got[i].content < pending[l].message.content
        BY <1>2 DEF HeldInvariant
    <2>2. CASE ~Gets(c, r)
        <3>1. new[c][r] = got
            BY <1>2, <2>2
        <3>2. \A l \in (k + 1)..Len(pending) : l \in ((k - 1) + 1)..Len(pending)
            BY <1>1
        <3> HIDE DEF got
        <3> QED BY <2>1, <3>1, <3>2
    <2>3. CASE Gets(c, r)
        <3>1. new[c][r] = Append(got, p.message)
            BY <1>2, <2>3
        <3>2. k \in ((k - 1) + 1)..Len(pending)
            BY <1>1
        <3>3. \A i \in 1..Len(got) : got[i].content < p.message.content
            BY <2>1, <3>2
        <3>4. Ordered(new[c][r])
            BY <1>1, <2>1, <3>1, <3>3, OneMore
        <3>5. ASSUME NEW l \in (k + 1)..Len(pending)
              PROVE  /\ l \in ((k - 1) + 1)..Len(pending)
                     /\ p.message.content < pending[l].message.content
            <4>1. l \in 1..Len(pending) /\ k \in 1..(l - 1)
                BY <1>1
            <4> QED BY <1>1, <4>1 DEF DeliveryInvariant, QueueInvariant
        <3>6. p.message.content < sent /\ c \in audience[p.message.content + 1]
            BY <2>3 DEF DeliveryInvariant, QueueInvariant
        <3>7. ASSUME NEW i \in 1..Len(new[c][r])
              PROVE  /\ new[c][r][i].content < sent
                     /\ c \in audience[new[c][r][i].content + 1]
                     /\ \A l \in (k + 1)..Len(pending) :
                           new[c][r][i].content < pending[l].message.content
            <4>1. new[c][r][i] = p.message \/ \E j \in 1..Len(got) : new[c][r][i] = got[j]
                BY <1>1, <2>1, <3>1, OneMore
            <4> HIDE DEF got, p
            <4>2. CASE new[c][r][i] = p.message
                BY <3>5, <3>6, <4>2
            <4>3. CASE \E j \in 1..Len(got) : new[c][r][i] = got[j]
                <5>1. PICK j \in 1..Len(got) : new[c][r][i] = got[j]
                    BY <4>3
                <5> QED BY <2>1, <3>5, <5>1
            <4> QED BY <4>1, <4>2, <4>3
        <3> QED BY <3>4, <3>7
    <2> QED BY <2>2, <2>3
<1>7. HeldInvariant(new, k)
    BY <1>6 DEF HeldInvariant
<1>8. ASSUME NEW c \in Clients, NEW r \in Rooms
      PROVE  /\ \A m \in ModelMessage : Among(m, messages[c][r]) => Among(m, new[c][r])
             /\ \A l \in 1..k : IsMember(c, r) /\ Due(l, c, r) =>
                   Among(pending[l].message, new[c][r])
    <2>1. \A x : Among(x, held[c][r]) => Among(x, new[c][r])
        BY <1>1, <1>2, OneMore
    <2>2. \A m \in ModelMessage : Among(m, messages[c][r]) => Among(m, new[c][r])
        BY <2>1 DEF Carried
    <2>3. ASSUME NEW l \in 1..k, IsMember(c, r), Due(l, c, r)
          PROVE  Among(pending[l].message, new[c][r])
        <3>1. CASE l = k
            <4>1. new[c][r] = Append(held[c][r], p.message)
                BY <1>2, <2>3, <3>1 DEF Due
            <4> QED BY <1>1, <1>2, <3>1, <4>1, OneMore
        <3>2. CASE l # k
            <4>1. l \in 1..(k - 1)
                BY <1>1, <3>2
            <4> QED BY <2>1, <2>3, <4>1 DEF Carried
        <3> QED BY <3>1, <3>2
    <2> QED BY <2>2, <2>3
<1>9. Carried(new, k)
    BY <1>8 DEF Carried
<1> QED BY <1>5, <1>7, <1>9 DEF new

\* So after all rounds the queue is handed out.
LEMMA AllRounds ==
    ASSUME DeliveryInvariant
    PROVE  LET held == Handed[Len(pending)]
           IN  /\ held \in HeldType
               /\ HeldInvariant(held, Len(pending))
               /\ Carried(held, Len(pending))
<1> DEFINE n == Len(pending)
           Right(k) == /\ Handed[k] \in HeldType
                       /\ HeldInvariant(Handed[k], k)
                       /\ Carried(Handed[k], k)
           Wrong == {k \in 0..n : ~Right(k)}
<1>1. n \in Nat
    BY QueueEntries
<1>2. /\ Handed[0] = messages
      /\ \A k \in 1..n : Handed[k] = Hand(pending[k], Handed[k - 1])
    BY <1>1, Rounds
<1>3. Right(0)
    <2>1. messages \in HeldType /\ HeldInvariant(messages, 0)
        BY DEF DeliveryInvariant, QueueInvariant, HeldType
    <2>2. Carried(messages, 0)
        BY DEF Carried
    <2> QED BY <1>2, <2>1, <2>2
<1>4. ASSUME NEW k \in 1..n, Right(k - 1)
      PROVE  Right(k)
    BY <1>2, <1>4, RoundKeeps
<1> HIDE DEF Right
<1>5. Wrong = {}
    <2> SUFFICES ASSUME Wrong # {} PROVE FALSE
        OBVIOUS
    <2>1. Wrong \subseteq Nat
        OBVIOUS
    <2>2. PICK m \in Wrong : \A k \in Wrong : m <= k
        <3> HIDE DEF Wrong
        <3> QED BY <2>1, LeastNumber
    <2>3. m \in 1..n /\ m - 1 \in 0..n /\ m - 1 \notin Wrong
        BY <1>1, <1>3, <2>2
    <2> QED BY <1>4, <2>3
<1>6. Right(n)
    BY <1>1, <1>5
<1> QED BY <1>6 DEF Right

-----------------------------------------------------------------------------
(* The operations keep the invariant of the deliveries.                    *)

\* A refused operation, or a step of time.
LEMMA NothingDelivered ==
    ASSUME DeliveryInvariant, WorldInvariant',
           UNCHANGED <<epochs, messages, server_rooms, pending, historyVars>>
    PROVE  DeliveryInvariant'
<1>1. QueueInvariant'
    BY DEF DeliveryInvariant, QueueInvariant, historyVars
<1>2. HeldInvariant(messages, 0)'
    BY DEF DeliveryInvariant, HeldInvariant, Ordered, historyVars
<1>3. LogInvariant'
    BY DEF DeliveryInvariant, LogInvariant, Logged, Among, Due, IsMember, historyVars
<1> QED BY <1>1, <1>2, <1>3 DEF DeliveryInvariant

\* The queue is flushed: what was due is held now.
LEMMA DeliverKeepsDeliveries ==
    ASSUME DeliveryInvariant, WorldInvariant', DeliverPending
    PROVE  DeliveryInvariant'
<1> DEFINE held == Handed[Len(pending)]
<1>1. /\ messages' = held
      /\ pending' = <<>>
      /\ UNCHANGED <<epochs, server_rooms, sent, joined, audience>>
    BY DEF DeliverPending, ReceiveMessages, historyVars
<1>2. /\ held \in HeldType
      /\ HeldInvariant(held, Len(pending))
      /\ Carried(held, Len(pending))
    BY AllRounds
<1> HIDE DEF held
<1>3. Len(pending') = 0
    BY <1>1, EmptySeq
<1>4. QueueInvariant'
    BY <1>1, <1>2, <1>3 DEF DeliveryInvariant, QueueInvariant, HeldType
<1>5. HeldInvariant(messages, 0)'
    BY <1>1, <1>2, <1>3 DEF HeldInvariant, Ordered
<1>6. ASSUME NEW r \in Rooms, server_rooms[r] # NoRoom,
             NEW i \in 1..Len(server_rooms[r].messages)
      PROVE  /\ server_rooms[r].messages[i].content < sent
             /\ \A c \in Clients :
                   IsMember(c, r) /\ server_rooms[r].messages[i].content >= joined[c][r] =>
                       Among(server_rooms[r].messages[i], held[c][r])
    <2> DEFINE m == server_rooms[r].messages[i]
    <2>1. m \in ModelMessage
        <3>1. server_rooms[r].messages \in Seq(ModelMessage)
            BY <1>6, RoomFacts, RoomFields DEF DeliveryInvariant
        <3> QED BY <3>1, ElementOfSeq
    <2>2. /\ m.content < sent
          /\ \A c \in Clients : IsMember(c, r) /\ m.content >= joined[c][r] =>
                \/ Among(m, messages[c][r])
                \/ \E k \in 1..Len(pending) : Due(k, c, r) /\ pending[k].message = m
        BY <1>6 DEF DeliveryInvariant, LogInvariant, Logged
    <2> HIDE DEF m
    <2>3. \A c \in Clients : IsMember(c, r) /\ m.content >= joined[c][r] => Among(m, held[c][r])
        BY <1>2, <2>1, <2>2 DEF Carried
    <2> QED BY <2>2, <2>3 DEF m
<1>7. LogInvariant'
    BY <1>1, <1>6 DEF LogInvariant, Logged, Among, IsMember
<1> QED BY <1>4, <1>5, <1>7 DEF DeliveryInvariant

\* A client comes in or goes out: it holds nothing of the room, and what the
\* log has is older than its coming in.  The others are due what they were due.
LEMMA MembershipChanges ==
    ASSUME DeliveryInvariant, WorldInvariant', NEW c \in Clients, NEW r \in Rooms,
           PutRoom(c, r), UNCHANGED <<pending, sent, audience>>,
           joined' \in [Clients -> [Rooms -> Nat]],
           epochs'[c][r] # NoRoom => joined'[c][r] = sent,
           \A d \in Clients, q \in Rooms : ~(d = c /\ q = r) =>
               /\ joined'[d][q] = joined[d][q]
               /\ epochs'[d][q] # NoRoom => IsMember(d, q),
           \A q \in Rooms : q # r => server_rooms'[q] = server_rooms[q],
           server_rooms'[r] # NoRoom =>
               \/ server_rooms'[r].messages = <<>>
               \/ /\ server_rooms[r] # NoRoom
                  /\ server_rooms'[r].messages = server_rooms[r].messages
    PROVE  DeliveryInvariant'
<1>1. /\ messages \in HeldType
      /\ sent \in Nat
    BY DEF DeliveryInvariant, QueueInvariant, HeldType, WorldInvariant, TypeOK
<1>2. /\ messages' \in HeldType
      /\ messages'[c][r] = <<>>
      /\ \A d \in Clients, q \in Rooms : ~(d = c /\ q = r) => messages'[d][q] = messages[d][q]
    <2>1. <<>> \in Seq(ModelMessage)
        BY EmptySeq
    <2> QED BY <1>1, <2>1 DEF PutRoom, HeldType
<1>3. Len(messages'[c][r]) = 0
    BY <1>2, EmptySeq
<1>4. QueueInvariant'
    BY <1>2 DEF DeliveryInvariant, QueueInvariant, HeldType
<1>5. HeldInvariant(messages, 0)'
    <2> SUFFICES ASSUME NEW d \in Clients, NEW q \in Rooms
                 PROVE  /\ Ordered(messages'[d][q])
                        /\ \A i \in 1..Len(messages'[d][q]) :
                              /\ messages'[d][q][i].content < sent
                              /\ d \in audience[messages'[d][q][i].content + 1]
                              /\ \A l \in (0 + 1)..Len(pending) :
                                    messages'[d][q][i].content < pending[l].message.content
        BY DEF HeldInvariant, Ordered
    <2>1. CASE d = c /\ q = r
        BY <1>3, <2>1 DEF Ordered
    <2>2. CASE ~(d = c /\ q = r)
        <3>1. messages'[d][q] = messages[d][q]
            BY <1>2, <2>2
        <3> QED BY <3>1 DEF DeliveryInvariant, HeldInvariant
    <2> QED BY <2>1, <2>2
<1>6. ASSUME NEW q \in Rooms, server_rooms'[q] # NoRoom,
             NEW i \in 1..Len(server_rooms'[q].messages)
      PROVE  Logged(q, i)'
    <2>1. /\ server_rooms[q] # NoRoom
          /\ server_rooms'[q].messages = server_rooms[q].messages
        <3>1. Len(<<>>) = 0
            BY EmptySeq
        <3> QED BY <1>6, <3>1
    <2> DEFINE m == server_rooms[q].messages[i]
    <2>2. /\ m.content < sent
          /\ \A d \in Clients : IsMember(d, q) /\ m.content >= joined[d][q] =>
                \/ Among(m, messages[d][q])
                \/ \E k \in 1..Len(pending) : Due(k, d, q) /\ pending[k].message = m
        BY <1>6, <2>1 DEF DeliveryInvariant, LogInvariant, Logged
    <2>3. m.content \in Nat
        <3>1. server_rooms[q].messages \in Seq(ModelMessage)
            BY <2>1, RoomFacts, RoomFields DEF DeliveryInvariant
        <3>2. m \in ModelMessage
            BY <1>6, <2>1, <3>1, ElementOfSeq
        <3> QED BY <3>2 DEF ModelMessage
    <2>4. server_rooms'[q].messages[i] = m
        BY <2>1
    <2> HIDE DEF m
    <2>5. ASSUME NEW d \in Clients, epochs'[d][q] # NoRoom, m.content >= joined'[d][q]
          PROVE  \/ Among(m, messages'[d][q])
                 \/ \E k \in 1..Len(pending) : Due(k, d, q) /\ pending[k].message = m
        <3>1. ~(d = c /\ q = r)
            BY <1>1, <2>2, <2>3, <2>5
        <3>2. IsMember(d, q) /\ joined'[d][q] = joined[d][q] /\ messages'[d][q] = messages[d][q]
            BY <1>2, <2>5, <3>1
        <3> QED BY <2>2, <2>5, <3>2
    <2> QED BY <2>2, <2>4, <2>5 DEF Logged, Among, Due, IsMember
<1>7. LogInvariant'
    BY <1>6 DEF LogInvariant
<1> QED BY <1>4, <1>5, <1>7 DEF DeliveryInvariant

\* What the invariant says of joined.
LEMMA JoinedType ==
    ASSUME DeliveryInvariant
    PROVE  /\ sent \in Nat
           /\ joined \in [Clients -> [Rooms -> Nat]]
           /\ epochs \in [Clients -> [Rooms -> Nat \cup {NoRoom}]]
           /\ server_rooms \in [Rooms -> ServerRoomState \cup {NoRoom}]
BY DEF DeliveryInvariant, QueueInvariant, WorldInvariant, TypeOK

\* A client that creates a room, or joins one by creating it.
LEMMA CreateKeepsDeliveries ==
    ASSUME DeliveryInvariant, WorldInvariant', NEW c \in Ids, NEW r \in Rooms, CreateRoom(c, r)
    PROVE  DeliveryInvariant'
<1>1. CASE c \in Strangers \/ IsMember(c, r)
    BY <1>1, NothingDelivered, ModelWorldAssumption DEF CreateRoom, Refuse
<1>2. CASE c \in Clients /\ ~IsMember(c, r)
    <2>1. /\ epochs' = [epochs EXCEPT ![c][r] = 0]
          /\ PutRoom(c, r)
          /\ server_rooms' = [server_rooms EXCEPT ![r] = RoomWith(server_rooms[r], c)]
          /\ joined' = [joined EXCEPT ![c][r] = sent]
          /\ UNCHANGED <<pending, sent, audience>>
        BY <1>2, ModelWorldAssumption DEF CreateRoom
    <2>2. /\ joined' \in [Clients -> [Rooms -> Nat]]
          /\ joined'[c][r] = sent
          /\ \A d \in Clients, q \in Rooms : ~(d = c /\ q = r) =>
                /\ joined'[d][q] = joined[d][q]
                /\ epochs'[d][q] = epochs[d][q]
        BY <1>2, <2>1, JoinedType
    <2>3. \A q \in Rooms : q # r => server_rooms'[q] = server_rooms[q]
        BY <2>1, JoinedType
    <2>4. \/ server_rooms'[r].messages = <<>>
          \/ /\ server_rooms[r] # NoRoom
             /\ server_rooms'[r].messages = server_rooms[r].messages
        <3>1. server_rooms'[r] = RoomWith(server_rooms[r], c)
            BY <2>1, JoinedType
        <3>2. CASE server_rooms[r] = NoRoom
            BY <3>1, <3>2 DEF RoomWith, NewServerRoom
        <3>3. CASE server_rooms[r] # NoRoom
            BY <3>1, <3>3, JoinedType DEF RoomWith, ServerRoomState
        <3> QED BY <3>2, <3>3
    <2> QED BY <1>2, <2>1, <2>2, <2>3, <2>4, MembershipChanges DEF IsMember
<1> QED BY <1>1, <1>2 DEF Ids

\* A departure: those that stay keep the log they had.
LEMMA DepartKeepsDeliveries ==
    ASSUME DeliveryInvariant, WorldInvariant', NEW c \in Clients, NEW r \in Rooms,
           IsMember(c, r), Depart(c, r)
    PROVE  DeliveryInvariant'
<1>1. /\ epochs' = Advanced(c, r, NoRoom)
      /\ PutRoom(c, r)
      /\ server_rooms' = [server_rooms EXCEPT ![r] = RoomWithout(server_rooms[r], c)]
      /\ UNCHANGED <<pending, sent, joined, audience>>
    BY DEF Depart, historyVars
<1>2. /\ epochs'[c][r] = NoRoom
      /\ \A d \in Clients, q \in Rooms : ~(d = c /\ q = r) =>
            (epochs'[d][q] # NoRoom => IsMember(d, q))
    <2>1. WorldInvariant
        BY DEF DeliveryInvariant
    <2>2. /\ \A d \in Clients, q \in Rooms : q # r => epochs'[d][q] = epochs[d][q]
          /\ epochs'[c][r] = NoRoom
          /\ \A d \in Clients : d # c => (epochs'[d][r] # NoRoom <=> IsMember(d, r))
        BY <1>1, <2>1, AdvancedEpochs
    <2> QED BY <2>2 DEF IsMember
<1>3. \A q \in Rooms : q # r => server_rooms'[q] = server_rooms[q]
    BY <1>1, JoinedType
<1>4. ASSUME server_rooms'[r] # NoRoom
      PROVE  /\ server_rooms[r] # NoRoom
             /\ server_rooms'[r].messages = server_rooms[r].messages
    <2>1. server_rooms'[r] = RoomWithout(server_rooms[r], c)
        BY <1>1, JoinedType
    <2>2. /\ server_rooms[r] # NoRoom
          /\ server_rooms'[r] = Moved(server_rooms[r], server_rooms[r].members \ {c})
        BY <1>4, <2>1 DEF RoomWithout
    <2>3. server_rooms[r] \in ServerRoomState
        BY <2>2, JoinedType
    <2>4. server_rooms[r].members \ {c} \in SUBSET Clients
        BY <2>3, RoomFields
    <2> QED BY <2>2, <2>3, <2>4, RoomMoves
<1> QED BY <1>1, <1>2, <1>3, <1>4, JoinedType, MembershipChanges

\* An invitation: the invitee comes in after all of the log.
LEMMA InviteKeepsDeliveries ==
    ASSUME DeliveryInvariant, WorldInvariant', NEW c \in Clients, NEW d \in Clients,
           NEW r \in Rooms, IsMember(c, r), ~IsMember(d, r), Invite(d, r)
    PROVE  DeliveryInvariant'
<1>1. /\ epochs' = Advanced(d, r, NewEpoch(r))
      /\ PutRoom(d, r)
      /\ server_rooms' = [server_rooms EXCEPT ![r] = RoomAdding(server_rooms[r], d)]
      /\ joined' = [joined EXCEPT ![d][r] = sent]
      /\ UNCHANGED <<pending, sent, audience>>
    BY DEF Invite
<1>2. server_rooms[r] # NoRoom /\ server_rooms[r] \in ServerRoomState
    BY JoinedType DEF DeliveryInvariant, WorldInvariant, MembersAgree
<1>3. NewEpoch(r) \in Nat
    BY <1>2, RoomFields DEF NewEpoch
<1>4. \A e \in Clients, q \in Rooms : ~(e = d /\ q = r) =>
            (epochs'[e][q] # NoRoom => IsMember(e, q))
    BY <1>1, <1>3, AdvancedEpochs DEF DeliveryInvariant, IsMember
<1>5. /\ joined' \in [Clients -> [Rooms -> Nat]]
      /\ joined'[d][r] = sent
      /\ \A e \in Clients, q \in Rooms : ~(e = d /\ q = r) => joined'[e][q] = joined[e][q]
    BY <1>1, JoinedType
<1>6. \A q \in Rooms : q # r => server_rooms'[q] = server_rooms[q]
    BY <1>1, JoinedType
<1>7. server_rooms'[r].messages = server_rooms[r].messages
    <2>1. server_rooms'[r] = Moved(server_rooms[r], server_rooms[r].members \cup {d})
        BY <1>1, <1>2, JoinedType DEF RoomAdding
    <2>2. server_rooms[r].members \cup {d} \in SUBSET Clients
        BY <1>2, RoomFields
    <2> QED BY <1>2, <2>1, <2>2, RoomMoves
<1> QED BY <1>1, <1>2, <1>4, <1>5, <1>6, <1>7, MembershipChanges

\* A message the server accepts is the youngest of all, is due to every member,
\* and its audience is recorded.
LEMMA AcceptKeepsDeliveries ==
    ASSUME DeliveryInvariant, WorldInvariant', NEW c \in Clients, NEW r \in Rooms,
           server_rooms[r] # NoRoom, Accept(c, r)
    PROVE  DeliveryInvariant'
<1> DEFINE room == server_rooms[r]
           m    == [sender |-> c, content |-> sent,
                    log_index |-> room.next_log_index, epoch |-> room.epoch]
           p    == [room |-> r, message |-> m, recipients |-> Recipients(room)]
           n    == Len(pending)
<1>1. /\ server_rooms' = [server_rooms EXCEPT ![r] = RoomLogging(room, m)]
      /\ pending' = Append(pending, p)
      /\ sent' = sent + 1
      /\ audience' = Append(audience, room.members)
      /\ UNCHANGED <<epochs, messages, joined>>
    BY DEF Accept
<1>2. /\ room \in ServerRoomState
      /\ sent \in Nat
      /\ room.members \in SUBSET Clients
      /\ room.messages \in Seq(ModelMessage)
      /\ room.next_log_index \in Nat
      /\ room.epoch \in Nat
    BY JoinedType, RoomFields
<1>3. /\ m \in ModelMessage
      /\ m.content = sent
      /\ p \in PendingMessage
      /\ p.room = r
      /\ p.message = m
      /\ p.recipients = room.members
    BY <1>2 DEF ModelMessage, PendingMessage, Recipients
<1>4. server_rooms'[r].messages = Append(room.messages, m)
    <2>1. server_rooms'[r] = RoomLogging(room, m)
        BY <1>1, JoinedType
    <2> HIDE DEF m
    <2> QED BY <1>2, <2>1 DEF RoomLogging, ServerRoomState
<1> HIDE DEF m, p, room
<1>5. /\ n \in Nat
      /\ Len(pending') = n + 1
      /\ \A k \in 1..n : pending'[k] = pending[k]
      /\ pending'[n + 1] = p
    <2>1. pending \in Seq(PendingMessage)
        BY DEF DeliveryInvariant, WorldInvariant, TypeOK
    <2> QED BY <1>1, <1>3, <2>1, AppendProperties, LenProperties
<1>6. /\ audience' \in Seq(SUBSET Clients)
      /\ Len(audience') = sent'
      /\ \A i \in 1..sent : audience'[i] = audience[i]
      /\ audience'[sent + 1] = room.members
    <2>1. audience \in Seq(SUBSET Clients) /\ Len(audience) = sent
        BY DEF DeliveryInvariant, QueueInvariant
    <2> QED BY <1>1, <1>2, <2>1, AppendProperties
<1>7. \A k \in 1..(n + 1) : k \in 1..n \/ k = n + 1
    BY <1>5
<1>8. \A k \in 1..n :
          /\ pending[k].message.content \in Nat
          /\ pending[k].message.content < sent
          /\ pending[k].recipients = audience[pending[k].message.content + 1]
          /\ \A l \in 1..(k - 1) :
                pending[l].message.content < pending[k].message.content
    BY QueueEntries DEF DeliveryInvariant, QueueInvariant
<1>9. ASSUME NEW k \in 1..(n + 1)
      PROVE  /\ pending'[k].message.content < sent + 1
             /\ pending'[k].recipients = audience'[pending'[k].message.content + 1]
             /\ \A l \in 1..(k - 1) :
                   pending'[l].message.content < pending'[k].message.content
    <2>1. CASE k \in 1..n
        <3>1. pending[k].message.content + 1 \in 1..sent
            BY <1>2, <1>8, <2>1
        <3>2. \A l \in 1..(k - 1) : pending'[l] = pending[l]
            BY <1>5, <2>1
        <3>3. pending'[k] = pending[k]
            BY <1>5, <2>1
        <3>4. \A l \in 1..(k - 1) :
                  pending'[l].message.content < pending'[k].message.content
            BY <1>8, <2>1, <3>2, <3>3
        <3>5. pending'[k].message.content < sent + 1
            BY <1>2, <1>8, <2>1, <3>3
        <3>6. pending'[k].recipients = audience'[pending'[k].message.content + 1]
            BY <1>6, <1>8, <2>1, <3>1, <3>3
        <3> QED BY <3>4, <3>5, <3>6
    <2>2. CASE k = n + 1
        <3>1. \A l \in 1..(k - 1) : l \in 1..n /\ pending'[l] = pending[l]
            BY <1>5, <2>2
        <3>2. pending'[k] = p
            BY <1>5, <2>2
        <3>3. \A l \in 1..(k - 1) :
                  pending'[l].message.content < pending'[k].message.content
            BY <1>3, <1>8, <3>1, <3>2
        <3>4. pending'[k].message.content < sent + 1
            BY <1>2, <1>3, <3>2
        <3>5. pending'[k].recipients = audience'[pending'[k].message.content + 1]
            BY <1>3, <1>6, <3>2
        <3> QED BY <3>3, <3>4, <3>5
    <2> QED BY <1>7, <2>1, <2>2
<1>10. QueueInvariant'
    BY <1>1, <1>5, <1>6, <1>9 DEF DeliveryInvariant, QueueInvariant
<1>11. ASSUME NEW d \in Clients, NEW q \in Rooms
       PROVE  /\ Ordered(messages[d][q])
              /\ \A i \in 1..Len(messages[d][q]) :
                    /\ messages[d][q][i].content < sent + 1
                    /\ d \in audience'[messages[d][q][i].content + 1]
                    /\ \A l \in (0 + 1)..(n + 1) :
                          messages[d][q][i].content < pending'[l].message.content
    <2> DEFINE got == messages[d][q]
    <2>1. /\ Ordered(got)
          /\ \A i \in 1..Len(got) :
                /\ got[i].content < sent
                /\ d \in audience[got[i].content + 1]
                /\ \A l \in (0 + 1)..n : got[i].content < pending[l].message.content
        BY DEF DeliveryInvariant, HeldInvariant
    <2>2. \A i \in 1..Len(got) : got[i].content \in Nat
        <3>1. got \in Seq(ModelMessage)
            BY DEF DeliveryInvariant, QueueInvariant
        <3>2. \A i \in 1..Len(got) : got[i] \in ModelMessage
            BY <3>1, ElementOfSeq
        <3> QED BY <3>2 DEF ModelMessage
    <2> HIDE DEF got
    <2>3. ASSUME NEW i \in 1..Len(got)
          PROVE  /\ got[i].content < sent + 1
                 /\ d \in audience'[got[i].content + 1]
                 /\ \A l \in (0 + 1)..(n + 1) : got[i].content < pending'[l].message.content
        <3>1. got[i].content + 1 \in 1..sent /\ got[i].content < sent + 1
            BY <1>2, <2>1, <2>2
        <3>2. d \in audience'[got[i].content + 1]
            BY <1>6, <2>1, <3>1
        <3>3. ASSUME NEW l \in (0 + 1)..(n + 1)
              PROVE  got[i].content < pending'[l].message.content
            <4>1. CASE l \in 1..n
                BY <1>5, <2>1, <4>1
            <4>2. CASE l = n + 1
                BY <1>3, <1>5, <2>1, <4>2
            <4> QED BY <1>7, <4>1, <4>2
        <3> QED BY <3>1, <3>2, <3>3
    <2> QED BY <2>1, <2>3 DEF got
<1>12. HeldInvariant(messages, 0)'
    BY <1>1, <1>5, <1>11 DEF HeldInvariant, Ordered
<1>13. ASSUME NEW q \in Rooms, server_rooms'[q] # NoRoom,
              NEW i \in 1..Len(server_rooms'[q].messages)
       PROVE  Logged(q, i)'
    <2>1. CASE \/ q # r
               \/ i \in 1..Len(room.messages)
        <3>1. /\ server_rooms[q] # NoRoom
              /\ i \in 1..Len(server_rooms[q].messages)
              /\ server_rooms'[q].messages[i] = server_rooms[q].messages[i]
            <4>1. CASE q # r
                BY <1>1, <1>13, <4>1, JoinedType
            <4>2. CASE q = r
                BY <1>2, <1>3, <1>4, <2>1, <4>2, AppendProperties DEF room
            <4> QED BY <4>1, <4>2
        <3> DEFINE x == server_rooms[q].messages[i]
        <3>2. /\ x.content < sent
              /\ \A d \in Clients : IsMember(d, q) /\ x.content >= joined[d][q] =>
                    \/ Among(x, messages[d][q])
                    \/ \E k \in 1..n : Due(k, d, q) /\ pending[k].message = x
            BY <3>1 DEF DeliveryInvariant, LogInvariant, Logged
        <3>3. x.content \in Nat
            <4>1. server_rooms[q].messages \in Seq(ModelMessage)
                BY <3>1, JoinedType, RoomFields
            <4>2. x \in ModelMessage
                BY <3>1, <4>1, ElementOfSeq
            <4> QED BY <4>2 DEF ModelMessage
        <3>4. server_rooms'[q].messages[i] = x
            BY <3>1
        <3> HIDE DEF x
        <3>5. x.content < sent'
            BY <1>1, <1>2, <3>2, <3>3
        <3>6. \A k \in 1..n : k \in 1..Len(pending') /\ pending'[k] = pending[k]
            BY <1>5
        <3>7. ASSUME NEW d \in Clients, IsMember(d, q), x.content >= joined[d][q]
              PROVE  \/ Among(x, messages[d][q])
                     \/ \E k \in 1..Len(pending') :
                           /\ pending'[k].room = q /\ d \in pending'[k].recipients
                           /\ pending'[k].message = x
            <4> HIDE DEF n
            <4> QED BY <3>2, <3>6, <3>7 DEF Due
        <3> QED BY <1>1, <3>4, <3>5, <3>7 DEF Logged, Among, Due, IsMember
    <2>2. CASE q = r /\ i \notin 1..Len(room.messages)
        <3>1. server_rooms'[q].messages[i] = m
            <4>1. /\ Len(Append(room.messages, m)) = Len(room.messages) + 1
                  /\ Append(room.messages, m)[Len(room.messages) + 1] = m
                BY <1>2, <1>3, AppendProperties
            <4>2. Len(room.messages) \in Nat
                BY <1>2, LenProperties
            <4>3. i = Len(room.messages) + 1
                BY <1>4, <2>2, <4>1, <4>2
            <4> QED BY <1>4, <2>2, <4>1, <4>3
        <3>2. m.content < sent'
            BY <1>1, <1>2, <1>3
        <3>3. n + 1 \in 1..Len(pending')
            BY <1>5
        <3>4. \A d \in Clients : IsMember(d, r) =>
                  /\ pending'[n + 1].room = r /\ d \in pending'[n + 1].recipients
                  /\ pending'[n + 1].message = m
            BY <1>3, <1>5 DEF DeliveryInvariant, WorldInvariant, MembersAgree, room
        <3>5. \A d \in Clients : IsMember(d, r) =>
                  \E k \in 1..Len(pending') :
                      /\ pending'[k].room = r /\ d \in pending'[k].recipients
                      /\ pending'[k].message = m
            BY <3>3, <3>4
        <3> QED BY <1>1, <2>2, <3>1, <3>2, <3>5 DEF Logged, Due, IsMember
    <2> QED BY <2>1, <2>2
<1>14. LogInvariant'
    BY <1>13 DEF LogInvariant
<1> QED BY <1>10, <1>12, <1>14 DEF DeliveryInvariant

\* Every step keeps the invariant of the deliveries.
LEMMA NextKeepsDeliveries ==
    ASSUME DeliveryInvariant, [Next]_vars
    PROVE  DeliveryInvariant'
<1>1. WorldInvariant'
    BY NextKeepsInvariant DEF DeliveryInvariant
<1>2. ASSUME NEW e, Refuse(e)
      PROVE  DeliveryInvariant'
    BY <1>1, <1>2, NothingDelivered DEF Refuse
<1>3. ASSUME NEW c \in Ids, NEW r \in Rooms, CreateRoom(c, r)
      PROVE  DeliveryInvariant'
    BY <1>1, <1>3, CreateKeepsDeliveries
<1>4. ASSUME NEW c \in Ids, NEW r \in Rooms, SendMessage(c, r)
      PROVE  DeliveryInvariant'
    BY <1>1, <1>2, <1>4, AcceptKeepsDeliveries DEF SendMessage, ProcessMessage
<1>5. ASSUME NEW c \in Ids, NEW r \in Rooms, LeaveRoom(c, r)
      PROVE  DeliveryInvariant'
    BY <1>1, <1>2, <1>5, DepartKeepsDeliveries DEF LeaveRoom
<1>6. ASSUME NEW c \in Ids, NEW d \in Ids, NEW r \in Rooms, AddMember(c, d, r)
      PROVE  DeliveryInvariant'
    BY <1>1, <1>2, <1>6, InviteKeepsDeliveries DEF AddMember
<1>7. ASSUME NEW c \in Ids, NEW d \in Ids, NEW r \in Rooms, RemoveMember(c, d, r)
      PROVE  DeliveryInvariant'
    BY <1>1, <1>2, <1>7, DepartKeepsDeliveries DEF RemoveMember
<1>8. CASE DeliverPending
    BY <1>1, <1>8, DeliverKeepsDeliveries
<1>9. CASE AdvanceTime
    BY <1>1, <1>9, NothingDelivered DEF AdvanceTime
<1>10. CASE UNCHANGED vars
    BY <1>1, <1>10, NothingDelivered DEF vars
<1> QED BY <1>3, <1>4, <1>5, <1>6, <1>7, <1>8, <1>9, <1>10 DEF Next

\* The invariant of the deliveries holds throughout.
THEOREM DeliveryInvariantHolds == Spec => []DeliveryInvariant
<1>1. Init => DeliveryInvariant
    <2> SUFFICES ASSUME Init PROVE DeliveryInvariant
        OBVIOUS
    <2>1. WorldInvariant
        BY InitialWorld
    <2>2. <<>> \in Seq(ModelMessage) /\ <<>> \in Seq(SUBSET Clients) /\ Len(<<>>) = 0
        BY EmptySeq
    <2>3. QueueInvariant
        BY <2>2 DEF Init, QueueInvariant
    <2>4. \A c \in Clients, r \in Rooms : messages[c][r] = <<>>
        BY DEF Init
    <2>5. HeldInvariant(messages, 0)
        BY <2>2, <2>4 DEF HeldInvariant, Ordered
    <2>6. LogInvariant
        BY DEF Init, LogInvariant
    <2> QED BY <2>1, <2>3, <2>5, <2>6 DEF DeliveryInvariant
<1> QED BY <1>1, NextKeepsDeliveries, PTL DEF Spec

\* ReceivedInOrder for every world: apply_deliver_pending hands the queue out in
\* the order of acceptance, and whatever a client still holds of a room is older
\* than the queue.
THEOREM DeliveredInAcceptedOrder == Spec => []ReceivedInOrder
<1>1. DeliveryInvariant => ReceivedInOrder
    BY DEF DeliveryInvariant, HeldInvariant, Ordered, ReceivedInOrder
<1> QED BY <1>1, DeliveryInvariantHolds, PTL

\* MembersGetTheirs for every world: no message accepted since a member came in
\* is lost to it, and none reaches a client that was no member when it was
\* accepted, whoever leaves and comes back before the queue is flushed.
THEOREM NothingLostNothingLeaked == Spec => []MembersGetTheirs
<1>1. ASSUME DeliveryInvariant
      PROVE  MembersGetTheirs
    <2> SUFFICES ASSUME NEW c \in Clients, NEW r \in Rooms, IsMember(c, r)
                 PROVE  /\ \A i \in 1..Len(server_rooms[r].messages) :
                              server_rooms[r].messages[i].content >= joined[c][r] =>
                                 server_rooms[r].messages[i] \in
                                    {messages[c][r][j] : j \in 1..Len(messages[c][r])}
                                    \cup {pending[k].message : k \in
                                            {k \in 1..Len(pending) :
                                                pending[k].room = r /\ c \in pending[k].recipients}}
                        /\ \A m \in {messages[c][r][j] : j \in 1..Len(messages[c][r])} :
                              c \in audience[m.content + 1]
        BY DEF MembersGetTheirs
    <2>1. server_rooms[r] # NoRoom
        BY <1>1 DEF DeliveryInvariant, WorldInvariant, MembersAgree
    <2>2. ASSUME NEW i \in 1..Len(server_rooms[r].messages),
                 server_rooms[r].messages[i].content >= joined[c][r]
          PROVE  \/ \E j \in 1..Len(messages[c][r]) :
                       messages[c][r][j] = server_rooms[r].messages[i]
                 \/ \E k \in 1..Len(pending) :
                       /\ pending[k].room = r /\ c \in pending[k].recipients
                       /\ pending[k].message = server_rooms[r].messages[i]
        BY <1>1, <2>1, <2>2 DEF DeliveryInvariant, LogInvariant, Logged, Among, Due
    <2>3. \A j \in 1..Len(messages[c][r]) : c \in audience[messages[c][r][j].content + 1]
        BY <1>1 DEF DeliveryInvariant, HeldInvariant
    <2> QED BY <2>2, <2>3
<1> QED BY <1>1, DeliveryInvariantHolds, PTL
=============================================================================
