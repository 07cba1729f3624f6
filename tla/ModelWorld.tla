----------------------------- MODULE ModelWorld -----------------------------
(***************************************************************************)
(* The reference model that the property tests compare the implementation  *)
(* with (lockframe-harness/src/model): clients that know their rooms and   *)
(* what they received, and a server that numbers messages and keeps them   *)
(* until DeliverPending hands them out.  Operations are atomic and come in *)
(* any order.  next_send_index of a client room and the creator of a       *)
(* server room are left out: no operation of the world reads them.         *)
(***************************************************************************)
EXTENDS Integers, Sequences

CONSTANTS
    Clients,        \* the clients of the world
    Strangers,      \* ids an operation may name that no client has
    Rooms,
    NoRoom,         \* the room is not in a map
    MaxEpoch,       \* bound: epochs
    MaxSent         \* bound: messages accepted

Ids == Clients \cup Strangers

\* The content of a message is named by the number of messages accepted before
\* it, so that no two are alike.
ModelMessage == [sender : Clients, content : Nat, log_index : Nat, epoch : Nat]

ServerRoomState ==
    [members : SUBSET Clients, messages : Seq(ModelMessage),
     next_log_index : Nat, epoch : Nat]

PendingMessage ==
    [room : Rooms, message : ModelMessage, recipients : SUBSET Clients]

ASSUME ModelWorldAssumption ==
    /\ Clients \cap Strangers = {}
    /\ NoRoom \notin Nat \cup ServerRoomState
    /\ MaxEpoch \in Nat
    /\ MaxSent \in Nat

VARIABLES
    epochs,         \* client -> room -> ModelRoomState.epoch, or NoRoom
    messages,       \* client -> room -> ModelRoomState.messages
    server_rooms,   \* room -> its ServerRoomState, or NoRoom
    pending,        \* pending_deliveries
    result,         \* what the last operation returned
    \* History, read by the bounds and the properties only.
    sent,           \* number of messages accepted
    joined,         \* client -> room -> value of sent when it last came in
    audience        \* content + 1 -> the members when the message was accepted

historyVars == <<sent, joined, audience>>
vars == <<epochs, messages, server_rooms, pending, result, historyVars>>

OperationError ==
    {"RoomAlreadyExists", "RoomNotFound", "NotMember", "InvalidClient",
     "AlreadyMember", "CannotRemoveSelf"}

TypeOK ==
    /\ epochs \in [Clients -> [Rooms -> Nat \cup {NoRoom}]]
    /\ server_rooms \in [Rooms -> ServerRoomState \cup {NoRoom}]
    /\ pending \in Seq(PendingMessage)
    /\ result \in OperationError \cup {"Ok"}
    /\ sent \in Nat

Init ==
    /\ epochs = [c \in Clients |-> [r \in Rooms |-> NoRoom]]
    /\ messages = [c \in Clients |-> [r \in Rooms |-> <<>>]]
    /\ server_rooms = [r \in Rooms |-> NoRoom]
    /\ pending = <<>>
    /\ result = "Ok"
    /\ sent = 0
    /\ joined = [c \in Clients |-> [r \in Rooms |-> 0]]
    /\ audience = <<>>

-----------------------------------------------------------------------------
(* The client and the server maps.                                         *)

IsMember(c, r) == epochs[c][r] # NoRoom

NewServerRoom(c) ==
    [members |-> {c}, messages |-> <<>>, next_log_index |-> 0, epoch |-> 0]

\* ModelServer::create_room: an existing room is joined.
RoomWith(room, c) ==
    IF room = NoRoom THEN NewServerRoom(c)
    ELSE [room EXCEPT !.members = @ \cup {c}]

\* advance_epoch of a room whose members change.
Moved(room, members) == [room EXCEPT !.members = members, !.epoch = @ + 1]

\* advance_epoch, then ModelServer::add_member.
RoomAdding(room, c) ==
    IF room = NoRoom THEN NoRoom ELSE Moved(room, room.members \cup {c})

\* The log takes the message.
RoomLogging(room, message) ==
    [room EXCEPT !.messages = Append(@, message), !.next_log_index = @ + 1]

\* c's map gets a new ModelRoomState for r, or loses the one it has.
PutRoom(c, r) == messages' = [messages EXCEPT ![c][r] = <<>>]

\* The epochs when c has the given one in r, and every other member of r has
\* done advance_epoch.
Advanced(c, r, epoch) ==
    [d \in Clients |-> [q \in Rooms |->
        IF q # r THEN epochs[d][q]
        ELSE IF d = c THEN epoch
        ELSE IF IsMember(d, r) THEN epochs[d][r] + 1
        ELSE NoRoom]]

\* ModelServer::remove_member, then advance_epoch: a room without members goes.
RoomWithout(room, c) ==
    IF room = NoRoom \/ room.members \subseteq {c} THEN NoRoom
    ELSE Moved(room, room.members \ {c})

\* The operation returns an error and changes nothing.
Refuse(error) ==
    /\ result' = error
    /\ UNCHANGED <<epochs, messages, server_rooms, pending, historyVars>>

-----------------------------------------------------------------------------
(* The operations.                                                         *)

\* Mutant of CreateRoom: a room the server has already gets no further member.
CreateRoom_NotAdded(c, r) ==
    \/ c \in Strangers /\ Refuse("InvalidClient")
    \/ c \in Clients /\ IsMember(c, r) /\ Refuse("RoomAlreadyExists")
    \/ /\ c \in Clients
       /\ ~IsMember(c, r)
       /\ result' = "Ok"
       /\ epochs' = [epochs EXCEPT ![c][r] = 0]
       /\ PutRoom(c, r)
       /\ server_rooms' = [server_rooms EXCEPT ![r] =
             IF @ = NoRoom THEN NewServerRoom(c) ELSE @]
       /\ joined' = [joined EXCEPT ![c][r] = sent]
       /\ UNCHANGED <<pending, sent, audience>>

\* A room that exists on the server is joined, with epoch 0 on the client.
CreateRoom(c, r) ==
    \/ c \in Strangers /\ Refuse("InvalidClient")
    \/ c \in Clients /\ IsMember(c, r) /\ Refuse("RoomAlreadyExists")
    \/ /\ c \in Clients
       /\ ~IsMember(c, r)
       /\ result' = "Ok"
       /\ epochs' = [epochs EXCEPT ![c][r] = 0]
       /\ PutRoom(c, r)
       /\ server_rooms' = [server_rooms EXCEPT ![r] = RoomWith(@, c)]
       /\ joined' = [joined EXCEPT ![c][r] = sent]
       /\ UNCHANGED <<pending, sent, audience>>

\* The members when the message is sent.
Recipients(room) == room.members

\* ModelServer::process_message accepts.
Accept(c, r) ==
    LET room    == server_rooms[r]
        message == [sender |-> c, content |-> sent,
                    log_index |-> room.next_log_index, epoch |-> room.epoch]
    IN  /\ sent < MaxSent
        /\ server_rooms' = [server_rooms EXCEPT ![r] = RoomLogging(@, message)]
        /\ pending' = Append(pending, [room       |-> r,
                                       message    |-> message,
                                       recipients |-> Recipients(room)])
        /\ result' = "Ok"
        /\ sent' = sent + 1
        /\ audience' = Append(audience, room.members)
        /\ UNCHANGED <<epochs, messages, joined>>

\* ModelServer::process_message: the server looks at its own map.
ProcessMessage(c, r) ==
    IF server_rooms[r] = NoRoom THEN Refuse("RoomNotFound")
    ELSE IF c \notin server_rooms[r].members THEN Refuse("NotMember")
    ELSE Accept(c, r)

SendMessage(c, r) ==
    \/ c \in Strangers /\ Refuse("InvalidClient")
    \/ c \in Clients /\ ~IsMember(c, r) /\ Refuse("NotMember")
    \/ c \in Clients /\ IsMember(c, r) /\ ProcessMessage(c, r)

\* c goes out of r, by its own will or another's.
Depart(c, r) ==
    /\ server_rooms[r] # NoRoom => server_rooms[r].epoch < MaxEpoch
    /\ epochs' = Advanced(c, r, NoRoom)
    /\ PutRoom(c, r)
    /\ server_rooms' = [server_rooms EXCEPT ![r] = RoomWithout(@, c)]
    /\ result' = "Ok"
    /\ UNCHANGED <<pending, historyVars>>

LeaveRoom(c, r) ==
    \/ c \in Strangers /\ Refuse("InvalidClient")
    \/ c \in Clients /\ ~IsMember(c, r) /\ Refuse("NotMember")
    \/ c \in Clients /\ IsMember(c, r) /\ Depart(c, r)

RemoveMember(c, target, r) ==
    \/ {c, target} \cap Strangers # {} /\ Refuse("InvalidClient")
    \/ c = target /\ c \in Clients /\ Refuse("CannotRemoveSelf")
    \/ /\ c # target
       /\ {c, target} \subseteq Clients
       /\ ~(IsMember(c, r) /\ IsMember(target, r))
       /\ Refuse("NotMember")
    \/ /\ c # target
       /\ {c, target} \subseteq Clients
       /\ IsMember(c, r) /\ IsMember(target, r)
       /\ Depart(target, r)

\* self.server.epoch(room_id) after advance_epoch, or 0.
NewEpoch(r) == IF server_rooms[r] = NoRoom THEN 0 ELSE server_rooms[r].epoch + 1

\* The invitee's epoch is the server's.
Invite(invitee, r) ==
    /\ server_rooms[r] # NoRoom => server_rooms[r].epoch < MaxEpoch
    /\ epochs' = Advanced(invitee, r, NewEpoch(r))
    /\ PutRoom(invitee, r)
    /\ server_rooms' = [server_rooms EXCEPT ![r] = RoomAdding(@, invitee)]
    /\ joined' = [joined EXCEPT ![invitee][r] = sent]
    /\ result' = "Ok"
    /\ UNCHANGED <<pending, sent, audience>>

AddMember(c, invitee, r) ==
    \/ {c, invitee} \cap Strangers # {} /\ Refuse("InvalidClient")
    \/ {c, invitee} \subseteq Clients /\ ~IsMember(c, r) /\ Refuse("NotMember")
    \/ /\ {c, invitee} \subseteq Clients
       /\ IsMember(c, r) /\ IsMember(invitee, r)
       /\ Refuse("AlreadyMember")
    \/ /\ {c, invitee} \subseteq Clients
       /\ IsMember(c, r) /\ ~IsMember(invitee, r)
       /\ Invite(invitee, r)

\* Mutant of Hand: whoever is a member when the queue is flushed gets it.
Hand_CurrentMembers(p, held) ==
    [c \in Clients |-> [r \in Rooms |->
        IF p.room = r /\ IsMember(c, r) THEN Append(held[c][r], p.message)
        ELSE held[c][r]]]

\* One round of the loop: every recipient that is a member now receives the
\* message.
Hand(p, held) ==
    [c \in Clients |-> [r \in Rooms |->
        IF p.room = r /\ c \in p.recipients /\ IsMember(c, r)
        THEN Append(held[c][r], p.message)
        ELSE held[c][r]]]

\* What the clients hold after k rounds: the queue is handed out in order.
Handed[k \in 0..Len(pending)] ==
    IF k = 0 THEN messages ELSE Hand(pending[k], Handed[k - 1])

ReceiveMessages == messages' = Handed[Len(pending)]

\* Mutant of DeliverPending: the queue is read and not taken.
DeliverPending_Kept ==
    /\ ReceiveMessages
    /\ result' = "Ok"
    /\ UNCHANGED <<epochs, server_rooms, pending, historyVars>>

DeliverPending ==
    /\ ReceiveMessages
    /\ pending' = <<>>
    /\ result' = "Ok"
    /\ UNCHANGED <<epochs, server_rooms, historyVars>>

\* The model does not track time.
AdvanceTime ==
    /\ result' = "Ok"
    /\ UNCHANGED <<epochs, messages, server_rooms, pending, historyVars>>

Next ==
    \/ \E c \in Ids, r \in Rooms :
          \/ CreateRoom(c, r)
          \/ SendMessage(c, r)
          \/ LeaveRoom(c, r)
          \/ \E d \in Ids : AddMember(c, d, r) \/ RemoveMember(c, d, r)
    \/ DeliverPending
    \/ AdvanceTime

Spec == Init /\ [][Next]_vars

-----------------------------------------------------------------------------
(* Properties.                                                             *)

\* Clients and server agree on who is in a room, and no room is empty
\* (prop_model_invariants, in both directions), although one client's
\* operation changes the maps of the server and of another client.
MembersAgree ==
    \A r \in Rooms :
        /\ server_rooms[r] # NoRoom => server_rooms[r].members # {}
        /\ \A c \in Clients :
              IsMember(c, r) <=> server_rooms[r] # NoRoom /\ c \in server_rooms[r].members

\* The log of one room.
SequentialRoom(room) ==
    /\ room.next_log_index = Len(room.messages)
    /\ \A i \in 1..Len(room.messages) :
          /\ room.messages[i].log_index = i - 1
          /\ room.messages[i].epoch <= room.epoch
          /\ \A j \in 1..i : room.messages[j].epoch <= room.messages[i].epoch

\* The log of a room has the indices 0, 1, 2, ... and its epochs never fall.
SequentialLog ==
    \A r \in Rooms : server_rooms[r] # NoRoom => SequentialRoom(server_rooms[r])

\* A client is never ahead of the server.  It may be behind: one that creates a
\* room the server has already starts from epoch 0 and stays that far behind.
EpochsNotAhead ==
    \A c \in Clients, r \in Rooms : IsMember(c, r) /\ server_rooms[r] # NoRoom =>
        epochs[c][r] <= server_rooms[r].epoch

\* The inductive invariant of the world: the maps agree, logs are sequential and
\* no client is ahead, after any sequence of operations.
WorldInvariant == TypeOK /\ MembersAgree /\ SequentialLog /\ EpochsNotAhead

\* A member's message is never refused: the checks process_message makes on the
\* server cannot fail once the client's own has passed.
MemberCanSend ==
    [][\A c \in Clients, r \in Rooms :
          IsMember(c, r) /\ SendMessage(c, r) => result' = "Ok"]_vars

\* What a client holds of a room is in the order it was accepted, and nothing
\* twice, whoever left, came back or created the room again before the queue was
\* flushed.  (Log indices need not grow: messages of a room that was emptied and
\* created again carry indices from 0 and follow those of the old room.)
ReceivedInOrder ==
    \A c \in Clients, r \in Rooms : IsMember(c, r) =>
        LET got == messages[c][r]
        IN  \A i, j \in 1..Len(got) : i < j => got[i].content < got[j].content

\* What is handed out reaches the right clients: of the room's log a member holds,
\* or will be handed, every message accepted since it came in, and it never holds
\* one that was accepted while it was no member.
MembersGetTheirs ==
    \A c \in Clients, r \in Rooms : IsMember(c, r) =>
        LET got   == messages[c][r]
            log   == server_rooms[r].messages
            due   == {k \in 1..Len(pending) :
                         pending[k].room = r /\ c \in pending[k].recipients}
            holds == {got[i] : i \in 1..Len(got)}
        IN  /\ \A i \in 1..Len(log) : log[i].content >= joined[c][r] =>
                   log[i] \in holds \cup {pending[k].message : k \in due}
            /\ \A m \in holds : c \in audience[m.content + 1]
=============================================================================
