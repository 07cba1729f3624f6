------------------------------- MODULE Client -------------------------------
(***************************************************************************)
(* The clients of lockframe-client/src/client.rs around the log of a room:  *)
(* each handler of Client::handle is an action, on the client's rooms and   *)
(* its pending joins.                                                       *)
(*                                                                          *)
(* The log stands for the server and is external: it gives every frame of   *)
(* a room the next index and relays it.  It checks neither epoch nor        *)
(* membership, so it relays more than a RoomManager would.  A client gets a *)
(* numbered frame at any time, in any order, any number of times or never;  *)
(* a sync response brings a contiguous part of the log.                     *)
(*                                                                          *)
(* The caller that executes the client's actions is not part of the         *)
(* repository either.  It fills in the header of a Commit frame, which      *)
(* add_members leaves empty, and passes key packages and Welcomes between   *)
(* clients.  Clients never make Proposal frames, the one kind that          *)
(* handle_frame hands to MLS undistinguished.                               *)
(*                                                                          *)
(* sign_frame_header signs other bytes than validate_signature verifies     *)
(* (module Wire), so no client accepts a message it signed.  Members may    *)
(* be clients of another make, though, and Conforming are those that sign   *)
(* the way header.rs documents; the others are this client throughout.      *)
(***************************************************************************)
EXTENDS SenderKeys, MlsGroup, FiniteSets

CONSTANTS
  Clients,
  Rooms,
  NoRoom,            \* the client is not in the room
  Conforming,        \* the clients whose signatures cover signing_data
  Creators,          \* bound: the clients that create rooms
  Leavers,           \* bound: the clients that leave rooms
  KEYS,              \* bound: the keys each client makes, [Clients -> Nat]
  MAX_COMMITS,       \* bound: the commits made
  MAX_ADDS,          \* bound: the key packages of one AddMembers
  MAX_MESSAGES       \* bound: the messages sent

ASSUME ClientAssumption ==
  /\ \A cs \in {Conforming, Creators, Leavers} : cs \subseteq Clients
  /\ KEYS \in [Clients -> Nat]
  /\ {MAX_COMMITS, MAX_ADDS, MAX_MESSAGES} \subseteq Nat

(* Of SequencesExt the proofs need these alone and would carry all the rest. *)
Last(s) == s[Len(s)]

Front(s) == SubSeq(s, 1, Len(s) - 1)

IsPrefix(s, t) == Len(s) <= Len(t) /\ \A i \in DOMAIN s : s[i] = t[i]

(* A key pair, and what the client keeps of a room.                         *)
Key == [owner : Clients, n : Nat]

CommitRecord == [by : Key, adds : Seq(Key), n : Nat]

Group ==
  [history : Seq(CommitRecord), own : Key,
   pending_commit : CommitRecord \union {NoCommit},
   staged : CommitRecord \union {NoCommit}]

Room ==
  [mls_group : Group,
   sender_keys : [secret : Seq(CommitRecord), epoch : Nat, ratchets : Seq(Generation)],
   my_leaf_index : Nat]

ASSUME NoRoomAssumption == NoRoom \notin Room

VARIABLES
  client,            \* Client::rooms and pending_joins, and every
                     \* DeliverMessage the handlers have returned, with
                     \* the key the client was in the room with
  log,               \* the server's log of each room
  welcomes,          \* the Welcome frames sent
  key_packages,      \* the key packages clients have given away
  minted             \* how many keys each client has made

vars == << client, log, welcomes, key_packages, minted >>

-----------------------------------------------------------------------------
(* A room as CreateRoom, a Welcome or a Commit leaves it: the sender keys   *)
(* are derived from the group's current epoch.                              *)
RoomState(g) ==
  [mls_group |-> g,
   sender_keys |-> InitializeEpoch(g.history, Epoch(g.history), DOMAIN Tree(g.history)),
   my_leaf_index |-> LeafOf(g.history, g.own)]

Member(c, r) == client[c].rooms[r] # NoRoom

Init ==
  /\ client = [c \in Clients |->
                [rooms |-> [r \in Rooms |-> NoRoom], pending_joins |-> <<>>,
                 delivered |-> <<>>]]
  /\ log = [r \in Rooms |-> <<>>]
  /\ welcomes = {}
  /\ key_packages = {}
  /\ minted = [c \in Clients |-> 0]

(* A fresh signature key of c.                                              *)
NewKey(c) == [owner |-> c, n |-> minted[c] + 1]

Mint(c) ==
  /\ minted[c] < KEYS[c]
  /\ minted' = [minted EXCEPT ![c] = @ + 1]

(* The server numbers a frame: its index is its place in the log.           *)
Sequence(r, f) == log' = [log EXCEPT ![r] = Append(@, f)]

-----------------------------------------------------------------------------
(* The frames a client handles.  Each operator returns the client that      *)
(* handling a frame leaves; an error leaves it as far as it had come.       *)
SignFrameHeader(c) == IF c \in Conforming THEN "signing_data" ELSE "first_64"

AppMessage(c, r, key, epoch, m) ==
  [opcode |-> "AppMessage", room |-> r, sender |-> c, key |-> key, epoch |-> epoch,
   signed |-> SignFrameHeader(c), payload |-> m]

CommitFrame(r, parent, commit) ==
  [opcode |-> "Commit", room |-> r, parent |-> parent, commit |-> commit]

(* handle_app_message up to the decryption.                                 *)
Accepts(room, f) ==
  /\ ValidFrame(room.mls_group, f)
  /\ f.payload.leaf \in LeavesOf(room.mls_group.history, f.sender)

HandleAppMessage(cl, f) ==
  LET room == cl.rooms[f.room]
      delivered == IF Decrypts(room.sender_keys, f.payload)
                   THEN << [as |-> room.mls_group.own, frame |-> f] >> ELSE <<>>
  IN  IF room = NoRoom \/ ~Accepts(room, f) THEN cl
      ELSE [cl EXCEPT !.rooms[f.room].sender_keys = AfterDecrypt(@, f.payload),
                      !.delivered = @ \o delivered]

(* Mutant of HandleCommit: the sender keys are not derived again. *)
HandleCommit_KeysKept(cl, f) ==
  LET room == cl.rooms[f.room]
  IN  IF room = NoRoom \/ ~CanProcess(room.mls_group, f.parent, f.commit) THEN cl
      ELSE [cl EXCEPT !.rooms[f.room].mls_group = Merged(@, f.commit)]

(* Mutant of HandleCommit: the error of process_message does not return. *)
HandleCommit_ErrorIgnored(cl, f) ==
  LET g == cl.rooms[f.room].mls_group
  IN  IF cl.rooms[f.room] = NoRoom THEN cl
      ELSE [cl EXCEPT !.rooms[f.room] =
              RoomState(IF CanProcess(g, f.parent, f.commit) THEN Merged(g, f.commit) ELSE g)]

HandleCommit(cl, f) ==
  LET room == cl.rooms[f.room]
  IN  IF room = NoRoom \/ ~CanProcess(room.mls_group, f.parent, f.commit) THEN cl
      ELSE [cl EXCEPT !.rooms[f.room] = RoomState(Merged(room.mls_group, f.commit))]

(* A Welcome takes the latest pending join, whether or not that is the key  *)
(* the Welcome was made for.                                                *)
HandleWelcome(cl, w) ==
  LET key == Last(cl.pending_joins)
  IN  IF cl.rooms[w.room] # NoRoom \/ cl.pending_joins = <<>> THEN cl
      ELSE [cl EXCEPT !.pending_joins = Front(@),
                      !.rooms[w.room] =
                        IF CanJoin(w.commit, key)
                        THEN RoomState(Joined(w.parent, w.commit, key)) ELSE @]

HandleFrame(cl, f) ==
  CASE f.opcode = "AppMessage" -> HandleAppMessage(cl, f)
    [] f.opcode = "Commit"     -> HandleCommit(cl, f)
    [] f.opcode = "Welcome"    -> HandleWelcome(cl, f)

(* Mutant of HandleSyncResponse: a frame that changes nothing ends the loop. *)
HandleSyncResponse_StopsAtError(cl, frames) ==
  LET handled[k \in 0 .. Len(frames)] ==
        IF k = 0 THEN [cl |-> cl, stopped |-> FALSE]
        ELSE LET before == handled[k - 1]
                 after == HandleFrame(before.cl, frames[k])
             IN  IF before.stopped THEN before
                 ELSE [cl |-> after, stopped |-> after = before.cl]
  IN  handled[Len(frames)].cl

(* The frames of a sync response are handled in order; an error in one does *)
(* not keep the rest from being handled.                                    *)
HandleSyncResponse(cl, frames) ==
  LET handled[k \in 0 .. Len(frames)] ==
        IF k = 0 THEN cl ELSE HandleFrame(handled[k - 1], frames[k])
  IN  handled[Len(frames)]

-----------------------------------------------------------------------------
(* The handlers as actions.  A call that returns an error and changes       *)
(* nothing is a stuttering step.                                            *)
GenerateKeyPackage(c) ==
  /\ Mint(c)
  /\ client' = [client EXCEPT ![c].pending_joins = Append(@, NewKey(c))]
  /\ key_packages' = key_packages \union {NewKey(c)}
  /\ UNCHANGED << log, welcomes >>

HandleCreateRoom(c, r) ==
  /\ c \in Creators
  /\ ~Member(c, r)
  /\ Mint(c)
  /\ client' = [client EXCEPT ![c].rooms[r] = RoomState(NewGroup(NewKey(c)))]
  /\ UNCHANGED << log, welcomes, key_packages >>

Messages(r) == { i \in DOMAIN log[r] : log[r][i].opcode = "AppMessage" }

HandleSendMessage(c, r) ==
  LET room == client[c].rooms[r]
  IN  /\ Member(c, r)
      /\ Cardinality(Messages(r)) < MAX_MESSAGES
      /\ CanEncrypt(room.sender_keys, room.my_leaf_index)
      /\ client' = [client EXCEPT ![c].rooms[r].sender_keys =
                      AfterEncrypt(@, room.my_leaf_index)]
      /\ Sequence(r, AppMessage(c, r, room.mls_group.own, Epoch(room.mls_group.history),
                       Encrypted(room.sender_keys, room.my_leaf_index)))
      /\ UNCHANGED << welcomes, key_packages, minted >>

Commits == UNION { { i \in DOMAIN log[r] : log[r][i].opcode = "Commit" } \X {r} : r \in Rooms }

(* AddMembers adds other clients, each with one key package.                *)
Invites(c, adds) ==
  /\ \A i \in DOMAIN adds : adds[i].owner # c
  /\ \A i, j \in DOMAIN adds : adds[i].owner = adds[j].owner => i = j

(* The number of a commit tells it from any other of the room.              *)
HandleAddMembers(c, r, adds) ==
  LET g == client[c].rooms[r].mls_group
      commit == Commit(g.own, adds, Len(log[r]) + 1)
  IN  /\ Member(c, r)
      /\ Cardinality(Commits) < MAX_COMMITS
      /\ Invites(c, adds)
      /\ CanAddMembers(g, adds)
      /\ client' = [client EXCEPT ![c].rooms[r].mls_group = Pending(@, commit)]
      /\ Sequence(r, CommitFrame(r, g.history, commit))
      /\ welcomes' = welcomes \union
           {[opcode |-> "Welcome", room |-> r, parent |-> g.history, commit |-> commit]}
      /\ UNCHANGED << key_packages, minted >>

HandleLeaveRoom(c, r) ==
  /\ c \in Leavers
  /\ Member(c, r)
  /\ client' = [client EXCEPT ![c].rooms[r] = NoRoom]
  /\ UNCHANGED << log, welcomes, key_packages, minted >>

(* handle_tick: any of the pending commits has been pending for            *)
(* COMMIT_TIMEOUT.                                                          *)
TimedOut(c, rs) == rs # {} /\ \A r \in rs :
  Member(c, r) /\ client[c].rooms[r].mls_group.pending_commit # NoCommit

HandleTick(c, rs) ==
  /\ TimedOut(c, rs)
  /\ client' = [client EXCEPT ![c].rooms =
       [r \in Rooms |->
          LET room == client[c].rooms[r]
          IN  IF r \in rs
              THEN [room EXCEPT !.mls_group = ClearPendingCommit(room.mls_group)]
              ELSE room]]
  /\ UNCHANGED << log, welcomes, key_packages, minted >>

Receive(c, r, i) ==
  /\ client' = [client EXCEPT ![c] = HandleFrame(@, log[r][i])]
  /\ UNCHANGED << log, welcomes, key_packages, minted >>

(* A Welcome frame, or the same bytes through ClientEvent::JoinRoom.        *)
HandleJoinRoom(c, w) ==
  /\ client' = [client EXCEPT ![c] = HandleFrame(@, w)]
  /\ UNCHANGED << log, welcomes, key_packages, minted >>

(* A sync response that brings the log of r from first to last.             *)
Sync(c, r, first, last) ==
  /\ client' = [client EXCEPT ![c] = HandleSyncResponse(@, SubSeq(log[r], first, last))]
  /\ UNCHANGED << log, welcomes, key_packages, minted >>

SyncAll(c, r) == Sync(c, r, 1, Len(log[r]))

Next ==
  \E c \in Clients :
    \/ GenerateKeyPackage(c)
    \/ \E w \in welcomes : HandleJoinRoom(c, w)
    \/ \E rs \in SUBSET Rooms : HandleTick(c, rs)
    \/ \E r \in Rooms :
         \/ HandleCreateRoom(c, r)
         \/ HandleSendMessage(c, r)
         \/ \E n \in 0 .. MAX_ADDS : \E adds \in [1 .. n -> key_packages] :
              HandleAddMembers(c, r, adds)
         \/ HandleLeaveRoom(c, r)
         \/ \E i \in DOMAIN log[r] : Receive(c, r, i)
         \/ \E first, last \in DOMAIN log[r] : first < last /\ Sync(c, r, first, last)

Spec == Init /\ [][Next]_vars

(* Time passes and the caller does what RequestSync asks of it: a pending   *)
(* commit times out in the end, and the client gets the whole log.          *)
FairSpec ==
  /\ Spec
  /\ \A c \in Clients : \A r \in Rooms :
       /\ WF_vars(HandleTick(c, {r}))
       /\ WF_vars(SyncAll(c, r))

-----------------------------------------------------------------------------
(* Group, leaf index and sender keys of a room change together: whatever    *)
(* order commits, Welcomes and sync responses come in, a client is in the   *)
(* group with a key of its own, knows its leaf, has a ratchet for every     *)
(* leaf and never encrypts for one epoch with the keys of another           *)
(* (handle_commit, handle_welcome).                                         *)
KeysFitGroup ==
  \A c \in Clients : \A r \in Rooms : Member(c, r) =>
    LET room == client[c].rooms[r]
        tree == Tree(room.mls_group.history)
    IN  /\ room.mls_group.own.owner = c
        /\ tree[room.my_leaf_index] = room.mls_group.own
        /\ room.sender_keys.ratchets \in [DOMAIN tree -> Generation]
        /\ room.sender_keys.secret = room.mls_group.history
        /\ room.sender_keys.epoch = Epoch(room.mls_group.history)

(* No message key encrypts two messages, over all members, epochs and forks *)
(* of a room (SymmetricRatchet::advance, SenderKeyStore::encrypt).          *)
KeyUsedOnce ==
  \A r \in Rooms : \A i, j \in Messages(r) :
    i # j => log[r][i].payload # log[r][j].payload

(* While a client stays in a room, it delivers the messages of one sender   *)
(* and epoch in the order they were sent and each at most once, although    *)
(* broadcasts and sync responses repeat and reorder them                    *)
(* (SymmetricRatchet::advance_to).  Every stay has a key of its own; a      *)
(* client that comes back to an epoch it knows starts its ratchets again.   *)
DeliveredInOrder ==
  \A c \in Clients : \A i, j \in DOMAIN client[c].delivered :
    LET d == client[c].delivered[i]
        e == client[c].delivered[j]
        m == d.frame.payload
        n == e.frame.payload
    IN  i < j /\ d.as = e.as /\ m.secret = n.secret /\ m.leaf = n.leaf =>
          m.generation < n.generation

(* A sync response with the whole log delivers every verifiable message     *)
(* another member sent from its latest leaf in the epoch it leaves the      *)
(* client in, except those a later message of the same sender has overtaken *)
(* in this stay (handle_sync_response).                                     *)
Readable(cl, f) ==
  /\ f.signed = "signing_data"
  /\ f.payload.secret = cl.rooms[f.room].mls_group.history
  /\ f.payload.leaf # cl.rooms[f.room].my_leaf_index
  /\ f.payload.leaf = Max(LeavesOf(f.payload.secret, f.sender))

DeliveredOrOvertaken(cl, f) ==
  \E i \in DOMAIN cl.delivered :
    LET d == cl.delivered[i]
        n == d.frame.payload
    IN  /\ d.as = cl.rooms[f.room].mls_group.own
        /\ \/ d.frame = f
           \/ /\ n.secret = f.payload.secret /\ n.leaf = f.payload.leaf
              /\ n.generation > f.payload.generation

SyncDelivers ==
  \A c \in Clients : \A r \in Rooms :
    LET cl == HandleSyncResponse(client[c], log[r])
    IN  Member(c, r) => \A i \in Messages(r) :
          Readable(cl, log[r][i]) => DeliveredOrOvertaken(cl, log[r][i])

(* While a client stays in a room, its group's history is only extended and *)
(* the ratchets of an epoch only move forward: "Epoch only increases",      *)
(* "Ratchet generations only increase" (group.rs, sender_key_store.rs).     *)
HistoryGrows ==
  [][\A c \in Clients : \A r \in Rooms :
       LET old == client[c].rooms[r]
           new == client'[c].rooms[r]
       IN  old # NoRoom /\ new # NoRoom =>
             /\ IsPrefix(old.mls_group.history, new.mls_group.history)
             /\ old.mls_group.history = new.mls_group.history =>
                  \A i \in DOMAIN old.sender_keys.ratchets :
                    old.sender_keys.ratchets[i] <= new.sender_keys.ratchets[i]]_vars

(* A commit OpenMLS holds back is always one whose timeout is running, so   *)
(* no room is left refusing every further commit (pending_commit,           *)
(* clear_pending_commit).                                                   *)
StagedTimesOut ==
  \A c \in Clients : \A r \in Rooms : Member(c, r) =>
    LET g == client[c].rooms[r].mls_group
    IN  g.staged # NoCommit => g.pending_commit = g.staged

(* The author of a commit that was numbered first for its epoch gets past   *)
(* that epoch, unless it leaves: "The sync response will bring us up to     *)
(* date without needing to merge our original commit" (group.rs:270).       *)
FirstOfItsEpoch(r, i) ==
  /\ log[r][i].opcode = "Commit"
  /\ \A j \in 1 .. i - 1 :
       log[r][j].opcode = "Commit" => log[r][j].parent # log[r][i].parent

Behind(c, r, i) ==
  /\ i \in DOMAIN log[r]
  /\ FirstOfItsEpoch(r, i)
  /\ log[r][i].commit.by.owner = c
  /\ Member(c, r)
  /\ client[c].rooms[r].mls_group.history = log[r][i].parent

AuthorCatchesUp ==
  \A c \in Clients : \A r \in Rooms : \A i \in 1 .. MAX_COMMITS + MAX_MESSAGES :
    Behind(c, r, i) ~> ~Behind(c, r, i)
=============================================================================
