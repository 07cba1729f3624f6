---------------------------- MODULE RoomManager -----------------------------
(***************************************************************************)
(* RoomManager (lockframe-server/src/room_manager.rs): validation of a     *)
(* frame against the room's MLS group and persisted state, sequencing, and *)
(* the room actions handed to the driver.  OpenMLS is external: what it    *)
(* makes of a Commit is a choice among the outcomes the code handles.      *)
(***************************************************************************)
EXTENDS Sequencer

CONSTANTS
    NoGroup,            \* the room does not exist
    MlsOutcomes,        \* what process_message may make of a peer's Commit
    FaultyStorage       \* storage operations may fail (ChaoticStorage)

(***************************************************************************)
(* The server's own MlsGroup of a room: creator is the identity of the     *)
(* server's leaf, pending the membership after the commit the server has   *)
(* created and not merged yet, or {} when there is none (a commit keeps    *)
(* its author, so no pending membership is empty).                         *)
(***************************************************************************)
Group == [creator : Users,
          epoch   : Nat,
          members : SUBSET Users,
          pending : SUBSET Users]

ASSUME RoomManagerAssumption ==
    /\ NoGroup \notin Group
    /\ MlsOutcomes \subseteq {"merge", "evict", "ignore", "fail"}
    /\ FaultyStorage \in BOOLEAN

VARIABLE groups     \* room -> its Group, or NoGroup

RoomManagerTypeOK == groups \in [Rooms -> Group \cup {NoGroup}]

RoomManagerInit == groups = [r \in Rooms |-> NoGroup]

roomVars == <<groups, next_log_index>>

-----------------------------------------------------------------------------
(* The room actions, and the lists process_frame returns.                  *)

Persist(f)         == [type |-> "PersistFrame", frame |-> f]
Broadcast(f)       == [type |-> "Broadcast", frame |-> f]
PersistState(r, s) == [type |-> "PersistMlsState", room |-> r, state |-> s]

RoomAction ==
    [type : {"PersistFrame", "Broadcast"}, frame : Frame]
        \cup [type : {"PersistMlsState"}, room : Rooms, state : MlsGroupState]

\* Mutants of MessageActions: the broadcast comes first; nothing is stored;
\* nothing is broadcast.
MessageActions_BroadcastFirst(f) ==
    <<Broadcast(Sequenced(f)), Persist(Sequenced(f)), Persist(Sequenced(f))>>

MessageActions_NotStored(f) == <<Broadcast(Sequenced(f))>>

MessageActions_NotBroadcast(f) == <<Persist(Sequenced(f)), Persist(Sequenced(f))>>

\* AcceptFrame and StoreFrame both become a PersistFrame of the same frame.
MessageActions(f) ==
    <<Persist(Sequenced(f)), Persist(Sequenced(f)), Broadcast(Sequenced(f))>>

\* Mutant of CommitActions: the exported state is not persisted.
CommitActions_NoState(f, state) ==
    <<Persist(Sequenced(f)), Persist(Sequenced(f)), Broadcast(Sequenced(f))>>

CommitActions(f, state) ==
    <<Persist(Sequenced(f)), Persist(Sequenced(f)), Broadcast(Sequenced(f)),
      PersistState(f.room, state)>>

\* export_group_state
ExportState(g) == [epoch |-> g.epoch, members |-> g.members]

-----------------------------------------------------------------------------
\* validate_frame_no_state: as long as no MLS state is stored.
ValidNoState(f) == f.epoch = 0

\* Mutant of ValidBasic: the frame's epoch is not compared with the group's.
ValidBasic_AnyEpoch(f) ==
    /\ groups[f.room] # NoGroup
    /\ IF mls_states[f.room] # NoState
       THEN f.sender \in mls_states[f.room].members
       ELSE ValidNoState(f)

\* validate_frame_basic, with the room lookup before it.
ValidBasic(f) ==
    /\ groups[f.room] # NoGroup
    /\ f.epoch = groups[f.room].epoch
    /\ IF mls_states[f.room] # NoState
       THEN f.sender \in mls_states[f.room].members
       ELSE ValidNoState(f)

\* What is checked before the sequencer touches the counter.
Admissible(f) == ValidBasic(f) /\ ValidStructure(f)

\* validate_sequenced_actions_signatures, which runs after the sequencer:
\* Commit, Proposal, Welcome and unknown opcodes are not verified.
SignatureRefused(f) ==
    /\ f.opcode = "AppMessage"
    /\ mls_states[f.room] # NoState
    /\ ~f.signed

\* The server's leaf is still in the group; OpenMLS refuses every operation
\* of a member that was removed.
Active(g) == g.creator \in g.members

\* Result of merge_pending_commit, and of merge_staged_commit for a peer's
\* commit that leaves the members ms.
Merged(g, ms) ==
    [creator |-> g.creator,
     epoch   |-> g.epoch + 1,
     members |-> IF g.pending # {} THEN g.pending ELSE ms,
     pending |-> {}]

-----------------------------------------------------------------------------
(* process_frame, one action for each way it returns.                      *)

\* Err before the sequencer: unknown room, epoch, membership, structure, or a
\* failing load_mls_state or latest_log_index.
RefuseFrame(f) ==
    /\ ~Admissible(f) \/ FaultyStorage
    /\ UNCHANGED roomVars

\* Ok([Broadcast]) for a Welcome.
RelayWelcome(f) ==
    /\ Admissible(f)
    /\ ~IsSequenced(f)
    /\ UNCHANGED roomVars

\* Err from the sequencer: no index left.
RefuseOverflow(f) ==
    /\ Admissible(f)
    /\ IsSequenced(f)
    /\ OverflowIndex(f.room)
    /\ UNCHANGED groups

\* Err after the sequencer: the index is consumed and the frame dropped.  The
\* signature does not verify, or OpenMLS refuses the Commit.
RefuseSequenced(f) ==
    /\ Admissible(f)
    /\ IsSequenced(f)
    /\ \/ SignatureRefused(f)
       \/ f.opcode = "Commit" /\ ("fail" \in MlsOutcomes \/ ~Active(groups[f.room]))
    /\ ConsumeIndex(f.room)
    /\ UNCHANGED groups

\* Ok(MessageActions(f)).
SequenceMessage(f) ==
    /\ Admissible(f)
    /\ IsSequenced(f)
    /\ f.opcode # "Commit"
    /\ ~SignatureRefused(f)
    /\ ConsumeIndex(f.room)
    /\ UNCHANGED groups

\* Ok(CommitActions(f, ...)) although the payload was no commit: process_message
\* took it for a proposal or an application message and the group stays.
SequenceIgnoredCommit(f) ==
    /\ Admissible(f)
    /\ f.opcode = "Commit"
    /\ "ignore" \in MlsOutcomes
    /\ Active(groups[f.room])
    /\ groups[f.room].pending = {}
    /\ ConsumeIndex(f.room)
    /\ UNCHANGED groups

\* Mutant of MergeCommit: the state is exported from a group that was merged and
\* not written back.
MergeCommit_NotKept(f, ms) ==
    /\ Admissible(f)
    /\ f.opcode = "Commit"
    /\ Active(groups[f.room])
    /\ IF groups[f.room].pending # {}
       THEN ms = groups[f.room].pending
       ELSE IF groups[f.room].creator \in ms THEN "merge" \in MlsOutcomes
                                             ELSE "evict" \in MlsOutcomes
    /\ ConsumeIndex(f.room)
    /\ UNCHANGED groups

\* The group merges: the server's own pending commit whenever there is one,
\* whatever commit the frame carries, else the peer's.
MergeCommit(f, ms) ==
    /\ Admissible(f)
    /\ f.opcode = "Commit"
    /\ Active(groups[f.room])
    /\ IF groups[f.room].pending # {}
       THEN ms = groups[f.room].pending
       ELSE IF groups[f.room].creator \in ms THEN "merge" \in MlsOutcomes
                                             ELSE "evict" \in MlsOutcomes
    /\ ConsumeIndex(f.room)
    /\ groups' = [groups EXCEPT ![f.room] = Merged(@, ms)]

\* Ok(CommitActions(f, ...)) with the new state.
SequenceCommit(f, ms) == MergeCommit(f, ms) /\ groups[f.room].creator \in ms

\* Err after the merge: the commit removed the server's leaf, so
\* export_group_state fails on the group that has just advanced.
RefuseEvicting(f, ms) == MergeCommit(f, ms) /\ groups[f.room].creator \notin ms

-----------------------------------------------------------------------------
(* The other operations.                                                   *)

CreateRoom(r, u) ==
    /\ groups[r] = NoGroup
    /\ groups' = [groups EXCEPT ![r] = [creator |-> u, epoch   |-> 0,
                                        members |-> {u}, pending |-> {}]]
    /\ UNCHANGED next_log_index

CanPropose(r) ==
    /\ groups[r] # NoGroup
    /\ Active(groups[r])
    /\ groups[r].pending = {}

\* The members once the commit of add_members or remove_members is merged.
Adding(g, u) == g.members \cup {u}

Removing(g, u) == g.members \ {u}

AddMembers(r, u) ==
    /\ CanPropose(r)
    /\ u \notin groups[r].members
    /\ groups' = [groups EXCEPT ![r].pending = Adding(groups[r], u)]
    /\ UNCHANGED next_log_index

RemoveMembers(r, u) ==
    /\ CanPropose(r)
    /\ u \in groups[r].members \ {groups[r].creator}
    /\ groups' = [groups EXCEPT ![r].pending = Removing(groups[r], u)]
    /\ UNCHANGED next_log_index

\* RoomManager::new in a restarted process: neither the groups nor the counters
\* are reloaded.
NewRoomManager ==
    /\ groups' = [r \in Rooms |-> NoGroup]
    /\ next_log_index' = [r \in Rooms |-> Uncached]

-----------------------------------------------------------------------------
\* handle_sync_request answers for a room it has a group for and the storage an
\* entry; otherwise it is RoomNotFound or NotFound.
CanSync(r) == groups[r] # NoGroup /\ r \in entries

\* The last index a response covers: from - 1, saturating, when it is empty.
LastLoaded(from, loaded) ==
    IF loaded # <<>> THEN from + Len(loaded) - 1
    ELSE IF from = 0 THEN 0 ELSE from - 1

\* Mutant of HasMore: the last index is one too far.
HasMore_OffByOne(r, from, loaded) ==
    frames[r] # <<>> /\ LastLoaded(from, loaded) + 1 < Len(frames[r]) - 1

\* Mutant of HasMore: the end of the log is compared with <=.
HasMore_AtEnd(r, from, loaded) ==
    frames[r] # <<>> /\ LastLoaded(from, loaded) <= Len(frames[r]) - 1

HasMore(r, from, loaded) ==
    frames[r] # <<>> /\ LastLoaded(from, loaded) < Len(frames[r]) - 1
=============================================================================
