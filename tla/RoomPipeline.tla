---------------------------- MODULE RoomPipeline ----------------------------
(***************************************************************************)
(* The path of a frame through the server: a task reads it, processes it   *)
(* under the driver lock, and executes the resulting actions under the     *)
(* lock again (handle_stream and execute_actions in                        *)
(* lockframe-server/src/lib.rs).  Between the two the lock is free, and    *)
(* other tasks may process and execute.                                    *)
(*                                                                         *)
(* Atomic = TRUE is the simulated runtime (lockframe-harness/src/          *)
(* sim_server.rs), which processes and executes in one exclusive call.     *)
(***************************************************************************)
EXTENDS RoomManager

CONSTANTS
    Tasks,          \* handle_stream tasks
    Free,           \* nobody holds the driver lock
    Atomic,         \* the lock is kept from processing to execution
    Signatures,     \* the values "signed" takes in received frames
    Structures,     \* the values "wellformed" takes in received frames
    MaxFrames,      \* bound: frames that pass validation
    MaxRestarts     \* bound: restarts of the process over the same storage

ASSUME PipelineAssumption ==
    /\ Free \notin Tasks
    /\ Atomic \in BOOLEAN
    /\ Signatures \subseteq BOOLEAN
    /\ Structures \subseteq BOOLEAN
    /\ MaxFrames \in Nat
    /\ MaxRestarts \in Nat

VARIABLES
    pending,    \* task -> actions it has still to execute
    lock,       \* the task that holds the driver lock, or Free
    received,   \* number of frames that passed validation
    restarts,   \* number of restarts
    \* History, read by the properties only.
    assigned,   \* room -> frames in the order the sequencer numbered them
    published   \* frames handed to the broadcast

runtimeVars == <<pending, lock>>
boundVars   == <<received, restarts>>
historyVars == <<assigned, published>>
vars == <<storageVars, roomVars, runtimeVars, boundVars, historyVars>>

TypeOK ==
    /\ StorageTypeOK
    /\ SequencerTypeOK
    /\ RoomManagerTypeOK
    /\ pending \in [Tasks -> Seq(RoomAction)]
    /\ lock \in Tasks \cup {Free}
    /\ received \in 0..MaxFrames
    /\ restarts \in 0..MaxRestarts
    /\ assigned \in [Rooms -> Seq(Frame)]
    /\ published \subseteq Frame

Init ==
    /\ StorageInit
    /\ SequencerInit
    /\ RoomManagerInit
    /\ pending = [t \in Tasks |-> <<>>]
    /\ lock = Free
    /\ received = 0
    /\ restarts = 0
    /\ assigned = [r \in Rooms |-> <<>>]
    /\ published = {}

-----------------------------------------------------------------------------
\* A frame a client may send next.  Epochs beyond the one after the largest
\* admissible epoch are refused like that one.
Incoming ==
    [id : {received}, room : Rooms, opcode : Opcodes, sender : Users,
     epoch : 0..(MAX_EPOCH + 1), signed : Signatures, wellformed : Structures,
     log_index : {0}]

\* The task is in its read loop and the lock can be taken.
Ready(t) == lock = Free /\ pending[t] = <<>>

\* Mutant of Return: the lock is released before the actions are executed.
Return_Unlocked(t, actions) ==
    /\ pending' = [pending EXCEPT ![t] = actions]
    /\ lock' = Free

\* The result Ok(actions): the task goes on to execute them.
Return(t, actions) ==
    /\ pending' = [pending EXCEPT ![t] = actions]
    /\ lock' = IF Atomic THEN t ELSE Free

Numbered(f) == assigned' = [assigned EXCEPT ![f.room] = Append(@, Sequenced(f))]

Count == received < MaxFrames /\ received' = received + 1

\* process_event returned Err: logged, the task reads on.
Refuse(t, f) ==
    /\ Ready(t)
    /\ RefuseFrame(f)
    /\ UNCHANGED <<storageVars, runtimeVars, boundVars, historyVars>>

Overflow(t, f) ==
    /\ Ready(t)
    /\ RefuseOverflow(f)
    /\ UNCHANGED <<storageVars, runtimeVars, boundVars, historyVars>>

Welcome(t, f) ==
    /\ Ready(t)
    /\ RelayWelcome(f)
    /\ Count
    /\ Return(t, <<Broadcast(f)>>)
    /\ UNCHANGED <<storageVars, restarts, historyVars>>

\* Err after the index was consumed.
Drop(t, f) ==
    /\ Ready(t)
    /\ Count
    /\ \/ RefuseSequenced(f)
       \/ \E ms \in SUBSET Users \ {{}} : RefuseEvicting(f, ms)
    /\ Numbered(f)
    /\ UNCHANGED <<storageVars, runtimeVars, restarts, published>>

Message(t, f) ==
    /\ Ready(t)
    /\ Count
    /\ SequenceMessage(f)
    /\ Return(t, MessageActions(f))
    /\ Numbered(f)
    /\ UNCHANGED <<storageVars, restarts, published>>

Commit(t, f) ==
    /\ Ready(t)
    /\ Count
    /\ \/ /\ SequenceIgnoredCommit(f)
          /\ Return(t, CommitActions(f, ExportState(groups[f.room])))
       \/ \E ms \in SUBSET Users \ {{}} :
             /\ SequenceCommit(f, ms)
             /\ Return(t, CommitActions(f,
                              ExportState(Merged(groups[f.room], ms))))
    /\ Numbered(f)
    /\ UNCHANGED <<storageVars, restarts, published>>

-----------------------------------------------------------------------------
(* execute_actions, one step per action of the list.  The lock is held     *)
(* until the list is done.  A storage error is logged and the loop goes on.*)

\* The task holds the lock, or takes it for its list.
Executing(t) ==
    /\ pending[t] # <<>>
    /\ lock \in {Free, t}

Advance(t) ==
    /\ pending' = [pending EXCEPT ![t] = Tail(@)]
    /\ lock' = IF Len(pending[t]) = 1 THEN Free ELSE t

ExecPersist(t) ==
    /\ Executing(t)
    /\ Head(pending[t]).type = "PersistFrame"
    /\ LET f == Head(pending[t]).frame IN StoreFrame(f.room, f.log_index, f)
    /\ Advance(t)
    /\ UNCHANGED <<roomVars, boundVars, historyVars>>

ExecPersistState(t) ==
    /\ Executing(t)
    /\ Head(pending[t]).type = "PersistMlsState"
    /\ StoreMlsState(Head(pending[t]).room, Head(pending[t]).state)
    /\ Advance(t)
    /\ UNCHANGED <<roomVars, boundVars, historyVars>>

ExecFailed(t) ==
    /\ FaultyStorage
    /\ Executing(t)
    /\ Head(pending[t]).type # "Broadcast"
    /\ Advance(t)
    /\ UNCHANGED <<storageVars, roomVars, boundVars, historyVars>>

ExecBroadcast(t) ==
    /\ Executing(t)
    /\ Head(pending[t]).type = "Broadcast"
    /\ published' = published \cup {Head(pending[t]).frame}
    /\ Advance(t)
    /\ UNCHANGED <<storageVars, roomVars, boundVars, assigned>>

Exec(t) ==
    ExecPersist(t) \/ ExecPersistState(t) \/ ExecFailed(t) \/ ExecBroadcast(t)

-----------------------------------------------------------------------------
(* Calls of the embedding program, through the same lock.                  *)

Embedder ==
    /\ lock = Free
    /\ \E r \in Rooms, u \in Users :
          CreateRoom(r, u) \/ AddMembers(r, u) \/ RemoveMembers(r, u)
    /\ UNCHANGED <<storageVars, runtimeVars, boundVars, historyVars>>

\* The process dies and starts again over the storage that survived it.  The
\* order in force is what the log kept.
Restart ==
    /\ restarts < MaxRestarts
    /\ restarts' = restarts + 1
    /\ NewRoomManager
    /\ pending' = [t \in Tasks |-> <<>>]
    /\ lock' = Free
    /\ assigned' = frames
    /\ UNCHANGED <<storageVars, received, published>>

Next ==
    \/ \E t \in Tasks :
          \/ \E f \in Incoming :
                \/ Refuse(t, f)
                \/ Overflow(t, f)
                \/ Welcome(t, f)
                \/ Drop(t, f)
                \/ Message(t, f)
                \/ Commit(t, f)
          \/ Exec(t)
    \/ Embedder
    \/ Restart

Spec == Init /\ [][Next]_vars

(***************************************************************************)
(* Fairness.  The driver lock is tokio's Mutex, which serves its waiters   *)
(* in order: a task that wants to execute its list gets the lock, and goes *)
(* on until the list is empty.  Nothing obliges clients to send.           *)
(***************************************************************************)
FairSpec == Spec /\ \A t \in Tasks : SF_vars(Exec(t))

-----------------------------------------------------------------------------
(* Properties of every runtime.                                            *)

\* The stored log of a room is a prefix of the order in which the sequencer
\* numbered its frames, although tasks execute their PersistFrame actions out
\* of that order, twice each, and some of them fail: the index check of
\* store_frame is all that protects the log.
LogIsOrderPrefix ==
    \A r \in Rooms :
        /\ Len(frames[r]) <= Len(assigned[r])
        /\ \A i \in 1..Len(frames[r]) : frames[r][i] = assigned[r][i]

\* What subscribers received and what the log holds never disagree on a
\* position within one life of the process: two broadcasts with one index carry
\* one frame, and that frame is the one stored there, if any is.
OnePosition ==
    restarts = 0 => \A f \in published : IsSequenced(f) =>
        /\ \A g \in published :
              IsSequenced(g) /\ g.room = f.room /\ g.log_index = f.log_index
                  => g = f
        /\ f.log_index < Len(frames[f.room])
              => frames[f.room][f.log_index + 1] = f

\* A client that asks for frames from an index and goes on while has_more is set
\* gets every frame of the log once: a response holds the frames numbered from
\* that index on, and has_more says exactly whether the log goes on behind them
\* (handle_sync_request, for every limit but 0).
SyncResponsesCoverLog ==
    \A r \in Rooms : CanSync(r) =>
        \A from \in 0..Len(frames[r]) + 1, limit \in 1..Len(frames[r]) + 1 :
            LET loaded == LoadFrames(r, from, limit)
            IN  /\ \A i \in 1..Len(loaded) : loaded[i].log_index = from + i - 1
                /\ from + Len(loaded) < Len(frames[r]) <=> HasMore(r, from, loaded)
                /\ from < Len(frames[r]) => loaded # <<>>

\* Within one life of the process epochs never decrease along the stored log of
\* a room, though commits of several tasks race: validate_frame_basic compares
\* with the group, and the group changes only while a frame is processed.
LogEpochsOrdered ==
    restarts = 0 => \A r \in Rooms : \A i, j \in 1..Len(frames[r]) :
        i < j => frames[r][i].epoch <= frames[r][j].epoch

\* Within one life of the process the persisted MLS state is never ahead of the
\* group it was exported from, whichever task's PersistMlsState came last.
StoredStateNotAhead ==
    restarts = 0 => \A r \in Rooms : mls_states[r] # NoState =>
        /\ groups[r] # NoGroup
        /\ mls_states[r].epoch <= groups[r].epoch

\* Index i of room r was assigned, is not in the log, and no task will store it.
Lost(r, i) ==
    /\ i \in Len(frames[r])..(Len(assigned[r]) - 1)
    /\ \A t \in Tasks : \A k \in 1..Len(pending[t]) :
          pending[t][k] # Persist(assigned[r][i + 1])

\* A lost index blocks its room until the process restarts: it stays lost, so the
\* log never grows past it, because the cached counter does not go back and
\* store_frame refuses every later index.
LostIndexBlocksRoom ==
    [][restarts' = restarts =>
         \A r \in Rooms, i \in 0..MAX_LOG_INDEX : Lost(r, i) => Lost(r, i)']_vars

\* The pipeline implements TotalOrderLog, in every runtime, with storage
\* failures and with restarts: an assignment, a successful PersistFrame, the
\* broadcast of a sequenced frame and a restart are its steps, everything else
\* leaves the order alone.
Order == INSTANCE TotalOrderLog WITH
            order <- assigned,
            log   <- frames,
            seen  <- {f \in published : IsSequenced(f)}

ImplementsTotalOrder == Order!Spec

-----------------------------------------------------------------------------
(* The inductive invariant behind the safety properties above.             *)

\* f sits in the given order of its room at the position its index names.
AtItsIndex(order, f) ==
    /\ f.log_index < Len(order[f.room])
    /\ order[f.room][f.log_index + 1] = f

\* The counter of a cached room is the length of the order; the counter of a
\* room that is not cached will be read from the log, which is the order then.
CounterIsOrderLength ==
    \A r \in Rooms :
        /\ next_log_index[r] # Uncached => next_log_index[r] = Len(assigned[r])
        /\ next_log_index[r] = Uncached => frames[r] = assigned[r]
        /\ Len(assigned[r]) <= MAX_LOG_INDEX

\* Every frame of an order carries its room and its position.
OrderIndexed ==
    \A r \in Rooms : \A i \in 1..Len(assigned[r]) :
        assigned[r][i].room = r /\ assigned[r][i].log_index = i - 1

PendingInOrder ==
    \A t \in Tasks : \A k \in 1..Len(pending[t]) :
        LET a == pending[t][k] IN
        /\ a.type = "PersistFrame" => AtItsIndex(assigned, a.frame)
        /\ a.type = "Broadcast" /\ IsSequenced(a.frame) => AtItsIndex(assigned, a.frame)

PublishedInOrder ==
    restarts = 0 => \A f \in published : IsSequenced(f) => AtItsIndex(assigned, f)

\* Everything the pipeline still holds of a frame, and everything it has let
\* out of one, sits in the order at the position the frame's index names; the
\* log is the beginning of the order and the counter its end.
PipelineInvariant ==
    /\ TypeOK
    /\ LogIsOrderPrefix
    /\ CounterIsOrderLength
    /\ OrderIndexed
    /\ PendingInOrder
    /\ PublishedInOrder

-----------------------------------------------------------------------------
(* Properties of the atomic runtime while nothing fails.                   *)

AtRest == lock = Free /\ \A t \in Tasks : pending[t] = <<>>

\* A frame is in the log, at its index, before any subscriber gets it.
StoredBeforePublished ==
    \A f \in published : IsSequenced(f) => AtItsIndex(frames, f)

\* Whenever no actions are outstanding, the sequencer's counter is the length
\* of the stored log: there is no gap.
NoGapsAtRest ==
    AtRest => \A r \in Rooms :
        next_log_index[r] # Uncached => next_log_index[r] = Len(frames[r])

\* Whenever no actions are outstanding, the state frames are validated against
\* is that of the group.
StateCurrentAtRest ==
    AtRest => \A r \in Rooms : groups[r] # NoGroup =>
        \/ mls_states[r] = ExportState(groups[r])
        \/ mls_states[r] = NoState /\ groups[r].epoch = 0

\* The epoch of the persisted MLS state never goes back.
StoredEpochMonotone ==
    [][\A r \in Rooms : mls_states[r] # NoState =>
          mls_states'[r] # NoState /\ mls_states'[r].epoch >= mls_states[r].epoch]_vars

\* Every numbered frame is eventually broadcast.
NumberedIsPublished ==
    \A r \in Rooms : \A i \in 1..MaxFrames :
        Len(assigned[r]) >= i ~> \E f \in published :
            IsSequenced(f) /\ f.room = r /\ f.log_index = i - 1
=============================================================================
