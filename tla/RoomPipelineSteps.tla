------------------------- MODULE RoomPipelineSteps --------------------------
(***************************************************************************)
(* What the steps of RoomPipeline do, proved from its inductive invariant: *)
(* a lost index stays lost, the pipeline implements TotalOrderLog, sync    *)
(* responses cover the log; and, within one life of the process, the       *)
(* epochs of the log never decrease, and no MLS state that is stored, or   *)
(* is still to be stored, is ahead of its group.                           *)
(***************************************************************************)
EXTENDS RoomPipelineProofs

-----------------------------------------------------------------------------
(* Lost indices.                                                           *)

\* A step that is no restart keeps every position of every order.
LEMMA OrderGrows ==
    ASSUME PipelineInvariant, [Next]_vars, restarts' = restarts, NEW r \in Rooms
    PROVE  /\ Len(assigned[r]) \in Nat
           /\ Len(assigned'[r]) \in Nat
           /\ Len(assigned[r]) <= Len(assigned'[r])
           /\ \A i \in 1..Len(assigned[r]) : assigned'[r][i] = assigned[r][i]
<1> USE DEF vars, historyVars
<1>1. assigned \in [Rooms -> Seq(Frame)]
    BY DEF PipelineInvariant, TypeOK
<1>2. CASE assigned' = assigned
    BY <1>1, <1>2
<1>3. ASSUME NEW f \in Incoming, Numbered(f)
      PROVE  /\ Len(assigned[r]) \in Nat
             /\ Len(assigned'[r]) \in Nat
             /\ Len(assigned[r]) <= Len(assigned'[r])
             /\ \A i \in 1..Len(assigned[r]) : assigned'[r][i] = assigned[r][i]
    <2>1. f.room \in Rooms /\ Sequenced(f) \in Frame
        BY IncomingIsFrame, SequencedFrame DEF PipelineInvariant, TypeOK
    <2>2. assigned' = [assigned EXCEPT ![f.room] = Append(assigned[f.room], Sequenced(f))]
        BY <1>3 DEF Numbered
    <2> HIDE DEF vars, historyVars
    <2>3. CASE f.room = r
        <3>1. assigned[r] \in Seq(Frame) /\ assigned'[r] = Append(assigned[r], Sequenced(f))
            BY <2>1, <2>2, <2>3, <1>1
        <3> QED BY <3>1, <2>1, AppendKeepsOrder
    <2>4. CASE f.room # r
        BY <2>1, <2>2, <2>4, <1>1
    <2> QED BY <2>3, <2>4
<1>4. ASSUME NEW t \in Tasks, Exec(t)
      PROVE  assigned' = assigned
    BY <1>4 DEF Exec, ExecPersist, ExecPersistState, ExecFailed, ExecBroadcast
<1>5. ASSUME NEW t \in Tasks, NEW f \in Incoming,
             Refuse(t, f) \/ Overflow(t, f) \/ Welcome(t, f)
      PROVE  assigned' = assigned
    BY <1>5 DEF Refuse, Overflow, Welcome
<1>6. ASSUME NEW t \in Tasks, NEW f \in Incoming,
             Drop(t, f) \/ Message(t, f) \/ Commit(t, f)
      PROVE  Numbered(f)
    BY <1>6 DEF Drop, Message, Commit
<1>7. Embedder => assigned' = assigned
    BY DEF Embedder
<1>8. ~Restart
    BY PipelineAssumption DEF Restart, PipelineInvariant, TypeOK
<1> HIDE DEF historyVars
<1> QED BY <1>2, <1>3, <1>4, <1>5, <1>6, <1>7, <1>8 DEF Next, historyVars

\* A PersistFrame is in a task's list because it was there before, or because
\* this step numbered its frame.
LEMMA PersistComesFromNumbering ==
    ASSUME PipelineInvariant, [Next]_vars, restarts' = restarts,
           NEW t \in Tasks, NEW k \in 1..Len(pending'[t]),
           pending'[t][k].type = "PersistFrame"
    PROVE  \/ \E j \in 1..Len(pending[t]) : pending'[t][k] = pending[t][j]
           \/ \E f \in Incoming : pending'[t][k] = Persist(Sequenced(f))
<1> DEFINE Goal == \/ \E j \in 1..Len(pending[t]) : pending'[t][k] = pending[t][j]
                   \/ \E f \in Incoming : pending'[t][k] = Persist(Sequenced(f))
<1>1. pending \in [Tasks -> Seq(RoomAction)]
    BY DEF PipelineInvariant, TypeOK
<1>2. CASE pending' = pending
    BY <1>2
<1>3. ASSUME NEW u \in Tasks, NEW f \in Incoming, NEW acts, Return(u, acts),
             \A j \in 1..Len(acts) :
                 acts[j] = Persist(Sequenced(f)) \/ acts[j].type # "PersistFrame"
      PROVE  Goal
    <2>1. pending' = [pending EXCEPT ![u] = acts]
        BY <1>3 DEF Return
    <2> QED BY <2>1, <1>1, <1>3
<1>4. ASSUME NEW u \in Tasks, Exec(u)
      PROVE  Goal
    <2>1. /\ pending[u] \in Seq(RoomAction)
          /\ pending[u] # <<>>
          /\ pending' = [pending EXCEPT ![u] = Tail(pending[u])]
        BY <1>1, <1>4 DEF Exec, ExecPersist, ExecPersistState, ExecFailed, ExecBroadcast,
                          Executing, Advance
    <2>2. \A j \in 1..Len(Tail(pending[u])) :
              j + 1 \in 1..Len(pending[u]) /\ Tail(pending[u])[j] = pending[u][j + 1]
        BY <2>1, TailActions
    <2> QED BY <2>1, <2>2, <1>1
<1>5. ASSUME NEW u \in Tasks, NEW f \in Incoming,
             Refuse(u, f) \/ Overflow(u, f) \/ Drop(u, f)
      PROVE  Goal
    BY <1>2, <1>5 DEF Refuse, Overflow, Drop, runtimeVars
<1>6. ASSUME NEW f
      PROVE  /\ Broadcast(f).type # "PersistFrame"
             /\ \A r, st : PersistState(r, st).type # "PersistFrame"
    BY DEF Broadcast, PersistState
<1>7. ASSUME NEW u \in Tasks, NEW f \in Incoming, Welcome(u, f)
      PROVE  Goal
    <2>1. Return(u, <<Broadcast(f)>>)
        BY <1>7 DEF Welcome
    <2>2. \A j \in 1..Len(<<Broadcast(f)>>) : <<Broadcast(f)>>[j] = Broadcast(f)
        OBVIOUS
    <2> QED BY <2>1, <2>2, <1>3, <1>6
<1>8. ASSUME NEW u \in Tasks, NEW f \in Incoming, Message(u, f)
      PROVE  Goal
    <2> DEFINE st == [epoch |-> 0, members |-> {}]
    <2>1. st \in MlsGroupState
        BY DEF MlsGroupState
    <2> HIDE DEF st
    <2>2. Return(u, MessageActions(f))
        BY <1>8 DEF Message
    <2>3. \A j \in 1..Len(MessageActions(f)) :
              \/ MessageActions(f)[j] = Persist(Sequenced(f))
              \/ MessageActions(f)[j].type # "PersistFrame"
        <3> TAKE j \in 1..Len(MessageActions(f))
        <3>1. MessageActions(f)[j] \in {Persist(Sequenced(f)), Broadcast(Sequenced(f))}
            BY <2>1, ActionLists
        <3> QED BY <3>1, <1>6
    <2> QED BY <2>2, <2>3, <1>3
<1>9. ASSUME NEW u \in Tasks, NEW f \in Incoming, Commit(u, f)
      PROVE  Goal
    <2>1. f.room \in Rooms
        BY IncomingIsFrame DEF PipelineInvariant, TypeOK
    <2>2. PICK st \in MlsGroupState : Return(u, CommitActions(f, st))
        <3>1. CASE /\ SequenceIgnoredCommit(f)
                   /\ Return(u, CommitActions(f, ExportState(groups[f.room])))
            BY <2>1, <3>1, MergedGroup DEF SequenceIgnoredCommit, Admissible, ValidBasic
        <3>2. CASE \E ms \in SUBSET Users \ {{}} :
                      /\ SequenceCommit(f, ms)
                      /\ Return(u, CommitActions(f, ExportState(Merged(groups[f.room], ms))))
            BY <2>1, <3>2, MergedGroup, Zenon DEF SequenceCommit, MergeCommit, Admissible, ValidBasic
        <3> QED BY <1>9, <3>1, <3>2, Zenon DEF Commit
    <2>3. \A j \in 1..Len(CommitActions(f, st)) :
              \/ CommitActions(f, st)[j] = Persist(Sequenced(f))
              \/ CommitActions(f, st)[j].type # "PersistFrame"
        <3> TAKE j \in 1..Len(CommitActions(f, st))
        <3>1. CommitActions(f, st)[j] \in
                  {Persist(Sequenced(f)), Broadcast(Sequenced(f)), PersistState(f.room, st)}
            BY ActionLists
        <3>2. CASE CommitActions(f, st)[j] = Broadcast(Sequenced(f))
            BY <3>2, <1>6
        <3>3. CASE CommitActions(f, st)[j] = PersistState(f.room, st)
            BY <3>3, <1>6
        <3> QED BY <3>1, <3>2, <3>3
    <2> QED BY <2>2, <2>3, <1>3
<1>10. Embedder => pending' = pending
    BY DEF Embedder, runtimeVars
<1>11. ~Restart
    BY PipelineAssumption DEF Restart, PipelineInvariant, TypeOK
<1>12. UNCHANGED vars => pending' = pending
    BY DEF vars, runtimeVars
<1> QED BY <1>2, <1>4, <1>5, <1>7, <1>8, <1>9, <1>10, <1>11, <1>12 DEF Next

\* Only the PersistFrame of the next position lengthens a log.
LEMMA LogGrowsFromPending ==
    ASSUME PipelineInvariant, [Next]_vars, NEW r \in Rooms
    PROVE  \/ frames'[r] = frames[r]
           \/ /\ Len(frames'[r]) = Len(frames[r]) + 1
              /\ \E t \in Tasks : \E k \in 1..Len(pending[t]) :
                    /\ pending[t][k].type = "PersistFrame"
                    /\ pending[t][k].frame.room = r
                    /\ pending[t][k].frame.log_index = Len(frames[r])
<1>1. /\ frames \in [Rooms -> Seq(Frame)]
      /\ pending \in [Tasks -> Seq(RoomAction)]
    BY DEF PipelineInvariant, TypeOK, StorageTypeOK
<1>2. CASE frames' = frames
    BY <1>2
<1>3. ASSUME NEW t \in Tasks, ExecPersist(t)
      PROVE  \/ frames'[r] = frames[r]
             \/ /\ Len(frames'[r]) = Len(frames[r]) + 1
                /\ \E k \in 1..Len(pending[t]) :
                    /\ pending[t][k].type = "PersistFrame"
                    /\ pending[t][k].frame.room = r
                    /\ pending[t][k].frame.log_index = Len(frames[r])
    <2> DEFINE a == Head(pending[t])
    <2>1. /\ a.type = "PersistFrame"
          /\ StoreFrame(a.frame.room, a.frame.log_index, a.frame)
          /\ pending[t] # <<>>
        BY <1>3 DEF ExecPersist, Executing
    <2>2. 1 \in 1..Len(pending[t]) /\ pending[t][1] = a /\ a \in RoomAction
        BY <1>1, <2>1
    <2>3. a.frame \in Frame
        BY <2>1, <2>2 DEF RoomAction
    <2>4. a.frame.room \in Rooms
        BY <2>3 DEF Frame
    <2> HIDE DEF a
    <2>5. CASE a.frame.room # r
        BY <2>1, <2>5, <2>4, <1>1 DEF StoreFrame
    <2>6. CASE a.frame.room = r
        BY <2>1, <2>2, <2>3, <2>6, <1>1 DEF StoreFrame
    <2> QED BY <2>5, <2>6
<1>4. ASSUME NEW t \in Tasks, ExecPersistState(t) \/ ExecFailed(t) \/ ExecBroadcast(t)
      PROVE  frames' = frames
    BY <1>4 DEF ExecPersistState, ExecFailed, ExecBroadcast, StoreMlsState, storageVars
<1>5. ASSUME NEW t \in Tasks, NEW f \in Incoming,
             \/ Refuse(t, f) \/ Overflow(t, f) \/ Welcome(t, f)
             \/ Drop(t, f) \/ Message(t, f) \/ Commit(t, f)
      PROVE  frames' = frames
    BY <1>5 DEF Refuse, Overflow, Welcome, Drop, Message, Commit, storageVars
<1>6. Embedder \/ Restart \/ UNCHANGED vars => frames' = frames
    BY DEF Embedder, Restart, vars, storageVars
<1> QED BY <1>2, <1>3, <1>4, <1>5, <1>6 DEF Next, Exec

\* A step that is no restart keeps a lost index lost.
LEMMA LostStaysLost ==
    ASSUME PipelineInvariant, [Next]_vars, restarts' = restarts,
           NEW r \in Rooms, NEW i \in 0..MAX_LOG_INDEX, Lost(r, i)
    PROVE  Lost(r, i)'
<1> DEFINE e == assigned[r][i + 1]
<1>1. /\ Len(frames[r]) \in Nat /\ Len(assigned[r]) \in Nat /\ i \in Nat
      /\ frames[r] \in Seq(Frame)
    BY SequencerAssumption DEF PipelineInvariant, TypeOK, StorageTypeOK
<1>2. Len(frames[r]) <= i /\ i < Len(assigned[r]) /\ i + 1 \in 1..Len(assigned[r])
    BY <1>1 DEF Lost
<1>3. e.room = r /\ e.log_index = i
    BY <1>1, <1>2 DEF PipelineInvariant, OrderIndexed
<1>4. /\ Len(assigned'[r]) \in Nat
      /\ Len(assigned[r]) <= Len(assigned'[r])
      /\ assigned'[r][i + 1] = e
    BY <1>2, OrderGrows
<1>5. ASSUME NEW t \in Tasks, NEW k \in 1..Len(pending[t])
      PROVE  pending[t][k] # Persist(e)
    BY <1>5 DEF Lost
<1>6. Len(frames'[r]) \in Nat /\ Len(frames'[r]) <= i
    <2>1. CASE frames'[r] = frames[r]
        BY <2>1, <1>1, <1>2
    <2>2. ASSUME Len(frames'[r]) = Len(frames[r]) + 1,
                 NEW t \in Tasks, NEW k \in 1..Len(pending[t]),
                 pending[t][k].type = "PersistFrame",
                 pending[t][k].frame.room = r,
                 pending[t][k].frame.log_index = Len(frames[r])
          PROVE  Len(frames[r]) # i
        <3>1. assigned[r][Len(frames[r]) + 1] = pending[t][k].frame
            BY <2>2 DEF PipelineInvariant, PendingInOrder, AtItsIndex
        <3>2. pending[t][k] \in RoomAction
            BY DEF PipelineInvariant, TypeOK
        <3>3. pending[t][k] = Persist(pending[t][k].frame)
            BY <2>2, <3>2 DEF RoomAction, Persist
        <3> QED BY <3>1, <3>3, <1>5
    <2> QED BY <2>1, <2>2, <1>1, <1>2, LogGrowsFromPending
<1>7. ASSUME NEW t \in Tasks, NEW k \in 1..Len(pending'[t]),
             pending'[t][k] = Persist(e)
      PROVE  FALSE
    <2>1. pending'[t][k].type = "PersistFrame"
        BY <1>7 DEF Persist
    <2>2. PICK f \in Incoming : Persist(e) = Persist(Sequenced(f))
        BY <2>1, <1>5, <1>7, PersistComesFromNumbering
    <2>3. e = Sequenced(f)
        BY <2>2 DEF Persist
    <2>4. f \in Frame /\ f.room \in Rooms
        BY IncomingIsFrame DEF PipelineInvariant, TypeOK
    <2>5. Sequenced(f).room = f.room /\ Sequenced(f).log_index = NextIndex(f.room)
        BY <2>4 DEF Sequenced, Frame
    <2>6. i = Len(assigned[r])
        BY <2>3, <2>4, <2>5, <1>3, NextIndexIsOrderLength
    <2> QED BY <2>6, <1>1, <1>2
<1> HIDE DEF e
<1>8. i \in Len(frames'[r])..(Len(assigned'[r]) - 1)
    BY <1>1, <1>2, <1>4, <1>6
<1> QED BY <1>4, <1>7, <1>8 DEF Lost

\* A lost index blocks its room until a restart: process_frame never goes back
\* to an index, and store_frame refuses every index behind the missing one.
THEOREM LostIndexBlocks == Spec => LostIndexBlocksRoom
<1>1. PipelineInvariant /\ [Next]_vars =>
          [restarts' = restarts =>
             \A r \in Rooms, i \in 0..MAX_LOG_INDEX : Lost(r, i) => Lost(r, i)']_vars
    BY LostStaysLost
<1> QED BY <1>1, PipelineInvariantHolds, PTL DEF Spec, LostIndexBlocksRoom

-----------------------------------------------------------------------------
(* The refinement of TotalOrderLog.                                        *)

\* Numbering a frame is a Number step of the abstract order.
LEMMA NumberedIsNumber ==
    ASSUME PipelineInvariant, NEW f \in Incoming, Numbered(f),
           UNCHANGED <<frames, published>>
    PROVE  Order!Number(f.room)
<1>1. f.room \in Rooms /\ f \in Frame
    BY IncomingIsFrame DEF PipelineInvariant, TypeOK
<1>2. Sequenced(f) \in Frame
    BY SequencedFrame
<1>3. assigned[f.room] \in Seq(Frame) /\ assigned \in [Rooms -> Seq(Frame)]
    BY <1>1 DEF PipelineInvariant, TypeOK
<1>4. assigned' = [assigned EXCEPT ![f.room] = Append(assigned[f.room], Sequenced(f))]
    BY DEF Numbered
<1>5. assigned'[f.room] = Append(assigned[f.room], Sequenced(f))
    BY <1>1, <1>3, <1>4
<1>6. /\ Len(assigned'[f.room]) = Len(assigned[f.room]) + 1
      /\ assigned'[f.room][Len(assigned[f.room]) + 1] = Sequenced(f)
    BY <1>2, <1>3, <1>5
<1>7. Sequenced(f).room = f.room /\ Sequenced(f).log_index = Len(assigned[f.room])
    BY <1>1, NextIndexIsOrderLength DEF Sequenced, Frame
<1> QED BY <1>4, <1>6, <1>7 DEF Order!Number

\* Executing a PersistFrame is a Store step, or leaves the log alone when
\* store_frame answers Conflict.
LEMMA PersistIsStore ==
    ASSUME PipelineInvariant, NEW t \in Tasks, ExecPersist(t)
    PROVE  (\E r \in Rooms : Order!Store(r)) \/ UNCHANGED Order!vars
<1> DEFINE a == Head(pending[t])
           r == a.frame.room
<1>1. /\ a.type = "PersistFrame"
      /\ StoreFrame(r, a.frame.log_index, a.frame)
      /\ pending[t] # <<>>
      /\ UNCHANGED <<assigned, published>>
    BY DEF ExecPersist, Executing, historyVars
<1>2. /\ pending[t] \in Seq(RoomAction)
      /\ frames \in [Rooms -> Seq(Frame)] /\ assigned \in [Rooms -> Seq(Frame)]
    BY DEF PipelineInvariant, TypeOK, StorageTypeOK
<1>3. 1 \in 1..Len(pending[t]) /\ pending[t][1] = a /\ a \in RoomAction
    BY <1>1, <1>2
<1>4. AtItsIndex(assigned, a.frame)
    BY <1>1, <1>3 DEF PipelineInvariant, PendingInOrder
<1>5. a.frame \in Frame /\ r \in Rooms
    BY <1>1, <1>3 DEF RoomAction, Frame
<1> HIDE DEF a
<1>6. CASE a.frame.log_index = Len(frames[r])
    <2>1. frames' = [frames EXCEPT ![r] = Append(frames[r], a.frame)]
        BY <1>1, <1>6 DEF StoreFrame
    <2>2. Len(frames[r]) < Len(assigned[r]) /\ assigned[r][Len(frames[r]) + 1] = a.frame
        BY <1>4, <1>6 DEF AtItsIndex
    <2> QED BY <1>1, <1>5, <2>1, <2>2 DEF Order!Store
<1>7. CASE a.frame.log_index # Len(frames[r])
    BY <1>1, <1>7 DEF StoreFrame, Order!vars
<1> QED BY <1>6, <1>7

\* Executing a Broadcast shows a frame of the order; a Welcome shows nothing.
LEMMA BroadcastIsShow ==
    ASSUME PipelineInvariant, NEW t \in Tasks, ExecBroadcast(t)
    PROVE  \/ \E r \in Rooms : \E i \in 1..Len(assigned[r]) : Order!Show(r, i)
           \/ UNCHANGED Order!vars
<1> DEFINE a == Head(pending[t])
           f == a.frame
<1>1. /\ a.type = "Broadcast"
      /\ pending[t] # <<>>
      /\ published' = published \cup {f}
      /\ UNCHANGED <<assigned, frames>>
    BY DEF ExecBroadcast, Executing, storageVars
<1>2. /\ pending[t] \in Seq(RoomAction)
      /\ assigned \in [Rooms -> Seq(Frame)]
    BY DEF PipelineInvariant, TypeOK
<1>3. 1 \in 1..Len(pending[t]) /\ pending[t][1] = a /\ a \in RoomAction
    BY <1>1, <1>2
<1>4. f.room \in Rooms /\ f.log_index \in Nat
    BY <1>1, <1>3 DEF RoomAction, Frame
<1>5. CASE IsSequenced(f)
    <2>1. AtItsIndex(assigned, f)
        BY <1>1, <1>3, <1>5 DEF PipelineInvariant, PendingInOrder
    <2> HIDE DEF a
    <2>2. /\ f.log_index + 1 \in 1..Len(assigned[f.room])
          /\ assigned[f.room][f.log_index + 1] = f
        BY <1>2, <1>4, <2>1 DEF AtItsIndex
    <2>3. {g \in published' : IsSequenced(g)} = {g \in published : IsSequenced(g)} \cup {f}
        BY <1>1, <1>5
    <2>4. Order!Show(f.room, f.log_index + 1)
        BY <1>1, <2>2, <2>3 DEF Order!Show
    <2> QED BY <1>4, <2>2, <2>4
<1>6. CASE ~IsSequenced(f)
    <2>1. {g \in published' : IsSequenced(g)} = {g \in published : IsSequenced(g)}
        BY <1>1, <1>6
    <2> QED BY <1>1, <2>1 DEF Order!vars
<1> QED BY <1>5, <1>6

\* Every step of the pipeline is a step of TotalOrderLog or leaves its
\* variables alone.
LEMMA StepRefines ==
    ASSUME PipelineInvariant, [Next]_vars
    PROVE  [Order!Next]_(Order!vars)
<1>1. ASSUME UNCHANGED <<assigned, frames, published>>
      PROVE  UNCHANGED Order!vars
    BY <1>1 DEF Order!vars
<1>2. ASSUME NEW t \in Tasks, NEW f \in Incoming,
             Refuse(t, f) \/ Overflow(t, f) \/ Welcome(t, f)
      PROVE  UNCHANGED Order!vars
    BY <1>1, <1>2 DEF Refuse, Overflow, Welcome, storageVars, historyVars
<1>3. ASSUME NEW t \in Tasks, NEW f \in Incoming,
             Drop(t, f) \/ Message(t, f) \/ Commit(t, f)
      PROVE  Order!Next
    <2>1. f.room \in Rooms
        BY IncomingIsFrame DEF PipelineInvariant, TypeOK
    <2>2. Numbered(f) /\ UNCHANGED <<frames, published>>
        BY <1>3 DEF Drop, Message, Commit, storageVars
    <2> QED BY <2>1, <2>2, NumberedIsNumber DEF Order!Next
<1>4. ASSUME NEW t \in Tasks, Exec(t)
      PROVE  [Order!Next]_(Order!vars)
    <2>1. CASE ExecPersist(t)
        BY <2>1, PersistIsStore DEF Order!Next
    <2>2. CASE ExecPersistState(t) \/ ExecFailed(t)
        BY <1>1, <2>2 DEF ExecPersistState, ExecFailed, StoreMlsState, storageVars, historyVars
    <2>3. CASE ExecBroadcast(t)
        BY <2>3, BroadcastIsShow DEF Order!Next
    <2> QED BY <1>4, <2>1, <2>2, <2>3 DEF Exec
<1>5. CASE Embedder
    BY <1>1, <1>5 DEF Embedder, storageVars, historyVars
<1>6. CASE Restart
    BY <1>6 DEF Restart, storageVars, Order!Crash, Order!Next
<1>7. CASE UNCHANGED vars
    BY <1>1, <1>7 DEF vars, storageVars, historyVars
<1> QED BY <1>2, <1>3, <1>4, <1>5, <1>6, <1>7 DEF Next

\* The pipeline implements TotalOrderLog in every runtime: process_frame numbers,
\* store_frame stores in order, the broadcast shows numbered frames, and a
\* restart goes back to the stored log.
THEOREM PipelineRefinesTotalOrder == Spec => ImplementsTotalOrder
<1>1. Init => Order!Init
    BY DEF Init, StorageInit, Order!Init
<1>2. PipelineInvariant /\ [Next]_vars => [Order!Next]_(Order!vars)
    BY StepRefines
<1> QED BY <1>1, <1>2, PipelineInvariantHolds, PTL DEF Spec, ImplementsTotalOrder, Order!Spec

-----------------------------------------------------------------------------
(* Sync responses.                                                         *)

\* A stored frame carries the index of its place in the log.
LEMMA StoredIndexed ==
    ASSUME PipelineInvariant, NEW r \in Rooms, NEW i \in 1..Len(frames[r])
    PROVE  frames[r][i].log_index = i - 1
<1>1. frames[r] \in Seq(Frame) /\ assigned[r] \in Seq(Frame)
    BY DEF PipelineInvariant, TypeOK, StorageTypeOK
<1>2. i \in 1..Len(assigned[r]) /\ frames[r][i] = assigned[r][i]
    BY <1>1 DEF PipelineInvariant, LogIsOrderPrefix
<1> QED BY <1>2 DEF PipelineInvariant, OrderIndexed

\* Following has_more through the responses of handle_sync_request brings every
\* stored frame of a room exactly once, in every runtime and after every crash.
THEOREM SyncCoversLog == Spec => []SyncResponsesCoverLog
<1>1. PipelineInvariant => SyncResponsesCoverLog
    <2> SUFFICES ASSUME PipelineInvariant, NEW r \in Rooms,
                        NEW from \in 0..Len(frames[r]) + 1,
                        NEW limit \in 1..Len(frames[r]) + 1
                 PROVE  LET loaded == LoadFrames(r, from, limit)
                        IN  /\ \A i \in 1..Len(loaded) : loaded[i].log_index = from + i - 1
                            /\ from + Len(loaded) < Len(frames[r]) <=> HasMore(r, from, loaded)
                            /\ from < Len(frames[r]) => loaded # <<>>
        BY DEF SyncResponsesCoverLog
    <2> DEFINE n == Len(frames[r])
               end == IF from + limit < n THEN from + limit ELSE n
               loaded == LoadFrames(r, from, limit)
    <2>1. frames[r] \in Seq(Frame)
        BY DEF PipelineInvariant, TypeOK, StorageTypeOK
    <2>2. n \in Nat /\ from \in Nat /\ limit \in Nat /\ limit >= 1 /\ end \in Nat
        BY <2>1
    <2>3. loaded = SubSeq(frames[r], from + 1, end)
        BY DEF LoadFrames
    <2>4. CASE from < n
        <3>1. from + 1 \in 1..n /\ end \in from + 1..n
            BY <2>2, <2>4
        <3>2. /\ loaded \in Seq(Frame)
              /\ Len(loaded) = end - from
              /\ \A i \in 1..Len(loaded) : loaded[i] = frames[r][from + i]
            BY <2>1, <2>2, <2>3, <3>1
        <3>3. \A i \in 1..Len(loaded) : loaded[i].log_index = from + i - 1
            <4> SUFFICES ASSUME NEW i \in 1..Len(loaded)
                         PROVE  loaded[i].log_index = from + i - 1
                OBVIOUS
            <4>1. from + i \in 1..n /\ i \in Nat
                BY <2>2, <3>1, <3>2
            <4>2. frames[r][from + i].log_index = (from + i) - 1
                BY <4>1, StoredIndexed
            <4> HIDE DEF loaded
            <4> QED BY <3>2, <4>2
        <3>4. loaded # <<>> /\ frames[r] # <<>>
            BY <2>1, <2>2, <2>4, <3>1, <3>2
        <3>5. HasMore(r, from, loaded) <=> end - 1 < n - 1
            BY <2>2, <3>1, <3>2, <3>4 DEF HasMore, LastLoaded
        <3> HIDE DEF loaded
        <3>6. from + Len(loaded) < n <=> HasMore(r, from, loaded)
            BY <2>2, <3>1, <3>2, <3>5
        <3> QED BY <3>3, <3>4, <3>6 DEF loaded
    <2>5. CASE ~(from < n)
        <3>1. loaded = <<>> /\ Len(loaded) = 0
            BY <2>1, <2>2, <2>3, <2>5
        <3>2. ~HasMore(r, from, loaded)
            BY <2>1, <2>2, <2>5, <3>1 DEF HasMore, LastLoaded
        <3> HIDE DEF loaded
        <3> QED BY <2>2, <2>5, <3>1, <3>2 DEF loaded
    <2> QED BY <2>4, <2>5
<1> QED BY <1>1, PipelineInvariantHolds, PTL

-----------------------------------------------------------------------------
(* Epochs.                                                                 *)

\* The group of room r exists and has reached epoch e.
Reached(r, e) == groups[r] # NoGroup /\ e <= groups[r].epoch

\* A frame is numbered in the epoch of its group.
OrderReached ==
    \A r \in Rooms : \A i \in 1..Len(assigned[r]) : Reached(r, assigned[r][i].epoch)

OrderAscends ==
    \A r \in Rooms : \A i, j \in 1..Len(assigned[r]) :
        i < j => assigned[r][i].epoch <= assigned[r][j].epoch

\* States wait in the action lists of several tasks, in any order.
PendingStatesReached ==
    \A t \in Tasks : \A k \in 1..Len(pending[t]) :
        pending[t][k].type = "PersistMlsState" =>
            Reached(pending[t][k].room, pending[t][k].state.epoch)

StoredStatesReached ==
    \A r \in Rooms : mls_states[r] # NoState => Reached(r, mls_states[r].epoch)

\* With PipelineInvariant, inductive until the first restart.
EpochInvariant ==
    restarts = 0 =>
        OrderReached /\ OrderAscends /\ PendingStatesReached /\ StoredStatesReached

-----------------------------------------------------------------------------
\* merge_pending_commit and merge_staged_commit advance one group by one epoch.
LEMMA MergeAdvances ==
    ASSUME PipelineInvariant, NEW f \in Incoming, NEW ms \in SUBSET Users, MergeCommit(f, ms)
    PROVE  /\ f.room \in Rooms
           /\ groups[f.room] \in Group
           /\ groups[f.room] # NoGroup
           /\ Merged(groups[f.room], ms) \in Group
           /\ Merged(groups[f.room], ms).epoch = groups[f.room].epoch + 1
           /\ groups' = [groups EXCEPT ![f.room] = Merged(groups[f.room], ms)]
<1>1. f.room \in Rooms
    BY IncomingIsFrame DEF PipelineInvariant, TypeOK
<1>2. /\ groups[f.room] # NoGroup
      /\ groups' = [groups EXCEPT ![f.room] = Merged(groups[f.room], ms)]
    BY DEF MergeCommit, Admissible, ValidBasic
<1>3. groups[f.room] \in Group /\ Merged(groups[f.room], ms) \in Group
    BY <1>1, <1>2, MergedGroup
<1> QED BY <1>1, <1>2, <1>3 DEF Merged

\* A step that is no restart takes no group back: what was reached stays reached.
LEMMA ReachedStays ==
    ASSUME PipelineInvariant, [Next]_vars, restarts' = restarts,
           NEW r \in Rooms, NEW e \in Nat, Reached(r, e)
    PROVE  Reached(r, e)'
<1>1. groups \in [Rooms -> Group \cup {NoGroup}]
    BY DEF PipelineInvariant, TypeOK, RoomManagerTypeOK
<1>2. groups[r] \in Group /\ groups[r] # NoGroup /\ e <= groups[r].epoch
    BY <1>1 DEF Reached
<1>3. groups[r].epoch \in Nat
    BY <1>2 DEF Group
<1>4. CASE groups' = groups
    BY <1>4 DEF Reached
<1>5. ASSUME NEW f \in Incoming, NEW ms \in SUBSET Users, MergeCommit(f, ms)
      PROVE  Reached(r, e)'
    <2>1. /\ f.room \in Rooms
          /\ Merged(groups[f.room], ms) \in Group
          /\ Merged(groups[f.room], ms).epoch = groups[f.room].epoch + 1
          /\ groups' = [groups EXCEPT ![f.room] = Merged(groups[f.room], ms)]
        BY <1>5, MergeAdvances
    <2>2. CASE f.room = r
        <3>1. groups'[r] \in Group /\ groups'[r].epoch = groups[r].epoch + 1
            BY <2>1, <2>2, <1>1
        <3>2. e <= groups'[r].epoch
            BY <3>1, <1>2, <1>3
        <3> QED BY <3>1, <3>2, RoomManagerAssumption DEF Reached
    <2>3. CASE f.room # r
        <3>1. groups'[r] = groups[r]
            BY <2>1, <2>3, <1>1
        <3> QED BY <3>1, <1>2 DEF Reached
    <2> QED BY <2>2, <2>3
<1>6. ASSUME NEW t \in Tasks, NEW f \in Incoming,
             Refuse(t, f) \/ Overflow(t, f) \/ Welcome(t, f) \/ Message(t, f)
      PROVE  groups' = groups
    BY <1>6 DEF Refuse, RefuseFrame, Overflow, RefuseOverflow, Welcome, RelayWelcome,
                Message, SequenceMessage, roomVars
<1>7. ASSUME NEW t \in Tasks, NEW f \in Incoming, Drop(t, f) \/ Commit(t, f)
      PROVE  groups' = groups \/ \E ms \in SUBSET Users : MergeCommit(f, ms)
    BY <1>7 DEF Drop, RefuseSequenced, RefuseEvicting, Commit, SequenceIgnoredCommit,
                SequenceCommit
<1>8. ASSUME NEW t \in Tasks, Exec(t)
      PROVE  groups' = groups
    BY <1>8 DEF Exec, ExecPersist, ExecPersistState, ExecFailed, ExecBroadcast, roomVars
<1>9. ASSUME Embedder
      PROVE  Reached(r, e)'
    <2>1. PICK q \in Rooms, u \in Users :
              CreateRoom(q, u) \/ AddMembers(q, u) \/ RemoveMembers(q, u)
        BY <1>9 DEF Embedder
    <2>2. CASE CreateRoom(q, u)
        <3>1. q # r
            BY <2>2, <1>2 DEF CreateRoom
        <3>2. groups'[r] = groups[r]
            BY <2>2, <3>1, <1>1 DEF CreateRoom
        <3> QED BY <3>2, <1>2 DEF Reached
    <2>3. CASE AddMembers(q, u) \/ RemoveMembers(q, u)
        <3>1. groups[q] \in Group
            BY <2>3, <1>1 DEF AddMembers, RemoveMembers, CanPropose
        <3>2. PICK ms \in SUBSET Users :
                  groups' = [groups EXCEPT ![q] = [groups[q] EXCEPT !.pending = ms]]
            BY <2>3, <3>1 DEF AddMembers, RemoveMembers, Adding, Removing, Group
        <3>3. /\ [groups[q] EXCEPT !.pending = ms] \in Group
              /\ [groups[q] EXCEPT !.pending = ms].epoch = groups[q].epoch
            BY <3>1 DEF Group
        <3>4. groups'[r] \in Group /\ groups'[r].epoch = groups[r].epoch
            BY <3>2, <3>3, <1>1, <1>2
        <3> QED BY <3>4, <1>2, RoomManagerAssumption DEF Reached
    <2> QED BY <2>1, <2>2, <2>3
<1>10. ~Restart
    BY PipelineAssumption DEF Restart, PipelineInvariant, TypeOK
<1>11. UNCHANGED vars => groups' = groups
    BY DEF vars, roomVars
<1> QED BY <1>4, <1>5, <1>6, <1>7, <1>8, <1>9, <1>10, <1>11 DEF Next

\* A frame is numbered only in the epoch of its group (validate_frame_basic).
LEMMA NumberedInEpoch ==
    ASSUME PipelineInvariant, [Next]_vars, restarts' = restarts
    PROVE  \/ assigned' = assigned
           \/ \E f \in Incoming :
                 Numbered(f) /\ groups[f.room] # NoGroup /\ f.epoch = groups[f.room].epoch
<1>1. ASSUME NEW t \in Tasks, NEW f \in Incoming,
             Refuse(t, f) \/ Overflow(t, f) \/ Welcome(t, f)
      PROVE  assigned' = assigned
    BY <1>1 DEF Refuse, Overflow, Welcome, historyVars
<1>2. ASSUME NEW t \in Tasks, NEW f \in Incoming,
             Drop(t, f) \/ Message(t, f) \/ Commit(t, f)
      PROVE  Numbered(f) /\ Admissible(f)
    BY <1>2 DEF Drop, RefuseSequenced, RefuseEvicting, Message, SequenceMessage, Commit,
                SequenceIgnoredCommit, SequenceCommit, MergeCommit
<1>3. \A f \in Incoming : Admissible(f) =>
          groups[f.room] # NoGroup /\ f.epoch = groups[f.room].epoch
    BY DEF Admissible, ValidBasic
<1>4. ASSUME NEW t \in Tasks, Exec(t)
      PROVE  assigned' = assigned
    BY <1>4 DEF Exec, ExecPersist, ExecPersistState, ExecFailed, ExecBroadcast, historyVars
<1>5. Embedder \/ UNCHANGED vars => assigned' = assigned
    BY DEF Embedder, vars, historyVars
<1>6. ~Restart
    BY PipelineAssumption DEF Restart, PipelineInvariant, TypeOK
<1> QED BY <1>1, <1>2, <1>3, <1>4, <1>5, <1>6 DEF Next

\* Numbering keeps the epochs of every order ascending and reached.
LEMMA NumberingKeepsEpochs ==
    ASSUME PipelineInvariant, OrderReached, OrderAscends, NEW f \in Incoming, Numbered(f),
           groups[f.room] # NoGroup, f.epoch = groups[f.room].epoch, NEW r \in Rooms
    PROVE  /\ \A i \in 1..Len(assigned'[r]) : Reached(r, assigned'[r][i].epoch)
           /\ \A i, j \in 1..Len(assigned'[r]) :
                 i < j => assigned'[r][i].epoch <= assigned'[r][j].epoch
<1>1. f.room \in Rooms /\ f.epoch \in Nat /\ Sequenced(f) \in Frame /\ Sequenced(f).epoch = f.epoch
    BY IncomingIsFrame, SequencedFrame DEF PipelineInvariant, TypeOK
<1>2. /\ assigned \in [Rooms -> Seq(Frame)]
      /\ assigned' = [assigned EXCEPT ![f.room] = Append(assigned[f.room], Sequenced(f))]
    BY DEF PipelineInvariant, TypeOK, Numbered
<1>3. CASE f.room # r
    <2>1. assigned'[r] = assigned[r]
        BY <1>1, <1>2, <1>3
    <2> QED BY <2>1 DEF OrderReached, OrderAscends
<1>4. CASE f.room = r
    <2> DEFINE s == assigned[r]
               n == Append(s, Sequenced(f))
    <2>1. s \in Seq(Frame) /\ assigned'[r] = n
        BY <1>1, <1>2, <1>4
    <2>2. /\ Len(s) \in Nat
          /\ Len(n) = Len(s) + 1
          /\ \A i \in 1..Len(s) : n[i] = s[i]
          /\ n[Len(s) + 1] = Sequenced(f)
        BY <2>1, <1>1, AppendKeepsOrder
    <2>3. /\ \A i \in 1..Len(s) : Reached(r, s[i].epoch)
          /\ \A i, j \in 1..Len(s) : i < j => s[i].epoch <= s[j].epoch
        BY DEF OrderReached, OrderAscends
    <2>4. Reached(r, f.epoch)
        BY <1>1, <1>4 DEF Reached
    <2> HIDE DEF s, n
    <2>5. \A i \in 1..Len(n) : Reached(r, n[i].epoch)
        <3> TAKE i \in 1..Len(n)
        <3>1. i \in 1..Len(s) \/ i = Len(s) + 1
            BY <2>2
        <3> QED BY <3>1, <2>2, <2>3, <2>4, <1>1
    <2>6. \A i \in 1..Len(s) : s[i].epoch <= f.epoch
        BY <2>3, <1>4 DEF Reached
    <2>7. \A i, j \in 1..Len(n) : i < j => n[i].epoch <= n[j].epoch
        <3> SUFFICES ASSUME NEW i \in 1..Len(n), NEW j \in 1..Len(n), i < j
                     PROVE  n[i].epoch <= n[j].epoch
            OBVIOUS
        <3>1. i \in 1..Len(s) /\ (j \in 1..Len(s) \/ j = Len(s) + 1)
            BY <2>2
        <3>2. CASE j \in 1..Len(s)
            BY <3>1, <3>2, <2>2, <2>3
        <3>3. CASE j = Len(s) + 1
            BY <3>1, <3>3, <2>2, <2>6, <1>1
        <3> QED BY <3>1, <3>2, <3>3
    <2> QED BY <2>1, <2>5, <2>7
<1> QED BY <1>3, <1>4

\* The state a Commit hands out is that of its group after the step.
LEMMA CommitStateReached ==
    ASSUME PipelineInvariant, NEW t \in Tasks, NEW f \in Incoming, Commit(t, f)
    PROVE  /\ f.room \in Rooms
           /\ \E st \in MlsGroupState :
                 Return(t, CommitActions(f, st)) /\ Reached(f.room, st.epoch)'
<1>1. f.room \in Rooms
    BY IncomingIsFrame DEF PipelineInvariant, TypeOK
<1>2. \A g \in Group : g.epoch \in Nat /\ ExportState(g).epoch = g.epoch
    BY DEF Group, ExportState
<1>3. CASE /\ SequenceIgnoredCommit(f)
           /\ Return(t, CommitActions(f, ExportState(groups[f.room])))
    <2>1. groups[f.room] # NoGroup /\ groups' = groups
        BY <1>3 DEF SequenceIgnoredCommit, Admissible, ValidBasic
    <2>2. groups[f.room] \in Group /\ ExportState(groups[f.room]) \in MlsGroupState
        BY <1>1, <2>1, MergedGroup
    <2>3. PICK st \in MlsGroupState : st = ExportState(groups[f.room])
        BY <2>2
    <2>4. groups'[f.room] = groups[f.room] /\ st.epoch = groups[f.room].epoch
        BY <2>1, <2>2, <2>3, <1>2
    <2>5. Reached(f.room, st.epoch)'
        BY <2>1, <2>2, <2>4, <1>2 DEF Reached
    <2> QED BY <1>1, <1>3, <2>3, <2>5
<1>4. CASE \E ms \in SUBSET Users \ {{}} :
              /\ SequenceCommit(f, ms)
              /\ Return(t, CommitActions(f, ExportState(Merged(groups[f.room], ms))))
    <2>1. PICK ms \in SUBSET Users :
              /\ MergeCommit(f, ms)
              /\ Return(t, CommitActions(f, ExportState(Merged(groups[f.room], ms))))
        BY <1>4 DEF SequenceCommit
    <2>2. PICK g \in Group : g = Merged(groups[f.room], ms)
        BY <2>1, MergeAdvances
    <2>3. /\ groups[f.room] # NoGroup
          /\ groups' = [groups EXCEPT ![f.room] = g]
        BY <2>1, <2>2, MergeAdvances
    <2>4. PICK st \in MlsGroupState : st = ExportState(g)
        BY <1>1, <2>2, <2>3, MergedGroup
    <2>5. groups'[f.room] = g
        BY <1>1, <2>3 DEF PipelineInvariant, TypeOK, RoomManagerTypeOK
    <2>6. g # NoGroup /\ g.epoch \in Nat /\ st.epoch = g.epoch
        BY <2>4, <1>2, RoomManagerAssumption
    <2>7. Reached(f.room, st.epoch)'
        BY <2>5, <2>6 DEF Reached
    <2> QED BY <1>1, <2>1, <2>2, <2>4, <2>7
<1> QED BY <1>3, <1>4 DEF Commit

\* A state is in a task's list because it was there before, or because this step
\* exported it from a group that has reached its epoch.
LEMMA PendingStateComesFromGroup ==
    ASSUME PipelineInvariant, [Next]_vars, restarts' = restarts,
           NEW t \in Tasks, NEW k \in 1..Len(pending'[t]),
           pending'[t][k].type = "PersistMlsState"
    PROVE  \/ \E j \in 1..Len(pending[t]) : pending'[t][k] = pending[t][j]
           \/ Reached(pending[t][k].room, pending[t][k].state.epoch)'
<1> DEFINE Before == \E j \in 1..Len(pending[t]) : pending'[t][k] = pending[t][j]
           Goal == Before \/ Reached(pending[t][k].room, pending[t][k].state.epoch)'
<1>1. pending \in [Tasks -> Seq(RoomAction)]
    BY DEF PipelineInvariant, TypeOK
<1>2. CASE pending' = pending
    BY <1>2
<1>3. ASSUME NEW u \in Tasks, NEW acts, Return(u, acts)
      PROVE  Before \/ (k \in 1..Len(acts) /\ pending'[t][k] = acts[k])
    <2>1. pending' = [pending EXCEPT ![u] = acts]
        BY <1>3 DEF Return
    <2> QED BY <2>1, <1>1
<1>4. ASSUME NEW u \in Tasks, Exec(u)
      PROVE  Before
    <2>1. /\ pending[u] \in Seq(RoomAction)
          /\ pending[u] # <<>>
          /\ pending' = [pending EXCEPT ![u] = Tail(pending[u])]
        BY <1>1, <1>4 DEF Exec, ExecPersist, ExecPersistState, ExecFailed, ExecBroadcast,
                          Executing, Advance
    <2>2. \A j \in 1..Len(Tail(pending[u])) :
              j + 1 \in 1..Len(pending[u]) /\ Tail(pending[u])[j] = pending[u][j + 1]
        BY <2>1, TailActions
    <2> QED BY <2>1, <2>2, <1>1
<1>5. ASSUME NEW u \in Tasks, NEW f \in Incoming,
             Refuse(u, f) \/ Overflow(u, f) \/ Drop(u, f)
      PROVE  pending' = pending
    BY <1>5 DEF Refuse, Overflow, Drop, runtimeVars
<1>6. \A f : /\ Broadcast(f).type # "PersistMlsState"
            /\ Persist(f).type # "PersistMlsState"
    BY DEF Broadcast, Persist
<1>7. ASSUME NEW u \in Tasks, NEW f \in Incoming, Welcome(u, f)
      PROVE  Before
    <2>1. Return(u, <<Broadcast(f)>>)
        BY <1>7 DEF Welcome
    <2>2. \A j \in 1..Len(<<Broadcast(f)>>) : <<Broadcast(f)>>[j] = Broadcast(f)
        OBVIOUS
    <2> QED BY <2>1, <2>2, <1>3, <1>6
<1>8. ASSUME NEW u \in Tasks, NEW f \in Incoming, Message(u, f)
      PROVE  Before
    <2>1. [epoch |-> 0, members |-> {}] \in MlsGroupState
        BY DEF MlsGroupState
    <2>2. \A j \in 1..Len(MessageActions(f)) :
              MessageActions(f)[j] \in {Persist(Sequenced(f)), Broadcast(Sequenced(f))}
        BY <2>1, ActionLists
    <2>3. Return(u, MessageActions(f))
        BY <1>8 DEF Message
    <2>4. \A j \in 1..Len(MessageActions(f)) : MessageActions(f)[j].type # "PersistMlsState"
        BY <2>2, <1>6
    <2> QED BY <2>3, <2>4, <1>3
<1>9. ASSUME NEW u \in Tasks, NEW f \in Incoming, Commit(u, f)
      PROVE  Goal
    <2>1. PICK st \in MlsGroupState :
              Return(u, CommitActions(f, st)) /\ Reached(f.room, st.epoch)'
        BY <1>9, CommitStateReached
    <2>2. CASE Before
        BY <2>2
    <2>3. CASE k \in 1..Len(CommitActions(f, st)) /\ pending'[t][k] = CommitActions(f, st)[k]
        <3>1. pending'[t][k] \in
                  {Persist(Sequenced(f)), Broadcast(Sequenced(f)), PersistState(f.room, st)}
            BY <2>3, ActionLists
        <3>2. pending'[t][k] = PersistState(f.room, st)
            BY <3>1, <1>6
        <3>3. pending'[t][k].room = f.room /\ pending'[t][k].state = st
            BY <3>2 DEF PersistState
        <3> QED BY <3>3, <2>1 DEF Reached
    <2> QED BY <2>1, <2>2, <2>3, <1>3
<1>10. Embedder \/ UNCHANGED vars => pending' = pending
    BY DEF Embedder, vars, runtimeVars
<1>11. ~Restart
    BY PipelineAssumption DEF Restart, PipelineInvariant, TypeOK
<1> QED BY <1>2, <1>4, <1>5, <1>7, <1>8, <1>9, <1>10, <1>11 DEF Next

\* A stored state is the one stored before, or one that a task had in its list.
LEMMA StoredStateWasPending ==
    ASSUME PipelineInvariant, [Next]_vars, restarts' = restarts, NEW r \in Rooms
    PROVE  \/ mls_states'[r] = mls_states[r]
           \/ \E t \in Tasks : \E k \in 1..Len(pending[t]) :
                 /\ pending[t][k].type = "PersistMlsState"
                 /\ pending[t][k].room = r
                 /\ pending[t][k].state = mls_states'[r]
<1>1. /\ pending \in [Tasks -> Seq(RoomAction)]
      /\ mls_states \in [Rooms -> MlsGroupState \cup {NoState}]
    BY DEF PipelineInvariant, TypeOK, StorageTypeOK
<1>2. ASSUME NEW t \in Tasks, ExecPersistState(t)
      PROVE  \/ mls_states'[r] = mls_states[r]
             \/ \E k \in 1..Len(pending[t]) :
                   /\ pending[t][k].type = "PersistMlsState"
                   /\ pending[t][k].room = r
                   /\ pending[t][k].state = mls_states'[r]
    <2> DEFINE a == Head(pending[t])
    <2>1. /\ pending[t] \in Seq(RoomAction)
          /\ pending[t] # <<>>
          /\ a.type = "PersistMlsState"
          /\ mls_states' = [mls_states EXCEPT ![a.room] = a.state]
        BY <1>1, <1>2 DEF ExecPersistState, Executing, StoreMlsState
    <2>2. 1 \in 1..Len(pending[t]) /\ pending[t][1] = a /\ a \in RoomAction
        BY <2>1, TailActions
    <2> HIDE DEF a
    <2>3. a.room \in Rooms
        BY <2>1, <2>2 DEF RoomAction
    <2>4. CASE a.room = r
        BY <2>1, <2>2, <2>4, <1>1
    <2>5. CASE a.room # r
        BY <2>1, <2>3, <2>5, <1>1
    <2> QED BY <2>4, <2>5
<1>3. ASSUME NEW t \in Tasks, ExecPersist(t) \/ ExecFailed(t) \/ ExecBroadcast(t)
      PROVE  mls_states' = mls_states
    BY <1>3 DEF ExecPersist, ExecFailed, ExecBroadcast, StoreFrame, storageVars
<1>4. ASSUME NEW t \in Tasks, NEW f \in Incoming,
             \/ Refuse(t, f) \/ Overflow(t, f) \/ Welcome(t, f)
             \/ Drop(t, f) \/ Message(t, f) \/ Commit(t, f)
      PROVE  mls_states' = mls_states
    BY <1>4 DEF Refuse, Overflow, Welcome, Drop, Message, Commit, storageVars
<1>5. Embedder \/ UNCHANGED vars => mls_states' = mls_states
    BY DEF Embedder, vars, storageVars
<1>6. ~Restart
    BY PipelineAssumption DEF Restart, PipelineInvariant, TypeOK
<1> QED BY <1>2, <1>3, <1>4, <1>5, <1>6 DEF Next, Exec

-----------------------------------------------------------------------------
\* Initially nothing is numbered, outstanding or stored.
LEMMA InitEpochs == Init => EpochInvariant
<1> SUFFICES ASSUME Init PROVE EpochInvariant
    OBVIOUS
<1>1. \A r \in Rooms : assigned[r] = <<>> /\ mls_states[r] = NoState
    BY DEF Init, StorageInit
<1>2. \A t \in Tasks : pending[t] = <<>>
    BY DEF Init
<1>3. OrderReached /\ OrderAscends
    BY <1>1 DEF OrderReached, OrderAscends
<1>4. PendingStatesReached /\ StoredStatesReached
    BY <1>1, <1>2 DEF PendingStatesReached, StoredStatesReached
<1> QED BY <1>3, <1>4 DEF EpochInvariant

\* Every step preserves the epoch invariant, one conjunct at a time.
LEMMA NextKeepsEpochs ==
    ASSUME PipelineInvariant, PipelineInvariant', EpochInvariant, [Next]_vars
    PROVE  EpochInvariant'
<1>1. restarts \in Nat /\ (restarts' = restarts \/ restarts' = restarts + 1)
    <2>1. restarts \in Nat
        BY PipelineAssumption DEF PipelineInvariant, TypeOK
    <2>2. [Next]_vars => restarts' = restarts \/ restarts' = restarts + 1
        BY DEF Next, vars, boundVars, Refuse, Overflow, Welcome, Drop, Message, Commit, Exec,
               ExecPersist, ExecPersistState, ExecFailed, ExecBroadcast, Embedder, Restart
    <2> QED BY <2>1, <2>2
<1> SUFFICES ASSUME restarts' = 0
             PROVE  (OrderReached /\ OrderAscends /\ PendingStatesReached
                        /\ StoredStatesReached)'
    BY DEF EpochInvariant
<1>2. restarts = 0 /\ restarts' = restarts
    BY <1>1
<1>3. OrderReached /\ OrderAscends /\ PendingStatesReached /\ StoredStatesReached
    BY <1>2 DEF EpochInvariant
<1>4. ASSUME NEW r \in Rooms, NEW e \in Nat, Reached(r, e)
      PROVE  Reached(r, e)'
    BY <1>2, <1>4, ReachedStays
<1>5. OrderReached' /\ OrderAscends'
    <2>1. ASSUME NEW r \in Rooms
          PROVE  /\ \A i \in 1..Len(assigned'[r]) : Reached(r, assigned'[r][i].epoch)
                 /\ \A i, j \in 1..Len(assigned'[r]) :
                       i < j => assigned'[r][i].epoch <= assigned'[r][j].epoch
        <3>1. CASE assigned' = assigned
            BY <3>1, <1>3 DEF OrderReached, OrderAscends
        <3> QED BY <3>1, <1>2, <1>3, NumberedInEpoch, NumberingKeepsEpochs
    <2>2. ASSUME NEW r \in Rooms, NEW i \in 1..Len(assigned'[r])
          PROVE  Reached(r, assigned[r][i].epoch)'
        <3>1. assigned'[r] \in Seq(Frame)
            BY DEF PipelineInvariant, TypeOK
        <3>2. assigned'[r][i] \in Frame
            BY <3>1
        <3>3. PICK e \in Nat : e = assigned'[r][i].epoch
            BY <3>2 DEF Frame
        <3>4. Reached(r, e)
            BY <3>3, <2>1
        <3>5. Reached(r, e)'
            BY <3>4, <1>4
        <3> QED BY <3>3, <3>5 DEF Reached
    <2> QED BY <2>1, <2>2 DEF OrderReached, OrderAscends
<1>6. PendingStatesReached'
    <2> SUFFICES ASSUME NEW t \in Tasks, NEW k \in 1..Len(pending'[t]),
                        pending'[t][k].type = "PersistMlsState"
                 PROVE  Reached(pending[t][k].room, pending[t][k].state.epoch)'
        BY DEF PendingStatesReached
    <2>1. CASE Reached(pending[t][k].room, pending[t][k].state.epoch)'
        BY <2>1
    <2>2. ASSUME NEW j \in 1..Len(pending[t]), pending'[t][k] = pending[t][j]
          PROVE  Reached(pending[t][k].room, pending[t][k].state.epoch)'
        <3>1. pending[t] \in Seq(RoomAction)
            BY DEF PipelineInvariant, TypeOK
        <3>2. pending[t][j] \in RoomAction /\ pending[t][j].type = "PersistMlsState"
            BY <3>1, <2>2
        <3>3. PICK r \in Rooms, e \in Nat :
                  r = pending[t][j].room /\ e = pending[t][j].state.epoch
            BY <3>2 DEF RoomAction, MlsGroupState
        <3>4. Reached(r, e)
            BY <3>2, <3>3, <1>3 DEF PendingStatesReached
        <3>5. Reached(r, e)'
            BY <3>4, <1>4
        <3> QED BY <3>3, <3>5, <2>2 DEF Reached
    <2> QED BY <2>1, <2>2, <1>2, PendingStateComesFromGroup
<1>7. StoredStatesReached'
    <2> SUFFICES ASSUME NEW r \in Rooms, mls_states'[r] # NoState
                 PROVE  Reached(r, mls_states[r].epoch)'
        BY DEF StoredStatesReached
    <2>1. mls_states'[r] \in MlsGroupState
        BY DEF PipelineInvariant, TypeOK, StorageTypeOK
    <2>2. PICK e \in Nat : e = mls_states'[r].epoch
        BY <2>1 DEF MlsGroupState
    <2>3. Reached(r, e)
        <3>1. CASE mls_states'[r] = mls_states[r]
            BY <3>1, <2>2, <1>3 DEF StoredStatesReached
        <3>2. ASSUME NEW t \in Tasks, NEW k \in 1..Len(pending[t]),
                     pending[t][k].type = "PersistMlsState", pending[t][k].room = r,
                     pending[t][k].state = mls_states'[r]
              PROVE  Reached(r, e)
            BY <3>2, <2>2, <1>3 DEF PendingStatesReached
        <3> QED BY <3>1, <3>2, <1>2, StoredStateWasPending
    <2>4. Reached(r, e)'
        BY <2>3, <1>4
    <2> QED BY <2>2, <2>4 DEF Reached
<1> QED BY <1>5, <1>6, <1>7

\* Epochs are in order and no state is ahead, in every reachable state.
THEOREM EpochInvariantHolds == Spec => []EpochInvariant
<1>1. PipelineInvariant /\ PipelineInvariant' /\ EpochInvariant /\ [Next]_vars => EpochInvariant'
    BY NextKeepsEpochs
<1> QED BY <1>1, InitEpochs, PipelineInvariantHolds, PTL DEF Spec

\* Epochs never decrease along the stored log of a room, whatever commits race
\* (validate_frame_basic, process_frame).
THEOREM LogEpochsAscend == Spec => []LogEpochsOrdered
<1>1. PipelineInvariant /\ EpochInvariant => LogEpochsOrdered
    <2> SUFFICES ASSUME PipelineInvariant, EpochInvariant, restarts = 0, NEW r \in Rooms,
                        NEW i \in 1..Len(frames[r]), NEW j \in 1..Len(frames[r]), i < j
                 PROVE  frames[r][i].epoch <= frames[r][j].epoch
        BY DEF LogEpochsOrdered
    <2>1. frames[r] \in Seq(Frame) /\ assigned[r] \in Seq(Frame)
        BY DEF PipelineInvariant, TypeOK, StorageTypeOK
    <2>2. /\ Len(frames[r]) <= Len(assigned[r])
          /\ frames[r][i] = assigned[r][i] /\ frames[r][j] = assigned[r][j]
        BY DEF PipelineInvariant, LogIsOrderPrefix
    <2>3. i \in 1..Len(assigned[r]) /\ j \in 1..Len(assigned[r])
        BY <2>1, <2>2
    <2> QED BY <2>2, <2>3 DEF EpochInvariant, OrderAscends
<1> QED BY <1>1, EpochInvariantHolds, PipelineInvariantHolds, PTL

\* The persisted MLS state is never ahead of the group it was exported from,
\* whichever task's PersistMlsState came last (execute_actions).
THEOREM StoredStateBehindGroup == Spec => []StoredStateNotAhead
<1>1. EpochInvariant => StoredStateNotAhead
    BY DEF EpochInvariant, StoredStatesReached, Reached, StoredStateNotAhead
<1> QED BY <1>1, EpochInvariantHolds, PTL
=============================================================================
