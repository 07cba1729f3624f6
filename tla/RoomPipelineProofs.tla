------------------------- MODULE RoomPipelineProofs -------------------------
(***************************************************************************)
(* Proofs about RoomPipeline: the inductive invariant and the safety       *)
(* properties that follow from it, for every set of rooms, users and       *)
(* tasks, every runtime and every bound.                                   *)
(***************************************************************************)
EXTENDS RoomPipeline, TLAPS

-----------------------------------------------------------------------------
(* Facts about frames, action lists and sequences.                         *)

\* A received frame is a frame, before and after the sequencer numbers it.
LEMMA IncomingIsFrame ==
    ASSUME received \in Nat, NEW f \in Incoming
    PROVE  /\ f \in Frame
           /\ f.room \in Rooms
           /\ f.epoch \in Nat
<1>1. 0..(MAX_EPOCH + 1) \subseteq Nat
    BY SequencerAssumption
<1>2. Signatures \subseteq BOOLEAN /\ Structures \subseteq BOOLEAN
    BY PipelineAssumption
<1> QED BY <1>1, <1>2 DEF Incoming, Frame

\* The counter the sequencer uses is the length of the order, and a number.
LEMMA NextIndexIsOrderLength ==
    ASSUME PipelineInvariant, NEW r \in Rooms
    PROVE  /\ NextIndex(r) = Len(assigned[r])
           /\ NextIndex(r) \in 0..MAX_LOG_INDEX
<1>1. frames[r] \in Seq(Frame) /\ assigned[r] \in Seq(Frame)
    BY DEF PipelineInvariant, TypeOK, StorageTypeOK
<1>2. Len(assigned[r]) \in Nat /\ Len(assigned[r]) <= MAX_LOG_INDEX
    BY <1>1 DEF PipelineInvariant, CounterIsOrderLength
<1> QED BY <1>1, <1>2, SequencerAssumption
        DEF PipelineInvariant, CounterIsOrderLength, NextIndex, NextFromStorage

\* What rebuild_frame_with_index returns.
LEMMA SequencedFrame ==
    ASSUME PipelineInvariant, NEW f \in Incoming
    PROVE  /\ Sequenced(f) \in Frame
           /\ Sequenced(f).room = f.room
           /\ Sequenced(f).opcode = f.opcode
           /\ Sequenced(f).epoch = f.epoch
           /\ Sequenced(f).log_index = Len(assigned[f.room])
<1>1. f \in Frame /\ f.room \in Rooms
    BY IncomingIsFrame DEF PipelineInvariant, TypeOK
<1>2. NextIndex(f.room) = Len(assigned[f.room]) /\ NextIndex(f.room) \in Nat
    BY <1>1, NextIndexIsOrderLength
<1> QED BY <1>1, <1>2 DEF Sequenced, Frame

\* Appending the numbered frame keeps every earlier position and adds its own.
LEMMA AppendKeepsOrder ==
    ASSUME NEW S, NEW s \in Seq(S), NEW e \in S
    PROVE  /\ Append(s, e) \in Seq(S)
           /\ Len(Append(s, e)) = Len(s) + 1
           /\ \A i \in 1..Len(s) : Append(s, e)[i] = s[i]
           /\ Append(s, e)[Len(s) + 1] = e
  OBVIOUS

\* An action list of three: its type, its length and each of its entries.
LEMMA ThreeActions ==
    ASSUME NEW S, NEW a \in S, NEW b \in S, NEW c \in S
    PROVE  /\ <<a, b, c>> \in Seq(S)
           /\ \A k \in 1..Len(<<a, b, c>>) : <<a, b, c>>[k] \in {a, b, c}
<1>1. Len(<<a, b, c>>) = 3  OBVIOUS
<1>2. \A k \in 1..3 : k = 1 \/ k = 2 \/ k = 3  OBVIOUS
<1>3. /\ <<a, b, c>>[1] = a
      /\ <<a, b, c>>[2] = b
      /\ <<a, b, c>>[3] = c
    OBVIOUS
<1> QED BY <1>1, <1>2, <1>3

\* An action list of four: its type, its length and each of its entries.
LEMMA FourActions ==
    ASSUME NEW S, NEW a \in S, NEW b \in S, NEW c \in S, NEW d \in S
    PROVE  /\ <<a, b, c, d>> \in Seq(S)
           /\ \A k \in 1..Len(<<a, b, c, d>>) :
                 <<a, b, c, d>>[k] \in {a, b, c, d}
<1>1. Len(<<a, b, c, d>>) = 4  OBVIOUS
<1>2. \A k \in 1..4 : k = 1 \/ k = 2 \/ k = 3 \/ k = 4  OBVIOUS
<1>3. /\ <<a, b, c, d>>[1] = a
      /\ <<a, b, c, d>>[2] = b
      /\ <<a, b, c, d>>[3] = c
      /\ <<a, b, c, d>>[4] = d
    OBVIOUS
<1> QED BY <1>1, <1>2, <1>3

\* What is left of an action list once its first action has been executed.
LEMMA TailActions ==
    ASSUME NEW S, NEW s \in Seq(S), s # <<>>
    PROVE  /\ Head(s) \in S
           /\ Head(s) = s[1]
           /\ 1 \in 1..Len(s)
           /\ Tail(s) \in Seq(S)
           /\ \A k \in 1..Len(Tail(s)) :
                 k + 1 \in 1..Len(s) /\ Tail(s)[k] = s[k + 1]
  OBVIOUS

-----------------------------------------------------------------------------
(* What the two kinds of step do to the order and the log.                 *)

\* Numbering a frame extends the order of its room by that frame, keeps every
\* frame in order that was, and keeps the log a prefix and the counter exact.
LEMMA NumberingStep ==
    ASSUME PipelineInvariant, NEW f \in Incoming,
           ConsumeIndex(f.room), Numbered(f), UNCHANGED frames
    PROVE  /\ assigned' \in [Rooms -> Seq(Frame)]
           /\ SequencerTypeOK'
           /\ LogIsOrderPrefix'
           /\ CounterIsOrderLength'
           /\ OrderIndexed'
           /\ AtItsIndex(assigned', Sequenced(f))
           /\ \A g \in Frame : AtItsIndex(assigned, g) => AtItsIndex(assigned', g)
<1> DEFINE r == f.room
           e == Sequenced(f)
<1>1. /\ r \in Rooms
      /\ frames \in [Rooms -> Seq(Frame)]
      /\ assigned \in [Rooms -> Seq(Frame)]
      /\ next_log_index \in [Rooms -> 0..MAX_LOG_INDEX \cup {Uncached}]
    BY IncomingIsFrame
    DEF PipelineInvariant, TypeOK, StorageTypeOK, SequencerTypeOK
<1>2. /\ e \in Frame
      /\ e.room = r
      /\ e.log_index = Len(assigned[r])
    BY SequencedFrame
<1>3. assigned' = [assigned EXCEPT ![r] = Append(assigned[r], e)]
    BY DEF Numbered
<1>4. /\ Append(assigned[r], e) \in Seq(Frame)
      /\ Len(Append(assigned[r], e)) = Len(assigned[r]) + 1
      /\ \A i \in 1..Len(assigned[r]) : Append(assigned[r], e)[i] = assigned[r][i]
      /\ Append(assigned[r], e)[Len(assigned[r]) + 1] = e
    BY <1>1, <1>2, AppendKeepsOrder
<1>5. assigned' \in [Rooms -> Seq(Frame)]
    BY <1>1, <1>3, <1>4
<1>6. /\ \A q \in Rooms : /\ Len(assigned[q]) \in Nat
                          /\ Len(assigned[q]) <= Len(assigned'[q])
                          /\ \A i \in 1..Len(assigned[q]) : assigned'[q][i] = assigned[q][i]
      /\ assigned'[r] = Append(assigned[r], e)
      /\ \A q \in Rooms : q # r => assigned'[q] = assigned[q]
    BY <1>1, <1>3, <1>4
<1>7. /\ NextIndex(r) = Len(assigned[r])
      /\ NextIndex(r) \in 0..MAX_LOG_INDEX
      /\ NextIndex(r) < MAX_LOG_INDEX
    BY <1>1, NextIndexIsOrderLength, SequencerAssumption
    DEF ConsumeIndex, IndexOverflows
<1>8. next_log_index' = [next_log_index EXCEPT ![r] = Len(assigned[r]) + 1]
    BY <1>7 DEF ConsumeIndex
<1>9. SequencerTypeOK'
    BY <1>1, <1>7, <1>8, SequencerAssumption DEF SequencerTypeOK
<1>10. LogIsOrderPrefix'
    <2> SUFFICES ASSUME NEW q \in Rooms
                 PROVE  /\ Len(frames[q]) <= Len(assigned'[q])
                        /\ \A i \in 1..Len(frames[q]) : frames[q][i] = assigned'[q][i]
        BY DEF LogIsOrderPrefix
    <2>1. Len(frames[q]) \in Nat
        BY <1>1
    <2>2. /\ Len(frames[q]) <= Len(assigned[q])
          /\ \A i \in 1..Len(frames[q]) : frames[q][i] = assigned[q][i]
        BY DEF PipelineInvariant, LogIsOrderPrefix
    <2>3. Len(assigned'[q]) \in Nat
        BY <1>5
    <2> QED BY <2>1, <2>2, <2>3, <1>6
<1>11. CounterIsOrderLength'
    <2> SUFFICES ASSUME NEW q \in Rooms
                 PROVE  /\ next_log_index'[q] # Uncached
                              => next_log_index'[q] = Len(assigned'[q])
                        /\ next_log_index'[q] = Uncached
                              => frames[q] = assigned'[q]
                        /\ Len(assigned'[q]) <= MAX_LOG_INDEX
        BY DEF CounterIsOrderLength
    <2>1. CASE q = r
        BY <2>1, <1>1, <1>4, <1>6, <1>7, <1>8, SequencerAssumption
    <2>2. CASE q # r
        BY <2>2, <1>1, <1>6, <1>8 DEF PipelineInvariant, CounterIsOrderLength
    <2> QED BY <2>1, <2>2
<1>12. AtItsIndex(assigned', e)
    BY <1>1, <1>2, <1>4, <1>6 DEF AtItsIndex
<1>13. \A g \in Frame : AtItsIndex(assigned, g) => AtItsIndex(assigned', g)
    <2> SUFFICES ASSUME NEW g \in Frame, AtItsIndex(assigned, g)
                 PROVE  AtItsIndex(assigned', g)
        OBVIOUS
    <2>1. g.room \in Rooms /\ g.log_index \in Nat
        BY DEF Frame
    <2>2. g.log_index + 1 \in 1..Len(assigned[g.room])
        BY <2>1, <1>6 DEF AtItsIndex
    <2>3. Len(assigned'[g.room]) \in Nat
        BY <2>1, <1>5
    <2> QED BY <2>1, <2>2, <2>3, <1>6 DEF AtItsIndex
<1>14. OrderIndexed'
    <2> SUFFICES ASSUME NEW q \in Rooms, NEW i \in 1..Len(assigned'[q])
                 PROVE  assigned'[q][i].room = q /\ assigned'[q][i].log_index = i - 1
        BY DEF OrderIndexed
    <2>1. CASE i \in 1..Len(assigned[q])
        BY <2>1, <1>6 DEF PipelineInvariant, OrderIndexed
    <2>2. CASE i \notin 1..Len(assigned[q])
        <3>1. q = r /\ i = Len(assigned[r]) + 1
            BY <2>2, <1>1, <1>4, <1>6
        <3> QED BY <3>1, <1>1, <1>2, <1>4, <1>6
    <2> QED BY <2>1, <2>2
<1> QED BY <1>5, <1>9, <1>10, <1>11, <1>12, <1>13, <1>14

\* Storing a frame that is in order keeps the log a prefix of the order, whether
\* store_frame takes it or refuses it.
LEMMA StoringStep ==
    ASSUME PipelineInvariant, NEW f \in Frame, AtItsIndex(assigned, f),
           StoreFrame(f.room, f.log_index, f),
           UNCHANGED <<assigned, next_log_index>>
    PROVE  /\ StorageTypeOK'
           /\ LogIsOrderPrefix'
           /\ CounterIsOrderLength'
<1> DEFINE r == f.room
<1>1. /\ r \in Rooms
      /\ f.log_index \in Nat
      /\ frames \in [Rooms -> Seq(Frame)]
      /\ assigned \in [Rooms -> Seq(Frame)]
      /\ entries \subseteq Rooms
      /\ mls_states \in [Rooms -> MlsGroupState \cup {NoState}]
    BY DEF PipelineInvariant, TypeOK, StorageTypeOK, Frame
<1>2. /\ f.log_index < Len(assigned[r])
      /\ assigned[r][f.log_index + 1] = f
    BY DEF AtItsIndex
<1>3. /\ entries' = entries \cup {r}
      /\ mls_states' = mls_states
    BY DEF StoreFrame
<1>4. CASE f.log_index # Len(frames[r])
    <2>1. frames' = frames
        BY <1>4 DEF StoreFrame
    <2> QED BY <2>1, <1>1, <1>3
            DEF PipelineInvariant, StorageTypeOK, LogIsOrderPrefix, CounterIsOrderLength
<1>5. CASE f.log_index = Len(frames[r])
    <2>1. frames' = [frames EXCEPT ![r] = Append(frames[r], f)]
        BY <1>5 DEF StoreFrame
    <2>2. /\ Append(frames[r], f) \in Seq(Frame)
          /\ Len(Append(frames[r], f)) = Len(frames[r]) + 1
          /\ \A i \in 1..Len(frames[r]) : Append(frames[r], f)[i] = frames[r][i]
          /\ Append(frames[r], f)[Len(frames[r]) + 1] = f
        BY <1>1, AppendKeepsOrder
    <2>3. StorageTypeOK'
        BY <2>1, <2>2, <1>1, <1>3 DEF StorageTypeOK
    <2>4. LogIsOrderPrefix'
        <3> SUFFICES ASSUME NEW q \in Rooms
                     PROVE  /\ Len(frames'[q]) <= Len(assigned[q])
                            /\ \A i \in 1..Len(frames'[q]) : frames'[q][i] = assigned[q][i]
            BY DEF LogIsOrderPrefix
        <3>1. /\ Len(frames[q]) \in Nat
              /\ Len(assigned[q]) \in Nat
              /\ Len(frames[q]) <= Len(assigned[q])
              /\ \A i \in 1..Len(frames[q]) : frames[q][i] = assigned[q][i]
            BY <1>1 DEF PipelineInvariant, LogIsOrderPrefix
        <3>2. CASE q # r
            BY <3>1, <3>2, <2>1, <1>1
        <3>3. CASE q = r
            <4>1. frames'[q] = Append(frames[r], f)
                BY <3>3, <2>1, <1>1
            <4>2. \A i \in 1..(Len(frames[r]) + 1) :
                      i \in 1..Len(frames[r]) \/ i = Len(frames[r]) + 1
                BY <3>1, <3>3
            <4> QED BY <4>1, <4>2, <3>1, <3>3, <2>2, <1>2, <1>5
        <3> QED BY <3>2, <3>3
    <2>5. CounterIsOrderLength'
        \* A room that is not cached has nothing left to store.
        <3>1. next_log_index[r] # Uncached
            BY <1>1, <1>2, <1>5 DEF PipelineInvariant, CounterIsOrderLength
        <3> QED BY <3>1, <2>1, <1>1 DEF PipelineInvariant, CounterIsOrderLength
    <2> QED BY <2>3, <2>4, <2>5
<1> QED BY <1>4, <1>5

\* Executing the first action of a list leaves the others in order.
LEMMA AdvanceStep ==
    ASSUME PipelineInvariant, NEW t \in Tasks, Executing(t), Advance(t),
           UNCHANGED assigned
    PROVE  /\ Head(pending[t]) \in RoomAction
           /\ Head(pending[t]) = pending[t][1]
           /\ 1 \in 1..Len(pending[t])
           /\ pending' \in [Tasks -> Seq(RoomAction)]
           /\ lock' \in Tasks \cup {Free}
           /\ PendingInOrder'
<1>1. /\ pending \in [Tasks -> Seq(RoomAction)]
      /\ lock \in Tasks \cup {Free}
      /\ pending[t] # <<>>
      /\ pending' = [pending EXCEPT ![t] = Tail(pending[t])]
      /\ lock' \in Tasks \cup {Free}
    BY DEF PipelineInvariant, TypeOK, Executing, Advance
<1>2. /\ Head(pending[t]) \in RoomAction
      /\ Head(pending[t]) = pending[t][1]
      /\ 1 \in 1..Len(pending[t])
      /\ Tail(pending[t]) \in Seq(RoomAction)
      /\ \A k \in 1..Len(Tail(pending[t])) :
            k + 1 \in 1..Len(pending[t]) /\ Tail(pending[t])[k] = pending[t][k + 1]
    BY <1>1, TailActions
<1>3. pending' \in [Tasks -> Seq(RoomAction)]
    BY <1>1, <1>2
<1>4. PendingInOrder'
    <2> SUFFICES ASSUME NEW u \in Tasks, NEW k \in 1..Len(pending'[u])
                 PROVE  \E j \in 1..Len(pending[u]) : pending'[u][k] = pending[u][j]
        BY DEF PipelineInvariant, PendingInOrder, IsSequenced
    <2>1. CASE u = t
        BY <2>1, <1>1, <1>2
    <2>2. CASE u # t
        BY <2>2, <1>1
    <2> QED BY <2>1, <2>2
<1> QED BY <1>1, <1>2, <1>3, <1>4

\* A list of which every action is in order keeps the pending actions in order,
\* also when the order has just grown.
LEMMA ReturnStep ==
    ASSUME PipelineInvariant, NEW t \in Tasks,
           NEW acts \in Seq(RoomAction), Return(t, acts),
           \A g \in Frame : AtItsIndex(assigned, g) => AtItsIndex(assigned', g),
           \A k \in 1..Len(acts) :
               /\ acts[k].type = "PersistFrame" => AtItsIndex(assigned', acts[k].frame)
               /\ acts[k].type = "Broadcast" /\ IsSequenced(acts[k].frame)
                     => AtItsIndex(assigned', acts[k].frame)
    PROVE  /\ pending' \in [Tasks -> Seq(RoomAction)]
           /\ lock' \in Tasks \cup {Free}
           /\ PendingInOrder'
<1>1. /\ pending \in [Tasks -> Seq(RoomAction)]
      /\ pending' = [pending EXCEPT ![t] = acts]
      /\ lock' \in Tasks \cup {Free}
    BY DEF PipelineInvariant, TypeOK, Return
<1>2. pending' \in [Tasks -> Seq(RoomAction)]
    BY <1>1
<1>3. PendingInOrder'
    <2> SUFFICES ASSUME NEW u \in Tasks, NEW k \in 1..Len(pending'[u])
                 PROVE  /\ pending'[u][k].type = "PersistFrame"
                              => AtItsIndex(assigned', pending'[u][k].frame)
                        /\ pending'[u][k].type = "Broadcast"
                              /\ IsSequenced(pending'[u][k].frame)
                              => AtItsIndex(assigned', pending'[u][k].frame)
        BY DEF PendingInOrder, IsSequenced
    <2>1. CASE u = t
        BY <2>1, <1>1
    <2>2. CASE u # t
        <3>1. pending'[u] = pending[u] /\ pending[u] \in Seq(RoomAction)
            BY <2>2, <1>1
        <3>2. pending[u][k] \in RoomAction
            BY <3>1
        <3>3. pending[u][k].type \in {"PersistFrame", "Broadcast"}
                  => pending[u][k].frame \in Frame
            BY <3>2 DEF RoomAction
        <3> QED BY <3>1, <3>3 DEF PipelineInvariant, PendingInOrder
    <2> QED BY <2>1, <2>2
<1> QED BY <1>1, <1>2, <1>3

\* The state after a merged commit is a state.
LEMMA MergedGroup ==
    ASSUME PipelineInvariant, NEW r \in Rooms, groups[r] # NoGroup,
           NEW ms \in SUBSET Users
    PROVE  /\ groups[r] \in Group
           /\ Merged(groups[r], ms) \in Group
           /\ ExportState(groups[r]) \in MlsGroupState
           /\ ExportState(Merged(groups[r], ms)) \in MlsGroupState
<1>1. groups[r] \in Group
    BY DEF PipelineInvariant, TypeOK, RoomManagerTypeOK
<1>2. Merged(groups[r], ms) \in Group
    BY <1>1 DEF Merged, Group
<1>3. \A g \in Group : ExportState(g) \in MlsGroupState
    BY DEF ExportState, Group, MlsGroupState
<1> QED BY <1>1, <1>2, <1>3

\* The lists process_frame returns hold actions on the numbered frame.
LEMMA ActionLists ==
    ASSUME PipelineInvariant, NEW f \in Incoming, NEW st \in MlsGroupState
    PROVE  /\ MessageActions(f) \in Seq(RoomAction)
           /\ CommitActions(f, st) \in Seq(RoomAction)
           /\ <<Broadcast(f)>> \in Seq(RoomAction)
           /\ \A k \in 1..Len(MessageActions(f)) : MessageActions(f)[k] \in
                 {Persist(Sequenced(f)), Broadcast(Sequenced(f))}
           /\ \A k \in 1..Len(CommitActions(f, st)) : CommitActions(f, st)[k] \in
                 {Persist(Sequenced(f)), Broadcast(Sequenced(f)), PersistState(f.room, st)}
<1>1. /\ f \in Frame
      /\ f.room \in Rooms
      /\ Sequenced(f) \in Frame
    BY IncomingIsFrame, SequencedFrame DEF PipelineInvariant, TypeOK
<1>2. /\ \A g \in Frame : Persist(g) \in RoomAction /\ Broadcast(g) \in RoomAction
      /\ PersistState(f.room, st) \in RoomAction
    BY <1>1 DEF Persist, Broadcast, PersistState, RoomAction
<1> DEFINE a == Persist(Sequenced(f))
           b == Broadcast(Sequenced(f))
           c == PersistState(f.room, st)
<1>3. a \in RoomAction /\ b \in RoomAction /\ c \in RoomAction
    BY <1>1, <1>2
<1> HIDE DEF a, b, c
<1>4. /\ <<a, a, b>> \in Seq(RoomAction)
      /\ \A k \in 1..Len(<<a, a, b>>) : <<a, a, b>>[k] \in {a, a, b}
    BY <1>3, ThreeActions
<1>5. /\ <<a, a, b, c>> \in Seq(RoomAction)
      /\ \A k \in 1..Len(<<a, a, b, c>>) : <<a, a, b, c>>[k] \in {a, a, b, c}
    BY <1>3, FourActions
<1>6. MessageActions(f) = <<a, a, b>> /\ CommitActions(f, st) = <<a, a, b, c>>
    BY DEF MessageActions, CommitActions, a, b, c
<1>7. Broadcast(f) \in RoomAction
    BY <1>1, <1>2
<1>8. <<Broadcast(f)>> \in Seq(RoomAction)
    BY <1>7
<1> QED BY <1>4, <1>5, <1>6, <1>8 DEF a, b, c

-----------------------------------------------------------------------------
(* The invariant is inductive: one lemma per group of actions.             *)

\* An empty server satisfies the invariant.
LEMMA InitInvariant == Init => PipelineInvariant
<1> SUFFICES ASSUME Init PROVE PipelineInvariant
    OBVIOUS
<1>1. TypeOK
    BY PipelineAssumption
    DEF Init, StorageInit, SequencerInit, RoomManagerInit,
        TypeOK, StorageTypeOK, SequencerTypeOK, RoomManagerTypeOK
<1>2. ASSUME NEW r \in Rooms
      PROVE  /\ frames[r] = <<>>
             /\ assigned[r] = <<>>
             /\ next_log_index[r] = Uncached
    BY DEF Init, StorageInit, SequencerInit
<1>3. LogIsOrderPrefix
    <2> SUFFICES ASSUME NEW r \in Rooms
                 PROVE  /\ Len(frames[r]) <= Len(assigned[r])
                        /\ \A i \in 1..Len(frames[r]) : frames[r][i] = assigned[r][i]
        BY DEF LogIsOrderPrefix
    <2>1. frames[r] = <<>> /\ assigned[r] = <<>>
        BY <1>2
    <2>2. Len(frames[r]) = 0 /\ Len(assigned[r]) = 0
        BY <2>1
    <2> QED BY <2>2
<1>4. CounterIsOrderLength
    <2> SUFFICES ASSUME NEW r \in Rooms
                 PROVE  /\ next_log_index[r] = Uncached
                        /\ frames[r] = assigned[r]
                        /\ Len(assigned[r]) <= MAX_LOG_INDEX
        BY DEF CounterIsOrderLength
    <2>1. frames[r] = <<>> /\ assigned[r] = <<>>
        BY <1>2
    <2>2. Len(assigned[r]) = 0
        BY <2>1
    <2> QED BY <1>2, <2>1, <2>2, SequencerAssumption
<1>5. OrderIndexed
    <2> SUFFICES ASSUME NEW r \in Rooms, NEW i \in 1..Len(assigned[r]) PROVE FALSE
        BY DEF OrderIndexed
    <2> QED BY <1>2
<1>6. PendingInOrder
    BY DEF PendingInOrder, Init
<1>7. PublishedInOrder
    BY DEF PublishedInOrder, Init
<1> QED BY <1>1, <1>3, <1>4, <1>5, <1>6, <1>7 DEF PipelineInvariant

\* Steps that touch neither the order, the log, the counters nor the tasks.
LEMMA QuietStep ==
    ASSUME PipelineInvariant, RoomManagerTypeOK',
           UNCHANGED <<storageVars, next_log_index, runtimeVars, boundVars, historyVars>>
    PROVE  PipelineInvariant'
<1> USE DEF storageVars, runtimeVars, boundVars, historyVars
<1>1. TypeOK'
    BY DEF PipelineInvariant, TypeOK, StorageTypeOK, SequencerTypeOK
<1>2. LogIsOrderPrefix'
    BY DEF PipelineInvariant, LogIsOrderPrefix
<1>3. CounterIsOrderLength'
    BY DEF PipelineInvariant, CounterIsOrderLength
<1>4. PendingInOrder'
    BY DEF PipelineInvariant, PendingInOrder, IsSequenced, AtItsIndex
<1>5. PublishedInOrder'
    BY DEF PipelineInvariant, PublishedInOrder, IsSequenced, AtItsIndex
<1>6. OrderIndexed'
    BY DEF PipelineInvariant, OrderIndexed
<1> QED BY <1>1, <1>2, <1>3, <1>4, <1>5, <1>6 DEF PipelineInvariant

\* Overflow: a frame refused because the index space is exhausted.
LEMMA OverflowKeepsInvariant ==
    ASSUME PipelineInvariant, NEW t \in Tasks, NEW f \in Incoming, Overflow(t, f)
    PROVE  PipelineInvariant'
<1> USE DEF storageVars, runtimeVars, boundVars, historyVars
<1>1. f.room \in Rooms
    BY IncomingIsFrame DEF PipelineInvariant, TypeOK
<1>2. /\ NextIndex(f.room) = Len(assigned[f.room])
      /\ NextIndex(f.room) \in 0..MAX_LOG_INDEX
    BY <1>1, NextIndexIsOrderLength
<1>3. /\ next_log_index' = [next_log_index EXCEPT ![f.room] = NextIndex(f.room)]
      /\ UNCHANGED <<groups, storageVars, runtimeVars, boundVars, historyVars>>
    BY DEF Overflow, RefuseOverflow, OverflowIndex
<1>4. TypeOK'
    BY <1>1, <1>2, <1>3
    DEF PipelineInvariant, TypeOK, StorageTypeOK, SequencerTypeOK, RoomManagerTypeOK
<1>5. LogIsOrderPrefix'
    BY <1>3 DEF PipelineInvariant, LogIsOrderPrefix
<1>6. CounterIsOrderLength'
    BY <1>1, <1>2, <1>3, SequencerAssumption
    DEF PipelineInvariant, CounterIsOrderLength, TypeOK, SequencerTypeOK
<1>7. PendingInOrder'
    BY <1>3 DEF PipelineInvariant, PendingInOrder, IsSequenced, AtItsIndex
<1>8. PublishedInOrder'
    BY <1>3 DEF PipelineInvariant, PublishedInOrder, IsSequenced, AtItsIndex
<1>9. OrderIndexed'
    BY <1>3 DEF PipelineInvariant, OrderIndexed
<1> QED BY <1>4, <1>5, <1>6, <1>7, <1>8, <1>9 DEF PipelineInvariant

\* Welcome: a Welcome relayed without an index.
LEMMA WelcomeKeepsInvariant ==
    ASSUME PipelineInvariant, NEW t \in Tasks, NEW f \in Incoming, Welcome(t, f)
    PROVE  PipelineInvariant'
<1> USE DEF storageVars, roomVars, historyVars
<1>1. /\ Return(t, <<Broadcast(f)>>)
      /\ ~IsSequenced(f)
      /\ received < MaxFrames /\ received' = received + 1
      /\ UNCHANGED <<roomVars, storageVars, restarts, historyVars>>
    BY DEF Welcome, RelayWelcome, Count
<1>2. f \in Frame
    BY IncomingIsFrame DEF PipelineInvariant, TypeOK
<1>3. <<Broadcast(f)>> \in Seq(RoomAction)
    <2>1. Broadcast(f) \in RoomAction
        BY <1>2 DEF Broadcast, RoomAction
    <2> QED BY <2>1
<1>4. \A k \in 1..Len(<<Broadcast(f)>>) : <<Broadcast(f)>>[k] = Broadcast(f)
    OBVIOUS
<1>5. Broadcast(f).type = "Broadcast" /\ Broadcast(f).frame = f
    BY DEF Broadcast
<1>6. \A k \in 1..Len(<<Broadcast(f)>>) :
          /\ <<Broadcast(f)>>[k].type = "PersistFrame"
                => AtItsIndex(assigned', <<Broadcast(f)>>[k].frame)
          /\ <<Broadcast(f)>>[k].type = "Broadcast" /\ IsSequenced(<<Broadcast(f)>>[k].frame)
                => AtItsIndex(assigned', <<Broadcast(f)>>[k].frame)
    BY <1>1, <1>4, <1>5
<1>7. \A g \in Frame : AtItsIndex(assigned, g) => AtItsIndex(assigned', g)
    BY <1>1
<1>8. /\ pending' \in [Tasks -> Seq(RoomAction)]
      /\ lock' \in Tasks \cup {Free}
      /\ PendingInOrder'
    BY <1>1, <1>3, <1>6, <1>7, ReturnStep
<1>9. TypeOK'
    BY <1>1, <1>8, PipelineAssumption
    DEF PipelineInvariant, TypeOK, StorageTypeOK, SequencerTypeOK, RoomManagerTypeOK
<1>10. LogIsOrderPrefix'
    BY <1>1 DEF PipelineInvariant, LogIsOrderPrefix
<1>11. CounterIsOrderLength'
    BY <1>1 DEF PipelineInvariant, CounterIsOrderLength
<1>12. PublishedInOrder'
    BY <1>1 DEF PipelineInvariant, PublishedInOrder, IsSequenced, AtItsIndex
<1>13. OrderIndexed'
    BY <1>1 DEF PipelineInvariant, OrderIndexed
<1> QED BY <1>8, <1>9, <1>10, <1>11, <1>12, <1>13 DEF PipelineInvariant

\* Drop: a numbered frame refused, its index consumed and never stored.
LEMMA DropKeepsInvariant ==
    ASSUME PipelineInvariant, NEW t \in Tasks, NEW f \in Incoming, Drop(t, f)
    PROVE  PipelineInvariant'
<1> USE DEF storageVars, runtimeVars
<1>1. f.room \in Rooms
    BY IncomingIsFrame DEF PipelineInvariant, TypeOK
<1>2. /\ ConsumeIndex(f.room)
      /\ RoomManagerTypeOK'
    <2>1. CASE RefuseSequenced(f)
        BY <2>1 DEF RefuseSequenced, PipelineInvariant, TypeOK, RoomManagerTypeOK
    <2>2. CASE \E ms \in SUBSET Users \ {{}} : RefuseEvicting(f, ms)
        <3>1. PICK ms \in SUBSET Users : RefuseEvicting(f, ms)
            BY <2>2
        <3>2. groups[f.room] # NoGroup
            BY <3>1 DEF RefuseEvicting, MergeCommit, Admissible, ValidBasic
        <3>3. Merged(groups[f.room], ms) \in Group
            BY <1>1, <3>2, MergedGroup
        <3>4. ConsumeIndex(f.room) /\ groups' = [groups EXCEPT ![f.room] = Merged(groups[f.room], ms)]
            BY <3>1 DEF RefuseEvicting, MergeCommit
        <3> QED BY <1>1, <3>3, <3>4 DEF PipelineInvariant, TypeOK, RoomManagerTypeOK
    <2> QED BY <2>1, <2>2 DEF Drop
<1>3. /\ Numbered(f)
      /\ received < MaxFrames /\ received' = received + 1
      /\ UNCHANGED <<storageVars, runtimeVars, restarts, published>>
    BY DEF Drop, Count
<1>4. /\ assigned' \in [Rooms -> Seq(Frame)]
      /\ SequencerTypeOK'
      /\ LogIsOrderPrefix'
      /\ CounterIsOrderLength'
      /\ OrderIndexed'
      /\ \A g \in Frame : AtItsIndex(assigned, g) => AtItsIndex(assigned', g)
    BY <1>2, <1>3, NumberingStep
<1>5. TypeOK'
    BY <1>2, <1>3, <1>4, PipelineAssumption
    DEF PipelineInvariant, TypeOK, StorageTypeOK
<1>6. PendingInOrder'
    <2> SUFFICES ASSUME NEW u \in Tasks, NEW k \in 1..Len(pending[u])
                 PROVE  /\ pending[u][k].type = "PersistFrame"
                              => AtItsIndex(assigned', pending[u][k].frame)
                        /\ pending[u][k].type = "Broadcast"
                              /\ IsSequenced(pending[u][k].frame)
                              => AtItsIndex(assigned', pending[u][k].frame)
        BY <1>3 DEF PendingInOrder, IsSequenced
    <2>1. pending[u] \in Seq(RoomAction)
        BY DEF PipelineInvariant, TypeOK
    <2>2. pending[u][k] \in RoomAction
        BY <2>1
    <2>3. pending[u][k].type \in {"PersistFrame", "Broadcast"}
              => pending[u][k].frame \in Frame
        BY <2>2 DEF RoomAction
    <2> QED BY <2>3, <1>4 DEF PipelineInvariant, PendingInOrder
<1>7. PublishedInOrder'
    BY <1>3, <1>4 DEF PipelineInvariant, TypeOK, PublishedInOrder, IsSequenced
<1> QED BY <1>4, <1>5, <1>6, <1>7 DEF PipelineInvariant

\* The common part of the two kinds of accepted frame: the list returned holds
\* actions on the numbered frame, and perhaps a state to persist.
LEMMA AcceptKeepsInvariant ==
    ASSUME PipelineInvariant, NEW t \in Tasks, NEW f \in Incoming,
           NEW acts \in Seq(RoomAction), NEW st \in MlsGroupState,
           \A k \in 1..Len(acts) : acts[k] \in
               {Persist(Sequenced(f)), Broadcast(Sequenced(f)), PersistState(f.room, st)},
           Count, Return(t, acts), ConsumeIndex(f.room), Numbered(f), RoomManagerTypeOK',
           UNCHANGED <<storageVars, restarts, published>>
    PROVE  PipelineInvariant'
<1> USE DEF storageVars
<1>1. /\ assigned' \in [Rooms -> Seq(Frame)]
      /\ SequencerTypeOK'
      /\ LogIsOrderPrefix'
      /\ CounterIsOrderLength'
      /\ OrderIndexed'
      /\ AtItsIndex(assigned', Sequenced(f))
      /\ \A g \in Frame : AtItsIndex(assigned, g) => AtItsIndex(assigned', g)
    BY NumberingStep
<1>2. \A k \in 1..Len(acts) :
          /\ acts[k].type = "PersistFrame" => AtItsIndex(assigned', acts[k].frame)
          /\ acts[k].type = "Broadcast" /\ IsSequenced(acts[k].frame)
                => AtItsIndex(assigned', acts[k].frame)
    <2>1. /\ Persist(Sequenced(f)).frame = Sequenced(f)
          /\ Broadcast(Sequenced(f)).frame = Sequenced(f)
          /\ PersistState(f.room, st).type = "PersistMlsState"
        BY DEF Persist, Broadcast, PersistState
    <2> QED BY <1>1, <2>1
<1>3. /\ pending' \in [Tasks -> Seq(RoomAction)]
      /\ lock' \in Tasks \cup {Free}
      /\ PendingInOrder'
    BY <1>1, <1>2, ReturnStep
<1>4. TypeOK'
    BY <1>1, <1>3, PipelineAssumption
    DEF PipelineInvariant, TypeOK, StorageTypeOK, Count
<1>5. PublishedInOrder'
    BY <1>1 DEF PipelineInvariant, TypeOK, PublishedInOrder, IsSequenced
<1> QED BY <1>1, <1>3, <1>4, <1>5 DEF PipelineInvariant

\* Message: a numbered frame other than a Commit.
LEMMA MessageKeepsInvariant ==
    ASSUME PipelineInvariant, NEW t \in Tasks, NEW f \in Incoming, Message(t, f)
    PROVE  PipelineInvariant'
<1> DEFINE st == [epoch |-> 0, members |-> {}]
<1>1. st \in MlsGroupState
    BY DEF MlsGroupState
<1>2. /\ MessageActions(f) \in Seq(RoomAction)
      /\ \A k \in 1..Len(MessageActions(f)) : MessageActions(f)[k] \in
             {Persist(Sequenced(f)), Broadcast(Sequenced(f))}
    BY <1>1, ActionLists
<1>3. /\ Count
      /\ Return(t, MessageActions(f))
      /\ ConsumeIndex(f.room)
      /\ Numbered(f)
      /\ RoomManagerTypeOK'
      /\ UNCHANGED <<storageVars, restarts, published>>
    BY DEF Message, SequenceMessage, PipelineInvariant, TypeOK, RoomManagerTypeOK
<1> HIDE DEF st
<1> QED BY <1>1, <1>2, <1>3, AcceptKeepsInvariant

\* Commit: a numbered Commit, merged, ignored or evicting.
LEMMA CommitKeepsInvariant ==
    ASSUME PipelineInvariant, NEW t \in Tasks, NEW f \in Incoming, Commit(t, f)
    PROVE  PipelineInvariant'
<1>1. f.room \in Rooms
    BY IncomingIsFrame DEF PipelineInvariant, TypeOK
<1>2. Count /\ Numbered(f) /\ UNCHANGED <<storageVars, restarts, published>>
    BY DEF Commit
<1>3. CASE /\ SequenceIgnoredCommit(f)
           /\ Return(t, CommitActions(f, ExportState(groups[f.room])))
    <2>1. groups[f.room] # NoGroup /\ ConsumeIndex(f.room) /\ RoomManagerTypeOK'
        BY <1>3 DEF SequenceIgnoredCommit, Admissible, ValidBasic,
                    PipelineInvariant, TypeOK, RoomManagerTypeOK
    <2>2. ExportState(groups[f.room]) \in MlsGroupState
        BY <1>1, <2>1, MergedGroup
    <2> QED BY <1>2, <1>3, <2>1, <2>2, ActionLists, AcceptKeepsInvariant
<1>4. CASE \E ms \in SUBSET Users \ {{}} :
              /\ SequenceCommit(f, ms)
              /\ Return(t, CommitActions(f, ExportState(Merged(groups[f.room], ms))))
    <2>1. PICK ms \in SUBSET Users :
              /\ SequenceCommit(f, ms)
              /\ Return(t, CommitActions(f, ExportState(Merged(groups[f.room], ms))))
        BY <1>4
    <2>2. /\ groups[f.room] # NoGroup
          /\ ConsumeIndex(f.room)
          /\ groups' = [groups EXCEPT ![f.room] = Merged(groups[f.room], ms)]
        BY <2>1 DEF SequenceCommit, MergeCommit, Admissible, ValidBasic
    <2>3. /\ Merged(groups[f.room], ms) \in Group
          /\ ExportState(Merged(groups[f.room], ms)) \in MlsGroupState
        BY <1>1, <2>2, MergedGroup
    <2>4. RoomManagerTypeOK'
        BY <1>1, <2>2, <2>3 DEF PipelineInvariant, TypeOK, RoomManagerTypeOK
    <2> QED BY <1>2, <2>1, <2>2, <2>3, <2>4, ActionLists, AcceptKeepsInvariant
<1> QED BY <1>3, <1>4 DEF Commit

\* Exec: one action of a task executed, or skipped by a failing storage.
LEMMA ExecKeepsInvariant ==
    ASSUME PipelineInvariant, NEW t \in Tasks, Exec(t)
    PROVE  PipelineInvariant'
<1> USE DEF storageVars, roomVars, boundVars, historyVars
<1> DEFINE a == Head(pending[t])
<1>1. /\ Executing(t)
      /\ Advance(t)
      /\ UNCHANGED <<roomVars, boundVars, assigned>>
    BY DEF Exec, ExecPersist, ExecPersistState, ExecFailed, ExecBroadcast
<1>2. /\ a \in RoomAction
      /\ a = pending[t][1]
      /\ 1 \in 1..Len(pending[t])
      /\ pending' \in [Tasks -> Seq(RoomAction)]
      /\ lock' \in Tasks \cup {Free}
      /\ PendingInOrder'
    BY <1>1, AdvanceStep
<1>3. SequencerTypeOK' /\ RoomManagerTypeOK'
    BY <1>1 DEF PipelineInvariant, TypeOK, SequencerTypeOK, RoomManagerTypeOK
<1>4. /\ a.type = "PersistFrame" => a.frame \in Frame /\ AtItsIndex(assigned, a.frame)
      /\ a.type = "Broadcast" =>
            a.frame \in Frame /\ (IsSequenced(a.frame) => AtItsIndex(assigned, a.frame))
      /\ a.type = "PersistMlsState" => a.room \in Rooms /\ a.state \in MlsGroupState
    BY <1>2 DEF RoomAction, PipelineInvariant, PendingInOrder
<1>order. OrderIndexed'
    BY <1>1 DEF PipelineInvariant, OrderIndexed
<1>5. CASE ExecPersist(t)
    <2>1. /\ a.type = "PersistFrame"
          /\ StoreFrame(a.frame.room, a.frame.log_index, a.frame)
          /\ UNCHANGED published
        BY <1>5 DEF ExecPersist
    <2>2. StorageTypeOK' /\ LogIsOrderPrefix' /\ CounterIsOrderLength'
        BY <2>1, <1>1, <1>4, StoringStep
    <2>3. TypeOK'
        BY <2>1, <2>2, <1>1, <1>2, <1>3 DEF PipelineInvariant, TypeOK
    <2>4. PublishedInOrder'
        BY <2>1, <1>1 DEF PipelineInvariant, PublishedInOrder, IsSequenced, AtItsIndex
    <2> QED BY <2>2, <2>3, <2>4, <1>2, <1>order DEF PipelineInvariant
<1>6. CASE ExecPersistState(t) \/ ExecFailed(t)
    <2>1. UNCHANGED <<frames, published>>
        BY <1>6 DEF ExecPersistState, ExecFailed, StoreMlsState
    <2>2. StorageTypeOK'
        BY <1>4, <1>6
        DEF ExecPersistState, ExecFailed, StoreMlsState, StorageTypeOK,
            PipelineInvariant, TypeOK
    <2>3. TypeOK'
        BY <2>1, <2>2, <1>1, <1>2, <1>3 DEF PipelineInvariant, TypeOK
    <2>4. LogIsOrderPrefix' /\ CounterIsOrderLength'
        BY <2>1, <1>1 DEF PipelineInvariant, LogIsOrderPrefix, CounterIsOrderLength
    <2>5. PublishedInOrder'
        BY <2>1, <1>1 DEF PipelineInvariant, PublishedInOrder, IsSequenced, AtItsIndex
    <2> QED BY <2>3, <2>4, <2>5, <1>2, <1>order DEF PipelineInvariant
<1>7. CASE ExecBroadcast(t)
    <2>1. /\ a.type = "Broadcast"
          /\ published' = published \cup {a.frame}
          /\ UNCHANGED storageVars
        BY <1>7 DEF ExecBroadcast
    <2>2. TypeOK'
        BY <2>1, <1>1, <1>2, <1>3, <1>4 DEF PipelineInvariant, TypeOK, StorageTypeOK
    <2>3. LogIsOrderPrefix' /\ CounterIsOrderLength'
        BY <2>1, <1>1 DEF PipelineInvariant, LogIsOrderPrefix, CounterIsOrderLength
    <2>4. PublishedInOrder'
        BY <2>1, <1>1, <1>4 DEF PipelineInvariant, PublishedInOrder, IsSequenced, AtItsIndex
    <2> QED BY <2>2, <2>3, <2>4, <1>2, <1>order DEF PipelineInvariant
<1> QED BY <1>5, <1>6, <1>7 DEF Exec

\* Embedder: create_room, add_members and remove_members.
LEMMA EmbedderKeepsInvariant ==
    ASSUME PipelineInvariant, Embedder
    PROVE  PipelineInvariant'
<1>1. PICK r \in Rooms, u \in Users :
          CreateRoom(r, u) \/ AddMembers(r, u) \/ RemoveMembers(r, u)
    BY DEF Embedder
<1>2. UNCHANGED <<storageVars, next_log_index, runtimeVars, boundVars, historyVars>>
    BY <1>1 DEF Embedder, CreateRoom, AddMembers, RemoveMembers
<1>3. RoomManagerTypeOK
    BY DEF PipelineInvariant, TypeOK
<1>4. RoomManagerTypeOK'
    <2>1. CASE CreateRoom(r, u)
        BY <2>1, <1>3 DEF CreateRoom, RoomManagerTypeOK, Group
    <2>2. CASE AddMembers(r, u) \/ RemoveMembers(r, u)
        <3>1. groups[r] \in Group
            BY <2>2, <1>3 DEF AddMembers, RemoveMembers, CanPropose, RoomManagerTypeOK
        <3>2. PICK ms \in SUBSET Users :
                  groups' = [groups EXCEPT ![r] = [groups[r] EXCEPT !.pending = ms]]
            BY <2>2, <3>1 DEF AddMembers, RemoveMembers, Adding, Removing, Group
        <3>3. [groups[r] EXCEPT !.pending = ms] \in Group
            BY <3>1 DEF Group
        <3> QED BY <3>2, <3>3, <1>3 DEF RoomManagerTypeOK
    <2> QED BY <2>1, <2>2, <1>1
<1> QED BY <1>2, <1>4, QuietStep

\* Restart: a new RoomManager and Sequencer over the surviving storage.
LEMMA RestartKeepsInvariant ==
    ASSUME PipelineInvariant, Restart
    PROVE  PipelineInvariant'
<1> USE DEF storageVars
<1>1. /\ groups' = [r \in Rooms |-> NoGroup]
      /\ next_log_index' = [r \in Rooms |-> Uncached]
      /\ pending' = [t \in Tasks |-> <<>>]
      /\ lock' = Free
      /\ assigned' = frames
      /\ restarts < MaxRestarts
      /\ restarts' = restarts + 1
      /\ UNCHANGED <<storageVars, received, published>>
    BY DEF Restart, NewRoomManager
<1>2. /\ frames \in [Rooms -> Seq(Frame)]
      /\ assigned \in [Rooms -> Seq(Frame)]
      /\ restarts \in Nat
    BY PipelineAssumption DEF PipelineInvariant, TypeOK, StorageTypeOK
<1>3. TypeOK'
    BY <1>1, <1>2, PipelineAssumption
    DEF PipelineInvariant, TypeOK, StorageTypeOK, SequencerTypeOK, RoomManagerTypeOK
<1>4. \A r \in Rooms : Len(frames[r]) \in Nat /\ Len(assigned[r]) \in Nat
    BY <1>2
<1>5. LogIsOrderPrefix'
    BY <1>1, <1>4 DEF LogIsOrderPrefix
<1>6. CounterIsOrderLength'
    BY <1>1, <1>4, SequencerAssumption
    DEF PipelineInvariant, CounterIsOrderLength, LogIsOrderPrefix
<1>7. PendingInOrder'
    BY <1>1 DEF PendingInOrder
<1>8. PublishedInOrder'
    BY <1>1, <1>2 DEF PublishedInOrder
<1>9. OrderIndexed'
    BY <1>1, <1>4 DEF PipelineInvariant, OrderIndexed, LogIsOrderPrefix
<1> QED BY <1>3, <1>5, <1>6, <1>7, <1>8, <1>9 DEF PipelineInvariant

\* Every step preserves the invariant: one step of the proof per action.
LEMMA NextKeepsInvariant == PipelineInvariant /\ [Next]_vars => PipelineInvariant'
<1> SUFFICES ASSUME PipelineInvariant, [Next]_vars PROVE PipelineInvariant'
    OBVIOUS
<1>1. ASSUME NEW t \in Tasks, NEW f \in Incoming, Refuse(t, f)
      PROVE  PipelineInvariant'
    BY <1>1, QuietStep
    DEF Refuse, RefuseFrame, roomVars, PipelineInvariant, TypeOK, RoomManagerTypeOK
<1>2. CASE UNCHANGED vars
    BY <1>2, QuietStep
    DEF vars, roomVars, PipelineInvariant, TypeOK, RoomManagerTypeOK
<1> QED BY <1>1, <1>2, OverflowKeepsInvariant, WelcomeKeepsInvariant,
           DropKeepsInvariant, MessageKeepsInvariant, CommitKeepsInvariant,
           ExecKeepsInvariant, EmbedderKeepsInvariant, RestartKeepsInvariant
        DEF Next

\* The invariant holds in every reachable state of every runtime.
THEOREM PipelineInvariantHolds == Spec => []PipelineInvariant
<1> QED BY InitInvariant, NextKeepsInvariant, PTL DEF Spec

-----------------------------------------------------------------------------
(* What follows from the invariant.                                        *)

\* Every variable keeps its type; in particular the counters stay below
\* MAX_LOG_INDEX, where checked_add refuses.
THEOREM TypeCorrect == Spec => []TypeOK
<1> QED BY PipelineInvariantHolds, PTL DEF PipelineInvariant

\* The stored log is a prefix of the order in which the sequencer numbered the
\* frames, for any number of racing tasks, failing stores and restarts.
THEOREM LogPrefixHolds == Spec => []LogIsOrderPrefix
<1> QED BY PipelineInvariantHolds, PTL DEF PipelineInvariant

\* Subscribers and the log never disagree on a position within one life of the
\* process.
THEOREM OnePositionHolds == Spec => []OnePosition
<1>1. PipelineInvariant => OnePosition
    <2> SUFFICES ASSUME PipelineInvariant, restarts = 0,
                        NEW f \in published, IsSequenced(f)
                 PROVE  /\ \A g \in published :
                              IsSequenced(g) /\ g.room = f.room
                                  /\ g.log_index = f.log_index => g = f
                        /\ f.log_index < Len(frames[f.room])
                              => frames[f.room][f.log_index + 1] = f
        BY DEF OnePosition
    <2>1. \A g \in published : IsSequenced(g) =>
              assigned[g.room][g.log_index + 1] = g
        BY DEF PipelineInvariant, PublishedInOrder, AtItsIndex
    <2>2. f.room \in Rooms /\ f.log_index \in Nat
        BY DEF PipelineInvariant, TypeOK, Frame
    <2>3. frames[f.room] \in Seq(Frame)
        BY <2>2 DEF PipelineInvariant, TypeOK, StorageTypeOK
    <2>4. ASSUME f.log_index < Len(frames[f.room])
          PROVE  frames[f.room][f.log_index + 1] = assigned[f.room][f.log_index + 1]
        <3>1. f.log_index + 1 \in 1..Len(frames[f.room])
            BY <2>2, <2>3, <2>4
        <3> QED BY <3>1, <2>2 DEF PipelineInvariant, LogIsOrderPrefix
    <2> QED BY <2>1, <2>4
<1> QED BY <1>1, PipelineInvariantHolds, PTL
=============================================================================
