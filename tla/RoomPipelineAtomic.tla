------------------------- MODULE RoomPipelineAtomic -------------------------
(***************************************************************************)
(* Proofs about RoomPipeline when the lock is kept from processing to      *)
(* execution (the simulated runtime) and nothing fails: the log has no     *)
(* gap, frames are stored before they are published, and the stored MLS    *)
(* state is the group's.                                                   *)
(***************************************************************************)
EXTENDS RoomPipelineSteps

\* One exclusive call processes and executes, storage works, every signature
\* verifies, and OpenMLS takes every commit or makes a message of it.
Calm ==
    /\ Atomic
    /\ ~FaultyStorage
    /\ MlsOutcomes \subseteq {"merge", "ignore"}
    /\ Signatures \subseteq {TRUE}

\* Only the holder of the lock has actions left.
HolderOnly == \A t \in Tasks : pending[t] # <<>> <=> lock = t

\* No commit the server has made or merged removes its own leaf.
ServerStaysMember ==
    \A r \in Rooms : groups[r] # NoGroup =>
        /\ Active(groups[r])
        /\ groups[r].pending = {} \/ groups[r].creator \in groups[r].pending

\* The log is the order but for one frame, which some task stores next.
StoredNext(r) ==
    /\ Len(assigned[r]) = Len(frames[r]) + 1
    /\ \E t \in Tasks : pending[t] # <<>>
                           /\ pending[t][1] = Persist(assigned[r][Len(assigned[r])])

NoGap == \A r \in Rooms : Len(frames[r]) = Len(assigned[r]) \/ StoredNext(r)

\* A frame that is still to be broadcast is stored, or is stored next.
StoredBeforeBroadcast ==
    \A t \in Tasks : \A k \in 1..Len(pending[t]) :
        pending[t][k].type = "Broadcast" /\ IsSequenced(pending[t][k].frame) =>
            \/ AtItsIndex(frames, pending[t][k].frame)
            \/ pending[t][1] = Persist(pending[t][k].frame)

\* With PipelineInvariant, inductive in a calm runtime.
StoringInvariant ==
    /\ HolderOnly
    /\ ServerStaysMember
    /\ NoGap
    /\ StoredBeforeBroadcast
    /\ StoredBeforePublished

\* A state that is still to be stored is that of its group.
PendingStatesCurrent ==
    \A t \in Tasks : \A k \in 1..Len(pending[t]) :
        pending[t][k].type = "PersistMlsState" =>
            /\ groups[pending[t][k].room] # NoGroup
            /\ pending[t][k].state = ExportState(groups[pending[t][k].room])

\* The state of r is to be stored.
StateToStore(r) ==
    \E t \in Tasks : \E k \in 1..Len(pending[t]) :
        pending[t][k].type = "PersistMlsState" /\ pending[t][k].room = r

StoredStatesCurrent ==
    \A r \in Rooms : groups[r] # NoGroup =>
        \/ mls_states[r] = ExportState(groups[r])
        \/ mls_states[r] = NoState /\ groups[r].epoch = 0
        \/ StateToStore(r)

\* With the invariants above, inductive in a calm runtime until the first restart.
StateInvariant == restarts = 0 => PendingStatesCurrent /\ StoredStatesCurrent

-----------------------------------------------------------------------------
(* Storing and publishing.                                                 *)

\* In a calm runtime no index is consumed for nothing: the signature verifies,
\* the server's leaf is in the group and stays there.
LEMMA NothingDropped ==
    ASSUME Calm, PipelineInvariant, ServerStaysMember, NEW t \in Tasks, NEW f \in Incoming
    PROVE  ~Drop(t, f)
<1>1. f.signed = TRUE /\ f.room \in Rooms
    BY DEF Calm, Incoming
<1>2. ~RefuseSequenced(f)
    BY <1>1 DEF RefuseSequenced, SignatureRefused, Admissible, ValidBasic, Calm,
                ServerStaysMember
<1>3. ASSUME NEW ms \in SUBSET Users
      PROVE  ~RefuseEvicting(f, ms)
    BY <1>1 DEF RefuseEvicting, MergeCommit, Admissible, ValidBasic, Calm, ServerStaysMember
<1> QED BY <1>2, <1>3 DEF Drop

\* Merging a commit of a calm runtime keeps the server's leaf in the group.
LEMMA MergeKeepsServer ==
    ASSUME Calm, PipelineInvariant, ServerStaysMember, NEW f \in Incoming,
           NEW ms \in SUBSET Users, SequenceCommit(f, ms)
    PROVE  ServerStaysMember'
<1>1. /\ f.room \in Rooms
      /\ groups[f.room] # NoGroup
      /\ groups' = [groups EXCEPT ![f.room] = Merged(groups[f.room], ms)]
    BY MergeAdvances DEF SequenceCommit
<1>2. /\ Merged(groups[f.room], ms).creator = groups[f.room].creator
      /\ Merged(groups[f.room], ms).pending = {}
      /\ Merged(groups[f.room], ms).members =
            IF groups[f.room].pending # {} THEN groups[f.room].pending ELSE ms
    BY DEF Merged
<1>3. groups[f.room].creator \in Merged(groups[f.room], ms).members
    BY <1>1, <1>2 DEF SequenceCommit, ServerStaysMember
<1>4. /\ groups'[f.room] = Merged(groups[f.room], ms)
      /\ \A r \in Rooms : r # f.room => groups'[r] = groups[r]
    BY <1>1 DEF PipelineInvariant, TypeOK, RoomManagerTypeOK
<1> QED BY <1>2, <1>3, <1>4 DEF ServerStaysMember, Active

\* add_members and remove_members never take out the server's leaf.
LEMMA EmbedderKeepsServer ==
    ASSUME PipelineInvariant, ServerStaysMember, Embedder
    PROVE  /\ ServerStaysMember'
           /\ \A r \in Rooms : groups[r] # NoGroup =>
                 /\ groups'[r] # NoGroup
                 /\ groups'[r].epoch = groups[r].epoch
                 /\ groups'[r].members = groups[r].members
           /\ \A r \in Rooms : groups[r] = NoGroup /\ groups'[r] # NoGroup =>
                 groups'[r].epoch = 0
<1>1. groups \in [Rooms -> Group \cup {NoGroup}]
    BY DEF PipelineInvariant, TypeOK, RoomManagerTypeOK
<1>2. PICK q \in Rooms, u \in Users :
          CreateRoom(q, u) \/ AddMembers(q, u) \/ RemoveMembers(q, u)
    BY DEF Embedder
<1>3. CASE CreateRoom(q, u)
    <2>1. PICK g : g = [creator |-> u, epoch |-> 0, members |-> {u}, pending |-> {}]
        OBVIOUS
    <2>2. groups[q] = NoGroup /\ groups' = [groups EXCEPT ![q] = g]
        BY <1>3, <2>1 DEF CreateRoom
    <2>3. /\ groups'[q] = g
          /\ \A r \in Rooms : r # q => groups'[r] = groups[r]
        BY <1>1, <2>2
    <2>4. g.creator \in g.members /\ g.pending = {} /\ g.epoch = 0
        BY <2>1
    <2> QED BY <2>2, <2>3, <2>4 DEF ServerStaysMember, Active
<1>4. CASE AddMembers(q, u) \/ RemoveMembers(q, u)
    <2>1. groups[q] \in Group /\ groups[q] # NoGroup
        BY <1>1, <1>4 DEF AddMembers, RemoveMembers, CanPropose
    <2>2. PICK ms \in SUBSET Users :
              /\ groups' = [groups EXCEPT ![q] = [groups[q] EXCEPT !.pending = ms]]
              /\ groups[q].creator \in ms
        <3>1. groups[q].creator \in groups[q].members /\ groups[q].members \in SUBSET Users
            BY <2>1 DEF ServerStaysMember, Active, Group
        <3> QED BY <1>4, <3>1 DEF AddMembers, RemoveMembers, Adding, Removing
    <2>3. PICK g : g = [groups[q] EXCEPT !.pending = ms]
        OBVIOUS
    <2>4. /\ g \in Group
          /\ g.creator = groups[q].creator
          /\ g.epoch = groups[q].epoch
          /\ g.members = groups[q].members
          /\ g.pending = ms
        BY <2>1, <2>3 DEF Group
    <2>5. /\ groups'[q] = g
          /\ \A r \in Rooms : r # q => groups'[r] = groups[r]
        BY <1>1, <2>2, <2>3
    <2>6. g # NoGroup
        BY <2>4, RoomManagerAssumption
    <2> QED BY <2>1, <2>2, <2>4, <2>5, <2>6 DEF ServerStaysMember, Active
<1> QED BY <1>2, <1>3, <1>4

\* A step that leaves the lists, the log and the order alone.
LEMMA NothingStored ==
    ASSUME StoringInvariant, ServerStaysMember',
           UNCHANGED <<frames, assigned, pending, lock, published>>
    PROVE  StoringInvariant'
<1>1. HolderOnly' /\ NoGap'
    BY DEF StoringInvariant, HolderOnly, NoGap, StoredNext
<1>2. StoredBeforeBroadcast' /\ StoredBeforePublished'
    BY DEF StoringInvariant, StoredBeforeBroadcast, StoredBeforePublished, AtItsIndex, IsSequenced
<1> QED BY <1>1, <1>2 DEF StoringInvariant

\* The lists begin with the frame that has just been numbered.
LEMMA ListHeads ==
    ASSUME NEW f, NEW st
    PROVE  /\ MessageActions(f) # <<>>
           /\ MessageActions(f)[1] = Persist(Sequenced(f))
           /\ CommitActions(f, st) # <<>>
           /\ CommitActions(f, st)[1] = Persist(Sequenced(f))
<1> DEFINE a == Persist(Sequenced(f))
           b == Broadcast(Sequenced(f))
           c == PersistState(f.room, st)
<1>1. MessageActions(f) = <<a, a, b>> /\ CommitActions(f, st) = <<a, a, b, c>>
    BY DEF MessageActions, CommitActions
<1> HIDE DEF a, b, c
<1>2. /\ <<a, a, b>> # <<>> /\ <<a, a, b>>[1] = a
      /\ <<a, a, b, c>> # <<>> /\ <<a, a, b, c>>[1] = a
    OBVIOUS
<1> QED BY <1>1, <1>2 DEF a

\* A returned list keeps the lock with its task.
LEMMA HolderReturns ==
    ASSUME Calm, PipelineInvariant, HolderOnly, NEW t \in Tasks, Ready(t),
           NEW acts, acts # <<>>, Return(t, acts)
    PROVE  /\ HolderOnly'
           /\ \A u \in Tasks : pending[u] = <<>>
           /\ pending'[t] = acts
           /\ \A u \in Tasks : u # t => pending'[u] = <<>>
<1>1. /\ pending \in [Tasks -> Seq(RoomAction)]
      /\ pending' = [pending EXCEPT ![t] = acts]
      /\ lock = Free
      /\ lock' = t
    BY DEF PipelineInvariant, TypeOK, Return, Ready, Calm
<1>2. \A u \in Tasks : pending[u] = <<>>
    BY <1>1, PipelineAssumption DEF HolderOnly
<1>3. /\ pending'[t] = acts
      /\ \A u \in Tasks : u # t => pending'[u] = <<>>
    BY <1>1, <1>2
<1>4. HolderOnly'
    BY <1>1, <1>3 DEF HolderOnly
<1> QED BY <1>2, <1>3, <1>4

\* A frame is numbered while every numbered frame is stored, and it is what its
\* task stores next.
LEMMA AcceptStores ==
    ASSUME Calm, PipelineInvariant, PipelineInvariant', StoringInvariant, ServerStaysMember',
           NEW t \in Tasks, NEW f \in Incoming, NEW st, NEW acts \in Seq(RoomAction),
           Ready(t), Return(t, acts), Numbered(f), UNCHANGED <<frames, published>>,
           acts # <<>>, acts[1] = Persist(Sequenced(f)),
           \A k \in 1..Len(acts) : acts[k] \in
               {Persist(Sequenced(f)), Broadcast(Sequenced(f)), PersistState(f.room, st)}
    PROVE  StoringInvariant'
<1> DEFINE r == f.room
           e == Sequenced(f)
<1>1. /\ r \in Rooms
      /\ frames \in [Rooms -> Seq(Frame)]
      /\ assigned \in [Rooms -> Seq(Frame)]
    BY IncomingIsFrame DEF PipelineInvariant, TypeOK, StorageTypeOK
<1>2. e \in Frame
    BY SequencedFrame
<1>3. /\ HolderOnly'
      /\ \A u \in Tasks : pending[u] = <<>>
      /\ pending'[t] = acts
      /\ \A u \in Tasks : u # t => pending'[u] = <<>>
    BY HolderReturns DEF StoringInvariant
<1>4. \A q \in Rooms : Len(frames[q]) = Len(assigned[q])
    BY <1>3 DEF StoringInvariant, NoGap, StoredNext
<1>5. assigned' = [assigned EXCEPT ![r] = Append(assigned[r], e)]
    BY DEF Numbered
<1> HIDE DEF r, e
<1>6. /\ assigned'[r] = Append(assigned[r], e)
      /\ \A q \in Rooms : q # r => assigned'[q] = assigned[q]
    BY <1>1, <1>5
<1>7. /\ Len(assigned'[r]) = Len(assigned[r]) + 1
      /\ assigned'[r][Len(assigned[r]) + 1] = e
    BY <1>1, <1>2, <1>6, AppendKeepsOrder
<1>8. StoredNext(r)'
    <2>1. pending'[t] # <<>> /\ pending'[t][1] = Persist(e)
        BY <1>3 DEF e
    <2>2. Len(assigned'[r]) = Len(frames'[r]) + 1
        BY <1>1, <1>4, <1>7
    <2>3. assigned'[r][Len(assigned'[r])] = e
        BY <1>7
    <2> QED BY <2>1, <2>2, <2>3 DEF StoredNext, Persist
<1>9. NoGap'
    <2> SUFFICES ASSUME NEW q \in Rooms
                 PROVE  Len(frames'[q]) = Len(assigned'[q]) \/ StoredNext(q)'
        BY DEF NoGap
    <2> QED BY <1>4, <1>6, <1>8
<1>10. StoredBeforeBroadcast'
    <2> SUFFICES ASSUME NEW u \in Tasks, NEW k \in 1..Len(pending'[u]),
                        pending'[u][k].type = "Broadcast"
                 PROVE  pending'[u][1] = Persist(pending'[u][k].frame)
        BY DEF StoredBeforeBroadcast, Persist
    <2>1. Len(<<>>) = 0
        OBVIOUS
    <2>2. u = t
        BY <1>3, <2>1
    <2>3. pending'[u][k] \in {Persist(e), Broadcast(e), PersistState(r, st)}
        BY <1>3, <2>2 DEF e, r
    <2>4. /\ Persist(e).type # "Broadcast"
          /\ PersistState(r, st).type # "Broadcast"
          /\ Broadcast(e).frame = e
        BY DEF Persist, PersistState, Broadcast
    <2>5. pending'[u][k].frame = e
        BY <2>3, <2>4
    <2> QED BY <1>3, <2>2, <2>5 DEF e
<1>11. StoredBeforePublished'
    BY DEF StoringInvariant, StoredBeforePublished, AtItsIndex, IsSequenced
<1> QED BY <1>3, <1>9, <1>10, <1>11 DEF StoringInvariant

\* A Welcome is handed on and stored nowhere.
LEMMA WelcomeStores ==
    ASSUME Calm, PipelineInvariant, StoringInvariant, ServerStaysMember',
           NEW t \in Tasks, NEW f \in Incoming, Welcome(t, f)
    PROVE  StoringInvariant'
<1> DEFINE acts == <<Broadcast(f)>>
<1>1. /\ Ready(t)
      /\ Return(t, acts)
      /\ ~IsSequenced(f)
      /\ UNCHANGED <<frames, assigned, published>>
    BY DEF Welcome, RelayWelcome, storageVars, historyVars
<1>2. /\ acts # <<>>
      /\ \A k \in 1..Len(acts) : acts[k] = Broadcast(f)
    OBVIOUS
<1> HIDE DEF acts
<1>3. /\ HolderOnly'
      /\ \A u \in Tasks : pending[u] = <<>>
      /\ pending'[t] = acts
      /\ \A u \in Tasks : u # t => pending'[u] = <<>>
    BY <1>1, <1>2, HolderReturns DEF StoringInvariant
<1>4. NoGap'
    BY <1>1, <1>3 DEF StoringInvariant, NoGap, StoredNext
<1>5. StoredBeforeBroadcast'
    <2> SUFFICES ASSUME NEW u \in Tasks, NEW k \in 1..Len(pending'[u])
                 PROVE  ~IsSequenced(pending'[u][k].frame)
        BY DEF StoredBeforeBroadcast, IsSequenced
    <2>1. Len(<<>>) = 0
        OBVIOUS
    <2>2. u = t
        BY <1>3, <2>1
    <2>3. pending'[u][k] = Broadcast(f)
        BY <1>2, <1>3, <2>2
    <2> QED BY <1>1, <2>3 DEF Broadcast
<1>6. StoredBeforePublished'
    BY <1>1 DEF StoringInvariant, StoredBeforePublished, AtItsIndex, IsSequenced
<1> QED BY <1>3, <1>4, <1>5, <1>6 DEF StoringInvariant

\* The tail of a list is empty exactly when the list has one entry.
LEMMA LastOfList ==
    ASSUME NEW S, NEW s \in Seq(S), s # <<>>
    PROVE  Tail(s) = <<>> <=> Len(s) = 1
<1>1. Len(s) \in Nat \ {0} /\ Len(Tail(s)) = Len(s) - 1 /\ Tail(s) \in Seq(S)
    OBVIOUS
<1>2. PICK n \in Nat : n = Len(s)
    BY <1>1
<1>3. PICK q \in Seq(S) : q = Tail(s)
    BY <1>1
<1>4. Len(q) = n - 1
    BY <1>1, <1>2, <1>3
<1>5. Len(q) = 0 <=> q = <<>>
    OBVIOUS
<1> QED BY <1>2, <1>3, <1>4, <1>5

\* The holder of the lock executes one action; nobody else has any.
LEMMA HolderAdvances ==
    ASSUME PipelineInvariant, HolderOnly, NEW t \in Tasks, Executing(t), Advance(t)
    PROVE  /\ HolderOnly'
           /\ \A u \in Tasks : u # t => pending[u] = <<>> /\ pending'[u] = <<>>
           /\ pending[t][1] = Head(pending[t])
           /\ pending[t][1] \in RoomAction
           /\ 1 \in 1..Len(pending[t])
           /\ \A k \in 1..Len(pending'[t]) :
                 k + 1 \in 1..Len(pending[t]) /\ pending'[t][k] = pending[t][k + 1]
<1>1. /\ pending \in [Tasks -> Seq(RoomAction)]
      /\ pending[t] \in Seq(RoomAction)
      /\ pending[t] # <<>>
      /\ pending' = [pending EXCEPT ![t] = Tail(pending[t])]
      /\ lock' = IF Len(pending[t]) = 1 THEN Free ELSE t
    BY DEF PipelineInvariant, TypeOK, Executing, Advance
<1>2. lock = t /\ \A u \in Tasks : u # t => pending[u] = <<>>
    BY <1>1 DEF HolderOnly
<1>3. /\ Head(pending[t]) \in RoomAction
      /\ Head(pending[t]) = pending[t][1]
      /\ 1 \in 1..Len(pending[t])
      /\ \A k \in 1..Len(Tail(pending[t])) :
            k + 1 \in 1..Len(pending[t]) /\ Tail(pending[t])[k] = pending[t][k + 1]
    BY <1>1, TailActions
<1>4. /\ pending'[t] = Tail(pending[t])
      /\ \A u \in Tasks : u # t => pending'[u] = <<>>
    BY <1>1, <1>2
<1>5. Tail(pending[t]) = <<>> <=> Len(pending[t]) = 1
    BY <1>1, LastOfList
<1>6. HolderOnly'
    BY <1>1, <1>4, <1>5, PipelineAssumption DEF HolderOnly
<1> QED BY <1>2, <1>3, <1>4, <1>6

\* What the holder does not store next is stored.
LEMMA RestIsStored ==
    ASSUME PipelineInvariant, StoringInvariant, NEW t \in Tasks,
           \A u \in Tasks : u # t => pending[u] = <<>>,
           pending[t][1].type # "PersistFrame"
    PROVE  /\ \A r \in Rooms : Len(frames[r]) = Len(assigned[r])
           /\ \A k \in 1..Len(pending[t]) :
                 pending[t][k].type = "Broadcast" /\ IsSequenced(pending[t][k].frame) =>
                     AtItsIndex(frames, pending[t][k].frame)
<1>1. \A f : Persist(f).type = "PersistFrame"
    BY DEF Persist
<1>2. \A r \in Rooms : ~StoredNext(r)
    BY <1>1 DEF StoredNext
<1> QED BY <1>1, <1>2 DEF StoringInvariant, NoGap, StoredBeforeBroadcast

\* The first PersistFrame of a list stores its frame, the second is refused, and
\* either way the log is then the order.
LEMMA PersistStores ==
    ASSUME PipelineInvariant, StoringInvariant, NEW t \in Tasks, ExecPersist(t),
           \A u \in Tasks : u # t => pending[u] = <<>>,
           pending[t][1] = Head(pending[t]), pending[t][1] \in RoomAction,
           1 \in 1..Len(pending[t])
    PROVE  /\ AtItsIndex(frames', Head(pending[t]).frame)
           /\ \A q \in Rooms : Len(frames'[q]) = Len(assigned[q])
           /\ \A g \in Frame : AtItsIndex(frames, g) => AtItsIndex(frames', g)
<1>1. PICK f \in Frame : f = pending[t][1].frame /\ pending[t][1].type = "PersistFrame"
    BY DEF ExecPersist, RoomAction
<1>2. PICK r \in Rooms : r = f.room
    BY DEF Frame
<1>3. /\ frames' = IF f.log_index = Len(frames[r])
                   THEN [frames EXCEPT ![r] = Append(frames[r], f)] ELSE frames
      /\ Head(pending[t]).frame = f
    BY <1>1, <1>2 DEF ExecPersist, StoreFrame
<1>4. /\ AtItsIndex(assigned, f)
      /\ f.log_index \in Nat
      /\ frames \in [Rooms -> Seq(Frame)]
      /\ assigned \in [Rooms -> Seq(Frame)]
      /\ frames[r] \in Seq(Frame) /\ Len(frames[r]) \in Nat
      /\ assigned[r] \in Seq(Frame) /\ Len(assigned[r]) \in Nat
    <2>1. AtItsIndex(assigned, f)
        BY <1>1 DEF PipelineInvariant, PendingInOrder
    <2>2. f.log_index \in Nat
        BY DEF Frame
    <2>3. frames \in [Rooms -> Seq(Frame)] /\ assigned \in [Rooms -> Seq(Frame)]
        BY DEF PipelineInvariant, TypeOK, StorageTypeOK
    <2>4. frames[r] \in Seq(Frame) /\ assigned[r] \in Seq(Frame)
        BY <2>3
    <2> QED BY <2>1, <2>2, <2>3, <2>4
<1>5. f.log_index < Len(assigned[r]) /\ assigned[r][f.log_index + 1] = f
    BY <1>2, <1>4 DEF AtItsIndex
<1>6. ASSUME NEW q \in Rooms, StoredNext(q)
      PROVE  q = r /\ f.log_index = Len(frames[r]) /\ Len(assigned[r]) = Len(frames[r]) + 1
    <2>1. /\ Len(assigned[q]) = Len(frames[q]) + 1
          /\ pending[t][1] = Persist(assigned[q][Len(assigned[q])])
        BY <1>6 DEF StoredNext
    <2>2. f = assigned[q][Len(assigned[q])]
        BY <1>1, <2>1 DEF Persist
    <2>3. Len(frames[q]) \in Nat
        BY <1>4
    <2>4. Len(assigned[q]) \in 1..Len(assigned[q])
        BY <2>1, <2>3
    <2>5. f.room = q /\ f.log_index = Len(assigned[q]) - 1
        BY <2>2, <2>4 DEF PipelineInvariant, OrderIndexed
    <2> QED BY <1>2, <2>1, <2>3, <2>5
<1>7. CASE StoredNext(r)
    <2>1. f.log_index = Len(frames[r]) /\ Len(assigned[r]) = Len(frames[r]) + 1
        BY <1>6, <1>7
    <2>2. frames' = [frames EXCEPT ![r] = Append(frames[r], f)]
        BY <1>3, <2>1
    <2>3. /\ frames'[r] = Append(frames[r], f)
          /\ \A q \in Rooms : q # r => frames'[q] = frames[q]
        BY <1>4, <2>2
    <2>4. /\ Len(frames'[r]) = Len(frames[r]) + 1
          /\ \A i \in 1..Len(frames[r]) : frames'[r][i] = frames[r][i]
          /\ frames'[r][Len(frames[r]) + 1] = f
        BY <1>4, <2>3, AppendKeepsOrder
    <2>5. AtItsIndex(frames', f)
        BY <1>2, <1>4, <2>1, <2>4 DEF AtItsIndex
    <2>6. \A q \in Rooms : Len(frames'[q]) = Len(assigned[q])
        BY <1>6, <2>1, <2>3, <2>4 DEF StoringInvariant, NoGap
    <2>7. ASSUME NEW g \in Frame, AtItsIndex(frames, g)
          PROVE  AtItsIndex(frames', g)
        <3>1. g.room \in Rooms /\ g.log_index \in Nat
            BY DEF Frame
        <3>2. CASE g.room # r
            BY <2>3, <2>7, <3>1, <3>2 DEF AtItsIndex
        <3>3. CASE g.room = r
            <4>1. g.log_index < Len(frames[r]) /\ frames[r][g.log_index + 1] = g
                BY <2>7, <3>3 DEF AtItsIndex
            <4>2. g.log_index + 1 \in 1..Len(frames[r])
                BY <1>4, <3>1, <4>1
            <4>3. frames'[r][g.log_index + 1] = g /\ g.log_index < Len(frames'[r])
                BY <1>4, <2>4, <3>1, <4>1, <4>2
            <4> QED BY <3>3, <4>3 DEF AtItsIndex
        <3> QED BY <3>2, <3>3
    <2> QED BY <1>3, <2>5, <2>6, <2>7
<1>8. CASE ~StoredNext(r)
    <2>1. Len(frames[r]) = Len(assigned[r])
        BY <1>8 DEF StoringInvariant, NoGap
    <2>2. frames' = frames
        BY <1>3, <1>4, <1>5, <2>1
    <2>3. \A q \in Rooms : Len(frames'[q]) = Len(assigned[q])
        BY <1>6, <1>8, <2>2 DEF StoringInvariant, NoGap
    <2>4. f.log_index + 1 \in 1..Len(frames[r])
        BY <1>4, <1>5, <2>1
    <2>5. frames[r][f.log_index + 1] = f
        BY <1>5, <2>4 DEF PipelineInvariant, LogIsOrderPrefix
    <2>6. AtItsIndex(frames', f)
        BY <1>2, <1>5, <2>1, <2>2, <2>5 DEF AtItsIndex
    <2> QED BY <1>3, <2>2, <2>3, <2>6
<1> QED BY <1>7, <1>8

\* One action of the holder's list is executed.
LEMMA ExecStores ==
    ASSUME Calm, PipelineInvariant, StoringInvariant, ServerStaysMember',
           NEW t \in Tasks, Exec(t)
    PROVE  StoringInvariant'
<1>1. Executing(t) /\ Advance(t) /\ assigned' = assigned
    BY DEF Exec, ExecPersist, ExecPersistState, ExecFailed, ExecBroadcast, historyVars
<1>2. /\ HolderOnly'
      /\ \A u \in Tasks : u # t => pending[u] = <<>> /\ pending'[u] = <<>>
      /\ pending[t][1] = Head(pending[t])
      /\ pending[t][1] \in RoomAction
      /\ 1 \in 1..Len(pending[t])
      /\ \A k \in 1..Len(pending'[t]) :
            k + 1 \in 1..Len(pending[t]) /\ pending'[t][k] = pending[t][k + 1]
    BY <1>1, HolderAdvances DEF StoringInvariant
<1>3. published \subseteq Frame
    BY DEF PipelineInvariant, TypeOK
<1>4. ASSUME \A r \in Rooms : Len(frames'[r]) = Len(assigned[r])
      PROVE  NoGap'
    BY <1>1, <1>4 DEF NoGap
<1>5. ASSUME \A k \in 1..Len(pending[t]) :
                 pending[t][k].type = "Broadcast" /\ IsSequenced(pending[t][k].frame) =>
                     AtItsIndex(frames', pending[t][k].frame)
      PROVE  StoredBeforeBroadcast'
    <2> SUFFICES ASSUME NEW u \in Tasks, NEW k \in 1..Len(pending'[u]),
                        pending'[u][k].type = "Broadcast", IsSequenced(pending'[u][k].frame)
                 PROVE  AtItsIndex(frames', pending'[u][k].frame)
        BY DEF StoredBeforeBroadcast, IsSequenced, AtItsIndex
    <2>1. Len(<<>>) = 0
        OBVIOUS
    <2>2. u = t
        BY <1>2, <2>1
    <2> QED BY <1>2, <1>5, <2>2
<1>6. CASE ExecPersist(t)
    <2>1. /\ AtItsIndex(frames', Head(pending[t]).frame)
          /\ \A q \in Rooms : Len(frames'[q]) = Len(assigned[q])
          /\ \A g \in Frame : AtItsIndex(frames, g) => AtItsIndex(frames', g)
        BY <1>2, <1>6, PersistStores
    <2>2. published' = published
        BY <1>6 DEF ExecPersist, historyVars
    <2>3. StoredBeforePublished'
        BY <1>3, <2>1, <2>2 DEF StoringInvariant, StoredBeforePublished, IsSequenced, AtItsIndex
    <2>4. ASSUME NEW k \in 1..Len(pending[t]),
                 pending[t][k].type = "Broadcast", IsSequenced(pending[t][k].frame)
          PROVE  AtItsIndex(frames', pending[t][k].frame)
        <3>1. CASE AtItsIndex(frames, pending[t][k].frame)
            <4>1. pending[t] \in Seq(RoomAction)
                BY DEF PipelineInvariant, TypeOK
            <4>2. pending[t][k] \in RoomAction
                BY <4>1
            <4>3. pending[t][k].frame \in Frame
                BY <2>4, <4>2 DEF RoomAction
            <4> QED BY <2>1, <3>1, <4>3
        <3>2. CASE pending[t][1] = Persist(pending[t][k].frame)
            <4>1. Head(pending[t]).frame = pending[t][k].frame
                BY <1>2, <3>2 DEF Persist
            <4> QED BY <2>1, <4>1
        <3> QED BY <2>4, <3>1, <3>2 DEF StoringInvariant, StoredBeforeBroadcast
    <2> QED BY <1>2, <1>4, <1>5, <2>1, <2>3, <2>4 DEF StoringInvariant
<1>7. CASE ExecPersistState(t)
    <2>1. /\ pending[t][1].type # "PersistFrame"
          /\ frames' = frames
          /\ published' = published
        BY <1>2, <1>7 DEF ExecPersistState, StoreMlsState, historyVars
    <2>2. /\ \A r \in Rooms : Len(frames[r]) = Len(assigned[r])
          /\ \A k \in 1..Len(pending[t]) :
                pending[t][k].type = "Broadcast" /\ IsSequenced(pending[t][k].frame) =>
                    AtItsIndex(frames, pending[t][k].frame)
        BY <1>2, <2>1, RestIsStored
    <2>3. StoredBeforePublished'
        BY <2>1 DEF StoringInvariant, StoredBeforePublished, IsSequenced, AtItsIndex
    <2> QED BY <1>2, <1>4, <1>5, <2>1, <2>2, <2>3 DEF StoringInvariant
<1>8. CASE ExecBroadcast(t)
    <2>1. /\ pending[t][1].type = "Broadcast"
          /\ frames' = frames
          /\ published' = published \cup {pending[t][1].frame}
        BY <1>2, <1>8 DEF ExecBroadcast, storageVars
    <2>2. /\ \A r \in Rooms : Len(frames[r]) = Len(assigned[r])
          /\ \A k \in 1..Len(pending[t]) :
                pending[t][k].type = "Broadcast" /\ IsSequenced(pending[t][k].frame) =>
                    AtItsIndex(frames, pending[t][k].frame)
        BY <1>2, <2>1, RestIsStored
    <2>3. StoredBeforePublished'
        BY <1>2, <2>1, <2>2
        DEF StoringInvariant, StoredBeforePublished, IsSequenced, AtItsIndex
    <2> QED BY <1>2, <1>4, <1>5, <2>1, <2>2, <2>3 DEF StoringInvariant
<1> QED BY <1>6, <1>7, <1>8 DEF Exec, ExecFailed, Calm

\* Every step of a calm runtime keeps the invariant.
LEMMA NextKeepsStoring ==
    ASSUME Calm, PipelineInvariant, PipelineInvariant', StoringInvariant, [Next]_vars
    PROVE  StoringInvariant'
<1> USE DEF storageVars, roomVars, runtimeVars, historyVars
<1>0. ServerStaysMember
    BY DEF StoringInvariant
<1>1. ASSUME groups' = groups
      PROVE  ServerStaysMember'
    BY <1>0, <1>1 DEF ServerStaysMember, Active
<1>2. ASSUME NEW t \in Tasks, NEW f \in Incoming, Refuse(t, f) \/ Overflow(t, f)
      PROVE  StoringInvariant'
    BY <1>1, <1>2, NothingStored DEF Refuse, RefuseFrame, Overflow, RefuseOverflow
<1>3. ASSUME NEW t \in Tasks, NEW f \in Incoming, Welcome(t, f)
      PROVE  StoringInvariant'
    <2>1. ServerStaysMember'
        BY <1>1, <1>3 DEF Welcome, RelayWelcome
    <2> QED BY <1>3, <2>1, WelcomeStores
<1>4. ASSUME NEW t \in Tasks, NEW f \in Incoming, Message(t, f)
      PROVE  StoringInvariant'
    <2>1. PICK st \in MlsGroupState : st = [epoch |-> 0, members |-> {}]
        BY DEF MlsGroupState
    <2>2. PICK acts \in Seq(RoomAction) :
              /\ acts = MessageActions(f)
              /\ \A k \in 1..Len(acts) : acts[k] \in
                    {Persist(Sequenced(f)), Broadcast(Sequenced(f)), PersistState(f.room, st)}
        BY ActionLists
    <2>3. acts # <<>> /\ acts[1] = Persist(Sequenced(f))
        BY <2>2, ListHeads
    <2>4. /\ ServerStaysMember'
          /\ Ready(t) /\ Return(t, acts) /\ Numbered(f) /\ UNCHANGED <<frames, published>>
        BY <1>1, <1>4, <2>2 DEF Message, SequenceMessage
    <2> QED BY <2>2, <2>3, <2>4, AcceptStores
<1>5. ASSUME NEW t \in Tasks, NEW f \in Incoming, Commit(t, f)
      PROVE  StoringInvariant'
    <2>1. ServerStaysMember'
        <3>1. CASE SequenceIgnoredCommit(f)
            BY <1>1, <3>1 DEF SequenceIgnoredCommit
        <3>2. CASE \E ms \in SUBSET Users : SequenceCommit(f, ms)
            BY <1>0, <3>2, MergeKeepsServer
        <3> QED BY <1>5, <3>1, <3>2 DEF Commit
    <2>2. PICK st \in MlsGroupState : Return(t, CommitActions(f, st))
        BY <1>5, CommitStateReached
    <2>3. PICK acts \in Seq(RoomAction) :
              /\ acts = CommitActions(f, st)
              /\ \A k \in 1..Len(acts) : acts[k] \in
                    {Persist(Sequenced(f)), Broadcast(Sequenced(f)), PersistState(f.room, st)}
        BY ActionLists
    <2>4. acts # <<>> /\ acts[1] = Persist(Sequenced(f))
        BY <2>3, ListHeads
    <2>5. Ready(t) /\ Return(t, acts) /\ Numbered(f) /\ UNCHANGED <<frames, published>>
        BY <1>5, <2>2, <2>3 DEF Commit
    <2> QED BY <2>1, <2>3, <2>4, <2>5, AcceptStores
<1>6. ASSUME NEW t \in Tasks, Exec(t)
      PROVE  StoringInvariant'
    <2>1. ServerStaysMember'
        BY <1>1, <1>6 DEF Exec, ExecPersist, ExecPersistState, ExecFailed, ExecBroadcast
    <2> QED BY <1>6, <2>1, ExecStores
<1>7. CASE Embedder
    <2>1. ServerStaysMember'
        BY <1>0, <1>7, EmbedderKeepsServer
    <2> QED BY <1>7, <2>1, NothingStored DEF Embedder
<1>8. CASE Restart
    <2>1. /\ groups' = [r \in Rooms |-> NoGroup]
          /\ pending' = [t \in Tasks |-> <<>>]
          /\ lock' = Free
          /\ assigned' = frames
          /\ UNCHANGED <<frames, published>>
        BY <1>8 DEF Restart, NewRoomManager
    <2>2. HolderOnly' /\ ServerStaysMember'
        BY <2>1, PipelineAssumption DEF HolderOnly, ServerStaysMember
    <2>3. NoGap'
        BY <2>1 DEF NoGap
    <2>4. StoredBeforeBroadcast'
        <3>1. Len(<<>>) = 0
            OBVIOUS
        <3> QED BY <2>1, <3>1 DEF StoredBeforeBroadcast
    <2>5. StoredBeforePublished'
        BY <2>1 DEF StoringInvariant, StoredBeforePublished, IsSequenced, AtItsIndex
    <2> QED BY <2>2, <2>3, <2>4, <2>5 DEF StoringInvariant
<1>9. CASE UNCHANGED vars
    BY <1>1, <1>9, NothingStored DEF vars
<1> QED BY <1>0, <1>2, <1>3, <1>4, <1>5, <1>6, <1>7, <1>8, <1>9, NothingDropped DEF Next

\* Initially nothing is outstanding.
LEMMA InitStoring ==
    ASSUME Init
    PROVE  StoringInvariant
<1>1. \A t \in Tasks : pending[t] = <<>> /\ Len(pending[t]) = 0
    BY DEF Init
<1>2. HolderOnly /\ ServerStaysMember
    BY <1>1, PipelineAssumption DEF Init, RoomManagerInit, HolderOnly, ServerStaysMember
<1>3. NoGap
    BY DEF Init, StorageInit, NoGap
<1>4. StoredBeforeBroadcast /\ StoredBeforePublished
    BY <1>1 DEF Init, StoredBeforeBroadcast, StoredBeforePublished
<1> QED BY <1>2, <1>3, <1>4 DEF StoringInvariant

\* The invariant holds in every state of a calm runtime, restarts included.
THEOREM StoringInvariantHolds == ASSUME Calm PROVE Spec => []StoringInvariant
<1>1. PipelineInvariant /\ PipelineInvariant' /\ StoringInvariant /\ [Next]_vars
          => StoringInvariant'
    BY NextKeepsStoring
<1> QED BY <1>1, InitStoring, PipelineInvariantHolds, PTL DEF Spec

\* StoredBeforePublished: in a calm runtime a frame reaches the subscribers
\* only after it is in the log (RoomManager pushes PersistFrame before
\* Broadcast, and the driver executes the list in order under the lock).
THEOREM PublishedIsDurable == ASSUME Calm PROVE Spec => []StoredBeforePublished
<1>1. StoringInvariant => StoredBeforePublished
    BY DEF StoringInvariant
<1> QED BY <1>1, StoringInvariantHolds, PTL

\* NoGapsAtRest: in a calm runtime, when no action is outstanding, the cached
\* next index of a room is the length of its log (Sequencer never consumes an
\* index that the storage does not fill), restarts included.
THEOREM LogFilledAtRest == ASSUME Calm PROVE Spec => []NoGapsAtRest
<1>1. PipelineInvariant /\ StoringInvariant => NoGapsAtRest
    BY DEF PipelineInvariant, StoringInvariant, NoGapsAtRest, AtRest, NoGap, StoredNext,
           CounterIsOrderLength
<1> QED BY <1>1, StoringInvariantHolds, PipelineInvariantHolds, PTL

-----------------------------------------------------------------------------
(* The stored MLS state, until the first restart.                          *)

\* The state a Commit hands out is the one its group has after the step.
LEMMA CommitStateCurrent ==
    ASSUME PipelineInvariant, NEW t \in Tasks, NEW f \in Incoming, Commit(t, f)
    PROVE  /\ f.room \in Rooms
           /\ groups'[f.room] # NoGroup
           /\ \A r \in Rooms : r # f.room => groups'[r] = groups[r]
           /\ \E st \in MlsGroupState :
                 Return(t, CommitActions(f, st)) /\ st = ExportState(groups'[f.room])
<1>1. f.room \in Rooms /\ groups \in [Rooms -> Group \cup {NoGroup}]
    BY IncomingIsFrame DEF PipelineInvariant, TypeOK, RoomManagerTypeOK
<1>2. CASE /\ SequenceIgnoredCommit(f)
           /\ Return(t, CommitActions(f, ExportState(groups[f.room])))
    <2>1. groups[f.room] # NoGroup /\ groups' = groups
        BY <1>2 DEF SequenceIgnoredCommit, Admissible, ValidBasic
    <2>2. PICK st \in MlsGroupState : st = ExportState(groups[f.room])
        BY <1>1, <2>1, MergedGroup
    <2> QED BY <1>1, <1>2, <2>1, <2>2
<1>3. CASE \E ms \in SUBSET Users \ {{}} :
              /\ SequenceCommit(f, ms)
              /\ Return(t, CommitActions(f, ExportState(Merged(groups[f.room], ms))))
    <2>1. PICK ms \in SUBSET Users :
              /\ MergeCommit(f, ms)
              /\ Return(t, CommitActions(f, ExportState(Merged(groups[f.room], ms))))
        BY <1>3 DEF SequenceCommit
    <2>2. PICK g \in Group : g = Merged(groups[f.room], ms)
        BY <2>1, MergeAdvances
    <2>3. groups[f.room] # NoGroup /\ groups' = [groups EXCEPT ![f.room] = g]
        BY <2>1, <2>2, MergeAdvances
    <2>4. PICK st \in MlsGroupState : st = ExportState(g)
        BY <1>1, <2>2, <2>3, MergedGroup
    <2>5. /\ groups'[f.room] = g
          /\ \A r \in Rooms : r # f.room => groups'[r] = groups[r]
        BY <1>1, <2>3
    <2>6. g # NoGroup
        BY RoomManagerAssumption
    <2> QED BY <1>1, <2>1, <2>2, <2>4, <2>5, <2>6
<1> QED BY <1>2, <1>3 DEF Commit

\* While nothing is outstanding, a room's stored state is its group's, or the
\* room has stored none and is in epoch 0.
LEMMA NothingOutstanding ==
    ASSUME StoredStatesCurrent, \A u \in Tasks : pending[u] = <<>>,
           NEW r \in Rooms, groups[r] # NoGroup
    PROVE  \/ mls_states[r] = ExportState(groups[r])
           \/ mls_states[r] = NoState /\ groups[r].epoch = 0
<1>1. Len(<<>>) = 0
    OBVIOUS
<1>2. ~StateToStore(r)
    BY <1>1 DEF StateToStore
<1> QED BY <1>2 DEF StoredStatesCurrent

\* A list without a state is handed out.
LEMMA NoStateHandedOut ==
    ASSUME StoredStatesCurrent, \A u \in Tasks : pending[u] = <<>>,
           groups' = groups, mls_states' = mls_states,
           \A u \in Tasks : \A k \in 1..Len(pending'[u]) :
               pending'[u][k].type # "PersistMlsState"
    PROVE  PendingStatesCurrent' /\ StoredStatesCurrent'
<1>1. PendingStatesCurrent'
    BY DEF PendingStatesCurrent
<1>2. ASSUME NEW r \in Rooms, groups'[r] # NoGroup
      PROVE  \/ mls_states'[r] = ExportState(groups'[r])
             \/ mls_states'[r] = NoState /\ groups'[r].epoch = 0
    BY <1>2, NothingOutstanding
<1> QED BY <1>1, <1>2 DEF StoredStatesCurrent, ExportState

\* A commit hands out the state of the group it leaves behind.
LEMMA CommitHandsOutState ==
    ASSUME Calm, PipelineInvariant, StoringInvariant, StoredStatesCurrent,
           NEW t \in Tasks, NEW f \in Incoming, Commit(t, f)
    PROVE  PendingStatesCurrent' /\ StoredStatesCurrent'
<1>1. /\ f.room \in Rooms
      /\ groups'[f.room] # NoGroup
      /\ \A r \in Rooms : r # f.room => groups'[r] = groups[r]
    BY CommitStateCurrent
<1>2. PICK st \in MlsGroupState :
          Return(t, CommitActions(f, st)) /\ st = ExportState(groups'[f.room])
    BY CommitStateCurrent
<1>3. PICK acts \in Seq(RoomAction) :
          /\ acts = CommitActions(f, st)
          /\ \A k \in 1..Len(acts) : acts[k] \in
                {Persist(Sequenced(f)), Broadcast(Sequenced(f)), PersistState(f.room, st)}
    BY ActionLists
<1>4. acts # <<>> /\ 4 \in 1..Len(acts) /\ acts[4] = PersistState(f.room, st)
    BY <1>3, ListHeads DEF CommitActions
<1>5. mls_states' = mls_states /\ Ready(t)
    BY DEF Commit, storageVars
<1>6. /\ \A u \in Tasks : pending[u] = <<>>
      /\ pending'[t] = acts
      /\ \A u \in Tasks : u # t => pending'[u] = <<>>
    BY <1>2, <1>3, <1>4, <1>5, HolderReturns DEF StoringInvariant
<1>7. /\ PersistState(f.room, st).room = f.room
      /\ PersistState(f.room, st).state = st
      /\ PersistState(f.room, st).type = "PersistMlsState"
      /\ Persist(Sequenced(f)).type # "PersistMlsState"
      /\ Broadcast(Sequenced(f)).type # "PersistMlsState"
    BY DEF PersistState, Persist, Broadcast
<1>8. PendingStatesCurrent'
    <2> SUFFICES ASSUME NEW u \in Tasks, NEW k \in 1..Len(pending'[u]),
                        pending'[u][k].type = "PersistMlsState"
                 PROVE  /\ groups'[pending'[u][k].room] # NoGroup
                        /\ pending'[u][k].state = ExportState(groups'[pending'[u][k].room])
        BY DEF PendingStatesCurrent, ExportState
    <2>1. Len(<<>>) = 0
        OBVIOUS
    <2>2. u = t
        BY <1>6, <2>1
    <2>3. pending'[u][k] = PersistState(f.room, st)
        BY <1>3, <1>6, <1>7, <2>2
    <2> QED BY <1>1, <1>2, <1>7, <2>3
<1>9. StateToStore(f.room)'
    BY <1>4, <1>6, <1>7 DEF StateToStore
<1>10. ASSUME NEW r \in Rooms, groups'[r] # NoGroup, r # f.room
       PROVE  \/ mls_states'[r] = ExportState(groups'[r])
              \/ mls_states'[r] = NoState /\ groups'[r].epoch = 0
    <2>1. groups'[r] = groups[r] /\ mls_states'[r] = mls_states[r]
        BY <1>1, <1>5, <1>10
    <2> QED BY <1>6, <1>10, <2>1, NothingOutstanding
<1>11. StoredStatesCurrent'
    <2> SUFFICES ASSUME NEW r \in Rooms, groups'[r] # NoGroup
                 PROVE  \/ mls_states'[r] = ExportState(groups'[r])
                        \/ mls_states'[r] = NoState /\ groups'[r].epoch = 0
                        \/ StateToStore(r)'
        BY DEF StoredStatesCurrent, ExportState
    <2> QED BY <1>9, <1>10
<1> QED BY <1>8, <1>11

\* One action is executed: a state that was to be stored is stored, or still is
\* to be.
LEMMA ExecKeepsStates ==
    ASSUME Calm, PipelineInvariant, StoringInvariant, PendingStatesCurrent,
           StoredStatesCurrent, NEW t \in Tasks, Exec(t)
    PROVE  PendingStatesCurrent' /\ StoredStatesCurrent'
<1>1. Executing(t) /\ Advance(t) /\ groups' = groups
    BY DEF Exec, ExecPersist, ExecPersistState, ExecFailed, ExecBroadcast, roomVars
<1>2. /\ \A u \in Tasks : u # t => pending[u] = <<>> /\ pending'[u] = <<>>
      /\ pending[t][1] = Head(pending[t])
      /\ pending[t][1] \in RoomAction
      /\ 1 \in 1..Len(pending[t])
      /\ \A k \in 1..Len(pending'[t]) :
            k + 1 \in 1..Len(pending[t]) /\ pending'[t][k] = pending[t][k + 1]
    BY <1>1, HolderAdvances DEF StoringInvariant
<1>3. Len(<<>>) = 0
    OBVIOUS
<1>4. PendingStatesCurrent'
    <2> SUFFICES ASSUME NEW u \in Tasks, NEW k \in 1..Len(pending'[u]),
                        pending'[u][k].type = "PersistMlsState"
                 PROVE  /\ groups[pending'[u][k].room] # NoGroup
                        /\ pending'[u][k].state = ExportState(groups[pending'[u][k].room])
        BY <1>1 DEF PendingStatesCurrent, ExportState
    <2>1. u = t
        BY <1>2, <1>3
    <2> QED BY <1>2, <2>1 DEF PendingStatesCurrent
<1>5. \A k \in 2..Len(pending[t]) :
          k - 1 \in 1..Len(pending'[t]) /\ pending'[t][k - 1] = pending[t][k]
    <2>1. pending[t] \in Seq(RoomAction) /\ pending[t] # <<>> /\ pending'[t] = Tail(pending[t])
        BY <1>1 DEF PipelineInvariant, TypeOK, Executing, Advance
    <2>2. /\ Len(pending[t]) \in Nat
          /\ Tail(pending[t]) \in Seq(RoomAction)
          /\ Len(Tail(pending[t])) = Len(pending[t]) - 1
        BY <2>1
    <2>3. \A k \in 2..Len(pending[t]) : k - 1 \in 1..Len(pending'[t])
        BY <2>1, <2>2
    <2>4. \A k \in 2..Len(pending[t]) : pending'[t][k - 1] = pending[t][(k - 1) + 1]
        BY <1>2, <2>3
    <2>5. \A k \in 2..Len(pending[t]) : (k - 1) + 1 = k
        BY <2>2
    <2> QED BY <2>3, <2>4, <2>5
<1>6. ASSUME NEW r \in Rooms, StateToStore(r)
      PROVE  \/ StateToStore(r)'
             \/ pending[t][1].type = "PersistMlsState" /\ pending[t][1].room = r
    <2>0. PICK u \in Tasks : \E k \in 1..Len(pending[u]) :
              pending[u][k].type = "PersistMlsState" /\ pending[u][k].room = r
        BY <1>6 DEF StateToStore
    <2>1. PICK k \in 1..Len(pending[u]) :
              pending[u][k].type = "PersistMlsState" /\ pending[u][k].room = r
        BY <2>0
    <2>2. u = t
        BY <1>2, <1>3, <2>1
    <2>3. CASE k = 1
        BY <2>1, <2>2, <2>3
    <2>4. CASE k # 1
        <3>1. k \in 2..Len(pending[t])
            BY <2>2, <2>4
        <3>2. PICK j \in 1..Len(pending'[t]) : pending'[t][j] = pending[t][k]
            BY <1>5, <3>1
        <3>3. pending'[t][j].type = "PersistMlsState" /\ pending'[t][j].room = r
            BY <2>1, <2>2, <3>2
        <3>4. \E i \in 1..Len(pending'[t]) :
                  pending'[t][i].type = "PersistMlsState" /\ pending'[t][i].room = r
            BY <3>3
        <3>5. StateToStore(r)'
            BY <3>4 DEF StateToStore
        <3> QED BY <3>5
    <2> QED BY <2>3, <2>4
<1>7. ASSUME NEW r \in Rooms, groups[r] # NoGroup
      PROVE  \/ mls_states'[r] = ExportState(groups[r])
             \/ mls_states'[r] = NoState /\ groups[r].epoch = 0
             \/ StateToStore(r)'
    <2>1. CASE ExecPersistState(t)
        <3>1. PICK q \in Rooms, st \in MlsGroupState :
                  /\ q = pending[t][1].room /\ st = pending[t][1].state
                  /\ pending[t][1].type = "PersistMlsState"
            BY <1>2, <2>1 DEF ExecPersistState, RoomAction
        <3>2. mls_states' = [mls_states EXCEPT ![q] = st]
            BY <1>2, <2>1, <3>1 DEF ExecPersistState, StoreMlsState
        <3>3. st = ExportState(groups[q])
            BY <1>2, <3>1 DEF PendingStatesCurrent
        <3>4. /\ mls_states'[q] = st
              /\ r # q => mls_states'[r] = mls_states[r]
            BY <3>2 DEF PipelineInvariant, TypeOK, StorageTypeOK
        <3>5. CASE r = q
            BY <3>3, <3>4, <3>5
        <3>6. CASE r # q
            BY <1>6, <1>7, <3>1, <3>4, <3>6 DEF StoredStatesCurrent
        <3> QED BY <3>5, <3>6
    <2>2. CASE ExecPersist(t) \/ ExecBroadcast(t)
        <3>1. mls_states' = mls_states /\ pending[t][1].type # "PersistMlsState"
            BY <1>2, <2>2 DEF ExecPersist, ExecBroadcast, StoreFrame, storageVars
        <3> QED BY <1>6, <1>7, <3>1 DEF StoredStatesCurrent
    <2> QED BY <2>1, <2>2 DEF Exec, ExecFailed, Calm
<1>8. StoredStatesCurrent'
    <2> SUFFICES ASSUME NEW r \in Rooms, groups[r] # NoGroup
                 PROVE  \/ mls_states'[r] = ExportState(groups[r])
                        \/ mls_states'[r] = NoState /\ groups[r].epoch = 0
                        \/ StateToStore(r)'
        BY <1>1 DEF StoredStatesCurrent, ExportState
    <2> QED BY <1>7
<1> QED BY <1>4, <1>8

\* create_room, add_members and remove_members change no exported state.
LEMMA EmbedderKeepsStates ==
    ASSUME PipelineInvariant, StoringInvariant, StoredStatesReached, StoredStatesCurrent,
           Embedder
    PROVE  PendingStatesCurrent' /\ StoredStatesCurrent'
<1>1. /\ lock = Free
      /\ pending' = pending
      /\ mls_states' = mls_states
    BY DEF Embedder, runtimeVars, storageVars
<1>2. \A u \in Tasks : pending[u] = <<>> /\ pending'[u] = <<>>
    BY <1>1, PipelineAssumption DEF StoringInvariant, HolderOnly
<1>3. PendingStatesCurrent'
    <2>1. Len(<<>>) = 0
        OBVIOUS
    <2> QED BY <1>2, <2>1 DEF PendingStatesCurrent
<1>4. /\ \A r \in Rooms : groups[r] # NoGroup =>
            /\ groups'[r] # NoGroup
            /\ groups'[r].epoch = groups[r].epoch
            /\ groups'[r].members = groups[r].members
      /\ \A r \in Rooms : groups[r] = NoGroup /\ groups'[r] # NoGroup => groups'[r].epoch = 0
    BY EmbedderKeepsServer DEF StoringInvariant
<1>5. ASSUME NEW r \in Rooms, groups'[r] # NoGroup
      PROVE  \/ mls_states'[r] = ExportState(groups'[r])
             \/ mls_states'[r] = NoState /\ groups'[r].epoch = 0
    <2>1. CASE groups[r] # NoGroup
        <3>1. ExportState(groups'[r]) = ExportState(groups[r])
            BY <1>4, <2>1 DEF ExportState
        <3> QED BY <1>1, <1>2, <1>4, <2>1, <3>1, NothingOutstanding
    <2>2. CASE groups[r] = NoGroup
        BY <1>1, <1>4, <1>5, <2>2 DEF StoredStatesReached, Reached
    <2> QED BY <2>1, <2>2
<1>6. StoredStatesCurrent'
    BY <1>5 DEF StoredStatesCurrent, ExportState
<1> QED BY <1>3, <1>6

\* Every step of a calm runtime keeps the invariant until the first restart.
LEMMA NextKeepsStates ==
    ASSUME Calm, PipelineInvariant, PipelineInvariant', StoringInvariant, EpochInvariant,
           StateInvariant, [Next]_vars
    PROVE  StateInvariant'
<1> USE DEF storageVars, roomVars, runtimeVars, boundVars, historyVars
<1>1. restarts \in Nat
    BY PipelineAssumption DEF PipelineInvariant, TypeOK
<1> SUFFICES ASSUME restarts' = 0
             PROVE  PendingStatesCurrent' /\ StoredStatesCurrent'
    BY DEF StateInvariant
<1>2. ~Restart
    BY <1>1 DEF Restart
<1>3. restarts = 0
    BY <1>2 DEF Next, vars, Refuse, Overflow, Welcome, Drop, Message, Commit, Exec,
                ExecPersist, ExecPersistState, ExecFailed, ExecBroadcast, Embedder
<1>4. PendingStatesCurrent /\ StoredStatesCurrent /\ StoredStatesReached
    BY <1>3 DEF StateInvariant, EpochInvariant
<1>5. ASSUME UNCHANGED <<groups, pending, mls_states>>
      PROVE  PendingStatesCurrent' /\ StoredStatesCurrent'
    BY <1>4, <1>5 DEF PendingStatesCurrent, StoredStatesCurrent, StateToStore, ExportState
<1>6. ASSUME NEW t \in Tasks, NEW f \in Incoming, Refuse(t, f) \/ Overflow(t, f)
      PROVE  PendingStatesCurrent' /\ StoredStatesCurrent'
    BY <1>5, <1>6 DEF Refuse, RefuseFrame, Overflow, RefuseOverflow
<1>7. ASSUME NEW t \in Tasks, NEW acts, acts # <<>>, Ready(t), Return(t, acts),
             groups' = groups, mls_states' = mls_states,
             \A k \in 1..Len(acts) : acts[k].type # "PersistMlsState"
      PROVE  PendingStatesCurrent' /\ StoredStatesCurrent'
    <2>1. /\ \A u \in Tasks : pending[u] = <<>>
          /\ pending'[t] = acts
          /\ \A u \in Tasks : u # t => pending'[u] = <<>>
        BY <1>7, HolderReturns DEF StoringInvariant
    <2>2. Len(<<>>) = 0
        OBVIOUS
    <2>3. \A u \in Tasks : \A k \in 1..Len(pending'[u]) :
              pending'[u][k].type # "PersistMlsState"
        BY <1>7, <2>1, <2>2
    <2> QED BY <1>4, <1>7, <2>1, <2>3, NoStateHandedOut
<1>8. ASSUME NEW t \in Tasks, NEW f \in Incoming, Welcome(t, f)
      PROVE  PendingStatesCurrent' /\ StoredStatesCurrent'
    <2>1. PICK b : b = Broadcast(f)
        OBVIOUS
    <2>2. <<b>> # <<>> /\ \A k \in 1..Len(<<b>>) : <<b>>[k] = b
        OBVIOUS
    <2>3. b.type # "PersistMlsState"
        BY <2>1 DEF Broadcast
    <2>4. Ready(t) /\ Return(t, <<b>>) /\ groups' = groups /\ mls_states' = mls_states
        BY <1>8, <2>1 DEF Welcome, RelayWelcome
    <2> QED BY <1>7, <2>2, <2>3, <2>4
<1>9. ASSUME NEW t \in Tasks, NEW f \in Incoming, Message(t, f)
      PROVE  PendingStatesCurrent' /\ StoredStatesCurrent'
    <2>1. [epoch |-> 0, members |-> {}] \in MlsGroupState
        BY DEF MlsGroupState
    <2>2. \A j \in 1..Len(MessageActions(f)) :
              MessageActions(f)[j] \in {Persist(Sequenced(f)), Broadcast(Sequenced(f))}
        BY <2>1, ActionLists
    <2>3. \A j \in 1..Len(MessageActions(f)) : MessageActions(f)[j].type # "PersistMlsState"
        BY <2>2 DEF Persist, Broadcast
    <2>4. MessageActions(f) # <<>>
        BY ListHeads
    <2>5. /\ Ready(t) /\ Return(t, MessageActions(f))
          /\ groups' = groups /\ mls_states' = mls_states
        BY <1>9 DEF Message, SequenceMessage
    <2> QED BY <1>7, <2>3, <2>4, <2>5
<1>10. ASSUME NEW t \in Tasks, NEW f \in Incoming, Commit(t, f)
       PROVE  PendingStatesCurrent' /\ StoredStatesCurrent'
    BY <1>4, <1>10, CommitHandsOutState
<1>11. ASSUME NEW t \in Tasks, Exec(t)
       PROVE  PendingStatesCurrent' /\ StoredStatesCurrent'
    BY <1>4, <1>11, ExecKeepsStates
<1>12. CASE Embedder
    BY <1>4, <1>12, EmbedderKeepsStates
<1>13. CASE UNCHANGED vars
    BY <1>5, <1>13 DEF vars
<1>14. ASSUME NEW t \in Tasks, NEW f \in Incoming
       PROVE  ~Drop(t, f)
    BY NothingDropped DEF StoringInvariant
<1> QED BY <1>2, <1>6, <1>8, <1>9, <1>10, <1>11, <1>12, <1>13, <1>14 DEF Next

\* Initially no group exists.
LEMMA InitStates ==
    ASSUME Init
    PROVE  StateInvariant
<1>1. \A t \in Tasks : pending[t] = <<>> /\ Len(pending[t]) = 0
    BY DEF Init
<1>2. \A r \in Rooms : groups[r] = NoGroup
    BY DEF Init, RoomManagerInit
<1> QED BY <1>1, <1>2 DEF StateInvariant, PendingStatesCurrent, StoredStatesCurrent

\* Until the first restart of a calm runtime, the state of a group is stored or
\* is about to be.
THEOREM StateInvariantHolds == ASSUME Calm PROVE Spec => []StateInvariant
<1>1. PipelineInvariant /\ PipelineInvariant' /\ StoringInvariant /\ EpochInvariant
          /\ StateInvariant /\ [Next]_vars => StateInvariant'
    BY NextKeepsStates
<1> QED BY <1>1, InitStates, PipelineInvariantHolds, StoringInvariantHolds,
           EpochInvariantHolds, PTL DEF Spec

\* StateCurrentAtRest: in a calm runtime that does not restart, whenever no
\* action is outstanding, the MLS state that validate_frame_basic reads is the
\* one the room's group would export.
THEOREM ValidatedAgainstGroup ==
    ASSUME Calm, MaxRestarts = 0
    PROVE  Spec => []StateCurrentAtRest
<1>1. PipelineInvariant /\ StateInvariant => StateCurrentAtRest
    <2> SUFFICES ASSUME PipelineInvariant, StateInvariant, AtRest,
                        NEW r \in Rooms, groups[r] # NoGroup
                 PROVE  \/ mls_states[r] = ExportState(groups[r])
                        \/ mls_states[r] = NoState /\ groups[r].epoch = 0
        BY DEF StateCurrentAtRest
    <2>1. restarts = 0
        BY DEF PipelineInvariant, TypeOK
    <2>2. StoredStatesCurrent /\ \A u \in Tasks : pending[u] = <<>>
        BY <2>1 DEF StateInvariant, AtRest
    <2> QED BY <2>2, NothingOutstanding
<1> QED BY <1>1, StateInvariantHolds, PipelineInvariantHolds, PTL

\* StoredEpochMonotone: in a calm runtime that does not restart, store_mls_state
\* never puts back an older epoch.
THEOREM StoredEpochNeverFalls ==
    ASSUME Calm, MaxRestarts = 0
    PROVE  Spec => StoredEpochMonotone
<1>1. PipelineInvariant /\ PipelineInvariant' /\ EpochInvariant /\ StateInvariant
          /\ [Next]_vars
          => [\A r \in Rooms : mls_states[r] # NoState =>
                 mls_states'[r] # NoState /\ mls_states'[r].epoch >= mls_states[r].epoch]_vars
    <2> SUFFICES ASSUME PipelineInvariant, PipelineInvariant', EpochInvariant,
                        StateInvariant, [Next]_vars, NEW r \in Rooms,
                        mls_states[r] # NoState
                 PROVE  /\ mls_states'[r] # NoState
                        /\ mls_states'[r].epoch >= mls_states[r].epoch
        OBVIOUS
    <2>1. restarts = 0 /\ restarts' = restarts
        BY DEF PipelineInvariant, TypeOK
    <2>2. PendingStatesCurrent /\ StoredStatesReached
        BY <2>1 DEF StateInvariant, EpochInvariant
    <2>3. mls_states[r] \in MlsGroupState
        BY DEF PipelineInvariant, TypeOK, StorageTypeOK
    <2>4. mls_states[r].epoch \in Nat
        BY <2>3 DEF MlsGroupState
    <2>5. CASE mls_states'[r] = mls_states[r]
        BY <2>4, <2>5
    <2>6. ASSUME NEW t \in Tasks, NEW k \in 1..Len(pending[t]),
                 pending[t][k].type = "PersistMlsState", pending[t][k].room = r,
                 pending[t][k].state = mls_states'[r]
          PROVE  /\ mls_states'[r] # NoState
                 /\ mls_states'[r].epoch >= mls_states[r].epoch
        <3>1. groups[r] # NoGroup /\ mls_states'[r] = ExportState(groups[r])
            BY <2>2, <2>6 DEF PendingStatesCurrent
        <3>2. groups[r] \in Group
            BY <3>1 DEF PipelineInvariant, TypeOK, RoomManagerTypeOK
        <3>3. /\ ExportState(groups[r]) \in MlsGroupState
              /\ ExportState(groups[r]).epoch = groups[r].epoch
              /\ groups[r].epoch \in Nat
            BY <3>2 DEF ExportState, Group, MlsGroupState
        <3>4. mls_states[r].epoch <= groups[r].epoch
            BY <2>2 DEF StoredStatesReached, Reached
        <3>5. mls_states'[r] # NoState
            BY <3>1, <3>3, NoStateAssumption
        <3> QED BY <2>4, <3>1, <3>3, <3>4, <3>5
    <2> QED BY <2>1, <2>5, <2>6, StoredStateWasPending
<1> QED BY <1>1, StateInvariantHolds, EpochInvariantHolds, PipelineInvariantHolds, PTL
        DEF Spec, StoredEpochMonotone
=============================================================================
