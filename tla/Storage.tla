------------------------------ MODULE Storage -------------------------------
(***************************************************************************)
(* MemoryStorage (lockframe-server/src/storage/memory.rs): per room a log  *)
(* of frames and the last persisted MLS state.  A failing operation, as    *)
(* ChaoticStorage (storage/chaotic.rs) injects it, changes nothing.        *)
(***************************************************************************)
EXTENDS Frames, Sequences

CONSTANTS NoState       \* load_mls_state returned None

MlsGroupState == [epoch : Nat, members : SUBSET Users]

ASSUME NoStateAssumption == NoState \notin MlsGroupState

VARIABLES
    frames,         \* room -> its Vec<Frame>; frames[r][i + 1] has index i
    entries,        \* rooms that have an entry in the frames map
    mls_states      \* room -> persisted MlsGroupState, or NoState

storageVars == <<frames, entries, mls_states>>

StorageTypeOK ==
    /\ frames \in [Rooms -> Seq(Frame)]
    /\ entries \subseteq Rooms
    /\ mls_states \in [Rooms -> MlsGroupState \cup {NoState}]

StorageInit ==
    /\ frames = [r \in Rooms |-> <<>>]
    /\ entries = {}
    /\ mls_states = [r \in Rooms |-> NoState]

-----------------------------------------------------------------------------
\* Mutant of NextFromStorage: latest_log_index is used without adding one.
NextFromStorage_Latest(r) == IF frames[r] = <<>> THEN 0 ELSE Len(frames[r]) - 1

\* Mutant of NextFromStorage: a room always starts at index 0.
NextFromStorage_Zero(r) == 0

\* The next index a reader derives from latest_log_index: latest + 1, or 0
\* when it is None (no entry, or an entry whose vector is empty).
NextFromStorage(r) == Len(frames[r])

\* load_frames with an entry for r: frames[from .. min(from + limit, len)],
\* and nothing when from lies beyond the end.  Without an entry it is NotFound.
LoadFrames(r, from, limit) ==
    LET end == IF from + limit < Len(frames[r]) THEN from + limit
                                                ELSE Len(frames[r])
    IN  SubSeq(frames[r], from + 1, end)

-----------------------------------------------------------------------------
\* Mutant of StoreFrame: the index is not compared with the length.
StoreFrame_Unchecked(r, i, f) ==
    /\ entries' = entries \cup {r}
    /\ frames' = [frames EXCEPT ![r] = Append(@, f)]
    /\ UNCHANGED mls_states

\* Mutant of StoreFrame: an index beyond the end is taken as well.
StoreFrame_Gaps(r, i, f) ==
    /\ entries' = entries \cup {r}
    /\ frames' = IF i >= Len(frames[r])
                 THEN [frames EXCEPT ![r] = Append(@, f)]
                 ELSE frames
    /\ UNCHANGED mls_states

\* store_frame: the index must be the length of the log (Conflict otherwise);
\* the map entry is created before the check, so also on a conflict.
StoreFrame(r, i, f) ==
    /\ entries' = entries \cup {r}
    /\ frames' = IF i = Len(frames[r])
                 THEN [frames EXCEPT ![r] = Append(@, f)]
                 ELSE frames
    /\ UNCHANGED mls_states

\* store_mls_state: overwrites whatever is there.
StoreMlsState(r, state) ==
    /\ mls_states' = [mls_states EXCEPT ![r] = state]
    /\ UNCHANGED <<frames, entries>>
=============================================================================
