----------------------------- MODULE Sequencer ------------------------------
(***************************************************************************)
(* Sequencer (lockframe-server/src/sequencer.rs): gives the frames of a    *)
(* room consecutive log indices.  The counter of a room is cached on first *)
(* use from what the storage holds, and only the cache is used after that. *)
(***************************************************************************)
EXTENDS Storage

CONSTANTS
    Uncached,           \* the room is not in Sequencer.rooms
    MAX_EPOCH,          \* mls/constants.rs: frames above it are refused
    MAX_LOG_INDEX       \* u64::MAX, where checked_add fails

ASSUME SequencerAssumption ==
    /\ Uncached \notin Nat
    /\ MAX_EPOCH \in Nat
    /\ MAX_LOG_INDEX \in Nat

VARIABLE next_log_index     \* room -> RoomSequencer.next_log_index

SequencerTypeOK ==
    next_log_index \in [Rooms -> 0..MAX_LOG_INDEX \cup {Uncached}]

SequencerInit == next_log_index = [r \in Rooms |-> Uncached]

-----------------------------------------------------------------------------
\* validate_frame_structure
ValidStructure(f) == f.wellformed /\ f.epoch <= MAX_EPOCH

\* Welcome frames are broadcast as they are, neither indexed nor stored.
IsSequenced(f) == f.opcode # "Welcome"

\* Mutant of NextIndex: the counter is read from the storage for every frame.
NextIndex_Reread(r) == NextFromStorage(r)

\* The counter after the lazy initialisation from storage.
NextIndex(r) ==
    IF next_log_index[r] = Uncached THEN NextFromStorage(r)
                                    ELSE next_log_index[r]

IndexOverflows(r) == NextIndex(r) >= MAX_LOG_INDEX

\* rebuild_frame_with_index
Sequenced(f) == [f EXCEPT !.log_index = NextIndex(f.room)]

-----------------------------------------------------------------------------
\* process_frame past the Welcome case: the counter is consumed whatever the
\* caller does with the frame.
ConsumeIndex(r) ==
    /\ ~IndexOverflows(r)
    /\ next_log_index' = [next_log_index EXCEPT ![r] = NextIndex(r) + 1]

\* The checked_add failed: the room stays cached, nothing is assigned.
OverflowIndex(r) ==
    /\ IndexOverflows(r)
    /\ next_log_index' = [next_log_index EXCEPT ![r] = NextIndex(r)]
=============================================================================
