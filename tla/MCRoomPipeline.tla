--------------------------- MODULE MCRoomPipeline ---------------------------
(* Small instances of RoomPipeline for TLC. *)
EXTENDS RoomPipeline, TLC

CONSTANTS r1, r2, u1, u2, t1, t2

\* Tasks and users are interchangeable in Init, Next and the invariants.
Symmetry == Permutations(Tasks) \cup Permutations(Users)
=============================================================================
