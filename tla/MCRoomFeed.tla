----------------------------- MODULE MCRoomFeed -----------------------------
(* A small instance of RoomFeed for TLC: a stream for each session. *)
EXTENDS RoomFeed, TLC

CONSTANTS r1, u1, t1, t2, s1, s2

Streams == t1 :> s1 @@ t2 :> s2
=============================================================================
