------------------------------ MODULE MCServer ------------------------------
(* Small instances of Server for TLC. *)
EXTENDS Server, TLC

CONSTANTS s1, s2, s3, x1, x2, r1

\* Sessions and streams are interchangeable in Init, Next and the invariants.
Symmetry == Permutations(Sessions) \cup Permutations(Streams)
=============================================================================
