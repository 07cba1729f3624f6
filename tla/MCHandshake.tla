---------------------------- MODULE MCHandshake -----------------------------
(* Small instances of Handshake for TLC. *)
EXTENDS Handshake

CONSTANTS i1, i2
=============================================================================
