------------------------------ MODULE MCClient ------------------------------
(* Small instances of Client for TLC: a creator who can come back with a    *)
(* second key, and two members it adds.                                     *)
EXTENDS Client

CONSTANTS alice, bob, carol, r1

Keys == [x \in Clients |-> IF x = alice THEN 2 ELSE 1]
=============================================================================
