------------------------------- MODULE Frames -------------------------------
(***************************************************************************)
(* The frame as the server sees it: the header fields its decisions read   *)
(* (lockframe-proto/src/header.rs) and the identity of the payload.        *)
(***************************************************************************)
EXTENDS Naturals

CONSTANTS
    Rooms,      \* room ids (u128)
    Users,      \* sender and member ids (u64)
    Opcodes     \* the opcodes that reach the room manager in an instance

\* Opcodes the room manager treats alike share a name: "AppMessage" stands for
\* every known opcode whose frames carry a checked signature, "Unknown" for a
\* value that opcode_enum() does not recognise.
RoomOpcodes == {"AppMessage", "Proposal", "Commit", "Welcome", "Unknown"}

ASSUME OpcodesAssumption == Opcodes \subseteq RoomOpcodes

(***************************************************************************)
(* id is the identity of the payload.  signed: the signature verifies      *)
(* under the sender's stored key over signing_data(), which leaves out the *)
(* log index, so sequencing does not change it.  wellformed: magic,        *)
(* version, payload size and a room id other than zero.  log_index is the  *)
(* header's context field: 0 from FrameHeader::new until the sequencer     *)
(* overwrites it; a Welcome keeps its recipient id there, which no action  *)
(* of the server reads.                                                    *)
(***************************************************************************)
Frame == [id         : Nat,
          room       : Rooms,
          opcode     : Opcodes,
          sender     : Users,
          epoch      : Nat,
          signed     : BOOLEAN,
          wellformed : BOOLEAN,
          log_index  : Nat]
=============================================================================
