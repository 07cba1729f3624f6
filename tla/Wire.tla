-------------------------------- MODULE Wire --------------------------------
(***************************************************************************)
(* Frames as bytes: lockframe-proto's header, frame and payload codecs, the *)
(* stream a client writes and handle_stream reads, and the way back, as a   *)
(* broadcast or inside a sync response.                                     *)
(*                                                                          *)
(* Bytes are cells.  A header is one cell, a payload a sequence of cells,   *)
(* so a reader that loses its place reads a payload cell where a header     *)
(* should be.  One authenticated client writes on one stream; what the      *)
(* server sends it comes on streams of their own, in any order.  Of the     *)
(* header the fields are kept that the codec or the signature reads; msg    *)
(* stands for room, sender and request id, which nobody changes on the way. *)
(***************************************************************************)
EXTENDS Integers, Sequences, SequencesExt, FiniteSetsExt

CONSTANTS
    MAX_PAYLOAD_SIZE,   \* in cells
    U32,                \* 2^32, in cells
    Lengths,            \* bound: the payload lengths of application messages
    Signers,            \* who signs messages: "sign_frame_header" is this
                        \* client, "signing_data" one that follows header.rs
    MaxFrames           \* bound: frames the client makes

ASSUME WireAssumption ==
    /\ MAX_PAYLOAD_SIZE \in Nat /\ U32 \in Nat /\ MAX_PAYLOAD_SIZE < U32
    /\ Lengths \subseteq Nat \ {0}
    /\ Signers \subseteq {"sign_frame_header", "signing_data"}

VARIABLES
    made,       \* number of frames the client has made
    written,    \* history: the frames it has written to its stream
    stream,     \* the cells under way to the server
    cut,        \* the client's end of the stream is gone
    reader,     \* handle_stream: what it waits for, and the header it has read
    got,        \* history: the frames it has decoded
    has_state,  \* storage holds an MLS state of the room
    next_index, \* the sequencer's counter
    log,        \* the stored frames
    has_entry,  \* storage has an entry for the room
    inbox,      \* the cells of the streams under way to clients
    received,   \* history: the room frames clients have decoded
    too_large   \* history: an answer was too large to encode

roomVars == <<has_state, next_index, log, has_entry>>
serverVars == <<roomVars, inbox>>
vars == <<made, written, stream, cut, reader, got, serverVars, received, too_large>>

-----------------------------------------------------------------------------
(* Opcodes and headers.                                                     *)

\* Opcode::to_u16.
OpcodeValue ==
    [Hello |-> 1, HelloReply |-> 2, Goodbye |-> 3, Ping |-> 4, Pong |-> 5,
     SyncRequest |-> 6, SyncResponse |-> 7, Error |-> 255,
     KeyPackage |-> 4096, Proposal |-> 4097, Commit |-> 4098, Welcome |-> 4099,
     GroupInfo |-> 4100, PSKProposal |-> 4101, ReInit |-> 4102, ExternalCommit |-> 4103,
     AppMessage |-> 8192, AppReceipt |-> 8193, AppReaction |-> 8194, AppEdit |-> 8195,
     AppDelete |-> 8196, Typing |-> 8197, Presence |-> 8198,
     Redact |-> 12288, Ban |-> 12289, Unban |-> 12290, Kick |-> 12291,
     Mute |-> 12292, Pin |-> 12293, Report |-> 12294,
     FedAppend |-> 16384, FedSync |-> 16385, FedAck |-> 16386, FedNack |-> 16387,
     FedQuery |-> 16388,
     CASPut |-> 20480, CASGet |-> 20481, CASDelete |-> 20482, CASProof |-> 20483]

\* Opcode::from_u16: None for a value no opcode has.
OpcodeEnum(v) ==
    IF \E name \in DOMAIN OpcodeValue : OpcodeValue[name] = v
    THEN CHOOSE name \in DOMAIN OpcodeValue : OpcodeValue[name] = v
    ELSE "None"

Unsigned == <<>>

NewHeader(opcode, msg, epoch) ==
    [opcode |-> OpcodeValue[opcode], msg |-> msg, epoch |-> epoch,
     payload_size |-> 0, context_id |-> 0, signature |-> Unsigned]

SetLogIndex(header, index) == [header EXCEPT !.context_id = index]

\* Mutant of SigningData: the bytes of context_id are signed too.
SigningData_Context(h) == <<h.opcode, h.payload_size, h.msg, h.context_id, h.epoch>>

\* Bytes 0-39 and 48-63: not context_id.
SigningData(h) == <<h.opcode, h.payload_size, h.msg, h.epoch>>

\* MlsGroup::sign_frame_header: bytes 0-63.
SignFrameHeader(h) ==
    [h EXCEPT !.signature = <<h.opcode, h.payload_size, h.msg, h.context_id, h.epoch>>]

\* set_signature as header.rs documents it: over signing_data.
SetSignature(h) == [h EXCEPT !.signature = SigningData(h)]

\* MlsValidator::validate_signature, with the sender's key.
ValidSignature(h) == h.signature = SigningData(h)

-----------------------------------------------------------------------------
(* Frames.                                                                  *)

\* payload.len() as u32.
NewFrame(header, payload) ==
    [header  |-> [header EXCEPT !.payload_size = Len(payload) % U32],
     payload |-> payload]

\* Mutant of Encodes: the size in the header is checked.
Encodes_HeaderSize(frame) == frame.header.payload_size <= MAX_PAYLOAD_SIZE

\* Frame::encode does not return PayloadTooLarge.
Encodes(frame) == Len(frame.payload) <= MAX_PAYLOAD_SIZE

Cells(frame) == <<[header |-> frame.header]>> \o frame.payload

\* The cell is a header: 128 bytes of a payload have not its magic number.
IsHeader(cell) == "header" \in DOMAIN cell

\* Frame::decode of a header cell and what follows: from_bytes, then the length.
Decodes(cells) ==
    /\ cells # <<>>
    /\ IsHeader(cells[1])
    /\ cells[1].header.payload_size <= MAX_PAYLOAD_SIZE
    /\ Len(cells) > cells[1].header.payload_size

Decode(cells) ==
    [header  |-> cells[1].header,
     payload |-> SubSeq(cells, 2, cells[1].header.payload_size + 1)]

-----------------------------------------------------------------------------
(* Payloads.  CBOR of a value is n cells that only together are the value.  *)

Cbor(value, n) == [i \in 1..n |-> [of |-> value, at |-> i, size |-> n]]

FromCbor(cells) ==
    IF cells # <<>> /\ "of" \in DOMAIN cells[1] /\ cells = Cbor(cells[1].of, cells[1].size)
    THEN cells[1].of
    ELSE "CborDecode"

\* The variants of Payload that travel here, and the cells they take.
PayloadLen(p) ==
    CASE p.kind \in {"Ping", "Pong"} -> 0
      [] p.kind \in {"Hello", "SyncRequest", "Error"} -> 1
      [] p.kind = "SyncResponse" -> 1 + FoldSeq(LAMBDA f, n : n + Len(f), 0, p.frames)

\* make_error_response: the code an error is reported with.
ErrorCode ==
    [RoomNotFound |-> 2, Storage |-> 3, Protocol |-> 4, MlsValidation |-> 5,
     Sequencing |-> 6, Other |-> 1]

ErrorPayload(error) == [kind |-> "Error", code |-> ErrorCode[error]]

\* Payload::opcode, encode and into_frame.
IntoFrame(p, header) ==
    NewFrame([header EXCEPT !.opcode = OpcodeValue[p.kind]], Cbor(p, PayloadLen(p)))

\* The bytes of an EncryptedMessage that takes n cells.
EncryptedMessage(msg, n) == Cbor([kind |-> "AppMessage", msg |-> msg], n)

\* The opcodes that have a payload type.
Variants ==
    {"Hello", "HelloReply", "Goodbye", "Ping", "Pong", "SyncRequest", "SyncResponse",
     "KeyPackage", "Proposal", "Commit", "Welcome", "AppMessage", "AppReceipt",
     "AppReaction", "Redact", "Ban", "Kick", "Error"}

\* Payload::from_frame: the opcode says which variant the bytes are.
FromFrame(frame) ==
    LET kind == OpcodeEnum(frame.header.opcode)
    IN  IF kind \notin Variants THEN "Unsupported"
        ELSE IF kind \in {"Ping", "Pong"} THEN [kind |-> kind]
        ELSE FromCbor(frame.payload)

-----------------------------------------------------------------------------
(* The client's end of the stream.                                          *)

Init ==
    /\ made = 0
    /\ written = <<>>
    /\ stream = <<>>
    /\ cut = FALSE
    /\ reader = [at |-> "header"]
    /\ got = <<>>
    /\ has_state \in BOOLEAN
    /\ next_index = 0
    /\ log = <<>>
    /\ has_entry = FALSE
    /\ inbox = {}
    /\ received = {}
    /\ too_large = FALSE

\* The frame is encoded, and written if that succeeds.
Write(frame) ==
    /\ made < MaxFrames
    /\ ~cut
    /\ made' = made + 1
    /\ IF Encodes(frame)
       THEN /\ stream' = stream \o Cells(frame)
            /\ written' = Append(written, frame)
       ELSE UNCHANGED <<stream, written>>
    /\ UNCHANGED <<cut, reader, got, serverVars, received, too_large>>

\* handle_send_message: the header is signed before Frame::new sets its size.
HandleSendMessage(n) ==
    LET header == NewHeader("AppMessage", made, 0)
    IN  /\ "sign_frame_header" \in Signers
        /\ Write(NewFrame(SignFrameHeader(header), EncryptedMessage(made, n)))

\* A client that signs what header.rs says: signing_data of the finished header.
SendConforming(n) ==
    LET frame == NewFrame(NewHeader("AppMessage", made, 0), EncryptedMessage(made, n))
    IN  /\ "signing_data" \in Signers
        /\ Write([frame EXCEPT !.header = SetSignature(@)])

\* Session frames: a heartbeat, a Hello sent again, a request for the log.
SendPayload(p) == Write(IntoFrame(p, NewHeader(p.kind, made, 0)))

SyncRequests == [kind : {"SyncRequest"}, from : 0..1, limit : 1..2]

\* The stream ends, with what is left of it at any byte.
Cut ==
    /\ ~cut
    /\ cut' = TRUE
    /\ \E n \in 0..Len(stream) : stream' = SubSeq(stream, 1, n)
    /\ UNCHANGED <<made, written, reader, got, serverVars, received, too_large>>

-----------------------------------------------------------------------------
(* handle_stream.                                                           *)

EndStream ==
    /\ reader' = [at |-> "ended"]
    /\ UNCHANGED <<made, written, stream, cut, got, serverVars, received, too_large>>

\* 128 bytes, taken for a header before anything is checked.
ReadHeader ==
    /\ reader.at = "header"
    /\ stream # <<>>
    /\ reader' = [at |-> "payload", cell |-> Head(stream)]
    /\ stream' = Tail(stream)
    /\ UNCHANGED <<made, written, cut, got, serverVars, received, too_large>>

\* The payload_size of what was read as a header: in a payload, any bytes.
ClaimedSizes ==
    IF IsHeader(reader.cell) THEN {reader.cell.header.payload_size} ELSE 0..(U32 - 1)

\* payload_size bytes, then Frame::decode.
ReadPayload ==
    /\ reader.at = "payload"
    /\ \E n \in ClaimedSizes :
          LET cells == <<reader.cell>> \o SubSeq(stream, 1, n)
          IN  /\ n <= Len(stream)
              /\ stream' = SubSeq(stream, n + 1, Len(stream))
              /\ IF Decodes(cells)
                 THEN /\ reader' = [at |-> "process", frame |-> Decode(cells)]
                      /\ got' = Append(got, Decode(cells))
                 ELSE /\ reader' = [at |-> "ended"]
                      /\ UNCHANGED got
    /\ UNCHANGED <<made, written, cut, serverVars, received, too_large>>

\* read_exact fails: the stream ended in the middle or between two frames.
ReadError ==
    /\ cut
    /\ \/ reader.at = "header" /\ stream = <<>>
       \/ reader.at = "payload" /\ \E n \in ClaimedSizes : n > Len(stream)
    /\ EndStream

Processing(opcodes) ==
    /\ reader.at = "process"
    /\ OpcodeEnum(reader.frame.header.opcode) \in opcodes

\* The loop goes on, also after an error of process_event.
Continue == reader' = [at |-> "header"]

\* SendToSession: a frame that cannot be encoded ends the stream of the request.
SendToSession(frame) ==
    IF Encodes(frame)
    THEN inbox' = inbox \cup {Cells(frame)} /\ Continue /\ UNCHANGED too_large
    ELSE reader' = [at |-> "ended"] /\ too_large' = TRUE /\ UNCHANGED inbox

\* Mutant of ProcessRefused: the error ends the loop.
ProcessRefused_Breaks ==
    /\ Processing({"Hello"})
    /\ reader' = [at |-> "ended"]
    /\ UNCHANGED <<made, written, stream, cut, got, serverVars, received, too_large>>

\* A Hello in an authenticated connection is an error of handle_frame.
ProcessRefused ==
    /\ Processing({"Hello"})
    /\ Continue
    /\ UNCHANGED <<made, written, stream, cut, got, serverVars, received, too_large>>

\* handle_frame answers a Ping.
ProcessPing ==
    /\ Processing({"Ping"})
    /\ SendToSession(IntoFrame([kind |-> "Pong"], NewHeader("Pong", 0, 0)))
    /\ UNCHANGED <<made, written, stream, cut, got, roomVars, received>>

\* load_frames.
Loaded(from, limit) == SubSeq(log, from + 1, Min({Len(log), from + limit}))

\* handle_sync_request: every stored frame is encoded by itself.  A room nothing
\* was stored for is an error of the storage.
SyncAnswer(p) ==
    LET frames == Loaded(p.from, p.limit)
    IN  IF has_entry
        THEN [kind   |-> "SyncResponse",
              frames |-> [i \in DOMAIN frames |-> Cells(frames[i])]]
        ELSE ErrorPayload("Storage")

ProcessSyncRequest ==
    LET answer == SyncAnswer(FromFrame(reader.frame))
    IN  /\ Processing({"SyncRequest"})
        /\ SendToSession(IntoFrame(answer, NewHeader(answer.kind, reader.frame.header.msg, 0)))
        /\ UNCHANGED <<made, written, stream, cut, got, roomVars, received>>

\* rebuild_frame_with_index.
Rebuilt(frame, index) == NewFrame(SetLogIndex(frame.header, index), frame.payload)

\* RoomManager::process_frame: the frame is numbered, and its signature checked
\* if there is a state to check it with.  Then it is stored, if it is the next,
\* and broadcast.
ProcessMessage ==
    LET frame == Rebuilt(reader.frame, next_index)
    IN  /\ Processing({"AppMessage"})
        /\ has_state => ValidSignature(frame.header)
        /\ next_index' = next_index + 1
        /\ log' = IF Len(log) = next_index THEN Append(log, frame) ELSE log
        /\ has_entry' = TRUE
        /\ SendToSession(frame)
        /\ UNCHANGED <<made, written, stream, cut, got, has_state, received>>

\* The index is used when the signature is refused.
ProcessUnverified ==
    /\ Processing({"AppMessage"})
    /\ has_state
    /\ ~ValidSignature(Rebuilt(reader.frame, next_index).header)
    /\ next_index' = next_index + 1
    /\ Continue
    /\ UNCHANGED <<made, written, stream, cut, got, has_state, log, has_entry, inbox, received, too_large>>

-----------------------------------------------------------------------------
(* A client that gets a frame: an application message, or a sync response    *)
(* whose frames are decoded one by one (handle_sync_response).               *)

RoomFrames(frame) ==
    CASE OpcodeEnum(frame.header.opcode) = "AppMessage" -> {frame}
      [] OpcodeEnum(frame.header.opcode) = "SyncResponse" ->
           {Decode(cells) : cells \in ToSet(FromFrame(frame).frames)}
      [] OTHER -> {}

Receive(cells) ==
    /\ Decodes(cells)
    /\ inbox' = inbox \ {cells}
    /\ received' = received \cup RoomFrames(Decode(cells))
    /\ UNCHANGED <<made, written, stream, cut, reader, got, roomVars, too_large>>

Next ==
    \/ \E n \in Lengths : HandleSendMessage(n) \/ SendConforming(n)
    \/ \E p \in SyncRequests \cup [kind : {"Ping", "Hello"}] : SendPayload(p)
    \/ Cut
    \/ ReadHeader \/ ReadPayload \/ ReadError
    \/ ProcessRefused \/ ProcessPing \/ ProcessSyncRequest
    \/ ProcessMessage \/ ProcessUnverified
    \/ \E cells \in inbox : Receive(cells)

Spec == Init /\ [][Next]_vars

-----------------------------------------------------------------------------
(* Properties.                                                              *)

\* handle_stream never loses its place: the frames it decodes are the frames that
\* were written, complete and in order, whatever their sizes, at the size limit,
\* beyond it, where the length wraps around u32, and wherever the stream is cut
\* ("payload.len() MUST match header.payload_size()", frame.rs).
ReadsWhatWasWritten == IsPrefix(got, written)

\* What a client decodes, from a broadcast or from inside a sync response, is a
\* frame the author wrote but for its log index, and if the author's signature
\* covered signing_data it still verifies: numbering, storing and encoding it
\* twice change nothing it covers.
ArrivesAsWritten ==
    \A f \in received : \E i \in 1..Len(written) :
        /\ f.payload = written[i].payload
        /\ f.header = SetLogIndex(written[i].header, f.header.context_id)
        /\ ValidSignature(written[i].header) => ValidSignature(f.header)

\* Only a cut or an answer too large to encode ends the reading of a stream, and
\* otherwise all that was written is read: an error in one frame stops nothing,
\* and the reader never waits for bytes that are not to come.
StreamSurvives ==
    /\ reader.at = "ended" => cut \/ too_large
    /\ ~cut /\ stream = <<>> =>
          \/ reader.at = "header" /\ got = written
          \/ reader.at = "payload" /\ ClaimedSizes = {0}
          \/ reader.at \in {"process", "ended"}

\* Every message that arrives verifies: a signature is "computed over
\* [signing_data()]" (header.rs:320).
SentMessagesVerify == \A f \in received : ValidSignature(f.header)
=============================================================================
