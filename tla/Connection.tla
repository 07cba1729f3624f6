----------------------------- MODULE Connection -----------------------------
(***************************************************************************)
(* Connection (lockframe-core/src/connection.rs): the state machine of one *)
(* end of a connection, as operators from a connection to the connection   *)
(* after the call, what the call returns to the driver and whether it is   *)
(* Ok.  Time only enters through the durations since last_activity and     *)
(* last_heartbeat, so a connection holds those ages; an age stops growing  *)
(* once it is beyond every comparison the code makes.                      *)
(***************************************************************************)
EXTENDS Naturals, Sequences

CONSTANTS
    HandshakeTimeout, IdleTimeout, HeartbeatInterval,   \* ConnectionConfig
    Ids,            \* session ids
    NoId,           \* session_id is None
    NoHeartbeat     \* last_heartbeat is None

ASSUME ConnectionAssumption ==
    /\ HandshakeTimeout \in Nat
    /\ IdleTimeout \in Nat
    /\ HeartbeatInterval \in Nat
    /\ NoId \notin Ids
    /\ NoHeartbeat \notin Nat

\* The first age that exceeds both timeouts.
OldAge == 1 + IF HandshakeTimeout > IdleTimeout THEN HandshakeTimeout ELSE IdleTimeout

ConnectionState == {"Init", "Pending", "Authenticated", "Closed"}

Conn == [state : ConnectionState,
         idle  : 0..OldAge,                             \* now - last_activity
         beat  : 0..HeartbeatInterval \cup {NoHeartbeat},    \* now - last_heartbeat
         id    : Ids \cup {NoId}]

\* Frames of the session layer.  valid: the payload decodes, as the payload the
\* opcode announces, and a Hello has version 1.  id: the session of a HelloReply.
SessionOpcodes == {"Hello", "HelloReply", "Ping", "Pong", "Goodbye", "Error"}

SessionFrame == [opcode : SessionOpcodes, valid : BOOLEAN, id : Ids \cup {NoId}]

Message(opcode) == [opcode |-> opcode, valid |-> TRUE, id |-> NoId]
HelloReply(id)  == [opcode |-> "HelloReply", valid |-> TRUE, id |-> id]

\* ConnectionAction
SendFrame(f) == [type |-> "SendFrame", frame |-> f]
Close        == [type |-> "Close"]

\* What a call returns: Ok(actions), or Err, with the connection it leaves.
Ok(c, actions) == [conn |-> c, ok |-> TRUE, actions |-> actions]
Err(c)         == [conn |-> c, ok |-> FALSE, actions |-> <<>>]

-----------------------------------------------------------------------------
NewConnection == [state |-> "Init", idle |-> 0, beat |-> NoHeartbeat, id |-> NoId]

SetSessionId(c, id) == [c EXCEPT !.id = id]

CloseConn(c) == [c EXCEPT !.state = "Closed"]

UpdateActivity(c) == [c EXCEPT !.idle = 0]

\* One unit of time passes.
Older(c) ==
    [c EXCEPT !.idle = IF @ < OldAge THEN @ + 1 ELSE @,
              !.beat = IF @ # NoHeartbeat /\ @ < HeartbeatInterval THEN @ + 1 ELSE @]

\* Mutant of CheckTimeout: the handshake has no timeout.
CheckTimeout_IdleOnly(c) == c.state = "Authenticated" /\ c.idle > IdleTimeout

\* check_timeout
CheckTimeout(c) ==
    \/ c.state = "Pending" /\ c.idle > HandshakeTimeout
    \/ c.state = "Authenticated" /\ c.idle > IdleTimeout

\* The first Ping is due at once.
HeartbeatDue(c) ==
    /\ c.state = "Authenticated"
    /\ c.beat = NoHeartbeat \/ c.beat >= HeartbeatInterval

\* tick: the Ping that is sent counts as activity.
Tick(c) ==
    CASE CheckTimeout(c) -> Ok(CloseConn(c), <<Close>>)
      [] ~CheckTimeout(c) /\ HeartbeatDue(c) ->
            Ok([c EXCEPT !.beat = 0, !.idle = 0], <<SendFrame(Message("Ping"))>>)
      [] OTHER -> Ok(c, <<>>)

-----------------------------------------------------------------------------
\* send_hello
SendHello(c) ==
    IF c.state = "Init"
    THEN Ok([c EXCEPT !.state = "Pending", !.idle = 0], <<SendFrame(Message("Hello"))>>)
    ELSE Err(c)

\* A server answers a Hello with the id the driver has set before.
AnswerHello(c, f) ==
    IF f.valid /\ c.id # NoId
    THEN Ok([c EXCEPT !.state = "Authenticated"], <<SendFrame(HelloReply(c.id))>>)
    ELSE Err(c)

\* handle_hello, the entry that draws the id itself: id is any value of random_u64.
HandleHello(c, f, id) ==
    IF c.state = "Init" /\ f.valid
    THEN Ok([c EXCEPT !.state = "Authenticated", !.idle = 0, !.id = id],
            <<SendFrame(HelloReply(id))>>)
    ELSE Err(c)

\* Mutant of AcceptReply: the id of the reply is not kept.
AcceptReply_IdIgnored(c, f) ==
    IF f.valid THEN Ok([c EXCEPT !.state = "Authenticated"], <<>>) ELSE Err(c)

AcceptReply(c, f) ==
    IF f.valid
    THEN Ok([c EXCEPT !.state = "Authenticated", !.id = f.id], <<>>)
    ELSE Err(c)

\* Mutant of AcceptGoodbye: the goodbye is not answered.
AcceptGoodbye_Unanswered(c, f) == IF f.valid THEN Ok(CloseConn(c), <<>>) ELSE Err(c)

AcceptGoodbye(c, f) ==
    IF f.valid
    THEN Ok(CloseConn(c), <<SendFrame(Message("Goodbye")), Close>>)
    ELSE Err(c)

\* Mutant of HandleFrame: a HelloReply is taken in any state.
HandleFrame_LateReply(conn, f) ==
    LET c == UpdateActivity(conn) IN
    CASE c.state = "Init" /\ f.opcode = "Hello"         -> AnswerHello(c, f)
      [] f.opcode = "HelloReply"                        -> AcceptReply(c, f)
      [] c.state = "Authenticated" /\ f.opcode = "Ping" ->
            Ok(c, <<SendFrame(Message("Pong"))>>)
      [] c.state = "Authenticated" /\ f.opcode = "Pong" -> Ok(c, <<>>)
      [] c.state # "Closed" /\ f.opcode = "Goodbye"     -> AcceptGoodbye(c, f)
      [] f.opcode = "Error"                             -> Ok(CloseConn(c), <<Close>>)
      [] OTHER                                          -> Err(c)

\* handle_frame: activity is noted before the frame is looked at.
HandleFrame(conn, f) ==
    LET c == UpdateActivity(conn) IN
    CASE c.state = "Init" /\ f.opcode = "Hello"         -> AnswerHello(c, f)
      [] c.state = "Pending" /\ f.opcode = "HelloReply" -> AcceptReply(c, f)
      [] c.state = "Authenticated" /\ f.opcode = "Ping" ->
            Ok(c, <<SendFrame(Message("Pong"))>>)
      [] c.state = "Authenticated" /\ f.opcode = "Pong" -> Ok(c, <<>>)
      [] c.state # "Closed" /\ f.opcode = "Goodbye"     -> AcceptGoodbye(c, f)
      [] f.opcode = "Error"                             -> Ok(CloseConn(c), <<Close>>)
      [] OTHER                                          -> Err(c)
=============================================================================
