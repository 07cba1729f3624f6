------------------------------ MODULE RoomFeed ------------------------------
(***************************************************************************)
(* RoomPipeline with the sessions it serves: which of them a broadcast     *)
(* reaches, and how a session that asks for the log page by page comes to  *)
(* hold what was stored while it was not subscribed.                       *)
(*                                                                         *)
(* A task of the pipeline reads the stream of one session.  The registry   *)
(* is module Registry.  The program that asks again while has_more is set, *)
(* from the index after the last frame it got, is not in the repository:   *)
(* handle_sync_request (lockframe-server/src/room_manager.rs) says what is *)
(* expected of it.  It waits for one answer before it asks again, and asks *)
(* for at least one frame.                                                 *)
(***************************************************************************)
EXTENDS RoomPipeline, Functions

CONSTANTS
    Sessions,
    Absent,         \* no entry in a map of the registry
    StreamOf,       \* task -> the session whose stream it reads
    LIMIT           \* SyncRequest.limit

ASSUME FeedAssumption ==
    /\ StreamOf \in [Tasks -> Sessions]
    /\ LIMIT \in Nat \ {0}
    /\ Absent \notin [authenticated : BOOLEAN]
    /\ \A ss \in SUBSET Sessions : Absent # ss
    /\ \A rs \in SUBSET Rooms : Absent # rs

VARIABLES
    sessions, room_subscriptions, session_rooms,    \* see Registry
    unused,         \* session ids that no connection has had
    paging,         \* session -> room -> where its paging is
    got             \* session -> frames it was sent

INSTANCE Registry

subscriptionVars == <<sessions, room_subscriptions, session_rooms>>
feedVars == <<subscriptionVars, unused, paging, got>>

\* next is the first index not asked for.  covered: the session has been
\* subscribed ever since its last request was processed.
Paging == [next : Nat, phase : {"idle", "waiting", "more", "done"}, covered : BOOLEAN]

NoPaging == [r \in Rooms |-> [next |-> 0, phase |-> "idle", covered |-> FALSE]]

FeedInit ==
    /\ Init
    /\ RegistryInit
    /\ unused = Sessions
    /\ paging = [s \in Sessions |-> NoPaging]
    /\ got = [s \in Sessions |-> {}]

-----------------------------------------------------------------------------
(* Connections and subscriptions: calls under the driver lock.  The number *)
(* of sessions is within max_connections; an id is never used again.       *)

HandleConnectionAccepted(s) ==
    /\ lock = Free
    /\ s \in unused
    /\ unused' = unused \ {s}
    /\ RegisterSession(s)
    /\ UNCHANGED <<vars, paging, got>>

HandleConnectionClosed(s) ==
    /\ lock = Free
    /\ HasSession(s)
    /\ UnregisterSession(s)
    /\ paging' = [paging EXCEPT ![s] = NoPaging]
    /\ got' = [got EXCEPT ![s] = {}]
    /\ UNCHANGED <<vars, unused>>

\* The creator is subscribed.
HandleCreateRoom(s, r) ==
    /\ lock = Free
    /\ HasSession(s)
    /\ \E u \in Users : CreateRoom(r, u)
    /\ Subscribe(s, r)
    /\ UNCHANGED <<storageVars, runtimeVars, boundVars, historyVars, unused, paging, got>>

SubscribeToRoom(s, r) ==
    /\ lock = Free
    /\ HasSession(s)
    /\ Subscribe(s, r)
    /\ UNCHANGED <<vars, unused, paging, got>>

UnsubscribeFromRoom(s, r) ==
    /\ lock = Free
    /\ s \in SessionsInRoom(r)
    /\ Unsubscribe(s, r)
    /\ paging' = [paging EXCEPT ![s][r].covered = FALSE]
    /\ UNCHANGED <<vars, unused, got>>

-----------------------------------------------------------------------------
(* handle_frame_received for the frames of the session the task reads for. *)

HandleRoomFrame(t, f) ==
    /\ HasSession(StreamOf[t])
    /\ f.opcode # "Welcome"
    /\ Refuse(t, f) \/ Overflow(t, f) \/ Drop(t, f) \/ Message(t, f) \/ Commit(t, f)
    /\ UNCHANGED feedVars

\* The sender is subscribed also when the room manager refuses the Welcome.
HandleWelcome(t, f) ==
    /\ HasSession(StreamOf[t])
    /\ f.opcode = "Welcome"
    /\ Refuse(t, f) \/ Welcome(t, f)
    /\ Subscribe(StreamOf[t], f.room)
    /\ UNCHANGED <<unused, paging, got>>

SyncResponse(s, r, loaded, more) ==
    [type |-> "SendToSession", session |-> s, room |-> r, frames |-> loaded,
     has_more |-> more]

\* The Error payload leaves the asking session where it was.
SyncError(s, r) == [type |-> "SendToSession", session |-> s, room |-> r]

\* What handle_sync_request answers; the storage may fail.
SyncAnswers(s, r, from) ==
    LET loaded == LoadFrames(r, from, LIMIT)
    IN  (IF CanSync(r) THEN {SyncResponse(s, r, loaded, HasMore(r, from, loaded))} ELSE {})
            \cup (IF CanSync(r) /\ ~FaultyStorage THEN {} ELSE {SyncError(s, r)})

HandleSyncRequest(t, r) ==
    LET s == StreamOf[t] IN
    /\ Ready(t)
    /\ HasSession(s)
    /\ paging[s][r].phase # "waiting"
    /\ \E answer \in SyncAnswers(s, r, paging[s][r].next) : Return(t, <<answer>>)
    /\ paging' = [paging EXCEPT ![s][r].phase = "waiting",
                                ![s][r].covered = s \in SessionsInRoom(r)]
    /\ UNCHANGED <<storageVars, roomVars, boundVars, historyVars, subscriptionVars, unused, got>>

-----------------------------------------------------------------------------
(* execute_actions.                                                        *)

IsAnswer(a) == a.type = "SendToSession"

\* The storage actions, as in RoomPipeline.
ExecStorage(t) ==
    /\ Executing(t)
    /\ ~IsAnswer(Head(pending[t]))
    /\ ExecPersist(t) \/ ExecPersistState(t) \/ ExecFailed(t)
    /\ UNCHANGED feedVars

\* Mutant of Audience: the sender is left out.
Audience_ExcludesSender(t, r) == SessionsInRoom(r) \ {StreamOf[t]}

\* The recipients are looked up when the broadcast is executed; room_manager.rs
\* never asks for the sender to be excluded.
Audience(t, r) == SessionsInRoom(r)

ExecBroadcastToRoom(t) ==
    /\ ExecBroadcast(t)
    /\ LET f == Head(pending[t]).frame IN
       got' = [s \in Sessions |-> IF s \in Audience(t, f.room) THEN got[s] \cup {f}
                                                               ELSE got[s]]
    /\ UNCHANGED <<subscriptionVars, unused, paging>>

\* What the answer makes of the paging of the session it is for.
Continued(p, answer) ==
    [p EXCEPT !.next  = @ + Len(answer.frames),
              !.phase = IF answer.has_more THEN "more" ELSE "done"]

\* A session that has gone is skipped.
ExecSendToSession(t) ==
    LET answer == Head(pending[t])
        s == answer.session
        r == answer.room IN
    /\ Executing(t)
    /\ IsAnswer(answer)
    /\ IF ~HasSession(s) THEN UNCHANGED <<paging, got>>
       ELSE IF "frames" \in DOMAIN answer
       THEN /\ paging' = [paging EXCEPT ![s][r] = Continued(@, answer)]
            /\ got' = [got EXCEPT ![s] = @ \cup Range(answer.frames)]
       ELSE /\ paging' = [paging EXCEPT ![s][r].phase = "idle"]
            /\ UNCHANGED got
    /\ Advance(t)
    /\ UNCHANGED <<storageVars, roomVars, boundVars, historyVars, subscriptionVars, unused>>

ExecFeed(t) == ExecStorage(t) \/ ExecBroadcastToRoom(t) \/ ExecSendToSession(t)

-----------------------------------------------------------------------------
FeedNext ==
    \/ \E t \in Tasks :
          \/ \E f \in Incoming : HandleRoomFrame(t, f) \/ HandleWelcome(t, f)
          \/ \E r \in Rooms : HandleSyncRequest(t, r)
          \/ ExecFeed(t)
    \/ \E s \in Sessions :
          \/ HandleConnectionAccepted(s)
          \/ HandleConnectionClosed(s)
          \/ \E r \in Rooms :
                HandleCreateRoom(s, r) \/ SubscribeToRoom(s, r) \/ UnsubscribeFromRoom(s, r)

FeedSpec == FeedInit /\ [][FeedNext]_<<vars, feedVars>>

(***************************************************************************)
(* Fairness.  The driver lock serves its waiters in order, so a task with  *)
(* actions to execute, or with a request it has read, gets it; a session   *)
(* told has_more asks again.                                               *)
(***************************************************************************)
AskAgain(t, r) == paging[StreamOf[t]][r].phase = "more" /\ HandleSyncRequest(t, r)

FairFeedSpec ==
    /\ FeedSpec
    /\ \A t \in Tasks :
          /\ SF_<<vars, feedVars>>(ExecFeed(t))
          /\ \A r \in Rooms : SF_<<vars, feedVars>>(AskAgain(t, r))

-----------------------------------------------------------------------------
\* A broadcast of f is still to be executed.
Outstanding(f) ==
    \E t \in Tasks : \E k \in 1..Len(pending[t]) : pending[t][k] = Broadcast(f)

\* A session that was subscribed when its last SyncRequest was processed, and
\* still is, misses nothing once an answer without has_more has come: it holds
\* every frame of the log, whether stored before it asked, between two pages or
\* after the last one, but for those whose broadcast is still to come.  The
\* recipients are looked up at execution, and the log and its has_more are read
\* in one call under the lock (execute_actions, handle_sync_request).
CaughtUpHoldsLog ==
    \A s \in Sessions, r \in Rooms :
        paging[s][r].phase = "done" /\ paging[s][r].covered =>
            \A i \in 1..Len(frames[r]) :
                frames[r][i] \in got[s] \/ Outstanding(frames[r][i])

\* A session that asks again while has_more is set is told in the end that there
\* is no more, or its storage fails, or it goes: has_more does not stay set at
\* the end of the log, and every page moves on (handle_sync_request).
PagingEnds ==
    \A s \in Sessions, r \in Rooms :
        paging[s][r].phase = "more" ~> paging[s][r].phase \in {"done", "idle"}
=============================================================================
