------------------------- MODULE RoomFeedInvariant --------------------------
(***************************************************************************)
(* What a session has received of a room, what it is about to receive and  *)
(* what the log holds fit together: the invariant of RoomFeed, and proofs  *)
(* that the steps of the registry and of RoomPipeline keep it.             *)
(***************************************************************************)
EXTENDS RoomFeed, TLAPS

-----------------------------------------------------------------------------
(* The invariant.                                                          *)

\* The task has an answer to send.
Answering(t) == pending[t] # <<>> /\ IsAnswer(Head(pending[t]))

Answer ==
    [type : {"SendToSession"}, session : Sessions, room : Rooms,
     frames : Seq(Frame), has_more : BOOLEAN]
        \cup [type : {"SendToSession"}, session : Sessions, room : Rooms]

FeedTypeOK ==
    /\ pending \in [Tasks -> Seq(RoomAction \cup Answer)]
    /\ \A t \in Tasks : Answering(t) => Len(pending[t]) = 1
    /\ RegistryTypeOK
    /\ unused \subseteq Sessions
    /\ paging \in [Sessions -> [Rooms -> Paging]]
    /\ got \in [Sessions -> SUBSET Frame]

\* A frame that is to be stored is broadcast later in the same list.
Followed(list) ==
    \A k \in 1..Len(list) : list[k].type = "PersistFrame" =>
        \E j \in (k + 1)..Len(list) : list[j] = Broadcast(list[k].frame)

BroadcastFollows == \A t \in Tasks : Followed(pending[t])

\* t has an answer for session s about room r.
AnswerFor(t, s, r) ==
    /\ Answering(t)
    /\ Head(pending[t]).session = s
    /\ Head(pending[t]).room = r

\* What the session has, or is about to get by broadcast.
Held(s, r, i) == frames[r][i] \in got[s] \/ Outstanding(frames[r][i])

\* A response holds the frames after those the session has had, and when it
\* tells a subscribed session that there are no more, every frame behind them
\* has come or will come by broadcast.
Fits(s, r, answer) ==
    LET p == paging[s][r] IN
    /\ answer.frames \in Seq(Frame)
    /\ p.next + Len(answer.frames) <= Len(frames[r])
    /\ \A j \in 1..Len(answer.frames) : answer.frames[j] = frames[r][p.next + j]
    /\ p.covered /\ ~answer.has_more =>
          \A i \in 1..Len(frames[r]) : i > p.next + Len(answer.frames) => Held(s, r, i)

\* A session waits for one answer about a room.
Waits(s, r, t) ==
    /\ s \notin unused
    /\ HasSession(s) =>
          /\ paging[s][r].phase = "waiting"
          /\ \A u \in Tasks : AnswerFor(u, s, r) => u = t
          /\ "frames" \in DOMAIN Head(pending[t]) => Fits(s, r, Head(pending[t]))

PagesHeld(s, r) ==
    /\ paging[s][r].next <= Len(frames[r])
    /\ \A i \in 1..paging[s][r].next : frames[r][i] \in got[s]

CaughtUp(s, r) ==
    paging[s][r].phase = "done" /\ paging[s][r].covered =>
        \A i \in 1..Len(frames[r]) : Held(s, r, i)

\* What holds of one session and one room.
FeedOf(s, r) ==
    /\ paging[s][r].covered => s \in SessionsInRoom(r)
    /\ PagesHeld(s, r)
    /\ CaughtUp(s, r)
    /\ \A t \in Tasks : AnswerFor(t, s, r) => Waits(s, r, t)

FeedInvariant ==
    /\ FeedTypeOK
    /\ BroadcastFollows
    /\ \A s \in Sessions : s \in unused => ~HasSession(s)
    /\ \A s \in Sessions, r \in Rooms : FeedOf(s, r)

\* What the invariant of RoomPipeline says of the logs and of the lists.
RoomsTypeOK ==
    /\ frames \in [Rooms -> Seq(Frame)]
    /\ \A r \in Rooms : \A i \in 1..Len(frames[r]) : frames[r][i].room = r
    /\ \A t \in Tasks : ~Answering(t) => pending[t] \in Seq(RoomAction)

-----------------------------------------------------------------------------
(* The registry.                                                           *)

\* register_session changes no subscription.
LEMMA RegisterMoves ==
    ASSUME RegistryTypeOK, NEW s \in Sessions, RegisterSession(s)
    PROVE  /\ RegistryTypeOK'
           /\ \A r \in Rooms : SessionsInRoom(r)' = SessionsInRoom(r)
           /\ \A u \in Sessions : u # s => (HasSession(u)' <=> HasSession(u))
<1>1. [authenticated |-> FALSE] \in SessionInfo
    BY DEF SessionInfo
<1> QED BY <1>1 DEF RegistryTypeOK, RegisterSession, registryVars, HasSession, SessionsInRoom

\* subscribe takes no subscriber away.
LEMMA SubscribeMoves ==
    ASSUME RegistryTypeOK, NEW s \in Sessions, NEW r \in Rooms, Subscribe(s, r)
    PROVE  /\ RegistryTypeOK'
           /\ sessions' = sessions
           /\ \A q \in Rooms : SessionsInRoom(q) \subseteq SessionsInRoom(q)'
<1>1. CASE ~HasSession(s)
    BY <1>1 DEF RegistryTypeOK, Subscribe, registryVars, SessionsInRoom
<1>2. CASE HasSession(s)
    <2>1. PICK ss, rs : /\ ss = OrEmpty(room_subscriptions[r]) \cup {s}
                        /\ rs = OrEmpty(session_rooms[s]) \cup {r}
        OBVIOUS
    <2>2. /\ ss \in SUBSET Sessions
          /\ rs \in SUBSET Rooms
          /\ OrEmpty(room_subscriptions[r]) \subseteq ss
        BY <2>1 DEF RegistryTypeOK, OrEmpty
    <2>3. /\ room_subscriptions' = [room_subscriptions EXCEPT ![r] = ss]
          /\ session_rooms' = [session_rooms EXCEPT ![s] = rs]
          /\ sessions' = sessions
        BY <1>2, <2>1 DEF Subscribe
    <2>4. RegistryTypeOK'
        BY <2>2, <2>3 DEF RegistryTypeOK
    <2>5. OrEmpty(ss) = ss
        BY <2>2, FeedAssumption DEF OrEmpty
    <2>6. /\ room_subscriptions'[r] = ss
          /\ \A q \in Rooms : q # r => room_subscriptions'[q] = room_subscriptions[q]
        BY <2>3 DEF RegistryTypeOK
    <2>7. ASSUME NEW q \in Rooms
          PROVE  OrEmpty(room_subscriptions[q]) \subseteq OrEmpty(room_subscriptions'[q])
        BY <2>2, <2>5, <2>6
    <2> QED BY <2>3, <2>4, <2>7 DEF SessionsInRoom, OrEmpty
<1> QED BY <1>1, <1>2

\* Taking a session out of a set of subscribers leaves the others in.
LEMMA WithoutOne ==
    ASSUME NEW ss \in (SUBSET Sessions) \cup {Absent}, NEW s \in Sessions
    PROVE  /\ Without(ss, s) \in (SUBSET Sessions) \cup {Absent}
           /\ \A u \in OrEmpty(ss) : u # s => u \in OrEmpty(Without(ss, s))
<1>1. CASE OrEmpty(ss) \ {s} = {}
    BY <1>1 DEF Without
<1>2. CASE OrEmpty(ss) \ {s} # {}
    <2>1. ss \in SUBSET Sessions /\ OrEmpty(ss) = ss /\ Without(ss, s) = ss \ {s}
        BY <1>2 DEF OrEmpty, Without
    <2>2. ss \ {s} \in SUBSET Sessions
        BY <2>1
    <2>3. OrEmpty(ss \ {s}) = ss \ {s}
        BY <2>2, FeedAssumption DEF OrEmpty
    <2> QED BY <2>1, <2>2, <2>3
<1> QED BY <1>1, <1>2

\* unsubscribe takes one away from one room.
LEMMA UnsubscribeMoves ==
    ASSUME RegistryTypeOK, NEW s \in Sessions, NEW r \in Rooms, Unsubscribe(s, r)
    PROVE  /\ RegistryTypeOK'
           /\ sessions' = sessions
           /\ \A q \in Rooms : \A u \in SessionsInRoom(q) :
                 q # r \/ u # s => u \in SessionsInRoom(q)'
<1>1. PICK ss : ss = Without(room_subscriptions[r], s)
    OBVIOUS
<1>2. PICK rs : rs = IF session_rooms[s] = Absent THEN Absent ELSE session_rooms[s] \ {r}
    OBVIOUS
<1>3. /\ room_subscriptions' = [room_subscriptions EXCEPT ![r] = ss]
      /\ session_rooms' = [session_rooms EXCEPT ![s] = rs]
      /\ sessions' = sessions
    BY <1>1, <1>2 DEF Unsubscribe
<1>4. room_subscriptions[r] \in (SUBSET Sessions) \cup {Absent}
    BY DEF RegistryTypeOK
<1>5. /\ ss \in (SUBSET Sessions) \cup {Absent}
      /\ \A u \in OrEmpty(room_subscriptions[r]) : u # s => u \in OrEmpty(ss)
    BY <1>1, <1>4, WithoutOne
<1>6. rs \in (SUBSET Rooms) \cup {Absent}
    BY <1>2 DEF RegistryTypeOK
<1>7. RegistryTypeOK'
    BY <1>3, <1>5, <1>6 DEF RegistryTypeOK
<1>8. /\ room_subscriptions'[r] = ss
      /\ \A q \in Rooms : q # r => room_subscriptions'[q] = room_subscriptions[q]
    BY <1>3 DEF RegistryTypeOK
<1>9. ASSUME NEW q \in Rooms, NEW u \in OrEmpty(room_subscriptions[q]), q # r \/ u # s
      PROVE  u \in OrEmpty(room_subscriptions'[q])
    BY <1>5, <1>8, <1>9
<1> QED BY <1>3, <1>7, <1>9 DEF SessionsInRoom, OrEmpty

\* unregister_session takes one session away, from every room.
LEMMA UnregisterMoves ==
    ASSUME RegistryTypeOK, NEW s \in Sessions, HasSession(s), UnregisterSession(s)
    PROVE  /\ RegistryTypeOK'
           /\ ~HasSession(s)'
           /\ \A u \in Sessions : u # s => (HasSession(u)' <=> HasSession(u))
           /\ \A q \in Rooms : \A u \in SessionsInRoom(q) : u # s => u \in SessionsInRoom(q)'
<1>1. /\ sessions' = [sessions EXCEPT ![s] = Absent]
      /\ session_rooms' = [session_rooms EXCEPT ![s] = Absent]
      /\ room_subscriptions' =
            [r \in Rooms |-> IF r \in RoomsForSession(s) THEN Without(room_subscriptions[r], s)
                                                         ELSE room_subscriptions[r]]
    BY DEF UnregisterSession
<1>2. ASSUME NEW q \in Rooms
      PROVE  /\ room_subscriptions'[q] \in (SUBSET Sessions) \cup {Absent}
             /\ \A u \in OrEmpty(room_subscriptions[q]) :
                   u # s => u \in OrEmpty(room_subscriptions'[q])
    <2>1. room_subscriptions[q] \in (SUBSET Sessions) \cup {Absent}
        BY DEF RegistryTypeOK
    <2>2. /\ Without(room_subscriptions[q], s) \in (SUBSET Sessions) \cup {Absent}
          /\ \A u \in OrEmpty(room_subscriptions[q]) :
                u # s => u \in OrEmpty(Without(room_subscriptions[q], s))
        BY <2>1, WithoutOne
    <2>3. CASE q \in RoomsForSession(s)
        BY <1>1, <2>2, <2>3
    <2>4. CASE q \notin RoomsForSession(s)
        BY <1>1, <2>1, <2>4
    <2> QED BY <2>3, <2>4
<1>3. RegistryTypeOK'
    BY <1>1, <1>2 DEF RegistryTypeOK
<1>4. ~HasSession(s)' /\ \A u \in Sessions : u # s => (HasSession(u)' <=> HasSession(u))
    BY <1>1 DEF RegistryTypeOK, HasSession
<1> QED BY <1>2, <1>3, <1>4 DEF SessionsInRoom, OrEmpty

-----------------------------------------------------------------------------
(* One session and one room.                                               *)

\* The log of a room, and what is appended to it.
Extended(r) ==
    /\ frames[r] \in Seq(Frame)
    /\ frames'[r] \in Seq(Frame)
    /\ Len(frames[r]) <= Len(frames'[r])
    /\ \A i \in 1..Len(frames[r]) : frames'[r][i] = frames[r][i]
    /\ \A i \in 1..Len(frames'[r]) : i > Len(frames[r]) => Outstanding(frames[r][i])'

\* A step that neither answers s about r nor takes anything from it: what was
\* still to be broadcast is broadcast later, or has reached s now.
LEMMA FeedStays ==
    ASSUME NEW s \in Sessions, NEW r \in Rooms, FeedOf(s, r),
           paging[s][r] \in Paging,
           /\ paging'[s][r].next = paging[s][r].next
           /\ paging'[s][r].phase = paging[s][r].phase
           /\ paging'[s][r].covered \in BOOLEAN
           /\ paging'[s][r].covered => paging[s][r].covered,
           paging'[s][r].covered /\ s \in SessionsInRoom(r) => s \in SessionsInRoom(r)',
           got[s] \subseteq got'[s],
           Extended(r),
           paging'[s][r].covered /\ s \in SessionsInRoom(r) =>
               \A i \in 1..Len(frames[r]) : Outstanding(frames[r][i]) =>
                   frames[r][i] \in got'[s] \/ Outstanding(frames[r][i])',
           \A t \in Tasks : AnswerFor(t, s, r)' => AnswerFor(t, s, r) /\ pending'[t] = pending[t],
           HasSession(s)' => HasSession(s) \/ s \in unused,
           unused' \subseteq unused
    PROVE  FeedOf(s, r)'
<1> DEFINE p == paging[s][r]
           q == paging'[s][r]
<1>1. /\ p.next \in Nat
      /\ q.next = p.next /\ q.phase = p.phase
      /\ q.covered => p.covered
      /\ p.covered => s \in SessionsInRoom(r)
    BY DEF FeedOf, Paging
<1>2. ASSUME NEW i \in 1..Len(frames[r]), q.covered, Held(s, r, i)
      PROVE  Held(s, r, i)'
    <2>1. frames'[r][i] = frames[r][i]
        BY DEF Extended
    <2>2. CASE frames[r][i] \in got[s]
        BY <2>1, <2>2 DEF Held
    <2>3. CASE Outstanding(frames[r][i])
        BY <1>1, <1>2, <2>1, <2>3 DEF Held
    <2> QED BY <1>2, <2>2, <2>3 DEF Held
<1>3. ASSUME NEW i \in 1..Len(frames'[r]), i > Len(frames[r])
      PROVE  Held(s, r, i)'
    BY <1>3 DEF Extended, Held
<1>4. /\ Len(frames[r]) \in Nat /\ Len(frames'[r]) \in Nat
      /\ Len(frames[r]) <= Len(frames'[r])
    BY DEF Extended
<1>5. (paging[s][r].covered => s \in SessionsInRoom(r))'
    BY <1>1
<1>6. PagesHeld(s, r)'
    <2>1. p.next <= Len(frames[r]) /\ \A i \in 1..p.next : frames[r][i] \in got[s]
        BY DEF FeedOf, PagesHeld
    <2>2. q.next <= Len(frames'[r])
        BY <1>1, <1>4, <2>1
    <2>3. ASSUME NEW i \in 1..q.next
          PROVE  frames'[r][i] \in got'[s]
        <3>1. i \in 1..Len(frames[r]) /\ i \in 1..p.next
            BY <1>1, <1>4, <2>1
        <3> QED BY <2>1, <3>1 DEF Extended
    <2> QED BY <2>2, <2>3 DEF PagesHeld
<1>7. CaughtUp(s, r)'
    <2> SUFFICES ASSUME q.phase = "done", q.covered, NEW i \in 1..Len(frames'[r])
                 PROVE  Held(s, r, i)'
        BY DEF CaughtUp
    <2>1. CASE i > Len(frames[r])
        BY <1>3, <2>1
    <2>2. CASE ~(i > Len(frames[r]))
        <3>1. i \in 1..Len(frames[r])
            BY <1>4, <2>2
        <3>2. Held(s, r, i)
            BY <1>1, <3>1 DEF FeedOf, CaughtUp
        <3> QED BY <1>2, <3>1, <3>2
    <2> QED BY <2>1, <2>2
<1>8. ASSUME NEW t \in Tasks, AnswerFor(t, s, r)'
      PROVE  Waits(s, r, t)'
    <2>1. AnswerFor(t, s, r) /\ pending'[t] = pending[t] /\ Waits(s, r, t)
        BY <1>8 DEF FeedOf
    <2>2. s \notin unused'
        BY <2>1 DEF Waits
    <2> SUFFICES ASSUME HasSession(s)'
                 PROVE  /\ q.phase = "waiting"
                        /\ \A u \in Tasks : AnswerFor(u, s, r)' => u = t
                        /\ "frames" \in DOMAIN Head(pending'[t]) =>
                              Fits(s, r, Head(pending[t]))'
        BY <2>2 DEF Waits
    <2>3. /\ p.phase = "waiting"
          /\ \A u \in Tasks : AnswerFor(u, s, r) => u = t
          /\ "frames" \in DOMAIN Head(pending[t]) => Fits(s, r, Head(pending[t]))
        BY <2>1 DEF Waits
    <2>4. q.phase = "waiting" /\ \A u \in Tasks : AnswerFor(u, s, r)' => u = t
        BY <1>1, <2>3
    <2>5. ASSUME NEW a, a = Head(pending[t]), Fits(s, r, a)
          PROVE  Fits(s, r, a)'
        <3>1. PICK n \in Nat : n = Len(a.frames) /\ a.frames \in Seq(Frame)
            BY <2>5 DEF Fits
        <3>2. /\ p.next + n <= Len(frames[r])
              /\ \A j \in 1..n : a.frames[j] = frames[r][p.next + j]
              /\ p.covered /\ ~a.has_more =>
                    \A i \in 1..Len(frames[r]) : i > p.next + n => Held(s, r, i)
            BY <2>5, <3>1 DEF Fits
        <3>3. q.next + n <= Len(frames'[r])
            BY <1>1, <1>4, <3>2
        <3>4. ASSUME NEW j \in 1..n
              PROVE  a.frames[j] = frames'[r][q.next + j]
            <4>1. q.next + j \in 1..Len(frames[r]) /\ q.next + j = p.next + j
                BY <1>1, <1>4, <3>2
            <4> QED BY <3>2, <4>1 DEF Extended
        <3>5. ASSUME q.covered, ~a.has_more, NEW i \in 1..Len(frames'[r]), i > q.next + n
              PROVE  Held(s, r, i)'
            <4>1. CASE i > Len(frames[r])
                BY <1>3, <4>1
            <4>2. CASE ~(i > Len(frames[r]))
                <5>1. i \in 1..Len(frames[r]) /\ i > p.next + n
                    BY <1>1, <1>4, <3>5, <4>2
                <5> QED BY <1>1, <1>2, <3>2, <3>5, <5>1
            <4> QED BY <4>1, <4>2
        <3> QED BY <3>1, <3>3, <3>4, <3>5 DEF Fits
    <2>6. ASSUME "frames" \in DOMAIN Head(pending'[t])
          PROVE  Fits(s, r, Head(pending[t]))'
        <3>1. PICK a : a = Head(pending[t]) /\ a = Head(pending'[t])
            BY <2>1
        <3>2. Fits(s, r, a)
            BY <2>3, <2>6, <3>1
        <3>3. Fits(s, r, a)'
            BY <2>5, <3>1, <3>2
        <3> QED BY <3>1, <3>3 DEF Fits
    <2> QED BY <2>4, <2>6
<1> QED BY <1>5, <1>6, <1>7, <1>8 DEF FeedOf

-----------------------------------------------------------------------------
(* The lists.                                                              *)

\* No answer is added to those that wait, and those that stay do not change.
NoNewAnswersFor(s, r) ==
    \A t \in Tasks : AnswerFor(t, s, r)' => AnswerFor(t, s, r) /\ pending'[t] = pending[t]

NoNewAnswers == \A s \in Sessions, r \in Rooms : NoNewAnswersFor(s, r)

\* What is still to be broadcast stays so.
BroadcastsStay == \A f : Outstanding(f) => Outstanding(f)'

\* The first action of a list and the rest of it.
LEMMA HeadAndTail ==
    ASSUME NEW S, NEW s \in Seq(S), s # <<>>
    PROVE  /\ Head(s) \in S /\ Head(s) = s[1]
           /\ Tail(s) \in Seq(S)
           /\ Len(s) \in Nat /\ Len(Tail(s)) \in Nat
           /\ Len(s) = Len(Tail(s)) + 1
           /\ \A k \in 1..Len(Tail(s)) : Tail(s)[k] = s[k + 1]
OBVIOUS

\* A room action is no answer.
LEMMA ActionKinds ==
    /\ \A a \in RoomAction : ~IsAnswer(a)
    /\ \A a \in Answer : IsAnswer(a)
    /\ \A f : ~IsAnswer(Broadcast(f)) /\ ~IsAnswer(Persist(f))
BY DEF RoomAction, Answer, IsAnswer, Broadcast, Persist

\* The list of one task is replaced.
LEMMA OneList ==
    ASSUME FeedTypeOK, BroadcastFollows, NEW t \in Tasks,
           NEW list \in Seq(RoomAction \cup Answer),
           pending' = [pending EXCEPT ![t] = list],
           list # <<>> /\ IsAnswer(Head(list)) => Len(list) = 1,
           Followed(list)
    PROVE  /\ pending' \in [Tasks -> Seq(RoomAction \cup Answer)]
           /\ \A u \in Tasks : Answering(u)' => Len(pending'[u]) = 1
           /\ BroadcastFollows'
           /\ pending'[t] = list
           /\ \A u \in Tasks : u # t => pending'[u] = pending[u]
           /\ \A u \in Tasks : \A s \in Sessions : \A r \in Rooms :
                 u # t => (AnswerFor(u, s, r)' <=> AnswerFor(u, s, r))
           /\ \A f : Outstanding(f) =>
                 Outstanding(f)' \/ \E k \in 1..Len(pending[t]) : pending[t][k] = Broadcast(f)
           /\ \A f : \A k \in 1..Len(list) : list[k] = Broadcast(f) => Outstanding(f)'
<1>1. pending \in [Tasks -> Seq(RoomAction \cup Answer)]
    BY DEF FeedTypeOK
<1>2. /\ pending' \in [Tasks -> Seq(RoomAction \cup Answer)]
      /\ pending'[t] = list
      /\ \A u \in Tasks : u # t => pending'[u] = pending[u]
    BY <1>1
<1>3. ASSUME NEW u \in Tasks, Answering(u)'
      PROVE  Len(pending'[u]) = 1
    <2>1. CASE u = t
        BY <1>2, <1>3, <2>1 DEF Answering, IsAnswer
    <2>2. CASE u # t
        <3>1. pending'[u] = pending[u]
            BY <1>2, <2>2
        <3>2. Answering(u)
            BY <1>3, <3>1 DEF Answering, IsAnswer
        <3> QED BY <3>1, <3>2 DEF FeedTypeOK
    <2> QED BY <2>1, <2>2
<1>4. BroadcastFollows'
    <2> SUFFICES ASSUME NEW u \in Tasks PROVE Followed(pending'[u])
        BY DEF BroadcastFollows, Followed, Broadcast
    <2>1. CASE u = t
        BY <1>2, <2>1
    <2>2. CASE u # t
        BY <1>2, <2>2 DEF BroadcastFollows
    <2> QED BY <2>1, <2>2
<1>5. ASSUME NEW u \in Tasks, NEW s \in Sessions, NEW r \in Rooms, u # t
      PROVE  AnswerFor(u, s, r)' <=> AnswerFor(u, s, r)
    BY <1>2, <1>5 DEF AnswerFor, Answering, IsAnswer
<1>6. ASSUME NEW f, NEW u \in Tasks, NEW k \in 1..Len(pending'[u]),
             pending'[u][k] = Broadcast(f)
      PROVE  Outstanding(f)'
    BY <1>6 DEF Outstanding, Broadcast
<1>7. ASSUME NEW f, Outstanding(f)
      PROVE  Outstanding(f)' \/ \E k \in 1..Len(pending[t]) : pending[t][k] = Broadcast(f)
    <2>1. PICK u \in Tasks : \E k \in 1..Len(pending[u]) : pending[u][k] = Broadcast(f)
        BY <1>7 DEF Outstanding
    <2>2. PICK k \in 1..Len(pending[u]) : pending[u][k] = Broadcast(f)
        BY <2>1
    <2>3. CASE u = t
        BY <2>2, <2>3
    <2>4. CASE u # t
        BY <1>2, <1>6, <2>2, <2>4
    <2> QED BY <2>3, <2>4
<1>8. ASSUME NEW f, NEW k \in 1..Len(list), list[k] = Broadcast(f)
      PROVE  Outstanding(f)'
    BY <1>2, <1>6, <1>8
<1> QED BY <1>2, <1>3, <1>4, <1>5, <1>7, <1>8

\* Lists that do not change.
LEMMA SameLists ==
    ASSUME FeedTypeOK, BroadcastFollows, pending' = pending
    PROVE  /\ pending' \in [Tasks -> Seq(RoomAction \cup Answer)]
           /\ \A u \in Tasks : Answering(u)' => Len(pending'[u]) = 1
           /\ BroadcastFollows'
           /\ NoNewAnswers
           /\ BroadcastsStay
<1>1. pending' \in [Tasks -> Seq(RoomAction \cup Answer)]
    BY DEF FeedTypeOK
<1>2. \A u \in Tasks : Answering(u)' => Len(pending'[u]) = 1
    BY DEF FeedTypeOK, Answering, IsAnswer
<1>3. BroadcastFollows'
    BY DEF BroadcastFollows, Followed, Broadcast
<1>4. NoNewAnswers
    BY DEF NoNewAnswers, NoNewAnswersFor, AnswerFor, Answering, IsAnswer
<1>5. BroadcastsStay
    BY DEF BroadcastsStay, Outstanding, Broadcast
<1> QED BY <1>1, <1>2, <1>3, <1>4, <1>5

\* A task that had nothing to execute gets a list of room actions.
LEMMA NewList ==
    ASSUME FeedTypeOK, BroadcastFollows, NEW t \in Tasks, pending[t] = <<>>,
           NEW list \in Seq(RoomAction), pending' = [pending EXCEPT ![t] = list],
           Followed(list)
    PROVE  /\ pending' \in [Tasks -> Seq(RoomAction \cup Answer)]
           /\ \A u \in Tasks : Answering(u)' => Len(pending'[u]) = 1
           /\ BroadcastFollows'
           /\ NoNewAnswers
           /\ BroadcastsStay
<1>1. list # <<>> => Head(list) \in RoomAction
    OBVIOUS
<1>2. list # <<>> => ~IsAnswer(Head(list))
    BY <1>1, ActionKinds
<1>3. list \in Seq(RoomAction \cup Answer)
    OBVIOUS
<1>4. /\ pending' \in [Tasks -> Seq(RoomAction \cup Answer)]
      /\ \A u \in Tasks : Answering(u)' => Len(pending'[u]) = 1
      /\ BroadcastFollows'
      /\ pending'[t] = list
      /\ \A u \in Tasks : u # t => pending'[u] = pending[u]
      /\ \A u \in Tasks : \A s \in Sessions : \A r \in Rooms :
            u # t => (AnswerFor(u, s, r)' <=> AnswerFor(u, s, r))
      /\ \A f : Outstanding(f) =>
            Outstanding(f)' \/ \E k \in 1..Len(pending[t]) : pending[t][k] = Broadcast(f)
    BY <1>2, <1>3, OneList
<1>5. \A s \in Sessions : \A r \in Rooms : ~AnswerFor(t, s, r)'
    BY <1>2, <1>4 DEF AnswerFor, Answering, IsAnswer
<1>6. NoNewAnswers
    BY <1>4, <1>5 DEF NoNewAnswers, NoNewAnswersFor
<1>7. BroadcastsStay
    BY <1>4 DEF BroadcastsStay
<1> QED BY <1>4, <1>6, <1>7

\* The lists of process_frame broadcast what they store.
LEMMA ListsFollowed ==
    ASSUME NEW f, NEW st
    PROVE  /\ Followed(MessageActions(f))
           /\ Followed(CommitActions(f, st))
           /\ Followed(<<Broadcast(f)>>)
<1> DEFINE a == Persist(Sequenced(f))
           b == Broadcast(Sequenced(f))
           c == PersistState(f.room, st)
           d == Broadcast(f)
<1>1. /\ b = Broadcast(a.frame)
      /\ b.type # "PersistFrame" /\ c.type # "PersistFrame" /\ d.type # "PersistFrame"
    BY DEF Persist, Broadcast, PersistState
<1>2. MessageActions(f) = <<a, a, b>> /\ CommitActions(f, st) = <<a, a, b, c>>
    BY DEF MessageActions, CommitActions
<1> HIDE DEF a, b, c, d
<1>3. Followed(<<a, a, b>>)
    <2> DEFINE l == <<a, a, b>>
    <2>1. Len(l) = 3 /\ l[1] = a /\ l[2] = a /\ l[3] = b
        OBVIOUS
    <2> HIDE DEF l
    <2>2. \A k \in 1..Len(l) : k = 3 \/ (l[k] = a /\ 3 \in (k + 1)..Len(l))
        BY <2>1
    <2>3. Followed(l)
        BY <1>1, <2>1, <2>2 DEF Followed
    <2> QED BY <2>3 DEF l
<1>4. Followed(<<a, a, b, c>>)
    <2> DEFINE l == <<a, a, b, c>>
    <2>1. Len(l) = 4 /\ l[1] = a /\ l[2] = a /\ l[3] = b /\ l[4] = c
        OBVIOUS
    <2> HIDE DEF l
    <2>2. \A k \in 1..Len(l) : k = 3 \/ k = 4 \/ (l[k] = a /\ 3 \in (k + 1)..Len(l))
        BY <2>1
    <2>3. Followed(l)
        BY <1>1, <2>1, <2>2 DEF Followed
    <2> QED BY <2>3 DEF l
<1>5. Followed(<<d>>)
    <2>1. Len(<<d>>) = 1 /\ <<d>>[1] = d
        OBVIOUS
    <2> QED BY <1>1, <2>1 DEF Followed
<1> QED BY <1>2, <1>3, <1>4, <1>5 DEF d

\* The lists of process_frame are not empty and hold no answer.
LEMMA NoAnswerInLists ==
    ASSUME NEW f, NEW st
    PROVE  /\ MessageActions(f) # <<>> /\ ~IsAnswer(Head(MessageActions(f)))
           /\ CommitActions(f, st) # <<>> /\ ~IsAnswer(Head(CommitActions(f, st)))
           /\ <<Broadcast(f)>> # <<>> /\ ~IsAnswer(Head(<<Broadcast(f)>>))
<1> DEFINE a == Persist(Sequenced(f))
           b == Broadcast(Sequenced(f))
           c == PersistState(f.room, st)
           d == Broadcast(f)
<1>1. ~IsAnswer(a) /\ ~IsAnswer(d)
    BY DEF Persist, Broadcast, IsAnswer
<1>2. MessageActions(f) = <<a, a, b>> /\ CommitActions(f, st) = <<a, a, b, c>>
    BY DEF MessageActions, CommitActions
<1> HIDE DEF a, b, c, d
<1>3. /\ <<a, a, b>> # <<>> /\ Head(<<a, a, b>>) = a
      /\ <<a, a, b, c>> # <<>> /\ Head(<<a, a, b, c>>) = a
      /\ <<d>> # <<>> /\ Head(<<d>>) = d
    OBVIOUS
<1> QED BY <1>1, <1>2, <1>3 DEF d

\* The answers of handle_sync_request.
LEMMA Answers ==
    ASSUME NEW s, NEW r, NEW from, NEW a \in SyncAnswers(s, r, from)
    PROVE  /\ IsAnswer(a)
           /\ LET loaded == LoadFrames(r, from, LIMIT)
              IN  \/ a = SyncResponse(s, r, loaded, HasMore(r, from, loaded))
                  \/ a = SyncError(s, r)
<1> DEFINE loaded == LoadFrames(r, from, LIMIT)
           x == SyncResponse(s, r, loaded, HasMore(r, from, loaded))
           y == SyncError(s, r)
<1>1. IsAnswer(x) /\ IsAnswer(y)
    BY DEF SyncResponse, SyncError, IsAnswer
<1>2. SyncAnswers(s, r, from) =
          (IF CanSync(r) THEN {x} ELSE {}) \cup (IF CanSync(r) /\ ~FaultyStorage THEN {} ELSE {y})
    BY DEF SyncAnswers
<1> HIDE DEF x, y
<1>3. a = x \/ a = y
    BY <1>2
<1> QED BY <1>1, <1>3 DEF x, y

\* A list without actions is the empty list.
LEMMA NothingLeft ==
    ASSUME NEW S, NEW s \in Seq(S), Len(s) = 0
    PROVE  s = <<>>
OBVIOUS

\* A list of one action is empty once it is executed.
LEMMA TailOfOne ==
    ASSUME NEW S, NEW s \in Seq(S), Len(s) = 1
    PROVE  Tail(s) = <<>>
<1>1. Tail(s) \in Seq(S) /\ Len(Tail(s)) = 0
    OBVIOUS
<1> QED BY <1>1, NothingLeft

\* process_frame hands a list to a task that had none, or leaves the lists alone.
LEMMA FrameLists ==
    ASSUME FeedTypeOK, BroadcastFollows, RoomsTypeOK', NEW t \in Tasks, NEW f \in Incoming,
           \/ Refuse(t, f) \/ Overflow(t, f) \/ Welcome(t, f)
           \/ Drop(t, f) \/ Message(t, f) \/ Commit(t, f)
    PROVE  /\ pending' \in [Tasks -> Seq(RoomAction \cup Answer)]
           /\ \A u \in Tasks : Answering(u)' => Len(pending'[u]) = 1
           /\ BroadcastFollows'
           /\ NoNewAnswers
           /\ BroadcastsStay
           /\ frames' = frames
<1>1. frames' = frames
    BY DEF Refuse, Overflow, Welcome, Drop, Message, Commit, storageVars
<1>2. CASE pending' = pending
    BY <1>1, <1>2, SameLists
<1>3. ASSUME NEW list, Ready(t), Return(t, list), list # <<>>, ~IsAnswer(Head(list)),
             Followed(list)
      PROVE  /\ pending' \in [Tasks -> Seq(RoomAction \cup Answer)]
             /\ \A u \in Tasks : Answering(u)' => Len(pending'[u]) = 1
             /\ BroadcastFollows'
             /\ NoNewAnswers
             /\ BroadcastsStay
    <2>1. pending[t] = <<>> /\ pending' = [pending EXCEPT ![t] = list]
        BY <1>3 DEF Ready, Return
    <2>2. pending'[t] = list
        BY <2>1 DEF FeedTypeOK
    <2>3. ~Answering(t)'
        BY <1>3, <2>2 DEF Answering, IsAnswer
    <2>4. list \in Seq(RoomAction)
        BY <2>2, <2>3 DEF RoomsTypeOK, RoomAction, Frame, MlsGroupState
    <2> QED BY <1>3, <2>1, <2>4, NewList
<1>4. CASE Refuse(t, f) \/ Overflow(t, f) \/ Drop(t, f)
    BY <1>2, <1>4 DEF Refuse, Overflow, Drop, runtimeVars
<1>5. CASE Welcome(t, f)
    <2>1. Ready(t) /\ Return(t, <<Broadcast(f)>>)
        BY <1>5 DEF Welcome
    <2> QED BY <1>1, <1>3, <2>1, NoAnswerInLists, ListsFollowed
<1>6. CASE Message(t, f)
    <2>1. Ready(t) /\ Return(t, MessageActions(f))
        BY <1>6 DEF Message
    <2> QED BY <1>1, <1>3, <2>1, NoAnswerInLists, ListsFollowed
<1>7. CASE Commit(t, f)
    <2>1. PICK st : Ready(t) /\ Return(t, CommitActions(f, st))
        BY <1>7 DEF Commit
    <2>2. /\ CommitActions(f, st) # <<>>
          /\ ~IsAnswer(Head(CommitActions(f, st)))
          /\ Followed(CommitActions(f, st))
        BY NoAnswerInLists, ListsFollowed
    <2> QED BY <1>1, <1>3, <2>1, <2>2
<1> QED BY <1>4, <1>5, <1>6, <1>7

\* A room action is executed: its list is one shorter.
LEMMA ShorterList ==
    ASSUME FeedTypeOK, BroadcastFollows, RoomsTypeOK, NEW t \in Tasks, pending[t] # <<>>,
           ~Answering(t), pending' = [pending EXCEPT ![t] = Tail(pending[t])]
    PROVE  /\ pending' \in [Tasks -> Seq(RoomAction \cup Answer)]
           /\ \A u \in Tasks : Answering(u)' => Len(pending'[u]) = 1
           /\ BroadcastFollows'
           /\ NoNewAnswers
           /\ Head(pending[t]) \in RoomAction
           /\ \A f : Outstanding(f) => Outstanding(f)' \/ Head(pending[t]) = Broadcast(f)
           /\ \A f : Head(pending[t]).type = "PersistFrame" /\ f = Head(pending[t]).frame =>
                 Outstanding(f)'
<1> DEFINE s == pending[t]
<1>1. s \in Seq(RoomAction) /\ s # <<>>
    BY DEF RoomsTypeOK
<1> HIDE DEF s
<1>2. PICK rest, h :
          /\ rest = Tail(s) /\ h = Head(s)
          /\ rest \in Seq(RoomAction) /\ Len(rest) \in Nat
          /\ Len(s) = Len(rest) + 1
          /\ h \in RoomAction /\ s[1] = h
          /\ \A k \in 1..Len(rest) : rest[k] = s[k + 1]
    <2>1. /\ Head(s) \in RoomAction /\ Head(s) = s[1]
          /\ Tail(s) \in Seq(RoomAction)
          /\ Len(Tail(s)) \in Nat
          /\ Len(s) = Len(Tail(s)) + 1
          /\ \A k \in 1..Len(Tail(s)) : Tail(s)[k] = s[k + 1]
        BY <1>1, HeadAndTail
    <2> QED BY <2>1
<1>3. Followed(s)
    BY DEF BroadcastFollows, s
<1>4. ASSUME NEW k \in 1..Len(s), k # 1
      PROVE  k - 1 \in 1..Len(rest) /\ rest[k - 1] = s[k]
    <2>1. k - 1 \in 1..Len(rest) /\ (k - 1) + 1 = k
        BY <1>2, <1>4
    <2> QED BY <1>2, <2>1
<1>5. Followed(rest)
    <2> SUFFICES ASSUME NEW k \in 1..Len(rest), rest[k].type = "PersistFrame"
                 PROVE  \E j \in (k + 1)..Len(rest) : rest[j] = Broadcast(rest[k].frame)
        BY DEF Followed
    <2>1. k + 1 \in 1..Len(s) /\ s[k + 1] = rest[k]
        BY <1>2
    <2>2. PICK j \in ((k + 1) + 1)..Len(s) : s[j] = Broadcast(rest[k].frame)
        BY <1>3, <2>1 DEF Followed
    <2>3. j - 1 \in (k + 1)..Len(rest) /\ j \in 1..Len(s) /\ j # 1
        BY <1>2
    <2> QED BY <1>4, <2>2, <2>3
<1>6. rest # <<>> => Head(rest) \in RoomAction
    BY <1>2
<1>7. rest # <<>> => ~IsAnswer(Head(rest))
    BY <1>6, ActionKinds
<1>8. rest \in Seq(RoomAction \cup Answer)
    BY <1>2
<1>9. pending' = [pending EXCEPT ![t] = rest]
    BY <1>2 DEF s
<1>10. /\ pending' \in [Tasks -> Seq(RoomAction \cup Answer)]
       /\ \A u \in Tasks : Answering(u)' => Len(pending'[u]) = 1
       /\ BroadcastFollows'
       /\ pending'[t] = rest
       /\ \A u \in Tasks : u # t => pending'[u] = pending[u]
       /\ \A u \in Tasks : \A c \in Sessions : \A r \in Rooms :
             u # t => (AnswerFor(u, c, r)' <=> AnswerFor(u, c, r))
       /\ \A f : Outstanding(f) => Outstanding(f)' \/ \E k \in 1..Len(s) : s[k] = Broadcast(f)
       /\ \A f : \A k \in 1..Len(rest) : rest[k] = Broadcast(f) => Outstanding(f)'
    BY <1>5, <1>7, <1>8, <1>9, OneList DEF s
<1>11. NoNewAnswers
    <2>1. \A c \in Sessions : \A r \in Rooms : ~AnswerFor(t, c, r)'
        BY <1>7, <1>10 DEF AnswerFor, Answering, IsAnswer
    <2> QED BY <1>10, <2>1 DEF NoNewAnswers, NoNewAnswersFor
<1>12. ASSUME NEW f, Outstanding(f), h # Broadcast(f)
       PROVE  Outstanding(f)'
    <2>1. CASE \E k \in 1..Len(s) : s[k] = Broadcast(f)
        <3>1. PICK k \in 1..Len(s) : s[k] = Broadcast(f)
            BY <2>1
        <3>2. k # 1
            BY <1>2, <1>12, <3>1
        <3>3. k - 1 \in 1..Len(rest) /\ rest[k - 1] = Broadcast(f)
            BY <1>4, <3>1, <3>2
        <3> QED BY <1>10, <3>3
    <2>2. CASE ~\E k \in 1..Len(s) : s[k] = Broadcast(f)
        BY <1>10, <1>12, <2>2
    <2> QED BY <2>1, <2>2
<1>13. ASSUME NEW f, h.type = "PersistFrame", f = h.frame
       PROVE  Outstanding(f)'
    <2>1. PICK j \in (1 + 1)..Len(s) : s[j] = Broadcast(f)
        BY <1>2, <1>3, <1>13 DEF Followed
    <2>2. j \in 1..Len(s) /\ j # 1
        BY <1>2
    <2>3. j - 1 \in 1..Len(rest) /\ rest[j - 1] = Broadcast(f)
        BY <1>4, <2>1, <2>2
    <2> QED BY <1>10, <2>3
<1>14. h = Head(pending[t])
    BY <1>2 DEF s
<1> QED BY <1>2, <1>10, <1>11, <1>12, <1>13, <1>14

-----------------------------------------------------------------------------
(* The steps.                                                              *)

\* A log that does not change.
LEMMA SameLog ==
    ASSUME RoomsTypeOK, frames' = frames, NEW r \in Rooms
    PROVE  Extended(r)
<1>1. frames[r] \in Seq(Frame) /\ frames'[r] = frames[r]
    BY DEF RoomsTypeOK
<1>2. Len(frames[r]) \in Nat
    BY <1>1
<1> QED BY <1>1, <1>2 DEF Extended

\* A registry that does not change.
LEMMA SameRegistry ==
    ASSUME RegistryTypeOK, UNCHANGED subscriptionVars
    PROVE  /\ RegistryTypeOK'
           /\ \A r \in Rooms : SessionsInRoom(r)' = SessionsInRoom(r)
           /\ \A s \in Sessions : HasSession(s)' <=> HasSession(s)
BY DEF subscriptionVars, RegistryTypeOK, SessionsInRoom, OrEmpty, HasSession

\* The parts of the type invariant.
LEMMA FeedTyped ==
    ASSUME pending' \in [Tasks -> Seq(RoomAction \cup Answer)],
           \A u \in Tasks : Answering(u)' => Len(pending'[u]) = 1,
           RegistryTypeOK',
           unused' \subseteq Sessions,
           paging' \in [Sessions -> [Rooms -> Paging]],
           got' \in [Sessions -> SUBSET Frame]
    PROVE  FeedTypeOK'
BY DEF FeedTypeOK, Answer, RoomAction, Frame, MlsGroupState, Paging

\* The parts of the invariant that every step reads.
LEMMA FeedParts ==
    ASSUME FeedInvariant
    PROVE  /\ FeedTypeOK /\ BroadcastFollows /\ RegistryTypeOK
           /\ unused \subseteq Sessions
           /\ paging \in [Sessions -> [Rooms -> Paging]]
           /\ got \in [Sessions -> SUBSET Frame]
           /\ \A s \in Sessions : s \in unused => ~HasSession(s)
           /\ \A s \in Sessions, r \in Rooms :
                 FeedOf(s, r) /\ paging[s][r] \in Paging /\ paging[s][r].covered \in BOOLEAN
BY DEF FeedInvariant, FeedTypeOK, Paging

\* A step that leaves the log, what the session has and where its paging is as they
\* are, but for covered, and takes only subscribers away that it does not cover.
LEMMA PairStays ==
    ASSUME FeedInvariant, RoomsTypeOK, frames' = frames, BroadcastsStay,
           NEW s \in Sessions, NEW r \in Rooms, NoNewAnswersFor(s, r),
           got[s] \subseteq got'[s],
           /\ paging'[s][r].next = paging[s][r].next
           /\ paging'[s][r].phase = paging[s][r].phase
           /\ paging'[s][r].covered \in BOOLEAN
           /\ paging'[s][r].covered => paging[s][r].covered,
           paging'[s][r].covered /\ s \in SessionsInRoom(r) => s \in SessionsInRoom(r)',
           HasSession(s)' => HasSession(s) \/ s \in unused,
           unused' \subseteq unused
    PROVE  FeedOf(s, r)'
<1>1. FeedOf(s, r) /\ paging[s][r] \in Paging
    BY FeedParts
<1>2. Extended(r)
    BY SameLog
<1>3. \A i \in 1..Len(frames[r]) : Outstanding(frames[r][i]) =>
          frames[r][i] \in got'[s] \/ Outstanding(frames[r][i])'
    <2> SUFFICES ASSUME NEW i \in 1..Len(frames[r]), Outstanding(frames[r][i])
                 PROVE  Outstanding(frames[r][i])'
        OBVIOUS
    <2>1. PICK f : f = frames[r][i] /\ f = frames'[r][i]
        OBVIOUS
    <2>2. Outstanding(f)'
        BY <2>1 DEF BroadcastsStay
    <2> QED BY <2>1, <2>2 DEF Outstanding
<1>4. \A t \in Tasks : AnswerFor(t, s, r)' => AnswerFor(t, s, r) /\ pending'[t] = pending[t]
    BY DEF NoNewAnswersFor
<1> QED BY <1>1, <1>2, <1>3, <1>4, FeedStays

\* The paging of one session in one room is replaced, and that session may have got
\* something.
LEMMA OnePaging ==
    ASSUME FeedInvariant, RoomsTypeOK, frames' = frames, unused' = unused,
           UNCHANGED subscriptionVars, BroadcastsStay,
           pending' \in [Tasks -> Seq(RoomAction \cup Answer)],
           \A u \in Tasks : Answering(u)' => Len(pending'[u]) = 1,
           BroadcastFollows',
           NEW c \in Sessions, NEW q \in Rooms, NEW n \in Paging, NEW new \in SUBSET Frame,
           paging' = [paging EXCEPT ![c][q] = n],
           got' = [got EXCEPT ![c] = got[c] \cup new],
           \A s \in Sessions, r \in Rooms : s # c \/ r # q => NoNewAnswersFor(s, r),
           FeedOf(c, q)'
    PROVE  FeedInvariant'
<1>1. /\ paging \in [Sessions -> [Rooms -> Paging]]
      /\ got \in [Sessions -> SUBSET Frame]
      /\ unused \subseteq Sessions
      /\ RegistryTypeOK
      /\ \A s \in Sessions : s \in unused => ~HasSession(s)
    BY FeedParts
<1>2. /\ paging' \in [Sessions -> [Rooms -> Paging]]
      /\ got' \in [Sessions -> SUBSET Frame]
      /\ \A s \in Sessions, r \in Rooms : s # c \/ r # q => paging'[s][r] = paging[s][r]
      /\ \A s \in Sessions : got[s] \subseteq got'[s]
    BY <1>1
<1>3. /\ RegistryTypeOK'
      /\ \A r \in Rooms : SessionsInRoom(r)' = SessionsInRoom(r)
      /\ \A s \in Sessions : HasSession(s)' <=> HasSession(s)
    BY <1>1, SameRegistry
<1>4. FeedTypeOK'
    BY <1>1, <1>2, <1>3, FeedTyped
<1>5. ASSUME NEW s \in Sessions, NEW r \in Rooms, s # c \/ r # q
      PROVE  FeedOf(s, r)'
    <2>1. paging'[s][r] = paging[s][r] /\ paging[s][r].covered \in BOOLEAN
        BY <1>2, <1>5, FeedParts
    <2>2. NoNewAnswersFor(s, r)
        BY <1>5
    <2> QED BY <1>2, <1>3, <2>1, <2>2, PairStays
<1> QED BY <1>1, <1>3, <1>4, <1>5 DEF FeedInvariant

\* A frame of a session.
LEMMA FrameStep ==
    ASSUME FeedInvariant, RoomsTypeOK, RoomsTypeOK', NEW t \in Tasks, NEW f \in Incoming,
           HandleRoomFrame(t, f) \/ HandleWelcome(t, f)
    PROVE  FeedInvariant'
<1>1. StreamOf[t] \in Sessions /\ f.room \in Rooms
    BY FeedAssumption DEF Incoming
<1>2. FeedTypeOK /\ BroadcastFollows /\ RegistryTypeOK
    BY FeedParts
<1>3. paging' = paging /\ got' = got /\ unused' = unused
    BY DEF HandleRoomFrame, HandleWelcome, feedVars
<1>4. /\ RegistryTypeOK'
      /\ sessions' = sessions
      /\ \A r \in Rooms : SessionsInRoom(r) \subseteq SessionsInRoom(r)'
    <2>1. CASE HandleRoomFrame(t, f)
        BY <1>2, <2>1 DEF HandleRoomFrame, feedVars, subscriptionVars, RegistryTypeOK,
                          SessionsInRoom, OrEmpty
    <2>2. CASE HandleWelcome(t, f)
        BY <1>1, <1>2, <2>2, SubscribeMoves DEF HandleWelcome
    <2> QED BY <2>1, <2>2
<1>5. /\ pending' \in [Tasks -> Seq(RoomAction \cup Answer)]
      /\ \A u \in Tasks : Answering(u)' => Len(pending'[u]) = 1
      /\ BroadcastFollows'
      /\ NoNewAnswers
      /\ BroadcastsStay
      /\ frames' = frames
    BY <1>2, FrameLists DEF HandleRoomFrame, HandleWelcome
<1>6. FeedTypeOK'
    BY <1>2, <1>3, <1>4, <1>5, FeedTyped, FeedParts
<1>7. \A s \in Sessions : HasSession(s)' <=> HasSession(s)
    BY <1>4 DEF HasSession
<1>8. ASSUME NEW s \in Sessions, NEW r \in Rooms
      PROVE  FeedOf(s, r)'
    <2>1. paging[s][r].covered \in BOOLEAN /\ NoNewAnswersFor(s, r)
        BY <1>5, FeedParts DEF NoNewAnswers
    <2> QED BY <1>3, <1>4, <1>5, <1>7, <2>1, PairStays
<1> QED BY <1>3, <1>5, <1>6, <1>7, <1>8 DEF FeedInvariant

\* A connection is accepted, a room created, a session subscribed.
LEMMA EntryStep ==
    ASSUME FeedInvariant, RoomsTypeOK, NEW c \in Sessions,
           \/ HandleConnectionAccepted(c)
           \/ \E q \in Rooms : HandleCreateRoom(c, q) \/ SubscribeToRoom(c, q)
    PROVE  FeedInvariant'
<1>1. FeedTypeOK /\ BroadcastFollows /\ RegistryTypeOK
    BY FeedParts
<1>2. /\ paging' = paging /\ got' = got /\ frames' = frames /\ pending' = pending
      /\ unused' \subseteq unused
    BY DEF HandleConnectionAccepted, HandleCreateRoom, SubscribeToRoom, vars, storageVars,
           runtimeVars
<1>3. /\ RegistryTypeOK'
      /\ \A r \in Rooms : SessionsInRoom(r) \subseteq SessionsInRoom(r)'
      /\ \A s \in Sessions : HasSession(s)' =>
            HasSession(s) \/ (s \in unused /\ s \notin unused')
    <2>1. CASE HandleConnectionAccepted(c)
        <3>1. /\ c \in unused /\ unused' = unused \ {c}
              /\ RegistryTypeOK'
              /\ \A r \in Rooms : SessionsInRoom(r)' = SessionsInRoom(r)
              /\ \A s \in Sessions : s # c => (HasSession(s)' <=> HasSession(s))
            BY <1>1, <2>1, RegisterMoves DEF HandleConnectionAccepted
        <3> QED BY <3>1
    <2>2. CASE \E q \in Rooms : HandleCreateRoom(c, q) \/ SubscribeToRoom(c, q)
        <3>1. PICK q \in Rooms : Subscribe(c, q)
            BY <2>2 DEF HandleCreateRoom, SubscribeToRoom
        <3>2. /\ RegistryTypeOK'
              /\ sessions' = sessions
              /\ \A r \in Rooms : SessionsInRoom(r) \subseteq SessionsInRoom(r)'
            BY <1>1, <3>1, SubscribeMoves
        <3> QED BY <3>2 DEF HasSession
    <2> QED BY <2>1, <2>2
<1>4. /\ pending' \in [Tasks -> Seq(RoomAction \cup Answer)]
      /\ \A u \in Tasks : Answering(u)' => Len(pending'[u]) = 1
      /\ BroadcastFollows'
      /\ NoNewAnswers
      /\ BroadcastsStay
    BY <1>1, <1>2, SameLists
<1>5. FeedTypeOK'
    BY <1>1, <1>2, <1>3, <1>4, FeedTyped, FeedParts
<1>6. ASSUME NEW s \in Sessions, NEW r \in Rooms
      PROVE  FeedOf(s, r)'
    <2>1. paging[s][r].covered \in BOOLEAN /\ NoNewAnswersFor(s, r)
        BY <1>4, FeedParts DEF NoNewAnswers
    <2> QED BY <1>2, <1>3, <1>4, <2>1, PairStays
<1>7. \A s \in Sessions : s \in unused' => ~HasSession(s)'
    BY <1>2, <1>3 DEF FeedInvariant
<1> QED BY <1>4, <1>5, <1>6, <1>7 DEF FeedInvariant

\* A session leaves a room: its paging of the room is no longer covered.
LEMMA LeaveStep ==
    ASSUME FeedInvariant, RoomsTypeOK, NEW c \in Sessions, NEW q \in Rooms,
           UnsubscribeFromRoom(c, q)
    PROVE  FeedInvariant'
<1>1. FeedTypeOK /\ BroadcastFollows /\ RegistryTypeOK
    BY FeedParts
<1>2. /\ got' = got /\ frames' = frames /\ pending' = pending /\ unused' = unused
      /\ paging' = [paging EXCEPT ![c][q].covered = FALSE]
    BY DEF UnsubscribeFromRoom, vars, storageVars, runtimeVars
<1>3. /\ RegistryTypeOK'
      /\ sessions' = sessions
      /\ \A r \in Rooms : \A s \in SessionsInRoom(r) :
            r # q \/ s # c => s \in SessionsInRoom(r)'
    BY <1>1, UnsubscribeMoves DEF UnsubscribeFromRoom
<1>4. /\ pending' \in [Tasks -> Seq(RoomAction \cup Answer)]
      /\ \A u \in Tasks : Answering(u)' => Len(pending'[u]) = 1
      /\ BroadcastFollows'
      /\ NoNewAnswers
      /\ BroadcastsStay
    BY <1>1, <1>2, SameLists
<1>5. /\ paging' \in [Sessions -> [Rooms -> Paging]]
      /\ \A s \in Sessions, r \in Rooms : s # c \/ r # q => paging'[s][r] = paging[s][r]
      /\ paging'[c][q].next = paging[c][q].next
      /\ paging'[c][q].phase = paging[c][q].phase
      /\ ~paging'[c][q].covered
    <2>1. PICK p : p = [paging[c][q] EXCEPT !.covered = FALSE]
        OBVIOUS
    <2>2. PICK o \in Paging : o = paging[c][q]
        BY <1>1 DEF FeedTypeOK
    <2>3. p = [o EXCEPT !.covered = FALSE]
        BY <2>1, <2>2
    <2>4. p \in Paging
        BY <2>3 DEF Paging
    <2>5. p.next = o.next /\ p.phase = o.phase
        BY <2>3 DEF Paging
    <2>6. ~p.covered
        BY <2>3 DEF Paging
    <2>7. paging' = [paging EXCEPT ![c][q] = p]
        BY <1>2, <2>1
    <2> QED BY <1>1, <2>2, <2>4, <2>5, <2>6, <2>7 DEF FeedTypeOK
<1>6. FeedTypeOK'
    BY <1>1, <1>2, <1>3, <1>4, <1>5, FeedTyped, FeedParts
<1>7. \A s \in Sessions : HasSession(s)' <=> HasSession(s)
    BY <1>3 DEF HasSession
<1>8. ASSUME NEW s \in Sessions, NEW r \in Rooms
      PROVE  FeedOf(s, r)'
    <2>1. paging'[s][r].covered \in BOOLEAN /\ NoNewAnswersFor(s, r)
        BY <1>4, <1>5 DEF Paging, NoNewAnswers
    <2>2. /\ paging'[s][r].next = paging[s][r].next
          /\ paging'[s][r].phase = paging[s][r].phase
          /\ paging'[s][r].covered => paging[s][r].covered
          /\ paging'[s][r].covered => s # c \/ r # q
        BY <1>5
    <2>3. paging'[s][r].covered /\ s \in SessionsInRoom(r) => s \in SessionsInRoom(r)'
        BY <1>3, <2>2
    <2> QED BY <1>2, <1>4, <1>7, <2>1, <2>2, <2>3, PairStays
<1> QED BY <1>2, <1>4, <1>6, <1>7, <1>8 DEF FeedInvariant

\* A connection closes: whatever was prepared for its session is skipped.
LEMMA CloseStep ==
    ASSUME FeedInvariant, RoomsTypeOK, NEW c \in Sessions, HandleConnectionClosed(c)
    PROVE  FeedInvariant'
<1>1. FeedTypeOK /\ BroadcastFollows /\ RegistryTypeOK
    BY FeedParts
<1>2. /\ frames' = frames /\ pending' = pending /\ unused' = unused
      /\ paging' = [paging EXCEPT ![c] = NoPaging]
      /\ got' = [got EXCEPT ![c] = {}]
      /\ HasSession(c)
    BY DEF HandleConnectionClosed, vars, storageVars, runtimeVars
<1>3. /\ RegistryTypeOK'
      /\ ~HasSession(c)'
      /\ \A s \in Sessions : s # c => (HasSession(s)' <=> HasSession(s))
      /\ \A r \in Rooms : \A s \in SessionsInRoom(r) : s # c => s \in SessionsInRoom(r)'
    BY <1>1, <1>2, UnregisterMoves DEF HandleConnectionClosed
<1>4. /\ pending' \in [Tasks -> Seq(RoomAction \cup Answer)]
      /\ \A u \in Tasks : Answering(u)' => Len(pending'[u]) = 1
      /\ BroadcastFollows'
      /\ NoNewAnswers
      /\ BroadcastsStay
    BY <1>1, <1>2, SameLists
<1>5. /\ NoPaging \in [Rooms -> Paging]
      /\ \A r \in Rooms : /\ NoPaging[r].next = 0 /\ NoPaging[r].phase = "idle"
                          /\ NoPaging[r].covered = FALSE
    BY DEF NoPaging, Paging
<1>6. /\ paging' \in [Sessions -> [Rooms -> Paging]]
      /\ got' \in [Sessions -> SUBSET Frame]
      /\ \A s \in Sessions : s # c => paging'[s] = paging[s] /\ got'[s] = got[s]
      /\ paging'[c] = NoPaging
    BY <1>1, <1>2, <1>5 DEF FeedTypeOK
<1>7. FeedTypeOK'
    BY <1>1, <1>2, <1>3, <1>4, <1>6, FeedTyped, FeedParts
<1>8. ASSUME NEW s \in Sessions, NEW r \in Rooms, s # c
      PROVE  FeedOf(s, r)'
    <2>1. paging[s][r].covered \in BOOLEAN /\ NoNewAnswersFor(s, r)
        BY <1>4, FeedParts DEF NoNewAnswers
    <2>2. paging'[s][r] = paging[s][r] /\ got[s] \subseteq got'[s]
        BY <1>6, <1>8
    <2>3. /\ s \in SessionsInRoom(r) => s \in SessionsInRoom(r)'
          /\ HasSession(s)' => HasSession(s)
        BY <1>3, <1>8
    <2>4. frames' = frames /\ unused' \subseteq unused /\ BroadcastsStay
        BY <1>2, <1>4
    <2> QED BY <2>1, <2>2, <2>3, <2>4, PairStays
<1>9. ASSUME NEW r \in Rooms
      PROVE  FeedOf(c, r)'
    <2>1. /\ paging'[c][r].next = 0 /\ paging'[c][r].phase = "idle"
          /\ paging'[c][r].covered = FALSE
        BY <1>5, <1>6
    <2>2. PagesHeld(c, r)'
        <3>1. Len(frames'[r]) \in Nat
            BY <1>2 DEF RoomsTypeOK
        <3>2. 0 <= Len(frames'[r]) /\ 1..0 = {}
            BY <3>1
        <3> QED BY <2>1, <3>2 DEF PagesHeld
    <2>3. CaughtUp(c, r)'
        BY <2>1 DEF CaughtUp
    <2>4. c \notin unused'
        BY <1>2 DEF FeedInvariant
    <2>5. \A t \in Tasks : Waits(c, r, t)'
        BY <1>3, <2>4 DEF Waits
    <2> QED BY <2>1, <2>2, <2>3, <2>5 DEF FeedOf
<1>10. \A s \in Sessions : s \in unused' => ~HasSession(s)'
    BY <1>2, <1>3 DEF FeedInvariant
<1> QED BY <1>4, <1>7, <1>8, <1>9, <1>10 DEF FeedInvariant

\* What execute_actions stores is broadcast later by the same list.
LEMMA StoredIsFollowed ==
    ASSUME RoomsTypeOK, NEW t \in Tasks, NEW h \in RoomAction, h = Head(pending[t]),
           ExecStorage(t) \/ ExecBroadcastToRoom(t),
           \A f : h.type = "PersistFrame" /\ f = h.frame => Outstanding(f)',
           NEW r \in Rooms
    PROVE  Extended(r)
<1>1. CASE frames' = frames
    BY <1>1, SameLog
<1>2. CASE frames' # frames
    <2>1. h.type = "PersistFrame" /\ StoreFrame(h.frame.room, h.frame.log_index, h.frame)
        BY <1>2 DEF ExecStorage, ExecBroadcastToRoom, ExecPersist, ExecPersistState,
                    ExecFailed, ExecBroadcast, storageVars, StoreMlsState
    <2>2. PICK f : f = h.frame
        OBVIOUS
    <2>3. f \in Frame
        BY <2>1, <2>2 DEF RoomAction
    <2>4. frames' = [frames EXCEPT ![f.room] = Append(frames[f.room], f)]
        BY <1>2, <2>1, <2>2 DEF StoreFrame
    <2>5. Outstanding(f)'
        BY <2>1, <2>2
    <2>6. frames \in [Rooms -> Seq(Frame)] /\ f.room \in Rooms
        BY <2>3 DEF RoomsTypeOK, Frame
    <2>7. CASE r # f.room
        <3>1. frames'[r] = frames[r] /\ frames[r] \in Seq(Frame)
            BY <2>4, <2>6, <2>7
        <3>2. Len(frames[r]) \in Nat
            BY <3>1
        <3> QED BY <3>1, <3>2 DEF Extended
    <2>8. CASE r = f.room
        <3>1. frames'[r] = Append(frames[r], f) /\ frames[r] \in Seq(Frame)
            BY <2>4, <2>6, <2>8
        <3>2. /\ frames'[r] \in Seq(Frame)
              /\ Len(frames[r]) \in Nat
              /\ Len(frames'[r]) = Len(frames[r]) + 1
              /\ \A i \in 1..Len(frames[r]) : frames'[r][i] = frames[r][i]
              /\ frames'[r][Len(frames[r]) + 1] = f
            BY <2>3, <3>1
        <3>3. ASSUME NEW i \in 1..Len(frames'[r]), i > Len(frames[r])
              PROVE  Outstanding(frames[r][i])'
            <4>1. i = Len(frames[r]) + 1
                BY <3>2, <3>3
            <4>2. frames'[r][i] = f
                BY <3>2, <4>1
            <4> QED BY <2>5, <4>2 DEF Outstanding
        <3>4. Len(frames[r]) <= Len(frames'[r])
            BY <3>2
        <3> QED BY <3>1, <3>2, <3>3, <3>4 DEF Extended
    <2> QED BY <2>7, <2>8
<1> QED BY <1>1, <1>2

\* A broadcast reaches every subscriber of the frame's room.
LEMMA BroadcastReaches ==
    ASSUME got \in [Sessions -> SUBSET Frame], NEW t \in Tasks, NEW h \in RoomAction,
           h = Head(pending[t]), ExecStorage(t) \/ ExecBroadcastToRoom(t)
    PROVE  /\ got' \in [Sessions -> SUBSET Frame]
           /\ \A s \in Sessions : got[s] \subseteq got'[s]
           /\ \A f \in Frame : h = Broadcast(f) =>
                 \A s \in Sessions : s \in SessionsInRoom(f.room) => f \in got'[s]
<1>1. CASE ExecStorage(t)
    <2>1. got' = got /\ h.type # "Broadcast"
        BY <1>1 DEF ExecStorage, ExecPersist, ExecPersistState, ExecFailed, feedVars
    <2> QED BY <2>1 DEF Broadcast
<1>2. CASE ExecBroadcastToRoom(t)
    <2>1. PICK f : f = h.frame
        OBVIOUS
    <2>2. /\ h.type = "Broadcast"
          /\ got' = [s \in Sessions |-> IF s \in SessionsInRoom(f.room) THEN got[s] \cup {f}
                                                                    ELSE got[s]]
        BY <1>2, <2>1 DEF ExecBroadcastToRoom, ExecBroadcast, Audience
    <2>3. f \in Frame
        BY <2>1, <2>2 DEF RoomAction
    <2>4. \A g : h = Broadcast(g) => g = f
        BY <2>1 DEF Broadcast
    <2> QED BY <2>2, <2>3, <2>4
<1> QED BY <1>1, <1>2

\* A room action is executed: a frame may be appended to its log, to be broadcast
\* by the same list, or a frame reaches every subscriber of its room.
LEMMA ExecStep ==
    ASSUME FeedInvariant, RoomsTypeOK, NEW t \in Tasks,
           ExecStorage(t) \/ ExecBroadcastToRoom(t)
    PROVE  FeedInvariant'
<1>1. /\ FeedTypeOK /\ BroadcastFollows /\ RegistryTypeOK
      /\ got \in [Sessions -> SUBSET Frame]
      /\ \A s \in Sessions : s \in unused => ~HasSession(s)
    BY FeedParts
<1>2. /\ pending[t] # <<>> /\ ~Answering(t)
      /\ pending' = [pending EXCEPT ![t] = Tail(pending[t])]
      /\ paging' = paging /\ unused' = unused
      /\ UNCHANGED subscriptionVars
    BY DEF ExecStorage, ExecBroadcastToRoom, ExecPersist, ExecPersistState, ExecFailed,
           ExecBroadcast, Executing, Advance, Answering, IsAnswer, feedVars
<1>3. PICK h : h = Head(pending[t])
    OBVIOUS
<1>4. /\ pending' \in [Tasks -> Seq(RoomAction \cup Answer)]
      /\ \A u \in Tasks : Answering(u)' => Len(pending'[u]) = 1
      /\ BroadcastFollows'
      /\ NoNewAnswers
      /\ h \in RoomAction
      /\ \A f : Outstanding(f) => Outstanding(f)' \/ h = Broadcast(f)
      /\ \A f : h.type = "PersistFrame" /\ f = h.frame => Outstanding(f)'
    BY <1>1, <1>2, <1>3, ShorterList
<1>5. /\ RegistryTypeOK'
      /\ \A r \in Rooms : SessionsInRoom(r)' = SessionsInRoom(r)
      /\ \A s \in Sessions : HasSession(s)' <=> HasSession(s)
    BY <1>1, <1>2, SameRegistry
<1>6. \A r \in Rooms : Extended(r)
    BY <1>3, <1>4, StoredIsFollowed
<1>7. /\ got' \in [Sessions -> SUBSET Frame]
      /\ \A s \in Sessions : got[s] \subseteq got'[s]
      /\ \A f \in Frame : h = Broadcast(f) =>
            \A s \in Sessions : s \in SessionsInRoom(f.room) => f \in got'[s]
    BY <1>1, <1>3, <1>4, BroadcastReaches
<1>8. FeedTypeOK'
    BY <1>2, <1>4, <1>5, <1>7, FeedTyped, FeedParts
<1>9. ASSUME NEW s \in Sessions, NEW r \in Rooms
      PROVE  FeedOf(s, r)'
    <2>1. FeedOf(s, r) /\ paging[s][r] \in Paging /\ paging[s][r].covered \in BOOLEAN
        BY FeedParts
    <2>2. Extended(r) /\ got[s] \subseteq got'[s]
        BY <1>6, <1>7
    <2>3. ASSUME NEW i \in 1..Len(frames[r]), Outstanding(frames[r][i]),
                 s \in SessionsInRoom(r)
          PROVE  frames[r][i] \in got'[s] \/ Outstanding(frames[r][i])'
        <3>1. PICK f : f = frames[r][i] /\ f = frames'[r][i]
            BY <2>2 DEF Extended
        <3>2. frames[r] \in Seq(Frame) /\ f.room = r
            BY <3>1 DEF RoomsTypeOK
        <3>3. f \in Frame
            <4>1. frames[r][i] \in Frame
                BY <3>2
            <4> QED BY <3>1, <4>1
        <3>4. CASE h = Broadcast(f)
            BY <1>7, <2>3, <3>1, <3>2, <3>3, <3>4
        <3>5. CASE h # Broadcast(f)
            <4>1. Outstanding(f)'
                BY <1>4, <2>3, <3>1, <3>5
            <4> QED BY <3>1, <4>1 DEF Outstanding
        <3> QED BY <3>4, <3>5
    <2>4. \A u \in Tasks : AnswerFor(u, s, r)' => AnswerFor(u, s, r) /\ pending'[u] = pending[u]
        BY <1>4 DEF NoNewAnswers, NoNewAnswersFor
    <2>5. /\ paging'[s][r] = paging[s][r]
          /\ unused' \subseteq unused
          /\ s \in SessionsInRoom(r) => s \in SessionsInRoom(r)'
          /\ HasSession(s)' => HasSession(s)
        BY <1>2, <1>5
    <2>6. s \in SessionsInRoom(r) =>
              \A i \in 1..Len(frames[r]) : Outstanding(frames[r][i]) =>
                  frames[r][i] \in got'[s] \/ Outstanding(frames[r][i])'
        BY <2>3
    <2> QED BY <2>1, <2>2, <2>4, <2>5, <2>6, FeedStays
<1>10. \A s \in Sessions : s \in unused' => ~HasSession(s)'
    BY <1>1, <1>2, <1>5
<1> QED BY <1>4, <1>8, <1>9, <1>10 DEF FeedInvariant
=============================================================================
