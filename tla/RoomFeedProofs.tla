--------------------------- MODULE RoomFeedProofs ---------------------------
(***************************************************************************)
(* Proofs about RoomFeed: requests and answers keep its invariant too; it  *)
(* implements RoomPipeline; and a session that has caught up misses        *)
(* nothing of a room.                                                      *)
(***************************************************************************)
EXTENDS RoomFeedInvariant

-----------------------------------------------------------------------------
(* Requests and answers.                                                   *)

\* A part of a list.
LEMMA PartOfList ==
    ASSUME NEW S, NEW s \in Seq(S), NEW m \in Nat, NEW n \in Nat, m <= n, n <= Len(s)
    PROVE  /\ SubSeq(s, m + 1, n) \in Seq(S)
           /\ Len(SubSeq(s, m + 1, n)) = n - m
           /\ \A k \in 1..(n - m) : SubSeq(s, m + 1, n)[k] = s[m + k]
<1>1. \A k \in (m + 1)..n : s[k] \in S
    OBVIOUS
<1> QED BY <1>1

\* A page of the log that handle_sync_request loads: it continues where the asking
\* session is, and without has_more it ends where the log ends.
LEMMA PageOfLog ==
    ASSUME NEW r \in Rooms, frames[r] \in Seq(Frame), NEW from \in Nat, from <= Len(frames[r])
    PROVE  LET loaded == LoadFrames(r, from, LIMIT) IN
           /\ loaded \in Seq(Frame)
           /\ from + Len(loaded) <= Len(frames[r])
           /\ \A j \in 1..Len(loaded) : loaded[j] = frames[r][from + j]
           /\ ~HasMore(r, from, loaded) => from + Len(loaded) = Len(frames[r])
<1> DEFINE loaded == LoadFrames(r, from, LIMIT)
<1>1. PICK n \in Nat : n = Len(frames[r]) /\ from <= n
    OBVIOUS
<1>2. PICK end \in Nat : /\ end = (IF from + LIMIT < n THEN from + LIMIT ELSE n)
                         /\ end <= n /\ from <= end /\ (from < n => from < end)
    BY <1>1, FeedAssumption
<1>3. loaded = SubSeq(frames[r], from + 1, end)
    BY <1>1, <1>2 DEF LoadFrames
<1>6. /\ loaded \in Seq(Frame)
      /\ Len(loaded) = end - from
      /\ \A j \in 1..(end - from) : loaded[j] = frames[r][from + j]
    BY <1>1, <1>2, <1>3, PartOfList
<1>7. from + Len(loaded) = end
    BY <1>2, <1>6
<1>8. ASSUME ~HasMore(r, from, loaded)
      PROVE  end = n
    <2>1. CASE from = n
        BY <1>2, <2>1
    <2>2. CASE from < n
        <3>1. Len(loaded) > 0 /\ n > 0
            BY <1>2, <1>6, <2>2
        <3>2. loaded # <<>> /\ frames[r] # <<>>
            BY <1>1, <3>1
        <3>3. LastLoaded(from, loaded) = end - 1
            BY <1>2, <1>6, <3>2 DEF LastLoaded
        <3>4. ~(end - 1 < n - 1)
            BY <1>1, <1>8, <3>2, <3>3 DEF HasMore
        <3> QED BY <1>2, <3>4
    <2> QED BY <1>1, <2>1, <2>2
<1> HIDE DEF loaded
<1>9. /\ loaded \in Seq(Frame)
      /\ from + Len(loaded) <= Len(frames[r])
      /\ \A j \in 1..Len(loaded) : loaded[j] = frames[r][from + j]
      /\ ~HasMore(r, from, loaded) => from + Len(loaded) = Len(frames[r])
    BY <1>1, <1>2, <1>6, <1>7, <1>8
<1> QED BY <1>9 DEF loaded

\* An answer for c about q: a response goes on behind the first n frames of the log,
\* and without has_more to its end.
IsNextPageFor(c, q, n, a) ==
    /\ a.session = c
    /\ a.room = q
    /\ "frames" \in DOMAIN a =>
          /\ a.frames \in Seq(Frame)
          /\ n + Len(a.frames) <= Len(frames[q])
          /\ \A j \in 1..Len(a.frames) : a.frames[j] = frames[q][n + j]
          /\ ~a.has_more => n + Len(a.frames) = Len(frames[q])

\* What handle_sync_request answers: the page after what the session has had, or an
\* error.
LEMMA RequestAnswer ==
    ASSUME FeedInvariant, RoomsTypeOK, NEW t \in Tasks, NEW q \in Rooms,
           HandleSyncRequest(t, q), NEW c \in Sessions, c = StreamOf[t],
           NEW p \in Paging, p = paging[c][q]
    PROVE  \E a \in Answer : Return(t, <<a>>) /\ IsNextPageFor(c, q, p.next, a)
<1>2. PICK a \in SyncAnswers(c, q, p.next) : Return(t, <<a>>)
    BY DEF HandleSyncRequest
<1>3. frames[q] \in Seq(Frame) /\ p.next \in Nat /\ p.next <= Len(frames[q])
    BY DEF RoomsTypeOK, FeedInvariant, FeedOf, PagesHeld, Paging
<1> DEFINE l == LoadFrames(q, p.next, LIMIT)
           m == HasMore(q, p.next, l)
<1>4. /\ l \in Seq(Frame)
      /\ p.next + Len(l) <= Len(frames[q])
      /\ \A j \in 1..Len(l) : l[j] = frames[q][p.next + j]
      /\ ~m => p.next + Len(l) = Len(frames[q])
    BY <1>3, PageOfLog
<1>5. a = SyncResponse(c, q, l, m) \/ a = SyncError(c, q)
    BY Answers
<1>6. m \in BOOLEAN
    BY DEF HasMore
<1> HIDE DEF l, m
<1>7. CASE a = SyncResponse(c, q, l, m)
    <2>1. /\ a \in Answer
          /\ a.session = c /\ a.room = q /\ a.frames = l
        BY <1>4, <1>6, <1>7 DEF SyncResponse, Answer
    <2>2. a.has_more = m
        BY <1>7 DEF SyncResponse
    <2>3. IsNextPageFor(c, q, p.next, a)
        BY <1>4, <2>1, <2>2 DEF IsNextPageFor
    <2> QED BY <1>2, <2>1, <2>3
<1>8. CASE a = SyncError(c, q)
    <2>1. /\ a \in Answer
          /\ a.session = c /\ a.room = q /\ "frames" \notin DOMAIN a
        BY <1>8 DEF SyncError, Answer
    <2> QED BY <1>2, <2>1 DEF IsNextPageFor
<1> QED BY <1>5, <1>7, <1>8

\* A task that had nothing to execute gets an answer to send.
LEMMA NewAnswer ==
    ASSUME FeedTypeOK, BroadcastFollows, NEW t \in Tasks, pending[t] = <<>>,
           NEW a \in Answer, pending' = [pending EXCEPT ![t] = <<a>>]
    PROVE  /\ pending' \in [Tasks -> Seq(RoomAction \cup Answer)]
           /\ \A u \in Tasks : Answering(u)' => Len(pending'[u]) = 1
           /\ BroadcastFollows'
           /\ BroadcastsStay
           /\ Head(pending'[t]) = a
           /\ \A s \in Sessions, r \in Rooms : a.session # s \/ a.room # r =>
                 NoNewAnswersFor(s, r)
           /\ \A u \in Tasks : \A s \in Sessions : \A r \in Rooms :
                 u # t => (AnswerFor(u, s, r)' <=> AnswerFor(u, s, r))
<1>1. IsAnswer(a) /\ a \in RoomAction \cup Answer
    BY ActionKinds
<1>2. PICK list : /\ list = <<a>> /\ list \in Seq(RoomAction \cup Answer)
                  /\ Len(list) = 1 /\ list[1] = a /\ Head(list) = a
    <2>1. <<a>> \in Seq(RoomAction \cup Answer)
        BY <1>1
    <2>2. Len(<<a>>) = 1 /\ <<a>>[1] = a /\ Head(<<a>>) = a
        OBVIOUS
    <2> QED BY <2>1, <2>2
<1>3. Followed(list)
    BY <1>1, <1>2 DEF Followed, IsAnswer
<1>4. pending' = [pending EXCEPT ![t] = list]
    BY <1>2
<1>5. /\ pending' \in [Tasks -> Seq(RoomAction \cup Answer)]
      /\ \A u \in Tasks : Answering(u)' => Len(pending'[u]) = 1
      /\ BroadcastFollows'
      /\ pending'[t] = list
      /\ \A u \in Tasks : u # t => pending'[u] = pending[u]
      /\ \A u \in Tasks : \A s \in Sessions : \A r \in Rooms :
            u # t => (AnswerFor(u, s, r)' <=> AnswerFor(u, s, r))
      /\ \A f : Outstanding(f) =>
            Outstanding(f)' \/ \E k \in 1..Len(pending[t]) : pending[t][k] = Broadcast(f)
    <2>1. list \in Seq(RoomAction \cup Answer) /\ Len(list) = 1
        BY <1>2
    <2> QED BY <1>3, <1>4, <2>1, OneList
<1>6. BroadcastsStay
    BY <1>5 DEF BroadcastsStay
<1>7. ASSUME NEW s \in Sessions, NEW r \in Rooms, a.session # s \/ a.room # r
      PROVE  NoNewAnswersFor(s, r)
    <2>1. ~AnswerFor(t, s, r)'
        BY <1>2, <1>5, <1>7 DEF AnswerFor
    <2> QED BY <1>5, <2>1 DEF NoNewAnswersFor
<1> QED BY <1>2, <1>5, <1>6, <1>7

\* A request is answered.  The session was not waiting, so nothing else is under
\* way to it about this room.
LEMMA RequestStep ==
    ASSUME FeedInvariant, RoomsTypeOK, NEW t \in Tasks, NEW q \in Rooms,
           HandleSyncRequest(t, q)
    PROVE  FeedInvariant'
<1>1. PICK c \in Sessions : c = StreamOf[t]
    BY FeedAssumption
<1>2. PICK p \in Paging : p = paging[c][q]
    BY FeedParts
<1>3. /\ p.phase # "waiting" /\ HasSession(c) /\ pending[t] = <<>>
      /\ got' = got /\ frames' = frames /\ unused' = unused
      /\ UNCHANGED subscriptionVars
    BY <1>1, <1>2 DEF HandleSyncRequest, Ready, storageVars
<1>4. PICK a \in Answer : /\ Return(t, <<a>>)
                         /\ IsNextPageFor(c, q, p.next, a)
    <2>1. \E a \in Answer : Return(t, <<a>>) /\ IsNextPageFor(c, q, p.next, a)
        BY <1>1, <1>2, RequestAnswer
    <2> QED BY <2>1
<1>5. /\ pending' \in [Tasks -> Seq(RoomAction \cup Answer)]
      /\ \A u \in Tasks : Answering(u)' => Len(pending'[u]) = 1
      /\ BroadcastFollows'
      /\ BroadcastsStay
      /\ Head(pending'[t]) = a
      /\ \A s \in Sessions, r \in Rooms : c # s \/ q # r => NoNewAnswersFor(s, r)
      /\ \A u \in Tasks : \A s \in Sessions : \A r \in Rooms :
            u # t => (AnswerFor(u, s, r)' <=> AnswerFor(u, s, r))
    <2>1. FeedTypeOK /\ BroadcastFollows
        BY FeedParts
    <2>2. pending' = [pending EXCEPT ![t] = <<a>>] /\ pending[t] = <<>>
        BY <1>3, <1>4 DEF Return
    <2>3. a.session = c /\ a.room = q
        BY <1>4 DEF IsNextPageFor
    <2> QED BY <2>1, <2>2, <2>3, NewAnswer
<1>6. PICK n \in Paging :
          /\ paging' = [paging EXCEPT ![c][q] = n]
          /\ n.next = p.next /\ n.phase = "waiting"
          /\ n.covered <=> c \in SessionsInRoom(q)
    <2> DEFINE b == c \in SessionsInRoom(q)
    <2>1. b \in BOOLEAN
        OBVIOUS
    <2> HIDE DEF b
    <2>2. PICK n : n = [p EXCEPT !.phase = "waiting", !.covered = b]
        OBVIOUS
    <2>3. n \in Paging
        BY <2>1, <2>2 DEF Paging
    <2>4. n.next = p.next /\ n.phase = "waiting"
        BY <2>2 DEF Paging
    <2>5. n.covered = b
        BY <2>2 DEF Paging
    <2>6. paging' = [paging EXCEPT ![c][q] = n]
        <3>1. paging' = [paging EXCEPT ![c][q].phase = "waiting", ![c][q].covered = b]
            BY <1>1 DEF HandleSyncRequest, b
        <3>2. paging \in [Sessions -> [Rooms -> Paging]]
            BY FeedParts
        <3> QED BY <1>2, <2>2, <3>1, <3>2
    <2> QED BY <2>3, <2>4, <2>5, <2>6 DEF b
<1>7. paging'[c][q] = n
    BY <1>6, FeedParts
<1>8. FeedOf(c, q)'
    <2>1. FeedOf(c, q)
        BY FeedParts
    <2>2. (paging[c][q].covered => c \in SessionsInRoom(q))'
        BY <1>3, <1>6, <1>7, SameRegistry, FeedParts
    <2>3. PagesHeld(c, q)'
        BY <1>2, <1>3, <1>6, <1>7, <2>1 DEF PagesHeld, FeedOf
    <2>4. CaughtUp(c, q)'
        BY <1>6, <1>7 DEF CaughtUp
    <2>5. c \notin unused'
        BY <1>3, FeedParts
    <2>6. ASSUME NEW u \in Tasks, AnswerFor(u, c, q)', u # t
          PROVE  FALSE
        <3>1. AnswerFor(u, c, q)
            BY <1>5, <2>6
        <3>2. Waits(c, q, u)
            BY <2>1, <3>1 DEF FeedOf
        <3> QED BY <1>2, <1>3, <3>2 DEF Waits
    <2>7. ASSUME "frames" \in DOMAIN a
          PROVE  Fits(c, q, a)'
        <3>1. PICK m \in Nat, h \in Nat : m = p.next /\ h = Len(frames[q])
            BY DEF RoomsTypeOK, Paging
        <3>2. PICK k \in Nat :
                  /\ k = Len(a.frames) /\ a.frames \in Seq(Frame)
                  /\ m + k <= h
                  /\ \A j \in 1..k : a.frames[j] = frames[q][m + j]
                  /\ ~a.has_more => m + k = h
            <4>1. IsNextPageFor(c, q, m, a)
                BY <1>4, <3>1
            <4>2. a.frames \in Seq(Frame)
                BY <2>7, <4>1 DEF IsNextPageFor
            <4>3. Len(a.frames) \in Nat
                BY <4>2
            <4>4. m + Len(a.frames) <= h
                BY <2>7, <3>1, <4>1 DEF IsNextPageFor
            <4>5. \A j \in 1..Len(a.frames) : a.frames[j] = frames[q][m + j]
                BY <2>7, <3>1, <4>1 DEF IsNextPageFor
            <4>6. ~a.has_more => m + Len(a.frames) = h
                BY <2>7, <3>1, <4>1 DEF IsNextPageFor
            <4> QED BY <4>2, <4>3, <4>4, <4>5, <4>6
        <3>3. m + k = h => \A i \in 1..h : ~(i > m + k)
            OBVIOUS
        <3> QED BY <1>3, <1>6, <1>7, <3>1, <3>2, <3>3 DEF Fits
    <2>8. Waits(c, q, t)'
        <3>1. "frames" \in DOMAIN Head(pending'[t]) => Fits(c, q, Head(pending[t]))'
            <4> SUFFICES ASSUME "frames" \in DOMAIN a PROVE Fits(c, q, Head(pending[t]))'
                BY <1>5
            <4>1. Fits(c, q, a)'
                BY <2>7
            <4> QED BY <1>5, <4>1 DEF Fits
        <3> QED BY <1>6, <1>7, <2>5, <2>6, <3>1 DEF Waits
    <2> QED BY <2>2, <2>3, <2>4, <2>6, <2>8 DEF FeedOf
<1>9. got' = [got EXCEPT ![c] = got[c] \cup {}] /\ {} \in SUBSET Frame
    BY <1>3, FeedParts
<1> QED BY <1>3, <1>5, <1>6, <1>8, <1>9, OnePaging

\* Sending an answer empties the list of its task and takes no broadcast away.
LEMMA AnswerGone ==
    ASSUME FeedTypeOK, BroadcastFollows, NEW t \in Tasks, Answering(t),
           pending' = [pending EXCEPT ![t] = Tail(pending[t])]
    PROVE  /\ pending' \in [Tasks -> Seq(RoomAction \cup Answer)]
           /\ \A u \in Tasks : Answering(u)' => Len(pending'[u]) = 1
           /\ BroadcastFollows'
           /\ BroadcastsStay
           /\ NoNewAnswers
           /\ \A s \in Sessions, r \in Rooms : ~AnswerFor(t, s, r)'
           /\ Head(pending[t]) \in Answer
<1>1. /\ pending[t] \in Seq(RoomAction \cup Answer) /\ Len(pending[t]) = 1
      /\ pending[t] # <<>> /\ IsAnswer(Head(pending[t]))
    BY DEF FeedTypeOK, Answering
<1>2. PICK a : a = Head(pending[t])
    OBVIOUS
<1>3. a \in RoomAction \cup Answer /\ a = pending[t][1]
    BY <1>1, <1>2, HeadAndTail
<1>4. a \in Answer
    BY <1>1, <1>2, <1>3, ActionKinds
<1>5. Tail(pending[t]) = <<>>
    BY <1>1, TailOfOne
<1>6. PICK list : /\ list = <<>> /\ list \in Seq(RoomAction \cup Answer)
                  /\ pending' = [pending EXCEPT ![t] = list] /\ Followed(list)
    <2>1. <<>> \in Seq(RoomAction \cup Answer) /\ Len(<<>>) = 0
        OBVIOUS
    <2>2. Followed(<<>>)
        BY <2>1 DEF Followed
    <2> QED BY <1>5, <2>1, <2>2
<1>7. /\ pending' \in [Tasks -> Seq(RoomAction \cup Answer)]
      /\ \A u \in Tasks : Answering(u)' => Len(pending'[u]) = 1
      /\ BroadcastFollows'
      /\ pending'[t] = list
      /\ \A u \in Tasks : u # t => pending'[u] = pending[u]
      /\ \A u \in Tasks : \A s \in Sessions : \A r \in Rooms :
            u # t => (AnswerFor(u, s, r)' <=> AnswerFor(u, s, r))
      /\ \A f : Outstanding(f) =>
            Outstanding(f)' \/ \E k \in 1..Len(pending[t]) : pending[t][k] = Broadcast(f)
    BY <1>6, OneList
<1>8. BroadcastsStay
    <2>1. ASSUME NEW f, NEW k \in 1..Len(pending[t]), pending[t][k] = Broadcast(f)
          PROVE  FALSE
        <3>1. k = 1
            BY <1>1
        <3> QED BY <1>1, <1>2, <1>3, <2>1, <3>1, ActionKinds
    <2> QED BY <1>7, <2>1 DEF BroadcastsStay
<1>9. \A s \in Sessions, r \in Rooms : ~AnswerFor(t, s, r)'
    BY <1>6, <1>7 DEF AnswerFor, Answering
<1>10. NoNewAnswers
    BY <1>7, <1>9 DEF NoNewAnswers, NoNewAnswersFor
<1> QED BY <1>2, <1>4, <1>7, <1>8, <1>9, <1>10

\* The positions up to the end of a page are those before it and those in it.
LEMMA PageBounds ==
    ASSUME NEW m \in Nat, NEW k \in Nat
    PROVE  /\ \A i \in 1..(m + k) : i \in 1..m \/ \E j \in 1..k : i = m + j
           /\ \A h \in Nat : \A i \in 1..h : i \in 1..(m + k) \/ i > m + k
<1>1. ASSUME NEW i \in 1..(m + k), i \notin 1..m
      PROVE  \E j \in 1..k : i = m + j
    <2>1. i - m \in 1..k /\ i = m + (i - m)
        BY <1>1
    <2> QED BY <2>1
<1>2. \A h \in Nat : \A i \in 1..h : i \in 1..(m + k) \/ i > m + k
    OBVIOUS
<1> QED BY <1>1, <1>2

\* The session that gets a page holds everything before it and in it, and when it is
\* told that there is no more, everything behind it that it will not get by
\* broadcast.
LEMMA PageArrives ==
    ASSUME RoomsTypeOK, frames' = frames, BroadcastsStay,
           NEW c \in Sessions, NEW q \in Rooms, NEW a, NEW p \in Paging, NEW n \in Paging,
           p = paging[c][q], n = paging'[c][q],
           PagesHeld(c, q), Fits(c, q, a),
           n.next = p.next + Len(a.frames),
           n.phase = "done" => ~a.has_more,
           n.covered = p.covered,
           got'[c] = got[c] \cup Range(a.frames)
    PROVE  PagesHeld(c, q)' /\ CaughtUp(c, q)'
<1>1. PICK m \in Nat, h \in Nat :
          /\ m = p.next /\ h = Len(frames[q])
          /\ \A i \in 1..m : frames[q][i] \in got[c]
    <2>1. p.next \in Nat
        BY DEF Paging
    <2>2. frames[q] \in Seq(Frame)
        BY DEF RoomsTypeOK
    <2>3. Len(frames[q]) \in Nat
        BY <2>2
    <2>4. \A i \in 1..p.next : frames[q][i] \in got[c]
        BY DEF PagesHeld
    <2> QED BY <2>1, <2>3, <2>4
<1>2. PICK l \in Seq(Frame), k \in Nat :
          /\ l = a.frames /\ k = Len(l)
          /\ m + k <= h
          /\ \A j \in 1..k : l[j] = frames[q][m + j]
          /\ p.covered /\ ~a.has_more =>
                \A i \in 1..h : i > m + k => Held(c, q, i)
    <2>1. PICK l \in Seq(Frame), k \in Nat : l = a.frames /\ k = Len(l)
        <3>1. a.frames \in Seq(Frame)
            BY DEF Fits
        <3>2. Len(a.frames) \in Nat
            BY <3>1
        <3> QED BY <3>1, <3>2
    <2>2. m + k <= h
        BY <1>1, <2>1 DEF Fits
    <2>3. \A j \in 1..k : l[j] = frames[q][m + j]
        BY <1>1, <2>1 DEF Fits
    <2>4. p.covered /\ ~a.has_more => \A i \in 1..h : i > m + k => Held(c, q, i)
        BY <1>1, <2>1 DEF Fits
    <2> QED BY <2>1, <2>2, <2>3, <2>4
<1>3. \A j \in 1..k : l[j] \in Range(l)
    BY <1>2 DEF Range
<1>4. \A i \in 1..(m + k) : frames[q][i] \in got'[c]
    <2>1. \A i \in 1..m : frames[q][i] \in got'[c]
        BY <1>1
    <2>2. \A j \in 1..k : frames[q][m + j] \in got'[c]
        BY <1>2, <1>3
    <2> QED BY <2>1, <2>2, PageBounds
<1>5. PagesHeld(c, q)'
    BY <1>1, <1>2, <1>4 DEF PagesHeld
<1>6. CaughtUp(c, q)'
    <2> SUFFICES ASSUME n.phase = "done", n.covered, NEW i \in 1..h
                 PROVE  Held(c, q, i)'
        BY <1>1 DEF CaughtUp
    <2>1. CASE i \in 1..(m + k)
        BY <1>4, <2>1 DEF Held
    <2>2. CASE i > m + k
        <3>1. Held(c, q, i)
            BY <1>2, <2>2
        <3>2. PICK f : f = frames[q][i] /\ f = frames'[q][i]
            OBVIOUS
        <3>3. f \in got'[c] \/ Outstanding(f)'
            BY <3>1, <3>2 DEF Held, BroadcastsStay
        <3> QED BY <3>2, <3>3 DEF Held, Outstanding
    <2>3. i \in 1..(m + k) \/ i > m + k
        BY PageBounds
    <2> QED BY <2>1, <2>2, <2>3
<1> QED BY <1>5, <1>6

\* What an answer makes of the paging.
LEMMA PagingAfter ==
    ASSUME NEW p \in Paging, NEW a, a.frames \in Seq(Frame)
    PROVE  LET n == Continued(p, a) IN
           /\ n \in Paging
           /\ n.next = p.next + Len(a.frames)
           /\ n.phase = "done" => ~a.has_more
           /\ n.covered = p.covered
<1>1. PICK ph \in {"more", "done"} : /\ ph = (IF a.has_more THEN "more" ELSE "done")
                                     /\ ph = "done" => ~a.has_more
    OBVIOUS
<1>2. PICK m \in Nat : m = p.next + Len(a.frames)
    BY DEF Paging
<1>3. PICK n : n = Continued(p, a)
    OBVIOUS
<1>4. n = [p EXCEPT !.next = m, !.phase = ph]
    BY <1>1, <1>2, <1>3 DEF Continued
<1>5. n \in Paging
    BY <1>4 DEF Paging
<1>6. n.next = m /\ n.phase = ph
    BY <1>4 DEF Paging
<1>7. n.covered = p.covered
    BY <1>4 DEF Paging
<1> QED BY <1>1, <1>2, <1>3, <1>5, <1>6, <1>7

\* An answer is sent: the session has one page more, and no other answer about
\* this room is under way to it.
LEMMA SendStep ==
    ASSUME FeedInvariant, RoomsTypeOK, NEW t \in Tasks, ExecSendToSession(t)
    PROVE  FeedInvariant'
<1>1. PICK a : a = Head(pending[t])
    OBVIOUS
<1>2. /\ Answering(t)
      /\ pending' = [pending EXCEPT ![t] = Tail(pending[t])]
      /\ frames' = frames /\ unused' = unused
      /\ UNCHANGED subscriptionVars
    BY DEF ExecSendToSession, Executing, Advance, Answering, storageVars
<1>3. /\ pending' \in [Tasks -> Seq(RoomAction \cup Answer)]
      /\ \A u \in Tasks : Answering(u)' => Len(pending'[u]) = 1
      /\ BroadcastFollows'
      /\ BroadcastsStay
      /\ NoNewAnswers
      /\ \A s \in Sessions, r \in Rooms : ~AnswerFor(t, s, r)'
      /\ a \in Answer
    BY <1>1, <1>2, FeedParts, AnswerGone
<1>4. PICK c \in Sessions, q \in Rooms : c = a.session /\ q = a.room
    BY <1>3 DEF Answer
<1>5. PICK p \in Paging : p = paging[c][q]
    BY FeedParts
<1>6. FeedOf(c, q) /\ PagesHeld(c, q) /\ AnswerFor(t, c, q) /\ Waits(c, q, t)
    BY <1>1, <1>2, <1>4, FeedParts DEF AnswerFor, FeedOf
<1>7. \A s \in Sessions, r \in Rooms : NoNewAnswersFor(s, r)
    BY <1>3 DEF NoNewAnswers
<1>8. ASSUME NEW n \in Paging, NEW new \in SUBSET Frame, HasSession(c),
             paging' = [paging EXCEPT ![c][q] = n],
             got' = [got EXCEPT ![c] = got[c] \cup new],
             n.covered = p.covered,
             PagesHeld(c, q)', CaughtUp(c, q)'
      PROVE  FeedInvariant'
    <2>1. paging'[c][q] = n
        BY <1>8, FeedParts
    <2>2. p.covered => c \in SessionsInRoom(q)
        BY <1>5, <1>6 DEF FeedOf
    <2>3. (paging[c][q].covered => c \in SessionsInRoom(q))'
        BY <1>2, <1>8, <2>1, <2>2, FeedParts, SameRegistry
    <2>4. ASSUME NEW u \in Tasks, AnswerFor(u, c, q)'
          PROVE  FALSE
        <3>1. AnswerFor(u, c, q)
            BY <1>7, <2>4 DEF NoNewAnswersFor
        <3>2. u = t
            BY <1>6, <1>8, <3>1 DEF Waits
        <3> QED BY <1>3, <2>4, <3>2
    <2>5. FeedOf(c, q)'
        BY <1>8, <2>3, <2>4 DEF FeedOf
    <2> QED BY <1>2, <1>3, <1>7, <1>8, <2>5, OnePaging
<1>9. CASE ~HasSession(c)
    <2>1. paging' = paging /\ got' = got
        BY <1>1, <1>4, <1>9 DEF ExecSendToSession
    <2>2. /\ RegistryTypeOK'
          /\ \A r \in Rooms : SessionsInRoom(r)' = SessionsInRoom(r)
          /\ \A s \in Sessions : HasSession(s)' <=> HasSession(s)
        BY <1>2, FeedParts, SameRegistry
    <2>3. FeedTypeOK'
        BY <1>2, <1>3, <2>1, <2>2, FeedParts, FeedTyped
    <2>4. ASSUME NEW s \in Sessions, NEW r \in Rooms
          PROVE  FeedOf(s, r)'
        <3>1. paging[s][r].covered \in BOOLEAN /\ NoNewAnswersFor(s, r)
            BY <1>7, FeedParts
        <3> QED BY <1>2, <1>3, <2>1, <2>2, <3>1, PairStays
    <2> QED BY <1>2, <1>3, <2>2, <2>3, <2>4, FeedParts DEF FeedInvariant
<1>10. CASE HasSession(c) /\ "frames" \in DOMAIN a
    <2>1. Fits(c, q, a) /\ a.frames \in Seq(Frame)
        BY <1>1, <1>6, <1>10 DEF Waits, Fits
    <2>2. /\ paging' = [paging EXCEPT ![c][q] = Continued(p, a)]
          /\ got' = [got EXCEPT ![c] = got[c] \cup Range(a.frames)]
        BY <1>1, <1>4, <1>5, <1>10 DEF ExecSendToSession
    <2>3. PICK n \in Paging :
              /\ n = Continued(p, a)
              /\ n.next = p.next + Len(a.frames)
              /\ n.phase = "done" => ~a.has_more
              /\ n.covered = p.covered
        BY <2>1, PagingAfter
    <2>4. Range(a.frames) \in SUBSET Frame
        BY <2>1 DEF Range
    <2>5. paging'[c][q] = n /\ got'[c] = got[c] \cup Range(a.frames)
        BY <2>2, <2>3, FeedParts
    <2>6. PagesHeld(c, q)' /\ CaughtUp(c, q)'
        BY <1>2, <1>3, <1>5, <1>6, <2>1, <2>3, <2>5, PageArrives
    <2> QED BY <1>8, <1>10, <2>2, <2>3, <2>4, <2>6
<1>11. CASE HasSession(c) /\ "frames" \notin DOMAIN a
    <2>1. /\ paging' = [paging EXCEPT ![c][q].phase = "idle"]
          /\ got' = got
        BY <1>1, <1>4, <1>11 DEF ExecSendToSession
    <2>2. PICK n : n = [p EXCEPT !.phase = "idle"]
        OBVIOUS
    <2>3. n \in Paging
        BY <2>2 DEF Paging
    <2>4. n.next = p.next /\ n.phase = "idle"
        BY <2>2 DEF Paging
    <2>5. n.covered = p.covered
        BY <2>2 DEF Paging
    <2>6. paging' = [paging EXCEPT ![c][q] = n]
        BY <1>5, <2>1, <2>2
    <2>7. paging'[c][q] = n
        BY <2>6, FeedParts
    <2>8. got' = [got EXCEPT ![c] = got[c] \cup {}] /\ {} \in SUBSET Frame
        BY <2>1, FeedParts
    <2>9. PagesHeld(c, q)'
        BY <1>2, <1>5, <1>6, <2>1, <2>4, <2>7 DEF PagesHeld
    <2>10. CaughtUp(c, q)'
        BY <2>4, <2>7 DEF CaughtUp
    <2> QED BY <1>8, <1>11, <2>3, <2>5, <2>6, <2>8, <2>9, <2>10
<1> QED BY <1>9, <1>10, <1>11

\* Every step keeps the invariant.
LEMMA FeedNextKeeps ==
    ASSUME FeedInvariant, RoomsTypeOK, RoomsTypeOK', [FeedNext]_<<vars, feedVars>>
    PROVE  FeedInvariant'
<1>1. CASE UNCHANGED <<vars, feedVars>>
    <2>1. /\ paging' = paging /\ got' = got /\ frames' = frames /\ pending' = pending
          /\ unused' = unused /\ UNCHANGED subscriptionVars
        BY <1>1 DEF vars, feedVars, storageVars, runtimeVars
    <2>2. /\ pending' \in [Tasks -> Seq(RoomAction \cup Answer)]
          /\ \A u \in Tasks : Answering(u)' => Len(pending'[u]) = 1
          /\ BroadcastFollows'
          /\ NoNewAnswers
          /\ BroadcastsStay
        BY <2>1, FeedParts, SameLists
    <2>3. /\ RegistryTypeOK'
          /\ \A r \in Rooms : SessionsInRoom(r)' = SessionsInRoom(r)
          /\ \A s \in Sessions : HasSession(s)' <=> HasSession(s)
        BY <2>1, FeedParts, SameRegistry
    <2>4. FeedTypeOK'
        BY <2>1, <2>2, <2>3, FeedParts, FeedTyped
    <2>5. ASSUME NEW s \in Sessions, NEW r \in Rooms
          PROVE  FeedOf(s, r)'
        <3>1. paging[s][r].covered \in BOOLEAN /\ NoNewAnswersFor(s, r)
            BY <2>2, FeedParts DEF NoNewAnswers
        <3> QED BY <2>1, <2>2, <2>3, <3>1, PairStays
    <2> QED BY <2>1, <2>2, <2>3, <2>4, <2>5, FeedParts DEF FeedInvariant
<1>2. CASE FeedNext
    BY <1>2, FrameStep, RequestStep, ExecStep, SendStep, EntryStep, CloseStep, LeaveStep
    DEF FeedNext, ExecFeed
<1> QED BY <1>1, <1>2

\* Nobody is connected and nothing stored in the beginning.
LEMMA FeedInitInvariant ==
    ASSUME FeedInit
    PROVE  FeedInvariant
<1>1. /\ pending = [t \in Tasks |-> <<>>]
      /\ frames = [r \in Rooms |-> <<>>]
      /\ unused = Sessions
      /\ paging = [s \in Sessions |-> NoPaging]
      /\ got = [s \in Sessions |-> {}]
      /\ RegistryInit
    BY DEF FeedInit, Init, StorageInit
<1>2. /\ NoPaging \in [Rooms -> Paging]
      /\ \A r \in Rooms : /\ NoPaging[r].next = 0 /\ NoPaging[r].phase = "idle"
                          /\ NoPaging[r].covered = FALSE
    BY DEF NoPaging, Paging
<1>3. /\ RegistryTypeOK
      /\ \A s \in Sessions : ~HasSession(s)
    BY <1>1 DEF RegistryInit, RegistryTypeOK, HasSession
<1>4. \A t \in Tasks : pending[t] = <<>> /\ ~Answering(t) /\ Followed(pending[t])
    BY <1>1 DEF Answering, Followed
<1>5. pending \in [Tasks -> Seq(RoomAction \cup Answer)]
    BY <1>1
<1>6. FeedTypeOK
    BY <1>1, <1>2, <1>3, <1>4, <1>5 DEF FeedTypeOK
<1>7. ASSUME NEW s \in Sessions, NEW r \in Rooms
      PROVE  FeedOf(s, r)
    <2>1. /\ paging[s][r].next = 0 /\ paging[s][r].phase = "idle"
          /\ paging[s][r].covered = FALSE
        BY <1>1, <1>2
    <2>2. frames[r] = <<>> /\ Len(<<>>) = 0
        BY <1>1
    <2>3. PagesHeld(s, r)
        BY <2>1, <2>2 DEF PagesHeld
    <2>4. CaughtUp(s, r)
        BY <2>1 DEF CaughtUp
    <2> QED BY <1>4, <2>1, <2>3, <2>4 DEF FeedOf, AnswerFor
<1> QED BY <1>3, <1>4, <1>6, <1>7 DEF FeedInvariant, BroadcastFollows

-----------------------------------------------------------------------------
(***************************************************************************)
(* The refinement.  A task that has an answer to send has, for             *)
(* RoomPipeline, nothing to execute and does not hold the lock.            *)
(***************************************************************************)
RoomPending == [t \in Tasks |-> IF Answering(t) THEN <<>> ELSE pending[t]]

RoomLock == IF \E t \in Tasks : lock = t /\ Answering(t) THEN Free ELSE lock

P == INSTANCE RoomPipelineProofs WITH pending <- RoomPending, lock <- RoomLock

-----------------------------------------------------------------------------
(* RoomFeed implements RoomPipeline.                                       *)

\* The mapping changes only the lists and the lock.
LEMMA SameData ==
    /\ P!Frame = Frame
    /\ P!RoomAction = RoomAction
    /\ P!Incoming = Incoming
    /\ \A f : /\ P!Sequenced(f) = Sequenced(f)
              /\ P!Broadcast(f) = Broadcast(f)
              /\ P!Persist(f) = Persist(f)
              /\ P!MessageActions(f) = MessageActions(f)
    /\ \A f, st : P!CommitActions(f, st) = CommitActions(f, st)
    /\ \A g : P!ExportState(g) = ExportState(g)
    /\ \A g, ms : P!Merged(g, ms) = Merged(g, ms)
<1>1. P!Frame = Frame /\ P!Incoming = Incoming
    BY DEF P!Frame, Frame, P!Incoming, Incoming
<1>2. P!RoomAction = RoomAction
    BY <1>1 DEF P!RoomAction, RoomAction, P!MlsGroupState, MlsGroupState
<1>3. ASSUME NEW f
      PROVE  /\ P!Sequenced(f) = Sequenced(f)
             /\ P!Broadcast(f) = Broadcast(f)
             /\ P!Persist(f) = Persist(f)
             /\ P!MessageActions(f) = MessageActions(f)
    BY DEF P!Sequenced, Sequenced, P!NextIndex, NextIndex, P!NextFromStorage, NextFromStorage,
           P!Broadcast, Broadcast, P!Persist, Persist, P!MessageActions, MessageActions
<1>4. ASSUME NEW f, NEW st
      PROVE  P!CommitActions(f, st) = CommitActions(f, st)
    BY <1>3 DEF P!CommitActions, CommitActions, P!PersistState, PersistState
<1>5. \A g : P!ExportState(g) = ExportState(g)
    BY DEF P!ExportState, ExportState
<1>6. \A g, ms : P!Merged(g, ms) = Merged(g, ms)
    BY DEF P!Merged, Merged
<1> QED BY <1>1, <1>2, <1>3, <1>4, <1>5, <1>6

\* The calls of the room manager and the storage do not read them.
LEMMA SameCalls ==
    ASSUME NEW f, NEW ms
    PROVE  /\ RefuseFrame(f) => P!RefuseFrame(f)
           /\ RefuseOverflow(f) => P!RefuseOverflow(f)
           /\ RelayWelcome(f) => P!RelayWelcome(f)
           /\ RefuseSequenced(f) => P!RefuseSequenced(f)
           /\ SequenceMessage(f) => P!SequenceMessage(f)
           /\ SequenceIgnoredCommit(f) => P!SequenceIgnoredCommit(f)
           /\ RefuseEvicting(f, ms) => P!RefuseEvicting(f, ms)
           /\ SequenceCommit(f, ms) => P!SequenceCommit(f, ms)
           /\ Numbered(f) => P!Numbered(f)
<1>1. /\ Admissible(f) <=> P!Admissible(f)
      /\ IsSequenced(f) <=> P!IsSequenced(f)
      /\ SignatureRefused(f) <=> P!SignatureRefused(f)
    BY DEF P!Admissible, Admissible, P!ValidBasic, ValidBasic, P!ValidNoState, ValidNoState,
           P!ValidStructure, ValidStructure, P!IsSequenced, IsSequenced,
           P!SignatureRefused, SignatureRefused
<1>2. ASSUME NEW r
      PROVE  /\ NextIndex(r) = P!NextIndex(r)
             /\ ConsumeIndex(r) <=> P!ConsumeIndex(r)
             /\ OverflowIndex(r) <=> P!OverflowIndex(r)
    BY DEF P!NextIndex, NextIndex, P!NextFromStorage, NextFromStorage, P!ConsumeIndex,
           ConsumeIndex, P!OverflowIndex, OverflowIndex, P!IndexOverflows, IndexOverflows
<1>3. ASSUME NEW g
      PROVE  Active(g) <=> P!Active(g)
    BY DEF Active, P!Active
<1>4. MergeCommit(f, ms) <=> P!MergeCommit(f, ms)
    BY <1>1, <1>2, <1>3, SameData DEF MergeCommit, P!MergeCommit
<1>5. /\ RefuseFrame(f) => P!RefuseFrame(f)
      /\ RefuseOverflow(f) => P!RefuseOverflow(f)
      /\ RelayWelcome(f) => P!RelayWelcome(f)
    BY <1>1, <1>2 DEF RefuseFrame, P!RefuseFrame, RefuseOverflow, P!RefuseOverflow,
                      RelayWelcome, P!RelayWelcome, roomVars, P!roomVars
<1>6. /\ RefuseSequenced(f) => P!RefuseSequenced(f)
      /\ SequenceMessage(f) => P!SequenceMessage(f)
      /\ SequenceIgnoredCommit(f) => P!SequenceIgnoredCommit(f)
    BY <1>1, <1>2, <1>3 DEF RefuseSequenced, P!RefuseSequenced, SequenceMessage,
                            P!SequenceMessage, SequenceIgnoredCommit, P!SequenceIgnoredCommit
<1>7. /\ RefuseEvicting(f, ms) => P!RefuseEvicting(f, ms)
      /\ SequenceCommit(f, ms) => P!SequenceCommit(f, ms)
    BY <1>4 DEF RefuseEvicting, P!RefuseEvicting, SequenceCommit, P!SequenceCommit
<1>8. Numbered(f) => P!Numbered(f)
    BY SameData DEF Numbered, P!Numbered
<1> QED BY <1>5, <1>6, <1>7, <1>8

\* The lock is free for RoomPipeline when it is free.
LEMMA SeenReady ==
    ASSUME FeedTypeOK
    PROVE  /\ lock = Free => RoomLock = Free
           /\ \A t \in Tasks : Ready(t) => P!Ready(t)
           /\ \A t \in Tasks : ~Answering(t) => RoomPending[t] = pending[t]
           /\ \A t \in Tasks : Answering(t) => RoomPending[t] = <<>>
BY PipelineAssumption DEF RoomLock, RoomPending, Ready, P!Ready, Answering

\* Lists and lock that do not change are not seen to change.
LEMMA SeenQuiet ==
    ASSUME UNCHANGED runtimeVars
    PROVE  UNCHANGED P!runtimeVars
BY DEF runtimeVars, P!runtimeVars, RoomPending, RoomLock, Answering, IsAnswer

\* A list of room actions is handed out.
LEMMA SeenReturn ==
    ASSUME FeedTypeOK, NEW t \in Tasks, NEW acts, Ready(t), Return(t, acts),
           acts # <<>>, ~IsAnswer(Head(acts))
    PROVE  P!Return(t, acts)
<1>1. /\ pending' = [pending EXCEPT ![t] = acts]
      /\ DOMAIN pending = Tasks
      /\ lock' = IF Atomic THEN t ELSE Free
    BY DEF FeedTypeOK, Return
<1>2. pending'[t] = acts /\ \A u \in Tasks : u # t => pending'[u] = pending[u]
    BY <1>1
<1>3. ~Answering(t)' /\ \A u \in Tasks : u # t => (Answering(u)' <=> Answering(u))
    BY <1>2 DEF Answering, IsAnswer
<1>4. RoomPending' = [RoomPending EXCEPT ![t] = acts]
    <2>1. RoomPending' = [u \in Tasks |-> IF Answering(u)' THEN <<>> ELSE pending'[u]]
        BY DEF RoomPending
    <2>2. ASSUME NEW u \in Tasks
          PROVE  RoomPending'[u] = [RoomPending EXCEPT ![t] = acts][u]
        BY <1>2, <1>3, <2>1 DEF RoomPending
    <2> QED BY <2>1, <2>2 DEF RoomPending
<1>5. RoomLock' = IF Atomic THEN t ELSE Free
    BY <1>1, <1>3, PipelineAssumption DEF RoomLock
<1> QED BY <1>4, <1>5 DEF P!Return

\* A room action is executed.
LEMMA SeenAdvance ==
    ASSUME P!PipelineInvariant, FeedTypeOK, NEW t \in Tasks, ~Answering(t),
           Executing(t), Advance(t)
    PROVE  /\ P!Executing(t)
           /\ P!Advance(t)
           /\ RoomPending[t] = pending[t]
           /\ pending[t] \in Seq(RoomAction)
           /\ ~Answering(t)'
<1>1. /\ pending' = [pending EXCEPT ![t] = Tail(pending[t])]
      /\ DOMAIN pending = Tasks
      /\ pending[t] # <<>>
      /\ lock \in {Free, t}
      /\ lock' = IF Len(pending[t]) = 1 THEN Free ELSE t
    BY DEF FeedTypeOK, Advance, Executing
<1>2. pending'[t] = Tail(pending[t]) /\ \A u \in Tasks : u # t => pending'[u] = pending[u]
    BY <1>1
<1>3. RoomPending[t] = pending[t] /\ pending[t] \in Seq(RoomAction)
    BY SameData DEF RoomPending, P!PipelineInvariant, P!TypeOK
<1>4. \A a \in RoomAction : ~IsAnswer(a)
    BY DEF RoomAction, IsAnswer
<1>5. ~Answering(t)'
    <2>1. Tail(pending[t]) \in Seq(RoomAction)
        BY <1>1, <1>3
    <2>2. pending'[t] # <<>> => Head(pending'[t]) \in RoomAction
        BY <1>2, <2>1
    <2> QED BY <1>4, <2>2 DEF Answering, IsAnswer
<1>6. \A u \in Tasks : u # t => (Answering(u)' <=> Answering(u))
    BY <1>2 DEF Answering, IsAnswer
<1>7. RoomPending' = [RoomPending EXCEPT ![t] = Tail(RoomPending[t])]
    <2>1. RoomPending' = [u \in Tasks |-> IF Answering(u)' THEN <<>> ELSE pending'[u]]
        BY DEF RoomPending
    <2>2. ASSUME NEW u \in Tasks
          PROVE  RoomPending'[u] = [RoomPending EXCEPT ![t] = Tail(RoomPending[t])][u]
        BY <1>2, <1>3, <1>5, <1>6, <2>1 DEF RoomPending
    <2> QED BY <2>1, <2>2 DEF RoomPending
<1>8. RoomLock = lock /\ RoomLock' = lock'
    BY <1>1, <1>5, PipelineAssumption DEF RoomLock
<1> QED BY <1>1, <1>3, <1>5, <1>7, <1>8 DEF P!Executing, P!Advance

\* Each way process_frame returns is one of RoomPipeline's.
LEMMA SeenFrame ==
    ASSUME FeedTypeOK, NEW t \in Tasks, NEW f \in Incoming
    PROVE  /\ Refuse(t, f) => P!Refuse(t, f)
           /\ Overflow(t, f) => P!Overflow(t, f)
           /\ Welcome(t, f) => P!Welcome(t, f)
           /\ Drop(t, f) => P!Drop(t, f)
           /\ Message(t, f) => P!Message(t, f)
           /\ Commit(t, f) => P!Commit(t, f)
<1> USE DEF storageVars, boundVars, historyVars, P!storageVars, P!boundVars, P!historyVars
<1>1. /\ Ready(t) => P!Ready(t)
      /\ UNCHANGED runtimeVars => UNCHANGED P!runtimeVars
      /\ Count <=> P!Count
    BY SeenReady, SeenQuiet DEF Count, P!Count
<1>2. Refuse(t, f) => P!Refuse(t, f)
    BY <1>1, SameCalls DEF Refuse, P!Refuse
<1>3. Overflow(t, f) => P!Overflow(t, f)
    BY <1>1, SameCalls DEF Overflow, P!Overflow
<1>4. Drop(t, f) => P!Drop(t, f)
    BY <1>1, SameCalls DEF Drop, P!Drop
<1>5. ASSUME Welcome(t, f) PROVE P!Welcome(t, f)
    <2>1. Ready(t) /\ RelayWelcome(f) /\ Count /\ Return(t, <<Broadcast(f)>>)
        BY <1>5 DEF Welcome
    <2>2. P!Return(t, <<Broadcast(f)>>)
        BY <2>1, NoAnswerInLists, SeenReturn
    <2>3. P!Return(t, <<P!Broadcast(f)>>)
        BY <2>2, SameData
    <2> QED BY <1>1, <1>5, <2>1, <2>3, SameCalls DEF Welcome, P!Welcome
<1>6. ASSUME Message(t, f) PROVE P!Message(t, f)
    <2>1. Ready(t) /\ SequenceMessage(f) /\ Count /\ Return(t, MessageActions(f)) /\ Numbered(f)
        BY <1>6 DEF Message
    <2>2. P!Return(t, MessageActions(f))
        BY <2>1, NoAnswerInLists, SeenReturn
    <2>3. P!Return(t, P!MessageActions(f))
        BY <2>2, SameData
    <2> QED BY <1>1, <1>6, <2>1, <2>3, SameCalls DEF Message, P!Message
<1>7. ASSUME Commit(t, f) PROVE P!Commit(t, f)
    <2>1. /\ Ready(t) /\ Count /\ Numbered(f)
          /\ UNCHANGED <<storageVars, restarts, published>>
        BY <1>7 DEF Commit
    <2>2. ASSUME NEW st, Return(t, CommitActions(f, st))
          PROVE  P!Return(t, P!CommitActions(f, st))
        <3>1. P!Return(t, CommitActions(f, st))
            BY <2>1, <2>2, NoAnswerInLists, SeenReturn
        <3> QED BY <3>1, SameData
    <2>3. CASE /\ SequenceIgnoredCommit(f)
               /\ Return(t, CommitActions(f, ExportState(groups[f.room])))
        <3>1. P!Return(t, P!CommitActions(f, P!ExportState(groups[f.room])))
            BY <2>2, <2>3, SameData
        <3> QED BY <1>1, <2>1, <2>3, <3>1, SameCalls DEF P!Commit
    <2>4. CASE \E ms \in SUBSET Users \ {{}} :
                  /\ SequenceCommit(f, ms)
                  /\ Return(t, CommitActions(f, ExportState(Merged(groups[f.room], ms))))
        <3>1. PICK ms \in SUBSET Users \ {{}} :
                  /\ SequenceCommit(f, ms)
                  /\ Return(t, CommitActions(f, ExportState(Merged(groups[f.room], ms))))
            BY <2>4
        <3>2. P!Return(t, P!CommitActions(f, P!ExportState(P!Merged(groups[f.room], ms))))
            BY <2>2, <3>1, SameData
        <3>3. P!SequenceCommit(f, ms)
            BY <3>1, SameCalls
        <3> QED BY <1>1, <2>1, <3>2, <3>3, SameCalls DEF P!Commit
    <2> QED BY <1>7, <2>3, <2>4 DEF Commit
<1> QED BY <1>2, <1>3, <1>4, <1>5, <1>6, <1>7

\* Executing a room action is a step of RoomPipeline.
LEMMA SeenExec ==
    ASSUME P!PipelineInvariant, FeedTypeOK, NEW t \in Tasks,
           ExecStorage(t) \/ ExecBroadcastToRoom(t)
    PROVE  P!Exec(t) /\ ~Answering(t) /\ ~Answering(t)' /\ pending[t] \in Seq(RoomAction)
<1> USE DEF storageVars, roomVars, boundVars, historyVars,
            P!storageVars, P!roomVars, P!boundVars, P!historyVars
<1>1. Executing(t) /\ Advance(t)
    BY DEF ExecStorage, ExecBroadcastToRoom, ExecPersist, ExecPersistState, ExecFailed,
           ExecBroadcast
<1>2. ~Answering(t)
    BY DEF ExecStorage, ExecBroadcastToRoom, ExecBroadcast, Answering, IsAnswer
<1>3. /\ P!Executing(t)
      /\ P!Advance(t)
      /\ RoomPending[t] = pending[t]
      /\ pending[t] \in Seq(RoomAction)
      /\ ~Answering(t)'
    BY <1>1, <1>2, SeenAdvance
<1>4. ASSUME ExecPersist(t) PROVE P!Exec(t)
    BY <1>3, <1>4 DEF ExecPersist, P!ExecPersist, StoreFrame, P!StoreFrame, P!Exec
<1>5. ASSUME ExecPersistState(t) PROVE P!Exec(t)
    BY <1>3, <1>5 DEF ExecPersistState, P!ExecPersistState, StoreMlsState, P!StoreMlsState,
                      P!Exec
<1>6. ASSUME ExecFailed(t) PROVE P!Exec(t)
    BY <1>3, <1>6 DEF ExecFailed, P!ExecFailed, P!Exec
<1>7. ASSUME ExecBroadcast(t) PROVE P!Exec(t)
    BY <1>3, <1>7 DEF ExecBroadcast, P!ExecBroadcast, P!Exec
<1> QED BY <1>2, <1>3, <1>4, <1>5, <1>6, <1>7 DEF ExecStorage, ExecBroadcastToRoom

\* Preparing and sending an answer changes nothing that RoomPipeline sees.
LEMMA SeenAnswer ==
    ASSUME FeedTypeOK, NEW t \in Tasks,
           \/ \E r \in Rooms : HandleSyncRequest(t, r)
           \/ ExecSendToSession(t)
    PROVE  UNCHANGED P!vars
<1> USE DEF storageVars, roomVars, boundVars, historyVars,
            P!storageVars, P!roomVars, P!boundVars, P!historyVars
<1>1. DOMAIN pending = Tasks
    BY DEF FeedTypeOK
<1>2. ASSUME NEW list,
             pending' = [pending EXCEPT ![t] = list],
             RoomPending[t] = <<>>, list # <<>> => IsAnswer(Head(list)),
             RoomLock = Free, lock' = Free \/ (lock' = t /\ list # <<>>)
      PROVE  UNCHANGED P!runtimeVars
    <2>1. pending'[t] = list /\ \A u \in Tasks : u # t => pending'[u] = pending[u]
        BY <1>1, <1>2
    <2>2. /\ Answering(t)' <=> list # <<>>
          /\ \A u \in Tasks : u # t => (Answering(u)' <=> Answering(u))
        BY <1>2, <2>1 DEF Answering, IsAnswer
    <2>3. RoomPending' = [u \in Tasks |-> IF Answering(u)' THEN <<>> ELSE pending'[u]]
        BY DEF RoomPending
    <2>4. ASSUME NEW u \in Tasks
          PROVE  RoomPending'[u] = RoomPending[u]
        BY <1>2, <2>1, <2>2, <2>3 DEF RoomPending
    <2>5. RoomPending' = RoomPending
        BY <2>3, <2>4 DEF RoomPending
    <2>6. RoomLock' = RoomLock
        BY <1>2, <2>2, PipelineAssumption DEF RoomLock
    <2> QED BY <2>5, <2>6 DEF P!runtimeVars
<1>3. ASSUME NEW r \in Rooms, HandleSyncRequest(t, r)
      PROVE  UNCHANGED P!vars
    <2>1. PICK a : Return(t, <<a>>) /\ IsAnswer(a)
        BY <1>3, Answers DEF HandleSyncRequest
    <2>2. <<a>> # <<>> /\ Head(<<a>>) = a
        OBVIOUS
    <2>3. Ready(t) /\ UNCHANGED <<storageVars, roomVars, boundVars, historyVars>>
        BY <1>3 DEF HandleSyncRequest
    <2>4. RoomPending[t] = <<>> /\ RoomLock = Free
        BY <2>3, SeenReady DEF Ready, Answering
    <2>5. UNCHANGED P!runtimeVars
        BY <1>2, <2>1, <2>2, <2>4 DEF Return
    <2> QED BY <2>3, <2>5 DEF P!vars
<1>4. ASSUME ExecSendToSession(t)
      PROVE  UNCHANGED P!vars
    <2>1. /\ Executing(t) /\ Answering(t) /\ Advance(t)
          /\ UNCHANGED <<storageVars, roomVars, boundVars, historyVars>>
        BY <1>4 DEF ExecSendToSession, Answering, Executing
    <2>2. Len(pending[t]) = 1 /\ pending[t] \in Seq(RoomAction \cup Answer)
        BY <2>1 DEF FeedTypeOK
    <2>3. Tail(pending[t]) = <<>>
        BY <2>2, TailOfOne
    <2>4. pending' = [pending EXCEPT ![t] = <<>>] /\ lock' = Free /\ lock \in {Free, t}
        BY <2>1, <2>2, <2>3 DEF Advance, Executing
    <2>5. RoomPending[t] = <<>> /\ RoomLock = Free
        BY <2>1, <2>4, SeenReady, PipelineAssumption DEF RoomLock
    <2>6. UNCHANGED P!runtimeVars
        <3>1. PICK list : list = <<>>
            OBVIOUS
        <3>2. /\ pending' = [pending EXCEPT ![t] = list]
              /\ list # <<>> => IsAnswer(Head(list))
              /\ lock' = Free \/ (lock' = t /\ list # <<>>)
            BY <2>4, <3>1
        <3> QED BY <1>2, <2>5, <3>2
    <2> QED BY <2>1, <2>6 DEF P!vars
<1> QED BY <1>3, <1>4

\* Every step of RoomFeed is one of RoomPipeline or changes nothing it sees.
LEMMA SeenNext ==
    ASSUME P!PipelineInvariant, FeedTypeOK, [FeedNext]_<<vars, feedVars>>
    PROVE  [P!Next]_(P!vars)
<1>1. ASSUME UNCHANGED vars
      PROVE  UNCHANGED P!vars
    BY <1>1, SeenQuiet
    DEF vars, P!vars, storageVars, roomVars, boundVars, historyVars,
        P!storageVars, P!roomVars, P!boundVars, P!historyVars
<1>2. ASSUME NEW t \in Tasks, NEW f \in Incoming, HandleRoomFrame(t, f) \/ HandleWelcome(t, f)
      PROVE  P!Next
    <2>1. f \in P!Incoming
        BY SameData
    <2> QED BY <1>2, <2>1, SeenFrame DEF HandleRoomFrame, HandleWelcome, P!Next
<1>3. ASSUME NEW t \in Tasks, ExecStorage(t) \/ ExecBroadcastToRoom(t)
      PROVE  P!Next
    BY <1>3, SeenExec DEF P!Next
<1>4. ASSUME NEW t \in Tasks,
             ExecSendToSession(t) \/ \E r \in Rooms : HandleSyncRequest(t, r)
      PROVE  UNCHANGED P!vars
    BY <1>4, SeenAnswer
<1>5. ASSUME NEW s \in Sessions, NEW r \in Rooms, HandleCreateRoom(s, r)
      PROVE  P!Next
    <2>1. PICK u \in Users : CreateRoom(r, u)
        BY <1>5 DEF HandleCreateRoom
    <2>2. P!CreateRoom(r, u)
        BY <2>1 DEF CreateRoom, P!CreateRoom
    <2>3. /\ RoomLock = Free
          /\ UNCHANGED <<storageVars, boundVars, historyVars>>
          /\ UNCHANGED P!runtimeVars
        BY <1>5, SeenReady, SeenQuiet DEF HandleCreateRoom
    <2> QED BY <2>2, <2>3 DEF P!Next, P!Embedder, storageVars, boundVars, historyVars,
                              P!storageVars, P!boundVars, P!historyVars
<1>6. ASSUME NEW s \in Sessions,
             \/ HandleConnectionAccepted(s) \/ HandleConnectionClosed(s)
             \/ \E r \in Rooms : SubscribeToRoom(s, r) \/ UnsubscribeFromRoom(s, r)
      PROVE  UNCHANGED P!vars
    BY <1>1, <1>6 DEF HandleConnectionAccepted, HandleConnectionClosed, SubscribeToRoom,
                      UnsubscribeFromRoom
<1>7. CASE UNCHANGED <<vars, feedVars>>
    BY <1>1, <1>7
<1> QED BY <1>2, <1>3, <1>4, <1>5, <1>6, <1>7 DEF FeedNext, ExecFeed

-----------------------------------------------------------------------------
(* The theorems.                                                           *)

\* The invariant of RoomPipeline gives the types of the logs and of the lists, and
\* the room of each frame of a log.
LEMMA RoomsTyped ==
    ASSUME P!PipelineInvariant
    PROVE  RoomsTypeOK
<1>1. /\ frames \in [Rooms -> Seq(Frame)]
      /\ assigned \in [Rooms -> Seq(Frame)]
      /\ RoomPending \in [Tasks -> Seq(RoomAction)]
    BY SameData DEF P!PipelineInvariant, P!TypeOK, P!StorageTypeOK
<1>2. ASSUME NEW t \in Tasks, ~Answering(t)
      PROVE  pending[t] \in Seq(RoomAction)
    BY <1>1, <1>2 DEF RoomPending
<1>3. ASSUME NEW r \in Rooms, NEW i \in 1..Len(frames[r])
      PROVE  frames[r][i].room = r
    <2>1. /\ Len(frames[r]) <= Len(assigned[r])
          /\ frames[r][i] = assigned[r][i]
        BY DEF P!PipelineInvariant, P!LogIsOrderPrefix
    <2>2. i \in 1..Len(assigned[r])
        BY <1>1, <2>1
    <2> QED BY <2>1, <2>2 DEF P!PipelineInvariant, P!OrderIndexed
<1> QED BY <1>1, <1>2, <1>3 DEF RoomsTypeOK

\* The initial states are RoomPipeline's.
LEMMA SeenInit ==
    ASSUME FeedInit
    PROVE  P!Init
<1>1. /\ pending = [t \in Tasks |-> <<>>]
      /\ lock = Free
    BY DEF FeedInit, Init
<1>2. RoomPending = [t \in Tasks |-> <<>>]
    BY <1>1 DEF RoomPending, Answering
<1>3. RoomLock = Free
    BY <1>1 DEF RoomLock
<1> QED BY <1>2, <1>3
    DEF FeedInit, Init, P!Init, StorageInit, P!StorageInit, SequencerInit, P!SequencerInit,
        RoomManagerInit, P!RoomManagerInit

\* The invariant of RoomPipeline and that of the feed hold together: the one needs
\* the other to see that a step is one of RoomPipeline.
LEMMA FeedInduction ==
    /\ FeedInit => P!PipelineInvariant /\ FeedInvariant
    /\ P!PipelineInvariant /\ FeedInvariant /\ [FeedNext]_<<vars, feedVars>> =>
          (P!PipelineInvariant /\ FeedInvariant)'
<1>1. ASSUME FeedInit
      PROVE  P!PipelineInvariant /\ FeedInvariant
    <2>1. P!Init
        BY <1>1, SeenInit
    <2>2. P!PipelineInvariant
        BY <2>1, P!InitInvariant, OpcodesAssumption, NoStateAssumption, SequencerAssumption,
           RoomManagerAssumption, PipelineAssumption
        DEF Group, P!Group, MlsGroupState, P!MlsGroupState, RoomOpcodes, P!RoomOpcodes
    <2> QED BY <1>1, <2>2, FeedInitInvariant
<1>2. P!PipelineInvariant /\ [P!Next]_(P!vars) => P!PipelineInvariant'
    BY P!NextKeepsInvariant, OpcodesAssumption, NoStateAssumption, SequencerAssumption,
       RoomManagerAssumption, PipelineAssumption
    DEF Group, P!Group, MlsGroupState, P!MlsGroupState, RoomOpcodes, P!RoomOpcodes
<1>3. P!PipelineInvariant => RoomsTypeOK
    BY RoomsTyped
<1>4. P!PipelineInvariant' => RoomsTypeOK'
    BY <1>3, PTL
<1>5. ASSUME P!PipelineInvariant, FeedInvariant, [FeedNext]_<<vars, feedVars>>
      PROVE  P!PipelineInvariant' /\ FeedInvariant'
    <2>1. FeedTypeOK
        BY <1>5 DEF FeedInvariant
    <2>2. [P!Next]_(P!vars)
        BY <1>5, <2>1, SeenNext
    <2>3. P!PipelineInvariant'
        BY <1>2, <1>5, <2>2
    <2>4. RoomsTypeOK /\ RoomsTypeOK'
        BY <1>3, <1>4, <1>5, <2>3
    <2> QED BY <1>5, <2>3, <2>4, FeedNextKeeps
<1> QED BY <1>1, <1>5

\* The inductive invariant holds: a covered session is subscribed, holds what its
\* pages brought, waits for at most one answer about a room, and that answer goes
\* on where it is and, without has_more, leaves nothing out
\* (handle_sync_request, execute_actions).
THEOREM FeedInvariantHolds == FeedSpec => [](P!PipelineInvariant /\ FeedInvariant)
BY FeedInduction, PTL DEF FeedSpec

\* Serving sessions changes nothing for the rooms: answers to SyncRequests, which go
\* through the same lists and the same lock, neither reorder nor lose a room action,
\* so that what is proved of RoomPipeline holds with its sessions attached
\* (handle_frame_received, execute_actions).
THEOREM FeedImplementsPipeline == FeedSpec => P!Spec
<1>1. FeedInit => P!Init
    BY SeenInit
<1>2. P!PipelineInvariant /\ FeedInvariant /\ [FeedNext]_<<vars, feedVars>> =>
          [P!Next]_(P!vars)
    BY SeenNext DEF FeedInvariant
<1> QED BY <1>1, <1>2, FeedInvariantHolds, PTL DEF FeedSpec, P!Spec

\* A session that was subscribed when its last SyncRequest was processed, and still
\* is, misses no frame of the log once an answer without has_more has come, but for
\* those still to be broadcast, with any number of sessions, rooms and tasks and any
\* limit but 0: the log grows only by lists that broadcast what they store, the
\* recipients are looked up at execution, and page and has_more are read in one call
\* (handle_sync_request, execute_actions).
THEOREM CaughtUpMissesNothing == FeedSpec => []CaughtUpHoldsLog
<1>1. FeedInvariant => CaughtUpHoldsLog
    BY DEF FeedInvariant, FeedOf, CaughtUp, Held, CaughtUpHoldsLog
<1> QED BY <1>1, FeedInvariantHolds, PTL
=============================================================================
