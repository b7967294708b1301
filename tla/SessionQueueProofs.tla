-------------------------- MODULE SessionQueueProofs --------------------------
(***************************************************************************)
(* The circular queue of svr::Session is correct for every array size and  *)
(* every set of payloads. The inductive invariant is IInv: neither RingOK  *)
(* nor PayloadOwned is inductive alone, because a pop or a push uses head  *)
(* and tail for the two ends of the same window. The last part is about    *)
(* the manager of the sessions, SessionManager.tla.                        *)
(***************************************************************************)
EXTENDS SessionQueue, SequenceTheorems, TLAPS

IInv == TypeOK /\ RingOK /\ PayloadOwned

\* The array has at least one element whatever size the constructor was asked for.
LEMMA MaxSizePositive == maxSize \in Nat /\ maxSize > 0
  BY SizeAssumption DEF maxSize

\* The initial position of head and tail lies inside the array.
LEMMA MiddleInSlots == maxSize \div 2 \in Slots
  <1>1. \A m \in Nat : m > 0 => m \div 2 \in 0 .. m - 1
    OBVIOUS
  <1> QED BY <1>1, MaxSizePositive DEF Slots

\* Distance of array position j from position h, walking forward.
Dist(h, j) == IF j >= h THEN j - h ELSE j - h + maxSize

\* Whether position j lies in the window of s elements that starts at h.
InWindow(h, s, j) == \E i \in 0 .. s - 1 : j = IF h + i < maxSize THEN h + i ELSE h + i - maxSize

\* Membership in a window is a comparison of distances.
LEMMA WindowDist ==
  ASSUME NEW h \in Slots, NEW s \in 0 .. maxSize, NEW j \in Slots
  PROVE  InWindow(h, s, j) <=> Dist(h, j) < s
  <1> USE MaxSizePositive DEF Slots, InWindow, Dist
  <1>1. ASSUME InWindow(h, s, j) PROVE Dist(h, j) < s
    <2>1. PICK i \in 0 .. s - 1 : j = IF h + i < maxSize THEN h + i ELSE h + i - maxSize
      BY <1>1
    <2> QED BY <2>1
  <1>2. ASSUME Dist(h, j) < s PROVE InWindow(h, s, j)
    <2>1. Dist(h, j) \in 0 .. s - 1
      BY <1>2
    <2>2. j = IF h + Dist(h, j) < maxSize THEN h + Dist(h, j) ELSE h + Dist(h, j) - maxSize
      OBVIOUS
    <2> QED BY <2>1, <2>2
  <1> QED BY <1>1, <1>2

\* The live elements are the positions in the window of size elements that starts at head.
LEMMA LiveIsWindow ==
  ASSUME NEW j PROVE j \in Live <=> InWindow(head, size, j)
  BY DEF Live, Slot, InWindow

LEMMA LiveIsWindowNext ==
  ASSUME NEW j PROVE j \in Live' <=> InWindow(head', size', j)
  BY DEF Live, Slot, InWindow

-------------------------------------------------------------------------------
(* The payload invariant in terms of distances, before and after a step. *)

Owned(arr, h, s) == \A j \in Slots : Dist(h, j) < s <=> arr[j] # NoEvent

LEMMA OwnedNow == TypeOK => (PayloadOwned <=> Owned(eventArr, head, size))
  BY WindowDist, LiveIsWindow DEF TypeOK, PayloadOwned, Owned

LEMMA OwnedNext == TypeOK' => (PayloadOwned' <=> Owned(eventArr', head', size'))
  BY WindowDist, LiveIsWindowNext DEF TypeOK, PayloadOwned, Owned

\* The end of the ring, with Slot spelled out.
RingAt(h, t, s) ==
    t = IF s = 0 THEN h
        ELSE IF h + (s - 1) < maxSize THEN h + (s - 1) ELSE h + (s - 1) - maxSize

LEMMA InitInv == Init => IInv
  <1> SUFFICES ASSUME Init PROVE IInv
    OBVIOUS
  <1>1. TypeOK
    BY MaxSizePositive, MiddleInSlots DEF Init, TypeOK, Result
  <1>2. RingOK
    BY DEF Init, RingOK
  <1>3. Owned(eventArr, head, size)
    BY MaxSizePositive, MiddleInSlots DEF Init, Owned, Slots, Dist
  <1> QED BY <1>1, <1>2, <1>3, OwnedNow DEF IInv

LEMMA RefuseInv == ASSUME IInv, Refuse PROVE IInv'
  <1>1. TypeOK'
    BY DEF IInv, TypeOK, Refuse, Result
  <1>2. RingOK'
    BY DEF IInv, RingOK, Slot, Refuse
  <1>3. PayloadOwned'
    BY DEF IInv, PayloadOwned, Live, Slot, Refuse
  <1> QED BY <1>1, <1>2, <1>3 DEF IInv

LEMMA PushBackInv == ASSUME IInv, NEW e \in Event, pushBack(e) PROVE IInv'
  <1> USE MaxSizePositive
  <1>1. CASE ~MayPush /\ Refuse
    BY <1>1, RefuseInv
  <1>2. CASE MayPush /\ ~(~MayPush /\ Refuse)
    <2>1. /\ head \in Slots /\ tail \in Slots /\ size \in 0 .. maxSize - 1
          /\ RingAt(head, tail, size)
          /\ Owned(eventArr, head, size)
          /\ eventArr \in [Slots -> Event \cup {NoEvent}]
      BY <1>2, OwnedNow DEF IInv, TypeOK, RingOK, RingAt, Slot, MayPush, isFull
    <2>2. /\ tail' = Forward(tail)
          /\ eventArr' = [eventArr EXCEPT ![tail'] = e]
          /\ size' = size + 1
          /\ head' = IF size # 0 THEN head ELSE tail'
          /\ ret' = Result(TRUE, NoEvent)
          /\ status' = status
      BY <1>2 DEF pushBack
    <2>3. tail' \in Slots /\ head' \in Slots /\ size' \in 0 .. maxSize
      BY <2>1, <2>2 DEF Slots, Forward
    <2>4. TypeOK'
      BY <2>1, <2>2, <2>3 DEF IInv, TypeOK, Result
    <2>5. RingOK'
      BY <2>1, <2>2, <2>3 DEF RingOK, RingAt, Slot, Forward, Slots
    <2>6. Dist(head', tail') = size
      BY <2>1, <2>2 DEF RingAt, Forward, Slots, Dist
    <2>7. \A j \in Slots : j # tail' => (Dist(head', j) < size' <=> Dist(head, j) < size)
      BY <2>1, <2>2 DEF RingAt, Forward, Slots, Dist
    <2>8. Owned(eventArr', head', size')
      BY <2>1, <2>2, <2>3, <2>6, <2>7, NoEventAssumption DEF Owned
    <2> QED BY <2>4, <2>5, <2>8, OwnedNext DEF IInv
  <1> QED BY <1>1, <1>2 DEF pushBack

LEMMA PushFrontInv == ASSUME IInv, NEW e \in Event, pushFront(e) PROVE IInv'
  <1> USE MaxSizePositive
  <1>1. CASE ~MayPush /\ Refuse
    BY <1>1, RefuseInv
  <1>2. CASE MayPush /\ ~(~MayPush /\ Refuse)
    <2>1. /\ head \in Slots /\ tail \in Slots /\ size \in 0 .. maxSize - 1
          /\ RingAt(head, tail, size)
          /\ Owned(eventArr, head, size)
          /\ eventArr \in [Slots -> Event \cup {NoEvent}]
      BY <1>2, OwnedNow DEF IInv, TypeOK, RingOK, RingAt, Slot, MayPush, isFull
    <2>2. /\ head' = Backward(head)
          /\ eventArr' = [eventArr EXCEPT ![head'] = e]
          /\ size' = size + 1
          /\ tail' = IF size # 0 THEN tail ELSE head'
          /\ ret' = Result(TRUE, NoEvent)
          /\ status' = status
      BY <1>2 DEF pushFront
    <2>3. tail' \in Slots /\ head' \in Slots /\ size' \in 0 .. maxSize
      BY <2>1, <2>2 DEF Slots, Backward
    <2>4. TypeOK'
      BY <2>1, <2>2, <2>3 DEF IInv, TypeOK, Result
    <2>5. RingOK'
      BY <2>1, <2>2, <2>3 DEF RingOK, RingAt, Slot, Backward, Slots
    <2>6. \A h \in Slots : Dist(h, h) = 0
      BY DEF Slots, Dist
    <2>7. \A j \in Slots : j # head' => (Dist(head', j) < size' <=> Dist(head, j) < size)
      BY <2>1, <2>2 DEF Backward, Slots, Dist
    <2>8. Owned(eventArr', head', size')
      BY <2>1, <2>2, <2>3, <2>6, <2>7, NoEventAssumption DEF Owned
    <2> QED BY <2>4, <2>5, <2>8, OwnedNext DEF IInv
  <1> QED BY <1>1, <1>2 DEF pushFront

LEMMA PopFrontInv == ASSUME IInv, popFront PROVE IInv'
  <1> USE MaxSizePositive
  <1>1. CASE ~MayTake /\ Refuse
    BY <1>1, RefuseInv
  <1>2. CASE MayTake /\ ~(~MayTake /\ Refuse)
    <2>1. /\ head \in Slots /\ tail \in Slots /\ size \in 1 .. maxSize
          /\ RingAt(head, tail, size)
          /\ Owned(eventArr, head, size)
          /\ eventArr \in [Slots -> Event \cup {NoEvent}]
      BY <1>2, OwnedNow DEF IInv, TypeOK, RingOK, RingAt, Slot, MayTake, isEmpty
    <2>2. /\ eventArr' = [eventArr EXCEPT ![head] = NoEvent]
          /\ head' = Forward(head)
          /\ size' = size - 1
          /\ tail' = IF size > 1 THEN tail ELSE head'
          /\ ret' = Result(TRUE, NoEvent)
          /\ status' = status
      BY <1>2 DEF popFront
    <2>3. tail' \in Slots /\ head' \in Slots /\ size' \in 0 .. maxSize
      BY <2>1, <2>2 DEF Slots, Forward
    <2>4. TypeOK'
      BY <2>1, <2>2, <2>3 DEF IInv, TypeOK, Result
    <2>5. RingOK'
      BY <2>1, <2>2, <2>3 DEF RingOK, RingAt, Slot, Forward, Slots
    <2>6. Dist(head', head) = maxSize - 1
      BY <2>1, <2>2 DEF Forward, Slots, Dist
    <2>7. \A j \in Slots : j # head => (Dist(head', j) < size' <=> Dist(head, j) < size)
      BY <2>1, <2>2 DEF Forward, Slots, Dist
    <2>8. Owned(eventArr', head', size')
      BY <2>1, <2>2, <2>3, <2>6, <2>7 DEF Owned
    <2> QED BY <2>4, <2>5, <2>8, OwnedNext DEF IInv
  <1> QED BY <1>1, <1>2 DEF popFront

LEMMA PopBackInv == ASSUME IInv, popBack PROVE IInv'
  <1> USE MaxSizePositive
  <1>1. CASE ~MayTake /\ Refuse
    BY <1>1, RefuseInv
  <1>2. CASE MayTake /\ ~(~MayTake /\ Refuse)
    <2>1. /\ head \in Slots /\ tail \in Slots /\ size \in 1 .. maxSize
          /\ RingAt(head, tail, size)
          /\ Owned(eventArr, head, size)
          /\ eventArr \in [Slots -> Event \cup {NoEvent}]
      BY <1>2, OwnedNow DEF IInv, TypeOK, RingOK, RingAt, Slot, MayTake, isEmpty
    <2>2. /\ eventArr' = [eventArr EXCEPT ![tail] = NoEvent]
          /\ tail' = Backward(tail)
          /\ size' = size - 1
          /\ head' = IF size > 1 THEN head ELSE tail'
          /\ ret' = Result(TRUE, NoEvent)
          /\ status' = status
      BY <1>2 DEF popBack
    <2>3. tail' \in Slots /\ head' \in Slots /\ size' \in 0 .. maxSize
      BY <2>1, <2>2 DEF Slots, Backward
    <2>4. TypeOK'
      BY <2>1, <2>2, <2>3 DEF IInv, TypeOK, Result
    <2>5. RingOK'
      BY <2>1, <2>2, <2>3 DEF RingOK, RingAt, Slot, Backward, Slots
    <2>6. Dist(head, tail) = size - 1
      BY <2>1 DEF RingAt, Slots, Dist
    <2>7. \A j \in Slots : j # tail => Dist(head, j) # size - 1
      BY <2>1 DEF RingAt, Slots, Dist
    <2>8. \A h, j \in Slots : Dist(h, j) \in Nat
      BY DEF Slots, Dist
    <2>9. size > 1 => head' = head
      BY <2>1, <2>2
    <2>10. Owned(eventArr', head', size')
      <3> SUFFICES ASSUME NEW j \in Slots
                   PROVE  Dist(head', j) < size' <=> eventArr'[j] # NoEvent
        BY DEF Owned
      <3>1. Dist(head, j) < size <=> eventArr[j] # NoEvent
        BY <2>1 DEF Owned
      <3>2. CASE size > 1
        BY <3>1, <3>2, <2>1, <2>2, <2>3, <2>6, <2>7, <2>8, <2>9
      <3>3. CASE size = 1
        BY <3>1, <3>3, <2>1, <2>2, <2>3, <2>6, <2>7, <2>8
      <3> QED BY <3>2, <3>3, <2>1
    <2> QED BY <2>4, <2>5, <2>10, OwnedNext DEF IInv
  <1> QED BY <1>1, <1>2 DEF popBack

LEMMA ClearInv == ASSUME IInv, clearEventQueue PROVE IInv'
  <1>1. TypeOK'
    BY MaxSizePositive, MiddleInSlots DEF IInv, TypeOK, clearEventQueue
  <1>2. RingOK'
    BY DEF RingOK, clearEventQueue
  <1>3. \A j \in Slots : eventArr'[j] = NoEvent
    BY DEF IInv, PayloadOwned, clearEventQueue
  <1>4. Owned(eventArr', head', size')
    BY <1>1, <1>3, MaxSizePositive DEF clearEventQueue, Owned, TypeOK, Slots, Dist
  <1> QED BY <1>1, <1>2, <1>4, OwnedNext DEF IInv

\* The reads and setStatus leave the ring alone.
LEMMA RingUnchanged ==
  ASSUME IInv, UNCHANGED <<eventArr, head, tail, size>>, status' \in Status,
         ret' \in [ok : BOOLEAN, event : Event \cup {NoEvent}]
  PROVE  IInv'
  <1>1. TypeOK'
    BY DEF IInv, TypeOK
  <1>2. RingOK'
    BY DEF IInv, RingOK, Slot
  <1>3. PayloadOwned'
    BY DEF IInv, PayloadOwned, Live, Slot
  <1> QED BY <1>1, <1>2, <1>3 DEF IInv

LEMMA ReadInv == ASSUME IInv, getFirst \/ getLast PROVE IInv'
  <1>1. head \in Slots /\ tail \in Slots /\ status \in Status
        /\ eventArr \in [Slots -> Event \cup {NoEvent}]
    BY DEF IInv, TypeOK
  <1>2. CASE Refuse
    BY <1>2, RefuseInv
  <1>3. CASE ~Refuse
    <2>1. /\ UNCHANGED <<eventArr, head, tail, size, status>>
          /\ \E i \in Slots : ret' = Result(TRUE, eventArr[i])
      BY <1>1, <1>3 DEF getFirst, getLast
    <2>2. PICK i \in Slots : ret' = Result(TRUE, eventArr[i])
      BY <2>1
    <2>3. eventArr[i] \in Event \cup {NoEvent}
      BY <1>1
    <2>4. ret' \in [ok : BOOLEAN, event : Event \cup {NoEvent}]
      BY <2>2, <2>3 DEF Result
    <2> QED BY <1>1, <2>1, <2>4, RingUnchanged
  <1> QED BY <1>2, <1>3

LEMMA NextInv == IInv /\ [Next]_vars => IInv'
  <1> SUFFICES ASSUME IInv, [Next]_vars PROVE IInv'
    OBVIOUS
  <1>1. ASSUME NEW e \in Event, pushBack(e) PROVE IInv'
    BY <1>1, PushBackInv
  <1>2. ASSUME NEW e \in Event, pushFront(e) PROVE IInv'
    BY <1>2, PushFrontInv
  <1>3. ASSUME popFront PROVE IInv'
    BY <1>3, PopFrontInv
  <1>4. ASSUME popBack PROVE IInv'
    BY <1>4, PopBackInv
  <1>5. ASSUME getFirst \/ getLast PROVE IInv'
    BY <1>5, ReadInv
  <1>6. ASSUME clearEventQueue PROVE IInv'
    BY <1>6, ClearInv
  <1>7. ASSUME NEW s \in Status, setStatus(s) PROVE IInv'
    BY <1>7, RingUnchanged DEF setStatus, IInv, TypeOK
  <1>8. ASSUME UNCHANGED vars PROVE IInv'
    BY <1>8, RingUnchanged DEF vars, IInv, TypeOK
  <1> QED BY <1>1, <1>2, <1>3, <1>4, <1>5, <1>6, <1>7, <1>8 DEF Next

\* For every array size the indices, the size and the elements of the queue of svr::Session
\* agree after any sequence of calls, and exactly the queued elements own a payload.
THEOREM RingCorrect == Spec => [](TypeOK /\ RingOK /\ PayloadOwned)
  <1>1. Init => IInv
    BY InitInv
  <1>2. IInv /\ [Next]_vars => IInv'
    BY NextInv
  <1>3. IInv => TypeOK /\ RingOK /\ PayloadOwned
    BY DEF IInv
  <1> QED BY <1>1, <1>2, <1>3, PTL DEF Spec

\* Every method of Session keeps the indices inside the array and size within maxSize, the
\* fall-back of the constructor included.
THEOREM RingTyped == Spec => []TypeOK
  BY RingCorrect, PTL

\* Pops, clears and pushes on a full queue never leave a payload in an element that is not
\* queued, and never a queued element without one.
THEOREM PayloadsOwned == Spec => []PayloadOwned
  BY RingCorrect, PTL

-------------------------------------------------------------------------------
(* No call overwrites a queued event. *)

\* The element a push writes is not in the queue.
LEMMA PushTargetFree ==
  ASSUME IInv, MayPush
  PROVE  Forward(tail) \notin Live /\ Backward(head) \notin Live
  <1> USE MaxSizePositive
  <1>1. /\ head \in Slots /\ tail \in Slots /\ size \in 0 .. maxSize - 1
        /\ RingAt(head, tail, size)
    BY DEF IInv, TypeOK, RingOK, RingAt, Slot, MayPush, isFull
  <1>2. Forward(tail) \in Slots /\ Backward(head) \in Slots
    BY <1>1 DEF Slots, Forward, Backward
  <1>3. ~(Dist(head, Forward(tail)) < size)
    BY <1>1 DEF Slots, Forward, Dist, RingAt
  <1>4. ~(Dist(head, Backward(head)) < size)
    BY <1>1 DEF Slots, Backward, Dist
  <1> QED BY <1>1, <1>2, <1>3, <1>4, LiveIsWindow, WindowDist

\* After any sequence of calls, a call leaves every event that stays queued untouched, so a
\* pointer that getFirst or getLast handed out shows the same payload until that event leaves.
THEOREM QueuedEventsKept == Spec => QueuedKept
  <1>1. ASSUME IInv, IInv', [Next]_vars
        PROVE  [\A i \in Live \cap Live' : eventArr'[i] = eventArr[i]]_vars
    <2> SUFFICES ASSUME NEW i \in Live, i \in Live', Next PROVE eventArr'[i] = eventArr[i]
      BY <1>1 DEF vars
    <2>0. /\ i \in Slots /\ eventArr'[i] # NoEvent
          /\ head \in Slots /\ tail \in Slots
          /\ eventArr \in [Slots -> Event \cup {NoEvent}]
      <3>1. i \in Slots
        BY <1>1, MaxSizePositive DEF Live, Slot, IInv, TypeOK, Slots
      <3>2. PayloadOwned'
        BY <1>1 DEF IInv
      <3>3. eventArr'[i] # NoEvent
        BY <3>1, <3>2 DEF PayloadOwned
      <3> QED BY <1>1, <3>1, <3>3 DEF IInv, TypeOK
    <2>1. ASSUME NEW e \in Event, pushBack(e) PROVE eventArr'[i] = eventArr[i]
      BY <1>1, <2>0, <2>1, PushTargetFree DEF pushBack, Refuse
    <2>2. ASSUME NEW e \in Event, pushFront(e) PROVE eventArr'[i] = eventArr[i]
      BY <1>1, <2>0, <2>2, PushTargetFree DEF pushFront, Refuse
    <2>3. ASSUME popFront PROVE eventArr'[i] = eventArr[i]
      BY <2>0, <2>3 DEF popFront, Refuse
    <2>4. ASSUME popBack PROVE eventArr'[i] = eventArr[i]
      BY <2>0, <2>4 DEF popBack, Refuse
    <2>5. ASSUME getFirst \/ getLast PROVE eventArr'[i] = eventArr[i]
      BY <2>5 DEF getFirst, getLast, Refuse
    <2>6. ASSUME clearEventQueue PROVE eventArr'[i] = eventArr[i]
      BY <2>0, <2>6 DEF clearEventQueue
    <2>7. ASSUME NEW s \in Status, setStatus(s) PROVE eventArr'[i] = eventArr[i]
      BY <2>7 DEF setStatus
    <2> QED BY <2>1, <2>2, <2>3, <2>4, <2>5, <2>6, <2>7 DEF Next
  <1> QED BY <1>1, InitInv, NextInv, PTL DEF Spec, QueuedKept

-------------------------------------------------------------------------------
(* The array implements the abstract deque. *)

At(h, i) == IF h + i < maxSize THEN h + i ELSE h + i - maxSize

\* The queued events of an array, front first.
Window(arr, h, s) == [i \in 1 .. s |-> arr[At(h, i - 1)]]

Payload == Event \cup {NoEvent}

LEMMA WindowIsSeq ==
  ASSUME NEW arr \in [Slots -> Payload], NEW h \in Slots, NEW s \in 0 .. maxSize
  PROVE  /\ Window(arr, h, s) \in Seq(Payload)
         /\ Len(Window(arr, h, s)) = s
         /\ \A i \in 1 .. s : Window(arr, h, s)[i] = arr[At(h, i - 1)]
         /\ Window(arr, h, s) = << >> <=> s = 0
  <1> USE MaxSizePositive
  <1>1. \A i \in 1 .. s : At(h, i - 1) \in Slots
    BY DEF Slots, At
  <1>2. Window(arr, h, s) \in [1 .. s -> Payload]
    BY <1>1 DEF Window
  <1>3. s \in Nat
    OBVIOUS
  <1>4. Window(arr, h, s) \in Seq(Payload)
    BY <1>2, <1>3, SeqDef
  <1>5. Len(Window(arr, h, s)) = s
    BY <1>2, <1>3, <1>4, LenProperties
  <1> QED BY <1>4, <1>5, EmptySeq DEF Window

LEMMA ContentsIsWindow ==
  /\ Contents = Window(eventArr, head, size)
  /\ Contents' = Window(eventArr', head', size')
  BY DEF Contents, Window, Slot, At

\* The ring as the operations find it.
RingFacts ==
    /\ head \in Slots /\ tail \in Slots /\ size \in 0 .. maxSize
    /\ eventArr \in [Slots -> Payload]
    /\ RingAt(head, tail, size)

LEMMA RingFactsHold ==
  /\ IInv => RingFacts
  /\ IInv' => /\ head' \in Slots /\ tail' \in Slots /\ size' \in 0 .. maxSize
              /\ eventArr' \in [Slots -> Payload]
  BY DEF IInv, TypeOK, RingOK, RingAt, Slot, RingFacts, Payload

LEMMA PushBackWindow ==
  ASSUME IInv, IInv', NEW e \in Event, pushBack(e), MayPush
  PROVE  Window(eventArr', head', size') = Append(Window(eventArr, head, size), e)
  <1> DEFINE q == Window(eventArr, head, size)
             r == Window(eventArr', head', size')
  <1>1. /\ tail' = Forward(tail)
        /\ eventArr' = [eventArr EXCEPT ![tail'] = e]
        /\ size' = size + 1
        /\ head' = IF size # 0 THEN head ELSE tail'
    BY DEF pushBack
  <1>2. size < maxSize
    BY RingFactsHold, MaxSizePositive DEF MayPush, isFull, RingFacts
  <1>3. /\ q \in Seq(Payload) /\ Len(q) = size
        /\ \A i \in 1 .. size : q[i] = eventArr[At(head, i - 1)]
    BY WindowIsSeq, RingFactsHold DEF RingFacts
  <1>4. /\ r \in Seq(Payload) /\ Len(r) = size'
        /\ \A i \in 1 .. size' : r[i] = eventArr'[At(head', i - 1)]
    BY WindowIsSeq, RingFactsHold
  <1>5. /\ Append(q, e) \in Seq(Payload) /\ Len(Append(q, e)) = size + 1
        /\ \A i \in 1 .. size : Append(q, e)[i] = q[i]
        /\ Append(q, e)[size + 1] = e
    BY <1>3, AppendProperties DEF Payload
  <1>6. ASSUME NEW i \in 1 .. size' PROVE r[i] = Append(q, e)[i]
    <2>0. /\ head \in Slots /\ tail \in Slots /\ size \in 0 .. maxSize
          /\ RingAt(head, tail, size)
      BY RingFactsHold DEF RingFacts
    <2>1. r[i] = eventArr'[At(head', i - 1)]
      BY <1>4, <1>6
    <2>2. CASE i = size + 1
      <3>1. At(head', i - 1) = tail'
        BY <1>1, <1>2, <1>6, <2>0, <2>2, MaxSizePositive DEF RingAt, At, Slots, Forward
      <3>2. eventArr'[tail'] = e
        BY <1>1, RingFactsHold DEF RingFacts
      <3> QED BY <2>1, <2>2, <3>1, <3>2, <1>5
    <2>3. CASE i \in 1 .. size
      <3>1. At(head, i - 1) \in Slots /\ At(head, i - 1) # tail' /\ head' = head
        BY <1>1, <1>2, <1>6, <2>0, <2>3, MaxSizePositive DEF RingAt, At, Slots, Forward
      <3>2. eventArr'[At(head, i - 1)] = eventArr[At(head, i - 1)]
        BY <1>1, <3>1, RingFactsHold DEF RingFacts
      <3> QED BY <2>1, <2>3, <3>1, <3>2, <1>3, <1>5
    <2>4. i = size + 1 \/ i \in 1 .. size
      BY <1>1, <1>6, <2>0, MaxSizePositive
    <2> QED BY <2>2, <2>3, <2>4
  <1> HIDE DEF q, r
  <1> QED BY <1>1, <1>4, <1>5, <1>6, SeqEqual DEF q, r

LEMMA PushFrontWindow ==
  ASSUME IInv, IInv', NEW e \in Event, pushFront(e), MayPush
  PROVE  Window(eventArr', head', size') = <<e>> \o Window(eventArr, head, size)
  <1> DEFINE q == Window(eventArr, head, size)
             r == Window(eventArr', head', size')
  <1>1. /\ head' = Backward(head)
        /\ eventArr' = [eventArr EXCEPT ![head'] = e]
        /\ size' = size + 1
    BY DEF pushFront
  <1>2. size < maxSize
    BY RingFactsHold, MaxSizePositive DEF MayPush, isFull, RingFacts
  <1>3. /\ q \in Seq(Payload) /\ Len(q) = size
        /\ \A i \in 1 .. size : q[i] = eventArr[At(head, i - 1)]
    BY WindowIsSeq, RingFactsHold DEF RingFacts
  <1>4. /\ r \in Seq(Payload) /\ Len(r) = size'
        /\ \A i \in 1 .. size' : r[i] = eventArr'[At(head', i - 1)]
    BY WindowIsSeq, RingFactsHold
  <1>5. <<e>> \in Seq(Payload) /\ Len(<<e>>) = 1 /\ <<e>>[1] = e
    BY DEF Payload
  <1>6. /\ <<e>> \o q \in Seq(Payload) /\ Len(<<e>> \o q) = size + 1
        /\ \A i \in 1 .. size + 1 : (<<e>> \o q)[i] = IF i <= 1 THEN <<e>>[i] ELSE q[i - 1]
    <2>1. Len(<<e>>) + Len(q) = size + 1
      BY <1>3, <1>5, RingFactsHold DEF RingFacts
    <2> QED BY <1>3, <1>5, <2>1, ConcatProperties
  <1>7. ASSUME NEW i \in 1 .. size' PROVE r[i] = (<<e>> \o q)[i]
    <2>1. r[i] = eventArr'[At(head', i - 1)]
      BY <1>4, <1>7
    <2>2. head \in Slots /\ head' \in Slots /\ size \in 0 .. maxSize
      BY RingFactsHold DEF RingFacts
    <2>3. CASE i = 1
      <3>1. At(head', i - 1) = head'
        <4>1. \A h \in Slots : At(h, 0) = h
          BY MaxSizePositive DEF At, Slots
        <4> QED BY <2>2, <2>3, <4>1
      <3>2. eventArr'[head'] = e
        BY <1>1, RingFactsHold DEF RingFacts
      <3> QED BY <2>1, <2>2, <2>3, <3>1, <3>2, <1>5, <1>6
    <2>4. CASE i \in 2 .. size + 1
      <3>1. At(head', i - 1) = At(head, i - 2) /\ At(head, i - 2) \in Slots /\ At(head, i - 2) # head'
        BY <1>1, <1>2, <2>2, <2>4, MaxSizePositive DEF At, Slots, Backward
      <3>2. eventArr'[At(head, i - 2)] = eventArr[At(head, i - 2)]
        BY <1>1, <3>1, RingFactsHold DEF RingFacts
      <3>3. q[i - 1] = eventArr[At(head, i - 2)]
        BY <1>3, <2>2, <2>4
      <3> QED BY <2>1, <2>2, <2>4, <3>1, <3>2, <3>3, <1>6
    <2>5. i = 1 \/ i \in 2 .. size + 1
      BY <1>1, <1>7, <2>2, MaxSizePositive
    <2> QED BY <2>3, <2>4, <2>5
  <1> HIDE DEF q, r
  <1> QED BY <1>1, <1>4, <1>6, <1>7, SeqEqual DEF q, r

LEMMA PopFrontWindow ==
  ASSUME IInv, IInv', popFront, MayTake
  PROVE  Window(eventArr', head', size') = Tail(Window(eventArr, head, size))
  <1> DEFINE q == Window(eventArr, head, size)
             r == Window(eventArr', head', size')
  <1>1. /\ eventArr' = [eventArr EXCEPT ![head] = NoEvent]
        /\ head' = Forward(head)
        /\ size' = size - 1
    BY DEF popFront
  <1>2. /\ head \in Slots /\ size \in 1 .. maxSize
        /\ eventArr \in [Slots -> Payload]
    BY RingFactsHold, MaxSizePositive DEF MayTake, isEmpty, RingFacts
  <1>3. /\ q \in Seq(Payload) /\ Len(q) = size /\ q # << >>
        /\ \A i \in 1 .. size : q[i] = eventArr[At(head, i - 1)]
    <2>1. size \in 0 .. maxSize /\ size # 0
      BY <1>2, MaxSizePositive
    <2> QED BY <1>2, <2>1, WindowIsSeq
  <1>4. /\ r \in Seq(Payload) /\ Len(r) = size'
        /\ \A i \in 1 .. size' : r[i] = eventArr'[At(head', i - 1)]
    BY WindowIsSeq, RingFactsHold
  <1> HIDE DEF q, r
  <1>5. /\ Tail(q) \in Seq(Payload) /\ Len(Tail(q)) = size - 1
        /\ \A i \in 1 .. size - 1 : Tail(q)[i] = q[i + 1]
    BY <1>3, HeadTailProperties
  <1>6. ASSUME NEW i \in 1 .. size' PROVE r[i] = Tail(q)[i]
    <2>1. i \in 1 .. size - 1 /\ i + 1 \in 1 .. size
      BY <1>1, <1>2, <1>6, MaxSizePositive
    <2>2. At(head', i - 1) = At(head, i) /\ At(head, i) \in Slots /\ At(head, i) # head
      BY <1>1, <1>2, <2>1, MaxSizePositive DEF At, Slots, Forward
    <2>3. eventArr'[At(head, i)] = eventArr[At(head, i)]
      BY <1>1, <1>2, <2>2
    <2>4. q[i + 1] = eventArr[At(head, i)]
      BY <1>2, <1>3, <2>1, MaxSizePositive
    <2> QED BY <1>4, <1>5, <1>6, <2>1, <2>2, <2>3, <2>4
  <1> QED BY <1>1, <1>4, <1>5, <1>6, SeqEqual DEF q, r

LEMMA PopBackWindow ==
  ASSUME IInv, IInv', popBack, MayTake
  PROVE  Window(eventArr', head', size')
           = SubSeq(Window(eventArr, head, size), 1, Len(Window(eventArr, head, size)) - 1)
  <1> DEFINE q == Window(eventArr, head, size)
             r == Window(eventArr', head', size')
  <1>1. /\ eventArr' = [eventArr EXCEPT ![tail] = NoEvent]
        /\ head' = IF size > 1 THEN head ELSE tail'
        /\ size' = size - 1
    BY DEF popBack
  <1>2. /\ head \in Slots /\ tail \in Slots /\ size \in 1 .. maxSize
        /\ RingAt(head, tail, size)
        /\ eventArr \in [Slots -> Payload]
    BY RingFactsHold, MaxSizePositive DEF MayTake, isEmpty, RingFacts
  <1>3. /\ q \in Seq(Payload) /\ Len(q) = size
        /\ \A i \in 1 .. size : q[i] = eventArr[At(head, i - 1)]
    BY WindowIsSeq, RingFactsHold DEF RingFacts
  <1>4. /\ r \in Seq(Payload) /\ Len(r) = size'
        /\ \A i \in 1 .. size' : r[i] = eventArr'[At(head', i - 1)]
    BY WindowIsSeq, RingFactsHold
  <1> HIDE DEF q, r
  <1>5. \A i \in 1 .. size : q[i] \in Payload
    BY <1>3, ElementOfSeq
  <1> DEFINE t == SubSeq(q, 1, size - 1)
  <1>6. /\ t \in Seq(Payload) /\ Len(t) = size - 1
        /\ \A i \in 1 .. size - 1 : t[i] = q[i]
    <2>1. size \in Int /\ size - 1 \in Int /\ size >= 1
      BY <1>2, MaxSizePositive
    <2>2. \A i \in 1 .. size - 1 : q[i] \in Payload
      BY <1>5, <2>1
    <2>3. /\ t \in Seq(Payload)
          /\ Len(t) = IF 1 <= size - 1 THEN (size - 1) - 1 + 1 ELSE 0
          /\ \A i \in 1 .. (size - 1) - 1 + 1 : t[i] = q[1 + i - 1]
      BY <2>1, <2>2, SubSeqProperties
    <2> HIDE DEF t
    <2>4. \A i \in 1 .. size - 1 : i \in 1 .. (size - 1) - 1 + 1 /\ 1 + i - 1 = i
      BY <2>1
    <2> QED BY <2>1, <2>3, <2>4
  <1> HIDE DEF t
  <1>7. ASSUME NEW i \in 1 .. size' PROVE r[i] = t[i]
    <2>1. i \in 1 .. size - 1 /\ i \in 1 .. size /\ head' = head
      BY <1>1, <1>2, <1>7, MaxSizePositive
    <2>2. At(head, i - 1) \in Slots /\ At(head, i - 1) # tail
      BY <1>2, <2>1, MaxSizePositive DEF At, Slots, RingAt
    <2>3. eventArr'[At(head, i - 1)] = eventArr[At(head, i - 1)]
      BY <1>1, <1>2, <2>2
    <2> QED BY <1>3, <1>4, <1>6, <1>7, <2>1, <2>3
  <1>8. r = t
    BY <1>1, <1>4, <1>6, <1>7, SeqEqual
  <1> QED BY <1>3, <1>8 DEF q, r, t

\* When the deque takes a push or gives an event, in terms of the array.
LEMMA GuardsAgree ==
  ASSUME IInv
  PROVE  /\ Deque!MayPush <=> MayPush
         /\ Deque!MayTake <=> MayTake
         /\ Len(Contents) = size
         /\ MayTake => /\ Contents[1] = eventArr[head]
                       /\ Contents[Len(Contents)] = eventArr[tail]
  <1>1. RingFacts
    BY RingFactsHold
  <1>2. /\ Len(Contents) = size /\ (Contents = << >> <=> size = 0)
        /\ \A i \in 1 .. size : Contents[i] = eventArr[At(head, i - 1)]
    BY <1>1, WindowIsSeq, ContentsIsWindow DEF RingFacts
  <1>3. Deque!MayPush <=> MayPush
    BY <1>1, <1>2, MaxSizePositive DEF Deque!MayPush, MayPush, isFull, RingFacts
  <1>4. Deque!MayTake <=> MayTake
    BY <1>2 DEF Deque!MayTake, MayTake, isEmpty
  <1>5. ASSUME MayTake PROVE Contents[1] = eventArr[head] /\ Contents[size] = eventArr[tail]
    <2>1. 1 \in 1 .. size /\ size \in 1 .. size
      BY <1>1, <1>5, MaxSizePositive DEF RingFacts, MayTake, isEmpty
    <2>2. At(head, 1 - 1) = head /\ At(head, size - 1) = tail
      BY <1>1, <2>1, MaxSizePositive DEF RingFacts, RingAt, At, Slots
    <2> QED BY <1>2, <2>1, <2>2
  <1> QED BY <1>2, <1>3, <1>4, <1>5

LEMMA RefuseRefines == ASSUME Refuse PROVE Deque!Refuse
  BY ContentsIsWindow DEF Refuse, Deque!Refuse, Result, Deque!Result

LEMMA StepRefines ==
  ASSUME IInv, IInv', Next PROVE [Deque!Next]_(Deque!vars)
  <1> USE DEF Deque!Next
  <1>1. ASSUME NEW e \in Event, pushBack(e) PROVE Deque!Next
    <2>1. CASE MayPush
      <3>1. Contents' = Append(Contents, e)
        BY <1>1, <2>1, PushBackWindow, ContentsIsWindow
      <3>2. Deque!Put(Append(Contents, e))
        BY <1>1, <2>1, <3>1 DEF pushBack, Deque!Put, Result, Deque!Result
      <3> QED BY <1>1, <2>1, <3>2, GuardsAgree DEF Deque!PushBack
    <2>2. CASE ~MayPush
      BY <1>1, <2>2, GuardsAgree, RefuseRefines DEF pushBack, Deque!PushBack
    <2> QED BY <2>1, <2>2
  <1>2. ASSUME NEW e \in Event, pushFront(e) PROVE Deque!Next
    <2>1. CASE MayPush
      <3>1. Contents' = <<e>> \o Contents
        BY <1>2, <2>1, PushFrontWindow, ContentsIsWindow
      <3>2. Deque!Put(<<e>> \o Contents)
        BY <1>2, <2>1, <3>1 DEF pushFront, Deque!Put, Result, Deque!Result
      <3> QED BY <1>2, <2>1, <3>2, GuardsAgree DEF Deque!PushFront
    <2>2. CASE ~MayPush
      BY <1>2, <2>2, GuardsAgree, RefuseRefines DEF pushFront, Deque!PushFront
    <2> QED BY <2>1, <2>2
  <1>3. ASSUME popFront PROVE Deque!PopFront
    <2>1. CASE MayTake
      <3>1. Contents' = Tail(Contents)
        BY <1>3, <2>1, PopFrontWindow, ContentsIsWindow
      <3>2. Deque!Put(Tail(Contents))
        BY <1>3, <2>1, <3>1 DEF popFront, Deque!Put, Result, Deque!Result
      <3> QED BY <2>1, <3>2, GuardsAgree DEF Deque!PopFront
    <2>2. CASE ~MayTake
      BY <1>3, <2>2, GuardsAgree, RefuseRefines DEF popFront, Deque!PopFront
    <2> QED BY <2>1, <2>2
  <1>4. ASSUME popBack PROVE Deque!PopBack
    <2>1. CASE MayTake
      <3>1. Contents' = SubSeq(Contents, 1, Len(Contents) - 1)
        BY <1>4, <2>1, PopBackWindow, ContentsIsWindow
      <3>2. Deque!Put(SubSeq(Contents, 1, Len(Contents) - 1))
        BY <1>4, <2>1, <3>1 DEF popBack, Deque!Put, Result, Deque!Result
      <3> QED BY <2>1, <3>2, GuardsAgree DEF Deque!PopBack
    <2>2. CASE ~MayTake
      BY <1>4, <2>2, GuardsAgree, RefuseRefines DEF popBack, Deque!PopBack
    <2> QED BY <2>1, <2>2
  <1>5. ASSUME UNCHANGED <<eventArr, head, size>> PROVE Contents' = Contents
    BY <1>5, ContentsIsWindow
  <1>6. ASSUME getFirst PROVE Deque!GetFirst
    <2>1. CASE MayTake
      BY <1>5, <1>6, <2>1, GuardsAgree DEF getFirst, Deque!GetFirst, Deque!Read, Result, Deque!Result
    <2>2. CASE ~MayTake
      BY <1>6, <2>2, GuardsAgree, RefuseRefines DEF getFirst, Deque!GetFirst
    <2> QED BY <2>1, <2>2
  <1>7. ASSUME getLast PROVE Deque!GetLast
    <2>1. CASE MayTake
      BY <1>5, <1>7, <2>1, GuardsAgree DEF getLast, Deque!GetLast, Deque!Read, Result, Deque!Result
    <2>2. CASE ~MayTake
      BY <1>7, <2>2, GuardsAgree, RefuseRefines DEF getLast, Deque!GetLast
    <2> QED BY <2>1, <2>2
  <1>8. ASSUME clearEventQueue PROVE Deque!Clear
    <2>1. size' = 0
      BY <1>8 DEF clearEventQueue
    <2>2. Contents' = << >>
      BY <2>1, WindowIsSeq, RingFactsHold, ContentsIsWindow
    <2> QED BY <1>8, <2>2 DEF clearEventQueue, Deque!Clear
  <1>9. ASSUME NEW s \in Status, setStatus(s) PROVE Deque!SetHalted
    BY <1>5, <1>9 DEF setStatus, Deque!SetHalted
  <1> QED BY <1>1, <1>2, <1>3, <1>4, <1>6, <1>7, <1>8, <1>9 DEF Next

\* For every array size the circular array implements the bounded deque of EventDeque: every
\* call of a session has the effect and the result of the deque operation.
THEOREM RingImplementsDeque == Spec => ImplementsDeque
  <1>1. Init => Deque!Init
    <2> SUFFICES ASSUME Init PROVE Deque!Init
      OBVIOUS
    <2>1. IInv
      BY InitInv
    <2>2. Contents = << >>
      <3>1. size = 0
        BY DEF Init
      <3> QED BY <2>1, <3>1, RingFactsHold, WindowIsSeq, ContentsIsWindow DEF RingFacts
    <2> QED BY <2>2 DEF Init, Deque!Init, Result, Deque!Result
  <1>2. ASSUME IInv, IInv', [Next]_vars PROVE [Deque!Next]_(Deque!vars)
    <2>1. CASE Next
      BY <1>2, <2>1, StepRefines
    <2>2. CASE UNCHANGED vars
      BY <2>2, ContentsIsWindow DEF vars, Deque!vars
    <2> QED BY <1>2, <2>1, <2>2
  <1> QED BY <1>1, <1>2, InitInv, NextInv, PTL DEF Spec, ImplementsDeque, Deque!Spec
-------------------------------------------------------------------------------
(* The manager of the sessions: it stays empty. *)

CONSTANTS Threads, Keys, Values, NoValue

VARIABLES sessionMap, managerStatus, kv_map, readers, waiting

Manager == INSTANCE SessionManager WITH status <- managerStatus

\* No session is there, and so no handler runs.
Idle == Manager!NoSession /\ readers = {}

LEMMA IdleInit == Manager!Init => Idle
  BY DEF Manager!Init, Idle, Manager!NoSession

LEMMA IdleStep == Idle /\ [Manager!Next]_(Manager!vars) => Idle'
  <1> SUFFICES ASSUME Idle, [Manager!Next]_(Manager!vars) PROVE Idle'
    OBVIOUS
  <1> USE DEF Idle, Manager!NoSession
  <1>1. CASE UNCHANGED Manager!vars
    BY <1>1 DEF Manager!vars
  <1>2. ASSUME NEW t \in Threads, NEW k \in Keys, NEW st \in Manager!Statuses, Manager!addSession(t, k, st)
        PROVE  Idle'
    BY <1>2 DEF Manager!addSession, Manager!Exclusively
  <1>3. ASSUME NEW t \in Threads, NEW k \in Keys, Manager!removeSession(t, k) \/ Manager!remove(t, k)
        PROVE  Idle'
    BY <1>3 DEF Manager!removeSession, Manager!remove, Manager!Exclusively
  <1>4. ASSUME NEW t \in Threads, NEW k \in Keys, Manager!runSessionHandler(t, k) PROVE Idle'
    BY <1>4 DEF Manager!runSessionHandler
  <1>5. ASSUME NEW t \in Threads, NEW k \in Keys, NEW v \in Values, Manager!put(t, k, v) PROVE Idle'
    BY <1>5 DEF Manager!put, Manager!Exclusively
  <1>6. ASSUME NEW t \in Threads, NEW st \in Manager!Statuses, Manager!setStatus(t, st) PROVE Idle'
    BY <1>6 DEF Manager!setStatus, Manager!Exclusively
  <1>7. ASSUME NEW t \in Threads,
               \/ Manager!Acquire(t, "shared") \/ Manager!Acquire(t, "exclusive")
               \/ Manager!removeAll(t) \/ Manager!get(t) \/ Manager!read(t) \/ Manager!handlerReturns(t)
        PROVE  Idle'
    BY <1>7 DEF Manager!Acquire, Manager!removeAll, Manager!get, Manager!read,
                Manager!handlerReturns, Manager!Exclusively
  <1> QED BY <1>1, <1>2, <1>3, <1>4, <1>5, <1>6, <1>7 DEF Manager!Next

\* No call of addSession ever adds a session, whatever else is called: the test for the key
\* in addSession is the wrong way round.
THEOREM ManagerStaysEmpty == Manager!Spec => []Manager!NoSession
  <1>1. Idle => Manager!NoSession
    BY DEF Idle
  <1> QED BY IdleInit, IdleStep, <1>1, PTL DEF Manager!Spec
===============================================================================
