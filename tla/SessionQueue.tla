----------------------------- MODULE SessionQueue -----------------------------
(***************************************************************************)
(* The event queue of class svr::Session (src/Server8/server.h): a         *)
(* circular double-ended queue in an array of Event objects. Every method  *)
(* holds sessionLock from its first to its last access, so one call is one *)
(* step; callers of any number of threads interleave call by call.         *)
(*                                                                         *)
(* An array element is the payload of the Event in it, or NoEvent once     *)
(* Event::release has dropped the payload.                                 *)
(*                                                                         *)
(* isFullLate, ForwardNoWrap, MayTakeHalted, popFrontStaleTail and         *)
(* clearKeepsPayloads are faulty variants of the definition that follows   *)
(* each of them; no action uses them. They show what the properties catch. *)
(***************************************************************************)
EXTENDS Integers, Sequences

CONSTANTS Event,              \* the payloads callers push
          NoEvent,            \* the payload of a released array element
          RequestedSize,      \* the maxSize argument of the constructor
          DEFAULT_QUEUE_SIZE  \* used for a maxSize that is not positive

ASSUME NoEventAssumption == NoEvent \notin Event
ASSUME SizeAssumption == RequestedSize \in Int /\ DEFAULT_QUEUE_SIZE \in Nat \ {0}

VARIABLES eventArr, head, tail, size, status,
          ret                 \* result of the last call: its bool and what *pEvent shows

vars == <<eventArr, head, tail, size, status, ret>>

maxSize == IF RequestedSize <= 0 THEN DEFAULT_QUEUE_SIZE ELSE RequestedSize

Status == {"STATUS_RUNNING", "STATUS_READY", "STATUS_SUSPEND", "STATUS_HALT"}
Slots  == 0 .. maxSize - 1
Result(ok, e) == [ok |-> ok, event |-> e]

-------------------------------------------------------------------------------
(* Array positions. *)

isFullLate == size > maxSize

isFull  == size = maxSize
isEmpty == size = 0

ForwardNoWrap(i) == i + 1

Forward(i)  == IF i # maxSize - 1 THEN i + 1 ELSE 0
Backward(i) == IF i # 0 THEN i - 1 ELSE maxSize - 1

\* The element i places after the head, as the loops of clearEventQueue and show visit them.
Slot(i) == IF head + i < maxSize THEN head + i ELSE head + i - maxSize

\* The elements the queue holds now.
Live == {Slot(i) : i \in 0 .. size - 1}

-------------------------------------------------------------------------------
(* The constructor and the methods. *)

Init ==
    /\ eventArr = [i \in Slots |-> NoEvent]
    /\ head = maxSize \div 2
    /\ tail = maxSize \div 2
    /\ size = 0
    /\ status \in Status
    /\ ret = Result(FALSE, NoEvent)

\* A call that finds the session halted, or the queue full or empty, changes nothing.
Refuse ==
    /\ ret' = Result(FALSE, NoEvent)
    /\ UNCHANGED <<eventArr, head, tail, size, status>>

MayTakeHalted == ~isEmpty

MayPush == status # "STATUS_HALT" /\ ~isFull
MayTake == status # "STATUS_HALT" /\ ~isEmpty

pushBack(e) ==
    \/ /\ MayPush
       /\ tail' = Forward(tail)
       /\ eventArr' = [eventArr EXCEPT ![tail'] = e]
       /\ size' = size + 1
       /\ head' = IF size # 0 THEN head ELSE tail'
       /\ ret' = Result(TRUE, NoEvent)
       /\ UNCHANGED status
    \/ ~MayPush /\ Refuse

pushFront(e) ==
    \/ /\ MayPush
       /\ head' = Backward(head)
       /\ eventArr' = [eventArr EXCEPT ![head'] = e]
       /\ size' = size + 1
       /\ tail' = IF size # 0 THEN tail ELSE head'
       /\ ret' = Result(TRUE, NoEvent)
       /\ UNCHANGED status
    \/ ~MayPush /\ Refuse

popFrontStaleTail ==
    \/ /\ MayTake
       /\ eventArr' = [eventArr EXCEPT ![head] = NoEvent]
       /\ head' = Forward(head)
       /\ size' = size - 1
       /\ ret' = Result(TRUE, NoEvent)
       /\ UNCHANGED <<tail, status>>
    \/ ~MayTake /\ Refuse

popFront ==
    \/ /\ MayTake
       /\ eventArr' = [eventArr EXCEPT ![head] = NoEvent]
       /\ head' = Forward(head)
       /\ size' = size - 1
       /\ tail' = IF size > 1 THEN tail ELSE head'
       /\ ret' = Result(TRUE, NoEvent)
       /\ UNCHANGED status
    \/ ~MayTake /\ Refuse

popBack ==
    \/ /\ MayTake
       /\ eventArr' = [eventArr EXCEPT ![tail] = NoEvent]
       /\ tail' = Backward(tail)
       /\ size' = size - 1
       /\ head' = IF size > 1 THEN head ELSE tail'
       /\ ret' = Result(TRUE, NoEvent)
       /\ UNCHANGED status
    \/ ~MayTake /\ Refuse

\* The pointer handed back addresses the array element itself; ret shows the payload behind it.
getFirst ==
    \/ /\ MayTake
       /\ ret' = Result(TRUE, eventArr[head])
       /\ UNCHANGED <<eventArr, head, tail, size, status>>
    \/ ~MayTake /\ Refuse

getLast ==
    \/ /\ MayTake
       /\ ret' = Result(TRUE, eventArr[tail])
       /\ UNCHANGED <<eventArr, head, tail, size, status>>
    \/ ~MayTake /\ Refuse

clearKeepsPayloads ==
    /\ size' = 0
    /\ tail' = maxSize \div 2
    /\ head' = maxSize \div 2
    /\ UNCHANGED <<eventArr, status, ret>>

\* Also what the destructor runs. It does not look at the status.
clearEventQueue ==
    /\ eventArr' = [i \in Slots |-> IF i \in Live THEN NoEvent ELSE eventArr[i]]
    /\ size' = 0
    /\ tail' = maxSize \div 2
    /\ head' = maxSize \div 2
    /\ UNCHANGED <<status, ret>>

setStatus(s) ==
    /\ status' = s
    /\ UNCHANGED <<eventArr, head, tail, size, ret>>

Next ==
    \/ \E e \in Event : pushBack(e) \/ pushFront(e)
    \/ popFront \/ popBack \/ getFirst \/ getLast
    \/ clearEventQueue
    \/ \E s \in Status : setStatus(s)

Spec == Init /\ [][Next]_vars
-------------------------------------------------------------------------------
(* Properties. *)

\* Every variable has its type; the indices never leave the array.
TypeOK ==
    /\ eventArr \in [Slots -> Event \cup {NoEvent}]
    /\ head \in Slots
    /\ tail \in Slots
    /\ size \in 0 .. maxSize
    /\ status \in Status
    /\ ret \in [ok : BOOLEAN, event : Event \cup {NoEvent}]

\* The three separately maintained fields agree: the tail is the size-th element counted
\* from the head, and an empty queue has head and tail on one element. pushBack and
\* pushFront resynchronise the other end only when the queue was empty, popFront and
\* popBack only when it becomes empty, so this takes a sequence of calls to break.
RingOK == tail = IF size = 0 THEN head ELSE Slot(size - 1)

\* A payload is held exactly while its event is queued: every queued element holds one and
\* every other element has been released, so nothing is leaked by pops and clears and no
\* reader ever sees a released event.
PayloadOwned == \A i \in Slots : i \in Live <=> eventArr[i] # NoEvent

\* No call overwrites an event that stays in the queue. getFirst and getLast hand out the
\* address of an array element and give up the lock: while that element stays queued its
\* payload is the one the caller was given, whatever the other threads push or pop.
QueuedKept == [][\A i \in Live \cap Live' : eventArr'[i] = eventArr[i]]_vars

\* The events in order from the front, for the refinement.
Contents == [i \in 1 .. size |-> eventArr[Slot(i - 1)]]

Deque == INSTANCE EventDeque
            WITH Capacity <- maxSize, queue <- Contents, halted <- (status = "STATUS_HALT")

\* The array implements a bounded deque: each call has the effect and the result that the
\* deque operation has on the sequence of queued events.
ImplementsDeque == Deque!Spec
===============================================================================
