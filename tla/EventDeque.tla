------------------------------ MODULE EventDeque ------------------------------
(***************************************************************************)
(* What a session promises to its callers: a double-ended queue of at most *)
(* Capacity events, closed to pushes, pops and reads while it is halted.   *)
(* Nothing is said of the array behind it. SessionQueue.tla models the     *)
(* array of class svr::Session and is shown to implement this module.      *)
(***************************************************************************)
EXTENDS Integers, Sequences

CONSTANTS Event,      \* the payloads callers push
          NoEvent,    \* the NULL a refused read hands back
          Capacity    \* the number of events the deque holds

VARIABLES queue,      \* the events, front first
          halted,     \* is the session in STATUS_HALT
          ret         \* what the last call returned: its bool and the event read

vars == <<queue, halted, ret>>

Result(ok, e) == [ok |-> ok, event |-> e]

Init ==
    /\ queue = << >>
    /\ halted \in BOOLEAN
    /\ ret = Result(FALSE, NoEvent)

Refuse ==
    /\ ret' = Result(FALSE, NoEvent)
    /\ UNCHANGED <<queue, halted>>

Put(q) ==
    /\ queue' = q
    /\ ret' = Result(TRUE, NoEvent)
    /\ UNCHANGED halted

Read(e) ==
    /\ ret' = Result(TRUE, e)
    /\ UNCHANGED <<queue, halted>>

MayPush == ~halted /\ Len(queue) < Capacity
MayTake == ~halted /\ queue # << >>

PushBack(e)  == IF MayPush THEN Put(Append(queue, e)) ELSE Refuse
PushFront(e) == IF MayPush THEN Put(<<e>> \o queue) ELSE Refuse
PopFront     == IF MayTake THEN Put(Tail(queue)) ELSE Refuse
PopBack      == IF MayTake THEN Put(SubSeq(queue, 1, Len(queue) - 1)) ELSE Refuse
GetFirst     == IF MayTake THEN Read(queue[1]) ELSE Refuse
GetLast      == IF MayTake THEN Read(queue[Len(queue)]) ELSE Refuse

Clear == queue' = << >> /\ UNCHANGED <<halted, ret>>

SetHalted == halted' \in BOOLEAN /\ UNCHANGED <<queue, ret>>

Next ==
    \/ \E e \in Event : PushBack(e) \/ PushFront(e)
    \/ PopFront \/ PopBack \/ GetFirst \/ GetLast \/ Clear \/ SetHalted

Spec == Init /\ [][Next]_vars
===============================================================================
