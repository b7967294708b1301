----------------------------- MODULE EventService -----------------------------
(***************************************************************************)
(* What the dispatcher promises about the events it accepts: they are      *)
(* taken in the order of their submission, each by one thread, and what is *)
(* taken runs once, unless its callback has been removed at some time.     *)
(* EventDispatcher.tla implements this module.                             *)
(***************************************************************************)
EXTENDS Sequences

CONSTANTS Names,    \* the names callbacks are registered under
          Args      \* the events, each submitted at most once

VARIABLES waiting,  \* the accepted events nobody has taken, first in first out
          outcome,  \* per event: "none", "waiting", "taken", "ran" or "dropped"
          removed   \* names whose callback has been removed

Event(n, a) == [name |-> n, arg |-> a]

Init ==
    /\ waiting = << >>
    /\ outcome = [a \in Args |-> "none"]
    /\ removed = {}

Accept(n, a) ==
    /\ outcome[a] = "none"
    /\ outcome' = [outcome EXCEPT ![a] = "waiting"]
    /\ waiting' = Append(waiting, Event(n, a))
    /\ UNCHANGED removed

Take ==
    /\ waiting # << >>
    /\ outcome[Head(waiting).arg] = "waiting"
    /\ outcome' = [outcome EXCEPT ![Head(waiting).arg] = "taken"]
    /\ waiting' = Tail(waiting)
    /\ UNCHANGED removed

Settle(a, how) ==
    /\ outcome[a] = "taken"
    /\ how = "dropped" => removed # {}
    /\ outcome' = [outcome EXCEPT ![a] = how]
    /\ UNCHANGED <<waiting, removed>>

Remove(n) == removed' = removed \cup {n} /\ UNCHANGED <<waiting, outcome>>

Next ==
    \/ \E n \in Names, a \in Args : Accept(n, a)
    \/ Take
    \/ \E a \in Args, how \in {"ran", "dropped"} : Settle(a, how)
    \/ \E n \in Names : Remove(n)

Spec == Init /\ [][Next]_<<waiting, outcome, removed>>
===============================================================================
