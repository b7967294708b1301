---------------------------- MODULE EventDispatcher ----------------------------
(***************************************************************************)
(* The thread pool that runs named callbacks: svrutil::EventDispatcher of  *)
(* src/Server8/svrutil.h, used by both indexers. Clients (the program's    *)
(* main thread, and callbacks) register callbacks and submit events; the   *)
(* worker threads take events from one list and run what is registered     *)
(* under the event's name.                                                 *)
(*                                                                         *)
(* A worker reads status without the lock, takes an event under the        *)
(* exclusive lock, looks its callback up under the shared lock, and        *)
(* follows the iterator it found after it has released that lock. A name's *)
(* node in callbackMap is numbered by how often the name has been added,   *)
(* so an iterator to a node that was erased is seen to be invalid even if  *)
(* the name has been added again. The destructor waits for nobody: after   *)
(* it, what workers read of the object is gone. Until then a callback that *)
(* still runs may call what it likes, setStatus included, which overwrites *)
(* the destructor's HALT. Following an invalid iterator or reading the     *)
(* dead object sets fault, which ends a behaviour.                         *)
(*                                                                         *)
(* getEventPeeks, addCallbackReplaces, findInverted, testIgnoresHalt and   *)
(* checkIgnoresSuspend are faulty variants of the definitions that follow  *)
(* them, used by no action.                                                *)
(***************************************************************************)
EXTENDS Integers, Sequences

CONSTANTS Workers,   \* the threads the constructor starts
          Names, Args, NoEvent,
          MaxAdds    \* bound: how often a name is added

ASSUME AddsAssumption == MaxAdds \in Nat \ {0}

VARIABLES status,       \* RUNNING, SUSPEND or HALT
          callbackMap,  \* per name, the number of its node; 0 when there is none
          adds,         \* per name, how often it has been added
          eventList,    \* the events nobody has taken
          pc, hand, it, \* per worker: where it is, its event, its iterator
          destructor,   \* "no", "begun" or "returned"
          fault,        \* something dead has been read
          outcome, removed  \* what became of each event, and names removed: observers only

client == <<status, callbackMap, adds, removed>>
vars == <<client, eventList, pc, hand, it, destructor, fault, outcome>>

Event(n, a) == [name |-> n, arg |-> a]
Events == [name : Names, arg : Args]

Init ==
    /\ status = "RUNNING"
    /\ callbackMap = [n \in Names |-> 0]
    /\ adds = [n \in Names |-> 0]
    /\ eventList = << >>
    /\ pc = [w \in Workers |-> "test"]
    /\ hand = [w \in Workers |-> NoEvent]
    /\ it = [w \in Workers |-> 0]
    /\ destructor = "no" /\ fault = FALSE
    /\ outcome = [a \in Args |-> "none"]
    /\ removed = {}

-------------------------------------------------------------------------------
(* What clients call. Nobody calls a dispatcher whose destructor runs, except callbacks *)
(* that are still running.                                                               *)

Destroyed == destructor = "returned"
InCallback == \E w \in Workers : pc[w] = "running"
Live == ~fault /\ (destructor = "no" \/ (destructor = "begun" /\ InCallback))

addCallbackReplaces(n) ==
    /\ Live /\ adds[n] < MaxAdds
    /\ callbackMap' = [callbackMap EXCEPT ![n] = adds[n] + 1]
    /\ adds' = [adds EXCEPT ![n] = @ + 1]
    /\ UNCHANGED <<status, removed, eventList, pc, hand, it, destructor, fault, outcome>>

\* A name that is registered keeps its callback.
addCallback(n) ==
    /\ Live /\ adds[n] < MaxAdds
    /\ callbackMap[n] = 0
    /\ callbackMap' = [callbackMap EXCEPT ![n] = adds[n] + 1]
    /\ adds' = [adds EXCEPT ![n] = @ + 1]
    /\ UNCHANGED <<status, removed, eventList, pc, hand, it, destructor, fault, outcome>>

removeCallback(n) ==
    /\ Live /\ callbackMap[n] # 0
    /\ callbackMap' = [callbackMap EXCEPT ![n] = 0]
    /\ removed' = removed \cup {n}
    /\ UNCHANGED <<status, adds, eventList, pc, hand, it, destructor, fault, outcome>>

\* An event whose name is not registered is ignored, though submitEvent returns true then too.
submitEvent(n, a) ==
    /\ Live
    /\ outcome[a] = "none"
    /\ callbackMap[n] # 0
    /\ eventList' = Append(eventList, Event(n, a))
    /\ outcome' = [outcome EXCEPT ![a] = "waiting"]
    /\ UNCHANGED <<client, pc, hand, it, destructor, fault>>

\* HALT is refused.
setStatus(st) ==
    /\ Live /\ st \in {"RUNNING", "SUSPEND"}
    /\ status' = st
    /\ UNCHANGED <<callbackMap, adds, removed, eventList, pc, hand, it, destructor, fault, outcome>>

\* The destructor sets HALT, sleeps 200 ms and returns, wherever the workers are.
halt ==
    /\ ~fault /\ destructor = "no"
    /\ status' = "HALT" /\ destructor' = "begun"
    /\ UNCHANGED <<callbackMap, adds, removed, eventList, pc, hand, it, fault, outcome>>

destroy ==
    /\ ~fault /\ destructor = "begun"
    /\ destructor' = "returned"
    /\ UNCHANGED <<client, eventList, pc, hand, it, fault, outcome>>

\* A callback that has not returned calls the object that is gone.
lateCall ==
    /\ ~fault /\ Destroyed /\ InCallback
    /\ fault' = TRUE
    /\ UNCHANGED <<client, eventList, pc, hand, it, destructor, outcome>>

-------------------------------------------------------------------------------
(* workThread. *)

\* The iterator still refers to the node it was found at.
ValidIterator(w) == callbackMap[hand[w].name] = it[w]

\* What worker w reads next is there: of a callback that runs, only its calls read anything.
Usable(w) ==
    \/ pc[w] \in {"running", "returned"}
    \/ ~Destroyed /\ (pc[w] = "run" => ValidIterator(w))

UseAfterFree(w) ==
    /\ ~fault /\ ~Usable(w)
    /\ fault' = TRUE
    /\ UNCHANGED <<client, eventList, pc, hand, it, destructor, outcome>>

At(w, label) == ~fault /\ pc[w] = label /\ Usable(w)
Goto(w, label) == pc' = [pc EXCEPT ![w] = label]

testIgnoresHalt(w) ==
    /\ At(w, "test")
    /\ Goto(w, "check")
    /\ UNCHANGED <<client, eventList, hand, it, destructor, fault, outcome>>

\* The loop's condition.
testStatus(w) ==
    /\ At(w, "test")
    /\ Goto(w, IF status = "HALT" THEN "returned" ELSE "check")
    /\ UNCHANGED <<client, eventList, hand, it, destructor, fault, outcome>>

checkIgnoresSuspend(w) ==
    /\ At(w, "check")
    /\ Goto(w, "get")
    /\ UNCHANGED <<client, eventList, hand, it, destructor, fault, outcome>>

\* The second read of status: a suspended worker sleeps and tests again.
checkSuspend(w) ==
    /\ At(w, "check")
    /\ Goto(w, IF status = "SUSPEND" THEN "test" ELSE "get")
    /\ UNCHANGED <<client, eventList, hand, it, destructor, fault, outcome>>

getEventPeeks(w) ==
    /\ At(w, "get")
    /\ IF eventList # << >>
       THEN /\ hand' = [hand EXCEPT ![w] = Head(eventList)]
            /\ outcome' = [outcome EXCEPT ![Head(eventList).arg] = "taken"]
            /\ Goto(w, "find")
       ELSE Goto(w, "test") /\ UNCHANGED <<hand, outcome>>
    /\ UNCHANGED <<client, eventList, it, destructor, fault>>

getEvent(w) ==
    /\ At(w, "get")
    /\ IF eventList # << >>
       THEN /\ hand' = [hand EXCEPT ![w] = Head(eventList)]
            /\ eventList' = Tail(eventList)
            /\ outcome' = [outcome EXCEPT ![Head(eventList).arg] = "taken"]
            /\ Goto(w, "find")
       ELSE Goto(w, "test") /\ UNCHANGED <<eventList, hand, outcome>>
    /\ UNCHANGED <<client, it, destructor, fault>>

findInverted(w) ==
    /\ At(w, "find")
    /\ IF callbackMap[hand[w].name] = 0
       THEN /\ it' = [it EXCEPT ![w] = callbackMap[hand[w].name]]
            /\ Goto(w, "run")
            /\ UNCHANGED <<hand, outcome>>
       ELSE /\ outcome' = [outcome EXCEPT ![hand[w].arg] = "dropped"]
            /\ hand' = [hand EXCEPT ![w] = NoEvent]
            /\ Goto(w, "test")
            /\ UNCHANGED it
    /\ UNCHANGED <<client, eventList, destructor, fault>>

\* The event of a name that is no longer registered is forgotten.
findCallback(w) ==
    /\ At(w, "find")
    /\ IF callbackMap[hand[w].name] # 0
       THEN /\ it' = [it EXCEPT ![w] = callbackMap[hand[w].name]]
            /\ Goto(w, "run")
            /\ UNCHANGED <<hand, outcome>>
       ELSE /\ outcome' = [outcome EXCEPT ![hand[w].arg] = "dropped"]
            /\ hand' = [hand EXCEPT ![w] = NoEvent]
            /\ Goto(w, "test")
            /\ UNCHANGED it
    /\ UNCHANGED <<client, eventList, destructor, fault>>

\* it->second->run(pArgType), after the shared lock has been released.
run(w) ==
    /\ At(w, "run")
    /\ outcome' = [outcome EXCEPT ![hand[w].arg] = "ran"]
    /\ Goto(w, "running")
    /\ UNCHANGED <<client, eventList, hand, it, destructor, fault>>

runReturns(w) ==
    /\ At(w, "running")
    /\ hand' = [hand EXCEPT ![w] = NoEvent]
    /\ Goto(w, "test")
    /\ UNCHANGED <<client, eventList, it, destructor, fault, outcome>>

workThread(w) ==
    \/ testStatus(w) \/ checkSuspend(w) \/ getEvent(w) \/ findCallback(w)
    \/ run(w) \/ runReturns(w) \/ UseAfterFree(w)

Next ==
    \/ \E n \in Names : addCallback(n) \/ removeCallback(n) \/ \E a \in Args : submitEvent(n, a)
    \/ \E st \in {"RUNNING", "SUSPEND", "HALT"} : setStatus(st)
    \/ halt \/ destroy \/ lateCall
    \/ \E w \in Workers : workThread(w)

Spec == Init /\ [][Next]_vars

\* Every thread is scheduled and callbacks return. No client is obliged to call anything.
FairSpec == Spec /\ \A w \in Workers : WF_vars(workThread(w))

-------------------------------------------------------------------------------
(* Properties. *)

Labels == {"test", "check", "get", "find", "run", "running", "returned"}
Outcomes == {"none", "waiting", "taken", "ran", "dropped"}
Holding == {"find", "run", "running"}

\* Every variable has its type, and a worker past getEvent has an event.
TypeOK ==
    /\ status \in {"RUNNING", "SUSPEND", "HALT"}
    /\ callbackMap \in [Names -> Nat] /\ adds \in [Names -> Nat]
    /\ eventList \in Seq(Events)
    /\ pc \in [Workers -> Labels]
    /\ hand \in [Workers -> Events \cup {NoEvent}]
    /\ \A w \in Workers : pc[w] \in Holding => hand[w] \in Events
    /\ it \in [Workers -> Nat]
    /\ destructor \in {"no", "begun", "returned"} /\ fault \in BOOLEAN
    /\ outcome \in [Args -> Outcomes]
    /\ removed \subseteq Names

\* A dispatcher that is neither destroyed nor robbed of a callback reads nothing dead,
\* although a worker uses its iterator after it has released the lock.
FaultHasCause == fault => removed # {} \/ Destroyed

\* An event that is waiting or taken gets run once the dispatcher keeps running, loses no
\* callback and is there: no accepted event is stranded, whatever the order of the workers'
\* steps, even if a callback undoes the destructor's HALT.
EventsRun ==
    <>[](status = "RUNNING") /\ [](removed = {} /\ ~Destroyed) =>
        \A a \in Args : outcome[a] = "waiting" ~> outcome[a] = "ran"

\* A dispatcher that stays suspended comes to rest: every worker ends what it has begun and
\* takes nothing new.
SuspendRests ==
    <>[](status = "SUSPEND" \/ fault) =>
        <>[](fault \/ \A w \in Workers : pc[w] \in {"test", "check", "returned"})

\* Every thread returns after the destructor's HALT, unless a callback overwrites it or the
\* thread finds the object gone first.
HaltReturns == <>[](status = "HALT") => <>(fault \/ \A w \in Workers : pc[w] = "returned")

Service == INSTANCE EventService WITH waiting <- eventList

\* Accepted events are taken in order, each by one worker, and run once unless a callback
\* has been removed.
ImplementsService == Service!Spec
===============================================================================
