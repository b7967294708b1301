------------------------- MODULE EventDispatcherProofs -------------------------
(***************************************************************************)
(* EventDispatcher keeps its types, reads nothing dead without a cause and *)
(* implements EventService, for every number of workers, names and events. *)
(* An accepted event is in the list or with one worker, never both, and    *)
(* its outcome says which; until a callback is removed, its name stays     *)
(* registered and the iterator a worker holds stays valid.                 *)
(***************************************************************************)
EXTENDS EventDispatcher, SequenceTheorems, TLAPS

\* The workers that have taken an event and not run it yet.
Has(w) == pc[w] \in {"find", "run"}

\* The list holds different events, all of them waiting.
ListOK ==
    /\ \A i \in 1 .. Len(eventList) : outcome[eventList[i].arg] = "waiting"
    /\ \A i, j \in 1 .. Len(eventList) : eventList[i].arg = eventList[j].arg => i = j

\* Workers have taken different events.
HandsOK ==
    /\ \A w \in Workers : Has(w) => outcome[hand[w].arg] = "taken"
    /\ \A v, w \in Workers : Has(v) /\ Has(w) /\ hand[v].arg = hand[w].arg => v = w

\* Without a removal accepted events keep their callback, and iterators their node.
NamesOK == removed = {} =>
    /\ \A i \in 1 .. Len(eventList) : callbackMap[eventList[i].name] # 0
    /\ \A w \in Workers : Has(w) => callbackMap[hand[w].name] # 0
    /\ \A w \in Workers : pc[w] = "run" => it[w] = callbackMap[hand[w].name]

IInv == TypeOK /\ ListOK /\ HandsOK /\ NamesOK /\ FaultHasCause

LEMMA AppendEvent ==
  ASSUME NEW q \in Seq(Events), NEW e \in Events
  PROVE  /\ Append(q, e) \in Seq(Events)
         /\ Len(Append(q, e)) = Len(q) + 1 /\ Len(q) \in Nat
         /\ \A i \in 1 .. Len(q) : q[i] \in Events
         /\ \A i \in 1 .. Len(q) + 1 : Append(q, e)[i] = IF i = Len(q) + 1 THEN e ELSE q[i]
  BY AppendProperties, LenProperties, ElementOfSeq

LEMMA TakeEvent ==
  ASSUME NEW q \in Seq(Events), q # << >>
  PROVE  /\ Head(q) = q[1] /\ Head(q) \in Events /\ Tail(q) \in Seq(Events)
         /\ Len(Tail(q)) = Len(q) - 1 /\ Len(q) \in Nat /\ Len(q) >= 1
         /\ \A i \in 1 .. Len(q) : q[i] \in Events
         /\ \A i \in 1 .. Len(q) - 1 : Tail(q)[i] = q[i + 1]
  <1>1. Len(q) \in Nat /\ Len(q) >= 1
    BY LenProperties, EmptySeq
  <1>2. Head(q) = q[1]
    OBVIOUS
  <1> QED BY <1>1, <1>2, HeadTailProperties, ElementOfSeq

LEMMA ListedEvents ==
  ASSUME TypeOK
  PROVE  \A i \in 1 .. Len(eventList) :
            eventList[i] \in Events /\ eventList[i].name \in Names /\ eventList[i].arg \in Args
  <1>1. eventList \in Seq(Events)
    BY DEF TypeOK
  <1>2. \A i \in 1 .. Len(eventList) : eventList[i] \in Events
    BY <1>1, ElementOfSeq
  <1> QED BY <1>2 DEF Events

\* The initial state.
LEMMA InitInv == Init => IInv
  <1> SUFFICES ASSUME Init PROVE IInv
    OBVIOUS
  <1>1. eventList \in Seq(Events) /\ Len(eventList) = 0
    BY DEF Init
  <1>2. TypeOK
    BY <1>1 DEF Init, TypeOK, Labels, Holding, Outcomes
  <1>3. \A i \in 1 .. Len(eventList) : FALSE
    BY <1>1
  <1>4. \A w \in Workers : ~Has(w)
    BY DEF Init, Has
  <1>5. ListOK /\ HandsOK
    BY <1>3, <1>4 DEF ListOK, HandsOK
  <1>6. NamesOK
    BY <1>3, <1>4 DEF NamesOK, Has
  <1> QED BY <1>2, <1>5, <1>6 DEF Init, IInv, FaultHasCause, Destroyed

\* Calls that leave the list, the workers and the outcomes alone.
LEMMA ClientInv ==
  ASSUME IInv,
         \/ \E n \in Names : addCallback(n) \/ removeCallback(n)
         \/ \E st \in {"RUNNING", "SUSPEND", "HALT"} : setStatus(st)
         \/ halt \/ destroy \/ lateCall
  PROVE  IInv'
  <1> USE DEF IInv
  <1>1. UNCHANGED <<eventList, pc, hand, it, outcome>>
    BY DEF addCallback, removeCallback, setStatus, halt, destroy, lateCall, client
  <1>2. TypeOK'
    <2>1. ASSUME NEW n \in Names, addCallback(n) PROVE TypeOK'
      BY <2>1 DEF TypeOK, addCallback
    <2>2. ASSUME NEW n \in Names, removeCallback(n) PROVE TypeOK'
      BY <2>2 DEF TypeOK, removeCallback
    <2>3. CASE halt \/ \E st \in {"RUNNING", "SUSPEND", "HALT"} : setStatus(st)
      BY <2>3 DEF TypeOK, halt, setStatus
    <2>4. CASE destroy \/ lateCall
      BY <2>4 DEF TypeOK, destroy, lateCall, client
    <2> QED BY <2>1, <2>2, <2>3, <2>4
  <1>3. ListOK' /\ HandsOK'
    BY <1>1 DEF ListOK, HandsOK, Has
  <1>4. NamesOK'
    <2>1. ASSUME NEW n \in Names, addCallback(n) PROVE NamesOK'
      <3>1. /\ removed' = removed /\ callbackMap[n] = 0
            /\ \A m \in Names : m # n => callbackMap'[m] = callbackMap[m]
        BY <2>1 DEF addCallback, TypeOK
      <3>2. /\ \A i \in 1 .. Len(eventList) : eventList[i].name \in Names
            /\ \A w \in Workers : Has(w) => hand[w].name \in Names
        BY ListedEvents DEF TypeOK, Events, Has, Holding
      <3> QED BY <1>1, <3>1, <3>2 DEF NamesOK, Has
    <2>2. ASSUME NEW n \in Names, removeCallback(n) PROVE NamesOK'
      BY <2>2 DEF removeCallback, NamesOK
    <2>3. CASE halt \/ destroy \/ lateCall \/ \E st \in {"RUNNING", "SUSPEND", "HALT"} : setStatus(st)
      BY <2>3, <1>1 DEF halt, setStatus, destroy, lateCall, client, NamesOK, Has
    <2> QED BY <2>1, <2>2, <2>3
  <1>5. FaultHasCause'
    BY <1>1 DEF FaultHasCause, Destroyed, addCallback, removeCallback, setStatus, halt, destroy,
                lateCall, client
  <1> QED BY <1>2, <1>3, <1>4, <1>5

LEMMA SubmitInv ==
  ASSUME IInv, NEW n \in Names, NEW a \in Args, submitEvent(n, a)
  PROVE  IInv'
  <1> USE DEF IInv
  <1> DEFINE k == Len(eventList)
  <1>1. /\ eventList' \in Seq(Events) /\ Len(eventList') = k + 1 /\ k \in Nat
        /\ \A i \in 1 .. k : eventList[i] \in Events
        /\ \A i \in 1 .. k + 1 : eventList'[i] = IF i = k + 1 THEN Event(n, a) ELSE eventList[i]
    <2>1. eventList \in Seq(Events) /\ Event(n, a) \in Events
      BY DEF TypeOK, Event, Events
    <2>2. eventList' = Append(eventList, Event(n, a))
      BY DEF submitEvent
    <2> QED BY <2>1, <2>2, AppendEvent
  <1>2. /\ Event(n, a).name = n /\ Event(n, a).arg = a
        /\ \A i \in 1 .. k : eventList[i].arg \in Args
        /\ \A i \in 1 .. k : outcome[eventList[i].arg] = "waiting"
        /\ \A i, j \in 1 .. k : eventList[i].arg = eventList[j].arg => i = j
    BY <1>1 DEF Event, Events, ListOK
  <1>3. /\ outcome[a] = "none" /\ outcome'[a] = "waiting"
        /\ \A b \in Args : b # a => outcome'[b] = outcome[b]
        /\ UNCHANGED <<client, pc, hand, it, destructor, fault>> /\ callbackMap[n] # 0
    BY DEF submitEvent, TypeOK
  <1>4. TypeOK'
    BY <1>1 DEF TypeOK, submitEvent, client, Outcomes
  <1> HIDE DEF k
  <1>5. \A i \in 1 .. k + 1 : i = k + 1 \/ i \in 1 .. k
    BY <1>1
  <1>6. ListOK'
    <2>1. \A i \in 1 .. k + 1 : outcome'[eventList'[i].arg] = "waiting"
      BY <1>1, <1>2, <1>3, <1>5
    <2>2. \A i, j \in 1 .. k + 1 : eventList'[i].arg = eventList'[j].arg => i = j
      BY <1>1, <1>2, <1>3, <1>5
    <2> QED BY <1>1, <2>1, <2>2 DEF ListOK
  <1>7. HandsOK'
    <2>1. \A w \in Workers : Has(w) => hand[w].arg \in Args
      BY DEF TypeOK, Events, Has, Holding
    <2> QED BY <2>1, <1>3 DEF HandsOK, Has
  <1>8. NamesOK'
    <2>1. removed' = removed /\ callbackMap' = callbackMap
      BY <1>3 DEF client
    <2>2. removed = {} => \A i \in 1 .. k + 1 : callbackMap[eventList'[i].name] # 0
      BY <1>1, <1>2, <1>3, <1>5 DEF NamesOK, k
    <2> QED BY <1>1, <1>3, <2>1, <2>2 DEF NamesOK, Has
  <1>9. FaultHasCause'
    BY <1>3 DEF FaultHasCause, Destroyed, client
  <1> QED BY <1>4, <1>6, <1>7, <1>8, <1>9

\* getEvent with a list that is not empty: the first event moves into the worker's hand.
LEMMA GetInv ==
  ASSUME IInv, NEW w \in Workers, getEvent(w), eventList # << >>
  PROVE  IInv'
  <1> USE DEF IInv
  <1> DEFINE k == Len(eventList)
             e == Head(eventList)
  <1>1. /\ e = eventList[1] /\ e \in Events /\ eventList' \in Seq(Events)
        /\ Len(eventList') = k - 1 /\ k \in Nat /\ k >= 1
        /\ \A i \in 1 .. k : eventList[i] \in Events
        /\ \A i \in 1 .. k - 1 : eventList'[i] = eventList[i + 1]
    BY TakeEvent DEF TypeOK, getEvent
  <1>2. /\ ~fault /\ pc[w] = "get" /\ hand' = [hand EXCEPT ![w] = e]
        /\ outcome' = [outcome EXCEPT ![e.arg] = "taken"]
        /\ pc' = [pc EXCEPT ![w] = "find"]
        /\ UNCHANGED <<client, it, destructor, fault>>
    BY DEF getEvent, At, Goto
  <1> HIDE DEF k, e
  <1>3. TypeOK'
    BY <1>1, <1>2 DEF TypeOK, client, Events, Labels, Holding, Outcomes
  <1>4. /\ e.arg \in Args /\ \A i \in 1 .. k : eventList[i].arg \in Args
        /\ outcome'[e.arg] = "taken"
        /\ \A b \in Args : b # e.arg => outcome'[b] = outcome[b]
        /\ \A v \in Workers : v # w => pc'[v] = pc[v] /\ hand'[v] = hand[v]
        /\ pc'[w] = "find" /\ hand'[w] = e
    BY <1>1, <1>2 DEF TypeOK, Events
  <1>5. /\ 1 \in 1 .. k
        /\ \A i \in 1 .. k - 1 : i + 1 \in 1 .. k /\ i + 1 # 1
        /\ \A i, j \in 1 .. k - 1 : i + 1 = j + 1 => i = j
    BY <1>1
  <1>6. ListOK'
    <2>1. \A i \in 1 .. k - 1 : eventList'[i].arg # e.arg
      BY <1>1, <1>5 DEF ListOK, k
    <2>2. \A i \in 1 .. k - 1 : outcome'[eventList'[i].arg] = "waiting"
      BY <1>1, <1>4, <1>5, <2>1 DEF ListOK, k
    <2>3. \A i, j \in 1 .. k - 1 : eventList'[i].arg = eventList'[j].arg => i = j
      BY <1>1, <1>5 DEF ListOK, k
    <2> QED BY <1>1, <2>2, <2>3 DEF ListOK
  <1>7. HandsOK'
    <2>1. \A v \in Workers : Has(v) => hand[v].arg \in Args /\ hand[v].arg # e.arg
      <3>1. outcome[e.arg] = "waiting"
        BY <1>1, <1>5 DEF ListOK, k
      <3> QED BY <3>1 DEF TypeOK, Events, Has, Holding, HandsOK
    <2> QED BY <1>4, <2>1 DEF HandsOK, Has
  <1>8. NamesOK'
    <2>1. removed' = removed /\ callbackMap' = callbackMap /\ it' = it
      BY <1>2 DEF client
    <2>2. removed = {} => callbackMap[e.name] # 0
                          /\ \A i \in 1 .. k - 1 : callbackMap[eventList'[i].name] # 0
      BY <1>1, <1>5 DEF NamesOK, k
    <2> QED BY <1>1, <1>4, <2>1, <2>2 DEF NamesOK, Has
  <1>9. FaultHasCause'
    BY <1>2 DEF FaultHasCause, Destroyed, client
  <1> QED BY <1>3, <1>6, <1>7, <1>8, <1>9

\* The other steps of a worker change no list.
LEMMA WorkerInv ==
  ASSUME IInv, NEW w \in Workers, workThread(w), UNCHANGED eventList,
         ~(getEvent(w) /\ eventList # << >>)
  PROVE  IInv'
  <1> USE DEF IInv
  <1>1. CASE testStatus(w) \/ checkSuspend(w) \/ (getEvent(w) /\ eventList = << >>) \/ runReturns(w)
    <2>1. /\ UNCHANGED <<client, it, destructor, fault, outcome>>
          /\ pc[w] \in {"test", "check", "get", "running"}
          /\ pc' \in [Workers -> Labels] /\ hand' \in [Workers -> Events \cup {NoEvent}]
          /\ pc'[w] \in {"test", "check", "get", "returned"}
          /\ \A v \in Workers : v # w => pc'[v] = pc[v] /\ hand'[v] = hand[v]
      BY <1>1 DEF TypeOK, testStatus, checkSuspend, getEvent, runReturns, At, Goto, Labels
    <2>2. TypeOK'
      BY <2>1 DEF TypeOK, client, Holding
    <2>3. ListOK' /\ HandsOK' /\ NamesOK' /\ FaultHasCause'
      BY <2>1 DEF ListOK, HandsOK, NamesOK, FaultHasCause, Destroyed, Has, client
    <2> QED BY <2>2, <2>3
  <1>2. CASE findCallback(w) /\ callbackMap[hand[w].name] # 0
    <2>1. /\ UNCHANGED <<client, hand, destructor, fault, outcome>>
          /\ pc[w] = "find" /\ pc' = [pc EXCEPT ![w] = "run"]
          /\ it' = [it EXCEPT ![w] = callbackMap[hand[w].name]]
      BY <1>2 DEF findCallback, At, Goto
    <2>2. hand[w].name \in Names
      BY <2>1 DEF TypeOK, Events, Holding
    <2>3. TypeOK'
      BY <2>1, <2>2 DEF TypeOK, client, Holding, Labels
    <2>4. ListOK' /\ HandsOK' /\ FaultHasCause'
      BY <2>1 DEF TypeOK, ListOK, HandsOK, FaultHasCause, Destroyed, Has, client
    <2>5. NamesOK'
      BY <2>1 DEF TypeOK, NamesOK, Has, client
    <2> QED BY <2>3, <2>4, <2>5
  <1>3. CASE (findCallback(w) /\ callbackMap[hand[w].name] = 0) \/ run(w)
    <2> DEFINE a == hand[w].arg
    <2>1. PICK how \in {"dropped", "ran"} :
          /\ UNCHANGED <<client, it, destructor, fault>>
          /\ Has(w) /\ pc' \in [Workers -> Labels]
          /\ pc'[w] \in {"test", "running"} /\ (pc'[w] = "running" => hand'[w] = hand[w])
          /\ hand' \in [Workers -> Events \cup {NoEvent}]
          /\ \A v \in Workers : v # w => pc'[v] = pc[v] /\ hand'[v] = hand[v]
          /\ outcome' = [outcome EXCEPT ![a] = how]
      <3>1. CASE findCallback(w) /\ callbackMap[hand[w].name] = 0
        BY <3>1 DEF findCallback, At, Goto, TypeOK, Has, Labels
      <3>2. CASE run(w)
        BY <3>2 DEF run, At, Goto, TypeOK, Has, Labels
      <3> QED BY <1>3, <3>1, <3>2
    <2>2. a \in Args /\ outcome[a] = "taken" /\ hand[w] \in Events
      BY <2>1 DEF TypeOK, Events, Has, Holding, HandsOK
    <2>3. TypeOK'
      BY <2>1, <2>2 DEF TypeOK, client, Holding, Outcomes
    <2>4. \A b \in Args : b # a => outcome'[b] = outcome[b]
      BY <2>1 DEF TypeOK
    <2>5. ListOK'
      <3>1. \A i \in 1 .. Len(eventList) : eventList[i].arg \in Args /\ eventList[i].arg # a
        BY <2>2, ListedEvents DEF ListOK
      <3> QED BY <3>1, <2>4 DEF ListOK
    <2>6. HandsOK'
      <3>1. \A v \in Workers : Has(v) /\ v # w => hand[v].arg \in Args /\ hand[v].arg # a
        BY <2>1 DEF TypeOK, Events, Has, Holding, HandsOK
      <3> QED BY <3>1, <2>1, <2>4 DEF HandsOK, Has
    <2>7. NamesOK' /\ FaultHasCause'
      BY <2>1 DEF NamesOK, FaultHasCause, Destroyed, Has, client
    <2> QED BY <2>3, <2>5, <2>6, <2>7
  <1>4. CASE UseAfterFree(w)
    <2>1. UNCHANGED <<client, pc, hand, it, destructor, outcome>> /\ fault' = TRUE /\ ~Usable(w)
      BY <1>4 DEF UseAfterFree
    <2>2. TypeOK'
      BY <2>1 DEF TypeOK, client
    <2>3. ListOK' /\ HandsOK' /\ NamesOK'
      BY <2>1 DEF ListOK, HandsOK, NamesOK, Has, client
    <2>4. removed # {} \/ Destroyed
      BY <2>1 DEF Usable, ValidIterator, NamesOK
    <2>5. FaultHasCause'
      BY <2>1, <2>4 DEF FaultHasCause, Destroyed, client
    <2> QED BY <2>2, <2>3, <2>5
  <1> QED BY <1>1, <1>2, <1>3, <1>4 DEF workThread

LEMMA NextInv == IInv /\ [Next]_vars => IInv'
  <1> SUFFICES ASSUME IInv, [Next]_vars PROVE IInv'
    OBVIOUS
  <1>1. CASE UNCHANGED vars
    BY <1>1 DEF IInv, TypeOK, ListOK, HandsOK, NamesOK, FaultHasCause, Destroyed, Has, vars, client
  <1>2. ASSUME NEW w \in Workers, workThread(w) PROVE IInv'
    <2>1. CASE getEvent(w) /\ eventList # << >>
      BY <2>1, GetInv
    <2>2. CASE ~(getEvent(w) /\ eventList # << >>)
      <3>1. UNCHANGED eventList
        BY <1>2, <2>2 DEF workThread, testStatus, checkSuspend, getEvent, findCallback, run,
                          runReturns, UseAfterFree
      <3> QED BY <1>2, <2>2, <3>1, WorkerInv
    <2> QED BY <2>1, <2>2
  <1>3. ASSUME NEW n \in Names, NEW a \in Args, submitEvent(n, a) PROVE IInv'
    BY <1>3, SubmitInv
  <1> QED BY <1>1, <1>2, <1>3, ClientInv DEF Next

LEMMA Invariance == Spec => []IInv
  BY InitInv, NextInv, PTL DEF Spec

\* Every variable keeps its type, for every number of workers, names and events.
THEOREM DispatcherTypes == Spec => []TypeOK
  <1>1. IInv => TypeOK
    BY DEF IInv
  <1> QED BY <1>1, Invariance, PTL

\* No worker follows an invalid iterator or reads the dead dispatcher before a callback has
\* been removed or the destructor has returned.
THEOREM NothingDeadRead == Spec => []FaultHasCause
  <1>1. IInv => FaultHasCause
    BY DEF IInv
  <1> QED BY <1>1, Invariance, PTL

-------------------------------------------------------------------------------
(* Refinement. *)

LEMMA StepImplements ==
  ASSUME IInv, [Next]_vars
  PROVE  [Service!Next]_<<eventList, outcome, removed>>
  <1> DEFINE v3 == <<eventList, outcome, removed>>
  <1>1. CASE UNCHANGED vars
    BY <1>1 DEF vars, client
  <1>2. ASSUME NEW n \in Names, NEW a \in Args, submitEvent(n, a)
        PROVE Service!Next
    <2>1. Service!Accept(n, a)
      BY <1>2 DEF submitEvent, client, Service!Accept, Service!Event, Event
    <2> QED BY <2>1 DEF Service!Next
  <1>3. ASSUME NEW n \in Names, removeCallback(n) PROVE Service!Next
    <2>1. Service!Remove(n)
      BY <1>3 DEF removeCallback, Service!Remove
    <2> QED BY <2>1 DEF Service!Next
  <1>4. ASSUME \/ \E n \in Names : addCallback(n)
               \/ \E st \in {"RUNNING", "SUSPEND", "HALT"} : setStatus(st)
               \/ halt \/ destroy \/ lateCall
        PROVE UNCHANGED v3
    BY <1>4 DEF addCallback, setStatus, halt, destroy, lateCall, client
  <1>5. ASSUME NEW w \in Workers, workThread(w) PROVE Service!Next \/ UNCHANGED v3
    <2>1. CASE getEvent(w) /\ eventList # << >>
      <3>1. Head(eventList) = eventList[1] /\ 1 \in 1 .. Len(eventList)
        BY <2>1, TakeEvent DEF IInv, TypeOK
      <3>2. Service!Take
        BY <2>1, <3>1 DEF getEvent, client, Service!Take, IInv, ListOK
      <3> QED BY <3>2 DEF Service!Next
    <2>2. CASE findCallback(w) /\ callbackMap[hand[w].name] = 0
      <3>1. Has(w) /\ hand[w].arg \in Args
        BY <2>2 DEF findCallback, At, Has, IInv, TypeOK, Holding, Events
      <3>2. removed # {} /\ outcome[hand[w].arg] = "taken"
        BY <2>2, <3>1 DEF IInv, NamesOK, HandsOK
      <3>3. Service!Settle(hand[w].arg, "dropped")
        BY <2>2, <3>2 DEF findCallback, client, Service!Settle
      <3> QED BY <3>1, <3>3 DEF Service!Next
    <2>3. CASE run(w)
      <3>1. Has(w) /\ hand[w].arg \in Args
        BY <2>3 DEF run, At, Has, IInv, TypeOK, Holding, Events
      <3>2. Service!Settle(hand[w].arg, "ran")
        BY <2>3, <3>1 DEF run, client, Service!Settle, IInv, HandsOK
      <3> QED BY <3>1, <3>2 DEF Service!Next
    <2>4. CASE \/ testStatus(w) \/ checkSuspend(w) \/ (getEvent(w) /\ eventList = << >>)
               \/ (findCallback(w) /\ callbackMap[hand[w].name] # 0)
               \/ runReturns(w) \/ UseAfterFree(w)
      BY <2>4 DEF testStatus, checkSuspend, getEvent, findCallback, runReturns, UseAfterFree, client
    <2> QED BY <1>5, <2>1, <2>2, <2>3, <2>4 DEF workThread
  <1> HIDE DEF v3
  <1> QED BY <1>1, <1>2, <1>3, <1>4, <1>5 DEF Next, v3

\* Every behaviour of the dispatcher is one of EventService: events are taken in the order of
\* their submission, each by one worker, and run at most once; none is dropped before a
\* callback has been removed. For every number of workers, names and events.
THEOREM DispatcherImplementsService == Spec => ImplementsService
  <1>1. Init => Service!Init
    BY DEF Init, Service!Init
  <1>2. IInv /\ [Next]_vars => [Service!Next]_<<eventList, outcome, removed>>
    BY StepImplements
  <1> QED BY <1>1, <1>2, Invariance, PTL DEF Spec, ImplementsService, Service!Spec
===============================================================================
