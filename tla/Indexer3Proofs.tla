---------------------------- MODULE Indexer3Proofs ----------------------------
(***************************************************************************)
(* Proofs about Indexer3.tla, for every number of workers and of pages.    *)
(***************************************************************************)
EXTENDS Indexer3, SequenceTheorems, TLAPS

Labels == {"idle", "getData", "again", "retry", "enter", "test", "load", "store", "submit",
           "leave", "delete"}

\* The worker has an item, and it holds the lock.
Holds(w) == pc[w] # "idle"
Counts(w) == pc[w] \in {"test", "load", "store", "submit", "leave"}

Types ==
    /\ page \in Seq(Nat) /\ eventList \in Seq(Nat)
    /\ deleted \subseteq 1..Len(page)
    /\ currentID \in Nat /\ main \in 0..(threadNum + 1) /\ sendFailed \in Nat
    /\ pc \in [Workers -> Labels] /\ arg \in [Workers -> Nat] /\ tmp \in [Workers -> Nat]
    /\ \A i \in 1..Len(eventList) : eventList[i] \in 1..Len(page)
    /\ \A w \in Workers : Holds(w) => arg[w] \in 1..Len(page)

LockOK == \A w \in Workers : Counts(w) => lock = w

\* Until a request fails, an item that waits is no worker's, and neither deleted nor waiting
\* twice.
ItemsOK ==
    sendFailed = 0 =>
        /\ fault # TRUE
        /\ \A w \in Workers : pc[w] # "retry"
        /\ \A i \in 1..Len(eventList) : eventList[i] \notin deleted
        /\ \A i, j \in 1..Len(eventList) : eventList[i] = eventList[j] => i = j
        /\ \A w \in Workers : Holds(w) => arg[w] \notin deleted
        /\ \A w \in Workers : Holds(w) => \A i \in 1..Len(eventList) : eventList[i] # arg[w]
        /\ \A v, w \in Workers : Holds(v) /\ Holds(w) /\ arg[v] = arg[w] => v = w

\* What deployIndexer has submitted; what lies below currentID, with the one gap of a worker
\* that has counted and not submitted; and what lies below the register of a worker that has
\* not stored yet, which setCurrentID may have left behind.
GapsOK ==
    /\ \A n \in 1..main : n <= threadNum => n \in Made
    /\ \A n \in 2..currentID : n \in Made \/ (n = currentID /\ Submitting # {})
    /\ \A w \in Workers : pc[w] = "store" => \A n \in 2..tmp[w] : n \in Made

\* Unless somebody counted early, deployIndexer numbers its items alone and after it the
\* numbers rise with currentID.
RisingOK ==
    early # TRUE =>
        /\ main <= threadNum => /\ Len(page) = main
                                /\ \A i \in 1..Len(page) : page[i] = i
                                /\ \A w \in Workers : pc[w] \notin {"load", "store", "submit"}
        /\ main > threadNum => \A i \in 1..Len(page) :
               page[i] <= currentID /\ (Submitting # {} => page[i] < currentID)
        /\ \A w \in Workers : pc[w] = "store" => tmp[w] = currentID
        /\ \A i, j \in 1..Len(page) : page[i] = page[j] => i = j

-------------------------------------------------------------------------------
(* Sequences. *)

LEMMA AppendFacts ==
    ASSUME NEW S, NEW s \in Seq(S), NEW e \in S
    PROVE  /\ Append(s, e) \in Seq(S) /\ Len(Append(s, e)) = Len(s) + 1
           /\ \A i \in 1..Len(s) : Append(s, e)[i] = s[i]
           /\ Append(s, e)[Len(s) + 1] = e
BY AppendProperties

LEMMA TailFacts ==
    ASSUME NEW S, NEW s \in Seq(S), s # << >>
    PROVE  /\ Len(s) \in Nat \ {0} /\ Head(s) = s[1] /\ s[1] \in S
           /\ Tail(s) \in Seq(S) /\ Len(Tail(s)) = Len(s) - 1
           /\ \A i \in 1..(Len(s) - 1) : Tail(s)[i] = s[i + 1]
BY HeadTailProperties, EmptySeq

-------------------------------------------------------------------------------
(* The initial states, and what the steps do to the sequences. *)

LEMMA InitOK == Init => Types /\ LockOK /\ ItemsOK /\ GapsOK /\ RisingOK
<1> SUFFICES ASSUME Init PROVE Types /\ LockOK /\ ItemsOK /\ GapsOK /\ RisingOK
  OBVIOUS
<1> USE Indexer3Assumption DEF Init, Holds, Counts, NoItem, Labels
<1>1. 1..Len(page) = {} /\ 1..Len(eventList) = {} /\ Len(page) = 0
  OBVIOUS
<1>2. deleted \subseteq 1..Len(page) /\ currentID \in Nat /\ main \in 0..(threadNum + 1)
      /\ sendFailed \in Nat
  OBVIOUS
<1>3. pc \in [Workers -> Labels] /\ arg \in [Workers -> Nat] /\ tmp \in [Workers -> Nat]
  OBVIOUS
<1>4. page \in Seq(Nat) /\ eventList \in Seq(Nat)
  BY EmptySeq
<1>5. \A w \in Workers : pc[w] = "idle"
  OBVIOUS
<1>6. Types
  BY <1>1, <1>2, <1>3, <1>4, <1>5 DEF Types
<1>7. LockOK /\ ItemsOK
  BY <1>1, <1>5 DEF LockOK, ItemsOK
<1>8. GapsOK
  <2>1. 1..main = {} /\ 2..currentID = {}
    OBVIOUS
  <2> QED
    BY <1>5, <2>1 DEF GapsOK
<1>9. RisingOK
  BY <1>1, <1>5 DEF RisingOK
<1> QED
  BY <1>6, <1>7, <1>8, <1>9

\* What SubmitNew does, in terms of elements.
LEMMA Submitted ==
    ASSUME Types, NEW n \in Nat, SubmitNew(n)
    PROVE  /\ Len(page) \in Nat /\ Len(eventList) \in Nat
           /\ page' \in Seq(Nat) /\ Len(page') = Len(page) + 1
           /\ \A i \in 1..Len(page) : page'[i] = page[i]
           /\ page'[Len(page) + 1] = n
           /\ eventList' \in Seq(Nat) /\ Len(eventList') = Len(eventList) + 1
           /\ \A i \in 1..Len(eventList) : eventList'[i] = eventList[i]
           /\ eventList'[Len(eventList) + 1] = Len(page) + 1
           /\ deleted' = deleted
           /\ \A i \in 1..Len(page') : i \in 1..Len(page) \/ i = Len(page) + 1
           /\ \A i \in 1..Len(eventList') : i \in 1..Len(eventList) \/ i = Len(eventList) + 1
<1>1. page \in Seq(Nat) /\ eventList \in Seq(Nat) /\ Len(page) \in Nat /\ Len(eventList) \in Nat
  BY DEF Types
<1>2. page' = Append(page, n) /\ eventList' = Append(eventList, Len(page) + 1) /\ deleted' = deleted
  BY DEF SubmitNew
<1>3. /\ page' \in Seq(Nat) /\ Len(page') = Len(page) + 1
      /\ \A i \in 1..Len(page) : page'[i] = page[i]
      /\ page'[Len(page) + 1] = n
  BY <1>1, <1>2, AppendFacts
<1>4. /\ eventList' \in Seq(Nat) /\ Len(eventList') = Len(eventList) + 1
      /\ \A i \in 1..Len(eventList) : eventList'[i] = eventList[i]
      /\ eventList'[Len(eventList) + 1] = Len(page) + 1
  BY <1>1, <1>2, AppendFacts
<1> QED
  BY <1>1, <1>2, <1>3, <1>4

LEMMA SubmittedMade ==
    ASSUME Types, NEW n \in Nat, SubmitNew(n)
    PROVE  n \in Made' /\ Made \subseteq Made'
<1>1. Len(page) + 1 \in 1..Len(page') /\ \A i \in 1..Len(page) : i \in 1..Len(page') /\ page'[i] = page[i]
  BY Submitted
<1> QED
  BY <1>1, Submitted DEF Made

LEMMA SubmittedTypes ==
    ASSUME Types, NEW n \in Nat, SubmitNew(n)
    PROVE  /\ page' \in Seq(Nat) /\ eventList' \in Seq(Nat)
           /\ deleted' \subseteq 1..Len(page') /\ 1..Len(page) \subseteq 1..Len(page')
           /\ \A i \in 1..Len(eventList') : eventList'[i] \in 1..Len(page')
<1>1. 1..Len(page) \subseteq 1..Len(page') /\ Len(page) + 1 \in 1..Len(page')
  BY Submitted
<1>2. deleted' = deleted /\ deleted \subseteq 1..Len(page)
      /\ \A i \in 1..Len(eventList) : eventList[i] \in 1..Len(page)
  BY Submitted DEF Types
<1>3. \A i \in 1..Len(eventList') : eventList'[i] \in 1..Len(page')
  BY <1>1, <1>2, Submitted
<1> QED
  BY <1>1, <1>2, <1>3, Submitted

\* What again and retry do to the list.
LEMMA Resubmitted ==
    ASSUME Types, NEW w \in Workers, Holds(w), eventList' = Append(eventList, arg[w])
    PROVE  /\ Len(eventList) \in Nat
           /\ eventList' \in Seq(Nat) /\ Len(eventList') = Len(eventList) + 1
           /\ \A i \in 1..Len(eventList) : eventList'[i] = eventList[i]
           /\ eventList'[Len(eventList) + 1] = arg[w]
           /\ \A i \in 1..Len(eventList') : i \in 1..Len(eventList) \/ i = Len(eventList) + 1
           /\ \A i \in 1..Len(eventList') : eventList'[i] \in 1..Len(page)
<1>1. eventList \in Seq(Nat) /\ Len(eventList) \in Nat /\ arg[w] \in Nat
  BY DEF Types
<1>2. /\ eventList' \in Seq(Nat) /\ Len(eventList') = Len(eventList) + 1
      /\ \A i \in 1..Len(eventList) : eventList'[i] = eventList[i]
      /\ eventList'[Len(eventList) + 1] = arg[w]
  BY <1>1, AppendFacts
<1>3. \A i \in 1..Len(eventList') : i \in 1..Len(eventList) \/ i = Len(eventList) + 1
  BY <1>1, <1>2
<1>4. arg[w] \in 1..Len(page) /\ \A i \in 1..Len(eventList) : eventList[i] \in 1..Len(page)
  BY DEF Types
<1>5. \A i \in 1..Len(eventList') : eventList'[i] \in 1..Len(page)
  BY <1>2, <1>3, <1>4
<1> QED
  BY <1>1, <1>2, <1>3, <1>5

\* What take does.
LEMMA Taken ==
    ASSUME Types, NEW w \in Workers, take(w)
    PROVE  /\ 1 \in 1..Len(eventList) /\ arg' = [arg EXCEPT ![w] = eventList[1]]
           /\ eventList' \in Seq(Nat)
           /\ \A i \in 1..Len(eventList') : i + 1 \in 1..Len(eventList) /\ i + 1 # 1
                                             /\ eventList'[i] = eventList[i + 1]
<1>1. eventList \in Seq(Nat) /\ eventList # << >>
  BY DEF Types, take
<1>2. eventList' = Tail(eventList) /\ arg' = [arg EXCEPT ![w] = Head(eventList)]
  BY DEF take
<1>3. /\ Len(eventList) \in Nat \ {0} /\ arg' = [arg EXCEPT ![w] = eventList[1]]
      /\ eventList' \in Seq(Nat) /\ Len(eventList') = Len(eventList) - 1
      /\ \A i \in 1..(Len(eventList) - 1) : eventList'[i] = eventList[i + 1]
  BY <1>1, <1>2, TailFacts
<1> QED
  BY <1>3

-------------------------------------------------------------------------------
(* Types and the lock. *)

\* The steps in which a worker moves on with its item and leaves the items alone.
MovesOn(w) ==
    \/ getData(w) \/ getNothing(w) \/ getDataFails(w) \/ enter(w) \/ test(w) \/ load(w) \/ store(w)
    \/ leave(w)

LEMMA MovingOn ==
    ASSUME Types, NEW w \in Workers, MovesOn(w)
    PROVE  /\ UNCHANGED <<crawl, main, arg, fault>> /\ Holds(w)
           /\ pc' \in [Workers -> Labels] /\ pc'[w] # "idle"
           /\ \A v \in Workers : v # w => pc'[v] = pc[v]
           /\ sendFailed' \in Nat /\ (sendFailed' = 0 => sendFailed = 0 /\ pc'[w] # "retry")
           /\ currentID' \in Nat /\ tmp' \in [Workers -> Nat]
<1> USE DEF At, Reads, Goto, Labels, Holds, observers
<1>1. pc \in [Workers -> Labels] /\ tmp \in [Workers -> Nat] /\ currentID \in Nat /\ sendFailed \in Nat
  BY DEF Types
<1>2. CASE getData(w)
  BY <1>1, <1>2 DEF getData
<1>3. CASE getNothing(w)
  BY <1>1, <1>3 DEF getNothing
<1>4. CASE getDataFails(w)
  BY <1>1, <1>4 DEF getDataFails
<1>5. CASE enter(w)
  BY <1>1, <1>5 DEF enter
<1>6. CASE test(w)
  BY <1>1, <1>6 DEF test
<1>7. CASE load(w)
  BY <1>1, <1>7 DEF load
<1>8. CASE store(w)
  BY <1>1, <1>8 DEF store
<1>9. CASE leave(w)
  BY <1>1, <1>9 DEF leave
<1> QED
  BY <1>2, <1>3, <1>4, <1>5, <1>6, <1>7, <1>8, <1>9 DEF MovesOn

LEMMA TypesStep ==
    ASSUME Types, [Next]_vars
    PROVE  Types'
<1> USE DEF crawl, observers, At, Reads, Goto, Return, NoItem, Labels, Holds
<1>1. CASE UNCHANGED vars
  BY <1>1 DEF vars, Types
<1>2. ASSUME submitFirst PROVE Types'
  <2>1. main + 1 \in Nat /\ SubmitNew(main + 1) /\ main' \in 0..(threadNum + 1)
    BY <1>2, Indexer3Assumption DEF submitFirst, Types
  <2>2. UNCHANGED <<currentID, pc, arg, tmp, sendFailed>>
    BY <1>2 DEF submitFirst
  <2>3. /\ page' \in Seq(Nat) /\ eventList' \in Seq(Nat)
        /\ deleted' \subseteq 1..Len(page') /\ 1..Len(page) \subseteq 1..Len(page')
        /\ \A i \in 1..Len(eventList') : eventList'[i] \in 1..Len(page')
    BY <2>1, SubmittedTypes
  <2> QED
    BY <2>1, <2>2, <2>3 DEF Types
<1>3. CASE setCurrentID
  BY <1>3, Indexer3Assumption DEF setCurrentID, Types
<1>4. ASSUME NEW w \in Workers, take(w) PROVE Types'
  <2>1. /\ UNCHANGED <<page, deleted, currentID, main, tmp, sendFailed>>
        /\ pc' = [pc EXCEPT ![w] = "getData"]
    BY <1>4 DEF take
  <2>2. \A i \in 1..Len(eventList') : eventList'[i] \in 1..Len(page)
    BY <1>4, Taken DEF Types
  <2>3. eventList[1] \in 1..Len(page) /\ eventList[1] \in Nat
    <3>1. 1 \in 1..Len(eventList)
      BY <1>4, Taken
    <3>2. eventList[1] \in 1..Len(page)
      BY <3>1 DEF Types
    <3> QED
      BY <3>2
  <2>4. arg' = [arg EXCEPT ![w] = eventList[1]] /\ eventList' \in Seq(Nat)
    BY <1>4, Taken
  <2> QED
    BY <2>1, <2>2, <2>3, <2>4 DEF Types
<1>5. ASSUME NEW w \in Workers, MovesOn(w) PROVE Types'
  BY <1>5, MovingOn DEF Types
<1>6. ASSUME NEW w \in Workers, again(w) \/ retry(w) PROVE Types'
  <2>1. /\ Holds(w) /\ eventList' = Append(eventList, arg[w])
        /\ UNCHANGED <<page, deleted, currentID, main, tmp, sendFailed>>
    BY <1>6 DEF again, retry
  <2>2. eventList' \in Seq(Nat) /\ \A i \in 1..Len(eventList') : eventList'[i] \in 1..Len(page)
    BY <2>1, Resubmitted
  <2>3. \/ pc' = [pc EXCEPT ![w] = "idle"] /\ arg' = [arg EXCEPT ![w] = 0]
        \/ pc' = [pc EXCEPT ![w] = "enter"] /\ arg' = arg
    BY <1>6 DEF again, retry
  <2>4. pc' \in [Workers -> Labels] /\ arg' \in [Workers -> Nat]
    <3>1. pc \in [Workers -> Labels] /\ arg \in [Workers -> Nat]
      BY DEF Types
    <3> QED
      BY <2>3, <3>1
  <2>5. \A v \in Workers : pc'[v] # "idle" => arg'[v] \in 1..Len(page)
    BY <2>1, <2>3 DEF Types
  <2> QED
    BY <2>1, <2>2, <2>4, <2>5 DEF Types
<1>7. ASSUME NEW w \in Workers, submitNext(w) PROVE Types'
  <2>1. currentID \in Nat /\ SubmitNew(currentID)
    BY <1>7 DEF submitNext, Types
  <2>2. UNCHANGED <<currentID, main, arg, tmp, sendFailed>> /\ pc' = [pc EXCEPT ![w] = "leave"]
        /\ pc[w] = "submit"
    BY <1>7 DEF submitNext
  <2>3. /\ page' \in Seq(Nat) /\ eventList' \in Seq(Nat)
        /\ deleted' \subseteq 1..Len(page') /\ 1..Len(page) \subseteq 1..Len(page')
        /\ \A i \in 1..Len(eventList') : eventList'[i] \in 1..Len(page')
    BY <2>1, SubmittedTypes
  <2>4. pc' \in [Workers -> Labels] /\ \A v \in Workers : pc'[v] # "idle" => arg'[v] \in 1..Len(page)
    BY <2>2 DEF Types
  <2> QED
    BY <2>2, <2>3, <2>4 DEF Types
<1>8. ASSUME NEW w \in Workers, erase(w) PROVE Types'
  BY <1>8 DEF erase, Types
<1>9. ASSUME NEW w \in Workers, useAfterDelete(w) PROVE Types'
  BY <1>9 DEF useAfterDelete, Types
<1> QED
  BY <1>1, <1>2, <1>3, <1>4, <1>5, <1>6, <1>7, <1>8, <1>9 DEF Next, run, MovesOn

LEMMA LockStep ==
    ASSUME Types, LockOK, [Next]_vars
    PROVE  LockOK'
<1> USE DEF crawl, observers, At, Reads, Goto, Return, NoItem, Counts
<1>a. pc \in [Workers -> Labels]
  BY DEF Types
<1>1. ASSUME UNCHANGED <<pc, lock>> PROVE LockOK'
  BY <1>1 DEF LockOK
<1>2. ASSUME NEW w \in Workers, enter(w) PROVE LockOK'
  <2>1. \A v \in Workers : ~Counts(v)
    BY <1>2, Indexer3Assumption DEF enter, LockOK
  <2> QED
    BY <1>a, <1>2, <2>1 DEF enter, LockOK
<1>3. ASSUME NEW w \in Workers, leave(w) PROVE LockOK'
  BY <1>a, <1>3 DEF leave, LockOK
<1>4. ASSUME NEW w \in Workers, test(w) \/ load(w) \/ store(w) \/ submitNext(w) PROVE LockOK'
  <2>1. lock' = lock /\ Counts(w) /\ \A v \in Workers : v # w => pc'[v] = pc[v]
    BY <1>a, <1>4 DEF test, load, store, submitNext
  <2> QED
    BY <2>1 DEF LockOK
<1>5. ASSUME NEW w \in Workers,
             take(w) \/ getData(w) \/ getNothing(w) \/ getDataFails(w) \/ again(w) \/ retry(w) \/ erase(w)
      PROVE  LockOK'
  <2>1. lock' = lock /\ \A v \in Workers : Counts(v)' => Counts(v)
    BY <1>a, <1>5 DEF take, getData, getNothing, getDataFails, again, retry, erase
  <2> QED
    BY <2>1 DEF LockOK
<1> QED
  BY <1>1, <1>2, <1>3, <1>4, <1>5
     DEF Next, run, vars, submitFirst, setCurrentID, useAfterDelete

-------------------------------------------------------------------------------
(* Items. *)

LEMMA ItemsSubmitted ==
    ASSUME Types, ItemsOK, NEW n \in Nat, SubmitNew(n), UNCHANGED <<arg, fault, sendFailed>>,
           \A w \in Workers : (Holds(w)' => Holds(w)) /\ (pc'[w] = "retry" => pc[w] = "retry")
    PROVE  ItemsOK'
<1>1. /\ Len(page) + 1 \notin deleted
      /\ \A i \in 1..Len(eventList) : eventList[i] # Len(page) + 1
      /\ \A w \in Workers : Holds(w) => arg[w] # Len(page) + 1
  <2>1. /\ Len(page) \in Nat /\ deleted \subseteq 1..Len(page)
        /\ \A i \in 1..Len(eventList) : eventList[i] \in 1..Len(page)
        /\ \A w \in Workers : Holds(w) => arg[w] \in 1..Len(page)
    BY DEF Types
  <2>2. Len(page) + 1 \notin 1..Len(page)
    BY <2>1
  <2> QED
    BY <2>1, <2>2
<1> SUFFICES ASSUME sendFailed = 0 PROVE ItemsOK'
  BY DEF ItemsOK
<1>2. /\ \A i \in 1..Len(eventList) : eventList'[i] = eventList[i]
      /\ eventList'[Len(eventList) + 1] = Len(page) + 1
      /\ deleted' = deleted
      /\ \A i \in 1..Len(eventList') : i \in 1..Len(eventList) \/ i = Len(eventList) + 1
  BY Submitted
<1>3. \A i \in 1..Len(eventList') : eventList'[i] \notin deleted'
  BY <1>1, <1>2 DEF ItemsOK
<1>4. \A i, j \in 1..Len(eventList') : eventList'[i] = eventList'[j] => i = j
  BY <1>1, <1>2 DEF ItemsOK
<1>5. \A w \in Workers : Holds(w) => \A i \in 1..Len(eventList') : eventList'[i] # arg[w]
  BY <1>1, <1>2 DEF ItemsOK
<1> QED
  BY <1>2, <1>3, <1>4, <1>5 DEF ItemsOK

LEMMA ItemsStep ==
    ASSUME Types, ItemsOK, [Next]_vars
    PROVE  ItemsOK'
<1> USE DEF crawl, observers, At, Reads, Goto, Return, NoItem, Labels
<1>a. pc \in [Workers -> Labels] /\ arg \in [Workers -> Nat] /\ sendFailed \in Nat
  BY DEF Types
<1>1. CASE UNCHANGED vars
  BY <1>1 DEF vars, ItemsOK, Holds
<1>2. CASE submitFirst
  <2>1. main + 1 \in Nat
    BY DEF Types
  <2> QED
    BY <1>2, <2>1, ItemsSubmitted DEF submitFirst, Holds
<1>3. CASE setCurrentID
  BY <1>3 DEF setCurrentID, ItemsOK, Holds
<1>4. ASSUME NEW w \in Workers, take(w) PROVE ItemsOK'
  <2> SUFFICES ASSUME sendFailed = 0 PROVE ItemsOK'
    BY <1>4 DEF take, ItemsOK
  <2>1. /\ 1 \in 1..Len(eventList) /\ arg' = [arg EXCEPT ![w] = eventList[1]]
        /\ \A i \in 1..Len(eventList') : i + 1 \in 1..Len(eventList) /\ i + 1 # 1
                                          /\ eventList'[i] = eventList[i + 1]
    BY <1>4, Taken
  <2>2. /\ deleted' = deleted /\ fault' = fault /\ pc' = [pc EXCEPT ![w] = "getData"] /\ pc[w] = "idle"
    BY <1>4 DEF take
  <2>3. \A i \in 1..Len(eventList') : eventList'[i] \notin deleted
    BY <2>1 DEF ItemsOK
  <2>4. \A i, j \in 1..Len(eventList') : eventList'[i] = eventList'[j] => i = j
    <3>1. ASSUME NEW i \in 1..Len(eventList'), NEW j \in 1..Len(eventList'),
                 eventList'[i] = eventList'[j]
          PROVE  i + 1 = j + 1
      BY <2>1, <3>1 DEF ItemsOK
    <3> QED
      BY <3>1
  <2>5. ASSUME NEW v \in Workers, Holds(v)'
        PROVE  \/ v = w /\ arg'[v] = eventList[1]
               \/ v # w /\ Holds(v) /\ arg'[v] = arg[v]
    BY <1>a, <2>1, <2>2, <2>5 DEF Holds
  <2>6. \A v \in Workers : Holds(v)' => arg'[v] \notin deleted
    BY <2>1, <2>5 DEF ItemsOK
  <2>7. \A v \in Workers : Holds(v)' => \A i \in 1..Len(eventList') : eventList'[i] # arg'[v]
    BY <2>1, <2>5 DEF ItemsOK
  <2>8. \A u, v \in Workers : Holds(u)' /\ Holds(v)' /\ arg'[u] = arg'[v] => u = v
    BY <2>1, <2>5 DEF ItemsOK
  <2>9. \A v \in Workers : pc'[v] # "retry"
    BY <1>a, <2>2 DEF ItemsOK
  <2> QED
    BY <2>2, <2>3, <2>4, <2>6, <2>7, <2>8, <2>9 DEF ItemsOK
<1>5. ASSUME NEW w \in Workers, MovesOn(w) PROVE ItemsOK'
  <2> SUFFICES ASSUME sendFailed' = 0 PROVE ItemsOK'
    BY DEF ItemsOK
  <2>1. /\ UNCHANGED <<crawl, arg, fault>> /\ Holds(w) /\ sendFailed = 0
        /\ \A v \in Workers : v # w => pc'[v] = pc[v]
        /\ pc'[w] # "retry"
    BY <1>5, MovingOn
  <2>2. \A v \in Workers : Holds(v)' => Holds(v)
    BY <2>1 DEF Holds
  <2>3. \A v \in Workers : pc'[v] # "retry"
    BY <2>1 DEF ItemsOK
  <2> QED
    BY <2>1, <2>2, <2>3 DEF ItemsOK
<1>6. ASSUME NEW w \in Workers, again(w) PROVE ItemsOK'
  <2> SUFFICES ASSUME sendFailed = 0 PROVE ItemsOK'
    BY <1>6 DEF again, ItemsOK
  <2>1. /\ UNCHANGED <<deleted, fault>> /\ Holds(w) /\ eventList' = Append(eventList, arg[w])
        /\ pc' = [pc EXCEPT ![w] = "idle"] /\ arg' = [arg EXCEPT ![w] = 0]
    BY <1>6 DEF again, Holds
  <2>2. /\ \A i \in 1..Len(eventList) : eventList'[i] = eventList[i]
        /\ eventList'[Len(eventList) + 1] = arg[w]
        /\ \A i \in 1..Len(eventList') : i \in 1..Len(eventList) \/ i = Len(eventList) + 1
    BY <2>1, Resubmitted
  <2>3. \A v \in Workers : Holds(v)' => Holds(v) /\ v # w /\ arg'[v] = arg[v]
    BY <1>a, <2>1 DEF Holds
  <2>4. \A i \in 1..Len(eventList') : eventList'[i] \notin deleted
    BY <2>1, <2>2 DEF ItemsOK
  <2>5. \A i, j \in 1..Len(eventList') : eventList'[i] = eventList'[j] => i = j
    BY <2>1, <2>2 DEF ItemsOK
  <2>6. \A v \in Workers : Holds(v)' => \A i \in 1..Len(eventList') : eventList'[i] # arg'[v]
    BY <2>1, <2>2, <2>3 DEF ItemsOK
  <2>7. \A v \in Workers : pc'[v] # "retry"
    BY <1>a, <2>1 DEF ItemsOK
  <2>8. \A v \in Workers : Holds(v)' => arg'[v] \notin deleted
    BY <2>3 DEF ItemsOK
  <2>9. \A u, v \in Workers : Holds(u)' /\ Holds(v)' /\ arg'[u] = arg'[v] => u = v
    BY <2>3 DEF ItemsOK
  <2>10. fault' # TRUE /\ deleted' = deleted
    BY <2>1 DEF ItemsOK
  <2> QED
    BY <2>4, <2>5, <2>6, <2>7, <2>8, <2>9, <2>10 DEF ItemsOK
<1>7. ASSUME NEW w \in Workers, retry(w) PROVE ItemsOK'
  BY <1>7 DEF retry, ItemsOK
<1>8. ASSUME NEW w \in Workers, submitNext(w) PROVE ItemsOK'
  <2>1. currentID \in Nat
    BY DEF Types
  <2>2. \A v \in Workers : (Holds(v)' => Holds(v)) /\ (pc'[v] = "retry" => pc[v] = "retry")
    BY <1>a, <1>8 DEF submitNext, Holds
  <2> QED
    BY <1>8, <2>1, <2>2, ItemsSubmitted DEF submitNext
<1>9. ASSUME NEW w \in Workers, erase(w) PROVE ItemsOK'
  <2> SUFFICES ASSUME sendFailed = 0 PROVE ItemsOK'
    BY <1>9 DEF erase, ItemsOK
  <2>1. /\ deleted' = deleted \cup {arg[w]} /\ UNCHANGED <<eventList, fault>> /\ Holds(w)
        /\ pc' = [pc EXCEPT ![w] = "idle"] /\ arg' = [arg EXCEPT ![w] = 0]
    BY <1>9 DEF erase, Holds
  <2>2. \A v \in Workers : Holds(v)' => Holds(v) /\ v # w /\ arg'[v] = arg[v]
    BY <1>a, <2>1 DEF Holds
  <2>3. \A v \in Workers : pc'[v] # "retry"
    BY <1>a, <2>1 DEF ItemsOK
  <2>4. \A i \in 1..Len(eventList') : eventList'[i] \notin deleted'
    BY <2>1 DEF ItemsOK
  <2>5. \A v \in Workers : Holds(v)' => arg'[v] \notin deleted'
    BY <2>1, <2>2 DEF ItemsOK
  <2>6. \A v \in Workers : Holds(v)' => \A i \in 1..Len(eventList') : eventList'[i] # arg'[v]
    BY <2>1, <2>2 DEF ItemsOK
  <2>7. \A u, v \in Workers : Holds(u)' /\ Holds(v)' /\ arg'[u] = arg'[v] => u = v
    BY <2>2 DEF ItemsOK
  <2>8. fault' # TRUE /\ eventList' = eventList
    BY <2>1 DEF ItemsOK
  <2> QED
    BY <2>3, <2>4, <2>5, <2>6, <2>7, <2>8 DEF ItemsOK
<1>10. ASSUME NEW w \in Workers, useAfterDelete(w) PROVE ItemsOK'
  <2>1. sendFailed # 0 /\ sendFailed' = sendFailed
    BY <1>10 DEF useAfterDelete, ItemsOK, Reading, Holds
  <2> QED
    BY <2>1 DEF ItemsOK
<1> QED
  BY <1>1, <1>2, <1>3, <1>4, <1>5, <1>6, <1>7, <1>8, <1>9, <1>10 DEF Next, run, MovesOn

-------------------------------------------------------------------------------
(* Page numbers. *)

\* One worker at a time counts.
LEMMA Alone ==
    ASSUME LockOK, NEW v \in Workers, NEW w \in Workers, Counts(v), Counts(w)
    PROVE  v = w
BY DEF LockOK

LEMMA GapsSame ==
    ASSUME GapsOK, UNCHANGED <<page, currentID, main>>,
           \A w \in Workers : pc[w] = "submit" => pc'[w] = "submit",
           \A w \in Workers : pc'[w] = "store" => pc[w] = "store" /\ tmp'[w] = tmp[w]
    PROVE  GapsOK'
<1>1. Made' = Made
  BY DEF Made
<1>2. Submitting # {} => Submitting' # {}
  BY DEF Submitting
<1> QED
  BY <1>1, <1>2 DEF GapsOK

LEMMA GapsStep ==
    ASSUME Types, LockOK, GapsOK, [Next]_vars
    PROVE  GapsOK'
<1> USE DEF crawl, observers, At, Reads, Goto, Return, NoItem, Labels
<1>a. /\ pc \in [Workers -> Labels] /\ tmp \in [Workers -> Nat] /\ currentID \in Nat
      /\ main \in 0..(threadNum + 1)
  BY DEF Types
<1>1. CASE UNCHANGED vars
  BY <1>1, GapsSame DEF vars
<1>2. CASE submitFirst
  <2>1. main + 1 \in Nat /\ SubmitNew(main + 1) /\ main' = main + 1 /\ UNCHANGED <<currentID, pc, tmp>>
    BY <1>2 DEF submitFirst, Types
  <2>2. main + 1 \in Made' /\ Made \subseteq Made' /\ Submitting' = Submitting
    BY <2>1, SubmittedMade DEF Submitting
  <2>3. \A n \in 1..main' : n \in 1..main \/ n = main + 1
    BY <1>a, <2>1
  <2> QED
    BY <2>1, <2>2, <2>3 DEF GapsOK
<1>3. CASE setCurrentID
  <2>1. /\ main = threadNum /\ currentID' = threadNum /\ main' = threadNum + 1
        /\ UNCHANGED <<page, pc, tmp>>
    BY <1>3 DEF setCurrentID
  <2>2. Made' = Made
    BY <2>1 DEF Made
  <2>3. \A n \in 1..threadNum : n \in Made
    BY <2>1, Indexer3Assumption DEF GapsOK
  <2>4. /\ \A n \in 1..main' : n <= threadNum => n \in 1..threadNum
        /\ \A n \in 2..currentID' : n \in 1..threadNum
    BY <2>1, Indexer3Assumption
  <2> QED
    BY <2>1, <2>2, <2>3, <2>4 DEF GapsOK
<1>4. ASSUME NEW w \in Workers, load(w) PROVE GapsOK'
  <2>1. /\ UNCHANGED <<page, currentID, main>> /\ pc[w] = "load"
        /\ pc' = [pc EXCEPT ![w] = "store"] /\ tmp' = [tmp EXCEPT ![w] = currentID]
    BY <1>4 DEF load
  <2>2. \A v \in Workers : pc[v] # "submit" /\ (pc[v] = "store" => v = w)
    BY <2>1, Alone DEF Counts
  <2>3. Submitting = {} /\ Made' = Made
    BY <2>1, <2>2 DEF Submitting, Made
  <2>4. \A n \in 2..currentID : n \in Made
    BY <2>3 DEF GapsOK
  <2>5. \A v \in Workers : pc'[v] = "store" => v = w /\ tmp'[v] = currentID
    BY <1>a, <2>1, <2>2
  <2> QED
    BY <2>1, <2>3, <2>4, <2>5 DEF GapsOK
<1>5. ASSUME NEW w \in Workers, store(w) PROVE GapsOK'
  <2>1. /\ UNCHANGED <<page, main>> /\ pc[w] = "store" /\ currentID' = tmp[w] + 1
        /\ pc' = [pc EXCEPT ![w] = "submit"] /\ tmp' = [tmp EXCEPT ![w] = 0]
    BY <1>5 DEF store
  <2>2. \A v \in Workers : pc[v] = "store" => v = w
    BY <2>1, Alone DEF Counts
  <2>3. w \in Submitting' /\ Made' = Made
    BY <1>a, <2>1 DEF Submitting, Made
  <2>4. \A n \in 2..tmp[w] : n \in Made
    BY <2>1 DEF GapsOK
  <2>5. \A n \in 2..currentID' : n \in 2..tmp[w] \/ n = currentID'
    BY <1>a, <2>1
  <2>6. \A v \in Workers : pc'[v] # "store"
    BY <1>a, <2>1, <2>2
  <2> QED
    BY <2>1, <2>3, <2>4, <2>5, <2>6 DEF GapsOK
<1>6. ASSUME NEW w \in Workers, submitNext(w) PROVE GapsOK'
  <2>1. /\ currentID \in Nat /\ SubmitNew(currentID) /\ UNCHANGED <<currentID, main, tmp>>
        /\ pc' = [pc EXCEPT ![w] = "leave"]
    BY <1>6 DEF submitNext, Types
  <2>2. currentID \in Made' /\ Made \subseteq Made'
    BY <2>1, SubmittedMade
  <2>3. \A v \in Workers : pc'[v] = "store" => pc[v] = "store"
    BY <1>a, <2>1
  <2> QED
    BY <2>1, <2>2, <2>3 DEF GapsOK
<1>7. ASSUME NEW w \in Workers, take(w) \/ getData(w) \/ getNothing(w) \/ getDataFails(w) \/ again(w)
                                \/ retry(w) \/ enter(w) \/ test(w) \/ leave(w) \/ erase(w)
      PROVE  GapsOK'
  <2>1. UNCHANGED <<page, currentID, main, tmp>>
    BY <1>7 DEF take, getData, getNothing, getDataFails, again, retry, enter, test, leave, erase
  <2>2. pc[w] \notin {"submit", "store"} /\ pc'[w] # "store" /\ \A v \in Workers : v # w => pc'[v] = pc[v]
    BY <1>a, <1>7 DEF take, getData, getNothing, getDataFails, again, retry, enter, test, leave, erase
  <2> QED
    BY <2>1, <2>2, GapsSame
<1>8. ASSUME NEW w \in Workers, useAfterDelete(w) PROVE GapsOK'
  BY <1>8, GapsSame DEF useAfterDelete
<1> QED
  BY <1>1, <1>2, <1>3, <1>4, <1>5, <1>6, <1>7, <1>8 DEF Next, run

LEMMA RisingSame ==
    ASSUME RisingOK, UNCHANGED <<page, currentID, main, early>>,
           \A w \in Workers : pc'[w] \in {"load", "submit", "store"} =>
               pc'[w] = pc[w] /\ tmp'[w] = tmp[w]
    PROVE  RisingOK'
<1>1. Submitting' # {} => Submitting # {}
  BY DEF Submitting
<1> QED
  BY <1>1 DEF RisingOK

LEMMA RisingStep ==
    ASSUME Types, LockOK, RisingOK, [Next]_vars
    PROVE  RisingOK'
<1> USE DEF crawl, observers, At, Reads, Goto, Return, NoItem, Labels
<1>a. /\ pc \in [Workers -> Labels] /\ tmp \in [Workers -> Nat] /\ currentID \in Nat
      /\ main \in 0..(threadNum + 1) /\ Len(page) \in Nat /\ threadNum \in Nat
      /\ \A i \in 1..Len(page) : page[i] \in Nat
  BY Indexer3Assumption DEF Types
<1>1. CASE UNCHANGED vars
  BY <1>1, RisingSame DEF vars
<1>2. CASE submitFirst
  <2> SUFFICES ASSUME early # TRUE PROVE RisingOK'
    BY <1>2 DEF submitFirst, RisingOK
  <2>1. /\ main + 1 \in Nat /\ SubmitNew(main + 1) /\ main' = main + 1 /\ UNCHANGED <<currentID, pc, tmp>>
        /\ main < threadNum
    BY <1>2 DEF submitFirst, Types
  <2>2. /\ Len(page) = main /\ \A i \in 1..Len(page) : page[i] = i
        /\ \A w \in Workers : pc[w] \notin {"load", "store", "submit"}
    BY <1>a, <2>1 DEF RisingOK
  <2>3. /\ Len(page') = Len(page) + 1 /\ \A i \in 1..Len(page) : page'[i] = page[i]
        /\ page'[Len(page) + 1] = main + 1
        /\ \A i \in 1..Len(page') : i \in 1..Len(page) \/ i = Len(page) + 1
    BY <2>1, Submitted
  <2>4. \A i \in 1..Len(page') : page'[i] = i
    BY <2>2, <2>3
  <2>5. main' <= threadNum /\ Len(page') = main'
    BY <1>a, <2>1, <2>2, <2>3
  <2>6. ~(main' > threadNum)
    BY <1>a, <2>1
  <2> QED
    BY <2>1, <2>2, <2>4, <2>5, <2>6 DEF RisingOK
<1>3. CASE setCurrentID
  <2> SUFFICES ASSUME early # TRUE PROVE RisingOK'
    BY <1>3 DEF setCurrentID, RisingOK
  <2>1. /\ main = threadNum /\ currentID' = threadNum /\ main' = threadNum + 1
        /\ UNCHANGED <<page, pc, tmp>>
    BY <1>3 DEF setCurrentID
  <2>2. /\ Len(page) = threadNum /\ \A i \in 1..Len(page) : page[i] = i
        /\ \A w \in Workers : pc[w] \notin {"load", "store", "submit"}
    BY <1>a, <2>1 DEF RisingOK
  <2>3. Submitting' = {}
    BY <2>1, <2>2 DEF Submitting
  <2>4. \A i \in 1..Len(page') : page'[i] <= currentID'
    BY <1>a, <2>1, <2>2
  <2>5. ~(main' <= threadNum)
    BY <1>a, <2>1
  <2> QED
    BY <2>1, <2>2, <2>3, <2>4, <2>5 DEF RisingOK
<1>4. ASSUME NEW w \in Workers, test(w) PROVE RisingOK'
  <2> SUFFICES ASSUME early' # TRUE PROVE RisingOK'
    BY DEF RisingOK
  <2>1. early # TRUE /\ ~(main <= threadNum) /\ UNCHANGED <<page, currentID, main, tmp>>
    BY <1>4 DEF test
  <2>2. \A v \in Workers : pc'[v] \in {"submit", "store"} => pc'[v] = pc[v]
    BY <1>a, <1>4 DEF test
  <2>3. Submitting' # {} => Submitting # {}
    BY <2>2 DEF Submitting
  <2> QED
    BY <2>1, <2>2, <2>3 DEF RisingOK
<1>5. ASSUME NEW w \in Workers, load(w) PROVE RisingOK'
  <2> SUFFICES ASSUME early # TRUE PROVE RisingOK'
    BY <1>5 DEF load, RisingOK
  <2>1. /\ UNCHANGED <<page, currentID, main>> /\ pc[w] = "load"
        /\ pc' = [pc EXCEPT ![w] = "store"] /\ tmp' = [tmp EXCEPT ![w] = currentID]
    BY <1>5 DEF load
  <2>2. ~(main <= threadNum)
    BY <2>1 DEF RisingOK
  <2>3. Submitting' # {} => Submitting # {}
    BY <1>a, <2>1 DEF Submitting
  <2>4. \A v \in Workers : pc'[v] = "store" => tmp'[v] = currentID
    BY <1>a, <2>1 DEF RisingOK
  <2> QED
    BY <2>1, <2>2, <2>3, <2>4 DEF RisingOK
<1>6. ASSUME NEW w \in Workers, store(w) PROVE RisingOK'
  <2> SUFFICES ASSUME early # TRUE PROVE RisingOK'
    BY <1>6 DEF store, RisingOK
  <2>1. /\ UNCHANGED <<page, main>> /\ pc[w] = "store" /\ currentID' = tmp[w] + 1
        /\ pc' = [pc EXCEPT ![w] = "submit"]
    BY <1>6 DEF store
  <2>2. ~(main <= threadNum) /\ main > threadNum /\ tmp[w] = currentID
    BY <1>a, <2>1 DEF RisingOK
  <2>3. \A v \in Workers : pc'[v] # "store"
    BY <1>a, <2>1, Alone DEF Counts
  <2>4. \A i \in 1..Len(page') : page'[i] <= currentID' /\ page'[i] < currentID'
    BY <1>a, <2>1, <2>2 DEF RisingOK
  <2> QED
    BY <2>1, <2>2, <2>3, <2>4 DEF RisingOK
<1>7. ASSUME NEW w \in Workers, submitNext(w) PROVE RisingOK'
  <2> SUFFICES ASSUME early # TRUE PROVE RisingOK'
    BY <1>7 DEF submitNext, RisingOK
  <2>1. /\ SubmitNew(currentID) /\ UNCHANGED <<currentID, main, tmp>> /\ pc[w] = "submit"
        /\ pc' = [pc EXCEPT ![w] = "leave"]
    BY <1>7 DEF submitNext
  <2>2. ~(main <= threadNum) /\ main > threadNum /\ w \in Submitting
    BY <1>a, <2>1 DEF RisingOK, Submitting
  <2>3. \A i \in 1..Len(page) : page[i] < currentID
    BY <2>2 DEF RisingOK
  <2>4. /\ \A i \in 1..Len(page) : page'[i] = page[i]
        /\ page'[Len(page) + 1] = currentID
        /\ \A i \in 1..Len(page') : i \in 1..Len(page) \/ i = Len(page) + 1
    BY <1>a, <2>1, Submitted
  <2>5. \A v \in Workers : pc'[v] # "submit" /\ pc'[v] # "store"
    BY <1>a, <2>1, Alone DEF Counts
  <2>6. Submitting' = {}
    BY <2>5 DEF Submitting
  <2>7. \A i \in 1..Len(page') : page'[i] <= currentID
    BY <1>a, <2>3, <2>4
  <2>8. \A i, j \in 1..Len(page') : page'[i] = page'[j] => i = j
    <3>1. \A i \in 1..Len(page) : page[i] # currentID
      BY <1>a, <2>3
    <3>2. \A i, j \in 1..Len(page) : page[i] = page[j] => i = j
      BY DEF RisingOK
    <3> QED
      BY <2>4, <3>1, <3>2
  <2> QED
    BY <2>1, <2>2, <2>5, <2>6, <2>7, <2>8 DEF RisingOK
<1>8. ASSUME NEW w \in Workers, take(w) \/ getData(w) \/ getNothing(w) \/ getDataFails(w) \/ again(w)
                                \/ retry(w) \/ enter(w) \/ leave(w) \/ erase(w)
      PROVE  RisingOK'
  <2>1. UNCHANGED <<page, currentID, main, tmp, early>>
    BY <1>8 DEF take, getData, getNothing, getDataFails, again, retry, enter, leave, erase
  <2>2. pc'[w] \notin {"load", "submit", "store"} /\ \A v \in Workers : v # w => pc'[v] = pc[v]
    BY <1>a, <1>8 DEF take, getData, getNothing, getDataFails, again, retry, enter, leave, erase
  <2> QED
    BY <2>1, <2>2, RisingSame
<1>9. ASSUME NEW w \in Workers, useAfterDelete(w) PROVE RisingOK'
  BY <1>9, RisingSame DEF useAfterDelete
<1> QED
  BY <1>1, <1>2, <1>3, <1>4, <1>5, <1>6, <1>7, <1>8, <1>9 DEF Next, run

-------------------------------------------------------------------------------
(* The theorems. *)

LEMMA Inductive == Spec => [](Types /\ LockOK /\ ItemsOK /\ GapsOK /\ RisingOK)
<1>1. Types /\ LockOK /\ ItemsOK /\ GapsOK /\ RisingOK /\ [Next]_vars
        => Types' /\ LockOK' /\ ItemsOK' /\ GapsOK' /\ RisingOK'
  BY TypesStep, LockStep, ItemsStep, GapsStep, RisingStep
<1> QED
  BY <1>1, InitOK, PTL DEF Spec

\* For every number of workers and pages, no page that currentID has passed goes without an
\* item, although deployIndexer writes currentID without the lock under which workers count.
THEOREM NoPageSkipped == Spec => []NoGap
<1>1. Types /\ GapsOK => NoGap
  <2> SUFFICES ASSUME Types, GapsOK, main > threadNum, NEW n \in 1..currentID
               PROVE  n \in Made \/ (n = currentID /\ Submitting # {})
    BY DEF NoGap
  <2>1. 1 \in Made
    BY Indexer3Assumption DEF Types, GapsOK
  <2>2. n = 1 \/ n \in 2..currentID
    BY DEF Types
  <2> QED
    BY <2>1, <2>2 DEF GapsOK
<1> QED
  BY <1>1, Inductive, PTL

\* Nor is one asked for by two items, unless a worker counted before deployIndexer had set
\* currentID.
THEOREM PagesAskedOnce == Spec => []AskedOnce
<1>1. RisingOK => AskedOnce
  BY DEF RisingOK, AskedOnce
<1> QED
  BY <1>1, Inductive, PTL

\* Until a request fails, no deleted item is read: the callback deletes an item only while
\* nobody else has it and it does not wait.
THEOREM NothingDeletedRead == Spec => []FaultHasCause
<1>1. Types /\ ItemsOK => FaultHasCause
  BY DEF Types, ItemsOK, FaultHasCause
<1> QED
  BY <1>1, Inductive, PTL
===============================================================================
