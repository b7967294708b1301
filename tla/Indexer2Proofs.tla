---------------------------- MODULE Indexer2Proofs ----------------------------
(***************************************************************************)
(* Proofs about Indexer2.tla, for every number of workers and pages,       *)
(* whatever the pages name.                                                *)
(***************************************************************************)
EXTENDS Indexer2, SequenceTheorems, TLAPS

\* The worker's item is its own: from taking it to deleting or resubmitting it.
Holds(w) == pc[w] \notin {"idle", "log"}
\* The worker has entered its page's address in visitedURL and may take it out again.
Fetches(w) == pc[w] \in {"getData", "reset"}

Labels == {"idle", "visit", "getData", "reset", "again", "log", "search"}

Types ==
    /\ request \in Seq(Requests) /\ eventList \in Seq(Nat)
    /\ deleted \subseteq 1..Len(request) /\ visitedURL \subseteq URLs
    /\ submitted \in Nat
    /\ pc \in [Workers -> Labels] /\ arg \in [Workers -> Nat]
    /\ todo \in [Workers -> Seq(Requests)]
    /\ handled \in [URLs -> Nat]
    /\ \A i \in 1..Len(eventList) : eventList[i] \in 1..Len(request)
    /\ \A w \in Workers : pc[w] # "idle" => arg[w] \in 1..Len(request)

\* An item that waits is no worker's, and neither deleted nor waiting twice.
ItemsOK ==
    /\ \A i \in 1..Len(eventList) : eventList[i] \notin deleted
    /\ \A i, j \in 1..Len(eventList) : eventList[i] = eventList[j] => i = j
    /\ \A w \in Workers : Holds(w) => arg[w] \notin deleted
    /\ \A w \in Workers : Holds(w) => \A i \in 1..Len(eventList) : eventList[i] # arg[w]
    /\ \A v, w \in Workers : Holds(v) /\ Holds(w) /\ arg[v] = arg[w] => v = w

\* An address is in visitedURL when its page has been searched or one worker fetches it.
VisitedOK ==
    /\ \A w \in Workers : Fetches(w) => URL(arg[w]) \in visitedURL /\ handled[URL(arg[w])] = 0
    /\ \A v, w \in Workers : Fetches(v) /\ Fetches(w) /\ URL(arg[v]) = URL(arg[w]) => v = w
    /\ \A u \in URLs : handled[u] = 0 \/ (handled[u] = 1 /\ u \in visitedURL)
    /\ \A u \in visitedURL :
          handled[u] = 1 \/ \E w \in Workers : Fetches(w) /\ URL(arg[w]) = u

\* The worker will search its page or see to it that another does.
Keeps(w) == pc[w] \in {"visit", "getData", "reset", "again"}

PageKept(u) ==
    \/ handled[u] > 0
    \/ \E i \in 1..Len(eventList) : URL(eventList[i]) = u
    \/ \E w \in Workers : Keeps(w) /\ URL(arg[w]) = u

KeptOK == \A i \in 1..Len(request) : PageKept(URL(i))

-------------------------------------------------------------------------------
(* Sequences. *)

LEMMA AppendFacts ==
    ASSUME NEW S, NEW s \in Seq(S), NEW e \in S
    PROVE  /\ Append(s, e) \in Seq(S) /\ Len(Append(s, e)) = Len(s) + 1
           /\ \A i \in 1..Len(s) : Append(s, e)[i] = s[i]
           /\ Append(s, e)[Len(s) + 1] = e
BY AppendProperties

LEMMA TailFacts ==
    ASSUME NEW S, NEW s \in Seq(S), s # << >>
    PROVE  /\ Len(s) \in Nat \ {0} /\ Head(s) = s[1] /\ s[1] \in S
           /\ Tail(s) \in Seq(S) /\ Len(Tail(s)) = Len(s) - 1
           /\ \A i \in 1..(Len(s) - 1) : Tail(s)[i] = s[i + 1]
BY HeadTailProperties, EmptySeq

-------------------------------------------------------------------------------

LEMMA InitOK == Init => Types /\ ItemsOK /\ VisitedOK /\ KeptOK
<1> SUFFICES ASSUME Init PROVE Types /\ ItemsOK /\ VisitedOK /\ KeptOK
  OBVIOUS
<1> USE DEF Init, Holds, Fetches, NoItem, Labels
<1>1. Types
  <2>1. 1..Len(request) = {} /\ 1..Len(eventList) = {}
    OBVIOUS
  <2>2. deleted \subseteq 1..Len(request) /\ visitedURL \subseteq URLs /\ submitted \in Nat
    OBVIOUS
  <2>3. pc \in [Workers -> Labels] /\ arg \in [Workers -> Nat] /\ handled \in [URLs -> Nat]
    OBVIOUS
  <2>4. request \in Seq(Requests) /\ eventList \in Seq(Nat) /\ todo \in [Workers -> Seq(Requests)]
    BY EmptySeq
  <2>5. \A w \in Workers : pc[w] = "idle"
    OBVIOUS
  <2> QED
    BY <2>1, <2>2, <2>3, <2>4, <2>5 DEF Types
<1>2. ItemsOK /\ VisitedOK /\ KeptOK
  BY DEF ItemsOK, VisitedOK, KeptOK
<1> QED
  BY <1>1, <1>2

\* What SubmitNew does, in terms of elements.
LEMMA Submitted ==
    ASSUME Types, NEW r \in Requests, SubmitNew(r)
    PROVE  /\ request' \in Seq(Requests) /\ Len(request') = Len(request) + 1
           /\ \A i \in 1..Len(request) : request'[i] = request[i]
           /\ request'[Len(request) + 1] = r
           /\ eventList' \in Seq(Nat) /\ Len(eventList') = Len(eventList) + 1
           /\ \A i \in 1..Len(eventList) : eventList'[i] = eventList[i]
           /\ eventList'[Len(eventList) + 1] = Len(request) + 1
<1>1. request \in Seq(Requests) /\ eventList \in Seq(Nat) /\ Len(request) + 1 \in Nat
  BY DEF Types
<1>2. request' = Append(request, r) /\ eventList' = Append(eventList, Len(request) + 1)
  BY DEF SubmitNew
<1> QED
  BY <1>1, <1>2, AppendFacts

LEMMA SubmittedTypes ==
    ASSUME Types, NEW r \in Requests, SubmitNew(r)
    PROVE  /\ request' \in Seq(Requests) /\ eventList' \in Seq(Nat)
           /\ 1..Len(request) \subseteq 1..Len(request')
           /\ \A i \in 1..Len(eventList') : eventList'[i] \in 1..Len(request')
<1>1. Len(request) \in Nat /\ Len(eventList) \in Nat
      /\ \A i \in 1..Len(eventList) : eventList[i] \in 1..Len(request)
  BY DEF Types
<1>2. /\ request' \in Seq(Requests) /\ eventList' \in Seq(Nat)
      /\ Len(request') = Len(request) + 1 /\ Len(eventList') = Len(eventList) + 1
      /\ \A i \in 1..Len(eventList) : eventList'[i] = eventList[i]
      /\ eventList'[Len(eventList) + 1] = Len(request) + 1
  BY Submitted
<1>3. 1..Len(request) \subseteq 1..Len(request')
  BY <1>1, <1>2
<1>4. ASSUME NEW i \in 1..Len(eventList') PROVE eventList'[i] \in 1..Len(request')
  <2>1. i \in 1..Len(eventList) \/ i = Len(eventList) + 1
    BY <1>1, <1>2
  <2> QED
    BY <1>1, <1>2, <2>1
<1> QED
  BY <1>2, <1>3, <1>4

\* What again does to the list.
LEMMA Resubmitted ==
    ASSUME Types, NEW w \in Workers, again(w)
    PROVE  /\ eventList' \in Seq(Nat) /\ Len(eventList') = Len(eventList) + 1
           /\ \A i \in 1..Len(eventList) : eventList'[i] = eventList[i]
           /\ eventList'[Len(eventList) + 1] = arg[w]
<1>1. eventList \in Seq(Nat) /\ arg[w] \in Nat /\ eventList' = Append(eventList, arg[w])
  BY DEF Types, again
<1> QED
  BY <1>1, AppendFacts

\* What take does to the list.
LEMMA Taken ==
    ASSUME Types, NEW w \in Workers, take(w)
    PROVE  /\ Len(eventList) \in Nat \ {0} /\ arg' = [arg EXCEPT ![w] = eventList[1]]
           /\ eventList' \in Seq(Nat) /\ Len(eventList') = Len(eventList) - 1
           /\ \A i \in 1..(Len(eventList) - 1) : eventList'[i] = eventList[i + 1]
<1>1. eventList \in Seq(Nat) /\ eventList # << >>
  BY DEF Types, take
<1>2. eventList' = Tail(eventList) /\ arg' = [arg EXCEPT ![w] = Head(eventList)]
  BY DEF take
<1> QED
  BY <1>1, <1>2, TailFacts

\* A step of the requests of deployIndexer and search.
LEMMA RequestsNamed ==
    ASSUME Types
    PROVE  /\ submitted < Len(Roots) => Roots[submitted + 1] \in Requests
           /\ \A w \in Workers : todo[w] # << >> =>
                  Head(todo[w]) \in Requests /\ Tail(todo[w]) \in Seq(Requests)
           /\ \A w \in Workers : pc[w] # "idle" =>
                  request[arg[w]] \in Requests /\ Names(request[arg[w]]) \in Seq(Requests)
                  /\ URL(arg[w]) \in URLs
           /\ \A i \in 1..Len(request) : URL(i) \in URLs
<1>1. submitted < Len(Roots) => Roots[submitted + 1] \in Requests
  BY IndexerAssumption, ElementOfSeq DEF Types
<1>2. ASSUME NEW w \in Workers, todo[w] # << >>
      PROVE  Head(todo[w]) \in Requests /\ Tail(todo[w]) \in Seq(Requests)
  <2>1. todo[w] \in Seq(Requests)
    BY DEF Types
  <2> QED
    BY <1>2, <2>1, HeadTailProperties
<1>3. \A i \in 1..Len(request) : request[i] \in Requests
  BY ElementOfSeq DEF Types
<1>4. \A r \in Requests : r.url \in URLs /\ Names(r) \in Seq(Requests)
  BY IndexerAssumption DEF Requests
<1> QED
  BY <1>1, <1>2, <1>3, <1>4 DEF Types, URL

LEMMA TypesStep ==
    ASSUME Types, [Next]_vars
    PROVE  Types'
<1> USE DEF crawl, At, Reads, Goto, Return, NoItem, Labels
<1>a. Len(request) \in Nat /\ Len(eventList) \in Nat
  BY DEF Types
<1>1. CASE UNCHANGED vars
  BY <1>1 DEF vars, Types
<1>2. ASSUME deployIndexer PROVE Types'
  <2>1. Roots[submitted + 1] \in Requests /\ SubmitNew(Roots[submitted + 1])
    BY <1>2, RequestsNamed DEF deployIndexer
  <2>2. /\ submitted' = submitted + 1
        /\ UNCHANGED <<deleted, visitedURL, pc, arg, todo, handled>>
    BY <1>2 DEF deployIndexer
  <2>3. submitted' \in Nat
    BY <2>2 DEF Types
  <2>4. /\ request' \in Seq(Requests) /\ eventList' \in Seq(Nat)
        /\ 1..Len(request) \subseteq 1..Len(request')
        /\ \A i \in 1..Len(eventList') : eventList'[i] \in 1..Len(request')
    BY <2>1, SubmittedTypes
  <2> QED
    BY <2>2, <2>3, <2>4 DEF Types
<1>3. ASSUME NEW w \in Workers, take(w) PROVE Types'
  <2>1. /\ Len(eventList) \in Nat \ {0} /\ arg' = [arg EXCEPT ![w] = eventList[1]]
        /\ eventList' \in Seq(Nat) /\ Len(eventList') = Len(eventList) - 1
        /\ \A i \in 1..(Len(eventList) - 1) : eventList'[i] = eventList[i + 1]
    BY <1>3, Taken
  <2>2. /\ UNCHANGED <<request, deleted, visitedURL, submitted, todo, handled>>
        /\ pc' = [pc EXCEPT ![w] = "visit"]
    BY <1>3 DEF take
  <2>3. 1 \in 1..Len(eventList) /\ \A i \in 1..Len(eventList') : i + 1 \in 1..Len(eventList)
    BY <2>1
  <2>4. eventList[1] \in 1..Len(request) /\ eventList[1] \in Nat
    BY <2>3 DEF Types
  <2>5. \A i \in 1..Len(eventList') : eventList'[i] \in 1..Len(request)
    BY <2>1, <2>3 DEF Types
  <2>6. pc' \in [Workers -> Labels] /\ arg' \in [Workers -> Nat]
    BY <2>1, <2>2, <2>4 DEF Types
  <2>7. \A v \in Workers : pc'[v] # "idle" => arg'[v] \in 1..Len(request)
    BY <2>1, <2>2, <2>4 DEF Types
  <2> QED
    BY <2>1, <2>2, <2>5, <2>6, <2>7 DEF Types
<1>4. ASSUME NEW w \in Workers, visit(w) PROVE Types'
  <2>1. URL(arg[w]) \in URLs
    BY <1>4, RequestsNamed DEF visit
  <2>2. visitedURL' \subseteq URLs
    BY <1>4, <2>1 DEF visit, Types
  <2>3. pc' \in [Workers -> Labels] /\ arg' \in [Workers -> Nat]
    <3>1. pc \in [Workers -> Labels] /\ arg \in [Workers -> Nat]
      BY DEF Types
    <3>2. \/ pc' = [pc EXCEPT ![w] = "idle"] /\ arg' = [arg EXCEPT ![w] = 0]
          \/ pc' = [pc EXCEPT ![w] = "getData"] /\ arg' = arg
      BY <1>4 DEF visit
    <3> QED
      BY <3>1, <3>2
  <2>4. \A v \in Workers : pc'[v] # "idle" => arg'[v] \in 1..Len(request)
    BY <1>4 DEF visit, Types
  <2>5. UNCHANGED <<request, deleted, eventList, submitted, todo, handled>>
    BY <1>4 DEF visit
  <2> QED
    BY <2>2, <2>3, <2>4, <2>5 DEF Types
<1>5. ASSUME NEW w \in Workers, getData(w) PROVE Types'
  <2>1. /\ UNCHANGED <<crawl, arg>> /\ pc[w] = "getData" /\ pc' = [pc EXCEPT ![w] = "search"]
        /\ todo' = [todo EXCEPT ![w] = Names(request[arg[w]])]
        /\ handled' = [handled EXCEPT ![URL(arg[w])] = handled[URL(arg[w])] + 1]
    BY <1>5 DEF getData
  <2>2. Names(request[arg[w]]) \in Seq(Requests) /\ URL(arg[w]) \in URLs
    BY <2>1, RequestsNamed
  <2>3. todo' \in [Workers -> Seq(Requests)]
    BY <2>1, <2>2 DEF Types
  <2>4. handled' \in [URLs -> Nat]
    BY <2>1, <2>2 DEF Types
  <2>5. pc' \in [Workers -> Labels] /\ \A v \in Workers : pc'[v] # "idle" => arg[v] \in 1..Len(request)
    BY <2>1 DEF Types
  <2> QED
    BY <2>1, <2>3, <2>4, <2>5 DEF Types
<1>6. ASSUME NEW w \in Workers, getDataFails(w) PROVE Types'
  BY <1>6 DEF getDataFails, Types
<1>7. ASSUME NEW w \in Workers, reset(w) PROVE Types'
  BY <1>7 DEF reset, Types
<1>8. ASSUME NEW w \in Workers, again(w) PROVE Types'
  BY <1>a, <1>8, Resubmitted DEF again, Types
<1>9. ASSUME NEW w \in Workers, logError(w) PROVE Types'
  BY <1>9 DEF logError, Types
<1>10. ASSUME NEW w \in Workers, search(w) PROVE Types'
  <2>1. Head(todo[w]) \in Requests /\ SubmitNew(Head(todo[w])) /\ Tail(todo[w]) \in Seq(Requests)
    BY <1>10, RequestsNamed DEF search
  <2>2. /\ todo' = [todo EXCEPT ![w] = Tail(todo[w])]
        /\ UNCHANGED <<deleted, visitedURL, submitted, pc, arg, handled>>
    BY <1>10 DEF search
  <2> QED
    BY <2>1, <2>2, SubmittedTypes DEF Types
<1>11. ASSUME NEW w \in Workers, finish(w) PROVE Types'
  BY <1>11 DEF finish, Types
<1>12. ASSUME NEW w \in Workers, useAfterDelete(w) PROVE Types'
  BY <1>12 DEF useAfterDelete, Types
<1> QED
  BY <1>1, <1>2, <1>3, <1>4, <1>5, <1>6, <1>7, <1>8, <1>9, <1>10, <1>11, <1>12 DEF Next, run

\* What ItemsOK depends on when nothing is deleted and the list stays: a worker may let go of
\* its item.
LEMMA ItemsLetGo ==
    ASSUME ItemsOK, UNCHANGED <<eventList, deleted>>,
           \A w \in Workers : Holds(w)' => Holds(w) /\ arg'[w] = arg[w]
    PROVE  ItemsOK'
BY DEF ItemsOK

\* A new item is submitted.
LEMMA ItemsSubmitted ==
    ASSUME Types, ItemsOK, NEW r \in Requests, SubmitNew(r), UNCHANGED <<deleted, pc, arg>>
    PROVE  ItemsOK'
<1>1. /\ Len(eventList) \in Nat /\ Len(request) \in Nat /\ Len(eventList') = Len(eventList) + 1
      /\ \A i \in 1..Len(eventList) : eventList'[i] = eventList[i]
      /\ eventList'[Len(eventList) + 1] = Len(request) + 1
  BY Submitted DEF Types
<1>2. /\ Len(request) + 1 \notin deleted
      /\ \A i \in 1..Len(eventList) : eventList[i] # Len(request) + 1
      /\ \A w \in Workers : Holds(w) => arg[w] # Len(request) + 1
  BY <1>1 DEF Types, Holds
<1>3. \A i \in 1..Len(eventList') : i \in 1..Len(eventList) \/ i = Len(eventList) + 1
  BY <1>1
<1>4. \A i \in 1..Len(eventList') : eventList'[i] \notin deleted
  BY <1>1, <1>2, <1>3 DEF ItemsOK
<1>5. \A i, j \in 1..Len(eventList') : eventList'[i] = eventList'[j] => i = j
  BY <1>1, <1>2, <1>3 DEF ItemsOK
<1>6. \A w \in Workers : Holds(w) => \A i \in 1..Len(eventList') : eventList'[i] # arg[w]
  BY <1>1, <1>2, <1>3 DEF ItemsOK
<1> QED
  BY <1>4, <1>5, <1>6 DEF ItemsOK, Holds

LEMMA ItemsStep ==
    ASSUME Types, ItemsOK, [Next]_vars
    PROVE  ItemsOK'
<1> USE DEF crawl, At, Reads, Goto, Return, NoItem, Labels
<1>a. Len(request) \in Nat /\ Len(eventList) \in Nat
      /\ pc \in [Workers -> Labels] /\ arg \in [Workers -> Nat]
  BY DEF Types
<1>1. CASE UNCHANGED vars
  BY <1>1, ItemsLetGo DEF vars, Holds
<1>2. ASSUME deployIndexer PROVE ItemsOK'
  BY <1>2, RequestsNamed, ItemsSubmitted DEF deployIndexer
<1>3. ASSUME NEW w \in Workers, take(w) PROVE ItemsOK'
  <2>1. /\ Len(eventList) \in Nat \ {0} /\ arg' = [arg EXCEPT ![w] = eventList[1]]
        /\ Len(eventList') = Len(eventList) - 1
        /\ \A i \in 1..Len(eventList') : i + 1 \in 1..Len(eventList) /\ i + 1 # 1
                                          /\ eventList'[i] = eventList[i + 1]
    BY <1>3, Taken
  <2>2. deleted' = deleted /\ pc' = [pc EXCEPT ![w] = "visit"] /\ pc[w] = "idle"
    BY <1>3 DEF take
  <2>3. \A i \in 1..Len(eventList') : eventList'[i] \notin deleted
    BY <2>1 DEF ItemsOK
  <2>4. \A i, j \in 1..Len(eventList') : eventList'[i] = eventList'[j] => i = j
    <3>1. ASSUME NEW i \in 1..Len(eventList'), NEW j \in 1..Len(eventList'),
                 eventList'[i] = eventList'[j]
          PROVE  i + 1 = j + 1
      BY <2>1, <3>1 DEF ItemsOK
    <3> QED
      BY <3>1
  <2>5. ASSUME NEW v \in Workers, Holds(v)'
        PROVE  \/ v = w /\ arg'[v] = eventList[1]
               \/ v # w /\ Holds(v) /\ arg'[v] = arg[v]
    BY <1>a, <2>1, <2>2, <2>5 DEF Holds
  <2>6. 1 \in 1..Len(eventList)
    BY <2>1
  <2>7. \A v \in Workers : Holds(v)' => arg'[v] \notin deleted
    BY <2>5, <2>6 DEF ItemsOK
  <2>8. \A v \in Workers : Holds(v)' => \A i \in 1..Len(eventList') : eventList'[i] # arg'[v]
    BY <2>1, <2>5, <2>6 DEF ItemsOK
  <2>9. \A u, v \in Workers : Holds(u)' /\ Holds(v)' /\ arg'[u] = arg'[v] => u = v
    BY <2>5, <2>6 DEF ItemsOK
  <2> QED
    BY <2>2, <2>3, <2>4, <2>7, <2>8, <2>9 DEF ItemsOK
<1>4. ASSUME NEW w \in Workers, visit(w) PROVE ItemsOK'
  <2>1. \A v \in Workers : Holds(v)' => Holds(v) /\ arg'[v] = arg[v]
    BY <1>a, <1>4 DEF visit, Holds
  <2> QED
    BY <1>4, <2>1, ItemsLetGo DEF visit
<1>5. ASSUME NEW w \in Workers, getData(w) \/ getDataFails(w) \/ reset(w) \/ logError(w) PROVE ItemsOK'
  <2>1. \A v \in Workers : Holds(v)' => Holds(v) /\ arg'[v] = arg[v]
    BY <1>a, <1>5 DEF getData, getDataFails, reset, logError, Holds
  <2> QED
    BY <1>5, <2>1, ItemsLetGo DEF getData, getDataFails, reset, logError
<1>8. ASSUME NEW w \in Workers, again(w) PROVE ItemsOK'
  <2>1. /\ Len(eventList') = Len(eventList) + 1
        /\ \A i \in 1..Len(eventList) : eventList'[i] = eventList[i]
        /\ eventList'[Len(eventList) + 1] = arg[w]
    BY <1>8, Resubmitted
  <2>2. /\ deleted' = deleted /\ arg' = arg /\ arg[w] \notin deleted
        /\ pc' = [pc EXCEPT ![w] = "log"] /\ Holds(w)
    BY <1>8 DEF again, Holds
  <2>3. \A i \in 1..Len(eventList') : i \in 1..Len(eventList) \/ i = Len(eventList) + 1
    BY <1>a, <2>1
  <2>4. \A i \in 1..Len(eventList') : eventList'[i] \notin deleted
    BY <2>1, <2>2, <2>3 DEF ItemsOK
  <2>5. \A i, j \in 1..Len(eventList') : eventList'[i] = eventList'[j] => i = j
    BY <2>1, <2>2, <2>3 DEF ItemsOK
  <2>6. \A v \in Workers : Holds(v)' => Holds(v) /\ v # w
    BY <1>a, <2>2 DEF Holds
  <2>7. \A v \in Workers : Holds(v)' => \A i \in 1..Len(eventList') : eventList'[i] # arg[v]
    BY <2>1, <2>2, <2>3, <2>6 DEF ItemsOK
  <2> QED
    BY <2>2, <2>4, <2>5, <2>6, <2>7 DEF ItemsOK
<1>10. ASSUME NEW w \in Workers, search(w) PROVE ItemsOK'
  BY <1>10, RequestsNamed, ItemsSubmitted DEF search
<1>11. ASSUME NEW w \in Workers, finish(w) PROVE ItemsOK'
  <2>1. /\ deleted' = deleted \cup {arg[w]} /\ eventList' = eventList /\ Holds(w)
        /\ pc' = [pc EXCEPT ![w] = "idle"] /\ arg' = [arg EXCEPT ![w] = 0]
    BY <1>11 DEF finish, Holds
  <2>2. \A v \in Workers : Holds(v)' => Holds(v) /\ v # w /\ arg'[v] = arg[v]
    BY <1>a, <2>1 DEF Holds
  <2> QED
    BY <2>1, <2>2 DEF ItemsOK
<1>12. ASSUME NEW w \in Workers, useAfterDelete(w) PROVE ItemsOK'
  BY <1>12, ItemsLetGo DEF useAfterDelete, Holds
<1> QED
  BY <1>1, <1>2, <1>3, <1>4, <1>5, <1>8, <1>10, <1>11, <1>12 DEF Next, run

\* An item keeps its address.
LEMMA URLsStay ==
    ASSUME Types, [Next]_vars
    PROVE  \A i \in 1..Len(request) : URL(i)' = URL(i)
<1>1. ASSUME NEW r \in Requests, SubmitNew(r) PROVE \A i \in 1..Len(request) : URL(i)' = URL(i)
  BY <1>1, Submitted DEF URL
<1>2. ASSUME request' = request PROVE \A i \in 1..Len(request) : URL(i)' = URL(i)
  BY <1>2 DEF URL
<1>3. CASE deployIndexer
  BY <1>1, <1>3, RequestsNamed DEF deployIndexer
<1>4. ASSUME NEW w \in Workers, search(w) PROVE \A i \in 1..Len(request) : URL(i)' = URL(i)
  BY <1>1, <1>4, RequestsNamed DEF search
<1> QED
  BY <1>2, <1>3, <1>4
     DEF Next, run, vars, crawl, take, visit, getData, getDataFails, reset, again, logError, finish,
         useAfterDelete

\* The worker's address, after a step in which it keeps its item.
LEMMA URLKept ==
    ASSUME Types, [Next]_vars, NEW w \in Workers, pc[w] # "idle", arg'[w] = arg[w]
    PROVE  URL(arg[w])' = URL(arg[w]) /\ URL(arg[w]) \in URLs
<1>1. arg[w] \in 1..Len(request)
  BY DEF Types
<1>2. URL(arg[w])' = request'[arg'[w]].url
  BY DEF URL
<1>3. request'[arg[w]].url = request[arg[w]].url
  BY <1>1, URLsStay DEF URL
<1> QED
  BY <1>2, <1>3, RequestsNamed DEF URL

LEMMA VisitedSame ==
    ASSUME Types, [Next]_vars, VisitedOK, UNCHANGED <<visitedURL, handled>>,
           \A w \in Workers : (Fetches(w)' <=> Fetches(w)) /\ (Fetches(w) => arg'[w] = arg[w])
    PROVE  VisitedOK'
<1>1. \A w \in Workers : Fetches(w) => URL(arg[w])' = URL(arg[w])
  BY URLKept DEF Fetches
<1> QED
  BY <1>1 DEF VisitedOK

LEMMA VisitedStep ==
    ASSUME Types, VisitedOK, [Next]_vars
    PROVE  VisitedOK'
<1> USE DEF crawl, At, Reads, Goto, Return, NoItem, Labels
<1>a. pc \in [Workers -> Labels] /\ arg \in [Workers -> Nat] /\ handled \in [URLs -> Nat]
      /\ visitedURL \subseteq URLs
  BY DEF Types
<1>1. CASE UNCHANGED vars
  BY <1>1, VisitedSame DEF vars, Fetches
<1>2. CASE deployIndexer
  BY <1>2, VisitedSame DEF deployIndexer, Fetches
<1>3. ASSUME NEW w \in Workers, visit(w) PROVE VisitedOK'
  <2>1. CASE URL(arg[w]) \in visitedURL
    <3>1. UNCHANGED <<visitedURL, handled>> /\ \A v \in Workers : pc'[v] = (IF v = w THEN "idle" ELSE pc[v])
                                                               /\ (v # w => arg'[v] = arg[v])
      BY <1>a, <1>3, <2>1 DEF visit
    <3>2. \A v \in Workers : (Fetches(v)' <=> Fetches(v)) /\ (Fetches(v) => arg'[v] = arg[v])
      BY <1>3, <3>1 DEF visit, Fetches
    <3> QED
      BY <3>1, <3>2, VisitedSame
  <2>2. CASE URL(arg[w]) \notin visitedURL
    <3>1. /\ visitedURL' = visitedURL \cup {URL(arg[w])} /\ UNCHANGED <<handled, arg>>
          /\ pc' = [pc EXCEPT ![w] = "getData"] /\ pc[w] = "visit"
      BY <1>3, <2>2 DEF visit
    <3>2. \A v \in Workers : Fetches(v)' <=> Fetches(v) \/ v = w
      BY <1>a, <3>1 DEF Fetches
    <3>3. \A v \in Workers : Fetches(v)' => URL(arg[v])' = URL(arg[v]) /\ URL(arg[v]) \in URLs
      BY <3>1, <3>2, URLKept DEF Fetches
    <3>4. handled[URL(arg[w])] = 0
      BY <2>2, <3>2, <3>3 DEF VisitedOK
    <3>5. \A v \in Workers : Fetches(v) => URL(arg[v]) # URL(arg[w])
      BY <2>2 DEF VisitedOK
    <3>6. \A v \in Workers : Fetches(v)' => URL(arg[v])' \in visitedURL' /\ handled'[URL(arg[v])'] = 0
      BY <3>1, <3>2, <3>3, <3>4 DEF VisitedOK
    <3>7. \A u, v \in Workers : Fetches(u)' /\ Fetches(v)' /\ URL(arg[u])' = URL(arg[v])' => u = v
      BY <3>2, <3>3, <3>5 DEF VisitedOK
    <3>8. \A u \in visitedURL' : handled'[u] = 1 \/ \E v \in Workers : Fetches(v)' /\ URL(arg[v])' = u
      BY <3>1, <3>2, <3>3 DEF VisitedOK
    <3>9. \A u \in URLs : handled'[u] = 0 \/ (handled'[u] = 1 /\ u \in visitedURL')
      BY <3>1 DEF VisitedOK
    <3> QED
      BY <3>6, <3>7, <3>8, <3>9 DEF VisitedOK
  <2> QED
    BY <2>1, <2>2
<1>4. ASSUME NEW w \in Workers, getData(w) PROVE VisitedOK'
  <2>1. /\ handled' = [handled EXCEPT ![URL(arg[w])] = handled[URL(arg[w])] + 1]
        /\ UNCHANGED <<visitedURL, arg>> /\ pc' = [pc EXCEPT ![w] = "search"] /\ pc[w] = "getData"
    BY <1>4 DEF getData
  <2>2. /\ Fetches(w) /\ \A v \in Workers : Fetches(v)' <=> Fetches(v) /\ v # w
    BY <1>a, <2>1 DEF Fetches
  <2>3. \A v \in Workers : Fetches(v) => URL(arg[v])' = URL(arg[v]) /\ URL(arg[v]) \in URLs
    BY <2>1, URLKept DEF Fetches
  <2>4. URL(arg[w]) \in visitedURL /\ handled[URL(arg[w])] = 0
        /\ \A v \in Workers : Fetches(v) /\ v # w => URL(arg[v]) # URL(arg[w])
    BY <2>2 DEF VisitedOK
  <2>5. \A u \in URLs : handled'[u] = IF u = URL(arg[w]) THEN 1 ELSE handled[u]
    BY <1>a, <2>1, <2>2, <2>3, <2>4
  <2>6. \A v \in Workers : Fetches(v)' => URL(arg[v])' \in visitedURL' /\ handled'[URL(arg[v])'] = 0
    BY <2>1, <2>2, <2>3, <2>4, <2>5 DEF VisitedOK
  <2>7. \A u, v \in Workers : Fetches(u)' /\ Fetches(v)' /\ URL(arg[u])' = URL(arg[v])' => u = v
    BY <2>2, <2>3 DEF VisitedOK
  <2>8. \A u \in visitedURL' : handled'[u] = 1 \/ \E v \in Workers : Fetches(v)' /\ URL(arg[v])' = u
    BY <1>a, <2>1, <2>2, <2>3, <2>5 DEF VisitedOK
  <2>9. \A u \in URLs : handled'[u] = 0 \/ (handled'[u] = 1 /\ u \in visitedURL')
    BY <2>1, <2>4, <2>5 DEF VisitedOK
  <2> QED
    BY <2>6, <2>7, <2>8, <2>9 DEF VisitedOK
<1>5. ASSUME NEW w \in Workers, reset(w) PROVE VisitedOK'
  <2>1. /\ visitedURL' = visitedURL \ {URL(arg[w])}
        /\ UNCHANGED <<handled, arg>> /\ pc' = [pc EXCEPT ![w] = "again"] /\ pc[w] = "reset"
    BY <1>5 DEF reset
  <2>2. /\ Fetches(w) /\ \A v \in Workers : Fetches(v)' <=> Fetches(v) /\ v # w
    BY <1>a, <2>1 DEF Fetches
  <2>3. \A v \in Workers : Fetches(v) => URL(arg[v])' = URL(arg[v]) /\ URL(arg[v]) \in URLs
    BY <2>1, URLKept DEF Fetches
  <2>4. URL(arg[w]) \in visitedURL /\ handled[URL(arg[w])] = 0
        /\ \A v \in Workers : Fetches(v) /\ v # w => URL(arg[v]) # URL(arg[w])
    BY <2>2 DEF VisitedOK
  <2>6. \A v \in Workers : Fetches(v)' => URL(arg[v])' \in visitedURL' /\ handled'[URL(arg[v])'] = 0
    BY <2>1, <2>2, <2>3, <2>4 DEF VisitedOK
  <2>7. \A u, v \in Workers : Fetches(u)' /\ Fetches(v)' /\ URL(arg[u])' = URL(arg[v])' => u = v
    BY <2>2, <2>3 DEF VisitedOK
  <2>8. \A u \in visitedURL' : handled'[u] = 1 \/ \E v \in Workers : Fetches(v)' /\ URL(arg[v])' = u
    BY <2>1, <2>2, <2>3 DEF VisitedOK
  <2>9. \A u \in URLs : handled'[u] = 0 \/ (handled'[u] = 1 /\ u \in visitedURL')
    BY <2>1, <2>4 DEF VisitedOK
  <2> QED
    BY <2>6, <2>7, <2>8, <2>9 DEF VisitedOK
<1>6. ASSUME NEW w \in Workers, take(w) PROVE VisitedOK'
  BY <1>a, <1>6, VisitedSame DEF take, Fetches
<1>7. ASSUME NEW w \in Workers, getDataFails(w) \/ again(w) \/ logError(w) \/ search(w) \/ finish(w)
      PROVE  VisitedOK'
  <2>1. UNCHANGED <<visitedURL, handled>>
    BY <1>7 DEF getDataFails, again, logError, search, finish
  <2>2. \A v \in Workers : (Fetches(v)' <=> Fetches(v)) /\ (Fetches(v) => arg'[v] = arg[v])
    BY <1>a, <1>7 DEF getDataFails, again, logError, search, finish, Fetches
  <2> QED
    BY <2>1, <2>2, VisitedSame
<1>8. ASSUME NEW w \in Workers, useAfterDelete(w) PROVE VisitedOK'
  BY <1>8, VisitedSame DEF useAfterDelete, Fetches
<1> QED
  BY <1>1, <1>2, <1>3, <1>4, <1>5, <1>6, <1>7, <1>8 DEF Next, run

\* A page stays kept when the searches and the list stay, or the list grows, and every worker
\* that keeps a page goes on to do so.
LEMMA PagesStay ==
    ASSUME Types, [Next]_vars, NEW u \in URLs, PageKept(u),
           handled' = handled,
           \A i \in 1..Len(eventList) : i \in 1..Len(eventList') /\ eventList'[i] = eventList[i],
           \A w \in Workers : Keeps(w) /\ URL(arg[w]) = u => Keeps(w)' /\ arg'[w] = arg[w]
    PROVE  PageKept(u)'
<1>1. CASE handled[u] > 0
  BY <1>1 DEF PageKept
<1>2. ASSUME NEW i \in 1..Len(eventList), URL(eventList[i]) = u PROVE PageKept(u)'
  <2>1. request'[eventList[i]].url = u
    BY <1>2, URLsStay DEF Types, URL
  <2>2. URL(eventList[i])' = u
    BY <2>1 DEF URL
  <2> QED
    BY <2>2 DEF PageKept
<1>3. ASSUME NEW w \in Workers, Keeps(w), URL(arg[w]) = u PROVE PageKept(u)'
  BY <1>3, URLKept DEF PageKept, Keeps
<1> QED
  BY <1>1, <1>2, <1>3 DEF PageKept

LEMMA KeptSubmitted ==
    ASSUME Types, KeptOK, [Next]_vars, NEW r \in Requests, SubmitNew(r), UNCHANGED <<handled, pc, arg>>
    PROVE  KeptOK'
<1>1. /\ Len(eventList) \in Nat /\ Len(request) \in Nat
      /\ Len(eventList') = Len(eventList) + 1 /\ Len(request') = Len(request) + 1
      /\ \A i \in 1..Len(eventList) : eventList'[i] = eventList[i]
      /\ eventList'[Len(eventList) + 1] = Len(request) + 1
  BY Submitted DEF Types
<1>2. ASSUME NEW i \in 1..Len(request) PROVE PageKept(URL(i))'
  <2>1. URL(i) \in URLs /\ PageKept(URL(i)) /\ URL(i)' = URL(i)
    BY <1>2, RequestsNamed, URLsStay DEF KeptOK
  <2>2. \A w \in Workers : Keeps(w) => Keeps(w)' /\ arg'[w] = arg[w]
    BY DEF Keeps
  <2>3. \A j \in 1..Len(eventList) : j \in 1..Len(eventList') /\ eventList'[j] = eventList[j]
    BY <1>1
  <2>4. \A u \in URLs : PageKept(u) => PageKept(u)'
    BY <2>2, <2>3, PagesStay
  <2> QED
    BY <2>1, <2>4 DEF PageKept
<1>3. PageKept(URL(Len(request)))'
  <2>1. Len(eventList') \in 1..Len(eventList') /\ eventList'[Len(eventList')] = Len(request')
    BY <1>1
  <2> QED
    BY <1>1, <2>1 DEF PageKept, URL
<1>4. \A i \in 1..Len(request') : i \in 1..Len(request) \/ i = Len(request')
  BY <1>1
<1> QED
  BY <1>2, <1>3, <1>4 DEF KeptOK, PageKept, URL

LEMMA KeptStep ==
    ASSUME Types, Types', VisitedOK, KeptOK, [Next]_vars
    PROVE  KeptOK'
<1> USE DEF crawl, At, Reads, Goto, Return, NoItem, Labels
<1>a. /\ pc \in [Workers -> Labels] /\ arg \in [Workers -> Nat] /\ handled \in [URLs -> Nat]
      /\ Len(eventList) \in Nat
  BY DEF Types
<1>b. ASSUME request' = request, \A u \in URLs : PageKept(u) => PageKept(u)' PROVE KeptOK'
  <2>1. \A i \in 1..Len(request) : URL(i) \in URLs /\ PageKept(URL(i)) /\ URL(i)' = URL(i)
    BY RequestsNamed, URLsStay DEF KeptOK
  <2> QED
    BY <1>b, <2>1 DEF KeptOK, PageKept
<1>1. CASE UNCHANGED vars
  BY <1>1 DEF vars, KeptOK, PageKept, Keeps, URL
<1>2. CASE deployIndexer
  BY <1>2, RequestsNamed, KeptSubmitted DEF deployIndexer
<1>3. ASSUME NEW w \in Workers, search(w) PROVE KeptOK'
  BY <1>3, RequestsNamed, KeptSubmitted DEF search
<1>4. ASSUME NEW w \in Workers, take(w) PROVE KeptOK'
  <2>1. /\ Len(eventList) \in Nat \ {0} /\ arg' = [arg EXCEPT ![w] = eventList[1]]
        /\ Len(eventList') = Len(eventList) - 1
        /\ \A i \in 1..(Len(eventList) - 1) : eventList'[i] = eventList[i + 1]
    BY <1>4, Taken
  <2>2. /\ request' = request /\ handled' = handled /\ pc' = [pc EXCEPT ![w] = "visit"]
        /\ pc[w] = "idle"
    BY <1>4 DEF take
  <2>3. ASSUME NEW u \in URLs, PageKept(u) PROVE PageKept(u)'
    <3>1. CASE handled[u] > 0
      BY <2>2, <3>1 DEF PageKept
    <3>2. ASSUME NEW i \in 1..Len(eventList), URL(eventList[i]) = u PROVE PageKept(u)'
      <4>1. CASE i = 1
        <5>1. Keeps(w)' /\ URL(arg[w])' = u
          BY <1>a, <2>1, <2>2, <3>2, <4>1 DEF Keeps, URL
        <5> QED
          BY <5>1 DEF PageKept
      <4>2. CASE i # 1
        <5>1. i - 1 \in 1..Len(eventList') /\ eventList'[i - 1] = eventList[i]
          <6>1. i - 1 \in 1..(Len(eventList) - 1) /\ (i - 1) + 1 = i
            BY <2>1, <4>2
          <6> QED
            BY <2>1, <6>1
        <5>2. URL(eventList[i - 1])' = u
          BY <2>2, <3>2, <5>1 DEF URL
        <5> QED
          BY <5>1, <5>2 DEF PageKept
      <4> QED
        BY <4>1, <4>2
    <3>3. ASSUME NEW v \in Workers, Keeps(v), URL(arg[v]) = u PROVE PageKept(u)'
      <4>1. v # w /\ arg'[v] = arg[v] /\ Keeps(v)'
        BY <1>a, <2>1, <2>2, <3>3 DEF Keeps
      <4> QED
        BY <2>2, <3>3, <4>1 DEF PageKept, URL
    <3> QED
      BY <2>3, <3>1, <3>2, <3>3 DEF PageKept
  <2> QED
    BY <1>b, <2>2, <2>3
<1>5. ASSUME NEW w \in Workers, visit(w) PROVE KeptOK'
  <2>1. UNCHANGED <<request, eventList, handled>> /\ pc[w] = "visit"
    BY <1>5 DEF visit
  <2>2. CASE URL(arg[w]) \notin visitedURL
    <3>1. pc' = [pc EXCEPT ![w] = "getData"] /\ arg' = arg
      BY <1>5, <2>2 DEF visit
    <3>2. \A v \in Workers : Keeps(v) => Keeps(v)' /\ arg'[v] = arg[v]
      BY <1>a, <3>1 DEF Keeps
    <3> QED
      BY <1>b, <2>1, <3>2, PagesStay
  <2>3. CASE URL(arg[w]) \in visitedURL
    <3>1. pc' = [pc EXCEPT ![w] = "idle"] /\ arg' = [arg EXCEPT ![w] = 0]
      BY <1>5, <2>3 DEF visit
    <3>2. \A v \in Workers : Keeps(v) /\ v # w => Keeps(v)' /\ arg'[v] = arg[v]
      BY <1>a, <3>1 DEF Keeps
    <3>3. ASSUME NEW u \in URLs, PageKept(u), u # URL(arg[w]) PROVE PageKept(u)'
      <4>1. \A v \in Workers : Keeps(v) /\ URL(arg[v]) = u => Keeps(v)' /\ arg'[v] = arg[v]
        BY <3>2, <3>3
      <4> QED
        BY <2>1, <3>3, <4>1, PagesStay
    <3>4. ASSUME NEW u \in URLs, u = URL(arg[w]) PROVE PageKept(u)'
      <4>1. CASE handled[u] = 1
        BY <2>1, <4>1 DEF PageKept
      <4>2. ASSUME NEW v \in Workers, Fetches(v), URL(arg[v]) = u PROVE PageKept(u)'
        <5>1. Keeps(v)' /\ arg'[v] = arg[v]
          BY <2>1, <3>2, <4>2 DEF Keeps, Fetches
        <5> QED
          BY <2>1, <4>2, <5>1 DEF PageKept, URL
      <4> QED
        BY <2>3, <3>4, <4>1, <4>2 DEF VisitedOK
    <3> QED
      BY <1>b, <2>1, <3>3, <3>4
  <2> QED
    BY <2>2, <2>3
<1>6. ASSUME NEW w \in Workers, getData(w) PROVE KeptOK'
  <2>1. /\ UNCHANGED <<request, eventList, arg>> /\ pc[w] = "getData"
        /\ handled' = [handled EXCEPT ![URL(arg[w])] = handled[URL(arg[w])] + 1]
        /\ pc' = [pc EXCEPT ![w] = "search"]
    BY <1>6 DEF getData
  <2>2. URL(arg[w]) \in URLs
    BY <2>1, RequestsNamed
  <2>3. ASSUME NEW u \in URLs, PageKept(u) PROVE PageKept(u)'
    <3>1. CASE u = URL(arg[w])
      BY <1>a, <2>1, <2>2, <3>1 DEF PageKept
    <3>2. CASE u # URL(arg[w])
      <4>1. handled'[u] = handled[u]
        BY <1>a, <2>1, <3>2
      <4>2. \A v \in Workers : Keeps(v) /\ URL(arg[v]) = u => Keeps(v)'
        BY <1>a, <2>1, <3>2 DEF Keeps
      <4> QED
        BY <2>1, <2>3, <4>1, <4>2 DEF PageKept, URL
    <3> QED
      BY <3>1, <3>2
  <2> QED
    BY <1>b, <2>1, <2>3
<1>7. ASSUME NEW w \in Workers, again(w) PROVE KeptOK'
  <2>1. /\ Len(eventList') = Len(eventList) + 1
        /\ \A i \in 1..Len(eventList) : eventList'[i] = eventList[i]
        /\ eventList'[Len(eventList) + 1] = arg[w]
    BY <1>7, Resubmitted
  <2>2. UNCHANGED <<request, handled, arg>> /\ pc[w] = "again" /\ pc' = [pc EXCEPT ![w] = "log"]
    BY <1>7 DEF again
  <2>3. \A i \in 1..Len(eventList) : i \in 1..Len(eventList') /\ eventList'[i] = eventList[i]
    BY <1>a, <2>1
  <2>4. PageKept(URL(arg[w]))'
    <3>1. Len(eventList) + 1 \in 1..Len(eventList')
      BY <1>a, <2>1
    <3> QED
      BY <2>1, <2>2, <3>1 DEF PageKept, URL
  <2>5. ASSUME NEW u \in URLs, PageKept(u) PROVE PageKept(u)'
    <3>1. CASE u = URL(arg[w])
      BY <2>2, <2>4, <3>1 DEF PageKept, URL
    <3>2. CASE u # URL(arg[w])
      <4>1. \A v \in Workers : Keeps(v) /\ URL(arg[v]) = u => Keeps(v)' /\ arg'[v] = arg[v]
        BY <1>a, <2>2, <3>2 DEF Keeps
      <4> QED
        BY <2>2, <2>3, <2>5, <4>1, PagesStay
    <3> QED
      BY <3>1, <3>2
  <2> QED
    BY <1>b, <2>2, <2>5
<1>8. ASSUME NEW w \in Workers, getDataFails(w) \/ reset(w) \/ logError(w) \/ finish(w) PROVE KeptOK'
  <2>1. UNCHANGED <<request, eventList, handled>>
    BY <1>8 DEF getDataFails, reset, logError, finish
  <2>2. \A v \in Workers : Keeps(v) => Keeps(v)' /\ arg'[v] = arg[v]
    BY <1>a, <1>8 DEF getDataFails, reset, logError, finish, Keeps
  <2> QED
    BY <1>b, <2>1, <2>2, PagesStay
<1>9. ASSUME NEW w \in Workers, useAfterDelete(w) PROVE KeptOK'
  <2>1. UNCHANGED <<request, eventList, handled, pc, arg>>
    BY <1>9 DEF useAfterDelete
  <2>2. \A v \in Workers : Keeps(v) => Keeps(v)' /\ arg'[v] = arg[v]
    BY <2>1 DEF Keeps
  <2> QED
    BY <1>b, <2>1, <2>2, PagesStay
<1> QED
  BY <1>1, <1>2, <1>3, <1>4, <1>5, <1>6, <1>7, <1>8, <1>9 DEF Next, run

-------------------------------------------------------------------------------
(* The theorems. *)

LEMMA Inductive == Spec => [](Types /\ ItemsOK /\ VisitedOK /\ KeptOK)
<1>1. Types /\ ItemsOK /\ VisitedOK /\ KeptOK /\ [Next]_vars
        => Types' /\ ItemsOK' /\ VisitedOK' /\ KeptOK'
  BY TypesStep, ItemsStep, VisitedStep, KeptStep
<1> QED
  BY <1>1, InitOK, PTL DEF Spec

\* However many workers there are and whatever the pages name, no page is searched twice: the
\* look-up in visitedURL under the lock and the withdrawal of a failed address admit one
\* worker per address at a time.
THEOREM PagesHandledOnce == Spec => []HandledOnce
<1>1. Types /\ VisitedOK => HandledOnce
  BY DEF Types, VisitedOK, HandledOnce
<1> QED
  BY <1>1, Inductive, PTL

\* No page that an item has been made for is lost: the failed request of one worker and the
\* skipped item of another never leave a page without somebody in charge of it.
THEOREM NoPageLost == Spec => []PagesKept
<1>1. KeptOK => PagesKept
  <2> SUFFICES ASSUME KeptOK, NEW u \in Known PROVE handled[u] > 0 \/ u \in Waiting \cup InHand
    BY DEF PagesKept
  <2>1. PageKept(u)
    BY DEF Known, KeptOK
  <2>2. (\E i \in 1..Len(eventList) : URL(eventList[i]) = u) => u \in Waiting
    BY DEF Waiting
  <2>3. (\E w \in Workers : Keeps(w) /\ URL(arg[w]) = u) => u \in InHand
    BY DEF InHand, Keeps
  <2> QED
    BY <2>1, <2>2, <2>3 DEF PageKept
<1> QED
  BY <1>1, Inductive, PTL

\* Only the log of a failed request can read a deleted item: run deletes an item only while
\* nobody else has it and it does not wait.
THEOREM OnlyLogReadsDeleted == Spec => []StaleOnlyInLog
<1>1. ItemsOK => StaleOnlyInLog
  BY DEF ItemsOK, Holds, StaleOnlyInLog
<1> QED
  BY <1>1, Inductive, PTL
===============================================================================
