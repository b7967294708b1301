------------------------------- MODULE Indexer3 -------------------------------
(***************************************************************************)
(* The crawler src/Indexer3/Indexer3.cpp, which asks for the pages 1 to    *)
(* endID: deployIndexer submits the first of them and every page that has  *)
(* been dealt with leads to the next, numbered by the shared currentID.    *)
(* The dispatcher is taken for what EventService.tla promises of it.       *)
(*                                                                         *)
(* deployIndexer asks for HALT before it submits, which setStatus refuses, *)
(* so the workers run from the start, and it writes currentID without the  *)
(* lock under which they count: their ++ is a load and a store, and the    *)
(* number of the next page is read again after it. ArgItems are numbered   *)
(* in the order of their creation; whoever reads one after its deletion    *)
(* sets fault, which ends a behaviour.                                     *)
(*                                                                         *)
(* againGivesUp, againGoesOn, enterUnlocked and storeSkips are faulty      *)
(* variants of the definitions that follow them, used by no action.        *)
(***************************************************************************)
EXTENDS Integers, Sequences

CONSTANTS Workers, NoWorker,
          threadNum, endID,
          MaxItems, MaxFails  \* bounds: items made, requests that return -1

ASSUME Indexer3Assumption ==
    /\ threadNum \in Nat \ {0} /\ endID \in Nat /\ threadNum <= endID
    /\ MaxItems \in Nat /\ MaxFails \in Nat /\ NoWorker \notin Workers

NoItem == 0

VARIABLES page,       \* the items made so far, as a sequence of page numbers
          deleted,    \* the items deleted
          eventList,  \* the dispatcher's list: items
          currentID, lock,
          main,       \* how many items deployIndexer has submitted; threadNum + 1 at its end
          pc, arg, tmp,  \* per worker: where it is, its item, a register
          recorded,   \* pages had: an observer only
          sendFailed, \* how many requests have returned -1
          early,      \* a worker has counted before deployIndexer set currentID: an observer only
          fault

crawl == <<page, deleted, eventList>>
observers == <<recorded, sendFailed, early>>
vars == <<crawl, currentID, lock, main, pc, arg, tmp, observers, fault>>

Init ==
    /\ page = << >> /\ deleted = {} /\ eventList = << >>
    /\ currentID = 1 /\ lock = NoWorker
    /\ main = 0
    /\ pc = [w \in Workers |-> "idle"]
    /\ arg = [w \in Workers |-> NoItem]
    /\ tmp = [w \in Workers |-> 0]
    /\ recorded = {} /\ sendFailed = 0 /\ early = FALSE
    /\ fault = FALSE

\* new ArgItem and submitEvent("func", item).
SubmitNew(n) ==
    /\ Len(page) < MaxItems
    /\ page' = Append(page, n)
    /\ eventList' = Append(eventList, Len(page) + 1)
    /\ UNCHANGED deleted

-------------------------------------------------------------------------------
(* deployIndexer. *)

submitFirst ==
    /\ ~fault /\ main < threadNum
    /\ SubmitNew(main + 1)
    /\ main' = main + 1
    /\ UNCHANGED <<currentID, lock, pc, arg, tmp, observers, fault>>

\* indexer.currentID = threadNum.
setCurrentID ==
    /\ ~fault /\ main = threadNum
    /\ currentID' = threadNum
    /\ main' = threadNum + 1
    /\ UNCHANGED <<crawl, lock, pc, arg, tmp, observers, fault>>

-------------------------------------------------------------------------------
(* IndexerCallback::run, by a worker of the dispatcher. *)

At(w, label) == ~fault /\ pc[w] = label
Goto(w, label) == pc' = [pc EXCEPT ![w] = label] /\ UNCHANGED arg
Return(w) == pc' = [pc EXCEPT ![w] = "idle"] /\ arg' = [arg EXCEPT ![w] = NoItem]

\* Where a worker reads its item.
Reading == {"getData", "again", "retry", "enter", "leave", "delete"}

useAfterDelete(w) ==
    /\ ~fault /\ pc[w] \in Reading /\ arg[w] \in deleted
    /\ fault' = TRUE
    /\ UNCHANGED <<crawl, currentID, lock, main, pc, arg, tmp, observers>>

Reads(w, label) == At(w, label) /\ arg[w] \notin deleted

take(w) ==
    /\ At(w, "idle") /\ eventList # << >>
    /\ arg' = [arg EXCEPT ![w] = Head(eventList)]
    /\ eventList' = Tail(eventList)
    /\ pc' = [pc EXCEPT ![w] = "getData"]
    /\ UNCHANGED <<page, deleted, currentID, lock, main, tmp, observers, fault>>

\* getData returns a page, which parse writes to the log file.
getData(w) ==
    /\ Reads(w, "getData")
    /\ recorded' = recorded \cup {page[arg[w]]}
    /\ Goto(w, "enter")
    /\ UNCHANGED <<crawl, currentID, lock, main, tmp, sendFailed, early, fault>>

\* It returns an empty one.
getNothing(w) ==
    /\ Reads(w, "getData")
    /\ Goto(w, "again")
    /\ UNCHANGED <<crawl, currentID, lock, main, tmp, observers, fault>>

\* It returns -1.
getDataFails(w) ==
    /\ Reads(w, "getData") /\ sendFailed < MaxFails
    /\ sendFailed' = sendFailed + 1
    /\ Goto(w, "retry")
    /\ UNCHANGED <<crawl, currentID, lock, main, tmp, recorded, early, fault>>

againGivesUp(w) ==
    /\ Reads(w, "again")
    /\ Return(w)
    /\ UNCHANGED <<crawl, currentID, lock, main, tmp, observers, fault>>

againGoesOn(w) ==
    /\ Reads(w, "again")
    /\ eventList' = Append(eventList, arg[w])
    /\ Goto(w, "enter")
    /\ UNCHANGED <<page, deleted, currentID, lock, main, tmp, observers, fault>>

\* An empty page: the item is submitted again.
again(w) ==
    /\ Reads(w, "again")
    /\ eventList' = Append(eventList, arg[w])
    /\ Return(w)
    /\ UNCHANGED <<page, deleted, currentID, lock, main, tmp, observers, fault>>

\* -1: the item is submitted again and the callback goes on as if it had a page.
retry(w) ==
    /\ Reads(w, "retry")
    /\ eventList' = Append(eventList, arg[w])
    /\ Goto(w, "enter")
    /\ UNCHANGED <<page, deleted, currentID, lock, main, tmp, observers, fault>>

enterUnlocked(w) ==
    /\ Reads(w, "enter")
    /\ Goto(w, "test")
    /\ UNCHANGED <<crawl, currentID, lock, main, tmp, observers, fault>>

\* lock.AcquireExclusive().
enter(w) ==
    /\ Reads(w, "enter") /\ lock = NoWorker
    /\ lock' = w
    /\ Goto(w, "test")
    /\ UNCHANGED <<crawl, currentID, main, tmp, observers, fault>>

test(w) ==
    /\ At(w, "test")
    /\ Goto(w, IF currentID < endID THEN "load" ELSE "leave")
    /\ early' = (early \/ main <= threadNum)
    /\ UNCHANGED <<crawl, currentID, lock, main, tmp, recorded, sendFailed, fault>>

load(w) ==
    /\ At(w, "load")
    /\ tmp' = [tmp EXCEPT ![w] = currentID]
    /\ Goto(w, "store")
    /\ UNCHANGED <<crawl, currentID, lock, main, observers, fault>>

storeSkips(w) ==
    /\ At(w, "store")
    /\ currentID' = tmp[w] + 2
    /\ tmp' = [tmp EXCEPT ![w] = 0]
    /\ Goto(w, "submit")
    /\ UNCHANGED <<crawl, lock, main, observers, fault>>

store(w) ==
    /\ At(w, "store")
    /\ currentID' = tmp[w] + 1
    /\ tmp' = [tmp EXCEPT ![w] = 0]
    /\ Goto(w, "submit")
    /\ UNCHANGED <<crawl, lock, main, observers, fault>>

submitNext(w) ==
    /\ At(w, "submit")
    /\ SubmitNew(currentID)
    /\ Goto(w, "leave")
    /\ UNCHANGED <<currentID, lock, main, tmp, observers, fault>>

\* lock.ReleaseExclusive().
leave(w) ==
    /\ Reads(w, "leave")
    /\ lock' = NoWorker
    /\ Goto(w, "delete")
    /\ UNCHANGED <<crawl, currentID, main, tmp, observers, fault>>

\* delete parg.
erase(w) ==
    /\ Reads(w, "delete")
    /\ deleted' = deleted \cup {arg[w]}
    /\ Return(w)
    /\ UNCHANGED <<page, eventList, currentID, lock, main, tmp, observers, fault>>

run(w) ==
    \/ take(w) \/ getData(w) \/ getNothing(w) \/ getDataFails(w) \/ again(w) \/ retry(w)
    \/ enter(w) \/ test(w) \/ load(w) \/ store(w) \/ submitNext(w) \/ leave(w) \/ erase(w)
    \/ useAfterDelete(w)

Next == submitFirst \/ setCurrentID \/ \E w \in Workers : run(w)

Spec == Init /\ [][Next]_vars

\* Threads are scheduled, a worker that waits for the lock gets it, and a page that is asked
\* for again and again is had at some time.
FairSpec ==
    /\ Spec
    /\ WF_vars(submitFirst \/ setCurrentID)
    /\ \A w \in Workers : WF_vars(run(w)) /\ SF_vars(enter(w))
    /\ \A n \in 1..endID : SF_vars(\E w \in Workers : getData(w) /\ page[arg[w]] = n)

-------------------------------------------------------------------------------
(* Properties. *)

Made == {page[i] : i \in 1..Len(page)}
Submitting == {w \in Workers : pc[w] = "submit"}

\* Once deployIndexer is done an item has been made for every page that currentID has passed,
\* or is about to be: no page is skipped, although deployIndexer and the workers write
\* currentID at the same time.
NoGap ==
    main > threadNum =>
        \A n \in 1..currentID : n \in Made \/ (n = currentID /\ Submitting # {})

\* No page is asked for by two items unless a worker counted before deployIndexer had set
\* currentID, which the refused HALT allows.
AskedOnce ==
    ~early => \A i, j \in 1..Len(page) : page[i] = page[j] => i = j

\* An item is read after its deletion only when some request has failed: the item that is
\* submitted again then is deleted by the same call.
FaultHasCause == fault => sendFailed > 0

\* Every page is had in the end, unless a request fails.
PagesRecorded == \A n \in 1..endID : <>(n \in recorded \/ sendFailed > 0)
===============================================================================
