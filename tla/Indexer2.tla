------------------------------- MODULE Indexer2 -------------------------------
(***************************************************************************)
(* The crawler src/Indexer/Indexer2.cpp: the callback that the dispatcher's*)
(* workers run for every page. The dispatcher is taken for what            *)
(* EventService.tla promises of it, with the one callback registered       *)
(* before the first event and never removed: an event waits in a list and  *)
(* is run by the worker that takes it.                                     *)
(*                                                                         *)
(* An ArgItem asks for one page. Its address is looked up in visitedURL    *)
(* under the lock; a page that cannot be had is taken out again and the    *)
(* item submitted once more; a page that can is searched, which submits    *)
(* items for the pages it names. What a page names depends on the item's   *)
(* operation and is a constant of the model. Items are numbered in the     *)
(* order of their creation and never reused, so that reading one after its *)
(* deletion is seen: it sets fault, which ends a behaviour.                *)
(*                                                                         *)
(* visitUnchecked, getDataGivesUp, resetKeepsURL and againDeletes are      *)
(* faulty variants of the definitions that follow them, used by no action. *)
(***************************************************************************)
EXTENDS Integers, Sequences

CONSTANTS Workers,
          URLs,
          Roots,    \* the list pages deployIndexer submits, in order
          Names(_), \* what an item's page names: a sequence of items
          MaxItems  \* bound: items made

Operations == {"GetBangumiList", "GetSeasonList", "GetSeasonDetail", "GetVideoDetail"}
Requests == [operation : Operations, url : URLs]

ASSUME IndexerAssumption ==
    /\ MaxItems \in Nat
    /\ Roots \in Seq(Requests)
    /\ \A r \in Requests : Names(r) \in Seq(Requests)

NoItem == 0
Items == 1..MaxItems

VARIABLES request,    \* the items made so far, as a sequence of requests
          deleted,    \* the items deleted
          eventList,  \* the dispatcher's list: items
          visitedURL,
          submitted,  \* how many roots deployIndexer has submitted
          pc, arg,    \* per worker: where it is, its item
          todo,       \* per worker, the requests its page names that are not submitted yet
          handled,    \* per address, how often its page has been searched: an observer only
          fault

crawl == <<request, deleted, eventList, visitedURL, submitted>>
vars == <<crawl, pc, arg, todo, handled, fault>>

URL(i) == request[i].url
At(w, label) == ~fault /\ pc[w] = label
Goto(w, label) == pc' = [pc EXCEPT ![w] = label] /\ UNCHANGED arg
Return(w) == pc' = [pc EXCEPT ![w] = "idle"] /\ arg' = [arg EXCEPT ![w] = NoItem]

Init ==
    /\ request = << >> /\ deleted = {} /\ eventList = << >> /\ visitedURL = {}
    /\ submitted = 0
    /\ pc = [w \in Workers |-> "idle"]
    /\ arg = [w \in Workers |-> NoItem]
    /\ todo = [w \in Workers |-> << >>]
    /\ handled = [u \in URLs |-> 0]
    /\ fault = FALSE

\* new ArgItem and submitEvent("callback", arg).
SubmitNew(r) ==
    /\ Len(request) < MaxItems
    /\ request' = Append(request, r)
    /\ eventList' = Append(eventList, Len(request) + 1)

\* The loop of deployIndexer. Workers that had read RUNNING before SUSPEND was set may take
\* what it submits.
deployIndexer ==
    /\ ~fault /\ submitted < Len(Roots)
    /\ SubmitNew(Roots[submitted + 1])
    /\ submitted' = submitted + 1
    /\ UNCHANGED <<deleted, visitedURL, pc, arg, todo, handled, fault>>

-------------------------------------------------------------------------------
(* IndexerCallback::run, by a worker of the dispatcher. *)

take(w) ==
    /\ At(w, "idle") /\ eventList # << >>
    /\ arg' = [arg EXCEPT ![w] = Head(eventList)]
    /\ eventList' = Tail(eventList)
    /\ pc' = [pc EXCEPT ![w] = "visit"]
    /\ UNCHANGED <<request, deleted, visitedURL, submitted, todo, handled, fault>>

\* A worker that reads an item which has been deleted.
useAfterDelete(w) ==
    /\ ~fault /\ pc[w] # "idle" /\ arg[w] \in deleted
    /\ fault' = TRUE
    /\ UNCHANGED <<crawl, pc, arg, todo, handled>>

Reads(w, label) == At(w, label) /\ arg[w] \notin deleted

visitUnchecked(w) ==
    /\ Reads(w, "visit")
    /\ visitedURL' = visitedURL \cup {URL(arg[w])}
    /\ Goto(w, "getData")
    /\ UNCHANGED <<request, deleted, eventList, submitted, todo, handled, fault>>

\* A page that has been visited, or is being fetched by another worker, is left at that; the
\* item stays behind.
visit(w) ==
    /\ Reads(w, "visit")
    /\ \/ /\ URL(arg[w]) \in visitedURL
          /\ Return(w)
          /\ UNCHANGED visitedURL
       \/ /\ URL(arg[w]) \notin visitedURL
          /\ visitedURL' = visitedURL \cup {URL(arg[w])}
          /\ Goto(w, "getData")
    /\ UNCHANGED <<request, deleted, eventList, submitted, todo, handled, fault>>

\* getData returns a page: it is searched for what it names.
getData(w) ==
    /\ Reads(w, "getData")
    /\ handled' = [handled EXCEPT ![URL(arg[w])] = @ + 1]
    /\ todo' = [todo EXCEPT ![w] = Names(request[arg[w]])]
    /\ Goto(w, "search")
    /\ UNCHANGED <<crawl, fault>>

getDataGivesUp(w) ==
    /\ Reads(w, "getData")
    /\ Return(w)
    /\ UNCHANGED <<crawl, todo, handled, fault>>

\* It returns an error or nothing. How long a response is, is left out.
getDataFails(w) ==
    /\ Reads(w, "getData")
    /\ Goto(w, "reset")
    /\ UNCHANGED <<crawl, todo, handled, fault>>

resetKeepsURL(w) ==
    /\ Reads(w, "reset")
    /\ Goto(w, "again")
    /\ UNCHANGED <<crawl, todo, handled, fault>>

\* Its address is taken out of visitedURL,
reset(w) ==
    /\ Reads(w, "reset")
    /\ visitedURL' = visitedURL \ {URL(arg[w])}
    /\ Goto(w, "again")
    /\ UNCHANGED <<request, deleted, eventList, submitted, todo, handled, fault>>

againDeletes(w) ==
    /\ Reads(w, "again")
    /\ eventList' = Append(eventList, arg[w])
    /\ deleted' = deleted \cup {arg[w]}
    /\ Goto(w, "log")
    /\ UNCHANGED <<request, visitedURL, submitted, todo, handled, fault>>

\* the item is submitted again,
again(w) ==
    /\ Reads(w, "again")
    /\ eventList' = Append(eventList, arg[w])
    /\ Goto(w, "log")
    /\ UNCHANGED <<request, deleted, visitedURL, submitted, todo, handled, fault>>

\* and its fields are written to the log.
logError(w) ==
    /\ Reads(w, "log")
    /\ Return(w)
    /\ UNCHANGED <<crawl, todo, handled, fault>>

\* The functions for the operations submit an item for each page that is named.
search(w) ==
    /\ Reads(w, "search") /\ todo[w] # << >>
    /\ SubmitNew(Head(todo[w]))
    /\ todo' = [todo EXCEPT ![w] = Tail(@)]
    /\ UNCHANGED <<deleted, visitedURL, submitted, pc, arg, handled, fault>>

\* delete pArg.
finish(w) ==
    /\ Reads(w, "search") /\ todo[w] = << >>
    /\ deleted' = deleted \cup {arg[w]}
    /\ Return(w)
    /\ UNCHANGED <<request, eventList, visitedURL, submitted, todo, handled, fault>>

run(w) ==
    \/ take(w) \/ visit(w) \/ getData(w) \/ getDataFails(w) \/ reset(w) \/ again(w)
    \/ logError(w) \/ search(w) \/ finish(w) \/ useAfterDelete(w)

Next == deployIndexer \/ \E w \in Workers : run(w)

Spec == Init /\ [][Next]_vars

\* Threads are scheduled, and a page that is asked for again and again is had at some time.
FairSpec ==
    /\ Spec
    /\ WF_vars(deployIndexer)
    /\ \A w \in Workers : WF_vars(run(w))
    /\ \A u \in URLs : SF_vars(\E w \in Workers : getData(w) /\ URL(arg[w]) = u)

-------------------------------------------------------------------------------
(* Properties. *)

\* The addresses items have been made for.
Known == {URL(i) : i \in 1..Len(request)}
Waiting == {URL(eventList[i]) : i \in 1..Len(eventList)}
\* The addresses a worker is about to fetch, or to submit again.
InHand == {URL(arg[w]) : w \in {v \in Workers : pc[v] \in {"visit", "getData", "reset", "again"}}}

\* No page is searched twice, however many items ask for it and however often one fails.
HandledOnce == \A u \in URLs : handled[u] <= 1

\* No page is lost: while it has not been searched some item for it waits or is in the hands
\* of a worker that does not regard it as done.
PagesKept == ~fault => \A u \in Known : handled[u] > 0 \/ u \in Waiting \cup InHand

\* Every page that an item is made for is searched in the end.
PagesHandled == \A u \in URLs : u \in Known ~> handled[u] > 0 \/ fault

\* Only the log of a failed request, written after the item has been submitted again, reads an
\* item that another worker may have deleted: nobody takes a deleted one from the list.
StaleOnlyInLog ==
    \A w \in Workers : pc[w] # "idle" /\ arg[w] \in deleted => pc[w] = "log"
===============================================================================
