---------------------------- MODULE DefaultCallback ----------------------------
(***************************************************************************)
(* The callback pointers of IOCPModule, pRecvCallback and pSendCallback,   *)
(* which every worker uses without a lock. A worker that finds NULL stores *)
(* a default IOCPCallback there, calls it, deletes what the pointer then   *)
(* refers to and stores NULL again (doAccept, doRecv, doSend and the error *)
(* branch of IOCPWorkThread, server.cpp). One pointer is modelled; the two *)
(* do not touch each other.                                                *)
(*                                                                         *)
(* Objects are addresses: 0 is NULL, 1 is what the program gives to        *)
(* setRecvCallback, 2, 3, ... are the defaults. The compiler may use the   *)
(* value a worker tested or read the member again for the call that        *)
(* follows, but not across that call.                                      *)
(*                                                                         *)
(* testSkipped, deleteForgotten and clearForgotten are faulty variants of  *)
(* the definitions that follow them, used by no action.                    *)
(***************************************************************************)
EXTENDS Integers

CONSTANTS Workers, MaxMade   \* bound: the last address for a default; the first is 2

ASSUME MadeAssumption == MaxMade \in Nat

VARIABLES pCallback,  \* the member
          heap,       \* the objects that have not been deleted
          made,       \* the last address given out
          pc, seen,   \* per worker: where it is, and the pointer it has tested or stored
          given,      \* setRecvCallback has been called
          fault,      \* something deleted, or NULL, has been called or deleted again
          crowded     \* the pointer was used while another worker was in its default branch

vars == <<pCallback, heap, made, pc, seen, given, fault, crowded>>

NULL == 0
User == 1

Init ==
    /\ pCallback = NULL /\ heap = {User} /\ made = User
    /\ pc = [w \in Workers |-> "idle"]
    /\ seen = [w \in Workers |-> NULL]
    /\ given = FALSE /\ fault = FALSE /\ crowded = FALSE

Goto(w, label) == pc' = [pc EXCEPT ![w] = label]

\* The default branch, from the test that found NULL to the last assignment.
Branch == {"create", "callNew", "runningNew", "delete", "clear"}

\* Somebody uses the pointer while a worker other than those in us is in that branch.
Uses(us) == crowded' = (crowded \/ \E v \in Workers \ us : pc[v] \in Branch)

\* setRecvCallback and setSendCallback refuse NULL and may be called at any time.
setCallback ==
    /\ ~fault
    /\ pCallback' = User
    /\ given' = TRUE
    /\ Uses({})
    /\ UNCHANGED <<heap, made, pc, seen, fault>>

testSkipped(w) ==
    /\ ~fault /\ pc[w] = "idle"
    /\ seen' = [seen EXCEPT ![w] = pCallback]
    /\ Goto(w, "create")
    /\ Uses({w})
    /\ UNCHANGED <<pCallback, heap, made, given, fault>>

\* A worker has something for the callback.
test(w) ==
    /\ ~fault /\ pc[w] = "idle"
    /\ seen' = [seen EXCEPT ![w] = pCallback]
    /\ Goto(w, IF pCallback # NULL THEN "call" ELSE "create")
    /\ Uses({w})
    /\ UNCHANGED <<pCallback, heap, made, given, fault>>

create(w) ==
    /\ ~fault /\ pc[w] = "create" /\ made < MaxMade
    /\ made' = made + 1
    /\ heap' = heap \cup {made'}
    /\ pCallback' = made'
    /\ seen' = [seen EXCEPT ![w] = made']
    /\ Goto(w, "callNew")
    /\ Uses({w})
    /\ UNCHANGED <<given, fault>>

call(w) ==
    /\ ~fault /\ pc[w] \in {"call", "callNew"}
    /\ \E p \in {pCallback, seen[w]} : fault' = (p \notin heap)
    /\ Goto(w, IF pc[w] = "call" THEN "running" ELSE "runningNew")
    /\ Uses({w})
    /\ UNCHANGED <<pCallback, heap, made, seen, given>>

return(w) ==
    /\ ~fault /\ pc[w] \in {"running", "runningNew"}
    /\ Goto(w, IF pc[w] = "running" THEN "idle" ELSE "delete")
    /\ UNCHANGED <<pCallback, heap, made, seen, given, fault, crowded>>

deleteForgotten(w) ==
    /\ ~fault /\ pc[w] = "delete"
    /\ Goto(w, "clear")
    /\ Uses({w})
    /\ UNCHANGED <<pCallback, heap, made, seen, given, fault>>

\* Deleting NULL does nothing.
delete(w) ==
    /\ ~fault /\ pc[w] = "delete"
    /\ heap' = heap \ {pCallback}
    /\ fault' = (pCallback # NULL /\ pCallback \notin heap)
    /\ Goto(w, "clear")
    /\ Uses({w})
    /\ UNCHANGED <<pCallback, made, seen, given>>

clearForgotten(w) ==
    /\ ~fault /\ pc[w] = "clear"
    /\ Goto(w, "idle")
    /\ Uses({w})
    /\ UNCHANGED <<pCallback, heap, made, seen, given, fault>>

clear(w) ==
    /\ ~fault /\ pc[w] = "clear"
    /\ pCallback' = NULL
    /\ Goto(w, "idle")
    /\ Uses({w})
    /\ UNCHANGED <<heap, made, seen, given, fault>>

Next ==
    \/ setCallback
    \/ \E w \in Workers : test(w) \/ create(w) \/ call(w) \/ return(w) \/ delete(w) \/ clear(w)

Spec == Init /\ [][Next]_vars

-------------------------------------------------------------------------------
(* Properties. *)

Labels == Branch \cup {"idle", "call", "running"}

\* Every variable has its type, and what the pointer and the heap hold has been given out.
TypeOK ==
    /\ made \in Nat \ {0} /\ pCallback \in 0 .. made /\ heap \subseteq 1 .. made
    /\ pc \in [Workers -> Labels] /\ seen \in [Workers -> 0 .. made]
    /\ given \in BOOLEAN /\ fault \in BOOLEAN /\ crowded \in BOOLEAN

\* Nothing deleted is called or deleted again, unless somebody uses the pointer while another
\* worker is in its default branch. So one worker alone is safe if the program sets no callback
\* meanwhile, and so is every number of workers whose callback is set before they start.
FaultNeedsCrowd == fault => crowded

\* Without such an overlap, a callback that the program has set stays set, although every
\* worker may store NULL.
SetKept == given /\ ~crowded => pCallback = User

\* Without such an overlap no default outlives its worker's branch, and the program's own
\* callback is never deleted.
DefaultsDeleted == ~crowded =>
    /\ User \in heap
    /\ \A o \in heap \ {User} :
          pCallback = o /\ \E w \in Workers : pc[w] \in {"callNew", "runningNew", "delete"}
===============================================================================
