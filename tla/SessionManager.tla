---------------------------- MODULE SessionManager ----------------------------
(***************************************************************************)
(* The table of sessions: svr::SessionManager of src/Server8/server.h.     *)
(* Every method takes the manager's slim reader/writer lock, which is not  *)
(* recursive, exclusively or shared, does its work and releases it. A      *)
(* method that only reads leaves no trace but its wait; runSessionHandler  *)
(* keeps the lock shared while the handler runs, and a handler may call    *)
(* the manager like anybody else. A method's work under the exclusive lock *)
(* is one step. What a session holds is in SessionQueue.tla.               *)
(***************************************************************************)
CONSTANTS Threads, Keys, Values, NoValue

Statuses == {"READY", "RUNNING", "HALT", "SUSPEND"}

VARIABLES sessionMap,  \* the keys that have a session
          status, kv_map,
          readers,     \* the threads that run a handler, and so hold the lock shared
          waiting      \* per thread, how it waits for the lock: "no", "shared", "exclusive"

vars == <<sessionMap, status, kv_map, readers, waiting>>

Init ==
    /\ sessionMap = {}
    /\ status = "READY"
    /\ kv_map = [k \in Keys |-> NoValue]
    /\ readers = {}
    /\ waiting = [t \in Threads |-> "no"]

\* AcquireExclusive and AcquireShared, up to the wait.
Acquire(t, mode) ==
    /\ waiting[t] = "no"
    /\ waiting' = [waiting EXCEPT ![t] = mode]
    /\ UNCHANGED <<sessionMap, status, kv_map, readers>>

Exclusively(t) ==
    /\ waiting[t] = "exclusive" /\ readers = {}
    /\ waiting' = [waiting EXCEPT ![t] = "no"]
    /\ UNCHANGED readers

\* No method holds the lock exclusively between two steps, so a shared acquisition succeeds.
Shared(t) ==
    /\ waiting[t] = "shared"
    /\ waiting' = [waiting EXCEPT ![t] = "no"]

\* The session is made and inserted if the key is found; st is the new session's status.
addSession(t, k, st) ==
    /\ Exclusively(t)
    /\ sessionMap' = IF st \notin {"HALT", "SUSPEND"} /\ k \in sessionMap
                     THEN sessionMap \cup {k} ELSE sessionMap
    /\ UNCHANGED <<status, kv_map>>

removeSession(t, k) ==
    /\ Exclusively(t)
    /\ sessionMap' = sessionMap \ {k}
    /\ UNCHANGED <<status, kv_map>>

removeAll(t) ==
    /\ Exclusively(t)
    /\ sessionMap' = {}
    /\ UNCHANGED <<status, kv_map>>

setStatus(t, st) ==
    /\ Exclusively(t)
    /\ status' = st
    /\ UNCHANGED <<sessionMap, kv_map>>

put(t, k, v) ==
    /\ Exclusively(t)
    /\ kv_map' = [kv_map EXCEPT ![k] = v]
    /\ UNCHANGED <<sessionMap, status>>

remove(t, k) ==
    /\ Exclusively(t)
    /\ kv_map' = [kv_map EXCEPT ![k] = NoValue]
    /\ UNCHANGED <<sessionMap, status>>

\* get, which takes the lock exclusively too.
get(t) == Exclusively(t) /\ UNCHANGED <<sessionMap, status, kv_map>>

\* isSessionExsist, getSessionCount, getStatus, getMap.
read(t) == Shared(t) /\ UNCHANGED <<sessionMap, status, kv_map, readers>>

\* The handler runs under the shared lock if the session is there.
runSessionHandler(t, k) ==
    /\ Shared(t) /\ t \notin readers
    /\ readers' = IF k \in sessionMap /\ status # "HALT" THEN readers \cup {t} ELSE readers
    /\ UNCHANGED <<sessionMap, status, kv_map>>

handlerReturns(t) ==
    /\ t \in readers /\ waiting[t] = "no"
    /\ readers' = readers \ {t}
    /\ UNCHANGED <<sessionMap, status, kv_map, waiting>>

Next ==
    \E t \in Threads :
        \/ Acquire(t, "shared") \/ Acquire(t, "exclusive")
        \/ \E k \in Keys :
            \/ removeSession(t, k) \/ remove(t, k) \/ runSessionHandler(t, k)
            \/ \E st \in Statuses : addSession(t, k, st)
            \/ \E v \in Values : put(t, k, v)
        \/ \E st \in Statuses : setStatus(t, st)
        \/ removeAll(t) \/ get(t) \/ read(t) \/ handlerReturns(t)

Spec == Init /\ [][Next]_vars

-------------------------------------------------------------------------------
(* Properties. *)

\* No session is ever added: addSession inserts only under a key that is there already.
NoSession == sessionMap = {}
===============================================================================
