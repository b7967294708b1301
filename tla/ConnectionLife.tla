---------------------------- MODULE ConnectionLife ----------------------------
(***************************************************************************)
(* What the I/O module promises about a connection, whatever threads and   *)
(* completions do: it is opened, registered, asked once to close, and      *)
(* released only after that. A connection whose set-up fails is dropped    *)
(* before anybody is told of it. IOCPModule.tla implements this module.    *)
(***************************************************************************)
CONSTANT Conns

VARIABLE stage

Stages == {"none", "open", "registered", "closing", "released"}

Init == stage = [c \in Conns |-> "none"]

Move(c, from, to) == stage[c] = from /\ stage' = [stage EXCEPT ![c] = to]

Arrive(c)   == Move(c, "none", "open")
Drop(c)     == Move(c, "open", "released")
Register(c) == Move(c, "open", "registered")
Close(c)    == Move(c, "registered", "closing")
Release(c)  == Move(c, "closing", "released")

Next == \E c \in Conns : Arrive(c) \/ Drop(c) \/ Register(c) \/ Close(c) \/ Release(c)

Spec == Init /\ [][Next]_stage
===============================================================================
