--------------------------- MODULE MCEventDispatcher ---------------------------
(* An instance of EventDispatcher for TLC: one name that may be registered, removed and *)
(* registered again, and more events than workers.                                     *)
EXTENDS EventDispatcher

CONSTANTS w1, w2, a1, a2, a3, n1

TwoWorkers == {w1, w2}
OneName == {n1}
ThreeArgs == {a1, a2, a3}
===============================================================================
