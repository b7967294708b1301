------------------------------ MODULE MCLogModule ------------------------------
(* An instance of LogModule for TLC. *)
EXTENDS LogModule

CONSTANTS t1, t2

TwoThreads == {t1, t2}
SomeSizes == {1, 2}
===============================================================================
