------------------------------ MODULE MCIndexer3 ------------------------------
(* An instance of Indexer3 for TLC. *)
EXTENDS Indexer3

CONSTANTS w1, w2

TwoWorkers == {w1, w2}
===============================================================================
