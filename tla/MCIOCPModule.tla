----------------------------- MODULE MCIOCPModule -----------------------------
(* Instances of IOCPModule for TLC. *)
EXTENDS IOCPModule, TLC

CONSTANTS w1, w2, c1, c2

OneWorker == {w1}
TwoWorkers == {w1, w2}
TwoConns == {c1, c2}
OneConn == {c1}

Symmetry == Permutations(TwoWorkers) \cup Permutations(TwoConns)
===============================================================================
