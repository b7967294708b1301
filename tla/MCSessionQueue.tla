---------------------------- MODULE MCSessionQueue ----------------------------
(* Instance of SessionQueue for TLC: two payloads in an array of five elements. *)
EXTENDS SessionQueue

CONSTANTS e1, e2

MCEvent == {e1, e2}
===============================================================================
