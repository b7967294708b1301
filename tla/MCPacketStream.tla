---------------------------- MODULE MCPacketStream ----------------------------
(* An instance of PacketStream for TLC: streams of three packets. *)
EXTENDS PacketStream

SomeLengths == {2, 3, 6}
===============================================================================
