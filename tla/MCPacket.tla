------------------------------ MODULE MCPacket ------------------------------
(* Two copies of the panic runtime and objects of others on a small heap.  *)
EXTENDS Packet
=============================================================================
