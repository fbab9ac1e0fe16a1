----------------------------- MODULE MCMapping -----------------------------
(***************************************************************************)
(* A small machine: frame 0 holds the kernel, 7 is a device's, and the six *)
(* between them are what a heap block of two spans takes with its padding. *)
(***************************************************************************)
EXTENDS Mapping

MCBootReserved == {7}
MCBootUsed == {0}
MCGaps == {}
=============================================================================
