---------------------------- MODULE MCApStartup -----------------------------
(***************************************************************************)
(* Six processors, the boot processor neither first nor last.               *)
(***************************************************************************)
EXTENDS ApStartup

MCProcessorIds == <<2, 1, 0, 4, 5, 3>>
=============================================================================
