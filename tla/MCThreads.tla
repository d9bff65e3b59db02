----------------------------- MODULE MCThreads ------------------------------
(* Three threads play, three sleep, two yield.                              *)
EXTENDS Threads
=============================================================================
