----------------------------- MODULE MCThreads -----------------------------
(* Every circuit of up to four gates, every schedule of two threads.       *)
EXTENDS Threads
=============================================================================
