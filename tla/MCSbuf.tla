------------------------------- MODULE MCSbuf -------------------------------
(* Small instances of the buffer library under unrestricted callers.       *)
EXTENDS Sbuf, TLC

ThreadSymmetry == Permutations(Threads) \cup Permutations(Items)
=============================================================================
