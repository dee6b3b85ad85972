---------------------------- MODULE MCLab7Quiz3 ----------------------------
(* A reduced lab7_quiz3.c: two producers of two items, two buffers.        *)
EXTENDS Lab7Quiz3, TLC

CONSTANTS p1, p2

MCProducers == {p1, p2}
MCThreads == {p1, p2, consumer}
MCBufs == 0 .. NUM_SBUF - 1
MCItems == 0 .. PER_PRODUCER - 1
MCRandMin == -RandMax - 1
=============================================================================
