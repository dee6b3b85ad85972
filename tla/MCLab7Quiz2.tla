---------------------------- MODULE MCLab7Quiz2 ----------------------------
(* lab7_quiz2.c with its own constants: 30 items through 3 slots.          *)
EXTENDS Lab7Quiz2

MCThreads == {producer, consumer}
MCBufs == {sbufs}
MCItems == 1 .. ITEMS
=============================================================================
