---------------------------- MODULE MCLab8Quiz2 ----------------------------
(* lab8/quiz2.c with one slot, two presses of F2 and of F3, one of ESC. *)
EXTENDS Lab8Quiz2, TLC

MCThreads == {producer, consumer}
MCBufs == {sbufs}
MCItems == Ints
MCMaxPresses == "ESC" :> 1 @@ "F2" :> 2 @@ "F3" :> 2
=============================================================================
