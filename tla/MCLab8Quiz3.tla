---------------------------- MODULE MCLab8Quiz3 ----------------------------
(* lab8/quiz3.c with one slot, two presses of F2, one of F3 and of ESC. *)
EXTENDS Lab8Quiz3, TLC

MCThreads == {producer, consumer}
MCBufs == {sbufs}
MCItems == Ints
MCMaxPresses == "ESC" :> 1 @@ "F2" :> 2 @@ "F3" :> 1
=============================================================================
