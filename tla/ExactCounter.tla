---------------------------- MODULE ExactCounter ----------------------------
(***************************************************************************)
(* What the safe modes of the lab9 modules promise: workers that each add  *)
(* one to a shared number a fixed count of times, no addition ever lost.   *)
(***************************************************************************)
EXTENDS Naturals

CONSTANTS
  Workers,    \* who adds
  LOOPS       \* how often each of them adds

VARIABLES
  number,     \* the shared number
  left        \* left[w]: the additions w still has to make

vars == <<number, left>>

Init == number = 0 /\ left = [w \in Workers |-> LOOPS]

Add(w) ==
  /\ left[w] > 0
  /\ left' = [left EXCEPT ![w] = @ - 1]
  /\ number' = number + 1

Next == \E w \in Workers : Add(w)

Spec == Init /\ [][Next]_vars
=============================================================================
