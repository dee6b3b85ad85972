---------------------------- MODULE BoundedFifo ----------------------------
(***************************************************************************)
(* What a set of shared bounded buffers promises its callers, with no     *)
(* semaphore, index or array in sight.  For each buffer, "put" is the     *)
(* stream of items handed in and "got" the stream handed out.  An item is  *)
(* accepted only while fewer than Capacity items are outstanding, and the  *)
(* next item handed out is always the oldest outstanding one.              *)
(***************************************************************************)
EXTENDS Naturals, Sequences

CONSTANTS
  Bufs,       \* the buffers
  Items,      \* the values that may be put
  Capacity    \* how many items a buffer holds

VARIABLES
  put,        \* put[b]: every item accepted by b, oldest first
  got         \* got[b]: every item delivered by b, oldest first

vars == <<put, got>>

Init ==
  /\ put = [b \in Bufs |-> << >>]
  /\ got = [b \in Bufs |-> << >>]

Put(b, v) ==
  /\ Len(put[b]) - Len(got[b]) < Capacity
  /\ put' = [put EXCEPT ![b] = Append(@, v)]
  /\ UNCHANGED got

Get(b) ==
  /\ Len(got[b]) < Len(put[b])
  /\ got' = [got EXCEPT ![b] = Append(@, put[b][Len(got[b]) + 1])]
  /\ UNCHANGED put

Next ==
  \E b \in Bufs : Get(b) \/ \E v \in Items : Put(b, v)

Spec == Init /\ [][Next]_vars
=============================================================================
