----------------------------- MODULE Lab7Quiz2 -----------------------------
(***************************************************************************)
(* lab7_quiz2.c: a kernel module with one buffer, one producer thread that *)
(* inserts its loop counter and one consumer thread that removes as many   *)
(* items, driving the library of module Sbuf.                              *)
(*                                                                         *)
(* insmod runs simple_init, rmmod runs simple_exit; both run in parallel   *)
(* with the threads.  kthread_stop is commented out of simple_exit, so     *)
(* kthread_should_stop() is false at every turn of either loop.            *)
(***************************************************************************)
EXTENDS Sbuf

CONSTANTS
  ITEMS,               \* what each thread inserts or removes
  producer, consumer,  \* the two threads
  sbufs                \* the buffer

ASSUME Lab7Quiz2Assumption ==
  /\ Threads = {producer, consumer} /\ producer # consumer
  /\ Bufs = {sbufs}
  /\ ITEMS \in Nat /\ Items = 1 .. ITEMS /\ MaxInserts >= ITEMS

VARIABLES
  module,   \* how far simple_init and simple_exit got
  array,    \* did sbuf_init get memory for buf?
  dead,     \* the threads killed by an oops
  loc,      \* by thread: "unborn", "loop" (the while), "call", "done"
  cnt       \* by thread: the local cnt

vars == <<sbufVars, module, array, dead, loc, cnt>>

Init ==
  /\ SbufInit
  /\ module = "absent" /\ array = TRUE /\ dead = {}
  /\ loc = [t \in Threads |-> "unborn"]
  /\ cnt = [t \in Threads |-> 1]

-----------------------------------------------------------------------------
(* simple_init: allocate the buffer, or give up, and initialise it; whether *)
(* sbuf_init gets an array nobody looks at.                                *)
InitBuffer ==
  /\ module = "absent"
  /\ module' \in {"ready", "failed"} /\ array' \in BOOLEAN
  /\ UNCHANGED <<sbufVars, dead, loc, cnt>>

(* kthread_run: its result is not looked at, so a thread that could not be *)
(* created goes unnoticed.                                                 *)
Start(t, from, to) ==
  /\ module = from /\ module' = to
  /\ \E l \in {"loop", "unborn"} : loc' = [loc EXCEPT ![t] = l]
  /\ UNCHANGED <<sbufVars, array, dead, cnt>>

StartProducer == Start(producer, "ready", "half")
StartConsumer == Start(consumer, "half", "live")

(* simple_exit, which waits for nobody: kfree of the array in sbuf_deinit, *)
(* then of the sbuf_t.                                                     *)
Deinit ==
  /\ module = "live"
  /\ module' = "arrayless"
  /\ UNCHANGED <<sbufVars, array, dead, loc, cnt>>

Free ==
  /\ module = "arrayless"
  /\ module' = "gone"
  /\ UNCHANGED <<sbufVars, array, dead, loc, cnt>>

(* A thread that outlives its buffer runs on freed memory: the model       *)
(* follows the threads only while the buffer is there.                     *)
Mapped == module \in {"ready", "half", "live"}

-----------------------------------------------------------------------------
(* The loops.  Enter the library with the value for this turn, ...         *)
ProducerInsert ==
  /\ Mapped /\ loc[producer] = "loop" /\ cnt[producer] <= ITEMS
  /\ CallInsert(producer, sbufs, cnt[producer])
  /\ loc' = [loc EXCEPT ![producer] = "call"]
  /\ UNCHANGED <<module, array, dead, cnt>>

ConsumerRemove ==
  /\ Mapped /\ loc[consumer] = "loop" /\ cnt[consumer] <= ITEMS
  /\ CallRemove(consumer, sbufs)
  /\ loc' = [loc EXCEPT ![consumer] = "call"]
  /\ UNCHANGED <<module, array, dead, cnt>>

(* ... run it, up to the access to the array, ...                          *)
AtNoArray(t) == ~array /\ pc[t] \in {"ins_store", "rem_load"}

Library(t) ==
  /\ Mapped /\ ~AtNoArray(t)
  /\ Step(t)
  /\ UNCHANGED <<module, array, dead, loc, cnt>>

(* ... which kills the thread, holding the mutex, if there is no array, ...*)
Oops(t) ==
  /\ Mapped /\ AtNoArray(t) /\ t \notin dead
  /\ dead' = dead \cup {t}
  /\ UNCHANGED <<sbufVars, module, array, loc, cnt>>

(* ... count when it has returned, ...                                     *)
CountUp(t) ==
  /\ Mapped /\ loc[t] = "call" /\ pc[t] = "idle"
  /\ cnt' = [cnt EXCEPT ![t] = @ + 1]
  /\ loc' = [loc EXCEPT ![t] = "loop"]
  /\ UNCHANGED <<sbufVars, module, array, dead>>

(* Mutant: < in place of <= in the loop condition.                         *)
DoneOneShort(t) ==
  /\ Mapped /\ loc[t] = "loop" /\ cnt[t] >= ITEMS
  /\ loc' = [loc EXCEPT ![t] = "done"]
  /\ UNCHANGED <<sbufVars, module, array, dead, cnt>>

(* ... and leave the loop after ITEMS turns.                               *)
Done(t) ==
  /\ Mapped /\ loc[t] = "loop" /\ cnt[t] > ITEMS
  /\ loc' = [loc EXCEPT ![t] = "done"]
  /\ UNCHANGED <<sbufVars, module, array, dead, cnt>>

Thread(t) == Library(t) \/ Oops(t) \/ CountUp(t) \/ Done(t)

Next ==
  \/ InitBuffer \/ StartProducer \/ StartConsumer
  \/ ProducerInsert \/ ConsumerRemove
  \/ \E t \in Threads : Thread(t)
  \/ Deinit \/ Free

(* simple_init runs to its end, and the scheduler runs every thread that   *)
(* can move.  Nobody has to call rmmod.                                    *)
Fairness ==
  /\ WF_vars(StartProducer \/ StartConsumer)
  /\ WF_vars(ProducerInsert) /\ WF_vars(ConsumerRemove)
  /\ \A t \in Threads : WF_vars(Thread(t))

Spec == Init /\ [][Next]_vars /\ Fairness

-----------------------------------------------------------------------------
(* The consumer prints "consumer item %d = %d": what comes out of the      *)
(* buffer on turn cnt of one loop is what went in on turn cnt of the other.*)
ConsumerCounts ==
  /\ \A k \in 1 .. Loaded(sbufs) : removed[sbufs][k] = k
  /\ loc[consumer] = "call" /\ pc[consumer] = "idle" => item[consumer] = cnt[consumer]

(* When both loops are over the buffer is as sbuf_init left it: nothing    *)
(* was lost on the way and no token is missing.                            *)
NothingLeftOver ==
  loc[producer] = "done" /\ loc[consumer] = "done" =>
    /\ Stored(sbufs) = ITEMS /\ Loaded(sbufs) = ITEMS
    /\ mutex[sbufs] = 1 /\ slots[sbufs] = SBUFSIZE /\ items[sbufs] = 0

(* Once simple_init has returned, and unless rmmod comes first, each of    *)
(* the threads that exist finishes, or dies at the array that was not      *)
(* allocated; if it sleeps for ever in down(), the other one could not be  *)
(* created or has died, and the buffer is full, or empty, as it waits for. *)
Over(t) == loc[t] \in {"unborn", "done"} \/ t \in dead

Abandoned(t) ==
  /\ \E u \in Threads \ {t} : loc[u] = "unborn" \/ u \in dead
  /\ \/ pc[t] = "ins_wait" /\ Stored(sbufs) - Loaded(sbufs) = SBUFSIZE
     \/ pc[t] = "rem_wait" /\ Stored(sbufs) = Loaded(sbufs)

ThreadsFinish ==
  module = "live" ~> ~Mapped \/ \A t \in Threads : Over(t) \/ Abandoned(t)

-----------------------------------------------------------------------------
(* The inductive invariant, over the types: a thread is started once, the  *)
(* producer only inserts and the consumer only removes, ...                *)
TypeOK ==
  /\ SbufTypeOK
  /\ module \in {"absent", "failed", "ready", "half", "live", "arrayless", "gone"}
  /\ array \in BOOLEAN /\ dead \subseteq Threads
  /\ loc \in [Threads -> {"unborn", "loop", "call", "done"}]
  /\ cnt \in [Threads -> 1 .. ITEMS + 1]
  /\ \A t \in Threads :
       /\ pc[t] # "idle" => loc[t] = "call"
       /\ loc[t] = "call" => cnt[t] <= ITEMS
       /\ loc[t] = "done" => cnt[t] = ITEMS + 1

NotYetStarted ==
  /\ module \in {"absent", "ready"} => loc[producer] = "unborn"
  /\ module \in {"absent", "ready", "half"} => loc[consumer] = "unborn"

Sides ==
  /\ pc[producer] \in {"idle"} \cup Unstored \cup Unannounced
  /\ pc[consumer] \in {"idle", "rem_wait"} \cup Claimed \cup Unreturned

(* ... the buffer has seen as many stores and loads as the loops counted   *)
(* turns, and the one of this turn once the call is past it, ...           *)
InTurn(t, before) == IF loc[t] = "call" /\ pc[t] \notin before THEN 1 ELSE 0

TurnsCounted ==
  /\ Stored(sbufs) = cnt[producer] - 1 + InTurn(producer, Unstored)
  /\ Loaded(sbufs) = cnt[consumer] - 1 + InTurn(consumer, {"rem_wait"} \cup Claimed)

(* ... the k-th item is k, and what a removal returns was removed last.    *)
ItemsCount ==
  /\ pc[producer] \in Unstored => item[producer] = cnt[producer]
  /\ \A k \in 1 .. Stored(sbufs) : inserted[sbufs][k] = k

LastRemoved ==
  InTurn(consumer, {"rem_wait"} \cup Claimed) = 1 =>
    Loaded(sbufs) > 0 /\ item[consumer] = removed[sbufs][Loaded(sbufs)]

Lab7Quiz2Inv ==
  TypeOK /\ NotYetStarted /\ Sides /\ TurnsCounted /\ ItemsCount /\ LastRemoved
=============================================================================
