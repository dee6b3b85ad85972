-------------------------------- MODULE Lab8 --------------------------------
(***************************************************************************)
(* What lab8/quiz2.c and lab8/quiz3.c have in common: a keyboard interrupt *)
(* handler that defers each key's work, the deferred work that sets the    *)
(* key's flag, a producer that inserts when the flag of F2 is set, a       *)
(* consumer that removes when that of F3 is set, and simple_exit.          *)
(*                                                                         *)
(* A tasklet and a work item behave alike here: scheduled again while it   *)
(* is pending, it still runs once; it runs later, on its own.              *)
(*                                                                         *)
(* The lines are those of quiz2.c.  Lab8Quiz2 and Lab8Quiz3 put the        *)
(* actions together with what differs: how a thread waits for its flag.    *)
(***************************************************************************)
EXTENDS Sbuf

CONSTANTS
  producer, consumer, sbufs,
  FirstVals,     \* what the uninitialised local val may hold
  MaxPresses     \* bound of the model: how often each key is pressed

Keys == {"ESC", "F2", "F3"}

ASSUME Lab8Assumption ==
  /\ Threads = {producer, consumer} /\ producer # consumer
  /\ Bufs = {sbufs} /\ Items = Ints
  /\ FirstVals \subseteq Ints
  /\ MaxPresses \in [Keys -> Nat] /\ MaxInserts >= MaxPresses["F2"]

VARIABLES
  module,     \* how far simple_init and simple_exit got
  array,      \* did sbuf_init get memory for buf?
  handler,    \* is irq_handler registered?
  pending,    \* the keys whose tasklet is scheduled
  flag,       \* exit_flag, enqueue_flag and dequeue_flag, by key
  pressed,    \* by key: history of interrupts
  stop,       \* by thread: kthread_stop has been called
  loc,        \* by thread: where it is outside the library
  val         \* the producer's local

kbd == <<pending, flag, pressed>>
lab8Vars == <<module, array, handler, kbd, stop, loc, val>>

Lab8Init ==
  /\ SbufInit
  /\ module = "absent" /\ array = TRUE /\ handler = FALSE
  /\ pending = {} /\ flag = [k \in Keys |-> FALSE] /\ pressed = [k \in Keys |-> 0]
  /\ stop = [t \in Threads |-> FALSE]
  /\ loc = [t \in Threads |-> "unborn"]
  /\ val \in FirstVals

KeyOf(t) == IF t = producer THEN "F2" ELSE "F3"

At8(from, to) == module = from /\ module' = to
Turn(t, from, to) == loc[t] = from /\ loc' = [loc EXCEPT ![t] = to]

(* The model follows the program until its memory is freed or insmod,      *)
(* rmmod or the interrupt handler oopses.  An oops of a thread kills only  *)
(* that thread.                                                            *)
Mapped == module \notin {"absent", "failed", "gone", "oops"}

-----------------------------------------------------------------------------
(* simple_init: the buffer, the interrupt, the producer, the consumer.     *)
(* Neither kmalloc is looked at: without a sbuf_t, sbuf_init writes to a   *)
(* null pointer; whether it gets an array shows at the first access.       *)
InitBuffer ==
  /\ module = "absent"
  /\ module' \in {"ready", "oops"} /\ array' \in BOOLEAN
  /\ UNCHANGED <<sbufVars, handler, kbd, stop, loc, val>>

(* The threads are started whatever request_irq says, and its error only   *)
(* then makes insmod fail; the result of kthread_run is not used.          *)
RequestIrq ==
  /\ At8("ready", "hooked")
  /\ handler' \in BOOLEAN
  /\ UNCHANGED <<sbufVars, array, kbd, stop, loc, val>>

Start(t, from, to) ==
  /\ At8(from, to)
  /\ \E l \in {"loop", "unborn"} : loc' = [loc EXCEPT ![t] = l]
  /\ UNCHANGED <<sbufVars, array, handler, kbd, stop, val>>

StartProducer == Start(producer, "hooked", "half")
StartConsumer == Start(consumer, "half", IF handler THEN "live" ELSE "failed")

-----------------------------------------------------------------------------
(* irq_handler: schedule the tasklet of the key.                           *)
Schedule(k) ==
  /\ Mapped /\ handler /\ pressed[k] < MaxPresses[k]
  /\ pressed' = [pressed EXCEPT ![k] = @ + 1]
  /\ pending' = pending \cup {k}
  /\ UNCHANGED <<sbufVars, array, handler, flag, stop, loc, val>>

(* The tasklet sets the flag of its key.                                   *)
SetFlag(k) ==
  /\ Mapped /\ k \in pending
  /\ pending' = pending \ {k}
  /\ flag' = [flag EXCEPT ![k] = TRUE]
  /\ UNCHANGED <<sbufVars, module, array, handler, pressed, stop, loc, val>>

-----------------------------------------------------------------------------
(* Mutant: while (1).                                                      *)
NeverStops(t, next) ==
  /\ Mapped /\ Turn(t, "loop", next)
  /\ UNCHANGED <<sbufVars, module, array, handler, kbd, stop, val>>

(* while (!kthread_should_stop())                                          *)
CheckStop(t, next) ==
  /\ Mapped /\ Turn(t, "loop", IF stop[t] THEN "done" ELSE next)
  /\ UNCHANGED <<sbufVars, module, array, handler, kbd, stop, val>>

(* Mutant: the consumer looks at the producer's flag.                      *)
TestFlagF2(t) ==
  /\ Mapped
  /\ IF flag["F2"]
     THEN /\ Turn(t, "test", "call")
          /\ IF t = producer THEN CallInsert(t, sbufs, val) ELSE CallRemove(t, sbufs)
     ELSE Turn(t, "test", "nap") /\ UNCHANGED sbufVars
  /\ UNCHANGED <<module, array, handler, kbd, stop, val>>

(* if (enqueue_flag) sbuf_insert(...), if (dequeue_flag) sbuf_remove(...)  *)
TestFlag(t) ==
  /\ Mapped
  /\ IF flag[KeyOf(t)]
     THEN /\ Turn(t, "test", "call")
          /\ IF t = producer THEN CallInsert(t, sbufs, val) ELSE CallRemove(t, sbufs)
     ELSE Turn(t, "test", "nap") /\ UNCHANGED sbufVars
  /\ UNCHANGED <<module, array, handler, kbd, stop, val>>

(* Mutants: the flag is cleared while the call still runs; the flag stays  *)
(* set; val++ is left out.                                                 *)
ReturnEarly(t) ==
  /\ Mapped /\ Turn(t, "call", "nap")
  /\ val' = IF t = producer THEN Inc(val) ELSE val
  /\ flag' = [flag EXCEPT ![KeyOf(t)] = FALSE]
  /\ UNCHANGED <<sbufVars, module, array, handler, pending, pressed, stop>>

ReturnKeepsFlag(t) ==
  /\ Mapped /\ pc[t] = "idle" /\ Turn(t, "call", "nap")
  /\ val' = IF t = producer THEN Inc(val) ELSE val
  /\ UNCHANGED <<sbufVars, module, array, handler, kbd, stop>>

ReturnSameVal(t) ==
  /\ Mapped /\ pc[t] = "idle" /\ Turn(t, "call", "nap")
  /\ flag' = [flag EXCEPT ![KeyOf(t)] = FALSE]
  /\ UNCHANGED <<sbufVars, module, array, handler, pending, pressed, stop, val>>

(* The call returns: val++ in the producer, and the flag is cleared,       *)
(* whether or not the key was pressed again since it was read.             *)
Return(t) ==
  /\ Mapped /\ pc[t] = "idle" /\ Turn(t, "call", "nap")
  /\ val' = IF t = producer THEN Inc(val) ELSE val
  /\ flag' = [flag EXCEPT ![KeyOf(t)] = FALSE]
  /\ UNCHANGED <<sbufVars, module, array, handler, pending, pressed, stop>>

(* After msleep(100): if (exit_flag) break.                                *)
CheckExit(t) ==
  /\ Mapped /\ Turn(t, "nap", IF flag["ESC"] THEN "done" ELSE "loop")
  /\ UNCHANGED <<sbufVars, module, array, handler, kbd, stop, val>>

(* The call runs up to the access to the array, ...                        *)
AtNoArray(t) == ~array /\ pc[t] \in {"ins_store", "rem_load"}

Library(t) ==
  /\ Mapped /\ loc[t] = "call" /\ ~AtNoArray(t)
  /\ Step(t)
  /\ UNCHANGED lab8Vars

(* ... which kills the thread, holding the mutex, if there is no array.    *)
Oops(t) ==
  /\ Mapped /\ AtNoArray(t) /\ Turn(t, "call", "killed")
  /\ UNCHANGED <<sbufVars, module, array, handler, kbd, stop, val>>

Body(t) == TestFlag(t) \/ Library(t) \/ Oops(t) \/ Return(t) \/ CheckExit(t)

Over(t) == loc[t] \in {"done", "killed"}

-----------------------------------------------------------------------------
(***************************************************************************)
(* simple_exit.  For each thread: unless exit_flag is set, kthread_stop,   *)
(* which waits for the thread to end, killed or not.  A thread never       *)
(* created or already over is not there to be stopped: the former is a     *)
(* fault, the latter a use after free that may go unnoticed.               *)
(***************************************************************************)
LookAtExitFlag(from, toStop, past) ==
  /\ At8(from, IF flag["ESC"] THEN past ELSE toStop)
  /\ UNCHANGED <<sbufVars, array, handler, kbd, stop, loc, val>>

kthread_stop(t, from, toJoin) ==
  /\ module = from
  /\ module' \in IF loc[t] = "unborn" THEN {"oops"}
                 ELSE IF Over(t) THEN {"oops", toJoin}
                 ELSE {toJoin}
  /\ stop' = [stop EXCEPT ![t] = TRUE]
  /\ UNCHANGED <<sbufVars, array, handler, kbd, loc, val>>

(* Mutant: kthread_stop does not wait.                                     *)
JoinAtOnce(t, from, to) ==
  /\ At8(from, to)
  /\ UNCHANGED <<sbufVars, array, handler, kbd, stop, loc, val>>

Join(t, from, to) ==
  /\ At8(from, to) /\ Over(t)
  /\ UNCHANGED <<sbufVars, array, handler, kbd, stop, loc, val>>

free_irq ==
  /\ At8("unhook", "drain") /\ handler' = FALSE
  /\ UNCHANGED <<sbufVars, array, kbd, stop, loc, val>>

(* tasklet_kill waits for a scheduled tasklet; then kfree(sbufs).          *)
Free(to) ==
  /\ At8("drain", to) /\ pending = {}
  /\ UNCHANGED <<sbufVars, array, handler, kbd, stop, loc, val>>

Leave ==
  \/ LookAtExitFlag("check_p", "stop_p", "check_c")
  \/ Join(producer, "join_p", "check_c")
  \/ LookAtExitFlag("check_c", "stop_c", "unhook")
  \/ Join(consumer, "join_c", "unhook")
  \/ free_irq

Stop == kthread_stop(producer, "stop_p", "join_p")
          \/ kthread_stop(consumer, "stop_c", "join_c")

(* rmmod may come at any time, or never.                                   *)
Rmmod ==
  /\ At8("live", "check_p")
  /\ UNCHANGED <<sbufVars, array, handler, kbd, stop, loc, val>>

-----------------------------------------------------------------------------
(* In the library, or killed there.                                        *)
Calling == {"call", "killed"}

Lab8TypeOK ==
  /\ SbufTypeOK
  /\ module \in {"absent", "ready", "hooked", "half", "live", "failed", "check_p",
                 "stop_p", "join_p", "check_c", "stop_c", "join_c", "unhook", "drain", "gone", "oops"}
  /\ array \in BOOLEAN /\ handler \in BOOLEAN
  /\ pending \subseteq Keys /\ flag \in [Keys -> BOOLEAN] /\ pressed \in [Keys -> Nat]
  /\ stop \in [Threads -> BOOLEAN]
  /\ loc \in [Threads -> {"unborn", "loop", "lie", "check", "sched",
                          "test", "call", "nap", "done", "killed"}]
  /\ val \in Ints
  /\ \A t \in Threads : pc[t] # "idle" => loc[t] \in Calling

(* What "You pressed F2" and "You pressed F3" promise at most: a press is  *)
(* good for one insertion or removal, never two.  Per key, the calls begun *)
(* plus the flag not acted on yet plus the tasklet on its way do not       *)
(* exceed the interrupts; they fall short when presses coalesce or the     *)
(* flag of a newer press is cleared with an older one's.                   *)
One(p) == IF p THEN 1 ELSE 0

CallsBegun(t) ==
  IF t = producer THEN Stored(sbufs) + Count(sbufs, Unstored)
                  ELSE Loaded(sbufs) + Count(sbufs, {"rem_wait"} \cup Claimed)

CallsAnswerPresses ==
  \A t \in Threads : LET k == KeyOf(t) IN
    CallsBegun(t) + One(flag[k] /\ loc[t] \notin Calling) + One(k \in pending) <= pressed[k]

(* The items come out as consecutive ints from wherever the uninitialised  *)
(* val began, across the wrap at INT_MAX.                                  *)
ConsecutiveItems ==
  \A n \in 1 .. Loaded(sbufs) - 1 : removed[sbufs][n + 1] = Inc(removed[sbufs][n])

(* kfree(sbufs) comes under a running thread only if ESC let simple_exit   *)
(* skip the wait for it.                                                   *)
FreedUnderNobody ==
  module = "gone" =>
    \A t \in Threads : Over(t) \/ (flag["ESC"] /\ ~stop[t])

(* Asleep in down(), on a full or an empty buffer.                         *)
AsleepInDown(t) ==
  \/ pc[t] = "ins_wait" /\ slots[sbufs] = 0
  \/ pc[t] = "rem_wait" /\ items[sbufs] = 0

-----------------------------------------------------------------------------
(* The inductive invariant.  A thread is started once, and each keeps to   *)
(* its side of the library.                                                *)
NotYetStarted ==
  /\ module \in {"absent", "ready", "hooked"} => loc[producer] = "unborn"
  /\ module \in {"absent", "ready", "hooked", "half"} => loc[consumer] = "unborn"

Sides ==
  /\ pc[producer] \in {"idle"} \cup Unstored \cup Unannounced
  /\ pc[consumer] \in {"idle", "rem_wait"} \cup Claimed \cup Unreturned

PressesBounded == \A k \in Keys : pressed[k] <= MaxPresses[k]

(* val is the item on its way in, or the last one until the call returns,  *)
(* or the one after it.                                                    *)
InsertedInSequence ==
  /\ \A n \in 1 .. Stored(sbufs) - 1 :
       inserted[sbufs][n + 1] = Inc(inserted[sbufs][n])
  /\ pc[producer] \in Unstored => item[producer] = val
  /\ Stored(sbufs) > 0 =>
       LET last == inserted[sbufs][Stored(sbufs)] IN
       IF loc[producer] = "call" /\ pc[producer] \notin Unstored
       THEN val = last ELSE val = Inc(last)

(* simple_exit has done with a thread: it ended, or was never asked to.    *)
Passed(t) == Over(t) \/ (flag["ESC"] /\ ~stop[t])

ExitOrder ==
  /\ module \in {"check_c", "stop_c", "join_c", "unhook", "drain", "gone"} => Passed(producer)
  /\ module \in {"unhook", "drain", "gone"} => Passed(consumer)
  /\ module \in {"absent", "ready", "hooked", "half", "live", "check_p", "stop_p"}
       => ~stop[producer]
  /\ module \in {"absent", "ready", "hooked", "half", "live", "check_p", "stop_p", "join_p",
                 "check_c", "stop_c"} => ~stop[consumer]

Lab8Inv ==
  /\ Lab8TypeOK /\ NotYetStarted /\ Sides /\ PressesBounded
  /\ CallsAnswerPresses /\ InsertedInSequence /\ ExitOrder
=============================================================================
