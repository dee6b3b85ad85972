----------------------------- MODULE Lab8Quiz3 -----------------------------
(***************************************************************************)
(* lab8/quiz3.c: work items set the flags, and each thread sleeps in       *)
(* schedule() until irq_handler or kthread_stop wakes it.  Of the task     *)
(* states only TASK_INTERRUPTIBLE matters: asleep in down() or msleep() a  *)
(* thread goes back to sleep when it is woken.                             *)
(*                                                                         *)
(* A thread's turn of the loop (Lab8 has the rest):                        *)
(*   loop   kthread_should_stop()                                          *)
(*   lie    set_current_state(TASK_INTERRUPTIBLE)                          *)
(*   check  if (!enqueue_flag && !exit_flag)                               *)
(*   sched  schedule()                                                     *)
(***************************************************************************)
EXTENDS Lab8

VARIABLES
  workqueue,      \* did create_workqueue give my_workqueue?
  interruptible   \* the threads in state TASK_INTERRUPTIBLE

vars == <<sbufVars, lab8Vars, workqueue, interruptible>>

Init == Lab8Init /\ workqueue = TRUE /\ interruptible = {}

(* create_workqueue comes after sbuf_init, and its result is not looked at *)
(* either.                                                                 *)
simple_init ==
  /\ \/ InitBuffer /\ workqueue' \in BOOLEAN
     \/ (RequestIrq \/ StartProducer \/ StartConsumer) /\ UNCHANGED workqueue
  /\ UNCHANGED interruptible

-----------------------------------------------------------------------------
Woken(k) == CASE k = "ESC" -> {producer, consumer}
              [] k = "F2"  -> {producer}
              [] k = "F3"  -> {consumer}

(* wake_up_process of every thread in ts: a null or error pointer when the *)
(* thread is not there yet, a stale one when it has ended.                 *)
wake_up(ts) ==
  /\ module' \in IF \E t \in ts : loc[t] = "unborn" THEN {"oops"}
                 ELSE IF \E t \in ts : Over(t) THEN {module, "oops"}
                 ELSE {module}
  /\ interruptible' = interruptible \ ts

(* irq_handler queues the work of the key first and wakes next; the work   *)
(* runs when a worker comes to it.  There must be a queue to put it in.    *)
irq_handler(k) ==
  /\ Schedule(k)
  /\ \/ workqueue /\ wake_up(Woken(k))
     \/ ~workqueue /\ module' = "oops" /\ UNCHANGED interruptible
  /\ UNCHANGED workqueue

do_work(k) == SetFlag(k) /\ UNCHANGED <<workqueue, interruptible>>

-----------------------------------------------------------------------------
(* Mutants: the state is set after the flags were read; exit_flag is not   *)
(* looked at.                                                              *)
CheckBeforeLying(t) ==
  /\ Mapped
  /\ \/ /\ Turn(t, "lie", IF flag[KeyOf(t)] \/ flag["ESC"] THEN "test" ELSE "check")
        /\ UNCHANGED interruptible
     \/ /\ Turn(t, "check", "sched")
        /\ interruptible' = interruptible \cup {t}
  /\ UNCHANGED <<sbufVars, module, array, handler, kbd, stop, val, workqueue>>

LieForKeyOnly(t) ==
  /\ Mapped
  /\ \/ /\ Turn(t, "lie", "check")
        /\ interruptible' = interruptible \cup {t}
     \/ /\ Turn(t, "check", IF flag[KeyOf(t)] THEN "test" ELSE "sched")
        /\ interruptible' = IF flag[KeyOf(t)] THEN interruptible \ {t} ELSE interruptible
  /\ UNCHANGED <<sbufVars, module, array, handler, kbd, stop, val, workqueue>>

(* set_current_state(TASK_INTERRUPTIBLE), and then the flags: with one     *)
(* set, the state is put back and the thread goes on.                      *)
LieAndCheck(t) ==
  /\ Mapped
  /\ \/ /\ Turn(t, "lie", "check")
        /\ interruptible' = interruptible \cup {t}
     \/ /\ flag[KeyOf(t)] \/ flag["ESC"]
        /\ Turn(t, "check", "test")
        /\ interruptible' = interruptible \ {t}
     \/ /\ ~flag[KeyOf(t)] /\ ~flag["ESC"]
        /\ Turn(t, "check", "sched")
        /\ UNCHANGED interruptible
  /\ UNCHANGED <<sbufVars, module, array, handler, kbd, stop, val, workqueue>>

(* schedule() returns once the state is TASK_RUNNING again.                *)
Scheduled(t) ==
  /\ Mapped /\ t \notin interruptible /\ Turn(t, "sched", "test")
  /\ UNCHANGED <<sbufVars, module, array, handler, kbd, stop, val, workqueue, interruptible>>

Thread(t) ==
  \/ (CheckStop(t, "lie") \/ Body(t)) /\ UNCHANGED <<workqueue, interruptible>>
  \/ LieAndCheck(t) \/ Scheduled(t)

-----------------------------------------------------------------------------
(* kthread_stop wakes the thread after it set should_stop.  Flushing the   *)
(* workqueue waits for a queued work item, and needs a workqueue.          *)
simple_exit ==
  /\ \/ Leave /\ UNCHANGED interruptible
     \/ Free(IF workqueue THEN "gone" ELSE "oops") /\ UNCHANGED interruptible
     \/ /\ Stop
        /\ interruptible' = interruptible \ {t \in Threads : stop'[t] /\ ~stop[t]}
  /\ UNCHANGED workqueue

Next ==
  \/ simple_init \/ simple_exit
  \/ Rmmod /\ UNCHANGED <<workqueue, interruptible>>
  \/ \E k \in Keys : irq_handler(k) \/ do_work(k)
  \/ \E t \in Threads : Thread(t)

(* As in Lab8Quiz2, with the kernel's workers in place of its softirqs.    *)
Fairness ==
  /\ WF_vars(simple_init) /\ WF_vars(simple_exit)
  /\ \A k \in Keys : WF_vars(do_work(k))
  /\ \A t \in Threads : WF_vars(Thread(t))

Spec == Init /\ [][Next]_vars /\ Fairness

-----------------------------------------------------------------------------
Ended(t) == Over(t) \/ ~Mapped

(* A flag that is set while its thread is awake is acted on, unless the    *)
(* thread ends first or sleeps in down(): the state is set before the      *)
(* flags are read, so no thread lies down on a flag that is already set.   *)
AwakeThreadServes ==
  \A t \in Threads :
    flag[KeyOf(t)] /\ loc[t] # "unborn" /\ t \notin interruptible
      ~> ~flag[KeyOf(t)] \/ AsleepInDown(t) \/ Ended(t)

(* With exit_flag set, a thread that is awake, or that any further key     *)
(* wakes, ends unless it is asleep in down(): a wake-up that came too      *)
(* early is made good by the next one.                                     *)
EscEndsTheAwake ==
  \A t \in Threads :
    flag["ESC"] /\ loc[t] # "unborn" /\ t \notin interruptible
      ~> AsleepInDown(t) \/ Ended(t)

(* "pthread stopped successfully" (quiz3.c:196): a thread asked to stop    *)
(* ends, unless it sleeps in down().                                       *)
StopsSuccessfully ==
  \A t \in Threads : stop[t] ~> AsleepInDown(t) \/ Ended(t)
=============================================================================
