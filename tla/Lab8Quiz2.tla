----------------------------- MODULE Lab8Quiz2 -----------------------------
(***************************************************************************)
(* lab8/quiz2.c: tasklets set the flags, and the threads poll them every   *)
(* 100 ms.  Nothing but time ends an msleep, so kthread_stop's wake-up has *)
(* no effect.                                                              *)
(***************************************************************************)
EXTENDS Lab8

vars == <<sbufVars, lab8Vars>>

Init == Lab8Init

simple_init == InitBuffer \/ RequestIrq \/ StartProducer \/ StartConsumer

irq_handler(k) == Schedule(k) /\ UNCHANGED module

Thread(t) == CheckStop(t, "test") \/ Body(t)

simple_exit == Leave \/ Stop \/ Free("gone")

Next ==
  \/ simple_init \/ Rmmod \/ simple_exit
  \/ \E k \in Keys : irq_handler(k) \/ SetFlag(k)
  \/ \E t \in Threads : Thread(t)

(* insmod and rmmod, once called, and the tasklets run on; the scheduler   *)
(* runs every thread that can move.  Nobody has to press a key.            *)
Fairness ==
  /\ WF_vars(simple_init) /\ WF_vars(simple_exit)
  /\ \A k \in Keys : WF_vars(SetFlag(k))
  /\ \A t \in Threads : WF_vars(Thread(t))

Spec == Init /\ [][Next]_vars /\ Fairness

-----------------------------------------------------------------------------
(* A flag that is set is acted on, unless its thread ends first or sleeps  *)
(* in down(): polling misses no flag, whenever it is set.                  *)
FlagIsServed ==
  \A t \in Threads :
    flag[KeyOf(t)] /\ loc[t] # "unborn"
      ~> ~flag[KeyOf(t)] \/ AsleepInDown(t) \/ Over(t) \/ ~Mapped

(* rmmod comes to an end, or to a fault, unless a thread it waits for is   *)
(* asleep in down() for ever: nothing else can hang simple_exit.           *)
RmmodReturns ==
  module = "check_p" ~>
    (module \in {"gone", "oops"} \/ \E t \in Threads : []AsleepInDown(t))
=============================================================================
