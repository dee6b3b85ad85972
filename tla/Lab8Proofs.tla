------------------------------ MODULE Lab8Proofs ------------------------------
(***************************************************************************)
(* Proofs about both programs of lab8, for any number of presses, slots    *)
(* and ints.  Lab8Spec is what the two have in common, with every way of   *)
(* waiting for a flag; each program is shown to implement it.              *)
(***************************************************************************)
EXTENDS Lab8, SbufProofs

VARIABLES workqueue, interruptible

Quiz2 == INSTANCE Lab8Quiz2
Quiz3 == INSTANCE Lab8Quiz3

-----------------------------------------------------------------------------
(* A thread that is not in a call goes from one place in its loop to       *)
(* another, or ends.                                                       *)
Looping == {"loop", "lie", "check", "sched", "test", "nap"}

Wander(t) ==
  /\ Mapped /\ loc[t] \in Looping
  /\ \E l \in Looping \cup {"done"} : loc' = [loc EXCEPT ![t] = l]
  /\ UNCHANGED <<sbufVars, module, array, handler, kbd, stop, val>>

CallLibrary(t) ==
  /\ Mapped /\ flag[KeyOf(t)] /\ Turn(t, "test", "call")
  /\ IF t = producer THEN CallInsert(t, sbufs, val) ELSE CallRemove(t, sbufs)
  /\ UNCHANGED <<module, array, handler, kbd, stop, val>>

(* A wake-up of a thread that is not there may end in a fault.             *)
Interrupt(k) == Schedule(k) /\ module' \in {module, "oops"}

ThreadStep(t) == Wander(t) \/ CallLibrary(t) \/ Library(t) \/ Oops(t) \/ Return(t)

Exit == Rmmod \/ Leave \/ Stop \/ Free("gone") \/ Free("oops")

Lab8Next ==
  \/ InitBuffer \/ RequestIrq \/ StartProducer \/ StartConsumer \/ Exit
  \/ \E k \in Keys : Interrupt(k) \/ SetFlag(k)
  \/ \E t \in Threads : ThreadStep(t)

Lab8AllVars == <<sbufVars, lab8Vars>>
Lab8Spec == Lab8Init /\ [][Lab8Next]_Lab8AllVars

-----------------------------------------------------------------------------
(* Steps that do not touch the library, and what they leave alone.         *)
Outside ==
  \/ InitBuffer \/ RequestIrq \/ StartProducer \/ StartConsumer \/ Exit
  \/ \E k \in Keys : Interrupt(k) \/ SetFlag(k)
  \/ \E t \in Threads : Wander(t) \/ Oops(t) \/ Return(t)

LEMMA OutsideLeavesLibrary == Outside => UNCHANGED sbufVars
  BY DEF Outside, InitBuffer, RequestIrq, StartProducer, StartConsumer, Start, Exit, Rmmod,
     Leave, Stop, LookAtExitFlag, Join, free_irq, Free, kthread_stop, Interrupt, Schedule,
     SetFlag, Wander, Oops, Return

LEMMA Lab8Sorted ==
  Lab8Next => Outside \/ \E t \in Threads : CallLibrary(t) \/ Library(t)
  BY DEF Lab8Next, Outside, ThreadStep

LEMMA TwoThreads ==
  /\ producer \in Threads /\ consumer \in Threads /\ producer # consumer /\ sbufs \in Bufs
  /\ \A t \in Threads : t = producer \/ t = consumer
  /\ \A b \in Bufs : b = sbufs
  /\ KeyOf(producer) = "F2" /\ KeyOf(consumer) = "F3"
  /\ \A t \in Threads : KeyOf(t) \in Keys /\ KeyOf(t) # "ESC"
  BY Lab8Assumption DEF KeyOf, Keys

LEMMA BegunByCallers ==
  /\ CallsBegun(producer) = InsertsBegun(sbufs)
  /\ CallsBegun(consumer) = RemovesBegun(sbufs)
  /\ CallsBegun(producer)' = InsertsBegun(sbufs)'
  /\ CallsBegun(consumer)' = RemovesBegun(sbufs)'
  BY TwoThreads DEF CallsBegun, InsertsBegun, RemovesBegun

LEMMA BegunType ==
  ASSUME SbufTypeOK PROVE \A t \in Threads : CallsBegun(t) \in Nat
  <1>1. Stored(sbufs) \in Nat /\ Loaded(sbufs) \in Nat
    BY TwoThreads, Lengths
  <1>2. Count(sbufs, Unstored) \in Nat /\ Count(sbufs, {"rem_wait"} \cup Claimed) \in Nat
    BY CountType
  <1> QED
    BY <1>1, <1>2 DEF CallsBegun

(* No call begins outside TestFlag, and TestFlag begins one of its own.    *)
LEMMA CallsUnchanged ==
  ASSUME UNCHANGED sbufVars PROVE \A t \in Threads : CallsBegun(t)' = CallsBegun(t)
  BY DEF CallsBegun, Stored, Loaded, Count, At, sbufVars, hist, args

LEMMA CallCounted ==
  ASSUME SbufTypeOK, NEW t \in Threads, CallLibrary(t), NEW u \in Threads
  PROVE  CallsBegun(u)' = IF u = t THEN CallsBegun(u) + 1 ELSE CallsBegun(u)
  <1>1. UNCHANGED hist
    BY DEF CallLibrary, CallInsert, CallRemove
  <1>2. Stored(sbufs)' = Stored(sbufs) /\ Loaded(sbufs)' = Loaded(sbufs)
    BY <1>1 DEF hist, Stored, Loaded
  <1>3. /\ Stored(sbufs) \in Nat /\ Loaded(sbufs) \in Nat
        /\ Count(sbufs, Unstored) \in Nat /\ Count(sbufs, {"rem_wait"} \cup Claimed) \in Nat
    BY TwoThreads, Lengths, CountType
  <1>4. CASE t = producer
    <2>1. Entered(sbufs, "ins_wait")
      BY <1>4, TwoThreads, CallMoves DEF CallLibrary, CallInsert
    <2>2. /\ Count(sbufs, Unstored)' = Count(sbufs, Unstored) + 1
          /\ Count(sbufs, {"rem_wait"} \cup Claimed)' = Count(sbufs, {"rem_wait"} \cup Claimed)
      BY <2>1 DEF Entered, Unstored, Reserved, Claimed
    <2> QED
      BY <1>2, <1>3, <1>4, <2>2, TwoThreads DEF CallsBegun
  <1>5. CASE t # producer
    <2>1. Entered(sbufs, "rem_wait")
      BY <1>5, TwoThreads, CallMoves DEF CallLibrary, CallRemove
    <2>2. /\ Count(sbufs, Unstored)' = Count(sbufs, Unstored)
          /\ Count(sbufs, {"rem_wait"} \cup Claimed)' = Count(sbufs, {"rem_wait"} \cup Claimed) + 1
      BY <2>1 DEF Entered, Unstored, Reserved, Claimed
    <2> QED
      BY <1>2, <1>3, <1>5, <2>2, TwoThreads DEF CallsBegun
  <1> QED
    BY <1>4, <1>5

LEMMA SidesInLibrary ==
  ASSUME Sides, NEW t \in Threads
  PROVE  /\ pc[t] # "try_wait"
         /\ t = producer => pc[t] \in {"idle"} \cup InsertStages
         /\ t = consumer => pc[t] \in {"idle"} \cup RemoveStages
  BY TwoThreads DEF Sides, InsertStages, RemoveStages, Unstored, Reserved, Unannounced,
     Claimed, Unreturned

LEMMA CallsGoOn ==
  ASSUME SbufTypeOK, Sides, NEW t \in Threads, Library(t)
  PROVE  \A u \in Threads : CallsBegun(u)' = CallsBegun(u)
  BY SidesInLibrary, TwoThreads, BegunStays, BegunByCallers DEF Library

-----------------------------------------------------------------------------
(* A call of the producer finds room in the bound on insertions.           *)
LEMMA Lab8ImplementsStep ==
  ASSUME Lab8Inv, Lab8Next PROVE [SbufNext]_sbufVars
  <1>1. CASE Outside
    BY <1>1, OutsideLeavesLibrary
  <1>2. ASSUME NEW t \in Threads, Library(t) PROVE SbufNext
    BY <1>2 DEF Library, SbufNext
  <1>3. ASSUME NEW t \in Threads, CallLibrary(t) PROVE SbufNext
    <2>1. CASE t = producer
      <3>1. CallInsert(producer, sbufs, val) /\ flag["F2"] /\ loc[producer] = "test"
        BY <1>3, <2>1, TwoThreads DEF CallLibrary, Turn
      <3>2. CallsBegun(producer) + 1 <= pressed["F2"]
        <4>1. One(flag["F2"] /\ loc[producer] \notin Calling) = 1
          BY <3>1 DEF One, Calling
        <4>2. One("F2" \in pending) \in {0, 1}
          BY DEF One
        <4>3. CallsBegun(producer) + One(flag["F2"] /\ loc[producer] \notin Calling)
                + One("F2" \in pending) <= pressed["F2"]
          BY TwoThreads DEF Lab8Inv, CallsAnswerPresses
        <4>4. CallsBegun(producer) \in Nat /\ pressed["F2"] \in Nat
          BY TwoThreads, BegunType DEF Lab8Inv, Lab8TypeOK, Keys
        <4> QED
          BY <4>1, <4>2, <4>3, <4>4
      <3>3. pressed["F2"] <= MaxPresses["F2"] /\ MaxPresses["F2"] \in Nat
            /\ pressed["F2"] \in Nat /\ MaxPresses["F2"] <= MaxInserts
        BY Lab8Assumption DEF Lab8Inv, Lab8TypeOK, PressesBounded, Keys
      <3>4. Stored(sbufs) + Count(sbufs, Unstored) < MaxInserts
        <4>1. CallsBegun(producer) = Stored(sbufs) + Count(sbufs, Unstored)
          BY BegunByCallers DEF InsertsBegun
        <4>2. CallsBegun(producer) \in Nat /\ MaxInserts \in Nat
          BY TwoThreads, BegunType, SbufAssumption DEF Lab8Inv, Lab8TypeOK
        <4> QED
          BY <3>2, <3>3, <4>1, <4>2
      <3>5. val \in Items
        BY Lab8Assumption DEF Lab8Inv, Lab8TypeOK
      <3>6. SomeCall(producer, sbufs)
        BY <3>1, <3>4, <3>5 DEF SomeCall
      <3> QED
        BY <3>6, TwoThreads DEF SbufNext
    <2>2. CASE t # producer
      <3>1. SomeCall(t, sbufs)
        BY <1>3, <2>2 DEF CallLibrary, SomeCall
      <3> QED
        BY <3>1, TwoThreads DEF SbufNext
    <2> QED
      BY <2>1, <2>2
  <1> QED
    BY <1>1, <1>2, <1>3, Lab8Sorted

-----------------------------------------------------------------------------
Modules == {"absent", "ready", "hooked", "half", "live", "failed", "check_p", "stop_p",
            "join_p", "check_c", "stop_c", "join_c", "unhook", "drain", "gone", "oops"}
Started == Modules \ {"absent", "ready", "hooked", "half"}

(* simple_exit moves module on and stops threads; loc and flags stay.      *)
LEMMA ExitEffect ==
  ASSUME Lab8TypeOK, Exit
  PROVE  /\ module' \in Started /\ handler' \in BOOLEAN /\ stop' \in [Threads -> BOOLEAN]
         /\ module \notin {"absent", "ready", "hooked", "half"}
         /\ UNCHANGED <<sbufVars, array, pending, flag, pressed, loc, val>>
  <1> USE DEF Started, Modules, kbd, Lab8TypeOK
  <1>1. CASE Rmmod
    BY <1>1 DEF Rmmod, At8
  <1>2. CASE Leave
    <2>1. CASE free_irq
      BY <2>1 DEF free_irq, At8
    <2>2. CASE Join(producer, "join_p", "check_c") \/ Join(consumer, "join_c", "unhook")
      BY <2>2 DEF Join, At8
    <2>3. CASE \/ LookAtExitFlag("check_p", "stop_p", "check_c")
               \/ LookAtExitFlag("check_c", "stop_c", "unhook")
      BY <2>3 DEF LookAtExitFlag, At8
    <2> QED
      BY <1>2, <2>1, <2>2, <2>3 DEF Leave
  <1>3. CASE Stop
    BY <1>3 DEF Stop, kthread_stop
  <1>4. CASE Free("gone") \/ Free("oops")
    BY <1>4 DEF Free, At8
  <1> QED
    BY <1>1, <1>2, <1>3, <1>4 DEF Exit

LEMMA Lab8TypeInit == Lab8Init => Lab8TypeOK
  <1> SUFFICES ASSUME Lab8Init PROVE Lab8TypeOK
    OBVIOUS
  <1>1. SbufTypeOK
    BY TypeInit DEF Lab8Init
  <1>2. \A t \in Threads : pc[t] = "idle"
    BY DEF Lab8Init, SbufInit
  <1>3. val \in Ints
    BY Lab8Assumption DEF Lab8Init
  <1> QED
    BY <1>1, <1>2, <1>3 DEF Lab8Init, Lab8TypeOK

LEMMA Lab8TypeStep ==
  ASSUME Lab8Inv, Lab8Next PROVE Lab8TypeOK'
  <1>a. Lab8TypeOK /\ SbufTypeOK
    BY DEF Lab8Inv, Lab8TypeOK
  <1>b. SbufTypeOK'
    BY <1>a, Lab8ImplementsStep, TypeStep
  <1> USE DEF kbd
  <1>1. CASE InitBuffer \/ RequestIrq
    <2>1. UNCHANGED <<sbufVars, kbd, stop, loc, val>> /\ pc' = pc
      BY <1>1 DEF InitBuffer, RequestIrq, sbufVars
    <2>2. module' \in {"ready", "hooked", "oops"} /\ array' \in BOOLEAN /\ handler' \in BOOLEAN
      BY <1>a, <1>1 DEF InitBuffer, RequestIrq, At8, Lab8TypeOK
    <2> QED
      BY <1>a, <1>b, <2>1, <2>2 DEF Lab8TypeOK
  <1>2. CASE StartProducer \/ StartConsumer
    <2>1. PICK t \in Threads : /\ \E l \in {"loop", "unborn"} : loc' = [loc EXCEPT ![t] = l]
                               /\ UNCHANGED <<sbufVars, array, handler, kbd, stop, val>>
                               /\ loc[t] = "unborn"
      BY <1>2, TwoThreads DEF StartProducer, StartConsumer, Start, At8, Lab8Inv, NotYetStarted
    <2>2. module' \in {"half", "live", "failed"}
      BY <1>2 DEF StartProducer, StartConsumer, Start, At8
    <2>3. pc' = pc
      BY <2>1 DEF sbufVars
    <2>4. loc' \in [Threads -> {"unborn", "loop", "lie", "check", "sched",
                                "test", "call", "nap", "done", "killed"}]
      BY <1>a, <2>1 DEF Lab8TypeOK
    <2>5. \A u \in Threads : pc'[u] # "idle" => loc'[u] \in Calling
      BY <1>a, <2>1, <2>3 DEF Lab8TypeOK, Calling
    <2> QED
      BY <1>a, <1>b, <2>1, <2>2, <2>4, <2>5 DEF Lab8TypeOK
  <1>3. CASE Exit
    <2>1. pc' = pc
      BY <1>a, <1>3, ExitEffect DEF sbufVars
    <2> QED
      BY <1>a, <1>b, <1>3, <2>1, ExitEffect DEF Lab8TypeOK, Started, Modules
  <1>4. ASSUME NEW k \in Keys, Interrupt(k) PROVE Lab8TypeOK'
    <2>1. /\ pending' \subseteq Keys /\ pressed' \in [Keys -> Nat]
          /\ UNCHANGED <<sbufVars, array, handler, flag, stop, loc, val>>
          /\ module' \in {module, "oops"}
      BY <1>a, <1>4 DEF Interrupt, Schedule, Lab8TypeOK
    <2>2. pc' = pc
      BY <2>1 DEF sbufVars
    <2> QED
      BY <1>a, <1>b, <2>1, <2>2 DEF Lab8TypeOK
  <1>5. ASSUME NEW k \in Keys, SetFlag(k) PROVE Lab8TypeOK'
    <2>1. pc' = pc
      BY <1>5 DEF SetFlag, sbufVars
    <2> QED
      BY <1>a, <1>b, <1>5, <2>1 DEF SetFlag, Lab8TypeOK
  <1>6. ASSUME NEW t \in Threads, Wander(t) PROVE Lab8TypeOK'
    <2>1. pc' = pc
      BY <1>6 DEF Wander, sbufVars
    <2>2. /\ loc' \in [Threads -> {"unborn", "loop", "lie", "check", "sched",
                                   "test", "call", "nap", "done", "killed"}]
          /\ \A u \in Threads : pc'[u] # "idle" => loc'[u] \in Calling
      BY <1>a, <1>6, <2>1 DEF Wander, Looping, Calling, Lab8TypeOK
    <2> QED
      BY <1>a, <1>b, <1>6, <2>2 DEF Wander, Lab8TypeOK
  <1>7. ASSUME NEW t \in Threads, Return(t) PROVE Lab8TypeOK'
    <2>1. pc' = pc /\ UNCHANGED <<module, array, handler, pending, pressed, stop>>
      BY <1>7 DEF Return, sbufVars
    <2>2. /\ loc' \in [Threads -> {"unborn", "loop", "lie", "check", "sched",
                                   "test", "call", "nap", "done", "killed"}]
          /\ \A u \in Threads : pc'[u] # "idle" => loc'[u] \in Calling
      BY <1>a, <1>7, <2>1 DEF Return, Turn, Calling, Lab8TypeOK
    <2>3. flag' \in [Keys -> BOOLEAN]
      BY <1>a, <1>7 DEF Return, Lab8TypeOK
    <2>4. val' \in Ints
      BY <1>a, <1>7, SbufAssumption DEF Return, Lab8TypeOK, Inc, Ints
    <2> QED
      BY <1>a, <1>b, <2>1, <2>2, <2>3, <2>4 DEF Lab8TypeOK
  <1>8. ASSUME NEW t \in Threads, CallLibrary(t) PROVE Lab8TypeOK'
    <2>1. \A u \in Threads \ {t} : pc'[u] = pc[u]
      BY <1>a, <1>8 DEF CallLibrary, CallInsert, CallRemove, Go, SbufTypeOK
    <2>2. /\ loc' \in [Threads -> {"unborn", "loop", "lie", "check", "sched",
                                   "test", "call", "nap", "done", "killed"}]
          /\ \A u \in Threads : pc'[u] # "idle" => loc'[u] \in Calling
      BY <1>a, <1>8, <2>1 DEF CallLibrary, Turn, Calling, Lab8TypeOK
    <2> QED
      BY <1>a, <1>b, <1>8, <2>2 DEF CallLibrary, Lab8TypeOK
  <1>9. ASSUME NEW t \in Threads, Library(t) PROVE Lab8TypeOK'
    <2>1. /\ \A u \in Threads \ {t} : pc'[u] = pc[u]
          /\ loc[t] = "call"
      BY <1>a, <1>9 DEF Library, Step, DownSlots, DownItems, TryEmpty, Lock, BumpRear, Store,
         BumpFront, Load, Unlock, UpItems, UpSlots, Go, SbufTypeOK
    <2>2. \A u \in Threads : pc'[u] # "idle" => loc[u] \in Calling
      BY <1>a, <2>1 DEF Lab8TypeOK, Calling
    <2> QED
      BY <1>a, <1>b, <1>9, <2>2 DEF Library, lab8Vars, Lab8TypeOK
  <1>10. ASSUME NEW t \in Threads, Oops(t) PROVE Lab8TypeOK'
    <2>1. pc' = pc /\ UNCHANGED <<module, array, handler, kbd, stop, val>>
      BY <1>10 DEF Oops, sbufVars
    <2>2. /\ loc' \in [Threads -> {"unborn", "loop", "lie", "check", "sched",
                                   "test", "call", "nap", "done", "killed"}]
          /\ \A u \in Threads : pc'[u] # "idle" => loc'[u] \in Calling
      BY <1>a, <1>10, <2>1 DEF Oops, Turn, Calling, Lab8TypeOK
    <2> QED
      BY <1>a, <1>b, <2>1, <2>2 DEF Lab8TypeOK
  <1> QED
    BY <1>1, <1>2, <1>3, <1>4, <1>5, <1>6, <1>7, <1>8, <1>9, <1>10 DEF Lab8Next, ThreadStep

LEMMA StartedStep ==
  ASSUME Lab8Inv, Lab8Next PROVE NotYetStarted' /\ PressesBounded'
  <1>a. Lab8TypeOK /\ NotYetStarted /\ PressesBounded
    BY DEF Lab8Inv
  <1> USE DEF kbd
  <1>1. CASE InitBuffer \/ RequestIrq
    BY <1>a, <1>1 DEF InitBuffer, RequestIrq, At8, NotYetStarted, PressesBounded
  <1>2. CASE StartProducer \/ StartConsumer
    BY <1>a, <1>2, TwoThreads DEF StartProducer, StartConsumer, Start, At8, NotYetStarted,
       PressesBounded, Lab8TypeOK
  <1>3. CASE Exit
    BY <1>a, <1>3, ExitEffect DEF NotYetStarted, PressesBounded, Started
  <1>4. ASSUME NEW k \in Keys, Interrupt(k) PROVE NotYetStarted' /\ PressesBounded'
    <2>1. NotYetStarted'
      BY <1>a, <1>4 DEF Interrupt, Schedule, NotYetStarted
    <2>2. /\ pressed[k] + 1 <= MaxPresses[k]
          /\ pressed' = [pressed EXCEPT ![k] = @ + 1]
      <3>1. pressed[k] < MaxPresses[k] /\ pressed' = [pressed EXCEPT ![k] = @ + 1]
        BY <1>4 DEF Interrupt, Schedule
      <3>2. pressed[k] \in Nat /\ MaxPresses[k] \in Nat
        BY <1>a, Lab8Assumption DEF Lab8TypeOK
      <3> QED
        BY <3>1, <3>2
    <2>3. PressesBounded'
      BY <1>a, <2>2 DEF PressesBounded, Lab8TypeOK
    <2> QED
      BY <2>1, <2>3
  <1>5. ASSUME NEW k \in Keys, SetFlag(k) PROVE NotYetStarted' /\ PressesBounded'
    BY <1>a, <1>5 DEF SetFlag, NotYetStarted, PressesBounded
  <1>6. ASSUME NEW t \in Threads, ThreadStep(t) PROVE NotYetStarted' /\ PressesBounded'
    <2>1. UNCHANGED <<module, pressed>> /\ module # "absent"
          /\ \A u \in Threads : loc[u] = "unborn" => loc'[u] = "unborn"
      <3>1. CASE Wander(t)
        BY <1>a, <3>1 DEF Wander, Looping, Mapped, Lab8TypeOK
      <3>2. CASE CallLibrary(t)
        BY <1>a, <3>2 DEF CallLibrary, Turn, Mapped, Lab8TypeOK
      <3>3. CASE Library(t)
        BY <3>3 DEF Library, lab8Vars, Mapped
      <3>4. CASE Return(t)
        BY <1>a, <3>4 DEF Return, Turn, Mapped, Lab8TypeOK
      <3>5. CASE Oops(t)
        BY <1>a, <3>5 DEF Oops, Turn, Mapped, Lab8TypeOK
      <3> QED
        BY <1>6, <3>1, <3>2, <3>3, <3>4, <3>5 DEF ThreadStep
    <2> QED
      BY <1>a, <2>1, TwoThreads DEF NotYetStarted, PressesBounded
  <1> QED
    BY <1>1, <1>2, <1>3, <1>4, <1>5, <1>6 DEF Lab8Next

LEMMA SidesStep ==
  ASSUME Lab8Inv, Lab8Next PROVE Sides'
  <1>a. SbufTypeOK /\ Sides
    BY DEF Lab8Inv, Lab8TypeOK
  <1>1. CASE Outside
    BY <1>a, <1>1, OutsideLeavesLibrary DEF Sides, sbufVars
  <1>2. ASSUME NEW t \in Threads, CallLibrary(t) PROVE Sides'
    BY <1>a, <1>2, TwoThreads DEF CallLibrary, CallInsert, CallRemove, Go, SbufTypeOK, Sides,
       Unstored
  <1>3. ASSUME NEW t \in Threads, Library(t) PROVE Sides'
    <2>1. /\ \A u \in Threads \ {t} : pc'[u] = pc[u]
          /\ pc[t] \in InsertStages => pc'[t] \in {"idle"} \cup InsertStages
          /\ pc[t] \in RemoveStages => pc'[t] \in {"idle"} \cup RemoveStages
          /\ pc[t] # "idle"
      <3>1. \A u \in Threads \ {t} : pc'[u] = pc[u]
        BY <1>a, <1>3 DEF Library, Step, DownSlots, DownItems, TryEmpty, Lock, BumpRear, Store,
           BumpFront, Load, Unlock, UpItems, UpSlots, Go, SbufTypeOK
      <3> QED
        BY <1>a, <1>3, <3>1, SidesInLibrary, BegunStays, TwoThreads DEF Library
    <2> QED
      BY <1>a, <2>1, TwoThreads DEF Sides, InsertStages, RemoveStages
  <1> QED
    BY <1>1, <1>2, <1>3, Lab8Sorted

-----------------------------------------------------------------------------
(* Presses and calls, thread by thread.                                    *)
Owed(t) == One(flag[KeyOf(t)] /\ loc[t] \notin Calling)
OnItsWay(t) == One(KeyOf(t) \in pending)
Answered(t) == CallsBegun(t) + Owed(t) + OnItsWay(t) <= pressed[KeyOf(t)]

LEMMA OneType ==
  /\ \A t : Owed(t) \in {0, 1} /\ OnItsWay(t) \in {0, 1}
  /\ \A t : Owed(t)' \in {0, 1} /\ OnItsWay(t)' \in {0, 1}
  BY DEF Owed, OnItsWay, One

LEMMA AnsweredIsAnswered ==
  /\ CallsAnswerPresses <=> \A t \in Threads : Answered(t)
  /\ CallsAnswerPresses' <=> \A t \in Threads : Answered(t)'
  BY DEF CallsAnswerPresses, Answered, Owed, OnItsWay

LEMMA StillAnswered ==
  ASSUME NEW t \in Threads, SbufTypeOK, pressed[KeyOf(t)] \in Nat, Answered(t),
         CallsBegun(t)' = CallsBegun(t), Owed(t)' <= Owed(t), OnItsWay(t)' <= OnItsWay(t),
         pressed'[KeyOf(t)] = pressed[KeyOf(t)]
  PROVE  Answered(t)'
  BY BegunType, OneType DEF Answered

LEMMA PressesStep ==
  ASSUME Lab8Inv, Lab8Next PROVE CallsAnswerPresses'
  <1>a. Lab8TypeOK /\ SbufTypeOK /\ Sides /\ NotYetStarted
    BY DEF Lab8Inv, Lab8TypeOK
  <1>b. SUFFICES ASSUME NEW t \in Threads PROVE Answered(t)'
    BY AnsweredIsAnswered
  <1>c. /\ Answered(t) /\ pressed[KeyOf(t)] \in Nat /\ CallsBegun(t) \in Nat
        /\ KeyOf(t) \in Keys
    BY <1>a, AnsweredIsAnswered, TwoThreads, BegunType DEF Lab8Inv, Lab8TypeOK
  <1>d. Owed(t) \in {0, 1} /\ OnItsWay(t) \in {0, 1} /\ Owed(t)' \in {0, 1} /\ OnItsWay(t)' \in {0, 1}
    BY OneType
  <1> USE DEF kbd
  <1>1. ASSUME CallsBegun(t)' = CallsBegun(t), pending' = pending, pressed' = pressed,
               flag'[KeyOf(t)] /\ loc'[t] \notin Calling => flag[KeyOf(t)] /\ loc[t] \notin Calling
        PROVE  Answered(t)'
    <2>1. OnItsWay(t)' <= OnItsWay(t)
      BY <1>1, <1>d DEF OnItsWay
    <2>2. Owed(t)' <= Owed(t)
      BY <1>1 DEF Owed, One
    <2> QED
      BY <1>1, <1>a, <1>c, <2>1, <2>2, StillAnswered
  <1>2. CASE InitBuffer \/ RequestIrq \/ StartProducer \/ StartConsumer \/ Exit
    <2>1. UNCHANGED <<pending, flag, pressed>> /\ CallsBegun(t)' = CallsBegun(t)
      <3>1. UNCHANGED sbufVars
        BY <1>2, OutsideLeavesLibrary DEF Outside
      <3>2. UNCHANGED <<pending, flag, pressed>>
        BY <1>a, <1>2, ExitEffect DEF InitBuffer, RequestIrq, StartProducer, StartConsumer, Start
      <3> QED
        BY <3>1, <3>2, CallsUnchanged
    <2>2. loc'[t] \notin Calling => loc[t] \notin Calling
      <3>1. CASE InitBuffer \/ RequestIrq
        BY <3>1 DEF InitBuffer, RequestIrq
      <3>2. CASE StartProducer \/ StartConsumer
        BY <1>a, <3>2, TwoThreads DEF StartProducer, StartConsumer, Start, At8, NotYetStarted,
           Lab8TypeOK, Calling
      <3>3. CASE Exit
        BY <1>a, <3>3, ExitEffect
      <3> QED
        BY <1>2, <3>1, <3>2, <3>3
    <2> QED
      BY <1>1, <2>1, <2>2
  <1>3. ASSUME NEW k \in Keys, Interrupt(k) PROVE Answered(t)'
    <2>1. CallsBegun(t)' = CallsBegun(t)
      BY <1>3, OutsideLeavesLibrary, CallsUnchanged DEF Outside
    <2>2. Owed(t)' = Owed(t)
      BY <1>3 DEF Interrupt, Schedule, Owed
    <2>3. CASE KeyOf(t) = k
      <3>1. pressed'[KeyOf(t)] = pressed[KeyOf(t)] + 1
        BY <1>a, <1>3, <2>3 DEF Interrupt, Schedule, Lab8TypeOK
      <3> QED
        BY <1>c, <1>d, <2>1, <2>2, <3>1 DEF Answered
    <2>4. CASE KeyOf(t) # k
      <3>1. pressed'[KeyOf(t)] = pressed[KeyOf(t)]
        BY <1>a, <1>c, <1>3, <2>4 DEF Interrupt, Schedule, Lab8TypeOK
      <3>2. OnItsWay(t)' = OnItsWay(t)
        BY <1>3, <2>4 DEF Interrupt, Schedule, OnItsWay
      <3> QED
        BY <1>c, <2>1, <2>2, <3>1, <3>2 DEF Answered
    <2> QED
      BY <2>3, <2>4
  <1>4. ASSUME NEW k \in Keys, SetFlag(k) PROVE Answered(t)'
    <2>1. CallsBegun(t)' = CallsBegun(t)
      BY <1>4, OutsideLeavesLibrary, CallsUnchanged DEF Outside
    <2>2. CASE KeyOf(t) = k
      <3>1. OnItsWay(t) = 1 /\ OnItsWay(t)' = 0 /\ pressed' = pressed
        BY <1>4, <2>2 DEF SetFlag, OnItsWay, One
      <3> QED
        BY <1>c, <1>d, <2>1, <3>1 DEF Answered
    <2>3. CASE KeyOf(t) # k
      <3>1. Owed(t)' = Owed(t)
        BY <1>a, <1>c, <1>4, <2>3 DEF SetFlag, Owed, Lab8TypeOK
      <3>2. OnItsWay(t)' = OnItsWay(t) /\ pressed' = pressed
        BY <1>4, <2>3 DEF SetFlag, OnItsWay
      <3> QED
        BY <1>c, <2>1, <3>1, <3>2 DEF Answered
    <2> QED
      BY <2>2, <2>3
  <1>5. ASSUME NEW u \in Threads, Wander(u) PROVE Answered(t)'
    <2>1. CallsBegun(t)' = CallsBegun(t)
      BY <1>5, OutsideLeavesLibrary, CallsUnchanged DEF Outside
    <2>2. UNCHANGED <<pending, flag, pressed>> /\ (loc'[t] \notin Calling => loc[t] \notin Calling)
      BY <1>a, <1>5 DEF Wander, Looping, Calling, Lab8TypeOK
    <2> QED
      BY <1>1, <2>1, <2>2
  <1>6. ASSUME NEW u \in Threads, Return(u) PROVE Answered(t)'
    <2>1. CallsBegun(t)' = CallsBegun(t)
      BY <1>6, OutsideLeavesLibrary, CallsUnchanged DEF Outside
    <2>2. UNCHANGED <<pending, pressed>>
      BY <1>6 DEF Return
    <2>3. CASE u = t
      <3>1. ~flag'[KeyOf(t)]
        BY <1>a, <1>c, <1>6, <2>3 DEF Return, Lab8TypeOK
      <3> QED
        BY <1>1, <2>1, <2>2, <3>1
    <2>4. CASE u # t
      <3>1. KeyOf(u) # KeyOf(t)
        BY <2>4, TwoThreads
      <3>2. flag' = [flag EXCEPT ![KeyOf(u)] = FALSE] /\ loc' = [loc EXCEPT ![u] = "nap"]
        BY <1>6 DEF Return, Turn
      <3>3. flag'[KeyOf(t)] = flag[KeyOf(t)] /\ loc'[t] = loc[t]
        BY <1>a, <1>c, <2>4, <3>1, <3>2 DEF Lab8TypeOK
      <3> QED
        BY <1>1, <2>1, <2>2, <3>3
    <2> QED
      BY <2>3, <2>4
  <1>7. ASSUME NEW u \in Threads, CallLibrary(u) PROVE Answered(t)'
    <2>1. CallsBegun(t)' = IF t = u THEN CallsBegun(t) + 1 ELSE CallsBegun(t)
      BY <1>a, <1>7, CallCounted
    <2>2. UNCHANGED <<pending, flag, pressed>> /\ OnItsWay(t)' = OnItsWay(t)
      BY <1>7 DEF CallLibrary, OnItsWay
    <2>3. CASE t = u
      <3>1. Owed(t) = 1
        BY <1>7, <2>3 DEF CallLibrary, Turn, Owed, One, Calling
      <3>2. Owed(t)' = 0
        <4>1. loc'[t] = "call"
          BY <1>a, <1>7, <2>3 DEF CallLibrary, Turn, Lab8TypeOK
        <4> QED
          BY <4>1 DEF Owed, One, Calling
      <3> QED
        BY <1>c, <1>d, <2>1, <2>2, <2>3, <3>1, <3>2 DEF Answered
    <2>4. CASE t # u
      <3>1. loc'[t] = loc[t]
        BY <1>a, <1>7, <2>4 DEF CallLibrary, Turn, Lab8TypeOK
      <3> QED
        BY <1>1, <2>1, <2>2, <2>4, <3>1
    <2> QED
      BY <2>3, <2>4
  <1>8. ASSUME NEW u \in Threads, Library(u) PROVE Answered(t)'
    <2>1. CallsBegun(t)' = CallsBegun(t)
      BY <1>a, <1>8, CallsGoOn
    <2>2. UNCHANGED <<pending, flag, pressed, loc>>
      BY <1>8 DEF Library, lab8Vars
    <2> QED
      BY <1>1, <2>1, <2>2
  <1>9. ASSUME NEW u \in Threads, Oops(u) PROVE Answered(t)'
    <2>1. CallsBegun(t)' = CallsBegun(t)
      BY <1>9, OutsideLeavesLibrary, CallsUnchanged DEF Outside
    <2>2. UNCHANGED <<pending, flag, pressed>> /\ (loc'[t] \notin Calling => loc[t] \notin Calling)
      BY <1>a, <1>9 DEF Oops, Turn, Calling, Lab8TypeOK
    <2> QED
      BY <1>1, <2>1, <2>2
  <1> QED
    BY <1>2, <1>3, <1>4, <1>5, <1>6, <1>7, <1>8, <1>9 DEF Lab8Next, ThreadStep

-----------------------------------------------------------------------------
(* The producer alone stores, and what it stores is val.                   *)
LEMMA SequenceStep ==
  ASSUME Lab8Inv, Lab8Next PROVE InsertedInSequence'
  <1>a. Lab8TypeOK /\ SbufTypeOK /\ Sides /\ NotYetStarted /\ InsertedInSequence
    BY DEF Lab8Inv, Lab8TypeOK
  <1>b. /\ producer \in Threads /\ sbufs \in Bufs /\ Stored(sbufs) \in Nat
        /\ Stored(sbufs) = Len(inserted[sbufs]) /\ inserted[sbufs] \in Seq(Values)
    BY <1>a, TwoThreads, Lengths DEF SbufTypeOK, Stored
  <1> USE DEF kbd
  <1>1. ASSUME UNCHANGED <<inserted, val>>, pc'[producer] = pc[producer],
               item'[producer] = item[producer],
               (loc'[producer] = "call") <=> (loc[producer] = "call")
        PROVE  InsertedInSequence'
    BY <1>a, <1>1 DEF InsertedInSequence, Stored
  <1>2. CASE InitBuffer \/ RequestIrq \/ Exit
    <2>1. UNCHANGED <<sbufVars, loc, val>>
      BY <1>a, <1>2, ExitEffect DEF InitBuffer, RequestIrq
    <2> QED
      BY <1>1, <2>1 DEF sbufVars, hist, args
  <1>3. CASE StartProducer \/ StartConsumer
    <2>1. UNCHANGED <<sbufVars, val>>
      BY <1>3 DEF StartProducer, StartConsumer, Start
    <2>2. (loc'[producer] = "call") <=> (loc[producer] = "call")
      BY <1>a, <1>3, TwoThreads DEF StartProducer, StartConsumer, Start, At8, NotYetStarted,
         Lab8TypeOK
    <2> QED
      BY <1>1, <2>1, <2>2 DEF sbufVars, hist, args
  <1>4. CASE \E k \in Keys : Interrupt(k) \/ SetFlag(k)
    <2>1. UNCHANGED <<sbufVars, loc, val>>
      BY <1>4 DEF Interrupt, Schedule, SetFlag
    <2> QED
      BY <1>1, <2>1 DEF sbufVars, hist, args
  <1>5. ASSUME NEW t \in Threads, Wander(t) PROVE InsertedInSequence'
    <2>1. UNCHANGED <<sbufVars, val>>
      BY <1>5 DEF Wander
    <2>2. (loc'[producer] = "call") <=> (loc[producer] = "call")
      BY <1>a, <1>b, <1>5 DEF Wander, Looping, Lab8TypeOK
    <2> QED
      BY <1>1, <2>1, <2>2 DEF sbufVars, hist, args
  <1>6. ASSUME NEW t \in Threads, Return(t) PROVE InsertedInSequence'
    <2>1. UNCHANGED <<inserted, pc, item>>
      BY <1>6 DEF Return, sbufVars, hist, args
    <2>2. CASE t = producer
      <3>1. /\ pc[producer] = "idle" /\ val' = Inc(val)
            /\ loc[producer] = "call" /\ loc'[producer] = "nap"
        BY <1>a, <1>b, <1>6, <2>2 DEF Return, Turn, Lab8TypeOK
      <3> QED
        BY <1>a, <2>1, <3>1 DEF InsertedInSequence, Stored, Unstored, Reserved
    <2>3. CASE t # producer
      <3>1. val' = val /\ loc'[producer] = loc[producer]
        BY <1>a, <1>b, <1>6, <2>3 DEF Return, Turn, Lab8TypeOK
      <3> QED
        BY <1>1, <2>1, <3>1
    <2> QED
      BY <2>2, <2>3
  <1>7. ASSUME NEW t \in Threads, CallLibrary(t) PROVE InsertedInSequence'
    <2>1. UNCHANGED <<inserted, val>>
      BY <1>7 DEF CallLibrary, CallInsert, CallRemove, hist
    <2>2. CASE t = producer
      <3>1. /\ pc[producer] = "idle" /\ pc'[producer] = "ins_wait" /\ item'[producer] = val
            /\ loc[producer] = "test" /\ loc'[producer] = "call"
        BY <1>a, <1>b, <1>7, <2>2 DEF CallLibrary, CallInsert, Go, Turn, Lab8TypeOK, SbufTypeOK
      <3> QED
        BY <1>a, <2>1, <3>1 DEF InsertedInSequence, Stored, Unstored, Reserved
    <2>3. CASE t # producer
      <3>1. /\ pc'[producer] = pc[producer] /\ item' = item /\ loc'[producer] = loc[producer]
        BY <1>a, <1>b, <1>7, <2>3 DEF CallLibrary, CallRemove, Go, Turn, Lab8TypeOK, SbufTypeOK
      <3> QED
        BY <1>1, <2>1, <3>1
    <2> QED
      BY <2>2, <2>3
  <1>8. ASSUME NEW t \in Threads, Library(t) PROVE InsertedInSequence'
    <2>1. UNCHANGED <<loc, val>>
      BY <1>8 DEF Library, lab8Vars
    <2>2. CASE Store(t)
      <3>1. t = producer /\ on[t] = sbufs /\ pc[t] = "ins_store" /\ pc'[t] = "ins_unlock"
        BY <1>a, <2>2, TwoThreads DEF Store, Go, SbufTypeOK, Sides, Claimed, Unreturned
      <3>2. inserted' = [inserted EXCEPT ![sbufs] = Append(@, val)] /\ loc[producer] = "call"
        BY <1>a, <1>b, <1>8, <2>2, <3>1 DEF Library, Store, InsertedInSequence, Unstored, Reserved
      <3>3. val \in Values
        BY <1>a, Lab8Assumption DEF Lab8TypeOK, Values
      <3> DEFINE s == inserted[sbufs]
                 n == Len(s)
      <3>4. inserted'[sbufs] = Append(s, val)
        BY <1>a, <1>b, <3>2 DEF SbufTypeOK
      <3>5. /\ n \in Nat /\ Len(Append(s, val)) = n + 1 /\ Append(s, val)[n + 1] = val
            /\ \A k \in 1 .. n : Append(s, val)[k] = s[k]
        BY <1>b, <3>3
      <3>6. /\ \A k \in 1 .. n - 1 : s[k + 1] = Inc(s[k])
            /\ n > 0 => val = Inc(s[n])
        BY <1>a, <1>b, <3>1, <3>2 DEF InsertedInSequence, Stored, Unstored, Reserved
      <3> HIDE DEF s, n
      <3>7. \A k \in 1 .. n : Append(s, val)[k + 1] = Inc(Append(s, val)[k])
        <4>1. ASSUME NEW k \in 1 .. n PROVE Append(s, val)[k + 1] = Inc(Append(s, val)[k])
          <5>1. CASE k = n
            BY <3>5, <3>6, <5>1
          <5>2. CASE k # n
            BY <3>5, <3>6, <5>2
          <5> QED
            BY <5>1, <5>2
        <4> QED
          BY <4>1
      <3>8. Stored(sbufs)' = n + 1
        BY <3>4, <3>5 DEF Stored
      <3>9. \A k \in 1 .. Stored(sbufs)' - 1 : inserted'[sbufs][k + 1] = Inc(inserted'[sbufs][k])
        BY <3>4, <3>5, <3>7, <3>8
      <3>10. val' = inserted'[sbufs][Stored(sbufs)']
        BY <2>1, <3>4, <3>5, <3>8
      <3>11. /\ pc'[producer] \notin Unstored /\ loc'[producer] = "call"
        BY <2>1, <3>1, <3>2 DEF Unstored, Reserved
      <3> QED
        BY <3>9, <3>10, <3>11 DEF InsertedInSequence
    <2>3. CASE ~Store(t) /\ t = producer
      <3>1. inserted' = inserted
        BY <1>8, <2>3 DEF Library, Step, DownSlots, DownItems, TryEmpty, Lock, BumpRear,
           BumpFront, Load, Unlock, UpItems, UpSlots, hist
      <3>2. pc'[t] \in Unstored <=> pc[t] \in Unstored
        BY <1>a, <1>8, <2>3 DEF Library, Step, DownSlots, DownItems, TryEmpty, Lock, BumpRear,
           BumpFront, Load, Unlock, UpItems, UpSlots, Go, Unstored, Reserved, SbufTypeOK
      <3>3. pc[t] \in Unstored => item' = item
        BY <1>a, <1>8, <2>3 DEF Library, Step, DownSlots, DownItems, TryEmpty, Lock, BumpRear,
           BumpFront, Load, Unlock, UpItems, UpSlots, Go, args, Unstored, Reserved
      <3> QED
        BY <1>a, <2>1, <2>3, <3>1, <3>2, <3>3 DEF InsertedInSequence, Stored
    <2>4. CASE ~Store(t) /\ t # producer
      <3>1. inserted' = inserted
        BY <1>8, <2>4 DEF Library, Step, DownSlots, DownItems, TryEmpty, Lock, BumpRear,
           BumpFront, Load, Unlock, UpItems, UpSlots, hist
      <3>2. pc'[producer] = pc[producer] /\ item'[producer] = item[producer]
        BY <1>a, <1>b, <1>8, <2>4 DEF Library, Step, DownSlots, DownItems, TryEmpty, Lock, BumpRear,
           BumpFront, Load, Unlock, UpItems, UpSlots, Go, args, SbufTypeOK
      <3> QED
        BY <1>1, <2>1, <3>1, <3>2
    <2> QED
      BY <2>2, <2>3, <2>4
  <1>9. ASSUME NEW t \in Threads, Oops(t) PROVE InsertedInSequence'
    <2>1. UNCHANGED <<inserted, val, pc, item>>
      BY <1>9 DEF Oops, sbufVars, hist, args
    <2>2. CASE t = producer
      <3>1. pc[producer] \in Unstored
        BY <1>a, <1>9, <2>2 DEF Oops, AtNoArray, Sides, Unstored, Reserved, Unannounced
      <3> QED
        BY <1>a, <2>1, <3>1 DEF InsertedInSequence, Stored
    <2>3. CASE t # producer
      <3>1. loc'[producer] = loc[producer]
        BY <1>a, <1>b, <1>9, <2>3 DEF Oops, Turn, Lab8TypeOK
      <3> QED
        BY <1>1, <2>1, <3>1
    <2> QED
      BY <2>2, <2>3
  <1> QED
    BY <1>2, <1>3, <1>4, <1>5, <1>6, <1>7, <1>8, <1>9 DEF Lab8Next, ThreadStep

-----------------------------------------------------------------------------
(* simple_exit.  exit_flag is never cleared, and a thread that ended stays *)
(* so: once passed, a thread is passed as long as it is not stopped.       *)
LEMMA PassedStays ==
  ASSUME Lab8TypeOK, NotYetStarted, Lab8Next, NEW t \in Threads, Passed(t), stop'[t] = stop[t]
  PROVE  Passed(t)'
  <1> USE DEF kbd
  <1>1. flag["ESC"] => flag'["ESC"]
    <2>1. CASE \E u \in Threads : Return(u)
      <3>1. PICK u \in Threads : flag' = [flag EXCEPT ![KeyOf(u)] = FALSE]
        BY <2>1 DEF Return
      <3> QED
        BY <3>1, TwoThreads DEF Lab8TypeOK, Keys
    <2>2. CASE \E k \in Keys : SetFlag(k)
      BY <2>2 DEF SetFlag, Lab8TypeOK, Keys
    <2>3. CASE \/ InitBuffer \/ RequestIrq \/ StartProducer \/ StartConsumer
               \/ \E k \in Keys : Interrupt(k)
               \/ \E u \in Threads : Wander(u) \/ CallLibrary(u) \/ Library(u) \/ Oops(u)
      BY <2>3 DEF InitBuffer, RequestIrq, StartProducer, StartConsumer, Start, Interrupt,
         Schedule, Wander, CallLibrary, Library, Oops, lab8Vars
    <2>4. CASE Exit
      BY <2>4, ExitEffect
    <2> QED
      BY <2>1, <2>2, <2>3, <2>4 DEF Lab8Next, ThreadStep
  <1>2. Over(t) => Over(t)'
    <2> USE DEF Over
    <2>1. CASE InitBuffer \/ RequestIrq \/ \E k \in Keys : Interrupt(k) \/ SetFlag(k)
      BY <2>1 DEF InitBuffer, RequestIrq, Interrupt, Schedule, SetFlag
    <2>2. CASE StartProducer \/ StartConsumer
      BY <2>2, TwoThreads DEF StartProducer, StartConsumer, Start, At8, NotYetStarted, Lab8TypeOK
    <2>3. CASE Exit
      BY <2>3, ExitEffect
    <2>4. ASSUME NEW u \in Threads, ThreadStep(u), Over(t) PROVE Over(t)'
      BY <2>4 DEF ThreadStep, Wander, Looping, CallLibrary, Library, Oops, Return, Turn,
         lab8Vars, Lab8TypeOK
    <2> QED
      BY <2>1, <2>2, <2>3, <2>4 DEF Lab8Next
  <1> QED
    BY <1>1, <1>2 DEF Passed

LEMMA ExitStep ==
  ASSUME Lab8Inv, Lab8Next PROVE ExitOrder'
  <1>a. Lab8TypeOK /\ NotYetStarted /\ ExitOrder
    BY DEF Lab8Inv
  <1>b. producer \in Threads /\ consumer \in Threads /\ producer # consumer
    BY TwoThreads
  <1>c. stop' = stop => (Passed(producer) => Passed(producer)') /\ (Passed(consumer) => Passed(consumer)')
    BY <1>a, <1>b, PassedStays
  <1> USE DEF kbd
  <1>1. CASE stop' = stop /\ module' = module
    BY <1>a, <1>c, <1>1 DEF ExitOrder
  <1>2. CASE stop' = stop /\ module' \in {"ready", "hooked", "half", "live", "failed",
                                         "check_p", "oops"}
                          /\ module \in {"absent", "ready", "hooked", "half", "live"}
    BY <1>a, <1>c, <1>2 DEF ExitOrder
  <1>3. CASE stop' = stop /\ module' = "oops"
    BY <1>3 DEF ExitOrder
  <1>4. CASE LookAtExitFlag("check_p", "stop_p", "check_c")
    <2>1. stop' = stop /\ flag' = flag
      BY <1>4 DEF LookAtExitFlag
    <2> QED
      BY <1>a, <1>c, <1>4, <2>1 DEF LookAtExitFlag, At8, ExitOrder, Passed
  <1>5. CASE LookAtExitFlag("check_c", "stop_c", "unhook")
    <2>1. stop' = stop /\ flag' = flag
      BY <1>5 DEF LookAtExitFlag
    <2> QED
      BY <1>a, <1>c, <1>5, <2>1 DEF LookAtExitFlag, At8, ExitOrder, Passed
  <1>6. CASE Join(producer, "join_p", "check_c") \/ Join(consumer, "join_c", "unhook")
    <2>1. stop' = stop /\ loc' = loc
      BY <1>6 DEF Join
    <2> QED
      BY <1>a, <1>c, <1>6, <2>1 DEF Join, At8, ExitOrder, Passed, Over
  <1>7. CASE free_irq \/ Free("gone") \/ Free("oops")
    <2>1. stop' = stop
      BY <1>7 DEF free_irq, Free
    <2> QED
      BY <1>a, <1>c, <1>7, <2>1 DEF free_irq, Free, At8, ExitOrder
  <1>8. CASE kthread_stop(producer, "stop_p", "join_p")
    <2>1. module = "stop_p" /\ module' \in {"oops", "join_p"} /\ stop'[consumer] = stop[consumer]
      BY <1>a, <1>b, <1>8 DEF kthread_stop, Lab8TypeOK
    <2> QED
      BY <1>a, <2>1 DEF ExitOrder
  <1>9. CASE kthread_stop(consumer, "stop_c", "join_c")
    <2>1. module = "stop_c" /\ module' \in {"oops", "join_c"} /\ stop'[producer] = stop[producer]
      BY <1>a, <1>b, <1>9 DEF kthread_stop, Lab8TypeOK
    <2>2. Passed(producer)'
      BY <1>a, <1>b, <2>1, PassedStays DEF ExitOrder
    <2> QED
      BY <1>a, <2>1, <2>2 DEF ExitOrder
  <1>10. CASE InitBuffer \/ RequestIrq \/ StartProducer \/ StartConsumer \/ Rmmod
    <2>1. stop' = stop /\ module' \in {"ready", "hooked", "half", "live", "failed",
                                      "check_p", "oops"}
                       /\ module \in {"absent", "ready", "hooked", "half", "live"}
      BY <1>10 DEF InitBuffer, RequestIrq, StartProducer, StartConsumer, Start, Rmmod, At8
    <2> QED
      BY <1>2, <2>1
  <1>11. CASE \E k \in Keys : Interrupt(k) \/ SetFlag(k)
    <2>1. stop' = stop /\ module' \in {module, "oops"}
      BY <1>11 DEF Interrupt, Schedule, SetFlag
    <2> QED
      BY <1>1, <1>3, <2>1
  <1>12. CASE \E t \in Threads : ThreadStep(t)
    <2>1. UNCHANGED <<stop, module>>
      BY <1>12 DEF ThreadStep, Wander, CallLibrary, Library, Oops, Return, lab8Vars
    <2> QED
      BY <1>1, <2>1
  <1> QED
    BY <1>4, <1>5, <1>6, <1>7, <1>8, <1>9, <1>10, <1>11, <1>12 DEF Lab8Next, Exit, Leave, Stop

-----------------------------------------------------------------------------
LEMMA Lab8InvInit == Lab8Init => Lab8Inv
  <1> SUFFICES ASSUME Lab8Init PROVE Lab8Inv
    OBVIOUS
  <1>1. Lab8TypeOK /\ SbufInit
    BY Lab8TypeInit DEF Lab8Init
  <1>2. Stored(sbufs) = 0 /\ Loaded(sbufs) = 0
    BY <1>1, TwoThreads DEF SbufInit, Stored, Loaded
  <1>3. \A t \in Threads : pc[t] = "idle" /\ loc[t] = "unborn" /\ ~stop[t]
    BY <1>1 DEF SbufInit, Lab8Init
  <1>4. CallsAnswerPresses
    <2>1. At(sbufs, Unstored) = {} /\ At(sbufs, {"rem_wait"} \cup Claimed) = {}
      BY <1>3 DEF At, Unstored, Reserved, Claimed
    <2>2. \A t \in Threads : CallsBegun(t) = 0
      BY <1>2, <2>1, FS_EmptySet DEF CallsBegun, Count
    <2>3. \A t \in Threads : Owed(t) = 0 /\ OnItsWay(t) = 0 /\ pressed[KeyOf(t)] = 0
      BY TwoThreads DEF Lab8Init, Owed, OnItsWay, One
    <2> QED
      BY <2>2, <2>3, AnsweredIsAnswered DEF Answered
  <1>5. InsertedInSequence
    BY <1>2, <1>3, TwoThreads DEF InsertedInSequence, Unstored, Reserved
  <1>6. NotYetStarted /\ Sides
    BY <1>3, TwoThreads DEF NotYetStarted, Sides
  <1>7. PressesBounded
    BY Lab8Assumption DEF Lab8Init, PressesBounded
  <1>8. ExitOrder
    BY <1>3, TwoThreads DEF Lab8Init, ExitOrder
  <1> QED
    BY <1>1, <1>4, <1>5, <1>6, <1>7, <1>8 DEF Lab8Inv

LEMMA Lab8InvStep == Lab8Inv /\ [Lab8Next]_Lab8AllVars => Lab8Inv'
  <1> SUFFICES ASSUME Lab8Inv, [Lab8Next]_Lab8AllVars PROVE Lab8Inv'
    OBVIOUS
  <1>1. CASE Lab8Next
    BY <1>1, Lab8TypeStep, StartedStep, SidesStep, PressesStep, SequenceStep, ExitStep DEF Lab8Inv
  <1>2. CASE UNCHANGED Lab8AllVars
    <2>1. UNCHANGED sbufVars /\ UNCHANGED lab8Vars
      BY <1>2 DEF Lab8AllVars
    <2> USE <2>1 DEF lab8Vars, kbd
    <2>2. SbufTypeOK'
      BY TypeStep DEF Lab8Inv, Lab8TypeOK
    <2>3. Lab8TypeOK'
      BY <2>2 DEF Lab8Inv, Lab8TypeOK, sbufVars
    <2>4. NotYetStarted' /\ Sides' /\ PressesBounded' /\ InsertedInSequence'
      BY DEF Lab8Inv, NotYetStarted, Sides, PressesBounded, InsertedInSequence, sbufVars, hist,
         args, Stored
    <2>5. CallsAnswerPresses'
      BY CallsUnchanged DEF Lab8Inv, CallsAnswerPresses
    <2>6. ExitOrder'
      BY DEF Lab8Inv, ExitOrder, Passed, Over
    <2> QED
      BY <2>3, <2>4, <2>5, <2>6 DEF Lab8Inv
  <1> QED
    BY <1>1, <1>2

LEMMA Lab8Invariance == Lab8Spec => []Lab8Inv
  BY Lab8InvInit, Lab8InvStep, PTL DEF Lab8Spec

LEMMA Lab8Refines == Lab8Spec => SbufSpec
  <1>1. Lab8Init => SbufInit
    BY DEF Lab8Init
  <1>2. Lab8Inv /\ [Lab8Next]_Lab8AllVars => [SbufNext]_sbufVars
    <2>1. ASSUME Lab8Inv, Lab8Next PROVE [SbufNext]_sbufVars
      BY <2>1, Lab8ImplementsStep
    <2>2. ASSUME UNCHANGED Lab8AllVars PROVE [SbufNext]_sbufVars
      BY <2>2 DEF Lab8AllVars
    <2> QED
      BY <2>1, <2>2
  <1> QED
    BY <1>1, <1>2, Lab8Invariance, PTL DEF Lab8Spec, SbufSpec

-----------------------------------------------------------------------------
(* The two programs.  An instance brings its own copy of Lab8 and of Sbuf; *)
(* the copies are the originals, as soon as they are expanded.             *)
LEMMA Quiz2Init == Quiz2!Init => Lab8Init
  BY DEF Quiz2!Init, Lab8Init, SbufInit, InitialMutex, InitialSlots, Cells, Keys,
       Quiz2!Lab8Init, Quiz2!SbufInit, Quiz2!InitialMutex,
       Quiz2!InitialSlots, Quiz2!Cells, Quiz2!Keys

LEMMA Quiz2Library ==
  \A t : Quiz2!Library(t) => Library(t)
  <1>1. \A t : Quiz2!Step(t) => Step(t)
    BY DEF Step, DownSlots, DownItems, TryEmpty, Lock, BumpRear, Store,
       BumpFront, Load, Unlock, UpItems, UpSlots, Go, Down, Up, Inc, Cell,
       Cells, LoadedValues, EmptyMark, data, sems, args, hist, Quiz2!Step,
       Quiz2!DownSlots, Quiz2!DownItems, Quiz2!TryEmpty, Quiz2!Lock,
       Quiz2!BumpRear, Quiz2!Store, Quiz2!BumpFront, Quiz2!Load,
       Quiz2!Unlock, Quiz2!UpItems, Quiz2!UpSlots, Quiz2!Go, Quiz2!Down,
       Quiz2!Up, Quiz2!Inc, Quiz2!Cell, Quiz2!Cells, Quiz2!LoadedValues,
       Quiz2!EmptyMark, Quiz2!data, Quiz2!sems, Quiz2!args, Quiz2!hist
  <1> QED
    BY <1>1 DEF Library, AtNoArray, Mapped, sbufVars, lab8Vars, kbd, data, sems, args,
       hist, Quiz2!Library, Quiz2!AtNoArray, Quiz2!Mapped, Quiz2!sbufVars, Quiz2!lab8Vars,
       Quiz2!kbd, Quiz2!data, Quiz2!sems, Quiz2!args, Quiz2!hist

LEMMA Quiz2Module ==
  /\ Quiz2!InitBuffer => InitBuffer
  /\ Quiz2!RequestIrq => RequestIrq
  /\ Quiz2!StartProducer => StartProducer
  /\ Quiz2!StartConsumer => StartConsumer
  /\ Quiz2!Rmmod => Rmmod
  /\ Quiz2!Leave => Leave
  /\ Quiz2!Stop => Stop
  /\ \A to : Quiz2!Free(to) => Free(to)
  BY DEF InitBuffer, RequestIrq, StartProducer, StartConsumer, Start, Rmmod, Leave,
       LookAtExitFlag, Join, free_irq, Free, Stop, kthread_stop, At8, Over,
       Quiz2!InitBuffer, Quiz2!Over,
       sbufVars, lab8Vars, kbd, data, sems, args, hist, Quiz2!RequestIrq,
       Quiz2!StartProducer, Quiz2!StartConsumer, Quiz2!Start, Quiz2!Rmmod,
       Quiz2!Leave, Quiz2!LookAtExitFlag, Quiz2!Join, Quiz2!free_irq,
       Quiz2!Free, Quiz2!Stop, Quiz2!kthread_stop, Quiz2!At8,
       Quiz2!sbufVars, Quiz2!lab8Vars, Quiz2!kbd, Quiz2!data, Quiz2!sems,
       Quiz2!args, Quiz2!hist

LEMMA Quiz2Keys ==
  \A k \in Quiz2!Keys :
    /\ k \in Keys
    /\ Quiz2!irq_handler(k) => Interrupt(k)
    /\ Quiz2!SetFlag(k) => SetFlag(k)
  BY DEF Quiz2!irq_handler, Interrupt, Keys, Schedule, SetFlag, Mapped, sbufVars, lab8Vars, kbd, data, sems,
       args, hist, Quiz2!Keys, Quiz2!Schedule, Quiz2!SetFlag, Quiz2!Mapped,
       Quiz2!sbufVars, Quiz2!lab8Vars, Quiz2!kbd, Quiz2!data, Quiz2!sems,
       Quiz2!args, Quiz2!hist

LEMMA Quiz2Thread ==
  ASSUME Lab8TypeOK, NEW t \in Threads, Quiz2!Thread(t) PROVE ThreadStep(t)
  <1> USE DEF sbufVars, lab8Vars, kbd, data, sems, args, hist, Quiz2!sbufVars,
       Quiz2!lab8Vars, Quiz2!kbd, Quiz2!data, Quiz2!sems, Quiz2!args,
       Quiz2!hist
  <1>1. CASE Quiz2!TestFlag(t)
    <2>1. CASE flag[KeyOf(t)]
      <3>1. CallLibrary(t)
        BY <1>1, <2>1 DEF CallLibrary, TestFlag, KeyOf, Mapped, Turn, CallInsert, CallRemove, Go,
           Quiz2!TestFlag, Quiz2!KeyOf, Quiz2!Mapped, Quiz2!Turn,
           Quiz2!CallInsert, Quiz2!CallRemove, Quiz2!Go
      <3> QED
        BY <3>1 DEF ThreadStep
    <2>2. CASE ~flag[KeyOf(t)]
      <3>1. Wander(t)
        BY <1>1, <2>2 DEF Wander, Looping, TestFlag, KeyOf, Mapped, Turn, Quiz2!TestFlag, Quiz2!KeyOf,
           Quiz2!Mapped, Quiz2!Turn
      <3> QED
        BY <3>1 DEF ThreadStep
    <2> QED
      BY <2>1, <2>2
  <1>2. CASE Quiz2!Library(t)
    BY <1>2, Quiz2Library DEF ThreadStep
  <1>3. CASE Quiz2!Return(t)
    BY <1>3 DEF ThreadStep, Return, KeyOf, Mapped, Turn, Inc, Quiz2!Return, Quiz2!KeyOf,
       Quiz2!Mapped, Quiz2!Turn, Quiz2!Inc
  <1>4. CASE Quiz2!Oops(t)
    BY <1>4 DEF ThreadStep, Oops, AtNoArray, Mapped, Turn, Quiz2!Oops, Quiz2!AtNoArray,
       Quiz2!Mapped, Quiz2!Turn
  <1>5. CASE Quiz2!CheckStop(t, "test") \/ Quiz2!CheckExit(t)
    <2>1. Wander(t)
      BY <1>5 DEF Wander, Looping, Quiz2!CheckStop, Quiz2!CheckExit, Mapped, Turn, Quiz2!Mapped,
         Quiz2!Turn
    <2> QED
      BY <2>1 DEF ThreadStep
  <1> QED
    BY <1>1, <1>2, <1>3, <1>4, <1>5 DEF Quiz2!Thread, Quiz2!Body

LEMMA Quiz2Step ==
  ASSUME Lab8TypeOK, [Quiz2!Next]_(Quiz2!vars) PROVE [Lab8Next]_Lab8AllVars
  <1>1. CASE Quiz2!Next
    BY <1>1, Quiz2Module, Quiz2Keys, Quiz2Thread
       DEF Quiz2!Next, Quiz2!simple_init, Quiz2!simple_exit, Lab8Next, Exit
  <1>2. CASE UNCHANGED Quiz2!vars
    BY <1>2 DEF Quiz2!vars, Lab8AllVars, sbufVars, lab8Vars, kbd, data, sems, args, hist, Quiz2!sbufVars,
       Quiz2!lab8Vars, Quiz2!kbd, Quiz2!data, Quiz2!sems, Quiz2!args,
       Quiz2!hist
  <1> QED
    BY <1>1, <1>2

LEMMA Quiz2Refines == Quiz2!Spec => Lab8Spec
  <1>1. Lab8Inv => Lab8TypeOK
    BY DEF Lab8Inv
  <1> QED
    BY <1>1, Lab8InvInit, Lab8InvStep, Quiz2Init, Quiz2Step, PTL DEF Quiz2!Spec, Lab8Spec

LEMMA Quiz3Init == Quiz3!Init => Lab8Init
  BY DEF Quiz3!Init, Lab8Init, SbufInit, InitialMutex, InitialSlots, Cells, Keys,
       Quiz3!Lab8Init, Quiz3!SbufInit, Quiz3!InitialMutex,
       Quiz3!InitialSlots, Quiz3!Cells, Quiz3!Keys

LEMMA Quiz3Library ==
  \A t : Quiz3!Library(t) => Library(t)
  <1>1. \A t : Quiz3!Step(t) => Step(t)
    BY DEF Step, DownSlots, DownItems, TryEmpty, Lock, BumpRear, Store,
       BumpFront, Load, Unlock, UpItems, UpSlots, Go, Down, Up, Inc, Cell,
       Cells, LoadedValues, EmptyMark, data, sems, args, hist, Quiz3!Step,
       Quiz3!DownSlots, Quiz3!DownItems, Quiz3!TryEmpty, Quiz3!Lock,
       Quiz3!BumpRear, Quiz3!Store, Quiz3!BumpFront, Quiz3!Load,
       Quiz3!Unlock, Quiz3!UpItems, Quiz3!UpSlots, Quiz3!Go, Quiz3!Down,
       Quiz3!Up, Quiz3!Inc, Quiz3!Cell, Quiz3!Cells, Quiz3!LoadedValues,
       Quiz3!EmptyMark, Quiz3!data, Quiz3!sems, Quiz3!args, Quiz3!hist
  <1> QED
    BY <1>1 DEF Library, AtNoArray, Mapped, sbufVars, lab8Vars, kbd, data, sems, args,
       hist, Quiz3!Library, Quiz3!AtNoArray, Quiz3!Mapped, Quiz3!sbufVars, Quiz3!lab8Vars,
       Quiz3!kbd, Quiz3!data, Quiz3!sems, Quiz3!args, Quiz3!hist

LEMMA Quiz3Module ==
  /\ Quiz3!InitBuffer => InitBuffer
  /\ Quiz3!RequestIrq => RequestIrq
  /\ Quiz3!StartProducer => StartProducer
  /\ Quiz3!StartConsumer => StartConsumer
  /\ Quiz3!Rmmod => Rmmod
  /\ Quiz3!Leave => Leave
  /\ Quiz3!Stop => Stop
  /\ \A to : Quiz3!Free(to) => Free(to)
  BY DEF InitBuffer, RequestIrq, StartProducer, StartConsumer, Start, Rmmod, Leave,
       LookAtExitFlag, Join, free_irq, Free, Stop, kthread_stop, At8, Over,
       Quiz3!InitBuffer, Quiz3!Over,
       sbufVars, lab8Vars, kbd, data, sems, args, hist, Quiz3!RequestIrq,
       Quiz3!StartProducer, Quiz3!StartConsumer, Quiz3!Start, Quiz3!Rmmod,
       Quiz3!Leave, Quiz3!LookAtExitFlag, Quiz3!Join, Quiz3!free_irq,
       Quiz3!Free, Quiz3!Stop, Quiz3!kthread_stop, Quiz3!At8,
       Quiz3!sbufVars, Quiz3!lab8Vars, Quiz3!kbd, Quiz3!data, Quiz3!sems,
       Quiz3!args, Quiz3!hist

LEMMA Quiz3Keys ==
  \A k \in Quiz3!Keys :
    /\ k \in Keys
    /\ Quiz3!irq_handler(k) => Interrupt(k)
    /\ Quiz3!do_work(k) => SetFlag(k)
  BY DEF Quiz3!irq_handler, Quiz3!do_work, Quiz3!wake_up, Quiz3!Over, Over, Interrupt, Keys, Schedule, SetFlag, Mapped, sbufVars, lab8Vars, kbd, data, sems,
       args, hist, Quiz3!Keys, Quiz3!Schedule, Quiz3!SetFlag, Quiz3!Mapped,
       Quiz3!sbufVars, Quiz3!lab8Vars, Quiz3!kbd, Quiz3!data, Quiz3!sems,
       Quiz3!args, Quiz3!hist

LEMMA Quiz3Thread ==
  ASSUME Lab8TypeOK, NEW t \in Threads, Quiz3!Thread(t) PROVE ThreadStep(t)
  <1> USE DEF sbufVars, lab8Vars, kbd, data, sems, args, hist, Quiz3!sbufVars,
       Quiz3!lab8Vars, Quiz3!kbd, Quiz3!data, Quiz3!sems, Quiz3!args,
       Quiz3!hist
  <1>1. CASE Quiz3!TestFlag(t)
    <2>1. CASE flag[KeyOf(t)]
      <3>1. CallLibrary(t)
        BY <1>1, <2>1 DEF CallLibrary, TestFlag, KeyOf, Mapped, Turn, CallInsert, CallRemove, Go,
           Quiz3!TestFlag, Quiz3!KeyOf, Quiz3!Mapped, Quiz3!Turn,
           Quiz3!CallInsert, Quiz3!CallRemove, Quiz3!Go
      <3> QED
        BY <3>1 DEF ThreadStep
    <2>2. CASE ~flag[KeyOf(t)]
      <3>1. Wander(t)
        BY <1>1, <2>2 DEF Wander, Looping, TestFlag, KeyOf, Mapped, Turn, Quiz3!TestFlag, Quiz3!KeyOf,
           Quiz3!Mapped, Quiz3!Turn
      <3> QED
        BY <3>1 DEF ThreadStep
    <2> QED
      BY <2>1, <2>2
  <1>2. CASE Quiz3!Library(t)
    BY <1>2, Quiz3Library DEF ThreadStep
  <1>3. CASE Quiz3!Return(t)
    BY <1>3 DEF ThreadStep, Return, KeyOf, Mapped, Turn, Inc, Quiz3!Return, Quiz3!KeyOf,
       Quiz3!Mapped, Quiz3!Turn, Quiz3!Inc
  <1>4. CASE Quiz3!Oops(t)
    BY <1>4 DEF ThreadStep, Oops, AtNoArray, Mapped, Turn, Quiz3!Oops, Quiz3!AtNoArray,
       Quiz3!Mapped, Quiz3!Turn
  <1>5. CASE \/ Quiz3!CheckStop(t, "lie") \/ Quiz3!CheckExit(t)
             \/ Quiz3!LieAndCheck(t) \/ Quiz3!Scheduled(t)
    <2>1. Wander(t)
      BY <1>5 DEF Wander, Looping, Quiz3!CheckStop, Quiz3!CheckExit, Quiz3!LieAndCheck,
         Quiz3!Scheduled, Mapped, Turn, Quiz3!Mapped, Quiz3!Turn
    <2> QED
      BY <2>1 DEF ThreadStep
  <1> QED
    BY <1>1, <1>2, <1>3, <1>4, <1>5 DEF Quiz3!Thread, Quiz3!Body

LEMMA Quiz3Step ==
  ASSUME Lab8TypeOK, [Quiz3!Next]_(Quiz3!vars) PROVE [Lab8Next]_Lab8AllVars
  <1>1. CASE Quiz3!Next
    BY <1>1, Quiz3Module, Quiz3Keys, Quiz3Thread
       DEF Quiz3!Next, Quiz3!simple_init, Quiz3!simple_exit, Lab8Next, Exit
  <1>2. CASE UNCHANGED Quiz3!vars
    BY <1>2 DEF Quiz3!vars, Lab8AllVars, sbufVars, lab8Vars, kbd, data, sems, args, hist, Quiz3!sbufVars,
       Quiz3!lab8Vars, Quiz3!kbd, Quiz3!data, Quiz3!sems, Quiz3!args,
       Quiz3!hist
  <1> QED
    BY <1>1, <1>2

LEMMA Quiz3Refines == Quiz3!Spec => Lab8Spec
  <1>1. Lab8Inv => Lab8TypeOK
    BY DEF Lab8Inv
  <1> QED
    BY <1>1, Lab8InvInit, Lab8InvStep, Quiz3Init, Quiz3Step, PTL DEF Quiz3!Spec, Lab8Spec

-----------------------------------------------------------------------------
(***************************************************************************)
(* The theorems, for both programs.                                        *)
(***************************************************************************)

(* What a keyboard interrupt, the deferred work, the two threads and       *)
(* simple_exit do between them uses sbuf.c as any caller may: all that is  *)
(* proved of the library holds in lab8.                                    *)
THEOREM ProgramsUseTheLibrary == (Quiz2!Spec => SbufSpec) /\ (Quiz3!Spec => SbufSpec)
  BY Quiz2Refines, Quiz3Refines, Lab8Refines

(* Flags, locals and places keep their types, and a thread is inside the   *)
(* library only where its loop calls it.                                   *)
THEOREM Lab8TypeCorrect ==
  (Quiz2!Spec => []Lab8TypeOK) /\ (Quiz3!Spec => []Lab8TypeOK)
  BY Quiz2Refines, Quiz3Refines, Lab8Invariance, PTL DEF Lab8Inv

(* One press, one call at most: the handler and the tasklet or work item   *)
(* never make two insertions or removals of one press of a key.            *)
THEOREM PressesAreNeverDoubled ==
  (Quiz2!Spec => []CallsAnswerPresses) /\ (Quiz3!Spec => []CallsAnswerPresses)
  BY Quiz2Refines, Quiz3Refines, Lab8Invariance, PTL DEF Lab8Inv

(* simple_exit frees the buffer under a running thread only when exit_flag *)
(* made it skip kthread_stop for that thread.                              *)
THEOREM ExitWaitsUnlessEscaped ==
  (Quiz2!Spec => []FreedUnderNobody) /\ (Quiz3!Spec => []FreedUnderNobody)
  <1>1. Lab8Inv => FreedUnderNobody
    <2> SUFFICES ASSUME Lab8Inv, module = "gone", NEW t \in Threads PROVE Passed(t)
      BY DEF FreedUnderNobody, Passed
    <2> QED
      BY TwoThreads DEF Lab8Inv, ExitOrder
  <1> QED
    BY <1>1, Quiz2Refines, Quiz3Refines, Lab8Invariance, PTL

(* Every key pressed on F3 brings the next int: the producer's val++ and   *)
(* the library's order make the removed items consecutive.                 *)
THEOREM ItemsComeInSequence ==
  ASSUME MaxInserts <= IntMax
  PROVE  (Quiz2!Spec => []ConsecutiveItems) /\ (Quiz3!Spec => []ConsecutiveItems)
  <1>1. Lab8Inv /\ FifoOrder => ConsecutiveItems
    <2> SUFFICES ASSUME Lab8Inv, FifoOrder, NEW n \in 1 .. Loaded(sbufs) - 1
                 PROVE  removed[sbufs][n + 1] = Inc(removed[sbufs][n])
      BY DEF ConsecutiveItems
    <2>1. sbufs \in Bufs /\ Stored(sbufs) \in Nat /\ Loaded(sbufs) \in Nat
      BY Lengths, Lab8Assumption DEF Lab8Inv, Lab8TypeOK
    <2>2. Loaded(sbufs) <= Stored(sbufs)
      BY <2>1 DEF FifoOrder
    <2>3. /\ n \in 1 .. Loaded(sbufs) /\ n + 1 \in 1 .. Loaded(sbufs)
          /\ n \in 1 .. Stored(sbufs) - 1
      BY <2>1, <2>2
    <2>4. /\ removed[sbufs][n] = inserted[sbufs][n]
          /\ removed[sbufs][n + 1] = inserted[sbufs][n + 1]
      BY <2>1, <2>3 DEF FifoOrder
    <2> QED
      BY <2>3, <2>4 DEF Lab8Inv, InsertedInSequence
  <1>2. Lab8Spec => []FifoOrder
    BY Lab8Refines, FirstInFirstOut, PTL
  <1> QED
    BY <1>1, <1>2, Quiz2Refines, Quiz3Refines, Lab8Invariance, PTL
=============================================================================
