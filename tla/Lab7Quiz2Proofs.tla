--------------------------- MODULE Lab7Quiz2Proofs ---------------------------
(***************************************************************************)
(* Proofs about lab7_quiz2.c, for any number of items and slots.           *)
(***************************************************************************)
EXTENDS Lab7Quiz2, SbufProofs

LEMMA TwoThreads ==
  /\ producer \in Threads /\ consumer \in Threads /\ producer # consumer /\ sbufs \in Bufs
  /\ \A t \in Threads : t = producer \/ t = consumer
  /\ \A b \in Bufs : b = sbufs
  BY Lab7Quiz2Assumption

(* Steps that do not touch the library.                                    *)
Outside ==
  \/ InitBuffer \/ StartProducer \/ StartConsumer \/ Deinit \/ Free
  \/ \E t \in Threads : Oops(t) \/ CountUp(t) \/ Done(t)

LEMMA OutsideLeavesLibrary == Outside => UNCHANGED sbufVars
  BY DEF Outside, InitBuffer, StartProducer, StartConsumer, Start, Deinit, Free, Oops,
     CountUp, Done

LEMMA Sorted ==
  Next => Outside \/ ProducerInsert \/ ConsumerRemove \/ \E t \in Threads : Library(t)
  BY DEF Next, Outside, Thread

-----------------------------------------------------------------------------
(* What a step inside the library does to the producer ...                 *)
LEMMA InsertionStep ==
  ASSUME SbufTypeOK, Sides, Step(producer)
  PROVE  /\ pc[producer] # "idle" /\ pc' = [pc EXCEPT ![producer] = pc'[producer]]
         /\ pc'[producer] \in {"idle"} \cup Unstored \cup Unannounced
         /\ UNCHANGED <<item, removed>>
         /\ \/ /\ pc[producer] \in Unstored /\ pc'[producer] \notin Unstored
               /\ inserted' = [inserted EXCEPT ![sbufs] = Append(@, item[producer])]
            \/ /\ pc[producer] \in Unstored <=> pc'[producer] \in Unstored
               /\ UNCHANGED inserted
  <1> USE TwoThreads DEF SbufTypeOK, Sides, Go, args, hist, Unstored, Unannounced, Reserved
  <1>1. CASE Store(producer)
    BY <1>1 DEF Store
  <1>2. CASE DownSlots(producer) \/ Lock(producer) \/ BumpRear(producer)
             \/ Unlock(producer) \/ UpItems(producer)
    BY <1>2 DEF DownSlots, Lock, BumpRear, Unlock, UpItems
  <1>3. CASE \/ DownItems(producer) \/ TryEmpty(producer) \/ BumpFront(producer)
             \/ Load(producer) \/ UpSlots(producer)
    BY <1>3 DEF DownItems, TryEmpty, BumpFront, Load, UpSlots
  <1> QED
    BY <1>1, <1>2, <1>3 DEF Step

(* ... and to the consumer.                                                *)
Unloaded == {"rem_wait"} \cup Claimed

LEMMA RemovalStep ==
  ASSUME SbufTypeOK, Sides, Step(consumer)
  PROVE  /\ pc[consumer] # "idle" /\ pc' = [pc EXCEPT ![consumer] = pc'[consumer]]
         /\ pc'[consumer] \in {"idle"} \cup Unloaded \cup Unreturned
         /\ UNCHANGED inserted
         /\ \/ /\ pc[consumer] \in Unloaded /\ pc'[consumer] \notin Unloaded
               /\ item' = [item EXCEPT ![consumer] = item'[consumer]]
               /\ removed' = [removed EXCEPT ![sbufs] = Append(@, item'[consumer])]
            \/ /\ pc[consumer] \in Unloaded <=> pc'[consumer] \in Unloaded
               /\ UNCHANGED <<item, removed>>
  <1> USE TwoThreads DEF SbufTypeOK, Sides, Go, args, hist, Unloaded, Claimed, Unreturned
  <1>1. CASE Load(consumer)
    <2>1. PICK v \in LoadedValues(sbufs, Cell(front[sbufs])) :
            /\ item' = [item EXCEPT ![consumer] = v]
            /\ removed' = [removed EXCEPT ![sbufs] = Append(@, v)]
      BY <1>1 DEF Load
    <2>2. item'[consumer] = v
      BY <2>1
    <2> QED
      BY <1>1, <2>1, <2>2 DEF Load
  <1>2. CASE DownItems(consumer) \/ Lock(consumer) \/ BumpFront(consumer)
             \/ Unlock(consumer) \/ UpSlots(consumer)
    BY <1>2 DEF DownItems, Lock, BumpFront, Unlock, UpSlots
  <1>3. CASE \/ DownSlots(consumer) \/ TryEmpty(consumer) \/ BumpRear(consumer)
             \/ Store(consumer) \/ UpItems(consumer)
    BY <1>3, StageSets DEF DownSlots, TryEmpty, BumpRear, Store, UpItems, Unstored, Reserved,
       Unannounced
  <1> QED
    BY <1>1, <1>2, <1>3 DEF Step

-----------------------------------------------------------------------------
(* A call of the producer finds room in the bound on insertions: it is its *)
(* turn cnt <= ITEMS, and nobody else inserts.                             *)
LEMMA ImplementsStep ==
  ASSUME Lab7Quiz2Inv, [Next]_vars PROVE [SbufNext]_sbufVars
  <1>1. CASE Outside \/ UNCHANGED vars
    BY <1>1, OutsideLeavesLibrary DEF vars
  <1>2. ASSUME NEW t \in Threads, Library(t) PROVE SbufNext
    BY <1>2 DEF Library, SbufNext
  <1>3. CASE ConsumerRemove
    <2>1. SomeCall(consumer, sbufs)
      BY <1>3 DEF ConsumerRemove, SomeCall
    <2> QED
      BY <2>1, TwoThreads DEF SbufNext
  <1>4. CASE ProducerInsert
    <2>1. /\ loc[producer] = "loop" /\ cnt[producer] \in 1 .. ITEMS /\ pc[producer] = "idle"
          /\ CallInsert(producer, sbufs, cnt[producer])
      BY <1>4, TwoThreads DEF ProducerInsert, Lab7Quiz2Inv, TypeOK, CallInsert, Go
    <2>2. Stored(sbufs) = cnt[producer] - 1
      BY <2>1 DEF Lab7Quiz2Inv, TurnsCounted, InTurn
    <2>3. At(sbufs, Unstored) = {}
      BY <2>1, TwoThreads DEF At, Lab7Quiz2Inv, Sides, Unstored, Reserved, Claimed, Unreturned
    <2>4. Count(sbufs, Unstored) = 0
      BY <2>3, FS_EmptySet DEF Count
    <2>5. Stored(sbufs) + Count(sbufs, Unstored) < MaxInserts
      BY <2>1, <2>2, <2>4, Lab7Quiz2Assumption, SbufAssumption
    <2>6. SomeCall(producer, sbufs)
      BY <2>1, <2>5, Lab7Quiz2Assumption DEF SomeCall
    <2> QED
      BY <2>6, TwoThreads DEF SbufNext
  <1> QED
    BY <1>1, <1>2, <1>3, <1>4, Sorted

-----------------------------------------------------------------------------
LEMMA TurnsInit == Init => Lab7Quiz2Inv
  <1> SUFFICES ASSUME Init PROVE Lab7Quiz2Inv
    OBVIOUS
  <1>1. SbufTypeOK /\ Stored(sbufs) = 0 /\ Loaded(sbufs) = 0
    BY TypeInit, TwoThreads DEF Init, SbufInit, Stored, Loaded
  <1>2. pc = [t \in Threads |-> "idle"]
    BY DEF Init, SbufInit
  <1>3. TypeOK
    BY <1>1, <1>2, Lab7Quiz2Assumption DEF Init, TypeOK
  <1>4. NotYetStarted /\ Sides
    BY <1>2, TwoThreads DEF Init, NotYetStarted, Sides
  <1>5. InTurn(producer, Unstored) = 0 /\ InTurn(consumer, {"rem_wait"} \cup Claimed) = 0
    BY TwoThreads DEF Init, InTurn
  <1>6. TurnsCounted /\ ItemsCount /\ LastRemoved
    BY <1>1, <1>2, <1>5, TwoThreads
       DEF Init, TurnsCounted, ItemsCount, LastRemoved, Unstored, Reserved
  <1> QED
    BY <1>3, <1>4, <1>6 DEF Lab7Quiz2Inv

LEMMA TurnTypes ==
  ASSUME Lab7Quiz2Inv, [Next]_vars PROVE TypeOK' /\ NotYetStarted'
  <1>1. SbufTypeOK'
    BY ImplementsStep, TypeStep DEF Lab7Quiz2Inv, TypeOK
  <1>2. TypeOK /\ NotYetStarted /\ SbufTypeOK /\ ITEMS \in Nat
    BY Lab7Quiz2Assumption DEF Lab7Quiz2Inv, TypeOK
  <1>3. pc \in [Threads -> Stages]
    BY <1>2 DEF SbufTypeOK
  <1>4. CASE UNCHANGED vars
    BY <1>1, <1>2, <1>4 DEF vars, sbufVars, TypeOK, NotYetStarted
  <1>5. CASE InitBuffer \/ Deinit \/ Free
    <2>1. UNCHANGED <<pc, loc, cnt, dead>>
      BY <1>5, OutsideLeavesLibrary DEF InitBuffer, Deinit, Free, Outside, sbufVars
    <2> QED
      BY <1>1, <1>2, <1>5, <2>1 DEF TypeOK, NotYetStarted, InitBuffer, Deinit, Free
  <1>6. CASE StartProducer \/ StartConsumer
    <2>1. UNCHANGED <<pc, cnt, dead, array>>
      BY <1>6 DEF StartProducer, StartConsumer, Start, sbufVars
    <2>2. PICK t \in Threads, l \in {"loop", "unborn"} :
            /\ loc' = [loc EXCEPT ![t] = l] /\ loc[t] = "unborn"
            /\ \/ t = producer /\ module = "ready" /\ module' = "half"
               \/ t = consumer /\ module = "half" /\ module' = "live"
      BY <1>2, <1>6, TwoThreads DEF StartProducer, StartConsumer, Start, NotYetStarted
    <2> QED
      BY <1>1, <1>2, <2>1, <2>2, TwoThreads DEF TypeOK, NotYetStarted
  <1>7. ASSUME NEW t \in Threads, Library(t) PROVE TypeOK' /\ NotYetStarted'
    <2>1. /\ UNCHANGED <<module, array, dead, loc, cnt>>
          /\ pc[t] # "idle" /\ pc' = [pc EXCEPT ![t] = pc'[t]]
      BY <1>2, <1>7, TwoThreads, InsertionStep, RemovalStep DEF Library, Lab7Quiz2Inv
    <2> QED
      BY <1>1, <1>2, <1>3, <2>1 DEF TypeOK, NotYetStarted
  <1>8. ASSUME NEW t \in Threads, Oops(t) \/ CountUp(t) \/ Done(t)
        PROVE  TypeOK' /\ NotYetStarted'
    <2>1. pc' = pc
      BY <1>8, OutsideLeavesLibrary DEF Outside, sbufVars
    <2>2. /\ UNCHANGED <<module, array>> /\ dead' \subseteq Threads
          /\ loc[t] # "unborn" /\ \A u \in Threads \ {t} : loc'[u] = loc[u] /\ cnt'[u] = cnt[u]
          /\ loc' \in [Threads -> {"unborn", "loop", "call", "done"}]
      BY <1>2, <1>8 DEF Oops, CountUp, Done, AtNoArray, TypeOK
    <2>3. /\ cnt' \in [Threads -> 1 .. ITEMS + 1]
          /\ pc[t] # "idle" => loc'[t] = "call"
          /\ loc'[t] = "call" => cnt'[t] <= ITEMS
          /\ loc'[t] = "done" => cnt'[t] = ITEMS + 1
      BY <1>2, <1>8 DEF Oops, CountUp, Done, AtNoArray, TypeOK
    <2> QED
      BY <1>1, <1>2, <2>1, <2>2, <2>3, TwoThreads DEF TypeOK, NotYetStarted
  <1>9. CASE ProducerInsert \/ ConsumerRemove
    <2>1. PICK t \in Threads :
            /\ loc[t] = "loop" /\ cnt[t] <= ITEMS /\ loc' = [loc EXCEPT ![t] = "call"]
            /\ \A u \in Threads \ {t} : pc'[u] = pc[u]
            /\ UNCHANGED <<module, array, dead, cnt>>
      BY <1>3, <1>9, TwoThreads
         DEF ProducerInsert, ConsumerRemove, CallInsert, CallRemove, Go
    <2> QED
      BY <1>1, <1>2, <2>1, TwoThreads DEF TypeOK, NotYetStarted
  <1> QED
    BY <1>4, <1>5, <1>6, <1>7, <1>8, <1>9 DEF Next, Thread

-----------------------------------------------------------------------------
(* Where one thread is decides what TurnsCounted, ItemsCount and           *)
(* LastRemoved say of it; this is the whole of it.                         *)
TurnsKept == TurnsCounted /\ ItemsCount /\ LastRemoved

LEMMA TurnsOutside ==
  ASSUME Lab7Quiz2Inv, UNCHANGED sbufVars,
         \A t \in Threads : loc'[t] = loc[t] /\ cnt'[t] = cnt[t]
  PROVE  Sides' /\ TurnsKept'
  BY TwoThreads
     DEF Lab7Quiz2Inv, TurnsKept, Sides, TurnsCounted, ItemsCount, LastRemoved, InTurn, Stored,
         Loaded, sbufVars, args, hist

LEMMA TurnsStep == ASSUME Lab7Quiz2Inv, [Next]_vars PROVE Sides' /\ TurnsKept'
  <1> USE DEF TurnsKept, TurnsCounted, ItemsCount, LastRemoved
  <1>1. /\ TypeOK /\ NotYetStarted /\ Sides /\ TurnsKept /\ SbufTypeOK
        /\ loc \in [Threads -> {"unborn", "loop", "call", "done"}]
        /\ cnt \in [Threads -> 1 .. ITEMS + 1] /\ ITEMS \in Nat
        /\ pc \in [Threads -> Stages] /\ item \in [Threads -> Values]
    BY Lab7Quiz2Assumption DEF Lab7Quiz2Inv, TypeOK, SbufTypeOK
  <1>2. /\ inserted[sbufs] \in Seq(Values) /\ removed[sbufs] \in Seq(Values)
        /\ inserted \in [Bufs -> Seq(Values)] /\ removed \in [Bufs -> Seq(Values)]
        /\ Stored(sbufs) \in Nat /\ Loaded(sbufs) \in Nat
    BY <1>1, TwoThreads, Lengths DEF SbufTypeOK
  <1>3. CASE \/ UNCHANGED vars \/ InitBuffer \/ Deinit \/ Free
             \/ \E t \in Threads : Oops(t)
    BY <1>3, TurnsOutside, OutsideLeavesLibrary
       DEF vars, InitBuffer, Deinit, Free, Oops, Outside
  <1>4. CASE StartProducer \/ StartConsumer \/ \E t \in Threads : CountUp(t) \/ Done(t)
    <2>1. UNCHANGED sbufVars
      BY <1>4, OutsideLeavesLibrary DEF Outside
    <2>2. /\ UNCHANGED <<pc, item, inserted, removed>>
          /\ Stored(sbufs)' = Stored(sbufs) /\ Loaded(sbufs)' = Loaded(sbufs)
      BY <2>1 DEF sbufVars, args, hist, Stored, Loaded
    <2>3. PICK t \in Threads :
            /\ pc[t] = "idle"
            /\ \A u \in Threads \ {t} : loc'[u] = loc[u] /\ cnt'[u] = cnt[u]
            /\ \/ loc[t] # "call" /\ loc'[t] # "call" /\ cnt'[t] = cnt[t]
               \/ loc[t] = "call" /\ loc'[t] = "loop" /\ cnt'[t] = cnt[t] + 1
      <3>1. CASE StartProducer \/ StartConsumer
        BY <1>1, <3>1, TwoThreads
           DEF StartProducer, StartConsumer, Start, NotYetStarted, TypeOK
      <3>2. ASSUME NEW t \in Threads, CountUp(t)
            PROVE  /\ pc[t] = "idle" /\ loc[t] = "call" /\ loc'[t] = "loop"
                   /\ cnt'[t] = cnt[t] + 1
                   /\ \A u \in Threads \ {t} : loc'[u] = loc[u] /\ cnt'[u] = cnt[u]
        BY <1>1, <3>2 DEF CountUp
      <3>3. ASSUME NEW t \in Threads, Done(t)
            PROVE  /\ pc[t] = "idle" /\ loc[t] # "call" /\ loc'[t] # "call"
                   /\ cnt'[t] = cnt[t]
                   /\ \A u \in Threads \ {t} : loc'[u] = loc[u] /\ cnt'[u] = cnt[u]
        BY <1>1, <3>3 DEF Done, TypeOK
      <3> QED
        BY <1>4, <3>1, <3>2, <3>3
    <2>4. /\ cnt'[producer] - 1 + InTurn(producer, Unstored)'
               = cnt[producer] - 1 + InTurn(producer, Unstored)
          /\ pc[producer] # "idle" => cnt'[producer] = cnt[producer]
      BY <1>1, <2>2, <2>3, TwoThreads DEF InTurn, Unstored, Reserved
    <2>5. /\ cnt'[consumer] - 1 + InTurn(consumer, {"rem_wait"} \cup Claimed)'
               = cnt[consumer] - 1 + InTurn(consumer, {"rem_wait"} \cup Claimed)
          /\ InTurn(consumer, {"rem_wait"} \cup Claimed)' = 1
               => InTurn(consumer, {"rem_wait"} \cup Claimed) = 1
      BY <1>1, <2>2, <2>3, TwoThreads DEF InTurn, Claimed
    <2>6. Sides'
      BY <1>1, <2>2 DEF Sides
    <2>7. TurnsCounted'
      BY <1>1, <2>2, <2>4, <2>5
    <2>8. ItemsCount'
      BY <1>1, <2>2, <2>4 DEF Unstored, Reserved
    <2> QED
      BY <1>1, <2>2, <2>5, <2>6, <2>7, <2>8
  <1>5. CASE ProducerInsert \/ ConsumerRemove
    <2>1. /\ UNCHANGED <<cnt, inserted, removed>>
          /\ Stored(sbufs)' = Stored(sbufs) /\ Loaded(sbufs)' = Loaded(sbufs)
      BY <1>5 DEF ProducerInsert, ConsumerRemove, CallInsert, CallRemove, hist, Stored, Loaded
    <2>2. CASE ProducerInsert
      <3>1. /\ pc'[producer] = "ins_wait" /\ item'[producer] = cnt[producer]
            /\ loc[producer] = "loop" /\ loc'[producer] = "call"
            /\ pc'[consumer] = pc[consumer] /\ item'[consumer] = item[consumer]
            /\ loc'[consumer] = loc[consumer]
        BY <1>1, <2>2, TwoThreads DEF ProducerInsert, CallInsert, Go
      <3> QED
        BY <1>1, <2>1, <3>1 DEF InTurn, Sides, Unstored, Reserved
    <2>3. CASE ConsumerRemove
      <3>1. /\ pc'[consumer] = "rem_wait" /\ item' = item
            /\ loc[consumer] = "loop" /\ loc'[consumer] = "call"
            /\ pc'[producer] = pc[producer] /\ loc'[producer] = loc[producer]
        BY <1>1, <2>3, TwoThreads DEF ConsumerRemove, CallRemove, Go
      <3> QED
        BY <1>1, <2>1, <3>1 DEF InTurn, Sides
    <2> QED
      BY <1>5, <2>2, <2>3
  <1>6. CASE Library(producer)
    <2>1. /\ UNCHANGED <<cnt, loc, item, removed>> /\ loc[producer] = "call"
          /\ pc'[consumer] = pc[consumer]
          /\ pc'[producer] \in {"idle"} \cup Unstored \cup Unannounced
      BY <1>1, <1>6, InsertionStep, TwoThreads DEF Library, TypeOK
    <2>2. Loaded(sbufs)' = Loaded(sbufs)
      BY <2>1 DEF Loaded
    <2>3. CASE /\ pc[producer] \in Unstored /\ pc'[producer] \notin Unstored
               /\ inserted' = [inserted EXCEPT ![sbufs] = Append(@, item[producer])]
      <3>1. inserted'[sbufs] = Append(inserted[sbufs], item[producer])
        BY <1>2, <2>3, TwoThreads
      <3>2. Stored(sbufs)' = Stored(sbufs) + 1
        BY <1>1, <1>2, <3>1, TwoThreads DEF Stored
      <3>3. Stored(sbufs) = cnt[producer] - 1 /\ item[producer] = Stored(sbufs) + 1
        BY <1>1, <2>3, TwoThreads DEF InTurn
      <3>4. \A k \in 1 .. Stored(sbufs)' : inserted'[sbufs][k] = k
        <4>1. ASSUME NEW k \in 1 .. Stored(sbufs) PROVE inserted'[sbufs][k] = k
          BY <1>1, <1>2, <3>1, TwoThreads DEF Stored
        <4>2. inserted'[sbufs][Stored(sbufs) + 1] = Stored(sbufs) + 1
          BY <1>1, <1>2, <3>1, <3>3, TwoThreads DEF Stored
        <4> QED
          BY <1>2, <3>2, <4>1, <4>2
      <3> QED
        BY <1>1, <2>1, <2>2, <2>3, <3>2, <3>3, <3>4, TwoThreads DEF InTurn, Sides
    <2>4. CASE (pc[producer] \in Unstored <=> pc'[producer] \in Unstored) /\ UNCHANGED inserted
      <3>1. Stored(sbufs)' = Stored(sbufs)
        BY <2>4 DEF Stored
      <3> QED
        BY <1>1, <2>1, <2>2, <2>4, <3>1 DEF InTurn, Sides
    <2> QED
      BY <1>1, <1>6, <2>3, <2>4, InsertionStep DEF Library
  <1>7. CASE Library(consumer)
    <2> DEFINE B == {"rem_wait"} \cup Claimed
    <2>1. /\ UNCHANGED <<cnt, loc, inserted>> /\ loc[consumer] = "call"
          /\ pc'[producer] = pc[producer]
          /\ pc'[consumer] \in {"idle"} \cup Unloaded \cup Unreturned
      BY <1>1, <1>7, RemovalStep, TwoThreads DEF Library, TypeOK
    <2>2. Stored(sbufs)' = Stored(sbufs) /\ B = Unloaded
      BY <2>1 DEF Stored, Unloaded
    <2>3. Sides'
      BY <1>1, <2>1 DEF Sides, Unloaded
    <2> HIDE DEF B
    <2>4. CASE /\ pc[consumer] \in Unloaded /\ pc'[consumer] \notin Unloaded
               /\ item' = [item EXCEPT ![consumer] = item'[consumer]]
               /\ removed' = [removed EXCEPT ![sbufs] = Append(@, item'[consumer])]
      <3>1. /\ removed'[sbufs] = Append(removed[sbufs], item'[consumer])
            /\ item'[producer] = item[producer]
        BY <1>1, <1>2, <2>4, TwoThreads
      <3>2. /\ Loaded(sbufs)' = Loaded(sbufs) + 1
            /\ removed'[sbufs][Loaded(sbufs) + 1] = item'[consumer]
        BY <1>2, <3>1 DEF Loaded
      <3>3. InTurn(consumer, B) = 0 /\ InTurn(consumer, B)' = 1
        BY <2>1, <2>2, <2>4 DEF InTurn, B
      <3>4. InTurn(producer, Unstored)' = InTurn(producer, Unstored)
        BY <2>1 DEF InTurn
      <3>5. Loaded(sbufs) = cnt[consumer] - 1 + InTurn(consumer, B)
        BY <1>1 DEF B
      <3>6. TurnsCounted'
        BY <1>1, <2>1, <2>2, <3>2, <3>3, <3>4, <3>5, TwoThreads DEF B
      <3> QED
        BY <1>1, <1>2, <2>1, <2>2, <2>3, <3>1, <3>2, <3>6
    <2>5. CASE (pc[consumer] \in Unloaded <=> pc'[consumer] \in Unloaded)
               /\ UNCHANGED <<item, removed>>
      <3>1. Loaded(sbufs)' = Loaded(sbufs)
        BY <2>5 DEF Loaded
      <3>2. /\ InTurn(consumer, B)' = InTurn(consumer, B)
            /\ InTurn(producer, Unstored)' = InTurn(producer, Unstored)
        BY <2>1, <2>2, <2>5 DEF InTurn, B
      <3> QED
        BY <1>1, <2>1, <2>2, <2>3, <2>5, <3>1, <3>2 DEF B
    <2> QED
      BY <1>1, <1>7, <2>4, <2>5, RemovalStep DEF Library
  <1> QED
    BY <1>3, <1>4, <1>5, <1>6, <1>7, TwoThreads DEF Next, Thread

LEMMA TurnsInvariance == Spec => []Lab7Quiz2Inv
  <1>1. Lab7Quiz2Inv /\ [Next]_vars => Lab7Quiz2Inv'
    BY TurnTypes, TurnsStep DEF Lab7Quiz2Inv, TurnsKept
  <1> QED
    BY <1>1, TurnsInit, PTL DEF Spec

-----------------------------------------------------------------------------
(* The module's two threads use sbuf.c as any caller may: all that is      *)
(* proved of the library holds in lab7_quiz2.c.                            *)
THEOREM ModuleUsesTheLibrary == Spec => SbufSpec
  <1>1. Init => SbufInit
    BY DEF Init
  <1> QED
    BY <1>1, ImplementsStep, TurnsInvariance, PTL DEF Spec, SbufSpec

(* The consumer's n-th line says n: what comes out on turn cnt of one loop *)
(* went in on turn cnt of the other.                                       *)
THEOREM ConsumerIsInStep == ASSUME MaxInserts <= IntMax PROVE Spec => []ConsumerCounts
  <1>1. Lab7Quiz2Inv /\ SbufInv => ConsumerCounts
    <2> SUFFICES ASSUME Lab7Quiz2Inv, SbufInv PROVE ConsumerCounts
      OBVIOUS
    <2>1. Stored(sbufs) \in Nat /\ Loaded(sbufs) \in Nat /\ Loaded(sbufs) <= Stored(sbufs)
      BY TwoThreads, Lengths DEF SbufInv, FifoOrder
    <2>2. \A k \in 1 .. Loaded(sbufs) : removed[sbufs][k] = k
      BY <2>1, TwoThreads DEF SbufInv, FifoOrder, Lab7Quiz2Inv, ItemsCount
    <2>3. ASSUME loc[consumer] = "call", pc[consumer] = "idle"
          PROVE  item[consumer] = cnt[consumer]
      <3>1. InTurn(consumer, {"rem_wait"} \cup Claimed) = 1
        BY <2>3 DEF InTurn, Claimed
      <3>2. /\ Loaded(sbufs) = cnt[consumer] /\ Loaded(sbufs) > 0
            /\ item[consumer] = removed[sbufs][Loaded(sbufs)]
        BY <3>1, TwoThreads, Lab7Quiz2Assumption
           DEF Lab7Quiz2Inv, TurnsCounted, LastRemoved, TypeOK
      <3> QED
        BY <2>1, <2>2, <3>2
    <2> QED
      BY <2>2, <2>3 DEF ConsumerCounts
  <1> QED
    BY <1>1, TurnsInvariance, ModuleUsesTheLibrary, Invariance, PTL

(* After both loops no item is lost and no token is missing: the buffer is *)
(* as sbuf_init left it.                                                   *)
THEOREM BufferIsLeftEmpty == ASSUME MaxInserts <= IntMax PROVE Spec => []NothingLeftOver
  <1>1. Lab7Quiz2Inv /\ SbufInv => NothingLeftOver
    <2> SUFFICES ASSUME Lab7Quiz2Inv, SbufInv,
                        loc[producer] = "done", loc[consumer] = "done"
                 PROVE  /\ Stored(sbufs) = ITEMS /\ Loaded(sbufs) = ITEMS
                        /\ mutex[sbufs] = 1 /\ slots[sbufs] = SBUFSIZE /\ items[sbufs] = 0
      BY DEF NothingLeftOver
    <2>1. \A t \in Threads : cnt[t] = ITEMS + 1 /\ pc[t] = "idle"
      BY TwoThreads DEF Lab7Quiz2Inv, TypeOK
    <2>2. Stored(sbufs) = ITEMS /\ Loaded(sbufs) = ITEMS
      BY <2>1, TwoThreads, Lab7Quiz2Assumption DEF Lab7Quiz2Inv, TurnsCounted, InTurn
    <2>3. \A S : "idle" \notin S => Count(sbufs, S) = 0
      <3>1. \A S : "idle" \notin S => At(sbufs, S) = {}
        BY <2>1 DEF At
      <3> QED
        BY <3>1, FS_EmptySet DEF Count
    <2>4. /\ Count(sbufs, Critical) = 0 /\ Count(sbufs, Reserved) = 0
          /\ Count(sbufs, Unreturned) = 0 /\ Count(sbufs, Unannounced) = 0
          /\ Count(sbufs, Claimed) = 0
      BY <2>3 DEF Critical, Reserved, Unreturned, Unannounced, Claimed
    <2>5. /\ mutex[sbufs] + Count(sbufs, Critical) = 1
          /\ slots[sbufs] = SBUFSIZE - (Stored(sbufs) - Loaded(sbufs))
                              - Count(sbufs, Reserved) - Count(sbufs, Unreturned)
          /\ items[sbufs] = (Stored(sbufs) - Loaded(sbufs))
                              - Count(sbufs, Unannounced) - Count(sbufs, Claimed)
      BY TwoThreads DEF SbufInv, CriticalSection, TokenAccounting, SlotAccounting, ItemAccounting
    <2>6. mutex[sbufs] \in Nat /\ SBUFSIZE \in Nat /\ ITEMS \in Nat
      BY TwoThreads, SbufAssumption, Lab7Quiz2Assumption DEF SbufInv, SbufTypeOK
    <2> QED
      BY <2>2, <2>4, <2>5, <2>6
  <1> QED
    BY <1>1, TurnsInvariance, ModuleUsesTheLibrary, Invariance, PTL
=============================================================================
