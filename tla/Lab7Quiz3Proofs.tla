--------------------------- MODULE Lab7Quiz3Proofs ---------------------------
(***************************************************************************)
(* Proofs about lab7_quiz3.c, for any number of producers, buffers, slots  *)
(* and items, and for every random choice of buffers.                      *)
(***************************************************************************)
EXTENDS Lab7Quiz3, SbufProofs

LEMMA Parties ==
  /\ Producers \subseteq Threads /\ consumer \in Threads /\ consumer \notin Producers
  /\ \A t \in Threads : t \in Producers \/ t = consumer
  BY Lab7Quiz3Assumption

LEMMA Sizes ==
  /\ IsFiniteSet(Producers) /\ IsFiniteSet(Items) /\ IsFiniteSet(Bufs)
  /\ ITEMS \in Nat /\ PER_PRODUCER \in Nat /\ Cardinality(Producers) \in Nat
  /\ IsFiniteSet(Producers \X Items) /\ Cardinality(Producers \X Items) = ITEMS
  /\ IsFiniteSet(Bufs \X (1 .. ITEMS))
  <1>1. Producers \in SUBSET Threads
    BY Parties
  <1>2. IsFiniteSet(Producers) /\ Cardinality(Producers) \in Nat
    BY <1>1, SbufAssumption, FS_Subset, FS_CardinalityType
  <1>3. /\ PER_PRODUCER \in Nat /\ NUM_SBUF \in Nat /\ Items = 0 .. PER_PRODUCER - 1
        /\ Bufs = 0 .. NUM_SBUF - 1 /\ ITEMS = PER_PRODUCER * Cardinality(Producers)
    BY Lab7Quiz3Assumption
  <1>4. IsFiniteSet(Items) /\ Cardinality(Items) = PER_PRODUCER
    <2>1. /\ IsFiniteSet(0 .. PER_PRODUCER - 1)
          /\ Cardinality(0 .. PER_PRODUCER - 1)
               = IF 0 > PER_PRODUCER - 1 THEN 0 ELSE (PER_PRODUCER - 1) - 0 + 1
      BY <1>3, FS_Interval
    <2> QED
      BY <1>3, <2>1
  <1>5. IsFiniteSet(Bufs)
    BY <1>3, FS_Interval
  <1>6. /\ IsFiniteSet(Producers \X Items)
        /\ Cardinality(Producers \X Items) = Cardinality(Producers) * Cardinality(Items)
    BY <1>2, <1>4, FS_Product
  <1>7. ITEMS \in Nat /\ Cardinality(Producers \X Items) = ITEMS
    BY <1>2, <1>3, <1>4, <1>6
  <1>8. IsFiniteSet(1 .. ITEMS)
    BY <1>7, FS_Interval
  <1>9. IsFiniteSet(Bufs \X (1 .. ITEMS))
    BY <1>5, <1>8, FS_Product
  <1> QED
    BY <1>2, <1>3, <1>4, <1>5, <1>6, <1>7, <1>9

(* Every random int becomes the index of a buffer, INT_MIN included, whose *)
(* negation is itself: its remainder is 0.                                 *)
LEMMA AnyIndexIsABuffer == \A r \in RandMin .. RandMax : BufIndex(r) \in Bufs
  <1> SUFFICES ASSUME NEW r \in RandMin .. RandMax PROVE BufIndex(r) \in Bufs
    OBVIOUS
  <1>1. /\ NUM_SBUF \in Nat \ {0} /\ Bufs = 0 .. NUM_SBUF - 1 /\ RandMax \in Nat
        /\ RandMin = -RandMax - 1 /\ (RandMax + 1) % NUM_SBUF = 0
    BY Lab7Quiz3Assumption
  <1>2. \A a \in Nat : a % NUM_SBUF \in 0 .. NUM_SBUF - 1
    BY <1>1
  <1>3. CASE r >= 0
    <2>1. r \in Nat /\ BufIndex(r) = r % NUM_SBUF
      BY <1>1, <1>3 DEF BufIndex, Rem
    <2> QED
      BY <1>1, <1>2, <2>1
  <1>4. CASE r < 0 /\ r # RandMin
    <2>1. -r \in Nat /\ -r >= 0
      BY <1>1, <1>4
    <2>2. BufIndex(r) = (-r) % NUM_SBUF
      BY <1>4, <2>1 DEF BufIndex, Negate, Rem
    <2> QED
      BY <1>1, <1>2, <2>1, <2>2
  <1>5. CASE r = RandMin
    <2>1. r < 0 /\ -r = RandMax + 1
      BY <1>1, <1>5
    <2>2. BufIndex(r) = -((RandMax + 1) % NUM_SBUF)
      BY <1>1, <1>5, <2>1 DEF BufIndex, Negate, Rem
    <2> QED
      BY <1>1, <2>2
  <1> QED
    BY <1>1, <1>3, <1>4, <1>5

-----------------------------------------------------------------------------
(* Steps that do not touch the library.                                    *)
Outside ==
  \/ InitBuffers \/ Exit \/ Tried \/ Tally
  \/ \E t \in Threads : Start(t)
  \/ \E p \in Producers : Inserted(p) \/ ProducerDone(p) \/ Oops(p)

LEMMA OutsideLeavesLibrary == Outside => UNCHANGED sbufVars
  BY DEF Outside, InitBuffers, Exit, Tried, Tally, Start, Inserted, ProducerDone, Oops

LEMMA Sorted ==
  Next => Outside \/ TryNext \/ (\E p \in Producers : Insert(p)) \/ \E t \in Threads : Library(t)
  BY Parties DEF Next, Outside, Producer, Consumer

(* What a step inside the library does to a producer ...                   *)
LEMMA InsertionStep ==
  ASSUME SbufTypeOK, ProducersInsert, NEW p \in Producers, Step(p)
  PROVE  /\ pc[p] # "idle" /\ pc' = [pc EXCEPT ![p] = pc'[p]]
         /\ pc'[p] \in {"idle"} \cup Unstored \cup Unannounced
         /\ UNCHANGED <<on, item, removed>>
         /\ \/ /\ pc[p] = "ins_store" /\ pc'[p] \notin Unstored
               /\ inserted' = [inserted EXCEPT ![on[p]] = Append(@, item[p])]
            \/ /\ pc[p] \in Unstored <=> pc'[p] \in Unstored
               /\ UNCHANGED inserted
  <1> USE Parties
      DEF SbufTypeOK, ProducersInsert, Go, args, hist, Unstored, Unannounced, Reserved
  <1>1. CASE Store(p)
    BY <1>1 DEF Store
  <1>2. CASE DownSlots(p) \/ Lock(p) \/ BumpRear(p) \/ Unlock(p) \/ UpItems(p)
    BY <1>2 DEF DownSlots, Lock, BumpRear, Unlock, UpItems
  <1>3. CASE DownItems(p) \/ TryEmpty(p) \/ BumpFront(p) \/ Load(p) \/ UpSlots(p)
    BY <1>3 DEF DownItems, TryEmpty, BumpFront, Load, UpSlots
  <1> QED
    BY <1>1, <1>2, <1>3 DEF Step

(* ... and to the consumer: it loads, gives up at an empty buffer, or goes *)
(* on with what it has.                                                    *)
LEMMA RemovalStep ==
  ASSUME SbufTypeOK, ConsumerTries, Step(consumer)
  PROVE  /\ pc[consumer] # "idle" /\ pc' = [pc EXCEPT ![consumer] = pc'[consumer]]
         /\ pc'[consumer] \in {"idle"} \cup Claimed \cup Unreturned
         /\ UNCHANGED <<on, inserted>>
         /\ \/ /\ pc[consumer] = "rem_load" /\ pc'[consumer] = "rem_unlock"
               /\ item' = [item EXCEPT ![consumer] = item'[consumer]]
               /\ removed' = [removed EXCEPT ![on[consumer]] = Append(@, item'[consumer])]
            \/ /\ pc[consumer] = "try_wait" /\ pc'[consumer] = "idle"
               /\ item' = [item EXCEPT ![consumer] = EmptyMark]
               /\ UNCHANGED removed
            \/ /\ pc[consumer] \in Unreturned <=> pc'[consumer] \in {"idle"} \cup Unreturned
               /\ UNCHANGED <<item, removed>>
  <1> USE Parties DEF SbufTypeOK, ConsumerTries, Go, args, hist, Claimed, Unreturned
  <1>1. CASE Load(consumer)
    <2>1. PICK v \in LoadedValues(on[consumer], Cell(front[on[consumer]])) :
            /\ item' = [item EXCEPT ![consumer] = v]
            /\ removed' = [removed EXCEPT ![on[consumer]] = Append(@, v)]
      BY <1>1 DEF Load
    <2>2. item'[consumer] = v
      BY <2>1
    <2> QED
      BY <1>1, <2>1, <2>2 DEF Load
  <1>2. CASE TryEmpty(consumer)
    BY <1>2 DEF TryEmpty
  <1>3. CASE DownItems(consumer) \/ Lock(consumer) \/ BumpFront(consumer)
             \/ Unlock(consumer) \/ UpSlots(consumer)
    BY <1>3 DEF DownItems, Lock, BumpFront, Unlock, UpSlots
  <1>4. CASE \/ DownSlots(consumer) \/ BumpRear(consumer) \/ Store(consumer)
             \/ UpItems(consumer)
    BY <1>4 DEF DownSlots, BumpRear, Store, UpItems
  <1> QED
    BY <1>1, <1>2, <1>3, <1>4 DEF Step

-----------------------------------------------------------------------------
LEMMA CountedSets ==
  ASSUME NEW V \in SUBSET Items, IndexTypeOK
  PROVE  /\ IsFiniteSet(Begun(V)) /\ Cardinality(Begun(V)) \in Nat
         /\ IsFiniteSet(Noted(V)) /\ Cardinality(Noted(V)) \in Nat
         /\ IsFiniteSet(InBuffers(V)) /\ Cardinality(InBuffers(V)) \in Nat
         /\ IsFiniteSet(InHands(V)) /\ Cardinality(InHands(V)) \in Nat
         /\ Cardinality(Begun(V)) <= ITEMS
  <1>1. Begun(V) \in SUBSET (Producers \X Items)
    BY DEF Begun
  <1>2. IsFiniteSet(Begun(V)) /\ Cardinality(Begun(V)) <= ITEMS
    BY <1>1, Sizes, FS_Subset
  <1>3. IsFiniteSet(Noted(V))
    <2>1. Len(valArray) \in Nat /\ IsFiniteSet(1 .. Len(valArray))
      BY FS_Interval DEF IndexTypeOK
    <2>2. Noted(V) \in SUBSET (1 .. Len(valArray))
      BY DEF Noted
    <2> QED
      BY <2>1, <2>2, FS_Subset
  <1>4. IsFiniteSet(InBuffers(V))
    <2>1. InBuffers(V) \in SUBSET (Bufs \X (1 .. ITEMS))
      BY DEF InBuffers
    <2> QED
      BY <2>1, Sizes, FS_Subset
  <1>5. IsFiniteSet(InHands(V))
    <2>1. InHands(V) \in SUBSET Threads
      BY DEF InHands
    <2> QED
      BY <2>1, SbufAssumption, FS_Subset
  <1> QED
    BY <1>2, <1>3, <1>4, <1>5, FS_CardinalityType

(* The producer that begins an insertion is counted with a new pair: there *)
(* is room for it in the bound on insertions.                              *)
LEMMA InsertBegins ==
  ASSUME IndexTypeOK, NEW p \in Producers, Insert(p), NEW V \in SUBSET Items
  PROVE  /\ i[p] \in Items /\ <<p, i[p]>> \notin Begun(V)
         /\ Begun(V)' = IF i[p] \in V THEN Begun(V) \cup {<<p, i[p]>>} ELSE Begun(V)
  <1>1. /\ i[p] \in 0 .. PER_PRODUCER /\ i[p] < PER_PRODUCER /\ loc[p] = "loop" /\ i' = i
        /\ loc'[p] = "call" /\ \A q \in Producers \ {p} : loc'[q] = loc[q]
        /\ Items = 0 .. PER_PRODUCER - 1 /\ PER_PRODUCER \in Nat
    BY Parties, Lab7Quiz3Assumption DEF Insert, IndexTypeOK
  <1>2. i[p] \in Items
    BY <1>1
  <1>3. <<p, i[p]>> \notin Begun(V)
    BY <1>1 DEF Begun
  <1>4. ASSUME NEW turn \in Producers \X V
        PROVE  turn \in Begun(V)' <=> turn \in Begun(V) \/ turn = <<p, i[p]>>
    <2>1. turn = <<turn[1], turn[2]>> /\ turn[1] \in Producers /\ turn[2] \in V
      OBVIOUS
    <2>2. turn \in Begun(V) <=> \/ turn[2] < i[turn[1]]
                                \/ turn[2] = i[turn[1]] /\ loc[turn[1]] = "call"
      BY DEF Begun
    <2>3. turn \in Begun(V)' <=> \/ turn[2] < i[turn[1]]
                                 \/ turn[2] = i[turn[1]] /\ loc'[turn[1]] = "call"
      BY <1>1 DEF Begun
    <2> QED
      BY <1>1, <2>1, <2>2, <2>3
  <1>5. /\ Begun(V) \subseteq Producers \X V /\ Begun(V)' \subseteq Producers \X V
        /\ i[p] \in V <=> <<p, i[p]>> \in Producers \X V
    BY DEF Begun
  <1> QED
    BY <1>2, <1>3, <1>4, <1>5

LEMMA RoomForCall ==
  ASSUME IndexTypeOK, InsertionsBegun, NEW p \in Producers, Insert(p), NEW b \in Bufs
  PROVE  Stored(b) + Count(b, Unstored) < MaxInserts
  <1> DEFINE B == Begun(Items)
             x == <<p, i[p]>>
  <1>1. x \notin B /\ x \in Producers \X Items /\ B \subseteq Producers \X Items
    BY InsertBegins DEF Begun
  <1>2. IsFiniteSet(B) /\ Cardinality(B) \in Nat
    BY CountedSets
  <1> HIDE DEF x, B
  <1>3. Cardinality(B \cup {x}) = Cardinality(B) + 1
    BY <1>1, <1>2, FS_AddElement
  <1>4. B \cup {x} \in SUBSET (Producers \X Items)
    BY <1>1
  <1>5. Cardinality(B \cup {x}) <= ITEMS
    BY <1>4, Sizes, FS_Subset
  <1>6. Stored(b) + Count(b, Unstored) <= Cardinality(B)
    BY DEF InsertionsBegun, B
  <1>7. Stored(b) \in Nat /\ Count(b, Unstored) \in Nat
    BY Lengths, CountType DEF IndexTypeOK
  <1>8. ITEMS \in Nat /\ MaxInserts \in Nat /\ MaxInserts >= ITEMS
    BY Sizes, SbufAssumption, Lab7Quiz3Assumption
  <1> QED
    BY <1>2, <1>3, <1>5, <1>6, <1>7, <1>8

LEMMA ImplementsStep ==
  ASSUME Lab7Quiz3Inv, [Next]_vars PROVE [SbufNext]_sbufVars
  <1>1. CASE Outside \/ UNCHANGED vars
    BY <1>1, OutsideLeavesLibrary DEF vars
  <1>2. ASSUME NEW t \in Threads, Library(t) PROVE SbufNext
    BY <1>2 DEF Library, SbufNext
  <1>3. CASE TryNext
    <2>1. SomeCall(consumer, index) /\ index \in Bufs
      BY <1>3 DEF TryNext, SomeCall, Lab7Quiz3Inv, IndexTypeOK
    <2> QED
      BY <2>1, Parties DEF SbufNext
  <1>4. ASSUME NEW p \in Producers, Insert(p) PROVE SbufNext
    <2>1. PICK r \in RandMin .. RandMax : CallInsert(p, BufIndex(r), i[p])
      BY <1>4 DEF Insert
    <2>2. BufIndex(r) \in Bufs /\ i[p] \in Items
      BY <1>4, AnyIndexIsABuffer, InsertBegins DEF Lab7Quiz3Inv
    <2>3. SomeCall(p, BufIndex(r))
      BY <1>4, <2>1, <2>2, RoomForCall DEF SomeCall, Lab7Quiz3Inv
    <2> QED
      BY <2>2, <2>3, Parties DEF SbufNext
  <1> QED
    BY <1>1, <1>2, <1>3, <1>4, Sorted

-----------------------------------------------------------------------------
LEMMA Quiz3Init == Init => Lab7Quiz3Inv /\ EveryItemSomewhere /\ EveryValueFromEveryProducer
  <1> SUFFICES ASSUME Init
               PROVE  Lab7Quiz3Inv /\ EveryItemSomewhere /\ EveryValueFromEveryProducer
    OBVIOUS
  <1>1. /\ SbufTypeOK /\ pc = [t \in Threads |-> "idle"]
        /\ \A b \in Bufs : Stored(b) = 0 /\ Loaded(b) = 0
    BY TypeInit DEF Init, SbufInit, Stored, Loaded
  <1>2. IndexTypeOK
    BY <1>1, Sizes, Lab7Quiz3Assumption DEF Init, IndexTypeOK
  <1>3. ProducersInsert /\ ConsumerTries /\ NotYetStarted
    BY <1>1, Parties
       DEF Init, ProducersInsert, ConsumerTries, NotYetStarted, Holds, Unstored, Reserved
  <1>4. OnlyItems
    BY <1>1 DEF Init, OnlyItems
  <1>5. \A V \in SUBSET Items :
          Begun(V) = {} /\ Noted(V) = {} /\ InBuffers(V) = {} /\ InHands(V) = {}
    <2> SUFFICES ASSUME NEW V \in SUBSET Items
                 PROVE  Begun(V) = {} /\ Noted(V) = {} /\ InBuffers(V) = {} /\ InHands(V) = {}
      OBVIOUS
    <2>1. Begun(V) = {}
      <3>1. ASSUME NEW turn \in Producers \X V PROVE turn \notin Begun(V)
        <4>1. turn[1] \in Producers /\ turn[2] \in Items
          OBVIOUS
        <4>2. turn[2] \in Nat
          BY <4>1, Lab7Quiz3Assumption
        <4> QED
          BY <4>1, <4>2, Parties DEF Begun, Init
      <3> QED
        BY <3>1 DEF Begun
    <2>2. Noted(V) = {}
      BY DEF Noted, Init
    <2>3. InBuffers(V) = {}
      BY <1>1 DEF InBuffers
    <2>4. InHands(V) = {}
      BY <1>1 DEF InHands, Holds, Init, Unstored, Reserved
    <2> QED
      BY <2>1, <2>2, <2>3, <2>4
  <1>6. EveryItemSomewhere
    BY <1>5, FS_EmptySet DEF EveryItemSomewhere
  <1>7. InsertionsBegun
    <2>1. \A b \in Bufs : Count(b, Unstored) = 0
      <3>1. \A b \in Bufs : At(b, Unstored) = {}
        BY <1>1 DEF At, Unstored, Reserved
      <3> QED
        BY <3>1, FS_EmptySet DEF Count
    <2>2. Cardinality(Begun(Items)) = 0
      BY <1>5, FS_EmptySet
    <2> QED
      BY <1>1, <2>1, <2>2 DEF InsertionsBegun
  <1>8. EveryValueFromEveryProducer
    BY Parties DEF Init, EveryValueFromEveryProducer
  <1> QED
    BY <1>2, <1>3, <1>4, <1>6, <1>7, <1>8 DEF Lab7Quiz3Inv

(* Types, and the side each thread keeps to.                               *)
LEMMA ConsumerStep ==
  ASSUME Lab7Quiz3Inv, TryNext \/ Tried \/ Tally PROVE IndexTypeOK' /\ ProducersInsert' /\ NotYetStarted'
  <1>1. SbufTypeOK'
    <2>1. [Next]_vars
      BY DEF Next, Consumer
    <2> QED
      BY <2>1, ImplementsStep, TypeStep DEF Lab7Quiz3Inv, IndexTypeOK
  <1>2. /\ IndexTypeOK /\ SbufTypeOK /\ ProducersInsert /\ NotYetStarted /\ ConsumerTries
        /\ ITEMS \in Nat /\ NUM_SBUF \in Nat \ {0} /\ Bufs = 0 .. NUM_SBUF - 1
    BY Sizes, Lab7Quiz3Assumption DEF Lab7Quiz3Inv, IndexTypeOK
  <1>3. /\ loc[consumer] \in {"loop", "call"} /\ loc'[consumer] # "unborn"
        /\ loc' \in [Threads -> {"unborn", "loop", "call", "done"}]
        /\ \A p \in Producers : pc'[p] = pc[p] /\ item'[p] = item[p] /\ loc'[p] = loc[p]
        /\ UNCHANGED <<waiting, module, arrays, dead, i>>
    <2>1. CASE TryNext
      BY <1>2, <2>1, Parties DEF TryNext, CallTryRemove, Go, IndexTypeOK, SbufTypeOK
    <2>2. CASE Tried \/ Tally
      <3>1. UNCHANGED sbufVars
        BY <2>2, OutsideLeavesLibrary DEF Outside
      <3> QED
        BY <1>2, <2>2, <3>1, Parties DEF Tried, Tally, IndexTypeOK, sbufVars, args
    <2> QED
      BY <2>1, <2>2
  <1>4. /\ index' \in Bufs /\ valArray' \in Seq(Values) /\ Len(valArray') <= ITEMS
        /\ valCount' \in [Items -> Nat]
    <2>1. CASE TryNext
      BY <1>2, <2>1 DEF TryNext, IndexTypeOK
    <2>2. CASE Tried
      <3>1. item[consumer] \in Values /\ Len(valArray) < ITEMS /\ valArray \in Seq(Values)
        BY <1>2, <2>2, Parties DEF Tried, ConsumerTries, IndexTypeOK, SbufTypeOK
      <3>2. index' \in Bufs /\ valCount' = valCount
        BY <1>2, <2>2 DEF Tried, IndexTypeOK
      <3> QED
        BY <1>2, <2>2, <3>1, <3>2 DEF Tried, IndexTypeOK
    <2>3. CASE Tally
      <3>1. ASSUME NEW v \in Items
            PROVE  Cardinality({k \in 1 .. ITEMS : valArray[k] = v}) \in Nat
        <4>1. {k \in 1 .. ITEMS : valArray[k] = v} \in SUBSET (1 .. ITEMS)
          OBVIOUS
        <4>2. IsFiniteSet(1 .. ITEMS)
          BY <1>2, FS_Interval
        <4> QED
          BY <4>1, <4>2, FS_Subset, FS_CardinalityType
      <3> QED
        BY <1>2, <2>3, <3>1 DEF Tally, IndexTypeOK
    <2> QED
      BY <2>1, <2>2, <2>3
  <1>5. IndexTypeOK'
    BY <1>1, <1>2, <1>3, <1>4 DEF IndexTypeOK
  <1>6. ProducersInsert'
    BY <1>2, <1>3 DEF ProducersInsert
  <1>7. NotYetStarted'
    BY <1>2, <1>3, Parties DEF NotYetStarted, IndexTypeOK
  <1> QED
    BY <1>5, <1>6, <1>7

LEMMA ProducerStep ==
  ASSUME Lab7Quiz3Inv, NEW p \in Producers, Insert(p) \/ Inserted(p) \/ ProducerDone(p) \/ Oops(p)
  PROVE  IndexTypeOK' /\ ProducersInsert' /\ NotYetStarted'
  <1>1. SbufTypeOK'
    <2>1. [Next]_vars
      BY DEF Next, Producer
    <2> QED
      BY <2>1, ImplementsStep, TypeStep DEF Lab7Quiz3Inv, IndexTypeOK
  <1>2. /\ IndexTypeOK /\ SbufTypeOK /\ ProducersInsert /\ NotYetStarted /\ PER_PRODUCER \in Nat
        /\ pc \in [Threads -> Stages] /\ item \in [Threads -> Values]
    BY Sizes DEF Lab7Quiz3Inv, IndexTypeOK, SbufTypeOK
  <1>3. UNCHANGED <<waiting, module, arrays, index, valArray, valCount>>
    BY DEF Insert, Inserted, ProducerDone, Oops
  <1>4. /\ loc' \in [Threads -> {"unborn", "loop", "call", "done"}] /\ loc[p] # "unborn"
        /\ \A t \in Threads \ {p} : pc'[t] = pc[t] /\ item'[t] = item[t] /\ loc'[t] = loc[t]
        /\ i' \in [Producers -> 0 .. PER_PRODUCER]
        /\ \A q \in Producers \ {p} : i'[q] = i[q]
        /\ dead' \subseteq Producers
        /\ pc'[p] \in {"idle"} \cup Unstored \cup Unannounced
        /\ pc'[p] # "idle" => loc'[p] = "call"
        /\ pc'[p] \in Unstored => item'[p] = i'[p]
        /\ loc'[p] = "call" => i'[p] < PER_PRODUCER
    <2>1. CASE Insert(p)
      <3>1. PICK b : CallInsert(p, b, i[p])
        BY <2>1 DEF Insert
      <3>2. pc'[p] = "ins_wait" /\ item'[p] = i[p]
        BY <1>2, <3>1, Parties DEF CallInsert, Go
      <3> QED
        BY <1>2, <2>1, <3>1, <3>2, Parties
           DEF Insert, CallInsert, Go, IndexTypeOK, Unstored
    <2>2. CASE Inserted(p)
      <3>1. UNCHANGED sbufVars
        BY <2>2, OutsideLeavesLibrary DEF Outside
      <3>2. pc' = pc /\ item' = item
        BY <3>1 DEF sbufVars, args
      <3> QED
        BY <1>2, <2>2, <3>2, Parties
           DEF Inserted, IndexTypeOK, ProducersInsert, Unstored, Reserved
    <2>3. CASE ProducerDone(p)
      <3>1. UNCHANGED sbufVars
        BY <2>3, OutsideLeavesLibrary DEF Outside
      <3>2. pc' = pc /\ item' = item
        BY <3>1 DEF sbufVars, args
      <3> QED
        BY <1>2, <2>3, <3>2, Parties DEF ProducerDone, IndexTypeOK, ProducersInsert
    <2>4. CASE Oops(p)
      <3>1. UNCHANGED sbufVars
        BY <2>4, OutsideLeavesLibrary DEF Outside
      <3>2. pc' = pc /\ item' = item /\ pc[p] # "idle"
        BY <2>4, <3>1 DEF sbufVars, args, Oops, AtNoArray
      <3> QED
        BY <1>2, <2>4, <3>2, Parties DEF Oops, IndexTypeOK, ProducersInsert
    <2> QED
      BY <2>1, <2>2, <2>3, <2>4
  <1>5. IndexTypeOK'
    BY <1>1, <1>2, <1>3, <1>4 DEF IndexTypeOK
  <1>6. ProducersInsert'
    BY <1>2, <1>4, Parties DEF ProducersInsert
  <1>7. NotYetStarted'
    <2>1. ASSUME NEW t \in waiting PROVE loc'[t] = "unborn"
      BY <1>2, <1>4, <2>1 DEF NotYetStarted, IndexTypeOK
    <2> QED
      BY <1>2, <1>3, <2>1 DEF NotYetStarted
  <1> QED
    BY <1>5, <1>6, <1>7

LEMMA LibraryStep ==
  ASSUME Lab7Quiz3Inv, NEW t \in Threads, Library(t)
  PROVE  IndexTypeOK' /\ ProducersInsert' /\ NotYetStarted'
  <1>1. SbufTypeOK'
    <2>1. SbufNext
      BY DEF Library, SbufNext
    <2> QED
      BY <2>1, TypeStep DEF Lab7Quiz3Inv, IndexTypeOK
  <1>2. /\ IndexTypeOK /\ SbufTypeOK /\ ProducersInsert /\ NotYetStarted /\ ConsumerTries
        /\ pc \in [Threads -> Stages] /\ item \in [Threads -> Values]
    BY DEF Lab7Quiz3Inv, IndexTypeOK, SbufTypeOK
  <1>3. UNCHANGED <<waiting, module, arrays, dead, loc, i, index, valArray, valCount>>
    BY DEF Library
  <1>4. IndexTypeOK' /\ NotYetStarted'
    BY <1>1, <1>2, <1>3 DEF IndexTypeOK, NotYetStarted
  <1>5. ProducersInsert'
    <2>1. CASE t \in Producers
      BY <1>2, <1>3, <2>1, InsertionStep, Parties DEF Library, ProducersInsert
    <2>2. CASE t = consumer
      <3>1. \A p \in Producers : pc'[p] = pc[p] /\ item'[p] = item[p]
        BY <1>2, <2>2, RemovalStep, Parties DEF Library
      <3> QED
        BY <1>2, <1>3, <3>1 DEF ProducersInsert
    <2> QED
      BY <2>1, <2>2, Parties
  <1> QED
    BY <1>4, <1>5

LEMMA ModuleStep ==
  ASSUME Lab7Quiz3Inv, InitBuffers \/ Exit \/ \E t \in Threads : Start(t)
  PROVE  /\ IndexTypeOK' /\ ProducersInsert' /\ NotYetStarted'
         /\ UNCHANGED <<sbufVars, i, index, valArray, valCount>>
         /\ \A t \in Threads : /\ loc'[t] = "call" <=> loc[t] = "call"
                               /\ loc'[t] = "done" <=> loc[t] = "done"
  <1>1. UNCHANGED sbufVars
    BY OutsideLeavesLibrary DEF Outside
  <1>2. UNCHANGED <<pc, item>> /\ SbufTypeOK'
    <2>1. [SbufNext]_sbufVars
      BY <1>1
    <2> QED
      BY <1>1, <2>1, TypeStep DEF sbufVars, args, Lab7Quiz3Inv, IndexTypeOK
  <1>3. /\ IndexTypeOK /\ ProducersInsert /\ NotYetStarted
        /\ UNCHANGED <<dead, i, index, valArray, valCount>>
    BY DEF Lab7Quiz3Inv, InitBuffers, Exit, Start
  <1>4. /\ IndexTypeOK' /\ NotYetStarted'
        /\ \A t \in Threads : /\ loc'[t] = "call" <=> loc[t] = "call"
                              /\ loc'[t] = "done" <=> loc[t] = "done"
    <2>1. CASE InitBuffers \/ Exit
      BY <1>2, <1>3, <2>1 DEF InitBuffers, Exit, IndexTypeOK, NotYetStarted
    <2>2. ASSUME NEW t \in Threads, Start(t)
          PROVE  /\ IndexTypeOK' /\ NotYetStarted'
                 /\ \A u \in Threads : /\ loc'[u] = "call" <=> loc[u] = "call"
                                       /\ loc'[u] = "done" <=> loc[u] = "done"
      <3>1. /\ loc[t] = "unborn" /\ loc'[t] \in {"loop", "unborn"}
            /\ loc' \in [Threads -> {"unborn", "loop", "call", "done"}]
            /\ \A u \in Threads \ {t} : loc'[u] = loc[u]
            /\ waiting' = waiting \ {t} /\ module = "live" /\ module' = module
            /\ arrays' = arrays
        BY <1>3, <2>2 DEF Start, NotYetStarted, IndexTypeOK
      <3>2. IndexTypeOK'
        BY <1>2, <1>3, <3>1 DEF IndexTypeOK
      <3>3. NotYetStarted'
        BY <1>3, <3>1 DEF NotYetStarted, IndexTypeOK
      <3> QED
        BY <3>1, <3>2, <3>3
    <2> QED
      BY <2>1, <2>2
  <1>5. ProducersInsert'
    BY <1>2, <1>3, <1>4, Parties DEF ProducersInsert
  <1> QED
    BY <1>1, <1>3, <1>4, <1>5

-----------------------------------------------------------------------------
(* When nobody begins an insertion, what was begun stays the same.         *)
LEMMA BegunStaysTheSame ==
  ASSUME IndexTypeOK, ProducersInsert, NEW V \in SUBSET Items,
         \A p \in Producers :
           \/ i'[p] = i[p] /\ (loc'[p] = "call" <=> loc[p] = "call")
           \/ i'[p] = i[p] + 1 /\ loc[p] = "call" /\ loc'[p] # "call"
  PROVE  Begun(V)' = Begun(V)
  <1>1. ASSUME NEW turn \in Producers \X V
        PROVE  turn \in Begun(V)' <=> turn \in Begun(V)
    <2>1. /\ turn[1] \in Producers /\ turn[2] \in Items
          /\ turn[2] \in Nat /\ i[turn[1]] \in Nat
      <3>1. turn[1] \in Producers /\ turn[2] \in Items
        OBVIOUS
      <3> QED
        BY <3>1, Lab7Quiz3Assumption DEF IndexTypeOK
    <2>2. turn \in Begun(V) <=> \/ turn[2] < i[turn[1]]
                                \/ turn[2] = i[turn[1]] /\ loc[turn[1]] = "call"
      BY DEF Begun
    <2>3. turn \in Begun(V)' <=> \/ turn[2] < i'[turn[1]]
                                 \/ turn[2] = i'[turn[1]] /\ loc'[turn[1]] = "call"
      BY DEF Begun
    <2>4. \/ i'[turn[1]] = i[turn[1]] /\ (loc'[turn[1]] = "call" <=> loc[turn[1]] = "call")
          \/ /\ i'[turn[1]] = i[turn[1]] + 1
             /\ loc[turn[1]] = "call" /\ loc'[turn[1]] # "call"
      BY <2>1
    <2> QED
      BY <2>1, <2>2, <2>3, <2>4
  <1>2. Begun(V) \subseteq Producers \X V /\ Begun(V)' \subseteq Producers \X V
    BY DEF Begun
  <1> QED
    BY <1>1, <1>2

LEMMA OnlyInsertBegins ==
  ASSUME Lab7Quiz3Inv, [Next]_vars, \A p \in Producers : ~Insert(p), NEW V \in SUBSET Items
  PROVE  Begun(V)' = Begun(V)
  <1>1. /\ IndexTypeOK /\ ProducersInsert
        /\ loc \in [Threads -> {"unborn", "loop", "call", "done"}]
        /\ i \in [Producers -> 0 .. PER_PRODUCER] /\ PER_PRODUCER \in Nat
    BY Sizes DEF Lab7Quiz3Inv, IndexTypeOK
  <1>2. SUFFICES ASSUME NEW p \in Producers
                 PROVE \/ i'[p] = i[p] /\ (loc'[p] = "call" <=> loc[p] = "call")
                       \/ i'[p] = i[p] + 1 /\ loc[p] = "call" /\ loc'[p] # "call"
    BY <1>1, BegunStaysTheSame
  <1>3. CASE UNCHANGED vars
    BY <1>3 DEF vars
  <1>4. CASE InitBuffers \/ Exit \/ \E t \in Threads : Start(t)
    BY <1>4, ModuleStep, Parties
  <1>5. CASE TryNext \/ Tried \/ Tally
    BY <1>1, <1>5, Parties DEF TryNext, Tried, Tally
  <1>6. CASE \E q \in Producers : Inserted(q) \/ ProducerDone(q) \/ Oops(q)
    BY <1>1, <1>6, Parties DEF Inserted, ProducerDone, Oops
  <1>7. CASE \E t \in Threads : Library(t)
    BY <1>7 DEF Library
  <1> QED
    BY <1>3, <1>4, <1>5, <1>6, <1>7, Sorted DEF Outside

LEMMA CallsKept ==
  ASSUME Lab7Quiz3Inv, [Next]_vars, \A p \in Producers : ~Insert(p), NEW b \in Bufs
  PROVE  InsertsBegun(b)' = InsertsBegun(b)
  <1>1. SbufTypeOK /\ ProducersInsert /\ ConsumerTries
    BY DEF Lab7Quiz3Inv, IndexTypeOK
  <1>2. CASE UNCHANGED sbufVars
    BY <1>2 DEF InsertsBegun, Stored, Count, At, sbufVars, hist, args
  <1>3. CASE TryNext
    <2>1. Entered(index, "try_wait") /\ UNCHANGED inserted
      BY <1>1, <1>3, CallMoves, Parties DEF TryNext, CallTryRemove, Lab7Quiz3Inv, IndexTypeOK, hist
    <2>2. Count(b, Unstored)' = Count(b, Unstored)
      BY <2>1 DEF Entered, Unstored, Reserved
    <2> QED
      BY <2>1, <2>2 DEF InsertsBegun, Stored
  <1>4. ASSUME NEW p \in Producers, Library(p) PROVE InsertsBegun(b)' = InsertsBegun(b)
    <2>1. Step(p) /\ pc[p] # "try_wait" /\ p \in Threads
      BY <1>1, <1>4, Parties DEF Library, ProducersInsert, Unstored, Reserved, Unannounced
    <2> QED
      BY <1>1, <2>1, BegunStays
  <1>5. CASE Library(consumer)
    <2> DEFINE from == pc[consumer]
               to == pc'[consumer]
    <2>1. /\ pc' = [pc EXCEPT ![consumer] = to] /\ on' = on /\ inserted' = inserted
          /\ from \notin Unstored /\ to \notin Unstored
      BY <1>1, <1>5, RemovalStep
         DEF Library, ConsumerTries, Unstored, Reserved, Claimed, Unreturned
    <2> HIDE DEF from, to
    <2>2. Go(consumer, from, to)
      BY <2>1 DEF Go, from
    <2>3. Moves(consumer, from, to)
      BY <1>1, <2>1, <2>2, GoMoves, Parties
    <2>4. Count(b, Unstored)' = Count(b, Unstored)
      BY <2>1, <2>3 DEF Moves
    <2> QED
      BY <2>1, <2>4 DEF InsertsBegun, Stored
  <1>6. CASE UNCHANGED vars \/ Outside
    BY <1>2, <1>6, OutsideLeavesLibrary DEF vars
  <1> QED
    BY <1>3, <1>4, <1>5, <1>6, Sorted, Parties

LEMMA InsertionsStep == ASSUME Lab7Quiz3Inv, [Next]_vars PROVE InsertionsBegun'
  <1>1. InsertionsBegun <=> \A b \in Bufs : InsertsBegun(b) <= Cardinality(Begun(Items))
    BY DEF InsertionsBegun, InsertsBegun
  <1>2. InsertionsBegun' <=> \A b \in Bufs : InsertsBegun(b)' <= Cardinality(Begun(Items)')
    BY DEF InsertionsBegun, InsertsBegun
  <1>3. /\ InsertionsBegun /\ SbufTypeOK /\ IndexTypeOK /\ Items \in SUBSET Items
        /\ IsFiniteSet(Begun(Items)) /\ Cardinality(Begun(Items)) \in Nat
    BY CountedSets DEF Lab7Quiz3Inv, IndexTypeOK
  <1>4. CASE \A p \in Producers : ~Insert(p)
    BY <1>1, <1>2, <1>3, <1>4, CallsKept, OnlyInsertBegins
  <1>5. ASSUME NEW p \in Producers, Insert(p) PROVE InsertionsBegun'
    <2>1. /\ <<p, i[p]>> \notin Begun(Items)
          /\ Begun(Items)' = Begun(Items) \cup {<<p, i[p]>>}
      BY <1>3, <1>5, InsertBegins
    <2>2. Cardinality(Begun(Items)') = Cardinality(Begun(Items)) + 1
      BY <1>3, <2>1, FS_AddElement
    <2>3. PICK r \in RandMin .. RandMax : CallInsert(p, BufIndex(r), i[p])
      BY <1>5 DEF Insert
    <2>4. Entered(BufIndex(r), "ins_wait") /\ UNCHANGED inserted
      BY <1>3, <2>3, AnyIndexIsABuffer, CallMoves, Parties DEF CallInsert, hist
    <2>5. ASSUME NEW b \in Bufs PROVE InsertsBegun(b)' <= Cardinality(Begun(Items)')
      <3>1. /\ Stored(b)' = Stored(b) /\ Stored(b) \in Nat /\ Count(b, Unstored) \in Nat
        BY <1>3, <2>4, Lengths, CountType DEF Stored
      <3>2. Count(b, Unstored)' \in {Count(b, Unstored), Count(b, Unstored) + 1}
        BY <2>4 DEF Entered, Unstored, Reserved
      <3>3. Stored(b) + Count(b, Unstored) <= Cardinality(Begun(Items))
        BY <1>3 DEF InsertionsBegun
      <3> QED
        BY <1>3, <2>2, <3>1, <3>2, <3>3 DEF InsertsBegun
    <2> QED
      BY <1>2, <2>5
  <1> QED
    BY <1>4, <1>5

-----------------------------------------------------------------------------
(* What the consumer loads is the oldest item of the buffer: by the order  *)
(* of the library after the step.                                          *)
LEMMA LoadsOldest ==
  ASSUME SbufInv, SbufInv', NEW b \in Bufs, NEW v, UNCHANGED inserted,
         removed' = [removed EXCEPT ![b] = Append(@, v)]
  PROVE  /\ Loaded(b)' = Loaded(b) + 1 /\ Loaded(b) + 1 \in 1 .. Stored(b)
         /\ \A c \in Bufs \ {b} : Loaded(c)' = Loaded(c)
         /\ v = inserted[b][Loaded(b) + 1]
  <1>1. /\ removed \in [Bufs -> Seq(Values)] /\ removed' \in [Bufs -> Seq(Values)]
        /\ removed[b] \in Seq(Values) /\ removed'[b] \in Seq(Values)
    BY DEF SbufInv, SbufTypeOK
  <1>2. removed'[b] = Append(removed[b], v)
    BY <1>1
  <1>3. v \in Values
    <2>1. removed'[b][Len(removed[b]) + 1] = v /\ Len(removed'[b]) = Len(removed[b]) + 1
      BY <1>1, <1>2
    <2> QED
      BY <1>1, <2>1
  <1>4. Loaded(b)' = Loaded(b) + 1 /\ Loaded(b) \in Nat /\ removed'[b][Loaded(b) + 1] = v
    BY <1>1, <1>2, <1>3 DEF Loaded
  <1>5. /\ Loaded(b)' <= Stored(b)' /\ Stored(b)' = Stored(b) /\ Stored(b) \in Nat
        /\ \A k \in 1 .. Loaded(b)' : removed'[b][k] = inserted[b][k]
    <2>1. Stored(b)' = Stored(b) /\ Stored(b) \in Nat
      BY Lengths DEF Stored, SbufInv
    <2>2. FifoOrder'
      BY DEF SbufInv
    <2> QED
      BY <2>1, <2>2 DEF FifoOrder
  <1>6. \A c \in Bufs \ {b} : Loaded(c)' = Loaded(c)
    BY <1>1 DEF Loaded
  <1>7. Loaded(b) + 1 \in 1 .. Stored(b) /\ Loaded(b) + 1 \in 1 .. Loaded(b)'
    BY <1>4, <1>5
  <1>8. removed'[b][Loaded(b) + 1] = inserted[b][Loaded(b) + 1]
    BY <1>5, <1>7
  <1> QED
    BY <1>4, <1>6, <1>7, <1>8

(* Steps of the others do not disturb the consumer.                        *)
LEMMA OthersLeaveConsumer ==
  ASSUME Lab7Quiz3Inv,
         \/ UNCHANGED vars \/ InitBuffers \/ Exit \/ (\E t \in Threads : Start(t))
         \/ \E p \in Producers :
              Insert(p) \/ Inserted(p) \/ ProducerDone(p) \/ Oops(p) \/ Library(p)
  PROVE  /\ pc'[consumer] = pc[consumer] /\ item'[consumer] = item[consumer]
         /\ loc'[consumer] = "call" <=> loc[consumer] = "call"
         /\ loc'[consumer] = "done" <=> loc[consumer] = "done"
         /\ UNCHANGED <<removed, valArray, valCount>>
  <1>1. /\ SbufTypeOK /\ ProducersInsert
        /\ pc \in [Threads -> Stages] /\ item \in [Threads -> Values]
        /\ loc \in [Threads -> {"unborn", "loop", "call", "done"}]
    BY DEF Lab7Quiz3Inv, IndexTypeOK, SbufTypeOK
  <1>2. CASE UNCHANGED vars
    BY <1>2 DEF vars, sbufVars, args, hist
  <1>3. CASE InitBuffers \/ Exit \/ \E t \in Threads : Start(t)
    BY <1>3, ModuleStep, Parties DEF sbufVars, args, hist
  <1>4. ASSUME NEW p \in Producers, Inserted(p) \/ ProducerDone(p) \/ Oops(p)
        PROVE  /\ pc' = pc /\ item' = item /\ loc'[consumer] = loc[consumer]
               /\ UNCHANGED <<removed, valArray, valCount>>
    <2>1. UNCHANGED sbufVars
      BY <1>4, OutsideLeavesLibrary DEF Outside
    <2>2. loc'[consumer] = loc[consumer] /\ UNCHANGED <<valArray, valCount>>
      BY <1>1, <1>4, Parties DEF Inserted, ProducerDone, Oops
    <2> QED
      BY <2>1, <2>2 DEF sbufVars, args, hist
  <1>5. ASSUME NEW p \in Producers, Insert(p)
        PROVE  /\ pc'[consumer] = pc[consumer] /\ item'[consumer] = item[consumer]
               /\ loc'[consumer] = loc[consumer] /\ UNCHANGED <<removed, valArray, valCount>>
    BY <1>1, <1>5, Parties DEF Insert, CallInsert, Go, hist
  <1>6. ASSUME NEW p \in Producers, Library(p)
        PROVE  /\ pc'[consumer] = pc[consumer] /\ item'[consumer] = item[consumer]
               /\ loc' = loc /\ UNCHANGED <<removed, valArray, valCount>>
    BY <1>1, <1>6, InsertionStep, Parties DEF Library
  <1> QED
    BY <1>2, <1>3, <1>4, <1>5, <1>6

LEMMA ConsumerTriesStep ==
  ASSUME Lab7Quiz3Inv, SbufInv, SbufInv', [Next]_vars PROVE ConsumerTries'
  <1> USE DEF ConsumerTries
  <1>1. /\ IndexTypeOK /\ SbufTypeOK /\ ConsumerTries /\ OnlyItems
        /\ pc \in [Threads -> Stages] /\ item \in [Threads -> Values]
        /\ loc \in [Threads -> {"unborn", "loop", "call", "done"}]
    BY DEF Lab7Quiz3Inv, IndexTypeOK, SbufTypeOK
  <1>2. CASE \/ UNCHANGED vars \/ InitBuffers \/ Exit \/ (\E t \in Threads : Start(t))
             \/ \E p \in Producers :
                  Insert(p) \/ Inserted(p) \/ ProducerDone(p) \/ Oops(p) \/ Library(p)
    BY <1>1, <1>2, OthersLeaveConsumer DEF Holds
  <1>3. CASE TryNext
    BY <1>1, <1>3, Parties DEF TryNext, CallTryRemove, Go, Holds, Unreturned
  <1>4. CASE Tried \/ Tally
    <2>1. pc' = pc
      BY <1>4, OutsideLeavesLibrary DEF Outside, sbufVars
    <2> QED
      BY <1>1, <1>4, <2>1, Parties DEF Tried, Tally, Holds
  <1>5. CASE Library(consumer)
    <2>1. /\ pc[consumer] # "idle" /\ UNCHANGED <<loc, valArray, on, inserted>>
          /\ pc'[consumer] \in {"idle"} \cup Claimed \cup Unreturned /\ loc[consumer] = "call"
      BY <1>1, <1>5, RemovalStep DEF Library
    <2>2. item'[consumer] \in Items \cup {EmptyMark}
          \/ (pc'[consumer] \notin {"idle"} \cup Unreturned)
      <3>1. CASE removed' = [removed EXCEPT ![on[consumer]] = Append(@, item'[consumer])]
        <4>1. PICK b, v : b \in Bufs /\ b = on[consumer] /\ v = item'[consumer]
          BY <1>1, Parties DEF SbufTypeOK
        <4>2. Loaded(b) + 1 \in 1 .. Stored(b) /\ v = inserted[b][Loaded(b) + 1]
          BY <2>1, <3>1, <4>1, LoadsOldest
        <4> QED
          BY <1>1, <4>1, <4>2 DEF OnlyItems
      <3>2. CASE item' = [item EXCEPT ![consumer] = EmptyMark]
        BY <1>1, <3>2, Parties
      <3>3. CASE /\ pc[consumer] \in Unreturned <=> pc'[consumer] \in {"idle"} \cup Unreturned
                 /\ UNCHANGED item
        BY <1>1, <2>1, <3>3 DEF Holds
      <3> QED
        BY <1>1, <1>5, <3>1, <3>2, <3>3, RemovalStep DEF Library
    <2> QED
      BY <1>1, <2>1, <2>2 DEF Holds
  <1> QED
    BY <1>2, <1>3, <1>4, <1>5, Parties DEF Next, Producer, Consumer

LEMMA OnlyItemsStep ==
  ASSUME Lab7Quiz3Inv, [Next]_vars PROVE OnlyItems'
  <1>1. /\ IndexTypeOK /\ SbufTypeOK /\ OnlyItems /\ ProducersInsert /\ ConsumerTries
        /\ inserted \in [Bufs -> Seq(Values)] /\ item \in [Threads -> Values]
    BY DEF Lab7Quiz3Inv, IndexTypeOK, SbufTypeOK
  <1>2. CASE \E p \in Producers : Insert(p)
    BY <1>1, <1>2 DEF Insert, CallInsert, hist, OnlyItems, Stored
  <1>3. ASSUME NEW p \in Producers, Library(p) PROVE OnlyItems'
    <2>1. CASE UNCHANGED inserted
      BY <1>1, <1>3, <2>1 DEF OnlyItems, Stored, Library
    <2>2. CASE /\ pc[p] = "ins_store"
               /\ inserted' = [inserted EXCEPT ![on[p]] = Append(@, item[p])]
      <3>1. item[p] \in Items
        <4>1. /\ item[p] = i[p] /\ i[p] \in 0 .. PER_PRODUCER /\ i[p] < PER_PRODUCER
          BY <1>1, <2>2 DEF ProducersInsert, IndexTypeOK, Unstored, Reserved
        <4> QED
          BY <4>1, Lab7Quiz3Assumption
      <3>2. ASSUME NEW b \in Bufs, NEW k \in 1 .. Stored(b)' PROVE inserted'[b][k] \in Items
        <4>1. inserted[b] \in Seq(Values) /\ item[p] \in Values
          BY <1>1, Parties
        <4>2. \A j \in 1 .. Stored(b) : inserted[b][j] \in Items
          BY <1>1 DEF OnlyItems
        <4>3. CASE b # on[p]
          BY <1>1, <2>2, <3>2, <4>2, <4>3 DEF Stored
        <4>4. CASE b = on[p]
          <5>1. inserted'[b] = Append(inserted[b], item[p])
            BY <1>1, <2>2, <4>4
          <5>2. k \in 1 .. Len(inserted[b]) + 1
            BY <3>2, <4>1, <5>1 DEF Stored
          <5>3. inserted'[b][k] = IF k <= Len(inserted[b]) THEN inserted[b][k] ELSE item[p]
            BY <4>1, <5>1, <5>2
          <5> QED
            BY <3>1, <4>1, <4>2, <5>2, <5>3 DEF Stored
        <4> QED
          BY <4>3, <4>4
      <3> QED
        BY <1>1, <1>3, <3>2 DEF OnlyItems, Library
    <2> QED
      BY <1>1, <1>3, <2>1, <2>2, InsertionStep DEF Library
  <1>4. CASE Library(consumer)
    BY <1>1, <1>4, RemovalStep DEF Library, OnlyItems, Stored
  <1>5. CASE TryNext
    BY <1>1, <1>5 DEF TryNext, CallTryRemove, hist, OnlyItems, Stored
  <1>6. CASE Tried
    <2>1. UNCHANGED inserted
      BY <1>6, OutsideLeavesLibrary DEF Outside, sbufVars, hist
    <2>2. item[consumer] \in Items \cup {EmptyMark}
      BY <1>1, <1>6 DEF Tried, ConsumerTries, Holds
    <2>3. valArray' \in Seq(Items)
      BY <1>1, <1>6, <2>2 DEF Tried, OnlyItems
    <2> QED
      BY <1>1, <2>1, <2>3 DEF OnlyItems, Stored
  <1>7. CASE UNCHANGED vars \/ (Outside /\ ~Tried)
    <2>1. UNCHANGED inserted
      BY <1>7, OutsideLeavesLibrary DEF vars, sbufVars, hist
    <2>2. UNCHANGED valArray
      BY <1>7 DEF vars, Outside, InitBuffers, Exit, Tally, Start, Inserted, ProducerDone, Oops
    <2> QED
      BY <1>1, <2>1, <2>2 DEF OnlyItems, Stored
  <1> QED
    BY <1>2, <1>3, <1>4, <1>5, <1>6, <1>7, Sorted, Parties

-----------------------------------------------------------------------------
(* Conservation, one set of values at a time: a step moves at most one     *)
(* item from one place to the next.                                        *)
Conserved(V) ==
  Cardinality(Begun(V)) =
    Cardinality(Noted(V)) + Cardinality(InBuffers(V)) + Cardinality(InHands(V))

Joins(Old, New, x) == x \notin Old /\ New = Old \cup {x}

LEMMA Joined ==
  ASSUME NEW Old, IsFiniteSet(Old), NEW New, NEW x, Joins(Old, New, x)
  PROVE  Cardinality(New) = Cardinality(Old) + 1
  BY FS_AddElement DEF Joins

LEMMA Left ==
  ASSUME NEW Old, NEW New, IsFiniteSet(Old), NEW x, Joins(New, Old, x)
  PROVE  Cardinality(New) = Cardinality(Old) - 1
  <1>1. New = Old \ {x} /\ x \in Old
    BY DEF Joins
  <1> QED
    BY <1>1, FS_RemoveElement

LEMMA OneItemMoves ==
  ASSUME IndexTypeOK, NEW V \in SUBSET Items, Conserved(V),
         \/ UNCHANGED <<Begun(V), Noted(V), InBuffers(V), InHands(V)>>
         \/ /\ \E x : Joins(Begun(V), Begun(V)', x)
            /\ \E x : Joins(InHands(V), InHands(V)', x)
            /\ UNCHANGED <<Noted(V), InBuffers(V)>>
         \/ /\ \E x : Joins(InHands(V)', InHands(V), x)
            /\ \E x : Joins(InBuffers(V), InBuffers(V)', x)
            /\ UNCHANGED <<Begun(V), Noted(V)>>
         \/ /\ \E x : Joins(InBuffers(V)', InBuffers(V), x)
            /\ \E x : Joins(InHands(V), InHands(V)', x)
            /\ UNCHANGED <<Begun(V), Noted(V)>>
         \/ /\ \E x : Joins(InHands(V)', InHands(V), x)
            /\ \E x : Joins(Noted(V), Noted(V)', x)
            /\ UNCHANGED <<Begun(V), InBuffers(V)>>
  PROVE  Conserved(V)'
  <1>1. /\ IsFiniteSet(Begun(V)) /\ Cardinality(Begun(V)) \in Nat
        /\ IsFiniteSet(Noted(V)) /\ Cardinality(Noted(V)) \in Nat
        /\ IsFiniteSet(InBuffers(V)) /\ Cardinality(InBuffers(V)) \in Nat
        /\ IsFiniteSet(InHands(V)) /\ Cardinality(InHands(V)) \in Nat
    BY CountedSets
  <1> DEFINE B == Begun(V)
             N == Noted(V)
             S == InBuffers(V)
             H == InHands(V)
  <1>2. PICK b, n, s, h : b = B' /\ n = N' /\ s = S' /\ h = H'
    OBVIOUS
  <1>3. Conserved(V)' <=> Cardinality(b) = Cardinality(n) + Cardinality(s) + Cardinality(h)
    BY <1>2 DEF Conserved
  <1>4. CASE b = B /\ n = N /\ s = S /\ h = H
    BY <1>3, <1>4 DEF Conserved
  <1>5. CASE (\E x : Joins(B, b, x)) /\ (\E x : Joins(H, h, x)) /\ n = N /\ s = S
    <2>1. Cardinality(b) = Cardinality(B) + 1 /\ Cardinality(h) = Cardinality(H) + 1
      BY <1>1, <1>5, Joined
    <2> QED
      BY <1>1, <1>3, <1>5, <2>1 DEF Conserved
  <1>6. CASE (\E x : Joins(h, H, x)) /\ (\E x : Joins(S, s, x)) /\ b = B /\ n = N
    <2>1. Cardinality(h) = Cardinality(H) - 1 /\ Cardinality(s) = Cardinality(S) + 1
      BY <1>1, <1>6, Joined, Left
    <2> QED
      BY <1>1, <1>3, <1>6, <2>1 DEF Conserved
  <1>7. CASE (\E x : Joins(s, S, x)) /\ (\E x : Joins(H, h, x)) /\ b = B /\ n = N
    <2>1. Cardinality(s) = Cardinality(S) - 1 /\ Cardinality(h) = Cardinality(H) + 1
      BY <1>1, <1>7, Joined, Left
    <2> QED
      BY <1>1, <1>3, <1>7, <2>1 DEF Conserved
  <1>8. CASE (\E x : Joins(h, H, x)) /\ (\E x : Joins(N, n, x)) /\ b = B /\ s = S
    <2>1. Cardinality(h) = Cardinality(H) - 1 /\ Cardinality(n) = Cardinality(N) + 1
      BY <1>1, <1>8, Joined, Left
    <2> QED
      BY <1>1, <1>3, <1>8, <2>1 DEF Conserved
  <1> QED
    BY <1>2, <1>4, <1>5, <1>6, <1>7, <1>8

(* A store moves an item from hand to buffer, to a place of its own.       *)
LEMMA StoreMoves ==
  ASSUME Lab7Quiz3Inv, SbufInv, [Next]_vars, NEW p \in Producers, Library(p),
         NEW V \in SUBSET Items, NEW b \in Bufs, b = on[p], pc[p] = "ins_store",
         pc'[p] \notin Unstored, UNCHANGED removed,
         inserted' = [inserted EXCEPT ![b] = Append(@, item[p])]
  PROVE  IF item[p] \in V THEN Joins(InBuffers(V), InBuffers(V)', <<b, Stored(b) + 1>>)
                          ELSE UNCHANGED InBuffers(V)
  <1>1. /\ inserted[b] \in Seq(Values) /\ item[p] \in Values /\ SbufTypeOK
        /\ inserted \in [Bufs -> Seq(Values)]
        /\ Stored(b) \in Nat /\ Loaded(b) \in Nat /\ Loaded(b) <= Stored(b)
    BY Parties, Lengths DEF SbufInv, SbufTypeOK, FifoOrder
  <1>2. Stored(b) + 1 \in 1 .. ITEMS
    <2>1. Count(b, Unstored) >= 1 /\ Count(b, Unstored) \in Nat
      BY CountSome, CountType, Parties DEF Unstored, Reserved
    <2>2. Stored(b) + Count(b, Unstored) <= Cardinality(Begun(Items))
      BY DEF Lab7Quiz3Inv, InsertionsBegun
    <2>3. /\ Cardinality(Begun(Items)) \in Nat /\ Cardinality(Begun(Items)) <= ITEMS
          /\ ITEMS \in Nat
      BY CountedSets, Sizes DEF Lab7Quiz3Inv
    <2> QED
      BY <1>1, <2>1, <2>2, <2>3
  <1>3. /\ inserted'[b] = Append(inserted[b], item[p]) /\ Stored(b)' = Stored(b) + 1
        /\ \A c \in Bufs \ {b} : inserted'[c] = inserted[c] /\ Stored(c)' = Stored(c)
        /\ \A c \in Bufs : Loaded(c)' = Loaded(c)
    BY <1>1 DEF Stored, Loaded
  <1>4. /\ inserted'[b][Stored(b) + 1] = item[p]
        /\ \A k \in 1 .. Stored(b) : inserted'[b][k] = inserted[b][k]
    BY <1>1, <1>3 DEF Stored
  <1>5. ASSUME NEW c \in Bufs, NEW k \in 1 .. ITEMS
        PROVE  <<c, k>> \in InBuffers(V)' <=>
                 \/ <<c, k>> \in InBuffers(V)
                 \/ c = b /\ k = Stored(b) + 1 /\ item[p] \in V
    <2>1. /\ <<c, k>> \in InBuffers(V)
               <=> k \in Loaded(c) + 1 .. Stored(c) /\ inserted[c][k] \in V
          /\ <<c, k>> \in InBuffers(V)'
               <=> k \in Loaded(c) + 1 .. Stored(c)' /\ inserted'[c][k] \in V
      BY <1>3 DEF InBuffers
    <2>2. CASE c # b
      BY <1>3, <2>1, <2>2
    <2>3. CASE c = b /\ k = Stored(b) + 1
      <3>1. k \in Loaded(b) + 1 .. Stored(b) + 1 /\ k \notin Loaded(b) + 1 .. Stored(b)
        BY <1>1, <2>3
      <3> QED
        BY <1>3, <1>4, <2>1, <2>3, <3>1
    <2>4. CASE c = b /\ k # Stored(b) + 1
      <3>1. k \in Loaded(b) + 1 .. Stored(b)' <=> k \in Loaded(b) + 1 .. Stored(b)
        <4>1. k \in Nat
          BY Sizes
        <4> QED
          BY <1>1, <1>3, <2>4, <4>1
      <3>2. k \in Loaded(b) + 1 .. Stored(b) => k \in 1 .. Stored(b)
        BY <1>1
      <3> QED
        BY <1>4, <2>1, <2>4, <3>1, <3>2
    <2> QED
      BY <2>2, <2>3, <2>4
  <1>6. /\ InBuffers(V) \subseteq Bufs \X (1 .. ITEMS)
        /\ InBuffers(V)' \subseteq Bufs \X (1 .. ITEMS)
    BY DEF InBuffers
  <1>7. <<b, Stored(b) + 1>> \notin InBuffers(V)
    BY <1>1 DEF InBuffers
  <1>8. CASE item[p] \in V
    <2>1. InBuffers(V)' = InBuffers(V) \cup {<<b, Stored(b) + 1>>}
      BY <1>2, <1>5, <1>6, <1>8
    <2> QED
      BY <1>7, <1>8, <2>1 DEF Joins
  <1>9. CASE item[p] \notin V
    <2>1. InBuffers(V)' = InBuffers(V)
      BY <1>5, <1>6, <1>9
    <2> QED
      BY <1>9, <2>1
  <1> QED
    BY <1>8, <1>9

(* A load moves the oldest item of the buffer to the consumer's hand.      *)
LEMMA LoadMoves ==
  ASSUME Lab7Quiz3Inv, SbufInv, SbufInv', NEW V \in SUBSET Items, NEW b \in Bufs, NEW v,
         UNCHANGED inserted, removed' = [removed EXCEPT ![b] = Append(@, v)]
  PROVE  IF v \in V THEN Joins(InBuffers(V)', InBuffers(V), <<b, Loaded(b) + 1>>)
                    ELSE UNCHANGED InBuffers(V)
  <1>1. /\ Loaded(b)' = Loaded(b) + 1 /\ Loaded(b) + 1 \in 1 .. Stored(b)
        /\ \A c \in Bufs \ {b} : Loaded(c)' = Loaded(c)
        /\ v = inserted[b][Loaded(b) + 1]
        /\ \A c \in Bufs : Stored(c)' = Stored(c)
    BY LoadsOldest DEF Stored
  <1>2. Stored(b) \in Nat /\ Loaded(b) \in Nat /\ ITEMS \in Nat
    BY Lengths, Sizes DEF SbufInv
  <1>3. Loaded(b) + 1 \in 1 .. ITEMS
    <2>1. Count(b, Unstored) \in Nat
      BY CountType
    <2>2. Stored(b) + Count(b, Unstored) <= Cardinality(Begun(Items))
      BY DEF Lab7Quiz3Inv, InsertionsBegun
    <2>3. Cardinality(Begun(Items)) \in Nat /\ Cardinality(Begun(Items)) <= ITEMS
      BY CountedSets DEF Lab7Quiz3Inv
    <2> QED
      BY <1>1, <1>2, <2>1, <2>2, <2>3
  <1>4. ASSUME NEW c \in Bufs, NEW k \in 1 .. ITEMS
        PROVE  <<c, k>> \in InBuffers(V)' <=>
                 <<c, k>> \in InBuffers(V) /\ <<c, k>> # <<b, Loaded(b) + 1>>
    <2>1. /\ <<c, k>> \in InBuffers(V)
               <=> k \in Loaded(c) + 1 .. Stored(c) /\ inserted[c][k] \in V
          /\ <<c, k>> \in InBuffers(V)'
               <=> k \in Loaded(c)' + 1 .. Stored(c) /\ inserted[c][k] \in V
      BY <1>1 DEF InBuffers
    <2>2. CASE c # b
      BY <1>1, <2>1, <2>2
    <2>3. CASE c = b
      <3>1. k \in Nat
        BY <1>2
      <3>2. k \in Loaded(b)' + 1 .. Stored(b)
              <=> k \in Loaded(b) + 1 .. Stored(b) /\ k # Loaded(b) + 1
        BY <1>1, <1>2, <3>1
      <3> QED
        BY <2>1, <2>3, <3>2
    <2> QED
      BY <2>2, <2>3
  <1>5. /\ InBuffers(V) \subseteq Bufs \X (1 .. ITEMS)
        /\ InBuffers(V)' \subseteq Bufs \X (1 .. ITEMS)
    BY DEF InBuffers
  <1>6. <<b, Loaded(b) + 1>> \in InBuffers(V) <=> v \in V
    <2>1. Loaded(b) + 1 \in Loaded(b) + 1 .. Stored(b)
      BY <1>1, <1>2
    <2> QED
      BY <1>1, <1>3, <2>1 DEF InBuffers
  <1>7. InBuffers(V)' = InBuffers(V) \ {<<b, Loaded(b) + 1>>}
    BY <1>4, <1>5
  <1>8. CASE v \in V
    BY <1>6, <1>7, <1>8 DEF Joins
  <1>9. CASE v \notin V
    BY <1>6, <1>7, <1>9
  <1> QED
    BY <1>8, <1>9

Carries(t, V) == Holds(t) /\ item[t] \in V

LEMMA OneHandMoves ==
  ASSUME NEW t \in Threads, NEW V,
         \A u \in Threads \ {t} : Carries(u, V)' <=> Carries(u, V)
  PROVE  /\ (Carries(t, V)' <=> Carries(t, V)) => UNCHANGED InHands(V)
         /\ ~Carries(t, V) /\ Carries(t, V)' => Joins(InHands(V), InHands(V)', t)
         /\ Carries(t, V) /\ ~Carries(t, V)' => Joins(InHands(V)', InHands(V), t)
  <1>1. /\ InHands(V) = {u \in Threads : Carries(u, V)}
        /\ InHands(V)' = {u \in Threads : Carries(u, V)'}
    BY DEF InHands, Carries
  <1> HIDE DEF Carries
  <1>2. CASE Carries(t, V)' <=> Carries(t, V)
    <2>1. InHands(V)' = InHands(V)
      BY <1>1, <1>2
    <2> QED
      BY <1>2, <2>1
  <1>3. CASE ~Carries(t, V) /\ Carries(t, V)'
    <2>1. t \notin InHands(V) /\ InHands(V)' = InHands(V) \cup {t}
      BY <1>1, <1>3
    <2> QED
      BY <1>3, <2>1 DEF Joins
  <1>4. CASE Carries(t, V) /\ ~Carries(t, V)'
    <2>1. t \notin InHands(V)' /\ InHands(V) = InHands(V)' \cup {t}
      BY <1>1, <1>4
    <2> QED
      BY <1>4, <2>1 DEF Joins
  <1> QED
    BY <1>2, <1>3, <1>4

(* The others carry what they carried.                                     *)
LEMMA OtherHands ==
  ASSUME NEW t \in Threads, NEW V, NEW u \in Threads, u # t,
         pc'[u] = pc[u], item'[u] = item[u],
         u = consumer => (loc'[consumer] = "call" <=> loc[consumer] = "call")
  PROVE  Carries(u, V)' <=> Carries(u, V)
  BY DEF Carries, Holds

LEMMA NotedSame == ASSUME UNCHANGED valArray, NEW V PROVE UNCHANGED Noted(V)
  BY DEF Noted

LEMMA InBuffersSame == ASSUME UNCHANGED <<inserted, removed>>, NEW V PROVE UNCHANGED InBuffers(V)
  BY DEF InBuffers, Stored, Loaded

-----------------------------------------------------------------------------
(* Conservation, action by action.                                         *)
LEMMA ConservedInsert ==
  ASSUME Lab7Quiz3Inv, NEW V \in SUBSET Items, Conserved(V), NEW p \in Producers, Insert(p)
  PROVE  Conserved(V)'
  <1>1. IndexTypeOK /\ SbufTypeOK /\ ProducersInsert /\ p \in Threads
    BY Parties DEF Lab7Quiz3Inv, IndexTypeOK
  <1>2. UNCHANGED <<inserted, removed, valArray>>
    BY DEF Insert, CallInsert, hist
  <1>3. /\ pc[p] = "idle" /\ pc'[p] = "ins_wait" /\ item'[p] = i[p]
        /\ \A u \in Threads \ {p} : /\ pc'[u] = pc[u] /\ item'[u] = item[u]
                                    /\ loc'[u] = loc[u]
    BY <1>1 DEF Insert, CallInsert, Go, IndexTypeOK, SbufTypeOK
  <1>4. \A u \in Threads \ {p} : Carries(u, V)' <=> Carries(u, V)
    BY <1>1, <1>3, OtherHands
  <1>5. ~Carries(p, V) /\ (Carries(p, V)' <=> i[p] \in V)
    BY <1>3, Parties DEF Carries, Holds, Unstored, Reserved
  <1>6. CASE i[p] \in V
    <2>1. Joins(Begun(V), Begun(V)', <<p, i[p]>>)
      BY <1>1, <1>6, InsertBegins DEF Joins
    <2>2. Joins(InHands(V), InHands(V)', p)
      BY <1>1, <1>4, <1>5, <1>6, OneHandMoves
    <2>3. PICK x, y : x = <<p, i[p]>> /\ y = p
      OBVIOUS
    <2>4. Joins(Begun(V), Begun(V)', x) /\ Joins(InHands(V), InHands(V)', y)
      BY <2>1, <2>2, <2>3
    <2> QED
      BY <1>1, <1>2, <2>4, NotedSame, InBuffersSame, OneItemMoves
  <1>7. CASE i[p] \notin V
    <2>1. UNCHANGED Begun(V)
      BY <1>1, <1>7, InsertBegins
    <2>2. UNCHANGED InHands(V)
      BY <1>1, <1>4, <1>5, <1>7, OneHandMoves
    <2> QED
      BY <1>1, <1>2, <2>1, <2>2, NotedSame, InBuffersSame, OneItemMoves
  <1> QED
    BY <1>6, <1>7

LEMMA ConservedProducer ==
  ASSUME Lab7Quiz3Inv, SbufInv, NEW V \in SUBSET Items, Conserved(V),
         NEW p \in Producers, Library(p)
  PROVE  Conserved(V)'
  <1>1. /\ IndexTypeOK /\ SbufTypeOK /\ ProducersInsert /\ p \in Threads /\ p # consumer
        /\ pc \in [Threads -> Stages] /\ [Next]_vars
    BY Parties DEF Lab7Quiz3Inv, IndexTypeOK, SbufTypeOK, Next, Producer
  <1>2. UNCHANGED <<valArray, loc, i>> /\ \A q \in Producers : ~Insert(q)
    <2>1. UNCHANGED <<valArray, loc, i>>
      BY DEF Library
    <2>2. ASSUME NEW q \in Producers, Insert(q) PROVE FALSE
      BY <1>1, <2>1, <2>2, Parties DEF Insert, IndexTypeOK
    <2> QED
      BY <2>1, <2>2
  <1>3. UNCHANGED Begun(V)
    BY <1>1, <1>2, OnlyInsertBegins
  <1>4. /\ pc' = [pc EXCEPT ![p] = pc'[p]] /\ item' = item /\ removed' = removed
        /\ \/ /\ pc[p] = "ins_store" /\ pc'[p] \notin Unstored
              /\ inserted' = [inserted EXCEPT ![on[p]] = Append(@, item[p])]
           \/ (pc[p] \in Unstored <=> pc'[p] \in Unstored) /\ UNCHANGED inserted
    BY <1>1, InsertionStep DEF Library
  <1>5. \A u \in Threads \ {p} : Carries(u, V)' <=> Carries(u, V)
    <2>1. \A u \in Threads \ {p} : pc'[u] = pc[u] /\ item'[u] = item[u] /\ loc'[u] = loc[u]
      BY <1>1, <1>2, <1>4
    <2> QED
      BY <1>1, <2>1, OtherHands
  <1>6. /\ Carries(p, V) <=> pc[p] \in Unstored /\ item[p] \in V
        /\ Carries(p, V)' <=> pc'[p] \in Unstored /\ item[p] \in V
    BY <1>1, <1>4 DEF Carries, Holds
  <1>7. CASE (pc[p] \in Unstored <=> pc'[p] \in Unstored) /\ UNCHANGED inserted
    <2>1. UNCHANGED InHands(V)
      BY <1>1, <1>5, <1>6, <1>7, OneHandMoves
    <2> QED
      BY <1>1, <1>2, <1>3, <1>4, <1>7, <2>1, NotedSame, InBuffersSame, OneItemMoves
  <1>8. CASE /\ pc[p] = "ins_store" /\ pc'[p] \notin Unstored
             /\ inserted' = [inserted EXCEPT ![on[p]] = Append(@, item[p])]
    <2>1. PICK b \in Bufs : b = on[p]
      BY <1>1 DEF SbufTypeOK
    <2>2. IF item[p] \in V THEN Joins(InBuffers(V), InBuffers(V)', <<b, Stored(b) + 1>>)
                           ELSE UNCHANGED InBuffers(V)
      BY <1>1, <1>4, <1>8, <2>1, StoreMoves
    <2>3. pc[p] \in Unstored
      BY <1>8 DEF Unstored, Reserved
    <2>4. CASE item[p] \in V
      <3>1. Joins(InHands(V)', InHands(V), p)
        BY <1>1, <1>5, <1>6, <1>8, <2>3, <2>4, OneHandMoves
      <3>2. PICK x, y : x = <<b, Stored(b) + 1>> /\ y = p
        OBVIOUS
      <3>3. Joins(InBuffers(V), InBuffers(V)', x) /\ Joins(InHands(V)', InHands(V), y)
        BY <2>2, <2>4, <3>1, <3>2
      <3> QED
        BY <1>1, <1>2, <1>3, <3>3, NotedSame, OneItemMoves
    <2>5. CASE item[p] \notin V
      <3>1. UNCHANGED InHands(V)
        BY <1>1, <1>5, <1>6, <2>5, OneHandMoves
      <3> QED
        BY <1>1, <1>2, <1>3, <2>2, <2>5, <3>1, NotedSame, OneItemMoves
    <2> QED
      BY <2>4, <2>5
  <1> QED
    BY <1>4, <1>7, <1>8

LEMMA ConservedConsumer ==
  ASSUME Lab7Quiz3Inv, SbufInv, SbufInv', NEW V \in SUBSET Items, Conserved(V),
         Library(consumer)
  PROVE  Conserved(V)'
  <1> DEFINE c == consumer
  <1>1. /\ IndexTypeOK /\ SbufTypeOK /\ ConsumerTries /\ c \in Threads
        /\ pc \in [Threads -> Stages] /\ item \in [Threads -> Values] /\ [Next]_vars
    BY Parties DEF Lab7Quiz3Inv, IndexTypeOK, SbufTypeOK, Next, Consumer
  <1>2. UNCHANGED <<valArray, loc, i>> /\ \A q \in Producers : ~Insert(q)
    <2>1. UNCHANGED <<valArray, loc, i>>
      BY DEF Library
    <2>2. ASSUME NEW q \in Producers, Insert(q) PROVE FALSE
      BY <1>1, <2>1, <2>2, Parties DEF Insert, IndexTypeOK
    <2> QED
      BY <2>1, <2>2
  <1>3. UNCHANGED Begun(V)
    BY <1>1, <1>2, OnlyInsertBegins
  <1>4. /\ pc[c] # "idle" /\ pc' = [pc EXCEPT ![c] = pc'[c]] /\ loc[c] = "call"
        /\ UNCHANGED inserted
        /\ \/ /\ pc[c] = "rem_load" /\ pc'[c] = "rem_unlock"
              /\ item' = [item EXCEPT ![c] = item'[c]]
              /\ removed' = [removed EXCEPT ![on[c]] = Append(@, item'[c])]
           \/ /\ pc[c] = "try_wait" /\ pc'[c] = "idle"
              /\ item' = [item EXCEPT ![c] = EmptyMark]
              /\ UNCHANGED removed
           \/ /\ pc[c] \in Unreturned <=> pc'[c] \in {"idle"} \cup Unreturned
              /\ UNCHANGED <<item, removed>>
    BY <1>1, RemovalStep DEF Library, ConsumerTries
  <1>5. \A u \in Threads \ {c} : Carries(u, V)' <=> Carries(u, V)
    <2>1. \A u \in Threads \ {c} : pc'[u] = pc[u] /\ item'[u] = item[u] /\ loc'[u] = loc[u]
      BY <1>1, <1>2, <1>4
    <2> QED
      BY <1>1, <2>1, OtherHands
  <1>6. /\ Carries(c, V) <=> pc[c] \in Unreturned /\ item[c] \in V
        /\ Carries(c, V)' <=> pc'[c] \in {"idle"} \cup Unreturned /\ item'[c] \in V
    BY <1>2, <1>4 DEF Carries, Holds
  <1>7. CASE /\ pc[c] \in Unreturned <=> pc'[c] \in {"idle"} \cup Unreturned
             /\ UNCHANGED <<item, removed>>
    <2>1. UNCHANGED InHands(V)
      BY <1>1, <1>5, <1>6, <1>7, OneHandMoves
    <2> QED
      BY <1>1, <1>2, <1>3, <1>4, <1>7, <2>1, NotedSame, InBuffersSame, OneItemMoves
  <1>8. CASE /\ pc[c] = "try_wait" /\ item' = [item EXCEPT ![c] = EmptyMark]
             /\ UNCHANGED removed
    <2>1. item'[c] \notin V /\ pc[c] \notin Unreturned
      <3>1. item'[c] = -1
        BY <1>1, <1>8 DEF EmptyMark
      <3>2. -1 \notin Items
        BY Lab7Quiz3Assumption
      <3> QED
        BY <1>8, <3>1, <3>2 DEF Unreturned
    <2>2. UNCHANGED InHands(V)
      BY <1>1, <1>5, <1>6, <2>1, OneHandMoves
    <2> QED
      BY <1>1, <1>2, <1>3, <1>4, <1>8, <2>2, NotedSame, InBuffersSame, OneItemMoves
  <1>9. CASE /\ pc[c] = "rem_load" /\ pc'[c] = "rem_unlock"
             /\ removed' = [removed EXCEPT ![on[c]] = Append(@, item'[c])]
    <2>1. PICK b, v : b \in Bufs /\ b = on[c] /\ v = item'[c]
      BY <1>1 DEF SbufTypeOK
    <2> b \in Bufs
      BY <2>1
    <2>2. removed' = [removed EXCEPT ![b] = Append(@, v)]
      BY <1>9, <2>1
    <2>3. IF v \in V THEN Joins(InBuffers(V)', InBuffers(V), <<b, Loaded(b) + 1>>)
                     ELSE UNCHANGED InBuffers(V)
      BY <1>4, <2>2, LoadMoves
    <2>4. ~Carries(c, V) /\ (Carries(c, V)' <=> v \in V)
      BY <1>6, <1>9, <2>1 DEF Unreturned
    <2>5. CASE v \in V
      <3>1. Joins(InHands(V), InHands(V)', c)
        BY <1>1, <1>5, <2>4, <2>5, OneHandMoves
      <3>2. PICK x, y : x = <<b, Loaded(b) + 1>> /\ y = c
        OBVIOUS
      <3>3. Joins(InBuffers(V)', InBuffers(V), x) /\ Joins(InHands(V), InHands(V)', y)
        BY <2>3, <2>5, <3>1, <3>2
      <3> QED
        BY <1>1, <1>2, <1>3, <3>3, NotedSame, OneItemMoves
    <2>6. CASE v \notin V
      <3>1. UNCHANGED InHands(V)
        BY <1>1, <1>5, <2>4, <2>6, OneHandMoves
      <3> QED
        BY <1>1, <1>2, <1>3, <2>3, <2>6, <3>1, NotedSame, OneItemMoves
    <2> QED
      BY <2>5, <2>6
  <1> QED
    BY <1>4, <1>7, <1>8, <1>9

LEMMA ConservedTried ==
  ASSUME Lab7Quiz3Inv, NEW V \in SUBSET Items, Conserved(V), Tried PROVE Conserved(V)'
  <1> DEFINE c == consumer
             n == Len(valArray) + 1
  <1>1. /\ IndexTypeOK /\ ConsumerTries /\ OnlyItems /\ c \in Threads /\ [Next]_vars
        /\ valArray \in Seq(Items) /\ Len(valArray) \in Nat
        /\ loc \in [Threads -> {"unborn", "loop", "call", "done"}]
    BY Parties DEF Lab7Quiz3Inv, IndexTypeOK, Next, Consumer, OnlyItems
  <1>2. /\ UNCHANGED <<pc, item, inserted, removed>> /\ loc[c] = "call" /\ pc[c] = "idle"
        /\ loc'[c] = "loop" /\ \A u \in Threads \ {c} : loc'[u] = loc[u]
    <2>1. UNCHANGED sbufVars
      BY OutsideLeavesLibrary DEF Outside
    <2> QED
      BY <1>1, <2>1 DEF Tried, sbufVars, args, hist
  <1>3. UNCHANGED Begun(V)
    <2>1. ASSUME NEW q \in Producers, Insert(q) PROVE FALSE
      BY <1>1, <1>2, <2>1, Parties DEF Insert, IndexTypeOK
    <2> QED
      BY <1>1, <2>1, OnlyInsertBegins
  <1>4. /\ \A u \in Threads \ {c} : Carries(u, V)' <=> Carries(u, V)
        /\ Carries(c, V) <=> item[c] \in V
        /\ ~Carries(c, V)'
    BY <1>1, <1>2, OtherHands DEF Carries, Holds
  <1>5. item[c] \in Items \cup {EmptyMark} /\ EmptyMark \notin Items
    <2>1. item[c] \in Items \cup {EmptyMark}
      BY <1>1, <1>2 DEF ConsumerTries, Holds
    <2>2. EmptyMark \notin Items
      BY Lab7Quiz3Assumption DEF EmptyMark
    <2> QED
      BY <2>1, <2>2
  <1>6. CASE item[c] = EmptyMark
    <2>1. UNCHANGED valArray /\ item[c] \notin V
      BY <1>5, <1>6 DEF Tried
    <2>2. UNCHANGED InHands(V)
      BY <1>1, <1>4, <2>1, OneHandMoves
    <2> QED
      BY <1>1, <1>2, <1>3, <2>1, <2>2, NotedSame, InBuffersSame, OneItemMoves
  <1>7. CASE item[c] # EmptyMark
    <2>1. /\ valArray' = Append(valArray, item[c]) /\ item[c] \in Items
          /\ Len(valArray') = n /\ valArray'[n] = item[c]
          /\ \A k \in 1 .. Len(valArray) : valArray'[k] = valArray[k]
      BY <1>1, <1>5, <1>7 DEF Tried
    <2>2. Noted(V)' = IF item[c] \in V THEN Noted(V) \cup {n} ELSE Noted(V)
      <3>1. ASSUME NEW k \in 1 .. n
            PROVE  k \in Noted(V)' <=> k \in Noted(V) \/ (k = n /\ item[c] \in V)
        <4>1. k \in Noted(V)' <=> valArray'[k] \in V
          BY <2>1 DEF Noted
        <4>2. CASE k = n
          <5>1. k \notin Noted(V)
            BY <1>1, <4>2 DEF Noted
          <5> QED
            BY <2>1, <4>1, <4>2, <5>1
        <4>3. CASE k # n
          <5>1. k \in 1 .. Len(valArray)
            BY <1>1, <4>3
          <5> QED
            BY <2>1, <4>1, <4>3, <5>1 DEF Noted
        <4> QED
          BY <4>2, <4>3
      <3>2. Noted(V) \subseteq 1 .. n /\ Noted(V)' \subseteq 1 .. n /\ n \in 1 .. n
        BY <1>1, <2>1 DEF Noted
      <3> QED
        BY <3>1, <3>2
    <2>3. n \notin Noted(V)
      BY <1>1 DEF Noted
    <2>4. CASE item[c] \in V
      <3>1. Joins(Noted(V), Noted(V)', n)
        BY <2>2, <2>3, <2>4 DEF Joins
      <3>2. Joins(InHands(V)', InHands(V), c)
        BY <1>1, <1>4, <2>4, OneHandMoves
      <3>3. PICK x, y : x = n /\ y = c
        OBVIOUS
      <3>4. Joins(Noted(V), Noted(V)', x) /\ Joins(InHands(V)', InHands(V), y)
        BY <3>1, <3>2, <3>3
      <3> QED
        BY <1>1, <1>2, <1>3, <3>4, InBuffersSame, OneItemMoves
    <2>5. CASE item[c] \notin V
      <3>1. UNCHANGED InHands(V)
        BY <1>1, <1>4, <2>5, OneHandMoves
      <3> QED
        BY <1>1, <1>2, <1>3, <2>2, <2>5, <3>1, InBuffersSame, OneItemMoves
    <2> QED
      BY <2>4, <2>5
  <1> QED
    BY <1>6, <1>7

(* Every other step leaves all items where they are.                       *)
LEMMA ConservedElsewhere ==
  ASSUME Lab7Quiz3Inv, NEW V \in SUBSET Items, Conserved(V), [Next]_vars,
         \A p \in Producers : ~Insert(p), \A t \in Threads : ~Library(t), ~Tried
  PROVE  Conserved(V)'
  <1>1. /\ IndexTypeOK /\ SbufTypeOK /\ ProducersInsert /\ ConsumerTries
        /\ pc \in [Threads -> Stages]
        /\ loc \in [Threads -> {"unborn", "loop", "call", "done"}]
    BY DEF Lab7Quiz3Inv, IndexTypeOK, SbufTypeOK
  <1>2. UNCHANGED Begun(V)
    BY OnlyInsertBegins
  <1>3. CASE TryNext
    <2>1. UNCHANGED <<inserted, removed, valArray, item>>
      BY <1>3 DEF TryNext, CallTryRemove, hist
    <2>2. /\ pc'[consumer] = "try_wait" /\ loc[consumer] = "loop"
          /\ \A u \in Threads \ {consumer} : pc'[u] = pc[u]
      BY <1>1, <1>3, Parties DEF TryNext, CallTryRemove, Go
    <2>3. \A u \in Threads \ {consumer} : Carries(u, V)' <=> Carries(u, V)
      BY <2>1, <2>2, OtherHands, Parties
    <2>4. ~Carries(consumer, V) /\ ~Carries(consumer, V)'
      BY <2>2 DEF Carries, Holds, Unreturned
    <2>5. UNCHANGED InHands(V)
      BY <2>3, <2>4, OneHandMoves, Parties
    <2> QED
      BY <1>1, <1>2, <2>1, <2>5, NotedSame, InBuffersSame, OneItemMoves
  <1>4. CASE ~TryNext
    <2>1. UNCHANGED sbufVars
      BY <1>4, Sorted, OutsideLeavesLibrary DEF vars
    <2>2. /\ UNCHANGED <<pc, item, inserted, removed, valArray>>
          /\ loc'[consumer] = "call" <=> loc[consumer] = "call"
      <3>1. CASE Tally
        BY <1>1, <2>1, <3>1, Parties DEF Tally, sbufVars, args, hist
      <3>2. CASE \/ UNCHANGED vars \/ InitBuffers \/ Exit \/ (\E t \in Threads : Start(t))
                 \/ \E p \in Producers : Inserted(p) \/ ProducerDone(p) \/ Oops(p)
        BY <2>1, <3>2, OthersLeaveConsumer DEF sbufVars, args, hist
      <3> QED
        BY <1>4, <3>1, <3>2, Sorted DEF Outside
    <2>3. \A u \in Threads \ {consumer} : Carries(u, V)' <=> Carries(u, V)
      BY <2>2, OtherHands, Parties
    <2>4. Carries(consumer, V)' <=> Carries(consumer, V)
      BY <2>2 DEF Carries, Holds
    <2>5. UNCHANGED InHands(V)
      BY <2>3, <2>4, OneHandMoves, Parties
    <2> QED
      BY <1>1, <1>2, <2>2, <2>5, NotedSame, InBuffersSame, OneItemMoves
  <1> QED
    BY <1>3, <1>4

LEMMA ConservationStep ==
  ASSUME Lab7Quiz3Inv, SbufInv, SbufInv', EveryItemSomewhere, [Next]_vars
  PROVE  EveryItemSomewhere'
  <1>1. /\ EveryItemSomewhere <=> \A V \in SUBSET Items : Conserved(V)
        /\ EveryItemSomewhere' <=> \A V \in SUBSET Items : Conserved(V)'
    BY DEF EveryItemSomewhere, Conserved
  <1>2. ASSUME NEW V \in SUBSET Items PROVE Conserved(V)'
    <2>1. Conserved(V)
      BY <1>1
    <2> QED
      BY <2>1, ConservedInsert, ConservedProducer, ConservedConsumer, ConservedTried,
         ConservedElsewhere, Parties
  <1> QED
    BY <1>1, <1>2

-----------------------------------------------------------------------------
(* The tally.  ITEMS items noted are all there are, so every insertion has *)
(* begun and nothing is left in a buffer or in a hand; value by value, the *)
(* noted are then the begun, one per producer.                             *)
LEMMA AllNoted ==
  ASSUME Lab7Quiz3Inv, EveryItemSomewhere, Len(valArray) >= ITEMS, NEW v \in Items
  PROVE  Cardinality({k \in 1 .. ITEMS : valArray[k] = v}) = Cardinality(Producers)
  <1>1. /\ IndexTypeOK /\ OnlyItems /\ ITEMS \in Nat /\ Len(valArray) = ITEMS
        /\ Items \in SUBSET Items /\ {v} \in SUBSET Items
    BY Sizes DEF Lab7Quiz3Inv, IndexTypeOK
  <1>2. Conserved(Items) /\ Conserved({v})
    BY <1>1 DEF EveryItemSomewhere, Conserved
  <1>3. Cardinality(Noted(Items)) = ITEMS
    <2>1. Noted(Items) = 1 .. ITEMS
      BY <1>1 DEF Noted, OnlyItems
    <2> QED
      BY <1>1, <2>1, FS_Interval
  <1>4. /\ Cardinality(Begun(Items)) = ITEMS
        /\ Cardinality(InBuffers(Items)) = 0 /\ Cardinality(InHands(Items)) = 0
    BY <1>1, <1>2, <1>3, CountedSets DEF Conserved
  <1>5. InBuffers(Items) = {} /\ InHands(Items) = {}
    BY <1>1, <1>4, CountedSets, FS_EmptySet
  <1>6. InBuffers({v}) = {} /\ InHands({v}) = {}
    BY <1>5 DEF InBuffers, InHands
  <1>7. Begun(Items) = Producers \X Items
    <2>1. Begun(Items) \in SUBSET (Producers \X Items)
      BY DEF Begun
    <2> QED
      BY <1>4, <2>1, Sizes, FS_Subset
  <1>8. Begun({v}) = Producers \X {v}
    <2>1. Begun({v}) = Begun(Items) \cap (Producers \X {v})
      BY DEF Begun
    <2> QED
      BY <1>7, <2>1
  <1>9. Cardinality(Begun({v})) = Cardinality(Producers)
    <2>1. IsFiniteSet({v}) /\ Cardinality({v}) = 1
      BY FS_Singleton
    <2>2. Cardinality(Producers \X {v}) = Cardinality(Producers) * Cardinality({v})
      BY <2>1, Sizes, FS_Product
    <2>3. Cardinality(Begun({v})) = Cardinality(Producers \X {v})
      BY <1>8
    <2> DEFINE n == Cardinality(Producers)
               one == Cardinality({v})
    <2>4. n \in Nat /\ one = 1
      BY <2>1, Sizes
    <2>5. Cardinality(Begun({v})) = n * one
      BY <2>2, <2>3
    <2> HIDE DEF n, one
    <2>6. Cardinality(Begun({v})) = n
      BY <2>4, <2>5
    <2> QED
      BY <2>6 DEF n
  <1>10. Cardinality(Noted({v})) = Cardinality(Begun({v}))
    <2>1. Cardinality(InBuffers({v})) = 0 /\ Cardinality(InHands({v})) = 0
      BY <1>6, FS_EmptySet
    <2>2. Cardinality(Noted({v})) \in Nat
      BY <1>1, CountedSets
    <2> QED
      BY <1>2, <2>1, <2>2 DEF Conserved
  <1>11. Noted({v}) = {k \in 1 .. ITEMS : valArray[k] = v}
    BY <1>1 DEF Noted
  <1> QED
    BY <1>9, <1>10, <1>11

LEMMA TallyStep ==
  ASSUME Lab7Quiz3Inv, EveryItemSomewhere, EveryValueFromEveryProducer, [Next]_vars
  PROVE  EveryValueFromEveryProducer'
  <1>1. /\ IndexTypeOK /\ loc \in [Threads -> {"unborn", "loop", "call", "done"}]
    BY DEF Lab7Quiz3Inv, IndexTypeOK
  <1>2. CASE Tally
    <2>1. \A v \in Items : valCount'[v] = Cardinality({k \in 1 .. ITEMS : valArray[k] = v})
      BY <1>2 DEF Tally
    <2>2. Len(valArray) >= ITEMS
      BY <1>2 DEF Tally
    <2> QED
      BY <2>1, <2>2, AllNoted DEF EveryValueFromEveryProducer
  <1>3. CASE TryNext \/ Tried
    BY <1>1, <1>3, Parties DEF TryNext, Tried, EveryValueFromEveryProducer
  <1>4. CASE Library(consumer)
    BY <1>4 DEF Library, EveryValueFromEveryProducer
  <1>5. CASE \/ UNCHANGED vars \/ InitBuffers \/ Exit \/ (\E t \in Threads : Start(t))
             \/ \E p \in Producers :
                  Insert(p) \/ Inserted(p) \/ ProducerDone(p) \/ Oops(p) \/ Library(p)
    BY <1>5, OthersLeaveConsumer DEF EveryValueFromEveryProducer
  <1> QED
    BY <1>2, <1>3, <1>4, <1>5 DEF Next, Producer, Consumer

-----------------------------------------------------------------------------
Quiz3Invariant ==
  Lab7Quiz3Inv /\ SbufInv /\ EveryItemSomewhere /\ EveryValueFromEveryProducer

LEMMA Quiz3InvStep ==
  ASSUME MaxInserts <= IntMax, Quiz3Invariant, [Next]_vars PROVE Quiz3Invariant'
  <1>1. Lab7Quiz3Inv /\ SbufInv /\ EveryItemSomewhere /\ EveryValueFromEveryProducer
    BY DEF Quiz3Invariant
  <1>2. SbufInv'
    BY <1>1, ImplementsStep, InvStep
  <1>3. IndexTypeOK' /\ ProducersInsert' /\ NotYetStarted'
    <2>1. CASE UNCHANGED vars
      <3>1. IndexTypeOK /\ ProducersInsert /\ NotYetStarted
        BY <1>1 DEF Lab7Quiz3Inv
      <3>2. UNCHANGED <<pc, item>>
        BY <2>1 DEF vars, sbufVars, args
      <3>3. SbufTypeOK'
        BY <1>2 DEF SbufInv
      <3>4. IndexTypeOK' /\ NotYetStarted'
        BY <2>1, <3>1, <3>3 DEF vars, IndexTypeOK, NotYetStarted
      <3>5. ProducersInsert'
        BY <2>1, <3>1, <3>2 DEF vars, ProducersInsert
      <3> QED
        BY <3>4, <3>5
    <2> QED
      BY <1>1, <2>1, ModuleStep, ConsumerStep, ProducerStep, LibraryStep, Parties
         DEF Next, Producer, Consumer
  <1>4. Lab7Quiz3Inv'
    BY <1>1, <1>2, <1>3, ConsumerTriesStep, OnlyItemsStep, InsertionsStep DEF Lab7Quiz3Inv
  <1> QED
    BY <1>1, <1>2, <1>4, ConservationStep, TallyStep DEF Quiz3Invariant

LEMMA Quiz3Invariance == ASSUME MaxInserts <= IntMax PROVE Spec => []Quiz3Invariant
  <1>1. Init => Quiz3Invariant
    BY Quiz3Init, InvInit DEF Quiz3Invariant, Init
  <1> QED
    BY <1>1, Quiz3InvStep, PTL DEF Spec

(* Producers at random and a consumer that polls use sbuf.c as any callers *)
(* may: all that is proved of the library holds in lab7_quiz3.c.           *)
THEOREM RandomCallersUseTheLibrary ==
  ASSUME MaxInserts <= IntMax PROVE Spec => SbufSpec
  <1>1. Init => SbufInit
    BY DEF Init
  <1>2. Quiz3Invariant /\ [Next]_vars => [SbufNext]_sbufVars
    BY ImplementsStep DEF Quiz3Invariant
  <1> QED
    BY <1>1, <1>2, Quiz3Invariance, PTL DEF Spec, SbufSpec

(* Whatever get_random_bytes yields, the index made of it is that of a     *)
(* buffer, and the consumer's arrays keep within their bounds.             *)
THEOREM RandomIndexesStayInside == ASSUME MaxInserts <= IntMax PROVE Spec => []IndexTypeOK
  BY Quiz3Invariance, PTL DEF Quiz3Invariant, Lab7Quiz3Inv

(* No item is lost or doubled between a producer's loop and buf_val_array. *)
THEOREM ItemsAreConserved ==
  ASSUME MaxInserts <= IntMax PROVE Spec => []EveryItemSomewhere
  BY Quiz3Invariance, PTL DEF Quiz3Invariant

(* The counts the consumer prints at its end are one per producer.         *)
THEOREM CountsAreComplete ==
  ASSUME MaxInserts <= IntMax PROVE Spec => []EveryValueFromEveryProducer
  BY Quiz3Invariance, PTL DEF Quiz3Invariant
=============================================================================
