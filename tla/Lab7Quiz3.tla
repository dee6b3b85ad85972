----------------------------- MODULE Lab7Quiz3 -----------------------------
(***************************************************************************)
(* lab7_quiz3.c: producers that spread their items over several buffers at *)
(* random, and one consumer that goes round the buffers with               *)
(* sbuf_tryremove until it has ITEMS items and then counts how often it    *)
(* received each value.                                                    *)
(***************************************************************************)
EXTENDS Sbuf

CONSTANTS
  Producers, consumer,  \* the threads
  NUM_SBUF,             \* the buffers are sbufs[0] .. sbufs[NUM_SBUF - 1]
  PER_PRODUCER,         \* items each producer inserts: 0 .. PER_PRODUCER - 1
  ITEMS,                \* items the consumer waits for
  RandMin, RandMax      \* the range of a random int (INT_MIN .. INT_MAX)

ASSUME Lab7Quiz3Assumption ==
  /\ Threads = Producers \cup {consumer} /\ consumer \notin Producers
  /\ NUM_SBUF \in Nat \ {0} /\ Bufs = 0 .. NUM_SBUF - 1
  /\ PER_PRODUCER \in Nat /\ Items = 0 .. PER_PRODUCER - 1
  /\ ITEMS = PER_PRODUCER * Cardinality(Producers)
  /\ RandMax \in Nat /\ RandMin = -RandMax - 1
  /\ (RandMax + 1) % NUM_SBUF = 0    \* 4 divides 2^31: INT_MIN becomes index 0
  /\ MaxInserts >= ITEMS

VARIABLES
  waiting,    \* the threads simple_init has not started yet
  module,     \* "absent", "failed", "live", "arrayless", "gone"
  arrays,     \* the buffers sbuf_init got memory for
  dead,       \* the threads killed by an oops
  loc,        \* by thread: "unborn", "loop", "call", "done"; consumer "tally"
  i,          \* by producer: the loop counter
  index,      \* the consumer's buf_index
  valArray,   \* buf_val_array, filled up to the consumer's count
  valCount    \* buf_val_count

vars == <<sbufVars, waiting, module, arrays, dead, loc, i, index, valArray, valCount>>

Init ==
  /\ SbufInit
  /\ waiting = Threads /\ module = "absent"
  /\ arrays = Bufs /\ dead = {}
  /\ loc = [t \in Threads |-> "unborn"]
  /\ i = [p \in Producers |-> 0]
  /\ index = 0
  /\ valArray = << >>
  /\ valCount = [v \in Items |-> 0]

-----------------------------------------------------------------------------
(* simple_init: the buffers, every producer, then the consumer.  Nobody    *)
(* looks whether there was memory for the table (insmod dies in sbuf_init  *)
(* if not) or for each array, nor at the result of kthread_run.            *)
InitBuffers ==
  /\ module = "absent" /\ module' \in {"live", "failed"}
  /\ arrays' \in SUBSET Bufs
  /\ UNCHANGED <<sbufVars, waiting, dead, loc, i, index, valArray, valCount>>

Start(t) ==
  /\ module = "live" /\ t \in waiting
  /\ t = consumer => waiting = {consumer}
  /\ waiting' = waiting \ {t}
  /\ \E l \in {"loop", "unborn"} : loc' = [loc EXCEPT ![t] = l]
  /\ UNCHANGED <<sbufVars, module, arrays, dead, i, index, valArray, valCount>>

(* simple_exit, which waits for nobody: kfree of the arrays, one by one,   *)
(* then of the table.  A thread that outlives its buffer runs on freed     *)
(* memory: the model follows the threads while all buffers are there.      *)
Exit ==
  /\ \/ module = "live" /\ waiting = {} /\ module' = "arrayless"
     \/ module = "arrayless" /\ module' = "gone"
  /\ UNCHANGED <<sbufVars, waiting, arrays, dead, loc, i, index, valArray, valCount>>

Mapped == module = "live"

-----------------------------------------------------------------------------
(* Mutant: the sign of the random int is not looked at.                    *)
SignedIndex(r) == IF r >= 0 THEN r % NUM_SBUF ELSE -((-r) % NUM_SBUF)

(* A random int made an index: negated when negative, which INT_MIN        *)
(* survives, and reduced with the C remainder.                             *)
Rem(a, n) == IF a >= 0 THEN a % n ELSE -((-a) % n)
Negate(a) == IF a = RandMin THEN RandMin ELSE -a
BufIndex(r) == Rem(IF r < 0 THEN Negate(r) ELSE r, NUM_SBUF)

Insert(p) ==
  /\ Mapped /\ loc[p] = "loop" /\ i[p] < PER_PRODUCER
  /\ \E r \in RandMin .. RandMax : CallInsert(p, BufIndex(r), i[p])
  /\ loc' = [loc EXCEPT ![p] = "call"]
  /\ UNCHANGED <<waiting, module, arrays, dead, i, index, valArray, valCount>>

Inserted(p) ==
  /\ Mapped /\ loc[p] = "call" /\ pc[p] = "idle"
  /\ i' = [i EXCEPT ![p] = @ + 1]
  /\ loc' = [loc EXCEPT ![p] = "loop"]
  /\ UNCHANGED <<sbufVars, waiting, module, arrays, dead, index, valArray, valCount>>

ProducerDone(p) ==
  /\ Mapped /\ loc[p] = "loop" /\ i[p] >= PER_PRODUCER
  /\ loc' = [loc EXCEPT ![p] = "done"]
  /\ UNCHANGED <<sbufVars, waiting, module, arrays, dead, i, index, valArray, valCount>>

-----------------------------------------------------------------------------
(* The consumer tries the buffers in turn, starting again from the first.  *)
TryNext ==
  /\ Mapped /\ loc[consumer] = "loop" /\ Len(valArray) < ITEMS
  /\ CallTryRemove(consumer, index)
  /\ loc' = [loc EXCEPT ![consumer] = "call"]
  /\ UNCHANGED <<waiting, module, arrays, dead, i, index, valArray, valCount>>

(* Mutants: -1 is noted like an item; the consumer stays at one buffer.    *)
TriedUnchecked ==
  /\ Mapped /\ loc[consumer] = "call" /\ pc[consumer] = "idle"
  /\ valArray' = Append(valArray, item[consumer])
  /\ index' = (index + 1) % NUM_SBUF
  /\ loc' = [loc EXCEPT ![consumer] = "loop"]
  /\ UNCHANGED <<sbufVars, waiting, module, arrays, dead, i, valCount>>

TriedSameAgain ==
  /\ Mapped /\ loc[consumer] = "call" /\ pc[consumer] = "idle"
  /\ valArray' = IF item[consumer] = EmptyMark THEN valArray
                 ELSE Append(valArray, item[consumer])
  /\ loc' = [loc EXCEPT ![consumer] = "loop"]
  /\ UNCHANGED <<sbufVars, waiting, module, arrays, dead, i, index, valCount>>

(* An item is noted in buf_val_array; -1 is not an item.  The count of     *)
(* items taken is the filled length of the array.                          *)
Tried ==
  /\ Mapped /\ loc[consumer] = "call" /\ pc[consumer] = "idle"
  /\ valArray' = IF item[consumer] = EmptyMark THEN valArray
                 ELSE Append(valArray, item[consumer])
  /\ index' = (index + 1) % NUM_SBUF
  /\ loc' = [loc EXCEPT ![consumer] = "loop"]
  /\ UNCHANGED <<sbufVars, waiting, module, arrays, dead, i, valCount>>

(* buf_val_count[v] = how often v is in buf_val_array.                     *)
Tally ==
  /\ Mapped /\ loc[consumer] = "loop" /\ Len(valArray) >= ITEMS
  /\ valCount' = [v \in Items |-> Cardinality({k \in 1 .. ITEMS : valArray[k] = v})]
  /\ loc' = [loc EXCEPT ![consumer] = "done"]
  /\ UNCHANGED <<sbufVars, waiting, module, arrays, dead, i, index, valArray>>

(* A call of the library, up to an access to the array if there is none,   *)
(* which kills the thread while it holds the buffer's mutex.               *)
AtNoArray(t) == on[t] \notin arrays /\ pc[t] \in {"ins_store", "rem_load"}

Library(t) ==
  /\ Mapped /\ ~AtNoArray(t)
  /\ Step(t)
  /\ UNCHANGED <<waiting, module, arrays, dead, loc, i, index, valArray, valCount>>

Oops(t) ==
  /\ Mapped /\ AtNoArray(t) /\ t \notin dead
  /\ dead' = dead \cup {t}
  /\ UNCHANGED <<sbufVars, waiting, module, arrays, loc, i, index, valArray, valCount>>

Producer(p) == Insert(p) \/ Inserted(p) \/ ProducerDone(p) \/ Library(p) \/ Oops(p)
Consumer == TryNext \/ Tried \/ Tally \/ Library(consumer)

Next ==
  \/ InitBuffers \/ \E t \in Threads : Start(t)
  \/ \E p \in Producers : Producer(p)
  \/ Consumer
  \/ Exit

(* insmod runs to its end and the scheduler runs every thread that can     *)
(* move; the random numbers owe nobody anything.                           *)
Fairness ==
  /\ WF_vars(InitBuffers) /\ WF_vars(\E t \in Threads : Start(t))
  /\ \A p \in Producers : WF_vars(Producer(p))
  /\ WF_vars(Consumer)

Spec == Init /\ [][Next]_vars /\ Fairness

-----------------------------------------------------------------------------
(* SbufTypeOK says among others that whatever get_random_bytes yields,     *)
(* INT_MIN included, the index made of it is that of a buffer.  The        *)
(* consumer never dies: nothing is announced in a buffer without an array. *)
IndexTypeOK ==
  /\ SbufTypeOK
  /\ waiting \subseteq Threads /\ module \in {"absent", "failed", "live", "arrayless", "gone"}
  /\ arrays \subseteq Bufs /\ dead \subseteq Producers
  /\ loc \in [Threads -> {"unborn", "loop", "call", "done"}]
  /\ i \in [Producers -> 0 .. PER_PRODUCER]
  /\ index \in Bufs
  /\ valArray \in Seq(Values) /\ Len(valArray) <= ITEMS
  /\ valCount \in [Items -> Nat]

(* Conservation: an item is in exactly one place at any time.  For every   *)
(* set of values, the insertions begun are as many as the copies noted by  *)
(* the consumer, those in the buffers, and those in the hands of threads   *)
(* inside a call.                                                          *)
Begun(V) ==
  {turn \in Producers \X V :
     \/ turn[2] < i[turn[1]]
     \/ turn[2] = i[turn[1]] /\ loc[turn[1]] = "call"}

Noted(V) == {k \in 1 .. Len(valArray) : valArray[k] \in V}

InBuffers(V) ==
  {place \in Bufs \X (1 .. ITEMS) :
     /\ place[2] \in Loaded(place[1]) + 1 .. Stored(place[1])
     /\ inserted[place[1]][place[2]] \in V}

Holds(t) == IF t = consumer
            THEN loc[t] = "call" /\ pc[t] \in {"idle"} \cup Unreturned
            ELSE pc[t] \in Unstored

InHands(V) == {t \in Threads : Holds(t) /\ item[t] \in V}

EveryItemSomewhere ==
  \A V \in SUBSET Items :
    Cardinality(Begun(V)) =
      Cardinality(Noted(V)) + Cardinality(InBuffers(V)) + Cardinality(InHands(V))

(* "buf val %d = removed %d times": every value arrives once per producer. *)
EveryValueFromEveryProducer ==
  loc[consumer] = "done" =>
    \A v \in Items : valCount[v] = Cardinality(Producers)

(* With all threads and arrays there, and unless rmmod comes first, the    *)
(* consumer gets its ITEMS items: no random choice of buffers lets full    *)
(* buffers and the polling order stall it.                                 *)
AllStarted == arrays = Bufs /\ \A t \in Threads : loc[t] # "unborn"
AllDone == \A t \in Threads : loc[t] = "done"
EverybodyFinishes == AllStarted ~> AllDone \/ ~Mapped

-----------------------------------------------------------------------------
(* The inductive invariant, over the types and EveryItemSomewhere: threads *)
(* keep to their side of the library, where a producer carries its loop    *)
(* counter and the consumer an item or -1, ...                             *)
ProducersInsert ==
  \A p \in Producers :
    /\ pc[p] \in {"idle"} \cup Unstored \cup Unannounced
    /\ pc[p] # "idle" => loc[p] = "call"
    /\ pc[p] \in Unstored => item[p] = i[p]
    /\ loc[p] = "call" => i[p] < PER_PRODUCER

ConsumerTries ==
  /\ pc[consumer] \in {"idle", "try_wait"} \cup Claimed \cup Unreturned
  /\ pc[consumer] # "idle" => loc[consumer] = "call"
  /\ loc[consumer] = "call" => Len(valArray) < ITEMS
  /\ Holds(consumer) => item[consumer] \in Items \cup {EmptyMark}

NotYetStarted ==
  /\ module = "absent" => waiting = Threads
  /\ \A t \in waiting : loc[t] = "unborn"

(* ... what was stored and noted are items, and no buffer sees more        *)
(* insertions than the producers began.                                    *)
OnlyItems ==
  /\ \A b \in Bufs : \A k \in 1 .. Stored(b) : inserted[b][k] \in Items
  /\ valArray \in Seq(Items)

InsertionsBegun ==
  \A b \in Bufs : Stored(b) + Count(b, Unstored) <= Cardinality(Begun(Items))

Lab7Quiz3Inv ==
  /\ IndexTypeOK /\ ProducersInsert /\ ConsumerTries /\ NotYetStarted
  /\ OnlyItems /\ InsertionsBegun
=============================================================================
