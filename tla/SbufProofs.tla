----------------------------- MODULE SbufProofs -----------------------------
(***************************************************************************)
(* Proofs about the buffer library, for any number of threads, buffers,   *)
(* slots and values.  The one restriction is MaxInserts <= IntMax: below   *)
(* INT_MAX insertions, front and rear do not wrap.                         *)
(***************************************************************************)
EXTENDS Sbuf, FiniteSetTheorems, TLAPS

LEMMA CellRange == \A i \in Nat : i % SBUFSIZE \in Cells /\ Cell(i) = i % SBUFSIZE
  BY SbufAssumption DEF Cells, Cell

(* Two counts closer than the size of the ring name different cells.       *)
LEMMA CellsDiffer ==
  ASSUME NEW i \in Nat, NEW j \in Nat, i < j, j - i < SBUFSIZE
  PROVE  i % SBUFSIZE # j % SBUFSIZE
  <1> DEFINE n == SBUFSIZE
             q == i \div n
             r == j \div n
  <1>1. n \in Nat /\ n > 0
    BY SbufAssumption
  <1> HIDE DEF n
  <1>2. /\ q \in Nat /\ r \in Nat
        /\ i = (n * q) + (i % n) /\ j = (n * r) + (j % n)
        /\ i % n \in 0 .. n - 1 /\ j % n \in 0 .. n - 1
    BY <1>1
  <1>3. SUFFICES ASSUME i % n = j % n PROVE FALSE
    BY DEF n
  <1>4. j - i < n
    BY DEF n
  <1>5. CASE r <= q
    <2>1. n * r <= n * q
      BY <1>1, <1>2, <1>5
    <2> QED
      BY <1>1, <1>2, <1>3, <2>1
  <1>6. CASE r >= q + 1
    <2>1. n * r >= n * (q + 1) /\ n * (q + 1) = (n * q) + n
      BY <1>1, <1>2, <1>6
    <2> QED
      BY <1>1, <1>2, <1>3, <1>4, <2>1
  <1> QED
    BY <1>2, <1>5, <1>6

LEMMA CountType ==
  ASSUME NEW b, NEW S PROVE Count(b, S) \in Nat /\ IsFiniteSet(At(b, S))
  <1>1. At(b, S) \in SUBSET Threads
    BY DEF At
  <1> QED
    BY <1>1, FS_Subset, FS_CardinalityType, SbufAssumption DEF Count

(* How a count changes when only thread t moves: Was says that t was at a  *)
(* stage of S on buffer b, Is that it is there now.                        *)
LEMMA CountMove ==
  ASSUME NEW t \in Threads, NEW b, NEW S,
         \A u \in Threads \ {t} : pc'[u] = pc[u] /\ on'[u] = on[u],
         NEW Was \in BOOLEAN, Was <=> (on[t] = b /\ pc[t] \in S),
         NEW Is \in BOOLEAN, Is <=> (on'[t] = b /\ pc'[t] \in S)
  PROVE  /\ Was /\ Is => Count(b, S)' = Count(b, S)
         /\ Was /\ ~Is => Count(b, S)' = Count(b, S) - 1
         /\ ~Was /\ Is => Count(b, S)' = Count(b, S) + 1
         /\ ~Was /\ ~Is => Count(b, S)' = Count(b, S)
  <1>1. (t \in At(b, S) <=> Was) /\ (t \in At(b, S)' <=> Is)
    BY DEF At
  <1>2. /\ Is => At(b, S)' = At(b, S) \cup {t}
        /\ ~Is => At(b, S)' = At(b, S) \ {t}
    BY <1>1 DEF At
  <1>3. Count(b, S) \in Nat /\ IsFiniteSet(At(b, S))
    BY CountType
  <1>4. /\ Was => At(b, S) \cup {t} = At(b, S)
        /\ ~Was => At(b, S) \ {t} = At(b, S)
    BY <1>1
  <1>5. Was => Cardinality(At(b, S) \ {t}) = Count(b, S) - 1
    BY <1>1, <1>3, FS_RemoveElement DEF Count
  <1>6. ~Was => Cardinality(At(b, S) \cup {t}) = Count(b, S) + 1
    BY <1>1, <1>3, FS_AddElement DEF Count
  <1>7. Count(b, S)' = Cardinality(At(b, S)')
    BY DEF Count
  <1> QED
    BY <1>2, <1>4, <1>5, <1>6, <1>7 DEF Count

-----------------------------------------------------------------------------
(* The stages of one call, and the sets of stages, as a single citation.   *)
LEMMA StageSets ==
  /\ Reserved \subseteq Stages /\ Unstored \subseteq Stages
  /\ Critical \subseteq Stages /\ Claimed \subseteq Stages
  /\ Unannounced \subseteq Stages /\ Unreturned \subseteq Stages
  BY DEF Stages, Waiting, Reserved, Unstored, Critical, Claimed, Unannounced, Unreturned

LEMMA TypeInit == SbufInit => SbufTypeOK
  <1> SUFFICES ASSUME SbufInit PROVE SbufTypeOK
    OBVIOUS
  <1>1. (CHOOSE b \in Bufs : TRUE) \in Bufs
    BY SbufAssumption
  <1>2. InitialMutex \in Nat /\ InitialSlots \in Nat /\ 0 \in Ints
    BY SbufAssumption DEF InitialMutex, InitialSlots, Ints
  <1> QED
    BY <1>1, <1>2 DEF SbufInit, SbufTypeOK, Values, Stages

LEMMA TypeStep == SbufTypeOK /\ [SbufNext]_sbufVars => SbufTypeOK'
  <1> SUFFICES ASSUME SbufTypeOK, [SbufNext]_sbufVars PROVE SbufTypeOK'
    OBVIOUS
  <1> USE DEF SbufTypeOK, data, sems, args, hist, Go
  <1>1. CASE UNCHANGED sbufVars
    BY <1>1 DEF sbufVars
  <1>2. ASSUME NEW t \in Threads, NEW b \in Bufs, SomeCall(t, b) PROVE SbufTypeOK'
    <2>1. CASE \E v \in Items : CallInsert(t, b, v)
      BY <2>1 DEF CallInsert, Stages, Waiting, Values
    <2>2. CASE CallRemove(t, b)
      BY <2>2 DEF CallRemove, Stages, Waiting
    <2>3. CASE CallTryRemove(t, b)
      BY <2>3 DEF CallTryRemove, Stages
    <2> QED
      BY <1>2, <2>1, <2>2, <2>3 DEF SomeCall
  <1>3. ASSUME NEW t \in Threads, Step(t) PROVE SbufTypeOK'
    <2>0. on[t] \in Bufs /\ item[t] \in Values
      OBVIOUS
    <2>1. CASE DownSlots(t)
      BY <2>0, <2>1 DEF DownSlots, Down, Stages, Reserved
    <2>2. CASE DownItems(t)
      <3>1. pc' \in [Threads -> Stages]
        BY <2>2 DEF DownItems, Stages, Claimed
      <3> QED
        BY <2>0, <2>2, <3>1 DEF DownItems, Down
    <2>3. CASE TryEmpty(t)
      BY <2>3 DEF TryEmpty, Stages, Values
    <2>4. CASE Lock(t)
      <3>1. pc' \in [Threads -> Stages]
        BY <2>4 DEF Lock, Stages, Reserved, Claimed
      <3> QED
        BY <2>0, <2>4, <3>1 DEF Lock, Down
    <2>5. CASE BumpRear(t)
      <3>1. \A i \in Ints : Inc(i) \in Ints
        BY SbufAssumption DEF Inc, Ints
      <3> QED
        BY <2>5, <3>1 DEF BumpRear, Stages, Reserved
    <2>6. CASE Store(t)
      <3>1. inserted' \in [Bufs -> Seq(Values)]
        BY <2>0, <2>6 DEF Store
      <3>2. buf' \in [Bufs -> [Cells -> Values]]
        BY <2>0, <2>6 DEF Store
      <3> QED
        BY <2>6, <3>1, <3>2 DEF Store, Stages, Unannounced
    <2>7. CASE BumpFront(t)
      <3>1. \A i \in Ints : Inc(i) \in Ints
        BY SbufAssumption DEF Inc, Ints
      <3> QED
        BY <2>7, <3>1 DEF BumpFront, Stages, Claimed
    <2>8. CASE Load(t)
      <3>1. PICK v \in LoadedValues(on[t], Cell(front[on[t]])) :
               /\ item' = [item EXCEPT ![t] = v]
               /\ removed' = [removed EXCEPT ![on[t]] = Append(@, v)]
        BY <2>8 DEF Load
      <3>2. v \in Values
        BY <2>0 DEF LoadedValues, Values
      <3>3. removed' \in [Bufs -> Seq(Values)] /\ item' \in [Threads -> Values]
        BY <2>0, <3>1, <3>2
      <3> QED
        BY <2>8, <3>3 DEF Load, Stages, Unreturned
    <2>9. CASE Unlock(t)
      <3>1. pc' \in [Threads -> Stages]
        BY <2>9 DEF Unlock, Stages, Unannounced, Unreturned
      <3> QED
        BY <2>0, <2>9, <3>1 DEF Unlock, Up
    <2>10. CASE UpItems(t)
      BY <2>0, <2>10 DEF UpItems, Up, Stages
    <2>11. CASE UpSlots(t)
      BY <2>0, <2>11 DEF UpSlots, Up, Stages
    <2> QED
      BY <1>3, <2>1, <2>2, <2>3, <2>4, <2>5, <2>6, <2>7, <2>8, <2>9, <2>10, <2>11
         DEF Step
  <1> QED
    BY <1>1, <1>2, <1>3 DEF SbufNext

(* Types hold without any bound: no assumption on MaxInserts and IntMax.   *)
(* Every field and local of sbuf.c keeps its type, the three counts never  *)
(* become negative, and every value returned is one inserted or garbage.   *)
THEOREM SbufTypeCorrect == SbufSpec => []SbufTypeOK
  BY TypeInit, TypeStep, PTL DEF SbufSpec

-----------------------------------------------------------------------------
(* Counting threads.                                                       *)
LEMMA CountSome ==
  ASSUME NEW t \in Threads, NEW S, pc[t] \in S PROVE Count(on[t], S) >= 1
  <1>1. t \in At(on[t], S) /\ IsFiniteSet(At(on[t], S))
    BY CountType DEF At
  <1> QED
    BY <1>1, CountType, FS_EmptySet DEF Count

LEMMA CountNone ==
  ASSUME NEW b, NEW S, NEW T, S \subseteq T, Count(b, T) = 0
  PROVE  At(b, S) = {} /\ Count(b, S) = 0
  <1>1. At(b, T) = {}
    BY CountType, FS_EmptySet DEF Count
  <1>2. At(b, S) = {}
    BY <1>1 DEF At
  <1> QED
    BY <1>2, FS_EmptySet DEF Count

(* The holder of the mutex is the only thread in its critical section.     *)
LEMMA Alone ==
  ASSUME SbufTypeOK, CriticalSection, NEW t \in Threads, pc[t] \in Critical
  PROVE  /\ mutex[on[t]] = 0 /\ Count(on[t], Critical) = 1
         /\ \A S : S \subseteq Critical =>
              Count(on[t], S) = IF pc[t] \in S THEN 1 ELSE 0
  <1> DEFINE c == on[t]
  <1>1. c \in Bufs /\ mutex[c] \in Nat
    BY DEF SbufTypeOK
  <1>2. mutex[c] = 0 /\ Count(c, Critical) = 1
    BY <1>1, CountSome, CountType DEF CriticalSection
  <1>3. t \in At(c, Critical) /\ IsFiniteSet(At(c, Critical))
    BY CountType DEF At
  <1>4. /\ IsFiniteSet(At(c, Critical) \ {t})
        /\ Cardinality(At(c, Critical) \ {t}) = Cardinality(At(c, Critical)) - 1
    BY <1>3, FS_RemoveElement
  <1>5. Cardinality(At(c, Critical) \ {t}) = 0
    BY <1>2, <1>4 DEF Count
  <1>6. At(c, Critical) \ {t} = {}
    BY <1>4, <1>5, FS_EmptySet
  <1>7. ASSUME NEW S, S \subseteq Critical
        PROVE Count(c, S) = IF pc[t] \in S THEN 1 ELSE 0
    <2>1. At(c, S) = IF pc[t] \in S THEN {t} ELSE {}
      BY <1>3, <1>6, <1>7 DEF At
    <2>2. Cardinality({t}) = 1 /\ Cardinality({}) = 0
      BY FS_EmptySet, FS_Singleton
    <2> QED
      BY <2>1, <2>2 DEF Count
  <1> QED
    BY <1>2, <1>7

(* How the counts change when t moves from one stage to another.           *)
Moves(t, from, to) ==
  \A S, b :
    /\ b # on[t] => Count(b, S)' = Count(b, S)
    /\ b = on[t] =>
         /\ from \in S /\ to \in S => Count(b, S)' = Count(b, S)
         /\ from \in S /\ to \notin S => Count(b, S)' = Count(b, S) - 1
         /\ from \notin S /\ to \in S => Count(b, S)' = Count(b, S) + 1
         /\ from \notin S /\ to \notin S => Count(b, S)' = Count(b, S)

LEMMA GoMoves ==
  ASSUME SbufTypeOK, NEW t \in Threads, NEW from, NEW to, Go(t, from, to), on' = on
  PROVE  Moves(t, from, to)
  <1>1. /\ pc[t] = from /\ pc'[t] = to
        /\ \A u \in Threads \ {t} : pc'[u] = pc[u] /\ on'[u] = on[u]
    BY DEF Go, SbufTypeOK
  <1>2. SUFFICES ASSUME NEW S, NEW b
                 PROVE /\ b # on[t] => Count(b, S)' = Count(b, S)
                       /\ b = on[t] =>
                            /\ from \in S /\ to \in S => Count(b, S)' = Count(b, S)
                            /\ from \in S /\ to \notin S => Count(b, S)' = Count(b, S) - 1
                            /\ from \notin S /\ to \in S => Count(b, S)' = Count(b, S) + 1
                            /\ from \notin S /\ to \notin S => Count(b, S)' = Count(b, S)
    BY DEF Moves
  <1> DEFINE Was == b = on[t] /\ from \in S
             Is == b = on[t] /\ to \in S
  <1>3. /\ Was \in BOOLEAN /\ Is \in BOOLEAN
        /\ Was <=> (on[t] = b /\ pc[t] \in S)
        /\ Is <=> (on'[t] = b /\ pc'[t] \in S)
    BY <1>1
  <1> HIDE DEF Was, Is
  <1>4. /\ Was /\ Is => Count(b, S)' = Count(b, S)
        /\ Was /\ ~Is => Count(b, S)' = Count(b, S) - 1
        /\ ~Was /\ Is => Count(b, S)' = Count(b, S) + 1
        /\ ~Was /\ ~Is => Count(b, S)' = Count(b, S)
    BY <1>1, <1>3, CountMove
  <1> QED
    BY <1>4 DEF Was, Is

(* A call moves its thread from outside the library to the first stage.    *)
Entered(b, to) ==
  \A S, c : "idle" \notin S =>
    /\ to \in S /\ c = b => Count(c, S)' = Count(c, S) + 1
    /\ to \notin S \/ c # b => Count(c, S)' = Count(c, S)

LEMMA CallMoves ==
  ASSUME SbufTypeOK, NEW t \in Threads, NEW b \in Bufs, NEW to,
         Go(t, "idle", to), on' = [on EXCEPT ![t] = b]
  PROVE  Entered(b, to)
  <1>1. /\ pc[t] = "idle" /\ pc'[t] = to /\ on'[t] = b
        /\ \A u \in Threads \ {t} : pc'[u] = pc[u] /\ on'[u] = on[u]
    BY DEF Go, SbufTypeOK
  <1>2. SUFFICES ASSUME NEW S, NEW c, "idle" \notin S
                 PROVE /\ to \in S /\ c = b => Count(c, S)' = Count(c, S) + 1
                       /\ to \notin S \/ c # b => Count(c, S)' = Count(c, S)
    BY DEF Entered
  <1> DEFINE Is == c = b /\ to \in S
  <1>3. /\ FALSE <=> (on[t] = c /\ pc[t] \in S)
        /\ Is <=> (on'[t] = c /\ pc'[t] \in S)
        /\ Is \in BOOLEAN
    BY <1>1, <1>2
  <1> HIDE DEF Is
  <1>4. /\ Is => Count(c, S)' = Count(c, S) + 1
        /\ ~Is => Count(c, S)' = Count(c, S)
    BY <1>1, <1>3, CountMove
  <1> QED
    BY <1>4 DEF Is

-----------------------------------------------------------------------------
(* The counting half of the invariant, buffer by buffer.                   *)
Balanced(b) ==
  /\ Stored(b) + Count(b, Unstored) <= MaxInserts
  /\ mutex[b] + Count(b, Critical) = 1
  /\ slots[b] = SBUFSIZE - (Stored(b) - Loaded(b))
                  - Count(b, Reserved) - Count(b, Unreturned)
  /\ items[b] = (Stored(b) - Loaded(b))
                  - Count(b, Unannounced) - Count(b, Claimed)
  /\ rear[b] = Stored(b) + Count(b, {"ins_store"})
  /\ front[b] = Loaded(b) + Count(b, {"rem_load"})

Counting == Bounded /\ CriticalSection /\ TokenAccounting /\ IndexAgreement

LEMMA CountingIsBalanced ==
  /\ Counting <=> \A b \in Bufs : Balanced(b)
  /\ Counting' <=> \A b \in Bufs : Balanced(b)'
  BY DEF Counting, Balanced, Bounded, CriticalSection, TokenAccounting,
         SlotAccounting, ItemAccounting, IndexAgreement

LEMMA Lengths ==
  SbufTypeOK => \A b \in Bufs : Stored(b) \in Nat /\ Loaded(b) \in Nat
  BY DEF SbufTypeOK, Stored, Loaded

LEMMA CountingCall ==
  ASSUME SbufTypeOK, Counting, NEW t \in Threads, NEW b \in Bufs, SomeCall(t, b)
  PROVE  Counting'
  <1>1. UNCHANGED <<data, sems, hist>>
    BY DEF SomeCall, CallInsert, CallRemove, CallTryRemove
  <1>2. ASSUME NEW c \in Bufs PROVE Stored(c)' = Stored(c) /\ Loaded(c)' = Loaded(c)
    BY <1>1 DEF Stored, Loaded, hist
  <1>3. CASE \E v \in Items : CallInsert(t, b, v)
    <2>1. Go(t, "idle", "ins_wait") /\ on' = [on EXCEPT ![t] = b]
      BY <1>3 DEF CallInsert
    <2>2. Entered(b, "ins_wait")
      BY <2>1, CallMoves
    <2>3. ASSUME NEW c \in Bufs PROVE Balanced(c)'
      <3>1. /\ Count(c, Critical)' = Count(c, Critical)
            /\ Count(c, Reserved)' = Count(c, Reserved)
            /\ Count(c, Unreturned)' = Count(c, Unreturned)
            /\ Count(c, Unannounced)' = Count(c, Unannounced)
            /\ Count(c, Claimed)' = Count(c, Claimed)
            /\ Count(c, {"ins_store"})' = Count(c, {"ins_store"})
            /\ Count(c, {"rem_load"})' = Count(c, {"rem_load"})
        BY <2>2 DEF Entered, Critical, Reserved, Unreturned, Unannounced, Claimed
      <3>2. /\ c # b => Count(c, Unstored)' = Count(c, Unstored)
            /\ c = b => Count(c, Unstored)' = Count(c, Unstored) + 1
        BY <2>2 DEF Entered, Unstored, Reserved
      <3>3. c = b => Stored(c) + Count(c, Unstored) < MaxInserts
        BY <2>1 DEF SomeCall, CallInsert, CallRemove, CallTryRemove, Go, SbufTypeOK
      <3>4. mutex' = mutex /\ slots' = slots /\ items' = items /\ front' = front /\ rear' = rear
        BY <1>1 DEF data, sems
      <3>5. Count(c, Unstored) \in Nat /\ Stored(c) \in Nat
        BY CountType, Lengths
      <3>6. Balanced(c)
        BY CountingIsBalanced
      <3> QED
        BY <1>2, <3>1, <3>2, <3>3, <3>4, <3>5, <3>6, SbufAssumption DEF Balanced
    <2> QED
      BY <2>3, CountingIsBalanced
  <1>4. CASE CallRemove(t, b) \/ CallTryRemove(t, b)
    <2>1. PICK to \in {"rem_wait", "try_wait"} :
             Go(t, "idle", to) /\ on' = [on EXCEPT ![t] = b]
      BY <1>4 DEF CallRemove, CallTryRemove
    <2>2. Entered(b, to)
      BY <2>1, CallMoves
    <2>3. ASSUME NEW c \in Bufs PROVE Balanced(c)'
      <3>1. /\ Count(c, Critical)' = Count(c, Critical)
            /\ Count(c, Reserved)' = Count(c, Reserved)
            /\ Count(c, Unreturned)' = Count(c, Unreturned)
            /\ Count(c, Unannounced)' = Count(c, Unannounced)
            /\ Count(c, Claimed)' = Count(c, Claimed)
            /\ Count(c, {"ins_store"})' = Count(c, {"ins_store"})
            /\ Count(c, {"rem_load"})' = Count(c, {"rem_load"})
        BY <2>1, <2>2 DEF Entered, Critical, Reserved, Unreturned, Unannounced, Claimed
      <3>2. Count(c, Unstored)' = Count(c, Unstored)
        BY <2>1, <2>2 DEF Entered, Unstored, Reserved
      <3>3. mutex' = mutex /\ slots' = slots /\ items' = items /\ front' = front /\ rear' = rear
        BY <1>1 DEF data, sems
      <3>4. Balanced(c)
        BY CountingIsBalanced
      <3> QED
        BY <1>2, <3>1, <3>2, <3>3, <3>4 DEF Balanced
    <2> QED
      BY <2>3, CountingIsBalanced
  <1> QED
    BY <1>3, <1>4 DEF SomeCall

(* A step of t inside the library keeps to the buffer t works on.          *)
LEMMA StepElsewhere ==
  ASSUME SbufTypeOK, Counting, NEW t \in Threads, Step(t),
         NEW c \in Bufs, c # on[t]
  PROVE  Balanced(c)'
  <1>1. PICK from \in Stages, to \in Stages : Go(t, from, to)
    BY DEF Step, DownSlots, DownItems, TryEmpty, Lock, BumpRear, Store, BumpFront,
           Load, Unlock, UpItems, UpSlots, Stages, Waiting, Reserved, Unannounced,
           Claimed, Unreturned
  <1>2. on' = on
    BY DEF Step, DownSlots, DownItems, TryEmpty, Lock, BumpRear, Store, BumpFront,
           Load, Unlock, UpItems, UpSlots, args
  <1>3. Moves(t, from, to)
    BY <1>1, <1>2, GoMoves
  <1>4. /\ Count(c, Critical)' = Count(c, Critical)
        /\ Count(c, Reserved)' = Count(c, Reserved)
        /\ Count(c, Unstored)' = Count(c, Unstored)
        /\ Count(c, Unreturned)' = Count(c, Unreturned)
        /\ Count(c, Unannounced)' = Count(c, Unannounced)
        /\ Count(c, Claimed)' = Count(c, Claimed)
        /\ Count(c, {"ins_store"})' = Count(c, {"ins_store"})
        /\ Count(c, {"rem_load"})' = Count(c, {"rem_load"})
    BY <1>3 DEF Moves, Critical, Reserved, Unstored, Unreturned, Unannounced, Claimed
  <1>5. /\ mutex'[c] = mutex[c] /\ slots'[c] = slots[c] /\ items'[c] = items[c]
        /\ front'[c] = front[c] /\ rear'[c] = rear[c]
        /\ inserted'[c] = inserted[c] /\ removed'[c] = removed[c]
    BY DEF SbufTypeOK, Step, DownSlots, DownItems, TryEmpty, Lock, BumpRear, Store,
           BumpFront, Load, Unlock, UpItems, UpSlots, Down, Up, data, sems, hist
  <1>6. Balanced(c)
    BY CountingIsBalanced
  <1> QED
    BY <1>4, <1>5, <1>6 DEF Balanced, Stored, Loaded

(* The step and the buffer it works on.  Where ++ is reached, the owner of *)
(* the mutex is alone there and the count is below INT_MAX, so ++ is +1.   *)
LEMMA StepHere ==
  ASSUME SbufTypeOK, Counting, MaxInserts <= IntMax,
         NEW t \in Threads, Step(t), NEW c \in Bufs, c = on[t]
  PROVE  Balanced(c)'
  <1>1. /\ Balanced(c) /\ CriticalSection
        /\ Stored(c) \in Nat /\ Loaded(c) \in Nat
        /\ \A S : Count(c, S) \in Nat
    BY CountingIsBalanced, CountType, Lengths DEF Counting
  <1>2. /\ mutex[c] \in Nat /\ slots[c] \in Nat /\ items[c] \in Nat
        /\ front[c] \in Int /\ rear[c] \in Int
    BY SbufAssumption DEF SbufTypeOK, Ints
  <1>3. CASE DownSlots(t)
    <2>1. Moves(t, "ins_wait", "ins_lock")
      BY <1>3, GoMoves DEF DownSlots, args
    <2>2. /\ Count(c, Critical)' = Count(c, Critical)
          /\ Count(c, Reserved)' = Count(c, Reserved) + 1
          /\ Count(c, Unstored)' = Count(c, Unstored)
          /\ Count(c, Unreturned)' = Count(c, Unreturned)
          /\ Count(c, Unannounced)' = Count(c, Unannounced)
          /\ Count(c, Claimed)' = Count(c, Claimed)
          /\ Count(c, {"ins_store"})' = Count(c, {"ins_store"})
          /\ Count(c, {"rem_load"})' = Count(c, {"rem_load"})
      BY <2>1 DEF Moves, Critical, Reserved, Unstored, Unreturned, Unannounced, Claimed
    <2>3. /\ mutex'[c] = mutex[c] /\ slots'[c] = slots[c] - 1 /\ items'[c] = items[c]
          /\ front'[c] = front[c] /\ rear'[c] = rear[c]
          /\ Stored(c)' = Stored(c) /\ Loaded(c)' = Loaded(c)
      BY <1>3 DEF SbufTypeOK, DownSlots, Down, data, hist, Stored, Loaded
    <2> QED
      BY <1>1, <1>2, <2>2, <2>3, SbufAssumption DEF Balanced
  <1>4. CASE DownItems(t) /\ pc[t] = "rem_wait"
    <2>1. Moves(t, "rem_wait", "rem_lock")
      BY <1>4, GoMoves DEF DownItems, Go, args, SbufTypeOK
    <2>2. /\ Count(c, Critical)' = Count(c, Critical)
          /\ Count(c, Reserved)' = Count(c, Reserved)
          /\ Count(c, Unstored)' = Count(c, Unstored)
          /\ Count(c, Unreturned)' = Count(c, Unreturned)
          /\ Count(c, Unannounced)' = Count(c, Unannounced)
          /\ Count(c, Claimed)' = Count(c, Claimed) + 1
          /\ Count(c, {"ins_store"})' = Count(c, {"ins_store"})
          /\ Count(c, {"rem_load"})' = Count(c, {"rem_load"})
      BY <2>1 DEF Moves, Critical, Reserved, Unstored, Unreturned, Unannounced, Claimed
    <2>3. /\ mutex'[c] = mutex[c] /\ slots'[c] = slots[c] /\ items'[c] = items[c] - 1
          /\ front'[c] = front[c] /\ rear'[c] = rear[c]
          /\ Stored(c)' = Stored(c) /\ Loaded(c)' = Loaded(c)
      BY <1>4 DEF SbufTypeOK, DownItems, Down, Up, data, sems, hist, Stored, Loaded
    <2> QED
      BY <1>1, <1>2, <2>2, <2>3, SbufAssumption DEF Balanced
  <1>5. CASE DownItems(t) /\ pc[t] = "try_wait"
    <2>1. Moves(t, "try_wait", "rem_lock")
      BY <1>5, GoMoves DEF DownItems, Go, args, SbufTypeOK
    <2>2. /\ Count(c, Critical)' = Count(c, Critical)
          /\ Count(c, Reserved)' = Count(c, Reserved)
          /\ Count(c, Unstored)' = Count(c, Unstored)
          /\ Count(c, Unreturned)' = Count(c, Unreturned)
          /\ Count(c, Unannounced)' = Count(c, Unannounced)
          /\ Count(c, Claimed)' = Count(c, Claimed) + 1
          /\ Count(c, {"ins_store"})' = Count(c, {"ins_store"})
          /\ Count(c, {"rem_load"})' = Count(c, {"rem_load"})
      BY <2>1 DEF Moves, Critical, Reserved, Unstored, Unreturned, Unannounced, Claimed
    <2>3. /\ mutex'[c] = mutex[c] /\ slots'[c] = slots[c] /\ items'[c] = items[c] - 1
          /\ front'[c] = front[c] /\ rear'[c] = rear[c]
          /\ Stored(c)' = Stored(c) /\ Loaded(c)' = Loaded(c)
      BY <1>5 DEF SbufTypeOK, DownItems, Down, Up, data, sems, hist, Stored, Loaded
    <2> QED
      BY <1>1, <1>2, <2>2, <2>3, SbufAssumption DEF Balanced
  <1>6. CASE TryEmpty(t) /\ pc[t] = "try_wait"
    <2>1. Moves(t, "try_wait", "idle")
      BY <1>6, GoMoves DEF TryEmpty, Go, args, SbufTypeOK
    <2>2. /\ Count(c, Critical)' = Count(c, Critical)
          /\ Count(c, Reserved)' = Count(c, Reserved)
          /\ Count(c, Unstored)' = Count(c, Unstored)
          /\ Count(c, Unreturned)' = Count(c, Unreturned)
          /\ Count(c, Unannounced)' = Count(c, Unannounced)
          /\ Count(c, Claimed)' = Count(c, Claimed)
          /\ Count(c, {"ins_store"})' = Count(c, {"ins_store"})
          /\ Count(c, {"rem_load"})' = Count(c, {"rem_load"})
      BY <2>1 DEF Moves, Critical, Reserved, Unstored, Unreturned, Unannounced, Claimed
    <2>3. /\ mutex'[c] = mutex[c] /\ slots'[c] = slots[c] /\ items'[c] = items[c]
          /\ front'[c] = front[c] /\ rear'[c] = rear[c]
          /\ Stored(c)' = Stored(c) /\ Loaded(c)' = Loaded(c)
      BY <1>6 DEF SbufTypeOK, TryEmpty, Down, Up, data, sems, hist, Stored, Loaded
    <2> QED
      BY <1>1, <1>2, <2>2, <2>3, SbufAssumption DEF Balanced
  <1>7. CASE Lock(t) /\ pc[t] = "ins_lock"
    <2>1. Moves(t, "ins_lock", "ins_bump")
      BY <1>7, GoMoves DEF Lock, Go, args, SbufTypeOK
    <2>2. /\ Count(c, Critical)' = Count(c, Critical) + 1
          /\ Count(c, Reserved)' = Count(c, Reserved)
          /\ Count(c, Unstored)' = Count(c, Unstored)
          /\ Count(c, Unreturned)' = Count(c, Unreturned)
          /\ Count(c, Unannounced)' = Count(c, Unannounced)
          /\ Count(c, Claimed)' = Count(c, Claimed)
          /\ Count(c, {"ins_store"})' = Count(c, {"ins_store"})
          /\ Count(c, {"rem_load"})' = Count(c, {"rem_load"})
      BY <2>1 DEF Moves, Critical, Reserved, Unstored, Unreturned, Unannounced, Claimed
    <2>3. /\ mutex'[c] = mutex[c] - 1 /\ slots'[c] = slots[c] /\ items'[c] = items[c]
          /\ front'[c] = front[c] /\ rear'[c] = rear[c]
          /\ Stored(c)' = Stored(c) /\ Loaded(c)' = Loaded(c)
      BY <1>7 DEF SbufTypeOK, Lock, Down, Up, data, sems, hist, Stored, Loaded
    <2> QED
      BY <1>1, <1>2, <2>2, <2>3, SbufAssumption DEF Balanced
  <1>8. CASE Lock(t) /\ pc[t] = "rem_lock"
    <2>1. Moves(t, "rem_lock", "rem_bump")
      BY <1>8, GoMoves DEF Lock, Go, args, SbufTypeOK
    <2>2. /\ Count(c, Critical)' = Count(c, Critical) + 1
          /\ Count(c, Reserved)' = Count(c, Reserved)
          /\ Count(c, Unstored)' = Count(c, Unstored)
          /\ Count(c, Unreturned)' = Count(c, Unreturned)
          /\ Count(c, Unannounced)' = Count(c, Unannounced)
          /\ Count(c, Claimed)' = Count(c, Claimed)
          /\ Count(c, {"ins_store"})' = Count(c, {"ins_store"})
          /\ Count(c, {"rem_load"})' = Count(c, {"rem_load"})
      BY <2>1 DEF Moves, Critical, Reserved, Unstored, Unreturned, Unannounced, Claimed
    <2>3. /\ mutex'[c] = mutex[c] - 1 /\ slots'[c] = slots[c] /\ items'[c] = items[c]
          /\ front'[c] = front[c] /\ rear'[c] = rear[c]
          /\ Stored(c)' = Stored(c) /\ Loaded(c)' = Loaded(c)
      BY <1>8 DEF SbufTypeOK, Lock, Down, Up, data, sems, hist, Stored, Loaded
    <2> QED
      BY <1>1, <1>2, <2>2, <2>3, SbufAssumption DEF Balanced
  <1>9. CASE BumpRear(t) /\ pc[t] = "ins_bump"
    <2>1. Moves(t, "ins_bump", "ins_store")
      BY <1>9, GoMoves DEF BumpRear, Go, args, SbufTypeOK
    <2>2. /\ Count(c, Critical)' = Count(c, Critical)
          /\ Count(c, Reserved)' = Count(c, Reserved)
          /\ Count(c, Unstored)' = Count(c, Unstored)
          /\ Count(c, Unreturned)' = Count(c, Unreturned)
          /\ Count(c, Unannounced)' = Count(c, Unannounced)
          /\ Count(c, Claimed)' = Count(c, Claimed)
          /\ Count(c, {"ins_store"})' = Count(c, {"ins_store"}) + 1
          /\ Count(c, {"rem_load"})' = Count(c, {"rem_load"})
      BY <2>1 DEF Moves, Critical, Reserved, Unstored, Unreturned, Unannounced, Claimed
    <2>3. Count(c, Unstored) >= 1 /\ Count(c, {"ins_store"}) = 0
      <3>1. {"ins_store"} \subseteq Critical
        BY DEF Critical
      <3>2. pc[t] \in Critical /\ pc[t] \in Unstored /\ pc[t] \notin {"ins_store"}
        BY <1>9 DEF Critical, Unstored, Reserved
      <3> QED
        BY <1>1, <3>1, <3>2, Alone, CountSome
    <2>4. Inc(rear[c]) = rear[c] + 1
      BY <1>1, <2>3, SbufAssumption DEF Inc, Balanced
    <2>5. /\ mutex'[c] = mutex[c] /\ slots'[c] = slots[c] /\ items'[c] = items[c]
          /\ front'[c] = front[c] /\ rear'[c] = rear[c] + 1
          /\ Stored(c)' = Stored(c) /\ Loaded(c)' = Loaded(c)
      BY <1>9, <2>4 DEF SbufTypeOK, BumpRear, Down, Up, data, sems, hist, Stored, Loaded
    <2> QED
      BY <1>1, <1>2, <2>2, <2>5, SbufAssumption DEF Balanced
  <1>10. CASE Store(t) /\ pc[t] = "ins_store"
    <2>1. Moves(t, "ins_store", "ins_unlock")
      BY <1>10, GoMoves DEF Store, Go, args, SbufTypeOK
    <2>2. /\ Count(c, Critical)' = Count(c, Critical)
          /\ Count(c, Reserved)' = Count(c, Reserved) - 1
          /\ Count(c, Unstored)' = Count(c, Unstored) - 1
          /\ Count(c, Unreturned)' = Count(c, Unreturned)
          /\ Count(c, Unannounced)' = Count(c, Unannounced) + 1
          /\ Count(c, Claimed)' = Count(c, Claimed)
          /\ Count(c, {"ins_store"})' = Count(c, {"ins_store"}) - 1
          /\ Count(c, {"rem_load"})' = Count(c, {"rem_load"})
      BY <2>1 DEF Moves, Critical, Reserved, Unstored, Unreturned, Unannounced, Claimed
    <2>3. /\ mutex'[c] = mutex[c] /\ slots'[c] = slots[c] /\ items'[c] = items[c]
          /\ front'[c] = front[c] /\ rear'[c] = rear[c]
          /\ Stored(c)' = Stored(c) + 1 /\ Loaded(c)' = Loaded(c)
      BY <1>10 DEF SbufTypeOK, Store, Down, Up, data, sems, hist, Stored, Loaded
    <2> QED
      BY <1>1, <1>2, <2>2, <2>3, SbufAssumption DEF Balanced
  <1>11. CASE BumpFront(t) /\ pc[t] = "rem_bump"
    <2>1. Moves(t, "rem_bump", "rem_load")
      BY <1>11, GoMoves DEF BumpFront, Go, args, SbufTypeOK
    <2>2. /\ Count(c, Critical)' = Count(c, Critical)
          /\ Count(c, Reserved)' = Count(c, Reserved)
          /\ Count(c, Unstored)' = Count(c, Unstored)
          /\ Count(c, Unreturned)' = Count(c, Unreturned)
          /\ Count(c, Unannounced)' = Count(c, Unannounced)
          /\ Count(c, Claimed)' = Count(c, Claimed)
          /\ Count(c, {"ins_store"})' = Count(c, {"ins_store"})
          /\ Count(c, {"rem_load"})' = Count(c, {"rem_load"}) + 1
      BY <2>1 DEF Moves, Critical, Reserved, Unstored, Unreturned, Unannounced, Claimed
    <2>3. Count(c, Claimed) >= 1 /\ Count(c, {"rem_load"}) = 0
      <3>1. {"rem_load"} \subseteq Critical
        BY DEF Critical
      <3>2. pc[t] \in Critical /\ pc[t] \in Claimed /\ pc[t] \notin {"rem_load"}
        BY <1>11 DEF Critical, Claimed
      <3> QED
        BY <1>1, <3>1, <3>2, Alone, CountSome
    <2>4. Inc(front[c]) = front[c] + 1
      BY <1>1, <1>2, <2>3, SbufAssumption DEF Inc, Balanced
    <2>5. /\ mutex'[c] = mutex[c] /\ slots'[c] = slots[c] /\ items'[c] = items[c]
          /\ front'[c] = front[c] + 1 /\ rear'[c] = rear[c]
          /\ Stored(c)' = Stored(c) /\ Loaded(c)' = Loaded(c)
      BY <1>11, <2>4 DEF SbufTypeOK, BumpFront, Down, Up, data, sems, hist, Stored, Loaded
    <2> QED
      BY <1>1, <1>2, <2>2, <2>5, SbufAssumption DEF Balanced
  <1>12. CASE Load(t) /\ pc[t] = "rem_load"
    <2>1. Moves(t, "rem_load", "rem_unlock")
      BY <1>12, GoMoves DEF Load, Go, args, SbufTypeOK
    <2>2. /\ Count(c, Critical)' = Count(c, Critical)
          /\ Count(c, Reserved)' = Count(c, Reserved)
          /\ Count(c, Unstored)' = Count(c, Unstored)
          /\ Count(c, Unreturned)' = Count(c, Unreturned) + 1
          /\ Count(c, Unannounced)' = Count(c, Unannounced)
          /\ Count(c, Claimed)' = Count(c, Claimed) - 1
          /\ Count(c, {"ins_store"})' = Count(c, {"ins_store"})
          /\ Count(c, {"rem_load"})' = Count(c, {"rem_load"}) - 1
      BY <2>1 DEF Moves, Critical, Reserved, Unstored, Unreturned, Unannounced, Claimed
    <2>3. /\ mutex'[c] = mutex[c] /\ slots'[c] = slots[c] /\ items'[c] = items[c]
          /\ front'[c] = front[c] /\ rear'[c] = rear[c]
          /\ Stored(c)' = Stored(c) /\ Loaded(c)' = Loaded(c) + 1
      BY <1>12 DEF SbufTypeOK, Load, Down, Up, data, sems, hist, Stored, Loaded
    <2> QED
      BY <1>1, <1>2, <2>2, <2>3, SbufAssumption DEF Balanced
  <1>13. CASE Unlock(t) /\ pc[t] = "ins_unlock"
    <2>1. Moves(t, "ins_unlock", "ins_post")
      BY <1>13, GoMoves DEF Unlock, Go, args, SbufTypeOK
    <2>2. /\ Count(c, Critical)' = Count(c, Critical) - 1
          /\ Count(c, Reserved)' = Count(c, Reserved)
          /\ Count(c, Unstored)' = Count(c, Unstored)
          /\ Count(c, Unreturned)' = Count(c, Unreturned)
          /\ Count(c, Unannounced)' = Count(c, Unannounced)
          /\ Count(c, Claimed)' = Count(c, Claimed)
          /\ Count(c, {"ins_store"})' = Count(c, {"ins_store"})
          /\ Count(c, {"rem_load"})' = Count(c, {"rem_load"})
      BY <2>1 DEF Moves, Critical, Reserved, Unstored, Unreturned, Unannounced, Claimed
    <2>3. /\ mutex'[c] = mutex[c] + 1 /\ slots'[c] = slots[c] /\ items'[c] = items[c]
          /\ front'[c] = front[c] /\ rear'[c] = rear[c]
          /\ Stored(c)' = Stored(c) /\ Loaded(c)' = Loaded(c)
      BY <1>13 DEF SbufTypeOK, Unlock, Down, Up, data, sems, hist, Stored, Loaded
    <2> QED
      BY <1>1, <1>2, <2>2, <2>3, SbufAssumption DEF Balanced
  <1>14. CASE Unlock(t) /\ pc[t] = "rem_unlock"
    <2>1. Moves(t, "rem_unlock", "rem_post")
      BY <1>14, GoMoves DEF Unlock, Go, args, SbufTypeOK
    <2>2. /\ Count(c, Critical)' = Count(c, Critical) - 1
          /\ Count(c, Reserved)' = Count(c, Reserved)
          /\ Count(c, Unstored)' = Count(c, Unstored)
          /\ Count(c, Unreturned)' = Count(c, Unreturned)
          /\ Count(c, Unannounced)' = Count(c, Unannounced)
          /\ Count(c, Claimed)' = Count(c, Claimed)
          /\ Count(c, {"ins_store"})' = Count(c, {"ins_store"})
          /\ Count(c, {"rem_load"})' = Count(c, {"rem_load"})
      BY <2>1 DEF Moves, Critical, Reserved, Unstored, Unreturned, Unannounced, Claimed
    <2>3. /\ mutex'[c] = mutex[c] + 1 /\ slots'[c] = slots[c] /\ items'[c] = items[c]
          /\ front'[c] = front[c] /\ rear'[c] = rear[c]
          /\ Stored(c)' = Stored(c) /\ Loaded(c)' = Loaded(c)
      BY <1>14 DEF SbufTypeOK, Unlock, Down, Up, data, sems, hist, Stored, Loaded
    <2> QED
      BY <1>1, <1>2, <2>2, <2>3, SbufAssumption DEF Balanced
  <1>15. CASE UpItems(t) /\ pc[t] = "ins_post"
    <2>1. Moves(t, "ins_post", "idle")
      BY <1>15, GoMoves DEF UpItems, Go, args, SbufTypeOK
    <2>2. /\ Count(c, Critical)' = Count(c, Critical)
          /\ Count(c, Reserved)' = Count(c, Reserved)
          /\ Count(c, Unstored)' = Count(c, Unstored)
          /\ Count(c, Unreturned)' = Count(c, Unreturned)
          /\ Count(c, Unannounced)' = Count(c, Unannounced) - 1
          /\ Count(c, Claimed)' = Count(c, Claimed)
          /\ Count(c, {"ins_store"})' = Count(c, {"ins_store"})
          /\ Count(c, {"rem_load"})' = Count(c, {"rem_load"})
      BY <2>1 DEF Moves, Critical, Reserved, Unstored, Unreturned, Unannounced, Claimed
    <2>3. /\ mutex'[c] = mutex[c] /\ slots'[c] = slots[c] /\ items'[c] = items[c] + 1
          /\ front'[c] = front[c] /\ rear'[c] = rear[c]
          /\ Stored(c)' = Stored(c) /\ Loaded(c)' = Loaded(c)
      BY <1>15 DEF SbufTypeOK, UpItems, Down, Up, data, sems, hist, Stored, Loaded
    <2> QED
      BY <1>1, <1>2, <2>2, <2>3, SbufAssumption DEF Balanced
  <1>16. CASE UpSlots(t) /\ pc[t] = "rem_post"
    <2>1. Moves(t, "rem_post", "idle")
      BY <1>16, GoMoves DEF UpSlots, Go, args, SbufTypeOK
    <2>2. /\ Count(c, Critical)' = Count(c, Critical)
          /\ Count(c, Reserved)' = Count(c, Reserved)
          /\ Count(c, Unstored)' = Count(c, Unstored)
          /\ Count(c, Unreturned)' = Count(c, Unreturned) - 1
          /\ Count(c, Unannounced)' = Count(c, Unannounced)
          /\ Count(c, Claimed)' = Count(c, Claimed)
          /\ Count(c, {"ins_store"})' = Count(c, {"ins_store"})
          /\ Count(c, {"rem_load"})' = Count(c, {"rem_load"})
      BY <2>1 DEF Moves, Critical, Reserved, Unstored, Unreturned, Unannounced, Claimed
    <2>3. /\ mutex'[c] = mutex[c] /\ slots'[c] = slots[c] + 1 /\ items'[c] = items[c]
          /\ front'[c] = front[c] /\ rear'[c] = rear[c]
          /\ Stored(c)' = Stored(c) /\ Loaded(c)' = Loaded(c)
      BY <1>16 DEF SbufTypeOK, UpSlots, Down, Up, data, sems, hist, Stored, Loaded
    <2> QED
      BY <1>1, <1>2, <2>2, <2>3, SbufAssumption DEF Balanced
  <1> QED
    BY <1>3, <1>4, <1>5, <1>6, <1>7, <1>8, <1>9, <1>10, <1>11, <1>12, <1>13, <1>14, <1>15, <1>16
       DEF Step, DownItems, TryEmpty, Lock, BumpRear, Store, BumpFront, Load, Unlock,
           UpItems, UpSlots, Go

LEMMA CountingStep ==
  ASSUME SbufTypeOK, Counting, MaxInserts <= IntMax, [SbufNext]_sbufVars
  PROVE  Counting'
  <1>1. CASE UNCHANGED sbufVars
    BY <1>1 DEF sbufVars, data, sems, args, hist, Counting, Bounded, CriticalSection,
       TokenAccounting, SlotAccounting, ItemAccounting, IndexAgreement, Stored,
       Loaded, Count, At
  <1>2. ASSUME NEW t \in Threads, Step(t) PROVE Counting'
    BY <1>2, StepElsewhere, StepHere, CountingIsBalanced
  <1>3. ASSUME NEW t \in Threads, NEW b \in Bufs, SomeCall(t, b) PROVE Counting'
    BY <1>3, CountingCall
  <1> QED
    BY <1>1, <1>2, <1>3 DEF SbufNext

LEMMA CountingInit == SbufInit => Counting
  <1> SUFFICES ASSUME SbufInit, NEW b \in Bufs PROVE Balanced(b)
    BY CountingIsBalanced
  <1>1. \A S : "idle" \notin S => At(b, S) = {}
    BY DEF SbufInit, At
  <1>2. \A S : "idle" \notin S => Count(b, S) = 0
    BY <1>1, FS_EmptySet DEF Count
  <1>3. /\ Count(b, Critical) = 0 /\ Count(b, Reserved) = 0
        /\ Count(b, Unstored) = 0 /\ Count(b, Unreturned) = 0
        /\ Count(b, Unannounced) = 0 /\ Count(b, Claimed) = 0
        /\ Count(b, {"ins_store"}) = 0 /\ Count(b, {"rem_load"}) = 0
    BY <1>2 DEF Critical, Reserved, Unstored, Unreturned, Unannounced, Claimed
  <1>4. Stored(b) = 0 /\ Loaded(b) = 0
    BY DEF SbufInit, Stored, Loaded
  <1> QED
    BY <1>3, <1>4, SbufAssumption
       DEF Balanced, SbufInit, InitialMutex, InitialSlots

-----------------------------------------------------------------------------
(* What the modules of the lab programs need of one step of a call.        *)
InsertStages == Unstored \cup Unannounced
RemoveStages == {"rem_wait"} \cup Claimed \cup Unreturned

InsertsBegun(b) == Stored(b) + Count(b, Unstored)
RemovesBegun(b) == Loaded(b) + Count(b, {"rem_wait"} \cup Claimed)

(* An insertion begun is a call not yet at its store or a store, whatever  *)
(* happens inside the library; likewise a removal.                         *)
LEMMA BegunStays ==
  ASSUME SbufTypeOK, NEW t \in Threads, Step(t), pc[t] # "try_wait", NEW b \in Bufs
  PROVE  /\ InsertsBegun(b)' = InsertsBegun(b) /\ RemovesBegun(b)' = RemovesBegun(b)
         /\ pc[t] # "idle"
         /\ pc[t] \in InsertStages => pc'[t] \in {"idle"} \cup InsertStages
         /\ pc[t] \in RemoveStages => pc'[t] \in {"idle"} \cup RemoveStages
  <1> DEFINE Pending == {"rem_wait"} \cup Claimed
  <1>1. /\ Stored(b) \in Nat /\ Loaded(b) \in Nat /\ on[t] \in Bufs
        /\ Count(b, Unstored) \in Nat /\ Count(b, Pending) \in Nat
    BY Lengths, CountType DEF SbufTypeOK
  <1>2. /\ on' = on
        /\ \A u \in Threads \ {t} : pc'[u] = pc[u]
    BY DEF SbufTypeOK, Step, DownSlots, DownItems, TryEmpty, Lock, BumpRear, Store, BumpFront,
           Load, Unlock, UpItems, UpSlots, args, Go
  <1>3. CASE Store(t)
    <2>1. Moves(t, "ins_store", "ins_unlock")
      BY <1>2, <1>3, GoMoves DEF Store
    <2>2. /\ b = on[t] => Count(b, Unstored)' = Count(b, Unstored) - 1
          /\ b # on[t] => Count(b, Unstored)' = Count(b, Unstored)
          /\ Count(b, Pending)' = Count(b, Pending)
      BY <2>1 DEF Moves, Unstored, Reserved, Claimed
    <2>3. /\ b = on[t] => Stored(b)' = Stored(b) + 1
          /\ b # on[t] => Stored(b)' = Stored(b)
          /\ Loaded(b)' = Loaded(b)
      BY <1>1, <1>3 DEF Store, SbufTypeOK, Stored, Loaded
    <2>4. pc[t] = "ins_store" /\ pc'[t] = "ins_unlock"
      BY <1>3 DEF Store, Go, SbufTypeOK
    <2> QED
      BY <1>1, <2>2, <2>3, <2>4 DEF InsertsBegun, RemovesBegun, InsertStages, RemoveStages,
         Unstored, Reserved, Unannounced, Claimed, Unreturned
  <1>4. CASE Load(t)
    <2>1. Moves(t, "rem_load", "rem_unlock")
      BY <1>2, <1>4, GoMoves DEF Load
    <2>2. /\ b = on[t] => Count(b, Pending)' = Count(b, Pending) - 1
          /\ b # on[t] => Count(b, Pending)' = Count(b, Pending)
          /\ Count(b, Unstored)' = Count(b, Unstored)
      BY <2>1 DEF Moves, Unstored, Reserved, Claimed
    <2>3. /\ b = on[t] => Loaded(b)' = Loaded(b) + 1
          /\ b # on[t] => Loaded(b)' = Loaded(b)
          /\ Stored(b)' = Stored(b)
      <3>1. PICK v \in LoadedValues(on[t], Cell(front[on[t]])) :
              removed' = [removed EXCEPT ![on[t]] = Append(@, v)]
        BY <1>4 DEF Load
      <3> QED
        BY <1>1, <1>4, <3>1 DEF Load, SbufTypeOK, Stored, Loaded
    <2>4. pc[t] = "rem_load" /\ pc'[t] = "rem_unlock"
      BY <1>4 DEF Load, Go, SbufTypeOK
    <2> QED
      BY <1>1, <2>2, <2>3, <2>4 DEF InsertsBegun, RemovesBegun, InsertStages, RemoveStages,
         Unstored, Reserved, Unannounced, Claimed, Unreturned
  <1>5. CASE ~Store(t) /\ ~Load(t)
    <2>1. PICK from, to :
            /\ Go(t, from, to)
            /\ \/ from \in Unstored /\ to \in Unstored
               \/ from \in Unannounced /\ to \in {"idle"} \cup Unannounced
               \/ from \in Pending /\ to \in Pending
               \/ from \in Unreturned /\ to \in {"idle"} \cup Unreturned
      BY <1>5 DEF Step, DownSlots, DownItems, TryEmpty, Lock, BumpRear, BumpFront, Unlock,
         UpItems, UpSlots, Go, Unstored, Reserved, Unannounced, Claimed, Unreturned
    <2>2. Moves(t, from, to)
      BY <1>2, <2>1, GoMoves
    <2>3. Count(b, Unstored)' = Count(b, Unstored) /\ Count(b, Pending)' = Count(b, Pending)
      BY <2>1, <2>2 DEF Moves, Unstored, Reserved, Unannounced, Claimed, Unreturned
    <2>4. UNCHANGED <<inserted, removed>>
      BY <1>5 DEF Step, DownSlots, DownItems, TryEmpty, Lock, BumpRear, BumpFront, Unlock,
         UpItems, UpSlots, hist
    <2>5. pc[t] = from /\ pc'[t] = to
      BY <2>1 DEF Go, SbufTypeOK
    <2> QED
      BY <2>1, <2>3, <2>4, <2>5 DEF InsertsBegun, RemovesBegun, InsertStages, RemoveStages,
         Stored, Loaded, Unstored, Reserved, Unannounced, Claimed, Unreturned
  <1> QED
    BY <1>3, <1>4, <1>5

-----------------------------------------------------------------------------
(* The content half.  Where sbuf_insert stores: the cell after the last    *)
(* item, and the ring is not full.                                         *)
LEMMA StoreCell ==
  ASSUME SbufTypeOK, Counting, MaxInserts <= IntMax, NEW t \in Threads, pc[t] = "ins_store",
         NEW b \in Bufs, b = on[t]
  PROVE  /\ Cell(rear[b]) = (Stored(b) + 1) % SBUFSIZE /\ Cell(rear[b]) \in Cells
         /\ Stored(b) - Loaded(b) < SBUFSIZE
  <1>1. /\ Balanced(b) /\ CriticalSection
        /\ Stored(b) \in Nat /\ Loaded(b) \in Nat /\ slots[b] \in Nat
        /\ \A S : Count(b, S) \in Nat
    BY CountingIsBalanced, CountType, Lengths DEF Counting, SbufTypeOK
  <1>2. Count(b, {"ins_store"}) = 1
    BY <1>1, Alone DEF Critical
  <1>3. Count(b, Reserved) >= 1
    BY CountSome DEF Reserved
  <1>4. rear[b] = Stored(b) + 1
    BY <1>1, <1>2 DEF Balanced
  <1>5. Stored(b) - Loaded(b) < SBUFSIZE
    BY <1>1, <1>3, SbufAssumption DEF Balanced
  <1> QED
    BY <1>1, <1>4, <1>5, CellRange

(* Where sbuf_remove loads: the cell of the oldest item, and there is one. *)
LEMMA LoadCell ==
  ASSUME SbufTypeOK, Counting, MaxInserts <= IntMax, NEW t \in Threads, pc[t] = "rem_load",
         NEW b \in Bufs, b = on[t]
  PROVE  /\ Cell(front[b]) = (Loaded(b) + 1) % SBUFSIZE /\ Cell(front[b]) \in Cells
         /\ Loaded(b) < Stored(b)
  <1>1. /\ Balanced(b) /\ CriticalSection
        /\ Stored(b) \in Nat /\ Loaded(b) \in Nat /\ items[b] \in Nat
        /\ \A S : Count(b, S) \in Nat
    BY CountingIsBalanced, CountType, Lengths DEF Counting, SbufTypeOK
  <1>2. Count(b, {"rem_load"}) = 1
    BY <1>1, Alone DEF Critical
  <1>3. Count(b, Claimed) >= 1
    BY CountSome DEF Claimed
  <1>4. front[b] = Loaded(b) + 1
    BY <1>1, <1>2 DEF Balanced
  <1>5. Loaded(b) < Stored(b)
    BY <1>1, <1>3 DEF Balanced
  <1> QED
    BY <1>1, <1>4, <1>5, CellRange

(* Cells named by different live counts are different, so a store spares   *)
(* every live item and a load returns the oldest.                          *)
LEMMA ContentStep ==
  ASSUME SbufTypeOK, Counting, LiveItemsIntact, FifoOrder, MaxInserts <= IntMax,
         [SbufNext]_sbufVars
  PROVE  LiveItemsIntact' /\ FifoOrder'
  <1>1. \A b \in Bufs : Stored(b) \in Nat /\ Loaded(b) \in Nat
    BY Lengths
  <1>2. CASE UNCHANGED <<buf, inserted, removed>>
    BY <1>2 DEF LiveItemsIntact, FifoOrder, Stored, Loaded
  <1>3. ASSUME NEW t \in Threads, Store(t) PROVE LiveItemsIntact' /\ FifoOrder'
    <2>0. PICK b \in Bufs : b = on[t]
      BY DEF SbufTypeOK
    <2> DEFINE k == Stored(b) + 1
    <2>1. b \in Bufs /\ pc[t] = "ins_store" /\ item[t] \in Values
      BY <1>3 DEF Store, Go, SbufTypeOK
    <2>2. k \in Nat /\ k % SBUFSIZE \in Cells /\ Cell(rear[b]) = k % SBUFSIZE
          /\ k - 1 - Loaded(b) < SBUFSIZE
      BY <1>1, <2>0, <2>1, StoreCell
    <2>3. /\ buf' = [buf EXCEPT ![b][k % SBUFSIZE] = item[t]]
          /\ inserted' = [inserted EXCEPT ![b] = Append(@, item[t])]
          /\ removed' = removed
      BY <1>3, <2>0, <2>2 DEF Store, hist
    <2> HIDE DEF k
    <2>4. /\ \A c \in Bufs : c # b => inserted'[c] = inserted[c] /\ buf'[c] = buf[c]
          /\ Len(inserted'[b]) = k /\ inserted'[b][k] = item[t]
          /\ \A j \in 1 .. k - 1 : inserted'[b][j] = inserted[b][j]
          /\ \A c \in Cells : buf'[b][c] = IF c = k % SBUFSIZE THEN item[t] ELSE buf[b][c]
      BY <2>1, <2>2, <2>3 DEF SbufTypeOK, Stored, k
    <2>5. k = Stored(b) + 1
      BY DEF k
    <2>6. ASSUME NEW c \in Bufs PROVE
            /\ Loaded(c)' <= Stored(c)'
            /\ \A j \in 1 .. Loaded(c)' : removed'[c][j] = inserted'[c][j]
      BY <1>1, <2>3, <2>4, <2>5 DEF FifoOrder, Stored, Loaded
    <2>7. ASSUME NEW c \in Bufs, NEW j \in Loaded(c)' + 1 .. Stored(c)'
          PROVE  buf'[c][j % SBUFSIZE] = inserted'[c][j]
      <3>1. CASE c # b
        <4>1. /\ inserted'[c] = inserted[c] /\ removed'[c] = removed[c]
              /\ buf'[c] = buf[c]
          BY <2>3, <2>4, <3>1
        <4>2. j \in Loaded(c) + 1 .. Stored(c)
          BY <2>7, <4>1 DEF Stored, Loaded
        <4> QED
          BY <4>1, <4>2 DEF LiveItemsIntact
      <3>2. CASE c = b /\ j = k
        BY <2>2, <2>4, <3>2
      <3>3. CASE c = b /\ j # k
        <4>1. j \in Loaded(b) + 1 .. Stored(b) /\ j \in Nat /\ j < k /\ k - j < SBUFSIZE
          <5>1. Stored(b)' = k /\ Loaded(b)' = Loaded(b)
            BY <2>3, <2>4 DEF Stored, Loaded
          <5>2. j \in Loaded(b) + 1 .. k
            BY <2>7, <3>3, <5>1
          <5> QED
            BY <1>1, <2>1, <2>2, <2>5, <3>3, <5>2, SbufAssumption
        <4>2. j % SBUFSIZE # k % SBUFSIZE /\ j % SBUFSIZE \in Cells
          BY <2>2, <4>1, CellsDiffer, CellRange
        <4>3. buf[b][j % SBUFSIZE] = inserted[b][j]
          BY <2>1, <4>1 DEF LiveItemsIntact
        <4>4. j \in 1 .. k - 1
          BY <1>1, <2>1, <2>5, <4>1
        <4> QED
          BY <2>4, <3>3, <4>2, <4>3, <4>4
      <3> QED
        BY <3>1, <3>2, <3>3
    <2> QED
      BY <2>6, <2>7 DEF LiveItemsIntact, FifoOrder
  <1>4. ASSUME NEW t \in Threads, Load(t) PROVE LiveItemsIntact' /\ FifoOrder'
    <2>0. PICK b \in Bufs : b = on[t]
      BY DEF SbufTypeOK
    <2> DEFINE k == Loaded(b) + 1
    <2>1. b \in Bufs /\ pc[t] = "rem_load"
      BY <1>4 DEF Load, Go, SbufTypeOK
    <2>2. k \in Nat /\ Cell(front[b]) = k % SBUFSIZE /\ Cell(front[b]) \in Cells
          /\ k <= Stored(b)
      BY <1>1, <2>0, <2>1, LoadCell
    <2>3. /\ removed' = [removed EXCEPT ![b] = Append(@, buf[b][k % SBUFSIZE])]
          /\ inserted' = inserted /\ buf' = buf
      BY <1>4, <2>0, <2>2 DEF Load, LoadedValues, data
    <2>4. buf[b][k % SBUFSIZE] = inserted[b][k]
      BY <1>1, <2>1, <2>2 DEF LiveItemsIntact
    <2> HIDE DEF k
    <2>5. /\ \A c \in Bufs : c # b => removed'[c] = removed[c]
          /\ Len(removed'[b]) = k /\ removed'[b][k] = inserted[b][k]
          /\ \A j \in 1 .. k - 1 : removed'[b][j] = removed[b][j]
      BY <2>1, <2>2, <2>3, <2>4 DEF SbufTypeOK, Loaded, k
    <2>6. k = Loaded(b) + 1
      BY DEF k
    <2>7. ASSUME NEW c \in Bufs PROVE
            /\ Loaded(c)' <= Stored(c)'
            /\ \A j \in 1 .. Loaded(c)' : removed'[c][j] = inserted'[c][j]
      BY <1>1, <2>2, <2>3, <2>5, <2>6 DEF FifoOrder, Stored, Loaded
    <2>8. ASSUME NEW c \in Bufs, NEW j \in Loaded(c)' + 1 .. Stored(c)'
          PROVE  buf'[c][j % SBUFSIZE] = inserted'[c][j]
      <3>1. Stored(c)' = Stored(c) /\ Loaded(c)' \in Nat /\ Loaded(c)' >= Loaded(c)
        BY <1>1, <2>2, <2>3, <2>5, <2>6 DEF Stored, Loaded
      <3>2. j \in Loaded(c) + 1 .. Stored(c)
        BY <1>1, <2>8, <3>1
      <3> QED
        BY <2>3, <3>2 DEF LiveItemsIntact
    <2> QED
      BY <2>7, <2>8 DEF LiveItemsIntact, FifoOrder
  <1>5. ASSUME NEW t \in Threads, Step(t), ~Store(t), ~Load(t)
        PROVE  UNCHANGED <<buf, inserted, removed>>
    BY <1>5 DEF Step, DownSlots, DownItems, TryEmpty, Lock, BumpRear, BumpFront,
       Unlock, UpItems, UpSlots, data, hist
  <1>6. ASSUME NEW t \in Threads, NEW b \in Bufs, SomeCall(t, b)
        PROVE  UNCHANGED <<buf, inserted, removed>>
    BY <1>6 DEF SomeCall, CallInsert, CallRemove, CallTryRemove, data, hist
  <1>7. CASE UNCHANGED sbufVars
    BY <1>2, <1>7 DEF sbufVars, data, hist
  <1> QED
    BY <1>2, <1>3, <1>4, <1>5, <1>6, <1>7 DEF SbufNext

-----------------------------------------------------------------------------
LEMMA InvInit == SbufInit => SbufInv
  <1> SUFFICES ASSUME SbufInit PROVE SbufInv
    OBVIOUS
  <1>1. \A b \in Bufs : Stored(b) = 0 /\ Loaded(b) = 0
    BY DEF SbufInit, Stored, Loaded
  <1>2. LiveItemsIntact /\ FifoOrder
    BY <1>1 DEF LiveItemsIntact, FifoOrder
  <1> QED
    BY <1>2, TypeInit, CountingInit DEF SbufInv, Counting

LEMMA InvStep ==
  ASSUME MaxInserts <= IntMax, SbufInv, [SbufNext]_sbufVars PROVE SbufInv'
  BY TypeStep, CountingStep, ContentStep DEF SbufInv, Counting

LEMMA Invariance == ASSUME MaxInserts <= IntMax PROVE SbufSpec => []SbufInv
  BY InvInit, InvStep, PTL DEF SbufSpec

(* At most one thread works on a buffer's array at a time (sbuf.h:8).      *)
THEOREM MutualExclusion ==
  ASSUME MaxInserts <= IntMax PROVE SbufSpec => []CriticalSection
  BY Invariance, PTL DEF SbufInv

(* The two semaphores never leak or invent a token (sbuf.h:9-10).          *)
THEOREM TokensConserved ==
  ASSUME MaxInserts <= IntMax PROVE SbufSpec => []TokenAccounting
  BY Invariance, PTL DEF SbufInv

(* sbuf_insert never overwrites an item that is still to be removed.       *)
THEOREM NoOverwrite ==
  ASSUME MaxInserts <= IntMax PROVE SbufSpec => []LiveItemsIntact
  BY Invariance, PTL DEF SbufInv

(* sbuf_remove and sbuf_tryremove deliver in insertion order.              *)
THEOREM FirstInFirstOut ==
  ASSUME MaxInserts <= IntMax PROVE SbufSpec => []FifoOrder
  BY Invariance, PTL DEF SbufInv

(* The comments of sbuf.h:6-7 and sbuf.c:13 hold between critical sections *)
(* as long as fewer than INT_MAX items went through a buffer.              *)
THEOREM CommentsHold ==
  ASSUME MaxInserts <= IntMax PROVE SbufSpec => []HeaderComments
  <1>1. SbufInv => HeaderComments
    <2> SUFFICES ASSUME SbufInv, NEW b \in Bufs, mutex[b] = 1
                 PROVE  /\ (front[b] = rear[b]) <=> (Stored(b) = Loaded(b))
                        /\ Stored(b) > Loaded(b) =>
                             /\ Cell(Inc(front[b])) \in Cells /\ Cell(rear[b]) \in Cells
                             /\ buf[b][Cell(Inc(front[b]))] = inserted[b][Loaded(b) + 1]
                             /\ buf[b][Cell(rear[b])] = inserted[b][Stored(b)]
      BY DEF HeaderComments
    <2>1. Balanced(b) /\ Stored(b) \in Nat /\ Loaded(b) \in Nat
      BY CountingIsBalanced, Lengths DEF SbufInv, Counting
    <2>2. Count(b, Critical) = 0 /\ Count(b, Unstored) \in Nat
      BY <2>1, CountType DEF Balanced
    <2>3. Count(b, {"ins_store"}) = 0 /\ Count(b, {"rem_load"}) = 0
      <3>1. {"ins_store"} \subseteq Critical /\ {"rem_load"} \subseteq Critical
        BY DEF Critical
      <3> QED
        BY <2>2, <3>1, CountNone
    <2>4. rear[b] = Stored(b) /\ front[b] = Loaded(b)
      BY <2>1, <2>3 DEF Balanced
    <2>5. ASSUME Stored(b) > Loaded(b)
          PROVE  /\ Cell(Inc(front[b])) \in Cells /\ Cell(rear[b]) \in Cells
                 /\ buf[b][Cell(Inc(front[b]))] = inserted[b][Loaded(b) + 1]
                 /\ buf[b][Cell(rear[b])] = inserted[b][Stored(b)]
      <3>1. Inc(front[b]) = Loaded(b) + 1
        BY <2>1, <2>2, <2>4, <2>5, SbufAssumption DEF Inc, Balanced
      <3>2. \A k \in Loaded(b) + 1 .. Stored(b) : buf[b][k % SBUFSIZE] = inserted[b][k]
        BY DEF SbufInv, LiveItemsIntact
      <3>3. Loaded(b) + 1 \in Loaded(b) + 1 .. Stored(b)
            /\ Stored(b) \in Loaded(b) + 1 .. Stored(b)
        BY <2>1, <2>5
      <3> QED
        BY <2>1, <2>4, <3>1, <3>2, <3>3, CellRange
    <2> QED
      BY <2>1, <2>4, <2>5
  <1> QED
    BY <1>1, Invariance, PTL

(* Nobody sleeps without a reason: with every thread outside the library   *)
(* or asleep in down(), the two token equations leave only a full buffer   *)
(* to a sleeping inserter and an empty one to a sleeping remover.          *)
THEOREM SleepHasReason ==
  ASSUME MaxInserts <= IntMax PROVE SbufSpec => []SleepersHaveReason
  <1>1. SbufInv => SleepersHaveReason
    <2> SUFFICES ASSUME SbufInv,
                        \A t \in Threads : pc[t] \in {"idle"} \cup Waiting
                          /\ (pc[t] = "ins_wait" => slots[on[t]] = 0)
                          /\ (pc[t] = "rem_wait" => items[on[t]] = 0),
                        NEW t \in Threads
                 PROVE  /\ pc[t] = "ins_wait" => Stored(on[t]) - Loaded(on[t]) = SBUFSIZE
                        /\ pc[t] = "rem_wait" => Stored(on[t]) = Loaded(on[t])
      BY DEF SleepersHaveReason
    <2>1. PICK b \in Bufs : b = on[t]
      BY DEF SbufInv, SbufTypeOK
    <2>2. Balanced(b) /\ Stored(b) \in Nat /\ Loaded(b) \in Nat
      BY CountingIsBalanced, Lengths DEF SbufInv, Counting
    <2>3. /\ At(b, Reserved) = {} /\ At(b, Unreturned) = {}
          /\ At(b, Unannounced) = {} /\ At(b, Claimed) = {}
      BY DEF At, Waiting, Reserved, Unreturned, Unannounced, Claimed
    <2>4. /\ Count(b, Reserved) = 0 /\ Count(b, Unreturned) = 0
          /\ Count(b, Unannounced) = 0 /\ Count(b, Claimed) = 0
      BY <2>3, FS_EmptySet DEF Count
    <2> QED
      BY <2>1, <2>2, <2>4, SbufAssumption DEF Balanced
  <1> QED
    BY <1>1, Invariance, PTL

(* The library implements the abstract bounded buffer: a Store is a Put, a *)
(* Load is a Get, every other step of any thread is invisible.             *)
THEOREM SbufImplementsFifo ==
  ASSUME MaxInserts <= IntMax PROVE SbufSpec => FifoSpec
  <1> USE DEF Fifo!vars, Fifo!Put, Fifo!Get
  <1>1. SbufInit => Fifo!Init
    BY DEF SbufInit, Fifo!Init
  <1>2. ASSUME SbufInv, [SbufNext]_sbufVars PROVE [Fifo!Next]_(Fifo!vars)
    <2>0. SbufTypeOK /\ Counting /\ LiveItemsIntact
      BY <1>2 DEF SbufInv, Counting
    <2>1. ASSUME NEW t \in Threads, Store(t) PROVE Fifo!Next
      <3>1. PICK b \in Bufs : b = on[t]
        BY <2>0 DEF SbufTypeOK
      <3>2. pc[t] = "ins_store" /\ item[t] \in Values
        BY <2>0, <2>1 DEF Store, Go, SbufTypeOK
      <3>3. Len(inserted[b]) - Len(removed[b]) < SBUFSIZE
        BY <2>0, <3>1, <3>2, StoreCell DEF Stored, Loaded
      <3>4. Fifo!Put(b, item[t])
        BY <2>1, <3>1, <3>3 DEF Store
      <3> QED
        BY <3>2, <3>4 DEF Fifo!Next
    <2>2. ASSUME NEW t \in Threads, Load(t) PROVE Fifo!Next
      <3>1. PICK b \in Bufs : b = on[t]
        BY <2>0 DEF SbufTypeOK
      <3>2. pc[t] = "rem_load" /\ Stored(b) \in Nat /\ Loaded(b) \in Nat
        BY <2>0, <2>2, Lengths DEF Load, Go
      <3>3. /\ Cell(front[b]) = (Loaded(b) + 1) % SBUFSIZE /\ Cell(front[b]) \in Cells
            /\ Loaded(b) < Stored(b)
        BY <2>0, <3>1, <3>2, LoadCell
      <3>4. buf[b][Cell(front[b])] = inserted[b][Loaded(b) + 1]
        BY <2>0, <3>2, <3>3 DEF LiveItemsIntact
      <3>5. /\ removed' = [removed EXCEPT ![b] = Append(@, buf[b][Cell(front[b])])]
            /\ inserted' = inserted
        BY <2>2, <3>1, <3>3 DEF Load, LoadedValues
      <3>6. Fifo!Get(b)
        BY <3>3, <3>4, <3>5 DEF Stored, Loaded
      <3> QED
        BY <3>6 DEF Fifo!Next
    <2>3. ASSUME NEW t \in Threads, Step(t), ~Store(t), ~Load(t) PROVE UNCHANGED hist
      BY <2>3 DEF Step, DownSlots, DownItems, TryEmpty, Lock, BumpRear, BumpFront,
         Unlock, UpItems, UpSlots, hist
    <2>4. ASSUME NEW t \in Threads, NEW b \in Bufs, SomeCall(t, b) PROVE UNCHANGED hist
      BY <2>4 DEF SomeCall, CallInsert, CallRemove, CallTryRemove, hist
    <2> QED
      BY <1>2, <2>1, <2>2, <2>3, <2>4 DEF SbufNext, sbufVars, hist
  <1> QED
    BY <1>1, <1>2, Invariance, PTL DEF SbufSpec, FifoSpec, Fifo!Spec
=============================================================================
