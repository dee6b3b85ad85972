----------------------------- MODULE Lab9Proofs -----------------------------
(***************************************************************************)
(* Proofs about the lab9 counter modules, for any number of works, any     *)
(* number of turns, any value of the mode parameter and any number of      *)
(* changes of it while the works run.                                      *)
(***************************************************************************)
EXTENDS Lab9Counter, TLAPS, FiniteSetTheorems

LEMMA CaseValue == Case \in Branches
  BY DEF Case, Branches

LEMMA Lab9Init == Init => Lab9Inv
  <1> SUFFICES ASSUME Init PROVE Lab9Inv
    OBVIOUS
  <1>1. printed \in [of : {"none", "main", "atomic"}, number : Nat]
    BY DEF Init, NotPrinted
  <1>2. TypeOK
    <2>1. has_atomic \in BOOLEAN /\ oops \in BOOLEAN /\ mode \in Modes
      BY DEF Init
    <2>2. queued \subseteq Workers /\ owner \in Workers \cup {Nobody}
      BY DEF Init
    <2>3. my_mutex \in {"none", "raw", "initialised"}
      BY DEF Init
    <2>4. main_number \in Nat /\ atomic_number \in Nat /\ changes \in Nat
      BY DEF Init
    <2>5. loc \in [Workers -> Locs] /\ branch \in [Workers -> Branches \cup {"none"}]
      BY DEF Init, Locs, Branches
    <2>6. i \in [Workers -> 0 .. LOOPS] /\ reg \in [Workers -> Nat]
      BY Lab9Assumption DEF Init
    <2> QED
      BY <1>1, <2>1, <2>2, <2>3, <2>4, <2>5, <2>6 DEF TypeOK
  <1>3. BranchesApart /\ OnlyOwnerInside /\ LoadedIsCurrent /\ StoreHasTurn
    BY Lab9Assumption DEF Init, BranchesApart, Mutexed, OnlyOwnerInside, LoadedIsCurrent,
       StoreHasTurn
  <1> QED
    BY <1>2, <1>3 DEF Lab9Inv

(* Whatever does not touch the works, the mutex and the numbers keeps the  *)
(* parts of the invariant that are about them.                             *)
LEMMA WorksUntouched ==
  ASSUME Lab9Inv, UNCHANGED <<numbers, owner, workVars>>
  PROVE  BranchesApart' /\ OnlyOwnerInside' /\ LoadedIsCurrent' /\ StoreHasTurn'
  BY DEF Lab9Inv, numbers, workVars, BranchesApart, OnlyOwnerInside, LoadedIsCurrent,
     StoreHasTurn, NoUnsafe, Mutexed

LEMMA Lab9Step == Lab9Inv /\ [Next]_vars => Lab9Inv'
  <1> SUFFICES ASSUME Lab9Inv, [Next]_vars PROVE Lab9Inv'
    OBVIOUS
  <1>a. TypeOK
    BY DEF Lab9Inv
  <1>1. CASE UNCHANGED vars
    <2>1. TypeOK'
      BY <1>a, <1>1 DEF vars, numbers, workVars, TypeOK
    <2> QED
      BY <1>1, <2>1, WorksUntouched DEF vars, Lab9Inv
  <1>2. CASE FlushAndPrint
    <2>1. TypeOK'
      BY <1>a, <1>2 DEF FlushAndPrint, PrintNumber, numbers, workVars, TypeOK
    <2> QED
      BY <1>2, <2>1, WorksUntouched DEF FlushAndPrint, Lab9Inv
  <1>3. CASE InitMutex
    <2>1. TypeOK'
      BY <1>a, <1>3 DEF InitMutex, numbers, workVars, TypeOK
    <2> QED
      BY <1>3, <2>1, WorksUntouched DEF InitMutex, Lab9Inv
  <1>4. ASSUME NEW w \in Workers, QueueWork(w) PROVE Lab9Inv'
    <2>1. TypeOK'
      BY <1>a, <1>4 DEF QueueWork, numbers, workVars, TypeOK
    <2> QED
      BY <1>4, <2>1, WorksUntouched DEF QueueWork, Lab9Inv
  <1>5. CASE WriteMode
    <2>1. TypeOK'
      BY <1>a, <1>5 DEF WriteMode, numbers, workVars, TypeOK
    <2> QED
      BY <1>5, <2>1, WorksUntouched DEF WriteMode, Lab9Inv
  <1>6. ASSUME NEW w \in Workers, Contended(w) PROVE Lab9Inv'
    <2>1. TypeOK'
      BY <1>a, <1>6 DEF Contended, fixed, numbers, workVars, TypeOK
    <2> QED
      BY <1>6, <2>1, WorksUntouched DEF Contended, Lab9Inv
  <1>7. ASSUME NEW w \in Workers,
               \/ Switch(w) \/ MutexLock(w) \/ Load(w) \/ Store(w) \/ MutexUnlock(w)
               \/ AtomicInc(w) \/ LoopEnds(w)
        PROVE  Lab9Inv'
    <2> USE <1>7, Lab9Assumption
        DEF Lab9Inv, TypeOK, Locs, Branches, BranchesApart, Mutexed, OnlyOwnerInside,
            NoUnsafe, LoadedIsCurrent, StoreHasTurn, Go, fixed, numbers
    <2>1. CASE Switch(w)
      <3> HIDE DEF Case
      <3> QED
        BY <2>1, CaseValue DEF Switch, Take
    <2>2. CASE MutexLock(w)
      BY <2>2 DEF MutexLock
    <2>3. CASE Load(w)
      BY <2>3 DEF Load
    <2>4. CASE Store(w)
      BY <2>4 DEF Store
    <2>5. CASE MutexUnlock(w)
      BY <2>5 DEF MutexUnlock
    <2>6. CASE AtomicInc(w)
      BY <2>6 DEF AtomicInc
    <2>7. CASE LoopEnds(w)
      BY <2>7 DEF LoopEnds
    <2> QED
      BY <2>1, <2>2, <2>3, <2>4, <2>5, <2>6, <2>7
  <1> QED
    BY <1>1, <1>2, <1>3, <1>4, <1>5, <1>6, <1>7 DEF Next, number_init, number_worker

(* The types, the branches and the two facts below, in every mode and      *)
(* under any writes to the parameter.                                      *)
THEOREM Lab9Invariance == Spec => []Lab9Inv
  BY Lab9Init, Lab9Step, PTL DEF Spec

(* my_mutex admits one work at a time to main_number, of all that took a   *)
(* branch that locks it.                                                   *)
THEOREM MutexExcludes == Spec => []OnlyOwnerInside
  BY Lab9Invariance, PTL DEF Lab9Inv

(* No work stores from a stale copy as long as none took the unprotected   *)
(* branch.                                                                 *)
THEOREM NoStaleStore == Spec => []LoadedIsCurrent
  BY Lab9Invariance, PTL DEF Lab9Inv

(* As long as no work took the unprotected branch, the two numbers         *)
(* together behave as a counter that no addition is ever missing from.     *)
THEOREM SafeModesExact == Spec => ExactSpec
  <1> DEFINE value == main_number + atomic_number
             todo == [w \in Workers |-> LOOPS - i[w]]
  <1>1. Init => Exact!Init
    <2> SUFFICES ASSUME Init PROVE Exact!Init
      OBVIOUS
    <2>1. value = 0 /\ todo = [w \in Workers |-> LOOPS]
      BY Lab9Assumption DEF Init
    <2> QED
      BY <2>1 DEF Exact!Init
  <1>2. ASSUME Lab9Inv, [Next]_vars
        PROVE  [NoUnsafe => Exact!Next]_(Exact!vars)
    <2>1. ASSUME NEW w \in Workers, i[w] < LOOPS, i' = [i EXCEPT ![w] = @ + 1],
                 value' = value + 1
          PROVE  Exact!Next
      <3>1. todo[w] > 0 /\ todo' = [todo EXCEPT ![w] = @ - 1]
        <4>1. /\ i \in [Workers -> 0 .. LOOPS] /\ LOOPS \in Nat
              /\ i' \in [Workers -> Int] /\ i'[w] = i[w] + 1
              /\ \A x \in Workers \ {w} : i'[x] = i[x]
          BY <1>2, <2>1, Lab9Assumption DEF Lab9Inv, TypeOK
        <4>2. LOOPS - (i[w] + 1) = (LOOPS - i[w]) - 1 /\ LOOPS - i[w] > 0
          BY <2>1, <4>1
        <4>3. ASSUME NEW x \in Workers
              PROVE  LOOPS - i'[x] = IF x = w THEN (LOOPS - i[w]) - 1 ELSE LOOPS - i[x]
          BY <4>1, <4>2
        <4> QED
          BY <4>2, <4>3
      <3>2. Exact!Add(w)
        BY <2>1, <3>1 DEF Exact!Add
      <3> QED
        BY <3>2 DEF Exact!Next
    <2>2. ASSUME NEW w \in Workers, Store(w), NoUnsafe PROVE Exact!Next
      <3>1. i[w] < LOOPS /\ reg[w] = main_number
        BY <1>2, <2>2 DEF Store, Go, Lab9Inv, StoreHasTurn, LoadedIsCurrent
      <3>2. value' = value + 1
        <4>1. main_number' = main_number + 1 /\ atomic_number' = atomic_number
          BY <2>2, <3>1 DEF Store
        <4>2. main_number \in Nat /\ atomic_number \in Nat
          BY <1>2 DEF Lab9Inv, TypeOK
        <4> QED
          BY <4>1, <4>2
      <3> QED
        BY <2>1, <2>2, <3>1, <3>2 DEF Store
    <2>3. ASSUME NEW w \in Workers, AtomicInc(w) PROVE Exact!Next
      <3>1. value' = value + 1
        <4>1. main_number' = main_number /\ atomic_number' = atomic_number + 1
          BY <2>3 DEF AtomicInc
        <4>2. main_number \in Nat /\ atomic_number \in Nat
          BY <1>2 DEF Lab9Inv, TypeOK
        <4> QED
          BY <4>1, <4>2
      <3> QED
        BY <2>1, <2>3, <3>1 DEF AtomicInc
    <2>4. CASE UNCHANGED <<main_number, atomic_number, i>>
      BY <2>4 DEF Exact!vars
    <2>5. ASSUME NEW w \in Workers, number_worker(w), ~Store(w), ~AtomicInc(w)
          PROVE  UNCHANGED <<main_number, atomic_number, i>>
      BY <2>5 DEF number_worker, Switch, Take, MutexLock, Contended, Load, MutexUnlock, LoopEnds,
         numbers, workVars
    <2>6. ASSUME number_init \/ WriteMode PROVE UNCHANGED <<main_number, atomic_number, i>>
      BY <2>6 DEF number_init, InitMutex, QueueWork, FlushAndPrint, WriteMode, numbers, workVars
    <2> QED
      BY <1>2, <2>2, <2>3, <2>4, <2>5, <2>6 DEF Next, vars, numbers, workVars
  <1> QED
    BY <1>1, <1>2, Lab9Invariance, PTL DEF Spec, ExactSpec
-----------------------------------------------------------------------------
(* The turns taken by the works that are in one of some cases.             *)
Turns(cases) ==
  {p \in Workers \X (1 .. LOOPS) : branch[p[1]] \in cases /\ p[2] <= i[p[1]]}

Counting == {"fine", "coarse", "unsafe"}

LoopsDone == \A w \in Workers : (loc[w] = "done" => i[w] = LOOPS) /\ (loc[w] = "begin" => i[w] = 0)

AllCounted ==
  /\ atomic_number = Cardinality(Turns({"atomic"}))
  /\ NoUnsafe => main_number = Cardinality(Turns({"fine", "coarse"}))

NoneTwice ==
  /\ main_number <= Cardinality(Turns(Counting))
  /\ \A w \in Workers : loc[w] = "store" => reg[w] <= Cardinality(Turns(Counting))

(* A work that has taken a turn will load one at least; when the last of   *)
(* all stores is made, it has.                                             *)
TwoSurvive ==
  /\ \A w \in Workers : branch[w] \in Counting /\ i[w] > 0 =>
       main_number >= 1 /\ (loc[w] = "store" => reg[w] >= 1)
  /\ Taking(Counting) # {} /\ (\A w \in Taking(Counting) : i[w] = LOOPS) /\ LOOPS >= 2 =>
       main_number >= 2

Alone ==
  /\ Taking(Counting) = {} => main_number = 0
  /\ \A w \in Workers : Taking(Counting) = {w} =>
       main_number = i[w] /\ (loc[w] = "store" => reg[w] = i[w])

Counted == LoopsDone /\ AllCounted /\ NoneTwice /\ TwoSurvive /\ Alone

(* What was printed, and when.                                             *)
Reported ==
  /\ printed.of = "none" => printed = NotPrinted
  /\ printed.of # "none" => \A w \in Workers : loc[w] = "done"
  /\ printed.of = "atomic" => printed.number = atomic_number
  /\ printed.of = "main" => printed.number = main_number
  /\ changes = 0 =>
       /\ \A w \in Workers : branch[w] \in {"none", Case}
       /\ printed.of # "none" => (printed.of = "atomic" <=> Case = "atomic")

LEMMA TurnsFinite ==
  ASSUME NEW cases
  PROVE  IsFiniteSet(Turns(cases)) /\ Cardinality(Turns(cases)) \in Nat
  <1>1. IsFiniteSet(Workers) /\ IsFiniteSet(1 .. LOOPS)
    BY Lab9Assumption, FS_Interval
  <1>2. IsFiniteSet(Workers \X (1 .. LOOPS))
    BY <1>1, FS_Product
  <1>3. Turns(cases) \in SUBSET (Workers \X (1 .. LOOPS))
    BY DEF Turns
  <1> QED
    BY <1>2, <1>3, FS_Subset, FS_CardinalityType

LEMMA TurnsKept ==
  ASSUME NEW cases, Lab9Inv, LoopsDone, i' = i,
         \A w \in Workers : branch'[w] = branch[w] \/ loc[w] = "begin"
  PROVE  Turns(cases)' = Turns(cases)
  <1>1. ASSUME NEW p \in Workers \X (1 .. LOOPS)
        PROVE  (branch'[p[1]] \in cases /\ p[2] <= i'[p[1]]) <=> (branch[p[1]] \in cases /\ p[2] <= i[p[1]])
    <2>1. p[1] \in Workers /\ p[2] \in 1 .. LOOPS
      OBVIOUS
    <2>2. loc[p[1]] = "begin" => ~(p[2] <= i[p[1]])
      BY <2>1, Lab9Assumption DEF LoopsDone
    <2> QED
      BY <2>1, <2>2
  <1> QED
    BY <1>1 DEF Turns

LEMMA TurnTaken ==
  ASSUME NEW cases, Lab9Inv, NEW w \in Workers, i[w] < LOOPS, i' = [i EXCEPT ![w] = @ + 1],
         branch' = branch
  PROVE  Cardinality(Turns(cases))' =
           IF branch[w] \in cases THEN Cardinality(Turns(cases)) + 1 ELSE Cardinality(Turns(cases))
  <1>0. i[w] \in 0 .. LOOPS /\ LOOPS \in Nat /\ i'[w] = i[w] + 1 /\ \A u \in Workers \ {w} : i'[u] = i[u]
    BY Lab9Assumption DEF Lab9Inv, TypeOK
  <1>1. PICK x : x = <<w, i[w] + 1>>
    OBVIOUS
  <1>2. x \in Workers \X (1 .. LOOPS) /\ x \notin Turns(cases)
    BY <1>0, <1>1 DEF Turns
  <1>3. ASSUME NEW p \in Workers \X (1 .. LOOPS)
        PROVE  (branch'[p[1]] \in cases /\ p[2] <= i'[p[1]]) <=>
                 \/ branch[p[1]] \in cases /\ p[2] <= i[p[1]]
                 \/ branch[w] \in cases /\ p = x
    <2>1. PICK u \in Workers, n \in 1 .. LOOPS : p = <<u, n>>
      OBVIOUS
    <2>2. CASE u = w
      <3>1. p = x <=> n = i[w] + 1
        BY <1>1, <2>1, <2>2
      <3>2. n <= i'[w] <=> n <= i[w] \/ n = i[w] + 1
        BY <1>0
      <3> QED
        BY <2>1, <2>2, <3>1, <3>2
    <2>3. CASE u # w
      <3>1. p # x
        BY <1>1, <2>1, <2>3
      <3> QED
        BY <1>0, <2>1, <2>3, <3>1
    <2> QED
      BY <2>2, <2>3
  <1>4. CASE branch[w] \in cases
    <2>1. Turns(cases)' = Turns(cases) \cup {x}
      BY <1>2, <1>3, <1>4 DEF Turns
    <2>2. Cardinality(Turns(cases) \cup {x}) = Cardinality(Turns(cases)) + 1
      BY <1>2, TurnsFinite, FS_AddElement
    <2> QED
      BY <1>4, <2>1, <2>2
  <1>5. CASE branch[w] \notin cases
    <2>1. Turns(cases)' = Turns(cases)
      BY <1>3, <1>5 DEF Turns
    <2> QED
      BY <1>5, <2>1
  <1> QED
    BY <1>4, <1>5

LEMMA TurnsAtEnd ==
  ASSUME Lab9Inv, LoopsDone, \A w \in Workers : loc[w] = "done", NEW cases
  PROVE  Cardinality(Turns(cases)) = LOOPS * Cardinality(Taking(cases))
  <1>1. IsFiniteSet(Workers) /\ IsFiniteSet(1 .. LOOPS) /\ Cardinality(1 .. LOOPS) = LOOPS /\ LOOPS \in Nat
    BY Lab9Assumption, FS_Interval
  <1>2. Taking(cases) \in SUBSET Workers
    BY DEF Taking
  <1>3. IsFiniteSet(Taking(cases)) /\ Cardinality(Taking(cases)) \in Nat
    BY <1>1, <1>2, FS_Subset, FS_CardinalityType
  <1>4. Turns(cases) = Taking(cases) \X (1 .. LOOPS)
    <2>1. \A w \in Workers : i[w] = LOOPS
      BY DEF LoopsDone
    <2>2. \A p \in Workers \X (1 .. LOOPS) : p[2] <= i[p[1]]
      BY <1>1, <2>1
    <2> QED
      BY <2>2 DEF Turns, Taking
  <1>5. Cardinality(Turns(cases)) = Cardinality(Taking(cases)) * LOOPS
    BY <1>1, <1>3, <1>4, FS_Product
  <1> QED
    BY <1>1, <1>3, <1>5

LEMMA InitCounted == ASSUME Init PROVE Counted /\ Reported
  <1>1. ASSUME NEW cases, "none" \notin cases PROVE Cardinality(Turns(cases)) = 0 /\ Taking(cases) = {}
    <2>1. Turns(cases) = {} /\ Taking(cases) = {}
      BY <1>1 DEF Init, Turns, Taking
    <2> QED
      BY <2>1, FS_EmptySet
  <1>2. /\ Cardinality(Turns({"atomic"})) = 0 /\ Cardinality(Turns({"fine", "coarse"})) = 0
        /\ Cardinality(Turns(Counting)) = 0 /\ Taking(Counting) = {}
    BY <1>1 DEF Counting
  <1>3. LoopsDone /\ AllCounted /\ NoneTwice /\ TwoSurvive
    BY <1>2 DEF Init, LoopsDone, AllCounted, NoneTwice, TwoSurvive, Counting
  <1>4. Alone
    BY <1>2 DEF Init, Alone
  <1>5. Reported
    BY DEF Init, Reported, NotPrinted
  <1> QED
    BY <1>3, <1>4, <1>5 DEF Counted

(* Steps that take no turn.                                                *)
LEMMA NoTurn ==
  ASSUME Lab9Inv, Counted, UNCHANGED <<main_number, atomic_number, branch, i>>, LoopsDone',
         \A w \in Workers : loc'[w] = "store" =>
           reg'[w] = main_number \/ (loc[w] = "store" /\ reg'[w] = reg[w])
  PROVE  Counted'
  <1>1. \A cases : Turns(cases)' = Turns(cases) /\ Taking(cases)' = Taking(cases)
    BY DEF Turns, Taking
  <1>2. AllCounted'
    BY <1>1 DEF Counted, AllCounted, NoUnsafe
  <1>3. NoneTwice'
    BY <1>1 DEF Counted, NoneTwice
  <1>4. TwoSurvive'
    BY <1>1 DEF Counted, TwoSurvive
  <1>5. Alone'
    BY <1>1 DEF Counted, Alone
  <1> QED
    BY <1>2, <1>3, <1>4, <1>5 DEF Counted

LEMMA SwitchCounted ==
  ASSUME Lab9Inv, Counted, NEW w \in Workers, Switch(w)
  PROVE  Counted'
  <1>0. /\ loc[w] = "begin" /\ UNCHANGED <<numbers, i, reg>> /\ branch' = [branch EXCEPT ![w] = Case]
        /\ branch[w] = "none" /\ i[w] = 0 /\ branch'[w] \in Branches
        /\ \A u \in Workers \ {w} : branch'[u] = branch[u] /\ loc'[u] = loc[u]
        /\ loc'[w] \in {"lock", "inc", "load"}
    <2>1. loc[w] = "begin" /\ UNCHANGED <<numbers, i, reg>> /\ branch' = [branch EXCEPT ![w] = Case]
      BY DEF Switch, Take, Go
    <2>2. branch[w] = "none" /\ i[w] = 0
      BY <2>1 DEF Lab9Inv, BranchesApart, Counted, LoopsDone
    <2>3. branch'[w] \in Branches /\ \A u \in Workers \ {w} : branch'[u] = branch[u]
      BY <2>1, CaseValue DEF Lab9Inv, TypeOK
    <2>4. PICK c : c = Case
      OBVIOUS
    <2>5. loc' = [loc EXCEPT ![w] = CASE c \in {"fine", "coarse"} -> "lock"
                                      [] c = "atomic" -> "inc"
                                      [] c = "unsafe" -> "load"]
      BY <2>4 DEF Switch, Take, Go
    <2>6. c \in {"fine", "coarse", "atomic", "unsafe"}
      BY <2>4, CaseValue DEF Branches
    <2>7. loc'[w] \in {"lock", "inc", "load"} /\ \A u \in Workers \ {w} : loc'[u] = loc[u]
      BY <2>5, <2>6 DEF Lab9Inv, TypeOK
    <2> QED
      BY <2>1, <2>2, <2>3, <2>7
  <1>1. UNCHANGED <<main_number, atomic_number, i, reg>>
    BY <1>0 DEF numbers
  <1>2. ASSUME NEW cases PROVE Turns(cases)' = Turns(cases)
    BY <1>0, TurnsKept DEF Counted
  <1>3. NoUnsafe' => NoUnsafe
    BY <1>0 DEF NoUnsafe
  <1>4. LoopsDone'
    BY <1>0 DEF Counted, LoopsDone
  <1>5. AllCounted'
    BY <1>1, <1>2, <1>3 DEF Counted, AllCounted
  <1>6. \A u \in Workers : loc'[u] = "store" => loc[u] = "store" /\ u # w
    BY <1>0
  <1>7. NoneTwice'
    BY <1>1, <1>2, <1>6 DEF Counted, NoneTwice
  <1>8. \A u \in Workers : i[u] > 0 => branch'[u] = branch[u]
    BY <1>0
  <1>9. /\ \A u \in Workers \ {w} : u \in Taking(Counting)' <=> u \in Taking(Counting)
        /\ w \notin Taking(Counting) /\ Taking(Counting)' \in SUBSET Workers
        /\ Taking(Counting) \in SUBSET Workers
    BY <1>0 DEF Taking, Counting
  <1>10. TwoSurvive'
    <2>1. \A u \in Workers : branch'[u] \in Counting /\ i'[u] > 0 =>
            main_number' >= 1 /\ (loc'[u] = "store" => reg'[u] >= 1)
      BY <1>1, <1>6, <1>8 DEF Counted, TwoSurvive
    <2>2. ASSUME Taking(Counting)' # {}, \A u \in Taking(Counting)' : i'[u] = LOOPS, LOOPS >= 2
          PROVE  main_number' >= 2
      <3>1. w \notin Taking(Counting)'
        BY <1>0, <1>1, <2>2, Lab9Assumption
      <3>2. Taking(Counting)' = Taking(Counting)
        BY <1>9, <3>1
      <3> QED
        BY <1>1, <2>2, <3>2 DEF Counted, TwoSurvive
    <2> QED
      BY <2>1, <2>2 DEF TwoSurvive
  <1>11. Alone'
    <2>1. CASE w \in Taking(Counting)'
      <3>1. ASSUME NEW u \in Workers, Taking(Counting)' = {u}
            PROVE  main_number' = i'[u] /\ (loc'[u] = "store" => reg'[u] = i'[u])
        <4>1. u = w
          BY <2>1, <3>1
        <4>2. Taking(Counting) = {}
          BY <1>9, <3>1, <4>1
        <4>3. main_number = 0
          BY <4>2 DEF Counted, Alone
        <4> QED
          BY <1>0, <1>1, <4>1, <4>3
      <3> QED
        BY <2>1, <3>1 DEF Alone
    <2>2. CASE w \notin Taking(Counting)'
      <3>1. Taking(Counting)' = Taking(Counting)
        BY <1>9, <2>2
      <3> QED
        BY <1>1, <1>6, <3>1 DEF Counted, Alone
    <2> QED
      BY <2>1, <2>2
  <1> QED
    BY <1>4, <1>5, <1>7, <1>10, <1>11 DEF Counted

LEMMA StoreCounted ==
  ASSUME Lab9Inv, Counted, NEW w \in Workers, Store(w)
  PROVE  Counted'
  <1>0. /\ loc[w] = "store" /\ i' = [i EXCEPT ![w] = @ + 1] /\ branch' = branch /\ reg' = reg
        /\ main_number' = reg[w] + 1 /\ atomic_number' = atomic_number
        /\ i[w] < LOOPS /\ i[w] \in Nat /\ reg[w] \in Nat /\ main_number \in Nat /\ LOOPS \in Nat
        /\ i'[w] = i[w] + 1 /\ branch[w] \in Counting
        /\ loc'[w] \in {"unlock", "load"} /\ \A u \in Workers \ {w} : loc'[u] = loc[u] /\ i'[u] = i[u]
    <2>1. /\ loc[w] = "store" /\ i' = [i EXCEPT ![w] = @ + 1] /\ branch' = branch /\ reg' = reg
          /\ main_number' = reg[w] + 1 /\ atomic_number' = atomic_number
          /\ loc' = [loc EXCEPT ![w] = IF branch[w] = "fine" THEN "unlock" ELSE "load"]
      BY DEF Store, Go
    <2>2. i[w] < LOOPS /\ i[w] \in Nat /\ reg[w] \in Nat /\ main_number \in Nat /\ LOOPS \in Nat
      BY <2>1, Lab9Assumption DEF Lab9Inv, TypeOK, StoreHasTurn
    <2>3. branch[w] \in Counting
      BY <2>1 DEF Lab9Inv, TypeOK, BranchesApart, Branches, Counting
    <2>4. i'[w] = i[w] + 1 /\ \A u \in Workers \ {w} : i'[u] = i[u]
      BY <2>1 DEF Lab9Inv, TypeOK
    <2>5. loc'[w] \in {"unlock", "load"} /\ \A u \in Workers \ {w} : loc'[u] = loc[u]
      BY <2>1 DEF Lab9Inv, TypeOK
    <2> QED
      BY <2>1, <2>2, <2>3, <2>4, <2>5
  <1>1. ASSUME NEW cases
        PROVE  Cardinality(Turns(cases))' =
                 IF branch[w] \in cases THEN Cardinality(Turns(cases)) + 1 ELSE Cardinality(Turns(cases))
    BY <1>0, TurnTaken
  <1>2. /\ Cardinality(Turns({"atomic"}))' = Cardinality(Turns({"atomic"}))
        /\ Cardinality(Turns(Counting))' = Cardinality(Turns(Counting)) + 1
        /\ branch[w] # "unsafe" =>
             Cardinality(Turns({"fine", "coarse"}))' = Cardinality(Turns({"fine", "coarse"})) + 1
        /\ Cardinality(Turns(Counting)) \in Nat
    BY <1>0, <1>1, TurnsFinite DEF Counting
  <1>3. LoopsDone'
    BY <1>0 DEF Counted, LoopsDone
  <1>4. AllCounted'
    <2>1. ASSUME NoUnsafe' PROVE main_number' = Cardinality(Turns({"fine", "coarse"}))'
      <3>1. NoUnsafe /\ branch[w] # "unsafe"
        BY <1>0, <2>1 DEF NoUnsafe
      <3>2. reg[w] = main_number
        BY <1>0, <3>1 DEF Lab9Inv, LoadedIsCurrent
      <3> QED
        BY <1>0, <1>2, <3>1, <3>2 DEF Counted, AllCounted
    <2>2. atomic_number' = Cardinality(Turns({"atomic"}))'
      BY <1>0, <1>2 DEF Counted, AllCounted
    <2> QED
      BY <2>1, <2>2 DEF AllCounted
  <1>5. NoneTwice'
    <2>1. reg[w] <= Cardinality(Turns(Counting))
      BY <1>0 DEF Counted, NoneTwice
    <2>2. main_number' <= Cardinality(Turns(Counting))'
      BY <1>0, <1>2, <2>1
    <2>3. ASSUME NEW u \in Workers, loc'[u] = "store" PROVE reg'[u] <= Cardinality(Turns(Counting))'
      <3>1. reg[u] <= Cardinality(Turns(Counting)) /\ reg[u] \in Nat
        BY <1>0, <2>3 DEF Counted, NoneTwice, Lab9Inv, TypeOK
      <3> QED
        BY <1>0, <1>2, <3>1
    <2> QED
      BY <2>2, <2>3 DEF NoneTwice
  <1>6. TwoSurvive'
    <2>1. ASSUME NEW u \in Workers, branch'[u] \in Counting, i'[u] > 0
          PROVE  main_number' >= 1 /\ (loc'[u] = "store" => reg'[u] >= 1)
      BY <1>0, <2>1 DEF Counted, TwoSurvive
    <2>2. ASSUME \A u \in Taking(Counting)' : i'[u] = LOOPS, LOOPS >= 2 PROVE main_number' >= 2
      <3>1. i[w] > 0
        BY <1>0, <2>2 DEF Taking
      <3>2. reg[w] >= 1
        BY <1>0, <3>1 DEF Counted, TwoSurvive
      <3> QED
        BY <1>0, <3>2
    <2> QED
      BY <2>1, <2>2 DEF TwoSurvive
  <1>7. Alone'
    <2>1. Taking(Counting)' = Taking(Counting) /\ w \in Taking(Counting)
      BY <1>0 DEF Taking
    <2>2. ASSUME NEW u \in Workers, Taking(Counting) = {u}
          PROVE  main_number' = i'[u] /\ (loc'[u] = "store" => reg'[u] = i'[u])
      <3>1. u = w
        BY <2>1, <2>2
      <3>2. reg[w] = i[w]
        BY <1>0, <2>2, <3>1 DEF Counted, Alone
      <3> QED
        BY <1>0, <3>1, <3>2
    <2> QED
      BY <2>1, <2>2 DEF Alone
  <1> QED
    BY <1>3, <1>4, <1>5, <1>6, <1>7 DEF Counted

LEMMA AtomicCounted ==
  ASSUME Lab9Inv, Counted, NEW w \in Workers, AtomicInc(w)
  PROVE  Counted'
  <1>0. /\ i' = [i EXCEPT ![w] = @ + 1] /\ UNCHANGED <<branch, reg, main_number>>
        /\ atomic_number' = atomic_number + 1 /\ i[w] < LOOPS /\ branch[w] = "atomic" /\ loc' = loc
        /\ loc[w] = "inc" /\ \A u \in Workers \ {w} : i'[u] = i[u]
    <2>1. /\ i' = [i EXCEPT ![w] = @ + 1] /\ UNCHANGED <<branch, reg, main_number>>
          /\ atomic_number' = atomic_number + 1 /\ i[w] < LOOPS
          /\ loc[w] = "inc" /\ loc' = [loc EXCEPT ![w] = "inc"]
      BY DEF AtomicInc, Go
    <2>2. branch[w] = "atomic" /\ loc' = loc /\ \A u \in Workers \ {w} : i'[u] = i[u]
      BY <2>1 DEF Lab9Inv, TypeOK, BranchesApart
    <2> QED
      BY <2>1, <2>2
  <1>1. ASSUME NEW cases
        PROVE  Cardinality(Turns(cases))' =
                 IF branch[w] \in cases THEN Cardinality(Turns(cases)) + 1 ELSE Cardinality(Turns(cases))
    BY <1>0, TurnTaken
  <1>2. /\ Cardinality(Turns({"atomic"}))' = Cardinality(Turns({"atomic"})) + 1
        /\ Cardinality(Turns(Counting))' = Cardinality(Turns(Counting))
        /\ Cardinality(Turns({"fine", "coarse"}))' = Cardinality(Turns({"fine", "coarse"}))
    BY <1>0, <1>1 DEF Counting
  <1>3. LoopsDone'
    BY <1>0 DEF Counted, LoopsDone
  <1>4. AllCounted' /\ NoneTwice'
    BY <1>0, <1>2 DEF Counted, AllCounted, NoneTwice, NoUnsafe
  <1>5. Taking(Counting)' = Taking(Counting) /\ w \notin Taking(Counting) /\ branch[w] \notin Counting
        /\ Taking(Counting) \in SUBSET Workers
    BY <1>0 DEF Taking, Counting
  <1>6. TwoSurvive'
    BY <1>0, <1>5 DEF Counted, TwoSurvive
  <1>7. Alone'
    BY <1>0, <1>5 DEF Counted, Alone
  <1> QED
    BY <1>3, <1>4, <1>6, <1>7 DEF Counted

LEMMA StepCounted == ASSUME Lab9Inv, Counted, [Next]_vars PROVE Counted'
  <1>1. CASE UNCHANGED <<numbers, workVars>>
    <2>1. LoopsDone'
      BY <1>1 DEF Counted, LoopsDone, workVars
    <2> QED
      BY <1>1, <2>1, NoTurn DEF numbers, workVars
  <1>2. ASSUME NEW w \in Workers, MutexLock(w) \/ Load(w) \/ MutexUnlock(w) \/ LoopEnds(w)
        PROVE  Counted'
    <2>1. UNCHANGED <<main_number, atomic_number, branch, i>>
      BY <1>2 DEF MutexLock, Load, MutexUnlock, LoopEnds, numbers
    <2>2. \A u \in Workers \ {w} : loc'[u] = loc[u] /\ reg'[u] = reg[u]
      BY <1>2 DEF MutexLock, Load, MutexUnlock, LoopEnds, Go, Lab9Inv, TypeOK
    <2>3. /\ loc[w] # "begin" /\ loc'[w] # "begin" /\ (loc'[w] = "done" => i[w] = LOOPS)
          /\ loc'[w] = "store" => reg'[w] = main_number
      BY <1>2, Lab9Assumption DEF MutexLock, Load, MutexUnlock, LoopEnds, Go, Lab9Inv, TypeOK
    <2>4. LoopsDone'
      BY <2>1, <2>2, <2>3 DEF Counted, LoopsDone
    <2> QED
      BY <2>1, <2>2, <2>3, <2>4, NoTurn
  <1>3. ASSUME NEW w \in Workers, number_worker(w) PROVE Counted'
    BY <1>1, <1>2, <1>3, SwitchCounted, StoreCounted, AtomicCounted DEF number_worker, Contended
  <1>4. CASE number_init \/ WriteMode
    BY <1>1, <1>4 DEF number_init, InitMutex, FlushAndPrint, QueueWork, WriteMode
  <1> QED
    BY <1>1, <1>3, <1>4 DEF Next, vars

LEMMA StepReported == ASSUME Lab9Inv, Counted, Reported, [Next]_vars PROVE Reported'
  <1>1. CASE UNCHANGED vars
    BY <1>1 DEF Reported, vars, numbers, workVars, Case
  <1>2. CASE WriteMode
    <2>1. printed.of # "main" /\ printed.of # "atomic" /\ printed.of = "none"
      BY <1>2 DEF WriteMode, NotPrinted
    <2>2. changes' # 0 /\ printed' = printed
      BY <1>2 DEF WriteMode, Lab9Inv, TypeOK
    <2> QED
      BY <2>1, <2>2 DEF Reported
  <1>3. CASE InitMutex \/ \E w \in Workers : QueueWork(w)
    BY <1>3 DEF InitMutex, QueueWork, Reported, Case, numbers, workVars
  <1>4. CASE FlushAndPrint
    <2>1. /\ printed' = IF Case = "atomic" THEN [of |-> "atomic", number |-> atomic_number]
                                           ELSE [of |-> "main", number |-> main_number]
          /\ UNCHANGED <<numbers, loc, branch, changes>> /\ Case' = Case
          /\ \A w \in Workers : loc[w] = "done"
      BY <1>4 DEF FlushAndPrint, PrintNumber, workVars, Case
    <2> QED
      BY <2>1 DEF Reported, numbers
  <1>5. ASSUME NEW w \in Workers, number_worker(w) PROVE Reported'
    <2>1. /\ UNCHANGED <<printed, changes>> /\ Case' = Case
          /\ loc[w] # "done"
          /\ branch' = branch \/ branch' = [branch EXCEPT ![w] = Case]
      BY <1>5 DEF number_worker, Switch, Take, MutexLock, Contended, Load, Store, MutexUnlock, AtomicInc,
         LoopEnds, Go, fixed, workVars, Case
    <2>2. printed.of = "none" /\ printed = NotPrinted
      BY <2>1 DEF Reported
    <2>3. \A u \in Workers : branch'[u] = branch[u] \/ branch'[u] = Case
      BY <2>1 DEF Lab9Inv, TypeOK
    <2> QED
      BY <2>1, <2>2, <2>3 DEF Reported
  <1> QED
    BY <1>1, <1>2, <1>3, <1>4, <1>5 DEF Next, number_init

LEMMA TurnsCounted == Spec => [](Lab9Inv /\ Counted /\ Reported)
  <1>1. Init => Counted /\ Reported
    BY InitCounted
  <1>2. Lab9Inv /\ Counted /\ Reported /\ [Next]_vars => Counted' /\ Reported'
    BY StepCounted, StepReported
  <1> QED
    BY <1>1, <1>2, Lab9Invariance, PTL DEF Spec

(* The printed number counts every turn of every work that counted in it,  *)
(* unless one took the unprotected branch, whatever was written to mode;   *)
(* and if nothing was, it counts every turn of all works.                  *)
THEOREM ProtectedTurnsAllPrinted == Spec => []PrintsEveryTurn
  <1>1. ASSUME Lab9Inv, Counted, Reported PROVE PrintsEveryTurn
    <2>1. ASSUME printed.of # "none", NEW cases
          PROVE  Cardinality(Turns(cases)) = LOOPS * Cardinality(Taking(cases))
      BY <1>1, <2>1, TurnsAtEnd DEF Counted, Reported
    <2>2. printed.of = "atomic" => printed.number = LOOPS * Cardinality(Taking({"atomic"}))
      BY <1>1, <2>1 DEF Counted, AllCounted, Reported
    <2>3. printed.of = "main" /\ NoUnsafe => printed.number = LOOPS * Cardinality(Taking({"fine", "coarse"}))
      BY <1>1, <2>1 DEF Counted, AllCounted, Reported
    <2>4. ASSUME printed # NotPrinted, NoUnsafe, changes = 0
          PROVE  printed.number = LOOPS * Cardinality(Workers)
      <3>1. printed.of # "none" /\ printed.of \in {"main", "atomic"}
        BY <1>1, <2>4 DEF Reported, Lab9Inv, TypeOK
      <3>2. \A w \in Workers : branch[w] = Case /\ branch[w] # "unsafe" /\ Case \in Branches
        BY <1>1, <2>4, <3>1, CaseValue DEF Reported, NoUnsafe, Lab9Inv, BranchesApart
      <3>3. CASE printed.of = "atomic"
        <4>1. Taking({"atomic"}) = Workers
          BY <1>1, <2>4, <3>2, <3>3 DEF Reported, Taking
        <4> QED
          BY <2>2, <3>3, <4>1
      <3>4. CASE printed.of = "main"
        <4>1. Taking({"fine", "coarse"}) = Workers
          BY <1>1, <2>4, <3>2, <3>4 DEF Reported, Taking, Branches
        <4> QED
          BY <2>3, <2>4, <3>4, <4>1
      <3> QED
        BY <3>1, <3>3, <3>4
    <2> QED
      BY <2>2, <2>3, <2>4 DEF PrintsEveryTurn
  <1> QED
    BY <1>1, TurnsCounted, PTL

(* Unprotected works lose additions, for any number of works and turns,    *)
(* but two survive, or all if there is one work or one turn; and nothing   *)
(* is counted twice.                                                       *)
THEOREM UnsafeLosesNotAll == Spec => []UnsafeStillCounts
  <1>1. ASSUME Lab9Inv, Counted, Reported, printed.of = "main"
        PROVE  LET counting == Cardinality(Taking(Counting)) IN
               /\ printed.number <= LOOPS * counting
               /\ counting > 0 => printed.number >= (IF LOOPS < 2 THEN LOOPS ELSE 2)
               /\ counting = 1 => printed.number = LOOPS
    <2>1. /\ printed.number = main_number /\ main_number \in Nat /\ LOOPS \in Nat
          /\ \A w \in Workers : loc[w] = "done" /\ i[w] = LOOPS
      BY <1>1, Lab9Assumption DEF Reported, Lab9Inv, TypeOK, Counted, LoopsDone
    <2>2. PICK n : n = Cardinality(Taking(Counting))
      OBVIOUS
    <2>3. IsFiniteSet(Taking(Counting)) /\ Taking(Counting) \in SUBSET Workers
      <3>1. Taking(Counting) \in SUBSET Workers
        BY DEF Taking
      <3> QED
        BY <3>1, Lab9Assumption, FS_Subset
    <2>4. n \in Nat /\ (n = 0 <=> Taking(Counting) = {}) /\ (n = 1 <=> \E w : Taking(Counting) = {w})
      BY <2>2, <2>3, FS_CardinalityType, FS_EmptySet, FS_Singleton
    <2>5. printed.number <= LOOPS * n
      <3>1. Cardinality(Turns(Counting)) = LOOPS * n
        BY <1>1, <2>1, <2>2, TurnsAtEnd DEF Counted
      <3> QED
        BY <1>1, <2>1, <3>1 DEF Counted, NoneTwice
    <2>6. ASSUME n > 0 PROVE printed.number >= (IF LOOPS < 2 THEN LOOPS ELSE 2)
      <3>1. PICK w \in Workers : w \in Taking(Counting) /\ branch[w] \in Counting
        BY <2>3, <2>4, <2>6 DEF Taking
      <3>2. LOOPS > 0 => main_number >= 1
        BY <1>1, <2>1, <3>1 DEF Counted, TwoSurvive
      <3>3. LOOPS >= 2 => main_number >= 2
        BY <1>1, <2>1, <2>3, <3>1 DEF Counted, TwoSurvive
      <3> QED
        BY <2>1, <3>2, <3>3
    <2>7. ASSUME n = 1 PROVE printed.number = LOOPS
      <3>1. PICK w : Taking(Counting) = {w}
        BY <2>4, <2>7
      <3>2. w \in Workers
        BY <2>3, <3>1
      <3> QED
        BY <1>1, <2>1, <3>1, <3>2 DEF Counted, Alone
    <2> QED
      BY <2>2, <2>5, <2>6, <2>7
  <1>2. Lab9Inv /\ Counted /\ Reported => UnsafeStillCounts
    BY <1>1 DEF UnsafeStillCounts, Counting
  <1> QED
    BY <1>2, TurnsCounted, PTL
=============================================================================
