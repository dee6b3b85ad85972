---------------------------- MODULE Lab9Counter ----------------------------
(***************************************************************************)
(* lab9/quiz3.c: number_init queues four works, each of which adds one to  *)
(* a shared number in a loop, protected as the module parameter "mode"     *)
(* says, waits for them and prints the number.  lab9/quiz2.c is the same   *)
(* module without the atomic case (has_atomic is FALSE): there mode 3      *)
(* takes the unprotected loop.                                             *)
(*                                                                         *)
(* The parameter is writable (0644): whoever writes /sys/module/.../mode   *)
(* changes it while the works run, and every read of it in the code may    *)
(* see another value.  A work stays in the branch it took.                 *)
(*                                                                         *)
(* main_number++ is a load and a store.  The loop counter i is private to  *)
(* its worker and moves together with the store.                           *)
(***************************************************************************)
EXTENDS Integers, FiniteSets

CONSTANTS
  Workers,     \* work1 .. work4, each on a CPU of its own
  LOOPS,       \* turns of each loop, 10000000 in the source
  Modes,       \* the values of mode that are tried
  MaxChanges,  \* bound of the model: writes to the parameter
  Nobody       \* no owner of the mutex

ASSUME Lab9Assumption ==
  /\ IsFiniteSet(Workers) /\ Nobody \notin Workers
  /\ LOOPS \in Nat
  /\ Modes \subseteq Int
  /\ MaxChanges \in Nat

VARIABLES
  has_atomic,             \* does number_worker have the atomic case?
  mode,                   \* the module parameter
  my_mutex,               \* "none" before number_init's switch, then "raw" or "initialised"
  queued,                 \* the works handed to the workqueue
  printed,                \* what number_init printed: which number, and its value
  main_number, atomic_number,
  owner,                  \* owner of my_mutex
  loc,                    \* by worker: next statement
  branch,                 \* by worker: the case its switch took
  i,                      \* by worker: turns done
  reg,                    \* by worker: the loaded value of main_number
  oops,                   \* a worker waited for a mutex nobody initialised
  changes                 \* history: writes to the parameter

numbers == <<main_number, atomic_number>>
workVars == <<loc, branch, i, reg>>
vars == <<has_atomic, mode, my_mutex, queued, printed, numbers, owner, workVars, oops, changes>>

(* The case a switch takes: mode 3 is a case of its own in quiz3.c only; 0 *)
(* and every other value share the unprotected loop.                       *)
Case ==
  CASE mode = 1 -> "fine"
    [] mode = 2 -> "coarse"
    [] mode = 3 /\ has_atomic -> "atomic"
    [] OTHER -> "unsafe"

NotPrinted == [of |-> "none", number |-> 0]

Init ==
  /\ has_atomic \in BOOLEAN /\ mode \in Modes /\ my_mutex = "none"
  /\ queued = {} /\ printed = NotPrinted
  /\ main_number = 0 /\ atomic_number = 0
  /\ owner = Nobody /\ oops = FALSE /\ changes = 0
  /\ loc = [w \in Workers |-> "begin"]
  /\ branch = [w \in Workers |-> "none"]
  /\ i = [w \in Workers |-> 0]
  /\ reg = [w \in Workers |-> 0]

(* Somebody writes the parameter while number_init runs.                   *)
WriteMode ==
  /\ printed = NotPrinted /\ changes < MaxChanges
  /\ mode' \in Modes \ {mode}
  /\ changes' = changes + 1
  /\ UNCHANGED <<has_atomic, my_mutex, queued, printed, numbers, owner, workVars, oops>>

Go(w, from, to) == loc[w] = from /\ loc' = [loc EXCEPT ![w] = to]

-----------------------------------------------------------------------------
(* number_init: mutex_init, if the mode needs one; ...                     *)
InitMutex ==
  /\ my_mutex = "none"
  /\ my_mutex' = IF mode \in {1, 2} THEN "initialised" ELSE "raw"
  /\ UNCHANGED <<has_atomic, mode, queued, printed, numbers, owner, workVars, oops, changes>>

(* ... queue the works one by one, ...                                     *)
QueueWork(w) ==
  /\ my_mutex # "none" /\ w \notin queued
  /\ queued' = queued \cup {w}
  /\ UNCHANGED <<has_atomic, mode, my_mutex, printed, numbers, owner, workVars, oops, changes>>

PrintNumber ==
  printed' = IF Case = "atomic" THEN [of |-> "atomic", number |-> atomic_number]
                                ELSE [of |-> "main", number |-> main_number]

(* Mutant: the number is printed without flush_work.                       *)
PrintWithoutFlush ==
  /\ printed = NotPrinted /\ queued = Workers
  /\ PrintNumber
  /\ UNCHANGED <<has_atomic, mode, my_mutex, queued, numbers, owner, workVars, oops, changes>>

(* ... flush_work all of them and print the number of the mode.            *)
FlushAndPrint ==
  /\ printed = NotPrinted /\ queued = Workers
  /\ \A w \in Workers : loc[w] = "done"
  /\ PrintNumber
  /\ UNCHANGED <<has_atomic, mode, my_mutex, queued, numbers, owner, workVars, oops, changes>>

-----------------------------------------------------------------------------
fixed == <<has_atomic, mode, my_mutex, queued, printed, changes>>

Take(w, case, next) ==
  /\ w \in queued
  /\ Go(w, "begin", next) /\ branch' = [branch EXCEPT ![w] = case]
  /\ UNCHANGED <<fixed, numbers, owner, i, reg, oops>>

(* Mutant: case 3 falls through to the unprotected loop.                   *)
SwitchFallsThrough(w) ==
  Take(w, Case, IF Case \in {"fine", "coarse"} THEN "lock" ELSE "load")

(* number_worker: the switch.                                              *)
Switch(w) ==
  Take(w, Case, CASE Case \in {"fine", "coarse"} -> "lock"
                  [] Case = "atomic" -> "inc"
                  [] Case = "unsafe" -> "load")

(* Mutant: mutex_lock does not wait.                                       *)
LockWithoutWaiting(w) ==
  /\ branch[w] = "coarse" \/ i[w] < LOOPS
  /\ Go(w, "lock", "load")
  /\ owner' = w
  /\ UNCHANGED <<fixed, numbers, branch, i, reg, oops>>

(* mutex_lock: before every turn in the fine case, once in the coarse one. *)
MutexLock(w) ==
  /\ branch[w] = "coarse" \/ i[w] < LOOPS
  /\ Go(w, "lock", "load")
  /\ owner = Nobody /\ owner' = w
  /\ UNCHANGED <<fixed, numbers, branch, i, reg, oops>>

(* A mutex that is all zeros can be taken and given back, but the first to *)
(* go to sleep on it follows a null pointer (or it spins until it is free).*)
Contended(w) ==
  /\ loc[w] = "lock" /\ (branch[w] = "coarse" \/ i[w] < LOOPS)
  /\ owner # Nobody /\ my_mutex = "raw"
  /\ oops' = TRUE
  /\ UNCHANGED <<fixed, numbers, owner, workVars>>

(* main_number++, the load ...                                             *)
Load(w) ==
  /\ i[w] < LOOPS
  /\ Go(w, "load", "store")
  /\ reg' = [reg EXCEPT ![w] = main_number]
  /\ UNCHANGED <<fixed, numbers, owner, branch, i, oops>>

(* ... and the store.                                                      *)
Store(w) ==
  /\ Go(w, "store", IF branch[w] = "fine" THEN "unlock" ELSE "load")
  /\ main_number' = reg[w] + 1
  /\ i' = [i EXCEPT ![w] = @ + 1]
  /\ UNCHANGED <<fixed, atomic_number, owner, branch, reg, oops>>

(* Mutant: no unlock at all.                                               *)
NoUnlock(w) ==
  /\ \/ Go(w, "unlock", "lock")
     \/ branch[w] = "coarse" /\ i[w] >= LOOPS /\ Go(w, "load", "done")
  /\ UNCHANGED <<fixed, numbers, owner, branch, i, reg, oops>>

(* mutex_unlock: after every turn, or after the last.                      *)
MutexUnlock(w) ==
  /\ \/ Go(w, "unlock", "lock")
     \/ branch[w] = "coarse" /\ i[w] >= LOOPS /\ Go(w, "load", "done")
  /\ owner' = Nobody
  /\ UNCHANGED <<fixed, numbers, branch, i, reg, oops>>

AtomicInc(w) ==
  /\ i[w] < LOOPS
  /\ Go(w, "inc", "inc")
  /\ atomic_number' = atomic_number + 1
  /\ i' = [i EXCEPT ![w] = @ + 1]
  /\ UNCHANGED <<fixed, main_number, owner, branch, reg, oops>>

(* The end of a loop that holds no mutex.                                  *)
LoopEnds(w) ==
  /\ i[w] >= LOOPS
  /\ \/ Go(w, "lock", "done") /\ branch[w] = "fine"
     \/ Go(w, "inc", "done")
     \/ Go(w, "load", "done") /\ branch[w] = "unsafe"
  /\ UNCHANGED <<fixed, numbers, owner, branch, i, reg, oops>>

number_worker(w) ==
  /\ ~oops
  /\ \/ Switch(w) \/ MutexLock(w) \/ Contended(w) \/ Load(w) \/ Store(w)
     \/ MutexUnlock(w) \/ AtomicInc(w) \/ LoopEnds(w)

number_init ==
  ~oops /\ (InitMutex \/ FlushAndPrint \/ \E w \in Workers : QueueWork(w))

Next == number_init \/ WriteMode \/ \E w \in Workers : number_worker(w)

(* The workqueue runs every queued work and insmod waits for nothing else. *)
Fairness == WF_vars(number_init) /\ \A w \in Workers : WF_vars(number_worker(w))

Spec == Init /\ [][Next]_vars /\ Fairness

-----------------------------------------------------------------------------
Locs == {"begin", "lock", "load", "store", "unlock", "inc", "done"}
Branches == {"fine", "coarse", "atomic", "unsafe"}

TypeOK ==
  /\ has_atomic \in BOOLEAN /\ mode \in Modes
  /\ my_mutex \in {"none", "raw", "initialised"} /\ queued \subseteq Workers
  /\ printed \in [of : {"none", "main", "atomic"}, number : Nat]
  /\ main_number \in Nat /\ atomic_number \in Nat
  /\ owner \in Workers \cup {Nobody}
  /\ loc \in [Workers -> Locs]
  /\ branch \in [Workers -> Branches \cup {"none"}]
  /\ i \in [Workers -> 0 .. LOOPS] /\ reg \in [Workers -> Nat]
  /\ oops \in BOOLEAN /\ changes \in Nat

(* A work is at a statement of the branch it took.                         *)
BranchesApart ==
  \A w \in Workers :
    /\ loc[w] = "begin" <=> branch[w] = "none"
    /\ loc[w] = "lock" => branch[w] \in {"fine", "coarse"}
    /\ loc[w] = "unlock" => branch[w] = "fine"
    /\ loc[w] = "inc" => branch[w] = "atomic"
    /\ loc[w] \in {"load", "store"} => branch[w] # "atomic"

Mutexed(w) == branch[w] \in {"fine", "coarse"}
NoUnsafe == \A w \in Workers : branch[w] # "unsafe"

(* "fine-grained mutex", "coarse-grained mutex" (quiz3.c:12-13): of the    *)
(* works that lock my_mutex only the owner is between mutex_lock and       *)
(* mutex_unlock, whichever of the two branches each took.                  *)
OnlyOwnerInside ==
  \A w \in Workers :
    Mutexed(w) /\ loc[w] \in {"load", "store", "unlock"} <=> owner = w

(* As long as no work took the unprotected branch, the value a work is     *)
(* about to store one more than is still current.                          *)
LoadedIsCurrent ==
  NoUnsafe => \A w \in Workers : loc[w] = "store" => reg[w] = main_number

(* A store belongs to a turn still to be counted.                          *)
StoreHasTurn == \A w \in Workers : loc[w] = "store" => i[w] < LOOPS

(* The inductive invariant.                                                *)
Lab9Inv ==
  TypeOK /\ BranchesApart /\ OnlyOwnerInside /\ LoadedIsCurrent /\ StoreHasTurn

Taking(cases) == {w \in Workers : branch[w] \in cases}

(* The printed number counts every turn of every work that counts in it,   *)
(* unless one of them took the unprotected branch, whatever was written to *)
(* mode meanwhile; and if nothing was, that is every work.                 *)
PrintsEveryTurn ==
  /\ printed.of = "atomic" => printed.number = LOOPS * Cardinality(Taking({"atomic"}))
  /\ printed.of = "main" /\ NoUnsafe =>
       printed.number = LOOPS * Cardinality(Taking({"fine", "coarse"}))
  /\ printed # NotPrinted /\ NoUnsafe /\ changes = 0 =>
       printed.number = LOOPS * Cardinality(Workers)

(* Without protection updates are lost, but not all: at least two survive  *)
(* (all of them if there is one worker or fewer than two turns), and no    *)
(* turn counts twice, also when some of the works lock and some do not.    *)
UnsafeStillCounts ==
  LET counting == Cardinality(Taking({"fine", "coarse", "unsafe"})) IN
  printed.of = "main" =>
    /\ printed.number <= LOOPS * counting
    /\ counting > 0 => printed.number >= (IF LOOPS < 2 THEN LOOPS ELSE 2)
    /\ counting = 1 => printed.number = LOOPS

(* insmod returns: flush_work waits for works that all end; unless one     *)
(* waited for a mutex that mode did not ask for when it was to be          *)
(* initialised.                                                            *)
InitReturns == <>(printed # NotPrinted \/ (oops /\ changes > 0))

(* The two numbers together are a counter that loses nothing, as long as   *)
(* no work has taken the unprotected branch.                               *)
Exact == INSTANCE ExactCounter WITH
           number <- main_number + atomic_number,
           left <- [w \in Workers |-> LOOPS - i[w]]
ExactSpec == Exact!Init /\ [][NoUnsafe => Exact!Next]_(Exact!vars)
=============================================================================
