---------------------------- MODULE ChardevProofs ----------------------------
(***************************************************************************)
(* Proofs about the character device, for any finite set of processes, any *)
(* number of opens and whatever an ioctl finds.                            *)
(***************************************************************************)
EXTENDS Chardev, FiniteSetTheorems, WellFoundedInduction, TLAPS

Stages == {"out", "open", "ioctl", "print"} \cup Handlers
Users == {"open", "ioctl", "print", "load_dec", "store_dec"}
In(S) == {q \in Processes : proc[q] \in S}

LEMMA InStages ==
  proc \in [Processes -> Stages] => Inside = In(Stages \ {"out"}) /\ Holders = In(Users)
  BY DEF Inside, Holders, In, Users, Stages

LEMMA InFinite ==
  ASSUME NEW S PROVE IsFiniteSet(In(S)) /\ Cardinality(In(S)) \in Nat
  BY ChardevAssumption, FS_Subset, FS_CardinalityType DEF In

(* One process changes its stage: by how much the counts change.           *)
LEMMA CountMoves ==
  ASSUME NEW p \in Processes, proc \in [Processes -> Stages],
         NEW from, NEW to \in Stages, Go(p, from, to), NEW S
  PROVE  /\ from \in S /\ to \in S => In(S)' = In(S)
         /\ from \in S /\ to \notin S =>
              In(S)' = In(S) \ {p} /\ Cardinality(In(S)') = Cardinality(In(S)) - 1
         /\ from \notin S /\ to \in S =>
              In(S)' = In(S) \cup {p} /\ Cardinality(In(S)') = Cardinality(In(S)) + 1
         /\ from \notin S /\ to \notin S => In(S)' = In(S)
  <1>1. /\ proc[p] = from /\ proc'[p] = to
        /\ \A q \in Processes \ {p} : proc'[q] = proc[q]
    BY DEF Go
  <1>2. /\ from \in S /\ to \in S => In(S)' = In(S)
        /\ from \in S /\ to \notin S => In(S)' = In(S) \ {p} /\ p \in In(S)
        /\ from \notin S /\ to \in S => In(S)' = In(S) \cup {p} /\ p \notin In(S)
        /\ from \notin S /\ to \notin S => In(S)' = In(S)
    BY <1>1 DEF In
  <1>3. IsFiniteSet(In(S))
    BY InFinite
  <1>4. /\ p \in In(S) => Cardinality(In(S) \ {p}) = Cardinality(In(S)) - 1
        /\ p \notin In(S) => Cardinality(In(S) \cup {p}) = Cardinality(In(S)) + 1
    BY <1>3, FS_RemoveElement, FS_AddElement
  <1> QED
    BY <1>2, <1>4

(* The same for the two sets that count.                                   *)
LEMMA StageMoves ==
  ASSUME NEW p \in Processes, proc \in [Processes -> Stages],
         NEW from \in Stages, NEW to \in Stages, Go(p, from, to)
  PROVE  /\ proc' \in [Processes -> Stages]
         /\ from = "out" /\ to # "out" => Cardinality(Inside)' = Cardinality(Inside) + 1
         /\ from # "out" /\ to = "out" => Cardinality(Inside)' = Cardinality(Inside) - 1
         /\ from # "out" /\ to # "out" => Cardinality(Inside)' = Cardinality(Inside)
         /\ from \in Users /\ to \in Users => Holders' = Holders
         /\ from \notin Users /\ to \notin Users => Holders' = Holders
         /\ from \in Users /\ to \notin Users =>
              Holders' = Holders \ {p} /\ Cardinality(Holders)' = Cardinality(Holders) - 1
         /\ from \notin Users /\ to \in Users =>
              Holders' = Holders \cup {p} /\ Cardinality(Holders)' = Cardinality(Holders) + 1
  <1>1. proc' \in [Processes -> Stages]
    BY DEF Go
  <1>2. Inside = In(Stages \ {"out"}) /\ Holders = In(Users)
    BY InStages
  <1>3. Inside' = In(Stages \ {"out"})' /\ Holders' = In(Users)'
    BY <1>1 DEF Inside, Holders, In, Users, Stages
  <1>4. /\ from = "out" /\ to # "out" => Cardinality(Inside)' = Cardinality(Inside) + 1
        /\ from # "out" /\ to = "out" => Cardinality(Inside)' = Cardinality(Inside) - 1
        /\ from # "out" /\ to # "out" => Cardinality(Inside)' = Cardinality(Inside)
    BY <1>2, <1>3, CountMoves
  <1>5. /\ from \in Users /\ to \in Users => Holders' = Holders
        /\ from \notin Users /\ to \notin Users => Holders' = Holders
        /\ from \in Users /\ to \notin Users =>
             Holders' = Holders \ {p} /\ Cardinality(Holders)' = Cardinality(Holders) - 1
        /\ from \notin Users /\ to \in Users =>
             Holders' = Holders \cup {p} /\ Cardinality(Holders)' = Cardinality(Holders) + 1
    BY <1>2, <1>3, CountMoves
  <1> QED
    BY <1>1, <1>4, <1>5

LEMMA Counts ==
  /\ IsFiniteSet(Inside) /\ Cardinality(Inside) \in Nat
  /\ IsFiniteSet(Holders) /\ Cardinality(Holders) \in Nat
  /\ Cardinality(Inside)' \in Nat /\ Cardinality(Holders)' \in Nat
  BY ChardevAssumption, FS_Subset, FS_CardinalityType DEF Inside, Holders

LEMMA ChardevInit == Init => ChardevInv
  <1> SUFFICES ASSUME Init PROVE ChardevInv
    OBVIOUS
  <1>1. TypeOK
    <2>1. mod \in {"absent", "live"} /\ have = {} /\ opened = 0 /\ refs = 0
      BY DEF Init
    <2>2. proc \in [Processes -> Stages] /\ reg \in [Processes -> Int] /\ DOMAIN answer = Processes
      BY DEF Init, Stages
    <2>3. opens \in 0 .. MaxOpens
      BY ChardevAssumption DEF Init
    <2>4. raced \in BOOLEAN
      BY DEF Init
    <2> QED
      BY <2>1, <2>2, <2>3, <2>4 DEF TypeOK, Stages
  <1>2. Inside = {} /\ Holders = {}
    BY DEF Init, Inside, Holders
  <1>3. Registered /\ CodeStaysMapped
    BY <1>2 DEF Init, Registered, CodeStaysMapped
  <1>4. ReferencesBalance
    BY <1>2, FS_EmptySet DEF Init, ReferencesBalance
  <1>5. UnracedHandlers
    BY <1>2 DEF Init, UnracedHandlers, Handlers
  <1> QED
    BY <1>1, <1>3, <1>4, <1>5 DEF ChardevInv

(* Whatever leaves the processes alone leaves the counts alone.            *)
LEMMA SameProcesses ==
  proc' = proc => Inside' = Inside /\ Holders' = Holders
  BY DEF Inside, Holders

LEMMA RegisterStep ==
  ASSUME ChardevInv, chardev_init_module \/ chardev_cleanup_module \/ Insmod \/ Rmmod
  PROVE  ChardevInv'
  <1>1. UNCHANGED <<refs, procVars>>
    BY DEF chardev_init_module, chardev_cleanup_module, Register, Unregister, Insmod, Rmmod, procVars
  <1>2. Inside' = Inside /\ Holders' = Holders
    BY <1>1, SameProcesses DEF procVars
  <1>3. ReferencesBalance'
    BY <1>1, <1>2 DEF ChardevInv, ReferencesBalance
  <1>4. mod # "live" => Inside = {}
    BY DEF ChardevInv, CodeStaysMapped
  <1>5. mod = "live" => Rmmod /\ Inside = {}
    <2>1. mod = "live" => Rmmod
      BY DEF chardev_init_module, chardev_cleanup_module, Register, Unregister, Insmod
    <2>2. Rmmod => Cardinality(Inside) = 0
      BY Counts DEF Rmmod, ChardevInv, ReferencesBalance
    <2> QED
      BY <2>1, <2>2, Counts, FS_EmptySet
  <1>6. Inside = {} /\ Holders = {} /\ \A p \in Processes : proc[p] = "out"
    BY <1>4, <1>5 DEF Inside, Holders
  <1>7. CodeStaysMapped'
    BY <1>2, <1>6 DEF CodeStaysMapped
  <1>8. Registered' /\ mod' \in {"absent", "live"} \cup Loading \cup Unwinding \cup Cleaning
    BY DEF ChardevInv, Registered, chardev_init_module, chardev_cleanup_module, Register, Unregister,
       Insmod, Rmmod, Loading, Unwinding, Cleaning
  <1>9. have' \subseteq {"class", "cdev", "region", "device"}
    BY DEF ChardevInv, TypeOK, chardev_init_module, chardev_cleanup_module, Register, Unregister,
       Insmod, Rmmod
  <1>10. Insmod => opened' = 0 /\ opens' = 0 /\ raced' = FALSE
    BY DEF Insmod
  <1>11. ~Insmod => UNCHANGED <<opened, opens, raced>>
    BY DEF chardev_init_module, chardev_cleanup_module, Register, Unregister, Rmmod, hist
  <1>12. TypeOK'
    <2>1. opened' \in Int /\ opens' \in 0 .. MaxOpens
      BY <1>10, <1>11, ChardevAssumption DEF ChardevInv, TypeOK
    <2>2. raced' \in BOOLEAN
      BY <1>10, <1>11 DEF ChardevInv, TypeOK
    <2>3. refs' \in Nat /\ reg' \in [Processes -> Int] /\ DOMAIN answer' = Processes
      BY <1>1 DEF ChardevInv, TypeOK, procVars
    <2>4. proc' \in [Processes -> {"out", "open", "ioctl", "print"} \cup Handlers]
      BY <1>1 DEF ChardevInv, TypeOK, procVars
    <2> QED
      BY <1>8, <1>9, <2>1, <2>2, <2>3, <2>4 DEF TypeOK
  <1>13. UnracedHandlers'
    BY <1>1, <1>2, <1>6, <1>10, <1>11 DEF ChardevInv, UnracedHandlers, procVars, Handlers
  <1> QED
    BY <1>3, <1>7, <1>8, <1>12, <1>13 DEF ChardevInv

-----------------------------------------------------------------------------
(* The steps of a process: they are taken while the module is loaded.      *)
ProcessStep(p) ==
  Open(p) \/ device_open(p) \/ Ioctl(p) \/ device_ioctl(p) \/ Close(p) \/ device_release(p)

LEMMA StepsAreMapped ==
  ASSUME ChardevInv, NEW p \in Processes, ProcessStep(p)
  PROVE  /\ mod = "live" /\ mod' = mod /\ have' = have
         /\ Registered' /\ CodeStaysMapped'
  <1>1. mod' = mod /\ have' = have
    BY DEF ProcessStep, Open, device_open, Busy, Free, LoadInc, StoreInc, Ioctl, device_ioctl,
       NothingToCount, CurMap, VmaInfoOf, Printed, Close, device_release, LoadDec, StoreDec, modVars
  <1>2. Open(p) \/ proc[p] # "out"
    BY DEF ProcessStep, device_open, Busy, Free, LoadInc, StoreInc, Ioctl, device_ioctl,
       NothingToCount, CurMap, VmaInfoOf, Printed, Close, device_release, LoadDec, StoreDec, Go
  <1>3. mod = "live"
    BY <1>2 DEF Open, ChardevInv, CodeStaysMapped, Inside
  <1> QED
    BY <1>1, <1>3 DEF ChardevInv, Registered, CodeStaysMapped

(* Types and the reference count: an open in progress is one reference, a  *)
(* file held two.                                                          *)
LEMMA ProcessKeepsTypes ==
  ASSUME ChardevInv, NEW p \in Processes, ProcessStep(p)
  PROVE  TypeOK' /\ ReferencesBalance'
  <1> DEFINE n == Cardinality(Inside)
             h == Cardinality(Holders)
  <1>a. /\ proc \in [Processes -> Stages] /\ refs \in Nat /\ opened \in Int
        /\ reg \in [Processes -> Int] /\ DOMAIN answer = Processes /\ opens \in 0 .. MaxOpens
    BY DEF ChardevInv, TypeOK, Stages
  <1>b. refs = n + h /\ n \in Nat /\ h \in Nat /\ n' \in Nat /\ h' \in Nat
    BY Counts DEF ChardevInv, ReferencesBalance
  <1>c. raced' \in BOOLEAN
    <2>1. CASE Open(p) \/ Close(p)
      BY <2>1 DEF ChardevInv, TypeOK, Open, Close, NoteRace
    <2>2. CASE raced' = raced
      BY <2>2 DEF ChardevInv, TypeOK
    <2> QED
      BY <2>1, <2>2 DEF ProcessStep, device_open, Busy, Free, LoadInc, StoreInc, Ioctl,
         device_ioctl, NothingToCount, CurMap, VmaInfoOf, Printed, device_release, LoadDec,
         StoreDec, hist
  <1> DEFINE Kept ==
               /\ proc' \in [Processes -> Stages] /\ refs' = n' + h' /\ opened' \in Int
               /\ reg' \in [Processes -> Int] /\ DOMAIN answer' = Processes
               /\ opens' \in 0 .. MaxOpens
  <1> HIDE DEF n, h
  <1>1. ASSUME Open(p) PROVE Kept
    <2>1. Go(p, "out", "check") /\ refs' = refs + 1 /\ opens' = opens + 1 /\ opens < MaxOpens
      BY <1>1 DEF Open
    <2>2. proc' \in [Processes -> Stages] /\ n' = n + 1 /\ h' = h
      BY <1>a, <2>1, StageMoves DEF Stages, Handlers, Users, n, h
    <2>3. UNCHANGED <<opened, reg, answer>>
      BY <1>1 DEF Open
    <2> QED
      BY <1>a, <1>b, <2>1, <2>2, <2>3, ChardevAssumption
  <1>2. ASSUME Busy(p) PROVE Kept
    <2>1. Go(p, "check", "out") /\ refs' = refs - 1
      BY <1>2 DEF Busy
    <2>2. proc' \in [Processes -> Stages] /\ n' = n - 1 /\ h' = h
      BY <1>a, <2>1, StageMoves DEF Stages, Handlers, Users, n, h
    <2>3. UNCHANGED <<opened, reg, answer, opens>>
      BY <1>2 DEF Busy, hist
    <2> QED
      BY <1>a, <1>b, <2>1, <2>2, <2>3
  <1>3. ASSUME StoreInc(p) PROVE Kept
    <2>1. Go(p, "store_inc", "open") /\ refs' = refs + 1 /\ opened' = reg[p] + 1
      BY <1>3 DEF StoreInc
    <2>2. proc' \in [Processes -> Stages] /\ n' = n /\ h' = h + 1
      BY <1>a, <2>1, StageMoves DEF Stages, Handlers, Users, n, h
    <2>3. UNCHANGED <<reg, answer, opens>>
      BY <1>3 DEF StoreInc, hist
    <2> QED
      BY <1>a, <1>b, <2>1, <2>2, <2>3
  <1>4. ASSUME StoreDec(p) PROVE Kept
    <2>1. Go(p, "store_dec", "out") /\ refs' = refs - 2 /\ opened' = reg[p] - 1
      BY <1>4 DEF StoreDec
    <2>2. proc' \in [Processes -> Stages] /\ n' = n - 1 /\ h' = h - 1
      BY <1>a, <2>1, StageMoves DEF Stages, Handlers, Users, n, h
    <2>3. UNCHANGED <<reg, answer, opens>>
      BY <1>4 DEF StoreDec, hist
    <2> QED
      BY <1>a, <1>b, <2>1, <2>2, <2>3
  <1>5. ASSUME Free(p) \/ LoadInc(p) \/ Ioctl(p) \/ device_ioctl(p) \/ Close(p) \/ LoadDec(p) PROVE Kept
    <2>1. /\ UNCHANGED <<refs, opened, opens>>
          /\ \/ Go(p, "check", "load_inc") \/ Go(p, "load_inc", "store_inc")
             \/ Go(p, "open", "ioctl") \/ Go(p, "ioctl", "open") \/ Go(p, "ioctl", "print")
             \/ Go(p, "print", "open") \/ Go(p, "open", "load_dec") \/ Go(p, "load_dec", "store_dec")
      BY <1>5 DEF Free, LoadInc, Ioctl, device_ioctl, NothingToCount, CurMap, VmaInfoOf, Printed,
         Close, LoadDec, hist
    <2>2. proc' \in [Processes -> Stages] /\ n' = n /\ h' = h
      BY <1>a, <2>1, StageMoves DEF Stages, Handlers, Users, n, h
    <2>3. reg' \in [Processes -> Int] /\ DOMAIN answer' = Processes
      BY <1>5, <1>a DEF Free, LoadInc, Ioctl, device_ioctl, NothingToCount, CurMap, VmaInfoOf,
         Printed, Close, LoadDec
    <2> QED
      BY <1>a, <1>b, <2>1, <2>2, <2>3
  <1>6. Kept
    BY <1>1, <1>2, <1>3, <1>4, <1>5 DEF ProcessStep, device_open, device_release
  <1>7. refs' \in Nat
    BY <1>6, <1>b DEF n, h
  <1>8. /\ mod' \in {"absent", "live"} \cup Loading \cup Unwinding \cup Cleaning
        /\ have' \subseteq {"class", "cdev", "region", "device"}
    BY StepsAreMapped DEF ChardevInv, TypeOK
  <1> QED
    BY <1>6, <1>7, <1>8, <1>c DEF TypeOK, ReferencesBalance, Stages, n, h

(* The guard, as long as no two handlers have overlapped.                  *)
LEMMA ProcessKeepsGuard ==
  ASSUME ChardevInv, NEW p \in Processes, ProcessStep(p)
  PROVE  UnracedHandlers'
  <1> SUFFICES ASSUME ~raced' PROVE UnracedHandlers'
    BY DEF UnracedHandlers
  <1>a. /\ proc \in [Processes -> Stages] /\ reg \in [Processes -> Int] /\ opened \in Int
        /\ Holders = {q \in Processes : proc[q] \in Users}
        /\ Holders' = {q \in Processes : proc'[q] \in Users}
    BY DEF ChardevInv, TypeOK, Stages, Holders, Users
  <1>b. ~raced
    BY DEF ProcessStep, Open, device_open, Busy, Free, LoadInc, StoreInc, Ioctl, device_ioctl,
       NothingToCount, CurMap, VmaInfoOf, Printed, Close, device_release, LoadDec, StoreDec,
       NoteRace, hist
  <1>c. /\ \A q, r \in Processes : proc[q] \in Handlers /\ proc[r] \in Handlers => q = r
        /\ \A q, r \in Holders : q = r
        /\ opened = IF Holders = {} THEN 0 ELSE 1
        /\ \A q \in Processes :
             /\ proc[q] \in {"load_inc", "store_inc"} => Holders = {}
             /\ proc[q] \in {"store_inc", "store_dec"} => reg[q] = opened
    BY <1>b DEF ChardevInv, UnracedHandlers
  <1> USE DEF UnracedHandlers, Handlers, Users, Stages, Go
  <1>1. CASE Open(p)
    <2>1. \A q \in Processes \ {p} : proc[q] \notin Handlers
      BY <1>1 DEF Open, NoteRace
    <2>2. UNCHANGED <<opened, reg>> /\ proc[p] = "out" /\ proc' = [proc EXCEPT ![p] = "check"]
      BY <1>1 DEF Open
    <2>3. Holders' = Holders
      BY <1>a, <2>2
    <2> QED
      BY <1>a, <1>c, <2>1, <2>2, <2>3
  <1>2. CASE Close(p)
    <2>1. \A q \in Processes \ {p} : proc[q] \notin Handlers
      BY <1>2 DEF Close, NoteRace
    <2>2. UNCHANGED <<opened, reg>> /\ proc[p] = "open" /\ proc' = [proc EXCEPT ![p] = "load_dec"]
      BY <1>2 DEF Close
    <2>3. Holders' = Holders
      BY <1>a, <2>2
    <2> QED
      BY <1>a, <1>c, <2>1, <2>2, <2>3
  <1>3. CASE StoreInc(p)
    <2>1. opened' = reg[p] + 1 /\ reg' = reg
          /\ proc[p] = "store_inc" /\ proc' = [proc EXCEPT ![p] = "open"]
      BY <1>3 DEF StoreInc
    <2>2. Holders = {} /\ Holders' = {p} /\ opened' = 1
      BY <1>a, <1>c, <2>1
    <2> QED
      BY <1>a, <1>c, <2>1, <2>2
  <1>4. CASE StoreDec(p)
    <2>1. opened' = reg[p] - 1 /\ reg' = reg
          /\ proc[p] = "store_dec" /\ proc' = [proc EXCEPT ![p] = "out"]
      BY <1>4 DEF StoreDec
    <2>2. Holders = {p} /\ Holders' = {} /\ opened' = 0
      BY <1>a, <1>c, <2>1
    <2> QED
      BY <1>a, <1>c, <2>1, <2>2
  <1>5. CASE LoadInc(p) \/ LoadDec(p)
    <2>1. /\ opened' = opened /\ reg' = [reg EXCEPT ![p] = opened]
          /\ \/ proc[p] = "load_inc" /\ proc' = [proc EXCEPT ![p] = "store_inc"]
             \/ proc[p] = "load_dec" /\ proc' = [proc EXCEPT ![p] = "store_dec"]
      BY <1>5 DEF LoadInc, LoadDec
    <2>2. Holders' = Holders
      BY <1>a, <2>1
    <2> QED
      BY <1>a, <1>c, <2>1, <2>2
  <1>6. CASE Free(p)
    <2>1. UNCHANGED <<opened, reg>> /\ opened = 0
          /\ proc[p] = "check" /\ proc' = [proc EXCEPT ![p] = "load_inc"]
      BY <1>6 DEF Free
    <2>2. Holders' = Holders /\ Holders = {}
      BY <1>a, <1>c, <2>1
    <2> QED
      BY <1>a, <1>c, <2>1, <2>2
  <1>7. CASE Busy(p) \/ Ioctl(p) \/ device_ioctl(p)
    <2>1. /\ UNCHANGED <<opened, reg>>
          /\ \/ proc[p] = "check" /\ proc' = [proc EXCEPT ![p] = "out"]
             \/ /\ proc[p] \in {"open", "ioctl", "print"}
                /\ \E to \in {"open", "ioctl", "print"} : proc' = [proc EXCEPT ![p] = to]
      BY <1>7 DEF Busy, Ioctl, device_ioctl, NothingToCount, CurMap, VmaInfoOf, Printed
    <2>2. Holders' = Holders
      BY <1>a, <2>1
    <2> QED
      BY <1>a, <1>c, <2>1, <2>2
  <1> QED
    BY <1>1, <1>2, <1>3, <1>4, <1>5, <1>6, <1>7 DEF ProcessStep, device_open, device_release

LEMMA ChardevStep == ChardevInv /\ [Next]_vars => ChardevInv'
  <1> SUFFICES ASSUME ChardevInv, [Next]_vars PROVE ChardevInv'
    OBVIOUS
  <1>1. CASE UNCHANGED vars
    <2>1. Inside' = Inside /\ Holders' = Holders
      BY <1>1, SameProcesses DEF vars, procVars
    <2>2. UNCHANGED <<mod, have, opened, refs, proc, reg, answer, opens, raced>>
      BY <1>1 DEF vars, modVars, procVars, hist
    <2>3. TypeOK' /\ Registered'
      BY <2>2 DEF ChardevInv, TypeOK, Registered
    <2>4. CodeStaysMapped' /\ ReferencesBalance' /\ UnracedHandlers'
      BY <2>1, <2>2 DEF ChardevInv, CodeStaysMapped, ReferencesBalance, UnracedHandlers
    <2> QED
      BY <2>3, <2>4 DEF ChardevInv
  <1>2. CASE chardev_init_module \/ chardev_cleanup_module \/ Insmod \/ Rmmod
    BY <1>2, RegisterStep
  <1>3. ASSUME NEW p \in Processes, ProcessStep(p) PROVE ChardevInv'
    BY <1>3, StepsAreMapped, ProcessKeepsTypes, ProcessKeepsGuard DEF ChardevInv
  <1> QED
    BY <1>1, <1>2, <1>3 DEF Next, ProcessStep

-----------------------------------------------------------------------------
LEMMA ChardevInvariance == Spec => []ChardevInv
  BY ChardevInit, ChardevStep, PTL DEF Spec

(* Every field keeps its type; the module's reference count never becomes  *)
(* negative.                                                               *)
THEOREM ChardevTypeCorrect == Spec => []TypeOK
  BY ChardevInvariance, PTL DEF ChardevInv

(* Whichever registration fails, insmod leaves everything or nothing.      *)
THEOREM RegistrationIsAtomic == Spec => []AllOrNothing
  <1>1. ChardevInv => AllOrNothing
    BY DEF ChardevInv, TypeOK, Registered, AllOrNothing, Loading, Unwinding, Cleaning
  <1> QED
    BY <1>1, ChardevInvariance, PTL

(* No process is in the module's code, or has its device open, while rmmod *)
(* takes the module down, however opens and closes race.                   *)
THEOREM CodeOutlivesProcesses == Spec => []CodeStaysMapped
  BY ChardevInvariance, PTL DEF ChardevInv

(* try_module_get, module_put and the file's own reference balance.        *)
THEOREM ReferencesBalanced == Spec => []ReferencesBalance
  BY ChardevInvariance, PTL DEF ChardevInv

(* The unlocked guard of device_open admits one process at a time if no    *)
(* two handlers overlap, and opened is then the number of holders.         *)
THEOREM GuardIsExactUnraced == Spec => []GuardWorksUnraced
  <1>1. ChardevInv => GuardWorksUnraced
    <2> SUFFICES ASSUME ChardevInv, ~raced
                 PROVE Cardinality(Holders) <= 1 /\ opened = Cardinality(Holders)
      BY DEF GuardWorksUnraced
    <2>1. /\ \A p, q \in Holders : p = q
          /\ opened = IF Holders = {} THEN 0 ELSE 1
      BY DEF ChardevInv, UnracedHandlers
    <2>2. CASE Holders = {}
      BY <2>1, <2>2, FS_EmptySet
    <2>3. ASSUME NEW p \in Holders PROVE Cardinality(Holders) <= 1 /\ opened = Cardinality(Holders)
      <3>1. Holders = {p}
        BY <2>1
      <3> QED
        BY <2>1, <3>1, FS_Singleton
    <2> QED
      BY <2>2, <2>3
  <1> QED
    BY <1>1, ChardevInvariance, PTL

-----------------------------------------------------------------------------
(* What ioctl works out: induction over the areas, first-order, as a set   *)
(* of naturals has a least member.                                         *)
LEMMA LeastOf == ASSUME NEW T \in SUBSET Nat, T # {} PROVE \E x \in T : \A y \in T : x <= y
  <1> DEFINE R == OpToRel(<, Nat)
  <1>1. IsWellFoundedOn(R, Nat)
    BY NatLessThanWellFounded
  <1>2. \A x, y \in Nat : x < y => <<x, y>> \in R
    BY DEF OpToRel
  <1> HIDE DEF R
  <1>3. PICK x \in T : \A y \in T : ~(<<y, x>> \in R)
    BY <1>1, WFMin
  <1>4. ASSUME NEW y \in T PROVE x <= y
    <2>1. x \in Nat /\ y \in Nat /\ ~(y < x)
      BY <1>2, <1>3
    <2> QED
      BY <2>1
  <1> QED
    BY <1>4

LEMMA Upward ==
  ASSUME NEW N \in Nat, NEW S, 0 \in S, \A n \in 1 .. N : n - 1 \in S => n \in S
  PROVE  0 .. N \subseteq S
  <1> SUFFICES ASSUME NEW x \in 0 .. N, x \notin S PROVE FALSE
    OBVIOUS
  <1>1. (0 .. N) \ S \in SUBSET Nat /\ x \in (0 .. N) \ S
    OBVIOUS
  <1>2. PICK n \in (0 .. N) \ S : \A m \in (0 .. N) \ S : n <= m
    BY <1>1, LeastOf
  <1>3. n \in 1 .. N /\ n - 1 \in 0 .. N /\ ~(n <= n - 1)
    BY <1>2
  <1> QED
    BY <1>2, <1>3

-----------------------------------------------------------------------------
(* What for_each_vma has worked out after each area.  A fold goes through  *)
(* the sets of indexes, from the largest index of each.                    *)
Greatest(s) == CHOOSE x \in s : \A y \in s : x >= y

Folded(f, N, base, g) ==
  \A s \in SUBSET (1 .. N) : f[s] = IF s = {} THEN base ELSE g[Greatest(s)][f[s \ {Greatest(s)}]]

LEMMA FoldExists ==
  ASSUME NEW N \in Nat, NEW V, NEW base \in V, NEW g \in [1 .. N -> [V -> V]]
  PROVE  \E f \in [SUBSET (1 .. N) -> V] : Folded(f, N, base, g)
  <1> DEFINE S == {n \in 0 .. N : \E f \in [SUBSET (1 .. n) -> V] : Folded(f, n, base, g)}
  <1>1. 0 \in S
    <2> DEFINE f == [s \in SUBSET (1 .. 0) |-> base]
    <2>1. 1 .. 0 = {}
      OBVIOUS
    <2>2. f \in [SUBSET (1 .. 0) -> V] /\ Folded(f, 0, base, g)
      BY <2>1 DEF Folded
    <2> QED
      BY <2>2
  <1>2. ASSUME NEW n \in 1 .. N, n - 1 \in S PROVE n \in S
    <2>1. PICK f \in [SUBSET (1 .. n - 1) -> V] : Folded(f, n - 1, base, g)
      BY <1>2
    <2> DEFINE h == [s \in SUBSET (1 .. n) |-> IF n \in s THEN g[n][f[s \ {n}]] ELSE f[s]]
    <2>2. ASSUME NEW s \in SUBSET (1 .. n), n \in s
          PROVE  /\ h[s] \in V /\ s # {} /\ Greatest(s) = n
                 /\ h[s] = g[n][f[s \ {n}]] /\ h[s \ {n}] = f[s \ {n}]
      <3>1. s \ {n} \in SUBSET (1 .. n - 1) /\ s \ {n} \in SUBSET (1 .. n)
        OBVIOUS
      <3>2. Greatest(s) = n
        <4>1. n \in s /\ \A y \in s : n >= y
          BY <2>2
        <4>2. \A x \in s : (\A y \in s : x >= y) => x = n
          BY <2>2
        <4> QED
          BY <4>1, <4>2 DEF Greatest
      <3>3. h[s] = g[n][f[s \ {n}]] /\ h[s \ {n}] = f[s \ {n}]
        BY <2>2, <3>1
      <3> QED
        BY <2>2, <3>1, <3>2, <3>3
    <2>3. ASSUME NEW s \in SUBSET (1 .. n), n \notin s
          PROVE  /\ h[s] \in V /\ h[s] = f[s] /\ s \in SUBSET (1 .. n - 1)
                 /\ \A x : h[s \ {x}] = f[s \ {x}]
      <3>1. s \in SUBSET (1 .. n - 1)
        <4>1. \A y \in s : y \in 1 .. n /\ y # n
          BY <2>3
        <4>2. \A y \in s : y \in 1 .. n - 1
          BY <4>1
        <4> QED
          BY <4>2
      <3>2. ASSUME NEW x PROVE h[s \ {x}] = f[s \ {x}]
        <4>1. s \ {x} \in SUBSET (1 .. n) /\ n \notin s \ {x}
          BY <2>3
        <4> QED
          BY <4>1
      <3>3. h[s] = f[s]
        BY <2>3
      <3>4. f[s] \in V
        BY <3>1
      <3> QED
        BY <3>1, <3>2, <3>3, <3>4
    <2>4. h \in [SUBSET (1 .. n) -> V]
      BY <2>2, <2>3
    <2> HIDE DEF h
    <2>5. ASSUME NEW s \in SUBSET (1 .. n)
          PROVE  h[s] = IF s = {} THEN base ELSE g[Greatest(s)][h[s \ {Greatest(s)}]]
      <3>1. CASE n \in s
        BY <2>2, <3>1
      <3>2. CASE n \notin s
        <4>1. f[s] = IF s = {} THEN base ELSE g[Greatest(s)][f[s \ {Greatest(s)}]]
          BY <2>1, <2>3, <3>2 DEF Folded
        <4> QED
          BY <2>3, <3>2, <4>1
      <3> QED
        BY <3>1, <3>2
    <2>6. Folded(h, n, base, g)
      BY <2>5 DEF Folded
    <2> QED
      BY <2>4, <2>6
  <1>3. N \in S
    <2> HIDE DEF S
    <2>1. 0 .. N \subseteq S
      BY <1>1, <1>2, Upward
    <2> QED
      BY <2>1
  <1> QED
    BY <1>3

LEMMA GreatestIs ==
  ASSUME NEW N \in Nat, NEW s \in SUBSET (1 .. N), s # {}
  PROVE  Greatest(s) \in s
  <1> DEFINE T == {j \in 0 .. N : N - j \in s}
  <1>1. ASSUME NEW y \in s PROVE N - y \in T
    <2>1. y \in 1 .. N /\ N - (N - y) = y
      OBVIOUS
    <2> QED
      BY <2>1
  <1>2. T \in SUBSET Nat /\ T # {}
    <2>1. PICK y \in s : TRUE
      OBVIOUS
    <2>2. N - y \in T
      BY <1>1, <2>1
    <2>3. T \in SUBSET Nat
      OBVIOUS
    <2> HIDE DEF T
    <2> QED
      BY <2>2, <2>3
  <1>3. PICK m \in T : \A j \in T : m <= j
    <2> HIDE DEF T
    <2> QED
      BY <1>2, LeastOf
  <1>4. ASSUME NEW y \in s PROVE N - m >= y
    <2>1. m <= N - y /\ m \in 0 .. N /\ y \in 1 .. N
      BY <1>1, <1>3
    <2> QED
      BY <2>1
  <1>5. N - m \in s
    OBVIOUS
  <1> QED
    BY <1>4, <1>5 DEF Greatest

LEMMA Prefix ==
  ASSUME NEW N \in Nat, NEW n \in 1 .. N
  PROVE  /\ 1 .. n \in SUBSET (1 .. N) /\ 1 .. n # {}
         /\ Greatest(1 .. n) = n /\ (1 .. n) \ {n} = 1 .. n - 1
  <1>1. n \in 1 .. n /\ \A y \in 1 .. n : n >= y
    OBVIOUS
  <1>2. \A x \in 1 .. n : (\A y \in 1 .. n : x >= y) => x = n
    OBVIOUS
  <1>3. Greatest(1 .. n) = n
    BY <1>1, <1>2 DEF Greatest
  <1> QED
    BY <1>1, <1>3

-----------------------------------------------------------------------------
(* A fold over all indexes goes through the prefixes.                      *)
FoldsIn(V, f, N, base, g) ==
  /\ f[{}] = base
  /\ \A s \in SUBSET (1 .. N) :
       s # {} /\ f[s \ {Greatest(s)}] \in V => f[s] = g[Greatest(s)][f[s \ {Greatest(s)}]]

GoesThrough(V, f, N, base, g) ==
  \E w \in [0 .. N -> V] :
    w[0] = base /\ w[N] = f[1 .. N] /\ \A n \in 1 .. N : w[n] = g[n][w[n - 1]]

LEMMA FoldGoesThrough ==
  ASSUME NEW N \in Nat, NEW V, NEW base \in V, NEW g \in [1 .. N -> [V -> V]], NEW f,
         FoldsIn(V, f, N, base, g)
  PROVE  GoesThrough(V, f, N, base, g)
  <1> DEFINE w == [n \in 0 .. N |-> f[1 .. n]]
             S == {n \in 0 .. N : f[1 .. n] \in V}
  <1>1. 1 .. 0 = {} /\ f[{}] = base
    BY DEF FoldsIn
  <1>2. ASSUME NEW n \in 1 .. N, f[1 .. n - 1] \in V
        PROVE  f[1 .. n] = g[n][f[1 .. n - 1]] /\ f[1 .. n] \in V
    <2>1. f[1 .. n] = g[n][f[1 .. n - 1]]
      BY <1>2, Prefix DEF FoldsIn
    <2> QED
      BY <1>2, <2>1
  <1>3. 0 .. N \subseteq S
    <2>1. 0 \in S
      BY <1>1
    <2>2. ASSUME NEW n \in 1 .. N, n - 1 \in S PROVE n \in S
      BY <1>2, <2>2
    <2> HIDE DEF S
    <2> QED
      BY <2>1, <2>2, Upward
  <1>4. w \in [0 .. N -> V] /\ w[0] = base /\ w[N] = f[1 .. N]
    BY <1>1, <1>3
  <1>5. ASSUME NEW n \in 1 .. N PROVE w[n] = g[n][w[n - 1]]
    BY <1>2, <1>3
  <1> HIDE DEF w
  <1> QED
    BY <1>4, <1>5 DEF GoesThrough

-----------------------------------------------------------------------------
Area == [start : Nat \ {0}, end : Nat]
Segment == [start : Nat, end : Nat, size : Int]

LEMMA AreasOf ==
  ASSUME NEW areas \in Seq(Area)
  PROVE  /\ Len(areas) \in Nat /\ DOMAIN areas = 1 .. Len(areas)
         /\ \A i \in 1 .. Len(areas) :
              /\ areas[i].start \in Nat \ {0} /\ areas[i].end \in Nat
              /\ SizeOf(areas[i]) \in Int
  <1>1. \A i \in 1 .. Len(areas) : areas[i] \in Area
    OBVIOUS
  <1> QED
    BY <1>1 DEF Area, SizeOf

(* The total, area by area.                                                *)
IsTotal(f, areas) ==
  f = [s \in SUBSET DOMAIN areas |->
         IF s = {} THEN 0 ELSE f[s \ {Greatest(s)}] + SizeOf(areas[Greatest(s)])]

LEMMA TotalSteps ==
  ASSUME NEW areas \in Seq(Area)
  PROVE  \E t \in [0 .. Len(areas) -> Int] :
           /\ t[0] = 0 /\ t[Len(areas)] = TotalSize(areas)
           /\ \A n \in 1 .. Len(areas) : t[n] = t[n - 1] + SizeOf(areas[n])
  <1> DEFINE N == Len(areas)
             total == CHOOSE f : IsTotal(f, areas)
             Then(f, s) == IF s = {} THEN 0 ELSE f[s \ {Greatest(s)}] + SizeOf(areas[Greatest(s)])
             g == [n \in 1 .. N |-> [v \in Int |-> v + SizeOf(areas[n])]]
  <1>1. TotalSize(areas) = total[DOMAIN areas]
    BY DEF TotalSize, FoldLeft, MapThenFoldSet, Max, Greatest, IsTotal
  <1>2. N \in Nat /\ DOMAIN areas = 1 .. N /\ 0 \in Int
    BY AreasOf
  <1>3. /\ g \in [1 .. N -> [Int -> Int]]
        /\ \A n \in 1 .. N : \A v \in Int : g[n][v] = v + SizeOf(areas[n])
    BY AreasOf
  <1>4. \A f : IsTotal(f, areas) <=> f = [s \in SUBSET (1 .. N) |-> Then(f, s)]
    BY <1>2 DEF IsTotal
  <1> HIDE DEF g, N
  <1>5. PICK f \in [SUBSET (1 .. N) -> Int] : Folded(f, N, 0, g)
    BY <1>2, <1>3, FoldExists
  <1>6. ASSUME NEW s \in SUBSET (1 .. N) PROVE f[s] = Then(f, s)
    <2>1. CASE s = {}
      BY <1>5, <2>1 DEF Folded
    <2>2. CASE s # {}
      <3>1. f[s] = g[Greatest(s)][f[s \ {Greatest(s)}]] /\ f[s \ {Greatest(s)}] \in Int
        BY <1>5, <2>2 DEF Folded
      <3>2. Greatest(s) \in 1 .. N
        BY <1>2, <2>2, GreatestIs
      <3> QED
        BY <1>3, <2>2, <3>1, <3>2
    <2> QED
      BY <2>1, <2>2
  <1>7. IsTotal(f, areas)
    <2> HIDE DEF Then
    <2> QED
      BY <1>4, <1>6
  <1>8. total = [s \in SUBSET (1 .. N) |-> Then(total, s)]
    BY <1>4, <1>7
  <1> HIDE DEF total
  <1>9. \A s \in SUBSET (1 .. N) : total[s] = Then(total, s)
    <2> HIDE DEF Then
    <2> QED
      BY <1>8
  <1>10. total[{}] = 0
    BY <1>9
  <1>11. \A s \in SUBSET (1 .. N) :
           s # {} /\ total[s \ {Greatest(s)}] \in Int =>
             total[s] = g[Greatest(s)][total[s \ {Greatest(s)}]]
    <2> SUFFICES ASSUME NEW s \in SUBSET (1 .. N), s # {}, total[s \ {Greatest(s)}] \in Int
                 PROVE  total[s] = g[Greatest(s)][total[s \ {Greatest(s)}]]
      OBVIOUS
    <2>1. Greatest(s) \in 1 .. N
      BY <1>2, GreatestIs
    <2> QED
      BY <1>3, <1>9, <2>1
  <1> HIDE DEF Then
  <1>12. PICK t \in [0 .. N -> Int] :
           t[0] = 0 /\ t[N] = total[1 .. N] /\ \A n \in 1 .. N : t[n] = g[n][t[n - 1]]
    <2>1. FoldsIn(Int, total, N, 0, g)
      BY <1>10, <1>11 DEF FoldsIn
    <2>2. GoesThrough(Int, total, N, 0, g)
      BY <1>2, <1>3, <2>1, FoldGoesThrough
    <2> QED
      BY <2>2 DEF GoesThrough
  <1>13. ASSUME NEW n \in 1 .. N PROVE t[n] = t[n - 1] + SizeOf(areas[n])
    BY <1>2, <1>3, <1>12
  <1> QED
    BY <1>1, <1>2, <1>12, <1>13 DEF N

(* One segment, area by area.                                              *)
IsWalk(f, areas, passing) ==
  f = [s \in SUBSET DOMAIN areas |->
         IF s = {} THEN NoArea
         ELSE IF areas[Greatest(s)] \in passing THEN Count(f[s \ {Greatest(s)}], areas[Greatest(s)])
              ELSE f[s \ {Greatest(s)}]]

Steps(areas, passing, w) ==
  /\ w[0] = NoArea /\ w[Len(areas)] = Walk(areas, passing)
  /\ \A n \in 1 .. Len(areas) :
       w[n] = IF areas[n] \in passing THEN Count(w[n - 1], areas[n]) ELSE w[n - 1]

LEMMA WalkSteps ==
  ASSUME NEW areas \in Seq(Area), NEW passing
  PROVE  \E w \in [0 .. Len(areas) -> Segment] : Steps(areas, passing, w)
  <1> DEFINE N == Len(areas)
             walk == CHOOSE f : IsWalk(f, areas, passing)
             After(n, v) == IF areas[n] \in passing THEN Count(v, areas[n]) ELSE v
             Then(f, s) == IF s = {} THEN NoArea ELSE After(Greatest(s), f[s \ {Greatest(s)}])
             g == [n \in 1 .. N |-> [v \in Segment |-> After(n, v)]]
  <1>1. Walk(areas, passing) = walk[DOMAIN areas]
    BY DEF Walk, FoldLeft, MapThenFoldSet, Max, Greatest, IsWalk
  <1>2. N \in Nat /\ DOMAIN areas = 1 .. N /\ NoArea \in Segment
    BY AreasOf DEF NoArea, Segment
  <1>3. \A n \in 1 .. N : \A v \in Segment : After(n, v) \in Segment
    BY AreasOf DEF Segment, Count
  <1>4. \A f : IsWalk(f, areas, passing) <=> f = [s \in SUBSET (1 .. N) |-> Then(f, s)]
    BY <1>2 DEF IsWalk
  <1> HIDE DEF N, After
  <1>5. /\ g \in [1 .. N -> [Segment -> Segment]]
        /\ \A n \in 1 .. N : \A v \in Segment : g[n][v] = After(n, v)
    BY <1>3
  <1> HIDE DEF g
  <1>6. PICK f \in [SUBSET (1 .. N) -> Segment] : Folded(f, N, NoArea, g)
    BY <1>2, <1>5, FoldExists
  <1>7. ASSUME NEW s \in SUBSET (1 .. N) PROVE f[s] = Then(f, s)
    <2>1. CASE s = {}
      BY <1>6, <2>1 DEF Folded
    <2>2. CASE s # {}
      <3>1. f[s] = g[Greatest(s)][f[s \ {Greatest(s)}]] /\ f[s \ {Greatest(s)}] \in Segment
        BY <1>6, <2>2 DEF Folded
      <3>2. Greatest(s) \in 1 .. N
        BY <1>2, <2>2, GreatestIs
      <3> QED
        BY <1>5, <2>2, <3>1, <3>2
    <2> QED
      BY <2>1, <2>2
  <1>8. IsWalk(f, areas, passing)
    <2> HIDE DEF Then
    <2> QED
      BY <1>4, <1>7
  <1>9. walk = [s \in SUBSET (1 .. N) |-> Then(walk, s)]
    BY <1>4, <1>8
  <1> HIDE DEF walk
  <1>10. \A s \in SUBSET (1 .. N) : walk[s] = Then(walk, s)
    <2> HIDE DEF Then
    <2> QED
      BY <1>9
  <1>11. walk[{}] = NoArea
    BY <1>10
  <1>12. \A s \in SUBSET (1 .. N) :
           s # {} /\ walk[s \ {Greatest(s)}] \in Segment =>
             walk[s] = g[Greatest(s)][walk[s \ {Greatest(s)}]]
    <2> SUFFICES ASSUME NEW s \in SUBSET (1 .. N), s # {}, walk[s \ {Greatest(s)}] \in Segment
                 PROVE  walk[s] = g[Greatest(s)][walk[s \ {Greatest(s)}]]
      OBVIOUS
    <2>1. Greatest(s) \in 1 .. N
      BY <1>2, GreatestIs
    <2> QED
      BY <1>5, <1>10, <2>1
  <1> HIDE DEF Then
  <1>13. PICK w \in [0 .. N -> Segment] :
           w[0] = NoArea /\ w[N] = walk[1 .. N] /\ \A n \in 1 .. N : w[n] = g[n][w[n - 1]]
    <2>1. FoldsIn(Segment, walk, N, NoArea, g)
      BY <1>11, <1>12 DEF FoldsIn
    <2>2. GoesThrough(Segment, walk, N, NoArea, g)
      BY <1>2, <1>5, <2>1, FoldGoesThrough
    <2> QED
      BY <2>2 DEF GoesThrough
  <1>14. ASSUME NEW n \in 1 .. N PROVE w[n] = After(n, w[n - 1])
    BY <1>2, <1>5, <1>13
  <1> QED
    BY <1>1, <1>2, <1>13, <1>14 DEF N, After, Steps

-----------------------------------------------------------------------------
(* What the areas counted so far cover, in addresses.                      *)
InOrder(areas) ==
  /\ \A i \in 1 .. Len(areas) : areas[i].start < areas[i].end
  /\ \A i, j \in 1 .. Len(areas) : i < j => areas[i].end <= areas[j].start

Covered(areas, passing, n) ==
  UNION {Span(areas[i].start, areas[i].end) : i \in {j \in 1 .. n : areas[j] \in passing}}

LEMMA CoveredIs ==
  ASSUME NEW areas, NEW passing, NEW n
  PROVE  \A x : x \in Covered(areas, passing, n) <=>
           \E i \in 1 .. n : areas[i] \in passing /\ x \in Span(areas[i].start, areas[i].end)
  BY DEF Covered

LEMMA SpanSize ==
  ASSUME NEW areas \in Seq(Area), InOrder(areas), NEW n \in 1 .. Len(areas)
  PROVE  LET span == Span(areas[n].start, areas[n].end)
         IN IsFiniteSet(span) /\ Cardinality(span) = SizeOf(areas[n])
  <1>1. /\ areas[n].start \in Int /\ areas[n].end - 1 \in Int /\ areas[n].end \in Int
        /\ areas[n].start < areas[n].end
    BY AreasOf DEF InOrder
  <1> DEFINE a == areas[n].start
             b == areas[n].end - 1
  <1>2. a \in Int /\ b \in Int /\ ~(a > b) /\ b - a + 1 = SizeOf(areas[n])
    BY <1>1 DEF SizeOf
  <1>3. IsFiniteSet(a .. b) /\ Cardinality(a .. b) = b - a + 1
    <2> HIDE DEF a, b
    <2> QED
      BY <1>2, FS_Interval
  <1> QED
    BY <1>2, <1>3 DEF Span

LEMMA CoveredGrows ==
  ASSUME NEW areas \in Seq(Area), InOrder(areas), NEW passing, NEW n \in 1 .. Len(areas),
         IsFiniteSet(Covered(areas, passing, n - 1))
  PROVE  /\ IsFiniteSet(Covered(areas, passing, n))
         /\ Cardinality(Covered(areas, passing, n)) =
              Cardinality(Covered(areas, passing, n - 1)) +
              IF areas[n] \in passing THEN SizeOf(areas[n]) ELSE 0
  <1> DEFINE old == Covered(areas, passing, n - 1)
             new == Covered(areas, passing, n)
             span == Span(areas[n].start, areas[n].end)
  <1>1. \A i \in 1 .. n : i \in 1 .. n - 1 \/ i = n
    BY AreasOf
  <1>2. \A i \in 1 .. n - 1 : i \in 1 .. n
    BY AreasOf
  <1>3. Cardinality(old) \in Nat
    BY FS_CardinalityType
  <1>4. CASE areas[n] \notin passing
    <2>1. \A x : x \in new <=> x \in old
      <3> HIDE DEF span
      <3> QED
        BY <1>1, <1>2, <1>4, CoveredIs
    <2>2. new = old
      BY <2>1
    <2> QED
      BY <1>3, <1>4, <2>2
  <1>5. CASE areas[n] \in passing
    <2>1. n \in 1 .. n
      BY AreasOf
    <2>2. \A x : x \in new <=> x \in old \/ x \in span
      BY <1>1, <1>2, <1>5, <2>1, CoveredIs
    <2>3. new = old \cup span
      BY <2>2
    <2>4. ASSUME NEW x \in old, x \in span PROVE FALSE
      <3>1. PICK i \in 1 .. n - 1 : x \in Span(areas[i].start, areas[i].end)
        BY CoveredIs
      <3>2. i \in 1 .. Len(areas) /\ i < n
        BY AreasOf
      <3>3. /\ areas[i].end <= areas[n].start /\ areas[n].start \in Int /\ areas[i].end \in Int
            /\ areas[i].start \in Int /\ areas[n].end \in Int
        BY <3>2, AreasOf DEF InOrder
      <3> QED
        BY <2>4, <3>1, <3>3 DEF Span
    <2>5. old \cap span = {}
      BY <2>4
    <2>6. IsFiniteSet(span) /\ Cardinality(span) = SizeOf(areas[n]) /\ SizeOf(areas[n]) \in Int
      BY SpanSize, AreasOf
    <2>7. /\ IsFiniteSet(old \cup span)
          /\ Cardinality(old \cup span) = Cardinality(old) + Cardinality(span) - 0
      <3> HIDE DEF old, span
      <3> QED
        BY <2>5, <2>6, FS_Union, FS_EmptySet DEF old
    <2> QED
      BY <1>3, <1>5, <2>3, <2>6, <2>7
  <1> QED
    BY <1>4, <1>5

LEMMA CoveredAtFirst ==
  ASSUME NEW areas, NEW passing
  PROVE  IsFiniteSet(Covered(areas, passing, 0)) /\ Cardinality(Covered(areas, passing, 0)) = 0
  <1>1. Covered(areas, passing, 0) = {}
    BY DEF Covered
  <1> QED
    BY <1>1, FS_EmptySet

(* In the end, all areas that pass are covered.                            *)
LEMMA CoveredAtLast ==
  ASSUME NEW areas \in Seq(Area), NEW passing \in SUBSET Range(areas)
  PROVE  Covered(areas, passing, Len(areas)) = UNION {Span(a.start, a.end) : a \in passing}
  <1>1. \A a \in passing : \E i \in 1 .. Len(areas) : a = areas[i]
    BY AreasOf DEF Range
  <1>2. \A x : x \in Covered(areas, passing, Len(areas)) <=>
               \E a \in passing : x \in Span(a.start, a.end)
    BY <1>1, CoveredIs
  <1> QED
    BY <1>2

(* The total is the memory mapped.                                         *)
LEMMA TotalIsRight ==
  ASSUME NEW areas \in Seq(Area), InOrder(areas)
  PROVE  TotalSize(areas) = Cardinality(UNION {Span(a.start, a.end) : a \in Range(areas)})
  <1> DEFINE C(n) == Covered(areas, Range(areas), n)
  <1>1. PICK t \in [0 .. Len(areas) -> Int] :
           /\ t[0] = 0 /\ t[Len(areas)] = TotalSize(areas)
           /\ \A n \in 1 .. Len(areas) : t[n] = t[n - 1] + SizeOf(areas[n])
    BY TotalSteps
  <1> DEFINE T == {n \in 0 .. Len(areas) : IsFiniteSet(C(n)) /\ t[n] = Cardinality(C(n))}
  <1>2. 0 \in T
    BY <1>1, CoveredAtFirst, AreasOf
  <1>3. ASSUME NEW n \in 1 .. Len(areas), n - 1 \in T PROVE n \in T
    <2>1. areas[n] \in Range(areas)
      BY AreasOf DEF Range
    <2>2. IsFiniteSet(C(n)) /\ Cardinality(C(n)) = Cardinality(C(n - 1)) + SizeOf(areas[n])
      BY <1>3, <2>1, CoveredGrows
    <2>3. t[n] = t[n - 1] + SizeOf(areas[n]) /\ t[n - 1] = Cardinality(C(n - 1))
      BY <1>1, <1>3
    <2>4. n \in 0 .. Len(areas)
      BY AreasOf
    <2> QED
      BY <2>2, <2>3, <2>4
  <1>4. 0 .. Len(areas) \subseteq T
    <2> HIDE DEF T
    <2> QED
      BY <1>2, <1>3, Upward, AreasOf
  <1>5. Len(areas) \in T
    <2>1. Len(areas) \in 0 .. Len(areas)
      BY AreasOf
    <2> QED
      BY <1>4, <2>1
  <1> QED
    BY <1>1, <1>5, CoveredAtLast

(* The areas that pass, as measured after n of them.                       *)
Measuring(areas, passing, n, seg) ==
  LET passed == {i \in 1 .. n : areas[i] \in passing}
  IN /\ IsFiniteSet(Covered(areas, passing, n)) /\ seg.size = Cardinality(Covered(areas, passing, n))
     /\ passed = {} => seg = NoArea
     /\ \A i \in passed : /\ seg.start # 0 /\ seg.start <= areas[i].start /\ areas[i].end <= seg.end
                          /\ passed = {i} => seg = Count(NoArea, areas[i])

LEMMA WalkMeasures ==
  ASSUME NEW areas \in Seq(Area), InOrder(areas), NEW passing
  PROVE  Measuring(areas, passing, Len(areas), Walk(areas, passing))
  <1>0. PICK w \in [0 .. Len(areas) -> Segment] : Steps(areas, passing, w)
    BY WalkSteps
  <1>1. /\ w[0] = NoArea /\ w[Len(areas)] = Walk(areas, passing)
        /\ \A n \in 1 .. Len(areas) :
             w[n] = IF areas[n] \in passing THEN Count(w[n - 1], areas[n]) ELSE w[n - 1]
    BY <1>0 DEF Steps
  <1> DEFINE T == {n \in 0 .. Len(areas) : Measuring(areas, passing, n, w[n])}
  <1>2. 0 \in T
    BY <1>1, CoveredAtFirst, AreasOf DEF Measuring, NoArea
  <1>3. ASSUME NEW n \in 1 .. Len(areas), n - 1 \in T PROVE n \in T
    <2> DEFINE old == {i \in 1 .. n - 1 : areas[i] \in passing}
               new == {i \in 1 .. n : areas[i] \in passing}
    <2>1. /\ IsFiniteSet(Covered(areas, passing, n - 1))
          /\ w[n - 1].size = Cardinality(Covered(areas, passing, n - 1))
          /\ old = {} => w[n - 1] = NoArea
          /\ \A i \in old :
               /\ w[n - 1].start # 0 /\ w[n - 1].start <= areas[i].start
               /\ areas[i].end <= w[n - 1].end
               /\ old = {i} => w[n - 1] = Count(NoArea, areas[i])
      BY <1>3 DEF Measuring
    <2>2. n \in 0 .. Len(areas) /\ n \in 1 .. n /\ n \notin 1 .. n - 1 /\ n - 1 \in 0 .. Len(areas)
      BY AreasOf
    <2>3. w[n - 1] \in Segment
      BY <2>2
    <2>4. \A i : i \in 1 .. n <=> i \in 1 .. n - 1 \/ i = n
      BY AreasOf
    <2>5. CASE areas[n] \notin passing
      <3>1. w[n] = w[n - 1]
        BY <1>1, <2>5
      <3>2. new = old
        BY <2>4, <2>5
      <3>3. /\ IsFiniteSet(Covered(areas, passing, n))
            /\ w[n].size = Cardinality(Covered(areas, passing, n))
        BY <2>1, <2>3, <2>5, <3>1, CoveredGrows DEF Segment
      <3>4. Measuring(areas, passing, n, w[n])
        <4> HIDE DEF old
        <4> QED
          BY <2>1, <3>1, <3>2, <3>3 DEF Measuring
      <3> QED
        BY <2>2, <3>4
    <2>6. CASE areas[n] \in passing
      <3>1. w[n] = Count(w[n - 1], areas[n])
        BY <1>1, <2>6
      <3>2. new = old \cup {n} /\ n \notin old
        BY <2>2, <2>4, <2>6
      <3>3. /\ IsFiniteSet(Covered(areas, passing, n))
            /\ w[n].size = Cardinality(Covered(areas, passing, n))
        BY <2>1, <2>3, <2>6, <3>1, CoveredGrows DEF Segment, Count
      <3>4. \A i \in old : /\ areas[i].end <= areas[n].start /\ areas[i].start < areas[i].end
                           /\ areas[i].start \in Nat /\ areas[i].end \in Nat
        BY AreasOf DEF InOrder
      <3>5. /\ areas[n].start \in Nat \ {0} /\ areas[n].end \in Nat /\ areas[n].start < areas[n].end
        BY AreasOf DEF InOrder
      <3>6. w[n].end = areas[n].end
        BY <3>1 DEF Count
      <3>7. w[n].start # 0 /\ w[n].start <= areas[n].start /\ \A i \in old : w[n].start <= areas[i].start
        <4>1. CASE old = {}
          BY <2>1, <3>1, <3>5, <4>1 DEF Count, NoArea
        <4>2. CASE old # {}
          <5>1. PICK i \in old : TRUE
            BY <4>2
          <5>2. w[n - 1].start # 0 /\ w[n - 1].start <= areas[i].start /\ w[n - 1].start \in Nat
            BY <2>1, <2>3, <5>1 DEF Segment
          <5>3. w[n].start = w[n - 1].start
            BY <3>1, <5>2 DEF Count
          <5> QED
            BY <2>1, <3>4, <3>5, <5>2, <5>3
        <4> QED
          BY <4>1, <4>2
      <3>8. \A i \in new : new = {i} => w[n] = Count(NoArea, areas[i])
        <4>1. ASSUME NEW i \in new, new = {i} PROVE i = n /\ old = {}
          BY <3>2, <4>1
        <4> QED
          BY <2>1, <3>1, <4>1
      <3>9. \A i \in new : w[n].start <= areas[i].start /\ areas[i].end <= w[n].end
        BY <3>2, <3>4, <3>5, <3>6, <3>7
      <3>10. Measuring(areas, passing, n, w[n])
        <4>1. new # {}
          BY <3>2
        <4> HIDE DEF old
        <4> QED
          BY <3>3, <3>7, <3>8, <3>9, <4>1 DEF Measuring
      <3> QED
        BY <2>2, <3>10
    <2> QED
      BY <2>5, <2>6
  <1>4. 0 .. Len(areas) \subseteq T
    <2> HIDE DEF T
    <2> QED
      BY <1>2, <1>3, Upward, AreasOf
  <1>5. Len(areas) \in T
    <2>1. Len(areas) \in 0 .. Len(areas)
      BY AreasOf
    <2> QED
      BY <1>4, <2>1
  <1> QED
    BY <1>1, <1>5

LEMMA WalkTypes ==
  ASSUME NEW areas \in Seq(Area), NEW passing PROVE Walk(areas, passing) \in Segment
  <1>1. Len(areas) \in 0 .. Len(areas)
    BY AreasOf
  <1> QED
    BY <1>1, WalkSteps DEF Steps

-----------------------------------------------------------------------------
LEMMA AreasLaidOut ==
  ASSUME NEW mm, LaidOut(mm)
  PROVE  /\ mm.areas \in Seq(Area) /\ InOrder(mm.areas)
         /\ \A a \in Areas(mm) : a.start \in Nat /\ a.end \in Nat /\ a.start < a.end
         /\ \A a, b \in Areas(mm) : a.end <= b.start \/ b.end <= a.start \/ a = b
  <1>1. mm.areas \in Seq(Area) /\ InOrder(mm.areas)
    BY DEF LaidOut, Area, InOrder
  <1>2. \A a \in Areas(mm) : \E i \in 1 .. Len(mm.areas) : a = mm.areas[i]
    BY <1>1, AreasOf DEF Areas, Range
  <1>3. \A i, j \in 1 .. Len(mm.areas) : i < j \/ j < i \/ i = j
    BY <1>1, AreasOf
  <1>4. \A i \in 1 .. Len(mm.areas) :
          mm.areas[i].start \in Nat /\ mm.areas[i].end \in Nat /\ mm.areas[i].start < mm.areas[i].end
    BY <1>1, AreasOf DEF InOrder
  <1> QED
    BY <1>1, <1>2, <1>3, <1>4 DEF InOrder

(* The test with both bounds inclusive, for an area that does not touch.   *)
LEMMA TestHolds ==
  ASSUME NEW from \in Nat, NEW to \in Nat, from <= to, from # to,
         NEW a, a.start \in Nat, a.end \in Nat, a.start < a.end,
         a.start <= to, a.end >= from, a.end # from, a.start # to
  PROVE  Span(a.start, a.end) \cap Span(from, to) # {}
  <1>1. CASE a.start <= from
    <2>1. from \in Span(a.start, a.end) /\ from \in Span(from, to)
      BY <1>1 DEF Span
    <2> QED
      BY <2>1
  <1>2. CASE a.start > from
    <2>1. a.start \in Span(a.start, a.end) /\ a.start \in Span(from, to)
      BY <1>2 DEF Span
    <2> QED
      BY <2>1
  <1> QED
    BY <1>1, <1>2

(* A segment whose test passes every area that holds some of it, and, but  *)
(* for areas that touch it, no other one, is measured.                     *)
LEMMA SegmentIsMeasured ==
  ASSUME NEW mm, LaidOut(mm), NEW from \in Nat, NEW to \in Nat,
         NEW passing \in SUBSET Areas(mm), Holding(mm, from, to) \subseteq passing,
         ~Touched(mm, from, to) => passing \subseteq Holding(mm, from, to)
  PROVE  Measured(mm, Walk(mm.areas, passing), from, to)
  <1> DEFINE N == Len(mm.areas)
             seg == Walk(mm.areas, passing)
  <1>1. mm.areas \in Seq(Area) /\ InOrder(mm.areas)
    BY AreasLaidOut
  <1>2. Measuring(mm.areas, passing, N, seg)
    BY <1>1, WalkMeasures
  <1>3. passing \in SUBSET Range(mm.areas)
    BY DEF Areas
  <1>4. seg.size = Cardinality(UNION {Span(a.start, a.end) : a \in passing})
    BY <1>1, <1>2, <1>3, CoveredAtLast DEF Measuring
  <1>5. ASSUME NEW x \in Span(from, to), x \in Mapped(mm) PROVE x \in Span(seg.start, seg.end)
    <2>1. PICK a \in Areas(mm) : x \in Span(a.start, a.end)
      BY <1>5 DEF Mapped
    <2>2. a \in passing
      BY <1>5, <2>1 DEF Holding
    <2>3. PICK i \in 1 .. N : a = mm.areas[i]
      BY <1>1, AreasOf DEF Areas, Range
    <2>4. seg.start <= a.start /\ a.end <= seg.end
      BY <1>2, <2>2, <2>3 DEF Measuring
    <2>5. seg.start \in Nat /\ seg.end \in Nat
      BY <1>1, WalkTypes DEF Segment
    <2>6. a.start \in Nat /\ a.end \in Nat
      BY AreasLaidOut
    <2> QED
      BY <2>1, <2>4, <2>5, <2>6 DEF Span
  <1>6. ~Touched(mm, from, to) => passing = Holding(mm, from, to)
    OBVIOUS
  <1> HIDE DEF seg
  <1> QED
    BY <1>4, <1>5, <1>6 DEF Measured, seg

LEMMA VmaInfoIsRight ==
  ASSUME NEW mm, LaidOut(mm)
  PROVE  VmaInfo(mm).total = Cardinality(Mapped(mm)) /\ AllMeasured(mm, VmaInfo(mm))
  <1> DEFINE areas == Range(mm.areas)
             code  == {a \in areas : a.start <= mm.start_code /\ a.end >= mm.end_code}
             data  == {a \in areas : a.start <= mm.end_data /\ a.end >= mm.start_data}
             heap  == {a \in areas : a.start <= mm.brk /\ a.end >= mm.start_brk}
             stack == {a \in areas : a.start <= mm.start_stack /\ a.end >= mm.start_stack}
  <1>1. /\ VmaInfo(mm).total = TotalSize(mm.areas)
        /\ VmaInfo(mm).code = Walk(mm.areas, code) /\ VmaInfo(mm).data = Walk(mm.areas, data)
        /\ VmaInfo(mm).heap = Walk(mm.areas, heap) /\ VmaInfo(mm).stack = Walk(mm.areas, stack)
    BY DEF VmaInfo
  <1>2. /\ mm.areas \in Seq(Area) /\ InOrder(mm.areas) /\ areas = Areas(mm)
        /\ \A a \in areas : a.start \in Nat /\ a.end \in Nat /\ a.start < a.end
        /\ \A a, b \in areas : a.end <= b.start \/ b.end <= a.start \/ a = b
    BY AreasLaidOut DEF Areas
  <1>3. TotalSize(mm.areas) = Cardinality(Mapped(mm))
    BY <1>2, TotalIsRight DEF Mapped
  <1> HIDE DEF areas
  <1>4. Measured(mm, Walk(mm.areas, data), mm.start_data, mm.end_data)
    <2>1. /\ mm.start_data \in Nat /\ mm.end_data \in Nat /\ mm.start_data <= mm.end_data
      BY DEF LaidOut
    <2>2. Holding(mm, mm.start_data, mm.end_data) \subseteq data
      BY <1>2, <2>1 DEF Holding, Span
    <2>3. ASSUME ~Touched(mm, mm.start_data, mm.end_data)
          PROVE  data \subseteq Holding(mm, mm.start_data, mm.end_data)
      BY <1>2, <2>1, <2>3, TestHolds DEF Holding, Touched
    <2>4. data \in SUBSET Areas(mm)
      BY <1>2
    <2> HIDE DEF data
    <2> QED
      BY <2>1, <2>2, <2>3, <2>4, SegmentIsMeasured
  <1>5. Measured(mm, Walk(mm.areas, heap), mm.start_brk, mm.brk)
    <2>1. /\ mm.start_brk \in Nat /\ mm.brk \in Nat /\ mm.start_brk <= mm.brk
      BY DEF LaidOut
    <2>2. Holding(mm, mm.start_brk, mm.brk) \subseteq heap
      BY <1>2, <2>1 DEF Holding, Span
    <2>3. ASSUME ~Touched(mm, mm.start_brk, mm.brk)
          PROVE  heap \subseteq Holding(mm, mm.start_brk, mm.brk)
      BY <1>2, <2>1, <2>3, TestHolds DEF Holding, Touched
    <2>4. heap \in SUBSET Areas(mm)
      BY <1>2
    <2> HIDE DEF heap
    <2> QED
      BY <2>1, <2>2, <2>3, <2>4, SegmentIsMeasured
  <1>6. Measured(mm, Walk(mm.areas, stack), mm.start_stack, mm.start_stack + 1)
    <2>1. mm.start_stack \in Nat /\ mm.start_stack + 1 \in Nat
      BY DEF LaidOut
    <2>2. Holding(mm, mm.start_stack, mm.start_stack + 1) \subseteq stack
      BY <1>2, <2>1 DEF Holding, Span
    <2>3. ASSUME ~Touched(mm, mm.start_stack, mm.start_stack + 1)
          PROVE  stack \subseteq Holding(mm, mm.start_stack, mm.start_stack + 1)
      <3>1. \A a \in stack : a \in areas /\ a.start <= mm.start_stack + 1 /\ a.end >= mm.start_stack
        BY <1>2, <2>1
      <3> QED
        BY <1>2, <2>1, <2>3, <3>1, TestHolds DEF Holding, Touched
    <2>4. stack \in SUBSET Areas(mm)
      BY <1>2
    <2> HIDE DEF stack
    <2> QED
      BY <2>1, <2>2, <2>3, <2>4, SegmentIsMeasured
  <1>7. CodeMeasured(mm, Walk(mm.areas, code))
    <2> DEFINE whole == {a \in Areas(mm) : Span(mm.start_code, mm.end_code) \subseteq Span(a.start, a.end)}
               seg == Walk(mm.areas, code)
               N == Len(mm.areas)
    <2>1. mm.start_code \in Nat /\ mm.end_code \in Nat /\ mm.start_code < mm.end_code
      BY DEF LaidOut
    <2>2. ASSUME NEW a \in areas PROVE a \in whole <=> a \in code
      <3>1. a \in Areas(mm) /\ a.start \in Nat /\ a.end \in Nat
        BY <1>2
      <3>2. mm.start_code \in Span(mm.start_code, mm.end_code)
        BY <2>1 DEF Span
      <3>3. mm.end_code - 1 \in Span(mm.start_code, mm.end_code)
        BY <2>1 DEF Span
      <3>4. ASSUME a \in whole PROVE a \in code
        <4>1. mm.start_code \in Span(a.start, a.end) /\ mm.end_code - 1 \in Span(a.start, a.end)
          BY <3>2, <3>3, <3>4
        <4> QED
          BY <2>1, <3>1, <4>1 DEF Span
      <3>5. ASSUME a \in code PROVE a \in whole
        BY <2>1, <3>1, <3>5 DEF Span
      <3> QED
        BY <3>4, <3>5
    <2>3. whole = code
      BY <1>2, <2>2
    <2>4. ASSUME NEW a \in code, NEW b \in code PROVE a = b
      <3>1. a.start <= mm.start_code /\ mm.start_code < a.end /\ b.start <= mm.start_code /\ mm.start_code < b.end
        BY <1>2, <2>1
      <3> QED
        BY <1>2, <2>1, <3>1
    <2>5. Measuring(mm.areas, code, N, seg)
      BY <1>2, WalkMeasures
    <2>6. N \in Nat /\ areas = {mm.areas[i] : i \in 1 .. N}
      BY <1>2, AreasOf DEF areas, Range
    <2>7. CASE code = {}
      <3>1. seg = NoArea
        BY <2>5, <2>7 DEF Measuring
      <3> QED
        BY <2>3, <2>7, <3>1 DEF CodeMeasured
    <2>8. ASSUME NEW a \in code PROVE seg = [start |-> a.start, end |-> a.end, size |-> SizeOf(a)]
      <3>1. PICK i \in 1 .. N : a = mm.areas[i]
        BY <2>6
      <3>2. ASSUME NEW j \in 1 .. N, mm.areas[j] \in code PROVE j = i
        <4>1. mm.areas[j] = a
          BY <2>4, <3>2
        <4>2. /\ mm.areas[i].start < mm.areas[i].end /\ mm.areas[i].start \in Nat /\ mm.areas[i].end \in Nat
              /\ i < j => mm.areas[i].end <= mm.areas[j].start
              /\ j < i => mm.areas[j].end <= mm.areas[i].start
          BY <1>2, AreasOf DEF InOrder
        <4> QED
          BY <2>6, <3>1, <4>1, <4>2
      <3>3. {j \in 1 .. N : mm.areas[j] \in code} = {i}
        BY <3>1, <3>2
      <3>4. seg = Count(NoArea, a)
        BY <2>5, <3>1, <3>3 DEF Measuring
      <3>5. 0 + SizeOf(a) = SizeOf(a)
        BY <1>2, <3>1, AreasOf
      <3> QED
        BY <3>4, <3>5 DEF Count, NoArea
    <2> HIDE DEF code, seg
    <2> QED
      BY <2>3, <2>7, <2>8 DEF CodeMeasured, seg
  <1> QED
    BY <1>1, <1>3, <1>4, <1>5, <1>6, <1>7 DEF AllMeasured

(* An answer is printed as it was worked out, whatever others do meanwhile.*)
Answered ==
  \A p \in Processes : proc[p] = "print" =>
    \E mm \in AddressSpaces :
      /\ answer[p].mm = mm
      /\ answer[p].info \in {[total |-> TotalSize(mm.areas)], VmaInfo(mm)}

LEMMA AnswerStays ==
  ASSUME ChardevInv, Answered, [Next]_vars
  PROVE  Answered'
  <1>a. proc \in [Processes -> Stages] /\ DOMAIN answer = Processes
    BY DEF ChardevInv, TypeOK, Stages
  <1>1. CASE UNCHANGED <<proc, answer>>
    BY <1>1 DEF Answered
  <1>2. ASSUME NEW p \in Processes, NEW from, NEW to, Go(p, from, to), to # "print", answer' = answer
        PROVE  Answered'
    <2>1. \A q \in Processes : proc'[q] = "print" => proc[q] = "print"
      BY <1>a, <1>2 DEF Go
    <2> QED
      BY <1>2, <2>1 DEF Answered
  <1>3. ASSUME NEW p \in Processes, CurMap(p) \/ VmaInfoOf(p) PROVE Answered'
    <2>1. PICK mm \in AddressSpaces :
            \E info \in {[total |-> TotalSize(mm.areas)], VmaInfo(mm)} :
              answer' = [answer EXCEPT ![p] = [mm |-> mm, info |-> info]]
      BY <1>3 DEF CurMap, VmaInfoOf
    <2>2. answer'[p].mm = mm /\ answer'[p].info \in {[total |-> TotalSize(mm.areas)], VmaInfo(mm)}
      BY <1>a, <2>1
    <2>3. \A q \in Processes \ {p} : proc'[q] = proc[q] /\ answer'[q] = answer[q]
      BY <1>3, <1>a, <2>1 DEF CurMap, VmaInfoOf, Go
    <2> QED
      BY <2>2, <2>3 DEF Answered
  <1>4. ASSUME NEW p \in Processes, Printed(p) PROVE Answered'
    <2>1. proc'[p] # "print" /\ \A q \in Processes \ {p} : proc'[q] = proc[q] /\ answer'[q] = answer[q]
      BY <1>4, <1>a DEF Printed, Go
    <2> QED
      BY <2>1 DEF Answered
  <1>5. ASSUME NEW p \in Processes, ProcessStep(p) PROVE Answered'
    <2>1. \/ CurMap(p) \/ VmaInfoOf(p) \/ Printed(p)
          \/ answer' = answer /\ \E from, to : Go(p, from, to) /\ to # "print"
      BY <1>5 DEF ProcessStep, Open, device_open, Busy, Free, LoadInc, StoreInc, Ioctl,
         device_ioctl, NothingToCount, Close, device_release, LoadDec, StoreDec
    <2> QED
      BY <1>2, <1>3, <1>4, <2>1
  <1>6. CASE chardev_init_module \/ chardev_cleanup_module \/ Insmod \/ Rmmod
    BY <1>1, <1>6 DEF chardev_init_module, chardev_cleanup_module, Register, Unregister, Insmod,
       Rmmod, procVars
  <1>7. CASE UNCHANGED vars
    BY <1>1, <1>7 DEF vars, procVars
  <1> QED
    BY <1>5, <1>6, <1>7 DEF Next, ProcessStep

(* What an ioctl prints is right for the address space it was called from, *)
(* for areas of any number, size and place.                                *)
THEOREM IoctlReportsMemory == Spec => []AddressSpaceReported
  <1>1. Init => Answered
    BY DEF Init, Answered
  <1>2. ASSUME Answered PROVE AddressSpaceReported
    <2> SUFFICES ASSUME NEW p \in Processes, proc[p] = "print"
                 PROVE  /\ answer[p].info.total = Cardinality(Mapped(answer[p].mm))
                        /\ "code" \in DOMAIN answer[p].info => AllMeasured(answer[p].mm, answer[p].info)
      BY DEF AddressSpaceReported
    <2>1. PICK mm \in AddressSpaces :
            /\ answer[p].mm = mm
            /\ answer[p].info \in {[total |-> TotalSize(mm.areas)], VmaInfo(mm)}
      BY <1>2 DEF Answered
    <2>2. LaidOut(mm)
      BY ChardevAssumption
    <2>3. TotalSize(mm.areas) = Cardinality(Mapped(mm))
      BY <2>2, VmaInfoIsRight DEF VmaInfo
    <2>4. CASE answer[p].info = [total |-> TotalSize(mm.areas)]
      <3>1. "code" \notin DOMAIN answer[p].info /\ answer[p].info.total = TotalSize(mm.areas)
        BY <2>4
      <3> QED
        BY <2>1, <2>3, <3>1
    <2>5. CASE answer[p].info = VmaInfo(mm)
      BY <2>1, <2>2, <2>5, VmaInfoIsRight
    <2> QED
      BY <2>1, <2>4, <2>5
  <1> QED
    BY <1>1, <1>2, AnswerStays, ChardevInvariance, PTL DEF Spec
=============================================================================
