------------------------------ MODULE Chardev ------------------------------
(***************************************************************************)
(* lab10/chardev.c: a character device that admits one opener at a time    *)
(* with a plain int, and the registration sequence of its module with the  *)
(* unwinding on errors.  chardev_quiz1.c is the same but for fewer ioctls. *)
(*                                                                         *)
(* What the kernel does around the handlers is modelled from how the code  *)
(* relies on it: the node /dev/chardev exists between device_create and    *)
(* device_destroy, a process inside open .. release holds a reference to   *)
(* the module (cdev.owner), and rmmod waits for no reference but refuses   *)
(* while there is one.                                                     *)
(***************************************************************************)
EXTENDS Integers, FiniteSets, MemoryAreas

CONSTANTS
  Processes,      \* the processes that use the device
  AddressSpaces,  \* what the kernel may know of a caller's memory
  NoAnswer,
  MaxOpens        \* bound of the model: calls of open(2) per insmod

ASSUME ChardevAssumption ==
  /\ IsFiniteSet(Processes) /\ MaxOpens \in Nat
  /\ \A mm \in AddressSpaces : LaidOut(mm)

VARIABLES
  mod,      \* what insmod or rmmod does next; "absent", "live" in between
  have,     \* what is registered
  opened,   \* the static counter
  refs,     \* references to the module
  proc,     \* by process: "out", or its next statement, or "open"
  reg,      \* by process: the loaded value of opened
  answer,   \* by process: what an ioctl in progress has worked out
  opens,    \* history: calls of open(2) since insmod
  raced     \* history: did two handlers ever overlap since insmod?

modVars == <<mod, have>>
hist == <<opens, raced>>
procVars == <<proc, reg, answer>>
vars == <<modVars, opened, refs, procVars, hist>>

Init ==
  /\ mod = "absent" /\ have = {}
  /\ opened = 0 /\ refs = 0
  /\ proc = [p \in Processes |-> "out"]
  /\ reg = [p \in Processes |-> 0]
  /\ answer = [p \in Processes |-> NoAnswer]
  /\ opens = 0 /\ raced = FALSE

-----------------------------------------------------------------------------
(* insmod: the module's data is fresh.                                     *)
Insmod ==
  /\ mod = "absent" /\ mod' = "class_create"
  /\ opened' = 0 /\ opens' = 0 /\ raced' = FALSE
  /\ UNCHANGED <<have, refs, procVars>>

(* One registration of chardev_init_module: it succeeds and the next one   *)
(* follows, or it fails and the errors are unwound from there.             *)
Register(what, at, next, error) ==
  /\ mod = at
  /\ \/ have' = have \cup {what} /\ mod' = next
     \/ have' = have /\ mod' = error
  /\ UNCHANGED <<opened, refs, procVars, hist>>

Unregister(what, at, next) ==
  /\ mod = at /\ mod' = next
  /\ have' = have \ {what}
  /\ UNCHANGED <<opened, refs, procVars, hist>>

(* Mutant: a failing register_chrdev_region jumps past cdev_del.           *)
InitSkipsCdevDel ==
  \/ Register("class", "class_create", "cdev_add", "absent")
  \/ Register("cdev", "cdev_add", "register_region", "error1")
  \/ Register("region", "register_region", "device_create", "error1")
  \/ Register("device", "device_create", "live", "error3")
  \/ Unregister("region", "error3", "error2")
  \/ Unregister("cdev", "error2", "error1")
  \/ Unregister("class", "error1", "absent")

chardev_init_module ==
  \/ Register("class", "class_create", "cdev_add", "absent")
  \/ Register("cdev", "cdev_add", "register_region", "error1")
  \/ Register("region", "register_region", "device_create", "error2")
  \/ Register("device", "device_create", "live", "error3")
  \/ Unregister("region", "error3", "error2")
  \/ Unregister("cdev", "error2", "error1")
  \/ Unregister("class", "error1", "absent")

(* rmmod is refused while the module is referenced.                        *)
Rmmod ==
  /\ mod = "live" /\ refs = 0
  /\ mod' = "device_destroy"
  /\ UNCHANGED <<have, opened, refs, procVars, hist>>

chardev_cleanup_module ==
  \/ Unregister("device", "device_destroy", "unregister_region")
  \/ Unregister("region", "unregister_region", "cdev_del")
  \/ Unregister("cdev", "cdev_del", "class_destroy")
  \/ Unregister("class", "class_destroy", "absent")

-----------------------------------------------------------------------------
Handlers == {"check", "load_inc", "store_inc", "load_dec", "store_dec"}

Go(p, from, to) == proc[p] = from /\ proc' = [proc EXCEPT ![p] = to]

(* Entering a handler while another process is in one is a race.           *)
NoteRace(p) ==
  raced' = (raced \/ \E q \in Processes \ {p} : proc[q] \in Handlers)

(* Mutant: cdev.owner is not set, so the file holds no reference.          *)
OpenUnowned(p) ==
  /\ mod = "live" /\ "device" \in have
  /\ opens < MaxOpens /\ opens' = opens + 1
  /\ Go(p, "out", "check")
  /\ NoteRace(p)
  /\ UNCHANGED <<modVars, opened, refs, reg, answer>>

(* open(2): the kernel finds the device and takes a reference for the file.*)
(* Races can drive opened ever further from 0, hence the bound on opens.   *)
Open(p) ==
  /\ mod = "live" /\ "device" \in have
  /\ opens < MaxOpens /\ opens' = opens + 1
  /\ Go(p, "out", "check")
  /\ refs' = refs + 1
  /\ NoteRace(p)
  /\ UNCHANGED <<modVars, opened, reg, answer>>

(* Mutants: the refused open keeps its reference; opened is not tested.    *)
BusyKeepsReference(p) ==
  /\ opened # 0
  /\ Go(p, "check", "out")
  /\ UNCHANGED <<modVars, opened, refs, reg, answer, hist>>

FreeUntested(p) ==
  /\ Go(p, "check", "load_inc")
  /\ UNCHANGED <<modVars, opened, refs, reg, answer, hist>>

(* device_open: "if (opened) return -EBUSY", the reference is given back,  *)
Busy(p) ==
  /\ opened # 0
  /\ Go(p, "check", "out")
  /\ refs' = refs - 1
  /\ UNCHANGED <<modVars, opened, reg, answer, hist>>

Free(p) ==
  /\ opened = 0
  /\ Go(p, "check", "load_inc")
  /\ UNCHANGED <<modVars, opened, refs, reg, answer, hist>>

(* then "opened++", a load and a store, and try_module_get.                *)
LoadInc(p) ==
  /\ Go(p, "load_inc", "store_inc")
  /\ reg' = [reg EXCEPT ![p] = opened]
  /\ UNCHANGED <<modVars, opened, refs, answer, hist>>

StoreInc(p) ==
  /\ Go(p, "store_inc", "open")
  /\ opened' = reg[p] + 1
  /\ refs' = refs + 1
  /\ UNCHANGED <<modVars, reg, answer, hist>>

device_open(p) == Busy(p) \/ Free(p) \/ LoadInc(p) \/ StoreInc(p)

(* ioctl(2) on the open file; the handler sleeps 100 ms first.             *)
Ioctl(p) ==
  /\ Go(p, "open", "ioctl")
  /\ UNCHANGED <<modVars, opened, refs, reg, answer, hist>>

(* IOCTL_PROCINFO prints fields as they are, other numbers nothing.        *)
NothingToCount(p) ==
  /\ Go(p, "ioctl", "open")
  /\ UNCHANGED <<modVars, opened, refs, reg, answer, hist>>

(* IOCTL_CURMAP adds up the areas, IOCTL_VMAINFO also sorts them by segment*)
(* (quiz2.c and quiz3.c have one thread, asleep in the call: the areas do  *)
(* not change under the walk).                                             *)
CurMap(p) ==
  /\ Go(p, "ioctl", "print")
  /\ \E mm \in AddressSpaces :
       answer' = [answer EXCEPT ![p] = [mm |-> mm, info |-> [total |-> TotalSize(mm.areas)]]]
  /\ UNCHANGED <<modVars, opened, refs, reg, hist>>

VmaInfoOf(p) ==
  /\ Go(p, "ioctl", "print")
  /\ \E mm \in AddressSpaces :
       answer' = [answer EXCEPT ![p] = [mm |-> mm, info |-> VmaInfo(mm)]]
  /\ UNCHANGED <<modVars, opened, refs, reg, hist>>

Printed(p) ==
  /\ Go(p, "print", "open")
  /\ answer' = [answer EXCEPT ![p] = NoAnswer]
  /\ UNCHANGED <<modVars, opened, refs, reg, hist>>

device_ioctl(p) == NothingToCount(p) \/ CurMap(p) \/ VmaInfoOf(p) \/ Printed(p)

(* close(2).                                                               *)
Close(p) ==
  /\ Go(p, "open", "load_dec")
  /\ NoteRace(p)
  /\ UNCHANGED <<modVars, opened, refs, reg, answer, opens>>

(* device_release: "opened--" and module_put; the file's reference follows.*)
LoadDec(p) ==
  /\ Go(p, "load_dec", "store_dec")
  /\ reg' = [reg EXCEPT ![p] = opened]
  /\ UNCHANGED <<modVars, opened, refs, answer, hist>>

StoreDec(p) ==
  /\ Go(p, "store_dec", "out")
  /\ opened' = reg[p] - 1
  /\ refs' = refs - 2
  /\ UNCHANGED <<modVars, reg, answer, hist>>

device_release(p) == LoadDec(p) \/ StoreDec(p)

Next ==
  \/ Insmod \/ chardev_init_module \/ Rmmod \/ chardev_cleanup_module
  \/ \E p \in Processes :
       \/ Open(p) \/ device_open(p) \/ Ioctl(p) \/ device_ioctl(p)
       \/ Close(p) \/ device_release(p)

Spec == Init /\ [][Next]_vars

-----------------------------------------------------------------------------
Inside == {p \in Processes : proc[p] # "out"}
Holders == {p \in Processes : proc[p] \in {"open", "ioctl", "print", "load_dec", "store_dec"}}

Unwinding == {"error1", "error2", "error3"}
Cleaning == {"device_destroy", "unregister_region", "cdev_del", "class_destroy"}
Loading == {"class_create", "cdev_add", "register_region", "device_create"}

TypeOK ==
  /\ mod \in {"absent", "live"} \cup Loading \cup Unwinding \cup Cleaning
  /\ have \subseteq {"class", "cdev", "region", "device"}
  /\ opened \in Int /\ refs \in Nat
  /\ proc \in [Processes -> {"out", "open", "ioctl", "print"} \cup Handlers]
  /\ reg \in [Processes -> Int] /\ DOMAIN answer = Processes
  /\ opens \in 0 .. MaxOpens /\ raced \in BOOLEAN

(* A load that fails half way leaves nothing registered, nor does rmmod,   *)
(* and nothing is taken away before what was built on it.                  *)
AllOrNothing ==
  /\ mod = "absent" => have = {}
  /\ mod = "live" => have = {"class", "cdev", "region", "device"}
  /\ "device" \in have => {"class", "cdev", "region"} \subseteq have
  /\ "cdev" \in have => "class" \in have

(* Nobody is inside the module's code, or has its device open, when rmmod  *)
(* starts to take it down; the reference count sees to that even when the  *)
(* count in "opened" is wrong.                                             *)
CodeStaysMapped == Inside # {} => mod = "live"
ReferencesBalance == refs = Cardinality(Inside) + Cardinality(Holders)

(* The guard does what its comments say as long as no open or close of one *)
(* process overlaps that of another: then at most one process has the      *)
(* device, and opened says whether one has.                                *)
GuardWorksUnraced ==
  ~raced =>
    /\ Cardinality(Holders) <= 1
    /\ (\A p \in Processes : proc[p] \notin Handlers) => opened = Cardinality(Holders)

(* What an ioctl prints is right for the address space it was called from: *)
(* the total is the memory mapped, and each segment is found whole, with   *)
(* nothing beside it where no other area touches its ends.                 *)
AddressSpaceReported ==
  \A p \in Processes : proc[p] = "print" =>
    LET mm == answer[p].mm  info == answer[p].info
    IN /\ info.total = Cardinality(Mapped(mm))
       /\ "code" \in DOMAIN info => AllMeasured(mm, info)

(* What is registered before each step of insmod and rmmod.                *)
Registered ==
  /\ mod \in {"absent", "class_create"} => have = {}
  /\ mod \in {"cdev_add", "error1", "class_destroy"} => have = {"class"}
  /\ mod \in {"register_region", "error2", "cdev_del"} => have = {"class", "cdev"}
  /\ mod \in {"device_create", "error3", "unregister_region"} =>
       have = {"class", "cdev", "region"}
  /\ mod \in {"live", "device_destroy"} => have = {"class", "cdev", "region", "device"}

(* Without overlap, one process at most is in a handler and one at most    *)
(* has the device, the two loads of opened are current, and none is on its *)
(* way in while another has the device.                                    *)
UnracedHandlers ==
  ~raced =>
    /\ \A p, q \in Processes : proc[p] \in Handlers /\ proc[q] \in Handlers => p = q
    /\ \A p, q \in Holders : p = q
    /\ opened = IF Holders = {} THEN 0 ELSE 1
    /\ \A p \in Processes :
         /\ proc[p] \in {"load_inc", "store_inc"} => Holders = {}
         /\ proc[p] \in {"store_inc", "store_dec"} => reg[p] = opened

(* The inductive invariant.                                                *)
ChardevInv ==
  TypeOK /\ Registered /\ CodeStaysMapped /\ ReferencesBalance /\ UnracedHandlers

(* "We're now ready for our next caller" (:54): when the last process has  *)
(* left, the next open is not refused.                                     *)
ReadyForNextCaller == Inside = {} /\ mod = "live" => opened = 0
=============================================================================
