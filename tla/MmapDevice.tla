----------------------------- MODULE MmapDevice -----------------------------
(***************************************************************************)
(* lab11/mmap.c: /proc/mmap_test gives every open file a page and maps it  *)
(* to user space at faults.                                                *)
(*                                                                         *)
(* The kernel around the handlers is modelled from how the code relies on  *)
(* it.  A file is released, which calls my_close, when its descriptor is   *)
(* closed and the last area mapping it is gone, and also by                *)
(* remove_proc_entry, whatever still maps it: proc_ops has no owner, so    *)
(* nothing keeps rmmod from running.  A page goes back to the free pages   *)
(* when its last reference is given up.  A fault runs with the areas of    *)
(* its process locked, so an area in which one is under way stays.         *)
(*                                                                         *)
(* A fault in an area whose file my_close has already been called on uses  *)
(* a page that may be free, or code that is no longer there: oops is set   *)
(* and the model follows no further.                                       *)
(***************************************************************************)
EXTENDS Integers, FiniteSets

CONSTANTS
  Files,    \* each is opened once, the bound of the model
  Areas,    \* virtual memory areas
  Offsets,  \* the pages of an area
  Users,    \* threads that touch the areas
  Pages,    \* the memory
  None      \* no page, no file, no fault

ASSUME MmapAssumption ==
  /\ IsFiniteSet(Files) /\ IsFiniteSet(Areas)
  /\ IsFiniteSet(Offsets) /\ IsFiniteSet(Pages)
  /\ None \notin Files \cup Pages

VARIABLES
  mod,      \* "absent", "live", "noentry" (proc_create failed), "removing"
  file,     \* by file: "new", "open", "released"
  fd,       \* the files whose descriptor is open
  data,     \* private_data of each file
  area,     \* by area: the file it maps
  vmdata,   \* by area: vm_private_data
  pte,      \* by area and offset: the page mapped
  fault,    \* by user: the fault under way
  refs,     \* by page: its reference count
  content,  \* by page: "zero", "greeting", or the file it was written through
  oops,     \* history: a fault ran after my_close
  torn,     \* history: rmmod ran with an area mapped
  faults,   \* history, by file: its faults; 2 is two or more
  wrote     \* history: the files written through

fileVars == <<file, fd, data>>
areaVars == <<area, vmdata>>
pageVars == <<refs, content>>
hist == <<torn, faults, wrote>>
vars == <<mod, fileVars, areaVars, pte, fault, pageVars, oops, hist>>

Init ==
  /\ mod = "absent" /\ oops = FALSE /\ torn = FALSE
  /\ file = [f \in Files |-> "new"] /\ fd = {}
  /\ data = [f \in Files |-> None]
  /\ area = [a \in Areas |-> None] /\ vmdata = [a \in Areas |-> None]
  /\ pte = [a \in Areas |-> [o \in Offsets |-> None]]
  /\ fault = [u \in Users |-> None]
  /\ refs = [g \in Pages |-> 0]
  /\ content = [g \in Pages |-> "zero"]
  /\ faults = [f \in Files |-> 0] /\ wrote = {}

Mapped(f) == {a \in Areas : area[a] = f}
InFault(a) == {u \in Users : fault[u] # None /\ fault[u].area = a}

-----------------------------------------------------------------------------
(* insmod: the result of proc_create is not looked at.                     *)
mmap_test_module_init ==
  /\ mod = "absent" /\ mod' \in {"live", "noentry"}
  /\ UNCHANGED <<fileVars, areaVars, pte, fault, pageVars, oops, hist>>

(* open(2) finds the entry; my_open takes a zeroed page, or none is left,  *)
(* which it does not look at.                                              *)
my_open(f) ==
  /\ mod = "live" /\ file[f] = "new"
  /\ file' = [file EXCEPT ![f] = "open"] /\ fd' = fd \cup {f}
  /\ \/ \E g \in {g \in Pages : refs[g] = 0} :
          /\ data' = [data EXCEPT ![f] = g]
          /\ refs' = [refs EXCEPT ![g] = 1]
          /\ content' = [content EXCEPT ![g] = "zero"]
     \/ UNCHANGED <<data, pageVars>>
  /\ UNCHANGED <<mod, areaVars, pte, fault, oops, hist>>

(* mmap(2) in a free area a, as long as the entry is there.                *)
my_mmap(f, a) ==
  /\ mod = "live" /\ f \in fd /\ file[f] = "open"
  /\ area[a] = None
  /\ area' = [area EXCEPT ![a] = f]
  /\ vmdata' = [vmdata EXCEPT ![a] = data[f]]
  /\ UNCHANGED <<mod, fileVars, pte, fault, pageVars, oops, hist>>

(* fork(2): the copy b of area a has the same file and private data; there *)
(* is no vm_ops->open, and the kernel leaves the page table to be faulted  *)
(* in again.                                                               *)
Fork(a, b) ==
  /\ area[a] # None /\ area[b] = None /\ InFault(a) = {}
  /\ area' = [area EXCEPT ![b] = area[a]]
  /\ vmdata' = [vmdata EXCEPT ![b] = vmdata[a]]
  /\ UNCHANGED <<mod, fileVars, pte, fault, pageVars, oops, hist>>

(* my_close frees the page of f; unmapped counts, by page, the references  *)
(* the page table gives up in the same call.                               *)
my_close(f, unmapped) ==
  /\ refs' = [g \in Pages |->
                refs[g] - unmapped[g] - IF g = data[f] THEN 1 ELSE 0]
  /\ data' = [data EXCEPT ![f] = None]
  /\ file' = [file EXCEPT ![f] = "released"]

Nothing == [g \in Pages |-> 0]

(* Mutant: the handler is installed as flush, called at every close(2).    *)
ReleasedByFlush(f, unmapped, others) ==
  IF file[f] = "open" /\ (others = {} \/ f \in fd)
  THEN my_close(f, unmapped)
  ELSE /\ refs' = [g \in Pages |-> refs[g] - unmapped[g]]
       /\ UNCHANGED <<file, data>>

(* A descriptor or an area lets go of f; others still hold it.  The kernel *)
(* does not call my_close again after remove_proc_entry did.               *)
Fput(f, unmapped, others) ==
  IF file[f] = "open" /\ others = {}
  THEN my_close(f, unmapped)
  ELSE /\ refs' = [g \in Pages |-> refs[g] - unmapped[g]]
       /\ UNCHANGED <<file, data>>

(* close(2).                                                               *)
Close(f) ==
  /\ f \in fd /\ fd' = fd \ {f}
  /\ Fput(f, Nothing, Mapped(f))
  /\ UNCHANGED <<mod, areaVars, pte, fault, content, oops, hist>>

(* munmap(2), or the end of the process.                                   *)
Munmap(a) ==
  /\ area[a] # None /\ InFault(a) = {}
  /\ area' = [area EXCEPT ![a] = None] /\ vmdata' = [vmdata EXCEPT ![a] = None]
  /\ pte' = [pte EXCEPT ![a] = [o \in Offsets |-> None]]
  /\ LET unmapped == [g \in Pages |-> Cardinality({o \in Offsets : pte[a][o] = g})]
         f == area[a]
     IN  Fput(f, unmapped, (Mapped(f) \ {a}) \cup (fd \cap {f}))
  /\ UNCHANGED <<mod, fd, fault, content, oops, hist>>

(* madvise(MADV_DONTNEED) drops a page from the page table.                *)
DontNeed(a, o) ==
  /\ pte[a][o] # None
  /\ pte' = [pte EXCEPT ![a][o] = None]
  /\ refs' = [refs EXCEPT ![pte[a][o]] = @ - 1]
  /\ UNCHANGED <<mod, fileVars, areaVars, fault, content, oops, hist>>

-----------------------------------------------------------------------------
(* A user touches a page that is not in the page table.                    *)
Touch(u, a, o) ==
  /\ fault[u] = None /\ area[a] # None /\ pte[a][o] = None
  /\ fault' = [fault EXCEPT ![u] = [area |-> a, at |-> o, stage |-> "enter"]]
  /\ faults' = [faults EXCEPT ![area[a]] = IF @ = 0 THEN 1 ELSE 2]
  /\ UNCHANGED <<mod, fileVars, areaVars, pte, pageVars, oops, torn, wrote>>

Faulting(u, stage) == fault[u] # None /\ fault[u].stage = stage
ReleasedUnder(u) == file[area[fault[u].area]] = "released"

(* mmap_fault after my_close.                                              *)
Oops(u) ==
  /\ fault[u] # None /\ ReleasedUnder(u)
  /\ oops' = TRUE
  /\ UNCHANGED <<mod, fileVars, areaVars, pte, fault, pageVars, hist>>

(* mmap_fault: no data, SIGBUS.  (The address is never above vm_end: the   *)
(* kernel has found the area by it.)                                       *)
NoData(u) ==
  /\ Faulting(u, "enter") /\ ~ReleasedUnder(u)
  /\ vmdata[fault[u].area] = None
  /\ fault' = [fault EXCEPT ![u] = None]
  /\ UNCHANGED <<mod, fileVars, areaVars, pte, pageVars, oops, hist>>

(* Mutant: the greeting is forgotten, as the TODO in its place suggests.   *)
NothingWritten(u) ==
  /\ Faulting(u, "enter") /\ ~ReleasedUnder(u)
  /\ vmdata[fault[u].area] # None
  /\ fault' = [fault EXCEPT ![u].stage = "sleep"]
  /\ UNCHANGED <<mod, fileVars, areaVars, pte, pageVars, oops, hist>>

(* strcpy into the page, at every fault, and msleep.                       *)
WriteGreeting(u) ==
  /\ Faulting(u, "enter") /\ ~ReleasedUnder(u)
  /\ LET g == vmdata[fault[u].area]
     IN g # None /\ content' = [content EXCEPT ![g] = "greeting"]
  /\ fault' = [fault EXCEPT ![u].stage = "sleep"]
  /\ UNCHANGED <<mod, fileVars, areaVars, pte, refs, oops, hist>>

(* Mutant: no get_page.                                                    *)
ReturnUncounted(u) ==
  /\ Faulting(u, "sleep") /\ ~ReleasedUnder(u)
  /\ LET a == fault[u].area  o == fault[u].at
     IN  pte' = [pte EXCEPT ![a][o] = vmdata[a]]
  /\ fault' = [fault EXCEPT ![u] = None]
  /\ UNCHANGED <<mod, fileVars, areaVars, pageVars, oops, hist>>

(* get_page and return; the kernel enters the page in the page table, or   *)
(* gives the reference back if another thread was faster.                  *)
ReturnPage(u) ==
  /\ Faulting(u, "sleep") /\ ~ReleasedUnder(u)
  /\ LET a == fault[u].area  o == fault[u].at
     IN \/ /\ pte[a][o] = None
           /\ pte' = [pte EXCEPT ![a][o] = vmdata[a]]
           /\ refs' = [refs EXCEPT ![vmdata[a]] = @ + 1]
        \/ /\ pte[a][o] # None
           /\ UNCHANGED <<pte, refs>>
  /\ fault' = [fault EXCEPT ![u] = None]
  /\ UNCHANGED <<mod, fileVars, areaVars, content, oops, hist>>

mmap_fault(u) == Oops(u) \/ NoData(u) \/ WriteGreeting(u) \/ ReturnPage(u)

(* A user writes to a page it has mapped.                                  *)
Write(a, o) ==
  /\ pte[a][o] # None
  /\ content' = [content EXCEPT ![pte[a][o]] = area[a]]
  /\ wrote' = wrote \cup {area[a]}
  /\ UNCHANGED <<mod, fileVars, areaVars, pte, fault, refs, oops, torn, faults>>

-----------------------------------------------------------------------------
(* rmmod: remove_proc_entry lets nobody in any more and releases the files *)
(* still open, one after the other; mappings and descriptors remain.       *)
Rmmod ==
  /\ mod \in {"live", "noentry"}
  /\ mod' = "removing"
  /\ torn' = (torn \/ \E f \in Files : file[f] = "open" /\ Mapped(f) # {})
  /\ UNCHANGED <<fileVars, areaVars, pte, fault, pageVars, oops, faults, wrote>>

CloseOpened(f) ==
  /\ mod = "removing" /\ file[f] = "open"
  /\ my_close(f, Nothing)
  /\ UNCHANGED <<mod, fd, areaVars, pte, fault, content, oops, hist>>

Removed ==
  /\ mod = "removing" /\ \A f \in Files : file[f] # "open"
  /\ mod' = "absent"
  /\ UNCHANGED <<fileVars, areaVars, pte, fault, pageVars, oops, hist>>

mmap_test_module_exit == Rmmod \/ Removed \/ \E f \in Files : CloseOpened(f)

Next ==
  /\ ~oops
  /\ \/ mmap_test_module_init \/ mmap_test_module_exit
     \/ \E f \in Files : my_open(f) \/ Close(f) \/ \E a \in Areas : my_mmap(f, a)
     \/ \E a \in Areas : Munmap(a) \/ \E b \in Areas : Fork(a, b)
     \/ \E a \in Areas, o \in Offsets : DontNeed(a, o) \/ Write(a, o)
     \/ \E u \in Users : mmap_fault(u) \/ \E a \in Areas, o \in Offsets : Touch(u, a, o)

Spec == Init /\ [][Next]_vars

-----------------------------------------------------------------------------
OptPages == Pages \cup {None}

TypeOK ==
  /\ mod \in {"absent", "live", "noentry", "removing"}
  /\ file \in [Files -> {"new", "open", "released"}] /\ fd \subseteq Files
  /\ data \in [Files -> OptPages]
  /\ area \in [Areas -> Files \cup {None}] /\ vmdata \in [Areas -> OptPages]
  /\ pte \in [Areas -> [Offsets -> OptPages]]
  /\ fault \in [Users -> {None} \cup
        [area : Areas, at : Offsets, stage : {"enter", "sleep"}]]
  /\ refs \in [Pages -> Nat]
  /\ content \in [Pages -> {"zero", "greeting"} \cup Files]
  /\ oops \in BOOLEAN /\ torn \in BOOLEAN
  /\ faults \in [Files -> 0 .. 2] /\ wrote \subseteq Files

Entries(g) == {e \in Areas \X Offsets : pte[e[1]][e[2]] = g}
Owners(g) == {f \in Files : data[f] = g}

(* get_page, free_page and the unmapping balance, over forks, removals and *)
(* two threads in one fault: a page has one reference for the file that    *)
(* owns it and one for each place it is mapped at, so that no page is free *)
(* while mapped and none is lost when everybody has gone.                  *)
PagesAccountedFor ==
  \A g \in Pages : refs[g] = Cardinality(Entries(g)) + Cardinality(Owners(g))

(* Through a mapping one sees the greeting or what was written through the *)
(* same file: no empty page, and nothing of another open file, though      *)
(* pages are reused and areas outlive descriptors, files and the module.   *)
OwnContent ==
  \A a \in Areas, o \in Offsets :
    pte[a][o] # None => content[pte[a][o]] \in {"greeting", area[a]}

(* Although every fault copies the greeting in again: as long as there has *)
(* been one fault on a file, what was written through it stays, through    *)
(* the closing of the descriptor, rmmod and insmod, whatever others do.    *)
WordsSurvive ==
  \A a \in Areas, o \in Offsets :
    pte[a][o] # None /\ faults[area[a]] = 1 /\ area[a] \in wrote
      => content[pte[a][o]] = area[a]

(* The page and the handler outlast the faults of an area that is still    *)
(* mapped after its descriptor is closed; only rmmod can take them away.   *)
OnlyRmmodTears == oops => torn

-----------------------------------------------------------------------------
(* The inductive invariant.  A page that belongs to a file is mapped by    *)
(* areas of that file only, and those that map a page are of one file.     *)
Ownership ==
  /\ \A f \in Files : data[f] # None =>
       file[f] = "open" /\ \A h \in Files : data[h] = data[f] => h = f
  /\ \A f \in fd : file[f] # "new"
  /\ \A a \in Areas : area[a] # None =>
       /\ file[area[a]] # "new"
       /\ file[area[a]] = "open" => vmdata[a] = data[area[a]]
  /\ \A a \in Areas, o \in Offsets : pte[a][o] # None =>
       /\ area[a] # None
       /\ \A f \in Files : data[f] = pte[a][o] => area[a] = f
       /\ \A b \in Areas, q \in Offsets : pte[b][q] = pte[a][o] => area[b] = area[a]

(* A fault stays in its area, and the page it is about to return has the   *)
(* greeting or its file's words as long as the file is not released.       *)
FaultsInAreas ==
  \A u \in Users : fault[u] # None =>
    LET a == fault[u].area IN
    /\ area[a] # None
    /\ fault[u].stage = "sleep" =>
         /\ vmdata[a] # None
         /\ file[area[a]] = "open" => content[vmdata[a]] \in {"greeting", area[a]}

(* Before the first fault on a file nothing of it is mapped or written;    *)
(* until the second, the first is under way or one page is mapped.         *)
FaultOn(u, f) == fault[u] # None /\ area[fault[u].area] = f
MappedTo(a, o, f) == pte[a][o] # None /\ area[a] = f

FirstFault ==
  \A f \in Files :
    /\ faults[f] = 0 => f \notin wrote
    /\ \A u \in Users : FaultOn(u, f) =>
         /\ faults[f] # 0
         /\ faults[f] = 1 => f \notin wrote /\ \A v \in Users : FaultOn(v, f) => u = v
    /\ \A a \in Areas, o \in Offsets : MappedTo(a, o, f) =>
         /\ faults[f] # 0
         /\ faults[f] = 1 =>
              /\ \A u \in Users : ~FaultOn(u, f)
              /\ \A b \in Areas, q \in Offsets : MappedTo(b, q, f) => a = b /\ o = q

(* An area keeps its file unless rmmod has released it.                    *)
ReleasedIsTorn ==
  /\ \A a \in Areas : area[a] # None /\ file[area[a]] = "released" => torn
  /\ mod = "removing" =>
       \A a \in Areas : area[a] # None /\ file[area[a]] = "open" => torn

MmapInv ==
  /\ TypeOK /\ PagesAccountedFor /\ Ownership /\ FaultsInAreas
  /\ OwnContent /\ FirstFault /\ WordsSurvive /\ ReleasedIsTorn /\ OnlyRmmodTears
=============================================================================
