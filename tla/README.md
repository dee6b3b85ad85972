# A TLA+ model of the kernel-module exercises

The repository is a set of small Linux kernel modules: threads that share a
bounded buffer, a keyboard interrupt with deferred work, a counter on a
workqueue, a character device, a page mapped to user space and two RAM disks.
None is long; nearly all of what can go wrong in them is concurrency: threads,
interrupt handlers, deferred work, system calls, `insmod` and `rmmod` running
against each other.  This directory models them in TLA+ and checks the models
with TLC.  Every safety property a passing run checks on a small instance is also
proved with TLAPS, for every value of the constants.

## 1. The parts of the system

| part | state it keeps | operations | hard behaviour | what makes it correct |
|---|---|---|---|---|
| `sbuf` library (`lab7/lab7_sbuf*.c`, `lab8/quiz*/sbuf.c`) | array, `front`, `rear`, semaphores `mutex`, `slots`, `items` | `sbuf_init`, `_deinit`, `_insert`, `_remove`, `_tryremove` | any threads in any statement; full and empty buffers; int wrap | one thread in the critical section, no token lost or invented, no item overwritten, FIFO, sleepers have a reason |
| `lab7_quiz2.c` | two threads, a loop counter each | `simple_init`, `producer`, `consumer`, `simple_exit` | failing `kthread_run` or `kmalloc`; `rmmod` while threads run | printed pairs agree, buffer ends as it began, both threads end |
| `lab7_quiz3.c` | producers, buffers, tally | the same, with random buffers and a polling consumer | random choice against polling order; the `-1` mark; `rmmod` while threads run | no item lost or doubled, every value once per producer, everybody finishes |
| `lab8/quiz2.c` | three flags, three tasklets, two threads | `irq_handler`, tasklets, polling loops, `simple_exit` | unchecked allocations; a press between a flag's read and its reset; `rmmod` at any time; ESC against `rmmod` | a press is good for one call, no set flag goes unserved, `rmmod` returns |
| `lab8/quiz3.c` | the same with work items and task states | the same with `schedule()` and `wake_up_process` | wake-ups that come too early | no thread lies down on a flag that is set |
| `lab9/*.c` | `main_number`, `main_number_atomic`, `my_mutex`, `mode` | `number_init`, `number_worker` | lost updates; `mode` written while works run; a mutex nobody initialised; `flush_work` against running works | protected works count every turn, `insmod` returns |
| `lab10/chardev.c` | `opened`, the registrations, the module's reference count | `device_open`, `device_release`, init, cleanup, `device_ioctl` | racing opens; partial failure of init; `rmmod` against `open`; bounds of memory areas | balanced references, code mapped while in use, all-or-nothing registration, segments measured right |
| `lab11/mmap.c`, `user.c` | one page for each open file, its references | `my_open`, `my_mmap`, `mmap_fault`, `my_close`, init, exit | close, fork, unmapping and `rmmod` while a fault sleeps; refaults overwrite the page | a page lives as long as its mappings, and shows its own file's content |
| `sbull.c`, `sbull2.c` | an array, or a list of blocks | set-up, open, release, removal; `submit_bio`: bounds check, lookup, `list_add_tail`, `memcpy` | concurrent bios without a lock, segments of any length, failing `kmalloc`, failing set-up, `rmmod` of an open device | what was written stays and is read back, in its place; memory outlives the bios and is freed once |
| `quiz1.c`, `quiz2.c` | a list, a hash table | filled and freed at load and unload | none: one thread | |
| lab7 quiz1, lab8 quiz1, user programs, build files | none | | none | |

How they interact: the programs of lab7 and lab8 call the `sbuf` library by
function call from kernel threads; in lab8 the interrupt handler reaches the
threads only through deferred work, three flags and (quiz3) wake-ups; in every
module `insmod` and `rmmod` run beside the threads, workers or processes.  The
programs do not interact with each other.

## 2. Modules

| module | models | relation |
|---|---|---|
| `BoundedFifo` | what a bounded buffer promises: two histories, items come out in order | abstract |
| `Sbuf` | the library, statement by statement; `SbufSpec` adds callers that do anything | implements `BoundedFifo` |
| `SbufProofs` | theorems about `Sbuf` | |
| `Lab7Quiz2`, `Lab7Quiz3` | the two programs of lab7 | EXTEND `Sbuf` |
| `Lab7Quiz2Proofs`, `Lab7Quiz3Proofs` | theorems about each | EXTEND `SbufProofs` as well |
| `Lab8` | what the two programs of lab8 share: interrupt, deferred work, flags, loops, `simple_exit` | EXTENDS `Sbuf` |
| `Lab8Quiz2`, `Lab8Quiz3` | polling threads; threads asleep in `schedule()` | EXTEND `Lab8` |
| `Lab8Proofs` | theorems about both programs at once; `Lab8Spec`, which both implement | EXTENDS `Lab8`, `SbufProofs`; INSTANCEs both |
| `ExactCounter` | a counter that loses no addition | abstract |
| `Lab9Counter` | `number_init` and `number_worker` in every mode, of `quiz3.c` and of `quiz2.c` | implements `ExactCounter` while no work is unprotected |
| `Lab9Proofs` | theorems about `Lab9Counter` | |
| `Chardev` | open, ioctl, release, registration, unregistration, module references | EXTENDS `MemoryAreas` |
| `ChardevProofs` | theorems about `Chardev` | |
| `MemoryAreas` | what `device_ioctl` counts of an address space, and the same over sets of addresses | |
| `MmapDevice` | the mmap device and the processes that map it | |
| `MmapProofs` | theorems about `MmapDevice` | |
| `Sbull` | both RAM disks: set-up, open and release, bios, removal | |
| `SbullProofs` | theorems about `Sbull` | |
| `MC...` | small instances of the above | |

### Conventions

* A variable has the name of the C variable or field it stands for.  Where a
  function is at is a stage variable (`pc` in the library, `loc` in the
  programs, `stage` in `Sbull`, `module`/`mod` for `insmod` and `rmmod`); the
  comment at the head of each module says which statement a stage stands for.
* An action is one access to shared memory with the local work around it.
  `x++` on a shared variable is a load and a store; an array access after `++`
  is a step after the `++`.  `list_add_tail` is three steps: `Allocate` ends with
  its load of `head->prev`, `Link` stores into `head->prev` and the new block's two
  pointers, `Publish` stores into `prev->next`; `next` and `back` are the pointers
  of the blocks and of the head, and `FreeList` does `list_del` on them with the
  `tmp` and `next` (here `walk`) of `list_for_each_entry_safe`.  A `memcpy` is one
  step.
* Semaphores, mutexes, tasklets, work items, `wake_up_process`, `flush_work`,
  `kthread_stop`, module references, page references, page tables and the block
  layer are not in the
  repository.  They are modelled from how the code uses them: `down` waits for
  a positive count; a tasklet or work item scheduled again while pending runs
  once; `wake_up_process` only undoes `TASK_INTERRUPTIBLE`; `kthread_stop` sets
  a bit, wakes, and waits for the thread to end.
* Failures the code can meet are choices: `kmalloc`, `vmalloc`, a page, a disk,
  `request_irq`, `create_workqueue`, `kthread_run` and each registration call may
  fail.  An array `sbuf_init` did not get is noticed at its first access only,
  which kills the thread while it holds the mutex.  Lab8 looks at neither
  allocation: without a `sbuf_t` `insmod` itself oopses, and a workqueue that
  could not be created makes the next key, or `simple_exit`, use a null pointer.  `kthread_run`'s result is
  unused in the code, so a thread may stay `unborn` without anyone noticing.
* Undefined behaviour is a choice among its outcomes, or the end of the
  behaviour: an uninitialised `val` is any of `FirstVals`; a wake-up or stop of
  a thread that has ended may go unnoticed or be an oops; after `kfree` of what
  threads still use, or of the module itself, the model follows them no further
  (stages `arrayless`, `gone`, `failed`, `oops`; in `MmapDevice`, `Sbull` and
  `Lab9Counter` a flag `oops`, after which nothing happens any more).
* An operator whose comment says *Mutant* is no part of a specification.  It is
  a plausible bug; put in place of the definition it follows, it makes the
  property named in `PROJECT.json` fail.

## 3. What the runs check

| run | instance | shows |
|---|---|---|
| `sbuf` | 3 threads, 1 buffer of 2 slots, 4 insertions | `slots` and `items` always equal content less calls under way; live items in their cells; sleepers have a reason; refinement of `BoundedFifo` |
| `sbuf_wrap` (violation) | 2 threads, 3 slots, `INT_MAX` = 3 | after `INT_MAX` insertions `rear` is negative, so is the C remainder, and the index leaves the array, against `sbuf.h:7` |
| `lab7_quiz2` | its own sizes: 30 items, 3 slots | the consumer's counter equals the item on every turn; nothing left over; every thread ends, or dies at an array that was not allocated, or sleeps because its partner is missing or dead, unless `rmmod` comes first |
| `lab7_quiz3` | 2 producers of 2 items, 2 one-slot buffers, 3-bit random ints | for every set of values, insertions begun equal copies noted, buffered and in hand, also when an array is missing; the index is in range for `INT_MIN` too; the tally; everybody finishes whatever the random numbers |
| `lab8_quiz2` | 1 slot, 2 presses of F2 and F3, one ESC | a press is never good for two calls; items are consecutive across the wrap at `INT_MAX`; `sbufs` is freed under a running thread only after ESC; a set flag is served, unless its thread ended, was killed at a missing array or sleeps in `down()`; `rmmod` hangs only on a thread asleep in `down()` for ever |
| `lab8_quiz3` | 1 slot, 2 presses of F2, one of F3 and ESC | a thread awake when its flag, or `exit_flag`, is set acts on it |
| `lab8_quiz3_stop` (violation) | the same | `kthread_stop` between the loop condition and `set_current_state` is missed: the thread sleeps and `rmmod` waits for ever, against the message after the call |
| `lab9_counter` | 3 works of 2 turns, modes 1 to 3 and another one (0 and all others share a branch), one write to `mode` | one owner of `my_mutex` whichever branches lock it; no store from a stale copy; the print shows every turn of the works that counted in that number; unprotected works keep at least two additions; protected ones refine `ExactCounter`; `insmod` returns, or a mutex is contended that the first `mode` did not have initialised |
| `chardev` | 3 processes, 4 opens, 16 address spaces of 3 to 5 areas | module references balance; code stays mapped under every process in it; a failed init leaves nothing registered; the guard admits one process if calls do not overlap; totals and segments printed by ioctl agree with the memory mapped |
| `chardev_next_caller` (violation) | 2 processes | a lost update of `opened` refuses every later open, against "We're now ready for our next caller" |
| `sbull` | 2 processes, 3 bios (2 if the module is removed), 2 pages of 2 sectors, both drivers | finished writes stay and are read back, concurrent bios or not, unless bios overlap, two of them add a block at once, memory runs out or segments are irregular (regular ones are equally long in `sbull`, whole aligned pages in `sbull2`); regular bios never misplace data, and none goes beyond the device; the list is complete and ends at its tail, also while it is freed; memory outlives the bios, in `sbull2` only if the device is closed; removal frees everything, and nothing twice after a successful set-up |
| `mmap` | 2 files, 2 areas of 2 pages, 2 threads, 2 pages of memory | a page's references are those of its owner and its places in page tables; a mapping shows the greeting or what was written through its own file; what was written survives if there was one fault only; a fault outlives its page only through `rmmod` |

### Bounds, and why they are enough

* `MaxInserts`, `MaxOpens`, `MaxPresses`, `MaxBios`, `RemovalBios` and
  `MaxChanges` bound the length of a behaviour and appear in guards only. 4
  insertions send the ring of 2 slots round twice; a one-slot buffer is full
  after one insertion, so 2 presses of F2 put the producer to sleep; 2 presses
  of one key coalesce or race with the reset of its flag; 3 bios are two that
  race and one that finds the result, and 2 are what can meet the list as it is
  freed. One write to `mode` falls between any two of its reads, and makes two
  groups of works.
* Each file of `MmapDevice` is opened once; two areas are a mapping and its fork,
  or one of each file; with two pages of memory, a page given back too early is
  given out again.
* 3 threads in the library are two in one role and one in the other; 2 works
  would show a lost update, 3 show that more are lost; 3 processes are two that
  race in `device_open` and a third that meets the result.
* Address spaces have pages of two units, so that a segment's bound may lie
  inside a page, at its edge, at the edge of a neighbour, or at its other bound.
* `IntMax` is above every counter except where a wrap is the question.
* PAGE is 2 sectors in place of 8: bios of whole pages, of halves, and with
  segments that straddle pages all occur.

### Fairness

Liveness assumes weak fairness of: the steps of `insmod` (and of `rmmod` once
called), every thread that can move, every deferred work.  The kernel gives all
of these: the scheduler does not starve a runnable thread, softirqs and workers
run.  Weak fairness suffices at a semaphore because every thread makes finitely
many calls in these instances, and the kernel's semaphores serve waiters in
order anyway.  Nobody has to press a key, call `rmmod` or open a device, and the
random numbers of `lab7_quiz3.c` owe nobody anything.

`CHECK_DEADLOCK FALSE` is set where the program really may stop: a thread asleep
on a buffer its partner will never touch (the partner could not be created), a
key that is not pressed, the bios or files having run out, `insmod` having
returned.

## 4. What is proved

Each theorem holds for every value of the constants that the `ASSUME` of its
module allows; what it assumes beyond that is said here.  The inductive
invariants are conjunctions of named parts.  All were checked by TLC on the
instances of section 3 before they were proved.

### The library: `SbufProofs`

For any finite set of threads, any buffers, slots and values:

* `SbufTypeCorrect`: types, without any bound.
* `MutualExclusion`, `TokensConserved`, `NoOverwrite`, `FirstInFirstOut`,
  `CommentsHold`, `SleepHasReason`: the invariants of run `sbuf`.
* `SbufImplementsFifo`: `SbufSpec` implements `BoundedFifo!Spec`.

All but the first assume `MaxInserts <= IntMax`: below `INT_MAX` insertions the
ring counters do not wrap.  Run `sbuf_wrap` shows the assumption is needed.

The inductive invariant is `SbufInv`.  FIFO order needs that live items are
intact; that needs that a thread about to store has a cell no live item is in,
which is `TokenAccounting` (a reserved slot is counted in `slots`); and that
the cell is the next one, which is `IndexAgreement`; and both need that only one
thread at a time is between `down(mutex)` and `up(mutex)`, which is
`CriticalSection`.  The semaphore equations are sums over the sets of threads at
given stages, so the proof rests on lemmas about how the cardinality of such a
set changes when one thread moves.

### The programs on top of it

Each program is first shown to be a caller of the library: `Spec => SbufSpec`,
step by step.  Every theorem of `SbufProofs` then holds of the program as well,
and the invariant of the program need only say where its threads are.

`Lab7Quiz2Proofs` (any number of items and slots):

* `ModuleUsesTheLibrary`: `Spec => SbufSpec`.
* `ConsumerIsInStep` and `BufferIsLeftEmpty` (below `INT_MAX` insertions): the
  counter the consumer prints is the item it got, on every turn, and a buffer
  that both threads are done with is empty.

`Lab7Quiz2Inv` ties each thread's loop counter to the library's histories
(`TurnsCounted`), says that the item inserted n-th is n (`ItemsCount`) and that
the consumer's `item` is the one removed last (`LastRemoved`).  FIFO order then
makes counter and item the same number.

`Lab7Quiz3Proofs` (any number of producers, buffers, slots and items, any random
numbers; the number of buffers divides 2^31 as in the code, and insertions stay
below `INT_MAX`):

* `RandomCallersUseTheLibrary`: `Spec => SbufSpec`.
* `RandomIndexesStayInside`: `IndexTypeOK`, whose point is that `% NUM_SBUF` of a
  random int, and of its negation, is an index of the array.
* `ItemsAreConserved`, `CountsAreComplete`: `EveryItemSomewhere` and
  `EveryValueFromEveryProducer`.

Conservation is proved for every set of values, since the sum over all of them
is what the full tally needs: a step moves one (thread, turn) from one of the
three places to the next, or nothing.  When the consumer has noted
`ITEMS` items, nothing is left elsewhere, and each producer inserts each value
once; hence the full tally.

`Lab8Proofs` (any number of presses, slots and ints; both programs):

* `ProgramsUseTheLibrary`: both programs implement `SbufSpec`.
* `Lab8TypeCorrect`, `PressesAreNeverDoubled`, `ExitWaitsUnlessEscaped`:
  `Lab8TypeOK`, `CallsAnswerPresses`, `FreedUnderNobody`.
* `ItemsComeInSequence` (below `INT_MAX` insertions; the *values* may wrap):
  `ConsecutiveItems`.

The two programs wait for a flag in different ways.  `Lab8Spec` lets a thread
that is not in a call go anywhere in its loop (`Wander`); `Quiz2!Spec` and
`Quiz3!Spec` implement it, and `Lab8Inv` is proved of it once.  The invariant
counts, for each key, calls begun, a flag not yet answered and deferred work not
yet run: together they are at most the presses (`Answered`).  A flag is reset
only after the call it caused, so during the call it is counted already: hence
`loc[t] \notin Calling` in `Owed`, where a thread killed in its call is still in it.  `ExitOrder` follows `simple_exit`
thread by thread.

### The counter: `Lab9Proofs`

For any finite set of works, any number of turns, any values of `mode` and any
number of writes to it while the works run:

* `Lab9Invariance`: the inductive `Lab9Inv` itself, checked by run `lab9_counter`.
* `MutexExcludes`: of the works that lock, only the owner is between lock and
  unlock, although some lock for every turn and some once.
* `NoStaleStore`: as long as no work took the unprotected branch, the copy a work
  adds to is current.
* `SafeModesExact`: until then, the two numbers together implement `ExactCounter`.
* `ProtectedTurnsAllPrinted`: the number printed is `LOOPS` for each of the works
  that counted in it, if none was unprotected (`PrintsEveryTurn`).
* `UnsafeLosesNotAll`: with unprotected works it is at most that, at least two
  when they take two turns or more, and exact when there is one work only
  (`UnsafeStillCounts`).

A work stays in the branch it took (`BranchesApart`), whatever `mode` is now; so
a work between the load and the store either holds the mutex, and then no other
store comes in between, or is unprotected, and then nothing is claimed.  That a
store belongs to a turn still to be counted (`StoreHasTurn`) is what makes it one
step of the abstract counter.  For the print, each number is the cardinality of a
set of (work, turn) pairs (`Turns`); a protected store adds one pair, and when the
works are done the set is a product.  That two additions survive without
protection is `TwoSurvive`: a work that has taken a turn loads at least one
afterwards, so whoever stores last in its second turn or later stores at least
two.

### The character device: `ChardevProofs`

For any finite set of processes, any number of opens and any address spaces:

* `ChardevTypeCorrect`, `RegistrationIsAtomic` (`AllOrNothing`),
  `CodeOutlivesProcesses` (`CodeStaysMapped`), `ReferencesBalanced`
  (`ReferencesBalance`), `GuardIsExactUnraced` (`GuardWorksUnraced`).
* `IoctlReportsMemory` (`AddressSpaceReported`).

`ChardevInv` adds `Registered`, which ties what is registered to the statement
`insmod` or `rmmod` is at, and `UnracedHandlers`, which says of `opened` and of
the copies loaded from it what they are while no two handlers have overlapped.
The references are a sum over processes by stage, as in the library.

For the ioctls, `Answered` says that an answer about to be printed is what the
walk over the areas worked out.  That this is right assumes of an address space
what the kernel sees to (`LaidOut`): areas lie apart, in order, none at address
0.  The walk is a fold of the community modules.  Its unfolding over the prefixes
is proved in first order (see the RAM disks below for the induction); after
n areas, a segment's size is the number of addresses covered by those that
passed, its start is not above and its end not below any of them (`Measuring`).

### The mmap device: `MmapProofs`

For any finite sets of files, areas, offsets and pages:

* `MmapTypeCorrect`, `PagesAreAccountedFor` (`PagesAccountedFor`),
  `MappingsShowOwnContent` (`OwnContent`), `WordsOutliveOthers`
  (`WordsSurvive`), `FaultsFindTheirFile` (`OnlyRmmodTears`).

A page's references are the cardinality of its entries in page tables and of its
owners, both disjoint unions over areas and files; a page with an owner or an
entry is thus not free, and no file is given another's page (`Ownership`).  Content follows: a fault
under way belongs to an area in use (`FaultsInAreas`), a place in a page table
shows its own file's page, and until a second fault it shows what was written
(`FirstFault`).  A file goes away under a fault only if `rmmod` released it
(`ReleasedIsTorn`).

### The RAM disks: `SbullProofs`

For any finite set of submitters, any size of device and block, any bios within
the device whose segments are adjacent, both drivers, any interleaving with
set-up, opens, releases and removal:

* `SbullBasics`: the inductive `Basics`; `SbullTypeCorrect` follows.
* `MemoryLasts` (`MemoryOutlivesBios`), `DataInPlace` (`NothingMisplaced`),
  `ListHoldsAll` (`ListIsComplete`), `NothingLeaks` (`RemovalFreesAll`).
* `WritesLast` (`WritesStay`), `ReadsAreRight` (`ReadsReturnLastWrite`).

Four invariants stand on each other.  `Basics` holds in all circumstances,
races included: stages agree with the state of the module (`Lifecycle`), a block
that is being added is on no list and `next` only goes from older blocks to newer
ones or to the head (`Shape`), so that every walk ends.  `Placed` says
that a value is stored at the sector it is meant for.  `InOrder` holds while no
two bios add a block at the same time: the list runs through all its blocks in
ascending order, each sector has at most one, and the freeing loop's saved
pointer is the next block.  `DataKept` holds while the bios are orderly (no
overlap, no race, no lack of memory, regular): outside of what is being written,
each sector holds what the last finished write left, and inside, each bio under
way has done its part (`Progress`).  A race spoils `InOrder` for good, which is why it and
what rests on it are conditional, exactly as the properties of the run are.

The list is walked by a recursive function.  What it returns is shown by
first-order induction: if some block were a counterexample there would be a least
one (`LeastOf`, from the well-foundedness of `<` on the naturals), and the walk
from it goes on at a block for which the claim holds.

### Only model-checked

* Liveness: `ThreadsFinish`, `EverybodyFinishes`, `FlagIsServed`,
  `RmmodReturns`, `AwakeThreadServes`, `EscEndsTheAwake`, `InitReturns`.
  The prover has no rules for fairness and `ENABLED` that reach these.
* The runs that find a violation, by their nature.

## 5. What the model shows about the code beyond the runs

Disagreements that are runs are under `findings` in `PROJECT.json`.  Others came
up while modelling and are recorded here.  The models contain them, and where
nothing in the repository claims otherwise the properties except them by name
(`raced`, `Touched`, `Orderly`, `torn`, `botched`, a page's first fault, a thread
awake): such a property shows that the rest of the behaviour is sound, not that
the exception cannot happen.  The notes under `hazards` say so line by line.

* `lab7_quiz2.c:35` says "insert 0-29 integers"; the loop inserts 1..30.
* `simple_exit` of lab7 frees the array with the threads still running: the
  `kthread_stop` calls are commented out.
* `lab9/quiz2.c:13` documents "3: atomic operations" and line 79 prints it, but
  its `number_worker` has no case 3: mode 3 runs the unprotected loop.
* In `lab9/quiz3.c`, writing `mode` while the works run can print a number none
  of the works counted in, and lets works wait for a mutex that is all zeros.
* lab8 uses `kmalloc`'s and `create_workqueue`'s results unseen; with the array
  missing, F2 kills the producer while it holds the mutex.
* In `lab8/quiz2.c` and `quiz3.c`, `simple_exit` takes a set `exit_flag` for
  "pthread already stopped" and frees `sbufs` although the thread may still be
  in its loop, in `msleep` or asleep in `down()`.
* In `lab8/quiz3.c` the handler wakes a thread when its work is only queued; a
  thread that lies down before the work sets the flag sleeps on with the flag
  set, until the next key.  A key pressed before the threads exist wakes a null
  pointer, one pressed after ESC a thread that has ended.
* `device_open` lets two processes in when both test `opened` first.
* `device_ioctl` counts an area that merely touches a segment (`<=` and `>=` at
  both ends), and no code at all when `mprotect` has split the code's area.
* `mmap_fault` copies the greeting at every fault and takes no notice of the
  offset: the second page of a mapping is the first one again, and touching it,
  or touching the page in a forked process, overwrites what was written.
  `user.c` prints "changed message" without having changed it.
* `rmmod` of the mmap device or of a RAM disk is not held off by users, as neither
  `proc_ops` nor `sbull_ops` names an owner.
* After a failed `add_disk`, `sbull_exit` frees the array a second time; after a
  failed `blk_alloc_disk`, that of `sbull2.c` deletes a null disk.
* `sbull_xfer_bio` uses the length of the first segment for every segment.
  Two first writes at the same time can lose a block of `sbull2.c`, and with it
  every block added later: `head->prev` is then off the list a walk sees.

## 6. Not modelled, and why

* The list and hash table of `quiz1.c` and `quiz2.c`: one thread fills and frees
  them at `insmod` and `rmmod` with the kernel's own macros; there is no step
  another can come between, and no failure the code handles.
* lab7 quiz1 (a thread that sleeps until it is stopped), lab8 quiz1 (a handler
  that logs), the user programs of lab10 (one `ioctl` each): no state of their own.
* What a thread does in freed memory, and everything after an oops.
* Which CPU runs a work, and times.  Private mappings of the mmap device
  (`user.c` maps shared).  Memory-ordering effects weaker than interleaving.

## 7. Plan

Done: every component with a state that several actors share is modelled, and
every safety property the passing runs check is a theorem.

To come: an abstract disk that both RAM disks implement while the bios are
orderly; shorter proofs in `SbullProofs`, where steps of different actions share
arguments that could be lemmas.
