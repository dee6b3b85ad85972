-------------------------------- MODULE Sbuf --------------------------------
(***************************************************************************)
(* The shared bounded buffer library: sbuf.c and sbuf.h, of which the      *)
(* repository keeps four copies (lab7_sbuf.c, lab7_sbuf3.c and the two of  *)
(* lab8), identical in everything modelled here; only lab7_sbuf3.c has     *)
(* sbuf_tryremove.                                                         *)
(*                                                                         *)
(* A thread inside a library call is at one of the stages below, each the  *)
(* statement it executes next:                                             *)
(*                                                                         *)
(*   sbuf_insert            sbuf_remove / sbuf_tryremove                   *)
(*     ins_wait   down(slots)   rem_wait   down(items)                     *)
(*                              try_wait   down_trylock(items)             *)
(*     ins_lock   down(mutex)   rem_lock   down(mutex)                     *)
(*     ins_bump   ++rear        rem_bump   ++front                         *)
(*     ins_store  buf[..] = x   rem_load   x = buf[..]                     *)
(*     ins_unlock up(mutex)     rem_unlock up(mutex)                       *)
(*     ins_post   up(items)     rem_post   up(slots)                       *)
(*                                                                         *)
(* "idle" is outside the library.  The operations are actions that the     *)
(* modules of the lab programs use as they are; SbufSpec closes them with  *)
(* callers that make any call at any time.                                 *)
(***************************************************************************)
EXTENDS Integers, Sequences, FiniteSets

CONSTANTS
  Threads,      \* the kernel threads
  Bufs,         \* the sbuf_t objects
  Items,        \* the int values that callers insert
  Garbage,      \* content of a cell nobody wrote, or of foreign memory
  SBUFSIZE,     \* n, the number of slots of every buffer
  IntMax,       \* INT_MAX
  MaxInserts    \* bound of the model: insertions per buffer

ASSUME SbufAssumption ==
  /\ IsFiniteSet(Threads)
  /\ Bufs # {}
  /\ SBUFSIZE \in Nat \ {0}
  /\ IntMax \in Nat
  /\ MaxInserts \in Nat

VARIABLES
  buf, front, rear,        \* fields of sbuf_t, by buffer
  mutex, slots, items,     \* counts of its three semaphores, by buffer
  pc, on, item,            \* by thread: stage, buffer (sp), local item
  inserted, removed        \* by buffer: history of stores and of loads

data == <<buf, front, rear>>
sems == <<mutex, slots, items>>
args == <<on, item>>
hist == <<inserted, removed>>
sbufVars == <<data, sems, pc, args, hist>>

-----------------------------------------------------------------------------
(***************************************************************************)
(* C arithmetic.  The kernel is built with -fno-strict-overflow, so an int *)
(* wraps; the remainder takes the sign of its left operand.                *)
(***************************************************************************)
Inc(i) == IF i = IntMax THEN -IntMax - 1 ELSE i + 1

Cell(i) == IF i >= 0 THEN i % SBUFSIZE ELSE -((-i) % SBUFSIZE)

Cells == 0 .. SBUFSIZE - 1

EmptyMark == -1            \* what sbuf_tryremove returns on an empty buffer

(* Mutant: sema_init(&sp->slots, n + 1).                                   *)
OneSlotTooMany == SBUFSIZE + 1

InitialMutex == 1
InitialSlots == SBUFSIZE

(* sbuf_init, run on every buffer before any thread is started.            *)
SbufInit ==
  /\ buf = [b \in Bufs |-> [c \in Cells |-> Garbage]]
  /\ front = [b \in Bufs |-> 0]
  /\ rear = [b \in Bufs |-> 0]
  /\ mutex = [b \in Bufs |-> InitialMutex]
  /\ slots = [b \in Bufs |-> InitialSlots]
  /\ items = [b \in Bufs |-> 0]
  /\ pc = [t \in Threads |-> "idle"]
  /\ on = [t \in Threads |-> CHOOSE b \in Bufs : TRUE]
  /\ item = [t \in Threads |-> Garbage]
  /\ inserted = [b \in Bufs |-> << >>]
  /\ removed = [b \in Bufs |-> << >>]

-----------------------------------------------------------------------------
(* The kernel's counting semaphore: down() blocks while the count is 0.    *)
Down(sem, b) == sem[b] > 0 /\ sem' = [sem EXCEPT ![b] = @ - 1]
Up(sem, b) == sem' = [sem EXCEPT ![b] = @ + 1]

Go(t, from, to) == pc[t] = from /\ pc' = [pc EXCEPT ![t] = to]

(* Calls.  The caller's value travels in item[t], and so does the result.  *)
CallInsert(t, b, v) ==
  /\ Go(t, "idle", "ins_wait")
  /\ on' = [on EXCEPT ![t] = b]
  /\ item' = [item EXCEPT ![t] = v]
  /\ UNCHANGED <<data, sems, hist>>

CallRemove(t, b) ==
  /\ Go(t, "idle", "rem_wait")
  /\ on' = [on EXCEPT ![t] = b]
  /\ UNCHANGED <<data, sems, item, hist>>

CallTryRemove(t, b) ==
  /\ Go(t, "idle", "try_wait")
  /\ on' = [on EXCEPT ![t] = b]
  /\ UNCHANGED <<data, sems, item, hist>>

(* down(&sp->slots): wait for a free slot.                                 *)
DownSlots(t) ==
  /\ Go(t, "ins_wait", "ins_lock")
  /\ Down(slots, on[t])
  /\ UNCHANGED <<data, mutex, items, args, hist>>

(* down(&sp->items), or down_trylock when the count is positive.           *)
DownItems(t) ==
  /\ Go(t, "rem_wait", "rem_lock") \/ Go(t, "try_wait", "rem_lock")
  /\ Down(items, on[t])
  /\ UNCHANGED <<data, mutex, slots, args, hist>>

(* Mutant: rc is not looked at, the stale local is returned.               *)
TryEmptyStale(t) ==
  /\ Go(t, "try_wait", "idle")
  /\ items[on[t]] = 0
  /\ UNCHANGED <<data, sems, args, hist>>

(* down_trylock fails: sbuf_tryremove returns -1 and touches nothing.      *)
TryEmpty(t) ==
  /\ Go(t, "try_wait", "idle")
  /\ items[on[t]] = 0
  /\ item' = [item EXCEPT ![t] = EmptyMark]
  /\ UNCHANGED <<data, sems, on, hist>>

(* Mutant: down(&sp->mutex) left out.                                      *)
NoLock(t) ==
  /\ Go(t, "ins_lock", "ins_bump") \/ Go(t, "rem_lock", "rem_bump")
  /\ UNCHANGED <<data, sems, args, hist>>

Lock(t) ==
  /\ Go(t, "ins_lock", "ins_bump") \/ Go(t, "rem_lock", "rem_bump")
  /\ Down(mutex, on[t])
  /\ UNCHANGED <<data, slots, items, args, hist>>

(* sp->buf[(++sp->rear) % (sp->n)] = item, in two steps: index, then cell. *)
BumpRear(t) ==
  /\ Go(t, "ins_bump", "ins_store")
  /\ rear' = [rear EXCEPT ![on[t]] = Inc(@)]
  /\ UNCHANGED <<buf, front, sems, args, hist>>

(* Mutant: rear++ in place of ++rear, the cell of the old index.           *)
StorePostIncrement(t) ==
  /\ Go(t, "ins_store", "ins_unlock")
  /\ buf' = [buf EXCEPT ![on[t]][Cell(rear[on[t]] - 1)] = item[t]]
  /\ inserted' = [inserted EXCEPT ![on[t]] = Append(@, item[t])]
  /\ UNCHANGED <<front, rear, sems, args, removed>>

(* A store outside the array leaves the array alone.                       *)
Store(t) ==
  LET b == on[t]
      c == Cell(rear[b])
  IN /\ Go(t, "ins_store", "ins_unlock")
     /\ buf' = IF c \in Cells THEN [buf EXCEPT ![b][c] = item[t]] ELSE buf
     /\ inserted' = [inserted EXCEPT ![b] = Append(@, item[t])]
     /\ UNCHANGED <<front, rear, sems, args, removed>>

(* item = sp->buf[(++sp->front) % (sp->n)], likewise.                      *)
BumpFront(t) ==
  /\ Go(t, "rem_bump", "rem_load")
  /\ front' = [front EXCEPT ![on[t]] = Inc(@)]
  /\ UNCHANGED <<buf, rear, sems, args, hist>>

(* A load outside the array may yield any value.                           *)
LoadedValues(b, c) == IF c \in Cells THEN {buf[b][c]} ELSE Items \cup {Garbage}

Load(t) ==
  LET b == on[t] IN
  /\ Go(t, "rem_load", "rem_unlock")
  /\ \E v \in LoadedValues(b, Cell(front[b])) :
       /\ item' = [item EXCEPT ![t] = v]
       /\ removed' = [removed EXCEPT ![b] = Append(@, v)]
  /\ UNCHANGED <<data, sems, on, inserted>>

Unlock(t) ==
  /\ Go(t, "ins_unlock", "ins_post") \/ Go(t, "rem_unlock", "rem_post")
  /\ Up(mutex, on[t])
  /\ UNCHANGED <<data, slots, items, args, hist>>

(* up(&sp->items): announce the item; sbuf_insert returns.                 *)
UpItems(t) ==
  /\ Go(t, "ins_post", "idle")
  /\ Up(items, on[t])
  /\ UNCHANGED <<data, mutex, slots, args, hist>>

(* Mutant: up(&sp->slots) left out.                                        *)
SlotForgotten(t) ==
  /\ Go(t, "rem_post", "idle")
  /\ UNCHANGED <<data, sems, args, hist>>

(* up(&sp->slots): announce the slot; the remove call returns item[t].     *)
UpSlots(t) ==
  /\ Go(t, "rem_post", "idle")
  /\ Up(slots, on[t])
  /\ UNCHANGED <<data, mutex, items, args, hist>>

(* One step of thread t inside the library.                                *)
Step(t) ==
  \/ DownSlots(t) \/ DownItems(t) \/ TryEmpty(t) \/ Lock(t)
  \/ BumpRear(t) \/ Store(t) \/ BumpFront(t) \/ Load(t)
  \/ Unlock(t) \/ UpItems(t) \/ UpSlots(t)

-----------------------------------------------------------------------------
(***************************************************************************)
(* Callers that make any call at any time, up to MaxInserts insertions     *)
(* into each buffer (an insertion under way counts).                       *)
(***************************************************************************)
At(b, stages) == {t \in Threads : on[t] = b /\ pc[t] \in stages}
Count(b, stages) == Cardinality(At(b, stages))

Reserved == {"ins_lock", "ins_bump", "ins_store"}    \* slot taken, no item yet
Unstored == {"ins_wait"} \cup Reserved
Unannounced == {"ins_unlock", "ins_post"}            \* stored, items not upped
Claimed == {"rem_lock", "rem_bump", "rem_load"}      \* item taken, not loaded
Unreturned == {"rem_unlock", "rem_post"}             \* loaded, slots not upped
Critical == {"ins_bump", "ins_store", "ins_unlock",
             "rem_bump", "rem_load", "rem_unlock"}   \* mutex held
Waiting == {"ins_wait", "rem_wait"}

Stored(b) == Len(inserted[b])
Loaded(b) == Len(removed[b])

SomeCall(t, b) ==
  \/ /\ Stored(b) + Count(b, Unstored) < MaxInserts
     /\ \E v \in Items : CallInsert(t, b, v)
  \/ CallRemove(t, b)
  \/ CallTryRemove(t, b)

SbufNext == \E t \in Threads : Step(t) \/ \E b \in Bufs : SomeCall(t, b)

SbufSpec == SbufInit /\ [][SbufNext]_sbufVars

-----------------------------------------------------------------------------
Stages == {"idle", "try_wait"} \cup Waiting \cup Reserved \cup Unannounced
            \cup Claimed \cup Unreturned

Values == Items \cup {Garbage, EmptyMark}
Ints == -IntMax - 1 .. IntMax

(* Types of the fields of sbuf_t and of the locals of the two functions.   *)
SbufTypeOK ==
  /\ buf \in [Bufs -> [Cells -> Values]]
  /\ front \in [Bufs -> Ints] /\ rear \in [Bufs -> Ints]
  /\ mutex \in [Bufs -> Nat] /\ slots \in [Bufs -> Nat] /\ items \in [Bufs -> Nat]
  /\ pc \in [Threads -> Stages]
  /\ on \in [Threads -> Bufs]
  /\ item \in [Threads -> Values]
  /\ inserted \in [Bufs -> Seq(Values)] /\ removed \in [Bufs -> Seq(Values)]

(* "mutex protects accesses to buf" (sbuf.h:8): at most one thread is      *)
(* between down(mutex) and up(mutex), and the mutex is free when none is.  *)
CriticalSection ==
  \A b \in Bufs : mutex[b] + Count(b, Critical) = 1

(* "slots counts available slots" and "items counts available items"       *)
(* (sbuf.h:9-10): each semaphore is what the buffer's content and the      *)
(* calls under way leave of it, so no interleaving of sbuf_insert,         *)
(* sbuf_remove and sbuf_tryremove leaks or invents a token.                *)
SlotAccounting ==
  \A b \in Bufs :
    slots[b] = SBUFSIZE - (Stored(b) - Loaded(b))
                 - Count(b, Reserved) - Count(b, Unreturned)
ItemAccounting ==
  \A b \in Bufs :
    items[b] = (Stored(b) - Loaded(b))
                 - Count(b, Unannounced) - Count(b, Claimed)
TokenAccounting == SlotAccounting /\ ItemAccounting

(* The counters front and rear run one ahead of the stores and loads just  *)
(* while their owner is between the ++ and the array access.               *)
IndexAgreement ==
  \A b \in Bufs :
    /\ rear[b] = Stored(b) + Count(b, {"ins_store"})
    /\ front[b] = Loaded(b) + Count(b, {"rem_load"})

(* No item is overwritten before it is removed: every item stored and not  *)
(* yet loaded is still in the cell sbuf_insert put it in.                  *)
LiveItemsIntact ==
  \A b \in Bufs : \A k \in Loaded(b) + 1 .. Stored(b) :
    buf[b][k % SBUFSIZE] = inserted[b][k]

(* sbuf is a FIFO: sbuf_remove returns the items in the order sbuf_insert  *)
(* stored them, none lost, none twice, however many threads call.          *)
FifoOrder ==
  \A b \in Bufs :
    /\ Loaded(b) <= Stored(b)
    /\ \A k \in 1 .. Loaded(b) : removed[b][k] = inserted[b][k]

(* Nobody sleeps without a reason: when every thread is outside the        *)
(* library or asleep in down(), an inserter asleep means a full buffer and *)
(* a remover asleep an empty one; the two never sleep on one buffer.       *)
SleepersHaveReason ==
  (\A t \in Threads : pc[t] \in {"idle"} \cup Waiting
                       /\ (pc[t] = "ins_wait" => slots[on[t]] = 0)
                       /\ (pc[t] = "rem_wait" => items[on[t]] = 0))
  => \A t \in Threads :
       /\ pc[t] = "ins_wait" => Stored(on[t]) - Loaded(on[t]) = SBUFSIZE
       /\ pc[t] = "rem_wait" => Stored(on[t]) = Loaded(on[t])

(* The comments on the fields (sbuf.h:6-7) and in sbuf_init (sbuf.c:13),   *)
(* taken while the mutex is free: buf[(front+1)%n] is the first item,      *)
(* buf[rear%n] the last, and the buffer is empty iff front = rear.         *)
HeaderComments ==
  \A b \in Bufs : mutex[b] = 1 =>
    /\ (front[b] = rear[b]) <=> (Stored(b) = Loaded(b))
    /\ Stored(b) > Loaded(b) =>
         /\ Cell(Inc(front[b])) \in Cells /\ Cell(rear[b]) \in Cells
         /\ buf[b][Cell(Inc(front[b]))] = inserted[b][Loaded(b) + 1]
         /\ buf[b][Cell(rear[b])] = inserted[b][Stored(b)]

(* The inductive invariant.                                                *)
Bounded == \A b \in Bufs : Stored(b) + Count(b, Unstored) <= MaxInserts

SbufInv ==
  /\ SbufTypeOK /\ Bounded /\ CriticalSection /\ TokenAccounting
  /\ IndexAgreement /\ LiveItemsIntact /\ FifoOrder

(* The library implements the abstract buffers: every Store is a Put, every *)
(* Load a Get, and everything else is invisible.                           *)
Fifo == INSTANCE BoundedFifo WITH
          put <- inserted, got <- removed, Capacity <- SBUFSIZE, Items <- Values
FifoSpec == Fifo!Spec
=============================================================================
