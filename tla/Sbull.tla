-------------------------------- MODULE Sbull --------------------------------
(***************************************************************************)
(* The RAM disks sbull.c (one array for the whole disk) and sbull2.c (a    *)
(* list of page-sized blocks, added when first written): set-up, open and  *)
(* release, removal, and submit_bio, from sbull_make_request to bio_endio, *)
(* called by any number of processes at once and without a lock in either  *)
(* driver.                                                                 *)
(*                                                                         *)
(* The block layer is modelled from how the code relies on it: bios come   *)
(* while the device is open; del_gendisk lets no more in and waits for     *)
(* those inside.  sbull_ops has no owner, so an open device does not keep  *)
(* rmmod away.  A step on freed memory, in code that is gone, or a second  *)
(* vfree is an oops, and the model follows no further.                     *)
(*                                                                         *)
(* A bio is a direction and its segments, each with the sector it is meant *)
(* for and its length in sectors.  One memcpy is one step.  A written      *)
(* value names its bio and the sector it is meant for.  The lines are      *)
(* those of sbull2.c where the two files agree.                            *)
(***************************************************************************)
EXTENDS Integers, Sequences, FiniteSets

CONSTANTS
  Submitters,
  nsectors,      \* the size of the device
  PAGE,          \* sectors of a block: 4096 bytes
  Bios,          \* the bios that may be submitted
  MaxBios,       \* bound of the model: bios in all
  RemovalBios,   \* bound of the model: bios in all if the module is removed
  Unset, Foreign \* no value yet; memory beside a segment

Drivers == {"sbull", "sbull2"}
Sectors == 0 .. nsectors - 1

ASSUME SbullAssumption ==
  /\ IsFiniteSet(Submitters)
  /\ nsectors \in Nat /\ PAGE \in Nat \ {0} /\ MaxBios \in Nat /\ RemovalBios \in 0 .. MaxBios
  /\ \A b \in Bios :
       /\ b.write \in BOOLEAN
       /\ b.segs \in Seq([at : Nat, len : 1 .. PAGE]) /\ b.segs # << >>
       /\ \A i \in 1 .. Len(b.segs) :
            /\ b.segs[i].at + b.segs[i].len <= nsectors
            /\ i > 1 => b.segs[i].at = b.segs[i - 1].at + b.segs[i - 1].len

VARIABLES
  driver,
  mod,                 \* what sbull_init or sbull_exit does next, or "live", or "gone"
  array,               \* sbull: dev->buf is "none", "allocated" or "freed"
  gendisk,             \* dev->gendisk is "none", "allocated" or "added"
  users,               \* times the device is open
  freed, walk,         \* sbull2: the blocks sbull_exit has freed, its tmp and next
  oops,                \* memory was used or freed after it was freed
  botched, torn,       \* history: set-up failed; removal began with the device open
  disk,                \* sbull: dev->buf, by sector
  blocks, next, back,  \* sbull2: the blocks, ->next and ->prev; the head is block 0
  bio, id, k, stage,   \* by submitter: its bio, the bio's number, segment and stage
  node, prev,          \* by submitter: tmp, and head->prev as list_add_tail read it
  got,                 \* by submitter: what its read has put into its segments
  count,               \* history: bios submitted
  last,                \* history: by sector, the last value a finished write left
  irregular, overlapped, raced, starved  \* history: what went on so far

store == <<disk, blocks, next, back>>
hist == <<irregular, overlapped, raced, starved>>
device == <<driver, mod, array, gendisk, users, freed, walk, oops, botched, torn>>
bioVars == <<bio, id, k, stage, node, prev, got, count, last>>
vars == <<device, store, bio, id, k, stage, node, prev, got, count, last, hist>>

Init ==
  /\ driver \in Drivers
  /\ mod = "absent" /\ array = "none" /\ gendisk = "none"
  /\ users = 0 /\ freed = {} /\ walk = <<0, 0>>
  /\ oops = FALSE /\ botched = FALSE /\ torn = FALSE
  /\ disk = [s \in Sectors |-> Unset]
  /\ blocks = << >> /\ next = [n \in {0} |-> 0] /\ back = [n \in {0} |-> 0]
  /\ bio \in [Submitters -> {CHOOSE b \in Bios : TRUE}]
  /\ id = [t \in Submitters |-> 0] /\ k = [t \in Submitters |-> 1]
  /\ stage = [t \in Submitters |-> "idle"]
  /\ node = [t \in Submitters |-> 0] /\ prev = [t \in Submitters |-> 0]
  /\ got = [t \in Submitters |-> [s \in Sectors |-> Unset]]
  /\ count = 0 /\ last = [s \in Sectors |-> Unset]
  /\ irregular = FALSE /\ overlapped = FALSE /\ raced = FALSE /\ starved = FALSE

-----------------------------------------------------------------------------
Segs(b) == 1 .. Len(b.segs)
Span(b) == UNION {b.segs[i].at .. b.segs[i].at + b.segs[i].len - 1 : i \in Segs(b)}

(* What each driver gets right: sbull bios whose segments are equally      *)
(* long, sbull2 bios whose segments are whole pages.                       *)
Regular(b) ==
  \A i \in Segs(b) :
    IF driver = "sbull" THEN b.segs[i].len = b.segs[1].len
                        ELSE b.segs[i].len = PAGE /\ b.segs[i].at % PAGE = 0

Clash(b, c) == Span(b) \cap Span(c) # {} /\ (b.write \/ c.write)

Busy(t) == stage[t] # "idle"

(* sbull_make_request is entered with a bio of the block layer.            *)
Accepting ==
  /\ users > 0 /\ mod \in {"live", "free_list", "del_gendisk"}
  /\ count < IF mod = "live" THEN MaxBios ELSE RemovalBios

Submit(t) ==
  /\ stage[t] = "idle" /\ Accepting
  /\ \E b \in Bios :
       /\ bio' = [bio EXCEPT ![t] = b]
       /\ irregular' = (irregular \/ ~Regular(b))
       /\ overlapped' = (overlapped \/ \E u \in Submitters : Busy(u) /\ Clash(b, bio[u]))
  /\ count' = count + 1
  /\ id' = [id EXCEPT ![t] = count + 1]
  /\ stage' = [stage EXCEPT ![t] = "seg"]
  /\ UNCHANGED <<device, store, k, node, prev, got, last, raced, starved>>

(* bio_cur_bytes(bio) >> 9: bi_iter does not move with the loop, so it is  *)
(* the length of the first segment at every turn.                          *)
CurSectors(t) == bio[t].segs[1].len

(* Mutant: sector += ... left out.                                         *)
FirstSector(t) == bio[t].segs[1].at

Sector(t) == bio[t].segs[1].at + (k[t] - 1) * CurSectors(t)

NextSeg(t) ==
  /\ k' = [k EXCEPT ![t] = @ + 1]
  /\ stage' = [stage EXCEPT ![t] = IF k[t] = Len(bio[t].segs) THEN "end" ELSE "seg"]

(* Mutant: nobody looks at the end of the device.                          *)
Unguarded(t) ==
  /\ stage[t] = "seg"
  /\ stage' = [stage EXCEPT ![t] = IF driver = "sbull" THEN "copy" ELSE "find"]
  /\ UNCHANGED <<device, store, bio, id, k, node, prev, got, count, last, hist>>

(* sbull_transfer refuses to go beyond the end of the device.              *)
Transfer(t) ==
  /\ stage[t] = "seg"
  /\ IF Sector(t) + CurSectors(t) > nsectors
     THEN NextSeg(t)
     ELSE /\ stage' = [stage EXCEPT ![t] = IF driver = "sbull" THEN "copy" ELSE "find"]
          /\ UNCHANGED k
  /\ UNCHANGED <<device, store, bio, id, node, prev, got, count, last, hist>>

-----------------------------------------------------------------------------
(* The list as a walk from its head finds it.                              *)
ListFrom[n \in DOMAIN next] == IF n = 0 THEN << >> ELSE <<n>> \o ListFrom[next[n]]

Chain == ListFrom[next[0]]

(* Mutant: no block is ever found.                                         *)
FindNothing(s) == 0

(* sbull_find_list: the first block with that idx, or none (0).            *)
sbull_find_list(s) ==
  LET hits == {i \in 1 .. Len(Chain) : blocks[Chain[i]].idx = s}
  IN IF hits = {} THEN 0 ELSE Chain[CHOOSE i \in hits : \A j \in hits : i <= j]

Adding == {"add", "link", "publish"}

(* Look the sector up; a read of a missing block leaves its buffer alone,  *)
(* and so does a write that gets no memory leave the disk.                 *)
Find(t) ==
  LET f == sbull_find_list(Sector(t)) IN
  /\ stage[t] = "find"
  /\ node' = [node EXCEPT ![t] = f]
  /\ \/ /\ f # 0
        /\ stage' = [stage EXCEPT ![t] = "copy"]
        /\ UNCHANGED <<k, raced, starved>>
     \/ /\ f = 0 /\ bio[t].write
        /\ stage' = [stage EXCEPT ![t] = "add"]
        /\ raced' = (raced \/ \E u \in Submitters : stage[u] \in Adding)
        /\ UNCHANGED <<k, starved>>
     \/ /\ f = 0
        /\ NextSeg(t)
        /\ starved' = (starved \/ bio[t].write)
        /\ UNCHANGED raced
  /\ UNCHANGED <<device, store, bio, id, prev, got, count, last, irregular, overlapped>>

Extended(f) == [n \in 0 .. Len(blocks) + 1 |-> IF n <= Len(blocks) THEN f[n] ELSE 0]

(* kmalloc, memset, idx; list_add_tail reads head->prev, ...               *)
Allocate(t) ==
  /\ stage[t] = "add"
  /\ blocks' = Append(blocks, [idx |-> Sector(t), buf |-> [o \in 0 .. PAGE - 1 |-> Unset]])
  /\ next' = Extended(next) /\ back' = Extended(back)
  /\ node' = [node EXCEPT ![t] = Len(blocks) + 1]
  /\ prev' = [prev EXCEPT ![t] = back[0]]
  /\ stage' = [stage EXCEPT ![t] = "link"]
  /\ UNCHANGED <<device, disk, bio, id, k, got, count, last, hist>>

(* Mutant: head->prev is not moved.                                        *)
LinkNoTail(t) ==
  /\ stage[t] = "link"
  /\ next' = [next EXCEPT ![node[t]] = 0]
  /\ back' = [back EXCEPT ![node[t]] = prev[t]]
  /\ stage' = [stage EXCEPT ![t] = "publish"]
  /\ UNCHANGED <<device, disk, blocks, bio, id, k, node, prev, got, count, last, hist>>

(* ... sets head->prev, new->next and new->prev, ...                       *)
Link(t) ==
  /\ stage[t] = "link"
  /\ next' = [next EXCEPT ![node[t]] = 0]
  /\ back' = [back EXCEPT ![0] = node[t], ![node[t]] = prev[t]]
  /\ stage' = [stage EXCEPT ![t] = "publish"]
  /\ UNCHANGED <<device, disk, blocks, bio, id, k, node, prev, got, count, last, hist>>

(* ... and prev->next, from which a walk can find the block.               *)
Publish(t) ==
  /\ stage[t] = "publish" /\ prev[t] \notin freed
  /\ next' = [next EXCEPT ![prev[t]] = node[t]]
  /\ stage' = [stage EXCEPT ![t] = "copy"]
  /\ UNCHANGED <<device, disk, blocks, back, bio, id, k, node, prev, got, count, last, hist>>

-----------------------------------------------------------------------------
(* The memory o sectors after the start of the current segment.            *)
Memory(t, o) ==
  LET seg == bio[t].segs[k[t]]
  IN IF o < seg.len THEN <<id[t], seg.at + o>> ELSE Foreign

Moved(t) == 0 .. CurSectors(t) - 1

WriteDisk(t) ==
  disk' = [s \in Sectors |->
             IF s - Sector(t) \in Moved(t) THEN Memory(t, s - Sector(t)) ELSE disk[s]]

WriteBlock(t) ==
  blocks' = [blocks EXCEPT ![node[t]].buf =
               [o \in 0 .. PAGE - 1 |-> IF o \in Moved(t) THEN Memory(t, o) ELSE @[o]]]

(* Mutant: the source does not advance with the sectors.                   *)
ReadPageStart(t) ==
  LET seg == bio[t].segs[k[t]]
  IN got' = [got EXCEPT ![t] = [s \in Sectors |->
               IF s - seg.at \in Moved(t) /\ s - seg.at < seg.len
               THEN (IF driver = "sbull" THEN disk[Sector(t)] ELSE blocks[node[t]].buf[0])
               ELSE @[s]]]

(* What a read leaves in the segment, by the sector it is meant for.  What *)
(* it writes beside the segment is not followed.                           *)
Read(t) ==
  LET seg == bio[t].segs[k[t]]
      from(o) == IF driver = "sbull" THEN disk[Sector(t) + o] ELSE blocks[node[t]].buf[o]
  IN got' = [got EXCEPT ![t] = [s \in Sectors |->
               IF s - seg.at \in Moved(t) /\ s - seg.at < seg.len
               THEN from(s - seg.at) ELSE @[s]]]

Freed(t) == IF driver = "sbull" THEN array = "freed" ELSE node[t] \in freed

(* The disk, the block or the one before it is freed under the bio.  (A    *)
(* walk of the list that meets a block as it is freed is not told apart    *)
(* from one that comes before or after.)                                   *)
UseAfterFree(t) ==
  /\ \/ stage[t] = "copy" /\ Freed(t)
     \/ stage[t] = "publish" /\ prev[t] \in freed
  /\ oops' = TRUE
  /\ UNCHANGED <<driver, mod, array, gendisk, users, freed, walk, botched, torn, store, bioVars, hist>>

(* memcpy, to the disk or from it; the loop goes on.                       *)
Copy(t) ==
  /\ stage[t] = "copy" /\ ~Freed(t)
  /\ NextSeg(t)
  /\ \/ bio[t].write /\ driver = "sbull" /\ WriteDisk(t) /\ UNCHANGED <<blocks, got>>
     \/ bio[t].write /\ driver = "sbull2" /\ WriteBlock(t) /\ UNCHANGED <<disk, got>>
     \/ ~bio[t].write /\ Read(t) /\ UNCHANGED <<disk, blocks>>
  /\ UNCHANGED <<device, next, back, bio, id, node, prev, count, last, hist>>

(* bio_endio: "always succeed".  The locals go out of scope.               *)
NoLocals(t) ==
  /\ bio' = [bio EXCEPT ![t] = CHOOSE b \in Bios : TRUE] /\ id' = [id EXCEPT ![t] = 0]
  /\ k' = [k EXCEPT ![t] = 1]
  /\ node' = [node EXCEPT ![t] = 0] /\ prev' = [prev EXCEPT ![t] = 0]
  /\ got' = [got EXCEPT ![t] = [s \in Sectors |-> Unset]]

EndIo(t) ==
  /\ stage[t] = "end"
  /\ last' = IF bio[t].write
             THEN [s \in Sectors |-> IF s \in Span(bio[t]) THEN <<id[t], s>> ELSE last[s]]
             ELSE last
  /\ stage' = [stage EXCEPT ![t] = "idle"]
  /\ NoLocals(t)
  /\ UNCHANGED <<device, store, count, hist>>

Submission(t) ==
  \/ Transfer(t) \/ Find(t) \/ Allocate(t) \/ Link(t) \/ Publish(t) \/ Copy(t)
  \/ UseAfterFree(t) \/ EndIo(t)

-----------------------------------------------------------------------------
unloaded == <<store, bioVars, hist>>

(* sbull_init: register_blkdev (insmod is refused if it fails), then       *)
(* setup_device, whose failure nobody is told of.                          *)
sbull_init ==
  /\ mod = "absent"
  /\ mod' = IF driver = "sbull" THEN "vmalloc" ELSE "alloc_disk"
  /\ UNCHANGED <<driver, array, gendisk, users, freed, walk, oops, botched, torn, unloaded>>

Vmalloc ==
  /\ mod = "vmalloc"
  /\ \/ array' = "allocated" /\ mod' = "alloc_disk" /\ UNCHANGED botched
     \/ array' = "none" /\ mod' = "live" /\ botched' = TRUE
  /\ UNCHANGED <<driver, gendisk, users, freed, walk, oops, torn, unloaded>>

(* out_vfree: sbull frees its array but keeps the pointers.                *)
OutVfree ==
  /\ mod' = "live" /\ botched' = TRUE
  /\ array' = IF array = "allocated" THEN "freed" ELSE array

BlkAllocDisk ==
  /\ mod = "alloc_disk"
  /\ \/ gendisk' = "allocated" /\ mod' = "add_disk" /\ UNCHANGED <<array, botched>>
     \/ UNCHANGED gendisk /\ OutVfree
  /\ UNCHANGED <<driver, users, freed, walk, oops, torn, unloaded>>

AddDisk ==
  /\ mod = "add_disk"
  /\ \/ gendisk' = "added" /\ mod' = "live" /\ UNCHANGED <<array, botched>>
     \/ UNCHANGED gendisk /\ OutVfree
  /\ UNCHANGED <<driver, users, freed, walk, oops, torn, unloaded>>

setup_device == Vmalloc \/ BlkAllocDisk \/ AddDisk

(* open(2) and the last close(2), for which no bio is under way; users is  *)
(* counted under dev->lock and never read.  Once is enough, a bound.       *)
sbull_open ==
  /\ mod = "live" /\ gendisk = "added" /\ users = 0
  /\ users' = 1
  /\ UNCHANGED <<driver, mod, array, gendisk, freed, walk, oops, botched, torn, unloaded>>

sbull_release ==
  /\ users = 1 /\ \A t \in Submitters : ~Busy(t)
  /\ IF mod = "gone" THEN oops' = TRUE /\ UNCHANGED users
                     ELSE users' = 0 /\ UNCHANGED oops
  /\ UNCHANGED <<driver, mod, array, gendisk, freed, walk, botched, torn, unloaded>>

(* rmmod.  list_for_each_entry_safe reads tmp->next before tmp is freed.   *)
sbull_exit ==
  /\ mod = "live" /\ count <= RemovalBios
  /\ mod' = IF driver = "sbull" THEN "del_gendisk" ELSE "free_list"
  /\ torn' = (users > 0)
  /\ walk' = <<next[0], next[next[0]]>>
  /\ UNCHANGED <<driver, array, gendisk, users, freed, oops, botched, unloaded>>

(* list_del of block n.                                                    *)
Delete(n) ==
  /\ next' = [next EXCEPT ![back[n]] = next[n]]
  /\ back' = [back EXCEPT ![next[n]] = back[n]]

(* Mutant: the walk stops at the last block, where next is the head.       *)
FreeAllButLast ==
  /\ mod = "free_list"
  /\ \/ /\ walk[2] = 0 /\ mod' = "del_gendisk"
        /\ UNCHANGED <<freed, walk, next, back>>
     \/ /\ walk[2] # 0 /\ UNCHANGED mod
        /\ Delete(walk[1]) /\ freed' = freed \cup {walk[1]}
        /\ walk' = <<walk[2], next[walk[2]]>>
  /\ UNCHANGED <<driver, array, gendisk, users, oops, botched, torn, disk, blocks, bioVars, hist>>

(* sbull2 frees the blocks while bios may still come in: list_del and      *)
(* kfree of tmp, whose neighbours another bio may have changed meanwhile.  *)
FreeList ==
  /\ mod = "free_list"
  /\ LET tmp == walk[1] IN
     \/ /\ tmp = 0 /\ mod' = "del_gendisk"
        /\ UNCHANGED <<freed, walk, oops, next, back>>
     \/ /\ tmp # 0 /\ {back[tmp], next[tmp]} \cap freed = {}
        /\ Delete(tmp) /\ freed' = freed \cup {tmp}
        /\ walk' = <<walk[2], next[walk[2]]>>
        /\ UNCHANGED <<mod, oops>>
     \/ /\ tmp # 0 /\ {back[tmp], next[tmp]} \cap freed # {}
        /\ oops' = TRUE
        /\ UNCHANGED <<mod, freed, walk, next, back>>
  /\ UNCHANGED <<driver, array, gendisk, users, botched, torn, disk, blocks, bioVars, hist>>

(* Mutant: del_gendisk is forgotten, put_disk alone waits for nobody.      *)
PutDisk ==
  /\ mod = "del_gendisk" /\ (driver = "sbull" \/ gendisk # "none")
  /\ mod' = "vfree"
  /\ UNCHANGED <<driver, array, gendisk, users, freed, walk, oops, botched, torn, unloaded>>

(* del_gendisk lets no more bios in (sbull2 does not look whether there is *)
(* a disk), ...                                                            *)
DelGendisk ==
  /\ mod = "del_gendisk"
  /\ \/ /\ driver = "sbull2" /\ gendisk = "none"
        /\ oops' = TRUE /\ UNCHANGED mod
     \/ /\ driver = "sbull" \/ gendisk # "none"
        /\ mod' = "drain" /\ UNCHANGED oops
  /\ UNCHANGED <<driver, array, gendisk, users, freed, walk, botched, torn, unloaded>>

(* ... waits for those under way, and put_disk drops the disk.             *)
Drained ==
  /\ mod = "drain" /\ \A t \in Submitters : ~Busy(t)
  /\ mod' = "vfree"
  /\ UNCHANGED <<driver, array, gendisk, users, freed, walk, oops, botched, torn, unloaded>>

(* sbull: vfree of a buf that is not NULL.  unregister_blkdev.             *)
Vfree ==
  /\ mod = "vfree" /\ mod' = "gone"
  /\ \/ array = "none" /\ UNCHANGED <<array, oops>>
     \/ array = "allocated" /\ array' = "freed" /\ UNCHANGED oops
     \/ array = "freed" /\ oops' = TRUE /\ UNCHANGED array
  /\ UNCHANGED <<driver, gendisk, users, freed, walk, botched, torn, unloaded>>

Removal == sbull_exit \/ FreeList \/ DelGendisk \/ Drained \/ Vfree

Next ==
  /\ ~oops
  /\ \/ sbull_init \/ setup_device \/ sbull_open \/ sbull_release \/ Removal
     \/ \E t \in Submitters : Submit(t) \/ Submission(t)

Spec == Init /\ [][Next]_vars

-----------------------------------------------------------------------------
(* What sector s holds for a reader of a whole block.                      *)
Content(s) ==
  IF driver = "sbull" THEN disk[s]
  ELSE LET f == sbull_find_list(s - (s % PAGE))
       IN IF f = 0 THEN Unset ELSE blocks[f].buf[s % PAGE]

BeingWritten == UNION {Span(bio[t]) : t \in {u \in Submitters : Busy(u) /\ bio[u].write}}

(* What a finished write left stays on the disk until the next write of    *)
(* the sector, whatever other bios run meanwhile: in sbull2 unless two of  *)
(* them added a block at the same time, or no memory was left.  Removal    *)
(* ends it.                                                                *)
Orderly ==
  /\ ~irregular /\ ~overlapped /\ ~raced /\ ~starved
  /\ array # "freed" /\ freed = {}

WritesStay ==
  Orderly => \A s \in Sectors \ BeingWritten : last[s] = Unset \/ Content(s) = last[s]

(* A read that meets no write of its sectors returns what was last written *)
(* there.                                                                  *)
ReadsReturnLastWrite ==
  Orderly =>
    \A t \in Submitters : stage[t] = "end" /\ ~bio[t].write =>
      \A s \in Span(bio[t]) : last[s] = Unset \/ got[t][s] = last[s]

(* No bio, however irregular, moves memory beyond the end of the device.   *)
(* Races, lost blocks and overlapping bios may lose data, but regular bios *)
(* never put it in the wrong place, nor memory that is not theirs.         *)
NothingMisplaced ==
  /\ \A t \in Submitters : stage[t] = "copy" => Sector(t) + CurSectors(t) <= nsectors
  /\ ~irregular =>
    /\ \A s \in Sectors : disk[s] = Unset \/ disk[s] \in (1 .. MaxBios) \X {s}
    /\ \A n \in 1 .. Len(blocks) : \A o \in 0 .. PAGE - 1 :
         \/ blocks[n].buf[o] = Unset
         \/ blocks[n].buf[o] \in (1 .. MaxBios) \X {blocks[n].idx + o}

(* As long as no two bios add a block at the same time, the list holds     *)
(* every block added and not yet freed, once, one for each sector, and     *)
(* ends at head->prev.                                                     *)
Unpublished == {node[t] : t \in {u \in Submitters : stage[u] \in {"link", "publish"}}}

ListIsComplete ==
  ~raced =>
    /\ {Chain[i] : i \in 1 .. Len(Chain)} = (1 .. Len(blocks)) \ (Unpublished \cup freed)
    /\ \A m, n \in (1 .. Len(blocks)) \ freed : blocks[m].idx = blocks[n].idx => m = n
    /\ Unpublished = {} => back[0] = IF Chain = << >> THEN 0 ELSE Chain[Len(Chain)]

(* The memory outlives the bios that use it: in sbull because del_gendisk  *)
(* comes before vfree, even if the device is open when rmmod is called; in *)
(* sbull2, which frees the list first, only if it is not open.             *)
MemoryOutlivesBios ==
  \A t \in Submitters : stage[t] = "copy" => ~Freed(t) \/ (driver = "sbull2" /\ torn)

(* Removal frees everything, the array and every block of the list, and    *)
(* nothing twice, if set-up succeeded and the device is closed; unless     *)
(* racing bios have lost a block.                                          *)
RemovalFreesAll ==
  /\ mod = "gone" =>
       /\ array # "allocated"
       /\ driver = "sbull" \/ torn \/ raced \/ freed = 1 .. Len(blocks)
  /\ oops => botched \/ torn
=============================================================================
