----------------------------- MODULE MemoryAreas -----------------------------
(***************************************************************************)
(* What device_ioctl of lab10/chardev.c works out about the address space  *)
(* of the calling process.  mm has the bounds of struct mm_struct and its  *)
(* areas in the order of for_each_vma; an area is [start, end), in units   *)
(* of half a page.  current->mm of a caller of ioctl(2) is never NULL.     *)
(***************************************************************************)
EXTENDS Integers, Sequences, SequencesExt

SizeOf(area) == area.end - area.start

(* The locals x_start, x_end and x_size of one segment.                    *)
NoArea == [start |-> 0, end |-> 0, size |-> 0]

(* Mutant: the last area that passed is kept, not the sum of all.          *)
CountLast(seg, area) == [start |-> area.start, end |-> area.end, size |-> SizeOf(area)]

(* One area that passed the test: "if (!x_start)" keeps the first start.   *)
Count(seg, area) ==
  [start |-> IF seg.start = 0 THEN area.start ELSE seg.start,
   end   |-> area.end,
   size  |-> seg.size + SizeOf(area)]

(* for_each_vma, for the areas that pass one of the four tests.            *)
Walk(areas, passing) ==
  FoldLeft(LAMBDA seg, area : IF area \in passing THEN Count(seg, area) ELSE seg, NoArea, areas)

TotalSize(areas) == FoldLeft(LAMBDA n, area : n + SizeOf(area), 0, areas)

VmaInfo(mm) ==
  LET areas == Range(mm.areas)
      code  == {a \in areas : a.start <= mm.start_code /\ a.end >= mm.end_code}
      data  == {a \in areas : a.start <= mm.end_data /\ a.end >= mm.start_data}
      heap  == {a \in areas : a.start <= mm.brk /\ a.end >= mm.start_brk}
      stack == {a \in areas : a.start <= mm.start_stack /\ a.end >= mm.start_stack}
  IN [total |-> TotalSize(mm.areas),
      code  |-> Walk(mm.areas, code), data  |-> Walk(mm.areas, data),
      heap  |-> Walk(mm.areas, heap), stack |-> Walk(mm.areas, stack)]

-----------------------------------------------------------------------------
(* The same seen as sets of addresses.                                     *)
Span(from, to) == from .. to - 1
Areas(mm) == Range(mm.areas)
Mapped(mm) == UNION {Span(a.start, a.end) : a \in Areas(mm)}

(* What the kernel sees to: areas are not empty and lie apart, in order;   *)
(* none starts at address 0 (vm.mmap_min_addr), which the code relies on   *)
(* when it takes a start of 0 for none; a program has code, and no segment *)
(* ends before it starts.                                                  *)
LaidOut(mm) ==
  /\ mm.areas \in Seq([start : Nat \ {0}, end : Nat])
  /\ \A i \in 1 .. Len(mm.areas) : mm.areas[i].start < mm.areas[i].end
  /\ \A i, j \in 1 .. Len(mm.areas) : i < j => mm.areas[i].end <= mm.areas[j].start
  /\ mm.start_code \in Nat /\ mm.end_code \in Nat /\ mm.start_code < mm.end_code
  /\ mm.start_data \in Nat /\ mm.end_data \in Nat /\ mm.start_data <= mm.end_data
  /\ mm.start_brk \in Nat /\ mm.brk \in Nat /\ mm.start_brk <= mm.brk
  /\ mm.start_stack \in Nat

(* The areas that hold any address of from .. to - 1.                      *)
Holding(mm, from, to) ==
  {a \in Areas(mm) : Span(a.start, a.end) \cap Span(from, to) # {}}

(* The tests for data, heap and stack take both bounds as inclusive: they  *)
(* also pass an area that ends where the segment starts, or starts where   *)
(* it ends, and the neighbours of an empty segment.                        *)
Touched(mm, from, to) ==
  from = to \/ \E a \in Areas(mm) : a.end = from \/ a.start = to

(* A segment is measured: what is mapped of it lies within the reported    *)
(* range, and where nothing touches its ends the areas counted are those   *)
(* that hold some of it.                                                   *)
Measured(mm, seg, from, to) ==
  /\ Span(from, to) \cap Mapped(mm) \subseteq Span(seg.start, seg.end)
  /\ ~Touched(mm, from, to) =>
       seg.size = Cardinality(UNION {Span(a.start, a.end) : a \in Holding(mm, from, to)})

(* The code segment counts if one area holds all of it, else not at all.   *)
CodeMeasured(mm, seg) ==
  LET whole == {a \in Areas(mm) : Span(mm.start_code, mm.end_code) \subseteq Span(a.start, a.end)}
  IN IF whole = {} THEN seg = NoArea
     ELSE \A a \in whole : seg = [start |-> a.start, end |-> a.end, size |-> SizeOf(a)]

AllMeasured(mm, info) ==
  /\ CodeMeasured(mm, info.code)
  /\ Measured(mm, info.data, mm.start_data, mm.end_data)
  /\ Measured(mm, info.heap, mm.start_brk, mm.brk)
  /\ Measured(mm, info.stack, mm.start_stack, mm.start_stack + 1)
=============================================================================
