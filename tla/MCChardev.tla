------------------------------ MODULE MCChardev ------------------------------
(* Small address spaces: a page is two units, so that segment bounds may   *)
(* lie inside a page or at its edge.                                       *)
EXTENDS Chardev

Area(from, to) == [start |-> from, end |-> to]

Space(areas, end_code, start_data, end_data, start_brk, brk) ==
  [areas |-> areas, start_code |-> 2, end_code |-> end_code,
   start_data |-> start_data, end_data |-> end_data,
   start_brk |-> start_brk, brk |-> brk, start_stack |-> 13]

Code == Area(2, 4)
Stack == Area(12, 14)

(* Code, data, a heap away from it, stack.                                 *)
Plain ==
  {Space(<<Code, Area(4, 6), Area(8, 10), Stack>>, c, d, 6, 8, b) :
     c \in 3 .. 4, d \in 4 .. 5, b \in 9 .. 10}

(* The heap follows the data at once, or is empty.                         *)
NearHeap == {Space(<<Code, Area(4, 6), Area(6, 8), Stack>>, 3, 5, e, 6, 7) : e \in 5 .. 6}
NoHeap == {Space(<<Code, Area(4, 6), Stack>>, 3, 5, 6, b, b) : b \in {6, 8}}

(* Data in two areas of different protection, and a heap below the stack.  *)
TwoDatas ==
  {Space(<<Code, Area(4, 6), Area(6, 8), Area(10, 12), Stack>>, 4, 5, 7, 10, b) : b \in 11 .. 12}

(* Code split in two by mprotect.                                          *)
SplitCode == {Space(<<Code, Area(4, 6), Area(6, 8), Stack>>, 5, d, 8, 8, 8) : d \in 6 .. 7}

MCAddressSpaces == Plain \cup NearHeap \cup NoHeap \cup TwoDatas \cup SplitCode
OneAddressSpace == SplitCode

ProcessSymmetry == Permutations(Processes)
=============================================================================
