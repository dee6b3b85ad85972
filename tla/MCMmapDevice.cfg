\* Two threads, two files, two areas of two pages, two pages of memory.
SPECIFICATION Spec
CONSTANTS
  Files = {f1, f2}
  Areas = {a1, a2}
  Offsets = {o1, o2}
  Users = {u1, u2}
  Pages = {g1, g2}
  None = None
SYMMETRY MmapSymmetry
\* Every file has been opened, the areas are unmapped, nothing is left to do.
CHECK_DEADLOCK FALSE
INVARIANTS
  TypeOK
  PagesAccountedFor
  OwnContent
  WordsSurvive
  OnlyRmmodTears
