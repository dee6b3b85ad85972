\* lab9/quiz2.c and quiz3.c in all modes and an undocumented one, the mode
\* being changed once while the works run.
SPECIFICATION Spec
CONSTANTS
  Workers = {work1, work2, work3}
  LOOPS = 2
  Modes = {1, 2, 3, 4}
  MaxChanges = 1
  Nobody = Nobody
INVARIANTS
  Lab9Inv
  PrintsEveryTurn
  UnsafeStillCounts
PROPERTIES
  ExactSpec
  InitReturns
\* insmod has returned.
CHECK_DEADLOCK FALSE
