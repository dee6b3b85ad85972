\* Three threads call one buffer of two slots; the ring is gone round twice.
SPECIFICATION SbufSpec
CONSTANTS
  Threads = {t1, t2, t3}
  Bufs = {b1}
  Items = {x, y}
  Garbage = Garbage
  SBUFSIZE = 2
  IntMax = 7
  MaxInserts = 4
SYMMETRY ThreadSymmetry
INVARIANTS
  TokenAccounting
  LiveItemsIntact
  SleepersHaveReason
PROPERTY FifoSpec
\* Callers may all be asleep in down(): removing from an empty buffer is legal.
CHECK_DEADLOCK FALSE
