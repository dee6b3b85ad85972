\* INT_MAX reduced to 3, and a number of slots that does not divide 4.
SPECIFICATION SbufSpec
CONSTANTS
  Threads = {t1, t2}
  Bufs = {b1}
  Items = {x, y}
  Garbage = Garbage
  SBUFSIZE = 3
  IntMax = 3
  MaxInserts = 5
INVARIANT HeaderComments
CHECK_DEADLOCK FALSE
