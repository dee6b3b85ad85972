\* The program's own sizes; rmmod at any time; no memory for the array.
SPECIFICATION Spec
CONSTANTS
  producer = producer
  consumer = consumer
  sbufs = sbufs
  Threads <- MCThreads
  Bufs <- MCBufs
  Items <- MCItems
  Garbage = Garbage
  SBUFSIZE = 3
  ITEMS = 30
  MaxInserts = 30
  IntMax = 127
INVARIANTS
  ConsumerCounts
  NothingLeftOver
PROPERTIES
  ThreadsFinish
\* A thread whose partner could not be created, or has died, sleeps for ever.
CHECK_DEADLOCK FALSE
