\* One slot, so that the producer can find the buffer full; val starts at
\* INT_MAX, so that it wraps.
SPECIFICATION Spec
CONSTANTS
  producer = producer
  consumer = consumer
  sbufs = sbufs
  Threads <- MCThreads
  Bufs <- MCBufs
  Items <- MCItems
  MaxPresses <- MCMaxPresses
  FirstVals = {3}
  Garbage = Garbage
  SBUFSIZE = 1
  IntMax = 3
  MaxInserts = 2
INVARIANTS
  Lab8TypeOK
  CallsAnswerPresses
  ConsecutiveItems
  FreedUnderNobody
PROPERTIES
  FlagIsServed
  RmmodReturns
\* A thread asleep in down() waits for a key that nobody has to press.
CHECK_DEADLOCK FALSE
