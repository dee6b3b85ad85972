\* Two producers, two items each, two buffers of one slot, 3-bit random ints;
\* rmmod at any time, no memory for an array.
SPECIFICATION Spec
CONSTANTS
  p1 = p1
  p2 = p2
  consumer = consumer
  Producers <- MCProducers
  Threads <- MCThreads
  Bufs <- MCBufs
  Items <- MCItems
  RandMin <- MCRandMin
  RandMax = 3
  Garbage = Garbage
  NUM_SBUF = 2
  SBUFSIZE = 1
  PER_PRODUCER = 2
  ITEMS = 4
  MaxInserts = 4
  IntMax = 7
INVARIANTS
  IndexTypeOK
  EveryItemSomewhere
  EveryValueFromEveryProducer
PROPERTIES
  EverybodyFinishes
\* A thread that could not be created leaves the others waiting for ever.
CHECK_DEADLOCK FALSE
