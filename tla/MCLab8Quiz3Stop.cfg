\* kthread_stop between the loop condition and set_current_state.
SPECIFICATION Spec
CONSTANTS
  producer = producer
  consumer = consumer
  sbufs = sbufs
  Threads <- MCThreads
  Bufs <- MCBufs
  Items <- MCItems
  MaxPresses <- MCMaxPresses
  FirstVals = {3}
  Garbage = Garbage
  SBUFSIZE = 1
  IntMax = 3
  MaxInserts = 2
PROPERTY StopsSuccessfully
CHECK_DEADLOCK FALSE
