\* One socket pair with a producer and a consumer that gives up on nothing.
CONSTANTS
  Streams = {0}
  Producers = {0}
  Consumers = {0}
  Static = {}
  Strings = {}
  Idlers = {}
  Refusers = {}
  Closers = {}
  Size <- SizeTwo
  MaxOut = 2
  Capacity = 1
  ExitCodes = {0}
  SigPipeIgnored = TRUE
  AutoReap = FALSE
  Killable = FALSE
  MaxSignals = 0
SPECIFICATION Spec
INVARIANTS
  ConsumerKeepsDescriptor
CHECK_DEADLOCK FALSE
