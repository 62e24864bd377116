\* stdout and stderr as pipes; the child may close its stderr early.
CONSTANTS
  Streams = {1, 2}
  Producers = {}
  Consumers = {1, 2}
  Static = {}
  Strings = {}
  Idlers = {}
  Refusers = {}
  Closers = {2}
  Size <- SizeTwo
  MaxOut = 2
  Capacity = 1
  ExitCodes = {0}
  SigPipeIgnored = TRUE
  AutoReap = FALSE
  Killable = FALSE
  MaxSignals = 0
SPECIFICATION Spec
INVARIANTS
  NoWaitpidDeadlock
CHECK_DEADLOCK FALSE
