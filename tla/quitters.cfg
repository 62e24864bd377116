\* Users that give up: a producer that may idle, over a pipe, a consumer that may
\* refuse, and a socket pair with a ProducerStatic larger than its buffer and a
\* consumer that may refuse; the child may close each of them early, and a broken
\* pipe kills whoever writes to it.
CONSTANTS
  Streams = {0, 1, 2}
  Producers = {0, 2}
  Consumers = {1, 2}
  Static = {2}
  Strings = {}
  Idlers = {0}
  Refusers = {1, 2}
  Closers = {0, 1, 2}
  Size <- SizeTwo
  MaxOut = 2
  Capacity = 1
  ExitCodes = {0}
  SigPipeIgnored = FALSE
  AutoReap = TRUE
  Killable = TRUE
  MaxSignals = 1
SPECIFICATION Spec
INVARIANTS
  SnapshotHolds
  NoTruncatedInput
  DroppedStaysDropped
CHECK_DEADLOCK FALSE
