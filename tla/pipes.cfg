\* stdin, two more pipes that a ProducerStatic and a ProducerDynamic of a string
\* fill, and stdout, of a child that keeps them open until it exits; what the two
\* have to offer fits their pipes, and the rest is offered in pieces.
CONSTANTS
  Streams = {0, 1, 3, 4}
  Producers = {0, 3, 4}
  Consumers = {1}
  Static = {3}
  Strings = {4}
  Idlers = {}
  Refusers = {}
  Closers = {}
  Size <- SizeFitting
  MaxOut = 3
  Capacity = 2
  ExitCodes = {0, 3}
  SigPipeIgnored = TRUE
  AutoReap = FALSE
  Killable = TRUE
  MaxSignals = 1
SPECIFICATION FairSpec
INVARIANTS
  TypeOK
  WaitOnlyWhenQuiet
  NothingLost
  FittingWriteNeverBlocks
PROPERTIES
  Returns
  ChildServed
  ImplementsExecution
