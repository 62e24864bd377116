\* Two threads run a child each, with too few descriptors left for three pipes or
\* socket pairs; every descriptor has one digit, one handle is EINTR, and the ends
\* of pipes, and a file, may have the numbers of handles.
CONSTANTS
  a = a
  b = b
  Callers = {a, b}
  Request <- Mixed
  FileAt <- MixedAt
  Preopen = {0, 1, 3}
  MaxFd = 8
SPECIFICATION FairSpec
INVARIANTS
  TypeOK
  Connected
  NothingElseOpen
  EndsAreOwn
  TableRestored
PROPERTIES
  ChildStarts
