\* One thread with nine descriptors open feeds a child over a pipe.
CONSTANTS
  a = a
  b = b
  Callers = {a}
  Request <- Fed
  FileAt <- NoFiles
  Preopen = {0, 1, 2, 3, 4, 5, 6, 7, 8}
  MaxFd = 12
SPECIFICATION Spec
INVARIANTS
  NothingElseOpen
