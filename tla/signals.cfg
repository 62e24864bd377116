\* Handlers for SIGILL, SIGCHLD and SIGTERM, three at a time, in three Handles.
CONSTANTS
  Numbers = {"ill", "child", "terminate"}
  Ids = {x, y, z}
  Handles = {a, b, c}
SPECIFICATION Spec
INVARIANTS
  TypeOK
  Answered
  OriginalReturns
  HandlesOwn
