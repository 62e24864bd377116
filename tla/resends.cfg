\* A ProducerStatic whose write() is interrupted once.
CONSTANTS
  Kinds = {"static"}
  Length = 3
  Buffer = 2
  Interruptible = {"static"}
SPECIFICATION Spec
INVARIANTS
  InOrder
