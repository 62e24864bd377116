\* Every producer of the library, with a content of two and a half buffers; a
\* ProducerStatic is not interrupted in its write().
CONSTANTS
  Kinds = {"static", "file", "function", "string"}
  Length = 5
  Buffer = 2
  Interruptible = {"file", "function", "string"}
SPECIFICATION FairSpec
INVARIANTS
  TypeOK
  FileInOrder
PROPERTIES
  ImplementsStream
  EverythingStored
