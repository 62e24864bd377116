SPECIFICATION Spec
CONSTANTS
  a = a b = b e = e
  Characters <- AllCharacters
  Lines <- AllLines
  Arrays <- AllArrays
  Values <- AllValues
  Locals = {a, b}
  EnvLocals = {e}
  Named = {"plain", "file", "sink"}
  Handles = {0, 1}
  Maps <- SomeMaps
  Bystanders = {}
  Executed <- RunLines
  MaxParameters = 3
  MaxCalls = 2
SYMMETRY Symmetric
INVARIANTS TypeOK Owned CopyFits WordsOfLine CollectedAsGiven PointerValid LeavesNothing
