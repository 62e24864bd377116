\* A program whose times are measured, stopped once.
CONSTANTS
  Timings = {TRUE}
  Handlings = {FALSE}
  ExitCodes = {0}
  CallerMayDie = FALSE
  MaxStops = 1
SPECIFICATION Spec
INVARIANTS
  DeathIsTold
