\* With and without a monitor and a handler of the caller's, two stops.
CONSTANTS
  Timings = {TRUE, FALSE}
  Handlings = {TRUE, FALSE}
  ExitCodes = {0, 3}
  CallerMayDie = TRUE
  MaxStops = 2
SPECIFICATION FairSpec
INVARIANTS
  TypeOK
  MonitorIsTransparent
  TimesAreFinal
  NobodyForgotten
  LateStopIsHarmless
PROPERTIES
  StopArrives
