CONSTANTS
  Requests = {r1}
  MaxDay = 0
  MaxStops = 0
  MaxErrors = 0
SPECIFICATION Spec
INVARIANTS EveryEndRecorded
CHECK_DEADLOCK FALSE
