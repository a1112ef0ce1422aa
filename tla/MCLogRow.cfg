CONSTANTS
  r1 = r1
  r2 = r2
  Requests <- MCRequests
  MaxDay = 1
  MaxStops = 1
  MaxErrors = 1
SPECIFICATION Spec
INVARIANTS TypeOK Recorded ReadBack
SYMMETRY Symmetry
CHECK_DEADLOCK FALSE
