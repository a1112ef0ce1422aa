SPECIFICATION FairSpec
\* The relay and the client end.
CHECK_DEADLOCK FALSE
CONSTANTS
  MaxEvents = 4
  Cap = 2
INVARIANTS TypeOK Faithful OneTerminator ClientAndBooksAgree EmptyMeansError
PROPERTIES RelayFinishes
