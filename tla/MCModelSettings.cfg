CONSTANTS
  k1 = k1
  k2 = k2
  k3 = k3
  Keys = {k1, k2, k3}
  UpstreamOf <- MCUpstreamOf
  ModelOf <- MCModelOf
  Ollama = {"p"}
  Offered <- MCOffered
  Base <- MCBase
  None = None
  Blank = Blank
  Users = {"u"}
  Aliases = {"a", "b", "m", "a:latest"}
  Admins = {a1, a2}
  Words = {"w"}
  LastMinute = 12
  Configs <- MCConfigs
  Asked <- MCAsked
  Requests <- MCRequests
  MaxJobs = 3
SYMMETRY Symmetry
SPECIFICATION Spec
INVARIANTS
  TypeOK
  Agrees
  Refused
  AliasesUnique
  OneMeaning
  RulesDecide
  ListedIsServed
CHECK_DEADLOCK FALSE
