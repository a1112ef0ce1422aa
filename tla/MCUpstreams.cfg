CONSTANTS
  Upstreams = {p, q}
  Keys = {k1, k2}
  Admins = {a1, a2}
  Main = Main
  NoKey = NoKey
  Plain = Plain
  Blank = Blank
  None = None
  Installed <- MCInstalled
  MaxWrites = 2
  MaxBoots = 1
  MaxCommands = 1
CONSTRAINT Unharmed
SYMMETRY Symmetry
SPECIFICATION Spec
INVARIANTS TypeOK KeysKept Agrees NoPlaintext
CHECK_DEADLOCK FALSE
