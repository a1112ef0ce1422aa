CONSTANTS
  Users = {u1, u2}
  Tasks = {t1, t2}
  Gates = {g1, g2}
  Limits = {1}
  None = None
  MaxWrites = 2
  MaxDay = 1
  MaxServed = 3
SYMMETRY Symmetry
SPECIFICATION Spec
INVARIANTS TypeOK Agrees PruneSafe QuotaBound
CHECK_DEADLOCK FALSE
