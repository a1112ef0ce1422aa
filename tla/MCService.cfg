CONSTANTS
  u1 = u1
  u2 = u2
  Users = {u1, u2}
  Keys = {k1}
  Unborn = Unborn
  Gone = Gone
  Nobody = Nobody
  Keep = Keep
  Tasks = {t1, t2}
  Asked <- MCAsked
  MaxJobs = 3
  MaxStarts = 2
SPECIFICATION Spec
INVARIANTS LastAdmin Alone Admitted
PROPERTY StopEnds
