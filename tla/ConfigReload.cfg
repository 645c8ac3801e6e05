SPECIFICATION FairSpec
CONSTANTS
  None = None
  Task = {t1, t2}
  t1 = t1
  t2 = t2
  Caller = {c1, c2}
  Monitor = {m1}
  Bot = {b1, b2}
  MaxSave = 2
  MaxBots = 3
  MaxFail = 1
  c1 = c1
  c2 = c2
  m1 = m1
  b1 = b1
  b2 = b2
INVARIANTS TypeOK SingleFlight Applied Current
PROPERTIES RequestsEnd Followed
CHECK_DEADLOCK FALSE
