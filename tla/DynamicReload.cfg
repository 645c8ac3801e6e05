SPECIFICATION Spec
CONSTANTS
  None = None
  Check = {c1}
  Target = {a}
  Task = {t1, t2}
  MaxId = 2
  MaxPin = 0
  MaxVanish = 0
  MaxReload = 2
  MaxCrash = 0
  MaxFail = 1
  MaxDbFail = 1
  c1 = c1
  a = a
  t1 = t1
  t2 = t2
SYMMETRY Symmetric
PROPERTY NoHistory
CHECK_DEADLOCK FALSE
