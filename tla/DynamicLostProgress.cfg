SPECIFICATION Spec
CONSTANTS
  None = None
  Check = {c1, c2}
  Target = {a, b}
  Task = {t1, t2}
  MaxId = 2
  MaxPin = 2
  MaxVanish = 0
  MaxReload = 0
  MaxCrash = 0
  MaxFail = 0
  MaxDbFail = 0
  c1 = c1
  c2 = c2
  a = a
  b = b
  t1 = t1
  t2 = t2
SYMMETRY Symmetric
PROPERTY ProgressKept
CHECK_DEADLOCK FALSE
