SPECIFICATION OverlapSpec
CONSTANTS
  None = None
  Check = {c1, c2}
  Target = {a, b}
  Task = {t1, t2}
  MaxId = 2
  MaxPin = 2
  MaxVanish = 0
  MaxReload = 0
  MaxCrash = 1
  MaxFail = 1
  MaxDbFail = 1
  c1 = c1
  c2 = c2
  a = a
  b = b
  t1 = t1
  t2 = t2
SYMMETRY Symmetric
INVARIANTS TypeOK NothingSkipped AtMostOncePerLife PinPushedOnce
PROPERTY InOrder
CONSTRAINT Within
