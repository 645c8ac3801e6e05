SPECIFICATION FairSpec
CONSTANTS
  None = None
  Check = {c1}
  Target = {a}
  Task = {t1, t2}
  MaxId = 2
  MaxPin = 2
  MaxVanish = 1
  MaxReload = 0
  MaxCrash = 1
  MaxFail = 1
  MaxDbFail = 1
  c1 = c1
  a = a
  t1 = t1
  t2 = t2
PROPERTIES EverythingDelivered SnapshotServed PinFollows
CONSTRAINT Within
