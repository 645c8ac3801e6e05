SPECIFICATION Spec
CONSTANTS
  Nobody = Nobody
  Clients = {1, 2}
  Tasks = {"t1", "t2"}
  Hosts = 2
  ClientFails = 2
  ClientDrops = 1
  ClientOps = 3
  Target = {1, 2, 3}
  Orders <- MCOrders
  Intervals = {6, 20}
  MinTick = 3
  Concurrent = 2
  JobEdits = 2
  JobStops = 1
  JobFails = 1
  JobAsks = 1
  JobTurns = 3
  Capture = {"p1", "p2"}
  Service = {"s1", "s2"}
  Slots = 2
  ShotAsks = 1
  ShotCrashes = 1
  ShotFails = 1
INVARIANTS Closed Scheduled Undisturbed
PROPERTY Recovers
CHECK_DEADLOCK FALSE
