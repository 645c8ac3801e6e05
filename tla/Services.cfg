SPECIFICATION Spec
CONSTANTS
  None = None
  Push = {"p1"}
  Replies = {"r1", "r2"}
  OneBot = {"o1"}
  Bots = 2
  Parts = 2
  ReplyLimit = 3
  SendFails = 2
  SendLost = 1
  SendCuts = 1
  SendOther = 1
  SendTries = 2
  TitleCalls = {"c1", "c2", "c3"}
  Limits = {0, 2}
  TitleDays = 1
  TitleEdits = 1
  TitleLost = 1
  TitleCrashes = 1
  Kind = {"dynamic", "live", "x"}
  AdminRequests = {"r1", "r2"}
  Id = {"i1", "i2"}
  Key = {"a", "b"}
  Manual = "m"
  Bodies <- MCBodies
  TableAsks = 2
  TableLists = 2
  TableFinds = 1
  Parser = {"bilibili", "douyin", "x"}
  Handler = {"h1", "h2", "h3"}
  User = {"u1", "u2"}
  Video = {"v1", "v2"}
  Pipeline = 2
  MaxPending = 1
  LinkParts = 2
  LinkFails = 1
  LinkExpiries = 1
  Address = {"a1", "a2"}
  Password = {"p", "q"}
  PerAddress = 1
  PerName = 2
  Window = 2
  LoginTime = 2
  LoginTries = 4
INVARIANTS InOneGo Quota Kept Files Guarded Balanced Answered Logins Streamed Migrated
CONSTRAINT Within
CHECK_DEADLOCK FALSE
