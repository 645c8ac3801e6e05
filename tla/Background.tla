----------------------------- MODULE Background -----------------------------
(***************************************************************************)
(* Components that work in the background, for any values of their         *)
(* parameters, and what is promised of each whatever the others do: they   *)
(* share no state.                                                         *)
(***************************************************************************)
CONSTANTS
  Nobody,
  Clients, Tasks, Hosts, ClientFails, ClientDrops, ClientOps,  \* DanmakuClients
  Target, Orders, Intervals, MinTick, Concurrent, JobEdits, JobStops, JobFails, JobAsks, JobTurns, \* PollJob
  Capture, Service, Slots, ShotAsks, ShotCrashes, ShotFails    \* Screenshot

VARIABLES
  client, reg, epoch, worker, main, on, session, clientSpent,           \* DanmakuClients
  config, running, starting, index, job, check, change, turns, reordered, missed, jobSpent, \* PollJob
  context, owned, alive, task, queue, lock, crashed, started, shotSpent \* Screenshot

Danmaku == INSTANCE DanmakuClients WITH
  None <- Nobody, MaxFail <- ClientFails, MaxDrop <- ClientDrops, MaxOp <- ClientOps,
  task <- worker, spent <- clientSpent
Poll == INSTANCE PollJob WITH
  None <- Nobody, MaxEdit <- JobEdits, MaxOff <- JobStops, MaxFail <- JobFails,
  MaxAsk <- JobAsks, MaxTurn <- JobTurns, spent <- jobSpent
Shots == INSTANCE Screenshot WITH
  None <- Nobody, MaxAsk <- ShotAsks, MaxCrash <- ShotCrashes, MaxFail <- ShotFails,
  spent <- shotSpent

\* A danmaku client that was stopped leaves nothing behind.
Closed == Danmaku!Closed

\* The poll job is that of the settings, unless a reload raised, and staggered turns are
\* even, up to one for each new order of the list.
Scheduled == Poll!Scheduled

\* No browser is closed under a page of another capture or forgotten.
Undisturbed == Shots!Undisturbed
=============================================================================
