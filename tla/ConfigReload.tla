---------------------------- MODULE ConfigReload ----------------------------
(***************************************************************************)
(* Hot reload of the configuration: the single-flight reload of            *)
(* shared/config/service.py, started by the requests of administrators     *)
(* that have just saved, and the start, stop and reload of the monitors it *)
(* drives, while bots connect and disconnect.                              *)
(*                                                                         *)
(* asyncio: a step is the code between two awaits.  The bodies under       *)
(* _reload_lock never await, so that lock is never waited for.             *)
(***************************************************************************)
EXTENDS Naturals, Sequences, FiniteSets

CONSTANTS
  Caller,    \* requests that save and then reload
  Monitor,   \* dynamic, live and X monitor
  Bot,       \* QQ bots that may connect
  Task,      \* slots for reload tasks
  None,      \* no task, no monitor; a lifecycle operation of a hook
  MaxSave,   \* bound: saved configurations
  MaxBots,   \* bound: connects and disconnects
  MaxFail    \* bound: loads, reloads of a monitor and starts that raise

ASSUME ParamAssumption == {MaxSave, MaxBots, MaxFail} \subseteq Nat
ASSUME NoneAssumption == None \notin Monitor \cup Task

VARIABLES
  db,        \* configuration in the database: its version, whether it has targets
  snap,      \* ConfigService._snapshot
  caller,    \* requests: where they are, the version they saved, the task awaited
  task,      \* reload tasks: where they are, what they read, callbacks left, running
  current,   \* _reload_task
  pending,   \* _reload_pending
  inst,      \* per monitor: its instance, and the version of its Config
  ops,       \* per monitor: who holds, and who queues for, _lifecycle_lock
  known,     \* monitors that registered their reload callback
  bots,      \* connected bots
  hooks,     \* per monitor: on_bot_connect / on_bot_disconnect hooks to run
  ack,       \* history: the newest version whose request was answered
  raised,    \* history: monitors whose last start, or reload before a stop, raised
  spent      \* budgets used

service == <<db, snap, caller, task, current, pending, ack>>
monitor == <<inst, ops, known, raised>>
world   == <<bots, hooks>>
vars    == <<service, monitor, world, spent>>

Version == 0 .. MaxSave
Config  == [ver: Version, on: BOOLEAN]
Idle == [pc |-> "free", read |-> [ver |-> 0, on |-> FALSE], todo |-> {}, cur |-> None]

NoRequest == [pc |-> "idle", ver |-> 0, task |-> None]

Init ==
  /\ \E on \in BOOLEAN : db = [ver |-> 0, on |-> on] /\ snap = db
  /\ caller = [c \in Caller |-> NoRequest]
  /\ task = [t \in Task |-> Idle] /\ current = None /\ pending = FALSE /\ ack = 0
  /\ inst = [m \in Monitor |-> [st |-> "none", ver |-> 0]]
  /\ ops = [m \in Monitor |-> <<>>]
  /\ known = {} /\ raised = {}
  /\ bots = {} /\ hooks = [m \in Monitor |-> <<>>]
  /\ spent = [bots |-> 0, fail |-> 0]

-----------------------------------------------------------------------------
(* Requests *)

Save(c) ==
  /\ caller[c].pc = "idle" /\ db.ver < MaxSave
  /\ \E on \in BOOLEAN : db' = [ver |-> db.ver + 1, on |-> on]
  /\ caller' = [caller EXCEPT ![c] = [pc |-> "saved", ver |-> db.ver + 1, task |-> None]]
  /\ UNCHANGED <<snap, task, current, pending, ack, monitor, world, spent>>

Done == current = None \/ task[current].pc = "free"

Create(t) == /\ task[t].pc = "free"
             /\ task' = [task EXCEPT ![t].pc = "load"]
             /\ current' = t

Await(c, t) == caller' = [caller EXCEPT ![c] = [@ EXCEPT !.pc = "waiting", !.task = t]]

\* Mutations of Reload: a request that meets a running task relies on what that
\* reads; every request creates a task of its own.
ReloadJoin(c) ==
  /\ caller[c].pc = "saved"
  /\ \E t \in Task : /\ IF Done THEN Create(t) ELSE t = current /\ UNCHANGED <<task, current>>
                     /\ Await(c, t)
  /\ UNCHANGED <<db, snap, pending, ack, monitor, world, spent>>

ReloadAlone(c) ==
  /\ caller[c].pc = "saved"
  /\ \E t \in Task : Create(t) /\ Await(c, t)
  /\ UNCHANGED <<db, snap, pending, ack, monitor, world, spent>>

\* reload: create the task, or ask the running one for another round.
Reload(c) ==
  /\ caller[c].pc = "saved"
  /\ \E t \in Task :
       /\ IF Done THEN Create(t) /\ UNCHANGED pending
                  ELSE t = current /\ pending' = TRUE /\ UNCHANGED <<task, current>>
       /\ Await(c, t)
  /\ UNCHANGED <<db, snap, ack, monitor, world, spent>>

\* The client goes away; the task is shielded.
Abandon(c) ==
  /\ caller[c].pc = "waiting"
  /\ caller' = [caller EXCEPT ![c] = NoRequest]
  /\ UNCHANGED <<db, snap, task, current, pending, ack, monitor, world, spent>>

-----------------------------------------------------------------------------
(* _run_reload_loop *)

\* Mutation of LoadRead: the snapshot is gone while its successor is read.
LoadReadCleared(t) ==
  /\ task[t].pc = "load"
  /\ snap' = None
  /\ task' = [task EXCEPT ![t].pc = "loaded", ![t].read = db]
  /\ UNCHANGED <<db, caller, current, pending, ack, monitor, world, spent>>

\* load: the queries run in one transaction ...
LoadRead(t) ==
  /\ task[t].pc = "load"
  /\ task' = [task EXCEPT ![t].pc = "loaded", ![t].read = db]
  /\ UNCHANGED <<db, snap, caller, current, pending, ack, monitor, world, spent>>

\* ... and the snapshot is replaced when they are done.
LoadSet(t) ==
  /\ task[t].pc = "loaded"
  /\ snap' = task[t].read
  /\ task' = [task EXCEPT ![t].pc = "sync", ![t].todo = known]
  /\ UNCHANGED <<db, caller, current, pending, ack, monitor, world, spent>>

\* The task is over: whoever waits for it gets its result.
Waiting(t) == {c \in Caller : caller[c].pc = "waiting" /\ caller[c].task = t}
End(t) ==
  /\ task' = [task EXCEPT ![t] = Idle]
  /\ caller' = [c \in Caller |-> IF c \in Waiting(t) THEN NoRequest ELSE caller[c]]

\* load() raised: everybody gets the exception, _reload_pending stays as it is.
LoadFail(t) ==
  /\ task[t].pc \in {"load", "loaded"} /\ spent.fail < MaxFail
  /\ End(t)
  /\ spent' = [spent EXCEPT !.fail = @ + 1]
  /\ UNCHANGED <<db, snap, current, pending, ack, monitor, world>>

Synced(t) == task[t].pc = "sync" /\ task[t].todo = {} /\ task[t].cur = None

\* Mutation of Again: the wish for another round is not taken back.
AgainForever(t) ==
  /\ Synced(t) /\ pending
  /\ task' = [task EXCEPT ![t].pc = "load"]
  /\ UNCHANGED <<db, snap, caller, current, pending, ack, monitor, world, spent>>

Again(t) ==
  /\ Synced(t) /\ pending
  /\ pending' = FALSE
  /\ task' = [task EXCEPT ![t].pc = "load"]
  /\ UNCHANGED <<db, snap, caller, current, ack, monitor, world, spent>>

Finish(t) ==
  /\ Synced(t) /\ ~pending
  /\ End(t)
  /\ ack' \in {ack} \cup {caller[c].ver : c \in Waiting(t)}
  /\ ack' >= ack /\ \A c \in Waiting(t) : ack' >= caller[c].ver
  /\ UNCHANGED <<db, snap, current, pending, monitor, world, spent>>

-----------------------------------------------------------------------------
(* sync_from_config_reload, the callback of a monitor *)

Enqueue(m, op, by) == ops' = [ops EXCEPT ![m] = Append(@, [op |-> op, by |-> by])]

Turn(t, m) == task[t].pc = "sync" /\ task[t].cur = None /\ m \in task[t].todo

\* No instance: start one if there are targets.
SyncStart(t, m) ==
  /\ Turn(t, m) /\ inst[m].st = "none"
  /\ IF task[t].read.on
       THEN /\ task' = [task EXCEPT ![t].todo = @ \ {m}, ![t].cur = m]
            /\ Enqueue(m, "start", t)
       ELSE task' = [task EXCEPT ![t].todo = @ \ {m}] /\ UNCHANGED ops
  /\ UNCHANGED <<db, snap, caller, current, pending, ack, inst, known, raised, world, spent>>

\* Mutation of SyncConfig: an instance that is starting is left alone.
SyncConfigRunning(t, m) ==
  /\ Turn(t, m) /\ inst[m].st # "none"
  /\ IF inst[m].st = "running"
       THEN /\ inst' = [inst EXCEPT ![m].ver = snap.ver]
            /\ task' = [task EXCEPT ![t].todo = @ \ {m}, ![t].cur = m, ![t].pc = "config"]
            /\ raised' = raised \ {m}
       ELSE task' = [task EXCEPT ![t].todo = @ \ {m}] /\ UNCHANGED <<inst, raised>>
  /\ UNCHANGED <<db, snap, caller, current, pending, ack, ops, known, world, spent>>

\* reload_config: take the configuration; applying it awaits the database.
SyncConfig(t, m) ==
  /\ Turn(t, m) /\ inst[m].st # "none"
  /\ inst' = [inst EXCEPT ![m].ver = snap.ver]
  /\ task' = [task EXCEPT ![t].todo = @ \ {m}, ![t].cur = m, ![t].pc = "config"]
  /\ raised' = raised \ {m}
  /\ UNCHANGED <<db, snap, caller, current, pending, ack, ops, known, world, spent>>

\* ... or the database raises when the state of a removed or new target is deleted:
\* the monitor keeps the configuration it took, and is not stopped.
ConfigFail(t) ==
  /\ task[t].pc = "config" /\ spent.fail < MaxFail
  /\ task' = [task EXCEPT ![t].pc = "sync", ![t].cur = None]
  /\ raised' = IF task[t].read.on THEN raised ELSE raised \cup {task[t].cur}
  /\ spent' = [spent EXCEPT !.fail = @ + 1]
  /\ UNCHANGED <<db, snap, caller, current, pending, ack, inst, ops, known, world>>

\* ... and then stop, when the last target is gone.
SyncStop(t) ==
  /\ task[t].pc = "config"
  /\ IF task[t].read.on
       THEN task' = [task EXCEPT ![t].pc = "sync", ![t].cur = None] /\ UNCHANGED ops
       ELSE task' = [task EXCEPT ![t].pc = "sync"] /\ Enqueue(task[t].cur, "stop", t)
  /\ UNCHANGED <<db, snap, caller, current, pending, ack, inst, known, raised, world, spent>>

\* The awaited start or stop is over.
SyncDone(t) ==
  /\ task[t].pc = "sync" /\ task[t].cur # None
  /\ \A i \in DOMAIN ops[task[t].cur] : ops[task[t].cur][i].by # t
  /\ task' = [task EXCEPT ![t].cur = None]
  /\ UNCHANGED <<db, snap, caller, current, pending, ack, monitor, world, spent>>

-----------------------------------------------------------------------------
(* start_*_monitor and stop_*_monitor, under _lifecycle_lock *)

Holds(m, op) == ops[m] # <<>> /\ Head(ops[m]).op = op
Release(m) == ops' = [ops EXCEPT ![m] = Tail(@)]

\* Registers the callback; runs nothing when the monitor is up or has no targets.
StartBegin(m) ==
  /\ Holds(m, "start") /\ inst[m].st \in {"none", "running"}
  /\ known' = known \cup {m}
  /\ IF inst[m].st = "running" \/ ~snap.on
       THEN Release(m) /\ UNCHANGED <<inst, raised>>
       ELSE /\ inst' = [inst EXCEPT ![m] = [st |-> "starting", ver |-> snap.ver]]
            /\ raised' = raised \ {m}
            /\ UNCHANGED ops
  /\ UNCHANGED <<service, world, spent>>

StartDone(m) ==
  /\ Holds(m, "start") /\ inst[m].st = "starting"
  /\ inst' = [inst EXCEPT ![m].st = "running"]
  /\ Release(m)
  /\ UNCHANGED <<service, known, raised, world, spent>>

\* init_resources raised: the instance is dropped, and nobody tries again.
StartFail(m) ==
  /\ Holds(m, "start") /\ inst[m].st = "starting" /\ spent.fail < MaxFail
  /\ inst' = [inst EXCEPT ![m] = [st |-> "none", ver |-> 0]]
  /\ Release(m)
  /\ raised' = raised \cup {m}
  /\ spent' = [spent EXCEPT !.fail = @ + 1]
  /\ UNCHANGED <<service, known, world>>

StopBegin(m) ==
  /\ Holds(m, "stop") /\ inst[m].st \in {"none", "running"}
  /\ IF inst[m].st = "none"
       THEN Release(m) /\ UNCHANGED inst
       ELSE inst' = [inst EXCEPT ![m].st = "stopping"] /\ UNCHANGED ops
  /\ UNCHANGED <<service, known, raised, world, spent>>

\* The deliveries are drained, the resources closed.
StopDone(m) ==
  /\ Holds(m, "stop") /\ inst[m].st = "stopping"
  /\ inst' = [inst EXCEPT ![m] = [st |-> "none", ver |-> 0]]
  /\ Release(m)
  /\ UNCHANGED <<service, known, raised, world, spent>>

-----------------------------------------------------------------------------
(* Bots *)

Notify(event) == hooks' = [m \in Monitor |-> Append(hooks[m], event)]

Connect(b) ==
  /\ b \notin bots /\ spent.bots < MaxBots
  /\ bots' = bots \cup {b}
  /\ Notify("connect")
  /\ spent' = [spent EXCEPT !.bots = @ + 1]
  /\ UNCHANGED <<service, monitor>>

Disconnect(b) ==
  /\ b \in bots /\ spent.bots < MaxBots
  /\ bots' = bots \ {b}
  /\ Notify("disconnect")
  /\ spent' = [spent EXCEPT !.bots = @ + 1]
  /\ UNCHANGED <<service, monitor>>

\* Mutation of Hook: a disconnect stops the monitor although a bot is left.
HookStops(m) ==
  /\ hooks[m] # <<>>
  /\ Enqueue(m, IF Head(hooks[m]) = "connect" THEN "start" ELSE "stop", None)
  /\ hooks' = [hooks EXCEPT ![m] = Tail(@)]
  /\ UNCHANGED <<service, inst, known, raised, bots, spent>>

\* A disconnect stops the monitor only when no bot is left by now.
Hook(m) ==
  /\ hooks[m] # <<>>
  /\ IF Head(hooks[m]) = "connect" THEN Enqueue(m, "start", None)
     ELSE IF bots = {} THEN Enqueue(m, "stop", None)
     ELSE UNCHANGED ops
  /\ hooks' = [hooks EXCEPT ![m] = Tail(@)]
  /\ UNCHANGED <<service, inst, known, raised, bots, spent>>

-----------------------------------------------------------------------------

Request(c) == Save(c) \/ Reload(c) \/ Abandon(c)
Round(t) == \/ LoadRead(t) \/ LoadSet(t) \/ LoadFail(t) \/ Again(t) \/ Finish(t)
            \/ ConfigFail(t) \/ SyncStop(t) \/ SyncDone(t)
            \/ \E m \in Monitor : SyncStart(t, m) \/ SyncConfig(t, m)
Lifecycle(m) == \/ StartBegin(m) \/ StartDone(m) \/ StartFail(m)
                \/ StopBegin(m) \/ StopDone(m) \/ Hook(m)

Next == \/ \E c \in Caller : Request(c)
        \/ \E t \in Task : Round(t)
        \/ \E m \in Monitor : Lifecycle(m)
        \/ \E b \in Bot : Connect(b) \/ Disconnect(b)

Spec == Init /\ [][Next]_vars

\* The loop runs every ready coroutine, the database answers, deliveries drain.
Fairness ==
  /\ \A c \in Caller : WF_vars(Reload(c))
  /\ \A t \in Task : WF_vars(\/ LoadRead(t) \/ LoadSet(t) \/ Again(t) \/ Finish(t)
                             \/ SyncStop(t) \/ SyncDone(t)
                             \/ \E m \in Monitor : SyncStart(t, m) \/ SyncConfig(t, m))
  /\ \A m \in Monitor :
       /\ WF_vars(StartBegin(m) \/ StartDone(m) \/ StopBegin(m) \/ StopDone(m))
       /\ WF_vars(Hook(m))

FairSpec == Spec /\ Fairness

-----------------------------------------------------------------------------
(* Properties *)

Op == [op: {"start", "stop"}, by: Task \cup {None}]
CallerRec == [pc: {"idle", "saved", "waiting"}, ver: Version, task: Task \cup {None}]
TaskRec == [pc: {"free", "load", "loaded", "sync", "config"}, read: Config,
            todo: SUBSET Monitor, cur: Monitor \cup {None}]
Instance == [st: {"none", "starting", "running", "stopping"}, ver: Version]

\* Requests, reload task, monitors and their lock queues stay well formed; a task
\* that applies a configuration does so to a monitor.
TypeOK ==
  /\ db \in Config /\ snap \in Config
  /\ caller \in [Caller -> CallerRec]
  /\ task \in [Task -> TaskRec]
  /\ \A t \in Task : task[t].pc = "config" => task[t].cur # None
  /\ current \in Task \cup {None}
  /\ pending \in BOOLEAN /\ ack \in Version
  /\ inst \in [Monitor -> Instance]
  /\ ops \in [Monitor -> Seq(Op)]
  /\ known \subseteq Monitor /\ raised \subseteq Monitor /\ bots \subseteq Bot
  /\ hooks \in [Monitor -> Seq({"connect", "disconnect"})]
  /\ spent \in [bots: Nat, fail: Nat]

\* A request that was answered without an error has its configuration in force:
\* the snapshot, and the Config of every monitor instance, are not older than
\* what it saved, although it may have joined a reload that had read before.
Applied == /\ ack <= snap.ver
           /\ \A m \in Monitor : inst[m].st # "none" => ack <= inst[m].ver

\* No instance is left on an older configuration: once the callbacks of a reload
\* have run, those that were started or reloaded meanwhile are on its snapshot.
Current == (\A t \in Task : task[t].pc \notin {"sync", "config"}) =>
             \A m \in Monitor : inst[m].st # "none" => inst[m].ver = snap.ver

\* There is one reload at a time.
SingleFlight == \A t, u \in Task : task[t].pc # "free" /\ task[u].pc # "free" => t = u

\* The snapshot never goes back to an older configuration.
Forward == [][snap'.ver >= snap.ver]_vars

\* Every request is answered.
RequestsEnd == \A c \in Caller : caller[c].pc # "idle" ~> caller[c].pc = "idle"

\* In the end a monitor runs if there are targets and a bot, unless its last start
\* raised, and is down if there are no targets, unless the reload that would have
\* stopped it raised; nor does one run without a bot unless a reload started it.  No
\* interleaving of stops, starts and reloads leaves it otherwise.
Followed == \A m \in Monitor :
  /\ <>[](inst[m].st = "running" \/ ~snap.on \/ bots = {} \/ m \in raised)
  /\ <>[](inst[m].st = "none" \/ snap.on \/ m \in raised)
  /\ <>[](inst[m].st = "none" \/ bots # {} \/ db.ver > 0)
=============================================================================
