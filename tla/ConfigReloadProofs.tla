------------------------- MODULE ConfigReloadProofs -------------------------
(***************************************************************************)
(* That a request which was answered is in force (Applied), that reloads   *)
(* leave no instance behind (Current), that there is one reload at a time  *)
(* (SingleFlight) and that the snapshot moves forward only (Forward), for  *)
(* any number of requests, tasks, monitors and bots.                       *)
(***************************************************************************)
EXTENDS ConfigReload, SequenceTheorems, TLAPS

\* Only the task in _reload_task runs.
OneTask == \A t \in Task : task[t].pc # "free" => t = current

\* The snapshot is not newer than what the task is about to replace it with, that
\* is not newer than the database, and the callbacks run on the snapshot.
Versions ==
  /\ ack <= snap.ver /\ snap.ver <= db.ver
  /\ \A c \in Caller : caller[c].ver <= db.ver
  /\ \A t \in Task : /\ task[t].pc = "loaded" => /\ snap.ver <= task[t].read.ver
                                                 /\ task[t].read.ver <= db.ver
                     /\ task[t].pc \in {"sync", "config"} => task[t].read = snap

\* What a request saved is in the snapshot, or in what the task it awaits has read,
\* or will be read.
Covered(c) == \E t \in Task :
  /\ t = current /\ t = caller[c].task
  /\ \/ task[t].pc = "load"
     \/ task[t].pc = "loaded" /\ (pending \/ caller[c].ver <= task[t].read.ver)
     \/ task[t].pc \in {"sync", "config"} /\ (pending \/ caller[c].ver <= snap.ver)
Waiters == \A c \in Caller : caller[c].pc = "waiting" => Covered(c)

\* An instance is on the snapshot, or its callback is still to be called.
UpToDate(m) == \/ inst[m].ver = snap.ver
               \/ \E t \in Task : task[t].pc \in {"sync", "config"} /\ m \in task[t].todo
Instances == \A m \in Monitor : inst[m].st # "none" =>
               m \in known /\ ack <= inst[m].ver /\ UpToDate(m)

Inv == TypeOK /\ OneTask /\ Versions /\ Waiters /\ Instances

-----------------------------------------------------------------------------
(* Types *)

\* The initial state is well formed.
LEMMA InitType == Init => TypeOK
<1>1. Idle \in TaskRec /\ NoRequest \in CallerRec /\ [st |-> "none", ver |-> 0] \in Instance
  BY ParamAssumption DEF Idle, NoRequest, TaskRec, CallerRec, Instance, Config, Version
<1>2. Idle.pc # "config"
  BY DEF Idle
<1>3. Init => db \in Config /\ ack \in Version /\ spent \in [bots: Nat, fail: Nat]
  BY ParamAssumption DEF Init, Config, Version
<1>4. <<>> \in Seq(Op) /\ <<>> \in Seq({"connect", "disconnect"})
  OBVIOUS
<1> QED BY <1>1, <1>2, <1>3, <1>4 DEF Init, TypeOK

\* A request saves, reloads, and goes away.
LEMMA RequestType == TypeOK /\ (\E c \in Caller : Request(c)) => TypeOK'
<1> SUFFICES ASSUME TypeOK, NEW c \in Caller, Request(c) PROVE TypeOK'
  OBVIOUS
<1>0. caller[c] \in CallerRec /\ caller \in [Caller -> CallerRec]
  BY DEF TypeOK
<1>1. CASE Save(c)
  <2>1. db.ver + 1 \in Version /\ db' \in Config
    BY <1>1, ParamAssumption DEF Save, TypeOK, Version, Config
  <2>2. [pc |-> "saved", ver |-> db.ver + 1, task |-> None] \in CallerRec
    BY <2>1 DEF CallerRec
  <2> QED BY <1>1, <2>1, <2>2 DEF Save, TypeOK, monitor, world
<1>2. CASE Reload(c)
  <2> PICK t \in Task : /\ IF Done THEN Create(t) /\ UNCHANGED pending
                              ELSE t = current /\ pending' = TRUE /\ UNCHANGED <<task, current>>
                        /\ Await(c, t)
    BY <1>2 DEF Reload
  <2>1. caller' \in [Caller -> CallerRec]
    <3>1. [caller[c] EXCEPT !.pc = "waiting", !.task = t] \in CallerRec
      BY <1>0 DEF CallerRec
    <3>2. caller' = [caller EXCEPT ![c] = [caller[c] EXCEPT !.pc = "waiting", !.task = t]]
      BY <1>0 DEF Await
    <3> QED BY <1>0, <3>1, <3>2
  <2>2. /\ task' \in [Task -> TaskRec] /\ current' \in Task \cup {None}
        /\ \A u \in Task : task'[u].pc = "config" => task'[u].cur # None
    <3>1. task[t] \in TaskRec /\ task \in [Task -> TaskRec]
      BY DEF TypeOK
    <3>2. CASE Done
      <4>1. task' = [task EXCEPT ![t].pc = "load"] /\ current' = t
        BY <3>2 DEF Create
      <4>2. [task[t] EXCEPT !.pc = "load"] \in TaskRec
        BY <3>1 DEF TaskRec
      <4> QED BY <3>1, <4>1, <4>2 DEF TypeOK
    <3>3. CASE ~Done
      BY <3>1, <3>3 DEF TypeOK
    <3> QED BY <3>2, <3>3
  <2>3. pending' \in BOOLEAN
    BY DEF TypeOK
  <2> QED BY <1>2, <2>1, <2>2, <2>3 DEF Reload, TypeOK, monitor, world
<1>3. CASE Abandon(c)
  <2>1. NoRequest \in CallerRec
    BY ParamAssumption DEF NoRequest, CallerRec, Version
  <2> QED BY <1>3, <2>1 DEF Abandon, TypeOK, monitor, world
<1> QED BY <1>1, <1>2, <1>3 DEF Request

\* The end of a task frees those that wait for it.
LEMMA EndType == ASSUME TypeOK, NEW t \in Task, End(t)
                 PROVE  /\ task' \in [Task -> TaskRec]
                        /\ \A u \in Task : task'[u].pc = "config" => task'[u].cur # None
                        /\ caller' \in [Caller -> CallerRec]
<1>1. Idle \in TaskRec /\ NoRequest \in CallerRec
  BY ParamAssumption DEF Idle, NoRequest, TaskRec, CallerRec, Config, Version
<1>2. Idle.pc # "config"
  BY DEF Idle
<1> QED BY <1>1, <1>2 DEF TypeOK, End

\* An operation joins the queue of a lifecycle lock.
LEMMA EnqueueType == ASSUME TypeOK, NEW m \in Monitor, NEW by \in Task \cup {None},
                            NEW op \in {"start", "stop"}, Enqueue(m, op, by)
                     PROVE  ops' \in [Monitor -> Seq(Op)]
<1>1. [op |-> op, by |-> by] \in Op
  BY DEF Op
<1>2. Append(ops[m], [op |-> op, by |-> by]) \in Seq(Op)
  BY <1>1, AppendProperties DEF TypeOK
<1> QED BY <1>2 DEF Enqueue, TypeOK

\* The holder of a lifecycle lock leaves.
LEMMA ReleaseType == ASSUME TypeOK, NEW m \in Monitor, ops[m] # <<>>, Release(m)
                     PROVE  ops' \in [Monitor -> Seq(Op)]
<1>1. Tail(ops[m]) \in Seq(Op)
  BY HeadTailProperties DEF TypeOK
<1> QED BY <1>1 DEF Release, TypeOK

\* A round of the reload task.
LEMMA RoundType == TypeOK /\ (\E t \in Task : Round(t)) => TypeOK'
<1> SUFFICES ASSUME TypeOK, NEW t \in Task, Round(t) PROVE TypeOK'
  OBVIOUS
<1> DEFINE Good(f) == /\ f \in [Task -> TaskRec]
                      /\ \A u \in Task : f[u].pc = "config" => f[u].cur # None
<1>0. task[t] \in TaskRec /\ Good(task)
  BY DEF TypeOK
<1>1. CASE LoadRead(t)
  <2>1. Good(task')
    BY <1>0, <1>1 DEF LoadRead, TypeOK, TaskRec
  <2> QED BY <1>1, <2>1 DEF LoadRead, TypeOK, monitor, world
<1>2. CASE LoadSet(t)
  <2>1. Good(task') /\ snap' \in Config
    BY <1>0, <1>2 DEF LoadSet, TypeOK, TaskRec
  <2> QED BY <1>2, <2>1 DEF LoadSet, TypeOK, monitor, world
<1>3. CASE LoadFail(t)
  <2>1. Good(task') /\ caller' \in [Caller -> CallerRec]
    BY <1>3, EndType DEF LoadFail
  <2>2. spent' \in [bots: Nat, fail: Nat]
    <3>1. spent \in [bots: Nat, fail: Nat] /\ spent' = [spent EXCEPT !.fail = @ + 1]
      BY <1>3 DEF LoadFail, TypeOK
    <3> QED BY <3>1
  <2> QED BY <1>3, <2>1, <2>2 DEF LoadFail, TypeOK, monitor, world
<1>4. CASE Again(t)
  <2>1. Good(task')
    BY <1>0, <1>4 DEF Again, TaskRec
  <2> QED BY <1>4, <2>1 DEF Again, TypeOK, monitor, world
<1>5. CASE Finish(t)
  <2>1. Good(task') /\ caller' \in [Caller -> CallerRec]
    BY <1>5, EndType DEF Finish
  <2>2. ack' \in Version
    BY <1>5 DEF Finish, Waiting, TypeOK, CallerRec
  <2> QED BY <1>5, <2>1, <2>2 DEF Finish, TypeOK, monitor, world
<1>6. CASE SyncStop(t)
  <2>1. Good(task')
    BY <1>0, <1>6 DEF SyncStop, TaskRec
  <2>2. ops' \in [Monitor -> Seq(Op)]
    <3>1. task[t].cur \in Monitor
      BY <1>0, <1>6 DEF SyncStop, TypeOK, TaskRec
    <3> QED BY <1>6, <3>1, EnqueueType DEF SyncStop, TypeOK
  <2> QED BY <1>6, <2>1, <2>2 DEF SyncStop, TypeOK, world
<1>7. CASE SyncDone(t)
  <2>1. Good(task')
    BY <1>0, <1>7 DEF SyncDone, TaskRec
  <2> QED BY <1>7, <2>1 DEF SyncDone, TypeOK, monitor, world
<1>8. ASSUME NEW m \in Monitor, SyncStart(t, m) PROVE TypeOK'
  <2>1. Good(task')
    BY <1>0, <1>8 DEF SyncStart, Turn, TaskRec
  <2>2. ops' \in [Monitor -> Seq(Op)]
    BY <1>8, EnqueueType DEF SyncStart, TypeOK
  <2> QED BY <1>8, <2>1, <2>2 DEF SyncStart, TypeOK, world
<1>9. ASSUME NEW m \in Monitor, SyncConfig(t, m) PROVE TypeOK'
  <2>1. Good(task')
    BY <1>0, <1>9, NoneAssumption DEF SyncConfig, TaskRec
  <2>2. inst' \in [Monitor -> Instance]
    <3>1. inst[m] \in Instance /\ snap.ver \in Version
      BY DEF TypeOK, Config
    <3> QED BY <1>9, <3>1 DEF SyncConfig, TypeOK, Instance
  <2> QED BY <1>9, <2>1, <2>2 DEF SyncConfig, TypeOK, world
<1>10. CASE ConfigFail(t)
  <2>1. Good(task') /\ raised' \subseteq Monitor
    <3>1. task[t].cur \in Monitor
      BY <1>0, <1>10 DEF ConfigFail, TypeOK, TaskRec
    <3> QED BY <1>0, <1>10, <3>1 DEF ConfigFail, TypeOK, TaskRec
  <2>2. spent' \in [bots: Nat, fail: Nat]
    <3>1. spent \in [bots: Nat, fail: Nat] /\ spent' = [spent EXCEPT !.fail = @ + 1]
      BY <1>10 DEF ConfigFail, TypeOK
    <3> QED BY <3>1
  <2> QED BY <1>10, <2>1, <2>2 DEF ConfigFail, TypeOK, world
<1> QED BY <1>1, <1>2, <1>3, <1>4, <1>5, <1>6, <1>7, <1>8, <1>9, <1>10 DEF Round

\* The holder of a lifecycle lock starts or stops a monitor; a hook runs.
LEMMA LifecycleType == TypeOK /\ (\E m \in Monitor : Lifecycle(m)) => TypeOK'
<1> SUFFICES ASSUME TypeOK, NEW m \in Monitor, Lifecycle(m) PROVE TypeOK'
  OBVIOUS
<1>0. /\ inst \in [Monitor -> Instance] /\ inst[m] \in Instance /\ snap.ver \in Version
      /\ 0 \in Version
  BY ParamAssumption DEF TypeOK, Config, Version
<1>1. CASE StartBegin(m)
  <2>1. ops' \in [Monitor -> Seq(Op)]
    BY <1>1, ReleaseType DEF StartBegin, Holds, TypeOK
  <2>2. inst' \in [Monitor -> Instance]
    BY <1>0, <1>1 DEF StartBegin, Instance
  <2> QED BY <1>1, <2>1, <2>2 DEF StartBegin, TypeOK, service, world
<1>2. CASE StartDone(m)
  <2>1. ops' \in [Monitor -> Seq(Op)]
    BY <1>2, ReleaseType DEF StartDone, Holds
  <2>2. inst' \in [Monitor -> Instance]
    BY <1>0, <1>2 DEF StartDone, Instance
  <2> QED BY <1>2, <2>1, <2>2 DEF StartDone, TypeOK, service, world
<1>3. CASE StartFail(m)
  <2>1. ops' \in [Monitor -> Seq(Op)]
    BY <1>3, ReleaseType DEF StartFail, Holds
  <2>2. inst' \in [Monitor -> Instance]
    BY <1>0, <1>3 DEF StartFail, Instance
  <2>3. spent' \in [bots: Nat, fail: Nat]
    <3>1. spent \in [bots: Nat, fail: Nat] /\ spent' = [spent EXCEPT !.fail = @ + 1]
      BY <1>3 DEF StartFail, TypeOK
    <3> QED BY <3>1
  <2> QED BY <1>3, <2>1, <2>2, <2>3 DEF StartFail, TypeOK, service, world
<1>4. CASE StopBegin(m)
  <2>1. ops' \in [Monitor -> Seq(Op)]
    BY <1>4, ReleaseType DEF StopBegin, Holds, TypeOK
  <2>2. inst' \in [Monitor -> Instance]
    BY <1>0, <1>4 DEF StopBegin, Instance
  <2> QED BY <1>4, <2>1, <2>2 DEF StopBegin, TypeOK, service, world
<1>5. CASE StopDone(m)
  <2>1. ops' \in [Monitor -> Seq(Op)]
    BY <1>5, ReleaseType DEF StopDone, Holds
  <2>2. inst' \in [Monitor -> Instance]
    BY <1>0, <1>5 DEF StopDone, Instance
  <2> QED BY <1>5, <2>1, <2>2 DEF StopDone, TypeOK, service, world
<1>6. CASE Hook(m)
  <2>1. ops' \in [Monitor -> Seq(Op)]
    BY <1>6, EnqueueType DEF Hook, TypeOK
  <2>2. hooks' \in [Monitor -> Seq({"connect", "disconnect"})]
    <3>1. Tail(hooks[m]) \in Seq({"connect", "disconnect"})
      BY <1>6, HeadTailProperties DEF Hook, TypeOK
    <3> QED BY <1>6, <3>1 DEF Hook, TypeOK
  <2> QED BY <1>6, <2>1, <2>2 DEF Hook, TypeOK, service
<1> QED BY <1>1, <1>2, <1>3, <1>4, <1>5, <1>6 DEF Lifecycle

\* A bot connects or disconnects.
LEMMA BotType == TypeOK /\ (\E b \in Bot : Connect(b) \/ Disconnect(b)) => TypeOK'
<1> SUFFICES ASSUME TypeOK, NEW b \in Bot, Connect(b) \/ Disconnect(b) PROVE TypeOK'
  OBVIOUS
<1>1. bots' \subseteq Bot
  BY DEF Connect, Disconnect, TypeOK
<1>2. hooks' \in [Monitor -> Seq({"connect", "disconnect"})]
  <2>1. ASSUME NEW event \in {"connect", "disconnect"}, Notify(event)
        PROVE  hooks' \in [Monitor -> Seq({"connect", "disconnect"})]
    <3>1. ASSUME NEW m \in Monitor
          PROVE  Append(hooks[m], event) \in Seq({"connect", "disconnect"})
      BY AppendProperties DEF TypeOK
    <3> QED BY <2>1, <3>1 DEF Notify
  <2> QED BY <2>1 DEF Connect, Disconnect
<1>3. spent' \in [bots: Nat, fail: Nat]
  <2>1. spent \in [bots: Nat, fail: Nat] /\ spent' = [spent EXCEPT !.bots = @ + 1]
    BY DEF Connect, Disconnect, TypeOK
  <2> QED BY <2>1
<1>4. UNCHANGED <<service, monitor>>
  BY DEF Connect, Disconnect
<1> QED BY <1>1, <1>2, <1>3, <1>4 DEF TypeOK, service, monitor

\* So is a state that does not change,
LEMMA StutterType == TypeOK /\ UNCHANGED vars => TypeOK'
  BY DEF TypeOK, vars, service, monitor, world

\* ... and the state after any step.
LEMMA StepType == TypeOK /\ [Next]_vars => TypeOK'
  BY RequestType, RoundType, LifecycleType, BotType, StutterType DEF Next

-----------------------------------------------------------------------------
(* The inductive invariant *)

Safe == OneTask /\ Versions /\ Waiters /\ Instances
\* The invariant is its types and the part about versions.
LEMMA InvIsSafe == Inv <=> TypeOK /\ Safe
  BY DEF Inv, Safe

\* Nothing is loaded or awaited at first, and no monitor runs.
LEMMA InitSafe == Init => Safe
  BY ParamAssumption
  DEF Init, Safe, OneTask, Versions, Waiters, Instances, Idle, NoRequest, Version

\* Versions are naturals.
LEMMA VersionType ==
  ASSUME TypeOK
  PROVE  /\ Version \subseteq Nat
         /\ db.ver \in Nat /\ snap.ver \in Nat /\ ack \in Nat
         /\ \A c \in Caller : caller[c].ver \in Nat
         /\ \A t \in Task : task[t].read.ver \in Nat
         /\ \A m \in Monitor : inst[m].ver \in Nat
<1>1. Version \subseteq Nat
  BY ParamAssumption DEF Version
<1> QED BY <1>1 DEF TypeOK, Config, CallerRec, TaskRec, Instance

\* Requests leave monitors alone.
LEMMA RequestSafe == Inv /\ (\E c \in Caller : Request(c)) => Safe'
<1> SUFFICES ASSUME Inv, NEW c \in Caller, Request(c) PROVE Safe'
  OBVIOUS
<1>0. /\ TypeOK /\ OneTask /\ Versions /\ Waiters /\ Instances
      /\ caller \in [Caller -> CallerRec] /\ task \in [Task -> TaskRec]
      /\ None \notin Task
  BY NoneAssumption DEF Inv, TypeOK
<1>1. CASE Save(c)
  <2>1. db'.ver = db.ver + 1 /\ UNCHANGED <<snap, task, current, pending, ack, inst, known>>
    BY <1>1 DEF Save, monitor
  <2>2. \A d \in Caller : caller'[d] = IF d = c THEN [pc |-> "saved", ver |-> db.ver + 1, task |-> None]
                                              ELSE caller[d]
    BY <1>0, <1>1 DEF Save
  <2>3. Versions'
    BY <1>0, <2>1, <2>2, VersionType DEF Versions
  <2>4. Waiters'
    BY <1>0, <2>1, <2>2 DEF Waiters, Covered
  <2>5. OneTask' /\ Instances'
    BY <1>0, <2>1 DEF OneTask, Instances, UpToDate
  <2> QED BY <2>3, <2>4, <2>5 DEF Safe
<1>2. CASE Reload(c)
  <2> PICK t \in Task : /\ IF Done THEN Create(t) /\ UNCHANGED pending
                              ELSE t = current /\ pending' = TRUE /\ UNCHANGED <<task, current>>
                        /\ Await(c, t)
    BY <1>2 DEF Reload
  <2>1. UNCHANGED <<db, snap, ack, inst, known>>
    BY <1>2 DEF Reload, monitor
  <2>2. \A d \in Caller : /\ d # c => caller'[d] = caller[d]
                          /\ caller'[d].ver = caller[d].ver
                          /\ d = c => caller'[d].pc = "waiting" /\ caller'[d].task = t
    BY <1>0 DEF Await, CallerRec
  <2>3. CASE Done
    <3>1. task[t].pc = "free" /\ current' = t
      BY <2>3 DEF Create
    <3>2. /\ task'[t].pc = "load" /\ UNCHANGED pending
          /\ \A u \in Task : u # t => task'[u] = task[u]
      BY <1>0, <2>3 DEF Create, TaskRec
    <3>3. \A u \in Task : task[u].pc = "free"
      BY <1>0, <2>3 DEF OneTask, Done
    <3>4. \A d \in Caller : caller[d].pc # "waiting"
      BY <1>0, <3>3 DEF Waiters, Covered
    <3>5. OneTask'
      BY <3>1, <3>2, <3>3 DEF OneTask
    <3>6. Versions'
      BY <1>0, <2>1, <2>2, <3>2, <3>3 DEF Versions
    <3>7. Waiters'
      BY <2>2, <3>1, <3>2, <3>4 DEF Waiters, Covered
    <3>8. Instances'
      BY <1>0, <2>1, <3>2, <3>3 DEF Instances, UpToDate
    <3> QED BY <3>5, <3>6, <3>7, <3>8 DEF Safe
  <2>4. CASE ~Done
    <3>1. /\ t = current /\ task[t].pc # "free" /\ pending' /\ UNCHANGED <<task, current>>
      BY <2>4 DEF Done
    <3>2. task[t].pc \in {"load", "loaded", "sync", "config"}
      BY <1>0, <3>1 DEF TaskRec
    <3>3. Waiters'
      BY <1>0, <2>1, <2>2, <3>1, <3>2 DEF Waiters, Covered
    <3>4. OneTask' /\ Instances'
      BY <1>0, <2>1, <3>1 DEF OneTask, Instances, UpToDate
    <3>5. Versions'
      BY <1>0, <2>1, <2>2, <3>1 DEF Versions
    <3> QED BY <3>3, <3>4, <3>5 DEF Safe
  <2> QED BY <2>3, <2>4
<1>3. CASE Abandon(c)
  <2>1. UNCHANGED <<db, snap, task, current, pending, ack, inst, known>>
    BY <1>3 DEF Abandon, monitor
  <2>2. \A d \in Caller : /\ d # c => caller'[d] = caller[d]
                          /\ d = c => caller'[d].pc = "idle" /\ caller'[d].ver = 0
    BY <1>0, <1>3 DEF Abandon, NoRequest
  <2>3. Versions'
    BY <1>0, <2>1, <2>2, VersionType DEF Versions
  <2>4. Waiters'
    BY <1>0, <2>1, <2>2 DEF Waiters, Covered
  <2>5. OneTask' /\ Instances'
    BY <1>0, <2>1 DEF OneTask, Instances, UpToDate
  <2> QED BY <2>3, <2>4, <2>5 DEF Safe
<1> QED BY <1>1, <1>2, <1>3 DEF Request

\* A round of the reload task t, which is then the only one that runs.
LEMMA RoundSafe == Inv /\ (\E t \in Task : Round(t)) => Safe'
<1> SUFFICES ASSUME Inv, NEW t \in Task, Round(t) PROVE Safe'
  OBVIOUS
<1>0. /\ TypeOK /\ OneTask /\ Versions /\ Waiters /\ Instances
      /\ caller \in [Caller -> CallerRec] /\ task \in [Task -> TaskRec]
      /\ task[t] \in TaskRec /\ None \notin Task
  BY NoneAssumption DEF Inv, TypeOK
<1>a. \A u \in Task : u # t /\ task[t].pc # "free" => task[u].pc = "free"
  BY <1>0 DEF OneTask
\* A task that goes on is the one that ran before.
<1>b. ASSUME task[t].pc # "free", \A u \in Task : u # t => task'[u] = task[u],
             UNCHANGED current
      PROVE  OneTask'
  BY <1>0, <1>b DEF OneTask
\* A step that leaves requests and versions alone, and the task where it is.
<1>c. ASSUME task[t].pc \in {"sync", "config"}, task'[t].pc \in {"sync", "config"},
             task'[t].read = task[t].read, \A u \in Task : u # t => task'[u] = task[u],
             UNCHANGED <<db, snap, caller, current, pending, ack>>
      PROVE  OneTask' /\ Versions' /\ Waiters'
  <2>1. Versions'
    BY <1>0, <1>a, <1>c DEF Versions
  <2>2. Waiters'
    BY <1>0, <1>c DEF Waiters, Covered
  <2> QED BY <1>b, <1>c, <2>1, <2>2
\* A task that is over frees its waiters, and nobody else waits.
<1>d. ASSUME task[t].pc # "free", End(t), UNCHANGED current
      PROVE  /\ OneTask' /\ Waiters'
             /\ \A u \in Task : task'[u].pc = "free"
             /\ \A d \in Caller : caller'[d].ver \in {0, caller[d].ver}
  <2>1. /\ task'[t].pc = "free" /\ \A u \in Task : u # t => task'[u] = task[u]
        /\ \A d \in Caller : caller'[d] = IF d \in Waiting(t) THEN NoRequest ELSE caller[d]
    BY <1>0, <1>d DEF End, Idle
  <2>2. \A d \in Caller : caller[d].pc = "waiting" => d \in Waiting(t)
    BY <1>0, <1>a, <1>d DEF Waiters, Covered, Waiting
  <2>3. \A d \in Caller : caller'[d].pc # "waiting" /\ caller'[d].ver \in {0, caller[d].ver}
    BY <2>1, <2>2 DEF NoRequest
  <2>4. \A u \in Task : task'[u].pc = "free"
    BY <1>a, <1>d, <2>1
  <2> QED BY <2>3, <2>4 DEF OneTask, Waiters
<1>1. CASE LoadRead(t)
  <2>1. /\ task[t].pc = "load" /\ task'[t].pc = "loaded" /\ task'[t].read = db
        /\ \A u \in Task : u # t => task'[u] = task[u]
        /\ UNCHANGED <<db, snap, caller, current, pending, ack, inst, known>>
    BY <1>0, <1>1 DEF LoadRead, TaskRec, monitor
  <2>2. Versions'
    BY <1>0, <1>a, <2>1, VersionType DEF Versions
  <2>3. Waiters'
    BY <1>0, <2>1 DEF Waiters, Covered, Versions
  <2>4. Instances'
    BY <1>0, <1>a, <2>1 DEF Instances, UpToDate
  <2> QED BY <1>b, <2>1, <2>2, <2>3, <2>4 DEF Safe
<1>2. CASE LoadSet(t)
  <2>1. /\ task[t].pc = "loaded" /\ task'[t].pc = "sync" /\ task'[t].read = task[t].read
        /\ task'[t].todo = known /\ snap' = task[t].read
        /\ \A u \in Task : u # t => task'[u] = task[u]
        /\ UNCHANGED <<db, caller, current, pending, ack, inst, known>>
    BY <1>0, <1>2 DEF LoadSet, TaskRec, monitor
  <2>2. Versions'
    BY <1>0, <1>a, <2>1, VersionType DEF Versions
  <2>3. Waiters'
    <3> SUFFICES ASSUME NEW c \in Caller, caller[c].pc = "waiting" PROVE Covered(c)'
      BY <2>1 DEF Waiters
    <3>1. t = current /\ t = caller[c].task /\ (pending \/ caller[c].ver <= task[t].read.ver)
      BY <1>0, <2>1 DEF Waiters, Covered, OneTask
    <3> QED BY <2>1, <3>1 DEF Covered
  <2>4. Instances'
    BY <1>0, <2>1 DEF Instances, UpToDate
  <2> QED BY <1>b, <2>1, <2>2, <2>3, <2>4 DEF Safe
<1>3. CASE LoadFail(t)
  <2>1. /\ task[t].pc \in {"load", "loaded"} /\ End(t)
        /\ UNCHANGED <<db, snap, current, pending, ack, inst, known>>
    BY <1>3 DEF LoadFail, monitor
  <2>2. /\ OneTask' /\ Waiters' /\ \A u \in Task : task'[u].pc = "free"
        /\ \A d \in Caller : caller'[d].ver \in {0, caller[d].ver}
    BY <1>d, <2>1
  <2>3. Versions'
    BY <1>0, <2>1, <2>2, VersionType DEF Versions
  <2>4. Instances'
    BY <1>0, <1>a, <2>1, <2>2 DEF Instances, UpToDate
  <2> QED BY <2>2, <2>3, <2>4 DEF Safe
<1>4. CASE Again(t)
  <2>1. /\ task[t].pc = "sync" /\ task[t].todo = {} /\ task'[t].pc = "load"
        /\ \A u \in Task : u # t => task'[u] = task[u]
        /\ UNCHANGED <<db, snap, caller, current, ack, inst, known>>
    BY <1>0, <1>4 DEF Again, Synced, TaskRec, monitor
  <2>2. Versions'
    BY <1>0, <1>a, <2>1 DEF Versions
  <2>3. Waiters'
    <3> SUFFICES ASSUME NEW c \in Caller, caller[c].pc = "waiting" PROVE Covered(c)'
      BY <2>1 DEF Waiters
    <3>1. t = current /\ t = caller[c].task
      BY <1>0, <2>1 DEF Waiters, Covered, OneTask
    <3> QED BY <2>1, <3>1 DEF Covered
  <2>4. Instances'
    BY <1>0, <1>a, <2>1 DEF Instances, UpToDate
  <2> QED BY <1>b, <2>1, <2>2, <2>3, <2>4 DEF Safe
<1>5. CASE Finish(t)
  <2>1. /\ task[t].pc = "sync" /\ task[t].todo = {} /\ ~pending /\ End(t)
        /\ UNCHANGED <<db, snap, current, pending, inst, known>>
        /\ ack' \in {ack} \cup {caller[c].ver : c \in Waiting(t)}
    BY <1>5 DEF Finish, Synced, monitor
  <2>2. /\ OneTask' /\ Waiters' /\ \A u \in Task : task'[u].pc = "free"
        /\ \A d \in Caller : caller'[d].ver \in {0, caller[d].ver}
    BY <1>d, <2>1
  <2>3. \A c \in Waiting(t) : caller[c].ver <= snap.ver
    BY <1>0, <1>a, <2>1 DEF Waiting, Waiters, Covered
  <2>4. ack' <= snap.ver
    BY <1>0, <2>1, <2>3 DEF Versions
  <2>5. Versions'
    BY <1>0, <2>1, <2>2, <2>4, VersionType DEF Versions
  <2>6. \A m \in Monitor : inst[m].st # "none" => inst[m].ver = snap.ver
    BY <1>0, <1>a, <2>1 DEF Instances, UpToDate
  <2>7. Instances'
    BY <1>0, <2>1, <2>4, <2>6 DEF Instances, UpToDate
  <2> QED BY <2>2, <2>5, <2>7 DEF Safe
<1>6. CASE SyncStop(t)
  <2>1. /\ task[t].pc = "config" /\ task'[t].pc = "sync" /\ task'[t].read = task[t].read
        /\ task'[t].todo = task[t].todo /\ \A u \in Task : u # t => task'[u] = task[u]
        /\ UNCHANGED <<db, snap, caller, current, pending, ack, inst, known>>
    BY <1>0, <1>6 DEF SyncStop, TaskRec
  <2>2. Instances'
    BY <1>0, <1>a, <2>1 DEF Instances, UpToDate
  <2> QED BY <1>c, <2>1, <2>2 DEF Safe
<1>7. CASE SyncDone(t)
  <2>1. /\ task[t].pc = "sync" /\ task'[t].pc = "sync" /\ task'[t].read = task[t].read
        /\ task'[t].todo = task[t].todo /\ \A u \in Task : u # t => task'[u] = task[u]
        /\ UNCHANGED <<db, snap, caller, current, pending, ack, inst, known>>
    BY <1>0, <1>7 DEF SyncDone, TaskRec, monitor
  <2>2. Instances'
    BY <1>0, <1>a, <2>1 DEF Instances, UpToDate
  <2> QED BY <1>c, <2>1, <2>2 DEF Safe
<1>8. ASSUME NEW m \in Monitor, SyncStart(t, m) PROVE Safe'
  <2>1. /\ task[t].pc = "sync" /\ task'[t].pc = "sync" /\ task'[t].read = task[t].read
        /\ task'[t].todo = task[t].todo \ {m} /\ \A u \in Task : u # t => task'[u] = task[u]
        /\ inst[m].st = "none"
        /\ UNCHANGED <<db, snap, caller, current, pending, ack, inst, known>>
    BY <1>0, <1>8 DEF SyncStart, Turn, TaskRec
  <2>2. Instances'
    BY <1>0, <1>a, <2>1 DEF Instances, UpToDate
  <2> QED BY <1>c, <2>1, <2>2 DEF Safe
<1>9. ASSUME NEW m \in Monitor, SyncConfig(t, m) PROVE Safe'
  <2>1. /\ task[t].pc = "sync" /\ task'[t].pc = "config" /\ task'[t].read = task[t].read
        /\ task'[t].todo = task[t].todo \ {m} /\ \A u \in Task : u # t => task'[u] = task[u]
        /\ UNCHANGED <<db, snap, caller, current, pending, ack, known>>
    BY <1>0, <1>9 DEF SyncConfig, Turn, TaskRec
  <2>2. /\ inst \in [Monitor -> Instance] /\ inst[m] \in Instance
        /\ inst' = [inst EXCEPT ![m].ver = snap.ver]
    BY <1>0, <1>9 DEF SyncConfig, TypeOK
  <2>3. /\ inst'[m].st = inst[m].st /\ inst'[m].ver = snap.ver
        /\ \A n \in Monitor : n # m => inst'[n] = inst[n]
    BY <2>2 DEF Instance
  <2>4. Instances'
    BY <1>0, <1>a, <2>1, <2>3 DEF Instances, UpToDate, Versions
  <2> QED BY <1>c, <2>1, <2>4 DEF Safe
<1>10. CASE ConfigFail(t)
  <2>1. /\ task[t].pc = "config" /\ task'[t].pc = "sync" /\ task'[t].read = task[t].read
        /\ task'[t].todo = task[t].todo /\ \A u \in Task : u # t => task'[u] = task[u]
        /\ UNCHANGED <<db, snap, caller, current, pending, ack, inst, known>>
    BY <1>0, <1>10 DEF ConfigFail, TaskRec
  <2>2. Instances'
    BY <1>0, <1>a, <2>1 DEF Instances, UpToDate
  <2> QED BY <1>c, <2>1, <2>2 DEF Safe
<1> QED BY <1>1, <1>2, <1>3, <1>4, <1>5, <1>6, <1>7, <1>8, <1>9, <1>10 DEF Round

\* Monitors start, with the snapshot, and stop; hooks and bots change nothing here.
LEMMA LifecycleSafe == Inv /\ (\E m \in Monitor : Lifecycle(m)) => Safe'
<1> SUFFICES ASSUME Inv, NEW m \in Monitor, Lifecycle(m) PROVE Safe'
  OBVIOUS
<1>0. /\ TypeOK /\ OneTask /\ Versions /\ Waiters /\ Instances
      /\ inst \in [Monitor -> Instance] /\ inst[m] \in Instance
  BY DEF Inv, TypeOK
<1>1. UNCHANGED <<db, snap, caller, task, current, pending, ack>>
  BY DEF Lifecycle, StartBegin, StartDone, StartFail, StopBegin, StopDone, Hook, service
<1>2. OneTask' /\ Versions' /\ Waiters'
  BY <1>0, <1>1 DEF OneTask, Versions, Waiters, Covered
\* The instance keeps its version, is gone, or is new.
<1>3. /\ \A n \in Monitor : n # m => inst'[n] = inst[n]
      /\ known \subseteq known'
      /\ \/ inst'[m].st = "none"
         \/ inst[m].st # "none" /\ inst'[m].ver = inst[m].ver
         \/ inst'[m].ver = snap.ver /\ m \in known'
  <2>1. CASE StartBegin(m)
    BY <1>0, <2>1 DEF StartBegin, Instance
  <2>2. CASE StartDone(m)
    BY <1>0, <2>2 DEF StartDone, Instance
  <2>3. CASE StartFail(m)
    BY <1>0, <2>3 DEF StartFail
  <2>4. CASE StopBegin(m)
    BY <1>0, <2>4 DEF StopBegin, Instance
  <2>5. CASE StopDone(m)
    BY <1>0, <2>5 DEF StopDone
  <2>6. CASE Hook(m)
    BY <1>0, <2>6 DEF Hook
  <2> QED BY <2>1, <2>2, <2>3, <2>4, <2>5, <2>6 DEF Lifecycle
<1>4. Instances'
  BY <1>0, <1>1, <1>3 DEF Instances, UpToDate, Versions
<1> QED BY <1>2, <1>4 DEF Safe

\* Bots, and a step that changes nothing, leave all of it alone.
LEMMA WorldSafe == Inv /\ UNCHANGED <<service, monitor>> => Safe'
  BY DEF Inv, Safe, OneTask, Versions, Waiters, Covered, Instances, UpToDate, service, monitor

\* Initially, and in every step, the invariant holds.
THEOREM Invariant == Spec => []Inv
<1>1. Init => Inv
  BY InitType, InitSafe, InvIsSafe
<1>2. Inv /\ [Next]_vars => Inv'
  <2> SUFFICES ASSUME Inv, [Next]_vars PROVE Inv'
    OBVIOUS
  <2>1. TypeOK'
    BY StepType DEF Inv
  <2>2. UNCHANGED vars => UNCHANGED <<service, monitor>>
    BY DEF vars
  <2>3. (\E b \in Bot : Connect(b) \/ Disconnect(b)) => UNCHANGED <<service, monitor>>
    BY DEF Connect, Disconnect
  <2>4. Safe'
    BY <2>2, <2>3, WorldSafe, RequestSafe, RoundSafe, LifecycleSafe DEF Next
  <2> QED BY <2>1, <2>4 DEF Inv, Safe
<1> QED BY <1>1, <1>2, PTL DEF Spec

-----------------------------------------------------------------------------
(* What follows *)

\* Requests, reload task, monitors and lock queues stay well formed.
THEOREM TypeCorrect == Spec => []TypeOK
<1>1. Inv => TypeOK
  BY DEF Inv
<1> QED BY <1>1, Invariant, PTL

\* There is one reload at a time, however many requests come together.
THEOREM ReloadSingle == Spec => []SingleFlight
<1>1. Inv => SingleFlight
  BY DEF Inv, OneTask, SingleFlight
<1> QED BY <1>1, Invariant, PTL

\* An answered request is in force in the snapshot and in every monitor.
THEOREM AnsweredApplied == Spec => []Applied
<1>1. Inv => Applied
  BY DEF Inv, Versions, Instances, Applied
<1> QED BY <1>1, Invariant, PTL

\* No reload leaves an instance on an older configuration.
THEOREM InstancesCurrent == Spec => []Current
<1>1. Inv => Current
  BY DEF Inv, Instances, UpToDate, Current
<1> QED BY <1>1, Invariant, PTL

\* The snapshot moves forward only.
THEOREM SnapshotForward == Spec => Forward
<1>1. Inv /\ [Next]_vars => [snap'.ver >= snap.ver]_vars
  <2> SUFFICES ASSUME Inv, Next PROVE snap'.ver >= snap.ver
    OBVIOUS
  <2>1. TypeOK /\ Versions /\ snap.ver \in Nat
    BY VersionType DEF Inv
  <2>2. ASSUME NEW t \in Task, LoadSet(t) PROVE snap'.ver >= snap.ver
    BY <2>1, <2>2, VersionType DEF LoadSet, Versions
  <2>3. CASE UNCHANGED snap
    BY <2>1, <2>3
  <2>4. UNCHANGED snap \/ \E t \in Task : LoadSet(t)
    BY DEF Next, Request, Save, Reload, Abandon, Round, LoadRead, LoadFail, Again, Finish,
           ConfigFail, SyncStop, SyncDone, SyncStart, SyncConfig, Lifecycle, StartBegin, StartDone,
           StartFail, StopBegin, StopDone, Hook, Connect, Disconnect, service
  <2> QED BY <2>2, <2>3, <2>4
<1> QED BY <1>1, Invariant, PTL DEF Spec, Forward
=============================================================================
