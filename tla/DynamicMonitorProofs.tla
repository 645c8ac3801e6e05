----------------------- MODULE DynamicMonitorProofs -----------------------
(***************************************************************************)
(* Types, NothingSkipped, InOrder, AtMostOncePerLife and NoHistory of      *)
(* DynamicMonitor, for any sets of targets, checks and tasks and any       *)
(* bounds: what an action builds, the inductive invariants of the cursor,  *)
(* of the pushes and of the lives of the uid, what a quiet step leaves of  *)
(* them, a lemma per group of actions, the theorems.                       *)
(*                                                                         *)
(* The argument.  Within one life of the uid (a check generation) only the *)
(* task that holds the lock moves the cursor, it goes through its batch in *)
(* order, and a batch has every dynamic in the feed up to its last one     *)
(* (InBatch).  What rows and commits under way hold of the cursor and of   *)
(* the snapshots is not ahead of memory (LastOK, PendOK); when the uid     *)
(* starts over, it is behind everything that the new baseline leaves open. *)
(***************************************************************************)
EXTENDS DynamicMonitor, TLAPS

\* The initial state is well formed.
LEMMA InitType == Init => TypeOK
BY ParamAssumption DEF Init, TypeOK, TasksOK, Blank, State, IdleCheck, IdleTask, IdleReload, CheckRec, TaskRec, Key, Pending

\* The uploader changes his own space only.
LEMMA WorldType == TypeOK /\ World => TypeOK'
<1> SUFFICES ASSUME TypeOK, World PROVE TypeOK'
  OBVIOUS
<1> USE ParamAssumption DEF TypeOK, TasksOK, world, db, proc, hist
<1>1. CASE Publish
  BY <1>1 DEF Publish, Id
<1>2. ASSUME NEW i \in Id, Vanish(i) PROVE TypeOK'
  BY <1>2 DEF Vanish
<1>3. ASSUME NEW i \in Id \cup {0}, SetPin(i) PROVE TypeOK'
  BY <1>3 DEF SetPin, Id
<1> QED
  BY <1>1, <1>2, <1>3 DEF World

\* The state of an unknown uid is a state.
LEMMA BlankType == Blank \in State
BY ParamAssumption DEF Blank, State, Key

\* The row after a commit is the row of some state, or none.
LEMMA MergedType == ASSUME NEW old \in State \cup {None}, NEW new \in State, NEW now \in State \cup {None}
                    PROVE Merged(old, new, now) \in State \cup {None}
BY NoneAssumption DEF Merged, Column, State

\* An idle slot is well formed.
LEMMA IdleTypes == IdleCheck \in CheckRec /\ IdleTask \in TaskRec
BY BlankType, ParamAssumption DEF IdleCheck, IdleTask, CheckRec, TaskRec

\* An answer of the API shows published dynamics and a pin, or none.
LEMMA AnswerType == ASSUME TypeOK, NEW c \in Check, NEW a \in Answers(c)
                    PROVE  a[1] \in SUBSET Id /\ a[2] \in 0 .. MaxId
BY DEF TypeOK, Answers, CheckRec

\* Dropping obsolete pinned snapshots keeps the others well formed.
LEMMA DropPinnedType == ASSUME NEW pend \in [Key -> Pending \cup {None}], NEW pin
                        PROVE  DropPinned(pend, pin) \in [Key -> Pending \cup {None}]
BY DEF DropPinned

\* A spawned task is well formed.
LEMMA SpawnType ==
  ASSUME TypeOK, NEW tasks \in [Task -> TaskRec], NEW t \in Task, NEW pinned \in BOOLEAN,
         NEW ids \in SUBSET Id, NEW force \in BOOLEAN
  PROVE  Spawn(tasks, t, pinned, ids, force) \in [Task -> TaskRec]
BY IdleTypes, ZenonT(30) DEF TypeOK, Spawn, TaskRec

\* A check.
LEMMA CheckType == ASSUME TypeOK, NEW c \in Check, CheckNext(c) PROVE TypeOK'
<1> USE ParamAssumption, BlankType, IdleTypes DEF TypeOK, TasksOK, world, db, proc, hist
<1>0. chk[c] \in CheckRec /\ mem.pin \in 0 .. MaxId /\ mem.pend \in [Key -> Pending \cup {None}]
  BY DEF State
<1>p. [IdleCheck EXCEPT !.pc = "persist", !.gen = chk[c].gen] \in CheckRec
  BY <1>0 DEF CheckRec
<1>1. CASE CheckStart(c)
  <2>1. [IdleCheck EXCEPT !.pc = "fetch", !.gen = gen, !.pin = mem.pin, !.dyn = feed,
           !.feedPin = feedPin] \in CheckRec
    BY <1>0 DEF CheckRec
  <2> QED
    BY <1>1, <2>1 DEF CheckStart
<1>2. CASE CheckFailed(c)
  BY <1>2 DEF CheckFailed
<1>3. CASE CheckStale(c)
  BY <1>3 DEF CheckStale
<1>4. CASE CheckBaseline(c)
  <2> PICK a \in Answers(c), last \in 0 .. MaxId :
         /\ mem' = [last |-> last, init |-> TRUE, pin |-> a[2],
                    pend |-> DropPinned(mem.pend, a[2])]
         /\ base' = last
    BY <1>4 DEF CheckBaseline
  <2>1. mem' \in State
    BY <1>0, AnswerType, DropPinnedType DEF State
  <2> QED
    BY <1>4, <1>p, <2>1 DEF CheckBaseline
<1>5. CASE CheckObserve(c)
  <2> PICK a \in Answers(c), tp \in Task, tn \in Task : Observe(c, a, tp, tn)
    BY <1>5 DEF CheckObserve
  <2>1. a[1] \in SUBSET Id /\ a[2] \in 0 .. MaxId
    BY AnswerType
  <2>2. PendAfter(a) \in [Key -> Pending \cup {None}]
    BY <1>0, DropPinnedType DEF PendAfter
  <2>3. mem' \in State
    BY <1>0, <2>1, <2>2 DEF Observe, State
  <2>4. Batch(a) \in SUBSET Id /\ Adopt(c, a) \in BOOLEAN
    BY <2>1 DEF Batch, Adopt
  <2>5. (IF PushPin(c, a) THEN Spawn(task, tp, TRUE, {a[2]}, FALSE) ELSE task)
          \in [Task -> TaskRec]
    <3>1. PushPin(c, a) => {a[2]} \in SUBSET Id
      BY <2>1 DEF PushPin, Id
    <3>2. CASE PushPin(c, a)
      <4>1. Spawn(task, tp, TRUE, {a[2]}, FALSE) \in [Task -> TaskRec]
        BY <3>1, <3>2, SpawnType
      <4> QED
        BY <3>2, <4>1
    <3> QED
      BY <3>2
  <2>6. task' \in [Task -> TaskRec]
    BY <2>4, <2>5, SpawnType DEF Observe
  <2>7. TasksOK(task')
    BY <2>6, ZenonT(30) DEF TasksOK, Observe, Spawn, IdleTask
  <2>8. chk' \in [Check -> CheckRec]
    BY <1>p DEF Observe
  <2> QED
    BY <1>5, <2>3, <2>7, <2>8 DEF CheckObserve
<1>6. CASE CheckRead(c)
  <2>1. [chk[c] EXCEPT !.pc = "commit", !.base = row, !.cap = mem] \in CheckRec
    BY <1>0 DEF CheckRec
  <2> QED
    BY <1>6, <2>1 DEF CheckRead
<1>7. CASE CheckCommit(c)
  BY <1>0, <1>7, MergedType DEF CheckCommit, CheckRec
<1>8. CASE CheckConflict(c)
  BY <1>8 DEF CheckConflict
<1>9. CASE CheckDbError(c)
  BY <1>9 DEF CheckDbError
<1> QED
  BY <1>1, <1>2, <1>3, <1>4, <1>5, <1>6, <1>7, <1>8, <1>9 DEF CheckNext

\* A task record that may be written.
TaskOK(r) == r \in TaskRec /\ (r.pc = "inflight" => r.to # None)

\* A task slot may be replaced by any well-formed task.
LEMMA UpdateType == ASSUME TypeOK, NEW t \in Task, NEW r, TaskOK(r),
                           task' = [task EXCEPT ![t] = r]
                    PROVE  TasksOK(task')
BY DEF TypeOK, TasksOK, TaskOK

\* The end of a task takes it out of the queue of its lock.
LEMMA EndType == ASSUME TypeOK, NEW t \in Task, End(t)
                 PROVE  TasksOK(task')
<1>1. ASSUME NEW u \in Task, u # t
      PROVE  TaskOK([task[u] EXCEPT !.ahead = @ \ {t}])
  <2>1. TaskOK(task[u])
    BY DEF TypeOK, TasksOK, TaskOK
  <2> QED
    BY <2>1, ZenonT(30) DEF TaskOK, TaskRec
<1>2. IdleTask.pc = "idle"
  BY DEF IdleTask
<1> QED
  BY <1>1, <1>2, IdleTypes DEF TasksOK, TaskOK, End, Ended

\* A task goes on; nothing of its send or commit is left.
LEMMA GotoType == ASSUME TypeOK, NEW t \in Task, NEW pc \in {"next", "send", "stop"},
                         Goto(t, pc)
                  PROVE  TasksOK(task')
<1>1. task[t] \in TaskRec
  BY DEF TypeOK, TasksOK
<1>2. TaskOK([task[t] EXCEPT !.pc = pc, !.to = None, !.base = None, !.cap = Blank])
  BY <1>1, BlankType DEF TaskOK, TaskRec
<1> QED
  BY <1>2, UpdateType DEF Goto, TypeOK, TasksOK

\* A task starts to persist.
LEMMA PersistType ==
  ASSUME TypeOK, NEW t \in Task, NEW r \in TaskRec, NEW then \in {"next", "send", "stop", "end"},
         Persist(t, r, then)
  PROVE  TasksOK(task')
<1>1. TaskOK([r EXCEPT !.pc = "persist", !.then = then])
  BY DEF TaskOK, TaskRec
<1> QED
  BY <1>1, UpdateType DEF Persist

\* A task counts its target as failed.
LEMMA NextTargetType == ASSUME TypeOK, NEW t \in Task, task[t].to # None, NextTarget(t)
                        PROVE  TasksOK(task')
<1>1. task[t] \in TaskRec
  BY DEF TypeOK, TasksOK
<1> DEFINE r == [task[t] EXCEPT !.pc = "send", !.to = None, !.base = None, !.cap = Blank,
                                !.failed = task[t].failed \cup {task[t].to}]
<1>2. TaskOK(r)
  BY <1>1, BlankType DEF TaskOK, TaskRec
<1>3. task' = [task EXCEPT ![t] = r]
  BY DEF NextTarget
<1> QED
  BY <1>2, <1>3, UpdateType

\* What an exception in a checkpoint, or anywhere else, leaves behind.
LEMMA RaisedType == ASSUME TypeOK, NEW t \in Task, Raised(t) PROVE TasksOK(task')
BY NextTargetType, EndType DEF Raised

KeyOrNone == Key \cup {<<0, FALSE>>}

\* The key of a task names a dynamic, or 0.
LEMMA KeyType == \A k \in KeyOrNone : k[1] \in 0 .. MaxId
<1>1. \A k \in Key : k[1] \in 0 .. MaxId
  BY ParamAssumption DEF Key, Id
<1>2. <<0, FALSE>>[1] \in 0 .. MaxId
  BY ParamAssumption
<1> QED
  BY <1>1, <1>2 DEF KeyOrNone

\* The fields of a task.
LEMMA TaskRecord == ASSUME TypeOK, NEW t \in Task
                    PROVE  task[t] \in TaskRec /\ task[t].key \in KeyOrNone
BY DEF TypeOK, TasksOK, TaskRec, KeyOrNone

\* What a step of a task may write to a snapshot.
LEMMA PendType ==
  ASSUME TypeOK, NEW k, NEW p \in Pending \cup {None}
  PROVE  [mem EXCEPT !.pend[k] = p] \in State
BY DEF TypeOK, State

\* A push is prepared for the targets that are left.
LEMMA PrepareType ==
  ASSUME TypeOK, NEW t \in Task, NEW k \in KeyOrNone, NEW ids \in SUBSET Id, NEW p \in Pending,
         Prepare(t, k, ids, p)
  PROVE  mem' \in State /\ TasksOK(task')
<1> DEFINE left == p.left \cap targets
           r == [task[t] EXCEPT !.key = k, !.ids = ids, !.queue = left, !.failed = {},
                   !.got = IF left = {} THEN @ \cup {k[1]} ELSE @]
<1>0. task[t] \in TaskRec
  BY TaskRecord
<1>1. left \in SUBSET Target /\ k[1] \in 0 .. MaxId
  BY KeyType DEF Pending, TypeOK
<1>2. r \in TaskRec
  BY <1>0, <1>1 DEF TaskRec, KeyOrNone
<1>3. [p EXCEPT !.left = left] \in Pending
  BY <1>1 DEF Pending
<1>4. mem' \in State
  BY <1>3, PendType DEF Prepare
<1> QED
  BY <1>2, <1>4, PersistType DEF Prepare

\* A task takes up its next dynamic.
LEMMA OfferType ==
  ASSUME TypeOK, NEW t \in Task, NEW k \in Key, NEW ids \in SUBSET Id, Offer(t, k, ids)
  PROVE  mem' \in State /\ TasksOK(task') /\ owed' \in [Key -> SUBSET Target]
<1>1. CASE mem.pend[k] = None
  <2>0. task[t] \in TaskRec
    BY TaskRecord
  <2>1. TaskOK([task[t] EXCEPT !.pc = "build", !.key = k, !.ids = ids])
    BY <2>0 DEF TaskOK, TaskRec
  <2> QED
    BY <1>1, <2>1, UpdateType DEF Offer, TypeOK
<1>2. CASE mem.pend[k] # None
  <2>1. mem.pend[k] \in Pending /\ k \in KeyOrNone
    BY <1>2 DEF TypeOK, State, KeyOrNone
  <2> QED
    BY <1>2, <2>1, PrepareType DEF Offer, TypeOK
<1> QED
  BY <1>1, <1>2

\* The result of an attempt is recorded.
LEMMA SettleType ==
  ASSUME TypeOK, NEW t \in Task, NEW left \in SUBSET Target, Settle(t, left)
  PROVE  mem' \in State /\ TasksOK(task')
<1> DEFINE k == task[t].key
           r == [task[t] EXCEPT !.got = IF left = {} THEN @ \cup {k[1]} ELSE @]
<1>0. task[t] \in TaskRec /\ k[1] \in 0 .. MaxId
  BY TaskRecord, KeyType
<1>1. r \in TaskRec
  BY <1>0 DEF TaskRec
<1>2. mem' \in State
  <2>1. CASE k \in Key /\ mem.pend[k] # None
    <3>1. mem.pend[k] \in Pending
      BY <2>1 DEF TypeOK, State
    <3>2. [mem.pend[k] EXCEPT !.left = left] \in Pending
      BY <3>1 DEF Pending
    <3>3. mem' = [mem EXCEPT !.pend[k] = [mem.pend[k] EXCEPT !.left = left]]
      BY <2>1 DEF Settle, TypeOK, State
    <3> QED
      BY <2>1, <3>2, <3>3, PendType
  <2>2. CASE k \notin Key
    <3>1. mem' = mem
      BY <2>2 DEF Settle, TypeOK, State
    <3> QED
      BY <3>1 DEF TypeOK
  <2>3. CASE mem.pend[k] = None
    BY <2>3 DEF Settle, TypeOK
  <2> QED
    BY <2>1, <2>2, <2>3
<1> QED
  BY <1>1, <1>2, PersistType DEF Settle

\* The steps of a delivery task outside the sender.
LEMMA DeliverType ==
  ASSUME TypeOK, NEW t \in Task,
         \/ NewNext(t) \/ NewFinish(t) \/ PinNext(t) \/ PinFinish(t) \/ Built(t)
         \/ TaskRead(t) \/ TaskCommit(t) \/ TaskConflict(t) \/ TaskDbError(t)
  PROVE  TypeOK'
<1> USE ParamAssumption DEF world, db, proc, hist
<1>0. task[t] \in TaskRec /\ mem \in State /\ row \in State \cup {None}
  BY TaskRecord DEF TypeOK
<1>1. CASE NewNext(t)
  <2> PICK i \in Id : Offer(t, New(i), {j \in task[t].ids : j > i})
    BY <1>1 DEF NewNext
  <2>1. New(i) \in Key /\ {j \in task[t].ids : j > i} \in SUBSET Id
    BY <1>0 DEF New, Key, TaskRec
  <2>2. mem' \in State /\ TasksOK(task') /\ owed' \in [Key -> SUBSET Target]
    BY <2>1, OfferType
  <2> QED
    BY <1>1, <2>2 DEF NewNext, TypeOK
<1>2. CASE NewFinish(t)
  <2> DEFINE got == task[t].got
  <2>1. CASE LiveTask(t) /\ (got # {} \/ task[t].force)
    <3> PICK last \in 0 .. MaxId :
           mem' = [mem EXCEPT !.last = last,
                     !.pend = [k \in Key |-> IF ~k[2] /\ k[1] \in got THEN None ELSE @[k]]]
      BY <1>2, <2>1 DEF NewFinish
    <3>1. mem' \in State
      BY <1>0 DEF State
    <3>2. Persist(t, task[t], "end")
      BY <1>2, <2>1 DEF NewFinish
    <3>3. TasksOK(task')
      BY <1>0, <3>2, PersistType
    <3> QED
      BY <1>2, <3>1, <3>3 DEF NewFinish, TypeOK
  <2>2. CASE ~(LiveTask(t) /\ (got # {} \/ task[t].force))
    <3>1. End(t) /\ mem' = mem
      BY <1>2, <2>2 DEF NewFinish
    <3> QED
      BY <1>2, <3>1, EndType DEF NewFinish, TypeOK
  <2> QED
    BY <2>1, <2>2
<1>3. CASE PinNext(t)
  <2> PICK i \in task[t].ids : IF mem.pin = i \/ ~LiveTask(t)
                                 THEN End(t) /\ UNCHANGED <<mem, owed>>
                                 ELSE Offer(t, Pinned(i), task[t].ids)
    BY <1>3 DEF PinNext
  <2>1. Pinned(i) \in Key /\ task[t].ids \in SUBSET Id
    BY <1>0 DEF Pinned, Key, TaskRec
  <2>2. mem' \in State /\ TasksOK(task') /\ owed' \in [Key -> SUBSET Target]
    BY <1>0, <2>1, OfferType, EndType DEF TypeOK
  <2> QED
    BY <1>3, <2>2 DEF PinNext, TypeOK
<1>4. CASE PinFinish(t)
  <2>1. CASE End(t) /\ UNCHANGED mem
    BY <1>4, <2>1, EndType DEF PinFinish, TypeOK
  <2>2. CASE /\ mem' = [mem EXCEPT !.pin = task[t].key[1], !.pend[task[t].key] = None]
             /\ Persist(t, task[t], "end")
    <3>1. task[t].key[1] \in 0 .. MaxId
      BY TaskRecord, KeyType
    <3>2. mem' \in State
      BY <1>0, <2>2, <3>1 DEF State
    <3>3. TasksOK(task')
      BY <1>0, <2>2, PersistType
    <3> QED
      BY <1>4, <3>2, <3>3 DEF PinFinish, TypeOK
  <2> QED
    BY <1>4, <2>1, <2>2 DEF PinFinish
<1>5. CASE Built(t)
  <2>1. CASE LiveTask(t)
    <3>1. Prepare(t, task[t].key, task[t].ids, [left |-> targets, done |-> {}])
      BY <1>5, <2>1 DEF Built
    <3>2. task[t].key \in KeyOrNone /\ task[t].ids \in SUBSET Id
            /\ [left |-> targets, done |-> {}] \in Pending
      BY <1>0, TaskRecord DEF TaskRec, Pending, TypeOK
    <3>3. mem' \in State /\ TasksOK(task')
      BY <3>1, <3>2, PrepareType
    <3>4. owed' \in [Key -> SUBSET Target]
      BY <1>5, <2>1 DEF Built, TypeOK
    <3> QED
      BY <1>5, <3>3, <3>4 DEF Built, TypeOK
  <2>2. CASE ~LiveTask(t)
    BY <1>5, <2>2, GotoType DEF Built, TypeOK
  <2> QED
    BY <2>1, <2>2
<1>e. ASSUME IF task[t].then = "end" THEN End(t) ELSE Goto(t, task[t].then)
      PROVE  TasksOK(task')
  BY <1>0, <1>e, EndType, GotoType DEF TaskRec
<1>6. CASE TaskRead(t)
  <2>1. CASE LiveTask(t)
    <3>1. TaskOK([task[t] EXCEPT !.pc = "commit", !.base = row, !.cap = mem])
      BY <1>0 DEF TaskOK, TaskRec
    <3>2. TasksOK(task')
      BY <1>6, <2>1, <3>1, UpdateType DEF TaskRead
    <3> QED
      BY <1>6, <3>2 DEF TaskRead, TypeOK
  <2>2. CASE ~LiveTask(t)
    BY <1>6, <1>e, <2>2 DEF TaskRead, TypeOK
  <2> QED
    BY <2>1, <2>2
<1>7. CASE TaskCommit(t)
  <2>1. row' \in State \cup {None}
    BY <1>0, <1>7, MergedType DEF TaskCommit, TaskRec
  <2> QED
    BY <1>7, <1>e, <2>1 DEF TaskCommit, TypeOK
<1>8. CASE TaskConflict(t)
  BY <1>8, RaisedType DEF TaskConflict, TypeOK
<1>9. CASE TaskDbError(t)
  BY <1>9, RaisedType DEF TaskDbError, TypeOK
<1> QED
  BY <1>1, <1>2, <1>3, <1>4, <1>5, <1>6, <1>7, <1>8, <1>9

\* The steps of the sender.
LEMMA SendType ==
  ASSUME TypeOK, NEW t \in Task,
         \/ \E x \in Target : SendSkip(t, x) \/ SendResume(t, x) \/ SendStart(t, x)
         \/ SendOk(t) \/ SendFailed(t) \/ SendLost(t) \/ SendEnd(t)
  PROVE  TypeOK'
<1> USE ParamAssumption, NoneAssumption DEF world, db, proc, hist
<1> DEFINE k == task[t].key
<1>0. task[t] \in TaskRec /\ mem \in State /\ task[t].to \in Target \cup {None}
        /\ task[t].failed \in SUBSET Target /\ task[t].queue \in SUBSET Target
        /\ (task[t].pc = "inflight" => task[t].to # None)
  <2>1. task[t] \in TaskRec /\ (task[t].pc = "inflight" => task[t].to # None)
    BY DEF TypeOK, TasksOK
  <2> QED
    BY <2>1 DEF TypeOK, TaskRec
<1>1. ASSUME NEW x \in Target,
             owed' = [owed EXCEPT ![k] = IF x \in targets THEN @ ELSE @ \ {x}]
               \/ owed' = [owed EXCEPT ![k] = @ \ {x}] \/ owed' = owed
      PROVE  owed' \in [Key -> SUBSET Target]
  BY <1>1 DEF TypeOK
<1>s. ASSUME NEW x \in Target, sent' = [sent EXCEPT ![k][x] = @ + 1]
      PROVE  sent' \in [Key -> [Target -> Nat]]
  <2>1. sent' = [sent EXCEPT ![k] = [sent[k] EXCEPT ![x] = @ + 1]]
    BY <1>s
  <2>2. CASE k \in Key
    <3>1. sent[k] \in [Target -> Nat]
      BY <2>2 DEF TypeOK
    <3>2. [sent[k] EXCEPT ![x] = @ + 1] \in [Target -> Nat]
      BY <3>1
    <3> QED
      BY <2>1, <3>2 DEF TypeOK
  <2>3. CASE k \notin Key
    BY <2>1, <2>3 DEF TypeOK
  <2> QED
    BY <2>2, <2>3
<1>2. ASSUME NEW x \in Target, SendSkip(t, x) \/ SendResume(t, x)
      PROVE  TypeOK'
  <2>1. TaskOK([task[t] EXCEPT !.queue = @ \ {x}])
    BY <1>0, <1>2 DEF TaskOK, TaskRec, SendSkip, SendResume
  <2>2. task' = [task EXCEPT ![t] = [task[t] EXCEPT !.queue = @ \ {x}]]
    BY <1>2 DEF SendSkip, SendResume, TypeOK, TasksOK
  <2>3. TasksOK(task')
    BY <2>1, <2>2, UpdateType
  <2>4. owed' \in [Key -> SUBSET Target]
    BY <1>1, <1>2 DEF SendSkip, SendResume
  <2> QED
    BY <1>2, <2>3, <2>4 DEF SendSkip, SendResume, TypeOK
<1>3. ASSUME NEW x \in Target, SendStart(t, x)
      PROVE  TypeOK'
  <2>1. TaskOK([task[t] EXCEPT !.pc = "inflight", !.to = x, !.queue = @ \ {x}])
    BY <1>0 DEF TaskOK, TaskRec
  <2>2. TasksOK(task')
    BY <1>3, <2>1, UpdateType DEF SendStart
  <2> QED
    BY <1>3, <2>2 DEF SendStart, TypeOK
<1>4. CASE SendOk(t)
  <2>1. task[t].to \in Target
    BY <1>0, <1>4 DEF SendOk
  <2>2. TasksOK(task')
    BY <1>0, <1>4, PersistType DEF SendOk
  <2>3. owed' \in [Key -> SUBSET Target]
    BY <1>1, <1>4, <2>1 DEF SendOk
  <2>4. sent' \in [Key -> [Target -> Nat]]
    BY <1>4, <1>s, <2>1 DEF SendOk
  <2>5. mem' \in State
    <3>1. CASE k \in Key /\ mem.pend[k] # None
      <4>1. mem.pend[k] \in Pending
        BY <3>1 DEF TypeOK, State
      <4>2. [mem.pend[k] EXCEPT !.done = @ \cup {task[t].to}] \in Pending
        BY <2>1, <4>1 DEF Pending
      <4>3. mem' = [mem EXCEPT !.pend[k] = [mem.pend[k] EXCEPT !.done = @ \cup {task[t].to}]]
        BY <1>4, <3>1 DEF SendOk, TypeOK, State
      <4> QED
        BY <4>2, <4>3, PendType
    <3>2. CASE k \notin Key
      <4>1. mem' = mem
        BY <1>4, <3>2 DEF SendOk, TypeOK, State
      <4> QED
        BY <4>1 DEF TypeOK
    <3>3. CASE mem.pend[k] = None
      BY <1>4, <3>3 DEF SendOk, TypeOK
    <3> QED
      BY <3>1, <3>2, <3>3
  <2> QED
    BY <1>4, <2>2, <2>3, <2>4, <2>5 DEF SendOk, TypeOK
<1>5. CASE SendFailed(t)
  <2>1. task[t].to \in Target
    BY <1>0, <1>5 DEF SendFailed
  <2>2. TasksOK(task')
    BY <1>5, <2>1, NextTargetType, GotoType DEF SendFailed
  <2>3. owed' \in [Key -> SUBSET Target]
    BY <1>1, <1>5, <2>1 DEF SendFailed
  <2> QED
    BY <1>5, <2>2, <2>3 DEF SendFailed, TypeOK
<1>7. CASE SendLost(t)
  <2>1. task[t].to \in Target /\ task[t].to # None
    BY <1>0, <1>7 DEF SendLost
  <2>2. TasksOK(task')
    BY <1>7, <2>1, NextTargetType DEF SendLost
  <2>3. sent' \in [Key -> [Target -> Nat]]
    BY <1>7, <1>s, <2>1 DEF SendLost
  <2> DEFINE Spent == [pin: Nat, vanish: Nat, reload: Nat, crash: Nat, fail: Nat, lost: Nat, db: Nat]
  <2>4. spent' \in Spent
    <3>1. spent \in Spent
      BY DEF TypeOK
    <3> HIDE DEF Spent
    <3>2. ASSUME NEW s \in Spent PROVE [s EXCEPT !.fail = @ + 1] \in Spent
      BY DEF Spent
    <3>3. ASSUME NEW s \in Spent PROVE [s EXCEPT !.lost = @ + 1] \in Spent
      BY DEF Spent
    <3>4. [[spent EXCEPT !.fail = @ + 1] EXCEPT !.lost = @ + 1] \in Spent
      BY <3>1, <3>2, <3>3
    <3> QED
      BY <1>7, <3>4 DEF SendLost
  <2> QED
    BY <1>7, <2>2, <2>3, <2>4 DEF SendLost, TypeOK
<1>6. CASE SendEnd(t)
  <2>1. mem' \in State /\ TasksOK(task')
    BY <1>0, <1>6, GotoType, SettleType DEF SendEnd
  <2>2. owed' \in [Key -> SUBSET Target]
    BY <1>0, <1>6 DEF SendEnd, TypeOK
  <2> QED
    BY <1>6, <2>1, <2>2 DEF SendEnd, TypeOK
<1> QED
  BY <1>2, <1>3, <1>4, <1>5, <1>6, <1>7

ReloadRec == [pc: {"idle", "apply", "reset", "delete", "deleting"}, found: BOOLEAN]

\* A reload of the configuration.
LEMMA ReloadType == ASSUME TypeOK, ReloadNext PROVE TypeOK'
<1> USE ParamAssumption DEF world, db, proc, hist, IdleReload
<1>0. /\ reload \in ReloadRec /\ mem \in State /\ gen \in Nat /\ epoch \in Nat
      /\ cfg \in SUBSET Target /\ row \in State \cup {None}
  BY DEF TypeOK, ReloadRec
<1>1. ASSUME NEW new \in SUBSET Target, ReloadStart(new) PROVE TypeOK'
  BY <1>1 DEF ReloadStart, TypeOK
<1>2. CASE ReloadApply
  <2>1. gen' \in Nat /\ epoch' \in Nat
    BY <1>0, <1>2 DEF ReloadApply
  <2>2. mem' \in State
    BY <1>0, <1>2, BlankType DEF ReloadApply
  <2>3. reload' \in ReloadRec
    <3>1. \A pc \in {"delete", "reset"} : [reload EXCEPT !.pc = pc] \in ReloadRec
      BY <1>0 DEF ReloadRec
    <3>2. IdleReload \in ReloadRec
      BY DEF ReloadRec
    <3> QED
      BY <1>2, <3>1, <3>2 DEF ReloadApply
  <2> QED
    BY <1>0, <1>2, <2>1, <2>2, <2>3 DEF ReloadApply, TypeOK, ReloadRec
<1>3. CASE ReloadReset
  <2>0. 0 \in 0 .. MaxId
    OBVIOUS
  <2>1. mem' \in State
    <3>1. [mem EXCEPT !.last = 0, !.init = FALSE, !.pin = 0] \in State
      BY <1>0, <2>0 DEF State
    <3> QED
      BY <1>3, <3>1 DEF ReloadReset
  <2>2. reload' \in ReloadRec /\ gen' \in Nat
    BY <1>0, <1>3 DEF ReloadReset, ReloadRec
  <2> QED
    BY <1>3, <2>1, <2>2 DEF ReloadReset, TypeOK, ReloadRec
<1>4. CASE DeleteRead
  BY <1>4 DEF DeleteRead, TypeOK
<1>5. CASE DeleteCommit
  BY <1>0, <1>5 DEF DeleteCommit, TypeOK
<1>6. CASE DeleteDbError
  BY <1>6 DEF DeleteDbError, TypeOK
<1> QED
  BY <1>1, <1>2, <1>3, <1>4, <1>5, <1>6 DEF ReloadNext

\* A crash and a restart.
LEMMA CrashType == ASSUME TypeOK, Crash \/ Restart PROVE TypeOK'
<1> USE DEF world, db, proc, hist, IdleReload
<1>1. CASE Crash
  <2>1. TasksOK(task')
    BY <1>1, IdleTypes DEF Crash, TasksOK, IdleTask
  <2>2. chk' \in [Check -> CheckRec] /\ mem' \in State
    BY <1>1, IdleTypes, BlankType DEF Crash
  <2>3. spent' \in [pin: Nat, vanish: Nat, reload: Nat, crash: Nat, fail: Nat, lost: Nat, db: Nat]
    BY <1>1 DEF Crash, TypeOK
  <2> QED
    BY <1>1, <2>1, <2>2, <2>3, ParamAssumption DEF Crash, TypeOK
<1>2. CASE Restart
  BY <1>2, BlankType DEF Restart, TypeOK
<1> QED
  BY <1>1, <1>2

\* Whatever the poll job, the delivery tasks, reloads and crashes do, cursor, row,
\* snapshots and the locals of every coroutine stay well formed.
THEOREM TypeCorrect == Spec => []TypeOK
<1>1. TypeOK /\ [Next]_vars => TypeOK'
  <2> SUFFICES ASSUME TypeOK, [Next]_vars PROVE TypeOK'
    OBVIOUS
  <2>1. ASSUME NEW t \in Task, TaskNext(t) PROVE TypeOK'
    BY <2>1, DeliverType, SendType DEF TaskNext
  <2>2. CASE UNCHANGED vars
    BY <2>2 DEF vars, world, db, proc, hist, TypeOK, TasksOK
  <2> QED
    BY <2>1, <2>2, WorldType, CheckType, ReloadType, CrashType DEF Next
<1> QED
  BY <1>1, InitType, PTL DEF Spec

-----------------------------------------------------------------------------
(* The inductive invariant *)

\* A request of the present life is on its way; a task of the present life.
Fetch(c) == chk[c].pc = "fetch" /\ chk[c].gen = gen
Work(t)  == task[t].pc # "idle" /\ task[t].gen = gen

\* A task that has, or had, the lock; one that stores its last progress; one between
\* two pushes, or in the middle of one.
Busy(t)    == task[t].pc # "next" \/ task[t].got # {}
Ending(t)  == task[t].pc \in {"persist", "commit"} /\ task[t].then = "end"
Going(t)   == \/ task[t].pc = "next"
              \/ task[t].pc \in {"persist", "commit"} /\ task[t].then = "next"
Sending(t) == \/ task[t].pc \in {"send", "inflight"}
              \/ task[t].pc \in {"persist", "commit"} /\ task[t].then = "send"

\* A cursor l in memory, in the row or in a commit passes nothing that is owed, and
\* is not ahead of memory; when memory has no baseline yet, it is behind everything
\* that the answer to a request may leave open.
LastOK(l) ==
  /\ l <= published
  /\ \A i \in feed : base < i /\ i <= l => owed[New(i)] = {}
  /\ mem.init => \A i \in feed : mem.last < i => l < i
  /\ ~mem.init => \A c \in Check : Fetch(c) => \A i \in feed \ chk[c].dyn : l < i

\* So do the snapshots p; and who is owed a dynamic is in its snapshot.
PendOK(p) ==
  /\ \A i \in Id : p[New(i)] # None => i <= published
  /\ \A i \in feed : p[New(i)] # None => owed[New(i)] \subseteq p[New(i)].left
  /\ mem.init => \A i \in feed : mem.last < i /\ p[New(i)] # None => mem.pend[New(i)] # None
  /\ ~mem.init => \A c \in Check : Fetch(c) =>
       \A i \in feed \ chk[c].dyn, m \in Id : p[New(m)] # None => m < i

\* What is stored, or about to be.
SnapOK(s) == s.init /\ LastOK(s.last) /\ PendOK(s.pend)

MemOK ==
  /\ feed \subseteq 1 .. published
  /\ ~mem.init => mem.last = 0
  /\ LastOK(mem.last) /\ PendOK(mem.pend)

RowOK == row # None => SnapOK(row)

\* A snapshot that an answer does not show has one of every earlier dynamic that
\* it does not show either.
Seen(c) == Fetch(c) /\ mem.init => \A j \in feed \ chk[c].dyn, m \in Id :
  mem.last < j /\ j < m /\ mem.pend[New(m)] # None => mem.pend[New(j)] # None

CheckOK(c) == chk[c].pc # "idle" =>
  /\ up /\ chk[c].gen <= gen
  /\ chk[c].pc = "fetch" => /\ chk[c].dyn \subseteq 1 .. published
                            /\ \A i \in chk[c].dyn, j \in feed \ chk[c].dyn : i < j
  /\ chk[c].pc # "fetch" /\ chk[c].gen = gen => mem.init
  /\ chk[c].pc = "commit" => SnapOK(chk[c].cap)
  /\ Seen(c)

Reached(t) == task[t].ids \cup task[t].got \cup {task[t].key[1]}

\* The task goes through its batch in order.
InOrderOf(t) ==
  /\ \A j \in task[t].ids : task[t].key[1] < j
  /\ \A g \in task[t].got : g \in Id /\ g <= task[t].key[1]

\* The batch leaves no dynamic out.
InBatch(t) == \A j \in feed, m \in Reached(t) : mem.last < j /\ j < m => j \in Reached(t)

\* What the task counts as pushed is owed to nobody.
Pushed(t) == ~Ending(t) => \A g \in task[t].got :
  (g \in feed => owed[New(g)] = {}) /\ mem.pend[New(g)] # None

\* Between two pushes nothing is half done.
Between(t) == Going(t) => task[t].key[1] \in task[t].got \cup {0}

\* A first snapshot is built of what the cursor has not passed.
Building(t) == task[t].pc = "build" => mem.last < task[t].key[1] /\ mem.pend[task[t].key] = None

InFlight(t) == IF task[t].pc = "inflight" THEN {task[t].to} ELSE {}

\* Who is owed the dynamic in turn has its turn or has failed.
Serving(t) == Sending(t) =>
  /\ task[t].key[1] \in Id
  /\ mem.pend[task[t].key] # None
  /\ task[t].key[1] \in feed =>
       owed[task[t].key] \subseteq task[t].queue \cup task[t].failed \cup InFlight(t)

NewTask(t) ==
  /\ Reached(t) \subseteq 0 .. published
  /\ InOrderOf(t) /\ InBatch(t) /\ Pushed(t) /\ Between(t)
  /\ Building(t) /\ Serving(t)

KeyOK(t) == IF task[t].pinned THEN Busy(t) /\ task[t].pc # "stop" => task[t].key[2]
                              ELSE ~task[t].key[2]

LifeOK(t) ==
  /\ up /\ task[t].gen <= gen
  /\ task[t].gen = gen => task[t].epoch = epoch /\ mem.init
  /\ Busy(t) => task[t].ahead = {}
  /\ task[t].to # None => Sending(t) /\ task[t].pc # "send"

TaskInv(t) == task[t].pc # "idle" =>
  /\ LifeOK(t) /\ KeyOK(t)
  /\ task[t].pc = "commit" => SnapOK(task[t].cap)
  /\ Work(t) /\ ~task[t].pinned => NewTask(t)

\* Of two tasks that want the same lock, one waits for the other.
Queued(t, u) ==
  t # u /\ task[t].pc # "idle" /\ task[u].pc # "idle" /\ task[t].epoch = task[u].epoch
    => t \in task[u].ahead \/ u \in task[t].ahead

CursorInv ==
  /\ MemOK /\ RowOK
  /\ \A c \in Check : CheckOK(c)
  /\ \A t \in Task : TaskInv(t)
  /\ \A t, u \in Task : Queued(t, u)

\* The key of a push as new names its dynamic.
LEMMA NewKey == /\ \A i \in Id : New(i) \in Key /\ New(i)[1] = i /\ ~New(i)[2]
                /\ \A i, j \in Id : New(i) = New(j) => i = j
                /\ \A k \in KeyOrNone : ~k[2] /\ k[1] \in Id => k = New(k[1])
                /\ \A k \in KeyOrNone : k[1] \in Id => k \in Key
                /\ \A k \in Key : k[1] \in Id /\ (k[2] => \A i \in Id : k # New(i))
<1> USE DEF New
<1>0. 0 \notin Id
  BY DEF Id
<1>1. \A i \in Id : New(i) \in Key /\ New(i)[1] = i /\ ~New(i)[2]
  BY DEF Key
<1>2. \A i, j \in Id : New(i) = New(j) => i = j
  BY <1>1
<1>3. \A k \in Key : k[1] \in Id /\ k[2] \in BOOLEAN /\ k = <<k[1], k[2]>>
  BY DEF Key
<1>4. \A k \in Key : ~k[2] => k = New(k[1])
  <2> TAKE k \in Key
  <2>1. ~k[2] => k[2] = FALSE
    BY <1>3
  <2> QED
    BY <1>3, <2>1
<1>5. \A k \in KeyOrNone : k[1] \in Id => k \in Key
  <2>1. <<0, FALSE>>[1] = 0
    OBVIOUS
  <2> QED
    BY <1>0, <2>1 DEF KeyOrNone
<1>6. \A k \in Key : k[2] => \A i \in Id : k # New(i)
  BY <1>1
<1> QED
  <2> HIDE DEF New
  <2> QED
    BY <1>1, <1>2, <1>3, <1>4, <1>5, <1>6

-----------------------------------------------------------------------------
(* A quiet step *)

\* It leaves feed, cursor, baseline and generation alone, adds and drops no
\* snapshot of a new dynamic, and nobody is owed more.
Calm ==
  /\ UNCHANGED <<feed, published, base, up, gen, epoch>>
  /\ mem'.init = mem.init /\ mem'.last = mem.last
  /\ \A i \in Id : mem'.pend[New(i)] = None <=> mem.pend[New(i)] = None
  /\ \A i \in Id : owed'[New(i)] \subseteq owed[New(i)]
  /\ \A c \in Check : chk'[c].pc = "fetch" => chk'[c] = chk[c]

\* What is true of a cursor stays true.
LEMMA CalmLast == ASSUME TypeOK, Calm, NEW l, LastOK(l) PROVE LastOK(l)'
BY DEF Calm, LastOK, Fetch, TypeOK

\* What is true of snapshots stays true.
LEMMA CalmPend == ASSUME TypeOK, Calm, NEW p, PendOK(p) PROVE PendOK(p)'
BY DEF Calm, PendOK, Fetch, TypeOK

\* What is true of what is stored stays true.
LEMMA CalmSnap == ASSUME TypeOK, Calm, NEW s, SnapOK(s) PROVE SnapOK(s)'
BY CalmLast, CalmPend DEF SnapOK

\* The row after a commit is sound when the row and the captured state are.
LEMMA MergedSound ==
  ASSUME NEW old \in State \cup {None}, NEW new \in State, SnapOK(new), RowOK,
         row \in State \cup {None}, Merged(old, new, row) # None
  PROVE  SnapOK(Merged(old, new, row))
BY NoneAssumption DEF Merged, Column, SnapOK, RowOK

-----------------------------------------------------------------------------
(* What a quiet step leaves of the coroutines *)

\* Task u is what it was, but for tasks that it need not wait for any more.
Same(u) == \E a \in SUBSET task[u].ahead : task'[u] = [task[u] EXCEPT !.ahead = a]

\* A record that only the queue of its lock changes in.
LEMMA SameFields ==
  ASSUME TypeOK, NEW u \in Task, Same(u)
  PROVE  /\ task[u] \in TaskRec
         /\ task'[u].pc = task[u].pc /\ task'[u].pinned = task[u].pinned
         /\ task'[u].ids = task[u].ids /\ task'[u].gen = task[u].gen
         /\ task'[u].epoch = task[u].epoch /\ task'[u].ahead \subseteq task[u].ahead
         /\ task'[u].key = task[u].key /\ task'[u].got = task[u].got
         /\ task'[u].queue = task[u].queue /\ task'[u].failed = task[u].failed
         /\ task'[u].to = task[u].to /\ task'[u].then = task[u].then
         /\ task'[u].cap = task[u].cap
<1>1. task[u] \in TaskRec
  BY DEF TypeOK, TasksOK
<1>2. PICK a \in SUBSET task[u].ahead : task'[u] = [task[u] EXCEPT !.ahead = a]
  BY DEF Same
<1> QED
  BY <1>1, <1>2 DEF TaskRec

\* A request, or a commit, that is not the one at work.
LEMMA CalmCheck == ASSUME TypeOK, Calm, NEW c \in Check, CheckOK(c), chk'[c] = chk[c]
                   PROVE  CheckOK(c)'
<1>1. Fetch(c)' <=> Fetch(c)
  BY DEF Calm, Fetch
<1>2. Seen(c) => Seen(c)'
  BY <1>1 DEF Seen, Calm, TypeOK
<1>3. chk[c].pc = "commit" => SnapOK(chk[c].cap)'
  <2>1. chk[c].pc = "commit" => SnapOK(chk[c].cap)
    BY DEF CheckOK
  <2>2. PICK s : s = chk[c].cap
    OBVIOUS
  <2>3. SnapOK(s) => SnapOK(s)'
    BY CalmSnap
  <2> QED
    BY <2>1, <2>2, <2>3 DEF SnapOK
<1> QED
  BY <1>2, <1>3 DEF CheckOK, Calm

\* The keys of its batch, and of what it counts as pushed, are keys.
LEMMA NewTaskKeys ==
  ASSUME TypeOK, NEW t \in Task, KeyOK(t), ~task[t].pinned
  PROVE  /\ task[t].key \in KeyOrNone
         /\ task[t].key[1] \in Id => task[t].key = New(task[t].key[1]) /\ task[t].key \in Key
         /\ task[t].ids \in SUBSET Id
BY NewKey DEF TypeOK, TasksOK, TaskRec, KeyOK, KeyOrNone

\* A task that is not the one at work.
LEMMA CalmNew ==
  ASSUME TypeOK, Calm, NEW u \in Task, Same(u), KeyOK(u), ~task[u].pinned, NewTask(u)
  PROVE  NewTask(u)'
<1> USE SameFields
<1>k. task[u].key[1] \in Id => task[u].key = New(task[u].key[1])
  BY NewTaskKeys
<1>0. Reached(u)' = Reached(u) /\ InFlight(u)' = InFlight(u)
  BY DEF Reached, InFlight
<1>1. InOrderOf(u)'
  BY DEF NewTask, InOrderOf
<1>2. InBatch(u)'
  BY <1>0 DEF NewTask, InBatch, Calm
<1>3. Pushed(u)'
  BY DEF NewTask, Pushed, InOrderOf, Ending, Calm
<1>b. Between(u)'
  BY DEF NewTask, Between, Going
<1>4. Building(u)'
  <2>1. task[u].pc = "build" => task[u].key[1] \in Id
    <3>1. task[u].key \in KeyOrNone /\ mem.last \in 0 .. MaxId
      BY NewTaskKeys DEF TypeOK, State
    <3>2. task[u].key[1] \in 0 .. MaxId
      BY <3>1, KeyType
    <3> QED
      BY <3>1, <3>2 DEF NewTask, Building, Id
  <2> QED
    BY <1>k, <2>1 DEF NewTask, Building, Calm
<1>5. Serving(u)'
  BY <1>0, <1>k DEF NewTask, Serving, Sending, Calm
<1> QED
  BY <1>0, <1>1, <1>2, <1>3, <1>b, <1>4, <1>5 DEF NewTask, Calm

\* A task that is not the one at work, of whatever kind it is.
LEMMA CalmTask == ASSUME TypeOK, Calm, NEW u \in Task, Same(u), TaskInv(u)
                  PROVE  TaskInv(u)'
<1> USE SameFields
<1>1. CASE task[u].pc = "idle"
  BY <1>1 DEF TaskInv
<1>2. CASE task[u].pc # "idle"
  <2>1. LifeOK(u)' /\ KeyOK(u)'
    BY <1>2 DEF TaskInv, LifeOK, KeyOK, Busy, Sending, Calm
  <2>2. task[u].pc = "commit" => SnapOK(task[u].cap)'
    <3>1. PICK s : s = task[u].cap /\ s = task'[u].cap
      OBVIOUS
    <3>2. SnapOK(s) => SnapOK(s)'
      BY CalmSnap
    <3> QED
      BY <1>2, <3>1, <3>2 DEF TaskInv, SnapOK
  <2>3. Work(u)' /\ ~task[u].pinned => NewTask(u)'
    BY <1>2, CalmNew DEF TaskInv, Work, Calm
  <2> QED
    BY <2>1, <2>2, <2>3 DEF TaskInv
<1> QED
  BY <1>1, <1>2

\* The queues of the locks when task t goes on, and when it ends.
LEMMA GoOnQueued ==
  ASSUME TypeOK, \A u, v \in Task : Queued(u, v), NEW t \in Task, NEW r,
         task' = [task EXCEPT ![t] = r], r.ahead = task[t].ahead, r.epoch = task[t].epoch,
         task[t].pc # "idle"
  PROVE  \A u, v \in Task : Queued(u, v)'
BY DEF TypeOK, TasksOK, Queued

\* The queues of the locks when task t ends.
LEMMA EndQueued ==
  ASSUME TypeOK, \A u, v \in Task : Queued(u, v), NEW t \in Task, End(t)
  PROVE  \A u, v \in Task : Queued(u, v)'
<1> SUFFICES ASSUME NEW u \in Task, NEW v \in Task, u # v, task'[u].pc # "idle",
                    task'[v].pc # "idle", task'[u].epoch = task'[v].epoch
             PROVE  u \in task'[v].ahead \/ v \in task'[u].ahead
  BY DEF Queued
<1>1. u # t /\ v # t
  BY DEF End, Ended, IdleTask
<1>2. task[u] \in TaskRec /\ task[v] \in TaskRec
  BY DEF TypeOK, TasksOK
<1>3. /\ task'[u] = [task[u] EXCEPT !.ahead = @ \ {t}]
      /\ task'[v] = [task[v] EXCEPT !.ahead = @ \ {t}]
  BY <1>1 DEF End, Ended
<1> QED
  BY <1>1, <1>2, <1>3 DEF Queued, TaskRec

\* What row and memory keep.
LEMMA CalmRow ==
  ASSUME TypeOK, RowOK, Calm,
         \/ row' = row
         \/ \E old \in State \cup {None}, new \in State :
              SnapOK(new) /\ row' = Merged(old, new, row)
  PROVE  RowOK'
<1> SUFFICES ASSUME row' # None PROVE SnapOK(row)'
  BY DEF RowOK
<1>1. SnapOK(row')
  <2>1. CASE row' = row
    BY <2>1 DEF RowOK
  <2>2. CASE row' # row
    <3> PICK old \in State \cup {None}, new \in State :
          SnapOK(new) /\ row' = Merged(old, new, row)
      BY <2>2
    <3> QED
      BY MergedSound DEF TypeOK
  <2> QED
    BY <2>1, <2>2
<1>2. PICK s : s = row'
  OBVIOUS
<1>3. SnapOK(s) => SnapOK(s)'
  BY CalmSnap
<1> QED
  BY <1>1, <1>2, <1>3 DEF SnapOK

\* A quiet step leaves memory sound.
LEMMA CalmMem ==
  ASSUME TypeOK, MemOK, Calm,
         \A i \in feed : mem'.pend[New(i)] # None => owed'[New(i)] \subseteq mem'.pend[New(i)].left
  PROVE  MemOK'
<1>1. LastOK(mem.last)'
  <2>1. PICK l : l = mem.last
    OBVIOUS
  <2>2. LastOK(l)'
    BY <2>1, CalmLast DEF MemOK
  <2> QED
    BY <2>1, <2>2 DEF Calm, LastOK
<1>2. PendOK(mem.pend)'
  <2>1. PICK p : p = mem.pend
    OBVIOUS
  <2>2. PendOK(p)'
    BY <2>1, CalmPend DEF MemOK
  <2> QED
    BY <2>1, <2>2 DEF Calm, PendOK, TypeOK
<1> QED
  BY <1>1, <1>2 DEF MemOK, Calm

\* Task t goes on, and keeps its place; it keeps its batch as well.
Keeps(t) ==
  /\ task' = [task EXCEPT ![t] = task'[t]]
  /\ task'[t].pinned = task[t].pinned /\ task'[t].gen = task[t].gen
  /\ task'[t].epoch = task[t].epoch /\ task'[t].ahead = task[t].ahead

KeepsBatch(t) ==
  /\ Keeps(t)
  /\ task'[t].ids = task[t].ids /\ task'[t].got = task[t].got /\ task'[t].key = task[t].key

\* A quiet step after which task t goes on.
LEMMA GoOn ==
  ASSUME TypeOK, CursorInv, Calm, NEW t \in Task, task[t].pc # "idle", Keeps(t),
         UNCHANGED chk, MemOK', RowOK', TaskInv(t)'
  PROVE  CursorInv'
<1>1. \A u \in Task : TaskInv(u)'
  <2> TAKE u \in Task
  <2>1. CASE u # t
    <3>1. task'[u] = task[u] /\ task[u] \in TaskRec
      BY <2>1 DEF Keeps, TypeOK, TasksOK
    <3>2. task[u] = [task[u] EXCEPT !.ahead = task[u].ahead]
      BY <3>1 DEF TaskRec
    <3>3. Same(u)
      BY <3>1, <3>2 DEF Same
    <3> QED
      BY <3>3, CalmTask DEF CursorInv
  <2> QED
    BY <2>1
<1>2. \A c \in Check : CheckOK(c)'
  BY CalmCheck DEF CursorInv
<1>3. \A u, v \in Task : Queued(u, v)'
  <2>1. PICK r : r = task'[t]
    OBVIOUS
  <2> QED
    BY <2>1, GoOnQueued DEF Keeps, CursorInv
<1> QED
  BY <1>1, <1>2, <1>3 DEF CursorInv

\* A quiet step after which task t is over.
LEMMA Ends ==
  ASSUME TypeOK, CursorInv, Calm, NEW t \in Task, End(t), UNCHANGED chk, MemOK', RowOK'
  PROVE  CursorInv'
<1>1. \A u \in Task : TaskInv(u)'
  <2> TAKE u \in Task
  <2>1. CASE u # t
    <3>1. Same(u)
      BY <2>1 DEF Same, End, Ended
    <3> QED
      BY <3>1, CalmTask DEF CursorInv
  <2>2. CASE u = t
    BY <2>2 DEF TaskInv, End, Ended, IdleTask
  <2> QED
    BY <2>1, <2>2
<1>2. \A c \in Check : CheckOK(c)'
  BY CalmCheck DEF CursorInv
<1>3. \A u, v \in Task : Queued(u, v)'
  BY EndQueued DEF CursorInv
<1> QED
  BY <1>1, <1>2, <1>3 DEF CursorInv

\* What the steps of a task do to its record.
LEMMA GotoFields ==
  ASSUME TypeOK, NEW t \in Task, NEW pc, Goto(t, pc)
  PROVE  /\ KeepsBatch(t) /\ task'[t].pc = pc /\ task'[t].to = None
         /\ task'[t].queue = task[t].queue /\ task'[t].failed = task[t].failed
<1>1. task[t] \in TaskRec
  BY DEF TypeOK, TasksOK
<1> QED
  BY <1>1 DEF Goto, KeepsBatch, Keeps, TaskRec, TypeOK, TasksOK

\* The next target of the push, or the end of the attempt.
LEMMA NextTargetFields ==
  ASSUME TypeOK, NEW t \in Task, NextTarget(t)
  PROVE  /\ KeepsBatch(t) /\ task'[t].pc = "send" /\ task'[t].to = None
         /\ task'[t].queue = task[t].queue /\ task'[t].failed = task[t].failed \cup {task[t].to}
<1>1. task[t] \in TaskRec
  BY DEF TypeOK, TasksOK
<1> QED
  BY <1>1 DEF NextTarget, KeepsBatch, Keeps, TaskRec, TypeOK, TasksOK

\* The task has something to store.
LEMMA PersistFields ==
  ASSUME TypeOK, NEW t \in Task, NEW r \in TaskRec, NEW then, Persist(t, r, then)
  PROVE  /\ task' = [task EXCEPT ![t] = task'[t]]
         /\ task'[t].pc = "persist" /\ task'[t].then = then
         /\ task'[t].pinned = r.pinned /\ task'[t].gen = r.gen /\ task'[t].epoch = r.epoch
         /\ task'[t].ahead = r.ahead /\ task'[t].ids = r.ids /\ task'[t].got = r.got
         /\ task'[t].key = r.key /\ task'[t].queue = r.queue /\ task'[t].failed = r.failed
         /\ task'[t].to = r.to
BY DEF Persist, TaskRec, TypeOK, TasksOK

-----------------------------------------------------------------------------
(* The steps of a task that leave the cursor alone *)

\* A task that goes on with the same batch.
LEMMA KeptTask ==
  ASSUME TypeOK, Calm, NEW t \in Task, KeepsBatch(t), TaskInv(t),
         task[t].pc \notin {"idle", "next", "stop"}, task'[t].pc \notin {"idle", "build"},
         Ending(t) => Ending(t)', Going(t)' => Going(t),
         task'[t].to # None => Sending(t)' /\ task'[t].pc # "send",
         task'[t].pc = "commit" => SnapOK(task[t].cap)',
         Work(t) /\ ~task[t].pinned /\ Sending(t)' =>
           /\ Sending(t)
           /\ task[t].key[1] \in feed =>
                owed'[task[t].key] \subseteq task'[t].queue \cup task'[t].failed \cup InFlight(t)'
  PROVE  TaskInv(t)'
<1> USE DEF KeepsBatch, Keeps
<1>1. LifeOK(t)' /\ KeyOK(t)'
  BY DEF TaskInv, LifeOK, KeyOK, Busy, Calm
<1>2. ASSUME Work(t), ~task[t].pinned PROVE NewTask(t)'
  <2>0. NewTask(t) /\ KeyOK(t) /\ Reached(t)' = Reached(t)
    BY <1>2 DEF TaskInv, Reached
  <2>k. task[t].key[1] \in Id => task[t].key = New(task[t].key[1])
    BY <1>2, <2>0, NewTaskKeys
  <2>1. InOrderOf(t)' /\ InBatch(t)' /\ Reached(t)' \subseteq 0 .. published'
    BY <2>0 DEF NewTask, InOrderOf, InBatch, Calm
  <2>2. Pushed(t)'
    BY <2>0 DEF NewTask, Pushed, InOrderOf, Calm
  <2>3. Building(t)' /\ Between(t)'
    BY <2>0 DEF Building, Between, NewTask
  <2>4. Serving(t)'
    BY <1>2, <2>0, <2>k DEF NewTask, Serving, Calm
  <2> QED
    BY <2>1, <2>2, <2>3, <2>4 DEF NewTask
<1>3. Work(t)' => Work(t)
  BY DEF Work, Calm
<1> QED
  BY <1>1, <1>2, <1>3 DEF TaskInv

\* The outcomes of a send to the target in turn.
SendStep(t) ==
  \/ \E x \in Target : SendSkip(t, x) \/ SendResume(t, x) \/ SendStart(t, x)
  \/ SendOk(t) \/ SendFailed(t) \/ SendLost(t)

\* What a target that has received the message leaves of the snapshots.
LEMMA SendOkMem ==
  ASSUME TypeOK, NEW t \in Task, SendOk(t)
  PROVE  /\ mem'.init = mem.init /\ mem'.last = mem.last
         /\ \A i \in Id : /\ mem'.pend[New(i)] = None <=> mem.pend[New(i)] = None
                          /\ mem'.pend[New(i)] # None =>
                               mem'.pend[New(i)].left = mem.pend[New(i)].left
<1>1. mem \in State /\ mem.pend \in [Key -> Pending \cup {None}] /\ \A i \in Id : New(i) \in Key
  BY NewKey DEF TypeOK, State
<1>2. CASE mem.pend[task[t].key] = None
  BY <1>2 DEF SendOk
<1>3. CASE mem.pend[task[t].key] # None
  <2>1. mem' = [mem EXCEPT !.pend[task[t].key].done = @ \cup {task[t].to}]
    BY <1>3 DEF SendOk
  <2>2. PICK p : p = [mem.pend EXCEPT ![task[t].key].done = @ \cup {task[t].to}]
    OBVIOUS
  <2>3. mem'.init = mem.init /\ mem'.last = mem.last /\ mem'.pend = p
    BY <1>1, <2>1, <2>2 DEF State
  <2>4. ASSUME NEW i \in Id
        PROVE  /\ p[New(i)] = None <=> mem.pend[New(i)] = None
               /\ p[New(i)] # None => p[New(i)].left = mem.pend[New(i)].left
    <3>1. CASE New(i) # task[t].key
      BY <1>1, <2>2, <3>1
    <3>2. CASE New(i) = task[t].key
      <4>1. mem.pend[New(i)] \in Pending
        BY <1>1, <1>3, <3>2
      <4>2. p[New(i)] = [mem.pend[New(i)] EXCEPT !.done = @ \cup {task[t].to}]
        BY <1>1, <2>2, <3>2
      <4>3. p[New(i)] \in [left: SUBSET Target, done: SUBSET (Target \cup {task[t].to})]
        BY <4>1, <4>2 DEF Pending
      <4>4. p[New(i)].left = mem.pend[New(i)].left
        BY <4>1, <4>2 DEF Pending
      <4>5. p[New(i)] # None
        <5>1. p[New(i)] \in Pending
          <6>1. task[t].to \in Target
            <7>1. task[t] \in TaskRec /\ task[t].to # None
              BY DEF SendOk, TypeOK, TasksOK
            <7> QED
              BY <7>1 DEF TaskRec
          <6> QED
            BY <4>1, <4>2, <6>1 DEF Pending
        <5> QED
          BY <5>1, NoneAssumption
      <4> QED
        BY <3>2, <1>3, <4>4, <4>5
    <3> QED
      BY <3>1, <3>2
  <2> QED
    BY <2>3, <2>4
<1> QED
  BY <1>2, <1>3

\* A step of a send is quiet, and leaves every snapshot what it still has to serve.
LEMMA SendCalm == ASSUME TypeOK, NEW t \in Task, SendStep(t)
                  PROVE  /\ Calm /\ UNCHANGED <<chk, row>>
                         /\ \A i \in Id : mem'.pend[New(i)] # None =>
                              mem'.pend[New(i)].left = mem.pend[New(i)].left
<1> USE NewKey DEF world, db, proc, hist
<1>o. owed \in [Key -> SUBSET Target] /\ chk \in [Check -> CheckRec]
  BY DEF TypeOK
<1>1. ASSUME NEW x \in Target, SendSkip(t, x) \/ SendResume(t, x) \/ SendStart(t, x)
      PROVE  Calm /\ UNCHANGED <<chk, row, mem>>
  BY <1>o, <1>1 DEF SendSkip, SendResume, SendStart, Calm
<1>2. CASE SendOk(t)
  <2>1. \A i \in Id : owed'[New(i)] \subseteq owed[New(i)]
    BY <1>o, <1>2 DEF SendOk
  <2> QED
    BY <1>2, <2>1, SendOkMem DEF SendOk, Calm
<1>3. CASE SendFailed(t) \/ SendLost(t)
  <2>1. UNCHANGED <<feed, published, base, up, gen, epoch, mem, chk, row>>
    BY <1>3 DEF SendFailed, SendLost
  <2>2. \A i \in Id : owed'[New(i)] \subseteq owed[New(i)]
    BY <1>o, <1>3 DEF SendFailed, SendLost
  <2> QED
    BY <2>1, <2>2 DEF Calm
<1> QED
  BY <1>1, <1>2, <1>3 DEF SendStep

\* The fields that the steps of a send change.
LEMMA SkipFields ==
  ASSUME TypeOK, NEW t \in Task, NEW x \in Target, SendSkip(t, x) \/ SendResume(t, x)
  PROVE  /\ KeepsBatch(t) /\ task'[t].pc = "send" /\ task'[t].to = task[t].to
         /\ task'[t].queue = task[t].queue \ {x} /\ task'[t].failed = task[t].failed
<1>1. task[t] \in TaskRec /\ task[t].pc = "send"
  BY DEF TypeOK, TasksOK, SendSkip, SendResume
<1>2. task' = [task EXCEPT ![t].queue = @ \ {x}]
  BY DEF SendSkip, SendResume
<1> QED
  BY <1>1, <1>2 DEF KeepsBatch, Keeps, TaskRec, TypeOK, TasksOK

\* The fields that the start of a send changes.
LEMMA StartFields ==
  ASSUME TypeOK, NEW t \in Task, NEW x \in Target, SendStart(t, x)
  PROVE  /\ KeepsBatch(t) /\ task'[t].pc = "inflight" /\ task'[t].to = x
         /\ task'[t].queue = task[t].queue \ {x} /\ task'[t].failed = task[t].failed
<1>1. task[t] \in TaskRec
  BY DEF TypeOK, TasksOK
<1> QED
  BY <1>1 DEF SendStart, KeepsBatch, Keeps, TaskRec, TypeOK, TasksOK

\* Who is owed it while the task sends.
LEMMA ServingOwed ==
  ASSUME TypeOK, NEW t \in Task, TaskInv(t), Work(t), ~task[t].pinned, Sending(t)
  PROVE  /\ task[t].key[1] \in Id /\ task[t].key = New(task[t].key[1]) /\ task[t].key \in Key
         /\ mem.pend[task[t].key] # None
         /\ task[t].key[1] \in feed =>
              owed[task[t].key] \subseteq task[t].queue \cup task[t].failed \cup InFlight(t)
         /\ task[t].key[1] \in feed /\ task[t].pc # "inflight" =>
              owed[task[t].key] \subseteq task[t].queue \cup task[t].failed
<1>1. KeyOK(t) /\ Serving(t)
  BY DEF TaskInv, Work, NewTask
<1> QED
  BY <1>1, NewTaskKeys DEF Serving, InFlight

\* A task of the present life pushes what is still in the feed, as new.
Owing(t) == Work(t) /\ ~task[t].pinned /\ task[t].key[1] \in feed

\* The steps of a send keep the invariant.
LEMMA SendInv == ASSUME TypeOK, CursorInv, NEW t \in Task, SendStep(t) PROVE CursorInv'
<1>0. TaskInv(t) /\ MemOK /\ RowOK /\ feed \subseteq Id /\ owed \in [Key -> SUBSET Target]
  BY DEF CursorInv, TypeOK
<1>1. /\ Calm /\ UNCHANGED <<chk, row>>
      /\ \A i \in Id : mem'.pend[New(i)] # None => mem'.pend[New(i)].left = mem.pend[New(i)].left
  BY SendCalm
<1>2. MemOK'
  BY <1>0, <1>1, CalmMem DEF MemOK, PendOK, Calm
<1>3. RowOK'
  BY <1>0, <1>1, CalmRow
<1>4. task[t].pc \in {"send", "inflight"} /\ Sending(t)
  BY DEF SendStep, SendSkip, SendResume, SendStart, SendOk, SendFailed, SendLost, Sending
<1>5. task[t].pc = "send" => task[t].to = None
  BY <1>0, <1>4 DEF TaskInv, LifeOK
<1>6. ASSUME KeepsBatch(t), task'[t].pc \in {"send", "inflight", "persist"},
             task'[t].to # None => Sending(t)' /\ task'[t].pc # "send",
             task'[t].pc = "persist" => task'[t].then = "send",
             Owing(t) => owed'[task[t].key] \subseteq
               task'[t].queue \cup task'[t].failed \cup InFlight(t)'
      PROVE  CursorInv'
  <2>1. TaskInv(t)'
    BY <1>0, <1>1, <1>4, <1>6, KeptTask DEF Ending, Going, Owing
  <2> QED
    BY <1>1, <1>2, <1>3, <1>4, <1>6, <2>1, GoOn DEF KeepsBatch
<1> DEFINE k == task[t].key
<1>k. Owing(t) =>
        /\ k \in Key /\ mem.pend[k] # None
        /\ owed[k] \subseteq task[t].queue \cup task[t].failed \cup InFlight(t)
        /\ task[t].pc = "send" => owed[k] \subseteq task[t].queue \cup task[t].failed
  BY <1>0, <1>4, ServingOwed DEF Owing
<1>7. ASSUME NEW x \in Target, SendSkip(t, x) PROVE CursorInv'
  <2>1. Owing(t) => x \notin owed'[k]
    BY <1>0, <1>k, <1>7 DEF SendSkip, Active, LiveTask, Valid, Work, Owing
  <2>2. Owing(t) => owed'[k] \subseteq task[t].queue \cup task[t].failed
    BY <1>0, <1>k, <1>7 DEF SendSkip
  <2>3. /\ KeepsBatch(t) /\ task'[t].pc = "send" /\ task'[t].to = None
        /\ task'[t].queue = task[t].queue \ {x} /\ task'[t].failed = task[t].failed
    BY <1>5, <1>7, SkipFields DEF SendSkip
  <2>4. Owing(t) => owed'[k] \subseteq task'[t].queue \cup task'[t].failed
    BY <2>1, <2>2, <2>3
  <2> QED
    BY <1>6, <2>3, <2>4
<1>8. ASSUME NEW x \in Target, SendResume(t, x) PROVE CursorInv'
  <2>1. Owing(t) => x \notin owed'[k]
    BY <1>0, <1>k, <1>8 DEF SendResume
  <2>2. Owing(t) => owed'[k] \subseteq task[t].queue \cup task[t].failed
    BY <1>0, <1>k, <1>8 DEF SendResume
  <2>3. /\ KeepsBatch(t) /\ task'[t].pc = "send" /\ task'[t].to = None
        /\ task'[t].queue = task[t].queue \ {x} /\ task'[t].failed = task[t].failed
    BY <1>5, <1>8, SkipFields DEF SendResume
  <2>4. Owing(t) => owed'[k] \subseteq task'[t].queue \cup task'[t].failed
    BY <2>1, <2>2, <2>3
  <2> QED
    BY <1>6, <2>3, <2>4
<1>9. ASSUME NEW x \in Target, SendStart(t, x) PROVE CursorInv'
  <2>1. owed' = owed /\ InFlight(t)' = {x} /\ task[t].pc = "send"
    BY <1>9, StartFields DEF SendStart, hist, InFlight
  <2>2. Sending(t)'
    BY <1>9, StartFields DEF Sending
  <2> QED
    BY <1>k, <1>6, <1>9, <2>1, <2>2, StartFields
<1>10. CASE SendOk(t)
  <2>1. task[t] \in TaskRec
    BY DEF TypeOK, TasksOK
  <2>2. /\ KeepsBatch(t) /\ task'[t].pc = "persist" /\ task'[t].then = "send"
        /\ task'[t].queue = task[t].queue /\ task'[t].failed = task[t].failed
    BY <1>10, <2>1, PersistFields DEF SendOk, KeepsBatch, Keeps
  <2>3. Owing(t) => owed'[k] \subseteq task[t].queue \cup task[t].failed
    BY <1>0, <1>k, <1>10 DEF SendOk, InFlight
  <2> QED
    BY <1>6, <2>2, <2>3 DEF Sending
<1>11. CASE SendFailed(t)
  <2>1. CASE NextTarget(t) /\ UNCHANGED owed
    BY <1>k, <1>6, <2>1, NextTargetFields DEF InFlight
  <2>2. CASE Goto(t, "send") /\ owed' = [owed EXCEPT ![task[t].key] = @ \ {task[t].to}]
    <3>1. Owing(t) => owed'[k] \subseteq task[t].queue \cup task[t].failed
      BY <1>0, <1>k, <2>2 DEF InFlight
    <3> QED
      BY <1>6, <2>2, <3>1, GotoFields
  <2> QED
    BY <1>11, <2>1, <2>2 DEF SendFailed
<1>12. CASE SendLost(t)
  BY <1>k, <1>6, <1>12, NextTargetFields DEF InFlight, SendLost
<1> QED
  BY <1>7, <1>8, <1>9, <1>10, <1>11, <1>12 DEF SendStep

\* A step that touches nothing but the row and coroutines is quiet.
Still == UNCHANGED <<feed, published, base, up, gen, epoch, mem, owed, chk>>

\* Such a step leaves memory sound.
LEMMA StillCalm == ASSUME TypeOK, MemOK, Still PROVE Calm /\ MemOK'
<1>1. Calm
  BY DEF Still, Calm
<1>2. feed \subseteq Id
  BY DEF TypeOK
<1> QED
  BY <1>1, <1>2, CalmMem DEF Still, MemOK, PendOK

\* The task reads the row, stores, or fails to.
StoreStep(t) == TaskRead(t) \/ TaskCommit(t) \/ TaskConflict(t) \/ TaskDbError(t)

\* What a commit makes of the row.
LEMMA RaisedInv ==
  ASSUME TypeOK, CursorInv, Still, RowOK', NEW t \in Task,
         task[t].pc \in {"persist", "commit"}, Raised(t)
  PROVE  CursorInv'
<1>1. MemOK /\ TaskInv(t)
  BY DEF CursorInv
<1>2. Calm /\ MemOK' /\ UNCHANGED chk
  BY <1>1, StillCalm DEF Still
<1>3. CASE End(t)
  BY <1>2, <1>3, Ends
<1>4. CASE NextTarget(t) /\ task[t].to # None
  <2>1. Sending(t) /\ ~Ending(t)
    BY <1>1, <1>4 DEF TaskInv, LifeOK, Sending, Ending
  <2>2. Owing(t) =>
          owed'[task[t].key] \subseteq task'[t].queue \cup task'[t].failed \cup InFlight(t)'
    BY <1>1, <1>4, <2>1, ServingOwed, NextTargetFields DEF Still, Owing
  <2>3. TaskInv(t)'
    BY <1>1, <1>2, <1>4, <2>1, <2>2, NextTargetFields, KeptTask DEF Owing, Going
  <2> QED
    BY <1>2, <1>4, <2>3, NextTargetFields, GoOn DEF KeepsBatch
<1> QED
  BY <1>3, <1>4 DEF Raised

\* The task goes on where it wanted to after it has stored.
LEMMA ThenInv ==
  ASSUME TypeOK, CursorInv, Still, RowOK', NEW t \in Task,
         task[t].pc \in {"persist", "commit"},
         IF task[t].then = "end" THEN End(t) ELSE Goto(t, task[t].then)
  PROVE  CursorInv'
<1>1. MemOK /\ TaskInv(t)
  BY DEF CursorInv
<1>2. Calm /\ MemOK' /\ UNCHANGED chk
  BY <1>1, StillCalm DEF Still
<1>3. CASE task[t].then = "end"
  BY <1>2, <1>3, Ends
<1>4. CASE task[t].then # "end"
  <2>0. task[t].then \in {"next", "send", "stop"}
    <3>1. task[t] \in TaskRec
      BY DEF TypeOK, TasksOK
    <3> QED
      BY <1>4, <3>1 DEF TaskRec
  <2>1. Goto(t, task[t].then) /\ ~Ending(t) /\ (task[t].then = "send" => Sending(t))
    BY <1>4 DEF Ending, Sending
  <2>2. /\ KeepsBatch(t) /\ task'[t].pc = task[t].then /\ task'[t].to = None
        /\ task'[t].queue = task[t].queue /\ task'[t].failed = task[t].failed
    BY <2>1, GotoFields
  <2>3. (Sending(t)' => Sending(t)) /\ (Going(t)' => Going(t))
    BY <2>0, <2>1, <2>2 DEF Sending, Going, Ending
  <2>4. Owing(t) /\ Sending(t)' =>
          owed'[task[t].key] \subseteq task'[t].queue \cup task'[t].failed \cup InFlight(t)'
    BY <1>1, <2>2, <2>3, ServingOwed DEF Still, Owing
  <2>5. TaskInv(t)'
    BY <1>1, <1>2, <2>0, <2>1, <2>2, <2>3, <2>4, KeptTask DEF Owing
  <2> QED
    BY <1>2, <2>2, <2>5, GoOn DEF KeepsBatch
<1> QED
  BY <1>3, <1>4

\* The fields that the read of the row changes.
LEMMA ReadFields ==
  ASSUME TypeOK, NEW t \in Task, TaskRead(t), LiveTask(t)
  PROVE  /\ KeepsBatch(t) /\ task'[t].pc = "commit" /\ task'[t].to = task[t].to
         /\ task'[t].then = task[t].then /\ task'[t].cap = mem
         /\ task'[t].queue = task[t].queue /\ task'[t].failed = task[t].failed
<1>1. task[t] \in TaskRec
  BY DEF TypeOK, TasksOK
<1>2. PICK r : r = [task[t] EXCEPT !.pc = "commit", !.base = row, !.cap = mem]
  OBVIOUS
<1>3. /\ r.pc = "commit" /\ r.cap = mem /\ r.pinned = task[t].pinned /\ r.gen = task[t].gen
      /\ r.epoch = task[t].epoch /\ r.ahead = task[t].ahead /\ r.ids = task[t].ids
      /\ r.got = task[t].got /\ r.key = task[t].key /\ r.to = task[t].to
      /\ r.then = task[t].then /\ r.queue = task[t].queue /\ r.failed = task[t].failed
  BY <1>1, <1>2 DEF TaskRec
<1>4. task' = [task EXCEPT ![t] = r] /\ task'[t] = r
  BY <1>2 DEF TaskRead, TypeOK, TasksOK
<1> QED
  BY <1>3, <1>4 DEF KeepsBatch, Keeps

\* What a task stores, and what it makes of an error or of a conflict.
LEMMA StoreInv == ASSUME TypeOK, CursorInv, NEW t \in Task, StoreStep(t) PROVE CursorInv'
<1>1. MemOK /\ RowOK /\ TaskInv(t) /\ task[t] \in TaskRec
  BY DEF CursorInv, TypeOK, TasksOK
<1>2. task[t].pc \in {"persist", "commit"} /\ Still
  BY DEF StoreStep, TaskRead, TaskCommit, TaskConflict, TaskDbError, Still, world, db, proc, hist
<1>3. Calm /\ MemOK' /\ UNCHANGED chk
  BY <1>1, <1>2, StillCalm DEF Still
<1>4. row' = row => RowOK'
  BY <1>1, <1>3, CalmRow
<1>5. CASE TaskRead(t) /\ LiveTask(t)
  <2>1. SnapOK(mem)'
    BY <1>1, <1>2, <1>3, <1>5 DEF TaskInv, LifeOK, LiveTask, Valid, SnapOK, MemOK, Still
  <2>2. SnapOK(task[t].cap)'
    <3>1. task'[t].cap = mem'
      BY <1>2, <1>5, ReadFields DEF Still
    <3> QED
      BY <2>1, <3>1 DEF SnapOK
  <2>3. /\ (Sending(t)' <=> Sending(t)) /\ (Ending(t)' <=> Ending(t)) /\ (Going(t)' <=> Going(t))
        /\ task[t].pc = "persist"
    BY <1>5, ReadFields DEF Sending, Ending, Going, TaskRead
  <2>4. Owing(t) /\ Sending(t)' =>
          owed'[task[t].key] \subseteq task'[t].queue \cup task'[t].failed \cup InFlight(t)'
    BY <1>1, <1>2, <1>5, <2>3, ServingOwed, ReadFields DEF Still, Owing
  <2>5. task[t].to # None => Sending(t)
    BY <1>1, <1>2 DEF TaskInv, LifeOK
  <2>6. TaskInv(t)'
    BY <1>1, <1>2, <1>3, <1>5, <2>2, <2>3, <2>4, <2>5, KeptTask, ReadFields DEF Owing
  <2>7. RowOK'
    BY <1>4, <1>5 DEF TaskRead, db
  <2> QED
    BY <1>2, <1>3, <1>5, <2>6, <2>7, ReadFields, GoOn DEF KeepsBatch
<1>6. CASE TaskRead(t) /\ ~LiveTask(t)
  BY <1>2, <1>4, <1>6, ThenInv DEF TaskRead, db
<1>7. CASE TaskCommit(t)
  <2>1. SnapOK(task[t].cap) /\ task[t].base \in State \cup {None} /\ task[t].cap \in State
    BY <1>1, <1>7 DEF TaskInv, TaskCommit, TaskRec
  <2>2. RowOK'
    BY <1>1, <1>3, <1>7, <2>1, CalmRow DEF TaskCommit
  <2> QED
    BY <1>2, <1>7, <2>2, ThenInv DEF TaskCommit
<1>8. CASE TaskConflict(t) \/ TaskDbError(t)
  BY <1>2, <1>4, <1>8, RaisedInv DEF TaskConflict, TaskDbError, db
<1> QED
  BY <1>5, <1>6, <1>7, <1>8 DEF StoreStep

\* A snapshot k is replaced by another one; the snapshot of k is dropped.
LEMMA PutSnapshot ==
  ASSUME TypeOK, NEW k \in Key, NEW p \in Pending, mem' = [mem EXCEPT !.pend[k] = p]
  PROVE  /\ mem'.init = mem.init /\ mem'.last = mem.last /\ mem'.pend[k] = p /\ p # None
         /\ \A l \in Key : l # k => mem'.pend[l] = mem.pend[l]
<1>1. mem \in State /\ mem.pend \in [Key -> Pending \cup {None}]
  BY DEF TypeOK, State
<1>2. mem'.pend = [mem.pend EXCEPT ![k] = p] /\ mem'.init = mem.init /\ mem'.last = mem.last
  BY <1>1 DEF State
<1> QED
  BY <1>1, <1>2, NoneAssumption

\* A push that keeps its snapshot takes note of the targets that are left.
LEMMA SettleMem ==
  ASSUME TypeOK, NEW k \in Key, mem.pend[k] # None, NEW left \in SUBSET Target,
         mem' = [mem EXCEPT !.pend[k].left = left]
  PROVE  /\ mem'.init = mem.init /\ mem'.last = mem.last
         /\ mem'.pend[k] # None /\ mem'.pend[k].left = left
         /\ \A l \in Key : l # k => mem'.pend[l] = mem.pend[l]
<1>1. mem \in State /\ mem.pend \in [Key -> Pending \cup {None}]
  BY DEF TypeOK, State
<1>2. PICK p : p = [mem.pend[k] EXCEPT !.left = left]
  OBVIOUS
<1>3. p \in Pending /\ p.left = left
  BY <1>1, <1>2 DEF Pending
<1>4. mem' = [mem EXCEPT !.pend[k] = p]
  BY <1>1, <1>2 DEF State
<1> QED
  BY <1>3, <1>4, PutSnapshot

\* The attempt is over.
LEMMA SendEndInv == ASSUME TypeOK, CursorInv, NEW t \in Task, SendEnd(t) PROVE CursorInv'
<1>1. MemOK /\ RowOK /\ TaskInv(t) /\ task[t] \in TaskRec /\ task[t].pc = "send"
  BY DEF CursorInv, TypeOK, TasksOK, SendEnd
<1>2. owed \in [Key -> SUBSET Target] /\ feed \subseteq Id
  BY DEF TypeOK
<1> DEFINE k == task[t].key
<1>3. CASE ~LiveTask(t)
  <2>1. Goto(t, "stop") /\ Still /\ row' = row
    BY <1>3 DEF SendEnd, Still, world, db, proc
  <2>2. Calm /\ MemOK' /\ UNCHANGED chk
    BY <1>1, <2>1, StillCalm DEF Still
  <2>3. RowOK'
    BY <1>1, <2>1, <2>2, CalmRow
  <2>4. /\ KeepsBatch(t) /\ task'[t].pc = "stop" /\ task'[t].to = None
    BY <2>1, GotoFields
  <2>5. TaskInv(t)'
    BY <1>1, <2>2, <2>4, KeptTask DEF Sending, Going, Ending
  <2> QED
    BY <1>1, <2>2, <2>3, <2>4, <2>5, GoOn DEF KeepsBatch
<1>4. CASE LiveTask(t)
  <2>1. PICK left \in SUBSET Target :
          /\ Settle(t, left)
          /\ \/ left = task[t].failed /\ owed' = owed
             \/ left = {} /\ owed' = [owed EXCEPT ![k] = @ \ task[t].failed]
    BY <1>1, <1>4 DEF SendEnd, TaskRec
  <2>2. /\ UNCHANGED <<feed, published, base, up, gen, epoch, chk, row>>
        /\ task[t].queue = {}
    BY DEF SendEnd, world, db, proc
  <2>r. PICK r \in TaskRec :
          /\ r = [task[t] EXCEPT !.got = IF left = {} THEN @ \cup {k[1]} ELSE @]
          /\ Persist(t, r, IF left = {} THEN "next" ELSE "stop")
    <3>1. task[t].key \in KeyOrNone
      BY <1>1 DEF TaskRec, KeyOrNone
    <3>2. k[1] \in 0 .. MaxId
      BY <3>1, KeyType
    <3>3. [task[t] EXCEPT !.got = IF left = {} THEN @ \cup {k[1]} ELSE @] \in TaskRec
      BY <1>1, <3>2 DEF TaskRec
    <3> QED
      BY <2>1, <3>3 DEF Settle
  <2>3. /\ Keeps(t) /\ task'[t].pc = "persist"
        /\ task'[t].then = IF left = {} THEN "next" ELSE "stop"
        /\ task'[t].ids = task[t].ids /\ task'[t].key = k
        /\ task'[t].got = IF left = {} THEN task[t].got \cup {k[1]} ELSE task[t].got
        /\ task'[t].to = task[t].to
    <3>1. /\ r.pinned = task[t].pinned /\ r.gen = task[t].gen /\ r.epoch = task[t].epoch
          /\ r.ahead = task[t].ahead /\ r.ids = task[t].ids /\ r.key = task[t].key
          /\ r.to = task[t].to
          /\ r.got = IF left = {} THEN task[t].got \cup {k[1]} ELSE task[t].got
      BY <1>1, <2>r DEF TaskRec
    <3>2. PICK then : then = (IF left = {} THEN "next" ELSE "stop") /\ Persist(t, r, then)
      BY <2>r
    <3> HIDE DEF k
    <3>3. Keeps(t) /\ task'[t].pc = "persist" /\ task'[t].then = then
      BY <3>1, <3>2, PersistFields DEF Keeps
    <3>4. /\ task'[t].ids = r.ids /\ task'[t].key = r.key /\ task'[t].got = r.got
          /\ task'[t].to = r.to
      BY <3>2, PersistFields
    <3> QED
      BY <3>1, <3>2, <3>3, <3>4 DEF k
  <2>4. Work(t) /\ Sending(t) /\ task[t].to = None
    BY <1>1, <1>4 DEF LiveTask, Valid, Work, Sending, TaskInv, LifeOK
  <2>5. ~task[t].pinned =>
          /\ k[1] \in Id /\ k = New(k[1]) /\ k \in Key /\ mem.pend[k] # None
          /\ k[1] \in feed => owed[k] \subseteq task[t].failed
    BY <1>1, <2>2, <2>4, ServingOwed
  <2>6. task[t].pinned => \A i \in Id : k # New(i)
    BY <1>1, NewKey DEF TaskInv, KeyOK, Busy
  <2>7. /\ mem'.init = mem.init /\ mem'.last = mem.last
        /\ \A l \in Key : l # k => mem'.pend[l] = mem.pend[l]
        /\ ~task[t].pinned => mem'.pend[k] # None /\ mem'.pend[k].left = left
    <3>1. CASE k \in Key /\ mem.pend[k] # None
      BY <2>1, <3>1, SettleMem DEF Settle
    <3>2. CASE k \in Key /\ mem.pend[k] = None
      BY <2>1, <2>5, <3>2 DEF Settle
    <3>3. CASE k \notin Key
      <4>1. task[t].pinned
        BY <2>5, <3>3
      <4>2. mem' = mem \/ mem' = [mem EXCEPT !.pend[k].left = left]
        BY <2>1 DEF Settle
      <4>3. mem \in State /\ mem.pend \in [Key -> Pending \cup {None}]
        BY DEF TypeOK, State
      <4>4. mem'.pend = mem.pend \/ mem'.pend = [mem.pend EXCEPT ![k].left = left]
        BY <4>2, <4>3 DEF State
      <4>5. mem'.init = mem.init /\ mem'.last = mem.last
        BY <4>2, <4>3 DEF State
      <4> QED
        BY <3>3, <4>1, <4>3, <4>4, <4>5
    <3> QED
      BY <3>1, <3>2, <3>3
  <2>8. Calm
    BY <1>2, <2>1, <2>2, <2>5, <2>6, <2>7, NewKey DEF Calm
  <2>9. ~task[t].pinned /\ k[1] \in feed => owed'[k] \subseteq left /\ (left = {} => owed'[k] = {})
    BY <1>2, <2>1, <2>5
  <2>10. MemOK'
    <3>1. ASSUME NEW i \in feed, mem'.pend[New(i)] # None
          PROVE  owed'[New(i)] \subseteq mem'.pend[New(i)].left
      <4>1. CASE New(i) = k
        <5>1. ~task[t].pinned /\ k[1] \in feed
          BY <1>2, <2>6, <4>1, NewKey
        <5> QED
          BY <2>7, <2>9, <4>1, <5>1
      <4>2. CASE New(i) # k
        <5>1. New(i) \in Key /\ mem'.pend[New(i)] = mem.pend[New(i)]
          BY <1>2, <2>7, <4>2, NewKey
        <5> QED
          BY <1>1, <1>2, <2>8, <3>1, <5>1 DEF MemOK, PendOK, Calm
      <4> QED
        BY <4>1, <4>2
    <3> QED
      BY <1>1, <2>8, <3>1, CalmMem
  <2>11. RowOK'
    BY <1>1, <2>2, <2>8, CalmRow
  <2>12. TaskInv(t)'
    <3>1. LifeOK(t)' /\ KeyOK(t)'
      BY <1>1, <2>3, <2>4, <2>8 DEF TaskInv, LifeOK, KeyOK, Busy, Keeps, Calm
    <3>2. ASSUME ~task[t].pinned PROVE NewTask(t)'
      <4>1. NewTask(t)
        BY <1>1, <2>4, <3>2 DEF TaskInv
      <4>2. Reached(t)' = Reached(t)
        BY <2>3 DEF Reached
      <4>3. Reached(t)' \subseteq 0 .. published' /\ InBatch(t)'
        BY <2>8, <4>1, <4>2 DEF NewTask, InBatch, Calm
      <4>4. InOrderOf(t)'
        BY <2>3, <2>5, <3>2, <4>1 DEF NewTask, InOrderOf, Id
      <4>5. Pushed(t)'
        <5>1. ASSUME NEW g \in task[t].got
              PROVE  (g \in feed' => owed'[New(g)] = {}) /\ mem'.pend[New(g)] # None
          BY <1>1, <2>8, <4>1, <5>1 DEF NewTask, Pushed, Ending, InOrderOf, Calm
        <5>2. left = {} => (k[1] \in feed' => owed'[New(k[1])] = {}) /\ mem'.pend[New(k[1])] # None
          BY <2>2, <2>5, <2>7, <2>9, <3>2
        <5> QED
          BY <2>3, <5>1, <5>2 DEF Pushed
      <4>6. Between(t)'
        BY <2>3 DEF Between, Going
      <4>7. Building(t)' /\ Serving(t)'
        BY <2>3 DEF Building, Serving, Sending
      <4> QED
        BY <4>3, <4>4, <4>5, <4>6, <4>7 DEF NewTask
    <3> QED
      BY <2>3, <3>1, <3>2 DEF TaskInv, Keeps
  <2> QED
    BY <1>1, <2>2, <2>3, <2>8, <2>10, <2>11, <2>12, GoOn
<1> QED
  BY <1>3, <1>4

-----------------------------------------------------------------------------
(* The steps of a task between two pushes *)

\* A push is prepared from a snapshot, of which "left" is still to serve.
Prepared(t, k, ids, left) ==
  /\ Keeps(t) /\ task'[t].pc = "persist" /\ task'[t].to = task[t].to
  /\ task'[t].then = IF left = {} THEN "next" ELSE "send"
  /\ task'[t].key = k /\ task'[t].ids = ids /\ task'[t].queue = left /\ task'[t].failed = {}
  /\ task'[t].got = IF left = {} THEN task[t].got \cup {k[1]} ELSE task[t].got
  /\ mem'.init = mem.init /\ mem'.last = mem.last
  /\ mem'.pend[k] # None /\ mem'.pend[k].left = left
  /\ \A l \in Key : l # k => mem'.pend[l] = mem.pend[l]

\* What the preparation of a push changes.
LEMMA PrepareFields ==
  ASSUME TypeOK, NEW t \in Task, NEW k \in Key, NEW ids \in SUBSET Id, NEW p \in Pending,
         NEW left, left = p.left \cap targets, Prepare(t, k, ids, p)
  PROVE  Prepared(t, k, ids, left)
<1>1. task[t] \in TaskRec /\ left \in SUBSET Target /\ k[1] \in 0 .. MaxId
  BY KeyType DEF TypeOK, TasksOK, Pending, KeyOrNone
<1>2. PICK r : r = [task[t] EXCEPT !.key = k, !.ids = ids, !.queue = left, !.failed = {},
                                   !.got = IF left = {} THEN @ \cup {k[1]} ELSE @]
  OBVIOUS
<1>3. PICK then : then = (IF left = {} THEN "next" ELSE "send") /\ Persist(t, r, then)
  BY <1>2 DEF Prepare
<1>4. r \in TaskRec
  BY <1>1, <1>2, ZenonT(30) DEF TaskRec
<1>5. /\ r.pinned = task[t].pinned /\ r.gen = task[t].gen /\ r.epoch = task[t].epoch
      /\ r.ahead = task[t].ahead /\ r.ids = ids /\ r.key = k /\ r.to = task[t].to
      /\ r.queue = left /\ r.failed = {}
      /\ r.got = IF left = {} THEN task[t].got \cup {k[1]} ELSE task[t].got
  BY <1>1, <1>2 DEF TaskRec
<1>6. Keeps(t) /\ task'[t].pc = "persist" /\ task'[t].then = then
  BY <1>3, <1>4, <1>5, PersistFields DEF Keeps
<1>7. /\ task'[t].ids = r.ids /\ task'[t].key = r.key /\ task'[t].got = r.got
      /\ task'[t].queue = r.queue /\ task'[t].failed = r.failed /\ task'[t].to = r.to
  BY <1>3, <1>4, PersistFields
<1>8. PICK q : q = [p EXCEPT !.left = left] /\ mem' = [mem EXCEPT !.pend[k] = q]
  BY DEF Prepare
<1>9. q \in Pending /\ q.left = left
  BY <1>1, <1>8 DEF Pending
<1>10. /\ mem'.init = mem.init /\ mem'.last = mem.last
       /\ mem'.pend[k] # None /\ mem'.pend[k].left = left
       /\ \A l \in Key : l # k => mem'.pend[l] = mem.pend[l]
  BY <1>8, <1>9, PutSnapshot
<1> QED
  BY <1>3, <1>5, <1>6, <1>7, <1>10 DEF Prepared

\* A push without a snapshot is built first.
LEMMA BuildFields ==
  ASSUME TypeOK, NEW t \in Task, NEW k \in Key, NEW ids \in SUBSET Id,
         Offer(t, k, ids), mem.pend[k] = None
  PROVE  /\ Keeps(t) /\ task'[t].pc = "build" /\ task'[t].to = task[t].to
         /\ task'[t].key = k /\ task'[t].ids = ids /\ task'[t].got = task[t].got
<1>1. task[t] \in TaskRec
  BY DEF TypeOK, TasksOK
<1>2. PICK r : r = [task[t] EXCEPT !.pc = "build", !.key = k, !.ids = ids]
  OBVIOUS
<1>3. /\ r.pc = "build" /\ r.pinned = task[t].pinned /\ r.gen = task[t].gen
      /\ r.epoch = task[t].epoch /\ r.ahead = task[t].ahead /\ r.ids = ids /\ r.key = k
      /\ r.to = task[t].to /\ r.got = task[t].got
  BY <1>1, <1>2 DEF TaskRec
<1>4. task' = [task EXCEPT ![t] = r] /\ task'[t] = r
  BY <1>2 DEF Offer, TypeOK, TasksOK
<1> QED
  BY <1>3, <1>4 DEF Keeps

\* Snapshots of pinned pushes are of no concern to the cursor.
LEMMA PinnedCalm ==
  ASSUME TypeOK, MemOK, NEW k \in Key, k[2],
         UNCHANGED <<feed, published, base, up, gen, epoch, chk>>,
         mem'.init = mem.init, mem'.last = mem.last,
         \A l \in Key : l # k => mem'.pend[l] = mem.pend[l] /\ owed'[l] = owed[l]
  PROVE  Calm /\ MemOK'
<1>1. \A i \in Id : /\ New(i) \in Key /\ New(i) # k
                    /\ mem'.pend[New(i)] = mem.pend[New(i)] /\ owed'[New(i)] = owed[New(i)]
  BY NewKey
<1>2. Calm
  BY <1>1 DEF Calm
<1>3. feed \subseteq Id
  BY DEF TypeOK
<1> QED
  BY <1>1, <1>2, <1>3, CalmMem DEF MemOK, PendOK

\* A pinned push, whatever becomes of its snapshot.
LEMMA PinnedTask ==
  ASSUME TypeOK, CursorInv, Calm, MemOK', RowOK', UNCHANGED chk, NEW t \in Task, Keeps(t),
         task[t].pinned, task[t].pc # "idle", task[t].ahead = {}, task[t].to = None,
         task'[t].pc \in {"build", "persist"}, task'[t].to = None, task'[t].key[2]
  PROVE  CursorInv'
<1>1. TaskInv(t)
  BY DEF CursorInv
<1>2. TaskInv(t)'
  BY <1>1 DEF TaskInv, LifeOK, KeyOK, Keeps, Calm
<1> QED
  BY <1>2, GoOn

\* A task that ends without a trace.
LEMMA EndInv ==
  ASSUME TypeOK, CursorInv, NEW t \in Task, End(t), Still, row' = row
  PROVE  CursorInv'
<1>1. MemOK /\ RowOK
  BY DEF CursorInv
<1>2. Calm /\ MemOK' /\ UNCHANGED chk
  BY <1>1, StillCalm DEF Still
<1> QED
  BY <1>1, <1>2, CalmRow, Ends

\* A task that gives up what it was building.
LEMMA StopInv ==
  ASSUME TypeOK, CursorInv, NEW t \in Task, task[t].pc = "build", Goto(t, "stop"), Still,
         row' = row
  PROVE  CursorInv'
<1>1. MemOK /\ RowOK /\ TaskInv(t)
  BY DEF CursorInv
<1>2. Calm /\ MemOK' /\ UNCHANGED chk
  BY <1>1, StillCalm DEF Still
<1>3. KeepsBatch(t) /\ task'[t].pc = "stop" /\ task'[t].to = None
  BY GotoFields
<1>4. TaskInv(t)'
  BY <1>1, <1>2, <1>3, KeptTask DEF Sending, Going, Ending
<1> QED
  BY <1>1, <1>2, <1>3, <1>4, CalmRow, GoOn DEF KeepsBatch

\* The push of a changed pin.
PinStep(t) == PinNext(t) \/ PinFinish(t) \/ (task[t].pinned /\ Built(t))

\* It moves neither the cursor nor the snapshot of a new dynamic.
LEMMA PinInv == ASSUME TypeOK, CursorInv, NEW t \in Task, PinStep(t) PROVE CursorInv'
<1>1. /\ MemOK /\ RowOK /\ TaskInv(t) /\ task[t] \in TaskRec /\ owed \in [Key -> SUBSET Target]
      /\ mem \in State /\ mem.pend \in [Key -> Pending \cup {None}]
      /\ targets \in SUBSET Target
  BY DEF CursorInv, TypeOK, TasksOK, State
<1>2. /\ UNCHANGED <<feed, published, base, up, gen, epoch, chk, row>>
      /\ task[t].pinned /\ task[t].pc \in {"next", "stop", "build"}
  BY DEF PinStep, PinNext, PinFinish, Built, world, db, proc, hist
<1>3. task[t].to = None
  BY <1>1, <1>2 DEF TaskInv, LifeOK, Sending
<1>4. UNCHANGED <<mem, owed>> => Still
  BY <1>2 DEF Still
<1>5. Calm => RowOK'
  BY <1>1, <1>2, CalmRow
<1>6. ASSUME Calm, MemOK', Keeps(t), task[t].ahead = {}, task'[t].pc \in {"build", "persist"},
             task'[t].to = None, task'[t].key[2]
      PROVE  CursorInv'
  BY <1>2, <1>3, <1>5, <1>6, PinnedTask
<1>7. CASE PinNext(t)
  <2>0. PICK i \in task[t].ids : IF mem.pin = i \/ ~LiveTask(t)
                                 THEN End(t) /\ UNCHANGED <<mem, owed>>
                                 ELSE Offer(t, Pinned(i), task[t].ids)
    BY <1>7 DEF PinNext
  <2>1. CASE End(t) /\ UNCHANGED <<mem, owed>>
    BY <1>2, <1>4, <2>1, EndInv
  <2>2. CASE Offer(t, Pinned(i), task[t].ids)
    <3>0. PICK k \in Key : k = Pinned(i)
      BY <1>1 DEF TaskRec, Pinned, Key
    <3>1. k[2] /\ task[t].ahead = {} /\ task[t].ids \in SUBSET Id
      BY <1>1, <1>7, <3>0 DEF Pinned, PinNext, HoldsLock, TaskRec
    <3>2. CASE mem.pend[k] = None
      <4>1. UNCHANGED <<mem, owed>>
        BY <2>2, <3>0, <3>2 DEF Offer
      <4>2. Calm /\ MemOK'
        BY <1>1, <1>4, <4>1, StillCalm
      <4> QED
        BY <1>3, <1>6, <2>2, <3>0, <3>1, <3>2, <4>2, BuildFields
    <3>3. CASE mem.pend[k] # None
      <4>0. PICK p \in Pending : p = mem.pend[k]
        BY <1>1, <3>3
      <4>i. PICK ids \in SUBSET Id : ids = task[t].ids
        BY <3>1
      <4>1. Prepare(t, k, ids, p) /\ owed' = [owed EXCEPT ![k] = @ \cap targets]
        BY <2>2, <3>0, <3>3, <4>0, <4>i DEF Offer, Prepare, Persist
      <4>p. Prepare(t, k, ids, p)
        BY <4>1
      <4>2. /\ mem'.init = mem.init /\ mem'.last = mem.last
            /\ \A l \in Key : l # k => mem'.pend[l] = mem.pend[l]
            /\ Keeps(t) /\ task'[t].pc = "persist" /\ task'[t].to = task[t].to
            /\ task'[t].key = k
        <5>1. PICK left : left = p.left \cap targets
          OBVIOUS
        <5>2. Prepared(t, k, ids, left)
          BY <4>p, <5>1, PrepareFields
        <5> QED
          BY <5>2 DEF Prepared
      <4>3. \A l \in Key : l # k => owed'[l] = owed[l]
        BY <1>1, <4>1
      <4>4. Calm /\ MemOK'
        BY <1>1, <1>2, <3>1, <4>2, <4>3, PinnedCalm
      <4> QED
        BY <1>3, <1>6, <3>1, <4>2, <4>4
    <3> QED
      BY <3>2, <3>3
  <2> QED
    BY <2>0, <2>1, <2>2
<1>8. ASSUME task[t].pc \in {"next", "build"}, Busy(t)
      PROVE  task[t].ahead = {} /\ task[t].key[2] /\ task[t].key \in Key
  <2>1. task[t].ahead = {} /\ task[t].key[2]
    BY <1>1, <1>2, <1>8 DEF TaskInv, LifeOK, KeyOK
  <2>2. task[t].key # <<0, FALSE>>
    <3>1. <<0, FALSE>>[2] = FALSE
      OBVIOUS
    <3> QED
      BY <2>1, <3>1
  <2> QED
    BY <1>1, <2>1, <2>2 DEF TaskRec
<1>9. CASE PinFinish(t)
  <2>1. CASE End(t) /\ mem' = mem
    <3>1. owed' = owed
      BY <1>9 DEF PinFinish, hist
    <3> QED
      BY <1>2, <1>4, <2>1, <3>1, EndInv
  <2>2. CASE /\ task[t].pc = "next" /\ task[t].got # {}
             /\ mem' = [mem EXCEPT !.pin = task[t].key[1], !.pend[task[t].key] = None]
             /\ Persist(t, task[t], "end")
    <3>1. task[t].ahead = {} /\ task[t].key[2] /\ task[t].key \in Key
      BY <1>8, <2>2 DEF Busy
    <3>2. /\ mem'.init = mem.init /\ mem'.last = mem.last
          /\ mem'.pend = [mem.pend EXCEPT ![task[t].key] = None]
      BY <1>1, <2>2 DEF State
    <3>3. owed' = owed
      BY <1>9 DEF PinFinish, hist
    <3>4. Calm /\ MemOK'
      BY <1>1, <1>2, <3>1, <3>2, <3>3, PinnedCalm
    <3>5. Keeps(t) /\ task'[t].pc = "persist" /\ task'[t].to = None /\ task'[t].key = task[t].key
      BY <1>1, <1>3, <2>2, PersistFields DEF Keeps
    <3> QED
      BY <1>6, <3>1, <3>4, <3>5
  <2> QED
    BY <1>9, <2>1, <2>2 DEF PinFinish
<1>10. CASE Built(t)
  <2>1. CASE ~LiveTask(t)
    <3>1. Goto(t, "stop") /\ UNCHANGED <<mem, owed>> /\ task[t].pc = "build"
      BY <1>10, <2>1 DEF Built
    <3> QED
      BY <1>2, <1>4, <3>1, StopInv
  <2>2. CASE LiveTask(t)
    <3>1. task[t].ahead = {} /\ task[t].key[2] /\ task[t].key \in Key
      BY <1>8, <1>10 DEF Busy, Built
    <3>2. PICK p \in Pending : p = [left |-> targets, done |-> {}]
      BY <1>1 DEF Pending
    <3>3. /\ Prepare(t, task[t].key, task[t].ids, p)
          /\ owed' = [owed EXCEPT ![task[t].key] = targets]
      BY <1>10, <2>2, <3>2 DEF Built
    <3>4. task[t].ids \in SUBSET Id
      BY <1>1 DEF TaskRec
    <3>8. PICK left : left = p.left \cap targets
      OBVIOUS
    <3>9. PICK k \in Key, ids \in SUBSET Id : k = task[t].key /\ ids = task[t].ids
      BY <3>1, <3>4
    <3>10. Prepare(t, k, ids, p)
      BY <3>3, <3>9 DEF Prepare, Persist
    <3>11. Prepared(t, k, ids, left)
      BY <3>8, <3>10, PrepareFields
    <3>6. /\ mem'.init = mem.init /\ mem'.last = mem.last
          /\ \A l \in Key : l # task[t].key => mem'.pend[l] = mem.pend[l]
          /\ Keeps(t) /\ task'[t].pc = "persist" /\ task'[t].to = task[t].to
          /\ task'[t].key = task[t].key
      BY <3>9, <3>11 DEF Prepared
    <3>7. \A l \in Key : l # task[t].key => owed'[l] = owed[l]
      BY <1>1, <3>3
    <3>5. Calm /\ MemOK'
      BY <1>1, <1>2, <3>1, <3>6, <3>7, PinnedCalm
    <3> QED
      BY <1>3, <1>6, <3>1, <3>5, <3>6
  <2> QED
    BY <2>1, <2>2
<1> QED
  BY <1>7, <1>9, <1>10 DEF PinStep

\* The next dynamic of the batch has its turn.
LEMMA TurnTask ==
  ASSUME TypeOK, CursorInv, Calm, NEW t \in Task, NEW i \in Id, Keeps(t),
         task[t].pc = "next", ~task[t].pinned, HoldsLock(t), LiveTask(t), Least(i, Todo(t)),
         task'[t].key = New(i), task'[t].ids = {j \in task[t].ids : j > i},
         task'[t].to = task[t].to,
         \/ task'[t].pc = "build"
         \/ task'[t].pc = "persist" /\ task'[t].then \in {"next", "send"},
         task'[t].got = IF Going(t)' THEN task[t].got \cup {i} ELSE task[t].got,
         mem'.pend[New(i)] = None <=> task'[t].pc = "build",
         Going(t)' /\ i \in feed => owed'[New(i)] = {},
         Sending(t)' /\ i \in feed => owed'[New(i)] \subseteq task'[t].queue
  PROVE  TaskInv(t)'
<1>1. /\ TaskInv(t) /\ Work(t) /\ NewTask(t) /\ ~Ending(t) /\ Going(t) /\ ~Sending(t)
      /\ task[t].to = None
  BY DEF CursorInv, TaskInv, LifeOK, Work, LiveTask, Valid, Ending, Going, Sending
<1>2. /\ feed \subseteq 1 .. published /\ feed \subseteq Id /\ task[t] \in TaskRec
      /\ mem.last \in 0 .. MaxId /\ published \in 0 .. MaxId
  BY DEF CursorInv, MemOK, TypeOK, TasksOK, State
<1>3. task[t].ids \in SUBSET Id /\ task[t].key[1] \in 0 .. MaxId
  <2>1. task[t].key \in KeyOrNone
    BY <1>2 DEF TaskRec, KeyOrNone
  <2> QED
    BY <1>2, <2>1, KeyType DEF TaskRec
<1>4. i \in task[t].ids /\ task[t].key[1] < i
  BY <1>1 DEF Least, Todo, NewTask, InOrderOf
<1>5. New(i) \in Key /\ New(i)[1] = i /\ ~New(i)[2]
  BY NewKey
<1>6. /\ task'[t].key[1] = i
      /\ Reached(t)' = {j \in task[t].ids : j > i} \cup task'[t].got \cup {i}
      /\ Reached(t)' \subseteq Reached(t) /\ task'[t].pc # "idle"
  BY <1>4, <1>5 DEF Reached
<1>7. InOrderOf(t)'
  BY <1>1, <1>3, <1>4, <1>6 DEF NewTask, InOrderOf, Id
<1>8. InBatch(t)'
  <2> SUFFICES ASSUME NEW j \in feed, NEW m \in Reached(t), mem.last < j, j < m
               PROVE  j \in Reached(t)'
    BY <1>6 DEF InBatch, Calm
  <2>1. j \in Reached(t)
    BY <1>1 DEF NewTask, InBatch
  <2>2. CASE j \in task[t].ids
    <3>1. j \in Todo(t)
      BY <2>2 DEF Todo
    <3>2. i <= j
      BY <3>1 DEF Least
    <3> QED
      BY <1>2, <1>6, <2>2, <3>2 DEF Id
  <2>3. CASE j \in task[t].got
    BY <1>6, <2>3
  <2>4. CASE j = task[t].key[1]
    BY <1>1, <1>2, <1>6, <2>4 DEF NewTask, Between
  <2> QED
    BY <2>1, <2>2, <2>3, <2>4 DEF Reached
<1>9. Pushed(t)'
  <2>1. ASSUME NEW g \in task[t].got
        PROVE  (g \in feed' => owed'[New(g)] = {}) /\ mem'.pend[New(g)] # None
    <3>1. g \in Id /\ mem.pend[New(g)] # None /\ (g \in feed => owed[New(g)] = {})
      BY <1>1 DEF NewTask, Pushed, InOrderOf
    <3> QED
      BY <3>1 DEF Calm
  <2>2. Going(t)' => (i \in feed' => owed'[New(i)] = {}) /\ mem'.pend[New(i)] # None
    BY DEF Calm, Going
  <2> QED
    BY <2>1, <2>2 DEF Pushed
<1>10. Between(t)'
  BY <1>6 DEF Between
<1>11. Building(t)'
  <2>1. task'[t].pc = "build" => i > mem.last
    BY DEF Least, Todo, Calm
  <2> QED
    BY <1>2, <1>6, <2>1 DEF Building, Calm, Id
<1>12. Serving(t)'
  BY <1>6 DEF Serving, Sending, Calm
<1>13. Reached(t)' \subseteq 0 .. published'
  BY <1>1, <1>6 DEF NewTask, Calm
<1>14. NewTask(t)'
  BY <1>7, <1>8, <1>9, <1>10, <1>11, <1>12, <1>13 DEF NewTask
<1>15. LifeOK(t)' /\ KeyOK(t)'
  BY <1>1, <1>5 DEF TaskInv, LifeOK, KeyOK, HoldsLock, Keeps, Calm
<1> QED
  BY <1>14, <1>15 DEF TaskInv, Keeps

\* The next dynamic of a batch: it was pushed already, is resumed, or is built first.
LEMMA NewNextInv == ASSUME TypeOK, CursorInv, NEW t \in Task, NewNext(t) PROVE CursorInv'
<1>1. /\ MemOK /\ RowOK /\ TaskInv(t) /\ owed \in [Key -> SUBSET Target]
      /\ mem \in State /\ mem.pend \in [Key -> Pending \cup {None}]
      /\ targets \in SUBSET Target /\ feed \subseteq Id
  BY DEF CursorInv, TypeOK, State
<1>2. /\ UNCHANGED <<feed, published, base, up, gen, epoch, chk, row>>
      /\ task[t].pc = "next" /\ ~task[t].pinned /\ HoldsLock(t) /\ LiveTask(t)
  BY DEF NewNext, world, db, proc
<1>3. PICK i \in Id : Least(i, Todo(t)) /\ Offer(t, New(i), {j \in task[t].ids : j > i})
  BY DEF NewNext
<1>4. PICK k \in Key : k = New(i)
  BY NewKey
<1>5. PICK ids \in SUBSET Id : ids = {j \in task[t].ids : j > i}
  <2>1. task[t] \in TaskRec
    BY DEF TypeOK, TasksOK
  <2> QED
    BY <2>1 DEF TaskRec
<1>6. ASSUME Calm, MemOK', TaskInv(t)', Keeps(t) PROVE CursorInv'
  BY <1>1, <1>2, <1>6, CalmRow, GoOn
<1>7. CASE mem.pend[k] = None
  <2>1. Offer(t, k, ids) /\ UNCHANGED <<mem, owed>>
    BY <1>3, <1>4, <1>5, <1>7 DEF Offer
  <2>2. Calm /\ MemOK'
    BY <1>1, <1>2, <2>1, StillCalm DEF Still
  <2>3. /\ Keeps(t) /\ task'[t].pc = "build" /\ task'[t].to = task[t].to
        /\ task'[t].key = k /\ task'[t].ids = ids /\ task'[t].got = task[t].got
    BY <1>7, <2>1, BuildFields
  <2>4. ~Going(t)' /\ ~Sending(t)'
    BY <2>3 DEF Going, Sending
  <2>5. TaskInv(t)'
    <3>1. /\ task'[t].key = New(i) /\ task'[t].ids = {j \in task[t].ids : j > i}
          /\ task'[t].got = task[t].got /\ mem'.pend[New(i)] = None /\ Least(i, Todo(t))
      BY <1>3, <1>4, <1>5, <1>7, <2>1, <2>3
    <3> QED
      BY <1>2, <2>2, <2>3, <2>4, <3>1, TurnTask
  <2> QED
    BY <1>6, <2>2, <2>3, <2>5
<1>8. CASE mem.pend[k] # None
  <2>1. PICK p \in Pending : p = mem.pend[k]
    BY <1>1, <1>8
  <2>2. Prepare(t, k, ids, p)
    BY <1>3, <1>4, <1>5, <1>8, <2>1 DEF Offer, Prepare, Persist
  <2>3. owed' = [owed EXCEPT ![k] = @ \cap targets]
    BY <1>3, <1>4, <1>8 DEF Offer
  <2>4. PICK left : left = p.left \cap targets
    OBVIOUS
  <2>5. /\ Keeps(t) /\ task'[t].pc = "persist" /\ task'[t].to = task[t].to
        /\ task'[t].then = IF left = {} THEN "next" ELSE "send"
        /\ task'[t].key = k /\ task'[t].ids = ids /\ task'[t].queue = left
        /\ task'[t].got = IF left = {} THEN task[t].got \cup {k[1]} ELSE task[t].got
        /\ mem'.init = mem.init /\ mem'.last = mem.last
        /\ mem'.pend[k] # None /\ mem'.pend[k].left = left
        /\ \A l \in Key : l # k => mem'.pend[l] = mem.pend[l]
    <3>1. Prepared(t, k, ids, left)
      BY <2>2, <2>4, PrepareFields
    <3> QED
      BY <3>1 DEF Prepared
  <2>6. /\ owed'[k] = owed[k] \cap targets
        /\ \A l \in Key : l # k => owed'[l] = owed[l]
    BY <1>1, <2>3
  <2>7. i \in feed => owed'[k] \subseteq left
    BY <1>1, <1>4, <1>8, <2>1, <2>4, <2>6 DEF MemOK, PendOK
  <2>8. \A j \in Id : New(j) \in Key /\ New(j) = k <=> j = i
    BY <1>4, NewKey
  <2>9. Calm
    BY <1>2, <1>8, <2>5, <2>6, <2>8, NewKey DEF Calm
  <2>10. MemOK'
    <3>1. ASSUME NEW j \in feed, mem'.pend[New(j)] # None
          PROVE  owed'[New(j)] \subseteq mem'.pend[New(j)].left
      <4>1. CASE j = i
        BY <1>4, <2>5, <2>7, <4>1
      <4>2. CASE j # i
        <5>1. New(j) \in Key /\ New(j) # k
          BY <1>1, <1>4, <4>2, NewKey
        <5> QED
          BY <1>1, <2>5, <2>6, <3>1, <5>1 DEF MemOK, PendOK
      <4> QED
        BY <4>1, <4>2
    <3> QED
      BY <1>1, <2>9, <3>1, CalmMem
  <2>11. /\ Going(t)' <=> left = {}
         /\ task'[t].then \in {"next", "send"} /\ k[1] = i
    BY <1>4, <2>5, NewKey DEF Going
  <2>12. TaskInv(t)'
    <3>1. task'[t].got = IF Going(t)' THEN task[t].got \cup {i} ELSE task[t].got
      BY <2>5, <2>11
    <3>2. Going(t)' /\ i \in feed => owed'[New(i)] = {}
      BY <1>4, <2>7, <2>11
    <3>3. mem'.pend[New(i)] # None /\ (i \in feed => owed'[New(i)] \subseteq task'[t].queue)
      BY <1>4, <2>5, <2>7
    <3>4. /\ task'[t].key = New(i) /\ task'[t].ids = {j \in task[t].ids : j > i}
          /\ task'[t].pc = "persist" /\ task'[t].to = task[t].to /\ Keeps(t)
      BY <1>4, <1>5, <2>5
    <3> QED
      BY <1>2, <1>3, <2>9, <2>11, <3>1, <3>2, <3>3, <3>4, TurnTask
  <2> QED
    BY <1>6, <2>5, <2>9, <2>10, <2>12
<1> QED
  BY <1>7, <1>8

-----------------------------------------------------------------------------
(* The steps of a task that move the cursor or take on a dynamic *)

\* The task that holds the lock works for the present life; no other task that does
\* has begun.
LEMMA Alone ==
  ASSUME TypeOK, CursorInv, NEW t \in Task, task[t].pc # "idle", HoldsLock(t), LiveTask(t),
         NEW u \in Task, u # t, Work(u)
  PROVE  task[u].pc = "next" /\ task[u].got = {}
<1>1. TaskInv(t) /\ TaskInv(u) /\ Queued(t, u)
  BY DEF CursorInv
<1>2. task[t].epoch = task[u].epoch
  BY <1>1 DEF TaskInv, LifeOK, Work, LiveTask, Valid
<1>3. t \in task[u].ahead
  BY <1>1, <1>2 DEF Queued, Work, HoldsLock
<1> QED
  BY <1>1, <1>3 DEF TaskInv, LifeOK, Work, Busy

\* A step of that task which may only move the cursor on.
LEMMA MoveOn ==
  ASSUME TypeOK, CursorInv, NEW t \in Task, task[t].pc # "idle", HoldsLock(t), LiveTask(t),
         Keeps(t), UNCHANGED <<feed, published, base, up, gen, epoch, chk, row>>,
         mem'.init = mem.init, mem'.last \in Nat, mem.last <= mem'.last,
         \A s \in State : SnapOK(s) => SnapOK(s)',
         MemOK', \A c \in Check : Seen(c)', TaskInv(t)'
  PROVE  CursorInv'
<1>1. \A u \in Task : TaskInv(u)'
  <2> SUFFICES ASSUME NEW u \in Task, u # t, task[u].pc # "idle" PROVE TaskInv(u)'
    BY DEF TaskInv, Keeps, TypeOK, TasksOK
  <2>1. task'[u] = task[u] /\ TaskInv(u)
    BY DEF Keeps, TypeOK, TasksOK, CursorInv
  <2>2. LifeOK(u)' /\ KeyOK(u)'
    BY <2>1 DEF TaskInv, LifeOK, KeyOK, Busy, Sending
  <2>3. task[u].pc = "commit" => SnapOK(task[u].cap)'
    <3>1. PICK s \in State : s = task[u].cap /\ s = task'[u].cap
      BY <2>1 DEF TypeOK, TasksOK, TaskRec
    <3> QED
      BY <2>1, <3>1 DEF TaskInv, SnapOK
  <2>4. ASSUME Work(u), ~task[u].pinned PROVE NewTask(u)'
    <3>1. NewTask(u) /\ task[u].pc = "next" /\ task[u].got = {}
      BY <2>1, <2>4, Alone DEF TaskInv
    <3>2. Reached(u)' = Reached(u) /\ InOrderOf(u)'
      BY <2>1, <3>1 DEF Reached, NewTask, InOrderOf
    <3>3. InBatch(u)'
      <4>1. mem.last \in Nat /\ feed \subseteq Nat
        BY ParamAssumption DEF TypeOK, State, Id
      <4> QED
        BY <3>1, <3>2, <4>1 DEF NewTask, InBatch
    <3> QED
      BY <2>1, <3>1, <3>2, <3>3 DEF NewTask, Pushed, Between, Going, Building, Serving, Sending
  <2> QED
    BY <2>1, <2>2, <2>3, <2>4 DEF TaskInv, Work
<1>2. \A c \in Check : CheckOK(c)'
  <2> TAKE c \in Check
  <2>1. CheckOK(c) /\ Seen(c)'
    BY DEF CursorInv
  <2>2. chk[c].pc = "commit" => SnapOK(chk[c].cap)'
    <3>1. PICK s \in State : s = chk[c].cap
      BY DEF TypeOK, CheckRec
    <3> QED
      BY <2>1, <3>1 DEF CheckOK, SnapOK
  <2> QED
    BY <2>1, <2>2 DEF CheckOK
<1>3. \A u, v \in Task : Queued(u, v)'
  <2>1. PICK r : r = task'[t]
    OBVIOUS
  <2> QED
    BY <2>1, GoOnQueued DEF Keeps, CursorInv
<1>4. RowOK'
  <2> SUFFICES ASSUME row # None PROVE SnapOK(row)'
    BY DEF RowOK
  <2>1. PICK s \in State : s = row
    BY DEF TypeOK
  <2> QED
    BY <2>1 DEF CursorInv, RowOK, SnapOK
<1> QED
  BY <1>1, <1>2, <1>3, <1>4 DEF CursorInv

\* The first snapshot of a dynamic is there.
LEMMA BuiltInv ==
  ASSUME TypeOK, CursorInv, NEW t \in Task, Built(t), ~task[t].pinned PROVE CursorInv'
<1>1. /\ MemOK /\ RowOK /\ TaskInv(t) /\ owed \in [Key -> SUBSET Target]
      /\ mem \in State /\ mem.pend \in [Key -> Pending \cup {None}]
      /\ targets \in SUBSET Target /\ feed \subseteq Id /\ task[t] \in TaskRec
      /\ mem.last \in Nat /\ published \in Nat
  BY ParamAssumption DEF CursorInv, TypeOK, TasksOK, State
<1>2. /\ UNCHANGED <<feed, published, base, up, gen, epoch, chk, row>>
      /\ task[t].pc = "build"
  BY DEF Built, world, db, proc
<1>3. CASE ~LiveTask(t)
  BY <1>2, <1>3, StopInv DEF Built, Still
<1>4. CASE LiveTask(t)
  <2>1. /\ NewTask(t) /\ Work(t) /\ ~Ending(t) /\ mem.init /\ HoldsLock(t) /\ task[t].to = None
        /\ KeyOK(t) /\ LifeOK(t)
    BY <1>1, <1>2, <1>4 DEF TaskInv, LifeOK, Work, LiveTask, Valid, Ending, HoldsLock, Busy, Sending
  <2>2. task[t].key \in KeyOrNone /\ task[t].key[1] \in 0 .. MaxId
    <3>1. task[t].key \in KeyOrNone
      BY <1>1 DEF TaskRec, KeyOrNone
    <3> QED
      BY <3>1, KeyType
  <2>3. PICK i \in Id : i = task[t].key[1]
    BY <1>1, <1>2, <2>1, <2>2 DEF NewTask, Building, Id
  <2>4. PICK k \in Key : k = task[t].key /\ k = New(i) /\ k[1] = i /\ ~k[2]
    BY <2>1, <2>3, NewTaskKeys, NewKey
  <2>5. mem.last < i /\ mem.pend[k] = None /\ i \in Reached(t) /\ i <= published
    BY <1>1, <1>2, <2>1, <2>3, <2>4 DEF NewTask, Building, Reached
  <2>6. PICK ids \in SUBSET Id, p \in Pending :
          ids = task[t].ids /\ p = [left |-> targets, done |-> {}]
    <3>1. task[t].ids \in SUBSET Id /\ [left |-> targets, done |-> {}] \in Pending
      BY <1>1 DEF TaskRec, Pending
    <3> QED
      BY <3>1
  <2>7. Prepare(t, k, ids, p)
    BY <1>2, <1>4, <2>4, <2>6 DEF Built, Prepare, Persist
  <2>8. owed' = [owed EXCEPT ![k] = targets]
    BY <1>4, <2>4 DEF Built
  <2>9. PICK left : left = p.left \cap targets /\ left = targets /\ left # {}
    BY <1>4, <2>6 DEF LiveTask, Valid
  <2>10. Prepared(t, k, ids, left)
    BY <2>7, <2>9, PrepareFields
  <2>11. /\ Keeps(t) /\ task'[t].pc = "persist" /\ task'[t].to = None /\ task'[t].then = "send"
         /\ task'[t].key = task[t].key /\ task'[t].ids = task[t].ids
         /\ task'[t].got = task[t].got /\ task'[t].queue = targets
         /\ mem'.init = mem.init /\ mem'.last = mem.last
    BY <2>1, <2>4, <2>6, <2>9, <2>10 DEF Prepared
  <2>12. /\ mem'.pend[k] # None /\ mem'.pend[k].left = targets
         /\ \A l \in Key : l # k => mem'.pend[l] = mem.pend[l]
    BY <2>9, <2>10 DEF Prepared
  <2>13. owed'[k] = targets /\ \A l \in Key : l # k => owed'[l] = owed[l]
    BY <1>1, <2>8
  <2>14. ASSUME NEW j \in Id
         PROVE  /\ New(j) \in Key
                /\ j # i => /\ mem'.pend[New(j)] = mem.pend[New(j)]
                            /\ owed'[New(j)] = owed[New(j)]
                /\ mem.pend[New(j)] # None => mem'.pend[New(j)] # None
    BY <2>4, <2>12, <2>13, NewKey
  <2>15. ASSUME NEW l \in Nat, LastOK(l) PROVE LastOK(l)'
    <3>1. ASSUME NEW j \in feed, base < j, j <= l PROVE owed'[New(j)] = {}
      <4>1. j # i
        BY <1>1, <2>1, <2>5, <2>15, <3>1 DEF LastOK, Id
      <4> QED
        BY <1>1, <2>14, <2>15, <3>1, <4>1 DEF LastOK
    <3> QED
      BY <1>2, <2>1, <2>11, <2>15, <3>1 DEF LastOK
  <2>16. ASSUME NEW q, PendOK(q) PROVE PendOK(q)'
    <3>1. ASSUME NEW j \in feed, q[New(j)] # None PROVE owed'[New(j)] \subseteq q[New(j)].left
      <4>1. j # i
        BY <2>1, <2>4, <2>5, <2>16, <3>1 DEF PendOK
      <4> QED
        BY <1>1, <2>14, <2>16, <3>1, <4>1 DEF PendOK
    <3>2. \A j \in feed : mem.last < j /\ q[New(j)] # None => mem'.pend[New(j)] # None
      BY <1>1, <2>1, <2>14, <2>16 DEF PendOK
    <3> QED
      BY <1>2, <2>1, <2>11, <2>16, <3>1, <3>2 DEF PendOK
  <2>17. \A s \in State : SnapOK(s) => SnapOK(s)'
    <3>1. \A s \in State : s.last \in Nat
      BY ParamAssumption DEF State
    <3> QED
      BY <2>15, <2>16, <3>1 DEF SnapOK
  <2>18. MemOK'
    <3>1. LastOK(mem.last)'
      <4>1. PICK l \in Nat : l = mem.last
        BY <1>1
      <4>2. LastOK(l)'
        BY <1>1, <2>15, <4>1 DEF MemOK
      <4> QED
        BY <2>11, <4>1, <4>2 DEF LastOK
    <3>2. PendOK(mem.pend)'
      <4>1. \A j \in Id : mem'.pend[New(j)] # None => j <= published
        BY <1>1, <2>5, <2>14 DEF MemOK, PendOK
      <4>2. \A j \in feed : mem'.pend[New(j)] # None =>
              owed'[New(j)] \subseteq mem'.pend[New(j)].left
        BY <1>1, <2>4, <2>12, <2>13, <2>14 DEF MemOK, PendOK
      <4> QED
        BY <1>2, <2>1, <2>11, <4>1, <4>2 DEF PendOK
    <3> QED
      BY <1>1, <1>2, <2>11, <3>1, <3>2 DEF MemOK
  <2>19. ASSUME NEW c \in Check PROVE Seen(c)'
    <3>1. Seen(c) /\ (Fetch(c)' <=> Fetch(c))
      BY <1>2 DEF CursorInv, CheckOK, Fetch, Seen
    <3> SUFFICES ASSUME Fetch(c), NEW j \in feed \ chk[c].dyn, NEW m \in Id, mem.last < j, j < m,
                        mem'.pend[New(m)] # None
                 PROVE  mem'.pend[New(j)] # None
      BY <1>2, <2>11, <3>1 DEF Seen
    <3>2. CASE m # i
      BY <1>1, <2>1, <2>14, <3>1, <3>2 DEF Seen
    <3>3. CASE m = i
      <4>1. j \in Reached(t) /\ j # i
        BY <1>1, <2>1, <2>5, <3>3 DEF NewTask, InBatch, Id
      <4>2. j \notin task[t].ids
        BY <1>1, <2>1, <2>3, <3>3 DEF NewTask, InOrderOf, Id
      <4>3. j \in task[t].got
        BY <2>3, <4>1, <4>2 DEF Reached
      <4> QED
        BY <1>1, <2>1, <2>14, <4>3 DEF NewTask, Pushed
    <3> QED
      BY <3>2, <3>3
  <2>20. NewTask(t)'
    <3>1. Reached(t)' = Reached(t) /\ Reached(t)' \subseteq 0 .. published'
      BY <1>2, <2>1, <2>11 DEF Reached, NewTask
    <3>2. InOrderOf(t)' /\ InBatch(t)'
      BY <1>2, <2>1, <2>11, <3>1 DEF NewTask, InOrderOf, InBatch
    <3>3. Pushed(t)'
      <4> SUFFICES ASSUME NEW g \in task[t].got
                   PROVE  (g \in feed => owed'[New(g)] = {}) /\ mem'.pend[New(g)] # None
        BY <1>2, <2>11 DEF Pushed
      <4>1. g \in Id /\ mem.pend[New(g)] # None /\ (g \in feed => owed[New(g)] = {})
        BY <2>1 DEF NewTask, Pushed, InOrderOf
      <4>2. g # i
        BY <2>4, <2>5, <4>1
      <4> QED
        BY <2>14, <4>1, <4>2
    <3>4. Serving(t)'
      BY <2>3, <2>4, <2>11, <2>12, <2>13 DEF Serving
    <3>5. Between(t)' /\ Building(t)'
      BY <2>11 DEF Between, Building, Going
    <3> QED
      BY <3>1, <3>2, <3>3, <3>4, <3>5 DEF NewTask
  <2>21. TaskInv(t)'
    <3>1. LifeOK(t)' /\ KeyOK(t)'
      BY <1>2, <2>1, <2>11 DEF LifeOK, KeyOK, HoldsLock, Keeps
    <3> QED
      BY <2>11, <2>20, <3>1 DEF TaskInv
  <2> QED
    BY <1>1, <1>2, <1>4, <2>1, <2>11, <2>17, <2>18, <2>19, <2>21, MoveOn
<1> QED
  BY <1>3, <1>4

\* The batch is over: the cursor passes what was pushed.
LEMMA NewFinishInv ==
  ASSUME TypeOK, CursorInv, NEW t \in Task, NewFinish(t) PROVE CursorInv'
<1>1. /\ MemOK /\ RowOK /\ TaskInv(t) /\ mem \in State /\ mem.pend \in [Key -> Pending \cup {None}]
      /\ feed \subseteq Id /\ task[t] \in TaskRec /\ mem.last \in Nat /\ published \in Nat
  BY ParamAssumption DEF CursorInv, TypeOK, TasksOK, State
<1>2. /\ UNCHANGED <<feed, published, base, up, gen, epoch, chk, row, owed>>
      /\ task[t].pc \in {"stop", "next"} /\ ~task[t].pinned /\ HoldsLock(t)
  BY DEF NewFinish, world, db, proc, hist
<1> DEFINE got == task[t].got
<1>3. CASE ~(LiveTask(t) /\ (got # {} \/ task[t].force))
  BY <1>2, <1>3, EndInv DEF NewFinish, Still
<1>4. CASE LiveTask(t) /\ (got # {} \/ task[t].force)
  <2>1. PICK last \in 0 .. MaxId :
          /\ Greatest(last, got \cup {mem.last})
          /\ mem' = [mem EXCEPT !.last = last,
                       !.pend = [k \in Key |-> IF ~k[2] /\ k[1] \in got THEN None ELSE @[k]]]
    BY <1>4 DEF NewFinish
  <2>2. Persist(t, task[t], "end")
    BY <1>4 DEF NewFinish
  <2>3. /\ NewTask(t) /\ Work(t) /\ ~Ending(t) /\ mem.init /\ task[t].to = None
        /\ KeyOK(t) /\ LifeOK(t)
    BY <1>1, <1>2, <1>4 DEF TaskInv, LifeOK, Work, LiveTask, Valid, Ending, Sending
  <2>4. /\ Keeps(t) /\ task'[t].pc = "persist" /\ task'[t].then = "end" /\ task'[t].to = None
        /\ task'[t].key = task[t].key /\ task'[t].ids = task[t].ids /\ task'[t].got = got
    BY <1>1, <2>2, <2>3, PersistFields DEF Keeps
  <2>5. last \in Nat /\ mem.last <= last /\ \A g \in got : g <= last
    BY <2>1 DEF Greatest
  <2>6. mem'.init = mem.init /\ mem'.last = last
    BY <1>1, <2>1 DEF State
  <2>7. ASSUME NEW j \in Id
        PROVE  /\ j \in got => mem'.pend[New(j)] = None
               /\ j \notin got => mem'.pend[New(j)] = mem.pend[New(j)]
    <3>1. mem'.pend = [k \in Key |-> IF ~k[2] /\ k[1] \in got THEN None ELSE mem.pend[k]]
      BY <1>1, <2>1 DEF State
    <3>2. New(j) \in Key /\ New(j)[1] = j /\ ~New(j)[2]
      BY NewKey
    <3> QED
      BY <3>1, <3>2
  <2>8. task[t].key[1] \in 0 .. MaxId
    <3>1. task[t].key \in KeyOrNone
      BY <1>1 DEF TaskRec, KeyOrNone
    <3> QED
      BY <3>1, KeyType
  \* What the cursor passes was pushed.
  <2>9. ASSUME NEW j \in feed, mem.last < j, j <= last PROVE j \in got
    <3>1. last \in got /\ last <= task[t].key[1] /\ last \in Reached(t)
      BY <1>1, <2>1, <2>3, <2>9 DEF Greatest, NewTask, InOrderOf, Reached, Id
    <3>2. CASE j = last
      BY <3>1, <3>2
    <3>3. CASE j < last
      <4>1. j \in Reached(t) /\ j < task[t].key[1] /\ j \in Nat
        BY <1>1, <2>3, <2>5, <2>8, <2>9, <3>1, <3>3 DEF NewTask, InBatch, Id
      <4>2. j \notin task[t].ids
        BY <2>3, <2>8, <4>1 DEF NewTask, InOrderOf
      <4> QED
        BY <2>8, <4>1, <4>2 DEF Reached
    <3> QED
      BY <1>1, <2>5, <2>9, <3>2, <3>3 DEF Id
  <2>10. ASSUME NEW g \in got
         PROVE  g \in Id /\ g <= published /\ (g \in feed => owed[New(g)] = {})
    BY <1>1, <2>3 DEF NewTask, InOrderOf, Pushed, Reached, Id
  <2>11. last <= published
    BY <1>1, <2>1, <2>10 DEF Greatest, MemOK, LastOK
  <2>12. ASSUME NEW l \in Nat, LastOK(l) PROVE LastOK(l)'
    BY <1>1, <1>2, <2>3, <2>5, <2>6, <2>12 DEF LastOK, Id
  <2>13. ASSUME NEW q, PendOK(q) PROVE PendOK(q)'
    <3>1. ASSUME NEW j \in feed, last < j, q[New(j)] # None PROVE mem'.pend[New(j)] # None
      <4>1. mem.last < j /\ j \notin got /\ j \in Id
        BY <1>1, <2>5, <3>1 DEF Id
      <4> QED
        BY <2>3, <2>7, <2>13, <3>1, <4>1 DEF PendOK
    <3> QED
      BY <1>2, <2>3, <2>6, <2>13, <3>1 DEF PendOK
  <2>14. \A s \in State : SnapOK(s) => SnapOK(s)'
    <3>1. \A s \in State : s.last \in Nat
      BY ParamAssumption DEF State
    <3> QED
      BY <2>12, <2>13, <3>1 DEF SnapOK
  <2>15. MemOK'
    <3>1. LastOK(mem.last)'
      <4>1. ASSUME NEW j \in feed, base < j, j <= last PROVE owed[New(j)] = {}
        BY <1>1, <2>9, <2>10, <4>1 DEF MemOK, LastOK, Id
      <4> QED
        BY <1>1, <1>2, <2>3, <2>6, <2>11, <4>1 DEF LastOK
    <3>2. PendOK(mem.pend)'
      BY <1>1, <1>2, <2>3, <2>6, <2>7 DEF MemOK, PendOK
    <3> QED
      BY <1>1, <1>2, <2>3, <2>6, <3>1, <3>2 DEF MemOK
  <2>16. ASSUME NEW c \in Check PROVE Seen(c)'
    <3>1. Seen(c) /\ (Fetch(c)' <=> Fetch(c))
      BY <1>2 DEF CursorInv, CheckOK, Fetch, Seen
    <3> SUFFICES ASSUME Fetch(c), NEW j \in feed \ chk[c].dyn, NEW m \in Id, last < j, j < m,
                        mem'.pend[New(m)] # None
                 PROVE  mem'.pend[New(j)] # None
      BY <1>2, <2>6, <3>1 DEF Seen
    <3>2. mem.pend[New(m)] # None /\ mem.last < j /\ j \in Id /\ j \notin got
      BY <1>1, <2>5, <2>7 DEF Id
    <3> QED
      BY <2>3, <2>7, <3>1, <3>2 DEF Seen
  <2>17. NewTask(t)'
    <3>1. Reached(t)' = Reached(t) /\ Reached(t)' \subseteq 0 .. published'
      BY <1>2, <2>3, <2>4 DEF Reached, NewTask
    <3>2. InOrderOf(t)'
      BY <2>3, <2>4 DEF NewTask, InOrderOf
    <3>3. InBatch(t)'
      BY <1>1, <1>2, <2>3, <2>5, <2>6, <3>1 DEF NewTask, InBatch, Id
    <3> QED
      BY <2>4, <3>1, <3>2, <3>3 DEF NewTask, Pushed, Ending, Between, Going, Building, Serving,
                                    Sending
  <2>18. TaskInv(t)'
    <3>1. LifeOK(t)' /\ KeyOK(t)'
      BY <1>2, <2>3, <2>4, <2>6 DEF LifeOK, KeyOK, HoldsLock, Keeps
    <3> QED
      BY <2>4, <2>17, <3>1 DEF TaskInv
  <2>19. mem.last <= mem'.last /\ mem'.last \in Nat
    BY <2>5, <2>6
  <2> QED
    BY <1>2, <1>4, <2>4, <2>6, <2>14, <2>15, <2>16, <2>18, <2>19, MoveOn
<1> QED
  BY <1>3, <1>4

\* A step of a task.
LEMMA TaskStep == ASSUME TypeOK, CursorInv, NEW t \in Task, TaskNext(t) PROVE CursorInv'
BY NewNextInv, NewFinishInv, PinInv, BuiltInv, StoreInv, SendInv, SendEndInv
   DEF TaskNext, PinStep, StoreStep, SendStep

-----------------------------------------------------------------------------
(* The steps of a check *)

\* A quiet step that leaves the tasks alone.
LEMMA RestInv ==
  ASSUME TypeOK, CursorInv, Calm, UNCHANGED <<mem, owed, task>>, RowOK',
         \A c \in Check : CheckOK(c)'
  PROVE  CursorInv'
<1>1. MemOK'
  <2>1. MemOK /\ feed \subseteq Id
    BY DEF CursorInv, TypeOK
  <2> QED
    BY <2>1, CalmMem DEF MemOK, PendOK, Calm
<1>2. \A u \in Task : TaskInv(u)'
  <2> TAKE u \in Task
  <2>1. task[u] \in TaskRec
    BY DEF TypeOK, TasksOK
  <2>2. task[u] = [task[u] EXCEPT !.ahead = task[u].ahead]
    BY <2>1 DEF TaskRec
  <2>3. Same(u)
    BY <2>2 DEF Same
  <2> QED
    BY <2>3, CalmTask DEF CursorInv
<1>3. \A u, v \in Task : Queued(u, v)'
  BY DEF CursorInv, Queued
<1> QED
  BY <1>1, <1>2, <1>3 DEF CursorInv

\* A check that goes on, or ends, without a new request.
LEMMA CheckGoesOn ==
  ASSUME TypeOK, CursorInv, NEW c \in Check, NEW r, chk' = [chk EXCEPT ![c] = r],
         r.pc # "fetch", UNCHANGED <<feed, published, base, up, gen, epoch, mem, owed, task>>,
         RowOK', CheckOK(c)'
  PROVE  CursorInv'
<1>1. \A d \in Check : d # c => chk'[d] = chk[d]
  BY DEF TypeOK
<1>2. chk'[c].pc # "fetch"
  BY DEF TypeOK
<1>3. Calm
  BY <1>1, <1>2 DEF Calm
<1>4. \A d \in Check : CheckOK(d)'
  BY <1>1, <1>3, CalmCheck DEF CursorInv
<1> QED
  BY <1>3, <1>4, RestInv

\* A check that is over.
LEMMA CheckEnds ==
  ASSUME TypeOK, CursorInv, NEW c \in Check, chk' = [chk EXCEPT ![c] = IdleCheck],
         UNCHANGED <<feed, published, base, up, gen, epoch, mem, owed, task>>, RowOK'
  PROVE  CursorInv'
<1>1. IdleCheck.pc = "idle"
  BY DEF IdleCheck
<1>2. PICK r : r = IdleCheck
  OBVIOUS
<1>3. chk'[c] = r /\ r.pc = "idle"
  BY <1>1, <1>2 DEF TypeOK
<1>4. CheckOK(c)'
  BY <1>3 DEF CheckOK
<1> QED
  BY <1>2, <1>3, <1>4, CheckGoesOn

\* The row is what it was, or takes what a commit carries.
LEMMA StillRow ==
  ASSUME TypeOK, CursorInv, UNCHANGED <<feed, published, base, up, gen, epoch, mem, owed>>,
         \A c \in Check : chk'[c].pc = "fetch" => chk'[c] = chk[c],
         \/ row' = row
         \/ \E old \in State \cup {None}, new \in State :
              SnapOK(new) /\ row' = Merged(old, new, row)
  PROVE  RowOK'
<1>1. Calm
  BY DEF Calm
<1> QED
  BY <1>1, CalmRow DEF CursorInv

\* A check stores what it has captured.
LEMMA CheckStoreInv ==
  ASSUME TypeOK, CursorInv, NEW c \in Check,
         \/ CheckFailed(c) \/ CheckStale(c) \/ CheckRead(c) \/ CheckCommit(c)
         \/ CheckConflict(c) \/ CheckDbError(c)
  PROVE  CursorInv'
<1>1. /\ UNCHANGED <<feed, published, base, up, gen, epoch, mem, owed, task>>
      /\ chk[c] \in CheckRec /\ CheckOK(c) /\ MemOK
  BY DEF CheckFailed, CheckStale, CheckRead, CheckCommit, CheckConflict, CheckDbError,
         world, db, proc, hist, TypeOK, CursorInv
<1>2. CASE chk' = [chk EXCEPT ![c] = IdleCheck] /\ row' = row
  <2>1. \A d \in Check : chk'[d].pc = "fetch" => chk'[d] = chk[d]
    BY <1>2 DEF TypeOK, IdleCheck
  <2> QED
    BY <1>1, <1>2, <2>1, StillRow, CheckEnds
<1>3. CASE CheckCommit(c)
  <2>1. chk' = [chk EXCEPT ![c] = IdleCheck] /\ row' = Merged(chk[c].base, chk[c].cap, row)
    BY <1>3 DEF CheckCommit
  <2>2. \A d \in Check : chk'[d].pc = "fetch" => chk'[d] = chk[d]
    BY <2>1 DEF TypeOK, IdleCheck
  <2>3. SnapOK(chk[c].cap) /\ chk[c].base \in State \cup {None} /\ chk[c].cap \in State
    BY <1>1, <1>3 DEF CheckOK, CheckCommit, CheckRec
  <2>4. RowOK'
    BY <1>1, <2>1, <2>2, <2>3, StillRow
  <2> QED
    BY <1>1, <2>1, <2>4, CheckEnds
<1>4. CASE CheckRead(c) /\ Valid(chk[c].gen)
  <2>1. PICK r : r = [chk[c] EXCEPT !.pc = "commit", !.base = row, !.cap = mem]
    OBVIOUS
  <2>2. r.pc = "commit" /\ r.gen = chk[c].gen /\ r.cap = mem
    BY <1>1, <2>1 DEF CheckRec
  <2>3. chk' = [chk EXCEPT ![c] = r]
    BY <1>4, <2>1 DEF CheckRead
  <2>4. chk'[c] = r /\ \A d \in Check : d # c => chk'[d] = chk[d]
    BY <2>3 DEF TypeOK
  <2>5. Calm /\ row' = row
    BY <1>1, <1>4, <2>2, <2>4 DEF Calm, CheckRead, db
  <2>6. RowOK'
    BY <2>5, CalmRow DEF CursorInv
  <2>7. mem.init /\ up /\ chk[c].gen = gen
    BY <1>1, <1>4 DEF CheckOK, CheckRead, Valid
  <2>8. SnapOK(mem)
    BY <1>1, <2>7 DEF SnapOK, MemOK
  <2>9. SnapOK(chk[c].cap)'
    <3>1. PICK s : s = mem /\ s = chk'[c].cap
      BY <2>2, <2>4
    <3>2. SnapOK(s)'
      BY <2>5, <2>8, <3>1, CalmSnap
    <3> QED
      BY <3>1, <3>2 DEF SnapOK
  <2>10. CheckOK(c)'
    BY <1>1, <2>2, <2>4, <2>7, <2>9 DEF CheckOK, Seen, Fetch, TypeOK
  <2> QED
    BY <1>1, <2>2, <2>3, <2>6, <2>10, CheckGoesOn
<1> QED
  BY <1>2, <1>3, <1>4 DEF CheckFailed, CheckStale, CheckRead, CheckConflict, CheckDbError, db

\* A request leaves: the answer shows all that is there now.
LEMMA CheckStartInv ==
  ASSUME TypeOK, CursorInv, NEW c \in Check, CheckStart(c) PROVE CursorInv'
<1>1. /\ UNCHANGED <<feed, published, base, up, gen, epoch, mem, row, owed, task>>
      /\ up /\ MemOK /\ feed \subseteq Id /\ gen \in Nat
  BY DEF CheckStart, world, db, proc, hist, TypeOK, CursorInv
<1>2. PICK r : r = [IdleCheck EXCEPT !.pc = "fetch", !.gen = gen, !.pin = mem.pin, !.dyn = feed,
                                     !.feedPin = feedPin]
  OBVIOUS
<1>3. r.pc = "fetch" /\ r.gen = gen /\ r.dyn = feed
  BY <1>2 DEF IdleCheck
<1>4. chk' = [chk EXCEPT ![c] = r]
  BY <1>2 DEF CheckStart
<1>5. chk'[c] = r /\ \A d \in Check : d # c => chk'[d] = chk[d]
  BY <1>4 DEF TypeOK
<1>6. \A d \in Check : Fetch(d)' => feed \ chk'[d].dyn = {} \/ (Fetch(d) /\ chk'[d] = chk[d])
  BY <1>1, <1>3, <1>5 DEF Fetch
<1>7. ASSUME NEW l, LastOK(l) PROVE LastOK(l)'
  BY <1>1, <1>6, <1>7 DEF LastOK
<1>8. ASSUME NEW q, PendOK(q) PROVE PendOK(q)'
  BY <1>1, <1>6, <1>8 DEF PendOK
<1>9. ASSUME NEW s, SnapOK(s) PROVE SnapOK(s)'
  BY <1>7, <1>8, <1>9 DEF SnapOK
<1>10. MemOK'
  <2>1. PICK l, q : l = mem.last /\ q = mem.pend
    OBVIOUS
  <2>2. LastOK(l)' /\ PendOK(q)'
    BY <1>1, <1>7, <1>8, <2>1 DEF MemOK
  <2>3. LastOK(mem.last)' /\ PendOK(mem.pend)'
    BY <1>1, <2>1, <2>2 DEF LastOK, PendOK
  <2> QED
    BY <1>1, <2>3 DEF MemOK
<1>11. RowOK'
  <2>1. PICK s : s = row
    OBVIOUS
  <2> QED
    BY <1>1, <1>9, <2>1 DEF CursorInv, RowOK, SnapOK
<1>12. \A d \in Check : CheckOK(d)'
  <2> TAKE d \in Check
  <2>1. CASE d = c
    <3>1. /\ chk'[d].pc = "fetch" /\ chk'[d].gen = gen' /\ chk'[d].dyn = feed' /\ up'
          /\ gen' <= gen' /\ feed' \subseteq 1 .. published'
      BY <1>1, <1>3, <1>5, <2>1 DEF MemOK
    <3>2. Seen(d)'
      BY <3>1 DEF Seen
    <3> QED
      BY <3>1, <3>2 DEF CheckOK
  <2>2. CASE d # c
    <3>1. CheckOK(d) /\ chk'[d] = chk[d]
      BY <1>5, <2>2 DEF CursorInv
    <3>2. chk[d].pc = "commit" => SnapOK(chk[d].cap)'
      <4>1. PICK s : s = chk[d].cap /\ s = chk'[d].cap
        BY <3>1
      <4> QED
        BY <1>9, <3>1, <4>1 DEF CheckOK, SnapOK
    <3>3. Seen(d)'
      BY <1>1, <1>6, <3>1 DEF CheckOK, Seen, Fetch
    <3> QED
      BY <1>1, <3>1, <3>2, <3>3 DEF CheckOK
  <2> QED
    BY <2>1, <2>2
<1>13. \A u \in Task : TaskInv(u)'
  <2> TAKE u \in Task
  <2>1. TaskInv(u)
    BY DEF CursorInv
  <2>2. task[u].pc = "commit" /\ task[u].pc # "idle" => SnapOK(task[u].cap)'
    <3>1. PICK s : s = task[u].cap
      OBVIOUS
    <3> QED
      BY <1>1, <1>9, <2>1, <3>1 DEF TaskInv, SnapOK
  <2>3. NewTask(u) => NewTask(u)'
    BY <1>1 DEF NewTask, Reached, InOrderOf, InBatch, Pushed, Ending, Between, Going, Building,
                Serving, Sending, InFlight
  <2> QED
    BY <1>1, <2>1, <2>2, <2>3 DEF TaskInv, LifeOK, KeyOK, Busy, Sending, Work
<1> QED
  BY <1>1, <1>10, <1>11, <1>12, <1>13 DEF CursorInv, Queued

\* A step that keeps sound what is stored, and keeps the tasks.
LEMMA KeptAll ==
  ASSUME TypeOK, CursorInv, \A s \in State : SnapOK(s) => SnapOK(s)', UNCHANGED <<row, task, up>>,
         gen' \in Nat, gen <= gen', gen' = gen => epoch' = epoch /\ (mem.init => mem'.init),
         gen' = gen => \A u \in Task : Work(u) /\ ~task[u].pinned => NewTask(u)',
         MemOK', \A c \in Check : CheckOK(c)'
  PROVE  CursorInv'
<1>1. RowOK'
  <2> SUFFICES ASSUME row # None PROVE SnapOK(row)'
    BY DEF RowOK
  <2>1. PICK s \in State : s = row
    BY DEF TypeOK
  <2> QED
    BY <2>1 DEF CursorInv, RowOK, SnapOK
<1>2. \A u \in Task : TaskInv(u)'
  <2> SUFFICES ASSUME NEW u \in Task, task[u].pc # "idle" PROVE TaskInv(u)'
    BY DEF TaskInv
  <2>1. TaskInv(u) /\ task[u].gen \in Nat /\ gen \in Nat
    BY DEF CursorInv, TypeOK, TasksOK, TaskRec
  <2>2. task[u].gen <= gen' /\ (task[u].gen = gen' => task[u].gen = gen /\ gen' = gen)
    BY <2>1 DEF TaskInv, LifeOK
  <2>3. LifeOK(u)' /\ KeyOK(u)'
    BY <2>1, <2>2 DEF TaskInv, LifeOK, KeyOK, Busy, Sending
  <2>4. task[u].pc = "commit" => SnapOK(task[u].cap)'
    <3>1. PICK s \in State : s = task[u].cap
      BY DEF TypeOK, TasksOK, TaskRec
    <3> QED
      BY <2>1, <3>1 DEF TaskInv, SnapOK
  <2>5. Work(u)' /\ ~task[u].pinned => NewTask(u)'
    BY <2>2 DEF Work
  <2> QED
    BY <2>3, <2>4, <2>5 DEF TaskInv
<1>3. \A u, v \in Task : Queued(u, v)'
  BY DEF CursorInv, Queued
<1> QED
  BY <1>1, <1>2, <1>3 DEF CursorInv

\* What a check has to store stays sound.
LEMMA CapKept ==
  ASSUME TypeOK, CursorInv, \A s \in State : SnapOK(s) => SnapOK(s)', NEW c \in Check,
         UNCHANGED chk, chk[c].pc = "commit"
  PROVE  SnapOK(chk[c].cap)'
<1>1. PICK s \in State : s = chk[c].cap
  BY DEF TypeOK, CheckRec
<1> QED
  BY <1>1 DEF CursorInv, CheckOK, SnapOK

\* The first check of a life takes its baseline.
LEMMA CheckBaselineInv ==
  ASSUME TypeOK, CursorInv, NEW c \in Check, CheckBaseline(c) PROVE CursorInv'
<1>1. /\ UNCHANGED <<feed, published, up, gen, epoch, row, owed, task>>
      /\ MemOK /\ CheckOK(c) /\ chk[c] \in CheckRec /\ feed \subseteq Id /\ published \in Nat
      /\ mem \in State /\ mem.pend \in [Key -> Pending \cup {None}] /\ gen \in Nat
      /\ Fetch(c) /\ ~mem.init /\ chk[c].gen = gen /\ up /\ MaxId \in Nat
  BY ParamAssumption
     DEF CheckBaseline, world, db, proc, TypeOK, CursorInv, State, Fetch, Valid, CheckOK
<1>2. PICK a \in Answers(c), last \in 0 .. MaxId :
        /\ IF a[1] = {} THEN last = mem.last ELSE Greatest(last, a[1])
        /\ mem' = [last |-> last, init |-> TRUE, pin |-> a[2],
                   pend |-> DropPinned(mem.pend, a[2])]
        /\ base' = last
  BY DEF CheckBaseline
<1>3. /\ a[1] \subseteq 1 .. published
      /\ \A i \in feed \ a[1] : i \in feed \ chk[c].dyn
  BY <1>1 DEF Answers, CheckOK, MemOK, Fetch
<1>4. mem'.last = last /\ mem'.init /\ last \in Nat
  BY <1>1, <1>2
<1>5. \A i \in Id : mem'.pend[New(i)] = mem.pend[New(i)]
  <2>1. \A i \in Id : New(i) \in Key /\ ~New(i)[2]
    BY NewKey
  <2>2. mem'.pend = DropPinned(mem.pend, a[2])
    BY <1>2
  <2> QED
    BY <2>1, <2>2 DEF DropPinned
<1>6. \A i \in feed : last < i => i \in feed \ chk[c].dyn
  <2> SUFFICES ASSUME NEW i \in feed, last < i PROVE i \notin a[1]
    BY <1>3
  <2>1. a[1] # {} /\ i \in a[1] => i <= last
    BY <1>2 DEF Greatest
  <2> QED
    BY <1>1, <1>4, <2>1 DEF Id
<1>7. last <= published
  <2>1. CASE a[1] = {}
    BY <1>1, <1>2, <2>1 DEF MemOK, LastOK
  <2>2. CASE a[1] # {}
    BY <1>1, <1>2, <1>3, <2>2 DEF Greatest
  <2> QED
    BY <2>1, <2>2
<1>8. ASSUME NEW l \in Nat, LastOK(l) PROVE LastOK(l)'
  <2>1. \A i \in feed : last < i => l < i
    BY <1>1, <1>6, <1>8 DEF LastOK
  <2>2. \A i \in feed : base' < i /\ i <= l => owed'[New(i)] = {}
    BY <1>1, <1>2, <1>4, <2>1 DEF Id
  <2> QED
    BY <1>1, <1>4, <1>8, <2>1, <2>2 DEF LastOK
<1>9. ASSUME NEW q, PendOK(q) PROVE PendOK(q)'
  <2>1. \A i \in feed : last < i => q[New(i)] = None
    <3>1. \A i \in feed \ chk[c].dyn, m \in Id : q[New(m)] # None => m < i
      BY <1>1, <1>9 DEF PendOK
    <3>2. \A i \in Id : ~(i < i)
      BY DEF Id
    <3> QED
      BY <1>1, <1>6, <3>1, <3>2
  <2> QED
    BY <1>1, <1>4, <1>9, <2>1 DEF PendOK
<1>10. \A s \in State : SnapOK(s) => SnapOK(s)'
  <2>1. \A s \in State : s.last \in Nat
    BY ParamAssumption DEF State
  <2> QED
    BY <1>8, <1>9, <2>1 DEF SnapOK
<1>11. MemOK'
  <2>1. LastOK(mem.last)'
    BY <1>1, <1>2, <1>4, <1>7 DEF LastOK, Id
  <2>2. PendOK(mem.pend)'
    BY <1>1, <1>4, <1>5 DEF MemOK, PendOK
  <2> QED
    BY <1>1, <1>4, <2>1, <2>2 DEF MemOK
<1>12. PICK r : r = [IdleCheck EXCEPT !.pc = "persist", !.gen = chk[c].gen]
  OBVIOUS
<1>13. chk'[c] = r /\ r.pc = "persist" /\ r.gen = gen /\ \A d \in Check : d # c => chk'[d] = chk[d]
  <2>1. r.pc = "persist" /\ r.gen = chk[c].gen
    BY <1>12 DEF IdleCheck
  <2>2. chk' = [chk EXCEPT ![c] = r]
    BY <1>12 DEF CheckBaseline
  <2> QED
    BY <1>1, <2>1, <2>2 DEF TypeOK
<1>14. \A d \in Check : CheckOK(d)'
  <2> TAKE d \in Check
  <2>1. CASE d = c
    <3>1. chk'[d].pc = "persist" /\ chk'[d].gen = gen' /\ gen' <= gen' /\ up'
      BY <1>1, <1>13, <2>1
    <3>2. Seen(d)'
      BY <3>1 DEF Seen, Fetch
    <3> QED
      BY <1>4, <3>1, <3>2 DEF CheckOK
  <2>2. CASE d # c
    <3>1. CheckOK(d) /\ chk'[d] = chk[d]
      BY <1>13, <2>2 DEF CursorInv
    <3>2. chk[d].pc = "commit" => SnapOK(chk[d].cap)'
      <4>1. PICK s \in State : s = chk[d].cap /\ s = chk'[d].cap
        BY <3>1 DEF TypeOK, CheckRec
      <4> QED
        BY <1>10, <3>1, <4>1 DEF CheckOK, SnapOK
    <3>3. Seen(d)'
      <4>1. \A j \in feed, m \in Id : last < j /\ j < m => mem.pend[New(m)] = None
        BY <1>1, <1>6 DEF MemOK, PendOK, Id
      <4> QED
        BY <1>1, <1>4, <1>5, <4>1 DEF Seen
    <3> QED
      BY <1>1, <1>4, <3>1, <3>2, <3>3 DEF CheckOK
  <2> QED
    BY <2>1, <2>2
<1>15. \A u \in Task : ~Work(u)
  BY <1>1 DEF CursorInv, TaskInv, LifeOK, Work
<1> QED
  BY <1>1, <1>4, <1>10, <1>11, <1>14, <1>15, KeptAll

\* What the tasks ts are after one was spawned: the new one waits for all the others.
AllQueued(ts) == \A u, v \in Task :
  u # v /\ ts[u].pc # "idle" /\ ts[v].pc # "idle" /\ ts[u].epoch = ts[v].epoch
    => u \in ts[v].ahead \/ v \in ts[u].ahead

Fresh(r, pinned, ids) ==
  /\ r.pc = "next" /\ r.pinned = pinned /\ r.ids = ids /\ r.gen = gen /\ r.epoch = epoch
  /\ r.key = <<0, FALSE>> /\ r.got = {} /\ r.to = None

\* The new task starts with the batch it was given.
LEMMA SpawnFields ==
  ASSUME NEW ts \in [Task -> TaskRec], NEW us, NEW t \in Task, ts[t].pc = "idle",
         NEW pinned \in BOOLEAN, NEW ids, NEW force, us = Spawn(ts, t, pinned, ids, force),
         AllQueued(ts)
  PROVE  Fresh(us[t], pinned, ids) /\ (\A u \in Task : u # t => us[u] = ts[u]) /\ AllQueued(us)
<1>1. PICK r : r = [IdleTask EXCEPT !.pc = "next", !.pinned = pinned, !.ids = ids,
     !.force = force, !.gen = gen, !.epoch = epoch,
     !.ahead = {u \in Task : ts[u].pc # "idle" /\ ts[u].epoch = epoch}]
  OBVIOUS
<1>2. Fresh(r, pinned, ids) /\ r.ahead = {u \in Task : ts[u].pc # "idle" /\ ts[u].epoch = epoch}
  BY <1>1 DEF IdleTask, Fresh
<1>3. us = [ts EXCEPT ![t] = r]
  BY <1>1 DEF Spawn
<1>4. us[t] = r /\ \A u \in Task : u # t => us[u] = ts[u]
  BY <1>3
<1>5. AllQueued(us)
  <2> SUFFICES ASSUME NEW u \in Task, NEW v \in Task, u # v, us[u].pc # "idle",
                      us[v].pc # "idle", us[u].epoch = us[v].epoch
               PROVE  u \in us[v].ahead \/ v \in us[u].ahead
    BY DEF AllQueued
  <2>1. CASE u # t /\ v # t
    BY <1>4, <2>1 DEF AllQueued
  <2>2. CASE u = t
    BY <1>2, <1>4, <2>2 DEF Fresh
  <2>3. CASE v = t
    BY <1>2, <1>4, <2>3 DEF Fresh
  <2> QED
    BY <2>1, <2>2, <2>3
<1> QED
  BY <1>2, <1>4, <1>5

\* The batch of a check leaves no dynamic out.
LEMMA BatchWhole ==
  ASSUME TypeOK, CursorInv, NEW c \in Check, Fetch(c), mem.init, NEW a \in Answers(c),
         NEW j \in feed, NEW m \in Batch(a), mem.last < j, j < m
  PROVE  j \in Batch(a)
<1>1. feed \subseteq Id /\ mem.pend \in [Key -> Pending \cup {None}] /\ CheckOK(c)
  BY DEF TypeOK, State, CursorInv
<1>2. \A i \in Id : PendAfter(a)[New(i)] = mem.pend[New(i)]
  <2>1. \A i \in Id : New(i) \in Key /\ ~New(i)[2]
    BY NewKey
  <2> QED
    BY <2>1 DEF PendAfter, DropPinned
<1>3. CASE j \in a[1]
  BY <1>3 DEF Batch
<1>4. CASE j \notin a[1]
  <2>1. a[1] = chk[c].dyn /\ j \in feed \ chk[c].dyn
    BY <1>4 DEF Answers
  <2>2. m \notin a[1]
    <3>1. m \in chk[c].dyn => m < j /\ m \in Id
      BY <1>1, <2>1 DEF CheckOK, Fetch, TypeOK, CheckRec
    <3> QED
      BY <1>1, <2>1, <3>1 DEF Id
  <2>3. m \in Id /\ mem.pend[New(m)] # None
    BY <1>2, <2>2 DEF Batch
  <2>4. mem.pend[New(j)] # None
    BY <1>1, <2>1, <2>3 DEF CheckOK, Fetch, Seen
  <2> QED
    BY <1>1, <1>2, <2>4 DEF Batch
<1> QED
  BY <1>3, <1>4

\* A check after the first one spawns the push of a pin, of the batch, or nothing.
LEMMA CheckObserveInv ==
  ASSUME TypeOK, CursorInv, NEW c \in Check, CheckObserve(c) PROVE CursorInv'
<1>1. /\ UNCHANGED <<feed, published, base, up, gen, epoch, row, owed>>
      /\ MemOK /\ CheckOK(c) /\ chk[c] \in CheckRec /\ feed \subseteq Id /\ published \in Nat
      /\ mem \in State /\ mem.pend \in [Key -> Pending \cup {None}] /\ gen \in Nat
      /\ Fetch(c) /\ mem.init /\ chk[c].gen = gen /\ up /\ task \in [Task -> TaskRec]
      /\ mem.last \in Nat
  BY ParamAssumption
     DEF CheckObserve, world, db, proc, hist, TypeOK, TasksOK, CursorInv, State, Fetch, Valid,
         CheckOK
<1>2. PICK a \in Answers(c), tp, tn \in Task : Observe(c, a, tp, tn)
  BY DEF CheckObserve
<1>3. /\ mem'.init = mem.init /\ mem'.last = mem.last
      /\ \A i \in Id : mem'.pend[New(i)] = mem.pend[New(i)]
  <2>1. mem' = [mem EXCEPT !.pend = PendAfter(a), !.pin = IF Adopt(c, a) THEN a[2] ELSE @]
    BY <1>2 DEF Observe
  <2>2. mem'.init = mem.init /\ mem'.last = mem.last /\ mem'.pend = PendAfter(a)
    BY <1>1, <2>1 DEF State
  <2>3. \A i \in Id : New(i) \in Key /\ ~New(i)[2]
    BY NewKey
  <2> QED
    BY <2>2, <2>3 DEF PendAfter, DropPinned
<1>4. PICK r : /\ r = IF Batch(a) = {} /\ (Adopt(c, a) \/ PendAfter(a) # mem.pend)
                        THEN [IdleCheck EXCEPT !.pc = "persist", !.gen = chk[c].gen]
                        ELSE IdleCheck
               /\ chk' = [chk EXCEPT ![c] = r]
  BY <1>2 DEF Observe
<1>5. r.pc = "idle" \/ (r.pc = "persist" /\ r.gen = gen)
  BY <1>1, <1>4 DEF IdleCheck
<1>6. chk'[c] = r /\ \A d \in Check : d # c => chk'[d] = chk[d]
  BY <1>4 DEF TypeOK
<1>7. Calm
  BY <1>1, <1>3, <1>5, <1>6 DEF Calm
<1>8. MemOK' /\ RowOK'
  <2>1. MemOK'
    BY <1>1, <1>3, <1>7, CalmMem DEF MemOK, PendOK
  <2> QED
    BY <1>1, <1>7, <2>1, CalmRow DEF CursorInv
<1>9. \A d \in Check : CheckOK(d)'
  <2> TAKE d \in Check
  <2>1. CASE d = c
    <3>1. /\ chk'[d].pc = "idle" \/ (chk'[d].pc = "persist" /\ chk'[d].gen = gen')
          /\ gen' <= gen' /\ up' /\ mem'.init
      BY <1>1, <1>3, <1>5, <1>6, <2>1
    <3>2. Seen(d)'
      BY <3>1 DEF Seen, Fetch
    <3> QED
      BY <3>1, <3>2 DEF CheckOK
  <2>2. CASE d # c
    BY <1>6, <1>7, <2>2, CalmCheck DEF CursorInv
  <2> QED
    BY <2>1, <2>2
<1> DEFINE withPin == IF PushPin(c, a) THEN Spawn(task, tp, TRUE, {a[2]}, FALSE) ELSE task
<1>10. /\ withPin \in [Task -> TaskRec] /\ AllQueued(withPin)
       /\ \A u \in Task : u # tp => withPin[u] = task[u]
       /\ withPin[tp] = task[tp] \/ Fresh(withPin[tp], TRUE, {a[2]})
  <2>1. AllQueued(task)
    BY DEF CursorInv, Queued, AllQueued
  <2>2. CASE ~PushPin(c, a)
    BY <1>1, <2>1, <2>2
  <2>3. CASE PushPin(c, a)
    <3>1. task[tp].pc = "idle" /\ withPin = Spawn(task, tp, TRUE, {a[2]}, FALSE)
      BY <1>2, <2>3 DEF Observe
    <3>2. a[2] \in Id
      <4>1. a[2] \in 0 .. MaxId
        BY AnswerType
      <4> QED
        BY <2>3, <4>1 DEF PushPin, Id
    <3>3. withPin \in [Task -> TaskRec]
      BY <1>1, <3>1, <3>2, SpawnType DEF TypeOK
    <3>4. PICK ids, us, ts, p, f :
            ids = {a[2]} /\ us = withPin /\ ts = task /\ p = TRUE /\ f = FALSE
      OBVIOUS
    <3>5. /\ us = Spawn(ts, tp, p, ids, f) /\ ts[tp].pc = "idle" /\ AllQueued(ts)
          /\ ts \in [Task -> TaskRec] /\ p \in BOOLEAN
      BY <1>1, <2>1, <3>1, <3>4 DEF Spawn
    <3> HIDE DEF withPin
    <3>6. Fresh(us[tp], p, ids) /\ (\A u \in Task : u # tp => us[u] = ts[u]) /\ AllQueued(us)
      <4>1. Fresh(us[tp], p, ids)
        BY <3>5, SpawnFields
      <4>2. \A u \in Task : u # tp => us[u] = ts[u]
        BY <3>5, SpawnFields
      <4>3. AllQueued(us)
        BY <3>5, SpawnFields
      <4> QED
        BY <4>1, <4>2, <4>3
    <3> QED
      BY <3>3, <3>4, <3>6
  <2> QED
    BY <2>2, <2>3
<1>11. /\ AllQueued(task')
       /\ \A u \in Task : u # tn => task'[u] = withPin[u]
       /\ task'[tn] = withPin[tn] \/ Fresh(task'[tn], FALSE, Batch(a))
  <2>1. CASE Batch(a) = {}
    BY <1>2, <1>10, <2>1 DEF Observe
  <2>2. CASE Batch(a) # {}
    <3>1. withPin[tn].pc = "idle" /\ task' = Spawn(withPin, tn, FALSE, Batch(a), Adopt(c, a))
      BY <1>2, <2>2 DEF Observe
    <3> HIDE DEF withPin
    <3>2. PICK ids, us, ts, p, f :
            ids = Batch(a) /\ us = task' /\ ts = withPin /\ p = FALSE /\ f = Adopt(c, a)
      OBVIOUS
    <3>3. /\ us = Spawn(ts, tn, p, ids, f) /\ ts[tn].pc = "idle" /\ AllQueued(ts)
          /\ ts \in [Task -> TaskRec] /\ p \in BOOLEAN
      BY <1>10, <3>1, <3>2 DEF Spawn
    <3>4. Fresh(us[tn], p, ids) /\ (\A u \in Task : u # tn => us[u] = ts[u]) /\ AllQueued(us)
      BY <3>3, SpawnFields
    <3> QED
      BY <3>2, <3>4
  <2> QED
    BY <2>1, <2>2
<1> HIDE DEF withPin
<1>12. \A u \in Task : TaskInv(u)'
  <2> TAKE u \in Task
  <2>1. CASE task'[u] = task[u]
    <3>1. task[u] = [task[u] EXCEPT !.ahead = task[u].ahead]
      BY <1>1 DEF TaskRec
    <3>2. Same(u)
      BY <2>1, <3>1 DEF Same
    <3> QED
      BY <1>7, <3>2, CalmTask DEF CursorInv
  <2>2. CASE Fresh(task'[u], TRUE, {a[2]})
    BY <1>1, <1>3, <2>2 DEF Fresh, TaskInv, LifeOK, KeyOK, Busy
  <2>3. CASE Fresh(task'[u], FALSE, Batch(a))
    <3>1. /\ task'[u].key[1] = 0 /\ task'[u].key[2] = FALSE /\ task'[u].got = {}
          /\ task'[u].ids = Batch(a) /\ task'[u].pc = "next"
      <4>1. <<0, FALSE>>[1] = 0 /\ <<0, FALSE>>[2] = FALSE
        OBVIOUS
      <4> QED
        BY <2>3, <4>1 DEF Fresh
    <3>2. Batch(a) \subseteq 1 .. published
      <4>1. a[1] \subseteq 1 .. published
        BY <1>1 DEF Answers, CheckOK, MemOK, Fetch
      <4>2. \A i \in Id : PendAfter(a)[New(i)] # None => i <= published
        <5>1. \A i \in Id : New(i) \in Key /\ ~New(i)[2]
          BY NewKey
        <5> QED
          BY <1>1, <5>1 DEF PendAfter, DropPinned, MemOK, PendOK
      <4> QED
        BY <1>1, <4>1, <4>2 DEF Batch, Id
    <3>3. Reached(u)' = Batch(a) \cup {0}
      BY <3>1 DEF Reached
    <3>4. InBatch(u)'
      <4> SUFFICES ASSUME NEW j \in feed, NEW m \in Batch(a) \cup {0}, mem.last < j, j < m
                   PROVE  j \in Batch(a)
        BY <1>1, <1>3, <3>3 DEF InBatch
      <4>1. m \in Batch(a)
        BY <1>1 DEF Id
      <4> QED
        BY <1>1, <4>1, BatchWhole
    <3>5. InOrderOf(u)'
      BY <3>1, <3>2 DEF InOrderOf
    <3>6. Reached(u)' \subseteq 0 .. published'
      BY <1>1, <3>2, <3>3
    <3>7. NewTask(u)'
      BY <3>1, <3>4, <3>5, <3>6 DEF NewTask, Pushed, Between, Building, Serving, Sending
    <3>8. LifeOK(u)' /\ KeyOK(u)'
      BY <1>1, <1>3, <2>3, <3>1 DEF Fresh, LifeOK, KeyOK, Busy
    <3> QED
      BY <3>1, <3>7, <3>8 DEF TaskInv
  <2> QED
    BY <1>10, <1>11, <2>1, <2>2, <2>3
<1>13. \A u, v \in Task : Queued(u, v)'
  BY <1>11 DEF AllQueued, Queued
<1> QED
  BY <1>8, <1>9, <1>12, <1>13 DEF CursorInv

\* A step of a check.
LEMMA CheckStep == ASSUME TypeOK, CursorInv, NEW c \in Check, CheckNext(c) PROVE CursorInv'
BY CheckStartInv, CheckStoreInv, CheckBaselineInv, CheckObserveInv DEF CheckNext

-----------------------------------------------------------------------------
(* The uploader, the configuration, crash and restart *)

\* The uploader publishes, deletes or pins: what is new is after all there was.
LEMMA WorldStep == ASSUME TypeOK, CursorInv, World PROVE CursorInv'
<1>1. /\ UNCHANGED <<base, up, gen, epoch, mem, row, owed, task, chk>>
      /\ MemOK /\ feed \subseteq Id /\ published \in Nat /\ gen \in Nat /\ MaxId \in Nat
      /\ mem.last \in Nat
  BY ParamAssumption DEF World, Publish, Vanish, SetPin, db, proc, hist, TypeOK, State, CursorInv
<1>2. /\ published' \in Nat /\ published <= published' /\ feed' \subseteq Id
      /\ feed' \subseteq 1 .. published'
      /\ \A i \in feed' : i \in feed \/ published < i
  <2>1. CASE Publish
    BY <1>1, <2>1 DEF Publish, MemOK, Id
  <2>2. CASE \E i \in Id : Vanish(i)
    BY <1>1, <2>2 DEF Vanish, MemOK
  <2>3. CASE \E i \in Id \cup {0} : SetPin(i)
    BY <1>1, <2>3 DEF SetPin, MemOK
  <2> QED
    BY <2>1, <2>2, <2>3 DEF World
<1>3. ASSUME NEW i \in feed', NEW m \in Nat, m <= published, ~(m < i) PROVE i \in feed
  BY <1>1, <1>2, <1>3 DEF Id
<1>4. ASSUME NEW l \in Nat, LastOK(l) PROVE LastOK(l)'
  <2>1. l <= published /\ l <= published'
    BY <1>1, <1>2, <1>4 DEF LastOK
  <2>2. ASSUME NEW i \in feed' PROVE i \in feed \/ l < i
    BY <1>3, <2>1, <2>2
  <2>3. ASSUME NEW i \in feed', i <= l PROVE i \in feed
    BY <1>2, <2>2, <2>3 DEF Id
  <2>4. \A c \in Check : Fetch(c)' <=> Fetch(c)
    BY <1>1 DEF Fetch
  <2> QED
    BY <1>1, <1>4, <2>1, <2>2, <2>3, <2>4 DEF LastOK
<1>5. ASSUME NEW q, PendOK(q) PROVE PendOK(q)'
  <2>1. \A i \in Id : q[New(i)] # None => i <= published /\ i <= published' /\ i \in Nat
    BY <1>1, <1>2, <1>5 DEF PendOK, Id
  <2>2. ASSUME NEW i \in feed', q[New(i)] # None PROVE i \in feed
    BY <1>1, <1>2, <2>1, <2>2 DEF Id
  <2>3. ASSUME NEW i \in feed', NEW m \in Id, q[New(m)] # None PROVE i \in feed \/ m < i
    BY <1>3, <2>1, <2>3
  <2>4. \A c \in Check : Fetch(c)' <=> Fetch(c)
    BY <1>1 DEF Fetch
  <2> QED
    BY <1>1, <1>5, <2>1, <2>2, <2>3, <2>4 DEF PendOK
<1>6. \A s \in State : SnapOK(s) => SnapOK(s)'
  <2>1. \A s \in State : s.last \in Nat
    BY ParamAssumption DEF State
  <2> QED
    BY <1>4, <1>5, <2>1 DEF SnapOK
<1>7. MemOK'
  <2>1. PICK l, q : l \in Nat /\ l = mem.last /\ q = mem.pend
    BY <1>1
  <2>2. LastOK(l)' /\ PendOK(q)'
    BY <1>1, <1>4, <1>5, <2>1 DEF MemOK
  <2>3. LastOK(mem.last)' /\ PendOK(mem.pend)'
    BY <1>1, <2>1, <2>2 DEF LastOK, PendOK
  <2> QED
    BY <1>1, <1>2, <2>3 DEF MemOK
<1>8. ASSUME NEW c \in Check PROVE CheckOK(c)'
  <2>1. CheckOK(c) /\ (Fetch(c)' <=> Fetch(c)) /\ chk[c].dyn \in SUBSET Id
    BY <1>1 DEF CursorInv, Fetch, TypeOK, CheckRec
  <2>2. chk[c].pc = "commit" => SnapOK(chk[c].cap)'
    BY <1>1, <1>6, CapKept
  <2>3. Seen(c)'
    <3>1. ASSUME NEW j \in feed', NEW m \in Id, j < m, mem.pend[New(m)] # None PROVE j \in feed
      <4>1. m <= published /\ m \in Nat /\ j \in Nat
        BY <1>1, <1>2, <3>1 DEF MemOK, PendOK, Id
      <4> QED
        BY <1>3, <3>1, <4>1
    <3> SUFFICES ASSUME Fetch(c), mem.init, NEW j \in feed' \ chk[c].dyn, NEW m \in Id,
                        mem.last < j, j < m, mem.pend[New(m)] # None
                 PROVE  mem.pend[New(j)] # None
      BY <1>1, <2>1 DEF Seen
    <3>2. Seen(c) /\ j \in feed
      BY <2>1, <3>1 DEF CheckOK, Fetch
    <3> QED
      BY <3>2 DEF Seen
  <2>4. chk[c].pc # "idle" /\ chk[c].pc = "fetch" =>
          /\ chk[c].dyn \subseteq 1 .. published'
          /\ \A i \in chk[c].dyn, j \in feed' \ chk[c].dyn : i < j
    <3> SUFFICES ASSUME chk[c].pc = "fetch"
                 PROVE  /\ chk[c].dyn \subseteq 1 .. published'
                        /\ \A i \in chk[c].dyn, j \in feed' \ chk[c].dyn : i < j
      OBVIOUS
    <3>1. /\ chk[c].dyn \subseteq 1 .. published
          /\ \A i \in chk[c].dyn, j \in feed \ chk[c].dyn : i < j
      BY <2>1 DEF CheckOK
    <3> QED
      BY <1>1, <1>2, <1>3, <3>1
  <2> QED
    BY <1>1, <2>1, <2>2, <2>3, <2>4 DEF CheckOK
<1>9. ASSUME NEW u \in Task, NewTask(u) PROVE NewTask(u)'
  <2>1. /\ Reached(u)' = Reached(u) /\ InFlight(u)' = InFlight(u)
        /\ Reached(u) \subseteq 0 .. published
    BY <1>1, <1>9 DEF Reached, InFlight, NewTask
  <2>2. \A i \in feed' : i \in Reached(u) => i \in feed
    BY <1>1, <1>2, <2>1 DEF Id
  <2>3. InBatch(u)'
    <3>1. ASSUME NEW j \in feed', NEW m \in Reached(u), j < m PROVE j \in feed
      <4>1. m \in Nat /\ m <= published /\ ~(m < j)
        BY <1>1, <1>2, <2>1, <3>1 DEF Id
      <4> QED
        BY <1>3, <4>1
    <3> QED
      BY <1>1, <1>9, <2>1, <3>1 DEF NewTask, InBatch
  <2>4. Pushed(u)'
    BY <1>1, <1>9, <2>2 DEF NewTask, Pushed, Ending, Reached
  <2>5. Serving(u)'
    BY <1>1, <1>9, <2>1, <2>2 DEF NewTask, Serving, Sending, Reached
  <2> QED
    BY <1>1, <1>2, <1>9, <2>1, <2>3, <2>4, <2>5
       DEF NewTask, InOrderOf, Between, Going, Building
<1>10. \A u \in Task : Work(u) /\ ~task[u].pinned => NewTask(u)'
  BY <1>9 DEF CursorInv, TaskInv, Work
<1> QED
  BY <1>1, <1>6, <1>7, <1>8, <1>10, KeptAll

\* The uid starts over.
LEMMA NewLifeInv ==
  ASSUME TypeOK, CursorInv,
         UNCHANGED <<feed, published, base, up, row, owed, task, chk>>,
         gen' = gen + 1, ~mem'.init, mem'.last = 0,
         \/ mem'.pend = mem.pend
         \/ \A k \in Key : mem'.pend[k] = None
  PROVE  CursorInv'
<1>1. MemOK /\ feed \subseteq Id /\ published \in Nat /\ gen \in Nat
  BY ParamAssumption DEF TypeOK, CursorInv
<1>2. ASSUME NEW c \in Check
      PROVE  ~Fetch(c)' /\ (chk[c].gen # gen' \/ chk[c].pc = "idle")
  <2>1. chk[c].pc # "idle" => chk[c].gen <= gen /\ chk[c].gen \in Nat
    BY DEF CursorInv, CheckOK, TypeOK, CheckRec
  <2> QED
    BY <1>1, <2>1 DEF Fetch
<1>3. ASSUME NEW l \in Nat, LastOK(l) PROVE LastOK(l)'
  BY <1>2, <1>3 DEF LastOK
<1>4. ASSUME NEW q, PendOK(q) PROVE PendOK(q)'
  BY <1>2, <1>4 DEF PendOK
<1>5. \A s \in State : SnapOK(s) => SnapOK(s)'
  <2>1. \A s \in State : s.last \in Nat
    BY ParamAssumption DEF State
  <2> QED
    BY <1>3, <1>4, <2>1 DEF SnapOK
<1>6. MemOK'
  <2>1. LastOK(mem.last)'
    BY <1>1, <1>2 DEF LastOK, Id, TypeOK
  <2>2. PendOK(mem.pend)'
    <3>1. CASE mem'.pend = mem.pend
      BY <1>1, <1>2, <3>1 DEF MemOK, PendOK
    <3>2. CASE \A k \in Key : mem'.pend[k] = None
      BY <1>1, <1>2, <3>2, NewKey DEF PendOK
    <3> QED
      BY <3>1, <3>2
  <2> QED
    BY <1>1, <2>1, <2>2 DEF MemOK
<1>7. ASSUME NEW c \in Check PROVE CheckOK(c)'
  <2>1. CheckOK(c) /\ (chk[c].pc # "idle" => chk[c].gen \in Nat)
    BY DEF CursorInv, TypeOK, CheckRec
  <2>2. chk[c].pc = "commit" => SnapOK(chk[c].cap)'
    BY <1>5, CapKept
  <2>3. Seen(c)'
    BY DEF Seen
  <2> QED
    BY <1>1, <1>2, <2>1, <2>2, <2>3 DEF CheckOK
<1> QED
  BY <1>1, <1>5, <1>6, <1>7, KeptAll

\* A step that leaves memory, feed and coroutines as they are.
LEMMA UntouchedInv ==
  ASSUME TypeOK, CursorInv, Still, UNCHANGED task, row' = row \/ row' = None
  PROVE  CursorInv'
<1>1. MemOK /\ RowOK
  BY DEF CursorInv
<1>2. Calm
  BY <1>1, StillCalm
<1>3. RowOK'
  <2>1. CASE row' = row
    BY <1>1, <1>2, <2>1, CalmRow
  <2>2. CASE row' = None
    BY <2>2 DEF RowOK
  <2> QED
    BY <2>1, <2>2
<1>4. \A c \in Check : CheckOK(c)'
  BY <1>2, CalmCheck DEF CursorInv, Still
<1> QED
  BY <1>2, <1>3, <1>4, RestInv DEF Still

\* A reload: a new configuration, a new life, the row and the check that follow.
LEMMA ReloadStep == ASSUME TypeOK, CursorInv, ReloadNext PROVE CursorInv'
<1> USE DEF Still, world, db, proc, hist
<1>1. CASE \E new \in SUBSET Target : ReloadStart(new)
  BY <1>1, UntouchedInv DEF ReloadStart
<1>2. CASE ReloadApply
  <2>1. CASE cfg # {}
    BY <1>2, <2>1, UntouchedInv DEF ReloadApply
  <2>2. CASE cfg = {}
    <3>1. mem' = Blank /\ gen' = gen + 1
      BY <1>2, <2>2 DEF ReloadApply
    <3>2. ~mem'.init /\ mem'.last = 0 /\ \A k \in Key : mem'.pend[k] = None
      BY <3>1 DEF Blank
    <3> QED
      BY <1>2, <3>1, <3>2, NewLifeInv DEF ReloadApply
  <2> QED
    BY <2>1, <2>2
<1>3. CASE ReloadReset
  <2>1. mem' = [mem EXCEPT !.last = 0, !.init = FALSE, !.pin = 0] /\ mem \in State
    BY <1>3 DEF ReloadReset, TypeOK
  <2>2. ~mem'.init /\ mem'.last = 0 /\ mem'.pend = mem.pend
    BY <2>1 DEF State
  <2> QED
    BY <1>3, <2>2, NewLifeInv DEF ReloadReset
<1>4. CASE DeleteRead \/ DeleteCommit \/ DeleteDbError
  BY <1>4, UntouchedInv DEF DeleteRead, DeleteCommit, DeleteDbError
<1> QED
  BY <1>1, <1>2, <1>3, <1>4 DEF ReloadNext

\* Without coroutines, only memory and row have to be sound.
LEMMA NoCoroutines ==
  ASSUME \A c \in Check : chk[c].pc = "idle", \A t \in Task : task[t].pc = "idle", MemOK, RowOK
  PROVE  CursorInv
BY DEF CursorInv, CheckOK, TaskInv, Queued

\* What a former process has stored is sound for one that starts.
LEMMA Afterwards ==
  ASSUME TypeOK, MemOK, NEW s \in State, SnapOK(s), UNCHANGED <<feed, published, base, owed>>,
         \A c \in Check : ~Fetch(c)', ~mem'.init \/ mem' = s
  PROVE  SnapOK(s)'
<1>1. LastOK(s.last)'
  BY DEF SnapOK, LastOK
<1>2. PendOK(s.pend)'
  BY DEF SnapOK, PendOK
<1> QED
  BY <1>1, <1>2 DEF SnapOK

\* Memory that holds nothing yet.
LEMMA BlankSound ==
  ASSUME TypeOK, MemOK, UNCHANGED <<feed, published, base, owed>>, mem' = Blank,
         \A c \in Check : ~Fetch(c)'
  PROVE  MemOK'
<1>1. ~mem'.init /\ mem'.last = 0 /\ \A k \in Key : mem'.pend[k] = None
  BY DEF Blank
<1>2. LastOK(mem.last)' /\ PendOK(mem.pend)'
  BY <1>1, NewKey DEF LastOK, PendOK, TypeOK, Id
<1> QED
  BY <1>1, <1>2 DEF MemOK

\* The process dies, and starts again.
LEMMA CrashStep == ASSUME TypeOK, CursorInv, Crash \/ Restart PROVE CursorInv'
<1>1. MemOK /\ RowOK /\ row \in State \cup {None} /\ UNCHANGED <<feed, published, base, owed>>
  BY DEF CursorInv, TypeOK, Crash, Restart, world, hist
<1>2. (\A c \in Check : chk'[c].pc = "idle") /\ (\A t \in Task : task'[t].pc = "idle")
  <2>1. CASE Crash
    BY <2>1 DEF Crash, IdleCheck, IdleTask
  <2>2. CASE Restart
    BY <2>2 DEF Restart, CursorInv, CheckOK, TaskInv, LifeOK
  <2> QED
    BY <2>1, <2>2
<1>3. \A c \in Check : ~Fetch(c)'
  BY <1>2 DEF Fetch
<1>4. CASE mem' = Blank /\ (row' = row \/ row' = None)
  <2>1. MemOK'
    BY <1>1, <1>3, <1>4, BlankSound
  <2>2. RowOK'
    <3> SUFFICES ASSUME row' # None PROVE SnapOK(row)'
      BY DEF RowOK
    <3>1. PICK s \in State : s = row /\ s = row'
      BY <1>1, <1>4
    <3>2. SnapOK(s)'
      <4>1. ~mem'.init
        BY <1>4 DEF Blank
      <4> QED
        BY <1>1, <1>3, <1>4, <3>1, <4>1, Afterwards DEF RowOK
    <3> QED
      BY <3>1, <3>2 DEF SnapOK
  <2> QED
    BY <1>2, <2>1, <2>2 DEF CursorInv, CheckOK, TaskInv, Queued
<1>5. CASE row # None /\ row' = row /\ mem' = row
  <2>1. PICK s \in State : s = row /\ s = row' /\ s = mem'
    BY <1>1, <1>5
  <2>2. SnapOK(s)'
    BY <1>1, <1>3, <1>5, <2>1, Afterwards DEF RowOK
  <2>3. RowOK' /\ MemOK'
    BY <1>1, <2>1, <2>2 DEF RowOK, SnapOK, MemOK
  <2> QED
    BY <1>2, <2>3 DEF CursorInv, CheckOK, TaskInv, Queued
<1> QED
  BY <1>1, <1>4, <1>5 DEF Crash, Restart, db

\* The initial state.
LEMMA InitCursor == Init => CursorInv
<1> SUFFICES ASSUME Init PROVE CursorInv
  OBVIOUS
<1>1. (\A c \in Check : chk[c].pc = "idle") /\ (\A t \in Task : task[t].pc = "idle")
  BY DEF Init, IdleCheck, IdleTask
<1>2. feed = {} /\ published = 0 /\ row = None /\ mem = Blank
  BY DEF Init
<1>3. ~mem.init /\ mem.last = 0 /\ \A k \in Key : mem.pend[k] = None
  BY <1>2 DEF Blank
<1>4. LastOK(mem.last) /\ PendOK(mem.pend)
  BY <1>2, <1>3, NewKey DEF LastOK, PendOK
<1> QED
  BY <1>1, <1>2, <1>3, <1>4, NoCoroutines DEF MemOK, RowOK

-----------------------------------------------------------------------------
(* The theorem *)

\* Every step keeps the invariant.
LEMMA CursorStep == TypeOK /\ CursorInv /\ [Next]_vars => CursorInv'
<1> SUFFICES ASSUME TypeOK, CursorInv, [Next]_vars PROVE CursorInv'
  OBVIOUS
<1>1. CASE UNCHANGED vars
  BY <1>1, UntouchedInv DEF Still, vars, world, db, proc, hist
<1> QED
  BY <1>1, WorldStep, CheckStep, TaskStep, ReloadStep, CrashStep DEF Next

\* The cursor, in memory and in the row, never passes a dynamic that some target
\* still has to get: for any targets, any number of checks and tasks, and any bounds on
\* failures, crashes, configuration changes and what the uploader does.
THEOREM CursorCorrect == Spec => []NothingSkipped
<1>1. TypeOK /\ CursorInv => NothingSkipped
  <2> SUFFICES ASSUME TypeOK, CursorInv PROVE NothingSkipped
    OBVIOUS
  <2>1. \A l : LastOK(l) => {i \in feed : base < i /\ i <= l /\ owed[New(i)] # {}} = {}
    BY DEF LastOK
  <2> QED
    BY <2>1 DEF NothingSkipped, Skipped, CursorInv, MemOK, RowOK, SnapOK
<1> QED
  BY <1>1, InitCursor, CursorStep, TypeCorrect, PTL DEF Spec

-----------------------------------------------------------------------------
(* The order of the pushes *)

\* A step of task u leaves the other tasks alone, but for their queues.
LEMMA OneTask ==
  ASSUME TypeOK, NEW u \in Task, TaskNext(u), NEW t \in Task, t # u
  PROVE  /\ task'[t].pc = task[t].pc /\ task'[t].key = task[t].key
         /\ task'[t].to = task[t].to /\ task'[t].epoch = task[t].epoch
         /\ task'[t].ids = task[t].ids /\ task'[t].gen = task[t].gen
         /\ task'[t].pinned = task[t].pinned
<1>0. task \in [Task -> TaskRec] /\ task[t] \in TaskRec
  BY DEF TypeOK, TasksOK
<1>1. CASE task'[t] = task[t]
  BY <1>1
<1>2. CASE End(u)
  <2>1. task'[t] = [task[t] EXCEPT !.ahead = @ \ {u}]
    BY <1>2 DEF End, Ended
  <2> QED
    BY <1>0, <2>1 DEF TaskRec
<1>3. ASSUME NEW k, NEW ids, Offer(u, k, ids) PROVE task'[t] = task[t]
  BY <1>0, <1>3 DEF Offer, Prepare, Persist
<1>4. CASE NewNext(u) \/ PinNext(u)
  BY <1>2, <1>3, <1>1, <1>4 DEF NewNext, PinNext
<1>5. CASE NewFinish(u) \/ PinFinish(u)
  <2>1. End(u) \/ task'[t] = task[t]
    BY <1>0, <1>5 DEF NewFinish, PinFinish, Persist
  <2> QED
    BY <1>1, <1>2, <2>1
<1>6. CASE Built(u) \/ SendOk(u) \/ SendFailed(u) \/ SendLost(u) \/ SendEnd(u)
  <2>1. task'[t] = task[t]
    BY <1>0, <1>6 DEF Built, SendOk, SendFailed, SendLost, SendEnd, Prepare, Persist, Goto,
                      NextTarget, Settle
  <2> QED
    BY <1>1, <2>1
<1>7. CASE TaskRead(u) \/ TaskCommit(u) \/ TaskConflict(u) \/ TaskDbError(u)
  <2>1. End(u) \/ task'[t] = task[t]
    BY <1>0, <1>7 DEF TaskRead, TaskCommit, TaskConflict, TaskDbError, Raised, NextTarget, Goto
  <2> QED
    BY <1>1, <1>2, <2>1
<1>8. CASE \E x \in Target : SendSkip(u, x) \/ SendResume(u, x) \/ SendStart(u, x)
  <2>1. task'[t] = task[t]
    BY <1>0, <1>8 DEF SendSkip, SendResume, SendStart
  <2> QED
    BY <1>1, <2>1
<1> QED
  BY <1>4, <1>5, <1>6, <1>7, <1>8 DEF TaskNext

\* A check touches no task that is at work.
LEMMA CheckLeaves ==
  ASSUME TypeOK, NEW c \in Check, CheckNext(c), NEW t \in Task, task[t].pc # "idle"
  PROVE  task'[t] = task[t]
<1>0. task \in [Task -> TaskRec]
  BY DEF TypeOK, TasksOK
<1>1. CASE CheckObserve(c)
  <2>1. PICK a \in Answers(c), tp, tn \in Task : Observe(c, a, tp, tn)
    BY <1>1 DEF CheckObserve
  <2> DEFINE withPin == IF PushPin(c, a) THEN Spawn(task, tp, TRUE, {a[2]}, FALSE) ELSE task
  <2>2. DOMAIN withPin = Task /\ withPin[t] = task[t]
    BY <1>0, <2>1 DEF Observe, Spawn
  <2>3. task' = withPin \/ (withPin[tn].pc = "idle"
                             /\ task' = Spawn(withPin, tn, FALSE, Batch(a), Adopt(c, a)))
    BY <2>1 DEF Observe
  <2> HIDE DEF withPin
  <2> QED
    BY <2>2, <2>3 DEF Spawn
<1>2. CASE ~CheckObserve(c)
  BY <1>2 DEF CheckNext, CheckStart, CheckFailed, CheckStale, CheckBaseline, CheckRead,
              CheckCommit, CheckConflict, CheckDbError
<1> QED
  BY <1>1, <1>2

\* Only SendStart puts a message on its way.
LEMMA Starting ==
  ASSUME TypeOK, [Next]_vars, NEW t \in Task, NEW i \in Id, NEW x \in Target, Starts(t, i, x)
  PROVE  SendStart(t, x) /\ task[t].key = New(i)
<1>0. task \in [Task -> TaskRec] /\ task[t] \in TaskRec
  BY DEF TypeOK, TasksOK
<1>1. task[t].pc = "send" /\ task'[t].pc = "inflight" /\ task'[t].key = New(i) /\ task'[t].to = x
  BY DEF Starts
<1>2. task'[t] # task[t]
  BY <1>1
<1>3. TaskNext(t)
  <2>1. ~World /\ ~ReloadNext /\ ~Restart /\ ~UNCHANGED vars
    BY <1>2 DEF World, Publish, Vanish, SetPin, ReloadNext, ReloadStart, ReloadApply, ReloadReset,
                DeleteRead, DeleteCommit, DeleteDbError, Restart, vars
  <2>2. ~Crash
    <3>1. Crash => task'[t].pc = "idle"
      BY DEF Crash, IdleTask
    <3> QED
      BY <1>1, <3>1
  <2>3. \A c \in Check : ~CheckNext(c)
    BY <1>1, <1>2, CheckLeaves
  <2>4. \A u \in Task : u # t => ~TaskNext(u)
    BY <1>1, OneTask
  <2> QED
    BY <2>1, <2>2, <2>3, <2>4 DEF Next
<1>4. ~NewNext(t) /\ ~NewFinish(t) /\ ~PinNext(t) /\ ~PinFinish(t) /\ ~Built(t) /\ ~TaskRead(t)
      /\ ~TaskCommit(t) /\ ~TaskConflict(t) /\ ~TaskDbError(t) /\ ~SendOk(t) /\ ~SendFailed(t)
      /\ ~SendLost(t)
  BY <1>1 DEF NewNext, NewFinish, PinNext, PinFinish, Built, TaskRead, TaskCommit, TaskConflict,
              TaskDbError, SendOk, SendFailed, SendLost
<1>5. ~SendEnd(t)
  <2>1. Goto(t, "stop") => task'[t].pc = "stop"
    BY GotoFields
  <2>2. ASSUME NEW left, Settle(t, left) PROVE task'[t].pc = "persist"
    <3>1. PICK r : r = [task[t] EXCEPT !.got = IF left = {} THEN @ \cup {task[t].key[1]} ELSE @]
      OBVIOUS
    <3>2. DOMAIN r = DOMAIN task[t] /\ "pc" \in DOMAIN r
      BY <1>0, <3>1 DEF TaskRec
    <3>3. PICK then : task' = [task EXCEPT ![t] = [r EXCEPT !.pc = "persist", !.then = then]]
      BY <2>2, <3>1 DEF Settle, Persist
    <3> QED
      BY <1>0, <3>2, <3>3
  <2> QED
    BY <1>1, <2>1, <2>2 DEF SendEnd
<1>6. \A y \in Target : ~SendSkip(t, y) /\ ~SendResume(t, y)
  BY <1>1, SkipFields
<1>7. PICK y \in Target : SendStart(t, y)
  <2>1. \E y \in Target : SendSkip(t, y) \/ SendResume(t, y) \/ SendStart(t, y)
    BY <1>3, <1>4, <1>5 DEF TaskNext
  <2> QED
    BY <1>6, <2>1
<1>8. task'[t].to = y /\ task'[t].key = task[t].key
  BY <1>7, StartFields DEF KeepsBatch
<1> QED
  BY <1>1, <1>7, <1>8

\* A task that sends a new dynamic works for the present life.
LEMMA StartsLive ==
  ASSUME TypeOK, CursorInv, [Next]_vars, NEW t \in Task, NEW i \in Id, NEW x \in Target,
         Starts(t, i, x)
  PROVE  /\ Work(t) /\ ~task[t].pinned /\ NewTask(t) /\ task[t].pc = "send"
         /\ task[t].key = New(i) /\ task[t].key[1] = i
<1>1. SendStart(t, x) /\ task[t].key = New(i)
  BY Starting
<1>2. task[t].pc = "send" /\ Work(t)
  BY <1>1 DEF SendStart, Active, LiveTask, Valid, Work
<1>3. New(i)[1] = i /\ ~New(i)[2]
  BY NewKey
<1> QED
  BY <1>1, <1>2, <1>3 DEF CursorInv, TaskInv, KeyOK, Busy

\* A target sees a dynamic for the first time only when every earlier one is settled
\* for everybody: the batch goes in order, leaves nothing out, and stops at the first
\* failure (_deliver_new_dynamics).
THEOREM OrderCorrect == Spec => InOrder
<1> DEFINE Ordered == \A t \in Task, i \in Id, x \in Target :
                        Starts(t, i, x) /\ sent[New(i)][x] = 0 =>
                          \A j \in feed : base < j /\ j < i => owed[New(j)] = {}
<1>1. TypeOK /\ CursorInv /\ [Next]_vars => Ordered
  <2> SUFFICES ASSUME TypeOK, CursorInv, [Next]_vars, NEW t \in Task, NEW i \in Id,
                      NEW x \in Target, Starts(t, i, x), NEW j \in feed, base < j, j < i
               PROVE  owed[New(j)] = {}
    OBVIOUS
  <2>1. /\ NewTask(t) /\ task[t].pc = "send" /\ task[t].key[1] = i
        /\ LastOK(mem.last) /\ feed \subseteq Nat /\ mem.last \in Nat /\ i \in Nat
    BY ParamAssumption, StartsLive DEF CursorInv, MemOK, TypeOK, State, Id
  <2>2. CASE j <= mem.last
    BY <2>1, <2>2 DEF LastOK
  <2>3. CASE mem.last < j
    <3>1. j \in Reached(t)
      BY <2>1, <2>3 DEF NewTask, InBatch, Reached
    <3>2. j \notin task[t].ids
      BY <2>1 DEF NewTask, InOrderOf
    <3>3. j \in task[t].got
      BY <2>1, <3>1, <3>2 DEF Reached
    <3> QED
      BY <2>1, <3>3 DEF NewTask, Pushed, Ending
  <2> QED
    BY <2>1, <2>2, <2>3
<1>2. Spec => []CursorInv
  BY InitCursor, CursorStep, TypeCorrect, PTL DEF Spec
<1>3. Spec => [][Ordered]_vars
  BY <1>1, <1>2, TypeCorrect, PTL DEF Spec
<1> QED
  BY <1>3 DEF InOrder

-----------------------------------------------------------------------------
(* Pushed once, and no history.                                              *)
(*                                                                           *)
(* AtMostOncePerLife: a dynamic that may still be pushed to a target was not *)
(* sent to it, or only by a former process or with a lost receipt, and of    *)
(* all tasks at most one is sending it (OnceOf).  Hypothesis: nothing leaves *)
(* the list, or the uid is not enabled a second time.  Enabled again after   *)
(* its newest dynamic was deleted, a uid takes an older baseline than what a *)
(* check that is late still shows.                                           *)
(*                                                                           *)
(* NoHistory: what a life of the uid may still push was published after the  *)
(* uid was enabled, and while it is disabled no life of it is on its way     *)
(* (HistInv).  Hypotheses: nothing leaves the list, as above, and the        *)
(* process lives; a restart may find a row of a former life.                 *)

-----------------------------------------------------------------------------
(* The inductive invariant for pushes *)

\* Pushes of a dynamic that another one may follow.
Bound       == spent.crash + spent.lost
Flies(t, i) == task[t].pc = "inflight" /\ task[t].key = New(i)
Free(i)     == /\ \A x \in Target : sent[New(i)][x] <= Bound
               /\ \A t \in Task : ~Flies(t, i)

\* A task that pushes i to everybody may come to be: after a crash, when i is published,
\* when the cursor is behind it, or a baseline may be taken that is.
Unpushed(i) ==
  \/ ~up \/ published < i
  \/ mem.init /\ mem.last < i /\ mem.pend[New(i)] = None
  \/ ~mem.init /\ \E c \in Check : Fetch(c) /\ i \notin chk[c].dyn
  \/ MaxReload <= 1 /\ ~mem.init /\ targets # {}

OnceOf(i) ==
  /\ Unpushed(i) => Free(i)
  /\ \A x \in Target : sent[New(i)][x] <= 1 + Bound
  /\ mem.pend[New(i)] # None =>
       /\ \A x \in Target \ mem.pend[New(i)].done : sent[New(i)][x] <= Bound
       /\ \A t \in Task : Flies(t, i) => task[t].epoch = epoch
  /\ \A t \in Task : Flies(t, i) => /\ sent[New(i)][task[t].to] <= Bound
                                    /\ \A u \in Task : Flies(u, i) => u = t

\* The uid is enabled only once, or nothing leaves the list.
WorldInv ==
  /\ feed \subseteq 1 .. published /\ (MaxVanish = 0 => feed = 1 .. published)
  /\ reload.pc # "idle" => up
  /\ spent.reload = 0 => cfg = Target
  /\ MaxReload <= 1 /\ Target # {} => reload.pc # "reset" /\ (up /\ targets = {} => cfg = {})

OnceInv == WorldInv /\ \A i \in Id : OnceOf(i)

-----------------------------------------------------------------------------
(* Steps that send nothing *)

\* Nothing of i is sent, or comes to be: what is on its way may end.
Unsent(i) ==
  /\ sent'[New(i)] = sent[New(i)] /\ Bound <= Bound'
  /\ \A t \in Task : Flies(t, i)' =>
       Flies(t, i) /\ task'[t].to = task[t].to /\ task'[t].epoch = task[t].epoch

\* So it is with the snapshot of i: it is what it was, or new.
Quiet(i) ==
  /\ Unsent(i)
  /\ Unpushed(i)' => Unpushed(i) \/ Free(i)
  /\ mem'.pend[New(i)] # None =>
       \/ Free(i)
       \/ /\ mem.pend[New(i)] # None /\ mem'.pend[New(i)].done = mem.pend[New(i)].done
          /\ epoch' = epoch

\* The counts are naturals.
LEMMA CountIs ==
  ASSUME TypeOK
  PROVE  /\ Bound \in Nat
         /\ \A i \in Id : New(i) \in Key /\ \A x \in Target : sent[New(i)][x] \in Nat
<1>1. spent.crash \in Nat /\ spent.lost \in Nat
  BY DEF TypeOK
<1>2. \A i \in Id : New(i) \in Key
  BY NewKey
<1> QED
  BY <1>1, <1>2 DEF Bound, TypeOK

\* The same after a step.
LEMMA CountLater == TypeOK' =>
  /\ Bound' \in Nat
  /\ \A i \in Id : New(i) \in Key /\ \A x \in Target : sent'[New(i)][x] \in Nat
<1>1. TypeOK => /\ Bound \in Nat
                /\ \A i \in Id : New(i) \in Key /\ \A x \in Target : sent[New(i)][x] \in Nat
  BY CountIs
<1>2. (TypeOK => /\ Bound \in Nat
                 /\ \A i \in Id : New(i) \in Key /\ \A x \in Target : sent[New(i)][x] \in Nat)'
  BY <1>1, PTL
<1> QED
  BY <1>2 DEF New

\* A message that is on its way has a target.
LEMMA FlyingTo == ASSUME TypeOK, NEW t \in Task, task[t].pc = "inflight" PROVE task[t].to \in Target
BY DEF TypeOK, TasksOK, TaskRec

\* A dynamic that was free stays free.
LEMMA FreeStays ==
  ASSUME TypeOK, TypeOK', NEW i \in Id, Free(i), Unsent(i) PROVE Free(i)'
<1>1. /\ Bound \in Nat /\ Bound' \in Nat /\ Bound <= Bound' /\ sent'[New(i)] = sent[New(i)]
      /\ \A x \in Target : sent[New(i)][x] \in Nat /\ sent[New(i)][x] <= Bound
  BY CountIs, CountLater DEF Unsent, Free
<1>2. \A x \in Target : sent'[New(i)][x] <= Bound'
  BY <1>1
<1>3. \A t \in Task : ~Flies(t, i)'
  BY DEF Unsent, Free
<1> QED
  BY <1>2, <1>3 DEF Free, New

\* A quiet step.
LEMMA QuietOnce ==
  ASSUME TypeOK, TypeOK', NEW i \in Id, OnceOf(i), Quiet(i) PROVE OnceOf(i)'
<1>1. /\ Bound \in Nat /\ Bound' \in Nat /\ Bound <= Bound' /\ sent'[New(i)] = sent[New(i)]
      /\ \A x \in Target : sent[New(i)][x] \in Nat
      /\ Unsent(i)
  BY CountIs, CountLater DEF Quiet, Unsent
<1>2. Unpushed(i)' => Free(i)'
  BY <1>1, FreeStays DEF Quiet, OnceOf
<1>3. \A x \in Target : sent'[New(i)][x] <= 1 + Bound'
  BY <1>1 DEF OnceOf
<1>4. ASSUME mem'.pend[New(i)] # None
      PROVE  /\ \A x \in Target \ mem'.pend[New(i)].done : sent'[New(i)][x] <= Bound'
             /\ \A t \in Task : Flies(t, i)' => task'[t].epoch = epoch'
  <2>1. CASE Free(i)
    <3>1. Free(i)'
      BY <1>1, <2>1, FreeStays
    <3> QED
      BY <3>1 DEF Free, New
  <2>2. CASE /\ mem.pend[New(i)] # None /\ mem'.pend[New(i)].done = mem.pend[New(i)].done
             /\ epoch' = epoch
    BY <1>1, <2>2 DEF OnceOf, Unsent
  <2> QED
    BY <1>4, <2>1, <2>2 DEF Quiet
<1>5. ASSUME NEW t \in Task, Flies(t, i)'
      PROVE  /\ sent'[New(i)][task'[t].to] <= Bound'
             /\ \A u \in Task : Flies(u, i)' => u = t
  <2>1. Flies(t, i) /\ task'[t].to = task[t].to /\ task[t].to \in Target
    BY <1>1, <1>5, FlyingTo DEF Unsent, Flies
  <2>2. sent[New(i)][task[t].to] <= Bound
    BY <2>1 DEF OnceOf
  <2> QED
    BY <1>1, <2>1, <2>2 DEF OnceOf, Unsent
<1> QED
  BY <1>2, <1>3, <1>4, <1>5 DEF OnceOf, New

-----------------------------------------------------------------------------
(* Steps of a task *)

\* What a task leaves alone.
Around == UNCHANGED <<feed, published, cfg, up, targets, gen, epoch, chk, reload>>

LEMMA TaskAround ==
  ASSUME TypeOK, NEW t \in Task, TaskNext(t)
  PROVE  /\ task[t].pc # "idle" /\ Around
         /\ Bound <= Bound' /\ spent'.reload = spent.reload
<1>1. task[t].pc # "idle" /\ Around
  BY DEF TaskNext, NewNext, NewFinish, PinNext, PinFinish, Built, TaskRead, TaskCommit,
         TaskConflict, TaskDbError, SendSkip, SendResume, SendStart, SendOk, SendFailed, SendLost,
         SendEnd, Around, world, db, proc
<1>2. Bound <= Bound' /\ spent'.reload = spent.reload
  <2>0. spent.crash \in Nat /\ spent.lost \in Nat
        /\ spent \in [pin: Nat, vanish: Nat, reload: Nat, crash: Nat, fail: Nat, lost: Nat, db: Nat]
    BY DEF TypeOK
  <2>1. CASE UNCHANGED spent
    BY <2>0, <2>1 DEF Bound
  <2>2. CASE TaskDbError(t) \/ SendFailed(t) \/ SendLost(t)
    <3>0. PICK s : s = spent
      OBVIOUS
    <3>1. CASE TaskDbError(t) \/ SendFailed(t)
      <4>1. spent' = [s EXCEPT !.db = @ + 1] \/ spent' = [s EXCEPT !.fail = @ + 1]
        BY <3>0, <3>1 DEF TaskDbError, SendFailed
      <4> QED
        BY <2>0, <3>0, <4>1 DEF Bound
    <3>2. CASE SendLost(t)
      <4>1. spent' = [s EXCEPT !.fail = @ + 1, !.lost = @ + 1]
        BY <3>0, <3>2 DEF SendLost
      <4>2. spent'.crash = s.crash /\ spent'.lost = s.lost + 1 /\ spent'.reload = s.reload
        BY <2>0, <3>0, <4>1
      <4> QED
        BY <2>0, <3>0, <4>2 DEF Bound
    <3> QED
      BY <2>2, <3>1, <3>2
  <2>3. CASE ~(TaskDbError(t) \/ SendFailed(t) \/ SendLost(t))
    <3>1. UNCHANGED spent
      BY <2>3 DEF TaskNext, NewNext, NewFinish, PinNext, PinFinish, Built, TaskRead, TaskCommit,
                  TaskConflict, SendSkip, SendResume, SendStart, SendOk, SendEnd, hist
    <3> QED
      BY <2>1, <3>1
  <2> QED
    BY <2>2, <2>3
<1> QED
  BY <1>1, <1>2

\* After which of its steps a message of the task is on its way.
LEMMA FliesAfter ==
  ASSUME TypeOK, NEW t \in Task, TaskNext(t), task'[t].pc = "inflight"
  PROVE  \E x \in Target : SendStart(t, x)
<1>0. task \in [Task -> TaskRec] /\ task[t] \in TaskRec
  BY DEF TypeOK, TasksOK
<1>1. ~End(t)
  <2>1. End(t) => task'[t] = IdleTask
    BY DEF End, Ended
  <2>2. IdleTask.pc = "idle"
    BY DEF IdleTask
  <2> QED
    BY <2>1, <2>2
<1>2. \A pc \in {"next", "send", "stop"} : ~Goto(t, pc)
  BY GotoFields
<1>3. ASSUME NEW r \in TaskRec, NEW then PROVE ~Persist(t, r, then)
  BY <1>3, PersistFields
<1>4. ~NextTarget(t)
  BY NextTargetFields
<1>5. ASSUME NEW r, DOMAIN r = DOMAIN task[t], NEW then PROVE ~Persist(t, r, then)
  <2>1. "pc" \in DOMAIN r
    BY <1>0, <1>5 DEF TaskRec
  <2> QED
    BY <1>0, <2>1 DEF Persist
<1>6. ASSUME NEW k, NEW ids, NEW p PROVE ~Prepare(t, k, ids, p) /\ ~Offer(t, k, ids)
  <2>1. ASSUME NEW q PROVE ~Prepare(t, k, ids, q)
    <3>1. PICK r : r = [task[t] EXCEPT !.key = k, !.ids = ids, !.queue = q.left \cap targets,
                          !.failed = {},
                          !.got = IF q.left \cap targets = {} THEN @ \cup {k[1]} ELSE @]
      OBVIOUS
    <3>2. DOMAIN r = DOMAIN task[t]
      BY <3>1
    <3>3. \A then : ~Persist(t, r, then)
      BY <1>5, <3>2
    <3> QED
      BY <3>1, <3>3 DEF Prepare
  <2>2. task' # [task EXCEPT ![t] = [task[t] EXCEPT !.pc = "build", !.key = k, !.ids = ids]]
    BY <1>0, ZenonT(30) DEF TaskRec
  <2> QED
    BY <2>1, <2>2 DEF Offer
<1>7. ~NewNext(t) /\ ~PinNext(t)
  BY <1>1, <1>6 DEF NewNext, PinNext
<1>8. ~NewFinish(t) /\ ~PinFinish(t)
  BY <1>0, <1>1, <1>3 DEF NewFinish, PinFinish
<1>9. ~Built(t)
  BY <1>2, <1>6 DEF Built
<1>10. ~TaskRead(t) /\ ~TaskCommit(t)
  <2>1. task[t].then \in {"next", "send", "stop", "end"}
    BY <1>0 DEF TaskRec
  <2>2. ~(TaskRead(t) /\ LiveTask(t))
    BY ReadFields
  <2> QED
    BY <1>1, <1>2, <2>1, <2>2 DEF TaskRead, TaskCommit
<1>11. ~TaskConflict(t) /\ ~TaskDbError(t) /\ ~SendFailed(t) /\ ~SendLost(t)
  BY <1>1, <1>2, <1>4 DEF TaskConflict, TaskDbError, SendFailed, SendLost, Raised
<1>12. ~SendOk(t)
  BY <1>0, <1>3 DEF SendOk
<1>13. ~SendEnd(t)
  <2>1. ASSUME NEW left PROVE ~Settle(t, left)
    <3>1. PICK r : r = [task[t] EXCEPT !.got = IF left = {} THEN @ \cup {task[t].key[1]} ELSE @]
      OBVIOUS
    <3>2. \A then : ~Persist(t, r, then)
      BY <1>5, <3>1
    <3> QED
      BY <3>1, <3>2 DEF Settle
  <2> QED
    BY <1>2, <2>1 DEF SendEnd
<1>14. \A y \in Target : ~SendSkip(t, y) /\ ~SendResume(t, y)
  BY SkipFields
<1> QED
  BY <1>7, <1>8, <1>9, <1>10, <1>11, <1>12, <1>13, <1>14 DEF TaskNext

\* Nothing new is on its way.
LEMMA TaskUnsent ==
  ASSUME TypeOK, NEW t \in Task, TaskNext(t), NEW i \in Id, sent'[New(i)] = sent[New(i)],
         \A x \in Target : SendStart(t, x) => task[t].key # New(i)
  PROVE  Unsent(i)
<1>1. Bound <= Bound'
  BY TaskAround
<1>2. ASSUME NEW u \in Task, Flies(u, i)'
      PROVE  Flies(u, i) /\ task'[u].to = task[u].to /\ task'[u].epoch = task[u].epoch
  <2>1. task'[u].pc = "inflight" /\ task'[u].key = New(i)
    BY <1>2 DEF Flies, New
  <2>2. u # t
    <3>1. \A x \in Target : SendStart(t, x) => task'[t].key = task[t].key
      BY StartFields DEF KeepsBatch
    <3> QED
      BY <2>1, <3>1, FliesAfter
  <2> QED
    BY <2>1, <2>2, OneTask DEF Flies
<1> QED
  BY <1>1, <1>2 DEF Unsent

\* The cursor only moves on, over dynamics that have lost their snapshot.
Onward(i) ==
  /\ mem'.init = mem.init /\ mem.last <= mem'.last
  /\ mem'.pend[New(i)] = None => mem.pend[New(i)] = None \/ i <= mem'.last

\* A task that does so makes nothing unpushed.
LEMMA TaskUnpushed ==
  ASSUME TypeOK, TypeOK', Around, NEW i \in Id, Onward(i), Unpushed(i)' PROVE Unpushed(i)
<1>1. /\ mem.last \in Nat /\ mem'.last \in Nat /\ i \in Nat
  BY ParamAssumption DEF TypeOK, State, Id
<1>2. /\ UNCHANGED <<up, published, targets, gen, chk>>
      /\ mem'.init = mem.init /\ mem.last <= mem'.last
  BY DEF Around, Onward
<1>3. CASE mem'.init /\ mem'.last < i /\ mem'.pend[New(i)] = None
  BY <1>1, <1>2, <1>3 DEF Onward, Unpushed
<1>4. CASE ~mem'.init /\ \E c \in Check : Fetch(c)' /\ i \notin chk'[c].dyn
  BY <1>2, <1>4 DEF Unpushed, Fetch
<1> QED
  BY <1>2, <1>3, <1>4 DEF Unpushed, New

\* A step of a task that is quiet for i.
LEMMA TaskQuiet ==
  ASSUME TypeOK, TypeOK', NEW t \in Task, TaskNext(t), NEW i \in Id, OnceOf(i),
         sent'[New(i)] = sent[New(i)], \A x \in Target : SendStart(t, x) => task[t].key # New(i),
         Onward(i),
         mem'.pend[New(i)] # None =>
           \/ Free(i)
           \/ mem.pend[New(i)] # None /\ mem'.pend[New(i)].done = mem.pend[New(i)].done
  PROVE  OnceOf(i)'
<1>1. Unsent(i) /\ Around
  BY TaskUnsent, TaskAround
<1>2. Unpushed(i)' => Unpushed(i)
  BY <1>1, TaskUnpushed
<1>3. epoch' = epoch
  BY <1>1 DEF Around
<1>4. Quiet(i)
  BY <1>1, <1>2, <1>3 DEF Quiet
<1> QED
  BY <1>4, QuietOnce

\* One that leaves memory as it is.
LEMMA TaskIdleMemory ==
  ASSUME TypeOK, TypeOK', NEW t \in Task, TaskNext(t), NEW i \in Id, OnceOf(i),
         sent'[New(i)] = sent[New(i)], \A x \in Target : SendStart(t, x) => task[t].key # New(i),
         mem' = mem
  PROVE  OnceOf(i)'
<1>1. mem.last \in Nat
  BY ParamAssumption DEF TypeOK, State
<1>2. Onward(i)
  BY <1>1 DEF Onward
<1> QED
  BY <1>2, TaskQuiet

\* A push is prepared.
LEMMA PrepareOnce ==
  ASSUME TypeOK, TypeOK', NEW t \in Task, TaskNext(t), NEW i \in Id, OnceOf(i),
         sent' = sent, task[t].pc # "send", NEW k \in Key, NEW ids, NEW p \in Pending,
         Prepare(t, k, ids, p), k = New(i) => Free(i) \/ p = mem.pend[k]
  PROVE  OnceOf(i)'
<1>1. PICK q : q = [p EXCEPT !.left = p.left \cap targets] /\ mem' = [mem EXCEPT !.pend[k] = q]
  BY DEF Prepare
<1>2. q \in Pending /\ q.done = p.done
  BY <1>1 DEF Pending
<1>3. /\ mem'.init = mem.init /\ mem'.last = mem.last /\ mem'.pend[k] = q /\ q # None
      /\ \A l \in Key : l # k => mem'.pend[l] = mem.pend[l]
  BY <1>1, <1>2, PutSnapshot
<1>4. New(i) \in Key /\ mem.last \in Nat /\ p # None
  BY ParamAssumption, NoneAssumption, NewKey DEF TypeOK, State
<1>5. Onward(i)
  BY <1>3, <1>4 DEF Onward
<1>6. mem'.pend[New(i)] # None =>
        \/ Free(i)
        \/ mem.pend[New(i)] # None /\ mem'.pend[New(i)].done = mem.pend[New(i)].done
  BY <1>2, <1>3, <1>4
<1>7. \A x \in Target : ~SendStart(t, x)
  BY DEF SendStart
<1> QED
  BY <1>5, <1>6, <1>7, TaskQuiet

\* The next push is taken up.
LEMMA OfferOnce ==
  ASSUME TypeOK, TypeOK', NEW t \in Task, TaskNext(t), NEW i \in Id, OnceOf(i),
         sent' = sent, task[t].pc # "send", NEW k \in Key, NEW ids, Offer(t, k, ids)
  PROVE  OnceOf(i)'
<1>1. CASE mem.pend[k] = None
  BY <1>1, TaskIdleMemory DEF Offer, SendStart
<1>2. CASE mem.pend[k] # None
  <2>1. mem.pend[k] \in Pending
    BY <1>2 DEF TypeOK, State
  <2>2. Prepare(t, k, ids, mem.pend[k])
    BY <1>2 DEF Offer
  <2>3. PICK p \in Pending : p = mem.pend[k] /\ Prepare(t, k, ids, p)
    BY <2>1, <2>2
  <2> QED
    BY <2>3, PrepareOnce
<1> QED
  BY <1>1, <1>2

\* The steps of a task outside the sender.
LEMMA DeliverOnce ==
  ASSUME TypeOK, TypeOK', CursorInv, NEW t \in Task, NEW i \in Id, OnceOf(i),
         \/ NewNext(t) \/ NewFinish(t) \/ PinNext(t) \/ PinFinish(t) \/ Built(t)
         \/ TaskRead(t) \/ TaskCommit(t) \/ TaskConflict(t) \/ TaskDbError(t)
  PROVE  OnceOf(i)'
<1>0. /\ TaskNext(t) /\ sent' = sent /\ (\A x \in Target : ~SendStart(t, x))
      /\ task[t].pc # "send" /\ task[t].pc # "idle"
      /\ mem \in State /\ mem.last \in Nat /\ task[t] \in TaskRec /\ TaskInv(t)
  <2>1. TaskNext(t) /\ sent' = sent /\ task[t].pc # "send" /\ task[t].pc # "idle"
    BY DEF TaskNext, NewNext, NewFinish, PinNext, PinFinish, Built, TaskRead, TaskCommit,
           TaskConflict, TaskDbError, hist
  <2>2. mem.last \in Nat /\ mem \in State /\ task[t] \in TaskRec /\ TaskInv(t)
    BY ParamAssumption DEF TypeOK, State, TasksOK, CursorInv
  <2> QED
    BY <2>1, <2>2 DEF SendStart
<1>1. CASE mem' = mem
  BY <1>0, <1>1, TaskIdleMemory
<1>2. CASE NewNext(t)
  <2>1. PICK j \in Id : Offer(t, New(j), {m \in task[t].ids : m > j})
    BY <1>2 DEF NewNext
  <2>2. PICK k, ids : k \in Key /\ Offer(t, k, ids)
    BY <2>1, NewKey
  <2> QED
    BY <1>0, <2>2, OfferOnce
<1>3. CASE NewFinish(t) /\ mem' # mem
  <2>1. PICK last \in 0 .. MaxId :
          /\ Greatest(last, task[t].got \cup {mem.last})
          /\ mem' = [mem EXCEPT !.last = last,
               !.pend = [k \in Key |-> IF ~k[2] /\ k[1] \in task[t].got THEN None ELSE @[k]]]
    BY <1>3 DEF NewFinish
  <2>2. /\ mem'.init = mem.init /\ mem'.last = last
        /\ \A k \in Key : mem'.pend[k] = IF ~k[2] /\ k[1] \in task[t].got THEN None ELSE mem.pend[k]
    BY <1>0, <2>1 DEF State
  <2>3. mem.last <= last /\ \A g \in task[t].got : g <= last
    BY <1>0, <2>1 DEF Greatest
  <2>4. New(i) \in Key /\ New(i)[1] = i
    BY NewKey
  <2>5. Onward(i)
    BY <2>2, <2>3, <2>4 DEF Onward
  <2> QED
    BY <1>0, <2>2, <2>4, <2>5, TaskQuiet
<1>4. CASE PinNext(t) /\ mem' # mem
  <2>1. PICK j \in task[t].ids : Offer(t, Pinned(j), task[t].ids)
    BY <1>4 DEF PinNext
  <2>2. Pinned(j) \in Key
    BY <1>0 DEF TaskRec, Pinned, Key
  <2>3. PICK k, ids : k \in Key /\ Offer(t, k, ids)
    BY <2>1, <2>2
  <2> QED
    BY <1>0, <2>3, OfferOnce
<1>5. CASE PinFinish(t) /\ mem' # mem
  <2>1. /\ task[t].pinned /\ task[t].pc = "next" /\ task[t].got # {}
        /\ mem' = [mem EXCEPT !.pin = task[t].key[1], !.pend[task[t].key] = None]
    BY <1>5 DEF PinFinish
  <2>2. task[t].key[2]
    BY <1>0, <2>1 DEF TaskInv, KeyOK, Busy
  <2>3. New(i) \in Key /\ ~New(i)[2]
    BY NewKey
  <2>4. New(i) # task[t].key
    BY <2>2, <2>3
  <2>5. mem'.init = mem.init /\ mem'.last = mem.last /\ mem'.pend[New(i)] = mem.pend[New(i)]
    BY <1>0, <2>1, <2>3, <2>4 DEF State
  <2>6. Onward(i)
    BY <1>0, <2>5 DEF Onward
  <2> QED
    BY <1>0, <2>5, <2>6, TaskQuiet
<1>6. CASE Built(t) /\ mem' # mem
  <2>1. /\ task[t].pc = "build" /\ LiveTask(t)
        /\ Prepare(t, task[t].key, task[t].ids, [left |-> targets, done |-> {}])
    BY <1>6 DEF Built
  <2>2. PICK k, p : /\ k = task[t].key /\ p = [left |-> targets, done |-> {}]
                    /\ Prepare(t, k, task[t].ids, p)
    BY <2>1
  <2>3. p \in Pending
    BY <2>2 DEF Pending, TypeOK
  <2>4. Work(t) /\ LifeOK(t) /\ KeyOK(t) /\ up /\ mem.init
    BY <1>0, <2>1 DEF TaskInv, LiveTask, Valid, Work, LifeOK
  <2>5. CASE task[t].pinned
    <3>1. k[2]
      BY <2>1, <2>2, <2>4, <2>5 DEF KeyOK, Busy
    <3>2. k \in Key /\ k # New(i)
      <4>1. task[t].key \in KeyOrNone
        BY TaskRecord
      <4>2. k \in Key
        <5>1. <<0, FALSE>>[2] = FALSE
          OBVIOUS
        <5> QED
          BY <2>2, <3>1, <4>1, <5>1 DEF KeyOrNone
      <4> QED
        BY <3>1, <4>2, NewKey
    <3> QED
      BY <1>0, <2>2, <2>3, <3>2, PrepareOnce
  <2>6. CASE ~task[t].pinned
    <3>1. mem.last < k[1] /\ mem.pend[k] = None
      BY <1>0, <2>1, <2>2, <2>4, <2>6 DEF TaskInv, NewTask, Building
    <3>2. k \in KeyOrNone /\ k[1] \in 0 .. MaxId
      BY <2>2, TaskRecord, KeyType
    <3>3. k[1] \in Id /\ k \in Key
      BY <1>0, <3>1, <3>2, NewKey DEF Id
    <3>4. k = New(i) => Free(i)
      <4>1. New(i)[1] = i
        BY NewKey
      <4>2. k = New(i) => Unpushed(i)
        BY <2>4, <3>1, <4>1 DEF Unpushed
      <4> QED
        BY <4>2 DEF OnceOf
    <3> QED
      BY <1>0, <2>2, <2>3, <3>3, <3>4, PrepareOnce
  <2> QED
    BY <2>5, <2>6
<1>7. CASE TaskRead(t) \/ TaskCommit(t) \/ TaskConflict(t) \/ TaskDbError(t)
  BY <1>1, <1>7 DEF TaskRead, TaskCommit, TaskConflict, TaskDbError
<1> QED
  BY <1>1, <1>2, <1>3, <1>4, <1>5, <1>6, <1>7

-----------------------------------------------------------------------------
(* The sender *)

\* A task that works for the present life, and pushes i to everybody.
LEMMA SenderOf ==
  ASSUME TypeOK, CursorInv, NEW t \in Task, NEW i \in Id, task[t].key = New(i),
         task[t].pc \in {"send", "inflight"}
  PROVE  ~task[t].pinned /\ LifeOK(t) /\ Busy(t) /\ (Work(t) => NewTask(t))
<1>1. New(i)[2] = FALSE
  BY DEF New
<1>2. TaskInv(t)
  BY DEF CursorInv
<1>3. ~task[t].pinned
  BY <1>1, <1>2 DEF TaskInv, KeyOK, Busy
<1> QED
  BY <1>2, <1>3 DEF TaskInv, Busy

\* The message leaves.
LEMMA StartOnce ==
  ASSUME TypeOK, TypeOK', CursorInv, NEW t \in Task, NEW x \in Target, SendStart(t, x),
         NEW i \in Id, OnceOf(i), task[t].key = New(i)
  PROVE  OnceOf(i)'
<1>1. /\ task[t].pc = "send" /\ mem.pend[New(i)] # None /\ LiveTask(t)
      /\ x \notin mem.pend[New(i)].done
      /\ mem' = mem /\ sent' = sent /\ spent' = spent
      /\ UNCHANGED <<feed, published, up, targets, gen, epoch, chk>>
  BY DEF SendStart, Active, world, db, proc, hist
<1>2. /\ Work(t) /\ NewTask(t) /\ LifeOK(t) /\ Busy(t)
      /\ up /\ mem.init /\ task[t].epoch = epoch /\ task[t].ahead = {}
  BY <1>1, SenderOf DEF LiveTask, Valid, Work, LifeOK
<1>3. i \in Nat /\ published \in Nat /\ i <= published
  <2>1. i \in Reached(t)
    BY NewKey DEF Reached
  <2> QED
    BY <1>2, <2>1, ParamAssumption DEF NewTask, TypeOK
<1>4. ~Unpushed(i)
  BY <1>1, <1>2, <1>3 DEF Unpushed
<1>5. ~Unpushed(i)'
  BY <1>1, <1>4 DEF Unpushed, Fetch, New
<1>6. KeepsBatch(t) /\ task'[t].pc = "inflight" /\ task'[t].to = x
  BY StartFields
<1>7. ASSUME NEW u \in Task, u # t PROVE ~Flies(u, i) /\ ~Flies(u, i)'
  <2>1. ~Flies(u, i)
    <3> SUFFICES ASSUME Flies(u, i) PROVE FALSE
      OBVIOUS
    <3>1. task[u].epoch = epoch /\ task[u].pc = "inflight"
      BY <1>1 DEF OnceOf, Flies
    <3>2. LifeOK(u) /\ Busy(u)
      BY <3>1, SenderOf DEF Flies
    <3>3. t \in task[u].ahead \/ u \in task[t].ahead
      BY <1>1, <1>2, <1>7, <3>1 DEF CursorInv, Queued
    <3> QED
      BY <1>2, <3>2, <3>3 DEF LifeOK
  <2>2. TaskNext(t)
    BY DEF TaskNext
  <2>3. task'[u].pc = task[u].pc /\ task'[u].key = task[u].key
    BY <1>7, <2>2, OneTask
  <2> QED
    BY <2>1, <2>3 DEF Flies, New
<1>8. sent[New(i)][x] <= Bound /\ Bound' = Bound
  BY <1>1 DEF OnceOf, Bound
<1>9. \A u \in Task : Flies(u, i)' => u = t /\ task'[u].to = x /\ task'[u].epoch = epoch'
  BY <1>1, <1>2, <1>6, <1>7 DEF KeepsBatch, Keeps
<1> QED
  BY <1>1, <1>5, <1>8, <1>9 DEF OnceOf, New

\* The message was delivered: the count of its target goes up, and it has left.
LEMMA Delivered ==
  ASSUME TypeOK, TypeOK', NEW t \in Task, NEW i \in Id, OnceOf(i), TaskNext(t),
         Flies(t, i), task'[t].pc # "inflight",
         sent' = [sent EXCEPT ![task[t].key][task[t].to] = @ + 1],
         mem'.init = mem.init, mem'.last = mem.last,
         mem'.pend[New(i)] = None <=> mem.pend[New(i)] = None,
         \/ Bound' = Bound + 1 /\ mem' = mem
         \/ /\ Bound' = Bound
            /\ mem.pend[New(i)] # None =>
                 mem'.pend[New(i)].done = mem.pend[New(i)].done \cup {task[t].to}
  PROVE  OnceOf(i)'
<1>1. /\ Bound \in Nat /\ Bound' \in Nat /\ New(i) \in Key
      /\ \A x \in Target : sent[New(i)][x] \in Nat
      /\ task[t].to \in Target /\ task[t].key = New(i)
  BY CountIs, CountLater, FlyingTo DEF Flies
<1>2. PICK x \in Target : x = task[t].to
  BY <1>1
<1>3. /\ sent'[New(i)][x] = sent[New(i)][x] + 1
      /\ \A y \in Target \ {x} : sent'[New(i)][y] = sent[New(i)][y]
  <2>1. sent \in [Key -> [Target -> Nat]]
    BY DEF TypeOK
  <2>2. sent' = [sent EXCEPT ![New(i)] = [sent[New(i)] EXCEPT ![x] = @ + 1]]
    BY <1>1, <1>2
  <2>3. sent[New(i)] \in [Target -> Nat]
    BY <1>1, <2>1
  <2>4. sent'[New(i)] = [sent[New(i)] EXCEPT ![x] = @ + 1]
    BY <1>1, <2>1, <2>2
  <2> QED
    BY <2>3, <2>4
<1>4. sent[New(i)][x] <= Bound /\ \A u \in Task : Flies(u, i) => u = t
  BY <1>2 DEF OnceOf
<1>5. \A u \in Task : ~Flies(u, i)'
  <2> SUFFICES ASSUME NEW u \in Task, Flies(u, i)' PROVE FALSE
    OBVIOUS
  <2>1. u # t
    BY DEF Flies
  <2>2. Flies(u, i)
    BY <2>1, OneTask DEF Flies, New
  <2> QED
    BY <1>4, <2>1, <2>2
<1>6. ~Unpushed(i)'
  <2>1. ~Unpushed(i)
    BY DEF OnceOf, Free
  <2>2. Onward(i)
    <3>1. mem.last \in Nat
      BY ParamAssumption DEF TypeOK, State
    <3> QED
      BY <3>1 DEF Onward
  <2> QED
    BY <2>1, <2>2, TaskAround, TaskUnpushed
<1>7. \A y \in Target : sent'[New(i)][y] <= 1 + Bound'
  BY <1>1, <1>3, <1>4 DEF OnceOf
<1>8. ASSUME mem'.pend[New(i)] # None
      PROVE  \A y \in Target \ mem'.pend[New(i)].done : sent'[New(i)][y] <= Bound'
  <2>1. CASE Bound' = Bound + 1 /\ mem' = mem
    BY <1>1, <1>3, <1>4, <2>1 DEF OnceOf
  <2>2. CASE /\ Bound' = Bound
             /\ mem'.pend[New(i)].done = mem.pend[New(i)].done \cup {x}
    BY <1>1, <1>3, <1>4, <1>8, <2>2 DEF OnceOf
  <2> QED
    BY <1>2, <1>8, <2>1, <2>2
<1> QED
  BY <1>5, <1>6, <1>7, <1>8 DEF OnceOf, New

\* What a target that has received the message leaves in the snapshots.
LEMMA SendOkDone ==
  ASSUME TypeOK, NEW t \in Task, SendOk(t), NEW i \in Id, mem.pend[New(i)] # None
  PROVE  mem'.pend[New(i)].done = IF task[t].key = New(i)
           THEN mem.pend[New(i)].done \cup {task[t].to} ELSE mem.pend[New(i)].done
<1>1. mem \in State /\ mem.pend \in [Key -> Pending \cup {None}] /\ New(i) \in Key
  BY NewKey DEF TypeOK, State
<1>2. CASE mem.pend[task[t].key] = None
  BY <1>2 DEF SendOk
<1>3. CASE mem.pend[task[t].key] # None
  <2>1. mem' = [mem EXCEPT !.pend[task[t].key].done = @ \cup {task[t].to}]
    BY <1>3 DEF SendOk
  <2>2. PICK k, x : k = task[t].key /\ x = task[t].to
    OBVIOUS
  <2>3. mem'.pend = [mem.pend EXCEPT ![k] = [mem.pend[k] EXCEPT !.done = @ \cup {x}]]
    BY <1>1, <2>1, <2>2 DEF State
  <2>4. CASE k = New(i)
    <3>1. mem.pend[New(i)] \in Pending
      BY <1>1
    <3>2. mem'.pend[New(i)] = [mem.pend[New(i)] EXCEPT !.done = @ \cup {x}]
      BY <1>1, <2>3, <2>4
    <3> QED
      BY <2>2, <2>4, <3>1, <3>2 DEF Pending
  <2>5. CASE k # New(i)
    BY <1>1, <2>2, <2>3, <2>5
  <2> QED
    BY <2>4, <2>5
<1> QED
  BY <1>2, <1>3

\* A send to somebody, or the end of the attempt.
LEMMA SenderOnce ==
  ASSUME TypeOK, TypeOK', CursorInv, NEW t \in Task, NEW i \in Id, OnceOf(i),
         SendStep(t) \/ SendEnd(t)
  PROVE  OnceOf(i)'
<1>0. /\ TaskNext(t) /\ mem \in State /\ mem.last \in Nat /\ New(i) \in Key
      /\ task[t] \in TaskRec
  BY ParamAssumption, NewKey DEF SendStep, TaskNext, TypeOK, State, TasksOK
<1>1. ASSUME NEW x \in Target, SendSkip(t, x) \/ SendResume(t, x) PROVE OnceOf(i)'
  <2>1. mem' = mem /\ sent' = sent /\ task'[t].pc = "send"
    BY <1>1, SkipFields DEF SendSkip, SendResume
  <2>2. \A y \in Target : ~SendStart(t, y)
    BY <2>1, StartFields
  <2> QED
    BY <1>0, <2>1, <2>2, TaskIdleMemory
<1>2. ASSUME NEW x \in Target, SendStart(t, x) PROVE OnceOf(i)'
  <2>1. CASE task[t].key = New(i)
    BY <1>2, <2>1, StartOnce
  <2>2. CASE task[t].key # New(i)
    <3>1. mem' = mem /\ sent' = sent
      BY <1>2 DEF SendStart, hist
    <3> QED
      BY <1>0, <2>2, <3>1, TaskIdleMemory
  <2> QED
    BY <2>1, <2>2
<1>3. CASE SendOk(t)
  <2>1. /\ sent' = [sent EXCEPT ![task[t].key][task[t].to] = @ + 1]
        /\ task[t].pc = "inflight" /\ Bound' = Bound /\ task'[t].pc = "persist"
    <3>1. Persist(t, task[t], "send")
      BY <1>3 DEF SendOk
    <3>2. task'[t].pc = "persist"
      BY <1>0, <3>1, PersistFields
    <3> QED
      BY <1>3, <3>2 DEF SendOk, Bound
  <2>2. /\ mem'.init = mem.init /\ mem'.last = mem.last
        /\ mem'.pend[New(i)] = None <=> mem.pend[New(i)] = None
    BY <1>3, SendOkMem
  <2>3. CASE task[t].key = New(i)
    <3>1. Flies(t, i)
      BY <2>1, <2>3 DEF Flies
    <3> QED
      BY <1>0, <1>3, <2>1, <2>2, <2>3, <3>1, Delivered, SendOkDone
  <2>4. CASE task[t].key # New(i)
    <3>1. sent'[New(i)] = sent[New(i)]
      BY <1>0, <2>1, <2>4 DEF TypeOK
    <3>2. mem.pend[New(i)] # None => mem'.pend[New(i)].done = mem.pend[New(i)].done
      BY <1>3, <2>4, SendOkDone
    <3>3. Onward(i)
      BY <1>0, <2>2 DEF Onward
    <3>4. \A x \in Target : ~SendStart(t, x)
      BY <2>1 DEF SendStart
    <3> QED
      BY <1>0, <2>2, <3>1, <3>2, <3>3, <3>4, TaskQuiet
  <2> QED
    BY <2>3, <2>4
<1>4. CASE SendFailed(t)
  <2>1. mem' = mem /\ sent' = sent /\ \A x \in Target : ~SendStart(t, x)
    BY <1>4 DEF SendFailed, SendStart
  <2> QED
    BY <1>0, <2>1, TaskIdleMemory
<1>5. CASE SendLost(t)
  <2>1. /\ sent' = [sent EXCEPT ![task[t].key][task[t].to] = @ + 1]
        /\ task[t].pc = "inflight" /\ task'[t].pc = "send" /\ mem' = mem
    BY <1>5, NextTargetFields DEF SendLost
  <2>2. Bound' = Bound + 1
    <3>1. PICK s : s = spent
      OBVIOUS
    <3>2. /\ s \in [pin: Nat, vanish: Nat, reload: Nat, crash: Nat, fail: Nat, lost: Nat, db: Nat]
          /\ spent' = [s EXCEPT !.fail = @ + 1, !.lost = @ + 1]
      BY <1>5, <3>1 DEF SendLost, TypeOK
    <3>3. spent'.crash = s.crash /\ spent'.lost = s.lost + 1
      BY <3>2
    <3> QED
      BY <3>1, <3>2, <3>3 DEF Bound
  <2>3. CASE task[t].key = New(i)
    <3>1. Flies(t, i)
      BY <2>1, <2>3 DEF Flies
    <3> QED
      BY <1>0, <2>1, <2>2, <3>1, Delivered
  <2>4. CASE task[t].key # New(i)
    <3>1. sent'[New(i)] = sent[New(i)]
      BY <1>0, <2>1, <2>4 DEF TypeOK
    <3>2. \A x \in Target : ~SendStart(t, x)
      BY <2>1 DEF SendStart
    <3> QED
      BY <1>0, <2>1, <3>1, <3>2, TaskIdleMemory
  <2> QED
    BY <2>3, <2>4
<1>6. CASE SendEnd(t)
  <2>1. sent' = sent /\ \A x \in Target : ~SendStart(t, x)
    BY <1>6 DEF SendEnd, SendStart
  <2>2. CASE mem' = mem
    BY <1>0, <2>1, <2>2, TaskIdleMemory
  <2>3. CASE mem' # mem
    <3>1. PICK left \in SUBSET Target : Settle(t, left)
      BY <1>0, <1>6, <2>3 DEF SendEnd, TaskRec
    <3>2. PICK k : k = task[t].key
      OBVIOUS
    <3>3. mem' = [mem EXCEPT !.pend[k].left = left] /\ mem.pend[k] # None
      BY <2>3, <3>1, <3>2 DEF Settle
    <3>4. k \in Key
      BY <1>0, <2>3, <3>3 DEF State
    <3>5. PICK p : p = [mem.pend[k] EXCEPT !.left = left]
      OBVIOUS
    <3>6. p \in Pending /\ p.done = mem.pend[k].done
      BY <1>0, <3>3, <3>4, <3>5 DEF State, Pending
    <3>7. mem' = [mem EXCEPT !.pend[k] = p]
      BY <1>0, <3>3, <3>4, <3>5 DEF State
    <3>8. /\ mem'.init = mem.init /\ mem'.last = mem.last /\ mem'.pend[k] = p /\ p # None
          /\ \A l \in Key : l # k => mem'.pend[l] = mem.pend[l]
      BY <3>4, <3>6, <3>7, PutSnapshot
    <3>9. Onward(i)
      BY <1>0, <3>8 DEF Onward
    <3>10. mem'.pend[New(i)] # None =>
             mem.pend[New(i)] # None /\ mem'.pend[New(i)].done = mem.pend[New(i)].done
      BY <1>0, <3>3, <3>6, <3>8
    <3> QED
      BY <1>0, <2>1, <3>9, <3>10, TaskQuiet
  <2> QED
    BY <2>2, <2>3
<1> QED
  BY <1>1, <1>2, <1>3, <1>4, <1>5, <1>6 DEF SendStep

\* A step of a task.
LEMMA TaskOnce ==
  ASSUME TypeOK, TypeOK', CursorInv, OnceInv, NEW t \in Task, TaskNext(t) PROVE OnceInv'
<1>1. ASSUME NEW i \in Id PROVE OnceOf(i)'
  <2>1. OnceOf(i)
    BY DEF OnceInv
  <2> QED
    BY <2>1, DeliverOnce, SenderOnce DEF TaskNext, SendStep
<1>2. WorldInv'
  BY TaskAround DEF OnceInv, WorldInv, Around
<1> QED
  BY <1>1, <1>2 DEF OnceInv

-----------------------------------------------------------------------------
(* The other steps *)

\* One uid is not enabled twice, or nothing leaves the list.
EnabledOnce == MaxVanish = 0 \/ MaxReload <= 1

\* A step that touches no message and no new snapshot.
LEMMA AsideOnce ==
  ASSUME TypeOK, TypeOK', NEW i \in Id, OnceOf(i), sent' = sent, spent'.crash = spent.crash,
         spent'.lost = spent.lost,
         \A t \in Task : task'[t].pc = "inflight" => task'[t] = task[t],
         Unpushed(i)' => Unpushed(i),
         mem'.pend[New(i)] # None => epoch' = epoch /\ mem'.pend[New(i)] = mem.pend[New(i)]
  PROVE  OnceOf(i)'
<1>1. Bound' = Bound /\ Bound \in Nat
  BY CountIs DEF Bound
<1>2. Unsent(i)
  <2>1. \A t \in Task : Flies(t, i)' => task'[t] = task[t] /\ Flies(t, i)
    BY DEF Flies, New
  <2>2. sent'[New(i)] = sent[New(i)] /\ Bound <= Bound'
    BY <1>1
  <2> QED
    BY <2>1, <2>2 DEF Unsent
<1>3. Unpushed(i) => Free(i)
  BY DEF OnceOf
<1>4. Quiet(i)
  BY <1>2, <1>3 DEF Quiet
<1> QED
  BY <1>4, QuietOnce

\* The uploader.
LEMMA WorldOnce == ASSUME TypeOK, TypeOK', CursorInv, OnceInv, World PROVE OnceInv'
<1> USE DEF world, db, proc, hist
<1>0. published \in Nat /\ Id \subseteq Nat
  BY ParamAssumption DEF TypeOK, Id
<1>1. spent \in [pin: Nat, vanish: Nat, reload: Nat, crash: Nat, fail: Nat, lost: Nat, db: Nat]
  BY DEF TypeOK
<1>2. /\ UNCHANGED <<cfg, up, targets, gen, epoch, mem, chk, task, reload, sent>>
      /\ spent'.reload = spent.reload /\ spent'.crash = spent.crash /\ spent'.lost = spent.lost
      /\ published' \in Nat /\ published <= published'
  BY <1>0, <1>1 DEF World, Publish, Vanish, SetPin
<1>3. ASSUME NEW i \in Id PROVE OnceOf(i)'
  <2>1. Unpushed(i)' => Unpushed(i)
    <3>1. published' < i => published < i
      BY <1>0, <1>2
    <3> QED
      BY <1>2, <3>1 DEF Unpushed, Fetch, New
  <2> QED
    BY <1>2, <2>1, AsideOnce DEF OnceInv
<1>4. WorldInv'
  <2>1. feed \subseteq 1 .. published /\ (MaxVanish = 0 => feed = 1 .. published)
    BY DEF OnceInv, WorldInv
  <2>2. feed' \subseteq 1 .. published' /\ (MaxVanish = 0 => feed' = 1 .. published')
    <3>1. CASE Publish
      BY <1>0, <2>1, <3>1 DEF Publish
    <3>2. ASSUME NEW i \in Id, Vanish(i)
          PROVE  feed' \subseteq 1 .. published' /\ (MaxVanish = 0 => feed' = 1 .. published')
      <4>1. MaxVanish # 0
        <5>1. spent.vanish \in Nat /\ spent.vanish < MaxVanish
          BY <1>1, <3>2 DEF Vanish
        <5> QED
          BY <5>1
      <4> QED
        BY <2>1, <3>2, <4>1 DEF Vanish
    <3>3. ASSUME NEW i \in Id \cup {0}, SetPin(i)
          PROVE  feed' \subseteq 1 .. published' /\ (MaxVanish = 0 => feed' = 1 .. published')
      BY <2>1, <3>3 DEF SetPin
    <3> QED
      BY <3>1, <3>2, <3>3 DEF World
  <2> QED
    BY <1>2, <2>2 DEF OnceInv, WorldInv
<1> QED
  BY <1>3, <1>4 DEF OnceInv

\* A task that was spawned just now.
Spawned(r, ids) == r.pc = "next" /\ r.ids = ids /\ r.gen = gen /\ r.key = <<0, FALSE>>

\* A task slot after a task was spawned.
LEMMA SpawnNext ==
  ASSUME NEW ts, DOMAIN ts = Task, NEW u \in Task, NEW pinned, NEW ids, NEW force, NEW us,
         us = Spawn(ts, u, pinned, ids, force), NEW t \in Task
  PROVE  DOMAIN us = Task /\ (us[t] = ts[t] \/ (Spawned(us[t], ids) /\ us[t].pinned = pinned))
<1>1. PICK r : r = [IdleTask EXCEPT !.pc = "next", !.pinned = pinned, !.ids = ids,
     !.force = force, !.gen = gen, !.epoch = epoch,
     !.ahead = {v \in Task : ts[v].pc # "idle" /\ ts[v].epoch = epoch}]
  OBVIOUS
<1>2. Spawned(r, ids) /\ r.pinned = pinned
  BY <1>1 DEF IdleTask, Spawned
<1>3. us = [ts EXCEPT ![u] = r]
  BY <1>1 DEF Spawn
<1> QED
  BY <1>2, <1>3

\* What the answer to a check makes of a task slot.
LEMMA ObserveTask ==
  ASSUME TypeOK, NEW c \in Check, NEW a \in Answers(c), NEW tp \in Task, NEW tn \in Task,
         Observe(c, a, tp, tn), NEW t \in Task
  PROVE  \/ task'[t] = task[t]
         \/ \E ids : Spawned(task'[t], ids) /\ (task'[t].pinned \/ ids = Batch(a))
<1>2. PICK w : w = IF PushPin(c, a) THEN Spawn(task, tp, TRUE, {a[2]}, FALSE) ELSE task
  OBVIOUS
<1>3. DOMAIN task = Task
  BY DEF TypeOK, TasksOK
<1>4. DOMAIN w = Task /\ (w[t] = task[t] \/ ((\E ids : Spawned(w[t], ids)) /\ w[t].pinned))
  <2>1. CASE PushPin(c, a)
    <3>0. PICK ids, yes, no : ids = {a[2]} /\ yes = TRUE /\ no = FALSE
      OBVIOUS
    <3>1. w = Spawn(task, tp, yes, ids, no)
      <4>1. w = Spawn(task, tp, TRUE, {a[2]}, FALSE)
        BY <1>2, <2>1
      <4>2. Spawn(task, tp, TRUE, {a[2]}, FALSE) = Spawn(task, tp, yes, ids, no)
        BY <3>0 DEF Spawn
      <4> QED
        BY <4>1, <4>2
    <3>2. DOMAIN w = Task /\ (w[t] = task[t] \/ (Spawned(w[t], ids) /\ w[t].pinned = yes))
      BY <1>3, <3>1, SpawnNext
    <3>3. w[t].pinned = yes => w[t].pinned
      BY <3>0
    <3> QED
      BY <3>2, <3>3
  <2>2. CASE ~PushPin(c, a)
    BY <1>2, <1>3, <2>2
  <2> QED
    BY <2>1, <2>2
<1>5. task' = w \/ task' = Spawn(w, tn, FALSE, Batch(a), Adopt(c, a))
  BY <1>2 DEF Observe
<1>6. task'[t] = w[t] \/ Spawned(task'[t], Batch(a))
  <2>1. CASE task' = w
    BY <2>1
  <2>2. CASE task' = Spawn(w, tn, FALSE, Batch(a), Adopt(c, a))
    <3>1. PICK ids, no, force, v : v = task' /\ ids = Batch(a) /\ v = Spawn(w, tn, no, ids, force)
      BY <2>2
    <3>2. v[t] = w[t] \/ Spawned(v[t], ids)
      BY <1>4, <3>1, SpawnNext
    <3> QED
      BY <3>1, <3>2
  <2> QED
    BY <1>5, <2>1, <2>2
<1> QED
  BY <1>4, <1>6

\* What a check leaves of the snapshots of new dynamics, and of the tasks.
LEMMA CheckAround ==
  ASSUME TypeOK, NEW c \in Check, CheckNext(c)
  PROVE  /\ UNCHANGED <<feed, published, cfg, up, targets, gen, epoch, reload, sent>>
         /\ spent'.reload = spent.reload /\ spent'.crash = spent.crash /\ spent'.lost = spent.lost
         /\ \A i \in Id : mem'.pend[New(i)] = mem.pend[New(i)]
         /\ \A d \in Check : d # c => chk'[d] = chk[d]
         /\ \A t \in Task : task'[t].pc = "inflight" => task'[t] = task[t]
<1> USE DEF world, db, proc, hist
<1>1. spent \in [pin: Nat, vanish: Nat, reload: Nat, crash: Nat, fail: Nat, lost: Nat, db: Nat]
  BY DEF TypeOK
<1>2. /\ UNCHANGED <<feed, published, cfg, up, targets, gen, epoch, reload, sent>>
      /\ spent'.reload = spent.reload /\ spent'.crash = spent.crash /\ spent'.lost = spent.lost
  BY <1>1 DEF CheckNext, CheckStart, CheckFailed, CheckStale, CheckBaseline, CheckObserve,
              CheckRead, CheckCommit, CheckConflict, CheckDbError
<1>3. \A i \in Id : mem'.pend[New(i)] = mem.pend[New(i)]
  <2>1. \A i \in Id : New(i) \in Key /\ ~New(i)[2]
    BY NewKey
  <2>2. mem \in State
    BY DEF TypeOK
  <2>3. CASE CheckBaseline(c)
    <3>1. PICK pin : mem'.pend = DropPinned(mem.pend, pin)
      BY <2>3 DEF CheckBaseline
    <3> QED
      BY <2>1, <3>1 DEF DropPinned
  <2>4. CASE CheckObserve(c)
    <3>1. PICK a \in Answers(c), tp \in Task, tn \in Task : Observe(c, a, tp, tn)
      BY <2>4 DEF CheckObserve
    <3>2. mem'.pend = DropPinned(mem.pend, a[2])
      BY <2>2, <3>1 DEF Observe, PendAfter, State
    <3> QED
      BY <2>1, <3>2 DEF DropPinned
  <2>5. CASE ~CheckBaseline(c) /\ ~CheckObserve(c)
    BY <2>5 DEF CheckNext, CheckStart, CheckFailed, CheckStale, CheckRead, CheckCommit,
                CheckConflict, CheckDbError
  <2> QED
    BY <2>3, <2>4, <2>5
<1>4. \A d \in Check : d # c => chk'[d] = chk[d]
  <2>1. chk \in [Check -> CheckRec]
    BY DEF TypeOK
  <2> QED
    BY <2>1 DEF CheckNext, CheckStart, CheckFailed, CheckStale, CheckBaseline, CheckObserve,
                Observe, CheckRead, CheckCommit, CheckConflict, CheckDbError
<1>5. ASSUME NEW t \in Task, task'[t].pc = "inflight" PROVE task'[t] = task[t]
  <2>1. CASE CheckObserve(c)
    <3>1. PICK a \in Answers(c), tp \in Task, tn \in Task : Observe(c, a, tp, tn)
      BY <2>1 DEF CheckObserve
    <3> QED
      BY <1>5, <3>1, ObserveTask DEF Spawned
  <2>2. CASE ~CheckObserve(c)
    BY <2>2 DEF CheckNext, CheckStart, CheckFailed, CheckStale, CheckBaseline, CheckRead,
                CheckCommit, CheckConflict, CheckDbError
  <2> QED
    BY <2>1, <2>2
<1> QED
  BY <1>2, <1>3, <1>4, <1>5

\* A check: a baseline leaves behind only what its answer showed.
LEMMA CheckOnce ==
  ASSUME TypeOK, TypeOK', CursorInv, OnceInv, EnabledOnce, NEW c \in Check, CheckNext(c)
  PROVE  OnceInv'
<1>1. /\ UNCHANGED <<feed, published, cfg, up, targets, gen, epoch, reload, sent>>
      /\ spent'.reload = spent.reload /\ spent'.crash = spent.crash /\ spent'.lost = spent.lost
      /\ \A i \in Id : mem'.pend[New(i)] = mem.pend[New(i)]
      /\ \A d \in Check : d # c => chk'[d] = chk[d]
      /\ \A t \in Task : task'[t].pc = "inflight" => task'[t] = task[t]
  BY CheckAround
<1>2. published \in Nat /\ Id \subseteq Nat /\ MemOK /\ WorldInv /\ mem \in State
  BY ParamAssumption DEF TypeOK, Id, CursorInv, OnceInv
<1>3. ASSUME NEW i \in Id, Unpushed(i)' PROVE Unpushed(i)
  <2>1. CASE CheckStart(c)
    <3>1. targets # {} /\ mem' = mem /\ chk'[c].dyn = feed
      <4>1. chk' = [chk EXCEPT ![c] = [IdleCheck EXCEPT !.pc = "fetch", !.gen = gen,
                      !.pin = mem.pin, !.dyn = feed, !.feedPin = feedPin]]
        BY <2>1 DEF CheckStart
      <4> QED
        BY <2>1, <4>1 DEF CheckStart, IdleCheck, TypeOK
    <3>2. CASE i \notin feed /\ MaxVanish = 0
      BY <1>2, <3>2 DEF WorldInv, Unpushed, Id
    <3>3. CASE ~mem.init /\ MaxReload <= 1
      BY <3>1, <3>3 DEF Unpushed
    <3>4. CASE ~mem'.init /\ \E d \in Check : Fetch(d)' /\ i \notin chk'[d].dyn
      <4>1. PICK d \in Check : Fetch(d)' /\ i \notin chk'[d].dyn
        BY <3>4
      <4>2. CASE d = c
        BY <3>1, <3>2, <3>3, <3>4, <4>1, <4>2 DEF EnabledOnce
      <4>3. CASE d # c
        BY <1>1, <3>1, <3>4, <4>1, <4>3 DEF Unpushed, Fetch
      <4> QED
        BY <4>2, <4>3
    <3> QED
      BY <1>1, <1>3, <3>1, <3>4 DEF Unpushed, New
  <2>2. CASE CheckBaseline(c)
    <3>1. Fetch(c) /\ ~mem.init /\ mem'.init
      BY <2>2 DEF CheckBaseline, Fetch, Valid
    <3>2. PICK a \in Answers(c), last \in 0 .. MaxId :
            /\ IF a[1] = {} THEN last = mem.last ELSE Greatest(last, a[1])
            /\ mem' = [last |-> last, init |-> TRUE, pin |-> a[2],
                       pend |-> DropPinned(mem.pend, a[2])]
      BY <2>2 DEF CheckBaseline
    <3>3. CASE mem'.last < i
      <4>1. i \notin a[1]
        <5>1. a[1] # {} => Greatest(last, a[1]) /\ mem'.last = last
          BY <3>2
        <5>2. last \in Nat
          BY ParamAssumption
        <5> QED
          BY <1>2, <3>3, <5>1, <5>2 DEF Greatest
      <4>2. a[1] = chk[c].dyn \/ a[1] = feed
        BY DEF Answers
      <4>3. CASE i \notin chk[c].dyn
        BY <3>1, <4>3 DEF Unpushed
      <4>4. CASE a[1] = feed
        <5>1. CASE MaxVanish = 0
          BY <1>2, <4>1, <4>4, <5>1 DEF WorldInv, Unpushed, Id
        <5>2. CASE MaxReload <= 1
          <6>1. targets # {}
            BY <2>2 DEF CheckBaseline, Valid
          <6> QED
            BY <3>1, <5>2, <6>1 DEF Unpushed
        <5> QED
          BY <5>1, <5>2 DEF EnabledOnce
      <4> QED
        BY <4>1, <4>2, <4>3, <4>4
    <3> QED
      BY <1>1, <1>3, <3>1, <3>3 DEF Unpushed
  <2>3. CASE ~CheckStart(c) /\ ~CheckBaseline(c)
    <3>1. mem'.init = mem.init /\ mem'.last = mem.last
      BY <1>2, <2>3 DEF CheckNext, CheckFailed, CheckStale, CheckObserve, Observe, CheckRead,
                CheckCommit, CheckConflict, CheckDbError, State
    <3>2. ~Fetch(c)'
      <4>1. chk \in [Check -> CheckRec] /\ chk[c] \in CheckRec
        BY DEF TypeOK
      <4>2. /\ IdleCheck.pc = "idle"
            /\ \A g : [IdleCheck EXCEPT !.pc = "persist", !.gen = g].pc = "persist"
        BY DEF IdleCheck
      <4>3. CASE CheckObserve(c)
        <5>1. PICK a, tp, tn : Observe(c, a, tp, tn)
          BY <4>3 DEF CheckObserve
        <5> QED
          BY <4>1, <4>2, <5>1 DEF Observe, Fetch
      <4>4. CASE CheckRead(c)
        <5>1. \/ chk'[c] = [chk[c] EXCEPT !.pc = "commit", !.base = row, !.cap = mem]
              \/ chk'[c] = IdleCheck
          BY <4>1, <4>4 DEF CheckRead
        <5> QED
          BY <4>1, <4>2, <5>1 DEF Fetch, CheckRec
      <4>5. CASE \/ CheckFailed(c) \/ CheckStale(c) \/ CheckCommit(c)
                 \/ CheckConflict(c) \/ CheckDbError(c)
        <5>1. chk'[c] = IdleCheck
          BY <4>1, <4>5 DEF CheckFailed, CheckStale, CheckCommit, CheckConflict, CheckDbError
        <5> QED
          BY <4>2, <5>1 DEF Fetch
      <4> QED
        BY <2>3, <4>3, <4>4, <4>5 DEF CheckNext
    <3>3. \A d \in Check : Fetch(d)' => Fetch(d) /\ chk'[d] = chk[d]
      BY <1>1, <3>2 DEF Fetch
    <3> QED
      BY <1>1, <1>3, <3>1, <3>3 DEF Unpushed, New
  <2> QED
    BY <2>1, <2>2, <2>3
<1>4. ASSUME NEW i \in Id PROVE OnceOf(i)'
  BY <1>1, <1>3, AsideOnce DEF OnceInv
<1>5. WorldInv'
  BY <1>1, <1>2 DEF WorldInv
<1> QED
  BY <1>4, <1>5 DEF OnceInv

\* A reload: the uid starts over, once, or with everything in the list.
LEMMA ReloadOnce ==
  ASSUME TypeOK, TypeOK', CursorInv, OnceInv, EnabledOnce, ReloadNext PROVE OnceInv'
<1> USE DEF world, db, proc, hist
<1>0. /\ spent \in [pin: Nat, vanish: Nat, reload: Nat, crash: Nat, fail: Nat, lost: Nat, db: Nat]
      /\ reload \in [pc: {"idle", "apply", "reset", "delete", "deleting"}, found: BOOLEAN]
      /\ gen \in Nat /\ mem \in State /\ WorldInv /\ MaxReload \in Nat /\ IdleReload.pc = "idle"
      /\ cfg \subseteq Target /\ chk \in [Check -> CheckRec]
  BY ParamAssumption DEF TypeOK, OnceInv, IdleReload
<1>1. /\ UNCHANGED <<feed, published, up, chk, task, sent>>
      /\ spent'.crash = spent.crash /\ spent'.lost = spent.lost
  BY <1>0 DEF ReloadNext, ReloadStart, ReloadApply, ReloadReset, DeleteRead, DeleteCommit,
              DeleteDbError
<1>2. CASE \E new \in SUBSET Target : ReloadStart(new)
  <2>1. PICK new \in SUBSET Target : ReloadStart(new)
    BY <1>2
  <2>2. /\ UNCHANGED <<targets, gen, epoch, mem>> /\ up /\ cfg' = new /\ new # cfg
        /\ reload.pc = "idle" /\ reload'.pc = "apply"
        /\ spent'.reload = spent.reload + 1 /\ spent.reload < MaxReload
    BY <1>0, <2>1 DEF ReloadStart
  <2>3. \A i \in Id : Unpushed(i)' => Unpushed(i)
    BY <1>1, <2>2 DEF Unpushed, Fetch, New
  <2>4. \A i \in Id : OnceOf(i)'
    BY <1>1, <2>2, <2>3, AsideOnce DEF OnceInv
  <2>5. WorldInv'
    <3>1. ASSUME MaxReload <= 1, Target # {}, targets = {} PROVE FALSE
      <4>1. spent.reload = 0
        BY <1>0, <2>2, <3>1
      <4>2. cfg = Target /\ cfg = {}
        BY <1>0, <2>2, <3>1, <4>1 DEF WorldInv
      <4> QED
        BY <3>1, <4>2
    <3> QED
      BY <1>0, <1>1, <2>2, <3>1 DEF WorldInv
  <2> QED
    BY <2>4, <2>5 DEF OnceInv
<1>3. CASE ReloadApply
  <2>1. /\ targets' = cfg /\ cfg' = cfg /\ spent' = spent /\ up
        /\ reload'.pc = "reset" => targets = {} /\ cfg # {}
    BY <1>0, <1>3 DEF ReloadApply, WorldInv
  <2>2. WorldInv'
    BY <1>0, <1>1, <2>1 DEF WorldInv
  <2>3. CASE cfg = {}
    <3>1. gen' = gen + 1 /\ ~mem'.init /\ \A k \in Key : mem'.pend[k] = None
      BY <1>3, <2>3 DEF ReloadApply, Blank
    <3>2. \A c \in Check : ~Fetch(c)'
      <4>1. \A c \in Check : chk[c].pc # "idle" => chk[c].gen <= gen /\ chk[c].gen \in Nat
        BY <1>0 DEF CursorInv, CheckOK, CheckRec
      <4> QED
        BY <1>0, <1>1, <3>1, <4>1 DEF Fetch
    <3>3. \A i \in Id : Unpushed(i)' => Unpushed(i)
      BY <1>1, <2>1, <2>3, <3>1, <3>2 DEF Unpushed
    <3>4. \A i \in Id : mem'.pend[New(i)] = None
      BY <3>1, NewKey
    <3> QED
      BY <1>1, <2>2, <3>3, <3>4, AsideOnce DEF OnceInv
  <2>4. CASE cfg # {}
    <3>1. UNCHANGED <<gen, epoch, mem>>
      BY <1>3, <2>4 DEF ReloadApply
    <3>2. ASSUME MaxReload <= 1 PROVE targets # {}
      BY <1>0, <2>1, <2>4, <3>2 DEF WorldInv
    <3>3. \A i \in Id : Unpushed(i)' => Unpushed(i)
      BY <1>1, <3>1, <3>2 DEF Unpushed, Fetch, New
    <3> QED
      BY <1>1, <2>2, <3>1, <3>3, AsideOnce DEF OnceInv
  <2> QED
    BY <2>3, <2>4
<1>4. CASE ReloadReset
  <2>1. /\ reload.pc = "reset" /\ reload'.pc = "delete" /\ up /\ gen' = gen + 1
        /\ UNCHANGED <<cfg, targets, epoch, spent>>
    BY <1>0, <1>4 DEF ReloadReset, WorldInv
  <2>2. ~mem'.init /\ mem'.pend = mem.pend
    <3>1. mem' = [mem EXCEPT !.last = 0, !.init = FALSE, !.pin = 0]
      BY <1>4 DEF ReloadReset
    <3> QED
      BY <1>0, <3>1 DEF State
  <2>3. \A c \in Check : ~Fetch(c)'
    <3>1. \A c \in Check : chk[c].pc # "idle" => chk[c].gen <= gen /\ chk[c].gen \in Nat
      BY <1>0 DEF CursorInv, CheckOK, CheckRec
    <3> QED
      BY <1>0, <1>1, <2>1, <3>1 DEF Fetch
  <2>4. MaxReload <= 1 => targets = {}
    BY <1>0, <2>1 DEF WorldInv, TypeOK
  <2>5. \A i \in Id : Unpushed(i)' => Unpushed(i)
    BY <1>1, <2>1, <2>2, <2>3, <2>4 DEF Unpushed
  <2>6. WorldInv'
    BY <1>0, <1>1, <2>1 DEF WorldInv
  <2> QED
    BY <1>1, <2>1, <2>2, <2>5, <2>6, AsideOnce DEF OnceInv
<1>5. CASE DeleteRead \/ DeleteCommit \/ DeleteDbError
  <2>1. /\ UNCHANGED <<cfg, targets, gen, epoch, mem>> /\ spent'.reload = spent.reload
        /\ reload.pc # "idle" /\ reload'.pc # "reset"
    BY <1>0, <1>5 DEF DeleteRead, DeleteCommit, DeleteDbError
  <2>2. \A i \in Id : Unpushed(i)' => Unpushed(i)
    BY <1>1, <2>1 DEF Unpushed, Fetch, New
  <2>3. WorldInv'
    BY <1>0, <1>1, <2>1 DEF WorldInv
  <2> QED
    BY <1>1, <2>1, <2>2, <2>3, AsideOnce DEF OnceInv
<1> QED
  BY <1>2, <1>3, <1>4, <1>5 DEF ReloadNext

\* The process dies: everything may be pushed once more.
LEMMA CrashOnce == ASSUME TypeOK, TypeOK', CursorInv, OnceInv, Crash PROVE OnceInv'
<1>1. /\ ~up' /\ sent' = sent /\ mem' = Blank /\ Bound' = Bound + 1
      /\ UNCHANGED <<feed, published, cfg>> /\ spent'.reload = spent.reload
      /\ reload'.pc = "idle"
  <2>1. spent \in [pin: Nat, vanish: Nat, reload: Nat, crash: Nat, fail: Nat, lost: Nat, db: Nat]
    BY DEF TypeOK
  <2> QED
    BY <2>1 DEF Crash, Bound, world, db, hist, IdleReload
<1>2. \A t \in Task : task'[t].pc = "idle"
  BY DEF Crash, IdleTask
<1>3. ASSUME NEW i \in Id PROVE OnceOf(i)'
  <2>1. Bound \in Nat /\ New(i) \in Key /\ \A x \in Target : sent[New(i)][x] \in Nat
    BY CountIs
  <2>2. \A x \in Target : sent'[New(i)][x] <= Bound'
    BY <1>1, <2>1 DEF OnceInv, OnceOf
  <2>3. \A t \in Task : ~Flies(t, i)'
    BY <1>2 DEF Flies
  <2>4. mem'.pend[New(i)] = None
    BY <1>1, <2>1 DEF Blank
  <2>5. Free(i)'
    BY <2>2, <2>3 DEF Free, New
  <2>6. \A x \in Target : sent'[New(i)][x] <= 1 + Bound'
    BY <1>1, <2>1, <2>2
  <2> QED
    BY <2>3, <2>4, <2>5, <2>6 DEF OnceOf, New
<1>4. WorldInv'
  BY <1>1 DEF OnceInv, WorldInv
<1> QED
  BY <1>3, <1>4 DEF OnceInv

\* It starts again: nothing of what it has sent stands in the way.
LEMMA RestartOnce == ASSUME TypeOK, TypeOK', CursorInv, OnceInv, Restart PROVE OnceInv'
<1>1. /\ ~up /\ sent' = sent /\ spent' = spent /\ targets' = cfg
      /\ UNCHANGED <<feed, published, cfg, task, reload>>
  BY DEF Restart, world, hist
<1>2. \A t \in Task : task[t].pc = "idle"
  BY <1>1 DEF CursorInv, TaskInv, LifeOK
<1>3. ASSUME NEW i \in Id PROVE OnceOf(i)'
  <2>1. Unsent(i)
    <3>1. Bound \in Nat /\ Bound' = Bound
      BY <1>1, CountIs DEF Bound
    <3>2. \A t \in Task : ~Flies(t, i)'
      BY <1>1, <1>2 DEF Flies
    <3> QED
      BY <1>1, <3>1, <3>2 DEF Unsent
  <2>2. Free(i)
    BY <1>1 DEF OnceInv, OnceOf, Unpushed
  <2>3. Quiet(i)
    BY <2>1, <2>2 DEF Quiet
  <2> QED
    BY <2>3, QuietOnce DEF OnceInv
<1>4. WorldInv'
  BY <1>1 DEF OnceInv, WorldInv
<1> QED
  BY <1>3, <1>4 DEF OnceInv

\* The initial state.
LEMMA InitOnce == Init => OnceInv
<1> SUFFICES ASSUME Init PROVE OnceInv
  OBVIOUS
<1>1. /\ sent = [k \in Key |-> [x \in Target |-> 0]] /\ mem = Blank /\ feed = {} /\ published = 0
      /\ cfg = Target /\ targets = Target /\ reload.pc = "idle" /\ Bound = 0
  BY DEF Init, IdleReload, Bound
<1>2. \A t \in Task : task[t].pc = "idle"
  BY DEF Init, IdleTask
<1>3. ASSUME NEW i \in Id PROVE OnceOf(i)
  <2>1. New(i) \in Key
    BY NewKey
  <2>2. \A x \in Target : sent[New(i)][x] = 0
    BY <1>1, <2>1
  <2>3. mem.pend[New(i)] = None
    BY <1>1, <2>1 DEF Blank
  <2>4. \A t \in Task : ~Flies(t, i)
    BY <1>2 DEF Flies
  <2> QED
    BY <1>1, <2>2, <2>3, <2>4 DEF OnceOf, Free
<1>4. WorldInv
  BY <1>1 DEF WorldInv
<1> QED
  BY <1>3, <1>4 DEF OnceInv

\* Every step keeps the invariant.
LEMMA OnceStep ==
  EnabledOnce /\ TypeOK /\ TypeOK' /\ CursorInv /\ OnceInv /\ [Next]_vars => OnceInv'
<1> SUFFICES ASSUME EnabledOnce, TypeOK, TypeOK', CursorInv, OnceInv, [Next]_vars PROVE OnceInv'
  OBVIOUS
<1>1. CASE UNCHANGED vars
  <2>1. UNCHANGED <<feed, published, cfg, up, targets, gen, epoch, mem, chk, task, reload, sent,
                    spent>>
    BY <1>1 DEF vars, world, db, proc, hist
  <2>2. \A i \in Id : Unpushed(i)' => Unpushed(i)
    BY <2>1 DEF Unpushed, Fetch, New
  <2>3. WorldInv'
    BY <2>1 DEF OnceInv, WorldInv
  <2> QED
    BY <2>1, <2>2, <2>3, AsideOnce DEF OnceInv
<1> QED
  BY <1>1, WorldOnce, CheckOnce, TaskOnce, ReloadOnce, CrashOnce, RestartOnce DEF Next

\* Between two crashes a target gets a dynamic once, and once more for a receipt that
\* was lost: whatever the polls overlap with, whatever fails, and however often the
\* configuration changes, as long as no dynamic leaves the list or the uid is not
\* enabled a second time (_deliver_new_dynamics, is_target_active).
THEOREM OnceCorrect == ASSUME EnabledOnce PROVE Spec => []AtMostOncePerLife
<1>1. TypeOK /\ OnceInv => AtMostOncePerLife
  <2>1. TypeOK => spent.crash \in Nat /\ spent.lost \in Nat
    BY DEF TypeOK
  <2>2. TypeOK => Bound = spent.crash + spent.lost /\ 1 + Bound = 1 + spent.crash + spent.lost
    BY <2>1 DEF Bound
  <2> QED
    BY <2>2 DEF OnceInv, OnceOf, AtMostOncePerLife
<1>2. Spec => []CursorInv
  BY InitCursor, CursorStep, TypeCorrect, PTL DEF Spec
<1>3. TypeOK /\ TypeOK' /\ CursorInv /\ OnceInv /\ [Next]_vars => OnceInv'
  BY OnceStep
<1> QED
  BY <1>1, <1>2, <1>3, InitOnce, TypeCorrect, PTL DEF Spec

-----------------------------------------------------------------------------
(* What was published before the uid was enabled *)

\* Not published before the uid was enabled; so is what a life of the uid has to push.
Later(S) == \A i \in feed \cap S : enabled < i

HistTask(t) == Work(t) /\ ~task[t].pinned => Later(task[t].ids \cup {task[t].key[1]})

\* While the uid is disabled, no life of it is on its way.
Disabled == /\ ~mem.init /\ (\A i \in Id : mem.pend[New(i)] = None)
            /\ (\A c \in Check : ~Fetch(c)) /\ (\A t \in Task : ~Work(t))

HistInv ==
  /\ up /\ enabled <= published
  /\ reload.pc # "apply" => targets = cfg
  /\ targets = {} => Disabled
  /\ mem.init => Later({i \in Id : mem.last < i})
  /\ Later({i \in Id : mem.pend[New(i)] # None})
  /\ \A c \in Check : Fetch(c) => Later(Id \ chk[c].dyn)
  /\ \A t \in Task : HistTask(t)

\* What a task does to the cursor, and which snapshots it makes.
LEMMA TaskMemory ==
  ASSUME TypeOK, CursorInv, NEW t \in Task, TaskNext(t)
  PROVE  /\ mem'.init = mem.init /\ mem.last <= mem'.last
         /\ \A i \in Id : mem'.pend[New(i)] # None =>
              \/ mem.pend[New(i)] # None
              \/ Work(t) /\ ~task[t].pinned /\ task[t].key = New(i) /\ targets # {}
<1>0. /\ mem \in State /\ mem.last \in Nat /\ task[t] \in TaskRec /\ TaskInv(t)
      /\ \A i \in Id : New(i) \in Key /\ ~New(i)[2]
  BY ParamAssumption, NewKey DEF TypeOK, State, TasksOK, CursorInv
<1>1. CASE mem' = mem
  BY <1>0, <1>1
<1>2. ASSUME NEW k \in Key, NEW ids, NEW p \in Pending, Prepare(t, k, ids, p)
      PROVE  /\ mem'.init = mem.init /\ mem'.last = mem.last
             /\ \A l \in Key : l # k => mem'.pend[l] = mem.pend[l]
  <2>1. PICK q : q = [p EXCEPT !.left = p.left \cap targets] /\ mem' = [mem EXCEPT !.pend[k] = q]
    BY <1>2 DEF Prepare
  <2>2. q \in Pending
    BY <2>1 DEF Pending
  <2> QED
    BY <2>1, <2>2, PutSnapshot
<1>3. ASSUME NEW k \in Key, NEW ids, Offer(t, k, ids), mem' # mem
      PROVE  /\ mem'.init = mem.init /\ mem'.last = mem.last
             /\ \A l \in Key : mem'.pend[l] # None => mem.pend[l] # None
  <2>1. mem.pend[k] # None /\ Prepare(t, k, ids, mem.pend[k])
    BY <1>3 DEF Offer
  <2>2. PICK p \in Pending : p = mem.pend[k] /\ Prepare(t, k, ids, p)
    BY <1>0, <2>1 DEF State
  <2> QED
    BY <1>2, <2>1, <2>2
<1>4. CASE NewNext(t) /\ mem' # mem
  <2>1. PICK j \in Id : Offer(t, New(j), {m \in task[t].ids : m > j})
    BY <1>4 DEF NewNext
  <2>2. PICK k, ids : k \in Key /\ Offer(t, k, ids)
    BY <1>0, <2>1
  <2> QED
    BY <1>0, <1>3, <1>4, <2>2
<1>5. CASE PinNext(t) /\ mem' # mem
  <2>1. PICK j \in task[t].ids : Offer(t, Pinned(j), task[t].ids)
    BY <1>5 DEF PinNext
  <2>2. Pinned(j) \in Key
    BY <1>0 DEF TaskRec, Pinned, Key
  <2>3. PICK k, ids : k \in Key /\ Offer(t, k, ids)
    BY <2>1, <2>2
  <2> QED
    BY <1>0, <1>3, <1>5, <2>3
<1>6. CASE NewFinish(t) /\ mem' # mem
  <2>1. PICK last \in 0 .. MaxId :
          /\ Greatest(last, task[t].got \cup {mem.last})
          /\ mem' = [mem EXCEPT !.last = last,
               !.pend = [k \in Key |-> IF ~k[2] /\ k[1] \in task[t].got THEN None ELSE @[k]]]
    BY <1>6 DEF NewFinish
  <2>2. /\ mem'.init = mem.init /\ mem'.last = last
        /\ \A k \in Key : mem'.pend[k] = IF ~k[2] /\ k[1] \in task[t].got THEN None ELSE mem.pend[k]
    BY <1>0, <2>1 DEF State
  <2>3. mem.last <= last
    BY <1>0, <2>1 DEF Greatest
  <2> QED
    BY <1>0, <2>2, <2>3
<1>7. CASE PinFinish(t) /\ mem' # mem
  <2>1. mem' = [mem EXCEPT !.pin = task[t].key[1], !.pend[task[t].key] = None]
    BY <1>7 DEF PinFinish
  <2>2. /\ mem'.init = mem.init /\ mem'.last = mem.last
        /\ \A k \in Key : mem'.pend[k] # None => mem.pend[k] # None
    BY <1>0, <2>1 DEF State
  <2> QED
    BY <1>0, <2>2
<1>8. CASE Built(t) /\ mem' # mem
  <2>1. /\ task[t].pc = "build" /\ LiveTask(t)
        /\ Prepare(t, task[t].key, task[t].ids, [left |-> targets, done |-> {}])
    BY <1>8 DEF Built
  <2>2. PICK k, p : /\ k = task[t].key /\ p = [left |-> targets, done |-> {}]
                    /\ Prepare(t, k, task[t].ids, p)
    BY <2>1
  <2>3. p \in Pending /\ k \in KeyOrNone
    BY <2>2, TaskRecord DEF Pending, TypeOK
  <2>4. Work(t) /\ KeyOK(t) /\ targets # {}
    BY <1>0, <2>1 DEF TaskInv, LiveTask, Valid, Work
  <2>5. k \in Key
    <3>1. CASE task[t].pinned
      <4>1. k[2] /\ <<0, FALSE>>[2] = FALSE
        BY <2>1, <2>2, <2>4, <3>1 DEF KeyOK, Busy
      <4> QED
        BY <2>3, <4>1 DEF KeyOrNone
    <3>2. CASE ~task[t].pinned
      <4>1. mem.last < k[1]
        BY <1>0, <2>1, <2>2, <2>4, <3>2 DEF TaskInv, NewTask, Building
      <4>2. k[1] \in 0 .. MaxId
        BY <2>3, KeyType
      <4> QED
        BY <1>0, <2>3, <4>1, <4>2, NewKey DEF Id
    <3> QED
      BY <3>1, <3>2
  <2>6. task[t].pinned => k[2]
    BY <2>1, <2>2, <2>4 DEF KeyOK, Busy
  <2> QED
    BY <1>0, <1>2, <2>2, <2>3, <2>4, <2>5, <2>6
<1>9. CASE SendOk(t)
  BY <1>0, <1>9, SendOkMem
<1>10. CASE SendEnd(t) /\ mem' # mem
  <2>1. PICK k, left : /\ k = task[t].key /\ mem.pend[k] # None
                       /\ mem' = [mem EXCEPT !.pend[k].left = left]
    BY <1>10 DEF SendEnd, Settle
  <2>2. /\ mem'.init = mem.init /\ mem'.last = mem.last
        /\ \A l \in Key : mem'.pend[l] # None => mem.pend[l] # None
    BY <1>0, <2>1 DEF State
  <2> QED
    BY <1>0, <2>2
<1>11. mem' = mem \/ NewNext(t) \/ PinNext(t) \/ NewFinish(t) \/ PinFinish(t) \/ Built(t)
       \/ SendOk(t) \/ SendEnd(t)
  BY DEF TaskNext, TaskRead, TaskCommit, TaskConflict, TaskDbError, SendSkip, SendResume,
         SendStart, SendFailed, SendLost
<1> QED
  BY <1>1, <1>4, <1>5, <1>6, <1>7, <1>8, <1>9, <1>10, <1>11

\* What a task keeps of its batch.
Onto(t) ==
  /\ task'[t].gen = task[t].gen /\ task'[t].pinned = task[t].pinned
  /\ task'[t].ids \subseteq task[t].ids
  /\ task[t].pinned \/ task'[t].key = task[t].key \/ \E i \in task[t].ids : task'[t].key = New(i)

\* The dynamics of a task are those it was spawned for.
LEMMA TaskOnto ==
  ASSUME TypeOK, CursorInv, NEW t \in Task, TaskNext(t) PROVE task'[t].pc = "idle" \/ Onto(t)
<1>0. task \in [Task -> TaskRec] /\ task[t] \in TaskRec /\ IdleTask.pc = "idle"
  BY DEF TypeOK, TasksOK, IdleTask
<1>1. KeepsBatch(t) => Onto(t)
  BY DEF KeepsBatch, Keeps, Onto
<1>2. End(t) => task'[t].pc = "idle"
  <2>1. End(t) => task'[t] = IdleTask
    BY DEF End, Ended
  <2> QED
    BY <1>0, <2>1
<1>3. \A pc : Goto(t, pc) => Onto(t)
  BY <1>1, GotoFields
<1>4. NextTarget(t) => Onto(t)
  BY <1>1, NextTargetFields
<1>5. ASSUME NEW then, Persist(t, task[t], then) PROVE Onto(t)
  BY <1>0, <1>1, <1>5, PersistFields DEF KeepsBatch, Keeps
<1>6. ASSUME NEW k \in Key, NEW ids \in SUBSET task[t].ids, Offer(t, k, ids),
             task[t].pinned \/ \E i \in task[t].ids : k = New(i)
      PROVE  Onto(t)
  <2>0. ids \in SUBSET Id
    BY <1>0 DEF TaskRec
  <2>1. CASE mem.pend[k] = None
    BY <1>6, <2>0, <2>1, BuildFields DEF Keeps, Onto
  <2>2. CASE mem.pend[k] # None
    <3>1. Prepare(t, k, ids, mem.pend[k])
      BY <1>6, <2>2 DEF Offer
    <3>2. PICK p \in Pending : p = mem.pend[k] /\ Prepare(t, k, ids, p)
      BY <2>2, <3>1 DEF TypeOK, State
    <3>3. PICK left : left = p.left \cap targets
      OBVIOUS
    <3>4. Prepared(t, k, ids, left)
      BY <2>0, <3>2, <3>3, PrepareFields
    <3> QED
      BY <1>6, <3>4 DEF Prepared, Keeps, Onto
  <2> QED
    BY <2>1, <2>2
<1>7. CASE NewNext(t)
  <2>1. PICK i \in Id : Least(i, Todo(t)) /\ Offer(t, New(i), {m \in task[t].ids : m > i})
    BY <1>7 DEF NewNext
  <2>2. i \in task[t].ids /\ New(i) \in Key
    BY <2>1, NewKey DEF Least, Todo
  <2>3. PICK k, ids : k = New(i) /\ ids \in SUBSET task[t].ids /\ Offer(t, k, ids)
    BY <2>1
  <2> QED
    BY <1>6, <2>2, <2>3
<1>8. CASE PinNext(t)
  <2>1. PICK i \in task[t].ids : End(t) \/ Offer(t, Pinned(i), task[t].ids)
    BY <1>8 DEF PinNext
  <2>2. Pinned(i) \in Key /\ task[t].pinned
    BY <1>0, <1>8 DEF TaskRec, Pinned, Key, PinNext
  <2>3. CASE Offer(t, Pinned(i), task[t].ids)
    <3>1. PICK k, ids : k \in Key /\ ids \in SUBSET task[t].ids /\ Offer(t, k, ids)
      BY <2>2, <2>3
    <3> QED
      BY <1>6, <2>2, <3>1
  <2> QED
    BY <1>2, <2>1, <2>3
<1>9. CASE NewFinish(t) \/ PinFinish(t)
  BY <1>2, <1>5, <1>9 DEF NewFinish, PinFinish
<1>10. CASE Built(t)
  <2>1. CASE LiveTask(t)
    <3>1. PICK k, p, ids : /\ k = task[t].key /\ p = [left |-> targets, done |-> {}]
                           /\ ids = task[t].ids /\ Prepare(t, k, ids, p)
      BY <1>10, <2>1 DEF Built
    <3>2. PICK left, r, then : /\ left = p.left \cap targets
                               /\ r = [task[t] EXCEPT !.key = k, !.ids = ids, !.queue = left,
                                         !.failed = {},
                                         !.got = IF left = {} THEN @ \cup {k[1]} ELSE @]
                               /\ Persist(t, r, then)
      BY <3>1 DEF Prepare
    <3>3. task'[t] = [r EXCEPT !.pc = "persist", !.then = then]
      BY <1>0, <3>2 DEF Persist
    <3>4. /\ r.key = task[t].key /\ r.ids = task[t].ids
          /\ r.gen = task[t].gen /\ r.pinned = task[t].pinned
      BY <1>0, <3>1, <3>2 DEF TaskRec
    <3>5. DOMAIN r = DOMAIN task[t]
      BY <3>2
    <3> QED
      BY <1>0, <3>3, <3>4, <3>5 DEF TaskRec, Onto
  <2>2. CASE ~LiveTask(t)
    BY <1>3, <1>10, <2>2 DEF Built
  <2> QED
    BY <2>1, <2>2
<1>11. CASE TaskRead(t) \/ TaskCommit(t)
  BY <1>1, <1>2, <1>3, <1>11, ReadFields DEF TaskRead, TaskCommit
<1>12. CASE TaskConflict(t) \/ TaskDbError(t)
  BY <1>2, <1>4, <1>12 DEF TaskConflict, TaskDbError, Raised
<1>13. CASE SendOk(t) \/ SendFailed(t) \/ SendLost(t)
  BY <1>3, <1>4, <1>5, <1>13 DEF SendOk, SendFailed, SendLost
<1>14. CASE SendEnd(t)
  <2>1. ASSUME NEW left, Settle(t, left) PROVE Onto(t)
    <3>1. PICK r, then :
            /\ r = [task[t] EXCEPT !.got = IF left = {} THEN @ \cup {task[t].key[1]} ELSE @]
            /\ Persist(t, r, then)
      BY <2>1 DEF Settle
    <3>2. task'[t] = [r EXCEPT !.pc = "persist", !.then = then]
      BY <1>0, <3>1 DEF Persist
    <3>3. /\ r.key = task[t].key /\ r.ids = task[t].ids
          /\ r.gen = task[t].gen /\ r.pinned = task[t].pinned
      BY <1>0, <3>1 DEF TaskRec
    <3>4. DOMAIN r = DOMAIN task[t]
      BY <3>1
    <3> QED
      BY <1>0, <3>2, <3>3, <3>4 DEF TaskRec, Onto
  <2> QED
    BY <1>3, <1>14, <2>1 DEF SendEnd
<1>15. CASE \E x \in Target : SendSkip(t, x) \/ SendResume(t, x) \/ SendStart(t, x)
  BY <1>1, <1>15, SkipFields, StartFields
<1> QED
  BY <1>7, <1>8, <1>9, <1>10, <1>11, <1>12, <1>13, <1>14, <1>15 DEF TaskNext

\* A task of the present life pushes on what it was spawned for.
LEMMA TaskHist ==
  ASSUME TypeOK, CursorInv, HistInv, NEW t \in Task, TaskNext(t) PROVE HistInv'
<1>1. /\ UNCHANGED <<feed, published, cfg, up, targets, gen, chk, reload>>
      /\ enabled' = enabled
  <2>1. enabled' = enabled
    BY DEF TaskNext, NewNext, NewFinish, PinNext, PinFinish, Built, TaskRead, TaskCommit,
           TaskConflict, TaskDbError, SendSkip, SendResume, SendStart, SendOk, SendFailed, SendLost,
           SendEnd, hist
  <2> QED
    BY <2>1, TaskAround DEF Around
<1>2. /\ mem'.init = mem.init /\ mem.last <= mem'.last
      /\ \A i \in Id : mem'.pend[New(i)] # None =>
           \/ mem.pend[New(i)] # None
           \/ Work(t) /\ ~task[t].pinned /\ task[t].key = New(i) /\ targets # {}
  BY TaskMemory
<1>3. mem.last \in Nat /\ mem'.last \in Nat /\ Id \subseteq Nat
  <2>1. TypeOK'
    BY DeliverType, SendType DEF TaskNext
  <2> QED
    BY <2>1, ParamAssumption DEF TypeOK, State, Id
<1>4. ASSUME NEW u \in Task, Work(u)'
      PROVE  Work(u) /\ (u = t => Onto(t))
             /\ (u # t => /\ task'[u].ids = task[u].ids /\ task'[u].key = task[u].key
                          /\ task'[u].pinned = task[u].pinned)
  <2>1. CASE u = t
    BY <1>1, <1>4, <2>1, TaskOnto, TaskAround DEF Work, Onto
  <2>2. CASE u # t
    BY <1>1, <1>4, <2>2, OneTask DEF Work
  <2> QED
    BY <2>1, <2>2
<1>5. ASSUME NEW u \in Task PROVE HistTask(u)'
  <2> SUFFICES ASSUME Work(u)', ~task'[u].pinned
               PROVE  (\A i \in feed \cap (task[u].ids \cup {task[u].key[1]}) : enabled < i)'
    BY DEF HistTask, Later
  <2>1. Work(u)
    BY <1>4
  <2>2. CASE u # t
    BY <1>1, <1>4, <2>1, <2>2 DEF HistInv, HistTask, Later
  <2>3. CASE u = t
    <3>1. /\ ~task[u].pinned /\ task'[u].ids \subseteq task[u].ids
          /\ task'[u].key = task[u].key \/ \E i \in task[u].ids : task'[u].key = New(i)
      BY <1>4, <2>3 DEF Onto
    <3>2. \A i \in task[u].ids : New(i)[1] = i
      BY DEF New
    <3>3. task'[u].key[1] \in task[u].ids \cup {task[u].key[1]}
      BY <3>1, <3>2
    <3> QED
      BY <1>1, <2>1, <3>1, <3>3 DEF HistInv, HistTask, Later
  <2> QED
    BY <2>2, <2>3
<1>6. ASSUME NEW i \in feed, i \in Id, mem'.pend[New(i)] # None PROVE enabled < i
  <2>1. CASE mem.pend[New(i)] # None
    BY <1>6, <2>1 DEF HistInv, Later
  <2>2. CASE Work(t) /\ ~task[t].pinned /\ task[t].key = New(i)
    <3>1. task[t].key[1] = i
      BY <2>2 DEF New
    <3> QED
      BY <2>2, <3>1 DEF HistInv, HistTask, Later
  <2> QED
    BY <1>2, <1>6, <2>1, <2>2
<1>7. Later({i \in Id : mem.pend[New(i)] # None})'
  BY <1>1, <1>6 DEF Later, New
<1>8. (mem.init => Later({i \in Id : mem.last < i}))'
  <2>1. ASSUME mem'.init, NEW i \in feed, i \in Id, mem'.last < i PROVE enabled < i
    <3>1. mem.init /\ mem.last < i
      BY <1>2, <1>3, <2>1
    <3> QED
      BY <2>1, <3>1 DEF HistInv, Later
  <2> QED
    BY <1>1, <2>1 DEF Later
<1>9. (targets = {} => Disabled)'
  <2> SUFFICES ASSUME targets = {} PROVE Disabled'
    BY <1>1
  <2>1. Disabled
    BY DEF HistInv
  <2>2. \A u \in Task : ~Work(u)'
    BY <1>4, <2>1 DEF Disabled
  <2>3. \A i \in Id : mem'.pend[New(i)] = None
    BY <1>2, <2>1 DEF Disabled
  <2> QED
    BY <1>1, <1>2, <2>1, <2>2, <2>3 DEF Disabled, Fetch, New
<1>10. (\A c \in Check : Fetch(c) => Later(Id \ chk[c].dyn))'
  BY <1>1 DEF HistInv, Fetch, Later
<1> QED
  BY <1>1, <1>5, <1>7, <1>8, <1>9, <1>10 DEF HistInv

\* A step that leaves memory, the present life and its coroutines alone, or ends them.
LEMMA AsideHist ==
  ASSUME TypeOK, HistInv, UNCHANGED <<up, targets, gen, mem, enabled>>,
         reload'.pc # "apply" => targets' = cfg', enabled <= published',
         \A i \in feed' : i \in feed \/ enabled < i,
         \A c \in Check : Fetch(c)' => targets # {} /\ Later(Id \ chk[c].dyn)',
         \A t \in Task : Work(t)' => Work(t) /\ task'[t] = task[t]
  PROVE  HistInv'
<1>1. \A S : Later(S) => \A i \in feed' \cap S : enabled' < i
  BY DEF Later
<1>2. (mem.init => Later({i \in Id : mem.last < i}))'
      /\ Later({i \in Id : mem.pend[New(i)] # None})'
  BY <1>1 DEF HistInv, Later, New
<1>3. (targets = {} => Disabled)'
  BY DEF HistInv, Disabled, New
<1>4. \A t \in Task : HistTask(t)'
  BY <1>1 DEF HistInv, HistTask, Later
<1> QED
  BY <1>2, <1>3, <1>4 DEF HistInv

\* A check: its baseline leaves to be pushed what was published after its request.
LEMMA CheckHist ==
  ASSUME TypeOK, CursorInv, HistInv, NEW c \in Check, CheckNext(c) PROVE HistInv'
<1>1. /\ UNCHANGED <<feed, published, cfg, up, targets, gen, reload>> /\ enabled' = enabled
      /\ \A i \in Id : mem'.pend[New(i)] = mem.pend[New(i)]
      /\ \A d \in Check : d # c => chk'[d] = chk[d]
  <2>1. enabled' = enabled
    BY DEF CheckNext, CheckStart, CheckFailed, CheckStale, CheckBaseline, CheckObserve, CheckRead,
           CheckCommit, CheckConflict, CheckDbError, hist
  <2> QED
    BY <2>1, CheckAround
<1>2. /\ chk \in [Check -> CheckRec] /\ mem \in State /\ mem.last \in Nat /\ Id \subseteq Nat
      /\ MemOK /\ feed \subseteq Id /\ IdleCheck.pc = "idle"
      /\ \A g : [IdleCheck EXCEPT !.pc = "persist", !.gen = g].pc = "persist"
  BY ParamAssumption DEF TypeOK, State, Id, CursorInv, IdleCheck
<1>3. ASSUME ~Fetch(c)'
      PROVE  \A d \in Check : Fetch(d)' => targets # {} /\ Later(Id \ chk[d].dyn)'
  BY <1>1, <1>3 DEF HistInv, Disabled, Fetch, Later
<1>4. CASE CheckStart(c)
  <2>1. chk'[c].dyn = feed
    <3>1. chk' = [chk EXCEPT ![c] = [IdleCheck EXCEPT !.pc = "fetch", !.gen = gen,
                    !.pin = mem.pin, !.dyn = feed, !.feedPin = feedPin]]
      BY <1>4 DEF CheckStart
    <3> QED
      BY <1>2, <3>1 DEF IdleCheck
  <2>2. \A d \in Check : Fetch(d)' => targets # {} /\ Later(Id \ chk[d].dyn)'
    BY <1>1, <1>4, <2>1 DEF HistInv, Disabled, Fetch, Later, CheckStart
  <2>3. mem' = mem /\ task' = task
    BY <1>4 DEF CheckStart
  <2> QED
    BY <1>1, <2>2, <2>3, AsideHist DEF HistInv, Work
<1>5. CASE CheckBaseline(c)
  <2>1. PICK a \in Answers(c), last \in 0 .. MaxId :
          /\ IF a[1] = {} THEN last = mem.last ELSE Greatest(last, a[1])
          /\ mem' = [last |-> last, init |-> TRUE, pin |-> a[2],
                     pend |-> DropPinned(mem.pend, a[2])]
    BY <1>5 DEF CheckBaseline
  <2>2. Fetch(c) /\ targets # {} /\ task' = task /\ mem'.last = last /\ last \in Nat
    BY <1>5, <2>1 DEF CheckBaseline, Fetch, Valid
  <2>3. ~Fetch(c)'
    BY <1>2, <1>5 DEF CheckBaseline, Fetch
  <2>4. ASSUME NEW i \in feed, mem'.last < i PROVE enabled < i
    <3>1. i \notin a[1]
      <4>1. a[1] # {} => Greatest(last, a[1])
        BY <2>1
      <4> QED
        BY <1>2, <2>2, <2>4, <4>1 DEF Greatest
    <3>2. a[1] = chk[c].dyn
      BY <3>1 DEF Answers
    <3> QED
      BY <1>2, <2>2, <3>1, <3>2 DEF HistInv, Later
  <2>5. (mem.init => Later({i \in Id : mem.last < i}))'
    BY <1>1, <2>4 DEF Later
  <2>6. Later({i \in Id : mem.pend[New(i)] # None})'
    BY <1>1 DEF HistInv, Later, New
  <2>7. \A t \in Task : HistTask(t)'
    BY <1>1, <2>2 DEF HistInv, HistTask, Later, Work
  <2>8. (\A d \in Check : Fetch(d) => Later(Id \ chk[d].dyn))'
    BY <1>3, <2>3
  <2> QED
    BY <1>1, <2>2, <2>5, <2>6, <2>7, <2>8 DEF HistInv
<1>6. CASE CheckObserve(c)
  <2>1. PICK a \in Answers(c), tp \in Task, tn \in Task : Observe(c, a, tp, tn)
    BY <1>6 DEF CheckObserve
  <2>2. /\ targets # {} /\ mem.init /\ mem'.init = mem.init /\ mem'.last = mem.last
    BY <1>2, <1>6, <2>1 DEF CheckObserve, Valid, Observe, State
  <2>3. ~Fetch(c)'
    BY <1>2, <2>1 DEF Observe, Fetch
  <2>4. ASSUME NEW i \in feed, i \in Batch(a) PROVE enabled < i
    <3>1. i \in Id /\ (i > mem.last \/ mem.pend[New(i)] # None)
      <4>1. PendAfter(a)[New(i)] # None => mem.pend[New(i)] # None
        <5>1. New(i) \in Key /\ ~New(i)[2]
          BY <1>2, NewKey
        <5> QED
          BY <5>1 DEF PendAfter, DropPinned
      <4> QED
        BY <1>2, <2>4, <4>1 DEF Batch
    <3> QED
      BY <1>2, <2>2, <3>1 DEF HistInv, Later
  <2>5. ASSUME NEW t \in Task PROVE HistTask(t)'
    <3>1. CASE task'[t] = task[t]
      BY <1>1, <3>1 DEF HistInv, HistTask, Later, Work
    <3>2. ASSUME NEW ids, Spawned(task'[t], ids), task'[t].pinned \/ ids = Batch(a)
          PROVE  HistTask(t)'
      <4>1. <<0, FALSE>>[1] = 0 /\ 0 \notin feed
        BY <1>2 DEF Id
      <4> QED
        BY <1>1, <2>4, <3>2, <4>1 DEF HistTask, Later, Spawned
    <3> QED
      BY <2>1, <3>1, <3>2, ObserveTask
  <2>6. (mem.init => Later({i \in Id : mem.last < i}))'
        /\ Later({i \in Id : mem.pend[New(i)] # None})'
    BY <1>1, <2>2 DEF HistInv, Later, New
  <2>7. (\A d \in Check : Fetch(d) => Later(Id \ chk[d].dyn))'
    BY <1>3, <2>3
  <2> QED
    BY <1>1, <2>2, <2>5, <2>6, <2>7 DEF HistInv
<1>7. CASE \/ CheckFailed(c) \/ CheckStale(c) \/ CheckRead(c) \/ CheckCommit(c)
           \/ CheckConflict(c) \/ CheckDbError(c)
  <2>1. mem' = mem /\ task' = task
    BY <1>7 DEF CheckFailed, CheckStale, CheckRead, CheckCommit, CheckConflict, CheckDbError
  <2>2. ~Fetch(c)'
    <3>1. CASE CheckRead(c)
      <4>1. \/ chk'[c] = [chk[c] EXCEPT !.pc = "commit", !.base = row, !.cap = mem]
            \/ chk'[c] = IdleCheck
        BY <1>2, <3>1 DEF CheckRead
      <4> QED
        BY <1>2, <4>1 DEF Fetch, CheckRec
    <3>2. CASE ~CheckRead(c)
      <4>1. chk'[c] = IdleCheck
        BY <1>2, <1>7, <3>2 DEF CheckFailed, CheckStale, CheckCommit, CheckConflict, CheckDbError
      <4> QED
        BY <1>2, <4>1 DEF Fetch
    <3> QED
      BY <3>1, <3>2
  <2>3. \A d \in Check : Fetch(d)' => targets # {} /\ Later(Id \ chk[d].dyn)'
    BY <1>3, <2>2
  <2> QED
    BY <1>1, <2>1, <2>3, AsideHist DEF HistInv, Work
<1> QED
  BY <1>4, <1>5, <1>6, <1>7 DEF CheckNext

\* The uploader publishes after the uid was enabled.
LEMMA WorldHist == ASSUME TypeOK, HistInv, World PROVE HistInv'
<1> USE DEF world, db, proc, hist
<1>1. UNCHANGED <<cfg, up, targets, gen, mem, chk, task, reload, enabled>>
  BY DEF World, Publish, Vanish, SetPin
<1>2. published \in Nat /\ enabled \in Nat /\ enabled <= published
  BY ParamAssumption DEF TypeOK, HistInv
<1>3. enabled <= published' /\ \A i \in feed' : i \in feed \/ enabled < i
  BY <1>2 DEF World, Publish, Vanish, SetPin
<1>4. \A c \in Check : Fetch(c)' => targets # {} /\ Later(Id \ chk[c].dyn)'
  BY <1>1, <1>3 DEF HistInv, Disabled, Fetch, Later
<1> QED
  BY <1>1, <1>3, <1>4, AsideHist DEF HistInv, Work

\* A reload: the uid is enabled when nothing of its former lives is left to push.
LEMMA ReloadHist == ASSUME TypeOK, CursorInv, HistInv, ReloadNext PROVE HistInv'
<1> USE DEF world, db, proc, hist
<1>0. /\ reload \in [pc: {"idle", "apply", "reset", "delete", "deleting"}, found: BOOLEAN]
      /\ gen \in Nat /\ mem \in State /\ IdleReload.pc = "idle" /\ chk \in [Check -> CheckRec]
      /\ published \in Nat
  BY ParamAssumption DEF TypeOK, IdleReload
<1>1. UNCHANGED <<feed, published, up, chk, task>>
  BY DEF ReloadNext, ReloadStart, ReloadApply, ReloadReset, DeleteRead, DeleteCommit, DeleteDbError
<1>2. CASE \E new \in SUBSET Target : ReloadStart(new)
  <2>1. PICK new \in SUBSET Target : ReloadStart(new)
    BY <1>2
  <2>2. /\ UNCHANGED <<targets, gen, mem>> /\ reload.pc = "idle" /\ reload'.pc = "apply"
        /\ enabled' = IF cfg = {} THEN published ELSE enabled
    BY <1>0, <2>1 DEF ReloadStart
  <2>3. CASE cfg # {}
    <3>1. \A c \in Check : Fetch(c)' => targets # {} /\ Later(Id \ chk[c].dyn)'
      BY <1>1, <2>2, <2>3 DEF HistInv, Disabled, Fetch, Later
    <3> QED
      BY <1>1, <2>2, <2>3, <3>1, AsideHist DEF HistInv, Work
  <2>4. CASE cfg = {}
    <3>1. targets = {} /\ Disabled
      BY <2>2, <2>4 DEF HistInv
    <3>2. Disabled'
      BY <1>1, <2>2, <3>1 DEF Disabled, Fetch, Work, New
    <3>3. enabled' <= published'
      BY <1>0, <1>1, <2>2, <2>4
    <3> QED
      BY <1>1, <2>2, <3>2, <3>3 DEF HistInv, Disabled, HistTask, Later
  <2> QED
    BY <2>3, <2>4
<1>3. ASSUME gen' = gen + 1 PROVE (\A c \in Check : ~Fetch(c)') /\ (\A t \in Task : ~Work(t)')
  <2>1. \A c \in Check : chk[c].pc # "idle" => chk[c].gen <= gen /\ chk[c].gen \in Nat
    BY <1>0 DEF CursorInv, CheckOK, CheckRec
  <2>2. \A t \in Task : task[t].pc # "idle" => task[t].gen <= gen /\ task[t].gen \in Nat
    BY DEF CursorInv, TaskInv, LifeOK, TypeOK, TasksOK, TaskRec
  <2> QED
    BY <1>0, <1>1, <1>3, <2>1, <2>2 DEF Fetch, Work
<1>4. CASE ReloadApply
  <2>1. targets' = cfg /\ cfg' = cfg /\ enabled' = enabled
    BY <1>4 DEF ReloadApply
  <2>2. CASE cfg = {}
    <3>1. gen' = gen + 1 /\ ~mem'.init /\ \A k \in Key : mem'.pend[k] = None
      BY <1>4, <2>2 DEF ReloadApply, Blank
    <3>2. Disabled'
      BY <1>3, <3>1, NewKey DEF Disabled, New
    <3> QED
      BY <1>1, <2>1, <3>2 DEF HistInv, Disabled, HistTask, Later
  <2>3. CASE cfg # {}
    <3>1. UNCHANGED <<gen, mem>>
      BY <1>4, <2>3 DEF ReloadApply
    <3> QED
      BY <1>1, <2>1, <2>3, <3>1 DEF HistInv, HistTask, Later, Fetch, Work, New
  <2> QED
    BY <2>2, <2>3
<1>5. CASE ReloadReset
  <2>1. gen' = gen + 1 /\ UNCHANGED <<cfg, targets, enabled>> /\ reload.pc # "apply"
    BY <1>5 DEF ReloadReset
  <2>2. ~mem'.init /\ mem'.pend = mem.pend
    <3>1. mem' = [mem EXCEPT !.last = 0, !.init = FALSE, !.pin = 0]
      BY <1>5 DEF ReloadReset
    <3> QED
      BY <1>0, <3>1 DEF State
  <2>3. (targets = {} => Disabled)'
    BY <1>3, <2>1, <2>2 DEF HistInv, Disabled, New
  <2>4. Later({i \in Id : mem.pend[New(i)] # None})'
    BY <1>1, <2>1, <2>2 DEF HistInv, Later, New
  <2> QED
    BY <1>1, <1>3, <2>1, <2>2, <2>3, <2>4 DEF HistInv, HistTask
<1>6. CASE DeleteRead \/ DeleteCommit \/ DeleteDbError
  <2>1. UNCHANGED <<cfg, targets, gen, mem, enabled>> /\ reload.pc # "apply"
    BY <1>6 DEF DeleteRead, DeleteCommit, DeleteDbError
  <2>2. \A c \in Check : Fetch(c)' => targets # {} /\ Later(Id \ chk[c].dyn)'
    BY <1>1, <2>1 DEF HistInv, Disabled, Fetch, Later
  <2> QED
    BY <1>1, <2>1, <2>2, AsideHist DEF HistInv, Work
<1> QED
  BY <1>2, <1>4, <1>5, <1>6 DEF ReloadNext

\* The initial state.
LEMMA InitHist == Init => HistInv
<1> SUFFICES ASSUME Init PROVE HistInv
  OBVIOUS
<1>1. /\ feed = {} /\ published = 0 /\ enabled = 0 /\ cfg = Target /\ targets = Target /\ up
      /\ mem = Blank
  BY DEF Init
<1>2. (\A c \in Check : chk[c].pc = "idle") /\ (\A t \in Task : task[t].pc = "idle")
  BY DEF Init, IdleCheck, IdleTask
<1>3. ~mem.init /\ \A k \in Key : mem.pend[k] = None
  BY <1>1 DEF Blank
<1> QED
  BY <1>1, <1>2, <1>3, NewKey DEF HistInv, Disabled, HistTask, Later, Fetch, Work

\* Every step keeps the invariant, as long as the process lives.
LEMMA HistStep == MaxCrash = 0 /\ TypeOK /\ CursorInv /\ HistInv /\ [Next]_vars => HistInv'
<1> SUFFICES ASSUME MaxCrash = 0, TypeOK, CursorInv, HistInv, [Next]_vars PROVE HistInv'
  OBVIOUS
<1>1. ~Crash /\ ~Restart
  <2>1. spent.crash \in Nat
    BY DEF TypeOK
  <2> QED
    BY <2>1 DEF Crash, Restart, HistInv
<1>2. CASE UNCHANGED vars
  <2>1. /\ UNCHANGED <<feed, published, cfg, up, targets, gen, mem, chk, task, reload, enabled>>
    BY <1>2 DEF vars, world, db, proc, hist
  <2>2. \A c \in Check : Fetch(c)' => targets # {} /\ Later(Id \ chk[c].dyn)'
    BY <2>1 DEF HistInv, Disabled, Fetch, Later
  <2> QED
    BY <2>1, <2>2, AsideHist DEF HistInv, Work
<1> QED
  BY <1>1, <1>2, WorldHist, CheckHist, TaskHist, ReloadHist DEF Next

\* What was published before the uid was enabled is never pushed as new: also when it
\* is disabled and enabled again, any number of times, while checks, pushes and commits
\* of its former lives are on their way (_check_still_valid), as long as the process
\* lives and nothing leaves the list.
THEOREM HistoryKept == ASSUME MaxCrash = 0, MaxVanish = 0 PROVE Spec => NoHistory
<1> DEFINE Young == \A t \in Task, i \in Id, x \in Target : Starts(t, i, x) => i > enabled
<1>1. TypeOK /\ CursorInv /\ OnceInv /\ HistInv /\ [Next]_vars => Young
  <2> SUFFICES ASSUME TypeOK, CursorInv, OnceInv, HistInv, [Next]_vars, NEW t \in Task,
                      NEW i \in Id, NEW x \in Target, Starts(t, i, x)
               PROVE  i > enabled
    OBVIOUS
  <2>1. Work(t) /\ ~task[t].pinned /\ NewTask(t) /\ task[t].key[1] = i
    BY StartsLive
  <2>2. i \in feed
    <3>1. i \in 1 .. published
      <4>1. i \in 0 .. published
        BY <2>1 DEF NewTask, Reached
      <4> QED
        BY <4>1, ParamAssumption DEF TypeOK, Id
    <3> QED
      BY <3>1 DEF OnceInv, WorldInv
  <2>3. enabled < i
    BY <2>1, <2>2 DEF HistInv, HistTask, Later
  <2>4. enabled \in Nat /\ i \in Nat
    BY ParamAssumption DEF TypeOK, Id
  <2> QED
    BY <2>3, <2>4
<1>2. Spec => []CursorInv
  BY InitCursor, CursorStep, TypeCorrect, PTL DEF Spec
<1>3. Spec => []OnceInv
  <2>1. EnabledOnce
    BY DEF EnabledOnce
  <2>2. TypeOK /\ TypeOK' /\ CursorInv /\ OnceInv /\ [Next]_vars => OnceInv'
    BY <2>1, OnceStep
  <2> QED
    BY <1>2, <2>2, InitOnce, TypeCorrect, PTL DEF Spec
<1>4. TypeOK /\ CursorInv /\ HistInv /\ [Next]_vars => HistInv'
  BY HistStep
<1>5. Spec => []HistInv
  BY <1>2, <1>4, InitHist, TypeCorrect, PTL DEF Spec
<1>6. Spec => [][Young]_vars
  BY <1>1, <1>2, <1>3, <1>5, TypeCorrect, PTL DEF Spec
<1> QED
  BY <1>6 DEF NoHistory
=============================================================================
