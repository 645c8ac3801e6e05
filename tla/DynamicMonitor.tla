--------------------------- MODULE DynamicMonitor ---------------------------
(***************************************************************************)
(* One monitored uploader (uid) of plugins/dynamic_monitor: the polling    *)
(* checks, the background delivery tasks they spawn, the database row that *)
(* holds the cursor and the pending snapshots, hot reload of the           *)
(* configuration, and the crash and restart of the bot.                    *)
(*                                                                         *)
(* The bot runs on one asyncio loop, so a step of this module is the code  *)
(* between two awaits.  A database session runs on a thread of its own:    *)
(* reading the row (and changing the loaded object) is one step, and the   *)
(* commit of the changed columns is a later one.                           *)
(***************************************************************************)
EXTENDS Naturals, FiniteSets, FiniteSetsExt

CONSTANTS
  Target,     \* groups and friends the uid can be pushed to
  Check,      \* slots for concurrent checks: poll job, manual check, the check
              \* of a new target after a reload
  Task,       \* slots for background delivery tasks
  None,       \* no row, no pending snapshot
  MaxId,      \* bound: dynamics the uploader publishes
  MaxPin,     \* bound: changes of the pinned dynamic
  MaxVanish,  \* bound: dynamics that leave the list (deleted, scrolled out)
  MaxReload,  \* bound: configuration changes
  MaxCrash,   \* bound: crashes of the bot
  MaxFail,    \* bound: fetches and sends that fail or are rejected
  MaxDbFail   \* bound: database errors

ASSUME ParamAssumption ==
  /\ {MaxId, MaxPin, MaxVanish, MaxReload, MaxCrash, MaxFail, MaxDbFail} \subseteq Nat

Id  == 1 .. MaxId
\* pending_key: a dynamic, and whether it is pushed as the new pinned one.
Key == Id \X BOOLEAN
New(i)    == <<i, FALSE>>
Pinned(i) == <<i, TRUE>>

\* PendingDelivery: the targets still to serve, and those whose only part was
\* sent (group_starts / user_starts = 1).
Pending == [left: SUBSET Target, done: SUBSET Target]

\* What is kept for the uid in memory, and in its row.  pin = 0 is "no pin".
State == [last: 0 .. MaxId, init: BOOLEAN, pin: 0 .. MaxId,
          pend: [Key -> Pending \cup {None}]]
Blank == [last |-> 0, init |-> FALSE, pin |-> 0, pend |-> [k \in Key |-> None]]

ASSUME NoneAssumption == None \notin Pending /\ None \notin State /\ None \notin Target

VARIABLES
  feed, feedPin, published, \* the uploader's space, as the API shows it
  cfg, row,                 \* database: enabled targets, state row
  up, targets, gen, epoch,  \* process: config in use, check generation, lock epoch
  mem,                      \* process: cursor, initialized, pin, pending snapshots
  chk, task, reload,        \* coroutines
  sent,                     \* history: pushes of a key to a target
  owed,                     \* history: targets a snapshot still has to serve
  base,                     \* history: cursor of the last baseline
  enabled,                  \* history: what was published when the uid was enabled
  spent                     \* budgets used; lost: sends whose receipt was lost

world == <<feed, feedPin, published>>
db    == <<cfg, row>>
proc  == <<up, targets, gen, epoch>>
hist  == <<sent, owed, base, enabled>>
vars  == <<world, db, proc, mem, chk, task, reload, hist, spent>>

IdleCheck == [pc |-> "idle", gen |-> 0, pin |-> 0, dyn |-> {}, feedPin |-> 0,
              base |-> None, cap |-> Blank]
\* ahead: the tasks that queue for, or hold, the same asyncio.Lock before it.
IdleTask  == [pc |-> "idle", pinned |-> FALSE, ids |-> {}, gen |-> 0, epoch |-> 0,
              ahead |-> {}, force |-> FALSE, key |-> <<0, FALSE>>, got |-> {}, queue |-> {},
              failed |-> {}, to |-> None, then |-> "end", base |-> None, cap |-> Blank]
IdleReload == [pc |-> "idle", found |-> FALSE]

Greatest(m, S) == m \in S /\ \A n \in S : n <= m
Least(m, S) == m \in S /\ \A n \in S : m <= n

\* Mutation of Valid: a check of a former life of the uid is not told apart.
ValidWithoutGeneration(g) == targets # {}

\* _check_still_valid: the uid is enabled and was not removed or re-added since.
Valid(g) == targets # {} /\ gen = g

Init ==
  /\ feed = {} /\ feedPin = 0 /\ published = 0
  /\ cfg = Target /\ row = None
  /\ up = TRUE /\ targets = Target /\ gen = 0 /\ epoch = 0 /\ mem = Blank
  /\ chk = [c \in Check |-> IdleCheck]
  /\ task = [t \in Task |-> IdleTask]
  /\ reload = IdleReload
  /\ sent = [k \in Key |-> [x \in Target |-> 0]]
  /\ owed = [k \in Key |-> Target]
  /\ base = 0 /\ enabled = 0
  /\ spent = [pin |-> 0, vanish |-> 0, reload |-> 0, crash |-> 0, fail |-> 0,
              lost |-> 0, db |-> 0]

-----------------------------------------------------------------------------
(* The uploader *)

Publish ==
  /\ published < MaxId
  /\ published' = published + 1
  /\ feed' = feed \cup {published + 1}
  /\ UNCHANGED <<feedPin, db, proc, mem, chk, task, reload, hist, spent>>

\* A dynamic is deleted, filtered by the parser or scrolls out of the first page.
Vanish(i) ==
  /\ i \in feed /\ spent.vanish < MaxVanish
  /\ feed' = feed \ {i}
  /\ spent' = [spent EXCEPT !.vanish = @ + 1]
  /\ UNCHANGED <<feedPin, published, db, proc, mem, chk, task, reload, hist>>

SetPin(i) ==
  /\ i \in feed \cup {0} /\ i # feedPin /\ spent.pin < MaxPin
  /\ feedPin' = i
  /\ spent' = [spent EXCEPT !.pin = @ + 1]
  /\ UNCHANGED <<feed, published, db, proc, mem, chk, task, reload, hist>>

-----------------------------------------------------------------------------
(* state_store.persist: read the row, copy memory into it, commit.  The ORM *)
(* writes the columns that differ from what was read.                       *)

Column(old, new, now) == IF new # old THEN new ELSE now

Merged(old, new, now) ==
  IF old = None THEN new
  ELSE IF now = None THEN None
  ELSE [last |-> Column(old.last, new.last, now.last),
        init |-> Column(old.init, new.init, now.init),
        pin  |-> Column(old.pin, new.pin, now.pin),
        pend |-> Column(old.pend, new.pend, now.pend)]

\* An INSERT over a row that appeared, or an UPDATE of one that is gone, fails.
Conflict(old, new) == \/ old = None /\ row # None
                      \/ old # None /\ row = None /\ new # old

-----------------------------------------------------------------------------
(* _check_user_dynamic *)

\* The request leaves; the server may answer from its state now or later.
CheckStart(c) ==
  /\ up /\ targets # {} /\ chk[c].pc = "idle"
  /\ chk' = [chk EXCEPT ![c] = [IdleCheck EXCEPT !.pc = "fetch", !.gen = gen,
                !.pin = mem.pin, !.dyn = feed, !.feedPin = feedPin]]
  /\ UNCHANGED <<world, db, proc, mem, task, reload, hist, spent>>

CheckFailed(c) ==
  /\ chk[c].pc = "fetch" /\ spent.fail < MaxFail
  /\ chk' = [chk EXCEPT ![c] = IdleCheck]
  /\ spent' = [spent EXCEPT !.fail = @ + 1]
  /\ UNCHANGED <<world, db, proc, mem, task, reload, hist>>

CheckStale(c) ==
  /\ chk[c].pc = "fetch" /\ ~Valid(chk[c].gen)
  /\ chk' = [chk EXCEPT ![c] = IdleCheck]
  /\ UNCHANGED <<world, db, proc, mem, task, reload, hist, spent>>

Answers(c) == {<<chk[c].dyn, chk[c].feedPin>>, <<feed, feedPin>>}

\* Pending pushes of a dynamic that is no longer the pinned one are dropped.
DropPinned(pend, pin) ==
  [k \in Key |-> IF k[2] /\ k[1] # pin THEN None ELSE pend[k]]

\* The first check records where the uploader is, and pushes nothing.
CheckBaseline(c) ==
  /\ chk[c].pc = "fetch" /\ Valid(chk[c].gen) /\ ~mem.init
  /\ \E a \in Answers(c), last \in 0 .. MaxId :
       /\ IF a[1] = {} THEN last = mem.last ELSE Greatest(last, a[1])
       /\ mem' = [last |-> last, init |-> TRUE, pin |-> a[2],
                  pend |-> DropPinned(mem.pend, a[2])]
       /\ base' = last
  /\ chk' = [chk EXCEPT ![c] = [IdleCheck EXCEPT !.pc = "persist", !.gen = chk[c].gen]]
  /\ UNCHANGED <<world, db, proc, task, reload, sent, owed, enabled, spent>>

\* Mutations of Adopt and Batch: a pin that is not pushed is not recorded either;
\* a snapshot is only tried again while the list shows its dynamic.
AdoptNever(c, a) == FALSE
BatchOfList(a) == {i \in a[1] : i > mem.last}

\* After an answer a: what is left pending, whether the pin change is pushed or
\* just recorded, and the dynamics to push (collect_new_dynamics, and those that
\* have a snapshot of an earlier attempt).
PendAfter(a)  == DropPinned(mem.pend, a[2])
PushPin(c, a) == /\ a[2] # chk[c].pin /\ a[2] # 0 /\ chk[c].pin # 0
                 /\ a[2] \in a[1] \/ PendAfter(a)[Pinned(a[2])] # None
Adopt(c, a)   == a[2] # chk[c].pin /\ ~PushPin(c, a)
Batch(a)      == {i \in a[1] : i > mem.last} \cup {i \in Id : PendAfter(a)[New(i)] # None}

\* asyncio.Lock wakes its waiters in order, and tasks start in the order they
\* were created: a task waits for the earlier ones of its lock.
Spawn(tasks, t, pinned, ids, force) ==
  [tasks EXCEPT ![t] = [IdleTask EXCEPT !.pc = "next", !.pinned = pinned, !.ids = ids,
     !.force = force, !.gen = gen, !.epoch = epoch,
     !.ahead = {u \in Task : tasks[u].pc # "idle" /\ tasks[u].epoch = epoch}]]

\* A check after the first one: drop obsolete pinned snapshots, spawn the push
\* of a changed pin and of the new dynamics, and persist when nothing else will.
Observe(c, a, tp, tn) ==
  LET withPin == IF PushPin(c, a) THEN Spawn(task, tp, TRUE, {a[2]}, FALSE) ELSE task
  IN /\ PushPin(c, a) => task[tp].pc = "idle"
     /\ Batch(a) # {} => withPin[tn].pc = "idle"
     /\ mem' = [mem EXCEPT !.pend = PendAfter(a), !.pin = IF Adopt(c, a) THEN a[2] ELSE @]
     /\ task' = IF Batch(a) # {} THEN Spawn(withPin, tn, FALSE, Batch(a), Adopt(c, a))
                                 ELSE withPin
     /\ chk' = [chk EXCEPT ![c] =
          IF Batch(a) = {} /\ (Adopt(c, a) \/ PendAfter(a) # mem.pend)
            THEN [IdleCheck EXCEPT !.pc = "persist", !.gen = chk[c].gen]
            ELSE IdleCheck]

CheckObserve(c) ==
  /\ chk[c].pc = "fetch" /\ Valid(chk[c].gen) /\ mem.init
  /\ \E a \in Answers(c), tp, tn \in Task : Observe(c, a, tp, tn)
  /\ UNCHANGED <<world, db, proc, reload, hist, spent>>

CheckRead(c) ==
  /\ chk[c].pc = "persist"
  /\ chk' = [chk EXCEPT ![c] =
       IF Valid(@.gen) THEN [@ EXCEPT !.pc = "commit", !.base = row, !.cap = mem]
                       ELSE IdleCheck]
  /\ UNCHANGED <<world, db, proc, mem, task, reload, hist, spent>>

CheckCommit(c) ==
  /\ chk[c].pc = "commit" /\ ~Conflict(chk[c].base, chk[c].cap)
  /\ row' = Merged(chk[c].base, chk[c].cap, row)
  /\ chk' = [chk EXCEPT ![c] = IdleCheck]
  /\ UNCHANGED <<world, cfg, proc, mem, task, reload, hist, spent>>

CheckConflict(c) ==
  /\ chk[c].pc = "commit" /\ Conflict(chk[c].base, chk[c].cap)
  /\ chk' = [chk EXCEPT ![c] = IdleCheck]
  /\ UNCHANGED <<world, db, proc, mem, task, reload, hist, spent>>

CheckDbError(c) ==
  /\ chk[c].pc \in {"persist", "commit"} /\ spent.db < MaxDbFail
  /\ chk' = [chk EXCEPT ![c] = IdleCheck]
  /\ spent' = [spent EXCEPT !.db = @ + 1]
  /\ UNCHANGED <<world, db, proc, mem, task, reload, hist>>

-----------------------------------------------------------------------------
(* _deliver_new_dynamics and _deliver_pinned_change *)

\* Mutation of Ended: the lock is not handed on.
EndedHoldingLock(t) == [task EXCEPT ![t] = IdleTask]

\* The task is over, or raised: the lock goes to the next waiter.
Ended(t) == [u \in Task |-> IF u = t THEN IdleTask
                                     ELSE [task[u] EXCEPT !.ahead = @ \ {t}]]
End(t) == task' = Ended(t)

Goto(t, pc) == task' = [task EXCEPT ![t] =
                 [@ EXCEPT !.pc = pc, !.to = None, !.base = None, !.cap = Blank]]

HoldsLock(t) == task[t].ahead = {}
LiveTask(t) == Valid(task[t].gen)

\* Await _persist_state, then go on at "then".
Persist(t, r, then) == task' = [task EXCEPT ![t] =
                         [r EXCEPT !.pc = "persist", !.then = then]]

\* Mutation of Todo: the cursor is not looked at again under the lock.
TodoAsSpawned(t) == task[t].ids

\* Dynamics of the task that are neither behind the cursor nor done.
Todo(t) == {i \in task[t].ids : i > mem.last \/ mem.pend[New(i)] # None}

\* _send_dynamic_notification up to the first send: targets that left the
\* configuration are dropped from the snapshot p; with none left the push is done.
Prepare(t, k, ids, p) ==
  LET left == p.left \cap targets
      r    == [task[t] EXCEPT !.key = k, !.ids = ids, !.queue = left, !.failed = {},
                 !.got = IF left = {} THEN @ \cup {k[1]} ELSE @]
  IN /\ mem' = [mem EXCEPT !.pend[k] = [p EXCEPT !.left = left]]
     /\ Persist(t, r, IF left = {} THEN "next" ELSE "send")

\* A push with a snapshot of an earlier attempt reuses it; otherwise the name
\* and the screenshot are fetched first.
Offer(t, k, ids) ==
  IF mem.pend[k] = None
    THEN /\ task' = [task EXCEPT ![t] = [@ EXCEPT !.pc = "build", !.key = k, !.ids = ids]]
         /\ UNCHANGED <<mem, owed>>
    ELSE /\ Prepare(t, k, ids, mem.pend[k])
         /\ owed' = [owed EXCEPT ![k] = @ \cap targets]

NewNext(t) ==
  /\ task[t].pc = "next" /\ ~task[t].pinned /\ HoldsLock(t)
  /\ LiveTask(t)
  /\ \E i \in Id : /\ Least(i, Todo(t))
                   /\ Offer(t, New(i), {j \in task[t].ids : j > i})
  /\ UNCHANGED <<world, db, proc, chk, reload, sent, base, enabled, spent>>

\* The loop is over: advance the cursor over what was pushed, and persist the
\* cursor and the removal of the snapshots in one row.
NewFinish(t) ==
  /\ ~task[t].pinned /\ HoldsLock(t)
  /\ \/ task[t].pc = "stop"
     \/ task[t].pc = "next" /\ (~LiveTask(t) \/ Todo(t) = {})
  /\ LET got == task[t].got IN
     IF LiveTask(t) /\ (got # {} \/ task[t].force)
       THEN /\ \E last \in 0 .. MaxId :
                 /\ Greatest(last, got \cup {mem.last})
                 /\ mem' = [mem EXCEPT !.last = last,
                      !.pend = [k \in Key |->
                                  IF ~k[2] /\ k[1] \in got THEN None ELSE @[k]]]
            /\ Persist(t, task[t], "end")
       ELSE End(t) /\ UNCHANGED mem
  /\ UNCHANGED <<world, db, proc, chk, reload, hist, spent>>

\* Mutation of PinNext: the recorded pin is not looked at again under the lock.
PinNextUnchecked(t) ==
  /\ task[t].pc = "next" /\ task[t].pinned /\ HoldsLock(t) /\ task[t].got = {}
  /\ \E i \in task[t].ids : IF ~LiveTask(t) THEN End(t) /\ UNCHANGED <<mem, owed>>
                                             ELSE Offer(t, Pinned(i), task[t].ids)
  /\ UNCHANGED <<world, db, proc, chk, reload, sent, base, enabled, spent>>

PinNext(t) ==
  /\ task[t].pc = "next" /\ task[t].pinned /\ HoldsLock(t) /\ task[t].got = {}
  /\ \E i \in task[t].ids :
       IF mem.pin = i \/ ~LiveTask(t)
         THEN End(t) /\ UNCHANGED <<mem, owed>>
         ELSE Offer(t, Pinned(i), task[t].ids)
  /\ UNCHANGED <<world, db, proc, chk, reload, sent, base, enabled, spent>>

PinFinish(t) ==
  /\ task[t].pinned
  /\ \/ task[t].pc = "stop" /\ End(t) /\ UNCHANGED mem
     \/ /\ task[t].pc = "next" /\ task[t].got # {}
        /\ IF LiveTask(t)
             THEN /\ mem' = [mem EXCEPT !.pin = task[t].key[1], !.pend[task[t].key] = None]
                  /\ Persist(t, task[t], "end")
             ELSE End(t) /\ UNCHANGED mem
  /\ UNCHANGED <<world, db, proc, chk, reload, hist, spent>>

\* Name and image are there: the snapshot takes the targets configured by now.
Built(t) ==
  /\ task[t].pc = "build"
  /\ LET k == task[t].key IN
     IF LiveTask(t)
       THEN /\ Prepare(t, k, task[t].ids, [left |-> targets, done |-> {}])
            /\ owed' = [owed EXCEPT ![k] = targets]
       ELSE Goto(t, "stop") /\ UNCHANGED <<mem, owed>>
  /\ UNCHANGED <<world, db, proc, chk, reload, sent, base, enabled, spent>>

TaskRead(t) ==
  /\ task[t].pc = "persist"
  /\ IF LiveTask(t)
       THEN task' = [task EXCEPT ![t] = [@ EXCEPT !.pc = "commit", !.base = row, !.cap = mem]]
       ELSE IF task[t].then = "end" THEN End(t) ELSE Goto(t, task[t].then)
  /\ UNCHANGED <<world, db, proc, mem, chk, reload, hist, spent>>

TaskCommit(t) ==
  /\ task[t].pc = "commit" /\ ~Conflict(task[t].base, task[t].cap)
  /\ row' = Merged(task[t].base, task[t].cap, row)
  /\ IF task[t].then = "end" THEN End(t) ELSE Goto(t, task[t].then)
  /\ UNCHANGED <<world, cfg, proc, mem, chk, reload, hist, spent>>

\* The target of the current send failed: go on with the next one.
NextTarget(t) == task' = [task EXCEPT ![t] =
  [task[t] EXCEPT !.pc = "send", !.to = None, !.base = None, !.cap = Blank,
                  !.failed = task[t].failed \cup {task[t].to}]]

\* After a send, a failed checkpoint counts the target as failed; anywhere else
\* the exception ends the task and leaves cursor and snapshots as they are.
Raised(t) == IF task[t].to # None THEN NextTarget(t) ELSE End(t)

TaskConflict(t) ==
  /\ task[t].pc = "commit" /\ Conflict(task[t].base, task[t].cap)
  /\ Raised(t)
  /\ UNCHANGED <<world, db, proc, mem, chk, reload, hist, spent>>

TaskDbError(t) ==
  /\ task[t].pc \in {"persist", "commit"} /\ spent.db < MaxDbFail
  /\ Raised(t)
  /\ spent' = [spent EXCEPT !.db = @ + 1]
  /\ UNCHANGED <<world, db, proc, mem, chk, reload, hist>>

-----------------------------------------------------------------------------
(* sender.send_message: one target after the other, a checkpoint after each  *)

\* is_target_active: the snapshot is still the one to push, for a live check,
\* to a configured target.
Active(t, x) == mem.pend[task[t].key] # None /\ LiveTask(t) /\ x \in targets

SendSkip(t, x) ==
  /\ task[t].pc = "send" /\ x \in task[t].queue /\ ~Active(t, x)
  /\ task' = [task EXCEPT ![t].queue = @ \ {x}]
  /\ owed' = [owed EXCEPT ![task[t].key] = IF x \in targets THEN @ ELSE @ \ {x}]
  /\ UNCHANGED <<world, db, proc, mem, chk, reload, sent, base, enabled, spent>>

\* The snapshot says that this target was served by an earlier attempt.
SendResume(t, x) ==
  /\ task[t].pc = "send" /\ x \in task[t].queue /\ Active(t, x)
  /\ x \in mem.pend[task[t].key].done
  /\ task' = [task EXCEPT ![t].queue = @ \ {x}]
  /\ owed' = [owed EXCEPT ![task[t].key] = @ \ {x}]
  /\ UNCHANGED <<world, db, proc, mem, chk, reload, sent, base, enabled, spent>>

SendStart(t, x) ==
  /\ task[t].pc = "send" /\ x \in task[t].queue /\ Active(t, x)
  /\ x \notin mem.pend[task[t].key].done
  /\ task' = [task EXCEPT ![t] = [task[t] EXCEPT !.pc = "inflight", !.to = x,
                                                  !.queue = @ \ {x}]]
  /\ UNCHANGED <<world, db, proc, mem, chk, reload, hist, spent>>

\* The platform accepted the message: checkpoint() marks it in the snapshot
\* (unless that was dropped meanwhile) and persists.
SendOk(t) ==
  /\ task[t].pc = "inflight"
  /\ LET k == task[t].key
         x == task[t].to
     IN /\ sent' = [sent EXCEPT ![k][x] = @ + 1]
        /\ owed' = [owed EXCEPT ![k] = @ \ {x}]
        /\ mem' = IF mem.pend[k] = None THEN mem
                  ELSE [mem EXCEPT !.pend[k].done = @ \cup {x}]
  /\ Persist(t, task[t], "send")
  /\ UNCHANGED <<world, db, proc, chk, reload, base, enabled, spent>>

\* Nothing was delivered: a failure to retry, or a final rejection.
SendFailed(t) ==
  /\ task[t].pc = "inflight" /\ spent.fail < MaxFail
  /\ LET k == task[t].key
         x == task[t].to
     IN \/ NextTarget(t) /\ UNCHANGED owed
        \/ /\ Goto(t, "send")
           /\ owed' = [owed EXCEPT ![k] = @ \ {x}]
  /\ spent' = [spent EXCEPT !.fail = @ + 1]
  /\ UNCHANGED <<world, db, proc, mem, chk, reload, sent, base, enabled>>

\* Mutations of Settle: a push with failed targets counts as done; the batch goes
\* on after a push that has failed.
SettleAnyway(t, left) ==
  LET k == task[t].key
  IN /\ mem' = IF mem.pend[k] = None THEN mem ELSE [mem EXCEPT !.pend[k].left = left]
     /\ Persist(t, [task[t] EXCEPT !.got = @ \cup {k[1]}], "next")

SettleGoOn(t, left) ==
  LET k == task[t].key
      r == [task[t] EXCEPT !.got = IF left = {} THEN @ \cup {k[1]} ELSE @]
  IN /\ mem' = IF mem.pend[k] = None THEN mem ELSE [mem EXCEPT !.pend[k].left = left]
     /\ Persist(t, r, "next")

\* The message is out, but its receipt is lost: to the bot this is a failure.
SendLost(t) ==
  /\ task[t].pc = "inflight" /\ spent.fail < MaxFail
  /\ NextTarget(t)
  /\ sent' = [sent EXCEPT ![task[t].key][task[t].to] = @ + 1]
  /\ spent' = [spent EXCEPT !.fail = @ + 1, !.lost = @ + 1]
  /\ UNCHANGED <<world, db, proc, mem, chk, reload, owed, base, enabled>>

\* The result of the attempt.  "left" stays for a retry; once it is empty (all
\* served, rejected, or given up after six hours) the push is done.
Settle(t, left) ==
  LET k == task[t].key
      r == [task[t] EXCEPT !.got = IF left = {} THEN @ \cup {k[1]} ELSE @]
  IN /\ mem' = IF mem.pend[k] = None THEN mem ELSE [mem EXCEPT !.pend[k].left = left]
     /\ Persist(t, r, IF left = {} THEN "next" ELSE "stop")

SendEnd(t) ==
  /\ task[t].pc = "send" /\ task[t].queue = {}
  /\ IF ~LiveTask(t)
       THEN Goto(t, "stop") /\ UNCHANGED <<mem, owed>>
       ELSE \/ Settle(t, task[t].failed) /\ UNCHANGED owed
            \/ /\ task[t].failed # {} \* pending.expired()
               /\ Settle(t, {})
               /\ owed' = [owed EXCEPT ![task[t].key] = @ \ task[t].failed]
  /\ UNCHANGED <<world, db, proc, chk, reload, sent, base, enabled, spent>>

-----------------------------------------------------------------------------
(* Hot reload.  The uid is one of several: the monitor keeps running.        *)

\* An administrator saves; ConfigService.load prunes the rows of disabled uids.
ReloadStart(new) ==
  /\ up /\ reload.pc = "idle" /\ new # cfg /\ spent.reload < MaxReload
  /\ cfg' = new
  /\ row' = IF new = {} THEN None ELSE row
  /\ reload' = [reload EXCEPT !.pc = "apply"]
  /\ enabled' = IF cfg = {} THEN published ELSE enabled
  /\ spent' = [spent EXCEPT !.reload = @ + 1]
  /\ UNCHANGED <<world, proc, mem, chk, task, sent, owed, base>>

\* reload_config takes the new mapping, and forgets a removed uid.  A uid that
\* is back is reset later, after the rows of removed uids were deleted.
ReloadApply ==
  /\ reload.pc = "apply"
  /\ targets' = cfg
  /\ IF cfg = {} THEN /\ gen' = gen + 1 /\ epoch' = epoch + 1 /\ mem' = Blank
                      /\ reload' = [reload EXCEPT !.pc = "delete"]
                 ELSE /\ UNCHANGED <<gen, epoch, mem>>
                      /\ reload' = IF targets = {} THEN [reload EXCEPT !.pc = "reset"]
                                                   ELSE IdleReload
  /\ UNCHANGED <<world, db, up, chk, task, hist, spent>>

ReloadReset ==
  /\ reload.pc = "reset"
  /\ gen' = gen + 1
  /\ mem' = [mem EXCEPT !.last = 0, !.init = FALSE, !.pin = 0]
  /\ reload' = [reload EXCEPT !.pc = "delete"]
  /\ UNCHANGED <<world, db, up, targets, epoch, chk, task, hist, spent>>

\* state_store.delete: look for the row, then delete what was found.
DeleteRead ==
  /\ reload.pc = "delete"
  /\ reload' = [pc |-> "deleting", found |-> row # None]
  /\ UNCHANGED <<world, db, proc, mem, chk, task, hist, spent>>

DeleteCommit ==
  /\ reload.pc = "deleting"
  /\ row' = IF reload.found THEN None ELSE row
  /\ reload' = IdleReload
  /\ UNCHANGED <<world, cfg, proc, mem, chk, task, hist, spent>>

DeleteDbError ==
  /\ reload.pc \in {"delete", "deleting"} /\ spent.db < MaxDbFail
  /\ reload' = IdleReload
  /\ spent' = [spent EXCEPT !.db = @ + 1]
  /\ UNCHANGED <<world, db, proc, mem, chk, task, hist>>

-----------------------------------------------------------------------------
(* Crash and restart *)

Crash ==
  /\ up /\ spent.crash < MaxCrash
  /\ up' = FALSE /\ targets' = {} /\ gen' = 0 /\ epoch' = 0 /\ mem' = Blank
  /\ chk' = [c \in Check |-> IdleCheck]
  /\ task' = [t \in Task |-> IdleTask]
  /\ reload' = IdleReload
  /\ spent' = [spent EXCEPT !.crash = @ + 1]
  /\ UNCHANGED <<world, db, hist>>

\* Mutation of Restart: a uid without a row is not given a blank state.
RestartFromRow ==
  /\ ~up
  /\ up' = TRUE /\ targets' = cfg
  /\ row' = IF cfg = {} THEN None ELSE row
  /\ mem' = row'
  /\ UNCHANGED <<world, cfg, gen, epoch, chk, task, reload, hist, spent>>

\* Boot: load() prunes, start_monitoring() restores the state of enabled uids.
Restart ==
  /\ ~up
  /\ up' = TRUE /\ targets' = cfg
  /\ row' = IF cfg = {} THEN None ELSE row
  /\ mem' = IF row' = None THEN Blank ELSE row'
  /\ UNCHANGED <<world, cfg, gen, epoch, chk, task, reload, hist, spent>>

-----------------------------------------------------------------------------

World == Publish \/ (\E i \in Id : Vanish(i)) \/ (\E i \in Id \cup {0} : SetPin(i))

CheckNext(c) ==
  \/ CheckStart(c) \/ CheckFailed(c) \/ CheckStale(c) \/ CheckBaseline(c)
  \/ CheckObserve(c) \/ CheckRead(c) \/ CheckCommit(c) \/ CheckConflict(c)
  \/ CheckDbError(c)

TaskNext(t) ==
  \/ NewNext(t) \/ NewFinish(t) \/ PinNext(t) \/ PinFinish(t) \/ Built(t)
  \/ TaskRead(t) \/ TaskCommit(t) \/ TaskConflict(t) \/ TaskDbError(t)
  \/ (\E x \in Target : SendSkip(t, x) \/ SendResume(t, x) \/ SendStart(t, x))
  \/ SendOk(t) \/ SendFailed(t) \/ SendLost(t) \/ SendEnd(t)

ReloadNext ==
  \/ (\E new \in SUBSET Target : ReloadStart(new))
  \/ ReloadApply \/ ReloadReset \/ DeleteRead \/ DeleteCommit \/ DeleteDbError

Next ==
  \/ World
  \/ (\E c \in Check : CheckNext(c))
  \/ (\E t \in Task : TaskNext(t))
  \/ ReloadNext
  \/ Crash \/ Restart

Spec == Init /\ [][Next]_vars

-----------------------------------------------------------------------------
(* Properties *)

CheckRec == [pc: {"idle", "fetch", "persist", "commit"}, gen: Nat, pin: 0 .. MaxId,
             dyn: SUBSET Id, feedPin: 0 .. MaxId, base: State \cup {None}, cap: State]
TaskRec  == [pc: {"idle", "next", "build", "persist", "commit", "send", "inflight", "stop"},
             pinned: BOOLEAN, ids: SUBSET Id, gen: Nat, epoch: Nat, ahead: SUBSET Task,
             force: BOOLEAN, key: Key \cup {<<0, FALSE>>}, got: SUBSET (0 .. MaxId),
             queue: SUBSET Target, failed: SUBSET Target, to: Target \cup {None},
             then: {"next", "send", "stop", "end"},
             base: State \cup {None}, cap: State]

TasksOK(tasks) == /\ tasks \in [Task -> TaskRec]
                  /\ \A t \in Task : tasks[t].pc = "inflight" => tasks[t].to # None

\* Cursor, row, snapshots and the locals of the coroutines stay well formed; a
\* message is on its way to a target.
TypeOK ==
  /\ feed \subseteq Id /\ feedPin \in 0 .. MaxId /\ published \in 0 .. MaxId
  /\ cfg \subseteq Target /\ row \in State \cup {None}
  /\ up \in BOOLEAN /\ targets \subseteq Target /\ gen \in Nat /\ epoch \in Nat
  /\ mem \in State
  /\ chk \in [Check -> CheckRec]
  /\ TasksOK(task)
  /\ reload \in [pc: {"idle", "apply", "reset", "delete", "deleting"}, found: BOOLEAN]
  /\ sent \in [Key -> [Target -> Nat]]
  /\ owed \in [Key -> SUBSET Target]
  /\ base \in 0 .. MaxId /\ enabled \in 0 .. MaxId
  /\ spent \in [pin: Nat, vanish: Nat, reload: Nat, crash: Nat, fail: Nat, lost: Nat,
               db: Nat]

-----------------------------------------------------------------------------
(* Safety *)

Skipped(s) == {i \in feed : base < i /\ i <= s.last /\ owed[New(i)] # {}}

\* The cursor, in memory and in the row, never passes a dynamic published after
\* the baseline that some target still has to get: not when a send fails half
\* way through a batch, when two checks overlap, when a stale row is committed
\* late, or across a restart (_deliver_new_dynamics).
NothingSkipped == (mem.init => Skipped(mem) = {}) /\ (row # None => Skipped(row) = {})

\* Between two crashes a target gets a dynamic once (once more for a receipt that
\* was lost), although every poll spawns a task for it while it is pending, and
\* although targets fail, checkpoints raise and the configuration changes meanwhile.
AtMostOncePerLife ==
  \A i \in Id, x \in Target : sent[New(i)][x] <= 1 + spent.crash + spent.lost

\* Task t starts to push i, as a new dynamic, to x.
Starts(t, i, x) == /\ task[t].pc = "send" /\ task'[t].pc = "inflight"
                   /\ task'[t].key = New(i) /\ task'[t].to = x

\* A target sees a dynamic for the first time only when every earlier one is
\* settled for everybody: the batch stops at the first failure.
InOrder == [][\A t \in Task, i \in Id, x \in Target :
                Starts(t, i, x) /\ sent[New(i)][x] = 0 =>
                  \A j \in feed : base < j /\ j < i => owed[New(j)] = {}]_vars

\* What was published before the uid was enabled is never pushed as new, also
\* when it is disabled and enabled again while checks, pushes and commits of
\* its former life are on their way.
NoHistory == [][\A t \in Task, i \in Id, x \in Target :
                  Starts(t, i, x) => i > enabled]_vars

\* A restart from row s would push i to x.
Repeats(s, i, x) == IF s.pend[New(i)] = None THEN s.last < i
                    ELSE x \in s.pend[New(i)].left \ s.pend[New(i)].done

\* The progress saved in the row is not lost again: what a restart would not
\* repeat now, it does not repeat after a later commit.
ProgressKept == [][\A i \in Id, x \in Target :
                     (row # None /\ row' # None /\ ~Repeats(row, i, x))
                       => ~Repeats(row', i, x)]_vars

-----------------------------------------------------------------------------
(* Liveness *)

\* The poll job keeps firing, the loop runs every ready coroutine, database and
\* platform answer (requests time out), and the bot is restarted.
Fairness ==
  /\ \A c \in Check : WF_vars(CheckStart(c) \/ CheckStale(c) \/ CheckBaseline(c)
                        \/ CheckObserve(c) \/ CheckRead(c) \/ CheckCommit(c)
                        \/ CheckConflict(c))
  /\ \A t \in Task : WF_vars(NewNext(t) \/ NewFinish(t) \/ PinNext(t) \/ PinFinish(t)
                        \/ Built(t) \/ TaskRead(t) \/ TaskCommit(t) \/ TaskConflict(t)
                        \/ (\E x \in Target : SendSkip(t, x) \/ SendResume(t, x)
                                              \/ SendStart(t, x))
                        \/ SendOk(t) \/ SendEnd(t))
  /\ WF_vars(ReloadApply \/ ReloadReset \/ DeleteRead \/ DeleteCommit)
  /\ WF_vars(Restart)

FairSpec == Spec /\ Fairness

\* A dynamic that appears after the baseline is settled for every target and the
\* cursor passes it, unless it disappears or the uid is disabled or starts over.
EverythingDelivered ==
  \A i \in Id : (mem.init /\ i \in feed /\ base < i)
                  ~> \/ owed[New(i)] = {} /\ mem.last >= i
                     \/ i \notin feed \/ i <= base \/ targets = {}

\* A dynamic that has a snapshot is served although it left the list meanwhile.
SnapshotServed ==
  \A i \in Id : mem.pend[New(i)] # None ~> owed[New(i)] = {} \/ targets = {}

\* However the pushes of a pin overlap, the recorded pin ends up being the uploader's.
PinFollows == <>[](mem.pin = feedPin \/ targets = {})
=============================================================================
