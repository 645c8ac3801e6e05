------------------------------ MODULE XDelivery ------------------------------
(***************************************************************************)
(* One blogger of plugins/x_monitor: the polling checks, the delivery      *)
(* tasks they spawn, the row with the cursor and the one pending tweet     *)
(* (how many parts each target has, under which sending plan), the six     *)
(* hours after which a tweet is given up, hot reload, crash and restart.   *)
(*                                                                         *)
(* asyncio: a step is the code between two awaits.  A database session     *)
(* copies memory when the row has been read and commits later.             *)
(***************************************************************************)
EXTENDS Integers, FiniteSets, FiniteSetsExt, Functions

CONSTANTS
  Group, User, \* groups and friends that tweets can be pushed to
  Check,       \* slots for concurrent checks
  Task,        \* slots for delivery tasks
  None,        \* no row, no pending tweet, unknown plan
  MaxId,       \* bound: tweets
  Body,        \* parts of a tweet's message
  Scenario    \* bounds: each behaviour has one of these budgets

Target == Group \cup User
Id     == 1 .. MaxId
Done   == -1     \* COMPLETED_TARGET

\* The blogger is enabled, its targets, at_all; of a disabled one nothing is loaded.
Off    == [on |-> FALSE, to |-> {}, all |-> FALSE]
Config == {Off} \cup [on: {TRUE}, to: SUBSET Target, all: BOOLEAN]

\* The first configuration, those that an administrator may choose, and how often
\* something may happen.
Budget == [from: Config, menu: SUBSET Config, seen: 0 .. MaxId, tweet: Nat, reload: Nat,
           crash: Nat, lost: Nat, db: Nat, vanish: Nat]

ASSUME ParamAssumption ==
  /\ MaxId \in Nat /\ Body \in Nat \ {0} /\ Scenario \subseteq Budget
  /\ Group \cap User = {}

\* With at_all on, a first part calls everybody in a group: another sending plan.
Prefix(x, all) == IF all /\ x \in Group THEN 1 ELSE 0
Parts(x, all)  == Body + Prefix(x, all)

\* Next part of some targets; the pending tweet, with the plan that its offsets count
\* in (unknown while its media are missing).
Progress == UNION {[S -> Done .. Body + 1] : S \in SUBSET Target}
Pending  == [id: Id, fp: BOOLEAN \cup {None}, at: Progress]

State == [last: 0 .. MaxId, init: BOOLEAN, pend: Pending \cup {None}]
Blank == [last |-> 0, init |-> FALSE, pend |-> None]

ASSUME NoneAssumption == None \notin State \cup Pending \cup BOOLEAN \cup Target

VARIABLES
  feed, published,  \* the timeline
  cfg, row,         \* database: configuration, state row
  up, conf, gen, epoch, \* process: configuration in use, check generation, lock epoch
  mem, failing,     \* process: cursor and pending tweet; _failing_since
  chk, task, reload, \* coroutines
  sent,             \* history: copies of each part that a target got
  owed,             \* history: targets that a tweet still has to reach
  enabled,          \* history: what was published when the blogger was enabled
  limit, spent      \* bounds, and what was used of them

world == <<feed, published>>
db    == <<cfg, row>>
proc  == <<up, conf, gen, epoch>>
hist  == <<sent, owed, enabled>>
bound == <<limit, spent>>
vars  == <<world, db, proc, mem, failing, chk, task, reload, hist, bound>>

NoBody == [x \in {} |-> 0]

IdleCheck == [pc |-> "idle", gen |-> 0, last |-> 0, ids |-> {}, base |-> None, cap |-> Blank]
\* all: at_all in this attempt; known: the saved offsets count in the same plan;
\* done, queue: targets that have the tweet, first part of those that do not;
\* to, n: target and next part; out: outcome per target, its next part or Done.
IdleTask  == [pc |-> "idle", ids |-> {}, gen |-> 0, epoch |-> 0, ahead |-> {}, id |-> 0,
              all |-> FALSE, done |-> {}, queue |-> NoBody, to |-> None, n |-> 0,
              out |-> NoBody, got |-> {}, then |-> "end", base |-> None, cap |-> Blank]

Used(f) == spent' = [spent EXCEPT ![f] = @ + 1]
May(f)  == spent[f] < limit[f]

\* seen tweets are recorded as the baseline when the process comes up.
Init ==
  /\ limit \in Scenario /\ spent = [f \in DOMAIN limit \ {"from", "menu"} |-> 0]
  /\ published = limit.seen /\ feed = 1 .. published
  /\ cfg = limit.from
  /\ row = IF published = 0 \/ ~cfg.on THEN None ELSE [last |-> published, init |-> TRUE, pend |-> None]
  /\ up = TRUE /\ conf = cfg /\ gen = 0 /\ epoch = 0 /\ failing = None
  /\ mem = IF row = None THEN Blank ELSE row
  /\ chk = [c \in Check |-> IdleCheck]
  /\ task = [t \in Task |-> IdleTask]
  /\ reload = "idle"
  /\ sent = [i \in Id |-> [x \in Target |-> [p \in 1 .. Body |-> 0]]]
  /\ owed = [i \in Id |-> {}]
  /\ enabled = published

-----------------------------------------------------------------------------
(* The timeline, and the time *)

Publish ==
  /\ published < MaxId /\ May("tweet") /\ Used("tweet")
  /\ published' = published + 1
  /\ feed' = feed \cup {published + 1}
  /\ owed' = [owed EXCEPT ![published + 1] = IF up THEN cfg.to \cap conf.to ELSE cfg.to]
  /\ UNCHANGED <<db, proc, mem, failing, chk, task, reload, sent, enabled, limit>>

Vanish(i) ==
  /\ i \in feed /\ May("vanish") /\ Used("vanish")
  /\ feed' = feed \ {i} /\ owed' = [owed EXCEPT ![i] = {}]
  /\ UNCHANGED <<published, db, proc, mem, failing, chk, task, reload, sent, enabled, limit>>

\* Six hours pass; downloads and requests time out long before.
SixHours ==
  /\ failing # None /\ ~failing.old
  /\ \A t \in Task : task[t].pc = "idle" \/ task[t].gen = gen
  /\ failing' = [failing EXCEPT !.old = TRUE]
  /\ UNCHANGED <<world, db, proc, mem, chk, task, reload, hist, bound>>

-----------------------------------------------------------------------------
(* state_store.persist: the columns that differ from what was read are       *)
(* written; an INSERT over a row, or an UPDATE of a deleted one, fails.      *)

Column(old, new, now) == IF new # old THEN new ELSE now

Merged(old, new, now) ==
  IF old = None THEN new
  ELSE IF now = None THEN None
  ELSE [last |-> Column(old.last, new.last, now.last),
        init |-> Column(old.init, new.init, now.init),
        pend |-> Column(old.pend, new.pend, now.pend)]

Conflict(old, new) == \/ old = None /\ row # None
                      \/ old # None /\ row = None /\ new # old

\* Mutation of Valid: a blogger that was enabled again takes up its former life.
ValidWithoutGeneration(g) == conf.on
Valid(g) == conf.on /\ gen = g

-----------------------------------------------------------------------------
(* _check_user_tweets *)

CheckStart(c) ==
  /\ up /\ conf.on /\ chk[c].pc = "idle"
  /\ chk' = [chk EXCEPT ![c] = [IdleCheck EXCEPT !.pc = "fetch", !.gen = gen,
                                  !.last = mem.last, !.ids = feed]]
  /\ UNCHANGED <<world, db, proc, mem, failing, task, reload, hist, bound>>

\* The request failed, a page of it did, or the check is out of date.
CheckEnd(c) ==
  /\ chk[c].pc = "fetch"
  /\ chk' = [chk EXCEPT ![c] = IdleCheck]
  /\ UNCHANGED <<world, db, proc, mem, failing, task, reload, hist, bound>>

Answers(c) == {chk[c].ids, feed}

\* The first tweets that are seen are the baseline; an empty timeline is none.
CheckBaseline(c) ==
  /\ chk[c].pc = "fetch" /\ Valid(chk[c].gen) /\ ~mem.init
  /\ \E a \in Answers(c) \ {{}} : mem' = [mem EXCEPT !.last = Max(a), !.init = TRUE]
  /\ chk' = [chk EXCEPT ![c] = [IdleCheck EXCEPT !.pc = "persist", !.gen = chk[c].gen]]
  /\ UNCHANGED <<world, db, proc, failing, task, reload, hist, bound>>

New(c, a) == {i \in a : i > chk[c].last}

\* asyncio.Lock hands over in order: a task waits for the earlier ones of its lock.
CheckObserve(c) ==
  /\ chk[c].pc = "fetch" /\ Valid(chk[c].gen) /\ mem.init
  /\ \E a \in Answers(c), t \in Task :
       /\ New(c, a) # {} /\ task[t].pc = "idle"
       /\ task' = [task EXCEPT ![t] = [IdleTask EXCEPT !.pc = "next", !.ids = New(c, a),
            !.gen = gen, !.epoch = epoch,
            !.ahead = {u \in Task : task[u].pc # "idle" /\ task[u].epoch = epoch}]]
  /\ chk' = [chk EXCEPT ![c] = IdleCheck]
  /\ UNCHANGED <<world, db, proc, mem, failing, reload, hist, bound>>

CheckRead(c) ==
  /\ chk[c].pc = "persist"
  /\ chk' = [chk EXCEPT ![c].pc = "commit", ![c].base = row, ![c].cap = mem]
  /\ UNCHANGED <<world, db, proc, mem, failing, task, reload, hist, bound>>

CheckCommit(c) ==
  /\ chk[c].pc = "commit"
  /\ row' = IF Conflict(chk[c].base, chk[c].cap) THEN row
            ELSE Merged(chk[c].base, chk[c].cap, row)
  /\ chk' = [chk EXCEPT ![c] = IdleCheck]
  /\ UNCHANGED <<world, cfg, proc, mem, failing, task, reload, hist, bound>>

CheckDbError(c) ==
  /\ chk[c].pc \in {"persist", "commit"} /\ May("db") /\ Used("db")
  /\ chk' = [chk EXCEPT ![c] = IdleCheck]
  /\ UNCHANGED <<world, db, proc, mem, failing, task, reload, hist, limit>>

-----------------------------------------------------------------------------
(* _deliver_new_tweets *)

Live(t) == Valid(task[t].gen)
At(t, pc) == task[t].pc = pc
Goto(t, r, pc) == task' = [task EXCEPT ![t] = [r EXCEPT !.pc = pc]]

\* The task is over, or raised: the lock goes to the next waiter.
End(t) == task' = [u \in Task |-> IF u = t THEN IdleTask
                                           ELSE [task[u] EXCEPT !.ahead = @ \ {t}]]

\* _persist_state: nothing to write for a removed blogger or a stale check.
Persist(t, r, then) == Goto(t, [r EXCEPT !.then = then], IF Live(t) THEN "persist" ELSE then)

\* The pending tweet is this one.
Kept(i) == mem.pend # None /\ mem.pend.id = i

Passed(i) == [mem EXCEPT !.pend = None, !.last = IF i > @ THEN i ELSE @]

\* Mutation of Todo: the batch as it was when the task was spawned.
TodoAsSpawned(t) == task[t].ids
Todo(t) == {i \in task[t].ids : i > mem.last}

\* The next tweet of the batch: its media are downloaded first.
NextTweet(t) ==
  /\ At(t, "next") /\ task[t].ahead = {} /\ Live(t) /\ Todo(t) # {}
  /\ Goto(t, [task[t] EXCEPT !.id = Min(Todo(t)),
                             !.ids = {j \in @ : j > Min(Todo(t))}], "media")
  /\ UNCHANGED <<world, db, proc, mem, failing, chk, reload, hist, bound>>

\* The batch is over, or was stopped by a failure: record the cursor once more.
Finish(t) ==
  /\ task[t].ahead = {}
  /\ \/ At(t, "stop")
     \/ At(t, "next") /\ (~Live(t) \/ Todo(t) = {})
  /\ IF Live(t) /\ task[t].got # {}
       THEN mem' = [mem EXCEPT !.last = Max(task[t].got)] /\ Persist(t, task[t], "end")
       ELSE End(t) /\ UNCHANGED mem
  /\ UNCHANGED <<world, db, proc, failing, chk, reload, hist, bound>>

EndTask(t) ==
  /\ At(t, "end") /\ End(t)
  /\ UNCHANGED <<world, db, proc, mem, failing, chk, reload, hist, bound>>

TaskRead(t) ==
  /\ At(t, "persist")
  /\ task' = [task EXCEPT ![t].pc = "commit", ![t].base = row, ![t].cap = mem]
  /\ UNCHANGED <<world, db, proc, mem, failing, chk, reload, hist, bound>>

Clean(t) == [task[t] EXCEPT !.base = None, !.cap = Blank, !.then = "end"]

\* The target in turn is over, with this outcome.
Outcome(out, x, n) == [y \in DOMAIN out \cup {x} |-> IF y = x THEN n ELSE out[y]]
Over(t, r, n) == Goto(t, [r EXCEPT !.out = Outcome(@, task[t].to, n), !.to = None, !.n = 0], "send")

\* An error of a checkpoint fails the target; any other ends the task.
Raised(t) == IF task[t].then = "part" THEN Over(t, Clean(t), task[t].n) ELSE End(t)

TaskCommit(t) ==
  /\ At(t, "commit")
  /\ IF Conflict(task[t].base, task[t].cap)
       THEN Raised(t) /\ UNCHANGED row
       ELSE /\ row' = Merged(task[t].base, task[t].cap, row)
            /\ Goto(t, Clean(t), task[t].then)
  /\ UNCHANGED <<world, cfg, proc, mem, failing, chk, reload, hist, bound>>

TaskDbError(t) ==
  /\ task[t].pc \in {"persist", "commit"} /\ May("db") /\ Used("db")
  /\ Raised(t)
  /\ UNCHANGED <<world, db, proc, mem, failing, chk, reload, hist, limit>>

-----------------------------------------------------------------------------
(* _send_tweet_notification *)

\* _failure_expired: since when this tweet has been failing.
\* Mutation of Since: each attempt counts from now.
SinceNow(i) == [id |-> i, old |-> FALSE]
Since(i) == IF failing # None /\ failing.id = i THEN failing ELSE [id |-> i, old |-> FALSE]

\* _give_up_tweet
GiveUp(t) ==
  LET i == task[t].id IN
  /\ mem' = Passed(i) /\ failing' = None
  /\ owed' = [owed EXCEPT ![i] = {}]
  /\ Persist(t, [task[t] EXCEPT !.got = @ \cup {i}], "next")

\* Not all media could be downloaded: keep the progress there is, else note whom the
\* tweet is for, and try again later.
MediaMissing(t) ==
  LET i == task[t].id IN
  /\ At(t, "media")
  /\ IF Since(i).old THEN GiveUp(t)
     ELSE /\ failing' = Since(i)
          /\ IF Kept(i) THEN Persist(t, task[t], "stop") /\ UNCHANGED mem
             ELSE IF conf.to # {}
               THEN /\ mem' = [mem EXCEPT !.pend =
                         [id |-> i, fp |-> None, at |-> [x \in conf.to |-> 0]]]
                    /\ Persist(t, task[t], "stop")
             ELSE Goto(t, task[t], "stop") /\ UNCHANGED mem
          /\ UNCHANGED owed
  /\ UNCHANGED <<world, db, proc, chk, reload, sent, enabled, bound>>

\* The next part of x that the pending tweet remembers: it counts in the plan of the
\* attempt that saved it, and starts over under another one.
\* Mutation of StartOf: the offset is used whatever plan it counts in.
StartOfAnyPlan(x) == IF x \in DOMAIN mem.pend.at THEN mem.pend.at[x] ELSE 0
StartOf(x) == IF mem.pend.fp = conf.all /\ x \in DOMAIN mem.pend.at THEN mem.pend.at[x] ELSE 0


Served(i) == {x \in conf.to : Kept(i) /\ x \in DOMAIN mem.pend.at /\ mem.pend.at[x] = Done}

Roster(done, queue) ==
  [x \in done \cup DOMAIN queue |-> IF x \in done THEN Done ELSE queue[x]]

\* The message is there: the targets that have it, the first part for the others; what
\* is pending for another tweet is dropped.
MediaReady(t) ==
  LET i     == task[t].id
      queue == [x \in conf.to \ Served(i) |-> IF Kept(i) THEN StartOf(x) ELSE 0]
      r     == [task[t] EXCEPT !.all = conf.all, !.done = Served(i), !.queue = queue]
  IN
  /\ At(t, "media")
  /\ IF conf.to = {}
       THEN IF Kept(i)
              THEN /\ mem' = Passed(i)
                   /\ Persist(t, [task[t] EXCEPT !.got = @ \cup {i}], "next")
              ELSE mem' = [mem EXCEPT !.pend = None] /\ Goto(t, task[t], "stop")
       ELSE IF Live(t)
         THEN /\ mem' = [mem EXCEPT !.pend =
                   [id |-> i, fp |-> conf.all, at |-> Roster(r.done, queue)]]
              /\ Persist(t, r, "ready")
         ELSE /\ mem' = [mem EXCEPT !.pend = IF Kept(i) THEN @ ELSE None]
              /\ Goto(t, task[t], "stop")
  /\ UNCHANGED <<world, db, proc, failing, chk, reload, hist, bound>>

\* After the write: targets that left meanwhile are dropped.
SendBegin(t) ==
  LET queue == Restrict(task[t].queue, DOMAIN task[t].queue \cap conf.to) IN
  /\ At(t, "ready")
  /\ IF Live(t)
       THEN /\ mem' = [mem EXCEPT !.pend = [id |-> task[t].id, fp |-> task[t].all,
                                            at |-> Roster(task[t].done, queue)]]
            /\ Goto(t, [task[t] EXCEPT !.queue = queue, !.out = NoBody], "send")
       ELSE Goto(t, task[t], "stop") /\ UNCHANGED mem
  /\ UNCHANGED <<world, db, proc, failing, chk, reload, hist, bound>>

\* sender.send_message: groups first, one target after the other.
Active(t, x) == Live(t) /\ x \in conf.to
InTurn(t, x) == /\ At(t, "send") /\ x \in DOMAIN task[t].queue
                /\ x \in Group \/ DOMAIN task[t].queue \cap Group = {}
Without(t, x) == [task[t] EXCEPT !.queue = Restrict(@, DOMAIN @ \ {x}), !.to = x]

SendSkip(t, x) ==
  /\ InTurn(t, x) /\ ~Active(t, x)
  /\ Goto(t, [Without(t, x) EXCEPT !.to = None], "send")
  /\ UNCHANGED <<world, db, proc, mem, failing, chk, reload, hist, bound>>

\* normalize_batch_start: an offset behind the last part means that all were sent.
SendStart(t, x) ==
  LET n == task[t].queue[x] IN
  /\ InTurn(t, x) /\ Active(t, x)
  /\ Goto(t, [Without(t, x) EXCEPT !.n = n], "part")
  /\ UNCHANGED <<world, db, proc, mem, failing, chk, reload, hist, bound>>

\* can_send is asked before each part.
SendPart(t) ==
  LET r == task[t] IN
  /\ At(t, "part")
  /\ IF r.n = Parts(r.to, r.all) THEN Over(t, r, Done)
     ELSE IF Active(t, r.to) THEN Goto(t, r, "inflight")
     ELSE Over(t, r, r.n)
  /\ UNCHANGED <<world, db, proc, mem, failing, chk, reload, hist, bound>>

\* The part is with the target.
Receive(t) ==
  LET r == task[t]
      p == r.n + 1 - Prefix(r.to, r.all)
      s == IF p = 0 THEN sent ELSE [sent EXCEPT ![r.id][r.to][p] = @ + 1]
  IN /\ sent' = s
     /\ owed' = IF \A q \in 1 .. Body : s[r.id][r.to][q] > 0
                  THEN [owed EXCEPT ![r.id] = @ \ {r.to}] ELSE owed

\* checkpoint(): progress goes to the pending tweet, and to the row.
SendOk(t) ==
  LET r == [task[t] EXCEPT !.n = @ + 1]
      n == IF r.n = Parts(r.to, r.all) THEN Done ELSE r.n
  IN
  /\ At(t, "inflight") /\ Receive(t)
  /\ IF Live(t) /\ Kept(r.id)
       THEN /\ mem' = [mem EXCEPT !.pend.fp = r.all,
                         !.pend.at = [x \in DOMAIN @ |-> IF x = r.to THEN n ELSE @[x]]]
            /\ Persist(t, r, "part")
       ELSE Goto(t, r, "part") /\ UNCHANGED mem
  /\ UNCHANGED <<world, db, proc, failing, chk, reload, enabled, bound>>

\* An error: the part is sent again later.  This may happen for ever.
SendFailed(t) ==
  /\ At(t, "inflight") /\ Over(t, task[t], task[t].n)
  /\ UNCHANGED <<world, db, proc, mem, failing, chk, reload, hist, bound>>

\* is_terminal_qq_error_text: the target will never take it.
SendRefused(t) ==
  /\ At(t, "inflight") /\ Over(t, task[t], Done)
  /\ owed' = [owed EXCEPT ![task[t].id] = @ \ {task[t].to}]
  /\ UNCHANGED <<world, db, proc, mem, failing, chk, reload, sent, enabled, bound>>

\* Delivered, but the receipt is lost.
SendLost(t) ==
  /\ At(t, "inflight") /\ May("lost") /\ Used("lost")
  /\ Receive(t) /\ Over(t, task[t], task[t].n)
  /\ UNCHANGED <<world, db, proc, mem, failing, chk, reload, enabled, limit>>

\* Targets to try again: those that failed, and those that came since.
Failed(t)  == {x \in DOMAIN task[t].out : task[t].out[x] # Done /\ Active(t, x)}
Missing(t) == conf.to \ (task[t].done \cup DOMAIN task[t].out)

Settle(t) ==
  LET r == task[t] IN
  /\ At(t, "send") /\ DOMAIN r.queue = {}
  /\ IF ~Live(t) THEN Goto(t, r, "stop") /\ UNCHANGED <<mem, failing, owed>>
     ELSE IF Failed(t) \cup Missing(t) = {}
       THEN /\ mem' = Passed(r.id) /\ failing' = None
            /\ Persist(t, [r EXCEPT !.got = @ \cup {r.id}], "next")
            /\ UNCHANGED owed
     ELSE IF Since(r.id).old THEN GiveUp(t)
     ELSE /\ failing' = Since(r.id)
          /\ mem' = [mem EXCEPT !.pend = [id |-> r.id, fp |-> r.all, at |->
               [x \in r.done \cup DOMAIN r.out \cup Missing(t) |->
                 IF x \in Missing(t) THEN 0
                 ELSE IF x \in Failed(t) \ r.done THEN r.out[x] ELSE Done]]]
          /\ Persist(t, r, "stop")
          /\ UNCHANGED owed
  /\ UNCHANGED <<world, db, proc, chk, reload, sent, enabled, bound>>

-----------------------------------------------------------------------------
(* reload_config.  The blogger is one of several: the monitor keeps running. *)

ReloadStart(new) ==
  /\ up /\ reload = "idle" /\ new # cfg /\ May("reload") /\ Used("reload")
  /\ cfg' = new
  /\ row' = IF new.on THEN row ELSE None
  /\ owed' = [i \in Id |-> owed[i] \cap new.to]
  /\ enabled' = IF cfg.on THEN enabled ELSE published
  /\ reload' = "apply"
  /\ UNCHANGED <<world, proc, mem, failing, chk, task, sent, limit>>

ReloadApply ==
  /\ reload = "apply"
  /\ conf' = cfg
  /\ IF conf.on /\ ~cfg.on
       THEN /\ gen' = gen + 1 /\ epoch' = epoch + 1 /\ mem' = Blank /\ failing' = None
            /\ reload' = "delete"
       ELSE /\ UNCHANGED <<gen, epoch, mem, failing>>
            /\ reload' = IF cfg.on /\ ~conf.on THEN "reset" ELSE "idle"
  /\ UNCHANGED <<world, db, up, chk, task, hist, bound>>

ReloadReset ==
  /\ reload = "reset"
  /\ gen' = gen + 1
  /\ mem' = [mem EXCEPT !.last = 0, !.init = FALSE]
  /\ owed' = [i \in Id |-> {}]
  /\ reload' = "delete"
  /\ UNCHANGED <<world, db, up, conf, epoch, failing, chk, task, sent, enabled, bound>>

\* state_store.delete
DeleteRow ==
  /\ reload = "delete"
  /\ \/ row' = None /\ UNCHANGED bound
     \/ May("db") /\ Used("db") /\ UNCHANGED <<row, limit>>
  /\ reload' = "idle"
  /\ UNCHANGED <<world, cfg, proc, mem, failing, chk, task, hist>>

-----------------------------------------------------------------------------
(* Crash and restart *)

Crash ==
  /\ up /\ May("crash") /\ Used("crash")
  /\ up' = FALSE /\ conf' = Off /\ gen' = 0 /\ epoch' = 0 /\ mem' = Blank /\ failing' = None
  /\ chk' = [c \in Check |-> IdleCheck]
  /\ task' = [t \in Task |-> IdleTask]
  /\ reload' = "idle"
  /\ owed' = IF row = None THEN [i \in Id |-> {}] ELSE owed
  /\ UNCHANGED <<world, db, sent, enabled, limit>>

\* state_store.load: a cursor of zero is no baseline; a tweet without targets is not
\* pending.
\* Mutation of Restored: the row as it is.
RestoredRow(w) == w
Restored(w) ==
  IF w = None THEN Blank
  ELSE [w EXCEPT !.init = @ /\ w.last # 0,
                 !.pend = IF @ # None /\ DOMAIN @.at = {} THEN None ELSE @]

Restart ==
  /\ ~up
  /\ up' = TRUE /\ conf' = cfg
  /\ row' = IF cfg.on THEN row ELSE None
  /\ mem' = Restored(row')
  /\ UNCHANGED <<world, cfg, gen, epoch, failing, chk, task, reload, hist, bound>>

-----------------------------------------------------------------------------

CheckNext(c) == \/ CheckBaseline(c) \/ CheckObserve(c) \/ CheckRead(c) \/ CheckCommit(c)

TaskNext(t) ==
  \/ NextTweet(t) \/ Finish(t) \/ EndTask(t) \/ TaskRead(t) \/ TaskCommit(t)
  \/ MediaReady(t) \/ MediaMissing(t) \/ SendBegin(t)
  \/ (\E x \in Target : SendSkip(t, x) \/ SendStart(t, x))
  \/ SendPart(t) \/ SendOk(t) \/ SendFailed(t) \/ Settle(t)

Next ==
  \/ Publish \/ (\E i \in Id : Vanish(i)) \/ SixHours
  \/ \E c \in Check : CheckStart(c) \/ CheckEnd(c) \/ CheckNext(c) \/ CheckDbError(c)
  \/ \E t \in Task : TaskNext(t) \/ SendRefused(t) \/ SendLost(t) \/ TaskDbError(t)
  \/ (\E new \in limit.menu : ReloadStart(new))
  \/ ReloadApply \/ ReloadReset \/ DeleteRow
  \/ Crash \/ Restart

Spec == Init /\ [][Next]_vars

\* The poll job keeps firing and its requests are answered again and again; every
\* send returns, if only with an error; time passes and the bot is restarted.
Fairness ==
  /\ \A c \in Check : /\ WF_vars(CheckStart(c) \/ CheckEnd(c) \/ CheckRead(c) \/ CheckCommit(c))
                      /\ SF_vars(CheckBaseline(c) \/ CheckObserve(c))
  /\ \A t \in Task : WF_vars(TaskNext(t))
  /\ WF_vars(SixHours) /\ WF_vars(ReloadApply \/ ReloadReset \/ DeleteRow) /\ WF_vars(Restart)

FairSpec == Spec /\ Fairness

-----------------------------------------------------------------------------
(* Properties *)

CheckRec == [pc: {"idle", "fetch", "persist", "commit"}, gen: Nat, last: 0 .. MaxId,
             ids: SUBSET Id, base: State \cup {None}, cap: State]
TaskRec  == [pc: {"idle", "next", "media", "persist", "commit", "ready", "send", "part",
                  "inflight", "stop", "end"},
             ids: SUBSET Id, gen: Nat, epoch: Nat, ahead: SUBSET Task, id: 0 .. MaxId,
             all: BOOLEAN, done: SUBSET Target, queue: Progress, to: Target \cup {None},
             n: Done .. Body + 1, out: Progress, got: SUBSET Id,
             then: {"next", "ready", "part", "stop", "end"},
             base: State \cup {None}, cap: State]

\* Cursor, pending tweet, row and the locals of the coroutines stay well formed; an
\* offset never points behind the last part of the plan it counts in.
TypeOK ==
  /\ feed \subseteq Id /\ published \in 0 .. MaxId
  /\ cfg \in Config /\ row \in State \cup {None}
  /\ up \in BOOLEAN /\ conf \in Config /\ gen \in Nat /\ epoch \in Nat
  /\ mem \in State /\ failing \in [id: Id, old: BOOLEAN] \cup {None}
  /\ chk \in [Check -> CheckRec]
  /\ task \in [Task -> TaskRec]
  /\ reload \in {"idle", "apply", "reset", "delete"}
  /\ sent \in [Id -> [Target -> [1 .. Body -> Nat]]]
  /\ owed \in [Id -> SUBSET Target]
  /\ enabled \in 0 .. MaxId
  /\ limit \in Scenario /\ \A f \in DOMAIN spent : spent[f] \in Nat

\* A target gets every part of a tweet once, although every poll spawns a task for a
\* tweet that is pending, targets fail between two parts, checkpoints raise and media
\* are missing in later attempts; one more for a crash, a lost receipt, a change of
\* the configuration (the roster and the offsets in the pending slot).  A tweet that is
\* deleted while several checks have it may cost more: see the README.
PartOnce ==
  \A i \in Id, x \in Target, p \in 1 .. Body :
    sent[i][x][p] <= 1 + spent.crash + spent.lost + spent.reload

\* What was published before the blogger was enabled is not pushed.
NoHistory == [][\A t \in Task : At(t, "part") /\ task'[t].pc = "inflight" /\ Live(t)
                  => task[t].id > enabled]_vars

\* The cursor that is in force, or would be after a restart.
Cursor == IF up THEN mem ELSE Restored(row)

\* Tweets are pushed in order, and none is passed that a target is owed: the queue of
\* TweetFeed, whose tail is what the cursor has not passed.
Feed == INSTANCE TweetFeed WITH
  open <- IF Cursor.init THEN {i \in feed : Cursor.last < i} ELSE {}, due <- owed
Queue == Feed!Spec

\* A tweet that appears after the baseline is passed in the end, even when a target
\* fails for ever: after six hours it is given up.
Passes ==
  \A i \in Id : (mem.init /\ i \in feed /\ mem.last < i)
                  ~> (mem.last >= i \/ i \notin feed \/ ~mem.init \/ conf.to = {})
=============================================================================
