--------------------------- MODULE XDeliveryProofs ---------------------------
(***************************************************************************)
(* The X monitor for any groups, friends, checks and tasks, any length of  *)
(* a message and any bounds.                                               *)
(*                                                                         *)
(* Types, and the sending plan that each offset counts in.  Each step has  *)
(* a lemma that says what it does, for this and for other invariants.      *)
(*                                                                         *)
(* What the monitor notes of a tweet's delivery is true: a target that is  *)
(* noted as done is not owed the tweet, and the parts before the next one  *)
(* that is noted are with it.  This holds of memory, of the row, and of    *)
(* the copies and locals of every coroutine, the late ones included.       *)
(***************************************************************************)
EXTENDS XDelivery, WellFoundedInduction, TLAPS

-----------------------------------------------------------------------------
(* The inductive invariant for types: an offset counts in a plan *)

\* No offset of a pending tweet is behind the last part of its plan.
PlanOK(p) ==
  \A x \in DOMAIN p.at : p.at[x] <= IF p.fp = None THEN 0 ELSE Parts(x, p.fp)
PendPlan(s) == s.pend # None => PlanOK(s.pend)

\* Where a task is: it stores something and goes on there; one target has its turn; the
\* message is being sent; the attempt has begun; a tweet has its turn.
Storing(t, then) == task[t].pc \in {"persist", "commit"} /\ task[t].then = then
Turn(t)    == task[t].pc \in {"part", "inflight"} \/ Storing(t, "part")
Sending(t) == task[t].pc = "send" \/ Turn(t)
Begun(t)   == task[t].pc = "ready" \/ Storing(t, "ready") \/ Sending(t)
Attempt(t) == task[t].pc = "media" \/ Begun(t)

\* A task of the present life.
Current(t) == task[t].pc # "idle" /\ task[t].gen = gen

QueuePlan(t) == \A x \in DOMAIN task[t].queue :
  0 <= task[t].queue[x] /\ task[t].queue[x] <= Parts(x, task[t].all)
OutPlan(t) == \A x \in DOMAIN task[t].out : task[t].out[x] <= Parts(x, task[t].all)

\* While a task of the present life sends, what is pending for its tweet counts in its
\* plan: this is why SendOk may note the next part there.
TaskPlan(t) ==
  /\ Attempt(t) => task[t].id \in Id
  /\ Begun(t) => QueuePlan(t)
  /\ Sending(t) => OutPlan(t)
  /\ Turn(t) => task[t].to # None /\ 0 <= task[t].n /\ task[t].n <= Parts(task[t].to, task[t].all)
  /\ task[t].pc = "inflight" => task[t].n < Parts(task[t].to, task[t].all)
  /\ Begun(t) /\ Current(t) /\ Kept(task[t].id) => mem.pend.fp \in {None, task[t].all}
  /\ task[t].pc = "commit" => PendPlan(task[t].cap)

\* Tasks belong to a life of the blogger; who has begun has the lock.
Life(t) == task[t].pc # "idle" =>
  /\ up
  /\ task[t].gen <= gen /\ task[t].epoch <= epoch
  /\ task[t].gen = gen => task[t].epoch = epoch
  /\ task[t].pc # "next" \/ task[t].got # {} => task[t].ahead = {}

\* Of two tasks that share a lock one waits for the other.
Before(t, u) == t # u /\ task[t].pc # "idle" /\ task[u].pc # "idle" /\ task[t].epoch = task[u].epoch
                  => t \in task[u].ahead \/ u \in task[t].ahead

CheckPlan(c) == chk[c].pc # "idle" =>
  up /\ chk[c].gen <= gen /\ (chk[c].pc = "commit" => PendPlan(chk[c].cap))

TypeInv ==
  /\ TypeOK
  /\ PendPlan(mem) /\ (row # None => PendPlan(row))
  /\ \A c \in Check : CheckPlan(c)
  /\ \A t \in Task : TaskPlan(t) /\ Life(t)
  /\ \A t, u \in Task : Before(t, u)

-----------------------------------------------------------------------------
(* What the operators of the model return *)

\* A set of naturals has a smallest element: their order is well founded.
LEMMA LeastNumber == ASSUME NEW S \in SUBSET Nat, S # {}
                     PROVE  \E x \in S : \A y \in S : x <= y
<1>1. \E x \in S : \A y \in S : ~ (<<y, x>> \in OpToRel(<, Nat))
  BY NatLessThanWellFounded, WFMin
<1>2. \A x, y \in S : ~ (<<y, x>> \in OpToRel(<, Nat)) => x <= y
  BY DEF OpToRel
<1> QED
  BY <1>1, <1>2

\* The smallest of some tweets.
LEMMA MinTweet == ASSUME NEW S \in SUBSET Id, S # {}
                  PROVE  Min(S) \in S /\ \A y \in S : Min(S) <= y
<1>1. S \subseteq Nat
  BY ParamAssumption DEF Id
<1> QED
  BY <1>1, LeastNumber DEF Min

\* The largest of some tweets.
LEMMA MaxTweet == ASSUME NEW S \in SUBSET Id, S # {}
                  PROVE  Max(S) \in S /\ \A y \in S : y <= Max(S)
<1>1. PICK T : T = {MaxId - y : y \in S}
  OBVIOUS
<1>2. MaxId \in Nat /\ S \subseteq Int /\ T \subseteq Nat /\ T # {}
  <2>1. PICK e \in S : TRUE
    OBVIOUS
  <2>2. MaxId - e \in T
    BY <1>1
  <2> QED
    BY <1>1, <2>2, ParamAssumption DEF Id
<1>3. PICK m \in T : \A n \in T : m <= n
  BY <1>2, LeastNumber
<1>4. PICK x \in S : m = MaxId - x
  BY <1>1, <1>3
<1>5. \A y \in S : x >= y
  <2> TAKE y \in S
  <2>1. MaxId - x <= MaxId - y
    BY <1>1, <1>3, <1>4
  <2> QED
    BY <1>2, <2>1
<1>6. PICK z : z = Max(S)
  OBVIOUS
<1>7. z \in S /\ \A y \in S : z >= y
  BY <1>4, <1>5, <1>6 DEF Max
<1> QED
  BY <1>2, <1>6, <1>7

\* What the next parts of some targets are.
LEMMA ProgressIs == ASSUME NEW f
                    PROVE  f \in Progress <=>
                      /\ f = [x \in DOMAIN f |-> f[x]] /\ DOMAIN f \subseteq Target
                      /\ \A x \in DOMAIN f : f[x] \in Done .. Body + 1
<1>1. ASSUME f \in Progress PROVE \E S \in SUBSET Target : f \in [S -> Done .. Body + 1]
  BY <1>1 DEF Progress
<1>2. ASSUME f = [x \in DOMAIN f |-> f[x]], DOMAIN f \in SUBSET Target,
             \A x \in DOMAIN f : f[x] \in Done .. Body + 1
      PROVE  f \in Progress
  <2>1. f \in [DOMAIN f -> Done .. Body + 1]
    BY <1>2
  <2> QED
    BY <1>2, <2>1 DEF Progress
<1> QED
  BY <1>1, <1>2

\* How many parts there are.
LEMMA PartsType == /\ Body \in Nat /\ Body >= 1 /\ MaxId \in Nat
                   /\ \A x, all : /\ Prefix(x, all) \in {0, 1}
                                  /\ Parts(x, all) \in Nat /\ Parts(x, all) = Body + Prefix(x, all)
                                  /\ Parts(x, all) <= Body + 1
BY ParamAssumption DEF Prefix, Parts

\* A pending tweet that is built from a tweet, a plan and next parts.
LEMMA PendingIs == ASSUME NEW i \in Id, NEW fp \in BOOLEAN \cup {None}, NEW at \in Progress
                   PROVE  [id |-> i, fp |-> fp, at |-> at] \in Pending
BY DEF Pending

\* A state whose pending tweet is another one.
LEMMA StateIs == ASSUME NEW s \in State, NEW p \in Pending \cup {None}
                 PROVE  /\ [s EXCEPT !.pend = p] \in State
                        /\ [s EXCEPT !.pend = p].pend = p
                        /\ [s EXCEPT !.pend = p].last = s.last
                        /\ [s EXCEPT !.pend = p].init = s.init
BY DEF State

\* None is neither a state nor a pending tweet nor a target.
LEMMA NoneIs == /\ None \notin State /\ None \notin Pending /\ None \notin BOOLEAN
                /\ None \notin Target
BY NoneAssumption

\* A configuration; a disabled blogger has no targets.
LEMMA ConfigIs == ASSUME NEW c \in Config
                  PROVE  /\ c.on \in BOOLEAN /\ c.to \in SUBSET Target /\ c.all \in BOOLEAN
                         /\ ~c.on => c.to = {}
<1>1. CASE c = Off
  BY <1>1 DEF Off
<1>2. CASE c \in [on: {TRUE}, to: SUBSET Target, all: BOOLEAN]
  BY <1>2
<1> QED
  BY <1>1, <1>2 DEF Config

\* The first state of a process.
LEMMA BlankIs == Blank \in State /\ Blank.pend = None /\ ~Blank.init /\ Blank.last = 0
BY PartsType DEF Blank, State

\* What a commit makes of the row.
LEMMA MergedIs == ASSUME NEW old \in State \cup {None}, NEW new \in State,
                         NEW now \in State \cup {None}
                  PROVE  /\ Merged(old, new, now) \in State \cup {None}
                         /\ PendPlan(new) /\ (now # None => PendPlan(now)) =>
                              (Merged(old, new, now) # None => PendPlan(Merged(old, new, now)))
<1>1. CASE old = None
  BY <1>1 DEF Merged
<1>2. CASE old # None /\ now = None
  BY <1>2 DEF Merged
<1>3. CASE old # None /\ now # None
  <2>1. PICK m : m = Merged(old, new, now)
    OBVIOUS
  <2>2. m = [last |-> Column(old.last, new.last, now.last),
             init |-> Column(old.init, new.init, now.init),
             pend |-> Column(old.pend, new.pend, now.pend)]
    BY <1>3, <2>1 DEF Merged
  <2>3. m \in State /\ m.pend \in {new.pend, now.pend}
    BY <1>3, <2>2 DEF Column, State
  <2>4. PendPlan(new) /\ PendPlan(now) => PendPlan(m)
    BY <2>3 DEF PendPlan
  <2> QED
    BY <1>3, <2>1, <2>3, <2>4
<1> QED
  BY <1>1, <1>2, <1>3

\* A roster: who has the tweet, and the first part for the others.
LEMMA RosterIs ==
  ASSUME NEW done \in SUBSET Target, NEW queue \in Progress
  PROVE  /\ Roster(done, queue) \in Progress
         /\ DOMAIN Roster(done, queue) = done \cup DOMAIN queue
         /\ \A x \in done : Roster(done, queue)[x] = Done
         /\ \A x \in DOMAIN queue \ done : Roster(done, queue)[x] = queue[x]
<1>1. PICK f : f = Roster(done, queue)
  OBVIOUS
<1>2. /\ DOMAIN f = done \cup DOMAIN queue /\ f = [x \in DOMAIN f |-> f[x]]
      /\ \A x \in done : f[x] = Done
      /\ \A x \in DOMAIN queue \ done : f[x] = queue[x]
  BY <1>1 DEF Roster
<1>3. DOMAIN queue \subseteq Target /\ \A x \in DOMAIN queue : queue[x] \in Done .. Body + 1
  BY ProgressIs
<1>4. Done \in Done .. Body + 1
  BY PartsType DEF Done
<1>5. DOMAIN f \subseteq Target /\ \A x \in DOMAIN f : f[x] \in Done .. Body + 1
  BY <1>2, <1>3, <1>4
<1> QED
  BY <1>1, <1>2, <1>5, ProgressIs

\* The outcome of a target joins those of the others.
LEMMA OutcomeIs ==
  ASSUME NEW out \in Progress, NEW x \in Target, NEW n \in Done .. Body + 1
  PROVE  /\ Outcome(out, x, n) \in Progress /\ DOMAIN Outcome(out, x, n) = DOMAIN out \cup {x}
         /\ Outcome(out, x, n)[x] = n
         /\ \A y \in DOMAIN out : y # x => Outcome(out, x, n)[y] = out[y]
<1>1. PICK f : f = Outcome(out, x, n)
  OBVIOUS
<1>2. /\ DOMAIN f = DOMAIN out \cup {x} /\ f = [y \in DOMAIN f |-> f[y]] /\ f[x] = n
      /\ \A y \in DOMAIN out : y # x => f[y] = out[y]
  BY <1>1 DEF Outcome
<1>3. DOMAIN out \subseteq Target /\ \A y \in DOMAIN out : out[y] \in Done .. Body + 1
  BY ProgressIs
<1>4. DOMAIN f \subseteq Target /\ \A y \in DOMAIN f : f[y] \in Done .. Body + 1
  BY <1>2, <1>3
<1> QED
  BY <1>1, <1>2, <1>4, ProgressIs

\* Some of the targets.
LEMMA RestrictIs ==
  ASSUME NEW f \in Progress, NEW S, S \subseteq DOMAIN f
  PROVE  /\ Restrict(f, S) \in Progress /\ DOMAIN Restrict(f, S) = S
         /\ \A x \in S : Restrict(f, S)[x] = f[x]
<1>1. PICK g : g = Restrict(f, S)
  OBVIOUS
<1>2. DOMAIN g = S /\ g = [x \in DOMAIN g |-> g[x]] /\ \A x \in S : g[x] = f[x]
  BY <1>1 DEF Restrict
<1>3. DOMAIN f \subseteq Target /\ \A x \in DOMAIN f : f[x] \in Done .. Body + 1
  BY ProgressIs
<1> QED
  BY <1>1, <1>2, <1>3, ProgressIs

\* The same next part for some targets.
LEMMA ConstantIs ==
  ASSUME NEW S \in SUBSET Target, NEW n \in Done .. Body + 1
  PROVE  [x \in S |-> n] \in Progress
<1>1. PICK g : g = [x \in S |-> n]
  OBVIOUS
<1>2. DOMAIN g = S /\ g = [x \in DOMAIN g |-> g[x]] /\ \A x \in S : g[x] = n
  BY <1>1
<1> QED
  BY <1>1, <1>2, ProgressIs

-----------------------------------------------------------------------------
(* Steps of a task *)

\* What no step of a task changes.
TaskWorld == UNCHANGED <<feed, published, cfg, up, conf, gen, epoch, chk, reload, enabled, limit>>

\* The task stays in its life and keeps its lock.
Moves(t) ==
  /\ task' = [task EXCEPT ![t] = task'[t]] /\ task'[t].pc # "idle"
  /\ task'[t].gen = task[t].gen /\ task'[t].epoch = task[t].epoch
  /\ task'[t].ahead = task[t].ahead

\* Memory, row and history are still well formed.
Formed ==
  /\ mem' \in State /\ row' \in State \cup {None}
  /\ failing' \in [id: Id, old: BOOLEAN] \cup {None}
  /\ sent' \in [Id -> [Target -> [1 .. Body -> Nat]]] /\ owed' \in [Id -> SUBSET Target]
  /\ \A f \in DOMAIN spent' : spent'[f] \in Nat
  /\ PendPlan(mem)' /\ (row' # None => PendPlan(row)')

\* A task of a former life leaves no offsets in the pending tweet.
Fits(t) == \/ Current(t) \/ mem'.pend = mem.pend \/ mem'.pend = None
           \/ mem'.pend.fp = None

\* Only one of the tasks of a life has the lock.
LEMMA OneLock == ASSUME TypeInv, NEW t \in Task, NEW u \in Task, t # u,
                        Current(t), task[t].ahead = {}, Current(u)
                 PROVE  task[u].pc = "next" /\ task[u].got = {} /\ task[u].ahead # {}
<1>1. Life(t) /\ Life(u) /\ Before(t, u)
  BY DEF TypeInv
<1> QED
  BY <1>1 DEF Life, Before, Current

\* The task goes on.
LEMMA MoveInv ==
  ASSUME TypeInv, NEW t \in Task, task[t].pc # "idle", task[t].ahead = {},
         Moves(t), task'[t] \in TaskRec, TaskWorld, Formed, TaskPlan(t)', Fits(t)
  PROVE  TypeInv'
<1>1. task \in [Task -> TaskRec] /\ \A u \in Task : u # t => task'[u] = task[u]
  BY DEF TypeInv, TypeOK, Moves
<1>2. TypeOK'
  <2>1. task' \in [Task -> TaskRec]
    BY <1>1 DEF Moves
  <2> QED
    BY <2>1 DEF TypeInv, TypeOK, TaskWorld, Formed
<1>3. \A c \in Check : CheckPlan(c)'
  BY DEF TypeInv, CheckPlan, TaskWorld
<1>4. \A u \in Task : Life(u)'
  <2> TAKE u \in Task
  <2>1. Life(u)
    BY DEF TypeInv
  <2> QED
    BY <1>1, <2>1 DEF Life, Moves, TaskWorld
<1>5. \A u, v \in Task : Before(u, v)'
  <2> TAKE u \in Task, v \in Task
  <2>1. Before(u, v)
    BY DEF TypeInv
  <2>2. /\ task'[u].ahead = task[u].ahead /\ task'[v].ahead = task[v].ahead
        /\ task'[u].epoch = task[u].epoch /\ task'[v].epoch = task[v].epoch
        /\ task'[u].pc # "idle" => task[u].pc # "idle"
        /\ task'[v].pc # "idle" => task[v].pc # "idle"
    BY <1>1 DEF Moves
  <2> QED
    BY <2>1, <2>2 DEF Before
<1>6. \A u \in Task : TaskPlan(u)'
  <2> TAKE u \in Task
  <2>1. CASE u = t
    BY <2>1
  <2>2. CASE u # t
    <3>1. TaskPlan(u) /\ task'[u] = task[u]
      BY <1>1, <2>2 DEF TypeInv
    <3>2. Begun(u) /\ Current(u) => ~Current(t)
      BY <2>2, OneLock DEF Begun, Sending, Turn, Storing
    <3>3. Begun(u)' /\ Current(u)' /\ Kept(task[u].id)' => mem'.pend.fp \in {None, task[u].all}
      <4>1. (Begun(u)' <=> Begun(u)) /\ (Current(u)' <=> Current(u))
        BY <3>1 DEF Begun, Sending, Turn, Storing, Current, TaskWorld
      <4> QED
        BY <3>1, <3>2, <4>1 DEF Fits, TaskPlan, Kept
    <3> QED
      BY <3>1, <3>3 DEF TaskPlan, Attempt, Begun, Sending, Turn, Storing, QueuePlan, OutPlan,
                        PendPlan
  <2> QED
    BY <2>1, <2>2
<1> QED
  BY <1>2, <1>3, <1>4, <1>5, <1>6 DEF TypeInv, Formed

\* The task is over.
LEMMA EndInv ==
  ASSUME TypeInv, NEW t \in Task, task[t].pc # "idle", End(t), TaskWorld, Formed, UNCHANGED mem
  PROVE  TypeInv'
<1>1. /\ task \in [Task -> TaskRec] /\ task'[t] = IdleTask
      /\ \A u \in Task : u # t => task'[u] = [task[u] EXCEPT !.ahead = @ \ {t}]
      /\ task' = [u \in Task |-> task'[u]]
  BY DEF TypeInv, TypeOK, End
<1>2. IdleTask \in TaskRec
  <2>1. NoBody \in Progress
    BY ProgressIs DEF NoBody
  <2>2. 0 \in Done .. Body + 1 /\ 0 \in 0 .. MaxId
    BY PartsType DEF Done
  <2> QED
    BY <2>1, <2>2, BlankIs DEF IdleTask, TaskRec
<1>3. ASSUME NEW u \in Task, u # t
      PROVE  /\ task'[u] \in TaskRec
             /\ task'[u].pc = task[u].pc /\ task'[u].ids = task[u].ids
             /\ task'[u].gen = task[u].gen /\ task'[u].epoch = task[u].epoch
             /\ task'[u].ahead = task[u].ahead \ {t} /\ task'[u].id = task[u].id
             /\ task'[u].all = task[u].all /\ task'[u].done = task[u].done
             /\ task'[u].queue = task[u].queue /\ task'[u].to = task[u].to
             /\ task'[u].n = task[u].n /\ task'[u].out = task[u].out
             /\ task'[u].got = task[u].got /\ task'[u].then = task[u].then
             /\ task'[u].cap = task[u].cap
  <2>1. task[u] \in TaskRec /\ task[u].ahead \ {t} \in SUBSET Task
    BY <1>1 DEF TaskRec
  <2> QED
    BY <1>1, <1>3, <2>1 DEF TaskRec
<1>4. TypeOK'
  <2>1. task' \in [Task -> TaskRec]
    <3>1. \A u \in Task : task'[u] \in TaskRec
      BY <1>1, <1>2, <1>3
    <3> QED
      BY <1>1, <3>1
  <2> QED
    BY <2>1 DEF TypeInv, TypeOK, TaskWorld, Formed
<1>5. \A c \in Check : CheckPlan(c)'
  BY DEF TypeInv, CheckPlan, TaskWorld
<1>6. \A u \in Task : TaskPlan(u)' /\ Life(u)'
  <2> TAKE u \in Task
  <2>1. CASE u = t
    BY <1>1, <2>1 DEF IdleTask, TaskPlan, Life, Attempt, Begun, Sending, Turn, Storing
  <2>2. CASE u # t
    <3>1. TaskPlan(u) /\ Life(u)
      BY DEF TypeInv
    <3>2. Life(u)'
      BY <1>3, <2>2, <3>1 DEF Life, TaskWorld
    <3>3. TaskPlan(u)'
      BY <1>3, <2>2, <3>1 DEF TaskPlan, Attempt, Begun, Sending, Turn, Storing, QueuePlan, OutPlan,
                              PendPlan, Kept, Current, TaskWorld
    <3> QED
      BY <3>2, <3>3
  <2> QED
    BY <2>1, <2>2
<1>7. \A u, v \in Task : Before(u, v)'
  <2> TAKE u \in Task, v \in Task
  <2>1. Before(u, v)
    BY DEF TypeInv
  <2>2. CASE u # t /\ v # t
    BY <1>3, <2>1, <2>2 DEF Before
  <2>3. CASE u = t \/ v = t
    BY <1>1, <2>3 DEF Before, IdleTask
  <2> QED
    BY <2>2, <2>3
<1> QED
  BY <1>4, <1>5, <1>6, <1>7 DEF TypeInv, Formed

\* The same locals, but for where the task is.
Like(s, r) ==
  /\ s.ids = r.ids /\ s.gen = r.gen /\ s.epoch = r.epoch /\ s.ahead = r.ahead /\ s.id = r.id
  /\ s.all = r.all /\ s.done = r.done /\ s.queue = r.queue /\ s.to = r.to /\ s.n = r.n
  /\ s.out = r.out /\ s.got = r.got /\ s.base = r.base /\ s.cap = r.cap

\* The locals r are those of the task, as far as its life is concerned.
Stays(t, r) == r \in TaskRec /\ r.gen = task[t].gen /\ r.epoch = task[t].epoch
                             /\ r.ahead = task[t].ahead

Places == {"next", "media", "persist", "commit", "ready", "send", "part", "inflight", "stop",
           "end"}

\* The task goes on with the locals r, at pc.
LEMMA GotoIs ==
  ASSUME TypeInv, NEW t \in Task, NEW r, Stays(t, r), NEW pc \in Places, Goto(t, r, pc)
  PROVE  /\ Moves(t) /\ task'[t] \in TaskRec
         /\ task'[t].pc = pc /\ task'[t].then = r.then /\ Like(task'[t], r)
<1>1. PICK s : s = [r EXCEPT !.pc = pc]
  OBVIOUS
<1>2. s \in TaskRec /\ s.pc = pc /\ s.then = r.then /\ Like(s, r)
  BY <1>1 DEF Stays, TaskRec, Places, Like
<1>3. task' = [task EXCEPT ![t] = s] /\ task'[t] = s /\ task' = [task EXCEPT ![t] = task'[t]]
  BY <1>1 DEF Goto, TypeInv, TypeOK
<1> QED
  BY <1>2, <1>3 DEF Moves, Stays, Like, Places

\* _persist_state: the task stores something first, unless its life is over.
LEMMA PersistIs ==
  ASSUME TypeInv, NEW t \in Task, NEW r, Stays(t, r),
         NEW then \in {"next", "ready", "part", "stop", "end"}, Persist(t, r, then)
  PROVE  /\ Moves(t) /\ task'[t] \in TaskRec /\ Like(task'[t], r) /\ task'[t].then = then
         /\ task'[t].pc \in {"persist", then} /\ (task'[t].pc = "persist" <=> Live(t))
<1>1. PICK s : s = [r EXCEPT !.then = then]
  OBVIOUS
<1>2. Stays(t, s) /\ s.then = then /\ Like(s, r)
  BY <1>1 DEF Stays, TaskRec, Like
<1>3. PICK pc : pc = IF Live(t) THEN "persist" ELSE then
  OBVIOUS
<1>4. pc \in Places /\ Goto(t, s, pc)
  BY <1>1, <1>3 DEF Persist, Places
<1>5. /\ Moves(t) /\ task'[t] \in TaskRec
      /\ task'[t].pc = pc /\ task'[t].then = s.then /\ Like(task'[t], s)
  BY <1>2, <1>4, GotoIs
<1> QED
  BY <1>2, <1>3, <1>5 DEF Like

\* The lock is with a task that has begun; what is stored is well formed.
LEMMA HasLock == ASSUME TypeInv, NEW t \in Task, task[t].pc \notin {"idle", "next"}
                 PROVE  task[t].ahead = {} /\ up
BY DEF TypeInv, Life

\* Only the task changes.
LEMMA FormedSame ==
  ASSUME TypeInv, UNCHANGED <<mem, row, failing, sent, owed, spent>>
  PROVE  Formed
BY DEF TypeInv, TypeOK, Formed, PendPlan

\* The next tweet of the batch.
LEMMA NextTweetType == ASSUME TypeInv, NEW t \in Task, NextTweet(t)
                       PROVE  /\ TypeInv' /\ task'[t].id = Min(Todo(t)) /\ Moves(t) /\ TaskWorld
                              /\ task'[t].pc = "media" /\ task'[t].got = task[t].got
                              /\ task'[t].ids = {j \in task[t].ids : j > Min(Todo(t))}
<1>1. task[t] \in TaskRec /\ task[t].pc = "next" /\ task[t].ahead = {}
  BY DEF TypeInv, TypeOK, NextTweet, At
<1>2. PICK i : i = Min(Todo(t))
  OBVIOUS
<1>3. i \in Id
  <2>1. Todo(t) \in SUBSET Id /\ Todo(t) # {}
    BY <1>1 DEF Todo, TaskRec, NextTweet
  <2> QED
    BY <1>2, <2>1, MinTweet
<1>4. PICK r : r = [task[t] EXCEPT !.id = i, !.ids = {j \in @ : j > i}]
  OBVIOUS
<1>5. /\ Stays(t, r) /\ r.id = i /\ r.ids = {j \in task[t].ids : j > i} /\ r.got = task[t].got
      /\ Goto(t, r, "media")
  <2>1. {j \in task[t].ids : j > i} \in SUBSET Id /\ i \in 0 .. MaxId
    BY <1>1, <1>3, PartsType DEF TaskRec, Id
  <2>2. Goto(t, r, "media")
    BY <1>2, <1>4 DEF NextTweet
  <2> QED
    BY <1>1, <1>4, <2>1, <2>2 DEF Stays, TaskRec
<1>6. /\ Moves(t) /\ task'[t] \in TaskRec /\ task'[t].pc = "media" /\ Like(task'[t], r)
  BY <1>5, GotoIs DEF Places
<1>7. TaskWorld /\ Formed /\ Fits(t)
  BY FormedSame DEF NextTweet, TaskWorld, world, db, proc, hist, bound, Fits
<1>8. TaskPlan(t)'
  BY <1>3, <1>5, <1>6 DEF Like, TaskPlan, Attempt, Begun, Sending, Turn, Storing
<1> QED
  BY <1>1, <1>2, <1>5, <1>6, <1>7, <1>8, MoveInv DEF Like

\* The cursor after the batch.
LEMMA FinishType ==
  ASSUME TypeInv, NEW t \in Task, Finish(t)
  PROVE  /\ TypeInv' /\ TaskWorld
         /\ \/ /\ Live(t) /\ task[t].got # {} /\ mem' = [mem EXCEPT !.last = Max(task[t].got)]
               /\ Moves(t) /\ task'[t].pc = "persist" /\ task'[t].then = "end"
               /\ Like(task'[t], task[t])
            \/ End(t) /\ UNCHANGED mem
<1>1. task[t] \in TaskRec /\ task[t].pc \in {"next", "stop"} /\ task[t].ahead = {}
  BY DEF TypeInv, TypeOK, Finish, At
<1>2. /\ TaskWorld /\ UNCHANGED <<row, failing, sent, owed, spent>>
  BY DEF Finish, TaskWorld, world, db, proc, hist, bound
<1>3. CASE Live(t) /\ task[t].got # {}
  <2>1. mem' = [mem EXCEPT !.last = Max(task[t].got)] /\ Persist(t, task[t], "end")
    BY <1>3 DEF Finish
  <2>2. Max(task[t].got) \in Id
    BY <1>1, <1>3, MaxTweet DEF TaskRec
  <2>3. mem' \in State /\ mem'.pend = mem.pend
    <3>1. Max(task[t].got) \in 0 .. MaxId /\ mem \in State
      BY <2>2, PartsType DEF Id, TypeInv, TypeOK
    <3> QED
      BY <2>1, <3>1 DEF State
  <2>4. /\ Moves(t) /\ task'[t] \in TaskRec /\ Like(task'[t], task[t]) /\ task'[t].then = "end"
        /\ task'[t].pc = "persist"
    BY <1>1, <1>3, <2>1, PersistIs DEF Stays
  <2>5. Formed /\ Fits(t)
    BY <1>2, <2>3 DEF TypeInv, TypeOK, Formed, PendPlan, Fits
  <2>6. TaskPlan(t)'
    BY <2>4 DEF TaskPlan, Attempt, Begun, Sending, Turn, Storing
  <2> QED
    BY <1>1, <1>2, <1>3, <2>1, <2>4, <2>5, <2>6, MoveInv
<1>4. CASE ~(Live(t) /\ task[t].got # {})
  BY <1>1, <1>2, <1>4, EndInv, FormedSame DEF Finish
<1> QED
  BY <1>3, <1>4

\* The task is over, and the lock with the next waiter.
LEMMA EndTaskType == ASSUME TypeInv, NEW t \in Task, EndTask(t)
                     PROVE  TypeInv' /\ TaskWorld /\ End(t) /\ UNCHANGED <<mem, row, owed>>
BY EndInv, FormedSame DEF EndTask, At, TaskWorld, world, db, proc, hist, bound

\* The task copies memory, to store it.
LEMMA TaskReadType ==
  ASSUME TypeInv, NEW t \in Task, TaskRead(t)
  PROVE  /\ TypeInv' /\ TaskWorld /\ Moves(t) /\ UNCHANGED <<mem, row, sent, owed>>
         /\ task'[t].pc = "commit" /\ task'[t].cap = mem /\ task'[t].then = task[t].then
         /\ task'[t].ids = task[t].ids /\ task'[t].id = task[t].id /\ task'[t].all = task[t].all
         /\ task'[t].done = task[t].done /\ task'[t].queue = task[t].queue
         /\ task'[t].to = task[t].to /\ task'[t].n = task[t].n /\ task'[t].out = task[t].out
         /\ task'[t].got = task[t].got
<1>1. /\ task[t] \in TaskRec /\ task[t].pc = "persist" /\ task[t].ahead = {} /\ mem \in State
      /\ row \in State \cup {None} /\ TaskPlan(t) /\ PendPlan(mem)
  BY HasLock DEF TypeInv, TypeOK, TaskRead, At
<1>2. PICK r : r = [task[t] EXCEPT !.pc = "commit", !.base = row, !.cap = mem]
  OBVIOUS
<1>3. /\ r \in TaskRec /\ r.pc = "commit" /\ r.cap = mem /\ r.then = task[t].then
      /\ r.ids = task[t].ids /\ r.id = task[t].id /\ r.all = task[t].all /\ r.done = task[t].done
      /\ r.queue = task[t].queue /\ r.to = task[t].to /\ r.n = task[t].n /\ r.out = task[t].out
      /\ r.got = task[t].got /\ r.gen = task[t].gen /\ r.epoch = task[t].epoch
      /\ r.ahead = task[t].ahead
  BY <1>1, <1>2 DEF TaskRec
<1>4. task' = [task EXCEPT ![t] = r] /\ task'[t] = r
  BY <1>2 DEF TaskRead, TypeInv, TypeOK
<1>5. Moves(t)
  BY <1>3, <1>4 DEF Moves
<1>6. /\ TaskWorld /\ Formed /\ Fits(t) /\ UNCHANGED <<mem, row, sent, owed>>
  BY FormedSame DEF TaskRead, TaskWorld, world, db, proc, hist, bound, Fits
<1>7. TaskPlan(t)'
  BY <1>1, <1>3, <1>4, <1>6 DEF TaskPlan, Attempt, Begun, Sending, Turn, Storing, QueuePlan,
                               OutPlan, Current, Kept, PendPlan, TaskWorld
<1> QED
  BY <1>1, <1>3, <1>4, <1>5, <1>6, <1>7, MoveInv

\* After a commit: the locals of the session are forgotten.
LEMMA CleanIs ==
  ASSUME NEW t \in Task, task[t] \in TaskRec
  PROVE  /\ Stays(t, Clean(t)) /\ Clean(t).then = "end"
         /\ Clean(t).ids = task[t].ids /\ Clean(t).id = task[t].id
         /\ Clean(t).all = task[t].all /\ Clean(t).done = task[t].done
         /\ Clean(t).queue = task[t].queue /\ Clean(t).to = task[t].to
         /\ Clean(t).n = task[t].n /\ Clean(t).out = task[t].out /\ Clean(t).got = task[t].got
<1>1. PICK r : r = [task[t] EXCEPT !.base = None, !.cap = Blank, !.then = "end"]
  OBVIOUS
<1>2. /\ r.gen = task[t].gen /\ r.epoch = task[t].epoch
      /\ r.ahead = task[t].ahead /\ r.then = "end" /\ r.ids = task[t].ids /\ r.id = task[t].id
      /\ r.all = task[t].all /\ r.done = task[t].done /\ r.queue = task[t].queue
      /\ r.to = task[t].to /\ r.n = task[t].n /\ r.out = task[t].out /\ r.got = task[t].got
  BY <1>1 DEF TaskRec
<1>3. r \in TaskRec
  <2>1. PICK b, w : b = None /\ w = Blank
    OBVIOUS
  <2>2. b \in State \cup {None} /\ w \in State /\ r = [task[t] EXCEPT !.base = b, !.cap = w,
                                                                  !.then = "end"]
    BY <1>1, <2>1, BlankIs
  <2> QED
    BY <2>2 DEF TaskRec
<1> QED
  BY <1>1, <1>2, <1>3 DEF Clean, Stays

\* What a task keeps while it sends one tweet: all but the target in turn and outcomes.
KeepsTweet(t) ==
  /\ task'[t].ids = task[t].ids /\ task'[t].id = task[t].id /\ task'[t].got = task[t].got
  /\ task'[t].all = task[t].all /\ task'[t].done = task[t].done

\* The target in turn is over.
Overs(t, n) ==
  /\ Moves(t) /\ task'[t] \in TaskRec /\ task'[t].pc = "send" /\ task'[t].to = None
  /\ KeepsTweet(t) /\ task'[t].queue = task[t].queue
  /\ task'[t].out = Outcome(task[t].out, task[t].to, n)

\* The outcome is noted whether the locals of a session are forgotten or not.
LEMMA OverIs ==
  ASSUME TypeInv, NEW t \in Task, NEW r \in {task[t], Clean(t)}, NEW n \in Done .. Body + 1,
         task[t].to \in Target, Over(t, r, n)
  PROVE  Overs(t, n)
<1>1. task[t] \in TaskRec
  BY DEF TypeInv, TypeOK
<1>2. /\ Stays(t, r) /\ r.ids = task[t].ids /\ r.id = task[t].id /\ r.all = task[t].all
      /\ r.done = task[t].done /\ r.queue = task[t].queue /\ r.out = task[t].out
      /\ r.got = task[t].got
  BY <1>1, CleanIs DEF Stays
<1>3. PICK out : out = Outcome(task[t].out, task[t].to, n)
  OBVIOUS
<1>4. out \in Progress /\ 0 \in Done .. Body + 1
  <2>1. PICK o, x : o = task[t].out /\ x = task[t].to
    OBVIOUS
  <2>2. o \in Progress /\ x \in Target /\ out = Outcome(o, x, n)
    BY <1>1, <1>3, <2>1 DEF TaskRec
  <2>3. Outcome(o, x, n) \in Progress
    BY <2>2, OutcomeIs
  <2> QED
    BY <2>2, <2>3, PartsType DEF Done
<1>5. PICK s : s = [r EXCEPT !.out = out, !.to = None, !.n = 0]
  OBVIOUS
<1>6. /\ Stays(t, s) /\ s.ids = r.ids /\ s.id = r.id /\ s.all = r.all /\ s.done = r.done
      /\ s.queue = r.queue /\ s.out = out /\ s.got = r.got /\ s.to = None
  BY <1>2, <1>4, <1>5 DEF Stays, TaskRec
<1>7. Goto(t, s, "send")
  BY <1>2, <1>3, <1>5 DEF Over
<1>8. Moves(t) /\ task'[t] \in TaskRec /\ task'[t].pc = "send" /\ Like(task'[t], s)
  BY <1>6, <1>7, GotoIs DEF Places
<1> QED
  BY <1>2, <1>3, <1>6, <1>8 DEF Like, Overs, KeepsTweet

\* Its outcome is within its plan.
LEMMA OverPlan ==
  ASSUME TypeInv, NEW t \in Task, Turn(t), NEW n \in Done .. Body + 1, Overs(t, n),
         n <= Parts(task[t].to, task[t].all), UNCHANGED <<gen, mem>>
  PROVE  TaskPlan(t)'
<1>1. TaskPlan(t) /\ task[t] \in TaskRec
  BY DEF TypeInv, TypeOK
<1>2. Attempt(t) /\ Begun(t) /\ Sending(t) /\ task[t].to \in Target
  BY <1>1 DEF Attempt, Begun, Sending, TaskPlan, TaskRec
<1>3. QueuePlan(t)'
  BY <1>1, <1>2 DEF Overs, KeepsTweet, QueuePlan, TaskPlan
<1>4. OutPlan(t)'
  <2>1. PICK out : out = task'[t].out
    OBVIOUS
  <2>2. /\ DOMAIN out = DOMAIN task[t].out \cup {task[t].to} /\ out[task[t].to] = n
        /\ \A y \in DOMAIN task[t].out : y # task[t].to => out[y] = task[t].out[y]
    <3>1. PICK o, x : o = task[t].out /\ x = task[t].to
      OBVIOUS
    <3>2. o \in Progress /\ x \in Target /\ out = Outcome(o, x, n)
      BY <1>1, <1>2, <2>1, <3>1 DEF TaskRec, Overs
    <3>3. /\ DOMAIN Outcome(o, x, n) = DOMAIN o \cup {x} /\ Outcome(o, x, n)[x] = n
          /\ \A y \in DOMAIN o : y # x => Outcome(o, x, n)[y] = o[y]
      BY <3>2, OutcomeIs
    <3> QED
      BY <3>1, <3>2, <3>3
  <2>3. \A x \in DOMAIN out : out[x] <= Parts(x, task[t].all)
    BY <1>1, <1>2, <2>2 DEF TaskPlan, OutPlan
  <2> QED
    BY <2>1, <2>3 DEF OutPlan, Overs, KeepsTweet
<1>5. Current(t)' => Current(t)
  BY <1>2 DEF Overs, Moves, Current, Attempt, Begun, Sending, Turn, Storing
<1> QED
  BY <1>1, <1>2, <1>3, <1>4, <1>5 DEF TaskPlan, Overs, KeepsTweet, Attempt, Begun, Sending, Turn,
                                      Storing, Kept

\* An error of the database.
LEMMA RaisedIs ==
  ASSUME TypeInv, NEW t \in Task, task[t].pc \in {"persist", "commit"}, Raised(t),
         UNCHANGED <<gen, mem>>
  PROVE  \/ Turn(t) /\ Overs(t, task[t].n) /\ TaskPlan(t)'
         \/ End(t)
<1>1. CASE task[t].then # "part"
  BY <1>1 DEF Raised
<1>2. CASE task[t].then = "part"
  <2>1. Turn(t) /\ task[t] \in TaskRec /\ TaskPlan(t) /\ Over(t, Clean(t), task[t].n)
    BY <1>2 DEF Turn, Storing, TypeInv, TypeOK, Raised
  <2>2. PICK n : n = task[t].n
    OBVIOUS
  <2>3. /\ n \in Done .. Body + 1 /\ task[t].to \in Target
        /\ n <= Parts(task[t].to, task[t].all) /\ Over(t, Clean(t), n)
    BY <2>1, <2>2 DEF TaskRec, TaskPlan
  <2>4. Overs(t, n)
    BY <2>3, OverIs
  <2>5. TaskPlan(t)'
    BY <2>1, <2>3, <2>4, OverPlan
  <2> QED
    BY <2>1, <2>2, <2>4, <2>5
<1> QED
  BY <1>1, <1>2

\* The task goes on where it wanted to after the commit.
Thens(t) ==
  /\ Moves(t) /\ task'[t] \in TaskRec /\ task'[t].pc = task[t].then /\ KeepsTweet(t)
  /\ task'[t].queue = task[t].queue /\ task'[t].to = task[t].to /\ task'[t].n = task[t].n
  /\ task'[t].out = task[t].out

\* An error of the database keeps the invariant.
LEMMA RaisedType ==
  ASSUME TypeInv, NEW t \in Task, task[t].pc \in {"persist", "commit"}, Raised(t),
         TaskWorld, Formed, UNCHANGED mem
  PROVE  TypeInv' /\ ((Turn(t) /\ Overs(t, task[t].n)) \/ End(t))
<1>1. task[t].ahead = {}
  BY HasLock
<1>2. (Turn(t) /\ Overs(t, task[t].n) /\ TaskPlan(t)') \/ End(t)
  BY RaisedIs DEF TaskWorld
<1>3. CASE Turn(t) /\ Overs(t, task[t].n) /\ TaskPlan(t)'
  BY <1>1, <1>3, MoveInv DEF Overs, Fits
<1>4. CASE End(t)
  BY <1>4, EndInv
<1> QED
  BY <1>2, <1>3, <1>4

\* A commit writes what the task had copied, or raises.
LEMMA TaskCommitType ==
  ASSUME TypeInv, NEW t \in Task, TaskCommit(t)
  PROVE  /\ TypeInv' /\ TaskWorld /\ UNCHANGED <<mem, sent, owed>>
         /\ \/ ((Turn(t) /\ Overs(t, task[t].n)) \/ End(t)) /\ UNCHANGED row
            \/ Thens(t) /\ row' = Merged(task[t].base, task[t].cap, row)
<1>1. /\ task[t] \in TaskRec /\ task[t].pc = "commit" /\ task[t].ahead = {}
      /\ TaskPlan(t) /\ row \in State \cup {None} /\ (row # None => PendPlan(row))
  BY HasLock DEF TypeInv, TypeOK, TaskCommit, At
<1>2. TaskWorld /\ UNCHANGED <<mem, failing, sent, owed, spent>>
  BY DEF TaskCommit, TaskWorld, world, proc, hist, bound
<1>3. CASE Conflict(task[t].base, task[t].cap)
  <2>1. Raised(t) /\ UNCHANGED row
    BY <1>3 DEF TaskCommit
  <2> QED
    BY <1>1, <1>2, <2>1, FormedSame, RaisedType
<1>4. CASE ~Conflict(task[t].base, task[t].cap)
  <2>1. row' = Merged(task[t].base, task[t].cap, row) /\ Goto(t, Clean(t), task[t].then)
    BY <1>4 DEF TaskCommit
  <2>2. PICK old, new : old = task[t].base /\ new = task[t].cap
    OBVIOUS
  <2>3. old \in State \cup {None} /\ new \in State /\ PendPlan(new)
    BY <1>1, <2>2 DEF TaskRec, TaskPlan
  <2>4. Merged(old, new, row) \in State \cup {None}
    BY <1>1, <2>3, MergedIs
  <2>5. PendPlan(new) /\ (row # None => PendPlan(row)) =>
             (Merged(old, new, row) # None => PendPlan(Merged(old, new, row)))
    BY <1>1, <2>3, MergedIs
  <2>6. row' = Merged(old, new, row)
    BY <2>1, <2>2
  <2>7. row' \in State \cup {None} /\ (row' # None => PendPlan(row'))
    BY <1>1, <2>3, <2>4, <2>5, <2>6
  <2>8. Formed
    BY <1>2, <2>7 DEF TypeInv, TypeOK, Formed, PendPlan
  <2>9. task[t].then \in Places
    BY <1>1 DEF TaskRec, Places
  <2>10. /\ Moves(t) /\ task'[t] \in TaskRec /\ task'[t].pc = task[t].then
         /\ Like(task'[t], Clean(t))
    BY <1>1, <2>1, <2>9, CleanIs, GotoIs
  <2>11. Thens(t)
    BY <1>1, <2>10, CleanIs DEF Like, Thens, KeepsTweet
  <2>12. TaskPlan(t)'
    <3>1. Current(t)' => Current(t)
      BY <1>1, <1>2, <2>10 DEF Current, Moves, TaskWorld
    <3> QED
      BY <1>1, <1>2, <2>11, <3>1 DEF Thens, KeepsTweet, TaskPlan, Attempt, Begun, Sending, Turn,
                                   Storing, QueuePlan, OutPlan, Kept, TaskRec
  <2> QED
    BY <1>1, <1>2, <2>1, <2>8, <2>10, <2>11, <2>12, MoveInv DEF Fits
<1> QED
  BY <1>3, <1>4

\* An error of the database leaves row and memory alone.
LEMMA TaskDbErrorType ==
  ASSUME TypeInv, NEW t \in Task, TaskDbError(t)
  PROVE  /\ TypeInv' /\ TaskWorld /\ UNCHANGED <<mem, row, sent, owed>>
         /\ ((Turn(t) /\ Overs(t, task[t].n)) \/ End(t))
<1>1. /\ TaskWorld /\ UNCHANGED <<mem, row, failing, sent, owed>>
  BY DEF TaskDbError, TaskWorld, world, db, proc, hist
<1>2. \A f \in DOMAIN spent' : spent'[f] \in Nat
  BY DEF TaskDbError, Used, TypeInv, TypeOK
<1>3. Formed
  BY <1>1, <1>2 DEF TypeInv, TypeOK, Formed, PendPlan
<1> QED
  BY <1>1, <1>3, RaisedType DEF TaskDbError

-----------------------------------------------------------------------------
(* Media *)

\* The cursor is not set back by a tweet that is passed.
LEMMA PassedIs == ASSUME TypeInv, NEW i \in Id
                  PROVE  /\ Passed(i) \in State /\ Passed(i).pend = None
                         /\ Passed(i).init = mem.init
                         /\ Passed(i).last = IF i > mem.last THEN i ELSE mem.last
<1>1. mem \in State /\ i \in 0 .. MaxId /\ mem.last \in 0 .. MaxId
  BY PartsType DEF TypeInv, TypeOK, State, Id
<1>2. PICK s : s = Passed(i)
  OBVIOUS
<1>3. PICK l : l = IF i > mem.last THEN i ELSE mem.last
  OBVIOUS
<1>4. l \in 0 .. MaxId /\ s = [mem EXCEPT !.pend = None, !.last = l]
  BY <1>1, <1>2, <1>3 DEF Passed
<1>5. s \in State /\ s.pend = None /\ s.init = mem.init /\ s.last = l
  BY <1>1, <1>4 DEF State
<1> QED
  BY <1>2, <1>3, <1>5

\* The tweet in turn is passed, the batch goes on.
PassesOn(t) ==
  /\ Moves(t) /\ task'[t] \in TaskRec /\ task'[t].then = "next"
  /\ task'[t].pc \in {"persist", "next"}
  /\ task'[t].ids = task[t].ids /\ task'[t].id = task[t].id
  /\ task'[t].got = task[t].got \cup {task[t].id}
  /\ mem' = Passed(task[t].id)

\* The batch stops; memory has p pending.
Pends(p) == p \in Pending \cup {None} /\ mem' = [mem EXCEPT !.pend = p]
Halts(t) ==
  /\ Moves(t) /\ task'[t] \in TaskRec
  /\ task'[t].pc = "stop" \/ (task'[t].pc = "persist" /\ task'[t].then = "stop")
  /\ task'[t].ids = task[t].ids /\ task'[t].id = task[t].id /\ task'[t].got = task[t].got

\* Neither attempt is going on any more.
LEMMA PassPlan == ASSUME TypeInv, NEW t \in Task, PassesOn(t) \/ Halts(t)
                  PROVE  TaskPlan(t)'
BY DEF PassesOn, Halts, TaskPlan, Attempt, Begun, Sending, Turn, Storing

\* The tweet in turn is noted as pushed.
LEMMA PassIs ==
  ASSUME TypeInv, NEW t \in Task, task[t].id \in Id, mem' = Passed(task[t].id),
         Persist(t, [task[t] EXCEPT !.got = @ \cup {task[t].id}], "next")
  PROVE  PassesOn(t) /\ mem' \in State /\ mem'.pend = None
<1>1. task[t] \in TaskRec
  BY DEF TypeInv, TypeOK
<1>2. PICK r : r = [task[t] EXCEPT !.got = @ \cup {task[t].id}]
  OBVIOUS
<1>3. /\ Stays(t, r) /\ r.ids = task[t].ids /\ r.id = task[t].id
      /\ r.got = task[t].got \cup {task[t].id}
  <2>1. task[t].got \cup {task[t].id} \in SUBSET Id
    BY <1>1 DEF TaskRec
  <2> QED
    BY <1>1, <1>2, <2>1 DEF Stays, TaskRec
<1>4. /\ Moves(t) /\ task'[t] \in TaskRec /\ Like(task'[t], r) /\ task'[t].then = "next"
      /\ task'[t].pc \in {"persist", "next"}
  BY <1>2, <1>3, PersistIs
<1>5. PICK i : i = task[t].id
  OBVIOUS
<1>6. mem' = Passed(i) /\ i \in Id
  BY <1>5
<1>7. mem' \in State /\ mem'.pend = None
  BY <1>6, PassedIs
<1> QED
  BY <1>3, <1>4, <1>7 DEF PassesOn, Like

\* _give_up_tweet: the tweet is passed, and nobody is owed it.
LEMMA GiveUpIs ==
  ASSUME TypeInv, NEW t \in Task, GiveUp(t), task[t].id \in Id,
         TaskWorld, UNCHANGED <<row, sent, spent>>
  PROVE  /\ PassesOn(t) /\ owed' = [owed EXCEPT ![task[t].id] = {}] /\ Formed /\ Fits(t)
         /\ TaskPlan(t)'
<1>1. /\ mem' = Passed(task[t].id) /\ failing' = None
      /\ owed' = [owed EXCEPT ![task[t].id] = {}]
      /\ Persist(t, [task[t] EXCEPT !.got = @ \cup {task[t].id}], "next")
  BY DEF GiveUp
<1>2. PassesOn(t) /\ mem' \in State /\ mem'.pend = None
  BY <1>1, PassIs
<1>3. owed' \in [Id -> SUBSET Target]
  BY <1>1 DEF TypeInv, TypeOK
<1>4. Formed /\ Fits(t)
  BY <1>1, <1>2, <1>3 DEF TypeInv, TypeOK, Formed, PendPlan, Fits
<1> QED
  BY <1>1, <1>2, <1>4, PassPlan

\* The batch stops where it is.
LEMMA HaltsGoto == ASSUME TypeInv, NEW t \in Task, Goto(t, task[t], "stop") PROVE Halts(t)
<1>1. Stays(t, task[t]) /\ "stop" \in Places
  BY DEF TypeInv, TypeOK, Stays, Places
<1> QED
  BY <1>1, GotoIs DEF Halts, Like

\* The same when something is to be stored.
LEMMA HaltsPersist == ASSUME TypeInv, NEW t \in Task, Persist(t, task[t], "stop") PROVE Halts(t)
<1>1. Stays(t, task[t])
  BY DEF TypeInv, TypeOK, Stays
<1>2. /\ Moves(t) /\ task'[t] \in TaskRec /\ Like(task'[t], task[t]) /\ task'[t].then = "stop"
      /\ task'[t].pc \in {"persist", "stop"}
  BY <1>1, PersistIs
<1> QED
  BY <1>2 DEF Halts, Like

\* Something else is pending.
LEMMA PendsFormed ==
  ASSUME TypeInv, NEW p, Pends(p), p # None => PlanOK(p),
         UNCHANGED <<row, sent, owed, spent>>,
         failing' \in [id: Id, old: BOOLEAN] \cup {None}
  PROVE  /\ Formed
         /\ mem'.pend = p /\ mem'.last = mem.last /\ mem'.init = mem.init
<1>1. mem \in State /\ p \in Pending \cup {None} /\ mem' = [mem EXCEPT !.pend = p]
  BY DEF TypeInv, TypeOK, Pends
<1>2. mem' \in State /\ mem'.pend = p /\ mem'.last = mem.last /\ mem'.init = mem.init
  BY <1>1, StateIs
<1> QED
  BY <1>2 DEF TypeInv, TypeOK, Formed, PendPlan

\* Since when a tweet has been failing.
LEMMA SinceIs == ASSUME TypeInv, NEW i \in Id
                 PROVE  Since(i) \in [id: Id, old: BOOLEAN]
BY DEF TypeInv, TypeOK, Since

\* Whom a tweet whose media are missing is for.
Waiting(t) == [id |-> task[t].id, fp |-> None, at |-> [x \in conf.to |-> 0]]

\* Without its media a tweet is given up, or waits with whom it is for noted.
LEMMA MediaMissingType ==
  ASSUME TypeInv, NEW t \in Task, MediaMissing(t)
  PROVE  /\ TypeInv' /\ TaskWorld /\ UNCHANGED <<row, sent>> /\ task[t].pc = "media"
         /\ \/ PassesOn(t) /\ owed' = [owed EXCEPT ![task[t].id] = {}]
            \/ Halts(t) /\ UNCHANGED <<mem, owed>>
            \/ Halts(t) /\ Pends(Waiting(t)) /\ UNCHANGED owed
<1>1. /\ task[t].pc = "media" /\ task[t].ahead = {} /\ task[t].id \in Id
  BY HasLock DEF MediaMissing, At, TypeInv, TaskPlan, Attempt
<1>2. TaskWorld /\ UNCHANGED <<row, sent, spent>>
  BY DEF MediaMissing, TaskWorld, world, db, proc, bound
<1>3. PICK i : i = task[t].id
  OBVIOUS
<1>4. CASE Since(i).old
  <2>1. GiveUp(t)
    BY <1>3, <1>4 DEF MediaMissing
  <2> QED
    BY <1>1, <1>2, <2>1, GiveUpIs, MoveInv DEF PassesOn
<1>5. CASE ~Since(i).old
  <2>1. failing' = Since(i) /\ UNCHANGED owed
    BY <1>3, <1>5 DEF MediaMissing
  <2>2. failing' \in [id: Id, old: BOOLEAN] \cup {None}
    BY <1>1, <1>3, <2>1, SinceIs
  <2>3. CASE Kept(i) \/ conf.to = {}
    <3>1. Halts(t) /\ UNCHANGED mem
      BY <1>3, <1>5, <2>3, HaltsGoto, HaltsPersist DEF MediaMissing
    <3>2. Formed /\ Fits(t)
      BY <1>2, <2>1, <2>2, <3>1 DEF TypeInv, TypeOK, Formed, PendPlan, Fits
    <3> QED
      BY <1>1, <1>2, <2>1, <3>1, <3>2, PassPlan, MoveInv DEF Halts
  <2>4. CASE ~Kept(i) /\ conf.to # {}
    <3>1. PICK p : p = Waiting(t)
      OBVIOUS
    <3>2. mem' = [mem EXCEPT !.pend = p] /\ Persist(t, task[t], "stop")
      BY <1>3, <1>5, <2>4, <3>1 DEF MediaMissing, Waiting
    <3>3. p \in Pending /\ p.fp = None /\ PlanOK(p)
      <4>1. PICK at : at = [x \in conf.to |-> 0]
        OBVIOUS
      <4>2. conf.to \in SUBSET Target /\ 0 \in Done .. Body + 1
        BY ConfigIs, PartsType DEF TypeInv, TypeOK, Done
      <4>3. PICK S : S = conf.to
        OBVIOUS
      <4>4. at \in Progress
        BY <4>1, <4>2, <4>3, ConstantIs
      <4>5. p = [id |-> i, fp |-> None, at |-> at]
        BY <1>3, <3>1, <4>1 DEF Waiting
      <4>6. p \in Pending
        BY <1>1, <1>3, <4>4, <4>5, PendingIs
      <4> QED
        BY <4>1, <4>5, <4>6 DEF PlanOK
    <3>4. Pends(p) /\ Halts(t)
      BY <3>2, <3>3, HaltsPersist DEF Pends
    <3>5. Formed /\ mem'.pend = p
      BY <1>2, <2>1, <2>2, <3>3, <3>4, PendsFormed
    <3>6. Fits(t) /\ TaskPlan(t)'
      BY <3>3, <3>4, <3>5, PassPlan DEF Fits
    <3>7. TypeInv'
      BY <1>1, <1>2, <3>4, <3>5, <3>6, MoveInv DEF Halts
    <3> QED
      BY <1>1, <1>2, <2>1, <3>1, <3>4, <3>7
  <2> QED
    BY <2>3, <2>4
<1> QED
  BY <1>4, <1>5

\* The next part of each target that does not have the tweet yet.
Queued(i) == [x \in conf.to \ Served(i) |-> IF Kept(i) THEN StartOf(x) ELSE 0]

\* The parts that are noted count in the plan in force, or they are zero.
LEMMA QueuedIs ==
  ASSUME TypeInv, NEW i \in Id
  PROVE  /\ Served(i) \in SUBSET Target /\ Queued(i) \in Progress
         /\ DOMAIN Queued(i) = conf.to \ Served(i)
         /\ \A x \in DOMAIN Queued(i) :
              /\ 0 <= Queued(i)[x] /\ Queued(i)[x] <= Parts(x, conf.all)
              /\ \/ Queued(i)[x] = 0
                 \/ /\ Kept(i) /\ mem.pend.fp = conf.all /\ x \in DOMAIN mem.pend.at
                    /\ Queued(i)[x] = mem.pend.at[x]
<1>1. /\ conf.to \in SUBSET Target /\ conf.all \in BOOLEAN /\ mem \in State /\ PendPlan(mem)
  BY ConfigIs DEF TypeInv, TypeOK
<1>2. PICK q : q = Queued(i)
  OBVIOUS
<1>3. /\ DOMAIN q = conf.to \ Served(i) /\ q = [x \in DOMAIN q |-> q[x]]
      /\ \A x \in DOMAIN q : q[x] = IF Kept(i) THEN StartOf(x) ELSE 0
  BY <1>2 DEF Queued
<1>4. ASSUME NEW x \in DOMAIN q
      PROVE  /\ 0 <= q[x] /\ q[x] <= Parts(x, conf.all) /\ q[x] \in Done .. Body + 1
             /\ \/ q[x] = 0
                \/ /\ Kept(i) /\ mem.pend.fp = conf.all /\ x \in DOMAIN mem.pend.at
                   /\ q[x] = mem.pend.at[x]
  <2>1. CASE q[x] = 0
    BY <2>1, PartsType DEF Done
  <2>2. CASE q[x] # 0
    <3>1. /\ Kept(i) /\ mem.pend.fp = conf.all /\ x \in DOMAIN mem.pend.at
          /\ q[x] = mem.pend.at[x]
      BY <1>3, <1>4, <2>2 DEF StartOf
    <3>2. mem.pend \in Pending /\ mem.pend.at \in Progress
      BY <1>1, <3>1 DEF Kept, State, Pending
    <3>3. q[x] \in Done .. Body + 1
      <4>1. PICK at : at = mem.pend.at
        OBVIOUS
      <4>2. at \in Progress /\ x \in DOMAIN at /\ q[x] = at[x]
        BY <3>1, <3>2, <4>1
      <4> QED
        BY <4>2, ProgressIs
    <3>4. q[x] # Done
      BY <1>3, <1>4, <3>1 DEF Served
    <3>5. q[x] <= Parts(x, conf.all)
      BY <1>1, <3>1, NoneIs DEF PendPlan, PlanOK, Kept
    <3> QED
      BY <3>1, <3>3, <3>4, <3>5, PartsType DEF Done
  <2> QED
    BY <2>1, <2>2
<1>5. DOMAIN q \subseteq Target /\ Served(i) \in SUBSET Target
  BY <1>1, <1>3 DEF Served
<1>6. q \in Progress
  BY <1>3, <1>4, <1>5, ProgressIs
<1> QED
  BY <1>2, <1>3, <1>4, <1>5, <1>6

\* The attempt on a tweet begins.
Begins(t) ==
  /\ Moves(t) /\ task'[t] \in TaskRec /\ task'[t].pc = "persist" /\ task'[t].then = "ready"
  /\ task'[t].ids = task[t].ids /\ task'[t].id = task[t].id /\ task'[t].got = task[t].got
  /\ task'[t].all = conf.all /\ task'[t].done = Served(task[t].id)
  /\ task'[t].queue = Queued(task[t].id)

\* What is pending in it.
Rostered(t) == [id |-> task'[t].id, fp |-> task'[t].all,
                at |-> Roster(task'[t].done, task'[t].queue)]

\* A roster is within the plan that it is saved with.
LEMMA RosterPlan ==
  ASSUME NEW i \in Id, NEW all \in BOOLEAN, NEW done \in SUBSET Target, NEW queue \in Progress,
         \A x \in DOMAIN queue : queue[x] <= Parts(x, all)
  PROVE  LET p == [id |-> i, fp |-> all, at |-> Roster(done, queue)] IN
         p \in Pending /\ PlanOK(p)
<1>1. PICK at : at = Roster(done, queue)
  OBVIOUS
<1>2. /\ at \in Progress
      /\ \A x \in DOMAIN at : at[x] = Done \/ (x \in DOMAIN queue /\ at[x] = queue[x])
  <2>1. /\ Roster(done, queue) \in Progress
        /\ DOMAIN Roster(done, queue) = done \cup DOMAIN queue
        /\ \A x \in done : Roster(done, queue)[x] = Done
        /\ \A x \in DOMAIN queue \ done : Roster(done, queue)[x] = queue[x]
    BY RosterIs
  <2> QED
    BY <1>1, <2>1
<1>3. PICK p : p = [id |-> i, fp |-> all, at |-> at]
  OBVIOUS
<1>4. p \in Pending
  BY <1>2, <1>3, PendingIs
<1>5. \A x \in DOMAIN at : at[x] <= Parts(x, all)
  BY <1>2, PartsType DEF Done
<1>6. PlanOK(p)
  BY <1>3, <1>5, NoneIs DEF PlanOK
<1> QED
  BY <1>1, <1>3, <1>4, <1>6

\* With its media the attempt begins; without targets there is nothing to do.
LEMMA MediaReadyType ==
  ASSUME TypeInv, NEW t \in Task, MediaReady(t)
  PROVE  /\ TypeInv' /\ TaskWorld /\ UNCHANGED <<row, sent, owed>> /\ task[t].pc = "media"
         /\ \/ PassesOn(t) /\ conf.to = {} /\ Kept(task[t].id)
            \/ Halts(t) /\ (Pends(None) \/ Pends(mem.pend))
            \/ Begins(t) /\ Pends(Rostered(t)) /\ Live(t)
<1>1. /\ task[t].pc = "media" /\ task[t].ahead = {} /\ task[t].id \in Id /\ task[t] \in TaskRec
  BY HasLock DEF MediaReady, At, TypeInv, TypeOK, TaskPlan, Attempt
<1>2. TaskWorld /\ UNCHANGED <<row, failing, sent, owed, spent>>
  BY DEF MediaReady, TaskWorld, world, db, proc, hist, bound
<1>3. failing' \in [id: Id, old: BOOLEAN] \cup {None}
  BY <1>2 DEF TypeInv, TypeOK
<1>4. PICK i : i = task[t].id
  OBVIOUS
<1>5. CASE conf.to = {} /\ Kept(i)
  <2>1. mem' = Passed(i) /\ Persist(t, [task[t] EXCEPT !.got = @ \cup {i}], "next")
    BY <1>4, <1>5 DEF MediaReady
  <2>2. PassesOn(t) /\ mem' \in State /\ mem'.pend = None
    BY <1>1, <1>4, <2>1, PassIs
  <2>3. Formed /\ Fits(t)
    BY <1>2, <2>2 DEF TypeInv, TypeOK, Formed, PendPlan, Fits
  <2> QED
    BY <1>1, <1>2, <1>4, <1>5, <2>2, <2>3, PassPlan, MoveInv DEF PassesOn
<1>6. CASE Halts(t) /\ (Pends(None) \/ Pends(mem.pend))
  <2>1. PICK p : Pends(p) /\ p \in {None, mem.pend}
    BY <1>6
  <2>2. p # None => PlanOK(p)
    BY <2>1 DEF TypeInv, PendPlan
  <2>3. Formed /\ mem'.pend = p
    BY <1>2, <1>3, <2>1, <2>2, PendsFormed
  <2>4. Fits(t) /\ TaskPlan(t)'
    BY <1>6, <2>1, <2>3, PassPlan DEF Fits
  <2> QED
    BY <1>1, <1>2, <1>6, <2>3, <2>4, MoveInv DEF Halts
<1>7. CASE conf.to # {} /\ Live(t)
  <2>1. PICK done, queue : done = Served(i) /\ queue = Queued(i)
    OBVIOUS
  <2>2. PICK r : r = [task[t] EXCEPT !.all = conf.all, !.done = done, !.queue = queue]
    OBVIOUS
  <2>3. /\ mem' = [mem EXCEPT !.pend = [id |-> i, fp |-> conf.all, at |-> Roster(r.done, queue)]]
        /\ Persist(t, r, "ready")
    BY <1>4, <1>7, <2>1, <2>2 DEF MediaReady, Queued
  <2>4. /\ done \in SUBSET Target /\ queue \in Progress /\ conf.all \in BOOLEAN
        /\ \A x \in DOMAIN queue : 0 <= queue[x] /\ queue[x] <= Parts(x, conf.all)
    BY <1>1, <1>4, <2>1, QueuedIs, ConfigIs DEF TypeInv, TypeOK
  <2>5. /\ Stays(t, r) /\ r.all = conf.all /\ r.done = done /\ r.queue = queue
        /\ r.ids = task[t].ids /\ r.id = task[t].id /\ r.got = task[t].got
    BY <1>1, <2>2, <2>4 DEF Stays, TaskRec
  <2>6. /\ Moves(t) /\ task'[t] \in TaskRec /\ Like(task'[t], r) /\ task'[t].then = "ready"
        /\ task'[t].pc = "persist"
    BY <1>7, <2>3, <2>5, PersistIs
  <2>7. Begins(t)
    BY <1>4, <2>1, <2>5, <2>6 DEF Begins, Like
  <2>8. PICK p : p = Rostered(t)
    OBVIOUS
  <2>9. p = [id |-> i, fp |-> conf.all, at |-> Roster(done, queue)]
    BY <1>4, <2>1, <2>7, <2>8 DEF Begins, Rostered
  <2>10. p \in Pending /\ PlanOK(p) /\ p.fp = conf.all
    <3>1. PICK all : all = conf.all
      OBVIOUS
    <3>2. p = [id |-> i, fp |-> all, at |-> Roster(done, queue)] /\ all \in BOOLEAN
      BY <2>4, <2>9, <3>1
    <3>3. p \in Pending /\ PlanOK(p)
      BY <1>1, <1>4, <2>4, <3>1, <3>2, RosterPlan
    <3> QED
      BY <2>9, <3>3
  <2>11. Pends(p)
    BY <2>3, <2>5, <2>9, <2>10 DEF Pends
  <2>12. Formed /\ mem'.pend = p
    BY <1>2, <1>3, <2>10, <2>11, PendsFormed
  <2>13. TaskPlan(t)'
    <3>1. QueuePlan(t)'
      BY <2>4, <2>5, <2>6 DEF QueuePlan, Like
    <3> QED
      BY <1>1, <2>5, <2>6, <2>7, <2>10, <2>12, <3>1
         DEF TaskPlan, Begins, Attempt, Begun, Sending, Turn, Storing
  <2>14. Fits(t)
    BY <1>1, <1>7 DEF Fits, Current, Live, Valid
  <2> QED
    BY <1>1, <1>2, <1>7, <2>6, <2>7, <2>8, <2>11, <2>12, <2>13, <2>14, MoveInv
<1>8. CASE (conf.to # {} /\ ~Live(t)) \/ (conf.to = {} /\ ~Kept(i))
  <2>1. PICK p \in {None, mem.pend} : mem' = [mem EXCEPT !.pend = p]
    BY <1>4, <1>8 DEF MediaReady
  <2>2. Pends(p)
    BY <2>1 DEF Pends, TypeInv, TypeOK, State
  <2>3. Halts(t)
    BY <1>4, <1>8, HaltsGoto DEF MediaReady
  <2> QED
    BY <1>6, <2>1, <2>2, <2>3
<1> QED
  BY <1>5, <1>7, <1>8

-----------------------------------------------------------------------------
(* Sending *)

\* The message is about to be sent, to the targets that are still there.
Prepares(t) ==
  /\ Moves(t) /\ task'[t] \in TaskRec /\ task'[t].pc = "send" /\ KeepsTweet(t)
  /\ DOMAIN task'[t].queue = DOMAIN task[t].queue \cap conf.to
  /\ \A x \in DOMAIN task'[t].queue : task'[t].queue[x] = task[t].queue[x]
  /\ task'[t].out = NoBody

\* The roster is saved again, without the targets that left.
LEMMA SendBeginType ==
  ASSUME TypeInv, NEW t \in Task, SendBegin(t)
  PROVE  /\ TypeInv' /\ TaskWorld /\ UNCHANGED <<row, sent, owed>> /\ task[t].pc = "ready"
         /\ \/ Halts(t) /\ UNCHANGED mem
            \/ Prepares(t) /\ Pends(Rostered(t)) /\ Live(t)
<1>1. /\ task[t].pc = "ready" /\ task[t].ahead = {} /\ Begun(t) /\ Attempt(t)
      /\ task[t] \in TaskRec /\ TaskPlan(t) /\ task[t].id \in Id
  BY HasLock DEF SendBegin, At, TypeInv, TypeOK, TaskPlan, Attempt, Begun
<1>2. TaskWorld /\ UNCHANGED <<row, failing, sent, owed, spent>>
  BY DEF SendBegin, TaskWorld, world, db, proc, hist, bound
<1>3. failing' \in [id: Id, old: BOOLEAN] \cup {None}
  BY <1>2 DEF TypeInv, TypeOK
<1>4. CASE ~Live(t)
  <2>1. Halts(t) /\ UNCHANGED mem
    BY <1>4, HaltsGoto DEF SendBegin
  <2>2. Formed /\ Fits(t)
    BY <1>2, <2>1, FormedSame DEF Fits
  <2> QED
    BY <1>1, <1>2, <2>1, <2>2, PassPlan, MoveInv DEF Halts
<1>5. CASE Live(t)
  <2>1. PICK f, S : f = task[t].queue /\ S = DOMAIN task[t].queue \cap conf.to
    OBVIOUS
  <2>2. PICK queue : queue = Restrict(f, S)
    OBVIOUS
  <2>3. /\ f \in Progress /\ S \subseteq DOMAIN f
        /\ \A x \in DOMAIN f : 0 <= f[x] /\ f[x] <= Parts(x, task[t].all)
    BY <1>1, <2>1 DEF TaskRec, TaskPlan, QueuePlan
  <2>4. /\ Restrict(f, S) \in Progress /\ DOMAIN Restrict(f, S) = S
        /\ \A x \in S : Restrict(f, S)[x] = f[x]
    BY <2>3, RestrictIs
  <2>5. /\ queue \in Progress /\ DOMAIN queue = S /\ \A x \in S : queue[x] = f[x]
        /\ \A x \in DOMAIN queue : 0 <= queue[x] /\ queue[x] <= Parts(x, task[t].all)
    BY <2>2, <2>3, <2>4
  <2>6. PICK r : r = [task[t] EXCEPT !.queue = queue, !.out = NoBody]
    OBVIOUS
  <2>7. /\ mem' = [mem EXCEPT !.pend = [id |-> task[t].id, fp |-> task[t].all,
                                        at |-> Roster(task[t].done, queue)]]
        /\ Goto(t, r, "send")
    BY <1>5, <2>1, <2>2, <2>6 DEF SendBegin
  <2>8. /\ Stays(t, r) /\ r.queue = queue /\ r.out = NoBody /\ r.ids = task[t].ids
        /\ r.id = task[t].id /\ r.got = task[t].got /\ r.all = task[t].all /\ r.done = task[t].done
    <3>1. NoBody \in Progress
      BY ProgressIs DEF NoBody
    <3> QED
      BY <1>1, <2>5, <2>6, <3>1 DEF Stays, TaskRec
  <2>9. Moves(t) /\ task'[t] \in TaskRec /\ task'[t].pc = "send" /\ Like(task'[t], r)
    BY <2>7, <2>8, GotoIs DEF Places
  <2>10. Prepares(t)
    BY <2>1, <2>5, <2>8, <2>9 DEF Prepares, KeepsTweet, Like
  <2>11. PICK p : p = Rostered(t)
    OBVIOUS
  <2>12. p = [id |-> task[t].id, fp |-> task[t].all, at |-> Roster(task[t].done, queue)]
    BY <2>8, <2>9, <2>11 DEF Like, Rostered
  <2>13. p \in Pending /\ PlanOK(p) /\ p.fp = task[t].all
    <3>1. PICK i, all, done : i = task[t].id /\ all = task[t].all /\ done = task[t].done
      OBVIOUS
    <3>2. i \in Id /\ all \in BOOLEAN /\ done \in SUBSET Target
      BY <1>1, <3>1 DEF TaskRec
    <3>3. p = [id |-> i, fp |-> all, at |-> Roster(done, queue)]
      BY <2>12, <3>1
    <3>4. p \in Pending /\ PlanOK(p)
      BY <2>5, <3>1, <3>2, <3>3, RosterPlan
    <3> QED
      BY <2>12, <3>4
  <2>14. Pends(p)
    BY <2>7, <2>12, <2>13 DEF Pends
  <2>15. Formed /\ mem'.pend = p
    BY <1>2, <1>3, <2>13, <2>14, PendsFormed
  <2>16. TaskPlan(t)'
    <3>1. QueuePlan(t)' /\ OutPlan(t)'
      BY <2>5, <2>8, <2>9 DEF QueuePlan, OutPlan, Like, NoBody
    <3> QED
      BY <1>1, <2>9, <2>10, <2>13, <2>15, <3>1
         DEF TaskPlan, Prepares, KeepsTweet, Attempt, Begun, Sending, Turn, Storing
  <2>17. Fits(t)
    BY <1>1, <1>5 DEF Fits, Current, Live, Valid
  <2> QED
    BY <1>1, <1>2, <1>5, <2>9, <2>10, <2>11, <2>14, <2>15, <2>16, <2>17, MoveInv
<1> QED
  BY <1>4, <1>5

\* A target leaves the queue.
Leaves(t, x) ==
  /\ Moves(t) /\ task'[t] \in TaskRec /\ KeepsTweet(t) /\ task'[t].out = task[t].out
  /\ DOMAIN task'[t].queue = DOMAIN task[t].queue \ {x}
  /\ \A y \in DOMAIN task'[t].queue : task'[t].queue[y] = task[t].queue[y]

\* The locals after a target has left the queue.
LEMMA WithoutIs ==
  ASSUME TypeInv, NEW t \in Task, NEW x \in Target
  PROVE  /\ Stays(t, Without(t, x)) /\ Without(t, x).to = x /\ Without(t, x).ids = task[t].ids
         /\ Without(t, x).id = task[t].id /\ Without(t, x).got = task[t].got
         /\ Without(t, x).all = task[t].all /\ Without(t, x).done = task[t].done
         /\ Without(t, x).out = task[t].out
         /\ DOMAIN Without(t, x).queue = DOMAIN task[t].queue \ {x}
         /\ \A y \in DOMAIN task[t].queue \ {x} : Without(t, x).queue[y] = task[t].queue[y]
<1>1. task[t] \in TaskRec
  BY DEF TypeInv, TypeOK
<1>2. PICK f, S : f = task[t].queue /\ S = DOMAIN task[t].queue \ {x}
  OBVIOUS
<1>3. PICK queue : queue = Restrict(f, S)
  OBVIOUS
<1>4. f \in Progress /\ S \subseteq DOMAIN f
  BY <1>1, <1>2 DEF TaskRec
<1>5. /\ Restrict(f, S) \in Progress /\ DOMAIN Restrict(f, S) = S
      /\ \A y \in S : Restrict(f, S)[y] = f[y]
  BY <1>4, RestrictIs
<1>6. PICK r : r = [task[t] EXCEPT !.queue = queue, !.to = x]
  OBVIOUS
<1>7. r = Without(t, x)
  BY <1>2, <1>3, <1>6 DEF Without
<1>8. /\ r \in TaskRec /\ r.gen = task[t].gen /\ r.epoch = task[t].epoch
      /\ r.ahead = task[t].ahead /\ r.to = x /\ r.ids = task[t].ids
      /\ r.id = task[t].id /\ r.got = task[t].got /\ r.all = task[t].all
      /\ r.done = task[t].done /\ r.out = task[t].out /\ r.queue = queue
  BY <1>1, <1>3, <1>5, <1>6 DEF TaskRec
<1> QED
  BY <1>2, <1>3, <1>5, <1>7, <1>8 DEF Stays
\* A target that may not get the tweet any more is left out.
LEMMA SendSkipType ==
  ASSUME TypeInv, NEW t \in Task, NEW x \in Target, SendSkip(t, x)
  PROVE  /\ TypeInv' /\ TaskWorld /\ UNCHANGED <<mem, row, sent, owed>> /\ task[t].pc = "send"
         /\ Leaves(t, x) /\ task'[t].pc = "send" /\ ~Active(t, x)
<1>1. /\ task[t].pc = "send" /\ task[t].ahead = {} /\ task[t] \in TaskRec /\ TaskPlan(t)
      /\ ~Active(t, x)
  BY HasLock DEF SendSkip, InTurn, At, TypeInv, TypeOK
<1>2. TaskWorld /\ Formed /\ Fits(t) /\ UNCHANGED <<mem, row, sent, owed>>
  BY FormedSame DEF SendSkip, TaskWorld, world, db, proc, hist, bound, Fits
<1>3. PICK w : w = Without(t, x)
  OBVIOUS
<1>4. /\ Stays(t, w) /\ w.ids = task[t].ids
      /\ w.id = task[t].id /\ w.got = task[t].got /\ w.all = task[t].all /\ w.done = task[t].done
      /\ w.out = task[t].out /\ DOMAIN w.queue = DOMAIN task[t].queue \ {x}
      /\ \A y \in DOMAIN task[t].queue \ {x} : w.queue[y] = task[t].queue[y]
  BY <1>3, WithoutIs
<1>5. PICK r : r = [w EXCEPT !.to = None]
  OBVIOUS
<1>6. /\ Stays(t, r) /\ r.ids = w.ids /\ r.id = w.id /\ r.got = w.got /\ r.all = w.all
      /\ r.done = w.done /\ r.out = w.out /\ r.queue = w.queue
  BY <1>4, <1>5 DEF Stays, TaskRec
<1>7. Goto(t, r, "send")
  BY <1>3, <1>5 DEF SendSkip
<1>8. Moves(t) /\ task'[t] \in TaskRec /\ task'[t].pc = "send" /\ Like(task'[t], r)
  BY <1>6, <1>7, GotoIs DEF Places
<1>9. Leaves(t, x)
  BY <1>4, <1>6, <1>8 DEF Leaves, KeepsTweet, Like
<1>10. TaskPlan(t)'
  <2>1. QueuePlan(t)' /\ OutPlan(t)'
    BY <1>1, <1>4, <1>9 DEF TaskPlan, Begun, Sending, QueuePlan, OutPlan, Leaves, KeepsTweet
  <2> QED
    BY <1>1, <1>2, <1>8, <1>9, <2>1 DEF TaskPlan, Leaves, KeepsTweet, Moves, Current, TaskWorld,
                                  Kept, Attempt, Begun, Sending, Turn, Storing
<1> QED
  BY <1>1, <1>2, <1>8, <1>9, <1>10, MoveInv

\* A target has its turn.
LEMMA SendStartType ==
  ASSUME TypeInv, NEW t \in Task, NEW x \in Target, SendStart(t, x)
  PROVE  /\ TypeInv' /\ TaskWorld /\ UNCHANGED <<mem, row, sent, owed>> /\ task[t].pc = "send"
         /\ Leaves(t, x) /\ task'[t].pc = "part" /\ task'[t].to = x
         /\ x \in DOMAIN task[t].queue /\ task'[t].n = task[t].queue[x]
<1>1. /\ task[t].pc = "send" /\ task[t].ahead = {} /\ task[t] \in TaskRec /\ TaskPlan(t)
      /\ x \in DOMAIN task[t].queue
  BY HasLock DEF SendStart, InTurn, At, TypeInv, TypeOK
<1>2. TaskWorld /\ Formed /\ Fits(t) /\ UNCHANGED <<mem, row, sent, owed>>
  BY FormedSame DEF SendStart, TaskWorld, world, db, proc, hist, bound, Fits
<1>3. PICK w : w = Without(t, x)
  OBVIOUS
<1>4. /\ Stays(t, w) /\ w.ids = task[t].ids /\ w.to = x
      /\ w.id = task[t].id /\ w.got = task[t].got /\ w.all = task[t].all /\ w.done = task[t].done
      /\ w.out = task[t].out /\ DOMAIN w.queue = DOMAIN task[t].queue \ {x}
      /\ \A y \in DOMAIN task[t].queue \ {x} : w.queue[y] = task[t].queue[y]
  BY <1>3, WithoutIs
<1>5. PICK n : n = task[t].queue[x]
  OBVIOUS
<1>6. n \in Done .. Body + 1 /\ 0 <= n /\ n <= Parts(x, task[t].all)
  <2>1. PICK f : f = task[t].queue
    OBVIOUS
  <2>2. f \in Progress /\ x \in DOMAIN f /\ n = f[x]
    BY <1>1, <1>5, <2>1 DEF TaskRec
  <2>3. n \in Done .. Body + 1
    BY <2>2, ProgressIs
  <2> QED
    BY <1>1, <1>5, <2>3 DEF TaskPlan, Begun, Sending, QueuePlan
<1>7. PICK r : r = [w EXCEPT !.n = n]
  OBVIOUS
<1>8. /\ Stays(t, r) /\ r.ids = w.ids /\ r.id = w.id /\ r.got = w.got /\ r.all = w.all
      /\ r.done = w.done /\ r.out = w.out /\ r.queue = w.queue /\ r.to = x /\ r.n = n
  BY <1>4, <1>6, <1>7 DEF Stays, TaskRec
<1>9. Goto(t, r, "part")
  BY <1>3, <1>5, <1>7 DEF SendStart
<1>10. Moves(t) /\ task'[t] \in TaskRec /\ task'[t].pc = "part" /\ Like(task'[t], r)
  BY <1>8, <1>9, GotoIs DEF Places
<1>11. Leaves(t, x) /\ task'[t].to = x /\ task'[t].n = n
  BY <1>4, <1>8, <1>10 DEF Leaves, KeepsTweet, Like
<1>12. TaskPlan(t)'
  <2>1. QueuePlan(t)' /\ OutPlan(t)'
    BY <1>1, <1>4, <1>11 DEF TaskPlan, Begun, Sending, QueuePlan, OutPlan, Leaves, KeepsTweet
  <2> QED
    BY <1>1, <1>2, <1>6, <1>10, <1>11, <2>1, NoneIs
       DEF TaskPlan, Leaves, KeepsTweet, Moves, Current, TaskWorld, Kept, Attempt, Begun, Sending,
           Turn, Storing
<1> QED
  BY <1>1, <1>2, <1>5, <1>10, <1>11, <1>12, MoveInv

\* A target that has its turn, and the next part for it.
LEMMA TurnIs ==
  ASSUME TypeInv, NEW t \in Task, Turn(t)
  PROVE  /\ task[t].pc \notin {"idle", "next"} /\ task[t].ahead = {} /\ task[t] \in TaskRec
         /\ task[t].to \in Target /\ task[t].n \in Done .. Body + 1 /\ 0 <= task[t].n
         /\ task[t].n <= Parts(task[t].to, task[t].all)
         /\ Sending(t) /\ Begun(t) /\ Attempt(t) /\ task[t].id \in Id /\ task[t].all \in BOOLEAN
<1>1. task[t].pc \notin {"idle", "next"} /\ task[t] \in TaskRec /\ TaskPlan(t)
  BY DEF Turn, Storing, TypeInv, TypeOK
<1> QED
  BY <1>1, HasLock DEF TaskPlan, TaskRec, Attempt, Begun, Sending

\* The turn of a target ends with the message that is in memory untouched.
LEMMA TurnEnds ==
  ASSUME TypeInv, NEW t \in Task, Turn(t), NEW n \in {task[t].n, Done}, Over(t, task[t], n),
         TaskWorld, Formed, UNCHANGED mem
  PROVE  TypeInv' /\ Overs(t, n)
<1>1. /\ task[t].pc # "idle" /\ task[t].ahead = {} /\ task[t].to \in Target
      /\ n \in Done .. Body + 1 /\ n <= Parts(task[t].to, task[t].all)
  BY TurnIs, PartsType DEF Done
<1>2. Overs(t, n)
  BY <1>1, OverIs
<1>3. TaskPlan(t)'
  BY <1>1, <1>2, OverPlan DEF TaskWorld
<1> QED
  BY <1>1, <1>2, <1>3, MoveInv DEF Overs, Fits

\* The next part is sent, unless there is none, or the target may not get it any more.
LEMMA SendPartType ==
  ASSUME TypeInv, NEW t \in Task, SendPart(t)
  PROVE  /\ TypeInv' /\ TaskWorld /\ UNCHANGED <<mem, row, sent, owed>> /\ task[t].pc = "part"
         /\ \/ task[t].n = Parts(task[t].to, task[t].all) /\ Overs(t, Done)
            \/ /\ Moves(t) /\ task'[t].pc = "inflight" /\ Like(task'[t], task[t])
               /\ task'[t].then = task[t].then /\ Active(t, task[t].to)
            \/ Overs(t, task[t].n)
<1>1. task[t].pc = "part" /\ Turn(t)
  BY DEF SendPart, At, Turn
<1>2. TaskWorld /\ Formed /\ Fits(t) /\ UNCHANGED <<mem, row, sent, owed>>
  BY FormedSame DEF SendPart, TaskWorld, world, db, proc, hist, bound, Fits
<1>3. CASE task[t].n = Parts(task[t].to, task[t].all)
  <2>1. Over(t, task[t], Done)
    BY <1>3 DEF SendPart
  <2> QED
    BY <1>1, <1>2, <1>3, <2>1, TurnEnds
<1>4. CASE task[t].n # Parts(task[t].to, task[t].all) /\ ~Active(t, task[t].to)
  <2>1. Over(t, task[t], task[t].n)
    BY <1>4 DEF SendPart
  <2>2. PICK n : n = task[t].n
    OBVIOUS
  <2>3. Overs(t, n) /\ TypeInv'
    BY <1>1, <1>2, <2>1, <2>2, TurnEnds
  <2> QED
    BY <1>1, <1>2, <2>2, <2>3
<1>5. CASE task[t].n # Parts(task[t].to, task[t].all) /\ Active(t, task[t].to)
  <2>1. Goto(t, task[t], "inflight")
    BY <1>5 DEF SendPart
  <2>2. /\ Moves(t) /\ task'[t] \in TaskRec /\ task'[t].pc = "inflight"
        /\ Like(task'[t], task[t]) /\ task'[t].then = task[t].then
    BY <1>1, <2>1, TurnIs, GotoIs DEF Stays, Places
  <2>3. /\ TaskPlan(t) /\ task[t].n < Parts(task[t].to, task[t].all) /\ task[t].to # None
        /\ task[t].n <= Parts(task[t].to, task[t].all) /\ 0 <= task[t].n /\ task[t].id \in Id
        /\ Sending(t) /\ Begun(t)
    BY <1>1, <1>5, TurnIs, PartsType, NoneIs DEF TypeInv, Done
  <2>4. TaskPlan(t)'
    <3>1. QueuePlan(t)' /\ OutPlan(t)'
      BY <2>2, <2>3 DEF TaskPlan, QueuePlan, OutPlan, Like
    <3> QED
      BY <1>2, <2>2, <2>3, <3>1
         DEF TaskPlan, Like, Moves, Current, TaskWorld, Kept, Attempt, Begun, Sending, Turn, Storing
  <2> QED
    BY <1>1, <1>2, <1>5, <2>2, <2>4, TurnIs, MoveInv
<1> QED
  BY <1>3, <1>4, <1>5

\* Each failure of a send leaves the memory alone.
LEMMA SendFailedType ==
  ASSUME TypeInv, NEW t \in Task, SendFailed(t)
  PROVE  /\ TypeInv' /\ TaskWorld /\ UNCHANGED <<mem, row, sent, owed>> /\ task[t].pc = "inflight"
         /\ Overs(t, task[t].n)
<1>1. task[t].pc = "inflight" /\ Turn(t) /\ Over(t, task[t], task[t].n)
  BY DEF SendFailed, At, Turn
<1>2. TaskWorld /\ Formed /\ UNCHANGED <<mem, row, sent, owed>>
  BY FormedSame DEF SendFailed, TaskWorld, world, db, proc, hist, bound
<1>3. PICK n : n = task[t].n
  OBVIOUS
<1>4. Overs(t, n) /\ TypeInv'
  BY <1>1, <1>2, <1>3, TurnEnds
<1> QED
  BY <1>1, <1>2, <1>3, <1>4

\* A target that will never take the tweet is not owed it any more.
LEMMA SendRefusedType ==
  ASSUME TypeInv, NEW t \in Task, SendRefused(t)
  PROVE  /\ TypeInv' /\ TaskWorld /\ UNCHANGED <<mem, row, sent>> /\ task[t].pc = "inflight"
         /\ Overs(t, Done) /\ owed' = [owed EXCEPT ![task[t].id] = @ \ {task[t].to}]
<1>1. /\ task[t].pc = "inflight" /\ Turn(t) /\ Over(t, task[t], Done)
      /\ owed' = [owed EXCEPT ![task[t].id] = @ \ {task[t].to}]
  BY DEF SendRefused, At, Turn
<1>2. TaskWorld /\ UNCHANGED <<mem, row, failing, sent, spent>>
  BY DEF SendRefused, TaskWorld, world, db, proc, bound
<1>3. owed' \in [Id -> SUBSET Target]
  BY <1>1 DEF TypeInv, TypeOK
<1>4. Formed
  BY <1>2, <1>3 DEF TypeInv, TypeOK, Formed, PendPlan
<1> QED
  BY <1>1, <1>2, <1>4, TurnEnds
\* A part reaches the target in turn; who has them all is not owed the tweet any more.
Delivers(t) ==
  LET i == task[t].id
      x == task[t].to
  IN
  /\ sent' \in [Id -> [Target -> [1 .. Body -> Nat]]]
  /\ \A j \in Id, y \in Target, q \in 1 .. Body : sent[j][y][q] <= sent'[j][y][q]
  /\ \A j \in Id, y \in Target : j # i \/ y # x => sent'[j][y] = sent[j][y]
  /\ \A q \in 1 .. Body : q + Prefix(x, task[t].all) = task[t].n + 1 => sent'[i][x][q] > 0
  /\ IF \A q \in 1 .. Body : sent'[i][x][q] > 0
       THEN owed' = [owed EXCEPT ![i] = @ \ {x}] ELSE owed' = owed

\* The copies of one part grow by one, or those of none.
LEMMA ReceiveIs ==
  ASSUME TypeInv, NEW t \in Task, Turn(t), task[t].n < Parts(task[t].to, task[t].all), Receive(t)
  PROVE  Delivers(t) /\ owed' \in [Id -> SUBSET Target]
<1>1. PICK i, x, all, n : i = task[t].id /\ x = task[t].to /\ all = task[t].all /\ n = task[t].n
  OBVIOUS
<1>2. /\ i \in Id /\ x \in Target /\ n \in Int /\ 0 <= n /\ n < Parts(x, all)
      /\ sent \in [Id -> [Target -> [1 .. Body -> Nat]]] /\ owed \in [Id -> SUBSET Target]
  BY <1>1, TurnIs, PartsType, SMTT(20) DEF TypeInv, TypeOK, Done
<1>3. PICK p : p = n + 1 - Prefix(x, all)
  OBVIOUS
<1>4. p \in 0 .. Body
  <2>1. /\ Prefix(x, all) \in {0, 1} /\ Parts(x, all) = Body + Prefix(x, all)
        /\ Parts(x, all) \in Nat /\ Body \in Nat
    BY PartsType
  <2>2. CASE Prefix(x, all) = 0
    BY <1>2, <1>3, <2>1, <2>2
  <2>3. CASE Prefix(x, all) = 1
    BY <1>2, <1>3, <2>1, <2>3
  <2> QED
    BY <2>1, <2>2, <2>3
<1>5. /\ sent' = IF p = 0 THEN sent ELSE [sent EXCEPT ![i][x][p] = @ + 1]
      /\ owed' = IF \A q \in 1 .. Body : sent'[i][x][q] > 0
                   THEN [owed EXCEPT ![i] = @ \ {x}] ELSE owed
  BY <1>1, <1>3 DEF Receive
<1>6. /\ sent' \in [Id -> [Target -> [1 .. Body -> Nat]]]
      /\ \A j \in Id, y \in Target, q \in 1 .. Body : sent[j][y][q] <= sent'[j][y][q]
      /\ \A j \in Id, y \in Target : j # i \/ y # x => sent'[j][y] = sent[j][y]
      /\ p # 0 => sent'[i][x][p] > 0
  <2>0. \A j \in Id, y \in Target, q \in 1 .. Body : sent[j][y][q] \in Nat
    BY <1>2, ZenonT(30)
  <2>1. CASE p = 0
    <3>1. sent' = sent
      BY <1>5, <2>1
    <3>2. \A j \in Id, y \in Target, q \in 1 .. Body : sent[j][y][q] <= sent'[j][y][q]
      BY <2>0, <3>1
    <3> QED
      BY <1>2, <2>1, <3>1, <3>2
  <2>2. CASE p # 0
    <3>1. p \in 1 .. Body /\ sent' = [sent EXCEPT ![i][x][p] = @ + 1]
      BY <1>4, <1>5, <2>2, PartsType
    <3>2. PICK k : k = sent[i][x][p] + 1
      OBVIOUS
    <3>3. PICK b : b = [sent[i][x] EXCEPT ![p] = k]
      OBVIOUS
    <3>4. k \in Nat /\ k > 0 /\ sent[i][x][p] <= k
      BY <1>2, <2>0, <3>1, <3>2
    <3>5. /\ sent[i][x] \in [1 .. Body -> Nat]
          /\ b \in [1 .. Body -> Nat] /\ b[p] = k
          /\ \A q \in 1 .. Body : q # p => b[q] = sent[i][x][q]
      BY <1>2, <3>1, <3>3, <3>4
    <3>6. PICK f : f = [sent[i] EXCEPT ![x] = b]
      OBVIOUS
    <3>7. /\ f \in [Target -> [1 .. Body -> Nat]] /\ f[x] = b
          /\ \A y \in Target : y # x => f[y] = sent[i][y]
      BY <1>2, <3>5, <3>6
    <3>8. sent' = [sent EXCEPT ![i] = f]
      BY <3>1, <3>2, <3>3, <3>6
    <3>9. /\ sent' \in [Id -> [Target -> [1 .. Body -> Nat]]]
          /\ sent'[i] = f /\ \A j \in Id : j # i => sent'[j] = sent[j]
      BY <1>2, <3>7, <3>8
    <3>10. \A j \in Id, y \in Target : j # i \/ y # x => sent'[j][y] = sent[j][y]
      BY <3>7, <3>9
    <3>11. ASSUME NEW j \in Id, NEW y \in Target, NEW q \in 1 .. Body
           PROVE  sent[j][y][q] <= sent'[j][y][q]
      <4>1. CASE j # i \/ y # x
        BY <2>0, <3>10, <4>1
      <4>2. CASE j = i /\ y = x
        BY <2>0, <3>4, <3>5, <3>7, <3>9, <4>2
      <4> QED
        BY <4>1, <4>2
    <3> QED
      BY <3>4, <3>5, <3>7, <3>9, <3>10, <3>11
  <2> QED
    BY <2>1, <2>2
<1>7. \A q \in 1 .. Body : q + Prefix(x, all) = n + 1 => q = p /\ p # 0
  BY <1>2, <1>3, PartsType
<1>8. owed' \in [Id -> SUBSET Target]
  <2>1. [owed EXCEPT ![i] = @ \ {x}] \in [Id -> SUBSET Target]
    BY <1>2
  <2> QED
    BY <1>2, <1>5, <2>1
<1> QED
  BY <1>1, <1>5, <1>6, <1>7, <1>8 DEF Delivers

\* A delivery whose receipt is lost.
LEMMA SendLostType ==
  ASSUME TypeInv, NEW t \in Task, SendLost(t)
  PROVE  /\ TypeInv' /\ TaskWorld /\ UNCHANGED <<mem, row>> /\ task[t].pc = "inflight"
         /\ Overs(t, task[t].n) /\ Delivers(t)
<1>1. /\ task[t].pc = "inflight" /\ Turn(t) /\ Over(t, task[t], task[t].n) /\ Receive(t)
      /\ task[t].n < Parts(task[t].to, task[t].all)
  BY DEF SendLost, At, Turn, TypeInv, TaskPlan
<1>2. TaskWorld /\ UNCHANGED <<mem, row, failing>>
  BY DEF SendLost, TaskWorld, world, db, proc
<1>3. \A f \in DOMAIN spent' : spent'[f] \in Nat
  BY DEF SendLost, Used, TypeInv, TypeOK
<1>4. Delivers(t) /\ owed' \in [Id -> SUBSET Target]
  BY <1>1, ReceiveIs
<1>5. Formed
  BY <1>2, <1>3, <1>4 DEF TypeInv, TypeOK, Formed, PendPlan, Delivers
<1>6. PICK n : n = task[t].n
  OBVIOUS
<1>7. Overs(t, n) /\ TypeInv'
  BY <1>1, <1>2, <1>5, <1>6, TurnEnds
<1> QED
  BY <1>1, <1>2, <1>4, <1>6, <1>7

\* What follows the part, and the pending tweet with it.
Onward(t) == IF task[t].n + 1 = Parts(task[t].to, task[t].all) THEN Done ELSE task[t].n + 1
Noted(t)  == [mem.pend EXCEPT !.fp = task[t].all,
                !.at = [x \in DOMAIN mem.pend.at |->
                          IF x = task[t].to THEN Onward(t) ELSE mem.pend.at[x]]]

\* The locals after a part.
Counts(t) ==
  /\ Moves(t) /\ task'[t] \in TaskRec /\ KeepsTweet(t)
  /\ task'[t].pc = "part" \/ (task'[t].pc = "persist" /\ task'[t].then = "part")
  /\ task'[t].queue = task[t].queue /\ task'[t].to = task[t].to /\ task'[t].n = task[t].n + 1
  /\ task'[t].out = task[t].out

\* What is noted fits the plan: nothing but this attempt's plan is pending.
LEMMA NotedIs ==
  ASSUME TypeInv, NEW t \in Task, task[t].pc = "inflight", Live(t), Kept(task[t].id)
  PROVE  /\ Noted(t) \in Pending /\ PlanOK(Noted(t)) /\ Noted(t).id = task[t].id
         /\ Noted(t).fp = task[t].all /\ DOMAIN Noted(t).at = DOMAIN mem.pend.at
         /\ \A x \in DOMAIN mem.pend.at :
              Noted(t).at[x] = IF x = task[t].to THEN Onward(t) ELSE mem.pend.at[x]
<1>1. PICK all, to, n : all = task[t].all /\ to = task[t].to /\ n = Onward(t)
  OBVIOUS
<1>2. /\ Turn(t) /\ Begun(t) /\ Current(t) /\ all \in BOOLEAN
      /\ 0 <= task[t].n /\ task[t].n < Parts(to, all)
      /\ mem.pend.fp \in {None, all}
  BY <1>1, TurnIs DEF Turn, Current, Live, Valid, TypeInv, TaskPlan
<1>3. n \in Done .. Body + 1 /\ n <= Parts(to, all)
  BY <1>1, <1>2, TurnIs, PartsType DEF Onward, Done
<1>4. /\ mem.pend \in Pending /\ mem.pend.at \in Progress /\ mem.pend.id = task[t].id
      /\ \A x \in DOMAIN mem.pend.at : mem.pend.at[x] <= Parts(x, all)
  <2>1. mem \in State /\ mem.pend # None /\ mem.pend.id = task[t].id /\ PlanOK(mem.pend)
    BY DEF TypeInv, TypeOK, Kept, PendPlan
  <2>2. mem.pend \in Pending
    BY <2>1 DEF State
  <2>3. mem.pend.at \in Progress
    BY <2>2 DEF Pending
  <2>4. \A x \in DOMAIN mem.pend.at : mem.pend.at[x] \in Int
    <3>1. PICK at : at = mem.pend.at
      OBVIOUS
    <3>2. at \in Progress
      BY <2>3, <3>1
    <3>3. \A x \in DOMAIN at : at[x] \in Done .. Body + 1
      BY <3>2, ProgressIs
    <3> QED
      BY <3>1, <3>3, PartsType DEF Done
  <2> QED
    BY <1>2, <2>1, <2>2, <2>3, <2>4, PartsType, NoneIs DEF PlanOK
<1>5. PICK old : old = mem.pend.at
  OBVIOUS
<1>6. PICK at : at = [x \in DOMAIN old |-> IF x = to THEN n ELSE old[x]]
  OBVIOUS
<1>7. at \in Progress /\ \A x \in DOMAIN at : at[x] <= Parts(x, all)
  <2>1. old \in Progress /\ \A x \in DOMAIN old : old[x] <= Parts(x, all)
    BY <1>4, <1>5
  <2>2. DOMAIN old \subseteq Target /\ \A x \in DOMAIN old : old[x] \in Done .. Body + 1
    BY <2>1, ProgressIs
  <2>3. DOMAIN at = DOMAIN old /\ at = [x \in DOMAIN at |-> at[x]]
        /\ \A x \in DOMAIN at : at[x] = IF x = to THEN n ELSE old[x]
    BY <1>6
  <2>4. \A x \in DOMAIN at : at[x] \in Done .. Body + 1 /\ at[x] <= Parts(x, all)
    BY <1>3, <2>1, <2>2, <2>3
  <2> QED
    BY <2>2, <2>3, <2>4, ProgressIs
<1>8. PICK p : p = [mem.pend EXCEPT !.fp = all, !.at = at]
  OBVIOUS
<1>9. p \in Pending /\ p.id = task[t].id /\ p.fp = all /\ p.at = at
  BY <1>2, <1>4, <1>7, <1>8 DEF Pending
<1>10. p = Noted(t)
  BY <1>1, <1>5, <1>6, <1>8 DEF Noted
<1>11. PlanOK(p)
  BY <1>2, <1>7, <1>9, NoneIs DEF PlanOK
<1>12. /\ DOMAIN p.at = DOMAIN mem.pend.at
       /\ \A x \in DOMAIN mem.pend.at : p.at[x] = IF x = to THEN n ELSE mem.pend.at[x]
  BY <1>5, <1>6, <1>9
<1> QED
  BY <1>1, <1>9, <1>10, <1>11, <1>12
\* A part that was sent is noted in the pending tweet, if that is still this one.
LEMMA SendOkType ==
  ASSUME TypeInv, NEW t \in Task, SendOk(t)
  PROVE  /\ TypeInv' /\ TaskWorld /\ UNCHANGED row /\ task[t].pc = "inflight" /\ Delivers(t)
         /\ Counts(t)
         /\ \/ Live(t) /\ Kept(task[t].id) /\ Pends(Noted(t))
            \/ ~(Live(t) /\ Kept(task[t].id)) /\ UNCHANGED mem
<1>1. /\ task[t].pc = "inflight" /\ Turn(t) /\ Receive(t) /\ TaskPlan(t)
      /\ task[t].n < Parts(task[t].to, task[t].all)
  BY DEF SendOk, At, Turn, TypeInv, TaskPlan
<1>2. TaskWorld /\ UNCHANGED <<row, failing, spent>>
  BY DEF SendOk, TaskWorld, world, db, proc, bound
<1>3. Delivers(t) /\ owed' \in [Id -> SUBSET Target]
  BY <1>1, ReceiveIs
<1>4. PICK n : n = task[t].n + 1
  OBVIOUS
<1>5. n \in Done .. Body + 1 /\ 0 <= n /\ n <= Parts(task[t].to, task[t].all)
  <2>1. PICK m : m = Parts(task[t].to, task[t].all)
    OBVIOUS
  <2>2. m \in Nat /\ m <= Body + 1 /\ Body \in Nat
    BY <2>1, PartsType
  <2> QED
    BY <1>1, <1>4, <2>1, <2>2, TurnIs DEF Done
<1>6. PICK r : r = [task[t] EXCEPT !.n = n]
  OBVIOUS
<1>7. /\ Stays(t, r) /\ r.ids = task[t].ids /\ r.id = task[t].id /\ r.got = task[t].got
      /\ r.all = task[t].all /\ r.done = task[t].done /\ r.queue = task[t].queue
      /\ r.to = task[t].to /\ r.out = task[t].out /\ r.n = n
  BY <1>1, <1>5, <1>6, TurnIs DEF Stays, TaskRec
<1>8. r = [task[t] EXCEPT !.n = @ + 1]
  BY <1>4, <1>6
<1>9. Persist(t, r, "part") \/ Goto(t, r, "part")
  BY <1>8 DEF SendOk
<1>10. /\ Moves(t) /\ task'[t] \in TaskRec /\ Like(task'[t], r)
       /\ task'[t].pc = "part" \/ (task'[t].pc = "persist" /\ task'[t].then = "part")
  <2>1. CASE Persist(t, r, "part")
    <3>1. /\ Moves(t) /\ task'[t] \in TaskRec /\ Like(task'[t], r) /\ task'[t].then = "part"
          /\ task'[t].pc \in {"persist", "part"}
      BY <1>7, <2>1, PersistIs
    <3> QED
      BY <3>1
  <2>2. CASE Goto(t, r, "part")
    <3>1. "part" \in Places
      BY DEF Places
    <3>2. Moves(t) /\ task'[t] \in TaskRec /\ Like(task'[t], r) /\ task'[t].pc = "part"
      BY <1>7, <2>2, <3>1, GotoIs
    <3> QED
      BY <3>2
  <2> QED
    BY <1>9, <2>1, <2>2
<1>11. Counts(t)
  BY <1>4, <1>7, <1>10 DEF Counts, KeepsTweet, Like
<1>12. /\ QueuePlan(t)' /\ OutPlan(t)' /\ task'[t].to # None /\ 0 <= task'[t].n
       /\ task'[t].n <= Parts(task'[t].to, task'[t].all) /\ task'[t].id \in Id
       /\ task'[t].pc \notin {"inflight", "commit"}
       /\ (Current(t)' => Current(t)) /\ Begun(t)
  <2>1. /\ QueuePlan(t) /\ OutPlan(t) /\ task[t].to # None /\ task[t].id \in Id /\ Begun(t)
    BY <1>1, TurnIs, NoneIs DEF TaskPlan
  <2>2. Current(t)' => Current(t)
    BY <1>1, <1>2, <1>10 DEF Current, Moves, TaskWorld
  <2> QED
    BY <1>4, <1>5, <1>10, <1>11, <2>1, <2>2 DEF Counts, KeepsTweet, QueuePlan, OutPlan
<1>13. CASE Live(t) /\ Kept(task[t].id)
  <2>1. PICK p : p = Noted(t)
    OBVIOUS
  <2>2. p \in Pending /\ PlanOK(p) /\ p.fp = task[t].all
    BY <1>1, <1>13, <2>1, NotedIs
  <2>3. mem' = [mem EXCEPT !.pend = p]
    <3>1. /\ r.n = n /\ r.to = task[t].to /\ r.all = task[t].all
      BY <1>7
    <3>2. mem' = [mem EXCEPT !.pend.fp = task[t].all,
                !.pend.at = [x \in DOMAIN @ |->
                    IF x = task[t].to
                      THEN IF task[t].n + 1 = Parts(task[t].to, task[t].all) THEN Done
                           ELSE task[t].n + 1
                      ELSE @[x]]]
      BY <1>4, <1>7, <1>8, <1>13 DEF SendOk
    <3>3. PICK all, at : /\ all = task[t].all
                         /\ at = [x \in DOMAIN mem.pend.at |->
                              IF x = task[t].to THEN Onward(t) ELSE mem.pend.at[x]]
      OBVIOUS
    <3>4. mem' = [mem EXCEPT !.pend.fp = all, !.pend.at = at]
      BY <3>2, <3>3 DEF Onward
    <3>5. p = [mem.pend EXCEPT !.fp = all, !.at = at]
      BY <2>1, <3>3 DEF Noted
    <3>6. mem \in State
      BY DEF TypeInv, TypeOK
    <3> QED
      BY <3>4, <3>5, <3>6 DEF State
  <2>4. Pends(p)
    BY <2>2, <2>3 DEF Pends
  <2>5. mem' \in State /\ mem'.pend = p
    <3>1. mem \in State
      BY DEF TypeInv, TypeOK
    <3> QED
      BY <2>2, <2>3, <3>1, StateIs
  <2>6. Formed
    BY <1>2, <1>3, <2>2, <2>5 DEF TypeInv, TypeOK, Formed, PendPlan, Delivers
  <2>7. Fits(t)
    BY <1>1, <1>13 DEF Fits, Current, Live, Valid
  <2>8. TaskPlan(t)'
    BY <1>11, <1>12, <2>2, <2>5 DEF TaskPlan, Counts, KeepsTweet
  <2> QED
    BY <1>1, <1>2, <1>3, <1>10, <1>11, <1>13, <2>1, <2>4, <2>6, <2>7, <2>8, TurnIs, MoveInv
<1>14. CASE ~(Live(t) /\ Kept(task[t].id))
  <2>1. UNCHANGED mem
    BY <1>7, <1>8, <1>14 DEF SendOk
  <2>2. Formed /\ Fits(t)
    BY <1>2, <1>3, <2>1 DEF TypeInv, TypeOK, Formed, PendPlan, Delivers, Fits
  <2>3. TaskPlan(t)'
    BY <1>1, <1>11, <1>12, <2>1 DEF TaskPlan, Counts, KeepsTweet, Kept
  <2> QED
    BY <1>1, <1>2, <1>3, <1>10, <1>11, <1>14, <2>1, <2>2, <2>3, TurnIs, MoveInv
<1> QED
  BY <1>13, <1>14

\* What stays pending when some targets have to be tried again.
Settled(t) ==
  [id |-> task[t].id, fp |-> task[t].all, at |->
     [x \in task[t].done \cup DOMAIN task[t].out \cup Missing(t) |->
        IF x \in Missing(t) THEN 0
        ELSE IF x \in Failed(t) \ task[t].done THEN task[t].out[x] ELSE Done]]

\* Progress of those that failed, zero for those that came, Done for the others.
LEMMA SettledIs ==
  ASSUME TypeInv, NEW t \in Task, task[t].pc = "send"
  PROVE  /\ Settled(t) \in Pending /\ PlanOK(Settled(t)) /\ Settled(t).id = task[t].id
         /\ Settled(t).fp = task[t].all
         /\ \A x \in DOMAIN Settled(t).at :
              \/ Settled(t).at[x] = 0
              \/ x \in DOMAIN task[t].out /\ Settled(t).at[x] = task[t].out[x]
              \/ Settled(t).at[x] = Done /\ x \in task[t].done
              \/ /\ Settled(t).at[x] = Done /\ x \in DOMAIN task[t].out
                 /\ task[t].out[x] = Done \/ ~Active(t, x)
<1>1. PICK i, all, done, out, D : /\ i = task[t].id /\ all = task[t].all /\ out = task[t].out
                                  /\ done = task[t].done
                                  /\ D = task[t].done \cup DOMAIN task[t].out \cup Missing(t)
  OBVIOUS
<1>2. /\ i \in Id /\ all \in BOOLEAN /\ done \in SUBSET Target /\ out \in Progress
      /\ \A x \in DOMAIN out : out[x] <= Parts(x, all)
  BY <1>1 DEF TypeInv, TypeOK, TaskRec, TaskPlan, OutPlan, Attempt, Begun, Sending
<1>3. PICK p, at : /\ p = Settled(t) /\ p = [id |-> i, fp |-> all, at |-> at]
                   /\ at = [x \in D |->
                        IF x \in Missing(t) THEN 0
                        ELSE IF x \in Failed(t) \ done THEN out[x] ELSE Done]
  BY <1>1 DEF Settled
<1>4. Missing(t) \subseteq Target /\ D \subseteq Target
  <2>1. conf.to \in SUBSET Target
    BY ConfigIs DEF TypeInv, TypeOK
  <2>2. DOMAIN out \subseteq Target
    BY <1>2, ProgressIs
  <2> QED
    BY <1>1, <1>2, <2>1, <2>2 DEF Missing
<1>5. ASSUME NEW x \in D
      PROVE  /\ at[x] \in Done .. Body + 1 /\ at[x] <= Parts(x, all)
             /\ \/ at[x] = 0
                \/ x \in DOMAIN out /\ at[x] = out[x]
                \/ at[x] = Done /\ x \in done
                \/ at[x] = Done /\ x \in DOMAIN out /\ (out[x] = Done \/ ~Active(t, x))
  <2>1. CASE x \in Missing(t)
    BY <1>3, <1>5, <2>1, PartsType DEF Done
  <2>2. CASE x \notin Missing(t) /\ x \in Failed(t) \ done
    <3>1. x \in DOMAIN out /\ at[x] = out[x]
      BY <1>1, <1>3, <1>5, <2>2 DEF Failed
    <3> QED
      BY <1>2, <3>1, ProgressIs
  <2>3. CASE x \notin Missing(t) /\ x \notin Failed(t) \ done
    <3>1. at[x] = Done
      BY <1>3, <1>5, <2>3
    <3>2. \/ x \in done
          \/ x \in DOMAIN out /\ (out[x] = Done \/ ~Active(t, x))
      BY <1>1, <1>5, <2>3 DEF Failed
    <3> QED
      BY <3>1, <3>2, PartsType DEF Done
  <2> QED
    BY <2>1, <2>2, <2>3
<1>6. DOMAIN at = D /\ at = [x \in DOMAIN at |-> at[x]]
  BY <1>3
<1>7. at \in Progress
  <2>1. \A x \in DOMAIN at : at[x] \in Done .. Body + 1
    BY <1>5, <1>6
  <2> QED
    BY <1>4, <1>6, <2>1, ProgressIs
<1>8. p \in Pending
  BY <1>2, <1>3, <1>7, PendingIs
<1>9. p.id = i /\ p.fp = all /\ p.at = at
  BY <1>3
<1>10. PlanOK(p)
  BY <1>2, <1>5, <1>6, <1>9, NoneIs DEF PlanOK
<1>11. \A x \in DOMAIN p.at :
         \/ p.at[x] = 0
         \/ x \in DOMAIN out /\ p.at[x] = out[x]
         \/ p.at[x] = Done /\ x \in done
         \/ p.at[x] = Done /\ x \in DOMAIN out /\ (out[x] = Done \/ ~Active(t, x))
  BY <1>5, <1>6, <1>9
<1> QED
  BY <1>1, <1>3, <1>8, <1>9, <1>10, <1>11

\* After the last target.
LEMMA SettleType ==
  ASSUME TypeInv, NEW t \in Task, Settle(t)
  PROVE  /\ TypeInv' /\ TaskWorld /\ UNCHANGED <<row, sent>> /\ task[t].pc = "send"
         /\ \/ ~Live(t) /\ Halts(t) /\ UNCHANGED <<mem, owed>>
            \/ /\ Live(t) /\ PassesOn(t) /\ Failed(t) \cup Missing(t) = {} /\ UNCHANGED owed
            \/ Live(t) /\ PassesOn(t) /\ owed' = [owed EXCEPT ![task[t].id] = {}]
            \/ Live(t) /\ Halts(t) /\ Pends(Settled(t)) /\ UNCHANGED owed
<1>1. /\ task[t].pc = "send" /\ task[t].ahead = {} /\ task[t].id \in Id
  BY HasLock DEF Settle, At, TypeInv, TaskPlan, Attempt, Begun, Sending
<1>2. TaskWorld /\ UNCHANGED <<row, sent, spent>>
  BY DEF Settle, TaskWorld, world, db, proc, bound
<1>3. PICK i : i = task[t].id
  OBVIOUS
<1>4. CASE ~Live(t)
  <2>1. Halts(t) /\ UNCHANGED <<mem, failing, owed>>
    BY <1>4, HaltsGoto DEF Settle
  <2>2. Formed /\ Fits(t)
    BY <1>2, <2>1, FormedSame DEF Fits
  <2> QED
    BY <1>1, <1>2, <1>4, <2>1, <2>2, PassPlan, MoveInv DEF Halts
<1>5. CASE Live(t) /\ Failed(t) \cup Missing(t) = {}
  <2>1. /\ mem' = Passed(task[t].id) /\ failing' = None /\ UNCHANGED owed
        /\ Persist(t, [task[t] EXCEPT !.got = @ \cup {task[t].id}], "next")
    BY <1>5 DEF Settle
  <2>2. PassesOn(t) /\ mem' \in State /\ mem'.pend = None
    BY <1>1, <2>1, PassIs
  <2>3. Formed /\ Fits(t)
    BY <1>2, <2>1, <2>2 DEF TypeInv, TypeOK, Formed, PendPlan, Fits
  <2> QED
    BY <1>1, <1>2, <1>5, <2>1, <2>2, <2>3, PassPlan, MoveInv DEF PassesOn
<1>6. CASE Live(t) /\ Failed(t) \cup Missing(t) # {} /\ Since(i).old
  <2>1. GiveUp(t)
    BY <1>3, <1>6 DEF Settle
  <2> QED
    BY <1>1, <1>2, <1>6, <2>1, GiveUpIs, MoveInv DEF PassesOn
<1>7. CASE Live(t) /\ Failed(t) \cup Missing(t) # {} /\ ~Since(i).old
  <2>1. PICK p : p = Settled(t)
    OBVIOUS
  <2>2. /\ failing' = Since(i) /\ mem' = [mem EXCEPT !.pend = p]
        /\ Persist(t, task[t], "stop") /\ UNCHANGED owed
    BY <1>3, <1>7, <2>1 DEF Settle, Settled
  <2>3. p \in Pending /\ PlanOK(p)
    BY <1>1, <2>1, SettledIs
  <2>4. Pends(p) /\ Halts(t)
    BY <2>2, <2>3, HaltsPersist DEF Pends
  <2>5. failing' \in [id: Id, old: BOOLEAN] \cup {None}
    BY <1>1, <1>3, <2>2, SinceIs
  <2>6. Formed
    BY <1>2, <2>2, <2>3, <2>4, <2>5, PendsFormed
  <2>7. Fits(t)
    BY <1>1, <1>7 DEF Fits, Current, Live, Valid
  <2> QED
    BY <1>1, <1>2, <1>7, <2>1, <2>2, <2>4, <2>6, <2>7, PassPlan, MoveInv DEF Halts
<1> QED
  BY <1>4, <1>5, <1>6, <1>7
-----------------------------------------------------------------------------
(* Checks *)

\* A check goes on; the tasks are left alone.
LEMMA CheckInv ==
  ASSUME TypeInv, NEW c \in Check, NEW r \in CheckRec, chk' = [chk EXCEPT ![c] = r],
         UNCHANGED <<feed, published, cfg, up, conf, gen, epoch, task, reload, enabled, limit>>,
         Formed, mem'.pend = mem.pend, CheckPlan(c)'
  PROVE  TypeInv'
<1>1. chk \in [Check -> CheckRec] /\ \A d \in Check : d # c => chk'[d] = chk[d]
  BY DEF TypeInv, TypeOK
<1>2. TypeOK'
  <2>1. chk' \in [Check -> CheckRec]
    BY <1>1
  <2> QED
    BY <2>1 DEF TypeInv, TypeOK, Formed
<1>3. \A d \in Check : CheckPlan(d)'
  <2> TAKE d \in Check
  <2>1. CASE d = c
    BY <2>1
  <2>2. CASE d # c
    BY <1>1, <2>2 DEF TypeInv, CheckPlan, PendPlan
  <2> QED
    BY <2>1, <2>2
<1>4. \A t \in Task : TaskPlan(t)' /\ Life(t)'
  BY DEF TypeInv, TaskPlan, Attempt, Begun, Sending, Turn, Storing, QueuePlan, OutPlan, PendPlan,
         Kept, Current, Life
<1>5. \A t, u \in Task : Before(t, u)'
  BY DEF TypeInv, Before
<1> QED
  BY <1>2, <1>3, <1>4, <1>5 DEF TypeInv, Formed

\* A slot for a check.
LEMMA IdleCheckIs == IdleCheck \in CheckRec /\ IdleCheck.pc = "idle"
<1>1. 0 \in 0 .. MaxId /\ 0 \in Nat
  BY PartsType
<1> QED
  BY <1>1, BlankIs DEF IdleCheck, CheckRec

\* A check is over.
LEMMA CheckOver ==
  ASSUME TypeInv, NEW c \in Check, chk' = [chk EXCEPT ![c] = IdleCheck],
         UNCHANGED <<feed, published, cfg, up, conf, gen, epoch, task, reload, enabled, limit>>,
         Formed, mem'.pend = mem.pend
  PROVE  TypeInv' /\ chk'[c] = IdleCheck /\ \A d \in Check : d # c => chk'[d] = chk[d]
<1>1. chk'[c] = IdleCheck /\ \A d \in Check : d # c => chk'[d] = chk[d]
  BY DEF TypeInv, TypeOK
<1>2. CheckPlan(c)'
  BY <1>1, IdleCheckIs DEF CheckPlan
<1>3. PICK r : r = IdleCheck
  OBVIOUS
<1>4. r \in CheckRec /\ chk' = [chk EXCEPT ![c] = r]
  BY <1>3, IdleCheckIs
<1>5. TypeInv'
  BY <1>2, <1>4, CheckInv
<1> QED
  BY <1>1, <1>5

\* A check begins.
LEMMA CheckStartType ==
  ASSUME TypeInv, NEW c \in Check, CheckStart(c)
  PROVE  /\ TypeInv' /\ \A d \in Check : d # c => chk'[d] = chk[d]
         /\ chk'[c].pc = "fetch" /\ chk'[c].gen = gen /\ chk'[c].last = mem.last
         /\ chk'[c].ids = feed
<1>1. PICK r : r = [IdleCheck EXCEPT !.pc = "fetch", !.gen = gen, !.last = mem.last, !.ids = feed]
  OBVIOUS
<1>2. /\ mem.last \in 0 .. MaxId /\ feed \in SUBSET Id /\ gen \in Nat
  BY DEF TypeInv, TypeOK, State
<1>3. /\ r \in CheckRec /\ r.pc = "fetch" /\ r.gen = gen /\ r.last = mem.last /\ r.ids = feed
  BY <1>1, <1>2, IdleCheckIs DEF CheckRec
<1>4. chk' = [chk EXCEPT ![c] = r]
  BY <1>1 DEF CheckStart
<1>5. chk'[c] = r /\ \A d \in Check : d # c => chk'[d] = chk[d]
  BY <1>4 DEF TypeInv, TypeOK
<1>6. UNCHANGED <<feed, published, cfg, row, up, conf, gen, epoch, mem, failing, task, reload,
                  sent, owed, enabled, limit, spent>>
  BY DEF CheckStart, world, db, proc, hist, bound
<1>7. CheckPlan(c)'
  BY <1>2, <1>3, <1>5, <1>6 DEF CheckPlan, CheckStart
<1>8. Formed
  BY <1>6, FormedSame
<1> QED
  BY <1>3, <1>4, <1>5, <1>6, <1>7, <1>8, CheckInv

\* A check ends without a result.
LEMMA CheckEndType ==
  ASSUME TypeInv, NEW c \in Check, CheckEnd(c)
  PROVE  TypeInv' /\ chk'[c] = IdleCheck /\ \A d \in Check : d # c => chk'[d] = chk[d]
BY FormedSame, CheckOver DEF CheckEnd, world, db, proc, hist, bound

\* The baseline.
LEMMA CheckBaselineType ==
  ASSUME TypeInv, NEW c \in Check, CheckBaseline(c)
  PROVE  /\ TypeInv' /\ \A d \in Check : d # c => chk'[d] = chk[d]
         /\ chk'[c].pc = "persist" /\ chk'[c].gen = chk[c].gen
         /\ mem' \in State /\ mem'.init /\ mem'.pend = mem.pend
         /\ \E a \in Answers(c) \ {{}} : a \in SUBSET Id /\ mem'.last = Max(a)
<1>1. PICK a \in Answers(c) \ {{}} : mem' = [mem EXCEPT !.last = Max(a), !.init = TRUE]
  BY DEF CheckBaseline
<1>2. /\ mem \in State /\ chk[c] \in CheckRec /\ a \in SUBSET Id /\ a # {}
  BY DEF TypeInv, TypeOK, Answers, CheckRec
<1>3. Max(a) \in 0 .. MaxId
  <2>1. PICK m : m = Max(a)
    OBVIOUS
  <2>2. Max(a) \in a
    BY <1>2, MaxTweet
  <2>3. m \in Id
    BY <1>2, <2>1, <2>2
  <2>4. m \in 0 .. MaxId
    BY <2>3, PartsType DEF Id
  <2> QED
    BY <2>1, <2>4
<1>4. /\ mem' \in State /\ mem'.init /\ mem'.pend = mem.pend /\ mem'.last = Max(a)
  BY <1>1, <1>2, <1>3 DEF State
<1>5. PICK r : r = [IdleCheck EXCEPT !.pc = "persist", !.gen = chk[c].gen]
  OBVIOUS
<1>6. r \in CheckRec /\ r.pc = "persist" /\ r.gen = chk[c].gen
  BY <1>2, <1>5, IdleCheckIs DEF CheckRec
<1>7. chk' = [chk EXCEPT ![c] = r]
  BY <1>5 DEF CheckBaseline
<1>8. chk'[c] = r /\ \A d \in Check : d # c => chk'[d] = chk[d]
  BY <1>7 DEF TypeInv, TypeOK
<1>9. UNCHANGED <<feed, published, cfg, row, up, conf, gen, epoch, failing, task, reload,
                  sent, owed, enabled, limit, spent>>
  BY DEF CheckBaseline, world, db, proc, hist, bound
<1>10. CheckPlan(c)'
  BY <1>6, <1>8, <1>9 DEF CheckPlan, CheckBaseline, TypeInv
<1>11. Formed
  BY <1>4, <1>9 DEF TypeInv, TypeOK, Formed, PendPlan
<1> QED
  BY <1>1, <1>2, <1>4, <1>6, <1>7, <1>8, <1>9, <1>10, <1>11, CheckInv

\* The check copies memory, to store it.
LEMMA CheckReadType ==
  ASSUME TypeInv, NEW c \in Check, CheckRead(c)
  PROVE  /\ TypeInv' /\ \A d \in Check : d # c => chk'[d] = chk[d]
         /\ chk'[c].pc = "commit" /\ chk'[c].gen = chk[c].gen /\ chk'[c].cap = mem
<1>1. PICK r : r = [chk[c] EXCEPT !.pc = "commit", !.base = row, !.cap = mem]
  OBVIOUS
<1>2. /\ chk[c] \in CheckRec /\ mem \in State /\ row \in State \cup {None}
  BY DEF TypeInv, TypeOK
<1>3. r \in CheckRec /\ r.pc = "commit" /\ r.gen = chk[c].gen /\ r.cap = mem
  BY <1>1, <1>2 DEF CheckRec
<1>4. chk' = [chk EXCEPT ![c] = r]
  BY <1>1 DEF CheckRead, TypeInv, TypeOK
<1>5. chk'[c] = r /\ \A d \in Check : d # c => chk'[d] = chk[d]
  BY <1>4 DEF TypeInv, TypeOK
<1>6. UNCHANGED <<feed, published, cfg, row, up, conf, gen, epoch, mem, failing, task, reload,
                  sent, owed, enabled, limit, spent>>
  BY DEF CheckRead, world, db, proc, hist, bound
<1>7. CheckPlan(c)'
  BY <1>3, <1>5, <1>6 DEF CheckPlan, CheckRead, TypeInv, PendPlan
<1>8. Formed
  BY <1>6, FormedSame
<1> QED
  BY <1>3, <1>4, <1>5, <1>6, <1>7, <1>8, CheckInv

\* The baseline is committed.
LEMMA CheckCommitType ==
  ASSUME TypeInv, NEW c \in Check, CheckCommit(c)
  PROVE  TypeInv' /\ chk'[c] = IdleCheck /\ \A d \in Check : d # c => chk'[d] = chk[d]
<1>1. PICK old, new : old = chk[c].base /\ new = chk[c].cap
  OBVIOUS
<1>2. /\ old \in State \cup {None} /\ new \in State /\ PendPlan(new)
      /\ row \in State \cup {None} /\ (row # None => PendPlan(row))
  BY <1>1 DEF TypeInv, TypeOK, CheckRec, CheckPlan, CheckCommit
<1>3. Merged(old, new, row) \in State \cup {None}
  BY <1>2, MergedIs
<1>4. PendPlan(new) /\ (row # None => PendPlan(row)) =>
        (Merged(old, new, row) # None => PendPlan(Merged(old, new, row)))
  BY <1>2, MergedIs
<1>5. row' = row \/ row' = Merged(old, new, row)
  BY <1>1 DEF CheckCommit
<1>6. row' \in State \cup {None} /\ (row' # None => PendPlan(row'))
  BY <1>2, <1>3, <1>4, <1>5
<1>7. UNCHANGED <<feed, published, cfg, up, conf, gen, epoch, mem, failing, task, reload,
                  sent, owed, enabled, limit, spent>>
  BY DEF CheckCommit, world, proc, hist, bound
<1>8. Formed
  BY <1>6, <1>7 DEF TypeInv, TypeOK, Formed, PendPlan
<1>9. chk' = [chk EXCEPT ![c] = IdleCheck]
  BY DEF CheckCommit
<1> QED
  BY <1>7, <1>8, <1>9, CheckOver

\* The baseline is not stored.
LEMMA CheckDbErrorType ==
  ASSUME TypeInv, NEW c \in Check, CheckDbError(c)
  PROVE  TypeInv' /\ chk'[c] = IdleCheck /\ \A d \in Check : d # c => chk'[d] = chk[d]
<1>1. UNCHANGED <<feed, published, cfg, row, up, conf, gen, epoch, mem, failing, task, reload,
                  sent, owed, enabled, limit>>
  BY DEF CheckDbError, world, db, proc, hist
<1>2. \A f \in DOMAIN spent' : spent'[f] \in Nat
  BY DEF CheckDbError, Used, TypeInv, TypeOK
<1>3. Formed
  BY <1>1, <1>2 DEF TypeInv, TypeOK, Formed, PendPlan
<1> QED
  BY <1>1, <1>3, CheckOver DEF CheckDbError
\* A task takes over what is new.
LEMMA CheckObserveType ==
  ASSUME TypeInv, NEW c \in Check, CheckObserve(c)
  PROVE  /\ TypeInv' /\ chk'[c] = IdleCheck /\ \A d \in Check : d # c => chk'[d] = chk[d]
         /\ \E a \in Answers(c), t \in Task :
              /\ a \in SUBSET Id
              /\ task[t].pc = "idle" /\ \A u \in Task : u # t => task'[u] = task[u]
              /\ task'[t].pc = "next" /\ task'[t].ids = New(c, a) /\ task'[t].gen = gen
              /\ task'[t].got = {} /\ task'[t].id = 0
<1>1. PICK a \in Answers(c), t \in Task :
        /\ New(c, a) # {} /\ task[t].pc = "idle"
        /\ task' = [task EXCEPT ![t] = [IdleTask EXCEPT !.pc = "next", !.ids = New(c, a),
             !.gen = gen, !.epoch = epoch,
             !.ahead = {u \in Task : task[u].pc # "idle" /\ task[u].epoch = epoch}]]
  BY DEF CheckObserve
<1>2. PICK r : r = [IdleTask EXCEPT !.pc = "next", !.ids = New(c, a),
             !.gen = gen, !.epoch = epoch,
             !.ahead = {u \in Task : task[u].pc # "idle" /\ task[u].epoch = epoch}]
  OBVIOUS
<1>3. /\ chk[c] \in CheckRec /\ a \in SUBSET Id /\ New(c, a) \in SUBSET Id
      /\ gen \in Nat /\ epoch \in Nat /\ task \in [Task -> TaskRec] /\ up
  BY DEF TypeInv, TypeOK, Answers, CheckRec, New, CheckPlan, CheckObserve
<1>4. /\ r \in TaskRec /\ r.pc = "next" /\ r.ids = New(c, a) /\ r.gen = gen /\ r.epoch = epoch
      /\ r.ahead = {u \in Task : task[u].pc # "idle" /\ task[u].epoch = epoch}
      /\ r.got = {} /\ r.id = 0
  <2>1. NoBody \in Progress
    BY ProgressIs DEF NoBody
  <2>2. 0 \in Done .. Body + 1 /\ 0 \in 0 .. MaxId
    BY PartsType DEF Done
  <2>3. {u \in Task : task[u].pc # "idle" /\ task[u].epoch = epoch} \in SUBSET Task
    OBVIOUS
  <2> QED
    BY <1>2, <1>3, <2>1, <2>2, <2>3, BlankIs, ZenonT(30) DEF IdleTask, TaskRec
<1>5. /\ task' = [task EXCEPT ![t] = r] /\ task'[t] = r
      /\ \A u \in Task : u # t => task'[u] = task[u]
  BY <1>1, <1>2, <1>3
<1>6. UNCHANGED <<feed, published, cfg, row, up, conf, gen, epoch, mem, failing, reload,
                  sent, owed, enabled, limit, spent>> /\ chk' = [chk EXCEPT ![c] = IdleCheck]
  BY DEF CheckObserve, world, db, proc, hist, bound
<1>7. chk'[c] = IdleCheck /\ \A d \in Check : d # c => chk'[d] = chk[d]
  BY <1>6 DEF TypeInv, TypeOK
<1>8. TypeOK'
  <2>1. task' \in [Task -> TaskRec] /\ chk' \in [Check -> CheckRec]
    BY <1>3, <1>4, <1>5, <1>6, IdleCheckIs DEF TypeInv, TypeOK
  <2> QED
    BY <1>6, <2>1 DEF TypeInv, TypeOK
<1>9. \A d \in Check : CheckPlan(d)'
  BY <1>6, <1>7, IdleCheckIs DEF TypeInv, CheckPlan, PendPlan
<1>10. \A u \in Task : TaskPlan(u)' /\ Life(u)'
  <2> TAKE u \in Task
  <2>1. CASE u = t
    BY <1>3, <1>4, <1>5, <1>6, <2>1
       DEF TaskPlan, Attempt, Begun, Sending, Turn, Storing, Life
  <2>2. CASE u # t
    BY <1>5, <1>6, <2>2
       DEF TypeInv, TaskPlan, Attempt, Begun, Sending, Turn, Storing, QueuePlan, OutPlan,
           PendPlan, Kept, Current, Life
  <2> QED
    BY <2>1, <2>2
<1>11. \A u, v \in Task : Before(u, v)'
  <2> TAKE u \in Task, v \in Task
  <2>1. Before(u, v)
    BY DEF TypeInv
  <2> QED
    BY <1>1, <1>4, <1>5, <1>6, <2>1 DEF Before
<1>12. PendPlan(mem)' /\ (row' # None => PendPlan(row)')
  BY <1>6 DEF TypeInv, PendPlan
<1>13. TypeInv'
  BY <1>8, <1>9, <1>10, <1>11, <1>12 DEF TypeInv
<1>14. /\ task[t].pc = "idle" /\ \A u \in Task : u # t => task'[u] = task[u]
       /\ task'[t].pc = "next" /\ task'[t].ids = New(c, a) /\ task'[t].gen = gen
       /\ task'[t].got = {} /\ task'[t].id = 0
  BY <1>1, <1>4, <1>5
<1> QED
  BY <1>3, <1>7, <1>13, <1>14

-----------------------------------------------------------------------------
(* The world, the administrator, crash and restart *)

\* Coroutines go on; the blogger may begin another life.
LEMMA GoesOn ==
  ASSUME TypeInv, TypeOK', UNCHANGED <<up, chk, task>>, gen <= gen', epoch <= epoch',
         gen' = gen => epoch' = epoch,
         mem'.pend = mem.pend \/ mem'.pend = None, row' = row \/ row' = None
  PROVE  TypeInv'
<1>1. gen \in Nat /\ gen' \in Nat /\ epoch \in Nat /\ epoch' \in Nat
  BY DEF TypeInv, TypeOK
<1>2. \A c \in Check : CheckPlan(c)'
  <2> TAKE c \in Check
  <2>1. CheckPlan(c) /\ chk[c].gen \in Nat
    BY DEF TypeInv, TypeOK, CheckRec
  <2> QED
    BY <1>1, <2>1 DEF CheckPlan, PendPlan
<1>3. \A t \in Task : TaskPlan(t)' /\ Life(t)'
  <2> TAKE t \in Task
  <2>1. TaskPlan(t) /\ Life(t) /\ task[t].gen \in Nat /\ task[t].epoch \in Nat
    BY DEF TypeInv, TypeOK, TaskRec
  <2>2. Life(t)'
    BY <1>1, <2>1 DEF Life
  <2>3. Current(t)' => Current(t)
    BY <1>1, <2>1 DEF Current, Life
  <2>4. TaskPlan(t)'
    BY <2>1, <2>3 DEF TaskPlan, Attempt, Begun, Sending, Turn, Storing, QueuePlan, OutPlan,
                      PendPlan, Kept
  <2> QED
    BY <2>2, <2>4
<1>4. \A t, u \in Task : Before(t, u)'
  BY DEF TypeInv, Before
<1>5. PendPlan(mem)' /\ (row' # None => PendPlan(row)')
  BY DEF TypeInv, PendPlan
<1> QED
  BY <1>2, <1>3, <1>4, <1>5 DEF TypeInv

\* A tweet appears.
LEMMA PublishType == ASSUME TypeInv, Publish PROVE TypeInv'
<1>1. /\ UNCHANGED <<cfg, row, up, conf, gen, epoch, mem, failing, chk, task, reload, sent,
                     enabled, limit>>
      /\ published < MaxId /\ published' = published + 1 /\ feed' = feed \cup {published + 1}
      /\ owed' = [owed EXCEPT ![published + 1] = IF up THEN cfg.to \cap conf.to ELSE cfg.to]
  BY DEF Publish, db, proc
<1>2. published + 1 \in Id /\ published + 1 \in 0 .. MaxId
  BY <1>1, PartsType DEF TypeInv, TypeOK, Id
<1>3. cfg.to \in SUBSET Target /\ conf.to \in SUBSET Target
  BY ConfigIs DEF TypeInv, TypeOK
<1>4. owed' \in [Id -> SUBSET Target]
  BY <1>1, <1>2, <1>3 DEF TypeInv, TypeOK
<1>5. \A f \in DOMAIN spent' : spent'[f] \in Nat
  BY DEF Publish, Used, TypeInv, TypeOK
<1>6. TypeOK'
  BY <1>1, <1>2, <1>4, <1>5 DEF TypeInv, TypeOK
<1> QED
  BY <1>1, <1>6, GoesOn DEF TypeInv, TypeOK

\* A tweet is deleted.
LEMMA VanishType == ASSUME TypeInv, NEW i \in Id, Vanish(i) PROVE TypeInv'
<1>1. /\ UNCHANGED <<published, cfg, row, up, conf, gen, epoch, mem, failing, chk, task, reload,
                     sent, enabled, limit>>
      /\ feed' = feed \ {i} /\ owed' = [owed EXCEPT ![i] = {}]
  BY DEF Vanish, db, proc
<1>2. \A f \in DOMAIN spent' : spent'[f] \in Nat
  BY DEF Vanish, Used, TypeInv, TypeOK
<1>3. owed' \in [Id -> SUBSET Target]
  BY <1>1 DEF TypeInv, TypeOK
<1>4. TypeOK'
  BY <1>1, <1>2, <1>3 DEF TypeInv, TypeOK
<1> QED
  BY <1>1, <1>4, GoesOn DEF TypeInv, TypeOK

\* Time passes.
LEMMA SixHoursType == ASSUME TypeInv, SixHours PROVE TypeInv'
<1>1. /\ UNCHANGED <<feed, published, cfg, row, up, conf, gen, epoch, mem, chk, task, reload, sent,
                     owed, enabled, limit, spent>>
      /\ failing # None /\ failing' = [failing EXCEPT !.old = TRUE]
  BY DEF SixHours, world, db, proc, hist, bound
<1>2. failing' \in [id: Id, old: BOOLEAN]
  BY <1>1 DEF TypeInv, TypeOK
<1>3. TypeOK'
  BY <1>1, <1>2 DEF TypeInv, TypeOK
<1> QED
  BY <1>1, <1>3, GoesOn DEF TypeInv, TypeOK

\* Another configuration is stored.
LEMMA ReloadStartType == ASSUME TypeInv, NEW new \in limit.menu, ReloadStart(new) PROVE TypeInv'
<1>1. /\ UNCHANGED <<feed, published, up, conf, gen, epoch, mem, failing, chk, task, sent, limit>>
      /\ cfg' = new /\ row' = (IF new.on THEN row ELSE None) /\ reload' = "apply"
      /\ owed' = [i \in Id |-> owed[i] \cap new.to]
      /\ enabled' = IF cfg.on THEN enabled ELSE published
  BY DEF ReloadStart, world, proc
<1>2. new \in Config
  <2>1. limit \in Budget
    BY ParamAssumption DEF TypeInv, TypeOK
  <2> QED
    BY <2>1 DEF Budget
<1>3. \A f \in DOMAIN spent' : spent'[f] \in Nat
  BY DEF ReloadStart, Used, TypeInv, TypeOK
<1>4. owed' \in [Id -> SUBSET Target]
  BY <1>1 DEF TypeInv, TypeOK
<1>5. TypeOK'
  BY <1>1, <1>2, <1>3, <1>4 DEF TypeInv, TypeOK
<1> QED
  BY <1>1, <1>5, GoesOn DEF TypeInv, TypeOK

\* The process takes it over.
LEMMA ReloadApplyType == ASSUME TypeInv, ReloadApply PROVE TypeInv'
<1>1. /\ UNCHANGED <<feed, published, cfg, row, up, chk, task, sent, owed, enabled, limit, spent>>
      /\ conf' = cfg /\ reload' \in {"idle", "reset", "delete"}
      /\ \/ gen' = gen + 1 /\ epoch' = epoch + 1 /\ mem' = Blank /\ failing' = None
         \/ UNCHANGED <<gen, epoch, mem, failing>>
  BY DEF ReloadApply, world, db, hist, bound
<1>2. gen \in Nat /\ epoch \in Nat
  BY DEF TypeInv, TypeOK
<1>3. TypeOK'
  BY <1>1, <1>2, BlankIs DEF TypeInv, TypeOK
<1> QED
  BY <1>1, <1>2, <1>3, BlankIs, GoesOn

\* A blogger that is enabled begins another life.
LEMMA ReloadResetType == ASSUME TypeInv, ReloadReset PROVE TypeInv'
<1>1. /\ UNCHANGED <<feed, published, cfg, row, up, conf, epoch, failing, chk, task, sent, enabled,
                     limit, spent>>
      /\ gen' = gen + 1 /\ mem' = [mem EXCEPT !.last = 0, !.init = FALSE]
      /\ owed' = [i \in Id |-> {}] /\ reload' = "delete"
  BY DEF ReloadReset, world, db, bound
<1>2. gen \in Nat /\ epoch \in Nat /\ mem \in State /\ 0 \in 0 .. MaxId
  BY PartsType DEF TypeInv, TypeOK
<1>3. mem' \in State /\ mem'.pend = mem.pend
  BY <1>1, <1>2 DEF State
<1>4. TypeOK'
  BY <1>1, <1>2, <1>3 DEF TypeInv, TypeOK
<1> QED
  BY <1>1, <1>2, <1>3, <1>4, GoesOn

\* Its row is deleted.
LEMMA DeleteRowType == ASSUME TypeInv, DeleteRow PROVE TypeInv'
<1>1. /\ UNCHANGED <<feed, published, cfg, up, conf, gen, epoch, mem, failing, chk, task, sent,
                     owed, enabled, limit>>
      /\ row' \in {None, row} /\ reload' = "idle"
  BY DEF DeleteRow, world, proc, hist, bound
<1>2. \A f \in DOMAIN spent' : spent'[f] \in Nat
  BY DEF DeleteRow, Used, bound, TypeInv, TypeOK
<1>3. TypeOK'
  BY <1>1, <1>2 DEF DeleteRow, TypeInv, TypeOK
<1> QED
  BY <1>1, <1>3, GoesOn DEF TypeInv, TypeOK

\* A slot for a task.
LEMMA IdleTaskIs == IdleTask \in TaskRec /\ IdleTask.pc = "idle"
<1>1. NoBody \in Progress
  BY ProgressIs DEF NoBody
<1>2. 0 \in Done .. Body + 1 /\ 0 \in 0 .. MaxId
  BY PartsType DEF Done
<1> QED
  BY <1>1, <1>2, BlankIs DEF IdleTask, TaskRec

\* Nothing of the process survives.
LEMMA CrashType == ASSUME TypeInv, Crash
                   PROVE  /\ TypeInv' /\ \A c \in Check : chk'[c] = IdleCheck
                          /\ \A t \in Task : task'[t] = IdleTask
<1>1. /\ UNCHANGED <<feed, published, cfg, row, sent, enabled, limit>>
      /\ up' = FALSE /\ conf' = Off /\ gen' = 0 /\ epoch' = 0 /\ mem' = Blank /\ failing' = None
      /\ chk' = [c \in Check |-> IdleCheck] /\ task' = [t \in Task |-> IdleTask]
      /\ reload' = "idle" /\ owed' = IF row = None THEN [i \in Id |-> {}] ELSE owed
  BY DEF Crash, world, db
<1>2. \A f \in DOMAIN spent' : spent'[f] \in Nat
  BY DEF Crash, Used, TypeInv, TypeOK
<1>3. chk' \in [Check -> CheckRec] /\ task' \in [Task -> TaskRec] /\ Off \in Config
  BY <1>1, IdleCheckIs, IdleTaskIs DEF Config
<1>4. TypeOK'
  BY <1>1, <1>2, <1>3, BlankIs DEF TypeInv, TypeOK
<1>5. PendPlan(mem)' /\ (row' # None => PendPlan(row)')
  BY <1>1, BlankIs DEF PendPlan, TypeInv
<1>6. TypeInv'
  <2>1. (\A c \in Check : chk[c].pc = "idle")' /\ (\A t \in Task : task[t].pc = "idle")'
    BY <1>1, IdleCheckIs, IdleTaskIs
  <2> QED
    BY <1>4, <1>5, <2>1
       DEF TypeInv, CheckPlan, TaskPlan, Attempt, Begun, Sending, Turn, Storing, Life, Before
<1> QED
  BY <1>1, <1>6

\* What is loaded from a row.
LEMMA RestoredIs ==
  ASSUME NEW w \in State \cup {None}
  PROVE  /\ Restored(w) \in State
         /\ (w # None => PendPlan(w)) => PendPlan(Restored(w))
         /\ Restored(w).pend = None \/ (w # None /\ Restored(w).pend = w.pend)
         /\ w # None => Restored(w).last = w.last /\ (Restored(w).init <=> w.init /\ w.last # 0)
<1>1. CASE w = None
  <2>1. Restored(w) = Blank
    BY <1>1 DEF Restored
  <2> QED
    BY <1>1, <2>1, BlankIs DEF PendPlan
<1>2. CASE w # None
  <2>1. PICK s : s = Restored(w)
    OBVIOUS
  <2>2. PICK i, p : /\ i = (w.init /\ w.last # 0)
                    /\ p = IF w.pend # None /\ DOMAIN w.pend.at = {} THEN None ELSE w.pend
    OBVIOUS
  <2>3. s = [w EXCEPT !.init = i, !.pend = p]
    BY <1>2, <2>1, <2>2 DEF Restored
  <2>4. w \in State /\ i \in BOOLEAN /\ p \in Pending \cup {None} /\ (p = None \/ p = w.pend)
    BY <1>2, <2>2 DEF State
  <2>5. s \in State /\ s.last = w.last /\ s.init = i /\ s.pend = p
    BY <2>3, <2>4 DEF State
  <2>6. PendPlan(w) => PendPlan(s)
    BY <2>4, <2>5 DEF PendPlan
  <2> QED
    BY <1>2, <2>1, <2>2, <2>4, <2>5, <2>6
<1> QED
  BY <1>1, <1>2

\* The process comes up with what the row has.
LEMMA RestartType == ASSUME TypeInv, Restart PROVE TypeInv'
<1>1. /\ UNCHANGED <<feed, published, cfg, gen, epoch, failing, chk, task, reload, sent, owed,
                     enabled, limit, spent>>
      /\ ~up /\ up' = TRUE /\ conf' = cfg /\ row' = (IF cfg.on THEN row ELSE None)
      /\ mem' = Restored(row')
  BY DEF Restart, world, hist, bound
<1>2. row' \in State \cup {None} /\ (row' # None => PendPlan(row'))
  BY <1>1 DEF TypeInv, TypeOK
<1>3. PICK w : w = row'
  OBVIOUS
<1>4. Restored(w) \in State /\ ((w # None => PendPlan(w)) => PendPlan(Restored(w)))
  BY <1>2, <1>3, RestoredIs
<1>5. mem' \in State /\ PendPlan(mem')
  BY <1>1, <1>2, <1>3, <1>4
<1>6. TypeOK'
  BY <1>1, <1>2, <1>5 DEF TypeInv, TypeOK
<1>7. /\ \A c \in Check : chk'[c].pc = "idle"
      /\ \A t \in Task : task'[t].pc = "idle"
  BY <1>1 DEF TypeInv, CheckPlan, Life
<1>8. PendPlan(mem)' /\ (row' # None => PendPlan(row)')
  BY <1>2, <1>5 DEF PendPlan
<1> QED
  BY <1>6, <1>7, <1>8
     DEF TypeInv, CheckPlan, TaskPlan, Attempt, Begun, Sending, Turn, Storing, Life, Before

\* At first nothing runs, and nothing is pending.
LEMMA InitType == ASSUME Init PROVE TypeInv
<1>1. limit \in Scenario /\ limit \in Budget
  BY ParamAssumption DEF Init
<1>2. /\ limit.from \in Config /\ limit.seen \in 0 .. MaxId
  BY <1>1 DEF Budget
<1>3. published \in 0 .. MaxId /\ feed = 1 .. published /\ feed \subseteq Id
  BY <1>2, PartsType DEF Init, Id
<1>4. /\ row \in State \cup {None} /\ mem \in State /\ mem.pend = None
      /\ (row # None => row.pend = None)
  <2>1. CASE row = None
    BY <2>1, BlankIs DEF Init
  <2>2. CASE row # None
    <3>1. row = [last |-> published, init |-> TRUE, pend |-> None] /\ mem = row
      BY <2>2 DEF Init
    <3> QED
      BY <1>3, <3>1 DEF State
  <2> QED
    BY <2>1, <2>2
<1>5. /\ chk \in [Check -> CheckRec] /\ task \in [Task -> TaskRec]
      /\ (\A c \in Check : chk[c].pc = "idle") /\ (\A t \in Task : task[t].pc = "idle")
  BY IdleCheckIs, IdleTaskIs DEF Init
<1>6. /\ sent \in [Id -> [Target -> [1 .. Body -> Nat]]] /\ owed \in [Id -> SUBSET Target]
      /\ \A f \in DOMAIN spent : spent[f] \in Nat
  BY DEF Init
<1>7. TypeOK
  BY <1>1, <1>2, <1>3, <1>4, <1>5, <1>6 DEF Init, TypeOK
<1> QED
  BY <1>4, <1>5, <1>7 DEF TypeInv, PendPlan, CheckPlan, TaskPlan, Attempt, Begun, Sending, Turn,
                          Storing, Life, Before
-----------------------------------------------------------------------------
(* Types and plans *)

\* A step of a task.
LEMMA TaskStepType ==
  ASSUME TypeInv, NEW t \in Task,
         TaskNext(t) \/ SendRefused(t) \/ SendLost(t) \/ TaskDbError(t)
  PROVE  TypeInv'
<1>1. CASE NextTweet(t)
  BY <1>1, NextTweetType
<1>2. CASE Finish(t)
  BY <1>2, FinishType
<1>3. CASE EndTask(t)
  BY <1>3, EndTaskType
<1>4. CASE TaskRead(t)
  BY <1>4, TaskReadType
<1>5. CASE TaskCommit(t)
  BY <1>5, TaskCommitType
<1>6. CASE MediaReady(t)
  BY <1>6, MediaReadyType
<1>7. CASE MediaMissing(t)
  BY <1>7, MediaMissingType
<1>8. CASE SendBegin(t)
  BY <1>8, SendBeginType
<1>9. ASSUME NEW x \in Target, SendSkip(t, x) PROVE TypeInv'
  BY <1>9, SendSkipType
<1>10. ASSUME NEW x \in Target, SendStart(t, x) PROVE TypeInv'
  BY <1>10, SendStartType
<1>11. CASE SendPart(t)
  BY <1>11, SendPartType
<1>12. CASE SendOk(t)
  BY <1>12, SendOkType
<1>13. CASE SendFailed(t)
  BY <1>13, SendFailedType
<1>14. CASE Settle(t)
  BY <1>14, SettleType
<1>15. CASE SendRefused(t)
  BY <1>15, SendRefusedType
<1>16. CASE SendLost(t)
  BY <1>16, SendLostType
<1>17. CASE TaskDbError(t)
  BY <1>17, TaskDbErrorType
<1> QED
  BY <1>1, <1>2, <1>3, <1>4, <1>5, <1>6, <1>7, <1>8, <1>9, <1>10, <1>11, <1>12, <1>13, <1>14,
     <1>15, <1>16, <1>17 DEF TaskNext

\* A step of a check.
LEMMA CheckStepType ==
  ASSUME TypeInv, NEW c \in Check,
         CheckStart(c) \/ CheckEnd(c) \/ CheckNext(c) \/ CheckDbError(c)
  PROVE  TypeInv'
BY CheckStartType, CheckEndType, CheckBaselineType, CheckObserveType, CheckReadType,
   CheckCommitType, CheckDbErrorType DEF CheckNext

\* Nothing changes.
LEMMA StutterType == ASSUME TypeInv, UNCHANGED vars PROVE TypeInv'
BY DEF vars, world, db, proc, hist, bound, TypeInv, TypeOK, PendPlan, CheckPlan, TaskPlan, Attempt,
       Begun, Sending, Turn, Storing, QueuePlan, OutPlan, Kept, Current, Life, Before

\* Every step keeps the invariant.
LEMMA StepType == ASSUME TypeInv, [Next]_vars PROVE TypeInv'
<1>1. CASE UNCHANGED vars
  BY <1>1, StutterType
<1>2. CASE Publish \/ (\E i \in Id : Vanish(i)) \/ SixHours
  BY <1>2, PublishType, VanishType, SixHoursType
<1>3. CASE (\E c \in Check : CheckStart(c) \/ CheckEnd(c) \/ CheckNext(c) \/ CheckDbError(c))
  BY <1>3, CheckStepType
<1>4. CASE (\E t \in Task : TaskNext(t) \/ SendRefused(t) \/ SendLost(t) \/ TaskDbError(t))
  BY <1>4, TaskStepType
<1>5. CASE (\E new \in limit.menu : ReloadStart(new))
  BY <1>5, ReloadStartType
<1>6. CASE ReloadApply \/ ReloadReset \/ DeleteRow \/ Crash \/ Restart
  BY <1>6, ReloadApplyType, ReloadResetType, DeleteRowType, CrashType, RestartType
<1> QED
  BY <1>1, <1>2, <1>3, <1>4, <1>5, <1>6 DEF Next

\* The invariant holds throughout.
LEMMA Types == Spec => []TypeInv
<1>1. Init => TypeInv
  BY InitType
<1>2. TypeInv /\ [Next]_vars => TypeInv'
  BY StepType
<1> QED
  BY <1>1, <1>2, PTL DEF Spec

\* Cursor, pending tweet, row and the locals of the coroutines are well formed for any
\* number of checks, tasks and targets; SendOk may note the next part in the pending slot,
\* for nobody who counts in another plan has put something there meanwhile.
THEOREM TypeCorrect == Spec => []TypeOK
<1>1. TypeInv => TypeOK
  BY DEF TypeInv
<1> QED
  BY <1>1, Types, PTL

-----------------------------------------------------------------------------
(* The inductive invariant: world, configuration, life of the blogger *)

WorldInv ==
  /\ feed \subseteq 1 .. published /\ (spent.vanish = 0 => feed = 1 .. published)
  /\ enabled <= published
  /\ reload # "idle" => up
  /\ up /\ reload # "apply" => conf = cfg
  /\ ~up => conf = Off /\ mem = Blank
  /\ reload = "reset" => conf.on
  /\ \A i \in Id : /\ owed[i] \subseteq cfg.to /\ (up => owed[i] \subseteq conf.to)
                   /\ owed[i] # {} => i \in feed
  /\ {"crash", "vanish", "tweet", "reload", "db", "lost"} \subseteq DOMAIN spent

-----------------------------------------------------------------------------
(* The inductive invariant: what is noted of a tweet's delivery is true *)

\* The parts before the n-th are with x.
Got(i, x, all, n) == \A q \in 1 .. Body : q + Prefix(x, all) <= n => sent[i][x][q] > 0

\* A next part that is noted, under a plan.
True(i, x, fp, n) == (n = Done => x \notin owed[i]) /\ (fp # None => Got(i, x, fp, n))

PendTrue(p)  == p # None => p.id <= published /\ \A x \in DOMAIN p.at : True(p.id, x, p.fp, p.at[x])
StateTrue(s) == s.last <= published /\ PendTrue(s.pend)

TaskTrue(t) ==
  /\ task[t].id <= published /\ task[t].ids \cup task[t].got \subseteq 1 .. published
  /\ Begun(t) => /\ \A x \in task[t].done : x \notin owed[task[t].id]
                 /\ \A x \in DOMAIN task[t].queue :
                      Got(task[t].id, x, task[t].all, task[t].queue[x])
  /\ Sending(t) => \A x \in DOMAIN task[t].out :
                     True(task[t].id, x, task[t].all, task[t].out[x])
  /\ Turn(t) => Got(task[t].id, task[t].to, task[t].all, task[t].n)
  /\ task[t].pc = "commit" => StateTrue(task[t].cap)

\* Who is owed a tweet lacks a part of it.
Lacks == \A i \in Id, x \in Target :
  /\ x \in owed[i] => \E q \in 1 .. Body : sent[i][x][q] = 0
  /\ published < i => \A q \in 1 .. Body : sent[i][x][q] = 0

NoteInv ==
  /\ Lacks /\ StateTrue(mem) /\ (row # None => StateTrue(row))
  /\ \A c \in Check : /\ chk[c].ids \subseteq 1 .. published
                      /\ chk[c].pc = "commit" => StateTrue(chk[c].cap)
  /\ \A t \in Task : TaskTrue(t)

-----------------------------------------------------------------------------
(* Bounds that are used up *)

\* One unit of a bound is used, if any.
Uses(F) == spent' = spent \/ \E f \in F : Used(f)

\* A task uses the bounds on lost receipts and on errors of the database, nothing else.
LEMMA TaskUses ==
  ASSUME NEW t \in Task, TaskNext(t) \/ SendRefused(t) \/ SendLost(t) \/ TaskDbError(t)
  PROVE  Uses({"lost", "db"})
<1>1. CASE NextTweet(t) \/ Finish(t) \/ EndTask(t) \/ TaskRead(t) \/ TaskCommit(t)
  BY <1>1 DEF NextTweet, Finish, EndTask, TaskRead, TaskCommit, bound, Uses
<1>2. CASE MediaReady(t) \/ MediaMissing(t) \/ SendBegin(t) \/ SendPart(t)
  BY <1>2 DEF MediaReady, MediaMissing, SendBegin, SendPart, bound, Uses
<1>3. CASE \E x \in Target : SendSkip(t, x) \/ SendStart(t, x)
  BY <1>3 DEF SendSkip, SendStart, bound, Uses
<1>4. CASE SendOk(t) \/ SendFailed(t) \/ Settle(t) \/ SendRefused(t)
  BY <1>4 DEF SendOk, SendFailed, Settle, SendRefused, bound, Uses
<1>5. CASE SendLost(t) \/ TaskDbError(t)
  BY <1>5 DEF SendLost, TaskDbError, Uses
<1> QED
  BY <1>1, <1>2, <1>3, <1>4, <1>5 DEF TaskNext

\* The bounds that remain are known.
Bounds == {"crash", "vanish", "tweet", "reload", "db", "lost"}

\* What is left of the bounds, after a step that uses some.
LEMMA UsesIs ==
  ASSUME WorldInv, NEW F, F \subseteq Bounds, Uses(F)
  PROVE  /\ Bounds \subseteq DOMAIN spent'
         /\ "vanish" \notin F => spent'.vanish = spent.vanish
BY DEF Uses, Used, WorldInv, Bounds

-----------------------------------------------------------------------------
(* World and life *)

\* A coroutine goes on.
LEMMA WorldGoes ==
  ASSUME WorldInv, up,
         UNCHANGED <<feed, published, cfg, up, conf, gen, reload, enabled, limit>>,
         \A i \in Id : owed'[i] \subseteq owed[i], Uses({"lost", "db"})
  PROVE  WorldInv'
<1>1. /\ Bounds \subseteq DOMAIN spent' /\ spent'.vanish = spent.vanish
  BY UsesIs DEF Bounds
<1> QED
  BY <1>1 DEF WorldInv, Bounds

\* The bounds of a behaviour.
LEMMA LimitIs ==
  ASSUME TypeInv
  PROVE  /\ limit \in Scenario /\ limit \in Budget /\ \A c \in limit.menu : c \in Config
BY ParamAssumption DEF TypeInv, TypeOK, Budget

\* A new tweet is owed to the targets of the configuration in force.
LEMMA WorldPublish == ASSUME TypeInv, WorldInv, Publish PROVE WorldInv'
<1>1. /\ UNCHANGED <<cfg, up, conf, gen, mem, reload, enabled, limit>>
      /\ published < MaxId /\ published' = published + 1 /\ feed' = feed \cup {published + 1}
      /\ owed' = [owed EXCEPT ![published + 1] = IF up THEN cfg.to \cap conf.to ELSE cfg.to]
      /\ Uses({"tweet"})
  BY DEF Publish, db, proc, Uses
<1>2. Bounds \subseteq DOMAIN spent' /\ spent'.vanish = spent.vanish
  BY <1>1, UsesIs DEF Bounds
<1>3. /\ published \in Nat /\ published + 1 \in Id /\ owed \in [Id -> SUBSET Target]
      /\ enabled \in Nat
  BY <1>1, PartsType DEF TypeInv, TypeOK, Id
<1>4. /\ feed \subseteq 1 .. published /\ enabled <= published
      /\ spent.vanish = 0 => feed = 1 .. published
  BY DEF WorldInv
<1>6. feed' \subseteq 1 .. published'
  BY <1>1, <1>3, <1>4
<1>7. spent'.vanish = 0 => feed' = 1 .. published'
  BY <1>1, <1>2, <1>3, <1>4
<1>8. enabled' <= published'
  BY <1>1, <1>3, <1>4
<1>5. \A i \in Id : /\ owed'[i] \subseteq cfg'.to /\ (up' => owed'[i] \subseteq conf'.to)
                    /\ owed'[i] # {} => i \in feed'
  <2> TAKE i \in Id
  <2>1. CASE i = published + 1
    <3>1. owed'[i] = (IF up THEN cfg.to \cap conf.to ELSE cfg.to)
      BY <1>1, <1>3, <2>1
    <3> QED
      BY <1>1, <2>1, <3>1
  <2>2. CASE i # published + 1
    <3>1. owed'[i] = owed[i]
      BY <1>1, <1>3, <2>2
    <3> QED
      BY <1>1, <3>1 DEF WorldInv
  <2> QED
    BY <2>1, <2>2
<1> QED
  BY <1>1, <1>2, <1>5, <1>6, <1>7, <1>8 DEF WorldInv, Bounds

\* A deleted tweet is owed to nobody.
LEMMA WorldVanish == ASSUME TypeInv, WorldInv, NEW i \in Id, Vanish(i) PROVE WorldInv'
<1>1. /\ UNCHANGED <<published, cfg, up, conf, gen, mem, reload, enabled, limit>>
      /\ feed' = feed \ {i} /\ owed' = [owed EXCEPT ![i] = {}] /\ Used("vanish")
  BY DEF Vanish, db, proc
<1>2. Bounds \subseteq DOMAIN spent' /\ spent'.vanish # 0
  BY <1>1 DEF Used, WorldInv, Bounds, TypeInv, TypeOK
<1>3. \A j \in Id : /\ owed'[j] \subseteq cfg'.to /\ (up' => owed'[j] \subseteq conf'.to)
                    /\ owed'[j] # {} => j \in feed'
  BY <1>1 DEF WorldInv, TypeInv, TypeOK
<1> QED
  BY <1>1, <1>2, <1>3 DEF WorldInv, Bounds

\* Time changes nothing of the world.
LEMMA WorldSixHours == ASSUME WorldInv, SixHours PROVE WorldInv'
BY DEF SixHours, world, db, proc, hist, bound, WorldInv

\* Targets that leave are not owed anything any more.
LEMMA WorldReloadStart ==
  ASSUME TypeInv, WorldInv, NEW new \in limit.menu, ReloadStart(new)
  PROVE  WorldInv'
<1>1. /\ UNCHANGED <<feed, published, up, conf, gen, mem, limit>> /\ up /\ reload = "idle"
      /\ cfg' = new /\ reload' = "apply"
      /\ owed' = [i \in Id |-> owed[i] \cap new.to]
      /\ enabled' = (IF cfg.on THEN enabled ELSE published) /\ Uses({"reload"})
  BY DEF ReloadStart, world, proc, Uses
<1>2. Bounds \subseteq DOMAIN spent' /\ spent'.vanish = spent.vanish
  BY <1>1, UsesIs DEF Bounds
<1>3. /\ feed' \subseteq 1 .. published' /\ (spent'.vanish = 0 => feed' = 1 .. published')
      /\ enabled' <= published'
  BY <1>1, <1>2 DEF WorldInv, TypeInv, TypeOK
<1>4. \A i \in Id : /\ owed'[i] \subseteq cfg'.to /\ (up' => owed'[i] \subseteq conf'.to)
                    /\ owed'[i] # {} => i \in feed'
  BY <1>1 DEF WorldInv
<1> QED
  BY <1>1, <1>2, <1>3, <1>4 DEF WorldInv, Bounds

\* The process takes over the configuration.
LEMMA WorldReloadApply == ASSUME TypeInv, WorldInv, ReloadApply PROVE WorldInv'
<1>1. /\ UNCHANGED <<feed, published, cfg, up, owed, enabled, limit, spent>> /\ reload = "apply"
      /\ conf' = cfg
      /\ IF conf.on /\ ~cfg.on
           THEN gen' = gen + 1 /\ reload' = "delete"
           ELSE gen' = gen /\ reload' = IF cfg.on /\ ~conf.on THEN "reset" ELSE "idle"
  BY DEF ReloadApply, world, db, hist, bound
<1>2. up
  BY <1>1 DEF WorldInv
<1> QED
  BY <1>1, <1>2 DEF WorldInv

\* The blogger starts over.
LEMMA WorldReloadReset == ASSUME WorldInv, ReloadReset PROVE WorldInv'
<1>1. /\ UNCHANGED <<feed, published, cfg, up, conf, enabled, limit, spent>> /\ reload = "reset"
      /\ owed' = [i \in Id |-> {}] /\ reload' = "delete" /\ up
  BY DEF ReloadReset, world, db, bound, WorldInv
<1> QED
  BY <1>1 DEF WorldInv

\* The row is not part of the world.
LEMMA WorldDeleteRow == ASSUME WorldInv, DeleteRow PROVE WorldInv'
<1>1. /\ UNCHANGED <<feed, published, cfg, up, conf, gen, mem, owed, enabled, limit>>
      /\ reload = "delete" /\ reload' = "idle" /\ up /\ Uses({"db"})
  BY DEF DeleteRow, world, proc, hist, bound, Uses, WorldInv
<1>2. Bounds \subseteq DOMAIN spent' /\ spent'.vanish = spent.vanish
  BY <1>1, UsesIs DEF Bounds
<1> QED
  BY <1>1, <1>2 DEF WorldInv, Bounds

\* Of a process that is down nothing is left.
LEMMA WorldCrash == ASSUME TypeInv, WorldInv, Crash PROVE WorldInv'
<1>1. /\ UNCHANGED <<feed, published, cfg, enabled, limit>>
      /\ up' = FALSE /\ conf' = Off /\ gen' = 0 /\ mem' = Blank /\ reload' = "idle"
      /\ \A i \in Id : owed'[i] \subseteq owed[i]
      /\ Uses({"crash"})
  BY DEF Crash, world, db, Uses
<1>2. Bounds \subseteq DOMAIN spent' /\ spent'.vanish = spent.vanish
  BY <1>1, UsesIs DEF Bounds
<1> QED
  BY <1>1, <1>2 DEF WorldInv, Bounds

\* A process that comes up takes over the configuration.
LEMMA WorldRestart == ASSUME WorldInv, Restart PROVE WorldInv'
<1>1. /\ UNCHANGED <<feed, published, cfg, gen, reload, owed, enabled, limit, spent>>
      /\ ~up /\ up' = TRUE /\ conf' = cfg
  BY DEF Restart, world, hist, bound
<1> QED
  BY <1>1 DEF WorldInv

\* The invariant holds at the start.
LEMMA WorldInit == ASSUME Init PROVE WorldInv
<1>1. /\ limit \in Scenario /\ spent = [f \in DOMAIN limit \ {"from", "menu"} |-> 0]
      /\ published = limit.seen /\ feed = 1 .. published /\ cfg = limit.from /\ conf = cfg
      /\ up /\ gen = 0 /\ reload = "idle" /\ owed = [i \in Id |-> {}] /\ enabled = published
  BY DEF Init
<1>2. limit \in Budget
  BY <1>1, ParamAssumption
<1>3. DOMAIN limit = {"from", "menu", "seen", "tweet", "reload", "crash", "lost", "db", "vanish"}
      /\ limit.seen \in 0 .. MaxId
  BY <1>2 DEF Budget
<1>4. Bounds \subseteq DOMAIN spent /\ enabled <= published
  BY <1>1, <1>3, PartsType DEF Bounds
<1> QED
  BY <1>1, <1>4 DEF WorldInv, Bounds

\* A step of a task.
LEMMA TaskKeeps ==
  ASSUME TypeInv, NEW t \in Task, TaskNext(t) \/ SendRefused(t) \/ SendLost(t) \/ TaskDbError(t)
  PROVE  task[t].pc # "idle" /\ up /\ TaskWorld
<1>1. task[t].pc # "idle"
  BY DEF TaskNext, NextTweet, Finish, EndTask, TaskRead, TaskCommit, MediaReady, MediaMissing,
         SendBegin, SendSkip, SendStart, InTurn, SendPart, SendOk, SendFailed, Settle, SendRefused,
         SendLost, TaskDbError, At
<1>2. up
  BY <1>1 DEF TypeInv, Life
<1>3. CASE NextTweet(t) \/ Finish(t) \/ EndTask(t) \/ TaskRead(t) \/ TaskCommit(t)
  BY <1>1, <1>2, <1>3, NextTweetType, FinishType, EndTaskType, TaskReadType,
     TaskCommitType
<1>4. CASE MediaReady(t) \/ MediaMissing(t) \/ SendBegin(t) \/ SendPart(t)
  BY <1>1, <1>2, <1>4, MediaReadyType, MediaMissingType, SendBeginType, SendPartType
<1>5. CASE \E x \in Target : SendSkip(t, x) \/ SendStart(t, x)
  BY <1>1, <1>2, <1>5, SendSkipType, SendStartType
<1>6. CASE SendOk(t) \/ SendFailed(t) \/ Settle(t) \/ SendRefused(t)
  BY <1>1, <1>2, <1>6, SendOkType, SendFailedType, SettleType, SendRefusedType
<1>7. CASE SendLost(t) \/ TaskDbError(t)
  BY <1>1, <1>2, <1>7, SendLostType, TaskDbErrorType
<1> QED
  BY <1>1, <1>2, <1>3, <1>4, <1>5, <1>6, <1>7 DEF TaskNext

\* What a step of a task does to those who are owed a tweet: it takes out a target that has
\* all its parts or has refused, or gives up the tweet; and only the parts sent grow.
TaskGrows ==
  /\ \A i \in Id : owed'[i] \subseteq owed[i]
  /\ \A i \in Id, x \in Target, q \in 1 .. Body : sent[i][x][q] <= sent'[i][x][q]

\* A part that reaches its target only adds to what was sent.
LEMMA DeliversGrows == ASSUME TypeInv, NEW t \in Task, Turn(t), Delivers(t) PROVE TaskGrows
<1>1. PICK i, x : i = task[t].id /\ x = task[t].to
  OBVIOUS
<1>2. /\ \A j \in Id, y \in Target, q \in 1 .. Body : sent[j][y][q] <= sent'[j][y][q]
      /\ owed' = [owed EXCEPT ![i] = @ \ {x}] \/ owed' = owed
  BY <1>1 DEF Delivers
<1> QED
  BY <1>2 DEF TaskGrows, TypeInv, TypeOK

\* Nothing is sent.
LEMMA SentSame == ASSUME TypeInv, sent' = sent, \A i \in Id : owed'[i] \subseteq owed[i]
                  PROVE  TaskGrows
<1>1. sent \in [Id -> [Target -> [1 .. Body -> Nat]]]
  BY DEF TypeInv, TypeOK
<1>2. \A i \in Id, x \in Target, q \in 1 .. Body : sent[i][x][q] \in Nat
  BY <1>1
<1> QED
  BY <1>2 DEF TaskGrows

\* No step of a task takes back what was sent.
LEMMA TaskGrowth ==
  ASSUME TypeInv, NEW t \in Task, TaskNext(t) \/ SendRefused(t) \/ SendLost(t) \/ TaskDbError(t)
  PROVE  TaskGrows
<1>1. CASE UNCHANGED <<sent, owed>>
  BY <1>1, SentSame
<1>2. CASE NextTweet(t) \/ Finish(t) \/ EndTask(t) \/ TaskRead(t) \/ TaskCommit(t)
  BY <1>1, <1>2 DEF NextTweet, Finish, EndTask, TaskRead, TaskCommit, hist
<1>3. CASE MediaReady(t) \/ SendBegin(t) \/ SendPart(t) \/ SendFailed(t) \/ TaskDbError(t)
  BY <1>1, <1>3 DEF MediaReady, SendBegin, SendPart, SendFailed, TaskDbError, hist
<1>4. CASE \E x \in Target : SendSkip(t, x) \/ SendStart(t, x)
  BY <1>1, <1>4, SendSkipType, SendStartType
<1>5. CASE MediaMissing(t) \/ Settle(t) \/ SendRefused(t)
  <2>1. sent' = sent
    BY <1>5, MediaMissingType, SettleType, SendRefusedType
  <2>2. \/ owed' = owed \/ owed' = [owed EXCEPT ![task[t].id] = {}]
        \/ owed' = [owed EXCEPT ![task[t].id] = @ \ {task[t].to}]
    BY <1>5, MediaMissingType, SettleType, SendRefusedType
  <2>3. PICK i, x : i = task[t].id /\ x = task[t].to
    OBVIOUS
  <2>4. \A j \in Id : owed'[j] \subseteq owed[j]
    BY <2>2, <2>3 DEF TypeInv, TypeOK
  <2> QED
    BY <2>1, <2>4, SentSame
<1>6. CASE SendOk(t) \/ SendLost(t)
  BY <1>6, SendOkType, SendLostType, DeliversGrows DEF Turn
<1> QED
  BY <1>2, <1>3, <1>4, <1>5, <1>6 DEF TaskNext

\* A task changes nothing of the world.
LEMMA WorldTask ==
  ASSUME TypeInv, WorldInv, NEW t \in Task,
         TaskNext(t) \/ SendRefused(t) \/ SendLost(t) \/ TaskDbError(t)
  PROVE  WorldInv'
<1>1. up /\ TaskWorld
  BY TaskKeeps
<1>2. TaskGrows /\ Uses({"lost", "db"})
  BY TaskGrowth, TaskUses
<1> QED
  BY <1>1, <1>2, WorldGoes DEF TaskWorld, TaskGrows

\* A step of a check.
CheckWorld == UNCHANGED <<feed, published, cfg, up, conf, gen, epoch, reload, sent, owed, enabled,
                          limit>>

\* Nor does a check.
LEMMA CheckKeeps ==
  ASSUME TypeInv, NEW c \in Check, CheckStart(c) \/ CheckEnd(c) \/ CheckNext(c) \/ CheckDbError(c)
  PROVE  up /\ CheckWorld /\ Uses({"lost", "db"})
<1>1. up
  BY DEF TypeInv, CheckPlan, CheckStart, CheckEnd, CheckNext, CheckBaseline, CheckObserve,
         CheckRead, CheckCommit, CheckDbError
<1>2. CheckWorld /\ Uses({"lost", "db"})
  BY DEF CheckStart, CheckEnd, CheckNext, CheckBaseline, CheckObserve, CheckRead, CheckCommit,
         CheckDbError, CheckWorld, world, db, proc, hist, bound, Uses
<1> QED
  BY <1>1, <1>2

\* A step of a check.
LEMMA WorldCheck ==
  ASSUME TypeInv, WorldInv, NEW c \in Check,
         CheckStart(c) \/ CheckEnd(c) \/ CheckNext(c) \/ CheckDbError(c)
  PROVE  WorldInv'
<1>1. up /\ CheckWorld /\ Uses({"lost", "db"})
  BY CheckKeeps
<1> QED
  BY <1>1, WorldGoes DEF CheckWorld

\* Every step keeps the first part of the invariant.
LEMMA WorldStep == ASSUME TypeInv, WorldInv, [Next]_vars PROVE WorldInv'
<1>1. CASE UNCHANGED vars
  BY <1>1 DEF vars, world, db, proc, hist, bound, WorldInv
<1>2. CASE Publish \/ (\E i \in Id : Vanish(i)) \/ SixHours
  BY <1>2, WorldPublish, WorldVanish, WorldSixHours
<1>3. CASE (\E c \in Check : CheckStart(c) \/ CheckEnd(c) \/ CheckNext(c) \/ CheckDbError(c))
  BY <1>3, WorldCheck
<1>4. CASE (\E t \in Task : TaskNext(t) \/ SendRefused(t) \/ SendLost(t) \/ TaskDbError(t))
  BY <1>4, WorldTask
<1>5. CASE (\E new \in limit.menu : ReloadStart(new))
  BY <1>5, WorldReloadStart
<1>6. CASE ReloadApply \/ ReloadReset \/ DeleteRow \/ Crash \/ Restart
  BY <1>6, WorldReloadApply, WorldReloadReset, WorldDeleteRow, WorldCrash, WorldRestart
<1> QED
  BY <1>1, <1>2, <1>3, <1>4, <1>5, <1>6 DEF Next

-----------------------------------------------------------------------------
(* Notes *)

\* Nobody comes to be owed a tweet that is there, and the parts sent grow.
Grows ==
  /\ published \in Nat /\ published' \in Nat /\ published <= published'
  /\ \A i \in Id : i <= published => owed'[i] \subseteq owed[i]
  /\ \A i \in Id, x \in Target, q \in 1 .. Body :
       sent[i][x][q] \in Nat /\ sent'[i][x][q] \in Nat /\ sent[i][x][q] <= sent'[i][x][q]

\* Every step of a task only adds.
LEMMA GrowsIs == ASSUME TypeInv, TypeInv', TaskGrows, published' = published PROVE Grows
<1>1. /\ sent \in [Id -> [Target -> [1 .. Body -> Nat]]]
      /\ sent' \in [Id -> [Target -> [1 .. Body -> Nat]]]
      /\ published \in Nat /\ published' \in Nat
  <2>1. TypeOK /\ TypeOK'
    BY DEF TypeInv
  <2>2. /\ sent \in [Id -> [Target -> [1 .. Body -> Nat]]]
        /\ sent' \in [Id -> [Target -> [1 .. Body -> Nat]]]
    BY <2>1 DEF TypeOK
  <2>3. published \in 0 .. MaxId /\ published' \in 0 .. MaxId
    BY <2>1 DEF TypeOK
  <2> QED
    BY <2>2, <2>3, PartsType
<1>2. ASSUME NEW i \in Id, NEW x \in Target, NEW q \in 1 .. Body
      PROVE  sent[i][x][q] \in Nat /\ sent'[i][x][q] \in Nat
  <2>1. sent[i][x] \in [1 .. Body -> Nat] /\ sent'[i][x] \in [1 .. Body -> Nat]
    BY <1>1
  <2> QED
    BY <2>1
<1>3. published <= published'
  BY <1>1
<1> QED
  BY <1>1, <1>2, <1>3 DEF TaskGrows, Grows

\* A note stays true.
LEMMA GotGrows ==
  ASSUME Grows, NEW i \in Id, NEW x \in Target, NEW all, NEW n, Got(i, x, all, n)
  PROVE  Got(i, x, all, n)'
<1>1. ASSUME NEW q \in 1 .. Body, q + Prefix(x, all) <= n PROVE sent'[i][x][q] > 0
  <2>1. /\ sent[i][x][q] > 0 /\ sent[i][x][q] \in Nat /\ sent'[i][x][q] \in Nat
        /\ sent[i][x][q] <= sent'[i][x][q]
    BY <1>1 DEF Got, Grows
  <2> QED
    BY <2>1
<1> QED
  BY <1>1 DEF Got

\* A next part that is noted stays true.
LEMMA TrueGrows ==
  ASSUME Grows, NEW i \in Id, i <= published, NEW x \in Target, NEW fp, NEW n, True(i, x, fp, n)
  PROVE  True(i, x, fp, n)'
<1>1. n = Done => x \notin owed'[i]
  BY DEF True, Grows
<1>2. fp # None => Got(i, x, fp, n)'
  BY GotGrows DEF True
<1> QED
  BY <1>1, <1>2 DEF True

\* So does a pending tweet.
LEMMA PendGrows == ASSUME Grows, NEW p \in Pending \cup {None}, PendTrue(p) PROVE PendTrue(p)'
<1>1. CASE p = None
  BY <1>1 DEF PendTrue
<1>2. CASE p # None
  <2>1. p.id \in Id /\ p.at \in Progress /\ p.id <= published
    BY <1>2 DEF Pending, PendTrue
  <2>2. p.id <= published'
    BY <2>1, PartsType DEF Grows, Id
  <2>3. DOMAIN p.at \subseteq Target
    <3>1. PICK at : at = p.at
      OBVIOUS
    <3>2. DOMAIN at \subseteq Target
      BY <2>1, <3>1, ProgressIs
    <3> QED
      BY <3>1, <3>2
  <2>4. ASSUME NEW x \in DOMAIN p.at PROVE True(p.id, x, p.fp, p.at[x])'
    <3>1. PICK i, fp, n : i = p.id /\ fp = p.fp /\ n = p.at[x]
      OBVIOUS
    <3>2. i \in Id /\ i <= published /\ x \in Target /\ True(i, x, fp, n)
      BY <1>2, <2>1, <2>3, <3>1 DEF PendTrue
    <3>3. True(i, x, fp, n)'
      BY <3>2, TrueGrows
    <3> QED
      BY <3>1, <3>3
  <2> QED
    BY <2>2, <2>4 DEF PendTrue
<1> QED
  BY <1>1, <1>2

\* So does a state: that of the process, the row, or a copy.
LEMMA StateGrows == ASSUME Grows, NEW s \in State, StateTrue(s) PROVE StateTrue(s)'
<1>1. PICK p : p = s.pend
  OBVIOUS
<1>2. p \in Pending \cup {None} /\ PendTrue(p) /\ s.last \in Nat /\ s.last <= published
  BY <1>1, PartsType DEF State, StateTrue
<1>3. PendTrue(p)'
  BY <1>2, PendGrows
<1>4. s.last <= published'
  BY <1>2 DEF Grows
<1> QED
  BY <1>1, <1>3, <1>4 DEF StateTrue

\* A coroutine that does nothing in a step.
Rests(u) ==
  /\ task'[u].pc = task[u].pc /\ task'[u].then = task[u].then /\ task'[u].ids = task[u].ids
  /\ task'[u].gen = task[u].gen /\ task'[u].id = task[u].id /\ task'[u].all = task[u].all
  /\ task'[u].done = task[u].done /\ task'[u].queue = task[u].queue /\ task'[u].to = task[u].to
  /\ task'[u].n = task[u].n /\ task'[u].out = task[u].out /\ task'[u].got = task[u].got
  /\ task'[u].cap = task[u].cap

\* While one task takes a step the others rest.
LEMMA OthersRest == ASSUME TypeInv, NEW t \in Task, Moves(t) \/ End(t)
                    PROVE  \A u \in Task : u # t => Rests(u)
<1> TAKE u \in Task
<1> HAVE u # t
<1>1. task[u] \in TaskRec /\ task \in [Task -> TaskRec]
  BY DEF TypeInv, TypeOK
<1>2. CASE Moves(t)
  <2>1. task'[u] = task[u]
    BY <1>1, <1>2 DEF Moves
  <2> QED
    BY <2>1 DEF Rests
<1>3. CASE End(t)
  <2>1. task'[u] = [task[u] EXCEPT !.ahead = @ \ {t}]
    BY <1>3 DEF End
  <2> QED
    BY <1>1, <2>1 DEF Rests, TaskRec
<1> QED
  BY <1>2, <1>3

\* The notes of a task that rests stay true.
LEMMA RestTrue == ASSUME TypeInv, Grows, NEW u \in Task, TaskTrue(u), Rests(u)
                  PROVE  TaskTrue(u)'
<1>1. /\ task[u] \in TaskRec /\ task[u].id <= published /\ task[u].id \in Nat
      /\ task[u].ids \cup task[u].got \subseteq 1 .. published
  BY PartsType DEF TypeInv, TypeOK, TaskTrue, TaskRec
<1>2. task'[u].id <= published' /\ task'[u].ids \cup task'[u].got \subseteq 1 .. published'
  BY <1>1 DEF Rests, Grows
<1>3. PICK i, all, done, queue, out, to, n, cap :
        /\ i = task[u].id /\ all = task[u].all /\ done = task[u].done /\ queue = task[u].queue
        /\ out = task[u].out /\ to = task[u].to /\ n = task[u].n /\ cap = task[u].cap
  OBVIOUS
<1>4. /\ DOMAIN queue \subseteq Target /\ DOMAIN out \subseteq Target
      /\ cap \in State /\ done \subseteq Target
  BY <1>1, <1>3, ProgressIs DEF TaskRec
<1>5. Begun(u) => i \in Id /\ Begun(u)' = Begun(u)
  BY <1>3 DEF TypeInv, TaskPlan, Attempt, Begun, Sending, Turn, Storing, Rests
<1>6. Begun(u)' => Begun(u)
  BY DEF Begun, Sending, Turn, Storing, Rests
<1>7. (Sending(u)' => Sending(u)) /\ (Turn(u)' => Turn(u)) /\ (Sending(u) => Begun(u))
      /\ (Turn(u) => Begun(u))
  BY DEF Begun, Sending, Turn, Storing, Rests
<1>8. ASSUME Begun(u)'
      PROVE  /\ \A x \in done : x \notin owed'[i]
             /\ \A x \in DOMAIN queue : Got(i, x, all, queue[x])'
  <2>1. i \in Id /\ i <= published
    BY <1>1, <1>3, <1>5, <1>6, <1>8
  <2>2. \A x \in done : x \notin owed'[i]
    BY <1>3, <1>6, <1>8, <2>1 DEF TaskTrue, Grows
  <2>3. ASSUME NEW x \in DOMAIN queue PROVE Got(i, x, all, queue[x])'
    <3>1. PICK m : m = queue[x]
      OBVIOUS
    <3>2. Got(i, x, all, m) /\ x \in Target
      BY <1>3, <1>4, <1>6, <1>8, <3>1 DEF TaskTrue
    <3>3. Got(i, x, all, m)'
      BY <2>1, <3>2, GotGrows
    <3> QED
      BY <3>1, <3>3
  <2> QED
    BY <2>2, <2>3
<1>9. ASSUME Sending(u)', NEW x \in DOMAIN out PROVE True(i, x, all, out[x])'
  <2>1. i \in Id /\ i <= published
    BY <1>1, <1>3, <1>5, <1>7, <1>9
  <2>2. PICK m : m = out[x]
    OBVIOUS
  <2>3. True(i, x, all, m) /\ x \in Target
    BY <1>3, <1>4, <1>7, <1>9, <2>2 DEF TaskTrue
  <2>4. True(i, x, all, m)'
    BY <2>1, <2>3, TrueGrows
  <2> QED
    BY <2>2, <2>4
<1>10. ASSUME Turn(u)' PROVE Got(i, to, all, n)'
  <2>1. i \in Id /\ to \in Target /\ Got(i, to, all, n)
    BY <1>3, <1>5, <1>7, <1>10, TurnIs DEF TaskTrue
  <2> QED
    BY <2>1, GotGrows
<1>11. task'[u].pc = "commit" => StateTrue(cap)'
  BY <1>3, <1>4, StateGrows DEF TaskTrue, Rests
<1> QED
  BY <1>2, <1>3, <1>8, <1>9, <1>10, <1>11 DEF TaskTrue, Rests

\* A task takes a step, the others and the checks rest.
LEMMA NoteTask ==
  ASSUME TypeInv, TypeInv', NoteInv, NEW t \in Task, TaskWorld, TaskGrows,
         Moves(t) \/ End(t), Lacks', StateTrue(mem)', (row' # None => StateTrue(row)'),
         TaskTrue(t)'
  PROVE  NoteInv'
<1>1. Grows
  BY GrowsIs DEF TaskWorld
<1>2. \A u \in Task : TaskTrue(u)'
  <2> TAKE u \in Task
  <2>1. u # t => Rests(u)
    BY OthersRest
  <2> QED
    BY <1>1, <2>1, RestTrue DEF NoteInv
<1>5. chk' = chk /\ published' = published
  BY DEF TaskWorld
<1>3. ASSUME NEW c \in Check PROVE chk'[c].ids \subseteq 1 .. published'
  <2>1. chk[c].ids \subseteq 1 .. published
    BY DEF NoteInv
  <2> QED
    BY <1>5, <2>1
<1>4. ASSUME NEW c \in Check, chk'[c].pc = "commit" PROVE StateTrue(chk[c].cap)'
  <2>1. PICK s : s = chk[c].cap
    OBVIOUS
  <2>2. chk[c] \in CheckRec /\ StateTrue(chk[c].cap)
    BY <1>4, <1>5 DEF NoteInv, TypeInv, TypeOK
  <2>4. s \in State /\ chk'[c].cap = s /\ StateTrue(s)
    BY <1>5, <2>1, <2>2 DEF CheckRec
  <2>3. StateTrue(s)'
    BY <1>1, <2>4, StateGrows
  <2> QED
    BY <2>4, <2>3
<1> QED
  BY <1>2, <1>3, <1>4 DEF NoteInv

\* A task that is over has no notes.
LEMMA EndTrue == ASSUME TypeInv, NEW t \in Task, published' = published, End(t) PROVE TaskTrue(t)'
<1>1. task'[t] = IdleTask /\ 0 <= published'
  BY PartsType DEF End, TypeInv, TypeOK
<1> QED
  BY <1>1 DEF TaskTrue, IdleTask, Begun, Sending, Turn, Storing

\* Memory and row stay as true as they were.
LEMMA MemStays == ASSUME TypeInv, NoteInv, Grows, UNCHANGED mem PROVE StateTrue(mem)'
<1>1. PICK s : s = mem
  OBVIOUS
<1>2. mem' = s /\ s \in State /\ StateTrue(s)
  BY <1>1 DEF TypeInv, TypeOK, NoteInv
<1>3. StateTrue(s)'
  BY <1>2, StateGrows
<1> QED
  BY <1>2, <1>3

\* The same for the row.
LEMMA RowStays == ASSUME TypeInv, NoteInv, Grows, UNCHANGED row PROVE row' # None => StateTrue(row)'
<1> HAVE row' # None
<1>1. PICK s : s = row
  OBVIOUS
<1>2. row' = s /\ s \in State /\ StateTrue(s)
  BY <1>1 DEF TypeInv, TypeOK, NoteInv
<1>3. StateTrue(s)'
  BY <1>2, StateGrows
<1> QED
  BY <1>2, <1>3

\* Who is owed a tweet still lacks a part of it, when no part was sent.
LEMMA LacksStays ==
  ASSUME NoteInv, UNCHANGED <<sent, published>>, \A i \in Id : owed'[i] \subseteq owed[i]
  PROVE  Lacks'
BY DEF NoteInv, Lacks

\* The columns of two true states make up a true one.
LEMMA MergedTrue ==
  ASSUME NEW old, NEW new, NEW now, StateTrue(new), now # None => StateTrue(now)
  PROVE  Merged(old, new, now) # None => StateTrue(Merged(old, new, now))
<1>1. CASE old = None
  BY <1>1 DEF Merged
<1>2. CASE old # None /\ now # None
  <2>1. PICK l, i, p : /\ l = Column(old.last, new.last, now.last)
                       /\ i = Column(old.init, new.init, now.init)
                       /\ p = Column(old.pend, new.pend, now.pend)
    OBVIOUS
  <2>2. l \in {new.last, now.last} /\ p \in {new.pend, now.pend}
    BY <2>1 DEF Column
  <2>3. Merged(old, new, now) = [last |-> l, init |-> i, pend |-> p]
    BY <1>2, <2>1 DEF Merged
  <2> QED
    BY <1>2, <2>2, <2>3 DEF StateTrue
<1>3. CASE old # None /\ now = None
  BY <1>3 DEF Merged
<1> QED
  BY <1>1, <1>2, <1>3

\* The tweet in turn.
LEMMA InTurnIs == ASSUME TypeInv, NoteInv, NEW t \in Task, Attempt(t)
                  PROVE  /\ task[t].id \in Id /\ task[t].id \in Nat /\ task[t].id <= published
                         /\ task[t].ids \cup task[t].got \subseteq 1 .. published
                         /\ task[t] \in TaskRec
                         /\ task[t].pc \notin {"idle", "next"} /\ task[t].ahead = {} /\ up
<1>1. task[t].id \in Id /\ task[t].pc \notin {"idle", "next"}
  BY DEF TypeInv, TaskPlan, Attempt, Begun, Sending, Turn, Storing
<1> QED
  BY <1>1, HasLock DEF Id, NoteInv, TaskTrue, TypeInv, TypeOK

\* The tweet is passed.
LEMMA PassesTrue ==
  ASSUME TypeInv, NoteInv, NEW t \in Task, Attempt(t), PassesOn(t), TaskWorld
  PROVE  StateTrue(mem)' /\ TaskTrue(t)'
<1>1. PICK i : i = task[t].id
  OBVIOUS
<1>2. i \in Id /\ i <= published /\ task[t].ids \cup task[t].got \subseteq 1 .. published
  BY <1>1, InTurnIs
<1>3. mem' = Passed(i) /\ published' = published
  BY <1>1 DEF PassesOn, TaskWorld
<1>4. /\ Passed(i).pend = None
      /\ Passed(i).last = IF i > mem.last THEN i ELSE mem.last
  BY <1>2, PassedIs
<1>5. mem'.pend = None /\ mem'.last <= published'
  BY <1>2, <1>3, <1>4 DEF NoteInv, StateTrue
<1>6. StateTrue(mem)'
  BY <1>5 DEF StateTrue, PendTrue
<1>7. /\ task'[t].id = i /\ task'[t].ids = task[t].ids /\ task'[t].got = task[t].got \cup {i}
      /\ task'[t].pc \in {"persist", "next"} /\ task'[t].then = "next"
  BY <1>1 DEF PassesOn
<1>8. TaskTrue(t)'
  <2>1. task'[t].ids \cup task'[t].got \subseteq 1 .. published'
    BY <1>2, <1>3, <1>7 DEF Id
  <2> QED
    BY <1>2, <1>3, <1>7, <2>1 DEF TaskTrue, Begun, Sending, Turn, Storing
<1> QED
  BY <1>6, <1>8

\* The batch stops.
LEMMA HaltsTrue ==
  ASSUME TypeInv, NoteInv, NEW t \in Task, Attempt(t), Halts(t), TaskWorld
  PROVE  TaskTrue(t)'
<1>1. task[t].id <= published /\ task[t].ids \cup task[t].got \subseteq 1 .. published
  BY InTurnIs
<1> QED
  BY <1>1 DEF TaskTrue, Halts, Begun, Sending, Turn, Storing, TaskWorld

\* Other progress is pending.
LEMMA PendsTrue ==
  ASSUME TypeInv, NoteInv, NEW p, Pends(p), PendTrue(p)', published' = published
  PROVE  StateTrue(mem)'
<1>1. mem' = [mem EXCEPT !.pend = p] /\ mem \in State /\ mem.last <= published
  BY DEF Pends, TypeInv, TypeOK, NoteInv, StateTrue
<1>2. mem'.pend = p /\ mem'.last = mem.last
  BY <1>1 DEF State
<1> QED
  BY <1>1, <1>2 DEF StateTrue

\* The outcome for the target in turn is true.
LEMMA OversTrue ==
  ASSUME TypeInv, TypeInv', NoteInv, Grows, published' = published, NEW t \in Task, Turn(t),
         NEW n, Overs(t, n), NEW i, NEW to, NEW all,
         i = task[t].id, to = task[t].to, all = task[t].all, True(i, to, all, n)'
  PROVE  TaskTrue(t)'
<1>1. /\ Attempt(t) /\ Begun(t) /\ Sending(t) /\ task[t].id \in Id /\ task[t].id <= published
      /\ task[t] \in TaskRec /\ task[t].to \in Target
  BY TurnIs, InTurnIs
<1>2. PICK done, queue, out :
        done = task[t].done /\ queue = task[t].queue /\ out = task[t].out
  OBVIOUS
<1>3. /\ task'[t].id = i /\ task'[t].all = all /\ task'[t].done = done /\ task'[t].queue = queue
      /\ task'[t].pc = "send" /\ task'[t].ids = task[t].ids /\ task'[t].got = task[t].got
      /\ task'[t].out = Outcome(out, to, n)
  BY <1>2 DEF Overs, KeepsTweet
<1>4. /\ DOMAIN queue \subseteq Target /\ DOMAIN out \subseteq Target /\ done \subseteq Target
  BY <1>1, <1>2, ProgressIs DEF TaskRec
<1>5. /\ \A x \in done : x \notin owed[i]
      /\ \A x \in DOMAIN queue : Got(i, x, all, queue[x])
      /\ \A x \in DOMAIN out : True(i, x, all, out[x])
  BY <1>1, <1>2 DEF NoteInv, TaskTrue
<1>6. \A x \in done : x \notin owed'[i]
  BY <1>1, <1>2, <1>5 DEF Grows
<1>7. ASSUME NEW x \in DOMAIN queue PROVE Got(i, x, all, queue[x])'
  <2>1. PICK m : m = queue[x]
    OBVIOUS
  <2>2. Got(i, x, all, m)'
    BY <1>1, <1>2, <1>4, <1>5, <2>1, GotGrows
  <2> QED
    BY <2>1, <2>2
<1>8. PICK o : o = Outcome(out, to, n)
  OBVIOUS
<1>9. DOMAIN o = DOMAIN out \cup {to} /\ \A x \in DOMAIN o : o[x] = IF x = to THEN n ELSE out[x]
  BY <1>8 DEF Outcome
<1>10. ASSUME NEW x \in DOMAIN o PROVE True(i, x, all, o[x])'
  <2>1. PICK m : m = o[x]
    OBVIOUS
  <2>2. CASE x = to
    BY <1>2, <1>9, <2>1, <2>2
  <2>3. CASE x # to
    <3>1. x \in DOMAIN out /\ m = out[x] /\ x \in Target
      BY <1>4, <1>9, <2>1, <2>3
    <3>2. True(i, x, all, m)
      BY <1>5, <3>1
    <3>3. True(i, x, all, m)'
      BY <1>1, <1>2, <3>1, <3>2, TrueGrows
    <3> QED
      BY <2>1, <3>3
  <2> QED
    BY <2>2, <2>3
<1>11. i <= published' /\ task'[t].ids \cup task'[t].got \subseteq 1 .. published'
  BY <1>1, <1>2, <1>3, InTurnIs
<1> QED
  BY <1>3, <1>6, <1>7, <1>8, <1>10, <1>11 DEF TaskTrue, Begun, Sending, Turn, Storing

\* A target that failed gets the rest later.
LEMMA PartTrue ==
  ASSUME TypeInv, NoteInv, Grows, NEW t \in Task, Turn(t), NEW i, NEW x, NEW all, NEW n,
         i = task[t].id, x = task[t].to, all = task[t].all, n = task[t].n
  PROVE  True(i, x, all, n)'
<1>2. i \in Id /\ x \in Target /\ 0 <= n /\ n \in Int /\ Got(i, x, all, n)
  BY TurnIs, PartsType DEF NoteInv, TaskTrue, Done
<1>3. Got(i, x, all, n)'
  BY <1>2, GotGrows
<1> QED
  BY <1>2, <1>3 DEF True, Done

\* Who got all parts is not owed the tweet.
LEMMA AllParts ==
  ASSUME TypeInv, NEW i \in Id, NEW x \in Target, NEW all \in BOOLEAN, Lacks,
         Got(i, x, all, Parts(x, all))
  PROVE  x \notin owed[i]
<1>1. ASSUME NEW q \in 1 .. Body PROVE sent[i][x][q] # 0
  <2>1. q + Prefix(x, all) <= Parts(x, all)
    BY PartsType DEF Parts
  <2>2. sent[i][x][q] > 0
    BY <2>1 DEF Got
  <2> QED
    BY <2>2
<1> QED
  BY <1>1 DEF Lacks

\* Steps that store something, or fail to.
LEMMA NoteRaised ==
  ASSUME TypeInv, TypeInv', NoteInv, NEW t \in Task, TaskWorld, UNCHANGED <<mem, sent, owed>>,
         \/ Turn(t) /\ Overs(t, task[t].n)
         \/ End(t),
         row' # None => StateTrue(row)'
  PROVE  NoteInv'
<1>1. TaskGrows
  BY SentSame
<1>2. Grows /\ published' = published
  BY <1>1, GrowsIs DEF TaskWorld
<1>3. CASE Turn(t) /\ Overs(t, task[t].n)
  <2>1. PICK i, x, all, n : i = task[t].id /\ x = task[t].to /\ all = task[t].all /\ n = task[t].n
    OBVIOUS
  <2>2. Overs(t, n) /\ True(i, x, all, n)'
    BY <1>2, <1>3, <2>1, PartTrue
  <2>3. TaskTrue(t)'
    BY <1>2, <1>3, <2>1, <2>2, OversTrue
  <2> QED
    BY <1>1, <1>2, <1>3, <2>3, NoteTask, MemStays, LacksStays DEF Overs
<1>4. CASE End(t)
  BY <1>1, <1>2, <1>4, NoteTask, MemStays, LacksStays, EndTrue
<1> QED
  BY <1>3, <1>4

\* An error of the database.
LEMMA NoteTaskDbError ==
  ASSUME TypeInv, NoteInv, NEW t \in Task, TaskDbError(t) PROVE NoteInv'
<1>1. /\ TypeInv' /\ TaskWorld /\ UNCHANGED <<mem, row, sent, owed>>
      /\ ((Turn(t) /\ Overs(t, task[t].n)) \/ End(t))
  BY TaskDbErrorType
<1>2. row' # None => StateTrue(row)'
  BY <1>1, SentSame, GrowsIs, RowStays DEF TaskWorld
<1> QED
  BY <1>1, <1>2, NoteRaised

\* What only moves the task on: its notes are those of before.
Follows(t) ==
  /\ KeepsTweet(t) /\ task'[t].queue = task[t].queue /\ task'[t].to = task[t].to
  /\ task'[t].n = task[t].n /\ task'[t].out = task[t].out
  /\ (Begun(t)' => Begun(t)) /\ (Sending(t)' => Sending(t)) /\ (Turn(t)' => Turn(t))

\* The notes that it keeps stay true.
LEMMA FollowsTrue ==
  ASSUME TypeInv, NoteInv, NEW t \in Task, Moves(t), Follows(t),
         UNCHANGED <<sent, owed, published>>, task'[t].pc = "commit" => StateTrue(task[t].cap)'
  PROVE  TaskTrue(t)'
<1>1. TaskTrue(t)
  BY DEF NoteInv
<1>2. PICK i, all, done, queue, out, to, n, cap :
        /\ i = task[t].id /\ all = task[t].all /\ done = task[t].done /\ queue = task[t].queue
        /\ out = task[t].out /\ to = task[t].to /\ n = task[t].n /\ cap = task[t].cap
  OBVIOUS
<1>3. /\ task'[t].id = i /\ task'[t].all = all /\ task'[t].done = done /\ task'[t].queue = queue
      /\ task'[t].ids = task[t].ids /\ task'[t].out = out /\ task'[t].to = to /\ task'[t].n = n
      /\ task'[t].got = task[t].got
  BY <1>2 DEF Follows, KeepsTweet
<1>4. /\ i <= published' /\ task'[t].ids \cup task'[t].got \subseteq 1 .. published'
  BY <1>1, <1>2, <1>3 DEF TaskTrue
<1>5. Begun(t)' => /\ \A x \in done : x \notin owed'[i]
                   /\ \A x \in DOMAIN queue : Got(i, x, all, queue[x])'
  BY <1>1, <1>2 DEF TaskTrue, Follows, Got
<1>6. Sending(t)' => \A x \in DOMAIN out : True(i, x, all, out[x])'
  BY <1>1, <1>2 DEF TaskTrue, Follows, Got, True
<1>7. Turn(t)' => Got(i, to, all, n)'
  BY <1>1, <1>2 DEF TaskTrue, Follows, Got
<1> QED
  BY <1>2, <1>3, <1>4, <1>5, <1>6, <1>7 DEF TaskTrue

\* Nothing but the task changes.
LEMMA NoteMoves ==
  ASSUME TypeInv, TypeInv', NoteInv, NEW t \in Task, Moves(t) \/ End(t), TaskWorld,
         UNCHANGED <<sent, owed>>, StateTrue(mem)', row' # None => StateTrue(row)', TaskTrue(t)'
  PROVE  NoteInv'
<1>1. TaskGrows /\ Lacks'
  BY SentSame, LacksStays DEF TaskWorld
<1> QED
  BY <1>1, NoteTask

\* Nor does the memory change.
LEMMA NoteSame ==
  ASSUME TypeInv, TypeInv', NoteInv, NEW t \in Task, Moves(t) \/ End(t), TaskWorld,
         UNCHANGED <<mem, row, sent, owed>>, TaskTrue(t)'
  PROVE  NoteInv'
<1>1. Grows
  BY SentSame, GrowsIs DEF TaskWorld
<1> QED
  BY <1>1, NoteMoves, MemStays, RowStays

\* What is stored is unchanged but for the memory.
LEMMA RowOfTask == ASSUME TypeInv, TypeInv', NoteInv, TaskWorld, TaskGrows, UNCHANGED row
                   PROVE  row' # None => StateTrue(row)'
BY GrowsIs, RowStays DEF TaskWorld

\* The next tweet of the batch was published.
LEMMA NoteNextTweet == ASSUME TypeInv, NoteInv, NEW t \in Task, NextTweet(t) PROVE NoteInv'
<1>1. /\ TypeInv' /\ task'[t].id = Min(Todo(t)) /\ Moves(t) /\ TaskWorld
      /\ task'[t].pc = "media" /\ task'[t].ids = {j \in task[t].ids : j > Min(Todo(t))}
  BY NextTweetType
<1>2. UNCHANGED <<mem, row, sent, owed>> /\ Todo(t) # {}
  BY DEF NextTweet, db, hist
<1>3. /\ task[t].ids \cup task[t].got \subseteq 1 .. published /\ published' = published
      /\ task[t] \in TaskRec
  BY <1>1 DEF NoteInv, TaskTrue, TaskWorld, TypeInv, TypeOK
<1>4. PICK i : i = Min(Todo(t))
  OBVIOUS
<1>5. i \in task[t].ids
  <2>1. Todo(t) \in SUBSET Id
    BY <1>3 DEF Todo, TaskRec
  <2> QED
    BY <1>2, <1>4, <2>1, MinTweet DEF Todo
<1>6. TaskTrue(t)'
  <2>1. task'[t].id = i /\ task'[t].pc = "media" /\ task'[t].ids \subseteq task[t].ids
        /\ task'[t].got = task[t].got
    BY <1>1, <1>4, NextTweetType
  <2>2. i <= published' /\ task'[t].ids \cup task'[t].got \subseteq 1 .. published'
    BY <1>3, <1>5, <2>1
  <2> QED
    BY <2>1, <2>2 DEF TaskTrue, Begun, Sending, Turn, Storing
<1> QED
  BY <1>1, <1>2, <1>6, NoteSame

\* The cursor after the batch is a tweet of it.
LEMMA NoteFinish == ASSUME TypeInv, NoteInv, NEW t \in Task, Finish(t) PROVE NoteInv'
<1>1. UNCHANGED <<row, sent, owed>> /\ TaskGrows /\ TypeInv' /\ TaskWorld
  <2>1. UNCHANGED <<row, sent, owed>>
    BY DEF Finish, db, hist
  <2> QED
    BY <2>1, SentSame, FinishType
<1>2. CASE /\ Live(t) /\ task[t].got # {} /\ mem' = [mem EXCEPT !.last = Max(task[t].got)]
           /\ Moves(t) /\ task'[t].pc = "persist" /\ task'[t].then = "end"
           /\ Like(task'[t], task[t])
  <2>1. PICK g, p : g = Max(task[t].got) /\ p = mem.pend
    OBVIOUS
  <2>2. g \in task[t].got
    BY <1>2, <2>1, MaxTweet DEF TypeInv, TypeOK, TaskRec
  <2>3. g <= published /\ published' = published
    BY <1>1, <1>2, <2>2 DEF NoteInv, TaskTrue, TaskWorld
  <2>4. mem'.last = g /\ mem'.pend = p /\ p \in Pending \cup {None} /\ PendTrue(p)
    BY <1>2, <2>1 DEF TypeInv, TypeOK, State, NoteInv, StateTrue
  <2>5. PendTrue(p)'
    BY <1>1, <2>3, <2>4, GrowsIs, PendGrows
  <2>6. StateTrue(mem)'
    BY <2>3, <2>4, <2>5 DEF StateTrue
  <2>7. TaskTrue(t)'
    BY <1>2, <2>3 DEF NoteInv, TaskTrue, Like, Begun, Sending, Turn, Storing
  <2> QED
    BY <1>1, <1>2, <2>6, <2>7, NoteMoves, RowOfTask
<1>3. CASE End(t) /\ UNCHANGED mem
  BY <1>1, <1>3, NoteSame, EndTrue DEF TaskWorld
<1> QED
  BY <1>2, <1>3, FinishType

\* The task is over.
LEMMA NoteEndTask == ASSUME TypeInv, NoteInv, NEW t \in Task, EndTask(t) PROVE NoteInv'
<1>1. TypeInv' /\ TaskWorld /\ End(t) /\ UNCHANGED <<mem, row, owed>>
  BY EndTaskType
<1>2. UNCHANGED sent
  BY DEF EndTask, hist
<1> QED
  BY <1>1, <1>2, NoteSame, EndTrue DEF TaskWorld

\* What the task copies is as true as memory.
LEMMA NoteTaskRead == ASSUME TypeInv, NoteInv, NEW t \in Task, TaskRead(t) PROVE NoteInv'
<1>1. /\ TypeInv' /\ TaskWorld /\ Moves(t) /\ UNCHANGED <<mem, row, sent, owed>>
      /\ task'[t].pc = "commit" /\ task'[t].cap = mem /\ task'[t].then = task[t].then
      /\ task'[t].ids = task[t].ids /\ task'[t].id = task[t].id /\ task'[t].all = task[t].all
      /\ task'[t].done = task[t].done /\ task'[t].queue = task[t].queue
      /\ task'[t].to = task[t].to /\ task'[t].n = task[t].n /\ task'[t].out = task[t].out
      /\ task'[t].got = task[t].got
  BY TaskReadType
<1>2. task[t].pc = "persist"
  BY DEF TaskRead, At
<1>3. StateTrue(mem)'
  BY <1>1, SentSame, GrowsIs, MemStays DEF TaskWorld
<1>4. StateTrue(task[t].cap)'
  BY <1>1, <1>3 DEF StateTrue
<1>5. Follows(t)
  BY <1>1, <1>2 DEF Follows, KeepsTweet, Begun, Sending, Turn, Storing
<1>6. TaskTrue(t)'
  BY <1>1, <1>4, <1>5, FollowsTrue DEF TaskWorld
<1> QED
  BY <1>1, <1>6, NoteSame

\* What it writes is as true as its copy, and as the row that it met.
LEMMA NoteTaskCommit == ASSUME TypeInv, NoteInv, NEW t \in Task, TaskCommit(t) PROVE NoteInv'
<1>1. /\ TypeInv' /\ TaskWorld /\ UNCHANGED <<mem, sent, owed>> /\ task[t].pc = "commit"
  BY TaskCommitType DEF TaskCommit, At
<1>2. TaskGrows /\ Grows
  BY <1>1, SentSame, GrowsIs DEF TaskWorld
<1>3. CASE ((Turn(t) /\ Overs(t, task[t].n)) \/ End(t)) /\ UNCHANGED row
  BY <1>1, <1>2, <1>3, RowOfTask, NoteRaised
<1>4. CASE Thens(t) /\ row' = Merged(task[t].base, task[t].cap, row)
  <2>1. PICK old, new, now : old = task[t].base /\ new = task[t].cap /\ now = row
    OBVIOUS
  <2>2. /\ old \in State \cup {None} /\ new \in State /\ now \in State \cup {None}
        /\ StateTrue(new) /\ (now # None => StateTrue(now))
    BY <1>1, <2>1 DEF TypeInv, TypeOK, TaskRec, NoteInv, TaskTrue
  <2>3. PICK w : w = Merged(old, new, now)
    OBVIOUS
  <2>4. row' = w /\ (w # None => StateTrue(w))
    BY <1>4, <2>1, <2>2, <2>3, MergedTrue
  <2>5. row' # None => StateTrue(row)'
    <3> HAVE row' # None
    <3>1. w \in State /\ StateTrue(w)
      BY <1>1, <2>4 DEF TypeInv, TypeOK
    <3>2. StateTrue(w)'
      BY <1>2, <3>1, StateGrows
    <3> QED
      BY <2>4, <3>2
  <2>6. Follows(t) /\ Moves(t) /\ task'[t].pc # "commit"
    <3>1. /\ task'[t].pc = task[t].then /\ KeepsTweet(t) /\ Moves(t)
          /\ task'[t].queue = task[t].queue /\ task'[t].to = task[t].to
          /\ task'[t].n = task[t].n /\ task'[t].out = task[t].out
      BY <1>4 DEF Thens
    <3>2. task[t].then \in {"next", "ready", "part", "stop", "end"}
      BY DEF TypeInv, TypeOK, TaskRec
    <3> QED
      BY <1>1, <3>1, <3>2 DEF Follows, Begun, Sending, Turn, Storing
  <2>7. TaskTrue(t)'
    BY <1>1, <2>6, FollowsTrue DEF TaskWorld
  <2> QED
    BY <1>1, <1>2, <2>5, <2>6, <2>7, NoteMoves, MemStays
<1> QED
  BY <1>3, <1>4, TaskCommitType

\* The progress that a waiting tweet has is none.
LEMMA WaitingTrue ==
  ASSUME TypeInv, NoteInv, NEW t \in Task, Attempt(t), published' = published,
         NEW p, p = Waiting(t)
  PROVE  PendTrue(p)'
<1>1. PICK i, S : i = task[t].id /\ S = conf.to
  OBVIOUS
<1>2. i <= published /\ p = [id |-> i, fp |-> None, at |-> [x \in S |-> 0]]
  BY <1>1, InTurnIs DEF Waiting
<1>3. p.id = i /\ p.fp = None /\ DOMAIN p.at = S /\ \A x \in S : p.at[x] = 0
  BY <1>2
<1> QED
  BY <1>2, <1>3 DEF PendTrue, True, Done

\* The tweet in turn is given up, or it is passed.
LEMMA NotePassed ==
  ASSUME TypeInv, TypeInv', NoteInv, NEW t \in Task, Attempt(t), PassesOn(t), TaskWorld,
         UNCHANGED <<row, sent>>, owed' = owed \/ owed' = [owed EXCEPT ![task[t].id] = {}]
  PROVE  NoteInv'
<1>1. PICK i : i = task[t].id
  OBVIOUS
<1>2. \A j \in Id : owed'[j] \subseteq owed[j]
  BY <1>1 DEF TypeInv, TypeOK
<1>3. TaskGrows /\ Lacks'
  BY <1>2, SentSame, LacksStays DEF TaskWorld
<1>4. StateTrue(mem)' /\ TaskTrue(t)'
  BY PassesTrue
<1>5. row' # None => StateTrue(row)'
  BY <1>3, RowOfTask
<1> QED
  BY <1>3, <1>4, <1>5, NoteTask DEF PassesOn

\* The batch stops, with p pending.
LEMMA NoteHalted ==
  ASSUME TypeInv, TypeInv', NoteInv, NEW t \in Task, Attempt(t), Halts(t), TaskWorld,
         UNCHANGED <<row, sent, owed>>,
         \/ mem' = mem
         \/ \E p : Pends(p) /\ PendTrue(p)'
  PROVE  NoteInv'
<1>1. Grows /\ TaskGrows
  BY SentSame, GrowsIs DEF TaskWorld
<1>2. TaskTrue(t)'
  BY HaltsTrue
<1>3. StateTrue(mem)'
  BY <1>1, MemStays, PendsTrue DEF TaskWorld
<1>4. row' # None => StateTrue(row)'
  BY <1>1, RowOfTask
<1> QED
  BY <1>2, <1>3, <1>4, NoteMoves DEF Halts

\* Media are missing: the progress that was noted is kept.
LEMMA NoteMediaMissing == ASSUME TypeInv, NoteInv, NEW t \in Task, MediaMissing(t) PROVE NoteInv'
<1>1. /\ TypeInv' /\ TaskWorld /\ UNCHANGED <<row, sent>> /\ Attempt(t)
  BY MediaMissingType DEF Attempt
<1>2. CASE PassesOn(t) /\ owed' = [owed EXCEPT ![task[t].id] = {}]
  BY <1>1, <1>2, NotePassed
<1>3. CASE Halts(t) /\ UNCHANGED <<mem, owed>>
  BY <1>1, <1>3, NoteHalted
<1>4. CASE Halts(t) /\ Pends(Waiting(t)) /\ UNCHANGED owed
  <2>1. PICK p : p = Waiting(t)
    OBVIOUS
  <2>2. PendTrue(p)'
    BY <1>1, <2>1, WaitingTrue DEF TaskWorld
  <2> QED
    BY <1>1, <1>4, <2>1, <2>2, NoteHalted
<1> QED
  BY <1>2, <1>3, <1>4, MediaMissingType

\* Who is noted as served is not owed the tweet; the offsets in the queue are true.
LEMMA QueuedTrue ==
  ASSUME TypeInv, NoteInv, NEW i \in Id, NEW all, all = conf.all
  PROVE  /\ \A x \in Served(i) : x \notin owed[i]
         /\ \A x \in DOMAIN Queued(i) : Got(i, x, all, Queued(i)[x])
<1>1. PICK q : q = Queued(i)
  OBVIOUS
<1>2. /\ conf.all \in BOOLEAN /\ conf.to \in SUBSET Target /\ PendTrue(mem.pend)
  BY ConfigIs DEF TypeInv, TypeOK, NoteInv, StateTrue
<1>3. ASSUME NEW x \in Served(i) PROVE x \notin owed[i]
  BY <1>2 DEF Served, Kept, PendTrue, True
<1>4. ASSUME NEW x \in DOMAIN q PROVE Got(i, x, all, q[x])
  <2>1. x \in Target
    BY <1>1, <1>2, <1>4, QueuedIs
  <2>2. CASE q[x] = 0
    <3>1. PICK n : n = q[x]
      OBVIOUS
    <3>2. \A r \in 1 .. Body : ~(r + Prefix(x, all) <= n)
      BY <2>2, <3>1 DEF Prefix
    <3> QED
      BY <3>1, <3>2 DEF Got
  <2>3. CASE /\ Kept(i) /\ mem.pend.fp = conf.all /\ x \in DOMAIN mem.pend.at
             /\ q[x] = mem.pend.at[x]
    <3>1. PICK n : n = q[x]
      OBVIOUS
    <3>2. True(i, x, all, n) /\ all # None
      BY <1>2, <2>3, <3>1, NoneIs DEF PendTrue, Kept
    <3> QED
      BY <3>1, <3>2 DEF True
  <2> QED
    BY <1>1, <1>4, <2>2, <2>3, QueuedIs
<1> QED
  BY <1>1, <1>3, <1>4

\* A roster of true notes is true.
LEMMA RosterTrue ==
  ASSUME NEW i \in Id, i <= published, NEW all, NEW done \in SUBSET Target, NEW queue \in Progress,
         NEW p, p = [id |-> i, fp |-> all, at |-> Roster(done, queue)],
         \A x \in done : x \notin owed[i],
         \A x \in DOMAIN queue : 0 <= queue[x] /\ Got(i, x, all, queue[x])
  PROVE  PendTrue(p)
<1>1. PICK at : at = Roster(done, queue)
  OBVIOUS
<1>2. /\ DOMAIN at = done \cup DOMAIN queue /\ \A x \in done : at[x] = Done
      /\ \A x \in DOMAIN queue \ done : at[x] = queue[x]
  <2>1. /\ DOMAIN Roster(done, queue) = done \cup DOMAIN queue
        /\ \A x \in done : Roster(done, queue)[x] = Done
        /\ \A x \in DOMAIN queue \ done : Roster(done, queue)[x] = queue[x]
    BY RosterIs
  <2> QED
    BY <1>1, <2>1
<1>3. p.id = i /\ p.fp = all /\ p.at = at
  BY <1>1
<1>4. ASSUME NEW x \in DOMAIN at PROVE True(i, x, all, at[x])
  <2>1. CASE x \in done
    <3>1. PICK n : n = Done
      OBVIOUS
    <3>2. Got(i, x, all, n)
      <4>1. \A r \in 1 .. Body : ~(r + Prefix(x, all) <= n)
        BY <3>1 DEF Prefix, Done
      <4> QED
        BY <4>1 DEF Got
    <3> QED
      BY <1>2, <2>1, <3>1, <3>2 DEF True
  <2>2. CASE x \notin done
    <3>1. PICK n : n = queue[x]
      OBVIOUS
    <3>2. at[x] = n /\ 0 <= n /\ Got(i, x, all, n) /\ n \in Int
      <4>1. x \in DOMAIN queue
        BY <1>2, <1>4, <2>2
      <4>2. queue[x] \in Done .. Body + 1
        BY <4>1, ProgressIs
      <4> QED
        BY <1>2, <2>2, <3>1, <4>1, <4>2, PartsType DEF Done
    <3> QED
      BY <3>2 DEF True, Done
  <2> QED
    BY <2>1, <2>2
<1> QED
  BY <1>3, <1>4 DEF PendTrue

\* A pending tweet stays true while nothing is sent.
LEMMA PendStays == ASSUME NEW p, PendTrue(p), UNCHANGED <<sent, owed, published>>
                   PROVE  PendTrue(p)'
BY DEF PendTrue, True, Got

\* Media are there: the roster is noted.
LEMMA NoteMediaReady ==
  ASSUME TypeInv, NoteInv, NEW t \in Task, MediaReady(t) PROVE NoteInv'
<1>1. /\ TypeInv' /\ TaskWorld /\ UNCHANGED <<row, sent, owed>> /\ Attempt(t)
  BY MediaReadyType DEF Attempt
<1>2. CASE PassesOn(t) /\ conf.to = {} /\ Kept(task[t].id)
  BY <1>1, <1>2, NotePassed
<1>3. CASE Halts(t) /\ (Pends(None) \/ Pends(mem.pend))
  <2>1. PICK p : Pends(p) /\ (p = None \/ p = mem.pend)
    BY <1>3
  <2>2. PendTrue(p)
    BY <2>1 DEF NoteInv, StateTrue, PendTrue
  <2>3. PendTrue(p)'
    BY <1>1, <2>2, PendStays DEF TaskWorld
  <2> QED
    BY <1>1, <1>3, <2>1, <2>3, NoteHalted
<1>4. CASE Begins(t) /\ Pends(Rostered(t)) /\ Live(t)
  <2>1. PICK i, all, done, queue, p :
          /\ i = task[t].id /\ all = conf.all /\ done = Served(i) /\ queue = Queued(i)
          /\ p = [id |-> i, fp |-> all, at |-> Roster(done, queue)]
    OBVIOUS
  <2>2. /\ i \in Id /\ i <= published /\ task[t].ids \cup task[t].got \subseteq 1 .. published
    BY <1>1, <2>1, InTurnIs
  <2>3. /\ task'[t].id = i /\ task'[t].all = all /\ task'[t].done = done
        /\ task'[t].queue = queue /\ Pends(p) /\ Moves(t)
        /\ task'[t].pc = "persist" /\ task'[t].then = "ready"
        /\ task'[t].ids = task[t].ids /\ task'[t].got = task[t].got
    BY <1>4, <2>1 DEF Begins, Rostered
  <2>4. /\ \A x \in done : x \notin owed[i]
        /\ \A x \in DOMAIN queue : Got(i, x, all, queue[x])
    BY <2>1, <2>2, QueuedTrue
  <2>5. /\ done \in SUBSET Target /\ queue \in Progress /\ \A x \in DOMAIN queue : 0 <= queue[x]
    BY <2>1, <2>2, QueuedIs
  <2>6. PendTrue(p)
    BY <2>1, <2>2, <2>4, <2>5, RosterTrue
  <2>7. PendTrue(p)' /\ published' = published
    BY <1>1, <2>6, PendStays DEF TaskWorld
  <2>8. StateTrue(mem)'
    BY <2>3, <2>7, PendsTrue
  <2>9. \A x \in DOMAIN queue : Got(i, x, all, queue[x])'
    BY <1>1, <2>4 DEF Got
  <2>10. TaskTrue(t)'
    BY <1>1, <2>2, <2>3, <2>4, <2>7, <2>9 DEF TaskTrue, Begun, Sending, Turn, Storing
  <2>11. row' # None => StateTrue(row)'
    BY <1>1, SentSame, RowOfTask
  <2> QED
    BY <1>1, <2>3, <2>8, <2>10, <2>11, NoteMoves
<1> QED
  BY <1>2, <1>3, <1>4, MediaReadyType

\* The roster without the targets that left.
LEMMA NoteSendBegin == ASSUME TypeInv, NoteInv, NEW t \in Task, SendBegin(t) PROVE NoteInv'
<1>1. /\ TypeInv' /\ TaskWorld /\ UNCHANGED <<row, sent, owed>> /\ Attempt(t) /\ Begun(t)
  BY SendBeginType DEF Attempt, Begun
<1>2. CASE Halts(t) /\ UNCHANGED mem
  BY <1>1, <1>2, NoteHalted
<1>3. CASE Prepares(t) /\ Pends(Rostered(t)) /\ Live(t)
  <2>1. PICK i, all, done, old, queue, p :
          /\ i = task[t].id /\ all = task[t].all /\ done = task[t].done /\ old = task[t].queue
          /\ queue = task'[t].queue
          /\ p = [id |-> i, fp |-> all, at |-> Roster(done, queue)]
    OBVIOUS
  <2>2. /\ i \in Id /\ i <= published /\ task[t].ids \cup task[t].got \subseteq 1 .. published
        /\ task[t] \in TaskRec /\ TaskPlan(t)
    BY <1>1, <2>1, InTurnIs DEF TypeInv
  <2>3. /\ task'[t].id = i /\ task'[t].all = all /\ task'[t].done = done
        /\ task'[t].queue = queue /\ Pends(p) /\ Moves(t) /\ task'[t].pc = "send"
        /\ task'[t].ids = task[t].ids /\ task'[t].got = task[t].got /\ task'[t].out = NoBody
        /\ task'[t] \in TaskRec
    BY <1>3, <2>1 DEF Prepares, Rostered, KeepsTweet
  <2>4. \A x \in DOMAIN queue : x \in DOMAIN old /\ queue[x] = old[x]
    BY <1>3, <2>1 DEF Prepares
  <2>5. /\ \A x \in done : x \notin owed[i]
        /\ \A x \in DOMAIN old : 0 <= old[x] /\ Got(i, x, all, old[x])
    BY <1>1, <2>1, <2>2 DEF NoteInv, TaskTrue, TaskPlan, QueuePlan
  <2>6. ASSUME NEW x \in DOMAIN queue PROVE 0 <= queue[x] /\ Got(i, x, all, queue[x])
    BY <2>4, <2>5
  <2>7. done \in SUBSET Target /\ queue \in Progress
    BY <2>1, <2>2, <2>3 DEF TaskRec
  <2>8. PendTrue(p)
    BY <2>1, <2>2, <2>5, <2>6, <2>7, RosterTrue
  <2>9. PendTrue(p)' /\ published' = published
    BY <1>1, <2>8, PendStays DEF TaskWorld
  <2>10. StateTrue(mem)'
    BY <2>3, <2>9, PendsTrue
  <2>11. \A x \in DOMAIN queue : Got(i, x, all, queue[x])'
    BY <1>1, <2>6 DEF Got
  <2>12. TaskTrue(t)'
    BY <1>1, <2>2, <2>3, <2>5, <2>9, <2>11 DEF TaskTrue, Begun, Sending, Turn, Storing, NoBody
  <2>13. row' # None => StateTrue(row)'
    BY <1>1, SentSame, RowOfTask
  <2> QED
    BY <1>1, <2>3, <2>10, <2>12, <2>13, NoteMoves
<1> QED
  BY <1>2, <1>3, SendBeginType

\* A target leaves the queue, and may have its turn.
LEMMA LeavesTrue ==
  ASSUME TypeInv, NoteInv, NEW t \in Task, NEW x \in Target, Leaves(t, x), task[t].pc = "send",
         UNCHANGED <<sent, owed, published>>,
         \/ task'[t].pc = "send"
         \/ /\ task'[t].pc = "part" /\ task'[t].to = x /\ x \in DOMAIN task[t].queue
            /\ task'[t].n = task[t].queue[x]
  PROVE  TaskTrue(t)'
<1>1. PICK i, all, done, old, queue, out :
        /\ i = task[t].id /\ all = task[t].all /\ done = task[t].done /\ old = task[t].queue
        /\ queue = task'[t].queue /\ out = task[t].out
  OBVIOUS
<1>2. /\ i <= published /\ task[t].ids \cup task[t].got \subseteq 1 .. published
      /\ \A y \in done : y \notin owed[i]
      /\ \A y \in DOMAIN old : Got(i, y, all, old[y])
      /\ \A y \in DOMAIN out : True(i, y, all, out[y])
  BY <1>1 DEF NoteInv, TaskTrue, Begun, Sending
<1>3. /\ task'[t].id = i /\ task'[t].all = all /\ task'[t].done = done /\ task'[t].out = out
      /\ task'[t].ids = task[t].ids /\ task'[t].got = task[t].got
      /\ \A y \in DOMAIN queue : y \in DOMAIN old /\ queue[y] = old[y]
  BY <1>1 DEF Leaves, KeepsTweet
<1>4. \A y \in DOMAIN queue : Got(i, y, all, queue[y])'
  BY <1>2, <1>3 DEF Got
<1>5. \A y \in DOMAIN out : True(i, y, all, out[y])'
  BY <1>2 DEF True, Got
<1>6. Turn(t)' => task'[t].to = x /\ x \in DOMAIN old /\ task'[t].n = old[x]
  BY <1>1 DEF Turn, Storing
<1>7. Turn(t)' => Got(i, task[t].to, all, task[t].n)'
  BY <1>2, <1>6 DEF Got
<1> QED
  BY <1>1, <1>2, <1>3, <1>4, <1>5, <1>7 DEF TaskTrue

\* A target is skipped.
LEMMA NoteSendSkip ==
  ASSUME TypeInv, NoteInv, NEW t \in Task, NEW x \in Target, SendSkip(t, x) PROVE NoteInv'
<1>1. /\ TypeInv' /\ TaskWorld /\ UNCHANGED <<mem, row, sent, owed>> /\ task[t].pc = "send"
      /\ Leaves(t, x) /\ task'[t].pc = "send"
  BY SendSkipType
<1>2. TaskTrue(t)'
  BY <1>1, LeavesTrue DEF TaskWorld
<1> QED
  BY <1>1, <1>2, NoteSame DEF Leaves

\* A target has its turn, from the part that is noted.
LEMMA NoteSendStart ==
  ASSUME TypeInv, NoteInv, NEW t \in Task, NEW x \in Target, SendStart(t, x) PROVE NoteInv'
<1>1. /\ TypeInv' /\ TaskWorld /\ UNCHANGED <<mem, row, sent, owed>> /\ task[t].pc = "send"
      /\ Leaves(t, x) /\ task'[t].pc = "part" /\ task'[t].to = x
      /\ x \in DOMAIN task[t].queue /\ task'[t].n = task[t].queue[x]
  BY SendStartType
<1>2. TaskTrue(t)'
  BY <1>1, LeavesTrue DEF TaskWorld
<1> QED
  BY <1>1, <1>2, NoteSame DEF Leaves

\* Nothing is wrong with Done for a target that is not owed the tweet.
LEMMA DoneTrue == ASSUME NEW i, NEW x, NEW all, x \notin owed[i] PROVE True(i, x, all, Done)
<1>1. PICK n : n = Done
  OBVIOUS
<1>2. \A q \in 1 .. Body : ~(q + Prefix(x, all) <= n)
  BY <1>1 DEF Prefix, Done
<1> QED
  BY <1>1, <1>2 DEF True, Got

\* The target in turn is done.
LEMMA NoteDone ==
  ASSUME TypeInv, TypeInv', NoteInv, NEW t \in Task, Turn(t), TaskWorld, TaskGrows, Lacks',
         UNCHANGED <<mem, row>>, Overs(t, Done), task[t].to \notin owed'[task[t].id]
  PROVE  NoteInv'
<1>1. Grows /\ published' = published
  BY GrowsIs DEF TaskWorld
<1>2. PICK i, x, all, n : i = task[t].id /\ x = task[t].to /\ all = task[t].all /\ n = Done
  OBVIOUS
<1>3. True(i, x, all, n)' /\ Overs(t, n)
  BY <1>2, DoneTrue DEF True, Got, Prefix, Done
<1>4. TaskTrue(t)'
  BY <1>1, <1>2, <1>3, OversTrue
<1> QED
  BY <1>1, <1>4, NoteTask, MemStays, RowStays DEF Overs

\* All parts are sent, or the next one is, or the target may not get it.
LEMMA NoteSendPart == ASSUME TypeInv, NoteInv, NEW t \in Task, SendPart(t) PROVE NoteInv'
<1>1. /\ TypeInv' /\ TaskWorld /\ UNCHANGED <<mem, row, sent, owed>> /\ task[t].pc = "part"
      /\ Turn(t)
  BY SendPartType DEF Turn
<1>2. TaskGrows /\ Lacks'
  BY <1>1, SentSame, LacksStays DEF TaskWorld
<1>3. CASE task[t].n = Parts(task[t].to, task[t].all) /\ Overs(t, Done)
  <2>1. PICK i, x, all : i = task[t].id /\ x = task[t].to /\ all = task[t].all
    OBVIOUS
  <2>2. i \in Id /\ x \in Target /\ all \in BOOLEAN
    BY <1>1, <2>1, TurnIs
  <2>3. Got(i, x, all, Parts(x, all)) /\ Lacks
    BY <1>1, <1>3, <2>1 DEF NoteInv, TaskTrue
  <2>4. x \notin owed[i]
    BY <2>2, <2>3, AllParts
  <2> QED
    BY <1>1, <1>2, <1>3, <2>1, <2>4, NoteDone
<1>4. CASE /\ Moves(t) /\ task'[t].pc = "inflight" /\ Like(task'[t], task[t])
           /\ task'[t].then = task[t].then
  <2>1. Follows(t)
    BY <1>1, <1>4 DEF Follows, KeepsTweet, Like, Begun, Sending, Turn, Storing
  <2>2. TaskTrue(t)'
    BY <1>1, <1>4, <2>1, FollowsTrue DEF TaskWorld
  <2> QED
    BY <1>1, <1>4, <2>2, NoteSame
<1>5. CASE Overs(t, task[t].n)
  BY <1>1, <1>2, <1>5, NoteRaised, RowOfTask
<1> QED
  BY <1>3, <1>4, <1>5, SendPartType

\* An error: the target keeps the part that was next.
LEMMA NoteSendFailed == ASSUME TypeInv, NoteInv, NEW t \in Task, SendFailed(t) PROVE NoteInv'
<1>1. /\ TypeInv' /\ TaskWorld /\ UNCHANGED <<mem, row, sent, owed>> /\ Turn(t)
      /\ Overs(t, task[t].n)
  BY SendFailedType DEF Turn
<1> QED
  BY <1>1, SentSame, NoteRaised, RowOfTask

\* The target has refused.
LEMMA NoteSendRefused == ASSUME TypeInv, NoteInv, NEW t \in Task, SendRefused(t) PROVE NoteInv'
<1>1. /\ TypeInv' /\ TaskWorld /\ UNCHANGED <<mem, row, sent>> /\ Turn(t)
      /\ Overs(t, Done) /\ owed' = [owed EXCEPT ![task[t].id] = @ \ {task[t].to}]
  BY SendRefusedType DEF Turn
<1>2. PICK i, x : i = task[t].id /\ x = task[t].to
  OBVIOUS
<1>3. i \in Id /\ x \notin owed'[i] /\ \A j \in Id : owed'[j] \subseteq owed[j]
  BY <1>1, <1>2, TurnIs DEF TypeInv, TypeOK
<1>4. TaskGrows /\ Lacks'
  BY <1>1, <1>3, SentSame, LacksStays DEF TaskWorld
<1> QED
  BY <1>1, <1>2, <1>3, <1>4, NoteDone

\* A part that reaches its target.
LEMMA DeliversIs ==
  ASSUME TypeInv, TypeInv', NoteInv, NEW t \in Task, Turn(t), Delivers(t), published' = published,
         NEW i, NEW x, NEW all, NEW n, i = task[t].id, x = task[t].to, all = task[t].all,
         n = task[t].n
  PROVE  /\ TaskGrows /\ Grows /\ Lacks' /\ Got(i, x, all, n + 1)'
         /\ n + 1 = Parts(x, all) => x \notin owed'[i]
<1>1. TaskGrows /\ Grows
  BY DeliversGrows, GrowsIs
<1>2. /\ i \in Id /\ x \in Target /\ n \in Int /\ Got(i, x, all, n) /\ all \in BOOLEAN
      /\ i <= published /\ Lacks /\ i \in Nat /\ published \in Nat
  BY TurnIs, InTurnIs, PartsType, SMTT(20) DEF NoteInv, TaskTrue, Done, TypeInv, TypeOK
<1>3. /\ \A j \in Id, y \in Target : j # i \/ y # x => sent'[j][y] = sent[j][y]
      /\ \A q \in 1 .. Body : q + Prefix(x, all) = n + 1 => sent'[i][x][q] > 0
      /\ IF \A q \in 1 .. Body : sent'[i][x][q] > 0
           THEN owed' = [owed EXCEPT ![i] = @ \ {x}] ELSE owed' = owed
  BY DEF Delivers
<1>4. \A q \in 1 .. Body : sent'[i][x][q] \in Nat
  BY <1>1, <1>2 DEF Grows
<1>5. Got(i, x, all, n + 1)'
  <2>1. Got(i, x, all, n)'
    BY <1>1, <1>2, GotGrows
  <2>2. Prefix(x, all) \in Int
    BY DEF Prefix
  <2>3. ASSUME NEW q \in 1 .. Body, q + Prefix(x, all) <= n + 1 PROVE sent'[i][x][q] > 0
    <3>1. CASE q + Prefix(x, all) <= n
      BY <2>1, <3>1 DEF Got
    <3>2. CASE ~(q + Prefix(x, all) <= n)
      <4>1. q + Prefix(x, all) = n + 1
        BY <1>2, <2>2, <2>3, <3>2
      <4> QED
        BY <1>3, <4>1
    <3> QED
      BY <3>1, <3>2
  <2> QED
    BY <2>3 DEF Got
<1>6. Lacks'
  <2>1. ASSUME NEW j \in Id, NEW y \in Target, y \in owed'[j]
        PROVE  \E q \in 1 .. Body : sent'[j][y][q] = 0
    <3>1. y \in owed[j]
      BY <1>1, <2>1 DEF TaskGrows
    <3>2. CASE j # i \/ y # x
      BY <1>2, <1>3, <2>1, <3>1, <3>2 DEF Lacks
    <3>3. CASE j = i /\ y = x
      <4>1. ~(\A q \in 1 .. Body : sent'[i][x][q] > 0)
        BY <1>2, <1>3, <2>1, <3>3 DEF TypeInv, TypeOK
      <4>2. PICK q \in 1 .. Body : ~(sent'[i][x][q] > 0)
        BY <4>1
      <4>3. sent'[i][x][q] = 0
        BY <1>4, <4>2
      <4> QED
        BY <3>3, <4>3
    <3> QED
      BY <3>2, <3>3
  <2>2. ASSUME NEW j \in Id, NEW y \in Target, published < j
        PROVE  \A q \in 1 .. Body : sent'[j][y][q] = 0
    <3>1. j # i
      BY <1>2, <2>2
    <3> QED
      BY <1>2, <1>3, <2>2, <3>1 DEF Lacks
  <2> QED
    BY <2>1, <2>2 DEF Lacks
<1>7. ASSUME n + 1 = Parts(x, all) PROVE x \notin owed'[i]
  <2>1. PICK m : m = n + 1
    OBVIOUS
  <2>2. ASSUME NEW q \in 1 .. Body PROVE sent'[i][x][q] > 0
    <3>1. q + Prefix(x, all) <= n + 1
      BY <1>7, PartsType DEF Parts, Prefix
    <3> QED
      BY <1>5, <3>1 DEF Got
  <2>3. owed' = [owed EXCEPT ![i] = @ \ {x}]
    BY <1>3, <2>2
  <2> QED
    BY <1>2, <2>3 DEF TypeInv, TypeOK
<1> QED
  BY <1>1, <1>5, <1>6, <1>7

\* The receipt is lost: the part may be sent again.
LEMMA NoteSendLost == ASSUME TypeInv, NoteInv, NEW t \in Task, SendLost(t) PROVE NoteInv'
<1>1. /\ TypeInv' /\ TaskWorld /\ UNCHANGED <<mem, row>> /\ Turn(t) /\ Overs(t, task[t].n)
      /\ Delivers(t)
  BY SendLostType DEF Turn
<1>2. PICK i, x, all, n : i = task[t].id /\ x = task[t].to /\ all = task[t].all /\ n = task[t].n
  OBVIOUS
<1>3. TaskGrows /\ Grows /\ Lacks' /\ published' = published
  BY <1>1, <1>2, DeliversIs DEF TaskWorld
<1>4. True(i, x, all, n)' /\ Overs(t, n)
  BY <1>1, <1>2, <1>3, PartTrue
<1>5. TaskTrue(t)'
  BY <1>1, <1>2, <1>3, <1>4, OversTrue
<1> QED
  BY <1>1, <1>3, <1>5, NoteTask, MemStays, RowStays DEF Overs

\* The part that was sent counts.
LEMMA CountsTrue ==
  ASSUME TypeInv, NoteInv, Grows, published' = published, NEW t \in Task, Turn(t), Counts(t),
         NEW i, NEW x, NEW all, NEW n, i = task[t].id, x = task[t].to, all = task[t].all,
         n = task[t].n, Got(i, x, all, n + 1)'
  PROVE  TaskTrue(t)'
<1>1. /\ Begun(t) /\ Sending(t) /\ i \in Id /\ i <= published /\ task[t] \in TaskRec
      /\ task[t].ids \cup task[t].got \subseteq 1 .. published
  BY TurnIs, InTurnIs
<1>2. PICK done, queue, out :
        done = task[t].done /\ queue = task[t].queue /\ out = task[t].out
  OBVIOUS
<1>3. /\ task'[t].id = i /\ task'[t].all = all /\ task'[t].done = done /\ task'[t].queue = queue
      /\ task'[t].out = out /\ task'[t].to = x /\ task'[t].n = n + 1 /\ task'[t].pc # "commit"
      /\ task'[t].ids = task[t].ids /\ task'[t].got = task[t].got
  BY <1>2 DEF Counts, KeepsTweet
<1>4. /\ DOMAIN queue \subseteq Target /\ DOMAIN out \subseteq Target /\ done \subseteq Target
  BY <1>1, <1>2, ProgressIs DEF TaskRec
<1>5. /\ \A y \in done : y \notin owed[i]
      /\ \A y \in DOMAIN queue : Got(i, y, all, queue[y])
      /\ \A y \in DOMAIN out : True(i, y, all, out[y])
  BY <1>1, <1>2 DEF NoteInv, TaskTrue
<1>6. \A y \in done : y \notin owed'[i]
  BY <1>1, <1>5 DEF Grows
<1>7. ASSUME NEW y \in DOMAIN queue PROVE Got(i, y, all, queue[y])'
  <2>1. PICK m : m = queue[y]
    OBVIOUS
  <2>2. Got(i, y, all, m)'
    BY <1>1, <1>4, <1>5, <2>1, GotGrows
  <2> QED
    BY <2>1, <2>2
<1>8. ASSUME NEW y \in DOMAIN out PROVE True(i, y, all, out[y])'
  <2>1. PICK m : m = out[y]
    OBVIOUS
  <2>2. True(i, y, all, m)'
    BY <1>1, <1>4, <1>5, <2>1, TrueGrows
  <2> QED
    BY <2>1, <2>2
<1> QED
  BY <1>1, <1>3, <1>6, <1>7, <1>8 DEF TaskTrue

\* What is noted after a part is true.
LEMMA NotedTrue ==
  ASSUME TypeInv, NoteInv, Grows, published' = published, NEW t \in Task,
         task[t].pc = "inflight", Live(t), Kept(task[t].id),
         NEW i, NEW x, NEW all, NEW n, i = task[t].id, x = task[t].to, all = task[t].all,
         n = task[t].n, Got(i, x, all, n + 1)', n + 1 = Parts(x, all) => x \notin owed'[i],
         NEW p, p = Noted(t)
  PROVE  PendTrue(p)'
<1>1. /\ Turn(t) /\ Begun(t) /\ Current(t)
  BY DEF Turn, Begun, Sending, Current, Live, Valid
<1>2. /\ i \in Id /\ i <= published /\ n \in Int /\ 0 <= n /\ all \in BOOLEAN
  BY <1>1, TurnIs, InTurnIs, PartsType DEF Done
<1>3. PICK q : q = mem.pend
  OBVIOUS
<1>4. /\ q \in Pending /\ q.id = i /\ q.fp \in {None, all} /\ PlanOK(q) /\ PendTrue(q) /\ q # None
  BY <1>1, <1>3 DEF TypeInv, TypeOK, TaskPlan, Kept, PendPlan, State, NoteInv, StateTrue
<1>5. PICK old, at : old = q.at /\ at = p.at
  OBVIOUS
<1>6. /\ p.id = i /\ p.fp = all /\ DOMAIN at = DOMAIN old
      /\ \A y \in DOMAIN old : at[y] = IF y = x THEN Onward(t) ELSE old[y]
  BY <1>3, <1>5, NotedIs
<1>7. old \in Progress /\ DOMAIN old \subseteq Target
  <2>1. old \in Progress
    BY <1>4, <1>5 DEF Pending
  <2> QED
    BY <2>1, ProgressIs
<1>8. ASSUME NEW y \in DOMAIN at PROVE True(i, y, all, at[y])'
  <2>1. CASE y = x
    <3>1. PICK m : m = at[y]
      OBVIOUS
    <3>2. m = IF n + 1 = Parts(x, all) THEN Done ELSE n + 1
      BY <1>6, <1>8, <2>1, <3>1 DEF Onward
    <3>3. CASE n + 1 = Parts(x, all)
      <4>1. m = Done /\ x \notin owed'[i]
        BY <3>2, <3>3
      <4>2. \A r \in 1 .. Body : ~(r + Prefix(x, all) <= m)
        BY <4>1 DEF Prefix, Done
      <4>3. True(i, x, all, m)'
        BY <4>1, <4>2 DEF True, Got
      <4> QED
        BY <2>1, <3>1, <4>3
    <3>4. CASE n + 1 # Parts(x, all)
      <4>1. m = n + 1 /\ m # Done
        BY <1>2, <3>2, <3>4 DEF Done
      <4>2. True(i, x, all, m)'
        BY <4>1 DEF True
      <4> QED
        BY <2>1, <3>1, <4>2
    <3> QED
      BY <3>3, <3>4
  <2>2. CASE y # x
    <3>1. PICK m, fp : m = old[y] /\ fp = q.fp
      OBVIOUS
    <3>2. at[y] = m /\ y \in DOMAIN old /\ y \in Target
      BY <1>6, <1>7, <1>8, <2>2, <3>1
    <3>3. True(i, y, fp, m) /\ fp \in {None, all}
      BY <1>4, <1>5, <3>1, <3>2 DEF PendTrue
    <3>4. m \in Int /\ (fp = None => m <= 0)
      <4>1. m \in Done .. Body + 1
        BY <1>7, <3>1, <3>2, ProgressIs
      <4>2. fp = None => m <= 0
        BY <1>4, <1>5, <3>1, <3>2 DEF PlanOK
      <4> QED
        BY <4>1, <4>2, PartsType DEF Done
    <3>5. True(i, y, all, m)
      <4>1. CASE fp = None
        <5>1. \A r \in 1 .. Body : ~(r + Prefix(y, all) <= m)
          BY <3>4, <4>1 DEF Prefix
        <5> QED
          BY <3>3, <5>1 DEF True, Got
      <4>2. CASE fp = all
        BY <3>3, <4>2
      <4> QED
        BY <3>3, <4>1, <4>2
    <3>6. True(i, y, all, m)'
      BY <1>2, <3>2, <3>5, TrueGrows
    <3> QED
      BY <3>2, <3>6
  <2> QED
    BY <2>1, <2>2
<1> QED
  BY <1>2, <1>5, <1>6, <1>8 DEF PendTrue

\* The part is with the target, and noted.
LEMMA NoteSendOk == ASSUME TypeInv, NoteInv, NEW t \in Task, SendOk(t) PROVE NoteInv'
<1>1. /\ TypeInv' /\ TaskWorld /\ UNCHANGED row /\ task[t].pc = "inflight" /\ Delivers(t)
      /\ Counts(t) /\ Turn(t) /\ Moves(t)
  BY SendOkType DEF Turn, Counts
<1>2. PICK i, x, all, n : i = task[t].id /\ x = task[t].to /\ all = task[t].all /\ n = task[t].n
  OBVIOUS
<1>3. /\ TaskGrows /\ Grows /\ Lacks' /\ published' = published /\ Got(i, x, all, n + 1)'
      /\ n + 1 = Parts(x, all) => x \notin owed'[i]
  BY <1>1, <1>2, DeliversIs DEF TaskWorld
<1>4. TaskTrue(t)'
  BY <1>1, <1>2, <1>3, CountsTrue
<1>5. row' # None => StateTrue(row)'
  BY <1>1, <1>3, RowStays
<1>6. StateTrue(mem)'
  <2>1. CASE Live(t) /\ Kept(task[t].id) /\ Pends(Noted(t))
    <3>1. PICK p : p = Noted(t)
      OBVIOUS
    <3>2. PendTrue(p)'
      BY <1>1, <1>2, <1>3, <2>1, <3>1, NotedTrue
    <3> QED
      BY <1>3, <2>1, <3>1, <3>2, PendsTrue
  <2>2. CASE UNCHANGED mem
    BY <1>3, <2>2, MemStays
  <2> QED
    BY <2>1, <2>2, SendOkType
<1> QED
  BY <1>1, <1>3, <1>4, <1>5, <1>6, NoteTask

\* What is kept of an attempt that is over is true: whom the tweet did not reach is not
\* among the targets any more.
LEMMA SettledTrue ==
  ASSUME TypeInv, WorldInv, NoteInv, NEW t \in Task, task[t].pc = "send", Live(t),
         NEW p, p = Settled(t)
  PROVE  PendTrue(p)
<1>1. PICK i, all, done, out, at :
        /\ i = task[t].id /\ all = task[t].all /\ done = task[t].done /\ out = task[t].out
        /\ at = p.at
  OBVIOUS
<1>2. /\ i \in Id /\ i <= published /\ up
  BY <1>1, InTurnIs DEF Attempt, Begun, Sending
<1>3. /\ \A x \in done : x \notin owed[i]
      /\ \A x \in DOMAIN out : True(i, x, all, out[x])
  BY <1>1 DEF NoteInv, TaskTrue, Begun, Sending
<1>4. /\ p.id = i /\ p.fp = all
      /\ \A x \in DOMAIN at :
           \/ at[x] = 0
           \/ x \in DOMAIN out /\ at[x] = out[x]
           \/ at[x] = Done /\ x \in done
           \/ /\ at[x] = Done /\ x \in DOMAIN out
              /\ out[x] = Done \/ ~Active(t, x)
  BY <1>1, SettledIs
<1>5. ASSUME NEW x \in DOMAIN at PROVE True(i, x, all, at[x])
  <2>1. PICK n : n = at[x]
    OBVIOUS
  <2>2. CASE n = 0
    <3>1. \A r \in 1 .. Body : ~(r + Prefix(x, all) <= n)
      BY <2>2 DEF Prefix
    <3> QED
      BY <2>1, <2>2, <3>1 DEF True, Got, Done
  <2>3. CASE x \in DOMAIN out /\ n = out[x]
    BY <1>3, <2>1, <2>3
  <2>4. CASE n = Done /\ x \notin owed[i]
    BY <2>1, <2>4, DoneTrue
  <2>5. ~Active(t, x) => x \notin owed[i]
    BY <1>2 DEF Active, WorldInv
  <2>6. (x \in DOMAIN out /\ out[x] = Done) => x \notin owed[i]
    BY <1>3 DEF True
  <2> QED
    BY <1>3, <1>4, <1>5, <2>1, <2>2, <2>3, <2>4, <2>5, <2>6
<1> QED
  BY <1>1, <1>2, <1>4, <1>5 DEF PendTrue

\* The attempt is over.
LEMMA NoteSettle == ASSUME TypeInv, WorldInv, NoteInv, NEW t \in Task, Settle(t) PROVE NoteInv'
<1>1. /\ TypeInv' /\ TaskWorld /\ UNCHANGED <<row, sent>> /\ Attempt(t) /\ task[t].pc = "send"
  BY SettleType DEF Attempt, Begun, Sending
<1>2. CASE Halts(t) /\ UNCHANGED <<mem, owed>>
  BY <1>1, <1>2, NoteHalted
<1>3. CASE PassesOn(t) /\ (UNCHANGED owed \/ owed' = [owed EXCEPT ![task[t].id] = {}])
  BY <1>1, <1>3, NotePassed
<1>4. CASE Live(t) /\ Halts(t) /\ Pends(Settled(t)) /\ UNCHANGED owed
  <2>1. PICK p : p = Settled(t)
    OBVIOUS
  <2>2. PendTrue(p)
    BY <1>1, <1>4, <2>1, SettledTrue
  <2>3. PendTrue(p)'
    BY <1>1, <1>4, <2>2, PendStays DEF TaskWorld
  <2> QED
    BY <1>1, <1>4, <2>1, <2>3, NoteHalted
<1> QED
  BY <1>2, <1>3, <1>4, SettleType

-----------------------------------------------------------------------------
(* Notes: checks, the world and the life of the process *)

\* The coroutines that take a step have true notes.
LEMMA NoteOthers ==
  ASSUME TypeInv, TypeInv', NoteInv, Grows, Lacks', StateTrue(mem)',
         row' # None => StateTrue(row)',
         \A c \in Check : \/ chk'[c] = chk[c]
                          \/ /\ chk'[c].ids \subseteq 1 .. published'
                             /\ chk'[c].pc = "commit" => StateTrue(chk[c].cap)',
         \A t \in Task : Rests(t) \/ TaskTrue(t)'
  PROVE  NoteInv'
<1>1. ASSUME NEW t \in Task PROVE TaskTrue(t)'
  <2>1. TaskTrue(t)
    BY DEF NoteInv
  <2> QED
    BY <2>1, RestTrue
<1>2. ASSUME NEW c \in Check
      PROVE  /\ chk'[c].ids \subseteq 1 .. published'
             /\ chk'[c].pc = "commit" => StateTrue(chk[c].cap)'
  <2>1. CASE chk'[c] = chk[c]
    <3>1. /\ chk[c].ids \subseteq 1 .. published /\ chk[c] \in CheckRec
          /\ chk[c].pc = "commit" => StateTrue(chk[c].cap)
      BY DEF NoteInv, TypeInv, TypeOK
    <3>2. chk'[c].ids \subseteq 1 .. published'
      BY <2>1, <3>1 DEF Grows
    <3>3. PICK s : s = chk[c].cap
      OBVIOUS
    <3>4. s \in State /\ chk'[c].cap = s
      BY <2>1, <3>1, <3>3 DEF CheckRec
    <3>5. StateTrue(s) => StateTrue(s)'
      BY <3>4, StateGrows
    <3> QED
      BY <2>1, <3>1, <3>2, <3>3, <3>4, <3>5
  <2> QED
    BY <2>1
<1> QED
  BY <1>1, <1>2 DEF NoteInv

\* The tasks are what they were.
LEMMA AllRest == ASSUME UNCHANGED task PROVE \A t \in Task : Rests(t)
BY DEF Rests

\* A check is over, or has a true copy.
LEMMA NoteCheck ==
  ASSUME TypeInv, TypeInv', NoteInv, CheckWorld, NEW c \in Check,
         \A d \in Check : d # c => chk'[d] = chk[d],
         chk'[c].ids \subseteq 1 .. published', chk'[c].pc = "commit" => StateTrue(chk[c].cap)',
         \A t \in Task : Rests(t) \/ TaskTrue(t)',
         UNCHANGED mem \/ StateTrue(mem)', UNCHANGED row \/ (row' # None => StateTrue(row)')
  PROVE  NoteInv'
<1>1. UNCHANGED <<sent, owed, published>>
  BY DEF CheckWorld
<1>2. Grows /\ Lacks'
  BY <1>1, SentSame, GrowsIs, LacksStays
<1>3. StateTrue(mem)' /\ (row' # None => StateTrue(row)')
  BY <1>2, MemStays, RowStays
<1>4. \A d \in Check : \/ chk'[d] = chk[d]
                       \/ /\ chk'[d].ids \subseteq 1 .. published'
                          /\ chk'[d].pc = "commit" => StateTrue(chk[d].cap)'
  OBVIOUS
<1> QED
  BY <1>2, <1>3, <1>4, NoteOthers

\* What a check has seen was published.
LEMMA AnswersIs ==
  ASSUME TypeInv, WorldInv, NoteInv, NEW c \in Check, NEW a \in Answers(c)
  PROVE  a \in SUBSET Id /\ a \subseteq 1 .. published
<1>1. /\ chk[c].ids \in SUBSET Id /\ feed \in SUBSET Id
  BY DEF TypeInv, TypeOK, CheckRec
<1>2. chk[c].ids \subseteq 1 .. published /\ feed \subseteq 1 .. published
  BY DEF NoteInv, WorldInv
<1> QED
  BY <1>1, <1>2 DEF Answers

\* A check is over.
LEMMA NoteIdle ==
  ASSUME TypeInv, TypeInv', NoteInv, CheckWorld, NEW c \in Check, chk'[c] = IdleCheck,
         \A d \in Check : d # c => chk'[d] = chk[d], \A t \in Task : Rests(t) \/ TaskTrue(t)',
         UNCHANGED mem, UNCHANGED row \/ (row' # None => StateTrue(row)')
  PROVE  NoteInv'
<1>1. chk'[c].ids = {} /\ chk'[c].pc = "idle"
  BY DEF IdleCheck
<1> QED
  BY <1>1, NoteCheck

\* What a check asks for is there.
LEMMA NoteCheckStart == ASSUME TypeInv, WorldInv, NoteInv, NEW c \in Check, CheckStart(c)
                        PROVE  NoteInv'
<1>1. /\ TypeInv' /\ \A d \in Check : d # c => chk'[d] = chk[d]
      /\ chk'[c].pc = "fetch" /\ chk'[c].ids = feed
  BY CheckStartType
<1>2. CheckWorld /\ UNCHANGED <<mem, row, task>>
  BY CheckKeeps DEF CheckStart, db
<1>3. chk'[c].ids \subseteq 1 .. published'
  BY <1>1, <1>2 DEF WorldInv, CheckWorld
<1> QED
  BY <1>1, <1>2, <1>3, AllRest, NoteCheck

\* A check that ends, or fails, leaves no notes.
LEMMA NoteCheckEnd == ASSUME TypeInv, NoteInv, NEW c \in Check, CheckEnd(c) \/ CheckDbError(c)
                      PROVE  NoteInv'
<1>1. TypeInv' /\ chk'[c] = IdleCheck /\ \A d \in Check : d # c => chk'[d] = chk[d]
  BY CheckEndType, CheckDbErrorType
<1>2. CheckWorld /\ UNCHANGED <<mem, row, task>>
  BY CheckKeeps DEF CheckEnd, CheckDbError, db
<1> QED
  BY <1>1, <1>2, AllRest, NoteIdle

\* The baseline is a tweet that was published.
LEMMA NoteCheckBaseline ==
  ASSUME TypeInv, WorldInv, NoteInv, NEW c \in Check, CheckBaseline(c) PROVE NoteInv'
<1>1. TypeInv' /\ \A d \in Check : d # c => chk'[d] = chk[d]
  BY CheckBaselineType
<1>2. CheckWorld /\ UNCHANGED <<row, task>>
      /\ chk' = [chk EXCEPT ![c] = [IdleCheck EXCEPT !.pc = "persist", !.gen = chk[c].gen]]
  BY CheckKeeps DEF CheckBaseline, CheckNext, db
<1>3. chk'[c].ids = {} /\ chk'[c].pc = "persist"
  BY <1>2 DEF IdleCheck, TypeInv, TypeOK
<1>4. PICK a \in Answers(c) : a # {} /\ mem' = [mem EXCEPT !.last = Max(a), !.init = TRUE]
  BY DEF CheckBaseline
<1>5. PICK m : m = Max(a)
  OBVIOUS
<1>6. m \in a /\ m <= published
  <2>1. a \in SUBSET Id /\ a \subseteq 1 .. published
    BY AnswersIs
  <2> QED
    BY <1>4, <1>5, <2>1, MaxTweet
<1>7. PICK p : p = mem.pend
  OBVIOUS
<1>8. mem'.last = m /\ mem'.pend = p /\ PendTrue(p)
  BY <1>4, <1>5, <1>7 DEF TypeInv, TypeOK, State, NoteInv, StateTrue
<1>9. PendTrue(p)' /\ published' = published
  BY <1>2, <1>8, PendStays DEF CheckWorld
<1>10. StateTrue(mem)'
  BY <1>6, <1>8, <1>9 DEF StateTrue
<1> QED
  BY <1>1, <1>2, <1>3, <1>10, AllRest, NoteCheck

\* A batch has tweets that were published.
LEMMA NoteCheckObserve ==
  ASSUME TypeInv, WorldInv, NoteInv, NEW c \in Check, CheckObserve(c) PROVE NoteInv'
<1>1. TypeInv' /\ chk'[c] = IdleCheck /\ \A d \in Check : d # c => chk'[d] = chk[d]
  BY CheckObserveType
<1>2. PICK a \in Answers(c), t \in Task :
        /\ \A u \in Task : u # t => task'[u] = task[u]
        /\ task'[t].pc = "next" /\ task'[t].ids = New(c, a)
        /\ task'[t].got = {} /\ task'[t].id = 0
  BY CheckObserveType
<1>3. CheckWorld /\ UNCHANGED <<mem, row>>
  BY CheckKeeps DEF CheckObserve, CheckNext, db
<1>4. a \subseteq 1 .. published /\ published' = published /\ 0 <= published
  BY <1>3, AnswersIs, PartsType DEF CheckWorld, TypeInv, TypeOK
<1>5. TaskTrue(t)'
  BY <1>2, <1>4 DEF New, TaskTrue, Begun, Sending, Turn, Storing
<1>6. \A u \in Task : Rests(u) \/ TaskTrue(u)'
  <2> TAKE u \in Task
  <2>1. u # t => Rests(u)
    BY <1>2 DEF Rests
  <2>2. u = t => TaskTrue(u)'
    BY <1>5
  <2> QED
    BY <2>1, <2>2
<1> QED
  BY <1>1, <1>3, <1>6, NoteIdle

\* A check copies memory.
LEMMA NoteCheckRead == ASSUME TypeInv, NoteInv, NEW c \in Check, CheckRead(c) PROVE NoteInv'
<1>1. TypeInv' /\ (\A d \in Check : d # c => chk'[d] = chk[d]) /\ chk'[c].cap = mem
  BY CheckReadType
<1>2. /\ CheckWorld /\ UNCHANGED <<mem, row, task>>
      /\ chk' = [chk EXCEPT ![c].pc = "commit", ![c].base = row, ![c].cap = mem]
  BY CheckKeeps DEF CheckRead, CheckNext, db
<1>3. chk'[c].ids = chk[c].ids
  <2>1. PICK r : r = [chk[c] EXCEPT !.pc = "commit", !.base = row, !.cap = mem]
    OBVIOUS
  <2>2. chk' = [chk EXCEPT ![c] = r] /\ r.ids = chk[c].ids
    BY <2>1 DEF CheckRead, TypeInv, TypeOK, CheckRec
  <2> QED
    BY <2>2 DEF TypeInv, TypeOK
<1>4. chk'[c].ids \subseteq 1 .. published'
  BY <1>2, <1>3 DEF NoteInv, CheckWorld
<1>5. StateTrue(mem)'
  <2>1. UNCHANGED <<sent, owed, published>>
    BY <1>2 DEF CheckWorld
  <2>2. Grows
    BY <1>1, <2>1, SentSame, GrowsIs
  <2> QED
    BY <1>2, <2>2, MemStays
<1>6. StateTrue(chk[c].cap)'
  BY <1>1, <1>2, <1>5 DEF StateTrue
<1> QED
  BY <1>1, <1>2, <1>4, <1>6, AllRest, NoteCheck

\* What it writes is true.
LEMMA NoteCheckCommit == ASSUME TypeInv, NoteInv, NEW c \in Check, CheckCommit(c) PROVE NoteInv'
<1>1. TypeInv' /\ chk'[c] = IdleCheck /\ \A d \in Check : d # c => chk'[d] = chk[d]
  BY CheckCommitType
<1>2. /\ CheckWorld /\ UNCHANGED <<mem, task>> /\ chk[c].pc = "commit"
      /\ row' = row \/ row' = Merged(chk[c].base, chk[c].cap, row)
  BY CheckKeeps DEF CheckCommit, CheckNext
<1>3. CASE row' = row
  BY <1>1, <1>2, <1>3, AllRest, NoteIdle
<1>4. CASE row' = Merged(chk[c].base, chk[c].cap, row)
  <2>1. PICK old, new, now : old = chk[c].base /\ new = chk[c].cap /\ now = row
    OBVIOUS
  <2>2. /\ old \in State \cup {None} /\ new \in State /\ now \in State \cup {None}
        /\ StateTrue(new) /\ (now # None => StateTrue(now))
    BY <1>2, <2>1 DEF TypeInv, TypeOK, CheckRec, NoteInv
  <2>3. PICK w : w = Merged(old, new, now)
    OBVIOUS
  <2>4. row' = w /\ (w # None => StateTrue(w))
    BY <1>4, <2>1, <2>2, <2>3, MergedTrue
  <2>5. row' # None => StateTrue(row)'
    <3> HAVE row' # None
    <3>1. w \in State /\ StateTrue(w)
      BY <1>1, <2>4 DEF TypeInv, TypeOK
    <3>2. StateTrue(w)'
      BY <1>1, <1>2, <3>1, SentSame, GrowsIs, StateGrows DEF CheckWorld
    <3> QED
      BY <2>4, <3>2
  <2> QED
    BY <1>1, <1>2, <2>5, AllRest, NoteIdle
<1> QED
  BY <1>2, <1>3, <1>4

\* The world moves on, and no coroutine.
LEMMA NoteStays ==
  ASSUME TypeInv, TypeInv', NoteInv, UNCHANGED <<published, sent, chk, task>>,
         \A i \in Id : owed'[i] \subseteq owed[i],
         UNCHANGED mem \/ StateTrue(mem)',
         UNCHANGED row \/ (row' # None => StateTrue(row)')
  PROVE  NoteInv'
<1>1. Grows /\ Lacks'
  BY SentSame, GrowsIs, LacksStays
<1>2. StateTrue(mem)' /\ (row' # None => StateTrue(row)')
  BY <1>1, MemStays, RowStays
<1>3. \A t \in Task : Rests(t)
  BY AllRest
<1> QED
  BY <1>1, <1>2, <1>3, NoteOthers

\* Nobody has a part of a new tweet.
LEMMA NotePublish == ASSUME TypeInv, NoteInv, Publish PROVE NoteInv'
<1>1. /\ UNCHANGED <<row, mem, chk, task, sent>>
      /\ published < MaxId /\ published' = published + 1
  BY DEF Publish, db
<1>2. PICK T : owed' = [owed EXCEPT ![published + 1] = T]
  BY DEF Publish
<1>3. TypeInv' /\ published \in Nat /\ published + 1 \in Id /\ owed \in [Id -> SUBSET Target]
  BY <1>1, PublishType, PartsType, SMTT(20) DEF TypeInv, TypeOK, Id
<1>4. \A j \in Id : j # published + 1 => owed'[j] = owed[j]
  BY <1>2, <1>3
<1>5. Grows
  <2>1. \A j \in Id : j <= published => owed'[j] \subseteq owed[j]
    BY <1>3, <1>4 DEF Id
  <2>2. ASSUME NEW j \in Id, NEW x \in Target, NEW q \in 1 .. Body
        PROVE  sent[j][x][q] \in Nat
    <3>1. sent[j][x] \in [1 .. Body -> Nat]
      BY DEF TypeInv, TypeOK
    <3> QED
      BY <3>1
  <2> QED
    BY <1>1, <1>3, <2>1, <2>2 DEF Grows
<1>6. Lacks'
  <2> SUFFICES ASSUME NEW j \in Id, NEW x \in Target
               PROVE  /\ x \in owed'[j] => \E q \in 1 .. Body : sent[j][x][q] = 0
                      /\ published' < j => \A q \in 1 .. Body : sent[j][x][q] = 0
    BY <1>1 DEF Lacks
  <2>1. Lacks /\ j \in Nat
    BY DEF NoteInv, Id
  <2>2. published' < j => \A q \in 1 .. Body : sent[j][x][q] = 0
    BY <1>1, <1>3, <2>1 DEF Lacks
  <2>3. CASE j = published + 1
    <3>1. published < j
      BY <1>3, <2>3
    <3>2. \A q \in 1 .. Body : sent[j][x][q] = 0
      BY <2>1, <3>1 DEF Lacks
    <3>3. 1 \in 1 .. Body
      BY PartsType
    <3> QED
      BY <2>2, <3>2, <3>3
  <2>4. CASE j # published + 1
    BY <1>4, <2>1, <2>2, <2>4 DEF Lacks
  <2> QED
    BY <2>3, <2>4
<1>7. StateTrue(mem)' /\ (row' # None => StateTrue(row)')
  BY <1>1, <1>5, MemStays, RowStays
<1> QED
  BY <1>1, <1>3, <1>5, <1>6, <1>7, AllRest, NoteOthers

\* A deleted tweet.
LEMMA NoteVanish == ASSUME TypeInv, NoteInv, NEW i \in Id, Vanish(i) PROVE NoteInv'
<1>1. UNCHANGED <<published, sent, chk, task, mem, row>> /\ owed' = [owed EXCEPT ![i] = {}]
  BY DEF Vanish, db
<1>2. \A j \in Id : owed'[j] \subseteq owed[j]
  BY <1>1 DEF TypeInv, TypeOK
<1> QED
  BY <1>1, <1>2, VanishType, NoteStays

\* Time passes.
LEMMA NoteSixHours == ASSUME TypeInv, NoteInv, SixHours PROVE NoteInv'
<1>1. UNCHANGED <<published, sent, chk, task, mem, row, owed>>
  BY DEF SixHours, world, db, hist
<1> QED
  BY <1>1, SixHoursType, NoteStays

\* Targets leave.
LEMMA NoteReloadStart ==
  ASSUME TypeInv, NoteInv, NEW new \in limit.menu, ReloadStart(new) PROVE NoteInv'
<1>1. /\ UNCHANGED <<published, sent, chk, task, mem>> /\ row' = IF new.on THEN row ELSE None
      /\ owed' = [i \in Id |-> owed[i] \cap new.to]
  BY DEF ReloadStart, world
<1>2. \A j \in Id : owed'[j] \subseteq owed[j]
  BY <1>1
<1> QED
  BY <1>1, <1>2, ReloadStartType, NoteStays

\* Nothing is pending.
LEMMA BlankTrue ==
  ASSUME TypeInv, mem'.pend = mem.pend \/ mem'.pend = None, mem'.last = 0, NoteInv,
         UNCHANGED <<published, sent>>, \A i \in Id : owed'[i] \subseteq owed[i], TypeInv'
  PROVE  StateTrue(mem)'
<1>1. Grows
  BY SentSame, GrowsIs
<1>2. PICK p : p = mem'.pend
  OBVIOUS
<1>3. p \in Pending \cup {None} /\ PendTrue(p)
  BY <1>2 DEF TypeInv, TypeOK, State, NoteInv, StateTrue, PendTrue
<1>4. PendTrue(p)'
  BY <1>1, <1>3, PendGrows
<1> QED
  BY <1>1, <1>2, <1>4 DEF StateTrue, Grows

\* The configuration is taken over.
LEMMA NoteReloadApply == ASSUME TypeInv, NoteInv, ReloadApply PROVE NoteInv'
<1>1. UNCHANGED <<published, sent, chk, task, row, owed>> /\ (mem' = Blank \/ mem' = mem)
  BY DEF ReloadApply, world, db, hist
<1>2. TypeInv' /\ \A i \in Id : owed'[i] \subseteq owed[i]
  BY <1>1, ReloadApplyType
<1>3. mem' = Blank => StateTrue(mem)'
  BY <1>1, <1>2, BlankIs, BlankTrue
<1> QED
  BY <1>1, <1>2, <1>3, NoteStays

\* The blogger starts over.
LEMMA NoteReloadReset == ASSUME TypeInv, NoteInv, ReloadReset PROVE NoteInv'
<1>1. /\ UNCHANGED <<published, sent, chk, task, row>> /\ owed' = [i \in Id |-> {}]
      /\ mem' = [mem EXCEPT !.last = 0, !.init = FALSE]
  BY DEF ReloadReset, world, db
<1>2. TypeInv' /\ \A i \in Id : owed'[i] \subseteq owed[i]
  BY <1>1, ReloadResetType
<1>3. mem'.pend = mem.pend /\ mem'.last = 0
  BY <1>1 DEF TypeInv, TypeOK, State
<1>4. StateTrue(mem)'
  BY <1>1, <1>2, <1>3, BlankTrue
<1> QED
  BY <1>1, <1>2, <1>4, NoteStays

\* The row is deleted.
LEMMA NoteDeleteRow == ASSUME TypeInv, NoteInv, DeleteRow PROVE NoteInv'
<1>1. UNCHANGED <<published, sent, chk, task, mem, owed>> /\ (row' = None \/ row' = row)
  BY DEF DeleteRow, world, hist
<1> QED
  BY <1>1, DeleteRowType, NoteStays

\* Of a process that is down no notes are left.
LEMMA NoteCrash == ASSUME TypeInv, NoteInv, Crash PROVE NoteInv'
<1>1. /\ UNCHANGED <<published, sent, row>> /\ mem' = Blank
      /\ owed' = IF row = None THEN [i \in Id |-> {}] ELSE owed
  BY DEF Crash, world, db
<1>2. /\ TypeInv' /\ \A c \in Check : chk'[c] = IdleCheck
      /\ \A t \in Task : task'[t] = IdleTask
  BY CrashType
<1>3. \A i \in Id : owed'[i] \subseteq owed[i]
  BY <1>1
<1>4. Grows /\ Lacks'
  BY <1>1, <1>2, <1>3, SentSame, GrowsIs, LacksStays
<1>5. StateTrue(mem)' /\ (row' # None => StateTrue(row)')
  BY <1>1, <1>2, <1>3, <1>4, BlankIs, BlankTrue, RowStays
<1>6. \A c \in Check : chk'[c].ids \subseteq 1 .. published' /\ chk'[c].pc # "commit"
  BY <1>2 DEF IdleCheck
<1>7. \A t \in Task : TaskTrue(t)'
  BY <1>1, <1>2, PartsType DEF TaskTrue, IdleTask, Begun, Sending, Turn, Storing, TypeInv, TypeOK
<1> QED
  BY <1>2, <1>4, <1>5, <1>6, <1>7, NoteOthers

\* A process that comes up takes over the notes of the row.
LEMMA NoteRestart == ASSUME TypeInv, NoteInv, Restart PROVE NoteInv'
<1>1. /\ UNCHANGED <<published, sent, owed, chk, task>> /\ mem' = Restored(row')
      /\ row' = row \/ row' = None
  BY DEF Restart, world, hist
<1>2. TypeInv' /\ Grows
  BY <1>1, RestartType, SentSame, GrowsIs
<1>3. row' # None => StateTrue(row)'
  BY <1>1, <1>2, RowStays
<1>4. PICK w : w = row'
  OBVIOUS
<1>5. w \in State \cup {None} /\ mem' = Restored(w)
  BY <1>1, <1>2, <1>4 DEF TypeInv, TypeOK
<1>6. CASE w = None
  <2>1. mem' = Blank
    BY <1>5, <1>6 DEF Restored
  <2> QED
    BY <1>1, <1>2, <1>3, <2>1, BlankIs, BlankTrue, NoteStays
<1>7. CASE w # None
  <2>1. (mem'.pend = None \/ mem'.pend = w.pend) /\ mem'.last = w.last
    BY <1>5, <1>7, RestoredIs
  <2>2. w.last <= published' /\ PendTrue(w.pend)'
    BY <1>3, <1>4, <1>7 DEF StateTrue
  <2>3. StateTrue(mem)'
    <3>1. PICK p : p = mem'.pend
      OBVIOUS
    <3>2. PendTrue(p)'
      <4>1. CASE p = None
        BY <4>1 DEF PendTrue
      <4>2. CASE p # None
        BY <1>4, <2>1, <2>2, <3>1, <4>2 DEF PendTrue, True, Got
      <4> QED
        BY <4>1, <4>2
    <3> QED
      BY <2>1, <2>2, <3>1, <3>2 DEF StateTrue
  <2> QED
    BY <1>1, <1>2, <1>3, <2>3, NoteStays
<1> QED
  BY <1>6, <1>7

\* Nothing is noted at the start.
LEMMA NoteInit == ASSUME Init PROVE NoteInv
<1>1. /\ published = limit.seen /\ limit \in Scenario
      /\ row = IF published = 0 \/ ~cfg.on THEN None
               ELSE [last |-> published, init |-> TRUE, pend |-> None]
      /\ mem = IF row = None THEN Blank ELSE row
      /\ chk = [c \in Check |-> IdleCheck] /\ task = [t \in Task |-> IdleTask]
      /\ sent = [i \in Id |-> [x \in Target |-> [p \in 1 .. Body |-> 0]]]
      /\ owed = [i \in Id |-> {}]
  BY DEF Init
<1>2. published \in Nat
  BY <1>1, ParamAssumption, PartsType DEF Budget
<1>3. Lacks
  BY <1>1 DEF Lacks
<1>4. row # None => StateTrue(row)
  BY <1>1, <1>2 DEF StateTrue, PendTrue
<1>5. StateTrue(mem)
  <2>1. CASE row = None
    BY <1>1, <1>2, <2>1, BlankIs DEF StateTrue, PendTrue
  <2>2. CASE row # None
    BY <1>1, <1>4, <2>2 DEF StateTrue
  <2> QED
    BY <2>1, <2>2
<1>6. \A c \in Check : chk[c].ids \subseteq 1 .. published /\ chk[c].pc # "commit"
  BY <1>1 DEF IdleCheck
<1>7. ASSUME NEW t \in Task PROVE TaskTrue(t)
  <2>1. task[t] = IdleTask
    BY <1>1
  <2> QED
    BY <1>2, <2>1 DEF TaskTrue, IdleTask, Begun, Sending, Turn, Storing
<1> QED
  BY <1>3, <1>4, <1>5, <1>6, <1>7 DEF NoteInv

\* Every step of a task keeps the notes true.
LEMMA NoteTaskStep ==
  ASSUME TypeInv, WorldInv, NoteInv, NEW t \in Task,
         TaskNext(t) \/ SendRefused(t) \/ SendLost(t) \/ TaskDbError(t)
  PROVE  NoteInv'
<1>1. CASE NextTweet(t) \/ Finish(t) \/ EndTask(t)
  BY <1>1, NoteNextTweet, NoteFinish, NoteEndTask
<1>2. CASE TaskRead(t) \/ TaskCommit(t) \/ TaskDbError(t)
  BY <1>2, NoteTaskRead, NoteTaskCommit, NoteTaskDbError
<1>3. CASE MediaReady(t) \/ MediaMissing(t) \/ SendBegin(t)
  BY <1>3, NoteMediaReady, NoteMediaMissing, NoteSendBegin
<1>4. CASE \E x \in Target : SendSkip(t, x) \/ SendStart(t, x)
  BY <1>4, NoteSendSkip, NoteSendStart
<1>5. CASE SendPart(t) \/ SendOk(t) \/ SendFailed(t) \/ Settle(t)
  BY <1>5, NoteSendPart, NoteSendOk, NoteSendFailed, NoteSettle
<1>6. CASE SendRefused(t) \/ SendLost(t)
  BY <1>6, NoteSendRefused, NoteSendLost
<1> QED
  BY <1>1, <1>2, <1>3, <1>4, <1>5, <1>6 DEF TaskNext

\* Every step keeps the notes true.
LEMMA NoteStep == ASSUME TypeInv, WorldInv, NoteInv, [Next]_vars PROVE NoteInv'
<1>1. CASE UNCHANGED vars
  <2>1. UNCHANGED <<published, sent, chk, task, mem, row, owed>>
    BY <1>1 DEF vars, world, db, hist
  <2> QED
    BY <1>1, <2>1, StutterType, NoteStays
<1>2. CASE Publish \/ (\E i \in Id : Vanish(i)) \/ SixHours
  BY <1>2, NotePublish, NoteVanish, NoteSixHours
<1>3. CASE (\E c \in Check : CheckStart(c) \/ CheckEnd(c) \/ CheckNext(c) \/ CheckDbError(c))
  BY <1>3, NoteCheckStart, NoteCheckEnd, NoteCheckBaseline, NoteCheckObserve, NoteCheckRead,
     NoteCheckCommit DEF CheckNext
<1>4. CASE (\E t \in Task : TaskNext(t) \/ SendRefused(t) \/ SendLost(t) \/ TaskDbError(t))
  BY <1>4, NoteTaskStep
<1>5. CASE (\E new \in limit.menu : ReloadStart(new))
  BY <1>5, NoteReloadStart
<1>6. CASE ReloadApply \/ ReloadReset \/ DeleteRow \/ Crash \/ Restart
  BY <1>6, NoteReloadApply, NoteReloadReset, NoteDeleteRow, NoteCrash, NoteRestart
<1> QED
  BY <1>1, <1>2, <1>3, <1>4, <1>5, <1>6 DEF Next

\* World, configuration and notes, throughout.
LEMMA WorldNotes == Spec => [](TypeInv /\ WorldInv /\ NoteInv)
<1>1. Init => TypeInv /\ WorldInv /\ NoteInv
  BY InitType, WorldInit, NoteInit
<1>2. TypeInv /\ WorldInv /\ NoteInv /\ [Next]_vars => (TypeInv /\ WorldInv /\ NoteInv)'
  BY StepType, WorldStep, NoteStep
<1> QED
  BY <1>1, <1>2, PTL DEF Spec

\* What the process and the row note of the pending tweet is true: a target that is noted
\* as done is not owed the tweet, and the parts before the next one of a target are with
\* it, in the plan that the notes count in; a target that is still owed a tweet lacks a part
\* of it.  The copies that late sessions write after a reload are as true (SendOk,
\* MediaReady, Settle and state_store.persist).
THEOREM NotesCorrect == Spec => [](StateTrue(mem) /\ (row # None => StateTrue(row)) /\ Lacks)
<1>1. NoteInv => StateTrue(mem) /\ (row # None => StateTrue(row)) /\ Lacks
  BY DEF NoteInv
<1> QED
  BY <1>1, WorldNotes, PTL
=============================================================================
