----------------------------- MODULE XQueueProofs -----------------------------
(***************************************************************************)
(* The X monitor implements TweetFeed (Queue): tweets are pushed in order, *)
(* and none is passed that a target is owed.                               *)
(*                                                                         *)
(* The invariant says where each coroutine stands in the queue: what a     *)
(* check has seen, what a task has passed and has in turn, and that a row  *)
(* or a copy of it lags behind memory only by tweets that nobody is owed.  *)
(* Every step of the code is then one step of TweetFeed, or none.          *)
(*                                                                         *)
(* Hypothesis: no process crashes in a behaviour in which the blogger is   *)
(* disabled.  A commit of a former life may write the row after it was     *)
(* deleted (state_store), and a process that comes up then takes it over.  *)
(***************************************************************************)
EXTENDS XDeliveryProofs

\* The blogger is never disabled in this behaviour.
Steady(s)   == s.from.on /\ \A c \in s.menu : c.on

\* A process crashes only where the blogger is never disabled.
CrashParted == \A s \in Scenario : s.crash = 0 \/ Steady(s)

-----------------------------------------------------------------------------
(* The inductive invariant: lives *)

\* A blogger that is never disabled lives on; any other one does not crash.
LifeInv == IF Steady(limit)
           THEN gen = 0 /\ cfg.on /\ reload \notin {"reset", "delete"} /\ (up => conf.on)
           ELSE up

-----------------------------------------------------------------------------
(* The inductive invariant: the order *)

\* The tweets that are still to be pushed; before the baseline, those that a check which
\* is under way may leave for later.
Fetch(c)  == chk[c].pc = "fetch" /\ chk[c].gen = gen
Open      == {j \in feed : mem.last < j}
Front     == IF mem.init THEN Open
             ELSE UNION {feed \ chk[c].ids : c \in {d \in Check : Fetch(d)}}
\* A cursor that passes nothing of the queue.
Behind(l) == l <= published /\ \A j \in Front : l < j

\* What a check has seen is older than what it has not; its cursor is behind the queue.
CheckOrder(c) ==
  /\ Fetch(c) => /\ \A i \in chk[c].ids, j \in feed \ chk[c].ids : i < j
                 /\ Behind(chk[c].last)
  /\ chk[c].pc \in {"persist", "commit"} /\ chk[c].gen = gen => mem.init

\* The task goes on with its batch, and leaves no tweet out.
Going(t)   == task[t].pc = "next" \/ Storing(t, "next") \/ Attempt(t)
InBatch(t) == Going(t) => \A j \in Open, m \in task[t].ids :
                j < m => j \in task[t].ids \/ (Attempt(t) /\ j = task[t].id)

\* The tweet in turn is the first that is open, if it was not deleted.
AtHead(t) == Attempt(t) => /\ \A j \in feed : task[t].id <= j => j \in Open
                           /\ \A j \in Open : task[t].id <= j

\* What the task has passed is passed.
Past(t) == task[t].got # {} =>
  /\ \A j \in feed : (\A g \in task[t].got : g < j) => j \in Open
  /\ \A g \in task[t].got : Behind(g)

\* A task of a former life can pass nothing.
TaskOrder(t) == task[t].pc # "idle" =>
  IF Current(t) THEN mem.init /\ conf.on /\ InBatch(t) /\ AtHead(t) /\ Past(t)
  ELSE Behind(task[t].id) /\ (task[t].id \in Id => owed[task[t].id] = {})

\* Memory, checks and tasks agree about the queue.
OrderInv ==
  /\ mem.init => mem.last > 0
  /\ ~mem.init => Behind(mem.last)
  /\ Behind(enabled)
  /\ up /\ ~conf.on => ~mem.init /\ \A c \in Check : ~Fetch(c)
  /\ \A c \in Check : CheckOrder(c)
  /\ \A t \in Task : TaskOrder(t)

-----------------------------------------------------------------------------
(* The inductive invariant: what a process that comes up again takes over *)

\* A stored cursor is older than that of the process at most by tweets that nobody is owed.
Saved(s) ==
  /\ s.init /\ 0 < s.last
  /\ \A j \in feed : s.last < j => enabled < j
  /\ up => /\ mem.init
           /\ \A j \in Open : s.last < j
           /\ \A j \in feed : s.last < j /\ j \notin Open => owed[j] = {}

\* The row and every copy that is on its way to it.
SavedInv == Steady(limit) =>
  /\ row # None => Saved(row)
  /\ \A c \in Check : chk[c].pc = "commit" => Saved(chk[c].cap)
  /\ \A t \in Task : task[t].pc = "commit" => Saved(task[t].cap)

\* The inductive invariant, with TypeInv, WorldInv and NoteInv.
QueueInv == LifeInv /\ OrderInv /\ SavedInv

-----------------------------------------------------------------------------
(* Lives *)

\* Nobody crashes but where the blogger is never disabled.
LEMMA CrashSteady == ASSUME CrashParted, TypeInv, WorldInv, Crash PROVE Steady(limit)
<1>1. limit \in Scenario /\ limit.crash \in Nat /\ spent.crash \in Nat /\ spent.crash < limit.crash
  <2>1. limit \in Scenario /\ limit \in Budget
    BY LimitIs
  <2> QED
    BY <2>1 DEF Budget, Crash, May, WorldInv, TypeInv, TypeOK
<1> QED
  BY <1>1 DEF CrashParted

\* The life goes on.
LEMMA LifeStays == ASSUME LifeInv, UNCHANGED <<limit, gen, cfg, reload, up, conf>> PROVE LifeInv'
BY DEF LifeInv, Steady

\* The invariant holds at the start.
LEMMA LifeInit == ASSUME Init PROVE LifeInv
<1>1. limit \in Scenario /\ cfg = limit.from /\ conf = cfg /\ up /\ gen = 0 /\ reload = "idle"
  BY DEF Init
<1> QED
  BY <1>1 DEF LifeInv, Steady

\* Every step of a blogger that is never disabled leaves it in its life; another one does not
\* crash.
LEMMA LifeStep == ASSUME CrashParted, TypeInv, WorldInv, LifeInv, [Next]_vars PROVE LifeInv'
<1>1. CASE UNCHANGED vars
  BY <1>1, LifeStays DEF vars, db, proc, bound
<1>2. CASE Publish \/ (\E i \in Id : Vanish(i)) \/ SixHours
  BY <1>2, LifeStays DEF Publish, Vanish, SixHours, db, proc, bound
<1>3. CASE (\E c \in Check : CheckStart(c) \/ CheckEnd(c) \/ CheckNext(c) \/ CheckDbError(c))
  BY <1>3, LifeStays, CheckKeeps DEF CheckWorld
<1>4. CASE (\E t \in Task : TaskNext(t) \/ SendRefused(t) \/ SendLost(t) \/ TaskDbError(t))
  BY <1>4, LifeStays, TaskKeeps DEF TaskWorld
<1>5. ASSUME NEW new \in limit.menu, ReloadStart(new) PROVE LifeInv'
  <2>1. /\ cfg' = new /\ reload' = "apply" /\ UNCHANGED <<limit, gen, up, conf>>
    BY <1>5 DEF ReloadStart, proc
  <2> QED
    BY <2>1 DEF LifeInv, Steady
<1>6. CASE ReloadApply
  <2>1. /\ conf' = cfg /\ UNCHANGED <<limit, cfg, up>>
        /\ IF conf.on /\ ~cfg.on THEN gen' = gen + 1
           ELSE gen' = gen /\ reload' = IF cfg.on /\ ~conf.on THEN "reset" ELSE "idle"
    BY <1>6 DEF ReloadApply, db, bound
  <2>2. up
    BY <1>6 DEF ReloadApply, WorldInv
  <2> QED
    BY <2>1, <2>2 DEF LifeInv, Steady
<1>7. CASE ReloadReset
  <2>1. reload = "reset" /\ UNCHANGED <<limit, up>>
    BY <1>7 DEF ReloadReset, bound
  <2> QED
    BY <2>1 DEF LifeInv, Steady
<1>8. CASE DeleteRow
  <2>1. reload = "delete" /\ UNCHANGED <<limit, up>>
    BY <1>8 DEF DeleteRow, proc, bound
  <2> QED
    BY <2>1 DEF LifeInv, Steady
<1>9. CASE Crash
  <2>1. /\ UNCHANGED <<limit, cfg>> /\ up' = FALSE /\ gen' = 0 /\ reload' = "idle"
    BY <1>9 DEF Crash, db
  <2> QED
    BY <1>9, <2>1, CrashSteady DEF LifeInv, Steady
<1>10. CASE Restart
  <2>1. /\ UNCHANGED <<limit, cfg, gen, reload>> /\ ~up /\ up' = TRUE /\ conf' = cfg
    BY <1>10 DEF Restart, bound
  <2> QED
    BY <2>1 DEF LifeInv, Steady
<1> QED
  BY <1>1, <1>2, <1>3, <1>4, <1>5, <1>6, <1>7, <1>8, <1>9, <1>10 DEF Next

-----------------------------------------------------------------------------
(* The order: what a step may do *)

\* Nothing comes in front of what was published; nobody comes to be owed what is there.
Advance ==
  /\ published \in Nat /\ published' \in Nat /\ published <= published'
  /\ UNCHANGED gen
  /\ \A j \in feed' : j \in feed \/ published < j
  /\ \A j \in Front' : j \in Front \/ published < j
  /\ \A i \in Id : i <= published => owed'[i] \subseteq owed[i]

\* Nothing leaves the queue either, but tweets that are deleted.
Calm ==
  /\ Advance
  /\ mem'.init = mem.init /\ (conf.on => conf'.on)
  /\ mem.init => feed' \ feed \subseteq Open' /\ Open \cap feed' \subseteq Open'

\* The task does not take up anything.
Goes(u) ==
  \/ task'[u].pc = "idle"
  \/ /\ task[u].pc # "idle" /\ task'[u].gen = task[u].gen /\ task'[u].id = task[u].id
     /\ Current(u) => /\ task'[u].ids = task[u].ids /\ task'[u].got = task[u].got
                      /\ Attempt(u)' => Attempt(u)
                      /\ Going(u)' => Going(u) /\ (Attempt(u) => Attempt(u)')

\* The queue and what the coroutines remember are naturals.
LEMMA FeedIs ==
  ASSUME TypeInv
  PROVE  /\ feed \subseteq Int /\ Open \subseteq feed /\ Front \subseteq feed
         /\ mem.last \in Nat /\ published \in Nat /\ enabled \in Nat
         /\ \A i \in Id : i \in Nat
         /\ \A u \in Task : task[u].id \in Nat /\ task[u].ids \subseteq Nat
                            /\ task[u].got \subseteq Nat
         /\ \A c \in Check : chk[c].last \in Nat /\ chk[c].ids \subseteq Nat
<1>1. /\ feed \subseteq Id /\ mem \in State /\ MaxId \in Nat
      /\ published \in 0 .. MaxId /\ enabled \in 0 .. MaxId
  BY ParamAssumption DEF TypeInv, TypeOK
<1>2. ASSUME NEW u \in Task
      PROVE  task[u].id \in Nat /\ task[u].ids \subseteq Nat /\ task[u].got \subseteq Nat
  <2>1. task[u] \in TaskRec
    BY DEF TypeInv, TypeOK
  <2> QED
    BY <2>1, <1>1 DEF TaskRec, Id
<1>3. ASSUME NEW c \in Check PROVE chk[c].last \in Nat /\ chk[c].ids \subseteq Nat
  <2>1. chk[c] \in CheckRec
    BY DEF TypeInv, TypeOK
  <2> QED
    BY <2>1, <1>1 DEF CheckRec, Id
<1> QED
  BY <1>1, <1>2, <1>3 DEF Open, Front, State, Id

\* The same after a step.
LEMMA LaterFeed ==
  ASSUME TypeInv'
  PROVE  /\ feed' \subseteq Int /\ Open' \subseteq feed' /\ Front' \subseteq feed'
         /\ Open' \subseteq Int /\ Front' \subseteq Int
<1>1. feed' \subseteq Id /\ MaxId \in Nat
  BY ParamAssumption DEF TypeInv, TypeOK
<1>2. feed' \subseteq Int
  BY <1>1 DEF Id
<1>3. Open' \subseteq feed'
  BY DEF Open
<1>4. Front' \subseteq feed'
  BY <1>3 DEF Front
<1> QED
  BY <1>2, <1>3, <1>4

\* A cursor that passes nothing goes on to pass nothing.
LEMMA BehindStays ==
  ASSUME TypeInv', Advance, NEW l \in Nat, Behind(l) PROVE Behind(l)'
<1>1. Front' \subseteq Int
  BY LaterFeed
<1>2. l <= published /\ \A j \in Front : l < j
  BY DEF Behind
<1>3. /\ published \in Nat /\ published' \in Nat /\ published <= published'
      /\ \A j \in Front' : j \in Front \/ published < j
  BY DEF Advance
<1>4. \A j \in Front' : l < j
  BY <1>1, <1>2, <1>3
<1>5. l <= published'
  BY <1>2, <1>3
<1> QED
  BY <1>4, <1>5 DEF Behind

\* A task of a former life still passes nothing.
LEMMA StaleStays ==
  ASSUME TypeInv, TypeInv', NoteInv, Advance, NEW u \in Task, TaskOrder(u), Goes(u), ~Current(u)
  PROVE  TaskOrder(u)'
<1> SUFFICES ASSUME task'[u].pc # "idle" PROVE TaskOrder(u)'
  BY DEF TaskOrder
<1>1. /\ task[u].pc # "idle" /\ task'[u].gen = task[u].gen /\ task'[u].id = task[u].id
  BY DEF Goes
<1>2. ~Current(u)'
  BY <1>1 DEF Current, Advance
<1>3. PICK i : i = task[u].id
  OBVIOUS
<1>4. Behind(i) /\ (i \in Id => owed[i] = {}) /\ i <= published /\ i \in Nat
  BY <1>1, <1>3, FeedIs DEF TaskOrder, NoteInv, TaskTrue
<1>5. Behind(i)'
  BY <1>4, BehindStays
<1>6. i \in Id => owed'[i] = {}
  BY <1>4 DEF Advance
<1> QED
  BY <1>1, <1>2, <1>3, <1>5, <1>6 DEF TaskOrder

\* While nothing leaves the queue a task keeps its place in it.
LEMMA CalmTask ==
  ASSUME TypeInv, TypeInv', NoteInv, Calm, NEW u \in Task, TaskOrder(u), Goes(u)
  PROVE  TaskOrder(u)'
<1>1. CASE ~Current(u)
  BY <1>1, StaleStays DEF Calm
<1>2. CASE task'[u].pc = "idle"
  BY <1>2 DEF TaskOrder
<1>3. CASE Current(u) /\ task'[u].pc # "idle"
  <2>1. /\ task[u].pc # "idle" /\ task'[u].gen = task[u].gen /\ task'[u].id = task[u].id
        /\ task'[u].ids = task[u].ids /\ task'[u].got = task[u].got
        /\ Attempt(u)' => Attempt(u)
        /\ Going(u)' => Going(u) /\ (Attempt(u) => Attempt(u)')
    BY <1>3 DEF Goes
  <2>2. /\ mem.init /\ conf.on /\ InBatch(u) /\ AtHead(u) /\ Past(u)
    BY <1>3 DEF TaskOrder, Current
  <2>3. /\ mem'.init /\ conf'.on /\ Current(u)'
        /\ Front = Open /\ Front' = Open'
    BY <2>1, <2>2, <1>3 DEF Calm, Advance, Current, Front
  <2>4. /\ \A j \in Open' : j \in Open \/ published < j
        /\ \A j \in feed' : j \in feed \/ j \in Open'
        /\ \A j \in Open : j \in feed' => j \in Open'
    BY <2>2, <2>3 DEF Calm, Advance
  <2>5. /\ \A m \in task[u].ids : m \in Nat /\ m <= published
        /\ \A m \in task[u].got : m \in Nat /\ m <= published
        /\ task[u].id \in Nat /\ task[u].id <= published /\ published \in Nat
    BY FeedIs DEF NoteInv, TaskTrue
  <2>6. Open' \subseteq Int /\ feed' \subseteq Int /\ Open' \subseteq feed'
    BY LaterFeed
  <2>7. InBatch(u)'
    <3> SUFFICES ASSUME Going(u)', NEW j \in Open', NEW m \in task[u].ids, j < m
                 PROVE  j \in task[u].ids \/ (Attempt(u)' /\ j = task[u].id)
      BY <2>1 DEF InBatch
    <3>1. j \in Open
      BY <2>4, <2>5, <2>6
    <3> QED
      BY <3>1, <2>1, <2>2 DEF InBatch
  <2>8. AtHead(u)'
    <3> SUFFICES ASSUME Attempt(u)'
                 PROVE  /\ \A j \in feed' : task[u].id <= j => j \in Open'
                        /\ \A j \in Open' : task[u].id <= j
      BY <2>1 DEF AtHead
    <3>1. /\ \A j \in feed : task[u].id <= j => j \in Open
          /\ \A j \in Open : task[u].id <= j
      BY <2>1, <2>2 DEF AtHead
    <3> QED
      BY <3>1, <2>4, <2>5, <2>6
  <2>9. Past(u)'
    <3> SUFFICES ASSUME task[u].got # {}
                 PROVE  /\ \A j \in feed' : (\A g \in task[u].got : g < j) => j \in Open'
                        /\ \A g \in task[u].got : Behind(g)'
      <4> HIDE DEF Behind
      <4>1. PICK S : S = task[u].got
        OBVIOUS
      <4> QED
        BY <4>1, <2>1 DEF Past
    <3>1. /\ \A j \in feed : (\A g \in task[u].got : g < j) => j \in Open
          /\ \A g \in task[u].got : Behind(g)
      BY <2>2 DEF Past
    <3>2. ASSUME NEW g \in task[u].got PROVE Behind(g)'
      BY <3>1, <2>5, BehindStays DEF Calm
    <3> QED
      BY <3>1, <3>2, <2>4
  <2> QED
    BY <2>3, <2>7, <2>8, <2>9 DEF TaskOrder
<1> QED
  BY <1>1, <1>2, <1>3

\* So does a check that rests.
LEMMA CalmCheck ==
  ASSUME TypeInv, TypeInv', NoteInv, Advance, NEW c \in Check, CheckOrder(c), chk'[c] = chk[c],
         mem.init => mem'.init
  PROVE  CheckOrder(c)'
<1>1. PICK l, ids : l = chk[c].last /\ ids = chk[c].ids
  OBVIOUS
<1>2. /\ l \in Nat /\ ids \subseteq 1 .. published /\ published \in Nat /\ gen' = gen
      /\ feed' \subseteq Int
      /\ \A j \in feed' : j \in feed \/ published < j
  <2>1. feed' \subseteq Int
    BY LaterFeed
  <2> QED
    BY <1>1, <2>1, FeedIs DEF NoteInv, Advance
<1>3. Fetch(c)' <=> Fetch(c)
  BY <1>2 DEF Fetch
<1>4. ASSUME Fetch(c) PROVE \A i \in ids, j \in feed' \ ids : i < j
  <2>1. \A i \in ids, j \in feed \ ids : i < j
    BY <1>4, <1>1 DEF CheckOrder
  <2> QED
    BY <2>1, <1>2
<1>5. ASSUME Fetch(c) PROVE Behind(l)'
  BY <1>5, <1>1, <1>2, BehindStays DEF CheckOrder
<1>6. chk'[c].last = l /\ chk'[c].ids = ids
  BY <1>1
<1>7. chk'[c].pc \in {"persist", "commit"} /\ chk'[c].gen = gen' => mem'.init
  BY <1>2 DEF CheckOrder
<1> QED
  BY <1>3, <1>4, <1>5, <1>6, <1>7 DEF CheckOrder

\* The order after a step, part by part.
LEMMA OrderAll ==
  ASSUME TypeInv, TypeInv', NoteInv, OrderInv, Advance, enabled' = enabled \/ Behind(enabled)',
         \/ mem'.last = mem.last /\ mem'.init = mem.init
         \/ (mem'.init => mem'.last > 0) /\ (~mem'.init => Behind(mem.last)'),
         up' /\ ~conf'.on => ~mem'.init /\ \A c \in Check : ~Fetch(c)',
         \A c \in Check : (chk'[c] = chk[c] /\ (mem.init => mem'.init)) \/ CheckOrder(c)',
         \A u \in Task : TaskOrder(u)'
  PROVE  OrderInv'
<1>1. PICK l, e : l = mem.last /\ e = enabled
  OBVIOUS
<1>2. l \in Nat /\ e \in Nat
  BY <1>1, FeedIs
<1>3. Behind(e)'
  BY <1>1, <1>2, BehindStays DEF OrderInv
<1>4. /\ mem'.init => mem'.last > 0
      /\ ~mem'.init => Behind(mem.last)'
  <2>1. CASE (mem'.init => mem'.last > 0) /\ (~mem'.init => Behind(mem.last)')
    BY <2>1
  <2>2. CASE mem'.last = mem.last /\ mem'.init = mem.init
    <3>1. mem'.init => mem'.last > 0
      BY <2>2 DEF OrderInv
    <3>2. ~mem'.init => Behind(l)'
      BY <2>2, <1>1, <1>2, BehindStays DEF OrderInv
    <3>3. mem'.last = l
      BY <2>2, <1>1
    <3> QED
      BY <3>1, <3>2, <3>3
  <2> QED
    BY <2>1, <2>2
<1>5. ASSUME NEW c \in Check PROVE CheckOrder(c)'
  BY CalmCheck DEF OrderInv
<1>6. Behind(enabled)'
  <2>1. CASE enabled' = e
    BY <2>1, <1>3
  <2> QED
    BY <2>1, <1>1
<1> QED
  BY <1>4, <1>5, <1>6 DEF OrderInv

\* A copy still lags behind memory only by what nobody is owed.
LEMMA SavedStays ==
  ASSUME TypeInv, TypeInv', WorldInv, NoteInv, Calm, UNCHANGED <<up, enabled>>,
         NEW s \in State, s.last <= published, Saved(s)
  PROVE  Saved(s)'
<1>1. /\ s.last \in Nat /\ published \in Nat /\ enabled \in Nat /\ enabled <= published
      /\ feed \subseteq 1 .. published
  BY FeedIs DEF WorldInv, State
<1>2. /\ feed' \subseteq Int /\ Open' \subseteq feed' /\ feed' \subseteq Id
      /\ \A j \in feed' : j \in feed \/ published < j
  BY LaterFeed DEF Calm, Advance, TypeInv, TypeOK
<1>3. s.init /\ 0 < s.last /\ \A j \in feed : s.last < j => enabled < j
  BY DEF Saved
<1>4. \A j \in feed' : s.last < j => enabled < j
  BY <1>1, <1>2, <1>3
<1>5. ASSUME up PROVE /\ mem'.init
                      /\ \A j \in Open' : s.last < j
                      /\ \A j \in feed' : s.last < j /\ j \notin Open' => owed'[j] = {}
  <2>1. /\ mem.init
        /\ \A j \in Open : s.last < j
        /\ \A j \in feed : s.last < j /\ j \notin Open => owed[j] = {}
    BY <1>5 DEF Saved
  <2>2. /\ mem'.init
        /\ feed' \ feed \subseteq Open' /\ Open \cap feed' \subseteq Open'
        /\ \A j \in Open' : j \in Open \/ published < j
    BY <2>1 DEF Calm, Advance, Front
  <2>3. \A j \in Open' : s.last < j
    BY <1>1, <1>2, <2>1, <2>2
  <2>4. ASSUME NEW j \in feed', s.last < j, j \notin Open' PROVE owed'[j] = {}
    <3>1. j \in feed /\ j \notin Open /\ j <= published /\ j \in Id
      BY <1>1, <1>2, <2>2, <2>4
    <3> QED
      BY <3>1, <2>1, <2>4 DEF Calm, Advance
  <2> QED
    BY <2>2, <2>3, <2>4
<1> QED
  BY <1>3, <1>4, <1>5 DEF Saved

\* Saved looks at the cursor only.
LEMMA SavedLike == ASSUME NEW s, NEW r, s.last = r.last, s.init = r.init, Saved(r) PROVE Saved(s)
BY DEF Saved

\* The states that are stored, or about to be.
Copies == {row} \cup {chk[c].cap : c \in {d \in Check : chk[d].pc = "commit"}}
                \cup {task[t].cap : t \in {u \in Task : task[u].pc = "commit"}}

\* The invariant about what is saved, for the row and all copies alike.
LEMMA CopiesIs == ASSUME TypeInv, NoteInv
                  PROVE  /\ SavedInv <=> (Steady(limit) => \A s \in Copies \ {None} : Saved(s))
                         /\ \A s \in Copies \ {None} : s \in State /\ s.last <= published
<1>1. /\ row \in State \cup {None}
      /\ \A c \in Check : chk[c].cap \in State
      /\ \A t \in Task : task[t].cap \in State
  BY DEF TypeInv, TypeOK, CheckRec, TaskRec
<1>2. /\ row # None => row.last <= published
      /\ \A c \in Check : chk[c].pc = "commit" => chk[c].cap.last <= published
      /\ \A t \in Task : task[t].pc = "commit" => task[t].cap.last <= published
  BY DEF NoteInv, StateTrue, TaskTrue
<1>3. None \notin State
  BY NoneIs
<1>4. \A s \in Copies \ {None} : s \in State /\ s.last <= published
  BY <1>1, <1>2, <1>3 DEF Copies
<1>5. SavedInv <=> (Steady(limit) => \A s \in Copies \ {None} : Saved(s))
  <2>1. (\A s \in Copies \ {None} : Saved(s)) <=>
          /\ row # None => Saved(row)
          /\ \A c \in Check : chk[c].pc = "commit" => Saved(chk[c].cap)
          /\ \A t \in Task : task[t].pc = "commit" => Saved(task[t].cap)
    BY <1>1, <1>3 DEF Copies
  <2> QED
    BY <2>1 DEF SavedInv
<1> QED
  BY <1>4, <1>5

\* The same as a formula.
LEMMA CopiesAre == TypeInv /\ NoteInv =>
  /\ SavedInv <=> (Steady(limit) => \A s \in Copies \ {None} : Saved(s))
  /\ \A s \in Copies \ {None} : s \in State /\ s.last <= published
BY CopiesIs

\* The same after a step.
LEMMA CopiesLater == (TypeInv /\ NoteInv =>
  /\ SavedInv <=> (Steady(limit) => \A s \in Copies \ {None} : Saved(s))
  /\ \A s \in Copies \ {None} : s \in State /\ s.last <= published)'
BY CopiesAre, PTL

\* A calm step that stores nothing new.
LEMMA SavedAll ==
  ASSUME TypeInv, TypeInv', WorldInv, NoteInv, NoteInv', SavedInv, Calm,
         UNCHANGED <<up, enabled, limit>>,
         Steady(limit) => \A s \in Copies' \ {None} :
                            s \in Copies \/ (s.last <= published /\ Saved(s))
  PROVE  SavedInv'
<1>1. SavedInv' <=> (Steady(limit)' => \A s \in Copies' \ {None} : Saved(s)')
  BY CopiesLater
<1>2. SUFFICES ASSUME Steady(limit), NEW s \in Copies' \ {None} PROVE Saved(s)'
  <2>1. Steady(limit)' <=> Steady(limit)
    BY DEF Steady
  <2> QED
    BY <1>1, <2>1
<1>3. s \in State /\ s.last <= published /\ Saved(s)
  <2>1. s \in State
    BY CopiesLater
  <2>2. CASE s \in Copies
    BY <1>2, <2>1, <2>2, CopiesIs
  <2>3. CASE s.last <= published /\ Saved(s)
    BY <2>1, <2>3
  <2> QED
    BY <1>2, <2>2, <2>3
<1> QED
  BY <1>3, SavedStays

\* A row that takes columns of two copies lags behind no more than they do.
LEMMA MergedSaved ==
  ASSUME NEW old, NEW new, NEW now, Saved(new), now # None => Saved(now)
  PROVE  Merged(old, new, now) # None => Saved(Merged(old, new, now))
<1> SUFFICES ASSUME Merged(old, new, now) # None PROVE Saved(Merged(old, new, now))
  OBVIOUS
<1>1. CASE old = None
  BY <1>1 DEF Merged
<1>2. CASE old # None
  <2>1. now # None
    BY <1>2 DEF Merged
  <2>2. Saved(now) /\ Saved(new)
    BY <2>1
  <2>3. PICK m : m = Merged(old, new, now)
    OBVIOUS
  <2>4. m.last \in {new.last, now.last} /\ m.init \in {new.init, now.init}
    BY <2>1, <2>3, <1>2 DEF Merged, Column
  <2>5. m.init
    BY <2>2, <2>4 DEF Saved
  <2>6. CASE m.last = new.last
    BY <2>2, <2>3, <2>5, <2>6, SavedLike DEF Saved
  <2>7. CASE m.last = now.last
    BY <2>2, <2>3, <2>5, <2>7, SavedLike DEF Saved
  <2> QED
    BY <2>4, <2>6, <2>7
<1> QED
  BY <1>1, <1>2

\* Memory may be stored.
LEMMA SavedMem ==
  ASSUME TypeInv, WorldInv, NoteInv, OrderInv, mem.init
  PROVE  Saved(mem) /\ mem.last <= published /\ mem \in State
<1>1. mem.last > 0 /\ mem.last <= published /\ Behind(enabled) /\ mem \in State
  BY DEF OrderInv, NoteInv, StateTrue, TypeInv, TypeOK
<1>2. \A j \in feed : mem.last < j <=> j \in Open
  BY DEF Open
<1>3. \A j \in Open : enabled < j
  BY <1>1 DEF Behind, Front
<1>4. 0 < mem.last
  BY <1>1, FeedIs
<1>5. \A j \in Open : mem.last < j
  BY DEF Open
<1>6. \A j \in feed : mem.last < j => enabled < j
  BY <1>2, <1>3
<1>7. Saved(mem)
  BY <1>2, <1>4, <1>5, <1>6 DEF Saved
<1> QED
  BY <1>1, <1>7

\* A task that rests takes up nothing.
LEMMA RestGoes == ASSUME NEW u \in Task, Rests(u), gen' = gen PROVE Goes(u)
BY DEF Rests, Goes, Attempt, Going, Begun, Sending, Turn, Storing

\* A task makes one new copy, or one new row.
LEMMA CopiesTask ==
  ASSUME TypeInv, TaskWorld, NEW t \in Task, Moves(t) \/ End(t),
         NEW s \in Copies' \ {None}, s \notin Copies
  PROVE  s = row' \/ (s = task'[t].cap /\ task'[t].pc = "commit")
<1>1. ASSUME NEW c \in Check, chk'[c].pc = "commit", s = chk'[c].cap PROVE s \in Copies
  <2>1. chk[c].pc = "commit" /\ s = chk[c].cap
    BY <1>1 DEF TaskWorld
  <2> QED
    BY <2>1 DEF Copies
<1>2. ASSUME NEW u \in Task, task'[u].pc = "commit", s = task'[u].cap, u # t PROVE s \in Copies
  <2>1. task[u].pc = "commit" /\ s = task[u].cap
    BY <1>2, OthersRest DEF Rests
  <2> QED
    BY <2>1 DEF Copies
<1>3. \/ s = row'
      \/ \E c \in Check : chk'[c].pc = "commit" /\ s = chk'[c].cap
      \/ \E u \in Task : task'[u].pc = "commit" /\ s = task'[u].cap
  BY DEF Copies
<1> QED
  BY <1>1, <1>2, <1>3

\* A task takes a step that changes nothing of the order.
LEMMA TaskCalm ==
  ASSUME TypeInv, TypeInv', WorldInv, NoteInv, NoteInv', OrderInv, SavedInv,
         TaskWorld, NEW t \in Task, Moves(t) \/ End(t), Calm,
         Goes(t) \/ TaskOrder(t)',
         \/ mem'.last = mem.last
         \/ (mem'.init => mem'.last > 0) /\ (~mem'.init => Behind(mem.last)'),
         row' = row \/ (Steady(limit) => row' = None \/ (Saved(row') /\ row'.last <= published)),
         Steady(limit) /\ task'[t].pc = "commit" => mem.init /\ task'[t].cap = mem
  PROVE  OrderInv' /\ SavedInv'
<1>1. mem'.init = mem.init /\ gen' = gen /\ Advance
  BY DEF Calm, Advance
<1>2. ASSUME NEW u \in Task PROVE TaskOrder(u)'
  <2>1. TaskOrder(u)
    BY DEF OrderInv
  <2>2. CASE u = t /\ Goes(t)
    BY <2>1, <2>2, CalmTask
  <2>3. CASE u # t
    BY <2>1, <2>3, <1>1, OthersRest, RestGoes, CalmTask
  <2> QED
    BY <2>2, <2>3
<1>3. up' /\ ~conf'.on => ~mem'.init /\ \A c \in Check : ~Fetch(c)'
  <2>1. \A c \in Check : Fetch(c)' <=> Fetch(c)
    BY DEF TaskWorld, Fetch
  <2> QED
    BY <2>1, <1>1 DEF TaskWorld, OrderInv
<1>4. OrderInv'
  <2>1. UNCHANGED enabled /\ \A c \in Check : chk'[c] = chk[c]
    BY DEF TaskWorld
  <2> QED
    BY <1>1, <1>2, <1>3, <2>1, OrderAll
<1>5. ASSUME Steady(limit), NEW s \in Copies' \ {None}, s \notin Copies
      PROVE  s.last <= published /\ Saved(s)
  <2>1. CASE s = row'
    <3>1. row' # row
      BY <1>5, <2>1 DEF Copies
    <3> QED
      BY <3>1, <1>5, <2>1
  <2>2. CASE s = task'[t].cap /\ task'[t].pc = "commit"
    BY <2>2, <1>5, SavedMem
  <2> QED
    BY <1>5, <2>1, <2>2, CopiesTask
<1>6. SavedInv'
  <2>1. UNCHANGED <<up, enabled, limit>>
    BY DEF TaskWorld
  <2> QED
    BY <1>5, <2>1, SavedAll
<1> QED
  BY <1>4, <1>6

\* The same when not even the memory changes.
LEMMA CalmIs ==
  ASSUME TypeInv, TypeInv', TaskWorld, TaskGrows, mem'.last = mem.last, mem'.init = mem.init
  PROVE  Calm
<1>1. Open' = Open /\ Front' = Front
  <2>1. feed' = feed /\ gen' = gen /\ chk' = chk
    BY DEF TaskWorld
  <2>2. Open' = Open
    BY <2>1 DEF Open
  <2>3. \A c \in Check : Fetch(c)' <=> Fetch(c)
    BY <2>1 DEF Fetch
  <2>4. {d \in Check : Fetch(d)}' = {d \in Check : Fetch(d)}
    BY <2>3
  <2> QED
    BY <2>1, <2>2, <2>4 DEF Front
<1>2. Advance
  <2>1. published \in Nat /\ published' = published /\ gen' = gen /\ feed' = feed
    BY FeedIs DEF TaskWorld
  <2> QED
    BY <1>1, <2>1 DEF Advance, TaskGrows
<1> QED
  BY <1>1, <1>2 DEF Calm, TaskWorld

\* A step of a task that leaves the cursor alone and stores nothing.
LEMMA TaskQuiet ==
  ASSUME TypeInv, TypeInv', WorldInv, NoteInv, NoteInv', OrderInv, SavedInv,
         TaskWorld, TaskGrows, NEW t \in Task, Moves(t) \/ End(t), Goes(t),
         mem'.last = mem.last, mem'.init = mem.init, UNCHANGED row, task'[t].pc # "commit"
  PROVE  OrderInv' /\ SavedInv'
BY CalmIs, TaskCalm

-----------------------------------------------------------------------------
(* The order: steps of a task *)

\* What is known before a step, and after it.
Sound == /\ TypeInv /\ WorldInv /\ NoteInv /\ LifeInv /\ OrderInv /\ SavedInv
         /\ TypeInv' /\ NoteInv'

\* A task that stays where it is in its batch takes up nothing.
LEMMA GoesOnward ==
  ASSUME NEW t \in Task, task[t].pc # "idle", Moves(t), gen' = gen,
         task'[t].ids = task[t].ids, task'[t].id = task[t].id, task'[t].got = task[t].got,
         Attempt(t)' <=> Attempt(t), Going(t)' => Going(t)
  PROVE  Goes(t)
BY DEF Goes, Moves

\* Nor does a task that ends,
LEMMA EndGoes == ASSUME TypeInv, NEW t \in Task, End(t) PROVE Goes(t) /\ task'[t].pc = "idle"
<1>1. task'[t] = IdleTask
  BY DEF End
<1> QED
  BY <1>1 DEF Goes, IdleTask

\* nor one whose target is over.
LEMMA OversGoes ==
  ASSUME TypeInv, NEW t \in Task, Turn(t), Overs(t, task[t].n) \/ Overs(t, Done), gen' = gen
  PROVE  Goes(t) /\ task'[t].pc # "commit" /\ Moves(t)
<1>1. /\ Moves(t) /\ KeepsTweet(t) /\ task'[t].pc = "send"
  BY DEF Overs
<1>2. Attempt(t) /\ task[t].pc # "idle"
  BY TurnIs
<1>3. Attempt(t)' /\ Going(t) /\ Going(t)'
  BY <1>1, <1>2 DEF Attempt, Begun, Sending, Going
<1> QED
  BY <1>1, <1>2, <1>3, GoesOnward DEF KeepsTweet

\* A task ends, or a target is over.
LEMMA QueueEnds ==
  ASSUME Sound, NEW t \in Task, TaskWorld, TaskGrows, UNCHANGED <<mem, row>>,
         End(t) \/ (Turn(t) /\ (Overs(t, task[t].n) \/ Overs(t, Done)))
  PROVE  OrderInv' /\ SavedInv'
<1>1. Goes(t) /\ task'[t].pc # "commit" /\ (Moves(t) \/ End(t))
  BY EndGoes, OversGoes DEF Sound, TaskWorld
<1> QED
  BY <1>1, TaskQuiet DEF Sound

\* A task stops, and keeps the cursor.
LEMMA QueueHalts ==
  ASSUME Sound, NEW t \in Task, TaskWorld, TaskGrows, Attempt(t), Halts(t), UNCHANGED row,
         mem'.last = mem.last, mem'.init = mem.init
  PROVE  OrderInv' /\ SavedInv'
<1>1. Moves(t) /\ task'[t].pc # "commit"
  BY DEF Halts
<1>2. ~Attempt(t)' /\ ~Going(t)' /\ task[t].pc # "idle"
  BY DEF Halts, Attempt, Begun, Sending, Turn, Storing, Going
<1>3. Goes(t)
  BY <1>1, <1>2 DEF Halts, Goes, Moves
<1> QED
  BY <1>1, <1>3, TaskQuiet DEF Sound

\* Another pending tweet does not change the cursor.
LEMMA PendsLast ==
  ASSUME TypeInv, NEW p, Pends(p) PROVE mem'.last = mem.last /\ mem'.init = mem.init
<1>1. mem \in State
  BY DEF TypeInv, TypeOK
<1> QED
  BY <1>1, StateIs DEF Pends

\* A task is over.
LEMMA QueueEndTask ==
  ASSUME Sound, TaskGrows, NEW t \in Task, EndTask(t)
  PROVE  OrderInv' /\ SavedInv'
BY EndTaskType, QueueEnds DEF Sound

\* An error of the database.
LEMMA QueueTaskDbError ==
  ASSUME Sound, TaskGrows, NEW t \in Task, TaskDbError(t)
  PROVE  OrderInv' /\ SavedInv'
BY TaskDbErrorType, QueueEnds DEF Sound

\* Of a blogger that is never disabled a task runs only after the baseline.
LEMMA StoreSteady == ASSUME Sound, Steady(limit), NEW t \in Task, task[t].pc # "idle" PROVE mem.init
<1>1. gen = 0 /\ task[t].gen <= gen /\ task[t].gen \in Nat
  BY DEF LifeInv, Sound, TypeInv, Life, TypeOK, TaskRec
<1>2. Current(t)
  BY <1>1 DEF Current
<1> QED
  BY <1>2 DEF Sound, OrderInv, TaskOrder

\* What a task copies is memory.
LEMMA QueueTaskRead ==
  ASSUME Sound, TaskGrows, NEW t \in Task, TaskRead(t)
  PROVE  OrderInv' /\ SavedInv'
<1>1. /\ TaskWorld /\ Moves(t) /\ UNCHANGED <<mem, row, sent, owed>>
      /\ task'[t].pc = "commit" /\ task'[t].cap = mem /\ task'[t].then = task[t].then
      /\ task'[t].ids = task[t].ids /\ task'[t].id = task[t].id /\ task'[t].got = task[t].got
  BY TaskReadType DEF Sound
<1>2. task[t].pc = "persist"
  BY DEF TaskRead, At
<1>3. (Attempt(t)' <=> Attempt(t)) /\ (Going(t)' => Going(t))
  BY <1>1, <1>2 DEF Attempt, Begun, Sending, Turn, Storing, Going
<1>4. Goes(t)
  BY <1>1, <1>2, <1>3, GoesOnward DEF TaskWorld
<1>5. Calm
  BY <1>1, CalmIs DEF Sound
<1>6. Steady(limit) => mem.init
  BY <1>2, StoreSteady
<1> QED
  BY <1>1, <1>4, <1>5, <1>6, TaskCalm DEF Sound

\* What a session writes may be taken over.
LEMMA CommitSaved ==
  ASSUME Sound, Steady(limit), NEW base, NEW cap \in Copies \ {None}, row' = Merged(base, cap, row)
  PROVE  row' = None \/ Saved(row')
<1>1. Saved(cap) /\ (row # None => Saved(row))
  BY CopiesIs DEF Sound, Copies
<1> QED
  BY <1>1, MergedSaved

\* What it writes lags behind no more than its copy and the row.
LEMMA QueueTaskCommit ==
  ASSUME Sound, TaskGrows, NEW t \in Task, TaskCommit(t)
  PROVE  OrderInv' /\ SavedInv'
<1>1. /\ TaskWorld /\ UNCHANGED <<mem, sent, owed>>
      /\ \/ ((Turn(t) /\ Overs(t, task[t].n)) \/ End(t)) /\ UNCHANGED row
         \/ Thens(t) /\ row' = Merged(task[t].base, task[t].cap, row)
  BY TaskCommitType DEF Sound
<1>2. CASE ((Turn(t) /\ Overs(t, task[t].n)) \/ End(t)) /\ UNCHANGED row
  BY <1>1, <1>2, QueueEnds
<1>3. CASE Thens(t) /\ row' = Merged(task[t].base, task[t].cap, row)
  <2>1. /\ task[t].pc = "commit" /\ task[t] \in TaskRec
    BY DEF TaskCommit, At, Sound, TypeInv, TypeOK
  <2>2. /\ Moves(t) /\ task'[t].pc = task[t].then
        /\ task'[t].ids = task[t].ids /\ task'[t].id = task[t].id /\ task'[t].got = task[t].got
        /\ task[t].then \in {"next", "ready", "part", "stop", "end"}
    BY <1>3, <2>1 DEF Thens, KeepsTweet, TaskRec
  <2>3. (Attempt(t)' <=> Attempt(t)) /\ (Going(t)' => Going(t)) /\ task'[t].pc # "commit"
    BY <2>1, <2>2 DEF Attempt, Begun, Sending, Turn, Storing, Going
  <2>4. Goes(t)
    BY <1>1, <2>1, <2>2, <2>3, GoesOnward DEF TaskWorld
  <2>5. Calm
    BY <1>1, CalmIs DEF Sound
  <2>6. task[t].cap \in Copies \ {None}
    <3>1. task[t].cap \in State
      BY <2>1 DEF TaskRec
    <3> QED
      BY <2>1, <3>1, NoneIs DEF Copies
  <2>7. ASSUME Steady(limit) PROVE row' = None \/ (Saved(row') /\ row'.last <= published)
    <3>1. row' = None \/ Saved(row')
      BY <1>3, <2>6, <2>7, CommitSaved
    <3>2. row' # None => row'.last <= published
      BY <1>1 DEF Sound, NoteInv, StateTrue, TaskWorld
    <3> QED
      BY <3>1, <3>2
  <2> QED
    BY <1>1, <2>2, <2>3, <2>4, <2>5, <2>7, TaskCalm DEF Sound
<1> QED
  BY <1>1, <1>2, <1>3

\* A task of a former life passes what is passed.
LEMMA QueueStale ==
  ASSUME Sound, TaskGrows, NEW t \in Task, Attempt(t), PassesOn(t), TaskWorld, UNCHANGED row,
         ~Current(t)
  PROVE  OrderInv' /\ SavedInv' /\ (mem.init => Open' = Open)
<1> DEFINE i == task[t].id
<1>1. /\ TypeInv /\ TypeInv' /\ i \in Id /\ i \in Nat /\ i <= published /\ task[t].pc # "idle"
      /\ Behind(i)
  BY InTurnIs DEF Sound, OrderInv, TaskOrder
<1>2. mem'.init = mem.init /\ mem'.last = IF i > mem.last THEN i ELSE mem.last
  BY <1>1, PassedIs DEF PassesOn
<1>3. feed' = feed /\ gen' = gen /\ chk' = chk /\ published' = published /\ mem.last \in Nat
  BY <1>1, FeedIs DEF TaskWorld
<1>4. feed \subseteq Int
  BY <1>1, FeedIs
<1>5. ASSUME mem.init PROVE Open' = Open
  <2>1. \A j \in Open : i < j
    BY <1>1, <1>5 DEF Behind, Front
  <2>2. \A j \in feed : mem.last < j <=> (IF i > mem.last THEN i ELSE mem.last) < j
    BY <2>1, <1>1, <1>3, <1>4 DEF Open
  <2> QED
    BY <2>2, <1>2, <1>3 DEF Open
<1>6. Front' = Front
  <2>1. {d \in Check : Fetch(d)}' = {d \in Check : Fetch(d)}
    BY <1>3 DEF Fetch
  <2> QED
    BY <2>1, <1>2, <1>3, <1>5 DEF Front
<1>7. Calm
  BY <1>1, <1>2, <1>3, <1>5, <1>6, FeedIs DEF Calm, Advance, TaskGrows, TaskWorld
<1>8. Goes(t)
  BY <1>1 DEF Goes, PassesOn, Moves
<1>9. /\ mem'.init => mem'.last > 0
      /\ ~mem'.init => Behind(mem.last)'
  <2>1. ASSUME mem'.init PROVE mem'.last > 0
    BY <2>1, <1>1, <1>2, <1>3 DEF Sound, OrderInv
  <2>2. ASSUME ~mem'.init PROVE Behind(mem.last)'
    <3>1. PICK l : l = mem'.last
      OBVIOUS
    <3>2. l \in Nat /\ Behind(l)
      BY <2>2, <3>1, <1>1, <1>2, <1>3 DEF Sound, OrderInv
    <3>3. Behind(l)'
      BY <3>2, <1>1, <1>7, BehindStays DEF Calm
    <3> QED
      BY <3>1, <3>3
  <2> QED
    BY <2>1, <2>2
<1>10. task'[t].pc # "commit" /\ Moves(t)
  BY DEF PassesOn
<1> QED
  BY <1>5, <1>7, <1>8, <1>9, <1>10, TaskCalm DEF Sound

\* The tweet at the head leaves the queue.
LEMMA HeadLeaves ==
  ASSUME Sound, NEW t \in Task, Attempt(t), PassesOn(t), TaskWorld, Current(t)
  PROVE  /\ Open' = Open \ {task[t].id} /\ mem.init /\ mem'.init /\ mem'.last > 0
         /\ Front' = Open' /\ Front = Open
<1> DEFINE i == task[t].id
<1>1. /\ TypeInv /\ i \in Id /\ i \in Nat
  BY InTurnIs DEF Sound
<1>2. mem.init /\ AtHead(t)
  BY DEF Sound, OrderInv, TaskOrder, Current
<1>3. mem'.init = mem.init /\ mem'.last = IF i > mem.last THEN i ELSE mem.last
  BY <1>1, PassedIs DEF PassesOn
<1>4. feed' = feed /\ mem.last \in Nat /\ feed \subseteq Int
  BY <1>1, FeedIs DEF TaskWorld
<1>5. \A j \in Open : i <= j
  BY <1>2 DEF AtHead
<1>6. \A j \in feed : (IF i > mem.last THEN i ELSE mem.last) < j <=> mem.last < j /\ j # i
  <2> TAKE j \in feed
  <2>1. mem.last < j => i <= j
    BY <1>5 DEF Open
  <2>2. j \in Int
    BY <1>4
  <2> QED
    BY <2>1, <2>2, <1>1, <1>4
<1>7. Open' = Open \ {i}
  BY <1>3, <1>4, <1>6 DEF Open
<1>8. mem'.last > 0
  BY <1>1, <1>3, <1>4 DEF Id
<1> QED
  BY <1>2, <1>3, <1>7, <1>8 DEF Front

\* Shrinking the queue from its head leaves the tasks of this life that wait, and those of
\* a former one.
LEMMA QueuePasses ==
  ASSUME Sound, TaskGrows, NEW t \in Task, Attempt(t), PassesOn(t), TaskWorld, UNCHANGED row,
         Current(t), owed'[task[t].id] = {}
  PROVE  OrderInv' /\ SavedInv'
<1> DEFINE i == task[t].id
<1>1. /\ TypeInv /\ TypeInv' /\ NoteInv
      /\ i \in Id /\ i \in Nat /\ i <= published /\ task[t].pc # "idle"
      /\ task[t].ahead = {} /\ task[t].ids \cup task[t].got \subseteq 1 .. published
  BY InTurnIs DEF Sound
<1>2. /\ Open' = Open \ {i} /\ mem.init /\ mem'.init /\ mem'.last > 0
      /\ Front' = Open' /\ Front = Open
  BY HeadLeaves
<1>3. /\ UNCHANGED <<feed, gen, chk, published, conf, up>>
      /\ enabled' = enabled /\ limit' = limit /\ feed \subseteq Int /\ published \in Nat
  BY <1>1, FeedIs DEF TaskWorld
<1>4. Advance
  BY <1>2, <1>3 DEF Advance, TaskGrows
<1>5. conf.on /\ InBatch(t) /\ AtHead(t) /\ Past(t)
  BY DEF Sound, OrderInv, TaskOrder, Current
<1>6. /\ task'[t].ids = task[t].ids /\ task'[t].got = task[t].got \cup {i}
      /\ task'[t].gen = task[t].gen /\ task'[t].pc \in {"persist", "next"} /\ task'[t].then = "next"
      /\ Moves(t)
  BY DEF PassesOn, Moves
<1>7. TaskOrder(t)'
  <2>1. Current(t)'
    BY <1>3, <1>6 DEF Current
  <2>2. ~Attempt(t)'
    BY <1>6 DEF Attempt, Begun, Sending, Turn, Storing
  <2>3. InBatch(t)'
    <3>1. \A j \in Open', m \in task[t].ids : j < m => j \in task[t].ids
      BY <1>2, <1>5 DEF InBatch, Going
    <3> QED
      BY <3>1, <1>6 DEF InBatch
  <2>4. Past(t)'
    <3>1. PICK S : S = task[t].got \cup {i}
      OBVIOUS
    <3>2. ASSUME NEW j \in feed, \A g \in S : g < j PROVE j \in Open'
      <4>1. i < j /\ i <= j
        BY <1>1, <1>3, <3>1, <3>2
      <4>2. j \in Open
        BY <1>5, <4>1 DEF AtHead
      <4> QED
        BY <1>1, <1>2, <1>3, <4>1, <4>2
    <3>3. ASSUME NEW g \in S PROVE Behind(g)'
      <4>1. CASE g = i
        <5>1. \A j \in Open' : i < j
          BY <1>1, <1>2, <1>3, <1>5 DEF AtHead, Open
        <5>2. PICK k : k = i
          OBVIOUS
        <5>3. Behind(k)'
          BY <5>1, <5>2, <1>1, <1>2, <1>3 DEF Behind
        <5> QED
          BY <4>1, <5>2, <5>3
      <4>2. CASE g \in task[t].got
        <5>1. Behind(g) /\ g \in Nat
          BY <4>2, <1>1, <1>5 DEF Past
        <5> QED
          BY <5>1, <1>1, <1>4, BehindStays
      <4> QED
        BY <3>1, <3>3, <4>1, <4>2
    <3>4. task'[t].got = S
      BY <3>1, <1>6
    <3> QED
      BY <3>2, <3>3, <3>4, <1>3 DEF Past
  <2> QED
    BY <1>2, <1>3, <1>5, <2>1, <2>2, <2>3, <2>4 DEF TaskOrder, AtHead
<1>8. ASSUME NEW u \in Task, u # t PROVE TaskOrder(u)'
  <2>1. TaskOrder(u) /\ Rests(u)
    BY <1>1, <1>6, <1>8, OthersRest DEF Sound, OrderInv
  <2>2. CASE ~Current(u)
    BY <2>1, <2>2, <1>1, <1>3, <1>4, RestGoes, StaleStays
  <2>3. CASE Current(u)
    <3>1. /\ task[u].pc = "next" /\ task[u].got = {}
      BY <1>1, <1>8, <2>3, OneLock
    <3>2. InBatch(u) /\ mem.init
      BY <2>1, <2>3 DEF TaskOrder, Current
    <3>3. /\ task'[u].pc = "next" /\ task'[u].got = {} /\ task'[u].ids = task[u].ids
          /\ Current(u)' /\ ~Attempt(u) /\ ~Attempt(u)'
      BY <2>1, <2>3, <3>1, <1>3 DEF Rests, Current, Attempt, Begun, Sending, Turn, Storing
    <3>4. InBatch(u)'
      <4>1. \A j \in Open', m \in task[u].ids : j < m => j \in task[u].ids
        BY <1>2, <3>1, <3>2, <3>3 DEF InBatch, Going
      <4> QED
        BY <4>1, <3>3 DEF InBatch
    <3> QED
      BY <1>2, <1>3, <1>5, <3>3, <3>4 DEF TaskOrder, AtHead, Past
  <2> QED
    BY <2>2, <2>3
<1>9. OrderInv'
  <2>1. \A u \in Task : TaskOrder(u)'
    BY <1>7, <1>8
  <2> QED
    BY <2>1, <1>2, <1>3, <1>4, <1>5, OrderAll DEF Sound
<1>10. ASSUME Steady(limit), NEW s \in Copies' \ {None} PROVE Saved(s)'
  <2>1. s \in Copies \ {None}
    BY <1>6, CopiesTask DEF Sound, Copies
  <2>2. Saved(s) /\ s \in State
    BY <1>10, <2>1, CopiesIs DEF Sound
  <2>3. s.init /\ 0 < s.last /\ \A j \in feed : s.last < j => enabled < j
    BY <2>2 DEF Saved
  <2>4. ASSUME up PROVE /\ \A j \in Open' : s.last < j
                        /\ \A j \in feed' : s.last < j /\ j \notin Open' => owed'[j] = {}
    <3>1. /\ \A j \in Open : s.last < j
          /\ \A j \in feed : s.last < j /\ j \notin Open => owed[j] = {}
      BY <2>2, <2>4 DEF Saved
    <3>2. ASSUME NEW j \in feed, s.last < j, j \notin Open' PROVE owed'[j] = {}
      <4>1. CASE j = i
        BY <4>1
      <4>2. CASE j # i
        <5>1. j \notin Open /\ j \in Id
          BY <3>2, <4>2, <1>1, <1>2 DEF TypeInv, TypeOK
        <5> QED
          BY <5>1, <3>1, <3>2 DEF TaskGrows
      <4> QED
        BY <4>1, <4>2
    <3> QED
      BY <3>1, <3>2, <1>2, <1>3
  <2> QED
    BY <2>3, <2>4, <1>2, <1>3 DEF Saved
<1>11. SavedInv'
  <2>1. Steady(limit)' <=> Steady(limit)
    BY <1>3 DEF Steady
  <2>2. SavedInv' <=> (Steady(limit)' => \A s \in Copies' \ {None} : Saved(s)')
    BY CopiesLater DEF Sound
  <2> QED
    BY <2>1, <2>2, <1>10
<1> QED
  BY <1>9, <1>11

\* The tweet in turn is passed.
LEMMA QueuePassed ==
  ASSUME Sound, TaskGrows, NEW t \in Task, Attempt(t), PassesOn(t), TaskWorld, UNCHANGED row,
         Current(t) => owed'[task[t].id] = {}
  PROVE  OrderInv' /\ SavedInv'
BY QueueStale, QueuePasses

\* The cursor after a batch is the last tweet that was passed.
LEMMA QueueFinish ==
  ASSUME Sound, TaskGrows, NEW t \in Task, Finish(t)
  PROVE  OrderInv' /\ SavedInv' /\ (mem.init => Open' = Open) /\ mem'.init = mem.init
<1>1. /\ TaskWorld /\ TypeInv /\ TypeInv'
      /\ \/ /\ Live(t) /\ task[t].got # {} /\ mem' = [mem EXCEPT !.last = Max(task[t].got)]
            /\ Moves(t) /\ task'[t].pc = "persist" /\ task'[t].then = "end"
            /\ Like(task'[t], task[t])
         \/ End(t) /\ UNCHANGED mem
  BY FinishType DEF Sound
<1>2. UNCHANGED row /\ task[t].pc # "idle"
  BY DEF Finish, At, db
<1>3. CASE End(t) /\ UNCHANGED mem
  <2>1. Open' = Open
    BY <1>1, <1>3 DEF Open, TaskWorld
  <2> QED
    BY <1>1, <1>2, <1>3, <2>1, QueueEnds
<1>4. CASE /\ Live(t) /\ task[t].got # {} /\ mem' = [mem EXCEPT !.last = Max(task[t].got)]
           /\ Moves(t) /\ task'[t].pc = "persist" /\ task'[t].then = "end"
           /\ Like(task'[t], task[t])
  <2>1. Current(t)
    BY <1>2, <1>4 DEF Current, Live, Valid
  <2>2. mem.init /\ Past(t) /\ mem \in State
    BY <1>1, <1>2, <2>1 DEF Sound, OrderInv, TaskOrder, TypeInv, TypeOK
  <2>3. PICK m : m = Max(task[t].got)
    OBVIOUS
  <2>4. m \in task[t].got /\ m \in Id /\ \A g \in task[t].got : g <= m /\ g \in Id
    <3>1. task[t].got \in SUBSET Id
      BY <1>1 DEF TypeInv, TypeOK, TaskRec
    <3>2. Max(task[t].got) \in task[t].got /\ \A g \in task[t].got : g <= Max(task[t].got)
      BY <1>4, <3>1, MaxTweet
    <3> QED
      BY <2>3, <3>1, <3>2
  <2>5. mem'.last = m /\ mem'.init = mem.init
    BY <1>4, <2>2, <2>3 DEF State
  <2>6. /\ feed' = feed /\ gen' = gen /\ chk' = chk /\ published' = published /\ mem.last \in Nat
        /\ feed \subseteq Int /\ m \in Nat /\ m > 0
    BY <1>1, <2>4, FeedIs DEF TaskWorld, Id
  <2>7. Open' = Open
    <3>1. \A j \in Open : m < j
      BY <2>2, <2>4, <1>4 DEF Past, Behind, Front
    <3>2. ASSUME NEW j \in feed, m < j PROVE j \in Open
      <4>1. \A g \in task[t].got : g < j
        BY <2>4, <2>6, <3>2 DEF Id
      <4> QED
        BY <4>1, <1>4, <2>2 DEF Past
    <3>3. \A j \in feed : m < j <=> j \in Open
      BY <3>1, <3>2
    <3>4. Open' = {j \in feed : m < j} /\ Open \subseteq feed
      BY <2>5, <2>6 DEF Open
    <3> QED
      BY <3>3, <3>4
  <2>8. Calm
    <3>1. Front' = Front
      BY <2>2, <2>5, <2>7 DEF Front
    <3> QED
      BY <1>1, <2>5, <2>6, <2>7, <3>1, FeedIs DEF Calm, Advance, TaskGrows, TaskWorld
  <2>9. Goes(t)
    <3>1. ~Attempt(t)' /\ ~Going(t)'
      BY <1>4 DEF Attempt, Begun, Sending, Turn, Storing, Going
    <3> QED
      BY <1>2, <1>4, <3>1 DEF Goes, Moves, Like
  <2> QED
    BY <1>1, <1>2, <1>4, <2>2, <2>5, <2>6, <2>7, <2>8, <2>9, TaskCalm DEF Sound
<1> QED
  BY <1>1, <1>3, <1>4

\* The next tweet of the batch is the first that is open.
LEMMA QueueNextTweet ==
  ASSUME Sound, TaskGrows, NEW t \in Task, NextTweet(t) PROVE OrderInv' /\ SavedInv'
<1>1. /\ TypeInv /\ TypeInv' /\ task'[t].id = Min(Todo(t)) /\ Moves(t) /\ TaskWorld
      /\ task'[t].pc = "media" /\ task'[t].got = task[t].got
      /\ task'[t].ids = {j \in task[t].ids : j > Min(Todo(t))}
  BY NextTweetType DEF Sound
<1>2. /\ UNCHANGED <<mem, row>> /\ task[t].pc = "next" /\ Live(t) /\ Todo(t) # {}
  BY DEF NextTweet, At, db
<1>3. Current(t) /\ Current(t)' /\ task'[t].gen = task[t].gen
  BY <1>1, <1>2 DEF Current, Live, Valid, Moves, TaskWorld
<1>4. mem.init /\ conf.on /\ InBatch(t) /\ Past(t)
  BY <1>2, <1>3 DEF Sound, OrderInv, TaskOrder
<1>5. PICK i : i = Min(Todo(t))
  OBVIOUS
<1>6. /\ i \in task[t].ids /\ i > mem.last /\ i \in Nat /\ i <= published /\ mem.last \in Nat
      /\ task[t].ids \subseteq Nat /\ feed \subseteq Int
      /\ \A j \in task[t].ids : j > mem.last => i <= j
  <2>1. Todo(t) \in SUBSET Id
    BY <1>1 DEF Todo, TypeInv, TypeOK, TaskRec
  <2>2. i \in Todo(t) /\ \A j \in Todo(t) : i <= j
    BY <1>2, <1>5, <2>1, MinTweet
  <2> QED
    BY <1>1, <2>2, FeedIs DEF Todo, Sound, NoteInv, TaskTrue
<1>7. Open' = Open /\ feed' = feed /\ mem' = mem /\ conf' = conf
  BY <1>1, <1>2 DEF Open, TaskWorld
<1>8. Calm
  BY <1>1, <1>2, CalmIs
<1>9. AtHead(t)'
  <2>1. ASSUME NEW j \in feed, i <= j PROVE j \in Open
    BY <2>1, <1>6 DEF Open
  <2>2. ASSUME NEW j \in Open PROVE i <= j
    <3>1. j \in Int /\ mem.last < j
      BY <1>6 DEF Open
    <3>2. CASE j \in task[t].ids
      BY <3>1, <3>2, <1>6
    <3>3. CASE j \notin task[t].ids
      <4>1. ~(j < i)
        BY <3>3, <1>2, <1>4, <1>6 DEF InBatch, Going, Attempt, Begun, Sending, Turn, Storing
      <4> QED
        BY <3>1, <4>1, <1>6
    <3> QED
      BY <3>2, <3>3
  <2> QED
    BY <2>1, <2>2, <1>1, <1>5, <1>7 DEF AtHead
<1>10. InBatch(t)'
  <2>1. ASSUME NEW j \in Open, NEW m \in task[t].ids, m > i, j < m
        PROVE  (j \in task[t].ids /\ j > i) \/ j = i
    <3>1. j \in task[t].ids
      BY <2>1, <1>2, <1>4 DEF InBatch, Going, Attempt, Begun, Sending, Turn, Storing
    <3>2. j > mem.last /\ j \in Nat
      BY <3>1, <1>6 DEF Open
    <3> QED
      BY <3>1, <3>2, <1>6
  <2>2. Attempt(t)' /\ task'[t].id = i /\ task'[t].ids = {j \in task[t].ids : j > i}
    BY <1>1, <1>5 DEF Attempt
  <2> QED
    BY <2>1, <2>2, <1>7 DEF InBatch
<1>11. Past(t)'
  <2>1. ASSUME NEW g \in task[t].got, Behind(g) PROVE Behind(g)'
    <3>1. g \in Nat
      BY <1>1, <2>1, FeedIs
    <3> QED
      BY <3>1, <2>1, <1>1, <1>8, BehindStays DEF Calm
  <2> QED
    BY <2>1, <1>1, <1>4, <1>7 DEF Past
<1>12. TaskOrder(t)'
  BY <1>3, <1>4, <1>7, <1>9, <1>10, <1>11 DEF TaskOrder
<1> QED
  BY <1>1, <1>2, <1>8, <1>12, TaskCalm DEF Sound

\* A target in turn, and a message that is being prepared, change nothing of the order.
LEMMA QueueOnward ==
  ASSUME Sound, TaskGrows, NEW t \in Task, TaskWorld, UNCHANGED row, Attempt(t), Moves(t),
         task'[t].ids = task[t].ids, task'[t].id = task[t].id, task'[t].got = task[t].got,
         Attempt(t)', task'[t].pc # "commit", mem'.last = mem.last, mem'.init = mem.init
  PROVE  OrderInv' /\ SavedInv'
<1>1. task[t].pc # "idle"
  BY DEF Attempt, Begun, Sending, Turn, Storing
<1>2. Goes(t)
  BY <1>1, GoesOnward DEF Going, TaskWorld
<1> QED
  BY <1>2, TaskQuiet DEF Sound

\* Media are missing: the tweet is given up, or tried again later.
LEMMA QueueMediaMissing ==
  ASSUME Sound, TaskGrows, NEW t \in Task, MediaMissing(t) PROVE OrderInv' /\ SavedInv'
<1>1. /\ TaskWorld /\ UNCHANGED <<row, sent>> /\ task[t].pc = "media"
      /\ \/ PassesOn(t) /\ owed' = [owed EXCEPT ![task[t].id] = {}]
         \/ Halts(t) /\ UNCHANGED <<mem, owed>>
         \/ Halts(t) /\ Pends(Waiting(t)) /\ UNCHANGED owed
  BY MediaMissingType DEF Sound
<1>2. Attempt(t)
  BY <1>1 DEF Attempt
<1>3. CASE PassesOn(t) /\ owed' = [owed EXCEPT ![task[t].id] = {}]
  <2>1. task[t].id \in Id /\ owed \in [Id -> SUBSET Target]
    BY <1>2, InTurnIs DEF Sound, TypeInv, TypeOK
  <2>2. owed'[task[t].id] = {}
    BY <1>3, <2>1
  <2> QED
    BY <1>1, <1>2, <1>3, <2>2, QueuePassed
<1>4. CASE Halts(t) /\ UNCHANGED <<mem, owed>>
  BY <1>1, <1>2, <1>4, QueueHalts
<1>5. CASE Halts(t) /\ Pends(Waiting(t)) /\ UNCHANGED owed
  <2>1. PICK p : Pends(p)
    BY <1>5
  <2>2. mem'.last = mem.last /\ mem'.init = mem.init
    BY <2>1, PendsLast DEF Sound
  <2> QED
    BY <1>1, <1>2, <1>5, <2>2, QueueHalts
<1> QED
  BY <1>1, <1>3, <1>4, <1>5

\* Media are there.
LEMMA QueueMediaReady ==
  ASSUME Sound, TaskGrows, NEW t \in Task, MediaReady(t) PROVE OrderInv' /\ SavedInv'
<1>1. /\ TaskWorld /\ UNCHANGED <<row, sent, owed>> /\ task[t].pc = "media"
      /\ \/ PassesOn(t) /\ conf.to = {} /\ Kept(task[t].id)
         \/ Halts(t) /\ (Pends(None) \/ Pends(mem.pend))
         \/ Begins(t) /\ Pends(Rostered(t)) /\ Live(t)
  BY MediaReadyType DEF Sound
<1>2. Attempt(t)
  BY <1>1 DEF Attempt
<1>3. CASE PassesOn(t) /\ conf.to = {} /\ Kept(task[t].id)
  <2>1. task[t].id \in Id /\ up
    BY <1>2, InTurnIs DEF Sound
  <2>2. owed'[task[t].id] = {}
    BY <1>1, <1>3, <2>1 DEF Sound, WorldInv
  <2> QED
    BY <1>1, <1>2, <1>3, <2>2, QueuePassed
<1>4. CASE Halts(t) /\ (Pends(None) \/ Pends(mem.pend))
  <2>1. PICK p : Pends(p)
    BY <1>4
  <2>2. mem'.last = mem.last /\ mem'.init = mem.init
    BY <2>1, PendsLast DEF Sound
  <2> QED
    BY <1>1, <1>2, <1>4, <2>2, QueueHalts
<1>5. CASE Begins(t) /\ Pends(Rostered(t)) /\ Live(t)
  <2>1. PICK p : Pends(p)
    BY <1>5
  <2>2. mem'.last = mem.last /\ mem'.init = mem.init
    BY <2>1, PendsLast DEF Sound
  <2>3. Attempt(t)' /\ task'[t].pc # "commit"
    BY <1>5 DEF Begins, Attempt, Begun, Storing
  <2> QED
    BY <1>1, <1>2, <1>5, <2>2, <2>3, QueueOnward DEF Begins
<1> QED
  BY <1>1, <1>3, <1>4, <1>5

\* The attempt begins.
LEMMA QueueSendBegin ==
  ASSUME Sound, TaskGrows, NEW t \in Task, SendBegin(t) PROVE OrderInv' /\ SavedInv'
<1>1. /\ TaskWorld /\ UNCHANGED <<row, sent, owed>> /\ task[t].pc = "ready"
      /\ \/ Halts(t) /\ UNCHANGED mem
         \/ Prepares(t) /\ Pends(Rostered(t)) /\ Live(t)
  BY SendBeginType DEF Sound
<1>2. Attempt(t)
  BY <1>1 DEF Attempt, Begun
<1>3. CASE Halts(t) /\ UNCHANGED mem
  BY <1>1, <1>2, <1>3, QueueHalts
<1>4. CASE Prepares(t) /\ Pends(Rostered(t)) /\ Live(t)
  <2>1. PICK p : Pends(p)
    BY <1>4
  <2>2. mem'.last = mem.last /\ mem'.init = mem.init
    BY <2>1, PendsLast DEF Sound
  <2>3. Attempt(t)' /\ task'[t].pc # "commit"
    BY <1>4 DEF Prepares, Attempt, Begun, Sending
  <2> QED
    BY <1>1, <1>2, <1>4, <2>2, <2>3, QueueOnward DEF Prepares, KeepsTweet
<1> QED
  BY <1>1, <1>3, <1>4

\* A target has its turn, or is skipped.
LEMMA QueueTurns ==
  ASSUME Sound, TaskGrows, NEW t \in Task, NEW x \in Target, SendSkip(t, x) \/ SendStart(t, x)
  PROVE  OrderInv' /\ SavedInv'
<1>1. /\ TaskWorld /\ UNCHANGED <<mem, row, sent, owed>> /\ task[t].pc = "send"
      /\ Leaves(t, x) /\ task'[t].pc \in {"send", "part"}
  BY SendSkipType, SendStartType DEF Sound
<1>2. Attempt(t) /\ Attempt(t)' /\ task'[t].pc # "commit"
  BY <1>1 DEF Attempt, Begun, Sending, Turn
<1> QED
  BY <1>1, <1>2, QueueOnward DEF Leaves, KeepsTweet

\* All parts are sent, or the next one is.
LEMMA QueueSendPart ==
  ASSUME Sound, TaskGrows, NEW t \in Task, SendPart(t) PROVE OrderInv' /\ SavedInv'
<1>1. /\ TaskWorld /\ UNCHANGED <<mem, row, sent, owed>> /\ task[t].pc = "part"
      /\ \/ task[t].n = Parts(task[t].to, task[t].all) /\ Overs(t, Done)
         \/ /\ Moves(t) /\ task'[t].pc = "inflight" /\ Like(task'[t], task[t])
            /\ task'[t].then = task[t].then /\ Active(t, task[t].to)
         \/ Overs(t, task[t].n)
  BY SendPartType DEF Sound
<1>2. Turn(t)
  BY <1>1 DEF Turn
<1>3. CASE Overs(t, Done) \/ Overs(t, task[t].n)
  BY <1>1, <1>2, <1>3, QueueEnds
<1>4. CASE Moves(t) /\ task'[t].pc = "inflight" /\ Like(task'[t], task[t])
  <2>1. Attempt(t) /\ Attempt(t)' /\ task'[t].pc # "commit"
    BY <1>2, <1>4 DEF Attempt, Begun, Sending, Turn
  <2> QED
    BY <1>1, <1>4, <2>1, QueueOnward DEF Like
<1> QED
  BY <1>1, <1>3, <1>4

\* The target failed, refused, or its receipt is lost.
LEMMA QueueSendOvers ==
  ASSUME Sound, TaskGrows, NEW t \in Task, SendFailed(t) \/ SendRefused(t) \/ SendLost(t)
  PROVE  OrderInv' /\ SavedInv'
<1>1. /\ TaskWorld /\ UNCHANGED <<mem, row>> /\ task[t].pc = "inflight"
      /\ Overs(t, task[t].n) \/ Overs(t, Done)
  BY SendFailedType, SendRefusedType, SendLostType DEF Sound
<1>2. Turn(t)
  BY <1>1 DEF Turn
<1> QED
  BY <1>1, <1>2, QueueEnds

\* The part is with the target.
LEMMA QueueSendOk ==
  ASSUME Sound, TaskGrows, NEW t \in Task, SendOk(t) PROVE OrderInv' /\ SavedInv'
<1>1. /\ TaskWorld /\ UNCHANGED row /\ task[t].pc = "inflight" /\ Counts(t)
      /\ \/ Pends(Noted(t))
         \/ UNCHANGED mem
  BY SendOkType DEF Sound
<1>2. mem'.last = mem.last /\ mem'.init = mem.init
  <2>1. CASE UNCHANGED mem
    BY <2>1
  <2>2. CASE Pends(Noted(t))
    <3>1. PICK p : Pends(p)
      BY <2>2
    <3> QED
      BY <3>1, PendsLast DEF Sound
  <2> QED
    BY <1>1, <2>1, <2>2
<1>3. Attempt(t) /\ Attempt(t)' /\ task'[t].pc # "commit"
  BY <1>1 DEF Counts, Attempt, Begun, Sending, Turn, Storing
<1> QED
  BY <1>1, <1>2, <1>3, QueueOnward DEF Counts, KeepsTweet

\* When no target failed and none came, nobody is owed the tweet.
LEMMA NobodyLeft ==
  ASSUME TypeInv, WorldInv, NoteInv, NEW t \in Task, task[t].pc = "send", Live(t),
         Failed(t) \cup Missing(t) = {}
  PROVE  owed[task[t].id] = {}
<1> DEFINE i == task[t].id
<1>1. i \in Id /\ up /\ Begun(t) /\ Sending(t) /\ Attempt(t)
  BY InTurnIs DEF Attempt, Begun, Sending
<1>2. owed[i] \subseteq conf.to
  BY <1>1 DEF WorldInv
<1>3. ASSUME NEW x \in owed[i] PROVE FALSE
  <2>1. x \in conf.to /\ Active(t, x)
    BY <1>2, <1>3 DEF Active
  <2>2. x \in task[t].done \cup DOMAIN task[t].out
    BY <2>1 DEF Missing
  <2>3. x \notin task[t].done
    BY <1>1, <1>3 DEF NoteInv, TaskTrue
  <2>4. x \in DOMAIN task[t].out /\ task[t].out[x] = Done
    BY <2>1, <2>2, <2>3 DEF Failed
  <2>5. True(i, x, task[t].all, Done)
    BY <1>1, <2>4 DEF NoteInv, TaskTrue
  <2> QED
    BY <2>5, <1>3 DEF True
<1> QED
  BY <1>3

\* The attempt is over: the tweet is passed, given up, or tried again later.
LEMMA QueueSettle ==
  ASSUME Sound, TaskGrows, NEW t \in Task, Settle(t) PROVE OrderInv' /\ SavedInv'
<1>1. /\ TaskWorld /\ UNCHANGED <<row, sent>> /\ task[t].pc = "send"
      /\ \/ ~Live(t) /\ Halts(t) /\ UNCHANGED <<mem, owed>>
         \/ /\ Live(t) /\ PassesOn(t) /\ Failed(t) \cup Missing(t) = {} /\ UNCHANGED owed
         \/ Live(t) /\ PassesOn(t) /\ owed' = [owed EXCEPT ![task[t].id] = {}]
         \/ Live(t) /\ Halts(t) /\ Pends(Settled(t)) /\ UNCHANGED owed
  BY SettleType DEF Sound
<1>2. Attempt(t) /\ task[t].id \in Id /\ owed \in [Id -> SUBSET Target]
  <2>1. Attempt(t)
    BY <1>1 DEF Attempt, Begun, Sending
  <2> QED
    BY <2>1, InTurnIs DEF Sound, TypeInv, TypeOK
<1>3. CASE Halts(t) /\ UNCHANGED <<mem, owed>>
  BY <1>1, <1>2, <1>3, QueueHalts
<1>4. CASE Live(t) /\ PassesOn(t) /\ Failed(t) \cup Missing(t) = {} /\ UNCHANGED owed
  <2>1. owed'[task[t].id] = {}
    BY <1>1, <1>4, NobodyLeft DEF Sound
  <2> QED
    BY <1>1, <1>2, <1>4, <2>1, QueuePassed
<1>5. CASE PassesOn(t) /\ owed' = [owed EXCEPT ![task[t].id] = {}]
  <2>1. owed'[task[t].id] = {}
    BY <1>2, <1>5
  <2> QED
    BY <1>1, <1>2, <1>5, <2>1, QueuePassed
<1>6. CASE Halts(t) /\ Pends(Settled(t)) /\ UNCHANGED owed
  <2>1. PICK p : Pends(p)
    BY <1>6
  <2>2. mem'.last = mem.last /\ mem'.init = mem.init
    BY <2>1, PendsLast DEF Sound
  <2> QED
    BY <1>1, <1>2, <1>6, <2>2, QueueHalts
<1> QED
  BY <1>1, <1>3, <1>4, <1>5, <1>6

\* Every step of a task keeps the order.
LEMMA QueueTask ==
  ASSUME Sound, NEW t \in Task, TaskNext(t) \/ SendRefused(t) \/ SendLost(t) \/ TaskDbError(t)
  PROVE  OrderInv' /\ SavedInv'
<1>1. TaskGrows
  BY TaskGrowth DEF Sound
<1>2. CASE TaskDbError(t) \/ SendRefused(t) \/ SendLost(t) \/ SendFailed(t)
  BY <1>1, <1>2, QueueTaskDbError, QueueSendOvers
<1>3. CASE NextTweet(t) \/ Finish(t) \/ EndTask(t) \/ TaskRead(t) \/ TaskCommit(t)
  BY <1>1, <1>3, QueueNextTweet, QueueFinish, QueueEndTask, QueueTaskRead, QueueTaskCommit
<1>4. CASE MediaReady(t) \/ MediaMissing(t) \/ SendBegin(t)
  BY <1>1, <1>4, QueueMediaReady, QueueMediaMissing, QueueSendBegin
<1>5. CASE \E x \in Target : SendSkip(t, x) \/ SendStart(t, x)
  BY <1>1, <1>5, QueueTurns
<1>6. CASE SendPart(t) \/ SendOk(t) \/ Settle(t)
  BY <1>1, <1>6, QueueSendPart, QueueSendOk, QueueSettle
<1> QED
  BY <1>2, <1>3, <1>4, <1>5, <1>6 DEF TaskNext

-----------------------------------------------------------------------------
(* The order: checks *)

\* A check begins, or ends; memory is unchanged.
LEMMA CheckCalm ==
  ASSUME Sound, CheckWorld, NEW c \in Check, \A d \in Check : d # c => chk'[d] = chk[d],
         UNCHANGED mem, Fetch(c)' => conf.on /\ chk'[c].ids = feed,
         CheckOrder(c)',
         \A u \in Task : task'[u] = task[u] \/ (task'[u].pc = "next" /\ TaskOrder(u)'),
         row' = row \/ (Steady(limit) => row' = None \/ (Saved(row') /\ row'.last <= published)),
         Steady(limit) /\ chk'[c].pc = "commit" => mem.init /\ chk'[c].cap = mem
  PROVE  OrderInv' /\ SavedInv'
<1>1. /\ TypeInv /\ TypeInv' /\ published \in Nat /\ feed' = feed /\ gen' = gen /\ mem' = mem
      /\ conf' = conf /\ published' = published /\ owed' = owed
      /\ UNCHANGED <<up, enabled, limit>>
  BY FeedIs DEF Sound, CheckWorld
<1>2. Open' = Open
  BY <1>1 DEF Open
<1>3. Front' \subseteq Front
  <2>1. CASE mem.init
    BY <1>1, <1>2, <2>1 DEF Front
  <2>2. CASE ~mem.init
    <3> SUFFICES ASSUME NEW j \in Front' PROVE j \in Front
      OBVIOUS
    <3>1. PICK d \in Check : Fetch(d)' /\ j \in feed \ chk'[d].ids
      BY <1>1, <2>2 DEF Front
    <3>2. d # c /\ chk'[d] = chk[d]
      BY <3>1
    <3>3. Fetch(d) /\ j \in feed \ chk[d].ids
      BY <1>1, <3>1, <3>2 DEF Fetch
    <3> QED
      BY <2>2, <3>3 DEF Front
  <2> QED
    BY <2>1, <2>2
<1>4. Calm
  BY <1>1, <1>2, <1>3 DEF Calm, Advance
<1>5. ASSUME NEW u \in Task PROVE TaskOrder(u)'
  <2>1. CASE task'[u] = task[u]
    <3>1. Rests(u) /\ TaskOrder(u)
      BY <2>1 DEF Rests, Sound, OrderInv
    <3> QED
      BY <3>1, <1>1, <1>4, RestGoes, CalmTask DEF Sound
  <2> QED
    BY <2>1
<1>6. up' /\ ~conf'.on => ~mem'.init /\ \A d \in Check : ~Fetch(d)'
  <2> SUFFICES ASSUME up, ~conf.on PROVE ~mem.init /\ \A d \in Check : ~Fetch(d)'
    BY <1>1
  <2>1. ~mem.init /\ \A d \in Check : ~Fetch(d)
    BY DEF Sound, OrderInv
  <2>2. ASSUME NEW d \in Check PROVE ~Fetch(d)'
    <3>1. CASE d = c
      BY <3>1
    <3>2. CASE d # c
      BY <3>2, <2>1, <1>1 DEF Fetch
    <3> QED
      BY <3>1, <3>2
  <2> QED
    BY <2>1, <2>2
<1>7. OrderInv'
  <2>1. \A d \in Check : (chk'[d] = chk[d] /\ (mem.init => mem'.init)) \/ CheckOrder(d)'
    BY <1>1
  <2>2. Advance /\ mem'.last = mem.last /\ mem'.init = mem.init
    BY <1>1, <1>4 DEF Calm
  <2>3. \A u \in Task : TaskOrder(u)'
    BY <1>5
  <2> QED
    BY <1>1, <1>6, <2>1, <2>2, <2>3, OrderAll DEF Sound
<1>8. ASSUME Steady(limit), NEW s \in Copies' \ {None}, s \notin Copies
      PROVE  s.last <= published /\ Saved(s)
  <2>1. CASE s = row'
    <3>1. row' # row
      BY <1>8, <2>1 DEF Copies
    <3> QED
      BY <3>1, <1>8, <2>1
  <2>2. CASE \E d \in Check : chk'[d].pc = "commit" /\ s = chk'[d].cap
    <3>1. PICK d \in Check : chk'[d].pc = "commit" /\ s = chk'[d].cap
      BY <2>2
    <3>2. d = c
      BY <1>8, <3>1 DEF Copies
    <3> QED
      BY <1>8, <3>1, <3>2, SavedMem DEF Sound
  <2>3. CASE \E u \in Task : task'[u].pc = "commit" /\ s = task'[u].cap
    BY <1>8, <2>3 DEF Copies
  <2>4. \/ s = row'
        \/ \E d \in Check : chk'[d].pc = "commit" /\ s = chk'[d].cap
        \/ \E u \in Task : task'[u].pc = "commit" /\ s = task'[u].cap
    BY <1>8 DEF Copies
  <2> QED
    BY <2>1, <2>2, <2>3, <2>4
<1>9. SavedInv'
  BY <1>1, <1>4, <1>8, SavedAll DEF Sound
<1> QED
  BY <1>7, <1>9

\* A check is over.
LEMMA CheckIdle ==
  ASSUME Sound, CheckWorld, NEW c \in Check, \A d \in Check : d # c => chk'[d] = chk[d],
         chk'[c] = IdleCheck, UNCHANGED mem,
         \A u \in Task : task'[u] = task[u] \/ (task'[u].pc = "next" /\ TaskOrder(u)'),
         row' = row \/ (Steady(limit) => row' = None \/ (Saved(row') /\ row'.last <= published))
  PROVE  OrderInv' /\ SavedInv'
<1>1. chk'[c].pc = "idle"
  BY DEF IdleCheck
<1>2. ~Fetch(c)' /\ CheckOrder(c)' /\ chk'[c].pc # "commit"
  BY <1>1 DEF Fetch, CheckOrder
<1> QED
  BY <1>2, CheckCalm

\* A check asks for the timeline.
LEMMA QueueCheckStart ==
  ASSUME Sound, NEW c \in Check, CheckStart(c) PROVE OrderInv' /\ SavedInv'
<1>1. /\ TypeInv /\ CheckWorld /\ \A d \in Check : d # c => chk'[d] = chk[d]
      /\ chk'[c].pc = "fetch" /\ chk'[c].gen = gen /\ chk'[c].last = mem.last
      /\ chk'[c].ids = feed
  BY CheckStartType, CheckKeeps DEF Sound
<1>2. conf.on /\ UNCHANGED <<mem, task, row, feed, gen, published>>
  BY <1>1 DEF CheckStart, db, CheckWorld
<1>3. mem.last <= published /\ mem.last \in Nat /\ published \in Nat /\ Open' = Open
  BY <1>1, <1>2, FeedIs DEF Sound, NoteInv, StateTrue, Open
<1>4. Behind(mem.last)
  <2>1. CASE mem.init
    BY <1>3, <2>1 DEF Behind, Front, Open
  <2>2. CASE ~mem.init
    BY <2>2 DEF Sound, OrderInv
  <2> QED
    BY <2>1, <2>2
<1>5. Front' \subseteq Front
  <2>1. CASE mem.init
    BY <1>2, <1>3, <2>1 DEF Front
  <2>2. CASE ~mem.init
    <3> SUFFICES ASSUME NEW j \in Front' PROVE j \in Front
      OBVIOUS
    <3>1. PICK d \in Check : Fetch(d)' /\ j \in feed \ chk'[d].ids
      BY <1>2, <2>2 DEF Front
    <3>2. d # c /\ chk'[d] = chk[d]
      BY <3>1, <1>1
    <3>3. Fetch(d) /\ j \in feed \ chk[d].ids
      BY <1>2, <3>1, <3>2 DEF Fetch
    <3> QED
      BY <2>2, <3>3 DEF Front
  <2> QED
    BY <2>1, <2>2
<1>6. PICK l : l = mem.last
  OBVIOUS
<1>7. Behind(l)'
  BY <1>2, <1>4, <1>5, <1>6 DEF Behind
<1>8. CheckOrder(c)'
  BY <1>1, <1>2, <1>6, <1>7 DEF CheckOrder
<1> QED
  BY <1>1, <1>2, <1>8, CheckCalm

\* A check ends, or fails.
LEMMA QueueCheckEnd ==
  ASSUME Sound, NEW c \in Check, CheckEnd(c) \/ CheckDbError(c) PROVE OrderInv' /\ SavedInv'
<1>1. /\ CheckWorld /\ chk'[c] = IdleCheck /\ \A d \in Check : d # c => chk'[d] = chk[d]
  BY CheckEndType, CheckDbErrorType, CheckKeeps DEF Sound
<1>2. UNCHANGED <<mem, row, task>>
  BY DEF CheckEnd, CheckDbError, db
<1> QED
  BY <1>1, <1>2, CheckIdle

\* A check stores in the life in which it saw the baseline.
LEMMA StoreCheck ==
  ASSUME Sound, Steady(limit), NEW c \in Check, chk[c].pc \in {"persist", "commit"}
  PROVE  mem.init /\ chk[c].gen = gen
<1>1. gen = 0 /\ chk[c].gen <= gen /\ chk[c].gen \in Nat
  BY DEF LifeInv, Sound, TypeInv, CheckPlan, TypeOK, CheckRec
<1> QED
  BY <1>1 DEF Sound, OrderInv, CheckOrder

\* A check copies memory.
LEMMA QueueCheckRead ==
  ASSUME Sound, NEW c \in Check, CheckRead(c) PROVE OrderInv' /\ SavedInv'
<1>1. /\ CheckWorld /\ \A d \in Check : d # c => chk'[d] = chk[d]
      /\ chk'[c].pc = "commit" /\ chk'[c].gen = chk[c].gen /\ chk'[c].cap = mem
  BY CheckReadType, CheckKeeps DEF Sound, CheckNext
<1>2. UNCHANGED <<mem, row, task>> /\ chk[c].pc = "persist" /\ gen' = gen
  BY <1>1 DEF CheckRead, db, CheckWorld
<1>3. ~Fetch(c)' /\ CheckOrder(c)'
  BY <1>1, <1>2 DEF Fetch, CheckOrder, Sound, OrderInv
<1>4. Steady(limit) => mem.init
  BY <1>2, StoreCheck
<1> QED
  BY <1>1, <1>2, <1>3, <1>4, CheckCalm

\* What it writes lags behind no more than its copy and the row.
LEMMA QueueCheckCommit ==
  ASSUME Sound, NEW c \in Check, CheckCommit(c) PROVE OrderInv' /\ SavedInv'
<1>1. /\ CheckWorld /\ chk'[c] = IdleCheck /\ \A d \in Check : d # c => chk'[d] = chk[d]
  BY CheckCommitType, CheckKeeps DEF Sound, CheckNext
<1>2. UNCHANGED <<mem, task>> /\ chk[c].pc = "commit"
      /\ (row' = row \/ row' = Merged(chk[c].base, chk[c].cap, row))
  BY DEF CheckCommit
<1>3. ASSUME Steady(limit), row' # row PROVE row' = None \/ (Saved(row') /\ row'.last <= published)
  <2>1. chk[c].cap \in Copies \ {None}
    <3>1. chk[c].cap \in State
      BY DEF Sound, TypeInv, TypeOK, CheckRec
    <3> QED
      BY <1>2, <3>1, NoneIs DEF Copies
  <2>2. row' = None \/ Saved(row')
    BY <1>2, <1>3, <2>1, CommitSaved
  <2>3. row' # None => row'.last <= published
    BY <1>1 DEF Sound, NoteInv, StateTrue, CheckWorld
  <2> QED
    BY <2>2, <2>3
<1> QED
  BY <1>1, <1>2, <1>3, CheckIdle

\* A batch has all that is open and was seen.
LEMMA QueueCheckObserve ==
  ASSUME Sound, NEW c \in Check, CheckObserve(c) PROVE OrderInv' /\ SavedInv'
<1>1. /\ TypeInv /\ CheckWorld /\ chk'[c] = IdleCheck /\ \A d \in Check : d # c => chk'[d] = chk[d]
      /\ \E a \in Answers(c), t \in Task :
           /\ a \in SUBSET Id
           /\ task[t].pc = "idle" /\ \A u \in Task : u # t => task'[u] = task[u]
           /\ task'[t].pc = "next" /\ task'[t].ids = New(c, a) /\ task'[t].gen = gen
           /\ task'[t].got = {} /\ task'[t].id = 0
  BY CheckObserveType, CheckKeeps DEF Sound, CheckNext
<1>2. /\ UNCHANGED <<mem, row>> /\ chk[c].pc = "fetch" /\ Valid(chk[c].gen) /\ mem.init
  BY DEF CheckObserve, db
<1>3. Fetch(c) /\ conf.on /\ conf' = conf /\ gen' = gen /\ feed' = feed /\ Open' = Open
  BY <1>1, <1>2 DEF Fetch, Valid, CheckWorld, Open
<1>4. PICK a \in Answers(c), t \in Task :
           /\ task[t].pc = "idle" /\ \A u \in Task : u # t => task'[u] = task[u]
           /\ task'[t].pc = "next" /\ task'[t].ids = New(c, a) /\ task'[t].gen = gen
           /\ task'[t].got = {} /\ task'[t].id = 0
  BY <1>1
<1>5. /\ \A i \in chk[c].ids, j \in feed \ chk[c].ids : i < j
      /\ \A j \in Open : chk[c].last < j
  BY <1>2, <1>3 DEF Sound, OrderInv, CheckOrder, Behind, Front
<1>6. \A j \in Open, m \in New(c, a) : j < m => j \in New(c, a)
  <2> TAKE j \in Open, m \in New(c, a)
  <2>1. j \in feed /\ j \in Int /\ m \in a /\ chk[c].last < j
    BY <1>1, <1>5, FeedIs DEF New, Open
  <2>2. CASE a = feed
    BY <2>1, <2>2 DEF New
  <2>3. CASE a = chk[c].ids
    <3>1. ASSUME j < m, j \notin a PROVE FALSE
      <4>1. m < j
        BY <1>5, <2>1, <2>3, <3>1
      <4>2. m \in Int
        BY <1>1, <2>1, <2>3, FeedIs
      <4> QED
        BY <2>1, <3>1, <4>1, <4>2
    <3> QED
      BY <2>1, <3>1 DEF New
  <2> QED
    BY <2>2, <2>3 DEF Answers
<1>7. TaskOrder(t)'
  <2>1. Current(t)' /\ ~Attempt(t)'
    BY <1>3, <1>4 DEF Current, Attempt, Begun, Sending, Turn, Storing
  <2>2. InBatch(t)'
    BY <1>3, <1>4, <1>6 DEF InBatch
  <2> QED
    BY <1>2, <1>3, <1>4, <2>1, <2>2 DEF TaskOrder, AtHead, Past
<1> QED
  BY <1>1, <1>2, <1>4, <1>7, CheckIdle

\* The baseline: what the first answer leaves out is new.
LEMMA QueueCheckBaseline ==
  ASSUME Sound, NEW c \in Check, CheckBaseline(c)
  PROVE  /\ OrderInv' /\ SavedInv' /\ ~mem.init /\ mem'.init
         /\ mem'.last \in Id /\ (row = None \/ ~Steady(limit))
<1>1. /\ TypeInv /\ TypeInv' /\ CheckWorld /\ \A d \in Check : d # c => chk'[d] = chk[d]
      /\ chk'[c].pc = "persist" /\ chk'[c].gen = chk[c].gen
      /\ mem' \in State /\ mem'.init
      /\ \E a \in Answers(c) \ {{}} : a \in SUBSET Id /\ mem'.last = Max(a)
  BY CheckBaselineType, CheckKeeps DEF Sound, CheckNext
<1>2. UNCHANGED <<task, row>> /\ chk[c].pc = "fetch" /\ Valid(chk[c].gen) /\ ~mem.init
  BY DEF CheckBaseline, db
<1>3. /\ Fetch(c) /\ conf.on /\ conf' = conf /\ gen' = gen /\ feed' = feed /\ published' = published
      /\ up /\ up' = up /\ enabled' = enabled /\ limit' = limit /\ owed' = owed /\ published \in Nat
      /\ feed \subseteq Int
  BY <1>1, <1>2, CheckKeeps, FeedIs DEF Fetch, Valid, CheckWorld, CheckNext
<1>4. PICK a \in Answers(c) \ {{}} : a \in SUBSET Id /\ mem'.last = Max(a)
  BY <1>1
<1>5. PICK m : m = Max(a)
  OBVIOUS
<1>6. m \in a /\ m \in Id /\ m \in Nat /\ m > 0 /\ (\A j \in a : j <= m) /\ mem'.last = m
  <2>1. a # {} /\ a \in SUBSET Id
    BY <1>4
  <2>2. m \in a /\ \A j \in a : j <= m
    BY <2>1, <1>5, MaxTweet
  <2>3. m \in Id
    BY <2>1, <2>2
  <2> QED
    BY <2>2, <2>3, <1>4, <1>5 DEF Id
<1>7. Front' \subseteq Front
  <2> SUFFICES ASSUME NEW j \in feed, m < j PROVE j \in Front
    BY <1>1, <1>3, <1>6 DEF Front, Open
  <2>1. j \notin a
    BY <1>3, <1>4, <1>6 DEF Id
  <2>2. a # feed
    BY <2>1
  <2>3. a = chk[c].ids
    BY <2>2, <1>4 DEF Answers
  <2> QED
    BY <2>1, <2>3, <1>2, <1>3 DEF Front
<1>8. Advance
  BY <1>3, <1>7 DEF Advance
<1>9. ASSUME NEW u \in Task PROVE TaskOrder(u)'
  <2>1. TaskOrder(u) /\ Rests(u)
    BY <1>2 DEF Rests, Sound, OrderInv
  <2>2. task[u].pc # "idle" => ~Current(u)
    BY <1>2, <2>1 DEF TaskOrder
  <2>3. CASE task[u].pc = "idle"
    BY <1>2, <2>3 DEF TaskOrder
  <2> QED
    BY <1>1, <1>3, <1>8, <2>1, <2>2, <2>3, RestGoes, StaleStays DEF Sound
<1>10. ASSUME NEW d \in Check PROVE (chk'[d] = chk[d] /\ (mem.init => mem'.init)) \/ CheckOrder(d)'
  <2>1. ~Fetch(c)' /\ CheckOrder(c)'
    BY <1>1 DEF Fetch, CheckOrder
  <2> QED
    BY <1>1, <2>1
<1>11. OrderInv'
  <2>1. \A u \in Task : TaskOrder(u)'
    BY <1>9
  <2>2. \A d \in Check : (chk'[d] = chk[d] /\ (mem.init => mem'.init)) \/ CheckOrder(d)'
    BY <1>10
  <2>3. mem'.last > 0 /\ mem'.init /\ conf'.on
    BY <1>1, <1>3, <1>6
  <2> QED
    BY <1>1, <1>3, <1>8, <2>1, <2>2, <2>3, OrderAll DEF Sound
<1>12. ASSUME Steady(limit) PROVE Copies \ {None} = {}
  <2>1. \A s \in Copies \ {None} : mem.init
    BY <1>3, <1>12, CopiesIs DEF Sound, Saved
  <2> QED
    BY <2>1, <1>2
<1>13. SavedInv'
  <2>1. Steady(limit)' <=> Steady(limit)
    BY <1>3 DEF Steady
  <2>2. Copies' \subseteq Copies
    BY <1>1, <1>2 DEF Copies
  <2>3. SavedInv' <=> (Steady(limit)' => \A s \in Copies' \ {None} : Saved(s)')
    BY CopiesLater DEF Sound
  <2> QED
    BY <2>1, <2>2, <2>3, <1>12
<1>14. row = None \/ ~Steady(limit)
  BY <1>12 DEF Copies
<1> QED
  BY <1>1, <1>2, <1>6, <1>11, <1>13, <1>14

\* Every step of a check keeps the order.
LEMMA QueueCheck ==
  ASSUME Sound, NEW c \in Check, CheckStart(c) \/ CheckEnd(c) \/ CheckNext(c) \/ CheckDbError(c)
  PROVE  OrderInv' /\ SavedInv'
BY QueueCheckStart, QueueCheckEnd, QueueCheckBaseline, QueueCheckObserve, QueueCheckRead,
   QueueCheckCommit
   DEF CheckNext

-----------------------------------------------------------------------------
(* The order: the world, the administrator, crash and restart *)

\* The coroutines rest, and the life goes on.
LEMMA WorldCalm ==
  ASSUME Sound, Calm, UNCHANGED <<up, enabled, limit, chk, task>>,
         mem'.last = mem.last,
         up' /\ ~conf'.on => ~conf.on, row' = row \/ row' = None
  PROVE  OrderInv' /\ SavedInv'
<1>1. Advance /\ mem'.init = mem.init /\ gen' = gen
  BY DEF Calm, Advance
<1>2. ASSUME NEW u \in Task PROVE TaskOrder(u)'
  <2>1. Rests(u) /\ TaskOrder(u)
    BY DEF Rests, Sound, OrderInv
  <2> QED
    BY <2>1, <1>1, RestGoes, CalmTask DEF Sound
<1>3. up' /\ ~conf'.on => ~mem'.init /\ \A c \in Check : ~Fetch(c)'
  BY <1>1 DEF Sound, OrderInv, Fetch
<1>4. OrderInv'
  <2>1. \A u \in Task : TaskOrder(u)'
    BY <1>2
  <2>2. \A c \in Check : chk'[c] = chk[c]
    OBVIOUS
  <2> QED
    BY <1>1, <1>3, <2>1, <2>2, OrderAll DEF Sound
<1>5. \A s \in Copies' \ {None} : s \in Copies
  BY DEF Copies
<1>6. SavedInv'
  BY <1>5, SavedAll DEF Sound
<1> QED
  BY <1>4, <1>6

\* Memory and feed are the same.
LEMMA SameFront ==
  ASSUME TypeInv, mem'.last = mem.last, mem'.init = mem.init, UNCHANGED <<feed, gen, chk>>
  PROVE  Open' = Open /\ Front' = Front
<1>1. Open' = Open
  BY DEF Open
<1>2. {d \in Check : Fetch(d)}' = {d \in Check : Fetch(d)}
  BY DEF Fetch
<1> QED
  BY <1>1, <1>2 DEF Front

\* Queue and coroutines stay as they are.
LEMMA QueueSame ==
  ASSUME Sound, UNCHANGED <<feed, published, up, gen, mem, enabled, limit, chk, task>>,
         conf.on => conf'.on, row' = row \/ row' = None, \A i \in Id : owed'[i] \subseteq owed[i],
         up' /\ ~conf'.on => ~conf.on
  PROVE  OrderInv' /\ SavedInv'
<1>1. Open' = Open /\ Front' = Front
  BY SameFront DEF Sound
<1>2. Calm
  BY <1>1, FeedIs DEF Sound, Calm, Advance
<1> QED
  BY <1>2, WorldCalm

\* A new tweet comes last.
LEMMA QueuePublish ==
  ASSUME Sound, Publish
  PROVE  OrderInv' /\ SavedInv' /\ Calm /\ (mem.init => Open' = Open \cup {published + 1})
<1>1. /\ TypeInv /\ TypeInv' /\ published \in Nat /\ published' = published + 1
      /\ feed' = feed \cup {published + 1} /\ feed \subseteq 1 .. published
      /\ UNCHANGED <<gen, mem, up, conf, enabled, limit, chk, task, row>>
      /\ mem.last \in Nat /\ mem.last <= published
  BY FeedIs DEF Publish, Sound, proc, db, WorldInv, NoteInv, StateTrue
<1>2. Open' = Open \cup {published + 1}
  BY <1>1 DEF Open
<1>3. \A j \in Front' : j \in Front \/ published < j
  <2>1. CASE mem.init
    BY <1>1, <1>2, <2>1 DEF Front
  <2>2. CASE ~mem.init
    <3> TAKE j \in Front'
    <3>1. PICK d \in Check : Fetch(d)' /\ j \in feed' \ chk'[d].ids
      BY <1>1, <2>2 DEF Front
    <3>2. Fetch(d) /\ chk'[d] = chk[d]
      BY <1>1, <3>1 DEF Fetch
    <3>3. CASE j \in feed
      BY <3>1, <3>2, <3>3, <2>2 DEF Front
    <3>4. CASE j = published + 1
      BY <3>4, <1>1
    <3> QED
      BY <1>1, <3>1, <3>3, <3>4
  <2> QED
    BY <2>1, <2>2
<1>4. \A i \in Id : i <= published => owed'[i] \subseteq owed[i]
  <2> SUFFICES ASSUME NEW i \in Id, i <= published PROVE owed'[i] = owed[i]
    OBVIOUS
  <2>1. i # published + 1 /\ owed \in [Id -> SUBSET Target]
    BY <1>1 DEF TypeInv, TypeOK
  <2> QED
    BY <2>1 DEF Publish
<1>5. Calm
  BY <1>1, <1>2, <1>3, <1>4 DEF Calm, Advance
<1>6. OrderInv' /\ SavedInv'
  BY <1>1, <1>5, WorldCalm
<1> QED
  BY <1>2, <1>5, <1>6

\* A deleted tweet leaves the queue.
LEMMA QueueVanish ==
  ASSUME Sound, NEW i \in Id, Vanish(i)
  PROVE  OrderInv' /\ SavedInv' /\ Open' = Open \ {i}
<1>1. /\ TypeInv /\ published \in Nat /\ published' = published /\ feed' = feed \ {i}
      /\ UNCHANGED <<gen, mem, up, conf, enabled, limit, chk, task, row>>
      /\ owed \in [Id -> SUBSET Target]
  BY FeedIs DEF Vanish, Sound, proc, db, TypeInv, TypeOK
<1>2. Open' = Open \ {i}
  BY <1>1 DEF Open
<1>3. Front' \subseteq Front
  <2>1. CASE mem.init
    BY <1>1, <1>2, <2>1 DEF Front
  <2>2. CASE ~mem.init
    <3> SUFFICES ASSUME NEW j \in Front' PROVE j \in Front
      OBVIOUS
    <3>1. PICK d \in Check : Fetch(d)' /\ j \in feed' \ chk'[d].ids
      BY <1>1, <2>2 DEF Front
    <3>2. Fetch(d) /\ chk'[d] = chk[d]
      BY <1>1, <3>1 DEF Fetch
    <3> QED
      BY <1>1, <3>1, <3>2, <2>2 DEF Front
  <2> QED
    BY <2>1, <2>2
<1>4. \A j \in Id : owed'[j] \subseteq owed[j]
  BY <1>1 DEF Vanish
<1>5. Calm
  BY <1>1, <1>2, <1>3, <1>4 DEF Calm, Advance
<1> QED
  BY <1>1, <1>2, <1>5, WorldCalm

\* Time passes.
LEMMA QueueSixHours == ASSUME Sound, SixHours PROVE OrderInv' /\ SavedInv'
BY QueueSame DEF SixHours, world, db, proc, hist, bound

\* The row is deleted.
LEMMA QueueDeleteRow == ASSUME Sound, DeleteRow PROVE OrderInv' /\ SavedInv'
<1>1. UNCHANGED <<feed, published, up, conf, gen, mem, enabled, chk, task, owed>>
  BY DEF DeleteRow, world, proc, hist
<1>2. limit' = limit /\ (row' = row \/ row' = None)
  BY DEF DeleteRow, bound
<1> QED
  BY <1>1, <1>2, QueueSame

\* Targets leave, or the blogger is disabled, or enabled again.
LEMMA QueueReloadStart ==
  ASSUME Sound, NEW new \in limit.menu, ReloadStart(new) PROVE OrderInv' /\ SavedInv'
<1>1. /\ UNCHANGED <<feed, published, up, conf, gen, mem, limit, chk, task>>
      /\ row' = row \/ row' = None
      /\ up /\ reload = "idle" /\ enabled' = IF cfg.on THEN enabled ELSE published
      /\ \A i \in Id : owed'[i] \subseteq owed[i]
  BY DEF ReloadStart, world, proc
<1>2. CASE cfg.on
  BY <1>1, <1>2, QueueSame
<1>3. CASE ~cfg.on
  <2>1. conf = cfg /\ ~mem.init /\ \A c \in Check : ~Fetch(c)
    BY <1>1, <1>3 DEF Sound, WorldInv, OrderInv
  <2>2. Open' = Open /\ Front' = Front /\ Front = {} /\ published \in Nat
    <3>1. {d \in Check : Fetch(d)} = {}
      BY <2>1
    <3>2. Front = {}
      BY <2>1, <3>1 DEF Front
    <3> QED
      BY <1>1, <3>2, SameFront, FeedIs DEF Sound
  <2>3. Calm
    BY <1>1, <2>2 DEF Calm, Advance
  <2>4. ASSUME NEW u \in Task PROVE TaskOrder(u)'
    <3>1. Rests(u) /\ TaskOrder(u)
      BY <1>1 DEF Rests, Sound, OrderInv
    <3> QED
      BY <3>1, <1>1, <2>3, RestGoes, CalmTask DEF Sound
  <2>5. Behind(enabled)'
    BY <1>1, <1>3, <2>2 DEF Behind
  <2>6. ~mem'.init /\ \A c \in Check : ~Fetch(c)'
    BY <1>1, <2>1 DEF Fetch
  <2>7. OrderInv'
    <3>1. \A u \in Task : TaskOrder(u)'
      BY <2>4
    <3>2. \A c \in Check : chk'[c] = chk[c] /\ (mem.init => mem'.init)
      BY <1>1
    <3> QED
      BY <1>1, <2>3, <2>5, <2>6, <3>1, <3>2, OrderAll DEF Sound, Calm
  <2>8. SavedInv'
    <3>1. ~Steady(limit)'
      BY <1>1, <1>3 DEF Sound, LifeInv, Steady
    <3> QED
      BY <3>1 DEF SavedInv
  <2> QED
    BY <2>7, <2>8
<1> QED
  BY <1>2, <1>3

\* Another life: what was in the queue is forgotten, and nobody is owed anything.
LEMMA NewLife ==
  ASSUME Sound, UNCHANGED <<feed, published, enabled, limit, chk, task>>, gen' = gen + 1,
         ~mem'.init, mem'.last = 0, \A i \in Id : owed'[i] = {}, ~Steady(limit)
  PROVE  OrderInv' /\ SavedInv'
<1>1. TypeInv /\ gen \in Nat /\ published \in Nat
  BY FeedIs DEF Sound, TypeInv, TypeOK
<1>2. ASSUME NEW c \in Check PROVE ~Fetch(c)' /\ CheckOrder(c)'
  <2>1. chk[c].pc # "idle" => chk[c].gen <= gen
    BY <1>1 DEF TypeInv, CheckPlan
  <2>2. chk[c].gen \in Nat
    BY <1>1 DEF TypeInv, TypeOK, CheckRec
  <2>3. chk[c].pc # "idle" => chk[c].gen # gen + 1
    BY <1>1, <2>1, <2>2
  <2> QED
    BY <2>3 DEF Fetch, CheckOrder
<1>3. Front' = {}
  <2>1. {d \in Check : Fetch(d)}' = {}
    BY <1>2
  <2> QED
    BY <2>1 DEF Front
<1>4. ASSUME NEW l \in Nat, l <= published PROVE Behind(l)'
  BY <1>3, <1>4 DEF Behind
<1>5. ASSUME NEW u \in Task PROVE TaskOrder(u)'
  <2>1. task[u].pc # "idle" => task[u].gen <= gen
    BY <1>1 DEF TypeInv, Life
  <2>2. task[u].gen \in Nat
    BY <1>1 DEF TypeInv, TypeOK, TaskRec
  <2>3. ~Current(u)'
    BY <1>1, <2>1, <2>2 DEF Current
  <2>4. PICK i : i = task[u].id
    OBVIOUS
  <2>5. i \in Nat /\ i <= published
    BY <1>1, <2>4, FeedIs DEF Sound, NoteInv, TaskTrue
  <2>6. Behind(i)'
    BY <1>4, <2>5
  <2> QED
    BY <2>3, <2>4, <2>6 DEF TaskOrder
<1>6. Behind(mem.last)' /\ Behind(enabled)'
  <2>1. PICK e : e = enabled
    OBVIOUS
  <2>2. e \in Nat /\ e <= published
    BY <1>1, <2>1, FeedIs DEF Sound, WorldInv
  <2>3. Behind(e)'
    BY <1>4, <2>2
  <2>4. Behind(0)'
    BY <1>1, <1>4
  <2>5. PICK l : l = 0
    OBVIOUS
  <2>6. Behind(l)' /\ mem'.last = l
    BY <2>4, <2>5
  <2> QED
    BY <2>1, <2>3, <2>6
<1>7. OrderInv'
  BY <1>2, <1>5, <1>6 DEF OrderInv
<1>8. SavedInv'
  <2>1. ~Steady(limit)'
    BY DEF Steady
  <2> QED
    BY <2>1 DEF SavedInv
<1> QED
  BY <1>7, <1>8

\* Off: nobody is owed anything.
LEMMA OwedOff == ASSUME TypeInv, WorldInv, ~cfg.on, NEW i \in Id PROVE owed[i] = {}
<1>1. cfg.to = {}
  BY ConfigIs DEF TypeInv, TypeOK
<1> QED
  BY <1>1 DEF WorldInv

\* The process takes over the configuration; disabled, it starts another life.
LEMMA QueueReloadApply ==
  ASSUME Sound, ReloadApply PROVE OrderInv' /\ SavedInv'
<1>1. /\ UNCHANGED <<feed, published, up, enabled, limit, chk, task, owed, row>>
      /\ conf' = cfg
  BY DEF ReloadApply, world, db, hist, bound
<1>2. CASE conf.on /\ ~cfg.on
  <2>1. gen' = gen + 1 /\ mem' = Blank
    BY <1>2 DEF ReloadApply
  <2>2. ~mem'.init /\ mem'.last = 0
    BY <2>1, BlankIs
  <2>3. ~Steady(limit)
    BY <1>2 DEF Sound, LifeInv
  <2>4. \A i \in Id : owed'[i] = {}
    BY <1>1, <1>2, OwedOff DEF Sound
  <2> QED
    BY <1>1, <2>1, <2>2, <2>3, <2>4, NewLife
<1>3. CASE ~(conf.on /\ ~cfg.on)
  <2>1. UNCHANGED <<gen, mem>>
    BY <1>3 DEF ReloadApply
  <2> QED
    BY <1>1, <1>3, <2>1, QueueSame
<1> QED
  BY <1>2, <1>3

\* Enabled again, it starts over.
LEMMA QueueReloadReset ==
  ASSUME Sound, ReloadReset PROVE OrderInv' /\ SavedInv'
<1>1. /\ UNCHANGED <<feed, published, enabled, limit, chk, task>>
      /\ gen' = gen + 1 /\ mem' = [mem EXCEPT !.last = 0, !.init = FALSE]
      /\ owed' = [i \in Id |-> {}] /\ reload = "reset" /\ mem \in State
  BY DEF ReloadReset, world, bound, Sound, TypeInv, TypeOK
<1>2. ~mem'.init /\ mem'.last = 0
  BY <1>1 DEF State
<1>3. ~Steady(limit)
  BY <1>1 DEF Sound, LifeInv
<1>4. \A i \in Id : owed'[i] = {}
  BY <1>1
<1> QED
  BY <1>1, <1>2, <1>3, <1>4, NewLife

\* No coroutine is running, and nothing but the row is there to be taken over.
LEMMA Alone ==
  ASSUME TypeInv', published' = published, \A c \in Check : chk'[c].pc = "idle",
         \A t \in Task : task'[t].pc = "idle", enabled' = enabled, enabled <= published
  PROVE  /\ \A c \in Check : ~Fetch(c)' /\ CheckOrder(c)'
         /\ \A t \in Task : TaskOrder(t)'
         /\ Copies' = {row'}
         /\ ~mem'.init => Front' = {} /\ Behind(enabled)'
<1>1. \A c \in Check : ~Fetch(c)' /\ CheckOrder(c)'
  BY DEF Fetch, CheckOrder
<1>2. \A t \in Task : TaskOrder(t)'
  BY DEF TaskOrder
<1>3. Copies' = {row'}
  <2>1. {d \in Check : chk'[d].pc = "commit"} = {} /\ {u \in Task : task'[u].pc = "commit"} = {}
    OBVIOUS
  <2> QED
    BY <2>1 DEF Copies
<1>4. ~mem'.init => Front' = {}
  <2>1. {d \in Check : Fetch(d)}' = {}
    BY <1>1
  <2> QED
    BY <2>1 DEF Front
<1>5. ~mem'.init => Behind(enabled)'
  BY <1>4 DEF Behind
<1> QED
  BY <1>1, <1>2, <1>3, <1>4, <1>5

\* A crash leaves only the row.
LEMMA QueueCrash == ASSUME CrashParted, Sound, Crash PROVE OrderInv' /\ SavedInv'
<1>1. /\ Steady(limit) /\ UNCHANGED <<feed, published, enabled, limit, row>> /\ up' = FALSE
      /\ mem' = Blank
      /\ \A c \in Check : chk'[c].pc = "idle"
      /\ \A t \in Task : task'[t].pc = "idle"
  BY CrashSteady DEF Crash, Sound, world, db, IdleCheck, IdleTask
<1>2. /\ \A c \in Check : ~Fetch(c)' /\ CheckOrder(c)'
      /\ \A t \in Task : TaskOrder(t)'
      /\ Copies' = {row'}
      /\ ~mem'.init => Front' = {} /\ Behind(enabled)'
  <2>1. enabled <= published
    BY DEF Sound, WorldInv
  <2> QED
    BY <1>1, <2>1, Alone DEF Sound
<1>3. ~mem'.init /\ mem'.last = 0
  BY <1>1, BlankIs
<1>4. Behind(mem.last)'
  <2>1. PICK l : l = 0
    OBVIOUS
  <2>2. Behind(l)'
    BY <1>1, <1>2, <1>3, <2>1, FeedIs DEF Behind, Sound
  <2> QED
    BY <1>3, <2>1, <2>2
<1>5. OrderInv'
  BY <1>1, <1>2, <1>3, <1>4 DEF OrderInv
<1>6. row # None => Saved(row)'
  <2>1. row # None => Saved(row)
    BY <1>1 DEF Sound, SavedInv
  <2> QED
    BY <1>1, <2>1 DEF Saved
<1>7. SavedInv'
  <2>1. \A s \in Copies' \ {None} : Saved(s)'
    BY <1>1, <1>2, <1>6
  <2> QED
    BY <2>1, CopiesLater DEF Sound
<1> QED
  BY <1>5, <1>7

\* The process takes over what is stored.
LEMMA TakesOver ==
  ASSUME Sound, Restart
  PROVE  /\ Steady(limit) /\ ~up /\ row' = row /\ mem' = Restored(row)
         /\ row = None => mem' = Blank
         /\ row # None => Saved(row) /\ Restored(row).last = row.last /\ Restored(row).init
<1>1. Steady(limit) /\ ~up /\ cfg.on
  BY DEF Restart, Sound, LifeInv
<1>2. row' = row /\ mem' = Restored(row)
  BY <1>1 DEF Restart
<1>3. row = None => mem' = Blank
  BY <1>2 DEF Restored
<1>4. ASSUME row # None PROVE Saved(row) /\ Restored(row).init /\ Restored(row).last = row.last
  <2>1. Saved(row) /\ row \in State
    BY <1>1, <1>4 DEF Sound, SavedInv, TypeInv, TypeOK
  <2>2. row.init /\ row.last # 0
    BY <2>1 DEF Saved, State
  <2> QED
    BY <1>4, <2>1, <2>2 DEF Restored, State
<1> QED
  BY <1>1, <1>2, <1>3, <1>4

\* The process takes over the cursor of the row.
LEMMA QueueRestart == ASSUME Sound, Restart PROVE OrderInv' /\ SavedInv'
<1>1. /\ TypeInv /\ TypeInv' /\ UNCHANGED <<feed, published, enabled, limit, chk, task, owed>>
      /\ up' /\ conf' = cfg
  BY DEF Restart, Sound, world, hist, bound
<1>2. /\ Steady(limit) /\ ~up /\ row' = row
      /\ row = None => mem' = Blank
      /\ row # None => Saved(row) /\ mem'.init /\ mem'.last = row.last
  <2>1. /\ Steady(limit) /\ ~up /\ row' = row /\ mem' = Restored(row)
        /\ row = None => mem' = Blank
        /\ row # None => Saved(row) /\ Restored(row).last = row.last /\ Restored(row).init
    BY TakesOver
  <2> QED
    BY <2>1
<1>3. /\ \A c \in Check : chk'[c].pc = "idle"
      /\ \A t \in Task : task'[t].pc = "idle"
  BY <1>1, <1>2 DEF TypeInv, CheckPlan, Life
<1>4. /\ \A c \in Check : ~Fetch(c)' /\ CheckOrder(c)'
      /\ \A t \in Task : TaskOrder(t)'
      /\ Copies' = {row'}
      /\ ~mem'.init => Front' = {} /\ Behind(enabled)'
  <2>1. enabled <= published
    BY DEF Sound, WorldInv
  <2> QED
    BY <1>1, <1>3, <2>1, Alone
<1>5. CASE row = None
  <2>1. ~mem'.init /\ mem'.last = 0
    BY <1>2, <1>5, BlankIs
  <2>2. Behind(mem.last)'
    <3>1. PICK l : l = 0
      OBVIOUS
    <3>2. Behind(l)'
      BY <1>1, <1>4, <2>1, <3>1, FeedIs DEF Behind
    <3> QED
      BY <2>1, <3>1, <3>2
  <2>3. OrderInv'
    BY <1>4, <2>1, <2>2 DEF OrderInv
  <2>4. SavedInv'
    <3>1. \A s \in Copies' \ {None} : Saved(s)'
      BY <1>2, <1>4, <1>5
    <3> QED
      BY <3>1, CopiesLater DEF Sound
  <2> QED
    BY <2>3, <2>4
<1>6. CASE row # None
  <2>1. /\ 0 < row.last /\ row.init
        /\ \A j \in feed : row.last < j => enabled < j
        /\ mem'.init /\ mem'.last = row.last
    BY <1>2, <1>6 DEF Saved
  <2>2. Open' = {j \in feed : row.last < j} /\ Front' = Open'
    BY <1>1, <2>1 DEF Open, Front
  <2>3. Behind(enabled)'
    <3>1. enabled <= published
      BY DEF Sound, WorldInv
    <3> QED
      BY <1>1, <2>1, <2>2, <3>1 DEF Behind
  <2>4. mem'.last > 0
    BY <1>1, <2>1, <1>6 DEF TypeInv, TypeOK, State
  <2>5. OrderInv'
    <3>1. mem'.init /\ conf'.on
      BY <1>1, <1>2, <2>1 DEF Sound, LifeInv
    <3> QED
      BY <1>4, <2>3, <2>4, <3>1 DEF OrderInv
  <2>6. Saved(row)'
    BY <1>1, <1>2, <2>1, <2>2 DEF Saved
  <2>7. SavedInv'
    <3>1. \A s \in Copies' \ {None} : Saved(s)'
      BY <1>4, <2>6
    <3> QED
      BY <3>1, CopiesLater DEF Sound
  <2> QED
    BY <2>5, <2>7
<1> QED
  BY <1>5, <1>6

\* At the start nothing is running, and the row is the baseline.
LEMMA QueueInit == ASSUME Init, TypeInv, NoteInv PROVE OrderInv /\ SavedInv
<1>1. /\ feed = 1 .. published /\ enabled = published /\ published \in Nat
      /\ mem = IF row = None THEN Blank ELSE row
      /\ row = IF published = 0 \/ ~cfg.on THEN None
               ELSE [last |-> published, init |-> TRUE, pend |-> None]
      /\ chk = [c \in Check |-> IdleCheck] /\ task = [t \in Task |-> IdleTask] /\ conf = cfg
  BY FeedIs DEF Init
<1>2. /\ \A c \in Check : chk[c].pc = "idle"
      /\ \A t \in Task : task[t].pc = "idle"
  BY <1>1 DEF IdleCheck, IdleTask
<1>3. Front = {} /\ (mem.init => Open = {})
  <2>1. CASE mem.init
    <3>1. mem.last = published
      BY <1>1, <2>1, BlankIs
    <3>2. Open = {}
      BY <1>1, <3>1 DEF Open
    <3> QED
      BY <2>1, <3>2 DEF Front
  <2>2. CASE ~mem.init
    <3>1. {d \in Check : Fetch(d)} = {}
      BY <1>2 DEF Fetch
    <3> QED
      BY <2>2, <3>1 DEF Front
  <2> QED
    BY <2>1, <2>2
<1>4. \A c \in Check : CheckOrder(c) /\ ~Fetch(c)
  BY <1>2 DEF CheckOrder, Fetch
<1>5. \A t \in Task : TaskOrder(t)
  BY <1>2 DEF TaskOrder
<1>6. CASE row = None
  <2>1. ~mem.init /\ mem.last = 0
    BY <1>1, <1>6, BlankIs
  <2>2. Behind(mem.last) /\ Behind(enabled)
    BY <1>1, <1>3, <2>1 DEF Behind
  <2>3. OrderInv
    BY <1>4, <1>5, <2>1, <2>2 DEF OrderInv
  <2>4. SavedInv
    BY <1>2, <1>6 DEF SavedInv
  <2> QED
    BY <2>3, <2>4
<1>7. CASE row # None
  <2>1. /\ mem = row /\ row.last = published /\ row.init /\ published > 0 /\ cfg.on
    BY <1>1, <1>7
  <2>2. Behind(enabled) /\ mem.last > 0
    BY <1>1, <1>3, <2>1 DEF Behind
  <2>3. OrderInv
    BY <1>1, <1>4, <1>5, <2>1, <2>2 DEF OrderInv
  <2>4. Saved(row)
    <3>1. 0 < row.last /\ \A j \in feed : ~(row.last < j)
      BY <1>1, <2>1
    <3> QED
      BY <1>3, <2>1, <3>1 DEF Saved
  <2>5. SavedInv
    BY <1>2, <2>4 DEF SavedInv
  <2> QED
    BY <2>3, <2>5
<1> QED
  BY <1>6, <1>7

\* What was proved before: types, world and notes.
LEMMA TypeNotes ==
  ASSUME TypeInv, WorldInv, NoteInv, [Next]_vars PROVE TypeInv' /\ WorldInv' /\ NoteInv'
BY StepType, WorldStep, NoteStep

\* The invariant is inductive.
LEMMA QueueStep ==
  ASSUME CrashParted, TypeInv, WorldInv, NoteInv, QueueInv, [Next]_vars PROVE QueueInv'
<1>1. Sound
  BY TypeNotes DEF Sound, QueueInv
<1>2. LifeInv'
  BY LifeStep DEF QueueInv
<1>3. CASE UNCHANGED vars
  <2>1. UNCHANGED <<feed, published, up, conf, gen, mem, enabled, limit, chk, task, row, owed>>
    BY <1>3 DEF vars, world, db, proc, hist, bound
  <2>2. OrderInv' /\ SavedInv'
    BY <1>1, <2>1, QueueSame
  <2> QED
    BY <1>2, <2>2 DEF QueueInv
<1>4. CASE Publish \/ (\E i \in Id : Vanish(i)) \/ SixHours
  BY <1>1, <1>2, <1>4, QueuePublish, QueueVanish, QueueSixHours DEF QueueInv
<1>5. CASE (\E c \in Check : CheckStart(c) \/ CheckEnd(c) \/ CheckNext(c) \/ CheckDbError(c))
  BY <1>1, <1>2, <1>5, QueueCheck DEF QueueInv
<1>6. CASE (\E t \in Task : TaskNext(t) \/ SendRefused(t) \/ SendLost(t) \/ TaskDbError(t))
  BY <1>1, <1>2, <1>6, QueueTask DEF QueueInv
<1>7. CASE (\E new \in limit.menu : ReloadStart(new)) \/ ReloadApply \/ ReloadReset \/ DeleteRow
  BY <1>1, <1>2, <1>7, QueueReloadStart, QueueReloadApply, QueueReloadReset, QueueDeleteRow
     DEF QueueInv
<1>8. CASE Crash \/ Restart
  BY <1>1, <1>2, <1>8, QueueCrash, QueueRestart DEF QueueInv
<1> QED
  BY <1>3, <1>4, <1>5, <1>6, <1>7, <1>8 DEF Next

\* The invariant holds in every state.
LEMMA QueueHolds ==
  ASSUME CrashParted PROVE Spec => [](TypeInv /\ WorldInv /\ NoteInv /\ QueueInv)
<1>1. Init => TypeInv /\ WorldInv /\ NoteInv /\ QueueInv
  BY InitType, WorldInit, NoteInit, LifeInit, QueueInit DEF QueueInv
<1>2. TypeInv /\ WorldInv /\ NoteInv /\ QueueInv /\ [Next]_vars
      => (TypeInv /\ WorldInv /\ NoteInv /\ QueueInv)'
  BY TypeNotes, QueueStep
<1> QED
  BY <1>1, <1>2, PTL DEF Spec

-----------------------------------------------------------------------------
(* The steps of TweetFeed *)

\* The queue of TweetFeed: what the cursor that is in force has not passed.
Line == IF Cursor.init THEN {i \in feed : Cursor.last < i} ELSE {}

\* What is to be proved, written with the queue of this module.
LEMMA FeedSpec == Queue <=> Feed!Init /\ [][Feed!Next]_<<Line, owed>>
BY DEF Queue, Feed!Spec, Line

\* TweetFeed starts with an empty queue.
LEMMA FeedInit == Feed!Init <=> Line = {} /\ owed = [i \in Id |-> {}]
BY DEF Feed!Init, Line, Feed!Id, Id

\* A tweet joins the queue at its end.
LEMMA FeedPublish ==
  ASSUME NEW i \in Id, NEW T \in SUBSET Target, owed[i] = {}, \A j \in Line : j < i,
         owed' = [owed EXCEPT ![i] = T], Line' \in {Line, Line \cup {i}}
  PROVE  Feed!Next
<1>1. Feed!Publish(i, T)
  BY DEF Feed!Publish, Line
<1> QED
  BY <1>1 DEF Feed!Next, Feed!Id, Id

\* A target of the head is served.
LEMMA FeedServe ==
  ASSUME NEW i \in Line, i \in Id, \A j \in Line : i <= j, NEW x \in Target, x \in owed[i],
         owed' = [owed EXCEPT ![i] = @ \ {x}], Line' = Line
  PROVE  Feed!Next
<1>1. Feed!Serve(i, x)
  BY DEF Feed!Serve, Feed!Head, Line
<1> QED
  BY <1>1 DEF Feed!Next, Feed!Id, Id

\* The head leaves: nobody is owed it.
LEMMA FeedClose ==
  ASSUME NEW i \in Line, i \in Id, \A j \in Line : i <= j,
         owed[i] = {}, UNCHANGED owed, Line' = Line \ {i}
  PROVE  Feed!Next
<1>1. Feed!Close(i)
  BY DEF Feed!Close, Feed!Head, Line
<1> QED
  BY <1>1 DEF Feed!Next, Feed!Id, Id

\* The head is given up.
LEMMA FeedGiveUp ==
  ASSUME NEW i \in Line, i \in Id, \A j \in Line : i <= j,
         owed' = [owed EXCEPT ![i] = {}], Line' = Line \ {i}
  PROVE  Feed!Next
<1>1. Feed!GiveUp(i)
  BY DEF Feed!GiveUp, Feed!Head, Line
<1> QED
  BY <1>1 DEF Feed!Next, Feed!Id, Id

\* A tweet is deleted.
LEMMA FeedDelete ==
  ASSUME NEW i \in Id, owed' = [owed EXCEPT ![i] = {}], Line' = Line \ {i}
  PROVE  Feed!Next
<1>1. Feed!Delete(i)
  BY DEF Feed!Delete, Line
<1> QED
  BY <1>1 DEF Feed!Next, Feed!Id, Id

\* Targets leave.
LEMMA FeedLeave ==
  ASSUME NEW T \in SUBSET Target, owed' = [i \in Id |-> owed[i] \cap T], Line' = Line
  PROVE  Feed!Next
<1>1. Feed!Leave(T)
  BY DEF Feed!Leave, Line, Feed!Id, Id
<1> QED
  BY <1>1 DEF Feed!Next

\* A queue is followed from its baseline on.
LEMMA FeedFollow ==
  ASSUME NEW b \in 0 .. MaxId, feed \in SUBSET Id, Line = {}, Line' = {i \in feed : b < i},
         UNCHANGED owed
  PROVE  Feed!Next
<1>1. PICK F \in SUBSET Id : F = feed
  OBVIOUS
<1>2. Feed!Follow(b, F)
  BY <1>1 DEF Feed!Follow, Line
<1> QED
  BY <1>2 DEF Feed!Next, Feed!Id, Id

\* The queue starts over.
LEMMA FeedStartOver ==
  ASSUME Line' = {}, owed' = [i \in Id |-> {}]
  PROVE  Feed!Next
<1>1. Feed!StartOver
  BY DEF Feed!StartOver, Line, Feed!Id, Id
<1> QED
  BY <1>1 DEF Feed!Next

\* Tweets come back that nobody is owed.
LEMMA FeedRelapse ==
  ASSUME NEW S \in SUBSET Id, \A i \in S : owed[i] = {}, Line' = Line \cup S, UNCHANGED owed
  PROVE  Feed!Next
<1>1. Feed!Relapse(S)
  BY DEF Feed!Relapse, Line
<1> QED
  BY <1>1 DEF Feed!Next, Feed!Id, Id

-----------------------------------------------------------------------------
(* Each step is one of TweetFeed, or none *)

\* The step is one of TweetFeed, or changes nothing of it.
Feeds == Feed!Next \/ UNCHANGED <<Line, owed>>

\* While the process is up the queue is what its cursor has not passed.
LEMMA LineIs == up => Line = IF mem.init THEN Open ELSE {}
BY DEF Line, Cursor, Open

\* The same after a step.
LEMMA LineLater == (up => Line = IF mem.init THEN Open ELSE {})'
BY LineIs, PTL

\* Neither the cursor nor what is owed changes.
LEMMA FeedSame ==
  ASSUME Sound, up, up', mem'.init = mem.init, mem.init => Open' = Open, UNCHANGED owed
  PROVE  Feeds
BY LineIs, LineLater DEF Feeds

\* A step of a task that changes neither the cursor nor what is owed.
LEMMA FeedQuiet ==
  ASSUME Sound, TaskWorld, up, mem'.last = mem.last, mem'.init = mem.init, UNCHANGED owed
  PROVE  Feeds
<1>1. up' /\ Open' = Open
  BY DEF TaskWorld, Open
<1> QED
  BY <1>1, FeedSame

\* A target that gets or refuses the tweet in turn: it is the head, if anybody is owed it.
LEMMA FeedServes ==
  ASSUME Sound, NEW t \in Task, Turn(t), TaskWorld, mem'.last = mem.last, mem'.init = mem.init,
         owed' = owed \/ owed' = [owed EXCEPT ![task[t].id] = @ \ {task[t].to}]
  PROVE  Feeds
<1>1. /\ task[t].id \in Id /\ task[t].to \in Target /\ Attempt(t) /\ task[t].pc # "idle" /\ up
      /\ owed \in [Id -> SUBSET Target]
  BY TurnIs, InTurnIs DEF Sound, TypeInv, TypeOK
<1>2. CASE owed' = owed
  BY <1>1, <1>2, FeedQuiet
<1>3. CASE /\ task[t].to \notin owed[task[t].id]
           /\ owed' = [owed EXCEPT ![task[t].id] = @ \ {task[t].to}]
  <2>1. owed' = owed
    BY <1>1, <1>3
  <2> QED
    BY <1>1, <2>1, FeedQuiet
<1>4. CASE task[t].to \in owed[task[t].id] /\ owed' = [owed EXCEPT ![task[t].id] = @ \ {task[t].to}]
  <2>1. PICK i \in Id, x \in Target : i = task[t].id /\ x = task[t].to
    BY <1>1
  <2>2. owed[i] # {} /\ x \in owed[i]
    BY <1>4, <2>1
  <2>3. i \in feed
    BY <2>2 DEF Sound, WorldInv
  <2>4. TaskOrder(t)
    BY DEF Sound, OrderInv
  <2>5. Current(t)
    BY <1>1, <2>1, <2>2, <2>4 DEF TaskOrder
  <2>6. mem.init /\ AtHead(t)
    BY <1>1, <2>4, <2>5 DEF TaskOrder
  <2>7. i \in Open /\ \A j \in Open : i <= j
    BY <1>1, <2>1, <2>3, <2>6, ParamAssumption DEF AtHead, Id
  <2>8. Line = Open /\ Line' = Open
    <3>1. up' /\ mem'.init /\ Open' = Open
      BY <1>1, <2>6 DEF TaskWorld, Open
    <3> QED
      BY <1>1, <2>6, <3>1, LineIs, LineLater
  <2>9. owed' = [owed EXCEPT ![i] = @ \ {x}]
    BY <1>4, <2>1
  <2> QED
    BY <2>2, <2>7, <2>8, <2>9, FeedServe DEF Feeds
<1> QED
  BY <1>2, <1>3, <1>4

\* The tweet in turn leaves the queue, unless it was deleted or the task is of a former life.
LEMMA FeedPasses ==
  ASSUME Sound, TaskGrows, NEW t \in Task, Attempt(t), PassesOn(t), TaskWorld, UNCHANGED row,
         \/ owed' = owed /\ (Current(t) => owed[task[t].id] = {})
         \/ owed' = [owed EXCEPT ![task[t].id] = {}]
  PROVE  Feeds
<1>1. PICK i \in Id : i = task[t].id
  BY InTurnIs DEF Sound
<1>2. /\ up /\ up' /\ i \in Nat /\ task[t].pc # "idle" /\ feed' = feed
      /\ owed \in [Id -> SUBSET Target] /\ TaskOrder(t)
  BY <1>1, InTurnIs DEF Sound, TypeInv, TypeOK, TaskWorld, OrderInv
<1>3. CASE owed[i] = {} /\ (mem.init => Open' = Open) /\ mem'.init = mem.init
  <2>1. owed' = owed
    BY <1>1, <1>2, <1>3
  <2> QED
    BY <1>2, <1>3, <2>1, FeedSame
<1>4. CASE ~Current(t)
  <2>1. owed[i] = {}
    BY <1>1, <1>2, <1>4 DEF TaskOrder
  <2>2. mem.init => Open' = Open
    BY <1>4, QueueStale
  <2>3. mem'.init = mem.init
    BY <1>1, PassedIs DEF PassesOn, Sound
  <2> QED
    BY <1>3, <2>1, <2>2, <2>3
<1>5. CASE Current(t)
  <2>1. Open' = Open \ {i} /\ mem.init /\ mem'.init
    BY <1>1, <1>5, HeadLeaves
  <2>2. AtHead(t)
    BY <1>2, <1>5 DEF TaskOrder
  <2>3. (i \in feed => i \in Open) /\ \A j \in Open : i <= j
    BY <1>1, <1>2, <2>2 DEF AtHead
  <2>4. CASE i \notin Open
    <3>1. owed[i] = {}
      BY <2>3, <2>4 DEF Sound, WorldInv
    <3> QED
      BY <1>3, <2>1, <2>4, <3>1
  <2>5. CASE i \in Open
    <3>1. Line = Open /\ Line' = Open \ {i}
      BY <1>2, <2>1, LineIs, LineLater
    <3>2. CASE owed' = owed /\ owed[i] = {}
      BY <2>3, <2>5, <3>1, <3>2, FeedClose DEF Feeds
    <3>3. CASE owed' = [owed EXCEPT ![i] = {}]
      BY <2>3, <2>5, <3>1, <3>3, FeedGiveUp DEF Feeds
    <3> QED
      BY <1>1, <1>5, <3>2, <3>3
  <2> QED
    BY <2>4, <2>5
<1> QED
  BY <1>4, <1>5

\* A target in turn is over.
LEMMA OversFeeds ==
  ASSUME Sound, NEW t \in Task, TaskWorld, UNCHANGED <<mem, owed>>, task[t].pc # "idle"
  PROVE  Feeds
<1>1. up
  BY DEF Sound, TypeInv, Life
<1> QED
  BY <1>1, FeedQuiet

\* Media are missing: nothing changes in the queue, or the head is given up.
LEMMA FeedMediaMissing == ASSUME Sound, TaskGrows, NEW t \in Task, MediaMissing(t) PROVE Feeds
<1>1. /\ TaskWorld /\ UNCHANGED <<row, sent>> /\ task[t].pc = "media"
      /\ \/ PassesOn(t) /\ owed' = [owed EXCEPT ![task[t].id] = {}]
         \/ Halts(t) /\ UNCHANGED <<mem, owed>>
         \/ Halts(t) /\ Pends(Waiting(t)) /\ UNCHANGED owed
  BY MediaMissingType DEF Sound
<1>2. Attempt(t) /\ up
  BY <1>1, InTurnIs DEF Attempt, Sound
<1>3. CASE PassesOn(t) /\ owed' = [owed EXCEPT ![task[t].id] = {}]
  BY <1>1, <1>2, <1>3, FeedPasses
<1>4. CASE UNCHANGED <<mem, owed>>
  BY <1>1, <1>2, <1>4, FeedQuiet
<1>5. CASE Pends(Waiting(t)) /\ UNCHANGED owed
  <2>1. PICK p : Pends(p)
    BY <1>5
  <2> QED
    BY <2>1, <1>1, <1>2, <1>5, PendsLast, FeedQuiet DEF Sound
<1> QED
  BY <1>1, <1>3, <1>4, <1>5

\* Media are there: nothing changes, or the head that has no targets leaves.
LEMMA FeedMediaReady == ASSUME Sound, TaskGrows, NEW t \in Task, MediaReady(t) PROVE Feeds
<1>1. /\ TaskWorld /\ UNCHANGED <<row, sent, owed>> /\ task[t].pc = "media"
      /\ \/ PassesOn(t) /\ conf.to = {} /\ Kept(task[t].id)
         \/ Halts(t) /\ (Pends(None) \/ Pends(mem.pend))
         \/ Begins(t) /\ Pends(Rostered(t)) /\ Live(t)
  BY MediaReadyType DEF Sound
<1>2. Attempt(t) /\ up /\ task[t].id \in Id
  <2>1. Attempt(t)
    BY <1>1 DEF Attempt
  <2> QED
    BY <2>1, InTurnIs DEF Sound
<1>3. CASE PassesOn(t) /\ conf.to = {}
  <2>1. owed[task[t].id] = {}
    BY <1>2, <1>3 DEF Sound, WorldInv
  <2> QED
    BY <2>1, <1>1, <1>2, <1>3, FeedPasses
<1>4. CASE \E p : Pends(p)
  <2>1. PICK p : Pends(p)
    BY <1>4
  <2> QED
    BY <2>1, <1>1, <1>2, PendsLast, FeedQuiet DEF Sound
<1> QED
  BY <1>1, <1>3, <1>4

\* The attempt begins: nothing changes in the queue.
LEMMA FeedSendBegin == ASSUME Sound, NEW t \in Task, SendBegin(t) PROVE Feeds
<1>1. /\ TaskWorld /\ UNCHANGED owed /\ task[t].pc = "ready"
      /\ UNCHANGED mem \/ Pends(Rostered(t))
  BY SendBeginType DEF Sound
<1>2. up
  BY <1>1 DEF Sound, TypeInv, Life
<1>3. CASE \E p : Pends(p)
  <2>1. PICK p : Pends(p)
    BY <1>3
  <2> QED
    BY <2>1, <1>1, <1>2, PendsLast, FeedQuiet DEF Sound
<1> QED
  BY <1>1, <1>2, <1>3, FeedQuiet

\* The attempt is over: the head leaves, is given up, or is tried again.
LEMMA FeedSettle == ASSUME Sound, TaskGrows, NEW t \in Task, Settle(t) PROVE Feeds
<1>1. /\ TaskWorld /\ UNCHANGED <<row, sent>> /\ task[t].pc = "send"
      /\ \/ ~Live(t) /\ Halts(t) /\ UNCHANGED <<mem, owed>>
         \/ /\ Live(t) /\ PassesOn(t) /\ Failed(t) \cup Missing(t) = {} /\ UNCHANGED owed
         \/ Live(t) /\ PassesOn(t) /\ owed' = [owed EXCEPT ![task[t].id] = {}]
         \/ Live(t) /\ Halts(t) /\ Pends(Settled(t)) /\ UNCHANGED owed
  BY SettleType DEF Sound
<1>2. Attempt(t) /\ up
  <2>1. Attempt(t)
    BY <1>1 DEF Attempt, Begun, Sending
  <2> QED
    BY <2>1, InTurnIs DEF Sound
<1>3. CASE UNCHANGED <<mem, owed>>
  BY <1>1, <1>2, <1>3, FeedQuiet
<1>4. CASE Live(t) /\ PassesOn(t) /\ Failed(t) \cup Missing(t) = {} /\ UNCHANGED owed
  <2>1. owed[task[t].id] = {}
    BY <1>1, <1>4, NobodyLeft DEF Sound
  <2> QED
    BY <2>1, <1>1, <1>2, <1>4, FeedPasses
<1>5. CASE PassesOn(t) /\ owed' = [owed EXCEPT ![task[t].id] = {}]
  BY <1>1, <1>2, <1>5, FeedPasses
<1>6. CASE Pends(Settled(t)) /\ UNCHANGED owed
  <2>1. PICK p : Pends(p)
    BY <1>6
  <2> QED
    BY <2>1, <1>1, <1>2, <1>6, PendsLast, FeedQuiet DEF Sound
<1> QED
  BY <1>1, <1>3, <1>4, <1>5, <1>6

\* A part that is with its target: it may be the last one that it is owed.
LEMMA FeedDelivers == ASSUME Sound, NEW t \in Task, SendOk(t) \/ SendLost(t) PROVE Feeds
<1>1. /\ TaskWorld /\ task[t].pc = "inflight" /\ Delivers(t)
      /\ UNCHANGED mem \/ Pends(Noted(t))
  BY SendOkType, SendLostType DEF Sound
<1>2. Turn(t)
  BY <1>1 DEF Turn
<1>3. mem'.last = mem.last /\ mem'.init = mem.init
  <2>1. CASE \E p : Pends(p)
    <3>1. PICK p : Pends(p)
      BY <2>1
    <3> QED
      BY <3>1, PendsLast DEF Sound
  <2> QED
    BY <1>1, <2>1
<1>4. owed' = owed \/ owed' = [owed EXCEPT ![task[t].id] = @ \ {task[t].to}]
  BY <1>1 DEF Delivers
<1> QED
  BY <1>1, <1>2, <1>3, <1>4, FeedServes

\* A target that refuses the head is served.
LEMMA FeedRefused == ASSUME Sound, NEW t \in Task, SendRefused(t) PROVE Feeds
<1>1. /\ TaskWorld /\ UNCHANGED mem /\ task[t].pc = "inflight"
      /\ owed' = [owed EXCEPT ![task[t].id] = @ \ {task[t].to}]
  BY SendRefusedType DEF Sound
<1>2. Turn(t)
  BY <1>1 DEF Turn
<1> QED
  BY <1>1, <1>2, FeedServes

\* The cursor after a batch passes nothing that was not passed.
LEMMA FeedFinish == ASSUME Sound, TaskGrows, NEW t \in Task, Finish(t) PROVE Feeds
<1>1. (mem.init => Open' = Open) /\ mem'.init = mem.init /\ TaskWorld
  BY QueueFinish, FinishType DEF Sound
<1>2. UNCHANGED owed /\ task[t].pc # "idle"
  BY DEF Finish, At, hist
<1>3. up /\ up'
  BY <1>1, <1>2 DEF Sound, TypeInv, Life, TaskWorld
<1> QED
  BY <1>1, <1>2, <1>3, FeedSame

\* Every step of a task.
LEMMA FeedTask ==
  ASSUME Sound, NEW t \in Task, TaskNext(t) \/ SendRefused(t) \/ SendLost(t) \/ TaskDbError(t)
  PROVE  Feeds
<1>1. TaskGrows /\ TaskWorld /\ task[t].pc # "idle"
  BY TaskGrowth, TaskKeeps DEF Sound
<1>2. CASE NextTweet(t) \/ EndTask(t) \/ TaskRead(t) \/ TaskCommit(t) \/ TaskDbError(t)
  <2>1. UNCHANGED <<mem, owed>>
    BY <1>2 DEF NextTweet, EndTask, TaskRead, TaskCommit, TaskDbError, hist
  <2> QED
    BY <1>1, <2>1, OversFeeds
<1>3. CASE SendPart(t) \/ SendFailed(t) \/ (\E x \in Target : SendSkip(t, x) \/ SendStart(t, x))
  <2>1. UNCHANGED <<mem, owed>>
    BY <1>3 DEF SendPart, SendFailed, SendSkip, SendStart, hist
  <2> QED
    BY <1>1, <2>1, OversFeeds
<1>4. CASE MediaReady(t) \/ MediaMissing(t) \/ SendBegin(t) \/ Settle(t) \/ Finish(t)
  BY <1>1, <1>4, FeedMediaReady, FeedMediaMissing, FeedSendBegin, FeedSettle, FeedFinish
<1>5. CASE SendOk(t) \/ SendLost(t) \/ SendRefused(t)
  BY <1>5, FeedDelivers, FeedRefused
<1> QED
  BY <1>2, <1>3, <1>4, <1>5 DEF TaskNext

\* Every step of a check: the baseline is where the queue starts.
LEMMA FeedCheck ==
  ASSUME Sound, NEW c \in Check, CheckStart(c) \/ CheckEnd(c) \/ CheckNext(c) \/ CheckDbError(c)
  PROVE  Feeds
<1>1. up /\ up' /\ feed' = feed /\ owed' = owed
  BY CheckKeeps DEF Sound, CheckWorld
<1>2. CASE CheckBaseline(c)
  <2>1. ~mem.init /\ mem'.init /\ mem'.last \in Id
    BY <1>2, QueueCheckBaseline
  <2>2. PICK b : b = mem'.last
    OBVIOUS
  <2>3. Line = {} /\ Line' = {i \in feed : b < i}
    BY <1>1, <2>1, <2>2, LineIs, LineLater DEF Open
  <2>4. b \in 0 .. MaxId /\ feed \in SUBSET Id
    BY <2>1, <2>2, ParamAssumption DEF Id, Sound, TypeInv, TypeOK
  <2> QED
    BY <1>1, <2>3, <2>4, FeedFollow DEF Feeds
<1>3. CASE \/ CheckStart(c) \/ CheckEnd(c) \/ CheckObserve(c)
           \/ CheckRead(c) \/ CheckCommit(c) \/ CheckDbError(c)
  <2>1. UNCHANGED mem
    BY <1>3 DEF CheckStart, CheckEnd, CheckObserve, CheckRead, CheckCommit, CheckDbError
  <2>2. Open' = Open
    BY <1>1, <2>1 DEF Open
  <2> QED
    BY <1>1, <2>1, <2>2, FeedSame
<1> QED
  BY <1>2, <1>3 DEF CheckNext

\* A new tweet.
LEMMA FeedWorld == ASSUME Sound, Publish PROVE Feeds
<1>1. /\ published \in Nat /\ published < MaxId /\ feed' = feed \cup {published + 1}
      /\ UNCHANGED <<mem, up, row>> /\ owed \in [Id -> SUBSET Target]
      /\ cfg.to \in SUBSET Target /\ conf.to \in SUBSET Target
  BY FeedIs, ConfigIs DEF Publish, proc, db, Sound, TypeInv, TypeOK
<1>2. PICK i : i = published + 1
  OBVIOUS
<1>3. i \in Id /\ owed[i] = {} /\ \A j \in Line : j < i
  <2>1. i \in Id
    BY <1>1, <1>2, ParamAssumption DEF Id
  <2>2. feed \subseteq 1 .. published
    BY DEF Sound, WorldInv
  <2>3. i \notin feed
    BY <1>1, <1>2, <2>2
  <2>4. owed[i] = {}
    BY <2>1, <2>3 DEF Sound, WorldInv
  <2>5. Line \subseteq feed
    BY DEF Line
  <2> QED
    BY <1>1, <1>2, <2>1, <2>2, <2>4, <2>5
<1>4. PICK T \in SUBSET Target : T = IF up THEN cfg.to \cap conf.to ELSE cfg.to
  BY <1>1
<1>5. owed' = [owed EXCEPT ![i] = T]
  BY <1>2, <1>4 DEF Publish
<1>6. Line' \in {Line, Line \cup {i}}
  <2>1. Cursor' = Cursor
    BY <1>1 DEF Cursor, Restored
  <2>2. Line = IF Cursor.init THEN {j \in feed : Cursor.last < j} ELSE {}
    BY DEF Line
  <2>3. Line' = IF Cursor.init THEN {j \in feed \cup {i} : Cursor.last < j} ELSE {}
    BY <1>1, <1>2, <2>1 DEF Line
  <2> QED
    BY <2>2, <2>3
<1> QED
  BY <1>3, <1>5, <1>6, FeedPublish DEF Feeds

\* A deleted tweet.
LEMMA FeedVanish == ASSUME Sound, NEW i \in Id, Vanish(i) PROVE Feeds
<1>1. UNCHANGED <<mem, up, row>> /\ feed' = feed \ {i} /\ owed' = [owed EXCEPT ![i] = {}]
  BY DEF Vanish, proc, db
<1>2. Line' = Line \ {i}
  <2>1. Cursor' = Cursor
    BY <1>1 DEF Cursor, Restored
  <2>2. Line = IF Cursor.init THEN {j \in feed : Cursor.last < j} ELSE {}
    BY DEF Line
  <2>3. Line' = IF Cursor.init THEN {j \in feed \ {i} : Cursor.last < j} ELSE {}
    BY <1>1, <2>1 DEF Line
  <2> QED
    BY <2>2, <2>3
<1> QED
  BY <1>1, <1>2, FeedDelete DEF Feeds

\* Time passes.
LEMMA FeedSixHours == ASSUME Sound, SixHours PROVE Feeds
<1>1. UNCHANGED <<feed, up, row, mem, owed>>
  BY DEF SixHours, world, db, proc, hist
<1>2. Line' = Line
  BY <1>1 DEF Line, Cursor, Restored
<1> QED
  BY <1>1, <1>2 DEF Feeds

\* While the process is up the row is not the queue.
LEMMA FeedDeleteRow == ASSUME Sound, DeleteRow PROVE Feeds
<1>1. up /\ up' /\ UNCHANGED <<feed, mem, owed>>
  BY DEF DeleteRow, world, proc, hist, Sound, WorldInv
<1>2. Open' = Open
  BY <1>1 DEF Open
<1> QED
  BY <1>1, <1>2, FeedSame

\* Targets leave.
LEMMA FeedReloadStart ==
  ASSUME Sound, NEW new \in limit.menu, ReloadStart(new) PROVE Feeds
<1>1. up /\ up' /\ UNCHANGED <<feed, mem>> /\ owed' = [i \in Id |-> owed[i] \cap new.to]
  BY DEF ReloadStart, world, proc
<1>2. PICK T \in SUBSET Target : T = new.to
  BY LimitIs, ConfigIs DEF Sound
<1>3. Line' = Line
  BY <1>1, LineIs, LineLater DEF Open
<1> QED
  BY <1>1, <1>2, <1>3, FeedLeave DEF Feeds

\* Nobody is owed anything.
LEMMA OwedNone ==
  ASSUME TypeInv, \A i \in Id : owed[i] = {} PROVE owed = [i \in Id |-> {}]
<1>1. owed \in [Id -> SUBSET Target]
  BY DEF TypeInv, TypeOK
<1> QED
  BY <1>1

\* A blogger that is disabled starts over.
LEMMA FeedReloadApply == ASSUME Sound, ReloadApply PROVE Feeds
<1>1. up /\ up' /\ UNCHANGED <<feed, owed>>
  BY DEF ReloadApply, world, hist, Sound, WorldInv
<1>2. CASE conf.on /\ ~cfg.on
  <2>1. ~mem'.init
    BY <1>2, BlankIs DEF ReloadApply
  <2>2. Line' = {}
    BY <1>1, <2>1, LineLater
  <2>3. owed' = [i \in Id |-> {}]
    BY <1>1, <1>2, OwedOff, OwedNone DEF Sound
  <2> QED
    BY <2>2, <2>3, FeedStartOver DEF Feeds
<1>3. CASE ~(conf.on /\ ~cfg.on)
  <2>1. UNCHANGED mem
    BY <1>3 DEF ReloadApply
  <2> QED
    BY <1>1, <2>1, FeedSame DEF Open
<1> QED
  BY <1>2, <1>3

\* So does one that is enabled again.
LEMMA FeedReloadReset == ASSUME Sound, ReloadReset PROVE Feeds
<1>1. /\ up /\ up' = up /\ mem \in State /\ mem' = [mem EXCEPT !.last = 0, !.init = FALSE]
      /\ owed' = [i \in Id |-> {}]
  BY DEF ReloadReset, Sound, WorldInv, TypeInv, TypeOK
<1>2. ~mem'.init
  BY <1>1 DEF State
<1>3. Line' = {}
  BY <1>1, <1>2, LineLater
<1> QED
  BY <1>1, <1>3, FeedStartOver DEF Feeds

\* What a row that may be taken over restores: its cursor.
LEMMA RestoresLine ==
  ASSUME TypeInv, row # None, Saved(row)
  PROVE  Restored(row).init /\ Restored(row).last = row.last
<1>1. row \in State
  BY DEF TypeInv, TypeOK
<1>2. row.init /\ row.last # 0
  BY <1>1 DEF Saved, State
<1> QED
  BY <1>1, <1>2 DEF Restored, State

\* The cursor falls back to that of the row: tweets come back that nobody is owed.
LEMMA FeedCrash == ASSUME CrashParted, Sound, Crash PROVE Feeds
<1>1. /\ Steady(limit) /\ up /\ ~up' /\ UNCHANGED <<feed, row>> /\ feed \subseteq Id
      /\ owed' = IF row = None THEN [i \in Id |-> {}] ELSE owed
  BY CrashSteady DEF Crash, Sound, world, db, TypeInv, TypeOK
<1>2. Cursor' = Restored(row)
  BY <1>1 DEF Cursor, Restored
<1>3. CASE row = None
  <2>1. ~Restored(row).init
    BY <1>3, BlankIs DEF Restored
  <2>2. Line' = {}
    BY <1>2, <2>1 DEF Line
  <2> QED
    BY <1>1, <1>3, <2>2, FeedStartOver DEF Feeds
<1>4. CASE row # None
  <2>1. Saved(row)
    BY <1>1, <1>4 DEF Sound, SavedInv
  <2>2. Restored(row).init /\ Restored(row).last = row.last
    BY <1>4, <2>1, RestoresLine DEF Sound
  <2>3. Line' = {j \in feed : row.last < j}
    BY <1>1, <1>2, <2>2 DEF Line
  <2>4. mem.init /\ (\A j \in Open : row.last < j)
        /\ \A j \in feed : row.last < j /\ j \notin Open => owed[j] = {}
    BY <1>1, <2>1 DEF Saved
  <2>5. Line = Open /\ Open \subseteq feed
    BY <1>1, <2>4, LineIs, FeedIs DEF Sound
  <2>6. PICK S \in SUBSET Id : S = {j \in feed : row.last < j /\ j \notin Open}
    BY <1>1
  <2>7. Line' = Line \cup S /\ \A i \in S : owed[i] = {}
    BY <2>3, <2>4, <2>5, <2>6
  <2> QED
    BY <1>1, <1>4, <2>7, FeedRelapse DEF Feeds
<1> QED
  BY <1>3, <1>4

\* The process has the cursor that was to be taken over.
LEMMA FeedRestart == ASSUME Sound, Restart PROVE Feeds
<1>1. ~up /\ up' /\ mem' = Restored(row) /\ UNCHANGED <<feed, owed>>
  BY TakesOver DEF Restart, world, hist
<1>2. Cursor' = Cursor
  BY <1>1 DEF Cursor
<1>3. Line' = Line
  BY <1>1, <1>2 DEF Line
<1> QED
  BY <1>1, <1>3 DEF Feeds

\* Every step of the program is one of TweetFeed.
LEMMA FeedStep ==
  ASSUME CrashParted, TypeInv, WorldInv, NoteInv, QueueInv, [Next]_vars
  PROVE  [Feed!Next]_<<Line, owed>>
<1>1. Sound
  BY TypeNotes DEF Sound, QueueInv
<1>2. CASE UNCHANGED vars
  <2>1. UNCHANGED <<feed, up, row, mem, owed>>
    BY <1>2 DEF vars, world, db, proc, hist
  <2>2. Line' = Line
    BY <2>1 DEF Line, Cursor, Restored
  <2> QED
    BY <2>1, <2>2
<1>3. CASE Publish \/ (\E i \in Id : Vanish(i)) \/ SixHours
  BY <1>1, <1>3, FeedWorld, FeedVanish, FeedSixHours DEF Feeds
<1>4. CASE (\E c \in Check : CheckStart(c) \/ CheckEnd(c) \/ CheckNext(c) \/ CheckDbError(c))
  BY <1>1, <1>4, FeedCheck DEF Feeds
<1>5. CASE (\E t \in Task : TaskNext(t) \/ SendRefused(t) \/ SendLost(t) \/ TaskDbError(t))
  BY <1>1, <1>5, FeedTask DEF Feeds
<1>6. CASE (\E new \in limit.menu : ReloadStart(new)) \/ ReloadApply \/ ReloadReset \/ DeleteRow
  BY <1>1, <1>6, FeedReloadStart, FeedReloadApply, FeedReloadReset, FeedDeleteRow DEF Feeds
<1>7. CASE Crash \/ Restart
  BY <1>1, <1>7, FeedCrash, FeedRestart DEF Feeds
<1> QED
  BY <1>2, <1>3, <1>4, <1>5, <1>6, <1>7 DEF Next

\* At the start the queue is empty: what is there is the baseline, or none is.
LEMMA FeedStart == ASSUME Init PROVE Feed!Init
<1>1. /\ up /\ feed = 1 .. published /\ mem = (IF row = None THEN Blank ELSE row)
      /\ row = IF published = 0 \/ ~cfg.on THEN None
               ELSE [last |-> published, init |-> TRUE, pend |-> None]
      /\ owed = [i \in Id |-> {}]
  BY DEF Init
<1>2. published \in Nat
  BY InitType, FeedIs
<1>3. CASE row = None
  <2>1. ~mem.init
    BY <1>1, <1>3, BlankIs
  <2> QED
    BY <1>1, <2>1, LineIs, FeedInit
<1>4. CASE row # None
  <2>1. mem.last = published
    BY <1>1, <1>4
  <2>2. Open = {}
    BY <1>1, <1>2, <2>1 DEF Open
  <2> QED
    BY <1>1, <2>2, LineIs, FeedInit
<1> QED
  BY <1>3, <1>4

\* The X monitor keeps the promise of TweetFeed (Queue), whatever the number of tweets, parts,
\* targets and concurrent checks: tweets are pushed in order, none is passed that a target is
\* owed, a process that comes up again goes back only to tweets that nobody is owed.
THEOREM QueueRefined == ASSUME CrashParted PROVE Spec => Queue
<1>1. Init => Feed!Init
  BY FeedStart
<1>2. TypeInv /\ WorldInv /\ NoteInv /\ QueueInv /\ [Next]_vars => [Feed!Next]_<<Line, owed>>
  BY FeedStep
<1> QED
  BY <1>1, <1>2, QueueHolds, FeedSpec, PTL DEF Spec

-----------------------------------------------------------------------------
(* Nothing of old is pushed *)

\* No tweet has been deleted.
Whole == spent.vanish = 0

\* Only a deletion uses the bound on deletions.
LEMMA WholeStays ==
  ASSUME TypeInv, WorldInv, \A s \in Scenario : s.vanish = 0, Whole, [Next]_vars PROVE Whole'
<1>1. limit.vanish = 0
  BY LimitIs
<1>2. CASE UNCHANGED spent
  BY <1>2 DEF Whole
<1>3. ASSUME NEW F, F \subseteq Bounds, "vanish" \notin F, Uses(F) PROVE Whole'
  BY <1>3, UsesIs DEF Whole
<1>4. CASE Publish \/ (\E new \in limit.menu : ReloadStart(new)) \/ Crash
  <2>1. Uses({"tweet", "reload", "crash"})
    BY <1>4 DEF Publish, ReloadStart, Crash, Uses
  <2>2. {"tweet", "reload", "crash"} \subseteq Bounds
    BY DEF Bounds
  <2> QED
    BY <1>3, <2>1, <2>2
<1>5. CASE (\E i \in Id : Vanish(i))
  BY <1>1, <1>5 DEF Vanish, May, Whole
<1>6. CASE (\E c \in Check : CheckStart(c) \/ CheckEnd(c) \/ CheckNext(c) \/ CheckDbError(c))
           \/ (\E t \in Task : TaskNext(t) \/ SendRefused(t) \/ SendLost(t) \/ TaskDbError(t))
           \/ DeleteRow
  <2>1. Uses({"lost", "db"})
    <3>1. CASE DeleteRow
      BY <3>1 DEF DeleteRow, Uses, bound
    <3> QED
      BY <1>6, <3>1, CheckKeeps, TaskUses
  <2>2. {"lost", "db"} \subseteq Bounds
    BY DEF Bounds
  <2> QED
    BY <1>3, <2>1, <2>2
<1>7. CASE SixHours \/ ReloadApply \/ ReloadReset \/ Restart
  BY <1>2, <1>7 DEF SixHours, ReloadApply, ReloadReset, Restart, bound
<1>8. CASE UNCHANGED vars
  BY <1>2, <1>8 DEF vars, bound
<1> QED
  BY <1>4, <1>5, <1>6, <1>7, <1>8 DEF Next

\* None at the start.
LEMMA WholeInit == ASSUME Init PROVE Whole
<1>1. limit \in Budget /\ spent = [f \in DOMAIN limit \ {"from", "menu"} |-> 0]
  BY ParamAssumption DEF Init
<1>2. "vanish" \in DOMAIN limit \ {"from", "menu"}
  BY <1>1 DEF Budget
<1> QED
  BY <1>1, <1>2 DEF Whole

\* A task that may send has a tweet in turn that came after the blogger was enabled.
LEMMA SendsNew ==
  ASSUME TypeInv, WorldInv, NoteInv, QueueInv, Whole, NEW t \in Task, At(t, "part"), Live(t)
  PROVE  enabled < task[t].id
<1>1. /\ task[t].pc # "idle" /\ Attempt(t) /\ Current(t)
  BY DEF At, Attempt, Begun, Sending, Turn, Live, Valid, Current
<1>2. PICK i \in Id : i = task[t].id
  BY <1>1, InTurnIs
<1>3. i <= published
  BY <1>1, <1>2 DEF NoteInv, TaskTrue
<1>4. feed = 1 .. published
  BY DEF Whole, WorldInv
<1>5. i \in feed /\ i \in Nat
  BY <1>2, <1>3, <1>4, FeedIs DEF Id
<1>6. mem.init /\ AtHead(t)
  BY <1>1 DEF QueueInv, OrderInv, TaskOrder
<1>7. i \in Open
  BY <1>1, <1>2, <1>5, <1>6 DEF AtHead
<1>8. Behind(enabled)
  BY DEF QueueInv, OrderInv
<1> QED
  BY <1>2, <1>6, <1>7, <1>8 DEF Behind, Front

\* While no tweet is deleted, nothing is pushed that was published before the blogger was
\* enabled, however its checks, its tasks and the reloads of the configuration interleave.
THEOREM HistoryCorrect ==
  ASSUME CrashParted, \A s \in Scenario : s.vanish = 0 PROVE Spec => NoHistory
<1>1. Init => Whole
  BY WholeInit
<1>2. TypeInv /\ WorldInv /\ Whole /\ [Next]_vars => Whole'
  BY WholeStays
<1>3. TypeInv /\ WorldInv /\ NoteInv /\ QueueInv /\ Whole
      => [\A t \in Task : At(t, "part") /\ task'[t].pc = "inflight" /\ Live(t)
            => task[t].id > enabled]_vars
  <2> SUFFICES ASSUME TypeInv, WorldInv, NoteInv, QueueInv, Whole,
                      NEW t \in Task, At(t, "part"), Live(t)
               PROVE  task[t].id > enabled
    OBVIOUS
  <2>1. enabled < task[t].id /\ enabled \in Nat /\ task[t].id \in Nat
    BY SendsNew, FeedIs
  <2> QED
    BY <2>1
<1> QED
  BY <1>1, <1>2, <1>3, QueueHolds, PTL DEF Spec, NoHistory
=============================================================================
