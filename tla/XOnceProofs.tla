------------------------------ MODULE XOnceProofs ------------------------------
(***************************************************************************)
(* PartOnce of the X monitor: a target gets no part of a tweet more than   *)
(* once, but for one copy per crash, lost receipt and reload.              *)
(*                                                                         *)
(* The argument.  Excuses are counted (Spare): a reload when the process   *)
(* takes it over.  A task of a former life that is still to prepare a      *)
(* message may drop what is pending, so each such task keeps one excuse    *)
(* back (Left).  No part that the next attempt will send - the pending     *)
(* offset of the tweet in turn (FrontOnce), the queue, the turn and the    *)
(* outcomes of the task that has it in hand (TaskOnce) - was sent more     *)
(* often than there are excuses left; a task of a former life has one      *)
(* part left to send (LateOnce).                                           *)
(*                                                                         *)
(* Hypotheses: that of XQueueProofs, and that no tweet was deleted so far  *)
(* (Whole): a check that still shows a deleted tweet spawns a task for it, *)
(* which drops the progress of the tweet that is pending.                  *)
(***************************************************************************)
EXTENDS XQueueProofs, FiniteSetTheorems

-----------------------------------------------------------------------------
(* The inductive invariant *)

\* Locks of former lives whose holder is still to prepare a message: it may drop once more
\* what is pending.
Late(t) == task[t].pc = "media" /\ ~Current(t)
Lates   == {e \in 0 .. epoch : \E t \in Task : Late(t) /\ task[t].epoch = e}
\* The copies that are excused: a configuration counts when the process takes it over.
Spare == spent.crash + spent.lost + spent.reload - (IF reload = "apply" THEN 1 ELSE 0)
\* Those that are left when each late task has dropped what is pending.
Left  == Spare - Cardinality(Lates)
\* No part of a tweet was sent to x more than b times,
AtMost(i, x, b) == \A q \in 1 .. Body : sent[i][x][q] <= b
\* nor one from the next part on.
Beyond(i, x, all, n, b) ==
  n # Done => \A q \in 1 .. Body : n < q + Prefix(x, all) => sent[i][x][q] <= b
\* The next part that is pending counts in the plan in force.
Counted(i, x) == Kept(i) /\ x \in conf.to /\ x \in DOMAIN mem.pend.at /\ mem.pend.fp = conf.all
\* A tweet that is pending goes on where it was; any other one is there for its first attempt,
\* and so is each one but the first.
Fresh(i)     == \A x \in Target : AtMost(i, x, Left)
MemOnce(i)   == \A x \in Target : IF Counted(i, x)
                  THEN Beyond(i, x, conf.all, mem.pend.at[x], Left) ELSE AtMost(i, x, Left)
FrontOnce(i) == /\ \A x \in Target : AtMost(i, x, Left + 1)
                /\ MemOnce(i)
                /\ (\E j \in Front : j < i) => Fresh(i)
\* The progress of a task with x is not, or not in that plan, what the next attempt goes by.
Odd(t, x)  == x \notin conf.to \/ task[t].all # conf.all \/ ~Kept(task[t].id)
Ease(t, x) == IF Odd(t, x) THEN Left - 1 ELSE Left
\* Whom a task has tried, and whose turn it is.
Tried(t)   == IF Sending(t) THEN DOMAIN task[t].out ELSE {}
InHand(t)  == IF Turn(t) THEN {task[t].to} ELSE {}
\* The progress of a task with each target.
Due(t, x) ==
  LET i == task[t].id IN
  /\ Odd(t, x) => AtMost(i, x, Left)
  /\ x \in DOMAIN task[t].queue => Beyond(i, x, task[t].all, task[t].queue[x], Ease(t, x))
  /\ x \in Tried(t) => Beyond(i, x, task[t].all, task[t].out[x], Ease(t, x))
  /\ x \in InHand(t) => Beyond(i, x, task[t].all, task[t].n, Ease(t, x))
  /\ x \notin task[t].done \cup DOMAIN task[t].queue \cup Tried(t) \cup InHand(t)
       => AtMost(i, x, Left)
\* No target is in two of these places; what is pending knows those that are to come.
Placed(t) ==
  /\ Tried(t) \cap (DOMAIN task[t].queue \cup InHand(t)) = {}
  /\ InHand(t) \cap DOMAIN task[t].queue = {}
  /\ Kept(task[t].id) => /\ mem.pend.fp = task[t].all
                         /\ DOMAIN task[t].queue \cup InHand(t) \subseteq DOMAIN mem.pend.at
TaskOnce(t) == Current(t) /\ Begun(t) => Placed(t) /\ \A x \in Target : Due(t, x)
\* A task of a former life may still send one part.
LateOnce(t) == ~Current(t) /\ task[t].pc = "inflight" =>
  \A q \in 1 .. Body : q + Prefix(task[t].to, task[t].all) = task[t].n + 1
    => sent[task[t].id][task[t].to][q] <= Spare
\* There are as many excuses as late tasks, one more when the blogger is about to start over.
Credit == Cardinality(Lates) + (IF reload = "reset" THEN 1 ELSE 0) <= Spare
\* No two tasks have the same tweet in turn.
Apart  == \A t, u \in Task : t # u /\ Attempt(t) /\ Attempt(u) => task[t].id # task[u].id
Total  == \A i \in Id, x \in Target : AtMost(i, x, Spare + 1) /\ (~up => AtMost(i, x, Spare))
OnceInv == /\ Credit /\ Apart /\ Total
           /\ \A i \in Front : FrontOnce(i)
           /\ \A t \in Task : TaskOnce(t) /\ LateOnce(t)
-----------------------------------------------------------------------------
(* Excuses *)

\* Late tasks are as many as their locks, and there are not more of these than lives.
LEMMA LatesIs == ASSUME TypeInv PROVE IsFiniteSet(Lates) /\ Cardinality(Lates) \in Nat
<1>1. epoch \in Nat /\ Lates \subseteq 0 .. epoch
  BY DEF TypeInv, TypeOK, Lates
<1>2. IsFiniteSet(0 .. epoch)
  BY <1>1, FS_Interval
<1>3. IsFiniteSet(Lates)
  <2>1. PICK S : S = 0 .. epoch /\ Lates \in SUBSET S
    BY <1>1
  <2> QED
    BY <1>2, <2>1, FS_Subset
<1> QED
  BY <1>3, FS_CardinalityType

\* Excuses and what is left of them are numbers.
LEMMA SpareIs == ASSUME TypeInv, WorldInv PROVE Spare \in Int /\ Left \in Int /\ Left <= Spare
<1>1. spent.crash \in Nat /\ spent.lost \in Nat /\ spent.reload \in Nat
  BY DEF TypeInv, TypeOK, WorldInv
<1>2. Spare \in Int
  BY <1>1 DEF Spare
<1>3. PICK n \in Nat : n = Cardinality(Lates)
  BY LatesIs
<1> QED
  BY <1>2, <1>3 DEF Left

\* Copies are numbers.
LEMMA CopiesNat ==
  ASSUME TypeInv, NEW i \in Id, NEW x \in Target, NEW q \in 1 .. Body PROVE sent[i][x][q] \in Nat
<1>1. sent \in [Id -> [Target -> [1 .. Body -> Nat]]]
  BY DEF TypeInv, TypeOK
<1> QED
  BY <1>1

\* A bound that rises.
LEMMA AtMostRises ==
  ASSUME TypeInv, NEW i \in Id, NEW x \in Target, NEW b \in Int, NEW c \in Int, b <= c,
         AtMost(i, x, b)
  PROVE  AtMost(i, x, c)
BY CopiesNat DEF AtMost

\* The same for the parts that are to come.
LEMMA BeyondRises ==
  ASSUME TypeInv, NEW i \in Id, NEW x \in Target, NEW all, NEW n, NEW b \in Int, NEW c \in Int,
         b <= c, Beyond(i, x, all, n, b)
  PROVE  Beyond(i, x, all, n, c)
BY CopiesNat DEF Beyond

\* A bound on all parts bounds those to come.
LEMMA BeyondAll ==
  ASSUME NEW i, NEW x, NEW all, NEW n, NEW b, AtMost(i, x, b) PROVE Beyond(i, x, all, n, b)
BY DEF AtMost, Beyond

\* A tweet without an attempt is fine whatever is pending.
LEMMA FrontFresh ==
  ASSUME TypeInv, WorldInv, NEW i \in Id, Fresh(i) PROVE FrontOnce(i)
<1>1. PICK b \in Int : b = Left
  BY SpareIs
<1>2. ASSUME NEW x \in Target PROVE AtMost(i, x, b) /\ AtMost(i, x, b + 1)
  <2>1. AtMost(i, x, b)
    BY <1>1 DEF Fresh
  <2> QED
    BY <1>1, <2>1, AtMostRises
<1>3. MemOnce(i)
  <2>1. ASSUME NEW x \in Target, NEW all, NEW n PROVE AtMost(i, x, b) /\ Beyond(i, x, all, n, b)
    BY <1>2, BeyondAll
  <2> QED
    BY <1>1, <2>1 DEF MemOnce
<1> QED
  BY <1>1, <1>2, <1>3 DEF FrontOnce

-----------------------------------------------------------------------------
(* What stays *)

\* The excuses are numbers after a step as well.
LEMMA SpareAre == TypeInv /\ WorldInv => Spare \in Int /\ Left \in Int /\ Left <= Spare
BY SpareIs

\* The same after a step.
LEMMA SpareLater == (TypeInv /\ WorldInv => Spare \in Int /\ Left \in Int /\ Left <= Spare)'
BY SpareAre, PTL

\* What was sent of a tweet is the same, and the bound has risen.
LEMMA AtMostLater ==
  ASSUME TypeInv, NEW i \in Id, NEW x \in Target, sent'[i][x] = sent[i][x],
         NEW b \in Int, NEW c \in Int, b <= c, AtMost(i, x, b)
  PROVE  AtMost(i, x, c)'
BY CopiesNat DEF AtMost

\* The same for the parts to come.
LEMMA BeyondLater ==
  ASSUME TypeInv, NEW i \in Id, NEW x \in Target, sent'[i][x] = sent[i][x], NEW all, NEW n,
         NEW b \in Int, NEW c \in Int, b <= c, Beyond(i, x, all, n, b)
  PROVE  Beyond(i, x, all, n, c)'
BY CopiesNat DEF Beyond

\* A fresh tweet has no attempt behind it, whatever is pending.
LEMMA FreshAre == TypeInv /\ WorldInv => \A i \in Id : Fresh(i) => FrontOnce(i)
BY FrontFresh

\* The same after a step.
LEMMA FreshLater == (TypeInv /\ WorldInv => \A i \in Id : Fresh(i) => FrontOnce(i))'
BY FreshAre, PTL

\* What the parts of a tweet need.
Bounded(i, b) == \A x \in Target : AtMost(i, x, b)

\* More excuses make it fresh.
LEMMA FreshAgain ==
  ASSUME TypeInv, WorldInv, TypeInv', WorldInv', NEW i \in Id, sent'[i] = sent[i],
         NEW b \in Int, b <= Left', Bounded(i, b)
  PROVE  Fresh(i)' /\ FrontOnce(i)'
<1>1. PICK c : c = Left'
  OBVIOUS
<1>2. c \in Int
  BY <1>1, SpareLater
<1>3. ASSUME NEW x \in Target PROVE AtMost(i, x, c)'
  BY <1>1, <1>2, AtMostLater DEF Bounded
<1>4. Fresh(i)'
  BY <1>1, <1>3 DEF Fresh
<1> QED
  BY <1>4, FreshLater

\* A tweet in the queue stays where it is.
LEMMA FrontStays ==
  ASSUME TypeInv, WorldInv, TypeInv', WorldInv', NEW i \in Id, FrontOnce(i), sent'[i] = sent[i],
         conf' = conf, mem'.pend = mem.pend, Left <= Left', \A j \in Front' : j < i => j \in Front
  PROVE  FrontOnce(i)'
<1>1. PICK b, c : b = Left /\ c = Left'
  OBVIOUS
<1>2. b \in Int /\ c \in Int /\ b + 1 \in Int /\ c + 1 \in Int /\ b <= c /\ b + 1 <= c + 1
  BY <1>1, SpareIs, SpareLater
<1>3. ASSUME NEW x \in Target PROVE AtMost(i, x, c + 1)'
  <2>1. AtMost(i, x, b + 1)
    BY <1>1 DEF FrontOnce
  <2> QED
    BY <1>2, <2>1, AtMostLater
<1>4. ASSUME NEW x \in Target
      PROVE IF Counted(i, x)' THEN Beyond(i, x, conf.all, mem.pend.at[x], Left)'
                              ELSE AtMost(i, x, Left)'
  <2>1. Counted(i, x)' <=> Counted(i, x)
    BY DEF Counted, Kept
  <2>2. PICK all, n : all = conf.all /\ n = mem.pend.at[x]
    OBVIOUS
  <2>3. IF Counted(i, x) THEN Beyond(i, x, all, n, b) ELSE AtMost(i, x, b)
    BY <1>1, <2>2 DEF FrontOnce, MemOnce
  <2>4. IF Counted(i, x) THEN Beyond(i, x, all, n, c)' ELSE AtMost(i, x, c)'
    <3>1. Counted(i, x) => Beyond(i, x, all, n, c)'
      BY <1>2, <2>3, BeyondLater
    <3>2. ~Counted(i, x) => AtMost(i, x, c)'
      BY <1>2, <2>3, AtMostLater
    <3> QED
      BY <3>1, <3>2
  <2>5. all = conf'.all /\ n = mem'.pend.at[x]
    BY <2>2
  <2> QED
    BY <1>1, <2>1, <2>4, <2>5 DEF AtMost, Beyond
<1>5. ASSUME \E j \in Front' : j < i PROVE Fresh(i)'
  <2>1. Bounded(i, b)
    BY <1>1, <1>5 DEF FrontOnce, Fresh, Bounded
  <2> QED
    BY <1>1, <1>2, <2>1, FreshAgain
<1> QED
  BY <1>1, <1>3, <1>4, <1>5 DEF FrontOnce, MemOnce

\* The progress with x of a task that rests.
LEMMA DueLater ==
  ASSUME TypeInv, TypeInv', WorldInv, WorldInv', NEW u \in Task, Rests(u), NEW x \in Target,
         NEW i \in Id, i = task[u].id, sent'[i][x] = sent[i][x], Due(u, x), Left <= Left',
         Ease(u, x) <= Ease(u, x)', Odd(u, x)' => AtMost(i, x, Left)'
  PROVE  Due(u, x)'
<1>1. PICK b, c : b = Left /\ c = Left'
  OBVIOUS
<1>2. PICK e, f : e = Ease(u, x) /\ f = Ease(u, x)'
  OBVIOUS
<1>3. b \in Int /\ c \in Int /\ b <= c /\ e \in Int /\ f \in Int /\ e <= f
  BY <1>1, <1>2, SpareIs, SpareLater DEF Ease
<1>4. PICK all, queue, out, n :
        all = task[u].all /\ queue = task[u].queue /\ out = task[u].out /\ n = task[u].n
  OBVIOUS
<1>5. Tried(u)' = Tried(u) /\ InHand(u)' = InHand(u)
  BY DEF Tried, InHand, Rests, Sending, Turn, Storing
<1>6. /\ x \in DOMAIN queue => Beyond(i, x, all, queue[x], e)'
      /\ x \in Tried(u) => Beyond(i, x, all, out[x], e)'
      /\ x \in InHand(u) => Beyond(i, x, all, n, e)'
      /\ x \notin task[u].done \cup DOMAIN queue \cup Tried(u) \cup InHand(u) => AtMost(i, x, b)'
  BY <1>1, <1>2, <1>3, <1>4, BeyondLater, AtMostLater DEF Due
<1>7. /\ x \in DOMAIN queue => Beyond(i, x, all, queue[x], f)'
      /\ x \in Tried(u) => Beyond(i, x, all, out[x], f)'
      /\ x \in InHand(u) => Beyond(i, x, all, n, f)'
      /\ x \notin task[u].done \cup DOMAIN queue \cup Tried(u) \cup InHand(u) => AtMost(i, x, c)'
  <2>1. /\ x \in DOMAIN queue => Beyond(i, x, all, queue[x], e)
        /\ x \in Tried(u) => Beyond(i, x, all, out[x], e)
        /\ x \in InHand(u) => Beyond(i, x, all, n, e)
        /\ x \notin task[u].done \cup DOMAIN queue \cup Tried(u) \cup InHand(u) => AtMost(i, x, b)
    BY <1>1, <1>2, <1>4 DEF Due
  <2> QED
    BY <1>3, <2>1, BeyondLater, AtMostLater
<1>8. /\ task'[u].id = i /\ task'[u].all = all /\ task'[u].queue = queue /\ task'[u].out = out
      /\ task'[u].n = n /\ task'[u].done = task[u].done
  BY <1>4 DEF Rests
<1> QED
  BY <1>1, <1>2, <1>5, <1>7, <1>8 DEF Due, AtMost, Beyond

\* Where a task that rests is.
LEMMA RestPlace ==
  ASSUME NEW u \in Task, Rests(u), gen' = gen
  PROVE  /\ Current(u)' <=> Current(u)
         /\ Attempt(u)' <=> Attempt(u)
         /\ Begun(u)' <=> Begun(u)
         /\ Tried(u)' = Tried(u) /\ InHand(u)' = InHand(u)
         /\ task'[u].pc = task[u].pc /\ task'[u].id = task[u].id
BY DEF Rests, Current, Attempt, Begun, Sending, Turn, Storing, Tried, InHand

\* One more part of an old life.
LEMMA LateStays ==
  ASSUME TypeInv, WorldInv, TypeInv', WorldInv', NEW u \in Task, Rests(u), gen' = gen,
         Attempt(u) => sent'[task[u].id] = sent[task[u].id], Spare <= Spare', LateOnce(u)
  PROVE  LateOnce(u)'
<1>1. SUFFICES ASSUME ~Current(u)', task'[u].pc = "inflight",
                      NEW q \in 1 .. Body,
                      q + Prefix(task'[u].to, task'[u].all) = task'[u].n + 1
               PROVE  sent'[task'[u].id][task'[u].to][q] <= Spare'
  BY DEF LateOnce
<1>2. PICK i, x : i = task[u].id /\ x = task[u].to
  OBVIOUS
<1>3. Turn(u) /\ Attempt(u) /\ ~Current(u) /\ task[u].pc = "inflight"
  BY <1>1, RestPlace DEF Turn, Attempt, Begun, Sending
<1>4. i \in Id /\ x \in Target
  BY <1>2, <1>3, TurnIs
<1>5. sent[i][x][q] <= Spare
  BY <1>1, <1>2, <1>3 DEF LateOnce, Rests
<1>6. sent[i][x][q] \in Nat /\ sent'[i] = sent[i] /\ Spare \in Int /\ Spare' \in Int
  BY <1>2, <1>3, <1>4, CopiesNat, SpareIs, SpareLater
<1>7. sent'[i][x][q] <= Spare'
  BY <1>5, <1>6
<1> QED
  BY <1>2, <1>7 DEF Rests

\* A task that rests, while what is pending and the configuration are the same.
LEMMA TaskStays ==
  ASSUME TypeInv, WorldInv, TypeInv', WorldInv', NEW u \in Task, Rests(u), gen' = gen,
         conf' = conf, mem'.pend = mem.pend,
         Attempt(u) => sent'[task[u].id] = sent[task[u].id],
         Left <= Left', TaskOnce(u)
  PROVE  TaskOnce(u)'
<1>1. SUFFICES ASSUME Current(u)', Begun(u)' PROVE Placed(u)' /\ \A x \in Target : Due(u, x)'
  BY DEF TaskOnce
<1>2. Current(u) /\ Begun(u) /\ Attempt(u)
  BY <1>1, RestPlace DEF Attempt
<1>3. PICK i : i = task[u].id
  OBVIOUS
<1>4. i \in Id /\ sent'[i] = sent[i]
  BY <1>2, <1>3 DEF TypeInv, TaskPlan
<1>5. Placed(u)'
  BY <1>2, RestPlace DEF TaskOnce, Placed, Rests, Kept
<1>6. ASSUME NEW x \in Target PROVE Due(u, x)'
  <2>1. Odd(u, x)' <=> Odd(u, x)
    BY DEF Odd, Kept, Rests
  <2>2. Ease(u, x) <= Ease(u, x)'
    BY <2>1, SpareIs, SpareLater DEF Ease
  <2>3. Due(u, x)
    BY <1>2 DEF TaskOnce
  <2>4. ASSUME Odd(u, x)' PROVE AtMost(i, x, Left)'
    <3>1. PICK b, c : b = Left /\ c = Left'
      OBVIOUS
    <3>2. b \in Int /\ c \in Int /\ b <= c
      BY <3>1, SpareIs, SpareLater
    <3>3. AtMost(i, x, b)
      BY <1>3, <2>1, <2>3, <2>4, <3>1 DEF Due
    <3>4. AtMost(i, x, c)'
      BY <1>4, <3>2, <3>3, AtMostLater
    <3> QED
      BY <3>1, <3>4 DEF AtMost
  <2> QED
    BY <1>3, <1>4, <2>2, <2>3, <2>4, DueLater
<1> QED
  BY <1>5, <1>6

\* One excuse more is enough for a task whose progress is not what the next attempt goes by.
LEMMA TaskEases ==
  ASSUME TypeInv, WorldInv, TypeInv', WorldInv', NEW u \in Task, Rests(u), gen' = gen,
         Attempt(u) => sent'[task[u].id] = sent[task[u].id],
         Kept(task[u].id)' => mem'.pend = mem.pend,
         Left + 1 <= Left', Current(u) /\ Begun(u) => Bounded(task[u].id, Left + 1), TaskOnce(u)
  PROVE  TaskOnce(u)'
<1>1. SUFFICES ASSUME Current(u)', Begun(u)' PROVE Placed(u)' /\ \A x \in Target : Due(u, x)'
  BY DEF TaskOnce
<1>2. Current(u) /\ Begun(u) /\ Attempt(u)
  BY <1>1, RestPlace DEF Attempt
<1>3. PICK i : i = task[u].id
  OBVIOUS
<1>4. i \in Id /\ sent'[i] = sent[i] /\ task'[u].id = i
  BY <1>2, <1>3, RestPlace DEF TypeInv, TaskPlan
<1>5. PICK b, c : b = Left /\ c = Left'
  OBVIOUS
<1>6. b \in Int /\ c \in Int /\ b + 1 \in Int /\ b + 1 <= c /\ b <= c
  BY <1>5, SpareIs, SpareLater
<1>7. Placed(u)'
  <2>1. Kept(i)' => mem'.pend = mem.pend /\ Kept(i)
    BY <1>3, <1>4 DEF Kept
  <2>2. Kept(i) => /\ mem.pend.fp = task[u].all
                   /\ DOMAIN task[u].queue \cup InHand(u) \subseteq DOMAIN mem.pend.at
    BY <1>2, <1>3 DEF TaskOnce, Placed
  <2>3. Kept(task[u].id)' => Kept(i)'
    BY <1>4 DEF Kept
  <2>4. /\ task'[u].queue = task[u].queue /\ task'[u].all = task[u].all
        /\ Tried(u)' = Tried(u) /\ InHand(u)' = InHand(u)
    BY RestPlace DEF Rests
  <2>5. /\ Tried(u) \cap (DOMAIN task[u].queue \cup InHand(u)) = {}
        /\ InHand(u) \cap DOMAIN task[u].queue = {}
    BY <1>2 DEF TaskOnce, Placed
  <2>6. ASSUME Kept(task[u].id)'
        PROVE  /\ mem'.pend.fp = task'[u].all
               /\ DOMAIN task'[u].queue \cup InHand(u)' \subseteq DOMAIN mem'.pend.at
    <3>1. mem'.pend = mem.pend /\ Kept(i)
      BY <2>1, <2>3, <2>6
    <3>2. PICK p : p = mem.pend
      OBVIOUS
    <3>3. p.fp = task[u].all /\ DOMAIN task[u].queue \cup InHand(u) \subseteq DOMAIN p.at
      BY <2>2, <3>1, <3>2
    <3>4. mem'.pend = p
      BY <3>1, <3>2
    <3> QED
      BY <2>4, <3>3, <3>4
  <2>7. /\ Tried(u)' \cap (DOMAIN task'[u].queue \cup InHand(u)') = {}
        /\ InHand(u)' \cap DOMAIN task'[u].queue = {}
    BY <2>4, <2>5
  <2> QED
    BY <2>6, <2>7 DEF Placed
<1>8. ASSUME NEW x \in Target PROVE Due(u, x)'
  <2>1. Ease(u, x) <= Ease(u, x)'
    <3>1. Ease(u, x) \in {b, b - 1}
      BY <1>5 DEF Ease
    <3>2. Ease(u, x)' \in {c, c - 1}
      BY <1>5 DEF Ease
    <3> QED
      BY <1>6, <3>1, <3>2
  <2>2. Due(u, x)
    BY <1>2 DEF TaskOnce
  <2>3. AtMost(i, x, b + 1)
    BY <1>2, <1>3, <1>5 DEF Bounded
  <2>4. AtMost(i, x, c)'
    BY <1>4, <1>6, <2>3, AtMostLater
  <2>5. AtMost(i, x, Left)'
    BY <1>5, <2>4 DEF AtMost
  <2> QED
    BY <1>3, <1>4, <1>5, <1>6, <2>1, <2>2, <2>5, DueLater
<1> QED
  BY <1>7, <1>8

-----------------------------------------------------------------------------
(* One step of a task *)

\* What is known before a step that deletes no tweet, and after it.
Firm == /\ TypeInv /\ WorldInv /\ NoteInv /\ QueueInv
        /\ TypeInv' /\ WorldInv' /\ NoteInv' /\ QueueInv'
        /\ Whole /\ Whole' /\ OnceInv

\* The order is part of it.
LEMMA FirmSound == ASSUME Firm PROVE Sound
BY DEF Firm, Sound, QueueInv

\* The tweet in turn is the first of the queue, and no other task of this life is at one.
LEMMA HeadIs ==
  ASSUME Firm, NEW t \in Task, Attempt(t), Current(t)
  PROVE  /\ task[t].id \in Id /\ task[t].id \in Front /\ Front = Open /\ mem.init /\ Live(t)
         /\ \A j \in Front : j = task[t].id \/ task[t].id < j
         /\ \A u \in Task : u # t /\ Current(u) => ~Attempt(u)
<1>1. /\ task[t].id \in Id /\ task[t].id \in Nat /\ task[t].id <= published
      /\ task[t].pc \notin {"idle", "next"} /\ task[t].ahead = {}
  BY InTurnIs DEF Firm
<1>2. feed = 1 .. published /\ published \in Nat
  BY DEF Firm, Whole, WorldInv, TypeInv, TypeOK
<1>3. mem.init /\ conf.on /\ AtHead(t)
  BY DEF Firm, QueueInv, OrderInv, TaskOrder, Current
<1>4. task[t].id \in feed /\ task[t].id <= task[t].id
  BY <1>1, <1>2 DEF Id
<1>5. task[t].id \in Open /\ \A j \in Open : task[t].id <= j
  BY <1>3, <1>4 DEF AtHead
<1>6. Front = Open /\ Open \subseteq Nat
  BY <1>2, <1>3 DEF Front, Open
<1>7. \A j \in Front : j = task[t].id \/ task[t].id < j
  BY <1>1, <1>5, <1>6
<1>8. Live(t)
  BY <1>3 DEF Live, Valid, Current
<1>9. ASSUME NEW u \in Task, u # t, Current(u) PROVE ~Attempt(u)
  <2>1. task[u].pc = "next"
    BY <1>1, <1>9, OneLock DEF Firm
  <2> QED
    BY <2>1 DEF Attempt, Begun, Sending, Turn, Storing
<1> QED
  BY <1>1, <1>3, <1>5, <1>6, <1>7, <1>8, <1>9

\* A task of a former life has a tweet in turn that is before the queue.
LEMMA OldIs ==
  ASSUME Firm, NEW t \in Task, Attempt(t), ~Current(t)
  PROVE  task[t].id \in Id /\ task[t].id \notin Front
<1>1. /\ task[t].id \in Id /\ task[t].id \in Nat /\ task[t].pc # "idle"
  BY InTurnIs DEF Firm
<1>2. Behind(task[t].id)
  BY <1>1 DEF Firm, QueueInv, OrderInv, TaskOrder
<1> QED
  BY <1>1, <1>2 DEF Behind

\* Tweets have naturals for names.
LEMMA FrontNat == ASSUME TypeInv PROVE Front \subseteq Id /\ Id \subseteq Nat
<1>1. Front \subseteq feed /\ feed \subseteq Id /\ \A i \in Id : i \in Nat
  BY FeedIs DEF TypeInv, TypeOK
<1> QED
  BY <1>1

\* The bound on what was sent of a tweet in the queue.
LEMMA FrontBound ==
  ASSUME Firm, NEW i \in Front PROVE i \in Id /\ Bounded(i, Left + 1)
BY FrontNat DEF Firm, OnceInv, FrontOnce, Bounded

\* What may become of the pending tweet when t takes a step.
Takes(t) ==
  \/ mem'.pend = mem.pend /\ (sent' = sent \/ ~Current(t))
  \/ Current(t) /\ Attempt(t)
  \/ /\ Attempt(t) /\ Left + 1 <= Left'
     /\ mem'.pend \in {mem.pend, None} \/ mem'.pend.id = task[t].id
\* What it may send.
Sends(t) == sent' = sent \/ (Attempt(t) /\ \A j \in Id \ {task[t].id} : sent'[j] = sent[j])

\* The other tasks keep what they owe.
LEMMA OthersOnce ==
  ASSUME Firm, NEW t \in Task, TaskWorld, Moves(t) \/ End(t), Left <= Left', Spare <= Spare',
         Sends(t), Takes(t), NEW u \in Task, u # t
  PROVE  TaskOnce(u)' /\ LateOnce(u)'
<1>1. /\ TypeInv /\ WorldInv /\ TypeInv' /\ WorldInv' /\ gen' = gen /\ conf' = conf
      /\ TaskOnce(u) /\ LateOnce(u) /\ Apart
  BY DEF Firm, TaskWorld, OnceInv
<1>2. Rests(u)
  BY <1>1, OthersRest
<1>3. ASSUME Attempt(u) PROVE sent'[task[u].id] = sent[task[u].id]
  <2>1. task[u].id \in Id
    BY <1>3, InTurnIs DEF Firm
  <2>2. Attempt(t) => task[u].id # task[t].id
    BY <1>1, <1>3 DEF Apart
  <2> QED
    BY <2>1, <2>2 DEF Sends
<1>4. LateOnce(u)'
  BY <1>1, <1>2, <1>3, LateStays
<1>5. CASE mem'.pend = mem.pend
  BY <1>1, <1>2, <1>3, <1>4, <1>5, TaskStays
<1>6. CASE Current(t) /\ Attempt(t)
  <2>1. ~(Current(u) /\ Attempt(u))
    BY <1>6, HeadIs
  <2>2. ~(Current(u)' /\ Begun(u)')
    BY <1>1, <1>2, <2>1, RestPlace DEF Attempt
  <2> QED
    BY <1>4, <2>2 DEF TaskOnce
<1>7. CASE /\ Attempt(t) /\ Left + 1 <= Left'
           /\ mem'.pend = None \/ mem'.pend.id = task[t].id
  <2>1. ASSUME Attempt(u) PROVE Kept(task[u].id)' => mem'.pend = mem.pend
    <3>1. task[u].id # task[t].id /\ task'[u].id = task[u].id
      BY <1>1, <1>2, <1>7, <2>1 DEF Apart, Rests
    <3> QED
      BY <1>7, <3>1 DEF Kept
  <2>2. ASSUME Current(u), Begun(u) PROVE Bounded(task[u].id, Left + 1)
    <3>1. task[u].id \in Front
      BY <2>2, HeadIs DEF Attempt
    <3> QED
      BY <3>1, FrontBound
  <2>3. CASE Attempt(u)
    BY <1>1, <1>2, <1>3, <1>4, <1>7, <2>1, <2>2, <2>3, TaskEases
  <2>4. CASE ~Attempt(u)
    <3>1. ~Begun(u)'
      BY <1>1, <1>2, <2>4, RestPlace DEF Attempt
    <3> QED
      BY <1>4, <3>1 DEF TaskOnce
  <2> QED
    BY <2>3, <2>4
<1> QED
  BY <1>5, <1>6, <1>7 DEF Takes

\* No two tasks come to have the same tweet in turn.
LEMMA ApartStays ==
  ASSUME TypeInv, Apart, NEW t \in Task, Moves(t) \/ End(t), gen' = gen,
         \/ ~Attempt(t)'
         \/ Attempt(t) /\ task'[t].id = task[t].id
         \/ \A u \in Task : u # t /\ Attempt(u) => task[u].id # task'[t].id
  PROVE  Apart'
<1>1. \A u \in Task : u # t => Rests(u)
  BY OthersRest
<1>2. \A u \in Task : u # t => (Attempt(u)' <=> Attempt(u)) /\ task'[u].id = task[u].id
  BY <1>1, RestPlace
<1>3. ASSUME NEW u \in Task, u # t, Attempt(u)', Attempt(t)' PROVE task'[u].id # task'[t].id
  BY <1>2, <1>3 DEF Apart
<1>4. ASSUME NEW u \in Task, NEW v \in Task, u # v, Attempt(u)', Attempt(v)'
      PROVE task'[u].id # task'[v].id
  <2>1. CASE u = t
    BY <1>3, <1>4, <2>1
  <2>2. CASE v = t
    BY <1>3, <1>4, <2>2
  <2>3. CASE u # t /\ v # t
    BY <1>2, <1>4, <2>3 DEF Apart
  <2> QED
    BY <2>1, <2>2, <2>3
<1> QED
  BY <1>4 DEF Apart

\* A task takes a step: what is left to show is about this task and the tweet it has in turn.
LEMMA OnceTask ==
  ASSUME Firm, NEW t \in Task, TaskWorld, Moves(t) \/ End(t), Left <= Left', Spare <= Spare',
         Credit', Total', Sends(t), Takes(t), Front' \subseteq Front,
         \/ ~Attempt(t)'
         \/ Attempt(t) /\ task'[t].id = task[t].id
         \/ \A u \in Task : u # t /\ Attempt(u) => task[u].id # task'[t].id,
         TaskOnce(t)' /\ LateOnce(t)',
         \/ mem'.pend = mem.pend /\ sent' = sent
         \/ \A i \in Front' : i = task[t].id => FrontOnce(i)'
  PROVE  OnceInv'
<1>1. /\ TypeInv /\ WorldInv /\ TypeInv' /\ WorldInv' /\ gen' = gen /\ conf' = conf /\ Apart
  BY DEF Firm, TaskWorld, OnceInv
<1>2. Apart'
  BY <1>1, ApartStays
<1>3. \A u \in Task : TaskOnce(u)' /\ LateOnce(u)'
  BY OthersOnce
<1>4. ASSUME NEW j \in Front' PROVE FrontOnce(j)'
  <2>1. j \in Front /\ j \in Id /\ FrontOnce(j) /\ Bounded(j, Left + 1)
    BY <1>4, FrontBound DEF Firm, OnceInv
  <2>2. CASE mem'.pend = mem.pend /\ sent'[j] = sent[j]
    BY <1>1, <2>1, <2>2, FrontStays
  <2>3. CASE j = task[t].id /\ ~(mem'.pend = mem.pend /\ sent' = sent)
    BY <1>4, <2>3
  <2>4. CASE j # task[t].id
    <3>1. sent'[j] = sent[j]
      BY <2>1, <2>4 DEF Sends
    <3>2. CASE Current(t) /\ Attempt(t)
      <4>1. task[t].id \in Front /\ task[t].id < j
        BY <2>1, <2>4, <3>2, HeadIs
      <4>2. PICK b \in Int : b = Left /\ b <= Left'
        BY <1>1, SpareIs
      <4>3. Bounded(j, b)
        BY <2>1, <4>1, <4>2 DEF FrontOnce, Fresh, Bounded
      <4> QED
        BY <1>1, <2>1, <3>1, <4>2, <4>3, FreshAgain
    <3>3. CASE Left + 1 <= Left'
      <4>1. PICK b \in Int : b = Left + 1 /\ b <= Left'
        BY <1>1, <3>3, SpareIs
      <4>2. Bounded(j, b)
        BY <2>1, <4>1
      <4> QED
        BY <1>1, <2>1, <3>1, <4>1, <4>2, FreshAgain
    <3>4. CASE mem'.pend = mem.pend
      BY <2>2, <3>1, <3>4
    <3> QED
      BY <3>2, <3>3, <3>4 DEF Takes
  <2>5. mem'.pend = mem.pend /\ sent' = sent => sent'[j] = sent[j]
    OBVIOUS
  <2> QED
    BY <2>2, <2>3, <2>4, <2>5
<1> QED
  BY <1>2, <1>3, <1>4 DEF OnceInv

-----------------------------------------------------------------------------
(* Excuses come and go *)

\* A step that uses nothing of the bounds that excuse a copy.
LEMMA SpareDb ==
  ASSUME WorldInv, Used("db"), reload' = reload PROVE Spare' = Spare
<1>1. {"crash", "reload", "lost", "db"} \subseteq DOMAIN spent
  BY DEF WorldInv
<1>2. spent'.crash = spent.crash /\ spent'.reload = spent.reload /\ spent'.lost = spent.lost
  BY <1>1 DEF Used
<1> QED
  BY <1>2 DEF Spare

\* A receipt that is lost is an excuse.
LEMMA SpareLost ==
  ASSUME TypeInv, WorldInv, Used("lost"), reload' = reload PROVE Spare' = Spare + 1
<1>1. {"crash", "reload", "lost", "db"} \subseteq DOMAIN spent
  BY DEF WorldInv
<1>2. spent'.crash = spent.crash /\ spent'.reload = spent.reload /\ spent'.lost = spent.lost + 1
  BY <1>1 DEF Used
<1>3. spent.crash \in Nat /\ spent.lost \in Nat /\ spent.reload \in Nat
  BY <1>1 DEF TypeInv, TypeOK
<1> QED
  BY <1>2, <1>3 DEF Spare

\* The other tasks are late or not, as they were.
LEMMA LateRests ==
  ASSUME TypeInv, NEW t \in Task, TaskWorld, Moves(t) \/ End(t)
  PROVE  \A u \in Task : u # t => (Late(u)' <=> Late(u)) /\ task'[u].epoch = task[u].epoch
<1>1. \A u \in Task : u # t => Rests(u)
  BY OthersRest
<1>2. ASSUME NEW u \in Task, u # t PROVE task'[u].epoch = task[u].epoch
  <2>1. task \in [Task -> TaskRec]
    BY DEF TypeInv, TypeOK
  <2>2. CASE Moves(t)
    BY <1>2, <2>1, <2>2 DEF Moves
  <2>3. CASE End(t)
    <3>1. task'[u] = [task[u] EXCEPT !.ahead = @ \ {t}]
      BY <1>2, <2>3 DEF End
    <3>2. task[u] \in TaskRec
      BY <2>1
    <3> QED
      BY <3>1, <3>2 DEF TaskRec
  <2> QED
    BY <2>2, <2>3
<1>3. gen' = gen
  BY DEF TaskWorld
<1> QED
  BY <1>1, <1>2, <1>3 DEF Rests, Late, Current

\* Where a task is that is late: it has the lock of its life to itself.
LEMMA LateIs ==
  ASSUME TypeInv, NEW t \in Task, Late(t)
  PROVE  /\ task[t].epoch \in 0 .. epoch
         /\ \A u \in Task : u # t /\ Late(u) => task[u].epoch # task[t].epoch
<1>1. task[t].pc = "media" /\ task[t] \in TaskRec /\ Life(t) /\ epoch \in Nat
  BY DEF Late, TypeInv, TypeOK
<1>2. task[t].epoch \in Nat /\ task[t].epoch <= epoch
  BY <1>1 DEF TaskRec, Life
<1>3. ASSUME NEW u \in Task, u # t, Late(u), task[u].epoch = task[t].epoch PROVE FALSE
  <2>1. task[u].pc = "media"
    BY <1>3 DEF Late
  <2>2. task[t].ahead = {} /\ task[u].ahead = {}
    BY <1>1, <2>1, HasLock
  <2>3. Before(t, u)
    BY DEF TypeInv
  <2> QED
    BY <1>1, <1>3, <2>1, <2>2, <2>3 DEF Before
<1> QED
  BY <1>2, <1>3

\* A task that goes on makes none late, and is none itself any more.
LEMMA LatesTask ==
  ASSUME TypeInv, WorldInv, TypeInv', WorldInv', NEW t \in Task, TaskWorld, Moves(t) \/ End(t),
         ~Late(t)'
  PROVE  /\ ~Late(t) => Cardinality(Lates') = Cardinality(Lates)
         /\ Late(t) => Cardinality(Lates') = Cardinality(Lates) - 1
<1>1. epoch' = epoch /\ \A u \in Task : u # t => (Late(u)' <=> Late(u)) /\ task'[u].epoch = task[u].epoch
  BY LateRests DEF TaskWorld
<1>2. CASE ~Late(t)
  <2>1. Lates' = Lates
    BY <1>1, <1>2 DEF Lates
  <2> QED
    BY <1>2, <2>1
<1>3. CASE Late(t)
  <2>1. PICK e : e = task[t].epoch
    OBVIOUS
  <2>2. e \in Lates
    BY <1>3, <2>1, LateIs DEF Lates
  <2>3. \A u \in Task : u # t /\ Late(u) => task[u].epoch # e
    BY <1>3, <2>1, LateIs
  <2>4. Lates' = Lates \ {e}
    <3>1. ASSUME NEW f \in 0 .. epoch
          PROVE  (\E u \in Task : Late(u)' /\ task'[u].epoch = f)
                   <=> f # e /\ \E u \in Task : Late(u) /\ task[u].epoch = f
      BY <1>1, <1>3, <2>1, <2>3
    <3>2. Lates' = {f \in 0 .. epoch : \E u \in Task : Late(u)' /\ task'[u].epoch = f}
      BY <1>1 DEF Lates
    <3> QED
      BY <3>1, <3>2 DEF Lates
  <2>5. IsFiniteSet(Lates)
    BY LatesIs
  <2>6. Cardinality(Lates \ {e}) = Cardinality(Lates) - 1
    BY <2>2, <2>5, FS_RemoveElement
  <2> QED
    BY <1>3, <2>4, <2>6
<1> QED
  BY <1>2, <1>3

\* The excuses after a step of a task.
LEMMA LeftTask ==
  ASSUME Firm, NEW t \in Task, TaskWorld, Moves(t) \/ End(t), ~Late(t)', Spare <= Spare'
  PROVE  /\ Credit' /\ Left <= Left' /\ (Late(t) => Left + 1 <= Left')
         /\ Spare + 1 <= Spare' => Left + 1 <= Left'
<1>1. /\ TypeInv /\ WorldInv /\ TypeInv' /\ WorldInv' /\ Credit /\ reload' = reload
  BY DEF Firm, TaskWorld, OnceInv
<1>2. Spare \in Int /\ Spare' \in Int
  BY <1>1, SpareIs, SpareLater
<1>3. PICK m, n : m = Cardinality(Lates) /\ n = Cardinality(Lates)'
  OBVIOUS
<1>4. m \in Nat /\ (n = m \/ (n = m - 1)) /\ (Late(t) => n = m - 1)
  <2>1. m \in Nat
    BY <1>1, <1>3, LatesIs
  <2> QED
    BY <1>1, <1>3, <2>1, LatesTask
<1>5. m + (IF reload = "reset" THEN 1 ELSE 0) <= Spare
  BY <1>1, <1>3 DEF Credit
<1>6. n + (IF reload = "reset" THEN 1 ELSE 0) <= Spare'
  BY <1>2, <1>4, <1>5
<1>7. Credit'
  BY <1>1, <1>3, <1>6 DEF Credit
<1>8. Left = Spare - m /\ Left' = Spare' - n
  BY <1>3 DEF Left
<1> QED
  BY <1>2, <1>4, <1>7, <1>8

\* Nothing is sent.
LEMMA TotalStays ==
  ASSUME Firm, sent' = sent, Spare <= Spare', up' \/ ~up
  PROVE  Total'
<1>1. /\ TypeInv /\ WorldInv /\ TypeInv' /\ WorldInv' /\ Total
  BY DEF Firm, OnceInv
<1>2. PICK b, c : b = Spare /\ c = Spare'
  OBVIOUS
<1>3. b \in Int /\ c \in Int /\ b + 1 \in Int /\ c + 1 \in Int /\ b <= c /\ b + 1 <= c + 1
  BY <1>1, <1>2, SpareIs, SpareLater
<1>4. ASSUME NEW i \in Id, NEW x \in Target
      PROVE  AtMost(i, x, c + 1)' /\ (~up' => AtMost(i, x, c)')
  <2>1. AtMost(i, x, b + 1) /\ (~up => AtMost(i, x, b))
    BY <1>1, <1>2 DEF Total
  <2> QED
    BY <1>1, <1>3, <2>1, AtMostLater
<1> QED
  BY <1>2, <1>4 DEF Total

-----------------------------------------------------------------------------
(* A task goes on with the tweet in turn *)

\* The places that a target may have in an attempt.
Places4(t) == task[t].done \cup DOMAIN task[t].queue \cup Tried(t) \cup InHand(t)

\* The target goes from the queue to its turn, and from there to those that were tried.
Forward(t, x) ==
  /\ x \in DOMAIN task'[t].queue
       => x \in DOMAIN task[t].queue /\ task'[t].queue[x] = task[t].queue[x]
  /\ x \in InHand(t)' => \/ x \in InHand(t) /\ task'[t].n = task[t].n
                         \/ x \in DOMAIN task[t].queue /\ task'[t].n = task[t].queue[x]
  /\ x \in Tried(t)' => \/ x \in Tried(t) /\ task'[t].out[x] = task[t].out[x]
                        \/ x \in InHand(t) /\ task'[t].out[x] = task[t].n
                        \/ task'[t].out[x] = Done
  /\ x \notin Places4(t)' => x \notin Places4(t) \/ x \notin conf.to

\* The progress with x goes with it.
LEMMA DueGoes ==
  ASSUME TypeInv, TypeInv', WorldInv, WorldInv', NEW t \in Task, NEW x \in Target, NEW i \in Id,
         i = task[t].id, task'[t].id = i, task'[t].all = task[t].all, sent'[i][x] = sent[i][x],
         Due(t, x), Left <= Left', Odd(t, x)' => Odd(t, x), Forward(t, x)
  PROVE  Due(t, x)'
<1>1. PICK b, c : b = Left /\ c = Left'
  OBVIOUS
<1>2. PICK e, f : e = Ease(t, x) /\ f = Ease(t, x)'
  OBVIOUS
<1>3. b \in Int /\ c \in Int /\ b <= c /\ e \in Int /\ f \in Int /\ e <= f /\ e <= b
  <2>1. b \in Int /\ c \in Int /\ b <= c
    BY <1>1, SpareIs, SpareLater
  <2>2. (e = b /\ ~Odd(t, x)) \/ (e = b - 1 /\ Odd(t, x))
    BY <1>1, <1>2 DEF Ease
  <2>3. (f = c /\ ~Odd(t, x)') \/ (f = c - 1 /\ Odd(t, x)')
    BY <1>1, <1>2 DEF Ease
  <2> QED
    BY <2>1, <2>2, <2>3
<1>4. PICK all, queue, out, n :
        all = task[t].all /\ queue = task[t].queue /\ out = task[t].out /\ n = task[t].n
  OBVIOUS
<1>5. PICK queue2, out2, n2 :
        queue2 = task'[t].queue /\ out2 = task'[t].out /\ n2 = task'[t].n
  OBVIOUS
<1>6. /\ x \in DOMAIN queue => Beyond(i, x, all, queue[x], e)
      /\ x \in Tried(t) => Beyond(i, x, all, out[x], e)
      /\ x \in InHand(t) => Beyond(i, x, all, n, e)
      /\ x \notin Places4(t) => AtMost(i, x, b)
      /\ Odd(t, x) => AtMost(i, x, b)
  BY <1>1, <1>2, <1>4 DEF Due, Places4
<1>7. x \notin conf.to => Odd(t, x)
  BY DEF Odd
<1>8. /\ x \in DOMAIN queue2 => Beyond(i, x, all, queue2[x], e)
      /\ x \in Tried(t)' => out2[x] = Done \/ Beyond(i, x, all, out2[x], e)
      /\ x \in InHand(t)' => Beyond(i, x, all, n2, e)
      /\ x \notin Places4(t)' => AtMost(i, x, b)
      /\ Odd(t, x)' => AtMost(i, x, b)
  BY <1>4, <1>5, <1>6, <1>7 DEF Forward
<1>9. ASSUME NEW m, m = Done \/ Beyond(i, x, all, m, e) PROVE Beyond(i, x, all, m, f)'
  <2>1. Beyond(i, x, all, m, e)
    BY <1>9 DEF Beyond
  <2> QED
    BY <1>3, <2>1, BeyondLater
<1>10. AtMost(i, x, b) => AtMost(i, x, c)'
  BY <1>3, AtMostLater
<1>11. /\ x \in DOMAIN queue2 => Beyond(i, x, all, queue2[x], f)'
       /\ x \in Tried(t)' => Beyond(i, x, all, out2[x], f)'
       /\ x \in InHand(t)' => Beyond(i, x, all, n2, f)'
       /\ x \notin Places4(t)' => AtMost(i, x, c)'
       /\ Odd(t, x)' => AtMost(i, x, c)'
  BY <1>8, <1>9, <1>10
<1>12. task'[t].id = i /\ task'[t].all = all
  BY <1>4
<1> QED
  BY <1>1, <1>2, <1>5, <1>11, <1>12 DEF Due, AtMost, Beyond, Places4

\* So do all.
ForwardAll(t) ==
  /\ task'[t].id = task[t].id /\ task'[t].all = task[t].all
  /\ DOMAIN task'[t].queue \subseteq DOMAIN task[t].queue
  /\ InHand(t)' \subseteq InHand(t) \cup DOMAIN task[t].queue
  /\ InHand(t)' \cap DOMAIN task'[t].queue = {}
  /\ Tried(t)' \subseteq Tried(t) \cup InHand(t) /\ Tried(t)' \cap InHand(t)' = {}
  /\ \A x \in Target : Forward(t, x)

\* No target comes to be in two places.
LEMMA PlacedForward ==
  ASSUME NEW t \in Task, Placed(t), ForwardAll(t),
         Kept(task[t].id)' => /\ Kept(task[t].id) /\ mem'.pend.fp = mem.pend.fp
                              /\ DOMAIN mem'.pend.at = DOMAIN mem.pend.at
  PROVE  Placed(t)'
<1>1. PICK old, new, hand, hand2, tried, tried2 :
        /\ old = DOMAIN task[t].queue /\ new = DOMAIN task'[t].queue
        /\ hand = InHand(t) /\ hand2 = InHand(t)' /\ tried = Tried(t) /\ tried2 = Tried(t)'
  OBVIOUS
<1>2. /\ new \subseteq old /\ hand2 \subseteq hand \cup old /\ hand2 \cap new = {}
      /\ tried2 \subseteq tried \cup hand /\ tried2 \cap hand2 = {}
  BY <1>1 DEF ForwardAll
<1>3. tried \cap (old \cup hand) = {} /\ hand \cap old = {}
  BY <1>1 DEF Placed
<1>4. tried2 \cap (new \cup hand2) = {} /\ hand2 \cap new = {} /\ new \cup hand2 \subseteq old \cup hand
  BY <1>2, <1>3
<1>5. Kept(task[t].id)' => /\ mem'.pend.fp = task'[t].all /\ new \cup hand2 \subseteq DOMAIN mem'.pend.at
  <2>1. Kept(task[t].id) => mem.pend.fp = task[t].all /\ old \cup hand \subseteq DOMAIN mem.pend.at
    BY <1>1 DEF Placed
  <2> QED
    BY <1>4, <2>1 DEF ForwardAll
<1> QED
  BY <1>1, <1>4, <1>5 DEF Placed

\* The task owes what it owed.
LEMMA TaskForward ==
  ASSUME TypeInv, TypeInv', WorldInv, WorldInv', NEW t \in Task, Current(t), Begun(t),
         ForwardAll(t), conf' = conf, mem'.pend = mem.pend, sent' = sent, Left <= Left',
         TaskOnce(t)
  PROVE  TaskOnce(t)'
<1>1. Placed(t) /\ \A x \in Target : Due(t, x)
  BY DEF TaskOnce
<1>2. PICK i : i = task[t].id
  OBVIOUS
<1>3. i \in Id /\ task'[t].id = i
  BY <1>2 DEF Attempt, ForwardAll, TypeInv, TaskPlan
<1>4. Kept(task[t].id)' <=> Kept(task[t].id)
  BY DEF Kept, ForwardAll
<1>5. Placed(t)'
  BY <1>1, <1>4, PlacedForward
<1>6. ASSUME NEW x \in Target PROVE Due(t, x)'
  <2>1. Odd(t, x)' => Odd(t, x)
    BY <1>4 DEF Odd, ForwardAll
  <2>2. Forward(t, x) /\ task'[t].all = task[t].all
    BY DEF ForwardAll
  <2> QED
    BY <1>1, <1>2, <1>3, <2>1, <2>2, DueGoes
<1> QED
  BY <1>5, <1>6 DEF TaskOnce

\* A step of a task that leaves alone what is pending and what was sent.
LEMMA OnceQuiet ==
  ASSUME Firm, NEW t \in Task, TaskWorld, up, Moves(t) \/ End(t), ~Late(t)',
         Spare <= Spare', sent' = sent, mem'.pend = mem.pend, Front' \subseteq Front,
         \/ ~Attempt(t)'
         \/ Attempt(t) /\ task'[t].id = task[t].id
         \/ \A u \in Task : u # t /\ Attempt(u) => task[u].id # task'[t].id,
         task'[t].pc = "inflight" => Current(t)', Current(t)' /\ Begun(t)' => TaskOnce(t)'
  PROVE  OnceInv'
<1>1. Left <= Left' /\ Credit' /\ Total'
  BY LeftTask, TotalStays DEF TaskWorld
<1>2. TaskOnce(t)' /\ LateOnce(t)'
  BY DEF TaskOnce, LateOnce
<1>3. Sends(t) /\ Takes(t)
  BY DEF Sends, Takes
<1> QED
  BY <1>1, <1>2, <1>3, OnceTask

\* Neither does memory change.
LEMMA OnceSame ==
  ASSUME Firm, NEW t \in Task, TaskWorld, up, Moves(t) \/ End(t), task'[t].pc # "media",
         Spare <= Spare', sent' = sent, mem' = mem,
         Attempt(t)' => Attempt(t) /\ task'[t].id = task[t].id,
         task'[t].pc = "inflight" => Current(t)',
         Begun(t)' => (Current(t) /\ Begun(t) /\ ForwardAll(t)) \/ ~Current(t)'
  PROVE  OnceInv'
<1>1. TypeInv /\ TypeInv' /\ WorldInv /\ WorldInv' /\ TaskOnce(t) /\ conf' = conf
  BY DEF Firm, OnceInv, TaskWorld
<1>2. Front' = Front
  BY <1>1, SameFront DEF TaskWorld
<1>3. ~Late(t)' /\ Left <= Left'
  BY LeftTask DEF Late
<1>4. Current(t)' /\ Begun(t)' => TaskOnce(t)'
  BY <1>1, <1>3, TaskForward
<1> QED
  BY <1>2, <1>3, <1>4, OnceQuiet

\* The progress stays where it is,
LEMMA ForwardSame ==
  ASSUME NEW t \in Task, Placed(t), KeepsTweet(t), task'[t].queue = task[t].queue,
         task'[t].to = task[t].to, task'[t].n = task[t].n, task'[t].out = task[t].out,
         Sending(t)' <=> Sending(t), Turn(t)' <=> Turn(t)
  PROVE  ForwardAll(t)
<1>1. Tried(t)' = Tried(t) /\ InHand(t)' = InHand(t)
  BY DEF Tried, InHand
<1>2. Places4(t)' = Places4(t)
  BY <1>1 DEF Places4, KeepsTweet
<1>3. ASSUME NEW x \in Target PROVE Forward(t, x)
  BY <1>1, <1>2 DEF Forward
<1> QED
  BY <1>1, <1>3 DEF ForwardAll, Placed, KeepsTweet

\* the turn of a target is over,
LEMMA ForwardOvers ==
  ASSUME TypeInv, NEW t \in Task, Placed(t), Turn(t), NEW n \in {task[t].n, Done}, Overs(t, n)
  PROVE  ForwardAll(t)
<1>1. PICK out, x : out = task[t].out /\ x = task[t].to
  OBVIOUS
<1>2. /\ Sending(t) /\ x \in Target /\ task[t] \in TaskRec /\ n \in Done .. Body + 1
      /\ out \in Progress
  <2>1. task[t].n \in Done .. Body + 1 /\ Done \in Done .. Body + 1
    BY TurnIs, PartsType DEF Done
  <2>2. task[t].out \in Progress
    BY TurnIs DEF TaskRec
  <2> QED
    BY <1>1, <2>1, <2>2, TurnIs
<1>3. /\ DOMAIN Outcome(out, x, n) = DOMAIN out \cup {x} /\ Outcome(out, x, n)[x] = n
      /\ \A y \in DOMAIN out : y # x => Outcome(out, x, n)[y] = out[y]
  BY <1>2, OutcomeIs
<1>4. task'[t].out = Outcome(out, x, n) /\ task'[t].queue = task[t].queue /\ task'[t].pc = "send"
  BY <1>1 DEF Overs
<1>5. Tried(t) = DOMAIN out /\ InHand(t) = {x}
  BY <1>1, <1>2 DEF Tried, InHand
<1>6. Tried(t)' = DOMAIN out \cup {x} /\ InHand(t)' = {}
  <2>1. Sending(t)' /\ ~Turn(t)'
    BY <1>4 DEF Sending, Turn, Storing
  <2> QED
    BY <1>3, <1>4, <2>1 DEF Tried, InHand
<1>7. x \notin DOMAIN out
  BY <1>5 DEF Placed
<1>8. Places4(t)' = Places4(t)
  BY <1>4, <1>5, <1>6 DEF Places4, Overs, KeepsTweet
<1>9. ASSUME NEW y \in Target PROVE Forward(t, y)
  <2>1. y \in Tried(t)' => \/ y \in Tried(t) /\ task'[t].out[y] = task[t].out[y]
                           \/ y \in InHand(t) /\ task'[t].out[y] = task[t].n
                           \/ task'[t].out[y] = Done
    BY <1>1, <1>3, <1>4, <1>5, <1>6, <1>7
  <2> QED
    BY <1>4, <1>6, <1>8, <2>1 DEF Forward
<1> QED
  BY <1>4, <1>5, <1>6, <1>9 DEF ForwardAll, Overs, KeepsTweet

\* or a target leaves the queue: it has its turn, or it is not a target any more.
LEMMA ForwardLeaves ==
  ASSUME NEW t \in Task, Placed(t), NEW x \in Target, Leaves(t, x), task[t].pc = "send",
         \/ task'[t].pc = "send" /\ x \notin conf.to
         \/ task'[t].pc = "part" /\ task'[t].to = x /\ x \in DOMAIN task[t].queue
            /\ task'[t].n = task[t].queue[x]
  PROVE  ForwardAll(t)
<1>1. Tried(t) = DOMAIN task[t].out /\ InHand(t) = {}
  BY DEF Tried, InHand, Sending, Turn, Storing
<1>2. /\ DOMAIN task'[t].queue = DOMAIN task[t].queue \ {x} /\ task'[t].out = task[t].out
      /\ \A y \in DOMAIN task'[t].queue : task'[t].queue[y] = task[t].queue[y]
      /\ task'[t].done = task[t].done /\ task'[t].id = task[t].id /\ task'[t].all = task[t].all
  BY DEF Leaves, KeepsTweet
<1>3. Tried(t)' = Tried(t) /\ Tried(t) \cap DOMAIN task[t].queue = {}
  <2>1. Sending(t)'
    BY DEF Sending, Turn
  <2> QED
    BY <1>1, <1>2, <2>1 DEF Tried, Placed
<1>4. CASE task'[t].pc = "send" /\ x \notin conf.to
  <2>1. InHand(t)' = {}
    BY <1>4 DEF InHand, Turn, Storing
  <2>2. ASSUME NEW y \in Target PROVE Forward(t, y)
    BY <1>1, <1>2, <1>3, <1>4, <2>1 DEF Forward, Places4
  <2> QED
    BY <1>2, <1>3, <2>1, <2>2 DEF ForwardAll
<1>5. CASE /\ task'[t].pc = "part" /\ task'[t].to = x /\ x \in DOMAIN task[t].queue
           /\ task'[t].n = task[t].queue[x]
  <2>1. InHand(t)' = {x}
    BY <1>5 DEF InHand, Turn
  <2>2. ASSUME NEW y \in Target PROVE Forward(t, y)
    BY <1>1, <1>2, <1>3, <1>5, <2>1 DEF Forward, Places4
  <2> QED
    BY <1>1, <1>2, <1>3, <1>5, <2>1, <2>2 DEF ForwardAll
<1> QED
  BY <1>4, <1>5

\* A task that has begun, in this life.
LEMMA PlacedIs ==
  ASSUME Firm, NEW t \in Task
  PROVE  /\ Current(t) /\ Begun(t) => Placed(t) /\ \A x \in Target : Due(t, x)
         /\ gen' = gen => (Moves(t) => (Current(t)' <=> Current(t)) \/ task[t].pc = "idle")
BY DEF Firm, OnceInv, TaskOnce, Moves, Current

\* The batch is over, or an error ends the task.
LEMMA OnceEnds ==
  ASSUME Firm, NEW t \in Task, TaskWorld, up, End(t), Spare <= Spare', sent' = sent, mem' = mem
  PROVE  OnceInv'
<1>1. task'[t].pc = "idle"
  BY EndGoes DEF Firm
<1>2. ~Attempt(t)' /\ ~Begun(t)'
  BY <1>1 DEF Attempt, Begun, Sending, Turn, Storing
<1> QED
  BY <1>1, <1>2, OnceSame

\* The turn of a target is over, and nothing was sent.
LEMMA OnceOvers ==
  ASSUME Firm, NEW t \in Task, TaskWorld, up, Turn(t), NEW n \in {task[t].n, Done}, Overs(t, n),
         Spare <= Spare', sent' = sent, mem' = mem
  PROVE  OnceInv'
<1>1. TypeInv /\ gen' = gen /\ Moves(t) /\ task'[t].pc = "send" /\ task'[t].id = task[t].id
  BY DEF Firm, TaskWorld, Overs, KeepsTweet
<1>2. Attempt(t) /\ Begun(t) /\ task[t].pc # "idle"
  BY <1>1, TurnIs
<1>3. Current(t)' <=> Current(t)
  BY <1>1, <1>2, PlacedIs
<1>4. Current(t) => ForwardAll(t)
  BY <1>1, <1>2, PlacedIs, ForwardOvers
<1> QED
  BY <1>1, <1>2, <1>3, <1>4, OnceSame

\* The task is over.
LEMMA OnceEndTask == ASSUME Firm, up, NEW t \in Task, EndTask(t) PROVE OnceInv'
<1>1. TypeInv /\ WorldInv
  BY DEF Firm
<1>2. TaskWorld /\ End(t) /\ mem' = mem
  BY <1>1, EndTaskType
<1>3. sent' = sent /\ spent' = spent /\ reload' = reload
  BY DEF EndTask, hist, bound
<1>4. Spare <= Spare'
  BY <1>1, <1>3, SpareIs DEF Spare
<1> QED
  BY <1>2, <1>3, <1>4, OnceEnds

\* What is stored.
LEMMA OnceTaskRead == ASSUME Firm, up, NEW t \in Task, TaskRead(t) PROVE OnceInv'
<1>1. TypeInv /\ WorldInv
  BY DEF Firm
<1>2. TaskWorld /\ Moves(t) /\ UNCHANGED <<mem, sent>> /\ KeepsTweet(t)
  BY <1>1, TaskReadType DEF KeepsTweet
<1>3. /\ task[t].pc = "persist" /\ task'[t].pc = "commit" /\ task'[t].then = task[t].then
      /\ task'[t].queue = task[t].queue /\ task'[t].to = task[t].to /\ task'[t].n = task[t].n
      /\ task'[t].out = task[t].out
  BY <1>1, TaskReadType DEF TaskRead, At
<1>4. Spare <= Spare'
  <2>1. spent' = spent /\ reload' = reload
    BY DEF TaskRead, bound
  <2> QED
    BY <1>1, <2>1, SpareIs DEF Spare
<1>5. /\ Sending(t)' <=> Sending(t)
      /\ Turn(t)' <=> Turn(t)
      /\ Begun(t)' <=> Begun(t)
      /\ Attempt(t)' <=> Attempt(t)
  BY <1>3 DEF Attempt, Begun, Sending, Turn, Storing
<1>6. Current(t)' <=> Current(t)
  BY <1>2, <1>3, PlacedIs DEF TaskWorld
<1>7. Current(t) /\ Begun(t) => ForwardAll(t)
  BY <1>2, <1>3, <1>5, PlacedIs, ForwardSame
<1>8. task'[t].id = task[t].id
  BY <1>2 DEF KeepsTweet
<1> QED
  BY <1>2, <1>3, <1>4, <1>5, <1>6, <1>7, <1>8, OnceSame

\* No bound is used.
LEMMA SpareSame ==
  ASSUME TypeInv, WorldInv, spent' = spent, reload' = reload PROVE Spare <= Spare' /\ Spare' = Spare
BY SpareIs DEF Spare

\* The commit.
LEMMA OnceTaskCommit == ASSUME Firm, up, NEW t \in Task, TaskCommit(t) PROVE OnceInv'
<1>1. TypeInv /\ WorldInv
  BY DEF Firm
<1>2. TaskWorld /\ UNCHANGED <<mem, sent>>
  BY <1>1, TaskCommitType
<1>3. Spare <= Spare'
  <2>1. spent' = spent /\ reload' = reload
    BY DEF TaskCommit, bound
  <2> QED
    BY <1>1, <2>1, SpareSame
<1>4. CASE Turn(t) /\ Overs(t, task[t].n)
  BY <1>2, <1>3, <1>4, OnceOvers
<1>5. CASE End(t)
  BY <1>2, <1>3, <1>5, OnceEnds
<1>6. CASE Thens(t)
  <2>1. task[t].pc = "commit" /\ task[t] \in TaskRec
    BY <1>1 DEF TaskCommit, At, TypeInv, TypeOK
  <2>2. task'[t].pc = task[t].then /\ task[t].then \in {"next", "ready", "part", "stop", "end"}
    BY <1>6, <2>1 DEF Thens, TaskRec
  <2>3. /\ Moves(t) /\ KeepsTweet(t) /\ task'[t].queue = task[t].queue /\ task'[t].to = task[t].to
        /\ task'[t].n = task[t].n /\ task'[t].out = task[t].out /\ task'[t].id = task[t].id
    BY <1>6 DEF Thens, KeepsTweet
  <2>4. /\ Sending(t)' <=> Sending(t)
        /\ Turn(t)' <=> Turn(t)
        /\ Begun(t)' <=> Begun(t)
        /\ Attempt(t)' <=> Attempt(t)
    BY <2>1, <2>2 DEF Attempt, Begun, Sending, Turn, Storing
  <2>5. Current(t)' <=> Current(t)
    BY <1>2, <2>1, <2>3, PlacedIs DEF TaskWorld
  <2>6. Current(t) /\ Begun(t) => ForwardAll(t)
    BY <2>3, <2>4, PlacedIs, ForwardSame
  <2> QED
    BY <1>2, <1>3, <2>2, <2>3, <2>4, <2>5, <2>6, OnceSame
<1> QED
  BY <1>1, <1>4, <1>5, <1>6, TaskCommitType

\* An error of the database.
LEMMA OnceTaskDbError == ASSUME Firm, up, NEW t \in Task, TaskDbError(t) PROVE OnceInv'
<1>1. TypeInv /\ WorldInv
  BY DEF Firm
<1>2. TaskWorld /\ UNCHANGED <<mem, sent>>
  BY <1>1, TaskDbErrorType
<1>3. Spare <= Spare'
  <2>1. Used("db") /\ reload' = reload
    BY DEF TaskDbError
  <2> QED
    BY <1>1, <2>1, SpareDb, SpareIs
<1>4. CASE Turn(t) /\ Overs(t, task[t].n)
  BY <1>2, <1>3, <1>4, OnceOvers
<1>5. CASE End(t)
  BY <1>2, <1>3, <1>5, OnceEnds
<1> QED
  BY <1>1, <1>4, <1>5, TaskDbErrorType

\* Whom a task of this life may not send to is not a target any more.
LEMMA LeftOut ==
  ASSUME Firm, NEW t \in Task, Current(t), NEW x, ~Active(t, x) PROVE x \notin conf.to
<1>1. conf.on
  BY DEF Firm, QueueInv, OrderInv, TaskOrder, Current
<1> QED
  BY <1>1 DEF Active, Live, Valid, Current

\* A target is left out, or has its turn.
LEMMA OnceTurns ==
  ASSUME Firm, up, NEW t \in Task, NEW x \in Target, SendSkip(t, x) \/ SendStart(t, x)
  PROVE  OnceInv'
<1>1. TypeInv /\ WorldInv
  BY DEF Firm
<1>2. /\ TaskWorld /\ UNCHANGED <<mem, sent>> /\ task[t].pc = "send" /\ Leaves(t, x)
      /\ \/ task'[t].pc = "send" /\ ~Active(t, x)
         \/ task'[t].pc = "part" /\ task'[t].to = x /\ x \in DOMAIN task[t].queue
            /\ task'[t].n = task[t].queue[x]
  BY <1>1, SendSkipType, SendStartType
<1>3. Spare <= Spare'
  <2>1. spent' = spent /\ reload' = reload
    BY DEF SendSkip, SendStart, bound
  <2> QED
    BY <1>1, <2>1, SpareSame
<1>4. Moves(t) /\ task'[t].id = task[t].id /\ task'[t].pc \notin {"media", "inflight", "idle"}
  BY <1>2 DEF Leaves, KeepsTweet
<1>5. Begun(t) /\ Attempt(t)
  BY <1>2 DEF Attempt, Begun, Sending
<1>6. Current(t)' <=> Current(t)
  BY <1>2, <1>4, PlacedIs DEF TaskWorld
<1>7. Current(t) => ForwardAll(t)
  <2>1. Current(t) /\ ~Active(t, x) => x \notin conf.to
    BY LeftOut
  <2> QED
    BY <1>2, <1>5, <2>1, PlacedIs, ForwardLeaves
<1> QED
  BY <1>2, <1>3, <1>4, <1>5, <1>6, <1>7, OnceSame

\* A target is done, a part goes out, or the target may not get it.
LEMMA OnceSendPart == ASSUME Firm, up, NEW t \in Task, SendPart(t) PROVE OnceInv'
<1>1. TypeInv /\ WorldInv
  BY DEF Firm
<1>2. TaskWorld /\ UNCHANGED <<mem, sent>> /\ task[t].pc = "part"
  BY <1>1, SendPartType
<1>3. Spare <= Spare'
  <2>1. spent' = spent /\ reload' = reload
    BY DEF SendPart, bound
  <2> QED
    BY <1>1, <2>1, SpareSame
<1>4. Turn(t) /\ Sending(t) /\ Begun(t) /\ Attempt(t)
  BY <1>2 DEF Attempt, Begun, Sending, Turn
<1>5. CASE Overs(t, Done) \/ Overs(t, task[t].n)
  BY <1>2, <1>3, <1>4, <1>5, OnceOvers
<1>6. CASE /\ Moves(t) /\ task'[t].pc = "inflight" /\ Like(task'[t], task[t])
           /\ Active(t, task[t].to)
  <2>1. /\ KeepsTweet(t) /\ task'[t].queue = task[t].queue /\ task'[t].to = task[t].to
        /\ task'[t].n = task[t].n /\ task'[t].out = task[t].out /\ task'[t].id = task[t].id
    BY <1>6 DEF Like, KeepsTweet
  <2>2. Turn(t)' /\ Sending(t)'
    BY <1>6 DEF Sending, Turn
  <2>3. Current(t) /\ Current(t)'
    BY <1>2, <1>6, PlacedIs DEF TaskWorld, Active, Live, Valid, Current
  <2>4. ForwardAll(t)
    BY <1>4, <2>1, <2>2, <2>3, PlacedIs, ForwardSame
  <2> QED
    BY <1>2, <1>3, <1>4, <1>6, <2>1, <2>3, <2>4, OnceSame
<1> QED
  BY <1>1, <1>5, <1>6, SendPartType

\* The target failed, or refused.
LEMMA OnceFails ==
  ASSUME Firm, up, NEW t \in Task, SendFailed(t) \/ SendRefused(t) PROVE OnceInv'
<1>1. TypeInv /\ WorldInv
  BY DEF Firm
<1>2. TaskWorld /\ mem' = mem /\ task[t].pc = "inflight"
      /\ (Overs(t, task[t].n) \/ Overs(t, Done))
  BY <1>1, SendFailedType, SendRefusedType
<1>3. Spare <= Spare' /\ sent' = sent
  <2>1. spent' = spent /\ reload' = reload /\ sent' = sent
    BY DEF SendFailed, SendRefused, hist, bound
  <2> QED
    BY <1>1, <2>1, SpareSame
<1>4. Turn(t)
  BY <1>2 DEF Turn
<1> QED
  BY <1>2, <1>3, <1>4, OnceOvers

\* A step of a task leaves the rest as sound as it was.
LEMMA TaskSound ==
  ASSUME Firm, NEW t \in Task, TaskNext(t) \/ SendRefused(t) \/ SendLost(t) \/ TaskDbError(t)
  PROVE  Sound /\ TaskGrows /\ TaskWorld /\ up /\ task[t].pc # "idle"
BY FirmSound, TaskGrowth, TaskKeeps DEF Firm

\* The cursor after a batch.
LEMMA OnceFinish == ASSUME Firm, NEW t \in Task, Finish(t) PROVE OnceInv'
<1>1. TypeInv /\ WorldInv /\ Sound /\ TaskGrows /\ TaskWorld /\ up
  BY TaskSound DEF Firm, TaskNext
<1>2. Spare <= Spare' /\ sent' = sent
  <2>1. spent' = spent /\ reload' = reload /\ sent' = sent
    BY DEF Finish, hist, bound
  <2> QED
    BY <1>1, <2>1, SpareSame
<1>3. mem'.init = mem.init /\ (mem.init => Open' = Open) /\ feed' = feed /\ gen' = gen /\ chk' = chk
  BY <1>1, QueueFinish DEF TaskWorld
<1>4. Front' = Front
  BY <1>3 DEF Front, Fetch
<1>5. CASE End(t) /\ mem' = mem
  BY <1>1, <1>2, <1>5, OnceEnds
<1>6. CASE /\ mem' = [mem EXCEPT !.last = Max(task[t].got)] /\ Moves(t)
           /\ task'[t].pc = "persist" /\ task'[t].then = "end"
  <2>1. mem'.pend = mem.pend
    <3>1. mem \in State
      BY <1>1 DEF TypeInv, TypeOK
    <3> QED
      BY <1>6, <3>1 DEF State
  <2>2. ~Attempt(t)' /\ ~Begun(t)' /\ ~Late(t)' /\ task'[t].pc # "inflight"
    BY <1>6 DEF Attempt, Begun, Sending, Turn, Storing, Late
  <2> QED
    BY <1>1, <1>2, <1>4, <1>6, <2>1, <2>2, OnceQuiet
<1> QED
  BY <1>1, <1>5, <1>6, FinishType

\* The next tweet of the batch: no other task has it.
LEMMA OnceNextTweet == ASSUME Firm, NEW t \in Task, NextTweet(t) PROVE OnceInv'
<1>1. TypeInv /\ WorldInv /\ Sound /\ TaskGrows /\ TaskWorld /\ up /\ NoteInv
  BY TaskSound DEF Firm, TaskNext
<1>2. Spare <= Spare' /\ UNCHANGED <<sent, mem>>
  <2>1. spent' = spent /\ reload' = reload /\ sent' = sent /\ mem' = mem
    BY DEF NextTweet, hist, bound
  <2> QED
    BY <1>1, <2>1, SpareSame
<1>3. Moves(t) /\ task'[t].pc = "media" /\ task'[t].id = Min(Todo(t))
  BY <1>1, NextTweetType
<1>4. task[t].pc = "next" /\ task[t].ahead = {} /\ Current(t) /\ Todo(t) # {}
  BY DEF NextTweet, At, Live, Valid, Current
<1>5. Current(t)'
  BY <1>1, <1>3, <1>4, PlacedIs DEF TaskWorld
<1>6. Front' = Front
  BY <1>1, <1>2, SameFront DEF TaskWorld
<1>7. Min(Todo(t)) \in Front
  <2>1. mem.init
    BY <1>4 DEF Firm, QueueInv, OrderInv, TaskOrder
  <2>2. task[t].ids \subseteq 1 .. published /\ task[t].ids \subseteq Id
    BY <1>1 DEF NoteInv, TaskTrue, TypeInv, TypeOK, TaskRec
  <2>3. Todo(t) \in SUBSET Id
    BY <2>2 DEF Todo
  <2>4. Min(Todo(t)) \in Todo(t)
    BY <1>4, <2>3, MinTweet
  <2>5. feed = 1 .. published
    BY DEF Firm, Whole, WorldInv
  <2> QED
    BY <2>1, <2>2, <2>4, <2>5 DEF Todo, Front, Open
<1>8. ASSUME NEW u \in Task, u # t, Attempt(u) PROVE task[u].id # task'[t].id
  <2>1. task[u].pc \notin {"idle", "next"}
    BY <1>1, <1>8, InTurnIs
  <2>2. ~Current(u)
    BY <1>1, <1>4, <1>8, <2>1, OneLock
  <2>3. task[u].id \in Id /\ task[u].id \notin Front
    BY <1>8, <2>2, OldIs
  <2> QED
    BY <1>3, <1>7, <2>3
<1>9. ~Begun(t)' /\ ~Late(t)' /\ task'[t].pc # "inflight"
  BY <1>3, <1>5 DEF Begun, Sending, Turn, Storing, Late
<1> QED
  BY <1>1, <1>2, <1>3, <1>6, <1>8, <1>9, OnceQuiet

-----------------------------------------------------------------------------
(* The attempt on a tweet begins, or is over *)

\* A tweet that no attempt has noted is as good as one that was not tried.
LEMMA FrontUncounted ==
  ASSUME Firm, NEW i \in Front, \A x \in Target : ~Counted(i, x), sent' = sent, Left <= Left'
  PROVE  FrontOnce(i)'
<1>1. TypeInv /\ WorldInv /\ TypeInv' /\ WorldInv' /\ FrontOnce(i) /\ i \in Id
  BY FrontBound DEF Firm, OnceInv
<1>2. PICK b \in Int : b = Left /\ b <= Left'
  BY <1>1, SpareIs
<1>3. Bounded(i, b)
  BY <1>1, <1>2 DEF FrontOnce, MemOnce, Bounded
<1> QED
  BY <1>1, <1>2, <1>3, FreshAgain

\* The tweet in turn is passed.
LEMMA OncePassed ==
  ASSUME Firm, NEW t \in Task, TaskWorld, TaskGrows, up, Attempt(t), PassesOn(t), row' = row,
         sent' = sent, Spare <= Spare', Current(t) \/ task[t].pc = "media"
  PROVE  OnceInv'
<1>1. Sound /\ TypeInv /\ Moves(t) /\ mem' = Passed(task[t].id) /\ task[t].id \in Id
  BY FirmSound, InTurnIs DEF Firm, PassesOn
<1>2. mem'.pend = None /\ mem'.init = mem.init
  BY <1>1, PassedIs
<1>3. ~Attempt(t)' /\ ~Begun(t)' /\ ~Late(t)' /\ task'[t].pc # "inflight"
  BY DEF PassesOn, Attempt, Begun, Sending, Turn, Storing, Late
<1>4. Left <= Left' /\ Credit' /\ Total' /\ (Late(t) => Left + 1 <= Left')
  BY <1>1, <1>3, LeftTask, TotalStays DEF TaskWorld
<1>5. TaskOnce(t)' /\ LateOnce(t)' /\ Sends(t)
  BY <1>3 DEF TaskOnce, LateOnce, Sends
<1>6. CASE Current(t)
  <2>1. Front' = Open \ {task[t].id} /\ Front = Open
    BY <1>1, <1>6, HeadLeaves
  <2>2. Takes(t)
    BY <1>6 DEF Takes
  <2>3. Front' \subseteq Front /\ \A i \in Front' : i = task[t].id => FrontOnce(i)'
    BY <2>1
  <2> QED
    BY <1>1, <1>3, <1>4, <1>5, <2>2, <2>3, OnceTask
<1>7. CASE ~Current(t)
  <2>1. mem.init => Open' = Open
    BY <1>1, <1>7, QueueStale
  <2>2. Front' = Front
    BY <1>2, <2>1 DEF Front, Fetch, TaskWorld
  <2>3. Late(t)
    BY <1>7 DEF Late
  <2>4. Takes(t)
    BY <1>2, <1>4, <2>3 DEF Takes
  <2>5. task[t].id \notin Front
    BY <1>7, OldIs
  <2>6. \A i \in Front' : i = task[t].id => FrontOnce(i)'
    BY <2>2, <2>5
  <2> QED
    BY <1>1, <1>3, <1>4, <1>5, <2>2, <2>4, <2>6, OnceTask
<1> QED
  BY <1>6, <1>7

\* The batch stops, with p pending.
LEMMA OnceHalted ==
  ASSUME Firm, NEW t \in Task, TaskWorld, up, Attempt(t), Halts(t), NEW p, Pends(p),
         sent' = sent, Spare <= Spare',
         \/ p = mem.pend
         \/ ~Current(t) /\ task[t].pc = "media" /\ (p = None \/ p.id = task[t].id)
         \/ Current(t) /\ (Left <= Left' => \A i \in Front' : i = task[t].id => FrontOnce(i)')
  PROVE  OnceInv'
<1>1. TypeInv /\ WorldInv /\ Moves(t)
  BY DEF Firm, Halts
<1>2. mem'.pend = p /\ mem'.last = mem.last /\ mem'.init = mem.init
  BY <1>1, StateIs DEF Pends, TypeInv, TypeOK
<1>3. ~Attempt(t)' /\ ~Begun(t)' /\ ~Late(t)' /\ task'[t].pc # "inflight"
  BY DEF Halts, Attempt, Begun, Sending, Turn, Storing, Late
<1>4. Left <= Left' /\ Credit' /\ Total' /\ (Late(t) => Left + 1 <= Left')
  BY <1>1, <1>3, LeftTask, TotalStays DEF TaskWorld
<1>5. TaskOnce(t)' /\ LateOnce(t)' /\ Sends(t)
  BY <1>3 DEF TaskOnce, LateOnce, Sends
<1>6. Front' = Front
  BY <1>1, <1>2, SameFront DEF TaskWorld
<1>7. CASE p = mem.pend
  BY <1>1, <1>2, <1>3, <1>6, <1>7, OnceQuiet
<1>8. CASE ~Current(t) /\ task[t].pc = "media" /\ (p = None \/ p.id = task[t].id)
  <2>1. Takes(t)
    BY <1>2, <1>4, <1>8 DEF Takes, Late
  <2>2. task[t].id \notin Front
    BY <1>8, OldIs
  <2>3. \A i \in Front' : i = task[t].id => FrontOnce(i)'
    BY <1>6, <2>2
  <2> QED
    BY <1>1, <1>3, <1>4, <1>5, <1>6, <2>1, <2>3, OnceTask
<1>9. CASE Current(t) /\ (Left <= Left' => \A i \in Front' : i = task[t].id => FrontOnce(i)')
  <2>1. Takes(t)
    BY <1>9 DEF Takes
  <2> QED
    BY <1>1, <1>3, <1>4, <1>5, <1>6, <1>9, <2>1, OnceTask
<1> QED
  BY <1>7, <1>8, <1>9

\* Without its media a tweet that is pending stays so.
LEMMA MissingIs ==
  ASSUME TypeInv, NoteInv, NEW t \in Task, MediaMissing(t)
  PROVE  \/ PassesOn(t)
         \/ Halts(t) /\ mem' = mem
         \/ Halts(t) /\ Pends(Waiting(t)) /\ ~Kept(task[t].id)
<1>1. /\ TaskWorld /\ UNCHANGED <<row, sent, spent>> /\ task[t].pc = "media"
      /\ \/ PassesOn(t)
         \/ Halts(t) /\ mem' = mem
         \/ Halts(t) /\ Pends(Waiting(t))
  BY MediaMissingType DEF MediaMissing, bound
<1>2. task[t].id \in Id
  BY <1>1, InTurnIs DEF Attempt
<1>3. CASE Since(task[t].id).old
  <2>1. GiveUp(t)
    BY <1>3 DEF MediaMissing
  <2> QED
    BY <1>1, <1>2, <2>1, GiveUpIs
<1>4. CASE ~Since(task[t].id).old /\ Kept(task[t].id)
  <2>1. mem' = mem
    BY <1>4 DEF MediaMissing
  <2> QED
    BY <1>1, <2>1
<1> QED
  BY <1>1, <1>3, <1>4

\* Media are missing.
LEMMA OnceMediaMissing == ASSUME Firm, NEW t \in Task, MediaMissing(t) PROVE OnceInv'
<1>1. TypeInv /\ WorldInv /\ NoteInv /\ Sound /\ TaskGrows /\ TaskWorld /\ up
  BY TaskSound DEF Firm, TaskNext
<1>2. task[t].pc = "media" /\ Attempt(t) /\ row' = row
  BY <1>1, MediaMissingType DEF Attempt
<1>3. Spare <= Spare' /\ sent' = sent
  <2>1. spent' = spent /\ reload' = reload /\ sent' = sent
    BY DEF MediaMissing, bound
  <2> QED
    BY <1>1, <2>1, SpareSame
<1>4. CASE PassesOn(t)
  BY <1>1, <1>2, <1>3, <1>4, OncePassed
<1>5. CASE Halts(t) /\ mem' = mem
  <2>1. Pends(mem.pend)
    BY <1>1, <1>5 DEF Pends, TypeInv, TypeOK, State
  <2>2. PICK p : p = mem.pend
    OBVIOUS
  <2> QED
    BY <1>1, <1>2, <1>3, <1>5, <2>1, <2>2, OnceHalted
<1>6. CASE Halts(t) /\ Pends(Waiting(t)) /\ ~Kept(task[t].id)
  <2>1. PICK p : p = Waiting(t)
    OBVIOUS
  <2>2. Pends(p) /\ p.id = task[t].id
    BY <1>6, <2>1 DEF Waiting
  <2>3. ASSUME Current(t), Left <= Left', NEW i \in Front', i = task[t].id PROVE FrontOnce(i)'
    <3>1. i \in Front /\ \A x \in Target : ~Counted(i, x)
      BY <1>2, <1>6, <2>3, HeadIs DEF Counted
    <3> QED
      BY <1>3, <2>3, <3>1, FrontUncounted
  <2> QED
    BY <1>1, <1>2, <1>3, <1>6, <2>2, <2>3, OnceHalted
<1> QED
  BY <1>1, <1>4, <1>5, <1>6, MissingIs

\* Where an attempt starts with a target that it has to reach, and for whom it does not.
LEMMA QueuedOnce ==
  ASSUME Firm, NEW i \in Front, NEW x \in Target, NEW b, b = Left
  PROVE  /\ x \in DOMAIN Queued(i) => Beyond(i, x, conf.all, Queued(i)[x], b)
         /\ x \notin conf.to => AtMost(i, x, b)
<1>1. TypeInv /\ i \in Id /\ MemOnce(i)
  BY FrontBound DEF Firm, OnceInv, FrontOnce
<1>2. IF Counted(i, x) THEN Beyond(i, x, conf.all, mem.pend.at[x], b) ELSE AtMost(i, x, b)
  BY <1>1 DEF MemOnce
<1>3. x \notin conf.to => AtMost(i, x, b)
  BY <1>2 DEF Counted
<1>4. ASSUME x \in DOMAIN Queued(i) PROVE Beyond(i, x, conf.all, Queued(i)[x], b)
  <2>1. PICK all, n, m : all = conf.all /\ n = mem.pend.at[x] /\ m = Queued(i)[x]
    OBVIOUS
  <2>2. CASE Counted(i, x)
    <3>1. x \in conf.to \ Served(i)
      BY <1>1, <1>4, QueuedIs
    <3>2. m = n
      BY <2>1, <2>2, <3>1 DEF Queued, StartOf, Counted
    <3>3. Beyond(i, x, all, n, b)
      BY <1>2, <2>1, <2>2
    <3> QED
      BY <2>1, <3>2, <3>3
  <2>3. CASE ~Counted(i, x)
    <3>1. Beyond(i, x, all, m, b)
      BY <1>2, <2>3, BeyondAll
    <3> QED
      BY <2>1, <3>1
  <2> QED
    BY <2>2, <2>3
<1> QED
  BY <1>3, <1>4

\* The tweet in turn, when the roster of its attempt is pending.
LEMMA RosterHead ==
  ASSUME Firm, NEW t \in Task, Current(t), Attempt(t), NEW i \in Front, i = task[t].id,
         task'[t].id = i, task'[t] \in TaskRec, Front' = Front, mem'.pend = Rostered(t),
         Tried(t)' = {}, InHand(t)' = {}, \A x \in Target : Due(t, x)',
         conf' = conf, sent' = sent, Left <= Left'
  PROVE  FrontOnce(i)'
<1>1. TypeInv /\ WorldInv /\ TypeInv' /\ WorldInv' /\ FrontOnce(i) /\ i \in Id
  BY FrontBound DEF Firm, OnceInv
<1>2. PICK b, c : b = Left /\ c = Left'
  OBVIOUS
<1>3. b \in Int /\ c \in Int /\ b + 1 \in Int /\ c + 1 \in Int /\ b <= c /\ b + 1 <= c + 1
  BY <1>1, <1>2, SpareIs, SpareLater
<1>4. ASSUME NEW x \in Target PROVE AtMost(i, x, c + 1)'
  <2>1. AtMost(i, x, b + 1)
    BY <1>1, <1>2 DEF FrontOnce
  <2> QED
    BY <1>1, <1>3, <2>1, AtMostLater
<1>5. PICK all, done, queue, at :
        /\ all = task'[t].all /\ done = task'[t].done /\ queue = task'[t].queue
        /\ at = Roster(done, queue)
  OBVIOUS
<1>6. done \in SUBSET Target /\ queue \in Progress
  BY <1>5 DEF TaskRec
<1>7. /\ DOMAIN at = done \cup DOMAIN queue /\ \A x \in done : at[x] = Done
      /\ \A x \in DOMAIN queue \ done : at[x] = queue[x]
  BY <1>5, <1>6, RosterIs
<1>8. mem'.pend = [id |-> i, fp |-> all, at |-> at]
  BY <1>5 DEF Rostered
<1>9. mem'.pend.id = i /\ mem'.pend.fp = all /\ mem'.pend.at = at /\ mem'.pend # None
  <2>1. mem'.pend.id = i /\ mem'.pend.fp = all /\ mem'.pend.at = at
    BY <1>8
  <2>2. mem'.pend # None
    <3>1. all \in BOOLEAN
      BY <1>5 DEF TaskRec
    <3>2. [id |-> i, fp |-> all, at |-> at] \in Pending
      BY <1>1, <1>5, <1>6, <3>1, RosterIs, PendingIs
    <3> QED
      BY <1>8, <3>2, NoneIs
  <2> QED
    BY <2>1, <2>2
<1>10. Kept(i)' /\ Kept(task[t].id)'
  BY <1>9 DEF Kept
<1>11. ASSUME NEW x \in Target
       PROVE  IF Counted(i, x)' THEN Beyond(i, x, conf.all, mem.pend.at[x], Left)'
                                ELSE AtMost(i, x, Left)'
  <2>1. /\ Odd(t, x)' => AtMost(i, x, c)'
        /\ x \in DOMAIN queue => Beyond(i, x, all, queue[x], Ease(t, x))'
        /\ x \notin done \cup DOMAIN queue => AtMost(i, x, c)'
    <3>1. Due(t, x)'
      OBVIOUS
    <3> QED
      BY <1>2, <1>5, <3>1 DEF Due, Beyond, AtMost
  <2>2. CASE Counted(i, x)'
    <3>1. x \in conf'.to /\ x \in DOMAIN at /\ all = conf'.all
      BY <1>9, <2>2 DEF Counted
    <3>2. ~Odd(t, x)'
      BY <1>5, <1>10, <3>1 DEF Odd
    <3>3. Ease(t, x)' = c
      BY <1>2, <3>2 DEF Ease
    <3>4. Beyond(i, x, all, at[x], c)'
      <4>1. CASE x \in done
        <5>1. at[x] = Done
          BY <1>7, <4>1
        <5> QED
          BY <5>1 DEF Beyond
      <4>2. CASE x \notin done
        <5>1. x \in DOMAIN queue /\ at[x] = queue[x]
          BY <1>7, <3>1, <4>2
        <5>2. Beyond(i, x, all, queue[x], Ease(t, x))'
          BY <2>1, <5>1
        <5> QED
          BY <3>3, <5>1, <5>2 DEF Beyond
      <4> QED
        BY <4>1, <4>2
    <3> QED
      BY <1>2, <1>9, <2>2, <3>1, <3>4 DEF Beyond
  <2>3. CASE ~Counted(i, x)'
    <3>1. \/ x \notin conf'.to \/ all # conf'.all
          \/ x \notin done \cup DOMAIN queue
      BY <1>7, <1>9, <1>10, <2>3 DEF Counted
    <3>2. AtMost(i, x, c)'
      BY <1>5, <2>1, <3>1 DEF Odd
    <3> QED
      BY <1>2, <2>3, <3>2 DEF AtMost
  <2> QED
    BY <2>2, <2>3
<1>12. MemOnce(i)'
  BY <1>11 DEF MemOnce
<1>13. ~(\E j \in Front' : j < i)
  <2>1. \A j \in Front : j = i \/ i < j
    BY HeadIs
  <2>2. Front \subseteq Nat /\ i \in Nat
    BY <1>1, FrontNat
  <2> QED
    BY <2>1, <2>2
<1>14. \A x \in Target : AtMost(i, x, Left + 1)'
  BY <1>2, <1>4 DEF AtMost
<1> QED
  BY <1>12, <1>13, <1>14 DEF FrontOnce

\* An attempt has its roster pending: no target is in its turn, none was tried.
LEMMA PlacedRoster ==
  ASSUME NEW t \in Task, task'[t] \in TaskRec, mem'.pend = Rostered(t), Tried(t)' = {}, InHand(t)' = {}
  PROVE  Placed(t)'
<1>1. PICK all, done, queue, at :
        /\ all = task'[t].all /\ done = task'[t].done /\ queue = task'[t].queue
        /\ at = Roster(done, queue)
  OBVIOUS
<1>2. done \in SUBSET Target /\ queue \in Progress
  BY <1>1 DEF TaskRec
<1>3. DOMAIN queue \subseteq DOMAIN at
  <2>1. DOMAIN at = done \cup DOMAIN queue
    BY <1>1, <1>2, RosterIs
  <2> QED
    BY <2>1
<1>4. mem'.pend.fp = all /\ mem'.pend.at = at
  <2>1. mem'.pend = [id |-> task'[t].id, fp |-> all, at |-> at]
    BY <1>1 DEF Rostered
  <2> QED
    BY <2>1
<1> QED
  BY <1>1, <1>3, <1>4 DEF Placed

\* What the roster of an attempt is pending for.
LEMMA RosteredIs ==
  ASSUME NEW t \in Task, task'[t] \in TaskRec, task'[t].id \in Id, mem'.pend = Rostered(t)
  PROVE  Kept(task[t].id)'
<1>1. PICK all, at, i :
        all = task'[t].all /\ at = Roster(task'[t].done, task'[t].queue) /\ i = task'[t].id
  OBVIOUS
<1>2. mem'.pend = [id |-> i, fp |-> all, at |-> at]
  BY <1>1 DEF Rostered
<1>3. all \in BOOLEAN /\ at \in Progress
  BY <1>1, RosterIs DEF TaskRec
<1>4. mem'.pend \in Pending /\ mem'.pend.id = i
  BY <1>1, <1>2, <1>3, PendingIs
<1> QED
  BY <1>1, <1>4, NoneIs DEF Kept

\* The attempt has its roster pending.
LEMMA OnceRostered ==
  ASSUME Firm, NEW t \in Task, TaskWorld, up, Attempt(t), Current(t), Moves(t),
         task'[t] \in TaskRec, task'[t].id = task[t].id, task'[t].pc \notin {"media", "inflight"},
         NEW p, p = Rostered(t), Pends(p), Tried(t)' = {}, InHand(t)' = {},
         sent' = sent, Spare <= Spare', Left <= Left' => \A x \in Target : Due(t, x)'
  PROVE  OnceInv'
<1>1. TypeInv /\ WorldInv /\ conf' = conf
  BY DEF Firm, TaskWorld
<1>2. mem'.pend = Rostered(t) /\ mem'.last = mem.last /\ mem'.init = mem.init
  BY <1>1, StateIs DEF Pends, TypeInv, TypeOK
<1>3. ~Late(t)'
  BY DEF Late
<1>4. Left <= Left' /\ Credit' /\ Total'
  BY <1>1, <1>3, LeftTask, TotalStays DEF TaskWorld
<1>5. Front' = Front
  BY <1>1, <1>2, SameFront DEF TaskWorld
<1>6. TaskOnce(t)' /\ LateOnce(t)'
  BY <1>2, <1>4, PlacedRoster DEF TaskOnce, LateOnce
<1>7. Sends(t) /\ Takes(t)
  BY DEF Sends, Takes
<1>8. ASSUME NEW i \in Front', i = task[t].id PROVE FrontOnce(i)'
  BY <1>1, <1>2, <1>4, <1>5, <1>8, RosterHead
<1> QED
  BY <1>4, <1>5, <1>6, <1>7, <1>8, OnceTask

\* The message is prepared for the targets that are left.
LEMMA OnceSendBegin == ASSUME Firm, NEW t \in Task, SendBegin(t) PROVE OnceInv'
<1>1. TypeInv /\ WorldInv /\ TypeInv' /\ WorldInv' /\ Sound /\ TaskWorld /\ up
  BY TaskSound DEF Firm, TaskNext
<1>2. /\ task[t].pc = "ready"
      /\ \/ Halts(t) /\ mem' = mem
         \/ Prepares(t) /\ Pends(Rostered(t)) /\ Live(t)
  BY <1>1, SendBeginType
<1>3. Spare <= Spare' /\ sent' = sent
  <2>1. spent' = spent /\ reload' = reload /\ sent' = sent
    BY DEF SendBegin, hist, bound
  <2> QED
    BY <1>1, <2>1, SpareSame
<1>4. Attempt(t) /\ Begun(t) /\ Tried(t) = {} /\ InHand(t) = {}
  BY <1>2 DEF Attempt, Begun, Tried, InHand, Sending, Turn, Storing
<1>5. CASE Halts(t) /\ mem' = mem
  <2>1. PICK p : p = mem.pend
    OBVIOUS
  <2>2. Pends(p)
    BY <1>1, <1>5, <2>1 DEF Pends, TypeInv, TypeOK, State
  <2> QED
    BY <1>1, <1>3, <1>4, <1>5, <2>1, <2>2, OnceHalted
<1>6. CASE Prepares(t) /\ Pends(Rostered(t)) /\ Live(t)
  <2>1. PICK p : p = Rostered(t)
    OBVIOUS
  <2>2. Pends(p) /\ Current(t)
    BY <1>2, <1>6, <2>1 DEF Live, Valid, Current
  <2>3. /\ Moves(t) /\ task'[t] \in TaskRec /\ task'[t].pc = "send" /\ task'[t].id = task[t].id
        /\ task'[t].all = task[t].all /\ task'[t].done = task[t].done
        /\ DOMAIN task'[t].queue = DOMAIN task[t].queue \cap conf.to
        /\ \A x \in DOMAIN task'[t].queue : task'[t].queue[x] = task[t].queue[x]
        /\ task'[t].out = NoBody
    BY <1>6 DEF Prepares, KeepsTweet
  <2>4. Tried(t)' = {} /\ InHand(t)' = {}
    <3>1. Sending(t)' /\ ~Turn(t)' /\ DOMAIN NoBody = {}
      BY <2>3 DEF Sending, Turn, Storing, NoBody
    <3> QED
      BY <2>3, <3>1 DEF Tried, InHand
  <2>5. ASSUME Left <= Left', NEW x \in Target PROVE Due(t, x)'
    <3>1. PICK i : i = task[t].id
      OBVIOUS
    <3>2. i \in Id /\ task'[t].id = i /\ sent'[i][x] = sent[i][x] /\ Due(t, x)
      BY <1>1, <1>3, <1>4, <2>2, <2>3, <3>1, InTurnIs, PlacedIs DEF Firm
    <3>3. Odd(t, x)' => Odd(t, x)
      <4>1. Kept(task[t].id)'
        <5>1. mem'.pend = Rostered(t)
          BY <1>1, <2>1, <2>2, StateIs DEF Pends, TypeInv, TypeOK
        <5> QED
          BY <2>3, <3>1, <3>2, <5>1, RosteredIs
      <4> QED
        BY <1>1, <2>3, <4>1 DEF Odd, TaskWorld
    <3>4. Forward(t, x)
      BY <1>4, <2>3, <2>4 DEF Forward, Places4
    <3> QED
      BY <1>1, <2>3, <2>5, <3>1, <3>2, <3>3, <3>4, DueGoes
  <2> QED
    BY <1>1, <1>3, <1>4, <2>1, <2>2, <2>3, <2>4, <2>5, OnceRostered
<1> QED
  BY <1>2, <1>5, <1>6

\* A batch stops at media that are there when there are no targets, or the life is over.
LEMMA ReadyIs ==
  ASSUME TypeInv, NEW t \in Task, MediaReady(t), Live(t), Halts(t) PROVE conf.to = {}
<1>1. SUFFICES ASSUME conf.to # {} PROVE FALSE
  OBVIOUS
<1>2. PICK r : /\ Persist(t, r, "ready")
               /\ r = [task[t] EXCEPT !.all = conf.all, !.done = Served(task[t].id),
                         !.queue = [x \in conf.to \ Served(task[t].id) |->
                                      IF Kept(task[t].id) THEN StartOf(x) ELSE 0]]
  BY <1>1 DEF MediaReady
<1>3. task[t] \in TaskRec /\ t \in DOMAIN task
  BY DEF TypeInv, TypeOK
<1>4. PICK s : s = [r EXCEPT !.then = "ready"]
  OBVIOUS
<1>5. task' = [task EXCEPT ![t] = [s EXCEPT !.pc = "persist"]]
  BY <1>2, <1>4 DEF Persist, Goto
<1>6. DOMAIN r = DOMAIN task[t] /\ {"then", "pc"} \subseteq DOMAIN task[t]
  <2>1. DOMAIN r = DOMAIN task[t]
    BY <1>2
  <2>2. {"then", "pc"} \subseteq DOMAIN task[t]
    BY <1>3 DEF TaskRec
  <2> QED
    BY <2>1, <2>2
<1>7. task'[t].pc = "persist" /\ task'[t].then = "ready"
  BY <1>3, <1>4, <1>5, <1>6
<1> QED
  BY <1>7 DEF Halts

\* The progress at the start of an attempt.
LEMMA BeginsDue ==
  ASSUME Firm, NEW t \in Task, Current(t), Attempt(t), Begins(t), mem'.pend = Rostered(t),
         conf' = conf, sent' = sent, Left <= Left', Tried(t)' = {}, InHand(t)' = {},
         NEW x \in Target
  PROVE  Due(t, x)'
<1>1. PICK i, b, c : i = task[t].id /\ b = Left /\ c = Left'
  OBVIOUS
<1>2. /\ TypeInv /\ WorldInv /\ TypeInv' /\ WorldInv' /\ i \in Front /\ i \in Id
  BY <1>1, HeadIs DEF Firm
<1>3. b \in Int /\ c \in Int /\ b <= c
  BY <1>1, <1>2, SpareIs, SpareLater
<1>4. PICK all, done, queue : all = conf.all /\ done = Served(i) /\ queue = Queued(i)
  OBVIOUS
<1>5. /\ task'[t].id = i /\ task'[t].all = all /\ task'[t].done = done /\ task'[t].queue = queue
      /\ task'[t] \in TaskRec
  BY <1>1, <1>4 DEF Begins
<1>6. DOMAIN queue = conf.to \ done
  BY <1>2, <1>4, QueuedIs
<1>7. Kept(task[t].id)'
  BY <1>2, <1>5, RosteredIs
<1>8. Odd(t, x)' <=> x \notin conf.to
  BY <1>4, <1>5, <1>7 DEF Odd
<1>9. Ease(t, x)' = IF x \notin conf.to THEN c - 1 ELSE c
  BY <1>1, <1>8 DEF Ease
<1>10. /\ x \in DOMAIN queue => Beyond(i, x, all, queue[x], b)
       /\ x \notin conf.to => AtMost(i, x, b)
  BY <1>1, <1>2, <1>4, QueuedOnce
<1>11. /\ x \in DOMAIN queue => Beyond(i, x, all, queue[x], c)'
       /\ x \notin conf.to => AtMost(i, x, c)'
  BY <1>2, <1>3, <1>10, BeyondLater, AtMostLater
<1>12. /\ Odd(t, x)' => AtMost(i, x, c)'
       /\ x \in DOMAIN queue => Beyond(i, x, all, queue[x], Ease(t, x))'
       /\ x \notin done \cup DOMAIN queue => AtMost(i, x, c)'
  <2>1. x \in DOMAIN queue => Ease(t, x)' = c
    BY <1>6, <1>9
  <2>2. x \in DOMAIN queue => Beyond(i, x, all, queue[x], Ease(t, x))'
    BY <1>11, <2>1 DEF Beyond
  <2> QED
    BY <1>6, <1>8, <1>11, <2>2
<1> QED
  BY <1>1, <1>5, <1>12 DEF Due, Beyond, AtMost

\* Media are there: the attempt begins, or there is nobody to send to.
LEMMA OnceMediaReady == ASSUME Firm, NEW t \in Task, MediaReady(t) PROVE OnceInv'
<1>1. TypeInv /\ WorldInv /\ NoteInv /\ Sound /\ TaskGrows /\ TaskWorld /\ up
  BY TaskSound DEF Firm, TaskNext
<1>2. /\ task[t].pc = "media" /\ row' = row
      /\ \/ PassesOn(t)
         \/ Halts(t) /\ (Pends(None) \/ Pends(mem.pend))
         \/ Begins(t) /\ Pends(Rostered(t)) /\ Live(t)
  BY <1>1, MediaReadyType
<1>3. Spare <= Spare' /\ sent' = sent
  <2>1. spent' = spent /\ reload' = reload /\ sent' = sent
    BY DEF MediaReady, hist, bound
  <2> QED
    BY <1>1, <2>1, SpareSame
<1>4. Attempt(t)
  BY <1>2 DEF Attempt
<1>5. CASE PassesOn(t)
  BY <1>1, <1>2, <1>3, <1>4, <1>5, OncePassed
<1>6. CASE Halts(t) /\ Pends(mem.pend)
  <2>1. PICK p : p = mem.pend
    OBVIOUS
  <2> QED
    BY <1>1, <1>3, <1>4, <1>6, <2>1, OnceHalted
<1>7. CASE Halts(t) /\ Pends(None)
  <2>1. ASSUME Current(t), Left <= Left', NEW i \in Front', i = task[t].id PROVE FrontOnce(i)'
    <3>1. Live(t)
      BY <1>4, <2>1, HeadIs
    <3>2. conf.to = {}
      BY <1>1, <1>7, <3>1, ReadyIs
    <3>3. i \in Front /\ \A x \in Target : ~Counted(i, x)
      BY <1>4, <2>1, <3>2, HeadIs DEF Counted
    <3> QED
      BY <1>3, <2>1, <3>3, FrontUncounted
  <2>2. PICK p : p = None
    OBVIOUS
  <2> QED
    BY <1>1, <1>2, <1>3, <1>4, <1>7, <2>1, <2>2, OnceHalted
<1>8. CASE Begins(t) /\ Pends(Rostered(t)) /\ Live(t)
  <2>1. PICK p : p = Rostered(t)
    OBVIOUS
  <2>2. Pends(p) /\ Current(t)
    BY <1>2, <1>8, <2>1 DEF Live, Valid, Current
  <2>3. /\ Moves(t) /\ task'[t] \in TaskRec /\ task'[t].pc = "persist" /\ task'[t].then = "ready"
        /\ task'[t].id = task[t].id
    BY <1>8 DEF Begins
  <2>4. Tried(t)' = {} /\ InHand(t)' = {}
    <3>1. ~Sending(t)' /\ ~Turn(t)'
      BY <2>3 DEF Sending, Turn, Storing
    <3> QED
      BY <3>1 DEF Tried, InHand
  <2>5. mem'.pend = Rostered(t)
    BY <1>1, <2>1, <2>2, StateIs DEF Pends, TypeInv, TypeOK
  <2>6. Left <= Left' => \A x \in Target : Due(t, x)'
    BY <1>1, <1>3, <1>4, <1>8, <2>2, <2>4, <2>5, BeginsDue DEF TaskWorld
  <2> QED
    BY <1>1, <1>3, <1>4, <2>1, <2>2, <2>3, <2>4, <2>6, OnceRostered
<1> QED
  BY <1>2, <1>5, <1>6, <1>7, <1>8

-----------------------------------------------------------------------------
(* A part is sent *)

\* One copy of one part reaches the target in turn, at most.
OneMore(i, x, all, n) ==
  /\ \A j \in Id \ {i} : sent'[j] = sent[j]
  /\ \A y \in Target \ {x} : sent'[i][y] = sent[i][y]
  /\ \A q \in 1 .. Body :
       sent'[i][x][q] = IF q + Prefix(x, all) = n + 1 THEN sent[i][x][q] + 1 ELSE sent[i][x][q]

\* The part is the next one.
LEMMA ReceiveOne ==
  ASSUME TypeInv, NEW t \in Task, Turn(t), task[t].n < Parts(task[t].to, task[t].all), Receive(t),
         NEW i, NEW x, NEW all, NEW n, i = task[t].id, x = task[t].to, all = task[t].all,
         n = task[t].n
  PROVE  OneMore(i, x, all, n)
<1>1. /\ i \in Id /\ x \in Target /\ n \in Nat /\ all \in BOOLEAN
      /\ sent \in [Id -> [Target -> [1 .. Body -> Nat]]]
  BY TurnIs, PartsType, SMTT(20) DEF Done, TypeInv, TypeOK
<1>2. PICK f : f = Prefix(x, all)
  OBVIOUS
<1>3. f \in {0, 1}
  BY <1>2, PartsType
<1>4. sent' = IF n + 1 - f = 0 THEN sent ELSE [sent EXCEPT ![i][x][n + 1 - f] = @ + 1]
  BY <1>2 DEF Receive
<1>5. ASSUME NEW q \in 1 .. Body
      PROVE  sent'[i][x][q] = IF q + f = n + 1 THEN sent[i][x][q] + 1 ELSE sent[i][x][q]
  <2>1. PICK p, g : p = n + 1 - f /\ g = sent[i][x]
    OBVIOUS
  <2>2. p \in Int /\ (q + f = n + 1 <=> q = p) /\ q # 0 /\ q \in Int
    BY <1>1, <1>3, <2>1, PartsType, SMTT(20)
  <2>3. CASE p = 0
    BY <1>4, <2>1, <2>2, <2>3
  <2>4. CASE p # 0
    <3>1. sent' = [sent EXCEPT ![i][x][p] = @ + 1]
      BY <1>4, <2>1, <2>4
    <3>2. sent'[i][x] = [g EXCEPT ![p] = @ + 1] /\ g \in [1 .. Body -> Nat]
      BY <1>1, <2>1, <3>1
    <3>3. sent'[i][x][q] = IF q = p THEN g[q] + 1 ELSE g[q]
      BY <3>2
    <3> QED
      BY <2>1, <2>2, <3>3
  <2> QED
    BY <2>3, <2>4
<1>6. \A j \in Id \ {i} : sent'[j] = sent[j]
  BY <1>1, <1>4
<1>7. \A y \in Target \ {x} : sent'[i][y] = sent[i][y]
  BY <1>1, <1>4
<1> QED
  BY <1>2, <1>5, <1>6, <1>7 DEF OneMore

\* A bound that the next part is under by one stays a bound.
LEMMA OneMoreBounds ==
  ASSUME TypeInv, NEW i \in Id, NEW x \in Target, NEW all \in BOOLEAN, NEW n \in Nat,
         OneMore(i, x, all, n), NEW e \in Int, Beyond(i, x, all, n, e), NEW d \in Int
  PROVE  /\ \A c \in Int : AtMost(i, x, c) /\ c <= d /\ e + 1 <= d => AtMost(i, x, d)'
         /\ e <= d => Beyond(i, x, all, n + 1, d)'
         /\ e + 1 <= d => Beyond(i, x, all, n, d)'
<1>1. PICK f : f = Prefix(x, all)
  OBVIOUS
<1>2. f \in {0, 1} /\ n # Done /\ n + 1 # Done
  BY <1>1, PartsType DEF Done
<1>3. ASSUME NEW q \in 1 .. Body
      PROVE  /\ sent[i][x][q] \in Nat /\ q \in Nat
             /\ sent'[i][x][q] = IF q + f = n + 1 THEN sent[i][x][q] + 1 ELSE sent[i][x][q]
             /\ n < q + f => sent[i][x][q] <= e
  BY <1>1, <1>2, CopiesNat, PartsType DEF OneMore, Beyond
<1>4. ASSUME NEW c \in Int, AtMost(i, x, c), c <= d, e + 1 <= d PROVE AtMost(i, x, d)'
  <2>1. ASSUME NEW q \in 1 .. Body PROVE sent'[i][x][q] <= d
    <3>1. sent[i][x][q] <= c
      BY <1>4 DEF AtMost
    <3> QED
      BY <1>2, <1>3, <1>4, <3>1
  <2> QED
    BY <2>1 DEF AtMost
<1>5. ASSUME e <= d PROVE Beyond(i, x, all, n + 1, d)'
  <2>1. ASSUME NEW q \in 1 .. Body, n + 1 < q + f PROVE sent'[i][x][q] <= d
    BY <1>2, <1>3, <1>5, <2>1
  <2> QED
    BY <1>1, <2>1 DEF Beyond
<1>6. ASSUME e + 1 <= d PROVE Beyond(i, x, all, n, d)'
  <2>1. ASSUME NEW q \in 1 .. Body, n < q + f PROVE sent'[i][x][q] <= d
    BY <1>2, <1>3, <1>6, <2>1
  <2> QED
    BY <1>1, <2>1 DEF Beyond
<1> QED
  BY <1>4, <1>5, <1>6

\* What is known of a task that sends a part.
LEMMA InFlight ==
  ASSUME Firm, NEW t \in Task, task[t].pc = "inflight", Receive(t)
  PROVE  /\ Turn(t) /\ Sending(t) /\ Begun(t) /\ Attempt(t)
         /\ task[t].id \in Id /\ task[t].to \in Target /\ task[t].all \in BOOLEAN /\ task[t].n \in Nat
         /\ OneMore(task[t].id, task[t].to, task[t].all, task[t].n)
         /\ Sends(t)
<1>1. TypeInv /\ Turn(t) /\ task[t].n < Parts(task[t].to, task[t].all)
  BY DEF Firm, TypeInv, TaskPlan, Turn
<1>2. PICK i, x, all, n :
        i = task[t].id /\ x = task[t].to /\ all = task[t].all /\ n = task[t].n
  OBVIOUS
<1>3. OneMore(i, x, all, n)
  BY <1>1, <1>2, ReceiveOne
<1>4. /\ Sending(t) /\ Begun(t) /\ Attempt(t) /\ i \in Id /\ x \in Target /\ all \in BOOLEAN
      /\ n \in Nat
  BY <1>1, <1>2, TurnIs, PartsType DEF Done
<1>5. Sends(t)
  BY <1>2, <1>3, <1>4 DEF Sends, OneMore
<1> QED
  BY <1>1, <1>2, <1>3, <1>4, <1>5

\* The bound on all copies.
LEMMA TotalSent ==
  ASSUME Firm, NEW i \in Id, NEW x \in Target, NEW all \in BOOLEAN, NEW n \in Nat,
         OneMore(i, x, all, n), up', Spare <= Spare',
         \A q \in 1 .. Body : q + Prefix(x, all) = n + 1 => sent[i][x][q] <= Spare
  PROVE  Total'
<1>1. TypeInv /\ WorldInv /\ TypeInv' /\ WorldInv' /\ Total
  BY DEF Firm, OnceInv
<1>2. PICK s, d : s = Spare /\ d = Spare'
  OBVIOUS
<1>3. s \in Int /\ d \in Int /\ s <= d
  BY <1>1, <1>2, SpareIs, SpareLater
<1>4. ASSUME NEW j \in Id, NEW y \in Target PROVE AtMost(j, y, d + 1)'
  <2>1. AtMost(j, y, s + 1)
    BY <1>1, <1>2 DEF Total
  <2>2. CASE j # i \/ y # x
    <3>1. sent'[j][y] = sent[j][y]
      BY <2>2 DEF OneMore
    <3> QED
      BY <1>1, <1>3, <2>1, <3>1, AtMostLater
  <2>3. CASE j = i /\ y = x
    <3>1. ASSUME NEW q \in 1 .. Body PROVE sent'[i][x][q] <= d + 1
      <4>1. sent[i][x][q] \in Nat /\ sent[i][x][q] <= s + 1
        BY <1>1, <2>1, <2>3, CopiesNat DEF AtMost
      <4>2. sent'[i][x][q] = IF q + Prefix(x, all) = n + 1 THEN sent[i][x][q] + 1 ELSE sent[i][x][q]
        BY DEF OneMore
      <4>3. q + Prefix(x, all) = n + 1 => sent[i][x][q] <= s
        BY <1>2
      <4> QED
        BY <1>3, <4>1, <4>2, <4>3
    <3> QED
      BY <2>3, <3>1 DEF AtMost
  <2> QED
    BY <2>2, <2>3
<1> QED
  BY <1>2, <1>4 DEF Total

\* What is known of a task of this life that sends a part.
LEMMA InFlightNow ==
  ASSUME Firm, NEW t \in Task, task[t].pc = "inflight", Receive(t), Current(t),
         NEW i, NEW x, NEW all, NEW n, NEW b, NEW e,
         i = task[t].id, x = task[t].to, all = task[t].all, n = task[t].n,
         b = Left, e = Ease(t, x)
  PROVE  /\ i \in Front /\ FrontOnce(i) /\ Bounded(i, b + 1)
         /\ Placed(t) /\ \A y \in Target : Due(t, y)
         /\ b \in Int /\ e \in Int /\ b <= Spare /\ Spare \in Int
         /\ e <= b /\ b <= e + 1 /\ (Odd(t, x) => e + 1 <= b) /\ (~Odd(t, x) => e = b)
         /\ Beyond(i, x, all, n, e) /\ (Odd(t, x) => AtMost(i, x, b))
         /\ \A q \in 1 .. Body : q + Prefix(x, all) = n + 1 => sent[i][x][q] <= Spare
         /\ InHand(t) = {x} /\ x \notin DOMAIN task[t].queue /\ x \notin Tried(t)
         /\ Kept(i) => x \in DOMAIN mem.pend.at /\ mem.pend.fp = all
<1>1. TypeInv /\ WorldInv
  BY DEF Firm
<1>2. /\ Turn(t) /\ Begun(t) /\ Attempt(t) /\ i \in Id /\ x \in Target /\ all \in BOOLEAN /\ n \in Nat
  BY InFlight
<1>3. i \in Front
  BY <1>2, HeadIs
<1>4. FrontOnce(i) /\ Bounded(i, b + 1)
  BY <1>3, FrontBound DEF Firm, OnceInv
<1>5. Placed(t) /\ \A y \in Target : Due(t, y)
  BY <1>2, PlacedIs
<1>6. b \in Int /\ b <= Spare /\ Spare \in Int
  BY <1>1, SpareIs
<1>7. (Odd(t, x) /\ e = b - 1) \/ (~Odd(t, x) /\ e = b)
  BY DEF Ease
<1>8. e \in Int /\ e <= b /\ b <= e + 1 /\ (Odd(t, x) => e + 1 <= b) /\ (~Odd(t, x) => e = b)
  BY <1>6, <1>7
<1>9. InHand(t) = {x}
  BY <1>2 DEF InHand
<1>10. Beyond(i, x, all, n, e) /\ (Odd(t, x) => AtMost(i, x, b))
  <2>1. Due(t, x)
    BY <1>2, <1>5
  <2> QED
    BY <1>9, <2>1 DEF Due
<1>11. ASSUME NEW q \in 1 .. Body, q + Prefix(x, all) = n + 1 PROVE sent[i][x][q] <= Spare
  <2>1. n < q + Prefix(x, all) /\ n # Done
    BY <1>2, <1>11, PartsType DEF Done
  <2>2. sent[i][x][q] <= e /\ sent[i][x][q] \in Nat
    BY <1>1, <1>2, <1>10, <2>1, CopiesNat DEF Beyond
  <2> QED
    BY <1>6, <1>8, <2>2
<1>12. x \notin DOMAIN task[t].queue /\ x \notin Tried(t)
  BY <1>5, <1>9 DEF Placed
<1>13. Kept(i) => x \in DOMAIN mem.pend.at /\ mem.pend.fp = all
  BY <1>5, <1>9 DEF Placed
<1> QED
  BY <1>3, <1>4, <1>5, <1>6, <1>8, <1>9, <1>10, <1>11, <1>12, <1>13

\* A task of a former life sends its last part.
LEMMA OnceLateSends ==
  ASSUME Firm, NEW t \in Task, TaskWorld, up, task[t].pc = "inflight", ~Current(t), Receive(t),
         mem' = mem, Moves(t), task'[t].pc \notin {"media", "inflight"},
         task'[t].id = task[t].id, Spare <= Spare'
  PROVE  OnceInv'
<1>1. TypeInv /\ WorldInv /\ up'
  BY DEF Firm, TaskWorld
<1>2. PICK i, x, all, n :
        i = task[t].id /\ x = task[t].to /\ all = task[t].all /\ n = task[t].n
  OBVIOUS
<1>3. /\ Attempt(t) /\ Sends(t) /\ i \in Id /\ x \in Target /\ all \in BOOLEAN /\ n \in Nat
      /\ OneMore(i, x, all, n)
  BY <1>2, InFlight
<1>4. \A q \in 1 .. Body : q + Prefix(x, all) = n + 1 => sent[i][x][q] <= Spare
  <2>1. LateOnce(t)
    BY DEF Firm, OnceInv
  <2> QED
    BY <1>2, <2>1 DEF LateOnce
<1>5. Total'
  BY <1>1, <1>3, <1>4, TotalSent
<1>6. ~Current(t)'
  BY PlacedIs DEF TaskWorld
<1>7. TaskOnce(t)' /\ LateOnce(t)' /\ ~Late(t)' /\ Takes(t)
  BY <1>6 DEF TaskOnce, LateOnce, Late, Takes
<1>8. Credit' /\ Left <= Left'
  BY <1>7, LeftTask
<1>9. Front' = Front /\ task[t].id \notin Front
  BY <1>1, <1>3, SameFront, OldIs DEF TaskWorld
<1>10. \A j \in Front' : j = task[t].id => FrontOnce(j)'
  BY <1>9
<1> QED
  BY <1>3, <1>5, <1>7, <1>8, <1>9, <1>10, OnceTask

\* A receipt is lost: one excuse more covers the copy.
LEMMA OnceSendLost == ASSUME Firm, NEW t \in Task, SendLost(t) PROVE OnceInv'
<1>1. TypeInv /\ WorldInv /\ TypeInv' /\ WorldInv' /\ TaskWorld /\ up /\ up' /\ conf' = conf
  BY TaskSound DEF Firm, TaskWorld
<1>2. task[t].pc = "inflight" /\ mem' = mem /\ Overs(t, task[t].n) /\ Receive(t)
  BY <1>1, SendLostType DEF SendLost
<1>3. Spare' = Spare + 1
  <2>1. Used("lost") /\ reload' = reload
    BY DEF SendLost
  <2> QED
    BY <1>1, <2>1, SpareLost
<1>4. Spare <= Spare' /\ Spare + 1 <= Spare'
  BY <1>1, <1>3, SpareIs
<1>5. Moves(t) /\ task'[t].pc = "send" /\ task'[t].id = task[t].id /\ task'[t].all = task[t].all
  BY <1>2 DEF Overs, KeepsTweet
<1>6. CASE ~Current(t)
  BY <1>1, <1>2, <1>4, <1>5, <1>6, OnceLateSends
<1>7. CASE Current(t)
  <2>1. PICK i, x, all, n : i = task[t].id /\ x = task[t].to /\ all = task[t].all /\ n = task[t].n
    OBVIOUS
  <2>2. PICK b, c, e, e2 : b = Left /\ c = Left' /\ e = Ease(t, x) /\ e2 = Ease(t, x)'
    OBVIOUS
  <2>3. /\ Attempt(t) /\ Turn(t) /\ Sends(t) /\ i \in Id /\ x \in Target /\ all \in BOOLEAN
        /\ n \in Nat /\ OneMore(i, x, all, n)
    BY <1>2, <2>1, InFlight
  <2>4. /\ i \in Front /\ Bounded(i, b + 1) /\ Placed(t) /\ \A y \in Target : Due(t, y)
        /\ b \in Int /\ e \in Int /\ e <= b /\ b <= e + 1
        /\ (Odd(t, x) => e + 1 <= b) /\ (~Odd(t, x) => e = b)
        /\ Beyond(i, x, all, n, e) /\ (Odd(t, x) => AtMost(i, x, b))
        /\ \A q \in 1 .. Body : q + Prefix(x, all) = n + 1 => sent[i][x][q] <= Spare
        /\ InHand(t) = {x} /\ x \notin DOMAIN task[t].queue /\ x \notin Tried(t)
    BY <1>2, <1>7, <2>1, <2>2, InFlightNow
  <2>5. ~Late(t)'
    BY <1>5 DEF Late
  <2>6. Credit' /\ Left <= Left' /\ b + 1 <= c /\ c \in Int
    BY <1>1, <1>4, <1>5, <2>2, <2>5, LeftTask, SpareLater
  <2>7. Total'
    BY <1>1, <1>4, <2>3, <2>4, TotalSent
  <2>8. ForwardAll(t)
    BY <1>1, <1>2, <2>3, <2>4, ForwardOvers
  <2>9. Odd(t, x)' <=> Odd(t, x)
    BY <1>1, <1>2, <1>5 DEF Odd, Kept
  <2>10. e2 \in Int /\ e + 1 <= e2 /\ e2 <= c
    <3>1. (Odd(t, x) /\ e2 = c - 1) \/ (~Odd(t, x) /\ e2 = c)
      BY <2>2, <2>9 DEF Ease
    <3> QED
      BY <2>4, <2>6, <3>1
  <2>11. Placed(t)'
    BY <1>2, <1>5, <2>4, <2>8, PlacedForward DEF Kept
  <2>12. ASSUME NEW y \in Target, y # x PROVE Due(t, y)'
    <3>1. sent'[i][y] = sent[i][y]
      BY <2>3, <2>12 DEF OneMore
    <3>2. Odd(t, y)' => Odd(t, y)
      BY <1>1, <1>2, <1>5 DEF Odd, Kept
    <3>3. Forward(t, y)
      BY <2>8 DEF ForwardAll
    <3> QED
      BY <1>1, <1>5, <2>1, <2>3, <2>4, <2>6, <3>1, <3>2, <3>3, DueGoes
  <2>13. Due(t, x)'
    <3>1. /\ task'[t].queue = task[t].queue /\ task'[t].out = Outcome(task[t].out, x, n)
          /\ task[t].out \in Progress /\ n \in Done .. Body + 1
      <4>1. task[t].n \in Done .. Body + 1 /\ task[t] \in TaskRec
        BY <1>1, <2>3, TurnIs
      <4>2. task[t].out \in Progress
        BY <4>1 DEF TaskRec
      <4> QED
        BY <1>2, <2>1, <4>1, <4>2 DEF Overs
    <3>2. x \in DOMAIN task'[t].out /\ task'[t].out[x] = n
      <4>1. PICK out : out = task[t].out /\ out \in Progress
        BY <3>1
      <4>2. DOMAIN Outcome(out, x, n) = DOMAIN out \cup {x} /\ Outcome(out, x, n)[x] = n
        BY <2>3, <3>1, <4>1, OutcomeIs
      <4> QED
        BY <3>1, <4>1, <4>2
    <3>3. Sending(t)' /\ ~Turn(t)'
      BY <1>5 DEF Sending, Turn, Storing
    <3>4. x \in Tried(t)' /\ InHand(t)' = {} /\ x \notin DOMAIN task'[t].queue
      BY <2>4, <3>1, <3>2, <3>3 DEF Tried, InHand
    <3>5. Beyond(i, x, all, n, e2)'
      BY <1>1, <2>3, <2>4, <2>10, OneMoreBounds
    <3>6. Odd(t, x)' => AtMost(i, x, c)'
      <4>1. b <= c /\ e + 1 <= c
        BY <2>4, <2>6, <2>10
      <4> QED
        BY <1>1, <2>3, <2>4, <2>6, <2>9, <4>1, OneMoreBounds
    <3>7. task'[t].id = i /\ task'[t].all = all
      BY <1>5, <2>1
    <3> QED
      BY <2>2, <3>2, <3>4, <3>5, <3>6, <3>7 DEF Due, Beyond, AtMost
  <2>14. TaskOnce(t)' /\ LateOnce(t)'
    <3>1. \A y \in Target : Due(t, y)'
      BY <2>12, <2>13
    <3> QED
      BY <1>5, <2>11, <3>1 DEF TaskOnce, LateOnce
  <2>15. FrontOnce(i)'
    <3>1. ASSUME NEW y \in Target PROVE AtMost(i, y, c)'
      <4>1. AtMost(i, y, b + 1) /\ b + 1 \in Int /\ b + 1 <= c /\ e + 1 <= c
        BY <2>4, <2>6, <2>10 DEF Bounded
      <4>2. CASE y # x
        <5>1. sent'[i][y] = sent[i][y]
          BY <2>3, <4>2 DEF OneMore
        <5> QED
          BY <1>1, <2>3, <2>6, <4>1, <5>1, AtMostLater
      <4>3. CASE y = x
        BY <1>1, <2>3, <2>4, <2>6, <4>1, <4>3, OneMoreBounds
      <4> QED
        BY <4>2, <4>3
    <3>2. Fresh(i)'
      BY <2>2, <3>1 DEF Fresh
    <3> QED
      BY <1>1, <2>3, <3>2, FreshLater
  <2>16. Front' = Front /\ \A j \in Front' : j = task[t].id => FrontOnce(j)'
    <3>1. Front' = Front
      BY <1>1, <1>2, SameFront DEF TaskWorld
    <3> QED
      BY <2>1, <2>15, <3>1
  <2>17. Takes(t)
    BY <1>7, <2>3 DEF Takes
  <2> QED
    BY <1>1, <1>4, <1>5, <2>3, <2>6, <2>7, <2>14, <2>16, <2>17, OnceTask
<1> QED
  BY <1>6, <1>7

\* What is noted of a part that was sent to x: m is the next one.
Notes(i, x, all, m) ==
  \/ ~Kept(i) /\ mem'.pend = mem.pend
  \/ /\ Kept(i) /\ mem'.pend # None /\ mem'.pend.id = i /\ mem'.pend.fp = all
     /\ DOMAIN mem'.pend.at = DOMAIN mem.pend.at
     /\ \A y \in DOMAIN mem.pend.at : mem'.pend.at[y] = IF y = x THEN m ELSE mem.pend.at[y]

\* Bounds that rise by one.
LEMMA RiseByOne ==
  \A b, c, e \in Int : b <= c /\ e <= b =>
    b + 1 \in Int /\ c + 1 \in Int /\ b + 1 <= c + 1 /\ e + 1 <= c + 1
OBVIOUS

\* The tweet in turn, after a part of it was sent.
LEMMA FrontSent ==
  ASSUME Firm, NEW i \in Front, i \in Id, NEW x \in Target, NEW all \in BOOLEAN, NEW n \in Nat,
         OneMore(i, x, all, n), NEW b \in Int, b = Left, NEW c \in Int, c = Left', b <= c,
         NEW e \in Int, e <= b, Beyond(i, x, all, n, e), NEW odd \in BOOLEAN,
         odd <=> x \notin conf.to \/ conf.all # all \/ ~Kept(i),
         odd => e + 1 <= b /\ AtMost(i, x, b), NEW m, m \in {Done, n + 1}, Notes(i, x, all, m),
         Kept(i) => x \in DOMAIN mem.pend.at /\ mem.pend.fp = all, conf' = conf,
         \A j \in Front' : ~(j < i)
  PROVE  FrontOnce(i)'
<1>1. TypeInv /\ WorldInv /\ TypeInv' /\ WorldInv' /\ FrontOnce(i) /\ Bounded(i, b + 1)
  BY FrontBound DEF Firm, OnceInv
<1>2. ASSUME NEW y \in Target PROVE AtMost(i, y, c + 1)'
  <2>1. AtMost(i, y, b + 1) /\ b + 1 <= c + 1 /\ e + 1 <= c + 1 /\ b + 1 \in Int /\ c + 1 \in Int
    <3>1. AtMost(i, y, b + 1)
      BY <1>1 DEF Bounded
    <3>2. /\ b + 1 \in Int /\ c + 1 \in Int
          /\ b + 1 <= c + 1 /\ e + 1 <= c + 1
      BY RiseByOne, Zenon
    <3> QED
      BY <3>1, <3>2, Zenon
  <2>2. CASE y # x
    <3>1. sent'[i][y] = sent[i][y]
      BY <2>2 DEF OneMore
    <3> QED
      BY <1>1, <2>1, <3>1, AtMostLater
  <2>3. CASE y = x
    BY <1>1, <2>1, <2>3, OneMoreBounds
  <2> QED
    BY <2>2, <2>3
<1>3. Kept(i)' <=> Kept(i)
  BY DEF Notes, Kept
<1>4. ASSUME NEW y \in Target
      PROVE  IF Counted(i, y)' THEN Beyond(i, y, conf.all, mem.pend.at[y], Left)'
                               ELSE AtMost(i, y, Left)'
  <2>1. CASE y # x
    <3>1. sent'[i][y] = sent[i][y]
      BY <2>1 DEF OneMore
    <3>2. IF Counted(i, y) THEN Beyond(i, y, conf.all, mem.pend.at[y], b) ELSE AtMost(i, y, b)
      BY <1>1 DEF FrontOnce, MemOnce
    <3>3. Counted(i, y)' <=> Counted(i, y)
      BY <1>3 DEF Counted, Notes
    <3>4. PICK k, l : k = mem.pend.at[y] /\ l = conf.all
      OBVIOUS
    <3>5. Counted(i, y) => mem'.pend.at[y] = k
      BY <2>1, <3>4 DEF Counted, Notes
    <3>6. Counted(i, y) => Beyond(i, y, l, k, c)'
      BY <1>1, <3>1, <3>2, <3>4, BeyondLater
    <3>7. ~Counted(i, y) => AtMost(i, y, c)'
      BY <1>1, <3>1, <3>2, AtMostLater
    <3> QED
      BY <3>3, <3>4, <3>5, <3>6, <3>7 DEF Beyond, AtMost
  <2>2. CASE y = x /\ Counted(i, x)'
    <3>1. Kept(i) /\ x \in conf.to
      BY <1>3, <2>2 DEF Counted
    <3>2. mem'.pend.at[x] = m /\ mem'.pend.fp = all
      BY <3>1 DEF Notes
    <3>3. conf.all = all
      BY <2>2, <3>2 DEF Counted
    <3>4. Beyond(i, x, all, m, c)'
      <4>1. Beyond(i, x, all, n + 1, c)'
        <5>1. e <= c
          OBVIOUS
        <5> QED
          BY <1>1, <5>1, OneMoreBounds
      <4> QED
        BY <4>1 DEF Beyond
    <3> QED
      BY <2>2, <3>2, <3>3, <3>4 DEF Beyond
  <2>3. CASE y = x /\ ~Counted(i, x)'
    <3>1. odd
      BY <1>3, <2>3 DEF Counted, Notes
    <3>2. e + 1 <= c
      BY <3>1
    <3>3. AtMost(i, x, c)'
      BY <1>1, <3>1, <3>2, OneMoreBounds
    <3> QED
      BY <2>3, <3>3 DEF AtMost
  <2> QED
    BY <2>1, <2>2, <2>3
<1>5. MemOnce(i)'
  BY <1>4 DEF MemOnce
<1>6. \A y \in Target : AtMost(i, y, Left + 1)'
  BY <1>2 DEF AtMost
<1> QED
  BY <1>5, <1>6 DEF FrontOnce

\* What is noted of the part that was sent.
LEMMA NotesIs ==
  ASSUME Firm, NEW t \in Task, SendOk(t), Current(t), NEW i, NEW x, NEW all, NEW m,
         i = task[t].id, x = task[t].to, all = task[t].all, m = Onward(t)
  PROVE  Notes(i, x, all, m) /\ mem'.last = mem.last /\ mem'.init = mem.init
<1>1. TypeInv /\ mem \in State
  BY DEF Firm, TypeInv, TypeOK
<1>2. /\ task[t].pc = "inflight"
      /\ \/ Live(t) /\ Kept(task[t].id) /\ Pends(Noted(t))
         \/ ~(Live(t) /\ Kept(task[t].id)) /\ mem' = mem
  BY <1>1, SendOkType
<1>3. Live(t)
  BY <1>2, HeadIs DEF Attempt, Begun, Sending, Turn
<1>4. CASE Kept(i) /\ Pends(Noted(t))
  <2>1. PICK p : p = Noted(t)
    OBVIOUS
  <2>2. /\ p \in Pending /\ p.id = i /\ p.fp = all /\ DOMAIN p.at = DOMAIN mem.pend.at
        /\ \A y \in DOMAIN mem.pend.at : p.at[y] = IF y = x THEN m ELSE mem.pend.at[y]
    BY <1>1, <1>2, <1>3, <1>4, <2>1, NotedIs
  <2>3. mem' = [mem EXCEPT !.pend = p]
    BY <1>4, <2>1 DEF Pends
  <2>4. mem'.pend = p /\ mem'.last = mem.last /\ mem'.init = mem.init
    BY <1>1, <2>3, StateIs
  <2>5. p # None
    BY <2>2, NoneIs
  <2> QED
    BY <1>4, <2>2, <2>4, <2>5 DEF Notes
<1>5. CASE ~Kept(i) /\ mem' = mem
  BY <1>5 DEF Notes
<1> QED
  BY <1>2, <1>3, <1>4, <1>5

\* Where a task is that has sent a part.
LEMMA CountsIs ==
  ASSUME NEW t \in Task, Turn(t), Counts(t)
  PROVE  /\ Moves(t) /\ task'[t].pc \notin {"media", "inflight"} /\ Sending(t)' /\ Turn(t)'
         /\ Tried(t)' = Tried(t) /\ InHand(t)' = InHand(t)
         /\ task'[t].id = task[t].id /\ task'[t].all = task[t].all /\ task'[t].to = task[t].to
         /\ task'[t].n = task[t].n + 1 /\ task'[t].queue = task[t].queue
         /\ task'[t].out = task[t].out /\ task'[t].done = task[t].done
<1>1. /\ Moves(t) /\ KeepsTweet(t) /\ task'[t].pc \notin {"media", "inflight"}
      /\ task'[t].queue = task[t].queue /\ task'[t].to = task[t].to
      /\ task'[t].n = task[t].n + 1 /\ task'[t].out = task[t].out
  BY DEF Counts
<1>2. Sending(t)' /\ Turn(t)'
  BY DEF Counts, Sending, Turn, Storing
<1>3. Sending(t)
  BY DEF Sending
<1> QED
  BY <1>1, <1>2, <1>3 DEF KeepsTweet, Tried, InHand

\* The part is with the target, and that is noted if the tweet is still pending.
LEMMA OnceSendOk == ASSUME Firm, up, NEW t \in Task, SendOk(t) PROVE OnceInv'
<1>1. TypeInv /\ WorldInv /\ TypeInv' /\ WorldInv' /\ TaskWorld /\ up /\ up' /\ conf' = conf
  BY TaskSound DEF Firm, TaskWorld, TaskNext
<1>2. task[t].pc = "inflight" /\ Counts(t) /\ Receive(t) /\ Turn(t) /\ Sending(t)
  BY <1>1, SendOkType DEF SendOk, Turn, Sending
<1>3. Spare' = Spare /\ Spare <= Spare'
  <2>1. spent' = spent /\ reload' = reload
    BY DEF SendOk, bound
  <2> QED
    BY <1>1, <2>1, SpareSame
<1>4. /\ Moves(t) /\ task'[t].pc \notin {"media", "inflight"} /\ Sending(t)' /\ Turn(t)'
      /\ Tried(t)' = Tried(t) /\ InHand(t)' = InHand(t)
      /\ task'[t].id = task[t].id /\ task'[t].all = task[t].all /\ task'[t].to = task[t].to
      /\ task'[t].n = task[t].n + 1 /\ task'[t].queue = task[t].queue
      /\ task'[t].out = task[t].out /\ task'[t].done = task[t].done
  BY <1>2, CountsIs
<1>5. CASE ~Current(t)
  <2>1. mem' = mem
    BY <1>1, <1>2, <1>5, SendOkType DEF Live, Valid, Current
  <2> QED
    BY <1>1, <1>2, <1>3, <1>4, <1>5, <2>1, OnceLateSends
<1>6. CASE Current(t)
  <2>1. PICK i, x, all, n, m : /\ i = task[t].id /\ x = task[t].to /\ all = task[t].all
                               /\ n = task[t].n /\ m = Onward(t)
    OBVIOUS
  <2>2. PICK b, c, e, e2 : b = Left /\ c = Left' /\ e = Ease(t, x) /\ e2 = Ease(t, x)'
    OBVIOUS
  <2>3. /\ Attempt(t) /\ Sends(t) /\ i \in Id /\ x \in Target /\ all \in BOOLEAN
        /\ n \in Nat /\ OneMore(i, x, all, n)
    BY <1>2, <2>1, InFlight
  <2>4. /\ i \in Front /\ Bounded(i, b + 1) /\ Placed(t) /\ \A y \in Target : Due(t, y)
        /\ b \in Int /\ e \in Int /\ e <= b /\ b <= e + 1
        /\ (Odd(t, x) => e + 1 <= b) /\ (~Odd(t, x) => e = b)
        /\ Beyond(i, x, all, n, e) /\ (Odd(t, x) => AtMost(i, x, b))
        /\ \A q \in 1 .. Body : q + Prefix(x, all) = n + 1 => sent[i][x][q] <= Spare
        /\ InHand(t) = {x} /\ x \notin DOMAIN task[t].queue /\ x \notin Tried(t)
        /\ Kept(i) => x \in DOMAIN mem.pend.at /\ mem.pend.fp = all
    BY <1>2, <1>6, <2>1, <2>2, InFlightNow
  <2>5. ~Late(t)'
    BY <1>4 DEF Late
  <2>6. Credit' /\ Left <= Left' /\ b <= c /\ c \in Int
    BY <1>1, <1>3, <1>4, <2>2, <2>5, LeftTask, SpareLater
  <2>7. Total'
    BY <1>1, <1>3, <2>3, <2>4, TotalSent
  <2>8. Notes(i, x, all, m) /\ mem'.last = mem.last /\ mem'.init = mem.init
    BY <1>6, <2>1, NotesIs
  <2>9. Kept(i)' <=> Kept(i)
    BY <2>8 DEF Notes, Kept
  <2>10. \A y : Odd(t, y)' <=> Odd(t, y)
    BY <1>1, <1>4, <2>1, <2>9 DEF Odd, Kept
  <2>11. e2 \in Int /\ e <= e2 /\ e2 <= c
    <3>1. (Odd(t, x) /\ e2 = c - 1) \/ (~Odd(t, x) /\ e2 = c)
      BY <2>2, <2>10 DEF Ease
    <3>2. (Odd(t, x) => e + 1 <= c) /\ e <= c
      BY <2>4, <2>6
    <3> QED
      BY <2>4, <2>6, <3>1, <3>2
  <2>12. Placed(t)'
    <3>1. Kept(i)' => mem'.pend.fp = all /\ DOMAIN mem'.pend.at = DOMAIN mem.pend.at
      BY <2>8, <2>9 DEF Notes
    <3> QED
      BY <1>4, <2>1, <2>4, <2>9, <3>1 DEF Placed, Kept
  <2>13. ASSUME NEW y \in Target, y # x PROVE Due(t, y)'
    <3>1. sent'[i][y] = sent[i][y]
      BY <2>3, <2>13 DEF OneMore
    <3>2. Odd(t, y)' => Odd(t, y)
      BY <2>10
    <3>3. Forward(t, y)
      BY <1>4, <2>4, <2>13 DEF Forward, Places4
    <3> QED
      BY <1>1, <1>4, <2>1, <2>3, <2>4, <2>6, <3>1, <3>2, <3>3, DueGoes
  <2>14. Due(t, x)'
    <3>1. x \notin DOMAIN task'[t].queue /\ x \notin Tried(t)' /\ x \in InHand(t)'
      BY <1>4, <2>4
    <3>2. Beyond(i, x, all, n + 1, e2)'
      BY <1>1, <2>3, <2>4, <2>11, OneMoreBounds
    <3>3. Odd(t, x)' => AtMost(i, x, c)'
      <4>1. Odd(t, x) => e + 1 <= c /\ b <= c
        BY <2>4, <2>6
      <4> QED
        BY <1>1, <2>3, <2>4, <2>6, <2>10, <4>1, OneMoreBounds
    <3>4. task'[t].id = i /\ task'[t].all = all /\ task'[t].n = n + 1
      BY <1>4, <2>1
    <3> QED
      BY <2>2, <3>1, <3>2, <3>3, <3>4 DEF Due, Beyond, AtMost
  <2>15. TaskOnce(t)' /\ LateOnce(t)'
    <3>1. \A y \in Target : Due(t, y)'
      BY <2>13, <2>14
    <3> QED
      BY <1>4, <2>12, <3>1 DEF TaskOnce, LateOnce
  <2>16. Front' = Front
    BY <1>1, <2>8, SameFront DEF TaskWorld
  <2>17. FrontOnce(i)'
    <3>1. PICK odd \in BOOLEAN : odd <=> Odd(t, x)
      OBVIOUS
    <3>2. odd <=> x \notin conf.to \/ conf.all # all \/ ~Kept(i)
      BY <2>1, <3>1 DEF Odd
    <3>3. odd => e + 1 <= b /\ AtMost(i, x, b)
      BY <2>4, <3>1
    <3>4. m \in {Done, n + 1}
      BY <2>1 DEF Onward
    <3>5. \A j \in Front' : ~(j < i)
      <4>1. \A j \in Front : (j = i \/ i < j) /\ j \in Nat /\ i \in Nat
        BY <1>1, <1>6, <2>1, <2>3, HeadIs, FrontNat
      <4> QED
        BY <2>16, <4>1
    <3> QED
      BY <1>1, <2>2, <2>3, <2>4, <2>6, <2>8, <3>2, <3>3, <3>4, <3>5, FrontSent
  <2>18. \A j \in Front' : j = task[t].id => FrontOnce(j)'
    BY <2>1, <2>17
  <2>19. Takes(t)
    BY <1>6, <2>3 DEF Takes
  <2> QED
    BY <1>1, <1>3, <1>4, <2>3, <2>6, <2>7, <2>15, <2>16, <2>18, <2>19, OnceTask
<1> QED
  BY <1>5, <1>6

-----------------------------------------------------------------------------
(* The attempt is over *)

\* What stays pending after an attempt is as far as the attempt went.
LEMMA SettledOnce ==
  ASSUME Firm, NEW t \in Task, task[t].pc = "send", DOMAIN task[t].queue = {}, Current(t),
         mem'.pend = Settled(t), conf' = conf, sent' = sent, Front' = Front, Left <= Left',
         NEW i, i = task[t].id
  PROVE  FrontOnce(i)'
<1>1. TypeInv /\ WorldInv /\ TypeInv' /\ WorldInv'
  BY DEF Firm
<1>2. Attempt(t) /\ Begun(t) /\ Sending(t) /\ ~Turn(t)
  BY DEF Attempt, Begun, Sending, Turn, Storing
<1>3. Tried(t) = DOMAIN task[t].out /\ InHand(t) = {}
  BY <1>2 DEF Tried, InHand
<1>4. i \in Id /\ i \in Front /\ \A j \in Front : j = i \/ i < j
  BY <1>2, HeadIs
<1>5. Bounded(i, Left + 1) /\ \A y \in Target : Due(t, y)
  BY <1>2, <1>4, FrontBound, PlacedIs
<1>6. PICK b, c : b = Left /\ c = Left'
  OBVIOUS
<1>7. b \in Int /\ c \in Int /\ b <= c /\ b + 1 \in Int /\ c + 1 \in Int /\ b + 1 <= c + 1
  <2>1. b \in Int /\ c \in Int
    BY <1>1, <1>6, SpareIs, SpareLater
  <2>2. b <= c
    BY <1>6
  <2>3. b <= b
    BY <2>1
  <2> QED
    BY <2>1, <2>2, <2>3, RiseByOne, Zenon
<1>8. PICK p, all, out, done : p = Settled(t) /\ all = task[t].all /\ out = task[t].out /\ done = task[t].done
  OBVIOUS
<1>9. /\ p # None /\ p.id = i /\ p.fp = all /\ DOMAIN p.at = done \cup DOMAIN out \cup Missing(t)
      /\ \A y \in DOMAIN p.at :
           \/ y \in Missing(t)
           \/ y \in DOMAIN out /\ p.at[y] = out[y]
           \/ p.at[y] = Done
  <2>1. p \in Pending /\ p.id = i /\ p.fp = all
    BY <1>1, <1>8, SettledIs
  <2>2. PICK at : at = [x \in done \cup DOMAIN out \cup Missing(t) |->
                          IF x \in Missing(t) THEN 0
                          ELSE IF x \in Failed(t) \ done THEN out[x] ELSE Done]
    OBVIOUS
  <2>3. p.at = at
    BY <1>8, <2>2 DEF Settled
  <2>4. Failed(t) \subseteq DOMAIN out
    BY <1>8 DEF Failed
  <2>5. p # None
    BY <2>1, NoneIs
  <2> QED
    BY <2>1, <2>2, <2>3, <2>4, <2>5
<1>10. Kept(i)'
  BY <1>8, <1>9 DEF Kept
<1>11. ASSUME NEW y \in Target
       PROVE  IF Counted(i, y)' THEN Beyond(i, y, conf.all, mem.pend.at[y], Left)'
                                ELSE AtMost(i, y, Left)'
  <2>1. sent'[i][y] = sent[i][y] /\ Due(t, y)
    BY <1>5
  <2>2. Odd(t, y) => AtMost(i, y, b)
    BY <1>6, <2>1 DEF Due
  <2>3. AtMost(i, y, b) => AtMost(i, y, c)'
    BY <1>1, <1>4, <1>7, <2>1, AtMostLater
  <2>4. AtMost(i, y, c)' => Beyond(i, y, conf.all, mem.pend.at[y], c)'
    BY DEF AtMost, Beyond
  <2>5. CASE AtMost(i, y, b)
    BY <1>6, <2>3, <2>4, <2>5 DEF AtMost, Beyond
  <2>6. CASE ~AtMost(i, y, b)
    <3>1. ~Odd(t, y)
      BY <2>2, <2>6
    <3>2. y \in conf.to /\ all = conf.all /\ Kept(i)
      BY <1>8, <3>1 DEF Odd
    <3>3. y \notin Missing(t)
      <4>1. y \in done \cup DOMAIN out
        BY <1>3, <1>6, <1>8, <2>1, <2>6 DEF Due
      <4> QED
        BY <1>8, <4>1 DEF Missing
    <3>4. y \in DOMAIN p.at
      BY <1>8, <1>9, <3>2 DEF Missing
    <3>5. PICK n : n = p.at[y]
      OBVIOUS
    <3>6. (y \in DOMAIN out /\ n = out[y]) \/ n = Done
      BY <1>9, <3>3, <3>4, <3>5
    <3>7. Beyond(i, y, all, n, b)
      <4>1. CASE n = Done
        BY <4>1 DEF Beyond
      <4>2. CASE y \in DOMAIN out /\ n = out[y]
        <5>1. Ease(t, y) = b
          BY <1>6, <3>1 DEF Ease
        <5>2. y \in Tried(t)
          BY <1>3, <1>8, <4>2
        <5> QED
          BY <1>8, <2>1, <4>2, <5>1, <5>2 DEF Due, Beyond
      <4> QED
        BY <3>6, <4>1, <4>2
    <3>8. Beyond(i, y, all, n, c)'
      BY <1>1, <1>4, <1>7, <2>1, <3>7, BeyondLater
    <3>9. mem'.pend.at[y] = n /\ Counted(i, y)'
      BY <1>8, <1>9, <1>10, <3>2, <3>4, <3>5 DEF Counted
    <3> QED
      BY <1>6, <3>2, <3>8, <3>9 DEF Beyond
  <2> QED
    BY <2>5, <2>6
<1>12. MemOnce(i)'
  BY <1>11 DEF MemOnce
<1>13. \A y \in Target : AtMost(i, y, Left + 1)'
  <2>1. ASSUME NEW y \in Target PROVE AtMost(i, y, c + 1)'
    <3>1. AtMost(i, y, b + 1) /\ sent'[i][y] = sent[i][y]
      BY <1>5, <1>6 DEF Bounded
    <3> QED
      BY <1>1, <1>4, <1>7, <3>1, AtMostLater
  <2> QED
    BY <1>6, <2>1 DEF AtMost
<1>14. ~(\E j \in Front' : j < i)
  <2>1. \A j \in Front : (j = i \/ i < j) /\ j \in Nat /\ i \in Nat
    BY <1>1, <1>4, FrontNat
  <2> QED
    BY <2>1
<1> QED
  BY <1>12, <1>13, <1>14 DEF FrontOnce

\* The attempt is over.
LEMMA OnceSettle == ASSUME Firm, NEW t \in Task, Settle(t) PROVE OnceInv'
<1>1. TypeInv /\ WorldInv /\ NoteInv /\ Sound /\ TaskGrows /\ TaskWorld /\ up
  BY TaskSound DEF Firm, TaskNext
<1>2. /\ task[t].pc = "send" /\ row' = row /\ sent' = sent
      /\ \/ Halts(t) /\ mem' = mem
         \/ Live(t) /\ PassesOn(t)
         \/ Live(t) /\ Halts(t) /\ Pends(Settled(t))
  BY <1>1, SettleType
<1>3. Spare <= Spare' /\ Attempt(t) /\ DOMAIN task[t].queue = {}
  <2>1. spent' = spent /\ reload' = reload
    BY DEF Settle, bound
  <2>2. Attempt(t)
    BY <1>2 DEF Attempt, Begun, Sending
  <2> QED
    BY <1>1, <2>1, <2>2, SpareSame DEF Settle
<1>4. CASE Halts(t) /\ mem' = mem
  <2>1. PICK p : p = mem.pend
    OBVIOUS
  <2>2. Pends(p)
    BY <1>1, <1>4, <2>1 DEF Pends, TypeInv, TypeOK, State
  <2> QED
    BY <1>1, <1>2, <1>3, <1>4, <2>1, <2>2, OnceHalted
<1>5. CASE Live(t) /\ PassesOn(t)
  <2>1. Current(t)
    BY <1>2, <1>5 DEF Live, Valid, Current
  <2> QED
    BY <1>1, <1>2, <1>3, <1>5, <2>1, OncePassed
<1>6. CASE Live(t) /\ Halts(t) /\ Pends(Settled(t))
  <2>1. PICK p : p = Settled(t)
    OBVIOUS
  <2>2. Pends(p) /\ Current(t)
    BY <1>2, <1>6, <2>1 DEF Live, Valid, Current
  <2>3. mem'.pend = p /\ mem'.last = mem.last /\ mem'.init = mem.init
    BY <1>1, <2>2, StateIs DEF Pends, TypeInv, TypeOK
  <2>4. Front' = Front /\ conf' = conf
    BY <1>1, <2>3, SameFront DEF TaskWorld
  <2>5. ASSUME Left <= Left', NEW i \in Front', i = task[t].id PROVE FrontOnce(i)'
    BY <1>2, <1>3, <2>1, <2>2, <2>3, <2>4, <2>5, SettledOnce
  <2> QED
    BY <1>1, <1>2, <1>3, <1>6, <2>2, <2>5, OnceHalted
<1> QED
  BY <1>2, <1>4, <1>5, <1>6

\* Every step of a task.
LEMMA OnceTaskStep ==
  ASSUME Firm, NEW t \in Task, TaskNext(t) \/ SendRefused(t) \/ SendLost(t) \/ TaskDbError(t)
  PROVE  OnceInv'
<1>1. up
  BY TaskSound
<1>2. CASE NextTweet(t) \/ Finish(t) \/ EndTask(t) \/ TaskRead(t) \/ TaskCommit(t) \/ TaskDbError(t)
  BY <1>1, <1>2, OnceNextTweet, OnceFinish, OnceEndTask, OnceTaskRead, OnceTaskCommit,
     OnceTaskDbError
<1>3. CASE MediaReady(t) \/ MediaMissing(t) \/ SendBegin(t) \/ Settle(t)
  BY <1>3, OnceMediaReady, OnceMediaMissing, OnceSendBegin, OnceSettle
<1>4. CASE \E x \in Target : SendSkip(t, x) \/ SendStart(t, x)
  BY <1>1, <1>4, OnceTurns
<1>5. CASE SendPart(t) \/ SendOk(t) \/ SendFailed(t) \/ SendRefused(t) \/ SendLost(t)
  BY <1>1, <1>5, OnceSendPart, OnceSendOk, OnceFails, OnceSendLost
<1> QED
  BY <1>2, <1>3, <1>4, <1>5 DEF TaskNext

-----------------------------------------------------------------------------
(* The tasks rest *)

\* A task that does nothing in a step, or is started.
Stands(u) == \/ Rests(u) /\ task'[u].epoch = task[u].epoch
             \/ task[u].pc = "idle" /\ task'[u].pc = "next"

\* A task that is started has no tweet in turn.
LEMMA StandsPlace ==
  ASSUME NEW u \in Task, Stands(u), gen' = gen
  PROVE  /\ Attempt(u)' <=> Attempt(u)
         /\ Attempt(u) => Rests(u) /\ task'[u].id = task[u].id
         /\ Late(u)' <=> Late(u)
         /\ Late(u) => task'[u].epoch = task[u].epoch
         /\ ~Rests(u) => ~Begun(u)' /\ task'[u].pc = "next"
<1>1. CASE Rests(u) /\ task'[u].epoch = task[u].epoch
  <2>1. /\ Attempt(u)' <=> Attempt(u)
        /\ Current(u)' <=> Current(u)
        /\ task'[u].pc = task[u].pc /\ task'[u].id = task[u].id
    BY <1>1, RestPlace
  <2>2. Late(u)' <=> Late(u)
    BY <2>1 DEF Late
  <2> QED
    BY <1>1, <2>1, <2>2
<1>2. CASE ~Rests(u) /\ task[u].pc = "idle" /\ task'[u].pc = "next"
  BY <1>2 DEF Attempt, Begun, Sending, Turn, Storing, Late
<1>3. Rests(u) => task'[u].epoch = task[u].epoch
  BY DEF Stands, Rests
<1> QED
  BY <1>1, <1>2, <1>3 DEF Stands

\* The late tasks are the same.
LEMMA StandsLates ==
  ASSUME gen' = gen, epoch' = epoch, \A u \in Task : Stands(u) PROVE Lates' = Lates
<1>1. \A u \in Task : (Late(u)' <=> Late(u)) /\ (Late(u) => task'[u].epoch = task[u].epoch)
  BY StandsPlace
<1>2. Lates' = {e \in 0 .. epoch : \E t \in Task : Late(t)' /\ task'[t].epoch = e}
  BY DEF Lates
<1> QED
  BY <1>1, <1>2 DEF Lates

\* The excuses are no fewer.
LEMMA StandsLeft ==
  ASSUME Firm, gen' = gen, epoch' = epoch, \A u \in Task : Stands(u), Spare <= Spare',
         reload' = "reset" => reload = "reset" \/ Spare + 1 <= Spare'
  PROVE  /\ Credit' /\ Left <= Left' /\ (Spare + 1 <= Spare' => Left + 1 <= Left')
         /\ 0 <= Left /\ 0 <= Left'
<1>1. /\ TypeInv /\ WorldInv /\ TypeInv' /\ WorldInv' /\ Credit
  BY DEF Firm, OnceInv
<1>2. Spare \in Int /\ Spare' \in Int
  BY <1>1, SpareIs, SpareLater
<1>3. PICK m \in Nat : m = Cardinality(Lates)
  BY <1>1, LatesIs
<1>4. Lates' = Lates
  BY StandsLates
<1>5. m + (IF reload = "reset" THEN 1 ELSE 0) <= Spare
  BY <1>1, <1>3 DEF Credit
<1>6. m + (IF reload' = "reset" THEN 1 ELSE 0) <= Spare'
  <2>1. CASE reload' = "reset" /\ reload = "reset"
    BY <1>2, <1>5, <2>1
  <2>2. CASE reload' = "reset" /\ Spare + 1 <= Spare'
    <3>1. m <= Spare
      BY <1>2, <1>5
    <3> QED
      BY <1>2, <2>2, <3>1
  <2>3. CASE reload' # "reset"
    <3>1. m <= Spare
      BY <1>2, <1>5
    <3> QED
      BY <1>2, <2>3, <3>1
  <2> QED
    BY <2>1, <2>2, <2>3
<1>7. Credit'
  BY <1>3, <1>4, <1>6 DEF Credit
<1>8. Left = Spare - m /\ Left' = Spare' - m
  BY <1>3, <1>4 DEF Left
<1>9. PICK s, c : s = Spare /\ c = Spare'
  OBVIOUS
<1>10. /\ s \in Int /\ c \in Int /\ s <= c /\ m <= s
       /\ Left = s - m /\ Left' = c - m
  BY <1>2, <1>5, <1>8, <1>9
<1>11. /\ s - m <= c - m /\ 0 <= s - m /\ 0 <= c - m /\ (s + 1 <= c => s - m + 1 <= c - m)
  BY <1>10
<1> QED
  BY <1>7, <1>9, <1>10, <1>11

\* What is left to show is about the tasks that have begun and the tweets in the queue.
LEMMA OnceStands ==
  ASSUME Firm, gen' = gen, epoch' = epoch, \A u \in Task : Stands(u), sent' = sent,
         Spare <= Spare', up' = up, Credit',
         \A u \in Task : Rests(u) => TaskOnce(u)', \A i \in Front' : FrontOnce(i)'
  PROVE  OnceInv'
<1>1. /\ TypeInv /\ WorldInv /\ TypeInv' /\ WorldInv' /\ Apart
  BY DEF Firm, OnceInv
<1>2. Apart'
  <2>1. \A u \in Task : (Attempt(u)' <=> Attempt(u)) /\ (Attempt(u) => task'[u].id = task[u].id)
    BY StandsPlace
  <2> QED
    BY <1>1, <2>1 DEF Apart
<1>3. Total'
  BY TotalStays
<1>4. ASSUME NEW u \in Task PROVE TaskOnce(u)' /\ LateOnce(u)'
  <2>1. CASE Rests(u)
    <3>1. LateOnce(u)
      BY DEF Firm, OnceInv
    <3> QED
      BY <1>1, <2>1, <3>1, LateStays
  <2>2. CASE ~Rests(u)
    <3>1. ~Begun(u)' /\ task'[u].pc = "next"
      BY <2>2, StandsPlace
    <3> QED
      BY <3>1 DEF TaskOnce, LateOnce
  <2> QED
    BY <2>1, <2>2
<1> QED
  BY <1>2, <1>3, <1>4 DEF OnceInv

\* Neither does what is pending change, nor the configuration; tweets come last.
LEMMA OnceCalm ==
  ASSUME Firm, gen' = gen, epoch' = epoch, \A u \in Task : Stands(u), sent' = sent,
         Spare <= Spare', up' = up, reload' = "reset" => reload = "reset",
         conf' = conf, mem'.pend = mem.pend, \A j \in Front' : j \in Front \/ published < j
  PROVE  OnceInv'
<1>1. /\ TypeInv /\ WorldInv /\ NoteInv /\ TypeInv' /\ WorldInv'
      /\ \A u \in Task : TaskOnce(u)
      /\ \A i \in Front : FrontOnce(i)
  BY DEF Firm, OnceInv
<1>2. PICK b, c : b = Left /\ c = Left'
  OBVIOUS
<1>3. Credit' /\ Left <= Left' /\ 0 <= c /\ c \in Int /\ 0 \in Int
  BY <1>1, <1>2, StandsLeft, SpareLater
<1>4. ASSUME NEW u \in Task, Rests(u) PROVE TaskOnce(u)'
  BY <1>1, <1>3, <1>4, TaskStays
<1>5. Front \subseteq Id /\ Front' \subseteq Id /\ Id \subseteq Nat /\ published \in Nat
  <2>1. Front' \subseteq feed' /\ feed' \subseteq Id
    BY <1>1, LaterFeed DEF TypeInv, TypeOK
  <2> QED
    BY <1>1, <2>1, FrontNat, FeedIs
<1>6. \A i \in Front : i <= published
  <2>1. Front \subseteq feed /\ feed \subseteq 1 .. published
    BY <1>1, FeedIs DEF WorldInv
  <2> QED
    BY <1>5, <2>1
<1>7. ASSUME NEW i \in Front' PROVE FrontOnce(i)'
  <2>1. CASE i \in Front
    <3>1. \A j \in Front' : j < i => j \in Front
      BY <1>5, <1>6, <2>1
    <3> QED
      BY <1>1, <1>3, <1>5, <2>1, <3>1, FrontStays
  <2>2. CASE published < i
    <3>1. i \in Id
      BY <1>5
    <3>2. \A x \in Target : AtMost(i, x, 0)
      <4>1. \A x \in Target, q \in 1 .. Body : sent[i][x][q] = 0
        BY <1>1, <2>2, <3>1 DEF NoteInv, Lacks
      <4> QED
        BY <4>1 DEF AtMost
    <3>3. Bounded(i, 0) /\ 0 <= Left'
      BY <1>2, <1>3, <3>2 DEF Bounded
    <3> QED
      BY <1>1, <1>3, <3>1, <3>3, FreshAgain
  <2> QED
    BY <2>1, <2>2
<1> QED
  BY <1>3, <1>4, <1>7, OnceStands

-----------------------------------------------------------------------------
(* Checks *)

\* All tasks are left as they are.
LEMMA SameStands == ASSUME UNCHANGED task PROVE \A u \in Task : Stands(u)
BY DEF Stands, Rests

\* A check is not of those that may leave tweets for later; memory is unchanged.
LEMMA CheckFront ==
  ASSUME TypeInv, CheckWorld, NEW c \in Check, \A d \in Check : d # c => chk'[d] = chk[d],
         UNCHANGED mem, Fetch(c)' => chk'[c].ids = feed
  PROVE  Front' \subseteq Front
<1>1. feed' = feed /\ gen' = gen /\ mem' = mem /\ Open' = Open
  BY DEF CheckWorld, Open
<1>2. CASE mem.init
  BY <1>1, <1>2 DEF Front
<1>3. CASE ~mem.init
  <2> SUFFICES ASSUME NEW j \in Front' PROVE j \in Front
    OBVIOUS
  <2>1. PICK d \in Check : Fetch(d)' /\ j \in feed \ chk'[d].ids
    BY <1>1, <1>3 DEF Front
  <2>2. d # c /\ chk'[d] = chk[d]
    BY <2>1
  <2>3. Fetch(d) /\ j \in feed \ chk[d].ids
    BY <1>1, <2>1, <2>2 DEF Fetch
  <2> QED
    BY <1>3, <2>3 DEF Front
<1> QED
  BY <1>2, <1>3

\* The baseline: what the first answer leaves out was left out.
LEMMA BaselineFront ==
  ASSUME TypeInv, TypeInv', NEW c \in Check, CheckBaseline(c) PROVE Front' \subseteq Front
<1>1. mem'.init /\ \E a \in Answers(c) \ {{}} : a \in SUBSET Id /\ mem'.last = Max(a)
  BY CheckBaselineType
<1>2. /\ chk[c].pc = "fetch" /\ chk[c].gen = gen /\ ~mem.init /\ feed' = feed
      /\ feed \subseteq Id /\ \A i \in Id : i \in Nat
  BY FeedIs DEF CheckBaseline, Valid, world, TypeInv, TypeOK
<1>3. PICK a \in Answers(c) \ {{}} : a \in SUBSET Id /\ mem'.last = Max(a)
  BY <1>1
<1>4. PICK m : m = Max(a)
  OBVIOUS
<1>5. m \in Nat /\ (\A j \in a : j <= m) /\ mem'.last = m
  <2>1. m \in a /\ \A j \in a : j <= m
    BY <1>3, <1>4, MaxTweet
  <2> QED
    BY <1>2, <1>3, <1>4, <2>1
<1> SUFFICES ASSUME NEW j \in feed, m < j PROVE j \in Front
  BY <1>1, <1>2, <1>5 DEF Front, Open
<1>6. j \notin a
  BY <1>2, <1>5
<1>7. a = chk[c].ids
  BY <1>3, <1>6 DEF Answers
<1> QED
  BY <1>2, <1>6, <1>7 DEF Front, Fetch

\* Every step of a check.
LEMMA OnceCheck ==
  ASSUME Firm, NEW c \in Check, CheckStart(c) \/ CheckEnd(c) \/ CheckNext(c) \/ CheckDbError(c)
  PROVE  OnceInv'
<1>1. /\ TypeInv /\ WorldInv /\ TypeInv' /\ WorldInv' /\ CheckWorld /\ sent' = sent /\ gen' = gen
      /\ epoch' = epoch /\ conf' = conf /\ up' = up /\ reload' = reload
  BY CheckKeeps DEF Firm, CheckWorld
<1>2. Spare <= Spare'
  <2>1. CASE spent' = spent
    BY <1>1, <2>1, SpareSame
  <2>2. CASE Used("db")
    <3>1. Spare' = Spare
      BY <1>1, <2>2, SpareDb
    <3> QED
      BY <1>1, <3>1, SpareIs
  <2> QED
    BY <2>1, <2>2 DEF CheckStart, CheckEnd, CheckNext, CheckBaseline, CheckObserve, CheckRead,
       CheckCommit, CheckDbError, bound
<1>3. CASE CheckBaseline(c)
  <2>1. mem'.pend = mem.pend /\ Front' \subseteq Front
    BY <1>1, <1>3, CheckBaselineType, BaselineFront
  <2>2. \A u \in Task : Stands(u)
    BY <1>3, SameStands DEF CheckBaseline
  <2> QED
    BY <1>1, <1>2, <2>1, <2>2, OnceCalm
<1>4. CASE CheckStart(c) \/ CheckEnd(c) \/ CheckRead(c) \/ CheckCommit(c) \/ CheckDbError(c)
  <2>1. task' = task /\ mem' = mem
    BY <1>4 DEF CheckStart, CheckEnd, CheckRead, CheckCommit, CheckDbError
  <2>2. /\ \A d \in Check : d # c => chk'[d] = chk[d]
        /\ chk'[c].pc # "fetch" \/ chk'[c].ids = feed
    <3>1. IdleCheck.pc = "idle"
      BY DEF IdleCheck
    <3> QED
      BY <1>1, <1>4, <3>1, CheckStartType, CheckEndType, CheckReadType, CheckCommitType,
         CheckDbErrorType
  <2>3. Front' \subseteq Front
    BY <1>1, <2>1, <2>2, CheckFront DEF Fetch
  <2>4. \A u \in Task : Stands(u)
    BY <2>1, SameStands
  <2> QED
    BY <1>1, <1>2, <2>1, <2>3, <2>4, OnceCalm
<1>5. CASE CheckObserve(c)
  <2>1. mem' = mem
    BY <1>5 DEF CheckObserve
  <2>2. /\ chk'[c] = IdleCheck /\ \A d \in Check : d # c => chk'[d] = chk[d]
        /\ \E t \in Task : task[t].pc = "idle" /\ task'[t].pc = "next"
                           /\ \A u \in Task : u # t => task'[u] = task[u]
    BY <1>1, <1>5, CheckObserveType
  <2>3. Front' \subseteq Front
    BY <1>1, <2>1, <2>2, CheckFront DEF Fetch, IdleCheck
  <2>4. \A u \in Task : Stands(u)
    BY <2>2 DEF Stands, Rests
  <2> QED
    BY <1>1, <1>2, <2>1, <2>3, <2>4, OnceCalm
<1> QED
  BY <1>3, <1>4, <1>5 DEF CheckNext

-----------------------------------------------------------------------------
(* The world and the administrator *)

\* A new tweet was not sent; time passes; the row is deleted; or nothing happens.
LEMMA OnceWorld ==
  ASSUME Firm, Publish \/ SixHours \/ DeleteRow \/ UNCHANGED vars
  PROVE  OnceInv'
<1>1. TypeInv /\ WorldInv /\ TypeInv' /\ WorldInv' /\ Sound
  BY FirmSound DEF Firm
<1>2. /\ UNCHANGED <<up, conf, gen, epoch, mem, chk, task, sent>>
      /\ reload' = reload \/ (reload' = "idle" /\ reload = "delete")
  BY DEF Publish, SixHours, DeleteRow, vars, world, proc, hist
<1>3. Spare <= Spare'
  <2>1. {"crash", "reload", "lost", "db", "tweet"} \subseteq DOMAIN spent
    BY <1>1 DEF WorldInv
  <2>2. spent' = spent \/ Used("tweet") \/ Used("db")
    BY DEF Publish, SixHours, DeleteRow, vars, bound
  <2>3. spent'.crash = spent.crash /\ spent'.reload = spent.reload /\ spent'.lost = spent.lost
    BY <2>1, <2>2 DEF Used
  <2>4. Spare' = Spare
    BY <1>2, <2>3 DEF Spare
  <2> QED
    BY <1>1, <2>4, SpareIs
<1>4. \A j \in Front' : j \in Front \/ published < j
  <2>1. CASE Publish
    BY <1>1, <2>1, QueuePublish DEF Calm, Advance
  <2>2. CASE SixHours \/ DeleteRow \/ UNCHANGED vars
    <3>1. feed' = feed
      BY <2>2 DEF SixHours, DeleteRow, vars, world
    <3> QED
      BY <1>1, <1>2, <3>1, SameFront
  <2> QED
    BY <2>1, <2>2
<1>5. \A u \in Task : Stands(u)
  BY <1>2, SameStands
<1> QED
  BY <1>2, <1>3, <1>4, <1>5, OnceCalm

\* The configuration in the file changes, not yet that of the process.
LEMMA OnceReloadStart ==
  ASSUME Firm, NEW new \in limit.menu, ReloadStart(new) PROVE OnceInv'
<1>1. TypeInv /\ WorldInv /\ TypeInv' /\ WorldInv'
  BY DEF Firm
<1>2. /\ UNCHANGED <<feed, up, conf, gen, epoch, mem, chk, task, sent>>
      /\ reload = "idle" /\ reload' = "apply" /\ Used("reload")
  BY DEF ReloadStart, world, proc
<1>3. Spare <= Spare'
  <2>1. {"crash", "reload", "lost"} \subseteq DOMAIN spent
    BY <1>1 DEF WorldInv
  <2>2. spent'.crash = spent.crash /\ spent'.reload = spent.reload + 1 /\ spent'.lost = spent.lost
    BY <1>2, <2>1 DEF Used
  <2>3. spent.crash \in Nat /\ spent.lost \in Nat /\ spent.reload \in Nat
    BY <1>1, <2>1 DEF TypeInv, TypeOK
  <2> QED
    BY <1>2, <2>2, <2>3 DEF Spare
<1>4. Front' = Front
  BY <1>1, <1>2, SameFront
<1>5. \A u \in Task : Stands(u)
  BY <1>2, SameStands
<1> QED
  BY <1>2, <1>3, <1>4, <1>5, OnceCalm

\* One more excuse: another configuration is in force.
LEMMA OnceEases ==
  ASSUME Firm, UNCHANGED <<gen, epoch, task, sent, up>>, mem'.pend = mem.pend, Front' \subseteq Front,
         Spare + 1 <= Spare'
  PROVE  OnceInv'
<1>1. /\ TypeInv /\ WorldInv /\ TypeInv' /\ WorldInv' /\ \A u \in Task : TaskOnce(u)
  BY DEF Firm, OnceInv
<1>2. PICK s, r : s = Spare /\ r = Spare'
  OBVIOUS
<1>3. Spare <= Spare'
  <2>1. s \in Int /\ r \in Int /\ s + 1 <= r
    BY <1>1, <1>2, SpareIs, SpareLater
  <2>2. s <= r
    BY <2>1
  <2> QED
    BY <1>2, <2>2
<1>4. \A u \in Task : Stands(u)
  BY SameStands
<1>5. PICK b, c : b = Left + 1 /\ c = Left'
  OBVIOUS
<1>6. Credit' /\ b <= c /\ b \in Int
  <2>1. Left \in Int
    BY <1>1, SpareIs
  <2> QED
    BY <1>3, <1>4, <1>5, <2>1, StandsLeft
<1>7. ASSUME NEW u \in Task PROVE TaskOnce(u)'
  <2>1. Current(u) /\ Begun(u) => Bounded(task[u].id, Left + 1)
    <3>1. Current(u) /\ Begun(u) => task[u].id \in Front
      BY HeadIs DEF Attempt
    <3> QED
      BY <3>1, FrontBound
  <2>2. Rests(u)
    BY DEF Rests
  <2> QED
    BY <1>1, <1>5, <1>6, <2>1, <2>2, TaskEases
<1>8. ASSUME NEW i \in Front' PROVE FrontOnce(i)'
  <2>1. i \in Id /\ Bounded(i, b)
    BY <1>5, <1>8, FrontBound
  <2> QED
    BY <1>1, <1>5, <1>6, <2>1, FreshAgain
<1> QED
  BY <1>3, <1>4, <1>6, <1>7, <1>8, OnceStands

\* What a task that sends a part may add to.
LEMMA HandBound ==
  ASSUME Firm, NEW t \in Task, task[t].pc = "inflight", NEW q \in 1 .. Body,
         q + Prefix(task[t].to, task[t].all) = task[t].n + 1
  PROVE  sent[task[t].id][task[t].to][q] <= Spare
<1>1. TypeInv /\ WorldInv /\ LateOnce(t)
  BY DEF Firm, OnceInv
<1>2. CASE ~Current(t)
  BY <1>1, <1>2 DEF LateOnce
<1>3. CASE Current(t)
  <2>1. Turn(t) /\ Begun(t)
    BY DEF Turn, Begun, Sending
  <2>2. PICK i, x, all, n, e, b :
          /\ i = task[t].id /\ x = task[t].to /\ all = task[t].all /\ n = task[t].n
          /\ e = Ease(t, x) /\ b = Left
    OBVIOUS
  <2>3. i \in Id /\ x \in Target /\ n \in Nat
    <3>1. task[t].n \in Done .. Body + 1 /\ 0 <= task[t].n
      BY <1>1, <2>1, TurnIs
    <3>2. task[t].n \in Nat
      BY <3>1, PartsType DEF Done
    <3> QED
      BY <1>1, <2>1, <2>2, <3>2, TurnIs
  <2>4. Due(t, x) /\ x \in InHand(t)
    BY <1>3, <2>1, <2>2, <2>3, PlacedIs DEF InHand
  <2>5. Beyond(i, x, all, n, e)
    BY <2>2, <2>4 DEF Due
  <2>6. n # Done /\ n < q + Prefix(x, all)
    BY <2>2, <2>3, PartsType DEF Done
  <2>7. sent[i][x][q] <= e /\ sent[i][x][q] \in Nat
    BY <1>1, <2>3, <2>5, <2>6, CopiesNat DEF Beyond
  <2>8. b \in Int /\ b <= Spare /\ Spare \in Int /\ (e = b \/ e = b - 1)
    <3>1. e = b \/ e = b - 1
      BY <2>2 DEF Ease
    <3> QED
      BY <1>1, <2>2, <3>1, SpareIs
  <2>9. sent[i][x][q] <= Spare
    BY <2>7, <2>8
  <2> QED
    BY <2>2, <2>9
<1> QED
  BY <1>2, <1>3

\* Another life: the tasks of the last one are of a former one, and those among them that are
\* still to prepare a message share one lock.
LEMMA NewLates ==
  ASSUME TypeInv, WorldInv, gen' = gen + 1, epoch' \in Nat, epoch <= epoch', task' = task
  PROVE  /\ \A u \in Task : task'[u].pc # "idle" => ~Current(u)'
         /\ Cardinality(Lates') \in Nat /\ Cardinality(Lates') <= Cardinality(Lates) + 1
<1>1. gen \in Nat /\ epoch \in Nat /\ \A u \in Task : Life(u) /\ task[u].gen \in Nat /\ task[u].epoch \in Nat
  BY DEF TypeInv, TypeOK, TaskRec
<1>2. ASSUME NEW u \in Task, task'[u].pc # "idle" PROVE ~Current(u)'
  <2>1. task[u].gen <= gen /\ task[u].gen \in Nat
    BY <1>1, <1>2 DEF Life
  <2>2. task[u].gen # gen + 1
    BY <1>1, <2>1
  <2> QED
    BY <2>2 DEF Current
<1>3. ASSUME NEW e \in Lates' PROVE e \in Lates \cup {epoch}
  <2>1. PICK u \in Task : task[u].pc = "media" /\ task[u].epoch = e
    BY <1>3 DEF Lates, Late
  <2>2. CASE Current(u)
    BY <1>1, <2>1, <2>2 DEF Life, Current
  <2>3. CASE ~Current(u)
    <3>1. Late(u)
      BY <2>1, <2>3 DEF Late
    <3> QED
      BY <2>1, <3>1, LateIs DEF Lates
  <2> QED
    BY <2>2, <2>3
<1>4. PICK S, T : S = Lates /\ T = S \cup {epoch}
  OBVIOUS
<1>5. IsFiniteSet(S) /\ Cardinality(S) \in Nat
  BY <1>4, LatesIs
<1>6. IsFiniteSet(T) /\ Cardinality(T) <= Cardinality(S) + 1 /\ Cardinality(T) \in Nat
  <2>1. IsFiniteSet(T) /\ (Cardinality(T) = Cardinality(S) \/ Cardinality(T) = Cardinality(S) + 1)
    BY <1>4, <1>5, FS_AddElement
  <2> QED
    BY <1>5, <2>1
<1>7. PICK R : R = Lates'
  OBVIOUS
<1>8. R \in SUBSET T
  BY <1>3, <1>4, <1>7
<1>9. IsFiniteSet(R) /\ Cardinality(R) <= Cardinality(T)
  BY <1>6, <1>8, FS_Subset
<1>10. Cardinality(R) \in Nat
  BY <1>9, FS_CardinalityType
<1>11. Cardinality(R) <= Cardinality(S) + 1
  BY <1>5, <1>6, <1>9, <1>10
<1>12. Cardinality(Lates') = Cardinality(R) /\ Cardinality(Lates) = Cardinality(S)
  BY <1>4, <1>7
<1> QED
  BY <1>2, <1>10, <1>11, <1>12

\* The queue is empty then, and each late task has an excuse.
LEMMA OnceLife ==
  ASSUME Firm, UNCHANGED <<feed, chk, task, sent, up>>, gen' = gen + 1, epoch' \in Nat,
         epoch <= epoch', ~mem'.init, reload' = "delete", Spare <= Spare',
         Cardinality(Lates) + 1 <= Spare'
  PROVE  OnceInv'
<1>1. /\ TypeInv /\ WorldInv /\ TypeInv' /\ WorldInv' /\ Apart /\ \A u \in Task : LateOnce(u)
  BY DEF Firm, OnceInv
<1>2. /\ \A u \in Task : task'[u].pc # "idle" => ~Current(u)'
      /\ Cardinality(Lates') \in Nat /\ Cardinality(Lates') <= Cardinality(Lates) + 1
  BY <1>1, NewLates
<1>3. Spare \in Int /\ Spare' \in Int /\ Cardinality(Lates) \in Nat
  BY <1>1, SpareIs, SpareLater, LatesIs
<1>4. Credit'
  <2>1. PICK m, k, r : m = Cardinality(Lates') /\ k = Cardinality(Lates) /\ r = Spare'
    OBVIOUS
  <2>2. m \in Nat /\ k \in Nat /\ r \in Int /\ m <= k + 1 /\ k + 1 <= r
    BY <1>2, <1>3, <2>1
  <2>3. m + 0 <= r
    BY <2>2
  <2> QED
    BY <2>1, <2>3 DEF Credit
<1>5. Apart'
  BY <1>1 DEF Apart, Attempt, Begun, Sending, Turn, Storing
<1>6. Total'
  BY TotalStays
<1>7. Front' = {}
  <2>1. ASSUME NEW c \in Check PROVE ~Fetch(c)'
    <3>1. chk[c].gen \in Nat /\ gen \in Nat /\ (chk[c].pc # "idle" => chk[c].gen <= gen)
      BY <1>1 DEF TypeInv, TypeOK, CheckRec, CheckPlan
    <3>2. chk[c].pc # "idle" => chk[c].gen # gen + 1
      BY <3>1
    <3> QED
      BY <3>2 DEF Fetch
  <2>2. {d \in Check : Fetch(d)}' = {}
    BY <2>1
  <2> QED
    BY <2>2 DEF Front
<1>8. ASSUME NEW u \in Task PROVE TaskOnce(u)' /\ LateOnce(u)'
  <2>1. TaskOnce(u)'
    BY <1>2 DEF TaskOnce, Current
  <2>2. LateOnce(u)'
    <3> SUFFICES ASSUME task[u].pc = "inflight", NEW q \in 1 .. Body,
                        q + Prefix(task[u].to, task[u].all) = task[u].n + 1
                 PROVE  sent[task[u].id][task[u].to][q] <= Spare'
      BY DEF LateOnce
    <3>1. sent[task[u].id][task[u].to][q] <= Spare
      BY HandBound
    <3>2. task[u].id \in Id /\ task[u].to \in Target
      BY <1>1, TurnIs DEF Turn
    <3>3. PICK k : k = sent[task[u].id][task[u].to][q]
      OBVIOUS
    <3>4. k \in Nat
      BY <1>1, <3>2, <3>3, CopiesNat
    <3>5. k <= Spare'
      BY <1>3, <3>1, <3>3, <3>4
    <3> QED
      BY <3>3, <3>5
  <2> QED
    BY <2>1, <2>2
<1> QED
  BY <1>4, <1>5, <1>6, <1>7, <1>8 DEF OnceInv

\* The process takes over the configuration; disabled, it starts another life.
LEMMA OnceReloadApply == ASSUME Firm, ReloadApply PROVE OnceInv'
<1>1. /\ TypeInv /\ WorldInv /\ TypeInv' /\ WorldInv' /\ Credit
  BY DEF Firm, OnceInv
<1>2. UNCHANGED <<feed, up, chk, task, sent, spent>> /\ reload = "apply" /\ reload' # "apply"
  BY DEF ReloadApply, world, hist, bound
<1>3. Spare' = Spare + 1 /\ Spare \in Int /\ Spare <= Spare' /\ Spare + 1 <= Spare'
  <2>1. Spare \in Int
    BY <1>1, SpareIs
  <2>2. spent.crash \in Nat /\ spent.lost \in Nat /\ spent.reload \in Nat
    BY <1>1 DEF TypeInv, TypeOK, WorldInv
  <2>3. Spare' = Spare + 1
    BY <1>2, <2>2 DEF Spare
  <2> QED
    BY <2>1, <2>3
<1>4. CASE conf.on /\ ~cfg.on
  <2>1. gen' = gen + 1 /\ epoch' = epoch + 1 /\ mem' = Blank /\ reload' = "delete" /\ epoch \in Nat
    BY <1>1, <1>4 DEF ReloadApply, TypeInv, TypeOK
  <2>2. epoch' \in Nat /\ epoch <= epoch' /\ ~mem'.init
    BY <2>1, BlankIs
  <2>3. PICK m \in Nat : m = Cardinality(Lates)
    BY <1>1, LatesIs
  <2>4. m + 0 <= Spare
    BY <1>1, <1>2, <2>3 DEF Credit
  <2>5. m + 1 <= Spare'
    BY <1>3, <2>4
  <2> QED
    BY <1>2, <1>3, <2>1, <2>2, <2>3, <2>5, OnceLife
<1>5. CASE ~(conf.on /\ ~cfg.on)
  <2>1. UNCHANGED <<gen, epoch, mem>>
    BY <1>5 DEF ReloadApply
  <2>2. Front' = Front
    BY <1>1, <1>2, <2>1, SameFront
  <2> QED
    BY <1>2, <1>3, <2>1, <2>2, OnceEases
<1> QED
  BY <1>4, <1>5

\* Enabled again, it starts over.
LEMMA OnceReloadReset == ASSUME Firm, ReloadReset PROVE OnceInv'
<1>1. /\ TypeInv /\ WorldInv /\ TypeInv' /\ WorldInv' /\ Credit
  BY DEF Firm, OnceInv
<1>2. /\ UNCHANGED <<feed, up, chk, task, sent, spent, epoch>> /\ reload = "reset"
      /\ reload' = "delete" /\ gen' = gen + 1 /\ mem' = [mem EXCEPT !.last = 0, !.init = FALSE]
      /\ mem \in State /\ epoch \in Nat
  BY <1>1 DEF ReloadReset, world, bound, TypeInv, TypeOK
<1>3. ~mem'.init /\ epoch' \in Nat /\ epoch <= epoch'
  BY <1>2 DEF State
<1>4. Spare' = Spare /\ Spare \in Int /\ Spare <= Spare'
  <2>1. Spare' = Spare
    BY <1>2 DEF Spare
  <2> QED
    BY <1>1, <2>1, SpareIs
<1>5. Cardinality(Lates) + 1 <= Spare'
  BY <1>1, <1>2, <1>4 DEF Credit
<1> QED
  BY <1>2, <1>3, <1>4, <1>5, OnceLife

-----------------------------------------------------------------------------
(* Nothing runs *)

\* No task runs, and no more copies were sent than are excused.
Bare == /\ TypeInv /\ WorldInv /\ reload = "idle" /\ \A t \in Task : task[t].pc = "idle"
        /\ \A i \in Id : Bounded(i, Spare)

\* Then nobody is late, and a tweet is there for its first attempt.
LEMMA BareOnce == Bare => OnceInv
<1> SUFFICES ASSUME Bare PROVE OnceInv
  OBVIOUS
<1>1. TypeInv /\ WorldInv /\ reload = "idle" /\ \A t \in Task : task[t].pc = "idle"
  BY DEF Bare
<1>2. Lates = {}
  BY <1>1 DEF Lates, Late
<1>3. PICK n : n = Cardinality(Lates)
  OBVIOUS
<1>4. n = 0
  <2>1. Cardinality({}) = 0
    BY FS_EmptySet
  <2> QED
    BY <1>2, <1>3, <2>1
<1>5. PICK s : s = Spare
  OBVIOUS
<1>6. s \in Nat /\ s + 1 \in Int /\ s <= s + 1
  <2>1. spent.crash \in Nat /\ spent.lost \in Nat /\ spent.reload \in Nat
    BY <1>1 DEF TypeInv, TypeOK, WorldInv
  <2>2. s = spent.crash + spent.lost + spent.reload
    BY <1>1, <1>5, <2>1 DEF Spare
  <2> QED
    BY <2>1, <2>2
<1>7. Left = s
  BY <1>3, <1>4, <1>5, <1>6 DEF Left
<1>8. Credit
  <2>1. n + 0 <= s
    BY <1>4, <1>6
  <2> QED
    BY <1>1, <1>3, <1>5, <2>1 DEF Credit
<1>9. ASSUME NEW t \in Task PROVE ~Attempt(t) /\ TaskOnce(t) /\ LateOnce(t)
  BY <1>1 DEF Attempt, Begun, Sending, Turn, Storing, TaskOnce, LateOnce
<1>10. Apart
  BY <1>9 DEF Apart
<1>11. ASSUME NEW i \in Id, NEW x \in Target PROVE AtMost(i, x, s) /\ AtMost(i, x, s + 1)
  <2>1. AtMost(i, x, s)
    BY <1>5 DEF Bare, Bounded
  <2> QED
    BY <1>1, <1>6, <2>1, AtMostRises
<1>12. Total
  BY <1>5, <1>11 DEF Total
<1>13. ASSUME NEW i \in Front PROVE FrontOnce(i)
  <2>1. i \in Id
    BY <1>1, FrontNat
  <2>2. Fresh(i)
    BY <1>7, <1>11, <2>1 DEF Fresh
  <2> QED
    BY <1>1, <2>1, <2>2, FrontFresh
<1> QED
  BY <1>8, <1>9, <1>10, <1>12, <1>13 DEF OnceInv

\* The same after a step.
LEMMA BareLater == (Bare => OnceInv)'
BY BareOnce, PTL

\* A crash excuses one copy more.
LEMMA OnceCrash == ASSUME Firm, Crash PROVE OnceInv'
<1>1. /\ TypeInv /\ WorldInv /\ TypeInv' /\ WorldInv' /\ Total
  BY DEF Firm, OnceInv
<1>2. /\ reload' = "idle" /\ sent' = sent /\ Used("crash") /\ \A t \in Task : task'[t].pc = "idle"
  BY <1>1, CrashType, IdleTaskIs DEF Crash
<1>3. PICK s, r : s = Spare /\ r = Spare'
  OBVIOUS
<1>4. s \in Int /\ r \in Int /\ s + 1 \in Int /\ s + 1 <= r
  <2>1. {"crash", "reload", "lost"} \subseteq DOMAIN spent
    BY <1>1 DEF WorldInv
  <2>2. spent'.crash = spent.crash + 1 /\ spent'.reload = spent.reload /\ spent'.lost = spent.lost
    BY <1>2, <2>1 DEF Used
  <2>3. spent.crash \in Nat /\ spent.lost \in Nat /\ spent.reload \in Nat
    BY <1>1, <2>1 DEF TypeInv, TypeOK
  <2>4. r = spent'.crash + spent'.lost + spent'.reload
    BY <1>2, <1>3, <2>2, <2>3 DEF Spare
  <2>5. s \in Int /\ s <= spent.crash + spent.lost + spent.reload
    BY <1>3, <2>3 DEF Spare
  <2> QED
    BY <2>2, <2>3, <2>4, <2>5
<1>5. ASSUME NEW i \in Id, NEW x \in Target PROVE AtMost(i, x, r)'
  <2>1. AtMost(i, x, s + 1)
    BY <1>1, <1>3 DEF Total
  <2> QED
    BY <1>1, <1>2, <1>4, <2>1, AtMostLater
<1>6. Bare'
  BY <1>1, <1>2, <1>3, <1>5 DEF Bare, Bounded
<1> QED
  BY <1>6, BareLater

\* The process comes up again.
LEMMA OnceRestart == ASSUME Firm, Restart PROVE OnceInv'
<1>1. /\ TypeInv /\ WorldInv /\ TypeInv' /\ WorldInv' /\ Total
  BY DEF Firm, OnceInv
<1>2. ~up /\ UNCHANGED <<task, sent, spent, reload>>
  BY DEF Restart, hist, bound
<1>3. reload = "idle" /\ \A t \in Task : task[t].pc = "idle"
  BY <1>1, <1>2 DEF TypeInv, Life, WorldInv
<1>4. PICK s : s = Spare
  OBVIOUS
<1>5. s \in Int /\ Spare' = s /\ s <= s
  BY <1>1, <1>2, <1>4, SpareIs, SpareSame
<1>6. ASSUME NEW i \in Id, NEW x \in Target PROVE AtMost(i, x, s)'
  <2>1. AtMost(i, x, s)
    BY <1>1, <1>2, <1>4 DEF Total
  <2> QED
    BY <1>1, <1>2, <1>5, <2>1, AtMostLater
<1>7. Bare'
  BY <1>1, <1>2, <1>3, <1>5, <1>6 DEF Bare, Bounded
<1> QED
  BY <1>7, BareLater

\* Nothing was sent at the start.
LEMMA OnceInit == ASSUME Init PROVE OnceInv
<1>1. TypeInv /\ WorldInv
  BY InitType, WorldInit
<1>2. /\ reload = "idle" /\ task = [t \in Task |-> IdleTask]
      /\ sent = [i \in Id |-> [x \in Target |-> [p \in 1 .. Body |-> 0]]]
  BY DEF Init
<1>3. \A t \in Task : task[t].pc = "idle"
  BY <1>2, IdleTaskIs
<1>4. PICK s : s = Spare
  OBVIOUS
<1>5. s \in Nat
  <2>1. spent.crash \in Nat /\ spent.lost \in Nat /\ spent.reload \in Nat
    BY <1>1 DEF TypeInv, TypeOK, WorldInv
  <2> QED
    BY <1>2, <1>4, <2>1 DEF Spare
<1>6. ASSUME NEW i \in Id, NEW x \in Target PROVE AtMost(i, x, s)
  <2>1. \A q \in 1 .. Body : sent[i][x][q] = 0
    BY <1>2
  <2> QED
    BY <1>5, <2>1 DEF AtMost
<1>7. Bare
  BY <1>1, <1>2, <1>3, <1>4, <1>6 DEF Bare, Bounded
<1> QED
  BY <1>7, BareOnce

-----------------------------------------------------------------------------
(* Every part once *)

\* Deletions are not undone.
LEMMA WholeWas == ASSUME TypeInv, WorldInv, [Next]_vars, Whole' PROVE Whole
<1>1. CASE UNCHANGED spent
  BY <1>1 DEF Whole
<1>2. ASSUME NEW F, F \subseteq Bounds, "vanish" \notin F, Uses(F) PROVE Whole
  BY <1>2, UsesIs DEF Whole
<1>3. CASE Publish \/ (\E new \in limit.menu : ReloadStart(new)) \/ Crash
  <2>1. Uses({"tweet", "reload", "crash"})
    BY <1>3 DEF Publish, ReloadStart, Crash, Uses
  <2>2. {"tweet", "reload", "crash"} \subseteq Bounds
    BY DEF Bounds
  <2> QED
    BY <1>2, <2>1, <2>2
<1>4. CASE \E i \in Id : Vanish(i)
  <2>1. Used("vanish")
    BY <1>4 DEF Vanish
  <2>2. "vanish" \in DOMAIN spent /\ spent.vanish \in Nat
    BY DEF WorldInv, TypeInv, TypeOK
  <2>3. spent'.vanish = spent.vanish + 1
    BY <2>1, <2>2 DEF Used
  <2> QED
    BY <2>2, <2>3 DEF Whole
<1>5. CASE (\E c \in Check : CheckStart(c) \/ CheckEnd(c) \/ CheckNext(c) \/ CheckDbError(c))
           \/ (\E t \in Task : TaskNext(t) \/ SendRefused(t) \/ SendLost(t) \/ TaskDbError(t))
           \/ DeleteRow
  <2>1. Uses({"lost", "db"})
    <3>1. CASE DeleteRow
      BY <3>1 DEF DeleteRow, Uses, bound
    <3> QED
      BY <1>5, <3>1, CheckKeeps, TaskUses
  <2>2. {"lost", "db"} \subseteq Bounds
    BY DEF Bounds
  <2> QED
    BY <1>2, <2>1, <2>2
<1>6. CASE SixHours \/ ReloadApply \/ ReloadReset \/ Restart
  BY <1>1, <1>6 DEF SixHours, ReloadApply, ReloadReset, Restart, bound
<1>7. CASE UNCHANGED vars
  BY <1>1, <1>7 DEF vars, bound
<1> QED
  BY <1>3, <1>4, <1>5, <1>6, <1>7 DEF Next

\* While no tweet is deleted, a step keeps the excuses and what they cover.
LEMMA OnceStep ==
  ASSUME CrashParted, TypeInv, WorldInv, NoteInv, QueueInv, [Next]_vars, Whole => OnceInv
  PROVE  (Whole => OnceInv)'
<1> SUFFICES ASSUME Whole' PROVE OnceInv'
  OBVIOUS
<1>1. Whole
  BY WholeWas
<1>2. Firm
  BY <1>1, TypeNotes, QueueStep DEF Firm
<1>3. CASE Publish \/ SixHours \/ DeleteRow \/ UNCHANGED vars
  BY <1>2, <1>3, OnceWorld
<1>4. ASSUME NEW i \in Id, Vanish(i) PROVE FALSE
  <2>1. "vanish" \in DOMAIN spent /\ Used("vanish") /\ spent.vanish = 0 /\ spent'.vanish = 0
    BY <1>1, <1>4 DEF Whole, WorldInv, Vanish
  <2> QED
    BY <2>1 DEF Used
<1>5. CASE \E c \in Check : CheckStart(c) \/ CheckEnd(c) \/ CheckNext(c) \/ CheckDbError(c)
  BY <1>2, <1>5, OnceCheck
<1>6. CASE \E t \in Task : TaskNext(t) \/ SendRefused(t) \/ SendLost(t) \/ TaskDbError(t)
  BY <1>2, <1>6, OnceTaskStep
<1>7. CASE (\E new \in limit.menu : ReloadStart(new)) \/ ReloadApply \/ ReloadReset
  BY <1>2, <1>7, OnceReloadStart, OnceReloadApply, OnceReloadReset
<1>8. CASE Crash \/ Restart
  BY <1>2, <1>8, OnceCrash, OnceRestart
<1> QED
  BY <1>3, <1>4, <1>5, <1>6, <1>7, <1>8 DEF Next

\* The copies that are excused are those of the property, at most.
LEMMA OnceMeans == ASSUME TypeInv, WorldInv, OnceInv PROVE PartOnce
<1>1. spent.crash \in Nat /\ spent.lost \in Nat /\ spent.reload \in Nat
  BY DEF TypeInv, TypeOK, WorldInv
<1>2. Spare \in Int /\ Spare + 1 <= 1 + spent.crash + spent.lost + spent.reload
  BY <1>1 DEF Spare
<1>3. PICK s \in Int : s = Spare
  BY <1>2
<1>4. s + 1 <= 1 + spent.crash + spent.lost + spent.reload
  BY <1>2, <1>3
<1>5. ASSUME NEW i \in Id, NEW x \in Target, NEW p \in 1 .. Body
      PROVE  sent[i][x][p] <= 1 + spent.crash + spent.lost + spent.reload
  <2>1. AtMost(i, x, s + 1)
    BY <1>3 DEF OnceInv, Total
  <2>2. sent[i][x][p] <= s + 1
    BY <2>1 DEF AtMost
  <2>3. sent[i][x][p] \in Nat
    BY CopiesNat
  <2> QED
    BY <1>1, <1>4, <2>2, <2>3
<1> QED
  BY <1>5 DEF PartOnce

\* As long as no tweet was deleted, a target gets no part of a tweet more than once, but for one
\* more copy per crash, lost receipt and change of the configuration: however polls, tasks,
\* failed targets and checkpoints, missing media and reloads interleave.
THEOREM PartOnceCorrect == ASSUME CrashParted PROVE Spec => [](Whole => PartOnce)
<1>1. Init => (Whole => OnceInv)
  BY OnceInit
<1>2. TypeInv /\ WorldInv /\ NoteInv /\ QueueInv /\ [Next]_vars /\ (Whole => OnceInv)
      => (Whole => OnceInv)'
  BY OnceStep
<1>3. TypeInv /\ WorldInv /\ (Whole => OnceInv) => (Whole => PartOnce)
  BY OnceMeans
<1> QED
  BY <1>1, <1>2, <1>3, QueueHolds, PTL DEF Spec
=============================================================================
