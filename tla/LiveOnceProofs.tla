--------------------------- MODULE LiveOnceProofs ---------------------------
(***************************************************************************)
(* A notice of the live monitor is pushed once (OncePerBroadcast).          *)
(*                                                                         *)
(* The invariant Safe: types, the world and the lock (WorldInv, LockInv),   *)
(* the state object of the room and the handlers that observe it (LifeInv), *)
(* the notices that were pushed (OnceInv).  Every step of a slot has a      *)
(* Shape that keeps the world, the lock and the other slots; what is left   *)
(* is shown action by action (..Kept).                                      *)
(***************************************************************************)
EXTENDS LiveRoomProofs

-----------------------------------------------------------------------------
(* One notice: the world, the lock and the life of a room                    *)

\* A life that no reload has made.
Unused(l) == \/ l > spent.reload
             \/ l = spent.reload /\ (reload = "readd" \/ (reload = "apply" /\ targets = {}))

\* The reload, the process and the lives of the room go together.
WorldInv ==
  /\ reload \in {"delete", "readd"} => cur = None
  /\ reload = "remove" => targets = {}
  /\ reload = "readd" => targets # {}
  /\ targets = {} /\ reload \in {"idle", "apply"} => cur = None
  /\ reload # "idle" => up
  /\ ~up => targets = {} /\ \A l \in Life : mem[l] = Fresh
  /\ cur # None => ~Unused(cur)
  /\ \A l \in Life : Unused(l) => mem[l] = Fresh
  /\ \A c \in Slot : chk[c].pc # "idle" => ~Unused(chk[c].life)

\* The lock: one handler has it, the others queue, each behind those that came before.
LockInv ==
  /\ \A c, d \in Slot : c \in chk[d].ahead => Locking(c) /\ Locking(d) /\ c # d
  /\ \A c, d \in Slot : c # d /\ Locking(c) /\ Locking(d) => c \in chk[d].ahead \/ d \in chk[c].ahead
  /\ \A c \in Slot : chk[c].pc \in Holding => chk[c].ahead = {}

-----------------------------------------------------------------------------
(* What is known of the broadcasts                                           *)

\* The broadcasts that are over.
Past == {b \in Stream : b <= streams /\ ~(air.st = "live" /\ air.n = b)}

\* The targets that got a notice once more than crashes, lost receipts and cancelled
\* handlers account for; the broadcasts that a target knows of, or is about to.
Had  == [k \in Kind |-> [b \in Stream |-> {x \in Target : sent[k][b][x] > Excuses}]]
Flies(r, k, b) == r.pc = "inflight" /\ Head(r.plan).k = k /\ r.about = b
Told == [k \in Kind |-> {b \in Stream : Had[k][b] # {} \/ \E c \in Slot : Flies(chk[c], k, b)}]

\* The latest broadcast that a state knows.
Hi(s) == IF s.last > s.start THEN s.last ELSE s.start

\* A state of the room, while P is over and n broadcasts have begun.
StateOK(s, P, n) ==
  /\ s.start <= n /\ s.last <= n
  /\ s.prev # "live" => Hi(s) \in P
  /\ s.prev = "live" => s.pend["end"] = Nothing
  /\ \A k \in Kind : /\ ~s.pend[k].on => s.pend[k] = Nothing
                     /\ s.pend[k].dlv # None => s.pend[k].dlv.about <= Hi(s)
  /\ s.pend["start"].on => s.start <= s.last

\* What is pending, while H had it and T is told: a prepared message has yet to reach
\* those that are not done; one that is not prepared is news.
PendTold(s, H, T) ==
  /\ \A k \in Kind : s.pend[k].dlv # None =>
        H[k][s.pend[k].dlv.about] \subseteq s.pend[k].dlv.done
  /\ s.pend["start"].on /\ s.pend["start"].dlv = None => \A b \in T["start"] : b < s.start
  /\ s.pend["end"].on /\ s.pend["end"].dlv = None => \A b \in T["end"] : b < Hi(s)

\* What is told is known to the state: that a broadcast began, that it ended.
Aware(s) == s.init \/ Pends(s)
Known(s, P, T) == Aware(s) =>
  IF s.prev = "live" THEN (\A b \in T["start"] : b <= Hi(s)) /\ (\A b \in T["end"] : b < Hi(s))
  ELSE T["start"] \subseteq P

RoomInv(s, P, H, T, n) ==
  /\ StateOK(s, P, n) /\ PendTold(s, H, T) /\ Known(s, P, T)
  /\ s.prev = "live" /\ s.room # None => s.start <= s.room /\ s.room <= Hi(s)

\* Whatever is told is older than m, or known to the state.
Beyond(m, s, T) == \A k \in Kind : \A b \in T[k] : b < m \/ b <= Hi(s)

\* A handler that observes the state s: its answer may be old, but what follows from it
\* is news as long as the status is what it was.
CheckInv(r, s, P, T) == r.pc # "idle" =>
  /\ ~s.init => r.pc \in {"init", "record"}
  /\ r.epoch <= s.epoch
  /\ r.pc = "fetch" => r.snap = None
  /\ r.pc = "record" /\ ~s.init =>
       IF r.snap.st = "live"
       THEN (\A b \in T["start"] : b <= r.snap.n) /\ (\A b \in T["end"] : b < r.snap.n)
       ELSE Hi(s) \in P /\ T["start"] \subseteq P
  /\ r.pc = "got" /\ r.snap # None /\ r.snap.st = "live" =>
       /\ Beyond(r.snap.n, s, T)
       /\ r.epoch = s.epoch => s.start <= r.snap.n
       /\ r.epoch = s.epoch /\ s.prev # "live" => Hi(s) < r.snap.n
  /\ r.pc = "lock" /\ r.job = "began" =>
       Beyond(r.snap.n, s, T) /\ (s.prev # "live" => Hi(s) < r.snap.n)

\* A handler that has the lock: what it pushes is pending in the state s.
HolderInv(r, s) ==
  LET i == Head(r.plan)
      p == s.pend[i.k]
  IN r.pc \in Holding =>
  /\ i \in {CatchUp, PushEnd} => s.prev # "live" /\ s.pend["end"].on
  /\ r.pc = "next" /\ i = PushStart => p.on /\ r.about = s.start
  /\ r.pc = "next" /\ i = CatchUp /\ p.on /\ r.about # None =>
       s.start <= r.about /\ r.about <= Hi(s)
  /\ r.pc # "next" => p.on /\ (i.k = "end" => s.prev # "live")
  /\ r.pc = "build" => /\ p.dlv = None
                       /\ IF i.k = "end" THEN r.about = Hi(s)
                          ELSE s.start <= r.about /\ r.about <= Hi(s)
  /\ r.pc \in {"send", "inflight"} => /\ p.dlv # None /\ p.dlv.about = r.about
                                      /\ (r.queue \ r.done) \cap p.dlv.done = {}
  /\ r.pc = "inflight" => r.to \in r.queue \ r.done

\* The job of a handler changes the state s.
Effective(r, s) == \/ r.job = "began" /\ s.prev # "live"
                   \/ r.job = "ended" /\ s.prev = "live"

\* Nobody waits for the lock to change the state back behind one who changes it.
QueueInv == \A c, d \in Slot :
  /\ chk[c].life = cur /\ chk[d].life = cur /\ c \in chk[d].ahead
  /\ chk[c].pc = "lock" /\ Effective(chk[c], mem[cur]) /\ chk[d].job \in {"began", "ended"}
  => Effective(chk[d], mem[cur])

\* A push of a former life that is under way leaves this one without prepared messages.
ForeignInv == \A c \in Slot : chk[c].pc = "inflight" /\ chk[c].life # cur =>
                              \A k \in Kind : mem[cur].pend[k].dlv = None

LifeInv == misled = 0 /\ Active =>
  /\ RoomInv(mem[cur], Past, Had, Told, streams)
  /\ \A c \in Slot : chk[c].life = cur =>
       CheckInv(chk[c], mem[cur], Past, Told) /\ HolderInv(chk[c], mem[cur])
  /\ QueueInv /\ ForeignInv

OnceInv == misled = 0 =>
  /\ \A k \in Kind, n \in Stream, x \in Target :
       sent[k][n][x] <= Excuses + 1 /\ (~up => sent[k][n][x] <= Excuses)
  /\ \A c \in Slot : chk[c].pc = "inflight" => chk[c].to \notin Had[Item(c).k][chk[c].about]
  /\ Told["start"] \subseteq 0 .. streams /\ Told["end"] \subseteq Past
  /\ row # None => StateOK(row, Past, streams)

-----------------------------------------------------------------------------
(* The shape of a step of slot c                                             *)

Locked == Holding \cup {"lock"}

\* The life of the room that slot c has to do with.
LifeOf(c) == IF chk[c].pc = "idle" THEN cur ELSE chk[c].life

\* The handler of slot c becomes q: without the lock, with it, or taking it, or queueing.
Moves(c, q) ==
  /\ q \in SlotRec /\ q.life = LifeOf(c) /\ q.pc # "idle" /\ chk' = [chk EXCEPT ![c] = q]
  /\ \/ q.ahead \in {{}, chk[c].ahead} /\ q.pc \notin Locked /\ chk[c].pc \notin Locked
     \/ /\ q.ahead = chk[c].ahead /\ q.job = chk[c].job
        /\ q.pc = chk[c].pc \/ (q.pc \in Holding /\ chk[c].pc \in Holding)
     \/ q.pc \in Holding /\ q.ahead = {} /\ \A d \in Slot : ~Locking(d)
     \/ q.pc \in Holding /\ q.ahead = {} /\ chk[c].pc = "lock" /\ chk[c].ahead = {}
     \/ q.pc = "lock" /\ ~Locking(c) /\ q.ahead = {d \in Slot : Locking(d)}

\* The state objects of the other lives are left alone.
Only(m, w, l) == \A j \in Life \ {l} : w[j] = m[j]

Turns(c) == Leave(c) \/ \E q : Moves(c, q)

Shape(c) ==
  /\ LifeOf(c) \in Life
  /\ UNCHANGED <<world, cfg, proc, reload>> /\ spent'.reload = spent.reload
  /\ misled' = 0 => misled = 0
  /\ Only(mem, mem', LifeOf(c)) /\ Turns(c)

\* A handler is locking by its place.
LEMMA LockingIs == \A c \in Slot : Locking(c) <=> chk[c].pc \in Locked
BY DEF Locking, Locked, Holding

\* A handler that runs has its life.
LEMMA LifeIs ==
  ASSUME TypeInv, NEW c \in Slot, chk[c].pc # "idle"
  PROVE  LifeOf(c) = chk[c].life /\ LifeOf(c) \in Life
BY DEF LifeOf, TypeInv, TypeOK, SlotRec

\* A handler that goes on.
LEMMA FollowsMoves ==
  ASSUME TypeInv, NEW c \in Slot, chk[c].pc \in Holding, NEW q, Follows(chk[c], q),
         q.pc \in Holding, chk' = [chk EXCEPT ![c] = q]
  PROVE  Moves(c, q)
<1>1. LifeOf(c) = chk[c].life
  BY LifeIs DEF Holding
<1> QED
  BY <1>1 DEF Moves, Follows, Holding

\* One state object changes.
LEMMA OnlyPut ==
  ASSUME NEW l \in Life, NEW m \in [Life -> Room], NEW t
  PROVE  Only(m, [m EXCEPT ![l] = t], l)
BY DEF Only

\* Two changes of the same state object.
LEMMA OnlyTwice ==
  ASSUME NEW m, NEW w, NEW u, NEW l, Only(m, w, l), Only(w, u, l) PROVE Only(m, u, l)
BY DEF Only

\* No change is a change of one state object.
LEMMA OnlySame == ASSUME NEW m, NEW l PROVE Only(m, m, l)
BY DEF Only

\* A handler with a plan holds the lock.
LEMMA BegunMoves ==
  ASSUME TypeInv, NEW c \in Slot, NEW plan \in Plans, NEW about \in Stream \cup {None},
         LifeOf(c) \in Life, chk' = [chk EXCEPT ![c] = Begun(LifeOf(c), plan, about)],
         (\A d \in Slot : ~Locking(d)) \/ (chk[c].pc = "lock" /\ chk[c].ahead = {})
  PROVE  Moves(c, Begun(LifeOf(c), plan, about))
<1> DEFINE q == Begun(LifeOf(c), plan, about)
<1>1. q \in SlotRec /\ q.pc = "next" /\ q.life = LifeOf(c) /\ q.ahead = {}
  BY BegunIs
<1> HIDE DEF q
<1>2. chk' = [chk EXCEPT ![c] = q]
  BY DEF q
<1>3. Moves(c, q)
  BY <1>1, <1>2 DEF Moves, Holding
<1> QED
  BY <1>3 DEF q

\* A handler takes the lock.
LEMMA TakesShape ==
  ASSUME TypeInv, NEW m, RoomsOK(m), NEW c \in Slot, NEW r \in SlotRec, Takes(m, c, r),
         Prepared(r), r.life = LifeOf(c),
         (\A d \in Slot : ~Locking(d)) \/ (chk[c].pc = "lock" /\ chk[c].ahead = {})
  PROVE  Only(m, mem', LifeOf(c)) /\ Turns(c)
<1> DEFINE l == LifeOf(c)
           s == m[l]
<1>1. l \in Life /\ s \in Room /\ m \in [Life -> Room]
  BY DEF SlotRec, RoomsOK
<1>2. CASE Leave(c) /\ mem' = m
  BY <1>2, OnlySame DEF Turns
<1>3. CASE Leave(c) /\ mem' = [m EXCEPT ![r.life].prev = r.kind, ![r.life].epoch = @ + 1]
  BY <1>1, <1>3 DEF Turns, Only
<1>4. CASE /\ r.job = "began" /\ mem' = [m EXCEPT ![r.life] = BeganState(m[r.life], r.snap.n)]
           /\ chk' = [chk EXCEPT ![c] = Begun(r.life, <<PushStart, Save, RetryEnd>>, r.snap.n)]
  <2>1. r.snap.n \in Stream
    BY <1>4 DEF Prepared, SnapOK, Snapshot
  <2>2. Only(m, mem', l)
    BY <1>1, <1>4, OnlyPut
  <2>3. Turns(c)
    BY <1>1, <1>4, <2>1, PlansOfEnter, BegunMoves DEF Turns
  <2> QED
    BY <2>2, <2>3
<1>5. CASE /\ \E t : mem' = [m EXCEPT ![r.life] = t]
           /\ chk' = [chk EXCEPT ![c] = Begun(r.life, <<CatchUp, PushEnd, Save, RetryStart>>,
                                IF m[r.life].room = None THEN LastLive(m[r.life]) ELSE m[r.life].room)]
  <2> DEFINE a == IF s.room = None THEN LastLive(s) ELSE s.room
  <2>1. a \in Stream \cup {None}
    BY <1>1 DEF LastLive, Room
  <2>2. Only(m, mem', l)
    <3>1. PICK t : mem' = [m EXCEPT ![l] = t]
      BY <1>5
    <3> HIDE DEF l
    <3> QED
      BY <1>1, <3>1, OnlyPut
  <2>3. chk' = [chk EXCEPT ![c] = Begun(l, <<CatchUp, PushEnd, Save, RetryStart>>, a)]
    BY <1>5
  <2> HIDE DEF a
  <2>4. Turns(c)
    BY <1>1, <2>1, <2>3, PlansOfEnter, BegunMoves DEF Turns
  <2> QED
    BY <2>2, <2>4
<1>6. CASE /\ mem' = m
           /\ \E p \in {<<RetryStart>>, <<>>}, q \in {<<RetryEnd>>, <<>>} :
                p \o q # <<>> /\ chk' = [chk EXCEPT ![c] = Begun(r.life, p \o q, None)]
  <2>1. PICK p \in {<<RetryStart>>, <<>>}, p2 \in {<<RetryEnd>>, <<>>} :
           chk' = [chk EXCEPT ![c] = Begun(l, p \o p2, None)]
    BY <1>6
  <2>2. p \o p2 \in Plans
    BY PlansOfEnter
  <2>3. Turns(c)
    BY <1>1, <2>1, <2>2, BegunMoves DEF Turns
  <2> QED
    BY <1>6, <2>3, OnlySame
<1> QED
  BY <1>2, <1>3, <1>4, <1>5, <1>6 DEF Takes

\* A handler takes the lock or queues.
LEMMA LockShape ==
  ASSUME TypeInv, NEW m, RoomsOK(m), NEW c \in Slot, NEW r \in SlotRec, NEW job \in Jobs,
         NEW wrong \in BOOLEAN, Lock(m, c, r, job, wrong), Prepared(Given(r, job)),
         r.life = LifeOf(c), ~Locking(c), Only(mem, m, LifeOf(c))
  PROVE  Only(mem, mem', LifeOf(c)) /\ Turns(c) /\ (misled' = 0 => misled = 0)
<1>1. misled \in Nat
  BY TypeParts DEF Books
<1>2. CASE /\ \A d \in Slot : ~Locking(d)
           /\ Enter(m, c, Given(r, job))
           /\ misled' = misled + (IF wrong \/ Misleads(m, Given(r, job)) THEN 1 ELSE 0)
  <2> DEFINE q == Given(r, job)
  <2>1. q \in SlotRec /\ q.life = LifeOf(c)
    BY GivenIs
  <2>2. Takes(m, c, q)
    BY <1>2, <2>1, EnterIs DEF RoomsOK
  <2>3. Only(m, mem', LifeOf(c)) /\ Turns(c)
    <3> HIDE DEF q
    <3>1. Prepared(q)
      BY DEF q
    <3> QED
      BY <1>2, <2>1, <2>2, <3>1, TakesShape
  <2> QED
    BY <1>1, <1>2, <2>3, OnlyTwice
<1>3. CASE /\ chk' = [chk EXCEPT ![c] = Queued(r, job)]
           /\ mem' = m
           /\ misled' = misled + (IF wrong THEN 1 ELSE 0)
  <2> DEFINE q == Queued(r, job)
  <2>1. q \in SlotRec /\ q.pc = "lock" /\ q.ahead = {d \in Slot : Locking(d)} /\ q.life = LifeOf(c)
    BY QueuedIs
  <2>2. chk' = [chk EXCEPT ![c] = q]
    BY <1>3
  <2> HIDE DEF q
  <2>3. Moves(c, q)
    BY <2>1, <2>2 DEF Moves
  <2> QED
    BY <1>1, <1>3, <2>3 DEF Turns
<1> QED
  BY <1>2, <1>3, LockIs

\* The handler leaves, or goes on with its plan.
LEMMA GoesShape ==
  ASSUME TypeInv, NEW c \in Slot, chk[c].pc \in Holding, Goes(c)
  PROVE  Turns(c)
<1>1. CASE Leave(c)
  BY <1>1 DEF Turns
<1>2. CASE Len(chk[c].plan) # 1 /\ chk' = [chk EXCEPT ![c] = Onward(chk[c])]
  <2> DEFINE q == Onward(chk[c])
  <2>1. /\ q \in SlotRec /\ q.pc = "next" /\ q.life = chk[c].life /\ q.ahead = chk[c].ahead
        /\ q.job = chk[c].job
    BY <1>2, HolderIs, OnwardIs
  <2>2. LifeOf(c) = chk[c].life
    BY LifeIs DEF Holding
  <2>3. chk' = [chk EXCEPT ![c] = q]
    BY <1>2
  <2> HIDE DEF q
  <2>4. Moves(c, q)
    BY <2>1, <2>2, <2>3 DEF Moves, Holding
  <2> QED
    BY <2>4 DEF Turns
<1> QED
  BY <1>1, <1>2 DEF Goes

\* What a step spends is not a reload.
LEMMA SpentIs ==
  ASSUME TypeInv, \/ Spends \/ UNCHANGED spent
                  \/ spent' = [spent EXCEPT !.fail = @ + 1]
                  \/ spent' = [spent EXCEPT !.fail = @ + 1, !.lost = @ + 1]
                  \/ spent' = [spent EXCEPT !.cut = @ + 1]
  PROVE  spent'.reload = spent.reload
BY DEF Spends, TypeInv, TypeOK

\* A step in a delivery that ends it.
LEMMA ClosesShape ==
  ASSUME TypeInv, NEW c \in Slot, chk[c].pc \in Holding, NEW b, Closes(c, b),
         UNCHANGED <<world, cfg, proc, saving, reload, hist>>
  PROVE  Shape(c)
<1>1. PICK t \in Room : mem' = Puts(mem, c, t) /\ Spends /\ Goes(c)
  BY DEF Closes
<1>2. LifeOf(c) = chk[c].life /\ LifeOf(c) \in Life
  BY LifeIs DEF Holding
<1>3. Only(mem, mem', LifeOf(c))
  BY <1>1, <1>2, OnlyPut DEF Puts, TypeInv, TypeOK
<1>4. Turns(c)
  BY <1>1, GoesShape
<1> QED
  BY <1>1, <1>2, <1>3, <1>4, SpentIs DEF Shape, hist

\* A step in a delivery that goes on with it.
LEMMA PushShape ==
  ASSUME TypeInv, NEW c \in Slot, chk[c].pc \in Holding, NEW q, Follows(chk[c], q),
         q.pc \in Holding, chk' = [chk EXCEPT ![c] = q],
         UNCHANGED <<world, cfg, proc, reload, misled>>, spent'.reload = spent.reload,
         UNCHANGED mem \/ \E t : mem' = Puts(mem, c, t)
  PROVE  Shape(c)
<1>1. LifeOf(c) = chk[c].life /\ LifeOf(c) \in Life
  BY LifeIs DEF Holding
<1>2. Only(mem, mem', LifeOf(c))
  <2>1. mem \in [Life -> Room]
    BY DEF TypeInv, TypeOK
  <2>2. CASE UNCHANGED mem
    BY <2>2, OnlySame
  <2>3. CASE \E t : mem' = Puts(mem, c, t)
    <3>1. PICK t : mem' = [mem EXCEPT ![LifeOf(c)] = t]
      BY <1>1, <2>3 DEF Puts
    <3> QED
      BY <1>1, <2>1, <3>1, OnlyPut
  <2> QED
    BY <2>2, <2>3
<1>3. Turns(c)
  BY FollowsMoves DEF Turns
<1> QED
  BY <1>1, <1>2, <1>3 DEF Shape

\* A step that ends the handler.
LEMMA LeaveShape ==
  ASSUME TypeInv, NEW c \in Slot, chk[c].pc # "idle", Leave(c),
         UNCHANGED <<world, cfg, proc, reload>>, misled' = 0 => misled = 0,
         spent'.reload = spent.reload, UNCHANGED mem \/ \E t : mem' = Puts(mem, c, t)
  PROVE  Shape(c)
<1>1. LifeOf(c) = chk[c].life /\ LifeOf(c) \in Life
  BY LifeIs
<1>2. Only(mem, mem', LifeOf(c))
  <2>1. mem \in [Life -> Room]
    BY DEF TypeInv, TypeOK
  <2>2. CASE UNCHANGED mem
    BY <2>2, OnlySame
  <2>3. CASE \E t : mem' = Puts(mem, c, t)
    <3>1. PICK t : mem' = [mem EXCEPT ![LifeOf(c)] = t]
      BY <1>1, <2>3 DEF Puts
    <3> QED
      BY <1>1, <2>1, <3>1, OnlyPut
  <2> QED
    BY <2>2, <2>3
<1> QED
  BY <1>1, <1>2 DEF Shape, Turns

\* A step of a handler without the lock.
LEMMA StaysShape ==
  ASSUME TypeInv, NEW c \in Slot, chk[c].pc \notin Locked, LifeOf(c) \in Life, NEW q \in SlotRec,
         q.life = LifeOf(c), q.pc \notin Locked, q.pc # "idle", q.ahead \in {{}, chk[c].ahead},
         chk' = [chk EXCEPT ![c] = q],
         UNCHANGED <<world, cfg, proc, reload, misled, mem>>, spent'.reload = spent.reload
  PROVE  Shape(c)
<1>1. Turns(c)
  BY DEF Turns, Moves
<1> QED
  BY <1>1, OnlySame DEF Shape

\* The server answers.
LEMMA AnswerShape == ASSUME TypeInv, NEW c \in Slot, Answer(c) PROVE Shape(c)
<1> DEFINE q == Heard(chk[c], air)
<1>1. /\ chk[c].pc \in {"init", "fetch"} /\ chk' = [chk EXCEPT ![c] = q]
      /\ UNCHANGED <<world, db, proc, mem, saving, reload, hist, spent>>
  BY AnswerIs
<1>2. chk[c] \in SlotRec /\ air \in Snapshot \cup {None}
  BY DEF TypeInv, TypeOK
<1>3. /\ q \in SlotRec /\ q.pc \in {"record", "got"} /\ q.life = chk[c].life
      /\ q.ahead = chk[c].ahead
  BY <1>2, HeardIs
<1> HIDE DEF q
<1>4. LifeOf(c) = chk[c].life /\ LifeOf(c) \in Life
  BY <1>1, LifeIs
<1> QED
  BY <1>1, <1>3, <1>4, StaysShape DEF Locked, Holding, db, hist

\* A handler whose request failed.
Unanswered(r) == [r EXCEPT !.pc = "got"]

\* A first attempt at a baseline that fails connects the websocket.
LEMMA AnswerFailIs ==
  ASSUME TypeInv, NEW c \in Slot, AnswerFail(c)
  PROVE  /\ chk[c].pc \in {"init", "fetch"} /\ spent' = [spent EXCEPT !.fail = @ + 1]
         /\ UNCHANGED <<world, db, proc, saving, reload, hist>>
         /\ \/ Leave(c) /\ mem' = Puts(mem, c, [mem[chk[c].life] EXCEPT !.ws = TRUE])
            \/ /\ chk' = [chk EXCEPT ![c] = Unanswered(chk[c])] /\ UNCHANGED mem
               /\ chk[c].pc = "fetch"
BY DEF AnswerFail, TypeInv, TypeOK, SlotRec, Puts, Unanswered

\* A handler without an answer.
LEMMA UnansweredIs ==
  ASSUME NEW r \in SlotRec
  PROVE  LET q == Unanswered(r) IN
         /\ q \in SlotRec /\ q.pc = "got" /\ q.life = r.life /\ q.ahead = r.ahead
         /\ q.snap = r.snap /\ q.epoch = r.epoch /\ q.plan = r.plan /\ q.about = r.about
         /\ q.job = r.job
<1> DEFINE pc == "got"
<1>1. pc \in Pcs
  BY DEF Pcs
<1> HIDE DEF pc
<1>2. LET q == [r EXCEPT !.pc = pc] IN
         /\ q \in SlotRec /\ q.pc = pc /\ q.life = r.life /\ q.ahead = r.ahead
         /\ q.snap = r.snap /\ q.epoch = r.epoch /\ q.plan = r.plan /\ q.about = r.about
         /\ q.job = r.job
  BY <1>1 DEF SlotRec, Pcs
<1> QED
  BY <1>2 DEF Unanswered, pc

\* The request fails.
LEMMA AnswerFailShape == ASSUME TypeInv, NEW c \in Slot, AnswerFail(c) PROVE Shape(c)
<1>1. /\ chk[c].pc \in {"init", "fetch"} /\ spent' = [spent EXCEPT !.fail = @ + 1]
      /\ UNCHANGED <<world, db, proc, saving, reload, hist>>
      /\ \/ Leave(c) /\ \E t : mem' = Puts(mem, c, t)
         \/ /\ chk' = [chk EXCEPT ![c] = Unanswered(chk[c])] /\ UNCHANGED mem
  BY AnswerFailIs
<1>2. spent'.reload = spent.reload
  BY <1>1, SpentIs
<1>3. chk[c] \in SlotRec
  BY DEF TypeInv, TypeOK
<1>4. CASE Leave(c) /\ \E t : mem' = Puts(mem, c, t)
  BY <1>1, <1>2, <1>4, LeaveShape DEF db, hist
<1>5. CASE chk' = [chk EXCEPT ![c] = Unanswered(chk[c])] /\ UNCHANGED mem
  <2> DEFINE q == Unanswered(chk[c])
  <2>1. q \in SlotRec /\ q.pc = "got" /\ q.life = chk[c].life /\ q.ahead = chk[c].ahead
    BY <1>3, UnansweredIs
  <2>2. LifeOf(c) = chk[c].life /\ LifeOf(c) \in Life
    BY <1>1, LifeIs
  <2>3. chk' = [chk EXCEPT ![c] = q]
    BY <1>5
  <2> HIDE DEF q
  <2> QED
    BY <1>1, <1>2, <1>5, <2>1, <2>2, <2>3, StaysShape DEF Locked, Holding, db, hist
<1> QED
  BY <1>1, <1>4, <1>5

\* The first answer becomes the baseline.
LEMMA RecordShape == ASSUME TypeInv, NEW c \in Slot, Record(c) PROVE Shape(c)
<1>1. /\ chk[c].pc = "record" /\ Leave(c)
      /\ UNCHANGED <<world, cfg, proc, saving, reload, sent, settled>>
  BY RecordIs
<1>2. misled \in Nat
  BY TypeParts DEF Books
<1>3. CASE Valid(c)
  <2>1. /\ mem' = Puts(mem, c, Baseline(mem[chk[c].life], chk[c].snap)) /\ Spends
        /\ misled' = IF mem[chk[c].life].init THEN misled + 1 ELSE misled
    BY <1>3, RecordIs DEF Puts
  <2>2. spent'.reload = spent.reload /\ (misled' = 0 => misled = 0)
    BY <1>2, <2>1, SpentIs
  <2> QED
    BY <1>1, <2>1, <2>2, LeaveShape
<1>4. CASE ~Valid(c)
  <2>1. UNCHANGED <<mem, row, spent, base, misled>>
    BY <1>4, RecordIs
  <2> QED
    BY <1>1, <2>1, LeaveShape
<1> QED
  BY <1>3, <1>4

\* An answer is discarded.
LEMMA DiscardShape == ASSUME TypeInv, NEW c \in Slot, Discard(c) PROVE Shape(c)
<1>1. chk[c].pc = "got" /\ Leave(c) /\ UNCHANGED <<world, db, proc, mem, saving, reload, hist, spent>>
  BY DEF Discard
<1> QED
  BY <1>1, LeaveShape DEF db, hist

\* An answer is used.
LEMMA ResumeShape == ASSUME TypeInv, NEW c \in Slot, Resume(c) PROVE Shape(c)
<1> DEFINE l == chk[c].life
           s == mem[l]
           a == chk[c].snap
           job == Job(c, s, a)
           t == Sync(s, a.st, a.n)
           m == [mem EXCEPT ![l] = t]
<1>1. chk[c].pc = "got" /\ UNCHANGED <<world, db, proc, reload, sent, settled, base, spent>>
  BY ResumeIs
<1>2. /\ chk[c] \in SlotRec /\ l \in Life /\ LifeOf(c) = l /\ RoomsOK(mem) /\ ~Locking(c)
      /\ misled \in Nat /\ mem \in [Life -> Room]
  BY <1>1, ResumeReady, LifeIs, LockingIs, TypeParts DEF Locked, Holding, RoomsOK, Books
<1>3. Only(mem, mem', LifeOf(c)) /\ Turns(c) /\ (misled' = 0 => misled = 0)
  <2>1. CASE job \in {"began", "ended", "prepared", "retry"} /\ Lock(mem, c, chk[c], job, FALSE)
    <3>1. job \in Jobs /\ Prepared(Given(chk[c], job))
      BY <1>1, JobIs, ResumeReady
    <3>2. Only(mem, mem, LifeOf(c))
      BY OnlySame
    <3> HIDE DEF job
    <3> QED
      BY <1>2, <2>1, <3>1, <3>2, LockShape
  <2>2. CASE /\ job = "retry" /\ ~Stale(c) /\ chk[c].kind = "live"
             /\ mem' = m /\ Leave(c) /\ UNCHANGED saving
             /\ misled' = misled + (IF Regresses(s, a) THEN 1 ELSE 0)
    <3>1. misled' = 0 => misled = 0
      BY <1>2, <2>2
    <3> HIDE DEF t, l
    <3>2. Only(mem, mem', l)
      BY <1>2, <2>2, OnlyPut
    <3> QED
      BY <1>2, <2>2, <3>1, <3>2 DEF Turns
  <2>3. CASE /\ job = "retry" /\ ~Stale(c) /\ chk[c].kind = "poll"
             /\ Lock(m, c, chk[c], "confirmed", Regresses(s, a))
    <3>1. "confirmed" \in Jobs /\ Prepared(Given(chk[c], "confirmed")) /\ RoomsOK(m)
      BY <1>1, <2>3, ResumeReady DEF Jobs
    <3> DEFINE wrong == Regresses(s, a)
    <3>2. Lock(m, c, chk[c], "confirmed", wrong) /\ wrong \in BOOLEAN
      BY <2>3 DEF Regresses
    <3> HIDE DEF wrong, t, l
    <3>3. Only(mem, m, l)
      BY <1>2, OnlyPut
    <3> HIDE DEF m
    <3> QED
      BY <1>2, <3>1, <3>2, <3>3, LockShape DEF l
  <2> QED
    BY <2>1, <2>2, <2>3, ResumeIs
<1> QED
  BY <1>1, <1>2, <1>3 DEF Shape, db

\* A handler that waited gets the lock.
LEMMA AcquireShape == ASSUME TypeInv, NEW c \in Slot, Acquire(c) PROVE Shape(c)
<1>1. /\ chk[c].pc = "lock" /\ chk[c].ahead = {} /\ Enter(mem, c, chk[c])
      /\ misled' = misled + (IF Misleads(mem, chk[c]) THEN 1 ELSE 0)
      /\ UNCHANGED <<world, db, proc, reload, sent, settled, base, spent>>
  BY DEF Acquire
<1>2. /\ chk[c] \in SlotRec /\ HandlerOK(chk[c], mem, streams) /\ RoomsOK(mem)
      /\ misled \in Nat /\ mem \in [Life -> Room]
  BY TypeParts DEF Slots, Books, RoomsOK
<1>3. Prepared(chk[c])
  BY <1>1, <1>2 DEF Prepared, HandlerOK
<1>4. Takes(mem, c, chk[c])
  BY <1>1, <1>2, <1>3, EnterIs
<1>5. LifeOf(c) = chk[c].life /\ LifeOf(c) \in Life
  BY <1>1, LifeIs
<1>6. Only(mem, mem', LifeOf(c)) /\ Turns(c)
  BY <1>1, <1>2, <1>3, <1>4, <1>5, TakesShape
<1>7. misled' = 0 => misled = 0
  BY <1>1, <1>2
<1> QED
  BY <1>1, <1>5, <1>6, <1>7 DEF Shape, db

\* A handler that starts on the state s of the life l; one that asks for an answer.
Started(kind, l, s) == [Idle EXCEPT !.kind = kind, !.life = l, !.epoch = s.epoch]
Asking(r, pc) == [r EXCEPT !.pc = pc]
\* The state whose first baseline is over.
Seen(s) == [s EXCEPT !.init = TRUE, !.ws = TRUE]

\* A handler that has just started.
LEMMA StartedIs ==
  ASSUME NEW kind \in {"poll", "live", "off", "round"}, NEW l \in Life, NEW s \in Room
  PROVE  LET r == Started(kind, l, s) IN
         /\ r \in SlotRec /\ r.kind = kind /\ r.life = l /\ r.snap = None /\ r.plan = <<>>
         /\ r.epoch = s.epoch /\ r.ahead = {}
<1>1. Idle \in SlotRec /\ s.epoch \in Nat /\ Idle.snap = None /\ Idle.plan = <<>> /\ Idle.ahead = {}
  BY IdleIs DEF Room, Idle
<1> DEFINE e == s.epoch
<1>2. e \in Nat
  BY <1>1
<1> HIDE DEF e
<1> DEFINE r == [Idle EXCEPT !.kind = kind, !.life = l, !.epoch = e]
<1>3. /\ r \in SlotRec /\ r.kind = kind /\ r.life = l /\ r.snap = None /\ r.plan = <<>>
      /\ r.epoch = e /\ r.ahead = {}
  <2> HIDE DEF Idle
  <2> QED
    BY <1>1, <1>2, ZenonT(30) DEF SlotRec
<1> QED
  BY <1>3 DEF Started, e

\* A handler that asks for an answer.
LEMMA AskingIs ==
  ASSUME NEW r \in SlotRec, NEW pc \in Pcs
  PROVE  LET q == Asking(r, pc) IN
         /\ q \in SlotRec /\ q.pc = pc /\ q.kind = r.kind /\ q.life = r.life
         /\ q.snap = r.snap /\ q.plan = r.plan /\ q.epoch = r.epoch /\ q.ahead = r.ahead
BY DEF SlotRec, Pcs, Asking

\* A room whose first baseline is over.
LEMMA SeenIs ==
  ASSUME NEW s \in Room
  PROVE  LET t == Seen(s) IN
         /\ t \in Room /\ t.prev = s.prev /\ t.start = s.start /\ t.room = s.room
         /\ t.last = s.last /\ t.epoch = s.epoch /\ t.pend = s.pend /\ t.init /\ t.ws
<1>1. LET t == Seen(s) IN
         /\ t \in Room /\ t.prev = s.prev /\ t.start = s.start /\ t.room = s.room
         /\ t.last = s.last /\ t.epoch = s.epoch /\ t.pend = s.pend /\ t.init = TRUE /\ t.ws = TRUE
  BY DEF Room, Seen
<1> QED
  BY <1>1

\* A check or a signal handler starts: it retries what a row restored, or asks.
LEMMA CheckStartIs ==
  ASSUME TypeInv, NEW c \in Slot, NEW kind, CheckStart(c, kind)
  PROVE  LET s == mem[cur]
             r == Started(kind, cur, s)
         IN
         /\ Active /\ chk[c].pc = "idle" /\ cur \in Life /\ s \in Room /\ r \in SlotRec
         /\ r.life = cur /\ r.snap = None /\ r.plan = <<>> /\ r.epoch = s.epoch /\ r.ahead = {}
         /\ IF ~s.init /\ Pends(s)
              THEN Lock([mem EXCEPT ![cur] = Seen(s)], c, r, "prepared", FALSE)
              ELSE /\ chk' = [chk EXCEPT ![c] = Asking(r, IF s.init THEN "fetch" ELSE "init")]
                   /\ UNCHANGED <<mem, saving, misled>>
         /\ Prepared(Given(r, "prepared")) /\ RoomsOK([mem EXCEPT ![cur] = Seen(s)])
         /\ UNCHANGED <<world, db, proc, reload, sent, settled, base, spent>>
<1> DEFINE s == mem[cur]
           r == Started(kind, cur, s)
<1>1. cur \in Life /\ s \in Room /\ LastKnown(s) /\ mem \in [Life -> Room] /\ RoomsOK(mem)
  BY TypeParts DEF CheckStart, Active, Kinds, RoomsOK
<1>2. kind \in {"poll", "live", "off", "round"}
  <2>1. air.st \in Status
    BY TypeParts DEF Air, Snapshot
  <2> QED
    BY <2>1 DEF CheckStart, Status
<1>3. /\ r \in SlotRec /\ r.life = cur /\ r.snap = None /\ r.plan = <<>> /\ r.epoch = s.epoch
      /\ r.ahead = {}
  BY <1>1, <1>2, StartedIs
<1>4. [mem EXCEPT ![cur].init = TRUE, ![cur].ws = TRUE] = [mem EXCEPT ![cur] = Seen(s)]
  BY <1>1 DEF Seen
<1>5. Prepared(Given(r, "prepared"))
  <2>1. "prepared" \in Jobs
    BY DEF Jobs
  <2> HIDE DEF r
  <2>2. Given(r, "prepared").snap = None /\ Given(r, "prepared").job = "prepared"
    BY <1>3, <2>1, GivenIs
  <2> QED
    BY <2>2 DEF Prepared, SnapOK
<1>6. RoomsOK([mem EXCEPT ![cur] = Seen(s)])
  <2> DEFINE t == Seen(s)
  <2>1. RoomOK(t) /\ t.last = s.last
    BY <1>1, SeenIs DEF RoomOK, LastKnown
  <2> HIDE DEF t
  <2> QED
    BY <1>1, <2>1, PutType DEF t
<1>7. /\ Active /\ chk[c].pc = "idle"
      /\ IF ~s.init /\ Pends(s)
           THEN Lock([mem EXCEPT ![cur].init = TRUE, ![cur].ws = TRUE], c, r, "prepared", FALSE)
           ELSE /\ chk' = [chk EXCEPT ![c] = Asking(r, IF s.init THEN "fetch" ELSE "init")]
                /\ UNCHANGED <<mem, saving, misled>>
      /\ UNCHANGED <<world, db, proc, reload, sent, settled, base, spent>>
  BY DEF CheckStart, Started, Asking
<1> QED
  BY <1>1, <1>3, <1>4, <1>5, <1>6, <1>7

\* A check or a signal handler starts.
LEMMA CheckStartShape ==
  ASSUME TypeInv, NEW c \in Slot, NEW kind, CheckStart(c, kind)
  PROVE  Shape(c)
<1> DEFINE s == mem[cur]
           r == Started(kind, cur, s)
           t == Seen(s)
           m == [mem EXCEPT ![cur] = t]
<1>1. /\ chk[c].pc = "idle" /\ cur \in Life /\ r \in SlotRec
      /\ r.life = cur /\ r.ahead = {}
      /\ \/ Lock(m, c, r, "prepared", FALSE)
         \/ /\ chk' = [chk EXCEPT ![c] = Asking(r, IF s.init THEN "fetch" ELSE "init")]
            /\ UNCHANGED <<mem, saving, misled>>
      /\ Prepared(Given(r, "prepared")) /\ RoomsOK(m)
      /\ UNCHANGED <<world, db, proc, reload, sent, settled, base, spent>>
  BY CheckStartIs
<1>2. LifeOf(c) = cur /\ ~Locking(c) /\ chk[c].pc \notin Locked /\ mem \in [Life -> Room]
  BY <1>1, LockingIs, TypeParts DEF LifeOf, Locked, Holding, RoomsOK
<1>3. CASE Lock(m, c, r, "prepared", FALSE)
  <2>1. Only(mem, m, cur)
    <3> HIDE DEF t
    <3> QED
      BY <1>1, <1>2, OnlyPut
  <2>2. "prepared" \in Jobs
    BY DEF Jobs
  <2> HIDE DEF m, r
  <2>3. Only(mem, mem', LifeOf(c)) /\ Turns(c) /\ (misled' = 0 => misled = 0)
    BY <1>1, <1>2, <1>3, <2>1, <2>2, LockShape
  <2> QED
    BY <1>1, <1>2, <2>3 DEF Shape, db
<1>4. CASE /\ chk' = [chk EXCEPT ![c] = Asking(r, IF s.init THEN "fetch" ELSE "init")]
           /\ UNCHANGED <<mem, saving, misled>>
  <2> DEFINE pc == IF s.init THEN "fetch" ELSE "init"
             q == Asking(r, pc)
  <2>1. pc \in Pcs /\ pc \in {"fetch", "init"}
    BY DEF Pcs
  <2>2. chk' = [chk EXCEPT ![c] = q]
    BY <1>4
  <2> HIDE DEF pc, r
  <2>3. q \in SlotRec /\ q.pc = pc /\ q.life = cur /\ q.ahead = {}
    BY <1>1, <2>1, AskingIs
  <2> HIDE DEF q
  <2> QED
    BY <1>1, <1>2, <1>4, <2>1, <2>2, <2>3, StaysShape DEF Locked, Holding, db
<1> QED
  BY <1>1, <1>3, <1>4

\* An item is done without a push.
LEMMA DropShape ==
  ASSUME TypeInv, NEW c \in Slot, chk[c].pc = "next", Leave(c) \/ Drop(c)
  PROVE  Turns(c)
<1>1. /\ chk[c] \in SlotRec /\ chk[c].plan \in Plans /\ chk[c].plan # <<>>
      /\ LifeOf(c) = chk[c].life
  BY HolderIs, LifeIs DEF Holding
<1>2. CASE chk' = [chk EXCEPT ![c] = Dropped(chk[c])]
  <2> DEFINE q == Dropped(chk[c])
  <2>1. /\ q \in SlotRec /\ q.pc = chk[c].pc /\ q.life = chk[c].life /\ q.ahead = chk[c].ahead
        /\ q.job = chk[c].job
    BY <1>1, DroppedIs
  <2>2. chk' = [chk EXCEPT ![c] = q]
    BY <1>2
  <2> HIDE DEF q
  <2>3. Moves(c, q)
    BY <1>1, <2>1, <2>2 DEF Moves
  <2> QED
    BY <2>3 DEF Turns
<1> QED
  BY <1>2, DropIs DEF Turns

\* The row is written between two notices.
LEMMA StepSaveShape == ASSUME TypeInv, NEW c \in Slot, StepSave(c) PROVE Shape(c)
<1>1. /\ chk[c].pc = "next" /\ (Leave(c) \/ Drop(c)) /\ Spends
      /\ UNCHANGED <<world, cfg, proc, mem, saving, reload, hist>>
  BY StepSaveIs
<1>2. Turns(c) /\ LifeOf(c) \in Life /\ Only(mem, mem, LifeOf(c))
  BY <1>1, DropShape, LifeIs, OnlySame
<1> QED
  BY <1>1, <1>2, SpentIs DEF Shape, hist

\* A notice is skipped.
LEMMA StepSkipShape == ASSUME TypeInv, NEW c \in Slot, StepSkip(c) PROVE Shape(c)
<1> DEFINE t == Clear(mem[chk[c].life], "start")
<1>1. /\ chk[c].pc = "next" /\ Drop(c)
      /\ UNCHANGED mem \/ mem' = [mem EXCEPT ![chk[c].life] = t]
      /\ UNCHANGED <<world, db, proc, saving, reload, hist, spent>>
  BY StepSkipIs
<1>2. /\ Turns(c) /\ LifeOf(c) = chk[c].life /\ LifeOf(c) \in Life /\ mem \in [Life -> Room]
      /\ Only(mem, mem, LifeOf(c))
  BY <1>1, DropShape, LifeIs, OnlySame, TypeParts DEF RoomsOK
<1> HIDE DEF t
<1>3. Only(mem, mem', LifeOf(c))
  BY <1>1, <1>2, OnlyPut
<1> QED
  BY <1>1, <1>2, <1>3 DEF Shape, hist, db

\* A delivery is opened.
LEMMA StepOpenShape == ASSUME TypeInv, NEW c \in Slot, StepOpen(c) PROVE Shape(c)
<1>1. chk[c].pc \in Holding /\ UNCHANGED <<world, cfg, proc, saving, reload, hist>>
  BY OpenIs DEF StepOpen, Holding
<1>2. CASE Closes(c, mem[chk[c].life])
  BY <1>1, <1>2, ClosesShape
<1>3. ASSUME NEW left \in SUBSET Target, NEW q \in SlotRec, Opens(c, left, q) PROVE Shape(c)
  <2>1. /\ Follows(chk[c], q) /\ q.pc \in Holding /\ chk' = [chk EXCEPT ![c] = q]
        /\ \E t : mem' = Puts(mem, c, t)
        /\ UNCHANGED spent
    BY <1>3 DEF Opens, Holding
  <2> QED
    BY <1>1, <2>1, PushShape DEF hist
<1> QED
  BY <1>2, <1>3, OpenIs

\* A message is prepared.
LEMMA BuildShape == ASSUME TypeInv, NEW c \in Slot, Build(c) PROVE Shape(c)
<1>1. chk[c].pc \in Holding /\ UNCHANGED <<world, cfg, proc, saving, reload, hist>>
  BY BuildIs DEF Build, Holding
<1>2. PICK left \in SUBSET Target : Draws(c, left)
  BY BuildIs
<1>3. CASE \E b : Closes(c, b)
  BY <1>1, <1>3, ClosesShape
<1>4. CASE /\ \E t : mem' = Puts(mem, c, t)
           /\ chk' = [chk EXCEPT ![c] = Drawn(chk[c], left)] /\ UNCHANGED spent
  <2> DEFINE q == Drawn(chk[c], left)
  <2>1. Follows(chk[c], q) /\ q.pc = "send"
    BY <1>1, HolderIs, DrawnIs
  <2>2. chk' = [chk EXCEPT ![c] = q]
    BY <1>4
  <2> HIDE DEF q
  <2> QED
    BY <1>1, <1>4, <2>1, <2>2, PushShape DEF hist, Holding
<1> QED
  BY <1>2, <1>3, <1>4 DEF Draws

\* A target is passed over, or sent to.
LEMMA SendStepShape ==
  ASSUME TypeInv, NEW c \in Slot, NEW x \in Target, SendSkip(c, x) \/ SendStart(c, x)
  PROVE  Shape(c)
<1>1. /\ chk[c].pc \in Holding
      /\ chk' = [chk EXCEPT ![c] = Passed(chk[c], x)] \/ chk' = [chk EXCEPT ![c] = Flying(chk[c], x)]
      /\ UNCHANGED <<world, db, proc, mem, saving, reload, hist, spent>>
  BY SendSkipIs, SendStartIs DEF Holding
<1>2. PICK q \in {Passed(chk[c], x), Flying(chk[c], x)} : chk' = [chk EXCEPT ![c] = q]
  BY <1>1
<1>3. Follows(chk[c], q) /\ q.pc \in Holding
  BY <1>1, HolderIs, PassedIs, FlyingIs DEF Holding
<1> QED
  BY <1>1, <1>2, <1>3, PushShape DEF hist, db

\* The outcome of a send leaves the handler with the lock.
LEMMA SentMoves ==
  ASSUME TypeInv, NEW c \in Slot, chk[c].pc = "inflight", NEW again, Sent(c, again)
  PROVE  LET q == Outcome(chk[c], again) IN
         Follows(chk[c], q) /\ q.pc \in Holding /\ chk' = [chk EXCEPT ![c] = q]
<1>1. chk[c] \in SlotRec /\ chk[c].to \in Target
  BY HolderIs, StartKnown DEF Holding
<1> QED
  BY <1>1, OutcomeIs, SentIs DEF Holding

\* A send succeeds.
LEMMA SendOkShape == ASSUME TypeInv, NEW c \in Slot, SendOk(c) PROVE Shape(c)
<1>1. /\ chk[c].pc = "inflight" /\ \E t : mem' = Puts(mem, c, t)
      /\ Spends /\ UNCHANGED <<world, cfg, proc, saving, reload, base, misled>>
  BY SendOkIs
<1>2. PICK again \in BOOLEAN : Sent(c, again)
  BY SendOkIs
<1> DEFINE q == Outcome(chk[c], again)
<1>3. Follows(chk[c], q) /\ q.pc \in Holding /\ chk' = [chk EXCEPT ![c] = q]
  BY <1>1, <1>2, SentMoves
<1> HIDE DEF q
<1> QED
  BY <1>1, <1>3, PushShape, SpentIs DEF Holding

\* A send that fails, is refused for good, or loses its receipt.
LEMMA SendFailIs ==
  ASSUME TypeInv, NEW c \in Slot, SendFail(c) \/ SendReject(c) \/ SendLost(c)
  PROVE  /\ chk[c].pc = "inflight" /\ \E again \in BOOLEAN : Sent(c, again)
         /\ UNCHANGED <<world, db, proc, mem, saving, reload, base, misled>>
         /\ \/ UNCHANGED sent /\ spent' = [spent EXCEPT !.fail = @ + 1]
            \/ Push(c) /\ spent' = [spent EXCEPT !.fail = @ + 1, !.lost = @ + 1]
<1>1. CASE SendFail(c)
  BY <1>1 DEF SendFail, At, hist, Failing
<1>2. CASE SendReject(c)
  BY <1>2 DEF SendReject, At, Failing
<1>3. CASE SendLost(c)
  BY <1>3 DEF SendLost, At
<1> QED
  BY <1>1, <1>2, <1>3

\* The same has the shape of a step of the slot.
LEMMA SendFailShape ==
  ASSUME TypeInv, NEW c \in Slot, SendFail(c) \/ SendReject(c) \/ SendLost(c)
  PROVE  Shape(c)
<1>1. /\ chk[c].pc = "inflight"
      /\ UNCHANGED <<world, db, proc, mem, saving, reload, base, misled>>
      /\ \/ spent' = [spent EXCEPT !.fail = @ + 1]
         \/ spent' = [spent EXCEPT !.fail = @ + 1, !.lost = @ + 1]
  BY SendFailIs
<1>2. PICK again \in BOOLEAN : Sent(c, again)
  BY SendFailIs
<1> DEFINE q == Outcome(chk[c], again)
<1>3. Follows(chk[c], q) /\ q.pc \in Holding /\ chk' = [chk EXCEPT ![c] = q]
  BY <1>1, <1>2, SentMoves
<1> HIDE DEF q
<1>4. spent'.reload = spent.reload
  BY <1>1, SpentIs
<1> QED
  BY <1>1, <1>3, <1>4, PushShape DEF Holding, db

\* A delivery is over.
LEMMA CloseShape == ASSUME TypeInv, NEW c \in Slot, Close(c) PROVE Shape(c)
BY CloseIs, ClosesShape DEF Holding

\* A handler whose task is cancelled while its push is shielded.
Halted(r) == [r EXCEPT !.cut = TRUE]

\* A handler that is to end after its push.
LEMMA HaltedIs ==
  ASSUME NEW r \in SlotRec
  PROVE  LET q == Halted(r) IN
         /\ q \in SlotRec /\ q.pc = r.pc /\ q.kind = r.kind /\ q.life = r.life
         /\ q.epoch = r.epoch /\ q.snap = r.snap /\ q.ahead = r.ahead /\ q.job = r.job
         /\ q.plan = r.plan /\ q.before = r.before /\ q.about = r.about /\ q.queue = r.queue
         /\ q.done = r.done /\ q.failed = r.failed /\ q.to = r.to /\ q.cut
<1>1. TRUE \in BOOLEAN
  OBVIOUS
<1> DEFINE v == TRUE
<1>2. v \in BOOLEAN /\ v
  OBVIOUS
<1> HIDE DEF v
<1>3. LET q == [r EXCEPT !.cut = v] IN
         /\ q \in SlotRec /\ q.pc = r.pc /\ q.kind = r.kind /\ q.life = r.life
         /\ q.epoch = r.epoch /\ q.snap = r.snap /\ q.ahead = r.ahead /\ q.job = r.job
         /\ q.plan = r.plan /\ q.before = r.before /\ q.about = r.about /\ q.queue = r.queue
         /\ q.done = r.done /\ q.failed = r.failed /\ q.to = r.to /\ q.cut = v
  BY <1>2 DEF SlotRec
<1> QED
  BY <1>2, <1>3 DEF Halted, v

\* A handler is cancelled: at once, or after a push that is shielded.
LEMMA CancelIs ==
  ASSUME NEW c \in Slot, Cancel(c)
  PROVE  /\ chk[c].pc # "idle"
         /\ UNCHANGED <<world, db, proc, mem, saving, reload, settled, base, misled>>
         /\ (reload = "remove" /\ UNCHANGED spent) \/ spent' = [spent EXCEPT !.cut = @ + 1]
         /\ \/ /\ Locking(c) /\ chk[c].plan # <<>> /\ Item(c).caught
               /\ chk' = [chk EXCEPT ![c] = Halted(chk[c])] /\ UNCHANGED sent
            \/ Leave(c) /\ (UNCHANGED sent \/ (chk[c].pc = "inflight" /\ Push(c)))
<1>1. [chk EXCEPT ![c].cut = TRUE] = [chk EXCEPT ![c] = Halted(chk[c])]
  BY DEF Halted
<1> QED
  BY <1>1 DEF Cancel, At

\* The same has the shape of a step of the slot.
LEMMA CancelShape == ASSUME TypeInv, NEW c \in Slot, Cancel(c) PROVE Shape(c)
<1>1. /\ chk[c].pc # "idle"
      /\ UNCHANGED <<world, db, proc, mem, saving, reload, settled, base, misled>>
      /\ UNCHANGED spent \/ spent' = [spent EXCEPT !.cut = @ + 1]
      /\ Leave(c) \/ chk' = [chk EXCEPT ![c] = Halted(chk[c])]
  BY CancelIs
<1>2. LifeOf(c) = chk[c].life /\ LifeOf(c) \in Life /\ Only(mem, mem, LifeOf(c))
  BY <1>1, LifeIs, OnlySame
<1>3. Turns(c)
  <2>1. CASE chk' = [chk EXCEPT ![c] = Halted(chk[c])]
    <3> DEFINE q == Halted(chk[c])
    <3>1. chk[c] \in SlotRec
      BY DEF TypeInv, TypeOK
    <3>2. /\ q \in SlotRec /\ q.pc = chk[c].pc /\ q.life = chk[c].life /\ q.ahead = chk[c].ahead
          /\ q.job = chk[c].job
      BY <3>1, HaltedIs
    <3>3. chk' = [chk EXCEPT ![c] = q]
      BY <2>1
    <3> HIDE DEF q
    <3>4. Moves(c, q)
      BY <1>1, <1>2, <3>2, <3>3 DEF Moves
    <3> QED
      BY <3>4 DEF Turns
  <2> QED
    BY <1>1, <2>1 DEF Turns
<1> QED
  BY <1>1, <1>2, <1>3, SpentIs DEF Shape, db

\* Every step of a slot has its shape.
SlotStep(c) == \/ \E kind \in {"poll", "live", "off", "round"} : CheckStart(c, kind)
               \/ Handle(c)
               \/ AnswerFail(c) \/ SendFail(c) \/ SendReject(c) \/ SendLost(c) \/ Cancel(c)

\* Every action of a slot has the shape of a step of that slot.
LEMMA SlotShape == ASSUME TypeInv, NEW c \in Slot, SlotStep(c) PROVE Shape(c)
<1>1. CASE Deliver(c)
  BY <1>1, StepSaveShape, StepSkipShape, StepOpenShape, BuildShape, SendStepShape, SendOkShape,
     CloseShape DEF Deliver
<1>2. CASE Handle(c)
  BY <1>1, <1>2, AnswerShape, RecordShape, DiscardShape, ResumeShape, AcquireShape DEF Handle
<1> QED
  BY <1>2, CheckStartShape, AnswerFailShape, SendFailShape, CancelShape DEF SlotStep

\* What becomes of the slots in a step of slot c.
LEMMA TurnsIs ==
  ASSUME TypeInv, NEW c \in Slot, Turns(c)
  PROVE  /\ chk' \in [Slot -> SlotRec]
         /\ \A d \in Slot \ {c} : /\ chk'[d].pc = chk[d].pc /\ chk'[d].life = chk[d].life
                                  /\ chk'[d].job = chk[d].job
         /\ \/ Leave(c) /\ chk'[c] = Idle
               /\ \A d \in Slot \ {c} : chk'[d].ahead = chk[d].ahead \ {c}
            \/ Moves(c, chk'[c]) /\ \A d \in Slot \ {c} : chk'[d] = chk[d]
<1>1. chk \in [Slot -> SlotRec]
  BY DEF TypeInv, TypeOK
<1>2. CASE Leave(c)
  BY <1>1, <1>2, LeaveSteps, WithoutIs DEF Steps
<1>3. ASSUME NEW q, Moves(c, q) PROVE Moves(c, chk'[c]) /\ chk' \in [Slot -> SlotRec]
                                       /\ \A d \in Slot \ {c} : chk'[d] = chk[d]
  <2>1. q \in SlotRec /\ chk' = [chk EXCEPT ![c] = q]
    BY <1>3 DEF Moves
  <2>2. chk'[c] = q
    BY <1>1, <2>1
  <2> QED
    BY <1>1, <1>3, <2>1, <2>2
<1> QED
  BY <1>1, <1>2, <1>3 DEF Turns

\* A step of a slot keeps the lock.
LEMMA TurnsLock == ASSUME TypeInv, LockInv, NEW c \in Slot, Turns(c) PROVE LockInv'
<1> DEFINE Lk(r) == r.pc \in Locked
<1>1. /\ \A x, d \in Slot : x \in chk[d].ahead => Lk(chk[x]) /\ Lk(chk[d]) /\ x # d
      /\ \A x, d \in Slot : x # d /\ Lk(chk[x]) /\ Lk(chk[d]) =>
           x \in chk[d].ahead \/ d \in chk[x].ahead
      /\ \A d \in Slot : chk[d].pc \in Holding => chk[d].ahead = {}
  BY LockingIs DEF LockInv
<1>2. (\A x \in Slot : Locking(x) <=> chk[x].pc \in Locked)'
  BY DEF Locking, Locked, Holding
<1>3. /\ chk' \in [Slot -> SlotRec] /\ chk \in [Slot -> SlotRec]
      /\ \A d \in Slot \ {c} : chk'[d].pc = chk[d].pc
  BY TurnsIs DEF TypeInv, TypeOK
<1>4. \A d \in Slot : chk[d].ahead \subseteq Slot /\ chk'[d].ahead \subseteq Slot
  BY <1>3 DEF SlotRec
<1>5. /\ \A x, d \in Slot : x \in chk'[d].ahead => Lk(chk'[x]) /\ Lk(chk'[d]) /\ x # d
      /\ \A x, d \in Slot : x # d /\ Lk(chk'[x]) /\ Lk(chk'[d]) =>
           x \in chk'[d].ahead \/ d \in chk'[x].ahead
      /\ \A d \in Slot : chk'[d].pc \in Holding => chk'[d].ahead = {}
  <2>1. CASE chk'[c] = Idle /\ \A d \in Slot \ {c} : chk'[d].ahead = chk[d].ahead \ {c}
    <3>1. Idle.ahead = {} /\ ~Lk(Idle) /\ Idle.pc \notin Holding
      BY IdleIs DEF Locked, Holding
    <3> HIDE DEF Lk, Idle
    <3>2. \A d \in Slot \ {c} : Lk(chk'[d]) <=> Lk(chk[d])
      BY <1>3 DEF Lk
    <3> QED
      BY <1>1, <1>3, <2>1, <3>1, <3>2
  <2>2. CASE Moves(c, chk'[c]) /\ \A d \in Slot \ {c} : chk'[d] = chk[d]
    <3> DEFINE q == chk'[c]
    <3>1. \/ /\ q.ahead \in {{}, chk[c].ahead} /\ ~Lk(q) /\ ~Lk(chk[c])
          \/ q.ahead = chk[c].ahead /\ (q.pc = chk[c].pc \/ (q.pc \in Holding /\ chk[c].pc \in Holding))
          \/ q.pc \in Holding /\ q.ahead = {} /\ \A d \in Slot : ~Lk(chk[d])
          \/ q.pc \in Holding /\ q.ahead = {} /\ chk[c].pc = "lock" /\ chk[c].ahead = {}
          \/ q.pc = "lock" /\ ~Lk(chk[c]) /\ q.ahead = {d \in Slot : Lk(chk[d])}
      BY <2>2, LockingIs DEF Moves
    <3>2. \A pc \in Holding : pc \in Locked
      BY DEF Locked
    <3>3. "lock" \in Locked /\ "lock" \notin Holding
      BY DEF Locked, Holding
    <3>4. chk[c].ahead # {} => Lk(chk[c])
      BY <1>1, <1>4
    <3> HIDE DEF Holding, Locked
    <3>5. CASE q.ahead \in {{}, chk[c].ahead} /\ ~Lk(q) /\ ~Lk(chk[c])
      BY <1>1, <1>3, <1>4, <2>2, <3>2, <3>4, <3>5
    <3>6. CASE q.ahead = chk[c].ahead /\ (q.pc = chk[c].pc \/ (q.pc \in Holding /\ chk[c].pc \in Holding))
      BY <1>1, <1>3, <1>4, <2>2, <3>2, <3>6
    <3>7. CASE q.pc \in Holding /\ q.ahead = {} /\ \A d \in Slot : ~Lk(chk[d])
      BY <1>1, <1>3, <1>4, <2>2, <3>2, <3>7
    <3>8. CASE q.pc \in Holding /\ q.ahead = {} /\ chk[c].pc = "lock" /\ chk[c].ahead = {}
      BY <1>1, <1>3, <1>4, <2>2, <3>2, <3>3, <3>8
    <3>9. CASE q.pc = "lock" /\ ~Lk(chk[c]) /\ q.ahead = {d \in Slot : Lk(chk[d])}
      BY <1>1, <1>3, <1>4, <2>2, <3>3, <3>9
    <3> QED
      BY <3>1, <3>5, <3>6, <3>7, <3>8, <3>9
  <2> QED
    BY <2>1, <2>2, TurnsIs
<1> QED
  BY <1>2, <1>5 DEF LockInv

\* A step of a slot leaves the world in order.
LEMMA ShapeWorld ==
  ASSUME TypeInv, DownInv, WorldInv, NEW c \in Slot, Shape(c)
  PROVE  WorldInv'
<1>1. /\ UNCHANGED <<cfg, up, targets, cur, reload>> /\ spent'.reload = spent.reload
      /\ Turns(c) /\ LifeOf(c) \in Life /\ \A j \in Life \ {LifeOf(c)} : mem'[j] = mem[j]
  BY DEF Shape, proc, Only
<1>2. \A l : Unused(l) <=> Unused(l)'
  BY <1>1 DEF Unused
<1>3. ~Unused(LifeOf(c))
  <2>1. LifeOf(c) # None
    BY <1>1, NoneAssumption
  <2> QED
    BY <2>1 DEF LifeOf, WorldInv
<1>4. up
  <2>1. SUFFICES ASSUME ~up PROVE FALSE
    OBVIOUS
  <2>2. chk[c].pc = "idle" /\ cur = None
    BY <2>1, IdleIs DEF DownInv
  <2> QED
    BY <1>1, <2>2, NoneAssumption DEF LifeOf
<1>5. \A l \in Life : Unused(l) => mem'[l] = Fresh
  BY <1>1, <1>3 DEF WorldInv
<1>6. \A d \in Slot : chk'[d].pc # "idle" => ~Unused(chk'[d].life)
  <2>1. \A d \in Slot \ {c} : chk'[d].pc # "idle" => ~Unused(chk'[d].life)
    BY <1>1, TurnsIs DEF WorldInv
  <2>2. chk'[c].pc # "idle" => chk'[c].life = LifeOf(c)
    <3>1. Idle.pc = "idle"
      BY IdleIs
    <3> QED
      BY <1>1, <3>1, TurnsIs DEF Moves
  <2> QED
    BY <1>3, <2>1, <2>2
<1> QED
  BY <1>1, <1>2, <1>4, <1>5, <1>6 DEF WorldInv

\* What a step of the world or the write that was spawned leaves alone.
Outside == GoLive \/ GoOff \/ GoRound \/ BackgroundSave

\* A change of the configuration, step by step.
Reloads == \/ \E new \in SUBSET Target : ReloadStart(new)
           \/ ReloadApply \/ ReloadRemove \/ ReloadDelete \/ ReloadReadd

\* The broadcasts and the spawned write move nothing else.
LEMMA OutsideIs ==
  ASSUME TypeInv, Outside
  PROVE  UNCHANGED <<cfg, proc, mem, chk, reload>> /\ spent'.reload = spent.reload
<1>1. spent \in [round: Nat, reload: Nat, crash: Nat, cut: Nat, fail: Nat, lost: Nat, db: Nat]
  BY DEF TypeInv, TypeOK
<1>2. CASE GoLive \/ GoOff
  BY <1>2 DEF GoLive, GoOff, db
<1>3. CASE GoRound
  BY <1>1, <1>3 DEF GoRound, db
<1>4. CASE BackgroundSave
  <2>1. Spends
    BY <1>4, SavedIs DEF BackgroundSave
  <2> QED
    BY <1>4, <2>1, SpentIs DEF BackgroundSave
<1> QED
  BY <1>2, <1>3, <1>4 DEF Outside

\* A step that leaves memory, slots and process alone.
LEMMA StillWorld ==
  ASSUME WorldInv, UNCHANGED <<proc, mem, chk, reload>>, spent'.reload = spent.reload
  PROVE  WorldInv'
BY DEF WorldInv, proc, Unused

\* A configuration change leaves the world in order.
LEMMA ReloadWorld == ASSUME TypeInv, WorldInv, Reloads PROVE WorldInv'
<1>1. UNCHANGED <<up, mem, chk>>
  BY DEF Reloads, ReloadStart, ReloadApply, ReloadRemove, ReloadDelete, ReloadReadd, proc
<1>2. /\ spent \in [round: Nat, reload: Nat, crash: Nat, cut: Nat, fail: Nat, lost: Nat, db: Nat]
      /\ MaxReload \in Nat /\ cur \in Life \cup {None} /\ \A d \in Slot : chk[d].life \in Life
  BY ParamAssumption DEF TypeInv, TypeOK, SlotRec
<1>3. spent.reload \in Nat /\ Life \subseteq Nat
  BY <1>2 DEF Life
<1>4. CASE \E new \in SUBSET Target : ReloadStart(new)
  <2>1. /\ up /\ reload = "idle" /\ reload' = "apply" /\ spent'.reload = spent.reload + 1
        /\ UNCHANGED <<targets, cur>>
    BY <1>2, <1>4 DEF ReloadStart, proc
  <2>2. \A l \in Life : Unused(l)' => Unused(l)
    BY <1>3, <2>1 DEF Unused
  <2>3. \A l \in Life : ~Unused(l) => ~Unused(l)'
    BY <2>2
  <2> QED
    BY <1>1, <1>2, <2>1, <2>2 DEF WorldInv
<1>5. CASE ReloadApply
  <2>1. /\ reload = "apply" /\ targets' = cfg
        /\ reload' = (IF cfg = {} THEN "remove" ELSE IF targets = {} THEN "readd" ELSE "idle")
        /\ UNCHANGED <<cur, spent>>
    BY <1>5 DEF ReloadApply
  <2>2. \A l \in Life : Unused(l)' => Unused(l)
    BY <2>1 DEF Unused
  <2> QED
    BY <1>1, <1>2, <2>1, <2>2 DEF WorldInv
<1>6. CASE ReloadRemove
  <2>1. /\ reload = "remove" /\ cur' = None /\ reload' = "delete" /\ UNCHANGED <<targets, spent>>
    BY <1>6 DEF ReloadRemove
  <2>2. \A l \in Life : Unused(l)' => Unused(l)
    BY <2>1 DEF Unused
  <2> QED
    BY <1>1, <1>2, <2>1, <2>2 DEF WorldInv
<1>7. CASE ReloadDelete
  <2>1. /\ reload = "delete" /\ reload' = "idle" /\ UNCHANGED <<targets, cur>>
        /\ spent'.reload = spent.reload
    BY <1>2, <1>7 DEF ReloadDelete, DeleteRow, proc
  <2>2. \A l \in Life : Unused(l)' => Unused(l)
    BY <2>1 DEF Unused
  <2> QED
    BY <1>1, <1>2, <2>1, <2>2 DEF WorldInv
<1>8. CASE ReloadReadd
  <2>1. /\ reload = "readd" /\ reload' = "idle" /\ UNCHANGED targets /\ cur' = spent.reload
        /\ spent'.reload = spent.reload
    BY <1>2, <1>8 DEF ReloadReadd, DeleteRow
  <2>2. \A l \in Life : Unused(l)' => Unused(l)
    BY <2>1 DEF Unused
  <2>3. ~Unused(cur)'
    BY <1>3, <2>1 DEF Unused
  <2>4. up /\ targets # {}
    BY <2>1 DEF WorldInv
  <2> QED
    BY <1>1, <1>2, <2>1, <2>2, <2>3, <2>4 DEF WorldInv
<1> QED
  BY <1>4, <1>5, <1>6, <1>7, <1>8 DEF Reloads

\* So does a crash.
LEMMA CrashWorld == ASSUME TypeInv, Crash PROVE WorldInv'
<1>1. /\ up' = FALSE /\ targets' = {} /\ cur' = None /\ mem' = [l \in Life |-> Fresh]
      /\ chk' = [c \in Slot |-> Idle] /\ reload' = "idle"
  BY DEF Crash
<1>2. Idle.pc = "idle"
  BY IdleIs
<1>3. (\A l \in Life : mem[l] = Fresh)' /\ (\A c \in Slot : chk[c].pc = "idle")'
  BY <1>1, <1>2
<1> QED
  BY <1>1, <1>3 DEF WorldInv

\* So does a restart.
LEMMA RestartWorld == ASSUME TypeInv, DownInv, WorldInv, Restart PROVE WorldInv'
<1>1. /\ ~up /\ up' = TRUE /\ targets' = cfg /\ UNCHANGED <<chk, reload, spent>>
      /\ cur' = (IF cfg = {} THEN None ELSE 0) /\ \E t : mem' = [mem EXCEPT ![0] = t]
  BY DEF Restart
<1>2. /\ reload = "idle" /\ (\A c \in Slot : chk[c].pc = "idle") /\ (\A l \in Life : mem[l] = Fresh)
      /\ mem \in [Life -> Room] /\ spent.reload \in Nat
  BY <1>1, IdleIs DEF DownInv, WorldInv, TypeInv, TypeOK
<1>3. ~Unused(0)'
  BY <1>1, <1>2 DEF Unused
<1>4. \A l \in Life \ {0} : mem'[l] = Fresh
  BY <1>1, <1>2
<1> QED
  BY <1>1, <1>2, <1>3, <1>4 DEF WorldInv

\* World and lock stay in order.
LEMMA WorldKept ==
  ASSUME TypeInv, DownInv, WorldInv, LockInv, [Next]_vars
  PROVE  WorldInv' /\ LockInv'
<1>1. UNCHANGED chk => LockInv'
  BY DEF LockInv, Locking
<1>2. CASE UNCHANGED vars
  BY <1>1, <1>2, StillWorld DEF vars
<1>3. CASE Outside
  BY <1>1, <1>3, OutsideIs, StillWorld
<1>4. CASE Reloads
  <2>1. UNCHANGED chk
    BY <1>4 DEF Reloads, ReloadStart, ReloadApply, ReloadRemove, ReloadDelete, ReloadReadd
  <2> QED
    BY <1>1, <1>4, <2>1, ReloadWorld
<1>5. CASE Crash
  <2>1. chk' = [c \in Slot |-> Idle]
    BY <1>5 DEF Crash
  <2>2. Idle.ahead = {} /\ Idle.pc = "idle"
    BY IdleIs
  <2>3. \A c \in Slot : chk'[c].ahead = {} /\ chk'[c].pc = "idle"
    BY <2>1, <2>2
  <2>4. LockInv'
    BY <2>3 DEF LockInv, Locking, Holding
  <2> QED
    BY <1>5, <2>4, CrashWorld
<1>6. CASE Restart
  <2>1. UNCHANGED chk
    BY <1>6 DEF Restart
  <2> QED
    BY <1>1, <1>6, <2>1, RestartWorld
<1>7. ASSUME NEW c \in Slot, SlotStep(c) PROVE WorldInv' /\ LockInv'
  BY <1>7, SlotShape, ShapeWorld, TurnsLock DEF Shape
<1>8. Next => \/ Outside \/ Reloads \/ Crash \/ Restart \/ \E c \in Slot : SlotStep(c)
  BY DEF Next, Outside, Reloads, SlotStep
<1> QED
  BY <1>2, <1>3, <1>4, <1>5, <1>6, <1>7, <1>8

-----------------------------------------------------------------------------
(* What a state of the room promises                                         *)

\* What P, H and T are: the past is closed downwards, who had a notice was told.
Facts(P, H, T, n) ==
  /\ n \in Stream /\ P \subseteq Stream
  /\ \A h \in P, b \in Stream : b <= h => b \in P
  /\ \A k \in Kind : T[k] \subseteq Stream
  /\ \A k \in Kind, b \in Stream : H[k][b] \subseteq Target /\ (H[k][b] # {} => b \in T[k])

\* The past, and what was told, are what the lemmas on rooms ask for.
LEMMA FactsIs == ASSUME TypeInv PROVE Facts(Past, Had, Told, streams) /\ 0 \in Past
<1>1. /\ streams \in Stream /\ SnapOK(air, streams) /\ (air.st = "live" => air.n = streams)
      /\ air \in Snapshot
  BY TypeParts DEF Air
<1>2. Stream \subseteq Nat /\ 0 \in Stream
  BY ParamAssumption DEF Stream
<1>3. Past \subseteq Stream /\ \A h \in Past, b \in Stream : b <= h => b \in Past
  <2>1. SUFFICES ASSUME NEW h \in Past, NEW b \in Stream, b <= h PROVE b \in Past
    BY DEF Past
  <2>2. h \in Stream /\ h <= streams /\ (air.st = "live" => air.n # h)
    BY DEF Past
  <2>3. air.st = "live" => h < streams
    BY <1>1, <1>2, <2>2
  <2>4. b <= streams /\ (air.st = "live" => b # air.n)
    BY <1>1, <1>2, <2>1, <2>2, <2>3
  <2> QED
    BY <2>4 DEF Past
<1>4. 0 \in Past
  <2>1. air.st = "live" => air.n # 0
    BY <1>1, NoneAssumption DEF SnapOK
  <2> QED
    BY <1>1, <1>2, <2>1 DEF Past
<1>5. \A k \in Kind : Told[k] \subseteq Stream
  BY DEF Told
<1>6. \A k \in Kind, b \in Stream : Had[k][b] \subseteq Target /\ (Had[k][b] # {} => b \in Told[k])
  BY DEF Told, Had
<1> QED
  BY <1>1, <1>3, <1>4, <1>5, <1>6 DEF Facts

\* The latest broadcast of a state is one of the two that it records.
LEMMA HiIs ==
  ASSUME NEW s, s.start \in Nat, s.last \in Nat
  PROVE  Hi(s) \in Nat /\ s.start <= Hi(s) /\ s.last <= Hi(s) /\ Hi(s) \in {s.start, s.last}
BY DEF Hi

\* The latest broadcast depends on the two that are recorded.
LEMMA HiSame ==
  ASSUME NEW s, NEW t, t.start = s.start, t.last = s.last PROVE Hi(t) = Hi(s)
BY DEF Hi

\* Less is known, or told.
Fewer(H, T, H2, T2) == \A k \in Kind : /\ T2[k] \subseteq T[k]
                                       /\ \A b \in Stream : H2[k][b] \subseteq H[k][b]

\* A state stays sound when broadcasts begin and end.
LEMMA StateMono ==
  ASSUME NEW w, w.start \in Stream, w.last \in Stream, NEW P, NEW n \in Stream, StateOK(w, P, n),
         NEW P2, P \subseteq P2, NEW n2 \in Stream, n <= n2
  PROVE  StateOK(w, P2, n2)
<1>1. w.start \in Nat /\ w.last \in Nat /\ n \in Nat /\ n2 \in Nat
  BY DEF Stream
<1>2. w.start <= n /\ w.last <= n
  BY DEF StateOK
<1>3. w.start <= n2 /\ w.last <= n2
  BY <1>1, <1>2
<1>4. w.prev # "live" => Hi(w) \in P2
  BY DEF StateOK
<1> QED
  BY <1>3, <1>4, Zenon DEF StateOK

\* What holds of a room goes on to hold when broadcasts end and less is told.
LEMMA RoomMono ==
  ASSUME NEW s \in Room, NEW P, NEW H, NEW T, NEW n \in Stream, RoomInv(s, P, H, T, n),
         NEW P2, P \subseteq P2, NEW H2, NEW T2, Fewer(H, T, H2, T2), NEW n2 \in Stream, n <= n2
  PROVE  RoomInv(s, P2, H2, T2, n2)
<1>1. Stream \subseteq Nat /\ s.start \in Stream /\ s.last \in Stream
  BY DEF Stream, Room
<1>2. StateOK(s, P2, n2)
  BY <1>1, StateMono DEF RoomInv
<1>3. PendTold(s, H2, T2)
  <2>1. ASSUME NEW k \in Kind, s.pend[k].dlv # None
        PROVE  H2[k][s.pend[k].dlv.about] \subseteq s.pend[k].dlv.done
    <3>1. s.pend[k].dlv.about \in Stream
      BY <2>1, PendIs DEF Pending, Message
    <3> QED
      BY <2>1, <3>1 DEF RoomInv, PendTold, Fewer
  <2> QED
    BY <2>1 DEF RoomInv, PendTold, Fewer, Kind
<1>4. Known(s, P2, T2)
  <2>1. T2["start"] \subseteq T["start"] /\ T2["end"] \subseteq T["end"]
    BY DEF Fewer, Kind
  <2>2. Known(s, P, T)
    BY DEF RoomInv
  <2> QED
    BY <2>1, <2>2 DEF Known
<1> QED
  BY <1>2, <1>3, <1>4 DEF RoomInv

\* The same of a handler.
LEMMA CheckMono ==
  ASSUME NEW r, NEW s, NEW P, NEW T, CheckInv(r, s, P, T), NEW P2, P \subseteq P2,
         NEW H, NEW H2, NEW T2, Fewer(H, T, H2, T2)
  PROVE  CheckInv(r, s, P2, T2)
BY DEF CheckInv, Fewer, Beyond, Kind

\* The states agree in what a handler has observed.
Alike(s, t) == /\ t.prev = s.prev /\ t.start = s.start /\ t.last = s.last /\ t.room = s.room
               /\ t.epoch = s.epoch /\ t.init = s.init

\* What a handler observed holds in states that agree on it.
LEMMA CheckAlike ==
  ASSUME NEW r, NEW s, NEW t, Alike(s, t), NEW P, NEW T, CheckInv(r, s, P, T)
  PROVE  CheckInv(r, t, P, T)
BY DEF CheckInv, Alike, Beyond, Hi

\* Pending notices that change without one coming on.
LEMMA EasedAlike == ASSUME NEW s, NEW t, NEW K, Eased(s, t, K) PROVE Alike(s, t)
BY DEF Eased, Alike

\* One that comes on was on.
LEMMA EasedOn ==
  ASSUME NEW s, NEW t, NEW K, Eased(s, t, K), \A k \in K : s.pend[k].on
  PROVE  Eased(s, t, {})
BY DEF Eased

\* Pending notices that are dropped or prepared leave the room sound.
LEMMA RoomEased ==
  ASSUME NEW s \in Room, NEW t, Eased(s, t, {}), NEW P, NEW H, NEW T, NEW n, RoomInv(s, P, H, T, n)
  PROVE  RoomInv(t, P, H, T, n)
<1>1. /\ t \in Room /\ t.prev = s.prev /\ t.start = s.start /\ t.last = s.last /\ t.room = s.room
      /\ t.init = s.init /\ Hi(t) = Hi(s)
  BY DEF Eased, Hi
<1>2. ASSUME NEW k \in Kind
      PROVE  /\ ~t.pend[k].on => t.pend[k] = Nothing
             /\ t.pend[k].on => s.pend[k].on
             /\ t.pend[k].on /\ t.pend[k].dlv = None => s.pend[k].dlv = None
             /\ t.pend[k].dlv # None => /\ s.pend[k].dlv # None
                                        /\ t.pend[k].dlv.about = s.pend[k].dlv.about
                                        /\ t.pend[k].dlv.done = s.pend[k].dlv.done
             /\ s.pend[k] = Nothing => t.pend[k] = Nothing
  <2> DEFINE p == s.pend[k]
             q == t.pend[k]
  <2>1. /\ q # p => q = Nothing \/ q.on
        /\ q # Nothing => /\ q.dlv = None <=> p.dlv = None
                          /\ q.dlv # None => q.dlv.about = p.dlv.about /\ q.dlv.done = p.dlv.done
        /\ q.on => p.on
    BY DEF Eased, Kept
  <2>2. ~p.on => p = Nothing
    BY DEF RoomInv, StateOK
  <2>3. Nothing.dlv = None /\ ~Nothing.on
    BY NothingIs
  <2> HIDE DEF p, q
  <2>4. /\ ~q.on => q = Nothing
        /\ q.on => p.on
        /\ q.on /\ q.dlv = None => p.dlv = None
        /\ q.dlv # None => p.dlv # None /\ q.dlv.about = p.dlv.about /\ q.dlv.done = p.dlv.done
        /\ p = Nothing => q = Nothing
    BY <2>1, <2>2, <2>3
  <2> QED
    BY <2>4 DEF p, q
<1>3. StateOK(t, P, n)
  <2>1. s.prev = "live" => t.pend["end"] = Nothing
    BY <1>2 DEF RoomInv, StateOK, Kind
  <2>2. t.pend["start"].on => s.start <= s.last
    BY <1>2 DEF RoomInv, StateOK, Kind
  <2>3. \A k \in Kind : /\ ~t.pend[k].on => t.pend[k] = Nothing
                        /\ t.pend[k].dlv # None => t.pend[k].dlv.about <= Hi(t)
    BY <1>1, <1>2 DEF RoomInv, StateOK
  <2> QED
    BY <1>1, <2>1, <2>2, <2>3 DEF RoomInv, StateOK
<1>4. PendTold(t, H, T)
  <2>1. \A k \in Kind : t.pend[k].dlv # None =>
          H[k][t.pend[k].dlv.about] \subseteq t.pend[k].dlv.done
    BY <1>2 DEF RoomInv, PendTold
  <2>2. t.pend["start"].on /\ t.pend["start"].dlv = None => \A b \in T["start"] : b < t.start
    BY <1>1, <1>2 DEF RoomInv, PendTold, Kind
  <2>3. t.pend["end"].on /\ t.pend["end"].dlv = None => \A b \in T["end"] : b < Hi(t)
    BY <1>1, <1>2 DEF RoomInv, PendTold, Kind
  <2> QED
    BY <2>1, <2>2, <2>3 DEF PendTold
<1>5. Known(t, P, T)
  <2>1. Aware(t) => Aware(s)
    BY <1>1, <1>2 DEF Pends, Aware
  <2> QED
    BY <1>1, <2>1 DEF RoomInv, Known
<1> QED
  BY <1>1, <1>3, <1>4, <1>5 DEF RoomInv

\* A broadcast began that is later than all that is known and told.
LEMMA RoomBegan ==
  ASSUME NEW P, NEW H, NEW T, NEW n, Facts(P, H, T, n),
         NEW s \in Room, RoomInv(s, P, H, T, n), NEW b \in Stream, b <= n,
         s.prev # "live", Hi(s) < b, Beyond(b, s, T)
  PROVE  LET t == BeganState(s, b) IN
         /\ RoomInv(t, P, H, T, n)
         /\ \A r \in SlotRec : s.init /\ CheckInv(r, s, P, T) => CheckInv(r, t, P, T)
<1> DEFINE t == BeganState(s, b)
<1>1. /\ t \in Room /\ t.prev = "live" /\ t.start = b /\ t.last = b /\ t.room = b
      /\ t.init = s.init /\ t.epoch = s.epoch + 1
      /\ t.pend["end"] = Nothing /\ t.pend["start"].on /\ t.pend["start"].dlv = s.pend["start"].dlv
  BY BeganIs
<1>2. /\ Stream \subseteq Nat /\ n \in Stream /\ s.start \in Stream /\ s.last \in Stream
      /\ s.epoch \in Nat
  BY DEF Stream, Room, Facts
<1> HIDE DEF t
<1>3. Hi(t) = b /\ Hi(s) \in Nat
  BY <1>1, <1>2 DEF Hi
<1>4. \A k \in Kind : \A x \in T[k] : x < b
  BY <1>2, <1>3 DEF Beyond, Facts
<1>5. Nothing.dlv = None /\ ~Nothing.on
  BY NothingIs
<1>6. StateOK(t, P, n)
  <2>1. t.pend["start"].dlv # None => t.pend["start"].dlv.about <= Hi(t)
    <3> DEFINE x == s.pend["start"].dlv.about
    <3>1. s.pend["start"].dlv # None => x <= Hi(s) /\ x \in Nat
      BY <1>2, PendIs DEF RoomInv, StateOK, Kind, Pending, Message
    <3> HIDE DEF x
    <3>2. s.pend["start"].dlv # None => x <= b
      BY <1>2, <1>3, <3>1
    <3> QED
      BY <1>1, <1>3, <3>2 DEF x
  <2> QED
    BY <1>1, <1>2, <1>5, <2>1 DEF StateOK, Kind
<1>7. PendTold(t, H, T)
  <2>1. t.pend["start"].dlv # None =>
          H["start"][t.pend["start"].dlv.about] \subseteq t.pend["start"].dlv.done
    BY <1>1 DEF RoomInv, PendTold, Kind
  <2>2. \A x \in T["start"] : x < t.start
    BY <1>1, <1>4 DEF Kind
  <2> QED
    BY <1>1, <1>5, <2>1, <2>2 DEF PendTold, Kind
<1>8. Known(t, P, T)
  <2>1. (\A x \in T["start"] : x < b) /\ (\A x \in T["end"] : x < b)
    BY <1>4 DEF Kind
  <2>2. T["start"] \subseteq Nat
    BY <1>2 DEF Facts, Kind
  <2>3. \A x \in T["start"] : x <= b
    BY <1>2, <2>1, <2>2
  <2> QED
    BY <1>1, <1>3, <2>1, <2>3 DEF Known
<1>9. RoomInv(t, P, H, T, n)
  BY <1>1, <1>2, <1>3, <1>6, <1>7, <1>8 DEF RoomInv
<1>10. ASSUME NEW r \in SlotRec, s.init, CheckInv(r, s, P, T) PROVE CheckInv(r, t, P, T)
  <2>1. r.epoch \in Nat /\ (r.pc # "idle" => r.epoch < t.epoch /\ r.epoch # t.epoch /\ r.epoch <= t.epoch)
    BY <1>1, <1>2, <1>10 DEF CheckInv, SlotRec
  <2>2. \A m : Beyond(m, s, T) => Beyond(m, t, T)
    <3>1. ASSUME NEW k \in Kind, NEW x \in T[k] PROVE x <= Hi(t)
      <4>1. x \in Nat /\ x < b
        BY <1>2, <1>4 DEF Facts
      <4> QED
        BY <1>2, <1>3, <4>1
    <3> QED
      BY <3>1 DEF Beyond
  <2> QED
    BY <1>1, <1>10, <2>1, <2>2 DEF CheckInv
<1> QED
  BY <1>9, <1>10 DEF t

\* The broadcast that is known is over; the room is recorded as off air.
Off(s, t) == /\ t \in Room /\ t.prev # "live" /\ t.start = s.start /\ t.last = s.last
             /\ t.init = s.init /\ t.epoch = s.epoch + 1 /\ t.pend["start"] = s.pend["start"]
             /\ \/ t.pend["end"] = Nothing
                \/ t.pend["end"].on /\ t.pend["end"].dlv = None

\* A broadcast ended; what waits to record a beginning is not concerned.
LEMMA RoomEnded ==
  ASSUME NEW P, NEW H, NEW T, NEW n, Facts(P, H, T, n),
         NEW s \in Room, RoomInv(s, P, H, T, n), s.prev = "live", Aware(s), Hi(s) \in P,
         NEW t, Off(s, t)
  PROVE  /\ RoomInv(t, P, H, T, n)
         /\ \A r \in SlotRec : CheckInv(r, s, P, T) /\ ~(r.pc = "lock" /\ r.job = "began") =>
              CheckInv(r, t, P, T)
<1>1. Off(s, t) /\ Hi(t) = Hi(s)
  BY DEF Off, Hi
<1>2. /\ Stream \subseteq Nat /\ s.epoch \in Nat
  BY DEF Stream, Room
<1>3. Nothing.dlv = None /\ ~Nothing.on
  BY NothingIs
<1>4. (\A b \in T["start"] : b <= Hi(s)) /\ (\A b \in T["end"] : b < Hi(s))
  BY DEF RoomInv, Known
<1>5. StateOK(t, P, n)
  BY <1>1, <1>3 DEF Off, StateOK, RoomInv, Kind
<1>6. PendTold(t, H, T)
  BY <1>1, <1>3, <1>4 DEF Off, PendTold, RoomInv, Kind
<1>7. Known(t, P, T)
  <2>1. T["start"] \subseteq P
    BY <1>4 DEF Facts, Kind
  <2> QED
    BY <1>1, <2>1 DEF Off, Known
<1>8. RoomInv(t, P, H, T, n)
  BY <1>1, <1>5, <1>6, <1>7 DEF Off, RoomInv
<1>9. ASSUME NEW r \in SlotRec, CheckInv(r, s, P, T), ~(r.pc = "lock" /\ r.job = "began")
      PROVE  CheckInv(r, t, P, T)
  <2>1. r.pc # "idle" => r.epoch # t.epoch /\ r.epoch <= t.epoch
    BY <1>1, <1>2, <1>9 DEF CheckInv, SlotRec, Off
  <2> QED
    BY <1>1, <1>9, <2>1 DEF CheckInv, Off, Beyond
<1> QED
  BY <1>8, <1>9

\* The status is what it was.
LEMMA RoomSync ==
  ASSUME NEW P, NEW H, NEW T, NEW n, Facts(P, H, T, n),
         NEW s \in Room, RoomInv(s, P, H, T, n), Aware(s), NEW st \in Status, NEW b \in Stream, b <= n,
         st = "live" <=> s.prev = "live", st = "live" => s.start <= b /\ s.last <= b
  PROVE  LET t == Sync(s, st, b) IN
         /\ RoomInv(t, P, H, T, n)
         /\ \A r \in SlotRec : s.init /\ CheckInv(r, s, P, T) => CheckInv(r, t, P, T)
<1> DEFINE t == Sync(s, st, b)
<1>1. /\ t \in Room /\ t.prev = st /\ t.room = b /\ t.pend = s.pend
      /\ t.start = s.start /\ t.init = s.init
      /\ t.last = (IF st = "live" THEN b ELSE s.last)
      /\ t.epoch = (IF s.prev # st THEN s.epoch + 1 ELSE s.epoch)
  BY SyncIs
<1>2. /\ Stream \subseteq Nat /\ s.epoch \in Nat /\ n \in Stream /\ s.start \in Stream
      /\ s.last \in Stream /\ b \in Nat
  BY DEF Stream, Room, Facts
<1> HIDE DEF t
<1>3. /\ st = "live" => Hi(t) = b /\ Hi(s) <= b
      /\ st # "live" => Hi(t) = Hi(s)
      /\ Hi(s) <= Hi(t) /\ Hi(s) \in Nat /\ Hi(t) \in Nat
  <2>1. s.start \in Nat /\ s.last \in Nat /\ t.start = s.start /\ t.last \in Nat
    BY <1>1, <1>2
  <2>2. /\ Hi(s) \in Nat /\ Hi(s) \in {s.start, s.last}
        /\ Hi(t) \in Nat /\ s.start <= Hi(t) /\ t.last <= Hi(t) /\ Hi(t) \in {s.start, t.last}
    BY <2>1, HiIs
  <2>3. CASE st = "live"
    <3>1. t.last = b /\ s.start <= b /\ s.last <= b
      BY <1>1, <2>3
    <3>2. Hi(t) = b /\ Hi(s) <= b
      BY <1>2, <2>1, <2>2, <3>1
    <3> QED
      BY <2>2, <2>3, <3>2
  <2>4. CASE st # "live"
    <3>1. Hi(t) = Hi(s)
      BY <1>1, <2>1, <2>4, HiSame
    <3> QED
      BY <2>2, <2>4, <3>1
  <2> QED
    BY <2>3, <2>4
<1>4. \A k \in Kind : s.pend[k].dlv # None => s.pend[k].dlv.about \in Nat
  BY <1>2, PendIs DEF Pending, Message
<1>5. \A k \in Kind : T[k] \subseteq Nat
  BY <1>2 DEF Facts
<1>6. StateOK(t, P, n)
  <2>1. \A k \in Kind : /\ ~t.pend[k].on => t.pend[k] = Nothing
                        /\ t.pend[k].dlv # None => t.pend[k].dlv.about <= Hi(t)
    BY <1>1, <1>3, <1>4 DEF RoomInv, StateOK
  <2>2. t.pend["start"].on => t.start <= t.last
    BY <1>1 DEF RoomInv, StateOK
  <2>3. t.start <= n /\ t.last <= n
    BY <1>1 DEF RoomInv, StateOK
  <2> QED
    BY <1>1, <1>3, <2>1, <2>2, <2>3 DEF RoomInv, StateOK
<1>7. PendTold(t, H, T)
  <2>1. st = "live" => ~t.pend["end"].on
    BY <1>1, NothingIs DEF RoomInv, StateOK
  <2> QED
    BY <1>1, <1>3, <2>1 DEF RoomInv, PendTold
<1>8. Known(t, P, T)
  <2>1. CASE st = "live"
    <3>1. (\A x \in T["start"] : x <= Hi(s)) /\ (\A x \in T["end"] : x < Hi(s))
      BY <2>1 DEF RoomInv, Known
    <3>2. T["start"] \subseteq Nat /\ T["end"] \subseteq Nat
      BY <1>5 DEF Kind
    <3>3. (\A x \in T["start"] : x <= Hi(t)) /\ (\A x \in T["end"] : x < Hi(t))
      BY <1>3, <3>1, <3>2
    <3> QED
      BY <1>1, <2>1, <3>3 DEF Known
  <2>2. CASE st # "live"
    BY <1>1, <2>2 DEF RoomInv, Known
  <2> QED
    BY <2>1, <2>2
<1>9. RoomInv(t, P, H, T, n)
  BY <1>1, <1>2, <1>3, <1>6, <1>7, <1>8 DEF RoomInv
<1>10. ASSUME NEW r \in SlotRec, s.init, CheckInv(r, s, P, T) PROVE CheckInv(r, t, P, T)
  <2>1. r.epoch \in Nat
    BY DEF SlotRec
  <2>2. r.pc # "idle" => r.epoch <= s.epoch
    BY <1>10 DEF CheckInv
  <2>3. r.pc # "idle" => r.epoch <= t.epoch /\ (r.epoch = t.epoch => t.epoch = s.epoch)
    BY <1>1, <1>2, <2>1, <2>2
  <2>4. \A m : Beyond(m, s, T) => Beyond(m, t, T)
    <3>1. ASSUME NEW m, Beyond(m, s, T), NEW k \in Kind, NEW x \in T[k] PROVE x < m \/ x <= Hi(t)
      <4>1. x < m \/ x <= Hi(s)
        BY <3>1 DEF Beyond
      <4>2. x \in Nat
        BY <1>5
      <4> QED
        BY <1>3, <4>1, <4>2
    <3> QED
      BY <3>1 DEF Beyond
  <2>5. t.prev # "live" => s.prev # "live" /\ Hi(t) = Hi(s)
    BY <1>1, <1>3
  <2> QED
    BY <1>1, <1>10, <2>3, <2>4, <2>5 DEF CheckInv
<1> QED
  BY <1>9, <1>10 DEF t

\* The same is recorded and pending; the state is not known of because of a first answer.
LEMMA RoomSame ==
  ASSUME NEW s \in Room, NEW t \in Room, t.prev = s.prev, t.start = s.start, t.last = s.last,
         t.room = s.room, t.pend = s.pend, Aware(t) => Aware(s),
         NEW P, NEW H, NEW T, NEW n, RoomInv(s, P, H, T, n)
  PROVE  RoomInv(t, P, H, T, n)
<1>1. Hi(t) = Hi(s)
  BY HiSame
<1>2. StateOK(t, P, n) /\ PendTold(t, H, T)
  BY <1>1 DEF RoomInv, StateOK, PendTold
<1>3. Known(t, P, T)
  BY <1>1 DEF RoomInv, Known
<1> QED
  BY <1>1, <1>2, <1>3 DEF RoomInv

\* A room whose restored notices are taken up: nobody had asked for more than a baseline.
LEMMA CheckSeen ==
  ASSUME NEW s, NEW t, ~s.init, t.epoch = s.epoch, t.init, NEW P, NEW T,
         NEW r, CheckInv(r, s, P, T), r.pc = "fetch" => r.snap = None
  PROVE  CheckInv(r, t, P, T)
BY DEF CheckInv

\* One more broadcast is about to be told: one that the state knows.
LEMMA RoomTold ==
  ASSUME NEW P, NEW H, NEW T, NEW n, Facts(P, H, T, n),
         NEW s \in Room, RoomInv(s, P, H, T, n), NEW k \in Kind, NEW b \in Stream, b <= Hi(s),
         s.pend[k].dlv # None, k = "end" => s.prev # "live",
         NEW T2, \A j \in Kind : T2[j] \subseteq (IF j = k THEN T[j] \cup {b} ELSE T[j])
  PROVE  /\ RoomInv(s, P, H, T2, n)
         /\ \A r : s.init /\ CheckInv(r, s, P, T) => CheckInv(r, s, P, T2)
<1>1. PendTold(s, H, T2)
  <2>1. s.pend["start"].on /\ s.pend["start"].dlv = None => k # "start" /\ T2["start"] \subseteq T["start"]
    BY DEF Kind
  <2>2. s.pend["end"].on /\ s.pend["end"].dlv = None => k # "end" /\ T2["end"] \subseteq T["end"]
    BY DEF Kind
  <2> QED
    BY <2>1, <2>2 DEF RoomInv, PendTold
<1>2. Known(s, P, T2)
  <2>1. T2["start"] \subseteq T["start"] \cup {b} /\ T2["end"] \subseteq T["end"] \cup {b}
    BY DEF Kind
  <2>2. CASE s.prev = "live"
    <3>1. T2["end"] \subseteq T["end"]
      BY <2>2 DEF Kind
    <3> QED
      BY <2>1, <2>2, <3>1 DEF RoomInv, Known
  <2>3. CASE s.prev # "live"
    <3>1. Hi(s) \in P
      BY <2>3 DEF RoomInv, StateOK
    <3>2. b \in P
      BY <3>1 DEF Facts
    <3> QED
      BY <2>1, <2>3, <3>2 DEF RoomInv, Known
  <2> QED
    BY <2>2, <2>3
<1>3. RoomInv(s, P, H, T2, n)
  BY <1>1, <1>2 DEF RoomInv
<1>4. \A m : Beyond(m, s, T) => Beyond(m, s, T2)
  <2>1. \A j \in Kind : \A x \in T2[j] : x \in T[j] \/ x = b
    OBVIOUS
  <2> QED
    BY <2>1 DEF Beyond
<1>5. \A r : s.init /\ CheckInv(r, s, P, T) => CheckInv(r, s, P, T2)
  BY <1>4 DEF CheckInv
<1> QED
  BY <1>3, <1>5

\* A message is prepared about what is news.
LEMMA RoomDraft ==
  ASSUME NEW P, NEW H, NEW T, NEW n, Facts(P, H, T, n),
         NEW s \in Room, RoomInv(s, P, H, T, n), NEW k \in Kind, s.pend[k].on, s.pend[k].dlv = None,
         NEW d \in Message, d.done = {}, d.about <= Hi(s),
         IF k = "end" THEN d.about = Hi(s) ELSE s.start <= d.about
  PROVE  RoomInv(Draft(s, k, d), P, H, T, n)
<1> DEFINE t == Draft(s, k, d)
<1>1. /\ t \in Room /\ t.prev = s.prev /\ t.start = s.start /\ t.room = s.room /\ t.last = s.last
      /\ t.epoch = s.epoch /\ t.init = s.init
      /\ t.pend[k].dlv = d /\ (t.pend[k].on <=> s.pend[k].on)
      /\ \A j \in Kind \ {k} : t.pend[j] = s.pend[j]
  BY DraftIs
<1>2. d # None /\ d.about \in Stream /\ Stream \subseteq Nat /\ s.start \in Nat /\ s.last \in Nat
  BY NoneAssumption DEF Message, Room, Stream
<1> HIDE DEF t
<1>3. Hi(t) = Hi(s) /\ Hi(s) \in Nat
  BY <1>1, <1>2, HiIs, HiSame
<1>4. Nothing.dlv = None /\ ~Nothing.on
  BY NothingIs
<1>5. StateOK(t, P, n)
  <2>1. s.prev = "live" => t.pend["end"] = Nothing
    <3>1. s.prev = "live" => s.pend["end"] = Nothing
      BY DEF RoomInv, StateOK
    <3>2. s.prev = "live" => k # "end"
      BY <1>4, <3>1
    <3> QED
      BY <1>1, <3>1, <3>2 DEF Kind
  <2>2. \A j \in Kind : /\ ~t.pend[j].on => t.pend[j] = Nothing
                        /\ t.pend[j].dlv # None => t.pend[j].dlv.about <= Hi(t)
    BY <1>1, <1>3 DEF RoomInv, StateOK
  <2>3. t.pend["start"].on => s.start <= s.last
    BY <1>1 DEF RoomInv, StateOK, Kind
  <2> QED
    BY <1>1, <1>3, <2>1, <2>2, <2>3 DEF RoomInv, StateOK
<1>6. PendTold(t, H, T)
  <2>1. H[k][d.about] = {}
    <3>1. \A b \in T[k] : b < d.about
      <4>1. CASE k = "end"
        BY <4>1 DEF RoomInv, PendTold
      <4>2. CASE k = "start"
        <5>1. \A b \in T["start"] : b < s.start
          BY <4>2 DEF RoomInv, PendTold
        <5>2. T["start"] \subseteq Nat /\ s.start <= d.about
          BY <1>2, <4>2 DEF Facts, Kind
        <5>3. ASSUME NEW b \in T["start"] PROVE b < d.about
          <6>1. b \in Nat /\ b < s.start /\ s.start \in Nat /\ d.about \in Nat /\ s.start <= d.about
            BY <1>2, <5>1, <5>2
          <6> QED
            BY <6>1
        <5> QED
          BY <4>2, <5>3
      <4> QED
        BY <4>1, <4>2 DEF Kind
    <3>2. d.about \notin T[k]
      <4>1. \A x \in Nat : ~(x < x)
        OBVIOUS
      <4> QED
        BY <1>2, <3>1, <4>1
    <3> QED
      BY <1>2, <3>2 DEF Facts
  <2>2. \A j \in Kind : t.pend[j].dlv # None => H[j][t.pend[j].dlv.about] \subseteq t.pend[j].dlv.done
    BY <1>1, <2>1 DEF RoomInv, PendTold
  <2>3. t.pend["start"].on /\ t.pend["start"].dlv = None => \A b \in T["start"] : b < t.start
    BY <1>1, <1>2 DEF RoomInv, PendTold, Kind
  <2>4. t.pend["end"].on /\ t.pend["end"].dlv = None => \A b \in T["end"] : b < Hi(t)
    BY <1>1, <1>2, <1>3 DEF RoomInv, PendTold, Kind
  <2> QED
    BY <2>2, <2>3, <2>4 DEF PendTold
<1>7. Known(t, P, T)
  <2>1. Aware(t) => Aware(s)
    BY <1>1 DEF Aware, Pends
  <2> QED
    BY <1>1, <1>3, <2>1 DEF RoomInv, Known
<1>8. RoomInv(t, P, H, T, n)
  BY <1>1, <1>3, <1>5, <1>6, <1>7 DEF RoomInv
<1> QED
  BY <1>8 DEF t

\* The message of the notice k has reached one more target, and the state knows.
LEMMA RoomTells ==
  ASSUME NEW P, NEW H, NEW T, NEW n, NEW s \in Room, RoomInv(s, P, H, T, n),
         NEW k \in Kind, s.pend[k].dlv # None, NEW x \in Target,
         NEW H2, \A j \in Kind, b \in Stream :
                   H2[j][b] \subseteq (IF j = k /\ b = s.pend[k].dlv.about THEN H[j][b] \cup {x} ELSE H[j][b])
  PROVE  RoomInv(Tells(s, k, x), P, H2, T, n)
<1> DEFINE t == Tells(s, k, x)
           p == s.pend[k]
           q == t.pend[k]
<1>1. /\ t \in Room /\ t.prev = s.prev /\ t.start = s.start /\ t.room = s.room /\ t.last = s.last
      /\ t.epoch = s.epoch /\ t.init = s.init /\ \A j \in Kind \ {k} : t.pend[j] = s.pend[j]
      /\ q = Reached(p, x)
  BY TellsIs
<1>2. p \in Pending
  BY PendIs
<1>3. /\ q.on = p.on /\ q.dlv # None /\ q.dlv.about = p.dlv.about /\ q.dlv.done = p.dlv.done \cup {x}
  <2> HIDE DEF t, q, p
  <2> QED
    BY <1>1, <1>2, ReachedIs DEF p
<1>4. \A j \in Kind : s.pend[j].dlv # None => s.pend[j].dlv.about \in Stream
  BY PendIs DEF Pending, Message
<1>5. Nothing.dlv = None /\ ~Nothing.on
  BY NothingIs
<1> HIDE DEF t
<1>6. Hi(t) = Hi(s)
  BY <1>1, HiSame
<1>7. StateOK(t, P, n)
  <2>1. s.prev = "live" => t.pend["end"] = Nothing
    <3>1. s.prev = "live" => s.pend["end"] = Nothing
      BY DEF RoomInv, StateOK
    <3>2. s.prev = "live" => k # "end"
      BY <1>5, <3>1
    <3> QED
      BY <1>1, <3>1, <3>2 DEF Kind
  <2>2. \A j \in Kind : /\ ~t.pend[j].on => t.pend[j] = Nothing
                        /\ t.pend[j].dlv # None => t.pend[j].dlv.about <= Hi(t)
    <3>1. p.on
      BY <1>5 DEF RoomInv, StateOK
    <3> QED
      BY <1>1, <1>3, <1>6, <3>1, ZenonT(60) DEF RoomInv, StateOK
  <2>3. t.pend["start"].on => s.start <= s.last
    BY <1>1, <1>3 DEF RoomInv, StateOK, Kind
  <2> QED
    BY <1>1, <1>6, <2>1, <2>2, <2>3 DEF RoomInv, StateOK
<1>8. PendTold(t, H2, T)
  <2>1. \A j \in Kind : t.pend[j].dlv # None => H2[j][t.pend[j].dlv.about] \subseteq t.pend[j].dlv.done
    <3>1. H2[k][q.dlv.about] \subseteq q.dlv.done
      <4>1. H2[k][p.dlv.about] \subseteq H[k][p.dlv.about] \cup {x}
        BY <1>4
      <4>2. H[k][p.dlv.about] \subseteq p.dlv.done
        BY DEF RoomInv, PendTold
      <4> QED
        BY <1>3, <4>1, <4>2
    <3>2. ASSUME NEW j \in Kind \ {k}, s.pend[j].dlv # None
          PROVE  H2[j][s.pend[j].dlv.about] \subseteq s.pend[j].dlv.done
      <4>1. H2[j][s.pend[j].dlv.about] \subseteq H[j][s.pend[j].dlv.about]
        BY <1>4, <3>2
      <4> QED
        BY <3>2, <4>1 DEF RoomInv, PendTold
    <3> QED
      BY <1>1, <3>1, <3>2
  <2>2. t.pend["start"].on /\ t.pend["start"].dlv = None => \A b \in T["start"] : b < t.start
    BY <1>1, <1>3 DEF RoomInv, PendTold, Kind
  <2>3. t.pend["end"].on /\ t.pend["end"].dlv = None => \A b \in T["end"] : b < Hi(t)
    BY <1>1, <1>3, <1>6 DEF RoomInv, PendTold, Kind
  <2> QED
    BY <2>1, <2>2, <2>3 DEF PendTold
<1>9. Known(t, P, T)
  <2>1. Aware(t) => Aware(s)
    BY <1>1, <1>3 DEF Aware, Pends
  <2> QED
    BY <1>1, <1>6, <2>1 DEF RoomInv, Known
<1>10. RoomInv(t, P, H2, T, n)
  BY <1>1, <1>6, <1>7, <1>8, <1>9 DEF RoomInv
<1> QED
  BY <1>10 DEF t

\* The first answer becomes the baseline; nobody has asked for more.
LEMMA RoomBaseline ==
  ASSUME NEW P, NEW H, NEW T, NEW n, Facts(P, H, T, n), NEW s \in Room, RoomInv(s, P, H, T, n),
         ~s.init, NEW r, CheckInv(r, s, P, T), r.pc = "record", r.snap \in Snapshot, r.snap.n <= n
  PROVE  LET t == Baseline(s, r.snap) IN
         /\ RoomInv(t, P, H, T, n)
         /\ \A q : CheckInv(q, s, P, T) => CheckInv(q, t, P, T)
<1> DEFINE t == Baseline(s, r.snap)
           a == r.snap
<1>1. /\ t \in Room /\ t.prev = a.st /\ t.room = a.n /\ t.init /\ t.last = s.last
      /\ t.start = (IF a.st = "live" THEN a.n ELSE s.start) /\ t.epoch = s.epoch
      /\ \A k \in Kind : t.pend[k] = Nothing
  BY BaselineIs
<1>2. /\ Stream \subseteq Nat /\ a.n \in Nat /\ s.start \in Nat /\ s.last \in Nat /\ n \in Nat
      /\ s.start <= n /\ s.last <= n
  BY DEF Snapshot, Room, Stream, Facts, RoomInv, StateOK
<1>3. /\ a.st = "live" => (\A b \in T["start"] : b <= a.n) /\ (\A b \in T["end"] : b < a.n)
      /\ a.st # "live" => Hi(s) \in P /\ T["start"] \subseteq P
  BY DEF CheckInv
<1> HIDE DEF t
<1>4. Nothing.dlv = None /\ ~Nothing.on
  BY NothingIs
<1>5. /\ Hi(t) \in Nat /\ t.start <= Hi(t)
      /\ a.st # "live" => Hi(t) = Hi(s)
  BY <1>1, <1>2, HiIs, HiSame
<1>6. StateOK(t, P, n)
  BY <1>1, <1>2, <1>3, <1>4, <1>5 DEF StateOK, Kind
<1>7. PendTold(t, H, T)
  BY <1>1, <1>4 DEF PendTold, Kind
<1>8. Known(t, P, T)
  <2>1. CASE a.st = "live"
    <3>1. T["start"] \subseteq Nat /\ T["end"] \subseteq Nat
      BY <1>2 DEF Facts, Kind
    <3>2. a.n <= Hi(t)
      BY <1>1, <1>5, <2>1
    <3>3. (\A b \in T["start"] : b <= Hi(t)) /\ (\A b \in T["end"] : b < Hi(t))
      BY <1>2, <1>3, <1>5, <2>1, <3>1, <3>2
    <3> QED
      BY <1>1, <2>1, <3>3 DEF Known
  <2>2. CASE a.st # "live"
    BY <1>1, <1>3, <2>2 DEF Known
  <2> QED
    BY <2>1, <2>2
<1>9. RoomInv(t, P, H, T, n)
  BY <1>1, <1>2, <1>5, <1>6, <1>7, <1>8 DEF RoomInv
<1>10. \A q : CheckInv(q, s, P, T) => CheckInv(q, t, P, T)
  BY <1>1 DEF CheckInv
<1> QED
  BY <1>9, <1>10 DEF t

\* A new life knows nothing, and nothing depends on it.
LEMMA RoomFresh ==
  ASSUME NEW P, NEW H, NEW T, NEW n, Facts(P, H, T, n), 0 \in P
  PROVE  RoomInv(Fresh, P, H, T, n) /\ \A k \in Kind : Fresh.pend[k].dlv = None
<1>1. /\ Fresh \in Room /\ ~Fresh.init /\ ~Pends(Fresh)
      /\ Fresh.start = 0 /\ Fresh.last = 0 /\ Fresh.prev = "off" /\ Fresh.room = None
      /\ \A k \in Kind : Fresh.pend[k] = Nothing
  BY FreshIs
<1>2. Nothing.dlv = None /\ ~Nothing.on /\ n \in Nat
  BY NothingIs DEF Facts, Stream
<1> DEFINE f == Fresh
<1> HIDE DEF f
<1>3. /\ ~f.init /\ ~Pends(f) /\ f.start = 0 /\ f.last = 0 /\ f.prev = "off" /\ f.room = None
      /\ \A k \in Kind : f.pend[k] = Nothing
  BY <1>1 DEF f
<1>4. Hi(f) = 0
  BY <1>3 DEF Hi
<1>5. StateOK(f, P, n)
  BY <1>2, <1>3, <1>4 DEF StateOK, Kind
<1>6. PendTold(f, H, T) /\ Known(f, P, T)
  BY <1>2, <1>3 DEF PendTold, Known, Aware, Kind
<1>7. RoomInv(f, P, H, T, n) /\ \A k \in Kind : f.pend[k].dlv = None
  BY <1>2, <1>3, <1>5, <1>6 DEF RoomInv
<1> QED
  BY <1>7 DEF f

\* A state that is read back, when no target had more than what crashes account for.
LEMMA RoomRestored ==
  ASSUME NEW P, NEW H, NEW T, NEW n, \A k \in Kind : T[k] = {} /\ \A b \in Stream : H[k][b] = {},
         NEW s \in Room, s.room = None, StateOK(s, P, n)
  PROVE  RoomInv(s, P, H, T, n)
<1>1. \A k \in Kind : s.pend[k].dlv # None => s.pend[k].dlv.about \in Stream
  BY PendIs DEF Pending, Message
<1>2. PendTold(s, H, T)
  BY <1>1 DEF PendTold, Kind
<1>3. Known(s, P, T)
  BY DEF Known, Kind
<1> QED
  BY <1>2, <1>3 DEF RoomInv

\* The row of a state promises what the state does.
LEMMA StateRow ==
  ASSUME NEW P, NEW H, NEW T, NEW n, Facts(P, H, T, n), NEW s \in Room, LastKnown(s), StateOK(s, P, n)
  PROVE  StateOK(RowOf(s), P, n)
<1> DEFINE w == RowOf(s)
<1>1. /\ w.prev = s.prev /\ w.start = s.start
      /\ Pends(s) => w.last = s.last /\ w.pend = s.pend
      /\ ~Pends(s) => w.last = 0 /\ \A k \in Kind : w.pend[k] = Nothing
  BY RowIs
<1>2. /\ s.start \in Stream /\ s.last \in Stream /\ Stream \subseteq Nat /\ n \in Nat
  BY DEF Room, Stream, Facts
<1> HIDE DEF w
<1>3. CASE Pends(s)
  <2>1. Hi(w) = Hi(s) /\ w.prev = s.prev /\ w.start = s.start /\ w.last = s.last /\ w.pend = s.pend
    BY <1>1, <1>3, HiSame
  <2>2. StateOK(w, P, n)
    BY <2>1 DEF StateOK
  <2> QED
    BY <2>2 DEF w
<1>4. CASE ~Pends(s)
  <2>1. Nothing.dlv = None /\ ~Nothing.on
    BY NothingIs
  <2>2. Hi(w) = s.start
    <3>1. w.start \in Nat /\ w.last = 0 /\ w.start = s.start
      BY <1>1, <1>2, <1>4
    <3> QED
      BY <3>1 DEF Hi
  <2>3. s.prev # "live" => s.start \in P
    <3>1. s.start <= Hi(s)
      BY <1>2, HiIs
    <3> QED
      BY <1>2, <3>1 DEF StateOK, Facts
  <2>4. \A k \in Kind : w.pend[k] = Nothing /\ ~w.pend[k].on /\ w.pend[k].dlv = None
    BY <1>1, <1>4, <2>1
  <2>5. w.start <= n /\ w.last <= n
    BY <1>1, <1>2, <1>4 DEF StateOK
  <2>6. StateOK(w, P, n)
    BY <1>1, <2>2, <2>3, <2>4, <2>5 DEF StateOK, Kind
  <2> QED
    BY <2>6 DEF w
<1> QED
  BY <1>3, <1>4 DEF w

-----------------------------------------------------------------------------
(* A step of one slot, seen from the others                                  *)

\* The handlers agree, but for those that they queue behind.
Same(r, q) == /\ q.pc = r.pc /\ q.life = r.life /\ q.epoch = r.epoch /\ q.snap = r.snap
              /\ q.job = r.job /\ q.plan = r.plan /\ q.about = r.about /\ q.queue = r.queue
              /\ q.done = r.done /\ q.to = r.to

\* What is asked of a handler does not depend on whom it queues behind.
LEMMA SameKeeps ==
  ASSUME NEW r, NEW q, Same(r, q), NEW s, NEW P, NEW T
  PROVE  /\ CheckInv(r, s, P, T) => CheckInv(q, s, P, T)
         /\ HolderInv(r, s) => HolderInv(q, s)
         /\ Effective(r, s) <=> Effective(q, s)
<1>1. CheckInv(r, s, P, T) => CheckInv(q, s, P, T)
  BY DEF Same, CheckInv
<1>2. HolderInv(r, s) => HolderInv(q, s)
  BY DEF Same, HolderInv
<1> QED
  BY <1>1, <1>2 DEF Same, Effective

\* The other handlers stay, and wait for nobody new.
LEMMA OthersSame ==
  ASSUME TypeInv, NEW c \in Slot, Turns(c)
  PROVE  \A d \in Slot \ {c} : Same(chk[d], chk'[d]) /\ chk'[d].ahead \subseteq chk[d].ahead
<1>1. chk \in [Slot -> SlotRec]
  BY DEF TypeInv, TypeOK
<1>2. CASE Leave(c)
  <2>1. \A d \in Slot \ {c} : chk'[d] = Without(chk[d], c)
    BY <1>2, LeaveSteps
  <2>2. \A r \in SlotRec : Same(r, Without(r, c)) /\ Without(r, c).ahead \subseteq r.ahead
    BY WithoutIs DEF Same
  <2> QED
    BY <1>1, <2>1, <2>2
<1>3. CASE Moves(c, chk'[c]) /\ \A d \in Slot \ {c} : chk'[d] = chk[d]
  BY <1>3 DEF Same
<1> QED
  BY <1>2, <1>3, TurnsIs

\* One handler has the lock; who else wants it is behind.
LEMMA OneHolder ==
  ASSUME LockInv, NEW c \in Slot, chk[c].pc \in Holding, NEW d \in Slot, d # c
  PROVE  chk[d].pc \notin Holding /\ (chk[d].pc = "lock" => c \in chk[d].ahead)
<1>1. Locking(c) /\ chk[c].ahead = {}
  BY LockingIs DEF LockInv, Locked
<1>2. chk[d].pc \in Locked => Locking(d)
  BY LockingIs
<1> QED
  BY <1>1, <1>2 DEF LockInv, Locked

-----------------------------------------------------------------------------
(* A step of one slot, seen from the books                                   *)

\* Crashes, lost receipts and cancelled handlers are counted once.
LEMMA ExcusesIs ==
  ASSUME TypeInv
  PROVE  /\ Excuses \in Nat
         /\ Spends \/ UNCHANGED spent \/ spent' = [spent EXCEPT !.fail = @ + 1] => Excuses' = Excuses
         /\ \/ spent' = [spent EXCEPT !.fail = @ + 1, !.lost = @ + 1]
            \/ spent' = [spent EXCEPT !.cut = @ + 1] \/ spent' = [spent EXCEPT !.crash = @ + 1]
            => Excuses' = Excuses + 1
<1>1. spent \in [round: Nat, reload: Nat, crash: Nat, cut: Nat, fail: Nat, lost: Nat, db: Nat]
  BY DEF TypeInv, TypeOK
<1>2. /\ spent.crash \in Nat /\ spent.lost \in Nat /\ spent.cut \in Nat
      /\ Excuses = spent.crash + spent.lost + spent.cut
      /\ Excuses' = spent'.crash + spent'.lost + spent'.cut
  BY <1>1 DEF Excuses
<1>3. Spends \/ UNCHANGED spent \/ spent' = [spent EXCEPT !.fail = @ + 1] =>
        spent'.crash = spent.crash /\ spent'.lost = spent.lost /\ spent'.cut = spent.cut
  BY <1>1 DEF Spends
<1>4. CASE spent' = [spent EXCEPT !.fail = @ + 1, !.lost = @ + 1]
  <2>1. spent'.crash = spent.crash /\ spent'.lost = spent.lost + 1 /\ spent'.cut = spent.cut
    BY <1>1, <1>4
  <2> QED
    BY <1>2, <1>3, <2>1
<1>5. CASE spent' = [spent EXCEPT !.cut = @ + 1]
  <2>1. spent'.crash = spent.crash /\ spent'.lost = spent.lost /\ spent'.cut = spent.cut + 1
    BY <1>1, <1>5
  <2> QED
    BY <1>2, <1>3, <2>1
<1>6. CASE spent' = [spent EXCEPT !.crash = @ + 1]
  <2>1. spent'.crash = spent.crash + 1 /\ spent'.lost = spent.lost /\ spent'.cut = spent.cut
    BY <1>1, <1>6
  <2> QED
    BY <1>2, <1>3, <2>1
<1> QED
  BY <1>2, <1>3, <1>4, <1>5, <1>6

\* One more push to one target.
LEMMA PushIs ==
  ASSUME TypeInv, NEW c \in Slot, chk[c].pc = "inflight", Push(c)
  PROVE  /\ Item(c).k \in Kind /\ chk[c].about \in Stream /\ chk[c].to \in Target
         /\ \A k \in Kind, b \in Stream, x \in Target :
              sent'[k][b][x] = IF k = Item(c).k /\ b = chk[c].about /\ x = chk[c].to
                                 THEN sent[k][b][x] + 1 ELSE sent[k][b][x]
<1> DEFINE j == Item(c).k
           m == chk[c].about
           y == chk[c].to
           v == sent[j][m][y] + 1
<1>1. j \in Kind /\ m \in Stream /\ y \in Target
  BY HolderIs, StartKnown DEF Holding
<1>2. sent \in [Kind -> [Stream -> [Target -> Nat]]]
  BY DEF TypeInv, TypeOK
<1>3. sent' = [sent EXCEPT ![j][m][y] = v]
  BY DEF Push
<1> HIDE DEF j, m, y
<1>4. \A k \in Kind, b \in Stream, x \in Target :
        sent'[k][b][x] = IF k = j /\ b = m /\ x = y THEN v ELSE sent[k][b][x]
  <2> HIDE DEF v
  <2> QED
    BY <1>1, <1>2, <1>3
<1> QED
  BY <1>1, <1>4 DEF j, m, y

\* Slot c alone may begin or end to push; who is pushing goes on with the same.
Tame(c) == chk'[c].pc = "inflight" =>
             /\ chk[c].pc = "inflight" /\ chk'[c].plan = chk[c].plan
             /\ chk'[c].about = chk[c].about /\ chk'[c].to = chk[c].to

\* Who pushes after a tame step pushed the same before.
LEMMA FliesKept ==
  ASSUME TypeInv, NEW c \in Slot, Turns(c), Tame(c), NEW k, NEW b, NEW d \in Slot,
         Flies(chk'[d], k, b)
  PROVE  Flies(chk[d], k, b)
BY OthersSame DEF Tame, Flies, Same

\* Nothing is told that was not, when no push counts for more than is accounted for.
LEMMA CalmBooks ==
  ASSUME TypeInv, NEW c \in Slot, Turns(c), Tame(c),
         \A k \in Kind, b \in Stream, x \in Target : sent'[k][b][x] > Excuses' => sent[k][b][x] > Excuses
  PROVE  Fewer(Had, Told, Had', Told')
<1>1. \A k \in Kind, b \in Stream : Had'[k][b] \subseteq Had[k][b]
  BY DEF Had
<1>2. ASSUME NEW k \in Kind, NEW b \in Told'[k] PROVE b \in Told[k]
  <2>1. b \in Stream /\ (Had'[k][b] # {} \/ \E d \in Slot : Flies(chk'[d], k, b))
    BY <1>2 DEF Told, Flies
  <2>2. Had[k][b] # {} \/ \E d \in Slot : Flies(chk[d], k, b)
    BY <1>1, <2>1, FliesKept
  <2> QED
    BY <2>1, <2>2 DEF Told
<1> QED
  BY <1>1, <1>2 DEF Fewer

\* A push that counts: told before.
LEMMA PushTold ==
  ASSUME TypeInv, NEW c \in Slot, chk[c].pc = "inflight", Turns(c), Tame(c), Push(c), Excuses' = Excuses
  PROVE  /\ \A k \in Kind : Told'[k] \subseteq Told[k]
         /\ \A k \in Kind, b \in Stream : Had'[k][b] \subseteq
              (IF k = Item(c).k /\ b = chk[c].about THEN Had[k][b] \cup {chk[c].to} ELSE Had[k][b])
<1>1. /\ Item(c).k \in Kind /\ chk[c].about \in Stream /\ chk[c].to \in Target
      /\ \A k \in Kind, b \in Stream, x \in Target :
           sent'[k][b][x] = IF k = Item(c).k /\ b = chk[c].about /\ x = chk[c].to
                              THEN sent[k][b][x] + 1 ELSE sent[k][b][x]
  BY PushIs
<1>2. \A k \in Kind, b \in Stream : Had'[k][b] \subseteq
              (IF k = Item(c).k /\ b = chk[c].about THEN Had[k][b] \cup {chk[c].to} ELSE Had[k][b])
  BY <1>1 DEF Had
<1>3. ASSUME NEW k \in Kind, NEW b \in Told'[k] PROVE b \in Told[k]
  <2>1. b \in Stream /\ (Had'[k][b] # {} \/ \E d \in Slot : Flies(chk'[d], k, b))
    BY <1>3 DEF Told, Flies
  <2>2. Had[k][b] # {} \/ \E d \in Slot : Flies(chk[d], k, b)
    <3>1. CASE k = Item(c).k /\ b = chk[c].about
      BY <3>1 DEF Flies, Item
    <3>2. CASE ~(k = Item(c).k /\ b = chk[c].about)
      BY <1>2, <2>1, <3>2, FliesKept
    <3> QED
      BY <3>1, <3>2
  <2> QED
    BY <2>1, <2>2 DEF Told
<1> QED
  BY <1>2, <1>3

\* A push that is accounted for.
LEMMA PushExcused ==
  ASSUME TypeInv, NEW c \in Slot, chk[c].pc = "inflight", Turns(c), Tame(c), Push(c),
         Excuses' = Excuses + 1
  PROVE  Fewer(Had, Told, Had', Told')
<1>1. \A k \in Kind, b \in Stream, x \in Target : sent[k][b][x] \in Nat /\ sent'[k][b][x] <= sent[k][b][x] + 1
                                                  /\ sent'[k][b][x] \in Nat
  <2>1. \A k \in Kind, b \in Stream, x \in Target : sent[k][b][x] \in Nat
    BY DEF TypeInv, TypeOK
  <2> QED
    BY <2>1, PushIs
<1>2. Excuses \in Nat
  BY ExcusesIs
<1>3. \A k \in Kind, b \in Stream, x \in Target : sent'[k][b][x] > Excuses' => sent[k][b][x] > Excuses
  BY <1>1, <1>2
<1> QED
  BY <1>3, CalmBooks

\* No push, and no excuse less.
LEMMA StillBooks ==
  ASSUME TypeInv, NEW c \in Slot, Turns(c), Tame(c), UNCHANGED sent,
         Excuses' = Excuses \/ Excuses' = Excuses + 1
  PROVE  Fewer(Had, Told, Had', Told')
<1>1. Excuses \in Nat /\ \A k \in Kind, b \in Stream, x \in Target : sent[k][b][x] \in Nat
  BY ExcusesIs DEF TypeInv, TypeOK
<1>2. \A k \in Kind, b \in Stream, x \in Target : sent'[k][b][x] > Excuses' => sent[k][b][x] > Excuses
  BY <1>1
<1> QED
  BY <1>2, CalmBooks

\* A send starts: one more notice is told.
LEMMA StartTold ==
  ASSUME TypeInv, NEW c \in Slot, Turns(c), UNCHANGED <<sent, spent>>,
         chk'[c].plan = chk[c].plan, chk'[c].about = chk[c].about
  PROVE  /\ \A k \in Kind, b \in Stream : Had'[k][b] = Had[k][b]
         /\ \A k \in Kind : Told'[k] \subseteq
              (IF k = Item(c).k THEN Told[k] \cup {chk[c].about} ELSE Told[k])
<1>1. \A k \in Kind, b \in Stream : Had'[k][b] = Had[k][b]
  BY DEF Had, Excuses
<1>2. ASSUME NEW k \in Kind, NEW b \in Told'[k], ~(k = Item(c).k /\ b = chk[c].about)
      PROVE  b \in Told[k]
  <2>1. b \in Stream /\ (Had'[k][b] # {} \/ \E d \in Slot : Flies(chk'[d], k, b))
    BY <1>2 DEF Told, Flies
  <2>2. ~Flies(chk'[c], k, b)
    BY <1>2 DEF Flies, Item
  <2>3. \A d \in Slot \ {c} : Flies(chk'[d], k, b) => Flies(chk[d], k, b)
    BY OthersSame DEF Flies, Same
  <2>4. Had[k][b] # {} \/ \E d \in Slot : Flies(chk[d], k, b)
    BY <1>1, <2>1, <2>2, <2>3
  <2> QED
    BY <2>1, <2>4 DEF Told
<1> QED
  BY <1>1, <1>2

-----------------------------------------------------------------------------
(* A step of one slot keeps the life of the room                             *)

\* What a step of slot c leaves to the other handlers of the room.
Keeps(c) == \A d \in Slot \ {c} : chk[d].life = cur /\ chk[d].pc # "idle" =>
              CheckInv(chk[d], mem'[cur], Past, Told') /\ HolderInv(chk[d], mem'[cur])

\* The slot c is free, or its handler stays in its life.
LEMMA TurnsLife ==
  ASSUME TypeInv, NEW c \in Slot, Turns(c)
  PROVE  chk'[c].pc # "idle" => chk'[c].life = LifeOf(c)
<1>1. Idle.pc = "idle"
  BY IdleIs
<1> QED
  BY <1>1, TurnsIs DEF Moves

\* The queue goes on when the status stays; who joins it changes the status.
LEMMA QueueStays ==
  ASSUME TypeInv, LockInv, QueueInv, NEW c \in Slot, Turns(c), UNCHANGED cur,
         mem'[cur].prev = "live" <=> mem[cur].prev = "live",
         chk'[c].pc = "lock" /\ chk[c].pc # "lock" /\ chk'[c].job \in {"began", "ended"} =>
           Effective(chk'[c], mem[cur])
  PROVE  QueueInv'
<1>1. \A r : Effective(r, mem'[cur]) <=> Effective(r, mem[cur])
  BY DEF Effective
<1>2. \A d \in Slot \ {c} : Same(chk[d], chk'[d]) /\ chk'[d].ahead \subseteq chk[d].ahead
  BY OthersSame
<1>3. SUFFICES ASSUME NEW a \in Slot, NEW d \in Slot, chk'[a].life = cur, chk'[d].life = cur,
                      a \in chk'[d].ahead, chk'[a].pc = "lock", Effective(chk'[a], mem[cur]),
                      chk'[d].job \in {"began", "ended"}
               PROVE  Effective(chk'[d], mem[cur])
  BY <1>1 DEF QueueInv
<1>4. LockInv'
  BY TurnsLock
<1>5. a # d
  BY <1>3, <1>4 DEF LockInv
<1>6. CASE d # c /\ a # c
  <2>1. /\ Same(chk[d], chk'[d]) /\ Same(chk[a], chk'[a]) /\ a \in chk[d].ahead
        /\ Effective(chk[a], mem[cur])
    BY <1>2, <1>3, <1>6, SameKeeps
  <2>2. /\ chk[a].life = cur /\ chk[d].life = cur /\ chk[a].pc = "lock"
        /\ chk[d].job \in {"began", "ended"}
    BY <1>3, <2>1 DEF Same
  <2>3. Effective(chk[d], mem[cur])
    BY <2>1, <2>2 DEF QueueInv
  <2> QED
    BY <2>1, <2>3, SameKeeps
<1>7. CASE a = c
  <2>1. Same(chk[d], chk'[d]) /\ c \in chk[d].ahead
    BY <1>2, <1>3, <1>5, <1>7
  <2>2. Locking(c)
    BY <2>1 DEF LockInv
  <2>3. chk[c].pc \in Locked
    BY <2>2, LockingIs
  <2>4. Moves(c, chk'[c])
    BY <1>3, <1>7, IdleIs, TurnsIs
  <2>5. chk[c].pc = "lock" /\ chk'[c].job = chk[c].job /\ chk[c].life = cur
    <3>1. LifeOf(c) = chk[c].life
      BY <2>3, LifeIs DEF Locked, Holding
    <3> QED
      BY <1>3, <1>7, <2>2, <2>3, <2>4, <3>1 DEF Moves, Locked, Holding
  <2>6. Effective(chk[c], mem[cur]) /\ chk[d].life = cur /\ chk[d].job \in {"began", "ended"}
    BY <1>3, <1>7, <2>1, <2>5 DEF Same, Effective
  <2>7. Effective(chk[d], mem[cur])
    BY <2>1, <2>5, <2>6 DEF QueueInv
  <2> QED
    BY <2>1, <2>7, SameKeeps
<1>8. CASE d = c
  <2>1. Same(chk[a], chk'[a])
    BY <1>2, <1>5, <1>8
  <2>2. Locking(c)' /\ chk'[c].pc \notin Holding
    BY <1>3, <1>4, <1>8 DEF LockInv
  <2>3. chk'[c].pc = "lock"
    BY <2>2 DEF Locking, Holding
  <2>4. CASE chk[c].pc # "lock"
    BY <1>3, <1>8, <2>3, <2>4
  <2>5. CASE chk[c].pc = "lock"
    <3>1. Moves(c, chk'[c])
      BY <2>3, IdleIs, TurnsIs
    <3>2. chk'[c].job = chk[c].job /\ chk'[c].ahead = chk[c].ahead /\ chk[c].life = cur
      <4>1. LifeOf(c) = chk[c].life
        BY <2>5, LifeIs
      <4>2. Locking(c)
        BY <2>5, LockingIs DEF Locked
      <4> QED
        BY <1>3, <1>8, <2>3, <2>5, <3>1, <4>1, <4>2 DEF Moves, Locked, Holding
    <3>3. /\ a \in chk[c].ahead /\ chk[a].life = cur /\ chk[a].pc = "lock"
          /\ chk[c].job \in {"began", "ended"}
      BY <1>3, <1>8, <2>1, <3>2 DEF Same
    <3>4. Effective(chk[a], mem[cur])
      BY <1>3, <2>1, SameKeeps
    <3>5. Effective(chk[c], mem[cur])
      BY <3>2, <3>3, <3>4 DEF QueueInv
    <3> QED
      BY <1>8, <3>2, <3>5 DEF Effective
  <2> QED
    BY <2>4, <2>5
<1> QED
  BY <1>6, <1>7, <1>8

\* Nobody in the queue changes the status.
LEMMA QueueVain ==
  ASSUME TypeInv, NEW c \in Slot, Turns(c), UNCHANGED cur, chk'[c].pc # "lock",
         \A d \in Slot \ {c} : chk[d].life = cur /\ chk[d].pc = "lock" => ~Effective(chk[d], mem'[cur])
  PROVE  QueueInv'
<1>1. \A d \in Slot \ {c} : chk'[d].life = cur /\ chk'[d].pc = "lock" => ~Effective(chk'[d], mem'[cur])
  <2>1. ASSUME NEW d \in Slot \ {c}, chk'[d].life = cur, chk'[d].pc = "lock"
        PROVE  ~Effective(chk'[d], mem'[cur])
    <3>1. Same(chk[d], chk'[d])
      BY OthersSame
    <3>2. chk[d].life = cur /\ chk[d].pc = "lock"
      BY <2>1, <3>1 DEF Same
    <3> QED
      BY <3>1, <3>2, SameKeeps
  <2> QED
    BY <2>1
<1> QED
  BY <1>1 DEF QueueInv

\* A step of a handler of this life: what is to be shown of the room and the others.
LEMMA OwnKept ==
  ASSUME TypeInv, LockInv, LifeInv, Active, misled = 0, NEW c \in Slot, Shape(c), LifeOf(c) = cur,
         RoomInv(mem'[cur], Past, Had', Told', streams),
         chk'[c].pc # "idle" =>
           CheckInv(chk'[c], mem'[cur], Past, Told') /\ HolderInv(chk'[c], mem'[cur]),
         Keeps(c), QueueInv',
         \/ chk[c].pc \in Holding
         \/ \A k \in Kind : mem[cur].pend[k].dlv = None => mem'[cur].pend[k].dlv = None
  PROVE  LifeInv'
<1>1. /\ UNCHANGED <<air, streams, cur, targets>> /\ Turns(c)
  BY DEF Shape, world, proc
<1>2. Past' = Past
  BY <1>1 DEF Past
<1>3. ASSUME NEW d \in Slot, chk'[d].life = cur
      PROVE  CheckInv(chk'[d], mem'[cur], Past, Told') /\ HolderInv(chk'[d], mem'[cur])
  <2>1. CASE chk'[d].pc = "idle"
    BY <2>1 DEF CheckInv, HolderInv, Holding
  <2>2. CASE chk'[d].pc # "idle" /\ d # c
    <3>1. Same(chk[d], chk'[d])
      BY <1>1, <2>2, OthersSame
    <3>2. chk[d].life = cur /\ chk[d].pc # "idle"
      BY <1>3, <2>2, <3>1 DEF Same
    <3>3. CheckInv(chk[d], mem'[cur], Past, Told') /\ HolderInv(chk[d], mem'[cur])
      BY <2>2, <3>2 DEF Keeps
    <3> QED
      BY <3>1, <3>3, SameKeeps
  <2> QED
    BY <2>1, <2>2
<1>4. ForeignInv'
  <2>1. SUFFICES ASSUME NEW d \in Slot, chk'[d].pc = "inflight", chk'[d].life # cur, NEW k \in Kind
                 PROVE  mem'[cur].pend[k].dlv = None
    BY <1>1 DEF ForeignInv
  <2>2. d # c
    BY <1>1, <2>1, TurnsLife
  <2>3. chk[d].pc = "inflight" /\ chk[d].life # cur
    BY <1>1, <2>1, <2>2, OthersSame DEF Same
  <2>4. chk[c].pc \notin Holding
    BY <2>2, <2>3, OneHolder DEF Holding
  <2>5. mem[cur].pend[k].dlv = None
    BY <2>3 DEF LifeInv, ForeignInv
  <2> QED
    BY <2>4, <2>5
<1> QED
  BY <1>1, <1>2, <1>3, <1>4 DEF LifeInv

\* A state without prepared messages does not depend on who had what.
LEMMA RoomPlain ==
  ASSUME NEW s, NEW P, NEW H, NEW H2, NEW T, NEW n, RoomInv(s, P, H, T, n),
         \A k \in Kind : s.pend[k].dlv = None
  PROVE  RoomInv(s, P, H2, T, n)
BY DEF RoomInv, PendTold

\* A handler of a former life touches neither the room nor its handlers.
LEMMA ForeignKept ==
  ASSUME TypeInv, LockInv, LifeInv, Active, misled = 0, NEW c \in Slot, Shape(c), LifeOf(c) # cur,
         \A k \in Kind : Told'[k] \subseteq Told[k],
         Fewer(Had, Told, Had', Told') \/ chk[c].pc = "inflight",
         chk'[c].pc = "inflight" => chk[c].pc = "inflight"
  PROVE  LifeInv'
<1>1. /\ UNCHANGED <<air, streams, cur, targets>> /\ Turns(c) /\ mem'[cur] = mem[cur]
      /\ cur \in Life /\ mem[cur] \in Room /\ streams \in Stream
  <2>1. cur \in Life /\ streams \in Stream /\ mem[cur] \in Room
    BY TypeParts DEF Active, Kinds, Air, RoomsOK
  <2> QED
    BY <2>1 DEF Shape, world, proc, Only
<1>2. Past' = Past
  BY <1>1 DEF Past
<1> DEFINE s == mem[cur]
<1>3. RoomInv(s, Past, Had, Told, streams) /\ QueueInv /\ ForeignInv
  BY DEF LifeInv
<1>4. chk'[c].pc # "idle" => chk'[c].life # cur
  BY <1>1, TurnsLife
<1>5. chk[c].pc # "idle" => chk[c].life # cur
  BY LifeIs
<1>6. streams <= streams
  BY <1>1 DEF Stream
<1>7. RoomInv(s, Past, Had', Told', streams)
  <2>1. CASE Fewer(Had, Told, Had', Told')
    BY <1>1, <1>3, <1>6, <2>1, RoomMono
  <2>2. CASE chk[c].pc = "inflight"
    <3>1. \A k \in Kind : s.pend[k].dlv = None
      BY <1>3, <1>5, <2>2 DEF ForeignInv
    <3>2. RoomInv(s, Past, Had', Told, streams)
      BY <1>3, <3>1, RoomPlain
    <3>3. Fewer(Had', Told, Had', Told')
      BY DEF Fewer
    <3> QED
      BY <1>1, <1>6, <3>2, <3>3, RoomMono
  <2> QED
    BY <2>1, <2>2
<1>8. \A d \in Slot \ {c} : Same(chk[d], chk'[d]) /\ chk'[d].ahead \subseteq chk[d].ahead
  BY <1>1, OthersSame
<1>9. ASSUME NEW d \in Slot, chk'[d].life = cur
      PROVE  CheckInv(chk'[d], s, Past, Told') /\ HolderInv(chk'[d], s)
  <2>1. CASE chk'[d].pc = "idle"
    BY <2>1 DEF CheckInv, HolderInv, Holding
  <2>2. CASE chk'[d].pc # "idle"
    <3>1. d # c
      BY <1>4, <1>9, <2>2
    <3>2. Same(chk[d], chk'[d])
      BY <1>8, <3>1
    <3>3. chk[d].life = cur
      BY <1>9, <3>2 DEF Same
    <3>4. CheckInv(chk[d], s, Past, Told) /\ HolderInv(chk[d], s)
      BY <3>3 DEF LifeInv
    <3>5. Fewer(Had, Told, Had, Told')
      BY DEF Fewer
    <3>6. CheckInv(chk[d], s, Past, Told')
      BY <3>4, <3>5, CheckMono
    <3> QED
      BY <3>2, <3>4, <3>6, SameKeeps
  <2> QED
    BY <2>1, <2>2
<1>10. QueueInv'
  <2>1. mem'[cur'] = mem[cur]
    BY <1>1
  <2>2. SUFFICES ASSUME NEW a \in Slot, NEW d \in Slot, chk'[a].life = cur, chk'[d].life = cur,
                        a \in chk'[d].ahead, chk'[a].pc = "lock", Effective(chk'[a], s),
                        chk'[d].job \in {"began", "ended"}
                 PROVE  Effective(chk'[d], s)
    BY <1>1, <2>1 DEF QueueInv
  <2>3. a # c
    BY <1>4, <2>2
  <2>4. d # c
    <3>1. LockInv'
      BY <1>1, TurnsLock
    <3>2. Locking(d)'
      BY <2>2, <3>1 DEF LockInv
    <3> QED
      BY <1>4, <2>2, <3>2 DEF Locking
  <2>5. /\ Same(chk[d], chk'[d]) /\ Same(chk[a], chk'[a]) /\ a \in chk[d].ahead
        /\ Effective(chk[a], s)
    BY <1>8, <2>2, <2>3, <2>4, SameKeeps
  <2>6. /\ chk[a].life = cur /\ chk[d].life = cur /\ chk[a].pc = "lock"
        /\ chk[d].job \in {"began", "ended"}
    BY <2>2, <2>5 DEF Same
  <2>7. Effective(chk[d], s)
    BY <1>3, <2>5, <2>6 DEF QueueInv
  <2> QED
    BY <2>5, <2>7, SameKeeps
<1>11. ForeignInv'
  <2>1. SUFFICES ASSUME NEW d \in Slot, chk'[d].pc = "inflight", chk'[d].life # cur, NEW k \in Kind
                 PROVE  s.pend[k].dlv = None
    BY <1>1 DEF ForeignInv
  <2>2. chk[d].pc = "inflight" /\ chk[d].life # cur
    <3>1. CASE d = c
      BY <1>5, <2>1, <3>1
    <3>2. CASE d # c
      BY <1>8, <2>1, <3>2 DEF Same
    <3> QED
      BY <3>1, <3>2
  <2> QED
    BY <1>3, <2>2 DEF ForeignInv
<1> QED
  BY <1>1, <1>2, <1>7, <1>9, <1>10, <1>11 DEF LifeInv

\* The invariant while nothing is misled.
Sound == TypeInv /\ DownInv /\ WorldInv /\ LockInv /\ LifeInv /\ OnceInv /\ misled = 0

\* Handlers run only while the bot is up.
LEMMA ShapeUp == ASSUME TypeInv, DownInv, WorldInv, NEW c \in Slot, Shape(c) PROVE up
<1>1. SUFFICES ASSUME ~up PROVE FALSE
  OBVIOUS
<1>2. chk[c].pc = "idle" /\ cur = None
  BY <1>1, IdleIs DEF DownInv
<1> QED
  BY <1>2, NoneAssumption DEF LifeOf, Shape

\* The row is what it was, or what the state of a sound room promises.
RowKept == row' = row \/ (row' # None => StateOK(row', Past, streams))

\* A write of a sound state leaves a sound row.
LEMMA RowKeeps ==
  ASSUME TypeInv, NEW m, RoomsOK(m), Notes(m), Active => StateOK(m[cur], Past, streams)
  PROVE  RowKept
<1>1. Facts(Past, Had, Told, streams)
  BY FactsIs
<1>2. Active => m[cur] \in Room /\ LastKnown(m[cur])
  BY TypeParts DEF RoomsOK, Active, Kinds
<1> QED
  BY <1>1, <1>2, StateRow DEF RowKept, Notes

\* Books that stay in order.
LEMMA OnceKept ==
  ASSUME Sound, up, NEW c \in Slot, Shape(c),
         \A k \in Kind, b \in Stream, x \in Target : sent'[k][b][x] <= Excuses' + 1,
         Told'["start"] \subseteq 0 .. streams, Told'["end"] \subseteq Past,
         \A d \in Slot : chk'[d].pc = "inflight" =>
           chk'[d].to \notin Had'[Head(chk'[d].plan).k][chk'[d].about],
         RowKept
  PROVE  OnceInv'
<1>1. UNCHANGED <<air, streams, up>>
  BY DEF Shape, world, proc
<1>2. Past' = Past
  BY <1>1 DEF Past
<1> QED
  BY <1>1, <1>2 DEF OnceInv, Sound, RowKept, Item

\* A push that starts none and that is accounted for.
Counted(c) == \/ UNCHANGED sent /\ (Excuses' = Excuses \/ Excuses' = Excuses + 1)
              \/ chk[c].pc = "inflight" /\ Push(c) /\ Excuses' = Excuses + 1

\* A push that is accounted for tells nothing new.
LEMMA CountedFewer ==
  ASSUME TypeInv, NEW c \in Slot, Turns(c), Tame(c), Counted(c)
  PROVE  Fewer(Had, Told, Had', Told')
BY StillBooks, PushExcused DEF Counted

\* Who is pushing is pushing what it was.
LEMMA InFlight ==
  ASSUME TypeInv, NEW c \in Slot, Turns(c), Tame(c), NEW d \in Slot, chk'[d].pc = "inflight"
  PROVE  /\ chk[d].pc = "inflight" /\ chk'[d].plan = chk[d].plan /\ chk'[d].about = chk[d].about
         /\ chk'[d].to = chk[d].to /\ Item(d).k \in Kind /\ chk[d].about \in Stream
<1>1. /\ chk[d].pc = "inflight" /\ chk'[d].plan = chk[d].plan /\ chk'[d].about = chk[d].about
      /\ chk'[d].to = chk[d].to
  BY OthersSame DEF Same, Tame
<1> QED
  BY <1>1, HolderIs, StartKnown DEF Holding

\* The books stay in order when every push is accounted for.
LEMMA OnceCalm ==
  ASSUME Sound, up, NEW c \in Slot, Shape(c), Tame(c), Counted(c), RowKept
  PROVE  OnceInv'
<1>1. TypeInv /\ Turns(c)
  BY DEF Sound, Shape
<1>2. Fewer(Had, Told, Had', Told')
  BY <1>1, CountedFewer
<1>3. \A k \in Kind, b \in Stream, x \in Target : sent'[k][b][x] <= Excuses' + 1
  <2>1. /\ Excuses \in Nat
        /\ \A k \in Kind, b \in Stream, x \in Target :
             sent[k][b][x] \in Nat /\ sent[k][b][x] <= Excuses + 1
    BY <1>1, ExcusesIs DEF TypeInv, TypeOK, Sound, OnceInv
  <2>2. CASE UNCHANGED sent /\ (Excuses' = Excuses \/ Excuses' = Excuses + 1)
    BY <2>1, <2>2
  <2>3. CASE chk[c].pc = "inflight" /\ Push(c) /\ Excuses' = Excuses + 1
    <3>1. \A k \in Kind, b \in Stream, x \in Target : sent'[k][b][x] \in {sent[k][b][x], sent[k][b][x] + 1}
      BY <1>1, <2>3, PushIs
    <3> QED
      BY <2>1, <2>3, <3>1
  <2> QED
    BY <2>2, <2>3 DEF Counted
<1>4. Told'["start"] \subseteq 0 .. streams /\ Told'["end"] \subseteq Past
  BY <1>2 DEF Fewer, Kind, Sound, OnceInv
<1>5. ASSUME NEW d \in Slot, chk'[d].pc = "inflight"
      PROVE  chk'[d].to \notin Had'[Head(chk'[d].plan).k][chk'[d].about]
  <2>1. /\ chk[d].pc = "inflight" /\ chk'[d].plan = chk[d].plan /\ chk'[d].about = chk[d].about
        /\ chk'[d].to = chk[d].to /\ Item(d).k \in Kind /\ chk[d].about \in Stream
    BY <1>1, <1>5, InFlight
  <2>2. chk[d].to \notin Had[Item(d).k][chk[d].about]
    BY <2>1 DEF Sound, OnceInv
  <2>3. Had'[Item(d).k][chk[d].about] \subseteq Had[Item(d).k][chk[d].about]
    BY <1>2, <2>1 DEF Fewer
  <2> QED
    BY <2>1, <2>2, <2>3 DEF Item
<1> QED
  BY <1>3, <1>4, <1>5, OnceKept

-----------------------------------------------------------------------------
(* A step of a handler of this life                                          *)

\* What is known of the room, and of its handler in slot c.
LEMMA OwnIs ==
  ASSUME Sound, Active
  PROVE  /\ cur \in Life /\ mem[cur] \in Room /\ LastKnown(mem[cur]) /\ streams \in Stream
         /\ streams <= streams /\ Facts(Past, Had, Told, streams)
         /\ RoomInv(mem[cur], Past, Had, Told, streams)
         /\ QueueInv /\ ForeignInv
         /\ \A c \in Slot : chk[c].life = cur =>
              CheckInv(chk[c], mem[cur], Past, Told) /\ HolderInv(chk[c], mem[cur])
<1>1. /\ cur \in Life /\ mem[cur] \in Room /\ LastKnown(mem[cur]) /\ streams \in Stream
  BY TypeParts DEF Sound, Active, Kinds, RoomsOK, Air
<1>2. streams <= streams
  BY <1>1 DEF Stream
<1> QED
  BY <1>1, <1>2, FactsIs DEF Sound, LifeInv

\* A step that leaves what is recorded and pending alone.
LEMMA OwnStill ==
  ASSUME Sound, Active, NEW c \in Slot, Shape(c), LifeOf(c) = cur, Tame(c), Counted(c),
         Alike(mem[cur], mem'[cur]), mem'[cur].pend = mem[cur].pend, mem'[cur] \in Room,
         chk'[c].pc # "idle" => /\ CheckInv(chk'[c], mem[cur], Past, Told)
                                /\ HolderInv(chk'[c], mem[cur])
                                /\ chk'[c].pc = "lock" => chk[c].pc = "lock"
  PROVE  LifeInv'
<1> DEFINE s == mem[cur]
           t == mem'[cur]
<1>1. TypeInv /\ LockInv /\ Turns(c) /\ UNCHANGED cur /\ misled = 0 /\ LifeInv
  BY DEF Sound, Shape, proc
<1>2. Fewer(Had, Told, Had', Told')
  BY <1>1, CountedFewer
<1>3. /\ cur \in Life /\ s \in Room /\ streams \in Stream /\ streams <= streams
      /\ RoomInv(s, Past, Had, Told, streams) /\ QueueInv
      /\ \A d \in Slot : chk[d].life = cur => CheckInv(chk[d], s, Past, Told) /\ HolderInv(chk[d], s)
  BY OwnIs
<1>4. RoomInv(t, Past, Had', Told', streams)
  <2>1. Aware(t) => Aware(s)
    BY DEF Aware, Pends, Alike
  <2>2. RoomInv(t, Past, Had, Told, streams)
    BY <1>3, <2>1, RoomSame DEF Alike
  <2> QED
    BY <1>2, <1>3, <2>2, RoomMono
<1>5. \A r : /\ CheckInv(r, s, Past, Told) => CheckInv(r, t, Past, Told')
             /\ HolderInv(r, s) => HolderInv(r, t)
  <2>1. ASSUME NEW r, CheckInv(r, s, Past, Told) PROVE CheckInv(r, t, Past, Told')
    <3>1. CheckInv(r, t, Past, Told)
      BY <2>1, CheckAlike
    <3> QED
      BY <1>2, <3>1, CheckMono
  <2>2. Hi(t) = Hi(s)
    BY HiSame DEF Alike
  <2>3. \A r : HolderInv(r, s) => HolderInv(r, t)
    <3>1. t.prev = s.prev /\ t.start = s.start /\ t.pend = s.pend
      BY DEF Alike
    <3> HIDE DEF s, t
    <3> QED
      BY <2>2, <3>1, ZenonT(60) DEF HolderInv
  <2> QED
    BY <2>1, <2>3
<1>6. Keeps(c)
  BY <1>3, <1>5 DEF Keeps
<1>7. QueueInv'
  <2>1. t.prev = s.prev
    BY DEF Alike
  <2>2. chk'[c].pc # "lock" \/ chk[c].pc = "lock"
    OBVIOUS
  <2> QED
    BY <1>1, <1>3, <2>1, <2>2, QueueStays
<1> QED
  BY <1>1, <1>4, <1>5, <1>6, <1>7, OwnKept

\* A step of the handler that has the lock.
LEMMA OwnHolds ==
  ASSUME Sound, Active, NEW c \in Slot, Shape(c), LifeOf(c) = cur, chk[c].pc \in Holding,
         Alike(mem[cur], mem'[cur]), RoomInv(mem'[cur], Past, Had', Told', streams),
         \A r : mem[cur].init /\ CheckInv(r, mem[cur], Past, Told) => CheckInv(r, mem[cur], Past, Told'),
         chk'[c].pc # "idle" => /\ chk'[c].pc \in Holding /\ chk'[c].epoch = chk[c].epoch
                                /\ HolderInv(chk'[c], mem'[cur])
  PROVE  LifeInv'
<1> DEFINE s == mem[cur]
           t == mem'[cur]
<1>1. TypeInv /\ LockInv /\ Turns(c) /\ UNCHANGED cur /\ misled = 0 /\ LifeInv
  BY DEF Sound, Shape, proc
<1>2. /\ QueueInv /\ chk[c].life = cur
      /\ \A d \in Slot : chk[d].life = cur => CheckInv(chk[d], s, Past, Told) /\ HolderInv(chk[d], s)
  BY <1>1, OwnIs, LifeIs DEF Holding
<1>3. s.init /\ chk[c].epoch <= s.epoch
  <2>1. CheckInv(chk[c], s, Past, Told)
    BY <1>2
  <2> QED
    BY <2>1 DEF CheckInv, Holding
<1>4. \A r : CheckInv(r, s, Past, Told) => CheckInv(r, t, Past, Told')
  BY <1>3, CheckAlike
<1>5. Keeps(c)
  <2>1. \A d \in Slot \ {c} : chk[d].pc \notin Holding
    BY <1>1, OneHolder
  <2>2. \A d \in Slot \ {c} : HolderInv(chk[d], t)
    BY <2>1 DEF HolderInv
  <2> QED
    BY <1>2, <1>4, <2>2 DEF Keeps
<1>6. chk'[c].pc # "idle" => CheckInv(chk'[c], t, Past, Told')
  <2>1. ASSUME chk'[c].pc # "idle" PROVE CheckInv(chk'[c], t, Past, Told')
    <3>1. chk'[c].pc \in Holding /\ chk'[c].epoch = chk[c].epoch
      BY <2>1
    <3>2. (t.init <=> s.init) /\ t.epoch = s.epoch
      BY DEF Alike
    <3> QED
      BY <1>3, <3>1, <3>2 DEF CheckInv, Holding
  <2> QED
    BY <2>1
<1>7. QueueInv'
  <2>1. t.prev = s.prev
    BY DEF Alike
  <2>2. chk'[c].pc # "lock"
    BY DEF Holding
  <2> QED
    BY <1>1, <1>2, <2>1, <2>2, QueueStays
<1> QED
  BY <1>1, <1>5, <1>6, <1>7, OwnKept

\* Another life, or none: nothing to show but the books.
LEMMA CalmKept ==
  ASSUME Sound, NEW c \in Slot, Shape(c), Tame(c), Counted(c), RowKept,
         Active /\ LifeOf(c) = cur => LifeInv'
  PROVE  LifeInv' /\ OnceInv'
<1>1. TypeInv /\ DownInv /\ WorldInv /\ LockInv /\ LifeInv /\ misled = 0 /\ Turns(c)
  BY DEF Sound, Shape
<1>2. OnceInv'
  <2>1. up
    BY <1>1, ShapeUp
  <2> QED
    BY <2>1, OnceCalm
<1>3. CASE ~Active
  BY <1>2, <1>3 DEF Shape, proc, Active, LifeInv
<1>4. CASE Active /\ LifeOf(c) # cur
  <2>1. Fewer(Had, Told, Had', Told')
    BY <1>1, CountedFewer
  <2> QED
    <3>1. \A k \in Kind : Told'[k] \subseteq Told[k]
      BY <2>1 DEF Fewer
    <3>2. chk'[c].pc = "inflight" => chk[c].pc = "inflight"
      BY DEF Tame
    <3> QED
      BY <1>1, <1>2, <1>4, <2>1, <3>1, <3>2, ForeignKept
<1> QED
  BY <1>2, <1>3, <1>4

\* No push, nothing spent but on failures or the database.
LEMMA FreeIs ==
  ASSUME TypeInv, NEW c \in Slot, UNCHANGED sent,
         \/ UNCHANGED spent \/ Spends \/ spent' = [spent EXCEPT !.fail = @ + 1]
         \/ spent' = [spent EXCEPT !.cut = @ + 1]
  PROVE  Counted(c)
BY ExcusesIs DEF Counted

\* A row that is left alone.
LEMMA RowSame == ASSUME UNCHANGED row PROVE RowKept
BY DEF RowKept

\* What the server says is news for whoever asked.
LEMMA AnswerKnows ==
  ASSUME Sound, Active, NEW r \in SlotRec, CheckInv(r, mem[cur], Past, Told), r.pc \in {"init", "fetch"}
  PROVE  CheckInv(Heard(r, air), mem[cur], Past, Told)
<1> DEFINE s == mem[cur]
           q == Heard(r, air)
           n == streams
<1>1. /\ air \in Snapshot /\ (air.st = "live" => air.n = n) /\ n \in Stream
  BY TypeParts DEF Sound, Air
<1>2. q.snap = air /\ q.pc = (IF r.pc = "init" THEN "record" ELSE "got") /\ q.epoch = r.epoch
  BY <1>1, HeardIs
<1>3. /\ Stream \subseteq Nat /\ s \in Room /\ RoomInv(s, Past, Had, Told, n) /\ Facts(Past, Had, Told, n)
  BY OwnIs DEF Stream
<1>4. s.start \in Nat /\ s.last \in Nat /\ s.start <= n /\ s.last <= n
  BY <1>3 DEF Room, RoomInv, StateOK
<1>5. /\ Told["start"] \subseteq 0 .. n /\ Told["end"] \subseteq Past
  BY DEF Sound, OnceInv
<1>6. CASE air.st = "live"
  <2>1. \A b \in Past : b \in Nat /\ b < n
    BY <1>1, <1>3, <1>6 DEF Past
  <2>2. \A b \in Told["start"] : b \in Nat /\ b <= n
    BY <1>5
  <2>3. \A b \in Told["end"] : b \in Nat /\ b < n
    BY <1>5, <2>1
  <2>4. s.init => Beyond(n, s, Told)
    <3>1. ASSUME s.init, NEW b \in Told["start"] PROVE b < n \/ b <= Hi(s)
      <4>1. CASE s.prev = "live"
        BY <1>3, <3>1, <4>1 DEF RoomInv, Known, Aware
      <4>2. CASE s.prev # "live"
        BY <1>3, <2>1, <3>1, <4>2 DEF RoomInv, Known, Aware
      <4> QED
        BY <4>1, <4>2
    <3> QED
      BY <2>3, <3>1 DEF Beyond, Kind
  <2>5. s.prev # "live" => Hi(s) < n
    BY <1>3, <2>1 DEF RoomInv, StateOK
  <2>6. r.pc = "fetch" => s.init
    BY DEF CheckInv
  <2>7. /\ (~s.init => r.pc \in {"init", "record"}) /\ r.epoch <= s.epoch
        /\ q.pc # "idle" /\ q.pc # "fetch" /\ q.pc # "lock"
        /\ q.pc = "got" => r.pc = "fetch"
        /\ q.snap.st = "live" /\ q.snap.n = n /\ q.epoch = r.epoch
        /\ s.start <= n
    BY <1>1, <1>2, <1>4, <1>6 DEF CheckInv
  <2> HIDE DEF q, s
  <2>8. CheckInv(q, s, Past, Told)
    BY <1>2, <2>2, <2>3, <2>4, <2>5, <2>6, <2>7 DEF CheckInv
  <2> QED
    BY <2>8 DEF q, s
<1>7. CASE air.st # "live"
  <2>1. Past = {b \in Stream : b <= n}
    BY <1>7 DEF Past
  <2>2. Told["start"] \subseteq Past
    <3>1. Told["start"] \subseteq Stream /\ \A b \in 0 .. n : b <= n
      BY <1>1, <1>3 DEF Facts, Kind, Stream
    <3> QED
      BY <1>5, <2>1, <3>1
  <2>3. Hi(s) \in Past
    <3>1. Hi(s) \in {s.start, s.last} /\ s.start \in Stream /\ s.last \in Stream
      BY <1>3, <1>4, HiIs DEF Room
    <3> QED
      BY <1>4, <2>1, <3>1
  <2>4. /\ (~s.init => r.pc = "init") /\ r.epoch <= s.epoch
        /\ q.pc # "idle" /\ q.pc # "fetch" /\ q.pc # "lock"
        /\ q.pc = "record" <=> r.pc = "init"
        /\ q.snap.st # "live" /\ q.epoch = r.epoch
    BY <1>2, <1>7 DEF CheckInv
  <2> HIDE DEF q, s
  <2>5. CheckInv(q, s, Past, Told)
    BY <2>2, <2>3, <2>4 DEF CheckInv
  <2> QED
    BY <2>5 DEF q, s
<1> QED
  BY <1>6, <1>7

\* The server answers: what it says is not older than what was known.
LEMMA AnswerKept == ASSUME Sound, NEW c \in Slot, Answer(c) PROVE LifeInv' /\ OnceInv'
<1> DEFINE q == Heard(chk[c], air)
<1>1. TypeInv
  BY DEF Sound
<1>2. /\ chk[c].pc \in {"init", "fetch"} /\ chk' = [chk EXCEPT ![c] = q]
      /\ UNCHANGED <<world, db, proc, mem, saving, reload, hist, spent>>
  BY <1>1, AnswerIs
<1>3. chk[c] \in SlotRec /\ chk \in [Slot -> SlotRec] /\ air \in Snapshot \cup {None}
  BY <1>1 DEF TypeInv, TypeOK
<1>4. q.pc \in {"record", "got"} /\ chk'[c] = q
  <2>1. q.pc \in {"record", "got"}
    BY <1>3, HeardIs
  <2> HIDE DEF q
  <2> QED
    BY <1>2, <1>3, <2>1
<1>5. Shape(c)
  BY <1>1, AnswerShape
<1>6. Tame(c) /\ Counted(c) /\ RowKept
  BY <1>1, <1>2, <1>4, FreeIs, RowSame DEF Tame, hist, db
<1>7. ASSUME Active, LifeOf(c) = cur PROVE LifeInv'
  <2>1. chk[c].life = cur /\ mem[cur] \in Room
    BY <1>1, <1>2, <1>7, LifeIs, OwnIs
  <2>2. CheckInv(q, mem[cur], Past, Told)
    <3>1. CheckInv(chk[c], mem[cur], Past, Told)
      BY <1>7, <2>1, OwnIs
    <3> QED
      BY <1>2, <1>3, <1>7, <3>1, AnswerKnows
  <2>3. HolderInv(q, mem[cur])
    BY <1>4 DEF HolderInv, Holding
  <2>4. Alike(mem[cur], mem'[cur]) /\ mem'[cur] = mem[cur]
    BY <1>2 DEF Alike
  <2> HIDE DEF q
  <2> QED
    BY <1>4, <1>5, <1>6, <1>7, <2>1, <2>2, <2>3, <2>4, OwnStill
<1> QED
  BY <1>5, <1>6, <1>7, CalmKept

\* A handler that leaves, and leaves what is recorded and pending alone.
LEMMA LeaveKept ==
  ASSUME Sound, NEW c \in Slot, Shape(c), Leave(c), Counted(c), RowKept,
         Active => /\ mem'[cur] \in Room /\ Alike(mem[cur], mem'[cur])
                   /\ mem'[cur].pend = mem[cur].pend
  PROVE  LifeInv' /\ OnceInv'
<1>1. chk'[c].pc = "idle"
  BY LeaveSteps, IdleIs DEF Sound
<1>2. Tame(c)
  BY <1>1 DEF Tame
<1>3. ASSUME Active, LifeOf(c) = cur PROVE LifeInv'
  BY <1>1, <1>2, <1>3, OwnStill
<1> QED
  BY <1>2, <1>3, CalmKept

\* An answer that is out of date is dropped.
LEMMA DiscardKept == ASSUME Sound, NEW c \in Slot, Discard(c) PROVE LifeInv' /\ OnceInv'
<1>1. TypeInv /\ Leave(c) /\ UNCHANGED <<world, db, proc, mem, saving, reload, hist, spent>>
  BY DEF Sound, Discard
<1>2. Shape(c) /\ Counted(c) /\ RowKept
  BY <1>1, DiscardShape, FreeIs, RowSame DEF hist, db
<1>3. Active => /\ mem'[cur] \in Room /\ Alike(mem[cur], mem'[cur])
                /\ mem'[cur].pend = mem[cur].pend
  BY <1>1, OwnIs DEF Alike
<1> QED
  BY <1>1, <1>2, <1>3, LeaveKept

\* The websocket is connected.
Wired(s) == [s EXCEPT !.ws = TRUE]

\* The state of a room whose websocket is connected.
LEMMA WiredIs == ASSUME NEW s \in Room PROVE Wired(s) \in Room /\ Alike(s, Wired(s)) /\ Wired(s).pend = s.pend
BY DEF Wired, Room, Alike

\* The request fails.
LEMMA AnswerFailKept == ASSUME Sound, NEW c \in Slot, AnswerFail(c) PROVE LifeInv' /\ OnceInv'
<1>1. TypeInv /\ chk[c] \in SlotRec /\ chk \in [Slot -> SlotRec] /\ mem \in [Life -> Room]
  BY DEF Sound, TypeInv, TypeOK
<1>2. /\ chk[c].pc \in {"init", "fetch"} /\ spent' = [spent EXCEPT !.fail = @ + 1]
      /\ UNCHANGED <<world, db, proc, saving, reload, hist>>
      /\ \/ Leave(c) /\ mem' = Puts(mem, c, Wired(mem[chk[c].life]))
         \/ /\ chk' = [chk EXCEPT ![c] = Unanswered(chk[c])] /\ UNCHANGED mem
            /\ chk[c].pc = "fetch"
  BY <1>1, AnswerFailIs DEF Wired
<1>3. Shape(c) /\ Counted(c) /\ RowKept
  BY <1>1, <1>2, AnswerFailShape, FreeIs, RowSame DEF hist, db
<1>4. CASE Leave(c) /\ mem' = Puts(mem, c, Wired(mem[chk[c].life]))
  <2>1. ASSUME Active
        PROVE  mem'[cur] \in Room /\ Alike(mem[cur], mem'[cur]) /\ mem'[cur].pend = mem[cur].pend
    <3>1. cur \in Life /\ mem[cur] \in Room
      BY <2>1, OwnIs
    <3>2. CASE chk[c].life = cur
      <4>1. mem'[cur] = Wired(mem[cur])
        BY <1>1, <1>4, <3>1, <3>2 DEF Puts
      <4> QED
        BY <3>1, <4>1, WiredIs
    <3>3. CASE chk[c].life # cur
      <4>1. mem'[cur] = mem[cur]
        BY <1>1, <1>4, <3>1, <3>3 DEF Puts
      <4> QED
        BY <3>1, <4>1 DEF Alike
    <3> QED
      BY <3>2, <3>3
  <2> QED
    BY <1>3, <1>4, <2>1, LeaveKept
<1>5. CASE /\ chk' = [chk EXCEPT ![c] = Unanswered(chk[c])] /\ UNCHANGED mem
           /\ chk[c].pc = "fetch"
  <2> DEFINE q == Unanswered(chk[c])
  <2>1. q.pc = "got" /\ q.snap = chk[c].snap /\ q.epoch = chk[c].epoch
    BY <1>1, UnansweredIs
  <2>2. chk' = [chk EXCEPT ![c] = q]
    BY <1>5
  <2> HIDE DEF q
  <2>3. chk'[c] = q
    BY <1>1, <2>2
  <2>4. Tame(c)
    BY <2>1, <2>3 DEF Tame
  <2>5. ASSUME Active, LifeOf(c) = cur PROVE LifeInv'
    <3>1. chk[c].life = cur /\ mem[cur] \in Room
      BY <1>1, <1>5, <2>5, LifeIs, OwnIs
    <3>2. CheckInv(chk[c], mem[cur], Past, Told)
      BY <2>5, <3>1, OwnIs
    <3>3. CheckInv(q, mem[cur], Past, Told)
      BY <1>5, <2>1, <3>2 DEF CheckInv
    <3>4. HolderInv(q, mem[cur])
      BY <2>1 DEF HolderInv, Holding
    <3>5. Alike(mem[cur], mem'[cur]) /\ mem'[cur] = mem[cur]
      BY <1>5 DEF Alike
    <3> QED
      BY <1>3, <2>1, <2>3, <2>4, <2>5, <3>1, <3>3, <3>4, <3>5, OwnStill
  <2> QED
    BY <1>3, <2>4, <2>5, CalmKept
<1> QED
  BY <1>2, <1>4, <1>5

\* A push that is under way counts, when it ends with nobody to account for it.
LEMMA PushOnce ==
  ASSUME Sound, NEW c \in Slot, Shape(c), chk[c].pc = "inflight", chk'[c].pc # "inflight",
         Push(c), Excuses' = Excuses, RowKept
  PROVE  OnceInv'
<1>1. TypeInv /\ DownInv /\ WorldInv /\ LockInv /\ OnceInv /\ misled = 0 /\ Turns(c)
  BY DEF Sound, Shape
<1>2. Tame(c)
  BY DEF Tame
<1>3. \A k \in Kind : Told'[k] \subseteq Told[k]
  BY <1>1, <1>2, PushTold
<1>4. /\ Item(c).k \in Kind /\ chk[c].about \in Stream /\ chk[c].to \in Target
      /\ \A k \in Kind, b \in Stream, x \in Target :
           sent'[k][b][x] = IF k = Item(c).k /\ b = chk[c].about /\ x = chk[c].to
                              THEN sent[k][b][x] + 1 ELSE sent[k][b][x]
  BY <1>1, PushIs
<1>5. \A k \in Kind, b \in Stream, x \in Target : sent'[k][b][x] <= Excuses' + 1
  <2>1. Excuses \in Nat /\ sent \in [Kind -> [Stream -> [Target -> Nat]]]
    BY <1>1, ExcusesIs DEF TypeInv, TypeOK
  <2>2. \A k \in Kind, b \in Stream, x \in Target : sent[k][b][x] \in Nat /\ sent[k][b][x] <= Excuses + 1
    BY <1>1, <2>1 DEF OnceInv
  <2>3. chk[c].to \notin Had[Item(c).k][chk[c].about]
    BY <1>1 DEF OnceInv
  <2>4. ~(sent[Item(c).k][chk[c].about][chk[c].to] > Excuses)
    BY <1>4, <2>3 DEF Had
  <2>5. sent[Item(c).k][chk[c].about][chk[c].to] \in Nat
    BY <1>4, <2>2
  <2>6. sent[Item(c).k][chk[c].about][chk[c].to] + 1 <= Excuses + 1
    BY <2>1, <2>4, <2>5
  <2> QED
    BY <1>4, <2>2, <2>6
<1>6. Told'["start"] \subseteq 0 .. streams /\ Told'["end"] \subseteq Past
  BY <1>1, <1>3 DEF Kind, OnceInv
<1>7. \A d \in Slot : chk'[d].pc # "inflight"
  BY <1>1, OneHolder, OthersSame DEF Same, Holding
<1>8. up
  BY <1>1, ShapeUp
<1> QED
  BY <1>5, <1>6, <1>7, <1>8, OnceKept

\* A handler is cancelled: it leaves, or its shielded push goes on.
LEMMA CancelKept == ASSUME Sound, NEW c \in Slot, Cancel(c) PROVE LifeInv' /\ OnceInv'
<1>1. /\ TypeInv /\ WorldInv /\ misled = 0 /\ chk[c] \in SlotRec /\ chk \in [Slot -> SlotRec]
  BY DEF Sound, TypeInv, TypeOK
<1>2. /\ chk[c].pc # "idle"
      /\ UNCHANGED <<world, db, proc, mem, saving, reload, settled, base, misled>>
      /\ (reload = "remove" /\ UNCHANGED spent) \/ spent' = [spent EXCEPT !.cut = @ + 1]
      /\ \/ chk' = [chk EXCEPT ![c] = Halted(chk[c])] /\ UNCHANGED sent
         \/ Leave(c) /\ (UNCHANGED sent \/ (chk[c].pc = "inflight" /\ Push(c)))
  BY CancelIs
<1>3. Shape(c) /\ RowKept
  BY <1>1, <1>2, CancelShape, RowSame DEF db
<1>4. CASE chk' = [chk EXCEPT ![c] = Halted(chk[c])] /\ UNCHANGED sent
  <2> DEFINE q == Halted(chk[c])
  <2>1. Same(chk[c], q)
    BY <1>1, HaltedIs DEF Same
  <2>2. chk' = [chk EXCEPT ![c] = q]
    BY <1>4
  <2> HIDE DEF q
  <2>3. chk'[c] = q
    BY <1>1, <2>2
  <2>4. Tame(c) /\ Counted(c)
    BY <1>1, <1>2, <1>4, <2>1, <2>3, FreeIs DEF Tame, Same
  <2>5. ASSUME Active, LifeOf(c) = cur PROVE LifeInv'
    <3>1. chk[c].life = cur /\ mem[cur] \in Room
      BY <1>1, <1>2, <2>5, LifeIs, OwnIs
    <3>2. CheckInv(chk[c], mem[cur], Past, Told) /\ HolderInv(chk[c], mem[cur])
      BY <2>5, <3>1, OwnIs
    <3>3. CheckInv(q, mem[cur], Past, Told) /\ HolderInv(q, mem[cur])
      BY <2>1, <3>2, SameKeeps
    <3>4. Alike(mem[cur], mem'[cur]) /\ mem'[cur] = mem[cur]
      BY <1>2 DEF Alike
    <3>5. q.pc = chk[c].pc
      BY <2>1 DEF Same
    <3> QED
      BY <1>3, <2>3, <2>4, <2>5, <3>1, <3>3, <3>4, <3>5, OwnStill
  <2> QED
    BY <1>3, <2>4, <2>5, CalmKept
<1>5. CASE Leave(c) /\ Counted(c)
  <2>1. Active => /\ mem'[cur] \in Room /\ Alike(mem[cur], mem'[cur])
                  /\ mem'[cur].pend = mem[cur].pend
    BY <1>2, OwnIs DEF Alike
  <2> QED
    BY <1>3, <1>5, <2>1, LeaveKept
<1>6. CASE Leave(c) /\ chk[c].pc = "inflight" /\ Push(c) /\ reload = "remove" /\ UNCHANGED spent
  <2>1. Excuses' = Excuses
    BY <1>6 DEF Excuses
  <2>2. chk'[c].pc # "inflight"
    BY <1>1, <1>6, LeaveSteps, IdleIs
  <2>3. OnceInv'
    BY <1>3, <1>6, <2>1, <2>2, PushOnce
  <2>4. ~Active'
    BY <1>1, <1>2, <1>6 DEF WorldInv, Active, proc
  <2> QED
    BY <2>3, <2>4 DEF LifeInv
<1>7. CASE Leave(c) /\ ~Counted(c)
  <2>1. Excuses' = Excuses + 1 \/ (reload = "remove" /\ UNCHANGED spent)
    BY <1>1, <1>2, ExcusesIs
  <2>2. UNCHANGED sent => Counted(c)
    BY <1>1, <1>2, FreeIs
  <2> QED
    BY <1>2, <1>6, <1>7, <2>1, <2>2 DEF Counted
<1> QED
  BY <1>2, <1>4, <1>5, <1>7

\* A handler that has no lock, in a state that has no baseline yet.
LEMMA EarlyIs ==
  ASSUME Sound, Active, ~mem[cur].init, NEW d \in Slot, chk[d].life = cur
  PROVE  chk[d].pc \in {"idle", "init", "record"} /\ \A s : HolderInv(chk[d], s)
<1>1. CheckInv(chk[d], mem[cur], Past, Told)
  BY OwnIs
<1>2. chk[d].pc \in {"idle", "init", "record"}
  BY <1>1 DEF CheckInv
<1>3. \A s : HolderInv(chk[d], s)
  BY <1>2 DEF HolderInv, Holding
<1> QED
  BY <1>2, <1>3

\* The first answer is the baseline; a second one would be misled.
LEMMA RecordKept ==
  ASSUME Sound, NEW c \in Slot, Record(c), misled' = 0 PROVE LifeInv' /\ OnceInv'
<1> DEFINE a == chk[c].snap
           s == mem[cur]
           t == Baseline(s, a)
<1>1. /\ TypeInv /\ LockInv /\ LifeInv /\ misled = 0
      /\ chk[c] \in SlotRec /\ mem \in [Life -> Room] /\ streams \in Stream
  BY DEF Sound, TypeInv, TypeOK
<1>2. /\ chk[c].pc = "record" /\ Leave(c) /\ a \in Snapshot
      /\ SnapOK(a, streams)
      /\ Valid(c) => /\ mem' = [mem EXCEPT ![chk[c].life] = Baseline(mem[chk[c].life], a)]
                     /\ Notes(mem') /\ Spends
                     /\ misled' = IF mem[chk[c].life].init THEN misled + 1 ELSE misled
      /\ ~Valid(c) => UNCHANGED <<mem, row, spent, base, misled>>
      /\ UNCHANGED <<world, cfg, proc, saving, reload, sent, settled>>
  BY <1>1, RecordIs
<1>3. Shape(c) /\ Turns(c) /\ chk'[c].pc = "idle" /\ LifeOf(c) = chk[c].life
  BY <1>1, <1>2, RecordShape, LeaveSteps, IdleIs, LifeIs DEF Shape
<1>4. Tame(c) /\ Counted(c)
  BY <1>1, <1>2, <1>3, FreeIs DEF Tame
<1>5. CASE ~Valid(c)
  <2>1. Active => /\ mem'[cur] \in Room /\ Alike(mem[cur], mem'[cur])
                  /\ mem'[cur].pend = mem[cur].pend
    BY <1>2, <1>5, OwnIs DEF Alike
  <2>2. RowKept
    BY <1>2, <1>5, RowSame
  <2> QED
    BY <1>2, <1>3, <1>4, <2>1, <2>2, LeaveKept
<1>6. CASE Valid(c)
  <2>1. cur = chk[c].life /\ cur \in Life /\ cur # None /\ Active
    BY <1>1, <1>6, NoneAssumption DEF Valid, SlotRec, Active
  <2>2. ~s.init
    BY <1>1, <1>2, <1>6, <2>1
  <2>3. mem'[cur] = t
    BY <1>1, <1>2, <1>6, <2>1
  <2>4. /\ s \in Room /\ RoomInv(s, Past, Had, Told, streams)
        /\ Facts(Past, Had, Told, streams) /\ CheckInv(chk[c], s, Past, Told)
        /\ \A d \in Slot : chk[d].life = cur => CheckInv(chk[d], s, Past, Told)
    BY <2>1, OwnIs
  <2>5. a.n \in Stream /\ a.n <= streams
    BY <1>2, NoneAssumption DEF SnapOK, Snapshot
  <2>6. /\ RoomInv(t, Past, Had, Told, streams)
        /\ \A q : CheckInv(q, s, Past, Told) => CheckInv(q, t, Past, Told)
    BY <1>2, <2>2, <2>4, <2>5, RoomBaseline
  <2>7. t \in Room /\ \A k \in Kind : t.pend[k] = Nothing
    BY <1>2, <2>4, BaselineIs
  <2>8. Fewer(Had, Told, Had', Told')
    BY <1>1, <1>3, <1>4, CountedFewer
  <2> HIDE DEF t, s
  <2>9. RoomInv(t, Past, Had', Told', streams)
    <3>1. streams <= streams /\ Past \subseteq Past
      BY <1>1 DEF Stream
    <3> QED
      BY <1>1, <2>6, <2>7, <2>8, <3>1, RoomMono
  <2>10. \A q : CheckInv(q, s, Past, Told) => CheckInv(q, t, Past, Told')
    <3>1. Past \subseteq Past
      OBVIOUS
    <3> QED
      BY <2>6, <2>8, <3>1, CheckMono
  <2>11. \A d \in Slot : chk[d].life = cur =>
            chk[d].pc \in {"idle", "init", "record"} /\ HolderInv(chk[d], t)
    BY <2>1, <2>2, EarlyIs DEF s
  <2>12. Keeps(c)
    BY <2>3, <2>4, <2>10, <2>11 DEF Keeps
  <2>13. QueueInv'
    BY <1>1, <1>2, <1>3, <2>11, QueueVain DEF proc
  <2>14. \A k \in Kind : mem'[cur].pend[k].dlv = None
    BY <2>3, <2>7, NothingIs
  <2>15. LifeInv'
    BY <1>1, <1>3, <2>1, <2>3, <2>9, <2>12, <2>13, <2>14, OwnKept
  <2>16. RowKept
    <3>1. RoomsOK(mem')
      <4>1. TypeInv'
        BY <1>1, RecordType
      <4> QED
        BY <4>1 DEF TypeInv, TypeOK, RoomsOK
    <3>2. StateOK(mem'[cur], Past, streams)
      BY <2>3, <2>6 DEF RoomInv
    <3> QED
      BY <1>1, <1>2, <1>6, <3>1, <3>2, RowKeeps
  <2> QED
    BY <1>3, <1>4, <2>15, <2>16, CalmKept
<1> QED
  BY <1>5, <1>6

\* A step of the handler with the lock that starts no push, nor counts one.
LEMMA HoldsKept ==
  ASSUME Sound, NEW c \in Slot, Shape(c), chk[c].pc \in Holding, Tame(c), Counted(c), RowKept,
         Active /\ chk[c].life = cur =>
           /\ mem'[cur] \in Room /\ Alike(mem[cur], mem'[cur])
           /\ RoomInv(mem'[cur], Past, Had, Told, streams)
           /\ chk'[c].pc # "idle" => /\ chk'[c].pc \in Holding /\ chk'[c].epoch = chk[c].epoch
                                     /\ HolderInv(chk'[c], mem'[cur])
  PROVE  LifeInv' /\ OnceInv'
<1>1. TypeInv /\ Turns(c) /\ LifeOf(c) = chk[c].life
  BY LifeIs DEF Sound, Shape, Holding
<1>2. Fewer(Had, Told, Had', Told')
  BY <1>1, CountedFewer
<1>3. ASSUME Active, LifeOf(c) = cur PROVE LifeInv'
  <2>1. streams \in Stream /\ streams <= streams /\ Past \subseteq Past
    BY <1>3, OwnIs
  <2>2. RoomInv(mem'[cur], Past, Had', Told', streams)
    BY <1>1, <1>2, <1>3, <2>1, RoomMono
  <2>3. \A r : CheckInv(r, mem[cur], Past, Told) => CheckInv(r, mem[cur], Past, Told')
    BY <1>2, <2>1, CheckMono
  <2> QED
    BY <1>1, <1>3, <2>2, <2>3, OwnHolds
<1> QED
  BY <1>3, CalmKept

\* What the handler turns on is on.
LEMMA RaisesOn ==
  ASSUME TypeInv, NEW c \in Slot, chk[c].pc \in Holding, Item(c) # Save,
         NEW s, HolderInv(chk[c], s)
  PROVE  \A k \in Raises(c) : s.pend[k].on
<1>1. Item(c) \in Items
  BY HolderIs
<1>2. ASSUME NEW k \in Kind, k = Item(c).k, chk[c].pc # "next" PROVE s.pend[k].on
  BY <1>2 DEF HolderInv, Item
<1>3. ASSUME NEW k \in Kind, k = Item(c).k, chk[c].pc = "next", Item(c).how = "push" PROVE s.pend[k].on
  <2>1. Item(c) \in {PushStart, PushEnd}
    BY <1>1, <1>3, ItemIs DEF Items
  <2>2. CASE Item(c) = PushStart
    BY <1>3, <2>2 DEF HolderInv, Item
  <2>3. CASE Item(c) = PushEnd
    BY <1>3, <2>3, ItemIs DEF HolderInv, Item
  <2> QED
    BY <2>1, <2>2, <2>3
<1>4. Item(c) = CatchUp => s.pend["end"].on
  BY DEF HolderInv, Item
<1> QED
  BY <1>2, <1>3, <1>4 DEF Raises, Holding

\* The next item of a plan is ready when the one before is done.
LEMMA NextReady ==
  ASSUME TypeInv, NEW c \in Slot, chk[c].pc \in Holding, Len(chk[c].plan) # 1,
         NEW s, HolderInv(chk[c], s), NEW t, t.prev = s.prev,
         Item(c) = CatchUp /\ s.pend["end"].on => t.pend["end"].on,
         NEW q, q.pc = "next", q.plan = Tail(chk[c].plan)
  PROVE  HolderInv(q, t)
<1>1. chk[c].plan \in Plans /\ chk[c].plan # <<>>
  BY HolderIs
<1>2. /\ Head(q.plan) \notin {PushStart, CatchUp}
      /\ Head(q.plan) = PushEnd => Item(c) = CatchUp
  BY <1>1, PlanIs DEF Item
<1>3. Item(c) = CatchUp => s.prev # "live" /\ s.pend["end"].on
  BY DEF HolderInv, Item
<1> QED
  BY <1>2, <1>3 DEF HolderInv

\* A delivery that is over, from the state b, which is the one in memory or prepared from it.
LEMMA ClosesKept ==
  ASSUME Sound, NEW c \in Slot, chk[c].pc \in Holding, Item(c) # Save,
         NEW b, RoomOK(b), b.last = mem[chk[c].life].last, Closes(c, b),
         Item(c).k = "start" /\ (chk[c].pc # "next" \/ Item(c).how = "push") => mem[chk[c].life].last # 0,
         Active /\ chk[c].life = cur =>
           /\ Alike(mem[cur], b) /\ RoomInv(b, Past, Had, Told, streams)
           /\ \A k \in Kind : b.pend[k].on <=> mem[cur].pend[k].on,
         UNCHANGED <<world, cfg, proc, saving, reload, hist>>
  PROVE  LifeInv' /\ OnceInv'
<1>1. /\ TypeInv /\ chk \in [Slot -> SlotRec] /\ mem \in [Life -> Room]
      /\ RoomsOK(mem) /\ chk[c] \in SlotRec /\ chk[c].life \in Life
  BY TypeParts DEF Sound, TypeInv, TypeOK, SlotRec
<1>2. PICK t1, t \in Room :
        /\ Changes(c, b, t1) /\ Changes(c, b, t)
        /\ mem' = Puts(mem, c, t) /\ Notes(Puts(mem, c, t1)) /\ Spends
        /\ Goes(c)
  BY DEF Closes
<1>3. Shape(c)
  BY <1>1, ClosesShape
<1>4. RoomOK(t1) /\ RoomOK(t)
  BY <1>1, <1>2, ChangesType
<1>5. Active /\ chk[c].life = cur =>
        /\ HolderInv(chk[c], mem[cur]) /\ RoomInv(t1, Past, Had, Told, streams)
        /\ RoomInv(t, Past, Had, Told, streams) /\ Alike(mem[cur], t)
  <2> SUFFICES ASSUME Active, chk[c].life = cur
               PROVE  /\ HolderInv(chk[c], mem[cur]) /\ RoomInv(t1, Past, Had, Told, streams)
                      /\ RoomInv(t, Past, Had, Told, streams) /\ Alike(mem[cur], t)
    OBVIOUS
  <2>1. HolderInv(chk[c], mem[cur])
    BY OwnIs
  <2>2. \A k \in Raises(c) : b.pend[k].on
    BY <1>1, <2>1, RaisesOn DEF Raises
  <2>3. Eased(b, t1, {}) /\ Eased(b, t, {})
    BY <1>2, <2>2, EasedOn DEF Changes
  <2>4. RoomInv(t1, Past, Had, Told, streams) /\ RoomInv(t, Past, Had, Told, streams)
    BY <2>3, RoomEased DEF RoomOK
  <2>5. Alike(b, t)
    BY <2>3, EasedAlike
  <2> QED
    BY <2>1, <2>4, <2>5 DEF Alike
<1>6. RowKept
  <2> DEFINE m == Puts(mem, c, t1)
  <2>1. RoomsOK(m)
    BY <1>1, <1>4 DEF Puts, RoomsOK, RoomOK
  <2>2. Active => StateOK(m[cur], Past, streams)
    <3>1. ASSUME Active, chk[c].life = cur PROVE StateOK(m[cur], Past, streams)
      <4>1. m[cur] = t1
        BY <1>1, <3>1 DEF Puts
      <4> QED
        BY <1>5, <3>1, <4>1 DEF RoomInv
    <3>2. ASSUME Active, chk[c].life # cur PROVE StateOK(m[cur], Past, streams)
      <4>1. m[cur] = mem[cur]
        BY <1>1, <3>2, OwnIs DEF Puts
      <4> QED
        BY <3>2, <4>1, OwnIs DEF RoomInv
    <3> QED
      BY <3>1, <3>2
  <2>3. Notes(m)
    BY <1>2
  <2> HIDE DEF m
  <2> QED
    BY <1>1, <2>1, <2>2, <2>3, RowKeeps
<1>7. \/ chk'[c].pc = "idle"
      \/ /\ chk'[c].pc = "next" /\ chk'[c].plan = Tail(chk[c].plan) /\ Len(chk[c].plan) # 1
         /\ chk'[c].epoch = chk[c].epoch
  <2>1. CASE Leave(c)
    BY <1>1, <2>1, LeaveSteps, IdleIs
  <2>2. CASE Len(chk[c].plan) # 1 /\ chk' = [chk EXCEPT ![c] = Onward(chk[c])]
    <3> DEFINE q == Onward(chk[c])
    <3>1. q.pc = "next" /\ q.plan = Tail(chk[c].plan) /\ q.epoch = chk[c].epoch
      BY <1>1, <2>2, HolderIs, OnwardIs
    <3> HIDE DEF q
    <3>2. chk'[c] = q
      BY <1>1, <2>2 DEF q
    <3> QED
      BY <2>2, <3>1, <3>2
  <2> QED
    BY <1>2, <2>1, <2>2 DEF Goes
<1>8. Tame(c) /\ Counted(c)
  BY <1>1, <1>2, <1>7, FreeIs DEF Tame, hist
<1>9. ASSUME Active, chk[c].life = cur
      PROVE  /\ mem'[cur] \in Room /\ Alike(mem[cur], mem'[cur])
             /\ RoomInv(mem'[cur], Past, Had, Told, streams)
             /\ chk'[c].pc # "idle" => /\ chk'[c].pc \in Holding /\ chk'[c].epoch = chk[c].epoch
                                       /\ HolderInv(chk'[c], mem'[cur])
  <2>1. mem'[cur] = t
    BY <1>1, <1>2, <1>9 DEF Puts
  <2>2. t.prev = mem[cur].prev
    BY <1>5, <1>9 DEF Alike
  <2>3. Item(c) = CatchUp /\ mem[cur].pend["end"].on => t.pend["end"].on
    BY <1>2, <1>9, ItemIs DEF Changes, Kind
  <2>4. chk'[c].pc # "idle" => HolderInv(chk'[c], t)
    BY <1>1, <1>5, <1>7, <1>9, <2>2, <2>3, NextReady
  <2> QED
    BY <1>5, <1>7, <1>9, <2>1, <2>4 DEF Holding
<1> QED
  BY <1>3, <1>6, <1>8, <1>9, HoldsKept

\* The last target is done: the notice is settled.
LEMMA CloseKept == ASSUME Sound, NEW c \in Slot, Close(c) PROVE LifeInv' /\ OnceInv'
<1>1. TypeInv
  BY DEF Sound
<1>2. /\ chk[c].pc = "send" /\ Closes(c, mem[chk[c].life])
      /\ UNCHANGED <<world, cfg, proc, saving, reload, hist>>
  BY <1>1, CloseIs
<1>3. /\ chk[c].pc \in Holding /\ Item(c) # Save /\ RoomOK(mem[chk[c].life])
      /\ Item(c).k = "start" => mem[chk[c].life].last # 0
  BY <1>1, <1>2, StartKnown, HolderIs, TypeParts DEF Holding, RoomsOK, RoomOK
<1>4. Active /\ chk[c].life = cur =>
        Alike(mem[cur], mem[cur]) /\ RoomInv(mem[cur], Past, Had, Told, streams)
  BY OwnIs DEF Alike
<1> QED
  BY <1>2, <1>3, <1>4, ClosesKept

\* An item is done, or given up, without a push.
LEMMA DropKept ==
  ASSUME Sound, NEW c \in Slot, Shape(c), chk[c].pc = "next", Leave(c) \/ Drop(c),
         UNCHANGED sent, Spends \/ UNCHANGED spent, RowKept,
         UNCHANGED mem \/ mem' = [mem EXCEPT ![chk[c].life] = Clear(mem[chk[c].life], "start")]
  PROVE  LifeInv' /\ OnceInv'
<1>1. /\ TypeInv /\ chk \in [Slot -> SlotRec] /\ mem \in [Life -> Room]
      /\ chk[c] \in SlotRec /\ chk[c].pc \in Holding /\ chk[c].plan \in Plans /\ chk[c].plan # <<>>
  BY HolderIs DEF Sound, TypeInv, TypeOK, Holding
<1>2. \/ chk'[c].pc = "idle"
      \/ /\ chk'[c].pc = "next" /\ chk'[c].plan = Tail(chk[c].plan) /\ Len(chk[c].plan) # 1
         /\ chk'[c].epoch = chk[c].epoch
  <2>1. CASE Leave(c)
    BY <1>1, <2>1, LeaveSteps, IdleIs
  <2>2. CASE Len(chk[c].plan) # 1 /\ chk' = [chk EXCEPT ![c] = Dropped(chk[c])]
    <3> DEFINE q == Dropped(chk[c])
    <3>1. q.pc = "next" /\ q.plan = Tail(chk[c].plan) /\ q.epoch = chk[c].epoch
      BY <1>1, DroppedIs
    <3> HIDE DEF q
    <3>2. chk'[c] = q
      BY <1>1, <2>2 DEF q
    <3> QED
      BY <2>2, <3>1, <3>2
  <2> QED
    BY <1>1, <2>1, <2>2, DropIs
<1>3. Tame(c) /\ Counted(c)
  BY <1>1, <1>2, FreeIs DEF Tame
<1>4. ASSUME Active, chk[c].life = cur
      PROVE  /\ mem'[cur] \in Room /\ Alike(mem[cur], mem'[cur])
             /\ RoomInv(mem'[cur], Past, Had, Told, streams)
             /\ chk'[c].pc # "idle" => /\ chk'[c].pc \in Holding /\ chk'[c].epoch = chk[c].epoch
                                       /\ HolderInv(chk'[c], mem'[cur])
  <2> DEFINE s == mem[cur]
  <2>1. /\ s \in Room /\ RoomInv(s, Past, Had, Told, streams) /\ HolderInv(chk[c], s) /\ cur \in Life
    BY <1>4, OwnIs
  <2>2. /\ mem'[cur] \in Room /\ Eased(s, mem'[cur], {}) /\ mem'[cur].pend["end"] = s.pend["end"]
    <3>1. Clear(s, "start").pend["end"] = s.pend["end"]
      BY <2>1 DEF Clear, Room, Kind
    <3>2. /\ Clear(s, "start") \in Room /\ Eased(s, Clear(s, "start"), {}) /\ Eased(s, s, {})
      <4>1. "start" \in Kind
        BY DEF Kind
      <4>2. Eased(s, Clear(s, "start"), {}) /\ Eased(s, s, {})
        BY <2>1, <4>1, ClearIs, EasedSame
      <4> QED
        BY <4>2 DEF Eased
    <3>3. mem'[cur] = s \/ mem'[cur] = Clear(s, "start")
      BY <1>1, <1>4, <2>1
    <3> QED
      BY <2>1, <3>1, <3>2, <3>3
  <2>3. RoomInv(mem'[cur], Past, Had, Told, streams) /\ Alike(s, mem'[cur])
    BY <2>1, <2>2, RoomEased, EasedAlike
  <2>4. chk'[c].pc # "idle" => HolderInv(chk'[c], mem'[cur])
    BY <1>1, <1>2, <2>1, <2>2, <2>3, NextReady DEF Alike
  <2> QED
    BY <1>2, <2>2, <2>3, <2>4 DEF Holding
<1> QED
  BY <1>1, <1>3, <1>4, HoldsKept

\* The row is written between two notices.
LEMMA StepSaveKept == ASSUME Sound, NEW c \in Slot, StepSave(c) PROVE LifeInv' /\ OnceInv'
<1>1. TypeInv
  BY DEF Sound
<1>2. /\ chk[c].pc = "next" /\ (Leave(c) \/ Drop(c)) /\ Notes(mem) /\ Spends
      /\ UNCHANGED <<world, cfg, proc, mem, saving, reload, hist>>
  BY StepSaveIs
<1>3. RowKept
  <2>1. Active => StateOK(mem[cur], Past, streams)
    BY OwnIs DEF RoomInv
  <2> QED
    BY <1>1, <1>2, <2>1, RowKeeps, TypeParts
<1> QED
  BY <1>1, <1>2, <1>3, StepSaveShape, DropKept DEF hist

\* A notice that is not pending is passed over, or given up.
LEMMA StepSkipKept == ASSUME Sound, NEW c \in Slot, StepSkip(c) PROVE LifeInv' /\ OnceInv'
<1>1. TypeInv
  BY DEF Sound
<1>2. /\ chk[c].pc = "next" /\ Drop(c)
      /\ UNCHANGED mem \/ mem' = [mem EXCEPT ![chk[c].life] = Clear(mem[chk[c].life], "start")]
      /\ UNCHANGED <<world, db, proc, saving, reload, hist, spent>>
  BY StepSkipIs
<1> QED
  BY <1>1, <1>2, StepSkipShape, RowSame, DropKept DEF hist, db

\* The handler goes on with its push: a target less in its queue.
LEMMA LessKept ==
  ASSUME Sound, NEW c \in Slot, Shape(c), chk[c].pc \in {"send", "inflight"},
         NEW q \in SlotRec, Follows(chk[c], q), q.pc = "send", q.queue \subseteq chk[c].queue,
         q.done = chk[c].done, q.about = chk[c].about, chk' = [chk EXCEPT ![c] = q],
         Counted(c), UNCHANGED <<row, mem>>
  PROVE  LifeInv' /\ OnceInv'
<1>1. /\ TypeInv /\ chk \in [Slot -> SlotRec] /\ chk'[c] = q /\ q.plan = chk[c].plan
      /\ q.epoch = chk[c].epoch
  BY DEF Sound, TypeInv, TypeOK, Follows
<1>2. Tame(c) /\ RowKept
  BY <1>1, RowSame DEF Tame
<1>3. ASSUME Active, chk[c].life = cur
      PROVE  /\ mem'[cur] \in Room /\ Alike(mem[cur], mem'[cur])
             /\ RoomInv(mem'[cur], Past, Had, Told, streams) /\ HolderInv(q, mem'[cur])
  <2>1. /\ mem[cur] \in Room /\ RoomInv(mem[cur], Past, Had, Told, streams)
        /\ HolderInv(chk[c], mem[cur]) /\ mem'[cur] = mem[cur]
    BY <1>3, OwnIs
  <2>2. HolderInv(q, mem[cur])
    BY <1>1, <2>1 DEF HolderInv, Holding
  <2> QED
    BY <2>1, <2>2 DEF Alike
<1> QED
  BY <1>1, <1>2, <1>3, HoldsKept DEF Holding

\* A target is passed over.
LEMMA SendSkipKept ==
  ASSUME Sound, NEW c \in Slot, NEW x \in Target, SendSkip(c, x) PROVE LifeInv' /\ OnceInv'
<1> DEFINE q == Passed(chk[c], x)
<1>1. TypeInv /\ chk[c] \in SlotRec
  BY DEF Sound, TypeInv, TypeOK
<1>2. /\ chk[c].pc = "send" /\ chk' = [chk EXCEPT ![c] = q]
      /\ UNCHANGED <<world, db, proc, mem, saving, reload, hist, spent>>
  BY <1>1, SendSkipIs
<1>3. /\ q \in SlotRec /\ Follows(chk[c], q) /\ q.pc = "send" /\ q.queue \subseteq chk[c].queue
      /\ q.done = chk[c].done /\ q.about = chk[c].about
  BY <1>1, <1>2, PassedIs DEF Follows
<1>4. Shape(c) /\ Counted(c)
  BY <1>1, <1>2, SendStepShape, FreeIs DEF hist
<1> HIDE DEF q
<1> QED
  BY <1>2, <1>3, <1>4, LessKept DEF db

\* A send fails, is refused for good, or loses its receipt.
LEMMA SendFailKept ==
  ASSUME Sound, NEW c \in Slot, SendFail(c) \/ SendReject(c) \/ SendLost(c)
  PROVE  LifeInv' /\ OnceInv'
<1>1. TypeInv /\ chk[c] \in SlotRec
  BY DEF Sound, TypeInv, TypeOK
<1>2. /\ chk[c].pc = "inflight"
      /\ UNCHANGED <<world, db, proc, mem, saving, reload, base, misled>>
      /\ \/ UNCHANGED sent /\ spent' = [spent EXCEPT !.fail = @ + 1]
         \/ Push(c) /\ spent' = [spent EXCEPT !.fail = @ + 1, !.lost = @ + 1]
  BY <1>1, SendFailIs
<1>3. PICK again \in BOOLEAN : Sent(c, again)
  BY <1>1, SendFailIs
<1> DEFINE q == Outcome(chk[c], again)
<1>4. chk' = [chk EXCEPT ![c] = q]
  BY <1>1, <1>3, SentIs
<1>5. chk[c].to \in Target
  BY <1>1, <1>2, StartKnown DEF Holding
<1>6. /\ q \in SlotRec /\ Follows(chk[c], q) /\ q.pc = "send" /\ q.queue \subseteq chk[c].queue
      /\ q.done = chk[c].done /\ q.about = chk[c].about
  BY <1>1, <1>5, OutcomeIs DEF Follows
<1>7. Shape(c) /\ Counted(c)
  <2>1. CASE UNCHANGED sent /\ spent' = [spent EXCEPT !.fail = @ + 1]
    BY <1>1, <2>1, SendFailShape, FreeIs
  <2>2. CASE Push(c) /\ spent' = [spent EXCEPT !.fail = @ + 1, !.lost = @ + 1]
    BY <1>1, <1>2, <2>2, SendFailShape, ExcusesIs DEF Counted
  <2> QED
    BY <1>2, <2>1, <2>2
<1> HIDE DEF q
<1> QED
  BY <1>2, <1>4, <1>6, <1>7, LessKept DEF db

\* The row notes the memory after a step of the handler with the lock.
LEMMA NotesKept ==
  ASSUME Sound, NEW c \in Slot, UNCHANGED proc, TypeInv', Notes(mem'),
         Active /\ chk[c].life = cur => RoomInv(mem'[cur], Past, Had, Told, streams),
         Only(mem, mem', chk[c].life)
  PROVE  RowKept
<1>1. TypeInv /\ RoomsOK(mem')
  BY DEF Sound, TypeInv, TypeOK, RoomsOK
<1>2. Active => StateOK(mem'[cur], Past, streams)
  <2>1. Active /\ chk[c].life # cur => mem'[cur] = mem[cur]
    BY OwnIs DEF Only
  <2> QED
    BY <2>1, OwnIs DEF RoomInv
<1> QED
  BY <1>1, <1>2, RowKeeps

\* What a delivery is about when it opens is known to the state.
LEMMA AboutKnown ==
  ASSUME Sound, Active, NEW c \in Slot, chk[c].life = cur, chk[c].pc = "next",
         Item(c) # Save, ~Skips(c, mem[cur]), mem[cur].pend[Item(c).k].on,
         Late(c, mem[cur]) => About(c, mem[cur]) # None
  PROVE  IF Item(c).k = "end" THEN About(c, mem[cur]) = Hi(mem[cur])
         ELSE mem[cur].start <= About(c, mem[cur]) /\ About(c, mem[cur]) <= Hi(mem[cur])
<1> DEFINE s == mem[cur]
<1>1. TypeInv /\ chk[c].pc \in Holding
  BY DEF Sound, Holding
<1>2. /\ s \in Room /\ HolderInv(chk[c], s) /\ RoomInv(s, Past, Had, Told, streams)
  BY OwnIs
<1>3. s.start \in Nat /\ s.last \in Nat
  BY <1>2 DEF Room, Stream
<1>4. s.start <= Hi(s) /\ s.last <= Hi(s)
  BY <1>3, HiIs
<1>5. Item(c) \in {PushStart, CatchUp, PushEnd, RetryStart, RetryEnd}
  BY <1>1, HolderIs DEF Items
<1>6. CASE Item(c).k = "end"
  BY <1>6 DEF About, Hi
<1>7. CASE Item(c) = RetryStart
  <2>1. s.last # 0 /\ s.pend["start"].on
    BY <1>1, <1>7, AboutIs, ItemIs
  <2>2. About(c, s) = s.last
    BY <1>7, <2>1, ItemIs DEF About, LastLive
  <2>3. s.start <= s.last
    BY <1>2, <2>1 DEF RoomInv, StateOK
  <2> QED
    BY <1>4, <1>7, <2>2, <2>3, ItemIs
<1>8. CASE Item(c) = PushStart
  <2>1. About(c, s) = chk[c].about
    BY <1>8, ItemIs, ItemsDiffer DEF About
  <2>2. chk[c].about = s.start
    BY <1>2, <1>8 DEF HolderInv, Item, Holding
  <2> QED
    BY <1>3, <1>4, <1>8, <2>1, <2>2, ItemIs
<1>9. CASE Item(c) = CatchUp
  <2>1. About(c, s) = chk[c].about
    BY <1>9, ItemIs, ItemsDiffer DEF About
  <2>2. chk[c].about # None
    BY <1>9, <2>1 DEF Late
  <2>3. s.start <= chk[c].about /\ chk[c].about <= Hi(s)
    BY <1>2, <1>9, <2>2 DEF HolderInv, Item, Holding
  <2> QED
    BY <1>9, <2>1, <2>3, ItemIs
<1> QED
  BY <1>5, <1>6, <1>7, <1>8, <1>9, ItemIs

\* A delivery is opened: what it is about is known to the state.
LEMMA StepOpenKept == ASSUME Sound, NEW c \in Slot, StepOpen(c) PROVE LifeInv' /\ OnceInv'
<1> DEFINE l == chk[c].life
           s == mem[l]
           k == Item(c).k
           p == s.pend[k]
<1>1. /\ TypeInv /\ chk \in [Slot -> SlotRec] /\ mem \in [Life -> Room]
  BY DEF Sound, TypeInv, TypeOK
<1>2. /\ chk[c].pc = "next" /\ Item(c) # Save /\ ~Skips(c, s)
      /\ Late(c, s) => p.dlv # None \/ About(c, s) # None
      /\ Closes(c, s) \/ \E left \in SUBSET Target, q \in SlotRec : Opens(c, left, q)
  BY <1>1, OpenIs
<1>3. chk[c].pc \in Holding
  BY <1>2 DEF Holding
<1>4. /\ UNCHANGED <<world, cfg, proc, saving, reload, hist>> /\ Shape(c) /\ TypeInv'
  BY <1>1, StepOpenShape, StepOpenType DEF StepOpen
<1>5. /\ l \in Life /\ s \in Room /\ RoomOK(s) /\ k \in Kind /\ p \in Pending
  BY <1>1, <1>3, HolderIs, PendIs, TypeParts DEF RoomsOK, RoomOK
<1>6. CASE Closes(c, s)
  <2>1. Item(c).k = "start" /\ (chk[c].pc # "next" \/ Item(c).how = "push") => s.last # 0
    BY <1>1, <1>3, StartKnown
  <2>2. Active /\ l = cur => Alike(mem[cur], s) /\ RoomInv(s, Past, Had, Told, streams)
    BY OwnIs DEF Alike
  <2> QED
    BY <1>2, <1>3, <1>4, <1>5, <1>6, <2>1, <2>2, ClosesKept
<1>7. CASE \E left \in SUBSET Target, q \in SlotRec : Opens(c, left, q)
  <2>1. PICK left \in SUBSET Target, q \in SlotRec : Opens(c, left, q)
    BY <1>7
  <2> DEFINE u == Resend(p, left)
             t == [s EXCEPT !.pend[k] = u]
  <2>2. /\ Follows(chk[c], q) /\ (q.before <=> Late(c, s))
        /\ IF p.dlv = None THEN q.pc = "build" /\ q.about = About(c, s)
           ELSE /\ q.pc = "send" /\ q.about = p.dlv.about
                /\ q.queue = left /\ q.done = p.dlv.done
        /\ mem' = Puts(mem, c, t) /\ chk' = [chk EXCEPT ![c] = q]
        /\ Notes(mem') /\ UNCHANGED spent
    BY <2>1 DEF Opens
  <2>3. /\ chk'[c] = q /\ q.pc \in {"build", "send"} /\ q.plan = chk[c].plan /\ q.epoch = chk[c].epoch
    BY <1>1, <2>2 DEF Follows
  <2>4. Tame(c) /\ Counted(c)
    BY <1>1, <1>4, <2>2, <2>3, FreeIs DEF Tame, hist
  <2>5. /\ u \in Pending /\ Kept(p, u) /\ u.on
        /\ p.dlv = None <=> u.dlv = None
        /\ p.dlv # None => u.dlv.about = p.dlv.about /\ u.dlv.done = p.dlv.done
    BY <1>5, ResendIs DEF Kept
  <2> HIDE DEF u
  <2>6. /\ t \in Room /\ t.prev = s.prev /\ t.start = s.start /\ t.last = s.last
        /\ t.pend[k] = u /\ \A j \in Kind \ {k} : t.pend[j] = s.pend[j]
    <3>1. s \in Room /\ k \in Kind /\ u \in Pending
      BY <1>5, <2>5
    <3> HIDE DEF l, s, k, p
    <3> QED
      BY <3>1, PutPend
  <2>7. p.on => Eased(s, t, {})
    BY <1>5, <2>5, EasedPut
  <2> HIDE DEF t
  <2>8. l = cur => mem'[cur] = t
    BY <1>1, <1>5, <2>2 DEF Puts
  <2>9. ASSUME Active, l = cur
        PROVE  /\ t \in Room /\ Alike(s, t)
               /\ RoomInv(t, Past, Had, Told, streams) /\ HolderInv(q, t)
    <3>1. RoomInv(s, Past, Had, Told, streams) /\ HolderInv(chk[c], s)
      BY <2>9, OwnIs
    <3>2. p.on
      <4>1. p.on \/ k \in Raises(c)
        BY <1>1, <1>2, AboutIs
      <4> QED
        BY <1>1, <1>2, <1>3, <3>1, <4>1, RaisesOn
    <3>3. RoomInv(t, Past, Had, Told, streams) /\ Alike(s, t)
      BY <1>5, <2>7, <3>1, <3>2, RoomEased, EasedAlike
    <3>4. Item(c) \in {CatchUp, PushEnd} => t.prev # "live" /\ t.pend["end"].on
      <4>1. Item(c) \in {CatchUp, PushEnd} => s.prev # "live" /\ s.pend["end"].on
        BY <1>3, <3>1 DEF HolderInv, Item
      <4> QED
        BY <2>5, <2>6, <4>1 DEF Kind
    <3>5. k = "end" => t.prev # "live"
      <4>1. k = "end" => Item(c) \in {PushEnd, RetryEnd}
        BY <1>1, <1>2, <1>3, HolderIs, ItemIs DEF Items
      <4> QED
        BY <1>2, <2>6, <3>4, <4>1 DEF Skips
    <3>6. p.dlv = None => IF k = "end" THEN q.about = Hi(t)
                          ELSE t.start <= q.about /\ q.about <= Hi(t)
      <4>1. Hi(t) = Hi(s)
        BY <2>6, HiSame
      <4>2. p.dlv = None => IF k = "end" THEN About(c, s) = Hi(s)
                            ELSE s.start <= About(c, s) /\ About(c, s) <= Hi(s)
        BY <1>2, <2>9, <3>2, AboutKnown
      <4> QED
        BY <2>2, <2>6, <4>1, <4>2
    <3>7. Head(q.plan) = Item(c)
      BY <2>3 DEF Item
    <3> QED
      BY <2>2, <2>3, <2>5, <2>6, <3>3, <3>4, <3>5, <3>6, <3>7 DEF HolderInv
  <2>10. RowKept
    <3>1. Active /\ chk[c].life = cur => RoomInv(mem'[cur], Past, Had, Told, streams)
      BY <2>8, <2>9
    <3>2. Only(mem, mem', chk[c].life)
      BY <1>1, <2>2 DEF Only, Puts
    <3> QED
      BY <1>4, <2>2, <3>1, <3>2, NotesKept
  <2>11. ASSUME Active, chk[c].life = cur
         PROVE  /\ mem'[cur] \in Room /\ Alike(mem[cur], mem'[cur])
                /\ RoomInv(mem'[cur], Past, Had, Told, streams)
                /\ chk'[c].pc \in Holding /\ chk'[c].epoch = chk[c].epoch
                /\ HolderInv(chk'[c], mem'[cur])
    BY <2>3, <2>8, <2>9, <2>11 DEF Holding
  <2> QED
    BY <1>3, <1>4, <2>4, <2>10, <2>11, HoldsKept
<1> QED
  BY <1>2, <1>6, <1>7

\* The card is drawn, and the message is stored before it is sent.
LEMMA BuildKept == ASSUME Sound, NEW c \in Slot, Build(c) PROVE LifeInv' /\ OnceInv'
<1> DEFINE l == chk[c].life
           s == mem[l]
           k == Item(c).k
<1>1. /\ TypeInv /\ chk \in [Slot -> SlotRec] /\ mem \in [Life -> Room] /\ chk[c] \in SlotRec
  BY DEF Sound, TypeInv, TypeOK
<1>2. chk[c].pc = "build" /\ chk[c].pc \in Holding
  BY <1>1, BuildIs DEF Holding
<1>3. PICK left \in SUBSET Target : Letter(c, left) \in Message /\ Draws(c, left)
  BY <1>1, BuildIs
<1> DEFINE d == Letter(c, left)
           b == Draft(s, k, d)
<1>4. /\ UNCHANGED <<world, cfg, proc, saving, reload, hist>> /\ Shape(c) /\ TypeInv'
  BY <1>1, BuildShape, BuildType DEF Build
<1>5. /\ l \in Life /\ s \in Room /\ LastKnown(s) /\ k \in Kind /\ Item(c) # Save
      /\ k = "start" => s.last # 0
  BY <1>1, <1>2, HolderIs, StartKnown, TypeParts DEF RoomsOK
<1>6. d \in Message /\ d.done = {} /\ d.about = chk[c].about
  BY <1>3 DEF Letter
<1>7. Closes(c, b) \/ /\ mem' = Puts(mem, c, b) /\ chk' = [chk EXCEPT ![c] = Drawn(chk[c], left)]
                      /\ Notes(mem') /\ UNCHANGED spent
  BY <1>3 DEF Draws
<1> HIDE DEF d
<1>8. /\ b \in Room /\ Alike(s, b) /\ b.pend[k].dlv = d
      /\ \A j \in Kind : b.pend[j].on <=> s.pend[j].on
  BY <1>5, <1>6, DraftIs, SMTT(20) DEF Alike
<1>9. RoomOK(b) /\ b.last = s.last
  BY <1>5, <1>8 DEF RoomOK, LastKnown, Alike, Kind
<1>10. Active /\ l = cur => RoomInv(b, Past, Had, Told, streams)
  <2> SUFFICES ASSUME Active, l = cur PROVE RoomInv(b, Past, Had, Told, streams)
    OBVIOUS
  <2>1. /\ Facts(Past, Had, Told, streams) /\ RoomInv(s, Past, Had, Told, streams)
        /\ HolderInv(chk[c], s)
    BY OwnIs
  <2>2. /\ s.pend[k].on /\ s.pend[k].dlv = None
        /\ IF k = "end" THEN chk[c].about = Hi(s) ELSE s.start <= chk[c].about /\ chk[c].about <= Hi(s)
    BY <1>2, <2>1 DEF HolderInv, Item
  <2>3. d.about <= Hi(s) /\ IF k = "end" THEN d.about = Hi(s) ELSE s.start <= d.about
    <3>1. Hi(s) \in Nat
      BY <1>5, HiIs DEF Room, Stream
    <3> QED
      BY <1>6, <2>2, <3>1
  <2> QED
    BY <1>5, <1>6, <2>1, <2>2, <2>3, RoomDraft
<1> HIDE DEF b
<1>11. CASE Closes(c, b)
  BY <1>2, <1>4, <1>5, <1>8, <1>9, <1>10, <1>11, ClosesKept
<1>12. CASE /\ mem' = Puts(mem, c, b) /\ chk' = [chk EXCEPT ![c] = Drawn(chk[c], left)]
            /\ Notes(mem') /\ UNCHANGED spent
  <2> DEFINE q == Drawn(chk[c], left)
  <2>1. /\ q.pc = "send" /\ q.plan = chk[c].plan /\ q.about = chk[c].about /\ q.epoch = chk[c].epoch
    BY <1>1, DrawnIs DEF Follows
  <2>2. chk' = [chk EXCEPT ![c] = q]
    BY <1>12
  <2> HIDE DEF q
  <2>3. chk'[c] = q
    BY <1>1, <2>2
  <2>4. Tame(c) /\ Counted(c)
    BY <1>1, <1>4, <1>12, <2>1, <2>3, FreeIs DEF Tame, hist
  <2>5. l = cur => mem'[cur] = b
    BY <1>1, <1>5, <1>12 DEF Puts
  <2>6. ASSUME Active, l = cur PROVE HolderInv(q, b)
    <3>1. HolderInv(chk[c], s)
      BY <2>6, OwnIs
    <3>2. b.prev = s.prev /\ Head(q.plan) = Item(c)
      BY <1>8, <2>1 DEF Alike, Item
    <3>3. /\ Item(c) \in {CatchUp, PushEnd} => s.prev # "live" /\ s.pend["end"].on
          /\ s.pend[k].on /\ (k = "end" => s.prev # "live")
      BY <1>2, <3>1 DEF HolderInv, Item
    <3>4. Item(c) \in {CatchUp, PushEnd} => b.pend["end"].on
      BY <1>8, <3>3 DEF Kind
    <3>5. b.pend[k].on /\ b.pend[k].dlv # None
      BY <1>5, <1>6, <1>8, <3>3, NoneAssumption
    <3> QED
      BY <1>6, <1>8, <2>1, <3>2, <3>3, <3>4, <3>5 DEF HolderInv
  <2>7. RowKept
    <3>1. Active /\ chk[c].life = cur => RoomInv(mem'[cur], Past, Had, Told, streams)
      BY <1>10, <2>5
    <3>2. Only(mem, mem', chk[c].life)
      BY <1>1, <1>12 DEF Only, Puts
    <3> QED
      BY <1>4, <1>12, <3>1, <3>2, NotesKept
  <2>8. ASSUME Active, chk[c].life = cur
        PROVE  /\ mem'[cur] \in Room /\ Alike(mem[cur], mem'[cur])
               /\ RoomInv(mem'[cur], Past, Had, Told, streams)
               /\ chk'[c].pc \in Holding /\ chk'[c].epoch = chk[c].epoch
               /\ HolderInv(chk'[c], mem'[cur])
    BY <1>8, <1>10, <2>1, <2>3, <2>5, <2>6, <2>8 DEF Holding
  <2> QED
    BY <1>2, <1>4, <2>4, <2>7, <2>8, HoldsKept
<1> QED
  BY <1>7, <1>11, <1>12

\* A push starts: its target had no notice of the broadcast that nothing accounts for.
LEMMA SendStartKept ==
  ASSUME Sound, NEW c \in Slot, NEW x \in Target, SendStart(c, x) PROVE LifeInv' /\ OnceInv'
<1> DEFINE q == Flying(chk[c], x)
           s == mem[cur]
           k == Item(c).k
           n == chk[c].about
<1>1. /\ TypeInv /\ DownInv /\ WorldInv /\ LockInv /\ chk \in [Slot -> SlotRec] /\ chk[c] \in SlotRec
  BY DEF Sound, TypeInv, TypeOK
<1>2. /\ chk[c].pc = "send" /\ x \in chk[c].queue \ chk[c].done /\ CanSend(c, x)
      /\ chk' = [chk EXCEPT ![c] = q]
      /\ UNCHANGED <<world, db, proc, mem, saving, reload, hist, spent>>
  BY <1>1, SendStartIs
<1>3. /\ q.pc = "inflight" /\ q.plan = chk[c].plan /\ q.about = n /\ q.epoch = chk[c].epoch
      /\ q.queue = chk[c].queue /\ q.done = chk[c].done /\ q.to = x
  BY <1>1, FlyingIs DEF Follows
<1> HIDE DEF q
<1>4. chk'[c] = q /\ chk[c].pc \in Holding
  BY <1>1, <1>2 DEF Holding
<1>5. Shape(c) /\ Turns(c) /\ up /\ LifeOf(c) = chk[c].life
  BY <1>1, <1>4, SendStepShape, ShapeUp, LifeIs DEF Shape, Holding
<1>6. cur = chk[c].life /\ Active
  BY <1>1, <1>2, NoneAssumption DEF CanSend, Active, SlotRec
<1>7. /\ s \in Room /\ streams \in Stream /\ Facts(Past, Had, Told, streams)
      /\ RoomInv(s, Past, Had, Told, streams) /\ HolderInv(chk[c], s)
  BY <1>6, OwnIs
<1>8. /\ s.pend[k].dlv # None /\ s.pend[k].dlv.about = n /\ (k = "end" => s.prev # "live")
      /\ x \notin s.pend[k].dlv.done /\ s.pend[k].on
      /\ Item(c) \in {CatchUp, PushEnd} => s.prev # "live" /\ s.pend["end"].on
  BY <1>2, <1>4, <1>7 DEF HolderInv, Item
<1>9. k \in Kind /\ n \in Stream
  BY <1>1, <1>2, <1>4, HolderIs, StartKnown
<1>10. n <= Hi(s) /\ (s.prev # "live" => Hi(s) \in Past)
  BY <1>7, <1>8, <1>9 DEF RoomInv, StateOK
<1>11. /\ \A j \in Kind, b \in Stream : Had'[j][b] = Had[j][b]
       /\ \A j \in Kind : Told'[j] \subseteq (IF j = k THEN Told[j] \cup {n} ELSE Told[j])
  BY <1>1, <1>2, <1>3, <1>4, <1>5, StartTold DEF hist
<1>12. /\ RoomInv(s, Past, Had, Told', streams)
       /\ \A r : s.init /\ CheckInv(r, s, Past, Told) => CheckInv(r, s, Past, Told')
  BY <1>7, <1>8, <1>9, <1>10, <1>11, RoomTold
<1>13. RoomInv(s, Past, Had', Told', streams)
  <2>1. Fewer(Had, Told', Had', Told') /\ streams <= streams /\ Past \subseteq Past
    BY <1>7, <1>11 DEF Fewer, Stream
  <2> QED
    BY <1>7, <1>12, <2>1, RoomMono
<1>14. HolderInv(q, s)
  <2>1. Head(q.plan) = Item(c)
    BY <1>3 DEF Item
  <2>2. (q.queue \ q.done) \cap s.pend[k].dlv.done = {}
    BY <1>2, <1>3, <1>4, <1>7 DEF HolderInv, Item
  <2> QED
    BY <1>2, <1>3, <1>8, <2>1, <2>2 DEF HolderInv
<1>15. LifeInv'
  <2>1. mem'[cur] = s /\ Alike(s, s)
    BY <1>2 DEF Alike
  <2> QED
    BY <1>3, <1>4, <1>5, <1>6, <1>12, <1>13, <1>14, <2>1, OwnHolds DEF Holding
<1>16. OnceInv'
  <2>1. UNCHANGED <<sent, spent>> /\ Excuses' = Excuses /\ RowKept
    BY <1>2, RowSame DEF hist, db, Excuses
  <2>2. \A j \in Kind, b \in Stream, y \in Target : sent'[j][b][y] <= Excuses' + 1
    BY <2>1 DEF Sound, OnceInv
  <2>3. Told'["start"] \subseteq 0 .. streams /\ Told'["end"] \subseteq Past
    <3>1. Told["start"] \subseteq 0 .. streams /\ Told["end"] \subseteq Past
      BY DEF Sound, OnceInv
    <3>2. Hi(s) <= streams /\ Hi(s) \in Nat
      <4>1. s.start \in Nat /\ s.last \in Nat /\ s.start <= streams /\ s.last <= streams
        BY <1>7 DEF RoomInv, StateOK, Room, Stream
      <4> QED
        BY <4>1, HiIs
    <3>3. n \in 0 .. streams
      BY <1>7, <1>9, <1>10, <3>2 DEF Stream
    <3>4. k = "end" => n \in Past
      BY <1>7, <1>8, <1>9, <1>10 DEF Facts
    <3> QED
      BY <1>11, <3>1, <3>3, <3>4 DEF Kind
  <2>4. ASSUME NEW d \in Slot, chk'[d].pc = "inflight"
        PROVE  chk'[d].to \notin Had'[Head(chk'[d].plan).k][chk'[d].about]
    <3>1. d = c
      BY <1>1, <1>4, <1>5, <2>4, OneHolder, OthersSame DEF Same, Holding
    <3>2. Had[k][n] \subseteq s.pend[k].dlv.done
      BY <1>7, <1>8, <1>9 DEF RoomInv, PendTold
    <3>3. x \notin Had'[k][n]
      BY <1>8, <1>9, <1>11, <3>2
    <3> QED
      BY <1>3, <1>4, <3>1, <3>3 DEF Item
  <2> QED
    BY <1>5, <2>1, <2>2, <2>3, <2>4, OnceKept
<1> QED
  BY <1>15, <1>16

\* A push succeeds: it counts, and the message remembers who has it.
LEMMA SendOkKept == ASSUME Sound, NEW c \in Slot, SendOk(c) PROVE LifeInv' /\ OnceInv'
<1> DEFINE l == chk[c].life
           s == mem[l]
           k == Item(c).k
           x == chk[c].to
           n == chk[c].about
           t == Tells(s, k, x)
<1>1. /\ TypeInv /\ LockInv /\ LifeInv /\ misled = 0
      /\ chk \in [Slot -> SlotRec] /\ mem \in [Life -> Room] /\ chk[c] \in SlotRec
  BY DEF Sound, TypeInv, TypeOK
<1>2. /\ chk[c].pc = "inflight" /\ Push(c)
      /\ mem' = Puts(mem, c, t) /\ Notes(mem') /\ Spends /\ \E again \in BOOLEAN : Sent(c, again)
      /\ UNCHANGED <<world, cfg, proc, saving, reload, base, misled>>
  BY <1>1, SendOkIs
<1>3. PICK again \in BOOLEAN : Sent(c, again)
  BY <1>2
<1> DEFINE q == Outcome(chk[c], again)
<1>4. chk' = [chk EXCEPT ![c] = q]
  BY <1>1, <1>3, SentIs
<1>5. /\ chk[c].pc \in Holding /\ x \in Target /\ n \in Stream /\ k \in Kind /\ l \in Life /\ s \in Room
  BY <1>1, <1>2, StartKnown, HolderIs DEF Holding
<1>6. /\ q.pc = "send" /\ q.plan = chk[c].plan /\ q.about = n /\ q.epoch = chk[c].epoch
      /\ q.queue = chk[c].queue \ {x} /\ q.done = chk[c].done
  BY <1>1, <1>5, OutcomeIs DEF Follows
<1> HIDE DEF q
<1>7. chk'[c] = q
  BY <1>1, <1>4
<1>8. /\ Shape(c) /\ Turns(c) /\ TypeInv' /\ LifeOf(c) = l /\ Tame(c) /\ Excuses' = Excuses
  BY <1>1, <1>2, <1>5, <1>6, <1>7, SendOkShape, SendOkType, LifeIs, ExcusesIs DEF Shape, Holding, Tame
<1>9. /\ \A j \in Kind : Told'[j] \subseteq Told[j]
      /\ \A j \in Kind, b \in Stream : Had'[j][b] \subseteq
              (IF j = k /\ b = n THEN Had[j][b] \cup {x} ELSE Had[j][b])
  BY <1>1, <1>2, <1>8, PushTold
<1>10. Fewer(Had', Told, Had', Told')
  BY <1>9 DEF Fewer
<1>11. /\ t \in Room /\ Alike(s, t) /\ t.pend[k] = Reached(s.pend[k], x)
       /\ \A j \in Kind \ {k} : t.pend[j] = s.pend[j]
  BY <1>5, TellsIs DEF Alike
<1>12. /\ t.pend[k].on <=> s.pend[k].on
       /\ s.pend[k].dlv # None => /\ t.pend[k].dlv # None
                                   /\ t.pend[k].dlv.about = s.pend[k].dlv.about
                                   /\ t.pend[k].dlv.done = s.pend[k].dlv.done \cup {x}
  <2> DEFINE p == s.pend[k]
             u == Reached(p, x)
  <2>1. p \in Pending
    BY <1>5, PendIs
  <2> HIDE DEF p
  <2>2. u.on = p.on /\ (p.dlv # None => /\ u.dlv # None /\ u.dlv.about = p.dlv.about
                                       /\ u.dlv.done = p.dlv.done \cup {x})
    BY <1>5, <2>1, ReachedIs
  <2>3. t.pend[k] = u
    BY <1>11 DEF p
  <2> HIDE DEF u, t
  <2> QED
    BY <2>2, <2>3 DEF p
<1>13. l = cur => mem'[cur] = t
  BY <1>1, <1>2, <1>5 DEF Puts
<1>14. ASSUME Active, l = cur
       PROVE  /\ RoomInv(t, Past, Had, Told, streams) /\ RoomInv(t, Past, Had', Told', streams)
              /\ HolderInv(q, t)
  <2>1. /\ RoomInv(s, Past, Had, Told, streams) /\ HolderInv(chk[c], s) /\ streams \in Stream
    BY <1>14, OwnIs
  <2>2. /\ s.pend[k].dlv # None /\ s.pend[k].dlv.about = n /\ s.pend[k].on
        /\ (k = "end" => s.prev # "live")
        /\ (chk[c].queue \ chk[c].done) \cap s.pend[k].dlv.done = {}
        /\ Item(c) \in {CatchUp, PushEnd} => s.prev # "live" /\ s.pend["end"].on
    BY <1>2, <1>5, <2>1 DEF HolderInv, Item
  <2>3. RoomInv(t, Past, Had, Told, streams)
    <3>1. \A j \in Kind, b \in Stream : Had[j][b] \subseteq
            (IF j = k /\ b = s.pend[k].dlv.about THEN Had[j][b] \cup {x} ELSE Had[j][b])
      OBVIOUS
    <3> QED
      BY <1>5, <2>1, <2>2, <3>1, RoomTells
  <2>4. RoomInv(t, Past, Had', Told, streams)
    <3>1. \A j \in Kind, b \in Stream : Had'[j][b] \subseteq
            (IF j = k /\ b = s.pend[k].dlv.about THEN Had[j][b] \cup {x} ELSE Had[j][b])
      BY <1>9, <2>2
    <3> QED
      BY <1>5, <2>1, <2>2, <3>1, RoomTells
  <2> HIDE DEF t
  <2>5. RoomInv(t, Past, Had', Told', streams)
    <3>1. streams <= streams /\ Past \subseteq Past
      BY <2>1 DEF Stream
    <3> QED
      BY <1>10, <1>11, <2>1, <2>4, <3>1, RoomMono
  <2>6. HolderInv(q, t)
    <3>1. t.prev = s.prev /\ Head(q.plan) = Item(c)
      BY <1>6, <1>11 DEF Alike, Item
    <3>2. Item(c) \in {CatchUp, PushEnd} => t.pend["end"].on
      BY <1>11, <1>12, <2>2 DEF Kind
    <3> QED
      BY <1>6, <1>12, <2>2, <3>1, <3>2 DEF HolderInv
  <2> QED
    BY <2>3, <2>5, <2>6
<1> HIDE DEF t
<1>15. RowKept
  <2>1. Active /\ chk[c].life = cur => RoomInv(mem'[cur], Past, Had, Told, streams)
    BY <1>13, <1>14
  <2>2. Only(mem, mem', chk[c].life)
    BY <1>1, <1>2 DEF Only, Puts
  <2> QED
    BY <1>2, <1>8, <2>1, <2>2, NotesKept
<1>16. OnceInv'
  BY <1>2, <1>6, <1>7, <1>8, <1>15, PushOnce
<1>17. CASE ~Active
  BY <1>2, <1>16, <1>17 DEF LifeInv, Active, proc
<1>18. CASE Active /\ l # cur
  BY <1>1, <1>2, <1>6, <1>7, <1>8, <1>9, <1>16, <1>18, ForeignKept
<1>19. CASE Active /\ l = cur
  <2>1. \A r : CheckInv(r, mem[cur], Past, Told) => CheckInv(r, mem[cur], Past, Told')
    <3>1. Past \subseteq Past
      OBVIOUS
    <3> QED
      BY <1>10, <3>1, CheckMono
  <2> QED
    BY <1>5, <1>6, <1>7, <1>8, <1>11, <1>13, <1>14, <1>16, <1>19, <2>1, OwnHolds DEF Holding
<1> QED
  BY <1>17, <1>18, <1>19

-----------------------------------------------------------------------------
(* Taking the lock                                                           *)

\* A handler of this life that had no lock leaves, waits, or starts on a plan.
LEMMA EnterKept ==
  ASSUME Sound, Active, NEW c \in Slot, Shape(c), LifeOf(c) = cur, UNCHANGED <<sent, spent>>,
         chk'[c].pc # "inflight", mem'[cur] \in Room, RoomInv(mem'[cur], Past, Had, Told, streams),
         \A d \in Slot \ {c} : chk[d].life = cur /\ chk[d].pc # "idle" =>
            CheckInv(chk[d], mem'[cur], Past, Told) /\ HolderInv(chk[d], mem'[cur]),
         chk'[c].pc # "idle" =>
            CheckInv(chk'[c], mem'[cur], Past, Told) /\ HolderInv(chk'[c], mem'[cur]),
         QueueInv',
         \A k \in Kind : mem[cur].pend[k].dlv = None => mem'[cur].pend[k].dlv = None
  PROVE  LifeInv'
<1>1. TypeInv /\ LockInv /\ LifeInv /\ misled = 0 /\ Turns(c)
  BY DEF Sound, Shape
<1>2. Tame(c) /\ Counted(c)
  BY <1>1, FreeIs DEF Tame
<1>3. Fewer(Had, Told, Had', Told')
  BY <1>1, <1>2, CountedFewer
<1>4. streams \in Stream /\ streams <= streams /\ Past \subseteq Past
  BY OwnIs
<1>5. RoomInv(mem'[cur], Past, Had', Told', streams)
  BY <1>3, <1>4, RoomMono
<1>6. \A r : CheckInv(r, mem'[cur], Past, Told) => CheckInv(r, mem'[cur], Past, Told')
  BY <1>3, <1>4, CheckMono
<1>7. Keeps(c)
  BY <1>6 DEF Keeps
<1> QED
  BY <1>1, <1>5, <1>6, <1>7, OwnKept

\* A handler that has just started on its plan.
LEMMA BegunKnows ==
  ASSUME NEW q, q.pc = "next", q.epoch = 0, NEW t \in Room, t.init = TRUE, NEW P, NEW T
  PROVE  CheckInv(q, t, P, T)
<1>1. 0 <= t.epoch
  BY DEF Room
<1> QED
  BY <1>1 DEF CheckInv

\* What was seen live is what a late start notice is about.
LEMMA LateAbout ==
  ASSUME NEW s \in Room, NEW P, NEW H, NEW T, NEW n, RoomInv(s, P, H, T, n), s.prev = "live",
         s.pend["start"].on
  PROVE  LET a == IF s.room = None THEN LastLive(s) ELSE s.room IN
         a # None => s.start <= a /\ a <= Hi(s)
<1>1. s.start \in Nat /\ s.last \in Nat
  BY DEF Room, Stream
<1>2. s.last <= Hi(s) /\ s.start <= s.last
  BY <1>1, HiIs DEF RoomInv, StateOK
<1>3. s.room # None => s.start <= s.room /\ s.room <= Hi(s)
  BY DEF RoomInv
<1> QED
  BY <1>2, <1>3 DEF LastLive

\* What is recorded is over when the room is seen to be off air, unless that misleads.
LEMMA EndIsPast ==
  ASSUME NEW s \in Room, NEW H, NEW T, NEW n, RoomInv(s, Past, H, T, n), n = streams,
         ~(air.st = "live" /\ air.n \in {s.start, s.room, s.last})
  PROVE  Hi(s) \in Past
<1>1. s.start \in Stream /\ s.last \in Stream /\ s.start <= streams /\ s.last <= streams
  BY DEF Room, RoomInv, StateOK
<1>2. Hi(s) \in {s.start, s.last}
  BY <1>1, HiIs DEF Stream
<1> QED
  BY <1>1, <1>2 DEF Past

\* Who waits behind one that changes the status does so in vain.
LEMMA TurnedVain ==
  ASSUME TypeInv, NEW c \in Slot, Turns(c), UNCHANGED cur, chk'[c].pc # "lock",
         NEW s, NEW r, Effective(r, s),
         r.job = "began" => mem'[cur].prev = "live", r.job = "ended" => mem'[cur].prev # "live",
         \A d \in Slot \ {c} : chk[d].life = cur /\ chk[d].pc = "lock" /\ chk[d].job \in {"began", "ended"} =>
            Effective(chk[d], s)
  PROVE  /\ QueueInv'
         /\ \A d \in Slot \ {c} : chk[d].life = cur /\ chk[d].pc = "lock" /\ chk[d].job \in {"began", "ended"} =>
                          chk[d].job = r.job
<1>1. \A d \in Slot \ {c} : chk[d].life = cur /\ chk[d].pc = "lock" /\ chk[d].job \in {"began", "ended"} =>
         chk[d].job = r.job
  BY DEF Effective
<1>2. \A d \in Slot \ {c} : chk[d].life = cur /\ chk[d].pc = "lock" => ~Effective(chk[d], mem'[cur])
  BY <1>1 DEF Effective
<1> QED
  BY <1>1, <1>2, QueueVain

\* A handler of this life takes the lock, from the memory m whose state is s.
LEMMA TakesOwn ==
  ASSUME Sound, Active, NEW c \in Slot, Shape(c), LifeOf(c) = cur, UNCHANGED <<sent, spent>>,
         NEW m \in [Life -> Room], NEW s, s = m[cur], NEW r \in SlotRec, r.life = cur,
         Prepared(r), Takes(m, c, r), ~Misleads(m, r),
         RoomInv(s, Past, Had, Told, streams), s.init = TRUE, s.pend = mem[cur].pend,
         s.prev = "live" <=> mem[cur].prev = "live",
         \A d \in Slot \ {c} : chk[d].life = cur /\ chk[d].pc # "idle" => CheckInv(chk[d], s, Past, Told),
         \A d \in Slot \ {c} : chk[d].pc \notin Holding,
         \A d \in Slot \ {c} : /\ chk[d].life = cur /\ chk[d].pc = "lock" /\ chk[d].job \in {"began", "ended"}
                             /\ Effective(r, s)
                             => Effective(chk[d], s),
         r.job = "began" /\ s.prev # "live" => Beyond(r.snap.n, s, Told) /\ Hi(s) < r.snap.n
  PROVE  LifeInv'
<1> DEFINE t == mem'[cur]
           q == chk'[c]
<1>1. /\ TypeInv /\ LockInv /\ Turns(c) /\ UNCHANGED cur /\ QueueInv
      /\ cur \in Life /\ s \in Room /\ Facts(Past, Had, Told, streams) /\ streams \in Stream
      /\ chk \in [Slot -> SlotRec]
  BY OwnIs DEF Sound, Shape, proc, TypeInv, TypeOK
<1>2. s.prev = "live" => s.pend["end"] = Nothing
  BY DEF RoomInv, StateOK
<1>3. Aware(s)
  BY DEF Aware
<1>4. r.job = "ended" /\ s.prev = "live" => Hi(s) \in Past
  <2>1. r.job = "ended" /\ s.prev = "live" => ~(air.st = "live" /\ air.n \in {s.start, s.room, s.last})
    BY DEF Misleads
  <2> QED
    BY <1>1, <2>1, EndIsPast
<1>5. \A d \in Slot \ {c} : HolderInv(chk[d], t)
  BY DEF HolderInv
<1>6. CASE Leave(c) /\ mem' = m
  <2>1. q.pc = "idle" /\ t = s
    BY <1>1, <1>6, LeaveSteps, IdleIs
  <2>2. QueueInv'
    BY <1>1, <2>1, QueueStays
  <2> HIDE DEF t, q
  <2> QED
    BY <1>1, <1>5, <2>1, <2>2, EnterKept DEF t, q
<1>7. CASE /\ r.job = "ended" /\ s.prev = "live" /\ s.room = None /\ r.snap = None
           /\ Leave(c)
           /\ mem' = [m EXCEPT ![cur].prev = r.kind, ![cur].epoch = @ + 1]
  <2>1. q.pc = "idle"
    BY <1>1, <1>7, LeaveSteps, IdleIs
  <2>2. r.kind \in {"off", "round"}
    BY <1>7 DEF Prepared
  <2>3. /\ t \in Room /\ t.prev = r.kind /\ t.epoch = s.epoch + 1 /\ t.start = s.start
        /\ t.last = s.last /\ t.init = s.init /\ t.pend = s.pend
    <3> DEFINE st == r.kind
               e == s.epoch + 1
               w == [s EXCEPT !.prev = st, !.epoch = e]
    <3>1. mem' = [m EXCEPT ![cur] = w]
      BY <1>1, <1>7 DEF Room
    <3>2. st \in Status /\ e \in Nat
      BY <1>1, <2>2 DEF Status, Room
    <3> HIDE DEF st, e
    <3>3. /\ w \in Room /\ w.prev = st /\ w.epoch = e /\ w.start = s.start
          /\ w.last = s.last /\ w.init = s.init /\ w.pend = s.pend
      BY <1>1, <3>2 DEF Room
    <3> HIDE DEF w
    <3>4. t = w
      BY <1>1, <3>1
    <3> HIDE DEF t
    <3> QED
      BY <3>3, <3>4 DEF st, e
  <2> HIDE DEF t, q
  <2>4. Off(s, t)
    BY <1>2, <1>7, <2>2, <2>3 DEF Off
  <2>5. /\ RoomInv(t, Past, Had, Told, streams)
        /\ \A u \in SlotRec : CheckInv(u, s, Past, Told) /\ ~(u.pc = "lock" /\ u.job = "began") =>
              CheckInv(u, t, Past, Told)
    BY <1>1, <1>3, <1>4, <1>7, <2>4, RoomEnded
  <2>6. Effective(r, s)
    BY <1>7 DEF Effective
  <2>7. /\ QueueInv'
        /\ \A d \in Slot \ {c} : chk[d].life = cur /\ chk[d].pc = "lock" /\ chk[d].job \in {"began", "ended"} =>
                                 chk[d].job = "ended"
    <3>1. mem'[cur].prev # "live" /\ chk'[c].pc # "lock" /\ r.job = "ended"
      BY <1>7, <2>1, <2>2, <2>3, <2>6 DEF t, q, Status
    <3>2. \A d \in Slot \ {c} : chk[d].life = cur /\ chk[d].pc = "lock" /\ chk[d].job \in {"began", "ended"} =>
            Effective(chk[d], s)
      BY <2>6
    <3>3. /\ QueueInv'
          /\ \A d \in Slot \ {c} : chk[d].life = cur /\ chk[d].pc = "lock" /\ chk[d].job \in {"began", "ended"} =>
               chk[d].job = r.job
      BY <1>1, <2>6, <3>1, <3>2, TurnedVain
    <3> QED
      BY <3>1, <3>3
  <2>8. \A d \in Slot \ {c} : chk[d].life = cur /\ chk[d].pc # "idle" => CheckInv(chk[d], t, Past, Told)
    BY <1>1, <2>5, <2>7
  <2> QED
    BY <1>1, <1>5, <2>1, <2>3, <2>5, <2>7, <2>8, EnterKept DEF t, q
<1>8. CASE /\ r.job = "began" /\ s.prev # "live"
           /\ mem' = [m EXCEPT ![cur] = BeganState(s, r.snap.n)]
           /\ chk' = [chk EXCEPT ![c] = Begun(cur, <<PushStart, Save, RetryEnd>>, r.snap.n)]
  <2> DEFINE n == r.snap.n
             p == <<PushStart, Save, RetryEnd>>
             b == Begun(cur, p, n)
  <2>1. n \in Stream /\ n <= streams
    BY <1>8, NoneAssumption DEF Prepared, SnapOK, Snapshot
  <2>2. t = BeganState(s, n)
    BY <1>1, <1>8
  <2>3. /\ BeganState(s, n) \in Room /\ BeganState(s, n).prev = "live" /\ BeganState(s, n).start = n
        /\ BeganState(s, n).init = s.init
        /\ BeganState(s, n).pend["end"] = Nothing /\ BeganState(s, n).pend["start"].on
        /\ BeganState(s, n).pend["start"].dlv = s.pend["start"].dlv
    BY <1>1, <2>1, BeganIs
  <2>4. /\ RoomInv(BeganState(s, n), Past, Had, Told, streams)
        /\ \A u \in SlotRec : s.init /\ CheckInv(u, s, Past, Told) => CheckInv(u, BeganState(s, n), Past, Told)
    BY <1>1, <1>8, <2>1, RoomBegan
  <2>5. b.pc = "next" /\ b.epoch = 0 /\ b.about = n /\ Head(b.plan) = PushStart
    BY <1>1, <2>1, BegunIs, PlansOfEnter
  <2>6. chk' = [chk EXCEPT ![c] = b]
    BY <1>8
  <2> HIDE DEF b
  <2>7. q = b
    BY <1>1, <2>6
  <2> HIDE DEF t, q, n
  <2>8. HolderInv(q, t)
    BY <2>2, <2>3, <2>5, <2>7, ItemIs, ItemsDiffer DEF HolderInv
  <2>9. CheckInv(q, t, Past, Told)
    BY <2>2, <2>3, <2>5, <2>7, BegunKnows
  <2>10. Effective(r, s)
    BY <1>8 DEF Effective
  <2>11. QueueInv'
    BY <1>1, <1>8, <2>2, <2>3, <2>5, <2>7, <2>10, TurnedVain DEF t, q
  <2>12. \A d \in Slot \ {c} : chk[d].life = cur /\ chk[d].pc # "idle" => CheckInv(chk[d], t, Past, Told)
    BY <1>1, <2>2, <2>4
  <2>13. \A k \in Kind : mem[cur].pend[k].dlv = None => t.pend[k].dlv = None
    BY <2>2, <2>3, NothingIs DEF Kind
  <2> QED
    BY <1>1, <1>5, <2>2, <2>3, <2>4, <2>5, <2>7, <2>8, <2>9, <2>11, <2>12, <2>13, EnterKept DEF t, q
<1>9. CASE /\ r.job = "ended" /\ s.prev = "live"
           /\ \E st \in Status \ {"live"}, n \in Stream : mem' = [m EXCEPT ![cur] = EndedState(s, st, n)]
           /\ chk' = [chk EXCEPT ![c] = Begun(cur, <<CatchUp, PushEnd, Save, RetryStart>>,
                                              IF s.room = None THEN LastLive(s) ELSE s.room)]
  <2>1. PICK st \in Status \ {"live"}, n \in Stream : mem' = [m EXCEPT ![cur] = EndedState(s, st, n)]
    BY <1>9
  <2> DEFINE p == <<CatchUp, PushEnd, Save, RetryStart>>
             a == IF s.room = None THEN LastLive(s) ELSE s.room
             b == Begun(cur, p, a)
             e == EndedState(s, st, n)
  <2>2. t = e
    BY <1>1, <2>1
  <2>3. /\ e \in Room /\ e.prev = st /\ e.start = s.start /\ e.last = s.last
        /\ e.init = s.init /\ e.epoch = (IF s.prev # st THEN s.epoch + 1 ELSE s.epoch)
        /\ e.pend["start"] = s.pend["start"]
        /\ e.pend["end"].on /\ e.pend["end"].dlv = s.pend["end"].dlv
    BY <1>1, <2>1, EndedIs
  <2> HIDE DEF e
  <2>4. Off(s, e)
    BY <1>2, <1>9, <2>1, <2>3, NothingIs DEF Off
  <2>5. /\ RoomInv(e, Past, Had, Told, streams)
        /\ \A u \in SlotRec : CheckInv(u, s, Past, Told) /\ ~(u.pc = "lock" /\ u.job = "began") =>
              CheckInv(u, e, Past, Told)
    BY <1>1, <1>3, <1>4, <1>9, <2>4, RoomEnded
  <2>6. a \in Stream \cup {None}
    BY <1>1 DEF LastLive, Room
  <2>7. e.pend["start"].on /\ a # None => e.start <= a /\ a <= Hi(e)
    <3>1. Hi(e) = Hi(s)
      BY <2>3, HiSame
    <3>2. s.pend["start"].on /\ a # None => s.start <= a /\ a <= Hi(s)
      BY <1>1, <1>9, LateAbout
    <3> QED
      BY <2>3, <3>1, <3>2
  <2> HIDE DEF a
  <2>8. b.pc = "next" /\ b.epoch = 0 /\ b.about = a /\ Head(b.plan) = CatchUp
    BY <1>1, <2>6, BegunIs, PlansOfEnter
  <2>9. chk' = [chk EXCEPT ![c] = b]
    BY <1>9 DEF a
  <2> HIDE DEF b
  <2>10. q = b
    BY <1>1, <2>9
  <2> HIDE DEF t, q
  <2>11. HolderInv(q, t)
    BY <2>1, <2>2, <2>3, <2>7, <2>8, <2>10, ItemIs, ItemsDiffer DEF HolderInv
  <2>12. CheckInv(q, t, Past, Told)
    BY <2>2, <2>3, <2>8, <2>10, BegunKnows
  <2>13. Effective(r, s)
    BY <1>9 DEF Effective
  <2>14. /\ QueueInv'
         /\ \A d \in Slot \ {c} : chk[d].life = cur /\ chk[d].pc = "lock" /\ chk[d].job \in {"began", "ended"} =>
                                  chk[d].job = "ended"
    <3>1. mem'[cur].prev # "live" /\ chk'[c].pc # "lock" /\ r.job = "ended"
      BY <1>9, <2>1, <2>2, <2>3, <2>8, <2>10, <2>13 DEF t, q, Status
    <3>2. \A d \in Slot \ {c} : chk[d].life = cur /\ chk[d].pc = "lock" /\ chk[d].job \in {"began", "ended"} =>
            Effective(chk[d], s)
      BY <2>13
    <3>3. /\ QueueInv'
          /\ \A d \in Slot \ {c} : chk[d].life = cur /\ chk[d].pc = "lock" /\ chk[d].job \in {"began", "ended"} =>
               chk[d].job = r.job
      BY <1>1, <2>13, <3>1, <3>2, TurnedVain
    <3> QED
      BY <3>1, <3>3
  <2>15. \A d \in Slot \ {c} : chk[d].life = cur /\ chk[d].pc # "idle" => CheckInv(chk[d], t, Past, Told)
    BY <1>1, <2>2, <2>5, <2>14
  <2>16. \A k \in Kind : mem[cur].pend[k].dlv = None => t.pend[k].dlv = None
    BY <2>2, <2>3 DEF Kind
  <2> QED
    BY <1>1, <1>5, <2>2, <2>3, <2>5, <2>8, <2>10, <2>11, <2>12, <2>14, <2>15, <2>16, EnterKept DEF t, q
<1>10. CASE /\ mem' = m
            /\ \E p \in {<<RetryStart>>, <<>>}, w \in {<<RetryEnd>>, <<>>} :
                  p \o w # <<>> /\ chk' = [chk EXCEPT ![c] = Begun(cur, p \o w, None)]
  <2>1. PICK p \in {<<RetryStart>>, <<>>}, w \in {<<RetryEnd>>, <<>>} :
           p \o w # <<>> /\ chk' = [chk EXCEPT ![c] = Begun(cur, p \o w, None)]
    BY <1>10
  <2> DEFINE b == Begun(cur, p \o w, None)
  <2>2. b.pc = "next" /\ b.epoch = 0 /\ b.about = None /\ Head(b.plan) \in {RetryStart, RetryEnd}
    <3> DEFINE v == p \o w
    <3>1. v \in Plans /\ Head(v) \in {RetryStart, RetryEnd} /\ None \in Stream \cup {None}
      BY <2>1, PlansOfEnter
    <3> HIDE DEF v
    <3>2. /\ Begun(cur, v, None).pc = "next" /\ Begun(cur, v, None).epoch = 0
          /\ Begun(cur, v, None).about = None /\ Begun(cur, v, None).plan = v
      BY <1>1, <3>1, BegunIs
    <3> QED
      BY <3>1, <3>2 DEF v
  <2>3. chk' = [chk EXCEPT ![c] = b]
    BY <2>1
  <2> HIDE DEF b
  <2>4. q = b /\ t = s
    BY <1>1, <1>10, <2>3
  <2>5. QueueInv'
    BY <1>1, <2>2, <2>4, QueueStays
  <2> HIDE DEF t, q
  <2>6. HolderInv(q, t)
    BY <2>2, <2>4, ItemsDiffer DEF HolderInv
  <2>7. CheckInv(q, t, Past, Told)
    BY <1>1, <2>2, <2>4, BegunKnows
  <2> QED
    BY <1>1, <1>5, <2>2, <2>4, <2>5, <2>6, <2>7, EnterKept DEF t, q
<1> QED
  BY <1>6, <1>7, <1>8, <1>9, <1>10 DEF Takes

\* Who takes the lock leaves, or starts on a plan.
LEMMA TakesEnds ==
  ASSUME TypeInv, NEW c \in Slot, NEW m \in [Life -> Room], NEW r \in SlotRec, Prepared(r),
         Takes(m, c, r)
  PROVE  chk'[c].pc \in {"idle", "next"}
<1>1. chk \in [Slot -> SlotRec]
  BY DEF TypeInv, TypeOK
<1>2. CASE Leave(c)
  BY <1>2, LeaveSteps, IdleIs
<1>3. ASSUME NEW l, NEW plan, NEW about, chk' = [chk EXCEPT ![c] = Begun(l, plan, about)]
      PROVE  chk'[c].pc = "next"
  <2>1. chk'[c] = Begun(l, plan, about)
    BY <1>1, <1>3
  <2> QED
    BY <2>1 DEF Begun, Idle
<1> QED
  BY <1>2, <1>3 DEF Takes

\* A handler that waited gets the lock and reads the status again.
LEMMA AcquireKept ==
  ASSUME Sound, NEW c \in Slot, Acquire(c), misled' = 0 PROVE LifeInv' /\ OnceInv'
<1> DEFINE r == chk[c]
           s == mem[cur]
<1>1. /\ r.pc = "lock" /\ r.ahead = {} /\ Enter(mem, c, r)
      /\ misled' = misled + (IF Misleads(mem, r) THEN 1 ELSE 0)
      /\ UNCHANGED <<world, db, proc, reload, sent, settled, base, spent>>
  BY DEF Acquire
<1>2. /\ TypeInv /\ LockInv /\ r \in SlotRec /\ HandlerOK(r, mem, streams)
      /\ misled = 0 /\ mem \in [Life -> Room]
  BY TypeParts DEF Sound, Slots, RoomsOK
<1>3. Prepared(r) /\ ~Misleads(mem, r)
  BY <1>1, <1>2 DEF Prepared, HandlerOK
<1>4. Takes(mem, c, r)
  BY <1>1, <1>2, <1>3, EnterIs
<1>5. chk'[c].pc \in {"idle", "next"}
  BY <1>2, <1>3, <1>4, TakesEnds
<1>6. Shape(c) /\ LifeOf(c) = r.life /\ Tame(c) /\ Counted(c) /\ RowKept /\ UNCHANGED <<sent, spent>>
  BY <1>1, <1>2, <1>5, AcquireShape, LifeIs, FreeIs, RowSame DEF Tame, db
<1>7. ASSUME Active, LifeOf(c) = cur PROVE LifeInv'
  <2>1. /\ RoomInv(s, Past, Had, Told, streams) /\ QueueInv
        /\ \A d \in Slot : chk[d].life = cur => CheckInv(chk[d], s, Past, Told)
    BY <1>7, OwnIs
  <2>2. CheckInv(r, s, Past, Told)
    BY <1>6, <1>7, <2>1
  <2>3. /\ s.init = TRUE
        /\ r.job = "began" /\ s.prev # "live" => Beyond(r.snap.n, s, Told) /\ Hi(s) < r.snap.n
    <3>1. s \in Room
      BY <1>7, OwnIs
    <3> QED
      BY <1>1, <2>2, <3>1 DEF CheckInv, Room
  <2>4. \A d \in Slot \ {c} : Locking(d) => c \in chk[d].ahead
    <3>1. Locking(c)
      BY <1>1 DEF Locking
    <3> QED
      BY <1>1, <1>2, <3>1 DEF LockInv
  <2>5. \A d \in Slot \ {c} : chk[d].pc \notin Holding
    BY <1>2, <2>4 DEF LockInv, Locking, Holding
  <2>6. \A d \in Slot \ {c} : /\ chk[d].life = cur /\ chk[d].pc = "lock" /\ chk[d].job \in {"began", "ended"}
                              /\ Effective(r, s)
                              => Effective(chk[d], s)
    BY <1>1, <1>6, <1>7, <2>1, <2>4 DEF QueueInv, Locking
  <2> HIDE DEF r, s
  <2>7. s = mem[cur] /\ s.pend = mem[cur].pend /\ (s.prev = "live" <=> mem[cur].prev = "live") /\ r.life = cur
    BY <1>6, <1>7 DEF s, r
  <2> QED
    BY <1>2, <1>3, <1>4, <1>6, <1>7, <2>1, <2>3, <2>5, <2>6, <2>7, TakesOwn
<1> QED
  BY <1>6, <1>7, CalmKept

\* A handler of this life asks for the lock with the memory m, for itself a job on its state s.
Asks(c, m, s, r, job, wrong) ==
  /\ Active /\ Shape(c) /\ LifeOf(c) = cur /\ ~Locking(c)
  /\ UNCHANGED <<sent, spent, row>> /\ misled' = 0
  /\ m \in [Life -> Room] /\ s = m[cur] /\ r \in SlotRec /\ r.life = cur
  /\ job \in Jobs /\ wrong \in BOOLEAN
  /\ Prepared(Given(r, job)) /\ Lock(m, c, r, job, wrong)
  /\ RoomInv(s, Past, Had, Told, streams) /\ s.init = TRUE /\ s.pend = mem[cur].pend
  /\ s.prev = "live" <=> mem[cur].prev = "live"
  /\ r.epoch <= s.epoch
  /\ \A d \in Slot \ {c} : chk[d].life = cur /\ chk[d].pc # "idle" =>
       CheckInv(chk[d], s, Past, Told) /\ HolderInv(chk[d], s)
  /\ job = "began" => s.prev # "live" /\ Beyond(r.snap.n, s, Told) /\ Hi(s) < r.snap.n
  /\ job = "ended" => s.prev = "live"

\* It takes the lock, or waits with a job that changes the status.
LEMMA LockKept ==
  ASSUME Sound, NEW c \in Slot, NEW m, NEW s, NEW r, NEW job, NEW wrong, Asks(c, m, s, r, job, wrong)
  PROVE  LifeInv' /\ OnceInv'
<1> SUFFICES
      ASSUME Active, Shape(c), LifeOf(c) = cur, ~Locking(c), UNCHANGED <<sent, spent, row>>, misled' = 0,
             m \in [Life -> Room], s = m[cur], r \in SlotRec, r.life = cur,
             job \in Jobs, wrong \in BOOLEAN, Prepared(Given(r, job)), Lock(m, c, r, job, wrong),
             RoomInv(s, Past, Had, Told, streams), s.init = TRUE, s.pend = mem[cur].pend,
             s.prev = "live" <=> mem[cur].prev = "live", r.epoch <= s.epoch,
             \A d \in Slot \ {c} : chk[d].life = cur /\ chk[d].pc # "idle" =>
                CheckInv(chk[d], s, Past, Told) /\ HolderInv(chk[d], s),
             job = "began" => s.prev # "live" /\ Beyond(r.snap.n, s, Told) /\ Hi(s) < r.snap.n,
             job = "ended" => s.prev = "live"
      PROVE  LifeInv' /\ OnceInv'
  BY DEF Asks
<1>1. /\ TypeInv /\ LockInv /\ Turns(c) /\ UNCHANGED cur /\ QueueInv /\ misled = 0
      /\ cur \in Life /\ s \in Room /\ chk \in [Slot -> SlotRec]
  BY OwnIs DEF Sound, Shape, proc, TypeInv, TypeOK
<1>2. RowKept /\ Counted(c)
  BY <1>1, FreeIs, RowSame
<1>3. CASE /\ \A d \in Slot : ~Locking(d)
           /\ Enter(m, c, Given(r, job))
           /\ misled' = misled + (IF wrong \/ Misleads(m, Given(r, job)) THEN 1 ELSE 0)
  <2> DEFINE q == Given(r, job)
  <2>1. q \in SlotRec /\ q.job = job /\ q.life = cur /\ q.snap = r.snap
    BY GivenIs
  <2>2. Prepared(q) /\ ~Misleads(m, q) /\ Enter(m, c, q)
    BY <1>1, <1>3
  <2> HIDE DEF q
  <2>3. Takes(m, c, q)
    BY <2>1, <2>2, EnterIs
  <2>4. chk'[c].pc \in {"idle", "next"}
    BY <1>1, <2>1, <2>2, <2>3, TakesEnds
  <2>5. Tame(c)
    BY <2>4 DEF Tame
  <2>6. \A d \in Slot : chk[d].pc \notin Locked
    BY <1>3, LockingIs
  <2>7. LifeInv'
    BY <2>1, <2>2, <2>3, <2>6, TakesOwn DEF Locked
  <2> QED
    BY <1>2, <2>5, <2>7, CalmKept
<1>4. CASE chk' = [chk EXCEPT ![c] = Queued(r, job)] /\ mem' = m
  <2> DEFINE q == Queued(r, job)
  <2>1. /\ q.pc = "lock" /\ q.job = job /\ q.epoch = r.epoch /\ q.snap = r.snap /\ q.life = cur
    BY QueuedIs
  <2>2. chk' = [chk EXCEPT ![c] = q]
    BY <1>4
  <2> HIDE DEF q
  <2>3. chk'[c] = q /\ mem'[cur] = s
    BY <1>1, <1>4, <2>2
  <2>4. Tame(c)
    BY <2>1, <2>3 DEF Tame
  <2>5. CheckInv(q, s, Past, Told) /\ HolderInv(q, s)
    BY <2>1 DEF CheckInv, HolderInv, Holding
  <2>6. QueueInv'
    <3>1. chk'[c].job \in {"began", "ended"} => Effective(chk'[c], mem[cur])
      BY <2>1, <2>3 DEF Effective
    <3> QED
      BY <1>1, <2>3, <3>1, QueueStays
  <2>7. LifeInv'
    BY <1>1, <2>1, <2>3, <2>5, <2>6, EnterKept
  <2> QED
    BY <1>2, <2>4, <2>7, CalmKept
<1> QED
  BY <1>3, <1>4, LockIs

\* A check that starts, or a signal.
LEMMA CheckStartKept ==
  ASSUME Sound, NEW c \in Slot, NEW kind, CheckStart(c, kind), misled' = 0 PROVE LifeInv' /\ OnceInv'
<1> DEFINE s == mem[cur]
           r == Started(kind, cur, s)
           t == Seen(s)
           m == [mem EXCEPT ![cur] = t]
<1>1. TypeInv /\ chk \in [Slot -> SlotRec] /\ mem \in [Life -> Room] /\ misled = 0
  BY DEF Sound, TypeInv, TypeOK
<1>2. /\ Active /\ chk[c].pc = "idle" /\ cur \in Life /\ s \in Room /\ r \in SlotRec
      /\ r.life = cur /\ r.snap = None /\ r.plan = <<>> /\ r.epoch = s.epoch
      /\ IF ~s.init /\ Pends(s)
           THEN Lock(m, c, r, "prepared", FALSE)
           ELSE /\ chk' = [chk EXCEPT ![c] = Asking(r, IF s.init THEN "fetch" ELSE "init")]
                /\ UNCHANGED <<mem, saving, misled>>
      /\ Prepared(Given(r, "prepared"))
      /\ UNCHANGED <<world, db, proc, reload, sent, settled, base, spent>>
  BY <1>1, CheckStartIs
<1>3. Shape(c) /\ LifeOf(c) = cur /\ ~Locking(c) /\ Counted(c) /\ RowKept /\ UNCHANGED <<sent, spent, row>>
  BY <1>1, <1>2, CheckStartShape, FreeIs, RowSame DEF LifeOf, Locking, db
<1>4. RoomInv(s, Past, Had, Told, streams)
  BY <1>2, OwnIs
<1>5. CASE ~s.init /\ Pends(s)
  <2>1. /\ t \in Room /\ t.prev = s.prev /\ t.start = s.start /\ t.room = s.room
        /\ t.last = s.last /\ t.epoch = s.epoch /\ t.pend = s.pend /\ t.init = TRUE
    BY <1>2, SeenIs DEF Room
  <2> HIDE DEF t
  <2>2. m \in [Life -> Room] /\ m[cur] = t
    BY <1>1, <1>2, <2>1
  <2>3. RoomInv(t, Past, Had, Told, streams)
    <3>1. Aware(t) => Aware(s)
      BY <1>5 DEF Aware
    <3> QED
      BY <1>2, <1>4, <2>1, <3>1, RoomSame
  <2>4. ASSUME NEW d \in Slot \ {c}, chk[d].life = cur, chk[d].pc # "idle"
        PROVE  CheckInv(chk[d], t, Past, Told) /\ HolderInv(chk[d], t)
    <3>1. chk[d].pc \in {"init", "record"} /\ HolderInv(chk[d], t)
      BY <1>2, <1>5, <2>4, EarlyIs
    <3>2. CheckInv(chk[d], s, Past, Told)
      BY <1>2, <2>4, OwnIs
    <3>3. CheckInv(chk[d], t, Past, Told)
      BY <1>5, <2>1, <3>1, <3>2, CheckSeen
    <3> QED
      BY <3>1, <3>3
  <2>5. "prepared" \in Jobs /\ FALSE \in BOOLEAN
    BY DEF Jobs
  <2>6. Lock(m, c, r, "prepared", FALSE)
    BY <1>2, <1>5
  <2>7. r.epoch <= t.epoch
    BY <1>2, <2>1 DEF Room
  <2> DEFINE job == "prepared"
             wrong == FALSE
  <2>8. /\ job \in Jobs /\ wrong \in BOOLEAN /\ job # "began" /\ job # "ended"
        /\ Lock(m, c, r, job, wrong) /\ Prepared(Given(r, job))
    BY <1>2, <2>5, <2>6
  <2>9. Active /\ r \in SlotRec /\ r.life = cur /\ t.pend = mem[cur].pend /\ (t.prev = "live" <=> mem[cur].prev = "live")
    BY <1>2, <2>1
  <2> HIDE DEF m, r, s, job, wrong
  <2>10. Asks(c, m, t, r, job, wrong)
    BY <1>3, <2>1, <2>2, <2>3, <2>4, <2>7, <2>8, <2>9 DEF Asks
  <2> QED
    BY <2>10, LockKept
<1>6. CASE ~(~s.init /\ Pends(s))
  <2> DEFINE pc == IF s.init THEN "fetch" ELSE "init"
             q == Asking(r, pc)
  <2>1. chk' = [chk EXCEPT ![c] = q] /\ UNCHANGED mem
    BY <1>2, <1>6
  <2>2. pc \in Pcs /\ pc \in {"init", "fetch"} /\ (pc = "fetch" <=> s.init)
    BY DEF Pcs
  <2> HIDE DEF pc
  <2>3. q.pc = pc /\ q.epoch = s.epoch /\ q.snap = None
    BY <1>2, <2>2, AskingIs
  <2> HIDE DEF q
  <2>4. chk'[c] = q
    BY <1>1, <2>1
  <2>5. Tame(c)
    BY <2>2, <2>3, <2>4 DEF Tame
  <2>6. CheckInv(q, s, Past, Told) /\ HolderInv(q, s)
    <3>1. q.epoch <= s.epoch
      BY <1>2, <2>3 DEF Room
    <3> QED
      BY <2>2, <2>3, <3>1 DEF CheckInv, HolderInv, Holding
  <2>7. mem'[cur] = s /\ Alike(s, s)
    BY <2>1 DEF Alike
  <2>8. LifeInv'
    BY <1>2, <1>3, <2>2, <2>3, <2>4, <2>5, <2>6, <2>7, OwnStill
  <2> QED
    BY <1>3, <2>5, <2>8, CalmKept
<1> QED
  BY <1>5, <1>6

\* What the handler with the lock relies on when another one syncs the same status.
LEMMA HolderSync ==
  ASSUME NEW s \in Room, NEW t, t.prev = "live" <=> s.prev = "live", t.start = s.start, t.pend = s.pend,
         Hi(s) <= Hi(t), t.prev # "live" => Hi(t) = Hi(s), Hi(s) \in Nat, Hi(t) \in Nat,
         NEW r, r.about \in Nat \cup {None}, r.pc = "build" => r.about \in Nat, HolderInv(r, s)
  PROVE  HolderInv(r, t)
<1>1. r.about \in Nat /\ r.about <= Hi(s) => r.about <= Hi(t)
  OBVIOUS
<1> DEFINE h == Hi(s)
           j == Hi(t)
<1>2. /\ r.about \in Nat /\ r.about <= h => r.about <= j
      /\ t.prev # "live" => j = h
  BY <1>1
<1> HIDE DEF h, j
<1> QED
  BY <1>2 DEF HolderInv, h, j

\* What a sync of the same status leaves to the handlers of the room.
LEMMA SyncKept ==
  ASSUME Sound, Active, NEW a \in Snapshot, SnapOK(a, streams), mem[cur].init = TRUE,
         a.st = "live" <=> mem[cur].prev = "live",
         a.st = "live" => mem[cur].start <= a.n /\ mem[cur].last <= a.n
  PROVE  LET s == mem[cur]
             t == Sync(s, a.st, a.n)
         IN
         /\ t \in Room /\ t.pend = s.pend /\ t.init = TRUE /\ s.epoch <= t.epoch
         /\ (t.prev = "live" <=> s.prev = "live")
         /\ RoomInv(t, Past, Had, Told, streams)
         /\ \A d \in Slot : chk[d].life = cur /\ chk[d].pc # "idle" =>
              CheckInv(chk[d], t, Past, Told) /\ HolderInv(chk[d], t)
<1> DEFINE s == mem[cur]
           t == Sync(s, a.st, a.n)
<1>1. /\ cur \in Life /\ s \in Room /\ streams \in Stream /\ Facts(Past, Had, Told, streams)
      /\ RoomInv(s, Past, Had, Told, streams) /\ a.n \in Stream /\ a.n <= streams /\ a.st \in Status
      /\ \A d \in Slot : chk[d].life = cur =>
           CheckInv(chk[d], s, Past, Told) /\ HolderInv(chk[d], s)
  BY OwnIs, NoneAssumption DEF SnapOK, Snapshot
<1>2. Aware(s)
  BY DEF Aware
<1>3. /\ RoomInv(t, Past, Had, Told, streams)
      /\ \A r \in SlotRec : s.init /\ CheckInv(r, s, Past, Told) => CheckInv(r, t, Past, Told)
  BY <1>1, <1>2, RoomSync
<1>4. /\ t \in Room /\ t.prev = a.st /\ t.pend = s.pend /\ t.start = s.start /\ t.init = s.init
      /\ t.last = (IF a.st = "live" THEN a.n ELSE s.last)
      /\ t.epoch = (IF s.prev # a.st THEN s.epoch + 1 ELSE s.epoch)
  BY <1>1, SyncIs
<1> HIDE DEF t
<1>5. /\ s.epoch \in Nat /\ Stream \subseteq Nat /\ s.start \in Nat /\ s.last \in Nat
      /\ t.start \in Nat /\ t.last \in Nat /\ a.n \in Nat
  BY <1>1, <1>4 DEF Room, Stream
<1>6. s.epoch <= t.epoch /\ t.init = TRUE /\ (t.prev = "live" <=> s.prev = "live")
  BY <1>4, <1>5
<1>7. /\ Hi(s) \in Nat /\ Hi(t) \in Nat /\ Hi(s) <= Hi(t)
      /\ t.prev # "live" => Hi(t) = Hi(s)
  <2>1. s.last <= t.last
    BY <1>4, <1>5
  <2>2. Hi(s) \in {s.start, s.last} /\ t.start <= Hi(t) /\ t.last <= Hi(t) /\ Hi(s) \in Nat /\ Hi(t) \in Nat
    BY <1>5, HiIs
  <2>3. t.prev # "live" => Hi(t) = Hi(s)
    BY <1>4, HiSame
  <2> DEFINE h == Hi(s)
             j == Hi(t)
  <2>4. /\ h \in {s.start, s.last} /\ t.start <= j /\ t.last <= j /\ h \in Nat /\ j \in Nat
    BY <2>2
  <2> HIDE DEF h, j
  <2>5. h <= j
    BY <1>4, <1>5, <2>1, <2>4
  <2> QED
    BY <2>2, <2>3, <2>5 DEF h, j
<1>8. ASSUME NEW d \in Slot, chk[d].life = cur, chk[d].pc # "idle"
      PROVE  CheckInv(chk[d], t, Past, Told) /\ HolderInv(chk[d], t)
  <2>1. chk[d] \in SlotRec /\ HandlerOK(chk[d], mem, streams)
    BY DEF Sound, TypeInv, TypeOK
  <2>2. chk[d].about \in Nat \cup {None} /\ (chk[d].pc = "build" => chk[d].about \in Nat)
    BY <1>5, <2>1 DEF SlotRec, HandlerOK, Pushing
  <2>3. CheckInv(chk[d], s, Past, Told) /\ HolderInv(chk[d], s)
    BY <1>1, <1>8
  <2>4. HolderInv(chk[d], t)
    BY <1>1, <1>4, <1>6, <1>7, <2>2, <2>3, HolderSync
  <2> QED
    BY <1>3, <2>1, <2>3, <2>4
<1> QED
  BY <1>3, <1>4, <1>6, <1>8 DEF t

\* An answer is used: its job is news to the state as it is now.
LEMMA ResumeKept ==
  ASSUME Sound, NEW c \in Slot, Resume(c), misled' = 0 PROVE LifeInv' /\ OnceInv'
<1> DEFINE s == mem[cur]
           a == chk[c].snap
           r == chk[c]
           job == Job(c, s, a)
           t == Sync(s, a.st, a.n)
           m == [mem EXCEPT ![cur] = t]
<1>1. TypeInv /\ chk \in [Slot -> SlotRec] /\ mem \in [Life -> Room] /\ misled = 0
  BY DEF Sound, TypeInv, TypeOK
<1>2. Active /\ chk[c].life = cur /\ chk[c].pc = "got" /\ cur \in Life
  <2>1. chk[c].pc = "got" /\ Valid(c) /\ chk[c].life \in Life
    BY <1>1, ResumeIs DEF Outdated, SlotRec
  <2> QED
    BY <2>1, NoneAssumption DEF Valid, Active
<1>3. /\ \/ job \in {"began", "ended", "prepared", "retry"} /\ Lock(mem, c, r, job, FALSE)
         \/ /\ job = "retry" /\ ~Stale(c) /\ mem' = m /\ Leave(c)
            /\ misled' = misled + (IF Regresses(s, a) THEN 1 ELSE 0)
         \/ job = "retry" /\ ~Stale(c) /\ Lock(m, c, r, "confirmed", Regresses(s, a))
      /\ UNCHANGED <<world, db, proc, reload, sent, settled, base, spent>>
  BY <1>1, <1>2, ResumeIs
<1>4. Shape(c) /\ LifeOf(c) = cur /\ ~Locking(c) /\ Counted(c) /\ RowKept /\ UNCHANGED <<sent, spent, row>>
  BY <1>1, <1>2, <1>3, ResumeShape, FreeIs, RowSame DEF LifeOf, Locking, db
<1>5. /\ s \in Room /\ streams \in Stream /\ Stream \subseteq Nat /\ SnapOK(a, streams) /\ r \in SlotRec
      /\ Prepared(Given(r, job)) /\ Prepared(Given(r, "confirmed"))
      /\ job = "retry" => a \in Snapshot
  <2>1. s \in Room /\ streams \in Stream /\ Stream \subseteq Nat
    BY <1>2, OwnIs DEF Stream
  <2>2. /\ SnapOK(a, streams) /\ r \in SlotRec
        /\ Prepared(Given(r, job)) /\ Prepared(Given(r, "confirmed"))
        /\ job = "retry" => a \in Snapshot
    BY <1>1, <1>2, ResumeReady
  <2> QED
    BY <2>1, <2>2
<1>6. /\ RoomInv(s, Past, Had, Told, streams) /\ QueueInv
      /\ \A d \in Slot : chk[d].life = cur =>
           CheckInv(chk[d], s, Past, Told) /\ HolderInv(chk[d], s)
  BY <1>2, OwnIs
<1>7. /\ job \in Jobs
      /\ job = "began" => a # None /\ s.prev # "live" /\ a.st = "live" /\ (Stale(c) => Newer(s, a))
      /\ job = "ended" => s.prev = "live"
      /\ job = "retry" => /\ a # None
                          /\ Began(s, a) => Stale(c)
                          /\ Ended(s, a) => Stale(c)
  BY JobIs
<1>8. /\ s.init = TRUE /\ r.epoch <= s.epoch
      /\ a # None /\ a.st = "live" =>
           /\ Beyond(a.n, s, Told)
           /\ r.epoch = s.epoch => s.start <= a.n
           /\ r.epoch = s.epoch /\ s.prev # "live" => Hi(s) < a.n
  BY <1>2, <1>5, <1>6 DEF CheckInv, Room
<1>9. Stale(c) <=> s.epoch # r.epoch
  BY <1>2 DEF Stale
<1>10. CASE Lock(mem, c, r, job, FALSE)
  <2>1. ASSUME job = "began" PROVE s.prev # "live" /\ Beyond(a.n, s, Told) /\ Hi(s) < a.n
    <3>1. Hi(s) \in {s.start, s.last}
      BY <1>5, HiIs DEF Room
    <3>2. Stale(c) => Hi(s) < a.n
      BY <1>7, <2>1, <3>1 DEF Newer
    <3> QED
      BY <1>7, <1>8, <1>9, <2>1, <3>2
  <2> DEFINE w == mem
             wrong == FALSE
  <2>2. wrong \in BOOLEAN /\ Lock(w, c, r, job, wrong) /\ w \in [Life -> Room] /\ s = w[cur]
    BY <1>1, <1>10
  <2> HIDE DEF s, job, r, w, wrong
  <2>3. r.life = cur /\ a = r.snap /\ s.pend = mem[cur].pend /\ (s.prev = "live" <=> mem[cur].prev = "live")
    BY <1>2 DEF r, s
  <2>4. Asks(c, w, s, r, job, wrong)
    BY <1>2, <1>4, <1>5, <1>6, <1>7, <1>8, <2>1, <2>2, <2>3 DEF Asks
  <2> QED
    BY <2>4, LockKept
<1>11. CASE job = "retry" /\ ~Stale(c) /\ ~Regresses(s, a) /\ ((mem' = m /\ Leave(c)) \/ Lock(m, c, r, "confirmed", FALSE))
  <2>1. /\ a \in Snapshot /\ (a.st = "live" <=> s.prev = "live")
        /\ a.st = "live" => s.start <= a.n /\ s.last <= a.n
    <3>1. a \in Snapshot /\ a # None
      BY <1>5, <1>7, <1>11
    <3>2. a.st = "live" <=> s.prev = "live"
      BY <1>7, <1>11 DEF Began, Ended
    <3>3. a.n \in Nat /\ s.last \in Nat
      BY <1>5, <3>1 DEF Snapshot, Room
    <3>4. a.st = "live" => s.last <= a.n
      BY <1>11, <3>3 DEF Regresses
    <3>5. a.st = "live" => s.start <= a.n
      BY <1>8, <1>9, <1>11, <3>1
    <3> QED
      BY <3>1, <3>2, <3>4, <3>5
  <2>2. /\ t \in Room /\ t.pend = s.pend /\ t.init = TRUE /\ s.epoch <= t.epoch
        /\ (t.prev = "live" <=> s.prev = "live")
        /\ RoomInv(t, Past, Had, Told, streams)
        /\ \A d \in Slot : chk[d].life = cur /\ chk[d].pc # "idle" =>
             CheckInv(chk[d], t, Past, Told) /\ HolderInv(chk[d], t)
    BY <1>2, <1>5, <1>8, <2>1, SyncKept
  <2> HIDE DEF t
  <2>3. m \in [Life -> Room] /\ m[cur] = t
    BY <1>1, <1>2, <2>2
  <2> HIDE DEF m
  <2>4. CASE mem' = m /\ Leave(c)
    <3>1. chk'[c].pc = "idle"
      BY <1>1, <2>4, IdleIs DEF Leave, Left
    <3>2. Tame(c)
      BY <3>1 DEF Tame
    <3>3. mem'[cur] = t
      BY <2>3, <2>4
    <3>4. QueueInv'
      BY <1>1, <1>4, <1>6, <2>2, <3>1, <3>3, QueueStays DEF Sound, Shape, proc
    <3>5. LifeInv'
      BY <1>2, <1>4, <2>2, <3>1, <3>3, <3>4, EnterKept
    <3> QED
      BY <1>4, <3>2, <3>5, CalmKept
  <2>5. CASE Lock(m, c, r, "confirmed", FALSE)
    <3> DEFINE work == "confirmed"
               wrong == FALSE
    <3>1. /\ work \in Jobs /\ wrong \in BOOLEAN /\ work # "began" /\ work # "ended"
          /\ Lock(m, c, r, work, wrong) /\ Prepared(Given(r, work))
      BY <1>5, <2>5 DEF Jobs
    <3>2. r.epoch <= t.epoch
      BY <1>5, <1>8, <2>2 DEF SlotRec, Room
    <3> HIDE DEF r, s, job, work, wrong
    <3>3. r.life = cur /\ t.pend = mem[cur].pend /\ (t.prev = "live" <=> mem[cur].prev = "live")
      BY <1>2, <2>2 DEF r, s
    <3>4. Asks(c, m, t, r, work, wrong)
      BY <1>2, <1>4, <1>5, <2>2, <2>3, <3>1, <3>2, <3>3 DEF Asks
    <3> QED
      BY <3>4, LockKept
  <2> QED
    BY <1>11, <2>4, <2>5
<1>12. Lock(m, c, r, "confirmed", Regresses(s, a)) => ~Regresses(s, a) /\ Lock(m, c, r, "confirmed", FALSE)
  BY <1>1 DEF Lock
<1>13. misled' = misled + (IF Regresses(s, a) THEN 1 ELSE 0) => ~Regresses(s, a)
  BY <1>1
<1> HIDE DEF s, a, r, job, m
<1>14. \/ Lock(mem, c, r, job, FALSE)
       \/ /\ job = "retry" /\ ~Stale(c) /\ ~Regresses(s, a)
          /\ (mem' = m /\ Leave(c)) \/ Lock(m, c, r, "confirmed", FALSE)
  BY <1>3, <1>12, <1>13
<1> QED
  BY <1>10, <1>11, <1>14

-----------------------------------------------------------------------------
(* The steps that are not of a slot                                          *)

\* The books, while the broadcasts go on and no handler moves.
LEMMA BooksStay ==
  ASSUME UNCHANGED <<chk, sent>>, Excuses' = Excuses
  PROVE  Had' = Had /\ Told' = Told /\ Fewer(Had, Told, Had', Told')
<1>1. Had' = Had
  BY DEF Had
<1>2. Told' = Told
  BY <1>1 DEF Told
<1> QED
  BY <1>1, <1>2 DEF Fewer

\* The broadcasts that are over stay so.
Ages == /\ Past \subseteq Past' /\ streams' \in Stream /\ streams <= streams'

\* The books stay in order.
LEMMA AgedOnce ==
  ASSUME Sound, UNCHANGED <<chk, sent>>, Excuses' = Excuses, Ages, ~up' => ~up, RowKept, TypeInv'
  PROVE  OnceInv'
<1>1. Had' = Had /\ Told' = Told
  BY BooksStay
<1>2. /\ \A k \in Kind, n \in Stream, x \in Target :
           sent[k][n][x] <= Excuses + 1 /\ (~up => sent[k][n][x] <= Excuses)
      /\ \A c \in Slot : chk[c].pc = "inflight" => chk[c].to \notin Had[Item(c).k][chk[c].about]
      /\ Told["start"] \subseteq 0 .. streams /\ Told["end"] \subseteq Past
      /\ row # None => StateOK(row, Past, streams)
  BY DEF Sound, OnceInv
<1>3. (\A k \in Kind, n \in Stream, x \in Target :
           sent[k][n][x] <= Excuses + 1 /\ (~up => sent[k][n][x] <= Excuses))'
  BY <1>2
<1>4. (\A c \in Slot : chk[c].pc = "inflight" => chk[c].to \notin Had[Item(c).k][chk[c].about])'
  BY <1>1, <1>2 DEF Item
<1>5. streams \in Stream /\ streams' \in Stream /\ streams <= streams' /\ Stream \subseteq Nat
  BY DEF Ages, Sound, TypeInv, TypeOK, Stream
<1>6. Told'["start"] \subseteq 0 .. streams' /\ Told'["end"] \subseteq Past'
  <2>1. 0 .. streams \subseteq 0 .. streams'
    BY <1>5
  <2> QED
    BY <1>1, <1>2, <2>1 DEF Ages
<1>7. row' # None => StateOK(row', Past', streams')
  <2>1. SUFFICES ASSUME row' # None PROVE StateOK(row', Past', streams')
    OBVIOUS
  <2>2. StateOK(row', Past, streams)
    BY <1>2, <2>1 DEF RowKept
  <2>3. row' \in Row
    BY <2>1 DEF TypeInv, TypeOK
  <2>4. row'.start \in Stream /\ row'.last \in Stream
    BY <2>3 DEF Row
  <2> QED
    BY <1>5, <2>2, <2>4, StateMono DEF Ages
<1> QED
  BY <1>3, <1>4, <1>6, <1>7 DEF OnceInv

\* The same room goes on, or none.
LEMMA AgedLife ==
  ASSUME Sound, UNCHANGED <<mem, chk, sent>>, Excuses' = Excuses, Ages, Active' => Active /\ cur' = cur
  PROVE  LifeInv'
<1> SUFFICES ASSUME Active' PROVE LifeInv'
  BY DEF LifeInv
<1>1. Active /\ UNCHANGED <<cur, mem, chk>>
  OBVIOUS
<1>2. Fewer(Had, Told, Had', Told')
  BY BooksStay
<1>3. /\ cur \in Life /\ mem[cur] \in Room /\ streams \in Stream
      /\ RoomInv(mem[cur], Past, Had, Told, streams) /\ QueueInv /\ ForeignInv
      /\ \A c \in Slot : chk[c].life = cur =>
           CheckInv(chk[c], mem[cur], Past, Told) /\ HolderInv(chk[c], mem[cur])
  BY <1>1, OwnIs
<1>4. RoomInv(mem[cur], Past', Had', Told', streams')
  BY <1>2, <1>3, RoomMono DEF Ages
<1>5. \A c \in Slot : chk[c].life = cur =>
        CheckInv(chk[c], mem[cur], Past', Told') /\ HolderInv(chk[c], mem[cur])
  BY <1>2, <1>3, CheckMono DEF Ages
<1>6. QueueInv' /\ ForeignInv'
  BY <1>1, <1>3 DEF QueueInv, ForeignInv
<1>7. (RoomInv(mem[cur], Past, Had, Told, streams))'
  BY <1>1, <1>4
<1>8. (\A c \in Slot : chk[c].life = cur =>
        CheckInv(chk[c], mem[cur], Past, Told) /\ HolderInv(chk[c], mem[cur]))'
  BY <1>1, <1>5
<1> QED
  BY <1>6, <1>7, <1>8 DEF LifeInv

\* The broadcast goes on air, off air, or into the round; the write that was spawned.
LEMMA OutsideKept == ASSUME Sound, TypeInv', Outside \/ UNCHANGED vars PROVE LifeInv' /\ OnceInv'
<1>1. TypeInv
  BY DEF Sound
<1>2. /\ streams \in Nat /\ streams' \in Stream
      /\ air.st = "live" => air.n = streams
      /\ Stream \subseteq Nat /\ air \in Snapshot
      /\ spent \in [round: Nat, reload: Nat, crash: Nat, cut: Nat, fail: Nat, lost: Nat, db: Nat]
  BY <1>1 DEF TypeInv, TypeOK, Stream
<1>3. UNCHANGED <<cfg, proc, mem, chk, reload, sent, misled>>
  BY <1>1, OutsideIs DEF vars, hist, Outside, GoLive, GoOff, GoRound, BackgroundSave, db
<1>4. Excuses' = Excuses
  <2>1. CASE UNCHANGED spent
    BY <1>1, <2>1, ExcusesIs
  <2>2. CASE GoRound
    <3>1. spent'.crash = spent.crash /\ spent'.lost = spent.lost /\ spent'.cut = spent.cut
      BY <1>2, <2>2 DEF GoRound
    <3> QED
      BY <3>1 DEF Excuses
  <2>3. CASE BackgroundSave
    <3>1. Spends
      BY <2>3, SavedIs DEF BackgroundSave
    <3> QED
      BY <1>1, <3>1, ExcusesIs
  <2> QED
    BY <2>1, <2>2, <2>3 DEF Outside, GoLive, GoOff, vars
<1>5. Ages
  <2>1. CASE GoLive
    <3>1. streams' = streams + 1 /\ air'.n = streams + 1 /\ air.st # "live"
      BY <2>1 DEF GoLive
    <3>2. ASSUME NEW b \in Stream, b <= streams PROVE b <= streams' /\ air'.n # b
      <4>1. b \in Nat
        BY <1>2
      <4> QED
        BY <1>2, <3>1, <3>2, <4>1
    <3>3. streams <= streams'
      BY <1>2, <3>1
    <3>4. Past \subseteq Past'
      BY <3>2 DEF Past
    <3> QED
      BY <1>2, <3>3, <3>4 DEF Ages
  <2>2. CASE UNCHANGED streams /\ (air'.st # "live" \/ UNCHANGED air)
    <3>1. streams <= streams'
      BY <1>2, <2>2
    <3>2. Past \subseteq Past'
      BY <2>2 DEF Past
    <3> QED
      BY <1>2, <3>1, <3>2 DEF Ages
  <2>3. GoOff \/ GoRound => UNCHANGED streams /\ air'.st # "live"
    <3>1. GoOff => UNCHANGED streams /\ air'.st # "live"
      BY DEF GoOff
    <3>2. GoRound => UNCHANGED streams /\ air'.st # "live"
      BY <1>2 DEF GoRound, Snapshot, Status
    <3> QED
      BY <3>1, <3>2
  <2>4. BackgroundSave \/ UNCHANGED vars => UNCHANGED <<streams, air>>
    BY DEF BackgroundSave, vars, world
  <2> QED
    BY <2>1, <2>2, <2>3, <2>4 DEF Outside
<1>6. RowKept
  <2>1. CASE UNCHANGED row
    BY <2>1, RowSame
  <2>2. CASE BackgroundSave
    <3>1. Notes(mem)
      BY <2>2, SavedIs DEF BackgroundSave
    <3>2. Active => StateOK(mem[cur], Past, streams)
      BY OwnIs DEF RoomInv
    <3>3. RoomsOK(mem)
      BY <1>1, TypeParts
    <3> QED
      BY <1>1, <3>1, <3>2, <3>3, RowKeeps
  <2> QED
    BY <2>1, <2>2 DEF Outside, GoLive, GoOff, GoRound, db, vars
<1>7. UNCHANGED <<up, targets, cur>>
  BY <1>3 DEF proc
<1>8. Active' => Active /\ cur' = cur
  BY <1>7 DEF Active
<1> QED
  BY <1>3, <1>4, <1>5, <1>6, <1>7, <1>8, AgedOnce, AgedLife

\* A handler that is idle, or of another life, relies on nothing here.
LEMMA NobodyHere ==
  ASSUME NEW s, NEW P, NEW T, \A c \in Slot : chk'[c].life = cur' => chk'[c].pc = "idle",
         mem'[cur'] = s, \A k \in Kind : s.pend[k].dlv = None,
         RoomInv(s, Past', Had', Told', streams')
  PROVE  LifeInv'
<1>1. \A c \in Slot : chk'[c].life = cur' =>
        CheckInv(chk'[c], s, Past', Told') /\ HolderInv(chk'[c], s)
  BY DEF CheckInv, HolderInv, Holding
<1>2. QueueInv'
  BY DEF QueueInv
<1>3. ForeignInv'
  BY DEF ForeignInv
<1>4. (RoomInv(mem[cur], Past, Had, Told, streams))'
  OBVIOUS
<1>5. (\A c \in Slot : chk[c].life = cur =>
        CheckInv(chk[c], mem[cur], Past, Told) /\ HolderInv(chk[c], mem[cur]))'
  BY <1>1
<1> QED
  BY <1>2, <1>3, <1>4, <1>5 DEF LifeInv

\* A configuration change: the room goes on, or a new life starts with nothing pending.
LEMMA ReloadKept == ASSUME Sound, TypeInv', Reloads PROVE LifeInv' /\ OnceInv'
<1>1. TypeInv /\ WorldInv
  BY DEF Sound
<1>2. /\ UNCHANGED <<world, up, mem, chk, sent, misled>>
      /\ spent'.crash = spent.crash /\ spent'.lost = spent.lost /\ spent'.cut = spent.cut
  <2>1. spent \in [round: Nat, reload: Nat, crash: Nat, cut: Nat, fail: Nat, lost: Nat, db: Nat]
    BY <1>1 DEF TypeInv, TypeOK
  <2> QED
    BY <2>1 DEF Reloads, ReloadStart, ReloadApply, ReloadRemove, ReloadDelete, ReloadReadd,
                DeleteRow, proc, hist
<1>3. Excuses' = Excuses /\ UNCHANGED <<streams, air>>
  BY <1>2 DEF Excuses, world
<1>4. Ages
  <2>1. streams \in Nat /\ streams \in Stream
    BY <1>1 DEF TypeInv, TypeOK, Stream
  <2> QED
    BY <1>3, <2>1 DEF Ages, Past
<1>5. RowKept
  <2>1. row' = row \/ row' = None
    BY DEF Reloads, ReloadStart, ReloadApply, ReloadRemove, ReloadDelete, ReloadReadd, DeleteRow, db
  <2> QED
    BY <2>1 DEF RowKept
<1>6. OnceInv'
  BY <1>2, <1>3, <1>4, <1>5, AgedOnce
<1>7. CASE Active' => Active /\ cur' = cur
  BY <1>2, <1>3, <1>4, <1>6, <1>7, AgedLife
<1>8. CASE ReloadReadd
  <2> DEFINE l == spent.reload
  <2>1. reload = "readd" /\ cur' = l /\ l \in Life
    <3>1. l \in Nat /\ l <= MaxReload
      BY <1>1 DEF TypeInv, TypeOK
    <3> QED
      BY <1>8, <3>1, ParamAssumption DEF ReloadReadd, Life
  <2>2. Unused(l)
    BY <2>1 DEF Unused
  <2>3. mem'[l] = Fresh /\ \A c \in Slot : chk'[c].life = l => chk'[c].pc = "idle"
    BY <1>1, <1>2, <2>1, <2>2 DEF WorldInv
  <2>4. Facts(Past, Had, Told, streams) /\ 0 \in Past
    BY <1>1, FactsIs
  <2>5. RoomInv(Fresh, Past, Had, Told, streams) /\ \A k \in Kind : Fresh.pend[k].dlv = None
    BY <2>4, RoomFresh
  <2>6. Had' = Had /\ Told' = Told /\ Past' = Past /\ streams' = streams
    BY <1>2, <1>3, BooksStay DEF Past
  <2>7. LifeInv'
    BY <2>1, <2>3, <2>5, <2>6, NobodyHere
  <2> QED
    BY <1>6, <2>7
<1>9. Reloads => ReloadReadd \/ (Active' => Active /\ cur' = cur)
  <2>1. CASE ReloadApply
    <3>1. reload = "apply" /\ cur' = cur /\ targets' = cfg
      BY <2>1 DEF ReloadApply
    <3>2. targets = {} => cur = None
      BY <1>1, <3>1 DEF WorldInv
    <3> QED
      BY <3>1, <3>2 DEF Active
  <2>2. CASE ReloadRemove
    BY <2>2 DEF ReloadRemove, Active
  <2>3. CASE UNCHANGED <<targets, cur>>
    BY <2>3 DEF Active
  <2> QED
    BY <2>1, <2>2, <2>3 DEF Reloads, ReloadStart, ReloadDelete, proc
<1> QED
  BY <1>7, <1>8, <1>9

\* The process dies: one more excuse, and nobody runs.
LEMMA CrashKept == ASSUME Sound, Crash PROVE LifeInv' /\ OnceInv'
<1>1. /\ TypeInv /\ targets' = {} /\ ~up' /\ chk' = [c \in Slot |-> Idle]
      /\ spent' = [spent EXCEPT !.crash = @ + 1] /\ UNCHANGED <<air, streams, row, sent, misled>>
  BY DEF Sound, Crash, world, db, hist
<1>2. Excuses \in Nat /\ Excuses' = Excuses + 1
  BY <1>1, ExcusesIs
<1>3. sent \in [Kind -> [Stream -> [Target -> Nat]]]
  BY <1>1 DEF TypeInv, TypeOK
<1>4. \A k \in Kind, n \in Stream, x \in Target : sent'[k][n][x] <= Excuses' /\ sent'[k][n][x] \in Nat
  <2>1. \A k \in Kind, n \in Stream, x \in Target : sent[k][n][x] <= Excuses + 1
    BY DEF Sound, OnceInv
  <2> QED
    BY <1>1, <1>2, <1>3, <2>1
<1>5. \A k \in Kind, n \in Stream : Had'[k][n] = {}
  <2>1. \A k \in Kind, n \in Stream, x \in Target : ~(sent'[k][n][x] > Excuses')
    BY <1>2, <1>4
  <2> QED
    BY <2>1 DEF Had
<1>6. \A c \in Slot : chk'[c].pc = "idle"
  BY <1>1, IdleIs
<1>7. \A k \in Kind : Told'[k] = {}
  BY <1>5, <1>6 DEF Told, Flies
<1>8. Past' = Past
  BY <1>1 DEF Past
<1>9. row' # None => StateOK(row', Past', streams')
  BY <1>1, <1>8 DEF Sound, OnceInv
<1>10. (\A k \in Kind, n \in Stream, x \in Target :
         sent[k][n][x] <= Excuses + 1 /\ (~up => sent[k][n][x] <= Excuses))'
  BY <1>2, <1>4
<1>11. OnceInv'
  BY <1>6, <1>7, <1>9, <1>10 DEF OnceInv, Kind
<1>12. LifeInv'
  BY <1>1 DEF LifeInv, Active
<1> QED
  BY <1>11, <1>12

\* It comes back: what it had pushed is accounted for, and the row is what it knows.
LEMMA RestartKept == ASSUME Sound, TypeInv', Restart PROVE LifeInv' /\ OnceInv'
<1>1. /\ TypeInv /\ ~up /\ up' /\ UNCHANGED <<world, chk, sent, misled, spent>>
      /\ row' \in {None, row} /\ cur' \in {None, 0} /\ mem' = [mem EXCEPT ![0] = Restored(row')]
  BY DEF Sound, Restart, hist
<1>2. UNCHANGED <<air, streams>> /\ Excuses' = Excuses /\ Excuses \in Nat /\ 0 \in Life
  BY <1>1, ExcusesIs, ParamAssumption DEF world, Life
<1>3. Ages /\ Past' = Past
  <2>1. streams \in Nat /\ streams \in Stream
    BY <1>1 DEF TypeInv, TypeOK, Stream
  <2> QED
    BY <1>2, <2>1 DEF Ages, Past
<1>4. OnceInv'
  BY <1>1, <1>2, <1>3, AgedOnce DEF RowKept
<1>5. SUFFICES ASSUME Active' PROVE LifeInv'
  BY <1>4 DEF LifeInv
<1>6. cur' = 0
  BY <1>1, <1>5 DEF Active
<1>7. \A c \in Slot : chk'[c].pc = "idle"
  BY <1>1, IdleIs DEF Sound, DownInv
<1>8. sent \in [Kind -> [Stream -> [Target -> Nat]]]
  BY <1>1 DEF TypeInv, TypeOK
<1>9. \A k \in Kind, n \in Stream : Had'[k][n] = {}
  <2>1. \A k \in Kind, n \in Stream, x \in Target : sent[k][n][x] <= Excuses
    BY <1>1 DEF Sound, OnceInv
  <2>2. \A k \in Kind, n \in Stream, x \in Target : ~(sent'[k][n][x] > Excuses')
    BY <1>1, <1>2, <1>8, <2>1
  <2> QED
    BY <2>2 DEF Had
<1>10. \A k \in Kind : Told'[k] = {}
  BY <1>7, <1>9 DEF Told, Flies
<1> DEFINE s == Restored(row')
<1>11. /\ s \in Room /\ s.room = None
       /\ row' = None => s = Fresh
       /\ row' # None => s.prev = row'.prev /\ s.start = row'.start /\ s.last = row'.last /\ s.pend = row'.pend
  <2>1. row' \in Row \cup {None} /\ (row' # None => LastKnown(row'))
    BY DEF TypeInv, TypeOK
  <2> QED
    BY <2>1, RestoredIs
<1>12. mem'[0] = s
  <2>1. mem \in [Life -> Room]
    BY <1>1 DEF TypeInv, TypeOK
  <2> HIDE DEF s
  <2>2. mem' = [mem EXCEPT ![0] = s]
    BY <1>1 DEF s
  <2> QED
    BY <1>2, <2>1, <2>2
<1> HIDE DEF s
<1>13. StateOK(s, Past', streams')
  <2>1. CASE row' = None
    <3>1. RoomInv(Fresh, Past, Had, Told, streams)
      BY <1>1, FactsIs, RoomFresh
    <3> QED
      BY <1>2, <1>3, <1>11, <2>1, <3>1 DEF RoomInv
  <2>2. CASE row' # None
    <3>1. StateOK(row', Past', streams')
      BY <1>1, <1>4, <2>2 DEF OnceInv, Sound
    <3>2. Hi(s) = Hi(row')
      BY <1>11, <2>2, HiSame
    <3> QED
      BY <1>11, <2>2, <3>1, <3>2 DEF StateOK
  <2> QED
    BY <2>1, <2>2
<1>14. RoomInv(s, Past', Had', Told', streams')
  BY <1>9, <1>10, <1>11, <1>13, RoomRestored
<1>15. /\ (\A c \in Slot : chk[c].life = cur =>
             CheckInv(chk[c], mem[cur], Past, Told) /\ HolderInv(chk[c], mem[cur]))'
       /\ QueueInv' /\ ForeignInv'
  <2>1. \A c \in Slot : chk'[c].life = cur' =>
          CheckInv(chk'[c], mem'[cur'], Past', Told') /\ HolderInv(chk'[c], mem'[cur'])
    BY <1>7 DEF CheckInv, HolderInv, Holding
  <2>2. QueueInv'
    BY <1>7 DEF QueueInv
  <2>3. ForeignInv'
    BY <1>7 DEF ForeignInv
  <2> QED
    BY <2>1, <2>2, <2>3
<1>16. (RoomInv(mem[cur], Past, Had, Told, streams))'
  BY <1>6, <1>12, <1>14
<1> QED
  BY <1>15, <1>16 DEF LifeInv

\* Every step of a delivery.
LEMMA DeliverKept == ASSUME Sound, NEW c \in Slot, Deliver(c) PROVE LifeInv' /\ OnceInv'
BY StepSaveKept, StepSkipKept, StepOpenKept, BuildKept, SendSkipKept, SendStartKept, SendOkKept,
   CloseKept DEF Deliver

\* Every step of a slot.
LEMMA SlotKept ==
  ASSUME Sound, NEW c \in Slot, SlotStep(c), misled' = 0 PROVE LifeInv' /\ OnceInv'
<1>1. CASE \E kind \in {"poll", "live", "off", "round"} : CheckStart(c, kind)
  BY <1>1, CheckStartKept
<1>2. CASE Answer(c) \/ Record(c) \/ Discard(c)
  BY <1>2, AnswerKept, RecordKept, DiscardKept
<1>3. CASE Resume(c)
  BY <1>3, ResumeKept
<1>4. CASE Acquire(c)
  BY <1>4, AcquireKept
<1>5. CASE Deliver(c)
  BY <1>5, DeliverKept
<1>6. CASE AnswerFail(c) \/ SendFail(c) \/ SendReject(c) \/ SendLost(c) \/ Cancel(c)
  BY <1>6, AnswerFailKept, SendFailKept, CancelKept
<1> QED
  BY <1>1, <1>2, <1>3, <1>4, <1>5, <1>6 DEF SlotStep, Handle

\* The inductive invariant; without a target there is nothing to show.
Safe == Target # {} => TypeInv /\ DownInv /\ WorldInv /\ LockInv /\ LifeInv /\ OnceInv

\* The bot starts with nothing sent and nothing pending.
LEMMA InitSafe == ASSUME Init PROVE Safe
<1> SUFFICES ASSUME Target # {} PROVE TypeInv /\ DownInv /\ WorldInv /\ LockInv /\ LifeInv /\ OnceInv
  BY DEF Safe
<1>1. TypeInv /\ DownInv
  BY InitType
<1>2. /\ up = TRUE /\ targets # {} /\ cur = 0 /\ mem = [l \in Life |-> Fresh] /\ row = None
      /\ chk = [c \in Slot |-> Idle] /\ reload = "idle" /\ spent.reload = 0
      /\ spent.crash = 0 /\ spent.lost = 0 /\ spent.cut = 0
      /\ sent = [k \in Kind |-> [n \in Stream |-> [x \in Target |-> 0]]]
  BY DEF Init
<1>3. \A c \in Slot : chk[c].pc = "idle" /\ chk[c].ahead = {}
  BY <1>2, IdleIs
<1>4. 0 \in Life /\ mem[0] = Fresh /\ (\A l \in Life : mem[l] = Fresh)
  BY <1>2, ParamAssumption DEF Life
<1>5. WorldInv
  <2>1. ~Unused(0)
    BY <1>2 DEF Unused
  <2> QED
    BY <1>2, <1>3, <1>4, <2>1 DEF WorldInv
<1>6. LockInv
  BY <1>3 DEF LockInv, Locking, Holding
<1>7. Facts(Past, Had, Told, streams) /\ 0 \in Past
  BY <1>1, FactsIs
<1>8. RoomInv(Fresh, Past, Had, Told, streams) /\ \A k \in Kind : Fresh.pend[k].dlv = None
  BY <1>7, RoomFresh
<1>9. LifeInv
  BY <1>2, <1>3, <1>4, <1>8 DEF LifeInv, CheckInv, HolderInv, Holding, QueueInv, ForeignInv
<1>10. Excuses = 0
  BY <1>2 DEF Excuses
<1>11. \A k \in Kind, n \in Stream, x \in Target : sent[k][n][x] = 0
  BY <1>2
<1>12. \A k \in Kind, n \in Stream : Had[k][n] = {}
  BY <1>10, <1>11 DEF Had
<1>13. \A k \in Kind : Told[k] = {}
  BY <1>3, <1>12 DEF Told, Flies
<1>14. \A k \in Kind, n \in Stream, x \in Target : sent[k][n][x] <= Excuses + 1
  BY <1>10, <1>11
<1>15. OnceInv
  BY <1>2, <1>3, <1>13, <1>14 DEF OnceInv, Kind
<1> QED
  BY <1>1, <1>5, <1>6, <1>9, <1>15

\* Every step keeps the invariant; a misled observation ends what is promised.
LEMMA StepSafe == ASSUME Safe, [Next]_vars PROVE Safe'
<1> SUFFICES ASSUME Target # {}
             PROVE  TypeInv' /\ DownInv' /\ WorldInv' /\ LockInv' /\ LifeInv' /\ OnceInv'
  BY DEF Safe
<1>1. TypeInv /\ DownInv /\ WorldInv /\ LockInv /\ LifeInv /\ OnceInv
  BY DEF Safe
<1>2. TypeInv' /\ DownInv' /\ WorldInv' /\ LockInv'
  BY <1>1, StepType, DownKept, WorldKept
<1>3. CASE misled' # 0
  BY <1>2, <1>3 DEF LifeInv, OnceInv
<1>4. CASE misled' = 0
  <2>1. CASE UNCHANGED vars \/ Outside \/ Reloads \/ Crash \/ Restart
    <3>1. misled' = misled
      BY <2>1 DEF vars, hist, Outside, Reloads, GoLive, GoOff, GoRound, BackgroundSave, ReloadStart,
                  ReloadApply, ReloadRemove, ReloadDelete, ReloadReadd, Crash, Restart
    <3>2. Sound
      BY <1>1, <1>4, <3>1 DEF Sound
    <3> QED
      BY <1>2, <2>1, <3>2, OutsideKept, ReloadKept, CrashKept, RestartKept
  <2>2. ASSUME NEW c \in Slot, SlotStep(c) PROVE LifeInv' /\ OnceInv'
    <3>1. misled = 0
      BY <1>1, <1>4, <2>2, SlotShape DEF Shape
    <3>2. Sound
      BY <1>1, <3>1 DEF Sound
    <3> QED
      BY <1>4, <2>2, <3>2, SlotKept
  <2>3. \/ UNCHANGED vars \/ Outside \/ Reloads \/ Crash \/ Restart
        \/ \E c \in Slot : SlotStep(c)
    BY DEF Next, Outside, Reloads, SlotStep
  <2> QED
    BY <1>2, <2>1, <2>2, <2>3
<1> QED
  BY <1>3, <1>4

\* However polls and signals interleave, whatever fails, a target gets one notice of a kind
\* about a broadcast, and one more for each crash, lost receipt and cancelled handler.
THEOREM OnceCorrect == Spec => []OncePerBroadcast
<1>1. Init => Safe
  BY InitSafe
<1>2. Safe /\ [Next]_vars => Safe'
  BY StepSafe
<1>3. Safe => OncePerBroadcast
  <2>1. CASE Target = {}
    BY <2>1 DEF OncePerBroadcast
  <2>2. CASE OnceInv /\ TypeInv
    <3>1. ASSUME misled = 0, NEW k \in Kind, NEW n \in Stream, NEW x \in Target
          PROVE  sent[k][n][x] <= 1 + Excuses
      <4>1. sent[k][n][x] <= Excuses + 1
        BY <2>2, <3>1 DEF OnceInv
      <4>2. Excuses + 1 = 1 + Excuses
        BY <2>2, ExcusesIs
      <4> QED
        BY <4>1, <4>2
    <3> QED
      BY <3>1 DEF OncePerBroadcast
  <2> QED
    BY <2>1, <2>2 DEF Safe
<1> QED
  BY <1>1, <1>2, <1>3, PTL DEF Spec
=============================================================================
