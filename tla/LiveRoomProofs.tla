--------------------------- MODULE LiveRoomProofs ---------------------------
(***************************************************************************)
(* Proofs about LiveRoom.  First the inductive invariant for types, then    *)
(* what the operators of the model return, then what each action does, and  *)
(* last, action by action, that it keeps the invariant.                     *)
(***************************************************************************)
EXTENDS LiveRoom, SequenceTheorems, TLAPS

-----------------------------------------------------------------------------
(* The inductive invariant for types *)

\* The plans that Enter makes, and what is left of them.
Plans == {<<>>, <<RetryStart, RetryEnd>>, <<RetryStart>>, <<RetryEnd>>,
          <<PushStart, Save, RetryEnd>>, <<Save, RetryEnd>>,
          <<CatchUp, PushEnd, Save, RetryStart>>, <<PushEnd, Save, RetryStart>>,
          <<Save, RetryStart>>}

Holding == {"next", "build", "send", "inflight"}
Pushing == {"build", "send", "inflight"}

\* An answer: on air is a broadcast, and one that has begun.
SnapOK(a, n) == a # None => a \in Snapshot /\ (a.st = "live" <=> a.n # 0) /\ a.n <= n

\* A start notice that is pending has a broadcast that was seen live.
LastKnown(s) == s.pend["start"].on => s.last # 0

\* The handler r, given the state objects m and n broadcasts so far: what it is to do under
\* the lock follows from its answer, and when it pushes it knows what about.
HandlerOK(r, m, n) ==
  /\ SnapOK(r.snap, n)
  /\ r.pc = "record" => r.snap # None
  /\ r.pc = "lock" /\ r.job = "began" => r.snap # None /\ r.snap.st = "live"
  /\ r.pc = "lock" /\ r.job = "ended" =>
       IF r.snap = None THEN r.kind \in {"off", "round"} ELSE r.snap.st # "live"
  /\ r.plan \in Plans
  /\ r.pc \in Holding => r.plan # <<>>
  /\ r.pc = "next" /\ Head(r.plan) = PushStart => r.about \in Stream /\ m[r.life].last # 0
  /\ r.pc \in Pushing => /\ Head(r.plan) # Save
                         /\ r.about \in Stream
                         /\ Head(r.plan).k = "start" => m[r.life].last # 0
                         /\ r.before => Head(r.plan).k = "start"
                         /\ Head(r.plan) = CatchUp => r.before
  /\ r.pc = "inflight" => r.to \in Target

TypeInv ==
  /\ TypeOK
  /\ SnapOK(air, streams) /\ (air.st = "live" => air.n = streams)
  /\ spent.reload <= MaxReload
  /\ \A l \in Life : LastKnown(mem[l])
  /\ row # None => LastKnown(row)
  /\ \A c \in Slot : HandlerOK(chk[c], mem, streams)

-----------------------------------------------------------------------------
(* What the operators of the model return *)

Items == {PushStart, CatchUp, PushEnd, RetryStart, RetryEnd, Save}

\* The items differ, and are about the start or the end.
LEMMA ItemsDiffer ==
  /\ PushStart # CatchUp /\ PushStart # PushEnd /\ PushStart # RetryStart
  /\ PushStart # RetryEnd /\ PushStart # Save
  /\ CatchUp # PushEnd /\ CatchUp # RetryStart /\ CatchUp # RetryEnd /\ CatchUp # Save
  /\ PushEnd # RetryStart /\ PushEnd # RetryEnd /\ PushEnd # Save
  /\ RetryStart # RetryEnd /\ RetryStart # Save /\ RetryEnd # Save
BY DEF PushStart, CatchUp, PushEnd, RetryStart, RetryEnd, Save

\* Which notice an item is about, and how the handler came to it.
LEMMA ItemIs ==
  /\ PushStart.k = "start" /\ CatchUp.k = "start" /\ RetryStart.k = "start"
  /\ PushEnd.k = "end" /\ RetryEnd.k = "end"
  /\ PushStart.how = "push" /\ PushEnd.how = "push"
  /\ CatchUp.how = "before" /\ RetryStart.how = "retry" /\ RetryEnd.how = "retry"
  /\ PushStart.caught /\ CatchUp.caught /\ PushEnd.caught
  /\ ~RetryStart.caught /\ ~RetryEnd.caught
<1>1. /\ PushStart.k = "start" /\ CatchUp.k = "start" /\ RetryStart.k = "start"
      /\ PushEnd.k = "end" /\ RetryEnd.k = "end"
  BY DEF PushStart, CatchUp, PushEnd, RetryStart, RetryEnd
<1>2. /\ PushStart.how = "push" /\ PushEnd.how = "push"
      /\ CatchUp.how = "before" /\ RetryStart.how = "retry" /\ RetryEnd.how = "retry"
  BY DEF PushStart, CatchUp, PushEnd, RetryStart, RetryEnd
<1>3. PushStart.caught = TRUE /\ CatchUp.caught = TRUE /\ PushEnd.caught = TRUE
  BY DEF PushStart, CatchUp, PushEnd
<1>4. RetryStart.caught = FALSE /\ RetryEnd.caught = FALSE
  BY DEF RetryStart, RetryEnd
<1> QED
  BY <1>1, <1>2, <1>3, <1>4

\* Every item is about the start or the end.
LEMMA ItemKind == \A i \in Items : i.k \in Kind
<1>1. Save.k = "start"
  BY DEF Save
<1> QED
  BY <1>1, ItemIs DEF Items, Kind

\* One item after the other.
LEMMA PairIs ==
  ASSUME NEW X, NEW a \in X, NEW b \in X
  PROVE  <<a>> \o <<b>> = <<a, b>>
<1>1. <<a>> \in Seq(X) /\ <<b>> \in Seq(X) /\ <<a, b>> \in Seq(X)
  OBVIOUS
<1>2. LET p == <<a>> \o <<b>> IN p \in Seq(X) /\ Len(p) = 2 /\ p[1] = a /\ p[2] = b
  BY <1>1
<1>3. \A i \in 1 .. Len(<<a>> \o <<b>>) : (<<a>> \o <<b>>)[i] = <<a, b>>[i]
  BY <1>2
<1> QED
  BY <1>1, <1>2, <1>3, SeqEqual

\* What is left of a plan when its first item is done.
LEMMA PlanIs ==
  ASSUME NEW p \in Plans, p # <<>>
  PROVE  /\ Head(p) \in Items /\ Tail(p) \in Plans /\ p \in Seq(Items)
         /\ Len(p) # 1 => Tail(p) # <<>> /\ Head(Tail(p)) \notin {PushStart, CatchUp}
         /\ Len(p) # 1 /\ Head(Tail(p)) = PushEnd => Head(p) = CatchUp
<1> HIDE DEF PushStart, CatchUp, PushEnd, RetryStart, RetryEnd, Save
<1>1. CASE p = <<RetryStart, RetryEnd>>
  BY <1>1, ItemsDiffer DEF Items, Plans
<1>2. CASE p = <<RetryStart>> \/ p = <<RetryEnd>>
  <2>1. RetryStart \in Items /\ RetryEnd \in Items /\ <<>> \in Plans
    BY DEF Items, Plans
  <2>2. PICK i \in Items : p = <<i>>
    BY <1>2, <2>1
  <2>3. Head(p) = i /\ Tail(p) = <<>> /\ Len(p) = 1 /\ p \in Seq(Items)
    BY <2>2
  <2> QED
    BY <2>1, <2>2, <2>3
<1>3. CASE p = <<PushStart, Save, RetryEnd>>
  BY <1>3, ItemsDiffer DEF Items, Plans
<1>4. CASE p = <<Save, RetryEnd>>
  BY <1>4, ItemsDiffer DEF Items, Plans
<1>7. CASE p = <<Save, RetryStart>>
  BY <1>7, ItemsDiffer DEF Items, Plans
<1>5. CASE p = <<CatchUp, PushEnd, Save, RetryStart>>
  BY <1>5, ItemsDiffer DEF Items, Plans
<1>6. CASE p = <<PushEnd, Save, RetryStart>>
  BY <1>6, ItemsDiffer DEF Items, Plans
<1> QED
  BY <1>1, <1>2, <1>3, <1>4, <1>5, <1>6, <1>7 DEF Plans

\* The plans of Enter.
LEMMA PlansOfEnter ==
  /\ <<PushStart, Save, RetryEnd>> \in Plans /\ <<PushStart, Save, RetryEnd>> # <<>>
  /\ Head(<<PushStart, Save, RetryEnd>>) = PushStart
  /\ <<CatchUp, PushEnd, Save, RetryStart>> \in Plans
  /\ <<CatchUp, PushEnd, Save, RetryStart>> # <<>>
  /\ Head(<<CatchUp, PushEnd, Save, RetryStart>>) = CatchUp
  /\ \A p \in {<<RetryStart>>, <<>>}, q \in {<<RetryEnd>>, <<>>} :
       /\ p \o q \in Plans
       /\ p \o q # <<>> => Head(p \o q) \in {RetryStart, RetryEnd}
<1> HIDE DEF PushStart, CatchUp, PushEnd, RetryStart, RetryEnd, Save
<1>1. /\ <<PushStart, Save, RetryEnd>> \in Plans /\ <<PushStart, Save, RetryEnd>> # <<>>
      /\ Head(<<PushStart, Save, RetryEnd>>) = PushStart
  BY DEF Plans
<1>2. /\ <<CatchUp, PushEnd, Save, RetryStart>> \in Plans
      /\ <<CatchUp, PushEnd, Save, RetryStart>> # <<>>
      /\ Head(<<CatchUp, PushEnd, Save, RetryStart>>) = CatchUp
  BY DEF Plans
<1>3. <<RetryStart>> \o <<RetryEnd>> = <<RetryStart, RetryEnd>>
  <2>1. RetryStart \in Items /\ RetryEnd \in Items
    BY DEF Items
  <2> QED
    BY <2>1, PairIs
<1>4. <<RetryStart>> \o <<>> = <<RetryStart>> /\ <<>> \o <<RetryEnd>> = <<RetryEnd>>
  OBVIOUS
<1>5. <<>> \o <<>> = <<>>
  OBVIOUS
<1>6. /\ <<RetryStart, RetryEnd>> \in Plans /\ <<RetryStart>> \in Plans /\ <<RetryEnd>> \in Plans
      /\ <<>> \in Plans
  BY DEF Plans
<1>7. /\ Head(<<RetryStart, RetryEnd>>) = RetryStart /\ Head(<<RetryStart>>) = RetryStart
      /\ Head(<<RetryEnd>>) = RetryEnd
  OBVIOUS
<1> QED
  BY <1>1, <1>2, <1>3, <1>4, <1>5, <1>6, <1>7

-----------------------------------------------------------------------------
(* State objects and rows *)

\* The state objects are rooms, rows are rows; None is not a row.
LEMMA NothingIs == Nothing \in Pending /\ ~Nothing.on /\ Nothing.dlv = None /\ Nothing.to = {}
BY DEF Nothing, Pending

\* A new state object has seen nothing.
LEMMA FreshIs ==
  /\ Fresh \in Room /\ LastKnown(Fresh) /\ ~Fresh.init /\ ~Pends(Fresh)
  /\ Fresh.start = 0 /\ Fresh.last = 0 /\ Fresh.prev = "off" /\ Fresh.room = None
  /\ \A k \in Kind : Fresh.pend[k] = Nothing
<1>1. 0 \in Stream
  BY ParamAssumption DEF Stream
<1> QED
  BY <1>1, NothingIs DEF Fresh, Room, LastKnown, Pends, Kind, Status

\* _sync_observed_status records the status; the last broadcast only while live.
LEMMA SyncIs ==
  ASSUME NEW s \in Room, NEW st \in Status, NEW n \in Stream
  PROVE  LET t == Sync(s, st, n) IN
         /\ t \in Room /\ t.prev = st /\ t.room = n /\ t.pend = s.pend
         /\ t.start = s.start /\ t.init = s.init /\ t.ws = s.ws
         /\ t.last = (IF st = "live" THEN n ELSE s.last)
         /\ t.epoch = (IF s.prev # st THEN s.epoch + 1 ELSE s.epoch)
<1> DEFINE t == [s EXCEPT !.prev = st, !.epoch = IF s.prev # st THEN @ + 1 ELSE @,
                          !.room = n, !.last = IF st = "live" THEN n ELSE @]
<1>1. Sync(s, st, n) = t
  BY DEF Sync, Room
<1>2. t \in Room
  <2> DEFINE e == IF s.prev # st THEN s.epoch + 1 ELSE s.epoch
             l == IF st = "live" THEN n ELSE s.last
  <2>1. e \in Nat /\ l \in Stream
    BY DEF Room
  <2>2. t = [s EXCEPT !.prev = st, !.epoch = e, !.room = n, !.last = l]
    BY DEF Room
  <2> HIDE DEF e, l, t
  <2> QED
    BY <2>1, <2>2 DEF Room
<1> QED
  BY <1>1, <1>2 DEF Room

\* A pending notice that becomes q is dropped, or is on about the same as before.
Kept(p, q) == /\ q \in Pending
              /\ q # p => q = Nothing \/ q.on
              /\ q # Nothing => /\ q.dlv = None <=> p.dlv = None
                                /\ q.dlv # None => /\ q.dlv.about = p.dlv.about
                                                   /\ q.dlv.done = p.dlv.done

\* The state s becomes t: only pending notices change, and only those in K come on.
Eased(s, t, K) ==
  /\ t \in Room
  /\ t.prev = s.prev /\ t.start = s.start /\ t.room = s.room /\ t.last = s.last
  /\ t.epoch = s.epoch /\ t.init = s.init /\ t.ws = s.ws
  /\ \A k \in Kind : Kept(s.pend[k], t.pend[k]) /\ (t.pend[k].on /\ ~s.pend[k].on => k \in K)

\* The notices of a room are notices.
LEMMA PendIs == ASSUME NEW s \in Room, NEW k \in Kind PROVE s.pend[k] \in Pending
BY DEF Room

\* One notice of a state changes.
LEMMA PutPend ==
  ASSUME NEW s \in Room, NEW k \in Kind, NEW q \in Pending
  PROVE  LET t == [s EXCEPT !.pend[k] = q] IN
         /\ t \in Room
         /\ t.prev = s.prev /\ t.start = s.start /\ t.room = s.room /\ t.last = s.last
         /\ t.epoch = s.epoch /\ t.init = s.init /\ t.ws = s.ws
         /\ t.pend[k] = q /\ \A j \in Kind \ {k} : t.pend[j] = s.pend[j]
BY DEF Room

\* A notice that is left alone, or dropped.
LEMMA KeptSame == ASSUME NEW p \in Pending PROVE Kept(p, p) /\ Kept(p, Nothing)
BY NothingIs DEF Kept

\* A state that stays.
LEMMA EasedSame == ASSUME NEW s \in Room, NEW K PROVE Eased(s, s, K)
BY PendIs, KeptSame DEF Eased

\* A state whose notice k changes.
LEMMA EasedPut ==
  ASSUME NEW s \in Room, NEW k \in Kind, NEW q, Kept(s.pend[k], q), NEW K,
         q.on /\ ~s.pend[k].on => k \in K
  PROVE  Eased(s, [s EXCEPT !.pend[k] = q], K)
<1>1. q \in Pending
  BY DEF Kept
<1>2. \A j \in Kind : Kept(s.pend[j], s.pend[j])
  BY PendIs, KeptSame
<1> QED
  BY <1>1, <1>2, PutPend DEF Eased

\* A state that changes twice; a notice that was dropped does not come back.
LEMMA EasedTwice ==
  ASSUME NEW s \in Room, NEW t, NEW u, NEW K, Eased(s, t, K), Eased(t, u, K),
         \A k \in Kind : t.pend[k] = Nothing => u.pend[k] = Nothing \/ s.pend[k] = Nothing
  PROVE  Eased(s, u, K)
<1>1. ASSUME NEW k \in Kind
      PROVE  Kept(s.pend[k], u.pend[k]) /\ (u.pend[k].on /\ ~s.pend[k].on => k \in K)
  <2>1. /\ Kept(s.pend[k], t.pend[k]) /\ Kept(t.pend[k], u.pend[k])
        /\ s.pend[k] \in Pending
    BY PendIs DEF Eased
  <2> QED
    <3>1. CASE t.pend[k] = Nothing
      BY <2>1, <3>1, NothingIs DEF Kept, Eased
    <3>2. CASE t.pend[k] # Nothing
      BY <2>1, <3>2, NothingIs DEF Kept, Eased
    <3> QED
      BY <3>1, <3>2
<1> QED
  BY <1>1 DEF Eased

\* A notice is done.
LEMMA ClearIs ==
  ASSUME NEW s \in Room, NEW k \in Kind, NEW K
  PROVE  Eased(s, Clear(s, k), K) /\ Clear(s, k).pend[k] = Nothing
<1>1. Kept(s.pend[k], Nothing) /\ ~Nothing.on
  BY PendIs, KeptSame, NothingIs
<1>2. Clear(s, k) = [s EXCEPT !.pend[k] = Nothing]
  BY DEF Clear
<1> QED
  BY <1>1, <1>2, EasedPut, PutPend, NothingIs

\* A notice that is to be retried keeps its prepared message.
LEMMA MarkedIs ==
  ASSUME NEW p \in Pending
  PROVE  Kept(p, Marked(p)) /\ Marked(p).on /\ Marked(p).dlv = p.dlv
<1>1. p.dlv = None \/ p.dlv \in Message
  BY DEF Pending
<1>2. p.dlv # None => p.dlv.left \in SUBSET Target
  BY <1>1 DEF Message
<1>3. Marked(p) \in Pending /\ Marked(p).on /\ Marked(p).dlv = p.dlv
  BY <1>1, <1>2 DEF Marked, Pending
<1> QED
  BY <1>3, NothingIs DEF Kept

\* The notice k of a state is to be retried.
LEMMA MarkIs ==
  ASSUME NEW s \in Room, NEW k \in Kind, NEW K, s.pend[k].on \/ k \in K
  PROVE  /\ Eased(s, Mark(s, k), K)
         /\ Mark(s, k).pend[k].on /\ Mark(s, k).pend[k].dlv = s.pend[k].dlv
         /\ \A j \in Kind \ {k} : Mark(s, k).pend[j] = s.pend[j]
<1>1. Mark(s, k) = [s EXCEPT !.pend[k] = Marked(s.pend[k])]
  BY DEF Mark
<1>2. s.pend[k] \in Pending
  BY PendIs
<1> QED
  BY <1>1, <1>2, MarkedIs, EasedPut, PutPend DEF Kept

\* A row notes the status; the last broadcast only with a pending notice.
LEMMA RowIs ==
  ASSUME NEW s \in Room, LastKnown(s)
  PROVE  /\ RowOf(s) \in Row /\ LastKnown(RowOf(s))
         /\ RowOf(s).prev = s.prev /\ RowOf(s).start = s.start
         /\ Pends(s) => RowOf(s).last = s.last /\ RowOf(s).pend = s.pend
         /\ ~Pends(s) => RowOf(s).last = 0 /\ \A k \in Kind : RowOf(s).pend[k] = Nothing
<1>1. 0 \in Stream
  BY ParamAssumption DEF Stream
<1>2. s.pend \in [Kind -> Pending] /\ [k \in Kind |-> Nothing] \in [Kind -> Pending]
  BY NothingIs DEF Room
<1>3. "start" \in Kind
  BY DEF Kind
<1> QED
  BY <1>1, <1>2, <1>3, NothingIs DEF RowOf, Row, Room, LastKnown

\* The state that is read back from a row.
LEMMA RestoredIs ==
  ASSUME NEW w \in Row \cup {None}, w # None => LastKnown(w)
  PROVE  /\ Restored(w) \in Room /\ LastKnown(Restored(w)) /\ ~Restored(w).init
         /\ Restored(w).room = None
         /\ w = None => Restored(w) = Fresh
         /\ w # None => /\ Restored(w).prev = w.prev /\ Restored(w).start = w.start
                        /\ Restored(w).last = w.last /\ Restored(w).pend = w.pend
<1>1. CASE w = None
  BY <1>1, FreshIs DEF Restored
<1>2. CASE w # None
  <2>1. w \in Row
    BY <1>2
  <2> QED
    BY <1>2, <2>1, FreshIs DEF Restored, Room, Row, LastKnown
<1> QED
  BY <1>1, <1>2

-----------------------------------------------------------------------------
(* Handlers *)

\* A slot that nothing runs in is a fine slot.
LEMMA IdleIs == /\ Idle \in SlotRec /\ Idle.pc = "idle" /\ Idle.ahead = {} /\ Idle.snap = None
                /\ \A m, n : HandlerOK(Idle, m, n)
<1>1. 0 \in Life
  BY ParamAssumption DEF Life
<1>2. <<>> \in Seq(Items) /\ <<>> \in Plans
  BY DEF Plans
<1>3. Idle.pc = "idle" /\ Idle.snap = None /\ Idle.plan = <<>> /\ Idle.ahead = {}
  BY DEF Idle
<1>4. Idle \in SlotRec
  BY <1>1, <1>2 DEF Idle, SlotRec, Items
<1> QED
  BY <1>2, <1>3, <1>4 DEF HandlerOK, SnapOK, Holding, Pushing

\* No state object forgets the last broadcast.
Remembers(m, w) == \A l \in Life : m[l].last # 0 => w[l].last # 0

\* A handler stays sound when the broadcasts go on and no state forgets its own.
LEMMA HandlerStays ==
  ASSUME NEW r \in SlotRec, NEW m, NEW w, NEW n \in Nat, NEW n2 \in Nat, n <= n2,
         HandlerOK(r, m, n), Remembers(m, w), r.snap # None => r.snap.n \in Nat
  PROVE  HandlerOK(r, w, n2)
<1>1. r.life \in Life
  BY DEF SlotRec
<1>2. SnapOK(r.snap, n2)
  BY DEF HandlerOK, SnapOK
<1>3. r.pc = "next" /\ Head(r.plan) = PushStart => r.about \in Stream /\ w[r.life].last # 0
  BY <1>1 DEF HandlerOK, Remembers
<1>4. r.pc \in Pushing => /\ Head(r.plan) # Save /\ r.about \in Stream
                          /\ Head(r.plan).k = "start" => w[r.life].last # 0
                          /\ r.before => Head(r.plan).k = "start"
                          /\ Head(r.plan) = CatchUp => r.before
  BY <1>1 DEF HandlerOK, Remembers
<1> QED
  BY <1>2, <1>3, <1>4 DEF HandlerOK

\* A handler that leaves a queue is otherwise what it was.
Without(r, c) == [r EXCEPT !.ahead = @ \ {c}]

\* Leaving a queue changes nothing else.
LEMMA WithoutIs ==
  ASSUME NEW r \in SlotRec, NEW c
  PROVE  LET q == Without(r, c) IN
         /\ q \in SlotRec /\ q.ahead = r.ahead \ {c}
         /\ q.pc = r.pc /\ q.kind = r.kind /\ q.life = r.life /\ q.epoch = r.epoch
         /\ q.snap = r.snap /\ q.job = r.job /\ q.plan = r.plan /\ q.before = r.before
         /\ q.about = r.about /\ q.queue = r.queue /\ q.done = r.done
         /\ q.failed = r.failed /\ q.to = r.to /\ q.cut = r.cut
BY DEF Without, SlotRec

\* Slot c does its step, the others are what they were, but that c may leave the queue.
Steps(c) == /\ chk' \in [Slot -> SlotRec]
            /\ \A d \in Slot \ {c} : chk'[d] \in {chk[d], Without(chk[d], c)}

\* A step of one slot: the others stay sound.
LEMMA StepsType ==
  ASSUME TypeInv, NEW c \in Slot, Steps(c), Remembers(mem, mem'), streams' = streams,
         HandlerOK(chk'[c], mem', streams')
  PROVE  (chk \in [Slot -> SlotRec])' /\ (\A d \in Slot : HandlerOK(chk[d], mem, streams))'
<1>1. streams \in Nat /\ chk \in [Slot -> SlotRec]
  BY ParamAssumption DEF TypeInv, TypeOK, Stream
<1>2. ASSUME NEW d \in Slot, d # c PROVE HandlerOK(chk'[d], mem', streams')
  <2>1. chk[d] \in SlotRec /\ HandlerOK(chk[d], mem, streams)
    BY <1>1 DEF TypeInv
  <2>2. chk[d].snap # None => chk[d].snap.n \in Nat
    BY <2>1, ParamAssumption DEF HandlerOK, SnapOK, Snapshot, Stream
  <2>3. HandlerOK(chk[d], mem', streams')
    BY <1>1, <2>1, <2>2, HandlerStays
  <2>4. HandlerOK(Without(chk[d], c), mem', streams')
    BY <2>1, <2>3, WithoutIs DEF HandlerOK
  <2> QED
    BY <1>2, <2>3, <2>4 DEF Steps
<1> QED
  BY <1>2 DEF Steps

\* A handler that ends frees its slot and the lock.
LEMMA LeaveSteps ==
  ASSUME TypeInv, NEW c \in Slot, Leave(c)
  PROVE  /\ Steps(c) /\ chk'[c] = Idle
         /\ \A d \in Slot \ {c} : chk'[d] = Without(chk[d], c)
<1>1. chk \in [Slot -> SlotRec]
  BY DEF TypeInv, TypeOK
<1>2. chk' = [d \in Slot |-> IF d = c THEN Idle ELSE Without(chk[d], c)]
  BY DEF Leave, Left, Without
<1> QED
  BY <1>1, <1>2, IdleIs, WithoutIs DEF Steps

\* A handler that goes on touches its own slot only.
LEMMA PutSteps ==
  ASSUME TypeInv, NEW c \in Slot, NEW r \in SlotRec, chk' = [chk EXCEPT ![c] = r]
  PROVE  Steps(c) /\ chk'[c] = r /\ \A d \in Slot \ {c} : chk'[d] = chk[d]
BY DEF Steps, TypeInv, TypeOK

-----------------------------------------------------------------------------
(* What a step of a delivery does *)

\* The row is left alone, or notes the state m; an error of the database may be spent.
Notes(m) == row' = row \/ (Active /\ row' = RowOf(m[cur]))
Spends   == spent' = spent \/ spent' = [spent EXCEPT !.db = @ + 1]

\* A write of the row, or one that raises, as a change of row and budget.
LEMMA SavedIs == ASSUME NEW m, Saved(m) \/ SaveFailed PROVE Notes(m) /\ Spends
BY DEF Saved, SaveFailed, Notes, Spends

\* The kinds of notices that a handler may turn on.
Raises(c) == {k \in Kind : \/ k = Item(c).k /\ (Item(c).how = "push" \/ chk[c].pc # "next")
                           \/ k = "end" /\ Item(c) = CatchUp /\ chk[c].cut}

\* The handler leaves, or goes on with the next item.
Goes(c) == \/ Leave(c)
           \/ /\ Len(chk[c].plan) # 1
              /\ chk' = [chk EXCEPT ![c] = Onward(chk[c])]

\* A state comes into the place of that of the handler.
Puts(m, c, t) == [m EXCEPT ![chk[c].life] = t]

\* The handler changes the state s to t: the other notice, when pending, stays.
Changes(c, s, t) == /\ Eased(s, t, Raises(c))
                    /\ \A j \in Kind \ {Item(c).k} : s.pend[j].on => t.pend[j].on

\* The handler is over with a delivery, whose state was b.
Closes(c, b) == \E t1, t \in Room :
  /\ Changes(c, b, t1) /\ Changes(c, b, t)
  /\ mem' = Puts(mem, c, t) /\ Notes(Puts(mem, c, t1)) /\ Spends
  /\ Goes(c)

\* Who holds the lock has a plan, and knows what it pushes.
LEMMA HolderIs ==
  ASSUME TypeInv, NEW c \in Slot, chk[c].pc \in Holding
  PROVE  /\ chk[c] \in SlotRec /\ chk[c].life \in Life /\ mem[chk[c].life] \in Room
         /\ chk[c].plan \in Plans /\ chk[c].plan # <<>> /\ Item(c) \in Items
         /\ Item(c).k \in Kind
<1>1. chk[c] \in SlotRec /\ mem \in [Life -> Room]
  BY DEF TypeInv, TypeOK
<1>2. chk[c].plan \in Plans /\ chk[c].plan # <<>>
  BY DEF TypeInv, HandlerOK
<1>3. Item(c) \in Items
  BY <1>2, PlanIs DEF Item
<1> QED
  BY <1>1, <1>2, <1>3, ItemKind DEF SlotRec

\* A delivery that ends without and with an error, from the state b to t.
Ends(c, before, b, raised, t) ==
  LET s == IF before /\ (raised => Item(c).caught) THEN Clear(b, "start")
           ELSE IF raised /\ Item(c).caught THEN Mark(b, Item(c).k)
           ELSE b
  IN t = IF chk[c].cut /\ Item(c) = CatchUp THEN Mark(s, "end") ELSE s

\* How the state of the room ends with a handler that is cut off.
LEMMA EndsIs ==
  ASSUME TypeInv, NEW c \in Slot, chk[c].pc \in Holding, NEW b \in Room,
         NEW before \in BOOLEAN, NEW raised \in BOOLEAN,
         NEW t, Ends(c, before, b, raised, t),
         before => Item(c).k = "start", Item(c) = CatchUp => before,
         raised /\ Item(c).caught => b.pend[Item(c).k].on \/ Item(c).k \in Raises(c)
  PROVE  /\ Changes(c, b, t)
         /\ \A j \in Kind : b.pend[j] = Nothing /\ t.pend[j] # Nothing =>
                              (j = Item(c).k /\ raised) \/ (j = "end" /\ Item(c) = CatchUp)
<1> DEFINE k == Item(c).k
           K == Raises(c)
           s == IF before /\ (raised => Item(c).caught) THEN Clear(b, "start")
                ELSE IF raised /\ Item(c).caught THEN Mark(b, k)
                ELSE b
<1>1. /\ chk[c] \in SlotRec /\ Item(c) \in Items
      /\ k \in Kind /\ "start" \in Kind /\ "end" \in Kind
  BY HolderIs DEF Kind
<1>2. /\ Eased(b, s, K)
      /\ \A j \in Kind : b.pend[j] = Nothing /\ s.pend[j] # Nothing => j = k /\ raised
      /\ \A j \in Kind \ {k} : s.pend[j] = b.pend[j]
  <2>1. CASE before /\ (raised => Item(c).caught)
    <3>1. s = Clear(b, "start") /\ k = "start"
      BY <2>1
    <3>2. s = [b EXCEPT !.pend["start"] = Nothing]
      BY <3>1 DEF Clear
    <3> HIDE DEF s, K
    <3>3. Eased(b, s, K) /\ s.pend["start"] = Nothing
      BY <1>1, <3>1, ClearIs
    <3>4. \A j \in Kind \ {"start"} : s.pend[j] = b.pend[j]
      BY <1>1, <3>2, PutPend, NothingIs
    <3> QED
      BY <3>1, <3>3, <3>4
  <2>2. CASE ~(before /\ (raised => Item(c).caught)) /\ raised /\ Item(c).caught
    <3>1. s = Mark(b, k)
      BY <2>2
    <3>2. b.pend[k].on \/ k \in K
      BY <2>2
    <3> HIDE DEF s, K, k
    <3> QED
      BY <1>1, <2>2, <3>1, <3>2, MarkIs
  <2>3. CASE ~(before /\ (raised => Item(c).caught)) /\ ~(raised /\ Item(c).caught)
    <3>1. s = b
      BY <2>3
    <3> HIDE DEF s, K
    <3> QED
      BY <1>1, <3>1, EasedSame
  <2> QED
    BY <2>1, <2>2, <2>3
<1>3. t = IF chk[c].cut /\ Item(c) = CatchUp THEN Mark(s, "end") ELSE s
  BY DEF Ends
<1>4. s \in Room
  BY <1>2 DEF Eased
<1>5. Item(c) = CatchUp => k = "start"
  BY ItemIs
<1> HIDE DEF s
<1>6. CASE chk[c].cut /\ Item(c) = CatchUp
  <2>1. t = Mark(s, "end") /\ "end" \in K
    BY <1>1, <1>3, <1>6 DEF Raises
  <2> HIDE DEF K
  <2>2. /\ Eased(s, t, K) /\ t.pend["end"].on
        /\ \A j \in Kind \ {"end"} : t.pend[j] = s.pend[j]
    BY <1>1, <1>4, <2>1, MarkIs
  <2>3. \A j \in Kind : s.pend[j] = Nothing => t.pend[j] = Nothing \/ b.pend[j] = Nothing
    BY <1>2, <1>5, <1>6, <2>2
  <2>4. Eased(b, t, K)
    BY <1>2, <2>2, <2>3, EasedTwice
  <2>5. \A j \in Kind \ {k} : b.pend[j].on => t.pend[j].on
    BY <1>2, <1>5, <1>6, <2>2
  <2> QED
    BY <1>2, <1>6, <2>2, <2>4, <2>5 DEF Changes, K
<1>7. CASE ~(chk[c].cut /\ Item(c) = CatchUp)
  <2>1. t = s
    BY <1>3, <1>7
  <2> QED
    BY <1>2, <2>1 DEF Changes
<1> QED
  BY <1>6, <1>7

\* A delivery is over: the handler ends or goes on with its plan.
LEMMA ClosedIs ==
  ASSUME NEW c, NEW before, NEW raised, NEW m, Closed(c, before, m, raised)
  PROVE  \E t : Ends(c, before, m[chk[c].life], raised, t) /\ mem' = Puts(m, c, t) /\ Goes(c)
<1>1. \E t : Ends(c, before, m[chk[c].life], raised, t) /\ mem' = Puts(m, c, t)
  BY DEF Closed, Puts, Ends
<1>2. Goes(c)
  BY DEF Closed, Goes, Onward
<1> QED
  BY <1>1, <1>2

\* A notice that is to be sent again, one whose message has reached x.
LEMMA ResendIs ==
  ASSUME NEW p \in Pending, NEW left \in SUBSET Target
  PROVE  LET q == Resend(p, left) IN
         /\ Kept(p, q) /\ q.on /\ q.to = p.to /\ q # Nothing
         /\ p.dlv # None => q.dlv = [p.dlv EXCEPT !.left = left]
<1>1. CASE p.dlv = None
  <2>1. Resend(p, left) = [p EXCEPT !.on = TRUE, !.dlv = None]
    BY <1>1 DEF Resend
  <2> QED
    BY <1>1, <2>1, NothingIs DEF Kept, Pending
<1>2. CASE p.dlv # None
  <2> DEFINE d == [p.dlv EXCEPT !.left = left]
  <2>1. p.dlv \in Message
    BY <1>2 DEF Pending
  <2>2. d \in Message /\ d.about = p.dlv.about /\ d.done = p.dlv.done
    BY <2>1 DEF Message
  <2>3. d # None
    BY <2>2, NoneAssumption
  <2>4. Resend(p, left) = [p EXCEPT !.on = TRUE, !.dlv = d]
    BY <1>2 DEF Resend
  <2> HIDE DEF d
  <2>5. Resend(p, left).dlv = d /\ Resend(p, left).on /\ Resend(p, left) \in Pending
        /\ Resend(p, left).to = p.to
    BY <2>2, <2>4 DEF Pending
  <2> QED
    BY <1>2, <2>2, <2>3, <2>5, NothingIs DEF Kept, d
<1> QED
  BY <1>1, <1>2

\* The checkpoint of a target changes who has the message, nothing else.
LEMMA ReachedIs ==
  ASSUME NEW p \in Pending, NEW x \in Target
  PROVE  LET q == Reached(p, x) IN
         /\ q \in Pending /\ q.on = p.on /\ q.to = p.to
         /\ p.dlv = None => q = p
         /\ p.dlv # None => /\ q.dlv # None /\ q.dlv.about = p.dlv.about
                            /\ q.dlv.done = p.dlv.done \cup {x} /\ q.dlv.left = p.dlv.left
<1>1. CASE p.dlv = None
  <2>1. Reached(p, x) = [p EXCEPT !.dlv = None]
    BY <1>1 DEF Reached
  <2> QED
    BY <1>1, <2>1 DEF Pending
<1>2. CASE p.dlv # None
  <2> DEFINE d == [p.dlv EXCEPT !.done = p.dlv.done \cup {x}]
  <2>1. p.dlv \in Message
    BY <1>2 DEF Pending
  <2>2. d \in Message /\ d.about = p.dlv.about /\ d.done = p.dlv.done \cup {x} /\ d.left = p.dlv.left
    BY <2>1 DEF Message
  <2>3. d # None
    BY <2>2, NoneAssumption
  <2>4. Reached(p, x) = [p EXCEPT !.dlv = d]
    BY <1>2 DEF Reached
  <2> HIDE DEF d
  <2> QED
    BY <1>2, <2>2, <2>3, <2>4 DEF Pending
<1> QED
  BY <1>1, <1>2

\* A delivery ends: what failed stays pending.
LEMMA SettleIs ==
  ASSUME TypeInv, NEW c \in Slot, chk[c].pc \in Holding, NEW before \in BOOLEAN,
         NEW failed \in SUBSET Target, Settle(c, before, failed),
         before => Item(c).k = "start", Item(c) = CatchUp => before,
         mem[chk[c].life].pend[Item(c).k].on \/ Item(c).k \in Raises(c)
  PROVE  Closes(c, mem[chk[c].life])
<1> DEFINE k == Item(c).k
           l == chk[c].life
           b == mem[l]
           q == [Resend(b.pend[k], failed) EXCEPT !.to = failed]
           t1 == IF failed = {} THEN Clear(b, k) ELSE [b EXCEPT !.pend[k] = q]
           m == [mem EXCEPT ![l] = t1]
           K == Raises(c)
<1>1. l \in Life /\ b \in Room /\ k \in Kind /\ mem \in [Life -> Room] /\ b.pend[k] \in Pending
  BY HolderIs, PendIs DEF TypeInv, TypeOK
<1>2. /\ Eased(b, t1, K) /\ (t1.pend[k].on \/ failed = {})
      /\ \A j \in Kind \ {k} : t1.pend[j] = b.pend[j]
      /\ failed # {} => t1.pend[k] # Nothing
  <2>1. CASE failed = {}
    <3>1. t1 = Clear(b, k)
      BY <2>1
    <3>4. t1 = [b EXCEPT !.pend[k] = Nothing]
      BY <3>1 DEF Clear
    <3> HIDE DEF t1, b, k, K
    <3>2. Eased(b, t1, K)
      BY <1>1, <3>1, ClearIs
    <3>3. \A j \in Kind \ {k} : t1.pend[j] = b.pend[j]
      BY <1>1, <3>4, PutPend, NothingIs
    <3> QED
      BY <2>1, <3>2, <3>3
  <2>2. CASE failed # {}
    <3>1. t1 = [b EXCEPT !.pend[k] = q]
      BY <2>2
    <3>2. b.pend[k].on \/ k \in K
      OBVIOUS
    <3> HIDE DEF t1, b, k, K
    <3>3. Kept(b.pend[k], q) /\ q.on /\ q # Nothing
      <4>1. LET r == Resend(b.pend[k], failed) IN Kept(b.pend[k], r) /\ r.on
        BY <1>1, ResendIs
      <4> HIDE DEF q
      <4>2. q = [Resend(b.pend[k], failed) EXCEPT !.to = failed]
        BY DEF q
      <4>3. q \in Pending /\ q.on /\ q.dlv = Resend(b.pend[k], failed).dlv
        BY <4>1, <4>2 DEF Kept, Pending
      <4> QED
        BY <4>1, <4>3, NothingIs DEF Kept
    <3> HIDE DEF q
    <3>4. Eased(b, t1, K)
      BY <1>1, <3>1, <3>2, <3>3, EasedPut
    <3>5. t1.pend[k] = q /\ \A j \in Kind \ {k} : t1.pend[j] = b.pend[j]
      BY <1>1, <3>1, <3>3, PutPend DEF Kept
    <3> QED
      BY <2>2, <3>3, <3>4, <3>5
  <2> QED
    BY <2>1, <2>2
<1>3. t1 \in Room
  BY <1>2 DEF Eased
<1>4. m = Puts(mem, c, t1)
  BY DEF Puts
<1>5. \/ Saved(m) /\ Closed(c, before, m, FALSE)
      \/ SaveFailed /\ Closed(c, before, IF failed = {} THEN mem ELSE m, TRUE)
  BY DEF Settle
<1> HIDE DEF t1, m
<1>6. m \in [Life -> Room] /\ m[l] = t1 /\ \A t : Puts(m, c, t) = Puts(mem, c, t)
  BY <1>1, <1>3, <1>4 DEF Puts
<1>7. Changes(c, b, t1)
  BY <1>2 DEF Changes
<1>8. ASSUME NEW raised \in BOOLEAN, Closed(c, before, m, raised), raised => failed # {}
      PROVE  \E t \in Room : Changes(c, b, t) /\ mem' = Puts(mem, c, t) /\ Goes(c)
  <2>1. PICK t : Ends(c, before, t1, raised, t) /\ mem' = Puts(mem, c, t) /\ Goes(c)
    BY <1>6, <1>8, ClosedIs
  <2>2. raised /\ Item(c).caught => t1.pend[k].on \/ k \in Raises(c)
    BY <1>2, <1>8
  <2>3. /\ Changes(c, t1, t)
        /\ \A j \in Kind : t1.pend[j] = Nothing /\ t.pend[j] # Nothing =>
                             (j = k /\ raised) \/ (j = "end" /\ Item(c) = CatchUp)
    BY <1>3, <2>1, <2>2, EndsIs
  <2>4. \A j \in Kind : t1.pend[j] = Nothing => t.pend[j] = Nothing \/ b.pend[j] = Nothing
    BY <1>2, <1>8, <2>3, ItemIs
  <2>5. Eased(b, t, K)
    BY <1>1, <1>2, <2>3, <2>4, EasedTwice DEF Changes
  <2>6. Changes(c, b, t) /\ t \in Room
    BY <1>2, <2>3, <2>5 DEF Changes, Eased
  <2> QED
    BY <2>1, <2>6
<1>9. CASE Saved(m) /\ Closed(c, before, m, FALSE)
  BY <1>3, <1>4, <1>7, <1>8, <1>9, SavedIs DEF Closes
<1>10. CASE SaveFailed /\ failed # {} /\ Closed(c, before, m, TRUE)
  BY <1>3, <1>4, <1>7, <1>8, <1>10, SavedIs DEF Closes
<1>11. CASE SaveFailed /\ failed = {} /\ Closed(c, before, mem, TRUE)
  <2>1. PICK t : Ends(c, before, b, TRUE, t) /\ mem' = Puts(mem, c, t) /\ Goes(c)
    BY <1>11, ClosedIs
  <2>2. Changes(c, b, t)
    BY <1>1, <2>1, EndsIs
  <2>3. t \in Room
    BY <2>2 DEF Changes, Eased
  <2>4. Notes(Puts(mem, c, t)) /\ Spends
    BY <1>11, SavedIs
  <2> QED
    BY <2>1, <2>2, <2>3, <2>4 DEF Closes
<1> QED
  BY <1>5, <1>9, <1>10, <1>11

-----------------------------------------------------------------------------
(* What a handler does with the lock *)

RoomOK(s) == s \in Room /\ LastKnown(s)
RoomsOK(m) == m \in [Life -> Room] /\ \A l \in Life : LastKnown(m[l])

\* The state s when a broadcast n began; when it ended, seen as st and room.
BeganState(s, n) == [Sync(Mark(Clear(s, "end"), "start"), "live", n) EXCEPT !.start = n]
EndedState(s, st, room) == Sync(Mark(s, "end"), st, room)

\* The state when a broadcast began.
LEMMA BeganIs ==
  ASSUME NEW s \in Room, NEW n \in Stream
  PROVE  LET t == BeganState(s, n) IN
         /\ t \in Room /\ t.prev = "live" /\ t.start = n /\ t.last = n /\ t.room = n
         /\ t.init = s.init /\ t.ws = s.ws
         /\ t.epoch = (IF s.prev # "live" THEN s.epoch + 1 ELSE s.epoch)
         /\ t.pend["end"] = Nothing /\ t.pend["start"].on
         /\ t.pend["start"].dlv = s.pend["start"].dlv
<1> DEFINE u == Clear(s, "end")
           v == Mark(u, "start")
           w == Sync(v, "live", n)
<1>1. "start" \in Kind /\ "end" \in Kind /\ "live" \in Status
  BY DEF Kind, Status
<1>2. u \in Room /\ Eased(s, u, {}) /\ u.pend["end"] = Nothing
  <2>1. Eased(s, u, {}) /\ u.pend["end"] = Nothing
    BY <1>1, ClearIs
  <2> QED
    BY <2>1 DEF Eased
<1>3. u.pend["start"] = s.pend["start"]
  <2>1. u = [s EXCEPT !.pend["end"] = Nothing]
    BY DEF Clear
  <2> HIDE DEF u
  <2> QED
    BY <1>1, <2>1, PutPend, NothingIs
<1> HIDE DEF u
<1>4. /\ v \in Room /\ Eased(u, v, {"start"}) /\ v.pend["start"].on
      /\ v.pend["start"].dlv = u.pend["start"].dlv /\ v.pend["end"] = u.pend["end"]
  BY <1>1, <1>2, MarkIs, SMTT(20) DEF Eased
<1> HIDE DEF v
<1>5. /\ w \in Room /\ w.prev = "live" /\ w.room = n /\ w.pend = v.pend
      /\ w.init = v.init /\ w.ws = v.ws /\ w.last = n
      /\ w.epoch = (IF v.prev # "live" THEN v.epoch + 1 ELSE v.epoch)
  BY <1>1, <1>4, SyncIs
<1>6. BeganState(s, n) = [w EXCEPT !.start = n]
  BY DEF BeganState, u, v
<1> HIDE DEF w
<1> QED
  BY <1>2, <1>3, <1>4, <1>5, <1>6 DEF Room, Eased

\* The state when a broadcast ended.
LEMMA EndedIs ==
  ASSUME NEW s \in Room, NEW st \in Status, st # "live", NEW n \in Stream
  PROVE  LET t == EndedState(s, st, n) IN
         /\ t \in Room /\ t.prev = st /\ t.start = s.start /\ t.last = s.last /\ t.room = n
         /\ t.init = s.init /\ t.ws = s.ws
         /\ t.epoch = (IF s.prev # st THEN s.epoch + 1 ELSE s.epoch)
         /\ t.pend["start"] = s.pend["start"]
         /\ t.pend["end"].on /\ t.pend["end"].dlv = s.pend["end"].dlv
<1> DEFINE v == Mark(s, "end")
<1>1. "start" \in Kind /\ "end" \in Kind
  BY DEF Kind
<1>2. /\ v \in Room /\ Eased(s, v, {"end"}) /\ v.pend["end"].on
      /\ v.pend["end"].dlv = s.pend["end"].dlv /\ v.pend["start"] = s.pend["start"]
  BY <1>1, MarkIs DEF Eased
<1>3. EndedState(s, st, n) = Sync(v, st, n)
  BY DEF EndedState
<1> HIDE DEF v
<1> QED
  BY <1>2, <1>3, SyncIs DEF Eased

\* The handler of a state object begins a plan.
Begun(l, plan, about) == [Idle EXCEPT !.pc = "next", !.life = l, !.plan = plan, !.about = about]

\* A handler that starts on its plan.
LEMMA BegunIs ==
  ASSUME NEW l \in Life, NEW plan \in Plans, NEW about \in Stream \cup {None}
  PROVE  LET q == Begun(l, plan, about) IN
         /\ q \in SlotRec /\ q.pc = "next" /\ q.life = l /\ q.plan = plan /\ q.about = about
         /\ q.snap = None /\ q.ahead = {} /\ ~q.cut /\ q.epoch = 0 /\ q.job = "retry"
         /\ q.kind = "poll"
<1>1. plan \in Seq(Items)
  <2>1. CASE plan = <<>>
    BY <2>1
  <2>2. CASE plan # <<>>
    BY <2>2, PlanIs
  <2> QED
    BY <2>1, <2>2
<1>2. Idle.cut = FALSE /\ Idle.snap = None /\ Idle.ahead = {} /\ Idle.epoch = 0
      /\ Idle.job = "retry" /\ Idle.kind = "poll"
  BY DEF Idle
<1>3. "next" \in {"idle", "init", "record", "fetch", "got", "lock", "next", "build",
                  "send", "inflight"}
  OBVIOUS
<1> HIDE DEF Idle
<1> QED
  BY <1>1, <1>2, <1>3, IdleIs DEF Begun, SlotRec, Items

\* A plan is started, or there is nothing to do.
LEMMA RunIs ==
  ASSUME NEW c, NEW r, NEW plan, NEW about, Run(c, r, plan, about)
  PROVE  \/ plan = <<>> /\ Leave(c)
         \/ plan # <<>> /\ chk' = [chk EXCEPT ![c] = Begun(r.life, plan, about)]
BY DEF Run, Begun

\* What a handler that comes for the lock brings with it.
Prepared(r) ==
  /\ SnapOK(r.snap, streams)
  /\ r.job = "began" => r.snap # None /\ r.snap.st = "live"
  /\ r.job = "ended" => IF r.snap = None THEN r.kind \in {"off", "round"}
                                         ELSE r.snap.st # "live"

\* It takes the lock from memory m: it leaves, and an end without any room is recorded
\* first; or it changes the state of the room and begins a plan.
Takes(m, c, r) == LET s == m[r.life] IN
  \/ Leave(c) /\ mem' = m
  \/ /\ r.job = "ended" /\ s.prev = "live" /\ s.room = None /\ r.snap = None
     /\ Leave(c)
     /\ mem' = [m EXCEPT ![r.life].prev = r.kind, ![r.life].epoch = @ + 1]
  \/ /\ r.job = "began" /\ s.prev # "live"
     /\ mem' = [m EXCEPT ![r.life] = BeganState(s, r.snap.n)]
     /\ chk' = [chk EXCEPT ![c] = Begun(r.life, <<PushStart, Save, RetryEnd>>, r.snap.n)]
  \/ /\ r.job = "ended" /\ s.prev = "live"
     /\ \E st \in Status \ {"live"}, n \in Stream :
          /\ IF r.snap = None THEN st = r.kind /\ n = s.room ELSE st = r.snap.st /\ n = r.snap.n
          /\ mem' = [m EXCEPT ![r.life] = EndedState(s, st, n)]
     /\ chk' = [chk EXCEPT ![c] = Begun(r.life, <<CatchUp, PushEnd, Save, RetryStart>>,
                                        IF s.room = None THEN LastLive(s) ELSE s.room)]
  \/ /\ r.job \in {"retry", "confirmed", "prepared"}
     /\ mem' = m
     /\ \E p \in {<<RetryStart>>, <<>>}, q \in {<<RetryEnd>>, <<>>} :
          p \o q # <<>> /\ chk' = [chk EXCEPT ![c] = Begun(r.life, p \o q, None)]

\* What happens when the handler r gets the lock, case by case.
LEMMA EnterIs ==
  ASSUME NEW m \in [Life -> Room], NEW c, NEW r \in SlotRec, Prepared(r), Enter(m, c, r)
  PROVE  Takes(m, c, r)
<1> DEFINE s == m[r.life]
<1>1. r.life \in Life /\ s \in Room
  BY DEF SlotRec
<1>2. CASE EnterBegan(m, c, r)
  <2>1. r.job = "began"
    BY <1>2 DEF EnterBegan
  <2>2. CASE s.prev = "live"
    BY <1>2, <2>2 DEF EnterBegan, Takes
  <2>3. CASE s.prev # "live"
    <3>1. /\ mem' = [m EXCEPT ![r.life] = BeganState(s, r.snap.n)]
          /\ Run(c, r, <<PushStart, Save, RetryEnd>>, r.snap.n)
      BY <1>2, <2>3 DEF EnterBegan, BeganState
    <3>2. chk' = [chk EXCEPT ![c] = Begun(r.life, <<PushStart, Save, RetryEnd>>, r.snap.n)]
      BY <3>1, RunIs, PlansOfEnter
    <3> QED
      BY <2>1, <2>3, <3>1, <3>2 DEF Takes
  <2> QED
    BY <2>2, <2>3
<1>3. CASE EnterEnded(m, c, r)
  <2> DEFINE st   == IF r.snap = None THEN r.kind ELSE r.snap.st
             room == IF r.snap = None THEN s.room ELSE r.snap.n
  <2>1. r.job = "ended"
    BY <1>3 DEF EnterEnded
  <2>2. CASE s.prev # "live"
    BY <1>3, <2>2 DEF EnterEnded, Takes
  <2>3. CASE s.prev = "live" /\ room = None
    <3>1. r.snap = None /\ s.room = None
      <4>1. r.snap # None => r.snap.n \in Stream
        BY DEF Prepared, SnapOK, Snapshot
      <4>2. None \notin Stream
        BY NoneAssumption
      <4> QED
        BY <2>3, <4>1, <4>2
    <3>2. mem' = [m EXCEPT ![r.life].prev = r.kind, ![r.life].epoch = @ + 1] /\ Leave(c)
      BY <1>3, <2>3, <3>1 DEF EnterEnded
    <3> QED
      BY <2>1, <2>3, <3>1, <3>2 DEF Takes
  <2>4. CASE s.prev = "live" /\ room # None
    <3>1. /\ mem' = [m EXCEPT ![r.life] = EndedState(s, st, room)]
          /\ Run(c, r, <<CatchUp, PushEnd, Save, RetryStart>>,
                 IF s.room = None THEN LastLive(s) ELSE s.room)
      BY <1>3, <2>4 DEF EnterEnded, EndedState
    <3>2. st \in Status \ {"live"} /\ room \in Stream
      BY <1>1, <2>1, <2>4 DEF Prepared, SnapOK, Snapshot, Status, Room
    <3>3. chk' = [chk EXCEPT ![c] = Begun(r.life, <<CatchUp, PushEnd, Save, RetryStart>>,
                                          IF s.room = None THEN LastLive(s) ELSE s.room)]
      BY <3>1, RunIs, PlansOfEnter, ZenonT(30)
    <3>4. IF r.snap = None THEN st = r.kind /\ room = s.room ELSE st = r.snap.st /\ room = r.snap.n
      OBVIOUS
    <3> HIDE DEF st, room
    <3> QED
      BY <2>1, <2>4, <3>1, <3>2, <3>3, <3>4 DEF Takes
  <2> QED
    BY <2>2, <2>3, <2>4
<1>4. CASE EnterRetry(m, c, r)
  <2>1. r.job \in {"retry", "confirmed", "prepared"} /\ mem' = m
    BY <1>4 DEF EnterRetry
  <2>2. PICK p \in {<<RetryStart>>, <<>>}, q \in {<<RetryEnd>>, <<>>} : Run(c, r, p \o q, None)
    BY <1>4 DEF EnterRetry
  <2>3. \/ Leave(c)
        \/ p \o q # <<>> /\ chk' = [chk EXCEPT ![c] = Begun(r.life, p \o q, None)]
    BY <2>2, RunIs
  <2> QED
    BY <2>1, <2>3 DEF Takes
<1> QED
  BY <1>2, <1>3, <1>4 DEF Enter

-----------------------------------------------------------------------------
(* Types are kept *)

RowOK(w) == w \in Row \cup {None} /\ (w # None => LastKnown(w))

\* What is left to show of a step of slot c that leaves broadcast and configuration alone.
Kinds == /\ cfg \subseteq Target /\ up \in BOOLEAN /\ targets \subseteq Target
         /\ cur \in Life \cup {None} /\ saving \in BOOLEAN
         /\ reload \in {"idle", "apply", "remove", "delete", "readd"}
Books == /\ sent \in [Kind -> [Stream -> [Target -> Nat]]]
         /\ settled \in [Kind -> [Stream -> SUBSET Target]]
         /\ base \in Stream /\ misled \in Nat
Air   == /\ air \in Snapshot /\ streams \in Stream
         /\ SnapOK(air, streams) /\ (air.st = "live" => air.n = streams)
Purse == /\ spent \in [round: Nat, reload: Nat, crash: Nat, cut: Nat, fail: Nat, lost: Nat,
                       db: Nat]
         /\ spent.reload <= MaxReload
Slots == chk \in [Slot -> SlotRec] /\ \A c \in Slot : HandlerOK(chk[c], mem, streams)

\* The invariant in parts.
LEMMA TypeParts == TypeInv <=> /\ Air /\ Kinds /\ Books /\ Purse
                               /\ RowOK(row) /\ RoomsOK(mem) /\ Slots
BY DEF TypeInv, TypeOK, Air, Kinds, Books, Purse, RowOK, RoomsOK, Slots

\* The same of the next state.
LEMMA TypeNext == ASSUME Air', Kinds', Books', Purse', RowOK(row'), RoomsOK(mem'), Slots'
                  PROVE  TypeInv'
BY DEF TypeInv, TypeOK, Air, Kinds, Books, Purse, RowOK, RoomsOK, Slots

\* What is written to the row is a row.
LEMMA NotesType ==
  ASSUME TypeInv, NEW m, RoomsOK(m), Notes(m)
  PROVE  RowOK(row')
<1>1. CASE row' = row
  BY <1>1, TypeParts DEF RowOK
<1>2. CASE Active /\ row' = RowOf(m[cur])
  <2>1. cur \in Life
    BY <1>2 DEF Active, TypeInv, TypeOK
  <2>2. m[cur] \in Room /\ LastKnown(m[cur])
    BY <2>1 DEF RoomsOK
  <2> QED
    BY <1>2, <2>2, RowIs DEF RowOK
<1> QED
  BY <1>1, <1>2 DEF Notes

\* The budget of database errors.
LEMMA SpendsType ==
  ASSUME TypeInv, Spends \/ UNCHANGED spent
  PROVE  Purse'
<1>1. CASE spent' = spent
  BY <1>1, TypeParts DEF Purse
<1>2. CASE spent' = [spent EXCEPT !.db = @ + 1]
  BY <1>2, TypeParts DEF Purse
<1> QED
  BY <1>1, <1>2 DEF Spends

\* The budget of failures.
LEMMA FailType ==
  ASSUME TypeInv, \/ spent' = [spent EXCEPT !.fail = @ + 1]
                  \/ spent' = [spent EXCEPT !.fail = @ + 1, !.lost = @ + 1]
                  \/ spent' = [spent EXCEPT !.cut = @ + 1]
                  \/ spent' = [spent EXCEPT !.crash = @ + 1]
                  \/ spent' = [spent EXCEPT !.round = @ + 1]
  PROVE  Purse'
<1>1. Purse
  BY TypeParts
<1>2. CASE spent' = [spent EXCEPT !.fail = @ + 1]
  BY <1>1, <1>2 DEF Purse
<1>3. CASE spent' = [spent EXCEPT !.fail = @ + 1, !.lost = @ + 1]
  <2> DEFINE f == spent.fail + 1
             n == spent.lost + 1
  <2>1. f \in Nat /\ n \in Nat
    BY <1>1 DEF Purse
  <2>2. spent' = [spent EXCEPT !.fail = f, !.lost = n]
    BY <1>3
  <2> HIDE DEF f, n
  <2> QED
    BY <1>1, <2>1, <2>2 DEF Purse
<1>4. CASE spent' = [spent EXCEPT !.cut = @ + 1]
  BY <1>1, <1>4 DEF Purse
<1>5. CASE spent' = [spent EXCEPT !.crash = @ + 1]
  BY <1>1, <1>5 DEF Purse
<1>6. CASE spent' = [spent EXCEPT !.round = @ + 1]
  BY <1>1, <1>6 DEF Purse
<1> QED
  BY <1>2, <1>3, <1>4, <1>5, <1>6

\* A state object takes the place of another and remembers what it did.
LEMMA PutType ==
  ASSUME NEW m, RoomsOK(m), NEW l \in Life, NEW t, RoomOK(t),
         m[l].last # 0 => t.last # 0
  PROVE  /\ RoomsOK([m EXCEPT ![l] = t]) /\ Remembers(m, [m EXCEPT ![l] = t])
         /\ [m EXCEPT ![l] = t][l] = t
BY DEF RoomsOK, RoomOK, Remembers

\* A step of one slot, given that slot.
LEMMA SlotsType ==
  ASSUME TypeInv, NEW c \in Slot, Steps(c), Remembers(mem, mem'), streams' = streams,
         HandlerOK(chk'[c], mem', streams')
  PROVE  Slots'
BY StepsType DEF Slots

\* A handler ends.
LEMMA LeaveType ==
  ASSUME TypeInv, NEW c \in Slot, Leave(c), Remembers(mem, mem'), streams' = streams
  PROVE  Slots'
BY LeaveSteps, SlotsType, IdleIs

\* A memory remembers itself.
LEMMA RemembersSame == ASSUME NEW m PROVE Remembers(m, m)
BY DEF Remembers

\* What is remembered twice is remembered.
LEMMA RemembersTwice ==
  ASSUME NEW m, NEW w, NEW u, Remembers(m, w), Remembers(w, u) PROVE Remembers(m, u)
BY DEF Remembers

\* A handler takes the lock.
LEMMA TakesType ==
  ASSUME TypeInv, NEW m, RoomsOK(m), Remembers(mem, m), NEW c \in Slot, NEW r \in SlotRec,
         Prepared(r), Enter(m, c, r), streams' = streams
  PROVE  RoomsOK(mem') /\ Slots'
<1> DEFINE l == r.life
           s == m[l]
<1>1. l \in Life /\ s \in Room /\ LastKnown(s) /\ m \in [Life -> Room]
  BY DEF SlotRec, RoomsOK
<1>2. Takes(m, c, r)
  BY <1>1, EnterIs
<1>3. CASE Leave(c) /\ mem' = m
  BY <1>3, LeaveType
<1>4. CASE /\ r.job = "ended" /\ s.prev = "live" /\ s.room = None /\ r.snap = None
           /\ Leave(c)
           /\ mem' = [m EXCEPT ![l].prev = r.kind, ![l].epoch = @ + 1]
  <2> DEFINE st == r.kind
             e == s.epoch + 1
             t == [s EXCEPT !.prev = st, !.epoch = e]
  <2>1. mem' = [m EXCEPT ![l] = t]
    BY <1>1, <1>4 DEF Room
  <2>2. st \in Status /\ e \in Nat
    BY <1>1, <1>4 DEF Prepared, Status, Room
  <2> HIDE DEF st, e
  <2>3. t \in Room /\ t.last = s.last /\ t.pend = s.pend
    BY <1>1, <2>2 DEF Room
  <2>4. RoomOK(t)
    BY <1>1, <2>3 DEF RoomOK, LastKnown
  <2> HIDE DEF t
  <2>5. RoomsOK(mem') /\ Remembers(m, mem')
    BY <1>1, <2>1, <2>3, <2>4, PutType
  <2> QED
    BY <1>4, <2>5, LeaveType, RemembersTwice
<1>5. CASE /\ r.job = "began" /\ s.prev # "live"
           /\ mem' = [m EXCEPT ![l] = BeganState(s, r.snap.n)]
           /\ chk' = [chk EXCEPT ![c] = Begun(l, <<PushStart, Save, RetryEnd>>, r.snap.n)]
  <2> DEFINE n == r.snap.n
             t == BeganState(s, n)
             q == Begun(l, <<PushStart, Save, RetryEnd>>, n)
  <2>1. n \in Stream /\ n # 0
    BY <1>5 DEF Prepared, SnapOK, Snapshot
  <2>2. t \in Room /\ t.last = n
    BY <1>1, <2>1, BeganIs
  <2>3. RoomOK(t)
    BY <2>1, <2>2 DEF RoomOK, LastKnown
  <2>4. /\ q \in SlotRec /\ q.pc = "next" /\ q.life = l /\ q.plan = <<PushStart, Save, RetryEnd>>
        /\ q.about = n /\ q.snap = None
    BY <1>1, <2>1, BegunIs, PlansOfEnter
  <2> HIDE DEF n, t, q
  <2>5. mem' = [m EXCEPT ![l] = t] /\ chk' = [chk EXCEPT ![c] = q]
    BY <1>5 DEF n, t, q
  <2>6. RoomsOK(mem') /\ Remembers(m, mem') /\ mem'[l] = t
    BY <1>1, <2>1, <2>2, <2>3, <2>5, PutType
  <2>7. HandlerOK(q, mem', streams')
    BY <2>1, <2>2, <2>4, <2>6, PlansOfEnter DEF HandlerOK, SnapOK, Holding, Pushing
  <2>8. Steps(c) /\ chk'[c] = q
    BY <2>4, <2>5, PutSteps
  <2> QED
    BY <2>6, <2>7, <2>8, SlotsType, RemembersTwice
<1>6. CASE /\ r.job = "ended" /\ s.prev = "live"
           /\ \E st \in Status \ {"live"}, n \in Stream :
                /\ IF r.snap = None THEN st = r.kind /\ n = s.room
                                    ELSE st = r.snap.st /\ n = r.snap.n
                /\ mem' = [m EXCEPT ![l] = EndedState(s, st, n)]
           /\ chk' = [chk EXCEPT ![c] = Begun(l, <<CatchUp, PushEnd, Save, RetryStart>>,
                                              IF s.room = None THEN LastLive(s) ELSE s.room)]
  <2>1. PICK st \in Status \ {"live"}, n \in Stream : mem' = [m EXCEPT ![l] = EndedState(s, st, n)]
    BY <1>6
  <2> DEFINE t == EndedState(s, st, n)
             a == IF s.room = None THEN LastLive(s) ELSE s.room
             q == Begun(l, <<CatchUp, PushEnd, Save, RetryStart>>, a)
  <2>2. t \in Room /\ t.last = s.last /\ t.pend["start"] = s.pend["start"]
    BY <1>1, EndedIs
  <2>3. RoomOK(t)
    BY <1>1, <2>2 DEF RoomOK, LastKnown
  <2>4. a \in Stream \cup {None}
    BY <1>1 DEF LastLive, Room
  <2> HIDE DEF t, a
  <2>5. /\ q \in SlotRec /\ q.pc = "next" /\ q.plan = <<CatchUp, PushEnd, Save, RetryStart>>
        /\ q.snap = None
    BY <1>1, <2>4, BegunIs, PlansOfEnter, SMTT(20)
  <2>6. chk' = [chk EXCEPT ![c] = q]
    BY <1>6 DEF a
  <2> HIDE DEF q
  <2>7. RoomsOK(mem') /\ Remembers(m, mem')
    BY <1>1, <2>1, <2>2, <2>3, PutType DEF t
  <2>8. HandlerOK(q, mem', streams')
    BY <2>5, PlansOfEnter, ItemsDiffer DEF HandlerOK, SnapOK, Holding, Pushing
  <2>9. Steps(c) /\ chk'[c] = q
    BY <2>5, <2>6, PutSteps
  <2> QED
    BY <2>7, <2>8, <2>9, SlotsType, RemembersTwice
<1>7. CASE /\ mem' = m
           /\ \E p \in {<<RetryStart>>, <<>>}, q \in {<<RetryEnd>>, <<>>} :
                p \o q # <<>> /\ chk' = [chk EXCEPT ![c] = Begun(l, p \o q, None)]
  <2>1. PICK p \in {<<RetryStart>>, <<>>}, p2 \in {<<RetryEnd>>, <<>>} :
           p \o p2 # <<>> /\ chk' = [chk EXCEPT ![c] = Begun(l, p \o p2, None)]
    BY <1>7
  <2> DEFINE plan == p \o p2
             q == Begun(l, plan, None)
  <2>2. plan \in Plans /\ plan # <<>> /\ Head(plan) \in {RetryStart, RetryEnd}
    BY <2>1, PlansOfEnter
  <2> HIDE DEF plan
  <2>3. /\ q \in SlotRec /\ q.pc = "next" /\ q.plan = plan /\ q.snap = None
    BY <1>1, <2>2, BegunIs
  <2>4. chk' = [chk EXCEPT ![c] = q]
    BY <2>1 DEF plan
  <2> HIDE DEF q
  <2>5. HandlerOK(q, mem', streams')
    BY <2>1, <2>2, <2>3, ItemsDiffer DEF HandlerOK, SnapOK, Holding, Pushing
  <2>6. Steps(c) /\ chk'[c] = q
    BY <2>3, <2>4, PutSteps
  <2> QED
    BY <1>7, <2>5, <2>6, SlotsType
<1> QED
  BY <1>2, <1>3, <1>4, <1>5, <1>6, <1>7 DEF Takes

Jobs == {"began", "ended", "retry", "confirmed", "prepared"}

\* A handler queues for the lock.
Queued(r, job) == [r EXCEPT !.job = job, !.pc = "lock", !.ahead = {d \in Slot : Locking(d)}]

\* A handler that waits for the lock.
LEMMA QueuedIs ==
  ASSUME NEW r \in SlotRec, NEW job \in Jobs
  PROVE  LET q == Queued(r, job) IN
         /\ q \in SlotRec /\ q.pc = "lock" /\ q.job = job /\ q.ahead = {d \in Slot : Locking(d)}
         /\ q.kind = r.kind /\ q.life = r.life /\ q.epoch = r.epoch /\ q.snap = r.snap
         /\ q.plan = r.plan /\ q.cut = r.cut
<1> DEFINE first == {d \in Slot : Locking(d)}
<1>1. Queued(r, job) = [r EXCEPT !.job = job, !.pc = "lock", !.ahead = first]
  BY DEF Queued
<1>2. first \in SUBSET Slot
  OBVIOUS
<1>3. first = {d \in Slot : Locking(d)}
  OBVIOUS
<1> HIDE DEF first
<1> QED
  BY <1>1, <1>2, <1>3, ZenonT(30) DEF SlotRec, Jobs

\* The job of a handler.
Given(r, job) == [r EXCEPT !.job = job]

\* A handler that is given a job.
LEMMA GivenIs ==
  ASSUME NEW r \in SlotRec, NEW job \in Jobs
  PROVE  LET q == Given(r, job) IN
         /\ q \in SlotRec /\ q.job = job /\ q.pc = r.pc /\ q.kind = r.kind /\ q.life = r.life
         /\ q.epoch = r.epoch /\ q.snap = r.snap /\ q.plan = r.plan
BY DEF Given, SlotRec, Jobs

\* The lock is free and taken, or the handler queues.
LEMMA LockIs ==
  ASSUME NEW m, NEW c, NEW r, NEW job, NEW wrong \in BOOLEAN, Lock(m, c, r, job, wrong)
  PROVE  \/ /\ \A d \in Slot : ~Locking(d)
            /\ Enter(m, c, Given(r, job))
            /\ saving' = (saving \/ Confirms(m, Given(r, job)) \/ job = "confirmed")
            /\ misled' = misled + (IF wrong \/ Misleads(m, Given(r, job)) THEN 1 ELSE 0)
         \/ /\ \E d \in Slot : Locking(d)
            /\ chk' = [chk EXCEPT ![c] = Queued(r, job)]
            /\ mem' = m /\ saving' = (saving \/ job = "confirmed")
            /\ misled' = misled + (IF wrong THEN 1 ELSE 0)
<1> DEFINE q == [r EXCEPT !.job = job]
           first == {d \in Slot : Locking(d)}
<1>1. CASE first = {}
  <2>1. /\ Enter(m, c, q)
        /\ saving' = (saving \/ Confirms(m, q) \/ job = "confirmed")
        /\ misled' = misled + (IF wrong \/ Misleads(m, q) THEN 1 ELSE 0)
    BY <1>1 DEF Lock
  <2>2. q = Given(r, job)
    BY DEF Given
  <2> HIDE DEF q
  <2> QED
    BY <1>1, <2>1, <2>2
<1>2. CASE first # {}
  <2>1. /\ chk' = [chk EXCEPT ![c] = [q EXCEPT !.pc = "lock", !.ahead = first]]
        /\ mem' = m /\ saving' = (saving \/ job = "confirmed")
        /\ misled' = misled + (IF wrong THEN 1 ELSE 0)
    BY <1>2 DEF Lock
  <2>2. [q EXCEPT !.pc = "lock", !.ahead = first] = Queued(r, job)
    BY DEF Queued
  <2> QED
    BY <1>2, <2>1, <2>2
<1> QED
  BY <1>1, <1>2

\* Taking the lock, or queueing for it, keeps the types.
LEMMA LockType ==
  ASSUME TypeInv, NEW m, RoomsOK(m), Remembers(mem, m), NEW c \in Slot, NEW r \in SlotRec,
         NEW job \in Jobs, NEW wrong \in BOOLEAN, Lock(m, c, r, job, wrong), streams' = streams,
         Prepared(Given(r, job)), r.plan \in Plans
  PROVE  RoomsOK(mem') /\ Slots' /\ saving' \in BOOLEAN /\ misled' \in Nat
<1> DEFINE q == Given(r, job)
<1>1. q \in SlotRec /\ misled \in Nat
  BY GivenIs, TypeParts DEF Books
<1>2. CASE /\ Enter(m, c, q)
           /\ saving' = (saving \/ Confirms(m, q) \/ job = "confirmed")
           /\ misled' = misled + (IF wrong \/ Misleads(m, q) THEN 1 ELSE 0)
  <2>1. RoomsOK(mem') /\ Slots'
    BY <1>1, <1>2, TakesType
  <2>2. saving' \in BOOLEAN
    BY <1>2
  <2>3. misled' \in Nat
    BY <1>1, <1>2
  <2> QED
    BY <2>1, <2>2, <2>3
<1>3. CASE /\ chk' = [chk EXCEPT ![c] = Queued(r, job)]
           /\ mem' = m /\ saving' = (saving \/ job = "confirmed")
           /\ misled' = misled + (IF wrong THEN 1 ELSE 0)
  <2>1. /\ Queued(r, job) \in SlotRec /\ Queued(r, job).pc = "lock" /\ Queued(r, job).job = job
        /\ Queued(r, job).snap = r.snap /\ Queued(r, job).kind = r.kind
        /\ Queued(r, job).plan = r.plan
    BY QueuedIs
  <2>2. /\ SnapOK(r.snap, streams)
        /\ job = "began" => r.snap # None /\ r.snap.st = "live"
        /\ job = "ended" => IF r.snap = None THEN r.kind \in {"off", "round"}
                                             ELSE r.snap.st # "live"
    BY GivenIs DEF Prepared
  <2>3. HandlerOK(Queued(r, job), mem', streams')
    BY <2>1, <2>2 DEF HandlerOK, Holding, Pushing
  <2>4. Steps(c) /\ chk'[c] = Queued(r, job)
    BY <1>3, <2>1, PutSteps
  <2>5. Slots'
    BY <1>3, <2>3, <2>4, SlotsType
  <2>6. misled' \in Nat /\ saving' \in BOOLEAN
    BY <1>1, <1>3
  <2> QED
    BY <1>3, <2>5, <2>6
<1> HIDE DEF q
<1> QED
  BY <1>2, <1>3, LockIs DEF q

-----------------------------------------------------------------------------
(* The steps of a delivery *)

\* A delivery that changes its state keeps the room sound.
LEMMA ChangesType ==
  ASSUME TypeInv, NEW c \in Slot, chk[c].pc \in Holding, Item(c) # Save,
         (chk[c].pc # "next" \/ Item(c).how = "push") /\ Item(c).k = "start" => mem[chk[c].life].last # 0,
         NEW b, RoomOK(b), b.last = mem[chk[c].life].last, NEW t, Changes(c, b, t)
  PROVE  RoomOK(t) /\ t.last = mem[chk[c].life].last
<1>1. "start" \in Kind
  BY DEF Kind
<1> QED
  BY <1>1 DEF Changes, Eased, RoomOK, LastKnown, Raises

\* What a handler knows when it pushes a start notice.
LEMMA StartKnown ==
  ASSUME TypeInv, NEW c \in Slot, chk[c].pc \in Holding
  PROVE  /\ chk[c].before \in BOOLEAN
         /\ chk[c].pc # "next" => /\ chk[c].before => Item(c).k = "start"
                                  /\ Item(c) = CatchUp => chk[c].before
         /\ (chk[c].pc # "next" \/ Item(c).how = "push") /\ Item(c).k = "start" => mem[chk[c].life].last # 0
         /\ chk[c].pc # "next" => Item(c) # Save /\ chk[c].about \in Stream
         /\ chk[c].pc = "inflight" => chk[c].to \in Target
<1>1. HandlerOK(chk[c], mem, streams) /\ Item(c) \in Items
  BY HolderIs DEF TypeInv
<1>4. chk[c].before \in BOOLEAN
  BY HolderIs DEF SlotRec
<1>2. Save.how # "push"
  BY DEF Save
<1>3. Item(c).how = "push" /\ Item(c).k = "start" => Item(c) = PushStart
  BY <1>1, <1>2, ItemIs DEF Items
<1> QED
  BY <1>1, <1>3, <1>4 DEF HandlerOK, Item, Holding, Pushing

\* A handler that goes on with the next item of its plan.
LEMMA OnwardIs ==
  ASSUME NEW r \in SlotRec, r.plan \in Plans, r.plan # <<>>, Len(r.plan) # 1
  PROVE  LET q == Onward(r) IN
         /\ q \in SlotRec /\ q.pc = "next" /\ q.plan = Tail(r.plan) /\ q.snap = r.snap
         /\ q.kind = r.kind /\ q.life = r.life /\ q.epoch = r.epoch /\ q.ahead = r.ahead
         /\ q.job = r.job /\ q.about = r.about /\ q.cut = r.cut
<1> DEFINE plan == Tail(r.plan)
           q == Onward(r)
<1>1. plan \in Seq(Items)
  <2>1. plan \in Plans /\ plan # <<>>
    BY PlanIs
  <2> QED
    BY <2>1, PlanIs
<1>2. q = [r EXCEPT !.pc = "next", !.plan = plan, !.before = FALSE,
                    !.queue = {}, !.done = {}, !.failed = {}, !.to = None]
  BY DEF Onward
<1>3. "next" \in {"idle", "init", "record", "fetch", "got", "lock", "next", "build",
                  "send", "inflight"}
  OBVIOUS
<1>4. plan = Tail(r.plan)
  OBVIOUS
<1> HIDE DEF plan, q
<1>5. /\ q \in SlotRec /\ q.pc = "next" /\ q.plan = plan /\ q.snap = r.snap
      /\ q.kind = r.kind /\ q.life = r.life /\ q.epoch = r.epoch /\ q.ahead = r.ahead
      /\ q.job = r.job /\ q.about = r.about /\ q.cut = r.cut
  BY <1>1, <1>2, <1>3 DEF SlotRec, Items
<1> QED
  BY <1>4, <1>5 DEF q

\* The handler leaves, or goes on with its next item.
LEMMA GoesType ==
  ASSUME TypeInv, NEW c \in Slot, chk[c].pc \in Holding, Goes(c), Remembers(mem, mem'),
         streams' = streams
  PROVE  Slots'
<1>1. CASE Leave(c)
  BY <1>1, LeaveType
<1>2. CASE Len(chk[c].plan) # 1 /\ chk' = [chk EXCEPT ![c] = Onward(chk[c])]
  <2> DEFINE r == chk[c]
             plan == Tail(r.plan)
             q == Onward(r)
  <2>1. r \in SlotRec /\ r.plan \in Plans /\ r.plan # <<>> /\ HandlerOK(r, mem, streams)
    BY HolderIs DEF TypeInv
  <2>2. plan \in Plans /\ plan # <<>> /\ Head(plan) \notin {PushStart, CatchUp} 
    BY <1>2, <2>1, PlanIs
  <2>5. chk' = [chk EXCEPT ![c] = q]
    BY <1>2
  <2>6. q \in SlotRec /\ q.pc = "next" /\ q.plan = plan /\ q.snap = r.snap
    BY <1>2, <2>1, OnwardIs
  <2> HIDE DEF plan, q
  <2>7. HandlerOK(q, mem', streams')
    BY <2>1, <2>2, <2>6 DEF HandlerOK, SnapOK, Holding, Pushing
  <2>8. Steps(c) /\ chk'[c] = q
    BY <2>5, <2>6, PutSteps
  <2> QED
    BY <2>7, <2>8, SlotsType
<1> QED
  BY <1>1, <1>2 DEF Goes

\* The end of a delivery keeps the types.
LEMMA ClosesType ==
  ASSUME TypeInv, NEW c \in Slot, chk[c].pc \in Holding, Item(c) # Save,
         NEW b, RoomOK(b), b.last = mem[chk[c].life].last, Closes(c, b), streams' = streams
  PROVE  RowOK(row') /\ RoomsOK(mem') /\ Slots' /\ Purse'
<1> DEFINE l == chk[c].life
<1>1. PICK t1, t \in Room : /\ Changes(c, b, t1) /\ Changes(c, b, t)
                            /\ mem' = Puts(mem, c, t) /\ Notes(Puts(mem, c, t1)) /\ Spends
                            /\ Goes(c)
  BY DEF Closes
<1>2. l \in Life /\ RoomsOK(mem)
  BY HolderIs, TypeParts
<1>3. RoomOK(t) /\ t.last = mem[l].last /\ RoomOK(t1) /\ t1.last = mem[l].last
  BY <1>1, ChangesType, StartKnown
<1>4. RoomsOK(mem') /\ Remembers(mem, mem') /\ RoomsOK(Puts(mem, c, t1))
  BY <1>1, <1>2, <1>3, PutType DEF Puts
<1> QED
  BY <1>1, <1>4, NotesType, SpendsType, GoesType

\* A delivery fails to write the row.
LEMMA RaisedIs ==
  ASSUME TypeInv, NEW c \in Slot, chk[c].pc \in Holding, NEW before \in BOOLEAN,
         NEW b \in Room, NEW m, m = Puts(mem, c, b), SaveFailed, Closed(c, before, m, TRUE),
         before => Item(c).k = "start", Item(c) = CatchUp => before,
         b.pend[Item(c).k].on \/ Item(c).k \in Raises(c)
  PROVE  Closes(c, b)
<1>1. m[chk[c].life] = b /\ \A t : Puts(m, c, t) = Puts(mem, c, t)
  <2>1. chk[c].life \in Life /\ mem \in [Life -> Room]
    BY HolderIs DEF TypeInv, TypeOK
  <2> QED
    BY <2>1 DEF Puts
<1>2. PICK t : Ends(c, before, m[chk[c].life], TRUE, t) /\ mem' = Puts(m, c, t) /\ Goes(c)
  BY ClosedIs, ZenonT(60)
<1>6. Ends(c, before, b, TRUE, t) /\ mem' = Puts(mem, c, t)
  BY <1>1, <1>2
<1>3. Changes(c, b, t)
  BY <1>6, EndsIs
<1>4. t \in Room
  BY <1>3 DEF Changes, Eased
<1>5. Notes(Puts(mem, c, t)) /\ Spends
  BY SavedIs
<1> QED
  BY <1>2, <1>3, <1>4, <1>5, <1>6 DEF Closes

\* An end of a delivery whose opening had changed the state already.
LEMMA ClosesTwice ==
  ASSUME NEW c, NEW s \in Room, NEW b, Changes(c, s, b), Closes(c, b),
         \A j \in Kind : b.pend[j] = Nothing => s.pend[j] = Nothing
  PROVE  Closes(c, s)
<1>1. ASSUME NEW t, Changes(c, b, t) PROVE Changes(c, s, t)
  <2>1. Eased(s, t, Raises(c))
    BY <1>1, EasedTwice DEF Changes
  <2> QED
    BY <1>1, <2>1 DEF Changes
<1>2. PICK t1, t \in Room : /\ Changes(c, b, t1) /\ Changes(c, b, t)
                            /\ mem' = Puts(mem, c, t) /\ Notes(Puts(mem, c, t1)) /\ Spends
                            /\ Goes(c)
  BY DEF Closes
<1> QED
  BY <1>1, <1>2 DEF Closes

\* A handler goes on with its item.
Follows(r, q) == /\ q \in SlotRec
                 /\ q.kind = r.kind /\ q.life = r.life /\ q.epoch = r.epoch /\ q.snap = r.snap
                 /\ q.ahead = r.ahead /\ q.job = r.job /\ q.plan = r.plan /\ q.cut = r.cut

Pcs == {"idle", "init", "record", "fetch", "got", "lock", "next", "build", "send", "inflight"}

\* It knows what the delivery is about; waits for the card; sends.
Timed(r, late, about) == [r EXCEPT !.before = late, !.about = about]
Building(r, todo) == [r EXCEPT !.pc = "build", !.queue = todo]
Sending(r, left, done, n) == [r EXCEPT !.pc = "send", !.queue = left, !.done = done, !.about = n]

\* A handler that now knows what, and whether late.
LEMMA TimedIs ==
  ASSUME NEW r \in SlotRec, NEW late \in BOOLEAN, NEW about \in Stream \cup {None}
  PROVE  LET q == Timed(r, late, about) IN
         Follows(r, q) /\ (q.before <=> late) /\ q.about = about
BY DEF Follows, SlotRec, Timed

\* A handler that draws the card.
LEMMA BuildingIs ==
  ASSUME NEW r \in SlotRec, NEW todo \in SUBSET Target
  PROVE  LET q == Building(r, todo) IN
         Follows(r, q) /\ q.before = r.before /\ q.about = r.about /\ q.pc = "build"
<1>1. "build" \in Pcs
  BY DEF Pcs
<1> QED
  BY <1>1 DEF Follows, SlotRec, Pcs, Building

\* A handler that has a prepared message.
LEMMA SendingIs ==
  ASSUME NEW r \in SlotRec, NEW left \in SUBSET Target, NEW done \in SUBSET Target,
         NEW n \in Stream
  PROVE  LET q == Sending(r, left, done, n) IN
         /\ Follows(r, q) /\ q.before = r.before /\ q.about = n /\ q.pc = "send"
         /\ q.queue = left /\ q.done = done
<1>1. "send" \in Pcs
  BY DEF Pcs
<1> QED
  BY <1>1 DEF Follows, SlotRec, Pcs, Sending

\* Two changes of a handler in one step.
LEMMA FollowsTwice ==
  ASSUME NEW r, NEW q, NEW u, Follows(r, q), Follows(q, u) PROVE Follows(r, u)
BY DEF Follows

\* The handler opens a delivery to left, with the message p when one is prepared.
Opens(c, left, q) ==
  LET s == mem[chk[c].life]
      p == s.pend[Item(c).k]
  IN /\ Follows(chk[c], q) /\ (q.before <=> Late(c, s))
     /\ IF p.dlv = None THEN q.pc = "build" /\ q.about = About(c, s)
        ELSE /\ q.pc = "send" /\ q.about = p.dlv.about
             /\ q.queue = left /\ q.done = p.dlv.done
     /\ mem' = Puts(mem, c, [s EXCEPT !.pend[Item(c).k] = Resend(p, left)])
     /\ chk' = [chk EXCEPT ![c] = q]
     /\ Notes(mem') /\ UNCHANGED spent

\* The broadcast that a notice is about is known.
LEMMA AboutIs ==
  ASSUME TypeInv, NEW c \in Slot, chk[c].pc = "next", Item(c) # Save,
         ~Skips(c, mem[chk[c].life])
  PROVE  LET s == mem[chk[c].life] IN
         /\ About(c, s) \in Stream \cup {None}
         /\ ~Late(c, s) => About(c, s) \in Stream
         /\ Item(c).k = "start" => s.last # 0
         /\ Late(c, s) => Item(c).k = "start"
         /\ Item(c) = CatchUp => Late(c, s)
         /\ s.pend[Item(c).k].on \/ Item(c).k \in Raises(c)
<1> DEFINE s == mem[chk[c].life]
<1>1. /\ s \in Room /\ LastKnown(s) /\ chk[c] \in SlotRec /\ Item(c) \in Items
      /\ HandlerOK(chk[c], mem, streams) /\ Item(c).k \in Kind
  BY HolderIs DEF TypeInv, Holding
<1>2. s.pend[Item(c).k].on \/ Item(c).how = "push"
  BY DEF Skips
<1>3. Item(c) = PushStart => chk[c].about \in Stream /\ s.last # 0
  BY <1>1 DEF HandlerOK, Item
<1>4. Item(c).k = "start" => s.last # 0
  BY <1>1, <1>2, <1>3, ItemIs DEF Items, LastKnown
<1>5. s.last \in Stream /\ s.start \in Stream /\ s.room \in Stream \cup {None}
      /\ chk[c].about \in Stream \cup {None}
  BY <1>1 DEF Room, SlotRec
<1>6. LastLive(s) \in Stream \cup {None} /\ (s.last # 0 => LastLive(s) \in Stream)
  BY <1>5 DEF LastLive
<1>7. About(c, s) \in Stream \cup {None}
  BY <1>5, <1>6 DEF About
<1>8. Late(c, s) => Item(c).k = "start"
  BY ItemIs DEF Late
<1>9. Item(c) = CatchUp => Late(c, s)
  BY DEF Late
<1>10. ~Late(c, s) => About(c, s) \in Stream
  BY <1>1, <1>3, <1>4, <1>5, <1>6, ItemIs DEF About, Late, Items
<1>11. s.pend[Item(c).k].on \/ Item(c).k \in Raises(c)
  BY <1>1, <1>2 DEF Raises
<1> QED
  BY <1>4, <1>7, <1>8, <1>9, <1>10, <1>11

\* A delivery is opened: nobody to send to, an error, the card, or the message.
LEMMA OpenIs ==
  ASSUME TypeInv, NEW c \in Slot, StepOpen(c)
  PROVE  LET s == mem[chk[c].life] IN
         /\ chk[c].pc = "next" /\ Item(c) # Save /\ ~Skips(c, s)
         /\ Late(c, s) => s.pend[Item(c).k].dlv # None \/ About(c, s) # None
         /\ Closes(c, s) \/ \E left \in SUBSET Target, q \in SlotRec : Opens(c, left, q)
<1> DEFINE k == Item(c).k
           l == chk[c].life
           s == mem[l]
           p == s.pend[k]
           todo == targets \cap (IF p.on /\ p.to # {} THEN p.to ELSE targets)
           left == {x \in p.dlv.left \cap todo : CanSend(c, x)}
           b == [s EXCEPT !.pend[k] = Resend(p, left)]
           m == [mem EXCEPT ![l].pend[k] = Resend(p, left)]
           r == [chk[c] EXCEPT !.before = Late(c, s), !.about = About(c, s)]
           q == IF p.dlv = None THEN [r EXCEPT !.pc = "build", !.queue = todo]
                ELSE [r EXCEPT !.pc = "send", !.queue = left,
                               !.done = p.dlv.done, !.about = p.dlv.about]
<1>1. chk[c].pc = "next" /\ Item(c) # Save /\ ~Skips(c, s)
  BY DEF StepOpen, At
<1>2. Late(c, s) => p.dlv # None \/ About(c, s) # None
  <2>1. Late(c, s) => s.pend["start"].dlv # None \/ About(c, s) # None \/ k # "start"
    BY DEF StepOpen
  <2> QED
    BY <1>1, <2>1, AboutIs
<1>3. /\ l \in Life /\ s \in Room /\ k \in Kind /\ p \in Pending /\ chk[c] \in SlotRec
      /\ mem \in [Life -> Room] /\ targets \subseteq Target
  BY <1>1, HolderIs, PendIs DEF Holding, TypeInv, TypeOK
<1>4. /\ Late(c, s) \in BOOLEAN /\ (Late(c, s) => k = "start") /\ (Item(c) = CatchUp => Late(c, s))
      /\ p.on \/ k \in Raises(c)
  BY <1>1, AboutIs DEF Late
<1>5. left \in SUBSET Target /\ todo \in SUBSET Target
  BY <1>3
<1>6. CASE todo = {}
  <2>1. Settle(c, Late(c, s), {})
    BY <1>6 DEF StepOpen
  <2>2. Closes(c, s)
    BY <1>1, <1>4, <2>1, SettleIs DEF Holding
  <2> QED
    BY <1>1, <1>2, <2>2
<1>7. CASE todo # {}
  <2>1. \/ SaveFailed /\ Closed(c, Late(c, s), m, TRUE)
        \/ Saved(m) /\ mem' = m /\ chk' = [chk EXCEPT ![c] = q]
    BY <1>7 DEF StepOpen
  <2>2. b \in Room /\ Eased(s, b, Raises(c)) /\ b.pend[k].on /\ b.pend[k] # Nothing
        /\ \A j \in Kind \ {k} : b.pend[j] = s.pend[j]
    <3> DEFINE rs == Resend(p, left)
               K == Raises(c)
    <3>1. Kept(p, rs) /\ rs.on /\ rs # Nothing
      BY <1>3, <1>5, ResendIs
    <3>2. rs \in Pending
      BY <3>1 DEF Kept
    <3>3. b = [s EXCEPT !.pend[k] = rs]
      OBVIOUS
    <3> HIDE DEF rs, b, s, k, K
    <3>4. Eased(s, b, K)
      BY <1>3, <1>4, <3>1, <3>3, EasedPut DEF K
    <3>5. b \in Room /\ b.pend[k] = rs /\ \A j \in Kind \ {k} : b.pend[j] = s.pend[j]
      BY <1>3, <3>2, <3>3, PutPend
    <3> QED
      BY <3>1, <3>4, <3>5 DEF K
  <2>3. m = Puts(mem, c, b)
    BY <1>3 DEF Puts
  <2>4. Changes(c, s, b)
    BY <2>2 DEF Changes
  <2>5. CASE SaveFailed /\ Closed(c, Late(c, s), m, TRUE)
    <3> HIDE DEF b, m
    <3>1. Closes(c, b)
      BY <1>1, <1>4, <2>2, <2>3, <2>5, RaisedIs DEF Holding
    <3>2. Closes(c, s)
      BY <1>3, <2>2, <2>4, <3>1, ClosesTwice
    <3> QED
      BY <1>1, <1>2, <3>2
  <2>6. CASE Saved(m) /\ mem' = m /\ chk' = [chk EXCEPT ![c] = q]
    <3>1. About(c, s) \in Stream \cup {None}
      BY <1>1, AboutIs
    <3> DEFINE late == Late(c, s)
               about == About(c, s)
    <3>2. /\ Follows(chk[c], q) /\ (q.before <=> late)
          /\ IF p.dlv = None THEN q.pc = "build" /\ q.about = about
             ELSE /\ q.pc = "send" /\ q.about = p.dlv.about
                  /\ q.queue = left /\ q.done = p.dlv.done
      <4>1. Follows(chk[c], r) /\ (r.before <=> late) /\ r.about = about /\ r \in SlotRec
        <5>1. r = Timed(chk[c], late, about)
          BY DEF Timed
        <5> HIDE DEF r
        <5>2. Follows(chk[c], r) /\ (r.before <=> late) /\ r.about = about
          BY <1>3, <1>4, <3>1, <5>1, TimedIs
        <5> QED
          BY <5>2 DEF Follows
      <4>2. CASE p.dlv = None
        <5>1. q = Building(r, todo)
          BY <4>2 DEF Building
        <5> HIDE DEF q, r
        <5>2. Follows(r, q) /\ q.before = r.before /\ q.about = r.about /\ q.pc = "build"
          BY <1>5, <4>1, <5>1, BuildingIs
        <5> QED
          BY <4>1, <4>2, <5>2, FollowsTwice
      <4>3. CASE p.dlv # None
        <5> DEFINE done == p.dlv.done
                   n == p.dlv.about
        <5>1. done \in SUBSET Target /\ n \in Stream
          BY <1>3, <4>3 DEF Pending, Message
        <5>2. q = Sending(r, left, done, n)
          BY <4>3 DEF Sending
        <5> HIDE DEF q, r, left, done, n
        <5>3. /\ Follows(r, q) /\ q.before = r.before /\ q.about = n /\ q.pc = "send"
              /\ q.queue = left /\ q.done = done
          BY <1>5, <4>1, <5>1, <5>2, SendingIs
        <5> QED
          BY <4>1, <4>3, <5>3, FollowsTwice DEF done, n
      <4> QED
        BY <4>2, <4>3
    <3>3. Notes(mem') /\ UNCHANGED spent
      <4> HIDE DEF m
      <4> QED
        BY <2>6 DEF Saved, Notes
    <3>4. Opens(c, left, q)
      <4>1. mem' = Puts(mem, c, b) /\ chk' = [chk EXCEPT ![c] = q]
        BY <2>3, <2>6
      <4> HIDE DEF q, left
      <4> QED
        BY <3>2, <3>3, <4>1 DEF Opens
    <3>5. q \in SlotRec
      BY <3>2 DEF Follows
    <3> QED
      BY <1>1, <1>2, <1>5, <3>4, <3>5
  <2> QED
    BY <2>1, <2>5, <2>6
<1> QED
  BY <1>6, <1>7

\* The message of a notice is prepared.
Draft(s, k, d) == [s EXCEPT !.pend[k].dlv = d]

\* The message that is prepared.
LEMMA DraftIs ==
  ASSUME NEW s \in Room, NEW k \in Kind, NEW d \in Message \cup {None}
  PROVE  LET t == Draft(s, k, d) IN
         /\ t \in Room
         /\ t.prev = s.prev /\ t.start = s.start /\ t.room = s.room /\ t.last = s.last
         /\ t.epoch = s.epoch /\ t.init = s.init /\ t.ws = s.ws
         /\ t.pend[k].dlv = d /\ (t.pend[k].on <=> s.pend[k].on) /\ t.pend[k].to = s.pend[k].to
         /\ \A j \in Kind \ {k} : t.pend[j] = s.pend[j]
<1> DEFINE q == [s.pend[k] EXCEPT !.dlv = d]
<1>1. s.pend[k] \in Pending /\ s.pend \in [Kind -> Pending]
  BY DEF Room
<1>2. q \in Pending /\ q.dlv = d /\ (q.on <=> s.pend[k].on) /\ q.to = s.pend[k].to
  BY <1>1 DEF Pending
<1>3. Draft(s, k, d) = [s EXCEPT !.pend[k] = q]
  BY <1>1 DEF Draft, Room
<1> HIDE DEF q
<1> QED
  BY <1>2, <1>3, PutPend

\* The card is drawn, and the message goes to left.
Drawn(r, left) == [r EXCEPT !.pc = "send", !.queue = left]

\* The state that has it.
LEMMA DrawnIs ==
  ASSUME NEW r \in SlotRec, NEW left \in SUBSET Target
  PROVE  LET q == Drawn(r, left) IN
         /\ Follows(r, q) /\ q.before = r.before /\ q.about = r.about /\ q.pc = "send"
         /\ q.queue = left
<1>1. "send" \in Pcs
  BY DEF Pcs
<1> QED
  BY <1>1 DEF Follows, SlotRec, Pcs, Drawn

Letter(c, left) == [left |-> left, done |-> {}, about |-> chk[c].about]

Draws(c, left) ==
  LET b == Draft(mem[chk[c].life], Item(c).k, Letter(c, left)) IN
  \/ Closes(c, b)
  \/ /\ mem' = Puts(mem, c, b) /\ chk' = [chk EXCEPT ![c] = Drawn(chk[c], left)]
     /\ Notes(mem') /\ UNCHANGED spent

\* The card is drawn, and the message is stored.
LEMMA BuildIs ==
  ASSUME TypeInv, NEW c \in Slot, Build(c)
  PROVE  /\ chk[c].pc = "build"
         /\ \E left \in SUBSET Target : Letter(c, left) \in Message /\ Draws(c, left)
<1> DEFINE k == Item(c).k
           l == chk[c].life
           s == mem[l]
           left == {x \in chk[c].queue : CanSend(c, x)}
           d == Letter(c, left)
           b == Draft(s, k, d)
           m == [mem EXCEPT ![l].pend[k].dlv = d]
<1>1. chk[c].pc = "build"
  BY DEF Build, At
<1>2. /\ l \in Life /\ s \in Room /\ k \in Kind /\ chk[c] \in SlotRec /\ mem \in [Life -> Room]
  BY <1>1, HolderIs DEF Holding, TypeInv, TypeOK
<1>3. left \in SUBSET Target
  BY <1>2 DEF SlotRec
<1>4. chk[c].about \in Stream /\ Item(c) # Save /\ chk[c].before \in BOOLEAN
      /\ (chk[c].before => k = "start") /\ (Item(c) = CatchUp => chk[c].before)
  BY <1>1, StartKnown DEF Holding
<1>5. d \in Message
  BY <1>3, <1>4 DEF Letter, Message
<1>6. b \in Room
  BY <1>2, <1>5, DraftIs
<1>7. m = Puts(mem, c, b)
  BY <1>2 DEF Puts, Draft
<1>8. \/ SaveFailed /\ Closed(c, chk[c].before, m, TRUE)
      \/ Saved(m) /\ mem' = m /\ chk' = [chk EXCEPT ![c].pc = "send", ![c].queue = left]
  BY DEF Build, Letter
<1>9. Item(c).k \in Raises(c)
  BY <1>1, <1>2 DEF Raises
<1> HIDE DEF m, b, left
<1>10. CASE SaveFailed /\ Closed(c, chk[c].before, m, TRUE)
  <2>1. Closes(c, b)
    BY <1>1, <1>4, <1>6, <1>7, <1>9, <1>10, RaisedIs DEF Holding
  <2> QED
    BY <1>1, <1>3, <1>5, <2>1 DEF Draws, b
<1>11. CASE Saved(m) /\ mem' = m /\ chk' = [chk EXCEPT ![c].pc = "send", ![c].queue = left]
  <2>1. chk' = [chk EXCEPT ![c] = Drawn(chk[c], left)]
    <3>1. chk \in [Slot -> SlotRec]
      BY DEF TypeInv, TypeOK
    <3>2. [chk EXCEPT ![c].pc = "send", ![c].queue = left]
            = [chk EXCEPT ![c] = [chk[c] EXCEPT !.pc = "send", !.queue = left]]
      BY <3>1
    <3> QED
      BY <1>11, <3>2 DEF Drawn
  <2>2. Notes(mem') /\ UNCHANGED spent
    BY <1>11 DEF Saved, Notes
  <2> QED
    BY <1>1, <1>3, <1>5, <1>7, <1>11, <2>1, <2>2 DEF Draws, b
<1> QED
  BY <1>8, <1>10, <1>11

\* The outcome of a send is known.
Outcome(r, again) == [r EXCEPT !.pc = "send", !.to = None, !.queue = r.queue \ {r.to},
                               !.failed = IF again THEN r.failed \cup {r.to} ELSE r.failed]

\* The handler after the outcome for one target.
LEMMA OutcomeIs ==
  ASSUME NEW r \in SlotRec, r.to \in Target, NEW again
  PROVE  LET q == Outcome(r, again) IN
         /\ Follows(r, q) /\ q.before = r.before /\ q.about = r.about /\ q.pc = "send"
         /\ q.queue = r.queue \ {r.to} /\ q.done = r.done
<1> DEFINE queue == r.queue \ {r.to}
           failed == IF again THEN r.failed \cup {r.to} ELSE r.failed
<1>1. "send" \in Pcs
  BY DEF Pcs
<1>2. queue \in SUBSET Target /\ failed \in SUBSET Target
  BY DEF SlotRec
<1>3. Outcome(r, again) = [r EXCEPT !.pc = "send", !.to = None, !.queue = queue, !.failed = failed]
  BY DEF Outcome
<1> HIDE DEF failed, queue
<1>4. LET q == Outcome(r, again) IN
         /\ Follows(r, q) /\ q.before = r.before /\ q.about = r.about /\ q.pc = "send"
         /\ q.queue = queue /\ q.done = r.done
  BY <1>1, <1>2, <1>3, ZenonT(30) DEF Follows, SlotRec, Pcs
<1> QED
  BY <1>4 DEF queue

\* The same for the slots.
LEMMA SentIs ==
  ASSUME TypeInv, NEW c \in Slot, NEW again, Sent(c, again)
  PROVE  chk' = [chk EXCEPT ![c] = Outcome(chk[c], again)]
<1>1. chk \in [Slot -> SlotRec]
  BY DEF TypeInv, TypeOK
<1>2. chk' = [chk EXCEPT ![c].pc = "send", ![c].to = None, ![c].queue = @ \ {chk[c].to},
                         ![c].failed = IF again THEN @ \cup {chk[c].to} ELSE @]
  BY DEF Sent
<1>3. chk' = [chk EXCEPT ![c] = [chk[c] EXCEPT !.pc = "send", !.to = None,
                                   !.queue = @ \ {chk[c].to},
                                   !.failed = IF again THEN @ \cup {chk[c].to} ELSE @]]
  BY <1>1, <1>2
<1>4. [chk[c] EXCEPT !.pc = "send", !.to = None, !.queue = @ \ {chk[c].to},
                     !.failed = IF again THEN @ \cup {chk[c].to} ELSE @]
        = Outcome(chk[c], again)
  BY <1>1 DEF Outcome, SlotRec
<1> QED
  BY <1>3, <1>4

-----------------------------------------------------------------------------
(* Every action keeps the types *)

\* A handler that goes on.
LEMMA FollowsType ==
  ASSUME TypeInv, NEW c \in Slot, NEW q, Follows(chk[c], q), chk' = [chk EXCEPT ![c] = q],
         Remembers(mem, mem'), streams' = streams, HandlerOK(q, mem', streams')
  PROVE  Slots'
<1>1. q \in SlotRec
  BY DEF Follows
<1> QED
  BY <1>1, PutSteps, SlotsType

\* A handler that pushes goes on pushing.
LEMMA PushType ==
  ASSUME TypeInv, NEW c \in Slot, chk[c].pc \in Pushing, NEW q, Follows(chk[c], q),
         chk' = [chk EXCEPT ![c] = q], q.pc \in {"send", "inflight"}, q.before = chk[c].before,
         q.about = chk[c].about, q.pc = "inflight" => q.to \in Target,
         Remembers(mem, mem'), streams' = streams
  PROVE  Slots'
<1>1. HandlerOK(chk[c], mem, streams)
  BY DEF TypeInv
<1>2. chk[c].life \in Life
  BY DEF TypeInv, TypeOK, SlotRec
<1>3. HandlerOK(q, mem', streams')
  BY <1>1, <1>2 DEF HandlerOK, Follows, Holding, Pushing, Remembers
<1> QED
  BY <1>3, FollowsType

\* A step that touches neither slots nor state objects.
LEMMA SkipType ==
  ASSUME TypeInv, UNCHANGED <<mem, streams, chk>>
  PROVE  Slots' /\ RoomsOK(mem')
<1>1. Slots /\ RoomsOK(mem)
  BY TypeParts
<1> QED
  BY <1>1 DEF Slots, RoomsOK

\* What a step leaves alone keeps its type.
LEMMA SameKinds ==
  ASSUME TypeInv
  PROVE  /\ UNCHANGED <<cfg, proc, saving, reload>> => Kinds'
         /\ UNCHANGED hist => Books'
         /\ UNCHANGED world => Air'
         /\ UNCHANGED spent => Purse'
         /\ UNCHANGED row => RowOK(row')
         /\ UNCHANGED mem => RoomsOK(mem') /\ Remembers(mem, mem')
<1>1. Kinds /\ Books /\ Air /\ Purse /\ RowOK(row) /\ RoomsOK(mem)
  BY TypeParts
<1> QED
  BY <1>1 DEF Kinds, Books, Air, Purse, proc, hist, world, RoomsOK, Remembers

\* The broadcast goes on air, off air, or into the round.
LEMMA WorldType ==
  ASSUME TypeInv, GoLive \/ GoOff \/ GoRound
  PROVE  TypeInv'
<1>1. /\ UNCHANGED <<db, proc, mem, chk, saving, reload, hist>>
      /\ UNCHANGED spent \/ spent' = [spent EXCEPT !.round = @ + 1]
  BY DEF GoLive, GoOff, GoRound
<1>2. Air' /\ streams <= streams'
  <2>1. Air /\ streams \in Nat /\ MaxStream \in Nat /\ air.st \in Status /\ air.n \in Stream
    BY TypeParts, ParamAssumption DEF Air, Stream, Snapshot
  <2>2. CASE GoLive
    BY <2>1, <2>2 DEF GoLive, Air, SnapOK, Snapshot, Stream, Status
  <2>3. CASE GoOff
    BY <2>1, <2>3 DEF GoOff, Air, SnapOK, Snapshot, Stream, Status
  <2>4. CASE GoRound
    <3>1. streams' = streams /\ air.st # "live"
      BY <2>4 DEF GoRound, world
    <3> DEFINE st == IF air.st = "off" THEN "round" ELSE "off"
    <3>2. air' = [air EXCEPT !.st = st]
      BY <2>4 DEF GoRound
    <3>3. st \in Status /\ st # "live"
      BY DEF Status
    <3> HIDE DEF st
    <3>4. air' \in Snapshot /\ air'.st # "live" /\ air'.n = air.n
      BY <2>1, <3>2, <3>3 DEF Air, Snapshot
    <3>5. streams \in Stream /\ air.n = 0 /\ air.n <= streams
      BY <2>1, <3>1, NoneAssumption DEF Air, SnapOK
    <3> QED
      BY <2>1, <3>1, <3>4, <3>5 DEF Air, SnapOK
  <2> QED
    BY <2>2, <2>3, <2>4
<1>3. Kinds' /\ Books' /\ RowOK(row') /\ RoomsOK(mem') /\ Remembers(mem, mem')
  BY <1>1, SameKinds DEF db
<1>4. Purse'
  BY <1>1, SameKinds, FailType
<1>5. Slots'
  <2>1. chk' = chk /\ chk \in [Slot -> SlotRec] /\ streams \in Nat /\ streams' \in Nat
    BY <1>1, <1>2, TypeParts, ParamAssumption DEF Slots, Air, Stream
  <2>2. ASSUME NEW c \in Slot PROVE HandlerOK(chk[c], mem', streams')
    <3>1. chk[c] \in SlotRec /\ HandlerOK(chk[c], mem, streams)
      BY <2>1 DEF TypeInv
    <3>2. chk[c].snap # None => chk[c].snap.n \in Nat
      BY <3>1, ParamAssumption DEF HandlerOK, SnapOK, Snapshot, Stream
    <3> QED
      BY <1>2, <1>3, <2>1, <3>1, <3>2, HandlerStays
  <2> QED
    BY <2>1, <2>2 DEF Slots
<1> QED
  BY <1>2, <1>3, <1>4, <1>5, TypeNext

\* The write that was spawned.
LEMMA BackgroundType == ASSUME TypeInv, BackgroundSave PROVE TypeInv'
<1>1. Notes(mem) /\ Spends /\ saving' = FALSE
      /\ UNCHANGED <<world, cfg, proc, mem, chk, reload, hist>>
  BY SavedIs DEF BackgroundSave
<1>2. Kinds'
  BY <1>1, TypeParts DEF Kinds, proc
<1>3. RowOK(row')
  BY <1>1, TypeParts, NotesType
<1>4. Slots'
  <2>1. streams' = streams
    BY <1>1 DEF world
  <2> QED
    BY <1>1, <2>1, TypeParts DEF Slots
<1> QED
  BY <1>1, <1>2, <1>3, <1>4, SameKinds, SpendsType, TypeNext

\* A check or a signal handler starts.
LEMMA CheckStartType ==
  ASSUME TypeInv, NEW c \in Slot, NEW kind, CheckStart(c, kind)
  PROVE  TypeInv'
<1> DEFINE s == mem[cur]
           r == [Idle EXCEPT !.kind = kind, !.life = cur, !.epoch = s.epoch]
           m == [mem EXCEPT ![cur].init = TRUE, ![cur].ws = TRUE]
<1>1. cur \in Life /\ s \in Room /\ LastKnown(s) /\ mem \in [Life -> Room] /\ RoomsOK(mem)
  BY TypeParts DEF CheckStart, Active, Kinds, RoomsOK
<1>2. kind \in {"poll", "live", "off", "round"}
  <2>1. air.st \in Status
    BY TypeParts DEF Air, Snapshot
  <2> QED
    BY <2>1 DEF CheckStart, Status
<1>3. UNCHANGED <<world, db, proc, reload, sent, settled, base, spent>>
  BY DEF CheckStart
<1>4. Air' /\ Purse' /\ RowOK(row') /\ streams' = streams
  BY <1>3, SameKinds DEF db, world
<1>5. /\ r \in SlotRec /\ r.kind = kind /\ r.life = cur /\ r.snap = None /\ r.plan = <<>>
  <2>1. Idle \in SlotRec /\ s.epoch \in Nat /\ Idle.snap = None /\ Idle.plan = <<>>
    BY <1>1, IdleIs DEF Room, Idle
  <2> DEFINE e == s.epoch
  <2>2. e \in Nat
    BY <2>1
  <2> HIDE DEF e
  <2>3. r = [Idle EXCEPT !.kind = kind, !.life = cur, !.epoch = e]
    BY DEF e
  <2> HIDE DEF r, s, Idle
  <2> QED
    BY <1>1, <1>2, <2>1, <2>2, <2>3, ZenonT(60) DEF SlotRec
<1>6. RoomsOK(mem') /\ Slots' /\ saving' \in BOOLEAN /\ misled' \in Nat
  <2>1. CASE Lock(m, c, r, "prepared", FALSE)
    <3>1. RoomsOK(m) /\ Remembers(mem, m)
      <4> DEFINE t == [s EXCEPT !.init = TRUE, !.ws = TRUE]
      <4>1. m = [mem EXCEPT ![cur] = t]
        BY <1>1
      <4>2. t \in Room /\ t.last = s.last /\ t.pend = s.pend
        BY <1>1 DEF Room
      <4> HIDE DEF t
      <4>3. RoomOK(t)
        BY <1>1, <4>2 DEF RoomOK, LastKnown
      <4> QED
        BY <1>1, <4>1, <4>2, <4>3, PutType
    <3>2. "prepared" \in Jobs /\ <<>> \in Plans
      BY DEF Jobs, Plans
    <3>3. /\ Given(r, "prepared") \in SlotRec /\ Given(r, "prepared").snap = None
          /\ Given(r, "prepared").job = "prepared"
      BY <1>5, <3>2, GivenIs
    <3>4. Prepared(Given(r, "prepared"))
      BY <3>3 DEF Prepared, SnapOK
    <3> HIDE DEF m, r
    <3> QED
      BY <1>4, <1>5, <2>1, <3>1, <3>2, <3>4, LockType
  <2>2. CASE /\ chk' = [chk EXCEPT ![c] = [r EXCEPT !.pc = IF s.init THEN "fetch" ELSE "init"]]
             /\ UNCHANGED <<mem, saving, misled>>
    <3> DEFINE pc == IF s.init THEN "fetch" ELSE "init"
               q == [r EXCEPT !.pc = pc]
    <3>1. pc \in Pcs /\ pc \in {"fetch", "init"}
      BY DEF Pcs
    <3>2. chk' = [chk EXCEPT ![c] = q]
      BY <2>2
    <3> HIDE DEF pc, r
    <3>3. q \in SlotRec /\ q.pc = pc /\ q.snap = None /\ q.plan = <<>>
      BY <1>5, <3>1 DEF SlotRec, Pcs
    <3> HIDE DEF q
    <3>4. HandlerOK(q, mem', streams')
      <4>1. <<>> \in Plans
        BY DEF Plans
      <4> QED
        BY <3>1, <3>3, <4>1 DEF HandlerOK, SnapOK, Holding, Pushing
    <3>5. Slots'
      BY <1>4, <2>2, <3>2, <3>3, <3>4, PutSteps, SlotsType, SameKinds, ZenonT(30)
    <3> QED
      BY <2>2, <3>5, TypeParts DEF RoomsOK, Kinds, Books
  <2> QED
    BY <2>1, <2>2 DEF CheckStart
<1>7. Kinds' /\ Books'
  BY <1>3, <1>6, TypeParts DEF Kinds, Books, db, proc
<1> QED
  BY <1>4, <1>6, <1>7, TypeNext

\* A handler has its answer, or none.
Heard(r, a) == [r EXCEPT !.snap = a, !.pc = IF r.pc = "init" THEN "record" ELSE "got"]

\* A handler with an answer.
LEMMA HeardIs ==
  ASSUME NEW r \in SlotRec, NEW a \in Snapshot \cup {None}
  PROVE  LET q == Heard(r, a) IN
         /\ q \in SlotRec /\ q.snap = a /\ q.pc = (IF r.pc = "init" THEN "record" ELSE "got")
         /\ q.kind = r.kind /\ q.life = r.life /\ q.epoch = r.epoch /\ q.ahead = r.ahead
         /\ q.job = r.job /\ q.plan = r.plan /\ q.cut = r.cut
<1> DEFINE pc == IF r.pc = "init" THEN "record" ELSE "got"
<1>1. pc \in Pcs
  BY DEF Pcs
<1>2. Heard(r, a) = [r EXCEPT !.snap = a, !.pc = pc]
  BY DEF Heard
<1>3. pc = IF r.pc = "init" THEN "record" ELSE "got"
  OBVIOUS
<1> HIDE DEF pc
<1>4. LET q == Heard(r, a) IN
         /\ q \in SlotRec /\ q.snap = a /\ q.pc = pc
         /\ q.kind = r.kind /\ q.life = r.life /\ q.epoch = r.epoch /\ q.ahead = r.ahead
         /\ q.job = r.job /\ q.plan = r.plan /\ q.cut = r.cut
  BY <1>1, <1>2, ZenonT(30) DEF SlotRec, Pcs
<1> QED
  BY <1>3, <1>4

\* The answer of the server is the broadcast at that time.
LEMMA AnswerIs ==
  ASSUME TypeInv, NEW c \in Slot, Answer(c)
  PROVE  /\ chk[c].pc \in {"init", "fetch"} /\ chk' = [chk EXCEPT ![c] = Heard(chk[c], air)]
         /\ UNCHANGED <<world, db, proc, mem, saving, reload, hist, spent>>
<1>1. /\ chk[c].pc \in {"init", "fetch"} /\ chk[c] \in SlotRec /\ chk \in [Slot -> SlotRec]
      /\ UNCHANGED <<world, db, proc, mem, saving, reload, hist, spent>>
  BY DEF Answer, TypeInv, TypeOK
<1>2. chk' = [chk EXCEPT ![c].snap = air, ![c].pc = IF @ = "init" THEN "record" ELSE "got"]
  BY DEF Answer
<1>3. chk' = [chk EXCEPT ![c] = [chk[c] EXCEPT !.snap = air,
                                               !.pc = IF @ = "init" THEN "record" ELSE "got"]]
  BY <1>1, <1>2
<1>4. [chk[c] EXCEPT !.snap = air, !.pc = IF @ = "init" THEN "record" ELSE "got"]
        = Heard(chk[c], air)
  BY <1>1 DEF Heard, SlotRec
<1> QED
  BY <1>1, <1>3, <1>4

\* The server answers.
LEMMA AnswerType == ASSUME TypeInv, NEW c \in Slot, Answer(c) PROVE TypeInv'
<1> DEFINE q == Heard(chk[c], air)
<1>1. /\ chk[c].pc \in {"init", "fetch"} /\ chk' = [chk EXCEPT ![c] = q]
      /\ UNCHANGED <<world, db, proc, mem, saving, reload, hist, spent>>
  BY AnswerIs
<1>2. chk[c] \in SlotRec /\ HandlerOK(chk[c], mem, streams) /\ Air
  BY TypeParts DEF Slots
<1>3. air \in Snapshot /\ SnapOK(air, streams) /\ air # None
  BY <1>2, NoneAssumption DEF Air
<1>4. /\ q \in SlotRec /\ q.snap = air /\ q.pc \in {"record", "got"} /\ q.plan = chk[c].plan
  BY <1>2, <1>3, HeardIs
<1> HIDE DEF q
<1>5. streams' = streams /\ Remembers(mem, mem')
  BY <1>1, SameKinds DEF world
<1>6. HandlerOK(q, mem', streams')
  BY <1>2, <1>3, <1>4, <1>5 DEF HandlerOK, Holding, Pushing
<1>7. Slots'
  BY <1>1, <1>4, <1>5, <1>6, PutSteps, SlotsType
<1> QED
  BY <1>1, <1>7, SameKinds, TypeNext DEF db

\* The request fails.
LEMMA AnswerFailType == ASSUME TypeInv, NEW c \in Slot, AnswerFail(c) PROVE TypeInv'
<1>1. /\ chk[c].pc \in {"init", "fetch"}
      /\ spent' = [spent EXCEPT !.fail = @ + 1]
      /\ UNCHANGED <<world, db, proc, saving, reload, hist>>
  BY DEF AnswerFail
<1>2. /\ chk[c] \in SlotRec /\ HandlerOK(chk[c], mem, streams) /\ chk \in [Slot -> SlotRec]
      /\ RoomsOK(mem)
  BY TypeParts DEF Slots
<1>3. chk[c].life \in Life
  BY <1>2 DEF SlotRec
<1>4. streams' = streams
  BY <1>1 DEF world
<1>5. RoomsOK(mem') /\ Slots'
  <2>1. CASE Leave(c) /\ mem' = [mem EXCEPT ![chk[c].life].ws = TRUE]
    <3> DEFINE s == mem[chk[c].life]
               t == [s EXCEPT !.ws = TRUE]
    <3>1. mem' = [mem EXCEPT ![chk[c].life] = t] /\ s \in Room /\ LastKnown(s)
      BY <1>2, <1>3, <2>1 DEF RoomsOK
    <3>2. t \in Room /\ t.last = s.last /\ t.pend = s.pend
      BY <3>1 DEF Room
    <3> HIDE DEF t
    <3>3. RoomOK(t)
      BY <3>1, <3>2 DEF RoomOK, LastKnown
    <3>4. RoomsOK(mem') /\ Remembers(mem, mem')
      BY <1>2, <1>3, <3>1, <3>2, <3>3, PutType
    <3> QED
      BY <1>4, <2>1, <3>4, LeaveType
  <2>2. CASE chk' = [chk EXCEPT ![c].pc = "got"] /\ UNCHANGED mem
    <3> DEFINE q == [chk[c] EXCEPT !.pc = "got"]
    <3>1. chk' = [chk EXCEPT ![c] = q]
      BY <1>2, <2>2
    <3>2. q \in SlotRec /\ q.pc = "got" /\ q.snap = chk[c].snap /\ q.plan = chk[c].plan
      BY <1>2 DEF SlotRec
    <3> HIDE DEF q
    <3>3. HandlerOK(q, mem', streams')
      BY <1>2, <1>4, <3>2 DEF HandlerOK, Holding, Pushing
    <3> QED
      BY <1>4, <2>2, <3>1, <3>2, <3>3, PutSteps, SlotsType, SameKinds
  <2> QED
    BY <2>1, <2>2 DEF AnswerFail
<1> QED
  BY <1>1, <1>5, SameKinds, FailType, TypeNext DEF db

\* The baseline of a room.
Baseline(s, a) ==
  [Clear(Clear(s, "start"), "end") EXCEPT !.prev = a.st, !.room = a.n,
     !.start = IF a.st = "live" THEN a.n ELSE @, !.init = TRUE, !.ws = TRUE]

\* The state after the baseline.
LEMMA BaselineIs ==
  ASSUME NEW s \in Room, NEW a \in Snapshot
  PROVE  LET t == Baseline(s, a) IN
         /\ t \in Room /\ t.prev = a.st /\ t.room = a.n /\ t.init /\ t.last = s.last
         /\ t.start = (IF a.st = "live" THEN a.n ELSE s.start) /\ t.epoch = s.epoch
         /\ \A k \in Kind : t.pend[k] = Nothing
<1> DEFINE u == Clear(s, "start")
           v == Clear(u, "end")
<1>1. "start" \in Kind /\ "end" \in Kind
  BY DEF Kind
<1>2. u = [s EXCEPT !.pend["start"] = Nothing]
  BY DEF Clear
<1> HIDE DEF u
<1>3. v = [u EXCEPT !.pend["end"] = Nothing]
  BY DEF Clear
<1>8. Baseline(s, a) = [v EXCEPT !.prev = a.st, !.room = a.n,
                         !.start = IF a.st = "live" THEN a.n ELSE v.start,
                         !.init = TRUE, !.ws = TRUE]
  BY DEF Baseline, u
<1> HIDE DEF v
<1>4. /\ u \in Room /\ u.start = s.start /\ u.last = s.last /\ u.epoch = s.epoch
      /\ u.pend["start"] = Nothing
  BY <1>1, <1>2, PutPend, NothingIs
<1>5. /\ v \in Room /\ v.start = s.start /\ v.last = s.last /\ v.epoch = s.epoch
      /\ v.pend["start"] = Nothing /\ v.pend["end"] = Nothing
  BY <1>1, <1>3, <1>4, PutPend, NothingIs
<1> DEFINE st == a.st
           n == a.n
           b == IF st = "live" THEN n ELSE v.start
<1>6. st \in Status /\ n \in Stream /\ b \in Stream
  BY <1>5 DEF Snapshot, Room
<1>7. Baseline(s, a) = [v EXCEPT !.prev = st, !.room = n, !.start = b, !.init = TRUE, !.ws = TRUE]
  BY <1>8
<1>9. b = IF a.st = "live" THEN a.n ELSE s.start
  BY <1>5
<1> HIDE DEF st, n, b
<1>10. LET t == Baseline(s, a) IN
         /\ t \in Room /\ t.prev = st /\ t.room = n /\ t.init = TRUE /\ t.last = s.last
         /\ t.start = b /\ t.epoch = s.epoch /\ t.pend = v.pend
  BY <1>5, <1>6, <1>7 DEF Room
<1> QED
  BY <1>5, <1>9, <1>10 DEF Kind, st, n

\* The first answer becomes the baseline.
LEMMA RecordIs ==
  ASSUME TypeInv, NEW c \in Slot, Record(c)
  PROVE  LET l == chk[c].life IN
         /\ chk[c].pc = "record" /\ Leave(c) /\ chk[c].snap \in Snapshot
         /\ SnapOK(chk[c].snap, streams)
         /\ IF Valid(c)
              THEN /\ mem' = [mem EXCEPT ![l] = Baseline(mem[l], chk[c].snap)]
                   /\ Notes(mem') /\ Spends
                   /\ base' = IF chk[c].snap.st = "live" THEN chk[c].snap.n ELSE base
                   /\ misled' = IF mem[l].init THEN misled + 1 ELSE misled
              ELSE UNCHANGED <<mem, row, spent, base, misled>>
         /\ UNCHANGED <<world, cfg, proc, saving, reload, sent, settled>>
<1>1. HandlerOK(chk[c], mem, streams)
  BY DEF TypeInv
<1>2. chk[c].pc = "record" /\ Leave(c) /\ UNCHANGED <<world, cfg, proc, saving, reload, sent, settled>>
  BY DEF Record
<1>3. chk[c].snap \in Snapshot /\ SnapOK(chk[c].snap, streams)
  BY <1>1, <1>2 DEF HandlerOK, SnapOK
<1>4. CASE Valid(c)
  <2> DEFINE m == [mem EXCEPT ![chk[c].life] = Baseline(mem[chk[c].life], chk[c].snap)]
  <2>1. /\ mem' = m /\ (Saved(m) \/ SaveFailed)
        /\ base' = IF chk[c].snap.st = "live" THEN chk[c].snap.n ELSE base
        /\ misled' = IF mem[chk[c].life].init THEN misled + 1 ELSE misled
    BY <1>4 DEF Record, Baseline
  <2> HIDE DEF m
  <2>2. Notes(m) /\ Spends
    BY <2>1, SavedIs
  <2>3. Notes(mem')
    BY <2>1, <2>2 DEF Notes
  <2> QED
    BY <1>2, <1>3, <1>4, <2>1, <2>2, <2>3 DEF m
<1>5. CASE ~Valid(c)
  BY <1>2, <1>3, <1>5 DEF Record
<1> QED
  BY <1>4, <1>5

\* The baseline keeps the types.
LEMMA RecordType == ASSUME TypeInv, NEW c \in Slot, Record(c) PROVE TypeInv'
<1> DEFINE l == chk[c].life
           a == chk[c].snap
<1>1. /\ chk[c].pc = "record" /\ Leave(c) /\ a \in Snapshot /\ l \in Life /\ RoomsOK(mem)
      /\ UNCHANGED <<world, cfg, proc, saving, reload, sent, settled>>
  BY RecordIs, TypeParts DEF Slots, SlotRec
<1>2. streams' = streams /\ Kinds' /\ Air'
  BY <1>1, SameKinds DEF world
<1>3. RoomsOK(mem') /\ Remembers(mem, mem') /\ RowOK(row') /\ Purse' /\ base' \in Stream
      /\ misled' \in Nat
  <2>1. base \in Stream /\ misled \in Nat /\ mem[l].init \in BOOLEAN
    BY <1>1, TypeParts DEF Books, RoomsOK, Room
  <2>2. CASE Valid(c)
    <3> DEFINE s == mem[l]
               t == Baseline(s, a)
    <3>1. /\ mem' = [mem EXCEPT ![l] = t] /\ Notes(mem') /\ Spends
          /\ base' = IF a.st = "live" THEN a.n ELSE base
          /\ misled' = IF s.init THEN misled + 1 ELSE misled
      BY <2>2, RecordIs
    <3>2. t \in Room /\ t.last = s.last /\ \A k \in Kind : t.pend[k] = Nothing
      BY <1>1, BaselineIs DEF RoomsOK
    <3> HIDE DEF t
    <3>3. RoomOK(t)
      BY <3>2, NothingIs DEF RoomOK, LastKnown, Kind
    <3>4. RoomsOK(mem') /\ Remembers(mem, mem')
      BY <1>1, <3>1, <3>2, <3>3, PutType
    <3>5. base' \in Stream /\ misled' \in Nat
      BY <1>1, <2>1, <3>1 DEF Snapshot
    <3> QED
      BY <3>1, <3>4, <3>5, NotesType, SpendsType
  <2>3. CASE ~Valid(c)
    BY <2>1, <2>3, RecordIs, SameKinds
  <2> QED
    BY <2>2, <2>3
<1>4. Slots'
  BY <1>1, <1>2, <1>3, LeaveType
<1>5. Books'
  BY <1>1, <1>3, TypeParts DEF Books
<1> QED
  BY <1>2, <1>3, <1>4, <1>5, TypeNext

\* An answer is discarded.
LEMMA DiscardType == ASSUME TypeInv, NEW c \in Slot, Discard(c) PROVE TypeInv'
<1>1. Leave(c) /\ UNCHANGED <<world, db, proc, mem, saving, reload, hist, spent>>
  BY DEF Discard
<1>2. streams' = streams /\ Remembers(mem, mem')
  BY <1>1, SameKinds DEF world
<1> QED
  BY <1>1, <1>2, LeaveType, SameKinds, TypeNext DEF db

\* The job that an answer leads to is one that the answer allows.
LEMMA JobIs ==
  ASSUME NEW c, NEW s, NEW a
  PROVE  LET job == Job(c, s, a) IN
         /\ job \in Jobs /\ job # "confirmed"
         /\ job = "began" => a # None /\ s.prev # "live" /\ a.st = "live"
                             /\ (Stale(c) => Newer(s, a))
         /\ job = "ended" => /\ s.prev = "live"
                             /\ IF a = None THEN chk[c].kind \in {"off", "round"}
                                            ELSE a.st # "live" /\ ~Stale(c)
         /\ job = "retry" => /\ a # None
                             /\ Began(s, a) => Stale(c) /\ ~Newer(s, a)
                             /\ Ended(s, a) => Stale(c)
         /\ job = "prepared" => a = None
BY DEF Job, Jobs, Began, Ended

\* An answer is used: the handler takes the lock or queues.
LEMMA ResumeIs ==
  ASSUME TypeInv, NEW c \in Slot, Resume(c)
  PROVE  LET l == chk[c].life
             s == mem[l]
             a == chk[c].snap
             job == Job(c, s, a)
         IN
         /\ chk[c].pc = "got" /\ ~Outdated(c)
         /\ \/ job \in {"began", "ended", "prepared", "retry"} /\ Lock(mem, c, chk[c], job, FALSE)
            \/ /\ job = "retry" /\ ~Stale(c) /\ chk[c].kind = "live"
               /\ mem' = [mem EXCEPT ![l] = Sync(s, a.st, a.n)] /\ Leave(c) /\ UNCHANGED saving
               /\ misled' = misled + (IF Regresses(s, a) THEN 1 ELSE 0)
            \/ /\ job = "retry" /\ ~Stale(c) /\ chk[c].kind = "poll"
               /\ Lock([mem EXCEPT ![l] = Sync(s, a.st, a.n)], c, chk[c], "confirmed",
                       Regresses(s, a))
         /\ UNCHANGED <<world, db, proc, reload, sent, settled, base, spent>>
<1> DEFINE job == Job(c, mem[chk[c].life], chk[c].snap)
<1>1. job \in {"began", "ended", "prepared", "retry"}
  BY JobIs DEF Jobs
<1> QED
  BY <1>1 DEF Resume

\* What a handler brings to the lock follows from its answer.
LEMMA ResumeReady ==
  ASSUME TypeInv, NEW c \in Slot, chk[c].pc = "got"
  PROVE  LET l == chk[c].life
             s == mem[l]
             a == chk[c].snap
             job == Job(c, s, a)
             m == [mem EXCEPT ![l] = Sync(s, a.st, a.n)]
         IN
         /\ chk[c] \in SlotRec /\ l \in Life /\ s \in Room /\ LastKnown(s)
         /\ SnapOK(a, streams) /\ chk[c].plan \in Plans
         /\ Prepared(Given(chk[c], job)) /\ Prepared(Given(chk[c], "confirmed"))
         /\ job = "retry" => a \in Snapshot /\ RoomsOK(m) /\ Remembers(mem, m)
<1> DEFINE l == chk[c].life
           s == mem[l]
           a == chk[c].snap
           job == Job(c, s, a)
           m == [mem EXCEPT ![l] = Sync(s, a.st, a.n)]
<1>1. /\ chk[c] \in SlotRec /\ HandlerOK(chk[c], mem, streams) /\ RoomsOK(mem)
      /\ s \in Room /\ LastKnown(s) /\ l \in Life
  BY TypeParts DEF Slots, SlotRec, RoomsOK
<1>2. SnapOK(a, streams) /\ chk[c].plan \in Plans
  BY <1>1 DEF HandlerOK
<1>3. job = "retry" => RoomsOK(m) /\ Remembers(mem, m)
  <2>1. SUFFICES ASSUME job = "retry" PROVE RoomsOK(m) /\ Remembers(mem, m)
    OBVIOUS
  <2>2. a \in Snapshot /\ (a.st = "live" => a.n # 0)
    BY <1>2, <2>1, JobIs DEF SnapOK
  <2> DEFINE st == a.st
             n == a.n
             t == Sync(s, st, n)
  <2>3. st \in Status /\ n \in Stream /\ (st = "live" => n # 0)
    BY <2>2 DEF Snapshot
  <2> HIDE DEF st, n
  <2>4. t \in Room /\ t.pend = s.pend /\ t.last = (IF st = "live" THEN n ELSE s.last)
    BY <1>1, <2>3, SyncIs
  <2> HIDE DEF t
  <2>5. RoomOK(t) /\ (s.last # 0 => t.last # 0)
    BY <1>1, <2>3, <2>4 DEF RoomOK, LastKnown
  <2>6. m = [mem EXCEPT ![l] = t]
    BY DEF t, st, n
  <2> QED
    BY <1>1, <2>5, <2>6, PutType
<1>4. Prepared(Given(chk[c], job))
  <2>1. job \in Jobs
    BY JobIs
  <2>2. /\ Given(chk[c], job).snap = a /\ Given(chk[c], job).job = job
        /\ Given(chk[c], job).kind = chk[c].kind
    BY <1>1, <2>1, GivenIs
  <2> QED
    BY <1>2, <2>2, JobIs DEF Prepared
<1>5. Prepared(Given(chk[c], "confirmed"))
  <2>1. "confirmed" \in Jobs
    BY DEF Jobs
  <2>2. Given(chk[c], "confirmed").snap = a /\ Given(chk[c], "confirmed").job = "confirmed"
    BY <1>1, <2>1, GivenIs
  <2> QED
    BY <1>2, <2>2 DEF Prepared
<1>6. job = "retry" => a \in Snapshot
  BY <1>2, JobIs DEF SnapOK
<1> HIDE DEF job, m
<1> QED
  BY <1>1, <1>2, <1>3, <1>4, <1>5, <1>6 DEF job, m

\* The use of an answer keeps the types.
LEMMA ResumeType == ASSUME TypeInv, NEW c \in Slot, Resume(c) PROVE TypeInv'
<1> DEFINE l == chk[c].life
           s == mem[l]
           a == chk[c].snap
           job == Job(c, s, a)
           m == [mem EXCEPT ![l] = Sync(s, a.st, a.n)]
<1>1. /\ chk[c] \in SlotRec /\ HandlerOK(chk[c], mem, streams) /\ RoomsOK(mem)
      /\ s \in Room /\ LastKnown(s) /\ l \in Life
  BY TypeParts DEF Slots, SlotRec, RoomsOK
<1>2. SnapOK(a, streams) /\ chk[c].plan \in Plans
  BY <1>1 DEF HandlerOK
<1>3. UNCHANGED <<world, db, proc, reload, sent, settled, base, spent>>
  BY ResumeIs
<1>4. Air' /\ Purse' /\ RowOK(row') /\ streams' = streams
  BY <1>3, SameKinds DEF db, world
<1>5. job = "retry" => RoomsOK(m) /\ Remembers(mem, m)
  BY ResumeIs, ResumeReady
<1>6. RoomsOK(mem') /\ Slots' /\ saving' \in BOOLEAN /\ misled' \in Nat
  <2>1. CASE job \in {"began", "ended", "prepared", "retry"} /\ Lock(mem, c, chk[c], job, FALSE)
    <3>1. job \in Jobs
      BY JobIs
    <3>2. Prepared(Given(chk[c], job))
      BY ResumeIs, ResumeReady
    <3>3. Remembers(mem, mem)
      BY DEF Remembers
    <3> HIDE DEF job
    <3> QED
      BY <1>1, <1>2, <1>4, <2>1, <3>1, <3>2, <3>3, LockType
  <2>2. CASE /\ job = "retry" /\ ~Stale(c) /\ chk[c].kind = "live"
             /\ mem' = m /\ Leave(c) /\ UNCHANGED saving
             /\ misled' = misled + (IF Regresses(s, a) THEN 1 ELSE 0)
    <3>1. misled \in Nat /\ saving \in BOOLEAN
      BY TypeParts DEF Books, Kinds
    <3> HIDE DEF m
    <3> QED
      BY <1>4, <1>5, <2>2, <3>1, LeaveType
  <2>3. CASE /\ job = "retry" /\ ~Stale(c) /\ chk[c].kind = "poll"
             /\ Lock(m, c, chk[c], "confirmed", Regresses(s, a))
    <3>1. "confirmed" \in Jobs /\ Regresses(s, a) \in BOOLEAN
      BY DEF Jobs, Regresses
    <3>2. Prepared(Given(chk[c], "confirmed"))
      BY ResumeIs, ResumeReady
    <3> DEFINE wrong == Regresses(s, a)
    <3> HIDE DEF wrong, m
    <3>3. Lock(m, c, chk[c], "confirmed", wrong) /\ wrong \in BOOLEAN
      BY <2>3, <3>1 DEF wrong
    <3> QED
      BY <1>1, <1>2, <1>4, <1>5, <2>3, <3>1, <3>2, <3>3, LockType
  <2> QED
    BY <2>1, <2>2, <2>3, ResumeIs
<1>7. Kinds' /\ Books'
  BY <1>3, <1>6, TypeParts DEF Kinds, Books, db, proc
<1> QED
  BY <1>4, <1>6, <1>7, TypeNext

\* A handler that waited gets the lock.
LEMMA AcquireType == ASSUME TypeInv, NEW c \in Slot, Acquire(c) PROVE TypeInv'
<1>1. /\ chk[c].pc = "lock" /\ Enter(mem, c, chk[c]) /\ saving' = (saving \/ Confirms(mem, chk[c]))
      /\ misled' = misled + (IF Misleads(mem, chk[c]) THEN 1 ELSE 0)
      /\ UNCHANGED <<world, db, proc, reload, sent, settled, base, spent>>
  BY DEF Acquire
<1>2. /\ chk[c] \in SlotRec /\ HandlerOK(chk[c], mem, streams) /\ RoomsOK(mem)
      /\ misled \in Nat
  BY TypeParts DEF Slots, Books
<1>3. Prepared(chk[c])
  BY <1>1, <1>2 DEF Prepared, HandlerOK
<1>4. Air' /\ Purse' /\ RowOK(row') /\ streams' = streams /\ Remembers(mem, mem)
  BY <1>1, SameKinds DEF db, world, Remembers
<1>5. RoomsOK(mem') /\ Slots'
  BY <1>1, <1>2, <1>3, <1>4, TakesType
<1>6. saving' \in BOOLEAN /\ misled' \in Nat
  BY <1>1, <1>2
<1>7. Kinds' /\ Books'
  BY <1>1, <1>6, TypeParts DEF Kinds, Books, db, proc
<1> QED
  BY <1>4, <1>5, <1>7, TypeNext

\* The handler leaves, or drops an item of its plan.
Dropped(r) == [r EXCEPT !.plan = Tail(r.plan)]

\* A handler with one item less.
LEMMA DroppedIs ==
  ASSUME NEW r \in SlotRec, r.plan \in Plans, r.plan # <<>>
  PROVE  LET q == Dropped(r) IN
         /\ q \in SlotRec /\ q.pc = r.pc /\ q.plan = Tail(r.plan) /\ q.snap = r.snap
         /\ q.life = r.life /\ q.about = r.about /\ q.cut = r.cut /\ q.ahead = r.ahead
         /\ q.epoch = r.epoch /\ q.job = r.job /\ q.kind = r.kind
<1> DEFINE plan == Tail(r.plan)
<1>1. plan \in Seq(Items)
  <2>1. plan \in Plans
    BY PlanIs
  <2> QED
    BY <2>1, PlanIs
<1>2. Dropped(r) = [r EXCEPT !.plan = plan]
  BY DEF Dropped
<1>3. plan = Tail(r.plan)
  OBVIOUS
<1> HIDE DEF plan
<1> QED
  BY <1>1, <1>2, <1>3 DEF SlotRec, Items

\* An item is done without a push.
LEMMA DropIs ==
  ASSUME TypeInv, NEW c \in Slot, Drop(c)
  PROVE  Leave(c) \/ (Len(chk[c].plan) # 1 /\ chk' = [chk EXCEPT ![c] = Dropped(chk[c])])
<1>1. chk \in [Slot -> SlotRec]
  BY DEF TypeInv, TypeOK
<1>2. CASE Len(chk[c].plan) # 1
  <2>1. chk' = [chk EXCEPT ![c].plan = Tail(chk[c].plan)]
    BY <1>2 DEF Drop
  <2> QED
    BY <1>1, <1>2, <2>1 DEF Dropped
<1>3. CASE Len(chk[c].plan) = 1
  BY <1>3 DEF Drop
<1> QED
  BY <1>2, <1>3

\* The same keeps the slots sound.
LEMMA DropType ==
  ASSUME TypeInv, NEW c \in Slot, chk[c].pc = "next", Leave(c) \/ Drop(c),
         Remembers(mem, mem'), streams' = streams
  PROVE  Slots'
<1> DEFINE r == chk[c]
           q == Dropped(r)
<1>1. CASE Leave(c)
  BY <1>1, LeaveType
<1>2. CASE Len(r.plan) # 1 /\ chk' = [chk EXCEPT ![c] = q]
  <2>1. r \in SlotRec /\ r.plan \in Plans /\ r.plan # <<>> /\ HandlerOK(r, mem, streams)
    BY HolderIs DEF TypeInv, Holding
  <2>2. /\ Tail(r.plan) \in Plans /\ Tail(r.plan) # <<>>
        /\ Head(Tail(r.plan)) \notin {PushStart, CatchUp}
    BY <1>2, <2>1, PlanIs
  <2>3. q \in SlotRec /\ q.pc = "next" /\ q.plan = Tail(r.plan) /\ q.snap = r.snap
    BY <2>1, DroppedIs
  <2> HIDE DEF q, r
  <2>4. HandlerOK(q, mem', streams')
    BY <2>1, <2>2, <2>3 DEF HandlerOK, SnapOK, Holding, Pushing
  <2> QED
    BY <1>2, <2>3, <2>4, PutSteps, SlotsType DEF r
<1> QED
  BY <1>1, <1>2, DropIs

\* The row is written between two notices.
LEMMA StepSaveIs ==
  ASSUME NEW c \in Slot, StepSave(c)
  PROVE  /\ chk[c].pc = "next" /\ Item(c) = Save /\ (Leave(c) \/ Drop(c))
         /\ Notes(mem) /\ Spends
         /\ UNCHANGED <<world, cfg, proc, mem, saving, reload, hist>>
BY SavedIs DEF StepSave, At

\* The same keeps the types.
LEMMA StepSaveType == ASSUME TypeInv, NEW c \in Slot, StepSave(c) PROVE TypeInv'
<1>1. /\ chk[c].pc = "next" /\ (Leave(c) \/ Drop(c)) /\ Notes(mem) /\ Spends
      /\ UNCHANGED <<world, cfg, proc, mem, saving, reload, hist>>
  BY StepSaveIs
<1>2. streams' = streams /\ RowOK(row') /\ Purse'
  BY <1>1, TypeParts, NotesType, SpendsType DEF world
<1>3. Slots'
  BY <1>1, <1>2, SameKinds, DropType
<1> QED
  BY <1>1, <1>2, <1>3, SameKinds, TypeNext

\* A notice is skipped, or given up.
LEMMA StepSkipIs ==
  ASSUME NEW c \in Slot, StepSkip(c)
  PROVE  LET s == mem[chk[c].life] IN
         /\ chk[c].pc = "next" /\ Item(c) # Save /\ Drop(c)
         /\ \/ Skips(c, s) /\ UNCHANGED mem
            \/ ~Skips(c, s) /\ Late(c, s) /\ mem' = [mem EXCEPT ![chk[c].life] = Clear(s, "start")]
         /\ UNCHANGED <<world, db, proc, saving, reload, hist, spent>>
BY DEF StepSkip, At

\* The same keeps the types.
LEMMA StepSkipType == ASSUME TypeInv, NEW c \in Slot, StepSkip(c) PROVE TypeInv'
<1> DEFINE l == chk[c].life
           s == mem[l]
<1>1. /\ chk[c].pc = "next" /\ Drop(c)
      /\ UNCHANGED mem \/ mem' = [mem EXCEPT ![l] = Clear(s, "start")]
      /\ UNCHANGED <<world, db, proc, saving, reload, hist, spent>>
  BY StepSkipIs
<1>2. RoomsOK(mem') /\ Remembers(mem, mem')
  <2>1. CASE UNCHANGED mem
    BY <2>1, SameKinds
  <2>2. CASE mem' = [mem EXCEPT ![l] = Clear(s, "start")]
    <3>1. l \in Life /\ s \in Room /\ RoomsOK(mem) /\ "start" \in Kind
      BY <1>1, HolderIs, TypeParts DEF Holding, Kind
    <3> DEFINE t == Clear(s, "start")
    <3>2. Eased(s, t, {}) /\ t.pend["start"] = Nothing
      BY <3>1, ClearIs
    <3> HIDE DEF t
    <3>3. RoomOK(t) /\ t.last = s.last
      BY <3>2, NothingIs DEF RoomOK, LastKnown, Eased
    <3> QED
      BY <2>2, <3>1, <3>3, PutType DEF t
  <2> QED
    BY <1>1, <2>1, <2>2
<1>3. streams' = streams
  BY <1>1 DEF world
<1> QED
  BY <1>1, <1>2, <1>3, DropType, SameKinds, TypeNext DEF db

\* A delivery is opened.
LEMMA StepOpenType == ASSUME TypeInv, NEW c \in Slot, StepOpen(c) PROVE TypeInv'
<1> DEFINE k == Item(c).k
           l == chk[c].life
           s == mem[l]
           p == s.pend[k]
<1>1. /\ chk[c].pc = "next" /\ Item(c) # Save /\ ~Skips(c, s)
      /\ Late(c, s) => p.dlv # None \/ About(c, s) # None
      /\ UNCHANGED <<world, cfg, proc, saving, reload, hist>>
  BY OpenIs DEF StepOpen
<1>2. /\ l \in Life /\ s \in Room /\ LastKnown(s) /\ k \in Kind /\ p \in Pending /\ RoomsOK(mem)
      /\ HandlerOK(chk[c], mem, streams)
  BY <1>1, HolderIs, PendIs, TypeParts DEF Holding, RoomsOK, Slots
<1>3. streams' = streams
  BY <1>1 DEF world
<1>4. RowOK(row') /\ RoomsOK(mem') /\ Slots' /\ Purse'
  <2>1. CASE Closes(c, s)
    BY <1>1, <1>2, <1>3, <2>1, ClosesType DEF Holding, RoomOK
  <2>2. ASSUME NEW left \in SUBSET Target, NEW q \in SlotRec, Opens(c, left, q)
        PROVE  RowOK(row') /\ RoomsOK(mem') /\ Slots' /\ Purse'
    <3> DEFINE rs == Resend(p, left)
               b == [s EXCEPT !.pend[k] = rs]
    <3>1. /\ Follows(chk[c], q) /\ (q.before <=> Late(c, s))
          /\ IF p.dlv = None THEN q.pc = "build" /\ q.about = About(c, s)
             ELSE q.pc = "send" /\ q.about = p.dlv.about
          /\ mem' = [mem EXCEPT ![l] = b] /\ chk' = [chk EXCEPT ![c] = q]
          /\ Notes(mem') /\ UNCHANGED spent
      BY <2>2 DEF Opens, Puts
    <3>2. rs \in Pending
      BY <1>2, ResendIs DEF Kept
    <3>3. /\ k = "start" => s.last # 0
          /\ Late(c, s) => k = "start"
          /\ Item(c) = CatchUp => Late(c, s)
          /\ About(c, s) \in Stream \cup {None} /\ (~Late(c, s) => About(c, s) \in Stream)
      BY <1>1, AboutIs
    <3> HIDE DEF rs
    <3>4. b \in Room /\ b.last = s.last /\ \A j \in Kind \ {k} : b.pend[j] = s.pend[j]
      BY <1>2, <3>2, PutPend
    <3> HIDE DEF b
    <3>5. RoomOK(b)
      BY <1>2, <3>3, <3>4 DEF RoomOK, LastKnown, Kind
    <3>6. RoomsOK(mem') /\ Remembers(mem, mem') /\ mem'[l] = b
      <4>1. mem' = [mem EXCEPT ![l] = b] /\ RoomsOK(mem) /\ l \in Life
        BY <1>2, <3>1
      <4>2. mem[l].last # 0 => b.last # 0
        BY <3>4
      <4> HIDE DEF l
      <4> QED
        BY <3>5, <4>1, <4>2, PutType, ZenonT(30)
    <3>7. q.about \in Stream
      BY <1>1, <1>2, <3>1, <3>3 DEF Pending, Message
    <3>8. HandlerOK(q, mem', streams')
      <4>1. /\ q.pc \in {"build", "send"} /\ q.plan = chk[c].plan /\ q.snap = chk[c].snap
            /\ q.life = l
        BY <3>1 DEF Follows
      <4>2. Head(q.plan) = Item(c)
        BY <4>1 DEF Item
      <4> QED
        BY <1>1, <1>2, <1>3, <3>1, <3>3, <3>4, <3>6, <3>7, <4>1, <4>2, SMTT(20)
           DEF HandlerOK, Holding, Pushing
    <3>9. Slots'
      BY <1>3, <3>1, <3>6, <3>8, FollowsType
    <3> QED
      BY <3>1, <3>6, <3>9, NotesType, SpendsType
  <2> QED
    BY <2>1, <2>2, OpenIs
<1> QED
  BY <1>1, <1>4, SameKinds, TypeNext

\* A message is prepared.
LEMMA BuildType == ASSUME TypeInv, NEW c \in Slot, Build(c) PROVE TypeInv'
<1> DEFINE k == Item(c).k
           l == chk[c].life
           s == mem[l]
<1>1. /\ chk[c].pc = "build" /\ UNCHANGED <<world, cfg, proc, saving, reload, hist>>
  BY BuildIs DEF Build
<1>2. PICK left \in SUBSET Target : Letter(c, left) \in Message /\ Draws(c, left)
  BY BuildIs
<1> DEFINE b == Draft(s, k, Letter(c, left))
<1>3. /\ l \in Life /\ s \in Room /\ LastKnown(s) /\ k \in Kind /\ RoomsOK(mem)
      /\ chk[c] \in SlotRec /\ Item(c) # Save /\ (k = "start" => s.last # 0)
  BY <1>1, HolderIs, StartKnown, TypeParts DEF Holding, RoomsOK
<1>4. streams' = streams
  BY <1>1 DEF world
<1>5. b \in Room /\ b.last = s.last /\ \A j \in Kind \ {k} : b.pend[j] = s.pend[j]
  BY <1>2, <1>3, DraftIs
<1> HIDE DEF b
<1>6. RoomOK(b)
  BY <1>3, <1>5 DEF RoomOK, LastKnown, Kind
<1>7. RowOK(row') /\ RoomsOK(mem') /\ Slots' /\ Purse'
  <2>1. CASE Closes(c, b)
    BY <1>1, <1>3, <1>4, <1>5, <1>6, <2>1, ClosesType DEF Holding
  <2>2. CASE /\ mem' = Puts(mem, c, b) /\ chk' = [chk EXCEPT ![c] = Drawn(chk[c], left)]
             /\ Notes(mem') /\ UNCHANGED spent
    <3>1. RoomsOK(mem') /\ Remembers(mem, mem')
      BY <1>3, <1>5, <1>6, <2>2, PutType DEF Puts
    <3> DEFINE q == Drawn(chk[c], left)
    <3>2. Follows(chk[c], q) /\ q.before = chk[c].before /\ q.about = chk[c].about /\ q.pc = "send"
      BY <1>3, DrawnIs
    <3> HIDE DEF q
    <3>3. Slots'
      BY <1>1, <1>4, <2>2, <3>1, <3>2, PushType DEF q, Pushing
    <3> QED
      BY <2>2, <3>1, <3>3, NotesType, SpendsType
  <2> QED
    BY <1>2, <2>1, <2>2 DEF Draws, b
<1> QED
  BY <1>1, <1>7, SameKinds, TypeNext

\* A target is passed over; the message is under way to it.
Passed(r, x) == [r EXCEPT !.queue = r.queue \ {x}]
Flying(r, x) == [r EXCEPT !.pc = "inflight", !.to = x]

\* A handler that passed over a target.
LEMMA PassedIs ==
  ASSUME NEW r \in SlotRec, NEW x
  PROVE  LET q == Passed(r, x) IN
         /\ Follows(r, q) /\ q.before = r.before /\ q.about = r.about /\ q.pc = r.pc
         /\ q.queue = r.queue \ {x} /\ q.done = r.done /\ q.to = r.to
BY DEF Passed, Follows, SlotRec

\* A handler that sends to a target.
LEMMA FlyingIs ==
  ASSUME NEW r \in SlotRec, NEW x \in Target
  PROVE  LET q == Flying(r, x) IN
         /\ Follows(r, q) /\ q.before = r.before /\ q.about = r.about /\ q.pc = "inflight"
         /\ q.queue = r.queue /\ q.done = r.done /\ q.to = x
<1>1. "inflight" \in Pcs
  BY DEF Pcs
<1> QED
  BY <1>1 DEF Flying, Follows, SlotRec, Pcs

\* A target is passed over.
LEMMA SendSkipIs ==
  ASSUME TypeInv, NEW c \in Slot, NEW x, SendSkip(c, x)
  PROVE  /\ chk[c].pc = "send" /\ chk' = [chk EXCEPT ![c] = Passed(chk[c], x)]
         /\ UNCHANGED <<world, db, proc, mem, saving, reload, hist, spent>>
<1>1. chk \in [Slot -> SlotRec]
  BY DEF TypeInv, TypeOK
<1>2. chk' = [chk EXCEPT ![c].queue = chk[c].queue \ {x}]
  BY DEF SendSkip
<1> QED
  BY <1>1, <1>2 DEF SendSkip, At, Passed

\* A send starts.
LEMMA SendStartIs ==
  ASSUME TypeInv, NEW c \in Slot, NEW x, SendStart(c, x)
  PROVE  /\ chk[c].pc = "send" /\ x \in chk[c].queue \ chk[c].done /\ CanSend(c, x)
         /\ chk' = [chk EXCEPT ![c] = Flying(chk[c], x)]
         /\ UNCHANGED <<world, db, proc, mem, saving, reload, hist, spent>>
<1>1. chk \in [Slot -> SlotRec]
  BY DEF TypeInv, TypeOK
<1>2. chk' = [chk EXCEPT ![c].pc = "inflight", ![c].to = x]
  BY DEF SendStart
<1>3. chk' = [chk EXCEPT ![c] = [chk[c] EXCEPT !.pc = "inflight", !.to = x]]
  BY <1>1, <1>2
<1> QED
  BY <1>3 DEF SendStart, At, Flying

\* Neither disturbs the types.
LEMMA SendStepType ==
  ASSUME TypeInv, NEW c \in Slot, NEW x \in Target, SendSkip(c, x) \/ SendStart(c, x)
  PROVE  TypeInv'
<1>1. /\ chk[c].pc = "send" /\ UNCHANGED <<world, db, proc, mem, saving, reload, hist, spent>>
  BY SendSkipIs, SendStartIs
<1>2. chk[c] \in SlotRec /\ streams' = streams /\ Remembers(mem, mem')
  BY <1>1, TypeParts, SameKinds DEF Slots, world
<1>3. Slots'
  <2>1. CASE SendSkip(c, x)
    <3> DEFINE q == Passed(chk[c], x)
    <3>1. /\ Follows(chk[c], q) /\ q.before = chk[c].before /\ q.about = chk[c].about
          /\ q.pc = "send" /\ chk' = [chk EXCEPT ![c] = q]
      BY <1>1, <1>2, <2>1, PassedIs, SendSkipIs
    <3> HIDE DEF q
    <3> QED
      BY <1>1, <1>2, <3>1, PushType DEF Pushing
  <2>2. CASE SendStart(c, x)
    <3> DEFINE q == Flying(chk[c], x)
    <3>1. /\ Follows(chk[c], q) /\ q.before = chk[c].before /\ q.about = chk[c].about
          /\ q.pc = "inflight" /\ q.to = x /\ chk' = [chk EXCEPT ![c] = q]
      BY <1>1, <1>2, <2>2, FlyingIs, SendStartIs
    <3> HIDE DEF q
    <3> QED
      BY <1>1, <1>2, <3>1, PushType DEF Pushing
  <2> QED
    BY <2>1, <2>2
<1> QED
  BY <1>1, <1>3, SameKinds, TypeNext DEF db

\* A push counts; a target is settled.
LEMMA PushBooks ==
  ASSUME TypeInv, NEW c \in Slot, chk[c].pc = "inflight",
         Push(c) \/ UNCHANGED sent, Settled(c) \/ UNCHANGED settled, UNCHANGED <<base, misled>>
  PROVE  Books'
<1> DEFINE k == Item(c).k
           n == chk[c].about
           x == chk[c].to
<1>1. k \in Kind /\ n \in Stream /\ x \in Target /\ Books
  BY HolderIs, StartKnown, TypeParts DEF Holding
<1>2. sent' \in [Kind -> [Stream -> [Target -> Nat]]]
  <2>1. CASE Push(c)
    <3>1. sent' = [sent EXCEPT ![k][n][x] = sent[k][n][x] + 1]
      BY <2>1 DEF Push
    <3> HIDE DEF k, n, x
    <3>2. sent[k][n][x] + 1 \in Nat
      BY <1>1 DEF Books
    <3> DEFINE v == sent[k][n][x] + 1
    <3>3. sent' = [sent EXCEPT ![k][n][x] = v] /\ v \in Nat
      BY <3>1, <3>2
    <3> HIDE DEF v
    <3> QED
      BY <1>1, <3>3 DEF Books
  <2>2. CASE UNCHANGED sent
    BY <1>1, <2>2 DEF Books
  <2> QED
    BY <2>1, <2>2
<1>3. settled' \in [Kind -> [Stream -> SUBSET Target]]
  <2>1. CASE Settled(c)
    <3>1. settled' = [settled EXCEPT ![k][n] = settled[k][n] \cup {x}]
      BY <2>1 DEF Settled
    <3> HIDE DEF k, n, x
    <3> QED
      BY <1>1, <3>1 DEF Books
  <2>2. CASE UNCHANGED settled
    BY <1>1, <2>2 DEF Books
  <2> QED
    BY <2>1, <2>2
<1> QED
  BY <1>1, <1>2, <1>3 DEF Books

\* The outcome of a send keeps the slots sound.
LEMMA SentType ==
  ASSUME TypeInv, NEW c \in Slot, chk[c].pc = "inflight", NEW again, Sent(c, again),
         Remembers(mem, mem'), streams' = streams
  PROVE  Slots'
<1> DEFINE q == Outcome(chk[c], again)
<1>1. chk[c] \in SlotRec /\ chk[c].to \in Target
  BY HolderIs, StartKnown DEF Holding
<1>2. /\ Follows(chk[c], q) /\ q.before = chk[c].before /\ q.about = chk[c].about
      /\ q.pc = "send" /\ chk' = [chk EXCEPT ![c] = q]
  BY <1>1, OutcomeIs, SentIs
<1> HIDE DEF q
<1> QED
  BY <1>2, PushType DEF Pushing

\* The message of the notice k has reached x.
Tells(s, k, x) == [s EXCEPT !.pend[k] = Reached(s.pend[k], x)]

\* The state that knows who has the message.
LEMMA TellsIs ==
  ASSUME NEW s \in Room, NEW k \in Kind, NEW x \in Target
  PROVE  LET t == Tells(s, k, x) IN
         /\ t \in Room
         /\ t.prev = s.prev /\ t.start = s.start /\ t.room = s.room /\ t.last = s.last
         /\ t.epoch = s.epoch /\ t.init = s.init /\ t.ws = s.ws
         /\ t.pend[k] = Reached(s.pend[k], x)
         /\ \A j \in Kind \ {k} : t.pend[j] = s.pend[j]
<1>1. Reached(s.pend[k], x) \in Pending
  BY PendIs, ReachedIs
<1> QED
  BY <1>1, PutPend DEF Tells

\* A send that succeeds: pushed, checkpointed, written.
LEMMA SendOkIs ==
  ASSUME TypeInv, NEW c \in Slot, SendOk(c)
  PROVE  /\ chk[c].pc = "inflight" /\ Push(c) /\ Settled(c)
         /\ mem' = Puts(mem, c, Tells(mem[chk[c].life], Item(c).k, chk[c].to))
         /\ Notes(mem') /\ Spends /\ \E again \in BOOLEAN : Sent(c, again)
         /\ UNCHANGED <<world, cfg, proc, saving, reload, base, misled>>
<1> DEFINE m == [mem EXCEPT ![chk[c].life].pend[Item(c).k] =
                   Reached(mem[chk[c].life].pend[Item(c).k], chk[c].to)]
<1>1. /\ chk[c].pc = "inflight" /\ Push(c) /\ Settled(c)
      /\ UNCHANGED <<world, cfg, proc, saving, reload, base, misled>>
  BY DEF SendOk, At
<1>2. mem' = m /\ ((Saved(m) /\ Sent(c, FALSE)) \/ (SaveFailed /\ Sent(c, TRUE)))
  BY DEF SendOk
<1>3. m = Puts(mem, c, Tells(mem[chk[c].life], Item(c).k, chk[c].to))
  <2>1. mem \in [Life -> Room] /\ chk[c].life \in Life
    BY <1>1, HolderIs DEF Holding, TypeInv, TypeOK
  <2> QED
    BY <2>1 DEF Puts, Tells
<1> HIDE DEF m
<1>4. Notes(m) /\ Spends /\ \E again \in BOOLEAN : Sent(c, again)
  BY <1>2, SavedIs
<1>5. Notes(mem')
  BY <1>2, <1>4 DEF Notes
<1> QED
  BY <1>1, <1>2, <1>3, <1>4, <1>5

\* The same keeps the types.
LEMMA SendOkType == ASSUME TypeInv, NEW c \in Slot, SendOk(c) PROVE TypeInv'
<1> DEFINE k == Item(c).k
           l == chk[c].life
           s == mem[l]
           t == Tells(s, k, chk[c].to)
<1>1. /\ chk[c].pc = "inflight" /\ Push(c) /\ Settled(c) /\ mem' = [mem EXCEPT ![l] = t]
      /\ Notes(mem') /\ Spends /\ \E again \in BOOLEAN : Sent(c, again)
      /\ UNCHANGED <<world, cfg, proc, saving, reload, base, misled>>
  BY SendOkIs DEF Puts
<1>2. /\ l \in Life /\ s \in Room /\ LastKnown(s) /\ k \in Kind /\ RoomsOK(mem)
      /\ chk[c].to \in Target /\ (k = "start" => s.last # 0)
  BY <1>1, HolderIs, StartKnown, TypeParts DEF Holding, RoomsOK
<1>3. t \in Room /\ t.last = s.last /\ \A j \in Kind \ {k} : t.pend[j] = s.pend[j]
  BY <1>2, TellsIs
<1> HIDE DEF t
<1>4. RoomOK(t)
  BY <1>2, <1>3 DEF RoomOK, LastKnown, Kind
<1>5. RoomsOK(mem') /\ Remembers(mem, mem')
  BY <1>1, <1>2, <1>3, <1>4, PutType
<1>6. streams' = streams
  BY <1>1 DEF world
<1>7. Slots'
  BY <1>1, <1>5, <1>6, SentType
<1>8. Books'
  BY <1>1, PushBooks
<1> QED
  BY <1>1, <1>5, <1>7, <1>8, NotesType, SpendsType, SameKinds, TypeNext

\* A send that fails, is refused, or loses its receipt.
LEMMA SendFailType ==
  ASSUME TypeInv, NEW c \in Slot, SendFail(c) \/ SendReject(c) \/ SendLost(c)
  PROVE  TypeInv'
<1>1. /\ chk[c].pc = "inflight" /\ \E again \in BOOLEAN : Sent(c, again)
      /\ UNCHANGED <<world, db, proc, mem, saving, reload, base, misled>>
  BY DEF SendFail, SendReject, SendLost, At, hist
<1>2. Push(c) \/ UNCHANGED sent
  BY DEF SendFail, SendReject, SendLost, hist
<1>3. Settled(c) \/ UNCHANGED settled
  BY DEF SendFail, SendReject, SendLost, hist
<1>4. \/ spent' = [spent EXCEPT !.fail = @ + 1]
      \/ spent' = [spent EXCEPT !.fail = @ + 1, !.lost = @ + 1]
  BY DEF SendFail, SendReject, SendLost, Failing
<1>5. streams' = streams /\ Remembers(mem, mem')
  BY <1>1, SameKinds DEF world
<1>6. Slots'
  BY <1>1, <1>5, SentType
<1>7. Books'
  BY <1>1, <1>2, <1>3, PushBooks
<1>8. Purse'
  BY <1>4, FailType
<1> QED
  BY <1>1, <1>6, <1>7, <1>8, SameKinds, TypeNext DEF db

\* The last target is done.
LEMMA CloseIs ==
  ASSUME TypeInv, NEW c \in Slot, Close(c)
  PROVE  /\ chk[c].pc = "send" /\ chk[c].queue = {} /\ Closes(c, mem[chk[c].life])
         /\ UNCHANGED <<world, cfg, proc, saving, reload, hist>>
<1>1. /\ chk[c].pc = "send" /\ chk[c].queue = {} /\ Settle(c, chk[c].before, chk[c].failed)
      /\ UNCHANGED <<world, cfg, proc, saving, reload, hist>>
  BY DEF Close, At
<1>2. /\ chk[c] \in SlotRec /\ Item(c).k \in Kind /\ Item(c) # Save
      /\ (chk[c].before => Item(c).k = "start") /\ (Item(c) = CatchUp => chk[c].before)
  BY <1>1, HolderIs, StartKnown DEF Holding
<1>3. chk[c].failed \in SUBSET Target /\ chk[c].before \in BOOLEAN
  BY <1>2 DEF SlotRec
<1>4. Item(c).k \in Raises(c)
  BY <1>1, <1>2 DEF Raises
<1> QED
  BY <1>1, <1>2, <1>3, <1>4, SettleIs DEF Holding

\* The same keeps the types.
LEMMA CloseType == ASSUME TypeInv, NEW c \in Slot, Close(c) PROVE TypeInv'
<1>1. /\ chk[c].pc = "send" /\ Closes(c, mem[chk[c].life])
      /\ UNCHANGED <<world, cfg, proc, saving, reload, hist>>
  BY CloseIs
<1>2. RoomOK(mem[chk[c].life]) /\ Item(c) # Save /\ streams' = streams
  BY <1>1, HolderIs, StartKnown, TypeParts DEF Holding, RoomsOK, RoomOK, world
<1>3. RowOK(row') /\ RoomsOK(mem') /\ Slots' /\ Purse'
  BY <1>1, <1>2, ClosesType DEF Holding
<1> QED
  BY <1>1, <1>3, SameKinds, TypeNext

-----------------------------------------------------------------------------
(* The bot that is down, and the rest of the actions *)

\* Nothing runs while the bot is down.
DownInv == ~up => reload = "idle" /\ cur = None /\ \A c \in Slot : chk[c] = Idle

\* What needs a handler does not happen to an idle one.
LEMMA HandlesAwake ==
  ASSUME NEW c \in Slot,
         Handle(c) \/ AnswerFail(c) \/ SendFail(c) \/ SendReject(c) \/ SendLost(c) \/ Cancel(c)
  PROVE  chk[c].pc # "idle" /\ UNCHANGED proc
<1>1. CASE Answer(c) \/ Record(c) \/ Discard(c) \/ Resume(c) \/ Acquire(c)
  BY <1>1 DEF Answer, Record, Discard, Resume, Acquire
<1>2. CASE Deliver(c)
  BY <1>2 DEF Deliver, StepSave, StepSkip, StepOpen, Build, SendSkip, SendStart, SendOk, Close, At
<1>3. CASE AnswerFail(c) \/ SendFail(c) \/ SendReject(c) \/ SendLost(c) \/ Cancel(c)
  BY <1>3 DEF AnswerFail, SendFail, SendReject, SendLost, Cancel, At
<1> QED
  BY <1>1, <1>2, <1>3 DEF Handle

\* While the bot is down, nothing but the broadcast moves until the restart.
LEMMA DownKept == ASSUME DownInv, [Next]_vars PROVE DownInv'
<1>1. CASE UNCHANGED vars
  BY <1>1 DEF DownInv, vars, proc
<1>2. CASE GoLive \/ GoOff \/ GoRound \/ BackgroundSave
  BY <1>2 DEF DownInv, GoLive, GoOff, GoRound, BackgroundSave, proc
<1>3. ASSUME NEW c \in Slot,
             Handle(c) \/ AnswerFail(c) \/ SendFail(c) \/ SendReject(c) \/ SendLost(c) \/ Cancel(c)
      PROVE  DownInv'
  <2>1. chk[c].pc # "idle" /\ UNCHANGED proc
    BY <1>3, HandlesAwake
  <2>2. up
    BY <2>1, IdleIs DEF DownInv
  <2> QED
    BY <2>1, <2>2 DEF DownInv, proc
<1>4. ASSUME NEW c \in Slot, NEW kind, CheckStart(c, kind) PROVE DownInv'
  <2>1. cur # None /\ UNCHANGED proc
    BY <1>4 DEF CheckStart, Active
  <2>2. up
    BY <2>1 DEF DownInv
  <2> QED
    BY <2>1, <2>2 DEF DownInv, proc
<1>5. CASE \E new \in SUBSET Target : ReloadStart(new)
  BY <1>5 DEF ReloadStart, DownInv, proc
<1>6. CASE ReloadApply \/ ReloadRemove \/ ReloadDelete \/ ReloadReadd
  <2>1. reload # "idle" /\ up' = up
    BY <1>6 DEF ReloadApply, ReloadRemove, ReloadDelete, ReloadReadd, proc
  <2> QED
    BY <2>1 DEF DownInv
<1>7. CASE Crash
  BY <1>7 DEF Crash, DownInv
<1>8. CASE Restart
  BY <1>8 DEF Restart, DownInv
<1> QED
  BY <1>1, <1>2, <1>3, <1>4, <1>5, <1>6, <1>7, <1>8 DEF Next

\* A handler is cancelled.
LEMMA CancelType == ASSUME TypeInv, NEW c \in Slot, Cancel(c) PROVE TypeInv'
<1>1. /\ chk[c].pc # "idle"
      /\ UNCHANGED <<world, db, proc, mem, saving, reload, settled, base, misled>>
      /\ UNCHANGED spent \/ spent' = [spent EXCEPT !.cut = @ + 1]
  BY DEF Cancel, At
<1>2. Purse'
  BY <1>1, SameKinds, FailType
<1>3. streams' = streams /\ Remembers(mem, mem')
  BY <1>1, SameKinds DEF world
<1>4. Books' /\ Slots'
  <2>1. CASE chk' = [chk EXCEPT ![c].cut = TRUE] /\ UNCHANGED sent
    <3> DEFINE q == [chk[c] EXCEPT !.cut = TRUE]
    <3>1. chk[c] \in SlotRec /\ HandlerOK(chk[c], mem, streams)
      BY DEF TypeInv, TypeOK
    <3>2. chk' = [chk EXCEPT ![c] = q]
      BY <2>1
    <3>3. /\ q \in SlotRec /\ q.pc = chk[c].pc /\ q.kind = chk[c].kind /\ q.life = chk[c].life
          /\ q.snap = chk[c].snap /\ q.job = chk[c].job /\ q.plan = chk[c].plan
          /\ q.before = chk[c].before /\ q.about = chk[c].about /\ q.to = chk[c].to
      BY <3>1 DEF SlotRec
    <3> HIDE DEF q
    <3>4. HandlerOK(q, mem', streams')
      BY <1>1, <1>3, <3>1, <3>3 DEF HandlerOK
    <3>5. Slots'
      BY <1>3, <3>2, <3>3, <3>4, PutSteps, SlotsType
    <3>6. Books'
      BY <1>1, <2>1, SameKinds DEF hist
    <3> QED
      BY <3>5, <3>6
  <2>2. CASE Leave(c) /\ (UNCHANGED sent \/ (chk[c].pc = "inflight" /\ Push(c)))
    <3>1. Slots'
      BY <1>3, <2>2, LeaveType
    <3>2. CASE UNCHANGED sent
      BY <1>1, <3>1, <3>2, SameKinds DEF hist
    <3>3. CASE chk[c].pc = "inflight" /\ Push(c)
      BY <1>1, <3>1, <3>3, PushBooks
    <3> QED
      BY <2>2, <3>2, <3>3
  <2> QED
    BY <2>1, <2>2 DEF Cancel, At
<1> QED
  BY <1>1, <1>2, <1>4, SameKinds, TypeNext DEF db

\* The steps of a configuration change.
LEMMA ReloadType ==
  ASSUME TypeInv, \/ \E new \in SUBSET Target : ReloadStart(new)
                  \/ ReloadApply \/ ReloadRemove \/ ReloadDelete \/ ReloadReadd
  PROVE  TypeInv'
<1>1. UNCHANGED <<world, up, mem, chk, saving, hist>>
  BY DEF ReloadStart, ReloadApply, ReloadRemove, ReloadDelete, ReloadReadd, proc
<1>2. Air' /\ Books' /\ RoomsOK(mem') /\ Slots'
  BY <1>1, SameKinds, SkipType DEF world
<1>3. RowOK(row')
  <2>1. row' = row \/ row' = None
    BY DEF ReloadStart, ReloadApply, ReloadRemove, ReloadDelete, ReloadReadd, DeleteRow, db
  <2> QED
    BY <2>1, TypeParts DEF RowOK
<1>4. Purse'
  <2>1. Purse /\ MaxReload \in Nat
    BY TypeParts, ParamAssumption
  <2>2. ASSUME NEW new, ReloadStart(new) PROVE Purse'
    BY <2>1, <2>2 DEF ReloadStart, Purse
  <2>3. CASE UNCHANGED spent \/ spent' = [spent EXCEPT !.db = @ + 1]
    BY <2>1, <2>3, SpendsType DEF Spends
  <2> QED
    BY <2>2, <2>3 DEF ReloadApply, ReloadRemove, ReloadDelete, ReloadReadd, DeleteRow
<1>5. Kinds'
  <2>1. Kinds /\ Purse
    BY TypeParts
  <2>2. spent.reload \in Life
    BY <2>1, ParamAssumption DEF Purse, Life
  <2>3. CASE \E new \in SUBSET Target : ReloadStart(new)
    BY <1>1, <2>1, <2>3 DEF ReloadStart, Kinds, proc
  <2>4. CASE ReloadApply
    BY <1>1, <2>1, <2>4 DEF ReloadApply, Kinds, db
  <2>5. CASE ReloadRemove
    BY <1>1, <2>1, <2>5 DEF ReloadRemove, Kinds, db
  <2>6. CASE ReloadDelete
    BY <1>1, <2>1, <2>6 DEF ReloadDelete, Kinds, proc
  <2>7. CASE ReloadReadd
    BY <1>1, <2>1, <2>2, <2>7 DEF ReloadReadd, Kinds
  <2> QED
    BY <2>3, <2>4, <2>5, <2>6, <2>7
<1> QED
  BY <1>2, <1>3, <1>4, <1>5, TypeNext

\* The process dies.
LEMMA CrashType == ASSUME TypeInv, Crash PROVE TypeInv'
<1>1. UNCHANGED <<world, db, hist>>
  BY DEF Crash
<1>2. Air' /\ Books' /\ RowOK(row')
  BY <1>1, SameKinds DEF db
<1>3. Purse'
  BY FailType DEF Crash
<1>4. RoomsOK(mem')
  <2>1. mem' = [l \in Life |-> Fresh]
    BY DEF Crash
  <2> QED
    BY <2>1, FreshIs DEF RoomsOK
<1>5. Slots'
  <2>1. chk' = [c \in Slot |-> Idle]
    BY DEF Crash
  <2> QED
    BY <2>1, IdleIs DEF Slots
<1>6. Kinds'
  <2>1. Kinds
    BY TypeParts
  <2> QED
    BY <1>1, <2>1 DEF Crash, Kinds, db
<1> QED
  BY <1>2, <1>3, <1>4, <1>5, <1>6, TypeNext

\* It comes back, from the row.
LEMMA RestartType == ASSUME TypeInv, DownInv, Restart PROVE TypeInv'
<1>1. /\ ~up /\ UNCHANGED <<world, cfg, chk, saving, reload, hist, spent>>
      /\ up' = TRUE /\ targets' = cfg /\ cur' \in {None, 0}
      /\ row' \in {None, row} /\ mem' = [mem EXCEPT ![0] = Restored(row')]
  BY DEF Restart
<1>2. 0 \in Life
  BY ParamAssumption DEF Life
<1>3. Kinds'
  <2>1. Kinds
    BY TypeParts
  <2> QED
    BY <1>1, <1>2, <2>1 DEF Kinds
<1>4. RowOK(row')
  BY <1>1, TypeParts DEF RowOK
<1>5. RoomsOK(mem')
  <2> DEFINE t == Restored(row')
  <2>1. t \in Room /\ LastKnown(t)
    BY <1>4, RestoredIs DEF RowOK
  <2> HIDE DEF t
  <2>2. mem' = [mem EXCEPT ![0] = t]
    BY <1>1 DEF t
  <2>3. RoomsOK(mem)
    BY TypeParts
  <2> QED
    BY <1>2, <2>1, <2>2, <2>3 DEF RoomsOK
<1>6. Slots'
  <2>1. chk' = chk /\ chk \in [Slot -> SlotRec] /\ \A c \in Slot : chk[c] = Idle
    BY <1>1, TypeParts DEF Slots, DownInv
  <2>2. \A c \in Slot : HandlerOK(chk[c], mem', streams')
    BY <2>1, IdleIs
  <2> QED
    BY <2>1, <2>2 DEF Slots
<1> QED
  BY <1>1, <1>3, <1>4, <1>5, <1>6, SameKinds, TypeNext

-----------------------------------------------------------------------------
(* The theorems *)

\* The invariants hold at the start.
LEMMA InitType == ASSUME Init PROVE TypeInv /\ DownInv
<1>1. 0 \in Life /\ 0 \in Stream /\ 0 <= MaxReload
  BY ParamAssumption DEF Life, Stream
<1>2. RoomsOK(mem)
  <2>1. mem = [l \in Life |-> Fresh]
    BY DEF Init
  <2> QED
    BY <2>1, FreshIs DEF RoomsOK
<1>3. Slots
  <2>1. chk = [c \in Slot |-> Idle]
    BY DEF Init
  <2> QED
    BY <2>1, IdleIs DEF Slots
<1>4. RowOK(row)
  BY DEF Init, RowOK
<1>5. Purse
  <2>1. spent = [round |-> 0, reload |-> 0, crash |-> 0, cut |-> 0, fail |-> 0,
                 lost |-> 0, db |-> 0]
    BY DEF Init
  <2> QED
    BY <1>1, <2>1 DEF Purse
<1>6. Books
  <2>1. /\ sent = [k \in Kind |-> [n \in Stream |-> [x \in Target |-> 0]]]
        /\ settled = [k \in Kind |-> [n \in Stream |-> {}]] /\ base = 0 /\ misled = 0
    BY DEF Init
  <2> QED
    BY <1>1, <2>1 DEF Books
<1>7. Kinds
  BY <1>1 DEF Init, Kinds
<1>8. Air
  <2>1. 1 \in Stream
    BY ParamAssumption DEF Stream
  <2> QED
    BY <1>1, <2>1, NoneAssumption DEF Init, Air, SnapOK, Snapshot, Status
<1> QED
  BY <1>2, <1>3, <1>4, <1>5, <1>6, <1>7, <1>8, TypeParts DEF DownInv, Init

\* Every step keeps the types.
LEMMA StepType == ASSUME TypeInv, DownInv, [Next]_vars PROVE TypeInv'
<1>1. CASE UNCHANGED vars
  <2>1. UNCHANGED <<world, cfg, proc, saving, reload, hist, spent, row, mem, chk, streams>>
    BY <1>1 DEF vars, db, world
  <2> QED
    BY <2>1, SameKinds, SkipType, TypeNext
<1>2. ASSUME NEW c \in Slot, Deliver(c) PROVE TypeInv'
  BY <1>2, StepSaveType, StepSkipType, StepOpenType, BuildType, SendStepType, SendOkType, CloseType
     DEF Deliver
<1>3. ASSUME NEW c \in Slot, Handle(c) PROVE TypeInv'
  BY <1>2, <1>3, AnswerType, RecordType, DiscardType, ResumeType, AcquireType DEF Handle
<1>4. ASSUME NEW c \in Slot, NEW kind, CheckStart(c, kind) PROVE TypeInv'
  BY <1>4, CheckStartType
<1>5. ASSUME NEW c \in Slot,
             AnswerFail(c) \/ SendFail(c) \/ SendReject(c) \/ SendLost(c) \/ Cancel(c)
      PROVE  TypeInv'
  BY <1>5, AnswerFailType, SendFailType, CancelType
<1> QED
  BY <1>1, <1>3, <1>4, <1>5, WorldType, BackgroundType, ReloadType, CrashType, RestartType DEF Next

\* The types of room, row, handlers and history hold in every state, and each handler
\* under the lock has a plan that Enter made and knows the broadcast it pushes.
THEOREM TypeCorrect == Spec => []TypeOK
<1>1. Init => TypeInv /\ DownInv
  BY InitType
<1>2. (TypeInv /\ DownInv) /\ [Next]_vars => (TypeInv /\ DownInv)'
  BY StepType, DownKept
<1>3. TypeInv => TypeOK
  BY DEF TypeInv
<1> QED
  BY <1>1, <1>2, <1>3, PTL DEF Spec
=============================================================================
