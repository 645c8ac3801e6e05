------------------------------ MODULE LiveRoom ------------------------------
(***************************************************************************)
(* One monitored room of plugins/live_monitor: polls and websocket signals *)
(* observe the broadcast concurrently and push "start" and "end" notices   *)
(* under the lock of the room, with snapshots that are retried and         *)
(* survive a crash; the room is disabled and enabled again meanwhile.      *)
(*                                                                         *)
(* asyncio: a step is the code between two awaits.  Writes of the row are  *)
(* serialised by _persist_locks and copy the state when their turn comes,  *)
(* so that a write is one step here.                                       *)
(***************************************************************************)
EXTENDS Naturals, Sequences, FiniteSets

CONSTANTS
  Target,     \* groups and friends of the room
  Poll,       \* slots for checks: poll job, manual check, the check of a new room
  Signal,     \* slots for the handlers of websocket signals
  None,       \* no room, no row, no answer, no snapshot
  MaxStream,  \* bound: broadcasts
  MaxRound,   \* bound: changes between off and round
  MaxReload,  \* bound: configuration changes
  MaxCrash,   \* bound: crashes of the bot
  MaxCut,     \* bound: websocket reconnects that cancel a handler
  MaxFail,    \* bound: fetches and sends that fail, are rejected, lose their receipt
  MaxDbFail   \* bound: database errors

ASSUME ParamAssumption ==
  /\ {MaxStream, MaxRound, MaxReload, MaxCrash, MaxCut, MaxFail, MaxDbFail} \subseteq Nat
  /\ MaxStream # 0

Slot   == Poll \cup Signal
Life   == 0 .. MaxReload
Stream == 0 .. MaxStream
Status == {"off", "round", "live"}
Kind   == {"start", "end"}

\* What the API says: the status, and the broadcast (live_start_time), 0 when off air.
Snapshot == [st: Status, n: Stream]

\* pending_start / pending_end: the flag, the targets to retry ({}: all of them)
\* and the prepared message: whom to send it, who has it, what it is about.
Message == [left: SUBSET Target, done: SUBSET Target, about: Stream]
Pending == [on: BOOLEAN, to: SUBSET Target, dlv: Message \cup {None}]
Nothing == [on |-> FALSE, to |-> {}, dlv |-> None]

\* LiveRoomState: status, start_time, room_info, last_live_room_info (0: none),
\* observation_epoch, pending notices; initialized_rooms; a websocket client.
Room  == [prev: Status, start: Stream, room: Stream \cup {None}, last: Stream,
          epoch: Nat, pend: [Kind -> Pending], init: BOOLEAN, ws: BOOLEAN]
Fresh == [prev |-> "off", start |-> 0, room |-> None, last |-> 0, epoch |-> 0,
          pend |-> [k \in Kind |-> Nothing], init |-> FALSE, ws |-> FALSE]

Row == [prev: Status, start: Stream, last: Stream, pend: [Kind -> Pending]]

ASSUME NoneAssumption ==
  None \notin Message \cup Row \cup Snapshot \cup Stream \cup Life \cup Target

VARIABLES
  air,      \* the broadcast
  streams,  \* number of broadcasts so far
  cfg, row, \* database: targets of the enabled room, state row
  up, targets, cur, \* process: running, its targets, its life (LiveRoomState object)
  mem,      \* LiveRoomState objects
  chk,      \* checks and signal handlers
  saving,   \* a write spawned by _confirm_observed_status has yet to run
  reload,   \* reload_config
  sent,     \* history: pushes of a notice about a broadcast to a target
  settled,  \* history: targets that have it, or rejected it for good
  base,     \* history: broadcast on air at the last baseline
  misled,   \* history: second baselines of a room, ends taken while the broadcast is on,
            \* answers about an older broadcast than the one seen last
  spent     \* budgets used

world == <<air, streams>>
db    == <<cfg, row>>
proc  == <<up, targets, cur>>
hist  == <<sent, settled, base, misled>>
vars  == <<world, db, proc, mem, chk, saving, reload, hist, spent>>

\* What a handler does under the lock, item by item: push a notice (how it came to
\* it; an error is caught and the plan goes on), or just write the row.
PushStart  == [k |-> "start", how |-> "push", caught |-> TRUE]
CatchUp    == [k |-> "start", how |-> "before", caught |-> TRUE]
PushEnd    == [k |-> "end", how |-> "push", caught |-> TRUE]
RetryStart == [k |-> "start", how |-> "retry", caught |-> FALSE]
RetryEnd   == [k |-> "end", how |-> "retry", caught |-> FALSE]
Save       == [k |-> "start", how |-> "save", caught |-> FALSE]

\* ahead: the slots that queue for, or hold, the lock of the room before this one.
Idle == [pc |-> "idle", kind |-> "poll", life |-> 0, epoch |-> 0, snap |-> None,
         ahead |-> {}, job |-> "retry", plan |-> <<>>, before |-> FALSE, about |-> None,
         queue |-> {}, done |-> {}, failed |-> {}, to |-> None, cut |-> FALSE]

Init ==
  /\ air \in {[st |-> "off", n |-> 0], [st |-> "live", n |-> 1]}
  /\ streams = air.n
  /\ cfg = Target /\ row = None
  /\ up = TRUE /\ targets = Target /\ cur = 0 /\ mem = [l \in Life |-> Fresh]
  /\ chk = [c \in Slot |-> Idle]
  /\ saving = FALSE /\ reload = "idle"
  /\ sent = [k \in Kind |-> [n \in Stream |-> [x \in Target |-> 0]]]
  /\ settled = [k \in Kind |-> [n \in Stream |-> {}]]
  /\ base = 0 /\ misled = 0
  /\ spent = [round |-> 0, reload |-> 0, crash |-> 0, cut |-> 0, fail |-> 0,
              lost |-> 0, db |-> 0]

-----------------------------------------------------------------------------
(* The broadcast *)

GoLive ==
  /\ air.st # "live" /\ streams < MaxStream
  /\ streams' = streams + 1
  /\ air' = [st |-> "live", n |-> streams + 1]
  /\ UNCHANGED <<db, proc, mem, chk, saving, reload, hist, spent>>

GoOff ==
  /\ air.st = "live"
  /\ air' = [st |-> "off", n |-> 0]
  /\ UNCHANGED <<streams, db, proc, mem, chk, saving, reload, hist, spent>>

GoRound ==
  /\ air.st # "live" /\ spent.round < MaxRound
  /\ air' = [air EXCEPT !.st = IF @ = "off" THEN "round" ELSE "off"]
  /\ spent' = [spent EXCEPT !.round = @ + 1]
  /\ UNCHANGED <<streams, db, proc, mem, chk, saving, reload, hist>>

-----------------------------------------------------------------------------
(* _persist_state: what is written is the current state object.  The last    *)
(* broadcast is kept only with a pending notice.                             *)

Active == targets # {} /\ cur # None
Pends(s) == \E k \in Kind : s.pend[k].on
RowOf(s) == [prev |-> s.prev, start |-> s.start,
             last |-> IF Pends(s) THEN s.last ELSE 0,
             pend |-> IF Pends(s) THEN s.pend ELSE [k \in Kind |-> Nothing]]

Saved(m) == row' = (IF Active THEN RowOf(m[cur]) ELSE row) /\ UNCHANGED spent

SaveFailed == /\ Active /\ spent.db < MaxDbFail
              /\ spent' = [spent EXCEPT !.db = @ + 1]
              /\ UNCHANGED row

\* The write spawned by _confirm_observed_status; an error is only logged.
BackgroundSave ==
  /\ saving /\ (Saved(mem) \/ SaveFailed)
  /\ saving' = FALSE
  /\ UNCHANGED <<world, cfg, proc, mem, chk, reload, hist>>

-----------------------------------------------------------------------------
(* The state of the room *)

Sync(s, st, room) ==
  [s EXCEPT !.prev = st, !.epoch = IF s.prev # st THEN @ + 1 ELSE @, !.room = room,
            !.last = IF st = "live" THEN room ELSE @]

\* _mark_pending_*_retry
Marked(p) == [p EXCEPT !.on = TRUE, !.to = IF p.dlv = None THEN {} ELSE p.dlv.left]
Mark(s, k) == [s EXCEPT !.pend[k] = Marked(@)]
Clear(s, k) == [s EXCEPT !.pend[k] = Nothing]

Began(s, a) == s.prev # "live" /\ a.st = "live"
Ended(s, a) == s.prev = "live" /\ a.st # "live"
Newer(s, a) == a.n > s.start /\ a.n > s.last

\* The broadcast a late start notice is about: the last one seen live.
LastLive(s) == IF s.last # 0 THEN s.last ELSE s.room

-----------------------------------------------------------------------------
(* The lock of the room *)

Locking(c) == chk[c].pc \in {"lock", "next", "build", "send", "inflight"}
Left(c) == [d \in Slot |-> IF d = c THEN Idle ELSE [chk[d] EXCEPT !.ahead = @ \ {c}]]
Leave(c) == chk' = Left(c)

Run(c, r, plan, about) ==
  IF plan = <<>> THEN Leave(c)
  ELSE chk' = [chk EXCEPT ![c] = [Idle EXCEPT !.pc = "next", !.life = r.life,
                                              !.plan = plan, !.about = about]]

\* Mutant: the status is not read again under the lock.
EnterBeganAnyway(m, c, r) ==
  LET s == m[r.life] IN
  /\ r.job = "began"
  /\ mem' = [m EXCEPT ![r.life] =
                [Sync(Mark(Clear(s, "end"), "start"), "live", r.snap.n) EXCEPT !.start = r.snap.n]]
  /\ Run(c, r, <<PushStart, Save, RetryEnd>>, r.snap.n)

\* Mutant: the end notice of the last broadcast stays pending.
EnterBeganKeepsEnd(m, c, r) ==
  LET s == m[r.life] IN
  /\ r.job = "began"
  /\ IF s.prev = "live"
       THEN Leave(c) /\ mem' = m
       ELSE /\ mem' = [m EXCEPT ![r.life] =
                 [Sync(Mark(s, "start"), "live", r.snap.n) EXCEPT !.start = r.snap.n]]
            /\ Run(c, r, <<PushStart, Save, RetryEnd>>, r.snap.n)

\* The body of "async with lock", for the handler r in slot c, from memory m.
\* A broadcast began: drop an end notice still pending, record it, push.
EnterBegan(m, c, r) ==
  LET s == m[r.life] IN
  /\ r.job = "began"
  /\ IF s.prev = "live"
       THEN Leave(c) /\ mem' = m
       ELSE /\ mem' = [m EXCEPT ![r.life] =
                 [Sync(Mark(Clear(s, "end"), "start"), "live", r.snap.n)
                    EXCEPT !.start = r.snap.n]]
            /\ Run(c, r, <<PushStart, Save, RetryEnd>>, r.snap.n)

\* A broadcast ended: record it, catch up on the start notice, push.  Without an
\* answer the signal itself says what follows, and without any room_info that is all.
EnterEnded(m, c, r) ==
  LET s    == m[r.life]
      st   == IF r.snap = None THEN r.kind ELSE r.snap.st
      room == IF r.snap = None THEN s.room ELSE r.snap.n
  IN
  /\ r.job = "ended"
  /\ IF s.prev # "live"
       THEN Leave(c) /\ mem' = m
     ELSE IF room = None
       THEN /\ mem' = [m EXCEPT ![r.life].prev = st, ![r.life].epoch = @ + 1]
            /\ Leave(c)
       ELSE /\ mem' = [m EXCEPT ![r.life] = Sync(Mark(s, "end"), st, room)]
            /\ Run(c, r, <<CatchUp, PushEnd, Save, RetryStart>>,
                   IF s.room = None THEN LastLive(s) ELSE s.room)

\* Nothing new: push what is pending; only what is already prepared when the API
\* gave no answer.
EnterRetry(m, c, r) ==
  LET ready(k, item) == IF r.job # "prepared" \/ m[r.life].pend[k].dlv # None
                          THEN <<item>> ELSE <<>>
  IN /\ r.job \in {"retry", "confirmed", "prepared"}
     /\ Run(c, r, ready("start", RetryStart) \o ready("end", RetryEnd), None)
     /\ mem' = m

Enter(m, c, r) == EnterBegan(m, c, r) \/ EnterEnded(m, c, r) \/ EnterRetry(m, c, r)

\* _confirm_observed_status spawns a write.
Confirms(m, r) == LET s == m[r.life] IN
  \/ r.job = "began" /\ s.prev # "live"
  \/ r.job = "ended" /\ s.prev = "live" /\ (r.snap # None \/ s.room # None)

\* An end is taken although the broadcast that was seen last is still on: from a
\* signal alone, or from an answer that was overtaken by a later one.
Misleads(m, r) == LET s == m[r.life] IN
  /\ r.job = "ended" /\ s.prev = "live"
  /\ air.st = "live" /\ air.n \in {s.start, s.room, s.last}

\* asyncio.Lock: taken at once when it is free, else first come first served.
Lock(m, c, r, job, wrong) ==
  LET first == {d \in Slot : Locking(d)}
      q     == [r EXCEPT !.job = job]
  IN IF first = {}
       THEN /\ Enter(m, c, q) /\ saving' = (saving \/ Confirms(m, q) \/ job = "confirmed")
            /\ misled' = misled + (IF wrong \/ Misleads(m, q) THEN 1 ELSE 0)
       ELSE /\ chk' = [chk EXCEPT ![c] = [q EXCEPT !.pc = "lock", !.ahead = first]]
            /\ mem' = m /\ saving' = (saving \/ job = "confirmed")
            /\ misled' = misled + (IF wrong THEN 1 ELSE 0)

Acquire(c) ==
  /\ chk[c].pc = "lock" /\ chk[c].ahead = {}
  /\ Enter(mem, c, chk[c]) /\ saving' = (saving \/ Confirms(mem, chk[c]))
  /\ misled' = misled + (IF Misleads(mem, chk[c]) THEN 1 ELSE 0)
  /\ UNCHANGED <<world, db, proc, reload, sent, settled, base, spent>>

-----------------------------------------------------------------------------
(* _check_room_status, _handle_live_signal, _handle_preparing_signal *)

\* A signal says what is on air; the websocket is connected when a first attempt at
\* a baseline is over, whatever its outcome.  Nothing recorded yet: a notice restored
\* from the row is taken up, else the first answer is the baseline (_initialize_room).
CheckStart(c, kind) ==
  LET s == mem[cur]
      r == [Idle EXCEPT !.kind = kind, !.life = cur, !.epoch = s.epoch]
  IN /\ Active /\ chk[c].pc = "idle"
     /\ c \in Signal => s.ws
     /\ kind = IF c \in Poll THEN "poll" ELSE air.st
     /\ IF ~s.init /\ Pends(s)
          THEN Lock([mem EXCEPT ![cur].init = TRUE, ![cur].ws = TRUE], c, r, "prepared", FALSE)
          ELSE /\ chk' = [chk EXCEPT ![c] =
                    [r EXCEPT !.pc = IF s.init THEN "fetch" ELSE "init"]]
               /\ UNCHANGED <<mem, saving, misled>>
     /\ UNCHANGED <<world, db, proc, reload, sent, settled, base, spent>>

\* The server answers; the answer ages until the handler resumes.
Answer(c) ==
  /\ chk[c].pc \in {"init", "fetch"}
  /\ chk' = [chk EXCEPT ![c].snap = air, ![c].pc = IF @ = "init" THEN "record" ELSE "got"]
  /\ UNCHANGED <<world, db, proc, mem, saving, reload, hist, spent>>

\* The request failed.
AnswerFail(c) ==
  /\ chk[c].pc \in {"init", "fetch"} /\ spent.fail < MaxFail
  /\ IF chk[c].pc = "init"
       THEN Leave(c) /\ mem' = [mem EXCEPT ![chk[c].life].ws = TRUE]
       ELSE chk' = [chk EXCEPT ![c].pc = "got"] /\ UNCHANGED mem
  /\ spent' = [spent EXCEPT !.fail = @ + 1]
  /\ UNCHANGED <<world, db, proc, saving, reload, hist>>

Valid(c) == targets # {} /\ cur = chk[c].life
\* Mutant: any change of the status makes an answer out of date.
StaleSinceStart(c) == mem[chk[c].life].epoch # 0

Stale(c) == mem[chk[c].life].epoch # chk[c].epoch

\* Mutant: the baseline leaves the status alone.
RecordWithoutStatus(c) ==
  LET a == chk[c].snap
      m == [mem EXCEPT ![chk[c].life].room = a.n, ![chk[c].life].init = TRUE]
  IN /\ chk[c].pc = "record"
     /\ IF Valid(c)
          THEN /\ mem' = m /\ (Saved(m) \/ SaveFailed)
               /\ base' = IF a.st = "live" THEN a.n ELSE base
          ELSE UNCHANGED <<mem, row, spent, base>>
     /\ Leave(c)
     /\ UNCHANGED <<world, cfg, proc, saving, reload, sent, settled, misled>>

\* The baseline: what is on air is recorded and not pushed.
Record(c) ==
  LET a == chk[c].snap
      s == mem[chk[c].life]
      m == [mem EXCEPT ![chk[c].life] =
              [Clear(Clear(s, "start"), "end") EXCEPT !.prev = a.st, !.room = a.n,
                 !.start = IF a.st = "live" THEN a.n ELSE @, !.init = TRUE, !.ws = TRUE]]
  IN /\ chk[c].pc = "record"
     /\ IF Valid(c)
          THEN /\ mem' = m /\ (Saved(m) \/ SaveFailed)
               /\ base' = IF a.st = "live" THEN a.n ELSE base
               /\ misled' = IF s.init THEN misled + 1 ELSE misled
          ELSE UNCHANGED <<mem, row, spent, base, misled>>
     /\ Leave(c)
     /\ UNCHANGED <<world, cfg, proc, saving, reload, sent, settled>>

\* The room was disabled (or is another life), or the answer is out of date: the
\* status changed since it was asked for, and it is not a newer broadcast.
Outdated(c) ==
  LET s == mem[chk[c].life]
      a == chk[c].snap
  IN \/ ~Valid(c)
     \/ chk[c].kind \in {"off", "round"} /\ Stale(c)
     \/ chk[c].kind = "live" /\ a # None /\ Stale(c) /\ ~(Began(s, a) /\ Newer(s, a))
     \/ chk[c].kind \in {"off", "round"} /\ a # None /\ ~Ended(s, a)

Discard(c) ==
  /\ chk[c].pc = "got" /\ Outdated(c)
  /\ Leave(c)
  /\ UNCHANGED <<world, db, proc, mem, saving, reload, hist, spent>>

\* What to do with the answer a, given the state s of the room.
Job(c, s, a) ==
  IF a = None
    THEN IF chk[c].kind \in {"off", "round"} /\ s.prev = "live" THEN "ended" ELSE "prepared"
  ELSE IF Began(s, a) /\ (Stale(c) => Newer(s, a)) THEN "began"
  ELSE IF Ended(s, a) /\ ~Stale(c) THEN "ended"
  ELSE "retry"

\* An answer overtaken by that about a later broadcast: the epoch is the same.
Regresses(s, a) == a.st = "live" /\ a.n < s.last

Resume(c) ==
  LET s == mem[chk[c].life]
      a == chk[c].snap
      job == Job(c, s, a)
      synced == [mem EXCEPT ![chk[c].life] = Sync(s, a.st, a.n)]
  IN /\ chk[c].pc = "got" /\ ~Outdated(c)
     /\ \/ job # "retry" /\ Lock(mem, c, chk[c], job, FALSE)
        \/ job = "retry" /\ Stale(c) /\ Lock(mem, c, chk[c], job, FALSE)
        \/ job = "retry" /\ ~Stale(c) /\ chk[c].kind = "live"
           /\ mem' = synced /\ Leave(c) /\ UNCHANGED saving
           /\ misled' = misled + (IF Regresses(s, a) THEN 1 ELSE 0)
        \/ job = "retry" /\ ~Stale(c) /\ chk[c].kind = "poll"
           /\ Lock(synced, c, chk[c], "confirmed", Regresses(s, a))
     /\ UNCHANGED <<world, db, proc, reload, sent, settled, base, spent>>

-----------------------------------------------------------------------------
(* deliver_start and deliver_end, under the lock *)

Item(c) == Head(chk[c].plan)

\* The handler goes on with the next item.
Onward(r) == [r EXCEPT !.pc = "next", !.plan = Tail(r.plan), !.before = FALSE,
                       !.queue = {}, !.done = {}, !.failed = {}, !.to = None]

\* A delivery is over, from memory m, normally or with an exception.  A start
\* notice that catches up before the end is given up when it failed again.
Closed(c, before, m, raised) ==
  LET l == chk[c].life
      s == IF before /\ (raised => Item(c).caught) THEN Clear(m[l], "start")
           ELSE IF raised /\ Item(c).caught THEN Mark(m[l], Item(c).k)
           ELSE m[l]
  IN /\ mem' = [m EXCEPT ![l] =
                  IF chk[c].cut /\ Item(c) = CatchUp THEN Mark(s, "end") ELSE s]
     /\ IF chk[c].cut \/ (raised /\ ~Item(c).caught) \/ Len(chk[c].plan) = 1
          THEN Leave(c)
          ELSE chk' = [chk EXCEPT ![c] = Onward(chk[c])]

\* The notice p, to be sent to left when its message is prepared.
Resend(p, left) ==
  [p EXCEPT !.on = TRUE, !.dlv = IF p.dlv = None THEN None ELSE [p.dlv EXCEPT !.left = left]]

\* The targets that failed stay pending; with none the notice is done.  An error
\* of the database while it is taken off brings it back.
Settle(c, before, failed) ==
  LET k == Item(c).k
      l == chk[c].life
      s == mem[l]
      m == [mem EXCEPT ![l] =
              IF failed = {} THEN Clear(s, k)
              ELSE [s EXCEPT !.pend[k] = [Resend(s.pend[k], failed) EXCEPT !.to = failed]]]
  IN \/ Saved(m) /\ Closed(c, before, m, FALSE)
     \/ SaveFailed /\ Closed(c, before, IF failed = {} THEN mem ELSE m, TRUE)

At(c, pc) == chk[c].pc = pc
Drop(c) == IF Len(chk[c].plan) = 1 THEN Leave(c)
                                   ELSE chk' = [chk EXCEPT ![c].plan = Tail(@)]

StepSave(c) ==
  /\ At(c, "next") /\ Item(c) = Save
  /\ (Saved(mem) /\ Drop(c)) \/ (SaveFailed /\ Leave(c))
  /\ UNCHANGED <<world, cfg, proc, mem, saving, reload, hist>>

\* A start notice after the end: it catches up first.
Late(c, s) == Item(c) = CatchUp \/ (Item(c) = RetryStart /\ s.prev # "live")
\* An end notice is about the last broadcast that was recorded or seen live.
About(c, s) == IF Item(c).k = "end" THEN IF s.last > s.start THEN s.last ELSE s.start
               ELSE IF Item(c) = RetryStart THEN LastLive(s) ELSE chk[c].about

\* Mutants: a pending notice is never retried; a pending end only while live.
SkipsRetry(c, s) == Item(c).how = "retry" \/ (~s.pend[Item(c).k].on /\ Item(c).how # "push")
SkipsEndOffAir(c, s) == \/ ~s.pend[Item(c).k].on /\ Item(c).how # "push"
                        \/ Item(c) = RetryEnd /\ s.prev # "live"

Skips(c, s) == \/ ~s.pend[Item(c).k].on /\ Item(c).how # "push"
               \/ Item(c) = RetryEnd /\ s.prev = "live"

\* Nothing is pending; or nobody knows what it was about.
StepSkip(c) ==
  LET s == mem[chk[c].life] IN
  /\ At(c, "next") /\ Item(c) # Save
  /\ \/ Skips(c, s) /\ UNCHANGED mem
     \/ /\ ~Skips(c, s) /\ Late(c, s)
        /\ s.pend["start"].dlv = None /\ About(c, s) = None
        /\ mem' = [mem EXCEPT ![chk[c].life] = Clear(s, "start")]
  /\ Drop(c)
  /\ UNCHANGED <<world, db, proc, saving, reload, hist, spent>>

CanSend(c, x) == cur = chk[c].life /\ x \in targets

\* _send_notification up to the first send: targets that left the configuration
\* are dropped; a prepared message is reused, otherwise the card is drawn first.
StepOpen(c) ==
  LET k == Item(c).k
      l == chk[c].life
      s == mem[l]
      p == s.pend[k]
      todo == targets \cap (IF p.on /\ p.to # {} THEN p.to ELSE targets)
      left == {x \in p.dlv.left \cap todo : CanSend(c, x)}
      m == [mem EXCEPT ![l].pend[k] = Resend(p, left)]
      r == [chk[c] EXCEPT !.before = Late(c, s), !.about = About(c, s)]
  IN /\ At(c, "next") /\ Item(c) # Save /\ ~Skips(c, s)
     /\ Late(c, s) => p.dlv # None \/ About(c, s) # None
     /\ IF todo = {} THEN Settle(c, Late(c, s), {})
        ELSE \/ SaveFailed /\ Closed(c, Late(c, s), m, TRUE)
             \/ /\ Saved(m) /\ mem' = m
                /\ chk' = [chk EXCEPT ![c] =
                     IF p.dlv = None
                       THEN [r EXCEPT !.pc = "build", !.queue = todo]
                       ELSE [r EXCEPT !.pc = "send", !.queue = left,
                               !.done = p.dlv.done, !.about = p.dlv.about]]
     /\ UNCHANGED <<world, cfg, proc, saving, reload, hist>>

Build(c) ==
  LET left == {x \in chk[c].queue : CanSend(c, x)}
      m == [mem EXCEPT ![chk[c].life].pend[Item(c).k].dlv =
              [left |-> left, done |-> {}, about |-> chk[c].about]]
  IN /\ At(c, "build")
     /\ \/ SaveFailed /\ Closed(c, chk[c].before, m, TRUE)
        \/ /\ Saved(m) /\ mem' = m
           /\ chk' = [chk EXCEPT ![c].pc = "send", ![c].queue = left]
     /\ UNCHANGED <<world, cfg, proc, saving, reload, hist>>

\* A target is inactive, or was served by an earlier attempt.
SendSkip(c, x) ==
  /\ At(c, "send") /\ x \in chk[c].queue
  /\ ~CanSend(c, x) \/ x \in chk[c].done
  /\ chk' = [chk EXCEPT ![c].queue = @ \ {x}]
  /\ UNCHANGED <<world, db, proc, mem, saving, reload, hist, spent>>

SendStart(c, x) ==
  /\ At(c, "send") /\ x \in chk[c].queue
  /\ CanSend(c, x) /\ x \notin chk[c].done
  /\ chk' = [chk EXCEPT ![c].pc = "inflight", ![c].to = x]
  /\ UNCHANGED <<world, db, proc, mem, saving, reload, hist, spent>>

\* The outcome for the target in flight: whether it is to be tried again.
Sent(c, again) ==
  LET x == chk[c].to IN
  chk' = [chk EXCEPT ![c].pc = "send", ![c].to = None, ![c].queue = @ \ {x},
                     ![c].failed = IF again THEN @ \cup {x} ELSE @]
Push(c) == sent' = [sent EXCEPT ![Item(c).k][chk[c].about][chk[c].to] = @ + 1]
Settled(c) == settled' = [settled EXCEPT ![Item(c).k][chk[c].about] = @ \cup {chk[c].to}]

\* The message of the notice p has reached x.
Reached(p, x) ==
  [p EXCEPT !.dlv = IF p.dlv = None THEN None ELSE [p.dlv EXCEPT !.done = p.dlv.done \cup {x}]]

\* Checkpoint; when it raises the target counts as failed, but is done.
SendOk(c) ==
  LET x == chk[c].to
      m == [mem EXCEPT ![chk[c].life].pend[Item(c).k] = Reached(@, x)]
  IN /\ At(c, "inflight")
     /\ Push(c) /\ Settled(c) /\ mem' = m
     /\ (Saved(m) /\ Sent(c, FALSE)) \/ (SaveFailed /\ Sent(c, TRUE))
     /\ UNCHANGED <<world, cfg, proc, saving, reload, base, misled>>

Failing == spent.fail < MaxFail /\ spent' = [spent EXCEPT !.fail = @ + 1]

SendFail(c) ==
  /\ At(c, "inflight") /\ Failing /\ Sent(c, TRUE)
  /\ UNCHANGED <<world, db, proc, mem, saving, reload, hist>>

\* Refused for good: is_terminal_qq_error_text.
SendReject(c) ==
  /\ At(c, "inflight") /\ Failing /\ Settled(c) /\ Sent(c, FALSE)
  /\ UNCHANGED <<world, db, proc, mem, saving, reload, sent, base, misled>>

\* Delivered, but the receipt was lost.
SendLost(c) ==
  /\ At(c, "inflight") /\ spent.fail < MaxFail
  /\ spent' = [spent EXCEPT !.fail = @ + 1, !.lost = @ + 1]
  /\ Push(c) /\ Sent(c, TRUE)
  /\ UNCHANGED <<world, db, proc, mem, saving, reload, settled, base, misled>>

Close(c) ==
  /\ At(c, "send") /\ chk[c].queue = {}
  /\ Settle(c, chk[c].before, chk[c].failed)
  /\ UNCHANGED <<world, cfg, proc, saving, reload, hist>>

\* The websocket reconnects or its client is stopped: the handler is cancelled, but
\* a push it has begun for a transition is shielded and runs to its end.
Cancel(c) ==
  /\ c \in Signal /\ ~At(c, "idle") /\ ~chk[c].cut
  /\ \/ reload = "remove" /\ UNCHANGED spent
     \/ spent.cut < MaxCut /\ spent' = [spent EXCEPT !.cut = @ + 1]
  /\ IF Locking(c) /\ chk[c].plan # <<>> /\ Item(c).caught
       THEN chk' = [chk EXCEPT ![c].cut = TRUE] /\ UNCHANGED sent
       ELSE /\ Leave(c)
            /\ IF At(c, "inflight") THEN UNCHANGED sent \/ Push(c) ELSE UNCHANGED sent
  /\ UNCHANGED <<world, db, proc, mem, saving, reload, settled, base, misled>>

-----------------------------------------------------------------------------
(* Hot reload.  The room is one of several: the monitor keeps running.       *)

ReloadStart(new) ==
  /\ up /\ reload = "idle" /\ new # cfg /\ spent.reload < MaxReload
  /\ cfg' = new
  /\ row' = IF new = {} THEN None ELSE row
  /\ reload' = "apply"
  /\ spent' = [spent EXCEPT !.reload = @ + 1]
  /\ UNCHANGED <<world, proc, mem, chk, saving, hist>>

ReloadApply ==
  /\ reload = "apply"
  /\ targets' = cfg
  /\ reload' = IF cfg = {} THEN "remove" ELSE IF targets = {} THEN "readd" ELSE "idle"
  /\ UNCHANGED <<world, db, up, cur, mem, chk, saving, hist, spent>>

\* _remove_room, when the websocket client has stopped.
ReloadRemove ==
  /\ reload = "remove" /\ \A c \in Signal : At(c, "idle")
  /\ cur' = None
  /\ reload' = "delete"
  /\ UNCHANGED <<world, db, up, targets, mem, chk, saving, hist, spent>>

DeleteRow == \/ row' = None /\ UNCHANGED spent
             \/ /\ spent.db < MaxDbFail /\ spent' = [spent EXCEPT !.db = @ + 1]
                /\ UNCHANGED row

ReloadDelete ==
  /\ reload = "delete"
  /\ DeleteRow
  /\ reload' = "idle"
  /\ UNCHANGED <<world, cfg, proc, mem, chk, saving, hist>>

ReloadReadd ==
  /\ reload = "readd"
  /\ DeleteRow
  /\ cur' = spent.reload
  /\ reload' = "idle"
  /\ UNCHANGED <<world, cfg, up, targets, mem, chk, saving, hist>>

-----------------------------------------------------------------------------
(* Crash and restart *)

\* A notice on its way is lost; that it came out after all is not told apart.
Crash ==
  /\ up /\ spent.crash < MaxCrash
  /\ up' = FALSE /\ targets' = {} /\ cur' = None
  /\ mem' = [l \in Life |-> Fresh]
  /\ chk' = [c \in Slot |-> Idle]
  /\ saving' = FALSE /\ reload' = "idle"
  /\ spent' = [spent EXCEPT !.crash = @ + 1]
  /\ UNCHANGED <<world, db, hist>>

\* Mutant: the row is taken for the state, without what it does not store.
RestoredRow(w) == IF w = None THEN Fresh ELSE w

\* What the row does not hold starts afresh, room_info and baseline included.
Restored(w) == IF w = None THEN Fresh
               ELSE [Fresh EXCEPT !.prev = w.prev, !.start = w.start, !.last = w.last,
                                  !.pend = w.pend]

Restart ==
  /\ ~up
  /\ up' = TRUE /\ targets' = cfg
  /\ row' = IF cfg = {} THEN None ELSE row
  /\ cur' = IF cfg = {} THEN None ELSE 0
  /\ mem' = [mem EXCEPT ![0] = Restored(row')]
  /\ UNCHANGED <<world, cfg, chk, saving, reload, hist, spent>>

-----------------------------------------------------------------------------

Deliver(c) == \/ StepSave(c) \/ StepSkip(c) \/ StepOpen(c) \/ Build(c)
              \/ \E x \in Target : SendSkip(c, x) \/ SendStart(c, x)
              \/ SendOk(c) \/ Close(c)

Handle(c) == \/ Answer(c) \/ Record(c) \/ Discard(c) \/ Resume(c) \/ Acquire(c)
             \/ Deliver(c)

Next ==
  \/ GoLive \/ GoOff \/ GoRound
  \/ BackgroundSave
  \/ \E c \in Slot :
       \/ \E kind \in {"poll", "live", "off", "round"} : CheckStart(c, kind)
       \/ Handle(c)
       \/ AnswerFail(c) \/ SendFail(c) \/ SendReject(c) \/ SendLost(c) \/ Cancel(c)
  \/ \E new \in SUBSET Target : ReloadStart(new)
  \/ ReloadApply \/ ReloadRemove \/ ReloadDelete \/ ReloadReadd
  \/ Crash \/ Restart

Spec == Init /\ [][Next]_vars

\* The poll job keeps firing, the loop runs every ready coroutine, the API and the
\* database answer; signals may never come.
Fairness == /\ \A c \in Poll : WF_vars(CheckStart(c, "poll"))
            /\ \A c \in Slot : WF_vars(Handle(c))
            /\ WF_vars(BackgroundSave)
            /\ \A c \in Signal : WF_vars(reload = "remove" /\ Cancel(c))
            /\ WF_vars(ReloadApply \/ ReloadRemove \/ ReloadDelete \/ ReloadReadd)
            /\ WF_vars(Restart)

FairSpec == Spec /\ Fairness

-----------------------------------------------------------------------------
(* Properties *)

SlotRec == [pc: {"idle", "init", "record", "fetch", "got", "lock", "next", "build",
                 "send", "inflight"},
            kind: {"poll", "live", "off", "round"}, life: Life, epoch: Nat,
            snap: Snapshot \cup {None}, ahead: SUBSET Slot,
            job: {"began", "ended", "retry", "confirmed", "prepared"},
            plan: Seq({PushStart, CatchUp, PushEnd, RetryStart, RetryEnd, Save}),
            before: BOOLEAN, about: Stream \cup {None}, queue: SUBSET Target,
            done: SUBSET Target, failed: SUBSET Target, to: Target \cup {None},
            cut: BOOLEAN]

\* Room, row and the locals of the handlers stay well formed; a message that was
\* prepared is about a known broadcast.
TypeOK ==
  /\ air \in Snapshot /\ streams \in Stream
  /\ cfg \subseteq Target /\ row \in Row \cup {None}
  /\ up \in BOOLEAN /\ targets \subseteq Target /\ cur \in Life \cup {None}
  /\ mem \in [Life -> Room]
  /\ chk \in [Slot -> SlotRec]
  /\ saving \in BOOLEAN
  /\ reload \in {"idle", "apply", "remove", "delete", "readd"}
  /\ sent \in [Kind -> [Stream -> [Target -> Nat]]]
  /\ settled \in [Kind -> [Stream -> SUBSET Target]]
  /\ base \in Stream /\ misled \in Nat
  /\ spent \in [round: Nat, reload: Nat, crash: Nat, cut: Nat, fail: Nat, lost: Nat,
               db: Nat]

Excuses == spent.crash + spent.lost + spent.cut

\* The runs of these properties do not look past a misled observation.
Sure == misled = 0

\* A target gets one start notice, and one end notice, of a broadcast, although polls
\* and signals observe the same change concurrently and from answers of any age,
\* targets fail, checkpoints raise and the room is disabled and enabled meanwhile;
\* one more for a crash, a lost receipt, a cancelled retry.
OncePerBroadcast ==
  misled = 0 =>
    \A k \in Kind, n \in Stream, x \in Target : sent[k][n][x] <= 1 + Excuses

\* The same while every request is answered, whatever was observed in which order.
OnceWhenAnswered ==
  spent.fail = 0 =>
    \A k \in Kind, n \in Stream, x \in Target : sent[k][n][x] <= 1 + Excuses

\* Slot c starts to push notice k of broadcast n to x.
Starts(c, k, n, x) == /\ chk[c].pc = "send" /\ chk'[c].pc = "inflight"
                      /\ Item(c).k = k /\ chk[c].about = n /\ chk'[c].to = x

\* A target never learns of the beginning after it learnt of the end, and never of
\* an end after a later beginning: late notices catch up first or are given up.
InOrder == [][\A c \in Slot, n, later \in Stream, x \in Target :
                misled = 0 =>
                  /\ Starts(c, "start", n, x) /\ later >= n => x \notin settled["end"][later]
                  /\ Starts(c, "end", n, x) /\ later > n => x \notin settled["start"][later]]_vars

\* A broadcast that was on air when the room was enabled is not pushed as new.
NoBaselinePush == [][\A c \in Slot, n \in Stream, x \in Target :
                       Starts(c, "start", n, x) /\ misled = 0 => n > base]_vars

\* A start notice is never about a broadcast older than the one recorded last.
LatestBroadcast == [][\A c \in Slot, n \in Stream, x \in Target :
               Starts(c, "start", n, x) /\ misled = 0 => n >= mem[chk[c].life].start]_vars

-----------------------------------------------------------------------------
(* Liveness *)

\* A broadcast that begins after the baseline, in a room recorded as off air, and
\* stays on air is announced to every target.  (One that replaces another before this
\* is seen to end is taken for the same.)
Announced == \A n \in Stream, x \in Target :
  (/\ Active /\ mem[cur].init /\ mem[cur].prev # "live" /\ x \in targets
   /\ air = [st |-> "live", n |-> n] /\ base < n
   /\ \A c \in Slot : chk[c].snap # None => chk[c].snap.n \in {0, n})
    ~> (x \in settled["start"][n] \/ air.n # n \/ x \notin targets \/ n <= base)

\* In the end the recorded status is the actual one, and notices do not stay pending
\* for ever.
Settles == /\ <>[](Active => mem[cur].prev = air.st)
           /\ []<>(Active => ~Pends(mem[cur]))
=============================================================================
