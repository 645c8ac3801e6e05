------------------------------ MODULE Outbound ------------------------------
(***************************************************************************)
(* shared/adapter/outbound.py: messages of several parts to one target, by *)
(* the official bots in turn or as replies to one event, under the lock of *)
(* the target; single messages by the OneBot bots.  A step is the code     *)
(* between two awaits.                                                     *)
(***************************************************************************)
EXTENDS Integers, Sequences, FiniteSets, FiniteSetsExt

CONSTANTS
  Push,    \* pushes of a monitor to an official target, taken up again after a failure
  Reply,   \* replies to one event, in the same chat
  OneBot,  \* pushes to a numeric QQ id
  Bots,    \* number of connected bots
  Parts,   \* parts of a message, the first of which is text
  Limit,   \* replies that the platform accepts for an event
  None,
  MaxFail, MaxLost, MaxCut, MaxOther, MaxTry \* bounds: errors, lost receipts, failed
           \* checkpoints and cancellations, replies from elsewhere, calls of a push

Call     == Push \cup Reply \cup OneBot
Official == Push \cup Reply

VARIABLES
  call,  \* the calls of send_group, send_user, send_event_message
  lock,  \* _official_lock of the target: its holder and who waits
  event, \* replied to: _reply_seq (of the SDK), _official_reply_count, _reply_last_seq
  got,   \* history: copies of each part in the chat
  taken, \* history: replies that the platform accepted
  spent

vars == <<call, lock, event, got, taken, spent>>

Size(c) == IF c \in OneBot THEN 1 ELSE Parts

Init ==
  /\ call = [c \in Call |-> [pc |-> "idle", next |-> 0, bot |-> 1, retries |-> 0,
                             bare |-> FALSE, rem |-> 0, seq |-> 0, tries |-> 0]]
  /\ lock = <<>> /\ taken = 0
  /\ event = [seq |-> 0, cnt |-> None, last |-> 0]
  /\ got = [c \in Call |-> [p \in 1 .. Size(c) |-> 0]]
  /\ spent = [fail |-> 0, lost |-> 0, cut |-> 0, other |-> 0, unknown |-> 0]

At(c, pc)   == call[c].pc = pc
Goto(c, pc) == call' = [call EXCEPT ![c].pc = pc]
May(f, max) == spent[f] < max
Used(f)     == spent' = [spent EXCEPT ![f] = @ + 1]

-----------------------------------------------------------------------------
(* The reply budget of the event *)

\* official_reply_remaining: what was accepted, and every attempt since then.
Remaining ==
  LET accepted == IF event.cnt = None THEN event.seq ELSE event.cnt
      previous == IF event.cnt = None THEN event.seq ELSE event.last
  IN  Max({0, Limit - accepted - Max({0, event.seq - previous})})

\* _remember_official_reply: a known refusal does not count, replies from elsewhere do.
Remember(c, ok) ==
  LET since == event.seq - call[c].seq
      extra == IF ok THEN Max({1, since}) ELSE Max({0, since - 1})
  IN event' = IF c \in Reply
                THEN [event EXCEPT !.cnt = Limit - call[c].rem + extra, !.last = event.seq]
                ELSE event

-----------------------------------------------------------------------------
(* _send_official_to_target, _send_official_parts *)

\* A caller takes a message up again where the last call stopped.
Start(c) ==
  /\ At(c, "idle") /\ call[c].tries < MaxTry
  /\ LET pc == IF call[c].next = Size(c) THEN "done" ELSE IF c \in OneBot THEN "part" ELSE "wait"
     IN /\ call' = [call EXCEPT ![c].pc = pc, ![c].bot = 1, ![c].tries = @ + 1]
        /\ lock' = IF pc = "wait" THEN Append(lock, c) ELSE lock
  /\ UNCHANGED <<event, got, taken, spent>>

\* The lock is handed over in order; then at least three seconds have to be between
\* two parts.
Acquire(c) ==
  /\ At(c, "wait") /\ lock[1] = c
  /\ Goto(c, "part")
  /\ UNCHANGED <<lock, event, got, taken, spent>>

Unlock(c) == lock' = IF c \in OneBot THEN lock ELSE Tail(lock)

\* The next bot goes on with the next part; after the last one the caller gets the error.
Raise(c) ==
  IF call[c].bot < Bots /\ c \notin Reply
    THEN /\ call' = [call EXCEPT ![c].bot = @ + 1, ![c].retries = 0, ![c].bare = FALSE,
                                 ![c].pc = IF c \in OneBot THEN "part" ELSE "wait"]
         /\ lock' = IF c \in OneBot THEN lock ELSE Append(Tail(lock), c)
    ELSE Goto(c, IF c \in Reply THEN "failed" ELSE "idle") /\ Unlock(c)

\* The next part, if there is one and the event may still be replied to.
Part(c) ==
  /\ At(c, "part")
  /\ IF call[c].next = Size(c) THEN Goto(c, "done") /\ Unlock(c)
     ELSE IF c \in Reply /\ Remaining = 0 THEN Goto(c, "refused") /\ Unlock(c)
     ELSE /\ call' = [call EXCEPT ![c].pc = "build", ![c].rem = Remaining,
                                  ![c].seq = event.seq]
          /\ UNCHANGED lock
  /\ UNCHANGED <<event, got, taken, spent>>

\* The media of the part cannot be read.
BuildFailed(c) ==
  /\ At(c, "build") /\ May("fail", MaxFail) /\ Used("fail")
  /\ Raise(c)
  /\ UNCHANGED <<event, got, taken>>

\* can_send is asked when the part is ready; bot.send counts the attempts on an event.
Built(c) ==
  /\ At(c, "build")
  /\ Goto(c, "flight")
  /\ event' = IF c \in Reply THEN [event EXCEPT !.seq = @ + 1] ELSE event
  /\ UNCHANGED <<lock, got, taken, spent>>

Cancelled(c) ==
  /\ At(c, "build") /\ c \notin Reply /\ May("cut", MaxCut) /\ Used("cut")
  /\ Goto(c, "idle") /\ Unlock(c)
  /\ UNCHANGED <<event, got, taken>>

Accepted(c) == c \in Reply => taken < Limit
Receive(c)  == /\ got' = [got EXCEPT ![c][call[c].next + 1] = @ + 1]
               /\ taken' = IF c \in Reply THEN taken + 1 ELSE taken

Sent(c) ==
  /\ At(c, "flight") /\ Accepted(c) /\ Receive(c)
  /\ Remember(c, TRUE)
  /\ call' = [call EXCEPT ![c].next = @ + 1, ![c].retries = 0, ![c].bare = FALSE,
                          ![c].pc = IF c \in Reply THEN "part" ELSE "mark"]
  /\ UNCHANGED <<lock, spent>>

\* The part is in the chat, but the answer says otherwise, or does not come.
Lost(c) ==
  /\ At(c, "flight") /\ May("lost", MaxLost) /\ Used("lost")
  /\ Accepted(c) /\ Receive(c) /\ Raise(c)
  /\ UNCHANGED event

\* The platform refuses a text because of a link: it is sent again without.
UrlRefused(c) ==
  /\ At(c, "flight") /\ c \in Official /\ May("fail", MaxFail) /\ Used("fail")
  /\ Remember(c, FALSE)
  /\ IF call[c].next = 0 /\ ~call[c].bare
       THEN call' = [call EXCEPT ![c].pc = "part", ![c].bare = TRUE] /\ UNCHANGED lock
       ELSE Raise(c)
  /\ UNCHANGED <<got, taken>>

\* Twice the part waits and is sent again.
RateLimited(c) ==
  /\ At(c, "flight") /\ c \in Official /\ May("fail", MaxFail) /\ Used("fail")
  /\ Remember(c, FALSE)
  /\ IF call[c].retries < 2
       THEN call' = [call EXCEPT ![c].pc = "part", ![c].retries = @ + 1] /\ UNCHANGED lock
       ELSE Raise(c)
  /\ UNCHANGED <<got, taken>>

\* Any other error: what became of the part is unknown.
Refused(c) ==
  /\ At(c, "flight") /\ (May("fail", MaxFail) \/ ~Accepted(c)) /\ Raise(c)
  /\ spent' = [spent EXCEPT !.fail = Min({MaxFail, @ + 1}), 
                             !.unknown = IF c \in Reply THEN @ + 1 ELSE @]
  /\ UNCHANGED <<event, got, taken>>

\* on_part_sent
Marked(c) ==
  /\ At(c, "mark") /\ Goto(c, IF c \in OneBot THEN "done" ELSE "part")
  /\ UNCHANGED <<lock, event, got, taken, spent>>

\* Mutation of MarkFailed: the next bot is asked.
MarkFailedGoesOn(c) ==
  /\ At(c, "mark") /\ May("cut", MaxCut) /\ Used("cut")
  /\ call' = [call EXCEPT ![c].pc = "part", ![c].next = @ - 1]
  /\ UNCHANGED <<lock, event, got, taken>>

\* The checkpoint raised: no other bot is asked.
MarkFailed(c) ==
  /\ At(c, "mark") /\ May("cut", MaxCut) /\ Used("cut")
  /\ Goto(c, "idle") /\ Unlock(c)
  /\ UNCHANGED <<event, got, taken>>

\* Another handler replies to the event by itself.
Elsewhere ==
  /\ May("other", MaxOther) /\ Used("other")
  /\ event' = [event EXCEPT !.seq = @ + 1]
  /\ taken' = Min({Limit, taken + 1})
  /\ UNCHANGED <<call, lock, got>>

CallNext(c) == Start(c) \/ Acquire(c) \/ Part(c) \/ Built(c) \/ Sent(c) \/ Marked(c)

Next ==
  \/ \E c \in Call :
       \/ CallNext(c)
       \/ BuildFailed(c) \/ Cancelled(c) \/ Lost(c) \/ UrlRefused(c) \/ RateLimited(c)
       \/ Refused(c) \/ MarkFailed(c)
  \/ Elsewhere

Spec == Init /\ [][Next]_vars

-----------------------------------------------------------------------------
(* Properties *)

\* A message arrives part after part, each once unless a receipt was lost, although
\* bots fail over, parts are refused, checkpoints raise and calls are repeated; a call
\* that returns has sent it all.
InOneGo ==
  \A c \in Call : \A p \in 1 .. Size(c) :
    /\ got[c][p] <= 1 + spent.lost
    /\ p > 1 /\ got[c][p] > 0 => got[c][p - 1] > 0
    /\ At(c, "done") => got[c][p] > 0

\* The budget of an event is neither exceeded nor wasted: with no reply from elsewhere
\* the platform is asked only while it accepts replies, and a reply is given up only
\* when all were used, counting those whose outcome is unknown.
Budget ==
  /\ \A c \in Reply : At(c, "flight") /\ spent.other = 0 => taken < Limit
  /\ \A c \in Reply : At(c, "refused") =>
       taken + spent.unknown + spent.other >= Limit

=============================================================================
