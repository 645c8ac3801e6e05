---------------------------- MODULE DouyinLogin ----------------------------
(***************************************************************************)
(* The login at Douyin by QR code: each session is a Chromium on the       *)
(* server, which tabs of the admin page start, refresh and poll, and which *)
(* a deferred close ends when its request was cut off (Claimed says which  *)
(* sessions may be left behind).  What the code does under _lock is one    *)
(* step; the requests of a tab arrive in the order they were sent, and a   *)
(* request that was cut off is cancelled at any await, or never.           *)
(***************************************************************************)
EXTENDS Integers, Sequences, FiniteSets

CONSTANTS
  Tab,
  None,
  MaxAsk, MaxFail, MaxGone \* bounds: requests, refreshes and starts that fail, tabs that vanish

VARIABLES
  session, \* _sessions and _deferred_close_tasks, by creation
  tab,     \* DouyinQrLogin.tsx: what it waits for, and sessionRef
  req,     \* requests, in the order they were sent
  killed,  \* history: a deferred close ended a session that was in use
  stray,   \* history: a refresh was cancelled while it waited for the poll
  spent

vars == <<session, tab, req, killed, stray, spent>>

Sessions == DOMAIN session
Requests == DOMAIN req

Init ==
  /\ session = <<>> /\ req = <<>> /\ killed = FALSE /\ stray = FALSE
  /\ tab = [t \in Tab |-> [pc |-> "idle", sid |-> None]]
  /\ spent = [fail |-> 0, gone |-> 0]

\* A request is sent; the poll before it is aborted.
Request(t, kind, sid) ==
  Append([i \in Requests |->
            IF req[i].tab = t /\ req[i].kind = "poll" THEN [req[i] EXCEPT !.cut = TRUE] ELSE req[i]],
         [tab |-> t, kind |-> kind, sid |-> sid, pc |-> "new", epoch |-> 0, ticket |-> 0, cut |-> FALSE])

May(kind) == Len(req) < MaxAsk

Busy(s)  == \E i \in Requests : req[i].sid = s /\ req[i].pc # "done"
InUse(s) == \E i \in Requests : req[i].sid = s /\ req[i].pc \in {"watch", "wait", "work"} /\ ~req[i].cut
Live(s)  == s \in Sessions /\ session[s].open

Closed(s) == [session EXCEPT ![s].open = FALSE, ![s].timer = None]

-----------------------------------------------------------------------------
(* The page *)

\* startLogin, refreshLogin, cancelLogin
Start(t) ==
  /\ tab[t].pc = "idle" /\ May("start")
  /\ req' = Request(t, "start", None)
  /\ tab' = [tab EXCEPT ![t].pc = "start"]
  /\ UNCHANGED <<session, killed, stray, spent>>

Refresh(t) ==
  /\ tab[t].pc = "poll" /\ May("refresh")
  /\ req' = Request(t, "refresh", tab[t].sid)
  /\ tab' = [tab EXCEPT ![t].pc = "refresh"]
  /\ UNCHANGED <<session, killed, stray, spent>>

\* A start that is given up is cancelled when its answer comes.
Cancel(t) ==
  /\ \/ /\ tab[t].pc \in {"poll", "refresh"} /\ May("cancel")
        /\ req' = Request(t, "cancel", tab[t].sid)
        /\ tab' = [tab EXCEPT ![t] = [pc |-> "idle", sid |-> None]]
     \/ /\ tab[t].pc = "start"
        /\ tab' = [tab EXCEPT ![t].pc = "leaving"] /\ UNCHANGED req
  /\ UNCHANGED <<session, killed, stray, spent>>

\* The tab is closed, or its connection lost.
Vanish(t) ==
  /\ tab[t].pc # "gone" /\ spent.gone < MaxGone
  /\ tab' = [tab EXCEPT ![t].pc = "gone"]
  /\ req' = [i \in Requests |-> IF req[i].tab = t THEN [req[i] EXCEPT !.cut = TRUE] ELSE req[i]]
  /\ spent' = [spent EXCEPT !.gone = @ + 1]
  /\ UNCHANGED <<session, killed, stray>>

-----------------------------------------------------------------------------
(* The server: start_qrcode_login *)

Arrives(i, kind) ==
  /\ req[i].kind = kind /\ req[i].pc = "new"
  /\ \A j \in 1 .. i - 1 : req[j].tab = req[i].tab => req[j].pc # "new"

\* Every other session is closed, then Chromium is launched.
Clear(i) ==
  /\ Arrives(i, "start")
  /\ session' = [s \in Sessions |-> [session[s] EXCEPT !.open = FALSE, !.timer = None]]
  /\ req' = [req EXCEPT ![i].pc = "launch"]
  /\ UNCHANGED <<tab, killed, stray, spent>>

\* The answer of a start or refresh: the tab polls, cancels, or is not there.
Answer(i, s) ==
  LET t    == req[i].tab
      done == [req EXCEPT ![i].pc = "done", ![i].sid = s]
      next(kind) == Append(done, [tab |-> t, kind |-> kind, sid |-> s, pc |-> "new",
                                  epoch |-> 0, ticket |-> 0, cut |-> FALSE])
  IN IF tab[t].pc = req[i].kind /\ ~req[i].cut
       THEN req' = next("poll") /\ tab' = [tab EXCEPT ![t] = [pc |-> "poll", sid |-> s]]
     ELSE IF tab[t].pc = "leaving" /\ req[i].kind = "start"
       THEN req' = next("cancel") /\ tab' = [tab EXCEPT ![t].pc = "idle"]
     ELSE req' = done /\ UNCHANGED tab

Heard(i) == tab[req[i].tab].pc \in {req[i].kind, "leaving"} /\ ~req[i].cut

Launched(i) ==
  /\ req[i].kind = "start" /\ req[i].pc = "launch"
  /\ session' = Append(session, [open |-> TRUE, epoch |-> 0, ticket |-> 0, active |-> FALSE,
                                 timer |-> None, unheard |-> ~Heard(i)])
  /\ Answer(i, Len(session'))
  /\ UNCHANGED <<killed, stray, spent>>

\* No code was found, or the request was cancelled: the stack of resources is closed.
NotLaunched(i) ==
  /\ req[i].kind = "start" /\ req[i].pc = "launch"
  /\ req[i].cut \/ spent.fail < MaxFail
  /\ req' = [req EXCEPT ![i].pc = "done"]
  /\ tab' = IF Heard(i) THEN [tab EXCEPT ![req[i].tab].pc = "idle"] ELSE tab
  /\ spent' = IF req[i].cut THEN spent ELSE [spent EXCEPT !.fail = @ + 1]
  /\ UNCHANGED <<session, killed, stray>>

-----------------------------------------------------------------------------
(* refresh_qrcode_login, poll_qrcode_login, close_qr_session *)

\* The tab's request ends with an error.
Failed(i) ==
  tab' = IF tab[req[i].tab].pc = req[i].kind /\ ~req[i].cut
           THEN [tab EXCEPT ![req[i].tab] = [pc |-> "idle", sid |-> None]] ELSE tab

\* Mutation of Claim: the deferred close goes on.
ClaimNot(s) == [session EXCEPT ![s].unheard = FALSE]

\* A request takes the session over: a deferred close of before is void.
Claim(s) == [session EXCEPT ![s].epoch = @ + 1, ![s].timer = None, ![s].unheard = FALSE]

\* A poll that is still at work is waited for.
RefreshBegin(i) ==
  /\ Arrives(i, "refresh")
  /\ IF Live(req[i].sid)
       THEN /\ session' = Claim(req[i].sid)
            /\ req' = [req EXCEPT ![i].pc = IF session[req[i].sid].active THEN "wait" ELSE "work",
                                  ![i].epoch = session[req[i].sid].epoch + 1]
            /\ UNCHANGED tab
       ELSE /\ req' = [req EXCEPT ![i].pc = "done"] /\ Failed(i) /\ UNCHANGED session
  /\ UNCHANGED <<killed, stray, spent>>

\* The poll has ended, or three seconds are over.
Waited(i) ==
  /\ req[i].pc = "wait"
  /\ req' = [req EXCEPT ![i].pc = "work", ![i].epoch = session[req[i].sid].epoch]
  /\ UNCHANGED <<session, tab, killed, stray, spent>>

\* Cancelled while it waits, nothing is scheduled.
WaitCancelled(i) ==
  /\ req[i].pc = "wait" /\ req[i].cut
  /\ req' = [req EXCEPT ![i].pc = "done"]
  /\ stray' = TRUE
  /\ UNCHANGED <<session, tab, killed, spent>>

Refreshed(i) ==
  /\ req[i].pc = "work" /\ Live(req[i].sid)
  /\ session' = [session EXCEPT ![req[i].sid].unheard = ~Heard(i)]
  /\ Answer(i, req[i].sid)
  /\ UNCHANGED <<killed, stray, spent>>

\* _schedule_deferred_close, if nobody has claimed the session meanwhile.
Schedule(s, epoch) ==
  IF Live(s) /\ session[s].epoch = epoch THEN [session EXCEPT ![s].timer = epoch] ELSE session

\* It failed, the session was closed, or it was cancelled.  The tab cancels after a failure.
NotRefreshed(i) ==
  LET s == req[i].sid
      t == req[i].tab
      heard == tab[t].pc = "refresh" /\ ~req[i].cut
  IN /\ req[i].pc = "work"
     /\ ~Live(s) \/ req[i].cut \/ spent.fail < MaxFail
     /\ session' = Schedule(s, req[i].epoch)
     /\ req' = LET done == [req EXCEPT ![i].pc = "done"]
               IN  IF heard THEN Append(done, [req[i] EXCEPT !.kind = "cancel", !.pc = "new"]) ELSE done
     /\ tab' = IF heard THEN [tab EXCEPT ![t] = [pc |-> "idle", sid |-> None]] ELSE tab
     /\ spent' = IF ~Live(s) \/ req[i].cut THEN spent ELSE [spent EXCEPT !.fail = @ + 1]
     /\ UNCHANGED <<killed, stray>>

PollBegin(i) ==
  /\ Arrives(i, "poll")
  /\ LET s == req[i].sid IN
     IF Live(s)
       THEN /\ session' = [Claim(s) EXCEPT ![s].ticket = @ + 1, ![s].active = TRUE]
            /\ req' = [req EXCEPT ![i].pc = "watch", ![i].epoch = session[s].epoch + 1,
                                  ![i].ticket = session[s].ticket + 1]
            /\ UNCHANGED tab
       ELSE req' = [req EXCEPT ![i].pc = "done"] /\ Failed(i) /\ UNCHANGED session
  /\ UNCHANGED <<killed, stray, spent>>

Inactive(base, i) ==
  IF base[req[i].sid].ticket = req[i].ticket THEN [base EXCEPT ![req[i].sid].active = FALSE] ELSE base

\* Logged in, timed out or failed: the session ends, whoever has it.
PollEnd(i) ==
  /\ req[i].pc = "watch"
  /\ session' = LET s == Inactive(session, i)
                IN  [s EXCEPT ![req[i].sid].open = FALSE, ![req[i].sid].timer = None]
  /\ req' = [req EXCEPT ![i].pc = "done"] /\ Failed(i)
  /\ UNCHANGED <<killed, stray, spent>>

PollCancelled(i) ==
  /\ req[i].pc = "watch" /\ req[i].cut
  /\ session' = Inactive(Schedule(req[i].sid, req[i].epoch), i)
  /\ req' = [req EXCEPT ![i].pc = "done"]
  /\ UNCHANGED <<tab, killed, stray, spent>>

CancelSession(i) ==
  /\ Arrives(i, "cancel")
  /\ session' = Closed(req[i].sid)
  /\ req' = [req EXCEPT ![i].pc = "done"]
  /\ UNCHANGED <<tab, killed, stray, spent>>

\* _deferred_close_session, after the delay, which is longer than a cancellation takes.
Fire(s) ==
  /\ Live(s) /\ session[s].timer # None
  /\ \A i \in Requests : req[i].sid = s /\ req[i].cut => req[i].pc = "done"
  /\ LET void == session[s].epoch # session[s].timer \/ session[s].active
     IN /\ session' = IF void THEN [session EXCEPT ![s].timer = None] ELSE Closed(s)
        /\ killed' = (killed \/ (~void /\ InUse(s)))
  /\ UNCHANGED <<tab, req, stray, spent>>

Next ==
  \/ \E t \in Tab : Start(t) \/ Refresh(t) \/ Cancel(t) \/ Vanish(t)
  \/ \E i \in Requests :
       \/ Clear(i) \/ Launched(i) \/ NotLaunched(i)
       \/ RefreshBegin(i) \/ Waited(i) \/ WaitCancelled(i) \/ Refreshed(i) \/ NotRefreshed(i)
       \/ PollBegin(i) \/ PollEnd(i) \/ PollCancelled(i) \/ CancelSession(i)
  \/ \E s \in Sessions : Fire(s)

Spec == Init /\ [][Next]_vars

-----------------------------------------------------------------------------
(* Properties *)

Orphan(s) == Live(s) /\ session[s].timer = None /\ ~Busy(s) /\ ~session[s].unheard

\* A deferred close ends no session that a refresh or a poll has taken over; and no
\* session is left behind that nobody will ask for and no deferred close will end, unless
\* its tab was gone before it was told of the session, or a refresh was cancelled while
\* it waited for the poll before it.
Claimed == ~killed /\ (~stray => \A s \in Sessions : ~Orphan(s))
=============================================================================
