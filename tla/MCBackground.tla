---------------------------- MODULE MCBackground ----------------------------
(***************************************************************************)
(* Four components that share no state, one of them in each behaviour: the *)
(* others stay in an initial state, in which nothing of them is pending.   *)
(***************************************************************************)
EXTENDS Background, Integers, Sequences, FiniteSets

VARIABLES
  part,
  chat, cache, row, write, chatSpent \* OfficialSessions

Sessions == INSTANCE OfficialSessions WITH
  None <- Nobody, Event <- {"e1", "e2", "e3"}, Names <- {"n1", "n2"}, Unnamed <- "unnamed",
  MaxLeave <- 2, MaxName <- 1, MaxFail <- 1, spent <- chatSpent

MCOrders == {<<>>, <<1, 2, 3>>, <<3, 1, 2>>, <<3, 1>>}

danmakuVars  == <<client, reg, epoch, worker, main, on, session, clientSpent>>
pollVars     == <<config, running, starting, index, job, check, change, turns, reordered, missed,
                  jobSpent>>
sessionsVars == <<chat, cache, row, write, chatSpent>>
shotsVars    == <<context, owned, alive, task, queue, lock, crashed, started, shotSpent>>
vars == <<part, danmakuVars, pollVars, sessionsVars, shotsVars>>

\* The poll job either with changes of the settings or with a manual check beside one of them.
Polls == part \in {"poll", "asked"}

Init ==
  /\ Danmaku!Init /\ Poll!Init /\ Sessions!Init /\ Shots!Init
  /\ part \in {"danmaku", "poll", "asked", "sessions", "shots"}
  /\ part # "danmaku"  => ~on.ws
  /\ ~Polls            => config = CHOOSE c \in Poll!Settings : TRUE
  /\ Polls             => config.interval = CHOOSE i \in Intervals : TRUE
  /\ part # "sessions" => chat.name = "n1"

Next ==
  \/ /\ part = "danmaku" /\ Danmaku!Next
     /\ UNCHANGED <<part, pollVars, sessionsVars, shotsVars>>
  \/ /\ Polls /\ Poll!Next
     /\ IF part = "poll" THEN jobSpent'.ask = 0 ELSE jobSpent'.edit <= 1 /\ jobSpent'.off = 0 /\ jobSpent'.fail = 0
     /\ UNCHANGED <<part, danmakuVars, sessionsVars, shotsVars>>
  \/ /\ part = "sessions" /\ Sessions!Next
     /\ UNCHANGED <<part, danmakuVars, pollVars, shotsVars>>
  \/ /\ part = "shots" /\ Shots!Next
     /\ UNCHANGED <<part, danmakuVars, pollVars, sessionsVars>>

\* What the modules hold to be fair, of the component that runs.
Fairness ==
  /\ \A c \in {1, 2} :
       /\ WF_danmakuVars(part = "danmaku" /\ Danmaku!StopNext(c))
       /\ WF_danmakuVars(part = "danmaku" /\ Danmaku!StartNext(c))
       /\ WF_danmakuVars(part = "danmaku" /\ Danmaku!HeartbeatFailed(c))
       /\ WF_danmakuVars(part = "danmaku" /\ Danmaku!MessagesFailed(c))
       /\ WF_danmakuVars(part = "danmaku" /\ Danmaku!Reconnect(c))
  /\ \A t \in {"t1", "t2"} : WF_danmakuVars(part = "danmaku" /\ Danmaku!TaskNext(t))
  /\ WF_danmakuVars(part = "danmaku" /\ (Danmaku!Gathered \/ Danmaku!Stopped))
  \* ... whether a manual check is asked for or not: no bound occurs in what is fair
  /\ \A t \in {1, 2, 3} : WF_pollVars(Polls /\ Poll!Answer("tick", t))
  /\ WF_pollVars(Polls /\ Poll!Tick)
  /\ WF_pollVars(Polls /\ Poll!Started)
  /\ WF_pollVars(Polls /\ Poll!Reloaded)
  /\ WF_pollVars(Polls /\ Poll!ReloadStop)
  /\ WF_pollVars(Polls /\ Poll!Recount)
  /\ WF_pollVars(Polls /\ Poll!Return("tick"))
  /\ \A e \in {"e1", "e2", "e3"} : WF_sessionsVars(part = "sessions" /\ Sessions!Commit(e))
  /\ WF_sessionsVars(part = "sessions" /\ Sessions!Expire)
  /\ SF_sessionsVars(part = "sessions" /\ Sessions!Talk)
  /\ \A t \in {"p1", "p2", "s1", "s2"} : WF_shotsVars(part = "shots" /\ Shots!Step(t))

Spec == Init /\ [][Next]_vars /\ Fairness

-----------------------------------------------------------------------------
(* Properties, beside the promises of Background *)

\* A registered danmaku client is connected again and again, and stop() ends; every target
\* of a running monitor is checked again and again; a chat in which the bot stays is listed
\* in the end, under its name if it has one; every use of the screenshot service ends.
Recovers == Danmaku!Recovers /\ Poll!Served /\ Sessions!Listed /\ Shots!Ends
=============================================================================
