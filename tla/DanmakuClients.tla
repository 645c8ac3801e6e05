--------------------------- MODULE DanmakuClients ---------------------------
(***************************************************************************)
(* plugins/live_monitor/danmaku_client.py and the part of live_monitor.py  *)
(* that keeps the clients: the websocket clients of one room, which are    *)
(* started, replaced and stopped while they connect and reconnect.  A step *)
(* is the code between two awaits.                                         *)
(***************************************************************************)
EXTENDS Integers, FiniteSets, FiniteSetsExt

CONSTANTS
  Clients,  \* 1 .. n: the clients in the order of their creation
  Tasks,    \* background tasks of the monitor (_reload_tasks)
  Hosts,    \* length of host_list
  None,
  MaxFail, MaxDrop, MaxOp \* bounds: failed attempts to connect, lost connections, changes
            \* of the settings

VARIABLES
  client, \* the clients: _running, start() or stop() under way, tasks and socket
  reg,    \* _danmaku_clients of the room
  epoch,  \* _danmaku_client_epoch of the room
  task,   \* _start_single_danmaku_client, _restart_single_danmaku_client
  main,   \* start, stop and reload of the monitor, which exclude each other
  on,     \* what they set: is_running, use_websocket, the room is configured
  session, \* _ws_session is open
  spent

vars == <<client, reg, epoch, task, main, on, session, spent>>

Blank == [made |-> FALSE, running |-> FALSE, start |-> FALSE, conn |-> "none", host |-> 0,
          hb |-> FALSE, msg |-> FALSE, rec |-> "none", ws |-> "none", stop |-> "no",
          late |-> FALSE]

Init ==
  /\ client = [c \in Clients |-> Blank]
  /\ reg = None /\ epoch = 0
  /\ task = [t \in Tasks |-> [pc |-> "idle", kind |-> "start", old |-> None, new |-> None,
                              epoch |-> 0]]
  /\ main = [pc |-> "idle", wait |-> None, kind |-> "none"]
  /\ on \in [monitor : {FALSE}, ws : BOOLEAN, room : {TRUE}]
  /\ session = FALSE
  /\ spent = [fail |-> 0, drop |-> 0, op |-> 0]

May(f, max) == spent[f] < max
Used(f)     == spent' = [spent EXCEPT ![f] = @ + 1]
Set(c, f, v) == client' = [client EXCEPT ![c][f] = v]

-----------------------------------------------------------------------------
(* DanmakuClient.stop *)

\* The record of a client after the first step of stop().
StopBegun(r) ==
  IF r.running THEN [r EXCEPT !.running = FALSE, !.hb = FALSE, !.stop = "msg", !.late = r.start]
  ELSE r
Stopping(c) == client[c].stop \in {"msg", "rec", "close"}

StopMessages(c) ==
  /\ client[c].stop = "msg"
  /\ client' = [client EXCEPT ![c].msg = FALSE, ![c].stop = "rec"]
  /\ UNCHANGED <<reg, epoch, task, main, on, session, spent>>

\* Mutation of StopReconnect: the reconnect task is left to itself.
StopReconnectNot(c) ==
  /\ client[c].stop = "rec"
  /\ Set(c, "stop", "close")
  /\ UNCHANGED <<reg, epoch, task, main, on, session, spent>>

\* The reconnect task is cancelled and awaited; while it awaits the two loops that it has
\* cancelled itself, it does not notice.
StopReconnect(c) ==
  /\ client[c].stop = "rec"
  /\ client[c].rec # "io" \/ client[c].hb \/ client[c].msg
  /\ client' = IF client[c].rec = "none" THEN [client EXCEPT ![c].stop = "close"]
               ELSE IF client[c].rec = "io" THEN [client EXCEPT ![c].rec = "close",
                                                  ![c].hb = FALSE, ![c].msg = FALSE]
               ELSE [client EXCEPT ![c].rec = "none", ![c].conn = "none"]
  /\ UNCHANGED <<reg, epoch, task, main, on, session, spent>>

StopClose(c) ==
  /\ client[c].stop = "close"
  /\ client' = [client EXCEPT ![c].stop = "done",
                              ![c].ws = IF @ = "open" THEN "closed" ELSE @]
  /\ UNCHANGED <<reg, epoch, task, main, on, session, spent>>

-----------------------------------------------------------------------------
(* A background task: the start of a client, or its replacement *)

\* _should_connect_danmaku
Should == on.monitor /\ on.ws /\ on.room

\* Clients not used yet.
Fresh == {c \in Clients : ~client[c].made}

Begin(t) ==
  /\ task[t].pc = "gate"
  /\ IF ~Should \/ (task[t].kind = "start" /\ reg # None)
       THEN /\ task' = [task EXCEPT ![t].pc = "idle"]
            /\ UNCHANGED <<client, reg, epoch>>
       ELSE /\ Fresh # {}
            /\ LET c == Min(Fresh)
               IN /\ client' = [client EXCEPT ![c] = [Blank EXCEPT !.made = TRUE,
                                  !.running = TRUE, !.start = TRUE, !.conn = "info"]]
                  /\ reg' = c /\ epoch' = epoch + 1
                  /\ task' = [task EXCEPT ![t].pc = "start", ![t].new = c, ![t].old = reg,
                                          ![t].epoch = epoch + 1]
  /\ UNCHANGED <<main, on, session, spent>>

\* start() has returned: the old client is stopped.
Started(t, cl) ==
  LET old == task[t].old
  IN /\ task' = [task EXCEPT ![t].pc = IF old = None THEN "idle" ELSE "stop"]
     /\ client' = IF old = None THEN cl ELSE [cl EXCEPT ![old] = StopBegun(@)]
     /\ UNCHANGED <<reg, epoch>>

\* start() has raised: its registration is taken back, and the old one restored.
StartFailed(t, cl) ==
  /\ task' = [task EXCEPT ![t].pc = "idle"]
  /\ client' = cl
  /\ reg' = IF task[t].old # None THEN task[t].old
            ELSE IF epoch = task[t].epoch /\ reg = task[t].new THEN None ELSE reg
  /\ UNCHANGED epoch

TaskEnd(t) ==
  /\ task[t].pc = "stop" /\ ~Stopping(task[t].old)
  /\ task' = [task EXCEPT ![t].pc = "idle"]
  /\ UNCHANGED <<client, reg, epoch, main, on, session, spent>>

-----------------------------------------------------------------------------
(* _connect, of start() or of the reconnect task *)

Starter(c) == {t \in Tasks : task[t].pc = "start" /\ task[t].new = c}

Info(c) ==
  /\ client[c].conn = "info"
  /\ client' = [client EXCEPT ![c].conn = "dial", ![c].host = 0]
  /\ UNCHANGED <<reg, epoch, task, main, on, session, spent>>

Dial(c) ==
  /\ client[c].conn = "dial" /\ session
  /\ client' = [client EXCEPT ![c].conn = "auth", ![c].ws = "open"]
  /\ UNCHANGED <<reg, epoch, task, main, on, session, spent>>

\* The server accepts the token: the two loops are started.
Accepted(c) ==
  /\ client[c].conn = "auth" /\ client[c].ws = "open"
  /\ LET loops == [client[c] EXCEPT !.conn = "none", !.rec = "none", !.start = FALSE,
                                    !.hb = client[c].running, !.msg = client[c].running]
     IN IF client[c].start
          THEN \E t \in Starter(c) : Started(t, [client EXCEPT ![c] = loops])
          ELSE client' = [client EXCEPT ![c] = loops] /\ UNCHANGED <<task, reg, epoch>>
  /\ UNCHANGED <<main, on, session, spent>>

\* Mutation of Failed: the reconnect task ends.
FailedForGood(r) == [r EXCEPT !.conn = "none", !.start = FALSE, !.running = @ /\ ~r.start,
                              !.rec = "none"]

\* The last host was tried: start() raises; the reconnect task tries again after a while.
Failed(r) == [r EXCEPT !.conn = "none", !.start = FALSE, !.running = @ /\ ~r.start,
                       !.rec = IF r.start THEN @ ELSE "new"]

\* No connection, or no positive answer: the next host is tried.
Refused(c) ==
  /\ client[c].conn \in {"dial", "auth"}
  /\ IF session /\ (client[c].conn = "auth" => client[c].ws = "open")
       THEN May("fail", MaxFail) /\ Used("fail") ELSE UNCHANGED spent
  /\ LET closed == IF client[c].conn = "auth" THEN "closed" ELSE client[c].ws
         next == [client[c] EXCEPT !.ws = closed, !.host = @ + 1, !.conn = "dial"]
     IN IF next.host < Hosts THEN client' = [client EXCEPT ![c] = next] /\ UNCHANGED <<task, reg, epoch>>
        ELSE IF client[c].start
          THEN \E t \in Starter(c) : StartFailed(t, [client EXCEPT ![c] = Failed(next)])
        ELSE client' = [client EXCEPT ![c] = Failed(next)] /\ UNCHANGED <<task, reg, epoch>>
  /\ UNCHANGED <<main, on, session>>

-----------------------------------------------------------------------------
(* The loops and the reconnect task *)

\* The server closes the connection, or it breaks.
Drop(c) ==
  /\ client[c].ws = "open" /\ May("drop", MaxDrop) /\ Used("drop")
  /\ Set(c, "ws", "dead")
  /\ UNCHANGED <<reg, epoch, task, main, on, session>>

\* schedule_reconnect: one task at a time.
Scheduled(r) == IF r.running /\ r.rec = "none" THEN [r EXCEPT !.rec = "new"] ELSE r

HeartbeatFailed(c) ==
  /\ client[c].hb /\ client[c].ws # "open"
  /\ client' = [client EXCEPT ![c] = Scheduled([@ EXCEPT !.hb = FALSE])]
  /\ UNCHANGED <<reg, epoch, task, main, on, session, spent>>

MessagesFailed(c) ==
  /\ client[c].msg /\ client[c].ws # "open"
  /\ client' = [client EXCEPT ![c] = Scheduled([@ EXCEPT !.msg = FALSE])]
  /\ UNCHANGED <<reg, epoch, task, main, on, session, spent>>

\* _reconnect: the loops are cancelled and awaited, the socket is closed, and after the
\* delay it connects again, as long as the client runs.
Reconnect(c) ==
  LET r == client[c]
  IN /\ client' = [client EXCEPT ![c] =
           CASE r.rec = "new"   -> [r EXCEPT !.rec = IF r.running THEN "io" ELSE "none"]
             [] r.rec = "io"    -> [r EXCEPT !.rec = "close", !.hb = FALSE, !.msg = FALSE]
             [] r.rec = "close" -> [r EXCEPT !.rec = "sleep", !.ws = IF @ = "open" THEN "closed" ELSE @]
             [] OTHER           -> IF r.running THEN [r EXCEPT !.rec = "connect", !.conn = "info"]
                                   ELSE [r EXCEPT !.rec = "none"]]
     /\ r.rec \in {"new", "io", "close", "sleep"}
     /\ UNCHANGED <<reg, epoch, task, main, on, session, spent>>

-----------------------------------------------------------------------------
(* start, stop and reload of the monitor, one at a time *)

Idle == main.pc = "idle" /\ May("op", MaxOp) /\ Used("op")
\* A background task is spawned.
Spawn(kind) ==
  \E t \in Tasks :
    /\ task[t].pc = "idle"
    /\ task' = [task EXCEPT ![t].pc = "gate", ![t].kind = kind, ![t].old = None]

StartMonitor ==
  /\ ~on.monitor /\ Idle
  /\ on' = [on EXCEPT !.monitor = TRUE] /\ session' = TRUE
  /\ IF on.ws THEN Spawn("start") ELSE UNCHANGED task
  /\ UNCHANGED <<client, reg, epoch, main>>

\* The cookie of the account is changed.
NewCookie ==
  /\ Should /\ Idle
  /\ Spawn("restart")
  /\ UNCHANGED <<client, reg, epoch, main, on, session>>

\* The registered client, if any, is stopped; then main goes on with the rest.
StopRegistered(kind) ==
  /\ main' = [pc |-> "stopping", wait |-> reg, kind |-> kind]
  /\ client' = IF reg = None THEN client ELSE [client EXCEPT ![reg] = StopBegun(@)]

\* The room is taken out of the settings, or put back: a client that is left is stopped.
ToggleRoom ==
  /\ on.monitor /\ Idle
  /\ on' = [on EXCEPT !.room = ~@]
  /\ StopRegistered(IF on.room THEN "remove" ELSE "add") /\ reg' = None
  /\ UNCHANGED <<epoch, task, session>>

ToggleWebsocket ==
  /\ on.monitor /\ Idle
  /\ on' = [on EXCEPT !.ws = ~@]
  /\ IF on.ws THEN StopRegistered("off") /\ UNCHANGED task
     ELSE Spawn("start") /\ UNCHANGED <<client, main>>
  /\ UNCHANGED <<reg, epoch, session>>

\* stop_monitoring: the background tasks are cancelled first; a start() that is cut off
\* leaves its client running, and a replacement restores the old one.
StopMonitor ==
  /\ on.monitor /\ Idle
  /\ on' = [on EXCEPT !.monitor = FALSE]
  /\ LET cut == {t \in Tasks : task[t].pc \in {"gate", "start"}}
         new == {task[t].new : t \in {u \in cut : task[u].pc = "start"}}
         old == {task[t].old : t \in {u \in cut : task[u].pc = "start"}} \ {None}
     IN /\ task' = [t \in Tasks |-> IF t \in cut THEN [task[t] EXCEPT !.pc = "idle"] ELSE task[t]]
        /\ client' = [c \in Clients |-> IF c \in new
                        THEN [client[c] EXCEPT !.conn = "none", !.start = FALSE] ELSE client[c]]
        /\ reg' \in IF old = {} THEN {reg} ELSE old
  /\ main' = [pc |-> "gather", wait |-> None, kind |-> "stop"]
  /\ UNCHANGED <<epoch, session>>

Gathered ==
  /\ main.pc = "gather" /\ \A t \in Tasks : task[t].pc = "idle"
  /\ StopRegistered("stop")
  /\ UNCHANGED <<reg, epoch, task, on, session, spent>>

\* The client was stopped.
Stopped ==
  /\ main.pc = "stopping" /\ (main.wait # None => ~Stopping(main.wait))
  /\ main' = [main EXCEPT !.pc = "idle"]
  /\ IF main.kind = "add" THEN UNCHANGED epoch ELSE epoch' = 0
  /\ reg' = IF main.kind \in {"off", "stop"} THEN None ELSE reg
  /\ IF main.kind = "add" /\ on.ws THEN Spawn("start") ELSE UNCHANGED task
  /\ IF main.kind = "stop"
       THEN /\ session' = FALSE
            /\ client' = [c \in Clients |-> [client[c] EXCEPT !.ws =
                            IF @ = "open" THEN "closed" ELSE @]]
       ELSE UNCHANGED <<client, session>>
  /\ UNCHANGED <<on, spent>>

StopNext(c)  == StopMessages(c) \/ StopReconnect(c) \/ StopClose(c)
StartNext(c) == Info(c) \/ Dial(c) \/ Accepted(c) \/ Refused(c)
TaskNext(t)  == Begin(t) \/ TaskEnd(t)
MainNext     == StartMonitor \/ NewCookie \/ ToggleRoom \/ ToggleWebsocket \/ StopMonitor

Next ==
  \/ \E c \in Clients :
       \/ StopNext(c) \/ StartNext(c)
       \/ HeartbeatFailed(c) \/ MessagesFailed(c) \/ Reconnect(c) \/ Drop(c)
  \/ \E t \in Tasks : TaskNext(t)
  \/ MainNext \/ Gathered \/ Stopped

Fairness ==
  /\ \A c \in Clients :
       /\ WF_vars(StopNext(c)) /\ WF_vars(StartNext(c))
       /\ WF_vars(HeartbeatFailed(c)) /\ WF_vars(MessagesFailed(c)) /\ WF_vars(Reconnect(c))
  /\ \A t \in Tasks : WF_vars(TaskNext(t))
  /\ WF_vars(Gathered \/ Stopped)

Spec == Init /\ [][Next]_vars /\ Fairness

-----------------------------------------------------------------------------
(* Properties *)

\* stop() leaves nothing behind - no loop, no reconnect, no socket - unless it came while
\* start() was connecting.
Closed ==
  \A c \in Clients : client[c].stop = "done" /\ ~client[c].late =>
    /\ ~client[c].hb /\ ~client[c].msg /\ client[c].rec = "none" /\ client[c].conn = "none"
    /\ client[c].ws # "open"

\* A client that is registered and whose start() has succeeded is connected again, however
\* its loops failed, until it is stopped or replaced; and stop() ends.
Listening(c) == client[c].hb /\ client[c].msg /\ client[c].ws = "open"
Recovers ==
  []<>(\A c \in Clients :
         ~Stopping(c) /\ (reg = c /\ client[c].running => Listening(c)))
=============================================================================
