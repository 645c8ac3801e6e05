----------------------------- MODULE Screenshot -----------------------------
(***************************************************************************)
(* The browser that the dynamic monitor and the link parser share: pages   *)
(* open in few slots, a dead browser is started again by the capture that  *)
(* finds it dead, and who starts or closes the service takes all slots     *)
(* first.  A step is the code between two awaits.                          *)
(***************************************************************************)
EXTENDS Integers, Sequences, FiniteSets

CONSTANTS
  Capture,  \* callers of get_dynamic_screenshot
  Service,  \* callers of init_screenshot_service, close_screenshot_service
  Slots,    \* _SCREENSHOT_CONCURRENCY
  None,
  MaxAsk, MaxCrash, MaxFail \* bounds: calls of each caller, crashes, launches that fail

VARIABLES
  context,  \* browser_context
  owned,    \* _browser_resources: the browser that they close
  alive,    \* browsers that run
  task,     \* the callers
  queue,    \* of _screenshot_semaphore
  lock,     \* _init_lock, _close_lock, _lifecycle_lock: the holder
  crashed,  \* history: browsers that were killed
  started, spent

vars == <<context, owned, alive, task, queue, lock, crashed, started, spent>>

Task == Capture \cup Service
Idle == [pc |-> "idle", held |-> 0, on |-> None, action |-> None]

Init ==
  /\ context = None /\ owned = None /\ alive = {} /\ crashed = {} /\ started = 0
  /\ task = [t \in Task |-> Idle] /\ queue = <<>>
  /\ lock = [l \in {"init", "close", "life"} |-> None]
  /\ spent = [ask |-> [t \in Task |-> 0], crash |-> 0, fail |-> 0]

At(t, pc) == task[t].pc = pc
Go(t, pc) == task' = [task EXCEPT ![t].pc = pc]
\* get_dynamic_screenshot: a page on the browser of now.
OpenPage(t, browser) == task' = [task EXCEPT ![t].pc = "page", ![t].on = browser]
\* The slots that the callers hold.
Held      == {h \in Task \X (1 .. Slots) : h[2] <= task[h[1]].held}
Taken     == Cardinality(Held)
browser_alive == context # None /\ context \in alive
Free(l)     == lock[l] = None
Acquire(l, t) == lock' = [lock EXCEPT ![l] = t]

-----------------------------------------------------------------------------
(* The slots *)

Asked(t) ==
  /\ At(t, "idle") /\ spent.ask[t] < MaxAsk
  /\ spent' = [spent EXCEPT !.ask[t] = @ + 1]

Ask(t) ==
  /\ t \in Capture /\ Asked(t)
  /\ Go(t, "slot") /\ queue' = Append(queue, t)
  /\ UNCHANGED <<context, owned, alive, lock, crashed, started>>

\* init_screenshot_service, close_screenshot_service: one of them at a time takes slots.
CloseLock(t) == Free("close") /\ Acquire("close", t)

Serve(t, action) ==
  /\ t \in Service /\ Asked(t)
  /\ task' = [task EXCEPT ![t] = [Idle EXCEPT !.pc = "closelock", !.action = action]]
  /\ UNCHANGED <<context, owned, alive, queue, lock, crashed, started>>

Alone(t) ==
  /\ At(t, "closelock") /\ CloseLock(t)
  /\ Go(t, "slot") /\ queue' = Append(queue, t)
  /\ UNCHANGED <<context, owned, alive, crashed, started, spent>>

\* _with_all_slots
Needs(t) == IF t \in Service THEN Slots ELSE 1

\* The semaphore is fair.  With its slots, a caller looks at the browser.
Slot(t) ==
  /\ At(t, "slot") /\ queue # <<>> /\ Head(queue) = t /\ Taken < Slots
  /\ LET all == task[t].held + 1 = Needs(t)
     IN /\ queue' = IF all THEN Tail(queue) ELSE Append(Tail(queue), t)
        /\ task' = [task EXCEPT ![t].held = @ + 1, ![t].on = context,
                      ![t].pc = IF ~all THEN "slot" ELSE IF t \in Service THEN "life"
                                ELSE IF browser_alive THEN "page" ELSE "init"]
  /\ UNCHANGED <<context, owned, alive, lock, crashed, started, spent>>

Leave(t) ==
  /\ task' = [task EXCEPT ![t] = Idle]
  /\ lock' = [l \in DOMAIN lock |-> IF lock[l] = t THEN None ELSE lock[l]]

-----------------------------------------------------------------------------
(* The browser *)

\* Mutation of StillDead: the capture does not look again.
StillDeadAssumed == TRUE

StillDead == ~browser_alive

\* The capture that gets the lock looks again.
InitLock(t) ==
  /\ At(t, "init") /\ Free("init")
  /\ IF StillDead THEN Acquire("init", t) /\ Go(t, "life")
                  ELSE OpenPage(t, context) /\ UNCHANGED lock
  /\ UNCHANGED <<context, owned, alive, queue, crashed, started, spent>>

\* init_browser, close_browser
Life(t) ==
  /\ At(t, "life") /\ Free("life") /\ Acquire("life", t)
  /\ context' = None /\ Go(t, "aclose")
  /\ UNCHANGED <<owned, alive, queue, crashed, started, spent>>

Closed(t) ==
  /\ At(t, "aclose")
  /\ alive' = alive \ {owned} /\ owned' = None
  /\ IF task[t].action = "close" THEN Leave(t) ELSE Go(t, "launch") /\ UNCHANGED lock
  /\ UNCHANGED <<context, queue, crashed, started, spent>>

\* A capture goes on; a launch that fails has released what it had started.
Launched(t, ok) ==
  /\ At(t, "launch")
  /\ IF ok
       THEN /\ started' = started + 1
            /\ context' = started' /\ owned' = started' /\ alive' = alive \cup {started'}
            /\ UNCHANGED spent
       ELSE /\ spent.fail < MaxFail /\ spent' = [spent EXCEPT !.fail = @ + 1]
            /\ UNCHANGED <<started, context, owned, alive>>
  /\ IF t \in Capture /\ ok
       THEN /\ OpenPage(t, started')
            /\ lock' = [lock EXCEPT !["init"] = None, !["life"] = None]
       ELSE Leave(t)
  /\ UNCHANGED <<queue, crashed>>

\* The page is closed, whatever it gave.
Shot(t) ==
  /\ At(t, "page") /\ Leave(t)
  /\ UNCHANGED <<context, owned, alive, queue, crashed, started, spent>>

\* The system kills the browser.
Crash ==
  /\ \E b \in alive : alive' = alive \ {b} /\ crashed' = crashed \cup {b}
  /\ spent.crash < MaxCrash /\ spent' = [spent EXCEPT !.crash = @ + 1]
  /\ UNCHANGED <<context, owned, task, queue, lock, started>>

Step(t) ==
  \/ Alone(t) \/ Slot(t) \/ InitLock(t) \/ Life(t) \/ Closed(t) \/ Launched(t, TRUE)
  \/ Shot(t)

Next ==
  \/ \E t \in Task : Ask(t) \/ Step(t) \/ Launched(t, FALSE)
  \/ \E t \in Task, action \in {"init", "close"} : Serve(t, action)
  \/ Crash

\* Playwright answers or times out.
Fairness == \A t \in Task : WF_vars(Step(t))

Spec == Init /\ [][Next]_vars /\ Fairness

-----------------------------------------------------------------------------
(* Properties *)

\* Nobody closes or replaces a browser under a page of another capture, one browser runs
\* at a time, and none that runs is forgotten.
Undisturbed ==
  /\ \A t \in Capture : At(t, "page") => task[t].on \in alive \cup crashed
  /\ alive \subseteq {owned}

\* Every call ends: those who take all slots do not wait for each other's.
Ends == \A t \in Task : []<>At(t, "idle")
=============================================================================
