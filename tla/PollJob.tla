------------------------------ MODULE PollJob ------------------------------
(***************************************************************************)
(* The poll job of the dynamic monitor and of the X monitor: one target    *)
(* per tick in turn, or all of them at once, a few at a time               *)
(* (shared/monitor); checks that an administrator asks for; and the        *)
(* changes of the job by start and stop, which the lifecycle lock keeps    *)
(* apart, and by reload, which does not take it.                           *)
(***************************************************************************)
EXTENDS Integers, Sequences, FiniteSets, SequencesExt

CONSTANTS
  Target,
  Orders,     \* orders in which the mapping may list targets
  Intervals,  \* of the settings: monitor_interval, in seconds
  MinTick,    \* DYNAMIC_MIN_TICK_INTERVAL_SECONDS
  Concurrent, \* DEFAULT_BATCH_CONCURRENCY
  None,
  MaxEdit, MaxOff, MaxFail, \* bounds: reloads, stops, reloads that raise,
  MaxAsk, MaxTurn           \* ... manual checks, and counted turns

VARIABLES
  config,    \* the mapping's keys in their order, use_stagger_poll, monitor_interval
  running,   \* is_running, of the instance there is
  starting,  \* its start awaits init_resources
  index,     \* _stagger_index
  job,       \* in the scheduler: its callback, its interval
  check,     \* the job's instance (max_instances=1) and a manual check
  change,    \* a reload between its awaits
  turns,     \* history: ticks for each target since the index or the list was set,
  reordered, \* ... and how often the list was put in another order since
  missed,    \* history: a reload raised before it registered the job for its settings
  spent

history == <<turns, reordered, missed>>
vars == <<config, running, starting, index, job, check, change, history, spent>>

Runner   == {"tick", "manual"}
NoCheck  == [todo |-> <<>>, busy |-> {}, on |-> FALSE]
Settings == [order : Orders, stagger : BOOLEAN, interval : Intervals]
Zero     == [t \in Target |-> 0]

Init ==
  /\ config \in Settings /\ running = FALSE /\ starting = FALSE /\ index = 0 /\ job = None
  /\ check = [r \in Runner |-> NoCheck]
  /\ change = [pc |-> "none"]
  /\ turns = Zero /\ reordered = 0 /\ missed = FALSE
  /\ spent = [edit |-> 0, off |-> 0, fail |-> 0, ask |-> 0]

Used(f) == spent' = [spent EXCEPT ![f] = @ + 1]

-----------------------------------------------------------------------------
(* compute_dynamic_poll_schedule, register_poll_job *)

\* The interval of a tick, times the number of targets: nothing is rounded here.
\* (tick_interval_seconds is rounded to 10 ms.)
Cycle(c) ==
  LET n == Len(c.order)
  IN  IF ~c.stagger THEN c.interval * n
      ELSE IF MinTick * n >= c.interval THEN MinTick * n ELSE c.interval

\* _schedule_poll_job: without a target, what is registered stays.
Schedule(c) ==
  IF c.order = <<>> THEN UNCHANGED <<job, missed>>
  ELSE /\ job' = [stagger |-> c.stagger, cycle |-> Cycle(c), of |-> Len(c.order)]
       /\ missed' = FALSE

\* The turns are counted from here on.
Anew == turns' = Zero /\ reordered' = 0

-----------------------------------------------------------------------------
(* Checks *)

\* run_with_concurrency: the next ones get the semaphore.
Fill(k) ==
  LET free == Concurrent - Cardinality(k.busy)
      n    == IF free < Len(k.todo) THEN free ELSE Len(k.todo)
  IN [k EXCEPT !.busy = @ \cup ToSet(SubSeq(k.todo, 1, n)), !.todo = SubSeq(@, n + 1, Len(@))]

Wrapped(n) == IF index >= n THEN 0 ELSE index

\* _check_next_target
TickNext ==
  LET ids == config.order
      i   == Wrapped(Len(ids))
  IN /\ i < Len(ids)
     /\ index' = (i + 1) % Len(ids)
     /\ check' = [check EXCEPT !["tick"] =
                    [todo |-> <<>>, busy |-> {ids[i + 1]}, on |-> TRUE]]
     /\ turns' = [turns EXCEPT ![ids[i + 1]] = @ + 1]

\* _check_all_targets
TickAll ==
  /\ check' = [check EXCEPT !["tick"] =
                 Fill([todo |-> config.order, busy |-> {}, on |-> TRUE])]
  /\ UNCHANGED <<index, turns>>

\* The trigger fires; while an instance is running it is skipped.
Tick ==
  /\ job # None /\ ~check["tick"].on /\ running /\ config.order # <<>>
  /\ \A t \in Target : turns[t] < MaxTurn
  /\ IF job.stagger THEN TickNext ELSE TickAll
  /\ UNCHANGED <<config, running, starting, job, change, reordered, missed, spent>>

\* run_manual_check: some or all targets, beside the job.
Ask ==
  /\ spent.ask < MaxAsk /\ Used("ask")
  /\ running /\ ~check["manual"].on /\ config.order # <<>>
  /\ check' = [check EXCEPT !["manual"] =
                 Fill([todo |-> config.order, busy |-> {}, on |-> TRUE])]
  /\ UNCHANGED <<config, running, starting, index, job, change, history>>

\* _check_target returns, or raises.
Answer(r, t) ==
  /\ t \in check[r].busy
  /\ check' = [check EXCEPT ![r] = Fill([@ EXCEPT !.busy = @ \ {t}])]
  /\ UNCHANGED <<config, running, starting, index, job, change, history, spent>>

\* All of them are checked.
Return(r) ==
  /\ check[r].on /\ check[r].busy = {}
  /\ check' = [check EXCEPT ![r] = NoCheck]
  /\ UNCHANGED <<config, running, starting, index, job, change, history, spent>>

-----------------------------------------------------------------------------
(* Start, stop, reload *)

\* start_monitoring of a new instance; init_resources is awaited.
Start ==
  /\ ~running /\ config.order # <<>>
  /\ running' = TRUE /\ starting' = TRUE
  /\ index' = 0 /\ Anew /\ missed' = FALSE
  /\ UNCHANGED <<config, job, check, change, spent>>

Started ==
  /\ starting /\ starting' = FALSE
  /\ Schedule(config)
  /\ UNCHANGED <<config, running, index, check, change, turns, reordered, spent>>

\* stop_monitoring; a running check goes on, and what is left of a reload does nothing.
StopMonitoring ==
  /\ running /\ ~starting
  /\ running' = FALSE /\ job' = None /\ change' = [pc |-> "none"]
  /\ UNCHANGED <<config, starting, index, check, history>>

Stop == StopMonitoring /\ spent.off < MaxOff /\ Used("off")

\* reload_config: the new settings are in force at once; the rows of targets that are
\* gone or new are deleted.  Without an instance there is nothing to reload.
Reload(c) ==
  /\ change.pc = "none" /\ spent.edit < MaxEdit /\ Used("edit") /\ c # config
  /\ config' = c
  /\ change' = IF running THEN [pc |-> "reload", old |-> config] ELSE change
  /\ IF ToSet(c.order) # ToSet(config.order) THEN Anew
     ELSE /\ reordered' = IF c.order = config.order THEN reordered ELSE reordered + 1
          /\ UNCHANGED turns
  /\ UNCHANGED <<running, starting, index, job, check, missed>>

\* Mutation of Moved: a change of the mode alone keeps the job.
MovedTargets(old) == ToSet(config.order) # ToSet(old.order)

Moved(old) == ToSet(config.order) # ToSet(old.order) \/ config.stagger # old.stagger

\* The job and the index for the new settings; without a target, the stop comes next.
Reloaded ==
  /\ change.pc = "reload"
  /\ LET old == change.old
     IN /\ IF Moved(old) \/ config.interval # old.interval
             THEN Schedule(config)
             ELSE UNCHANGED <<job, missed>>
        /\ IF Moved(old) THEN index' = 0 /\ Anew ELSE UNCHANGED <<index, turns, reordered>>
  /\ change' = [pc |-> IF config.order = <<>> THEN "stop" ELSE "none"]
  /\ UNCHANGED <<config, running, starting, check, spent>>

\* The database raises at a row: job and index stay as they are under the new settings,
\* and nothing is stopped.
ReloadFailed ==
  /\ change.pc = "reload" /\ ToSet(config.order) # ToSet(change.old.order)
  /\ spent.fail < MaxFail /\ Used("fail")
  /\ change' = [pc |-> "none"] /\ missed' = TRUE
  /\ UNCHANGED <<config, running, starting, index, job, check, turns, reordered>>

\* The last target is gone.
ReloadStop == change.pc = "stop" /\ StopMonitoring /\ UNCHANGED spent

\* The turns are counted anew (a bound of the model).
Recount ==
  /\ \E t \in Target : turns[t] = MaxTurn
  /\ Anew
  /\ UNCHANGED <<config, running, starting, index, job, check, change, missed, spent>>

Next ==
  \/ Tick \/ Ask \/ Start \/ Started \/ Stop \/ Recount
  \/ Reloaded \/ ReloadFailed \/ ReloadStop
  \/ \E r \in Runner : Return(r)
  \/ \E r \in Runner, t \in Target : Answer(r, t)
  \/ \E c \in Settings : Reload(c)

\* The scheduler fires, requests end by an answer or a timeout, reloads and starts return.
Fairness ==
  /\ WF_vars(Tick) /\ WF_vars(Started) /\ WF_vars(Reloaded) /\ WF_vars(ReloadStop)
  /\ WF_vars(Recount)
  /\ \A t \in Target : WF_vars(Answer("tick", t))
  /\ WF_vars(Return("tick"))

Spec == Init /\ [][Next]_vars /\ Fairness

-----------------------------------------------------------------------------
(* Properties *)

\* While no reload or start is at work, the registered job is that of the settings in
\* force, unless a reload for them raised; in staggered mode no target is checked a second
\* time before the others were checked once, whatever the list was before, and each time
\* the list is put in another order the index, which is kept, costs at most one more turn.
Scheduled ==
  change.pc = "none" /\ ~starting /\ running /\ config.order # <<>> =>
    /\ \/ missed
       \/ job = [stagger |-> config.stagger, cycle |-> Cycle(config), of |-> Len(config.order)]
    /\ \A s, t \in ToSet(config.order) : turns[s] <= turns[t] + 1 + reordered

\* Every target of a running monitor is checked again and again, unless a reload raised
\* while no job was registered.
Served ==
  \A t \in Target :
    []<>(\/ t \notin ToSet(config.order) \/ ~running \/ change.pc # "none"
         \/ missed /\ job = None
         \/ t \in check["tick"].busy)
=============================================================================
