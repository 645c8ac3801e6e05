----------------------------- MODULE TitleQuota -----------------------------
(***************************************************************************)
(* plugins/group_special_title: the titles that one member of a group sets *)
(* for himself, a number of times a day.  The place of a command is        *)
(* reserved before the call of the platform, and released when it fails.   *)
(***************************************************************************)
EXTENDS Integers, FiniteSets

CONSTANTS
  Call,   \* commands of the member
  Limits, \* group_special_title_daily_limit; 0 is no limit
  MaxDay, MaxEdit, MaxLost, MaxCrash \* bounds: midnights, changes of the settings,
          \* lost receipts, crashes

VARIABLES
  setting, \* of the snapshot: the group is enabled, the limit
  owner,   \* the bot owns the group
  usage,   \* GroupSpecialTitleUsage: the count of each day
  call,    \* the handlers
  today,
  applied, \* history: commands whose title was set
  limits,  \* history: limits in force
  spent

vars == <<setting, owner, usage, call, today, applied, limits, spent>>

Init ==
  /\ setting \in [on : {TRUE}, limit : Limits] /\ owner = TRUE
  /\ usage = [d \in 0 .. MaxDay |-> 0]
  /\ call = [c \in Call |-> [pc |-> "idle", limit |-> 0, day |-> 0]]
  /\ today = 0 /\ applied = {} /\ limits = {setting.limit}
  /\ spent = [edit |-> 0, lost |-> 0, crash |-> 0]

At(c, pc)   == call[c].pc = pc
Goto(c, pc) == call' = [call EXCEPT ![c].pc = pc]
Used(f)     == spent' = [spent EXCEPT ![f] = @ + 1]

\* handle_group_special_title: the settings are read once.
Command(c) ==
  /\ At(c, "idle")
  /\ call' = IF setting.on THEN [call EXCEPT ![c].pc = "role", ![c].limit = setting.limit]
             ELSE [call EXCEPT ![c].pc = "done"]
  /\ UNCHANGED <<setting, owner, usage, today, applied, limits, spent>>

\* _bot_group_role; then the day is taken.
Role(c) ==
  /\ At(c, "role")
  /\ call' = IF owner THEN [call EXCEPT ![c].pc = "consume", ![c].day = today]
             ELSE [call EXCEPT ![c].pc = "done"]
  /\ UNCHANGED <<setting, owner, usage, today, applied, limits, spent>>

RoleFailed(c) ==
  /\ At(c, "role") /\ Goto(c, "done")
  /\ UNCHANGED <<setting, owner, usage, today, applied, limits, spent>>

Counted(c) == call[c].limit > 0

\* try_consume_daily_quota: one statement.
Consume(c) ==
  /\ At(c, "consume")
  /\ LET d == call[c].day
     IN IF ~Counted(c) THEN Goto(c, "call") /\ UNCHANGED usage
        ELSE IF usage[d] < call[c].limit THEN Goto(c, "call") /\ usage' = [usage EXCEPT ![d] = @ + 1]
        ELSE Goto(c, "done") /\ UNCHANGED usage
  /\ UNCHANGED <<setting, owner, today, applied, limits, spent>>

Applied(c) ==
  /\ At(c, "call") /\ Goto(c, "kept") /\ applied' = applied \cup {c}
  /\ UNCHANGED <<setting, owner, usage, today, limits, spent>>

\* ActionFailed, ApiNotAvailable, NetworkError; or the title was set and the network
\* failed before the answer.
Failed(c) ==
  /\ At(c, "call") /\ Goto(c, IF Counted(c) THEN "release" ELSE "done")
  /\ UNCHANGED <<setting, owner, usage, today, applied, limits, spent>>

Lost(c) ==
  /\ At(c, "call") /\ spent.lost < MaxLost /\ Used("lost")
  /\ Goto(c, IF Counted(c) THEN "release" ELSE "done") /\ applied' = applied \cup {c}
  /\ UNCHANGED <<setting, owner, usage, today, limits>>

\* Mutation of Release: of today.
ReleaseToday(c) ==
  /\ At(c, "release") /\ Goto(c, "done")
  /\ usage' = [usage EXCEPT ![today] = IF @ > 0 THEN @ - 1 ELSE @]
  /\ UNCHANGED <<setting, owner, today, applied, limits, spent>>

\* release_daily_quota: of the day of the reservation.
Release(c) ==
  /\ At(c, "release") /\ Goto(c, "done")
  /\ usage' = [usage EXCEPT ![call[c].day] = IF @ > 0 THEN @ - 1 ELSE @]
  /\ UNCHANGED <<setting, owner, today, applied, limits, spent>>

-----------------------------------------------------------------------------
(* Around the handlers *)

Configure(s) ==
  /\ spent.edit < MaxEdit /\ Used("edit") /\ s # setting
  /\ setting' = s /\ limits' = limits \cup {s.limit}
  /\ UNCHANGED <<owner, usage, call, today, applied>>

Owner ==
  /\ owner' = ~owner
  /\ UNCHANGED <<setting, usage, call, today, applied, limits, spent>>

Midnight ==
  /\ today < MaxDay /\ today' = today + 1
  /\ UNCHANGED <<setting, owner, usage, call, applied, limits, spent>>

Crash ==
  /\ spent.crash < MaxCrash /\ Used("crash")
  /\ call' = [c \in Call |-> [call[c] EXCEPT !.pc =
                IF @ = "idle" THEN @
                ELSE IF @ = "kept" \/ (@ \in {"call", "release"} /\ Counted(c)) THEN "kept"
                ELSE "done"]]
  /\ UNCHANGED <<setting, owner, usage, today, applied, limits>>

Next ==
  \/ \E c \in Call :
       Command(c) \/ Role(c) \/ RoleFailed(c) \/ Consume(c) \/ Applied(c) \/ Failed(c)
         \/ Lost(c) \/ Release(c)
  \/ \E s \in [on : BOOLEAN, limit : Limits] : Configure(s)
  \/ Owner \/ Midnight \/ Crash

Spec == Init /\ [][Next]_vars

-----------------------------------------------------------------------------
(* Properties *)

\* The count of a day is the number of places that are reserved on that day: by running
\* commands, by titles that were set, or by commands that a crash has cut off.  It never
\* exceeds the limits that were in force, nor do the titles, unless a receipt was lost.
Quota ==
  \A d \in 0 .. MaxDay :
    LET of(pcs) == {c \in Call : Counted(c) /\ call[c].day = d /\ call[c].pc \in pcs}
        highest == CHOOSE n \in limits : \A m \in limits : m <= n
    IN /\ usage[d] = Cardinality(of({"call", "release", "kept"}))
       /\ usage[d] <= highest
       /\ Cardinality(of({"call", "release", "kept", "done"}) \cap applied) <= highest + spent.lost
=============================================================================
