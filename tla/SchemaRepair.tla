---------------------------- MODULE SchemaRepair ----------------------------
(***************************************************************************)
(* The schema of the database over the releases of the bot: Alembic runs   *)
(* the migrations that follow the revision in alembic_version, but early   *)
(* releases synchronise tables with models and leave that table empty.     *)
(* alembic_repair.py then infers the revision from the tables, before the  *)
(* upgrade.  A schema is the set of its features: tables, columns and      *)
(* indexes that were added later, and columns that were widened.           *)
(***************************************************************************)
EXTENDS Integers, Sequences, FiniteSets

CONSTANTS
  None,
  Synced,     \* the last release that synchronises; a release has the number of its revision
  Candidates, \* repair_url_candidates: how often the repair is tried
  MaxStart, MaxFail \* bounds: starts of the bot, and failures and crashes

VARIABLES
  schema,
  version, \* of alembic_version: None if there is no such table, 0 if it is empty
  bot,     \* the start: what runs, of which release, repairs that failed, none succeeded
  spent

vars == <<schema, version, bot, spent>>

-----------------------------------------------------------------------------
(* Migrations: upgrade() of each revision *)

Adds(new)   == [add |-> new, drop |-> {}, widen |-> {}]
Widens(old) == [add |-> {}, drop |-> {}, widen |-> old]

a1b2c3d4e5f6 == Adds({"user", "systemsetting", "dynamictarget", "dynamictargetgroup",
  "livetarget", "livetargetgroup", "dynamicmonitorstate", "livemonitorstate", "auditlog",
  "systemevent"})
b2c3d4e5f6a7 == Adds({"dynamictarget.at_all", "livetarget.at_all"})
c3d4e5f6a7b8 == Adds({"linkparsergrouppolicy", "linkparseruserpolicy"})
d4e5f6a7b8c9 == Adds({"dynamictargetuser", "livetargetuser"})
e5f6a7b8c9d0 == [Adds({}) EXCEPT !.drop = {"auditlog", "systemevent"}]
f6a7b8c9d0e1 == Adds({})
g7h8i9j0k1l2 == Adds({"groupspecialtitleusage"})
h8i9j0k1l2m3 == Adds({"linkparsergrouppolicy.dynamic_enabled",
                      "linkparseruserpolicy.dynamic_enabled"})
i9j0k1l2m3n4 == Adds({"rustrconbinding"})
j0k1l2m3n4o5 == Adds({"rustrcongrouppolicy", "rustrconuserpolicy"})
k1l2m3n4o5p6 == Adds({"rustrconbindingalloweduser"})
l2m3n4o5p6q7 == Adds({"ruststeambinding", "rustplayerpoints", "rustcheckinrecord"})
m3n4o5p6q7r8 == Adds({"rustcheckinrecord.online_bonus_earned"})
n4o5p6q7r8s9 == Adds({"rustshopitem"})
o5p6q7r8s9t0 == Adds({"uq_rust_shop_enabled_name"})
p6q7r8s9t0u1 == Adds({"ruststeambindbonusawarded"})
q7r8s9t0u1v2 == Adds({"ruststeambindbonusawarded.steam_id"})
r8s9t0u1v2w3 == Adds({"douyinlinkparsergrouppolicy", "douyinlinkparseruserpolicy"})
s9t0u1v2w3x4 == Adds({"rustrconcustomcommand"})
t0u1v2w3x4y5 == Adds({"rustrconcustomcommandalloweduser"})
u1v2w3x4y5z6 == Adds({"linkparsergrouppolicy.send_video_enabled",
                      "linkparseruserpolicy.send_video_enabled"})
v2w3x4y5z6a7 == Adds({"xtarget", "xtargetgroup", "xtargetuser", "xmonitorstate"})
w3x4y5z6a7b8 == Adds({"xmonitorstate.pending_tweet_id", "xmonitorstate.pending_group_ids",
                      "xmonitorstate.pending_user_ids"})
x4y5z6a7b8c9 == Adds({"xlinkparsergrouppolicy", "xlinkparseruserpolicy"})
y5z6a7b8c9d0 == Widens({"xmonitorstate.pending_tweet_id 255"})
z6a7b8c9d0e1 == [Adds({"officialqqsession"}) EXCEPT !.widen = {"group_id 64", "user_id 64"}]
a7b8c9d0e1f2 == Adds({"dynamicmonitorstate.pending_deliveries"})
b8c9d0e1f2g3 == Adds({"livemonitorstate.pending_notifications"})

\* By down_revision.
History ==
  <<a1b2c3d4e5f6, b2c3d4e5f6a7, c3d4e5f6a7b8, d4e5f6a7b8c9, e5f6a7b8c9d0, f6a7b8c9d0e1,
    g7h8i9j0k1l2, h8i9j0k1l2m3, i9j0k1l2m3n4, j0k1l2m3n4o5, k1l2m3n4o5p6, l2m3n4o5p6q7,
    m3n4o5p6q7r8, n4o5p6q7r8s9, o5p6q7r8s9t0, p6q7r8s9t0u1, q7r8s9t0u1v2, r8s9t0u1v2w3,
    s9t0u1v2w3x4, t0u1v2w3x4y5, u1v2w3x4y5z6, v2w3x4y5z6a7, w3x4y5z6a7b8, x4y5z6a7b8c9,
    y5z6a7b8c9d0, z6a7b8c9d0e1, a7b8c9d0e1f2, b8c9d0e1f2g3>>
Releases == DOMAIN History

\* The schema of a release that was never anything else.
Models[r \in Releases] ==
  ((IF r = 1 THEN {} ELSE Models[r - 1]) \ History[r].drop) \cup History[r].add
    \cup History[r].widen

-----------------------------------------------------------------------------
(* infer_alembic_revision *)

Sign(feature, r) == [has |-> {feature}, lacks |-> {}, revision |-> r]

Signs ==
  <<Sign("livemonitorstate.pending_notifications", 28),
    Sign("dynamicmonitorstate.pending_deliveries", 27),
    Sign("officialqqsession", 26),
    Sign("xmonitorstate.pending_tweet_id 255", 25),
    Sign("xlinkparsergrouppolicy", 24),
    Sign("xmonitorstate.pending_tweet_id", 23),
    Sign("xtarget", 22),
    Sign("linkparsergrouppolicy.send_video_enabled", 21),
    Sign("rustrconcustomcommandalloweduser", 20),
    Sign("rustrconcustomcommand", 19),
    Sign("douyinlinkparsergrouppolicy", 18),
    [Sign("rustshopitem", 17) EXCEPT !.has = @ \cup {"ruststeambindbonusawarded",
                                                    "ruststeambindbonusawarded.steam_id"}],
    [Sign("rustshopitem", 16) EXCEPT !.has = @ \cup {"ruststeambindbonusawarded"}],
    [Sign("rustshopitem", 15) EXCEPT !.has = @ \cup {"uq_rust_shop_enabled_name"}],
    Sign("rustshopitem", 14),
    Sign("rustcheckinrecord.online_bonus_earned", 13),
    Sign("ruststeambinding", 12),
    Sign("rustrconbindingalloweduser", 11),
    Sign("rustrcongrouppolicy", 10),
    Sign("rustrconbinding", 9),
    Sign("linkparsergrouppolicy.dynamic_enabled", 8),
    Sign("groupspecialtitleusage", 7),
    [Sign("dynamictargetuser", 5) EXCEPT !.lacks = {"auditlog"}],
    Sign("dynamictargetuser", 4),
    Sign("linkparsergrouppolicy", 3),
    Sign("dynamictarget.at_all", 2),
    [has |-> {}, lacks |-> {}, revision |-> 1]>>

\* Mutation of Infer: the columns of a migration were not registered.
InferUnregistered(r) ==
  Head(SelectSeq(Signs, LAMBDA s : /\ s.revision <= r /\ s.revision # 8
                                   /\ s.has \subseteq schema
                                   /\ s.lacks \cap schema = {})).revision

\* Of the signs that release r knows (a migration comes with its sign), the first it sees.
Infer(r) ==
  Head(SelectSeq(Signs, LAMBDA s : /\ s.revision <= r
                                   /\ s.has \subseteq schema
                                   /\ s.lacks \cap schema = {})).revision

-----------------------------------------------------------------------------
(* A start *)

Down == [pc |-> "down", release |-> 1, tries |-> 0, skipped |-> FALSE]

Init == schema = {} /\ version = None /\ bot = Down /\ spent = [start |-> 0, fail |-> 0]

Fails == spent.fail < MaxFail /\ spent' = [spent EXCEPT !.fail = @ + 1]

Start(r) ==
  /\ bot.pc \in {"down", "up", "failed"} /\ spent.start < MaxStart
  /\ bot' = [Down EXCEPT !.pc = IF r <= Synced THEN "sync" ELSE "repair", !.release = r]
  /\ spent' = [spent EXCEPT !.start = @ + 1]
  /\ UNCHANGED <<schema, version>>

\* What is missing is made, what is there stays, and the version is cleared.
Sync ==
  /\ bot.pc = "sync"
  /\ schema' = schema \cup Models[bot.release] /\ version' = 0
  /\ bot' = [bot EXCEPT !.pc = "up"]
  /\ UNCHANGED spent

\* _run_repair_on_connection: not of a new database, and not of one that has a version.
Repaired ==
  IF "user" \notin schema \/ version \notin {None, 0} THEN version ELSE Infer(bot.release)

Repair ==
  /\ bot.pc = "repair"
  /\ version' = Repaired /\ bot' = [bot EXCEPT !.pc = "upgrade"]
  /\ UNCHANGED <<schema, spent>>

\* An attempt fails before anything, after the table was made, or in the end.  The next
\* candidate tries again; after the last the upgrade runs nevertheless.
RepairFailed ==
  /\ bot.pc = "repair" /\ Fails
  /\ \/ UNCHANGED version
     \/ Repaired # version /\ version = None /\ version' = 0
     \/ version' = Repaired
  /\ bot' = IF bot.tries + 1 < Candidates THEN [bot EXCEPT !.tries = @ + 1]
            ELSE [bot EXCEPT !.pc = "upgrade", !.skipped = version' # Repaired]
  /\ UNCHANGED schema

Following == IF version = None THEN 1 ELSE version + 1

\* A migration stops at a table that is there already, or at one that is not.
Conflict(m) == m.add \cap schema # {} \/ ~(m.drop \subseteq schema)

Upgrade ==
  /\ bot.pc = "upgrade"
  /\ IF Following = bot.release + 1 THEN bot' = [bot EXCEPT !.pc = "up"] /\ UNCHANGED <<schema, version>>
     ELSE IF Following > bot.release \/ Conflict(History[Following])
       THEN bot' = [bot EXCEPT !.pc = "failed"] /\ UNCHANGED <<schema, version>>
     ELSE LET m == History[Following] IN
          /\ schema' = (schema \ m.drop) \cup m.add \cup m.widen
          /\ version' = Following /\ UNCHANGED bot
  /\ UNCHANGED spent

Crash ==
  /\ bot.pc \in {"sync", "repair", "upgrade"} /\ Fails
  /\ bot' = Down
  /\ UNCHANGED <<schema, version>>

Next ==
  \/ \E r \in Releases : Start(r)
  \/ Sync \/ Repair \/ RepairFailed \/ Upgrade \/ Crash

Spec == Init /\ [][Next]_vars

-----------------------------------------------------------------------------
(* Properties *)

\* Whatever releases ran before, in whichever order: a release that is up has all that its
\* models need, a version that is recorded is true, and a start fails only when the
\* database is of a later release or none of the repairs succeeded.
Migrated ==
  /\ bot.pc = "up" => Models[bot.release] \subseteq schema
  /\ version \in Releases => Models[version] \subseteq schema
  /\ bot.pc = "failed" => bot.skipped \/ (version \in Releases /\ version > bot.release)
=============================================================================
