# Verification of cyxcbot

cyxcbot is a QQ bot: it watches Bilibili uploaders, Bilibili live rooms and X accounts
and pushes what is new to QQ groups and friends; it answers commands (a game shop,
titles, link parsing) and is configured through a web admin whose changes take effect
without a restart. It is one Python process on one asyncio loop, with a SQL database.

This directory holds TLA+ modules translated from the source, the TLC configurations
that check them on small instances, and theorems that TLAPS proves. All line numbers in
`PROJECT.json` refer to the source at the commit this directory was written against.

## How the code runs, and what a step is

* One asyncio loop. Code between two `await`s is atomic, so an action of a module is
  such a stretch of code. Everything else interleaves: poll jobs (APScheduler), commands,
  bot connect and disconnect hooks, websocket handlers, HTTP requests, background tasks.
  The one thread that matters, the log worker, is in `LogStream`; hashing in a thread is
  an await like any other.
* Database sessions are `async`; reading a row and committing the change are separated
  by awaits. Where two sessions can overlap on one row (`DynamicMonitor`, `XDelivery`,
  `ConfigReload`, `OfficialSessions`) the two are separate steps. `LiveRoom` models a
  write as one step because `live_monitor/state_store.py` serialises the writers of a
  room with `_persist_locks`; `AdminTargets`, `RustShop` and `AdminAuth` take a
  transaction as one step, which assumes that the database isolates them.
* Network calls may fail, answer late, or succeed while the receipt is lost.
* The process may die at any await, and is restarted; memory is gone, rows stay.

## Inventory

Every component is listed with its sources and status in `PROJECT.json`. Here: what state
it keeps, what it does, what is hard about it, and what makes it correct.

### Core: watching and pushing

**Dynamic monitor** (`plugins/dynamic_monitor`). Per uid: cursor `last_dynamic_id`,
`initialized`, pinned id, `pending_deliveries` (snapshots of pushes that are under way),
a check generation, an `asyncio.Lock` for deliveries; one database row. Operations: a
check (poll job, command, or for a new target), which spawns deliveries for new dynamics
and for a changed pin; a delivery, which sends to each target with a checkpoint after
each, and then moves the cursor; restore, prune, reload of the configuration. Hard:
checks overlap, every poll spawns a delivery for what is still being delivered, targets
fail separately, checkpoints and rows lag behind memory, a uid is removed and added again
while coroutines of its former life wait. Correct: nothing is skipped, nothing repeated,
order is kept, history is never pushed, everything is pushed in the end.
(`DynamicMonitor`)

**Live monitor** (`plugins/live_monitor`). Per room: `previous_status`, `live_start_time`,
`last_live_time`, `room_info`, `observation_epoch`, a pending start and a pending end
notice with their prepared message; a lock; a row. Operations: baseline, poll, the
websocket signals LIVE and PREPARING, `deliver_start` and `deliver_end` under the lock,
retries, reload. Hard: polls and signals observe the same transition from answers of any
age; the next transition arrives while a notice is pending; handlers are cancelled by
reconnects. Correct: one start and one end notice per broadcast, in order; the status
follows; no notice stays pending. (`LiveRoom`)

**Danmaku client** (`live_monitor/danmaku_client.py`). A socket per room: connection
state, heartbeat and message tasks, reconnect over the hosts with backoff, stop; the
monitor keeps one client per room and replaces it. Hard: stop during connect, both loops
failing together or during a reconnect, cancellation from the task that is being
cancelled. Correct: nothing runs after stop, a registered client is connected again and
again. (`DanmakuClients`)

**X monitor** (`plugins/x_monitor`). Per blogger: cursor, one pending slot with an offset
per target inside the tweet and the fingerprint of the sending plan, media on disk, a
failure limit of six hours. Hard: one slot for all tweets, offsets that outlive their
plan, a limit kept in memory, an overtaken checkpoint. Correct: in order, each part once,
no offset applied to another tweet or plan, a tweet that fails for ever is given up.
(`XDelivery`, `TweetFeed`; its start, stop and reload are in `ConfigReload`)

**Monitor framework** (`shared/monitor`). The poll job, the staggered index, bounded
concurrency, manual checks, background tasks, the validity of a check. Hard: the list of
targets changes under the index and under a running cycle, and a reload may raise before
job and index follow it. Correct: every target is polled again and again, staggered turns
are even, the job is that of the settings unless a reload raised.
(`PollJob`; tasks and validity in the monitors)

**Pending delivery, pending media** (`shared/notify`). Targets left, progress per target,
expiry; media files by content hash, pruned by age. Correct: a file lives as long as a
snapshot that names it. (Delivery is in the monitors, missing media in `XDelivery`; the
pruning by age is not modelled.)

**Outbound adapter** (`shared/adapter/outbound.py`). Picks bots in turn, sends a message
part after part under the lock of the target, retries rate limits, keeps the reply budget
of an event, resumes after a checkpoint. Hard: a lost receipt, a checkpoint that raises,
a cancellation between two parts, another bot taking over. Correct: parts in order, each
once unless its receipt was lost; the budget neither exceeded nor wasted. (`Outbound`)

**Sessions** (`shared/adapter/sessions.py`). The table of the official bots' chats and the
cache before it. Hard: concurrent events, failed writes, removal. Correct: a chat the bot
is in is listed, under its name. (`OfficialSessions`)

**Screenshots** (`utils/screenshot`). The shared browser: slots, start by whoever finds it
dead, close and init that take all slots. Hard: restart under waiting captures. Correct:
no page is lost to another caller, no browser is forgotten, no deadlock. (`Screenshot`)

### Configuration and administration

**Configuration service** (`shared/config/service.py`). The snapshot all readers use, the
reload task, `_reload_pending`, callbacks. Hard: saves during a reload, abandoned
requests, failures. Correct: an answered save is in force, the snapshot never goes back.
(`ConfigReload`)

**Monitor lifecycle** (`shared/onebot/lifecycle.py`, the `__init__` of the monitors).
Start and stop of the three monitors by bot hooks and by reloads, under a lock each.
Correct: in the end a monitor runs if it has targets and a bot, and is down if it has no
targets. A start or a reload that raises is logged and not repeated. (`ConfigReload`)

**Admin API** (`admin/api/v1`). Requests validate, save and reload. The tables of targets
are the hard ones: names and ids are looked up outside of the transaction, in a request
or by the completion of missing names, while others rename, refresh or delete the row.
Correct: keys unique, somebody to notify, no id of another account, few lookups.
(`AdminTargets`, and `ConfigReload` for what follows a save)

**Authentication and setup** (`admin/auth`). The first account, login behind a limiter by
address and by name, tokens with a version, change of the password. Hard: the hash is
computed in a thread while others log in or change. Correct: one account; tokens and
changes prove the password in force; no more attempts than the limits. (`AdminAuth`)

**Accounts at Bilibili** (`shared/bilibili`), **login at Douyin** (`shared/douyin`). One
setting with all accounts, changed read-modify-write under a lock; browsers on the server
that tabs start, refresh, poll and abandon. Correct: no account is lost, accounts take
turns; no browser is left behind or closed under its user. (`BilibiliAccounts`,
`DouyinLogin`)

**Aliases and prefixes of commands** (`shared/config/command_aliases.py`, the matchers).
Stateless matching, over a configuration that is edited piece by piece. Correct: one
answer to a message, a trigger reaches its own command. (`CommandMatch`)

**Schema** (`shared/db`). Migrations, and the repair of a database whose revision was lost
by releases that synchronised tables instead. Correct: whichever releases ran before, the
one that is up has its schema. (`SchemaRepair`)

**Live log** (`shared/logging/broadcast.py`, `admin/api/v1/logs.py`). Rings filled from a
worker thread, queues of subscribers, a replay that changes over to following. Correct:
each entry once, in order, or the reader is dropped. (`LogStream`)

### Commands

**Rust player and shop**: points in the database around an RCON call whose outcome may be
unknown. Correct: every point is accounted for. (`RustShop`)
**Group titles**: a daily limit consumed before and released after a call. Correct: the
count is what is reserved, and never over the limit. (`TitleQuota`)
**Link parsers**: a pipeline for downloads, files that live as long as their answer, the
page menu of Bilibili, the cutting of an answer into messages. (`LinkParser`,
`LinkMessage`)

### Interaction

    administrator --save--> database <--load-- configuration service --callback--> monitors
    bot hooks --start / stop--> monitors --poll job--> Bilibili, X
    danmaku client --signal--> live monitor;   link parsers, dynamic monitor --> browser
    monitors --persist--> rows;  monitors, commands --send--> outbound adapter --> QQ
    gateway events --> sessions;   release --repair, migrate--> database

## Modules

| module | component | state it keeps |
|---|---|---|
| `DynamicMonitor` | one uid of the dynamic monitor | the uploader's space, configuration, row, memory, checks, delivery tasks, reload |
| `DynamicMonitorProofs` | | its types, the cursor and the order of the pushes; no second push, no history |
| `ConfigReload` | configuration service, lifecycle of monitors | database and snapshot, requests, reload tasks, instances, lock queues, bots and hooks |
| `ConfigReloadProofs` | | its inductive invariant and theorems |
| `LiveRoom` | one room of the live monitor | the broadcast, row, one state object per life of the room, polls and signals, the pending write, reload |
| `LiveRoomProofs` | | its types; what each step does |
| `LiveOnceProofs` | | each notice once |
| `TweetFeed` | what the X monitor promises | the queue of tweets, who is owed which |
| `XDelivery` | one blogger of the X monitor | timeline, configuration, row, memory, checks, delivery tasks, the six hours, reload |
| `XDeliveryProofs` | | its types, what each step does; that its notes of a delivery are true |
| `XQueueProofs` | | that it implements `TweetFeed`; no history |
| `XOnceProofs` | | each part of a tweet once |
| `PollJob` | the poll job of a monitor | settings, the instance, job, index, running cycle, manual check, a reload |
| `DanmakuClients` | the clients of one room | clients with their tasks and sockets, the registry, background tasks, the main task of the monitor |
| `Outbound` | the outbound adapter | calls, the lock of a target, the replies of an event |
| `OfficialSessions` | sessions | one chat, its cache, its row, writes under way |
| `Screenshot` | the browser | slots, browser, lock, captures and services |
| `AdminTargets` | tables of targets | table, snapshot, requests, completion of names |
| `AdminAuth` | authentication and setup | account, hashes, tokens, limiter |
| `BilibiliAccounts` | accounts at Bilibili | the two settings, lock, requests, pool of turns |
| `DouyinLogin` | login at Douyin | sessions with their timers and polls, tabs, requests |
| `CommandMatch` | aliases and prefixes | the configuration, edits under way |
| `RustShop` | Rust shop | bindings, points, awards, purchases, online cache, commands |
| `TitleQuota` | titles | limit, daily count, commands |
| `LinkParser`, `LinkMessage` | link parsers | handlers, files, menus; the segments of an answer and their messages |
| `LogStream` | live log | rings, subscription, queue, stream |
| `SchemaRepair` | migrations and their repair | the schema, the recorded version, a start |
| `Background`, `Services` | | three and five of the components above, with any parameters, and what is promised of each |
| `ServiceProofs` | | theorems about these promises, a section for each component |

`MCDynamic` (symmetry), `MCDynamicOverlap` (bounds, and the history of overtaken answers),
`MCDynamicLive`, `MCLiveRoom` (bounds), `MCXDelivery` (scenarios),
`MCBackground` and `MCServices` (compositions: they extend `Background` and `Services`, and add
the components of which nothing is proved) instantiate them for TLC.

### DynamicMonitor

A check is a slot `chk[c]`: `CheckStart` sends the request, and any answer that was
current between then and its use may come (`Answers`). `CheckBaseline` is the first check
of a life, `CheckObserve` any later one; it may spawn two tasks (`Spawn`) which queue for
the lock of the uid in the order of their creation (`ahead`). `epoch` stands for the
identity of the `asyncio.Lock`, which is dropped when the uid is removed. A task takes the
least dynamic still to push (`NewNext`), reuses or builds a snapshot (`Built` is the await
of name and screenshot), sends to one target after the other (`Send*`), and settles
(`Settle`): with targets left the batch stops. `NewFinish` moves the cursor. `Persist`,
`TaskRead` and `TaskCommit` are the two halves of `state_store.persist`; the ORM writes
only columns that differ from what was read (`Merged`). `ReloadStart` is the save with the
pruning of rows by `load`, `ReloadApply`, `ReloadReset`, `DeleteRead` and `DeleteCommit`
are `reload_config`. `sent`, `owed`, `base`, `enabled` are history.

Abstracted: a dynamic is a number that grows with its time; a key is a dynamic and whether
it is pushed as a pin. A message has one part. The six hours of `expired()` may be over at
any failed attempt. Whether a target wants the dynamic's type is left out.

### ConfigReload

`Save` then `Reload` is a request; `LoadRead`, `LoadSet`, `Sync*`, `Again`, `Finish` are
the rounds of the reload task. A callback runs `reload_config` on an instance or starts
one, and awaits the lifecycle lock; `ops[m]` is who holds it and who queues. `Hook` is a
bot hook, which decides under what it sees then whether the last bot is gone. A
configuration is its version and whether it has targets. `SyncConfig` takes the
configuration; then the rows of targets that are gone or new are deleted, where the
database may raise (`ConfigFail`): the monitor keeps what it took, and the stop that should
have followed is not called (`SyncStop` otherwise). This, and a start that fails, is logged,
and nobody tries again until the next connect or reload: `raised` remembers it and
`Followed` excuses it. The hooks of one monitor run in the order of the events. The
bodies under `_reload_lock` never await, so that lock is not modelled. Requests that only
load are out of scope; `reload_all_monitors` of `monitor_bridge` has no caller.

### LiveRoom

`air` is the broadcast (its number stands for `live_start_time`). A handler is a slot: a
poll slot stands for the poll job, for the task that a reload starts, or for the baseline
at start; a signal slot is a websocket message. `CheckStart`, `Answer`, then `Record` (the
baseline) or `Discard` or `Resume`, which decides what was observed (`Job`) and queues for
the lock. Under the lock (`Enter*`) it looks at the status again, marks notices pending
and works through a plan: push the start or the end, catch up, retry, save. `StepOpen`,
`Build`, `Send*`, `Close` are `_send_notification` and the delivery. `saving` is the write
`_confirm_observed_status` spawns. `mem[l]` is the state object of life `l`: after a
reload coroutines of the former life still hold the former object. `Cancel` is a reconnect
or stop of the client: a handler is cancelled, but a push for a transition is shielded.

Abstracted: `room` is 0 when the API says the room is off air; the API is linearizable,
the delay of a signal on the wire is the delay before its handler asks. An end notice is
about the last broadcast that was recorded or seen live. A broadcast that replaces another
between two observations is taken for the same by the code, and by the properties.
After a restart the room takes its baseline again, as the comment in `live_monitor.py`
says it shall.

### XDelivery and TweetFeed

`XDelivery` has the shape of `DynamicMonitor`, with what is different in the X monitor: a
message of several parts (`Body`, and one more in front for a group with at_all), one
pending slot in memory and row with an offset per target and the fingerprint of the plan
it counts in (`StartOf`), media that may be missing when a tweet is taken up again
(`MediaMissing`), `failing`, the clock of the six hours that starts at the first failure
of a life (`SixHours`, `GiveUp`), and rows that raise when another session inserted first
(`Conflict`). `Merged` is again the ORM's write of changed columns.

`TweetFeed` is what an administrator may rely on: the tweets after the subscription form a
queue, only the head is pushed, it leaves when nobody is owed it or when it is given up.
`XDelivery!Queue` says that the monitor implements it. The queue is what the timeline holds
above the cursor in force - that of the memory, or what a restart would restore while the
process is down - and the debts are history. `Relapse` is a restart from an older row: it
may put tweets back in front, but only such as nobody is owed. `StartOver` is a new life:
the blogger was enabled again, or the process died before the first baseline was stored.

### The background modules

`PollJob`: `Tick` fires the job, in staggered mode for one target (`base.py`), otherwise
for all under a semaphore; `Answer`, `Return` end it; `Ask` is a manual check of all.
`Start` and `Started` are the two sides of `init_resources`, `Stop` is the end of an
instance. `Reload` takes the new settings, `Reloaded` registers the job and sets the index,
both only for what changed; when the list is empty `ReloadStop` follows. `ReloadFailed` is
the database raising between the two: job and index stay as they were under the new
settings. A reload does not take the lifecycle lock, so it may come during a start. `turns`,
`reordered` and `missed` are history: ticks per target, how often the list was put in
another order under an index that is kept, and that the last reload raised and no job was
registered since. A start that raises is in `ConfigReload`.

`DanmakuClients`: clients of one room are started by a background task, replaced by
another and stopped; `StartNext`, `StopNext` are the awaits in `start()` and `stop()`,
`HeartbeatFailed`, `MessagesFailed`, `Reconnect` the two loops and the reconnect they
share. `late` excuses a stop that came while `start()` was connecting, which leaves a
socket open (`danmaku_client.py` ~228).

`OfficialSessions`: an event joins, talks, leaves; `Commit`, `Failed` end its write;
`Expire` is the age of the cache. In a group that its events do not name, a message carries
the name of its author (`Shown`), and the row the last of these. Guard and preprocessor both remember an event; the
module's head says why one of them is enough.

`Screenshot`: `Ask` waits for a slot, `Step` walks through check, start, page and release;
`Serve` is `init()` and `close()`, which take every slot first; `Crash` kills the browser.

### The services

`Outbound`: a call is a push to an official target, a reply to an event, or a message by
OneBot bots. `Refused`, `RateLimited`, `Lost`, `MarkFailed`, `UrlRefused`, `Cancelled`,
`BuildFailed` are the ways a part goes wrong; `Elsewhere` is a reply by another handler.

`RustShop`: a command awaits sessions and RCON calls in order (`CallNext`). A refund that
fails is a crash at the refund: both keep the points, and `Ledger` counts such a purchase
as "nobody knows".

`TitleQuota`: `Command`, `Role`, `Consume`, `Applied` or `Failed` or `Lost`, `Release`.

`AdminTargets`: `Create`, `Update`, `Refresh` look up in `Looked` and write in `Created`,
`Updated`, `Refreshed`; `List` starts the completion of names (`fill`, with its cooldown);
`Found` is the X monitor storing an id. `overtook` excuses one case (see *Observations*).

`LinkParser`: a handler waits for its place (`Locked`, `Admitted`), asks, downloads, sends
and removes its files (`Reply`, `Broken`); `Number` is the choice of a page. The removal is
one step on every path: that it may be cancelled or fail itself is left out. `LinkMessage`
is one computation per initial state: `Build` the messages of OneBot, `Official` the
replies within a budget.

`DouyinLogin`: what runs under `_lock` is one step; `Fire` is a deferred close. The 15
seconds of that close are longer than the cancellation of a request takes, and the
requests of one tab arrive in the order they were sent. `stray` excuses a refresh that is
cancelled while it waits.

`LogStream`: `Publish` is the thread, `Flush` the callback on the loop, the rest one
stream. The loop is taken to run its callback before a ring has turned over once
(`Prompt`).

`CommandMatch`: texts are sequences over a few characters; a matcher is an operator per
command, `CheckAliases`, `SaveAliases`, `CheckPrefixes`, `SavePrefixes` are two requests.
Left out: case, page 0, errors in quantities, `at` segments, custom RCON commands.

`AdminAuth`: a limiter of attempts by address and name over a clock `now`; a token
is bound to the hash it was made under. Left out: the eviction of the limiter's oldest keys,
unknown names, cookies, the check of the origin.

`BilibiliAccounts`: `Read`, `Save`, `Reload` of a login, removal or clearing under the
lock; `Use` takes the next account; `KeyLost` makes the setting unreadable.

`SchemaRepair`: a schema is a set of features (tables, and columns and indexes that were
added or widened later); the 28 migrations are a table of what they add. `Sync` is a
release that synchronises, `Repair` the inference of a lost revision (`Infer`), `Upgrade`
the migrations after it. A migration is atomic; a synchronising release leaves additional
things alone, does not narrow columns, and empties `alembic_version`. Data migrations (the
setup key of `f6`) and downgrades are left out.

## Properties and runs

| run | instance | distinct states | checks |
|---|---|---|---|
| `dynamic_overlap` | 2 checks, 2 tasks, 2 targets, 2 dynamics; one crash, one failure, one database error; or 2 changes of the pin and one crash or failure | 1,132,589 | `TypeOK`, `NothingSkipped`, `AtMostOncePerLife`, `InOrder`, `PinPushedOnce`, no deadlock |
| `dynamic_reload` | 1 check, 2 tasks, 1 target, 2 dynamics; 2 reloads, one failure, one database error | 2,514,444 | `NoHistory` |
| `dynamic_live` | 1 check, 2 tasks, 1 target, 2 dynamics; one leaves the list, one crash, one failure or database error; or 2 changes of the pin; or one change and one failure | 168,557 | `EverythingDelivered`, `SnapshotServed`, `PinFollows`, no deadlock |
| `dynamic_lost_progress` | 2 checks, 2 tasks, 2 targets; 2 changes of the pin | violation | `ProgressKept` |
| `config_reload` | 2 requests, 1 monitor, 2 bots; 2 saves, 3 connects and disconnects, one load, start or reload of a monitor that raises | 258,494 | `TypeOK`, `SingleFlight`, `Applied`, `Current`, `RequestsEnd`, `Followed` |
| `live_room` | 1 poll, 1 signal, one failure; 2 broadcasts and a crash, or 1 broadcast, 2 reloads and a reconnect | 1,143,939 | `TypeOK`, `OncePerBroadcast`, `InOrder`, `NoBaselinePush` |
| `live_follow` | 1 poll, no signals, 1 broadcast, one round; 2 reloads, one failure, one database error | 309,938 | `Announced`, `Settles` |
| `live_race` | 2 polls, 1 broadcast, nothing fails | violation | `OnceWhenAnswered` |
| `live_stale_start` | 1 poll, 1 signal, 2 broadcasts; one crash, 2 failures | violation | `LatestBroadcast` |
| `x_delivery` | a group and a friend, 1 check, 2 tasks, tweets of 2 parts; seven scenarios of `MCXDelivery` | 340,952 | `TypeOK`, `PartOnce`, `Queue`, `NoHistory`, `Passes` |
| `background` | `DanmakuClients`, `PollJob`, `OfficialSessions`, `Screenshot`, one in each behaviour | 558,121 | `Closed`, `Scheduled`, `Undisturbed`, `Recovers` |
| `services` | the twelve service modules, one in each behaviour | 924,405 | `InOneGo`, `Quota`, `Kept`, `Files`, `Guarded`, `Balanced`, `Answered`, `Logins`, `Streamed`, `Migrated` |

In the live runs a room may be on air at the start; that broadcast is one of the number.
"One failure" is a fetch or a send that fails, is refused, or loses its receipt. What each
property says stands before it in its module. Those of `background` and `services` are made
of the properties of the components; where a theorem is about one it is in `Background` or
`Services`, which the run and the proof both extend, so that they speak of the same formula:

* `Closed` (`DanmakuClients`), `Scheduled` (`PollJob`), `Undisturbed` (`Screenshot`), `InOneGo`
  (`Outbound`), `Quota` (`TitleQuota`), `Kept` (`AdminTargets`: `Kept` and `OwnProfile`), `Files`
  (`LinkParser`), `Guarded` (`AdminAuth`): the promises that are proved.
* `Recovers`: the liveness of the background, `DanmakuClients!Recovers`, `PollJob!Served`,
  `OfficialSessions!Listed` and `Screenshot!Ends`.
* `Balanced`: `RustShop!Ledger`, `Outbound!Budget`, `AdminAuth!Limited`. `Answered`: `One` and
  `Own` of `CommandMatch`, `LinkParser!LastMenu`, `Complete` and `WithinBudget` of `LinkMessage`.
  `Logins`: `DouyinLogin!Claimed`, `BilibiliAccounts!Accounts`. `Streamed`: `LogStream`.
  `Migrated`: `SchemaRepair`.

**Two compositions of independent parts.** The components of `background` and `services`
share no state. Each initial state has chosen one of them (`part`), which takes all steps;
the others stay as they started. This explores the sum of their states and not the
product, and says exactly what separate runs would say: no component can see another.
Fairness in `MCBackground` is that of the module, guarded by `part`.

**Why the bounds are enough.** What can go wrong takes two of something: two dynamics for
order and for a cursor that passes one, two targets for a partial failure, two checks and
two tasks for an overlap (a third waits in the same queue), two reloads for "disabled and
enabled again", two saves and two requests for a save during a reload, two broadcasts for
a notice that is late, two clients for one that replaces another, two commands at a limit,
three handlers for a pipeline of two. One crash, failure and error each put the fault at
every point of every interleaving; a second of the same kind meets the states the first
one left, except where `live_stale_start` shows that two are needed. Where all faults
together are beyond what TLC finishes in minutes they are split: `LiveRoom` over
`live_room` and `live_follow`, `XDelivery` over scenarios, the services by budgets in
`MCServices!Within`.

* `PollJob` has three targets, in lists of none, two and three in different orders, and two
  intervals, so that an index can point behind the list, at another target, or past one, and
  a change of the interval alone keeps it. A manual check runs beside one reload, apart from
  two reloads, a stop and a reload that raises.
* In `dynamic_overlap` the pin changes twice, once everything is published: the first pin is
  recorded and not pushed, so that one push is due and a second one violates
  `PinPushedOnce`. Both checks may have asked before either answer, and both see a change.
* `SchemaRepair` has every revision, three starts, the seventh as the last release that
  synchronises: three starts are a synchronising release, a migrating one and another.
* `LogStream` has rings of three and a queue of one, so that both overflow; `LinkMessage`
  has messages of five segments where two media fill a message.
* `CommandMatch` has the pairs of commands whose grammars can meet; words and texts are
  those over two letters in which one trigger is a part, a prefix or a word of another.

**Constraints.** `Within` cuts states after too many faults of different kinds, `Sure`
after a misleading observation. Only `dynamic_live` has a constraint together with
liveness: the steps it cuts are changes by the uploader, crashes, failed sends and database
errors, none of which is fair, so that a fair behaviour never has to leave the bounds.

**Deadlock.** It is checked where something always remains to be done (the poll job
fires). It is off in `config_reload`, where all requests may have been answered and the
events used up, in the runs with reloads, where the last target may be gone, and in the
compositions, where commands and requests are used up.

**Fairness.** Weak fairness of every step the event loop takes by itself: the poll job
keeps firing (an interval job of the scheduler), every ready coroutine is run, requests
have timeouts so that they end, the database answers, deliveries drain on stop, and the
bot is restarted (`deploy/` restarts the container). There is no fairness for failures,
crashes, administrators, bots, signals or the uploader. Failures are bounded by their
budgets, so liveness says: once things stop failing, everything is delivered. Three are
particular:

* `XDelivery`: strong fairness of a check that gets its answer (a fetch may time out again
  and again, but not for ever), and time passes (`SixHours`). Sends may fail for ever:
  this is what `Passes` is about.
* `OfficialSessions`: the members go on talking (strong fairness of `Talk`), and the age
  of the cache passes. Without messages nothing would write the row again.
* `DanmakuClients`: connects end in success or failure, and a failing network fails only
  as often as its budget; `Screenshot`: Playwright answers or times out.

**`Sure`.** The live monitor decides by what it observed, and some observations mislead
it: a second baseline of a room that was being watched, an end that is taken (from a
signal alone, or from an answer that another overtook) while the broadcast it knows is
still on, an answer about an older broadcast than the one it saw last. `misled` counts
them, and the safety properties of `LiveRoom` hold up to the first. `live_race` shows what
one of them costs without any failure; the constraint `Sure` cuts the runs there. All
other stale answers are part of the runs: the epoch and the second look under the lock
are what makes the properties hold.

## Findings

Three runs are expected to fail, each for a disagreement met while modelling; the
counterexample of TLC is the argument.

* `dynamic_lost_progress`: two `persist` calls of one uid overlap. The first copied memory
  before a checkpoint, the second commits the checkpoint, then the first commits and
  overwrites it. A crash before the next persist pushes to a served target again, which the
  documentation says does not happen. The live store serialises its writers; this one does not.
* `live_race`: the poll job and the task of a reload both find a room without a baseline.
  The one that comes second sets the status back, outside the lock and without a new
  epoch, after the first broadcast was announced: it is announced twice.
* `live_stale_start`: a start notice is pending, the bot restarts (room and broadcast are
  not restored), the end is signalled while the API does not answer: the handler returns
  before the pending start is given up. The next broadcast pushes the message prepared
  for the old one, and nothing announces the new one.

## Observations

What else the models met. Nothing in the repository says otherwise, so these are no
findings; where a property would fail it has an excuse that names the case.

* `MCDynamicOverlap`, `overtaken`: an answer that arrives after that of a later check is
  compared with the pin that was recorded before it was asked for (`dynamic_monitor.py`
  ~383, ~445). It may take the recorded pin back to the earlier one, so that the next check
  pushes the same pin again; or drop the snapshot of the pin that is being pushed (~399), so
  that the targets which were served get it again. TLC finds the first with two changes of
  the pin and no failure, the second with one failed send. `PinPushedOnce` allows one more
  push for each such step; `PinFollows` runs with one check slot.
* `ConfigReload` and `PollJob`, `raised` and `missed`: when the database raises while the row
  of a removed or a new target is deleted (`dynamic_monitor.py` ~253, ~267; the X monitor
  does the same), the callback ends there and the service goes on (`service.py` ~457). The
  new configuration is in force, but a monitor without targets stays up until the next
  reload, and the old poll job and index stay until one that changes the list, the mode or the
  interval.
* `start_dynamic_monitor`: a reload that comes while `init_resources` is awaited may register
  the poll job; if `init_resources` raises then, the instance is dropped and its job stays.
  No module has it.
* `PollJob`: a list in another order keeps the index, so that one target may be skipped in a
  cycle and another checked twice (`reordered`).
* `AdminTargets`, `overtook`: a request that changes a username back, and looks up in vain
  meanwhile another one renames the target, leaves the id of the other name with it
  (`targets.py` ~851).
* `DouyinLogin`: a poll that was aborted but still ends normally closes its session without
  a look at the epoch (`qrcode_login.py` ~594); a refresh that is cancelled while it waits
  for the poll leaves a session nobody closes (`stray`).
* `DanmakuClients`, `late`: a stop during the connection of `start()` leaves its socket open.
* `XDelivery`: a task of a former life that comes back from preparing media may take the
  new life's pending tweet off (`x_monitor.py` ~640); nothing is pushed wrongly, its
  progress is lost. A first baseline that is inserted after the blogger was disabled
  leaves a row (`Restored` is what a later life makes of it).
* `XDelivery`: a tweet is deleted while two checks are under way, one of which still has it.
  The batch that has it finds its media missing and takes the pending slot for it, and with
  that the progress of the tweet that another batch failed on halfway: the next attempt sends
  the parts of that one again (`x_monitor.py` ~640, ~767). TLC finds it with `MaxId = 3`, two
  checks and two tasks; `x_delivery` has one check, and the theorem about `PartOnce` excludes
  it (`Whole`).
* `CommandMatch`: two requests that save aliases and prefixes at the same time are each
  checked against the other's old value, and may store a configuration that the check
  refuses (`settings.py` ~127). A message is still answered by one command (`One`); that
  each trigger reaches its own (`Own`) is claimed of configurations that pass the check.
* `state_store.py` ~99 of the dynamic monitor: a persist that passed its check commits after
  the row was deleted; the row is taken up if the bot restarts before the uid is enabled
  again. It needs a crash between two reloads, which `dynamic_reload` leaves out.
* `pending_media.py`: after more than twelve hours of downtime the first persist of one
  monitor prunes files that the others' snapshots name. It needs a clock and two monitors.

## Proofs

Every theorem holds for all sets and bounds that the constants allow; what is assumed of
them is `ParamAssumption` and `NoneAssumption` (bounds are naturals, `None` is not a value)
unless a hypothesis is named. The inductive invariants of the monitors and of the configuration
were checked by TLC on small instances before their proofs. Each proof has one lemma per action
or group of actions.

### The dynamic monitor

`DynamicMonitorProofs!TypeCorrect`: `Spec => []TypeOK`. `TypeOK` is inductive as it stands
because it has the conjunct that a task whose message is in flight knows its target:
without it `SendOk` could mark the "target" `None` in history.

`CursorCorrect` (`NothingSkipped`) and `OrderCorrect` (`InOrder`),
without a hypothesis. `CursorInv` is the argument:

* `Queued`, `LifeOK`: of two tasks with the same lock one waits for the other, so in one
  life of the uid (a generation) one task at most moves the cursor.
* `InBatch`, `InOrderOf`: a batch leaves out no dynamic between the cursor and its last one,
  and is worked through in order. `Seen` is where this comes from: a check that is late
  may find a later dynamic pending only if it finds the earlier ones pending too.
* `Pushed`, `Serving`: what a task counts as pushed is owed to nobody; who is owed the
  dynamic in turn is in the queue, has failed, or is the target of the message in flight.
* `LastOK`, `PendOK`: any cursor in memory, row or a commit under way passes nothing that
  is owed, and is not ahead of memory; so a crash, or a commit that comes late, may
  only take the cursor back. Before the baseline it is behind all that an answer which is
  still on its way leaves open.

`DynamicMonitorProofs!OnceCorrect`: `AtMostOncePerLife`, if `MaxVanish = 0 \/ MaxReload <= 1`:
nothing leaves the list, or the uid is not enabled a second time. `OnceOf(i)`: a dynamic
that some task may still come to push to a target (`Unpushed`) was not sent there but
by a former process or with a lost receipt, a snapshot's targets that are not done were
not either, and one task at most is sending it. The hypothesis is needed: with
`MaxVanish = 1`, `MaxReload = 2` and two checks TLC finds a second push. A uid that is enabled
again after its newest dynamic was deleted takes a baseline older than what a late check
of the former life delivered. `dynamic_overlap` is within the hypothesis.

`DynamicMonitorProofs!HistoryKept`: `NoHistory`, if `MaxCrash = 0` and `MaxVanish = 0`. `HistInv`:
what a life may still push was published after the uid was enabled, and while it is disabled
none of its lives is on its way. A restart may find a row of a former life (the hazard at
`state_store.py:99`), and a deletion takes the baseline back as above. `dynamic_reload` is
within the hypotheses.

### The X monitor

`XDeliveryProofs!TypeCorrect`: `Spec => []TypeOK`. The types are not inductive: `SendOk` notes
the number of the next part in the pending slot, and that is a progress only if the slot
counts in the plan the task sends by. `TypeInv` adds the plan: each offset is within the plan
of its fingerprint (`PlanOK`), and while a task of the present life sends, the slot
has no other fingerprint than the task's (`TaskPlan`), since it alone has the lock (`Before`).

`XDeliveryProofs!NotesCorrect`: what memory and row note is true - a target noted as done is not
owed the tweet, the parts before the noted next one are with the target (`StateTrue`), and
who is owed a tweet lacks a part of it (`Lacks`). The same is carried for the copies that
are about to be committed and for the queues of all tasks, those of former lives included:
what is true stays true, since parts are never taken back and debts never grow for a tweet
that was published.

`XQueueProofs!QueueRefined`: `Spec => Queue`, the refinement of `TweetFeed`. `OrderInv` says
where each coroutine stands in the queue: a check has seen a lower part of the timeline
(`CheckOrder`), a batch leaves out nothing that is open (`InBatch`), the tweet in turn is
the first that is open (`AtHead`), and a task of a former life passes nothing (`TaskOrder`).
`SavedInv` says of the row, and of each copy on its way to it, that it lags behind memory
only by tweets that nobody is owed. Then every step is one of `TweetFeed` or a stutter:
`Publish` is its own and `Vanish` its `Delete`; a receipt or a refusal that ends a debt is
`Serve`; the settlement of an attempt, when it passes the tweet, is `Close`, or `GiveUp` after
the six hours; the first baseline is `Follow`; `ReloadStart` is `Leave`, `ReloadApply` and
`ReloadReset` are `StartOver`; `Crash` is a `Relapse` to what the row restores, or `StartOver`
where no baseline was stored; everything else is a stutter, `Restart` too.
Hypothesis `CrashParted`: a process crashes only in behaviours in which the blogger is never
disabled, because a late commit may bring back a deleted row, which a restart then takes
over. The scenarios of `x_delivery` are of this kind.

`XQueueProofs!HistoryCorrect`: `NoHistory` under the same hypothesis, while no tweet is deleted:
TLC shows that a check which does not see a deleted newest tweet takes an older baseline.

`XOnceProofs!PartOnceCorrect`: `Whole => PartOnce` in every state, under the same hypothesis:
as long as no tweet was deleted, no part reaches a target more than once, but for one copy per
crash, lost receipt and change of the configuration. The property counts copies in history,
which no step looks at; `OnceInv` ties them to what the next attempt will go by.

* `Spare` are the excuses so far; a change of the configuration counts when the process takes
  it over. A task of a former life that is still to prepare a message may drop what is
  pending (see *Observations*), so each one holds an excuse back (`Lates`, `Left`), which was
  earned when its life ended (`Credit`). There is one such task per life, since it has the
  lock; this is a cardinality over the lock epochs and not over the tasks.
* `FrontOnce`: of a tweet in the queue, the parts from the pending offset on were sent `Left`
  times at most, all parts if it has no offset that counts in the plan in force; a tweet
  that is not the first of the queue was not tried.
* `TaskOnce`: a target of the attempt is in one of four places - queue, turn, tried, done -
  and the same bound holds from the part noted there on (`Due`). A part that is sent moves the
  noted part by one, here and in the slot. Where the slot is not what the attempt goes
  by - another tweet took it, the plan changed, the target left - the next attempt starts over,
  so an excuse must be left (`Odd`, `Ease`).
* `LateOnce`: a task of a former life may send the one part that is in flight, since
  `can_send` is asked before each.
* `Apart`: no two tasks have the same tweet in turn, former lives included. This rests on the
  order that `QueueInv` gives.

The hypothesis `Whole` is needed: see the deleted tweet under *Observations*.

### The live monitor

`LiveRoomProofs!TypeCorrect`: `Spec => []TypeOK`, for any sets of targets and slots and any
bounds, `MaxStream` not 0 (a broadcast may be on air at the start). That a message is about a
known broadcast is not inductive: `TypeInv` adds what a handler may rely on. An answer is
about a broadcast that has begun (`SnapOK`); a start notice that is pending was seen live, so
that a late one knows what it is about (`LastKnown`); what a handler does under the lock
follows from its answer, its plan is a rest of one that `Enter` makes, and while it pushes it
knows what about (`HandlerOK`).

`LiveOnceProofs!OnceCorrect`: `Spec => []OncePerBroadcast`, without a hypothesis beyond the
excuses that the property names and the constants' assumptions. `Safe` is the invariant; all of
it but types, world and lock ends with the first misled observation.

* `WorldInv`, `LockInv`: the reload, the process and the lives of the room go together; the
  handlers that wait for the lock are in one order, and who has it waits for nobody.
* `Had` and `Told`: the targets that got a notice once more than the excuses account for, and
  the broadcasts that some target knows of or is about to. They are sets, so that neither the
  number of targets nor of copies matters.
* `StateOK`, `Known`: what is told is known to the state object of the present life - while it
  is live every start that was told is at most the latest broadcast it knows, every end
  is earlier; while it is not, what was told to begin is over. This is why a baseline
  after `init` must not repeat a start.
* `PendTold`: a prepared notice has yet to reach only targets that are not done, and one that is
  not prepared is about a broadcast nobody was told of.
* `CheckInv`: an answer may be of any age, but if the epoch is still that of the observation,
  a broadcast it shows is news when the status is not live. The second look under the lock
  keeps it so for a handler that waited (`QueueInv`: nobody waits behind one who changes the
  status, to change it back).
* `HolderInv`: what the holder of the lock pushes is pending, about the broadcast it has noted,
  and its queue is disjoint from who has it.
* `ForeignInv`: a push of a former life that is under way finds no prepared message in this
  one, so the target it reaches is not reached again without an excuse.

Each step of a handler has a `Shape`: it moves itself, changes the state object of its own life
only, and spends no reload. World, lock and the other handlers are kept by the shape; what
is left is shown action by action.

### Configuration and titles

`ConfigReloadProofs`: `TypeCorrect`, `ReloadSingle`, `AnsweredApplied`,
`InstancesCurrent` and `SnapshotForward`, for any sets of requests, tasks, monitors and
bots and any bounds, from `ParamAssumption` and `NoneAssumption`. None of `SingleFlight`,
`Applied` and `Current` is inductive: that an answered request is applied depends on what
the task it awaited had read, and on which callbacks are left. `Inv` says so:

* `OneTask`: only the task in `_reload_task` runs. So nobody waits for another one, and
  when a task ends all who wait are answered.
* `Versions`: `ack <= snapshot <= what was read <= database`, and callbacks run on the
  snapshot that was just set.
* `Waiters`: what a waiting request saved is in the snapshot, or in what was read, or
  another round is due. `Reload` sets `_reload_pending` for exactly this; the mutant
  `ReloadJoin` drops it.
* `Instances`: an instance is registered, not older than the last answer, and on the
  snapshot unless its callback is still to come. `LoadSet` takes all registered monitors
  as callbacks, and a monitor registers before it makes its instance: this is why an
  instance that is starting when the snapshot changes is not left behind.

### The services

`ServiceProofs` has a theorem for each promise of `Background` and `Services`, in sections that
do not use each other; the constants and variables have the names those modules give them. What
a theorem assumes of the parameters is in the definition named here, and is no more than what
the code has.

* `QuotaHolds` (`Quota`), for any finite set of commands, any natural limits and any
  number of days, edits, lost receipts and crashes (`TitleParameters`). The count of a day is the
  cardinality of the commands that hold a place on it, a command knows a limit that was
  once in force (`Known`), a place is released only if it was taken (`Taken` - a command
  under no limit never gets there), and the titles whose place was given back are at most
  the lost receipts (`Astray`). That there is a highest limit is part of the invariant,
  since it follows from the set being finite only by induction.
* `ClientsClosed` (`Closed`), without a hypothesis. `Ending` says of each place
  that `stop()` has reached what is over by then and stays so: the flag and the heartbeat,
  then the message loop, then the reconnect, then the socket. The connection that a stop
  does not end is that of `start()` itself, which is the excuse `late`.
* `PagesUndisturbed` (`Undisturbed`), for finitely many callers and at least one slot
  (`ShotParameters`). A service that replaces the browser holds all slots, a capture that does
  so has the lock `init` and has found the browser dead; slots are counted as a set of
  pairs, so that who holds all leaves none to others (`AllSlots`).
* `PartsInOneGo` (`InOneGo`): a message has a part, limits are naturals
  (`SendParameters`). `Copies`: of the parts before the noted next one each is in the chat, at
  most once more than receipts were lost; that next one only if its receipt was lost; none
  behind it.
* `FilesOfHandlers` (`Files`), for `Pipeline \in Nat`. What is on the disk is what
  handlers say they have (`DiskKept`), a handler has files only while it has a place
  (`Working`), and places are at most `Pipeline` (`PipeKept`).
* `JobScheduled` (`Scheduled`): a mapping lists a target once (`PollParameters`). `Even`:
  there is a position from which the targets that were passed are one turn ahead of all
  others, but for one more turn for each new order of the list; it begins anew with each
  other change of the list. `JobKept`: during a reload the job is that of the old or of the
  new settings, unless a reload raised (`missed`). Both sides of a start and of a reload, and
  one that raises, are steps of their own.
* `TargetsKept` (`Kept`): `None` is neither an id nor a row,
  and requests give numbers (`TableParameters`). A request that is about to write has a
  profile of the key it looked up, or none; where it does not change the key, the row still
  has it (`Asked`) - this is what the completion of names could break, and `overtook` is the
  case where a second request does.
* `AccountGuarded` (`Guarded`): a transaction is of a request, and a request is neither
  `None` nor `"committed"` (`AuthParameters`). A token has the password of the hash it is bound
  to; there is an account exactly if the row "setup completed" is committed, and who inserts it
  holds that row; a change that is about to be stored has proved the password of the hash it
  has read (`Proved`), and `Unchanged` compares that hash with the account's.

### Only model-checked

* All liveness (`EverythingDelivered`, `Passes`, `Announced`, `Recovers` and the like), and what
  needs `ENABLED`: there is no backend for fairness.
* `MCDynamicOverlap!PinPushedOnce` sums over a function with a fold (`MapThenSumSet`), and
  `RustShop!Ledger` over the members: what a fold returns needs induction over data. So does
  `AdminAuth!Limited` of the stamps that `SelectSeq` keeps.
* `LinkMessage` and `CommandMatch` (`Answered`) and the history of `LogStream`
  (`Streamed`) compute with sequences and recursive operators, `SchemaRepair` (`Migrated`) with
  the table of the 28 migrations.
* Not proved, though nothing stands in the way: what `LiveRoom` promises of the order of its
  notices (`InOrder`, `NoBaselinePush`), `Outbound!Budget`, `LinkParser!LastMenu`,
  `BilibiliAccounts` and `DouyinLogin` (`Logins`).

## Not modelled

* **Cards, security, frontend, scripts, deployment**: layout, cryptography, or not part of
  the process.
* **Video monitor, status check, image detector, group and private guards**: one request,
  one answer, decided from the snapshot; there is no state across steps that could go
  wrong, and a model would restate the code.
* **The query commands of the monitors**: they read the API and answer. Manual checks,
  which change state, are in `PollJob`.
* **Subscription filters** (types of dynamics, kinds of live notices per target) and
  **resuming inside one target** in the dynamic and live monitors: the bookkeeping of parts
  is that of `XDelivery`.
* **API clients**: what the monitors see of them is an outcome - an answer that was current
  at some time during the request, or none. Parsing and signing are data.
* **RCON framing and the permissions of custom commands; policies**: formats and merges
  without interleaving.
* **Pruning of pending media by age**: see *Observations*.
* **Several uids, rooms or bloggers in one monitor**: they share the poll job, which is
  `PollJob`, and no state that a check of one writes for another.
* **Clocks**: an expiry may happen at any time it is tested; `AdminAuth`, whose limiter is a
  window, has one.
* **The shutdown hook**, which ends the process.

## Plan

Done: the monitors with their runs (`DynamicMonitor`, `LiveRoom`, `XDelivery` with
`TweetFeed`), configuration and lifecycle, the background modules, the services, and the
proofs above. Next, in this order:

1. `LiveRoom`: `NoBaselinePush` and `InOrder`, from `Safe`.
2. `Outbound!Budget`, `LinkParser!LastMenu`, `DouyinLogin` and `BilibiliAccounts`, in
   `ServiceProofs`.
3. `PendingMedia` with a clock, shared by two monitors; the subscription filter of the live
   monitor; the merging of policies.
