------------------------------ MODULE RustShop ------------------------------
(***************************************************************************)
(* plugins/rust_player and shared/rust_player: the points that the members *)
(* of one group earn by binding a Steam account and by checking in, and    *)
(* spend in the shop.  A handler awaits one database session or one RCON   *)
(* call after another; a session is a transaction.                         *)
(***************************************************************************)
EXTENDS Integers, FiniteSets, FiniteSetsExt

CONSTANTS
  User, Steam,   \* QQ members, SteamID64s
  Call,          \* commands that may be running
  Base, Bonus, Welcome, \* points of a check-in, of being online at it, of the first binding
  Costs,         \* prices the admin may set for the item
  None,
  MaxDay, MaxEdit, MaxCache, MaxCrash \* bounds: midnights, edits by the admin, expiries of
                 \* the cache, crashes

VARIABLES
  binding, \* RustSteamBinding
  awarded, \* RustSteamBindBonusAwarded
  points,  \* RustPlayerPoints
  record,  \* RustCheckInRecord of today: the online bonus it earned
  price,   \* RustShopItem: points_cost of the item, None if it is not enabled
  online,  \* Steam accounts that play on the server
  cache,   \* rcon_online_cache
  call,    \* the handlers
  today, earned, \* history: the days on which each reward was given to a user
  given,   \* history: commands whose item the server has given
  adjusted, \* history: what the admin added by setting the points of a user
  spent

vars == <<binding, awarded, points, record, price, online, cache, call, today, earned,
          given, adjusted, spent>>
store == <<binding, awarded, points, record, price>>
past  == <<today, earned, given, adjusted, spent>>

Init ==
  /\ binding = [u \in User |-> None] /\ awarded = {}
  /\ points = [u \in User |-> None] /\ record = [u \in User |-> None]
  /\ price \in Costs /\ online \in SUBSET Steam
  /\ cache = [u \in User |-> None]
  /\ call = [c \in Call |-> [pc |-> "idle", user |-> None, steam |-> None, online |-> FALSE,
                             fresh |-> TRUE, cost |-> 0]]
  /\ today = 0 /\ earned = {} /\ given = {}
  /\ adjusted = [u \in User |-> 0]
  /\ spent = [edit |-> 0, cache |-> 0, crash |-> 0]

At(c, pc)   == call[c].pc = pc
Goto(c, pc) == call' = [call EXCEPT ![c].pc = pc]
Used(f)     == spent' = [spent EXCEPT ![f] = @ + 1]
Balance(u)  == IF points[u] = None THEN 0 ELSE points[u]
\* _add_points_in_session, add_group_points: the row is made when there is none.
Add(u, n)   == points' = [points EXCEPT ![u] = Balance(u) + n]
Bound(s)    == \E u \in User : binding[u] = s

-----------------------------------------------------------------------------
(* Binding a Steam account: create_steam_binding is one transaction *)

\* Neither the member nor the account had the bonus before.
Welcomed(u, s) == \A a \in awarded : a[1] # u /\ a[2] # s

Bind(u, s) ==
  /\ binding[u] = None /\ ~Bound(s)
  /\ binding' = [binding EXCEPT ![u] = s]
  /\ IF Welcomed(u, s)
       THEN /\ awarded' = awarded \cup {<<u, s>>} /\ Add(u, Welcome)
            /\ earned' = earned \cup {<<u, "welcome", 0>>}
       ELSE UNCHANGED <<awarded, points, earned>>
  /\ UNCHANGED <<record, price, online, cache, call, today, given, adjusted, spent>>

-----------------------------------------------------------------------------
(* The admin *)

Unbind(u) ==
  /\ binding[u] # None /\ spent.edit < MaxEdit /\ Used("edit")
  /\ binding' = [binding EXCEPT ![u] = None]
  /\ UNCHANGED <<awarded, points, record, price, online, cache, call, today, earned, given,
                 adjusted>>

SetPoints(u, n) ==
  /\ spent.edit < MaxEdit /\ Used("edit")
  /\ points' = [points EXCEPT ![u] = n]
  /\ adjusted' = [adjusted EXCEPT ![u] = @ + n - Balance(u)]
  /\ UNCHANGED <<binding, awarded, record, price, online, cache, call, today, earned, given>>

EditItem(p) ==
  /\ p # price /\ spent.edit < MaxEdit /\ Used("edit")
  /\ price' = p
  /\ UNCHANGED <<binding, awarded, points, record, online, cache, call, today, earned, given,
                 adjusted>>

-----------------------------------------------------------------------------
(* A check-in: _handle_checkin *)

CheckIn(c, u) ==
  /\ At(c, "idle")
  /\ call' = [call EXCEPT ![c].pc = "state", ![c].user = u, ![c].steam = binding[u]]
  /\ UNCHANGED <<store, online, cache, past>>

\* needs_rcon_online_check; the first check-in of a day may use the cache.
CheckState(c) ==
  /\ At(c, "state")
  /\ LET u == call[c].user
         needed == call[c].steam # None /\ record[u] \in {None, 0}
         known  == needed /\ record[u] = None /\ cache[u] # None
     IN call' = [call EXCEPT ![c].pc = IF needed /\ ~known THEN "query" ELSE "perform",
                             ![c].fresh = record[u] = None,
                             ![c].online = known /\ cache[u]]
  /\ UNCHANGED <<store, online, cache, past>>

\* The server answers who is online.
Query(c) ==
  /\ At(c, "query")
  /\ LET there == call[c].steam \in online
     IN /\ call' = [call EXCEPT ![c].pc = "perform", ![c].online = there]
        /\ cache' = IF call[c].fresh THEN [cache EXCEPT ![call[c].user] = there] ELSE cache
  /\ UNCHANGED <<store, online, past>>

\* It cannot be asked: who has checked in already is told to try again.
QueryFailed(c) ==
  /\ At(c, "query")
  /\ Goto(c, IF call[c].fresh THEN "perform" ELSE "done")
  /\ UNCHANGED <<store, online, cache, past>>

Reward(c, kinds, n) ==
  /\ Add(call[c].user, n)
  /\ earned' = earned \cup {<<call[c].user, k, today>> : k \in kinds}

\* perform_check_in: the online bonus of an existing record was not given yet.
Eligible(c) == call[c].steam # None /\ record[call[c].user] = 0

Perform(c) ==
  /\ At(c, "perform") /\ Goto(c, "done")
  /\ LET u == call[c].user
         bonus == IF call[c].steam # None /\ call[c].online THEN Bonus ELSE 0
     IN IF record[u] = None
          THEN /\ record' = [record EXCEPT ![u] = bonus]
               /\ Reward(c, {"base"} \cup IF bonus > 0 THEN {"bonus"} ELSE {}, Base + bonus)
        ELSE IF Eligible(c) /\ call[c].online
          THEN record' = [record EXCEPT ![u] = Bonus] /\ Reward(c, {"bonus"}, Bonus)
        ELSE UNCHANGED <<record, points, earned>>
  /\ UNCHANGED <<binding, awarded, price, online, cache, today, given, adjusted, spent>>

-----------------------------------------------------------------------------
(* A purchase: _handle_shop_redeem *)

Redeem(c, u) ==
  /\ At(c, "idle") /\ binding[u] # None
  /\ call' = [call EXCEPT ![c].pc = "find", ![c].user = u, ![c].steam = binding[u]]
  /\ UNCHANGED <<store, online, cache, past>>

\* find_shop_item_by_identifier
Find(c) ==
  /\ At(c, "find")
  /\ call' = IF price = None THEN [call EXCEPT ![c].pc = "done"]
             ELSE [call EXCEPT ![c].pc = "deduct", ![c].cost = price]
  /\ UNCHANGED <<store, online, cache, past>>

\* deduct_group_points: a conditional update.
Deduct(c) ==
  /\ At(c, "deduct")
  /\ IF Balance(call[c].user) >= call[c].cost
       THEN Add(call[c].user, -call[c].cost) /\ Goto(c, "give")
       ELSE Goto(c, "done") /\ UNCHANGED points
  /\ UNCHANGED <<binding, awarded, record, price, online, cache, past>>

\* giveto: the server gives the item to a player who is online; then the answer may
\* be lost.
Give(c, pc) ==
  /\ At(c, "give") /\ call[c].steam \in online
  /\ given' = given \cup {c} /\ Goto(c, pc)
  /\ UNCHANGED <<store, online, cache, today, earned, adjusted, spent>>

\* Mutation of Unknown: the points are given back.
UnknownRefunded(c) ==
  /\ At(c, "give") /\ Goto(c, "refund")
  /\ given' \in {given, given \cup {c}}
  /\ UNCHANGED <<store, online, cache, today, earned, adjusted, spent>>

\* No connection, or no answer in time: the points are kept.
Unknown(c) ==
  /\ At(c, "give") /\ Goto(c, "unknown")
  /\ UNCHANGED <<store, online, cache, past>>

\* The password or the command is rejected.
Rejected(c) ==
  /\ At(c, "give") /\ Goto(c, "refund")
  /\ UNCHANGED <<store, online, cache, past>>

Refund(c) ==
  /\ At(c, "refund") /\ Goto(c, "done")
  /\ Add(call[c].user, call[c].cost)
  /\ UNCHANGED <<binding, awarded, record, price, online, cache, past>>

-----------------------------------------------------------------------------
(* Around the bot *)

Plays(s) ==
  /\ online' = IF s \in online THEN online \ {s} ELSE online \cup {s}
  /\ UNCHANGED <<store, cache, call, past>>

Midnight ==
  /\ today < MaxDay
  /\ today' = today + 1 /\ record' = [u \in User |-> None]
  /\ UNCHANGED <<binding, awarded, points, price, online, cache, call, earned, given,
                 adjusted, spent>>

\* _CHECKIN_RCON_COOLDOWN_SEC
Expire(u) ==
  /\ cache[u] # None /\ spent.cache < MaxCache /\ Used("cache")
  /\ cache' = [cache EXCEPT ![u] = None]
  /\ UNCHANGED <<store, online, call, today, earned, given, adjusted>>

\* The handlers are gone, the rows stay.
Crash ==
  /\ spent.crash < MaxCrash /\ Used("crash")
  /\ call' = [c \in Call |-> [call[c] EXCEPT !.pc =
                IF @ \in {"give", "refund", "unknown"} THEN "unknown" ELSE IF @ = "idle" THEN @ ELSE "done"]]
  /\ cache' = [u \in User |-> None]
  /\ UNCHANGED <<store, online, today, earned, given, adjusted>>

CallNext(c) ==
  \/ \E u \in User : CheckIn(c, u) \/ Redeem(c, u)
  \/ CheckState(c) \/ Query(c) \/ QueryFailed(c) \/ Perform(c)
  \/ Find(c) \/ Deduct(c) \/ Give(c, "done") \/ Give(c, "unknown")
  \/ Unknown(c) \/ Rejected(c) \/ Refund(c)

Next ==
  \/ \E c \in Call : CallNext(c)
  \/ \E u \in User, s \in Steam : Bind(u, s)
  \/ \E u \in User : Unbind(u) \/ SetPoints(u, 0) \/ Expire(u)
  \/ \E p \in Costs \cup {None} : EditItem(p)
  \/ \E s \in Steam : Plays(s)
  \/ Midnight \/ Crash

Spec == Init /\ [][Next]_vars

-----------------------------------------------------------------------------
(* Properties *)

Worth(reward) ==
  CASE reward[2] = "base" -> Base [] reward[2] = "bonus" -> Bonus [] OTHER -> Welcome

\* A purchase that took place, or may have: the item was given, is being given, or
\* nobody knows.
Charged(c) == c \in given \/ call[c].pc \in {"give", "refund", "unknown"}

\* Every point is accounted for: a member has what he earned - each reward once a day,
\* the first binding once for the member and once for the account - and what the admin
\* added, without the price of what was given to him or may have been.
Ledger ==
  /\ \A a, b \in awarded : a[1] = b[1] \/ a[2] = b[2] => a = b
  /\ \A u \in User :
    LET rewards == MapThenSumSet(Worth, {e \in earned : e[1] = u})
        paid == MapThenSumSet(LAMBDA c : call[c].cost,
                              {c \in Call : call[c].user = u /\ Charged(c)})
    IN /\ Balance(u) = rewards + adjusted[u] - paid
       /\ Balance(u) >= 0
=============================================================================
