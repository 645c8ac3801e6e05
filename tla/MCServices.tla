----------------------------- MODULE MCServices -----------------------------
(***************************************************************************)
(* Twelve components that share no state, one of them in each behaviour:   *)
(* the others stay in an initial state.                                    *)
(***************************************************************************)
EXTENDS Services, Integers, Sequences, FiniteSets

VARIABLES
  part,
  binding, awarded, points, record, price, online, cache, command, today, earned, given,
  adjusted, shopSpent,                                             \* RustShop
  source, message, budget, batches, notice, preview,               \* LinkMessage
  session, tab, query, killed, stray, loginSpent,                  \* DouyinLogin
  level, sub, queue, stream, out,                                  \* LogStream
  team, aliases, extra, patch,                                     \* CommandMatch
  row, turn, change, pool, have, uses, poolSpent,                  \* BilibiliAccounts
  schema, version, boot, schemaSpent                               \* SchemaRepair

sendVars    == <<send, sendLock, event, got, taken, sendSpent>>
shopVars    == <<binding, awarded, points, record, price, online, cache, command, today,
                 earned, given, adjusted, shopSpent>>
titleVars   == <<setting, owner, usage, request, day, applied, limits, titleSpent>>
tableVars   == <<kind, table, snapshot, req, fill, claimed, lookups, overtook, tableSpent>>
linkVars    == <<parser, videos, handler, userLock, pipe, sender, pending, disk, shown, linkSpent>>
messageVars == <<source, message, budget, batches, notice, preview>>
loginVars   == <<session, tab, query, killed, stray, loginSpent>>
logVars     == <<level, sub, queue, stream, out>>
wordVars    == <<team, aliases, extra, patch>>
authVars    == <<accounts, claim, hashes, tokens, auth, hits, now, log, lost, tries>>
poolVars    == <<row, turn, change, pool, have, uses, poolSpent>>
schemaVars  == <<schema, version, boot, schemaSpent>>
adminVars   == <<loginVars, logVars, wordVars, authVars, poolVars, schemaVars>>

vars == <<part, sendVars, shopVars, titleVars, tableVars, linkVars, messageVars, adminVars>>

Shop == INSTANCE RustShop WITH
  User <- {"u1", "u2"}, Steam <- {"s1", "s2"}, Call <- {"c1", "c2"}, Base <- 1, Bonus <- 2,
  Welcome <- 1, Costs <- {2}, MaxDay <- 1, MaxEdit <- 1, MaxCache <- 1, MaxCrash <- 1,
  call <- command, spent <- shopSpent

Body(key, name, groups, users) ==
  [key |-> key, name |-> name, groups |-> groups, users |-> users]

MCBodies ==
  {Body("a", None, None, None), Body("b", None, None, None),
   Body(None, "", None, None), Body(None, None, 0, None), Body(None, None, None, 0)}

Parsed == INSTANCE LinkMessage WITH
  MaxLen <- 5, MaxMedia <- 2, MaxBudget <- 3, parser <- source

Login == INSTANCE DouyinLogin WITH
  Tab <- {"t1", "t2"}, MaxAsk <- 5, MaxFail <- 1, MaxGone <- 1,
  req <- query, spent <- loginSpent

Stream == INSTANCE LogStream WITH
  Levels <- {10, 20, 30}, History <- 3, Size <- 1, Passes <- 1, Handoffs <- 2, MaxLog <- 4

Words == {<<"a">>, <<"a", "b">>, <<"/", "a">>, <<"a", " ", "b">>, <<"b", "a">>, <<"b">>}
Match == INSTANCE CommandMatch WITH
  Words <- Words, Start <- {<<"/">>}, Extras <- {{}, {<<"a">>}},
  Text <- {p \o w \o s : p \in {<<>>, <<"/">>, <<"a">>}, w \in Words,
                         s \in {<<>>, <<" ", "b">>, <<"b">>, <<"1">>, <<"#">>}},
  Teams <- {{"extract", "live", "status"}, {"title", "latest", "status"},
            {"shop_list", "extract", "shop_redeem"}, {"live", "title", "bind"}},
  config <- aliases

Pool == INSTANCE BilibiliAccounts WITH
  Request <- {"r1", "r2"}, Uid <- {"u1", "u2"}, Legacy <- "u1", MaxLogin <- 3,
  MaxReload <- 1, MaxUse <- 2, MaxBad <- 1, lock <- turn, req <- change, spent <- poolSpent

Schema == INSTANCE SchemaRepair WITH
  Synced <- 7, Candidates <- 2, MaxStart <- 3, MaxFail <- 2, bot <- boot, spent <- schemaSpent

\* Bounds on what goes wrong, and on what happens beside the requests, in one behaviour.
Within ==
  /\ sendSpent.fail + sendSpent.lost + sendSpent.cut + sendSpent.other <= 2
  /\ today + shopSpent.edit + shopSpent.cache + shopSpent.crash <= 1
  /\ day + titleSpent.edit + titleSpent.lost + titleSpent.crash <= 1
  /\ tableSpent.ask + tableSpent.list + tableSpent.found <= 2
  /\ loginSpent.fail + loginSpent.gone <= 1

-----------------------------------------------------------------------------
\* Of the calls of the outbound adapter, c alone takes a step.
Only(c) == \A d \in DOMAIN send \ {c} : send'[d] = send[d]

Init ==
  /\ part \in {"push", "onebot", "shop", "title", "table", "videos", "members",
              "message", "login", "log", "words", "auth", "pool", "schema"}
  /\ Send!Init
  /\ Shop!Init    /\ (part # "shop" => online = {})
  /\ Title!Init   /\ (part # "title" => setting.limit = 0)
  /\ Table!Init   /\ (part # "table" => kind = "live" /\ snapshot["i1"].key = "a")
  /\ Parsing!Init
  /\ part \notin {"videos", "members"} => parser = "x"
  /\ Parsed!Init /\ (part # "message" => source = "x" /\ message = <<>> /\ budget = None)
  /\ Login!Init
  /\ Stream!Init /\ (part # "log" => sub.threshold = 10)
  /\ Match!Init  /\ (part # "words" => "bind" \in team /\ extra = {})
  /\ Auth!Init
  /\ Pool!Init   /\ (part # "pool" => row.cookie = 0)
  /\ Schema!Init

Next ==
  \* A message to an official target beside two replies to one event, or one to a numeric id,
  \/ /\ part \in {"push", "onebot"} /\ Send!Next
     /\ IF part = "push" THEN send'["o1"] = send["o1"] ELSE Only("o1") /\ sendSpent'.other = 0
     /\ UNCHANGED <<part, shopVars, titleVars, tableVars, linkVars, messageVars, adminVars>>
  \/ /\ part = "shop" /\ Shop!Next
     /\ UNCHANGED <<part, sendVars, titleVars, tableVars, linkVars, messageVars, adminVars>>
  \/ /\ part = "title" /\ Title!Next
     /\ UNCHANGED <<part, sendVars, shopVars, tableVars, linkVars, messageVars, adminVars>>
  \/ /\ part = "table" /\ Table!Next
     /\ UNCHANGED <<part, sendVars, shopVars, titleVars, linkVars, messageVars, adminVars>>
  \* ... one member who asks for two videos, or two members for one video
  \/ /\ part \in {"videos", "members"} /\ Parsing!Next
     /\ \A h \in Handler : IF part = "videos" THEN handler'[h].user # "u2"
                                                 ELSE handler'[h].video # "v2"
     /\ UNCHANGED <<part, sendVars, shopVars, titleVars, tableVars, messageVars, adminVars>>
  \/ /\ part = "message" /\ Parsed!Next
     /\ UNCHANGED <<part, sendVars, shopVars, titleVars, tableVars, linkVars, adminVars>>
  \/ /\ \/ /\ part = "login" /\ Login!Next
           /\ UNCHANGED <<logVars, wordVars, authVars, poolVars, schemaVars>>
        \/ /\ part = "log" /\ Stream!Next
           /\ UNCHANGED <<loginVars, wordVars, authVars, poolVars, schemaVars>>
        \/ /\ part = "words" /\ Match!Next
           /\ UNCHANGED <<loginVars, logVars, authVars, poolVars, schemaVars>>
        \/ /\ part = "auth" /\ Auth!Next
           /\ UNCHANGED <<loginVars, logVars, wordVars, poolVars, schemaVars>>
        \/ /\ part = "pool" /\ Pool!Next
           /\ UNCHANGED <<loginVars, logVars, wordVars, authVars, schemaVars>>
        \/ /\ part = "schema" /\ Schema!Next
           /\ UNCHANGED <<loginVars, logVars, wordVars, authVars, poolVars>>
     /\ UNCHANGED <<part, sendVars, shopVars, titleVars, tableVars, linkVars, messageVars>>

Spec == Init /\ [][Next]_vars

-----------------------------------------------------------------------------
(* Properties, beside the promises of Services *)

\* What is counted is accounted for: every point of the shop, the replies to an event, the
\* attempts to log in within the limits.
Balanced ==
  /\ part = "shop" => Shop!Ledger
  /\ part = "push" => Send!Budget
  /\ part = "auth" => Auth!Limited

\* A message is answered by one command at most, a trigger by its own; a number is taken for
\* a page of the menu that was seen last.  The messages of a parsed link lose nothing, repeat
\* nothing and keep the order; the official reply fits the budget of its event and owns up
\* to omissions.
Answered ==
  /\ part = "words" => Match!One /\ Match!Own
  /\ part \in {"videos", "members"} => Parsing!LastMenu
  /\ part = "message" => Parsed!Complete /\ Parsed!WithinBudget

\* No browser of a login is left behind, or closed under a request that took it over; no
\* account at Bilibili is lost or out of turn.
Logins ==
  /\ part = "login" => Login!Claimed
  /\ part = "pool" => Pool!Accounts

\* The live log is in order and complete.
Streamed == part = "log" => Stream!Streamed

\* Whatever releases ran before: one that is up has its schema, and none fails for a version
\* that was lost.
Migrated == part = "schema" => Schema!Migrated
=============================================================================
