------------------------------ MODULE Services ------------------------------
(***************************************************************************)
(* Services for requests and commands, for any values of their parameters, *)
(* and what is promised of each whatever the others do: they share no      *)
(* state.                                                                  *)
(***************************************************************************)
CONSTANTS
  None,
  Push, Replies, OneBot, Bots, Parts, ReplyLimit,
  SendFails, SendLost, SendCuts, SendOther, SendTries,                 \* Outbound
  TitleCalls, Limits, TitleDays, TitleEdits, TitleLost, TitleCrashes,  \* TitleQuota
  Kind, AdminRequests, Id, Key, Manual, Bodies,
  TableAsks, TableLists, TableFinds,                                   \* AdminTargets
  Parser, Handler, User, Video, Pipeline, MaxPending, LinkParts,
  LinkFails, LinkExpiries,                                             \* LinkParser
  Address, Password, PerAddress, PerName, Window, LoginTime, LoginTries \* AdminAuth

VARIABLES
  send, sendLock, event, got, taken, sendSpent,                         \* Outbound
  setting, owner, usage, request, day, applied, limits, titleSpent,     \* TitleQuota
  kind, table, snapshot, req, fill, claimed, lookups, overtook, tableSpent, \* AdminTargets
  parser, videos, handler, userLock, pipe, sender, pending, disk, shown, linkSpent, \* LinkParser
  accounts, claim, hashes, tokens, auth, hits, now, log, lost, tries    \* AdminAuth

Send == INSTANCE Outbound WITH
  Reply <- Replies, Limit <- ReplyLimit,
  MaxFail <- SendFails, MaxLost <- SendLost, MaxCut <- SendCuts, MaxOther <- SendOther,
  MaxTry <- SendTries, call <- send, lock <- sendLock, spent <- sendSpent
Title == INSTANCE TitleQuota WITH
  Call <- TitleCalls, MaxDay <- TitleDays, MaxEdit <- TitleEdits, MaxLost <- TitleLost,
  MaxCrash <- TitleCrashes, call <- request, today <- day, spent <- titleSpent
Table == INSTANCE AdminTargets WITH
  Request <- AdminRequests,
  MaxAsk <- TableAsks, MaxList <- TableLists, MaxFound <- TableFinds, spent <- tableSpent
Parsing == INSTANCE LinkParser WITH
  Parts <- LinkParts, MaxFail <- LinkFails, MaxExpire <- LinkExpiries, send <- videos,
  task <- handler, lock <- userLock, spent <- linkSpent
Auth == INSTANCE AdminAuth WITH
  Request <- AdminRequests, MaxTime <- LoginTime, MaxTry <- LoginTries, req <- auth, users <- accounts

\* The parts of a message arrive in order, and once unless a receipt was lost.
InOneGo == Send!InOneGo

\* The count of a day is the number of titles of that day.
Quota == Title!Quota

\* Keys are unique, targets have somebody to notify, lists cost few lookups, and an X
\* target has the id of its own account.
Kept == Table!Kept /\ Table!OwnProfile

\* Every file on the disk is of a handler at work, and none loses its own.
Files == Parsing!Files

\* One account is set up, and tokens and changes of the password prove the password in
\* force.
Guarded == Auth!Guarded
=============================================================================
