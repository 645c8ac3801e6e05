-------------------------- MODULE BilibiliAccounts --------------------------
(***************************************************************************)
(* The accounts at Bilibili that the admin logs in by QR code: one setting *)
(* holds them all, so that every login and removal reads, changes and      *)
(* writes it, and a second setting holds the cookie of the first for what  *)
(* knows of one only.  Requests at Bilibili take the accounts in turn.     *)
(***************************************************************************)
EXTENDS Integers, Sequences, FiniteSets, SequencesExt

CONSTANTS
  None,
  Request, Uid, Legacy, \* Legacy: the uid in the cookie of an installation of before
  MaxLogin, MaxReload, MaxUse, MaxBad \* bounds: logins and removals, reloads, uses, key losses

VARIABLES
  row,    \* bilibili_accounts_encrypted (None: never written) and bilibili_cookie_encrypted
  lock,   \* _bilibili_accounts_lock
  req,
  pool,   \* BilibiliAccountPool
  have,   \* history: the accounts logged in and not removed since
  uses,   \* history: of each account of the pool since it changed
  spent

vars == <<row, lock, req, pool, have, uses, spent>>

Account(u, c) == [uid |-> u, cookie |-> c]
Idle == [pc |-> "idle", kind |-> None, uid |-> None, read |-> <<>>]
Counts(accounts) == [i \in DOMAIN accounts |-> 0]

\* An installation of before, with one account, or a new one.
Init ==
  /\ \E old \in {0, 1} :
       /\ row = [accounts |-> None, cookie |-> old, bad |-> FALSE]
       /\ have = IF old = 0 THEN {} ELSE {Account(Legacy, old)}
       /\ pool = [accounts |-> IF old = 0 THEN <<>> ELSE <<Account(Legacy, old)>>, next |-> 0]
       /\ uses = IF old = 0 THEN <<>> ELSE <<0>>
  /\ lock = None /\ req = [r \in Request |-> Idle]
  /\ spent = [login |-> 1, reload |-> 0, use |-> 0, bad |-> 0]

\* load_accounts, of what the key still opens; cookie 0 stands for none
Stored ==
  IF row.accounts # None THEN row.accounts
  ELSE IF row.cookie = 0 THEN <<>> ELSE <<Account(Legacy, row.cookie)>>

Ask(r, kind, u) ==
  /\ req[r].pc = "idle" /\ spent.login < MaxLogin
  /\ req' = [req EXCEPT ![r] = [Idle EXCEPT !.kind = kind, !.uid = u, !.pc = "wait"]]
  /\ UNCHANGED <<row, lock, pool, have, uses, spent>>

Enter(r) == lock = None /\ lock' = r

\* Nothing is read to remove all; what cannot be read is not overwritten.
Read(r) ==
  /\ req[r].pc = "wait" /\ Enter(r)
  /\ req[r].kind = "remove" => \E a \in Range(Stored) : a.uid = req[r].uid
  /\ req' = [req EXCEPT ![r].pc = "save", ![r].read = IF req[r].kind = "clear" THEN <<>> ELSE Stored]
  /\ req[r].kind = "clear" \/ ~row.bad
  /\ UNCHANGED <<row, pool, have, uses, spent>>

Refused(r) ==
  /\ req[r].pc = "wait" /\ lock = None
  /\ \/ req[r].kind # "clear" /\ row.bad
     \/ req[r].kind = "remove" /\ \A a \in Range(Stored) : a.uid # req[r].uid
  /\ req' = [req EXCEPT ![r] = Idle]
  /\ UNCHANGED <<row, lock, pool, have, uses, spent>>

\* Every login brings another cookie.
Upserted(accounts, a) ==
  IF \E i \in DOMAIN accounts : accounts[i].uid = a.uid
    THEN [i \in DOMAIN accounts |-> IF accounts[i].uid = a.uid THEN a ELSE accounts[i]]
    ELSE Append(accounts, a)

Updated(r) ==
  CASE req[r].kind = "login"  -> Upserted(req[r].read, Account(req[r].uid, spent.login + 1))
    [] req[r].kind = "remove" -> SelectSeq(req[r].read, LAMBDA a : a.uid # req[r].uid)
    [] req[r].kind = "clear"  -> <<>>

First(accounts) == IF accounts = <<>> THEN 0 ELSE accounts[1].cookie

Save(r) ==
  /\ req[r].pc = "save"
  /\ row' = [accounts |-> Updated(r), cookie |-> First(Updated(r)), bad |-> FALSE]
  /\ lock' = None
  /\ req' = [req EXCEPT ![r].pc = "reload"]
  /\ have' = LET rest == {a \in have : a.uid # req[r].uid}
             IN  CASE req[r].kind = "login"  -> rest \cup {Account(req[r].uid, spent.login + 1)}
                   [] req[r].kind = "remove" -> rest
                   [] req[r].kind = "clear"  -> {}
  /\ spent' = [spent EXCEPT !.login = @ + 1]
  /\ UNCHANGED <<pool, uses>>

\* A request to save fails, or is cut off.
SaveFailed(r) ==
  /\ req[r].pc = "save" /\ spent.login < MaxLogin
  /\ lock' = None /\ req' = [req EXCEPT ![r] = Idle]
  /\ spent' = [spent EXCEPT !.login = @ + 1]
  /\ UNCHANGED <<row, pool, have, uses>>

\* configure
Configured(accounts) ==
  IF accounts = pool.accounts THEN pool ELSE [accounts |-> accounts, next |-> 0]

Loaded ==
  LET accounts == IF row.bad THEN <<>> ELSE Stored IN
  /\ pool' = Configured(accounts)
  /\ uses' = IF accounts = pool.accounts THEN uses ELSE Counts(accounts)

Reload(r) ==
  /\ req[r].pc = "reload" /\ Loaded
  /\ req' = [req EXCEPT ![r] = Idle]
  /\ UNCHANGED <<row, lock, have, spent>>

\* Something else in the settings was changed.
Reloaded ==
  /\ spent.reload < MaxReload /\ Loaded
  /\ spent' = [spent EXCEPT !.reload = @ + 1]
  /\ UNCHANGED <<row, lock, req, have>>

\* select_cookie
Use ==
  /\ spent.use < MaxUse /\ pool.accounts # <<>>
  /\ pool' = [pool EXCEPT !.next = @ + 1]
  /\ uses' = [uses EXCEPT ![(pool.next % Len(pool.accounts)) + 1] = @ + 1]
  /\ spent' = [spent EXCEPT !.use = @ + 1]
  /\ UNCHANGED <<row, lock, req, have>>

\* The key of the encryption changes: the accounts cannot be read any more.
KeyLost ==
  /\ spent.bad < MaxBad /\ lock = None /\ row.accounts \notin {None, <<>>}
  /\ row' = [row EXCEPT !.bad = TRUE]
  /\ spent' = [spent EXCEPT !.bad = @ + 1]
  /\ UNCHANGED <<lock, req, pool, have, uses>>

Next ==
  \/ \E r \in Request :
       \/ \E u \in Uid : Ask(r, "login", u) \/ Ask(r, "remove", u)
       \/ Ask(r, "clear", None)
       \/ Read(r) \/ Refused(r) \/ Save(r) \/ SaveFailed(r) \/ Reload(r)
  \/ Reloaded \/ Use \/ KeyLost

Spec == Init /\ [][Next]_vars

-----------------------------------------------------------------------------
(* Properties *)

\* No login is lost and no removal undone by another request, and none overwrites accounts
\* that it could not read; the cookie for what knows of one account is that of the first;
\* and reloads do not disturb the turns of the accounts.
Accounts ==
  /\ Range(Stored) = have /\ Cardinality(have) = Len(Stored)
  /\ row.cookie = (IF Stored = <<>> THEN 0 ELSE Stored[1].cookie)
  /\ \A i, j \in DOMAIN uses : uses[i] - uses[j] <= 1
=============================================================================
