----------------------------- MODULE AdminAuth -----------------------------
(***************************************************************************)
(* The account of the admin page: the first setup, logins behind a         *)
(* limiter, and changes of the password, from requests that run            *)
(* concurrently.  Hashing runs in a thread, and every hash is another one. *)
(***************************************************************************)
EXTENDS Integers, Sequences, FiniteSets

CONSTANTS
  None,
  Request, Address, Password,
  PerAddress, PerName, Window, \* MAX_FAILURES_PER_IP, _PER_USERNAME, WINDOW_SECONDS
  MaxTime, MaxTry              \* bounds: time, and requests

VARIABLES
  users,  \* the rows of User: the hash of each
  claim,  \* the row "setup completed": None, a transaction, or "committed"
  hashes, \* of every hash, the password
  tokens, \* handed out: the hash they are bound to, and what their owner proved
  req,
  hits,   \* LoginLimiter: stamps by address, and of the user name
  now,
  log,    \* history: the attempts that were let through
  lost,   \* history: a change replaced another password than its owner proved
  tries

vars == <<users, claim, hashes, tokens, req, hits, now, log, lost, tries>>

Idle == [pc |-> "idle", kind |-> None, addr |-> None, pw |-> None, new |-> None,
         hash |-> None, stamp |-> 0, at |-> 0]

Init ==
  /\ users = <<>> /\ claim = None /\ hashes = <<>> /\ tokens = {} /\ now = 0
  /\ req = [r \in Request |-> Idle]
  /\ hits = [addr |-> [a \in Address |-> <<>>], name |-> <<>>]
  /\ log = <<>> /\ lost = FALSE /\ tries = 0

Begin(r) == req[r].pc = "idle" /\ tries < MaxTry /\ tries' = tries + 1
End(r)   == req' = [req EXCEPT ![r] = Idle]

Tick ==
  /\ now < MaxTime
  /\ now' = now + 1
  /\ UNCHANGED <<users, claim, hashes, tokens, req, hits, log, lost, tries>>

-----------------------------------------------------------------------------
(* setup, claim_initial_setup *)

SetupBegin(r, p) ==
  /\ Begin(r) /\ users = <<>>
  /\ req' = [req EXCEPT ![r].kind = "setup", ![r].pc = "claim", ![r].pw = p]
  /\ UNCHANGED <<users, claim, hashes, tokens, hits, now, log, lost>>

\* The row is inserted, after the transaction that holds it; or that is refused.
SetupClaim(r) ==
  /\ req[r].pc = "claim"
  /\ \/ /\ claim = None /\ claim' = r
        /\ req' = [req EXCEPT ![r].pc = "insert"]
     \/ /\ claim = "committed"
        /\ End(r) /\ UNCHANGED claim
  /\ UNCHANGED <<users, hashes, tokens, hits, now, log, lost, tries>>

Token(h, p) == [hash |-> h, pw |-> p]

SetupCommit(r) ==
  LET h == Len(hashes) + 1 IN
  /\ req[r].pc = "insert"
  /\ hashes' = Append(hashes, req[r].pw)
  /\ users' = Append(users, h) /\ claim' = "committed"
  /\ tokens' = tokens \cup {Token(h, req[r].pw)}
  /\ End(r)
  /\ UNCHANGED <<hits, now, log, lost, tries>>

\* An error or a restart: the transaction is rolled back.
SetupFailed(r) ==
  /\ req[r].pc = "insert" /\ claim = r
  /\ claim' = None /\ End(r)
  /\ UNCHANGED <<users, hashes, tokens, hits, now, log, lost, tries>>

-----------------------------------------------------------------------------
(* login *)

Fresh(stamps) == SelectSeq(stamps, LAMBDA s : now - s < Window)

\* reserve: refused, or counted at once as a failure.
Login(r, a, p) ==
  LET byAddr == Fresh(hits.addr[a])
      byName == Fresh(hits.name)
  IN /\ Begin(r) /\ users # <<>>
     /\ IF Len(byAddr) >= PerAddress \/ Len(byName) >= PerName
          THEN /\ hits' = [addr |-> [hits.addr EXCEPT ![a] = byAddr], name |-> byName]
               /\ UNCHANGED <<req, log>>
          ELSE /\ hits' = [addr |-> [hits.addr EXCEPT ![a] = Append(byAddr, now)],
                           name |-> Append(byName, now)]
               /\ log' = Append(log, [addr |-> a, at |-> now, ok |-> FALSE, void |-> FALSE])
               /\ req' = [req EXCEPT ![r] = [Idle EXCEPT !.kind = "login", !.pc = "read",
                            !.addr = a, !.pw = p, !.stamp = now, !.at = Len(log) + 1]]
     /\ UNCHANGED <<users, claim, hashes, tokens, now, lost>>

LoginRead(r) ==
  /\ req[r].pc = "read"
  /\ req' = [req EXCEPT ![r].pc = "verify", ![r].hash = users[1]]
  /\ UNCHANGED <<users, claim, hashes, tokens, hits, now, log, lost, tries>>

\* release_success: one place of the address, all of the user name.
Returned(r) ==
  LET stamps == hits.addr[req[r].addr]
      i      == {j \in DOMAIN stamps : stamps[j] = req[r].stamp}
      first  == CHOOSE j \in i : \A k \in i : j <= k
  IN  [addr |-> [hits.addr EXCEPT ![req[r].addr] =
         IF i = {} THEN stamps
         ELSE SubSeq(stamps, 1, first - 1) \o SubSeq(stamps, first + 1, Len(stamps))],
       name |-> <<>>]

Bound(r) == req[r].hash

LoginVerified(r) ==
  /\ req[r].pc = "verify"
  /\ IF hashes[req[r].hash] = req[r].pw
       THEN /\ hits' = Returned(r)
            /\ log' = [i \in DOMAIN log |-> [log[i] EXCEPT !.ok = @ \/ i = req[r].at, !.void = TRUE]]
            /\ tokens' = tokens \cup {Token(Bound(r), req[r].pw)}
       ELSE UNCHANGED <<hits, log, tokens>>
  /\ End(r)
  /\ UNCHANGED <<users, claim, hashes, now, lost, tries>>

-----------------------------------------------------------------------------
(* get_current_user, change_password *)

Accepted(t) == users # <<>> /\ t.hash = users[1]

\* Somebody with a token that is accepted, who knows the password or not.
Change(r, p, new) ==
  /\ Begin(r) /\ \E t \in tokens : Accepted(t)
  /\ req' = [req EXCEPT ![r] = [Idle EXCEPT !.kind = "change", !.pc = "compare", !.pw = p,
                                            !.new = new, !.hash = users[1]]]
  /\ UNCHANGED <<users, claim, hashes, tokens, hits, now, log, lost>>

ChangeRefused(r) ==
  /\ req[r].pc = "compare"
  /\ hashes[req[r].hash] # req[r].pw \/ hashes[req[r].hash] = req[r].new
  /\ End(r)
  /\ UNCHANGED <<users, claim, hashes, tokens, hits, now, log, lost, tries>>

ChangeHashed(r) ==
  /\ req[r].pc = "compare" /\ hashes[req[r].hash] = req[r].pw /\ req[r].new # req[r].pw
  /\ req' = [req EXCEPT ![r].pc = "update"]
  /\ UNCHANGED <<users, claim, hashes, tokens, hits, now, log, lost, tries>>

\* Mutation of Unchanged: whatever the password is now.
UnchangedAlways(r) == TRUE

\* UPDATE ... WHERE password_hash is the one that was read
Unchanged(r) == users[1] = req[r].hash

ChangeUpdate(r) ==
  LET h == Len(hashes) + 1 IN
  /\ req[r].pc = "update"
  /\ IF Unchanged(r)
       THEN /\ hashes' = Append(hashes, req[r].new)
            /\ users' = [users EXCEPT ![1] = h]
            /\ tokens' = tokens \cup {Token(h, req[r].new)}
            /\ lost' = (lost \/ hashes[users[1]] # req[r].pw)
       ELSE UNCHANGED <<hashes, users, tokens, lost>>
  /\ End(r)
  /\ UNCHANGED <<claim, hits, now, log, tries>>

Next ==
  \/ Tick
  \/ \E r \in Request :
       \/ \E p \in Password : SetupBegin(r, p)
       \/ SetupClaim(r) \/ SetupCommit(r) \/ SetupFailed(r)
       \/ \E a \in Address, p \in Password : Login(r, a, p)
       \/ LoginRead(r) \/ LoginVerified(r)
       \/ \E p, new \in Password : Change(r, p, new)
       \/ ChangeRefused(r) \/ ChangeHashed(r) \/ ChangeUpdate(r)

Spec == Init /\ [][Next]_vars

-----------------------------------------------------------------------------
(* Properties *)

Recent(i) == now - log[i].at < Window

\* Of concurrent setups one makes an account.  A token that is accepted belongs to somebody
\* who proved the password in force, and a password is replaced only by somebody who proved
\* it, however logins and changes overlap.
Guarded ==
  /\ Len(users) <= 1
  /\ \A t \in tokens : Accepted(t) => t.pw = hashes[users[1]]
  /\ ~lost

\* In a window, no address gets more attempts than its limit beside those that succeed, and
\* no name more since the last success.
Limited ==
  /\ \A a \in Address :
       Cardinality({i \in DOMAIN log : log[i].addr = a /\ ~log[i].ok /\ Recent(i)}) <= PerAddress
  /\ Cardinality({i \in DOMAIN log : ~log[i].void /\ Recent(i)}) <= PerName
=============================================================================
