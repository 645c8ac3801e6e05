---------------------------- MODULE AdminTargets ----------------------------
(***************************************************************************)
(* admin/api/v1/targets.py and admin/services/target_metadata.py: the      *)
(* tables of whom the monitors watch and whom they notify.  A request      *)
(* reads, asks Bilibili or X for the name (and, for X, the id) of the      *)
(* account, and reads and writes in a second transaction; meanwhile other  *)
(* requests, the completion of missing names and the X monitor write.  A   *)
(* transaction is one step: the model takes the database to isolate them.  *)
(* The handlers of the three kinds of targets have one form.               *)
(***************************************************************************)
EXTENDS Integers, FiniteSets

CONSTANTS
  Kind,    \* subset of {"dynamic", "live", "x"}
  Request, \* requests in flight
  Id,      \* rows
  Key,     \* uids, room ids, normalised usernames
  Manual,  \* a name that an administrator typed; other names are looked up
  Bodies,  \* of PATCH: key, name, groups, users, each a value or None
  None,
  MaxAsk, MaxList, MaxFound \* bounds: requests, openings of a list, profiles the monitor found

VARIABLES
  kind,     \* the kinds do not meet
  table,    \* DynamicTarget, LiveTarget or XTarget with their groups and users
  snapshot, \* of the configuration service
  req,      \* requests
  fill,     \* resolve_missing_*_target_names
  claimed,  \* _x_profile_attempts
  lookups,  \* history: lookups for the list since the cooldown began
  overtook, \* history: the key of a row changed while a request was looking up
  spent

vars == <<kind, table, snapshot, req, fill, claimed, lookups, overtook, spent>>

NoReq == [pc |-> "idle"]
Rows  == {i \in Id : table[i] # None}
Taken(k, i) == \E j \in Rows \ {i} : table[j].key = k

Init ==
  /\ kind \in Kind
  /\ \E k \in Key, uid \in {None} \cup (IF kind = "x" THEN Key ELSE {}) :
       /\ uid \in {None, k}
       /\ table = [i \in Id |-> IF i # (CHOOSE j \in Id : TRUE) THEN None
                   ELSE [key |-> k, name |-> Manual, uid |-> uid, groups |-> 1, users |-> 1]]
  /\ snapshot = table
  /\ req = [r \in Request |-> NoReq] /\ fill = {}
  /\ claimed = {} /\ lookups = [k \in Key |-> 0] /\ overtook = FALSE
  /\ spent = [ask |-> 0, list |-> 0, found |-> 0]

Used(f) == spent' = [spent EXCEPT ![f] = @ + 1]
At(r, pc) == req[r].pc = pc
Refuse(r) == req' = [req EXCEPT ![r] = NoReq]
Ask(r, q) == req' = [req EXCEPT ![r] = q]

\* A row changes its key, or goes, while somebody is looking up a profile for it.
Overtakes(i, row) ==
  overtook' = (overtook \/ \E r \in Request : req[r].pc \in {"lookup", "write"} /\ req[r].id = i
                                 /\ (row = None \/ row.key # table[i].key))

-----------------------------------------------------------------------------
(* Requests *)

\* The first transaction of a creation: the key must be new.
Create(r, k, name, groups, users) ==
  /\ At(r, "idle") /\ spent.ask < MaxAsk /\ Used("ask")
  /\ IF groups + users = 0 \/ Taken(k, None) THEN Refuse(r)
     ELSE Ask(r, [pc |-> IF name = None \/ kind = "x" THEN "lookup" ELSE "write", op |-> "create",
                  id |-> None, key |-> k, name |-> name, uid |-> None, named |-> FALSE,
                  groups |-> groups, users |-> users, renamed |-> FALSE, body |-> None])
  /\ UNCHANGED <<kind, table, snapshot, fill, claimed, lookups, overtook>>

\* Whether an update asks for the profile: for a missing name; of X, also when the
\* username is part of the request or the id is missing.
Asks(b, name, row) == name = None \/ (kind = "x" /\ (b.key # None \/ row.uid = None))

\* The first transaction of an update.  An empty name is looked up again.
Update(r, i, b) ==
  /\ At(r, "idle") /\ spent.ask < MaxAsk /\ Used("ask")
  /\ IF table[i] = None THEN Refuse(r)
     ELSE LET row  == table[i]
              key  == IF b.key = None THEN row.key ELSE b.key
              name == IF b.name = None THEN row.name ELSE IF b.name = "" THEN None ELSE b.name
          IN IF key # row.key /\ Taken(key, i) THEN Refuse(r)
             ELSE Ask(r, [pc |-> IF Asks(b, name, row) THEN "lookup" ELSE "write", op |-> "update",
                          id |-> i, key |-> key, name |-> name, uid |-> None, named |-> FALSE,
                          groups |-> None, users |-> None, renamed |-> key # row.key, body |-> b])
  /\ UNCHANGED <<kind, table, snapshot, fill, claimed, lookups, overtook>>

\* refresh_x_target_profile
Refresh(r, i) ==
  /\ kind = "x" /\ At(r, "idle") /\ spent.ask < MaxAsk /\ Used("ask")
  /\ IF table[i] = None THEN Refuse(r)
     ELSE Ask(r, [pc |-> "lookup", op |-> "refresh", id |-> i, key |-> table[i].key, name |-> None,
                  uid |-> None, named |-> FALSE, groups |-> None, users |-> None,
                  renamed |-> FALSE, body |-> None])
  /\ UNCHANGED <<kind, table, snapshot, fill, claimed, lookups, overtook>>

\* resolve_x_user, resolve_up_name, resolve_live_streamer_name: an account, or nothing.
Looked(r, found) ==
  /\ At(r, "lookup")
  /\ IF ~found /\ req[r].name = None THEN Refuse(r)
     ELSE Ask(r, [req[r] EXCEPT !.pc = "write", !.named = found /\ req[r].name = None,
                                !.uid = IF found /\ kind = "x" THEN req[r].key ELSE None])
  /\ UNCHANGED <<kind, table, snapshot, fill, claimed, lookups, overtook, spent>>

\* The second transaction of a creation.
Created(r) ==
  /\ At(r, "write") /\ req[r].op = "create"
  /\ LET q == req[r]
     IN IF Taken(q.key, None) THEN Refuse(r) /\ UNCHANGED table
        ELSE /\ \E i \in Id \ Rows :
                  table' = [table EXCEPT ![i] =
                    [key |-> q.key, name |-> IF q.named THEN q.key ELSE q.name, uid |-> q.uid,
                     groups |-> q.groups, users |-> q.users]]
             /\ Ask(r, [q EXCEPT !.pc = "reload"])
  /\ UNCHANGED <<kind, snapshot, fill, claimed, lookups, overtook, spent>>

\* Mutation of UserId: a rename keeps the id.
UserIdKept(q, row) == IF q.uid # None THEN q.uid ELSE row.uid

\* The id that an update of an X target writes.
UserId(q, row) == IF q.uid # None THEN q.uid ELSE IF q.renamed THEN None ELSE row.uid

\* What an update makes of the row as it is now.
Patched(q, row) ==
  [key    |-> IF q.body.key = None THEN row.key ELSE q.body.key,
   name   |-> IF q.named THEN q.key
              ELSE IF q.body.name = None THEN row.name
              ELSE IF q.body.name = "" THEN None ELSE q.body.name,
   uid    |-> UserId(q, row),
   groups |-> IF q.body.groups = None THEN row.groups ELSE q.body.groups,
   users  |-> IF q.body.users = None THEN row.users ELSE q.body.users]

\* _ensure_recipients, if the request changes them.
Reachable(q, new) ==
  (q.body.groups # None \/ q.body.users # None) => new.groups + new.users > 0

\* The second transaction of an update.  X refuses a profile of another username.
Updated(r) ==
  /\ At(r, "write") /\ req[r].op = "update"
  /\ LET q   == req[r]
         row == table[q.id]
         new == Patched(q, row)
     IN IF \/ row = None
           \/ new.key # row.key /\ Taken(new.key, q.id)
           \/ kind = "x" /\ (q.named \/ q.uid # None) /\ new.key # q.key
           \/ ~Reachable(q, new)
          THEN Refuse(r) /\ UNCHANGED <<table, overtook>>
          ELSE /\ table' = [table EXCEPT ![q.id] = new]
               /\ Ask(r, [q EXCEPT !.pc = "reload"])
               /\ overtook' = (overtook \/ \E s \in Request \ {r} :
                     req[s].pc \in {"lookup", "write"} /\ req[s].id = q.id /\ new.key # row.key)
  /\ UNCHANGED <<kind, snapshot, fill, claimed, lookups, spent>>

Refreshed(r) ==
  /\ At(r, "write") /\ req[r].op = "refresh"
  /\ LET q == req[r]
     IN IF table[q.id] = None \/ table[q.id].key # q.key THEN Refuse(r) /\ UNCHANGED table
        ELSE /\ table' = [table EXCEPT ![q.id].name = q.key, ![q.id].uid = q.uid]
             /\ Ask(r, [q EXCEPT !.pc = "reload"])
  /\ UNCHANGED <<kind, snapshot, fill, claimed, lookups, overtook, spent>>

Delete(r, i) ==
  /\ At(r, "idle") /\ spent.ask < MaxAsk /\ Used("ask")
  /\ IF table[i] = None THEN Refuse(r) /\ UNCHANGED <<table, overtook>>
     ELSE /\ table' = [table EXCEPT ![i] = None] /\ Overtakes(i, None)
          /\ Ask(r, [pc |-> "reload", id |-> i])
  /\ UNCHANGED <<kind, snapshot, fill, claimed, lookups>>

\* Every change is answered after a reload.
Reload(r) ==
  /\ At(r, "reload") /\ Refuse(r)
  /\ snapshot' = table
  /\ UNCHANGED <<kind, table, fill, claimed, lookups, overtook, spent>>

-----------------------------------------------------------------------------
(* Around the requests *)

\* _claim_x_profile_lookups, before the first await of the task.
Claim(missing) == claimed' = IF kind = "x" THEN claimed \cup missing ELSE claimed

Missing(i) == i \in Rows /\ (table[i].name = None \/ (kind = "x" /\ table[i].uid = None))

\* A list is opened: what is missing is looked up in the background.
List ==
  /\ spent.list < MaxList /\ Used("list")
  /\ LET new == {i \in Id : Missing(i) /\ table[i].key \notin claimed}
     IN /\ fill' = fill \cup {[id |-> i, key |-> table[i].key, list |-> spent.list, done |-> FALSE] : i \in new}
        /\ Claim({table[i].key : i \in new})
        /\ lookups' = [k \in Key |-> lookups[k] + Cardinality({i \in new : table[i].key = k})]
  /\ UNCHANGED <<kind, table, snapshot, req, overtook>>

\* The task writes what is still missing on a row that kept its key.
Filled(f, found) ==
  /\ fill' = fill \ {f}
  /\ table' = IF found /\ f.id \in Rows /\ table[f.id].key = f.key
                THEN [table EXCEPT ![f.id].name = IF @ = None THEN f.key ELSE @,
                                   ![f.id].uid = IF kind = "x" /\ @ = None THEN f.key ELSE @]
                ELSE table
  /\ UNCHANGED <<kind, snapshot, req, claimed, lookups, overtook, spent>>

\* After _X_PROFILE_RETRY_SECONDS.
Cooldown ==
  /\ claimed # {} /\ claimed' = {} /\ lookups' = [k \in Key |-> 0]
  /\ UNCHANGED <<kind, table, snapshot, req, fill, overtook, spent>>

\* _persist_user_profile of the X monitor, for a username of its configuration.
Found(k) ==
  /\ kind = "x" /\ spent.found < MaxFound /\ Used("found")
  /\ \E i \in Id : snapshot[i] # None /\ snapshot[i].key = k
  /\ table' = [i \in Id |-> IF i \in Rows /\ table[i].key = k
                            THEN [table[i] EXCEPT !.uid = k, !.name = IF @ = None THEN k ELSE @]
                            ELSE table[i]]
  /\ UNCHANGED <<kind, snapshot, req, fill, claimed, lookups, overtook>>

Next ==
  \/ \E r \in Request :
       \/ \E k \in Key, n \in {None, Manual}, g \in 0 .. 1 : Create(r, k, n, g, 0)
       \/ \E i \in Id, b \in Bodies : Update(r, i, b)
       \/ \E i \in Id : Refresh(r, i) \/ Delete(r, i)
       \/ \E found \in BOOLEAN : Looked(r, found)
       \/ Created(r) \/ Updated(r) \/ Refreshed(r) \/ Reload(r)
  \/ List \/ Cooldown
  \/ \E f \in fill, found \in BOOLEAN : Filled(f, found)
  \/ \E k \in Key : Found(k)

Spec == Init /\ [][Next]_vars

-----------------------------------------------------------------------------
(* Properties *)

\* An X target has the id of its own account: a username that was looked up before a
\* rename, or the one it replaced, leaves no id behind - unless another request changed
\* the username while the first, which changes it back, was looking up in vain.
OwnProfile ==
  kind = "x" /\ ~overtook => \A i \in Rows : table[i].uid \in {None, table[i].key}

\* Keys are unique, and a target has somebody to notify (issue #153), although requests
\* replace its groups and its users one by one; and the list costs one lookup of an X
\* username in ten minutes, however often it is opened meanwhile.
Kept ==
  /\ \A i \in Rows : ~Taken(table[i].key, i) /\ table[i].groups + table[i].users > 0
  /\ kind = "x" => \A k \in Key : lookups[k] <= 1
=============================================================================
