-------------------------- MODULE OfficialSessions --------------------------
(***************************************************************************)
(* shared/adapter/sessions.py: the table of the chats of the official bots,*)
(* from which an administrator picks targets, written by the events of the *)
(* gateway; a cache keeps most messages from writing.  One chat.  Guard    *)
(* and cache preprocessor both remember an event; of the two, which run up *)
(* to their first await one after the other, the second finds the cache    *)
(* fresh, or deletes a second time.                                        *)
(***************************************************************************)
EXTENDS Integers, FiniteSets

CONSTANTS
  Event,   \* events whose writes may be in flight together
  Names,   \* names of the chat, and of its members
  Unnamed, \* a group whose events do not name it, an event without a name; the
           \* fallback name of the table
  None,
  MaxLeave, MaxName, MaxFail \* bounds: times the bot leaves, renamings, database errors

VARIABLES
  chat,  \* the bot is in it; its name
  cache, \* _recent_upserts: the name; not older than _UPSERT_INTERVAL_SECONDS
  row,   \* OfficialQQSession: the name
  write, \* what the handler of each event is about to commit
  spent

vars == <<chat, cache, row, write, spent>>

Init ==
  /\ chat \in [in : {FALSE}, name : Names \cup {Unnamed}] /\ cache = None /\ row = None
  /\ write = [e \in Event |-> None]
  /\ spent = [leave |-> 0, name |-> 0, fail |-> 0]

Used(f) == spent' = [spent EXCEPT ![f] = @ + 1]

Fresh(name) == cache # None /\ cache.name = name /\ cache.fresh

\* _upsert_if_stale
Upsert(e, name) ==
  IF Fresh(name) THEN UNCHANGED <<cache, write>>
  ELSE /\ cache' = [name |-> name, fresh |-> TRUE]
       /\ write' = [write EXCEPT ![e] = [op |-> "upsert", name |-> name]]

\* GroupAddRobotEvent, FriendAddEvent: without a name.
Join(e) ==
  /\ ~chat.in /\ write[e] = None /\ chat' = [chat EXCEPT !.in = TRUE]
  /\ Upsert(e, Unnamed)
  /\ UNCHANGED <<row, spent>>

\* _event_display_name: that of the chat, or else of the author, who may have none.
Shown == IF chat.name # Unnamed THEN {chat.name} ELSE Names \cup {Unnamed}

\* A message, whether the policy has the guard ignore it or not.
Message(e) ==
  /\ chat.in /\ write[e] = None
  /\ \E name \in Shown : Upsert(e, name)
  /\ UNCHANGED <<chat, row, spent>>

\* GroupDelRobotEvent, FriendDelEvent: delete_session.
Leave(e) ==
  /\ chat.in /\ write[e] = None /\ spent.leave < MaxLeave /\ Used("leave")
  /\ chat' = [chat EXCEPT !.in = FALSE]
  /\ cache' = None /\ write' = [write EXCEPT ![e] = [op |-> "delete"]]
  /\ UNCHANGED row

\* upsert_session keeps the name of a row if the event has none.
Commit(e) ==
  /\ write[e] # None /\ write' = [write EXCEPT ![e] = None]
  /\ row' = IF write[e].op = "delete" THEN None
            ELSE IF write[e].name = Unnamed /\ row # None THEN row ELSE write[e].name
  /\ UNCHANGED <<chat, cache, spent>>

\* The next message tries again.
Failed(e) ==
  /\ write[e] # None /\ spent.fail < MaxFail /\ Used("fail")
  /\ write' = [write EXCEPT ![e] = None]
  /\ cache' = IF write[e].op = "delete" THEN cache ELSE None
  /\ UNCHANGED <<chat, row>>

Rename(name) ==
  /\ chat.name \notin {name, Unnamed} /\ spent.name < MaxName /\ Used("name")
  /\ chat' = [chat EXCEPT !.name = name]
  /\ UNCHANGED <<cache, row, write>>

Expire ==
  /\ cache # None /\ cache.fresh /\ cache' = [cache EXCEPT !.fresh = FALSE]
  /\ UNCHANGED <<chat, row, write, spent>>

Talk == \E e \in Event : Message(e)

Next ==
  \/ Talk \/ Expire
  \/ \E e \in Event : Join(e) \/ Leave(e) \/ Commit(e) \/ Failed(e)
  \/ \E n \in Names : Rename(n)

\* Writes end, time passes, and the members go on talking.
Fairness ==
  /\ \A e \in Event : WF_vars(Commit(e))
  /\ WF_vars(Expire) /\ SF_vars(Talk)

Spec == Init /\ [][Next]_vars /\ Fairness

-----------------------------------------------------------------------------
(* Property *)

\* A chat in which the bot stays and people talk is listed in the end, under its name
\* if it has one of its own, although writes fail, commit in another order than their events came, and undo each
\* other while the cache holds them to be done.
Listed == <>[]chat.in => <>[](row \in Shown)
=============================================================================
