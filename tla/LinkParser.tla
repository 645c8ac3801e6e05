----------------------------- MODULE LinkParser -----------------------------
(***************************************************************************)
(* The link parsers of Bilibili, Douyin and X: a message with a link is    *)
(* answered with what it shows, downloaded into the shared media directory *)
(* for as long as the answer takes; Bilibili asks for the page of a video  *)
(* that has several, and takes a number as the choice.  Few handlers       *)
(* download at a time, and one sends.  A step is the code between awaits.  *)
(***************************************************************************)
EXTENDS Integers, Sequences, FiniteSets

CONSTANTS
  Parser,   \* subset of {"bilibili", "douyin", "x"}
  Handler,  \* messages
  User,     \* their senders, in one chat
  Video,    \* what links lead to
  Pipeline, \* _PIPELINE_LIMIT
  MaxPending, \* _MAX_PENDING
  Parts,    \* media of an answer
  None,
  MaxFail, MaxExpire \* bounds: failures, menus that expire

VARIABLES
  parser,  \* the parsers do not meet
  send,    \* the policy has videos sent (Bilibili)
  task,    \* the handlers
  lock,    \* selection_lock of each user: its holder and who waits
  pipe,    \* _PIPELINE_SEM: its holders
  sender,  \* _ENCODE_SEND_SEM, _SEND_SEM: the holder
  pending, \* page_selection: <<user, video>>, the oldest first
  disk,    \* files in the shared directory
  shown,   \* history: the menu that a user saw last
  spent

vars == <<parser, send, task, lock, pipe, sender, pending, disk, shown, spent>>

Idle == [pc |-> "idle", user |-> None, want |-> None, video |-> None, has |-> 0]

Init ==
  /\ parser \in Parser /\ send \in BOOLEAN
  /\ parser # "bilibili" => send
  /\ task = [h \in Handler |-> Idle]
  /\ lock = [u \in User |-> <<>>] /\ pipe = {} /\ sender = None
  /\ pending = <<>> /\ disk = {} /\ shown = [u \in User |-> None]
  /\ spent = [fail |-> 0, expire |-> 0]

At(h, pc) == task[h].pc = pc
Go(h, pc) == task' = [task EXCEPT ![h].pc = pc]
May       == spent.fail < MaxFail /\ spent' = [spent EXCEPT !.fail = @ + 1]

-----------------------------------------------------------------------------
(* page_selection *)

MenuOf(u) == LET s == SelectSeq(pending, LAMBDA e : e[1] = u)
             IN  IF s = <<>> THEN None ELSE s[1][2]

Forgotten(u) == SelectSeq(pending, LAMBDA e : e[1] # u)

\* remember_video: the oldest menu makes room.
Remembered(u, v) ==
  LET rest == Forgotten(u)
  IN Append(IF Len(rest) >= MaxPending THEN Tail(rest) ELSE rest, <<u, v>>)

\* cleanup_expired_videos, every thirty seconds and before each use.
Expire ==
  /\ pending # <<>> /\ spent.expire < MaxExpire
  /\ pending' = Tail(pending) /\ spent' = [spent EXCEPT !.expire = @ + 1]
  /\ UNCHANGED <<parser, send, task, lock, pipe, sender, disk, shown>>

-----------------------------------------------------------------------------
(* Reception *)

Queued(u, h) == [lock EXCEPT ![u] = Append(@, h)]

\* A Bilibili link: of a video with several pages, of one page, or of something else.
Link(h, u, v, want) ==
  /\ parser = "bilibili" /\ At(h, "idle")
  /\ task' = [task EXCEPT ![h] = [Idle EXCEPT !.pc = "lock", !.user = u, !.want = want, !.video = v]]
  /\ lock' = Queued(u, h)
  /\ UNCHANGED <<parser, send, pipe, sender, pending, disk, shown, spent>>

\* A number: the choice is taken from the menu when the message comes in.
Number(h, u, valid) ==
  /\ parser = "bilibili" /\ At(h, "idle") /\ MenuOf(u) # None
  /\ task' = [task EXCEPT ![h] =
                [Idle EXCEPT !.pc = "lock", !.user = u, !.video = MenuOf(u),
                             !.want = IF valid THEN "page" ELSE "refused"]]
  /\ pending' = IF valid THEN Forgotten(u) ELSE pending
  /\ lock' = Queued(u, h)
  /\ UNCHANGED <<parser, send, pipe, sender, disk, shown, spent>>

\* A link of Douyin or X.
Share(h, u, v) ==
  /\ parser # "bilibili" /\ At(h, "idle")
  /\ task' = [task EXCEPT ![h] = [Idle EXCEPT !.pc = "pipe", !.user = u, !.want = "page", !.video = v]]
  /\ UNCHANGED <<parser, send, lock, pipe, sender, pending, disk, shown, spent>>

\* The turn of the user.  With videos sent, all but the answer to a number that is not
\* of the menu takes a place in the pipeline.
Locked(h) ==
  /\ At(h, "lock") /\ lock[task[h].user][1] = h
  /\ Go(h, IF send /\ task[h].want # "refused" THEN "pipe" ELSE "resolve")
  /\ UNCHANGED <<parser, send, lock, pipe, sender, pending, disk, shown, spent>>

Admitted(h) ==
  /\ At(h, "pipe") /\ Cardinality(pipe) < Pipeline
  /\ pipe' = pipe \cup {h}
  /\ Go(h, "resolve")
  /\ UNCHANGED <<parser, send, lock, sender, pending, disk, shown, spent>>

-----------------------------------------------------------------------------
(* Resolving and downloading *)

\* A link to a video ends the user's menu.
Ended(h) ==
  pending' = IF parser = "bilibili" /\ task[h].want \in {"menu", "single"}
               THEN Forgotten(task[h].user) ELSE pending

\* A number is resolved; a link to a video ends the user's menu before it is asked for.
Resolve(h) ==
  /\ At(h, "resolve")
  /\ Ended(h)
  /\ Go(h, CASE task[h].want \in {"menu", "single"} -> "ask"
             [] task[h].want \in {"text", "refused"} -> "reply"
             [] task[h].want = "page" -> IF send THEN "download" ELSE "reply")
  /\ UNCHANGED <<parser, send, lock, pipe, sender, disk, shown, spent>>

\* The details are there: if there are several pages and none was chosen, they are listed.
Answered(h) ==
  /\ At(h, "ask") /\ Go(h, IF send /\ task[h].want = "single" THEN "download" ELSE "reply")
  /\ UNCHANGED <<parser, send, lock, pipe, sender, pending, disk, shown, spent>>

\* Mutation of FileName: without the random part.
FileNameShared(h, i) == <<task[h].video, i>>

FileName(h, i) == <<task[h].video, i, h>>

FilesOf(h) == {FileName(h, i) : i \in 1 .. task[h].has}

\* One medium is complete, or is left out.
Download(h) ==
  /\ At(h, "download") /\ task[h].has < (IF parser = "bilibili" THEN 1 ELSE Parts)
  /\ disk' = disk \cup {FileName(h, task[h].has + 1)}
  /\ task' = [task EXCEPT ![h].has = @ + 1]
  /\ UNCHANGED <<parser, send, lock, pipe, sender, pending, shown, spent>>

\* What could be had is sent; Bilibili falls back to cover and text, X to the text.
Downloaded(h) ==
  /\ At(h, "download")
  /\ task[h].has > 0 \/ parser # "douyin"
  /\ Go(h, IF task[h].has > 0 \/ parser = "x" THEN "turn" ELSE "reply")
  /\ UNCHANGED <<parser, send, lock, pipe, sender, pending, disk, shown, spent>>

Sending(h) ==
  /\ At(h, "turn") /\ sender = None /\ sender' = h
  /\ Go(h, "reply")
  /\ UNCHANGED <<parser, send, lock, pipe, pending, disk, shown, spent>>

-----------------------------------------------------------------------------
(* Sending, and the end of a handler *)

\* _cleanup_temp, cleanup_media_files, _cleanup_result_files: in a finally.
Swept(h, ok) == FilesOf(h)

End(h, ok) ==
  /\ disk' = disk \ Swept(h, ok)
  /\ task' = [task EXCEPT ![h] = [Idle EXCEPT !.pc = "done"]]
  /\ pipe' = pipe \ {h}
  /\ sender' = IF sender = h THEN None ELSE sender
  /\ lock' = IF parser = "bilibili" THEN [lock EXCEPT ![task[h].user] = SelectSeq(@, LAMBDA g : g # h)]
             ELSE lock

Saw(h) == shown' = IF task[h].want = "menu" THEN [shown EXCEPT ![task[h].user] = task[h].video] ELSE shown

\* The answer is out.  Only a confirmed menu is remembered.
Reply(h) ==
  /\ At(h, "reply")
  /\ End(h, TRUE) /\ Saw(h)
  /\ pending' = IF task[h].want = "menu" THEN Remembered(task[h].user, task[h].video) ELSE pending
  /\ UNCHANGED <<parser, send, spent>>

\* Not sent, or sent without a receipt.
ReplyFailed(h, out) ==
  /\ At(h, "reply") /\ May
  /\ End(h, FALSE)
  /\ IF out THEN Saw(h) ELSE UNCHANGED shown
  /\ UNCHANGED <<parser, send, pending>>

\* An answer of the API is missing, or an exception ends the handler.
Broken(h) ==
  /\ At(h, "ask") \/ (At(h, "download") /\ parser # "bilibili")
  /\ May
  /\ End(h, FALSE)
  /\ UNCHANGED <<parser, send, pending, shown>>

\* X goes on with the next link of the message; its files are kept to the end.
NextLink(h) ==
  /\ parser = "x" /\ At(h, "reply") /\ task[h].has < Parts
  /\ sender' = None /\ Go(h, "download")
  /\ UNCHANGED <<parser, send, lock, pipe, pending, disk, shown, spent>>

Next ==
  \/ \E h \in Handler :
       \/ \E u \in User, v \in Video :
            (\E w \in {"menu", "single", "text"} : Link(h, u, v, w)) \/ Share(h, u, v)
       \/ \E u \in User, valid \in BOOLEAN : Number(h, u, valid)
       \/ Locked(h) \/ Admitted(h) \/ Resolve(h) \/ Answered(h) \/ Download(h) \/ Downloaded(h)
       \/ Sending(h) \/ Reply(h) \/ Broken(h) \/ NextLink(h)
       \/ \E out \in BOOLEAN : ReplyFailed(h, out)
  \/ Expire

Spec == Init /\ [][Next]_vars

-----------------------------------------------------------------------------
(* Properties *)

\* Every file on the disk is of a handler that is at work, few of them have files at a
\* time, and none loses a file to another one that ends while the same video is sent.
Files ==
  /\ disk \subseteq UNION {FilesOf(h) : h \in Handler}
  /\ Cardinality({h \in Handler : task[h].has > 0}) <= Pipeline
  /\ \A h \in Handler : FilesOf(h) \subseteq disk

\* A number is taken for a page of the menu that the user saw last: an earlier request
\* does not bring back a menu that a later link has replaced.
LastMenu == \A u \in User : MenuOf(u) \in {None, shown[u]}
=============================================================================
