----------------------------- MODULE LogStream -----------------------------
(***************************************************************************)
(* The live log of the admin page: a worker thread publishes to the hub,   *)
(* which keeps two rings and hands entries to the queue of a subscriber    *)
(* through a callback on the event loop; a stream replays the rings,       *)
(* subscribes, merges both sources and then follows its queue.  An entry   *)
(* is the number it was published under; the thread may publish between    *)
(* any two steps, and the loop runs a callback only when the stream waits. *)
(***************************************************************************)
EXTENDS Integers, Sequences, FiniteSets, SequencesExt

CONSTANTS
  None,
  Levels,         \* ranks that are published, of 10 (DEBUG), 20 (INFO) and 30 (WARNING)
  History, Size,  \* MAX_HISTORY, SUBSCRIBER_QUEUE_SIZE
  Passes, Handoffs, \* 1 + MAX_BUFFER_CATCH_UP_PASSES, MAX_HANDOFF_PASSES
  MaxLog          \* bound: entries published

VARIABLES
  level,  \* of every entry published so far, by number
  sub,    \* the subscription: threshold, pending, and since when pending is not empty
  queue,  \* of the subscriber
  stream, \* _stream_logs
  out     \* what it has yielded

vars == <<level, sub, queue, stream, out>>

Info == 20

Init ==
  /\ level = <<>> /\ queue = <<>> /\ out = <<>>
  /\ \E t \in Levels : sub = [on |-> FALSE, threshold |-> t, pending |-> <<>>, since |-> 0]
  /\ stream = [pc |-> "replay", run |-> TRUE, pass |-> 0, sent |-> {}, batch |-> <<>>,
               progressed |-> FALSE, end |-> 0, from |-> None]

Entries  == DOMAIN level
Wanted   == {e \in Entries : level[e] >= sub.threshold}
Tier(e)  == {d \in Entries : (level[d] >= Info) <=> (level[e] >= Info)}

\* _info_history and _debug_history: of each tier the newest.
Ring == {e \in Entries : Cardinality({d \in Tier(e) : d > e}) < History}

\* recent(limit=MAX_HISTORY): of what the rings hold and the stream wants, the newest.
Recent ==
  LET kept == Ring \cap Wanted
  IN  {e \in kept : Cardinality({d \in kept : d > e}) < History}

-----------------------------------------------------------------------------
(* The hub *)

\* The loop comes to its callback before a ring has turned over.
Prompt == sub.pending # <<>> => Len(level) - sub.since < History - 1

\* What is handed to the loop; None says that the subscriber is too slow.
Handed(pending, e) ==
  IF pending # <<>> /\ Head(pending) = None THEN pending
  ELSE IF Len(pending) >= Size THEN <<None>> ELSE Append(pending, e)

Publish(l) ==
  /\ Len(level) < MaxLog /\ Prompt
  /\ level' = Append(level, l)
  /\ sub' = IF ~sub.on \/ l < sub.threshold THEN sub
            ELSE [sub EXCEPT !.pending = Handed(@, Len(level) + 1),
                             !.since = IF sub.pending = <<>> THEN Len(level) + 1 ELSE @]
  /\ UNCHANGED <<queue, stream, out>>

Waits == ~stream.run \/ (stream.pc = "live" /\ queue = <<>>)

\* The backlog goes, so that the stream is told at once.
Dropped == <<None>>

\* _flush
Flush ==
  /\ sub.on /\ sub.pending # <<>> /\ Waits
  /\ IF Head(sub.pending) # None /\ Len(queue) + Len(sub.pending) <= Size
       THEN /\ queue' = queue \o sub.pending
            /\ sub' = [sub EXCEPT !.pending = <<>>]
       ELSE queue' = Dropped /\ sub' = [sub EXCEPT !.on = FALSE, !.pending = <<>>]
  /\ UNCHANGED <<level, stream, out>>

-----------------------------------------------------------------------------
(* The stream *)

\* _catch_up_entries
Delta == SetToSortSeq(Recent \ stream.sent, <)

Ended ==
  /\ stream' = [stream EXCEPT !.pc = "end", !.run = FALSE]
  /\ sub' = [sub EXCEPT !.on = FALSE, !.pending = <<>>]
  /\ UNCHANGED <<level, queue, out>>

\* Before the subscription, until there is nothing new or a number of times.
Replay ==
  /\ stream.pc = "replay" /\ stream.batch = <<>>
  /\ stream' = IF stream.pass = Passes \/ Delta = <<>>
                 THEN [stream EXCEPT !.pc = "subscribe", !.run = TRUE]
                 ELSE [stream EXCEPT !.batch = Delta, !.pass = @ + 1, !.run = TRUE]
  /\ UNCHANGED <<level, sub, queue, out>>

Subscribe ==
  /\ stream.pc = "subscribe"
  /\ sub' = [sub EXCEPT !.on = TRUE]
  /\ stream' = [stream EXCEPT !.pc = "handoff", !.pass = 0, !.from = Len(level)]
  /\ UNCHANGED <<level, queue, out>>

\* Mutation of Merged: what the rings got before the subscription is not looked for.
MergedNot == <<>>

Merged == Delta

Handoff ==
  /\ stream.pc = "handoff"
  /\ stream' = [stream EXCEPT !.pc = IF Merged = <<>> THEN "drain" ELSE "send",
                              !.batch = Merged, !.pass = @ + 1, !.progressed = FALSE]
  /\ UNCHANGED <<level, sub, queue, out>>

\* The next of a batch; a subscriber that was dropped meanwhile ends.
Send ==
  LET e    == Head(stream.batch)
      left == Tail(stream.batch)
  IN /\ stream.batch # <<>> /\ (stream.pc = "send" => sub.on)
     /\ out' = Append(out, e)
     /\ stream' = [stream EXCEPT !.batch = left, !.sent = @ \cup {e}, !.run = FALSE,
                                 !.progressed = TRUE,
                                 !.pc = IF @ = "send" /\ left = <<>> THEN "drain" ELSE @]
     /\ UNCHANGED <<level, sub, queue>>

SendDropped == stream.pc = "send" /\ ~sub.on /\ Ended

\* Until the queue is empty; then again, if anything was new.
Drain ==
  /\ stream.pc = "drain" /\ queue = <<>>
  /\ stream' = IF stream.progressed /\ stream.pass < Handoffs
                 THEN [stream EXCEPT !.pc = "handoff", !.run = TRUE]
                 ELSE [stream EXCEPT !.pc = "live", !.run = TRUE,
                                     !.end = IF stream.sent = {} THEN 0 ELSE Max(stream.sent)]
  /\ UNCHANGED <<level, sub, out, queue>>

Take ==
  LET e == Head(queue) IN
  /\ stream.pc = "drain" /\ queue # <<>> /\ e # None
  /\ queue' = Tail(queue)
  /\ IF e \in stream.sent THEN stream' = [stream EXCEPT !.run = TRUE] /\ UNCHANGED out
     ELSE /\ out' = Append(out, e)
          /\ stream' = [stream EXCEPT !.sent = @ \cup {e}, !.run = FALSE, !.progressed = TRUE]
  /\ UNCHANGED <<level, sub>>

Follow ==
  LET e == Head(queue) IN
  /\ stream.pc = "live" /\ queue # <<>> /\ e # None
  /\ queue' = Tail(queue)
  /\ IF e \in stream.sent
       THEN stream' = [stream EXCEPT !.sent = @ \ {e}, !.run = TRUE] /\ UNCHANGED out
       ELSE /\ out' = Append(out, e)
            /\ stream' = [stream EXCEPT !.sent = IF e > stream.end THEN {} ELSE @, !.run = FALSE]
  /\ UNCHANGED <<level, sub>>

Told == stream.pc \in {"drain", "live"} /\ queue # <<>> /\ Head(queue) = None /\ Ended

\* The page is closed while the stream waits: it is closed, and unsubscribes.
Leave == stream.pc # "end" /\ Waits /\ Ended

Next ==
  \/ \E l \in Levels : Publish(l)
  \/ Flush
  \/ Replay \/ Subscribe \/ Handoff \/ Send \/ SendDropped \/ Drain \/ Take \/ Follow
  \/ Told \/ Leave

Spec == Init /\ [][Next]_vars

-----------------------------------------------------------------------------
(* Properties *)

Yielded == Range(out)

\* The page gets entries in the order in which they were published, none of them twice,
\* and leaves none out but those that the rings had lost before it subscribed; and a page
\* that has read its queue has seen everything since then.  (A page that is too slow is
\* told so: its stream ends.)
Streamed ==
  /\ \A i \in 1 .. Len(out) - 1 : out[i] < out[i + 1]
  /\ \A e \in Wanted \ Yielded :
       /\ out # <<>> /\ e < Last(out) => e \notin Recent /\ (stream.from # None => e <= stream.from)
       /\ stream.pc = "live" /\ sub.on /\ queue = <<>> /\ sub.pending = <<>> => e <= stream.from /\ e \notin Recent
  /\ stream.pc \notin {"replay", "subscribe", "end"} /\ ~sub.on => stream.pc = "send" \/ queue = <<None>>
=============================================================================
