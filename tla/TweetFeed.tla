------------------------------ MODULE TweetFeed ------------------------------
(***************************************************************************)
(* What the X monitor promises about one blogger: the tweets that appear   *)
(* after the subscription form a queue; only its head is pushed; the head  *)
(* leaves when nobody is owed it any more, or when it is given up.  A      *)
(* restart may put tweets back in front of the queue, but only tweets that *)
(* nobody is owed.                                                         *)
(***************************************************************************)
EXTENDS Naturals, FiniteSetsExt

CONSTANTS Target, MaxId

Id == 1 .. MaxId

VARIABLES
  open,  \* tweets still to be pushed
  due    \* due[i]: the targets that have been subscribed since i was published
         \* and have neither got nor refused it

Head(i) == i \in open /\ \A j \in open : i <= j

Init == open = {} /\ due = [i \in Id |-> {}]

\* A tweet is published, for the targets subscribed by then; it joins the queue at
\* its end, or not at all when nobody listens.
Publish(i, T) ==
  /\ due[i] = {} /\ \A j \in open : j < i
  /\ due' = [due EXCEPT ![i] = T]
  /\ open' \in {open, open \cup {i}}

\* A target has got, or has refused, the head.
Serve(i, x) ==
  /\ Head(i) /\ x \in due[i]
  /\ due' = [due EXCEPT ![i] = @ \ {x}]
  /\ UNCHANGED open

\* Nobody is owed the head, or it is given up.
Close(i)  == Head(i) /\ due[i] = {} /\ open' = open \ {i} /\ UNCHANGED due
GiveUp(i) == Head(i) /\ open' = open \ {i} /\ due' = [due EXCEPT ![i] = {}]

\* The blogger deletes a tweet: nobody can be owed it any more.
Delete(i) == open' = open \ {i} /\ due' = [due EXCEPT ![i] = {}]

\* Targets leave; when the blogger is disabled nobody is left.
Leave(T) == due' = [i \in Id |-> due[i] \cap T] /\ UNCHANGED open

\* Start to follow, from the tweet b on.  Start over, when the blogger was enabled
\* again or the process died before a first baseline was stored.
Follow(b, feed) == open = {} /\ open' = {i \in feed : b < i} /\ UNCHANGED due
StartOver == open' = {} /\ due' = [i \in Id |-> {}]

\* The process falls back to an older cursor.
Relapse(S) == (\A i \in S : due[i] = {}) /\ open' = open \cup S /\ UNCHANGED due

Next ==
  \/ \E i \in Id :
       \/ \E T \in SUBSET Target : Publish(i, T)
       \/ \E x \in Target : Serve(i, x)
       \/ Close(i) \/ GiveUp(i) \/ Delete(i)
  \/ \E T \in SUBSET Target : Leave(T)
  \/ \E b \in 0 .. MaxId, feed \in SUBSET Id : Follow(b, feed)
  \/ StartOver
  \/ \E S \in SUBSET Id : Relapse(S)

Spec == Init /\ [][Next]_<<open, due>>
=============================================================================
