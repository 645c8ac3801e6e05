----------------------------- MODULE MCXDelivery -----------------------------
(***************************************************************************)
(* Bounds of the run x_delivery.                                           *)
(***************************************************************************)
EXTENDS XDelivery

To(X, all) == [on |-> TRUE, to |-> X, all |-> all]

\* One new tweet after a baseline, nothing goes wrong but sends and downloads.
Plain == [from |-> To(Group, FALSE), menu |-> {}, seen |-> 1, tweet |-> 1, reload |-> 0,
          crash |-> 0, lost |-> 0, db |-> 0, vanish |-> 0]
Two   == [Plain EXCEPT !.tweet = 2]
First == [Two EXCEPT !.from = To(User, FALSE), !.seen = 0]

Scenarios == {
  [Two EXCEPT !.db = 1], [Two EXCEPT !.crash = 1], [Plain EXCEPT !.lost = 1, !.crash = 1],
  [First EXCEPT !.db = 1], [First EXCEPT !.vanish = 1, !.crash = 1],
  \* at_all is switched off, targets come and go, the blogger is disabled
  [Plain EXCEPT !.reload = 1, !.from = To(Group, TRUE),
                !.menu = {To(Target, FALSE), To(User, FALSE), Off}],
  \* ... and enabled again
  [Plain EXCEPT !.reload = 2, !.from = To(User, FALSE), !.menu = {To(User, FALSE), Off}]}
=============================================================================
