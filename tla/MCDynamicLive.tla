---------------------------- MODULE MCDynamicLive ----------------------------
(***************************************************************************)
(* Bounds of the run dynamic_live: the list of dynamics shrinks, the bot   *)
(* crashes, and a fetch, a send or a session of the database fails; or the *)
(* pinned dynamic changes twice; or it changes once and a push fails.  No  *)
(* fair step goes beyond a bound, so that no behaviour ends because of     *)
(* them.                                                                   *)
(***************************************************************************)
EXTENDS DynamicMonitor

Within ==
  \/ spent.pin = 0 /\ spent.fail + spent.db <= 1
  \/ /\ spent.vanish = 0 /\ spent.crash = 0 /\ spent.db = 0
     /\ spent.pin + 2 * spent.fail <= 3
=============================================================================
