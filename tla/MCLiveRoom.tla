----------------------------- MODULE MCLiveRoom -----------------------------
(***************************************************************************)
(* Bounds of the run live_room: two broadcasts and a crash, or one         *)
(* broadcast, two changes of the configuration and a reconnect.            *)
(***************************************************************************)
EXTENDS LiveRoom

Within == \/ spent.reload = 0 /\ spent.cut = 0
          \/ streams <= 1 /\ spent.crash = 0
=============================================================================
