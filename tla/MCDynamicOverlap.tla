-------------------------- MODULE MCDynamicOverlap --------------------------
(***************************************************************************)
(* The run dynamic_overlap, and what overlapping checks and pushes do to   *)
(* the pinned dynamic.  A check compares the answer of the server with the *)
(* pin that was recorded before it asked, and an answer may come after     *)
(* that of a later check: overtaken counts what such answers undo.         *)
(***************************************************************************)
EXTENDS MCDynamic

VARIABLE overtaken  \* history: steps that take the recorded pin, or drop a
                    \* snapshot of the uploader's pin, for one that is outdated

Overtaken == /\ mem.init /\ mem'.init /\ mem'.pin # feedPin
             /\ \/ mem'.pin # mem.pin
                \/ \E i \in Id \cap {feedPin} : /\ mem.pend[Pinned(i)] # None
                                               /\ mem'.pend[Pinned(i)] = None

OverlapInit == Init /\ overtaken = 0
OverlapNext == Next /\ overtaken' = IF Overtaken THEN overtaken + 1 ELSE overtaken
OverlapSpec == OverlapInit /\ [][OverlapNext]_<<vars, overtaken>>

\* Bound: the pin changes once everything is published and nothing is new, with
\* at most one crash or failed send.
Within == spent.pin > 0 => /\ published = MaxId /\ (mem.init => base = MaxId)
                           /\ spent.crash + spent.fail <= 1 /\ spent.db = 0

PinPushes(x) == MapThenSumSet(LAMBDA i : sent[Pinned(i)][x], Id)

\* The first pin is recorded and not pushed.  Every later change of the pin is
\* pushed to a target at most once, although each of the overlapping checks that
\* sees it spawns a push: once more only for a crash, for a lost receipt, and
\* for an overtaken answer (_check_user_dynamic, _deliver_pinned_change).
PinPushedOnce ==
  \A x \in Target : PinPushes(x) <= spent.crash + spent.lost + overtaken
                                    + (IF spent.pin = 0 THEN 0 ELSE spent.pin - 1)
=============================================================================
