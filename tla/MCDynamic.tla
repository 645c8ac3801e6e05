----------------------------- MODULE MCDynamic -----------------------------
EXTENDS DynamicMonitor, TLC

\* Slots of one kind and targets are interchangeable.
Symmetric == Permutations(Target) \cup Permutations(Check) \cup Permutations(Task)
=============================================================================
