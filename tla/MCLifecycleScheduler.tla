------------------------ MODULE MCLifecycleScheduler ------------------------
(* Instances of LifecycleScheduler for TLC.                                *)
EXTENDS LifecycleScheduler

CONSTANTS x1, x2

OneId == {x1}
TwoIds == {x1, x2}
TightBudget == [k \in WorkKind |-> 1]

=============================================================================
