----------------------------- MODULE MCExitLane -----------------------------
(* Instances of ExitLane for TLC.                                          *)
EXTENDS ExitLane, TLC

CONSTANTS w1, w2, a1, a2

OneWorker == {w1}
TwoWorkers == {w1, w2}
TwoAttempts == {a1, a2}

(* Attempt ids are only compared.                                          *)
AttemptSymmetry == Permutations(TwoAttempts)

=============================================================================
