------------------------- MODULE MCMigrationHandoff -------------------------
(* Instances of MigrationHandoff for TLC: two writer processes of one      *)
(* ledger, and a fill followed by another of the same trade, by one of     *)
(* another trade, or by a fact that has no projector.  One process holds   *)
(* its lease open, the other takes it for each call.                       *)
EXTENDS MigrationHandoff, TLC

CONSTANTS w1, w2, t1, t2

TwoWriters == {w1, w2}
OneSession == {w1}
TwoTrades == {t1, t2}
FillFirst == {<<t1, t>> : t \in {t1, t2, NoTrade}}

=============================================================================
