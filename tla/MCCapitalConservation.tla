----------------------- MODULE MCCapitalConservation -----------------------
(* Instances of CapitalConservation for TLC.  r1 redeems part of the fund, *)
(* r2 part or all of it.                                                   *)
EXTENDS CapitalConservation, TLC

CONSTANTS s1, r1, r2, v1, x1, x2, l1, sec1

OneSub == {s1}
TwoReds == {r1, r2}
OneReserve == {v1}
TwoExecutions == {x1, x2}
OneLot == {l1}
OneSecurity == {sec1}
FundAmounts == {5}
FundUnits == [r \in TwoReds |-> IF r = r1 THEN {1} ELSE {1, 3}]
UnitByUnit == [r \in TwoReds |-> {1}]
FundPrices == {2, 5}

=============================================================================
