------------------------ MODULE CapitalConservation ------------------------
(***************************************************************************)
(* The conservation check of the capital ledger (v3/capital/               *)
(* conservation.py): it replays capital_flow_events from the first row and *)
(* compares the outcome with the stored projection, reserves and payables. *)
(* The replay is written from the events alone and shares no code with the *)
(* operations of CapitalLedger.                                            *)
(***************************************************************************)
EXTENDS CapitalLedger

Sum(field, kinds) ==
  SumFunctionOnSet([e \in flows |-> e[field]], {e \in flows : e.kind \in kinds})

ReplayedCash ==
  Sum("amount", {"GENESIS", "SUBSCRIPTION_RECEIVED"})
  - Sum("side", {"SUBSCRIPTION_SETTLED", "SUBSCRIPTION_CANCELLED"})
  - Sum("amount", {"REDEMPTION_PAID"})

ReplayedSubSuspense ==
  Sum("amount", {"SUBSCRIPTION_RECEIVED"})
  - Sum("amount", {"SUBSCRIPTION_SETTLED"})
  - Sum("side", {"SUBSCRIPTION_SETTLED", "SUBSCRIPTION_CANCELLED"})

(* The code takes no more than the suspense out of it; here more may not   *)
(* be paid than was set aside, so that cap is never reached.               *)
ReplayedRedSuspense ==
  Sum("side", {"REDEEMED_PART", "REDEEMED_FULL"})
  - Sum("amount", {"REDEMPTION_PAID"})

ReplayedIssued ==
  Sum("quanta", {"GENESIS", "SUBSCRIPTION_SETTLED"})
  - Sum("quanta", {"REDEEMED_PART", "REDEMPTION_PAID"})

ReplayedPending ==
  Sum("quanta", {"REDEEMED_FULL"}) - Sum("quanta", {"REDEMPTION_PAID"})

(* Opening capital and external flows: equity leaves the unit holders when *)
(* the payable is confirmed, not when it is paid.                          *)
ReplayedCapital ==
  Sum("amount", {"GENESIS", "SUBSCRIPTION_SETTLED"})
  - Sum("amount", {"REDEEMED_PART", "REDEEMED_FULL"})

ReplayedPayable(r) ==
  LET mine(kinds) ==
        SumFunctionOnSet([e \in flows |-> e.amount],
                         {e \in flows : e.req = r /\ e.kind \in kinds})
  IN  IF OnFile("SUBSCRIPTION_SETTLED", r) \/ OnFile("SUBSCRIPTION_CANCELLED", r)
      THEN 0
      ELSE mine({"SUBSCRIPTION_RECEIVED", "REDEEMED_PART", "REDEEMED_FULL"})
           - mine({"REDEMPTION_PAID"})

ReservedTotal ==
  SumFunctionOnSet([v \in Reserves |-> reserve[v].cents],
                   {v \in Reserves : reserve[v].state \in Live})

(* verify_conservation never fails: cash equals the replayed flows plus    *)
(* the trades, restricted cash the live reserves, the suspense buckets and *)
(* unit counts their replay, and each open payable its replayed amount.    *)
Conserved ==
  /\ CashTotal(cash) = ReplayedCash + tradeCash
  /\ cash.restricted = ReservedTotal
  /\ cash.subSuspense = ReplayedSubSuspense
  /\ cash.redSuspense = ReplayedRedSuspense
  /\ units = [issued |-> ReplayedIssued, pending |-> ReplayedPending]
  /\ payable = [r \in Requests |-> ReplayedPayable(r)]
  /\ cash.subSuspense = SumFunctionOnSet(payable, Subs)
  /\ Equity = ReplayedCapital + tradeCash + MarkedGross(position, marks)

=============================================================================
