---------------------------- MODULE CapitalLedger ----------------------------
(***************************************************************************)
(* The sealed capital ledger (v3/capital/repository.py): cash buckets,     *)
(* fund units, subscriptions and redemptions, entry reserves, fills, close *)
(* valuations, the water marks with the RISK latch, and the lifecycle of   *)
(* the account.                                                            *)
(*                                                                         *)
(* Every operation runs in one BEGIN IMMEDIATE transaction that rolls back *)
(* as a whole (_run_write_transaction), so an operation is one action; a   *)
(* refused or repeated call changes nothing and is a stutter.  What the    *)
(* callers interleave is whole operations: a price is frozen by one and    *)
(* used by a later one, a payable is confirmed by one and paid by another. *)
(*                                                                         *)
(* Money is whole cents and a fill is one share at a price in whole cents, *)
(* so marks and fills never round; unit prices are rationals and do.       *)
(* Receivables, unsettled cash, fees, corporate actions, execution busts   *)
(* and stage budgets are left out.                                         *)
(***************************************************************************)
EXTENDS Integers, FiniteSets, FiniteSetsExt

CONSTANTS
  Subs,            \* subscription request ids
  Reds,            \* redemption request ids
  Reserves,        \* reserve source ids
  Lots,            \* economic lots of attributed fills
  Executions,      \* broker execution ids, each recorded once
  Securities,
  Amounts,         \* cents a subscription brings in or a reserve sets aside
  UnitAmounts,     \* units each redemption request may ask for
  Prices,          \* cents a share trades or is marked at
  GenesisUnits,
  GenesisCash,
  MaxObservations, \* bound on the confirmed or restated valuations
  MaxEpoch,        \* bound on the risk epochs
  MaxVersion,      \* bound on capital facts; payments go beyond it
  NoRequest,
  NoSecurity,
  NoReserve

ASSUME CapitalAssumption ==
  /\ \A ids \in {Subs, Reds, Reserves, Lots, Executions} : IsFiniteSet(ids)
  /\ Subs \cap Reds = {} /\ Lots \cap Executions = {}
  /\ Amounts \subseteq Nat \ {0} /\ UnitAmounts \in [Reds -> SUBSET (Nat \ {0})]
  /\ Prices \subseteq Nat \ {0}
  /\ GenesisUnits \in Nat \ {0} /\ GenesisCash \in Nat \ {0}
  /\ MaxObservations \in Nat /\ MaxEpoch \in Nat /\ MaxVersion \in Nat
  /\ NoRequest \notin Subs \cup Reds
  /\ NoSecurity \notin Securities /\ NoReserve \notin Reserves

VARIABLES
  lifecycle,    \* capital_projection.lifecycle_state
  version,      \* capital_projection.capital_version
  cash,         \* the cash buckets of capital_projection
  units,        \* issued and pending redeemed unit quanta
  nav,          \* as_observed_nav_cents
  hwm,          \* lifetime and active-epoch high water marks
  latch,        \* risk_latches row RISK
  epoch,        \* gateway_meta.risk_epoch
  observed,     \* number of nav_observations rows
  flow,         \* flow_requests
  payable,      \* open cents of the payable of each flow request
  flows,        \* capital_flow_events; their order is not used
  reserve,      \* reserves
  position,     \* positions; a lot named by an execution is unattributed
  marks,        \* marks of the newest as-observed valuation, 0 for none
  executed,     \* execution_revisions
  tradeCash     \* net cash of the economic events

projection == <<lifecycle, version, cash, units, nav, hwm, latch>>
financing == <<flow, payable, flows>>
book == <<position, marks, executed, tradeCash>>
vars == <<lifecycle, version, cash, units, nav, hwm, latch, epoch, observed,
          flow, payable, flows, reserve, position, marks, executed, tradeCash>>

Requests == Subs \cup Reds
AllLots == Lots \cup Executions
Buckets == {"available", "restricted", "subSuspense", "redSuspense"}
Lifecycle == {"ACTIVE", "TERMINATING", "TERMINATED", "INSOLVENT"}
NotTerminated == Lifecycle \ {"TERMINATED"}
FlowState == {"NONE", "RECEIVED", "REQUESTED", "PRICED", "SETTLED", "PAID",
              "CANCELLED"}
Live_Released == {"LIVE", "CANCEL_PENDING", "RELEASED"}
Live == {"LIVE", "CANCEL_PENDING"}
ReserveState == Live \cup {"NONE", "RELEASED", "CONSUMED"}

-----------------------------------------------------------------------------
(* Rounding and valuation                                                  *)

RoundHalfEven_Down(n, d) == n \div d

RoundHalfEven(n, d) ==
  LET q == n \div d
      r == 2 * (n % d)
  IN  IF r > d \/ (r = d /\ q % 2 = 1) THEN q + 1 ELSE q

OpenLots(pos) == {p \in AllLots : pos[p].state \in {"OPEN", "EXIT_PENDING"}}

MarkOf(sec, mk) == IF sec \in Securities THEN mk[sec] ELSE 0

MarkedGross(pos, mk) ==
  SumFunctionOnSet([p \in AllLots |-> pos[p].qty * MarkOf(pos[p].sec, mk)],
                   OpenLots(pos))

OpenPayables(pay) == SumFunctionOnSet(pay, Requests)

CashTotal(c) == c.available + c.restricted + c.subSuspense + c.redSuspense

EquityOf(c, pos, mk, pay) ==
  CashTotal(c) + MarkedGross(pos, mk) - OpenPayables(pay)

Equity == EquityOf(cash, position, marks, payable)
LiveUnits == units.issued - units.pending

Priceable ==
  /\ \A p \in OpenLots(position) : MarkOf(position[p].sec, marks) > 0
  /\ LiveUnits > 0

-----------------------------------------------------------------------------
(* Steps every operation is built from                                     *)

In_Unchecked(states) == states # {}
In(states) == lifecycle \in states

Bump_WithNav ==
  version < MaxVersion /\ version' = version + (IF nav' = nav THEN 0 ELSE 1)

Bump == version < MaxVersion /\ version' = version + 1

Drawdown15(n, h) == h > 0 /\ 100 * (h - n) >= 15 * h

LatchAfter(n, h) ==
  IF latch = "RISK_HALTED" \/ Drawdown15(n, h) THEN "RISK_HALTED" ELSE "CLEAR"

(* The trailing recompute_risk_and_stage_loss of an operation that moves   *)
(* neither the NAV nor the water marks.                                    *)
Recompute == latch' = LatchAfter(nav, hwm.active) /\ UNCHANGED <<nav, hwm>>

Revalue_NoNewHigh(n, shift) ==
  /\ nav' = n
  /\ hwm' = [m \in {"lifetime", "active"} |-> hwm[m] + shift]
  /\ latch' = LatchAfter(n, hwm.active + shift)

(* A confirmed NAV of n with both water marks shifted by external cents.   *)
Revalue(n, shift) ==
  /\ nav' = n
  /\ hwm' = [m \in {"lifetime", "active"} |-> Max({hwm[m] + shift, n})]
  /\ latch' = LatchAfter(n, Max({hwm.active + shift, n}))

(* side is the refund of a subscription, or the cash a redemption moved    *)
(* into or out of suspense.                                                *)
Record(kind, r, amount, side, quanta) ==
  flows' = flows \cup {[kind |-> kind, req |-> r, amount |-> amount,
                       side |-> side, quanta |-> quanta]}

OnFile(kind, r) == \E e \in flows : e.kind = kind /\ e.req = r

SetRow(r, s, c, q, v, u, f) ==
  flow' = [flow EXCEPT ![r] = [state |-> s, cents |-> c, quanta |-> q,
                               vPre |-> v, uPre |-> u, frozen |-> f]]

SetState(r, s) == SetRow(r, s, flow[r].cents, flow[r].quanta, flow[r].vPre,
                         flow[r].uPre, flow[r].frozen)

Settled(r, cents, v, u) ==
  SetRow(r, "SETTLED", cents, flow[r].quanta, v, u, flow[r].frozen)

-----------------------------------------------------------------------------
(* Genesis and subscriptions                                               *)

Init ==
  /\ lifecycle = "ACTIVE" /\ version = 1 /\ epoch = 1 /\ observed = 0
  /\ cash = [b \in Buckets |-> 0]
  /\ units = [issued |-> 0, pending |-> 0]
  /\ nav = 0 /\ hwm = [m \in {"lifetime", "active"} |-> 0] /\ latch = "CLEAR"
  /\ flow = [r \in Requests |-> [state |-> "NONE", cents |-> 0, quanta |-> 0,
                                 vPre |-> 0, uPre |-> 0, frozen |-> 0]]
  /\ payable = [r \in Requests |-> 0]
  /\ flows = {}
  /\ reserve = [v \in Reserves |-> [state |-> "NONE", cents |-> 0]]
  /\ position = [p \in AllLots |-> [state |-> "NONE", qty |-> 0,
                                    sec |-> NoSecurity]]
  /\ marks = [s \in Securities |-> 0]
  /\ executed = {} /\ tradeCash = 0

InitializeGenesis ==
  /\ In({"ACTIVE"})
  /\ flows = {} /\ executed = {} /\ cash.available = 0 /\ units.issued = 0
  /\ cash' = [cash EXCEPT !.available = GenesisCash]
  /\ units' = [units EXCEPT !.issued = GenesisUnits]
  /\ Revalue(GenesisCash, 0)
  /\ Record("GENESIS", NoRequest, GenesisCash, 0, GenesisUnits)
  /\ observed' = observed + 1 /\ Bump
  /\ UNCHANGED <<lifecycle, epoch, flow, payable, reserve, book>>

RequestSubscription(s) ==
  /\ In({"ACTIVE"}) /\ flow[s].state = "NONE"
  /\ \E a \in Amounts :
       /\ SetRow(s, "RECEIVED", a, 0, 0, 0, 0)
       /\ payable' = [payable EXCEPT ![s] = a]
       /\ cash' = [cash EXCEPT !.subSuspense = @ + a]
       /\ Record("SUBSCRIPTION_RECEIVED", s, a, 0, 0)
  /\ Recompute /\ Bump
  /\ UNCHANGED <<lifecycle, units, epoch, observed, reserve, book>>

(* Freezing a price changes no capital fact and leaves the version alone.  *)
(* The receipt holds a positive amount, so a payout that rounds to zero    *)
(* raises and the freeze is rolled back.                                   *)
PriceFlow(r, payout) ==
  /\ flow[r].state \in {"RECEIVED", "REQUESTED", "PRICED"} /\ Priceable
  /\ payout > 0
  /\ SetRow(r, "PRICED", payout, flow[r].quanta, Equity, LiveUnits, version)
  /\ UNCHANGED <<projection, epoch, observed, payable, flows, reserve, book>>

PriceSubscription(s) == In({"ACTIVE"}) /\ PriceFlow(s, flow[s].cents)

PriceRedemption(r) ==
  /\ In({"ACTIVE", "INSOLVENT"})
  /\ PriceFlow(r, RoundHalfEven(flow[r].quanta * Equity, LiveUnits))

Usable_AnyVersion(r) == flow[r].state = "PRICED" \/ Priceable

(* A PRICED request settles at its frozen price if no capital fact has     *)
(* changed since; any other is priced inside the settlement.               *)
Usable(r) == IF flow[r].state = "PRICED" THEN flow[r].frozen = version
                                         ELSE Priceable
PriceOf(r) == IF flow[r].state = "PRICED" THEN <<flow[r].vPre, flow[r].uPre>>
                                          ELSE <<Equity, LiveUnits>>

SettleSubscription(s) ==
  LET paid == flow[s].cents
      v == PriceOf(s)[1]
      u == PriceOf(s)[2]
      issued == (paid * u) \div v
      consumed == RoundHalfEven(issued * v, u)
  IN
  /\ In({"ACTIVE"}) /\ flow[s].state \in {"RECEIVED", "PRICED"} /\ Usable(s)
  /\ v # 0 /\ issued > 0
  /\ cash' = [cash EXCEPT !.available = @ + consumed, !.subSuspense = @ - paid]
  /\ payable' = [payable EXCEPT ![s] = 0]
  /\ units' = [units EXCEPT !.issued = @ + issued]
  /\ Revalue(EquityOf(cash', position, marks, payable'), consumed)
  /\ Settled(s, paid, v, u)
  /\ Record("SUBSCRIPTION_SETTLED", s, consumed, paid - consumed, issued)
  /\ Bump /\ UNCHANGED <<lifecycle, epoch, observed, reserve, book>>

CancelSubscription(s) ==
  /\ In({"ACTIVE"}) /\ flow[s].state \in {"RECEIVED", "PRICED"}
  /\ cash' = [cash EXCEPT !.subSuspense = @ - flow[s].cents]
  /\ payable' = [payable EXCEPT ![s] = 0]
  /\ SetState(s, "CANCELLED")
  /\ Record("SUBSCRIPTION_CANCELLED", s, flow[s].cents, flow[s].cents, 0)
  /\ Recompute /\ Bump
  /\ UNCHANGED <<lifecycle, units, epoch, observed, reserve, book>>

-----------------------------------------------------------------------------
(* Redemptions                                                             *)

RequestRedemption(r) ==
  /\ In({"ACTIVE", "INSOLVENT"}) /\ flow[r].state = "NONE"
  /\ \E u \in UnitAmounts[r] : SetRow(r, "REQUESTED", 0, u, 0, 0, 0)
  /\ UNCHANGED <<projection, epoch, observed, payable, flows, reserve, book>>

SetAside_Nothing(full, payout) == 0

(* Cash moved into suspense for the payable.                               *)
SetAside(full, payout) ==
  IF full THEN Min({cash.available, payout}) ELSE payout

SettleRedemption(r) ==
  LET v == PriceOf(r)[1]
      u == PriceOf(r)[2]
      quanta == flow[r].quanta
      payout == RoundHalfEven(quanta * v, u)
      full == quanta = u
      reserved == SetAside(full, payout)
  IN
  /\ In({"ACTIVE", "INSOLVENT"})
  /\ flow[r].state \in {"REQUESTED", "PRICED"} /\ Usable(r) /\ quanta <= u
  /\ IF full THEN OpenLots(position) = {} /\ cash.restricted = 0
             ELSE cash.available >= payout
  /\ cash' = [cash EXCEPT !.available = @ - reserved,
                          !.redSuspense = @ + reserved]
  /\ payable' = [payable EXCEPT ![r] = payout]
  /\ IF full THEN /\ units' = [units EXCEPT !.pending = @ + quanta]
                  /\ lifecycle' = "TERMINATING"
             ELSE /\ units' = [units EXCEPT !.issued = @ - quanta]
                  /\ UNCHANGED lifecycle
  /\ Revalue(EquityOf(cash', position, marks, payable'), 0)
  /\ Settled(r, payout, v, u)
  /\ Record(IF full THEN "REDEEMED_FULL" ELSE "REDEEMED_PART",
            r, payout, reserved, quanta)
  /\ Bump /\ UNCHANGED <<epoch, observed, reserve, book>>

CancelRedemption(r) ==
  /\ flow[r].state \in {"REQUESTED", "PRICED"}
  /\ SetState(r, "CANCELLED")
  /\ UNCHANGED <<projection, epoch, observed, payable, flows, reserve, book>>

(* No asset, liability or reserve is left on the books.                    *)
ObligationsRemaining(c, pay) ==
  \/ \E b \in Buckets : c[b] # 0
  \/ OpenLots(position) # {}
  \/ OpenPayables(pay) # 0
  \/ \E v \in Reserves : reserve[v].state \in Live

(* One payment per request: its idempotency key names the request only.    *)
PayRedemption(r) ==
  LET due == payable[r]
      payment == Min({due, cash.available + cash.redSuspense})
      fromSuspense == Min({cash.redSuspense, payment})
      idle == ~ObligationsRemaining(cash', payable')
      burnt == IF due = payment /\ idle THEN units.pending ELSE 0
  IN
  /\ In(NotTerminated) /\ flow[r].state = "SETTLED"
  /\ payment > 0 /\ ~OnFile("REDEMPTION_PAID", r)
  /\ cash' = [cash EXCEPT !.redSuspense = @ - fromSuspense,
                          !.available = @ - (payment - fromSuspense)]
  /\ payable' = [payable EXCEPT ![r] = @ - payment]
  /\ IF due = payment THEN SetState(r, "PAID") ELSE UNCHANGED flow
  /\ units' = [issued |-> units.issued - burnt, pending |-> units.pending - burnt]
  /\ lifecycle' = IF lifecycle = "TERMINATING" /\ idle /\ units'.issued = 0
                     /\ units'.pending = 0
                  THEN "TERMINATED" ELSE lifecycle
  /\ Revalue(EquityOf(cash', position, marks, payable'), -payment)
  /\ Record("REDEMPTION_PAID", r, payment, fromSuspense, burnt)
  /\ version' = version + 1 /\ UNCHANGED <<epoch, observed, reserve, book>>

-----------------------------------------------------------------------------
(* Valuations and risk epochs                                              *)

ConfirmNav(n) ==
  /\ Revalue(n, 0)
  /\ lifecycle' = IF n <= 0 /\ lifecycle \in {"ACTIVE", "TERMINATING"}
                  THEN "INSOLVENT" ELSE lifecycle
  /\ observed' = observed + 1 /\ Bump

(* Every security with an open position is marked, and no other.           *)
CloseValuation ==
  LET held == {position[p].sec : p \in OpenLots(position)} IN
  /\ In(NotTerminated) /\ held # {} /\ observed < MaxObservations
  /\ \E mk \in [held -> Prices] :
       marks' = [s \in Securities |-> IF s \in held THEN mk[s] ELSE 0]
  /\ ConfirmNav(EquityOf(cash, position, marks', payable))
  /\ UNCHANGED <<cash, units, epoch, financing, reserve, position, executed,
                 tradeCash>>

(* Without positions the NAV is confirmed without a VALUATION event: the   *)
(* marks of the last event stay the newest ones.                           *)
CloseValuationLiquid ==
  /\ In(NotTerminated) /\ OpenLots(position) = {} /\ units.issued # 0
  /\ observed < MaxObservations
  /\ ConfirmNav(EquityOf(cash, position, marks, payable))
  /\ UNCHANGED <<cash, units, epoch, financing, reserve, book>>

(* A restatement is a series of its own; it only bumps the version.        *)
RestateValuation ==
  /\ In(NotTerminated) /\ observed < MaxObservations
  /\ \E s \in Securities : marks[s] > 0
  /\ observed' = observed + 1 /\ Recompute /\ Bump
  /\ UNCHANGED <<lifecycle, cash, units, epoch, financing, reserve, book>>

(* The audited NAV must be the confirmed one.                              *)
StartRiskEpoch ==
  /\ In({"ACTIVE"}) /\ epoch < MaxEpoch
  /\ hwm' = [hwm EXCEPT !.active = nav] /\ latch' = "CLEAR"
  /\ epoch' = epoch + 1 /\ UNCHANGED nav /\ Bump
  /\ UNCHANGED <<lifecycle, cash, units, observed, financing, reserve, book>>

-----------------------------------------------------------------------------
(* Entry reserves and fills                                                *)

(* A batch is reserved as a whole or not at all; each line bumps.          *)
ReserveEntries(batch) ==
  /\ In({"ACTIVE"}) /\ batch # {}
  /\ \A v \in batch : reserve[v].state = "NONE"
  /\ \E a \in [batch -> Amounts] :
       LET total == SumFunctionOnSet(a, batch) IN
       /\ total <= cash.available
       /\ cash' = [cash EXCEPT !.available = @ - total, !.restricted = @ + total]
       /\ reserve' = [v \in Reserves |->
            IF v \in batch THEN [state |-> "LIVE", cents |-> a[v]] ELSE reserve[v]]
  /\ version < MaxVersion /\ version' = version + Cardinality(batch) /\ Recompute
  /\ UNCHANGED <<lifecycle, units, epoch, observed, financing, book>>

RequestCancel(v) ==
  /\ reserve[v].state = "LIVE"
  /\ reserve' = [reserve EXCEPT ![v].state = "CANCEL_PENDING"]
  /\ Recompute /\ Bump
  /\ UNCHANGED <<lifecycle, cash, units, epoch, observed, financing, book>>

ReleaseReserve(v) ==
  /\ reserve[v].state \in Live
  /\ reserve' = [reserve EXCEPT ![v].state = "RELEASED"]
  /\ cash' = [cash EXCEPT !.available = @ + reserve[v].cents,
                          !.restricted = @ - reserve[v].cents]
  /\ Recompute /\ Bump
  /\ UNCHANGED <<lifecycle, units, epoch, observed, financing, book>>

Released(v) == v # NoReserve /\ reserve[v].state = "RELEASED"
Restricted_LiveOnly(v) ==
  IF v # NoReserve /\ reserve[v].state = "LIVE" THEN reserve[v].cents ELSE 0

Restricted(v) ==
  IF v # NoReserve /\ reserve[v].state \in Live THEN reserve[v].cents ELSE 0

(* A fill after the confirmed release of its reserve is kept under a lot   *)
(* named by its execution.  A live reserve is consumed whole.              *)
EntryFill(x, v) ==
  /\ In({"ACTIVE"}) /\ x \notin executed
  /\ v # NoReserve => reserve[v].state \notin {"NONE", "CONSUMED"}
  /\ \E l \in IF Released(v) THEN {x} ELSE Lots \cup {x}, s \in Securities,
        price \in Prices :
       /\ position[l].state \in {"NONE", "OPEN"}
       /\ position[l].state = "OPEN" => position[l].sec = s
       /\ cash.available + Restricted(v) >= price
       /\ position' = [position EXCEPT ![l] =
            [state |-> "OPEN", qty |-> @.qty + 1, sec |-> s]]
       /\ cash' = [cash EXCEPT !.available = @ + Restricted(v) - price,
                               !.restricted = @ - Restricted(v)]
       /\ tradeCash' = tradeCash - price
  /\ reserve' = [w \in Reserves |-> IF w = v /\ reserve[w].state \in Live
                   THEN [reserve[w] EXCEPT !.state = "CONSUMED"] ELSE reserve[w]]
  /\ executed' = executed \cup {x}
  /\ Recompute /\ Bump
  /\ UNCHANGED <<lifecycle, units, epoch, observed, financing, marks>>

ExitFill(x) ==
  /\ In(NotTerminated) /\ x \notin executed
  /\ \E l \in OpenLots(position), price \in Prices :
       /\ position' = [position EXCEPT ![l].qty = @ - 1,
            ![l].state = IF position[l].qty = 1 THEN "CLOSED" ELSE "EXIT_PENDING"]
       /\ cash' = [cash EXCEPT !.available = @ + price]
       /\ tradeCash' = tradeCash + price
  /\ executed' = executed \cup {x}
  /\ Recompute /\ Bump
  /\ UNCHANGED <<lifecycle, units, epoch, observed, financing, reserve, marks>>

-----------------------------------------------------------------------------

Next ==
  \/ InitializeGenesis
  \/ \E s \in Subs : \/ RequestSubscription(s) \/ PriceSubscription(s)
                     \/ SettleSubscription(s) \/ CancelSubscription(s)
  \/ \E r \in Reds : \/ RequestRedemption(r) \/ PriceRedemption(r)
                     \/ SettleRedemption(r) \/ CancelRedemption(r)
                     \/ PayRedemption(r)
  \/ CloseValuation \/ CloseValuationLiquid \/ RestateValuation \/ StartRiskEpoch
  \/ \E batch \in SUBSET Reserves : ReserveEntries(batch)
  \/ \E v \in Reserves : RequestCancel(v) \/ ReleaseReserve(v)
  \/ \E x \in Executions : \/ \E v \in Reserves \cup {NoReserve} : EntryFill(x, v)
                           \/ ExitFill(x)

(* Whoever settled a redemption goes on asking for its payment.            *)
Spec == Init /\ [][Next]_vars /\ \A r \in Reds : WF_vars(PayRedemption(r))

-----------------------------------------------------------------------------
(* Properties                                                              *)

FlowRow == [state: FlowState, cents: Nat, quanta: Nat, vPre: Nat, uPre: Nat,
            frozen: Nat]

(* Every bucket, unit count, price input and water mark is a natural       *)
(* number: no operation overdraws a bucket, burns units that do not exist  *)
(* or freezes a negative price.                                            *)
TypeOK ==
  /\ lifecycle \in Lifecycle /\ latch \in {"CLEAR", "RISK_HALTED"}
  /\ version \in Nat /\ epoch \in 1..(MaxEpoch + 1)
  /\ observed \in 0..(MaxObservations + 1)
  /\ cash \in [Buckets -> Nat]
  /\ units \in [issued: Nat, pending: Nat]
  /\ flow \in [Requests -> FlowRow] /\ payable \in [Requests -> Nat]
  /\ reserve \in [Reserves -> [state: ReserveState, cents: Nat]]
  /\ \A p \in AllLots : position[p].qty \in Nat
  /\ executed \subseteq Executions /\ tradeCash \in Int
  /\ \A e \in flows : e.amount \in Nat /\ e.side \in Nat /\ e.quanta \in Nat

(* read_capital_risk_snapshot closes every operation with a CapitalRisk-   *)
(* Snapshot whose validators refuse a NAV below zero or above a water      *)
(* mark, pending units above the issued ones, and a drawdown of 15 percent *)
(* without the halt.  No legal sequence of operations reaches such a       *)
(* state, so the trailing snapshot never rolls an operation back.          *)
SnapshotRepresentable ==
  /\ 0 <= nav /\ nav <= hwm.lifetime /\ nav <= hwm.active
  /\ units.pending <= units.issued
  /\ Drawdown15(nav, hwm.active) => latch = "RISK_HALTED"

(* A price that would be accepted as fresh is the price of the portfolio   *)
(* as it is now: no operation moves equity or live units without moving    *)
(* the capital version the freshness check compares.                       *)
FreshPrice ==
  \A r \in Requests :
    flow[r].state = "PRICED" /\ flow[r].frozen = version =>
      flow[r].vPre = Equity /\ flow[r].uPre = LiveUnits

(* The price a settlement puts on file is the portfolio's before the       *)
(* settlement, whether it was frozen earlier or taken inside it.           *)
SettledAtLivePrice ==
  [][\A r \in Requests :
       flow[r].state # "SETTLED" /\ flow'[r].state = "SETTLED" =>
         flow'[r].vPre = Equity /\ flow'[r].uPre = LiveUnits]_vars

(* A financing flow leaves the unit price where it was, up to the half     *)
(* cent of one rounding: receipts, cancellations and payments exactly,     *)
(* settlements because they convert cash and units at one price.           *)
FlowInvariance ==
  [][flows' # flows /\ LiveUnits > 0 =>
       LET drift == Equity' * LiveUnits - Equity * LiveUnits' IN
       2 * drift <= LiveUnits /\ -2 * drift <= LiveUnits]_vars

(* A terminated account holds nothing and owes nothing: no cash, units,    *)
(* payable, position or live reserve, then or later.                       *)
TerminatedIsEmpty ==
  lifecycle = "TERMINATED" =>
    /\ ~ObligationsRemaining(cash, payable)
    /\ units.issued = 0 /\ units.pending = 0

(* The cash set aside at settlement is still there when it is asked for,   *)
(* whatever is bought or paid in between: every positive payable of a      *)
(* settled redemption is paid.                                             *)
SettledIsPaid ==
  \A r \in Reds :
    flow[r].state = "SETTLED" /\ payable[r] > 0 ~> flow[r].state = "PAID"

(* pay_redemption: a payment discharges a liability with cash, so it       *)
(* fabricates no drawdown; it never halts the account.                     *)
PaymentIsDrawdownFree ==
  [][\A r \in Reds :
       flow[r].state = "SETTLED" /\ payable'[r] < payable[r] => latch' = latch]_vars

=============================================================================
