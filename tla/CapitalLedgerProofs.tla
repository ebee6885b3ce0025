------------------------ MODULE CapitalLedgerProofs ------------------------
(* Proofs about CapitalLedger and its conservation replay, for any finite  *)
(* sets of requests, reserves, lots and executions and any amounts and     *)
(* prices.                                                                 *)
EXTENDS CapitalConservation, Sums

(* flow_requests holds one row per request id.                             *)
RowShape == flow = [r \in Requests |-> flow[r]]

(* No price was frozen at a version the ledger has not reached.            *)
FrozenInThePast ==
  /\ version \in Nat
  /\ \A r \in Requests : flow[r].frozen \in Nat /\ flow[r].frozen <= version

PriceInv == RowShape /\ FrozenInThePast /\ FreshPrice

-----------------------------------------------------------------------------

LEMMA InitPrice == Init => PriceInv
  BY DEF Init, PriceInv, RowShape, FrozenInThePast, FreshPrice

(* An operation that bumps the version makes every frozen price stale, as  *)
(* long as it freezes none itself.                                         *)
LEMMA BumpedPrice ==
  ASSUME PriceInv, version' \in Nat, version' > version, RowShape',
         \A r \in Requests : flow'[r].frozen = flow[r].frozen
  PROVE  PriceInv'
<1>1. FrozenInThePast'
  BY DEF PriceInv, FrozenInThePast
<1>2. FreshPrice'
  <2> SUFFICES ASSUME NEW r \in Requests PROVE flow'[r].frozen # version'
    BY DEF FreshPrice
  <2>1. QED
    BY DEF PriceInv, FrozenInThePast
<1>3. QED
  BY <1>1, <1>2 DEF PriceInv

LEMMA BumpVersion ==
  ASSUME PriceInv, Bump PROVE version' \in Nat /\ version' > version
  BY DEF PriceInv, FrozenInThePast, Bump

LEMMA BumpedRows ==
  ASSUME PriceInv, Bump, UNCHANGED flow PROVE PriceInv'
  BY BumpVersion, BumpedPrice DEF PriceInv, RowShape

(* Equity and live units are functions of what a quiet operation keeps.    *)
LEMMA QuietEquity ==
  ASSUME UNCHANGED <<cash, units, position, marks, payable>>
  PROVE  Equity' = Equity /\ LiveUnits' = LiveUnits
  BY DEF Equity, LiveUnits

(* An update of one row leaves the others alone.                           *)
LEMMA RowSet ==
  ASSUME RowShape, NEW r \in Requests, NEW s, NEW c, NEW n, NEW v, NEW u, NEW f,
         SetRow(r, s, c, n, v, u, f)
  PROVE  /\ RowShape'
         /\ flow'[r].state = s /\ flow'[r].frozen = f
         /\ flow'[r].vPre = v /\ flow'[r].uPre = u
         /\ \A q \in Requests : q # r => flow'[q] = flow[q]
  BY DEF RowShape, SetRow

LEMMA SetStateRows ==
  ASSUME PriceInv, NEW r \in Requests, NEW s, SetState(r, s)
  PROVE  /\ RowShape' /\ flow'[r].state = s
         /\ \A q \in Requests : flow'[q].frozen = flow[q].frozen
         /\ \A q \in Requests : q # r => flow'[q] = flow[q]
  BY RowSet DEF PriceInv, SetState

LEMMA SettledRows ==
  ASSUME PriceInv, NEW r \in Requests, NEW c, NEW v, NEW u, Settled(r, c, v, u)
  PROVE  /\ RowShape' /\ flow'[r].vPre = v /\ flow'[r].uPre = u
         /\ \A q \in Requests : flow'[q].frozen = flow[q].frozen
         /\ \A q \in Requests : q # r => flow'[q] = flow[q]
  BY RowSet DEF PriceInv, Settled

LEMMA PriceFlowKeeps ==
  ASSUME PriceInv, NEW r \in Requests, NEW payout, PriceFlow(r, payout)
  PROVE  PriceInv'
<1> USE DEF PriceInv
<1>1. Equity' = Equity /\ LiveUnits' = LiveUnits /\ version' = version
  BY QuietEquity DEF PriceFlow, projection, book
<1>2. SetRow(r, "PRICED", payout, flow[r].quanta, Equity, LiveUnits, version)
  BY DEF PriceFlow
<1>3. RowShape' /\ \A q \in Requests : q # r => flow'[q] = flow[q]
  BY <1>2, RowSet
<1>4. /\ flow'[r].frozen = version
      /\ flow'[r].vPre = Equity /\ flow'[r].uPre = LiveUnits
  BY <1>2, RowSet
<1>5. FrozenInThePast'
  BY <1>1, <1>3, <1>4 DEF FrozenInThePast
<1>6. FreshPrice'
  BY <1>1, <1>3, <1>4 DEF FreshPrice
<1>7. QED
  BY <1>3, <1>5, <1>6

(* A quiet step may move a request to a state other than PRICED.           *)
LEMMA QuietKeeps ==
  ASSUME PriceInv, NEW r \in Requests, RowShape',
         UNCHANGED <<version, cash, units, position, marks, payable>>,
         \A q \in Requests : flow'[q].frozen = flow[q].frozen,
         \A q \in Requests : q # r => flow'[q] = flow[q],
         flow'[r].state # "PRICED"
  PROVE  PriceInv'
<1>1. Equity' = Equity /\ LiveUnits' = LiveUnits
  BY QuietEquity
<1>2. QED
  BY <1>1 DEF PriceInv, FrozenInThePast, FreshPrice

LEMMA StepPrice == PriceInv /\ [Next]_vars => PriceInv'
<1> SUFFICES ASSUME PriceInv, [Next]_vars PROVE PriceInv'
  OBVIOUS
<1> USE DEF Requests
<1>1. CASE InitializeGenesis
  BY <1>1, BumpedRows DEF InitializeGenesis
<1>2. ASSUME NEW s \in Subs, RequestSubscription(s) PROVE PriceInv'
  <2>1. PICK a : SetRow(s, "RECEIVED", a, 0, 0, 0, 0)
    BY <1>2 DEF RequestSubscription
  <2>2. RowShape' /\ flow'[s].frozen = 0
    BY <2>1, RowSet DEF PriceInv
  <2>3. FrozenInThePast'
    BY <1>2, <2>1, RowSet, BumpVersion DEF RequestSubscription, PriceInv, FrozenInThePast
  <2>4. \A q \in Requests : flow'[q].frozen # version'
    BY <1>2, <2>1, RowSet, BumpVersion DEF RequestSubscription, PriceInv, FrozenInThePast
  <2>5. QED
    BY <2>2, <2>3, <2>4 DEF PriceInv, FreshPrice
<1>3. ASSUME NEW s \in Subs, PriceSubscription(s) PROVE PriceInv'
  BY <1>3, PriceFlowKeeps DEF PriceSubscription
<1>4. ASSUME NEW s \in Subs, SettleSubscription(s) PROVE PriceInv'
  <2>1. PICK c, v, u : Settled(s, c, v, u)
    BY <1>4 DEF SettleSubscription
  <2>2. QED
    BY <1>4, <2>1, SettledRows, BumpVersion, BumpedPrice DEF SettleSubscription
<1>5. ASSUME NEW s \in Subs, CancelSubscription(s) PROVE PriceInv'
  BY <1>5, SetStateRows, BumpVersion, BumpedPrice DEF CancelSubscription
<1>6. ASSUME NEW r \in Reds, RequestRedemption(r) PROVE PriceInv'
  <2>1. PICK n : SetRow(r, "REQUESTED", 0, n, 0, 0, 0)
    BY <1>6 DEF RequestRedemption
  <2>2. /\ RowShape' /\ flow'[r].state = "REQUESTED" /\ flow'[r].frozen = 0
        /\ \A q \in Requests : q # r => flow'[q] = flow[q]
    BY <2>1, RowSet DEF PriceInv
  <2>3. UNCHANGED version /\ Equity' = Equity /\ LiveUnits' = LiveUnits
    BY <1>6, QuietEquity DEF RequestRedemption, projection, book
  <2>4. QED
    BY <2>2, <2>3 DEF PriceInv, FrozenInThePast, FreshPrice
<1>7. ASSUME NEW r \in Reds, PriceRedemption(r) PROVE PriceInv'
  BY <1>7, PriceFlowKeeps DEF PriceRedemption
<1>8. ASSUME NEW r \in Reds, SettleRedemption(r) PROVE PriceInv'
  <2>1. PICK c, v, u : Settled(r, c, v, u)
    BY <1>8 DEF SettleRedemption
  <2>2. QED
    BY <1>8, <2>1, SettledRows, BumpVersion, BumpedPrice DEF SettleRedemption
<1>9. ASSUME NEW r \in Reds, CancelRedemption(r) PROVE PriceInv'
  BY <1>9, SetStateRows, QuietKeeps DEF CancelRedemption, projection, book
<1>10. ASSUME NEW r \in Reds, PayRedemption(r) PROVE PriceInv'
  <2>1. SetState(r, "PAID") \/ UNCHANGED flow
    BY <1>10 DEF PayRedemption
  <2>2. RowShape' /\ \A q \in Requests : flow'[q].frozen = flow[q].frozen
    BY <2>1, SetStateRows DEF PriceInv, RowShape
  <2>3. version' = version + 1
    BY <1>10 DEF PayRedemption
  <2>4. version' \in Nat /\ version' > version
    BY <2>3 DEF PriceInv, FrozenInThePast
  <2>5. QED
    BY <2>2, <2>4, BumpedPrice
<1>11. CASE CloseValuation
  BY <1>11, BumpedRows DEF CloseValuation, ConfirmNav, financing
<1>12. CASE CloseValuationLiquid
  BY <1>12, BumpedRows DEF CloseValuationLiquid, ConfirmNav, financing
<1>13. CASE RestateValuation
  BY <1>13, BumpedRows DEF RestateValuation, financing
<1>14. CASE StartRiskEpoch
  BY <1>14, BumpedRows DEF StartRiskEpoch, financing
<1>15. ASSUME NEW b \in SUBSET Reserves, ReserveEntries(b) PROVE PriceInv'
  <2>1. IsFiniteSet(b)
    BY CapitalAssumption, FS_Subset
  <2>2. Cardinality(b) \in Nat /\ Cardinality(b) # 0
    BY <1>15, <2>1, FS_CardinalityType, FS_EmptySet DEF ReserveEntries
  <2>3. version' \in Nat /\ version' > version
    BY <1>15, <2>2 DEF ReserveEntries, PriceInv, FrozenInThePast
  <2>4. UNCHANGED flow
    BY <1>15 DEF ReserveEntries, financing
  <2>5. QED
    BY <2>3, <2>4, BumpedPrice DEF PriceInv, RowShape
<1>16. ASSUME NEW v \in Reserves, RequestCancel(v) PROVE PriceInv'
  BY <1>16, BumpedRows DEF RequestCancel, financing
<1>17. ASSUME NEW v \in Reserves, ReleaseReserve(v) PROVE PriceInv'
  BY <1>17, BumpedRows DEF ReleaseReserve, financing
<1>18. ASSUME NEW x \in Executions, NEW v, EntryFill(x, v) PROVE PriceInv'
  BY <1>18, BumpedRows DEF EntryFill, financing
<1>19. ASSUME NEW x \in Executions, ExitFill(x) PROVE PriceInv'
  BY <1>19, BumpedRows DEF ExitFill, financing
<1>20. CASE UNCHANGED vars
  BY <1>20, QuietEquity DEF vars, PriceInv, RowShape, FrozenInThePast, FreshPrice
<1>21. QED
  BY <1>1, <1>2, <1>3, <1>4, <1>5, <1>6, <1>7, <1>8, <1>9, <1>10, <1>11,
     <1>12, <1>13, <1>14, <1>15, <1>16, <1>17, <1>18, <1>19, <1>20 DEF Next

(* A frozen price that the version check accepts is the price of the       *)
(* portfolio: every operation that moves equity or live units bumps the    *)
(* capital version (_price_flow, _subscription_pricing, settle_redemption).*)
THEOREM PricesStayFresh == Spec => []FreshPrice
<1>1. PriceInv => FreshPrice
  BY DEF PriceInv
<1>2. QED
  BY <1>1, InitPrice, StepPrice, PTL DEF Spec

-----------------------------------------------------------------------------

LEMMA UsablePrice ==
  ASSUME PriceInv, NEW r \in Requests, Usable(r)
  PROVE  PriceOf(r) = <<Equity, LiveUnits>>
  BY DEF PriceInv, FreshPrice, Usable, PriceOf

(* Only the settlement of a request moves it to SETTLED.                   *)
Settles(r) == flow[r].state # "SETTLED" /\ flow'[r].state = "SETTLED"

AtLivePrice(r) == flow'[r].vPre = Equity /\ flow'[r].uPre = LiveUnits

LEMMA SettlePrice ==
  ASSUME PriceInv, [Next]_vars, NEW r \in Requests, Settles(r)
  PROVE  AtLivePrice(r)
<1> USE DEF Settles
<1>1. CASE UNCHANGED flow
  BY <1>1
<1>2. ASSUME NEW s \in Subs, SettleSubscription(s) PROVE AtLivePrice(r)
  <2>1. PICK c : Settled(s, c, PriceOf(s)[1], PriceOf(s)[2])
    BY <1>2 DEF SettleSubscription
  <2>2. r = s
    BY <2>1, SettledRows DEF Requests
  <2>3. PriceOf(s) = <<Equity, LiveUnits>>
    BY <1>2, <2>2, UsablePrice DEF SettleSubscription
  <2>4. flow'[s].vPre = PriceOf(s)[1] /\ flow'[s].uPre = PriceOf(s)[2]
    BY <2>1, <2>2, SettledRows
  <2>5. QED
    BY <2>2, <2>3, <2>4 DEF AtLivePrice
<1>3. ASSUME NEW s \in Reds, SettleRedemption(s) PROVE AtLivePrice(r)
  <2>1. PICK c : Settled(s, c, PriceOf(s)[1], PriceOf(s)[2])
    BY <1>3 DEF SettleRedemption
  <2>2. r = s
    BY <2>1, SettledRows DEF Requests
  <2>3. PriceOf(s) = <<Equity, LiveUnits>>
    BY <1>3, <2>2, UsablePrice DEF SettleRedemption
  <2>4. flow'[s].vPre = PriceOf(s)[1] /\ flow'[s].uPre = PriceOf(s)[2]
    BY <2>1, <2>2, SettledRows
  <2>5. QED
    BY <2>2, <2>3, <2>4 DEF AtLivePrice
<1>4. ASSUME NEW s \in Requests, NEW p \in FlowState \ {"SETTLED"}, NEW c, NEW n,
             NEW v, NEW u, NEW f, SetRow(s, p, c, n, v, u, f)
      PROVE  FALSE
  BY <1>4, RowSet DEF PriceInv
<1>5. ASSUME NEW s \in Requests,
             RequestSubscription(s) \/ CancelSubscription(s)
             \/ (\E p : PriceFlow(s, p)) \/ RequestRedemption(s)
             \/ CancelRedemption(s) \/ PayRedemption(s)
      PROVE  FALSE
  BY <1>1, <1>4, <1>5 DEF RequestSubscription, CancelSubscription, PriceFlow,
     SetState, RequestRedemption, CancelRedemption, PayRedemption, FlowState
<1>6. QED
  <2>1. CASE UNCHANGED vars
    BY <1>1, <2>1 DEF vars
  <2>2. CASE \/ InitializeGenesis \/ CloseValuation \/ CloseValuationLiquid
             \/ RestateValuation \/ StartRiskEpoch
    BY <1>1, <2>2 DEF InitializeGenesis, CloseValuation, CloseValuationLiquid,
       RestateValuation, StartRiskEpoch, financing
  <2>3. CASE \/ \E b \in SUBSET Reserves : ReserveEntries(b)
             \/ \E v \in Reserves : RequestCancel(v) \/ ReleaseReserve(v)
             \/ \E x \in Executions :
                  \/ \E v \in Reserves \cup {NoReserve} : EntryFill(x, v)
                  \/ ExitFill(x)
    BY <1>1, <2>3 DEF ReserveEntries, RequestCancel, ReleaseReserve, EntryFill,
       ExitFill, financing
  <2>4. CASE \E s \in Subs : \/ RequestSubscription(s) \/ PriceSubscription(s)
                             \/ SettleSubscription(s) \/ CancelSubscription(s)
    BY <1>2, <1>5, <2>4 DEF PriceSubscription, Requests
  <2>5. CASE \E s \in Reds : \/ RequestRedemption(s) \/ PriceRedemption(s)
                             \/ SettleRedemption(s) \/ CancelRedemption(s)
                             \/ PayRedemption(s)
    BY <1>3, <1>5, <2>5 DEF PriceRedemption, Requests
  <2>6. QED
    BY <2>1, <2>2, <2>3, <2>4, <2>5 DEF Next

(* Units are issued and cancelled at the price of the portfolio before the *)
(* flow, whether the price was frozen by an earlier call or not.           *)
THEOREM SettlementsAtLivePrice == Spec => SettledAtLivePrice
<1>1. PriceInv /\ [Next]_vars =>
        [\A r \in Requests :
           flow[r].state # "SETTLED" /\ flow'[r].state = "SETTLED" =>
             flow'[r].vPre = Equity /\ flow'[r].uPre = LiveUnits]_vars
  BY SettlePrice DEF Settles, AtLivePrice
<1>2. QED
  BY <1>1, InitPrice, StepPrice, PTL DEF Spec, SettledAtLivePrice

-----------------------------------------------------------------------------

(* What only an operation of a live account may move.                      *)
Estate == <<cash, units, payable, position, reserve, nav, hwm>>

(* A terminated account refuses everything but the cancellation of a       *)
(* redemption memo: its books never move again.                            *)
LEMMA TerminatedStep ==
  ASSUME TerminatedIsEmpty, [Next]_vars, lifecycle = "TERMINATED"
  PROVE  lifecycle' = "TERMINATED" /\ UNCHANGED Estate
<1> USE DEF Estate, In, NotTerminated, Lifecycle
<1>1. \A v \in Reserves : reserve[v].state \notin Live
  BY DEF TerminatedIsEmpty, ObligationsRemaining
<1>2. ASSUME NEW v \in Reserves, RequestCancel(v) \/ ReleaseReserve(v) PROVE FALSE
  BY <1>1, <1>2 DEF RequestCancel, ReleaseReserve, Live
<1>3. ASSUME NEW r \in Reds, CancelRedemption(r)
      PROVE  lifecycle' = "TERMINATED" /\ UNCHANGED Estate
  BY <1>3 DEF CancelRedemption, projection, book
<1>4. ~\E s \in Subs : \/ RequestSubscription(s) \/ PriceSubscription(s)
                       \/ SettleSubscription(s) \/ CancelSubscription(s)
  BY DEF RequestSubscription, PriceSubscription, SettleSubscription,
     CancelSubscription
<1>5. ~\E r \in Reds : \/ RequestRedemption(r) \/ PriceRedemption(r)
                       \/ SettleRedemption(r) \/ PayRedemption(r)
  BY DEF RequestRedemption, PriceRedemption, SettleRedemption, PayRedemption
<1>6. ~(\/ InitializeGenesis \/ CloseValuation \/ CloseValuationLiquid
        \/ RestateValuation \/ StartRiskEpoch)
  BY DEF InitializeGenesis, CloseValuation, CloseValuationLiquid,
     RestateValuation, StartRiskEpoch
<1>7. ~\E b \in SUBSET Reserves : ReserveEntries(b)
  BY DEF ReserveEntries
<1>8. ~\E x \in Executions : \/ \E v \in Reserves \cup {NoReserve} : EntryFill(x, v)
                             \/ ExitFill(x)
  BY DEF EntryFill, ExitFill
<1>9. CASE UNCHANGED vars
  BY <1>9 DEF vars
<1>10. QED
  BY <1>2, <1>3, <1>4, <1>5, <1>6, <1>7, <1>8, <1>9 DEF Next

LEMMA EmptyKept ==
  ASSUME TerminatedIsEmpty, lifecycle = "TERMINATED", UNCHANGED Estate
  PROVE  TerminatedIsEmpty'
  BY DEF TerminatedIsEmpty, ObligationsRemaining, Estate

(* The payment that terminates the account has checked what it leaves.     *)
LEMMA PaymentTerminates ==
  ASSUME NEW r \in Reds, PayRedemption(r), lifecycle # "TERMINATED",
         lifecycle' = "TERMINATED"
  PROVE  TerminatedIsEmpty'
<1>1. /\ ~ObligationsRemaining(cash', payable')
      /\ units'.issued = 0 /\ units'.pending = 0
  BY DEF PayRedemption
<1>2. position' = position /\ reserve' = reserve
  BY DEF PayRedemption, book
<1>3. QED
  BY <1>1, <1>2 DEF TerminatedIsEmpty, ObligationsRemaining

LEMMA OnlyPaymentTerminates ==
  ASSUME [Next]_vars, lifecycle # "TERMINATED", lifecycle' = "TERMINATED"
  PROVE  \E r \in Reds : PayRedemption(r)
<1> SUFFICES ASSUME ~\E r \in Reds : PayRedemption(r) PROVE FALSE
  OBVIOUS
<1>1. ~UNCHANGED lifecycle
  OBVIOUS
<1>2. ~\E s \in Subs : \/ RequestSubscription(s) \/ PriceSubscription(s)
                       \/ SettleSubscription(s) \/ CancelSubscription(s)
  BY <1>1 DEF RequestSubscription, PriceSubscription, PriceFlow, projection,
     SettleSubscription, CancelSubscription
<1>3. ~\E r \in Reds : \/ RequestRedemption(r) \/ PriceRedemption(r)
                       \/ SettleRedemption(r) \/ CancelRedemption(r)
  BY <1>1 DEF RequestRedemption, PriceRedemption, PriceFlow, projection,
     SettleRedemption, CancelRedemption
<1>4. ~(\/ InitializeGenesis \/ CloseValuation \/ CloseValuationLiquid
        \/ RestateValuation \/ StartRiskEpoch)
  BY <1>1 DEF InitializeGenesis, CloseValuation, CloseValuationLiquid,
     ConfirmNav, RestateValuation, StartRiskEpoch
<1>5. ~(\/ \E b \in SUBSET Reserves : ReserveEntries(b)
        \/ \E v \in Reserves : RequestCancel(v) \/ ReleaseReserve(v)
        \/ \E x \in Executions :
             \/ \E v \in Reserves \cup {NoReserve} : EntryFill(x, v)
             \/ ExitFill(x))
  BY <1>1 DEF ReserveEntries, RequestCancel, ReleaseReserve, EntryFill, ExitFill
<1>6. ~UNCHANGED vars
  BY <1>1 DEF vars
<1>7. QED
  BY <1>2, <1>3, <1>4, <1>5, <1>6 DEF Next

LEMMA StepEmpty == TerminatedIsEmpty /\ [Next]_vars => TerminatedIsEmpty'
<1> SUFFICES ASSUME TerminatedIsEmpty, [Next]_vars, lifecycle' = "TERMINATED"
             PROVE  TerminatedIsEmpty'
  BY DEF TerminatedIsEmpty
<1>1. CASE lifecycle = "TERMINATED"
  BY <1>1, TerminatedStep, EmptyKept
<1>2. CASE lifecycle # "TERMINATED"
  BY <1>2, OnlyPaymentTerminates, PaymentTerminates
<1>3. QED
  BY <1>1, <1>2

(* An account is terminated with nothing on its books and nothing owed     *)
(* (pay_redemption, _obligations_remaining).                               *)
THEOREM TerminationIsComplete == Spec => []TerminatedIsEmpty
<1>1. Init => TerminatedIsEmpty
  BY DEF Init, TerminatedIsEmpty
<1>2. QED
  BY <1>1, StepEmpty, PTL DEF Spec

(* TERMINATED is final: no later operation revives the account or moves    *)
(* cash, units, payables, positions, reserves, NAV or water marks.         *)
THEOREM TerminationIsFinal ==
  Spec => [][lifecycle = "TERMINATED" =>
               lifecycle' = "TERMINATED" /\ UNCHANGED Estate]_vars
<1>1. TerminatedIsEmpty /\ [Next]_vars =>
        [lifecycle = "TERMINATED" =>
           lifecycle' = "TERMINATED" /\ UNCHANGED Estate]_vars
  BY TerminatedStep
<1>2. QED
  BY <1>1, TerminationIsComplete, PTL DEF Spec

-----------------------------------------------------------------------------
(* The inductive invariant of the whole ledger.                            *)

SubEvents == {"SUBSCRIPTION_RECEIVED", "SUBSCRIPTION_SETTLED",
              "SUBSCRIPTION_CANCELLED"}
RedEvents == {"REDEEMED_PART", "REDEEMED_FULL", "REDEMPTION_PAID"}

EventTrue(e) ==
  /\ e.amount \in Nat /\ e.side \in Nat /\ e.quanta \in Nat
  /\ \/ e.kind = "GENESIS" /\ e.req = NoRequest
     \/ e.kind \in SubEvents /\ e.req \in Subs
     \/ e.kind \in RedEvents /\ e.req \in Reds

(* A request is on file only as far as its row has come, so that every     *)
(* event is a new one: the log is a set and must not lose a repetition.    *)
EventsTrue ==
  /\ IsFiniteSet(flows) /\ \A e \in flows : EventTrue(e)
  /\ \A s \in Subs :
       /\ flow[s].state = "NONE" => ~OnFile("SUBSCRIPTION_RECEIVED", s)
       /\ flow[s].state \in {"NONE", "RECEIVED", "PRICED"} =>
            /\ ~OnFile("SUBSCRIPTION_SETTLED", s)
            /\ ~OnFile("SUBSCRIPTION_CANCELLED", s)
  /\ \A r \in Reds : flow[r].state \in {"NONE", "REQUESTED", "PRICED"} =>
       ~OnFile("REDEEMED_PART", r) /\ ~OnFile("REDEEMED_FULL", r)

(* A subscription is owed back until it settles or is cancelled; what is   *)
(* still owed on a redemption is owed on a settled one.                    *)
SubRow(s) ==
  /\ flow[s].state \in {"NONE", "RECEIVED", "PRICED", "SETTLED", "CANCELLED"}
  /\ payable[s] = IF flow[s].state \in {"RECEIVED", "PRICED"}
                  THEN flow[s].cents ELSE 0

RedRow(r) ==
  /\ flow[r].state \in {"NONE", "REQUESTED", "PRICED", "SETTLED", "PAID",
                        "CANCELLED"}
  /\ flow[r].state # "SETTLED" => payable[r] = 0

RowsTrue ==
  /\ flow \in [Requests -> FlowRow] /\ payable \in [Requests -> Nat]
  /\ \A s \in Subs : SubRow(s)
  /\ \A r \in Reds : RedRow(r)
  /\ \A r \in Requests : flow[r].state = "PRICED" => flow[r].uPre > 0

Position == [state: {"NONE", "OPEN", "EXIT_PENDING", "CLOSED"}, qty: Nat,
             sec: Securities \cup {NoSecurity}]

BookTrue ==
  /\ position \in [AllLots -> Position] /\ marks \in [Securities -> Nat]
  /\ \A p \in OpenLots(position) : position[p].qty > 0
  /\ executed \subseteq Executions /\ tradeCash \in Int

ReserveTrue ==
  /\ reserve \in [Reserves -> [state: ReserveState, cents: Nat]]
  /\ cash.restricted = ReservedTotal

(* Every cent somebody is owed lies in a suspense bucket, so equity is     *)
(* what is left: free and reserved cash and the marked positions.          *)
SuspenseTrue ==
  /\ cash \in [Buckets -> Nat]
  /\ cash.subSuspense = SumFunctionOnSet(payable, Subs)
  /\ cash.redSuspense = SumFunctionOnSet(payable, Reds)

UnitsTrue ==
  units \in [issued: Nat, pending: Nat] /\ units.pending <= units.issued

RiskTrue ==
  /\ nav \in Nat /\ hwm \in [{"lifetime", "active"} -> Nat]
  /\ nav <= hwm["lifetime"] /\ nav <= hwm["active"]
  /\ latch \in {"CLEAR", "RISK_HALTED"}
  /\ Drawdown15(nav, hwm["active"]) => latch = "RISK_HALTED"

(* Genesis asks for no room among the bounded observations: it finds the   *)
(* log empty, and only genesis fills it.                                   *)
ClockTrue ==
  /\ lifecycle \in Lifecycle /\ epoch \in 1..(MaxEpoch + 1)
  /\ observed \in 0..(MaxObservations + 1)
  /\ flows = {} => observed <= MaxObservations

BooksTrue ==
  /\ CashTotal(cash) = ReplayedCash + tradeCash
  /\ cash.available + cash.restricted = ReplayedCapital + tradeCash
  /\ cash.subSuspense = ReplayedSubSuspense
  /\ cash.redSuspense = ReplayedRedSuspense
  /\ units.issued = ReplayedIssued /\ units.pending = ReplayedPending
  /\ \A r \in Requests : payable[r] = ReplayedPayable(r)

LedgerInv ==
  /\ PriceInv /\ EventsTrue /\ RowsTrue /\ BookTrue /\ ReserveTrue
  /\ SuspenseTrue /\ UnitsTrue /\ RiskTrue /\ ClockTrue /\ BooksTrue

-----------------------------------------------------------------------------
(* Rounding                                                                *)

LEMMA Times ==
  ASSUME NEW d \in Nat \ {0}, NEW a \in Nat, NEW b \in Nat, a + 1 <= b
  PROVE  d * a + d <= d * b
<1>1. PICK c \in Nat : b = a + 1 + c
  <2>1. b - a - 1 \in Nat
    OBVIOUS
  <2>2. QED
    BY <2>1
<1>2. d * b = d * a + d + d * c
  BY <1>1
<1>3. d * c \in Nat
  OBVIOUS
<1>4. QED
  BY <1>1, <1>2, <1>3

(* A quotient rounded to the nearest integer is off by half a divisor.     *)
LEMMA RoundNear ==
  ASSUME NEW n \in Nat, NEW d \in Nat \ {0}
  PROVE  /\ RoundHalfEven(n, d) \in Nat
         /\ 2 * (d * RoundHalfEven(n, d) - n) <= d
         /\ 2 * (n - d * RoundHalfEven(n, d)) <= d
<1>1. PICK q : q = n \div d
  OBVIOUS
<1>2. PICK m : m = n % d
  OBVIOUS
<1>3. q \in Nat /\ m \in Nat /\ m < d /\ n = (d * q) + m
  BY <1>1, <1>2
<1>4. d * (q + 1) = (d * q) + d
  BY <1>3
<1>5. \/ RoundHalfEven(n, d) = q + 1 /\ 2 * m >= d
      \/ RoundHalfEven(n, d) = q /\ 2 * m <= d
  BY <1>1, <1>2, <1>3 DEF RoundHalfEven
<1>6. PICK p : p = d * q
  OBVIOUS
<1>7. p \in Nat
  BY <1>3, <1>6
<1>8. QED
  BY <1>3, <1>4, <1>5, <1>6, <1>7

LEMMA RoundBelow ==
  ASSUME NEW n \in Nat, NEW d \in Nat \ {0}, NEW p \in Nat, n <= d * p
  PROVE  RoundHalfEven(n, d) <= p
<1>1. PICK r : r = RoundHalfEven(n, d)
  OBVIOUS
<1>2. r \in Nat /\ 2 * (d * r - n) <= d
  BY <1>1, RoundNear
<1>3. p + 1 <= r => d * p + d <= d * r
  BY <1>2, Times
<1>4. PICK a : a = d * r
  OBVIOUS
<1>5. PICK b : b = d * p
  OBVIOUS
<1>6. a \in Nat /\ b \in Nat
  BY <1>2, <1>4, <1>5
<1>7. QED
  BY <1>1, <1>2, <1>3, <1>4, <1>5, <1>6

LEMMA RoundExact ==
  ASSUME NEW u \in Nat \ {0}, NEW v \in Nat
  PROVE  RoundHalfEven(u * v, u) = v
<1>1. PICK r : r = RoundHalfEven(u * v, u)
  OBVIOUS
<1>2. r \in Nat /\ 2 * (u * v - u * r) <= u
  BY <1>1, RoundNear
<1>3. r <= v
  BY <1>1, RoundBelow
<1>4. r + 1 <= v => u * r + u <= u * v
  BY <1>2, Times
<1>5. PICK a : a = u * r
  OBVIOUS
<1>6. PICK b : b = u * v
  OBVIOUS
<1>7. a \in Nat /\ b \in Nat
  BY <1>2, <1>5, <1>6
<1>8. QED
  BY <1>1, <1>2, <1>3, <1>4, <1>5, <1>6, <1>7

LEMMA FloorBelow ==
  ASSUME NEW n \in Nat, NEW d \in Nat \ {0}
  PROVE  n \div d \in Nat /\ d * (n \div d) <= n
<1>1. PICK q : q = n \div d
  OBVIOUS
<1>2. PICK m : m = n % d
  OBVIOUS
<1>3. q \in Nat /\ m \in Nat /\ n = (d * q) + m
  BY <1>1, <1>2
<1>4. d * q \in Nat
  BY <1>3
<1>5. QED
  BY <1>1, <1>3, <1>4

LEMMA MaxPair ==
  ASSUME NEW a \in Int, NEW b \in Int
  PROVE  /\ Max({a, b}) \in {a, b}
         /\ a <= Max({a, b}) /\ b <= Max({a, b})
<1>1. \E x \in {a, b} : \A y \in {a, b} : x >= y
  OBVIOUS
<1>2. QED
  BY <1>1 DEF Max

LEMMA MinPair ==
  ASSUME NEW a \in Int, NEW b \in Int, a <= b PROVE Min({a, b}) = a /\ Min({b, a}) = a
<1>1. \A S : S = {a, b} => Min(S) = a
  BY DEF Min
<1>2. {a, b} = {b, a}
  OBVIOUS
<1>3. QED
  BY <1>1, <1>2

-----------------------------------------------------------------------------
(* Equity is what is not owed                                              *)

LEMMA FiniteRequests ==
  /\ IsFiniteSet(Subs) /\ IsFiniteSet(Reds) /\ IsFiniteSet(Reserves)
  /\ IsFiniteSet(Requests) /\ IsFiniteSet(AllLots) /\ Subs \cap Reds = {}
  BY CapitalAssumption, FS_Union DEF Requests, AllLots

Gross == MarkedGross(position, marks)

LEMMA GrossNat == BookTrue => Gross \in Nat
<1> SUFFICES ASSUME BookTrue PROVE Gross \in Nat
  OBVIOUS
<1> DEFINE f == [p \in AllLots |-> position[p].qty * MarkOf(position[p].sec, marks)]
<1>1. OpenLots(position) \subseteq AllLots /\ IsFiniteSet(OpenLots(position))
  BY FiniteRequests, FS_Subset DEF OpenLots
<1>2. \A p \in AllLots :
        position[p].qty \in Nat /\ MarkOf(position[p].sec, marks) \in Nat
  BY DEF BookTrue, Position, MarkOf
<1>3. \A p \in OpenLots(position) : f[p] \in Nat
  BY <1>1, <1>2
<1> HIDE DEF f
<1>4. SumFunctionOnSet(f, OpenLots(position)) \in Nat
  BY <1>1, <1>3, SumNat
<1>5. QED
  BY <1>4 DEF Gross, MarkedGross, f

LEMMA NoGross == OpenLots(position) = {} => Gross = 0
  BY SumEmpty DEF Gross, MarkedGross

LEMMA Owed ==
  RowsTrue => /\ OpenPayables(payable) = SumFunctionOnSet(payable, Subs)
                                         + SumFunctionOnSet(payable, Reds)
              /\ SumFunctionOnSet(payable, Subs) \in Nat
              /\ SumFunctionOnSet(payable, Reds) \in Nat
<1> SUFFICES ASSUME RowsTrue
             PROVE  /\ OpenPayables(payable) = SumFunctionOnSet(payable, Subs)
                                               + SumFunctionOnSet(payable, Reds)
                    /\ SumFunctionOnSet(payable, Subs) \in Nat
                    /\ SumFunctionOnSet(payable, Reds) \in Nat
  OBVIOUS
<1>1. \A r \in Requests : payable[r] \in Nat
  BY DEF RowsTrue
<1>2. \A r \in Subs \cup Reds : payable[r] \in Int /\ payable[r] >= 0
  BY <1>1 DEF Requests
<1>3. SumFunctionOnSet(payable, Subs \cup Reds) =
        SumFunctionOnSet(payable, Subs) + SumFunctionOnSet(payable, Reds)
  BY <1>2, FiniteRequests, SumJoin
<1>4. /\ SumFunctionOnSet(payable, Subs) \in Nat
      /\ SumFunctionOnSet(payable, Reds) \in Nat
  BY <1>1, FiniteRequests, SumNat DEF Requests
<1>5. QED
  BY <1>3, <1>4 DEF OpenPayables, Requests

Wealth == cash.available + cash.restricted + Gross

LEMMA CashTyped ==
  SuspenseTrue => /\ cash.available \in Nat /\ cash.restricted \in Nat
                  /\ cash.subSuspense \in Nat /\ cash.redSuspense \in Nat
  BY DEF SuspenseTrue, Buckets

LEMMA EquityIsWealth ==
  RowsTrue /\ BookTrue /\ SuspenseTrue => Equity = Wealth /\ Wealth \in Nat
<1> SUFFICES ASSUME RowsTrue, BookTrue, SuspenseTrue
             PROVE  Equity = Wealth /\ Wealth \in Nat
  OBVIOUS
<1>1. Gross \in Nat
  BY GrossNat
<1>2. OpenPayables(payable) = cash.subSuspense + cash.redSuspense
  BY Owed DEF SuspenseTrue
<1>3. QED
  BY <1>1, <1>2, CashTyped DEF Equity, EquityOf, CashTotal, Gross, Wealth

LEMMA UnitsTyped ==
  UnitsTrue => /\ units.issued \in Nat /\ units.pending \in Nat
               /\ units.pending <= units.issued
               /\ LiveUnits \in Nat
  BY DEF UnitsTrue, LiveUnits

(* The books balance as the conservation check asks.                       *)
LEMMA BooksBalance == LedgerInv => Conserved
<1> SUFFICES ASSUME LedgerInv PROVE Conserved
  OBVIOUS
<1> USE DEF LedgerInv
<1>1. units = [issued |-> ReplayedIssued, pending |-> ReplayedPending]
  BY DEF UnitsTrue, BooksTrue
<1>2. payable = [r \in Requests |-> ReplayedPayable(r)]
  <2>1. payable = [r \in Requests |-> payable[r]]
    BY DEF RowsTrue
  <2>2. QED
    BY <2>1 DEF BooksTrue
<1>3. Equity = ReplayedCapital + tradeCash + MarkedGross(position, marks)
  BY EquityIsWealth DEF Wealth, BooksTrue, Gross
<1>4. QED
  BY <1>1, <1>2, <1>3 DEF Conserved, BooksTrue, ReserveTrue, SuspenseTrue

LEMMA LedgerTyped == LedgerInv => TypeOK
  BY UnitsTyped DEF LedgerInv, TypeOK, PriceInv, FrozenInThePast, EventsTrue,
     EventTrue, RowsTrue, BookTrue, Position, ReserveTrue, SuspenseTrue,
     UnitsTrue, RiskTrue, ClockTrue

LEMMA LedgerRepresentable == LedgerInv => SnapshotRepresentable
  BY UnitsTyped DEF LedgerInv, RiskTrue, SnapshotRepresentable

-----------------------------------------------------------------------------
(* Sums over the event log                                                 *)

(* What an event adds to the sum of a field over some kinds.               *)
Adds(e, field, kinds) == IF e.kind \in kinds THEN e[field] ELSE 0

Fields == {"amount", "side", "quanta"}

LEMMA FieldNat ==
  ASSUME NEW e, EventTrue(e), NEW field \in Fields PROVE e[field] \in Nat
  BY DEF EventTrue, Fields

LEMMA SumTyped ==
  ASSUME EventsTrue, NEW field \in Fields, NEW kinds PROVE Sum(field, kinds) \in Nat
<1> DEFINE f == [e \in flows |-> e[field]]
           S == {e \in flows : e.kind \in kinds}
<1>1. IsFiniteSet(S)
  BY FS_Subset DEF EventsTrue
<1>2. \A e \in S : f[e] \in Nat
  BY FieldNat DEF EventsTrue
<1>3. SumFunctionOnSet(f, S) \in Nat
  <2> HIDE DEF f, S
  <2>1. QED
    BY <1>1, <1>2, SumNat
<1>4. QED
  BY <1>3 DEF Sum

(* The log after a new event.                                              *)
Logged(e) == flows' = flows \cup {e} /\ e \notin flows /\ EventTrue(e)

LEMMA SumLogged ==
  ASSUME EventsTrue, NEW e, Logged(e), NEW field \in Fields, NEW kinds
  PROVE  Sum(field, kinds)' = Sum(field, kinds) + Adds(e, field, kinds)
<1> DEFINE f == [x \in flows |-> x[field]]
           g == [x \in flows \cup {e} |-> x[field]]
           S == {x \in flows : x.kind \in kinds}
           T == {x \in flows \cup {e} : x.kind \in kinds}
<1>1. Sum(field, kinds) = SumFunctionOnSet(f, S)
  BY DEF Sum
<1>2. Sum(field, kinds)' = SumFunctionOnSet(g, T)
  BY DEF Sum, Logged
<1>3. IsFiniteSet(S)
  BY FS_Subset DEF EventsTrue
<1>4. \A x \in S : f[x] \in Int /\ g[x] = f[x]
  BY FieldNat DEF EventsTrue
<1>5. e \notin S /\ g[e] = e[field] /\ e[field] \in Int
  BY FieldNat DEF Logged
<1>6. T = IF e.kind \in kinds THEN S \cup {e} ELSE S
  OBVIOUS
<1> HIDE DEF f, g, S, T
<1>7. SumFunctionOnSet(g, S) = SumFunctionOnSet(f, S)
  BY <1>3, <1>4, SumSame
<1>8. SumFunctionOnSet(f, S) \in Int
  BY <1>3, <1>4, SumInt
<1>9. SumFunctionOnSet(g, S \cup {e}) = g[e] + SumFunctionOnSet(g, S)
  BY <1>3, <1>4, <1>5, SumAdd
<1>10. SumFunctionOnSet(g, T) = SumFunctionOnSet(f, S) + Adds(e, field, kinds)
  BY <1>5, <1>6, <1>7, <1>8, <1>9 DEF Adds
<1>11. QED
  BY <1>1, <1>2, <1>10

(* The amounts of one request.                                             *)
Mine(r, kinds) ==
  SumFunctionOnSet([e \in flows |-> e.amount],
                   {e \in flows : e.req = r /\ e.kind \in kinds})

LEMMA MineTyped ==
  ASSUME EventsTrue, NEW r, NEW kinds PROVE Mine(r, kinds) \in Nat
<1> DEFINE f == [e \in flows |-> e.amount]
           S == {e \in flows : e.req = r /\ e.kind \in kinds}
<1>1. IsFiniteSet(S)
  BY FS_Subset DEF EventsTrue
<1>2. \A e \in S : f[e] \in Nat
  BY DEF EventsTrue, EventTrue
<1>3. SumFunctionOnSet(f, S) \in Nat
  <2> HIDE DEF f, S
  <2>1. QED
    BY <1>1, <1>2, SumNat
<1>4. QED
  BY <1>3 DEF Mine

LEMMA MineLogged ==
  ASSUME EventsTrue, NEW e, Logged(e), NEW r, NEW kinds
  PROVE  Mine(r, kinds)' =
           Mine(r, kinds) + IF e.req = r THEN Adds(e, "amount", kinds) ELSE 0
<1> DEFINE f == [x \in flows |-> x.amount]
           g == [x \in flows \cup {e} |-> x.amount]
           S == {x \in flows : x.req = r /\ x.kind \in kinds}
           T == {x \in flows \cup {e} : x.req = r /\ x.kind \in kinds}
<1>1. Mine(r, kinds) = SumFunctionOnSet(f, S)
  BY DEF Mine
<1>2. Mine(r, kinds)' = SumFunctionOnSet(g, T)
  BY DEF Mine, Logged
<1>3. IsFiniteSet(S)
  BY FS_Subset DEF EventsTrue
<1>4. \A x \in S : f[x] \in Int /\ g[x] = f[x]
  BY DEF EventsTrue, EventTrue
<1>5. e \notin S /\ g[e] = e.amount /\ e.amount \in Int
  BY DEF Logged, EventTrue
<1>6. T = IF e.req = r /\ e.kind \in kinds THEN S \cup {e} ELSE S
  OBVIOUS
<1> HIDE DEF f, g, S, T
<1>7. SumFunctionOnSet(g, S) = SumFunctionOnSet(f, S)
  BY <1>3, <1>4, SumSame
<1>8. SumFunctionOnSet(f, S) \in Int
  BY <1>3, <1>4, SumInt
<1>9. SumFunctionOnSet(g, S \cup {e}) = g[e] + SumFunctionOnSet(g, S)
  BY <1>3, <1>4, <1>5, SumAdd
<1>10. SumFunctionOnSet(g, T) = SumFunctionOnSet(f, S)
         + IF e.req = r THEN Adds(e, "amount", kinds) ELSE 0
  BY <1>5, <1>6, <1>7, <1>8, <1>9 DEF Adds
<1>11. QED
  BY <1>1, <1>2, <1>10

LEMMA ReplayedFromMine ==
  ASSUME NEW r
  PROVE  ReplayedPayable(r) =
           IF OnFile("SUBSCRIPTION_SETTLED", r) \/ OnFile("SUBSCRIPTION_CANCELLED", r)
           THEN 0
           ELSE Mine(r, {"SUBSCRIPTION_RECEIVED", "REDEEMED_PART", "REDEEMED_FULL"})
                - Mine(r, {"REDEMPTION_PAID"})
  BY DEF ReplayedPayable, Mine

LEMMA OnFileLogged ==
  ASSUME NEW e, Logged(e), NEW kind, NEW r
  PROVE  OnFile(kind, r)' <=> OnFile(kind, r) \/ (e.kind = kind /\ e.req = r)
  BY DEF OnFile, Logged

-----------------------------------------------------------------------------
(* What one event adds to each replayed quantity                           *)

CashOf(e) ==
  Adds(e, "amount", {"GENESIS", "SUBSCRIPTION_RECEIVED"})
  - Adds(e, "side", {"SUBSCRIPTION_SETTLED", "SUBSCRIPTION_CANCELLED"})
  - Adds(e, "amount", {"REDEMPTION_PAID"})

SubSuspenseOf(e) ==
  Adds(e, "amount", {"SUBSCRIPTION_RECEIVED"})
  - Adds(e, "amount", {"SUBSCRIPTION_SETTLED"})
  - Adds(e, "side", {"SUBSCRIPTION_SETTLED", "SUBSCRIPTION_CANCELLED"})

RedSuspenseOf(e) ==
  Adds(e, "side", {"REDEEMED_PART", "REDEEMED_FULL"})
  - Adds(e, "amount", {"REDEMPTION_PAID"})

IssuedOf(e) ==
  Adds(e, "quanta", {"GENESIS", "SUBSCRIPTION_SETTLED"})
  - Adds(e, "quanta", {"REDEEMED_PART", "REDEMPTION_PAID"})

PendingOf(e) ==
  Adds(e, "quanta", {"REDEEMED_FULL"}) - Adds(e, "quanta", {"REDEMPTION_PAID"})

CapitalOf(e) ==
  Adds(e, "amount", {"GENESIS", "SUBSCRIPTION_SETTLED"})
  - Adds(e, "amount", {"REDEEMED_PART", "REDEEMED_FULL"})

PayableOf(e) ==
  Adds(e, "amount", {"SUBSCRIPTION_RECEIVED", "REDEEMED_PART", "REDEEMED_FULL"})
  - Adds(e, "amount", {"REDEMPTION_PAID"})

LEMMA AddsNat ==
  ASSUME NEW e, EventTrue(e), NEW field \in Fields, NEW kinds
  PROVE  Adds(e, field, kinds) \in Nat
  BY FieldNat DEF Adds

LEMMA ReplayTyped ==
  ASSUME EventsTrue
  PROVE  /\ ReplayedCash \in Int /\ ReplayedCapital \in Int
         /\ ReplayedSubSuspense \in Int /\ ReplayedRedSuspense \in Int
         /\ ReplayedIssued \in Int /\ ReplayedPending \in Int
<1> USE SumTyped DEF Fields
<1>1. ReplayedCash \in Int /\ ReplayedCapital \in Int
  BY DEF ReplayedCash, ReplayedCapital
<1>2. ReplayedSubSuspense \in Int /\ ReplayedRedSuspense \in Int
  BY DEF ReplayedSubSuspense, ReplayedRedSuspense
<1>3. ReplayedIssued \in Int /\ ReplayedPending \in Int
  BY DEF ReplayedIssued, ReplayedPending
<1>4. QED
  BY <1>1, <1>2, <1>3

LEMMA Replayed ==
  ASSUME EventsTrue, NEW e, Logged(e)
  PROVE  /\ ReplayedCash' = ReplayedCash + CashOf(e)
         /\ ReplayedCapital' = ReplayedCapital + CapitalOf(e)
         /\ ReplayedSubSuspense' = ReplayedSubSuspense + SubSuspenseOf(e)
         /\ ReplayedRedSuspense' = ReplayedRedSuspense + RedSuspenseOf(e)
         /\ ReplayedIssued' = ReplayedIssued + IssuedOf(e)
         /\ ReplayedPending' = ReplayedPending + PendingOf(e)
<1> DEFINE A(field, kinds) == Adds(e, field, kinds)
<1>0. EventTrue(e) /\ Fields = {"amount", "side", "quanta"}
  BY DEF Logged, Fields
<1>1. \A field \in Fields : \A kinds :
        /\ Sum(field, kinds)' = Sum(field, kinds) + A(field, kinds)
        /\ Sum(field, kinds) \in Int /\ A(field, kinds) \in Int
  BY <1>0, SumLogged, SumTyped, AddsNat
<1>2. ReplayedCash' = ReplayedCash + CashOf(e)
  BY <1>0, <1>1 DEF ReplayedCash, CashOf
<1>3. ReplayedCapital' = ReplayedCapital + CapitalOf(e)
  BY <1>0, <1>1 DEF ReplayedCapital, CapitalOf
<1>4. ReplayedSubSuspense' = ReplayedSubSuspense + SubSuspenseOf(e)
  BY <1>0, <1>1 DEF ReplayedSubSuspense, SubSuspenseOf
<1>5. ReplayedRedSuspense' = ReplayedRedSuspense + RedSuspenseOf(e)
  BY <1>0, <1>1 DEF ReplayedRedSuspense, RedSuspenseOf
<1>6. ReplayedIssued' = ReplayedIssued + IssuedOf(e)
  BY <1>0, <1>1 DEF ReplayedIssued, IssuedOf
<1>7. ReplayedPending' = ReplayedPending + PendingOf(e)
  BY <1>0, <1>1 DEF ReplayedPending, PendingOf
<1>8. QED
  BY <1>2, <1>3, <1>4, <1>5, <1>6, <1>7

(* The replayed payables: only the request of the event is touched.        *)
LEMMA PayableElsewhere ==
  ASSUME EventsTrue, NEW e, Logged(e), NEW q, e.req # q
  PROVE  ReplayedPayable(q)' = ReplayedPayable(q)
<1>1. \A kinds : Mine(q, kinds)' = Mine(q, kinds)
  BY MineLogged, MineTyped
<1>2. \A kind : OnFile(kind, q)' <=> OnFile(kind, q)
  BY OnFileLogged
<1>3. ReplayedPayable(q)' =
        IF OnFile("SUBSCRIPTION_SETTLED", q)' \/ OnFile("SUBSCRIPTION_CANCELLED", q)'
        THEN 0
        ELSE Mine(q, {"SUBSCRIPTION_RECEIVED", "REDEEMED_PART", "REDEEMED_FULL"})'
             - Mine(q, {"REDEMPTION_PAID"})'
  BY DEF ReplayedPayable, Mine
<1>4. QED
  BY <1>1, <1>2, <1>3, ReplayedFromMine

LEMMA PayableOpen ==
  ASSUME EventsTrue, NEW e, Logged(e), NEW q, e.req = q,
         ~OnFile("SUBSCRIPTION_SETTLED", q), ~OnFile("SUBSCRIPTION_CANCELLED", q),
         e.kind \notin {"SUBSCRIPTION_SETTLED", "SUBSCRIPTION_CANCELLED"}
  PROVE  ReplayedPayable(q)' = ReplayedPayable(q) + PayableOf(e)
<1>1. \A kinds : /\ Mine(q, kinds)' = Mine(q, kinds) + Adds(e, "amount", kinds)
                 /\ Mine(q, kinds) \in Int /\ Adds(e, "amount", kinds) \in Int
  BY MineLogged, MineTyped, AddsNat DEF Logged, Fields
<1>2. ~OnFile("SUBSCRIPTION_SETTLED", q)' /\ ~OnFile("SUBSCRIPTION_CANCELLED", q)'
  BY OnFileLogged
<1>3. ReplayedPayable(q)' =
        Mine(q, {"SUBSCRIPTION_RECEIVED", "REDEEMED_PART", "REDEEMED_FULL"})'
        - Mine(q, {"REDEMPTION_PAID"})'
  BY <1>2 DEF ReplayedPayable, Mine
<1>4. ReplayedPayable(q) =
        Mine(q, {"SUBSCRIPTION_RECEIVED", "REDEEMED_PART", "REDEEMED_FULL"})
        - Mine(q, {"REDEMPTION_PAID"})
  BY ReplayedFromMine
<1>5. QED
  BY <1>1, <1>3, <1>4 DEF PayableOf

LEMMA PayableClosed ==
  ASSUME NEW e, Logged(e),
         e.kind \in {"SUBSCRIPTION_SETTLED", "SUBSCRIPTION_CANCELLED"}
  PROVE  ReplayedPayable(e.req)' = 0
<1>1. OnFile("SUBSCRIPTION_SETTLED", e.req)' \/ OnFile("SUBSCRIPTION_CANCELLED", e.req)'
  BY OnFileLogged
<1>2. QED
  BY <1>1 DEF ReplayedPayable

(* The settlement of a subscription is never filed under a redemption.     *)
LEMMA RedNotClosed ==
  ASSUME EventsTrue, NEW r \in Reds
  PROVE  ~OnFile("SUBSCRIPTION_SETTLED", r) /\ ~OnFile("SUBSCRIPTION_CANCELLED", r)
  BY FiniteRequests DEF EventsTrue, EventTrue, OnFile, SubEvents, RedEvents

-----------------------------------------------------------------------------
(* The empty ledger                                                        *)

LEMMA NothingReplayed ==
  ASSUME flows = {}
  PROVE  /\ \A field, kinds : Sum(field, kinds) = 0
         /\ \A r, kinds : Mine(r, kinds) = 0
         /\ \A kind, r : ~OnFile(kind, r)
  BY SumEmpty DEF Sum, Mine, OnFile

LEMMA InitLedger == Init => LedgerInv
<1> SUFFICES ASSUME Init PROVE LedgerInv
  OBVIOUS
<1> USE DEF Init
<1>1. EventsTrue
  BY NothingReplayed, FS_EmptySet DEF EventsTrue
<1>2. RowsTrue
  BY DEF RowsTrue, SubRow, RedRow, FlowRow, FlowState, Requests
<1>3. BookTrue
  BY DEF BookTrue, Position, OpenLots
<1>4. ReserveTrue
  <2>1. {v \in Reserves : reserve[v].state \in Live} = {}
    BY DEF Live
  <2>2. ReservedTotal = 0
    BY <2>1, SumEmpty DEF ReservedTotal
  <2>3. QED
    BY <2>2 DEF ReserveTrue, ReserveState, Live, Buckets
<1>5. SuspenseTrue
  <2>1. \A r \in Subs \cup Reds : payable[r] = 0
    BY DEF Requests
  <2>2. SumFunctionOnSet(payable, Subs) = 0 /\ SumFunctionOnSet(payable, Reds) = 0
    BY <2>1, FiniteRequests, SumZero
  <2>3. QED
    BY <2>2 DEF SuspenseTrue, Buckets
<1>6. UnitsTrue
  BY DEF UnitsTrue
<1>7. RiskTrue
  BY DEF RiskTrue, Drawdown15
<1>8. ClockTrue
  BY CapitalAssumption DEF ClockTrue, Lifecycle
<1>9. BooksTrue
  <2>1. \A r : ReplayedPayable(r) = 0
    BY NothingReplayed, ReplayedFromMine
  <2>2. QED
    BY <2>1, NothingReplayed DEF BooksTrue, ReplayedCash, ReplayedCapital,
       ReplayedSubSuspense, ReplayedRedSuspense, ReplayedIssued,
       ReplayedPending, CashTotal, Buckets
<1>10. QED
  BY <1>1, <1>2, <1>3, <1>4, <1>5, <1>6, <1>7, <1>8, <1>9, InitPrice DEF LedgerInv

-----------------------------------------------------------------------------
(* What an operation leaves alone                                          *)

(* A row that has gone on does not come back.                              *)
Open(r) == IF r \in Subs THEN {"NONE", "RECEIVED", "PRICED"}
                         ELSE {"NONE", "REQUESTED", "PRICED"}

Onward(r) ==
  /\ flow'[r].state = "NONE" => flow[r].state = "NONE"
  /\ flow'[r].state \in Open(r) => flow[r].state \in Open(r)

LEMMA EventsKept ==
  ASSUME EventsTrue, UNCHANGED flows, \A r \in Requests : Onward(r)
  PROVE  EventsTrue'
<1>1. \A kind, r : OnFile(kind, r)' <=> OnFile(kind, r)
  BY DEF OnFile
<1>2. \A s \in Subs :
        /\ flow'[s].state = "NONE" => ~OnFile("SUBSCRIPTION_RECEIVED", s)'
        /\ flow'[s].state \in {"NONE", "RECEIVED", "PRICED"} =>
             /\ ~OnFile("SUBSCRIPTION_SETTLED", s)'
             /\ ~OnFile("SUBSCRIPTION_CANCELLED", s)'
  BY <1>1 DEF EventsTrue, Requests, Onward, Open
<1>3. \A r \in Reds : flow'[r].state \in {"NONE", "REQUESTED", "PRICED"} =>
        ~OnFile("REDEEMED_PART", r)' /\ ~OnFile("REDEEMED_FULL", r)'
  BY <1>1, FiniteRequests DEF EventsTrue, Requests, Onward, Open
<1>4. IsFiniteSet(flows)' /\ (\A e \in flows : EventTrue(e))'
  BY DEF EventsTrue
<1>5. QED
  BY <1>2, <1>3, <1>4 DEF EventsTrue

LEMMA SameFlow == ASSUME UNCHANGED flow PROVE \A r \in Requests : Onward(r)
  BY DEF Onward

LEMMA RowsKept ==
  ASSUME RowsTrue, UNCHANGED <<flow, payable>> PROVE RowsTrue'
  BY DEF RowsTrue, SubRow, RedRow

LEMMA BookKept == ASSUME BookTrue, UNCHANGED book PROVE BookTrue'
  BY DEF BookTrue, book, OpenLots

LEMMA ReserveKept ==
  ASSUME ReserveTrue, UNCHANGED reserve, cash'.restricted = cash.restricted
  PROVE  ReserveTrue'
  BY DEF ReserveTrue, ReservedTotal

LEMMA RiskKept ==
  ASSUME RiskTrue, Recompute \/ UNCHANGED <<nav, hwm, latch>> PROVE RiskTrue'
  BY DEF RiskTrue, Recompute, LatchAfter, Drawdown15

LEMMA ClockKept ==
  ASSUME ClockTrue, UNCHANGED <<lifecycle, epoch, observed>>, flows \subseteq flows'
  PROVE  ClockTrue'
  BY DEF ClockTrue

LEMMA ReplayKept ==
  ASSUME UNCHANGED flows
  PROVE  /\ ReplayedCash' = ReplayedCash /\ ReplayedCapital' = ReplayedCapital
         /\ ReplayedSubSuspense' = ReplayedSubSuspense
         /\ ReplayedRedSuspense' = ReplayedRedSuspense
         /\ ReplayedIssued' = ReplayedIssued /\ ReplayedPending' = ReplayedPending
         /\ \A r : ReplayedPayable(r)' = ReplayedPayable(r)
<1>1. \A kind, r : OnFile(kind, r)' <=> OnFile(kind, r)
  BY DEF OnFile
<1>2. \A r : ReplayedPayable(r)' = ReplayedPayable(r)
  BY <1>1 DEF ReplayedPayable
<1>3. QED
  BY <1>2 DEF Sum, ReplayedCash, ReplayedCapital, ReplayedSubSuspense,
     ReplayedRedSuspense, ReplayedIssued, ReplayedPending

(* A trade moves cash outside the suspense buckets, and nothing else does  *)
(* without an event.                                                       *)
LEMMA BooksKept ==
  ASSUME EventsTrue, BookTrue, SuspenseTrue, BooksTrue,
         UNCHANGED <<flows, units, payable>>,
         NEW c \in [Buckets -> Nat], cash' = c, NEW d \in Int,
         tradeCash' = tradeCash + d,
         c.subSuspense = cash.subSuspense, c.redSuspense = cash.redSuspense,
         c.available + c.restricted = cash.available + cash.restricted + d
  PROVE  BooksTrue'
<1>1. PICK t : tradeCash' = t /\ t = tradeCash + d
  OBVIOUS
<1>2. tradeCash \in Int
  BY DEF BookTrue
<1>3. /\ c.available \in Nat /\ c.restricted \in Nat
      /\ c.subSuspense \in Nat /\ c.redSuspense \in Nat
  BY DEF Buckets
<1>4. CashTotal(c) = ReplayedCash + t
  BY <1>1, <1>2, <1>3, CashTyped, ReplayTyped DEF BooksTrue, CashTotal
<1>5. c.available + c.restricted = ReplayedCapital + t
  BY <1>1, <1>2, ReplayTyped DEF BooksTrue
<1>6. CashTotal(cash)' = ReplayedCash' + tradeCash'
  BY <1>1, <1>4, ReplayKept DEF CashTotal
<1>7. (cash.available + cash.restricted)' = ReplayedCapital' + tradeCash'
  BY <1>1, <1>5, ReplayKept
<1>8. QED
  BY <1>6, <1>7, ReplayKept DEF BooksTrue

LEMMA BooksSame ==
  ASSUME EventsTrue, BooksTrue, UNCHANGED <<flows, units, payable, cash, tradeCash>>
  PROVE  BooksTrue'
  BY ReplayKept DEF BooksTrue, CashTotal

LEMMA SuspenseKept ==
  ASSUME SuspenseTrue, UNCHANGED payable, NEW c \in [Buckets -> Nat], cash' = c,
         c.subSuspense = cash.subSuspense, c.redSuspense = cash.redSuspense
  PROVE  SuspenseTrue'
  BY DEF SuspenseTrue

(* Operations on the rows of requests alone.                               *)
LEMMA RowStep ==
  ASSUME LedgerInv, UNCHANGED <<projection, epoch, observed, payable, flows,
                                reserve, book>>,
         \A r \in Requests : Onward(r), RowsTrue', PriceInv'
  PROVE  LedgerInv'
<1> USE DEF LedgerInv
<1>1. /\ UNCHANGED <<lifecycle, version, cash, units, nav, hwm, latch>>
      /\ UNCHANGED <<position, marks, executed, tradeCash>>
  BY DEF projection, book
<1>2. EventsTrue'
  BY EventsKept
<1>3. BookTrue' /\ ReserveTrue' /\ RiskTrue' /\ ClockTrue'
  BY <1>1, BookKept, ReserveKept, RiskKept, ClockKept
<1>4. BooksTrue'
  BY <1>1, BooksSame
<1>5. SuspenseTrue' /\ UnitsTrue'
  BY <1>1 DEF SuspenseTrue, UnitsTrue
<1>6. QED
  BY <1>2, <1>3, <1>4, <1>5

(* The row an operation writes.                                            *)
LEMMA RowTyped ==
  ASSUME RowsTrue, NEW r \in Requests, NEW s \in FlowState, NEW c \in Nat,
         NEW n \in Nat, NEW v \in Nat, NEW u \in Nat, NEW f \in Nat,
         SetRow(r, s, c, n, v, u, f)
  PROVE  /\ flow' \in [Requests -> FlowRow]
         /\ flow'[r].state = s /\ flow'[r].cents = c /\ flow'[r].uPre = u
         /\ \A q \in Requests : q # r => flow'[q] = flow[q]
<1>1. [state |-> s, cents |-> c, quanta |-> n, vPre |-> v, uPre |-> u,
       frozen |-> f] \in FlowRow
  BY DEF FlowRow
<1>2. QED
  BY <1>1 DEF SetRow, RowsTrue

LEMMA RowFields ==
  ASSUME RowsTrue, NEW r \in Requests
  PROVE  /\ flow[r].state \in FlowState /\ flow[r].cents \in Nat
         /\ flow[r].quanta \in Nat /\ flow[r].vPre \in Nat
         /\ flow[r].uPre \in Nat /\ flow[r].frozen \in Nat
         /\ payable[r] \in Nat
  BY DEF RowsTrue, FlowRow

LEMMA PriceFlowRow ==
  ASSUME LedgerInv, NEW r \in Requests, NEW p \in Nat, PriceFlow(r, p),
         r \in Subs => p = flow[r].cents
  PROVE  LedgerInv'
<1> USE DEF LedgerInv
<1>1. SetRow(r, "PRICED", p, flow[r].quanta, Equity, LiveUnits, version)
  BY DEF PriceFlow
<1>2. /\ Equity \in Nat /\ LiveUnits \in Nat /\ version \in Nat
      /\ flow[r].quanta \in Nat /\ LiveUnits > 0
  BY EquityIsWealth, UnitsTyped, RowFields DEF PriceInv, FrozenInThePast,
     PriceFlow, Priceable
<1>3. "PRICED" \in FlowState
  BY DEF FlowState
<1>4. /\ flow' \in [Requests -> FlowRow]
      /\ flow'[r].state = "PRICED" /\ flow'[r].cents = p
      /\ flow'[r].uPre = LiveUnits
      /\ \A q \in Requests : q # r => flow'[q] = flow[q]
  BY <1>1, <1>2, <1>3, RowTyped
<1>5. flow[r].state \in {"RECEIVED", "REQUESTED", "PRICED"}
  BY DEF PriceFlow
<1>6. payable' = payable
  BY DEF PriceFlow
<1>7. RowsTrue'
  <2>1. \A s \in Subs : SubRow(s)'
    BY <1>4, <1>5, <1>6 DEF RowsTrue, SubRow, Requests
  <2>2. \A q \in Reds : RedRow(q)'
    BY <1>4, <1>5, <1>6 DEF RowsTrue, RedRow, Requests
  <2>3. \A q \in Requests : flow'[q].state = "PRICED" => flow'[q].uPre > 0
    BY <1>2, <1>4 DEF RowsTrue
  <2>4. QED
    BY <1>4, <1>6, <2>1, <2>2, <2>3 DEF RowsTrue
<1>8. \A q \in Requests : Onward(q)
  BY <1>4, <1>5 DEF Onward, Open, RowsTrue, SubRow, RedRow, Requests
<1>9. PriceInv'
  BY PriceFlowKeeps
<1>10. QED
  BY <1>7, <1>8, <1>9, RowStep DEF PriceFlow

LEMMA StepPriceSubscription ==
  ASSUME LedgerInv, NEW s \in Subs, PriceSubscription(s) PROVE LedgerInv'
<1>1. flow[s].cents \in Nat
  BY RowFields DEF LedgerInv, Requests
<1>2. QED
  BY <1>1, PriceFlowRow DEF PriceSubscription, Requests

LEMMA StepPriceRedemption ==
  ASSUME LedgerInv, NEW r \in Reds, PriceRedemption(r) PROVE LedgerInv'
<1>1. /\ flow[r].quanta \in Nat /\ Equity \in Nat
      /\ LiveUnits \in Nat \ {0}
  BY RowFields, EquityIsWealth, UnitsTyped
     DEF LedgerInv, Requests, PriceRedemption, PriceFlow, Priceable
<1>2. flow[r].quanta * Equity \in Nat
  BY <1>1
<1>3. RoundHalfEven(flow[r].quanta * Equity, LiveUnits) \in Nat
  BY <1>1, <1>2, RoundNear
<1>4. r \notin Subs
  BY FiniteRequests
<1>5. QED
  BY <1>3, <1>4, PriceFlowRow DEF PriceRedemption, Requests

LEMMA StepRequestRedemption ==
  ASSUME LedgerInv, PriceInv', NEW r \in Reds, RequestRedemption(r)
  PROVE  LedgerInv'
<1> USE DEF LedgerInv
<1>1. PICK u \in UnitAmounts[r] : SetRow(r, "REQUESTED", 0, u, 0, 0, 0)
  BY DEF RequestRedemption
<1>2. u \in Nat /\ r \in Requests /\ "REQUESTED" \in FlowState
  BY CapitalAssumption DEF Requests, FlowState
<1>3. /\ flow' \in [Requests -> FlowRow] /\ flow'[r].state = "REQUESTED"
      /\ \A q \in Requests : q # r => flow'[q] = flow[q]
  BY <1>1, <1>2, RowTyped
<1>4. flow[r].state = "NONE" /\ payable' = payable /\ r \notin Subs
  BY FiniteRequests DEF RequestRedemption
<1>5. RowsTrue'
  BY <1>3, <1>4 DEF RowsTrue, SubRow, RedRow, Requests
<1>6. \A q \in Requests : Onward(q)
  BY <1>3, <1>4 DEF Onward, Open
<1>7. QED
  BY <1>5, <1>6, RowStep DEF RequestRedemption

LEMMA StateTyped ==
  ASSUME RowsTrue, NEW r \in Requests, NEW s \in FlowState, SetState(r, s)
  PROVE  /\ flow' \in [Requests -> FlowRow]
         /\ flow'[r].state = s /\ flow'[r].cents = flow[r].cents
         /\ \A q \in Requests : q # r => flow'[q] = flow[q]
<1> DEFINE new == [state |-> s, cents |-> flow[r].cents,
                   quanta |-> flow[r].quanta, vPre |-> flow[r].vPre,
                   uPre |-> flow[r].uPre, frozen |-> flow[r].frozen]
<1>1. new \in FlowRow /\ new.state = s /\ new.cents = flow[r].cents
  BY RowFields DEF FlowRow
<1>2. flow' = [flow EXCEPT ![r] = new]
  BY DEF SetState, SetRow
<1> HIDE DEF new
<1>3. QED
  BY <1>1, <1>2 DEF RowsTrue

LEMMA StepCancelRedemption ==
  ASSUME LedgerInv, PriceInv', NEW r \in Reds, CancelRedemption(r)
  PROVE  LedgerInv'
<1> USE DEF LedgerInv
<1>1. r \in Requests /\ "CANCELLED" \in FlowState /\ SetState(r, "CANCELLED")
  BY DEF Requests, FlowState, CancelRedemption
<1>2. /\ flow' \in [Requests -> FlowRow] /\ flow'[r].state = "CANCELLED"
      /\ \A q \in Requests : q # r => flow'[q] = flow[q]
  BY <1>1, StateTyped
<1>3. /\ flow[r].state \in {"REQUESTED", "PRICED"} /\ payable' = payable
      /\ r \notin Subs
  BY FiniteRequests DEF CancelRedemption
<1>4. RowsTrue'
  BY <1>2, <1>3 DEF RowsTrue, SubRow, RedRow, Requests
<1>5. \A q \in Requests : Onward(q)
  BY <1>2, <1>3 DEF Onward, Open
<1>6. QED
  BY <1>4, <1>5, RowStep DEF CancelRedemption

-----------------------------------------------------------------------------
(* Valuations and risk epochs                                              *)

(* A confirmed NAV is never above the marks it leaves behind, and a deep   *)
(* drawdown leaves the halt.                                               *)
LEMMA Revalued ==
  ASSUME RiskTrue, NEW n \in Nat, NEW shift \in Int, Revalue(n, shift)
  PROVE  RiskTrue'
<1> DEFINE h(m) == Max({hwm[m] + shift, n})
<1>1. \A m \in {"lifetime", "active"} : h(m) \in Nat /\ n <= h(m)
  <2> SUFFICES ASSUME NEW m \in {"lifetime", "active"}
               PROVE  h(m) \in Nat /\ n <= h(m)
    OBVIOUS
  <2>1. PICK x \in Int : x = hwm[m] + shift
    BY DEF RiskTrue
  <2>2. Max({x, n}) \in {x, n} /\ x <= Max({x, n}) /\ n <= Max({x, n})
    BY MaxPair
  <2>3. Max({x, n}) \in Nat /\ n <= Max({x, n})
    BY <2>2
  <2>4. QED
    BY <2>1, <2>3
<1>2. /\ nav' = n /\ hwm' = [m \in {"lifetime", "active"} |-> h(m)]
      /\ latch' = LatchAfter(n, h("active"))
  BY DEF Revalue
<1> HIDE DEF h
<1>3. QED
  BY <1>1, <1>2 DEF RiskTrue, LatchAfter

LEMMA StepStartRiskEpoch ==
  ASSUME LedgerInv, PriceInv', StartRiskEpoch PROVE LedgerInv'
<1> USE DEF LedgerInv
<1>1. UNCHANGED <<lifecycle, cash, units, observed, flow, payable, flows,
                  reserve, position, marks, executed, tradeCash>>
  BY DEF StartRiskEpoch, financing, book
<1>2. RiskTrue'
  BY DEF StartRiskEpoch, RiskTrue, Drawdown15
<1>3. ClockTrue'
  BY <1>1, CapitalAssumption DEF StartRiskEpoch, ClockTrue
<1>4. EventsTrue' /\ RowsTrue' /\ BookTrue' /\ ReserveTrue' /\ BooksTrue'
  BY <1>1, SameFlow, EventsKept, RowsKept, BookKept, ReserveKept, BooksSame DEF book
<1>5. SuspenseTrue' /\ UnitsTrue'
  BY <1>1 DEF SuspenseTrue, UnitsTrue
<1>6. QED
  BY <1>2, <1>3, <1>4, <1>5

LEMMA StepRestateValuation ==
  ASSUME LedgerInv, PriceInv', RestateValuation PROVE LedgerInv'
<1> USE DEF LedgerInv
<1>1. UNCHANGED <<lifecycle, cash, units, epoch, flow, payable, flows,
                  reserve, position, marks, executed, tradeCash>>
  BY DEF RestateValuation, financing, book
<1>2. RiskTrue'
  BY RiskKept DEF RestateValuation
<1>3. ClockTrue'
  BY <1>1, CapitalAssumption DEF RestateValuation, ClockTrue
<1>4. EventsTrue' /\ RowsTrue' /\ BookTrue' /\ ReserveTrue' /\ BooksTrue'
  BY <1>1, SameFlow, EventsKept, RowsKept, BookKept, ReserveKept, BooksSame DEF book
<1>5. SuspenseTrue' /\ UnitsTrue'
  BY <1>1 DEF SuspenseTrue, UnitsTrue
<1>6. QED
  BY <1>2, <1>3, <1>4, <1>5

LEMMA LaterEquity ==
  (RowsTrue /\ BookTrue /\ SuspenseTrue)' => (Equity = Wealth /\ Wealth \in Nat)'
  BY EquityIsWealth, PTL

(* A valuation confirms the equity it leaves behind.                       *)
LEMMA Confirmed ==
  ASSUME LedgerInv, PriceInv', BookTrue', observed < MaxObservations,
         UNCHANGED <<cash, units, epoch, flow, payable, flows, reserve,
                     position, tradeCash>>,
         NEW n, n = Equity', ConfirmNav(n)
  PROVE  LedgerInv'
<1> USE DEF LedgerInv
<1>1. EventsTrue' /\ RowsTrue' /\ ReserveTrue' /\ BooksTrue'
  BY SameFlow, EventsKept, RowsKept, ReserveKept, BooksSame
<1>2. SuspenseTrue' /\ UnitsTrue'
  BY DEF SuspenseTrue, UnitsTrue
<1>3. n \in Nat
  <2>1. Equity' = Wealth' /\ Wealth' \in Nat
    BY <1>1, <1>2, LaterEquity
  <2>2. QED
    BY <2>1
<1>4. RiskTrue'
  BY <1>3, Revalued DEF ConfirmNav
<1>5. ClockTrue'
  BY CapitalAssumption DEF ConfirmNav, ClockTrue, Lifecycle
<1>6. QED
  BY <1>1, <1>2, <1>4, <1>5

LEMMA StepCloseValuation ==
  ASSUME LedgerInv, PriceInv', CloseValuation PROVE LedgerInv'
<1> DEFINE held == {position[p].sec : p \in OpenLots(position)}
<1>1. PICK mk \in [held -> Prices] :
        marks' = [s \in Securities |-> IF s \in held THEN mk[s] ELSE 0]
  BY DEF CloseValuation
<1>2. UNCHANGED <<cash, units, epoch, flow, payable, flows, reserve, position,
                  executed, tradeCash>>
  BY DEF CloseValuation, financing
<1>3. marks' \in [Securities -> Nat]
  BY <1>1, CapitalAssumption
<1>4. BookTrue'
  BY <1>2, <1>3 DEF LedgerInv, BookTrue, OpenLots
<1>5. ConfirmNav(EquityOf(cash, position, marks', payable))
  BY DEF CloseValuation
<1>6. PICK n : n = EquityOf(cash, position, marks', payable)
  OBVIOUS
<1>7. n = Equity'
  BY <1>2, <1>6 DEF Equity
<1>8. ConfirmNav(n)
  BY <1>5, <1>6
<1>9. QED
  BY <1>2, <1>4, <1>7, <1>8, Confirmed DEF CloseValuation

LEMMA StepCloseValuationLiquid ==
  ASSUME LedgerInv, PriceInv', CloseValuationLiquid PROVE LedgerInv'
<1>1. UNCHANGED <<cash, units, epoch, flow, payable, flows, reserve, position,
                  marks, executed, tradeCash>>
  BY DEF CloseValuationLiquid, financing, book
<1>2. BookTrue'
  BY <1>1, BookKept DEF LedgerInv, book
<1>3. ConfirmNav(EquityOf(cash, position, marks, payable))
  BY DEF CloseValuationLiquid
<1>4. PICK n : n = EquityOf(cash, position, marks, payable)
  OBVIOUS
<1>5. n = Equity'
  BY <1>1, <1>4 DEF Equity
<1>6. ConfirmNav(n)
  BY <1>3, <1>4
<1>7. QED
  BY <1>1, <1>2, <1>5, <1>6, Confirmed DEF CloseValuationLiquid

-----------------------------------------------------------------------------
(* Entry reserves and fills                                                *)

Held == [v \in Reserves |-> IF reserve[v].state \in Live THEN reserve[v].cents
                                                         ELSE 0]

ReserveTyped == reserve \in [Reserves -> [state: ReserveState, cents: Nat]]

LEMMA ReservedIsHeld ==
  ReserveTyped => /\ ReservedTotal = SumFunctionOnSet(Held, Reserves)
                  /\ \A v \in Reserves : Held[v] \in Nat
<1> SUFFICES ASSUME ReserveTyped
             PROVE  /\ ReservedTotal = SumFunctionOnSet(Held, Reserves)
                    /\ \A v \in Reserves : Held[v] \in Nat
  OBVIOUS
<1> DEFINE T == {v \in Reserves : reserve[v].state \in Live}
           f == [v \in Reserves |-> reserve[v].cents]
<1>1. \A v \in Reserves : Held[v] \in Nat
  BY DEF Held, ReserveTyped
<1>2. T \subseteq Reserves /\ \A v \in T : f[v] \in Int /\ Held[v] = f[v]
  BY DEF ReserveTyped, Held
<1>3. \A v \in Reserves \ T : Held[v] = 0
  BY DEF Held
<1>4. ReservedTotal = SumFunctionOnSet(f, T)
  BY DEF ReservedTotal
<1> HIDE DEF f, T
<1>5. SumFunctionOnSet(f, T) = SumFunctionOnSet(Held, Reserves)
  BY <1>2, <1>3, FiniteRequests, SumWithin
<1>6. QED
  BY <1>1, <1>4, <1>5

LEMMA LaterReserved ==
  ReserveTyped' => (/\ ReservedTotal = SumFunctionOnSet(Held, Reserves)
                    /\ \A v \in Reserves : Held[v] \in Nat)'
  BY ReservedIsHeld, PTL

(* One reserve changes: the restricted cash moves by what it held.         *)
LEMMA HeldChanges ==
  ASSUME ReserveTrue, ReserveTyped', NEW v \in Reserves,
         \A w \in Reserves : w # v => reserve'[w] = reserve[w]
  PROVE  /\ ReservedTotal' = cash.restricted - Held[v] + Held'[v]
         /\ ReservedTotal' \in Nat
<1>1. ReserveTyped /\ cash.restricted = SumFunctionOnSet(Held, Reserves)
  BY ReservedIsHeld DEF ReserveTrue, ReserveTyped
<1>2. ReservedTotal' = SumFunctionOnSet(Held', Reserves)
  BY LaterReserved
<1>3. \A w \in Reserves : Held[w] \in Nat
  BY <1>1, ReservedIsHeld
<1>4. \A w \in Reserves : Held'[w] \in Nat
  BY LaterReserved
<1>5. \A w \in Reserves \ {v} : Held'[w] = Held[w]
  BY DEF Held
<1>6. PICK f : f = Held
  OBVIOUS
<1>7. PICK g : g = Held'
  OBVIOUS
<1>8. /\ \A w \in Reserves : f[w] \in Nat /\ g[w] \in Nat
      /\ \A w \in Reserves \ {v} : g[w] = f[w]
  BY <1>3, <1>4, <1>5, <1>6, <1>7
<1>9. /\ SumFunctionOnSet(g, Reserves) = SumFunctionOnSet(f, Reserves) - f[v] + g[v]
      /\ SumFunctionOnSet(g, Reserves) \in Nat
  BY <1>8, FiniteRequests, SumChange, SumNat
<1>10. QED
  BY <1>1, <1>2, <1>6, <1>7, <1>9

(* Cash that moves outside the suspense buckets.                           *)
LEMMA CashStep ==
  ASSUME LedgerInv, PriceInv', Recompute,
         UNCHANGED <<lifecycle, units, epoch, observed, financing>>,
         NEW c \in [Buckets -> Nat], cash' = c, NEW d \in Int,
         tradeCash' = tradeCash + d,
         c.subSuspense = cash.subSuspense, c.redSuspense = cash.redSuspense,
         c.available + c.restricted = cash.available + cash.restricted + d,
         BookTrue', ReserveTrue'
  PROVE  LedgerInv'
<1> USE DEF LedgerInv
<1>1. UNCHANGED <<flow, payable, flows>>
  BY DEF financing
<1>2. EventsTrue' /\ RowsTrue' /\ RiskTrue' /\ ClockTrue' /\ BooksTrue' /\ SuspenseTrue'
  BY <1>1, SameFlow, EventsKept, RowsKept, RiskKept, ClockKept, BooksKept, SuspenseKept
<1>3. UnitsTrue'
  BY DEF UnitsTrue
<1>4. QED
  BY <1>2, <1>3

(* The cash after two buckets were set.                                    *)
SetBuckets(x, a, y, b) == [cash EXCEPT ![x] = a, ![y] = b]

LEMMA FreeAndReserved ==
  ASSUME SuspenseTrue, NEW a \in Nat, NEW b \in Nat,
         NEW c, c = SetBuckets("available", a, "restricted", b)
  PROVE  /\ c \in [Buckets -> Nat] /\ c.available = a /\ c.restricted = b
         /\ c.subSuspense = cash.subSuspense /\ c.redSuspense = cash.redSuspense
<1>1. /\ "available" \in Buckets /\ "restricted" \in Buckets
      /\ "available" # "restricted"
      /\ "subSuspense" \in Buckets \ {"available", "restricted"}
      /\ "redSuspense" \in Buckets \ {"available", "restricted"}
  BY DEF Buckets
<1>2. /\ c \in [Buckets -> Nat] /\ c["available"] = a /\ c["restricted"] = b
      /\ \A z \in Buckets \ {"available", "restricted"} : c[z] = cash[z]
  BY <1>1 DEF SuspenseTrue, SetBuckets
<1>3. QED
  BY <1>1, <1>2

LEMMA StepRequestCancel ==
  ASSUME LedgerInv, PriceInv', NEW v \in Reserves, RequestCancel(v)
  PROVE  LedgerInv'
<1> USE DEF LedgerInv
<1>1. /\ reserve' = [reserve EXCEPT ![v].state = "CANCEL_PENDING"]
      /\ reserve[v].state = "LIVE" /\ cash' = cash /\ tradeCash' = tradeCash
      /\ UNCHANGED book
  BY DEF RequestCancel, book
<1>2. ReserveTyped' /\ \A w \in Reserves : w # v => reserve'[w] = reserve[w]
  BY <1>1 DEF ReserveTrue, ReserveTyped, ReserveState, Live
<1>3. Held'[v] = Held[v] /\ Held[v] \in Nat
  BY <1>1 DEF Held, Live, ReserveTrue
<1>4. ReservedTotal' = cash.restricted - Held[v] + Held'[v]
  BY <1>2, HeldChanges
<1>5. cash.restricted \in Nat /\ cash \in [Buckets -> Nat]
  BY CashTyped DEF SuspenseTrue
<1>6. ReservedTotal' = cash.restricted
  BY <1>3, <1>4, <1>5
<1>7. ReserveTrue'
  BY <1>1, <1>2, <1>6 DEF ReserveTrue, ReserveTyped
<1>8. tradeCash' = tradeCash + 0
      /\ cash.available + cash.restricted = cash.available + cash.restricted + 0
  BY <1>1, CashTyped DEF BookTrue
<1>9. BookTrue'
  BY <1>1, BookKept
<1>10. QED
  BY <1>1, <1>5, <1>7, <1>8, <1>9, CashStep DEF RequestCancel

LEMMA StepReleaseReserve ==
  ASSUME LedgerInv, PriceInv', NEW v \in Reserves, ReleaseReserve(v)
  PROVE  LedgerInv'
<1> USE DEF LedgerInv
<1>1. /\ reserve' = [reserve EXCEPT ![v].state = "RELEASED"]
      /\ reserve[v].state \in Live /\ tradeCash' = tradeCash
      /\ UNCHANGED book
  BY DEF ReleaseReserve, book
<1>2. ReserveTyped' /\ \A w \in Reserves : w # v => reserve'[w] = reserve[w]
  BY <1>1 DEF ReserveTrue, ReserveTyped, ReserveState, Live
<1>3. Held'[v] = 0 /\ Held[v] = reserve[v].cents /\ Held[v] \in Nat
  BY <1>1 DEF Held, Live, ReserveTrue
<1>4. PICK k \in Nat : k = reserve[v].cents
  BY <1>3
<1>5. ReservedTotal' = cash.restricted - k /\ ReservedTotal' \in Nat
  <2>1. ReservedTotal' = cash.restricted - Held[v] + Held'[v] /\ ReservedTotal' \in Nat
    BY <1>2, HeldChanges
  <2>2. cash.restricted - k + 0 = cash.restricted - k
    BY CashTyped
  <2>3. QED
    BY <1>3, <1>4, <2>1, <2>2
<1>6. PICK t : t = ReservedTotal'
  OBVIOUS
<1>7. t = cash.restricted - k /\ t \in Nat
  BY <1>5, <1>6
<1>8. PICK c : /\ cash' = c
               /\ c = [cash EXCEPT !.available = @ + reserve[v].cents,
                                   !.restricted = @ - reserve[v].cents]
  BY DEF ReleaseReserve
<1>9. /\ c \in [Buckets -> Nat]
      /\ c.available = cash.available + k /\ c.restricted = cash.restricted - k
      /\ c.subSuspense = cash.subSuspense /\ c.redSuspense = cash.redSuspense
  <2>1. PICK a \in Nat : a = cash.available + k
    BY CashTyped
  <2>2. c = SetBuckets("available", a, "restricted", t)
    BY <1>4, <1>7, <1>8, <2>1 DEF SuspenseTrue, Buckets, SetBuckets
  <2>3. QED
    BY <1>7, <2>1, <2>2, FreeAndReserved
<1>10. ReserveTrue'
  BY <1>2, <1>6, <1>7, <1>8, <1>9 DEF ReserveTrue, ReserveTyped
<1>11. BookTrue'
  BY <1>1, BookKept
<1>12. tradeCash' = tradeCash + 0
      /\ c.available + c.restricted = cash.available + cash.restricted + 0
  BY <1>1, <1>4, <1>9, CashTyped DEF BookTrue
<1>13. Recompute /\ UNCHANGED <<lifecycle, units, epoch, observed, financing>>
  BY DEF ReleaseReserve
<1>14. cash' = c
  BY <1>8
<1>15. QED
  BY <1>9, <1>10, <1>11, <1>12, <1>13, <1>14, CashStep

(* A batch of new reserves holds what was set aside for it.                *)
LEMMA BatchHeld ==
  ASSUME ReserveTrue, NEW batch \in SUBSET Reserves, NEW a \in [batch -> Nat],
         \A v \in batch : reserve[v].state = "NONE",
         reserve' = [v \in Reserves |->
           IF v \in batch THEN [state |-> "LIVE", cents |-> a[v]] ELSE reserve[v]]
  PROVE  /\ ReserveTyped' /\ SumFunctionOnSet(a, batch) \in Nat
         /\ ReservedTotal' = cash.restricted + SumFunctionOnSet(a, batch)
<1> DEFINE g == [v \in Reserves |-> IF v \in batch THEN a[v] ELSE 0]
<1>1. ReserveTyped' /\ ReserveTyped
  BY DEF ReserveTrue, ReserveTyped, ReserveState, Live
<1>2. /\ cash.restricted = SumFunctionOnSet(Held, Reserves)
      /\ \A v \in Reserves : Held[v] \in Nat
  BY <1>1, ReservedIsHeld DEF ReserveTrue
<1>3. /\ ReservedTotal' = SumFunctionOnSet(Held', Reserves)
      /\ \A v \in Reserves : Held'[v] \in Nat
  BY <1>1, LaterReserved
<1>4. \A v \in Reserves : Held'[v] = Held[v] + g[v] /\ g[v] \in Nat
  <2> TAKE v \in Reserves
  <2>1. CASE v \in batch
    BY <2>1 DEF Held, Live
  <2>2. CASE v \notin batch
    <3>1. Held'[v] = Held[v] /\ g[v] = 0
      BY <2>2 DEF Held
    <3>2. QED
      BY <1>2, <3>1
  <2>3. QED
    BY <2>1, <2>2
<1>5. IsFiniteSet(batch)
  BY FiniteRequests, FS_Subset
<1>6. /\ \A v \in batch : a[v] \in Int /\ a[v] \in Nat /\ g[v] = a[v]
      /\ \A v \in Reserves \ batch : g[v] = 0
  OBVIOUS
<1> HIDE DEF g
<1>7. SumFunctionOnSet(a, batch) = SumFunctionOnSet(g, Reserves)
  BY <1>6, FiniteRequests, SumWithin
<1>8. SumFunctionOnSet(a, batch) \in Nat
  BY <1>5, <1>6, SumNat
<1>9. PICK f : f = Held
  OBVIOUS
<1>10. PICK h : h = Held'
  OBVIOUS
<1>11. \A v \in Reserves : f[v] \in Int /\ g[v] \in Int /\ h[v] = f[v] + g[v]
  BY <1>2, <1>4, <1>9, <1>10
<1>12. SumFunctionOnSet(h, Reserves) =
         SumFunctionOnSet(f, Reserves) + SumFunctionOnSet(g, Reserves)
  BY <1>11, FiniteRequests, SumPlus
<1>13. QED
  BY <1>1, <1>2, <1>3, <1>7, <1>8, <1>9, <1>10, <1>12

LEMMA StepReserveEntries ==
  ASSUME LedgerInv, PriceInv', NEW batch \in SUBSET Reserves,
         ReserveEntries(batch)
  PROVE  LedgerInv'
<1> USE DEF LedgerInv
<1>1. PICK a \in [batch -> Amounts] :
        LET total == SumFunctionOnSet(a, batch) IN
        /\ total <= cash.available
        /\ cash' = [cash EXCEPT !.available = @ - total, !.restricted = @ + total]
        /\ reserve' = [v \in Reserves |->
             IF v \in batch THEN [state |-> "LIVE", cents |-> a[v]] ELSE reserve[v]]
  BY DEF ReserveEntries
<1>2. a \in [batch -> Nat] /\ \A v \in batch : reserve[v].state = "NONE"
  BY CapitalAssumption DEF ReserveEntries
<1>3. PICK total : total = SumFunctionOnSet(a, batch)
  OBVIOUS
<1>4. ReserveTyped' /\ total \in Nat /\ ReservedTotal' = cash.restricted + total
  BY <1>1, <1>2, <1>3, BatchHeld
<1>5. PICK c : /\ cash' = c
               /\ c = [cash EXCEPT !.available = @ - total, !.restricted = @ + total]
  BY <1>1, <1>3
<1>6. /\ c \in [Buckets -> Nat]
      /\ c.available = cash.available - total /\ c.restricted = cash.restricted + total
      /\ c.subSuspense = cash.subSuspense /\ c.redSuspense = cash.redSuspense
  <2>1. PICK x \in Nat : x = cash.available - total
    BY <1>1, <1>3, <1>4, CashTyped
  <2>2. PICK y \in Nat : y = cash.restricted + total
    BY <1>4, CashTyped
  <2>3. c = SetBuckets("available", x, "restricted", y)
    BY <1>5, <2>1, <2>2 DEF SuspenseTrue, Buckets, SetBuckets
  <2>4. QED
    BY <2>1, <2>2, <2>3, FreeAndReserved
<1>7. ReserveTrue'
  BY <1>4, <1>5, <1>6 DEF ReserveTrue, ReserveTyped
<1>8. /\ Recompute /\ UNCHANGED <<lifecycle, units, epoch, observed, financing>>
      /\ UNCHANGED book
  BY DEF ReserveEntries
<1>9. BookTrue' /\ tradeCash' = tradeCash
  BY <1>8, BookKept DEF book
<1>10. tradeCash' = tradeCash + 0
      /\ c.available + c.restricted = cash.available + cash.restricted + 0
  BY <1>4, <1>6, <1>9, CashTyped DEF BookTrue
<1>11. cash' = c
  BY <1>5
<1>12. QED
  BY <1>6, <1>7, <1>8, <1>9, <1>10, <1>11, CashStep

(* What a fill takes out of its reserve.                                   *)
LEMMA ReserveConsumed ==
  ASSUME ReserveTrue, SuspenseTrue, NEW v \in Reserves \cup {NoReserve},
         reserve' = [w \in Reserves |-> IF w = v /\ reserve[w].state \in Live
                       THEN [reserve[w] EXCEPT !.state = "CONSUMED"] ELSE reserve[w]]
  PROVE  /\ ReserveTyped' /\ Restricted(v) \in Nat
         /\ ReservedTotal' = cash.restricted - Restricted(v)
         /\ ReservedTotal' \in Nat
<1>1. ReserveTyped'
  BY DEF ReserveTrue, ReserveTyped, ReserveState
<1>2. CASE v = NoReserve
  <2>1. reserve' = reserve /\ Restricted(v) = 0
    BY <1>2, CapitalAssumption DEF ReserveTrue, Restricted
  <2>2. ReservedTotal' = cash.restricted
    BY <2>1 DEF ReserveTrue, ReservedTotal
  <2>3. QED
    BY <1>1, <2>1, <2>2, CashTyped
<1>3. CASE v \in Reserves
  <2>1. Restricted(v) = Held[v] /\ Held[v] \in Nat
    BY <1>3, CapitalAssumption DEF Restricted, Held, ReserveTrue
  <2>2. Held'[v] = 0
    BY <1>3 DEF Held, Live
  <2>3. \A w \in Reserves : w # v => reserve'[w] = reserve[w]
    OBVIOUS
  <2>4. /\ ReservedTotal' = cash.restricted - Held[v] + Held'[v]
        /\ ReservedTotal' \in Nat
    BY <1>1, <1>3, <2>3, HeldChanges
  <2>5. cash.restricted - Held[v] + 0 = cash.restricted - Held[v]
    BY <2>1, CashTyped
  <2>6. QED
    BY <1>1, <2>1, <2>2, <2>4, <2>5
<1>4. QED
  BY <1>2, <1>3

LEMMA StepEntryFill ==
  ASSUME LedgerInv, PriceInv', NEW x \in Executions,
         NEW v \in Reserves \cup {NoReserve}, EntryFill(x, v)
  PROVE  LedgerInv'
<1> USE DEF LedgerInv
<1>1. PICK l \in IF Released(v) THEN {x} ELSE Lots \cup {x}, s \in Securities,
           price \in Prices :
        /\ position[l].state \in {"NONE", "OPEN"}
        /\ cash.available + Restricted(v) >= price
        /\ position' = [position EXCEPT ![l] =
             [state |-> "OPEN", qty |-> @.qty + 1, sec |-> s]]
        /\ cash' = [cash EXCEPT !.available = @ + Restricted(v) - price,
                                !.restricted = @ - Restricted(v)]
        /\ tradeCash' = tradeCash - price
  BY DEF EntryFill
<1>2. l \in AllLots /\ price \in Nat
  BY CapitalAssumption DEF AllLots
<1>3. reserve' = [w \in Reserves |-> IF w = v /\ reserve[w].state \in Live
                    THEN [reserve[w] EXCEPT !.state = "CONSUMED"] ELSE reserve[w]]
  BY DEF EntryFill
<1>4. PICK k : k = Restricted(v)
  OBVIOUS
<1>5. PICK t : t = ReservedTotal'
  OBVIOUS
<1>6. ReserveTyped' /\ k \in Nat /\ t = cash.restricted - k /\ t \in Nat
  BY <1>3, <1>4, <1>5, ReserveConsumed
<1>7. PICK c : /\ cash' = c
               /\ c = [cash EXCEPT !.available = @ + k - price, !.restricted = @ - k]
  BY <1>1, <1>4
<1>8. /\ c \in [Buckets -> Nat]
      /\ c.available = cash.available + k - price /\ c.restricted = t
      /\ c.subSuspense = cash.subSuspense /\ c.redSuspense = cash.redSuspense
  <2>1. cash.available + k >= price
    BY <1>1, <1>4
  <2>2. PICK y \in Nat : y = cash.available + k - price
    BY <1>2, <1>6, <2>1, CashTyped
  <2>3. c = SetBuckets("available", y, "restricted", t)
    BY <1>6, <1>7, <2>2 DEF SuspenseTrue, Buckets, SetBuckets
  <2>4. QED
    BY <1>6, <2>2, <2>3, FreeAndReserved
<1>9. ReserveTrue'
  BY <1>5, <1>6, <1>7, <1>8 DEF ReserveTrue, ReserveTyped
<1>10. BookTrue'
  <2>1. executed' \subseteq Executions /\ marks' = marks
    BY DEF EntryFill, BookTrue
  <2>2. tradeCash' \in Int
    BY <1>1, <1>2 DEF BookTrue
  <2>3. [state |-> "OPEN", qty |-> position[l].qty + 1, sec |-> s] \in Position
    BY <1>2 DEF BookTrue, Position
  <2>4. position' \in [AllLots -> Position]
    BY <1>1, <1>2, <2>3 DEF BookTrue
  <2>5. \A p \in OpenLots(position') : position'[p].qty > 0
    BY <1>1, <1>2 DEF BookTrue, OpenLots, Position
  <2>6. QED
    BY <2>1, <2>2, <2>4, <2>5 DEF BookTrue
<1>11. PICK d \in Int : d = -price
  BY <1>2
<1>12. tradeCash' = tradeCash + d
  BY <1>1, <1>2, <1>11 DEF BookTrue
<1>13. c.available + c.restricted = cash.available + cash.restricted + d
  BY <1>2, <1>6, <1>8, <1>11, CashTyped
<1>14. Recompute /\ UNCHANGED <<lifecycle, units, epoch, observed, financing>>
  BY DEF EntryFill
<1>15. cash' = c
  BY <1>7
<1>16. QED
  BY <1>8, <1>9, <1>10, <1>12, <1>13, <1>14, <1>15, CashStep

(* The row of a lot after one share was sold.                              *)
Sold(p, q, s) == [p EXCEPT !.qty = q, !.state = s]

LEMMA SoldRow ==
  ASSUME NEW p \in Position, NEW q \in Nat, NEW s \in {"CLOSED", "EXIT_PENDING"}
  PROVE  /\ Sold(p, q, s) \in Position
         /\ Sold(p, q, s).qty = q /\ Sold(p, q, s).state = s
<1> USE DEF Sold, Position
<1>1. Sold(p, q, s) \in Position
  OBVIOUS
<1>2. Sold(p, q, s).qty = q /\ Sold(p, q, s).state = s
  OBVIOUS
<1>3. QED
  BY <1>1, <1>2

LEMMA StepExitFill ==
  ASSUME LedgerInv, PriceInv', NEW x \in Executions, ExitFill(x)
  PROVE  LedgerInv'
<1> USE DEF LedgerInv
<1>1. PICK l \in OpenLots(position), price \in Prices :
       /\ position' = [position EXCEPT ![l].qty = @ - 1,
            ![l].state = IF position[l].qty = 1 THEN "CLOSED" ELSE "EXIT_PENDING"]
       /\ cash' = [cash EXCEPT !.available = @ + price]
       /\ tradeCash' = tradeCash + price
  BY DEF ExitFill
<1>2. l \in AllLots /\ price \in Nat
  BY CapitalAssumption DEF OpenLots
<1>3. PICK c : cash' = c /\ c = [cash EXCEPT !.available = @ + price]
  BY <1>1
<1>4. /\ c \in [Buckets -> Nat]
      /\ c.available = cash.available + price /\ c.restricted = cash.restricted
      /\ c.subSuspense = cash.subSuspense /\ c.redSuspense = cash.redSuspense
  BY <1>2, <1>3, CashTyped DEF SuspenseTrue, Buckets
<1>5. reserve' = reserve /\ cash'.restricted = cash.restricted
  BY <1>3, <1>4 DEF ExitFill
<1>6. ReserveTrue'
  BY <1>5, ReserveKept
<1>7. BookTrue'
  <2>1. executed' \subseteq Executions /\ marks' = marks
    BY DEF ExitFill, BookTrue
  <2>2. tradeCash' \in Int
    BY <1>1, <1>2 DEF BookTrue
  <2>3. position[l] \in Position /\ position[l].qty > 0
    BY <1>1, <1>2 DEF BookTrue
  <2>4. PICK q \in Nat : q = position[l].qty - 1
    BY <2>3 DEF Position
  <2>5. PICK s \in {"CLOSED", "EXIT_PENDING"} :
          s = IF position[l].qty = 1 THEN "CLOSED" ELSE "EXIT_PENDING"
    OBVIOUS
  <2>6. PICK new \in Position :
          position' = [position EXCEPT ![l] = new] /\ new.qty = q /\ new.state = s
    <3>1. position' = [position EXCEPT ![l] = Sold(position[l], q, s)]
      BY <1>1, <1>2, <2>4, <2>5 DEF Sold, BookTrue, Position
    <3>2. QED
      BY <2>3, <3>1, SoldRow
  <2>7. position' \in [AllLots -> Position]
    BY <1>2, <2>6 DEF BookTrue
  <2>8. s = "EXIT_PENDING" => q > 0
    BY <2>3, <2>4, <2>5 DEF Position
  <2>9. \A p \in OpenLots(position') : position'[p].qty > 0
    BY <1>2, <2>6, <2>8 DEF BookTrue, OpenLots
  <2>10. QED
    BY <2>1, <2>2, <2>7, <2>9 DEF BookTrue
<1>8. c.available + c.restricted = cash.available + cash.restricted + price
  BY <1>2, <1>4, CashTyped
<1>9. Recompute /\ UNCHANGED <<lifecycle, units, epoch, observed, financing>>
  BY DEF ExitFill
<1>10. cash' = c /\ price \in Int /\ tradeCash' = tradeCash + price
  BY <1>1, <1>2, <1>3
<1>11. QED
  BY <1>4, <1>6, <1>7, <1>8, <1>9, <1>10, CashStep

-----------------------------------------------------------------------------
(* Operations that log an event                                            *)

LEMMA EventsLogged ==
  ASSUME EventsTrue, NEW e, Logged(e), NEW r \in Requests, e.req = r,
         \A q \in Requests : q # r => flow'[q] = flow[q],
         \/ flow'[r].state \notin Open(r)
         \/ /\ flow[r].state \in Open(r) /\ flow'[r].state # "NONE"
            /\ r \in Subs /\ e.kind = "SUBSCRIPTION_RECEIVED"
  PROVE  EventsTrue'
<1>1. IsFiniteSet(flows') /\ \A x \in flows' : EventTrue(x)
  BY FS_AddElement DEF EventsTrue, Logged
<1>2. \A kind, q : OnFile(kind, q)' <=> OnFile(kind, q) \/ (e.kind = kind /\ r = q)
  BY OnFileLogged
<1>3. \A s \in Subs :
        /\ flow'[s].state = "NONE" => ~OnFile("SUBSCRIPTION_RECEIVED", s)'
        /\ flow'[s].state \in {"NONE", "RECEIVED", "PRICED"} =>
             /\ ~OnFile("SUBSCRIPTION_SETTLED", s)'
             /\ ~OnFile("SUBSCRIPTION_CANCELLED", s)'
  BY <1>2 DEF EventsTrue, Requests, Open
<1>4. \A q \in Reds : flow'[q].state \in {"NONE", "REQUESTED", "PRICED"} =>
        ~OnFile("REDEEMED_PART", q)' /\ ~OnFile("REDEEMED_FULL", q)'
  BY <1>2, FiniteRequests DEF EventsTrue, Requests, Open
<1>5. QED
  BY <1>1, <1>3, <1>4 DEF EventsTrue

(* The books follow the log if every quantity moves as the event says.     *)
LEMMA BooksLogged ==
  ASSUME LedgerInv, NEW e, Logged(e), UNCHANGED tradeCash,
         NEW c \in [Buckets -> Nat], cash' = c,
         NEW i \in Nat, NEW p \in Nat, units'.issued = i, units'.pending = p,
         c.available + c.restricted
           = cash.available + cash.restricted + CapitalOf(e),
         c.subSuspense = cash.subSuspense + SubSuspenseOf(e),
         c.redSuspense = cash.redSuspense + RedSuspenseOf(e),
         CashOf(e) = CapitalOf(e) + SubSuspenseOf(e) + RedSuspenseOf(e),
         i = units.issued + IssuedOf(e), p = units.pending + PendingOf(e),
         \A q \in Requests : payable'[q] = ReplayedPayable(q)'
  PROVE  BooksTrue'
<1> USE DEF LedgerInv
<1>1. /\ CashOf(e) \in Int /\ CapitalOf(e) \in Int /\ SubSuspenseOf(e) \in Int
      /\ RedSuspenseOf(e) \in Int /\ IssuedOf(e) \in Int /\ PendingOf(e) \in Int
  BY AddsNat DEF Logged, Fields, CashOf, CapitalOf, SubSuspenseOf,
     RedSuspenseOf, IssuedOf, PendingOf
<1>2. /\ c.available \in Nat /\ c.restricted \in Nat
      /\ c.subSuspense \in Nat /\ c.redSuspense \in Nat
  BY DEF Buckets
<1>3. tradeCash \in Int
  BY DEF BookTrue
<1>4. CashTotal(c) = CashTotal(cash) + CashOf(e) /\ CashTotal(cash) \in Int
  BY <1>1, <1>2, CashTyped DEF CashTotal
<1>5. CashTotal(c) = (ReplayedCash + CashOf(e)) + tradeCash
  BY <1>1, <1>3, <1>4, ReplayTyped DEF BooksTrue
<1>6. c.available + c.restricted = (ReplayedCapital + CapitalOf(e)) + tradeCash
  BY <1>1, <1>3, ReplayTyped DEF BooksTrue
<1>7. CashTotal(cash)' = ReplayedCash' + tradeCash'
  BY <1>5, Replayed DEF CashTotal
<1>8. (cash.available + cash.restricted)' = ReplayedCapital' + tradeCash'
  BY <1>6, Replayed
<1>9. cash'.subSuspense = ReplayedSubSuspense' /\ cash'.redSuspense = ReplayedRedSuspense'
  BY Replayed DEF BooksTrue
<1>10. units'.issued = ReplayedIssued' /\ units'.pending = ReplayedPending'
  BY Replayed DEF BooksTrue
<1>11. QED
  BY <1>7, <1>8, <1>9, <1>10 DEF BooksTrue

(* One payable changes with the suspense bucket of its side.               *)
LEMMA PayableSet ==
  ASSUME RowsTrue, NEW r \in Requests, NEW x \in Nat,
         payable' = [payable EXCEPT ![r] = x]
  PROVE  /\ payable' \in [Requests -> Nat] /\ payable'[r] = x
         /\ \A q \in Requests : q # r => payable'[q] = payable[q]
         /\ r \in Subs => /\ SumFunctionOnSet(payable', Subs)
                               = SumFunctionOnSet(payable, Subs) - payable[r] + x
                          /\ SumFunctionOnSet(payable', Reds)
                               = SumFunctionOnSet(payable, Reds)
         /\ r \in Reds => /\ SumFunctionOnSet(payable', Reds)
                               = SumFunctionOnSet(payable, Reds) - payable[r] + x
                          /\ SumFunctionOnSet(payable', Subs)
                               = SumFunctionOnSet(payable, Subs)
<1>1. PICK f : f = payable
  OBVIOUS
<1>2. PICK g : g = payable'
  OBVIOUS
<1>3. /\ f \in [Requests -> Nat] /\ g = [f EXCEPT ![r] = x]
  BY <1>1, <1>2 DEF RowsTrue
<1>4. /\ g \in [Requests -> Nat] /\ g[r] = x
      /\ \A q \in Requests : q # r => g[q] = f[q]
  BY <1>3
<1>5. /\ \A q \in Subs : f[q] \in Int /\ g[q] \in Int
      /\ \A q \in Reds : f[q] \in Int /\ g[q] \in Int
  BY <1>3, <1>4 DEF Requests
<1>6. ASSUME r \in Subs
      PROVE  /\ SumFunctionOnSet(g, Subs) = SumFunctionOnSet(f, Subs) - f[r] + x
             /\ SumFunctionOnSet(g, Reds) = SumFunctionOnSet(f, Reds)
  <2>1. \A q \in Subs \ {r} : g[q] = f[q]
    BY <1>4 DEF Requests
  <2>2. \A q \in Reds : g[q] = f[q]
    BY <1>4, <1>6, FiniteRequests DEF Requests
  <2>3. SumFunctionOnSet(g, Subs) = SumFunctionOnSet(f, Subs) - f[r] + g[r]
    BY <1>5, <1>6, <2>1, FiniteRequests, SumChange
  <2>4. SumFunctionOnSet(g, Reds) = SumFunctionOnSet(f, Reds)
    BY <2>2, FiniteRequests, SumSame
  <2>5. QED
    BY <1>4, <2>3, <2>4
<1>7. ASSUME r \in Reds
      PROVE  /\ SumFunctionOnSet(g, Reds) = SumFunctionOnSet(f, Reds) - f[r] + x
             /\ SumFunctionOnSet(g, Subs) = SumFunctionOnSet(f, Subs)
  <2>1. \A q \in Reds \ {r} : g[q] = f[q]
    BY <1>4 DEF Requests
  <2>2. \A q \in Subs : g[q] = f[q]
    BY <1>4, <1>7, FiniteRequests DEF Requests
  <2>3. SumFunctionOnSet(g, Reds) = SumFunctionOnSet(f, Reds) - f[r] + g[r]
    BY <1>5, <1>7, <2>1, FiniteRequests, SumChange
  <2>4. SumFunctionOnSet(g, Subs) = SumFunctionOnSet(f, Subs)
    BY <2>2, FiniteRequests, SumSame
  <2>5. QED
    BY <1>4, <2>3, <2>4
<1>8. QED
  BY <1>1, <1>2, <1>4, <1>6, <1>7

LEMMA PayableInSuspense ==
  ASSUME RowsTrue, SuspenseTrue, NEW r \in Requests
  PROVE  /\ payable[r] \in Nat
         /\ r \in Subs => payable[r] <= cash.subSuspense
         /\ r \in Reds => payable[r] <= cash.redSuspense
<1>1. \A q \in Subs \cup Reds : payable[q] \in Nat
  BY DEF RowsTrue, Requests
<1>2. r \in Subs => payable[r] <= SumFunctionOnSet(payable, Subs)
  BY <1>1, FiniteRequests, SumBounds
<1>3. r \in Reds => payable[r] <= SumFunctionOnSet(payable, Reds)
  BY <1>1, FiniteRequests, SumBounds
<1>4. QED
  BY <1>1, <1>2, <1>3 DEF SuspenseTrue, Requests

(* The replayed payables follow when that of the request does.             *)
LEMMA PayablesLogged ==
  ASSUME LedgerInv, NEW e, Logged(e), NEW r \in Requests, e.req = r,
         \A q \in Requests : q # r => payable'[q] = payable[q],
         payable'[r] = ReplayedPayable(r)'
  PROVE  \A q \in Requests : payable'[q] = ReplayedPayable(q)'
<1> SUFFICES ASSUME NEW q \in Requests, q # r PROVE payable'[q] = ReplayedPayable(q)'
  OBVIOUS
<1>1. ReplayedPayable(q)' = ReplayedPayable(q)
  BY PayableElsewhere DEF LedgerInv
<1>2. QED
  BY <1>1 DEF LedgerInv, BooksTrue

LEMMA RevaluedFlow ==
  ASSUME RiskTrue, RowsTrue', BookTrue', SuspenseTrue', UNCHANGED <<position, marks>>,
         NEW shift \in Int,
         Revalue(EquityOf(cash', position, marks, payable'), shift)
  PROVE  RiskTrue'
<1>1. PICK n : n = EquityOf(cash', position, marks, payable')
  OBVIOUS
<1>2. n = Equity'
  BY <1>1 DEF Equity
<1>3. n \in Nat
  BY <1>2, LaterEquity
<1>4. Revalue(n, shift)
  BY <1>1
<1>5. QED
  BY <1>3, <1>4, Revalued

LEMMA FlowStep ==
  ASSUME LedgerInv, PriceInv', EventsTrue', RowsTrue', SuspenseTrue',
         UnitsTrue', RiskTrue', BooksTrue', lifecycle' \in Lifecycle,
         UNCHANGED <<epoch, observed, reserve, book>>,
         cash'.restricted = cash.restricted, NEW e, Logged(e)
  PROVE  LedgerInv'
<1> USE DEF LedgerInv
<1>1. BookTrue' /\ ReserveTrue'
  BY BookKept, ReserveKept
<1>2. ClockTrue'
  BY DEF ClockTrue, Logged
<1>3. QED
  BY <1>1, <1>2

(* Cash as a subscription leaves it.                                       *)
FreeSub(c, a, b) ==
  /\ c \in [Buckets -> Nat] /\ c.available = a /\ c.subSuspense = b
  /\ c.restricted = cash.restricted /\ c.redSuspense = cash.redSuspense

LEMMA FreeAndSub ==
  ASSUME SuspenseTrue, NEW a \in Nat, NEW b \in Nat,
         NEW c, c = SetBuckets("available", a, "subSuspense", b)
  PROVE  FreeSub(c, a, b)
<1>1. /\ "available" \in Buckets /\ "subSuspense" \in Buckets
      /\ "available" # "subSuspense"
      /\ "restricted" \in Buckets \ {"available", "subSuspense"}
      /\ "redSuspense" \in Buckets \ {"available", "subSuspense"}
  BY DEF Buckets
<1>2. /\ c \in [Buckets -> Nat] /\ c["available"] = a /\ c["subSuspense"] = b
      /\ \A z \in Buckets \ {"available", "subSuspense"} : c[z] = cash[z]
  BY <1>1 DEF SuspenseTrue, SetBuckets
<1>3. QED
  BY <1>1, <1>2 DEF FreeSub

(* What the events of a subscription do to the books.                      *)
LEMMA SubscriptionAdds ==
  ASSUME NEW e, EventTrue(e), e.req \in Subs
  PROVE  /\ CashOf(e) = CapitalOf(e) + SubSuspenseOf(e) + RedSuspenseOf(e)
         /\ RedSuspenseOf(e) = 0 /\ PendingOf(e) = 0
         /\ e.kind = "SUBSCRIPTION_RECEIVED" =>
              /\ CapitalOf(e) = 0 /\ SubSuspenseOf(e) = e.amount
              /\ IssuedOf(e) = 0 /\ PayableOf(e) = e.amount
         /\ e.kind = "SUBSCRIPTION_SETTLED" =>
              /\ CapitalOf(e) = e.amount
              /\ SubSuspenseOf(e) = 0 - e.amount - e.side
              /\ IssuedOf(e) = e.quanta
         /\ e.kind = "SUBSCRIPTION_CANCELLED" =>
              /\ CapitalOf(e) = 0 /\ SubSuspenseOf(e) = 0 - e.side
              /\ IssuedOf(e) = 0
<1> USE DEF CashOf, CapitalOf, SubSuspenseOf, RedSuspenseOf, IssuedOf, PendingOf,
        PayableOf, Adds
<1>1. /\ e.kind \in SubEvents
      /\ e.amount \in Nat /\ e.side \in Nat /\ e.quanta \in Nat
  BY FiniteRequests, CapitalAssumption DEF EventTrue
<1>2. CASE e.kind = "SUBSCRIPTION_RECEIVED"
  BY <1>1, <1>2
<1>3. CASE e.kind = "SUBSCRIPTION_SETTLED"
  BY <1>1, <1>3
<1>4. CASE e.kind = "SUBSCRIPTION_CANCELLED"
  BY <1>1, <1>4
<1>5. QED
  BY <1>1, <1>2, <1>3, <1>4 DEF SubEvents

LEMMA SubRowsSet ==
  ASSUME RowsTrue, NEW s \in Subs, flow' \in [Requests -> FlowRow],
         payable' \in [Requests -> Nat],
         \A q \in Requests : q # s => flow'[q] = flow[q] /\ payable'[q] = payable[q],
         \/ flow'[s].state = "RECEIVED" /\ payable'[s] = flow'[s].cents
         \/ flow'[s].state \in {"SETTLED", "CANCELLED"} /\ payable'[s] = 0
  PROVE  RowsTrue'
<1>1. \A q \in Subs : SubRow(q)'
  BY DEF RowsTrue, SubRow, Requests
<1>2. \A q \in Reds : RedRow(q)'
  BY FiniteRequests DEF RowsTrue, RedRow, Requests
<1>3. \A q \in Requests : flow'[q].state = "PRICED" => flow'[q].uPre > 0
  BY DEF RowsTrue
<1>4. QED
  BY <1>1, <1>2, <1>3 DEF RowsTrue

LEMMA StepRequestSubscription ==
  ASSUME LedgerInv, PriceInv', NEW s \in Subs, RequestSubscription(s)
  PROVE  LedgerInv'
<1> USE DEF LedgerInv
<1>1. PICK a \in Amounts :
       /\ SetRow(s, "RECEIVED", a, 0, 0, 0, 0)
       /\ payable' = [payable EXCEPT ![s] = a]
       /\ cash' = [cash EXCEPT !.subSuspense = @ + a]
       /\ Record("SUBSCRIPTION_RECEIVED", s, a, 0, 0)
  BY DEF RequestSubscription
<1>2. s \in Requests /\ a \in Nat /\ "RECEIVED" \in FlowState
  BY CapitalAssumption DEF Requests, FlowState
<1>3. flow[s].state = "NONE" /\ payable[s] = 0
  BY DEF RequestSubscription, RowsTrue, SubRow
<1>4. /\ flow' \in [Requests -> FlowRow]
      /\ flow'[s].state = "RECEIVED" /\ flow'[s].cents = a
      /\ \A q \in Requests : q # s => flow'[q] = flow[q]
  BY <1>1, <1>2, RowTyped
<1>5. /\ payable' \in [Requests -> Nat] /\ payable'[s] = a
      /\ \A q \in Requests : q # s => payable'[q] = payable[q]
      /\ SumFunctionOnSet(payable', Subs) = SumFunctionOnSet(payable, Subs) - 0 + a
      /\ SumFunctionOnSet(payable', Reds) = SumFunctionOnSet(payable, Reds)
  BY <1>1, <1>2, <1>3, PayableSet
<1>6. PICK e : /\ e = [kind |-> "SUBSCRIPTION_RECEIVED", req |-> s, amount |-> a,
                       side |-> 0, quanta |-> 0]
               /\ flows' = flows \cup {e}
  BY <1>1 DEF Record
<1>7. /\ e.kind = "SUBSCRIPTION_RECEIVED" /\ e.req = s
      /\ e.amount = a /\ e.side = 0 /\ e.quanta = 0
  BY <1>6
<1>8. Logged(e)
  <2>1. EventTrue(e)
    BY <1>2, <1>7 DEF EventTrue, SubEvents
  <2>2. e \notin flows
    BY <1>3, <1>7 DEF EventsTrue, OnFile
  <2>3. QED
    BY <1>6, <2>1, <2>2 DEF Logged
<1>9. PICK c : cash' = c /\ c = [cash EXCEPT !.subSuspense = @ + a]
  BY <1>1
<1>10. /\ c \in [Buckets -> Nat] /\ c.subSuspense = cash.subSuspense + a
       /\ c.available = cash.available /\ c.restricted = cash.restricted
       /\ c.redSuspense = cash.redSuspense
  BY <1>2, <1>9, CashTyped DEF SuspenseTrue, Buckets
<1>11. EventsTrue'
  BY <1>2, <1>3, <1>4, <1>7, <1>8, EventsLogged DEF Open
<1>12. RowsTrue'
  BY <1>4, <1>5, SubRowsSet
<1>13. SuspenseTrue'
  <2>1. SumFunctionOnSet(payable, Subs) - 0 + a = cash.subSuspense + a
    BY <1>2, CashTyped DEF SuspenseTrue
  <2>2. QED
    BY <1>5, <1>9, <1>10, <2>1 DEF SuspenseTrue
<1>14. UNCHANGED <<units, tradeCash, lifecycle, epoch, observed, reserve, book>>
  BY DEF RequestSubscription, book
<1>15. UnitsTrue' /\ RiskTrue'
  BY <1>14, RiskKept DEF UnitsTrue, RequestSubscription
<1>16. BooksTrue'
  <2>1. /\ CashOf(e) = CapitalOf(e) + SubSuspenseOf(e) + RedSuspenseOf(e)
        /\ RedSuspenseOf(e) = 0 /\ PendingOf(e) = 0 /\ CapitalOf(e) = 0
        /\ SubSuspenseOf(e) = a /\ IssuedOf(e) = 0 /\ PayableOf(e) = a
    BY <1>7, <1>8, SubscriptionAdds DEF Logged
  <2>2. ReplayedPayable(s)' = ReplayedPayable(s) + a
    BY <1>3, <1>7, <1>8, <2>1, PayableOpen DEF EventsTrue
  <2>3. ReplayedPayable(s) = 0
    BY <1>2, <1>3 DEF BooksTrue
  <2>4. payable'[s] = ReplayedPayable(s)'
    BY <1>2, <1>5, <2>2, <2>3
  <2>5. \A q \in Requests : payable'[q] = ReplayedPayable(q)'
    BY <1>2, <1>5, <1>7, <1>8, <2>4, PayablesLogged
  <2>6. /\ c.available + c.restricted
             = cash.available + cash.restricted + CapitalOf(e)
        /\ c.subSuspense = cash.subSuspense + SubSuspenseOf(e)
        /\ c.redSuspense = cash.redSuspense + RedSuspenseOf(e)
        /\ units.issued = units.issued + IssuedOf(e)
        /\ units.pending = units.pending + PendingOf(e)
    BY <1>10, <2>1, CashTyped, UnitsTyped
  <2>7. /\ units.issued \in Nat /\ units.pending \in Nat
        /\ units'.issued = units.issued /\ units'.pending = units.pending
    BY <1>14, UnitsTyped
  <2>8. QED
    BY <1>8, <1>9, <1>10, <1>14, <2>1, <2>5, <2>6, <2>7, BooksLogged
<1>17. lifecycle' \in Lifecycle /\ cash'.restricted = cash.restricted
  BY <1>9, <1>10, <1>14 DEF ClockTrue
<1>18. QED
  BY <1>8, <1>11, <1>12, <1>13, <1>14, <1>15, <1>16, <1>17, FlowStep

LEMMA StepCancelSubscription ==
  ASSUME LedgerInv, PriceInv', NEW s \in Subs, CancelSubscription(s)
  PROVE  LedgerInv'
<1> USE DEF LedgerInv
<1>1. s \in Requests /\ "CANCELLED" \in FlowState /\ SetState(s, "CANCELLED")
  BY DEF Requests, FlowState, CancelSubscription
<1>2. PICK k : k = flow[s].cents
  OBVIOUS
<1>3. /\ flow[s].state \in {"RECEIVED", "PRICED"} /\ payable[s] = k /\ k \in Nat
      /\ k <= cash.subSuspense
  BY <1>1, <1>2, PayableInSuspense DEF CancelSubscription, RowsTrue, SubRow
<1>4. /\ flow' \in [Requests -> FlowRow] /\ flow'[s].state = "CANCELLED"
      /\ \A q \in Requests : q # s => flow'[q] = flow[q]
  BY <1>1, StateTyped
<1>5. /\ payable' \in [Requests -> Nat] /\ payable'[s] = 0
      /\ \A q \in Requests : q # s => payable'[q] = payable[q]
      /\ SumFunctionOnSet(payable', Subs) = SumFunctionOnSet(payable, Subs) - k + 0
      /\ SumFunctionOnSet(payable', Reds) = SumFunctionOnSet(payable, Reds)
  <2>1. payable' = [payable EXCEPT ![s] = 0] /\ 0 \in Nat
    BY DEF CancelSubscription
  <2>2. QED
    BY <1>1, <1>3, <2>1, PayableSet
<1>6. PICK e : /\ e = [kind |-> "SUBSCRIPTION_CANCELLED", req |-> s, amount |-> k,
                       side |-> k, quanta |-> 0]
               /\ flows' = flows \cup {e}
  BY <1>2 DEF CancelSubscription, Record
<1>7. /\ e.kind = "SUBSCRIPTION_CANCELLED" /\ e.req = s
      /\ e.amount = k /\ e.side = k /\ e.quanta = 0
  BY <1>6
<1>8. Logged(e)
  <2>1. EventTrue(e)
    BY <1>3, <1>7 DEF EventTrue, SubEvents
  <2>2. e \notin flows
    BY <1>3, <1>7 DEF EventsTrue, OnFile
  <2>3. QED
    BY <1>6, <2>1, <2>2 DEF Logged
<1>9. PICK c : cash' = c /\ c = [cash EXCEPT !.subSuspense = @ - k]
  BY <1>2 DEF CancelSubscription
<1>10. PICK b \in Nat : b = cash.subSuspense - k
  BY <1>3, CashTyped
<1>11. /\ c \in [Buckets -> Nat] /\ c.subSuspense = b
       /\ c.available = cash.available /\ c.restricted = cash.restricted
       /\ c.redSuspense = cash.redSuspense
  BY <1>9, <1>10 DEF SuspenseTrue, Buckets
<1>12. EventsTrue'
  BY <1>1, <1>4, <1>7, <1>8, EventsLogged DEF Open
<1>13. RowsTrue'
  BY <1>4, <1>5, SubRowsSet
<1>14. SuspenseTrue'
  <2>1. SumFunctionOnSet(payable, Subs) - k + 0 = b
    BY <1>3, <1>10, CashTyped DEF SuspenseTrue
  <2>2. QED
    BY <1>5, <1>9, <1>11, <2>1 DEF SuspenseTrue
<1>15. UNCHANGED <<units, tradeCash, lifecycle, epoch, observed, reserve, book>>
  BY DEF CancelSubscription, book
<1>16. UnitsTrue' /\ RiskTrue'
  BY <1>15, RiskKept DEF UnitsTrue, CancelSubscription
<1>17. BooksTrue'
  <2>1. /\ CashOf(e) = CapitalOf(e) + SubSuspenseOf(e) + RedSuspenseOf(e)
        /\ RedSuspenseOf(e) = 0 /\ PendingOf(e) = 0 /\ CapitalOf(e) = 0
        /\ SubSuspenseOf(e) = 0 - k /\ IssuedOf(e) = 0
    BY <1>7, <1>8, SubscriptionAdds DEF Logged
  <2>2. payable'[s] = ReplayedPayable(s)'
    BY <1>5, <1>7, <1>8, PayableClosed
  <2>3. \A q \in Requests : payable'[q] = ReplayedPayable(q)'
    BY <1>1, <1>5, <1>7, <1>8, <2>2, PayablesLogged
  <2>4. /\ c.available + c.restricted
             = cash.available + cash.restricted + CapitalOf(e)
        /\ c.subSuspense = cash.subSuspense + SubSuspenseOf(e)
        /\ c.redSuspense = cash.redSuspense + RedSuspenseOf(e)
        /\ units.issued = units.issued + IssuedOf(e)
        /\ units.pending = units.pending + PendingOf(e)
    BY <1>3, <1>10, <1>11, <2>1, CashTyped, UnitsTyped
  <2>5. /\ units.issued \in Nat /\ units.pending \in Nat
        /\ units'.issued = units.issued /\ units'.pending = units.pending
    BY <1>15, UnitsTyped
  <2>6. QED
    BY <1>8, <1>9, <1>11, <1>15, <2>1, <2>3, <2>4, <2>5, BooksLogged
<1>18. lifecycle' \in Lifecycle /\ cash'.restricted = cash.restricted
  BY <1>9, <1>11, <1>15 DEF ClockTrue
<1>19. QED
  BY <1>8, <1>12, <1>13, <1>14, <1>15, <1>16, <1>17, <1>18, FlowStep

(* The price a settlement uses is that of a portfolio with live units.     *)
LEMMA LivePrice ==
  ASSUME LedgerInv, NEW r \in Requests, Usable(r)
  PROVE  /\ PriceOf(r)[1] = Equity /\ PriceOf(r)[2] = LiveUnits
         /\ Equity \in Nat /\ LiveUnits \in Nat \ {0}
<1> USE DEF LedgerInv
<1>1. PriceOf(r) = <<Equity, LiveUnits>>
  BY UsablePrice
<1>2. Equity \in Nat /\ LiveUnits \in Nat
  BY EquityIsWealth, UnitsTyped
<1>3. CASE flow[r].state = "PRICED"
  <2>1. flow[r].uPre > 0 /\ flow[r].uPre = LiveUnits
    BY <1>3 DEF RowsTrue, PriceInv, FreshPrice, Usable
  <2>2. QED
    BY <1>1, <1>2, <2>1
<1>4. CASE flow[r].state # "PRICED"
  BY <1>1, <1>2, <1>4 DEF Usable, Priceable
<1>5. QED
  BY <1>3, <1>4

(* Units bought with whole cents cost no more than was paid.               *)
LEMMA Conversion ==
  ASSUME NEW paid \in Nat, NEW v \in Nat \ {0}, NEW u \in Nat \ {0},
         NEW n, n = (paid * u) \div v, NEW k, k = RoundHalfEven(n * v, u)
  PROVE  /\ n \in Nat /\ k \in Nat /\ k <= paid
         /\ 2 * (u * k - n * v) <= u /\ 2 * (n * v - u * k) <= u
<1>1. paid * u \in Nat /\ paid * u = u * paid
  OBVIOUS
<1>2. n \in Nat /\ v * n <= paid * u
  BY <1>1, FloorBelow
<1>3. n * v \in Nat /\ n * v = v * n
  BY <1>2
<1>4. PICK m : m = n * v
  OBVIOUS
<1>5. m \in Nat /\ m <= u * paid
  BY <1>1, <1>2, <1>3, <1>4
<1>6. /\ k \in Nat /\ k <= paid
      /\ 2 * (u * k - m) <= u /\ 2 * (m - u * k) <= u
  BY <1>4, <1>5, RoundNear, RoundBelow
<1>7. QED
  BY <1>2, <1>4, <1>6

(* What a subscription settles to: n units for k of the cents it paid.     *)
Issues(s, n, k) ==
  LET paid == flow[s].cents IN
  /\ n \in Nat \ {0} /\ k \in Nat /\ k <= paid
  /\ 2 * (LiveUnits * k - n * Equity) <= LiveUnits
  /\ 2 * (n * Equity - LiveUnits * k) <= LiveUnits
  /\ cash' = [cash EXCEPT !.available = @ + k, !.subSuspense = @ - paid]
  /\ units' = [units EXCEPT !.issued = @ + n]
  /\ Revalue(EquityOf(cash', position, marks, payable'), k)
  /\ Settled(s, paid, Equity, LiveUnits)
  /\ Record("SUBSCRIPTION_SETTLED", s, k, paid - k, n)

LEMMA SubscriptionTerms ==
  ASSUME LedgerInv, NEW s \in Subs, SettleSubscription(s)
  PROVE  \E n, k : Issues(s, n, k)
<1> DEFINE paid == flow[s].cents
           v == PriceOf(s)[1]
           u == PriceOf(s)[2]
           issued == (paid * u) \div v
           consumed == RoundHalfEven(issued * v, u)
<1>1. s \in Requests /\ Usable(s)
  BY DEF Requests, SettleSubscription
<1>2. v = Equity /\ u = LiveUnits /\ Equity \in Nat /\ LiveUnits \in Nat \ {0}
  BY <1>1, LivePrice
<1>3. paid \in Nat
  BY <1>1, RowFields DEF LedgerInv
<1>4. v # 0 /\ issued > 0
  BY DEF SettleSubscription
<1>5. v \in Nat \ {0} /\ u \in Nat \ {0}
  BY <1>2, <1>4
<1>6. PICK n : n = issued
  OBVIOUS
<1>7. PICK k : k = consumed
  OBVIOUS
<1>8. n > 0 /\ k = RoundHalfEven(n * v, u) /\ n = (paid * u) \div v
  BY <1>4, <1>6, <1>7
<1>9. /\ cash' = [cash EXCEPT !.available = @ + k, !.subSuspense = @ - paid]
      /\ units' = [units EXCEPT !.issued = @ + n]
      /\ Revalue(EquityOf(cash', position, marks, payable'), k)
      /\ Settled(s, paid, v, u)
      /\ Record("SUBSCRIPTION_SETTLED", s, k, paid - k, n)
  BY <1>6, <1>7 DEF SettleSubscription
<1> HIDE DEF paid, v, u
<1>10. /\ n \in Nat /\ k \in Nat /\ k <= paid
       /\ 2 * (u * k - n * v) <= u /\ 2 * (n * v - u * k) <= u
  BY <1>3, <1>5, <1>8, Conversion
<1>11. n \in Nat \ {0}
  BY <1>8, <1>10
<1>12. QED
  BY <1>2, <1>9, <1>10, <1>11 DEF Issues, paid

LEMMA SettledTyped ==
  ASSUME RowsTrue, NEW r \in Requests, NEW c \in Nat, NEW v \in Nat, NEW u \in Nat,
         Settled(r, c, v, u)
  PROVE  /\ flow' \in [Requests -> FlowRow] /\ flow'[r].state = "SETTLED"
         /\ \A q \in Requests : q # r => flow'[q] = flow[q]
<1>1. "SETTLED" \in FlowState
  BY DEF FlowState
<1>2. QED
  BY <1>1, RowFields, RowTyped DEF Settled

LEMMA StepSettleSubscription ==
  ASSUME LedgerInv, PriceInv', NEW s \in Subs, SettleSubscription(s)
  PROVE  LedgerInv'
<1> USE DEF LedgerInv
<1>1. PICK n, k : Issues(s, n, k)
  BY SubscriptionTerms
<1>2. PICK paid : paid = flow[s].cents
  OBVIOUS
<1>3. /\ n \in Nat \ {0} /\ k \in Nat /\ k <= paid
      /\ cash' = [cash EXCEPT !.available = @ + k, !.subSuspense = @ - paid]
      /\ units' = [units EXCEPT !.issued = @ + n]
      /\ Revalue(EquityOf(cash', position, marks, payable'), k)
      /\ Settled(s, paid, Equity, LiveUnits)
      /\ Record("SUBSCRIPTION_SETTLED", s, k, paid - k, n)
  BY <1>1, <1>2 DEF Issues
<1>4. s \in Requests
  BY DEF Requests
<1>5. /\ flow[s].state \in {"RECEIVED", "PRICED"} /\ payable[s] = paid
      /\ paid \in Nat /\ paid <= cash.subSuspense
  BY <1>2, <1>4, PayableInSuspense DEF SettleSubscription, RowsTrue, SubRow
<1>6. /\ flow' \in [Requests -> FlowRow] /\ flow'[s].state = "SETTLED"
      /\ \A q \in Requests : q # s => flow'[q] = flow[q]
  BY <1>3, <1>4, <1>5, SettledTyped, EquityIsWealth, UnitsTyped
<1>7. /\ payable' \in [Requests -> Nat] /\ payable'[s] = 0
      /\ \A q \in Requests : q # s => payable'[q] = payable[q]
      /\ SumFunctionOnSet(payable', Subs) = SumFunctionOnSet(payable, Subs) - paid + 0
      /\ SumFunctionOnSet(payable', Reds) = SumFunctionOnSet(payable, Reds)
  <2>1. payable' = [payable EXCEPT ![s] = 0] /\ 0 \in Nat
    BY DEF SettleSubscription
  <2>2. QED
    BY <1>4, <1>5, <2>1, PayableSet
<1>8. PICK e : /\ e = [kind |-> "SUBSCRIPTION_SETTLED", req |-> s, amount |-> k,
                       side |-> paid - k, quanta |-> n]
               /\ flows' = flows \cup {e}
  BY <1>3 DEF Record
<1>9. PICK rest \in Nat : rest = paid - k
  BY <1>3, <1>5
<1>10. /\ e.kind = "SUBSCRIPTION_SETTLED" /\ e.req = s
       /\ e.amount = k /\ e.side = rest /\ e.quanta = n
  BY <1>8, <1>9
<1>11. Logged(e)
  <2>1. EventTrue(e)
    BY <1>3, <1>10 DEF EventTrue, SubEvents
  <2>2. e \notin flows
    BY <1>5, <1>10 DEF EventsTrue, OnFile
  <2>3. QED
    BY <1>8, <2>1, <2>2 DEF Logged
<1>12. PICK c : /\ cash' = c
                /\ c = [cash EXCEPT !.available = @ + k, !.subSuspense = @ - paid]
  BY <1>3
<1>13. PICK a \in Nat : a = cash.available + k
  BY <1>3, CashTyped
<1>14. PICK b \in Nat : b = cash.subSuspense - paid
  BY <1>5, CashTyped
<1>15. /\ c \in [Buckets -> Nat] /\ c.available = a /\ c.subSuspense = b
       /\ c.restricted = cash.restricted /\ c.redSuspense = cash.redSuspense
  <2>1. c = SetBuckets("available", a, "subSuspense", b)
    BY <1>12, <1>13, <1>14 DEF SuspenseTrue, Buckets, SetBuckets
  <2>2. SuspenseTrue /\ a \in Nat /\ b \in Nat
    OBVIOUS
  <2>3. FreeSub(c, a, b)
    BY <2>1, <2>2, FreeAndSub
  <2>4. QED
    BY <2>3 DEF FreeSub
<1>16. EventsTrue'
  BY <1>4, <1>6, <1>10, <1>11, EventsLogged DEF Open
<1>17. RowsTrue'
  BY <1>6, <1>7, SubRowsSet
<1>18. SuspenseTrue'
  <2>1. SumFunctionOnSet(payable, Subs) - paid + 0 = b
    BY <1>5, <1>14, CashTyped DEF SuspenseTrue
  <2>2. QED
    BY <1>7, <1>12, <1>15, <2>1 DEF SuspenseTrue
<1>19. UNCHANGED <<tradeCash, lifecycle, epoch, observed, reserve, book, position, marks>>
  BY DEF SettleSubscription, book
<1>20. PICK i \in Nat : i = units.issued + n
  BY <1>3, UnitsTyped
<1>21. units'.issued = i /\ units'.pending = units.pending /\ UnitsTrue'
  <2>1. units' = [issued |-> i, pending |-> units.pending]
    BY <1>3, <1>20 DEF UnitsTrue
  <2>2. units.pending <= i
    BY <1>3, <1>20, UnitsTyped
  <2>3. QED
    BY <2>1, <2>2, UnitsTyped DEF UnitsTrue
<1>22. RiskTrue'
  <2>1. BookTrue'
    BY <1>19, BookKept
  <2>2. k \in Int
    BY <1>3
  <2>3. QED
    BY <1>3, <1>17, <1>18, <1>19, <2>1, <2>2, RevaluedFlow
<1>23. BooksTrue'
  <2>1. /\ CashOf(e) = CapitalOf(e) + SubSuspenseOf(e) + RedSuspenseOf(e)
        /\ RedSuspenseOf(e) = 0 /\ PendingOf(e) = 0 /\ CapitalOf(e) = k
        /\ SubSuspenseOf(e) = 0 - k - rest /\ IssuedOf(e) = n
    BY <1>10, <1>11, SubscriptionAdds DEF Logged
  <2>2. payable'[s] = ReplayedPayable(s)'
    BY <1>7, <1>10, <1>11, PayableClosed
  <2>3. \A q \in Requests : payable'[q] = ReplayedPayable(q)'
    BY <1>4, <1>7, <1>10, <1>11, <2>2, PayablesLogged
  <2>4. /\ c.available + c.restricted
             = cash.available + cash.restricted + CapitalOf(e)
        /\ c.subSuspense = cash.subSuspense + SubSuspenseOf(e)
        /\ c.redSuspense = cash.redSuspense + RedSuspenseOf(e)
        /\ i = units.issued + IssuedOf(e)
        /\ units.pending = units.pending + PendingOf(e)
    BY <1>3, <1>5, <1>9, <1>13, <1>14, <1>15, <1>20, <2>1, CashTyped, UnitsTyped
  <2>5. units.pending \in Nat
    BY UnitsTyped
  <2>6. QED
    BY <1>11, <1>12, <1>15, <1>19, <1>21, <2>1, <2>3, <2>4, <2>5, BooksLogged
<1>24. lifecycle' \in Lifecycle /\ cash'.restricted = cash.restricted
  BY <1>12, <1>15, <1>19 DEF ClockTrue
<1>25. QED
  BY <1>11, <1>16, <1>17, <1>18, <1>19, <1>21, <1>22, <1>23, <1>24, FlowStep

-----------------------------------------------------------------------------
(* Redemptions: the whole payout is set aside when the payable is          *)
(* confirmed, also for the last units, whose payout is the whole equity.   *)

Redeems(r, q, p) ==
  /\ q \in Nat /\ p \in Nat /\ p <= cash.available /\ q <= LiveUnits
  /\ 2 * (LiveUnits * p - q * Equity) <= LiveUnits
  /\ 2 * (q * Equity - LiveUnits * p) <= LiveUnits
  /\ cash' = [cash EXCEPT !.available = @ - p, !.redSuspense = @ + p]
  /\ payable' = [payable EXCEPT ![r] = p]
  /\ IF q = LiveUnits THEN /\ units' = [units EXCEPT !.pending = @ + q]
                           /\ lifecycle' = "TERMINATING"
                      ELSE /\ units' = [units EXCEPT !.issued = @ - q]
                           /\ UNCHANGED lifecycle
  /\ Revalue(EquityOf(cash', position, marks, payable'), 0)
  /\ Settled(r, p, Equity, LiveUnits)
  /\ Record(IF q = LiveUnits THEN "REDEEMED_FULL" ELSE "REDEEMED_PART", r, p, p, q)

LEMMA RedemptionTerms ==
  ASSUME LedgerInv, NEW r \in Reds, SettleRedemption(r)
  PROVE  \E p : Redeems(r, flow[r].quanta, p)
<1> DEFINE v == PriceOf(r)[1]
           u == PriceOf(r)[2]
           payout == RoundHalfEven(flow[r].quanta * v, u)
           full == flow[r].quanta = u
<1>1. r \in Requests /\ Usable(r)
  BY DEF Requests, SettleRedemption
<1>2. v = Equity /\ u = LiveUnits /\ Equity \in Nat /\ LiveUnits \in Nat \ {0}
  BY <1>1, LivePrice
<1>3. PICK q \in Nat : q = flow[r].quanta
  BY <1>1, RowFields DEF LedgerInv
<1>4. PICK p : p = payout
  OBVIOUS
<1>5. /\ q <= u
      /\ IF full THEN OpenLots(position) = {} /\ cash.restricted = 0
                 ELSE cash.available >= p
  BY <1>3, <1>4 DEF SettleRedemption
<1>6. /\ cash' = [cash EXCEPT !.available = @ - SetAside(full, p),
                              !.redSuspense = @ + SetAside(full, p)]
      /\ payable' = [payable EXCEPT ![r] = p]
      /\ IF full THEN /\ units' = [units EXCEPT !.pending = @ + q]
                      /\ lifecycle' = "TERMINATING"
                 ELSE /\ units' = [units EXCEPT !.issued = @ - q]
                      /\ UNCHANGED lifecycle
      /\ Revalue(EquityOf(cash', position, marks, payable'), 0)
      /\ Settled(r, p, v, u)
      /\ Record(IF full THEN "REDEEMED_FULL" ELSE "REDEEMED_PART",
                r, p, SetAside(full, p), q)
  BY <1>3, <1>4 DEF SettleRedemption
<1>7. full <=> q = u
  BY <1>3
<1>8. p = RoundHalfEven(q * v, u)
  BY <1>3, <1>4
<1> HIDE DEF v, u, full, payout
<1>9. PICK m \in Nat : m = q * v
  BY <1>2
<1>10. /\ p \in Nat
       /\ 2 * (u * p - q * v) <= u /\ 2 * (q * v - u * p) <= u
  BY <1>2, <1>8, <1>9, RoundNear
<1>11. full => p = v /\ cash.available = v
  <2> SUFFICES ASSUME full PROVE p = v /\ cash.available = v
    OBVIOUS
  <2>1. p = v
    BY <1>2, <1>7, <1>8, RoundExact
  <2>2. Gross = 0 /\ cash.restricted = 0
    BY <1>5, NoGross
  <2>3. Equity = cash.available + cash.restricted + Gross
    BY EquityIsWealth DEF LedgerInv, Wealth
  <2>4. QED
    BY <1>2, <2>1, <2>2, <2>3, CashTyped DEF LedgerInv
<1>12. cash.available \in Nat
  BY CashTyped DEF LedgerInv
<1>13. p <= cash.available
  BY <1>2, <1>5, <1>10, <1>11, <1>12
<1>14. SetAside(full, p) = p
  BY <1>10, <1>12, <1>13, MinPair DEF SetAside
<1>15. QED
  BY <1>2, <1>3, <1>5, <1>6, <1>7, <1>10, <1>13, <1>14 DEF Redeems

(* Cash as a redemption leaves it.                                         *)
FreeRed(c, a, b) ==
  /\ c \in [Buckets -> Nat] /\ c.available = a /\ c.redSuspense = b
  /\ c.restricted = cash.restricted /\ c.subSuspense = cash.subSuspense

LEMMA FreeAndRed ==
  ASSUME SuspenseTrue, NEW a \in Nat, NEW b \in Nat,
         NEW c, c = SetBuckets("available", a, "redSuspense", b)
  PROVE  FreeRed(c, a, b)
<1>1. /\ "available" \in Buckets /\ "redSuspense" \in Buckets
      /\ "available" # "redSuspense"
      /\ "restricted" \in Buckets \ {"available", "redSuspense"}
      /\ "subSuspense" \in Buckets \ {"available", "redSuspense"}
  BY DEF Buckets
<1>2. /\ c \in [Buckets -> Nat] /\ c["available"] = a /\ c["redSuspense"] = b
      /\ \A z \in Buckets \ {"available", "redSuspense"} : c[z] = cash[z]
  BY <1>1 DEF SuspenseTrue, SetBuckets
<1>3. QED
  BY <1>1, <1>2 DEF FreeRed

LEMMA RedemptionAdds ==
  ASSUME NEW e, EventTrue(e), e.req \in Reds
  PROVE  /\ e.kind \in {"REDEEMED_PART", "REDEEMED_FULL"} =>
              /\ CashOf(e) = 0 /\ CapitalOf(e) = 0 - e.amount
              /\ SubSuspenseOf(e) = 0 /\ RedSuspenseOf(e) = e.side
              /\ PayableOf(e) = e.amount
         /\ e.kind = "REDEEMED_PART" => IssuedOf(e) = 0 - e.quanta /\ PendingOf(e) = 0
         /\ e.kind = "REDEEMED_FULL" => IssuedOf(e) = 0 /\ PendingOf(e) = e.quanta
         /\ e.kind = "REDEMPTION_PAID" =>
              /\ CashOf(e) = 0 - e.amount /\ CapitalOf(e) = 0
              /\ SubSuspenseOf(e) = 0 /\ RedSuspenseOf(e) = 0 - e.amount
              /\ PayableOf(e) = 0 - e.amount
              /\ IssuedOf(e) = 0 - e.quanta /\ PendingOf(e) = 0 - e.quanta
<1> USE DEF CashOf, CapitalOf, SubSuspenseOf, RedSuspenseOf, IssuedOf, PendingOf,
        PayableOf, Adds
<1>1. e.amount \in Nat /\ e.side \in Nat /\ e.quanta \in Nat
  BY DEF EventTrue
<1>2. CASE e.kind = "REDEEMED_PART"
  BY <1>1, <1>2
<1>3. CASE e.kind = "REDEEMED_FULL"
  BY <1>1, <1>3
<1>4. CASE e.kind = "REDEMPTION_PAID"
  BY <1>1, <1>4
<1>5. QED
  BY <1>2, <1>3, <1>4

LEMMA RedRowsSet ==
  ASSUME RowsTrue, NEW r \in Reds, flow' \in [Requests -> FlowRow],
         payable' \in [Requests -> Nat],
         \A q \in Requests : q # r => flow'[q] = flow[q] /\ payable'[q] = payable[q],
         \/ flow'[r].state = "SETTLED"
         \/ flow'[r].state = "PAID" /\ payable'[r] = 0
  PROVE  RowsTrue'
<1>1. \A q \in Subs : SubRow(q)'
  BY FiniteRequests DEF RowsTrue, SubRow, Requests
<1>2. \A q \in Reds : RedRow(q)'
  BY DEF RowsTrue, RedRow, Requests
<1>3. \A q \in Requests : flow'[q].state = "PRICED" => flow'[q].uPre > 0
  BY DEF RowsTrue
<1>4. QED
  BY <1>1, <1>2, <1>3 DEF RowsTrue

LEMMA StepSettleRedemption ==
  ASSUME LedgerInv, PriceInv', NEW r \in Reds, SettleRedemption(r)
  PROVE  LedgerInv'
<1> USE DEF LedgerInv
<1>1. PICK q, p :
       /\ q \in Nat /\ p \in Nat /\ p <= cash.available /\ q <= LiveUnits
       /\ cash' = [cash EXCEPT !.available = @ - p, !.redSuspense = @ + p]
       /\ payable' = [payable EXCEPT ![r] = p]
       /\ IF q = LiveUnits THEN /\ units' = [units EXCEPT !.pending = @ + q]
                                /\ lifecycle' = "TERMINATING"
                           ELSE /\ units' = [units EXCEPT !.issued = @ - q]
                                /\ UNCHANGED lifecycle
       /\ Revalue(EquityOf(cash', position, marks, payable'), 0)
       /\ Settled(r, p, Equity, LiveUnits)
       /\ Record(IF q = LiveUnits THEN "REDEEMED_FULL" ELSE "REDEEMED_PART",
                 r, p, p, q)
  BY RedemptionTerms DEF Redeems
<1>2. r \in Requests /\ r \notin Subs
  BY FiniteRequests DEF Requests
<1>3. flow[r].state \in {"REQUESTED", "PRICED"} /\ payable[r] = 0
  BY DEF SettleRedemption, RowsTrue, RedRow
<1>4. /\ flow' \in [Requests -> FlowRow] /\ flow'[r].state = "SETTLED"
      /\ \A x \in Requests : x # r => flow'[x] = flow[x]
  BY <1>1, <1>2, SettledTyped, EquityIsWealth, UnitsTyped
<1>5. /\ payable' \in [Requests -> Nat] /\ payable'[r] = p
      /\ \A x \in Requests : x # r => payable'[x] = payable[x]
      /\ SumFunctionOnSet(payable', Reds) = SumFunctionOnSet(payable, Reds) - 0 + p
      /\ SumFunctionOnSet(payable', Subs) = SumFunctionOnSet(payable, Subs)
  BY <1>1, <1>2, <1>3, PayableSet
<1>6. PICK kind \in {"REDEEMED_FULL", "REDEEMED_PART"} :
        kind = IF q = LiveUnits THEN "REDEEMED_FULL" ELSE "REDEEMED_PART"
  OBVIOUS
<1>7. PICK e : /\ e = [kind |-> kind, req |-> r, amount |-> p, side |-> p,
                       quanta |-> q]
               /\ flows' = flows \cup {e}
  BY <1>1, <1>6 DEF Record
<1>8. e.kind = kind /\ e.req = r /\ e.amount = p /\ e.side = p /\ e.quanta = q
  BY <1>7
<1>9. Logged(e)
  <2>1. EventTrue(e)
    BY <1>1, <1>6, <1>8 DEF EventTrue, RedEvents
  <2>2. e \notin flows
    BY <1>3, <1>6, <1>8 DEF EventsTrue, OnFile
  <2>3. QED
    BY <1>7, <2>1, <2>2 DEF Logged
<1>10. PICK c : /\ cash' = c
                /\ c = [cash EXCEPT !.available = @ - p, !.redSuspense = @ + p]
  BY <1>1
<1>11. PICK a \in Nat : a = cash.available - p
  BY <1>1, CashTyped
<1>12. PICK b \in Nat : b = cash.redSuspense + p
  BY <1>1, CashTyped
<1>13. /\ c \in [Buckets -> Nat] /\ c.available = a /\ c.redSuspense = b
       /\ c.restricted = cash.restricted /\ c.subSuspense = cash.subSuspense
  <2>1. c = SetBuckets("available", a, "redSuspense", b)
    BY <1>10, <1>11, <1>12 DEF SuspenseTrue, Buckets, SetBuckets
  <2>2. SuspenseTrue
    OBVIOUS
  <2>3. a \in Nat /\ b \in Nat
    OBVIOUS
  <2>4. FreeRed(c, a, b)
    BY <2>1, <2>2, <2>3, FreeAndRed
  <2>5. QED
    BY <2>4 DEF FreeRed
<1>14. EventsTrue'
  <2>1. flow'[r].state \notin Open(r)
    BY <1>4 DEF Open
  <2>2. QED
    BY <1>2, <1>4, <1>8, <1>9, <2>1, EventsLogged
<1>15. RowsTrue'
  BY <1>4, <1>5, RedRowsSet
<1>16. SuspenseTrue'
  <2>1. SumFunctionOnSet(payable, Reds) - 0 + p = b
    BY <1>1, <1>12, CashTyped DEF SuspenseTrue
  <2>2. QED
    BY <1>5, <1>10, <1>13, <2>1 DEF SuspenseTrue
<1>17. UNCHANGED <<tradeCash, epoch, observed, reserve, book, position, marks>>
  BY DEF SettleRedemption, book
<1>18. RiskTrue'
  <2>1. BookTrue'
    BY <1>17, BookKept
  <2>2. Revalue(EquityOf(cash', position, marks, payable'), 0) /\ 0 \in Int
    BY <1>1
  <2>3. QED
    BY <1>15, <1>16, <1>17, <2>1, <2>2, RevaluedFlow
<1>19. /\ CashOf(e) = 0 /\ CapitalOf(e) = 0 - p
       /\ SubSuspenseOf(e) = 0 /\ RedSuspenseOf(e) = p /\ PayableOf(e) = p
       /\ kind = "REDEEMED_PART" => IssuedOf(e) = 0 - q /\ PendingOf(e) = 0
       /\ kind = "REDEEMED_FULL" => IssuedOf(e) = 0 /\ PendingOf(e) = q
  BY <1>6, <1>8, <1>9, RedemptionAdds DEF Logged
<1>20. PICK i \in Nat, m \in Nat :
         /\ units' = [issued |-> i, pending |-> m] /\ m <= i
         /\ i = units.issued + IssuedOf(e) /\ m = units.pending + PendingOf(e)
  <2>1. LiveUnits = units.issued - units.pending
    BY DEF LiveUnits
  <2>2. CASE q = LiveUnits
    <3>1. PICK m \in Nat : m = units.pending + q
      BY <1>1, UnitsTyped
    <3>2. units' = [issued |-> units.issued, pending |-> m]
      BY <1>1, <2>2, <3>1 DEF UnitsTrue
    <3>3. m <= units.issued
      BY <2>1, <2>2, <3>1, UnitsTyped
    <3>4. units.issued = units.issued + IssuedOf(e) /\ m = units.pending + PendingOf(e)
      BY <1>6, <1>19, <2>2, <3>1, UnitsTyped
    <3>5. QED
      BY <3>2, <3>3, <3>4, UnitsTyped
  <2>3. CASE q # LiveUnits
    <3>1. PICK i \in Nat : i = units.issued - q
      BY <1>1, <2>1, UnitsTyped
    <3>2. units' = [issued |-> i, pending |-> units.pending]
      BY <1>1, <2>3, <3>1 DEF UnitsTrue
    <3>3. units.pending <= i
      BY <1>1, <2>1, <3>1, UnitsTyped
    <3>4. i = units.issued + IssuedOf(e) /\ units.pending = units.pending + PendingOf(e)
      BY <1>1, <1>6, <1>19, <2>3, <3>1, UnitsTyped
    <3>5. QED
      BY <3>2, <3>3, <3>4, UnitsTyped
  <2>4. QED
    BY <2>2, <2>3
<1>21. units'.issued = i /\ units'.pending = m /\ UnitsTrue'
  BY <1>20 DEF UnitsTrue
<1>22. BooksTrue'
  <2>1. ReplayedPayable(r)' = ReplayedPayable(r) + p
    BY <1>6, <1>8, <1>9, <1>19, RedNotClosed, PayableOpen
  <2>2. ReplayedPayable(r) = 0
    BY <1>2, <1>3 DEF BooksTrue
  <2>3. payable'[r] = ReplayedPayable(r)'
    BY <1>1, <1>5, <2>1, <2>2
  <2>4. \A x \in Requests : payable'[x] = ReplayedPayable(x)'
    BY <1>2, <1>5, <1>8, <1>9, <2>3, PayablesLogged
  <2>5. /\ c.available + c.restricted
             = cash.available + cash.restricted + CapitalOf(e)
        /\ c.subSuspense = cash.subSuspense + SubSuspenseOf(e)
        /\ c.redSuspense = cash.redSuspense + RedSuspenseOf(e)
        /\ CashOf(e) = CapitalOf(e) + SubSuspenseOf(e) + RedSuspenseOf(e)
    BY <1>1, <1>11, <1>12, <1>13, <1>19, CashTyped
  <2>6. QED
    BY <1>9, <1>10, <1>13, <1>17, <1>20, <1>21, <2>4, <2>5, BooksLogged
<1>23. lifecycle' \in Lifecycle /\ cash'.restricted = cash.restricted
  BY <1>1, <1>10, <1>13 DEF ClockTrue, Lifecycle
<1>24. QED
  BY <1>9, <1>14, <1>15, <1>16, <1>17, <1>18, <1>21, <1>22, <1>23, FlowStep

(* A payment pays what is due, from the cash set aside for it.             *)
Pays(r, due, burnt) ==
  /\ due = payable[r] /\ due \in Nat \ {0} /\ due <= cash.redSuspense
  /\ burnt \in {0, units.pending}
  /\ cash' = [cash EXCEPT !.redSuspense = @ - due, !.available = @ - (due - due)]
  /\ payable' = [payable EXCEPT ![r] = @ - due]
  /\ SetState(r, "PAID")
  /\ units' = [issued |-> units.issued - burnt, pending |-> units.pending - burnt]
  /\ Revalue(EquityOf(cash', position, marks, payable'), -due)
  /\ Record("REDEMPTION_PAID", r, due, due, burnt)

LEMMA PaymentTerms ==
  ASSUME LedgerInv, NEW r \in Reds, PayRedemption(r)
  PROVE  \E due, burnt : Pays(r, due, burnt)
<1> USE DEF LedgerInv
<1>1. PICK due : due = payable[r]
  OBVIOUS
<1>2. due \in Nat /\ due <= cash.redSuspense
  BY <1>1, PayableInSuspense DEF Requests
<1>3. PICK held : held = cash.available + cash.redSuspense
  OBVIOUS
<1>4. held \in Nat /\ due <= held /\ cash.redSuspense \in Nat
  BY <1>2, <1>3, CashTyped
<1>5. Min({due, held}) = due /\ Min({cash.redSuspense, due}) = due
  BY <1>2, <1>4, MinPair
<1>6. PICK burnt : burnt = IF due = Min({due, held})
                              /\ ~ObligationsRemaining(cash', payable')
                           THEN units.pending ELSE 0
  OBVIOUS
<1>7. /\ due > 0
      /\ cash' = [cash EXCEPT !.redSuspense = @ - due, !.available = @ - (due - due)]
      /\ payable' = [payable EXCEPT ![r] = @ - due]
      /\ SetState(r, "PAID")
      /\ units' = [issued |-> units.issued - burnt, pending |-> units.pending - burnt]
      /\ Revalue(EquityOf(cash', position, marks, payable'), -due)
      /\ Record("REDEMPTION_PAID", r, due, due, burnt)
  BY <1>1, <1>3, <1>5, <1>6 DEF PayRedemption
<1>8. burnt \in {0, units.pending}
  BY <1>6
<1>9. due \in Nat \ {0}
  BY <1>2, <1>7
<1>10. QED
  BY <1>1, <1>2, <1>7, <1>8, <1>9 DEF Pays

LEMMA BucketsSwap ==
  ASSUME SuspenseTrue, NEW a, NEW b
  PROVE  SetBuckets("redSuspense", b, "available", a)
           = SetBuckets("available", a, "redSuspense", b)
  BY DEF SuspenseTrue, SetBuckets, Buckets

LEMMA StepPayRedemption ==
  ASSUME LedgerInv, PriceInv', NEW r \in Reds, PayRedemption(r)
  PROVE  LedgerInv'
<1> USE DEF LedgerInv
<1>1. PICK due, burnt : Pays(r, due, burnt)
  BY PaymentTerms
<1>2. /\ due = payable[r] /\ due \in Nat /\ due <= cash.redSuspense
      /\ burnt \in Nat /\ burnt <= units.pending
  BY <1>1, UnitsTyped DEF Pays
<1>3. r \in Requests /\ r \notin Subs /\ "PAID" \in FlowState
  BY FiniteRequests DEF Requests, FlowState
<1>4. /\ flow' \in [Requests -> FlowRow] /\ flow'[r].state = "PAID"
      /\ \A x \in Requests : x # r => flow'[x] = flow[x]
  BY <1>1, <1>3, StateTyped DEF Pays
<1>5. /\ payable' \in [Requests -> Nat] /\ payable'[r] = 0
      /\ \A x \in Requests : x # r => payable'[x] = payable[x]
      /\ SumFunctionOnSet(payable', Reds) = SumFunctionOnSet(payable, Reds) - due + 0
      /\ SumFunctionOnSet(payable', Subs) = SumFunctionOnSet(payable, Subs)
  <2>1. payable[r] - due = 0
    BY <1>2
  <2>2. payable' = [payable EXCEPT ![r] = 0] /\ 0 \in Nat
    BY <1>1, <2>1 DEF Pays
  <2>3. QED
    BY <1>2, <1>3, <2>2, PayableSet
<1>6. PICK e : /\ e = [kind |-> "REDEMPTION_PAID", req |-> r, amount |-> due,
                       side |-> due, quanta |-> burnt]
               /\ flows' = flows \cup {e}
  BY <1>1 DEF Pays, Record
<1>7. /\ e.kind = "REDEMPTION_PAID" /\ e.req = r
      /\ e.amount = due /\ e.side = due /\ e.quanta = burnt
  BY <1>6
<1>8. Logged(e)
  <2>1. EventTrue(e)
    BY <1>2, <1>7 DEF EventTrue, RedEvents
  <2>2. e \notin flows
    BY <1>7 DEF PayRedemption, OnFile
  <2>3. QED
    BY <1>6, <2>1, <2>2 DEF Logged
<1>9. PICK c : cash' = c /\ c = [cash EXCEPT !.redSuspense = @ - due,
                                             !.available = @ - (due - due)]
  BY <1>1 DEF Pays
<1>10. PICK b \in Nat : b = cash.redSuspense - due
  BY <1>2, CashTyped
<1>11. /\ c \in [Buckets -> Nat] /\ c.available = cash.available /\ c.redSuspense = b
       /\ c.restricted = cash.restricted /\ c.subSuspense = cash.subSuspense
  <2>1. PICK a \in Nat : a = cash.available
    BY CashTyped
  <2>2. a = cash.available - (due - due)
    BY <1>2, <2>1
  <2>3. c = SetBuckets("redSuspense", b, "available", a)
    BY <1>9, <1>10, <2>1, <2>2 DEF SuspenseTrue, Buckets, SetBuckets
  <2>4. SuspenseTrue /\ c = SetBuckets("available", a, "redSuspense", b)
    BY <2>3, BucketsSwap
  <2>5. FreeRed(c, a, b)
    BY <2>1, <2>4, FreeAndRed
  <2>6. QED
    BY <2>1, <2>5 DEF FreeRed
<1>12. EventsTrue'
  <2>1. flow'[r].state \notin Open(r)
    BY <1>4 DEF Open
  <2>2. QED
    BY <1>3, <1>4, <1>7, <1>8, <2>1, EventsLogged
<1>13. RowsTrue'
  BY <1>4, <1>5, RedRowsSet
<1>14. SuspenseTrue'
  <2>1. SumFunctionOnSet(payable, Reds) - due + 0 = b
    BY <1>2, <1>10, CashTyped DEF SuspenseTrue
  <2>2. QED
    BY <1>5, <1>9, <1>11, <2>1 DEF SuspenseTrue
<1>15. UNCHANGED <<tradeCash, epoch, observed, reserve, book, position, marks>>
  BY DEF PayRedemption, book
<1>16. RiskTrue'
  <2>1. BookTrue'
    BY <1>15, BookKept
  <2>2. Revalue(EquityOf(cash', position, marks, payable'), -due) /\ -due \in Int
    BY <1>1, <1>2 DEF Pays
  <2>3. QED
    BY <1>13, <1>14, <1>15, <2>1, <2>2, RevaluedFlow
<1>17. /\ CashOf(e) = 0 - due /\ CapitalOf(e) = 0
       /\ SubSuspenseOf(e) = 0 /\ RedSuspenseOf(e) = 0 - due
       /\ PayableOf(e) = 0 - due
       /\ IssuedOf(e) = 0 - burnt /\ PendingOf(e) = 0 - burnt
  BY <1>7, <1>8, RedemptionAdds DEF Logged
<1>18. PICK i \in Nat : i = units.issued - burnt
  BY <1>2, UnitsTyped
<1>19. PICK m \in Nat : m = units.pending - burnt
  BY <1>2, UnitsTyped
<1>20. units'.issued = i /\ units'.pending = m /\ UnitsTrue'
  <2>1. units' = [issued |-> i, pending |-> m]
    BY <1>1, <1>18, <1>19 DEF Pays
  <2>2. m <= i
    BY <1>2, <1>18, <1>19, UnitsTyped
  <2>3. QED
    BY <2>1, <2>2 DEF UnitsTrue
<1>21. BooksTrue'
  <2>1. ReplayedPayable(r)' = ReplayedPayable(r) - due
    <3>1. ReplayedPayable(r)' = ReplayedPayable(r) + PayableOf(e)
      BY <1>7, <1>8, RedNotClosed, PayableOpen
    <3>2. ReplayedPayable(r) = due
      BY <1>2, <1>3 DEF BooksTrue
    <3>3. due + (0 - due) = due - due
      BY <1>2
    <3>4. QED
      BY <1>17, <3>1, <3>2, <3>3
  <2>2. ReplayedPayable(r) = due /\ due - due = 0
    BY <1>2, <1>3 DEF BooksTrue
  <2>3. payable'[r] = ReplayedPayable(r)'
    BY <1>5, <2>1, <2>2
  <2>4. \A x \in Requests : payable'[x] = ReplayedPayable(x)'
    BY <1>3, <1>5, <1>7, <1>8, <2>3, PayablesLogged
  <2>5. /\ c.available + c.restricted
             = cash.available + cash.restricted + CapitalOf(e)
        /\ c.subSuspense = cash.subSuspense + SubSuspenseOf(e)
        /\ c.redSuspense = cash.redSuspense + RedSuspenseOf(e)
        /\ CashOf(e) = CapitalOf(e) + SubSuspenseOf(e) + RedSuspenseOf(e)
        /\ i = units.issued + IssuedOf(e) /\ m = units.pending + PendingOf(e)
    BY <1>2, <1>10, <1>11, <1>17, <1>18, <1>19, CashTyped, UnitsTyped
  <2>6. QED
    BY <1>8, <1>9, <1>11, <1>15, <1>20, <2>4, <2>5, BooksLogged
<1>22. lifecycle' \in Lifecycle
  BY DEF PayRedemption, ClockTrue, Lifecycle
<1>23. cash'.restricted = cash.restricted
  BY <1>9, <1>11
<1>24. QED
  BY <1>8, <1>12, <1>13, <1>14, <1>15, <1>16, <1>20, <1>21, <1>22, <1>23, FlowStep

-----------------------------------------------------------------------------
(* Genesis, and every step together                                        *)

LEMMA StepGenesis ==
  ASSUME LedgerInv, PriceInv', InitializeGenesis PROVE LedgerInv'
<1> USE DEF LedgerInv
<1>1. /\ flows = {} /\ cash.available = 0 /\ units.issued = 0 /\ units.pending = 0
  BY UnitsTyped DEF InitializeGenesis
<1>2. GenesisCash \in Nat /\ GenesisUnits \in Nat /\ MaxObservations \in Nat
  BY CapitalAssumption
<1>3. PICK e : /\ e = [kind |-> "GENESIS", req |-> NoRequest, amount |-> GenesisCash,
                       side |-> 0, quanta |-> GenesisUnits]
               /\ flows' = flows \cup {e}
  BY DEF InitializeGenesis, Record
<1>4. /\ e.kind = "GENESIS" /\ e.req = NoRequest
      /\ e.amount = GenesisCash /\ e.side = 0 /\ e.quanta = GenesisUnits
  BY <1>3
<1>5. Logged(e)
  BY <1>1, <1>2, <1>3, <1>4 DEF Logged, EventTrue
<1>6. UNCHANGED <<lifecycle, epoch, flow, payable, reserve, position, marks,
                  executed, tradeCash>>
  BY DEF InitializeGenesis, book
<1>7. PICK c : cash' = c /\ c = [cash EXCEPT !.available = GenesisCash]
  BY DEF InitializeGenesis
<1>8. /\ c \in [Buckets -> Nat] /\ c.available = GenesisCash
      /\ c.restricted = cash.restricted /\ c.subSuspense = cash.subSuspense
      /\ c.redSuspense = cash.redSuspense
  BY <1>2, <1>7 DEF SuspenseTrue, Buckets
<1>9. EventsTrue'
  <2>1. IsFiniteSet(flows') /\ \A x \in flows' : EventTrue(x)
    BY <1>5, FS_AddElement DEF EventsTrue, Logged
  <2>2. \A kind, q : kind # "GENESIS" => ~OnFile(kind, q)'
    BY <1>1, <1>4, <1>5 DEF OnFile, Logged
  <2>3. QED
    BY <2>1, <2>2 DEF EventsTrue
<1>10. RowsTrue' /\ BookTrue' /\ SuspenseTrue'
  BY <1>6, <1>7, <1>8, RowsKept, BookKept, SuspenseKept DEF book
<1>11. cash'.restricted = cash.restricted
  BY <1>7, <1>8
<1>12. ReserveTrue'
  BY <1>6, <1>11, ReserveKept
<1>13. units'.issued = GenesisUnits /\ units'.pending = 0 /\ UnitsTrue'
  <2>1. units' = [issued |-> GenesisUnits, pending |-> 0]
    BY <1>1 DEF InitializeGenesis, UnitsTrue
  <2>2. QED
    BY <1>2, <2>1 DEF UnitsTrue
<1>14. RiskTrue'
  BY <1>2, Revalued DEF InitializeGenesis
<1>15. ClockTrue'
  BY <1>1, <1>2, <1>3, <1>6 DEF InitializeGenesis, ClockTrue
<1>16. BooksTrue'
  <2>1. /\ CashOf(e) = GenesisCash /\ CapitalOf(e) = GenesisCash
        /\ SubSuspenseOf(e) = 0 /\ RedSuspenseOf(e) = 0
        /\ IssuedOf(e) = GenesisUnits /\ PendingOf(e) = 0
    BY <1>2, <1>4 DEF CashOf, CapitalOf, SubSuspenseOf, RedSuspenseOf, IssuedOf,
       PendingOf, Adds
  <2>2. \A q \in Requests : payable'[q] = ReplayedPayable(q)'
    <3> TAKE q \in Requests
    <3>1. e.req # q
      BY <1>4, CapitalAssumption DEF Requests
    <3>2. ReplayedPayable(q)' = ReplayedPayable(q)
      BY <1>5, <3>1, PayableElsewhere
    <3>3. QED
      BY <1>6, <3>2 DEF BooksTrue
  <2>3. /\ c.available + c.restricted
             = cash.available + cash.restricted + CapitalOf(e)
        /\ c.subSuspense = cash.subSuspense + SubSuspenseOf(e)
        /\ c.redSuspense = cash.redSuspense + RedSuspenseOf(e)
        /\ CashOf(e) = CapitalOf(e) + SubSuspenseOf(e) + RedSuspenseOf(e)
        /\ GenesisUnits = units.issued + IssuedOf(e)
        /\ 0 = units.pending + PendingOf(e)
    BY <1>1, <1>2, <1>8, <2>1, CashTyped, UnitsTyped
  <2>4. GenesisUnits \in Nat /\ 0 \in Nat
    BY <1>2
  <2>5. QED
    BY <1>5, <1>6, <1>7, <1>8, <1>13, <2>2, <2>3, <2>4, BooksLogged
<1>17. QED
  BY <1>9, <1>10, <1>12, <1>13, <1>14, <1>15, <1>16

LEMMA StepStutter == ASSUME LedgerInv, PriceInv', UNCHANGED vars PROVE LedgerInv'
<1>1. UNCHANGED <<lifecycle, cash, units, nav, hwm, latch, epoch, observed, flow,
                  payable, flows, reserve, position, marks, executed, tradeCash>>
  BY DEF vars
<1>2. PICK c : cash' = c /\ c = cash
  BY <1>1
<1>3. EventsTrue' /\ RowsTrue' /\ BookTrue' /\ ReserveTrue' /\ RiskTrue' /\ ClockTrue' /\ BooksTrue'
  BY <1>1, SameFlow, EventsKept, RowsKept, BookKept, ReserveKept, RiskKept,
     ClockKept, BooksSame DEF LedgerInv, book
<1>4. SuspenseTrue' /\ UnitsTrue'
  BY <1>1 DEF LedgerInv, SuspenseTrue, UnitsTrue
<1>5. QED
  BY <1>3, <1>4 DEF LedgerInv

LEMMA StepLedger == LedgerInv /\ [Next]_vars => LedgerInv'
<1> SUFFICES ASSUME LedgerInv, [Next]_vars PROVE LedgerInv'
  OBVIOUS
<1>1. PriceInv'
  BY StepPrice DEF LedgerInv
<1>2. CASE UNCHANGED vars
  BY <1>1, <1>2, StepStutter
<1>3. CASE InitializeGenesis
  BY <1>1, <1>3, StepGenesis
<1>4. ASSUME NEW s \in Subs, \/ RequestSubscription(s) \/ PriceSubscription(s)
                             \/ SettleSubscription(s) \/ CancelSubscription(s)
      PROVE  LedgerInv'
  BY <1>1, <1>4, StepRequestSubscription, StepPriceSubscription,
     StepSettleSubscription, StepCancelSubscription
<1>5. ASSUME NEW r \in Reds, \/ RequestRedemption(r) \/ PriceRedemption(r)
                             \/ SettleRedemption(r) \/ CancelRedemption(r)
                             \/ PayRedemption(r)
      PROVE  LedgerInv'
  BY <1>1, <1>5, StepRequestRedemption, StepPriceRedemption,
     StepSettleRedemption, StepCancelRedemption, StepPayRedemption
<1>6. CASE \/ CloseValuation \/ CloseValuationLiquid \/ RestateValuation
           \/ StartRiskEpoch
  BY <1>1, <1>6, StepCloseValuation, StepCloseValuationLiquid,
     StepRestateValuation, StepStartRiskEpoch
<1>7. ASSUME NEW batch \in SUBSET Reserves, ReserveEntries(batch) PROVE LedgerInv'
  BY <1>1, <1>7, StepReserveEntries
<1>8. ASSUME NEW v \in Reserves, RequestCancel(v) \/ ReleaseReserve(v)
      PROVE  LedgerInv'
  BY <1>1, <1>8, StepRequestCancel, StepReleaseReserve
<1>9. ASSUME NEW x \in Executions,
             \/ \E v \in Reserves \cup {NoReserve} : EntryFill(x, v)
             \/ ExitFill(x)
      PROVE  LedgerInv'
  BY <1>1, <1>9, StepEntryFill, StepExitFill
<1>10. QED
  BY <1>2, <1>3, <1>4, <1>5, <1>6, <1>7, <1>8, <1>9 DEF Next

LEMMA LedgerHolds == Spec => []LedgerInv
  BY InitLedger, StepLedger, PTL DEF Spec

(* No operation overdraws a bucket, burns units that do not exist, freezes *)
(* a negative price or confirms a water mark below zero.                   *)
THEOREM LedgerStaysTyped == Spec => []TypeOK
  BY LedgerHolds, LedgerTyped, PTL

(* The validators of CapitalRiskSnapshot, which close every operation,     *)
(* never refuse what the operation has written.                            *)
THEOREM SnapshotsAreRepresentable == Spec => []SnapshotRepresentable
  BY LedgerHolds, LedgerRepresentable, PTL

(* verify_conservation never fails: the stored cash, units, suspense and   *)
(* payables are what a replay of the event log makes them.                 *)
THEOREM LedgerIsConserved == Spec => []Conserved
  BY LedgerHolds, BooksBalance, PTL

-----------------------------------------------------------------------------
(* A financing flow and the unit price                                     *)

Drift(e, u, f, w) == f * u - e * w

Near(e, u, f, w) == 2 * Drift(e, u, f, w) <= u /\ -2 * Drift(e, u, f, w) <= u

LEMMA DriftOfTerms ==
  ASSUME NEW e \in Nat, NEW u \in Nat, NEW k \in Nat, NEW n \in Nat,
         2 * (u * k - n * e) <= u, 2 * (n * e - u * k) <= u
  PROVE  Near(e, u, e + k, u + n) /\ Near(e, u, e - k, u - n)
<1>1. PICK x : x = u * k
  OBVIOUS
<1>2. PICK y : y = n * e
  OBVIOUS
<1>3. x \in Nat /\ y \in Nat /\ 2 * (x - y) <= u /\ 2 * (y - x) <= u
  BY <1>1, <1>2
<1>4. Drift(e, u, e + k, u + n) = x - y
  BY <1>1, <1>2 DEF Drift
<1>5. Drift(e, u, e - k, u - n) = y - x
  BY <1>1, <1>2 DEF Drift
<1>6. QED
  BY <1>3, <1>4, <1>5 DEF Near

LEMMA NoDrift == ASSUME NEW e \in Nat, NEW u \in Nat PROVE Near(e, u, e, u)
<1>1. e * u \in Nat
  OBVIOUS
<1>2. Drift(e, u, e, u) = 0
  BY <1>1 DEF Drift
<1>3. QED
  BY <1>2 DEF Near

(* A flow touches no position: equity moves with the free cash alone.      *)
LEMMA EquityAfterFlow ==
  ASSUME LedgerInv, LedgerInv', UNCHANGED <<position, marks>>,
         NEW c, cash' = c, c.restricted = cash.restricted
  PROVE  /\ Equity \in Nat /\ c.available \in Nat /\ cash.available \in Nat
         /\ Equity' = Equity + (c.available - cash.available)
<1> USE DEF LedgerInv
<1>1. Equity = cash.available + cash.restricted + Gross /\ Equity \in Nat
  BY EquityIsWealth DEF Wealth
<1>2. Equity' = Wealth'
  BY LaterEquity
<1>3. Wealth' = c.available + c.restricted + Gross
  BY DEF Wealth, Gross
<1>4. cash' \in [Buckets -> Nat]
  BY DEF SuspenseTrue
<1>5. c.available \in Nat
  BY <1>4 DEF Buckets
<1>6. cash.available \in Nat /\ cash.restricted \in Nat /\ Gross \in Nat
  BY CashTyped, GrossNat
<1>7. QED
  BY <1>1, <1>2, <1>3, <1>5, <1>6

LEMMA LiveUnitsAfter ==
  ASSUME LedgerInv, NEW i, NEW m, units' = [issued |-> i, pending |-> m]
  PROVE  LiveUnits' = i - m
  BY DEF LiveUnits

HoldsPrice == Near(Equity, LiveUnits, Equity', LiveUnits')

LEMMA PriceOnSettledSubscription ==
  ASSUME LedgerInv, LedgerInv', NEW s \in Subs, SettleSubscription(s)
  PROVE  HoldsPrice
<1>1. PICK n, k : Issues(s, n, k)
  BY SubscriptionTerms
<1>2. /\ n \in Nat /\ k \in Nat
      /\ 2 * (LiveUnits * k - n * Equity) <= LiveUnits
      /\ 2 * (n * Equity - LiveUnits * k) <= LiveUnits
      /\ units' = [units EXCEPT !.issued = @ + n]
  BY <1>1 DEF Issues
<1>3. PICK paid \in Nat : /\ paid = flow[s].cents
        /\ cash' = [cash EXCEPT !.available = @ + k, !.subSuspense = @ - paid]
  BY <1>1, RowFields DEF Issues, LedgerInv, Requests
<1>4. UNCHANGED <<position, marks>>
  BY DEF SettleSubscription, book
<1>5. PICK c : cash' = c
  OBVIOUS
<1>6. c.available = cash.available + k /\ c.restricted = cash.restricted
  BY <1>3, <1>5 DEF LedgerInv, SuspenseTrue, Buckets
<1>7. Equity \in Nat /\ Equity' = Equity + (c.available - cash.available)
      /\ cash.available \in Nat
  BY <1>4, <1>5, <1>6, EquityAfterFlow
<1>8. Equity' = Equity + k
  BY <1>2, <1>6, <1>7
<1>9. units' = [issued |-> units.issued + n, pending |-> units.pending]
  BY <1>2 DEF LedgerInv, UnitsTrue
<1>10. LiveUnits' = (units.issued + n) - units.pending
  BY <1>9, LiveUnitsAfter
<1>11. LiveUnits \in Nat /\ LiveUnits' = LiveUnits + n
  BY <1>2, <1>10, UnitsTyped DEF LedgerInv, LiveUnits
<1>12. QED
  BY <1>2, <1>7, <1>8, <1>11, DriftOfTerms DEF HoldsPrice

LEMMA PriceOnSettledRedemption ==
  ASSUME LedgerInv, LedgerInv', NEW r \in Reds, SettleRedemption(r)
  PROVE  HoldsPrice
<1>1. PICK q, p : Redeems(r, q, p)
  BY RedemptionTerms
<1>2. /\ q \in Nat /\ p \in Nat
      /\ 2 * (LiveUnits * p - q * Equity) <= LiveUnits
      /\ 2 * (q * Equity - LiveUnits * p) <= LiveUnits
      /\ cash' = [cash EXCEPT !.available = @ - p, !.redSuspense = @ + p]
  BY <1>1 DEF Redeems
<1>3. UNCHANGED <<position, marks>>
  BY DEF SettleRedemption, book
<1>4. PICK c : cash' = c
  OBVIOUS
<1>5. c.available = cash.available - p /\ c.restricted = cash.restricted
  BY <1>2, <1>4 DEF LedgerInv, SuspenseTrue, Buckets
<1>6. Equity \in Nat /\ Equity' = Equity + (c.available - cash.available)
      /\ cash.available \in Nat
  BY <1>3, <1>4, <1>5, EquityAfterFlow
<1>7. Equity' = Equity - p
  BY <1>2, <1>5, <1>6
<1>8. \/ units' = [issued |-> units.issued, pending |-> units.pending + q]
      \/ units' = [issued |-> units.issued - q, pending |-> units.pending]
  BY <1>1 DEF Redeems, LedgerInv, UnitsTrue
<1>9. \/ LiveUnits' = units.issued - (units.pending + q)
      \/ LiveUnits' = (units.issued - q) - units.pending
  BY <1>8, LiveUnitsAfter
<1>10. LiveUnits \in Nat /\ LiveUnits' = LiveUnits - q
  BY <1>2, <1>9, UnitsTyped DEF LedgerInv, LiveUnits
<1>11. QED
  BY <1>2, <1>6, <1>7, <1>10, DriftOfTerms DEF HoldsPrice

LEMMA PriceOnPayment ==
  ASSUME LedgerInv, LedgerInv', NEW r \in Reds, PayRedemption(r)
  PROVE  HoldsPrice
<1>1. PICK due, burnt : Pays(r, due, burnt)
  BY PaymentTerms
<1>2. /\ due \in Nat /\ burnt \in Nat
      /\ cash' = [cash EXCEPT !.redSuspense = @ - due, !.available = @ - (due - due)]
      /\ units' = [issued |-> units.issued - burnt, pending |-> units.pending - burnt]
  BY <1>1, UnitsTyped DEF Pays, LedgerInv
<1>3. UNCHANGED <<position, marks>>
  BY DEF PayRedemption, book
<1>4. PICK c : cash' = c
  OBVIOUS
<1>5. c.available = cash.available - (due - due) /\ c.restricted = cash.restricted
  BY <1>2, <1>4 DEF LedgerInv, SuspenseTrue, Buckets
<1>6. Equity \in Nat /\ Equity' = Equity + (c.available - cash.available)
      /\ cash.available \in Nat
  BY <1>3, <1>4, <1>5, EquityAfterFlow
<1>7. Equity' = Equity
  BY <1>2, <1>5, <1>6
<1>8. LiveUnits' = (units.issued - burnt) - (units.pending - burnt)
  BY <1>2, LiveUnitsAfter
<1>9. LiveUnits \in Nat /\ LiveUnits' = LiveUnits
  BY <1>2, <1>8, UnitsTyped DEF LedgerInv, LiveUnits
<1>10. QED
  BY <1>6, <1>7, <1>9, NoDrift DEF HoldsPrice

(* A receipt and a cancellation touch the suspense bucket alone.           *)
LEMMA PriceOnReceipt ==
  ASSUME LedgerInv, LedgerInv', NEW s \in Subs,
         RequestSubscription(s) \/ CancelSubscription(s)
  PROVE  HoldsPrice
<1>1. PICK x : cash' = [cash EXCEPT !.subSuspense = x]
  BY DEF RequestSubscription, CancelSubscription
<1>2. UNCHANGED <<position, marks, units>>
  BY DEF RequestSubscription, CancelSubscription, book
<1>3. PICK c : cash' = c
  OBVIOUS
<1>4. c.available = cash.available /\ c.restricted = cash.restricted
  BY <1>1, <1>3 DEF LedgerInv, SuspenseTrue, Buckets
<1>5. Equity \in Nat /\ Equity' = Equity + (c.available - cash.available)
      /\ cash.available \in Nat
  BY <1>2, <1>3, <1>4, EquityAfterFlow
<1>6. Equity' = Equity
  BY <1>4, <1>5
<1>7. LiveUnits \in Nat /\ LiveUnits' = LiveUnits
  BY <1>2, UnitsTyped DEF LedgerInv, LiveUnits
<1>8. QED
  BY <1>5, <1>6, <1>7, NoDrift DEF HoldsPrice

LEMMA OnlyFlowsLog ==
  ASSUME [Next]_vars, flows' # flows
  PROVE  \/ InitializeGenesis
         \/ \E s \in Subs : \/ RequestSubscription(s) \/ CancelSubscription(s)
                            \/ SettleSubscription(s)
         \/ \E r \in Reds : SettleRedemption(r) \/ PayRedemption(r)
<1>1. ~\E s \in Requests : \/ PriceSubscription(s) \/ PriceRedemption(s)
                           \/ RequestRedemption(s) \/ CancelRedemption(s)
  BY DEF PriceSubscription, PriceRedemption, PriceFlow, RequestRedemption,
     CancelRedemption
<1>2. ~(CloseValuation \/ CloseValuationLiquid \/ RestateValuation \/ StartRiskEpoch)
  BY DEF CloseValuation, CloseValuationLiquid, RestateValuation, StartRiskEpoch,
     financing
<1>3. ~(\/ \E batch \in SUBSET Reserves : ReserveEntries(batch)
        \/ \E v \in Reserves : RequestCancel(v) \/ ReleaseReserve(v)
        \/ \E x \in Executions :
             \/ \E v \in Reserves \cup {NoReserve} : EntryFill(x, v)
             \/ ExitFill(x))
  BY DEF ReserveEntries, RequestCancel, ReleaseReserve, EntryFill, ExitFill, financing
<1>4. ~UNCHANGED vars
  BY DEF vars
<1>5. QED
  BY <1>1, <1>2, <1>3, <1>4 DEF Next, Requests

LEMMA FlowKeepsPrice ==
  ASSUME LedgerInv, LedgerInv', [Next]_vars, flows' # flows, LiveUnits > 0
  PROVE  HoldsPrice
<1>1. ~InitializeGenesis
  BY UnitsTyped DEF InitializeGenesis, LedgerInv, LiveUnits
<1>2. QED
  BY <1>1, OnlyFlowsLog, PriceOnReceipt, PriceOnSettledSubscription,
     PriceOnSettledRedemption, PriceOnPayment

(* No flow moves value between those who stay and those who come or go:    *)
(* subscriptions and redemptions convert at one price up to the half cent  *)
(* that rounding cannot avoid; receipts, refunds and payments keep it.     *)
THEOREM FlowsKeepThePrice == Spec => FlowInvariance
<1>1. LedgerInv /\ LedgerInv' /\ [Next]_vars =>
        [flows' # flows /\ LiveUnits > 0 =>
           LET drift == Equity' * LiveUnits - Equity * LiveUnits' IN
           2 * drift <= LiveUnits /\ -2 * drift <= LiveUnits]_vars
  BY FlowKeepsPrice DEF HoldsPrice, Near, Drift
<1>2. QED
  BY <1>1, LedgerHolds, PTL DEF Spec, FlowInvariance

=============================================================================
