------------------------------ MODULE ExitLane ------------------------------
(***************************************************************************)
(* The exit lane of the Capital Gateway (v3/gateway/exits.py) for one      *)
(* economic lot: a chain of exit mandates derived from capital truth, the  *)
(* leases of the workers that execute them, the attempts they record, and  *)
(* the open quantity query.  Lots share no row, so one lot is enough.      *)
(*                                                                         *)
(* As in EntryGateway, the SELECTs of an operation run before its write    *)
(* lock: an operation is a read and a commit.  claim_due_exit_work writes  *)
(* first (it expires leases), so it is one step.                           *)
(*                                                                         *)
(* The broker and the capital ledger are external: shares held, leaves on  *)
(* the broker's book, fills, cancels, late fills and busted fills.  The    *)
(* injected lot truth is what they are at the read; a worker sends an      *)
(* order after it has recorded it.  Security, due session and portfolio    *)
(* identity are constant.                                                  *)
(***************************************************************************)
EXTENDS Integers, Sequences, FiniteSets, FiniteSetsExt

CONSTANTS
  Workers,     \* lifecycle workers sharing the lane's database
  Attempts,    \* attempt ids
  Lot,         \* shares of the lot at the start
  MaxRev,      \* bound on the mandate revisions
  MaxLate,     \* bound on fills after a confirmed cancel
  MaxReopen,   \* bound on the corrections that reopen a flat lot
  NoWorker

ASSUME ExitAssumption ==
  /\ Lot \in Nat \ {0} /\ MaxRev \in Nat /\ MaxLate \in Nat /\ MaxReopen \in Nat
  /\ NoWorker \notin Workers /\ IsFiniteSet(Attempts)

VARIABLES
  chain,     \* exit_mandates: all but the last are SUPERSEDED
  attempt,   \* exit_attempts
  lease,     \* worker of the unexpired exit_leases row of the last mandate
  query,     \* an exit_reconciliations row is unresolved
  worked,    \* revision each worker claimed last, 0 for none
  op,        \* what each worker has read and not yet committed
  held,      \* settled shares
  book,      \* leaves of each attempt on the broker's book
  sold,      \* shares the broker has filled for each attempt
  gone,      \* attempts whose cancel the broker has confirmed, or lost
  late,      \* shares filled after each attempt's cancel was confirmed
  reopen,    \* latest correction that reopened the lot, 0 for none
  terminal   \* the position reached its legal terminal state

lane == <<chain, attempt, lease, query>>
client == <<worked, op>>
world == <<held, book, sold, gone, late, reopen, terminal>>
vars == <<chain, attempt, lease, query, worked, op,
          held, book, sold, gone, late, reopen, terminal>>

Status == {"PENDING", "TERMINAL_LEGAL", "CLOSED"}
Mandate == [known: BOOLEAN, tradable: 0..Lot, leaves: 0..Lot, status: Status,
            reopened: 0..MaxReopen]
AttemptRow == [rev: 0..MaxRev, submitted: 0..Lot, filled: 0..Lot,
               late: 0..Lot, cancelled: 0..Lot]
NoAttempt == [rev |-> 0, submitted |-> 0, filled |-> 0, late |-> 0,
              cancelled |-> 0]

Idle == [kind |-> "idle"]
Op == {Idle}
  \cup [kind: {"derive", "reconcile"}, seen: 0..MaxRev, rows: Seq(Mandate)]
  \cup [kind: {"submit"}, attempt: Attempts, row: AttemptRow]
  \cup [kind: {"send"}, attempt: Attempts]
  \cup [kind: {"update"}, attempt: Attempts, qty: 0..Lot,
        field: {"filled", "late", "cancelled"}]

TypeOK ==
  /\ chain \in Seq(Mandate) /\ Len(chain) <= MaxRev
  /\ attempt \in [Attempts -> AttemptRow]
  /\ lease \in Workers \cup {NoWorker} /\ query \in BOOLEAN
  /\ worked \in [Workers -> 0..MaxRev]
  /\ op \in [Workers -> Op]
  /\ held \in 0..Lot /\ book \in [Attempts -> 0..Lot]
  /\ sold \in [Attempts -> 0..Lot] /\ gone \subseteq Attempts
  /\ late \in [Attempts -> 0..MaxLate]
  /\ reopen \in 0..MaxReopen /\ terminal \in BOOLEAN

Init ==
  /\ chain = <<>> /\ attempt = [a \in Attempts |-> NoAttempt]
  /\ lease = NoWorker /\ query = FALSE
  /\ worked = [w \in Workers |-> 0] /\ op = [w \in Workers |-> Idle]
  /\ held = Lot /\ book = [a \in Attempts |-> 0]
  /\ sold = [a \in Attempts |-> 0] /\ gone = {}
  /\ late = [a \in Attempts |-> 0] /\ reopen = 0 /\ terminal = FALSE

-----------------------------------------------------------------------------
Rev == Len(chain)
Active == chain[Rev]
HasActive == chain # <<>>
Pending == HasActive /\ Active.status = "PENDING"

Executable(m) == IF m.known THEN m.tradable - m.leaves ELSE 0
OnBook == SumFunctionOnSet(book, Attempts)
LateFills == SumFunctionOnSet(late, Attempts)

Sold(r) == r.filled + r.late
Outstanding_CancelIgnored(r) == Max({0, r.submitted - Sold(r)})
Outstanding(r) == Max({0, r.submitted - Sold(r) - r.cancelled})

(* _claimable_quantity over the attempts recorded under a revision.        *)
AttemptsOf(rev) == {a \in Attempts : attempt[a].rev = rev}
Claimable_FillsForgotten(rev) ==
  Executable(chain[rev])
    - SumFunctionOnSet([a \in Attempts |-> Outstanding(attempt[a])],
                       AttemptsOf(rev))
Claimable_OutstandingForgotten(rev) ==
  Executable(chain[rev])
    - SumFunctionOnSet([a \in Attempts |-> Sold(attempt[a])], AttemptsOf(rev))
Taken == [a \in Attempts |-> Outstanding(attempt[a]) + Sold(attempt[a])]
Claimable(rev) ==
  Executable(chain[rev]) - SumFunctionOnSet(Taken, AttemptsOf(rev))

Read(w, request) ==
  /\ op[w] = Idle
  /\ op' = [op EXCEPT ![w] = request]
  /\ UNCHANGED <<lane, worked, world>>

Done(w) == op' = [op EXCEPT ![w] = Idle] /\ UNCHANGED worked

(* The operation raises and rolls back: a fault, or a losing insert.       *)
Abort(w) ==
  /\ op[w].kind \notin {"idle", "send"} /\ Done(w)
  /\ UNCHANGED <<lane, world>>

(* An order that was being sent is lost to the worker, but may have        *)
(* reached the broker: LateFill.                                           *)
Crash(w) ==
  /\ op[w] # Idle
  /\ op' = [op EXCEPT ![w] = Idle] /\ worked' = [worked EXCEPT ![w] = 0]
  /\ gone' = IF op[w].kind = "send" THEN gone \cup {op[w].attempt} ELSE gone
  /\ UNCHANGED <<lane, held, book, sold, late, reopen, terminal>>

-----------------------------------------------------------------------------
(* derive_exit_mandates and reconcile_exit.                                *)
Refresh(known, status) ==
  [known |-> known, tradable |-> IF known THEN held ELSE 0,
   leaves |-> IF known THEN OnBook ELSE 0,
   status |-> status, reopened |-> 0]

(* _essentials_unchanged: every column but the reopen provenance.          *)
SameEssentials(m, n) == m = [n EXCEPT !.reopened = m.reopened]

(* _has_new_reopen compares with the active row only.                      *)
NewReopen == reopen # 0 /\ Active.reopened # reopen

TruthStatus == IF held = 0 THEN "CLOSED" ELSE "PENDING"

Publish(w, kind, rows) ==
  /\ Rev + Len(rows) <= MaxRev
  /\ Read(w, [kind |-> kind, seen |-> Rev, rows |-> rows])

(* _derive_one_lot; a lot never mandated but reopened gets its INITIAL     *)
(* revision and the REOPENED one together.                                 *)
ReadDerive(w, known) ==
  LET m == Refresh(known, IF terminal THEN "TERMINAL_LEGAL"
                          ELSE IF known THEN TruthStatus ELSE "PENDING")
      again == [m EXCEPT !.reopened = reopen]
  IN /\ known => OnBook <= held
     /\ IF HasActive
        THEN /\ ~SameEssentials(m, Active) \/ NewReopen
             /\ Publish(w, "derive", <<IF NewReopen THEN again ELSE m>>)
        ELSE Publish(w, "derive", IF reopen = 0 THEN <<m>> ELSE <<m, again>>)

(* A verified reconcile; a replay with the active row's figures returns    *)
(* before it touches the open queries.                                     *)
ReadReconcile(w) ==
  LET m == Refresh(TRUE, TruthStatus)
  IN /\ Pending /\ OnBook <= held
     /\ ~SameEssentials(m, Active)
     /\ Publish(w, "reconcile", <<m>>)

QueryAfter_Kept(r) == IF r.kind = "reconcile" THEN FALSE ELSE query
QueryAfter(r) ==
  IF r.kind = "reconcile" THEN FALSE
  ELSE query \/ ~r.rows[Len(r.rows)].known

(* exit_mandate_id and uq_active_exit_mandate_per_lot are unique: the      *)
(* insert fails (Abort) unless the row that was read is still the last.    *)
(* Leases hang on the superseded mandate's hash.                           *)
CommitPublish(w) ==
  LET r == op[w] IN
  /\ r.kind \in {"derive", "reconcile"} /\ r.seen = Rev
  /\ chain' = chain \o r.rows
  /\ lease' = NoWorker
  /\ query' = QueryAfter(r)
  /\ Done(w)
  /\ UNCHANGED <<attempt, world>>

(* An unverified reconcile opens one query per lot.                        *)
ScheduleQuery(w) ==
  /\ op[w] = Idle
  /\ HasActive /\ Active.status # "TERMINAL_LEGAL"
  /\ ~query /\ query' = TRUE
  /\ UNCHANGED <<chain, attempt, lease, client, world>>

-----------------------------------------------------------------------------
(* Leases.                                                                 *)
Claim(w) ==
  /\ op[w] = Idle
  /\ Pending /\ Active.known
  /\ lease = NoWorker /\ Claimable(Rev) > 0
  /\ lease' = w /\ worked' = [worked EXCEPT ![w] = Rev]
  /\ UNCHANGED <<chain, attempt, query, op, world>>

(* The lease's expires_at passes.                                          *)
Expire ==
  /\ lease # NoWorker /\ lease' = NoWorker
  /\ UNCHANGED <<chain, attempt, query, client, world>>

(* The worker is done with its claim.                                      *)
ReleaseLease(w) ==
  /\ op[w] = Idle /\ lease = w
  /\ lease' = NoWorker /\ worked' = [worked EXCEPT ![w] = 0]
  /\ UNCHANGED <<chain, attempt, query, op, world>>

-----------------------------------------------------------------------------
(* record_exit_attempt: a claimed worker submits.  Nothing looks at the    *)
(* lease again.                                                            *)
ReadSubmit(w) ==
  /\ Pending /\ worked[w] = Rev
  /\ \E a \in AttemptsOf(0), q \in 1..Claimable(Rev) :
       Read(w, [kind |-> "submit", attempt |-> a,
                row |-> [NoAttempt EXCEPT !.rev = Rev, !.submitted = q]])

(* attempt_id is the primary key.                                          *)
CommitSubmit(w) ==
  LET r == op[w] IN
  /\ r.kind = "submit" /\ r.attempt \in AttemptsOf(0)
  /\ attempt' = [attempt EXCEPT ![r.attempt] = r.row]
  /\ op' = [op EXCEPT ![w] = [kind |-> "send", attempt |-> r.attempt]]
  /\ UNCHANGED <<chain, lease, query, worked, world>>

Send(w) ==
  /\ op[w].kind = "send"
  /\ book' = [book EXCEPT ![op[w].attempt] = attempt[op[w].attempt].submitted]
  /\ Done(w)
  /\ UNCHANGED <<lane, held, sold, gone, late, reopen, terminal>>

(* _update_attempt: the outcomes the broker has reported.  A fill after    *)
(* the recorded cancel is a late fill.                                     *)
CancelledQty_FillsTwice(r) == r.submitted - r.filled - Sold(r)
CancelledQty(r) == r.submitted - Sold(r)

ReadOutcome(w, a) ==
  LET r == attempt[a]
      Report(field, qty) == Read(w, [kind |-> "update", attempt |-> a,
                                     field |-> field, qty |-> qty])
  IN /\ Pending /\ r.rev # 0
     /\ \/ /\ r.cancelled = 0 /\ sold[a] - r.late > r.filled
           /\ Report("filled", sold[a] - r.late)
        \/ /\ r.cancelled = 0 /\ a \in gone
           /\ Report("cancelled", CancelledQty(r))
        \/ /\ r.cancelled # 0 /\ sold[a] - r.filled > r.late
           /\ Report("late", sold[a] - r.filled)

(* UPDATE ... WHERE attempt_id = :attempt, whatever was read.              *)
CommitOutcome(w) ==
  LET r == op[w] IN
  /\ r.kind = "update"
  /\ attempt' = [attempt EXCEPT ![r.attempt][r.field] = r.qty]
  /\ Done(w)
  /\ UNCHANGED <<chain, lease, query, world>>

-----------------------------------------------------------------------------
(* The broker and the capital ledger.                                      *)
Trade(a) ==
  /\ held > 0 /\ held' = held - 1
  /\ sold' = [sold EXCEPT ![a] = @ + 1]
  /\ UNCHANGED <<lane, client, gone, reopen, terminal>>

Fill(a) ==
  /\ book[a] > 0 /\ book' = [book EXCEPT ![a] = @ - 1]
  /\ Trade(a) /\ UNCHANGED late

LateFill(a) ==
  /\ a \in gone /\ sold[a] < attempt[a].submitted
  /\ LateFills < MaxLate /\ late' = [late EXCEPT ![a] = @ + 1]
  /\ Trade(a) /\ UNCHANGED book

BrokerCancel(a) ==
  /\ book[a] > 0 /\ book' = [book EXCEPT ![a] = 0]
  /\ gone' = gone \cup {a}
  /\ UNCHANGED <<lane, client, held, sold, late, reopen, terminal>>

(* A correction busts a fill; it reopens a lot that was flat.              *)
Bust ==
  /\ held < Lot /\ held' = held + 1
  /\ IF held = 0 THEN reopen < MaxReopen /\ reopen' = reopen + 1
                 ELSE reopen' = reopen
  /\ UNCHANGED <<lane, client, book, sold, gone, late, terminal>>

LegalTerminal ==
  /\ ~terminal /\ terminal' = TRUE
  /\ UNCHANGED <<lane, client, held, book, sold, gone, late, reopen>>

Worker(w) ==
  \/ \E known \in BOOLEAN : ReadDerive(w, known)
  \/ ReadReconcile(w) \/ CommitPublish(w)
  \/ ScheduleQuery(w) \/ Claim(w) \/ ReleaseLease(w)
  \/ ReadSubmit(w) \/ CommitSubmit(w) \/ Send(w)
  \/ (\E a \in Attempts : ReadOutcome(w, a)) \/ CommitOutcome(w)
  \/ Abort(w) \/ Crash(w)

Broker ==
  \/ \E a \in Attempts : Fill(a) \/ LateFill(a) \/ BrokerCancel(a)
  \/ Bust \/ LegalTerminal

Next == (\E w \in Workers : Worker(w)) \/ Expire \/ Broker

Spec == Init /\ [][Next]_vars

-----------------------------------------------------------------------------
(* Properties.                                                             *)

(* The broker never has more to sell than the shares held, but for fills   *)
(* nobody could know of when the leaves were freed: those after a          *)
(* confirmed cancel, and those reported after the cancel was recorded.     *)
(* Whatever the order of submissions, fills, refreshes and crashes.        *)
Overtaken(a) == IF attempt[a].cancelled = 0 THEN 0
                ELSE Max({0, sold[a] - late[a] - attempt[a].filled})
NeverOversells ==
  OnBook <= held + LateFills
              + SumFunctionOnSet([a \in Attempts |-> Overtaken(a)], Attempts)

(* "Submissions may never exceed the claimable quantity (the lane never    *)
(* oversells)": under each mandate, what was submitted and not given back  *)
(* by a cancel fits its executable quantity.                               *)
SubmissionsCovered ==
  \A rev \in 1..Rev :
    SumFunctionOnSet(
      [a \in Attempts |-> attempt[a].submitted - attempt[a].cancelled],
      AttemptsOf(rev)) <= Executable(chain[rev])

(* A lot whose quantity is unknown has an open query, so reconciliation is *)
(* owed until a verified quantity arrives.                                 *)
UnknownIsQueried == HasActive /\ ~Active.known => query

(* When the broker is done with every attempt of the active mandate and    *)
(* the lane has recorded it, nothing it did not sell stays reserved: a     *)
(* lost or cancelled order cannot strand shares.                           *)
Recorded(a) ==
  /\ Sold(attempt[a]) = sold[a] /\ book[a] = 0
  /\ sold[a] = attempt[a].submitted \/ attempt[a].cancelled # 0
NothingStranded ==
  /\ HasActive
  /\ \A a \in AttemptsOf(Rev) : Recorded(a)
  => Claimable(Rev) = Executable(Active)
                        - SumFunctionOnSet(sold, AttemptsOf(Rev))
=============================================================================
