--------------------------- MODULE ExitLaneProofs ---------------------------
(* Proofs about ExitLane, for any number of attempts, shares, revisions    *)
(* and corrections.  Open queries stay open with any number of workers;    *)
(* the quantities are proved for one worker at a time (LoneWorker): with   *)
(* two, what one has read another has already taken (run exit_oversell).   *)
EXTENDS ExitLane, Sums

Publishes(r) == r.kind \in {"derive", "reconcile"}

(* The mandates, written or about to be written, are rows of S; what a     *)
(* reconcile has read ends in a known quantity.                            *)
Rows(S) ==
  /\ chain \in Seq(S)
  /\ \A w \in Workers : Publishes(op[w]) =>
       /\ op[w].rows \in Seq(S) /\ op[w].rows # <<>>
       /\ op[w].kind = "reconcile" => op[w].rows[Len(op[w].rows)].known

AskInv ==
  /\ op = [w \in Workers |-> op[w]]
  /\ \E S : Rows(S)
  /\ UnknownIsQueried

-----------------------------------------------------------------------------
LEMMA InitAsk == Init => AskInv
<1> SUFFICES ASSUME Init PROVE AskInv
  OBVIOUS
<1>1. op = [w \in Workers |-> Idle] /\ chain = <<>>
  BY DEF Init
<1>2. \A w \in Workers : ~Publishes(op[w])
  BY <1>1 DEF Publishes, Idle
<1>3. Rows({})
  BY <1>1, <1>2 DEF Rows
<1>4. op = [w \in Workers |-> op[w]]
  BY <1>1
<1>5. QED
  BY <1>1, <1>3, <1>4 DEF AskInv, UnknownIsQueried, HasActive

(* A step that writes no mandate and leaves a query open.                  *)
LEMMA OtherAsk ==
  ASSUME AskInv, UNCHANGED chain, query => query',
         \/ UNCHANGED op
         \/ \E r : \E w \in Workers :
              ~Publishes(r) /\ op' = [op EXCEPT ![w] = r]
  PROVE  AskInv'
<1>1. op' = [w \in Workers |-> op'[w]]
      /\ \A w \in Workers : op'[w] = op[w] \/ ~Publishes(op'[w])
  BY DEF AskInv
<1>2. PICK S : Rows(S)
  BY DEF AskInv
<1>3. Rows(S)'
  BY <1>1, <1>2 DEF Rows, Publishes
<1>4. UnknownIsQueried'
  BY DEF AskInv, UnknownIsQueried, HasActive, Active, Rev
<1>5. QED
  BY <1>1, <1>3, <1>4 DEF AskInv

(* A read that hands on the rows of a new revision.                        *)
LEMMA ReadAsk ==
  ASSUME AskInv, NEW w \in Workers, NEW kind \in {"derive", "reconcile"},
         NEW m, NEW n, NEW rows \in {<<m>>, <<m, n>>},
         kind = "reconcile" => rows = <<m>> /\ m.known,
         Publish(w, kind, rows)
  PROVE  AskInv'
<1>1. /\ UNCHANGED <<chain, query>>
      /\ op' = [op EXCEPT ![w] = [kind |-> kind, seen |-> Rev, rows |-> rows]]
  BY DEF Publish, Read, lane
<1>2. /\ op' = [x \in Workers |-> op'[x]]
      /\ op'[w].kind = kind /\ op'[w].rows = rows
      /\ \A x \in Workers : x = w \/ op'[x] = op[x]
  BY <1>1 DEF AskInv
<1>3. PICK S : Rows(S)
  BY DEF AskInv
<1>4. PICK T : T = S \cup {m, n}
  OBVIOUS
<1>5. \A s : s \in Seq(S) => s \in Seq(T)
  BY <1>4
<1>6. /\ rows \in Seq(T) /\ rows # <<>>
      /\ kind = "reconcile" => rows[Len(rows)].known
  <2>1. m \in T /\ n \in T
    BY <1>4
  <2>2. CASE rows = <<m>>
    BY <2>1, <2>2
  <2>3. CASE rows = <<m, n>> /\ kind # "reconcile"
    BY <2>1, <2>3
  <2>4. QED
    BY <2>2, <2>3
<1>7. Rows(T)'
  <2>1. chain' \in Seq(T)
    BY <1>1, <1>3, <1>5 DEF Rows
  <2>2. ASSUME NEW x \in Workers, Publishes(op'[x])
        PROVE  /\ op'[x].rows \in Seq(T) /\ op'[x].rows # <<>>
               /\ op'[x].kind = "reconcile" =>
                    op'[x].rows[Len(op'[x].rows)].known
    <3>1. CASE x = w
      BY <1>2, <1>6, <3>1
    <3>2. CASE op'[x] = op[x]
      BY <1>3, <1>5, <2>2, <3>2 DEF Rows
    <3>3. QED
      BY <1>2, <3>1, <3>2
  <2>3. QED
    BY <2>1, <2>2 DEF Rows, Publishes
<1>8. UnknownIsQueried'
  BY <1>1 DEF AskInv, UnknownIsQueried, HasActive, Active, Rev
<1>9. QED
  BY <1>2, <1>7, <1>8 DEF AskInv

LEMMA DeriveAsk ==
  ASSUME AskInv, NEW w \in Workers, NEW known \in BOOLEAN, ReadDerive(w, known)
  PROVE  AskInv'
<1>1. PICK m : m = Refresh(known, IF terminal THEN "TERMINAL_LEGAL"
                                  ELSE IF known THEN TruthStatus ELSE "PENDING")
  OBVIOUS
<1>2. PICK n : n = [m EXCEPT !.reopened = reopen]
  OBVIOUS
<1>3. PICK rows \in {<<m>>, <<n>>, <<m, n>>} : Publish(w, "derive", rows)
  BY <1>1, <1>2 DEF ReadDerive
<1>4. CASE rows = <<n>>
  BY <1>3, <1>4, ReadAsk
<1>5. CASE rows # <<n>>
  BY <1>3, <1>5, ReadAsk
<1>6. QED
  BY <1>4, <1>5

LEMMA ReconcileAsk ==
  ASSUME AskInv, NEW w \in Workers, ReadReconcile(w)
  PROVE  AskInv'
<1>1. PICK m : m = Refresh(TRUE, TruthStatus)
  OBVIOUS
<1>2. Publish(w, "reconcile", <<m>>) /\ m.known
  BY <1>1 DEF ReadReconcile, Refresh
<1>3. QED
  BY <1>2, ReadAsk

(* The commit: the rows that were read become the end of the chain.        *)
LEMMA PublishAsk ==
  ASSUME AskInv, NEW w \in Workers, CommitPublish(w)
  PROVE  AskInv'
<1>1. PICK r : r = op[w]
  OBVIOUS
<1>2. /\ Publishes(r) /\ chain' = chain \o r.rows /\ query' = QueryAfter(r)
      /\ op' = [op EXCEPT ![w] = Idle]
  BY <1>1 DEF CommitPublish, Publishes, Done
<1>3. PICK S : Rows(S)
  BY DEF AskInv
<1>4. /\ chain \in Seq(S) /\ r.rows \in Seq(S) /\ r.rows # <<>>
      /\ r.kind = "reconcile" => r.rows[Len(r.rows)].known
  BY <1>1, <1>2, <1>3 DEF Rows
<1>5. /\ chain' \in Seq(S) /\ Len(chain') = Len(chain) + Len(r.rows)
      /\ chain'[Len(chain')] = r.rows[Len(r.rows)]
  BY <1>2, <1>4
<1>6. /\ op' = [x \in Workers |-> op'[x]]
      /\ \A x \in Workers : op'[x] = op[x] \/ ~Publishes(op'[x])
  BY <1>2 DEF AskInv, Publishes, Idle
<1>7. Rows(S)'
  BY <1>3, <1>5, <1>6 DEF Rows, Publishes
<1>8. UnknownIsQueried'
  BY <1>2, <1>4, <1>5 DEF UnknownIsQueried, Active, Rev, QueryAfter, Publishes
<1>9. QED
  BY <1>6, <1>7, <1>8 DEF AskInv

LEMMA WorkerAsk ==
  ASSUME AskInv, NEW w \in Workers, Worker(w)
  PROVE  AskInv'
<1>1. CASE ScheduleQuery(w) \/ Claim(w) \/ ReleaseLease(w)
  BY <1>1, OtherAsk DEF ScheduleQuery, Claim, ReleaseLease, client
<1>2. CASE ReadSubmit(w)
  <2>1. UNCHANGED <<chain, query>>
    BY <1>2 DEF ReadSubmit, Read, lane
  <2>2. \E r : ~Publishes(r) /\ op' = [op EXCEPT ![w] = r]
    BY <1>2 DEF ReadSubmit, Read, Publishes
  <2>3. QED
    BY <2>1, <2>2, OtherAsk
<1>3. CASE CommitSubmit(w)
  <2>1. UNCHANGED <<chain, query>>
    BY <1>3 DEF CommitSubmit
  <2>2. \E r : ~Publishes(r) /\ op' = [op EXCEPT ![w] = r]
    BY <1>3 DEF CommitSubmit, Publishes
  <2>3. QED
    BY <2>1, <2>2, OtherAsk
<1>4. CASE Send(w) \/ CommitOutcome(w) \/ Abort(w) \/ Crash(w)
  <2>1. UNCHANGED <<chain, query>>
    BY <1>4 DEF Send, CommitOutcome, Abort, Crash, lane
  <2>2. op' = [op EXCEPT ![w] = Idle] /\ ~Publishes(Idle)
    BY <1>4 DEF Send, CommitOutcome, Abort, Crash, Done, Publishes, Idle
  <2>3. QED
    BY <2>1, <2>2, OtherAsk
<1>5. ASSUME NEW a \in Attempts, ReadOutcome(w, a) PROVE AskInv'
  <2>1. UNCHANGED <<chain, query>>
    BY <1>5 DEF ReadOutcome, Read, lane
  <2>2. \E r : ~Publishes(r) /\ op' = [op EXCEPT ![w] = r]
    BY <1>5 DEF ReadOutcome, Read, Publishes
  <2>3. QED
    BY <2>1, <2>2, OtherAsk
<1>6. QED
  BY <1>1, <1>2, <1>3, <1>4, <1>5, DeriveAsk, ReconcileAsk, PublishAsk
  DEF Worker

LEMMA NextAsk == AskInv /\ [Next]_vars => AskInv'
<1> SUFFICES ASSUME AskInv, [Next]_vars PROVE AskInv'
  OBVIOUS
<1>1. CASE Expire \/ Broker \/ UNCHANGED vars
  <2>1. UNCHANGED <<chain, query, op>>
    BY <1>1 DEF Expire, Broker, Fill, LateFill, Trade, BrokerCancel, Bust,
       LegalTerminal, vars, lane, client
  <2>2. QED
    BY <2>1, OtherAsk
<1>2. QED
  BY <1>1, WorkerAsk DEF Next

(* However derivations, reconciles and faults of any number of workers     *)
(* interleave, a lot whose quantity is unknown has an open query: none is  *)
(* closed by a reconcile that another worker's refresh has overtaken       *)
(* (derive_exit_mandates, reconcile_exit).                                 *)
THEOREM UnknownStaysQueried == Spec => []UnknownIsQueried
<1>1. AskInv => UnknownIsQueried
  BY DEF AskInv
<1>2. QED
  BY InitAsk, NextAsk, <1>1, PTL DEF Spec

-----------------------------------------------------------------------------
(* The quantities, for one worker at a time: nobody else records anything  *)
(* between its read and its commit; only the broker and the capital ledger *)
(* move.                                                                   *)
LoneWorker == \A v, w \in Workers : v = w

(* A row and the broker: what is recorded has happened, and a recorded     *)
(* cancel accounts for all that was not sold.                              *)
RowTrue(a) ==
  LET r == attempt[a] IN
  /\ r.rev <= Rev
  /\ r.rev = 0 => r = NoAttempt /\ a \notin gone
  /\ book[a] + sold[a] <= r.submitted /\ late[a] <= sold[a]
  /\ a \in gone => book[a] = 0
  /\ Sold(r) <= sold[a]
  /\ r.cancelled = 0 => r.late = 0
  /\ r.cancelled # 0 => a \in gone /\ Sold(r) + r.cancelled >= r.submitted

(* What a worker has read still stands when it commits.                    *)
Row(rev, qty) == [NoAttempt EXCEPT !.rev = rev, !.submitted = qty]
SubmitTrue(r) ==
  HasActive /\ r.row.submitted > 0 /\ r.row = Row(Rev, r.row.submitted)
SendTrue(r) ==
  /\ HasActive /\ attempt[r.attempt].rev = Rev /\ r.attempt \notin gone
  /\ book[r.attempt] = 0 /\ sold[r.attempt] = 0
OutcomeTrue(r) ==
  LET row == attempt[r.attempt] IN
  /\ row.rev # 0
  /\ r.field = "filled" => /\ row.cancelled = 0 /\ row.filled < r.qty
                           /\ r.qty <= sold[r.attempt]
  /\ r.field = "cancelled" => /\ row.cancelled = 0 /\ r.attempt \in gone
                              /\ r.qty = CancelledQty(row)
  /\ r.field = "late" => /\ row.cancelled # 0 /\ row.late < r.qty
                         /\ row.filled + r.qty <= sold[r.attempt]
ReadTrue(r) ==
  /\ Publishes(r) => r.seen + Len(r.rows) <= MaxRev /\ r.rows # <<>>
  /\ r.kind = "submit" => SubmitTrue(r)
  /\ r.kind = "send" => SendTrue(r)
  /\ r.kind = "update" => OutcomeTrue(r)

RowInv ==
  /\ TypeOK
  /\ \A a \in Attempts : RowTrue(a)
  /\ \A w \in Workers : ReadTrue(op[w])

-----------------------------------------------------------------------------
(* What is outstanding is what was submitted and is neither sold nor       *)
(* cancelled, and never negative.                                          *)
LEMMA Positive ==
  ASSUME NEW n \in Int
  PROVE  Max({0, n}) = IF n > 0 THEN n ELSE 0
<1> DEFINE m == IF n > 0 THEN n ELSE 0
<1>1. m \in {0, n} /\ \A y \in {0, n} : m >= y
  OBVIOUS
<1>2. \A x \in {0, n} : (\A y \in {0, n} : x >= y) => x = m
  OBVIOUS
<1>3. QED
  BY <1>1, <1>2 DEF Max

LEMMA RevType == TypeOK => Rev \in 0..MaxRev
BY ExitAssumption DEF TypeOK, Rev

LEMMA Sums0 ==
  ASSUME TypeOK
  PROVE  OnBook \in Nat /\ LateFills \in Nat
<1>1. IsFiniteSet(Attempts)
  BY ExitAssumption
<1>2. \A a \in Attempts : book[a] \in Nat /\ late[a] \in Nat
  BY DEF TypeOK
<1>3. QED
  BY <1>1, <1>2, SumNat DEF OnBook, LateFills

(* A live attempt takes what it submitted, a cancelled one what it sold.   *)
LEMMA TakenIs ==
  ASSUME RowInv, NEW a \in Attempts
  PROVE  /\ Taken[a] \in Nat
         /\ Taken[a] = IF attempt[a].cancelled = 0 THEN attempt[a].submitted
                                                   ELSE Sold(attempt[a])
<1> DEFINE r == attempt[a]
<1>1. /\ r \in AttemptRow /\ sold[a] \in 0..Lot /\ book[a] \in 0..Lot
      /\ Lot \in Nat /\ MaxRev \in Nat
  BY ExitAssumption DEF RowInv, TypeOK
<1>2. /\ r.submitted \in Nat /\ r.filled \in Nat /\ r.late \in Nat
      /\ r.cancelled \in Nat
  BY <1>1 DEF AttemptRow
<1>3. /\ Sold(r) \in Nat /\ Sold(r) <= r.submitted
      /\ r.cancelled # 0 => Sold(r) + r.cancelled >= r.submitted
  BY <1>1, <1>2 DEF RowInv, RowTrue, Sold
<1>4. Outstanding(r) = IF r.submitted - Sold(r) - r.cancelled > 0
                       THEN r.submitted - Sold(r) - r.cancelled ELSE 0
  BY <1>2, <1>3, Positive DEF Outstanding
<1>5. Taken[a] = Outstanding(r) + Sold(r)
  BY DEF Taken
<1>6. QED
  BY <1>2, <1>3, <1>4, <1>5

LEMMA ClaimableFits ==
  ASSUME RowInv, HasActive
  PROVE  Claimable(Rev) \in Int /\ Claimable(Rev) <= Lot
         /\ (Claimable(Rev) > 0 => Active.known)
<1>1. IsFiniteSet(AttemptsOf(Rev))
  BY ExitAssumption, FS_Subset DEF AttemptsOf
<1>2. SumFunctionOnSet(Taken, AttemptsOf(Rev)) \in Nat
  BY <1>1, TakenIs, SumNat DEF AttemptsOf
<1>3. Rev \in 1..Len(chain) /\ chain \in Seq(Mandate)
  BY DEF RowInv, TypeOK, HasActive, Rev
<1>4. chain[Rev] \in Mandate
  BY <1>3
<1>5. /\ Executable(chain[Rev]) \in Int /\ Executable(chain[Rev]) <= Lot
      /\ (Executable(chain[Rev]) > 0 => Active.known)
  BY <1>4, ExitAssumption DEF Executable, Mandate, Active
<1>6. QED
  BY <1>2, <1>5, ExitAssumption DEF Claimable

-----------------------------------------------------------------------------
LEMMA NoAttemptType == NoAttempt \in AttemptRow
BY ExitAssumption DEF NoAttempt, AttemptRow

(* The row of an attempt that is recorded.                                 *)
LEMMA NewRow ==
  ASSUME NEW v \in 0..MaxRev, NEW q \in 0..Lot, NEW row, row = Row(v, q)
  PROVE  /\ row \in AttemptRow /\ row.rev = v /\ row.submitted = q
         /\ row.filled = 0 /\ row.late = 0 /\ row.cancelled = 0
<1>1. row \in AttemptRow
  BY NoAttemptType DEF AttemptRow, Row
<1>2. row.rev = v /\ row.submitted = q
  BY NoAttemptType DEF AttemptRow, Row
<1>3. /\ row.filled = NoAttempt.filled /\ row.late = NoAttempt.late
      /\ row.cancelled = NoAttempt.cancelled
  BY NoAttemptType DEF AttemptRow, Row
<1>4. NoAttempt.filled = 0 /\ NoAttempt.late = 0 /\ NoAttempt.cancelled = 0
  BY DEF NoAttempt
<1>5. QED
  BY <1>1, <1>2, <1>3, <1>4

LEMMA InitRow == Init => RowInv
<1> SUFFICES ASSUME Init PROVE RowInv
  OBVIOUS
<1>1. /\ Lot \in Nat /\ MaxRev \in Nat /\ MaxLate \in Nat /\ MaxReopen \in Nat
  BY ExitAssumption
<1>2. NoAttempt \in AttemptRow
  BY NoAttemptType
<1>3. TypeOK
  <2>1. chain \in Seq(Mandate) /\ Len(chain) = 0
    BY DEF Init
  <2>2. Idle \in Op
    BY DEF Op
  <2>3. attempt \in [Attempts -> AttemptRow] /\ op \in [Workers -> Op]
    BY <1>2, <2>2 DEF Init
  <2>4. /\ lease \in Workers \cup {NoWorker} /\ query \in BOOLEAN
        /\ gone \subseteq Attempts /\ terminal \in BOOLEAN
    BY DEF Init
  <2>5. /\ worked \in [Workers -> 0..MaxRev] /\ held \in 0..Lot
        /\ book \in [Attempts -> 0..Lot] /\ sold \in [Attempts -> 0..Lot]
        /\ late \in [Attempts -> 0..MaxLate] /\ reopen \in 0..MaxReopen
        /\ Len(chain) <= MaxRev
    BY <1>1, <2>1 DEF Init
  <2>6. QED
    BY <2>1, <2>3, <2>4, <2>5 DEF TypeOK
<1>4. ASSUME NEW a \in Attempts PROVE RowTrue(a)
  BY <1>1, ExitAssumption DEF Init, RowTrue, NoAttempt, Sold, Rev
<1>5. ASSUME NEW w \in Workers PROVE ReadTrue(op[w])
  BY DEF Init, ReadTrue, Publishes, Idle
<1>6. QED
  BY <1>3, <1>4, <1>5 DEF RowInv

(* A read is what it says for as long as nothing else records.             *)
LEMMA ReadRow ==
  ASSUME LoneWorker, RowInv, NEW w \in Workers, NEW r \in Op, ReadTrue(r),
         Read(w, r)
  PROVE  RowInv'
<1>1. /\ UNCHANGED <<chain, attempt, lease, query, worked, held, book, sold,
                     gone, late, reopen, terminal>>
      /\ op' = [op EXCEPT ![w] = r]
  BY DEF Read, lane, world
<1>2. op' \in [Workers -> Op] /\ \A x \in Workers : op'[x] = r
  BY <1>1 DEF LoneWorker, RowInv, TypeOK
<1>3. TypeOK'
  BY <1>1, <1>2 DEF RowInv, TypeOK
<1>4. \A a \in Attempts : RowTrue(a)'
  BY <1>1 DEF RowInv, RowTrue, Rev
<1>5. ASSUME NEW x \in Workers PROVE ReadTrue(op[x])'
  BY <1>1, <1>2 DEF ReadTrue, SubmitTrue, SendTrue, OutcomeTrue, HasActive, Rev
<1>6. QED
  BY <1>3, <1>4, <1>5 DEF RowInv

LEMMA RefreshType ==
  ASSUME RowInv, NEW known \in BOOLEAN, NEW status \in Status,
         known => OnBook <= held
  PROVE  /\ Refresh(known, status) \in Mandate
         /\ [Refresh(known, status) EXCEPT !.reopened = reopen] \in Mandate
<1>1. OnBook \in Nat /\ held \in 0..Lot /\ reopen \in 0..MaxReopen
      /\ Lot \in Nat /\ MaxReopen \in Nat
  BY Sums0, ExitAssumption DEF RowInv, TypeOK
<1>2. QED
  BY <1>1 DEF Refresh, Mandate

LEMMA PublishRow ==
  ASSUME LoneWorker, RowInv, NEW w \in Workers,
         NEW kind \in {"derive", "reconcile"}, NEW m \in Mandate,
         NEW n \in Mandate, NEW rows \in {<<m>>, <<m, n>>},
         Publish(w, kind, rows)
  PROVE  RowInv'
<1> DEFINE r == [kind |-> kind, seen |-> Rev, rows |-> rows]
<1>1. Rev + Len(rows) <= MaxRev /\ Read(w, r)
  BY DEF Publish
<1>2. rows \in Seq(Mandate) /\ rows # <<>> /\ Len(rows) \in Nat
  <2>1. CASE rows = <<m>>
    BY <2>1
  <2>2. CASE rows = <<m, n>>
    BY <2>2
  <2>3. QED
    BY <2>1, <2>2
<1>3. Rev \in 0..MaxRev
  BY RevType DEF RowInv
<1>4. r \in Op
  BY <1>2, <1>3 DEF Op
<1>5. ReadTrue(r)
  BY <1>1, <1>2 DEF ReadTrue, Publishes
<1>6. QED
  BY <1>1, <1>4, <1>5, ReadRow

LEMMA DeriveRow ==
  ASSUME LoneWorker, RowInv, NEW w \in Workers, NEW known \in BOOLEAN,
         ReadDerive(w, known)
  PROVE  RowInv'
<1>1. PICK s \in Status :
        s = IF terminal THEN "TERMINAL_LEGAL"
            ELSE IF known THEN TruthStatus ELSE "PENDING"
  BY DEF Status, TruthStatus
<1>2. PICK m : m = Refresh(known, s)
  OBVIOUS
<1>3. PICK n : n = [m EXCEPT !.reopened = reopen]
  OBVIOUS
<1>4. PICK rows \in {<<m>>, <<n>>, <<m, n>>} : Publish(w, "derive", rows)
  BY <1>1, <1>2, <1>3 DEF ReadDerive
<1>5. m \in Mandate /\ n \in Mandate
  BY <1>2, <1>3, RefreshType DEF ReadDerive
<1>6. CASE rows = <<n>>
  BY <1>4, <1>5, <1>6, PublishRow
<1>7. CASE rows # <<n>>
  BY <1>4, <1>5, <1>7, PublishRow
<1>8. QED
  BY <1>6, <1>7

LEMMA ReconcileRow ==
  ASSUME LoneWorker, RowInv, NEW w \in Workers, ReadReconcile(w)
  PROVE  RowInv'
<1>1. PICK m : m = Refresh(TRUE, TruthStatus)
  OBVIOUS
<1>2. Publish(w, "reconcile", <<m>>) /\ OnBook <= held
  BY <1>1 DEF ReadReconcile
<1>3. TruthStatus \in Status
  BY DEF TruthStatus, Status
<1>4. m \in Mandate
  BY <1>1, <1>2, <1>3, RefreshType
<1>5. QED
  BY <1>2, <1>4, PublishRow

LEMMA SubmitReadRow ==
  ASSUME LoneWorker, RowInv, NEW w \in Workers, ReadSubmit(w)
  PROVE  RowInv'
<1>1. PICK a \in AttemptsOf(0), q \in 1..Claimable(Rev) :
        Read(w, [kind |-> "submit", attempt |-> a,
                 row |-> [NoAttempt EXCEPT !.rev = Rev, !.submitted = q]])
  BY DEF ReadSubmit
<1>2. PICK row : row = Row(Rev, q)
  OBVIOUS
<1> DEFINE r == [kind |-> "submit", attempt |-> a, row |-> row]
<1>3. HasActive
  BY DEF ReadSubmit, Pending
<1>4. q \in 0..Lot /\ q > 0
  BY <1>1, <1>3, ClaimableFits, ExitAssumption
<1>5. Rev \in 0..MaxRev
  BY RevType DEF RowInv
<1>6. row.submitted = q /\ row \in AttemptRow
  BY <1>4, <1>5, <1>2, NewRow
<1>7. ReadTrue(r)
  BY <1>3, <1>4, <1>6, <1>2 DEF ReadTrue, Publishes, SubmitTrue
<1>8. Read(w, r)
  BY <1>1, <1>2 DEF Row
<1>9. r \in Op
  BY <1>1, <1>6 DEF Op, AttemptsOf
<1>10. QED
  BY <1>7, <1>8, <1>9, ReadRow

LEMMA OutcomeReadRow ==
  ASSUME LoneWorker, RowInv, NEW w \in Workers, NEW a \in Attempts,
         ReadOutcome(w, a)
  PROVE  RowInv'
<1> DEFINE row == attempt[a]
           R(f, q) == [kind |-> "update", attempt |-> a, field |-> f, qty |-> q]
<1>1. /\ row.rev # 0 /\ row.submitted \in 0..Lot /\ row.filled \in 0..Lot
      /\ row.late \in 0..Lot /\ row.cancelled \in 0..Lot /\ sold[a] \in 0..Lot
      /\ book[a] \in 0..Lot
  BY DEF RowInv, TypeOK, AttemptRow, ReadOutcome
<1>2. /\ Lot \in Nat /\ row.filled + row.late <= sold[a]
      /\ book[a] + sold[a] <= row.submitted /\ (row.cancelled = 0 => row.late = 0)
  BY ExitAssumption DEF RowInv, RowTrue, Sold
<1>3. \A f \in {"filled", "late", "cancelled"}, q \in 0..Lot : R(f, q) \in Op
  BY DEF Op
<1>4. CASE /\ row.cancelled = 0 /\ sold[a] - row.late > row.filled
           /\ Read(w, R("filled", sold[a] - row.late))
  <2>1. sold[a] - row.late \in 0..Lot /\ sold[a] - row.late <= sold[a]
    BY <1>1, <1>2
  <2>2. ReadTrue(R("filled", sold[a] - row.late))
    BY <1>1, <1>4, <2>1 DEF ReadTrue, Publishes, OutcomeTrue
  <2>3. QED
    BY <1>3, <1>4, <2>1, <2>2, ReadRow
<1>5. CASE /\ row.cancelled = 0 /\ a \in gone
           /\ Read(w, R("cancelled", CancelledQty(row)))
  <2>1. CancelledQty(row) \in 0..Lot
    BY <1>1, <1>2 DEF CancelledQty, Sold
  <2>2. ReadTrue(R("cancelled", CancelledQty(row)))
    BY <1>1, <1>5, <2>1 DEF ReadTrue, Publishes, OutcomeTrue
  <2>3. QED
    BY <1>3, <1>5, <2>1, <2>2, ReadRow
<1>6. CASE /\ row.cancelled # 0 /\ sold[a] - row.filled > row.late
           /\ Read(w, R("late", sold[a] - row.filled))
  <2>1. sold[a] - row.filled \in 0..Lot /\ row.late < sold[a] - row.filled
        /\ row.filled + (sold[a] - row.filled) <= sold[a]
    BY <1>1, <1>2, <1>6
  <2>2. ReadTrue(R("late", sold[a] - row.filled))
    BY <1>1, <1>6, <2>1 DEF ReadTrue, Publishes, OutcomeTrue
  <2>3. QED
    BY <1>3, <1>6, <2>1, <2>2, ReadRow
<1>7. QED
  BY <1>4, <1>5, <1>6 DEF ReadOutcome

-----------------------------------------------------------------------------
LEMMA RowFacts ==
  ASSUME RowInv, NEW a \in Attempts
  PROVE  LET r == attempt[a] IN
         /\ r \in AttemptRow /\ Lot \in Nat /\ MaxRev \in Nat
         /\ r.rev \in 0..MaxRev /\ r.submitted \in 0..Lot /\ r.filled \in 0..Lot
         /\ r.late \in 0..Lot /\ r.cancelled \in 0..Lot
         /\ book[a] \in 0..Lot /\ sold[a] \in 0..Lot /\ late[a] \in 0..MaxLate
         /\ MaxLate \in Nat /\ r.filled + r.late <= sold[a]
         /\ r.rev = 0 => /\ a \notin gone /\ r.submitted = 0 /\ book[a] = 0
                         /\ sold[a] = 0 /\ late[a] = 0 /\ r.cancelled = 0
<1>1. /\ attempt[a] \in AttemptRow /\ Lot \in Nat /\ MaxRev \in Nat
      /\ MaxLate \in Nat
      /\ book[a] \in 0..Lot /\ sold[a] \in 0..Lot /\ late[a] \in 0..MaxLate
  BY ExitAssumption DEF RowInv, TypeOK
<1>2. /\ attempt[a].filled + attempt[a].late <= sold[a]
      /\ book[a] + sold[a] <= attempt[a].submitted /\ late[a] <= sold[a]
      /\ attempt[a].rev = 0 => attempt[a] = NoAttempt /\ a \notin gone
  BY DEF RowInv, RowTrue, Sold
<1>3. NoAttempt.submitted = 0 /\ NoAttempt.cancelled = 0
  BY DEF NoAttempt
<1>4. QED
  BY <1>1, <1>2, <1>3 DEF AttemptRow

(* A worker that is done has nothing left to be true.                      *)
LEMMA DoneRow ==
  ASSUME LoneWorker, RowInv, NEW w \in Workers, op' = [op EXCEPT ![w] = Idle]
  PROVE  op' \in [Workers -> Op] /\ \A x \in Workers : ReadTrue(op[x])'
<1>1. op \in [Workers -> Op] /\ Idle \in Op
  BY DEF RowInv, TypeOK, Op
<1>2. op' \in [Workers -> Op] /\ \A x \in Workers : op'[x] = Idle
  BY <1>1 DEF LoneWorker
<1>3. QED
  BY <1>2 DEF ReadTrue, Publishes, Idle

LEMMA CommitPublishRow ==
  ASSUME LoneWorker, RowInv, NEW w \in Workers, CommitPublish(w)
  PROVE  RowInv'
<1>1. PICK r \in Op : r = op[w]
  BY DEF RowInv, TypeOK
<1>2. /\ Publishes(r) /\ r.seen = Rev /\ chain' = chain \o r.rows
      /\ lease' = NoWorker /\ query' = QueryAfter(r)
      /\ op' = [op EXCEPT ![w] = Idle] /\ UNCHANGED worked
      /\ UNCHANGED <<attempt, held, book, sold, gone, late, reopen, terminal>>
  BY <1>1 DEF CommitPublish, Publishes, Done, world
<1>3. Rev + Len(r.rows) <= MaxRev
  BY <1>1, <1>2 DEF RowInv, ReadTrue
<1>4. r.rows \in Seq(Mandate)
  BY <1>1, <1>2 DEF Publishes, Op, Idle
<1>5. /\ chain' \in Seq(Mandate) /\ Len(chain') <= MaxRev /\ Rev' >= Rev
      /\ Rev' \in Nat
  BY <1>2, <1>3, <1>4 DEF RowInv, TypeOK, Rev
<1>6. QueryAfter(r) \in BOOLEAN
  BY DEF QueryAfter, RowInv, TypeOK
<1>7. TypeOK'
  BY <1>2, <1>5, <1>6, DoneRow DEF RowInv, TypeOK
<1>8. ASSUME NEW a \in Attempts PROVE RowTrue(a)'
  <2>1. attempt[a].rev \in 0..MaxRev /\ MaxRev \in Nat /\ attempt[a].rev <= Rev
        /\ Rev \in 0..MaxRev
    BY RowFacts, RevType DEF RowInv, RowTrue
  <2>2. attempt[a].rev <= Rev'
    BY <1>5, <2>1
  <2>3. QED
    BY <1>2, <2>2 DEF RowInv, RowTrue
<1>9. QED
  BY <1>2, <1>7, <1>8, DoneRow DEF RowInv

LEMMA CommitSubmitRow ==
  ASSUME LoneWorker, RowInv, NEW w \in Workers, CommitSubmit(w)
  PROVE  /\ RowInv'
         /\ LET a == op[w].attempt
                row == op[w].row
            IN /\ a \in AttemptsOf(0) /\ attempt' = [attempt EXCEPT ![a] = row]
               /\ HasActive /\ row.rev = Rev /\ row.submitted \in 1..Lot
               /\ row.cancelled = 0 /\ row.filled = 0 /\ row.late = 0
               /\ \A x \in Workers : op'[x] = [kind |-> "send", attempt |-> a]
               /\ UNCHANGED <<chain, lease, query, worked, held, book, sold,
                              gone, late, reopen, terminal>>
<1>1. PICK r \in Op : r = op[w]
  BY DEF RowInv, TypeOK
<1> DEFINE a == r.attempt
           row == r.row
           s == [kind |-> "send", attempt |-> a]
<1>2. /\ r.kind = "submit" /\ a \in AttemptsOf(0)
      /\ attempt' = [attempt EXCEPT ![a] = row]
      /\ op' = [op EXCEPT ![w] = s]
      /\ UNCHANGED <<chain, lease, query, worked, held, book, sold, gone, late,
                     reopen, terminal>>
  BY <1>1 DEF CommitSubmit, world
<1>3. /\ row \in AttemptRow /\ row.submitted > 0 /\ HasActive
      /\ row = Row(Rev, row.submitted)
  BY <1>1, <1>2 DEF Op, Idle, RowInv, ReadTrue, SubmitTrue
<1>4. row.submitted \in 1..Lot /\ row.submitted \in 0..Lot
  BY <1>3, ExitAssumption DEF AttemptRow
<1>5. /\ row.rev = Rev /\ row.filled = 0 /\ row.late = 0 /\ row.cancelled = 0
      /\ Rev \in 0..MaxRev
  BY <1>3, <1>4, RevType, NewRow DEF RowInv
<1>6. a \in Attempts /\ attempt[a].rev = 0
  BY <1>2 DEF AttemptsOf
<1>7. a \notin gone /\ book[a] = 0 /\ sold[a] = 0 /\ late[a] = 0
  BY <1>6, RowFacts
<1>8. s \in Op
  BY <1>6 DEF Op
<1>9. op' \in [Workers -> Op] /\ \A x \in Workers : op'[x] = s
  BY <1>2, <1>8 DEF LoneWorker, RowInv, TypeOK
<1>10. attempt' \in [Attempts -> AttemptRow] /\ attempt'[a] = row
       /\ \A b \in Attempts : b # a => attempt'[b] = attempt[b]
  BY <1>2, <1>3, <1>6 DEF RowInv, TypeOK
<1>11. TypeOK'
  BY <1>2, <1>9, <1>10 DEF RowInv, TypeOK
<1>12. Rev # 0
  BY <1>3 DEF HasActive, Rev, RowInv, TypeOK
<1>13. ASSUME NEW b \in Attempts PROVE RowTrue(b)'
  <2>1. CASE b = a
    <3>1. /\ attempt'[b].rev <= Rev' /\ attempt'[b].rev # 0
      BY <1>2, <1>5, <1>10, <1>12, <2>1, ExitAssumption DEF Rev
    <3>2. QED
      BY <1>2, <1>4, <1>5, <1>7, <1>10, <2>1, <3>1, ExitAssumption
      DEF RowTrue, Sold
  <2>2. CASE b # a
    BY <1>2, <1>10, <2>2 DEF RowInv, RowTrue, Rev
  <2>3. QED
    BY <2>1, <2>2
<1>14. SendTrue(s)'
  BY <1>2, <1>3, <1>5, <1>7, <1>10 DEF SendTrue, HasActive, Rev
<1>15. \A x \in Workers : ReadTrue(op[x])'
  BY <1>9, <1>14 DEF ReadTrue, Publishes
<1>16. QED
  BY <1>1, <1>2, <1>3, <1>4, <1>5, <1>9, <1>11, <1>13, <1>15 DEF RowInv

LEMMA SendRow ==
  ASSUME LoneWorker, RowInv, NEW w \in Workers, Send(w)
  PROVE  RowInv'
<1>1. PICK r \in Op : r = op[w]
  BY DEF RowInv, TypeOK
<1> DEFINE a == r.attempt
<1>2. /\ r.kind = "send" /\ book' = [book EXCEPT ![a] = attempt[a].submitted]
      /\ op' = [op EXCEPT ![w] = Idle]
      /\ UNCHANGED <<chain, attempt, lease, query, worked, held, sold, gone,
                     late, reopen, terminal>>
  BY <1>1 DEF Send, Done, lane
<1>3. a \in Attempts
  BY <1>1, <1>2 DEF Op, Idle
<1>4. a \notin gone /\ book[a] = 0 /\ sold[a] = 0
  BY <1>1, <1>2 DEF RowInv, ReadTrue, SendTrue
<1>5. attempt[a].submitted \in 0..Lot
  BY <1>3, RowFacts
<1>6. TypeOK'
  BY <1>2, <1>3, <1>5, DoneRow DEF RowInv, TypeOK
<1>7. ASSUME NEW b \in Attempts PROVE RowTrue(b)'
  <2>1. CASE b = a
    <3>1. book'[b] = attempt[b].submitted
      BY <1>2, <1>3, <2>1 DEF RowInv, TypeOK
    <3>2. book'[b] + sold[b] <= attempt[b].submitted
      BY <1>4, <1>5, <2>1, <3>1, ExitAssumption
    <3>3. QED
      BY <1>2, <1>4, <2>1, <3>2 DEF RowInv, RowTrue, Rev
  <2>2. CASE b # a
    <3>1. book'[b] = book[b]
      BY <1>2, <1>3, <2>2 DEF RowInv, TypeOK
    <3>2. QED
      BY <1>2, <3>1 DEF RowInv, RowTrue, Rev
  <2>3. QED
    BY <2>1, <2>2
<1>8. QED
  BY <1>2, <1>6, <1>7, DoneRow DEF RowInv

(* What _update_attempt leaves in the row.                                 *)
LEMMA CommitOutcomeRow ==
  ASSUME LoneWorker, RowInv, NEW w \in Workers, CommitOutcome(w)
  PROVE  /\ RowInv'
         /\ UNCHANGED <<chain, lease, query, worked, held, book, sold, gone,
                        late, reopen, terminal>>
         /\ op' = [op EXCEPT ![w] = Idle]
         /\ \E a \in Attempts :
              /\ \A b \in Attempts : b # a => attempt'[b] = attempt[b]
              /\ attempt'[a].rev = attempt[a].rev /\ attempt[a].rev # 0
              /\ attempt'[a].submitted = attempt[a].submitted
              /\ \/ /\ attempt[a].cancelled = 0 /\ attempt'[a].cancelled = 0
                 \/ /\ attempt[a].cancelled = 0
                    /\ attempt'[a].filled = attempt[a].filled
                    /\ attempt'[a].late = attempt[a].late
                 \/ /\ attempt[a].cancelled # 0
                    /\ attempt'[a].cancelled = attempt[a].cancelled
                    /\ attempt'[a].filled = attempt[a].filled
<1>1. PICK r \in Op : r = op[w]
  BY DEF RowInv, TypeOK
<1> DEFINE a == r.attempt
           old == attempt[a]
           new == attempt'[a]
<1>2. /\ r.kind = "update"
      /\ attempt' = [attempt EXCEPT ![a][r.field] = r.qty]
      /\ op' = [op EXCEPT ![w] = Idle]
      /\ UNCHANGED <<chain, lease, query, worked, held, book, sold, gone, late,
                     reopen, terminal>>
  BY <1>1 DEF CommitOutcome, Done, world
<1>3. /\ a \in Attempts /\ r.qty \in 0..Lot
      /\ r.field \in {"filled", "late", "cancelled"}
  BY <1>1, <1>2 DEF Op, Idle
<1>4. OutcomeTrue(r)
  BY <1>1, <1>2 DEF RowInv, ReadTrue
<1>5. \A b \in Attempts : b # a => attempt'[b] = attempt[b]
  BY <1>2, <1>3 DEF RowInv, TypeOK
<1>6. new = [old EXCEPT ![r.field] = r.qty]
  BY <1>2, <1>3 DEF RowInv, TypeOK
<1>7. old \in AttemptRow
  BY <1>3 DEF RowInv, TypeOK
<1>8. /\ new \in AttemptRow
      /\ new.rev = old.rev /\ new.submitted = old.submitted
      /\ new.filled = IF r.field = "filled" THEN r.qty ELSE old.filled
      /\ new.late = IF r.field = "late" THEN r.qty ELSE old.late
      /\ new.cancelled = IF r.field = "cancelled" THEN r.qty ELSE old.cancelled
  BY <1>3, <1>6, <1>7 DEF AttemptRow
<1>9. attempt' \in [Attempts -> AttemptRow]
  BY <1>2, <1>3, <1>8 DEF RowInv, TypeOK
<1>10. TypeOK'
  BY <1>2, <1>9, DoneRow DEF RowInv, TypeOK
<1>11. ASSUME NEW b \in Attempts PROVE RowTrue(b)'
  <2>1. CASE b = a
    <3>1. /\ old.rev # 0 /\ Lot \in Nat
          /\ old.submitted \in 0..Lot /\ old.filled \in 0..Lot
          /\ old.late \in 0..Lot /\ old.cancelled \in 0..Lot /\ sold[a] \in 0..Lot
      BY <1>3, <1>4, RowFacts DEF OutcomeTrue
    <3>2. /\ old.rev <= Rev /\ book[a] + sold[a] <= old.submitted
          /\ late[a] <= sold[a] /\ (a \in gone => book[a] = 0)
          /\ old.filled + old.late <= sold[a]
          /\ (old.cancelled = 0 => old.late = 0)
          /\ (old.cancelled # 0 => /\ a \in gone
                /\ old.filled + old.late + old.cancelled >= old.submitted)
      BY <1>3 DEF RowInv, RowTrue, Sold
    <3>3. /\ new.filled + new.late <= sold[a]
          /\ (new.cancelled = 0 => new.late = 0)
          /\ (new.cancelled # 0 => /\ a \in gone
                /\ new.filled + new.late + new.cancelled >= new.submitted)
      <4>1. CASE r.field = "filled"
        BY <1>3, <1>4, <1>8, <3>1, <3>2, <4>1 DEF OutcomeTrue
      <4>2. CASE r.field = "cancelled"
        BY <1>3, <1>4, <1>8, <3>1, <3>2, <4>2
        DEF OutcomeTrue, CancelledQty, Sold
      <4>3. CASE r.field = "late"
        BY <1>3, <1>4, <1>8, <3>1, <3>2, <4>3 DEF OutcomeTrue
      <4>4. QED
        BY <1>3, <4>1, <4>2, <4>3
    <3>4. QED
      BY <1>2, <1>8, <2>1, <3>1, <3>2, <3>3 DEF RowTrue, Sold, Rev
  <2>2. CASE b # a
    BY <1>2, <1>5, <2>2 DEF RowInv, RowTrue, Rev
  <2>3. QED
    BY <2>1, <2>2
<1>12. RowInv'
  BY <1>2, <1>10, <1>11, DoneRow DEF RowInv
<1>13. old.rev # 0
  BY <1>4 DEF OutcomeTrue
<1>14. \/ old.cancelled = 0 /\ new.cancelled = 0
       \/ old.cancelled = 0 /\ new.filled = old.filled /\ new.late = old.late
       \/ /\ old.cancelled # 0 /\ new.cancelled = old.cancelled
          /\ new.filled = old.filled
  BY <1>3, <1>4, <1>8 DEF OutcomeTrue
<1>15. QED
  BY <1>2, <1>3, <1>5, <1>8, <1>12, <1>13, <1>14

LEMMA LeaseRow ==
  ASSUME LoneWorker, RowInv, NEW w \in Workers,
         ScheduleQuery(w) \/ Claim(w) \/ ReleaseLease(w) \/ Expire
  PROVE  RowInv'
<1>1. /\ UNCHANGED <<chain, attempt, op, held, book, sold, gone, late, reopen,
                     terminal>>
      /\ lease' \in {lease, w, NoWorker} /\ query' \in {query, TRUE}
      /\ \/ UNCHANGED worked \/ worked' = [worked EXCEPT ![w] = Rev]
         \/ worked' = [worked EXCEPT ![w] = 0]
  BY DEF ScheduleQuery, Claim, ReleaseLease, Expire, client, world
<1>2. worked' \in [Workers -> 0..MaxRev]
  <2>1. Rev \in 0..MaxRev /\ 0 \in 0..MaxRev
    BY RevType, ExitAssumption DEF RowInv
  <2>2. QED
    BY <1>1, <2>1 DEF RowInv, TypeOK
<1>3. TypeOK'
  BY <1>1, <1>2 DEF RowInv, TypeOK
<1>4. \A a \in Attempts : RowTrue(a)'
  BY <1>1 DEF RowInv, RowTrue, Rev
<1>5. ASSUME NEW x \in Workers PROVE ReadTrue(op[x])'
  BY <1>1 DEF RowInv, ReadTrue, SubmitTrue, SendTrue, OutcomeTrue, HasActive, Rev
<1>6. QED
  BY <1>3, <1>4, <1>5 DEF RowInv

LEMMA StopRow ==
  ASSUME LoneWorker, RowInv, NEW w \in Workers, Abort(w) \/ Crash(w)
  PROVE  RowInv'
<1>1. /\ UNCHANGED <<chain, attempt, lease, query, held, book, sold, late,
                     reopen, terminal>>
      /\ op' = [op EXCEPT ![w] = Idle]
      /\ worked' \in {worked, [worked EXCEPT ![w] = 0]}
      /\ gone' = gone \/ (op[w].kind = "send" /\ gone' = gone \cup {op[w].attempt})
  BY DEF Abort, Crash, Done, lane, world
<1>2. PICK r \in Op : r = op[w]
  BY DEF RowInv, TypeOK
<1>3. r.kind = "send" => r.attempt \in Attempts /\ SendTrue(r) /\ Rev # 0
  BY <1>2 DEF Op, Idle, RowInv, ReadTrue, SendTrue, HasActive, TypeOK, Rev
<1>4. gone' \subseteq Attempts
      /\ \A a \in Attempts : a \in gone' /\ a \notin gone =>
                               book[a] = 0 /\ attempt[a].rev # 0
  BY <1>1, <1>2, <1>3 DEF RowInv, TypeOK, SendTrue
<1>5. worked' \in [Workers -> 0..MaxRev] /\ gone \subseteq gone'
  BY <1>1, ExitAssumption DEF RowInv, TypeOK
<1>6. TypeOK'
  BY <1>1, <1>4, <1>5, DoneRow DEF RowInv, TypeOK
<1>7. \A a \in Attempts : RowTrue(a)'
  BY <1>1, <1>4, <1>5 DEF RowInv, RowTrue, Rev
<1>8. QED
  BY <1>1, <1>6, <1>7, DoneRow DEF RowInv

LEMMA FillRow ==
  ASSUME RowInv, NEW a \in Attempts, Fill(a)
  PROVE  RowInv'
<1>1. /\ book[a] > 0 /\ book' = [book EXCEPT ![a] = @ - 1]
      /\ held > 0 /\ held' = held - 1 /\ sold' = [sold EXCEPT ![a] = @ + 1]
      /\ UNCHANGED <<chain, attempt, lease, query, worked, op, gone, late,
                     reopen, terminal>>
  BY DEF Fill, Trade, lane, client
<1>2. /\ book[a] \in 0..Lot /\ sold[a] \in 0..Lot /\ Lot \in Nat
      /\ attempt[a].submitted \in 0..Lot /\ attempt[a].rev # 0
      /\ late[a] \in 0..MaxLate /\ MaxLate \in Nat
  BY <1>1, RowFacts
<1>3. book[a] + sold[a] <= attempt[a].submitted /\ late[a] <= sold[a]
      /\ a \notin gone
  BY <1>1 DEF RowInv, RowTrue
<1>4. /\ book[a] - 1 \in 0..Lot /\ sold[a] + 1 \in 0..Lot
      /\ (book[a] - 1) + (sold[a] + 1) <= attempt[a].submitted
      /\ late[a] <= sold[a] + 1 /\ held - 1 \in 0..Lot
  <2>1. held \in 0..Lot
    BY DEF RowInv, TypeOK
  <2>2. QED
    BY <1>1, <1>2, <1>3, <2>1
<1>5. /\ book' \in [Attempts -> 0..Lot] /\ sold' \in [Attempts -> 0..Lot]
      /\ book'[a] = book[a] - 1 /\ sold'[a] = sold[a] + 1
      /\ \A b \in Attempts : b # a => book'[b] = book[b] /\ sold'[b] = sold[b]
  BY <1>1, <1>4 DEF RowInv, TypeOK
<1>6. TypeOK'
  BY <1>1, <1>4, <1>5 DEF RowInv, TypeOK
<1>7. ASSUME NEW b \in Attempts PROVE RowTrue(b)'
  <2>1. CASE b = a
    <3>1. Sold(attempt[a]) \in Nat /\ Sold(attempt[a]) <= sold[a]
      BY RowFacts DEF Sold
    <3>2. Sold(attempt[a]) <= sold[a] + 1
      BY <1>2, <3>1
    <3>3. QED
      BY <1>1, <1>2, <1>3, <1>4, <1>5, <2>1, <3>2 DEF RowInv, RowTrue, Rev
  <2>2. CASE b # a
    BY <1>1, <1>5, <2>2 DEF RowInv, RowTrue, Rev
  <2>3. QED
    BY <2>1, <2>2
<1>8. ASSUME NEW x \in Workers PROVE ReadTrue(op[x])'
  <2>1. PICK r \in Op : r = op[x] /\ ReadTrue(r) /\ op'[x] = r
    BY <1>1 DEF RowInv, TypeOK
  <2>2. CASE r.kind = "send"
    <3>1. r.attempt \in Attempts /\ r.attempt # a
      BY <1>1, <2>1, <2>2 DEF Op, Idle, ReadTrue, SendTrue
    <3>2. QED
      BY <1>1, <1>5, <2>1, <2>2, <3>1
      DEF ReadTrue, Publishes, SendTrue, HasActive, Rev
  <2>3. CASE r.kind = "update"
    <3>1. r.attempt \in Attempts /\ r.qty \in 0..Lot
      BY <2>1, <2>3 DEF Op, Idle
    <3>2. /\ sold[r.attempt] \in 0..Lot /\ attempt[r.attempt].filled \in 0..Lot
          /\ sold'[r.attempt] \in 0..Lot /\ sold[r.attempt] <= sold'[r.attempt]
      BY <1>2, <1>5, <3>1, RowFacts
    <3>3. OutcomeTrue(r)'
      BY <1>1, <1>2, <2>1, <2>3, <3>1, <3>2 DEF ReadTrue, OutcomeTrue
    <3>4. QED
      BY <2>1, <2>3, <3>3 DEF ReadTrue, Publishes
  <2>4. CASE r.kind \notin {"send", "update"}
    BY <1>1, <2>1, <2>4 DEF ReadTrue, SubmitTrue, HasActive, Rev
  <2>5. QED
    BY <2>2, <2>3, <2>4
<1>9. QED
  BY <1>6, <1>7, <1>8 DEF RowInv

LEMMA LateFillRow ==
  ASSUME RowInv, NEW a \in Attempts, LateFill(a)
  PROVE  RowInv'
<1>1. /\ a \in gone /\ sold[a] < attempt[a].submitted /\ LateFills < MaxLate
      /\ late' = [late EXCEPT ![a] = @ + 1]
      /\ held > 0 /\ held' = held - 1 /\ sold' = [sold EXCEPT ![a] = @ + 1]
      /\ UNCHANGED <<chain, attempt, lease, query, worked, op, book, gone,
                     reopen, terminal>>
  BY DEF LateFill, Trade, lane, client
<1>2. /\ book[a] \in 0..Lot /\ sold[a] \in 0..Lot /\ Lot \in Nat
      /\ attempt[a].submitted \in 0..Lot /\ attempt[a].rev # 0
      /\ late[a] \in 0..MaxLate /\ MaxLate \in Nat
  BY <1>1, RowFacts
<1>3. book[a] = 0 /\ late[a] <= sold[a]
  BY <1>1 DEF RowInv, RowTrue
<1>4. late[a] <= LateFills /\ LateFills \in Nat
  <2>1. \A b \in Attempts : late[b] \in Nat
    BY DEF RowInv, TypeOK
  <2>2. QED
    BY <2>1, SumBounds, Sums0, ExitAssumption DEF LateFills, RowInv
<1>5. /\ late[a] + 1 \in 0..MaxLate /\ sold[a] + 1 \in 0..Lot
      /\ book[a] + (sold[a] + 1) <= attempt[a].submitted
      /\ late[a] + 1 <= sold[a] + 1 /\ held - 1 \in 0..Lot
  <2>1. held \in 0..Lot
    BY DEF RowInv, TypeOK
  <2>2. QED
    BY <1>1, <1>2, <1>3, <1>4, <2>1
<1>6. /\ late' \in [Attempts -> 0..MaxLate] /\ sold' \in [Attempts -> 0..Lot]
      /\ late'[a] = late[a] + 1 /\ sold'[a] = sold[a] + 1
      /\ \A b \in Attempts : b # a => late'[b] = late[b] /\ sold'[b] = sold[b]
  BY <1>1, <1>5 DEF RowInv, TypeOK
<1>7. TypeOK'
  BY <1>1, <1>5, <1>6 DEF RowInv, TypeOK
<1>8. ASSUME NEW b \in Attempts PROVE RowTrue(b)'
  <2>1. CASE b = a
    <3>1. Sold(attempt[a]) \in Nat /\ Sold(attempt[a]) <= sold[a]
      BY RowFacts DEF Sold
    <3>2. Sold(attempt[a]) <= sold[a] + 1
      BY <1>2, <3>1
    <3>3. QED
      BY <1>1, <1>2, <1>3, <1>5, <1>6, <2>1, <3>2 DEF RowInv, RowTrue, Rev
  <2>2. CASE b # a
    BY <1>1, <1>6, <2>2 DEF RowInv, RowTrue, Rev
  <2>3. QED
    BY <2>1, <2>2
<1>9. ASSUME NEW x \in Workers PROVE ReadTrue(op[x])'
  <2>1. PICK r \in Op : r = op[x] /\ ReadTrue(r) /\ op'[x] = r
    BY <1>1 DEF RowInv, TypeOK
  <2>2. CASE r.kind = "send"
    <3>1. r.attempt \in Attempts /\ r.attempt # a
      BY <1>1, <2>1, <2>2 DEF Op, Idle, ReadTrue, SendTrue
    <3>2. QED
      BY <1>1, <1>6, <2>1, <2>2, <3>1
      DEF ReadTrue, Publishes, SendTrue, HasActive, Rev
  <2>3. CASE r.kind = "update"
    <3>1. r.attempt \in Attempts /\ r.qty \in 0..Lot
      BY <2>1, <2>3 DEF Op, Idle
    <3>2. /\ sold[r.attempt] \in 0..Lot /\ attempt[r.attempt].filled \in 0..Lot
          /\ sold'[r.attempt] \in 0..Lot /\ sold[r.attempt] <= sold'[r.attempt]
      BY <1>2, <1>6, <3>1, RowFacts
    <3>3. OutcomeTrue(r)'
      BY <1>1, <1>2, <2>1, <2>3, <3>1, <3>2 DEF ReadTrue, OutcomeTrue
    <3>4. QED
      BY <2>1, <2>3, <3>3 DEF ReadTrue, Publishes
  <2>4. CASE r.kind \notin {"send", "update"}
    BY <1>1, <2>1, <2>4 DEF ReadTrue, SubmitTrue, HasActive, Rev
  <2>5. QED
    BY <2>2, <2>3, <2>4
<1>10. QED
  BY <1>7, <1>8, <1>9 DEF RowInv

LEMMA BrokerRow ==
  ASSUME RowInv, (\E a \in Attempts : BrokerCancel(a)) \/ Bust \/ LegalTerminal
  PROVE  RowInv'
<1> DEFINE World ==
             /\ UNCHANGED <<chain, attempt, lease, query, worked, op, sold, late>>
             /\ held' \in 0..Lot /\ reopen' \in 0..MaxReopen /\ terminal' \in BOOLEAN
             /\ book' \in [Attempts -> 0..Lot] /\ gone \subseteq gone'
             /\ gone' \subseteq Attempts
             /\ \A b \in Attempts : \/ book'[b] = book[b] /\ (b \in gone' => b \in gone)
                                    \/ b \in gone' /\ book'[b] = 0 /\ book[b] > 0
<1>1. World
  <2>1. TypeOK /\ Lot \in Nat /\ MaxReopen \in Nat
    BY ExitAssumption DEF RowInv
  <2>2. ASSUME NEW a \in Attempts, BrokerCancel(a) PROVE World
    BY <2>1, <2>2 DEF BrokerCancel, TypeOK, lane, client
  <2>3. CASE Bust
    <3>1. held < Lot /\ held' = held + 1
          /\ (reopen' = reopen \/ (reopen < MaxReopen /\ reopen' = reopen + 1))
          /\ UNCHANGED <<chain, attempt, lease, query, worked, op, book, sold,
                         gone, late, terminal>>
      BY <2>3 DEF Bust, lane, client
    <3>2. held' \in 0..Lot /\ reopen' \in 0..MaxReopen
      BY <2>1, <3>1 DEF TypeOK
    <3>3. QED
      BY <2>1, <3>1, <3>2 DEF TypeOK
  <2>4. CASE LegalTerminal
    BY <2>1, <2>4 DEF LegalTerminal, TypeOK, lane, client
  <2>5. QED
    BY <2>2, <2>3, <2>4
<1>2. TypeOK'
  BY <1>1 DEF RowInv, TypeOK
<1>3. ASSUME NEW b \in Attempts PROVE RowTrue(b)'
  <2>1. /\ book[b] \in 0..Lot /\ sold[b] \in 0..Lot /\ Lot \in Nat
        /\ attempt[b].submitted \in 0..Lot
        /\ (attempt[b].rev = 0 => book[b] = 0)
    BY RowFacts
  <2>2. book[b] + sold[b] <= attempt[b].submitted
    BY DEF RowInv, RowTrue
  <2>3. CASE book'[b] = book[b] /\ (b \in gone' => b \in gone)
    BY <1>1, <2>3 DEF RowInv, RowTrue, Rev
  <2>4. CASE b \in gone' /\ book'[b] = 0 /\ book[b] > 0
    <3>1. book'[b] + sold[b] <= attempt[b].submitted /\ attempt[b].rev # 0
      BY <2>1, <2>2, <2>4
    <3>2. QED
      BY <1>1, <2>4, <3>1 DEF RowInv, RowTrue, Rev
  <2>5. QED
    BY <1>1, <2>3, <2>4
<1>4. ASSUME NEW x \in Workers PROVE ReadTrue(op[x])'
  <2>1. PICK r \in Op : r = op[x] /\ ReadTrue(r) /\ op'[x] = r
    BY <1>1 DEF RowInv, TypeOK
  <2>2. CASE r.kind = "send"
    <3>1. r.attempt \in Attempts /\ r.attempt \notin gone /\ book[r.attempt] = 0
      BY <2>1, <2>2 DEF Op, Idle, ReadTrue, SendTrue
    <3>2. r.attempt \notin gone' /\ book'[r.attempt] = 0
      BY <1>1, <3>1
    <3>3. QED
      BY <1>1, <2>1, <2>2, <3>2
      DEF ReadTrue, Publishes, SendTrue, HasActive, Rev
  <2>3. CASE r.kind = "update"
    BY <1>1, <2>1, <2>3 DEF ReadTrue, Publishes, OutcomeTrue
  <2>4. CASE r.kind \notin {"send", "update"}
    BY <1>1, <2>1, <2>4 DEF ReadTrue, SubmitTrue, HasActive, Rev
  <2>5. QED
    BY <2>2, <2>3, <2>4
<1>5. QED
  BY <1>2, <1>3, <1>4 DEF RowInv

LEMMA NextRow == LoneWorker /\ RowInv /\ [Next]_vars => RowInv'
<1> SUFFICES ASSUME LoneWorker, RowInv, [Next]_vars PROVE RowInv'
  OBVIOUS
<1>1. CASE UNCHANGED vars
  BY <1>1 DEF vars, RowInv, TypeOK, RowTrue, Rev, ReadTrue, SubmitTrue,
     SendTrue, OutcomeTrue, HasActive
<1>2. ASSUME NEW w \in Workers, Worker(w) PROVE RowInv'
  BY <1>2, DeriveRow, ReconcileRow, CommitPublishRow, LeaseRow, SubmitReadRow,
     CommitSubmitRow, SendRow, OutcomeReadRow, CommitOutcomeRow, StopRow
  DEF Worker
<1>3. CASE Expire
  <2>1. PICK w \in Workers : TRUE
    BY <1>3 DEF Expire, RowInv, TypeOK
  <2>2. QED
    BY <1>3, <2>1, LeaseRow
<1>4. CASE Broker
  BY <1>4, FillRow, LateFillRow, BrokerRow DEF Broker
<1>5. QED
  BY <1>1, <1>2, <1>3, <1>4 DEF Next

(* With one worker at a time, every row has its type: no quantity is       *)
(* negative or beyond the lot, whatever the broker reports and whenever    *)
(* (derive_exit_mandates, record_exit_attempt, _update_attempt).           *)
THEOREM LaneTyped == ASSUME LoneWorker PROVE Spec => []TypeOK
<1>1. RowInv => TypeOK
  BY DEF RowInv
<1>2. RowInv /\ [Next]_vars => RowInv'
  BY NextRow
<1>3. QED
  BY InitRow, <1>1, <1>2, PTL DEF Spec

-----------------------------------------------------------------------------
(* Quantities.  What the lot can still lose to the orders of older         *)
(* mandates, less what the active one has already sold: with it, what the  *)
(* active mandate may execute fits the shares held and what came late.     *)
Drawn(a) == IF attempt[a].rev = Rev THEN late[a] - sold[a] ELSE book[a]
AllDrawn == SumFunctionOnSet([a \in Attempts |-> Drawn(a)], Attempts)
AllOvertaken == SumFunctionOnSet([a \in Attempts |-> Overtaken(a)], Attempts)
Cover == held + LateFills + AllOvertaken

Sound(m) == m.known => m.leaves <= m.tradable
ChainSound == \A i \in 1..Rev : Sound(chain[i])
Fits(m, drawn) == m.known => Executable(m) + drawn <= held + LateFills
ActiveFits == HasActive => Fits(Active, AllDrawn)

(* What a worker has read leaves room for what it is about to record.      *)
ReadFits(r) ==
  /\ Publishes(r) => \A i \in 1..Len(r.rows) :
                       Sound(r.rows[i]) /\ Fits(r.rows[i], OnBook)
  /\ r.kind = "submit" => r.row.submitted <= Claimable(Rev)
  /\ r.kind = "send" => OnBook + attempt[r.attempt].submitted <= Cover

QuantityInv ==
  /\ ChainSound /\ ActiveFits /\ NeverOversells /\ SubmissionsCovered
  /\ \A w \in Workers : ReadFits(op[w])

LaneInv == RowInv /\ QuantityInv

QuantityTypes ==
  /\ OnBook \in Nat /\ LateFills \in Nat /\ AllDrawn \in Int
  /\ AllOvertaken \in Nat /\ Cover \in Int /\ held \in Nat
  /\ \A a \in Attempts : Drawn(a) \in Int /\ Overtaken(a) \in Nat
  /\ \A m \in Mandate : Executable(m) \in Int

LEMMA OvertakenIs ==
  ASSUME RowInv, NEW a \in Attempts
  PROVE  /\ Overtaken(a) \in Nat
         /\ attempt[a].cancelled = 0 => Overtaken(a) = 0
         /\ attempt[a].cancelled # 0 =>
              Overtaken(a) >= sold[a] - late[a] - attempt[a].filled
<1> DEFINE n == sold[a] - late[a] - attempt[a].filled
<1>1. n \in Int
  BY RowFacts
<1> HIDE DEF n
<1>2. Max({0, n}) = IF n > 0 THEN n ELSE 0
  BY <1>1, Positive
<1>3. Overtaken(a) = IF attempt[a].cancelled = 0 THEN 0 ELSE Max({0, n})
  BY DEF Overtaken, n
<1>4. QED
  BY <1>1, <1>2, <1>3 DEF n

LEMMA Quantities == RowInv => QuantityTypes
<1> SUFFICES ASSUME RowInv PROVE QuantityTypes
  OBVIOUS
<1>1. \A a \in Attempts : Drawn(a) \in Int
  BY RowFacts DEF Drawn
<1>2. \A a \in Attempts : Overtaken(a) \in Nat
  BY OvertakenIs
<1>3. AllDrawn \in Int /\ AllOvertaken \in Nat
  BY <1>1, <1>2, SumInt, SumNat, ExitAssumption DEF AllDrawn, AllOvertaken
<1>4. held \in Nat /\ OnBook \in Nat /\ LateFills \in Nat
  BY Sums0, ExitAssumption DEF RowInv, TypeOK
<1>5. \A m \in Mandate : Executable(m) \in Int
  BY ExitAssumption DEF Mandate, Executable
<1>6. Cover \in Int
  BY <1>3, <1>4 DEF Cover
<1>7. QED
  BY <1>1, <1>2, <1>3, <1>4, <1>5, <1>6 DEF QuantityTypes

LEMMA QuantitiesNext == RowInv' => QuantityTypes'
BY Quantities, PTL

LEMMA ActiveType == RowInv /\ HasActive => Active \in Mandate /\ Rev \in 1..Rev
<1> SUFFICES ASSUME RowInv, HasActive PROVE Active \in Mandate /\ Rev \in 1..Rev
  OBVIOUS
<1>1. chain \in Seq(Mandate) /\ chain # <<>>
  BY DEF RowInv, TypeOK, HasActive
<1>2. QED
  BY <1>1 DEF Active, Rev

LEMMA InitQuantity == Init => LaneInv
<1> SUFFICES ASSUME Init PROVE QuantityInv
  BY InitRow DEF LaneInv
<1>1. Rev = 0 /\ ~HasActive /\ \A w \in Workers : op[w] = Idle
  BY DEF Init, Rev, HasActive
<1>2. RowInv /\ QuantityTypes
  BY InitRow, Quantities
<1>3. OnBook = 0
  BY SumZero, ExitAssumption DEF Init, OnBook
<1>4. NeverOversells
  BY <1>2, <1>3 DEF NeverOversells, QuantityTypes, AllOvertaken
<1>5. \A w \in Workers : ReadFits(op[w])
  BY <1>1 DEF ReadFits, Publishes, Idle
<1>6. QED
  BY <1>1, <1>4, <1>5
  DEF QuantityInv, ChainSound, ActiveFits, SubmissionsCovered

(* A step of the world, or one that only forgets a read: the shares and    *)
(* the orders move together.                                               *)
LEMMA WorldQuantity ==
  ASSUME LaneInv, RowInv', UNCHANGED <<chain, attempt>>,
         \A w \in Workers : op'[w] = op[w] \/ op'[w] = Idle,
         OnBook' + held + LateFills <= OnBook + held' + LateFills',
         AllDrawn' + held + LateFills <= AllDrawn + held' + LateFills',
         \A a \in Attempts : Overtaken(a) <= Overtaken(a)'
  PROVE  LaneInv'
<1>1. QuantityTypes /\ QuantityTypes' /\ RowInv /\ QuantityInv
  BY Quantities, QuantitiesNext DEF LaneInv
<1>2. AllOvertaken <= AllOvertaken'
  <2> DEFINE f == [a \in Attempts |-> Overtaken(a)]
             g == [a \in Attempts |-> Overtaken(a)']
  <2>1. \A a \in Attempts : f[a] \in Int /\ g[a] \in Int /\ f[a] <= g[a]
    BY <1>1 DEF QuantityTypes
  <2>2. AllOvertaken = SumFunctionOnSet(f, Attempts)
        /\ AllOvertaken' = SumFunctionOnSet(g, Attempts)
    BY DEF AllOvertaken
  <2> HIDE DEF f, g
  <2>3. QED
    BY <2>1, <2>2, SumGrows, ExitAssumption
<1>3. PICK o \in Nat, k \in Int :
        OnBook' = o /\ Cover' = k /\ o + Cover <= OnBook + k
  <2>1. PICK o \in Nat, h \in Nat, l \in Nat, t \in Nat, k \in Int :
          /\ OnBook' = o /\ held' = h /\ LateFills' = l /\ AllOvertaken' = t
          /\ Cover' = k
    BY <1>1 DEF QuantityTypes
  <2>2. o + held + LateFills <= OnBook + h + l /\ AllOvertaken <= t
        /\ k = h + l + t
    BY <1>2, <2>1 DEF Cover
  <2>3. o + Cover <= OnBook + k
    BY <1>1, <2>2 DEF Cover, QuantityTypes
  <2>4. QED
    BY <2>1, <2>3
<1>4. NeverOversells'
  <2>1. OnBook <= Cover
    BY <1>1 DEF QuantityInv, NeverOversells, Cover, AllOvertaken
  <2>2. OnBook \in Nat /\ Cover \in Int
    BY <1>1 DEF QuantityTypes
  <2>3. o <= k
    BY <1>3, <2>1, <2>2
  <2>4. QED
    BY <1>3, <2>3 DEF NeverOversells, Cover, AllOvertaken
<1>5. ASSUME NEW m \in Mandate
      PROVE  /\ Fits(m, OnBook) => Fits(m, OnBook)'
             /\ Fits(m, AllDrawn) => Fits(m, AllDrawn)'
  <2>1. PICK p \in Nat, h \in Nat, l \in Nat, d \in Int :
          OnBook' = p /\ held' = h /\ LateFills' = l /\ AllDrawn' = d
    BY <1>1 DEF QuantityTypes
  <2>2. /\ p + held + LateFills <= OnBook + h + l
        /\ d + held + LateFills <= AllDrawn + h + l
    BY <2>1
  <2>3. Executable(m) \in Int /\ OnBook \in Nat /\ held \in Nat
        /\ LateFills \in Nat /\ AllDrawn \in Int
    BY <1>1 DEF QuantityTypes
  <2>4. /\ Executable(m) + OnBook <= held + LateFills => Executable(m) + p <= h + l
        /\ Executable(m) + AllDrawn <= held + LateFills => Executable(m) + d <= h + l
    BY <2>2, <2>3
  <2>5. QED
    BY <2>1, <2>4 DEF Fits, Executable
<1>6. ActiveFits'
  BY <1>1, <1>5, ActiveType
  DEF QuantityInv, ActiveFits, HasActive, Active, Rev
<1>7. ASSUME NEW w \in Workers PROVE ReadFits(op[w])'
  <2>1. PICK r \in Op : r = op[w] /\ ReadFits(r) /\ ReadTrue(r)
    BY <1>1 DEF RowInv, TypeOK, QuantityInv
  <2>2. CASE op'[w] = Idle
    BY <2>2 DEF ReadFits, Publishes, Idle
  <2>3. CASE op'[w] = r /\ Publishes(r)
    <3>1. r.rows \in Seq(Mandate)
      BY <2>3 DEF Publishes, Op, Idle
    <3>2. \A i \in 1..Len(r.rows) : r.rows[i] \in Mandate
      BY <3>1
    <3>3. \A i \in 1..Len(r.rows) : Sound(r.rows[i]) /\ Fits(r.rows[i], OnBook)'
      BY <1>5, <2>1, <2>3, <3>2 DEF ReadFits
    <3>4. QED
      BY <2>3, <3>3 DEF ReadFits, Publishes, Sound
  <2>4. CASE op'[w] = r /\ r.kind = "submit"
    BY <2>1, <2>4
    DEF ReadFits, Publishes, Claimable, Taken, AttemptsOf, Rev
  <2>5. CASE op'[w] = r /\ r.kind = "send"
    <3>1. attempt[r.attempt].submitted \in Nat
      BY <2>5, RowFacts, <1>1 DEF Op, Idle
    <3>2. PICK q \in Nat : q = attempt[r.attempt].submitted
      BY <3>1
    <3>3. OnBook + q <= Cover /\ OnBook \in Nat /\ Cover \in Int
      BY <1>1, <2>1, <2>5, <3>2 DEF ReadFits, QuantityTypes
    <3>4. o + q <= k
      BY <1>3, <3>3
    <3>5. QED
      BY <1>3, <2>5, <3>2, <3>4 DEF ReadFits, Publishes
  <2>6. CASE op'[w] = r /\ ~Publishes(r) /\ r.kind \notin {"submit", "send"}
    BY <2>6 DEF ReadFits, Publishes
  <2>7. QED
    BY <2>1, <2>2, <2>3, <2>4, <2>5, <2>6
<1>8. ChainSound' /\ SubmissionsCovered'
  BY <1>1 DEF QuantityInv, ChainSound, Sound, SubmissionsCovered, AttemptsOf, Rev
<1>9. QED
  BY <1>4, <1>6, <1>7, <1>8 DEF LaneInv, QuantityInv

(* What one attempt draws is what the lot's total changes by.              *)
LEMMA DrawnChange ==
  ASSUME RowInv, RowInv', NEW a \in Attempts,
         \A b \in Attempts : b # a => Drawn(b)' = Drawn(b)
  PROVE  AllDrawn' = AllDrawn - Drawn(a) + Drawn(a)'
<1> DEFINE f == [b \in Attempts |-> Drawn(b)]
           g == [b \in Attempts |-> Drawn(b)']
<1>1. AllDrawn = SumFunctionOnSet(f, Attempts)
      /\ AllDrawn' = SumFunctionOnSet(g, Attempts)
  BY DEF AllDrawn
<1>2. \A b \in Attempts : f[b] = Drawn(b) /\ g[b] = Drawn(b)' /\ f[b] \in Int
                          /\ g[b] \in Int
  BY Quantities, QuantitiesNext DEF QuantityTypes
<1> HIDE DEF f, g
<1>3. SumFunctionOnSet(g, Attempts) = SumFunctionOnSet(f, Attempts) - f[a] + g[a]
  BY <1>2, SumChange, ExitAssumption
<1>4. QED
  BY <1>1, <1>2, <1>3

LEMMA OvertakenGrows ==
  ASSUME RowInv, NEW a \in Attempts, UNCHANGED attempt,
         \/ sold'[a] - late'[a] = sold[a] - late[a]
         \/ attempt[a].cancelled = 0
         \/ sold'[a] = sold[a] /\ late'[a] = late[a]
  PROVE  Overtaken(a)' = Overtaken(a)
<1>1. /\ sold[a] \in Int /\ late[a] \in Int
      /\ attempt'[a] = attempt[a]
  BY RowFacts
<1>2. CASE attempt[a].cancelled = 0
  BY <1>1, <1>2 DEF Overtaken
<1>3. CASE sold'[a] = sold[a] /\ late'[a] = late[a]
  BY <1>1, <1>3 DEF Overtaken
<1>4. CASE sold'[a] - late'[a] = sold[a] - late[a]
  BY <1>1, <1>4 DEF Overtaken
<1>5. QED
  BY <1>2, <1>3, <1>4

LEMMA FillQuantity ==
  ASSUME LaneInv, NEW a \in Attempts, Fill(a)
  PROVE  LaneInv'
<1>1. RowInv /\ RowInv' /\ QuantityTypes
  BY FillRow, Quantities DEF LaneInv
<1>2. /\ book[a] > 0 /\ book' = [book EXCEPT ![a] = @ - 1]
      /\ held' = held - 1 /\ sold' = [sold EXCEPT ![a] = @ + 1]
      /\ UNCHANGED <<chain, attempt, op, late>>
  BY DEF Fill, Trade, lane, client
<1>3. /\ book'[a] = book[a] - 1 /\ sold'[a] = sold[a] + 1
      /\ book[a] \in Int /\ sold[a] \in Int /\ late[a] \in Int
      /\ \A b \in Attempts : b # a => book'[b] = book[b] /\ sold'[b] = sold[b]
  BY <1>1, <1>2, RowFacts DEF RowInv, TypeOK
<1>4. OnBook' = OnBook - 1
  <2>1. \A b \in Attempts : book[b] \in Int
    BY <1>1, RowFacts
  <2>2. SumFunctionOnSet(book', Attempts)
          = SumFunctionOnSet(book, Attempts) - book[a] + book'[a]
    BY <1>3, <2>1, SumChange, ExitAssumption
  <2>3. QED
    BY <1>1, <1>3, <2>2 DEF OnBook, QuantityTypes
<1>5. AllDrawn' = AllDrawn - 1
  <2>1. \A b \in Attempts : b # a => Drawn(b)' = Drawn(b)
    BY <1>2, <1>3 DEF Drawn, Rev
  <2>2. Drawn(a)' = Drawn(a) - 1 /\ Drawn(a) \in Int
    BY <1>2, <1>3 DEF Drawn, Rev
  <2>3. AllDrawn' = AllDrawn - Drawn(a) + Drawn(a)'
    BY <1>1, <2>1, DrawnChange
  <2>4. QED
    BY <1>1, <2>2, <2>3 DEF QuantityTypes
<1>6. LateFills' = LateFills
  BY <1>2 DEF LateFills
<1>7. \A b \in Attempts : Overtaken(b) <= Overtaken(b)'
  <2>1. attempt[a].cancelled = 0
    BY <1>1, <1>2, <1>3 DEF RowInv, RowTrue
  <2>2. \A b \in Attempts : Overtaken(b)' = Overtaken(b)
    BY <1>1, <1>2, <1>3, <2>1, OvertakenGrows
  <2>3. QED
    BY <1>1, <2>2 DEF QuantityTypes
<1>8. /\ OnBook' + held + LateFills <= OnBook + held' + LateFills'
      /\ AllDrawn' + held + LateFills <= AllDrawn + held' + LateFills'
  BY <1>1, <1>2, <1>4, <1>5, <1>6 DEF QuantityTypes
<1>9. QED
  BY <1>1, <1>2, <1>7, <1>8, WorldQuantity

LEMMA LateFillQuantity ==
  ASSUME LaneInv, NEW a \in Attempts, LateFill(a)
  PROVE  LaneInv'
<1>1. RowInv /\ RowInv' /\ QuantityTypes
  BY LateFillRow, Quantities DEF LaneInv
<1>2. /\ late' = [late EXCEPT ![a] = @ + 1]
      /\ held' = held - 1 /\ sold' = [sold EXCEPT ![a] = @ + 1]
      /\ UNCHANGED <<chain, attempt, op, book>>
  BY DEF LateFill, Trade, lane, client
<1>3. /\ late'[a] = late[a] + 1 /\ sold'[a] = sold[a] + 1
      /\ sold[a] \in Int /\ late[a] \in Int
      /\ \A b \in Attempts : b # a => late'[b] = late[b] /\ sold'[b] = sold[b]
  BY <1>1, <1>2, RowFacts DEF RowInv, TypeOK
<1>4. LateFills' = LateFills + 1
  <2>1. \A b \in Attempts : late[b] \in Int
    BY <1>1, RowFacts
  <2>2. SumFunctionOnSet(late', Attempts)
          = SumFunctionOnSet(late, Attempts) - late[a] + late'[a]
    BY <1>3, <2>1, SumChange, ExitAssumption
  <2>3. QED
    BY <1>1, <1>3, <2>2 DEF LateFills, QuantityTypes
<1>5. AllDrawn' = AllDrawn
  <2>1. \A b \in Attempts : b # a => Drawn(b)' = Drawn(b)
    BY <1>2, <1>3 DEF Drawn, Rev
  <2>2. Drawn(a)' = Drawn(a) /\ Drawn(a) \in Int
    <3>1. Drawn(a)' = Drawn(a)
      BY <1>2, <1>3 DEF Drawn, Rev
    <3>2. QED
      BY <1>1, <3>1 DEF QuantityTypes
  <2>3. AllDrawn' = AllDrawn - Drawn(a) + Drawn(a)'
    BY <1>1, <2>1, DrawnChange
  <2>4. QED
    BY <1>1, <2>2, <2>3 DEF QuantityTypes
<1>6. OnBook' = OnBook
  BY <1>2 DEF OnBook
<1>7. \A b \in Attempts : Overtaken(b) <= Overtaken(b)'
  <2>1. sold'[a] - late'[a] = sold[a] - late[a]
    BY <1>3
  <2>2. \A b \in Attempts : Overtaken(b)' = Overtaken(b)
    BY <1>1, <1>2, <1>3, <2>1, OvertakenGrows
  <2>3. QED
    BY <1>1, <2>2 DEF QuantityTypes
<1>8. /\ OnBook' + held + LateFills <= OnBook + held' + LateFills'
      /\ AllDrawn' + held + LateFills <= AllDrawn + held' + LateFills'
  BY <1>1, <1>2, <1>4, <1>5, <1>6 DEF QuantityTypes
<1>9. QED
  BY <1>1, <1>2, <1>7, <1>8, WorldQuantity

LEMMA CancelQuantity ==
  ASSUME LaneInv, NEW a \in Attempts, BrokerCancel(a)
  PROVE  LaneInv'
<1>1. RowInv /\ RowInv' /\ QuantityTypes
  BY BrokerRow, Quantities DEF LaneInv
<1>2. /\ book[a] > 0 /\ book' = [book EXCEPT ![a] = 0]
      /\ UNCHANGED <<chain, attempt, op, held, sold, late>>
  BY DEF BrokerCancel, lane, client
<1>3. /\ book'[a] = 0 /\ book[a] \in Int
      /\ sold[a] \in Int /\ late[a] \in Int
      /\ \A b \in Attempts : b # a => book'[b] = book[b]
  BY <1>1, <1>2, RowFacts DEF RowInv, TypeOK
<1>4. OnBook' = OnBook - book[a]
  <2>1. \A b \in Attempts : book[b] \in Int
    BY <1>1, RowFacts
  <2>2. SumFunctionOnSet(book', Attempts)
          = SumFunctionOnSet(book, Attempts) - book[a] + book'[a]
    BY <1>3, <2>1, SumChange, ExitAssumption
  <2>3. QED
    BY <1>1, <1>3, <2>2 DEF OnBook, QuantityTypes
<1>5. AllDrawn' = AllDrawn \/ AllDrawn' = AllDrawn - book[a]
  <2>1. \A b \in Attempts : b # a => Drawn(b)' = Drawn(b)
    BY <1>2, <1>3 DEF Drawn, Rev
  <2>2. Drawn(a) \in Int
    BY <1>1 DEF QuantityTypes
  <2>3. Drawn(a)' = Drawn(a) \/ Drawn(a)' = Drawn(a) - book[a]
    BY <1>2, <1>3 DEF Drawn, Rev
  <2>4. AllDrawn' = AllDrawn - Drawn(a) + Drawn(a)'
    BY <1>1, <2>1, DrawnChange
  <2>5. QED
    BY <1>1, <1>3, <2>2, <2>3, <2>4 DEF QuantityTypes
<1>6. LateFills' = LateFills
  BY <1>2 DEF LateFills
<1>7. \A b \in Attempts : Overtaken(b) <= Overtaken(b)'
  <2>1. \A b \in Attempts : Overtaken(b)' = Overtaken(b)
    BY <1>1, <1>2, OvertakenGrows
  <2>2. QED
    BY <1>1, <2>1 DEF QuantityTypes
<1>8. /\ OnBook' + held + LateFills <= OnBook + held' + LateFills'
      /\ AllDrawn' + held + LateFills <= AllDrawn + held' + LateFills'
  BY <1>1, <1>2, <1>3, <1>4, <1>5, <1>6 DEF QuantityTypes
<1>9. QED
  BY <1>1, <1>2, <1>7, <1>8, WorldQuantity

(* Nothing moves but what a worker holds, or the shares come back.         *)
LEMMA StillQuantity ==
  ASSUME LaneInv, RowInv', UNCHANGED <<chain, attempt, book, sold, late>>,
         held' = held \/ held' = held + 1,
         \A w \in Workers : op'[w] = op[w] \/ op'[w] = Idle
  PROVE  LaneInv'
<1>1. QuantityTypes /\ RowInv
  BY Quantities DEF LaneInv
<1>2. OnBook' = OnBook /\ LateFills' = LateFills
  BY DEF OnBook, LateFills
<1>3. AllDrawn' = AllDrawn
  BY DEF AllDrawn, Drawn, Rev
<1>4. \A b \in Attempts : Overtaken(b) <= Overtaken(b)'
  BY <1>1 DEF QuantityTypes, Overtaken
<1>5. /\ OnBook' + held + LateFills <= OnBook + held' + LateFills'
      /\ AllDrawn' + held + LateFills <= AllDrawn + held' + LateFills'
  BY <1>1, <1>2, <1>3 DEF QuantityTypes
<1>6. QED
  BY <1>4, <1>5, WorldQuantity

LEMMA ReadQuantity ==
  ASSUME LoneWorker, LaneInv, RowInv', NEW w \in Workers, NEW r, ReadFits(r),
         Read(w, r)
  PROVE  LaneInv'
<1>1. /\ UNCHANGED <<chain, attempt, held, book, sold, late>>
      /\ op' = [op EXCEPT ![w] = r]
  BY DEF Read, lane, world
<1>2. \A x \in Workers : op'[x] = r
  BY <1>1 DEF LoneWorker, LaneInv, RowInv, TypeOK
<1>3. /\ OnBook' = OnBook /\ LateFills' = LateFills /\ AllDrawn' = AllDrawn
      /\ Cover' = Cover /\ Claimable(Rev)' = Claimable(Rev)
  BY <1>1 DEF OnBook, LateFills, AllDrawn, Drawn, Rev, Cover, AllOvertaken,
     Overtaken, Claimable, Taken, AttemptsOf
<1>4. \A x \in Workers : ReadFits(op[x])'
  BY <1>1, <1>2, <1>3 DEF ReadFits, Fits
<1>5. ActiveFits'
  BY <1>1, <1>3
  DEF LaneInv, QuantityInv, ActiveFits, Fits, HasActive, Active, Rev
<1>6. NeverOversells'
  BY <1>1, <1>3 DEF LaneInv, QuantityInv, NeverOversells, Overtaken
<1>7. ChainSound' /\ SubmissionsCovered'
  BY <1>1
  DEF LaneInv, QuantityInv, ChainSound, SubmissionsCovered, AttemptsOf, Rev
<1>8. QED
  BY <1>4, <1>5, <1>6, <1>7 DEF LaneInv, QuantityInv

(* A mandate that has just been read leaves room for every open order.     *)
LEMMA RefreshFits ==
  ASSUME RowInv, NEW known \in BOOLEAN, NEW status \in Status,
         known => OnBook <= held, NEW m,
         \/ m = Refresh(known, status)
         \/ m = [Refresh(known, status) EXCEPT !.reopened = reopen]
  PROVE  Sound(m) /\ Fits(m, OnBook)
<1>1. OnBook \in Nat /\ held \in Nat /\ LateFills \in Nat
  BY Quantities DEF QuantityTypes
<1>2. /\ m.known = known
      /\ m.tradable = IF known THEN held ELSE 0
      /\ m.leaves = IF known THEN OnBook ELSE 0
  BY DEF Refresh
<1>3. QED
  BY <1>1, <1>2 DEF Sound, Fits, Executable

LEMMA PublishQuantity ==
  ASSUME LoneWorker, LaneInv, RowInv', NEW w \in Workers,
         NEW kind \in {"derive", "reconcile"}, NEW m, NEW n,
         Sound(m), Sound(n), Fits(m, OnBook), Fits(n, OnBook),
         NEW rows \in {<<m>>, <<m, n>>}, Publish(w, kind, rows)
  PROVE  LaneInv'
<1> DEFINE r == [kind |-> kind, seen |-> Rev, rows |-> rows]
<1>1. Read(w, r)
  BY DEF Publish
<1>2. \A i \in 1..Len(rows) : rows[i] = m \/ rows[i] = n
  <2>1. CASE rows = <<m>>
    BY <2>1
  <2>2. CASE rows = <<m, n>>
    BY <2>2
  <2>3. QED
    BY <2>1, <2>2
<1>3. ReadFits(r)
  BY <1>2 DEF ReadFits, Publishes
<1>4. QED
  BY <1>1, <1>3, ReadQuantity

LEMMA DeriveQuantity ==
  ASSUME LoneWorker, LaneInv, NEW w \in Workers, NEW known \in BOOLEAN,
         ReadDerive(w, known)
  PROVE  LaneInv'
<1>1. PICK s \in Status :
        s = IF terminal THEN "TERMINAL_LEGAL"
            ELSE IF known THEN TruthStatus ELSE "PENDING"
  BY DEF Status, TruthStatus
<1>2. PICK m : m = Refresh(known, s)
  OBVIOUS
<1>3. PICK n : n = [Refresh(known, s) EXCEPT !.reopened = reopen]
  OBVIOUS
<1>4. PICK rows \in {<<m>>, <<n>>, <<m, n>>} : Publish(w, "derive", rows)
  BY <1>1, <1>2, <1>3 DEF ReadDerive
<1>5. RowInv /\ RowInv' /\ (known => OnBook <= held)
  BY DeriveRow DEF LaneInv, ReadDerive
<1>6. Sound(m) /\ Fits(m, OnBook) /\ Sound(n) /\ Fits(n, OnBook)
  BY <1>2, <1>3, <1>5, RefreshFits
<1>7. CASE rows = <<n>>
  BY <1>4, <1>5, <1>6, <1>7, PublishQuantity
<1>8. CASE rows # <<n>>
  BY <1>4, <1>5, <1>6, <1>8, PublishQuantity
<1>9. QED
  BY <1>7, <1>8

LEMMA ReconcileQuantity ==
  ASSUME LoneWorker, LaneInv, NEW w \in Workers, ReadReconcile(w)
  PROVE  LaneInv'
<1>1. PICK m : m = Refresh(TRUE, TruthStatus)
  OBVIOUS
<1>2. Publish(w, "reconcile", <<m>>) /\ OnBook <= held
  BY <1>1 DEF ReadReconcile
<1>3. RowInv /\ RowInv' /\ TruthStatus \in Status
  BY ReconcileRow DEF LaneInv, TruthStatus, Status
<1>4. Sound(m) /\ Fits(m, OnBook)
  BY <1>1, <1>2, <1>3, RefreshFits
<1>5. QED
  BY <1>2, <1>3, <1>4, PublishQuantity

LEMMA RequestQuantity ==
  ASSUME LoneWorker, LaneInv, NEW w \in Workers,
         ReadSubmit(w) \/ \E a \in Attempts : ReadOutcome(w, a)
  PROVE  LaneInv'
<1>1. CASE ReadSubmit(w)
  <2>1. PICK a \in AttemptsOf(0), q \in 1..Claimable(Rev) :
          Read(w, [kind |-> "submit", attempt |-> a,
                   row |-> [NoAttempt EXCEPT !.rev = Rev, !.submitted = q]])
    BY <1>1 DEF ReadSubmit
  <2>2. PICK row : row = Row(Rev, q)
    OBVIOUS
  <2>3. Read(w, [kind |-> "submit", attempt |-> a, row |-> row])
    BY <2>1, <2>2 DEF Row
  <2>4. RowInv /\ RowInv' /\ HasActive
    BY <1>1, SubmitReadRow DEF ReadSubmit, Pending, LaneInv
  <2>5. Rev \in 0..MaxRev /\ q \in 0..Lot /\ q <= Claimable(Rev)
    BY <2>1, <2>4, ClaimableFits, RevType, ExitAssumption DEF RowInv
  <2>6. row.submitted = q
    BY <2>2, <2>5, NewRow
  <2>7. ReadFits([kind |-> "submit", attempt |-> a, row |-> row])
    BY <2>5, <2>6 DEF ReadFits, Publishes
  <2>8. QED
    BY <2>3, <2>4, <2>7, ReadQuantity
<1>2. ASSUME NEW a \in Attempts, ReadOutcome(w, a) PROVE LaneInv'
  <2>1. PICK r : Read(w, r) /\ r.kind = "update"
    BY <1>2 DEF ReadOutcome
  <2>2. RowInv'
    BY <1>2, OutcomeReadRow DEF LaneInv
  <2>3. ReadFits(r)
    BY <2>1 DEF ReadFits, Publishes
  <2>4. QED
    BY <2>1, <2>2, <2>3, ReadQuantity
<1>3. QED
  BY <1>1, <1>2

LEMMA SoundPositive ==
  ASSUME NEW m \in Mandate, Sound(m) PROVE Executable(m) >= 0
<1>1. m.tradable \in Nat /\ m.leaves \in Nat
  BY ExitAssumption DEF Mandate
<1>2. QED
  BY <1>1 DEF Sound, Executable

(* A new mandate starts with no attempt of its own: the older ones draw    *)
(* what is still on the broker's book.                                     *)
LEMMA CommitPublishQuantity ==
  ASSUME LoneWorker, LaneInv, NEW w \in Workers, CommitPublish(w)
  PROVE  LaneInv'
<1>1. PICK r \in Op : r = op[w]
  BY DEF LaneInv, RowInv, TypeOK
<1>2. /\ Publishes(r) /\ chain' = chain \o r.rows /\ op' = [op EXCEPT ![w] = Idle]
      /\ UNCHANGED <<attempt, held, book, sold, late>>
  BY <1>1 DEF CommitPublish, Publishes, Done, world
<1>3. RowInv /\ RowInv' /\ QuantityTypes /\ QuantityTypes'
  BY CommitPublishRow, Quantities, QuantitiesNext DEF LaneInv
<1>4. /\ r.rows \in Seq(Mandate) /\ r.rows # <<>>
      /\ \A i \in 1..Len(r.rows) : Sound(r.rows[i]) /\ Fits(r.rows[i], OnBook)
  BY <1>1, <1>2 DEF Publishes, Op, Idle, LaneInv, RowInv, ReadTrue,
     QuantityInv, ReadFits
<1>5. chain \in Seq(Mandate)
  BY <1>3 DEF RowInv, TypeOK
<1>6. /\ Rev' = Rev + Len(r.rows) /\ Len(r.rows) > 0 /\ Rev \in Nat
      /\ Len(r.rows) \in Nat
      /\ \A i \in 1..Rev : chain'[i] = chain[i]
      /\ \A i \in 1..Len(r.rows) : chain'[Rev + i] = r.rows[i]
  BY <1>2, <1>4, <1>5 DEF Rev
<1>7. /\ OnBook' = OnBook /\ LateFills' = LateFills
      /\ AllOvertaken' = AllOvertaken /\ Cover' = Cover
  BY <1>2 DEF OnBook, LateFills, AllOvertaken, Overtaken, Cover
<1>8. \A a \in Attempts : attempt[a].rev # Rev'
  <2>1. \A a \in Attempts : attempt[a].rev <= Rev /\ attempt[a].rev \in Nat
    BY <1>3, RowFacts DEF RowInv, RowTrue
  <2>2. QED
    BY <1>6, <2>1
<1>9. AllDrawn' = OnBook
  <2> DEFINE g == [a \in Attempts |-> Drawn(a)']
  <2>1. \A a \in Attempts : g[a] = book[a]
    BY <1>2, <1>8 DEF Drawn
  <2>2. AllDrawn' = SumFunctionOnSet(g, Attempts)
    BY DEF AllDrawn
  <2> HIDE DEF g
  <2>3. QED
    BY <2>1, <2>2, SumSame, ExitAssumption DEF OnBook
<1>10. Active' = r.rows[Len(r.rows)]
  BY <1>6 DEF Active
<1>11. ActiveFits'
  <2>1. Fits(r.rows[Len(r.rows)], OnBook)
    BY <1>4, <1>6
  <2>2. Fits(r.rows[Len(r.rows)], OnBook)'
        <=> Fits(r.rows[Len(r.rows)], OnBook)
    BY <1>1, <1>2, <1>7 DEF Fits
  <2>3. ASSUME NEW m, Fits(m, OnBook) PROVE Fits(m, AllDrawn)'
    BY <1>2, <1>7, <1>9, <2>3 DEF Fits, Executable
  <2>4. QED
    BY <1>10, <2>1, <2>3 DEF ActiveFits
<1>12. ChainSound'
  <2>1. ASSUME NEW i \in 1..Rev' PROVE Sound(chain'[i])
    <3>1. CASE i \in 1..Rev
      BY <1>6, <3>1 DEF LaneInv, QuantityInv, ChainSound
    <3>2. CASE i \notin 1..Rev
      <4>1. i - Rev \in 1..Len(r.rows) /\ i = Rev + (i - Rev)
        BY <1>6, <3>2
      <4>2. QED
        BY <1>4, <1>6, <4>1
    <3>3. QED
      BY <3>1, <3>2
  <2>2. QED
    BY <2>1 DEF ChainSound, Sound
<1>13. SubmissionsCovered'
  <2> DEFINE net == [a \in Attempts |-> attempt[a].submitted - attempt[a].cancelled]
  <2>1. ASSUME NEW i \in 1..Rev'
        PROVE  SumFunctionOnSet(net, AttemptsOf(i)) <= Executable(chain'[i])
    <3>1. CASE i \in 1..Rev
      BY <1>6, <3>1 DEF LaneInv, QuantityInv, SubmissionsCovered
    <3>2. CASE i \notin 1..Rev
      <4>1. AttemptsOf(i) = {}
        <5>1. \A a \in Attempts : attempt[a].rev <= Rev /\ attempt[a].rev \in Nat
          BY <1>3, RowFacts DEF RowInv, RowTrue
        <5>2. QED
          BY <1>6, <3>2, <5>1 DEF AttemptsOf
      <4>2. SumFunctionOnSet(net, AttemptsOf(i)) = 0
        BY <4>1, SumEmpty
      <4>3. PICK j \in 1..Len(r.rows) : i = Rev + j
        <5>1. i - Rev \in 1..Len(r.rows) /\ i = Rev + (i - Rev)
          BY <1>6, <3>2
        <5>2. QED
          BY <5>1
      <4>4. Sound(chain'[i]) /\ chain'[i] \in Mandate
        <5>1. chain'[i] = r.rows[j]
          BY <1>6, <4>3
        <5>2. r.rows[j] \in Mandate
          BY <1>4
        <5>3. QED
          BY <1>4, <5>1, <5>2
      <4>5. Executable(chain'[i]) >= 0
        BY <4>4, SoundPositive
      <4>6. QED
        BY <4>2, <4>5
    <3>3. QED
      BY <3>1, <3>2
  <2>2. QED
    BY <1>2, <2>1 DEF SubmissionsCovered, AttemptsOf, Executable
<1>14. NeverOversells'
  BY <1>2, <1>7
  DEF LaneInv, QuantityInv, NeverOversells, AllOvertaken, Overtaken
<1>15. \A x \in Workers : ReadFits(op[x])'
  <2>1. \A x \in Workers : op'[x] = Idle
    BY <1>2, <1>3 DEF LoneWorker, RowInv, TypeOK
  <2>2. QED
    BY <2>1 DEF ReadFits, Publishes, Idle
<1>16. QED
  BY <1>3, <1>11, <1>12, <1>13, <1>14, <1>15 DEF LaneInv, QuantityInv

(* What is on the book is drawn by older mandates, or was taken from the   *)
(* active one, or was sold before its attempt was recorded as cancelled.   *)
LEMMA BookCovered ==
  ASSUME RowInv
  PROVE  /\ SumFunctionOnSet(Taken, AttemptsOf(Rev)) \in Nat
         /\ OnBook <= AllDrawn + SumFunctionOnSet(Taken, AttemptsOf(Rev))
                        + AllOvertaken
<1> DEFINE T == SumFunctionOnSet(Taken, AttemptsOf(Rev))
           d == [b \in Attempts |-> Drawn(b)]
           t == [b \in Attempts |-> IF b \in AttemptsOf(Rev) THEN Taken[b] ELSE 0]
           o == [b \in Attempts |-> Overtaken(b)]
           dt == [b \in Attempts |-> d[b] + t[b]]
           dto == [b \in Attempts |-> dt[b] + o[b]]
<1>1. IsFiniteSet(Attempts) /\ AttemptsOf(Rev) \subseteq Attempts
  BY ExitAssumption DEF AttemptsOf
<1>2. \A b \in Attempts :
        /\ Drawn(b) \in Int /\ Overtaken(b) \in Nat /\ Taken[b] \in Nat
        /\ book[b] \in Nat
  BY Quantities, TakenIs, RowFacts DEF QuantityTypes
<1>3. \A b \in Attempts :
        /\ d[b] = Drawn(b) /\ o[b] = Overtaken(b)
        /\ dt[b] = d[b] + t[b] /\ dto[b] = dt[b] + o[b]
        /\ b \in AttemptsOf(Rev) => t[b] = Taken[b]
        /\ b \notin AttemptsOf(Rev) => t[b] = 0
  OBVIOUS
<1>4. AllDrawn = SumFunctionOnSet(d, Attempts)
      /\ AllOvertaken = SumFunctionOnSet(o, Attempts)
  BY DEF AllDrawn, AllOvertaken
<1> HIDE DEF d, t, o, dt, dto
<1>5. \A b \in Attempts : /\ d[b] \in Int /\ t[b] \in Nat /\ o[b] \in Nat
                          /\ dt[b] \in Int /\ dto[b] \in Int
  BY <1>2, <1>3
<1>6. T = SumFunctionOnSet(t, Attempts)
  BY <1>1, <1>2, <1>3, SumWithin
<1>7. SumFunctionOnSet(dt, Attempts) = AllDrawn + T
  BY <1>1, <1>3, <1>4, <1>5, <1>6, SumPlus
<1>8. SumFunctionOnSet(dto, Attempts)
        = SumFunctionOnSet(dt, Attempts) + AllOvertaken
  BY <1>1, <1>3, <1>4, <1>5, SumPlus
<1>9. ASSUME NEW b \in Attempts PROVE book[b] <= dto[b]
  <2>1. /\ book[b] \in Nat /\ sold[b] \in Nat /\ late[b] \in Nat
        /\ attempt[b].filled \in Nat /\ attempt[b].late \in Nat
        /\ attempt[b].submitted \in Nat /\ attempt[b].cancelled \in Nat
    BY RowFacts
  <2>2. /\ book[b] + sold[b] <= attempt[b].submitted
        /\ attempt[b].cancelled # 0 => book[b] = 0
    BY DEF RowInv, RowTrue
  <2>3. dto[b] = Drawn(b) + t[b] + Overtaken(b)
    BY <1>3
  <2>4. CASE attempt[b].rev # Rev
    <3>1. Drawn(b) = book[b] /\ t[b] \in Nat /\ Overtaken(b) \in Nat
      BY <1>2, <1>5, <2>4 DEF Drawn
    <3>2. QED
      BY <2>1, <2>3, <3>1
  <2>5. CASE attempt[b].rev = Rev /\ attempt[b].cancelled = 0
    <3>1. /\ Drawn(b) = late[b] - sold[b] /\ t[b] = attempt[b].submitted
          /\ Overtaken(b) = 0
      BY <1>3, <2>5, TakenIs, OvertakenIs DEF Drawn, AttemptsOf
    <3>2. QED
      BY <2>1, <2>2, <2>3, <3>1
  <2>6. CASE attempt[b].rev = Rev /\ attempt[b].cancelled # 0
    <3>1. /\ Drawn(b) = late[b] - sold[b]
          /\ t[b] = attempt[b].filled + attempt[b].late
          /\ Overtaken(b) >= sold[b] - late[b] - attempt[b].filled
          /\ Overtaken(b) \in Nat
      BY <1>3, <2>6, TakenIs, OvertakenIs DEF Drawn, AttemptsOf, Sold
    <3>2. QED
      BY <2>1, <2>2, <2>3, <2>6, <3>1
  <2>7. QED
    BY <2>4, <2>5, <2>6
<1>10. OnBook <= SumFunctionOnSet(dto, Attempts)
  BY <1>1, <1>2, <1>5, <1>9, SumGrows DEF OnBook
<1>11. T \in Nat
  BY <1>1, <1>5, <1>6, SumNat
<1>12. QED
  BY <1>7, <1>8, <1>10, <1>11

LEMMA CommitSubmitQuantity ==
  ASSUME LoneWorker, LaneInv, NEW w \in Workers, CommitSubmit(w)
  PROVE  LaneInv'
<1>a. PICK a, row : a = op[w].attempt /\ row = op[w].row
  OBVIOUS
<1>1. /\ a \in AttemptsOf(0)
      /\ attempt' = [attempt EXCEPT ![a] = row]
      /\ HasActive /\ row.rev = Rev /\ row.submitted \in 1..Lot
      /\ row.cancelled = 0 /\ row.filled = 0 /\ row.late = 0
      /\ \A x \in Workers : op'[x] = [kind |-> "send", attempt |-> a]
      /\ UNCHANGED <<chain, lease, query, worked, held, book, sold, gone,
                     late, reopen, terminal>>
  BY <1>a, CommitSubmitRow DEF LaneInv
<1>2. RowInv /\ RowInv' /\ QuantityTypes /\ QuantityTypes' /\ QuantityInv
  BY CommitSubmitRow, Quantities, QuantitiesNext DEF LaneInv
<1>3. PICK q \in Nat : q = row.submitted /\ q <= Claimable(Rev) /\ q > 0
  <2>1. op[w].kind = "submit" /\ ReadFits(op[w])
    BY <1>2 DEF CommitSubmit, QuantityInv
  <2>2. QED
    BY <1>1, <1>a, <2>1, ExitAssumption DEF ReadFits
<1>4. /\ a \in Attempts /\ attempt[a].rev = 0 /\ Rev # 0 /\ Rev \in Nat
  BY <1>1, <1>2 DEF AttemptsOf, HasActive, Rev, RowInv, TypeOK
<1>5. /\ book[a] = 0 /\ sold[a] = 0 /\ late[a] = 0 /\ attempt[a].cancelled = 0
  BY <1>2, <1>4, RowFacts
<1>6. attempt'[a] = row /\ \A b \in Attempts : b # a => attempt'[b] = attempt[b]
  BY <1>1, <1>4 DEF LaneInv, RowInv, TypeOK
<1>7. \A b \in Attempts : Overtaken(b)' = Overtaken(b)
  <2>1. Overtaken(a)' = Overtaken(a)
    BY <1>1, <1>5, <1>6 DEF Overtaken
  <2>2. \A b \in Attempts : b # a => Overtaken(b)' = Overtaken(b)
    BY <1>1, <1>6 DEF Overtaken
  <2>3. QED
    BY <2>1, <2>2
<1>8. /\ OnBook' = OnBook /\ LateFills' = LateFills
      /\ AllOvertaken' = AllOvertaken /\ Cover' = Cover
  BY <1>1, <1>7 DEF OnBook, LateFills, AllOvertaken, Cover
<1>9. AllDrawn' = AllDrawn
  <2>1. \A b \in Attempts : b # a => Drawn(b)' = Drawn(b)
    BY <1>1, <1>6 DEF Drawn, Rev
  <2>2. Drawn(a) = 0 /\ Drawn(a)' = 0
    BY <1>1, <1>4, <1>5, <1>6 DEF Drawn, Rev
  <2>3. AllDrawn' = AllDrawn - Drawn(a) + Drawn(a)'
    BY <1>2, <1>4, <2>1, DrawnChange
  <2>4. QED
    BY <1>2, <2>2, <2>3 DEF QuantityTypes
<1>10. ActiveFits'
  BY <1>1, <1>2, <1>8, <1>9
  DEF QuantityInv, ActiveFits, Fits, HasActive, Active, Rev
<1>11. ChainSound'
  BY <1>1, <1>2 DEF QuantityInv, ChainSound, Rev
<1>12. NeverOversells'
  BY <1>1, <1>2, <1>8 DEF QuantityInv, NeverOversells, AllOvertaken
<1>13. OnBook + q <= Cover
  <2> DEFINE T == SumFunctionOnSet(Taken, AttemptsOf(Rev))
             E == Executable(Active)
  <2>1. T \in Nat /\ OnBook <= AllDrawn + T + AllOvertaken
    BY <1>2, BookCovered
  <2>2. E \in Int /\ Active.known
    BY <1>1, <1>2, <1>3, ActiveType, ClaimableFits DEF QuantityTypes
  <2>3. E + AllDrawn <= held + LateFills
    BY <1>1, <1>2, <2>2 DEF QuantityInv, ActiveFits, Fits
  <2>4. q <= E - T
    BY <1>3 DEF Claimable, Active
  <2>5. Cover = held + LateFills + AllOvertaken
    BY DEF Cover
  <2> HIDE DEF T, E
  <2>6. QED
    BY <1>2, <1>3, <2>1, <2>2, <2>3, <2>4, <2>5 DEF QuantityTypes
<1>14. SubmissionsCovered'
  <2> DEFINE net == [b \in Attempts |-> attempt[b].submitted - attempt[b].cancelled]
             new == [b \in Attempts |-> attempt'[b].submitted - attempt'[b].cancelled]
  <2>1. ASSUME NEW i \in 1..Rev
        PROVE  SumFunctionOnSet(new, AttemptsOf(i)') <= Executable(chain[i])
    <3>1. SumFunctionOnSet(net, AttemptsOf(i)) <= Executable(chain[i])
      BY <1>2 DEF QuantityInv, SubmissionsCovered
    <3>2. IsFiniteSet(AttemptsOf(i)) /\ AttemptsOf(i) \subseteq Attempts
          /\ a \notin AttemptsOf(i)
      BY <1>4, ExitAssumption, FS_Subset DEF AttemptsOf
    <3>3. \A b \in AttemptsOf(i) :
            /\ net[b] = attempt[b].submitted - attempt[b].cancelled
            /\ net[b] \in Int /\ new[b] = net[b]
      BY <1>2, <1>6, <3>2, RowFacts
    <3>4. new[a] = q
      BY <1>1, <1>3, <1>4, <1>6
    <3> HIDE DEF net, new
    <3>5. SumFunctionOnSet(new, AttemptsOf(i)) = SumFunctionOnSet(net, AttemptsOf(i))
      BY <3>2, <3>3, SumSame
    <3>6. CASE i # Rev
      <4>1. AttemptsOf(i)' = AttemptsOf(i)
        BY <1>1, <1>4, <1>6, <3>6 DEF AttemptsOf
      <4>2. QED
        BY <3>1, <3>5, <4>1
    <3>7. CASE i = Rev
      <4>1. AttemptsOf(i)' = AttemptsOf(i) \cup {a}
        BY <1>1, <1>4, <1>6, <3>7 DEF AttemptsOf
      <4>2. SumFunctionOnSet(new, AttemptsOf(i) \cup {a})
              = q + SumFunctionOnSet(new, AttemptsOf(i))
        BY <3>2, <3>3, <3>4, SumAdd
      <4>3. \A b \in AttemptsOf(i) : net[b] <= Taken[b] /\ Taken[b] \in Int
        <5>1. ASSUME NEW b \in AttemptsOf(i)
              PROVE  net[b] <= Taken[b] /\ Taken[b] \in Int
          <6>1. b \in Attempts
            BY <3>2
          <6>2. /\ attempt[b].submitted \in Nat /\ attempt[b].filled \in Nat
                /\ attempt[b].late \in Nat /\ attempt[b].cancelled \in Nat
            BY <1>2, <6>1, RowFacts
          <6>3. attempt[b].cancelled # 0 =>
                  attempt[b].filled + attempt[b].late + attempt[b].cancelled
                    >= attempt[b].submitted
            BY <1>2, <6>1 DEF RowInv, RowTrue, Sold
          <6>4. Taken[b] = IF attempt[b].cancelled = 0 THEN attempt[b].submitted
                           ELSE attempt[b].filled + attempt[b].late
            BY <1>2, <6>1, TakenIs DEF Sold
          <6>5. QED
            BY <3>3, <6>2, <6>3, <6>4
        <5>2. QED
          BY <5>1
      <4>4. SumFunctionOnSet(net, AttemptsOf(i)) <= SumFunctionOnSet(Taken, AttemptsOf(i))
        BY <3>2, <3>3, <4>3, SumGrows
      <4>5. /\ SumFunctionOnSet(net, AttemptsOf(i)) \in Int
            /\ SumFunctionOnSet(Taken, AttemptsOf(i)) \in Int
        BY <3>2, <3>3, <4>3, SumInt
      <4>6. /\ q <= Executable(chain[i]) - SumFunctionOnSet(Taken, AttemptsOf(i))
            /\ Executable(chain[i]) \in Int
        BY <1>1, <1>2, <1>3, <3>7, ActiveType DEF Claimable, Active, QuantityTypes
      <4>7. QED
        BY <3>5, <4>1, <4>2, <4>4, <4>5, <4>6
    <3>8. QED
      BY <3>6, <3>7
  <2>2. QED
    BY <1>1, <2>1 DEF SubmissionsCovered, Rev
<1>15. ASSUME NEW x \in Workers PROVE ReadFits(op[x])'
  <2>1. PICK s : s = op'[x] /\ s.kind = "send" /\ s.attempt = a
    BY <1>1
  <2>2. attempt'[a].submitted = q
    BY <1>3, <1>6
  <2>3. QED
    BY <1>8, <1>13, <2>1, <2>2 DEF ReadFits, Publishes
<1>16. QED
  BY <1>2, <1>10, <1>11, <1>12, <1>14, <1>15 DEF LaneInv, QuantityInv

LEMMA SendQuantity ==
  ASSUME LoneWorker, LaneInv, NEW w \in Workers, Send(w)
  PROVE  LaneInv'
<1>1. PICK r \in Op : r = op[w]
  BY DEF LaneInv, RowInv, TypeOK
<1> DEFINE a == r.attempt
<1>2. /\ r.kind = "send" /\ book' = [book EXCEPT ![a] = attempt[a].submitted]
      /\ op' = [op EXCEPT ![w] = Idle]
      /\ UNCHANGED <<chain, attempt, held, sold, late>>
  BY <1>1 DEF Send, Done, lane
<1>3. RowInv /\ RowInv' /\ QuantityTypes /\ QuantityTypes' /\ QuantityInv
  BY SendRow, Quantities, QuantitiesNext DEF LaneInv
<1>4. a \in Attempts
  BY <1>1, <1>2 DEF Op, Idle
<1>5. attempt[a].rev = Rev /\ book[a] = 0
  BY <1>1, <1>2, <1>3 DEF RowInv, ReadTrue, SendTrue
<1>6. PICK q \in Nat : q = attempt[a].submitted
  BY <1>3, <1>4, RowFacts
<1>7. OnBook + q <= Cover
  BY <1>1, <1>2, <1>3, <1>6 DEF QuantityInv, ReadFits
<1>8. book'[a] = q /\ \A b \in Attempts : b # a => book'[b] = book[b]
  BY <1>2, <1>3, <1>4, <1>6 DEF RowInv, TypeOK
<1>9. OnBook' = OnBook + q
  <2>1. \A b \in Attempts : book[b] \in Int
    BY <1>3, RowFacts
  <2>2. SumFunctionOnSet(book', Attempts)
          = SumFunctionOnSet(book, Attempts) - book[a] + book'[a]
    BY <1>4, <1>8, <2>1, SumChange, ExitAssumption
  <2>3. QED
    BY <1>3, <1>5, <1>8, <2>2 DEF OnBook, QuantityTypes
<1>10. /\ LateFills' = LateFills /\ AllOvertaken' = AllOvertaken /\ Cover' = Cover
  BY <1>2 DEF LateFills, AllOvertaken, Overtaken, Cover
<1>11. AllDrawn' = AllDrawn
  <2>1. \A b \in Attempts : Drawn(b)' = Drawn(b)
    BY <1>2, <1>5, <1>8 DEF Drawn, Rev
  <2>2. QED
    BY <2>1 DEF AllDrawn
<1>12. NeverOversells'
  <2>1. OnBook' <= Cover'
    BY <1>7, <1>9, <1>10
  <2>2. QED
    BY <2>1 DEF NeverOversells, Cover, AllOvertaken
<1>13. ActiveFits'
  BY <1>2, <1>3, <1>10, <1>11
  DEF QuantityInv, ActiveFits, Fits, HasActive, Active, Rev
<1>14. ChainSound' /\ SubmissionsCovered'
  BY <1>2, <1>3
  DEF QuantityInv, ChainSound, SubmissionsCovered, AttemptsOf, Rev
<1>15. \A x \in Workers : ReadFits(op[x])'
  <2>1. \A x \in Workers : op'[x] = Idle
    BY <1>2, <1>3 DEF LoneWorker, RowInv, TypeOK
  <2>2. QED
    BY <2>1 DEF ReadFits, Publishes, Idle
<1>16. QED
  BY <1>3, <1>12, <1>13, <1>14, <1>15 DEF LaneInv, QuantityInv

LEMMA CommitOutcomeQuantity ==
  ASSUME LoneWorker, LaneInv, NEW w \in Workers, CommitOutcome(w)
  PROVE  LaneInv'
<1>1. RowInv /\ RowInv' /\ QuantityTypes /\ QuantityTypes' /\ QuantityInv
  BY CommitOutcomeRow, Quantities, QuantitiesNext DEF LaneInv
<1>2. /\ UNCHANGED <<chain, held, book, sold, late>>
      /\ op' = [op EXCEPT ![w] = Idle]
  BY <1>1, CommitOutcomeRow
<1>3. PICK a \in Attempts :
        /\ \A b \in Attempts : b # a => attempt'[b] = attempt[b]
        /\ attempt'[a].rev = attempt[a].rev /\ attempt[a].rev # 0
        /\ attempt'[a].submitted = attempt[a].submitted
        /\ \/ /\ attempt[a].cancelled = 0 /\ attempt'[a].cancelled = 0
           \/ /\ attempt[a].cancelled = 0
              /\ attempt'[a].filled = attempt[a].filled
              /\ attempt'[a].late = attempt[a].late
           \/ /\ attempt[a].cancelled # 0
              /\ attempt'[a].cancelled = attempt[a].cancelled
              /\ attempt'[a].filled = attempt[a].filled
  BY <1>1, CommitOutcomeRow
<1>4. OnBook' = OnBook /\ LateFills' = LateFills
  BY <1>2 DEF OnBook, LateFills
<1>5. \A b \in Attempts : attempt'[b].rev = attempt[b].rev
  BY <1>3
<1>6. AllDrawn' = AllDrawn
  <2>1. \A b \in Attempts : Drawn(b)' = Drawn(b)
    BY <1>2, <1>5 DEF Drawn, Rev
  <2>2. QED
    BY <2>1 DEF AllDrawn
<1>7. \A b \in Attempts : Overtaken(b) <= Overtaken(b)'
  <2>1. ASSUME NEW b \in Attempts PROVE Overtaken(b) <= Overtaken(b)'
    <3>1. PICK m \in Nat, n \in Nat : Overtaken(b) = m /\ Overtaken(b)' = n
      BY <1>1 DEF QuantityTypes
    <3>2. m = 0 \/ m = n
      <4>1. CASE attempt[b].cancelled = 0
        BY <3>1, <4>1 DEF Overtaken
      <4>2. CASE attempt[b].cancelled # 0
        <5>1. attempt'[b].cancelled = attempt[b].cancelled
              /\ attempt'[b].filled = attempt[b].filled
          BY <1>3, <4>2
        <5>2. Overtaken(b)' = Overtaken(b)
          BY <1>2, <5>1 DEF Overtaken
        <5>3. QED
          BY <3>1, <5>2
      <4>3. QED
        BY <4>1, <4>2
    <3>3. m <= n
      BY <3>2
    <3>4. QED
      BY <3>1, <3>3
  <2>2. QED
    BY <2>1
<1>8. NeverOversells'
  <2> DEFINE f == [b \in Attempts |-> Overtaken(b)]
             g == [b \in Attempts |-> Overtaken(b)']
  <2>1. \A b \in Attempts : f[b] \in Int /\ g[b] \in Int /\ f[b] <= g[b]
    BY <1>1, <1>7 DEF QuantityTypes
  <2>2. AllOvertaken = SumFunctionOnSet(f, Attempts)
        /\ AllOvertaken' = SumFunctionOnSet(g, Attempts)
    BY DEF AllOvertaken
  <2> HIDE DEF f, g
  <2>3. AllOvertaken <= AllOvertaken'
    BY <2>1, <2>2, SumGrows, ExitAssumption
  <2>4. PICK n \in Nat : AllOvertaken' = n
    BY <1>1 DEF QuantityTypes
  <2>5. OnBook <= held + LateFills + AllOvertaken
    BY <1>1 DEF QuantityInv, NeverOversells, AllOvertaken
  <2>6. OnBook <= held + LateFills + n
    <3>1. AllOvertaken <= n
      BY <2>3, <2>4
    <3>2. QED
      BY <1>1, <2>5, <3>1 DEF QuantityTypes
  <2>7. QED
    BY <1>2, <1>4, <2>4, <2>6 DEF NeverOversells, AllOvertaken
<1>9. ActiveFits'
  BY <1>1, <1>2, <1>4, <1>6
  DEF QuantityInv, ActiveFits, Fits, HasActive, Active, Rev
<1>10. ChainSound'
  BY <1>1, <1>2 DEF QuantityInv, ChainSound, Rev
<1>11. SubmissionsCovered'
  <2> DEFINE net == [b \in Attempts |-> attempt[b].submitted - attempt[b].cancelled]
             new == [b \in Attempts |-> attempt'[b].submitted - attempt'[b].cancelled]
  <2>1. ASSUME NEW i \in 1..Rev
        PROVE  SumFunctionOnSet(new, AttemptsOf(i)) <= Executable(chain[i])
    <3>1. SumFunctionOnSet(net, AttemptsOf(i)) <= Executable(chain[i])
      BY <1>1 DEF QuantityInv, SubmissionsCovered
    <3>2. IsFiniteSet(AttemptsOf(i)) /\ AttemptsOf(i) \subseteq Attempts
      BY ExitAssumption, FS_Subset DEF AttemptsOf
    <3>3. \A b \in AttemptsOf(i) : net[b] \in Int /\ new[b] \in Int /\ new[b] <= net[b]
      <4>1. ASSUME NEW b \in AttemptsOf(i)
            PROVE  net[b] \in Int /\ new[b] \in Int /\ new[b] <= net[b]
        <5>1. b \in Attempts
          BY <3>2
        <5>2. attempt[b].submitted \in Nat /\ attempt[b].cancelled \in Nat
          BY <1>1, <5>1, RowFacts
        <5>3. PICK c \in Nat : attempt'[b].cancelled = c
                               /\ (c = attempt[b].cancelled \/ attempt[b].cancelled = 0)
          <6>1. attempt' \in [Attempts -> AttemptRow]
            BY <1>1 DEF RowInv, TypeOK
          <6>2. attempt'[b].cancelled \in Nat
            BY <5>1, <6>1, ExitAssumption DEF AttemptRow
          <6>3. QED
            BY <1>3, <5>1, <6>2
        <5>4. /\ net[b] = attempt[b].submitted - attempt[b].cancelled
              /\ new[b] = attempt[b].submitted - c
          BY <1>3, <5>1, <5>3
        <5> HIDE DEF net, new
        <5>5. QED
          BY <5>2, <5>3, <5>4
      <4>2. QED
        BY <4>1
    <3> HIDE DEF net, new
    <3>4. SumFunctionOnSet(new, AttemptsOf(i)) <= SumFunctionOnSet(net, AttemptsOf(i))
      BY <3>2, <3>3, SumGrows
    <3>5. /\ SumFunctionOnSet(net, AttemptsOf(i)) \in Int
          /\ SumFunctionOnSet(new, AttemptsOf(i)) \in Int
      BY <3>2, <3>3, SumInt
    <3>6. Executable(chain[i]) \in Int
      <4>1. chain[i] \in Mandate
        BY <1>1 DEF RowInv, TypeOK, Rev
      <4>2. QED
        BY <1>1, <4>1 DEF QuantityTypes
    <3>7. QED
      BY <3>1, <3>4, <3>5, <3>6
  <2>2. \A i : AttemptsOf(i)' = AttemptsOf(i)
    BY <1>5 DEF AttemptsOf
  <2>3. QED
    BY <1>2, <2>1, <2>2 DEF SubmissionsCovered, Rev
<1>12. \A x \in Workers : ReadFits(op[x])'
  <2>1. \A x \in Workers : op'[x] = Idle
    BY <1>1, <1>2 DEF LoneWorker, RowInv, TypeOK
  <2>2. QED
    BY <2>1 DEF ReadFits, Publishes, Idle
<1>13. QED
  BY <1>1, <1>8, <1>9, <1>10, <1>11, <1>12 DEF LaneInv, QuantityInv

LEMMA NextLane == LoneWorker /\ LaneInv /\ [Next]_vars => LaneInv'
<1> SUFFICES ASSUME LoneWorker, LaneInv, [Next]_vars PROVE LaneInv'
  OBVIOUS
<1>1. RowInv'
  BY NextRow DEF LaneInv
<1>2. CASE \/ UNCHANGED vars \/ Expire \/ Bust \/ LegalTerminal
           \/ \E w \in Workers : ScheduleQuery(w) \/ Claim(w) \/ ReleaseLease(w)
  <2>1. /\ UNCHANGED <<chain, attempt, book, sold, late, op>>
        /\ held' = held \/ held' = held + 1
    BY <1>2 DEF vars, Expire, Bust, LegalTerminal, ScheduleQuery, Claim,
       ReleaseLease, client, world, lane
  <2>2. QED
    BY <1>1, <2>1, StillQuantity
<1>3. ASSUME NEW w \in Workers, Abort(w) \/ Crash(w) PROVE LaneInv'
  <2>1. /\ UNCHANGED <<chain, attempt, book, sold, late, held>>
        /\ op' = [op EXCEPT ![w] = Idle]
    BY <1>3 DEF Abort, Crash, Done, lane, world
  <2>2. \A x \in Workers : op'[x] = op[x] \/ op'[x] = Idle
    BY <2>1 DEF LaneInv, RowInv, TypeOK
  <2>3. QED
    BY <1>1, <2>1, <2>2, StillQuantity
<1>4. ASSUME NEW w \in Workers, Worker(w) PROVE LaneInv'
  BY <1>2, <1>3, <1>4, DeriveQuantity, ReconcileQuantity, RequestQuantity,
     CommitPublishQuantity, CommitSubmitQuantity, SendQuantity,
     CommitOutcomeQuantity
  DEF Worker
<1>5. CASE Broker
  BY <1>2, <1>5, FillQuantity, LateFillQuantity, CancelQuantity DEF Broker
<1>6. QED
  BY <1>2, <1>4, <1>5 DEF Next

-----------------------------------------------------------------------------
LEMMA LaneHolds == ASSUME LoneWorker PROVE Spec => []LaneInv
<1>1. LaneInv /\ [Next]_vars => LaneInv'
  BY NextLane
<1>2. QED
  BY InitQuantity, <1>1, PTL DEF Spec

(* A lone worker never oversells: whatever it refreshes, submits, loses in *)
(* a crash or records late, what is on the broker's book never exceeds the *)
(* shares held but for the fills nobody could know of when the leaves were *)
(* freed (_claimable_quantity, record_exit_attempt, _update_attempt).      *)
THEOREM LoneWorkerNeverOversells ==
  ASSUME LoneWorker PROVE Spec => []NeverOversells
<1>1. LaneInv => NeverOversells
  BY DEF LaneInv, QuantityInv
<1>2. QED
  BY LaneHolds, <1>1, PTL

(* Under every mandate, what a lone worker submitted and has not been      *)
(* given back by a cancel fits the executable quantity of that mandate     *)
(* (record_exit_attempt's claimable check).                                *)
THEOREM LoneWorkerCovered ==
  ASSUME LoneWorker PROVE Spec => []SubmissionsCovered
<1>1. LaneInv => SubmissionsCovered
  BY DEF LaneInv, QuantityInv
<1>2. QED
  BY LaneHolds, <1>1, PTL

(* Once the broker is done with the active mandate's attempts and the lane *)
(* has recorded it, all that was not sold can be claimed again: a lost or  *)
(* cancelled order strands no shares (_claimable_quantity).                *)
THEOREM LoneWorkerStrandsNothing ==
  ASSUME LoneWorker PROVE Spec => []NothingStranded
<1>1. RowInv => NothingStranded
  <2> SUFFICES ASSUME RowInv, \A a \in AttemptsOf(Rev) : Recorded(a)
               PROVE  Claimable(Rev) = Executable(Active)
                        - SumFunctionOnSet(sold, AttemptsOf(Rev))
    BY DEF NothingStranded
  <2>1. IsFiniteSet(AttemptsOf(Rev)) /\ AttemptsOf(Rev) \subseteq Attempts
    BY ExitAssumption, FS_Subset DEF AttemptsOf
  <2>2. ASSUME NEW a \in AttemptsOf(Rev) PROVE Taken[a] = sold[a]
    BY <2>1, TakenIs DEF Recorded
  <2>3. SumFunctionOnSet(Taken, AttemptsOf(Rev))
          = SumFunctionOnSet(sold, AttemptsOf(Rev))
    BY <2>1, <2>2, SumSame
  <2>4. QED
    BY <2>3 DEF Claimable, Active
<1>2. LaneInv => NothingStranded
  BY <1>1 DEF LaneInv
<1>3. QED
  BY LaneHolds, <1>2, PTL

=============================================================================
