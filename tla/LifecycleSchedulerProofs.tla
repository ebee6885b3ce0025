---------------------- MODULE LifecycleSchedulerProofs ----------------------
(* Proofs about LifecycleScheduler, for any ids, budgets and bounds.       *)
EXTENDS LifecycleScheduler, SequenceTheorems, TLAPS

RateInv ==
  /\ TypeOK
  /\ cycle \in Seq(WorkItem) /\ queue \in Seq(WorkItem)
  /\ running \/ cycle = <<>>
  /\ RateIsolated

IsExit(i) == i.kind = "exit"
Carries(i, x) == i.kind \in {"exit", "reconcile"} /\ i.id = x

(* An exit is in the line at most once, under an id handed out and not yet *)
(* escalated; an owed exit is in it as itself or as its reconcile.         *)
ExitOnce ==
  \A i, j \in DOMAIN Line :
    IsExit(Line[i]) /\ IsExit(Line[j]) /\ Line[i].id = Line[j].id => i = j
ExitFresh ==
  \A i \in DOMAIN Line :
    IsExit(Line[i]) => Line[i].id \in used /\ Line[i].id \notin reconciled
OwedInLine ==
  raises = 0 => \A x \in owed : \E i \in DOMAIN Line : Carries(Line[i], x)

DutyInv ==
  /\ RateInv
  /\ reconciled \subseteq used
  /\ ExitOnce /\ ExitFresh /\ OwedInLine

-----------------------------------------------------------------------------

(* The line after the turn of the head has put new at the end.             *)
LEMMA LineMoves ==
  ASSUME cycle \in Seq(WorkItem), queue \in Seq(WorkItem), cycle # <<>>,
         NEW new \in Seq(WorkItem),
         cycle' = Tail(cycle), queue' = queue \o new
  PROVE  /\ DOMAIN Line = 1..Len(Line) /\ Len(Line) \in Nat \ {0}
         /\ Line[1] = Next1
         /\ DOMAIN Line' = 1..(Len(Line) - 1 + Len(new))
         /\ \A i \in 1..(Len(Line) - 1) : Line'[i] = Line[i + 1]
         /\ \A j \in 1..Len(new) : Line'[Len(Line) - 1 + j] = new[j]
<1>1. Len(cycle) \in Nat \ {0} /\ Len(queue) \in Nat /\ Len(new) \in Nat
  OBVIOUS
<1>2. /\ Len(Line) = Len(cycle) + Len(queue)
      /\ DOMAIN Line = 1..Len(Line) /\ Line[1] = Next1
      /\ \A i \in 1..Len(cycle) : Line[i] = cycle[i]
      /\ \A i \in 1..Len(queue) : Line[Len(cycle) + i] = queue[i]
  BY <1>1 DEF Line, Next1
<1>3. /\ Tail(cycle) \in Seq(WorkItem) /\ Len(Tail(cycle)) = Len(cycle) - 1
      /\ \A i \in 1..(Len(cycle) - 1) : Tail(cycle)[i] = cycle[i + 1]
  BY <1>1
<1>4. /\ queue \o new \in Seq(WorkItem)
      /\ Len(queue \o new) = Len(queue) + Len(new)
      /\ \A i \in 1..Len(queue) : (queue \o new)[i] = queue[i]
      /\ \A j \in 1..Len(new) : (queue \o new)[Len(queue) + j] = new[j]
  BY <1>1
<1>5. /\ Len(Line') = Len(cycle) - 1 + Len(queue) + Len(new)
      /\ DOMAIN Line' = 1..Len(Line')
      /\ \A i \in 1..(Len(cycle) - 1) : Line'[i] = Tail(cycle)[i]
      /\ \A i \in 1..(Len(queue) + Len(new)) :
           Line'[Len(cycle) - 1 + i] = (queue \o new)[i]
  BY <1>1, <1>3, <1>4 DEF Line
<1>6. ASSUME NEW i \in 1..(Len(Line) - 1) PROVE Line'[i] = Line[i + 1]
  <2>1. CASE i <= Len(cycle) - 1
    BY <1>1, <1>2, <1>3, <1>5, <2>1
  <2>2. CASE i > Len(cycle) - 1
    <3>0. PICK c \in Nat, q \in Nat, n \in Nat :
            c = Len(cycle) /\ q = Len(queue) /\ n = Len(new)
      BY <1>1
    <3>1. /\ i - Len(cycle) + 1 \in 1..Len(queue)
          /\ i - Len(cycle) + 1 \in 1..(Len(queue) + Len(new))
          /\ Len(cycle) - 1 + (i - Len(cycle) + 1) = i
          /\ Len(cycle) + (i - Len(cycle) + 1) = i + 1
      <4>1. i \in 1..(c + q - 1) /\ i > c - 1
        BY <1>2, <2>2, <3>0
      <4>2. /\ i - c + 1 \in 1..q /\ i - c + 1 \in 1..(q + n)
            /\ c - 1 + (i - c + 1) = i /\ c + (i - c + 1) = i + 1
        BY <4>1
      <4>3. QED
        BY <3>0, <4>2
    <3>2. PICK k : k = i - Len(cycle) + 1
      OBVIOUS
    <3>3. Line'[i] = (queue \o new)[k]
      BY <1>5, <3>1, <3>2
    <3>4. Line[i + 1] = queue[k]
      BY <1>2, <3>1, <3>2
    <3>5. QED
      BY <1>4, <3>1, <3>2, <3>3, <3>4
  <2>3. QED
    BY <1>1, <2>1, <2>2
<1>7. ASSUME NEW j \in 1..Len(new) PROVE Line'[Len(Line) - 1 + j] = new[j]
  <2>1. /\ Len(Line) - 1 + j = Len(cycle) - 1 + (Len(queue) + j)
        /\ Len(queue) + j \in 1..(Len(queue) + Len(new))
    BY <1>1, <1>2
  <2>2. PICK k : k = Len(queue) + j
    OBVIOUS
  <2>3. Line'[Len(cycle) - 1 + k] = (queue \o new)[k]
    BY <1>5, <2>1, <2>2
  <2>4. QED
    BY <1>4, <2>1, <2>2, <2>3
<1>8. QED
  BY <1>1, <1>2, <1>5, <1>6, <1>7

-----------------------------------------------------------------------------
(* Types and rates.                                                        *)

(* The turn of the head leaves new behind.                                 *)
Moves(new) == cycle' = Tail(cycle) /\ queue' = queue \o new

LEMMA HeadTyped ==
  ASSUME RateInv, cycle # <<>>
  PROVE  Next1 \in WorkItem /\ Next1.kind \in WorkKind
<1>1. Next1 \in WorkItem
  BY DEF RateInv, Next1
<1>2. QED
  BY <1>1 DEF WorkItem

LEMMA ItemTyped ==
  ASSUME NEW kind \in WorkKind, NEW x \in Ids
  PROVE  /\ Item(kind, x) \in WorkItem
         /\ Item(kind, x).kind = kind /\ Item(kind, x).id = x
  BY SchedulerAssumption DEF Item, WorkItem

LEMMA PutBack ==
  ASSUME RateInv, NEW i \in WorkItem
  PROVE  Append(queue, i) = queue \o <<i>> /\ queue \o <<>> = queue
  BY DEF RateInv

LEMMA MovesTyped ==
  ASSUME RateInv, cycle # <<>>, NEW new \in Seq(WorkItem), Moves(new)
  PROVE  /\ cycle' \in Seq(WorkItem) /\ queue' \in Seq(WorkItem)
         /\ Work' \subseteq WorkItem
<1>1. cycle' \in Seq(WorkItem) /\ queue' \in Seq(WorkItem)
  BY DEF RateInv, Moves
<1>2. QED
  BY <1>1 DEF Work, Range

LEMMA RetryTyped ==
  ASSUME RateInv, cycle # <<>>, ~Exhausted
  PROVE  /\ [Next1 EXCEPT !.attempts = @ + 1] \in WorkItem
         /\ [Next1 EXCEPT !.attempts = @ + 1].kind = Next1.kind
         /\ [Next1 EXCEPT !.attempts = @ + 1].id = Next1.id
<1>1. Next1 \in [kind: WorkKind, id: Ids, attempts: 0..MaxRetries]
  BY HeadTyped DEF WorkItem
<1>2. Next1.attempts + 1 \in 0..MaxRetries
  BY <1>1, SchedulerAssumption DEF Exhausted
<1>3. QED
  BY <1>1, <1>2 DEF WorkItem

(* What an unknown quantity leaves behind.                                 *)
Spawned == Query \o (IF Exhausted THEN Escalation ELSE Retry)

LEMMA SpawnedTyped ==
  ASSUME RateInv, cycle # <<>>
  PROVE  /\ Query \in Seq(WorkItem) /\ Escalation \in Seq(WorkItem)
         /\ ~Exhausted => Retry \in Seq(WorkItem)
         /\ Spawned \in Seq(WorkItem)
         /\ {q.id : q \in Range(Query)} \subseteq Ids
         /\ {q.id : q \in Range(Escalation)} \subseteq {Next1.id}
         /\ Next1.id \in Ids
<1>1. Next1 \in WorkItem /\ Next1.id \in Ids
  BY HeadTyped DEF WorkItem
<1>2. PICK q \in WorkItem : q = Item("query", Next1.id) /\ q.id = Next1.id
  BY <1>1, ItemTyped DEF WorkKind
<1>3. PICK e \in WorkItem : e = Item("reconcile", Next1.id) /\ e.id = Next1.id
  BY <1>1, ItemTyped DEF WorkKind
<1>4. Query \in {<<>>, <<q>>} /\ Query \in Seq(WorkItem)
  BY <1>2 DEF Query
<1>5. Escalation \in {<<>>, <<e>>} /\ Escalation \in Seq(WorkItem)
  BY <1>3 DEF Escalation
<1>6. ~Exhausted => Retry \in Seq(WorkItem)
  <2> SUFFICES ASSUME ~Exhausted PROVE Retry \in Seq(WorkItem)
    OBVIOUS
  <2>1. PICK i \in WorkItem : i = [Next1 EXCEPT !.attempts = @ + 1]
    BY RetryTyped
  <2>2. Retry = <<i>>
    BY <2>1 DEF Retry
  <2>3. QED
    BY <2>2
<1>7. Spawned \in Seq(WorkItem)
  BY <1>4, <1>5, <1>6 DEF Spawned
<1>8. {p.id : p \in Range(Query)} \subseteq Ids
  BY <1>1, <1>2, <1>4 DEF Range
<1>9. {p.id : p \in Range(Escalation)} \subseteq {Next1.id}
  BY <1>3, <1>5 DEF Range
<1>10. QED
  BY <1>1, <1>4, <1>5, <1>6, <1>7, <1>8, <1>9

(* The parts a turn has to establish besides the line.                     *)
Booked ==
  /\ queried' \subseteq Ids /\ reconciled' \subseteq Ids
  /\ used' \subseteq Ids /\ owed' \subseteq used'
  /\ throttles' \in 0..MaxThrottle /\ reopens' \in 0..MaxReopen
  /\ raises' \in 0..MaxRaise

(* A turn is charged, charged and refunded, or does not call the executor. *)
Uncalled == UNCHANGED <<bucket, calls, refused>>
Charged == (bucket[Next1.kind] > 0 /\ Spend) \/ Refund \/ Uncalled

LEMMA ChargeKeeps ==
  ASSUME RateInv, cycle # <<>>, Charged
  PROVE  /\ bucket' \in [WorkKind -> Nat] /\ calls' \in [WorkKind -> Nat]
         /\ refused' \in [WorkKind -> Nat] /\ RateIsolated'
<1>1. /\ bucket \in [WorkKind -> Nat] /\ calls \in [WorkKind -> Nat]
      /\ refused \in [WorkKind -> Nat] /\ Budget \in [WorkKind -> Nat]
      /\ \A j \in WorkKind : calls[j] + bucket[j] = Budget[j] + refused[j]
  BY SchedulerAssumption DEF RateInv, TypeOK, RateIsolated
<1>2. PICK k \in WorkKind : k = Next1.kind
  BY HeadTyped
<1>3. CASE bucket[k] > 0 /\ Spend
  <2>1. /\ bucket' = [bucket EXCEPT ![k] = bucket[k] - 1]
        /\ calls' = [calls EXCEPT ![k] = calls[k] + 1]
        /\ refused' = refused /\ bucket[k] \in Nat /\ calls[k] \in Nat
    BY <1>1, <1>2, <1>3 DEF Spend, Called
  <2>2. bucket' \in [WorkKind -> Nat] /\ calls' \in [WorkKind -> Nat]
    BY <1>1, <1>3, <2>1
  <2>3. RateIsolated'
    <3> SUFFICES ASSUME NEW j \in WorkKind
                 PROVE  calls'[j] + bucket'[j] = Budget[j] + refused'[j]
      BY DEF RateIsolated
    <3>1. calls[j] + bucket[j] = Budget[j] + refused[j] /\ calls[j] \in Nat
          /\ bucket[j] \in Nat /\ Budget[j] \in Nat /\ refused[j] \in Nat
      BY <1>1
    <3>2. QED
      BY <1>1, <1>3, <2>1, <3>1
  <2>4. QED
    BY <1>1, <2>1, <2>2, <2>3
<1>4. CASE Refund
  <2>1. /\ refused' = [refused EXCEPT ![k] = refused[k] + 1]
        /\ calls' = [calls EXCEPT ![k] = calls[k] + 1]
        /\ bucket' = bucket /\ refused[k] \in Nat /\ calls[k] \in Nat
    BY <1>1, <1>2, <1>4 DEF Refund, Called
  <2>2. refused' \in [WorkKind -> Nat] /\ calls' \in [WorkKind -> Nat]
    BY <1>1, <2>1
  <2>3. RateIsolated'
    <3> SUFFICES ASSUME NEW j \in WorkKind
                 PROVE  calls'[j] + bucket'[j] = Budget[j] + refused'[j]
      BY DEF RateIsolated
    <3>1. calls[j] + bucket[j] = Budget[j] + refused[j] /\ calls[j] \in Nat
          /\ bucket[j] \in Nat /\ Budget[j] \in Nat /\ refused[j] \in Nat
      BY <1>1
    <3>2. CASE j = k
      <4>1. calls'[j] = calls[j] + 1 /\ refused'[j] = refused[j] + 1
        BY <1>1, <2>1, <3>2
      <4>2. QED
        BY <2>1, <3>1, <4>1
    <3>3. CASE j # k
      <4>1. calls'[j] = calls[j] /\ refused'[j] = refused[j]
        BY <1>1, <2>1, <3>3
      <4>2. QED
        BY <2>1, <3>1, <4>1
    <3>4. QED
      BY <3>2, <3>3
  <2>4. QED
    BY <1>1, <2>1, <2>2, <2>3
<1>5. CASE Uncalled
  BY <1>1, <1>5 DEF Uncalled, RateIsolated
<1>6. QED
  BY <1>2, <1>3, <1>4, <1>5 DEF Charged

LEMMA RateMoves ==
  ASSUME RateInv, running, cycle # <<>>, NEW new \in Seq(WorkItem), Moves(new),
         UNCHANGED <<running, late>>, Booked, Charged
  PROVE  RateInv'
<1>1. /\ cycle' \in Seq(WorkItem) /\ queue' \in Seq(WorkItem)
      /\ Work' \subseteq WorkItem
  BY MovesTyped
<1>2. /\ bucket' \in [WorkKind -> Nat] /\ calls' \in [WorkKind -> Nat]
      /\ refused' \in [WorkKind -> Nat] /\ RateIsolated'
  BY ChargeKeeps
<1>3. running' \in BOOLEAN /\ late' \in BOOLEAN /\ running'
  BY DEF RateInv, TypeOK
<1>4. QED
  BY <1>1, <1>2, <1>3 DEF RateInv, TypeOK, Booked

(* What each turn leaves behind.                                           *)
LEMMA TurnMoves ==
  ASSUME RateInv
  PROVE  /\ RejectLateEntry \/ Submitted \/ CutoffRejected => Moves(<<>>)
         /\ DeferOverBudget \/ Throttled => Moves(<<Next1>>)
         /\ UnknownQuantity => Moves(Spawned)
         /\ \A x \in Ids : ReopenedExit(x) => Moves(<<Item("exit", x)>>)
<1>1. RejectLateEntry \/ Submitted \/ CutoffRejected => Moves(<<>>)
  BY DEF RejectLateEntry, Submitted, CutoffRejected, Executes, Turn, Moves, RateInv
<1>2. DeferOverBudget \/ Throttled => Moves(<<Next1>>)
  <2> SUFFICES ASSUME DeferOverBudget \/ Throttled PROVE Moves(<<Next1>>)
    OBVIOUS
  <2>1. cycle # <<>> /\ cycle' = Tail(cycle) /\ queue' = Append(queue, Next1)
    BY DEF DeferOverBudget, Throttled, Executes, Turn
  <2>2. QED
    BY <2>1, HeadTyped, PutBack DEF Moves
<1>3. UnknownQuantity => Moves(Spawned)
  <2> SUFFICES ASSUME UnknownQuantity PROVE Moves(Spawned)
    OBVIOUS
  <2>1. cycle # <<>> /\ cycle' = Tail(cycle)
        /\ queue' = (queue \o Query) \o (IF Exhausted THEN Escalation ELSE Retry)
        /\ UnknownQuantity
    BY DEF UnknownQuantity, Executes, Turn
  <2>2. queue \in Seq(WorkItem) /\ Query \in Seq(WorkItem)
        /\ Escalation \in Seq(WorkItem) /\ (~Exhausted => Retry \in Seq(WorkItem))
    BY <2>1, SpawnedTyped DEF RateInv
  <2>3. PICK tail \in Seq(WorkItem) :
          tail = IF Exhausted THEN Escalation ELSE Retry
    BY <2>2
  <2>4. (queue \o Query) \o tail = queue \o (Query \o tail)
    BY <2>2, ConcatAssociative
  <2>5. QED
    BY <2>1, <2>3, <2>4 DEF Moves, Spawned
<1>4. ASSUME NEW x \in Ids, ReopenedExit(x) PROVE Moves(<<Item("exit", x)>>)
  <2>1. cycle' = Tail(cycle) /\ queue' = Append(queue, Item("exit", x))
    BY <1>4 DEF ReopenedExit, Executes, Turn
  <2>2. QED
    BY <2>1, ItemTyped, PutBack DEF Moves, WorkKind
<1>5. QED
  BY <1>1, <1>2, <1>3, <1>4

LEMMA TurnRate ==
  ASSUME RateInv, RejectLateEntry \/ DeferOverBudget \/ Execute
  PROVE  RateInv'
<1>1. running /\ cycle # <<>> /\ UNCHANGED <<running, late>>
  BY DEF RejectLateEntry, DeferOverBudget, Execute, Submitted, Throttled,
         CutoffRejected, UnknownQuantity, ReopenedExit, Executes, Turn
<1>2. Next1 \in WorkItem /\ Next1.id \in Ids /\ Discharged \subseteq owed
  BY <1>1, SpawnedTyped, HeadTyped DEF Discharged
<1>3. <<>> \in Seq(WorkItem) /\ <<Next1>> \in Seq(WorkItem)
      /\ Spawned \in Seq(WorkItem)
      /\ \A x \in Ids : <<Item("exit", x)>> \in Seq(WorkItem)
  BY <1>1, <1>2, SpawnedTyped, ItemTyped DEF WorkKind
<1>4. /\ queried \subseteq Ids /\ reconciled \subseteq Ids
      /\ used \subseteq Ids /\ owed \subseteq used
      /\ throttles \in 0..MaxThrottle /\ reopens \in 0..MaxReopen
      /\ raises \in 0..MaxRaise
  BY DEF RateInv, TypeOK
<1>5. CASE RejectLateEntry
  <2>1. Booked /\ Charged
    BY <1>4, <1>5 DEF RejectLateEntry, Booked, Charged, Uncalled, faults
  <2>2. QED
    BY <1>1, <1>3, <1>5, <2>1, TurnMoves, RateMoves
<1>6. CASE DeferOverBudget
  <2>1. Booked /\ Charged
    BY <1>4, <1>6 DEF DeferOverBudget, Booked, Charged, Uncalled, faults
  <2>2. QED
    BY <1>1, <1>3, <1>6, <2>1, TurnMoves, RateMoves
<1>7. CASE Submitted
  <2>1. Booked /\ Charged
    BY <1>2, <1>4, <1>7 DEF Submitted, Booked, Executes, Charged, faults
  <2>2. QED
    BY <1>1, <1>3, <1>7, <2>1, TurnMoves, RateMoves
<1>8. CASE Throttled
  <2>1. Booked /\ Charged
    BY <1>4, <1>8, SchedulerAssumption DEF Throttled, Booked, Charged
  <2>2. QED
    BY <1>1, <1>3, <1>8, <2>1, TurnMoves, RateMoves
<1>9. CASE CutoffRejected
  <2>1. Booked /\ Charged
    BY <1>2, <1>4, <1>9 DEF CutoffRejected, Booked, Charged, faults
  <2>2. QED
    BY <1>1, <1>3, <1>9, <2>1, TurnMoves, RateMoves
<1>10. CASE UnknownQuantity
  <2>1. queried' \subseteq Ids /\ reconciled' \subseteq Ids
    BY <1>1, <1>4, <1>10, SpawnedTyped DEF UnknownQuantity
  <2>2. owed' \subseteq used /\ UNCHANGED <<used, throttles, reopens, raises>>
    BY <1>2, <1>4, <1>10 DEF UnknownQuantity, faults
  <2>3. Booked /\ Charged
    BY <1>4, <1>10, <2>1, <2>2
    DEF UnknownQuantity, Booked, Executes, Charge, Charged
  <2>4. QED
    BY <1>1, <1>3, <1>10, <2>3, TurnMoves, RateMoves
<1>11. CASE \E x \in Ids : ReopenedExit(x)
  <2>1. PICK x \in Ids : ReopenedExit(x)
    BY <1>11
  <2>2. Booked /\ Charged
    BY <1>2, <1>4, <2>1, SchedulerAssumption
    DEF ReopenedExit, Booked, Executes, Charged
  <2>3. QED
    BY <1>1, <1>3, <2>1, <2>2, TurnMoves, RateMoves
<1>12. QED
  BY <1>5, <1>6, <1>7, <1>8, <1>9, <1>10, <1>11 DEF Execute

LEMMA EnqueueRate ==
  ASSUME RateInv, NEW kind \in {"entry", "exit"}, NEW x \in Ids, Enqueue(kind, x)
  PROVE  RateInv'
<1>1. Item(kind, x) \in WorkItem
  BY ItemTyped DEF WorkKind
<1>2. queue' \in Seq(WorkItem) /\ cycle' \in Seq(WorkItem)
  BY <1>1 DEF Enqueue, RateInv
<1>3. Work' \subseteq WorkItem
  BY <1>2 DEF Work, Range
<1>4. used' \subseteq Ids /\ owed' \subseteq used'
  BY DEF Enqueue, RateInv, TypeOK
<1>5. QED
  BY <1>2, <1>3, <1>4
  DEF Enqueue, RateInv, TypeOK, RateIsolated, faults

LEMMA StartRate ==
  ASSUME RateInv, StartCycle PROVE RateInv'
<1>1. queue' \in Seq(WorkItem) /\ cycle' \in Seq(WorkItem)
  BY DEF StartCycle, RateInv
<1>2. Work' \subseteq WorkItem
  BY <1>1 DEF Work, Range
<1>3. /\ calls' = [k \in WorkKind |-> 0] /\ bucket' = Budget
      /\ refused' = [k \in WorkKind |-> 0]
  BY DEF StartCycle, NoCalls
<1>4. /\ RateIsolated' /\ calls' \in [WorkKind -> Nat]
      /\ refused' \in [WorkKind -> Nat]
  BY <1>3, SchedulerAssumption DEF RateIsolated
<1>5. QED
  BY <1>1, <1>2, <1>3, <1>4, SchedulerAssumption
  DEF StartCycle, RateInv, TypeOK, faults

LEMMA EndRate ==
  ASSUME RateInv, EndCycle PROVE RateInv'
  BY DEF EndCycle, RateInv, TypeOK, RateIsolated, Work, faults

LEMMA RaiseRate ==
  ASSUME RateInv, ExecutorRaises PROVE RateInv'
<1>1. queue' \in Seq(WorkItem) /\ cycle' \in Seq(WorkItem) /\ cycle' = <<>>
  BY DEF ExecutorRaises, RateInv
<1>2. Work' \subseteq WorkItem
  BY <1>1 DEF Work, Range
<1>3. cycle # <<>> /\ Charged
  BY DEF ExecutorRaises, Charged
<1>4. /\ bucket' \in [WorkKind -> Nat] /\ calls' \in [WorkKind -> Nat]
      /\ refused' \in [WorkKind -> Nat] /\ RateIsolated'
  BY <1>3, ChargeKeeps
<1>5. raises' \in 0..MaxRaise /\ running' \in BOOLEAN
  <2>1. /\ raises \in 0..MaxRaise /\ raises < MaxRaise /\ raises' = raises + 1
        /\ running' = FALSE
    BY DEF ExecutorRaises, RateInv, TypeOK
  <2>2. MaxRaise \in Nat
    BY SchedulerAssumption
  <2>3. raises' \in 0..MaxRaise
    BY <2>1, <2>2
  <2>4. QED
    BY <2>1, <2>3
<1>6. QED
  BY <1>1, <1>2, <1>4, <1>5 DEF ExecutorRaises, RateInv, TypeOK

LEMMA StutterRate == RateInv /\ UNCHANGED vars => RateInv'
  BY DEF RateInv, TypeOK, RateIsolated, Work, vars

LEMMA InitRate == Init => RateInv
<1> SUFFICES ASSUME Init PROVE RateInv
  OBVIOUS
<1>1. Work = {}
  <2>1. DOMAIN queue = {} /\ DOMAIN cycle = {}
    BY DEF Init
  <2>2. QED
    BY <2>1 DEF Work, Range
<1>2. Budget \in [WorkKind -> Nat] /\ bucket = Budget
      /\ calls = [k \in WorkKind |-> 0] /\ refused = [k \in WorkKind |-> 0]
  BY SchedulerAssumption DEF Init, NoCalls
<1>3. /\ RateIsolated /\ bucket \in [WorkKind -> Nat]
      /\ calls \in [WorkKind -> Nat] /\ refused \in [WorkKind -> Nat]
  BY <1>2 DEF RateIsolated
<1>4. 0 \in 0..MaxThrottle /\ 0 \in 0..MaxReopen /\ 0 \in 0..MaxRaise
  BY SchedulerAssumption
<1>5. TypeOK
  BY <1>1, <1>3, <1>4 DEF Init, TypeOK
<1>6. QED
  BY <1>3, <1>5 DEF Init, RateInv

LEMMA NextRate == RateInv /\ [Next]_vars => RateInv'
  BY EnqueueRate, StartRate, EndRate, TurnRate, RaiseRate, StutterRate
  DEF Next, Cycle

(* Every work item, bucket and dedupe set stays well formed, and no item   *)
(* is retried past the bound (run_cycle).                                  *)
THEOREM SchedulerTypeOK == Spec => []TypeOK
<1>1. RateInv => TypeOK
  BY DEF RateInv
<1>2. QED
  BY InitRate, NextRate, <1>1, PTL DEF Spec

(* For any budgets and any mix of deferrals, throttles, corrections and    *)
(* exceptions, every round-trip of a cycle is paid from the bucket of its  *)
(* own kind and only a refused one is given back (run_cycle, audit M2).    *)
THEOREM RateIsolation == Spec => []RateIsolated
<1>1. RateInv => RateIsolated
  BY DEF RateInv
<1>2. QED
  BY InitRate, NextRate, <1>1, PTL DEF Spec

(* The rate that follows: in a cycle the broker accepts no more round-trips*)
(* of a kind than its budget, and sees at most one more for each it itself *)
(* refused; a kind finds its bucket empty only when it spent it itself.    *)
THEOREM RateOverrun ==
  Spec => [](\A k \in WorkKind :
               /\ calls[k] <= Budget[k] + refused[k]
               /\ bucket[k] = 0 => calls[k] >= Budget[k])
<1>1. RateInv => \A k \in WorkKind :
        /\ calls[k] <= Budget[k] + refused[k]
        /\ bucket[k] = 0 => calls[k] >= Budget[k]
  BY SchedulerAssumption DEF RateInv, TypeOK, RateIsolated
<1>2. QED
  BY InitRate, NextRate, <1>1, PTL DEF Spec

-----------------------------------------------------------------------------
(* No exit is orphaned.                                                    *)

LEMMA LineSplits ==
  ASSUME RateInv, cycle # <<>>, NEW new \in Seq(WorkItem), Moves(new),
         NEW i \in DOMAIN Line'
  PROVE  \/ i + 1 \in DOMAIN Line /\ i + 1 # 1 /\ Line'[i] = Line[i + 1]
         \/ \E j \in DOMAIN new : i = Len(Line) - 1 + j /\ Line'[i] = new[j]
<1>1. /\ DOMAIN Line = 1..Len(Line) /\ Len(Line) \in Nat \ {0}
      /\ DOMAIN Line' = 1..(Len(Line) - 1 + Len(new))
      /\ \A k \in 1..(Len(Line) - 1) : Line'[k] = Line[k + 1]
      /\ \A j \in 1..Len(new) : Line'[Len(Line) - 1 + j] = new[j]
  BY LineMoves DEF Moves, RateInv
<1>2. DOMAIN new = 1..Len(new) /\ Len(new) \in Nat
  OBVIOUS
<1>3. CASE i <= Len(Line) - 1
  BY <1>1, <1>2, <1>3
<1>4. CASE i > Len(Line) - 1
  <2>1. PICK j : j = i - Len(Line) + 1
    OBVIOUS
  <2>2. j \in 1..Len(new) /\ i = Len(Line) - 1 + j
    BY <1>1, <1>2, <1>4, <2>1
  <2>3. QED
    BY <1>1, <1>2, <2>2
<1>5. QED
  BY <1>1, <1>2, <1>3, <1>4

LEMMA LineKeeps ==
  ASSUME RateInv, cycle # <<>>, NEW new \in Seq(WorkItem), Moves(new)
  PROVE  /\ 1 \in DOMAIN Line /\ Line[1] = Next1
         /\ \A i \in DOMAIN Line : i # 1 =>
              \E k \in DOMAIN Line' : Line'[k] = Line[i]
         /\ \A j \in DOMAIN new : \E k \in DOMAIN Line' : Line'[k] = new[j]
<1>1. /\ DOMAIN Line = 1..Len(Line) /\ Len(Line) \in Nat \ {0}
      /\ Line[1] = Next1
      /\ DOMAIN Line' = 1..(Len(Line) - 1 + Len(new))
      /\ \A k \in 1..(Len(Line) - 1) : Line'[k] = Line[k + 1]
      /\ \A j \in 1..Len(new) : Line'[Len(Line) - 1 + j] = new[j]
  BY LineMoves DEF Moves, RateInv
<1>2. DOMAIN new = 1..Len(new) /\ Len(new) \in Nat
  OBVIOUS
<1>3. ASSUME NEW i \in DOMAIN Line, i # 1
      PROVE  \E k \in DOMAIN Line' : Line'[k] = Line[i]
  <2>1. PICK k : k = i - 1
    OBVIOUS
  <2>2. k \in 1..(Len(Line) - 1) /\ k + 1 = i
        /\ k \in 1..(Len(Line) - 1 + Len(new))
    BY <1>1, <1>2, <1>3, <2>1
  <2>3. QED
    BY <1>1, <2>2
<1>4. ASSUME NEW j \in DOMAIN new
      PROVE  \E k \in DOMAIN Line' : Line'[k] = new[j]
  <2>1. Len(Line) - 1 + j \in 1..(Len(Line) - 1 + Len(new))
    BY <1>1, <1>2
  <2>2. QED
    BY <1>1, <1>2, <2>1
<1>5. QED
  BY <1>1, <1>3, <1>4

LEMMA LineIndex ==
  ASSUME RateInv, cycle # <<>>, NEW new \in Seq(WorkItem), Moves(new),
         NEW i \in DOMAIN Line', NEW j \in DOMAIN Line'
  PROVE  i \in Int /\ j \in Int /\ Len(Line) \in Int
<1>1. /\ cycle \in Seq(WorkItem) /\ queue \in Seq(WorkItem)
      /\ cycle' = Tail(cycle) /\ queue' = queue \o new
  BY DEF RateInv, Moves
<1>2. /\ DOMAIN Line' = 1..(Len(Line) - 1 + Len(new))
      /\ Len(Line) \in Nat \ {0}
  BY <1>1, LineMoves, Zenon
<1>3. Len(new) \in Nat
  OBVIOUS
<1>4. QED
  BY <1>2, <1>3

(* What the turn of the head has to establish for the duty to be kept.     *)
LEMMA DutyMoves ==
  ASSUME DutyInv, RateInv', cycle # <<>>, NEW new \in Seq(WorkItem), Moves(new),
         raises' = raises, used \subseteq used', reconciled' \subseteq used',
         \A j, k \in DOMAIN new : IsExit(new[j]) /\ IsExit(new[k]) => j = k,
         \A j \in DOMAIN new : IsExit(new[j]) =>
           /\ new[j].id \in used' /\ new[j].id \notin reconciled'
           /\ \/ IsExit(Next1) /\ new[j].id = Next1.id
              \/ new[j].id \notin used,
         \A x \in reconciled' \ reconciled : IsExit(Next1) /\ x = Next1.id,
         \A x \in owed' : \/ \E j \in DOMAIN new : Carries(new[j], x)
                          \/ x \in owed /\ ~Carries(Next1, x)
  PROVE  DutyInv'
<1>1. RateInv /\ 1 \in DOMAIN Line /\ Line[1] = Next1
  BY LineKeeps DEF DutyInv
<1>2. ExitOnce'
  <2> SUFFICES ASSUME NEW i \in DOMAIN Line', NEW j \in DOMAIN Line',
                      IsExit(Line'[i]), IsExit(Line'[j]),
                      Line'[i].id = Line'[j].id
               PROVE  i = j
    BY DEF ExitOnce, IsExit
  <2>1. /\ i \in Int /\ j \in Int /\ Len(Line) \in Int
    BY <1>1, LineIndex
  <2>2. CASE /\ i + 1 \in DOMAIN Line /\ i + 1 # 1 /\ Line'[i] = Line[i + 1]
             /\ j + 1 \in DOMAIN Line /\ j + 1 # 1 /\ Line'[j] = Line[j + 1]
    <3>1. i + 1 = j + 1
      BY <2>2 DEF DutyInv, ExitOnce
    <3>2. QED
      BY <2>1, <3>1
  <2>3. ASSUME NEW n \in DOMAIN Line, n # 1, NEW k \in DOMAIN new,
               IsExit(Line[n]), IsExit(new[k]), Line[n].id = new[k].id
        PROVE  FALSE
    <3>1. new[k].id \in used
      BY <2>3 DEF DutyInv, ExitFresh
    <3>2. IsExit(Line[1]) /\ Line[1].id = Line[n].id
      BY <1>1, <2>3, <3>1
    <3>3. QED
      BY <1>1, <2>3, <3>2 DEF DutyInv, ExitOnce
  <2>4. CASE /\ \E k \in DOMAIN new : i = Len(Line) - 1 + k /\ Line'[i] = new[k]
             /\ \E k \in DOMAIN new : j = Len(Line) - 1 + k /\ Line'[j] = new[k]
    BY <2>4
  <2>5. QED
    BY <1>1, <2>2, <2>3, <2>4, LineSplits
<1>3. ExitFresh'
  <2> SUFFICES ASSUME NEW i \in DOMAIN Line', IsExit(Line'[i])
               PROVE  Line'[i].id \in used' /\ Line'[i].id \notin reconciled'
    BY DEF ExitFresh, IsExit
  <2>1. CASE i + 1 \in DOMAIN Line /\ i + 1 # 1 /\ Line'[i] = Line[i + 1]
    <3>1. Line'[i].id \in used /\ Line'[i].id \notin reconciled
      BY <2>1 DEF DutyInv, ExitFresh
    <3>2. Line'[i].id \notin reconciled' \ reconciled
      BY <1>1, <2>1 DEF DutyInv, ExitOnce
    <3>3. QED
      BY <3>1, <3>2
  <2>2. CASE \E k \in DOMAIN new : Line'[i] = new[k]
    BY <2>2
  <2>3. QED
    BY <1>1, <2>1, <2>2, LineSplits
<1>4. OwedInLine'
  <2> SUFFICES ASSUME raises = 0, NEW x \in owed'
               PROVE  \E i \in DOMAIN Line' : Carries(Line'[i], x)
    BY DEF OwedInLine, Carries
  <2>1. CASE \E j \in DOMAIN new : Carries(new[j], x)
    BY <1>1, <2>1, LineKeeps
  <2>2. CASE x \in owed /\ ~Carries(Next1, x)
    <3>1. PICK i \in DOMAIN Line : Carries(Line[i], x)
      BY <2>2 DEF DutyInv, OwedInLine
    <3>2. i # 1
      BY <1>1, <2>2, <3>1
    <3>3. QED
      BY <1>1, <3>1, <3>2, LineKeeps
  <2>3. QED
    BY <2>1, <2>2
<1>5. QED
  BY <1>2, <1>3, <1>4 DEF DutyInv

(* The head of the line, seen by the invariant.                            *)
LEMMA HeadFresh ==
  ASSUME DutyInv, cycle # <<>>
  PROVE  IsExit(Next1) => Next1.id \in used /\ Next1.id \notin reconciled
<1>1. 1 \in DOMAIN Line /\ Line[1] = Next1
  <2>1. cycle \in Seq(WorkItem) /\ queue \in Seq(WorkItem)
    BY DEF DutyInv, RateInv
  <2>2. QED
    BY <2>1 DEF Line, Next1
<1>2. QED
  BY <1>1 DEF DutyInv, ExitFresh

(* Only a retry puts an exit back; an exit that is exhausted for the first *)
(* time leaves its reconcile, a reconcile that is not leaves itself.       *)
LEMMA SpawnedShape ==
  ASSUME RateInv, cycle # <<>>
  PROVE  /\ \A j \in DOMAIN Spawned : IsExit(Spawned[j]) =>
              /\ j = Len(Spawned) /\ ~Exhausted
              /\ IsExit(Next1) /\ Spawned[j].id = Next1.id
         /\ \A x : Carries(Next1, x) /\ ~Exhausted =>
              \E j \in DOMAIN Spawned : Carries(Spawned[j], x)
         /\ IsExit(Next1) /\ Exhausted /\ Next1.id \notin reconciled =>
              \E j \in DOMAIN Spawned : Carries(Spawned[j], Next1.id)
<1>1. Next1 \in WorkItem /\ Next1.id \in Ids
  BY SpawnedTyped, HeadTyped
<1>2. PICK q \in WorkItem : q = Item("query", Next1.id) /\ q.kind = "query"
  BY <1>1, ItemTyped DEF WorkKind
<1>3. PICK e \in WorkItem : /\ e = Item("reconcile", Next1.id)
                            /\ e.kind = "reconcile" /\ e.id = Next1.id
  BY <1>1, ItemTyped DEF WorkKind
<1>4. Query = <<>> \/ Query = <<q>>
  BY <1>2 DEF Query
<1>5. PICK tail \in Seq(WorkItem) : tail = IF Exhausted THEN Escalation ELSE Retry
  BY SpawnedTyped
<1>6. Spawned = Query \o tail
  BY <1>5 DEF Spawned
<1>7. CASE Exhausted
  <2>1. tail = <<>> \/ tail = <<e>>
    BY <1>3, <1>5, <1>7 DEF Escalation
  <2>2. \A j \in DOMAIN Spawned : Spawned[j] \in {q, e}
    BY <1>4, <1>6, <2>1
  <2>3. \A j \in DOMAIN Spawned : ~IsExit(Spawned[j])
    BY <1>2, <1>3, <2>2 DEF IsExit
  <2>4. ASSUME IsExit(Next1), Next1.id \notin reconciled
        PROVE  \E j \in DOMAIN Spawned : Carries(Spawned[j], Next1.id)
    <3>1. tail = <<e>>
      BY <1>3, <1>5, <1>7, <2>4 DEF Escalation, IsExit
    <3>2. Len(Spawned) \in DOMAIN Spawned /\ Spawned[Len(Spawned)] = e
      BY <1>4, <1>6, <3>1
    <3>3. QED
      BY <1>3, <3>2 DEF Carries
  <2>5. QED
    BY <1>7, <2>3, <2>4
<1>8. CASE ~Exhausted
  <2>1. PICK i \in WorkItem : /\ i = [Next1 EXCEPT !.attempts = @ + 1]
                              /\ i.kind = Next1.kind /\ i.id = Next1.id
    BY <1>8, RetryTyped
  <2>2. tail = <<i>>
    BY <1>5, <1>8, <2>1 DEF Retry
  <2>3. /\ Len(Spawned) \in DOMAIN Spawned /\ Spawned[Len(Spawned)] = i
        /\ \A j \in DOMAIN Spawned : j # Len(Spawned) => Spawned[j] = q
    BY <1>4, <1>6, <2>2
  <2>4. \A j \in DOMAIN Spawned : IsExit(Spawned[j]) =>
          j = Len(Spawned) /\ IsExit(Next1) /\ Spawned[j].id = Next1.id
    BY <1>2, <2>1, <2>3 DEF IsExit
  <2>5. \A x : Carries(Next1, x) => Carries(Spawned[Len(Spawned)], x)
    BY <2>1, <2>3 DEF Carries
  <2>6. QED
    BY <1>8, <2>3, <2>4, <2>5
<1>9. QED
  BY <1>7, <1>8

LEMMA TurnDuty ==
  ASSUME DutyInv, RejectLateEntry \/ DeferOverBudget \/ Execute
  PROVE  DutyInv'
<1>1. RateInv /\ RateInv' /\ cycle # <<>>
  BY TurnRate DEF DutyInv, RejectLateEntry, DeferOverBudget, Execute, Submitted,
     Throttled, CutoffRejected, UnknownQuantity, ReopenedExit, Executes, Turn
<1>2. /\ Next1 \in WorkItem /\ Next1.id \in Ids
      /\ reconciled \subseteq used /\ owed \subseteq used
      /\ IsExit(Next1) => Next1.id \in used /\ Next1.id \notin reconciled
  BY <1>1, SpawnedTyped, HeadTyped, HeadFresh DEF DutyInv, RateInv, TypeOK
<1>3. \A x : Carries(Next1, x) => x \notin Discharged
  BY DEF Carries, Discharged
<1>4. Discharged \subseteq owed
  BY DEF Discharged
<1>5. CASE RejectLateEntry
  <2>1. /\ UNCHANGED <<owed, used, reconciled, raises>>
        /\ \A x : ~Carries(Next1, x)
    BY <1>5 DEF RejectLateEntry, InTime, Carries, faults
  <2>2a. Moves(<<>>)
    BY <1>1, <1>5, TurnMoves
  <2>2c. <<>> \in Seq(WorkItem)
    OBVIOUS
  <2>2b. PICK new \in Seq(WorkItem) : new = <<>>
    BY <2>2c, Zenon
  <2>2. Moves(new)
    BY <2>2a, <2>2b DEF Moves
  <2>3. DOMAIN new = {}
    BY <2>2b
  <2>4. QED
    BY <1>1, <1>2, <2>1, <2>2, <2>3, DutyMoves
<1>6. CASE Submitted \/ CutoffRejected
  <2>1. owed' = Discharged /\ UNCHANGED <<used, reconciled, raises>>
    BY <1>6 DEF Submitted, CutoffRejected, faults
  <2>2a. Moves(<<>>)
    BY <1>1, <1>6, TurnMoves
  <2>2c. <<>> \in Seq(WorkItem)
    OBVIOUS
  <2>2b. PICK new \in Seq(WorkItem) : new = <<>>
    BY <2>2c, Zenon
  <2>2. Moves(new)
    BY <2>2a, <2>2b DEF Moves
  <2>3. DOMAIN new = {}
    BY <2>2b
  <2>4. QED
    BY <1>1, <1>2, <1>3, <1>4, <2>1, <2>2, <2>3, DutyMoves
<1>7. CASE DeferOverBudget \/ Throttled
  <2>1. UNCHANGED <<owed, used, reconciled, raises>>
    BY <1>7 DEF DeferOverBudget, Throttled, faults
  <2>2a. Moves(<<Next1>>)
    BY <1>1, <1>7, TurnMoves
  <2>2c. <<Next1>> \in Seq(WorkItem)
    BY <1>2
  <2>2b. PICK new \in Seq(WorkItem) : new = <<Next1>>
    BY <2>2c, Zenon
  <2>2. Moves(new)
    BY <1>2, <2>2a, <2>2b DEF Moves
  <2>3. DOMAIN new = {1} /\ new[1] = Next1
    BY <2>2b
  <2>4. QED
    BY <1>1, <1>2, <2>1, <2>2, <2>3, DutyMoves
<1>8. CASE UnknownQuantity
  <2>1. /\ used' = used /\ raises' = raises
        /\ reconciled' \ reconciled \subseteq {q.id : q \in Range(Escalation)}
        /\ ~Exhausted => reconciled' = reconciled
        /\ owed' \subseteq owed
        /\ Exhausted /\ Next1.kind = "reconcile" => owed' = Discharged
    <3>1. used' = used /\ raises' = raises
      BY <1>8 DEF UnknownQuantity, faults
    <3>2. reconciled' = IF Exhausted
                        THEN reconciled \cup {q.id : q \in Range(Escalation)}
                        ELSE reconciled
      BY <1>8 DEF UnknownQuantity
    <3>3. owed' = IF Exhausted /\ Next1.kind = "reconcile"
                  THEN Discharged ELSE owed
      BY <1>8 DEF UnknownQuantity
    <3>4. PICK esc : esc = {q.id : q \in Range(Escalation)}
      OBVIOUS
    <3>5. reconciled' = IF Exhausted THEN reconciled \cup esc ELSE reconciled
      BY <3>2, <3>4
    <3>6. reconciled' \ reconciled \subseteq esc
          /\ (~Exhausted => reconciled' = reconciled)
      BY <3>5
    <3>7. reconciled' \ reconciled \subseteq {q.id : q \in Range(Escalation)}
      BY <3>4, <3>6
    <3>8. /\ owed' \subseteq owed
          /\ Exhausted /\ Next1.kind = "reconcile" => owed' = Discharged
      BY <1>4, <3>3
    <3>9. QED
      BY <3>1, <3>6, <3>7, <3>8, Zenon
  <2>2. Spawned \in Seq(WorkItem) /\ Moves(Spawned)
    BY <1>1, <1>8, TurnMoves, SpawnedTyped
  <2>3. ASSUME NEW x \in reconciled' \ reconciled
        PROVE  IsExit(Next1) /\ x = Next1.id
    <3>1. Escalation # <<>>
      <4>1. DOMAIN <<>> = {}
        OBVIOUS
      <4>2. QED
        BY <2>1, <2>3, <4>1 DEF Range
    <3>2. x = Next1.id
      BY <1>1, <2>1, <2>3, SpawnedTyped
    <3>3. QED
      BY <3>1, <3>2 DEF Escalation, IsExit
  <2>4. reconciled' \subseteq used'
    BY <1>2, <2>1, <2>3
  <2>5. \A j \in DOMAIN Spawned : IsExit(Spawned[j]) =>
          /\ j = Len(Spawned) /\ ~Exhausted
          /\ IsExit(Next1) /\ Spawned[j].id = Next1.id
    BY <1>1, SpawnedShape
  <2>6. \A j \in DOMAIN Spawned : IsExit(Spawned[j]) =>
          /\ Spawned[j].id \in used' /\ Spawned[j].id \notin reconciled'
          /\ \/ IsExit(Next1) /\ Spawned[j].id = Next1.id
             \/ Spawned[j].id \notin used
    BY <1>2, <2>1, <2>5
  <2>7. ASSUME NEW x \in owed'
        PROVE  \/ \E j \in DOMAIN Spawned : Carries(Spawned[j], x)
               \/ x \in owed /\ ~Carries(Next1, x)
    <3>1. x \in owed
      BY <1>4, <2>1
    <3>2. CASE ~Carries(Next1, x)
      BY <3>1, <3>2
    <3>3. CASE Carries(Next1, x) /\ ~Exhausted
      BY <1>1, <3>3, SpawnedShape
    <3>4. CASE Carries(Next1, x) /\ Exhausted
      <4>1. IsExit(Next1) /\ x = Next1.id
        BY <1>3, <2>1, <3>4 DEF Carries, IsExit
      <4>2. QED
        <5>1. Next1.id \notin reconciled
          BY <1>2, <4>1
        <5>2. \E j \in DOMAIN Spawned : Carries(Spawned[j], Next1.id)
          BY <1>1, <3>4, <4>1, <5>1, SpawnedShape
        <5>3. QED
          BY <4>1, <5>2
    <3>5. QED
      BY <3>2, <3>3, <3>4
  <2>8. QED
    BY <1>1, <2>1, <2>2, <2>3, <2>4, <2>5, <2>6, <2>7, DutyMoves
<1>9. CASE \E x \in Ids : ReopenedExit(x)
  <2>1. PICK x \in Ids : ReopenedExit(x)
    BY <1>9
  <2>2. /\ x \notin used /\ used' = used \cup {x} /\ UNCHANGED <<reconciled, raises>>
        /\ owed' = Discharged \cup {x}
    BY <2>1 DEF ReopenedExit
  <2>3. PICK i \in WorkItem : i = Item("exit", x) /\ i.kind = "exit" /\ i.id = x
    BY ItemTyped DEF WorkKind
  <2>4a. Moves(<<Item("exit", x)>>)
    BY <1>1, <2>1, TurnMoves
  <2>4c. <<i>> \in Seq(WorkItem)
    OBVIOUS
  <2>4b. PICK new \in Seq(WorkItem) : new = <<i>>
    BY <2>4c, Zenon
  <2>4. Moves(new)
    BY <2>3, <2>4a, <2>4b DEF Moves
  <2>5. DOMAIN new = {1} /\ new[1] = i
    BY <2>4b
  <2>6. Carries(i, x)
    BY <2>3 DEF Carries
  <2>7. QED
    BY <1>1, <1>2, <1>3, <1>4, <2>2, <2>3, <2>4, <2>5, <2>6, DutyMoves
<1>10. QED
  BY <1>5, <1>6, <1>7, <1>8, <1>9 DEF Execute

(* A step between the turns: the line only grows by an item under a new id.*)
LEMMA LineGrows ==
  ASSUME DutyInv, RateInv',
         \A i \in DOMAIN Line : i \in DOMAIN Line' /\ Line'[i] = Line[i],
         \A i \in DOMAIN Line' : i \in DOMAIN Line \/ i = Len(Line) + 1,
         \A i \in DOMAIN Line' \ DOMAIN Line : IsExit(Line'[i]) =>
           Line'[i].id \in used' /\ Line'[i].id \notin used,
         \A x \in owed' \ owed :
           \E i \in DOMAIN Line' : Carries(Line'[i], x),
         used \subseteq used', UNCHANGED <<reconciled, raises>>
  PROVE  DutyInv'
<1>1. ExitOnce'
  <2> SUFFICES ASSUME NEW i \in DOMAIN Line', NEW j \in DOMAIN Line',
                      IsExit(Line'[i]), IsExit(Line'[j]),
                      Line'[i].id = Line'[j].id
               PROVE  i = j
    BY DEF ExitOnce, IsExit
  <2>1. CASE i \in DOMAIN Line /\ j \in DOMAIN Line
    BY <2>1 DEF DutyInv, ExitOnce
  <2>2. ASSUME NEW n \in DOMAIN Line, NEW m \in DOMAIN Line' \ DOMAIN Line,
               IsExit(Line'[n]), IsExit(Line'[m]), Line'[n].id = Line'[m].id
        PROVE  FALSE
    <3>1. Line[n].id \in used
      BY <2>2 DEF DutyInv, ExitFresh
    <3>2. QED
      BY <2>2, <3>1
  <2>3. QED
    BY <2>1, <2>2
<1>2. ExitFresh'
  <2> SUFFICES ASSUME NEW i \in DOMAIN Line', IsExit(Line'[i])
               PROVE  Line'[i].id \in used' /\ Line'[i].id \notin reconciled'
    BY DEF ExitFresh, IsExit
  <2>1. CASE i \in DOMAIN Line
    BY <2>1 DEF DutyInv, ExitFresh
  <2>2. CASE i \notin DOMAIN Line
    BY <2>2 DEF DutyInv
  <2>3. QED
    BY <2>1, <2>2
<1>3. OwedInLine'
  <2> SUFFICES ASSUME raises = 0, NEW x \in owed'
               PROVE  \E i \in DOMAIN Line' : Carries(Line'[i], x)
    BY DEF OwedInLine, Carries
  <2>1. CASE x \in owed
    <3>1. PICK i \in DOMAIN Line : Carries(Line[i], x)
      BY <2>1 DEF DutyInv, OwedInLine
    <3>2. QED
      BY <3>1
  <2>2. QED
    BY <2>1
<1>4. QED
  BY <1>1, <1>2, <1>3 DEF DutyInv

LEMMA EnqueueDuty ==
  ASSUME DutyInv, NEW kind \in {"entry", "exit"}, NEW x \in Ids, Enqueue(kind, x)
  PROVE  DutyInv'
<1>1. RateInv /\ RateInv'
  BY EnqueueRate DEF DutyInv
<1>2. PICK i \in WorkItem : i = Item(kind, x) /\ i.kind = kind /\ i.id = x
  BY ItemTyped DEF WorkKind
<1>3. /\ cycle = <<>> /\ cycle' = <<>> /\ queue \in Seq(WorkItem)
      /\ queue' = Append(queue, i)
      /\ x \notin used /\ used' = used \cup {x}
      /\ owed' = IF kind = "exit" THEN owed \cup {x} ELSE owed
      /\ UNCHANGED <<reconciled, raises>>
  BY <1>1, <1>2 DEF Enqueue, RateInv, faults
<1>4. Line = queue /\ Line' = Append(queue, i)
  BY <1>3 DEF Line
<1>5. /\ DOMAIN Line = 1..Len(Line) /\ DOMAIN Line' = 1..(Len(Line) + 1)
      /\ \A n \in 1..Len(Line) : Line'[n] = Line[n]
      /\ Line'[Len(Line) + 1] = i /\ Len(Line) \in Nat
  BY <1>3, <1>4
<1>6. /\ \A n \in DOMAIN Line : n \in DOMAIN Line' /\ Line'[n] = Line[n]
      /\ \A n \in DOMAIN Line' : n \in DOMAIN Line \/ n = Len(Line) + 1
      /\ \A n \in DOMAIN Line' \ DOMAIN Line : Line'[n] = i
      /\ Len(Line) + 1 \in DOMAIN Line'
  BY <1>5
<1>7. \A n \in DOMAIN Line' \ DOMAIN Line : IsExit(Line'[n]) =>
        Line'[n].id \in used' /\ Line'[n].id \notin used
  BY <1>2, <1>3, <1>6
<1>8. ASSUME NEW y \in owed' \ owed
      PROVE  \E n \in DOMAIN Line' : Carries(Line'[n], y)
  <2>1. kind = "exit" /\ y = x
    BY <1>3
  <2>2. Carries(i, y)
    BY <1>2, <2>1 DEF Carries
  <2>3. QED
    BY <1>5, <1>6, <2>2
<1>9. QED
  BY <1>1, <1>3, <1>6, <1>7, <1>8, LineGrows

(* The line of a step that only moves the queue into the cycle is the same.*)
LEMMA SameLineDuty ==
  ASSUME DutyInv, RateInv', Line' = Line, UNCHANGED <<used, owed, reconciled, raises>>
  PROVE  DutyInv'
  BY DEF DutyInv, ExitOnce, ExitFresh, OwedInLine, IsExit, Carries

LEMMA StartDuty ==
  ASSUME DutyInv, StartCycle
  PROVE  DutyInv'
<1>1. RateInv /\ RateInv' /\ cycle = <<>> /\ queue \in Seq(WorkItem)
  BY StartRate DEF DutyInv, RateInv, StartCycle
<1>2. cycle' = queue /\ queue' = <<>> /\ UNCHANGED <<used, owed, reconciled, raises>>
  BY DEF StartCycle, faults
<1>3. Line' = Line
  BY <1>1, <1>2 DEF Line
<1>4. QED
  BY <1>1, <1>2, <1>3, SameLineDuty

LEMMA EndDuty ==
  ASSUME DutyInv, EndCycle \/ UNCHANGED vars
  PROVE  DutyInv'
<1>1. RateInv'
  BY EndRate, StutterRate DEF DutyInv
<1>2. UNCHANGED <<cycle, queue, used, owed, reconciled, raises>>
  BY DEF EndCycle, vars, faults
<1>3. QED
  BY <1>1, <1>2, SameLineDuty DEF Line

LEMMA RaiseDuty ==
  ASSUME DutyInv, ExecutorRaises
  PROVE  DutyInv'
<1>1. RateInv /\ RateInv' /\ cycle \in Seq(WorkItem) /\ queue \in Seq(WorkItem)
  BY RaiseRate DEF DutyInv, RateInv
<1>2. /\ cycle' = <<>> /\ queue' = queue /\ raises' # 0
      /\ UNCHANGED <<used, owed, reconciled>>
  BY <1>1 DEF ExecutorRaises, RateInv, TypeOK
<1>3. Line' = queue
  BY <1>1, <1>2 DEF Line
<1>4. PICK c : c = Len(cycle)
  OBVIOUS
<1>5. c \in Nat /\ \A i \in DOMAIN queue : /\ i \in Int /\ c + i \in DOMAIN Line
                                           /\ Line[c + i] = queue[i]
  BY <1>1, <1>4 DEF Line
<1>6. ExitOnce'
  <2> SUFFICES ASSUME NEW i \in DOMAIN queue, NEW j \in DOMAIN queue,
                      IsExit(queue[i]), IsExit(queue[j]),
                      queue[i].id = queue[j].id
               PROVE  i = j
    BY <1>3 DEF ExitOnce, IsExit
  <2>1. c + i = c + j
    BY <1>5 DEF DutyInv, ExitOnce
  <2>2. \A a, b, d \in Int : d + a = d + b => a = b
    OBVIOUS
  <2>3. c \in Int /\ i \in Int /\ j \in Int
    BY <1>5
  <2>4. QED
    BY <2>1, <2>2, <2>3, Zenon
<1>7. ExitFresh'
  <2> SUFFICES ASSUME NEW i \in DOMAIN queue, IsExit(queue[i])
               PROVE  queue[i].id \in used' /\ queue[i].id \notin reconciled'
    BY <1>3 DEF ExitFresh, IsExit
  <2>1. QED
    BY <1>2, <1>5 DEF DutyInv, ExitFresh
<1>8. OwedInLine'
  BY <1>2 DEF OwedInLine
<1>9. QED
  BY <1>1, <1>2, <1>6, <1>7, <1>8 DEF DutyInv

LEMMA InitDuty == Init => DutyInv
<1> SUFFICES ASSUME Init PROVE DutyInv
  OBVIOUS
<1>1. RateInv
  BY InitRate
<1>2. Line = <<>> /\ owed = {} /\ reconciled = {}
  BY DEF Init, Line
<1>3. DOMAIN Line = {}
  BY <1>2
<1>4. QED
  BY <1>1, <1>2, <1>3 DEF DutyInv, ExitOnce, ExitFresh, OwedInLine

LEMMA NextDuty == DutyInv /\ [Next]_vars => DutyInv'
  BY EnqueueDuty, StartDuty, EndDuty, TurnDuty, RaiseDuty DEF Next, Cycle

(* For any retry bound, budgets and queue, neither deferral, throttling,   *)
(* escalation nor a correction ever loses an owed exit: only an exception  *)
(* of the executor can (run_cycle).                                        *)
THEOREM DutySafety == Spec => []DutyKept
<1>1. DutyInv => DutyKept
  <2> SUFFICES ASSUME DutyInv, raises = 0, NEW x \in owed
               PROVE  HasWork(x, {"exit", "reconcile"})
    BY DEF DutyKept, ExitNeverOrphaned
  <2>1. PICK i \in DOMAIN Line : Carries(Line[i], x)
    BY DEF DutyInv, OwedInLine
  <2>2. cycle \in Seq(WorkItem) /\ queue \in Seq(WorkItem)
    BY DEF DutyInv, RateInv
  <2>3. \/ \E k \in DOMAIN cycle : Line[i] = cycle[k]
        \/ \E k \in DOMAIN queue : Line[i] = queue[k]
    <3>1. PICK k : k = i - Len(cycle)
      OBVIOUS
    <3>2. i \in DOMAIN cycle \/ (k \in DOMAIN queue /\ i = Len(cycle) + k)
      BY <2>2, <3>1 DEF Line
    <3>3. QED
      BY <2>2, <3>2 DEF Line
  <2>4. Line[i] \in Work
    BY <2>2, <2>3 DEF Work, Range
  <2>5. QED
    BY <2>1, <2>4 DEF HasWork, Carries
<1>2. QED
  BY InitDuty, NextDuty, <1>1, PTL DEF Spec


-----------------------------------------------------------------------------
(* Nothing compounds.                                                      *)

Spawn == {"query", "reconcile"}
Asked(i) == /\ i.kind = "query" => i.id \in queried
            /\ i.kind = "reconcile" => i.id \in reconciled
Unasked(i) == /\ i.kind = "query" => i.id \notin queried
              /\ i.kind = "reconcile" => i.id \notin reconciled
Twin(i, j) == i.kind \in Spawn /\ i.kind = j.kind /\ i.id = j.id

(* Every query and reconcile in the line is on record as asked for.        *)
SpawnInv ==
  /\ RateInv /\ NoCompounding
  /\ \A i \in DOMAIN Line : Asked(Line[i])

LEMMA SpawnMoves ==
  ASSUME SpawnInv, RateInv', cycle # <<>>, NEW new \in Seq(WorkItem), Moves(new),
         queried \subseteq queried', reconciled \subseteq reconciled',
         \A j, k \in DOMAIN new : Twin(new[j], new[k]) => j = k,
         \A j \in DOMAIN new : Twin(new[j], Next1) \/ Unasked(new[j]),
         \A j \in DOMAIN new : Asked(new[j])'
  PROVE  SpawnInv'
<1>1. RateInv /\ 1 \in DOMAIN Line /\ Line[1] = Next1
  BY LineKeeps DEF SpawnInv
<1>2. NoCompounding'
  <2> SUFFICES ASSUME NEW i \in DOMAIN Line', NEW j \in DOMAIN Line',
                      Twin(Line'[i], Line'[j])
               PROVE  i = j
    BY DEF NoCompounding, Twin, Spawn
  <2>1. i \in Int /\ j \in Int /\ Len(Line) \in Int
    BY <1>1, LineIndex
  <2>2. CASE /\ i + 1 \in DOMAIN Line /\ i + 1 # 1 /\ Line'[i] = Line[i + 1]
             /\ j + 1 \in DOMAIN Line /\ j + 1 # 1 /\ Line'[j] = Line[j + 1]
    <3>1. i + 1 = j + 1
      BY <2>2 DEF SpawnInv, NoCompounding, Twin, Spawn
    <3>2. QED
      BY <2>1, <3>1
  <2>3. ASSUME NEW n \in DOMAIN Line, n # 1, NEW k \in DOMAIN new,
               Twin(new[k], Line[n])
        PROVE  FALSE
    <3>1. Asked(Line[n])
      BY DEF SpawnInv
    <3>2. ~Unasked(new[k])
      BY <2>3, <3>1 DEF Asked, Unasked, Twin, Spawn
    <3>3. Twin(Next1, Line[n])
      BY <2>3, <3>2 DEF Twin
    <3>4. QED
      BY <1>1, <2>3, <3>3 DEF SpawnInv, NoCompounding, Twin, Spawn
  <2>4. CASE /\ \E k \in DOMAIN new : i = Len(Line) - 1 + k /\ Line'[i] = new[k]
             /\ \E k \in DOMAIN new : j = Len(Line) - 1 + k /\ Line'[j] = new[k]
    BY <2>4
  <2>5. Twin(Line'[j], Line'[i])
    BY DEF Twin
  <2>6. QED
    BY <1>1, <2>2, <2>3, <2>4, <2>5, LineSplits
<1>3. ASSUME NEW i \in DOMAIN Line' PROVE Asked(Line[i])'
  <2>1. CASE i + 1 \in DOMAIN Line /\ i + 1 # 1 /\ Line'[i] = Line[i + 1]
    BY <2>1 DEF SpawnInv, Asked
  <2>2. CASE \E k \in DOMAIN new : Line'[i] = new[k]
    BY <2>2 DEF Asked
  <2>3. QED
    BY <1>1, <2>1, <2>2, LineSplits
<1>4. QED
  BY <1>2, <1>3 DEF SpawnInv

(* The only spawned twins are the head put back.                           *)
LEMMA SpawnedTwins ==
  ASSUME RateInv, cycle # <<>>, UnknownQuantity,
         NEW new \in Seq(WorkItem), new = Spawned
  PROVE  /\ \A j, k \in DOMAIN new : Twin(new[j], new[k]) => j = k
         /\ \A j \in DOMAIN new :
              Twin(new[j], Next1) \/ Unasked(new[j])
         /\ \A j \in DOMAIN new : Asked(Next1) => Asked(new[j])'
         /\ queried \subseteq queried' /\ reconciled \subseteq reconciled'
<1>1. Next1 \in WorkItem /\ Next1.id \in Ids /\ Next1.kind \in WorkKind
  BY SpawnedTyped, HeadTyped
<1>2. PICK q \in WorkItem :
        q = Item("query", Next1.id) /\ q.kind = "query" /\ q.id = Next1.id
  BY <1>1, ItemTyped DEF WorkKind
<1>3. PICK e \in WorkItem :
        /\ e = Item("reconcile", Next1.id)
        /\ e.kind = "reconcile" /\ e.id = Next1.id
  BY <1>1, ItemTyped DEF WorkKind
<1>4. PICK asked : asked = {i.id : i \in Range(Query)}
  OBVIOUS
<1>5. PICK escalated : escalated = {i.id : i \in Range(Escalation)}
  OBVIOUS
<1>6. queried' = queried \cup asked
      /\ reconciled' = IF Exhausted THEN reconciled \cup escalated ELSE reconciled
  BY <1>4, <1>5, Zenon DEF UnknownQuantity
<1>7. \/ Query = <<>>
      \/ /\ Query = <<q>> /\ q.id \in asked /\ q.id \notin queried
         /\ Next1.kind = "exit"
  BY <1>2, <1>4 DEF Query, Range
<1>8. \/ Escalation = <<>>
      \/ /\ Escalation = <<e>> /\ e.id \in escalated /\ e.id \notin reconciled
         /\ Next1.kind = "exit"
  BY <1>3, <1>5 DEF Escalation, Range
<1>9. PICK tail \in Seq(WorkItem) : tail = IF Exhausted THEN Escalation ELSE Retry
  BY SpawnedTyped
<1>10. new = Query \o tail
  BY <1>9 DEF Spawned
<1>11. PICK i \in WorkItem :
         /\ tail = <<>>
            \/ /\ tail = <<i>> /\ i.id = Next1.id
               /\ \/ i.kind = Next1.kind
                  \/ /\ i.kind = "reconcile" /\ Next1.kind = "exit"
                     /\ i.id \notin reconciled /\ i.id \in reconciled'
  <2>1. CASE Exhausted
    BY <1>3, <1>6, <1>8, <1>9, <2>1
  <2>2. CASE ~Exhausted
    <3>1. PICK i \in WorkItem : /\ i = [Next1 EXCEPT !.attempts = @ + 1]
                                /\ i.kind = Next1.kind /\ i.id = Next1.id
      BY <2>2, RetryTyped
    <3>2. tail = <<i>>
      BY <1>9, <2>2, <3>1 DEF Retry
    <3>3. QED
      BY <3>1, <3>2
  <2>3. QED
    BY <2>1, <2>2
<1>12. /\ \A j \in DOMAIN new :
            \/ /\ j = 1 /\ new[j] = q /\ Query = <<q>>
            \/ /\ j = Len(new) /\ new[j] = i /\ tail = <<i>>
  BY <1>7, <1>10, <1>11
<1>13. Query = <<q>> /\ tail = <<i>> => ~Twin(q, i) /\ ~Twin(i, q)
  <2>1. <<>> # <<q>> /\ <<>> # <<i>>
    OBVIOUS
  <2>2. QED
    BY <1>2, <1>7, <1>11, <2>1 DEF Twin
<1>14. Query = <<q>> => Unasked(q) /\ Asked(q)'
  <2>1. <<>> # <<q>>
    OBVIOUS
  <2>2. QED
    BY <1>2, <1>6, <1>7, <2>1 DEF Asked, Unasked
<1>15. tail = <<i>> => /\ Twin(i, Next1) \/ Unasked(i)
                       /\ Asked(Next1) => Asked(i)'
  <2>1. <<>> # <<i>>
    OBVIOUS
  <2>2. QED
    BY <1>1, <1>6, <1>11, <2>1 DEF Asked, Unasked, Twin, Spawn, WorkKind
<1>16. \A j, k \in DOMAIN new : Twin(new[j], new[k]) => j = k
  BY <1>12, <1>13
<1>17. \A j \in DOMAIN new : Twin(new[j], Next1) \/ Unasked(new[j])
  BY <1>12, <1>14, <1>15
<1>18. ASSUME NEW j \in DOMAIN new, Asked(Next1) PROVE Asked(new[j])'
  <2>1. CASE Query = <<q>> /\ new[j] = q
    BY <1>14, <2>1 DEF Asked
  <2>2. CASE tail = <<i>> /\ new[j] = i
    BY <1>15, <1>18, <2>2 DEF Asked
  <2>3. QED
    BY <1>12, <2>1, <2>2
<1>19. queried \subseteq queried' /\ reconciled \subseteq reconciled'
  BY <1>6
<1>20. QED
  BY <1>16, <1>17, <1>18, <1>19

LEMMA HeadAsked ==
  ASSUME SpawnInv, cycle # <<>>
  PROVE  Asked(Next1)
<1>1. 1 \in DOMAIN Line /\ Line[1] = Next1
  <2>1. cycle \in Seq(WorkItem) /\ queue \in Seq(WorkItem)
    BY DEF SpawnInv, RateInv
  <2>2. QED
    BY <2>1 DEF Line, Next1
<1>2. QED
  BY <1>1 DEF SpawnInv

LEMMA TurnSpawn ==
  ASSUME SpawnInv, RejectLateEntry \/ DeferOverBudget \/ Execute
  PROVE  SpawnInv'
<1>1. RateInv /\ RateInv' /\ cycle # <<>>
  BY TurnRate DEF SpawnInv, RejectLateEntry, DeferOverBudget, Execute, Submitted,
     Throttled, CutoffRejected, UnknownQuantity, ReopenedExit, Executes, Turn
<1>2. Next1 \in WorkItem /\ Asked(Next1)
  BY <1>1, HeadTyped, HeadAsked
<1>3. CASE UnknownQuantity
  <2>1. PICK new \in Seq(WorkItem) : new = Spawned
    BY <1>1, SpawnedTyped
  <2>2. Moves(new)
    BY <1>1, <1>3, <2>1, TurnMoves DEF Moves
  <2>3. QED
    BY <1>1, <1>2, <1>3, <2>1, <2>2, SpawnedTwins, SpawnMoves
<1>4. CASE ~UnknownQuantity
  <2>1. UNCHANGED <<queried, reconciled>>
    BY <1>4 DEF RejectLateEntry, DeferOverBudget, Execute, Submitted, Throttled,
       CutoffRejected, ReopenedExit
  <2>2. \/ Moves(<<>>) \/ Moves(<<Next1>>)
        \/ \E x \in Ids : Moves(<<Item("exit", x)>>)
    BY <1>1, <1>4, TurnMoves DEF Execute
  <2>3. ASSUME NEW i \in WorkItem, Moves(<<i>>), i = Next1 \/ i.kind = "exit"
        PROVE  SpawnInv'
    <3>1. PICK new \in Seq(WorkItem) : new = <<i>>
      <4>1. <<i>> \in Seq(WorkItem)
        OBVIOUS
      <4>2. QED
        BY <4>1, Zenon
    <3>2. Moves(new)
      BY <2>3, <3>1 DEF Moves
    <3>3. DOMAIN new = {1} /\ new[1] = i
      BY <3>1
    <3>4. (Twin(i, Next1) \/ Unasked(i)) /\ Asked(i)'
      BY <1>1, <1>2, <2>1, <2>3, HeadTyped
      DEF Twin, Spawn, Unasked, Asked, WorkKind
    <3>5. QED
      BY <1>1, <2>1, <3>2, <3>3, <3>4, SpawnMoves
  <2>4. CASE Moves(<<>>)
    <3>1. PICK new \in Seq(WorkItem) : new = <<>>
      <4>1. <<>> \in Seq(WorkItem)
        OBVIOUS
      <4>2. QED
        BY <4>1, Zenon
    <3>2. Moves(new) /\ DOMAIN new = {}
      BY <2>4, <3>1 DEF Moves
    <3>3. QED
      BY <1>1, <2>1, <3>2, SpawnMoves
  <2>5. CASE \E x \in Ids : Moves(<<Item("exit", x)>>)
    <3>1. PICK x \in Ids : Moves(<<Item("exit", x)>>)
      BY <2>5
    <3>2. Item("exit", x) \in WorkItem /\ Item("exit", x).kind = "exit"
      BY ItemTyped DEF WorkKind
    <3>3. QED
      BY <2>3, <3>1, <3>2
  <2>6. QED
    BY <1>2, <2>2, <2>3, <2>4, <2>5
<1>5. QED
  BY <1>3, <1>4

(* A step that changes neither the line nor what was asked.                *)
LEMMA SameLineSpawn ==
  ASSUME SpawnInv, RateInv', Line' = Line, UNCHANGED <<queried, reconciled>>
  PROVE  SpawnInv'
  BY DEF SpawnInv, NoCompounding, Asked

LEMMA EnqueueSpawn ==
  ASSUME SpawnInv, NEW kind \in {"entry", "exit"}, NEW x \in Ids, Enqueue(kind, x)
  PROVE  SpawnInv'
<1>1. RateInv /\ RateInv'
  BY EnqueueRate DEF SpawnInv
<1>2. PICK i \in WorkItem : i = Item(kind, x) /\ i.kind = kind
  BY ItemTyped DEF WorkKind
<1>3. /\ cycle = <<>> /\ cycle' = <<>> /\ queue \in Seq(WorkItem)
      /\ queue' = Append(queue, i) /\ UNCHANGED <<queried, reconciled>>
  BY <1>1, <1>2 DEF Enqueue, RateInv
<1>4. Line = queue /\ Line' = Append(queue, i)
  BY <1>3 DEF Line
<1>5. /\ DOMAIN Line = 1..Len(Line) /\ DOMAIN Line' = 1..(Len(Line) + 1)
      /\ \A n \in 1..Len(Line) : Line'[n] = Line[n]
      /\ Line'[Len(Line) + 1] = i /\ Len(Line) \in Nat
  BY <1>3, <1>4
<1>6. \A n \in DOMAIN Line' :
        (n \in DOMAIN Line /\ Line'[n] = Line[n]) \/ Line'[n].kind \notin Spawn
  BY <1>2, <1>5 DEF Spawn
<1>7. NoCompounding'
  BY <1>6 DEF SpawnInv, NoCompounding, Spawn
<1>8. ASSUME NEW n \in DOMAIN Line' PROVE Asked(Line[n])'
  BY <1>3, <1>6 DEF SpawnInv, Asked, Spawn
<1>9. QED
  BY <1>1, <1>7, <1>8 DEF SpawnInv

LEMMA StartSpawn ==
  ASSUME SpawnInv, StartCycle
  PROVE  SpawnInv'
<1>1. RateInv /\ RateInv' /\ cycle = <<>> /\ queue \in Seq(WorkItem)
  BY StartRate DEF SpawnInv, RateInv, StartCycle
<1>2. cycle' = queue /\ queue' = <<>> /\ UNCHANGED <<queried, reconciled>>
  BY DEF StartCycle
<1>3. Line' = Line
  BY <1>1, <1>2 DEF Line
<1>4. QED
  BY <1>1, <1>2, <1>3, SameLineSpawn

LEMMA EndSpawn ==
  ASSUME SpawnInv, EndCycle \/ UNCHANGED vars
  PROVE  SpawnInv'
<1>1. RateInv'
  BY EndRate, StutterRate DEF SpawnInv
<1>2. UNCHANGED <<cycle, queue, queried, reconciled>>
  BY DEF EndCycle, vars
<1>3. QED
  BY <1>1, <1>2, SameLineSpawn DEF Line

(* An exception leaves the queue, the end of the line.                     *)
LEMMA RaiseSpawn ==
  ASSUME SpawnInv, ExecutorRaises
  PROVE  SpawnInv'
<1>1. RateInv /\ RateInv' /\ cycle \in Seq(WorkItem) /\ queue \in Seq(WorkItem)
  BY RaiseRate DEF SpawnInv, RateInv
<1>2. cycle' = <<>> /\ queue' = queue /\ UNCHANGED <<queried, reconciled>>
  BY DEF ExecutorRaises
<1>3. Line' = queue
  BY <1>1, <1>2 DEF Line
<1>4. PICK c : c = Len(cycle)
  OBVIOUS
<1>5. c \in Nat /\ \A i \in DOMAIN queue : /\ i \in Int /\ c + i \in DOMAIN Line
                                           /\ Line[c + i] = queue[i]
  BY <1>1, <1>4 DEF Line
<1>6. NoCompounding'
  <2> SUFFICES ASSUME NEW i \in DOMAIN queue, NEW j \in DOMAIN queue,
                      Twin(queue[i], queue[j])
               PROVE  i = j
    BY <1>3 DEF NoCompounding, Twin, Spawn
  <2>1. c + i = c + j
    BY <1>5 DEF SpawnInv, NoCompounding, Twin, Spawn
  <2>2. \A a, b, d \in Int : d + a = d + b => a = b
    OBVIOUS
  <2>3. c \in Int /\ i \in Int /\ j \in Int
    BY <1>5
  <2>4. QED
    BY <2>1, <2>2, <2>3, Zenon
<1>7. ASSUME NEW i \in DOMAIN Line' PROVE Asked(Line[i])'
  BY <1>2, <1>3, <1>5 DEF SpawnInv, Asked
<1>8. QED
  BY <1>1, <1>6, <1>7 DEF SpawnInv

LEMMA InitSpawn == Init => SpawnInv
<1> SUFFICES ASSUME Init PROVE SpawnInv
  OBVIOUS
<1>1. RateInv
  BY InitRate
<1>2. Line = <<>>
  BY DEF Init, Line
<1>3. DOMAIN Line = {}
  BY <1>2
<1>4. QED
  BY <1>1, <1>3 DEF SpawnInv, NoCompounding

LEMMA NextSpawn == SpawnInv /\ [Next]_vars => SpawnInv'
  BY EnqueueSpawn, StartSpawn, EndSpawn, TurnSpawn, RaiseSpawn DEF Next, Cycle

(* However often quantities stay unknown, and even when an exception drops *)
(* the rest of a cycle, no id ever has two queries or two reconciles       *)
(* waiting: the dedupe sets cover whatever is in the line (run_cycle).     *)
THEOREM NothingCompounds == Spec => []NoCompounding
<1>1. SpawnInv => NoCompounding
  BY DEF SpawnInv
<1>2. QED
  BY InitSpawn, NextSpawn, <1>1, PTL DEF Spec

=============================================================================
