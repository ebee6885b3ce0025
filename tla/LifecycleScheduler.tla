------------------------- MODULE LifecycleScheduler -------------------------
(***************************************************************************)
(* The broker lifecycle scheduler (v3/broker/scheduler.py): one queue of   *)
(* entry, exit, query and reconcile work, drained in cycles under a rate   *)
(* bucket per kind.  A cycle empties the queue into a snapshot and puts    *)
(* back what it defers, so between two items the work is in two places.    *)
(*                                                                         *)
(* The ids query:<x> and reconcile:<x> of the code are the kind and x.     *)
(* Callers and executors hand out an id once: an exit under an id that was *)
(* reconciled before would get no second reconcile.                        *)
(***************************************************************************)
EXTENDS Naturals, Sequences, SequencesExt

CONSTANTS
  Ids,            \* item ids of entries and exits
  Budget,         \* rate budget of each kind
  MaxRetries,     \* max_unknown_retries
  MaxQueue,       \* bound on the queue
  MaxThrottle,    \* bound on broker throttles
  MaxReopen,      \* bound on corrections that reopen a position
  MaxRaise        \* bound on executor exceptions

WorkKind == {"entry", "exit", "query", "reconcile"}

ASSUME SchedulerAssumption ==
  /\ Budget \in [WorkKind -> Nat]
  /\ MaxRetries \in Nat \ {0}
  /\ MaxQueue \in Nat /\ MaxThrottle \in Nat /\ MaxReopen \in Nat
  /\ MaxRaise \in Nat

VARIABLES
  queue,        \* _queue
  cycle,        \* the snapshot a running cycle still has to process
  running,      \* whether run_cycle is running
  late,         \* now > cutoff, read when the cycle starts
  bucket,       \* remaining rate of each kind
  queried,      \* _pending_queries
  reconciled,   \* _pending_reconciles
  used,         \* ids handed out so far
  owed,         \* exits asked for and not discharged
  calls,        \* executor calls of the cycle, each a broker round-trip
  refused,      \* those that came back throttled or past the cutoff
  throttles, reopens, raises

faults == <<throttles, reopens, raises>>
vars == <<queue, cycle, running, late, bucket, queried, reconciled, used,
          owed, calls, refused, throttles, reopens, raises>>

WorkItem == [kind: WorkKind, id: Ids, attempts: 0..MaxRetries]
Item(kind, x) == [kind |-> kind, id |-> x, attempts |-> 0]
Work == Range(queue) \cup Range(cycle)

TypeOK ==
  /\ Work \subseteq WorkItem
  /\ running \in BOOLEAN /\ late \in BOOLEAN
  /\ bucket \in [WorkKind -> Nat]
  /\ calls \in [WorkKind -> Nat] /\ refused \in [WorkKind -> Nat]
  /\ queried \subseteq Ids /\ reconciled \subseteq Ids
  /\ used \subseteq Ids /\ owed \subseteq used
  /\ throttles \in 0..MaxThrottle /\ reopens \in 0..MaxReopen
  /\ raises \in 0..MaxRaise

NoCalls == [k \in WorkKind |-> 0]

Init ==
  /\ queue = <<>> /\ cycle = <<>> /\ running = FALSE /\ late = FALSE
  /\ bucket = Budget /\ calls = NoCalls /\ refused = NoCalls
  /\ queried = {} /\ reconciled = {} /\ used = {} /\ owed = {}
  /\ throttles = 0 /\ reopens = 0 /\ raises = 0

-----------------------------------------------------------------------------
Enqueue(kind, x) ==
  /\ ~running /\ Len(queue) < MaxQueue
  /\ x \notin used /\ used' = used \cup {x}
  /\ queue' = Append(queue, Item(kind, x))
  /\ owed' = IF kind = "exit" THEN owed \cup {x} ELSE owed
  /\ UNCHANGED <<cycle, running, late, bucket, queried, reconciled, calls,
                 refused, faults>>

(* run_cycle: reset the buckets, snapshot the queue and clear it.          *)
StartCycle ==
  /\ ~running /\ queue # <<>>
  /\ running' = TRUE
  /\ late' \in {late, TRUE}
  /\ bucket' = Budget /\ calls' = NoCalls /\ refused' = NoCalls
  /\ cycle' = queue /\ queue' = <<>>
  /\ UNCHANGED <<queried, reconciled, used, owed, faults>>

EndCycle ==
  /\ running /\ cycle = <<>>
  /\ running' = FALSE
  /\ UNCHANGED <<queue, cycle, late, bucket, queried, reconciled, used, owed,
                 calls, refused, faults>>

(* The item at the head of the snapshot, not rejected by the cutoff.       *)
Next1 == Head(cycle)
Turn == running /\ cycle # <<>> /\ cycle' = Tail(cycle)
InTime == ~(Next1.kind = "entry" /\ late)

RejectLateEntry ==
  /\ Turn /\ ~InTime
  /\ UNCHANGED <<queue, running, late, bucket, queried, reconciled, used, owed,
                 calls, refused, faults>>

DeferOverBudget ==
  /\ Turn /\ InTime /\ bucket[Next1.kind] = 0
  /\ queue' = Append(queue, Next1)
  /\ UNCHANGED <<running, late, bucket, queried, reconciled, used, owed, calls,
                 refused, faults>>

(* The executor is called once the kind's bucket is charged; a throttle or *)
(* a cutoff answer gives the charge back, the round-trip was made.         *)
Executes == Turn /\ InTime /\ bucket[Next1.kind] > 0
Called == calls' = [calls EXCEPT ![Next1.kind] = @ + 1]
Spend == /\ Called /\ UNCHANGED refused
         /\ bucket' = [bucket EXCEPT ![Next1.kind] = @ - 1]
Refund == /\ Called /\ UNCHANGED bucket
          /\ refused' = [refused EXCEPT ![Next1.kind] = @ + 1]

(* An exit is discharged when it or its reconcile is done.                 *)
Discharged ==
  IF Next1.kind \in {"exit", "reconcile"} THEN owed \ {Next1.id} ELSE owed

Submitted ==
  /\ Executes /\ Spend
  /\ owed' = Discharged
  /\ UNCHANGED <<queue, running, late, queried, reconciled, used, faults>>

Throttled ==
  /\ Executes /\ Refund
  /\ throttles < MaxThrottle /\ throttles' = throttles + 1
  /\ queue' = Append(queue, Next1)
  /\ UNCHANGED <<running, late, queried, reconciled, used, owed, reopens,
                 raises>>

CutoffRejected ==
  /\ Executes /\ Refund
  /\ owed' = Discharged
  /\ UNCHANGED <<queue, running, late, queried, reconciled, used, faults>>

(* Unknown sellable quantity: the rate stays spent.  An exit asks for one  *)
(* query ever, and past the retry bound for one reconcile ever.            *)
Charge_Refunded == Called /\ UNCHANGED <<bucket, refused>>
Charge == Spend

Exhausted_Late == Next1.attempts > MaxRetries
Exhausted == Next1.attempts + 1 > MaxRetries

Query_Always ==
  IF Next1.kind = "exit" THEN <<Item("query", Next1.id)>> ELSE <<>>
Query ==
  IF Next1.kind = "exit" /\ Next1.id \notin queried
  THEN <<Item("query", Next1.id)>> ELSE <<>>

Escalation_Dropped == <<>>
Escalation ==
  IF Next1.kind = "exit" /\ Next1.id \notin reconciled
  THEN <<Item("reconcile", Next1.id)>> ELSE <<>>

Retry_Reset == <<Next1>>
Retry == <<[Next1 EXCEPT !.attempts = @ + 1]>>

UnknownQuantity ==
  /\ Executes /\ Charge
  /\ queue' = queue \o Query \o (IF Exhausted THEN Escalation ELSE Retry)
  /\ queried' = queried \cup {q.id : q \in Range(Query)}
  /\ reconciled' = IF Exhausted
                   THEN reconciled \cup {q.id : q \in Range(Escalation)}
                   ELSE reconciled
  /\ owed' = IF Exhausted /\ Next1.kind = "reconcile" THEN Discharged ELSE owed
  /\ UNCHANGED <<running, late, used, faults>>

(* A correction reopens a position: an exit is recreated as item x.        *)
ReopenedExit(x) ==
  /\ Executes /\ Spend
  /\ reopens < MaxReopen /\ reopens' = reopens + 1
  /\ x \notin used /\ used' = used \cup {x}
  /\ queue' = Append(queue, Item("exit", x))
  /\ owed' = Discharged \cup {x}
  /\ UNCHANGED <<running, late, queried, reconciled, throttles, raises>>

(* The executor raises: run_cycle unwinds with the snapshot.               *)
ExecutorRaises ==
  /\ running /\ cycle # <<>> /\ InTime /\ bucket[Next1.kind] > 0
  /\ raises < MaxRaise /\ raises' = raises + 1
  /\ cycle' = <<>> /\ running' = FALSE
  /\ Spend
  /\ UNCHANGED <<queue, late, queried, reconciled, used, owed, throttles,
                 reopens>>

Execute ==
  \/ Submitted \/ Throttled \/ CutoffRejected \/ UnknownQuantity
  \/ \E x \in Ids : ReopenedExit(x)

Cycle ==
  \/ StartCycle \/ EndCycle \/ RejectLateEntry \/ DeferOverBudget \/ Execute
  \/ ExecutorRaises

Next ==
  \/ \E kind \in {"entry", "exit"}, x \in Ids : Enqueue(kind, x)
  \/ Cycle

Spec == Init /\ [][Next]_vars

(* Cycles keep being run: the scheduler's only driver calls run_cycle.     *)
FairSpec == Spec /\ WF_vars(Cycle)

-----------------------------------------------------------------------------
(* The work in the order in which it will be done.                         *)
Line == cycle \o queue
HasWork(x, kinds) == \E i \in Work : i.kind \in kinds /\ i.id = x

(* An exit is never orphaned: while it is owed, there is an exit or a      *)
(* reconcile to work on (scheduler.py, module documentation).              *)
ExitNeverOrphaned == \A x \in owed : HasWork(x, {"exit", "reconcile"})

(* Short of an executor exception, an exit is never orphaned: neither      *)
(* deferral, escalation nor a correction drops it (run_cycle).             *)
DutyKept == raises = 0 => ExitNeverOrphaned

(* A kind's bucket pays for every broker round-trip of its own items and   *)
(* for nothing else; only a throttle or a cutoff answer is given back.  So *)
(* no kind exhausts another, and a kind overruns its budget by exactly the *)
(* round-trips the broker refused (rate isolation, run_cycle, audit M2).   *)
RateIsolated ==
  \A k \in WorkKind : calls[k] + bucket[k] = Budget[k] + refused[k]

(* Unknown quantities do not compound: however often it is put back, an    *)
(* exit never has two queries or two reconciles waiting (audit M2, M3).    *)
NoCompounding ==
  \A i, j \in DOMAIN Line :
    /\ Line[i].kind \in {"query", "reconcile"}
    /\ Line[i].kind = Line[j].kind /\ Line[i].id = Line[j].id
    => i = j

(* However often the quantity is unknown and whatever else is queued, an   *)
(* owed exit is sold, rejected or escalated in the end, unless an executor *)
(* exception loses it: no livelock and no starvation (run_cycle).          *)
ExitDischarged == \A x \in Ids : x \in owed ~> x \notin owed \/ raises > 0

=============================================================================
