# v3 growth kernel: specifications, model checks and proofs

This directory holds TLA+ models of the order-placing core of this repository:
the *v3 growth kernel* under `src/screening/offensive/v3/`. That part decides,
records and sends real entries, keeps the account's money and takes the account
over from its predecessor, and it is the only part of the repository whose
documentation promises atomicity, fencing, exactly-once and crash recovery. The
rest is mostly data-frame scoring, language-model agents, report rendering and a
user interface.

Paths below are relative to the repository root (`src/screening/...`,
`app/backend/...`, `tests/...`).

## 1. Inventory

### Components that are modelled

| Component | State it keeps | Operations | Talks to | What is hard |
|---|---|---|---|---|
| Capital Gateway, entry lifecycle (`gateway/decisions.py`) | SQLite tables `decision_seals`, `entry_reserves`, `entry_permits(+lines)`, `entry_outbox`, `send_claims` | `publish_entry`, `issue_permit`, `make_outbox_durable`, `claim_send`, `cancel_unclaimed_entry`, `record_delivery_outcome` | the kernel (proposals), the authority/risk/capital contexts injected by the caller, the dispatcher (claims) | several processes on one database file; the SELECTs of an operation run before its write lock; partial failure |
| Broker dispatcher and raw inbox (`broker/dispatcher.py`, `raw_inbox.py`) | no state of its own: the entry's status and the append-only inbox `raw_inbox_revisions` | `run_once`, `resend`, `append` | gateway (`claim_send`, `record_delivery_outcome`), the broker | crashes between claim, submit, append and report; lost answers; rejects; unauthenticated answers; sequence numbers |
| Writer handoff (`broker/handoff.py`) | handoff state, fencing epoch, active writer, drain counts, reconciliation and proof flags | `begin_drain`, `report_drained`, `mark_reconciled`, `present_fence_proof`, `complete`, `activate_new_writer`, `fence_send` | the runtime | long call sequences; flags that outlive a handoff |
| Disaster recovery (`broker/disaster_recovery.py`) | recovery state, recovery and fencing epoch, writer, proof | `verify_backup`, `restore_stores`, `reconcile`, `present_fence_proof`, `complete`, `fence_send` | the runtime | a restore racing a pass that runs and a handoff |
| Broker runtime (`broker/runtime.py`) | the authority it holds | `submit_entry`, `submit_resend` | handoff or recovery, dispatcher | the fence is checked once, before the pass |
| Exit lane (`gateway/exits.py`) | mandates, leases, attempts and open quantity queries in SQLite | `derive_exit_mandates`, `reconcile_exit`, `claim_due_exit_work`, `release_lease`, `record_exit_attempt` | capital truth (injected), the workers of `services/lifecycle_scheduler.py` | leases that expire under a working worker; refreshes that forget attempts; fills that overtake cancels |
| Lifecycle scheduler (`broker/scheduler.py`) | a queue in memory, rate buckets, dedupe sets | `enqueue_*`, `run_cycle` | an executor | deferral, retry, escalation, exceptions in the middle of a cycle |
| Capital ledger (`capital/repository.py`, `models.py`, `flows.py`, `conservation.py`), in part | accounts, subscriptions, redemptions, reserves, positions, valuations and water marks per ledger version | genesis, the request/price/settle/cancel/pay calls of both flows, `close_valuation`, `restate_valuation`, `start_risk_epoch`, entry reserves, fills, `verify_conservation` | the gateway (reserves), the broker's executions, an operator | prices frozen by one call and used by a later one; rounding; a trailing snapshot that can refuse an operation; the terminal states |
| Migration (`migration/inbox.py`, `compat_writer.py`, `authority.py`), in part | the durable inbox with its marks, leases and roots; v2; the authority registry with epoch, fence and cursor | `append`, `apply_next`, `bind`, `compare_and_flip`, `fence_source`, `replay`, `complete_final_reconciliation` | writer processes, the operator of the runbook | three SQLite files without a common transaction; a flip between a writer's check and its write; crashes between the stores; a write-ahead log that the capture of a root removes |

What makes each correct: an economic key has one send right and its cash stays
reserved while it is in flight (gateway); an acknowledgement is backed by durable
receipts of every line, a finished line is not sent again and a receipt behind a
missing one does not count (dispatcher); one
writer at a time can reach the broker (handoff, recovery, runtime); an exit duty
is never lost and no kind of work takes another's rate (scheduler); a lot is never
sold twice and no share stays reserved for an order that is gone (exit lane); the
books equal the replay of the flow events and nobody is settled at an old price
(capital); an acknowledged fact has its trade closed in v2, facts are taken over in
order, no root is replaced, and a fenced writer no longer writes (migration).

### Components that are not modelled

| Component | State / operations | Why not, or when |
|---|---|---|
| Gateway authority store (`gateway/authority.py`) | trust bundles, policy activations, entry fences, latches | planned: the source of the truth version that the entry model takes as given |
| Execution normalizer and reconciler (`broker/normalizer.py`, `reconcile.py`) | cumulative observations -> fill revisions | planned: duplicated and reordered observations |
| Rest of the capital ledger | receivables and unsettled cash, fees, corporate actions, busts and corrections of executions, stage loss budgets | planned after the normalizer, whose revisions they book |
| Decision kernel, policy (`kernel/`, `policy/`) | none: pure decimal arithmetic | the reserve it asks for is the amount `publish_entry` receives |
| Contracts (`contracts/`) | frozen data models | validation of fields only |
| Evidence, storage (`evidence/`, `storage/`) | append-only artifacts | the repository's consumption table is planned after the gateway |
| Governance, trust (`governance/`, `trust/`) | signatures, registries | one truth version for the gateway |
| Rest of the migration (coordinator, adoption, approval, inventory, shadow audit) | coordinator state, signed plans, reports | planned: the coordinator's states over the hand-off |
| Orchestration, services, producers, reporting | trial store, session driver | planned: the stages of the trial store |
| Canary, capabilities, ports | signed records, protocols | no interleaving of their own |
| v3 lifecycle execution (`execution/`) | execution of frozen plans | planned, as a client of the exit lane |
| Offensive screening v1/v2, screening pipeline | data frames | pure scoring |
| Batch data fetcher (`batch_data_fetcher.py`), multi-level cache (`data/enhanced_cache.py`) | single-flight events, LRU/Redis/disk levels | planned: small concurrent components |
| Data routing, market data tools, LLM access | network calls, cooldowns | external services |
| Agents, graph, CLI, research, reporting, paper trading, portfolio | prompts, reports | no protocol |
| Backtesting | portfolio, pending plans, checkpoints | planned |
| Backend streaming (`hedge_fund_streaming.py`) | run task, progress queue | planned |
| Backend services, authentication, frontend, scripts | CRUD, user interface | CRUD over SQLAlchemy |

Nothing under `src/` or `app/` constructs `BrokerRuntime` or
`BrokerLifecycleScheduler`, or calls `resend`; the tests do. Where a property
depends on what a caller does, section 4 states the assumption.

### Hazards

`PROJECT.json` lists each at its line with the property that watches it. They
fall in eight groups: reads outside the write lock (gateway); crash, loss and
refusal inside a pass (dispatcher, inbox); flags and epochs that are stale when
used (handoff, runtime, recovery); a queue whose content is in two places
(scheduler); leases, quantities and reports that arrive late (exit lane); sums and
dedupe sets that outlive what they count; prices, marks and balances that one
operation leaves for a later one (capital); three stores that agree only step by
step (migration).

## 2. Modules

| Module | Models | Actions |
|---|---|---|
| `EntryGateway` | `gateway/decisions.py` | for every operation `ReadX` and `CommitX`, `Rollback`, and `Tick`, `Drift`, `Latch` for the world the contexts are read from |
| `SendRight` | what those tables promise of an economic key, without the tables: one right to send. `EntryGateway` implements it for one client (`Rights`: the phase and the cash of the seal that is not superseded, the permit that holds it) | `Plan`, `Replan`, `Grant`, `Use`, `GiveUp` |
| `BrokerDispatch` | `dispatcher.py`, `raw_inbox.py`, and the broker (external, as `fake.py` scripts it) | `RunOnce`, `Resend`, `Timeout`, `Unauthenticated`, `Answer`, `Append`, `Report`, `Crash` |
| `WriterHandoff` | `handoff.py` | one per method |
| `DisasterRecovery` | `disaster_recovery.py` | one per method |
| `BrokerRuntime` | `runtime.py`; INSTANCEs the three above | `Fence`, `Dispatch`, `Continue`, `Rebuild`, `Sever`, `Handoff`, `Activate`, `Recovery`, `Recover` |
| `LifecycleScheduler` | `scheduler.py` | `Enqueue`, `StartCycle`, one per outcome of an item, `ExecutorRaises`, `EndCycle` |
| `ExitLane` | `exits.py` for one lot, the broker and the capital truth (external) | `ReadX`/`CommitX` for the operations that read first, `Claim`, `ReleaseLease`, `Expire`, `ScheduleQuery`, `Send`, `Abort`, `Crash`, and the world's `Fill`, `LateFill`, `BrokerCancel`, `Bust`, `LegalTerminal` |
| `CapitalLedger` | `capital/repository.py` with the arithmetic of `models.py` and `flows.py`, one account | one per operation: `InitializeGenesis`; `Request`, `Price`, `Settle`, `CancelSubscription`; `Request`, `Price`, `Settle`, `Cancel`, `PayRedemption`; `CloseValuation` and `CloseValuationLiquid`, `RestateValuation`, `StartRiskEpoch`; `ReserveEntries`, `RequestCancel`, `ReleaseReserve`, `EntryFill`, `ExitFill` |
| `CapitalConservation` | `conservation.py`, composed with `CapitalLedger` | none of its own: it replays the flow events that the ledger's steps have recorded |
| `MigrationHandoff` | `migration/inbox.py`, `compat_writer.py`, `authority.py` | `AppendFact`; a writer's `Check`, `Acquire`, `ApplyInSession`, `CloseSession`, `Take`, `Project`, `MarkProjected`, `Checkpoint` and `CheckpointBlocked`, `UnlinkWal`, `ReadInventory`, `Acknowledge`, `Release`, `StoreError`, `CrashWriter`; an operator's `BindPreimage`, `FlipCheckLease`, `FlipCheckAcks`, `FlipCommit`, `FenceSource`, `ReplayRead`, `ReplayAck`, `ReplayRecord`, `CompleteFinalReconciliation`, `CrashOperator` |
| `EntryGatewayProofs`, `BrokerDispatchProofs`, `BrokerRuntimeProofs`, `LifecycleSchedulerProofs`, `ExitLaneProofs`, `CapitalLedgerProofs`, `MigrationHandoffProofs` | theorems about the modules they are named after | |
| `Sums` | the code's `sum(...)` and `SUM(...)` as `SumFunctionOnSet`: lemmas about sums over finite sets, used by the proofs of the exit lane and the ledger | |
| `MC...` | constants and symmetry for TLC | |

Names follow the code: status names are the code's enumeration values, a
variable names the attribute or table that it stands for, and the comment above
an action names the function. A definition such as `Delivery_AnyReceipt`, written
just above the definition it varies, is a wrong version of it and is used by no
action: it is there to show that a property notices that mistake.

### How an entry operation becomes two steps

Each gateway operation runs in `engine.begin()` on a pysqlite connection. That
driver starts the SQL transaction at the first INSERT or UPDATE, and
`decisions.py` issues no `BEGIN IMMEDIATE` (other stores of the kernel do). So
the SELECTs of an operation see whatever is committed at that moment, and what
protects the commit is only what the statements check again: the status
conditions in `UPDATE ... WHERE status = ...` with their row counts, the nonce
condition, and the unique indexes. The model gives each client a `Read` step,
which checks what the code checks and stores the decision in `req[c]`, and a
`Commit` step, whose guard is just those conditions. One snapshot per read
suffices: each fact that the reads establish is either re-checked by the commit
or remembered in `req[c]`. Writes are atomic, so every failure between them is
`Rollback`. A call that repeats a committed operation with the same content
returns the stored result and is a stutter.

Contents (hashes, lines, versions) are abstracted: a reserve is the sum over a
seal's lines, and all versions that a permit binds are one counter `truth`. The
admission contexts are arguments of the call, so the model captures `truth`,
`halted` and `now` at the read and never looks at them again, as the code does.

### How much of an operation is one step elsewhere

*Capital.* Every public operation of the ledger opens its transaction with
`BEGIN IMMEDIATE`, checks, writes and takes its trailing
`read_capital_risk_snapshot` before the commit. So a whole operation is one action.
That the trailing snapshot never refuses one is not assumed: it is the invariant
`SnapshotRepresentable`. What is left of concurrency is the order of whole calls, which is
any order.

*Migration.* The inbox, the v2 ledger and the authority registry are three SQLite
files. Every call into one of them is a transaction and a step; between two steps
another process acts, the store raises or the process dies. A fact stands for its
revision in the inbox and is about a trade, or about something that has no projector
(`about`). The v2 ledger is the database file and its write-ahead log (`file`, `wal`):
a projection commits to the log, and `_capture_token` is three steps, the checkpoint
(which may be blocked by another connection and does not say so), the removal of the
log and the read of the file, which is the root.

*Handoff, recovery, runtime.* A writer's runtime asks either the handoff or the
recovery coordinator, whichever it was built with (`engaged`), so `Rebuild` happens to
one writer at a time, between its calls, and at any moment of the recovery. `reach` is
outside the program: whether a writer still has credential, session and egress, and who
gave them to it.

## 3. Runs

| Run | Instance | Question and answer |
|---|---|---|
| `entry_race` | 2 clients, 2 seals, 2 permits, 1 key | any interleaving of reads and commits: a claim, its nonce, its outbox and its reserve remain one fact; invalidated permits are dead; one permit per seal. Holds. |
| `entry_serial` | 1 client, 3 seals, 3 permits, 2 keys | what the code promises and a single writer keeps: no key escape, in-flight entries stay in flight, no durable outbox behind a tombstone; the tables implement `SendRight`: a plan shrinks until one permit is granted the key's right, which is used once or given up for good. Holds. |
| `entry_key_escape` | 2 clients | finding 1: a supersede overwrites a permit that committed after its read |
| `dispatch_recovery` | 1 process, 3 lines, 2 crashes, 2 unauthenticated answers, 1 number already on file | acknowledgements are backed by the broker and the inbox; a line with a receipt is not sent again; once a number is missing from the inbox nothing is filed behind it. Holds (67,723 states). |
| `runtime_fence` | 2 writers, 1 line, 1 crash, 2 handoffs and a recovery anywhere before, in or after them | one writer drives at a time and who passes the fence is alone at the broker, if every handoff was proven; only a writer that a handoff activates beside the recovered one may meet it. Holds (5,022,094 states). |
| `scheduler_duty` | 2 items, budget of 1 per kind, 1 retry, 1 throttle, 1 correction, 1 exception | a kind pays for its own round-trips and overruns its budget by the refused ones only; no compounding, no lost exit, every exit ends. Holds (21,455 states). |
| `exit_serial` | 1 worker, 2 attempts, a lot of 2, 3 revisions, 1 late fill, 1 reopen | no oversell beyond fills nobody could know of, submissions within the mandate, unknown quantities queried, nothing stranded. Holds. |
| `exit_oversell` | 2 workers, 1 revision | finding 2: two submissions on one claimable quantity |
| `capital_flows` | 3 units for 7 cents, a subscription of 5, 2 redemptions, 1 reserve, 2 executions, prices 2 and 5, 6 ledger versions, 3 valuations, 2 risk epochs | any order of whole operations: the books equal the replay, every settlement is at the live price, flows leave the unit price alone, a terminated account is empty, who was settled is paid. Holds (904,889 states). |
| `capital_payment_drawdown` | 20 units for 20 cents, 2 valuations | finding 3: paying a redemption fabricates a drawdown |
| `migration_handoff` | a fill, then a fill of the same trade, of another one or a fact without a projector; 2 processes of one lease holder, 1 fault | any interleaving, a crash, a locked store or a blocked checkpoint anywhere: a token proves that the trade was closed in v2, and only a removed log takes that away again; facts are taken over in order and once, and the replay reaches the head. Holds (1,248,251 states). |
| `migration_dual_writer` | the same | finding 4: a fenced writer projects into v2 |

Why the bounds are enough. *Gateway*: every known conflict is between two
operations on one seal or on two successive seals of a key, and a client has one
operation pending, so two clients, two seals and two permits exhibit every pair;
the third client could only add a commit between a read and a commit, which the
first two can do one after the other. Three revisions are needed for chains (two
are one supersede), two keys for isolation. The clock needs one value on each
side of each deadline. Cash 2 lets a permit leave less than the plan reserved.
Clients, seals, permits and keys are interchangeable in the invariants of the
`entry_` runs, so symmetry is sound. *Dispatcher*: three lines give an
acknowledged, a rejected and an unsent line at once; two crashes let a resend
crash; two unauthenticated answers give two gaps. Sequence numbers saturate at
`MaxSeq`: a number can only saturate after one has been skipped, and a skipped
number is never made good, so the numbers above it all behave alike. *Runtime*:
two writers give an old and a new one, `MaxEpoch = 3` two handoffs, the second of which
can find the flags of the first; the recovery can begin before, between and after them.
One line is enough, since what the fence is about is when a pass runs and not what is in
it (three are in `dispatch_recovery`).
*Exit lane*: a lot
of two can be partly filled, two attempts are one order and the one that replaces
it, three revisions are a mandate, its refresh and one more. *Scheduler*: a budget of one with two items makes every kind wait for every
other; queries and reconciles come on top. *Capital*: 3 units for 7 cents make every price a
fraction, so that issued units, payouts and consumed cash are all rounded; a
partial and a full redemption beside a subscription give every pair of flows; six
ledger versions are enough for two flows with a fill or a valuation between their
price and their settlement, and for a full redemption to its termination; three
valuations (the genesis one counts) are one before, one after a trade. Price 5
after 2 raises a water mark, 2 after 5 is a drawdown that halts. *Migration*: two facts give one that
is under way and one that waits for it, is about its trade or blocks the head; two
processes that share a holder are the pair that the lease does not separate, and one of
them may keep its lease open over several calls; one fault at any step, and a second
would only repeat it. A commit is lost in a removed log with and without a fault.

Deadlock is not checked in the broker, scheduler, exit, capital and migration runs:
a pass, a handoff at its epoch bound, a scheduler without work, a sold lot, a
terminated account and a finished hand-off really stop.

## 4. Assumptions

- **Fairness.** None is assumed of the dispatcher: nothing in the repository calls
  `resend` by itself, its cutoff and idempotency guards may refuse it for good
  (`dispatcher.py:326-336`), and behind a gap no receipt is filed. So there is no
  property that a claimed entry is reported; `GapIsForGood` says how it can fail to be.
  `LifecycleScheduler!FairSpec`: `run_cycle` keeps being called (it has no other
  way to work) and a cycle runs to its end; throttles, corrections and exceptions
  are finite. No fairness is assumed of the gateway, whose properties are safety.
  `SettledIsPaid` assumes that who owes a redemption keeps asking for the payment.
  `FlippedIsReplayed` assumes that the operator fences and replays until the head,
  which `docs/runbooks/v3-migration-and-canary.md` asks for ("重放 inbox 至 durable
  head"); nothing is assumed of the writers, which may stop anywhere.
- **Broker.** External. It accepts or rejects an order, or answers nothing; it may
  accept and lose the answer. It deduplicates by client id, so a resend does not
  double an order; what the model forbids is resending a line that has a receipt.
- **Inbox.** `append` reads the last sequence and inserts; a race ends in a
  refusal of UNIQUE(source, source_sequence), so it is one step.
- **Reports and proofs are honest.** `report_drained` is called when the active writer's
  process is not inside a pass, a fence proof is presented when the old writer has lost
  credential, session and egress (`Sever`), a recovery is reconciled when no writer is
  inside a pass and fenced when all are severed. A severed process may live on and meets
  timeouts. Whoever an authority installs gets a credential at that moment.
- **Proven handoffs.** `NoOverlap` and `OnlyAuthorityPasses` are about handoffs that each
  had a fence proof of their own (`ProvenSoFar`). The code asks for one, but from the
  second handoff on accepts the proof of the first (section 6); the operator who presents
  a proof each time is an assumption, and nothing else about the order of calls is:
  completions may be late, a writer other than the one `complete` named may be activated,
  and handoffs go on during and after a recovery.
- **Recovery.** One-shot, as in the code; its manifest names the epochs after those that
  are live when it is verified.
- **Scheduler.** Callers hand out an id once. The process lease is not modelled
  because `run_cycle` never asks for it.
- **Exit lane.** `exits.py` issues no `BEGIN IMMEDIATE` either, so its operations are
  a read and a commit as in section 2; `claim_due_exit_work` writes first and is one
  step. The truth a derivation is given is what holds when it reads: with one worker
  the live leaves include every order it has sent. A worker that crashes while it
  sends leaves an order that the broker may or may not have; its fills then count as
  late. Caller-supplied outcomes are what the broker has reported, in any order.
- **Finite tables.** `CapitalAssumption` and `ExitAssumption` take the sets of requests,
  reserves, lots, executions and attempts to be finite: a sum over a table needs it.
- **Capital.** One account, executions with one revision each, amounts in cents and
  units from small sets; a busted or corrected execution is not modelled.
- **Migration.** The two writer processes run the service of one ledger and so give
  the same lease holder. A lease has no expiry in the code: it ends by release, or
  stays. An inbox is attached to the registry: without one `authority.py` skips the
  checks of the flip (233), the fence (221) and the replay (264). A commit that is only in
  a log when the log is removed counts as lost; that a connection which still holds the
  removed file folds it in later is not modelled. `get_trade` and `close_trade` are one
  step: the latter asks for the state again in its own transaction, and of two racing
  fills of a trade the loser raises and is taken again. A source that changes under
  the read of the inventory makes it raise, which is one of the faults.

## 5. Proofs

Each theorem is for every value of the constants, under the named assumptions of
its module and what the third column adds.

| Module | Theorem | States | Assumes |
|---|---|---|---|
| `EntryGatewayProofs` | `TypeSafety`, `ClaimSafety`, `CancelSafety`, `PermitSafety` | `[]TypeOK`, `[]ClaimBacked`, `[]CancelledIsDead`, `[]OnePermitPerSeal` | |
| | `NoKeyEscape`, `FlightIsFinal`, `PlansShrink`, `CancelTakesTheBatch` | `[]OneSendRightPerKey`, `[]ClaimedStaysInFlight`, `[]RevisionChainShrinks`, `[]TombstonedOutbox` | one client |
| | `GatewayGrantsOneRight` | `ImplementsSendRight`: `EntryGateway!Spec` implements `SendRight!Spec` | one client |
| `BrokerDispatchProofs` | `DispatchTypeOK`, `AckReachedTheBroker` | `[]TypeOK`; an acknowledged entry has every line accepted | |
| | `AckSafety`, `ReceiptEndsTheLine` | `[]AckIsBacked`, `TerminalNeverResent` | one process |
| `BrokerRuntimeProofs` | `RuntimeTypeSafety`, `AckAcrossWriters` | `[]RuntimeTypeOK`, `[]EveryLineAccepted` | |
| | `SingleDriver`, `AuthorityFence` | `[]NoOverlap`, `OnlyAuthorityPasses` | the premise `ProvenSoFar` is in the property |
| `LifecycleSchedulerProofs` | `SchedulerTypeOK`, `RateIsolation`, `DutySafety`, `NothingCompounds` | `[]TypeOK`, `[]RateIsolated`, `[]DutyKept`, `[]NoCompounding` | |
| | `RateOverrun` | calls never exceed budget and refused calls; an empty bucket was used up | |
| `ExitLaneProofs` | `UnknownStaysQueried` | `[]UnknownIsQueried` | |
| | `LaneTyped`, `LoneWorkerNeverOversells`, `LoneWorkerCovered`, `LoneWorkerStrandsNothing` | `[]TypeOK`, `[]NeverOversells`, `[]SubmissionsCovered`, `[]NothingStranded` | one worker (`LoneWorker`) |
| `CapitalLedgerProofs` | `PricesStayFresh`, `SettlementsAtLivePrice`, `TerminationIsComplete`, `TerminationIsFinal` | `[]FreshPrice`, `SettledAtLivePrice`, `[]TerminatedIsEmpty`; nothing leaves TERMINATED | |
| | `LedgerStaysTyped`, `SnapshotsAreRepresentable`, `LedgerIsConserved`, `FlowsKeepThePrice` | `[]TypeOK`, `[]SnapshotRepresentable`, `[]Conserved`, `FlowInvariance` | |
| `MigrationHandoffProofs` | `HandoffTypeOK`, `TokensProveProjection`, `TakenInOrder`, `AcksAreFinal` | `[]TypeOK`, `[]AckProvesProjection`, `[]AckedInOrder`, `AckIsFinal` | |
| | `LoneWriterLosesNothing` | no commit is dropped, and every token proves that the file holds the trade closed | one writer process, no blocked checkpoint |

The arguments, and why the invariants need strengthening:

*Gateway.* `ClaimBacked` is not inductive: between its read and its commit a client
holds facts about rows that others change, and the step that commits must know which
of them still hold. `Inv` adds that a pending operation names rows that exist and
whose binding never changes (`RequestsBound`); that a permit row is bound to a seal
(`PermitsBound`), an absent one to none (`AbsentPermitsFree`); that a seal not in
flight has the claims it may have (`UnclaimedOutsideFlight`); and that a live permit
is armed with its reserve and batch (`LivePermitsArmed`). `SerialInv` adds what one
client is entitled to: everything it read still holds when it commits (`ReadsHold`),
so only the newest seal of a key is live (`NewestIsLive`). With two clients
`ReadsHold` is false, and the four properties fail (findings). The refinement of
`SendRight` needs `RightInv`: an open plan has its cash set aside (`PlanFunded`), and
what is pending asks for no more than there is (`Affordable`). `RightIs` and `OneRow`
then say that a commit moves the right of one key only, and there is one lemma for
each commit: the abstract step it is, or that it shows nothing.

*Dispatcher.* `DispatchInv`: before the claim nothing was received
(`QuietBeforeClaim`), a positive answer on file or in hand is one the broker stands
by (`AckedIsAccepted`), an acknowledged entry has one of every line (`AckOnFile`).
With one process, what a pass has still to send has no receipt (`TodoIsOpen`) and
no pass outlives the acknowledgement (`AckIsLast`); a second process's late append
is not taken out of a running resend, so both need the assumption.

*Runtime.* `DispatchInside`: every step of the composition is a step or a stutter of
the instance `DP` of the dispatcher's module, so `DispatchInv` carries over to any
writers, handoffs and recoveries. `FenceInv` follows each writer's access to the broker
to the authority it has it from. As long as every handoff was proven (`ProofsInTime`), an
epoch ends only after its writer was severed, so at most one writer holds a handoff's
grant (`ByHandoff`, `HandoffHolds`), and the recovery's proof finds nobody at the broker,
so at most one holds the recovery's. The two authorities do not know of each other: what
a handoff grants after that proof is "beside", and stands in both properties.

*Scheduler.* `RateInv` is an equation, because only an equation survives both the charge
and the refund: calls and rate left are the budget and the refused calls. Each round-trip
is in `calls`, whatever its answer.
`DutyInv` and `SpawnInv` are about the whole line, cycle and queue together: an item
moves from the head of one to the end of the other, is in it once (`ExitOnce`), and
an owed exit is in it as itself or as its reconcile (`OwedInLine`); every query or
reconcile in line is on record as asked.

*Exit lane.* `AskInv`: what a pending reconcile has read ends in a known quantity,
so whichever derivation or reconcile commits last leaves no unknown without a query.
The quantities need one worker at a time. `RowInv` says of every attempt that what was
sold, what the lane has recorded and what is cancelled add up (`RowTrue`), and that a
pending read is still true of the rows it will write (`ReadTrue`). `QuantityInv` adds
that the executable quantity of the active mandate, and what a pending derivation would
publish (`ReadFits`), leave room for everything on the broker's book (`ActiveFits`):
`NeverOversells` is about the broker and the shares, which no check in the code
mentions, and follows only because the mandate was derived with the live leaves taken
off. With two workers `ReadFits` is false and `SubmissionsCovered` fails (finding 2).

*Capital.* `PriceInv`: no price was frozen at a version that is still to come, so an
operation that bumps the version makes all of them stale, and one that does not bump
it leaves equity and units alone. `LedgerInv` is what the other four theorems need
together; TLC has checked it on the instance of `capital_flows` before it was proved.
The stored buckets and the replay agree (`BooksTrue`) only if every step logs a *new*
event, since the log is a set: a request is on file only as far as its row has come
(`EventsTrue`, `RowsTrue`). Every cent that is owed lies in a suspense bucket
(`SuspenseTrue`: the buckets are the sums of the payables), and restricted cash is the
sum of the live reserves (`ReserveTrue`); so equity is free and reserved cash plus the
marked positions, never negative (`EquityIsWealth`), and a payment finds its cash. That
is why the trailing snapshot never refuses. A settlement converts at the live price
(`PriceInv`), so its payout never exceeds the equity, a full redemption pays out exactly
what is there, and `FlowInvariance` is left with one rounding (`RoundNear`, `RoundExact`,
`FloorBelow`; the products of `DriftOfTerms`).

*Sums.* What the code writes as `sum(...)` or SQL `SUM` is `SumFunctionOnSet`, a fold
that chooses the next element. Its value over a finite set does not depend on the
choices: the lemmas of `Sums` (removing an element, changing one, adding functions,
bounds) are proved from a smallest counterexample, for want of induction.

*Migration.* `HandoffInv`: a busy writer holds the oldest unacknowledged revision, and
after each of its steps the trade is closed in what the next one can see, or the commit is
in a removed log (`Work`: in file and log up to the checkpoint, in the file alone from the
unlink on, in the root once that is read); the replay's queue has no gap before it
(`ReplayWork`). Neither process knows of the other: what makes an acknowledgement
safe is that a fact which is not the oldest any more was acknowledged meanwhile. `LoneInv`
adds that a lone writer finds the log empty when it removes it.

Only model-checked: the liveness properties (`ExitDischarged`, `SettledIsPaid`,
`FlippedIsReplayed`), since the prover has neither ENABLED nor
fairness.

## 6. Findings

1. **Key escape** (`decisions.py:372`, supersede in `publish_entry`): the UPDATE of the
   old seal has no status condition and its SEALED check is on an earlier SELECT.
   A permit that commits in between is overwritten, and a second seal of the same
   economic key becomes active. Run `entry_key_escape`.
2. **Exit oversell** (`exits.py:893`, `record_exit_attempt`): the claimable quantity is
   read before the write lock and the lease is never checked again, so a worker whose
   lease expired and its successor both submit the whole quantity. Run `exit_oversell`.
3. **Payment drawdown** (`capital/repository.py:7309`, `pay_redemption`): the NAV is
   recomputed from the marks of the last valuation; a security bought since has no
   mark and counts zero, so the payment alone shows a drawdown and latches
   RISK_HALTED. Run `capital_payment_drawdown`.
4. **Dual writer** (`compat_writer.py:131`, `apply_next`): the fence is read before the
   lease is acquired; a writer that passed the check acquires the lease after flip
   and fence and commits to v2 while v3 is the authority. Run `migration_dual_writer`.

Seen while modelling, without a run of their own (those that bite are hazards with a
note):

- *Gateway.* A cancel that looked up the outbox before the write lock leaves a batch
  DURABLE behind a TOMBSTONED seal; a superseded seal keeps its reserve rows; two
  admissions compare their reserves with the same captured cash; a claim can commit
  after the truth it checked moved.
- *Dispatcher.* One unauthenticated answer, or a crash between an answer and its append,
  consumes a broker number, and every later receipt gaps, so the entry is never reported
  (`GapIsForGood`); the cutoff and idempotency guards of `resend` apply only when the
  caller passes both arguments.
- *Handoff, runtime.* Reconciliation and fence proof survive into the next handoff
  (`handoff.py:192`): the second one completes without either, the old writer keeps its
  access, and both drive the entry. Without the premise `ProvenSoFar` TLC finds `NoOverlap`
  violated in 16 states: the second writer has passed the fence, the next drain is
  reported, the third epoch is completed on the first one's reconciliation and proof, and
  both writers are at the broker. `activate_new_writer` installs
  any writer it is given, and the runtime's `_fence` presents the epoch it reads from the
  authority itself; runtimes with and without the coordinator have different authorities,
  so a handoff beside a recovery leaves two writers at the broker.
- *Scheduler.* A throttled or cutoff-refused call gives its charge back although the
  round-trip was made, so a kind can call the broker more often than its budget: by
  exactly the refused calls (`RateOverrun`). An exception drops every unprocessed item of its cycle; the queue is in
  memory only; `run_cycle` does not ask for the process lease.
- *Exit lane.* A verified reconcile with unchanged figures leaves the open queries
  open; a refresh forgets that the mandate was reopened, so the same correction
  reopens it again.
- *Capital.* A liquid valuation while TERMINATING confirms a NAV of zero and moves the
  account to INSOLVENT, against `flows.py:10-11`, and a full redemption moves INSOLVENT
  to TERMINATING; a subscription is stranded in TERMINATING; a settlement can itself
  halt the account at 15%; a payment after a new risk epoch lowers the active water
  mark twice; a late entry fill is refused outside ACTIVE; a redemption whose payout rounds to zero
  cannot be priced (`flows.py:202` refuses the receipt and the freeze rolls back) but can
  be settled without a price, and then is never payable; a subscription requested before genesis blocks genesis, and a risk
  epoch can start before it; a security bought back after a valuation without events
  keeps its old mark.
- *Migration.* `_capture_token` removes `-wal` and `-shm` after its checkpoint
  (`compat_writer.py:173-177`). A commit of a second process in between goes with them:
  TLC finds one dropped in 21 states without any fault (a writer has checkpointed, the
  replay acknowledges its fact, the second process takes and commits the next one, the
  first removes the log), and in 26 a token on a fact whose trade v2 does not have closed.
  The test helper says of the same two lines "生产盘点路径不允许这么做 (会有活跃 writer)"
  (`tests/offensive/v3/migration/helpers.py:312`). A checkpoint that another connection
  blocks does not raise but answers busy, which nobody reads, and then the writer's own
  commit is in the removed log. A second fill of a closed trade returns without a write
  (201-204) and is marked projected and tokened, whatever its figures. A crash between the
  flip's commit and the fence cannot be retried
  (AUTHORITY_CONFLICT) and the fence is never written; the default preimage names the
  source writer `v2-writer`, so its fence stops nobody; replay ignores the handoff
  cursor that its docstring names (`authority.py:256`); a store error between the v2
  commit and the projected mark hides the fact from `has_unacked_history`; two processes
  share one lease holder; a session that ends fenced leaves its lease unresolved;
  neither `complete_final_reconciliation` nor `entry_permitted` requires the replay to
  be finished; a fact of an unsupported kind blocks the head for good. In the
  coordinator, read but not modelled: a crash in V3_IMPORT_PREPARED is not resumable,
  and any v2 change ends in ROOT_CONFLICT.
- *Normalizer*, read but not modelled: the source hash of an observation that changes
  nothing is not recorded, so its redelivery after a bust or a downward correction
  books the quantity again (`normalizer.py:18-20` says that duplicate and late observations converge).

## 7. Plan

Done: gateway entry lifecycle with its abstract send right, dispatcher and inbox, handoff, recovery, runtime
composition, scheduler, exit lane, capital ledger with its conservation replay,
migration hand-off; proofs about each.

Left, in this order:

1. `ExecutionNormalizer`: cumulative observations to revisions, with the raw inbox of
   `BrokerDispatch` before it and the busts and corrections of the capital ledger
   behind it.
2. `MigrationCoordinator` over `MigrationHandoff`.
3. `GatewayAuthority`, composed with `EntryGateway` in place of `Drift` and `Latch`.
4. `BatchFetch`, `TieredCache`, `RunStream`: small concurrent components outside the
   kernel.
