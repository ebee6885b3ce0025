---------------------------- MODULE EntryGateway ----------------------------
(***************************************************************************)
(* The entry side of the Capital Gateway (v3/gateway/decisions.py): the    *)
(* SQLite tables that hold decision seals, reserves, permits, outbox       *)
(* batches and send claims, and the gateway processes that drive an entry  *)
(*                                                                         *)
(*   SEALED -> PERMITTED -> OUTBOX_DURABLE -> SEND_CLAIMED                 *)
(*          -> SUBMISSION_AMBIGUOUS | BROKER_ACK                           *)
(*                                                                         *)
(* with TOMBSTONED and SUPERSEDED as the exits.                            *)
(*                                                                         *)
(* Every operation opens engine.begin() on a pysqlite connection, which    *)
(* starts the SQL transaction only at the first INSERT or UPDATE: the      *)
(* SELECTs before it run outside the write lock.  An operation is          *)
(* therefore two steps of its client: a Read step that checks the rows it  *)
(* selected and remembers what it decided, and a Commit step, atomic under *)
(* the write lock, that only re-checks what its conditional UPDATEs and    *)
(* the unique indexes re-check.  A client that is between the two may      *)
(* always roll back: a failed conditional UPDATE, an integrity error, a    *)
(* fault between two statements and a process crash all end there.         *)
(***************************************************************************)
EXTENDS Integers

CONSTANTS
  Clients,        \* gateway processes sharing one database file
  Seals,          \* seal ids
  Permits,        \* permit ids; an outbox batch id is frozen in its permit
  Keys,           \* economic keys (portfolio, session, decision cycle)
  Cash,           \* available_cash_cents of the injected AdmissionContext
  IssueDeadline,  \* last instant a permit may be issued
  SendDeadline,   \* first instant a send claim is too late
  Expiry,         \* first instant a permit is expired
  MaxNow,         \* bound on the clock
  MaxTruth,       \* bound on the version of the authority/capital/risk truth
  NoSeal, NoPermit, NoKey

ASSUME NullsAssumption ==
  /\ NoSeal \notin Seals
  /\ NoPermit \notin Permits
  /\ NoKey \notin Keys

ASSUME BoundsAssumption ==
  /\ Cash \in Nat
  /\ IssueDeadline \in Nat /\ SendDeadline \in Nat /\ Expiry \in Nat
  /\ MaxNow \in Nat /\ MaxTruth \in Nat

VARIABLES
  seal,     \* decision_seals
  reserve,  \* entry_reserves, summed over the lines of a seal
  permit,   \* entry_permits and entry_permit_lines
  outbox,   \* entry_outbox, by the permit that froze the batch
  claim,    \* send_claims
  req,       \* what each client has read and decided, not yet committed
  now,      \* the trusted clock
  truth,    \* version of the policy/authority/risk/capital/fence truth
  halted    \* some risk, reconciliation or stage-loss latch is not CLEAR

tables == <<seal, reserve, permit, outbox, claim>>
world == <<now, truth, halted>>
vars == <<seal, reserve, permit, outbox, claim, req, now, truth, halted>>

-----------------------------------------------------------------------------
(* Rows.                                                                   *)

SealStatus == {"ABSENT", "SEALED", "PERMITTED", "OUTBOX_DURABLE",
               "SEND_CLAIMED", "SUBMISSION_AMBIGUOUS", "BROKER_ACK",
               "TOMBSTONED", "SUPERSEDED"}
NonceState == {"ABSENT", "ACTIVE", "CONSUMED", "INVALIDATED"}
OutboxState == {"ABSENT", "DURABLE", "TOMBSTONED"}
Outcomes == {"SUBMISSION_AMBIGUOUS", "BROKER_ACK"}

InFlight == {"SEND_CLAIMED", "SUBMISSION_AMBIGUOUS", "BROKER_ACK"}
Cancellable == {"PERMITTED", "OUTBOX_DURABLE"}

SealRow == [status: SealStatus, key: Keys \cup {NoKey}, rev: Nat, cents: Nat]
PermitRow == [nonce: NonceState, seal: Seals \cup {NoSeal},
              remaining: Nat, truth: Nat]

NoSealRow == [status |-> "ABSENT", key |-> NoKey, rev |-> 0, cents |-> 0]
NoPermitRow == [nonce |-> "ABSENT", seal |-> NoSeal, remaining |-> 0,
                truth |-> 0]

(* A client's pending operation: what it asked for and what it saw.        *)
OpKind == {"idle", "publish", "issue", "outbox", "claim", "cancel", "record"}
Op == [kind: OpKind,
       seal: Seals \cup {NoSeal},     \* the seal written
       old: Seals \cup {NoSeal},      \* the seal a publish supersedes
       key: Keys \cup {NoKey},
       rev: Nat,
       permit: Permits \cup {NoPermit},
       cents: Nat,                    \* reserve asked for, or left by a permit
       truth: Nat,                    \* truth version the permit evaluated
       sawOutbox: BOOLEAN,            \* the cancel's SELECT found an outbox row
       from: SealStatus,              \* status the UPDATE requires
       to: SealStatus]                \* status it writes
Idle == [kind |-> "idle", seal |-> NoSeal, old |-> NoSeal, key |-> NoKey,
         rev |-> 0, permit |-> NoPermit, cents |-> 0, truth |-> 0,
         sawOutbox |-> FALSE, from |-> "ABSENT", to |-> "ABSENT"]

TypeOK ==
  /\ seal \in [Seals -> SealRow]
  /\ reserve \in [Seals -> Nat]
  /\ permit \in [Permits -> PermitRow]
  /\ outbox \in [Permits -> OutboxState]
  /\ claim \in [Seals -> Permits \cup {NoPermit}]
  /\ req \in [Clients -> Op]
  /\ now \in Nat /\ truth \in Nat /\ halted \in BOOLEAN

Init ==
  /\ seal = [s \in Seals |-> NoSealRow]
  /\ reserve = [s \in Seals |-> 0]
  /\ permit = [p \in Permits |-> NoPermitRow]
  /\ outbox = [p \in Permits |-> "ABSENT"]
  /\ claim = [s \in Seals |-> NoPermit]
  /\ req = [c \in Clients |-> Idle]
  /\ now = 0 /\ truth = 0 /\ halted = FALSE

-----------------------------------------------------------------------------
(* Reads shared by the operations.                                         *)

SealsOf(k) == {s \in Seals : seal[s].key = k}

(* _latest_seal_row: ORDER BY seal_revision DESC LIMIT 1.                  *)
LatestSeals(k) ==
  {s \in SealsOf(k) : \A t \in SealsOf(k) : seal[t].rev <= seal[s].rev}

Pending(c, kind) == req[c].kind = kind

Read(c, request) ==
  /\ req[c] = Idle
  /\ req' = [req EXCEPT ![c] = request]
  /\ UNCHANGED <<tables, world>>

Done(c) == req' = [req EXCEPT ![c] = Idle]

(* Any way an operation ends without committing.                           *)
Rollback(c) ==
  /\ req[c] # Idle
  /\ Done(c)
  /\ UNCHANGED <<tables, world>>

-----------------------------------------------------------------------------
(* publish_entry: admit a proposal, superseding the active seal if any.    *)

SupersedeAllowed_AnyStatus(old, rev, cents) ==
  rev = seal[old].rev + 1 /\ cents <= seal[old].cents
SupersedeAllowed_Growing(old, rev, cents) ==
  seal[old].status = "SEALED" /\ rev = seal[old].rev + 1

(* _require_supersede_allowed, on the row the SELECT returned.             *)
SupersedeAllowed(old, rev, cents) ==
  /\ seal[old].status = "SEALED"
  /\ rev = seal[old].rev + 1
  /\ cents <= seal[old].cents

ReadPublish(c, s, k, cents) ==
  /\ cents \in 1..Cash
  /\ seal[s].status = "ABSENT"
  /\ \/ /\ SealsOf(k) = {}
        /\ Read(c, [Idle EXCEPT !.kind = "publish", !.seal = s, !.key = k,
                                !.rev = 1, !.cents = cents])
     \/ \E old \in LatestSeals(k) :
          /\ SupersedeAllowed(old, seal[old].rev + 1, cents)
          /\ Read(c, [Idle EXCEPT !.kind = "publish", !.seal = s, !.key = k,
                                  !.old = old, !.rev = seal[old].rev + 1,
                                  !.cents = cents])

(* The UPDATE of the old seal has no status condition.                     *)
Superseded(s, old) ==
  IF s = old THEN [seal[s] EXCEPT !.status = "SUPERSEDED"] ELSE seal[s]

(* Primary key of the new row; uq_active_seal_per_key on SEALED rows.      *)
PublishIndexesHold(r) ==
  /\ seal[r.seal].status = "ABSENT"
  /\ \A s \in SealsOf(r.key) : s # r.old => seal[s].status # "SEALED"

CommitPublish(c) ==
  LET r == req[c] IN
  /\ Pending(c, "publish")
  /\ PublishIndexesHold(r)
  /\ seal' = [s \in Seals |->
                IF s = r.seal
                THEN [status |-> "SEALED", key |-> r.key, rev |-> r.rev,
                      cents |-> r.cents]
                ELSE Superseded(s, r.old)]
  /\ reserve' = [reserve EXCEPT ![r.seal] = r.cents]
  /\ Done(c)
  /\ UNCHANGED <<permit, outbox, claim, world>>

-----------------------------------------------------------------------------
(* issue_permit: ALLOW moves the seal to PERMITTED with an ACTIVE nonce,   *)
(* CANCEL tombstones it with the nonce INVALIDATED and nothing reserved.   *)

ReadIssue(c, p, s, allow, remaining) ==
  /\ now <= IssueDeadline /\ now < Expiry
  /\ permit[p].nonce = "ABSENT"
  /\ seal[s].status = "SEALED"
  /\ IF allow THEN ~halted /\ remaining \in 1..reserve[s] ELSE remaining = 0
  /\ Read(c, [Idle EXCEPT !.kind = "issue", !.seal = s, !.permit = p,
                          !.cents = remaining, !.truth = truth,
                          !.from = "SEALED",
                          !.to = IF allow THEN "PERMITTED" ELSE "TOMBSTONED"])

(* UPDATE decision_seals ... WHERE status = 'SEALED', rowcount 1.          *)
StillSealed_Dropped(s) == seal[s].status # "ABSENT"
StillSealed(s) == seal[s].status = "SEALED"

CommitIssue(c) ==
  LET r == req[c] IN
  /\ Pending(c, "issue")
  /\ permit[r.permit].nonce = "ABSENT"
  /\ StillSealed(r.seal)
  /\ permit' = [permit EXCEPT ![r.permit] =
                  [nonce |-> IF r.to = "PERMITTED" THEN "ACTIVE"
                                                   ELSE "INVALIDATED",
                   seal |-> r.seal, remaining |-> r.cents,
                   truth |-> r.truth]]
  /\ reserve' = [reserve EXCEPT ![r.seal] = r.cents]
  /\ seal' = [seal EXCEPT ![r.seal].status = r.to]
  /\ Done(c)
  /\ UNCHANGED <<outbox, claim, world>>

-----------------------------------------------------------------------------
(* make_outbox_durable: PERMITTED -> OUTBOX_DURABLE with its batch row.    *)

ReadOutbox(c, p) ==
  /\ now < Expiry
  /\ permit[p].nonce = "ACTIVE"
  /\ seal[permit[p].seal].status = "PERMITTED"
  /\ outbox[p] = "ABSENT"
  /\ Read(c, [Idle EXCEPT !.kind = "outbox", !.seal = permit[p].seal,
                          !.permit = p, !.from = "PERMITTED",
                          !.to = "OUTBOX_DURABLE"])

CommitOutbox(c) ==
  LET r == req[c] IN
  /\ Pending(c, "outbox")
  /\ outbox[r.permit] = "ABSENT"
  /\ seal[r.seal].status = "PERMITTED"
  /\ outbox' = [outbox EXCEPT ![r.permit] = "DURABLE"]
  /\ seal' = [seal EXCEPT ![r.seal].status = "OUTBOX_DURABLE"]
  /\ Done(c)
  /\ UNCHANGED <<reserve, permit, claim, world>>

-----------------------------------------------------------------------------
(* claim_send: consume the nonce and take the right to send.               *)

(* _require_no_halts and _require_equal_truth, against the bundle the      *)
(* caller injected when it called.                                         *)
TruthHolds(p) == ~halted /\ permit[p].truth = truth

ReadClaim(c, p) ==
  /\ now < SendDeadline
  /\ permit[p].nonce = "ACTIVE"
  /\ seal[permit[p].seal].status = "OUTBOX_DURABLE"
  /\ outbox[p] = "DURABLE"
  /\ reserve[permit[p].seal] = permit[p].remaining
  /\ TruthHolds(p)
  /\ Read(c, [Idle EXCEPT !.kind = "claim", !.seal = permit[p].seal,
                          !.permit = p, !.from = "OUTBOX_DURABLE",
                          !.to = "SEND_CLAIMED"])

(* UPDATE decision_seals ... WHERE status = 'OUTBOX_DURABLE', rowcount 1.  *)
StillDurable(s) == seal[s].status = "OUTBOX_DURABLE"

(* UPDATE entry_permits ... WHERE permit_nonce_state = 'ACTIVE'.           *)
StillActive(p) == permit[p].nonce = "ACTIVE"

CommitClaim(c) ==
  LET r == req[c] IN
  /\ Pending(c, "claim")
  /\ StillDurable(r.seal)
  /\ StillActive(r.permit)
  /\ claim[r.seal] = NoPermit
  /\ seal' = [seal EXCEPT ![r.seal].status = "SEND_CLAIMED"]
  /\ permit' = [permit EXCEPT ![r.permit].nonce = "CONSUMED"]
  /\ claim' = [claim EXCEPT ![r.seal] = r.permit]
  /\ Done(c)
  /\ UNCHANGED <<reserve, outbox, world>>

-----------------------------------------------------------------------------
(* cancel_unclaimed_entry: tombstone a PERMITTED or OUTBOX_DURABLE entry.  *)

ReadCancel(c, p) ==
  /\ permit[p].nonce = "ACTIVE"
  /\ seal[permit[p].seal].status \in Cancellable
  /\ Read(c, [Idle EXCEPT !.kind = "cancel", !.seal = permit[p].seal,
                          !.permit = p, !.sawOutbox = outbox[p] # "ABSENT",
                          !.to = "TOMBSTONED"])

(* UPDATE ... WHERE status IN ('PERMITTED', 'OUTBOX_DURABLE').             *)
StillCancellable(s) == seal[s].status \in Cancellable

(* Only an outbox row the SELECT returned is tombstoned.                   *)
OutboxAfterCancel_Kept(r) == outbox
OutboxAfterCancel(r) ==
  IF r.sawOutbox THEN [outbox EXCEPT ![r.permit] = "TOMBSTONED"] ELSE outbox

ReserveAfterCancel_Delta(s) == 0 - reserve[s]
ReserveAfterCancel(s) == 0

CommitCancel(c) ==
  LET r == req[c] IN
  /\ Pending(c, "cancel")
  /\ StillCancellable(r.seal)
  /\ r.sawOutbox => outbox[r.permit] = "DURABLE"
  /\ StillActive(r.permit)
  /\ seal' = [seal EXCEPT ![r.seal].status = "TOMBSTONED"]
  /\ outbox' = OutboxAfterCancel(r)
  /\ permit' = [permit EXCEPT ![r.permit].nonce = "INVALIDATED"]
  /\ reserve' = [reserve EXCEPT ![r.seal] = ReserveAfterCancel(r.seal)]
  /\ Done(c)
  /\ UNCHANGED <<claim, world>>

-----------------------------------------------------------------------------
(* record_delivery_outcome: ambiguous, then possibly acknowledged.         *)

ReadRecord(c, s, outcome) ==
  /\ seal[s].status \in {"SEND_CLAIMED", "SUBMISSION_AMBIGUOUS"}
  /\ seal[s].status # outcome
  /\ Read(c, [Idle EXCEPT !.kind = "record", !.seal = s,
                          !.from = seal[s].status, !.to = outcome])

CommitRecord(c) ==
  LET r == req[c] IN
  /\ Pending(c, "record")
  /\ seal[r.seal].status = r.from
  /\ seal' = [seal EXCEPT ![r.seal].status = r.to]
  /\ Done(c)
  /\ UNCHANGED <<reserve, permit, outbox, claim, world>>

-----------------------------------------------------------------------------
(* The world the injected contexts are read from.                          *)

Tick == now < MaxNow /\ now' = now + 1
        /\ UNCHANGED <<tables, req, truth, halted>>
Drift == truth < MaxTruth /\ truth' = truth + 1
         /\ UNCHANGED <<tables, req, now, halted>>
Latch == halted' = ~halted /\ UNCHANGED <<tables, req, now, truth>>

Request(c) ==
  \/ \E s \in Seals, k \in Keys, cents \in 1..Cash : ReadPublish(c, s, k, cents)
  \/ \E p \in Permits, s \in Seals, allow \in BOOLEAN, cents \in 0..Cash :
       ReadIssue(c, p, s, allow, cents)
  \/ \E p \in Permits : ReadOutbox(c, p) \/ ReadClaim(c, p) \/ ReadCancel(c, p)
  \/ \E s \in Seals, outcome \in Outcomes : ReadRecord(c, s, outcome)

Commit(c) ==
  \/ CommitPublish(c) \/ CommitIssue(c) \/ CommitOutbox(c)
  \/ CommitClaim(c) \/ CommitCancel(c) \/ CommitRecord(c)

Next ==
  \/ \E c \in Clients : Request(c) \/ Commit(c) \/ Rollback(c)
  \/ Tick \/ Drift \/ Latch

Spec == Init /\ [][Next]_vars

-----------------------------------------------------------------------------
(* Properties that hold whatever the interleaving of the clients.          *)

PermitsOf(s) == {p \in Permits : permit[p].seal = s}

(* A send claim and the consumption of its permit's nonce are one event,   *)
(* and an entry in flight keeps its durable outbox and exactly the cash    *)
(* its permit left reserved, whichever permit, cancel or publish raced it  *)
(* (claim_send, test_cancel_claim_race_never_splits_state).                *)
ClaimBacked ==
  /\ \A s \in Seals : claim[s] # NoPermit =>
       LET p == claim[s] IN
       /\ permit[p].seal = s
       /\ permit[p].nonce = "CONSUMED"
       /\ outbox[p] = "DURABLE"
       /\ reserve[s] = permit[p].remaining
  /\ \A p \in Permits :
       permit[p].nonce = "CONSUMED" => claim[permit[p].seal] = p

(* An invalidated permit is final: its entry was not and will not be       *)
(* claimed, and holds no cash (cancel_unclaimed_entry, CANCEL permits).    *)
CancelledIsDead ==
  \A p \in Permits : permit[p].nonce = "INVALIDATED" =>
    /\ claim[permit[p].seal] = NoPermit
    /\ reserve[permit[p].seal] = 0
    /\ seal[permit[p].seal].status \in {"TOMBSTONED", "SUPERSEDED"}

(* Competing permits linearize: one seal never carries two permit rows     *)
(* (issue_permit, test_two_competing_permits_linearize_one).               *)
OnePermitPerSeal ==
  \A s \in Seals : \A p, q \in PermitsOf(s) : p = q

-----------------------------------------------------------------------------
(* Properties of a single writer (one client), and what several writers    *)
(* make of them.                                                           *)

SendRights(k) ==
  {s \in SealsOf(k) :
     \E p \in PermitsOf(s) : permit[p].nonce \in {"ACTIVE", "CONSUMED"}}

(* The economic key can never be escaped: at most one seal of a key holds  *)
(* or has used a right to send (publish_entry, issue_permit).              *)
OneSendRightPerKey == \A k \in Keys : \A s, t \in SendRights(k) : s = t

(* An entry in flight only moves between SEND_CLAIMED, ambiguous and       *)
(* acknowledged: nothing takes it back (publish_entry, cancel).            *)
ClaimedStaysInFlight ==
  \A s \in Seals : claim[s] # NoPermit <=> seal[s].status \in InFlight

(* The revisions of a key form a chain: consecutive from 1, only the last  *)
(* one not superseded, and the reserve of a plan never grows along it.     *)
RevisionChainShrinks ==
  \A s, t \in Seals :
    /\ seal[s].rev < seal[t].rev /\ seal[s].key = seal[t].key =>
         /\ seal[s].status = "ABSENT" \/ seal[s].status = "SUPERSEDED"
         /\ seal[s].status = "SUPERSEDED" => seal[t].cents <= seal[s].cents
    /\ s # t /\ seal[s].status # "ABSENT" /\ seal[s].key = seal[t].key
         => seal[s].rev # seal[t].rev

(* Cancelling an entry tombstones its outbox with it: no TOMBSTONED seal   *)
(* leaves a DURABLE batch behind (cancel_unclaimed_entry).                 *)
TombstonedOutbox ==
  \A p \in Permits :
    permit[p].nonce = "INVALIDATED" => outbox[p] # "DURABLE"

-----------------------------------------------------------------------------
(* The tables as the one send right per key that they implement: its phase *)
(* and its cash are those of the seal that is not superseded, its holder   *)
(* the permit whose nonce is live or consumed.                             *)

Standing(k) == {s \in SealsOf(k) : seal[s].status # "SUPERSEDED"}
Holders(s) == {p \in PermitsOf(s) : permit[p].nonce \in {"ACTIVE", "CONSUMED"}}

Phase(status) ==
  CASE status = "SEALED" -> "planned"
    [] status \in Cancellable -> "held"
    [] status \in InFlight -> "used"
    [] OTHER -> "dead"

HolderIn(holders) ==
  IF holders = {} THEN NoPermit ELSE CHOOSE p \in holders : TRUE

RightAt(s) == [phase |-> Phase(seal[s].status), holder |-> HolderIn(Holders(s)),
               cents |-> reserve[s]]
NoRight == [phase |-> "none", holder |-> NoPermit, cents |-> 0]

RightOf(k) ==
  IF Standing(k) = {} THEN NoRight
  ELSE RightAt(CHOOSE s \in Standing(k) : TRUE)

Rights == [k \in Keys |-> RightOf(k)]

SR == INSTANCE SendRight WITH right <- Rights

(* With one client the tables, their reads and their commits are the send  *)
(* right of SendRight: each commit is one of its steps or changes nothing  *)
(* that it shows (publish_entry, issue_permit, claim_send,                 *)
(* cancel_unclaimed_entry).                                                *)
ImplementsSendRight == SR!Spec

=============================================================================
