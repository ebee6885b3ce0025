-------------------------- MODULE MigrationHandoff --------------------------
(***************************************************************************)
(* The hand-off of the capital writer from v2 to v3 (v3/migration/):       *)
(* external facts enter a durable inbox, the compatibility writer projects *)
(* them one by one into the v2 ledger, and the authority registry flips    *)
(* the authority to v3, which replays the inbox.                           *)
(*                                                                         *)
(* The inbox, the v2 ledger and the registry are three SQLite stores with  *)
(* no common transaction, so every call to one of them is a step and the   *)
(* writer processes, the operator and the source of facts interleave       *)
(* between any two.  A process may be killed before any of its steps, and  *)
(* a call may fail on a locked store.                                      *)
(*                                                                         *)
(* A fact is named by the revision the inbox gives it; a repeated fact     *)
(* gets its old revision back, a stutter.  The v2 ledger is a database     *)
(* file and a write-ahead log; a source root is the set of facts the file  *)
(* held when it was captured, the root of zeros is for a fact without a    *)
(* token of the writer.                                                    *)
(***************************************************************************)
EXTENDS Integers, FiniteSets, FiniteSetsExt

CONSTANTS
  MaxRevision,  \* bound on the accepted facts
  Trades,       \* trades v2 can close
  NoTrade,      \* of a fact without a projector: anything but a broker fill
  Inboxes,      \* what the facts to come may be about, fact by fact
  Writers,      \* writer processes of the ledger; all are one lease holder
  Sessions,     \* those that may hold a lease open over several calls
  Holder,       \* "compat-writer:<ledger>"
  SourceWriter, \* the writer the bound preimage names
  NoFence, NotAcked, Zeros,
  MaxFaults     \* bound on crashes, store errors and blocked checkpoints

ASSUME MigrationAssumption ==
  /\ MaxRevision \in Nat /\ MaxFaults \in Nat
  /\ Inboxes \subseteq [1..MaxRevision -> Trades \cup {NoTrade}]
  /\ NoFence \notin {Holder, SourceWriter} /\ NotAcked # Zeros
  /\ \A root \in SUBSET (1..MaxRevision) : root # NotAcked /\ root # Zeros

Facts == 1..MaxRevision

VARIABLES
  about,      \* the trade of each revision the inbox has or will get
  last,       \* the newest revision of inbox_revisions
  projected,  \* facts with projected_at
  ack,        \* ack_source_root of each fact
  lease,      \* the lease row is unresolved
  fence,      \* inbox_meta.writer_fence
  file, wal,  \* facts in the v2 database file, and in its log only
  dropped,    \* facts that were in a log which a writer removed
  authority,  \* authority_state.state
  bound,      \* authority_preimage holds a row
  replayed,   \* authority_replay
  writer,     \* what each writer process is doing
  operator,   \* what the operator's command is doing
  faults

ledger == <<file, wal, dropped>>
store == <<about, last, projected, ack, lease, fence>>
registry == <<authority, bound, replayed>>
vars == <<about, last, projected, ack, lease, fence, file, wal, dropped,
          authority, bound, replayed, writer, operator, faults>>

Calm == {"idle", "checked", "open", "leased", "releasing"}
Busy == {"took", "projected", "marked", "checkpointed", "unlinked", "captured"}
OperatorPc == {"idle", "leaseChecked", "ackChecked", "flipped", "replaying",
               "acked"}

Idle == [pc |-> "idle", fact |-> 0, root |-> {}, session |-> FALSE]
Resting == [pc |-> "idle", queue |-> {}, seen |-> {}]

Init ==
  /\ about \in Inboxes
  /\ last = 0 /\ projected = {} /\ ack = [f \in Facts |-> NotAcked]
  /\ lease = FALSE /\ fence = NoFence
  /\ file = {} /\ wal = {} /\ dropped = {}
  /\ authority = "V2_ACTIVE" /\ bound = FALSE /\ replayed = {}
  /\ writer = [w \in Writers |-> Idle] /\ operator = Resting
  /\ faults = 0

Accepted == 1..last
Tokened(f) == ack[f] \notin {NotAcked, Zeros}
Flipped == authority # "V2_ACTIVE"
Fenced == fence = Holder

-----------------------------------------------------------------------------
(* The inbox                                                               *)

AppendFact ==
  /\ last < MaxRevision
  /\ last' = last + 1
  /\ UNCHANGED <<about, projected, ack, lease, fence, ledger, registry,
                 writer, operator, faults>>

Pending == {f \in Accepted : ack[f] = NotAcked}

AckAccepts_Any(f, root) == TRUE

(* A second ACK must carry the root of the first.                          *)
AckAccepts(f, root) == ack[f] \in {NotAcked, root}

-----------------------------------------------------------------------------
(* The compatibility writer: apply_next, on its own or inside a lease that *)
(* the caller holds open over several calls                                *)

SetWriter(w, pc, fact, root, session) ==
  writer' = [writer EXCEPT ![w] = [pc |-> pc, fact |-> fact, root |-> root,
                                   session |-> session]]

Goto(w, pc) ==
  SetWriter(w, pc, writer[w].fact, writer[w].root, writer[w].session)

Stop(w) == SetWriter(w, "idle", 0, {}, FALSE)

(* apply_next or _Lease.__enter__ reads the fence once.                    *)
Check(w, session) ==
  /\ writer[w].pc = "idle" /\ ~Fenced
  /\ session => w \in Sessions
  /\ SetWriter(w, "checked", 0, {}, session)
  /\ UNCHANGED <<store, ledger, registry, operator, faults>>

(* The holder names the ledger, so a second process re-enters the lease.   *)
Acquire(w) ==
  /\ writer[w].pc = "checked"
  /\ lease' = TRUE
  /\ Goto(w, IF writer[w].session THEN "open" ELSE "leased")
  /\ UNCHANGED <<about, last, projected, ack, fence, ledger, registry,
                 operator, faults>>

ApplyInSession(w) ==
  /\ writer[w].pc = "open" /\ ~Fenced
  /\ Goto(w, "leased")
  /\ UNCHANGED <<store, ledger, registry, operator, faults>>

(* A fenced writer cannot close its lease: __exit__ raises before it       *)
(* releases, and the lease stays unresolved.                               *)
CloseSession(w) ==
  /\ writer[w].pc = "open"
  /\ IF Fenced THEN Stop(w) ELSE Goto(w, "releasing")
  /\ UNCHANGED <<store, ledger, registry, operator, faults>>

Leave(w) == Goto(w, IF writer[w].session THEN "open" ELSE "releasing")

Oldest_Newest(facts) == Max(facts)
Oldest(facts) == Min(facts)

Take(w) ==
  /\ writer[w].pc = "leased"
  /\ IF Pending = {} THEN Leave(w)
     ELSE SetWriter(w, "took", Oldest(Pending), {}, writer[w].session)
  /\ UNCHANGED <<store, ledger, registry, operator, faults>>

HasProjector_EveryKind(f) == about[f] \in Trades \cup {NoTrade}
HasProjector(f) == about[f] \in Trades

(* What a reader of the ledger sees, and whether a trade is closed there.  *)
v2 == file \cup wal
ClosedIn(facts, f) == \E g \in facts : about[g] = about[f]

AlreadyClosed_AnyTrade(f) == v2 # {}
AlreadyClosed(f) == ClosedIn(v2, f)

(* A fact without a projector is refused and stays at the head; one on a   *)
(* closed trade, a replay or a later fill, is projected without a write.   *)
(* close_trade asks for the state again in the transaction that commits.   *)
Project(w) ==
  LET f == writer[w].fact IN
  /\ writer[w].pc = "took"
  /\ wal' = IF HasProjector(f) /\ ~AlreadyClosed(f) THEN wal \cup {f} ELSE wal
  /\ IF HasProjector(f) THEN Goto(w, "projected") ELSE Leave(w)
  /\ UNCHANGED <<store, file, dropped, registry, operator, faults>>

MarkProjected(w) ==
  /\ writer[w].pc = "projected"
  /\ projected' = projected \cup {writer[w].fact}
  /\ Goto(w, "marked")
  /\ UNCHANGED <<about, last, ack, lease, fence, ledger, registry, operator,
                 faults>>

(* _capture_token folds the log in, removes what is left of it and reads   *)
(* the file.  A checkpoint that another connection blocks does not raise.  *)
Checkpoint(w) ==
  /\ writer[w].pc = "marked"
  /\ file' = v2 /\ wal' = {}
  /\ Goto(w, "checkpointed")
  /\ UNCHANGED <<store, dropped, registry, operator, faults>>

CheckpointBlocked(w) ==
  /\ writer[w].pc = "marked"
  /\ faults < MaxFaults /\ faults' = faults + 1
  /\ Goto(w, "checkpointed")
  /\ UNCHANGED <<store, ledger, registry, operator>>

(* What was committed and not folded in, by whichever process, is lost.    *)
UnlinkWal(w) ==
  /\ writer[w].pc = "checkpointed"
  /\ wal' = {} /\ dropped' = dropped \cup wal
  /\ Goto(w, "unlinked")
  /\ UNCHANGED <<store, file, registry, operator, faults>>

(* The inventory is read with immutable=1, which looks at the file alone.  *)
ReadInventory(w) ==
  /\ writer[w].pc = "unlinked"
  /\ SetWriter(w, "captured", writer[w].fact, file, writer[w].session)
  /\ UNCHANGED <<store, ledger, registry, operator, faults>>

Acknowledge(w) ==
  LET f == writer[w].fact IN
  /\ writer[w].pc = "captured"
  /\ IF AckAccepts(f, writer[w].root)
     THEN ack' = [ack EXCEPT ![f] = writer[w].root]
     ELSE UNCHANGED ack
  /\ Leave(w)
  /\ UNCHANGED <<about, last, projected, lease, fence, ledger, registry,
                 operator, faults>>

Release(w) ==
  /\ writer[w].pc = "releasing"
  /\ lease' = FALSE
  /\ Stop(w)
  /\ UNCHANGED <<about, last, projected, ack, fence, ledger, registry,
                 operator, faults>>

(* A store is locked: the call raises and apply_next still releases.       *)
StoreError(w) ==
  /\ faults < MaxFaults
  /\ writer[w].pc \in Busy \cup {"leased"}
  /\ Leave(w) /\ faults' = faults + 1
  /\ UNCHANGED <<store, ledger, registry, operator>>

CrashWriter(w) ==
  /\ faults < MaxFaults /\ writer[w].pc # "idle"
  /\ Stop(w) /\ faults' = faults + 1
  /\ UNCHANGED <<store, ledger, registry, operator>>

-----------------------------------------------------------------------------
(* The authority registry, driven by one operator                          *)

Step(pc) ==
  operator' = [pc |-> pc, queue |-> operator.queue, seen |-> operator.seen]

BindPreimage ==
  /\ operator.pc = "idle" /\ ~bound
  /\ bound' = TRUE
  /\ UNCHANGED <<store, ledger, authority, replayed, writer, operator, faults>>

(* compare_and_flip holds the registry's write lock from here to its       *)
(* commit, but reads the inbox twice in between.                           *)
FlipCheckLease ==
  /\ operator.pc = "idle" /\ ~Flipped /\ bound /\ ~lease
  /\ Step("leaseChecked")
  /\ UNCHANGED <<store, ledger, registry, writer, faults>>

FlipCheckAcks ==
  /\ operator.pc = "leaseChecked"
  /\ Step(IF \E f \in projected : ack[f] = NotAcked THEN "idle"
                                                     ELSE "ackChecked")
  /\ UNCHANGED <<store, ledger, registry, writer, faults>>

FlipCommit ==
  /\ operator.pc = "ackChecked"
  /\ authority' = "FLIPPED"
  /\ Step("flipped")
  /\ UNCHANGED <<store, ledger, bound, replayed, writer, faults>>

(* The fence is written after the commit, into the other store.            *)
FenceSource ==
  /\ operator.pc = "flipped"
  /\ fence' = SourceWriter
  /\ Step("idle")
  /\ UNCHANGED <<about, last, projected, ack, lease, ledger, registry, writer,
                 faults>>

Unreplayed_PendingOnly == Pending \ replayed

(* The whole history, whatever the handoff cursor says.                    *)
Unreplayed == Accepted \ replayed

(* The revisions and their tokens are read once: seen are the revisions    *)
(* that had one.                                                           *)
ReplayRead ==
  /\ operator.pc = "idle" /\ Flipped /\ Unreplayed # {}
  /\ operator' = [pc |-> "replaying", queue |-> Unreplayed,
                  seen |-> Unreplayed \ Pending]
  /\ UNCHANGED <<store, ledger, registry, writer, faults>>

(* A revision without a token is acknowledged with zeros; a token the      *)
(* writer has left on it since then conflicts and ends the replay.         *)
ReplayAck ==
  LET f == Min(operator.queue) IN
  /\ operator.pc = "replaying"
  /\ IF f \in operator.seen THEN UNCHANGED ack /\ Step("acked")
     ELSE IF AckAccepts(f, Zeros)
     THEN ack' = [ack EXCEPT ![f] = Zeros] /\ Step("acked")
     ELSE UNCHANGED ack /\ operator' = Resting
  /\ UNCHANGED <<about, last, projected, lease, fence, ledger, registry,
                 writer, faults>>

ReplayRecord ==
  LET f == Min(operator.queue)
      rest == operator.queue \ {f}
  IN
  /\ operator.pc = "acked"
  /\ replayed' = replayed \cup {f}
  /\ operator' = IF rest = {} THEN Resting
                 ELSE [pc |-> "replaying", queue |-> rest,
                       seen |-> operator.seen]
  /\ UNCHANGED <<store, ledger, authority, bound, writer, faults>>

CompleteFinalReconciliation ==
  /\ operator.pc = "idle" /\ authority = "FLIPPED"
  /\ authority' = "RECONCILED"
  /\ UNCHANGED <<store, ledger, bound, replayed, writer, operator, faults>>

CrashOperator ==
  /\ faults < MaxFaults /\ operator.pc # "idle"
  /\ operator' = Resting /\ faults' = faults + 1
  /\ UNCHANGED <<store, ledger, registry, writer>>

-----------------------------------------------------------------------------

WriterStep(w) ==
  \/ \E session \in BOOLEAN : Check(w, session)
  \/ Acquire(w) \/ ApplyInSession(w) \/ CloseSession(w)
  \/ Take(w) \/ Project(w) \/ MarkProjected(w) \/ Checkpoint(w)
  \/ CheckpointBlocked(w) \/ UnlinkWal(w) \/ ReadInventory(w)
  \/ Acknowledge(w) \/ Release(w) \/ StoreError(w) \/ CrashWriter(w)

Replay == FenceSource \/ ReplayRead \/ ReplayAck \/ ReplayRecord

Next ==
  \/ AppendFact
  \/ \E w \in Writers : WriterStep(w)
  \/ BindPreimage \/ FlipCheckLease \/ FlipCheckAcks \/ FlipCommit \/ Replay
  \/ CompleteFinalReconciliation \/ CrashOperator

(* The runbook has the operator replay the inbox up to its durable head.   *)
Spec == Init /\ [][Next]_vars /\ WF_vars(Replay)

-----------------------------------------------------------------------------
(* Properties                                                              *)

TypeOK ==
  /\ about \in Inboxes
  /\ last \in 0..MaxRevision /\ projected \subseteq Accepted
  /\ ack = [f \in Facts |-> ack[f]]
  /\ \A f \in Facts : Tokened(f) => ack[f] \subseteq Facts
  /\ lease \in BOOLEAN /\ fence \in {NoFence, Holder, SourceWriter}
  /\ \A f \in v2 \cup dropped : f \in Accepted /\ about[f] \in Trades
  /\ authority \in {"V2_ACTIVE", "FLIPPED", "RECONCILED"} /\ bound \in BOOLEAN
  /\ replayed \subseteq Accepted /\ faults \in 0..MaxFaults
  /\ writer \in [Writers -> [pc: Calm \cup Busy, fact: Facts \cup {0},
                             root: SUBSET Facts, session: BOOLEAN]]
  /\ operator \in [pc: OperatorPc, queue: SUBSET Accepted,
                   seen: SUBSET Accepted]

(* A projected mark proves that the trade was closed in v2, and the token  *)
(* a writer leaves that it was closed under its root, unless the commit    *)
(* was in a log that a capture removed: nothing else loses one, and what a *)
(* root names is never lost.  A fact that carries the root of zeros was    *)
(* taken over by the replay, after the flip.                               *)
AckProvesProjection ==
  /\ \A f \in projected : ClosedIn(v2 \cup dropped, f)
  /\ \A f \in Facts :
       /\ Tokened(f) =>
            ClosedIn(ack[f] \cup dropped, f) /\ ack[f] \subseteq file
       /\ ack[f] = Zeros => Flipped

(* Facts are taken over in the order of their acceptance, by whichever     *)
(* writer process or replay: a fact is never acknowledged before an older  *)
(* one, and one that has no projector holds up all the younger ones.       *)
AckedInOrder ==
  \A f, g \in Accepted : f < g /\ ack[g] # NotAcked => ack[f] # NotAcked

(* A root once on file is never replaced, though two writer processes and  *)
(* a replay may capture different ones for the same fact.                  *)
AckIsFinal ==
  [][\A f \in Facts : ack[f] # NotAcked => ack'[f] = ack[f]]_vars

(* No accepted fact is lost in the hand-off: once the authority is v3's,   *)
(* the replay reaches the durable head of the inbox, whatever crashes and  *)
(* conflicting acknowledgements it meets.                                  *)
FlippedIsReplayed == Flipped ~> Accepted \subseteq replayed

(* compat_writer.py: once it is fenced the writer, a handle with a lease   *)
(* included, can never write v2 again.                                     *)
FencedWriterIsSilent == [][Fenced => v2' \subseteq v2]_vars

=============================================================================
