----------------------- MODULE MigrationHandoffProofs -----------------------
(* Proofs about MigrationHandoff, for any number of facts, writer          *)
(* processes and faults.                                                   *)
EXTENDS MigrationHandoff, WellFoundedInduction, TLAPS

(* Every fact older than f is acknowledged.                                *)
Settled(f) == \A g \in Accepted : g < f => ack[g] # NotAcked

(* A fact with an ACK, and one the replay has recorded, is in the inbox    *)
(* and acknowledged.                                                       *)
AckedIsAccepted ==
  /\ \A f \in Facts : ack[f] # NotAcked => f \in Accepted
  /\ \A f \in replayed : ack[f] # NotAcked

(* What a writer process holds while it works on a fact: it took the       *)
(* oldest one, and the trade is closed in v2 or its commit is in a removed *)
(* log; from the unlink on, what is not in the file is lost.               *)
Work(w) ==
  LET f == writer[w].fact IN
  /\ writer[w].pc \in Busy => f \in Accepted /\ Settled(f)
  /\ writer[w].pc \in {"projected", "marked", "checkpointed"} =>
       ClosedIn(v2 \cup dropped, f)
  /\ writer[w].pc = "unlinked" => ClosedIn(file \cup dropped, f)
  /\ writer[w].pc = "captured" =>
       ClosedIn(writer[w].root \cup dropped, f) /\ writer[w].root \subseteq file

(* What the replay holds: the revisions it has still to take, with no gap  *)
(* before them.                                                            *)
ReplayWork ==
  operator.pc \in {"replaying", "acked"} =>
    /\ Flipped /\ operator.queue # {}
    /\ \A f \in operator.seen : ack[f] # NotAcked
    /\ \A g \in operator.queue, f \in Accepted :
         f < g => f \in operator.queue \/ ack[f] # NotAcked
    /\ operator.pc = "acked" => ack[Min(operator.queue)] # NotAcked

HandoffInv ==
  /\ TypeOK /\ AckedIsAccepted /\ AckProvesProjection /\ AckedInOrder
  /\ \A w \in Writers : Work(w)
  /\ ReplayWork

-----------------------------------------------------------------------------
(* Small facts                                                             *)

(* The oldest revision of a set of revisions exists.                       *)
LEMMA MinOf ==
  ASSUME NEW S, S \subseteq Nat, S # {}
  PROVE  Min(S) \in S /\ \A x \in S : Min(S) <= x
<1>1. PICK m \in S : \A y \in S : <<y, m>> \notin OpToRel(<, Nat)
  BY NatLessThanWellFounded, WFMin
<1>2. \A y \in S : ~(y < m)
  BY <1>1 DEF OpToRel
<1>3. \A y \in S : m <= y
  BY <1>2
<1>4. QED
  BY <1>3 DEF Min

LEMMA Revisions ==
  ASSUME TypeOK
  PROVE  /\ Accepted \subseteq Facts /\ Facts \subseteq Nat
         /\ last \in Nat /\ MaxRevision \in Nat
  BY MigrationAssumption DEF TypeOK, Accepted, Facts

(* A row of the writer table is set as a whole.                            *)
LEMMA WriterSet ==
  ASSUME TypeOK, NEW w \in Writers, NEW p \in Calm \cup Busy,
         NEW f \in Facts \cup {0}, NEW r \in SUBSET Facts, NEW s \in BOOLEAN,
         SetWriter(w, p, f, r, s)
  PROVE  /\ writer' \in [Writers -> [pc: Calm \cup Busy, fact: Facts \cup {0},
                                     root: SUBSET Facts, session: BOOLEAN]]
         /\ writer'[w].pc = p /\ writer'[w].fact = f /\ writer'[w].root = r
         /\ \A x \in Writers : x # w => writer'[x] = writer[x]
  BY DEF TypeOK, SetWriter

(* What a step adds and never takes back.                                  *)
LedgerGrows ==
  /\ about' = about /\ file \subseteq file' /\ dropped \subseteq dropped'
  /\ v2 \cup dropped \subseteq (v2 \cup dropped)'

Grows ==
  /\ last' \in {last, last + 1} /\ LedgerGrows
  /\ \A f \in Facts : ack[f] # NotAcked => ack'[f] = ack[f]
  /\ Flipped => Flipped'

LEMMA SameLedger ==
  ASSUME UNCHANGED <<about, ledger>>
  PROVE  /\ about' = about /\ file' = file /\ wal' = wal /\ dropped' = dropped
         /\ v2' = v2 /\ LedgerGrows
  BY DEF ledger, v2, LedgerGrows

LEMMA SettledStays ==
  ASSUME TypeOK, Grows, NEW f \in Accepted, Settled(f)
  PROVE  f \in Accepted' /\ Settled(f)'
  BY Revisions DEF Grows, Settled, Accepted

LEMMA WorkStays ==
  ASSUME TypeOK, Grows, NEW w \in Writers, Work(w), writer'[w] = writer[w]
  PROVE  Work(w)'
<1>1. /\ about' = about /\ file \subseteq file' /\ dropped \subseteq dropped'
      /\ v2 \cup dropped \subseteq (v2 \cup dropped)'
  BY DEF Grows, LedgerGrows
<1>2. ASSUME NEW S, NEW T, S \subseteq T, NEW f, ClosedIn(S, f)
      PROVE  \E g \in T : about'[g] = about'[f]
  BY <1>1, <1>2 DEF ClosedIn
<1>3. writer[w].pc \in Busy => /\ (writer[w].fact \in Accepted)'
                              /\ Settled(writer[w].fact)'
  BY SettledStays DEF Work
<1>4. writer[w].pc \in {"projected", "marked", "checkpointed"} =>
        ClosedIn(v2 \cup dropped, writer[w].fact)'
  BY <1>1, <1>2 DEF Work, ClosedIn
<1>5. writer[w].pc = "unlinked" => ClosedIn(file \cup dropped, writer[w].fact)'
  BY <1>1, <1>2 DEF Work, ClosedIn
<1>6. writer[w].pc = "captured" =>
        /\ ClosedIn(writer[w].root \cup dropped, writer[w].fact)'
        /\ writer[w].root \subseteq file'
  BY <1>1, <1>2 DEF Work, ClosedIn
<1>7. QED
  BY <1>3, <1>4, <1>5, <1>6 DEF Work

LEMMA ReplayStays ==
  ASSUME TypeOK, Grows, ReplayWork, UNCHANGED operator
  PROVE  ReplayWork'
<1> SUFFICES ASSUME operator.pc \in {"replaying", "acked"} PROVE ReplayWork'
  BY DEF ReplayWork
<1>1. operator.queue \subseteq Accepted /\ operator.seen \subseteq Accepted
  BY DEF TypeOK
<1>2. Flipped' /\ \A f \in operator.seen : ack'[f] # NotAcked
  BY <1>1, Revisions DEF ReplayWork, Grows
<1>3. ASSUME NEW g \in operator.queue, NEW f \in Accepted', f < g
      PROVE  f \in operator.queue \/ ack'[f] # NotAcked
  <2>1. f \in Accepted
    BY <1>1, <1>3, Revisions DEF Accepted, Grows
  <2>2. QED
    BY <1>3, <2>1, Revisions DEF ReplayWork, Grows
<1>4. operator.pc = "acked" => ack'[Min(operator.queue)] # NotAcked
  <2>1. operator.queue # {} /\ operator.queue \subseteq Nat
    BY <1>1, Revisions DEF ReplayWork
  <2>2. Min(operator.queue) \in operator.queue
    BY <2>1, MinOf
  <2>3. QED
    BY <1>1, <2>2, Revisions DEF ReplayWork, Grows
<1>5. QED
  BY <1>2, <1>3, <1>4 DEF ReplayWork

-----------------------------------------------------------------------------
(* The steps of a writer                                                   *)

LEMMA Rooted ==
  ASSUME NEW r \in SUBSET Facts PROVE r # NotAcked /\ r # Zeros
  BY MigrationAssumption DEF Facts

(* What a step of a writer may do to the ledger.                           *)
Sound ==
  /\ LedgerGrows
  /\ \A f \in (v2 \cup dropped)' : f \in Accepted /\ about[f] \in Trades

LEMMA SoundStays ==
  ASSUME HandoffInv, UNCHANGED <<about, ledger>> PROVE Sound
  BY DEF HandoffInv, TypeOK, Sound, LedgerGrows, ledger, v2

(* The marks and ACKs on file stay good.                                   *)
LEMMA ProofStays ==
  ASSUME HandoffInv, Sound, UNCHANGED <<last, projected, ack>>,
         Flipped => Flipped'
  PROVE  AckedInOrder' /\ AckProvesProjection'
<1>1. /\ about' = about /\ file \subseteq file' /\ dropped \subseteq dropped'
      /\ v2 \cup dropped \subseteq (v2 \cup dropped)'
  BY DEF Sound, LedgerGrows
<1>2. ASSUME NEW S, NEW T, S \subseteq T, NEW f, ClosedIn(S, f)
      PROVE  \E g \in T : about'[g] = about'[f]
  BY <1>1, <1>2 DEF ClosedIn
<1>3. \A f \in projected' : ClosedIn(v2 \cup dropped, f)'
  BY <1>1, <1>2 DEF HandoffInv, AckProvesProjection, ClosedIn
<1>4. ASSUME NEW f \in Facts, Tokened(f)'
      PROVE  ClosedIn(ack[f] \cup dropped, f)' /\ ack'[f] \subseteq file'
  <2>1. ack' = ack /\ Tokened(f)
    BY <1>4 DEF Tokened
  <2>2. ClosedIn(ack[f] \cup dropped, f) /\ ack[f] \subseteq file
    BY <2>1 DEF HandoffInv, AckProvesProjection
  <2>3. PICK g \in ack[f] \cup dropped : about[g] = about[f]
    BY <2>2 DEF ClosedIn
  <2>4. g \in ack[f] \cup dropped' /\ about'[g] = about'[f]
    BY <1>1, <2>3
  <2>5. QED
    BY <1>1, <2>1, <2>2, <2>4 DEF ClosedIn
<1>5. \A f \in Facts : ack'[f] = Zeros => Flipped'
  BY DEF HandoffInv, AckProvesProjection
<1>6. AckedInOrder'
  BY DEF HandoffInv, AckedInOrder, Accepted
<1>7. QED
  BY <1>3, <1>4, <1>5, <1>6 DEF AckProvesProjection

(* A move of one writer that touches the ledger at most.                   *)
LEMMA WriterMove ==
  ASSUME HandoffInv, NEW w \in Writers, NEW p \in Calm \cup Busy,
         NEW f \in Facts \cup {0}, NEW r \in SUBSET Facts, NEW s \in BOOLEAN,
         SetWriter(w, p, f, r, s), Work(w)', Sound,
         UNCHANGED <<last, projected, ack, fence, registry, operator>>,
         lease' \in BOOLEAN, faults' \in 0..MaxFaults
  PROVE  HandoffInv'
<1> USE DEF registry
<1>1. Grows
  BY Revisions DEF HandoffInv, Sound, Grows, Flipped
<1>2. TypeOK'
  <2>1. writer' \in [Writers -> [pc: Calm \cup Busy, fact: Facts \cup {0},
                                root: SUBSET Facts, session: BOOLEAN]]
    BY DEF HandoffInv, TypeOK, SetWriter
  <2>2. about' = about /\ about \in Inboxes
        /\ \A g \in (v2 \cup dropped)' : g \in Accepted' /\ about'[g] \in Trades
    BY DEF HandoffInv, TypeOK, Sound, LedgerGrows, Accepted
  <2>3. QED
    BY <2>1, <2>2 DEF HandoffInv, TypeOK, Accepted, Tokened
<1>3. AckedIsAccepted'
  BY DEF HandoffInv, AckedIsAccepted, Accepted
<1>4. \A x \in Writers : Work(x)'
  <2> SUFFICES ASSUME NEW x \in Writers, x # w PROVE Work(x)'
    OBVIOUS
  <2>1. writer'[x] = writer[x]
    BY DEF HandoffInv, TypeOK, SetWriter
  <2>2. QED
    BY <1>1, <2>1, WorkStays DEF HandoffInv
<1>5. ReplayWork'
  BY <1>1, ReplayStays DEF HandoffInv
<1>6. AckedInOrder' /\ AckProvesProjection'
  BY ProofStays DEF Flipped
<1>7. QED
  BY <1>2, <1>3, <1>4, <1>5, <1>6 DEF HandoffInv

LEMMA CalmMove ==
  ASSUME HandoffInv, NEW w \in Writers, NEW p \in Calm,
         NEW f \in Facts \cup {0}, NEW r \in SUBSET Facts, NEW s \in BOOLEAN,
         SetWriter(w, p, f, r, s),
         UNCHANGED <<about, last, projected, ack, fence, ledger, registry,
                     operator>>,
         lease' \in BOOLEAN, faults' \in 0..MaxFaults
  PROVE  HandoffInv'
<1>1. p \in Calm \cup Busy
  OBVIOUS
<1>2. writer'[w].pc = p
  BY DEF HandoffInv, TypeOK, SetWriter
<1>3. Work(w)'
  BY <1>2 DEF Work, Calm, Busy
<1>4. Sound
  BY SoundStays
<1>5. QED
  BY <1>1, <1>3, <1>4, WriterMove DEF ledger

LEMMA Quiet ==
  ASSUME HandoffInv, NEW w \in Writers,
         Leave(w) \/ Stop(w) \/ (\E p \in Calm : Goto(w, p)),
         UNCHANGED <<about, last, projected, ack, fence, ledger, registry,
                     operator>>,
         lease' \in BOOLEAN, faults' \in 0..MaxFaults
  PROVE  HandoffInv'
<1>1. /\ writer[w].fact \in Facts \cup {0} /\ writer[w].root \in SUBSET Facts
      /\ writer[w].session \in BOOLEAN
  BY DEF HandoffInv, TypeOK
<1>2. CASE \E p \in Calm : Goto(w, p)
  BY <1>1, <1>2, CalmMove DEF Goto
<1>3. CASE Leave(w)
  BY <1>2, <1>3 DEF Leave, Calm
<1>4. CASE Stop(w)
  BY <1>4, CalmMove DEF Stop, Calm
<1>5. QED
  BY <1>2, <1>3, <1>4

(* A busy writer's fact is in the inbox.                                   *)
LEMMA BusyFact ==
  ASSUME HandoffInv, NEW w \in Writers, writer[w].pc \in Busy
  PROVE  /\ writer[w].fact \in Accepted /\ writer[w].fact \in Facts
         /\ Settled(writer[w].fact)
         /\ writer[w].root \in SUBSET Facts /\ writer[w].session \in BOOLEAN
  BY Revisions DEF HandoffInv, Work, TypeOK

LEMMA TakeStep ==
  ASSUME HandoffInv, NEW w \in Writers, Take(w) PROVE HandoffInv'
<1>1. UNCHANGED <<about, last, projected, ack, lease, fence, ledger, registry,
                  operator, faults>>
  BY DEF Take, store, registry
<1>2. lease' \in BOOLEAN /\ faults' \in 0..MaxFaults
  BY <1>1 DEF HandoffInv, TypeOK
<1>3. CASE Pending = {}
  BY <1>1, <1>2, <1>3, Quiet DEF Take
<1>4. CASE Pending # {}
  <2>0. PICK f : f = Oldest(Pending)
    OBVIOUS
  <2>1. Pending \subseteq Nat
    BY Revisions DEF HandoffInv, Pending
  <2>2. f \in Pending /\ \A g \in Pending : f <= g
    BY <1>4, <2>0, <2>1, MinOf DEF Oldest
  <2>3. f \in Accepted /\ f \in Facts
    BY <2>2, Revisions DEF HandoffInv, Pending
  <2>4. Settled(f)
    BY <2>2, <2>3, Revisions DEF HandoffInv, Pending, Settled
  <2>5. SetWriter(w, "took", f, {}, writer[w].session)
    BY <1>4, <2>0 DEF Take
  <2>6. writer[w].session \in BOOLEAN /\ "took" \in Calm \cup Busy
    BY DEF HandoffInv, TypeOK, Busy
  <2>7. writer'[w].pc = "took" /\ writer'[w].fact = f
    BY <2>5 DEF HandoffInv, TypeOK, SetWriter
  <2>8. f \in Accepted' /\ Settled(f)'
    BY <1>1, <2>3, <2>4 DEF Accepted, Settled
  <2>9. Work(w)'
    BY <2>7, <2>8 DEF Work
  <2>10. Sound
    BY <1>1, SoundStays DEF store
  <2>11. QED
    BY <1>1, <1>2, <2>3, <2>5, <2>6, <2>9, <2>10, WriterMove
<1>5. QED
  BY <1>3, <1>4

(* A step of a busy writer to another busy step on the same fact f.        *)
LEMMA BusyMove ==
  ASSUME HandoffInv, NEW w \in Writers, writer[w].pc \in Busy,
         NEW f, f = writer[w].fact, NEW p \in Busy, NEW r \in SUBSET Facts,
         SetWriter(w, p, f, r, writer[w].session), Sound,
         UNCHANGED <<last, projected, ack, lease, fence, registry, operator>>,
         faults' \in 0..MaxFaults,
         p \in {"projected", "marked", "checkpointed"} =>
           ClosedIn(v2 \cup dropped, f)',
         p = "unlinked" => ClosedIn(file \cup dropped, f)',
         p = "captured" => ClosedIn(r \cup dropped, f)' /\ r \subseteq file'
  PROVE  HandoffInv'
<1>1. f \in Accepted /\ f \in Facts /\ Settled(f) /\ writer[w].session \in BOOLEAN
  BY BusyFact
<1>2. /\ writer'[w].pc = p /\ writer'[w].fact = f /\ writer'[w].root = r
  BY DEF HandoffInv, TypeOK, SetWriter
<1>3. f \in Accepted' /\ Settled(f)'
  BY <1>1 DEF Accepted, Settled
<1>4. Work(w)'
  BY <1>2, <1>3 DEF Work, ClosedIn
<1>5. lease' \in BOOLEAN /\ p \in Calm \cup Busy /\ f \in Facts \cup {0}
  BY <1>1 DEF HandoffInv, TypeOK
<1>6. QED
  BY <1>1, <1>4, <1>5, WriterMove

LEMMA ProjectStep ==
  ASSUME HandoffInv, NEW w \in Writers, Project(w) PROVE HandoffInv'
<1>0. PICK f : f = writer[w].fact
  OBVIOUS
<1>1. UNCHANGED <<about, last, projected, ack, lease, fence, file, dropped,
                  registry, operator, faults>>
  BY DEF Project, store, registry
<1>2. lease' \in BOOLEAN /\ faults' \in 0..MaxFaults
  BY <1>1 DEF HandoffInv, TypeOK
<1>3. CASE ~HasProjector(f)
  <2>1. UNCHANGED <<about, ledger>> /\ Leave(w)
    BY <1>0, <1>1, <1>3 DEF Project, ledger
  <2>2. QED
    BY <1>1, <1>2, <2>1, Quiet
<1>4. CASE HasProjector(f)
  <2>1. f \in Accepted /\ writer[w].pc \in Busy
    BY <1>0, BusyFact DEF Project, Busy
  <2>2. Goto(w, "projected") /\ "projected" \in Busy
    BY <1>0, <1>4 DEF Project, Busy
  <2>3. wal' = IF AlreadyClosed(f) THEN wal ELSE wal \cup {f}
    BY <1>0, <1>4 DEF Project
  <2>4. Sound
    BY <1>1, <1>4, <2>1, <2>3 DEF HandoffInv, TypeOK, Sound, LedgerGrows, v2,
       HasProjector
  <2>5. ClosedIn(v2 \cup dropped, f)'
    <3>1. \E g \in v2' : about[g] = about[f]
      BY <1>1, <2>3 DEF AlreadyClosed, ClosedIn, v2
    <3>2. QED
      BY <1>1, <3>1 DEF ClosedIn
  <2>6. writer[w].root \in SUBSET Facts
        /\ SetWriter(w, "projected", f, writer[w].root, writer[w].session)
    BY <1>0, <2>1, <2>2, BusyFact DEF Goto
  <2>7. QED
    BY <1>0, <1>1, <1>2, <2>1, <2>2, <2>4, <2>5, <2>6, BusyMove
<1>5. QED
  BY <1>3, <1>4

LEMMA MarkStep ==
  ASSUME HandoffInv, NEW w \in Writers, MarkProjected(w) PROVE HandoffInv'
<1> DEFINE f == writer[w].fact
<1>1. UNCHANGED <<about, last, ack, lease, fence, ledger, registry, operator,
                  faults>>
  BY DEF MarkProjected, registry
<1>2. f \in Accepted /\ Settled(f)
  BY BusyFact DEF MarkProjected, Busy
<1>3. ClosedIn(v2 \cup dropped, f)
  BY DEF HandoffInv, Work, MarkProjected
<1>4. projected' = projected \cup {f} /\ Goto(w, "marked")
  BY DEF MarkProjected
<1>5. Grows
  BY <1>1, Revisions DEF HandoffInv, Grows, LedgerGrows, Flipped, registry,
     ledger, v2
<1>6. /\ writer' \in [Writers -> [pc: Calm \cup Busy, fact: Facts \cup {0},
                                  root: SUBSET Facts, session: BOOLEAN]]
      /\ writer'[w].pc = "marked" /\ writer'[w].fact = f
      /\ \A x \in Writers : x # w => writer'[x] = writer[x]
  BY <1>4 DEF HandoffInv, TypeOK, Goto, SetWriter, Busy
<1>7. TypeOK'
  BY <1>1, <1>2, <1>4, <1>6 DEF HandoffInv, TypeOK, Accepted, Tokened, registry,
     ledger, v2
<1>8. AckedIsAccepted' /\ AckProvesProjection' /\ AckedInOrder'
  BY <1>1, <1>3, <1>4 DEF HandoffInv, AckedIsAccepted, AckProvesProjection,
     AckedInOrder, Accepted, Tokened, Flipped, registry, ledger, v2, ClosedIn
<1>9. Work(w)'
  <2>1. writer'[w].fact \in Accepted' /\ Settled(writer[w].fact)'
    BY <1>2, <1>5, <1>6, SettledStays DEF HandoffInv
  <2>2. ClosedIn(v2 \cup dropped, writer[w].fact)'
    BY <1>1, <1>3, <1>6 DEF ClosedIn, ledger, v2
  <2>3. QED
    BY <1>6, <2>1, <2>2 DEF Work
<1>10. \A x \in Writers : Work(x)'
  BY <1>5, <1>6, <1>9, WorkStays DEF HandoffInv
<1>11. ReplayWork'
  BY <1>1, <1>5, ReplayStays DEF HandoffInv
<1>12. QED
  BY <1>7, <1>8, <1>10, <1>11 DEF HandoffInv

LEMMA CheckpointStep ==
  ASSUME HandoffInv, NEW w \in Writers, Checkpoint(w) \/ CheckpointBlocked(w)
  PROVE  HandoffInv'
<1>0. PICK f : f = writer[w].fact
  OBVIOUS
<1>1. /\ UNCHANGED <<about, last, projected, ack, lease, fence, dropped,
                     registry, operator>>
      /\ faults' = faults \/ (faults < MaxFaults /\ faults' = faults + 1)
      /\ writer[w].pc = "marked" /\ Goto(w, "checkpointed")
      /\ (file' = v2 /\ wal' = {}) \/ UNCHANGED ledger
  BY DEF Checkpoint, CheckpointBlocked, store, registry, ledger
<1>2. faults' \in 0..MaxFaults
  BY <1>1, MigrationAssumption DEF HandoffInv, TypeOK
<1>3. writer[w].pc \in Busy /\ "checkpointed" \in Busy
  BY <1>1 DEF Busy
<1>4. writer[w].root \in SUBSET Facts
      /\ SetWriter(w, "checkpointed", f, writer[w].root, writer[w].session)
  BY <1>0, <1>1, <1>3, BusyFact DEF Goto
<1>5. v2' = v2 /\ file \subseteq file'
  BY <1>1 DEF ledger, v2
<1>6. Sound
  BY <1>1, <1>5 DEF HandoffInv, TypeOK, Sound, LedgerGrows
<1>7. ClosedIn(v2 \cup dropped, f)
  BY <1>0, <1>1 DEF HandoffInv, Work
<1>8. ClosedIn(v2 \cup dropped, f)'
  BY <1>1, <1>5, <1>7 DEF ClosedIn
<1>9. QED
  BY <1>0, <1>1, <1>2, <1>3, <1>4, <1>6, <1>8, BusyMove

LEMMA UnlinkStep ==
  ASSUME HandoffInv, NEW w \in Writers, UnlinkWal(w) PROVE HandoffInv'
<1>0. PICK f : f = writer[w].fact
  OBVIOUS
<1>1. /\ UNCHANGED <<about, last, projected, ack, lease, fence, file,
                     registry, operator, faults>>
      /\ writer[w].pc = "checkpointed" /\ Goto(w, "unlinked")
      /\ wal' = {} /\ dropped' = dropped \cup wal
  BY DEF UnlinkWal, store, registry
<1>2. faults' \in 0..MaxFaults
  BY <1>1 DEF HandoffInv, TypeOK
<1>3. writer[w].pc \in Busy /\ "unlinked" \in Busy
  BY <1>1 DEF Busy
<1>4. writer[w].root \in SUBSET Facts
      /\ SetWriter(w, "unlinked", f, writer[w].root, writer[w].session)
  BY <1>0, <1>1, <1>3, BusyFact DEF Goto
<1>5. /\ (file \cup dropped)' = v2 \cup dropped
      /\ (v2 \cup dropped)' = v2 \cup dropped
  BY <1>1 DEF v2
<1>6. Sound
  BY <1>1, <1>5 DEF HandoffInv, TypeOK, Sound, LedgerGrows
<1>7. ClosedIn(v2 \cup dropped, f)
  BY <1>0, <1>1 DEF HandoffInv, Work
<1>8. ClosedIn(file \cup dropped, f)'
  BY <1>1, <1>5, <1>7 DEF ClosedIn
<1>9. QED
  BY <1>0, <1>1, <1>2, <1>3, <1>4, <1>6, <1>8, BusyMove

LEMMA ReadStep ==
  ASSUME HandoffInv, NEW w \in Writers, ReadInventory(w) PROVE HandoffInv'
<1>0. PICK f, r : f = writer[w].fact /\ r = file
  OBVIOUS
<1>1. /\ UNCHANGED <<about, last, projected, ack, lease, fence, ledger,
                     registry, operator, faults>>
      /\ writer[w].pc = "unlinked"
      /\ SetWriter(w, "captured", f, r, writer[w].session)
  BY <1>0 DEF ReadInventory, store, registry
<1>2. faults' \in 0..MaxFaults
  BY <1>1 DEF HandoffInv, TypeOK
<1>3. writer[w].pc \in Busy /\ "captured" \in Busy
  BY <1>1 DEF Busy
<1>4. r \in SUBSET Facts
  BY <1>0, Revisions DEF HandoffInv, TypeOK, v2
<1>5. Sound
  BY <1>1, SoundStays
<1>6. ClosedIn(file \cup dropped, f)
  BY <1>0, <1>1 DEF HandoffInv, Work
<1>7. ClosedIn(r \cup dropped, f)' /\ r \subseteq file'
  BY <1>0, <1>1, <1>6 DEF ClosedIn, ledger
<1>8. QED
  BY <1>0, <1>1, <1>2, <1>3, <1>4, <1>5, <1>7, BusyMove

(* An ACK that is accepted, on a fact with no older one outstanding.       *)
LEMMA AckSet ==
  ASSUME HandoffInv, NEW f \in Accepted, Settled(f), NEW r, AckAccepts(f, r),
         (r = Zeros /\ Flipped) \/ (/\ r \in SUBSET Facts /\ r \subseteq file
                                   /\ ClosedIn(r \cup dropped, f)),
         ack' = [ack EXCEPT ![f] = r],
         UNCHANGED <<about, last, projected, ledger, registry>>
  PROVE  /\ Grows
         /\ ack' = [g \in Facts |-> ack'[g]] /\ ack'[f] # NotAcked
         /\ \A g \in Facts : Tokened(g)' => ack'[g] \subseteq Facts
         /\ AckedIsAccepted' /\ AckProvesProjection' /\ AckedInOrder'
<1>1. f \in Facts /\ r # NotAcked
  BY Revisions, Rooted, MigrationAssumption DEF HandoffInv
<1>2. ack'[f] = r /\ \A g \in Facts : g # f => ack'[g] = ack[g]
  BY <1>1 DEF HandoffInv, TypeOK
<1>3. \A g \in Facts : ack[g] # NotAcked => ack'[g] = ack[g]
  BY <1>1, <1>2 DEF AckAccepts
<1>4. Grows
  BY <1>3, Revisions DEF HandoffInv, Grows, LedgerGrows, Flipped, registry,
     ledger, v2
<1>5. ack' = [g \in Facts |-> ack'[g]]
  BY <1>1 DEF HandoffInv, TypeOK
<1>6. \A g \in Facts : Tokened(g)' => ack'[g] \subseteq Facts
  BY <1>1, <1>2 DEF HandoffInv, TypeOK, Tokened
<1>7. AckedIsAccepted'
  <2>1. ASSUME NEW g \in Facts, ack'[g] # NotAcked PROVE g \in Accepted'
    <3>1. g = f \/ ack[g] # NotAcked
      BY <1>2, <2>1
    <3>2. g \in Accepted
      BY <3>1 DEF HandoffInv, AckedIsAccepted
    <3>3. QED
      BY <3>2 DEF Accepted
  <2>2. ASSUME NEW g \in replayed PROVE ack'[g] # NotAcked
    <3>1. g \in Facts /\ ack[g] # NotAcked
      BY Revisions DEF HandoffInv, AckedIsAccepted, TypeOK
    <3>2. QED
      BY <1>3, <3>1
  <2>3. replayed' = replayed
    BY DEF registry
  <2>4. QED
    BY <2>1, <2>2, <2>3 DEF AckedIsAccepted
<1>8. AckProvesProjection'
  <2>0. UNCHANGED <<about, file, wal, dropped, projected, authority>>
    BY DEF ledger, registry
  <2>1. Tokened(f)' => ClosedIn(ack[f] \cup dropped, f)' /\ ack'[f] \subseteq file'
    BY <1>2, <2>0 DEF Tokened, ClosedIn
  <2>2. ack'[f] = Zeros => Flipped'
    BY <1>2, <2>0, Rooted DEF Flipped
  <2>3. ASSUME NEW g \in Facts, g # f
        PROVE  /\ Tokened(g)' => ClosedIn(ack[g] \cup dropped, g)' /\ ack'[g] \subseteq file'
               /\ ack'[g] = Zeros => Flipped'
    BY <1>2, <2>0, <2>3 DEF HandoffInv, AckProvesProjection, Tokened, ClosedIn,
       Flipped
  <2>4. \A g \in projected' : ClosedIn(v2 \cup dropped, g)'
    BY <2>0 DEF HandoffInv, AckProvesProjection, ClosedIn, v2
  <2>5. QED
    BY <2>1, <2>2, <2>3, <2>4 DEF AckProvesProjection
<1>9. AckedInOrder'
  <2> SUFFICES ASSUME NEW h \in Accepted, NEW g \in Accepted, h < g,
                      ack'[g] # NotAcked
               PROVE  ack'[h] # NotAcked
    BY DEF AckedInOrder, Accepted
  <2>1. h \in Facts /\ g \in Facts
    BY Revisions DEF HandoffInv
  <2>2. CASE g = f
    BY <1>1, <1>2, <2>1, <2>2 DEF Settled
  <2>3. CASE g # f
    BY <1>2, <1>3, <2>1, <2>3 DEF HandoffInv, AckedInOrder
  <2>4. QED
    BY <2>2, <2>3
<1>10. QED
  BY <1>1, <1>2, <1>4, <1>5, <1>6, <1>7, <1>8, <1>9

LEMMA AcknowledgeStep ==
  ASSUME HandoffInv, NEW w \in Writers, Acknowledge(w) PROVE HandoffInv'
<1>1. PICK f, r : f = writer[w].fact /\ r = writer[w].root
  OBVIOUS
<1>2. UNCHANGED <<about, last, projected, lease, fence, ledger, registry,
                  operator, faults>>
  BY DEF Acknowledge, registry
<1>3. lease' \in BOOLEAN /\ faults' \in 0..MaxFaults /\ Leave(w)
  BY <1>2 DEF HandoffInv, TypeOK, Acknowledge
<1>4. CASE ~AckAccepts(f, r)
  BY <1>1, <1>2, <1>3, <1>4, Quiet DEF Acknowledge
<1>5. CASE AckAccepts(f, r)
  <2>1. f \in Accepted /\ Settled(f) /\ r \in SUBSET Facts
    BY <1>1, BusyFact DEF Acknowledge, Busy
  <2>2. ClosedIn(r \cup dropped, f) /\ r \subseteq file
    BY <1>1 DEF HandoffInv, Work, Acknowledge
  <2>3. ack' = [ack EXCEPT ![f] = r]
    BY <1>1, <1>5 DEF Acknowledge
  <2>4. /\ Grows /\ ack' = [g \in Facts |-> ack'[g]]
        /\ \A g \in Facts : Tokened(g)' => ack'[g] \subseteq Facts
        /\ AckedIsAccepted' /\ AckProvesProjection' /\ AckedInOrder'
    BY <1>2, <1>5, <2>1, <2>2, <2>3, AckSet
  <2>5. /\ writer' \in [Writers -> [pc: Calm \cup Busy, fact: Facts \cup {0},
                                    root: SUBSET Facts, session: BOOLEAN]]
        /\ writer'[w].pc \in Calm
        /\ \A x \in Writers : x # w => writer'[x] = writer[x]
    BY <1>3 DEF HandoffInv, TypeOK, Leave, Goto, SetWriter, Calm
  <2>6. TypeOK'
    BY <1>2, <2>4, <2>5, SameLedger DEF HandoffInv, TypeOK, Accepted, registry
  <2>7. Work(w)'
    BY <2>5 DEF Work, Calm, Busy
  <2>8. \A x \in Writers : Work(x)'
    BY <2>4, <2>5, <2>7, WorkStays DEF HandoffInv
  <2>9. ReplayWork'
    BY <1>2, <2>4, ReplayStays DEF HandoffInv
  <2>10. QED
    BY <2>4, <2>6, <2>8, <2>9 DEF HandoffInv
<1>6. QED
  BY <1>4, <1>5

LEMMA WriterStepKeeps ==
  ASSUME HandoffInv, NEW w \in Writers, WriterStep(w) PROVE HandoffInv'
<1>1. faults \in 0..MaxFaults /\ lease \in BOOLEAN /\ MaxFaults \in Nat
  BY MigrationAssumption DEF HandoffInv, TypeOK
<1>2. ASSUME NEW s \in BOOLEAN, Check(w, s) PROVE HandoffInv'
  <2>1. SetWriter(w, "checked", 0, {}, s) /\ "checked" \in Calm
    BY <1>2 DEF Check, Calm
  <2>2. /\ UNCHANGED <<about, last, projected, ack, fence, ledger, registry,
                       operator>>
        /\ lease' \in BOOLEAN /\ faults' \in 0..MaxFaults
    BY <1>1, <1>2 DEF Check, store, registry
  <2>3. QED
    BY <2>1, <2>2, CalmMove
<1>3. CASE Acquire(w)
  BY <1>1, <1>3, Quiet DEF Acquire, registry, Calm
<1>4. CASE ApplyInSession(w)
  BY <1>1, <1>4, Quiet DEF ApplyInSession, store, registry, Calm
<1>5. CASE CloseSession(w)
  BY <1>1, <1>5, Quiet DEF CloseSession, store, registry, Calm
<1>6. CASE Release(w)
  BY <1>1, <1>6, Quiet DEF Release, registry
<1>7. CASE StoreError(w)
  BY <1>1, <1>7, Quiet DEF StoreError, store, registry
<1>8. CASE CrashWriter(w)
  BY <1>1, <1>8, Quiet DEF CrashWriter, store, registry
<1>9. QED
  BY <1>2, <1>3, <1>4, <1>5, <1>6, <1>7, <1>8, TakeStep, ProjectStep, MarkStep,
     CheckpointStep, UnlinkStep, ReadStep, AcknowledgeStep DEF WriterStep


-----------------------------------------------------------------------------
(* The steps of the inbox and of the operator                              *)

LEMMA InitInv == Init => HandoffInv
<1> SUFFICES ASSUME Init PROVE HandoffInv
  OBVIOUS
<1>1. TypeOK
  <2>1. writer \in [Writers -> [pc: Calm \cup Busy, fact: Facts \cup {0},
                               root: SUBSET Facts, session: BOOLEAN]]
    BY DEF Init, Idle, Calm
  <2>2. operator \in [pc: OperatorPc, queue: SUBSET Accepted,
                      seen: SUBSET Accepted]
    BY DEF Init, Resting, OperatorPc
  <2>3. ack = [f \in Facts |-> ack[f]] /\ \A f \in Facts : ~Tokened(f)
    BY DEF Init, Tokened
  <2>4. last \in 0..MaxRevision /\ faults \in 0..MaxFaults
    BY MigrationAssumption DEF Init
  <2>5. QED
    BY <2>1, <2>2, <2>3, <2>4 DEF Init, TypeOK, v2
<1>2. AckedIsAccepted /\ AckProvesProjection /\ AckedInOrder
  BY MigrationAssumption DEF Init, AckedIsAccepted, AckProvesProjection,
     AckedInOrder, Accepted, Tokened
<1>3. (\A w \in Writers : Work(w)) /\ ReplayWork
  BY DEF Init, Work, ReplayWork, Idle, Resting, Busy
<1>4. QED
  BY <1>1, <1>2, <1>3 DEF HandoffInv

LEMMA AppendStep ==
  ASSUME HandoffInv, AppendFact PROVE HandoffInv'
<1>1. /\ UNCHANGED <<about, projected, ack, lease, fence, ledger, registry,
                     writer, operator, faults>>
      /\ last' = last + 1 /\ last < MaxRevision
  BY DEF AppendFact
<1>2. Accepted \subseteq Accepted' /\ Accepted' \subseteq Accepted \cup {last + 1}
  BY <1>1, Revisions DEF HandoffInv, Accepted
<1>3. Grows
  BY <1>1, Revisions, SameLedger DEF HandoffInv, Grows, Flipped, registry
<1>4. last' \in 0..MaxRevision
  BY <1>1, Revisions DEF HandoffInv, TypeOK
<1>5. TypeOK'
  BY <1>1, <1>2, <1>4, SameLedger DEF HandoffInv, TypeOK, Tokened, registry
<1>6. AckedIsAccepted' /\ AckProvesProjection'
  BY <1>1, <1>2, SameLedger DEF HandoffInv, AckedIsAccepted,
     AckProvesProjection, Tokened, ClosedIn, Flipped, registry
<1>7. AckedInOrder'
  <2> SUFFICES ASSUME NEW f \in Accepted', NEW g \in Accepted', f < g,
                      ack[g] # NotAcked
               PROVE  ack[f] # NotAcked
    BY <1>1 DEF AckedInOrder
  <2>1. g \in Facts
    BY <1>4, Revisions DEF HandoffInv, Accepted, Facts
  <2>2. g \in Accepted
    BY <2>1 DEF HandoffInv, AckedIsAccepted
  <2>3. f \in Accepted
    BY <2>2, <1>1, Revisions DEF HandoffInv, Accepted
  <2>4. QED
    BY <2>2, <2>3 DEF HandoffInv, AckedInOrder
<1>8. \A w \in Writers : Work(w)'
  BY <1>1, <1>3, WorkStays DEF HandoffInv
<1>9. ReplayWork'
  BY <1>1, <1>3, ReplayStays DEF HandoffInv
<1>10. QED
  BY <1>5, <1>6, <1>7, <1>8, <1>9 DEF HandoffInv

(* A step of the operator outside the replay, or one that ends it.         *)
LEMMA OperatorMove ==
  ASSUME HandoffInv,
         UNCHANGED <<about, last, projected, ack, lease, ledger, replayed,
                     writer>>,
         fence' \in {NoFence, Holder, SourceWriter}, bound' \in BOOLEAN,
         authority' \in {"V2_ACTIVE", "FLIPPED", "RECONCILED"},
         Flipped => Flipped', faults' \in 0..MaxFaults,
         operator' \in [pc: OperatorPc, queue: SUBSET Accepted,
                        seen: SUBSET Accepted],
         operator' = operator \/ operator'.pc \notin {"replaying", "acked"}
  PROVE  HandoffInv'
<1>1. Grows
  BY Revisions, SameLedger DEF HandoffInv, Grows
<1>2. TypeOK'
  BY SameLedger DEF HandoffInv, TypeOK, Accepted, Tokened
<1>3. AckedIsAccepted' /\ AckProvesProjection' /\ AckedInOrder'
  BY SameLedger DEF HandoffInv, AckedIsAccepted, AckProvesProjection,
     AckedInOrder, Accepted, Tokened, ClosedIn
<1>4. \A w \in Writers : Work(w)'
  BY <1>1, WorkStays DEF HandoffInv
<1>5. ReplayWork'
  <2>1. CASE operator' = operator
    BY <1>1, <2>1, ReplayStays DEF HandoffInv
  <2>2. CASE operator'.pc \notin {"replaying", "acked"}
    BY <2>2 DEF ReplayWork
  <2>3. QED
    BY <2>1, <2>2
<1>6. QED
  BY <1>2, <1>3, <1>4, <1>5 DEF HandoffInv

(* The revisions the replay holds.                                         *)
LEMMA QueueHead ==
  ASSUME HandoffInv, operator.pc \in {"replaying", "acked"}
  PROVE  /\ Min(operator.queue) \in operator.queue
         /\ \A g \in operator.queue : Min(operator.queue) <= g
         /\ operator.queue \subseteq Accepted /\ operator.seen \subseteq Accepted
         /\ Flipped
<1>1. operator.queue \subseteq Accepted /\ operator.seen \subseteq Accepted
  BY DEF HandoffInv, TypeOK
<1>2. operator.queue \subseteq Nat /\ operator.queue # {} /\ Flipped
  BY <1>1, Revisions DEF HandoffInv, ReplayWork
<1>3. QED
  BY <1>1, <1>2, MinOf

LEMMA ReplayReadStep ==
  ASSUME HandoffInv, ReplayRead PROVE HandoffInv'
<1>1. UNCHANGED <<about, last, projected, ack, lease, fence, ledger,
                  authority, bound, replayed, writer, faults>>
  BY DEF ReplayRead, store, registry
<1>2. operator' = [pc |-> "replaying", queue |-> Unreplayed,
                   seen |-> Unreplayed \ Pending]
  BY DEF ReplayRead
<1>3. /\ operator'.pc = "replaying" /\ operator'.queue = Unreplayed
      /\ operator'.seen = Unreplayed \ Pending
  BY <1>2
<1>4. Flipped /\ Unreplayed # {} /\ Unreplayed \subseteq Accepted
  BY DEF ReplayRead, Unreplayed
<1>5. Grows
  BY <1>1, Revisions, SameLedger DEF HandoffInv, Grows, Flipped
<1>6. operator' \in [pc: OperatorPc, queue: SUBSET Accepted', seen: SUBSET Accepted']
  BY <1>1, <1>2, <1>4 DEF OperatorPc, Accepted
<1>7. TypeOK'
  BY <1>1, <1>6, SameLedger DEF HandoffInv, TypeOK, Accepted, Tokened
<1>8. AckedIsAccepted' /\ AckProvesProjection' /\ AckedInOrder'
  BY <1>1, SameLedger DEF HandoffInv, AckedIsAccepted, AckProvesProjection,
     AckedInOrder, Accepted, Tokened, Flipped, ClosedIn
<1>9. \A w \in Writers : Work(w)'
  BY <1>1, <1>5, WorkStays DEF HandoffInv
<1>10. ReplayWork'
  <2>1. \A f \in Unreplayed \ Pending : ack[f] # NotAcked
    BY DEF Unreplayed, Pending
  <2>2. \A f \in Accepted : f \in Unreplayed \/ ack[f] # NotAcked
    BY DEF HandoffInv, AckedIsAccepted, Unreplayed
  <2>3. Flipped' /\ ack' = ack /\ Accepted' = Accepted
    BY <1>1, <1>4 DEF Flipped, Accepted
  <2>4. QED
    BY <1>3, <1>4, <2>1, <2>2, <2>3 DEF ReplayWork
<1>11. QED
  BY <1>7, <1>8, <1>9, <1>10 DEF HandoffInv

LEMMA ReplayAckStep ==
  ASSUME HandoffInv, ReplayAck PROVE HandoffInv'
<1>0. PICK f : f = Min(operator.queue)
  OBVIOUS
<1>1. /\ UNCHANGED <<about, last, projected, lease, fence, ledger, authority,
                     bound, replayed, writer, faults>>
      /\ operator.pc = "replaying"
  BY DEF ReplayAck, registry
<1>2. /\ f \in operator.queue /\ \A g \in operator.queue : f <= g
      /\ operator.queue \subseteq Accepted /\ operator.seen \subseteq Accepted
      /\ Flipped
  BY <1>0, <1>1, QueueHead
<1>3. f \in Accepted /\ f \in Facts
  BY <1>2, Revisions DEF HandoffInv
<1>4. Settled(f)
  <2> SUFFICES ASSUME NEW g \in Accepted, g < f PROVE ack[g] # NotAcked
    BY DEF Settled
  <2>1. g \in Nat /\ f \in Nat
    BY <1>3, Revisions DEF HandoffInv
  <2>2. g \notin operator.queue
    BY <1>2, <2>1
  <2>3. QED
    BY <1>1, <1>2, <2>2 DEF HandoffInv, ReplayWork
<1>5. CASE ack' = ack /\ operator' = Resting
  <2>1. operator' \in [pc: OperatorPc, queue: SUBSET Accepted, seen: SUBSET Accepted]
    BY <1>5 DEF Resting, OperatorPc
  <2>2. operator'.pc \notin {"replaying", "acked"}
    BY <1>5 DEF Resting
  <2>3. QED
    BY <1>1, <1>5, <2>1, <2>2, OperatorMove DEF HandoffInv, TypeOK, Flipped
<1>6. CASE /\ Step("acked")
           /\ \/ f \in operator.seen /\ ack' = ack
              \/ AckAccepts(f, Zeros) /\ ack' = [ack EXCEPT ![f] = Zeros]
  <2>1. /\ Grows /\ ack' = [g \in Facts |-> ack'[g]] /\ ack'[f] # NotAcked
        /\ \A g \in Facts : Tokened(g)' => ack'[g] \subseteq Facts
        /\ AckedIsAccepted' /\ AckProvesProjection' /\ AckedInOrder'
    <3>1. CASE f \in operator.seen /\ ack' = ack
      <4>1. Grows /\ ack'[f] # NotAcked
        BY <1>1, <3>1, Revisions, SameLedger
        DEF HandoffInv, Grows, Flipped, ReplayWork
      <4>2. ack' = [g \in Facts |-> ack'[g]]
        BY <3>1 DEF HandoffInv, TypeOK
      <4>3. \A g \in Facts : Tokened(g)' => ack'[g] \subseteq Facts
        BY <3>1 DEF HandoffInv, TypeOK, Tokened
      <4>4. AckedIsAccepted' /\ AckProvesProjection' /\ AckedInOrder'
        BY <1>1, <3>1, SameLedger
        DEF HandoffInv, AckedIsAccepted, AckProvesProjection, AckedInOrder,
            Accepted, Tokened, Flipped, ClosedIn
      <4>5. QED
        BY <4>1, <4>2, <4>3, <4>4
    <3>2. CASE AckAccepts(f, Zeros) /\ ack' = [ack EXCEPT ![f] = Zeros]
      BY <1>1, <1>2, <1>3, <1>4, <3>2, AckSet DEF registry
    <3>3. QED
      BY <1>6, <3>1, <3>2
  <2>2. /\ operator' \in [pc: OperatorPc, queue: SUBSET Accepted, seen: SUBSET Accepted]
        /\ operator'.pc = "acked" /\ operator'.queue = operator.queue
        /\ operator'.seen = operator.seen
    BY <1>2, <1>6 DEF Step, OperatorPc
  <2>3. TypeOK'
    BY <1>1, <2>1, <2>2, SameLedger DEF HandoffInv, TypeOK, Accepted
  <2>4. \A w \in Writers : Work(w)'
    BY <1>1, <2>1, WorkStays DEF HandoffInv
  <2>5. ReplayWork'
    <3>1. Flipped' /\ operator'.queue # {} /\ Accepted' = Accepted
      BY <1>1, <1>2, <2>2 DEF Flipped, Accepted
    <3>2. \A g \in operator.seen : ack'[g] # NotAcked
      BY <1>1, <1>2, <2>1, Revisions DEF HandoffInv, ReplayWork, Grows
    <3>3. ASSUME NEW g \in operator.queue, NEW h \in Accepted, h < g
          PROVE  h \in operator.queue \/ ack'[h] # NotAcked
      BY <1>1, <2>1, <3>3, Revisions DEF HandoffInv, ReplayWork, Grows
    <3>4. ack'[Min(operator'.queue)] # NotAcked
      BY <1>0, <2>1, <2>2
    <3>5. QED
      BY <2>2, <3>1, <3>2, <3>3, <3>4 DEF ReplayWork
  <2>6. QED
    BY <2>1, <2>3, <2>4, <2>5 DEF HandoffInv
<1>7. QED
  BY <1>0, <1>5, <1>6 DEF ReplayAck

LEMMA ReplayRecordStep ==
  ASSUME HandoffInv, ReplayRecord PROVE HandoffInv'
<1>0. PICK f, rest : f = Min(operator.queue) /\ rest = operator.queue \ {f}
  OBVIOUS
<1>1. /\ UNCHANGED <<about, last, projected, ack, lease, fence, ledger,
                     authority, bound, writer, faults>>
      /\ operator.pc = "acked"
  BY DEF ReplayRecord, store
<1>2. /\ f \in operator.queue /\ \A g \in operator.queue : f <= g
      /\ operator.queue \subseteq Accepted /\ operator.seen \subseteq Accepted
      /\ Flipped
  BY <1>0, <1>1, QueueHead
<1>3. ack[f] # NotAcked /\ f \in Accepted
  BY <1>0, <1>1, <1>2 DEF HandoffInv, ReplayWork
<1>4. /\ replayed' = replayed \cup {f}
      /\ operator' = IF rest = {} THEN Resting
                     ELSE [pc |-> "replaying", queue |-> rest, seen |-> operator.seen]
  BY <1>0 DEF ReplayRecord
<1>5. Grows
  BY <1>1, Revisions, SameLedger DEF HandoffInv, Grows, Flipped
<1>6. operator' \in [pc: OperatorPc, queue: SUBSET Accepted, seen: SUBSET Accepted]
  BY <1>0, <1>2, <1>4 DEF Resting, OperatorPc
<1>7. TypeOK'
  BY <1>1, <1>3, <1>4, <1>6, SameLedger
  DEF HandoffInv, TypeOK, Accepted, Tokened
<1>8. AckedIsAccepted' /\ AckProvesProjection' /\ AckedInOrder'
  BY <1>1, <1>3, <1>4, SameLedger
  DEF HandoffInv, AckedIsAccepted, AckProvesProjection, AckedInOrder, Accepted,
      Tokened, Flipped, ClosedIn
<1>9. \A w \in Writers : Work(w)'
  BY <1>1, <1>5, WorkStays DEF HandoffInv
<1>10. ReplayWork'
  <2>1. CASE rest = {}
    BY <1>4, <2>1 DEF ReplayWork, Resting
  <2>2. CASE rest # {}
    <3>1. /\ operator'.pc = "replaying" /\ operator'.queue = rest
          /\ operator'.seen = operator.seen
      BY <1>4, <2>2
    <3>2. Flipped' /\ ack' = ack /\ Accepted' = Accepted
      BY <1>1, <1>2 DEF Flipped, Accepted
    <3>3. \A g \in operator.seen : ack[g] # NotAcked
      BY <1>1 DEF HandoffInv, ReplayWork
    <3>4. ASSUME NEW g \in rest, NEW h \in Accepted, h < g
          PROVE  h \in rest \/ ack[h] # NotAcked
      BY <1>0, <1>1, <1>3, <3>4 DEF HandoffInv, ReplayWork
    <3>5. QED
      BY <2>2, <3>1, <3>2, <3>3, <3>4 DEF ReplayWork
  <2>3. QED
    BY <2>1, <2>2
<1>11. QED
  BY <1>7, <1>8, <1>9, <1>10 DEF HandoffInv

-----------------------------------------------------------------------------
(* The induction                                                           *)

LEMMA OperatorStepKeeps ==
  ASSUME HandoffInv,
         \/ BindPreimage \/ FlipCheckLease \/ FlipCheckAcks \/ FlipCommit
         \/ FenceSource \/ CompleteFinalReconciliation \/ CrashOperator
  PROVE  HandoffInv'
<1>1. /\ operator \in [pc: OperatorPc, queue: SUBSET Accepted, seen: SUBSET Accepted]
      /\ faults \in 0..MaxFaults /\ MaxFaults \in Nat /\ bound \in BOOLEAN
      /\ fence \in {NoFence, Holder, SourceWriter}
      /\ authority \in {"V2_ACTIVE", "FLIPPED", "RECONCILED"}
  BY MigrationAssumption DEF HandoffInv, TypeOK
<1>2. \A p \in {"idle", "leaseChecked", "ackChecked", "flipped"} : Step(p) =>
        /\ operator' \in [pc: OperatorPc, queue: SUBSET Accepted, seen: SUBSET Accepted]
        /\ operator'.pc \notin {"replaying", "acked"}
  BY <1>1 DEF Step, OperatorPc
<1>3. CASE BindPreimage
  BY <1>1, <1>3, OperatorMove DEF BindPreimage, store, Flipped
<1>4. CASE FlipCheckLease
  BY <1>1, <1>2, <1>4, OperatorMove DEF FlipCheckLease, store, registry, Flipped
<1>5. CASE FlipCheckAcks
  BY <1>1, <1>2, <1>5, OperatorMove DEF FlipCheckAcks, store, registry, Flipped
<1>6. CASE FlipCommit
  BY <1>1, <1>2, <1>6, OperatorMove DEF FlipCommit, store, Flipped
<1>7. CASE FenceSource
  BY <1>1, <1>2, <1>7, OperatorMove DEF FenceSource, registry, Flipped
<1>8. CASE CompleteFinalReconciliation
  BY <1>1, <1>8, OperatorMove DEF CompleteFinalReconciliation, store, Flipped
<1>9. CASE CrashOperator
  <2>1. /\ operator' \in [pc: OperatorPc, queue: SUBSET Accepted, seen: SUBSET Accepted]
        /\ operator'.pc \notin {"replaying", "acked"}
    BY <1>9 DEF CrashOperator, Resting, OperatorPc
  <2>2. faults' \in 0..MaxFaults
    BY <1>1, <1>9 DEF CrashOperator
  <2>3. QED
    BY <1>1, <1>9, <2>1, <2>2, OperatorMove DEF CrashOperator, store, registry, Flipped
<1>10. QED
  BY <1>3, <1>4, <1>5, <1>6, <1>7, <1>8, <1>9

LEMMA StepInv == HandoffInv /\ [Next]_vars => HandoffInv'
<1> SUFFICES ASSUME HandoffInv, [Next]_vars PROVE HandoffInv'
  OBVIOUS
<1>1. CASE AppendFact
  BY <1>1, AppendStep
<1>2. ASSUME NEW w \in Writers, WriterStep(w) PROVE HandoffInv'
  BY <1>2, WriterStepKeeps
<1>3. CASE ReplayRead
  BY <1>3, ReplayReadStep
<1>4. CASE ReplayAck
  BY <1>4, ReplayAckStep
<1>5. CASE ReplayRecord
  BY <1>5, ReplayRecordStep
<1>6. CASE \/ BindPreimage \/ FlipCheckLease \/ FlipCheckAcks \/ FlipCommit
           \/ FenceSource \/ CompleteFinalReconciliation \/ CrashOperator
  BY <1>6, OperatorStepKeeps
<1>7. CASE UNCHANGED vars
  <2>1. UNCHANGED <<about, last, projected, ack, lease, fence, file, wal,
                    dropped, authority, bound, replayed, writer, operator,
                    faults>>
    BY <1>7 DEF vars
  <2>2. TypeOK' /\ AckedIsAccepted' /\ AckProvesProjection' /\ AckedInOrder'
    BY <2>1 DEF HandoffInv, TypeOK, AckedIsAccepted, AckProvesProjection,
       AckedInOrder, Accepted, Tokened, Flipped, ClosedIn, v2
  <2>3. ReplayWork'
    BY <2>1 DEF HandoffInv, ReplayWork, Accepted, Flipped
  <2>4. \A w \in Writers : Work(w)'
    BY <2>1 DEF HandoffInv, Work, Settled, Accepted, ClosedIn, v2
  <2>5. QED
    BY <2>2, <2>3, <2>4 DEF HandoffInv
<1>8. QED
  BY <1>1, <1>2, <1>3, <1>4, <1>5, <1>6, <1>7 DEF Next, Replay

LEMMA Inductive == Spec => []HandoffInv
  BY InitInv, StepInv, PTL DEF Spec

(* Nothing but the parties' own calls ever stands in the stores: a queue   *)
(* of the replay, a fact in hand, a root and every mark is of an accepted  *)
(* revision.                                                               *)
THEOREM HandoffTypeOK == Spec => []TypeOK
  BY Inductive, PTL DEF HandoffInv

(* Whatever the interleaving of writers, replay and faults, a projected    *)
(* mark and a token prove that the trade of the fact was closed in v2, and *)
(* the only thing that can take it from there again is a capture that      *)
(* removes a log with a commit in it (compat_writer.py _capture_token); no *)
(* fact is zeroed before the flip (authority.py replay_inbox).             *)
THEOREM TokensProveProjection == Spec => []AckProvesProjection
  BY Inductive, PTL DEF HandoffInv

(* Facts are acknowledged in the order of acceptance, though the writer    *)
(* and the replay take them from readings of the inbox that are stale by   *)
(* the time they acknowledge.                                              *)
THEOREM TakenInOrder == Spec => []AckedInOrder
  BY Inductive, PTL DEF HandoffInv

(* The first root on file stays (inbox.py acknowledge).                    *)
THEOREM AcksAreFinal == Spec => AckIsFinal
<1>1. HandoffInv /\ [Next]_vars =>
        [\A f \in Facts : ack[f] # NotAcked => ack'[f] = ack[f]]_vars
  <2> SUFFICES ASSUME HandoffInv, Next, NEW f \in Facts, ack[f] # NotAcked
               PROVE  ack'[f] = ack[f]
    BY Zenon
  <2>1. ASSUME NEW g, NEW r, AckAccepts(g, r), ack' = [ack EXCEPT ![g] = r]
        PROVE  ack'[f] = ack[f]
    BY <2>1 DEF AckAccepts, HandoffInv, TypeOK
  <2>2. ASSUME NEW w \in Writers, Acknowledge(w) PROVE ack'[f] = ack[f]
    BY <2>1, <2>2 DEF Acknowledge
  <2>3. CASE ReplayAck
    BY <2>1, <2>3 DEF ReplayAck
  <2>4. CASE UNCHANGED ack
    BY <2>4
  <2>5. QED
    BY <2>2, <2>3, <2>4 DEF Next, WriterStep, Replay, AppendFact, Check,
       Acquire, ApplyInSession, CloseSession, Take, Project, MarkProjected,
       Checkpoint, CheckpointBlocked, UnlinkWal, ReadInventory, Release,
       StoreError, CrashWriter, BindPreimage, FlipCheckLease, FlipCheckAcks,
       FlipCommit, FenceSource, ReplayRead, ReplayRecord,
       CompleteFinalReconciliation, CrashOperator, store
<1>2. QED
  BY <1>1, Inductive, PTL DEF Spec, AckIsFinal

(* With one writer process, the log a capture removes is the one it has    *)
(* folded in, unless another connection has blocked the checkpoint.        *)
LoneInv(w) == dropped = {} /\ (writer[w].pc = "checkpointed" => wal = {})

LEMMA LoneStep ==
  ASSUME NEW w \in Writers, Writers = {w}, HandoffInv, LoneInv(w),
         [Next]_vars, ~CheckpointBlocked(w)
  PROVE  LoneInv(w)'
<1>1. ASSUME NEW pc, NEW f, NEW r, NEW s, SetWriter(w, pc, f, r, s)
      PROVE  writer'[w].pc = pc
  BY <1>1 DEF SetWriter, HandoffInv, TypeOK
<1>2. CASE Project(w)
  BY <1>1, <1>2 DEF Project, Goto, Leave, LoneInv
<1>3. CASE Checkpoint(w) \/ UnlinkWal(w)
  BY <1>1, <1>3 DEF Checkpoint, UnlinkWal, Goto, LoneInv
<1>4. CASE /\ UNCHANGED <<wal, dropped>>
           /\ writer'[w].pc = "checkpointed" => writer'[w].pc = writer[w].pc
  BY <1>4 DEF LoneInv
<1>5. ASSUME WriterStep(w)
      PROVE  LoneInv(w)'
  <2>1. CASE \/ Take(w) \/ ReadInventory(w) \/ Acknowledge(w)
             \/ StoreError(w) \/ CrashWriter(w)
    BY <1>1, <1>4, <2>1 DEF Take, ReadInventory, Acknowledge, StoreError,
       CrashWriter, Leave, Goto, Stop, ledger
  <2>2. CASE \/ \E session \in BOOLEAN : Check(w, session)
             \/ Acquire(w) \/ ApplyInSession(w) \/ CloseSession(w)
             \/ MarkProjected(w) \/ Release(w)
    BY <1>1, <1>4, <2>2 DEF Check, Acquire, ApplyInSession, CloseSession,
       MarkProjected, Release, Goto, Stop, ledger
  <2>3. QED
    BY <1>2, <1>3, <1>5, <2>1, <2>2 DEF WriterStep
<1>6. CASE UNCHANGED <<wal, dropped, writer>>
  BY <1>4, <1>6
<1>7. QED
  BY <1>5, <1>6 DEF Next, Replay, AppendFact, BindPreimage, FlipCheckLease,
     FlipCheckAcks, FlipCommit, FenceSource, ReplayRead, ReplayAck,
     ReplayRecord, CompleteFinalReconciliation, CrashOperator, vars, ledger

(* One writer process, whose checkpoints nobody blocks, loses no commit:   *)
(* every token it leaves is proof that the file of v2 holds the trade of   *)
(* the fact closed (compat_writer.py _capture_token).                      *)
THEOREM LoneWriterLosesNothing ==
  ASSUME NEW w \in Writers, Writers = {w}
  PROVE  Spec /\ [][~CheckpointBlocked(w)]_vars =>
           [](/\ dropped = {}
              /\ \A f \in Facts : Tokened(f) => ClosedIn(file, f))
<1>1. Init => LoneInv(w)
  BY DEF Init, LoneInv, Idle
<1>2. HandoffInv /\ LoneInv(w) /\ [Next]_vars /\ [~CheckpointBlocked(w)]_vars
        => LoneInv(w)'
  <2> SUFFICES ASSUME HandoffInv, LoneInv(w), [Next]_vars,
                      [~CheckpointBlocked(w)]_vars
               PROVE  LoneInv(w)'
    OBVIOUS
  <2>1. CASE UNCHANGED vars
    BY <2>1 DEF vars, LoneInv
  <2>2. CASE ~CheckpointBlocked(w)
    BY <2>2, LoneStep
  <2>3. QED
    BY <2>1, <2>2
<1>3. HandoffInv /\ LoneInv(w) =>
        dropped = {} /\ \A f \in Facts : Tokened(f) => ClosedIn(file, f)
  BY DEF HandoffInv, LoneInv, AckProvesProjection, ClosedIn
<1>4. QED
  BY <1>1, <1>2, <1>3, Inductive, PTL DEF Spec

=============================================================================
