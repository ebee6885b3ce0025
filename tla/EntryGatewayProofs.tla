------------------------- MODULE EntryGatewayProofs -------------------------
(* Proofs about EntryGateway, for any number of clients, seals, permits    *)
(* and keys.                                                               *)
EXTENDS EntryGateway, TLAPS

(* What a client remembers between its read and its commit stays true of   *)
(* the rows that no other operation rewrites.                              *)
Bound(r) ==
  /\ r.kind # "idle" => r.seal \in Seals
  /\ r.kind = "publish" => r.key \in Keys
  /\ r.kind = "issue" =>
       /\ r.permit \in Permits
       /\ r.to \in {"PERMITTED", "TOMBSTONED"}
       /\ r.to = "TOMBSTONED" => r.cents = 0
  /\ r.kind \in {"outbox", "claim", "cancel"} =>
       /\ r.permit \in Permits
       /\ permit[r.permit].nonce # "ABSENT"
       /\ permit[r.permit].seal = r.seal
  /\ r.kind = "record" =>
       r.from \in {"SEND_CLAIMED", "SUBMISSION_AMBIGUOUS"} /\ r.to \in Outcomes

RequestsBound == \A c \in Clients : Bound(req[c])

(* A permit row belongs to a seal row that is past SEALED.                 *)
PermitsBound ==
  \A p \in Permits : permit[p].nonce # "ABSENT" =>
    /\ permit[p].seal \in Seals
    /\ seal[permit[p].seal].status \notin {"ABSENT", "SEALED"}

AbsentPermitsFree ==
  \A p \in Permits : permit[p].nonce = "ABSENT" => permit[p].seal = NoSeal

(* Nothing is claimed before SEND_CLAIMED, nor after a tombstone.          *)
UnclaimedOutsideFlight ==
  \A s \in Seals :
    seal[s].status \in {"ABSENT", "SEALED", "PERMITTED", "OUTBOX_DURABLE",
                        "TOMBSTONED"} => claim[s] = NoPermit

(* A live permit's reserve and outbox are what the status says they are.   *)
LivePermitsArmed ==
  \A p \in Permits : permit[p].nonce = "ACTIVE" =>
    /\ seal[permit[p].seal].status \in Cancellable =>
         reserve[permit[p].seal] = permit[p].remaining
    /\ seal[permit[p].seal].status = "OUTBOX_DURABLE" => outbox[p] = "DURABLE"

Inv ==
  /\ TypeOK /\ RequestsBound /\ PermitsBound /\ AbsentPermitsFree
  /\ UnclaimedOutsideFlight /\ LivePermitsArmed
  /\ OnePermitPerSeal /\ ClaimBacked /\ CancelledIsDead

-----------------------------------------------------------------------------

LEMMA InitInv == Init => Inv
<1> SUFFICES ASSUME Init PROVE Inv
  OBVIOUS
<1>1. TypeOK
  BY NullsAssumption
     DEF Init, TypeOK, NoSealRow, NoPermitRow, SealRow, PermitRow, SealStatus,
         NonceState, OutboxState, Idle, Op, OpKind
<1>2. QED
  BY <1>1, NullsAssumption DEF Init, Inv, RequestsBound, Bound, PermitsBound, AbsentPermitsFree,
     UnclaimedOutsideFlight, LivePermitsArmed, OnePermitPerSeal, PermitsOf,
     ClaimBacked, CancelledIsDead, NoSealRow, NoPermitRow, Idle

(* A step that leaves the tables alone only has to justify its request.    *)
LEMMA TablesUnchanged ==
  ASSUME Inv, UNCHANGED tables, TypeOK', RequestsBound'
  PROVE  Inv'
  BY DEF Inv, tables, PermitsBound, AbsentPermitsFree, UnclaimedOutsideFlight,
     LivePermitsArmed, OnePermitPerSeal, PermitsOf, ClaimBacked,
     CancelledIsDead

LEMMA ReadInv ==
  ASSUME NEW c \in Clients, NEW r \in Op, Inv, Bound(r), Read(c, r)
  PROVE  Inv'
<1>1. TypeOK'
  BY DEF Inv, TypeOK, Read, tables, world
<1>2. RequestsBound'
  <2> SUFFICES ASSUME NEW d \in Clients PROVE Bound(req[d])'
    BY DEF RequestsBound
  <2>1. permit' = permit /\ req' = [req EXCEPT ![c] = r]
    BY DEF Read, tables
  <2>2. Bound(req[d]) /\ req \in [Clients -> Op]
    BY DEF Inv, RequestsBound, TypeOK
  <2>3. req'[d] = req[d] \/ req'[d] = r
    BY <2>1, <2>2
  <2> QED
    BY <2>1, <2>2, <2>3 DEF Bound
<1> QED
  BY <1>1, <1>2, TablesUnchanged DEF Read

LEMMA IdleOp == Idle \in Op /\ Bound(Idle)
  BY DEF Idle, Op, OpKind, SealStatus, Bound

LEMMA RollbackInv ==
  ASSUME NEW c \in Clients, Inv, Rollback(c) PROVE Inv'
<1>1. TypeOK'
  BY IdleOp DEF Inv, TypeOK, Rollback, Done, tables, world
<1>2. RequestsBound'
  <2> SUFFICES ASSUME NEW d \in Clients PROVE Bound(req[d])'
    BY DEF RequestsBound
  <2>1. permit' = permit /\ req' = [req EXCEPT ![c] = Idle]
    BY DEF Rollback, Done, tables
  <2>2. Bound(req[d]) /\ req \in [Clients -> Op]
    BY DEF Inv, RequestsBound, TypeOK
  <2>3. req'[d] = req[d] \/ req'[d] = Idle
    BY <2>1, <2>2
  <2> QED
    BY <2>1, <2>2, <2>3, IdleOp DEF Bound
<1> QED
  BY <1>1, <1>2, TablesUnchanged DEF Rollback

LEMMA WorldInv == ASSUME Inv, Tick \/ Drift \/ Latch PROVE Inv'
<1>1. TypeOK'
  <2>1. CASE Tick
    BY <2>1 DEF Inv, TypeOK, Tick, tables
  <2>2. CASE Drift
    BY <2>2 DEF Inv, TypeOK, Drift, tables
  <2>3. CASE Latch
    BY <2>3, Zenon DEF Inv, TypeOK, Latch, tables
  <2> QED
    BY <2>1, <2>2, <2>3
<1>2. RequestsBound' /\ UNCHANGED tables
  BY DEF Inv, RequestsBound, Bound, Tick, Drift, Latch, tables
<1> QED
  BY <1>1, <1>2, TablesUnchanged

LEMMA RequestInv == ASSUME NEW c \in Clients, Inv, Request(c) PROVE Inv'
<1> USE DEF Op, OpKind, SealStatus, Idle, Bound
<1>0. TypeOK /\ PermitsBound
  BY DEF Inv
<1>1. ASSUME NEW s \in Seals, NEW k \in Keys, NEW cents \in 1..Cash,
             ReadPublish(c, s, k, cents)
      PROVE  Inv'
  <2>0. cents \in Nat
    BY BoundsAssumption
  <2>1. ASSUME Read(c, [Idle EXCEPT !.kind = "publish", !.seal = s,
                                    !.key = k, !.rev = 1, !.cents = cents])
        PROVE  Inv'
    <3> DEFINE r == [Idle EXCEPT !.kind = "publish", !.seal = s, !.key = k,
                                 !.rev = 1, !.cents = cents]
    <3>1. r \in Op /\ Bound(r)
      BY <2>0
    <3>2. Read(c, r)
      BY <2>1
    <3> HIDE DEF r
    <3> QED
      BY <3>1, <3>2, ReadInv
  <2>2. ASSUME NEW old \in LatestSeals(k),
               Read(c, [Idle EXCEPT !.kind = "publish", !.seal = s, !.key = k,
                                    !.old = old, !.rev = seal[old].rev + 1,
                                    !.cents = cents])
        PROVE  Inv'
    <3> DEFINE rev == seal[old].rev + 1
               r == [Idle EXCEPT !.kind = "publish", !.seal = s, !.key = k,
                                 !.old = old, !.rev = rev, !.cents = cents]
    <3>1. old \in Seals /\ rev \in Nat
      BY <1>0 DEF LatestSeals, SealsOf, TypeOK, SealRow
    <3>3. Read(c, r)
      BY <2>2
    <3> HIDE DEF rev
    <3>2. r \in Op /\ Bound(r)
      BY <2>0, <3>1
    <3> HIDE DEF r
    <3> QED
      BY <3>2, <3>3, ReadInv
  <2> QED
    BY <1>1, <2>1, <2>2 DEF ReadPublish
<1>2. ASSUME NEW p \in Permits, NEW s \in Seals, NEW allow \in BOOLEAN,
             NEW cents \in 0..Cash, ReadIssue(c, p, s, allow, cents)
      PROVE  Inv'
  <2> DEFINE to == IF allow THEN "PERMITTED" ELSE "TOMBSTONED"
             r == [Idle EXCEPT !.kind = "issue", !.seal = s, !.permit = p,
                               !.cents = cents, !.truth = truth,
                               !.from = "SEALED", !.to = to]
  <2>1. truth \in Nat /\ cents \in Nat
    BY <1>0, BoundsAssumption DEF TypeOK
  <2>2. to \in {"PERMITTED", "TOMBSTONED"} /\ (to = "TOMBSTONED" => cents = 0)
    BY <1>2 DEF ReadIssue
  <2>3. Read(c, r)
    BY <1>2 DEF ReadIssue
  <2> HIDE DEF to
  <2>4. r \in Op /\ Bound(r)
    BY <2>1, <2>2
  <2> QED
    BY <2>3, <2>4, ReadInv
<1>3. ASSUME NEW p \in Permits, permit[p].nonce = "ACTIVE"
      PROVE  permit[p].seal \in Seals
  BY <1>0, <1>3 DEF PermitsBound
<1>4. ASSUME NEW p \in Permits, ReadOutbox(c, p) PROVE Inv'
  BY <1>3, <1>4, ReadInv DEF ReadOutbox
<1>5. ASSUME NEW p \in Permits, ReadClaim(c, p) PROVE Inv'
  BY <1>3, <1>5, ReadInv DEF ReadClaim
<1>6. ASSUME NEW p \in Permits, ReadCancel(c, p) PROVE Inv'
  BY <1>3, <1>6, ReadInv DEF ReadCancel
<1>7. ASSUME NEW s \in Seals, NEW outcome \in Outcomes,
             ReadRecord(c, s, outcome)
      PROVE  Inv'
  BY <1>7, ReadInv DEF ReadRecord, Outcomes
<1> QED
  BY <1>1, <1>2, <1>4, <1>5, <1>6, <1>7 DEF Request

-----------------------------------------------------------------------------
(* The commits.                                                            *)

LEMMA IdleBound == Idle \in Op /\ Idle.kind = "idle"
  BY DEF Idle, Op, OpKind, SealStatus

(* Requests survive a commit that keeps every permit row's seal.           *)
LEMMA RequestsSurvive ==
  ASSUME NEW c \in Clients, Inv, Done(c),
         \A p \in Permits : permit[p].nonce # "ABSENT" =>
           /\ permit'[p].nonce # "ABSENT"
           /\ permit'[p].seal = permit[p].seal
  PROVE  RequestsBound' /\ req' \in [Clients -> Op]
<1>1. req \in [Clients -> Op] /\ RequestsBound
  BY DEF Inv, TypeOK
<1>2. req' \in [Clients -> Op]
  BY <1>1, IdleBound DEF Done
<1>3. ASSUME NEW d \in Clients PROVE Bound(req[d])'
  <2>1. CASE d = c
    BY <2>1, <1>1, IdleBound DEF Done, Bound
  <2>2. CASE d # c
    <3>1. req'[d] = req[d] /\ Bound(req[d])
      BY <2>2, <1>1 DEF Done, RequestsBound
    <3> QED
      BY <3>1 DEF Bound
  <2> QED
    BY <2>1, <2>2
<1> QED
  BY <1>2, <1>3 DEF RequestsBound

LEMMA CommitPublishInv ==
  ASSUME NEW c \in Clients, Inv, CommitPublish(c) PROVE Inv'
<1> DEFINE r == req[c]
<1>1. r \in Op /\ r.seal \in Seals /\ r.key \in Keys
  BY DEF Inv, TypeOK, RequestsBound, Bound, CommitPublish, Pending
<1>2. /\ seal[r.seal].status = "ABSENT"
      /\ seal' = [s \in Seals |->
                IF s = r.seal
                THEN [status |-> "SEALED", key |-> r.key, rev |-> r.rev,
                      cents |-> r.cents]
                ELSE Superseded(s, r.old)]
      /\ reserve' = [reserve EXCEPT ![r.seal] = r.cents]
      /\ Done(c)
      /\ UNCHANGED <<permit, outbox, claim, now, truth, halted>>
  BY DEF CommitPublish, PublishIndexesHold, world
<1> HIDE DEF r
<1>3. RequestsBound' /\ req' \in [Clients -> Op]
  BY <1>2, RequestsSurvive
<1>4. seal' \in [Seals -> SealRow] /\ reserve' \in [Seals -> Nat]
  BY <1>1, <1>2 DEF Inv, TypeOK, SealRow, SealStatus, Op, Superseded
<1>5. TypeOK'
  BY <1>2, <1>3, <1>4 DEF Inv, TypeOK
(* The seal inserted had no permit, and a superseded one keeps its rows.   *)
<1>6. \A p \in Permits : permit[p].nonce # "ABSENT" =>
        permit[p].seal \in Seals \ {r.seal}
  BY <1>2 DEF Inv, PermitsBound
<1>7. ASSUME NEW s \in Seals, s # r.seal
      PROVE  /\ reserve'[s] = reserve[s]
             /\ seal'[s].status = seal[s].status
                  \/ seal'[s].status = "SUPERSEDED"
  BY <1>2, <1>7 DEF Inv, TypeOK, SealRow, Superseded
<1>8. claim[r.seal] = NoPermit /\ seal'[r.seal].status = "SEALED"
  BY <1>1, <1>2 DEF Inv, UnclaimedOutsideFlight
<1>9. PermitsBound' /\ AbsentPermitsFree' /\ OnePermitPerSeal'
  BY <1>2, <1>6, <1>7 DEF Inv, PermitsBound, AbsentPermitsFree,
     OnePermitPerSeal, PermitsOf
<1>10. UnclaimedOutsideFlight'
  BY <1>2, <1>7, <1>8 DEF Inv, UnclaimedOutsideFlight
<1>11. LivePermitsArmed' /\ CancelledIsDead'
  BY <1>2, <1>6, <1>7 DEF Inv, LivePermitsArmed, CancelledIsDead, Cancellable
<1>12. ClaimBacked'
  BY <1>2, <1>6, <1>7, <1>8 DEF Inv, ClaimBacked
<1> QED
  BY <1>3, <1>5, <1>9, <1>10, <1>11, <1>12 DEF Inv

LEMMA CommitIssueInv ==
  ASSUME NEW c \in Clients, Inv, CommitIssue(c) PROVE Inv'
<1> DEFINE r == req[c]
           nonce == IF r.to = "PERMITTED" THEN "ACTIVE" ELSE "INVALIDATED"
           row == [nonce |-> nonce, seal |-> r.seal, remaining |-> r.cents,
                   truth |-> r.truth]
<1>1. /\ r \in Op /\ r.seal \in Seals /\ r.permit \in Permits
      /\ r.to \in {"PERMITTED", "TOMBSTONED"}
      /\ r.to = "TOMBSTONED" => r.cents = 0
  BY DEF Inv, TypeOK, RequestsBound, Bound, CommitIssue, Pending
<1>2. /\ permit[r.permit].nonce = "ABSENT"
      /\ seal[r.seal].status = "SEALED"
      /\ permit' = [permit EXCEPT ![r.permit] = row]
      /\ reserve' = [reserve EXCEPT ![r.seal] = r.cents]
      /\ seal' = [seal EXCEPT ![r.seal].status = r.to]
      /\ Done(c)
      /\ UNCHANGED <<outbox, claim, now, truth, halted>>
  BY DEF CommitIssue, StillSealed, world
<1>3. nonce \in {"ACTIVE", "INVALIDATED"} /\ row \in PermitRow
  BY <1>1 DEF Op, PermitRow, NonceState
<1>4. nonce = "ACTIVE" <=> r.to = "PERMITTED"
  OBVIOUS
<1>5. row.nonce = nonce /\ row.seal = r.seal /\ row.remaining = r.cents
  OBVIOUS
<1> HIDE DEF r, row, nonce
<1>6. permit'[r.permit] = row /\ \A p \in Permits \ {r.permit} :
                                   permit'[p] = permit[p]
  BY <1>1, <1>2 DEF Inv, TypeOK
<1>7. /\ seal'[r.seal].status = r.to /\ reserve'[r.seal] = r.cents
      /\ \A s \in Seals \ {r.seal} :
           seal'[s] = seal[s] /\ reserve'[s] = reserve[s]
  BY <1>1, <1>2 DEF Inv, TypeOK, SealRow
<1>8. RequestsBound' /\ req' \in [Clients -> Op]
  BY <1>2, <1>6, RequestsSurvive
<1>9. TypeOK'
  <2>1. permit' \in [Permits -> PermitRow]
    BY <1>2, <1>3 DEF Inv, TypeOK
  <2>2. seal' \in [Seals -> SealRow]
    BY <1>1, <1>2 DEF Inv, TypeOK, SealRow, SealStatus
  <2>3. reserve' \in [Seals -> Nat]
    BY <1>1, <1>2 DEF Inv, TypeOK, Op
  <2> QED
    BY <1>2, <1>8, <2>1, <2>2, <2>3 DEF Inv, TypeOK
(* The sealed entry had no permit and no claim before this one.            *)
<1>10. \A p \in Permits \ {r.permit} : permit[p].seal # r.seal
  BY <1>1, <1>2, NullsAssumption DEF Inv, PermitsBound, AbsentPermitsFree
<1>11. claim[r.seal] = NoPermit
  BY <1>1, <1>2 DEF Inv, UnclaimedOutsideFlight
<1>12. PermitsBound' /\ AbsentPermitsFree'
  BY <1>1, <1>3, <1>5, <1>6, <1>7 DEF Inv, PermitsBound, AbsentPermitsFree
<1>13. OnePermitPerSeal'
  BY <1>5, <1>6, <1>10 DEF Inv, OnePermitPerSeal, PermitsOf
<1>14. UnclaimedOutsideFlight'
  BY <1>2, <1>7, <1>11 DEF Inv, UnclaimedOutsideFlight
<1>15. LivePermitsArmed'
  BY <1>1, <1>2, <1>4, <1>5, <1>6, <1>7, <1>10
     DEF Inv, LivePermitsArmed, PermitsBound, Cancellable
<1>16. CancelledIsDead'
  BY <1>1, <1>2, <1>3, <1>4, <1>5, <1>6, <1>7, <1>10, <1>11
     DEF Inv, CancelledIsDead, PermitsBound
<1>17. ClaimBacked'
  BY <1>2, <1>3, <1>5, <1>6, <1>7, <1>10, <1>11
     DEF Inv, ClaimBacked, PermitsBound, TypeOK
<1> QED
  BY <1>8, <1>9, <1>12, <1>13, <1>14, <1>15, <1>16, <1>17 DEF Inv

LEMMA CommitOutboxInv ==
  ASSUME NEW c \in Clients, Inv, CommitOutbox(c) PROVE Inv'
<1> DEFINE r == req[c]
<1>1. /\ r \in Op /\ r.seal \in Seals /\ r.permit \in Permits
      /\ permit[r.permit].nonce # "ABSENT" /\ permit[r.permit].seal = r.seal
  BY DEF Inv, TypeOK, RequestsBound, Bound, CommitOutbox, Pending
<1>2. /\ seal[r.seal].status = "PERMITTED"
      /\ outbox[r.permit] = "ABSENT"
      /\ outbox' = [outbox EXCEPT ![r.permit] = "DURABLE"]
      /\ seal' = [seal EXCEPT ![r.seal].status = "OUTBOX_DURABLE"]
      /\ Done(c)
      /\ UNCHANGED <<reserve, permit, claim, now, truth, halted>>
  BY DEF CommitOutbox, world
<1> HIDE DEF r
<1>3. RequestsBound' /\ req' \in [Clients -> Op]
  BY <1>2, RequestsSurvive
<1>4. TypeOK'
  BY <1>1, <1>2, <1>3 DEF Inv, TypeOK, SealRow, SealStatus, OutboxState
<1>5. /\ seal'[r.seal].status = "OUTBOX_DURABLE"
      /\ \A s \in Seals \ {r.seal} : seal'[s] = seal[s]
  BY <1>1, <1>2 DEF Inv, TypeOK, SealRow
<1>6. /\ outbox'[r.permit] = "DURABLE"
      /\ \A p \in Permits \ {r.permit} : outbox'[p] = outbox[p]
  BY <1>1, <1>2 DEF Inv, TypeOK
<1>7. \A p \in Permits : permit[p].seal = r.seal => p = r.permit
  BY <1>1 DEF Inv, OnePermitPerSeal, PermitsOf
<1>8. PermitsBound' /\ AbsentPermitsFree' /\ OnePermitPerSeal'
  BY <1>2, <1>5 DEF Inv, PermitsBound, AbsentPermitsFree, OnePermitPerSeal,
     PermitsOf
<1>9. UnclaimedOutsideFlight'
  BY <1>2, <1>5 DEF Inv, UnclaimedOutsideFlight
<1>10. LivePermitsArmed'
  BY <1>2, <1>5, <1>6, <1>7
     DEF Inv, LivePermitsArmed, PermitsBound, Cancellable
<1>11. CancelledIsDead'
  BY <1>2, <1>5 DEF Inv, CancelledIsDead, PermitsBound
<1>12. ClaimBacked'
  BY <1>2, <1>5, <1>6 DEF Inv, ClaimBacked, TypeOK
<1> QED
  BY <1>3, <1>4, <1>8, <1>9, <1>10, <1>11, <1>12 DEF Inv

(* An UPDATE of the status or the nonce of one row keeps the table typed.  *)
LEMMA SealUpdated ==
  ASSUME TypeOK, NEW s \in Seals, NEW st \in SealStatus,
         seal' = [seal EXCEPT ![s].status = st]
  PROVE  seal' \in [Seals -> SealRow]
<1>1. seal \in [Seals -> SealRow]
  BY DEF TypeOK
<1>2. [seal[s] EXCEPT !.status = st] \in SealRow
  BY <1>1 DEF SealRow
<1>3. seal' = [seal EXCEPT ![s] = [seal[s] EXCEPT !.status = st]]
  BY <1>1
<1>4. QED
  BY <1>1, <1>2, <1>3

LEMMA NonceUpdated ==
  ASSUME TypeOK, NEW p \in Permits, NEW n \in NonceState,
         permit' = [permit EXCEPT ![p].nonce = n]
  PROVE  permit' \in [Permits -> PermitRow]
<1>1. permit \in [Permits -> PermitRow]
  BY DEF TypeOK
<1>2. [permit[p] EXCEPT !.nonce = n] \in PermitRow
  BY <1>1 DEF PermitRow
<1>3. permit' = [permit EXCEPT ![p] = [permit[p] EXCEPT !.nonce = n]]
  BY <1>1
<1>4. QED
  BY <1>1, <1>2, <1>3

LEMMA CommitClaimInv ==
  ASSUME NEW c \in Clients, Inv, CommitClaim(c) PROVE Inv'
<1> DEFINE r == req[c]
<1>1. /\ r \in Op /\ r.seal \in Seals /\ r.permit \in Permits
      /\ permit[r.permit].seal = r.seal
  BY DEF Inv, TypeOK, RequestsBound, Bound, CommitClaim, Pending
<1>2. /\ seal[r.seal].status = "OUTBOX_DURABLE"
      /\ permit[r.permit].nonce = "ACTIVE"
      /\ claim[r.seal] = NoPermit
      /\ seal' = [seal EXCEPT ![r.seal].status = "SEND_CLAIMED"]
      /\ permit' = [permit EXCEPT ![r.permit].nonce = "CONSUMED"]
      /\ claim' = [claim EXCEPT ![r.seal] = r.permit]
      /\ Done(c)
      /\ UNCHANGED <<reserve, outbox, now, truth, halted>>
  BY DEF CommitClaim, StillDurable, StillActive, world
<1> HIDE DEF r
<1>3. /\ seal'[r.seal].status = "SEND_CLAIMED"
      /\ \A s \in Seals \ {r.seal} : seal'[s] = seal[s]
      /\ claim'[r.seal] = r.permit
      /\ \A s \in Seals \ {r.seal} : claim'[s] = claim[s]
  BY <1>1, <1>2 DEF Inv, TypeOK, SealRow
<1>4. /\ permit'[r.permit].nonce = "CONSUMED"
      /\ \A p \in Permits : /\ permit'[p].seal = permit[p].seal
                            /\ permit'[p].remaining = permit[p].remaining
      /\ \A p \in Permits \ {r.permit} : permit'[p] = permit[p]
  BY <1>1, <1>2 DEF Inv, TypeOK, PermitRow
<1>5. RequestsBound' /\ req' \in [Clients -> Op]
  BY <1>2, <1>4, RequestsSurvive
<1>6. TypeOK'
  <2>1. permit' \in [Permits -> PermitRow]
    <3>1. "CONSUMED" \in NonceState
      BY DEF NonceState
    <3>2. QED
      BY <1>1, <1>2, <3>1, NonceUpdated DEF Inv
  <2>2. seal' \in [Seals -> SealRow]
    <3>1. "SEND_CLAIMED" \in SealStatus
      BY DEF SealStatus
    <3>2. QED
      BY <1>1, <1>2, <3>1, SealUpdated DEF Inv
  <2> QED
    BY <1>1, <1>2, <1>5, <2>1, <2>2 DEF Inv, TypeOK
<1>7. \A p \in Permits : permit[p].seal = r.seal => p = r.permit
  BY <1>1 DEF Inv, OnePermitPerSeal, PermitsOf
<1>8. outbox[r.permit] = "DURABLE" /\ reserve[r.seal] = permit[r.permit].remaining
  BY <1>1, <1>2 DEF Inv, LivePermitsArmed, Cancellable
<1>9. PermitsBound' /\ AbsentPermitsFree' /\ OnePermitPerSeal'
  BY <1>1, <1>2, <1>3, <1>4
     DEF Inv, PermitsBound, AbsentPermitsFree, OnePermitPerSeal, PermitsOf
<1>10. UnclaimedOutsideFlight'
  BY <1>3 DEF Inv, UnclaimedOutsideFlight
<1>11. LivePermitsArmed' /\ CancelledIsDead'
  BY <1>2, <1>3, <1>4, <1>7
     DEF Inv, LivePermitsArmed, CancelledIsDead, PermitsBound, Cancellable
<1>12. ClaimBacked'
  <2>1. ASSUME NEW s \in Seals, claim'[s] # NoPermit
        PROVE  /\ permit'[claim'[s]].seal = s
               /\ permit'[claim'[s]].nonce = "CONSUMED"
               /\ outbox'[claim'[s]] = "DURABLE"
               /\ reserve'[s] = permit'[claim'[s]].remaining
    <3>1. CASE s = r.seal
      BY <1>1, <1>2, <1>3, <1>4, <1>8, <3>1
    <3>2. CASE s # r.seal
      <4>1. claim'[s] = claim[s] /\ claim[s] \in Permits \ {r.permit}
        BY <2>1, <3>2, <1>1, <1>3 DEF Inv, ClaimBacked, TypeOK
      <4> QED
        BY <2>1, <4>1, <1>2, <1>4 DEF Inv, ClaimBacked
    <3> QED
      BY <3>1, <3>2
  <2>2. ASSUME NEW p \in Permits, permit'[p].nonce = "CONSUMED"
        PROVE  claim'[permit'[p].seal] = p
    BY <2>2, <1>1, <1>3, <1>4, <1>7 DEF Inv, ClaimBacked, PermitsBound
  <2> QED
    BY <2>1, <2>2 DEF ClaimBacked
<1> QED
  BY <1>5, <1>6, <1>9, <1>10, <1>11, <1>12 DEF Inv

LEMMA CommitCancelInv ==
  ASSUME NEW c \in Clients, Inv, CommitCancel(c) PROVE Inv'
<1> DEFINE r == req[c]
<1>1. /\ r \in Op /\ r.seal \in Seals /\ r.permit \in Permits
      /\ permit[r.permit].seal = r.seal
  BY DEF Inv, TypeOK, RequestsBound, Bound, CommitCancel, Pending
<1>2. /\ seal[r.seal].status \in Cancellable
      /\ permit[r.permit].nonce = "ACTIVE"
      /\ seal' = [seal EXCEPT ![r.seal].status = "TOMBSTONED"]
      /\ outbox' = OutboxAfterCancel(r)
      /\ permit' = [permit EXCEPT ![r.permit].nonce = "INVALIDATED"]
      /\ reserve' = [reserve EXCEPT ![r.seal] = 0]
      /\ Done(c)
      /\ UNCHANGED <<claim, now, truth, halted>>
  BY DEF CommitCancel, StillCancellable, StillActive, ReserveAfterCancel, world
<1> HIDE DEF r
<1>3. /\ seal'[r.seal].status = "TOMBSTONED" /\ reserve'[r.seal] = 0
      /\ \A s \in Seals \ {r.seal} :
           seal'[s] = seal[s] /\ reserve'[s] = reserve[s]
  BY <1>1, <1>2 DEF Inv, TypeOK, SealRow
<1>4. /\ permit'[r.permit].nonce = "INVALIDATED"
      /\ \A p \in Permits : /\ permit'[p].seal = permit[p].seal
                            /\ permit'[p].remaining = permit[p].remaining
      /\ \A p \in Permits \ {r.permit} :
           permit'[p] = permit[p] /\ outbox'[p] = outbox[p]
  BY <1>1, <1>2 DEF Inv, TypeOK, PermitRow, OutboxAfterCancel
<1>5. RequestsBound' /\ req' \in [Clients -> Op]
  BY <1>2, <1>4, RequestsSurvive
<1>6. TypeOK'
  <2>1. permit' \in [Permits -> PermitRow]
    <3>1. "INVALIDATED" \in NonceState
      BY DEF NonceState
    <3>2. QED
      BY <1>1, <1>2, <3>1, NonceUpdated DEF Inv
  <2>2. seal' \in [Seals -> SealRow]
    <3>1. "TOMBSTONED" \in SealStatus
      BY DEF SealStatus
    <3>2. QED
      BY <1>1, <1>2, <3>1, SealUpdated DEF Inv
  <2>3. outbox' \in [Permits -> OutboxState] /\ reserve' \in [Seals -> Nat]
    BY <1>2 DEF Inv, TypeOK, OutboxState, OutboxAfterCancel
  <2> QED
    BY <1>2, <1>5, <2>1, <2>2, <2>3 DEF Inv, TypeOK
<1>7. \A p \in Permits : permit[p].seal = r.seal => p = r.permit
  BY <1>1 DEF Inv, OnePermitPerSeal, PermitsOf
<1>8. claim[r.seal] = NoPermit
  BY <1>1, <1>2 DEF Inv, UnclaimedOutsideFlight, Cancellable
<1>9. PermitsBound' /\ AbsentPermitsFree' /\ OnePermitPerSeal'
  BY <1>1, <1>2, <1>3, <1>4
     DEF Inv, PermitsBound, AbsentPermitsFree, OnePermitPerSeal, PermitsOf
<1>10. UnclaimedOutsideFlight'
  BY <1>2, <1>3, <1>8 DEF Inv, UnclaimedOutsideFlight
<1>11. LivePermitsArmed'
  BY <1>3, <1>4, <1>7 DEF Inv, LivePermitsArmed, PermitsBound, Cancellable
<1>12. CancelledIsDead'
  BY <1>1, <1>2, <1>3, <1>4, <1>7, <1>8 DEF Inv, CancelledIsDead, PermitsBound
<1>13. ClaimBacked'
  <2>1. \A s \in Seals : claim[s] # NoPermit =>
          s # r.seal /\ claim[s] \in Permits \ {r.permit}
    BY <1>1, <1>2, <1>8 DEF Inv, ClaimBacked, TypeOK
  <2> QED
    BY <2>1, <1>2, <1>3, <1>4 DEF Inv, ClaimBacked
<1> QED
  BY <1>5, <1>6, <1>9, <1>10, <1>11, <1>12, <1>13 DEF Inv

LEMMA CommitRecordInv ==
  ASSUME NEW c \in Clients, Inv, CommitRecord(c) PROVE Inv'
<1> DEFINE r == req[c]
<1>1. /\ r \in Op /\ r.seal \in Seals
      /\ r.from \in {"SEND_CLAIMED", "SUBMISSION_AMBIGUOUS"}
      /\ r.to \in Outcomes
  BY DEF Inv, TypeOK, RequestsBound, Bound, CommitRecord, Pending
<1>2. /\ seal[r.seal].status = r.from
      /\ seal' = [seal EXCEPT ![r.seal].status = r.to]
      /\ Done(c)
      /\ UNCHANGED <<reserve, permit, outbox, claim, now, truth, halted>>
  BY DEF CommitRecord, world
<1> HIDE DEF r
<1>3. RequestsBound' /\ req' \in [Clients -> Op]
  BY <1>2, RequestsSurvive
<1>4. TypeOK'
  BY <1>1, <1>2, <1>3 DEF Inv, TypeOK, SealRow, SealStatus, Outcomes
<1>5. /\ seal'[r.seal].status \in Outcomes
      /\ \A s \in Seals \ {r.seal} : seal'[s] = seal[s]
  BY <1>1, <1>2 DEF Inv, TypeOK, SealRow
<1>6. PermitsBound' /\ AbsentPermitsFree' /\ OnePermitPerSeal'
  BY <1>2, <1>5 DEF Inv, PermitsBound, AbsentPermitsFree, OnePermitPerSeal,
     PermitsOf, Outcomes
<1>7. UnclaimedOutsideFlight' /\ LivePermitsArmed'
  BY <1>2, <1>5 DEF Inv, UnclaimedOutsideFlight, LivePermitsArmed,
     PermitsBound, Outcomes, Cancellable
<1>8. CancelledIsDead' /\ ClaimBacked'
  BY <1>1, <1>2, <1>5 DEF Inv, CancelledIsDead, ClaimBacked, PermitsBound
<1> QED
  BY <1>3, <1>4, <1>6, <1>7, <1>8 DEF Inv

-----------------------------------------------------------------------------

LEMMA NextInv == Inv /\ [Next]_vars => Inv'
<1> SUFFICES ASSUME Inv, [Next]_vars PROVE Inv'
  OBVIOUS
<1>1. ASSUME NEW c \in Clients, Request(c) \/ Commit(c) \/ Rollback(c)
      PROVE  Inv'
  BY <1>1, RequestInv, RollbackInv, CommitPublishInv, CommitIssueInv,
     CommitOutboxInv, CommitClaimInv, CommitCancelInv, CommitRecordInv
     DEF Commit
<1>2. CASE Tick \/ Drift \/ Latch
  BY <1>2, WorldInv
<1>3. CASE UNCHANGED vars
  <2>1. TypeOK' /\ RequestsBound' /\ UNCHANGED tables
    BY <1>3 DEF Inv, TypeOK, RequestsBound, Bound, vars, tables
  <2> QED
    BY <2>1, TablesUnchanged
<1> QED
  BY <1>1, <1>2, <1>3 DEF Next

(* Every reachable state satisfies the inductive invariant.                *)
THEOREM Invariance == Spec => []Inv
  BY InitInv, NextInv, PTL DEF Spec

(* The tables keep their types under any interleaving of gateway clients.  *)
THEOREM TypeSafety == Spec => []TypeOK
<1>1. Inv => TypeOK
  BY DEF Inv
<1> QED
  BY <1>1, Invariance, PTL

(* claim_send is a linearization point: a claim, its consumed nonce, its   *)
(* durable outbox and the cash its permit left reserved are one fact.      *)
THEOREM ClaimSafety == Spec => []ClaimBacked
<1>1. Inv => ClaimBacked
  BY DEF Inv
<1> QED
  BY <1>1, Invariance, PTL

(* A cancelled permit never holds cash and never turns into a send claim.  *)
THEOREM CancelSafety == Spec => []CancelledIsDead
<1>1. Inv => CancelledIsDead
  BY DEF Inv
<1> QED
  BY <1>1, Invariance, PTL

(* Competing permits of one seal linearize.                                *)
THEOREM PermitSafety == Spec => []OnePermitPerSeal
<1>1. Inv => OnePermitPerSeal
  BY DEF Inv
<1> QED
  BY <1>1, Invariance, PTL

-----------------------------------------------------------------------------
(* What a single gateway process adds to the facts above, for any number   *)
(* of seals, permits and keys: between its read and its commit nobody else *)
(* writes, so what it read still holds.                                    *)

LoneClient == \A c, d \in Clients : c = d

(* A row has a key once it is inserted; only the newest seal of a key is   *)
(* not superseded, and the plan does not grow from one to the next.        *)
RowsKeyed ==
  \A s \in Seals : seal[s].status # "ABSENT" <=> seal[s].key \in Keys
NewestIsLive ==
  \A s, t \in Seals : seal[s].key = seal[t].key /\ seal[s].key \in Keys =>
    /\ s # t => seal[s].rev # seal[t].rev
    /\ seal[s].rev < seal[t].rev =>
         seal[s].status = "SUPERSEDED" /\ seal[t].cents <= seal[s].cents

(* A superseded seal never had a permit, an absent permit has no batch.    *)
SupersededFree ==
  \A p \in Permits : permit[p].nonce # "ABSENT" =>
    seal[permit[p].seal].status # "SUPERSEDED"
AbsentHasNoBatch ==
  \A p \in Permits : permit[p].nonce = "ABSENT" => outbox[p] = "ABSENT"

(* What a pending operation read and its commit does not check again.      *)
StillTrue(r) ==
  /\ r.kind = "publish" /\ r.old = NoSeal => SealsOf(r.key) = {}
  /\ r.kind = "publish" /\ r.old # NoSeal =>
       /\ r.old \in LatestSeals(r.key)
       /\ SupersedeAllowed(r.old, r.rev, r.cents)
  /\ r.kind = "outbox" => permit[r.permit].nonce = "ACTIVE"
  /\ r.kind = "cancel" => (r.sawOutbox <=> outbox[r.permit] # "ABSENT")

ReadsHold == \A c \in Clients : StillTrue(req[c])

Tables ==
  /\ RowsKeyed /\ NewestIsLive /\ SupersededFree /\ AbsentHasNoBatch
  /\ ClaimedStaysInFlight /\ TombstonedOutbox

SerialInv == Inv /\ Tables /\ ReadsHold

-----------------------------------------------------------------------------

LEMMA IdleStillTrue == StillTrue(Idle) /\ StillTrue(Idle)'
  BY DEF StillTrue, Idle

LEMMA InitSerial == Init => SerialInv
<1> SUFFICES ASSUME Init PROVE SerialInv
  OBVIOUS
<1>1. Inv /\ ReadsHold
  BY InitInv, IdleStillTrue DEF Init, ReadsHold
<1>2. Tables
  BY NullsAssumption
  DEF Init, Tables, RowsKeyed, NewestIsLive, SupersededFree, AbsentHasNoBatch,
      ClaimedStaysInFlight, TombstonedOutbox, NoSealRow, NoPermitRow, InFlight
<1>3. QED
  BY <1>1, <1>2 DEF SerialInv

LEMMA TablesKept == ASSUME Tables, UNCHANGED tables PROVE Tables'
  BY DEF Tables, tables, RowsKeyed, NewestIsLive, SupersededFree,
     AbsentHasNoBatch, ClaimedStaysInFlight, TombstonedOutbox

(* A commit of the only client leaves no operation pending.                *)
LEMMA DoneHolds ==
  ASSUME LoneClient, Inv, NEW c \in Clients, Done(c)
  PROVE  ReadsHold'
<1>1. \A d \in Clients : req'[d] = Idle
  BY DEF LoneClient, Done, Inv, TypeOK
<1>2. QED
  BY <1>1 DEF ReadsHold, StillTrue, Idle

LEMMA ReadSerial ==
  ASSUME SerialInv, NEW c \in Clients, NEW r, StillTrue(r), Read(c, r), Inv'
  PROVE  SerialInv'
<1>1. Tables' /\ UNCHANGED tables
  BY TablesKept DEF SerialInv, Read
<1>2. ReadsHold'
  <2> SUFFICES ASSUME NEW d \in Clients PROVE StillTrue(req[d])'
    BY DEF ReadsHold
  <2>1. req' = [req EXCEPT ![c] = r] /\ req \in [Clients -> Op]
    BY DEF Read, SerialInv, Inv, TypeOK
  <2>2. req'[d] = req[d] \/ req'[d] = r
    BY <2>1
  <2>3. StillTrue(req[d])
    BY DEF SerialInv, ReadsHold
  <2>4. QED
    BY <1>1, <2>2, <2>3
    DEF StillTrue, SealsOf, LatestSeals, SupersedeAllowed, tables
<1>3. QED
  BY <1>1, <1>2 DEF SerialInv

LEMMA RequestSerial ==
  ASSUME SerialInv, NEW c \in Clients, Request(c)
  PROVE  SerialInv'
<1>0. Inv'
  BY RequestInv DEF SerialInv
<1>1. ASSUME NEW s \in Seals, NEW k \in Keys, NEW cents \in 1..Cash,
             ReadPublish(c, s, k, cents)
      PROVE  SerialInv'
  <2>1. CASE SealsOf(k) = {}
             /\ Read(c, [Idle EXCEPT !.kind = "publish", !.seal = s, !.key = k,
                                     !.rev = 1, !.cents = cents])
    <3>1. PICK r : r = [Idle EXCEPT !.kind = "publish", !.seal = s, !.key = k,
                                    !.rev = 1, !.cents = cents]
      OBVIOUS
    <3>2. r.kind = "publish" /\ r.old = NoSeal /\ r.key = k
      BY <3>1 DEF Idle
    <3>3. StillTrue(r)
      BY <2>1, <3>2 DEF StillTrue
    <3>4. QED
      BY <1>0, <2>1, <3>1, <3>3, ReadSerial
  <2>2. ASSUME NEW old \in LatestSeals(k),
               SupersedeAllowed(old, seal[old].rev + 1, cents),
               Read(c, [Idle EXCEPT !.kind = "publish", !.seal = s, !.key = k,
                                    !.old = old, !.rev = seal[old].rev + 1,
                                    !.cents = cents])
        PROVE  SerialInv'
    <3>1. PICK r : r = [Idle EXCEPT !.kind = "publish", !.seal = s, !.key = k,
                                    !.old = old, !.rev = seal[old].rev + 1,
                                    !.cents = cents]
      OBVIOUS
    <3>2. /\ r.kind = "publish" /\ r.old = old /\ r.key = k
          /\ r.rev = seal[old].rev + 1 /\ r.cents = cents
      BY <3>1 DEF Idle
    <3>3. old # NoSeal
      BY NullsAssumption DEF LatestSeals, SealsOf
    <3>4. StillTrue(r)
      BY <2>2, <3>2, <3>3 DEF StillTrue
    <3>5. QED
      BY <1>0, <2>2, <3>1, <3>4, ReadSerial
  <2>3. QED
    BY <1>1, <2>1, <2>2 DEF ReadPublish
<1>2. ASSUME NEW p \in Permits, NEW s \in Seals, NEW allow \in BOOLEAN,
             NEW cents \in 0..Cash, ReadIssue(c, p, s, allow, cents)
      PROVE  SerialInv'
  <2>1. PICK r : r = [Idle EXCEPT !.kind = "issue", !.seal = s, !.permit = p,
                          !.cents = cents, !.truth = truth,
                          !.from = "SEALED",
                          !.to = IF allow THEN "PERMITTED" ELSE "TOMBSTONED"]
    OBVIOUS
  <2>2. r.kind = "issue"
    BY <2>1 DEF Idle
  <2>3. Read(c, r)
    BY <1>2, <2>1 DEF ReadIssue
  <2>4. QED
    BY <1>0, <2>2, <2>3, ReadSerial DEF StillTrue
<1>3. ASSUME NEW p \in Permits, ReadOutbox(c, p) PROVE SerialInv'
  <2>1. PICK r : r = [Idle EXCEPT !.kind = "outbox", !.seal = permit[p].seal,
                          !.permit = p, !.from = "PERMITTED",
                          !.to = "OUTBOX_DURABLE"]
    OBVIOUS
  <2>2. r.kind = "outbox" /\ r.permit = p
    BY <2>1 DEF Idle
  <2>3. Read(c, r) /\ permit[p].nonce = "ACTIVE"
    BY <1>3, <2>1 DEF ReadOutbox
  <2>4. QED
    BY <1>0, <2>2, <2>3, ReadSerial DEF StillTrue
<1>4. ASSUME NEW p \in Permits, ReadClaim(c, p) PROVE SerialInv'
  <2>1. PICK r : r = [Idle EXCEPT !.kind = "claim", !.seal = permit[p].seal,
                          !.permit = p, !.from = "OUTBOX_DURABLE",
                          !.to = "SEND_CLAIMED"]
    OBVIOUS
  <2>2. r.kind = "claim"
    BY <2>1 DEF Idle
  <2>3. Read(c, r)
    BY <1>4, <2>1 DEF ReadClaim
  <2>4. QED
    BY <1>0, <2>2, <2>3, ReadSerial DEF StillTrue
<1>5. ASSUME NEW p \in Permits, ReadCancel(c, p) PROVE SerialInv'
  <2>1. PICK r : r = [Idle EXCEPT !.kind = "cancel", !.seal = permit[p].seal,
                          !.permit = p, !.sawOutbox = outbox[p] # "ABSENT",
                          !.to = "TOMBSTONED"]
    OBVIOUS
  <2>2. r.kind = "cancel" /\ r.permit = p
        /\ (r.sawOutbox <=> outbox[p] # "ABSENT")
    BY <2>1 DEF Idle
  <2>3. Read(c, r)
    BY <1>5, <2>1 DEF ReadCancel
  <2>4. QED
    BY <1>0, <2>2, <2>3, ReadSerial DEF StillTrue
<1>6. ASSUME NEW s \in Seals, NEW outcome \in Outcomes,
             ReadRecord(c, s, outcome)
      PROVE  SerialInv'
  <2>1. PICK r : r = [Idle EXCEPT !.kind = "record", !.seal = s,
                          !.from = seal[s].status, !.to = outcome]
    OBVIOUS
  <2>2. r.kind = "record"
    BY <2>1 DEF Idle
  <2>3. Read(c, r)
    BY <1>6, <2>1 DEF ReadRecord
  <2>4. QED
    BY <1>0, <2>2, <2>3, ReadSerial DEF StillTrue
<1>7. QED
  BY <1>1, <1>2, <1>3, <1>4, <1>5, <1>6 DEF Request

LEMMA WorldSerial ==
  ASSUME SerialInv, (Tick \/ Drift \/ Latch) \/ UNCHANGED vars, Inv'
  PROVE  SerialInv'
<1>1. UNCHANGED tables /\ UNCHANGED req
  BY DEF Tick, Drift, Latch, vars, tables
<1>2. Tables'
  BY <1>1, TablesKept DEF SerialInv
<1>3. ReadsHold'
  BY <1>1 DEF SerialInv, ReadsHold, StillTrue, SealsOf, LatestSeals,
     SupersedeAllowed, tables
<1>4. QED
  BY <1>2, <1>3 DEF SerialInv

LEMMA RollbackSerial ==
  ASSUME LoneClient, SerialInv, NEW c \in Clients, Rollback(c)
  PROVE  SerialInv'
<1>1. Inv' /\ ReadsHold'
  BY RollbackInv, DoneHolds DEF SerialInv, Rollback
<1>2. Tables'
  BY TablesKept DEF SerialInv, Rollback
<1>3. QED
  BY <1>1, <1>2 DEF SerialInv

-----------------------------------------------------------------------------
(* Commits.                                                                *)

LEMMA PublishSerial ==
  ASSUME LoneClient, SerialInv, NEW c \in Clients, CommitPublish(c)
  PROVE  SerialInv'
<1>1. PICK r \in Op : r = req[c] /\ r.kind = "publish" /\ StillTrue(r)
                      /\ r.seal \in Seals /\ r.key \in Keys
  BY DEF SerialInv, Inv, TypeOK, RequestsBound, Bound, ReadsHold,
     CommitPublish, Pending
<1>2. /\ seal[r.seal].status = "ABSENT"
      /\ seal' = [s \in Seals |->
                IF s = r.seal
                THEN [status |-> "SEALED", key |-> r.key, rev |-> r.rev,
                      cents |-> r.cents]
                ELSE Superseded(s, r.old)]
      /\ Done(c)
      /\ UNCHANGED <<permit, outbox, claim>>
  BY <1>1 DEF CommitPublish, PublishIndexesHold
<1>3. Inv' /\ ReadsHold'
  BY CommitPublishInv, <1>2, DoneHolds DEF SerialInv
(* The new row, the row it supersedes and the others.                      *)
<1>4. /\ seal'[r.seal].status = "SEALED" /\ seal'[r.seal].key = r.key
      /\ seal'[r.seal].rev = r.rev /\ seal'[r.seal].cents = r.cents
  BY <1>1, <1>2
<1>5. seal \in [Seals -> SealRow] /\ permit \in [Permits -> PermitRow]
  BY DEF SerialInv, Inv, TypeOK
<1>6. ASSUME NEW s \in Seals, s # r.seal
      PROVE  /\ seal'[s].key = seal[s].key /\ seal'[s].rev = seal[s].rev
             /\ seal'[s].cents = seal[s].cents
             /\ s # r.old => seal'[s].status = seal[s].status
             /\ s = r.old => seal'[s].status = "SUPERSEDED"
  BY <1>2, <1>5, <1>6 DEF SealRow, Superseded
<1>7. \A s \in Seals : s = r.old =>
        /\ seal[s].status = "SEALED" /\ seal[s].key = r.key
        /\ r.rev = seal[s].rev + 1 /\ r.cents <= seal[s].cents
        /\ \A t \in Seals : seal[t].key = r.key => seal[t].rev <= seal[s].rev
  BY <1>1, NullsAssumption
  DEF StillTrue, LatestSeals, SealsOf, SupersedeAllowed
<1>8. \A t \in Seals : seal[t].key = r.key => r.old \in Seals
  BY <1>1 DEF StillTrue, SealsOf, LatestSeals
<1>9. r.key \in Keys /\ seal[r.seal].key \notin Keys /\ r.seal # r.old
  BY <1>1, <1>2, <1>7 DEF SerialInv, Tables, RowsKeyed
<1>10. RowsKeyed'
  BY <1>4, <1>6, <1>7, <1>9 DEF SerialInv, Tables, RowsKeyed
<1>11. NewestIsLive'
  <2> SUFFICES ASSUME NEW s \in Seals, NEW t \in Seals, s # t,
                      seal'[s].key = seal'[t].key, seal'[s].key \in Keys
               PROVE  /\ seal'[s].rev # seal'[t].rev
                      /\ seal'[s].rev < seal'[t].rev =>
                           /\ seal'[s].status = "SUPERSEDED"
                           /\ seal'[t].cents <= seal'[s].cents
    <3>1. \A s \in Seals : seal'[s].rev \in Nat
      BY <1>3 DEF Inv, TypeOK, SealRow
    <3>2. QED
      BY <3>1 DEF NewestIsLive
  <2>1. CASE s # r.seal /\ t # r.seal
    <3>1. /\ seal[s].key = seal[t].key /\ seal[s].key \in Keys
          /\ seal'[s].rev = seal[s].rev /\ seal'[t].rev = seal[t].rev
          /\ seal'[s].cents = seal[s].cents /\ seal'[t].cents = seal[t].cents
          /\ seal'[s].status \in {seal[s].status, "SUPERSEDED"}
      BY <1>6, <2>1
    <3>2. QED
      BY <3>1 DEF SerialInv, Tables, NewestIsLive
  <2>2. CASE s = r.seal \/ t = r.seal
    <3>1. ASSUME NEW o \in Seals, o # r.seal, seal[o].key = r.key
          PROVE  /\ seal[o].rev < r.rev
                 /\ seal'[o].status = "SUPERSEDED"
                 /\ r.cents <= seal[o].cents
      <4>1. /\ r.old \in Seals /\ seal[r.old].status = "SEALED"
            /\ seal[r.old].key = r.key /\ r.rev = seal[r.old].rev + 1
            /\ r.cents <= seal[r.old].cents /\ seal[o].rev <= seal[r.old].rev
            /\ seal[o].rev \in Nat /\ seal[r.old].rev \in Nat
        BY <1>5, <1>7, <1>8, <3>1 DEF SealRow
      <4>2. CASE o = r.old
        BY <1>6, <3>1, <4>1, <4>2
      <4>3. CASE o # r.old
        <5>1. /\ seal[o].rev # seal[r.old].rev
              /\ seal[o].rev < seal[r.old].rev =>
                   /\ seal[o].status = "SUPERSEDED"
                   /\ seal[r.old].cents <= seal[o].cents
          BY <1>9, <3>1, <4>1, <4>3 DEF SerialInv, Tables, NewestIsLive
        <5>2. /\ seal[o].rev < r.rev /\ seal[o].status = "SUPERSEDED"
              /\ seal[r.old].cents <= seal[o].cents
          BY <4>1, <5>1
        <5>3. seal[o].cents \in Nat /\ seal[r.old].cents \in Nat /\ r.cents \in Nat
          BY <1>5, <4>1 DEF SealRow, Op
        <5>4. r.cents <= seal[o].cents
          BY <4>1, <5>2, <5>3
        <5>5. QED
          BY <1>6, <3>1, <4>3, <5>2, <5>4
      <4>4. QED
        BY <4>2, <4>3
    <3>2. \A o \in Seals : seal[o].rev \in Nat /\ r.rev \in Nat
      BY <1>5 DEF SealRow, Op
    <3>3. CASE s = r.seal
      <4>1. t # r.seal /\ seal[t].key = r.key /\ seal'[t].rev = seal[t].rev
        BY <1>4, <1>6, <3>3
      <4>2. QED
        BY <1>4, <3>1, <3>2, <3>3, <4>1
    <3>4. CASE t = r.seal
      <4>1. s # r.seal /\ seal[s].key = r.key /\ seal'[s].rev = seal[s].rev
            /\ seal'[s].cents = seal[s].cents
        BY <1>4, <1>6, <3>4
      <4>2. QED
        BY <1>4, <3>1, <3>2, <3>4, <4>1
    <3>5. QED
      BY <2>2, <3>3, <3>4
  <2>3. QED
    BY <2>1, <2>2
<1>12. SupersededFree'
  BY <1>2, <1>3, <1>4, <1>6, <1>7
  DEF SerialInv, Tables, SupersededFree, Inv, PermitsBound
<1>13. AbsentHasNoBatch' /\ TombstonedOutbox'
  BY <1>2 DEF SerialInv, Tables, AbsentHasNoBatch, TombstonedOutbox
<1>14. ClaimedStaysInFlight'
  BY <1>2, <1>4, <1>6, <1>7 DEF SerialInv, Tables, ClaimedStaysInFlight, InFlight
<1>15. QED
  BY <1>3, <1>10, <1>11, <1>12, <1>13, <1>14 DEF SerialInv, Tables

(* A commit that only moves the status of a row out of SEALED or further,  *)
(* never into or out of SUPERSEDED.                                        *)
LEMMA StatusMoves ==
  ASSUME SerialInv, NEW s \in Seals, NEW to,
         seal' = [seal EXCEPT ![s].status = to],
         seal[s].status \notin {"ABSENT", "SUPERSEDED"},
         to \notin {"ABSENT", "SUPERSEDED"}
  PROVE  /\ RowsKeyed' /\ NewestIsLive'
         /\ seal'[s].status = to
         /\ \A t \in Seals : t # s => seal'[t] = seal[t]
         /\ \A t \in Seals : seal'[t].status = "SUPERSEDED"
                               <=> seal[t].status = "SUPERSEDED"
<1>1. seal \in [Seals -> SealRow]
  BY DEF SerialInv, Inv, TypeOK
<1>2. \A t \in Seals :
        /\ seal'[t].key = seal[t].key /\ seal'[t].rev = seal[t].rev
        /\ seal'[t].cents = seal[t].cents
        /\ seal'[t].status = IF t = s THEN to ELSE seal[t].status
        /\ t # s => seal'[t] = seal[t]
  BY <1>1 DEF SealRow
<1>3. RowsKeyed' /\ NewestIsLive'
  BY <1>2 DEF SerialInv, Tables, RowsKeyed, NewestIsLive
<1>4. QED
  BY <1>2, <1>3

LEMMA IssueSerial ==
  ASSUME LoneClient, SerialInv, NEW c \in Clients, CommitIssue(c)
  PROVE  SerialInv'
<1>1. PICK r \in Op : /\ r = req[c] /\ r.seal \in Seals /\ r.permit \in Permits
                      /\ r.to \in {"PERMITTED", "TOMBSTONED"}
  BY DEF SerialInv, Inv, TypeOK, RequestsBound, Bound, CommitIssue, Pending
<1>2. /\ permit[r.permit].nonce = "ABSENT" /\ seal[r.seal].status = "SEALED"
      /\ permit' = [permit EXCEPT ![r.permit] =
                  [nonce |-> IF r.to = "PERMITTED" THEN "ACTIVE"
                                                   ELSE "INVALIDATED",
                   seal |-> r.seal, remaining |-> r.cents,
                   truth |-> r.truth]]
      /\ seal' = [seal EXCEPT ![r.seal].status = r.to]
      /\ Done(c) /\ UNCHANGED <<outbox, claim>>
  BY <1>1 DEF CommitIssue, StillSealed
<1>3. Inv' /\ ReadsHold'
  BY CommitIssueInv, <1>2, DoneHolds DEF SerialInv
<1>4. permit \in [Permits -> PermitRow]
  BY DEF SerialInv, Inv, TypeOK
<1>5. /\ permit'[r.permit].seal = r.seal
      /\ permit'[r.permit].nonce \in {"ACTIVE", "INVALIDATED"}
      /\ \A p \in Permits : p # r.permit => permit'[p] = permit[p]
  BY <1>1, <1>2, <1>4
<1>6. /\ RowsKeyed' /\ NewestIsLive' /\ seal'[r.seal].status = r.to
      /\ \A t \in Seals : t # r.seal => seal'[t] = seal[t]
      /\ \A t \in Seals : seal'[t].status = "SUPERSEDED"
                            <=> seal[t].status = "SUPERSEDED"
  BY <1>1, <1>2, StatusMoves
<1>7. SupersededFree'
  BY <1>1, <1>2, <1>5, <1>6
  DEF SerialInv, Tables, SupersededFree, Inv, PermitsBound
<1>8. AbsentHasNoBatch' /\ TombstonedOutbox'
  BY <1>2, <1>5 DEF SerialInv, Tables, AbsentHasNoBatch, TombstonedOutbox
<1>9. ClaimedStaysInFlight'
  BY <1>1, <1>2, <1>6 DEF SerialInv, Tables, ClaimedStaysInFlight, InFlight
<1>10. QED
  BY <1>3, <1>6, <1>7, <1>8, <1>9 DEF SerialInv, Tables

LEMMA OutboxSerial ==
  ASSUME LoneClient, SerialInv, NEW c \in Clients, CommitOutbox(c)
  PROVE  SerialInv'
<1>1. PICK r \in Op : /\ r = req[c] /\ r.seal \in Seals /\ r.permit \in Permits
                      /\ permit[r.permit].nonce = "ACTIVE"
  BY DEF SerialInv, Inv, TypeOK, RequestsBound, Bound, CommitOutbox, Pending,
     ReadsHold, StillTrue
<1>2. /\ seal[r.seal].status = "PERMITTED"
      /\ outbox' = [outbox EXCEPT ![r.permit] = "DURABLE"]
      /\ seal' = [seal EXCEPT ![r.seal].status = "OUTBOX_DURABLE"]
      /\ Done(c) /\ UNCHANGED <<permit, claim>>
  BY <1>1 DEF CommitOutbox
<1>3. Inv' /\ ReadsHold'
  BY CommitOutboxInv, <1>2, DoneHolds DEF SerialInv
<1>4. \A p \in Permits : p # r.permit => outbox'[p] = outbox[p]
  BY <1>1, <1>2 DEF SerialInv, Inv, TypeOK
<1>5. /\ RowsKeyed' /\ NewestIsLive' /\ seal'[r.seal].status = "OUTBOX_DURABLE"
      /\ \A t \in Seals : t # r.seal => seal'[t] = seal[t]
      /\ \A t \in Seals : seal'[t].status = "SUPERSEDED"
                            <=> seal[t].status = "SUPERSEDED"
  <2>1. PICK to : to = "OUTBOX_DURABLE"
    OBVIOUS
  <2>2. seal' = [seal EXCEPT ![r.seal].status = to]
    BY <1>2, <2>1
  <2>3. /\ to \notin {"ABSENT", "SUPERSEDED"}
        /\ seal[r.seal].status \notin {"ABSENT", "SUPERSEDED"}
    BY <1>2, <2>1 DEF Cancellable
  <2>4. QED
    BY <1>1, <2>1, <2>2, <2>3, StatusMoves
<1>6. SupersededFree'
  BY <1>2, <1>5 DEF SerialInv, Tables, SupersededFree, Inv, PermitsBound
<1>7. AbsentHasNoBatch' /\ TombstonedOutbox'
  BY <1>1, <1>2, <1>4 DEF SerialInv, Tables, AbsentHasNoBatch, TombstonedOutbox
<1>8. ClaimedStaysInFlight'
  BY <1>1, <1>2, <1>5 DEF SerialInv, Tables, ClaimedStaysInFlight, InFlight
<1>9. QED
  BY <1>3, <1>5, <1>6, <1>7, <1>8 DEF SerialInv, Tables

(* Consuming or invalidating the nonce of a permit.                        *)
LEMMA NonceMoves ==
  ASSUME SerialInv, NEW p \in Permits, NEW nonce,
         permit' = [permit EXCEPT ![p].nonce = nonce]
  PROVE  /\ permit'[p].nonce = nonce
         /\ \A q \in Permits : permit'[q].seal = permit[q].seal
         /\ \A q \in Permits : q # p => permit'[q] = permit[q]
<1>1. permit \in [Permits -> PermitRow]
  BY DEF SerialInv, Inv, TypeOK
<1>2. QED
  BY <1>1 DEF PermitRow

LEMMA ClaimSerial ==
  ASSUME LoneClient, SerialInv, NEW c \in Clients, CommitClaim(c)
  PROVE  SerialInv'
<1>1. PICK r \in Op : /\ r = req[c] /\ r.seal \in Seals /\ r.permit \in Permits
                      /\ permit[r.permit].seal = r.seal
  BY DEF SerialInv, Inv, TypeOK, RequestsBound, Bound, CommitClaim, Pending
<1>2. /\ seal[r.seal].status = "OUTBOX_DURABLE"
      /\ permit[r.permit].nonce = "ACTIVE"
      /\ permit' = [permit EXCEPT ![r.permit].nonce = "CONSUMED"]
      /\ seal' = [seal EXCEPT ![r.seal].status = "SEND_CLAIMED"]
      /\ claim' = [claim EXCEPT ![r.seal] = r.permit]
      /\ Done(c) /\ UNCHANGED outbox
  BY <1>1 DEF CommitClaim, StillDurable, StillActive
<1>3. Inv' /\ ReadsHold'
  BY CommitClaimInv, <1>2, DoneHolds DEF SerialInv
<1>4. /\ permit'[r.permit].nonce = "CONSUMED"
      /\ \A q \in Permits : permit'[q].seal = permit[q].seal
      /\ \A q \in Permits : q # r.permit => permit'[q] = permit[q]
  BY <1>1, <1>2, NonceMoves
<1>5. /\ RowsKeyed' /\ NewestIsLive' /\ seal'[r.seal].status = "SEND_CLAIMED"
      /\ \A t \in Seals : t # r.seal => seal'[t] = seal[t]
      /\ \A t \in Seals : seal'[t].status = "SUPERSEDED"
                            <=> seal[t].status = "SUPERSEDED"
  <2>1. PICK to : to = "SEND_CLAIMED"
    OBVIOUS
  <2>2. seal' = [seal EXCEPT ![r.seal].status = to]
    BY <1>2, <2>1
  <2>3. /\ to \notin {"ABSENT", "SUPERSEDED"}
        /\ seal[r.seal].status \notin {"ABSENT", "SUPERSEDED"}
    BY <1>2, <2>1 DEF Cancellable
  <2>4. QED
    BY <1>1, <2>1, <2>2, <2>3, StatusMoves
<1>6. SupersededFree'
  BY <1>1, <1>2, <1>4, <1>5
  DEF SerialInv, Tables, SupersededFree, Inv, PermitsBound
<1>7. AbsentHasNoBatch' /\ TombstonedOutbox'
  BY <1>1, <1>2, <1>4 DEF SerialInv, Tables, AbsentHasNoBatch, TombstonedOutbox
<1>8. claim'[r.seal] # NoPermit /\ \A t \in Seals : t # r.seal => claim'[t] = claim[t]
  BY <1>1, <1>2, NullsAssumption DEF SerialInv, Inv, TypeOK
<1>9. ClaimedStaysInFlight'
  BY <1>1, <1>5, <1>8 DEF SerialInv, Tables, ClaimedStaysInFlight, InFlight
<1>10. QED
  BY <1>3, <1>5, <1>6, <1>7, <1>9 DEF SerialInv, Tables

LEMMA CancelSerial ==
  ASSUME LoneClient, SerialInv, NEW c \in Clients, CommitCancel(c)
  PROVE  SerialInv'
<1>1. PICK r \in Op : /\ r = req[c] /\ r.seal \in Seals /\ r.permit \in Permits
                      /\ permit[r.permit].seal = r.seal
                      /\ r.sawOutbox <=> outbox[r.permit] # "ABSENT"
  BY DEF SerialInv, Inv, TypeOK, RequestsBound, Bound, CommitCancel, Pending,
     ReadsHold, StillTrue
<1>2. /\ seal[r.seal].status \in Cancellable
      /\ permit[r.permit].nonce = "ACTIVE"
      /\ permit' = [permit EXCEPT ![r.permit].nonce = "INVALIDATED"]
      /\ seal' = [seal EXCEPT ![r.seal].status = "TOMBSTONED"]
      /\ outbox' = IF r.sawOutbox
                   THEN [outbox EXCEPT ![r.permit] = "TOMBSTONED"] ELSE outbox
      /\ Done(c) /\ UNCHANGED claim
  BY <1>1 DEF CommitCancel, StillCancellable, StillActive, OutboxAfterCancel
<1>3. Inv' /\ ReadsHold'
  BY CommitCancelInv, <1>2, DoneHolds DEF SerialInv
<1>4. /\ permit'[r.permit].nonce = "INVALIDATED"
      /\ \A q \in Permits : permit'[q].seal = permit[q].seal
      /\ \A q \in Permits : q # r.permit => permit'[q] = permit[q]
  BY <1>1, <1>2, NonceMoves
<1>5. /\ RowsKeyed' /\ NewestIsLive' /\ seal'[r.seal].status = "TOMBSTONED"
      /\ \A t \in Seals : t # r.seal => seal'[t] = seal[t]
      /\ \A t \in Seals : seal'[t].status = "SUPERSEDED"
                            <=> seal[t].status = "SUPERSEDED"
  <2>1. PICK to : to = "TOMBSTONED"
    OBVIOUS
  <2>2. seal' = [seal EXCEPT ![r.seal].status = to]
    BY <1>2, <2>1
  <2>3. /\ to \notin {"ABSENT", "SUPERSEDED"}
        /\ seal[r.seal].status \notin {"ABSENT", "SUPERSEDED"}
    BY <1>2, <2>1 DEF Cancellable
  <2>4. QED
    BY <1>1, <2>1, <2>2, <2>3, StatusMoves
<1>6. SupersededFree'
  BY <1>1, <1>2, <1>4, <1>5
  DEF SerialInv, Tables, SupersededFree, Inv, PermitsBound
<1>7. /\ outbox'[r.permit] \in {"ABSENT", "TOMBSTONED"}
      /\ \A q \in Permits : q # r.permit => outbox'[q] = outbox[q]
  BY <1>1, <1>2 DEF SerialInv, Inv, TypeOK
<1>8. AbsentHasNoBatch' /\ TombstonedOutbox'
  BY <1>4, <1>7 DEF SerialInv, Tables, AbsentHasNoBatch, TombstonedOutbox
<1>9. ClaimedStaysInFlight'
  BY <1>1, <1>2, <1>5
  DEF SerialInv, Tables, ClaimedStaysInFlight, InFlight, Cancellable
<1>10. QED
  BY <1>3, <1>5, <1>6, <1>8, <1>9 DEF SerialInv, Tables

LEMMA RecordSerial ==
  ASSUME LoneClient, SerialInv, NEW c \in Clients, CommitRecord(c)
  PROVE  SerialInv'
<1>1. PICK r \in Op : /\ r = req[c] /\ r.seal \in Seals
                      /\ r.from \in {"SEND_CLAIMED", "SUBMISSION_AMBIGUOUS"}
                      /\ r.to \in Outcomes
  BY DEF SerialInv, Inv, TypeOK, RequestsBound, Bound, CommitRecord, Pending
<1>2. /\ seal[r.seal].status = r.from
      /\ seal' = [seal EXCEPT ![r.seal].status = r.to]
      /\ Done(c) /\ UNCHANGED <<permit, outbox, claim>>
  BY <1>1 DEF CommitRecord
<1>3. Inv' /\ ReadsHold'
  BY CommitRecordInv, <1>2, DoneHolds DEF SerialInv
<1>4. /\ RowsKeyed' /\ NewestIsLive' /\ seal'[r.seal].status = r.to
      /\ \A t \in Seals : t # r.seal => seal'[t] = seal[t]
      /\ \A t \in Seals : seal'[t].status = "SUPERSEDED"
                            <=> seal[t].status = "SUPERSEDED"
  BY <1>1, <1>2, StatusMoves DEF Outcomes
<1>5. SupersededFree' /\ AbsentHasNoBatch' /\ TombstonedOutbox'
  BY <1>2, <1>4 DEF SerialInv, Tables, SupersededFree, AbsentHasNoBatch,
     TombstonedOutbox, Inv, PermitsBound
<1>6. ClaimedStaysInFlight'
  BY <1>1, <1>2, <1>4
  DEF SerialInv, Tables, ClaimedStaysInFlight, InFlight, Outcomes
<1>7. QED
  BY <1>3, <1>4, <1>5, <1>6 DEF SerialInv, Tables

-----------------------------------------------------------------------------

LEMMA NextSerial ==
  ASSUME LoneClient PROVE SerialInv /\ [Next]_vars => SerialInv'
<1> SUFFICES ASSUME SerialInv, [Next]_vars PROVE SerialInv'
  OBVIOUS
<1>1. Inv'
  BY NextInv DEF SerialInv
<1>2. QED
  BY <1>1, RequestSerial, RollbackSerial, WorldSerial, PublishSerial,
     IssueSerial, OutboxSerial, ClaimSerial, CancelSerial, RecordSerial
  DEF Next, Commit

LEMMA SerialInvariance == ASSUME LoneClient PROVE Spec => []SerialInv
<1>1. SerialInv /\ [Next]_vars => SerialInv'
  BY NextSerial
<1>2. QED
  BY InitSerial, <1>1, PTL DEF Spec

(* With one process the economic key cannot be escaped: whatever chain of  *)
(* plans, permits and cancellations, at most one seal of a key ever has or *)
(* had a right to send (publish_entry, issue_permit).                      *)
THEOREM NoKeyEscape == ASSUME LoneClient PROVE Spec => []OneSendRightPerKey
<1>1. SerialInv => OneSendRightPerKey
  <2> SUFFICES ASSUME SerialInv, NEW k \in Keys,
                      NEW s \in SendRights(k), NEW t \in SendRights(k), s # t
               PROVE  FALSE
    BY DEF OneSendRightPerKey
  <2>1. /\ s \in Seals /\ t \in Seals /\ seal[s].key = k /\ seal[t].key = k
        /\ seal[s].status # "SUPERSEDED" /\ seal[t].status # "SUPERSEDED"
    BY DEF SendRights, SealsOf, PermitsOf, SerialInv, Tables, SupersededFree
  <2>2. seal[s].rev \in Nat /\ seal[t].rev \in Nat
    BY <2>1 DEF SerialInv, Inv, TypeOK, SealRow
  <2>3. QED
    BY <2>1, <2>2 DEF SerialInv, Tables, NewestIsLive
<1>2. QED
  BY <1>1, SerialInvariance, PTL

(* With one process an entry is claimed exactly while it is in flight.     *)
THEOREM FlightIsFinal == ASSUME LoneClient PROVE Spec => []ClaimedStaysInFlight
<1>1. SerialInv => ClaimedStaysInFlight
  BY DEF SerialInv, Tables
<1>2. QED
  BY <1>1, SerialInvariance, PTL

(* With one process the plans of a key form a chain that only shrinks      *)
(* (_require_supersede_allowed).                                           *)
THEOREM PlansShrink == ASSUME LoneClient PROVE Spec => []RevisionChainShrinks
<1>1. SerialInv => RevisionChainShrinks
  BY NullsAssumption
  DEF SerialInv, Tables, NewestIsLive, RowsKeyed, RevisionChainShrinks,
      Inv, TypeOK, SealRow
<1>2. QED
  BY <1>1, SerialInvariance, PTL

(* With one process a cancellation takes the batch with it                 *)
(* (cancel_unclaimed_entry).                                               *)
THEOREM CancelTakesTheBatch == ASSUME LoneClient PROVE Spec => []TombstonedOutbox
<1>1. SerialInv => TombstonedOutbox
  BY DEF SerialInv, Tables
<1>2. QED
  BY <1>1, SerialInvariance, PTL

-----------------------------------------------------------------------------
(* The send right that one client's tables implement.  RightInv adds to    *)
(* SerialInv what the abstract steps ask for: the cash of a plan and of    *)
(* what is pending.                                                        *)

(* An open plan has set its cash aside, and what a pending operation asks  *)
(* for is covered: by the admission's cash, or by the plan.                *)
PlanFunded ==
  \A s \in Seals : seal[s].status = "SEALED" =>
    reserve[s] = seal[s].cents /\ seal[s].cents \in 1..Cash
Affordable(r) ==
  /\ r.kind = "publish" => r.cents \in 1..Cash
  /\ r.kind = "issue" /\ r.to = "PERMITTED" => r.cents \in 1..reserve[r.seal]
RightInv ==
  SerialInv /\ PlanFunded /\ (\A c \in Clients : Affordable(req[c]))

LEMMA InitRight == Init => RightInv
<1> SUFFICES ASSUME Init PROVE RightInv
  OBVIOUS
<1>1. SerialInv
  BY InitSerial
<1>2. PlanFunded
  BY DEF Init, PlanFunded, NoSealRow
<1>3. \A c \in Clients : Affordable(req[c])
  BY DEF Init, Affordable, Idle
<1>4. QED
  BY <1>1, <1>2, <1>3 DEF RightInv

LEMMA ReadAffordable ==
  ASSUME NEW c \in Clients, Request(c)
  PROVE  \E r : Read(c, r) /\ Affordable(r)
<1>1. ASSUME NEW s \in Seals, NEW k \in Keys, NEW cents \in 1..Cash,
             ReadPublish(c, s, k, cents)
      PROVE  \E r : Read(c, r) /\ Affordable(r)
  <2>1. PICK old, rev :
          Read(c, [Idle EXCEPT !.kind = "publish", !.seal = s, !.key = k,
                               !.rev = rev, !.cents = cents])
          \/ Read(c, [Idle EXCEPT !.kind = "publish", !.seal = s, !.key = k,
                                  !.old = old, !.rev = rev, !.cents = cents])
    BY <1>1 DEF ReadPublish
  <2>2. PICK r : Read(c, r) /\ r.kind = "publish" /\ r.cents = cents
    <3>1. PICK r, q :
            /\ r = [Idle EXCEPT !.kind = "publish", !.seal = s, !.key = k,
                                !.rev = rev, !.cents = cents]
            /\ q = [Idle EXCEPT !.kind = "publish", !.seal = s, !.key = k,
                                !.old = old, !.rev = rev, !.cents = cents]
      OBVIOUS
    <3>2. /\ r.kind = "publish" /\ r.cents = cents
          /\ q.kind = "publish" /\ q.cents = cents
      BY <3>1 DEF Idle
    <3>3. QED
      BY <2>1, <3>1, <3>2
  <2>3. QED
    BY <2>2 DEF Affordable
<1>2. ASSUME NEW p \in Permits, NEW s \in Seals, NEW allow \in BOOLEAN,
             NEW cents \in 0..Cash, ReadIssue(c, p, s, allow, cents)
      PROVE  \E r : Read(c, r) /\ Affordable(r)
  <2>1. PICK r : r = [Idle EXCEPT !.kind = "issue", !.seal = s, !.permit = p,
                          !.cents = cents, !.truth = truth,
                          !.from = "SEALED",
                          !.to = IF allow THEN "PERMITTED" ELSE "TOMBSTONED"]
    OBVIOUS
  <2>2. /\ r.kind = "issue" /\ r.cents = cents /\ r.seal = s
        /\ r.to = IF allow THEN "PERMITTED" ELSE "TOMBSTONED"
    BY <2>1 DEF Idle
  <2>3. Read(c, r)
    BY <1>2, <2>1 DEF ReadIssue
  <2>4. allow => cents \in 1..reserve[s]
    BY <1>2 DEF ReadIssue
  <2>5. QED
    BY <2>2, <2>3, <2>4 DEF Affordable
<1>3. ASSUME NEW p \in Permits, ReadOutbox(c, p)
      PROVE  \E r : Read(c, r) /\ Affordable(r)
  <2>1. PICK r : r = [Idle EXCEPT !.kind = "outbox", !.seal = permit[p].seal,
                                  !.permit = p, !.from = "PERMITTED",
                                  !.to = "OUTBOX_DURABLE"]
    OBVIOUS
  <2>2. r.kind = "outbox"
    BY <2>1 DEF Idle
  <2>3. Read(c, r)
    BY <1>3, <2>1 DEF ReadOutbox
  <2>4. QED
    BY <2>2, <2>3 DEF Affordable
<1>4. ASSUME NEW p \in Permits, ReadClaim(c, p)
      PROVE  \E r : Read(c, r) /\ Affordable(r)
  <2>1. PICK r : r = [Idle EXCEPT !.kind = "claim", !.seal = permit[p].seal,
                                  !.permit = p, !.from = "OUTBOX_DURABLE",
                                  !.to = "SEND_CLAIMED"]
    OBVIOUS
  <2>2. r.kind = "claim"
    BY <2>1 DEF Idle
  <2>3. Read(c, r)
    BY <1>4, <2>1 DEF ReadClaim
  <2>4. QED
    BY <2>2, <2>3 DEF Affordable
<1>5. ASSUME NEW p \in Permits, ReadCancel(c, p)
      PROVE  \E r : Read(c, r) /\ Affordable(r)
  <2>1. PICK r : r = [Idle EXCEPT !.kind = "cancel", !.seal = permit[p].seal,
                                  !.permit = p, !.sawOutbox = outbox[p] # "ABSENT",
                                  !.to = "TOMBSTONED"]
    OBVIOUS
  <2>2. r.kind = "cancel"
    BY <2>1 DEF Idle
  <2>3. Read(c, r)
    BY <1>5, <2>1 DEF ReadCancel
  <2>4. QED
    BY <2>2, <2>3 DEF Affordable
<1>6. ASSUME NEW s \in Seals, NEW outcome \in Outcomes, ReadRecord(c, s, outcome)
      PROVE  \E r : Read(c, r) /\ Affordable(r)
  <2>1. PICK r : r = [Idle EXCEPT !.kind = "record", !.seal = s,
                                  !.from = seal[s].status, !.to = outcome]
    OBVIOUS
  <2>2. r.kind = "record"
    BY <2>1 DEF Idle
  <2>3. Read(c, r)
    BY <1>6, <2>1 DEF ReadRecord
  <2>4. QED
    BY <2>2, <2>3 DEF Affordable
<1>7. QED
  BY <1>1, <1>2, <1>3, <1>4, <1>5, <1>6 DEF Request

LEMMA FundsKept ==
  ASSUME RightInv, UNCHANGED tables,
         \A c \in Clients : Affordable(req'[c]) \/ req'[c] = req[c]
  PROVE  PlanFunded' /\ (\A c \in Clients : Affordable(req[c]))'
<1>1. PlanFunded'
  BY DEF RightInv, PlanFunded, tables
<1>2. \A c \in Clients : Affordable(req'[c])
  BY DEF RightInv
<1>3. QED
  BY <1>1, <1>2 DEF Affordable, tables

(* After a commit of the only client nothing is pending; a plan is written *)
(* with its cash, and left with its status.                                *)
LEMMA CommitFunded ==
  ASSUME LoneClient, RightInv, NEW c \in Clients, Commit(c)
  PROVE  PlanFunded' /\ (\A d \in Clients : Affordable(req[d]))'
<1> DEFINE r == req[c]
<1>1. Done(c) /\ r \in Op /\ TypeOK
  BY DEF RightInv, SerialInv, Inv, TypeOK, Commit, CommitPublish, CommitIssue,
     CommitOutbox, CommitClaim, CommitCancel, CommitRecord
<1>2. \A d \in Clients : req'[d] = Idle
  BY <1>1 DEF LoneClient, Done, TypeOK
<1>3. (\A d \in Clients : Affordable(req[d]))'
  BY <1>2 DEF Affordable, Idle
<1>4. CASE CommitPublish(c)
  <2>1. r.cents \in 1..Cash /\ r.seal \in Seals
    BY <1>4 DEF CommitPublish, Pending, RightInv, Affordable, SerialInv, Inv,
       RequestsBound, Bound
  <2>2. /\ seal' = [s \in Seals |->
                      IF s = r.seal
                      THEN [status |-> "SEALED", key |-> r.key, rev |-> r.rev,
                            cents |-> r.cents]
                      ELSE Superseded(s, r.old)]
        /\ reserve' = [reserve EXCEPT ![r.seal] = r.cents]
    BY <1>4 DEF CommitPublish
  <2>3. ASSUME NEW s \in Seals, seal'[s].status = "SEALED", s # r.seal
        PROVE  seal'[s] = seal[s] /\ reserve'[s] = reserve[s]
    BY <2>2, <2>3, <1>1 DEF Superseded, TypeOK, SealRow
  <2>4. seal'[r.seal].cents = r.cents /\ reserve'[r.seal] = r.cents
    BY <2>1, <2>2, <1>1 DEF TypeOK
  <2>5. PlanFunded'
    BY <2>1, <2>3, <2>4 DEF PlanFunded, RightInv
  <2>6. QED
    BY <1>3, <2>5
<1>5. CASE ~CommitPublish(c)
  <2>1. PICK s \in Seals, st \in SealStatus :
          /\ seal' = [seal EXCEPT ![s].status = st] /\ st # "SEALED"
          /\ \A t \in Seals \ {s} : reserve'[t] = reserve[t]
    <3>1. r.kind # "idle" => r.seal \in Seals
      BY DEF RightInv, SerialInv, Inv, RequestsBound, Bound
    <3>2. r.kind = "issue" => r.to \in {"PERMITTED", "TOMBSTONED"}
      BY DEF RightInv, SerialInv, Inv, RequestsBound, Bound
    <3>3. r.kind = "record" => r.to \in Outcomes
      BY DEF RightInv, SerialInv, Inv, RequestsBound, Bound
    <3>4. PICK st \in SealStatus :
            /\ seal' = [seal EXCEPT ![r.seal].status = st] /\ st # "SEALED"
            /\ reserve' = reserve \/ \E n : reserve' = [reserve EXCEPT ![r.seal] = n]
            /\ r.kind # "idle"
      BY <1>5, <3>2, <3>3 DEF Commit, CommitIssue, CommitOutbox, CommitClaim,
         CommitCancel, CommitRecord, Pending, SealStatus, Outcomes
    <3>5. QED
      BY <3>1, <3>4, <1>1 DEF TypeOK
  <2>2. \A t \in Seals : t # s => seal'[t] = seal[t]
    BY <2>1, <1>1 DEF TypeOK
  <2>3. seal'[s].status = st
    BY <2>1, <1>1 DEF TypeOK, SealRow
  <2>4. PlanFunded'
    BY <2>1, <2>2, <2>3 DEF PlanFunded, RightInv
  <2>5. QED
    BY <1>3, <2>4
<1>6. QED
  BY <1>4, <1>5

LEMMA NextRight ==
  ASSUME LoneClient, RightInv, [Next]_vars PROVE RightInv'
<1>1. SerialInv'
  BY NextSerial DEF RightInv
<1>2. PlanFunded' /\ (\A c \in Clients : Affordable(req[c]))'
  <2>1. CASE UNCHANGED vars
    BY <2>1, FundsKept DEF vars, tables
  <2>2. CASE Tick \/ Drift \/ Latch
    BY <2>2, FundsKept DEF Tick, Drift, Latch
  <2>3. ASSUME NEW c \in Clients, Request(c)
        PROVE  PlanFunded' /\ (\A d \in Clients : Affordable(req[d]))'
    <3>1. PICK r : Read(c, r) /\ Affordable(r)
      BY <2>3, ReadAffordable
    <3>2. \A d \in Clients : req'[d] = r \/ req'[d] = req[d]
      BY <3>1 DEF Read, RightInv, SerialInv, Inv, TypeOK
    <3>3. UNCHANGED tables
      BY <3>1 DEF Read
    <3>4. QED
      BY <3>1, <3>2, <3>3, FundsKept
  <2>4. ASSUME NEW c \in Clients, Rollback(c)
        PROVE  PlanFunded' /\ (\A d \in Clients : Affordable(req[d]))'
    <3>1. \A d \in Clients : req'[d] = Idle \/ req'[d] = req[d]
      BY <2>4 DEF Rollback, Done, RightInv, SerialInv, Inv, TypeOK
    <3>2. Affordable(Idle)
      BY DEF Affordable, Idle
    <3>3. QED
      BY <2>4, <3>1, <3>2, FundsKept DEF Rollback
  <2>5. QED
    BY <2>1, <2>2, <2>3, <2>4, CommitFunded DEF Next
<1>3. QED
  BY <1>1, <1>2 DEF RightInv

(* The seal that stands for a key is the only one not superseded, so its   *)
(* row is the right of the key; the permit that is live at it holds it.    *)
LEMMA RightIs ==
  SerialInv => \A k \in Keys : \A s \in Standing(k) : RightOf(k) = RightAt(s)
<1> SUFFICES ASSUME SerialInv, NEW k \in Keys, NEW s \in Standing(k)
             PROVE  RightOf(k) = RightAt(s)
  OBVIOUS
<1>1. \A t \in Standing(k) : t = s
  <2> SUFFICES ASSUME NEW t \in Standing(k), t # s PROVE FALSE
    OBVIOUS
  <2>1. /\ s \in Seals /\ t \in Seals /\ seal[s].key = k /\ seal[t].key = k
        /\ seal[s].status # "SUPERSEDED" /\ seal[t].status # "SUPERSEDED"
    BY DEF Standing, SealsOf
  <2>2. seal[s].rev \in Nat /\ seal[t].rev \in Nat
    BY <2>1 DEF SerialInv, Inv, TypeOK, SealRow
  <2>3. /\ seal[s].rev # seal[t].rev
        /\ ~(seal[s].rev < seal[t].rev) /\ ~(seal[t].rev < seal[s].rev)
    BY <2>1 DEF SerialInv, Tables, NewestIsLive
  <2>4. QED
    BY <2>2, <2>3
<1>2. PICK u : u = CHOOSE t \in Standing(k) : TRUE
  OBVIOUS
<1>3. u = s
  BY <1>1, <1>2
<1>4. QED
  BY <1>2, <1>3 DEF RightOf

LEMMA HolderIs ==
  SerialInv => \A s \in Seals : \A p \in Holders(s) : HolderIn(Holders(s)) = p
<1> SUFFICES ASSUME SerialInv, NEW s \in Seals, NEW p \in Holders(s)
             PROVE  HolderIn(Holders(s)) = p
  OBVIOUS
<1>1. \A q \in Holders(s) : q = p
  BY DEF SerialInv, Inv, OnePermitPerSeal, Holders
<1>2. QED
  BY <1>1 DEF HolderIn

LEMMA NoHolder == HolderIn({}) = NoPermit
  BY DEF HolderIn

(* Whoever holds a right is a live permit.                                 *)
LEMMA HolderLives ==
  ASSUME NEW k
  PROVE  \/ RightOf(k).holder = NoPermit
         \/ /\ RightOf(k).holder \in Permits
            /\ permit[RightOf(k).holder].nonce \in {"ACTIVE", "CONSUMED"}
<1>1. CASE Standing(k) = {}
  BY <1>1 DEF RightOf, NoRight
<1>2. CASE Standing(k) # {}
  <2>1. PICK s : RightOf(k) = RightAt(s)
    BY <1>2 DEF RightOf
  <2>2. RightOf(k).holder = HolderIn(Holders(s))
    BY <2>1 DEF RightAt
  <2>3. HolderIn(Holders(s)) = NoPermit \/ HolderIn(Holders(s)) \in Holders(s)
    BY DEF HolderIn
  <2>4. QED
    BY <2>2, <2>3 DEF Holders, PermitsOf
<1>3. QED
  BY <1>1, <1>2

Same(t) ==
  seal'[t] = seal[t] /\ reserve'[t] = reserve[t] /\ Holders(t)' = Holders(t)

LEMMA LaterRight ==
  ASSUME SerialInv'
  PROVE  (\A k \in Keys : \A s \in Standing(k) : RightOf(k) = RightAt(s))'
<1>1. (SerialInv => \A k \in Keys : \A s \in Standing(k) :
                      RightOf(k) = RightAt(s))'
  BY RightIs, PTL
<1>2. QED
  BY <1>1

(* What a commit does to the seals of one key is not seen at another.      *)
LEMMA OthersKept ==
  ASSUME SerialInv, SerialInv', NEW k,
         \A t \in Seals :
           \/ Same(t)
           \/ seal[t].key \notin Keys \ {k} /\ seal'[t].key = k
  PROVE  \A j \in Keys \ {k} : RightOf(j)' = RightOf(j)
<1> SUFFICES ASSUME NEW j \in Keys \ {k} PROVE RightOf(j)' = RightOf(j)
  OBVIOUS
<1>1. /\ Standing(j)' = Standing(j)
      /\ \A s \in Standing(j) : s \in Seals /\ Same(s)
  BY DEF Standing, SealsOf, Same
<1>2. CASE Standing(j) = {}
  BY <1>1, <1>2 DEF RightOf, NoRight
<1>3. ASSUME NEW s \in Standing(j) PROVE RightOf(j)' = RightOf(j)
  <2>1. RightOf(j) = RightAt(s)
    BY RightIs
  <2>2. (\A i \in Keys : \A t \in Standing(i) : RightOf(i) = RightAt(t))'
    BY LaterRight
  <2>3. RightOf(j)' = RightAt(s)'
    BY <1>1, <2>2
  <2>4. RightAt(s)' = RightAt(s)
    BY <1>1 DEF RightAt, Same
  <2>5. QED
    BY <2>1, <2>3, <2>4
<1>4. QED
  BY <1>2, <1>3

(* A commit that moves the status of one seal that stands.                 *)
LEMMA OneRow ==
  ASSUME SerialInv, SerialInv', NEW s \in Seals, seal[s].key \in Keys,
         seal[s].status # "SUPERSEDED", seal'[s].status # "SUPERSEDED",
         seal'[s].key = seal[s].key, \A t \in Seals \ {s} : Same(t)
  PROVE  /\ RightOf(seal[s].key) = RightAt(s)
         /\ RightOf(seal[s].key)' = RightAt(s)'
         /\ \A j \in Keys \ {seal[s].key} : RightOf(j)' = RightOf(j)
<1>1. s \in Standing(seal[s].key)
  BY DEF Standing, SealsOf
<1>2. PICK k \in Keys : k = seal[s].key
  OBVIOUS
<1>3. s \in Standing(k)'
  BY <1>2 DEF Standing, SealsOf
<1>4. (\A i \in Keys : \A t \in Standing(i) : RightOf(i) = RightAt(t))'
  BY LaterRight
<1>5. RightOf(k) = RightAt(s) /\ RightOf(k)' = RightAt(s)'
  BY <1>1, <1>2, <1>3, <1>4, RightIs
<1>6. \A j \in Keys \ {k} : RightOf(j)' = RightOf(j)
  <2>1. \A t \in Seals :
          \/ Same(t)
          \/ seal[t].key \notin Keys \ {k} /\ seal'[t].key = k
    <3>1. seal[s].key \notin Keys \ {k} /\ seal'[s].key = k
      BY <1>2
    <3>2. ASSUME NEW t \in Seals, t # s PROVE Same(t)
      BY <3>2
    <3>3. QED
      BY <3>1, <3>2
  <2>2. QED
    BY <2>1, OthersKept
<1>7. QED
  BY <1>2, <1>5, <1>6

LEMMA Moved ==
  ASSUME NEW k \in Keys, NEW v, RightOf(k)' = v,
         \A j \in Keys \ {k} : RightOf(j)' = RightOf(j)
  PROVE  Rights' = [Rights EXCEPT ![k] = v] /\ Rights[k] = RightOf(k)
  BY DEF Rights

LEMMA NotMoved ==
  ASSUME \A j \in Keys : RightOf(j)' = RightOf(j) PROVE Rights' = Rights
  BY DEF Rights

LEMMA HoldersKept ==
  ASSUME NEW p \in Permits, NEW s \in Seals,
         \A q \in Permits \ {p} : permit'[q] = permit[q],
         permit'[p].seal = s, permit[p].seal = s \/ permit[p].nonce = "ABSENT"
  PROVE  \A t \in Seals \ {s} : Holders(t)' = Holders(t)
  BY DEF Holders, PermitsOf

LEMMA StandingKey ==
  ASSUME SerialInv, NEW s \in Seals, seal[s].status # "ABSENT"
  PROVE  seal[s].key \in Keys
  BY DEF SerialInv, Tables, RowsKeyed

LEMMA Phases ==
  /\ Phase("SEALED") = "planned" /\ Phase("TOMBSTONED") = "dead"
  /\ \A st \in Cancellable : Phase(st) = "held"
  /\ \A st \in InFlight : Phase(st) = "used"
  BY DEF Phase, Cancellable, InFlight

LEMMA Shown ==
  ASSUME NEW s
  PROVE  /\ RightAt(s).phase = Phase(seal[s].status)
         /\ RightAt(s).holder = HolderIn(Holders(s))
         /\ RightAt(s).cents = reserve[s]
         /\ RightAt(s)' = SR!Right(Phase(seal'[s].status),
                                   HolderIn(Holders(s)'), reserve'[s])
  BY DEF RightAt, SR!Right

(* publish_entry asks for the right of a new key, or asks for less.        *)
LEMMA PublishRight ==
  ASSUME RightInv, RightInv', NEW c \in Clients, CommitPublish(c)
  PROVE  SR!Next
<1> DEFINE r == req[c]
<1> USE DEF RightInv
<1>1. PICK s, k, cents, old : s = r.seal /\ k = r.key /\ cents = r.cents /\ old = r.old
  OBVIOUS
<1>2. s \in Seals /\ k \in Keys /\ cents \in 1..Cash /\ TypeOK
  BY <1>1 DEF CommitPublish, Pending, SerialInv, Inv, RequestsBound, Bound,
     Affordable
<1>3. seal[s].status = "ABSENT" /\ permit' = permit
  BY <1>1 DEF CommitPublish, PublishIndexesHold
<1>4. StillTrue(r) /\ r.kind = "publish"
  BY DEF CommitPublish, Pending, SerialInv, ReadsHold
<1>5. /\ seal' = [t \in Seals |->
                    IF t = s THEN [status |-> "SEALED", key |-> k, rev |-> r.rev,
                                   cents |-> cents]
                    ELSE Superseded(t, old)]
      /\ reserve' = [reserve EXCEPT ![s] = cents]
  BY <1>1 DEF CommitPublish
<1>6. /\ seal'[s].status = "SEALED" /\ seal'[s].key = k /\ reserve'[s] = cents
      /\ \A t \in Seals \ {s} : seal'[t] = Superseded(t, old)
                                /\ reserve'[t] = reserve[t]
  BY <1>2, <1>5 DEF TypeOK
<1>7. \A t \in Seals : Holders(t)' = Holders(t)
  BY <1>3 DEF Holders, PermitsOf
<1>8. Holders(s) = {}
  BY <1>3 DEF Holders, PermitsOf, SerialInv, Inv, PermitsBound
<1>9. RightOf(k)' = SR!Right("planned", NoPermit, cents)
  <2>1. s \in Standing(k)'
    BY <1>2, <1>6 DEF Standing, SealsOf
  <2>2. RightOf(k)' = RightAt(s)'
    BY <1>2, <2>1, LaterRight
  <2>3. HolderIn(Holders(s)') = NoPermit
    BY <1>2, <1>7, <1>8, NoHolder
  <2>4. QED
    BY <1>6, <2>2, <2>3, Phases, Shown
<1>10. old # NoSeal => /\ old \in Seals /\ old # s /\ seal[old].key = k
                       /\ seal[old].status = "SEALED" /\ cents <= seal[old].cents
  BY <1>1, <1>3, <1>4 DEF StillTrue, LatestSeals, SealsOf, SupersedeAllowed
<1>11. \A j \in Keys \ {k} : RightOf(j)' = RightOf(j)
  <2>1. ASSUME NEW t \in Seals
        PROVE  \/ Same(t)
               \/ seal[t].key \notin Keys \ {k} /\ seal'[t].key = k
    <3>1. CASE t = s
      BY <1>2, <1>3, <1>6, <3>1 DEF SerialInv, Tables, RowsKeyed
    <3>2. CASE t # s /\ t = old
      <4>1. seal[t].key = k /\ seal'[t] = [seal[t] EXCEPT !.status = "SUPERSEDED"]
        BY <1>6, <1>10, <3>2, NullsAssumption DEF Superseded
      <4>2. seal'[t].key = k
        BY <1>2, <4>1 DEF TypeOK, SealRow
      <4>3. QED
        BY <4>1, <4>2
    <3>3. CASE t # s /\ t # old
      BY <1>6, <1>7, <3>3 DEF Superseded, Same
    <3>4. QED
      BY <3>1, <3>2, <3>3
  <2>2. QED
    BY <2>1, OthersKept
<1>12. CASE old = NoSeal
  <2>1. Standing(k) = {}
    BY <1>1, <1>4, <1>12 DEF StillTrue, Standing
  <2>2. Rights[k].phase = "none"
    BY <1>2, <2>1 DEF Rights, RightOf, NoRight
  <2>3. SR!Plan(k, cents)
    BY <1>2, <1>9, <1>11, <2>2, Moved DEF SR!Plan
  <2>4. QED
    BY <1>2, <2>3 DEF SR!Next
<1>13. CASE old # NoSeal
  <2>1. old \in Standing(k)
    BY <1>10, <1>13 DEF Standing, SealsOf
  <2>2. Rights[k] = RightAt(old)
    BY <1>2, <2>1, RightIs DEF Rights
  <2>3. Rights[k].phase = "planned" /\ Rights[k].cents = seal[old].cents
    BY <1>10, <1>13, <2>2, Phases, Shown DEF PlanFunded
  <2>4. SR!Replan(k, cents)
    BY <1>2, <1>9, <1>10, <1>11, <1>13, <2>3, Moved DEF SR!Replan
  <2>5. QED
    BY <1>2, <2>4 DEF SR!Next
<1>14. QED
  BY <1>12, <1>13

(* A commit that moves one seal moves the right of its key.                *)
LEMMA StatusRight ==
  ASSUME RightInv, RightInv', NEW s \in Seals, NEW st, st # "SUPERSEDED",
         seal[s].status \notin {"ABSENT", "SUPERSEDED"},
         seal' = [seal EXCEPT ![s].status = st],
         \A t \in Seals \ {s} : reserve'[t] = reserve[t] /\ Holders(t)' = Holders(t)
  PROVE  /\ seal[s].key \in Keys /\ Rights[seal[s].key] = RightAt(s)
         /\ Rights' = [Rights EXCEPT ![seal[s].key] =
                         SR!Right(Phase(st), HolderIn(Holders(s)'), reserve'[s])]
<1>1. seal[s].key \in Keys
  BY StandingKey DEF RightInv
<1>2. PICK k \in Keys : k = seal[s].key
  BY <1>1
<1>3. /\ seal'[s].status = st /\ seal'[s].key = k
      /\ \A t \in Seals \ {s} : seal'[t] = seal[t]
  BY <1>2 DEF RightInv, SerialInv, Inv, TypeOK, SealRow
<1>4. SerialInv /\ SerialInv' /\ \A t \in Seals \ {s} : Same(t)
  BY <1>3 DEF RightInv, Same
<1>5. /\ RightOf(k) = RightAt(s) /\ RightOf(k)' = RightAt(s)'
      /\ \A j \in Keys \ {k} : RightOf(j)' = RightOf(j)
  BY <1>1, <1>2, <1>3, <1>4, OneRow
<1>6. RightAt(s)' = SR!Right(Phase(st), HolderIn(Holders(s)'), reserve'[s])
  BY <1>3, Shown
<1>7. QED
  BY <1>1, <1>2, <1>5, <1>6, Moved

LEMMA LaterHolder ==
  ASSUME SerialInv'
  PROVE  (\A s \in Seals : \A p \in Holders(s) : HolderIn(Holders(s)) = p)'
<1>1. (SerialInv => \A s \in Seals : \A p \in Holders(s) :
                      HolderIn(Holders(s)) = p)'
  BY HolderIs, PTL
<1>2. QED
  BY <1>1

(* issue_permit grants the right to the permit, or gives it up.            *)
LEMMA IssueRight ==
  ASSUME RightInv, RightInv', NEW c \in Clients, CommitIssue(c)
  PROVE  SR!Next
<1> DEFINE r == req[c]
<1>1. PICK s, p, st, cents :
        s = r.seal /\ p = r.permit /\ st = r.to /\ cents = r.cents
  OBVIOUS
<1>2. /\ s \in Seals /\ p \in Permits /\ TypeOK
      /\ st \in {"PERMITTED", "TOMBSTONED"}
      /\ st = "TOMBSTONED" => cents = 0
      /\ st = "PERMITTED" => cents \in 1..reserve[s]
  BY <1>1 DEF CommitIssue, Pending, RightInv, SerialInv, Inv, RequestsBound,
     Bound, Affordable
<1>3. /\ permit[p].nonce = "ABSENT" /\ seal[s].status = "SEALED"
      /\ permit' = [permit EXCEPT ![p] =
                      [nonce |-> IF st = "PERMITTED" THEN "ACTIVE"
                                                     ELSE "INVALIDATED",
                       seal |-> s, remaining |-> cents, truth |-> r.truth]]
      /\ reserve' = [reserve EXCEPT ![s] = cents]
      /\ seal' = [seal EXCEPT ![s].status = st]
  BY <1>1 DEF CommitIssue, StillSealed
<1>4. /\ permit'[p].seal = s
      /\ permit'[p].nonce = IF st = "PERMITTED" THEN "ACTIVE" ELSE "INVALIDATED"
      /\ \A q \in Permits \ {p} : permit'[q] = permit[q]
      /\ reserve'[s] = cents
      /\ \A t \in Seals \ {s} : reserve'[t] = reserve[t]
  BY <1>2, <1>3 DEF TypeOK
<1>5. \A t \in Seals \ {s} : Holders(t)' = Holders(t)
  BY <1>2, <1>3, <1>4, HoldersKept
<1>6. PICK k \in Keys :
        /\ Rights[k] = RightAt(s)
        /\ Rights' = [Rights EXCEPT ![k] =
                        SR!Right(Phase(st), HolderIn(Holders(s)'), cents)]
  <2>1. st # "SUPERSEDED" /\ seal[s].status \notin {"ABSENT", "SUPERSEDED"}
    BY <1>2, <1>3
  <2>2. \A t \in Seals \ {s} : reserve'[t] = reserve[t] /\ Holders(t)' = Holders(t)
    BY <1>4, <1>5
  <2>3. s \in Seals /\ seal' = [seal EXCEPT ![s].status = st]
    BY <1>2, <1>3
  <2>4. /\ seal[s].key \in Keys /\ Rights[seal[s].key] = RightAt(s)
        /\ Rights' = [Rights EXCEPT ![seal[s].key] =
                        SR!Right(Phase(st), HolderIn(Holders(s)'), reserve'[s])]
    BY <2>1, <2>2, <2>3, StatusRight
  <2>5. reserve'[s] = cents
    BY <1>4
  <2>6. QED
    BY <2>4, <2>5
<1>7. Rights[k].phase = "planned" /\ Rights[k].cents = reserve[s]
  BY <1>3, <1>6, Shown, Phases
<1>8. CASE st = "PERMITTED"
  <2>1. p \in Holders(s)'
    BY <1>2, <1>4, <1>8 DEF Holders, PermitsOf
  <2>2. HolderIn(Holders(s)') = p
    BY <1>2, <2>1, LaterHolder DEF RightInv
  <2>3. \A j \in Keys : Rights[j].holder # p
    BY <1>2, <1>3, HolderLives, NullsAssumption DEF Rights
  <2>4. cents \in 1..Cash /\ cents <= reserve[s]
    BY <1>2, <1>3, <1>8, BoundsAssumption DEF RightInv, PlanFunded
  <2>5. Phase(st) = "held"
    BY <1>8, Phases DEF Cancellable
  <2>6. SR!Grant(k, p, cents)
    BY <1>6, <1>7, <2>2, <2>3, <2>4, <2>5 DEF SR!Grant
  <2>7. QED
    BY <1>2, <2>4, <2>6 DEF SR!Next
<1>9. CASE st = "TOMBSTONED"
  <2>1. Holders(s)' = {}
    BY <1>2, <1>3, <1>4, <1>9
    DEF Holders, PermitsOf, RightInv, SerialInv, Inv, PermitsBound
  <2>2. SR!GiveUp(k)
    BY <1>2, <1>6, <1>7, <1>9, <2>1, Phases, NoHolder DEF SR!GiveUp
  <2>3. QED
    BY <2>2 DEF SR!Next
<1>10. QED
  BY <1>2, <1>8, <1>9

(* The outbox and the delivery outcome change nothing that is promised.    *)
LEMMA UnshownStatus ==
  ASSUME RightInv, RightInv', NEW s \in Seals, NEW st, st # "SUPERSEDED",
         seal[s].status \notin {"ABSENT", "SUPERSEDED"},
         seal' = [seal EXCEPT ![s].status = st],
         Phase(st) = Phase(seal[s].status), UNCHANGED <<reserve, permit>>
  PROVE  UNCHANGED Rights
<1>1. \A t \in Seals : Holders(t)' = Holders(t)
  BY DEF Holders, PermitsOf
<1>2. PICK k \in Keys :
        /\ Rights[k] = RightAt(s)
        /\ Rights' = [Rights EXCEPT ![k] =
                        SR!Right(Phase(st), HolderIn(Holders(s)'), reserve'[s])]
  BY <1>1, StatusRight
<1>3. RightAt(s) = SR!Right(Phase(st), HolderIn(Holders(s)'), reserve'[s])
  BY <1>1 DEF RightAt, SR!Right
<1>4. QED
  BY <1>2, <1>3 DEF Rights

LEMMA OutboxRight ==
  ASSUME RightInv, RightInv', NEW c \in Clients, CommitOutbox(c)
  PROVE  UNCHANGED Rights
<1>1. PICK s \in Seals : s = req[c].seal
  BY DEF CommitOutbox, Pending, RightInv, SerialInv, Inv, RequestsBound, Bound
<1>2. /\ seal[s].status = "PERMITTED" /\ UNCHANGED <<reserve, permit>>
      /\ seal' = [seal EXCEPT ![s].status = "OUTBOX_DURABLE"]
  BY <1>1 DEF CommitOutbox
<1>3. Phase("OUTBOX_DURABLE") = Phase(seal[s].status)
  BY <1>2, Phases DEF Cancellable
<1>4. QED
  BY <1>2, <1>3, UnshownStatus

LEMMA RecordRight ==
  ASSUME RightInv, RightInv', NEW c \in Clients, CommitRecord(c)
  PROVE  UNCHANGED Rights
<1>1. PICK s, from, to :
        /\ s \in Seals /\ s = req[c].seal /\ from = req[c].from /\ to = req[c].to
        /\ from \in {"SEND_CLAIMED", "SUBMISSION_AMBIGUOUS"} /\ to \in Outcomes
  BY DEF CommitRecord, Pending, RightInv, SerialInv, Inv, RequestsBound, Bound
<1>2. /\ seal[s].status = from /\ UNCHANGED <<reserve, permit>>
      /\ seal' = [seal EXCEPT ![s].status = to]
  BY <1>1 DEF CommitRecord
<1>3. Phase(to) = "used" /\ Phase(seal[s].status) = "used"
  BY <1>1, <1>2, Phases DEF InFlight, Outcomes
<1>4. to # "SUPERSEDED" /\ seal[s].status \notin {"ABSENT", "SUPERSEDED"}
  BY <1>1, <1>2 DEF Outcomes
<1>5. Phase(to) = Phase(seal[s].status) /\ s \in Seals
  BY <1>1, <1>3
<1>6. QED
  BY <1>2, <1>4, <1>5, UnshownStatus

(* claim_send uses the right, with the permit and the cash that hold it.   *)
LEMMA ClaimRight ==
  ASSUME RightInv, RightInv', NEW c \in Clients, CommitClaim(c)
  PROVE  SR!Next
<1>1. PICK s, p : s = req[c].seal /\ p = req[c].permit
  OBVIOUS
<1>2. /\ s \in Seals /\ p \in Permits /\ permit[p].seal = s /\ TypeOK
  BY <1>1 DEF CommitClaim, Pending, RightInv, SerialInv, Inv, RequestsBound, Bound
<1>3. /\ seal[s].status = "OUTBOX_DURABLE" /\ permit[p].nonce = "ACTIVE"
      /\ seal' = [seal EXCEPT ![s].status = "SEND_CLAIMED"]
      /\ permit' = [permit EXCEPT ![p].nonce = "CONSUMED"]
      /\ reserve' = reserve
  BY <1>1 DEF CommitClaim, StillDurable, StillActive
<1>4. /\ permit'[p].nonce = "CONSUMED" /\ permit'[p].seal = s
      /\ \A q \in Permits \ {p} : permit'[q] = permit[q]
  BY <1>2, <1>3 DEF TypeOK, PermitRow
<1>5. \A t \in Seals : Holders(t)' = Holders(t)
  BY <1>2, <1>3, <1>4 DEF Holders, PermitsOf
<1>6. PICK k \in Keys :
        /\ Rights[k] = RightAt(s)
        /\ Rights' = [Rights EXCEPT ![k] =
                        SR!Right(Phase("SEND_CLAIMED"), HolderIn(Holders(s)'),
                                 reserve'[s])]
  <2>1. seal[s].status \notin {"ABSENT", "SUPERSEDED"}
    BY <1>3
  <2>2. \A t \in Seals \ {s} : reserve'[t] = reserve[t] /\ Holders(t)' = Holders(t)
    BY <1>3, <1>5
  <2>3. QED
    BY <1>2, <1>3, <2>1, <2>2, StatusRight
<1>7. /\ Rights[k].phase = "held" /\ Phase("SEND_CLAIMED") = "used"
      /\ Rights[k].holder = HolderIn(Holders(s)) /\ Rights[k].cents = reserve[s]
  BY <1>3, <1>6, Shown, Phases DEF Cancellable, InFlight
<1>8. HolderIn(Holders(s)') = Rights[k].holder /\ reserve'[s] = Rights[k].cents
  BY <1>2, <1>3, <1>5, <1>7
<1>9. SR!Use(k)
  BY <1>6, <1>7, <1>8 DEF SR!Use
<1>10. QED
  BY <1>9 DEF SR!Next

(* cancel_unclaimed_entry gives the right up, and its cash.                *)
LEMMA CancelRight ==
  ASSUME RightInv, RightInv', NEW c \in Clients, CommitCancel(c)
  PROVE  SR!Next
<1>1. PICK s, p : s = req[c].seal /\ p = req[c].permit
  OBVIOUS
<1>2. /\ s \in Seals /\ p \in Permits /\ permit[p].seal = s /\ TypeOK
  BY <1>1 DEF CommitCancel, Pending, RightInv, SerialInv, Inv, RequestsBound, Bound
<1>3. /\ seal[s].status \in Cancellable
      /\ seal' = [seal EXCEPT ![s].status = "TOMBSTONED"]
      /\ permit' = [permit EXCEPT ![p].nonce = "INVALIDATED"]
      /\ reserve' = [reserve EXCEPT ![s] = 0]
  BY <1>1 DEF CommitCancel, StillCancellable, ReserveAfterCancel
<1>4. /\ permit'[p].nonce = "INVALIDATED" /\ permit'[p].seal = s
      /\ \A q \in Permits \ {p} : permit'[q] = permit[q]
      /\ reserve'[s] = 0 /\ \A t \in Seals \ {s} : reserve'[t] = reserve[t]
  BY <1>2, <1>3 DEF TypeOK, PermitRow
<1>5. \A t \in Seals \ {s} : Holders(t)' = Holders(t)
  BY <1>2, <1>4, HoldersKept
<1>6. Holders(s)' = {}
  <2>1. \A q \in PermitsOf(s) : q = p
    BY <1>2 DEF RightInv, SerialInv, Inv, OnePermitPerSeal, PermitsOf
  <2>2. QED
    BY <1>4, <2>1 DEF Holders, PermitsOf
<1>7. PICK k \in Keys :
        /\ Rights[k] = RightAt(s)
        /\ Rights' = [Rights EXCEPT ![k] =
                        SR!Right(Phase("TOMBSTONED"), HolderIn(Holders(s)'),
                                 reserve'[s])]
  <2>1. seal[s].status \notin {"ABSENT", "SUPERSEDED"}
    BY <1>3 DEF Cancellable
  <2>2. \A t \in Seals \ {s} : reserve'[t] = reserve[t] /\ Holders(t)' = Holders(t)
    BY <1>4, <1>5
  <2>3. QED
    BY <1>2, <1>3, <2>1, <2>2, StatusRight
<1>8. Rights[k].phase = "held"
  BY <1>3, <1>7, Shown, Phases
<1>9. SR!GiveUp(k)
  BY <1>4, <1>6, <1>7, <1>8, NoHolder, Phases DEF SR!GiveUp
<1>10. QED
  BY <1>9 DEF SR!Next

(* What is read, rolled back or ticks leaves the tables, and so the rights.*)
LEMMA TablesShow == UNCHANGED tables => UNCHANGED Rights
<1> SUFFICES ASSUME UNCHANGED tables PROVE UNCHANGED Rights
  OBVIOUS
<1>1. seal' = seal /\ reserve' = reserve /\ permit' = permit
  BY DEF tables
<1>2. \A k \in Keys : RightOf(k)' = RightOf(k)
  BY <1>1 DEF RightOf, Standing, SealsOf, RightAt, NoRight, Holders, PermitsOf
<1>3. QED
  BY <1>2, NotMoved

LEMMA StepRight ==
  ASSUME RightInv, RightInv', [Next]_vars PROVE [SR!Next]_Rights
<1>1. CASE UNCHANGED tables
  BY <1>1, TablesShow
<1>2. ASSUME NEW c \in Clients, Commit(c) PROVE [SR!Next]_Rights
  BY <1>2, PublishRight, IssueRight, OutboxRight, ClaimRight, CancelRight,
     RecordRight DEF Commit
<1>3. UNCHANGED tables \/ \E c \in Clients : Commit(c)
  <2>1. \A c : Request(c) => \E r : Read(c, r)
    BY DEF Request, ReadPublish, ReadIssue, ReadOutbox, ReadClaim, ReadCancel,
       ReadRecord
  <2>2. \A c, r : Read(c, r) => UNCHANGED tables
    BY DEF Read
  <2>3. \A c : Rollback(c) => UNCHANGED tables
    BY DEF Rollback
  <2>4. Tick \/ Drift \/ Latch \/ UNCHANGED vars => UNCHANGED tables
    BY DEF Tick, Drift, Latch, vars, tables
  <2>5. QED
    BY <2>1, <2>2, <2>3, <2>4 DEF Next
<1>4. QED
  BY <1>1, <1>2, <1>3

LEMMA InitShows == Init => SR!Init
<1> SUFFICES ASSUME Init PROVE SR!Init
  OBVIOUS
<1>1. \A k \in Keys : Standing(k) = {}
  BY NullsAssumption DEF Init, NoSealRow, Standing, SealsOf
<1>2. QED
  BY <1>1 DEF SR!Init, SR!Right, Rights, RightOf, NoRight

(* With one client, the tables of the gateway implement the send right of  *)
(* SendRight: whatever the requests, rollbacks and crashes, what the rows  *)
(* of a key show is a right that is asked for, granted once to one permit  *)
(* with no more cash than was asked for, used once or given up for good    *)
(* (publish_entry, issue_permit, claim_send, cancel_unclaimed_entry).      *)
THEOREM GatewayGrantsOneRight ==
  ASSUME LoneClient PROVE Spec => ImplementsSendRight
<1>1. Init => RightInv /\ SR!Init
  BY InitRight, InitShows
<1>2. RightInv /\ [Next]_vars => RightInv'
  BY NextRight
<1>3. RightInv /\ RightInv' /\ [Next]_vars => [SR!Next]_Rights
  BY StepRight
<1>4. QED
  BY <1>1, <1>2, <1>3, PTL DEF Spec, ImplementsSendRight, SR!Spec

=============================================================================
