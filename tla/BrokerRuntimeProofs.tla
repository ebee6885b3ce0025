------------------------- MODULE BrokerRuntimeProofs -------------------------
(* Proofs about BrokerRuntime, for any writers, lines and faults, any      *)
(* number of handoffs and a recovery that goes on beside them.             *)
EXTENDS BrokerRuntime, TLAPS

DP == INSTANCE BrokerDispatchProofs

RuntimeTyped ==
  /\ gate \in [Workers -> BOOLEAN] /\ reach \in [Workers -> Grants]
  /\ epoch \in Nat \ {0}

(* A proof of the live epoch is presented in one state only.               *)
ProofsInTime ==
  /\ proven \subseteq 1..epoch
  /\ hstate # "BROKER_RECONCILED" => epoch \notin proven

ByHandoff(w) == reach[w] \in {"handoff", "beside"}

(* Of the writers that a handoff has let in only the active one is left,   *)
(* and nobody once the live epoch is proven.                               *)
HandoffHolds ==
  H!ProvenSoFar =>
    \A w \in Workers : ByHandoff(w) =>
      w = active /\ hstate # "HANDOFF_COMPLETE" /\ epoch \notin proven

(* The recovery lets in one writer, after everybody else was severed.      *)
RecoveryHolds ==
  /\ \A w \in Workers : reach[w] = "recovery" =>
       rstate = "RECOVERY_COMPLETE" /\ w = rWriter
  /\ rProof => \A w \in Workers : reach[w] # "handoff"
  /\ rstate = "RECOVERY_COMPLETE" => rProof

FenceInv == RuntimeTyped /\ ProofsInTime /\ HandoffHolds /\ RecoveryHolds

-----------------------------------------------------------------------------
LEMMA InitFence == Init => FenceInv
<1> SUFFICES ASSUME Init PROVE FenceInv
  OBVIOUS
<1>1. RuntimeTyped /\ ProofsInTime
  BY DEF Init, H!HandoffInit, RuntimeTyped, ProofsInTime, Grants
<1>2. HandoffHolds
  BY DEF Init, H!HandoffInit, HandoffHolds, ByHandoff
<1>3. rProof = FALSE
  BY Zenon DEF Init, R!RecoveryInit
<1>4. rstate = "PRE_RESTORE"
  BY DEF Init, R!RecoveryInit
<1>5. RecoveryHolds
  BY <1>3, <1>4 DEF Init, RecoveryHolds
<1>6. QED
  BY <1>1, <1>2, <1>5 DEF FenceInv

(* A pass of the dispatcher is nothing to the authorities.                 *)
LEMMA PassFence ==
  ASSUME FenceInv, gate' \in [Workers -> BOOLEAN],
         UNCHANGED <<handoff, recovery, reach>>
  PROVE  FenceInv'
  BY DEF FenceInv, RuntimeTyped, ProofsInTime, HandoffHolds, RecoveryHolds,
     ByHandoff, H!ProvenSoFar, handoff, recovery

LEMMA SeverFence ==
  ASSUME FenceInv, NEW w \in Workers, Sever(w)
  PROVE  FenceInv'
<1>1. /\ UNCHANGED <<handoff, recovery, gate>>
      /\ reach' \in [Workers -> Grants]
      /\ \A v \in Workers : reach'[v] \in {reach[v], "none"}
  BY DEF Sever, FenceInv, RuntimeTyped, Grants
<1>2. QED
  BY <1>1 DEF FenceInv, RuntimeTyped, ProofsInTime, HandoffHolds,
     RecoveryHolds, ByHandoff, H!ProvenSoFar, handoff, recovery

(* Presenting a proof severs the active writer, and completing a handoff   *)
(* that was proven leaves nobody whom a handoff has let in.                *)
LEMMA HandoffFence ==
  ASSUME FenceInv, Handoff
  PROVE  FenceInv'
<1>1. UNCHANGED <<recovery, gate, reach>>
  BY DEF Handoff, runtime
<1>2. RecoveryHolds'
  BY <1>1 DEF FenceInv, RecoveryHolds, recovery
<1>3. CASE \/ \E live, ambiguous \in 0..MaxOrders : H!BeginDrain(live, ambiguous)
           \/ H!ReportDrained(0, 0)
           \/ H!MarkReconciled
  <2>1. /\ UNCHANGED <<epoch, active, proven>>
        /\ hstate # "HANDOFF_COMPLETE" /\ hstate' # "HANDOFF_COMPLETE"
        /\ hstate' # "BROKER_RECONCILED" => hstate # "BROKER_RECONCILED"
    BY <1>3 DEF H!BeginDrain, H!ReportDrained, H!MarkReconciled
  <2>2. QED
    BY <1>1, <1>2, <2>1 DEF FenceInv, RuntimeTyped, ProofsInTime, HandoffHolds,
       ByHandoff, H!ProvenSoFar
<1>4. CASE Severed(active)
           /\ \E proof \in H!FenceProof : H!PresentFenceProof(proof)
  <2>1. /\ hstate = "BROKER_RECONCILED" /\ proven' = proven \cup {epoch}
        /\ UNCHANGED <<hstate, epoch, active>>
    BY <1>4 DEF H!PresentFenceProof
  <2>2. RuntimeTyped' /\ ProofsInTime'
    BY <1>1, <2>1 DEF FenceInv, RuntimeTyped, ProofsInTime
  <2>3. H!ProvenSoFar' => H!ProvenSoFar
    BY <2>1 DEF H!ProvenSoFar, FenceInv, RuntimeTyped
  <2>4. H!ProvenSoFar => \A w \in Workers : ~ByHandoff(w)
    BY <1>4 DEF FenceInv, HandoffHolds, ByHandoff, Severed
  <2>5. HandoffHolds'
    BY <1>1, <2>3, <2>4 DEF HandoffHolds, ByHandoff
  <2>6. QED
    BY <1>2, <2>2, <2>5 DEF FenceInv
<1>5. CASE \E w \in Workers : H!Complete(w, epoch, TRUE)
  <2>1. /\ hstate = "BROKER_RECONCILED" /\ hstate' = "HANDOFF_COMPLETE"
        /\ proven # {} /\ epoch' = epoch + 1 /\ proven' = proven
    BY <1>5 DEF H!Complete, H!Proven
  <2>2. RuntimeTyped' /\ ProofsInTime'
    BY <1>1, <2>1 DEF FenceInv, RuntimeTyped, ProofsInTime
  <2>3. H!ProvenSoFar' => H!ProvenSoFar /\ epoch \in proven
    <3>1. epoch \in Nat \ {0} /\ proven \subseteq 1..epoch
      BY DEF FenceInv, RuntimeTyped, ProofsInTime
    <3>2. (epoch + 1) - 1 = epoch /\ 2..(epoch - 1) \subseteq 2..epoch
      BY <3>1
    <3>3. H!ProvenSoFar' => 2..epoch \subseteq proven
      BY <2>1, <3>2 DEF H!ProvenSoFar
    <3>4. epoch = 1 => 1 \in proven
      <4>1. PICK e : e \in proven
        BY <2>1
      <4>2. e \in 1..epoch
        BY <3>1, <4>1
      <4>3. epoch = 1 => e = 1
        BY <4>2
      <4>4. QED
        BY <4>1, <4>3
    <3>5. 2..epoch \subseteq proven => H!ProvenSoFar
      <4>1. 2..epoch \subseteq proven => 2..(epoch - 1) \subseteq proven
        BY <3>2
      <4>2. QED
        BY <4>1, Zenon DEF H!ProvenSoFar
    <3>6. epoch # 1 => epoch \in 2..epoch
      BY <3>1
    <3>7. QED
      BY <3>3, <3>4, <3>5, <3>6
  <2>4. HandoffHolds'
    BY <1>1, <2>3 DEF FenceInv, HandoffHolds, ByHandoff
  <2>5. QED
    BY <1>2, <2>2, <2>4 DEF FenceInv
<1>6. QED
  BY <1>3, <1>4, <1>5 DEF Handoff

LEMMA ActivateFence ==
  ASSUME FenceInv, NEW w \in Workers, Activate(w)
  PROVE  FenceInv'
<1>1. /\ hstate = "HANDOFF_COMPLETE" /\ hstate' = "ACTIVE" /\ active' = w
      /\ UNCHANGED <<recovery, gate, epoch, proven>>
      /\ reach' = [reach EXCEPT ![w] = IF rProof THEN "beside" ELSE "handoff"]
  BY DEF Activate, Grant, H!ActivateNewWriter
<1>2. /\ reach' \in [Workers -> Grants]
      /\ \A v \in Workers \ {w} : reach'[v] = reach[v]
      /\ reach'[w] \in {"handoff", "beside"} /\ (rProof => reach'[w] = "beside")
  BY <1>1 DEF FenceInv, RuntimeTyped, Grants
<1>3. RuntimeTyped' /\ ProofsInTime'
  BY <1>1, <1>2 DEF FenceInv, RuntimeTyped, ProofsInTime
<1>4. HandoffHolds'
  BY <1>1, <1>2 DEF FenceInv, ProofsInTime, HandoffHolds, ByHandoff, H!ProvenSoFar
<1>5. RecoveryHolds'
  BY <1>1, <1>2 DEF FenceInv, RecoveryHolds, recovery
<1>6. QED
  BY <1>3, <1>4, <1>5 DEF FenceInv

LEMMA RecoveryFence ==
  ASSUME FenceInv, Recovery
  PROVE  FenceInv'
<1>1. UNCHANGED <<handoff, gate, reach>>
  BY DEF Recovery, runtime
<1>2. RuntimeTyped' /\ ProofsInTime' /\ HandoffHolds'
  BY <1>1 DEF FenceInv, RuntimeTyped, ProofsInTime, HandoffHolds, ByHandoff,
     H!ProvenSoFar, handoff
<1>3. /\ rstate # "RECOVERY_COMPLETE" /\ rstate' # "RECOVERY_COMPLETE"
      /\ rProof' = rProof \/ \A w \in Workers : Severed(w)
  BY DEF Recovery, R!VerifyBackup, R!RestoreStores, R!RecoveryReconcile,
     R!PresentRecoveryProof
<1>4. RecoveryHolds'
  BY <1>1, <1>3 DEF FenceInv, RecoveryHolds, Severed
<1>5. QED
  BY <1>2, <1>4 DEF FenceInv

LEMMA RecoverFence ==
  ASSUME FenceInv, NEW w \in Workers, Recover(w)
  PROVE  FenceInv'
<1>1. /\ rProof /\ rstate = "RECONCILED" /\ rstate' = "RECOVERY_COMPLETE"
      /\ rWriter' = w /\ UNCHANGED <<handoff, gate, rProof>>
      /\ reach' = [reach EXCEPT ![w] = "recovery"]
  BY DEF Recover, Grant, R!CompleteRecovery, R!RecoveryProven
<1>2. /\ reach' \in [Workers -> Grants] /\ reach'[w] = "recovery"
      /\ \A v \in Workers \ {w} : reach'[v] = reach[v]
  BY <1>1 DEF FenceInv, RuntimeTyped, Grants
<1>3. RuntimeTyped' /\ ProofsInTime' /\ HandoffHolds'
  BY <1>1, <1>2 DEF FenceInv, RuntimeTyped, ProofsInTime, HandoffHolds,
     ByHandoff, H!ProvenSoFar, handoff
<1>4. RecoveryHolds'
  BY <1>1, <1>2 DEF FenceInv, RecoveryHolds
<1>5. QED
  BY <1>3, <1>4 DEF FenceInv

LEMMA NextFence ==
  ASSUME FenceInv, [Next]_vars
  PROVE  FenceInv'
<1>1. gate \in [Workers -> BOOLEAN]
  BY DEF FenceInv, RuntimeTyped
<1>2. ASSUME NEW w \in Workers,
             Fence(w) \/ Dispatch(w) \/ Continue(w) \/ Rebuild(w)
      PROVE  FenceInv'
  <2>1. gate' \in [Workers -> BOOLEAN]
    BY <1>1, <1>2 DEF Fence, Dispatch, Continue, Rebuild, runtime
  <2>2. UNCHANGED <<handoff, recovery, reach>>
    BY <1>2 DEF Fence, Dispatch, Continue, Rebuild, runtime
  <2>3. QED
    BY <2>1, <2>2, PassFence
<1>3. CASE UNCHANGED vars
  <2>1. UNCHANGED <<handoff, recovery, gate, reach>>
    BY <1>3 DEF vars, handoff, recovery
  <2>2. QED
    BY <1>1, <2>1, PassFence
<1>4. QED
  BY <1>2, <1>3, SeverFence, HandoffFence, ActivateFence, RecoveryFence,
     RecoverFence DEF Next

(* The invariant of the two authorities, through any number of handoffs.   *)
THEOREM FenceInvariance == Spec => []FenceInv
<1>1. FenceInv /\ [Next]_vars => FenceInv'
  BY NextFence
<1>2. QED
  BY InitFence, <1>1, PTL DEF Spec

(* Two writers that can reach the broker never drive the entry together,   *)
(* through any number of handoffs that were each proven, wherever in a     *)
(* pass they happen and whatever the recovery does, but for a handoff      *)
(* after the fence proof of the recovery (handoff.py).                     *)
THEOREM SingleDriver == Spec => []NoOverlap
<1>1. FenceInv => NoOverlap
  <2> SUFFICES ASSUME FenceInv, H!ProvenSoFar, NEW v \in Driving,
                      NEW w \in Driving, v # w
               PROVE  {reach[v], reach[w]} = {"recovery", "beside"}
    BY DEF NoOverlap
  <2>1. /\ v \in Workers /\ reach[v] \in {"handoff", "recovery", "beside"}
        /\ w \in Workers /\ reach[w] \in {"handoff", "recovery", "beside"}
    BY DEF Driving, Severed, FenceInv, RuntimeTyped, Grants
  <2>2. ~(ByHandoff(v) /\ ByHandoff(w))
    BY <2>1 DEF FenceInv, HandoffHolds
  <2>3. ~(reach[v] = "recovery" /\ reach[w] = "recovery")
    BY <2>1 DEF FenceInv, RecoveryHolds
  <2>4. reach[v] = "recovery" \/ reach[w] = "recovery"
    BY <2>1, <2>2 DEF ByHandoff
  <2>5. reach[v] # "handoff" /\ reach[w] # "handoff"
    BY <2>1, <2>4 DEF FenceInv, RecoveryHolds
  <2>6. QED
    BY <2>1, <2>2, <2>3, <2>5 DEF ByHandoff
<1>2. QED
  BY FenceInvariance, <1>1, PTL

(* Who passes the fence finds nobody else at the broker, but for a writer  *)
(* that the other authority has let in on its own, and nobody passes the   *)
(* coordinator's fence before the recovery is complete (runtime.py).       *)
THEOREM AuthorityFence == Spec => OnlyAuthorityPasses
<1>1. FenceInv /\ [Next]_vars =>
        [\A w \in Workers : H!ProvenSoFar /\ gate'[w] /\ ~gate[w] =>
           \A v \in Workers \ {w} :
             Severed(v)
             \/ reach[v] = IF engaged[w] THEN "beside" ELSE "recovery"]_vars
  <2> SUFFICES ASSUME FenceInv, Next, NEW w \in Workers, H!ProvenSoFar,
                      gate'[w], ~gate[w], NEW v \in Workers \ {w}
               PROVE  Severed(v)
                      \/ reach[v] = IF engaged[w] THEN "beside" ELSE "recovery"
    OBVIOUS
  <2>1. ~UNCHANGED gate
    OBVIOUS
  <2>2. PICK u \in Workers : Fence(u) \/ Dispatch(u)
    BY <2>1 DEF Next, Continue, Rebuild, Sever, Recover, Handoff, Activate,
       Recovery, runtime
  <2>3. Fence(u) /\ u = w
    BY <2>2 DEF Fence, Dispatch, FenceInv, RuntimeTyped
  <2>4. Fenced(w) /\ reach[v] \in {"none", "handoff", "recovery", "beside"}
    BY <2>3 DEF Fence, FenceInv, RuntimeTyped, Grants
  <2>5. CASE engaged[w]
    <3>1. rstate = "RECOVERY_COMPLETE" /\ w = rWriter
      BY <2>4, <2>5 DEF Fenced, R!RecoveryFenceSend
    <3>2. reach[v] # "handoff" /\ reach[v] # "recovery"
      BY <3>1 DEF FenceInv, RecoveryHolds
    <3>3. QED
      BY <2>4, <2>5, <3>2 DEF Severed
  <2>6. CASE ~engaged[w]
    <3>1. w = active
      BY <2>4, <2>6 DEF Fenced, H!FenceSend
    <3>2. ~ByHandoff(v)
      BY <3>1 DEF FenceInv, HandoffHolds
    <3>3. QED
      BY <2>4, <2>6, <3>2 DEF Severed, ByHandoff
  <2>7. QED
    BY <2>5, <2>6
<1>2. QED
  BY FenceInvariance, <1>1, PTL DEF Spec, OnlyAuthorityPasses

-----------------------------------------------------------------------------
(* The dispatcher inside the runtime.  Whatever the authorities do, the    *)
(* entry and its passes take steps of BrokerDispatch, so its invariant     *)
(* holds of them; nothing is assumed of handoffs here.                     *)

LEMMA DispatchConstants == DP!DispatchAssumption
  BY RuntimeAssumption
  DEF DP!DispatchAssumption, DP!IsFiniteSet, IsFiniteSet

LEMMA SameStart ==
  ASSUME NEW w \in Workers
  PROVE  (D!RunOnce(w) => DP!RunOnce(w)) /\ (D!Resend(w) => DP!Resend(w))
<1>1. D!RunOnce(w) => DP!RunOnce(w)
  BY DEF D!RunOnce, DP!RunOnce, D!Idle, DP!Idle, D!Sending, DP!Sending,
     D!Lines, DP!Lines, D!NoEnvelope, DP!NoEnvelope
<1>2. D!Resend(w) => DP!Resend(w)
  BY DEF D!Resend, DP!Resend, D!Idle, DP!Idle, D!Sending, DP!Sending,
     D!Lines, DP!Lines, D!NoEnvelope, DP!NoEnvelope, D!ResendFrom,
     DP!ResendFrom, D!ToResend, DP!ToResend, D!Terminal, DP!Terminal
<1>3. QED
  BY <1>1, <1>2

LEMMA SameTimeout ==
  ASSUME NEW w \in Workers, NEW l, NEW arrived
  PROVE  D!Timeout(w, l, arrived) => DP!Timeout(w, l, arrived)
  BY DEF D!Timeout, DP!Timeout, D!Sends, DP!Sends, D!Sending, DP!Sending,
     D!NoEnvelope, DP!NoEnvelope

LEMMA SameSubmit ==
  ASSUME NEW w \in Workers, D!Submit(w)
  PROVE  DP!Submit(w)
<1>1. PICK l \in D!Lines :
        \/ \E arrived \in BOOLEAN : D!Timeout(w, l, arrived)
        \/ D!Unauthenticated(w, l)
        \/ \E kind \in D!Kinds : D!Answer(w, l, kind)
  BY DEF D!Submit
<1>2. l \in DP!Lines /\ D!Kinds = DP!Kinds /\ D!NextSeq = DP!NextSeq
  <2>1. D!Cardinality(Workers) = DP!Cardinality(Workers)
    BY Zenon DEF D!Cardinality, DP!Cardinality
  <2>2. D!MaxSeq = DP!MaxSeq
    BY <2>1 DEF D!MaxSeq, DP!MaxSeq
  <2>3. QED
    BY <2>2 DEF D!Lines, DP!Lines, D!Kinds, DP!Kinds, D!NextSeq, DP!NextSeq
<1>3. D!Unauthenticated(w, l) => DP!Unauthenticated(w, l)
  BY <1>2 DEF D!Unauthenticated, DP!Unauthenticated, D!Sends, DP!Sends,
     D!Sending, DP!Sending, D!NoEnvelope, DP!NoEnvelope
<1>4. ASSUME NEW kind PROVE D!Answer(w, l, kind) => DP!Answer(w, l, kind)
  BY <1>2 DEF D!Answer, DP!Answer, D!Sends, DP!Sends
<1>5. QED
  BY <1>1, <1>2, <1>3, <1>4, SameTimeout DEF DP!Submit

LEMMA SameEnd ==
  ASSUME NEW w \in Workers
  PROVE  /\ D!Append(w) => DP!Append(w)
         /\ D!Report(w) => DP!Report(w)
         /\ D!Crash(w) => DP!Crash(w)
<1>1. D!Idle = DP!Idle /\ \A todo : D!Sending(todo) = DP!Sending(todo)
  BY DEF D!Idle, DP!Idle, D!Sending, DP!Sending, D!NoEnvelope, DP!NoEnvelope
<1>2. D!Append(w) => DP!Append(w)
  BY <1>1 DEF D!Append, DP!Append, D!Follows, DP!Follows
<1>3. D!Delivery = DP!Delivery
  BY DEF D!Delivery, DP!Delivery, D!Lines, DP!Lines, D!Terminal, DP!Terminal,
     D!Rejected, DP!Rejected
<1>4. D!Report(w) => DP!Report(w)
  BY <1>1, <1>3 DEF D!Report, DP!Report
<1>5. D!Crash(w) => DP!Crash(w)
  BY <1>1 DEF D!Crash, DP!Crash
<1>6. QED
  BY <1>2, <1>4, <1>5

LEMMA RuntimeDispatches == [Next]_vars => [DP!Next]_(DP!vars)
<1>1. UNCHANGED dispatch => UNCHANGED DP!vars
  BY DEF dispatch, DP!vars
<1>2. ASSUME NEW w \in Workers, Dispatch(w) PROVE [DP!Next]_(DP!vars)
  BY <1>1, <1>2, SameStart DEF Dispatch, DP!Next
<1>3. ASSUME NEW w \in Workers, Continue(w) PROVE [DP!Next]_(DP!vars)
  <2>1. ASSUME Reaches(w) PROVE DP!Submit(w)
    <3>1. D!Lines = DP!Lines
      BY DEF D!Lines, DP!Lines
    <3>2. QED
      BY <2>1, <3>1, SameSubmit, SameTimeout DEF Reaches, DP!Submit
  <2>2. QED
    BY <1>3, <2>1, SameEnd DEF Continue, DP!Next, DP!Progress
<1>4. ASSUME NEW w \in Workers,
             \/ Fence(w) \/ Rebuild(w) \/ Sever(w) \/ Activate(w) \/ Recover(w)
      PROVE  UNCHANGED dispatch
  BY <1>4 DEF Fence, Rebuild, Sever, Activate, Recover
<1>5. Handoff \/ Recovery \/ UNCHANGED vars => UNCHANGED dispatch
  BY DEF Handoff, Recovery, vars, dispatch
<1>6. QED
  BY <1>1, <1>2, <1>3, <1>4, <1>5 DEF Next

THEOREM DispatchInside == Spec => []DP!DispatchInv
<1>1. Init => DP!DispatchInv
  <2>1. Init => DP!Init
    BY DEF Init, D!Init, DP!Init, D!Idle, DP!Idle, D!NoEnvelope, DP!NoEnvelope
  <2>2. QED
    BY <2>1, DP!InitInv, DispatchConstants
<1>2. DP!DispatchInv /\ [Next]_vars => DP!DispatchInv'
  BY RuntimeDispatches, DP!NextInv, DispatchConstants
<1>3. QED
  BY <1>1, <1>2, PTL DEF Spec

(* Whoever drives the entry and however often the authority changes hands, *)
(* an acknowledgement means that the broker has accepted every line and a  *)
(* durable receipt says so (_delivery_for).                                *)
THEOREM AckAcrossWriters == Spec => []EveryLineAccepted
<1>1. DP!DispatchInv => EveryLineAccepted
  BY DEF DP!DispatchInv, DP!AckedIsAccepted, DP!AckOnFile, EveryLineAccepted,
     D!Lines, DP!Lines
<1>2. QED
  BY DispatchInside, <1>1, PTL

-----------------------------------------------------------------------------
(* Types.                                                                  *)
WorldTyped ==
  /\ engaged \in [Workers -> BOOLEAN] /\ gate \in [Workers -> BOOLEAN]
  /\ reach \in [Workers -> Grants]

AuthorityTypes == H!HandoffTypeOK /\ R!RecoveryTypeOK /\ WorldTyped

LEMMA HandoffTypes ==
  ASSUME H!HandoffTypeOK, Handoff \/ \E w \in Workers : Activate(w)
  PROVE  H!HandoffTypeOK'
<1>1. /\ epoch \in 1..MaxEpoch /\ MaxEpoch \in Nat \ {0} /\ epoch \in Nat
      /\ proven \subseteq 1..epoch /\ 1..epoch \subseteq 1..(epoch + 1)
      /\ 0 \in 0..MaxOrders /\ epoch \in 1..epoch
  BY RuntimeAssumption DEF H!HandoffTypeOK
<1>2. CASE \E live, ambiguous \in 0..MaxOrders : H!BeginDrain(live, ambiguous)
  BY <1>2 DEF H!BeginDrain, H!HandoffTypeOK
<1>3. CASE H!ReportDrained(0, 0)
  BY <1>1, <1>3 DEF H!ReportDrained, H!HandoffTypeOK
<1>4. CASE H!MarkReconciled
  BY <1>1, <1>4 DEF H!MarkReconciled, H!HandoffTypeOK
<1>5. CASE \E proof \in H!FenceProof : H!PresentFenceProof(proof)
  BY <1>1, <1>5 DEF H!PresentFenceProof, H!HandoffTypeOK
<1>6. CASE \E w \in Workers : H!Complete(w, epoch, TRUE)
  BY <1>1, <1>6 DEF H!Complete, H!HandoffTypeOK
<1>7. CASE \E w \in Workers : H!ActivateNewWriter(w, epoch)
  BY <1>7 DEF H!ActivateNewWriter, H!HandoffTypeOK
<1>8. QED
  BY <1>2, <1>3, <1>4, <1>5, <1>6, <1>7 DEF Handoff, Activate

LEMMA RecoveryTypes ==
  ASSUME H!HandoffTypeOK, R!RecoveryTypeOK, Recovery \/ \E w \in Workers : Recover(w)
  PROVE  R!RecoveryTypeOK'
<1>1. CASE R!VerifyBackup(NextManifest, 0, epoch)
  <2>1. /\ NextManifest.recovery \in 0..(MaxEpoch + 1)
        /\ NextManifest.fencing \in 0..(MaxEpoch + 1)
    BY RuntimeAssumption DEF NextManifest, H!HandoffTypeOK
  <2>2. QED
    BY <1>1, <2>1 DEF R!VerifyBackup, R!RecoveryTypeOK
<1>2. CASE R!RestoreStores(TRUE) \/ R!RecoveryReconcile(0, 0, TRUE)
  BY <1>2 DEF R!RestoreStores, R!RecoveryReconcile, R!RecoveryTypeOK
<1>3. CASE \E proof \in R!RecoveryFenceProof : R!PresentRecoveryProof(proof)
  BY <1>3 DEF R!PresentRecoveryProof, R!RecoveryTypeOK
<1>4. CASE \E w \in Workers : R!CompleteRecovery(w)
  BY <1>4 DEF R!CompleteRecovery, R!RecoveryTypeOK
<1>5. QED
  BY <1>1, <1>2, <1>3, <1>4 DEF Recovery, Recover

LEMMA WorldTypes ==
  ASSUME WorldTyped, Next
  PROVE  WorldTyped'
<1>1. ASSUME NEW w \in Workers, Fence(w) \/ Dispatch(w) \/ Rebuild(w)
      PROVE  WorldTyped'
  BY <1>1 DEF Fence, Dispatch, Rebuild, WorldTyped
<1>2. ASSUME NEW w \in Workers, Sever(w) \/ Activate(w) \/ Recover(w)
      PROVE  WorldTyped'
  BY <1>2 DEF Sever, Activate, Recover, Grant, WorldTyped, Grants
<1>3. ASSUME UNCHANGED runtime PROVE WorldTyped'
  BY <1>3 DEF runtime, WorldTyped
<1>4. QED
  BY <1>1, <1>2, <1>3 DEF Next, Continue, Handoff, Recovery

LEMMA NextTypes == AuthorityTypes /\ [Next]_vars => AuthorityTypes'
<1> SUFFICES ASSUME AuthorityTypes, [Next]_vars PROVE AuthorityTypes'
  OBVIOUS
<1>1. H!HandoffTypeOK /\ R!RecoveryTypeOK /\ WorldTyped
  BY DEF AuthorityTypes
<1>2. UNCHANGED handoff => H!HandoffTypeOK'
  BY <1>1 DEF H!HandoffTypeOK, handoff
<1>3. UNCHANGED recovery => R!RecoveryTypeOK'
  BY <1>1 DEF R!RecoveryTypeOK, recovery
<1>4. CASE UNCHANGED vars
  BY <1>1, <1>2, <1>3, <1>4 DEF vars, handoff, recovery, AuthorityTypes, WorldTyped
<1>5. CASE Next
  <2>1. WorldTyped'
    BY <1>1, <1>5, WorldTypes
  <2>2. ASSUME NEW w \in Workers,
               \/ Fence(w) \/ Dispatch(w) \/ Continue(w) \/ Rebuild(w) \/ Sever(w)
        PROVE  UNCHANGED <<handoff, recovery>>
    BY <2>2 DEF Fence, Dispatch, Continue, Rebuild, Sever
  <2>3. ASSUME Handoff \/ \E w \in Workers : Activate(w)
        PROVE  H!HandoffTypeOK' /\ UNCHANGED recovery
    <3>1. H!HandoffTypeOK'
      BY <1>1, <2>3, HandoffTypes
    <3>2. UNCHANGED recovery
      BY <2>3 DEF Handoff, Activate
    <3>3. QED
      BY <3>1, <3>2
  <2>4. ASSUME Recovery \/ \E w \in Workers : Recover(w)
        PROVE  R!RecoveryTypeOK' /\ UNCHANGED handoff
    <3>1. R!RecoveryTypeOK'
      BY <1>1, <2>4, RecoveryTypes
    <3>2. UNCHANGED handoff
      BY <2>4 DEF Recovery, Recover
    <3>3. QED
      BY <3>1, <3>2
  <2>5. QED
    BY <1>2, <1>3, <1>5, <2>1, <2>2, <2>3, <2>4 DEF Next, AuthorityTypes
<1>6. QED
  BY <1>4, <1>5

(* Type correctness of the composition, for any number of handoffs and     *)
(* with handoffs beside a recovery: every pass, inbox row, epoch and writer*)
(* stays in range (runtime.py with its three parts).                       *)
THEOREM RuntimeTypeSafety == Spec => []RuntimeTypeOK
<1>1. Init => AuthorityTypes
  <2> SUFFICES ASSUME Init PROVE AuthorityTypes
    OBVIOUS
  <2>1. H!HandoffTypeOK
    <3>1. reconciled \in BOOLEAN
      BY Zenon DEF Init, H!HandoffInit
    <3>2. QED
      BY <3>1, RuntimeAssumption DEF Init, H!HandoffInit, H!HandoffTypeOK
  <2>2. R!RecoveryTypeOK
    <3>1. rstate = "PRE_RESTORE" /\ recoveryEpoch = 0 /\ rEpoch = 0
          /\ rWriter = FirstWriter
      BY DEF Init, R!RecoveryInit
    <3>2. rProof \in BOOLEAN
      BY Zenon DEF Init, R!RecoveryInit
    <3>3. 0 \in 0..(MaxEpoch + 1)
      BY RuntimeAssumption
    <3>4. QED
      BY <3>1, <3>2, <3>3, RuntimeAssumption DEF R!RecoveryTypeOK
  <2>3. WorldTyped
    BY DEF Init, WorldTyped, Grants
  <2>4. QED
    BY <2>1, <2>2, <2>3 DEF AuthorityTypes
<1>2. DP!DispatchInv => D!TypeOK
  <2>1. D!Cardinality(Workers) = DP!Cardinality(Workers)
    BY Zenon DEF D!Cardinality, DP!Cardinality
  <2>2. D!MaxSeq = DP!MaxSeq
    BY <2>1 DEF D!MaxSeq, DP!MaxSeq
  <2>3. D!Receipt = DP!Receipt /\ D!Lines = DP!Lines
        /\ D!NoEnvelope = DP!NoEnvelope /\ D!InFlight = DP!InFlight
    BY DEF D!Receipt, DP!Receipt, D!Lines, DP!Lines, D!Kinds, DP!Kinds,
       D!NoEnvelope, DP!NoEnvelope, D!InFlight, DP!InFlight
  <2>4. QED
    BY <2>2, <2>3 DEF DP!DispatchInv, DP!Typed, DP!TypeOK, D!TypeOK
<1>3. DP!DispatchInv /\ AuthorityTypes => RuntimeTypeOK
  BY <1>2 DEF AuthorityTypes, RuntimeTypeOK, WorldTyped
<1>4. QED
  BY <1>1, <1>3, NextTypes, DispatchInside, PTL DEF Spec

=============================================================================
