---------------------------- MODULE BrokerRuntime ----------------------------
(***************************************************************************)
(* The broker runtime (v3/broker/runtime.py): every submit first passes    *)
(* the fence of the single fencing authority, the disaster-recovery        *)
(* coordinator when the runtime was built with one and the writer handoff  *)
(* otherwise, and then drives the dispatcher.  The fence is checked once,  *)
(* before the pass; what stops a pass that is already running is outside   *)
(* the program: the revocation of the writer's credential, session and     *)
(* network egress that the two proofs attest.  Reports and proofs are      *)
(* assumed honest, and whoever an authority installs gets a credential.    *)
(***************************************************************************)
EXTENDS Naturals, FiniteSets

CONSTANTS
  Workers, FirstWriter, NLines, Prior, MaxCrash, MaxUnauth,
  MaxOrders, MaxEpoch

ASSUME RuntimeAssumption ==
  /\ IsFiniteSet(Workers) /\ FirstWriter \in Workers
  /\ NLines \in Nat \ {0} /\ Prior \in 0..1
  /\ MaxCrash \in Nat /\ MaxUnauth \in Nat /\ MaxOrders \in Nat
  /\ MaxEpoch \in Nat \ {0}

VARIABLES
  status, inbox, last, brokerSeq, accepted, pass, crashes, unauth,
  hstate, epoch, active, liveOrders, ambiguousOrders, reconciled, proven,
  rstate, recoveryEpoch, rEpoch, rWriter, rProof,
  engaged,     \* each writer's runtime holds the recovery coordinator
  gate,        \* a writer has passed the fence and not yet called on
  reach        \* from whom a writer has its access to the broker

D == INSTANCE BrokerDispatch
H == INSTANCE WriterHandoff
R == INSTANCE DisasterRecovery
       WITH DefaultWriter <- FirstWriter, MaxEpoch <- MaxEpoch + 1

dispatch == <<status, inbox, last, brokerSeq, accepted, pass, crashes, unauth>>
handoff == <<hstate, epoch, active, liveOrders, ambiguousOrders, reconciled,
             proven>>
recovery == <<rstate, recoveryEpoch, rEpoch, rWriter, rProof>>
runtime == <<engaged, gate, reach>>
vars == <<status, inbox, last, brokerSeq, accepted, pass, crashes, unauth,
          hstate, epoch, active, liveOrders, ambiguousOrders, reconciled,
          proven, rstate, recoveryEpoch, rEpoch, rWriter, rProof,
          engaged, gate, reach>>

(* "beside" is a handoff's grant after the fence proof of the recovery.    *)
Grants == {"none", "handoff", "recovery", "beside"}

RuntimeTypeOK ==
  /\ D!TypeOK /\ H!HandoffTypeOK /\ R!RecoveryTypeOK
  /\ engaged \in [Workers -> BOOLEAN] /\ gate \in [Workers -> BOOLEAN]
  /\ reach \in [Workers -> Grants]

Init ==
  /\ D!Init /\ H!HandoffInit /\ R!RecoveryInit
  /\ engaged = [w \in Workers |-> FALSE]
  /\ gate = [w \in Workers |-> FALSE]
  /\ reach = [w \in Workers |-> IF w = FirstWriter THEN "handoff" ELSE "none"]

Severed(w) == reach[w] = "none"
Driving == {w \in Workers : ~Severed(w) /\ pass[w] # D!Idle}

-----------------------------------------------------------------------------
(* _fence: the epoch presented is the authority's own.                     *)
Fenced_NoFence(w) == TRUE
Fenced(w) ==
  IF engaged[w] THEN R!RecoveryFenceSend(w, rEpoch) ELSE H!FenceSend(w, epoch)

Fence(w) ==
  /\ ~gate[w] /\ pass[w] = D!Idle
  /\ Fenced(w)
  /\ gate' = [gate EXCEPT ![w] = TRUE]
  /\ UNCHANGED <<dispatch, handoff, recovery, engaged, reach>>

(* submit_entry and submit_resend, past the fence; a refused claim or      *)
(* resend ends the call.                                                   *)
Dispatch(w) ==
  /\ gate[w]
  /\ D!RunOnce(w) \/ D!Resend(w) \/ UNCHANGED dispatch
  /\ gate' = [gate EXCEPT ![w] = FALSE]
  /\ UNCHANGED <<handoff, recovery, engaged, reach>>

(* A severed writer's process may live on, but it only meets timeouts.     *)
Reaches(w) ==
  \/ ~Severed(w) /\ D!Submit(w)
  \/ Severed(w) /\ \E l \in D!Lines : D!Timeout(w, l, FALSE)

Continue(w) ==
  /\ Reaches(w) \/ D!Append(w) \/ D!Report(w) \/ D!Crash(w)
  /\ UNCHANGED <<handoff, recovery, runtime>>

(* A runtime that is between calls is built anew, with the coordinator.    *)
Rebuild(w) ==
  /\ ~engaged[w] /\ ~gate[w] /\ pass[w] = D!Idle
  /\ engaged' = [engaged EXCEPT ![w] = TRUE]
  /\ UNCHANGED <<dispatch, handoff, recovery, gate, reach>>

-----------------------------------------------------------------------------
(* The external facts that the proofs attest.                              *)
Sever(w) ==
  /\ ~Severed(w)
  /\ reach' = [reach EXCEPT ![w] = "none"]
  /\ UNCHANGED <<dispatch, handoff, recovery, engaged, gate>>

Grant(w, kind) == reach' = [reach EXCEPT ![w] = kind]

Handoff ==
  /\ \/ \E live, ambiguous \in 0..MaxOrders : H!BeginDrain(live, ambiguous)
     \/ pass[active] = D!Idle /\ H!ReportDrained(0, 0)
     \/ H!MarkReconciled
     \/ Severed(active)
          /\ \E proof \in H!FenceProof : H!PresentFenceProof(proof)
     \/ \E w \in Workers : H!Complete(w, epoch, TRUE)
  /\ UNCHANGED <<dispatch, recovery, runtime>>

(* The writer activated need not be the one that complete named.           *)
Activate(w) ==
  /\ H!ActivateNewWriter(w, epoch)
  /\ Grant(w, IF rProof THEN "beside" ELSE "handoff")
  /\ UNCHANGED <<dispatch, recovery, engaged, gate>>

(* A manifest names the epochs after the live ones.                        *)
NextManifest == [recovery |-> 1, fencing |-> epoch + 1, sound |-> TRUE]

Recovery ==
  /\ \/ R!VerifyBackup(NextManifest, 0, epoch)
     \/ R!RestoreStores(TRUE)
     \/ Driving = {} /\ R!RecoveryReconcile(0, 0, TRUE)
     \/ (\A w \in Workers : Severed(w))
          /\ \E proof \in R!RecoveryFenceProof : R!PresentRecoveryProof(proof)
  /\ UNCHANGED <<dispatch, handoff, runtime>>

Recover(w) ==
  /\ R!CompleteRecovery(w)
  /\ Grant(w, "recovery")
  /\ UNCHANGED <<dispatch, handoff, engaged, gate>>

Next ==
  \/ \E w \in Workers :
       \/ Fence(w) \/ Dispatch(w) \/ Continue(w) \/ Rebuild(w)
       \/ Sever(w) \/ Activate(w) \/ Recover(w)
  \/ Handoff \/ Recovery

Spec == Init /\ [][Next]_vars

-----------------------------------------------------------------------------
(* Two writers that can reach the broker never drive the entry at the same *)
(* time, although a pass does not check the fence again: through any       *)
(* number of handoffs that were each proven, and a recovery anywhere       *)
(* between them (handoff.py, disaster_recovery.py).  The one pair left is  *)
(* the recovered writer with one that a handoff activates after the fence  *)
(* proof of the recovery, since neither authority knows of the other.      *)
NoOverlap ==
  H!ProvenSoFar =>
    \A v, w \in Driving : v = w \/ {reach[v], reach[w]} = {"recovery", "beside"}

(* Who passes the fence is alone at the broker: whatever a superseded      *)
(* writer once held is gone, and only the other authority may have let     *)
(* somebody else in on its own (runtime.py).                               *)
OnlyAuthorityPasses ==
  [][\A w \in Workers : H!ProvenSoFar /\ gate'[w] /\ ~gate[w] =>
       \A v \in Workers \ {w} :
         Severed(v) \/ reach[v] = IF engaged[w] THEN "beside" ELSE "recovery"]_vars

(* Whoever drives the entry, an acknowledgement means that the broker has  *)
(* accepted every line and a durable receipt says so (_delivery_for).      *)
EveryLineAccepted ==
  status = "BROKER_ACK" =>
    /\ D!Lines \subseteq accepted
    /\ \A l \in D!Lines : \E r \in inbox : r.line = l /\ r.kind = "order_ack"

=============================================================================
