---------------------------- MODULE WriterHandoff ----------------------------
(***************************************************************************)
(* The handoff of the single broker egress authority from an old writer    *)
(* to a new one (v3/broker/handoff.py):                                    *)
(*                                                                         *)
(*   ACTIVE -> DRAINING -> BROKER_RECONCILED -> HANDOFF_COMPLETE -> ACTIVE *)
(*                                                                         *)
(* under a fencing epoch.  A refused call raises and changes nothing, so   *)
(* every action is a call that is accepted.                                *)
(***************************************************************************)
EXTENDS Naturals

CONSTANTS
  Workers,      \* writer ids
  FirstWriter,  \* the writer the authority starts with
  MaxOrders,    \* bound on the order counts a writer reports
  MaxEpoch      \* bound on the fencing epoch

VARIABLES
  hstate,        \* _state
  epoch,         \* _fencing_epoch
  active,        \* _active_writer_id
  liveOrders,    \* _live_orders
  ambiguousOrders,  \* _ambiguous_orders
  reconciled,    \* _reconciled
  proven         \* epochs a fence proof was presented under; _fence_proof is
                 \* the last one, None while there is none

hvars == <<hstate, epoch, active, liveOrders, ambiguousOrders, reconciled,
           proven>>

FenceProof == [credential_revoked: BOOLEAN, session_revoked: BOOLEAN,
               network_egress_removed: BOOLEAN, termination_proof: BOOLEAN,
               network_policy_proof: BOOLEAN]

HandoffTypeOK ==
  /\ hstate \in {"ACTIVE", "DRAINING", "BROKER_RECONCILED", "HANDOFF_COMPLETE"}
  /\ epoch \in 1..MaxEpoch /\ active \in Workers
  /\ liveOrders \in 0..MaxOrders /\ ambiguousOrders \in 0..MaxOrders
  /\ reconciled \in BOOLEAN /\ proven \subseteq 1..epoch

HandoffInit ==
  /\ hstate = "ACTIVE" /\ epoch = 1 /\ active = FirstWriter
  /\ liveOrders = 0 /\ ambiguousOrders = 0
  /\ reconciled = FALSE /\ proven = {}

BeginDrain(live, ambiguous) ==
  /\ hstate = "ACTIVE"
  /\ hstate' = "DRAINING"
  /\ liveOrders' = live /\ ambiguousOrders' = ambiguous
  /\ UNCHANGED <<epoch, active, reconciled, proven>>

(* A drain may not report more than begin_drain declared.                  *)
Drained(live, ambiguous) ==
  /\ live <= liveOrders /\ ambiguous <= ambiguousOrders
  /\ live = 0 /\ ambiguous = 0

ReportDrained(live, ambiguous) ==
  /\ hstate = "DRAINING"
  /\ Drained(live, ambiguous)
  /\ hstate' = "BROKER_RECONCILED"
  /\ liveOrders' = 0 /\ ambiguousOrders' = 0
  /\ UNCHANGED <<epoch, active, reconciled, proven>>

MarkReconciled ==
  /\ hstate = "BROKER_RECONCILED"
  /\ reconciled' = TRUE
  /\ UNCHANGED <<hstate, epoch, active, liveOrders, ambiguousOrders, proven>>

Severs(proof) ==
  /\ proof.credential_revoked
  /\ proof.network_egress_removed
  /\ \/ proof.session_revoked
     \/ proof.termination_proof /\ proof.network_policy_proof

PresentFenceProof(proof) ==
  /\ hstate = "BROKER_RECONCILED"
  /\ Severs(proof)
  /\ proven' = proven \cup {epoch}
  /\ UNCHANGED <<hstate, epoch, active, liveOrders, ambiguousOrders,
                 reconciled>>

(* complete tests the two flags; activate_new_writer and begin_drain leave *)
(* them set.                                                               *)
Proven_ReconciledOnly == reconciled
Proven == reconciled /\ proven # {}

(* The checkpoint must name the live epoch and both durable cursors.       *)
Complete(new, checkpointEpoch, cursors) ==
  /\ hstate = "BROKER_RECONCILED"
  /\ Proven
  /\ checkpointEpoch = epoch /\ cursors
  /\ epoch < MaxEpoch
  /\ epoch' = epoch + 1
  /\ active' = new
  /\ hstate' = "HANDOFF_COMPLETE"
  /\ UNCHANGED <<liveOrders, ambiguousOrders, reconciled, proven>>

ActivateNewWriter(w, presented) ==
  /\ hstate = "HANDOFF_COMPLETE"
  /\ presented = epoch
  /\ active' = w
  /\ hstate' = "ACTIVE"
  /\ UNCHANGED <<epoch, liveOrders, ambiguousOrders, reconciled, proven>>

(* fence_send.                                                             *)
FenceSend(w, presented) ==
  hstate = "ACTIVE" /\ w = active /\ presented = epoch

HandoffNext ==
  \/ \E live, ambiguous \in 0..MaxOrders :
       BeginDrain(live, ambiguous) \/ ReportDrained(live, ambiguous)
  \/ MarkReconciled
  \/ \E proof \in FenceProof : PresentFenceProof(proof)
  \/ \E w \in Workers, e \in 1..MaxEpoch :
       Complete(w, e, TRUE) \/ ActivateNewWriter(w, e)

HandoffSpec == HandoffInit /\ [][HandoffNext]_hvars

-----------------------------------------------------------------------------
(* Every handoff after the first one had a fence proof of its own epoch.   *)
(* The code sees to the first; from then on _fence_proof is set, and       *)
(* complete takes the proof of an earlier epoch for the one it needs.      *)
ProvenSoFar == 2..(epoch - 1) \subseteq proven

=============================================================================
