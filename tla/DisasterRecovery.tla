-------------------------- MODULE DisasterRecovery --------------------------
(***************************************************************************)
(* The disaster-recovery coordinator (v3/broker/disaster_recovery.py): a   *)
(* one-shot restore under a signed manifest that raises the fencing epoch  *)
(* and installs a new writer.                                              *)
(*                                                                         *)
(*   PRE_RESTORE -> BACKUP_VERIFIED -> STORES_RESTORED -> RECONCILED       *)
(*               -> RECOVERY_COMPLETE                                      *)
(*                                                                         *)
(* Signature, validity window, backup root and account binding are one     *)
(* fact of the manifest; the cursors and the root of the restored stores   *)
(* are one fact of the restore.  A refused call changes nothing.           *)
(***************************************************************************)
EXTENDS Naturals

CONSTANTS
  Workers,       \* writer ids
  DefaultWriter, \* _active_writer_id before a recovery
  MaxOrders,     \* bound on the order counts reported
  MaxEpoch       \* bound on the fencing epoch

VARIABLES
  rstate,        \* _state
  recoveryEpoch, \* _recovery_epoch
  rEpoch,        \* _fencing_epoch
  rWriter,       \* _active_writer_id
  rProof         \* _fence_proof is not None

rvars == <<rstate, recoveryEpoch, rEpoch, rWriter, rProof>>

Manifest == [recovery: 1..MaxEpoch, fencing: 1..MaxEpoch, sound: BOOLEAN]
RecoveryFenceProof ==
  [credential_re_bound: BOOLEAN, session_re_severed: BOOLEAN,
   network_egress_re_fenced: BOOLEAN, termination_proof: BOOLEAN,
   network_policy_proof: BOOLEAN]

RecoveryTypeOK ==
  /\ rstate \in {"PRE_RESTORE", "BACKUP_VERIFIED", "STORES_RESTORED",
                 "RECONCILED", "RECOVERY_COMPLETE"}
  /\ recoveryEpoch \in 0..MaxEpoch /\ rEpoch \in 0..MaxEpoch
  /\ rWriter \in Workers /\ rProof \in BOOLEAN

RecoveryInit ==
  /\ rstate = "PRE_RESTORE" /\ recoveryEpoch = 0 /\ rEpoch = 0
  /\ rWriter = DefaultWriter /\ rProof = FALSE

(* Both epochs must advance the live ones the caller names.                *)
Advances(m, liveRecovery, liveFencing) ==
  m.recovery > liveRecovery /\ m.fencing > liveFencing

VerifyBackup(m, liveRecovery, liveFencing) ==
  /\ rstate = "PRE_RESTORE"
  /\ m.sound
  /\ Advances(m, liveRecovery, liveFencing)
  /\ rstate' = "BACKUP_VERIFIED"
  /\ recoveryEpoch' = m.recovery /\ rEpoch' = m.fencing
  /\ UNCHANGED <<rWriter, rProof>>

RestoreStores(matches) ==
  /\ rstate = "BACKUP_VERIFIED"
  /\ matches
  /\ rstate' = "STORES_RESTORED"
  /\ UNCHANGED <<recoveryEpoch, rEpoch, rWriter, rProof>>

RecoveryReconcile(live, ambiguous, conserved) ==
  /\ rstate = "STORES_RESTORED"
  /\ conserved /\ live = 0 /\ ambiguous = 0
  /\ rstate' = "RECONCILED"
  /\ UNCHANGED <<recoveryEpoch, rEpoch, rWriter, rProof>>

ReSevers(proof) ==
  /\ proof.credential_re_bound
  /\ proof.network_egress_re_fenced
  /\ \/ proof.session_re_severed
     \/ proof.termination_proof /\ proof.network_policy_proof

PresentRecoveryProof(proof) ==
  /\ rstate = "RECONCILED"
  /\ ReSevers(proof)
  /\ rProof' = TRUE
  /\ UNCHANGED <<rstate, recoveryEpoch, rEpoch, rWriter>>

RecoveryProven_Dropped == TRUE
RecoveryProven == rProof

CompleteRecovery(new) ==
  /\ rstate = "RECONCILED"
  /\ RecoveryProven
  /\ rWriter' = new
  /\ rstate' = "RECOVERY_COMPLETE"
  /\ UNCHANGED <<recoveryEpoch, rEpoch, rProof>>

(* fence_send.                                                             *)
RecoveryFenceSend(w, presented) ==
  rstate = "RECOVERY_COMPLETE" /\ w = rWriter /\ presented = rEpoch

=============================================================================
