-------------------------- MODULE MCBrokerDispatch --------------------------
(* Instances of BrokerDispatch for TLC.                                    *)
EXTENDS BrokerDispatch, TLC

CONSTANT w1

OneWorker == {w1}

=============================================================================
