-------------------------- MODULE MCBrokerRuntime --------------------------
(* Instances of BrokerRuntime for TLC.                                     *)
EXTENDS BrokerRuntime, TLC

CONSTANTS w1, w2

TwoWorkers == {w1, w2}

=============================================================================
