------------------------------ MODULE MCHwWait ------------------------------
(* Instances of HwWait: device tables for TLC. *)
EXTENDS HwWait, TLC
CONSTANTS n0, n1

\* One device of two queues; no device on the other node.
TwoQueues == 0 :> 2
OneNode == 0 :> n0
=============================================================================
