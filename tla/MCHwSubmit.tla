----------------------------- MODULE MCHwSubmit -----------------------------
(* Instances of HwSubmit: device tables for TLC. *)
EXTENDS HwSubmit, TLC
CONSTANTS n0, n1

\* Two devices of two queues on one node, between them a device of one queue on
\* another.
MCQueues == 0 :> 2 @@ 1 :> 1 @@ 2 :> 2
MCNodes == 0 :> n0 @@ 1 :> n1 @@ 2 :> n0

Symmetric == Permutations(Threads) \cup Permutations(Jobs)
=============================================================================
