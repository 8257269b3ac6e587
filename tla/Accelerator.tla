----------------------------- MODULE Accelerator -----------------------------
(***************************************************************************)
(* What the hardware path promises its caller, without devices, queues or  *)
(* threads: a submission ends in exactly one of three ways, and an accepted *)
(* descriptor is completed once, by one write of its completion record.     *)
(***************************************************************************)
CONSTANTS Jobs, InProgress, Completed

VARIABLES
    phase,   \* what the caller knows of each descriptor
    record   \* status byte of each completion record

vars == <<phase, record>>

Init ==
    /\ phase = [j \in Jobs |-> "idle"]
    /\ record = [j \in Jobs |-> InProgress]

\* The caller hands over a descriptor it owns; without hardware support the
\* submission fails at once.
Begin(j) ==
    /\ phase[j] # "submitting"
    /\ phase[j] = "accepted" => record[j] # InProgress
    /\ \E p \in {"submitting", "failure"} : phase' = [phase EXCEPT ![j] = p]
    /\ record' = [record EXCEPT ![j] = InProgress]

\* submit returns.
Answer(j) ==
    /\ phase[j] = "submitting"
    /\ \E p \in {"accepted", "queue_busy"} : phase' = [phase EXCEPT ![j] = p]
    /\ UNCHANGED record

\* The device finishes an accepted descriptor.
Finish(j) ==
    /\ phase[j] = "accepted"
    /\ record[j] = InProgress
    /\ \E s \in Completed : record' = [record EXCEPT ![j] = s]
    /\ UNCHANGED phase

Next == \E j \in Jobs : Begin(j) \/ Answer(j) \/ Finish(j)

Spec == Init /\ [][Next]_vars
=============================================================================
