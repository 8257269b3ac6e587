------------------------------ MODULE Kernels ------------------------------
(* A call of a software kernel: the dispatch table chooses the version, and   *)
(* one of the kernels runs to its end.                                      *)
EXTENDS Avx512Move, Avx512Scan, Avx512Crc

vars == <<callVars, moveVars, scanVars, crcVars>>

Init == CallInit /\ MoveInit /\ ScanInit /\ CrcInit

\* The only state a call may stop in; TLC's deadlock check looks for others.
Returned == pc = "done" /\ UNCHANGED vars

Next ==
    \/ MoveNext /\ UNCHANGED <<scanVars, crcVars>>
    \/ ScanNext /\ UNCHANGED <<moveVars, crcVars>>
    \/ CrcNext /\ UNCHANGED <<moveVars, scanVars>>
    \/ Returned

Spec == Init /\ [][Next]_vars

-----------------------------------------------------------------------------
TypeOK ==
    /\ cpu \in Cpus
    /\ reads \subseteq Nat /\ aligned \subseteq Nat
    /\ DOMAIN stores \subseteq Nat /\ Range(stores) \subseteq Nat
    /\ s \in Nat /\ d \in Nat /\ size \in Nat /\ left \in Nat /\ zmm0 \in Vector
    /\ at \in Nat /\ phase \in 0 .. 7 /\ flushed \subseteq Nat
    /\ \A i \in 0 .. 7 : xmm[i] \subseteq 0 .. 127
    /\ crc \subseteq 0 .. 31 /\ ref \subseteq 0 .. 31
=============================================================================
