------------------------------ MODULE MCMemMove ------------------------------
(* Instance of MemMove: every memory cell starts with a value of its own. *)
EXTENDS MemMove

\* Distinct initial contents tell every misplaced byte apart.
DistinctInit == memory = [a \in Addr |-> a] /\ MoveInit
DistinctSpec == DistinctInit /\ [][MoveNext]_moveVars
=============================================================================
