------------------------------- MODULE MCBatch -------------------------------
(* Instances of Batch: two cells and members that depend on each other. *)
EXTENDS Batch

Nop(fence) == [op |-> "nop", size |-> 0, fence |-> fence]
Fill(size, fence) == [op |-> "fill", dst |-> "a", value |-> 1, size |-> size, fence |-> fence]
Move(fence) == [op |-> "mem_move", src |-> "a", dst |-> "b", size |-> 1, fence |-> fence]
Compare(check, fence) ==
    [op |-> "compare", src |-> "a", dst |-> "b", size |-> 1, fence |-> fence,
     check |-> check, expected |-> 0]

MCCells == {"a", "b"}

\* Dependent members, one that stops a batch, a fence, and one that is rejected.
MCMembers == {Fill(1, FALSE), Fill(0, FALSE), Move(FALSE), Compare(TRUE, FALSE), Nop(TRUE)}
=============================================================================
