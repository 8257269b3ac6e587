------------------------------- MODULE Status -------------------------------
(***************************************************************************)
(* The status byte of a completion record, as far as the data operations    *)
(* tell its values apart (execution_status).                                *)
(***************************************************************************)
EXTENDS Integers

Processing == 0
Success == 1
FalsePredicate == 2
PageFault == 3

\* Bit 7 of a page fault tells a faulting write from a read.
WriteFault == PageFault + 128

\* Mutant: the read/write bit is not masked out.
IsReadFault(status) == status = PageFault
\* (status & remove_rw_bit_mask) == page_fault_status
IsPageFault(status) == status % 128 = PageFault
=============================================================================
