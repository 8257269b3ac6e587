------------------------------- MODULE MemMove -------------------------------
(***************************************************************************)
(* The Memory Move operation on the automatic path, one byte per step: the *)
(* device copies in a direction of its choice and may stop at any byte with *)
(* a page fault; automatic::wait then moves the descriptor past what the    *)
(* device has done (update_mem_move_for_continuation) and lets the software *)
(* kernel (dml_ref_mem_move) copy the rest.  Source and destination may     *)
(* overlap in any way.  The software path is the same kernel run on the     *)
(* whole request.                                                          *)
(***************************************************************************)
EXTENDS Status, Integers

CONSTANTS
    MemSize,   \* bytes of memory; addresses are 0 .. MemSize - 1
    Bytes      \* byte values

ASSUME MemAssumption == MemSize \in Nat

Addr == 0 .. MemSize - 1
Contents == [Addr -> Bytes]

VARIABLES
    memory,      \* memory now
    old,         \* memory when the job was submitted
    req,         \* the request as submitted
    descriptor,  \* the descriptor: source_address, destination_address, transfer_size
    rec,         \* the completion record: status, result, bytes_completed
    phase,       \* who is copying, and in which direction
    index        \* bytes copied in this phase

moveVars == <<memory, old, req, descriptor, rec, phase, index>>

\* Requests that pass validation: both ranges are memory, none is empty.
Requests == {r \in [src : Addr, dst : Addr, size : 1 .. MemSize] :
                /\ r.src + r.size <= MemSize
                /\ r.dst + r.size <= MemSize}

Statuses == {Processing, Success, PageFault, PageFault + 128}

MoveInit ==
    /\ memory \in Contents
    /\ old = memory
    /\ req \in Requests
    /\ descriptor = req
    /\ rec = [status |-> Processing, result |-> 0, bytes_completed |-> 0]
    /\ phase = "submit"
    /\ index = 0

\* The directions in which the source is read before it is overwritten.
ForwardSafe(d) == d.dst <= d.src \/ d.src + d.size <= d.dst
BackwardSafe(d) == d.src <= d.dst \/ d.dst + d.size <= d.src

\* The hardware path accepts the descriptor: external, the device picks a safe
\* direction and reports it in result (0 from the first byte, 1 from the last).
HwStart ==
    /\ phase = "submit"
    /\ \/ ForwardSafe(descriptor) /\ rec' = [rec EXCEPT !.result = 0]
       \/ BackwardSafe(descriptor) /\ rec' = [rec EXCEPT !.result = 1]
    /\ phase' = "hw"
    /\ UNCHANGED <<memory, old, req, descriptor, index>>

\* The byte of a copy of size n that comes after i others.
Forward(n, i) == i
Backward(n, i) == n - 1 - i

\* Byte k of the descriptor's ranges.
CopyByte(k) == memory' = [memory EXCEPT ![descriptor.dst + k] = memory[descriptor.src + k]]

HwCopy ==
    /\ phase = "hw"
    /\ index < descriptor.size
    /\ CopyByte(IF rec.result = 0 THEN Forward(descriptor.size, index)
                                  ELSE Backward(descriptor.size, index))
    /\ index' = index + 1
    /\ UNCHANGED <<old, req, descriptor, rec, phase>>

\* The device meets a page it cannot access.
HwStop ==
    /\ phase = "hw"
    /\ index < descriptor.size
    /\ \E rw \in {0, 128} :
          rec' = [rec EXCEPT !.status = PageFault + rw, !.bytes_completed = index]
    /\ phase' = "waiting"
    /\ UNCHANGED <<memory, old, req, descriptor, index>>

HwDone ==
    /\ phase = "hw"
    /\ index = descriptor.size
    /\ rec' = [rec EXCEPT !.status = Success, !.bytes_completed = index]
    /\ phase' = "waiting"
    /\ UNCHANGED <<memory, old, req, descriptor, index>>

\* The three-way test of dml_ref_mem_move on the descriptor's ranges.
KernelPhase(d) ==
    IF d.src + d.size <= d.dst \/ d.src >= d.dst + d.size THEN "sw_forward"
    ELSE IF d.src < d.dst + d.size /\ d.src + d.size > d.dst + d.size THEN "sw_forward"
    ELSE IF d.src < d.dst /\ d.src + d.size > d.dst THEN "sw_backward"
    ELSE "sw_same"

\* software_device::submit: the whole request on the software path, or after
\* the accelerators refused it.
SwStart ==
    /\ phase = "submit"
    /\ phase' = KernelPhase(descriptor)
    /\ UNCHANGED <<memory, old, req, descriptor, rec, index>>

\* Mutant: the direction of the device is ignored.
ContinuationForward(d, r) ==
    [src |-> d.src + r.bytes_completed, dst |-> d.dst + r.bytes_completed,
     size |-> d.size - r.bytes_completed]
\* update_mem_move_for_continuation: the addresses advance only when the
\* device went forward, the size shrinks always.
Continuation(d, r) ==
    IF r.result = 0
    THEN [src |-> d.src + r.bytes_completed, dst |-> d.dst + r.bytes_completed,
          size |-> d.size - r.bytes_completed]
    ELSE [d EXCEPT !.size = d.size - r.bytes_completed]

\* automatic::wait finds a page fault: it clones the record, moves the
\* descriptor and starts the software kernel on it.
ContinueInSoftware ==
    /\ phase = "waiting"
    /\ IsPageFault(rec.status)
    /\ descriptor' = Continuation(descriptor, rec)
    /\ phase' = KernelPhase(descriptor')
    /\ index' = 0
    /\ UNCHANGED <<memory, old, req, rec>>

\* automatic::wait finds a finished record.
WaitReturns ==
    /\ phase = "waiting"
    /\ ~IsPageFault(rec.status)
    /\ phase' = "done"
    /\ UNCHANGED <<memory, old, req, descriptor, rec, index>>

\* own_copy_forward and own_copy_backward.
SwCopy ==
    /\ phase \in {"sw_forward", "sw_backward"}
    /\ index < descriptor.size
    /\ CopyByte(IF phase = "sw_forward" THEN Forward(descriptor.size, index)
                                        ELSE Backward(descriptor.size, index))
    /\ index' = index + 1
    /\ UNCHANGED <<old, req, descriptor, rec, phase>>

\* The kernel ends: success, and accumulate_records adds bytes_completed of
\* the cloned record to the one the kernel has left as it was.
SwDone ==
    /\ \/ phase \in {"sw_forward", "sw_backward"} /\ index = descriptor.size
       \/ phase = "sw_same"
    /\ rec' = [rec EXCEPT !.status = Success,
                          !.bytes_completed = @ + rec.bytes_completed]
    /\ phase' = "done"
    /\ UNCHANGED <<memory, old, req, descriptor, index>>

MoveNext ==
    \/ HwStart \/ HwCopy \/ HwStop \/ HwDone
    \/ SwStart \/ SwCopy \/ SwDone
    \/ ContinueInSoftware \/ WaitReturns

MoveSpec == MoveInit /\ [][MoveNext]_moveVars

-----------------------------------------------------------------------------
MoveTypeOK ==
    /\ memory \in Contents /\ old \in Contents
    /\ req \in Requests /\ descriptor \in Requests
    /\ rec \in [status : Statuses, result : {0, 1},
                bytes_completed : Nat]
    /\ phase \in {"submit", "hw", "waiting", "sw_forward", "sw_backward", "sw_same", "done"}
    /\ index \in 0 .. MemSize

\* The value of address a after a move of request r: the destination is the
\* source as it was.
Moved(r, a) == IF a \in r.dst .. r.dst + r.size - 1 THEN old[r.src + (a - r.dst)] ELSE old[a]

\* Whoever copied and wherever a fault cut the work, the job ends with exactly
\* the destination range replaced by the original source, for any overlap.
MoveCorrect == phase = "done" => \A a \in Addr : memory[a] = Moved(req, a)

\* Neither a read nor a write fault of the device reaches the caller of the
\* automatic path.
FaultHidden == phase = "done" => rec.status = Success
=============================================================================
