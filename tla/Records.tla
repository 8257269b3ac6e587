------------------------------- MODULE Records -------------------------------
(***************************************************************************)
(* What the devices write into completion records, and how the automatic   *)
(* path takes an operation up again after a page fault: the descriptor is   *)
(* rewritten in place, the software kernel runs on it, and its record is    *)
(* merged with the one of the accelerator.  What the kernels compute is     *)
(* modelled elsewhere (AutoPath, Dif, Kernels, Batch); here an operation     *)
(* may find anything in memory.                                             *)
(***************************************************************************)
EXTENDS Caller

Success == 1
FalsePredicate == 2
PageFault == 3
BatchError == 5
DifError == 9
HardwareTimeout == 33

-----------------------------------------------------------------------------
(* What a device reads. *)

OperationOf(dsc) ==
    CHOOSE op \in Operations : operation[op] = Get(dsc, any_descriptor.operation)

\* The flags of a descriptor but for the two that rebind sets.
FlagNames(dsc) ==
    {n \in DOMAIN flag \ {"completion_record_address_valid", "request_completion_record"} :
        Has(Get(dsc, any_descriptor.flags), flag[n])}

\* The operation as the kernels and the accelerator read it.
Seen(dsc) ==
    LET op == OperationOf(dsc)
    IN  [op |-> op, arg |-> Fields(dsc, op), flags |-> FlagNames(dsc)]

Read(op, rec) == [n \in DOMAIN RecordView[op] |-> Get(rec, RecordView[op][n])]

-----------------------------------------------------------------------------
(* The kernels of the software device: fields they write, and values. *)

\* Stands for the checksum of n bytes from an address, going on from a seed.
Content(a) == a * a
Checksum(seed, from, n) == (seed + Content(from + n) - Content(from)) % CrcRange

\* The status of a comparison and of a delta that the caller has expectations of.
CompareStatus(want, result) ==
    IF "check_result" \in want.flags /\ result # want.arg.expected_result
    THEN FalsePredicate ELSE Success

DeltaStatus(want, result) ==
    LET mask == want.arg.expected_result_mask % 8
    IN  IF \/ "check_result" \notin want.flags
           \/ mask = 7
           \/ mask # 0 /\ mask \div 2 = result
        THEN Success ELSE FalsePredicate

\* Bytes of a block with its protection field, in the source of an operation.
SourceStep(want) ==
    DifBlockSize(want.arg.dif_flags) + (IF want.op = "dif_insert" THEN 0 ELSE 8)

\* Some of the bits that tell what is wrong with a protection field.
DifFaults == {1, 8}

compare(want) ==
    LET found(i, r) ==
            [bytes_completed |-> i, result |-> r, status |-> CompareStatus(want, r)]
    IN  {found(0, 0)} \cup {found(i, 1) : i \in 0 .. want.arg.transfer_size - 1}

\* A note for each word that differs, until there is no room for one.
create_delta(want) ==
    LET words == want.arg.transfer_size \div 8
        room == want.arg.maximum_delta_record_size \div 10
        noted(k, r) ==
            [delta_record_size |-> 10 * k, result |-> r, status |-> DeltaStatus(want, r)]
    IN  {noted(0, 0)} \cup {noted(k, 1) : k \in 1 .. (IF words < room THEN words ELSE room)}
        \cup (IF words > room THEN {noted(room, 2)} ELSE {})

crc(want) ==
    {[crc_value |-> Checksum(want.arg.crc_seed, want.arg.source_address, want.arg.transfer_size),
      status |-> Success]}

\* The first block with an error, or none.
dif_check(want) ==
    {[result |-> 0, bytes_completed |-> 0, status |-> Success]}
    \cup {[result |-> e, bytes_completed |-> k * SourceStep(want), status |-> DifError] :
            e \in DifFaults, k \in 0 .. (want.arg.transfer_size \div SourceStep(want)) - 1}

dif_insert == {[bytes_completed |-> 0, status |-> Success]}

\* Descriptors that were executed before one failed.
batch(want) ==
    LET n == want.arg.descriptors_count
    IN  {[bytes_completed |-> n, status |-> Success]}
        \cup {[bytes_completed |-> k, status |-> BatchError] : k \in 0 .. n - 1}

\* Of the other operations only the status tells.
KernelWrites(want) ==
    CASE want.op \in {"compare", "compare_pattern"} -> compare(want)
      [] want.op = "create_delta" -> create_delta(want)
      [] want.op \in {"crc", "copy_crc"} -> crc(want)
      [] want.op \in {"dif_check", "dif_strip", "dif_update"} -> dif_check(want)
      [] want.op = "dif_insert" -> dif_insert
      [] want.op = "batch" -> batch(want)
      [] OTHER -> {[status |-> Success]}

-----------------------------------------------------------------------------
(* The accelerator (external): the same, a page fault, or an error.  It fills *)
(* the whole record.                                                          *)

\* The argument that says how much there is to do.
Extent(op) == IF op = "apply_delta" THEN "delta_record_size" ELSE "transfer_size"

\* Operations stop where they can be taken up: between words of a pattern or a
\* delta, between notes, between protected blocks.
Grain(want) ==
    CASE want.op \in {"fill", "compare_pattern", "create_delta"} -> 8
      [] want.op = "apply_delta" -> 10
      [] want.op \in {"dif_check", "dif_insert", "dif_strip", "dif_update"} -> SourceStep(want)
      [] OTHER -> 1

MayFault(want) ==
    "block_on_fault" \notin want.flags /\ want.op \notin {"nop", "drain", "batch"}

FaultPoints(want) ==
    {b \in 0 .. want.arg[Extent(want.op)] - 1 : b % Grain(want) = 0}

TagFields == {"source_ref_tag", "source_app_tag", "destination_ref_tag", "destination_app_tag"}

\* Stands for a tag as it is for the block after b bytes.
TagAfter(want, n, b) == want.arg[n] + (b \div SourceStep(want))

\* The record of a fault after b bytes; detail is the number of notes of a
\* delta, or whether a move went backwards.
FaultRecord(want, b, detail, status) ==
    [n \in DOMAIN RecordView[want.op] |->
        CASE n = "status" -> status
          [] n = "bytes_completed" -> b
          [] n = "fault_address" -> 4096
          [] n = "result" -> IF want.op = "mem_move" THEN detail ELSE 0
          [] n = "crc_value" -> Checksum(want.arg.crc_seed, want.arg.source_address, b)
          [] n = "delta_record_size" -> 10 * detail
          [] n \in TagFields -> TagAfter(want, n, b)
          [] OTHER -> want.arg[n]]

Details(want, b) ==
    CASE want.op = "mem_move" -> {0, 1}
      [] want.op = "create_delta" ->
            {k \in 0 .. b \div 8 : 10 * k <= want.arg.maximum_delta_record_size}
      [] OTHER -> {0}

\* While reading or, with the highest bit, while writing.
Faults(want) ==
    IF MayFault(want)
    THEN UNION {{FaultRecord(want, b, k, s) : k \in Details(want, b), s \in {PageFault, PageFault + 128}} :
                    b \in FaultPoints(want)}
    ELSE {}

\* Fields that the kernels leave out: everything was done.
Done(want) == [n \in DOMAIN RecordView[want.op] |->
    IF n = "bytes_completed" THEN Arg(want, "transfer_size") ELSE 0]

Breakdown(want) == [n \in DOMAIN RecordView[want.op] |-> IF n = "status" THEN HardwareTimeout ELSE 0]

AcceleratorWrites(want) ==
    {Joined(x, Done(want)) : x \in KernelWrites(want)} \cup {Breakdown(want)} \cup Faults(want)

-----------------------------------------------------------------------------
(* Taking up what a page fault left. *)

\* Mutant: the second destination stays behind.
AdvancedOnce(op) ==
    IF op = "dualcast" THEN {"source_address", "destination_1_address"}
    ELSE IF op \in {"fill", "cache_flush"} THEN {"destination_address"}
    ELSE IF op = "apply_delta" THEN {"delta_record_address"}
    ELSE IF op \in {"compare", "create_delta"} THEN {"source_1_address", "source_2_address"}
    ELSE IF op \in {"nop", "drain", "batch"} THEN {}
    ELSE {"source_address", "destination_address"}
\* Addresses that go on by the bytes that were done.
Advanced(op) ==
    CASE op = "dualcast" -> {"source_address", "destination_1_address", "destination_2_address"}
      [] op \in {"fill", "cache_flush"} -> {"destination_address"}
      [] op = "apply_delta" -> {"delta_record_address"}
      [] op \in {"compare", "create_delta"} -> {"source_1_address", "source_2_address"}
      [] op \in {"nop", "drain", "batch"} -> {}
      [] OTHER -> {"source_address", "destination_address"}

\* The arguments of what is left, from those of the descriptor and the record.
\* A move that went backwards has done its end.
Left(op, a, r) ==
    LET b == r.bytes_completed
        backward == op = "mem_move" /\ r.result # 0
    IN  [n \in DOMAIN a |->
            IF n \in Advanced(op) THEN (IF backward THEN a[n] ELSE a[n] + b)
            ELSE IF n = Extent(op) THEN a[n] - b
            ELSE IF n = "crc_seed" THEN r.crc_value
            ELSE IF n \in TagFields THEN r[n]
            ELSE IF op = "create_delta" /\ n = "delta_record_address"
            THEN a[n] + r.delta_record_size
            ELSE IF op = "create_delta" /\ n = "maximum_delta_record_size"
            THEN a[n] - r.delta_record_size
            ELSE a[n]]

update_for_continuation(dsc, rec) ==
    LET op == OperationOf(dsc)
    IN  PutAll(dsc, View[op], Left(op, Fields(dsc, op), Read(op, rec)))

\* The record after the software kernel, with that of the accelerator.
accumulate_records(op, rec, prev_record) ==
    LET r == Read(op, rec)
        p == Read(op, prev_record)
        sum == [bytes_completed |-> r.bytes_completed + p.bytes_completed]
    IN  PutAll(rec, RecordView[op],
            CASE op \in {"nop", "drain", "batch"} -> [n \in {} |-> 0]
              [] op = "compare" -> [bytes_completed |-> p.bytes_completed]
              [] op = "create_delta" ->
                    Joined(sum, [delta_record_size |-> r.delta_record_size + p.delta_record_size])
              [] OTHER -> sum)

\* update_for_continuation, software::submit, accumulate_records.  (Nothing
\* clears the record: what a kernel does not write stays as the accelerator
\* left it.)
Continued(task) ==
    LET dsc == update_for_continuation(task.dsc, task.rec)
        op == OperationOf(dsc)
        written(x) == PutAll(task.rec, RecordView[op], x)
    IN  {[dsc |-> dsc, rec |-> accumulate_records(op, written(x), task.rec)] :
            x \in KernelWrites(Seen(dsc))}
=============================================================================
