------------------------------- MODULE AutoPath -------------------------------
(***************************************************************************)
(* The data operations other than Memory Move, from submission to the       *)
(* fields of the job: software kernels, a device that may stop with a page  *)
(* fault, and the automatic path, whose wait and finished move the          *)
(* descriptor past what the device has done, run the software kernel on the *)
(* rest and merge the two completion records.                               *)
(*                                                                         *)
(* Validation rejects overlapping buffers for these operations, so every    *)
(* buffer is a function of its own and an address is an offset into it.     *)
(* Delta records are counted in notes (10 bytes each in the code).          *)
(***************************************************************************)
EXTENDS Status, Integers, Sequences, FiniteSetsExt, SequencesExt

CONSTANTS
    Jobs,       \* the jobs to run: records with the fields of BlankJob
    Size,       \* bytes in a buffer
    WordSize,   \* sizeof(uint64_t): bytes of a pattern and of a delta block
    Untouched   \* what the destinations hold before the job

Offsets == 0 .. Size - 1

\* What a CRC state is made of besides the bytes it has absorbed.
SeedMark == -1
ReflectMark == -2

Operations ==
    {"fill", "dualcast", "compare", "compare_pattern", "create_delta", "apply_delta",
     "crc", "copy_crc"}

\* Fields the operation of a job does not use keep these values.
BlankJob ==
    [op |-> "fill", transfer_size |-> 1,
     source_1 |-> [i \in Offsets |-> 0], source_2 |-> [i \in Offsets |-> 0],
     pattern |-> [i \in 0 .. WordSize - 1 |-> 0],
     delta |-> <<>>, maximum_delta_record_size |-> 0,
     check_result |-> FALSE, expected_result |-> 0,
     seed |-> <<SeedMark>>, bypass_reflection |-> FALSE]

\* Of a job, validation has checked its operation and that its buffers are as
\* large as its sizes say; delta offsets are unsigned, and a seed is a number.
ASSUME JobAssumption ==
    /\ Size \in Nat /\ WordSize \in Nat \ {0}
    /\ \A j \in Jobs :
          /\ j.op \in Operations
          /\ j.transfer_size \in 1 .. Size
          /\ j.check_result \in BOOLEAN /\ j.expected_result \in Nat
          /\ \A i \in Offsets : j.source_1[i] \in Nat
          /\ j.maximum_delta_record_size \in Nat
          /\ j.delta \in Seq([offset : Nat, data : [0 .. WordSize - 1 -> Nat]])
          /\ j.seed = <<SeedMark>>

\* Nothing checks the offsets in a delta record.  The caller has them from
\* create_delta on regions of the size of the destination.
ASSUME DeltaAssumption == \A j \in Jobs : j.op = "apply_delta" =>
    \A k \in DOMAIN j.delta : j.delta[k].offset < j.transfer_size \div WordSize

VARIABLES
    job,    \* the job as the caller filled it in
    path,   \* the execution path of the job
    dsc,    \* the fields of the descriptor that a continuation changes
    mem,    \* the buffers operations write, and the completion record
    out,    \* the output fields of the job and its status
    pc

vars == <<job, path, dsc, mem, out, pc>>

\* make_task: the descriptor of a job.
MakeTask(j) ==
    [source_1_address |-> 0, source_2_address |-> 0,
     destination_1_address |-> 0, destination_2_address |-> 0,
     delta_record_address |-> 0,
     transfer_size |-> j.transfer_size,
     delta_record_size |-> Len(j.delta),
     maximum_delta_record_size |-> j.maximum_delta_record_size,
     crc_seed |-> j.seed]

BlankRecord ==
    [status |-> Processing, result |-> 0, bytes_completed |-> 0,
     delta_record_size |-> 0, crc_value |-> <<>>]

BlankMem ==
    [dst1 |-> [i \in Offsets |-> Untouched], dst2 |-> [i \in Offsets |-> Untouched],
     delta |-> <<>>, rec |-> BlankRecord]

BlankOut == [status |-> Processing, result |-> 0, offset |-> 0, length |-> 0, crc |-> <<>>]

-----------------------------------------------------------------------------
(* The software kernels: what each does to the buffers and to the record.   *)
(* j is the job, d its descriptor, m the buffers and the record.            *)

\* Bytes from .. from + n - 1 of dst replaced by f(0) .. f(n - 1).
Write(dst, from, n, f(_)) ==
    [a \in DOMAIN dst |-> IF a \in from .. from + n - 1 THEN f(a - from) ELSE dst[a]]

Finish(m) == [m EXCEPT !.rec.status = Success]

dml_ref_fill_u64(pattern, dst, at, transfer_size) ==
    Write(dst, at, transfer_size, LAMBDA i : pattern[i % WordSize])

fill(j, d, m) ==
    Finish([m EXCEPT
        !.dst1 = dml_ref_fill_u64(j.pattern, @, d.destination_1_address, d.transfer_size)])

\* One of the two destinations of dml_ref_dualcast.
dml_ref_dualcast(src, from, dst, at, transfer_size) ==
    Write(dst, at, transfer_size, LAMBDA i : src[from + i])

dualcast(j, d, m) ==
    Finish([m EXCEPT
        !.dst1 = dml_ref_dualcast(j.source_1, d.source_1_address, @,
                                  d.destination_1_address, d.transfer_size),
        !.dst2 = dml_ref_dualcast(j.source_1, d.source_1_address, @,
                                  d.destination_2_address, d.transfer_size)])

\* check_result turns an unexpected result into false_predicate_success.
Predicate(j, result) ==
    IF j.check_result /\ j.expected_result # result THEN FalsePredicate ELSE Success

\* What a comparison writes into the record: found = <<bytes_completed, result>>.
Compared(j, m, found) ==
    [m EXCEPT !.rec.bytes_completed = found[1], !.rec.result = found[2],
              !.rec.status = Predicate(j, found[2])]

dml_ref_compare(j, d) ==
    LET diff == {i \in 0 .. d.transfer_size - 1 :
                    j.source_1[d.source_1_address + i] # j.source_2[d.source_2_address + i]}
    IN  IF diff = {} THEN <<0, 0>> ELSE <<Min(diff), 1>>

compare(j, d, m) == Compared(j, m, dml_ref_compare(j, d))

\* Whole words are compared as words and reported by their first byte, the
\* tail byte by byte.
dml_ref_compare_pattern(j, d) ==
    LET tail == (d.transfer_size \div WordSize) * WordSize
        diff == {i \in 0 .. d.transfer_size - 1 :
                    j.source_1[d.source_1_address + i] # j.pattern[i % WordSize]}
    IN  IF diff = {} THEN <<0, 0>>
        ELSE IF Min(diff) < tail THEN <<(Min(diff) \div WordSize) * WordSize, 1>>
        ELSE <<Min(diff), 1>>

compare_pattern(j, d, m) == Compared(j, m, dml_ref_compare_pattern(j, d))

Word(buffer, from, index) ==
    [i \in 0 .. WordSize - 1 |-> buffer[from + index * WordSize + i]]

\* The delta notes of a descriptor, in order, as if there were room for all: the
\* loop over the words, of which Found[n] has seen n.
Notes(j, d) ==
    LET words == d.transfer_size \div WordSize
        Found[n \in 0 .. words] ==
            IF n = 0 THEN <<>>
            ELSE LET word == Word(j.source_2, d.source_2_address, n - 1)
                 IN  IF Word(j.source_1, d.source_1_address, n - 1) = word
                     THEN Found[n - 1]
                     ELSE Append(Found[n - 1], [offset |-> n - 1, data |-> word])
    IN  Found[words]

\* The notes that fit, and the result.
dml_ref_create_delta(j, d) ==
    LET all == Notes(j, d)
    IN  IF Len(all) > d.maximum_delta_record_size
        THEN <<SubSeq(all, 1, d.maximum_delta_record_size), 2>>
        ELSE <<all, IF all = <<>> THEN 0 ELSE 1>>

\* Notes put into the delta buffer from address at on.
PutNotes(delta, at, notes) == SubSeq(delta, 1, at) \o notes

\* The three-bit mask of acceptable results.
DeltaStatus(j, result) ==
    LET mask == j.expected_result % 8
    IN  IF ~j.check_result \/ mask = 7 THEN Success
        ELSE IF mask # 0 /\ mask \div 2 = result THEN Success
        ELSE FalsePredicate

create_delta(j, d, m) ==
    LET found == dml_ref_create_delta(j, d)
    IN  [m EXCEPT !.delta = PutNotes(@, d.delta_record_address, found[1]),
                  !.rec.delta_record_size = Len(found[1]),
                  !.rec.result = found[2],
                  !.rec.status = DeltaStatus(j, found[2])]

\* The last note of the record that is about a word decides its value.  (Notes
\* are about words of the destination, see DeltaAssumption.)
dml_ref_apply_delta(notes, dst, at) ==
    [i \in DOMAIN dst |->
        LET about == {k \in DOMAIN notes : notes[k].offset = (i - at) \div WordSize}
        IN  IF about = {} THEN dst[i] ELSE notes[Max(about)].data[(i - at) % WordSize]]

apply_delta(j, d, m) ==
    LET notes == SubSeq(j.delta, d.delta_record_address + 1,
                        d.delta_record_address + d.delta_record_size)
    IN  Finish([m EXCEPT !.dst1 = dml_ref_apply_delta(notes, @, d.destination_1_address)])

\* A CRC state is what it has absorbed: the seed, bytes, and an inversion with
\* reflection, which undoes itself.
Reflect(crc) == IF Last(crc) = ReflectMark THEN Front(crc) ELSE Append(crc, ReflectMark)
Absorb(crc, j, d) ==
    crc \o [i \in 1 .. d.transfer_size |-> j.source_1[d.source_1_address + i - 1]]

crc(j, d, m) ==
    Finish([m EXCEPT !.rec.crc_value =
        IF j.bypass_reflection THEN Absorb(d.crc_seed, j, d)
                               ELSE Reflect(Absorb(Reflect(d.crc_seed), j, d))])

\* dispatch::mem_move on buffers that do not overlap, then the CRC.
copy_crc(j, d, m) ==
    crc(j, d, [m EXCEPT !.dst1 = Write(@, d.destination_1_address, d.transfer_size,
                                       LAMBDA i : j.source_1[d.source_1_address + i])])

\* software_device::submit
Kernel(j, d, m) ==
    CASE j.op = "fill" -> fill(j, d, m)
      [] j.op = "dualcast" -> dualcast(j, d, m)
      [] j.op = "compare" -> compare(j, d, m)
      [] j.op = "compare_pattern" -> compare_pattern(j, d, m)
      [] j.op = "create_delta" -> create_delta(j, d, m)
      [] j.op = "apply_delta" -> apply_delta(j, d, m)
      [] j.op = "crc" -> crc(j, d, m)
      [] j.op = "copy_crc" -> copy_crc(j, d, m)

-----------------------------------------------------------------------------
(* The device, external: it does what the kernel does to a part of the job. *)

\* The descriptor cut to the first b bytes (notes, for apply_delta).
Prefix(j, d, b) ==
    IF j.op = "apply_delta" THEN [d EXCEPT !.delta_record_size = b]
                            ELSE [d EXCEPT !.transfer_size = b]

Extent(j, d) == IF j.op = "apply_delta" THEN d.delta_record_size ELSE d.transfer_size

\* Where the device may stop: it has stopped earlier if it has found what ends
\* the operation, and it works on whole patterns and delta blocks.
FaultPoints(j, d, m) ==
    {b \in 0 .. Extent(j, d) - 1 :
        LET r == Kernel(j, Prefix(j, d, b), m).rec
        IN  /\ j.op \in {"compare", "compare_pattern"} => r.result = 0
            /\ j.op = "create_delta" => r.result # 2
            /\ j.op \in {"fill", "compare_pattern", "create_delta"} => b % WordSize = 0}

HwFaulted(j, d, m, b, status) ==
    LET done == Kernel(j, Prefix(j, d, b), m)
    IN  [done EXCEPT !.rec.status = status, !.rec.bytes_completed = b]

-----------------------------------------------------------------------------
(* The automatic path: continuation and merge, operation by operation.      *)

\* Mutants: one of the fields of the descriptor is forgotten.
ForgetDestination(j, d, r) ==
    [d EXCEPT !.transfer_size = @ - r.bytes_completed,
              !.source_1_address = @ + r.bytes_completed,
              !.source_2_address = @ + r.bytes_completed,
              !.crc_seed = IF j.op \in {"crc", "copy_crc"} THEN r.crc_value ELSE @]
ForgetSeed(j, d, r) ==
    [d EXCEPT !.transfer_size = @ - r.bytes_completed,
              !.source_1_address = @ + r.bytes_completed,
              !.source_2_address = @ + r.bytes_completed,
              !.destination_1_address = @ + r.bytes_completed,
              !.destination_2_address = @ + r.bytes_completed]
update_for_continuation(j, d, r) ==
    LET b == r.bytes_completed
    IN  CASE j.op = "fill" ->
                [d EXCEPT !.transfer_size = @ - b, !.destination_1_address = @ + b]
          [] j.op = "dualcast" ->
                [d EXCEPT !.transfer_size = @ - b, !.source_1_address = @ + b,
                          !.destination_1_address = @ + b, !.destination_2_address = @ + b]
          [] j.op = "compare" ->
                [d EXCEPT !.transfer_size = @ - b, !.source_1_address = @ + b,
                          !.source_2_address = @ + b]
          [] j.op = "compare_pattern" ->
                [d EXCEPT !.transfer_size = @ - b, !.source_1_address = @ + b]
          [] j.op = "create_delta" ->
                [d EXCEPT !.transfer_size = @ - b, !.source_1_address = @ + b,
                          !.source_2_address = @ + b,
                          !.maximum_delta_record_size = @ - r.delta_record_size,
                          !.delta_record_address = @ + r.delta_record_size]
          [] j.op = "apply_delta" ->
                [d EXCEPT !.delta_record_size = @ - b, !.delta_record_address = @ + b]
          [] j.op = "crc" ->
                [d EXCEPT !.crc_seed = r.crc_value, !.transfer_size = @ - b,
                          !.source_1_address = @ + b]
          [] j.op = "copy_crc" ->
                [d EXCEPT !.crc_seed = r.crc_value, !.transfer_size = @ - b,
                          !.source_1_address = @ + b, !.destination_1_address = @ + b]

\* Mutant: only the first note of the second part is moved.
ShiftFirstNote(delta, from, n, by) ==
    [k \in DOMAIN delta |->
        IF n > 0 /\ k = from + 1 THEN [delta[k] EXCEPT !.offset = @ + by] ELSE delta[k]]
\* The notes of the second part count from the start of the second part.
ShiftNotes(delta, from, n, by) ==
    [k \in DOMAIN delta |->
        IF k \in from + 1 .. from + n THEN [delta[k] EXCEPT !.offset = @ + by] ELSE delta[k]]

\* Mutant: the offset of the first part is lost for every comparison.
AccumulateNothing(j, d, m, prev) == m
\* d is the descriptor of the second part, prev the record of the first.  The
\* record is not cleared in between (the code clears a copy), so a kernel that
\* does not write bytes_completed leaves the value of the first part.
accumulate_records(j, d, m, prev) ==
    CASE j.op = "compare" -> [m EXCEPT !.rec.bytes_completed = prev.bytes_completed]
      [] j.op = "create_delta" ->
            [m EXCEPT !.rec.bytes_completed = @ + prev.bytes_completed,
                      !.delta = ShiftNotes(@, d.delta_record_address, m.rec.delta_record_size,
                                           prev.bytes_completed \div WordSize),
                      !.rec.delta_record_size = @ + prev.delta_record_size]
      [] OTHER -> [m EXCEPT !.rec.bytes_completed = @ + prev.bytes_completed]

-----------------------------------------------------------------------------
(* write_result of the job API. *)

\* Mutant: the output fields are added to.
WriteResultAdding(j, m, o) ==
    [o EXCEPT !.status = m.rec.status, !.result = m.rec.result,
              !.offset = @ + m.rec.bytes_completed,
              !.length = m.rec.delta_record_size, !.crc = m.rec.crc_value]
\* The offset of a delta job is read from its delta buffer: 0 stands for what
\* the caller left there when no note was written.
write_result(j, m, o) ==
    LET done == [o EXCEPT !.status = m.rec.status]
    IN  CASE j.op \in {"compare", "compare_pattern"} ->
                [done EXCEPT !.offset = m.rec.bytes_completed, !.result = m.rec.result]
          [] j.op = "create_delta" ->
                [done EXCEPT !.length = m.rec.delta_record_size, !.result = m.rec.result,
                             !.offset = IF m.delta = <<>> THEN 0 ELSE m.delta[1].offset]
          [] j.op \in {"crc", "copy_crc"} -> [done EXCEPT !.crc = m.rec.crc_value]
          [] OTHER -> done

Init ==
    /\ job \in Jobs
    /\ path \in {"software", "hardware", "automatic"}
    /\ dsc = MakeTask(job)
    /\ mem = BlankMem
    /\ out = BlankOut
    /\ pc = "submit"

\* The software path, and the automatic path when no queue takes the job.
SwSubmit ==
    /\ pc = "submit" /\ path \in {"software", "automatic"}
    /\ mem' = Kernel(job, dsc, mem)
    /\ pc' = "submitted"
    /\ UNCHANGED <<job, path, dsc, out>>

HwSubmit ==
    /\ pc = "submit" /\ path \in {"hardware", "automatic"}
    /\ pc' = "hw"
    /\ UNCHANGED <<job, path, dsc, mem, out>>

HwComplete ==
    /\ pc = "hw"
    /\ mem' = Kernel(job, dsc, mem)
    /\ pc' = "submitted"
    /\ UNCHANGED <<job, path, dsc, out>>

HwFault ==
    /\ pc = "hw"
    /\ \E b \in FaultPoints(job, dsc, mem), status \in {PageFault, WriteFault} :
          mem' = HwFaulted(job, dsc, mem, b, status)
    /\ pc' = "submitted"
    /\ UNCHANGED <<job, path, dsc, out>>

\* wait, or check once the status byte is written: dml_check_job and
\* dml_wait_job may be called again on a finished job.
WaitJob ==
    /\ pc \in {"submitted", "done"}
    /\ IF path = "automatic" /\ IsPageFault(mem.rec.status)
       THEN /\ dsc' = update_for_continuation(job, dsc, mem.rec)
            /\ mem' = accumulate_records(job, dsc', Kernel(job, dsc', mem), mem.rec)
       ELSE UNCHANGED <<dsc, mem>>
    /\ out' = write_result(job, mem', out)
    /\ pc' = "done"
    /\ UNCHANGED <<job, path>>

Next == SwSubmit \/ HwSubmit \/ HwComplete \/ HwFault \/ WaitJob

Spec == Init /\ [][Next]_vars

-----------------------------------------------------------------------------
TypeOK ==
    /\ path \in {"software", "hardware", "automatic"}
    /\ pc \in {"submit", "hw", "submitted", "done"}
    /\ dsc.transfer_size \in 0 .. job.transfer_size
    /\ dsc.maximum_delta_record_size \in 0 .. job.maximum_delta_record_size
    /\ dsc.delta_record_size \in 0 .. Len(job.delta)
    /\ mem.rec.status \in {Processing, Success, FalsePredicate, PageFault, WriteFault}
    /\ mem.rec.result \in 0 .. 2

\* The job has run to its end: nothing is left to a caller that has to handle
\* page faults itself.
\* Only the hardware path may leave a page fault to the caller, who then has a
\* job that is not completed.
Completed == pc = "done" /\ (path = "hardware" => out.status \notin {PageFault, WriteFault})

\* What each operation leaves in the destinations, byte by byte.
WantedDst1(i) ==
    LET inside == i < job.transfer_size
        notes == {k \in DOMAIN job.delta : job.delta[k].offset = i \div WordSize}
    IN  CASE job.op = "fill" /\ inside -> job.pattern[i % WordSize]
          [] job.op \in {"dualcast", "copy_crc"} /\ inside -> job.source_1[i]
          [] job.op = "apply_delta" /\ notes # {} -> job.delta[Max(notes)].data[i % WordSize]
          [] OTHER -> Untouched
WantedDst2(i) ==
    IF job.op = "dualcast" /\ i < job.transfer_size THEN job.source_1[i] ELSE Untouched

\* Whatever the path and wherever a fault cut the work, the destinations end
\* as if one kernel had run over the whole job: the two parts meet without a
\* gap, an overlap or a shifted pattern, and no byte outside is written.
DestinationCorrect ==
    Completed => \A i \in Offsets :
        mem.dst1[i] = WantedDst1(i) /\ mem.dst2[i] = WantedDst2(i)

\* The checksum of a job is that of its whole source in order, once inverted
\* and reflected or not at all, however the work was split.  It is that of the
\* bytes of the source and no others: the padding of CrcPadded is not done.
CrcOfWholeSource ==
    Completed /\ job.op \in {"crc", "copy_crc"} =>
        LET whole == SubSeq([i \in 1 .. Size |-> job.source_1[i - 1]], 1, job.transfer_size)
        IN  out.crc = IF job.bypass_reflection THEN <<SeedMark>> \o whole
                      ELSE <<SeedMark, ReflectMark>> \o whole \o <<ReflectMark>>

\* CRC, as the documentation has it: a source whose size is not a multiple of 4
\* is padded to the end with zeros.
CrcPadded ==
    Completed /\ job.op \in {"crc", "copy_crc"} =>
        LET whole == SubSeq([i \in 1 .. Size |-> job.source_1[i - 1]], 1, job.transfer_size)
            zeros == [i \in 1 .. (4 - (job.transfer_size % 4)) % 4 |-> 0]
        IN  out.crc = IF job.bypass_reflection THEN <<SeedMark>> \o whole \o zeros
                      ELSE <<SeedMark, ReflectMark>> \o whole \o zeros \o <<ReflectMark>>

Mismatches ==
    {i \in 0 .. job.transfer_size - 1 :
        job.source_1[i] # IF job.op = "compare" THEN job.source_2[i]
                                                ELSE job.pattern[i % WordSize]}

\* Both comparisons find out whether there is a difference anywhere, and the
\* status follows from that and from expected_result, however the work was
\* split.  (The result is 0 or 1 for a checked job too, see CheckedResult.)  The
\* offset of compare_pattern is that of the word of the first difference: never
\* past the difference, and within a word of it.
ComparisonResult ==
    Completed /\ job.op \in {"compare", "compare_pattern"} =>
        /\ out.result = IF Mismatches = {} THEN 0 ELSE 1
        /\ out.status = FalsePredicate <=>
              job.check_result /\ job.expected_result # out.result
        /\ job.op = "compare_pattern" /\ Mismatches # {} =>
              /\ out.offset <= Min(Mismatches)
              /\ Min(Mismatches) - out.offset < WordSize

\* Compare, as the documentation has it: the offset field of a compare job
\* that found a difference is the offset of the first difference.
CompareOffset ==
    Completed /\ job.op = "compare" /\ out.result = 1 => out.offset = Min(Mismatches)

\* Comparisons, as the documentation has them: bit 1 of the result field of a
\* checked job tells that the outcome is not the expected one.  In the code the
\* status alone tells.
CheckedResult ==
    Completed /\ job.op \in {"compare", "compare_pattern"} /\ job.check_result =>
        (out.result >= 2 <=> out.result % 2 # job.expected_result)

\* The notes a finished create_delta job has produced.
Produced == SubSeq(mem.delta, 1, out.length)

\* The notes are the first differences of the two sources in order, with their
\* offsets from the start of the job and the second source's data; there are
\* as many as differ or, on overflow, as many as fit.  So a delta record that
\* two workers wrote still turns source 1 into source 2.  The status of a checked
\* job tells whether the result is the one the caller expected, by the documented
\* value for equal, not equal or overflow.
DeltaComplete ==
    Completed /\ job.op = "create_delta" =>
        LET all == Notes(job, MakeTask(job))
        IN  /\ Produced = SubSeq(all, 1, Len(Produced))
            /\ Len(Produced) = IF Len(all) > job.maximum_delta_record_size
                               THEN job.maximum_delta_record_size ELSE Len(all)
            /\ out.result = 2 <=> Len(all) > job.maximum_delta_record_size
            /\ job.check_result /\ job.expected_result \in {1, 2, 4} =>
                  (out.status = Success <=> job.expected_result = 2 ^ out.result)

\* Create Delta, as the documentation has it: the result field is 1 when the
\* regions differ and the complete set of deltas has been written.
DeltaResult ==
    Completed /\ job.op = "create_delta" /\ Produced # <<>> /\ out.result # 2
        => out.result = 1

\* Calling wait or check again on a finished job changes nothing.
WaitIsIdempotent ==
    [][pc = "done" => UNCHANGED <<dsc, mem, out>>]_vars
=============================================================================
