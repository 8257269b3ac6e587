--------------------------------- MODULE Dif ---------------------------------
(***************************************************************************)
(* The Data Integrity Field operations: check, insert, strip and update,    *)
(* in software, on a device that may stop with a page fault after any       *)
(* block, and on the automatic path, where the software kernel goes on.     *)
(*                                                                         *)
(* A buffer is a function from offsets to cells.  A block is BlockSize      *)
(* cells of data ([byte |-> n]); its field (8 bytes in the code) is one     *)
(* cell that holds guard, application tag and reference tag.  A guard is what the CRC was   *)
(* computed from: two guards are equal if that is equal.                    *)
(***************************************************************************)
EXTENDS Status, Integers, FiniteSetsExt

CONSTANTS
    Jobs,       \* the jobs to run: records with the fields of BlankJob
    BlockSize,  \* cells of data in a block
    Size,       \* cells in a buffer
    AppTags,    \* 2^16 in the code: number of application tags
    RefTags     \* 2^32 in the code: number of reference tags

\* One more status of the completion record.
DifError == 9

\* DML_DIF_CHECK_*
GuardMismatch == 1
AppTagMismatch == 2
RefTagMismatch == 4
AllBitsSet == 8

Offsets == 0 .. Size - 1
Step == BlockSize + 1           \* a block with its field
Blank == [byte |-> -1]          \* what the destination holds before the job
\* A guard no block has, and the field of all ones.
NoGuard == <<TRUE, [i \in 0 .. BlockSize - 1 |-> Blank], TRUE>>
AllOnes == [guard |-> NoGuard, app |-> AppTags - 1, ref |-> RefTags - 1]

\* Seeds, mask and formats of one side (source or destination) of a job.
BlankSide ==
    [app |-> 0, ref |-> 0, mask |-> 1, inc_app |-> FALSE, fix_ref |-> FALSE]

BlankJob ==
    [op |-> "check", blocks |-> 1, data |-> [i \in Offsets |-> Blank],
     invert_seed |-> FALSE, invert_result |-> FALSE,
     src |-> BlankSide, dst |-> BlankSide,
     no_guard |-> FALSE, no_ref |-> FALSE,
     enable_error |-> FALSE, detect_all |-> FALSE, detect_app |-> FALSE, detect_tags |-> FALSE,
     pass_guard |-> FALSE, pass_app |-> FALSE, pass_ref |-> FALSE]

\* Cells a block takes in the source and in the destination.
SourceStep(op) == IF op = "insert" THEN BlockSize ELSE Step
DestinationStep(op) == IF op = "strip" THEN BlockSize ELSE Step

\* There is something in a block, tags are unsigned and application tags have at
\* most 16 bits.
ASSUME SizeAssumption ==
    /\ BlockSize \in Nat \ {0} /\ Size \in Nat
    /\ AppTags \in 1 .. 2 ^ 16 /\ RefTags \in Nat \ {0}

\* Jobs have passed validation: blocks there are, with their fields they fit the
\* buffers, seeds are tags, and the source of the blocks holds data.
ASSUME JobAssumption == \A j \in Jobs :
    /\ DOMAIN j = DOMAIN BlankJob
    /\ j.op \in {"check", "insert", "strip", "update"}
    /\ j.blocks \in Nat \ {0} /\ j.blocks * Step <= Size
    /\ DOMAIN j.data = Offsets
    /\ \A i \in 0 .. j.blocks * SourceStep(j.op) - 1 : j.data[i] # Blank
    /\ {j.src.app, j.dst.app} \subseteq 0 .. AppTags - 1
    /\ {j.src.ref, j.dst.ref} \subseteq 0 .. RefTags - 1

VARIABLES
    job,    \* the job as the caller filled it in
    path,   \* its execution path
    dsc,    \* the fields of the descriptor that a continuation changes
    out,    \* the destination
    rec,    \* the completion record
    ret,    \* status, result and offset as write_result leaves them in the job
    pc

vars == <<job, path, dsc, out, rec, ret, pc>>

\* The descriptor of a job: the length is a multiple of the step (validation).
MakeTask(j) ==
    [src |-> 0, dst |-> 0, size |-> j.blocks * SourceStep(j.op),
     src_app |-> j.src.app, src_ref |-> j.src.ref,
     dst_app |-> j.dst.app, dst_ref |-> j.dst.ref]

-----------------------------------------------------------------------------
(* The tags and the guard of the k-th block. *)

AppTag(side, seed, k) == (seed + (IF side.inc_app THEN k ELSE 0)) % AppTags
RefTag(side, seed, k) == (seed + (IF side.fix_ref THEN 0 ELSE k)) % RefTags
\* ~mask, in 16 bits
Unmasked(side) == AppTags - 1 - side.mask

\* a & b, of two words of 16 bits.
Bits(n) == {i \in 0 .. 15 : (n \div 2 ^ i) % 2 = 1}
And(a, b) == SumSet({2 ^ i : i \in Bits(a) \cap Bits(b)})

Block(buffer, from) == [i \in 0 .. BlockSize - 1 |-> buffer[from + i]]
\* Seed, CRC over the block, result inverted or not.
Guard(j, block) == <<j.invert_seed, block, j.invert_result>>

\* The field computed for the k-th block.
Field(j, side, app, ref, block, k) ==
    [guard |-> Guard(j, block),
     app |-> And(AppTag(side, app, k), Unmasked(side)),
     ref |-> RefTag(side, ref, k)]

-----------------------------------------------------------------------------
(* dml_legacy_dif_check *)

\* F detect conditions that skip a block.
Skipped(j, f) ==
    \/ j.detect_tags /\ f.app = AppTags - 1 /\ f.ref = RefTags - 1
    \/ j.detect_app /\ f.app = AppTags - 1

\* What is wrong with the k-th block, as a sum of flags.  The mask is compared
\* with all ones after it has been inverted.
Errors(j, d, k) ==
    LET at == d.src + k * Step
        f == j.data[at + BlockSize]
        want == Field(j, j.src, d.src_app, d.src_ref, Block(j.data, at), k)
    IN  IF j.detect_all /\ j.enable_error /\ f = AllOnes THEN AllBitsSet
        ELSE IF Skipped(j, f) THEN 0
        ELSE (IF ~j.no_guard /\ f.guard # want.guard THEN GuardMismatch ELSE 0)
           + (IF ~j.no_ref /\ f.ref # want.ref THEN RefTagMismatch ELSE 0)
           + (IF Unmasked(j.src) # AppTags - 1 /\ f.app # want.app THEN AppTagMismatch ELSE 0)

\* <<result, offset>>: the first block with an error, or nothing.
dml_legacy_dif_check(j, d) ==
    LET bad == {k \in 0 .. d.size \div Step - 1 : Errors(j, d, k) # 0}
    IN  IF bad = {} THEN <<0, 0>>
        ELSE <<Errors(j, d, Min(bad)), Min(bad) * Step>>

-----------------------------------------------------------------------------
(* The kernels: destination and record after a descriptor. *)

\* The record of a kernel; the tags in the record are not written.
Finished(r, found) ==
    [r EXCEPT !.result = found[1], !.bytes_completed = found[2],
              !.status = IF found[1] = 0 THEN Success ELSE DifError]

\* cell[k][i]: cell i of the k-th block of the destination.
WriteBlocks(dst, from, step, n, cell) ==
    [a \in DOMAIN dst |->
        IF a \in from .. from + n * step - 1
        THEN cell[(a - from) \div step][(a - from) % step] ELSE dst[a]]

dif_check(j, d, o, r) == [out |-> o, rec |-> Finished(r, dml_legacy_dif_check(j, d))]

\* Mutant: the tags follow the source's formats.
InsertedAsSource(j, d, k) ==
    Field(j, j.src, d.dst_app, d.dst_ref, Block(j.data, d.src + k * BlockSize), k)
\* The field insert writes for the k-th block.
Inserted(j, d, k) ==
    Field(j, j.dst, d.dst_app, d.dst_ref, Block(j.data, d.src + k * BlockSize), k)

dif_insert(j, d, o, r) ==
    LET n == d.size \div BlockSize
        cell == [k \in 0 .. n - 1 |-> [i \in 0 .. BlockSize |->
                    IF i < BlockSize THEN j.data[d.src + k * BlockSize + i] ELSE Inserted(j, d, k)]]
    IN  [out |-> WriteBlocks(o, d.dst, DestinationStep(j.op), n, cell),
         rec |-> [r EXCEPT !.status = Success, !.bytes_completed = 0]]

\* All blocks are checked before any is copied.
dif_strip(j, d, o, r) ==
    LET found == dml_legacy_dif_check(j, d)
        n == d.size \div Step
        cell == [k \in 0 .. n - 1 |->
                    [i \in 0 .. BlockSize - 1 |-> j.data[d.src + k * Step + i]]]
    IN  [out |-> IF found[1] # 0 THEN o
                 ELSE WriteBlocks(o, d.dst, DestinationStep(j.op), n, cell),
         rec |-> Finished(r, found)]

\* The field update writes for a block whose field is f.
Updated(j, d, f, block, k) ==
    LET new == Field(j, j.dst, d.dst_app, d.dst_ref, block, k)
    IN  [guard |-> IF j.pass_guard THEN f.guard ELSE new.guard,
         app |-> IF j.pass_app THEN f.app ELSE new.app,
         ref |-> IF j.pass_ref THEN f.ref ELSE new.ref]

dif_update(j, d, o, r) ==
    LET found == dml_legacy_dif_check(j, d)
        n == d.size \div Step
        from(k) == d.src + k * Step
        cell == [k \in 0 .. n - 1 |-> [i \in 0 .. BlockSize |->
                    IF i < BlockSize THEN j.data[from(k) + i]
                    ELSE Updated(j, d, j.data[from(k) + i], Block(j.data, from(k)), k)]]
    IN  [out |-> IF found[1] # 0 THEN o
                 ELSE WriteBlocks(o, d.dst, DestinationStep(j.op), n, cell),
         rec |-> Finished(r, found)]

Kernel(j, d, o, r) ==
    CASE j.op = "check" -> dif_check(j, d, o, r)
      [] j.op = "insert" -> dif_insert(j, d, o, r)
      [] j.op = "strip" -> dif_strip(j, d, o, r)
      [] j.op = "update" -> dif_update(j, d, o, r)

-----------------------------------------------------------------------------
(* The device, external: block after block until the first error. *)

Prefix(j, d, n) == [d EXCEPT !.size = n * SourceStep(j.op)]

\* Blocks the device gets through.
Good(j, d) ==
    IF j.op = "insert" THEN j.blocks ELSE
    LET bad == {k \in 0 .. j.blocks - 1 : Errors(j, d, k) # 0}
    IN  IF bad = {} THEN j.blocks ELSE Min(bad)

\* The record after n blocks: with the tags of the next one.
HwFaulted(j, d, o, r, n, status) ==
    [out |-> Kernel(j, Prefix(j, d, n), o, r).out,
     rec |-> [status |-> status, result |-> 0, bytes_completed |-> n * SourceStep(j.op),
              src_app |-> AppTag(j.src, d.src_app, n), src_ref |-> RefTag(j.src, d.src_ref, n),
              dst_app |-> AppTag(j.dst, d.dst_app, n), dst_ref |-> RefTag(j.dst, d.dst_ref, n)]]

HwDone(j, d, o, r) ==
    [out |-> Kernel(j, Prefix(j, d, Good(j, d)), o, r).out, rec |-> Kernel(j, d, o, r).rec]

-----------------------------------------------------------------------------
(* The automatic path. *)

\* Mutant: the source's tags are not taken over from the record.
ContinueWithoutSourceTags(j, d, r) ==
    [d EXCEPT !.src = @ + r.bytes_completed, !.dst = @ + r.bytes_completed,
              !.size = @ - r.bytes_completed, !.dst_app = r.dst_app, !.dst_ref = r.dst_ref]
\* Mutant: the destination's are not.
ContinueWithoutDestinationTags(j, d, r) ==
    [d EXCEPT !.src = @ + r.bytes_completed, !.dst = @ + r.bytes_completed,
              !.size = @ - r.bytes_completed, !.src_app = r.src_app, !.src_ref = r.src_ref]
update_for_continuation(j, d, r) ==
    LET b == r.bytes_completed
        moved == [d EXCEPT !.src = @ + b, !.size = @ - b]
    IN  CASE j.op = "check" -> [moved EXCEPT !.src_app = r.src_app, !.src_ref = r.src_ref]
          [] j.op = "insert" -> [moved EXCEPT !.dst = @ + b, !.dst_app = r.dst_app,
                                              !.dst_ref = r.dst_ref]
          [] j.op = "strip" -> [moved EXCEPT !.dst = @ + b, !.src_app = r.src_app,
                                             !.src_ref = r.src_ref]
          [] j.op = "update" -> [moved EXCEPT !.dst = @ + b,
                                              !.src_app = r.src_app, !.src_ref = r.src_ref,
                                              !.dst_app = r.dst_app, !.dst_ref = r.dst_ref]

accumulate_records(new, prev) ==
    [new EXCEPT !.bytes_completed = @ + prev.bytes_completed]

\* The result of an insert job is not written.
write_result(j, r, old) ==
    [status |-> r.status, offset |-> r.bytes_completed,
     result |-> IF j.op = "insert" THEN old.result ELSE r.result]

Init ==
    /\ job \in Jobs
    /\ path \in {"software", "hardware", "automatic"}
    /\ dsc = MakeTask(job)
    /\ out = [i \in Offsets |-> Blank]
    /\ rec = [status |-> Processing, result |-> 0, bytes_completed |-> 0,
              src_app |-> 0, src_ref |-> 0, dst_app |-> 0, dst_ref |-> 0]
    /\ ret = [status |-> Processing, result |-> 0, offset |-> 0]
    /\ pc = "submit"

Becomes(done) == out' = done.out /\ rec' = done.rec

\* The software path, and the automatic path when no queue takes the job.
SwSubmit ==
    /\ pc = "submit" /\ path \in {"software", "automatic"}
    /\ Becomes(Kernel(job, dsc, out, rec))
    /\ pc' = "submitted"
    /\ UNCHANGED <<job, path, dsc, ret>>

HwSubmit ==
    /\ pc = "submit" /\ path \in {"hardware", "automatic"}
    /\ pc' = "hw"
    /\ UNCHANGED <<job, path, dsc, out, rec, ret>>

HwComplete ==
    /\ pc = "hw"
    /\ Becomes(HwDone(job, dsc, out, rec))
    /\ pc' = "submitted"
    /\ UNCHANGED <<job, path, dsc, ret>>

HwFault ==
    /\ pc = "hw"
    /\ \E n \in 0 .. job.blocks - 1, status \in {PageFault, WriteFault} :
          /\ n <= Good(job, dsc)
          /\ Becomes(HwFaulted(job, dsc, out, rec, n, status))
    /\ pc' = "submitted"
    /\ UNCHANGED <<job, path, dsc, ret>>

WaitJob ==
    /\ pc = "submitted"
    /\ IF path = "automatic" /\ IsPageFault(rec.status)
       THEN /\ dsc' = update_for_continuation(job, dsc, rec)
            /\ LET done == Kernel(job, dsc', out, rec)
               IN  out' = done.out /\ rec' = accumulate_records(done.rec, rec)
       ELSE UNCHANGED <<dsc, out, rec>>
    /\ ret' = write_result(job, rec', ret)
    /\ pc' = "done"
    /\ UNCHANGED <<job, path>>

Next == SwSubmit \/ HwSubmit \/ HwComplete \/ HwFault \/ WaitJob

Spec == Init /\ [][Next]_vars

-----------------------------------------------------------------------------
\* Tags stay within their width and the descriptor within the job.
TypeOK ==
    /\ dsc.size \in 0 .. job.blocks * SourceStep(job.op)
    /\ {rec.src_app, rec.dst_app} \subseteq 0 .. AppTags - 1
    /\ {rec.src_ref, rec.dst_ref} \subseteq 0 .. RefTags - 1
    /\ rec.status \in {Processing, Success, PageFault, DifError, WriteFault}
    /\ rec.result \in 0 .. AllBitsSet
    /\ pc \in {"submit", "hw", "submitted", "done"}

Succeeded == pc = "done" /\ ret.status = Success

\* The source as a job by itself sees it: what is wrong with each block when
\* tags count from the seeds of the job.
BadBlocks == {k \in 0 .. job.blocks - 1 : Errors(job, MakeTask(job), k) # 0}

\* The first damaged block of the whole job is found, with its kind of damage
\* and its place, however a fault split the job: the tags of the second part go
\* on where the first ended, also where they wrap.  Only the hardware path may
\* leave a page fault to the caller.
FirstErrorFound ==
    /\ pc = "done" /\ job.op # "insert"
    /\ path = "hardware" => ret.status \notin {PageFault, WriteFault}
    =>
        /\ ret.status = Success <=> BadBlocks = {}
        /\ BadBlocks # {} => /\ ret.result = Errors(job, MakeTask(job), Min(BadBlocks))
                             /\ ret.offset = Min(BadBlocks) * Step

\* A job that reads a buffer the way another has written it.
Reader == [job EXCEPT !.op = "check", !.data = out, !.src = job.dst]

\* Data blocks are copied and the fields update writes pass a check with the
\* destination's seeds, but for fields update is told to pass through: those are
\* the source's.
UpdateVerifies ==
    Succeeded /\ job.op = "update" =>
        /\ \A k \in 0 .. job.blocks - 1 : Block(out, k * Step) = Block(job.data, k * Step)
        /\ ~(job.pass_guard \/ job.pass_app \/ job.pass_ref) =>
              dml_legacy_dif_check(Reader, MakeTask(Reader)) = <<0, 0>>
        /\ \A k \in 0 .. job.blocks - 1 :
              LET old == job.data[k * Step + BlockSize]
                  new == out[k * Step + BlockSize]
              IN  /\ job.pass_guard => new.guard = old.guard
                  /\ job.pass_app => new.app = old.app
                  /\ job.pass_ref => new.ref = old.ref

\* The job ran in one piece.
Whole == dsc.src = 0

\* What insert has written passes a check with the same seeds, and stripping it
\* gives back the source.
InsertThenStrip ==
    Succeeded /\ job.op = "insert" /\ Whole =>
        /\ dml_legacy_dif_check(Reader, MakeTask(Reader)) = <<0, 0>>
        /\ LET stripped == dif_strip([Reader EXCEPT !.op = "strip"], MakeTask(Reader), out, rec).out
           IN  \A i \in 0 .. job.blocks * BlockSize - 1 : stripped[i] = job.data[i]

\* As the documentation has it: on the automatic path a page fault is resolved
\* by completing the workload on a CPU, so insert and strip leave what they
\* leave without a fault.
FaultsLeaveNoTrace ==
    Succeeded /\ path = "automatic" /\ job.op \in {"insert", "strip"} =>
        out = Kernel(job, MakeTask(job), [i \in Offsets |-> Blank], rec).out

\* As the documentation has it: an application tag mismatch is reported only if
\* the source mask is not all ones.
MaskedTagIgnored ==
    pc = "done" /\ job.op = "check" /\ job.src.mask = AppTags - 1 /\ ret.status = DifError =>
        (ret.result \div AppTagMismatch) % 2 = 0
=============================================================================
