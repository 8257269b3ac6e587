-------------------------------- MODULE Batch --------------------------------
(***************************************************************************)
(* A batch from the functions that fill it in to the statuses that are read *)
(* back: the job API (members set by index, any number of times) and the    *)
(* high-level sequence (members added at the end), the software kernel,     *)
(* which goes through the members in order and stops at the first failure,  *)
(* and the device, which runs members in any order that the fences allow.   *)
(*                                                                         *)
(* Memory is a few cells; a member fills, moves or compares cells or does   *)
(* nothing, which is enough for members to depend on each other and to end  *)
(* with a false predicate.  A member of size 0 stands for what validation   *)
(* rejects.                                                                 *)
(***************************************************************************)
EXTENDS Integers, FiniteSets

CONSTANTS
    Capacity,   \* members the buffer has room for
    Members,    \* the members a caller may ask for
    Cells,      \* memory cells
    MaxSets,    \* bound on the calls that fill in members
    MaxSubmits, \* bound on the submissions of the batch
    MaxFaults   \* bound on the submissions in which a member may fault

ASSUME CapacityAssumption == Capacity \in Nat

\* A member says what its operation needs: the cells, the value, the expectation.
ASSUME MembersAssumption == \A m \in Members :
    /\ m.fence \in BOOLEAN
    /\ m.op = "fill" => m.dst \in Cells /\ m.value \in Nat
    /\ m.op = "mem_move" => m.src \in Cells /\ m.dst \in Cells
    /\ m.op = "compare" => m.src \in Cells /\ m.dst \in Cells /\ m.check \in BOOLEAN

\* DML_MIN_BATCH_SIZE, and the same number in validate(batch)
MinBatchSize == 4

\* execution_status
Processing == 0
Success == 1
FalsePredicate == 2
PageFault == 3
BatchError == 5
BatchPageFault == 6

Slots == 0 .. Capacity - 1

\* The content of a slot nobody has set.
Unset == [op |-> "unset"]

VARIABLES
    api,      \* "job" (by index) or "sequence" (add)
    path,     \* the execution path
    dsc,      \* the descriptors, by slot
    rec,      \* the completion records, by slot
    length,   \* members counted so far (sequence::current_length_)
    sets,     \* calls that filled in members
    submits,  \* submissions
    mem,      \* the cells
    index,    \* the software kernel's position
    batch,    \* the completion record of the batch itself
    status,   \* what the last call for the batch as a whole returned
    old,      \* history: memory and records when the batch was submitted
    runs,     \* history: how often each slot was executed in this submission
    fresh,    \* history: slots executed since they were last set
    pc

vars == <<api, path, dsc, rec, length, sets, submits, mem, index, batch, status, old, runs, fresh, pc>>

program == <<api, dsc, length, sets>>

\* The slots executed in this submission.
ran == {i \in Slots : runs[i] > 0}

BlankRecord == [status |-> Processing, result |-> 0]
BlankBatch == [status |-> Processing, descriptors_completed |-> 0]

-----------------------------------------------------------------------------
(* Filling in members. *)

\* core::validate: a No-op is always accepted.
Validate(m) == m.op # "nop" => m.size # 0

\* Mutant: the record of an earlier member stays.
AssignKeepingRecord(i, m) ==
    /\ dsc' = [dsc EXCEPT ![i] = m]
    /\ fresh' = fresh \ {i}
    /\ UNCHANGED rec
\* task_view::operator=: descriptor and (blank) record of the new task.
Assign(i, m) ==
    /\ dsc' = [dsc EXCEPT ![i] = m]
    /\ rec' = [rec EXCEPT ![i] = BlankRecord]
    /\ fresh' = fresh \ {i}

\* dml_batch_set_*_by_index: the task is validated before it is stored.  An
\* index past the batch, too, leaves the batch as it is.
set_by_index(i, m) ==
    IF i \in Slots /\ Validate(m) THEN Assign(i, m) ELSE UNCHANGED <<dsc, rec, fresh>>

SetByIndex ==
    /\ api = "job" /\ pc = "idle" /\ sets < MaxSets
    /\ \E i \in 0 .. Capacity, m \in Members : set_by_index(i, m)
    /\ sets' = sets + 1
    /\ UNCHANGED <<api, path, length, submits, mem, index, batch, status, old, runs, pc>>

\* Mutant: the member is counted before it is validated.
CountThenValidate(m) ==
    IF length = Capacity THEN UNCHANGED <<dsc, rec, length, fresh>>
    ELSE Assign(length, m) /\ length' = length + 1
\* sequence::add: the slot is overwritten, then validated, then counted.
add(m) ==
    IF length = Capacity THEN UNCHANGED <<dsc, rec, length, fresh>>
    ELSE Assign(length, m) /\ length' = IF Validate(m) THEN length + 1 ELSE length

\* The operation objects of the high-level API have no option for a fence; that
\* of nop always has one.
Add ==
    /\ api = "sequence" /\ pc = "idle" /\ sets < MaxSets
    /\ \E m \in Members : m.fence = (m.op = "nop") /\ add(m)
    /\ sets' = sets + 1
    /\ UNCHANGED <<api, path, submits, mem, index, batch, status, old, runs, pc>>

\* Members of the batch when it is submitted: the job API counts the slots of
\* the buffer (destination_length / get_task_size()).
Count == IF api = "job" THEN Capacity ELSE length

-----------------------------------------------------------------------------
(* Executing a member. *)

Predicate(m, result) == IF m.check /\ m.expected # result THEN FalsePredicate ELSE Success

\* The memory after a member.
Effect(m, c) ==
    CASE m.op = "fill" -> [c EXCEPT ![m.dst] = m.value]
      [] m.op = "mem_move" -> [c EXCEPT ![m.dst] = c[m.src]]
      [] OTHER -> c

\* The record after a member.
Record(m, c) ==
    IF m.op # "compare" THEN [BlankRecord EXCEPT !.status = Success]
    ELSE LET result == IF c[m.src] = c[m.dst] THEN 0 ELSE 1
         IN  [status |-> Predicate(m, result), result |-> result]

\* Mutant: the members are taken from the end of the list.
RunFromEnd(i) ==
    LET m == dsc[Count - 1 - i]
    IN  /\ mem' = Effect(m, mem)
        /\ rec' = [rec EXCEPT ![i] = Record(m, mem)]
        /\ runs' = [runs EXCEPT ![i] = @ + 1]
        /\ fresh' = fresh \cup {i}
\* A kernel, or the device, runs the member of slot i.
Run(i) ==
    /\ mem' = Effect(dsc[i], mem)
    /\ rec' = [rec EXCEPT ![i] = Record(dsc[i], mem)]
    /\ runs' = [runs EXCEPT ![i] = @ + 1]
    /\ fresh' = fresh \cup {i}

-----------------------------------------------------------------------------
(* Submission. *)

\* A new task for the batch is made and validated.  The caller of the job API
\* has set every slot, and its path is that of dml_init_job.
Submit(p) ==
    /\ pc = "idle" /\ submits < MaxSubmits
    /\ api = "job" => p = path /\ \A i \in Slots : dsc[i] # Unset
    /\ submits' = submits + 1
    /\ batch' = BlankBatch
    /\ path' = p
    /\ old' = [mem |-> mem, rec |-> rec]
    /\ runs' = [i \in Slots |-> 0]
    /\ index' = 0
    /\ IF Count < MinBatchSize
       THEN /\ status' = "batch_size_error"
            /\ pc' = "idle"
       ELSE /\ status' = "being_processed"
            /\ pc' = IF p = "software" THEN "software" ELSE "enqueue"
    /\ UNCHANGED <<program, rec, mem, fresh>>

\* An ENQCMD took the batch.
HwAccept ==
    /\ pc = "enqueue"
    /\ pc' = "device"
    /\ UNCHANGED <<program, path, rec, submits, mem, index, batch, status, old, runs, fresh>>

\* Mutant: the automatic path falls back even when the device has the batch.
HwRefuseLate ==
    /\ pc = "enqueue" \/ (pc = "device" /\ path = "automatic")
    /\ IF path = "automatic"
       THEN pc' = "software" /\ UNCHANGED status
       ELSE pc' = "idle" /\ status' = "queues_not_available"
    /\ UNCHANGED <<program, path, rec, submits, mem, index, batch, old, runs, fresh>>
\* No queue took it: the automatic path falls back to software.
HwRefuse ==
    /\ pc = "enqueue"
    /\ IF path = "automatic"
       THEN pc' = "software" /\ UNCHANGED status
       ELSE pc' = "idle" /\ status' = "queues_not_available"
    /\ UNCHANGED <<program, path, rec, submits, mem, index, batch, old, runs, fresh>>

-----------------------------------------------------------------------------
(* The software kernel. *)

\* A member whose status is not success ends the loop.
Stops(i) == rec'[i].status # Success

\* One turn of the loop.
SwMember ==
    /\ pc = "software" /\ index < Count
    /\ Run(index)
    /\ IF Stops(index)
       THEN pc' = "stopped" /\ UNCHANGED index
       ELSE pc' = pc /\ index' = index + 1
    /\ UNCHANGED <<program, path, submits, batch, status, old>>

\* Mutant: a batch that ran at all is a success.
SwBatchRecordOptimist ==
    [status |-> Success, descriptors_completed |-> index]
\* The record of the batch.
SwBatchRecord ==
    [status |-> IF index = Count THEN Success ELSE BatchError,
     descriptors_completed |-> index]

SwFinish ==
    /\ pc = "stopped" \/ (pc = "software" /\ index = Count)
    /\ batch' = SwBatchRecord
    /\ pc' = "submitted"
    /\ index' = 0
    /\ UNCHANGED <<program, path, rec, submits, mem, status, old, runs, fresh>>

-----------------------------------------------------------------------------
(* The device, external. *)

\* The flags of a descriptor: what the job API passes on as it is, and the option
\* of nop_operation.  m.fence is what the caller wants.
DML_FLAG_FENCE == 4
Flags(m) == IF ~m.fence THEN 0 ELSE IF api = "job" THEN DML_FLAG_FENCE ELSE 1
\* flag::fence
FenceBit(m) == Flags(m) % 2 = 1

\* A fence waits for the members before it, and ends the batch if one of them
\* has failed.
BeforeFence(i) == {k \in 0 .. i - 1 : \E f \in k + 1 .. i : FenceBit(dsc[f])}
Startable(i) ==
    /\ i \in 0 .. Count - 1 /\ i \notin ran
    /\ \A k \in BeforeFence(i) : k \in ran /\ rec[k].status = Success

HwMember ==
    /\ pc = "device"
    /\ \E i \in Slots : Startable(i) /\ Run(i)
    /\ UNCHANGED <<program, path, submits, index, batch, status, old, pc>>

\* A page fault stops a member that touches memory, one at most.
HwMemberFault ==
    /\ pc = "device" /\ submits <= MaxFaults /\ \A i \in ran : rec[i].status # PageFault
    /\ \E i \in Slots :
          /\ Startable(i) /\ dsc[i].op # "nop"
          /\ rec' = [rec EXCEPT ![i] = [BlankRecord EXCEPT !.status = PageFault]]
          /\ runs' = [runs EXCEPT ![i] = @ + 1]
          /\ fresh' = fresh \cup {i}
    /\ UNCHANGED <<program, path, submits, mem, index, batch, status, old, pc>>

HwFinish ==
    /\ pc = "device"
    /\ \A i \in Slots : ~Startable(i)
    /\ batch' = [status |-> IF \A i \in 0 .. Count - 1 : i \in ran /\ rec[i].status = Success
                            THEN Success ELSE BatchError,
                 descriptors_completed |-> Cardinality(ran)]
    /\ pc' = "submitted"
    /\ UNCHANGED <<program, path, rec, submits, mem, index, status, old, runs, fresh>>

\* A page fault on the descriptor list: the members read so far have run.
HwListFault ==
    /\ pc = "device"
    /\ \E n \in 0 .. Count - 1 : ran = 0 .. n - 1
    /\ batch' = [status |-> BatchPageFault, descriptors_completed |-> Cardinality(ran)]
    /\ pc' = "submitted"
    /\ UNCHANGED <<program, path, rec, submits, mem, index, status, old, runs, fresh>>

-----------------------------------------------------------------------------
(* Reading the outcome. *)

\* to_own_status(execution_status): a record that is still blank is an
\* internal error.
to_own_status(s) ==
    CASE s = Success -> "ok"
      [] s = FalsePredicate -> "false_predicate"
      [] s \in {PageFault, BatchPageFault} -> "page_fault"
      [] s = BatchError -> "batch_error"
      [] OTHER -> "internal_error"

\* wait: a batch is finished by a nonzero status; the automatic path continues
\* page_fault_during_processing only, which is not a status of a batch.
WaitBatch ==
    /\ pc = "submitted"
    /\ status' = to_own_status(batch.status)
    /\ pc' = "done"
    /\ UNCHANGED <<program, path, rec, submits, mem, index, batch, old, runs, fresh>>

\* After a finished batch the caller may change members and submit it again.
Reuse ==
    /\ pc = "done"
    /\ pc' = "idle"
    /\ UNCHANGED <<program, path, rec, submits, mem, index, batch, status, old, runs, fresh>>

get_status(i) == to_own_status(rec[i].status)

\* The numbers of dml_status_t.
Code(s) == CASE s = "ok" -> 0
             [] s = "false_predicate" -> 1
             [] s = "batch_error" -> 9
             [] s = "page_fault" -> 25
             [] s = "internal_error" -> 3
\* dml_batch_get_result stores what get_status returns.
get_result(i) == Code(get_status(i))

Init ==
    /\ api \in {"job", "sequence"}
    /\ path \in {"software", "hardware", "automatic"}
    /\ api = "sequence" => path = "software"
    /\ dsc = [i \in Slots |-> Unset]
    /\ rec = [i \in Slots |-> BlankRecord]
    /\ length = 0 /\ sets = 0 /\ submits = 0 /\ index = 0
    /\ mem = [c \in Cells |-> 0]
    /\ batch = BlankBatch
    /\ status = "none"
    /\ old = [mem |-> mem, rec |-> rec]
    /\ runs = [i \in Slots |-> 0]
    /\ fresh = {}
    /\ pc = "idle"

Next ==
    \/ SetByIndex \/ Add
    \/ \E p \in {"software", "hardware", "automatic"} : Submit(p)
    \/ HwAccept \/ HwRefuse
    \/ SwMember \/ SwFinish
    \/ HwMember \/ HwMemberFault \/ HwFinish \/ HwListFault
    \/ WaitBatch \/ Reuse

Spec == Init /\ [][Next]_vars

-----------------------------------------------------------------------------
\* The slots, the records and the positions stay within the buffer, and the record
\* of the batch never counts more members than there are.
TypeOK ==
    /\ api \in {"job", "sequence"} /\ path \in {"software", "hardware", "automatic"}
    /\ dsc \in [Slots -> Members \cup {Unset}]
    /\ rec \in [Slots -> [status : Processing .. PageFault, result : 0 .. 1]]
    /\ length \in 0 .. Capacity /\ index \in 0 .. Count
    /\ batch \in [status : {Processing, Success, BatchError, BatchPageFault},
                  descriptors_completed : 0 .. Count]
    /\ runs \in [Slots -> Nat] /\ fresh \subseteq Slots
    /\ pc \in {"idle", "enqueue", "device", "software", "stopped", "submitted", "done"}

\* Every member that counts has passed validation, whatever failed calls there
\* were in between: a rejected task is never left where the batch would run it.
OnlyValidMembers ==
    \A i \in Slots :
        (IF api = "job" THEN dsc[i] # Unset ELSE i < length) => Validate(dsc[i])

\* A member is executed at most once in a submission, also when the automatic
\* path falls back to software.
MemberRunsOnce == \A i \in Slots : runs[i] <= 1

\* The status of a batch is that of its members: success says that all of them
\* have run with success in this submission, a batch error that one of those
\* that have run has not.
StatusIsHonest ==
    pc = "done" =>
        /\ status = "ok" => \A i \in 0 .. Count - 1 : runs[i] = 1 /\ get_status(i) = "ok"
        /\ status = "batch_error" => \E i \in ran : get_status(i) # "ok"
        /\ status \notin {"being_processed", "internal_error"}

\* A slot reads as successful only if what is in it now has been executed,
\* however often it was set and the batch submitted before.
OkMeansRunSinceSet ==
    \A i \in Slots : get_status(i) = "ok" => i \in fresh

\* What running the members one after the other up to the first that does not
\* succeed makes of memory and records.
InOrder[n \in 0 .. Capacity] ==
    IF n = 0 THEN [mem |-> old.mem, rec |-> old.rec, stopped |-> FALSE]
    ELSE LET before == InOrder[n - 1]
             r == Record(dsc[n - 1], before.mem)
         IN  IF before.stopped THEN before
             ELSE [mem |-> Effect(dsc[n - 1], before.mem),
                   rec |-> [before.rec EXCEPT ![n - 1] = r],
                   stopped |-> r.status # Success]

\* The cells a member reads and writes.
Writes(m) == IF m.op \in {"fill", "mem_move"} THEN {m.dst} ELSE {}
Reads(m) == CASE m.op = "mem_move" -> {m.src}
              [] m.op = "compare" -> {m.src, m.dst}
              [] OTHER -> {}

\* Member k must not start before member i is over: it touches what i writes or
\* writes what i reads, or i may end the batch.
Depends(k, i) ==
    LET m == dsc[i]
        n == dsc[k]
    IN  \/ Writes(m) \cap (Reads(n) \cup Writes(n)) # {}
        \/ Reads(m) \cap Writes(n) # {}
        \/ m.op = "compare" /\ m.check

\* If the fences separate all members that depend on each other, a batch that no
\* page fault hit leaves memory and records as running its members in order does.
SequentialWith(fences) ==
    /\ pc = "done" /\ status # "page_fault"
    /\ \A i \in ran : rec[i].status # PageFault
    /\ path = "software" \/ \A k \in 0 .. Count - 1 : \A i \in 0 .. k - 1 :
                                Depends(k, i) => \E f \in fences : i < f /\ f <= k
    => mem = InOrder[Count].mem /\ rec = InOrder[Count].rec

Asked == {i \in Slots : dsc[i] # Unset /\ dsc[i].fence}

\* The paths agree on dependent members and on where a false predicate stops
\* them, wherever the fences of a sequence stand; a batch of the job API, whose
\* fences get lost (see FenceHonoured), at least if no two members depend on
\* each other.
FencedIsSequential == SequentialWith(IF api = "sequence" THEN Asked ELSE {})

\* As the documentation has it: a member with DML_FLAG_FENCE waits for those
\* before it.
FenceHonoured == SequentialWith(Asked)

\* As the documentation has it: dml_batch_get_result gives the result of a
\* member.
ResultOfMember ==
    pc = "done" => \A i \in ran : dsc[i].op = "compare" /\ rec[i].status = Success
                                    => get_result(i) = rec[i].result
=============================================================================
