# A TLA+ model of the Data Mover Library (DML)

DML runs memory operations (move, fill, compare, delta records, CRC, DIF, batch)
on Intel Data Streaming Accelerators, or on the CPU. This directory holds TLA+
modules that model the library's own logic, TLC configurations that check them on
small instances, and proofs that TLAPS checks for every instance.

Paths below are relative to `src/`. `core/` stands for `sources/core/src/`,
`ml/` for `sources/middle_layer/src/`, `c_api/` for `sources/c_api/`.

## 1. Inventory

| Component | Source | State it keeps | Operations |
|---|---|---|---|
| Hardware path | `core/hardware_device.cpp`, `core/hw_dispatcher/hw_device.cpp`, `hw_queue.cpp`, `numa.cpp` | device table; thread-local cursors `current_device_idx`, `last_wq_idx`; an atomic portal offset per queue | `hardware_device::submit`, `hw_device::enqueue_descriptor`, `hw_queue::enqueue_descriptor` (ENQCMD) |
| Discovery | `core/hw_dispatcher/hw_dispatcher.cpp`, `hw_device.cpp`, `hw_queue.cpp`, `hw_configuration_driver.c` | singleton dispatcher, fixed arrays of 8 devices x 8 queues, mapped portals | `initialize_hw`, `initialize_new_device`, `initialize_new_queue` |
| Wait | `core/sw_dispatcher/wait/wait.cpp`, `ml/core_interconnect.cpp` | status byte of the completion record | `wait_busy_poll`, `wait_umwait`, `finished` |
| Software path | `core/software_device.cpp`, `core/*.cpp`, `core/sw_dispatcher/ref/`, `cache_flush/` | none | one kernel per operation, synchronous |
| Kernel dispatch, AVX-512 kernels | `core/sw_dispatcher/optimization_dispatcher.cpp`, `dml_cpuid.c`, `avx512/` | function pointers, chosen once | vectorised move, fill, compare, compare pattern, CRC |
| Automatic path | `ml/core_interconnect.cpp`, `partial_completion.hpp`, `accumulate_records.hpp` | the descriptor, rewritten in place; the record | fallback at submission; continuation in `wait` and `finished` |
| DIF | `core/dif_impl/dml_dif.c`, `core/dif_*.cpp` | tags and guard per block | check, insert, strip, update |
| Batch | `core/batch.cpp`, `c_api/dml_batch.cpp`, `include/dml/hl/sequence.hpp` | list of descriptors and records | `dml_batch_set_*_by_index`, batch kernel, `dml_batch_get_*` |
| Validation | `core/validation.cpp` | none | one predicate per operation |
| Job API | `c_api/dml.cpp`, `c_api/include/*` | `dml_job_t` and its hidden task | init, submit, check, wait, execute, finalize |
| High-level API | `include/dml/hl/` | handler with a task; sequence with its length | submit, execute, `handler::get`, `sequence::add` |
| Views, make_descriptor | `sources/core/include/core/descriptor_views.hpp`, `completion_record_views.hpp`, `ml/make_descriptor.cpp` | 64 and 32 bytes of untyped memory | one view per operation |

How they interact. A job (or a high-level operation) becomes a task: a 64-byte
descriptor and a 32-byte completion record. The task is validated and goes to a
path. The software path runs the kernel inside `submit`. The hardware path walks
the devices of a NUMA node and their work queues until an ENQCMD is accepted; the
device later writes the record. The automatic path tries the hardware and falls
back to software when no queue takes the descriptor, and again in `wait` or
`finished` when the record says that a page fault stopped the device. At last
`write_result` copies record fields into the job.

What is hard here:

* the walks of several threads over shared work queues, with cursors that outlive
  the call and are shared by all devices of a thread;
* the completion record as the only synchronisation between device and waiter;
* page faults: the device has done a part of the work, `wait` rewrites the
  descriptor, a second engine does the rest and two records are merged. A test
  needs an accelerator and a page that faults at the wanted byte;
* overlapping source and destination in Memory Move, in both directions;
* batches that stop in the middle, fences, and results that are read by index;
* descriptors that hold the address of a record in an object that may be moved or
  destroyed while the accelerator works;
* kernels with dozens of cases by alignment and size, of which a test meets few;
* discovery, whose error paths depend on what the platform offers.

What makes each component correct: an accepted descriptor is executed exactly
once and `queue_busy` is told only when no queue of the node took it; no ENQCMD
leaves the mapped portals; every wait ends; the result of a job does not depend on
its path nor on where a fault cut it; a batch member's result is its own; a caller
is told the one outcome of the operation it asked for, through either API; a
vectorised kernel does what the reference kernel does and touches nothing else; the
device table is complete, and what was opened or mapped is given back.

## 2. Plan

The order of work, the most important behaviour first; all of it is done.

1. `HwSubmit` with the abstract `Accelerator`, `HwWait`.
2. `MemMove`; `AutoPath` for the other data operations; `Dif`; `Batch`.
3. `HwInit`: discovery, whose result is what `ConfigAssumption` of `HwSubmit` assumes.
4. `Kernels`: dispatch and the vectorised kernels against the reference ones.
5. `Api` over `Views`, `Validation`, `Tasks`, `HighLevel`, `Caller` and `Records`: both
   APIs down to the bytes of a descriptor, against the abstract `Operation`.
6. Proofs of every component's safety properties, and that `HwSubmit` implements
   `Accelerator` and `Api` implements `Operation`.

What stays with the model checker is liveness, which rests on fairness, and the value
of a CRC (`CrcAgrees`), which needs the algebra of polynomials over GF(2).

How the modules build on each other:

```
Accelerator <--implements-- HwSubmit <--implements-- HwWait
HwInit      (establishes what HwSubmit assumes)
Status <- MemMove, AutoPath, Dif; Batch     (one operation or family each, on every path)
KernelCall <- Avx512Move, Avx512Scan, Avx512Crc <- Kernels
Views <- Validation <- Tasks <- HighLevel <- Caller <- Records <- Api
Operation <--implements-- Api
```

## 3. Modules

### Accelerator, HwSubmit, MCHwSubmit

`Accelerator` is what the hardware path promises: a submission begins, is answered
once (`accepted`, `queue_busy`, or `failure` without hardware), and an accepted
descriptor is completed by one write of its record.

`HwSubmit` is the code. Each thread is in `idle`, in the device loop (`scan`) or
in the queue loops (`enqueue`).

| Action | Code |
|---|---|
| `Submit` | entry of `hardware_device::submit`: node, `is_hw_support` |
| `SkipDevice` | device of another node: advance the cursor, count |
| `EnterDevice` | `enqueue`: clear the record, initialise or read `last_wq_idx`, first queue |
| `Enqueue` | ENQCMD accepted: cursor updated, `success` |
| `Refused` | ENQCMD retry: next queue, or device counted as tried |
| `WildEnqueue` | ENQCMD through a `hw_queue` that was never initialised |
| `QueueBusy` | all devices tried |
| `Complete` | external: the device writes the record and frees the entry |

The work queues are in shared mode, so other processes may fill them: `Refused` is
possible at any time. `refused` is a history variable. `DeviceCount`, `QueueCount`
and `NumaId` are what discovery produced; `ConfigAssumption` says only that there
is a device and that each has 1 to 8 queues.

### HwWait, MCHwWait, HwSubmitProofs

Adds the waiting threads: check of the status byte, UMONITOR, UMWAIT, wake-up by
the store or by the deadline are separate steps. One UMONITOR step also enters
UMWAIT: a store in between triggers the monitor and UMWAIT falls through.
`HwSubmitProofs` has the proofs of both modules.

### Status, MemMove, MCMemMove

One byte per step, source and destination anywhere in one memory. The device
(external) copies in a safe direction of its choice and reports it in `result`; it
may stop before any byte with a read or write page fault. `Continuation` is
`update_mem_move_for_continuation`, `KernelPhase` the three-way test of
`dml_ref_mem_move`, `SwCopy` its two loops, `SwDone` the kernel's status and
`accumulate_records_mem_move`. The `record` that the code clears before the update
is a copy, so nothing is cleared; the models keep that. `Status` has the statuses that
`MemMove`, `AutoPath` and `Dif` share. The proofs are in `AutoPathProofs`.

### AutoPath, MCAutoPath, AutoPathProofs

Eight operations: `fill`, `dualcast`, `compare`, `compare_pattern`,
`create_delta`, `apply_delta`, `crc`, `copy_crc`. Validation forbids overlap where
it would matter, so each buffer is a function and an address an offset. A kernel is
an operator from a job, a descriptor and the buffers to the buffers and the record.
`WaitJob` is the whole of `wait` (or of `check` on a written record): test for a
fault, `update_for_continuation`, kernel on the rest, `accumulate_records`,
`write_result`. A CRC value is the sequence of what it has absorbed, with the
inversion-and-reflection step as a mark that cancels itself; so a wrong seed or a
missing reflection shows. Delta sizes are counted in notes of 10 bytes, and `Notes` is
the loop of the kernel over the words, as a function of how many it has seen.
`DeltaComplete` relates the status of a checked job to the result for the three
documented expectations (equal, not equal, overflow).

Assumed of the device: it does to a prefix what the kernel does to the whole;
`bytes_completed` counts that prefix; for pattern and delta operations the prefix
is a whole number of 8-byte words and for `apply_delta` of notes; comparisons and
overflow end the operation, they do not fault after it.

Assumed of the caller (`DeltaAssumption`): the notes that `apply_delta` is given lie
inside the destination, as those of a `create_delta` of the same size do; the kernel
writes at the offset of a note without looking at the size (`apply_delta.c:28`).

### Batch, MCBatch, BatchProofs

A batch from the calls that fill it in to the statuses read back. Members fill, move
or compare cells of a small memory, so they depend on each other and may end with a
false predicate; a member of size 0 is what validation rejects.

| Action | Code |
|---|---|
| `SetByIndex` | `dml_batch_set_*_by_index`: validate, then store descriptor and blank record |
| `Add` | `sequence::add`: store, validate, count |
| `Submit` | a task for the batch is made and validated (at least 4 members) |
| `HwAccept`, `HwRefuse` | ENQCMD; fallback of the automatic path |
| `SwMember`, `SwFinish` | one turn of the loop of `kernels::batch`; its record |
| `HwMember`, `HwMemberFault`, `HwFinish`, `HwListFault` | external: members run in any order the fences allow, may fault, and so may the list |
| `WaitBatch` | `wait` and `write_result` |
| `Reuse` | the caller goes on with the same buffer |

`old`, `runs` and `fresh` are history variables. A caller of the job API sets every
slot before it submits; an unset slot is an uninitialised descriptor. A member asks
for a fence with `DML_FLAG_FENCE` (job API) or the flag of the operation object
(sequence); `Flags` and `FenceBit` say which bit of the descriptor that becomes, and
the device looks at the descriptor. `MaxFaults` bounds the page faults per
submission. `MembersAssumption` says that a member has the cells, the value and the
expectation that its operation needs.

### Dif, MCDif, DifProofs

A buffer is a function from offsets to cells: a byte of data, or a whole integrity
field (8 bytes in the code) with guard, application tag and reference tag. A guard is
what the CRC was computed from; tags have `AppTags` and `RefTags` values and wrap, and
the mask of a tag keeps its bits one by one (`And` on `Bits`).
Kernels are operators as in `AutoPath`, and `WaitJob` is again the whole of `wait`.
The byte order of tags in memory is a bijection that check and insert share, and is
left out. Before strip and update copy, software checks every block, while a device
goes block by block; so after an error the destination may differ between paths, and
no property speaks about it. `DETECT_ALL` without `ENABLE_ERROR` does not skip a
block of all ones: the code has that condition only together with the error, and the
model follows it.

Assumed of the device: it stops after whole blocks and puts the tags of the next
block into the record, unmasked and wrapped. Assumed of a job (`JobAssumption`, what
validation lets through): it has a block, its blocks with their fields fit the buffers,
its seeds are tags and its source holds data.

### HwInit, MCHwInit, HwInitProofs

The constructor and destructor of `hw_dispatcher`. The platform (`Environment`) is
chosen at the start: library absent, without one of its functions, or fit; context
or none; devices with the checks they fail; queues with the first check of
`initialize_new_queue` they fail, and their priority.

| Action | Code |
|---|---|
| `LoadDriver` | `initialize_accelerator_driver`, `own_load_configuration_functions` |
| `NewContext` | `driver_new_context` and the first device |
| `InitDevice` | `initialize_new_device` up to its queues |
| `InitQueue` | `initialize_new_queue`: checks, open, mmap, group; `push_heap` |
| `FinishDevice` | `sort_heap` by priority, next slot |
| `FinishInit` | no device: error; else the context is kept |
| `Destroy` | `~hw_dispatcher` and the destructors of the queue objects |

`overrun` and `bad_call` are the states after a write past an array and after a call
through an unresolved function. The heap moves every queue object through a temporary:
`Move` is the move of an object (what the new one and the old one hold afterwards), and
`Released` what destructors of moved-from objects unmap. `sort_heap` leaves any order of
rising priority.

### KernelCall, Avx512Move, Avx512Scan, Avx512Crc, Kernels, MCKernels, KernelProofs

One call of a kernel through the table that the static dispatcher filled. Memory
appears as what a step reads, stores and accesses with aligned instructions.

* `Avx512Move`: `copy_avx512`, one step per turn of a loop. A vector is a function
  from byte positions to source addresses, so shifts, permutations and masks are
  modelled by what they do to places.
* `Avx512Scan`: fill, compare and compare pattern with their masked ends, and the
  loops of cache flush and write back.
* `Avx512Crc`: folding and Barrett reduction on polynomials over GF(2), a polynomial
  being the set of its exponents; every entry by length, both bit orders, the fixed
  and the generated tables. At the end the reference kernel runs over the same bytes.

`Kernels` composes them. `Kilobyte` scales the thresholds of `copy_avx512` down, and
`SizeRange` is the number of values of a 32-bit size (2^32 in the code): the counter of
Compare wraps there, and CRC keeps its length in an `int` (`Signed`). `CallAssumption`
leaves out the calls for which the code does wrap; see Known deviations.

### Views, Validation, Tasks, HighLevel, Caller, Records, Operation, Api, MCApi, OwnershipProofs, ApiProofs

* `Views`: a descriptor or record is the set of the values written to it, each with
  the bytes it occupies; a value written over in part reads as torn.
* `Validation`: `core::validate`, every check in the order of the code; the size of the
  destination of DIF Insert is computed in 32 bits (`SizeRange`) and may wrap.
* `Tasks`: `make_*_descriptor`, range checks, flag rewriting and `make_task` of the
  job API. `HighLevel`: operation objects with the chain of their option methods, data
  views and the overloads of `submit` and `execute`. `Caller`: how an application asks
  for what it wants, and what each API can express at all (`JobWish`, `CallWish`).
* `Records`: which fields each kernel and the accelerator write, with which values (an
  operation may find anything in memory, so any first difference, any number of notes,
  any bad block; a checksum is a function of seed and bytes that splits as a CRC does),
  and the automatic path: `update_for_continuation` rewrites the descriptor in place, the
  kernel runs on what it then says, and `accumulate_records` merges the two records, with
  what is wrong in that (below) left as it is.
* `Api`: jobs keep their task in place, handlers own one on the heap, blocking calls
  have one on the stack. Records are written where the descriptor says. What it asks
  of its constants: places have different addresses other than null, objects and places
  are distinct, the allocator has a buffer for each handler and one more for the
  temporary of a submission, paths are the three of the library, the high-level API
  is called for operations that it has, and an application asks for what the API it uses
  can express (`WishAssumption`). `MarkAssumption` keeps the marks of the mapping apart
  from what they mark: `None` is no request and no answer, `Pending` is no outcome.

| Action | Code |
|---|---|
| `InitJob`, `SubmitJob`, `ResubmitJob`, `WaitJob`, `CheckJob`, `FinalizeJob` | the functions of `dml.cpp`; `ResubmitJob` is `dml_submit_job` on a job that is left as it is |
| `SubmitCall`, `Execute` | `dml::submit`, `dml::execute` |
| `Default`, `MoveConstruct`, `MoveAssign`, `Destroy`, `GetResult`, `IsFinished` | the members of `handler` |
| `Return` | the end of a wait: after a page fault on the automatic path `Continued` (descriptor and record), then `write_result` or `make_result` |
| `Device` | external: the accelerator completes a descriptor |

`Operation` is what both APIs promise: an object stands for at most one operation,
which has one outcome; answers are parts of that outcome. The mapping
(`INSTANCE Operation WITH ...`) takes the outcome from the record through the view of
the operation, and treats a page fault on the automatic path as not yet an outcome.
`Ends` says how an operation may end, executed in one piece or, on the automatic path, in
two; the second case admits what the merged record of the code really says (an offset
that is not that of the first difference, a delta called equal that is not empty, bytes
counted twice). What makes it more than the record's type: results, statuses and sizes
have to belong together, a checksum is that of the whole source, and a page fault is
shown on the hardware path only. The
requests it ranges over are `Wishes`: what applications want (`Wants`), and checksums
that go on from any seed a result may be (`Crcs`), since a job that asks for a seed and
is submitted again continues from its last result: the field "is used as a
seed for CRC calculation, therefore it can be used for continuation"
(`low_level_api.rst:682-684`).
The caller keeps the documented contract: objects are neither submitted again nor
destroyed while their operation runs (`high_level_api.rst:231`), and a job is waited
for only after a successful submission.

In every module, definitions whose comment starts with "Mutant:" or "Bug:" are not
part of the model: each is a plausible bug used to show that a property can fail.

## 4. Runs

| Run | Instance | Shows |
|---|---|---|
| `submit` | 2 threads, 2 jobs, devices of 2, 1 and 2 queues on nodes n0, n1, n0, queues of 1 entry | `BusyIsExhaustive`, `NumaBoundary`, `ExactlyOnce`, and the refinement `AcceleratorSpec` |
| `submit_portal` | as `submit` | expected violation of `PortalSafe` |
| `wait_liveness` | 2 threads, 2 jobs, 1 device of 2 queues, a node without device | `SubmitReturns`, `WaitReturns` |
| `mem_move` | memory of 6 distinct bytes, every request | `MoveCorrect`, `FaultHidden` |
| `auto_path` | buffers up to 6 bytes (words of 2 bytes), delta jobs of 4 and 9 words | `DestinationCorrect`, `CrcOfWholeSource`, `ComparisonResult`, `DeltaComplete`, `WaitIsIdempotent`: the result of every operation on every path with every fault |
| `auto_compare_offset` | compare jobs | expected violation of `CompareOffset` |
| `batch` | 4 slots, 5 members (dependent, a fence, one invalid), `MaxSets` = 5, `MaxSubmits` = 2, `MaxFaults` = 1 | `OnlyValidMembers`, `MemberRunsOnce`, `FencedIsSequential`, `StatusIsHonest`, `OkMeansRunSinceSet` |
| `batch_fence` | one submission | expected violation of `FenceHonoured` |
| `dif` | up to 3 blocks of 2 cells, tags of 2 bits, every kind of damage, every pair of flags | `FirstErrorFound`, `UpdateVerifies`, `InsertThenStrip` |
| `hw_init` | 1680 platforms, arrays of 3 devices and 3 queues | `ReadyTable`, `PortalOwnership`, `CleanExit`, `FaultsOnlyOutsideLimits`, `InitEnds` |
| `kernels` | every distance of alignments, sizes on both sides of every threshold, comparisons next to the limit of their counter (`SizeRange` = 4096), 3 CPUs, CRCs of 0 to 1088 bytes with two polynomials | `MoveIsCopy`, `MoveWithinSource`, `FillIsPattern`, `ComparisonsAgree`, `FlushesRange`, `CrcAgrees` |
| `api` | 1 job, 2 handlers, 3 heap buffers, a blocking call; 28 menus of requests; 4 calls on a job, 1 to 4 on handlers | `ExecutedAsAsked`, `NoStrayWrite`, `BuffersOwnedOnce`, `WaitsOnOwnRecord`, `AcceptedBuffersDisjoint`, `WaitEnds`, and the refinement `OperationSpec` |

The type invariants of `HwSubmit`, `HwWait`, `MemMove`, `Batch`, `HwInit` and `Api` are
proved; that of `Api` (no field of a record or job is ever torn) is checked too. `AutoPath`,
`Dif` and `Kernels` state theirs as documentation of the state; they hold too when they
are added to the configuration. The runs are kept for properties of the code.

Of each property that a passing run checks, PROJECT.json names a mutant: a changed
definition under which TLC finds the property violated.

Bounds and why they suffice. Two threads and one-entry queues make every refusal,
fill and drain interleave; three devices on two nodes make the cursor skip, wrap
and return to a device; unequal queue counts make the cursors of one device point
past another. Six bytes allow disjoint, adjacent, partly overlapping and equal
ranges with a fault on either side of the overlap. Three words with a ragged end
put a fault before, in and after the first difference. Validation wants room for
eight delta notes, hence nine words for an overflow in either part. Four members are
the least a batch may have; a fifth call sets one again, is rejected, or is past the
end. Three blocks let a fault fall before, on and after a damaged block and let tags
that start next to their last value wrap in either part. Arrays of three (eight in
the code) are small enough to be overrun by four devices or queues, and the proofs of
`HwInit` are for any size. `Kilobyte` = 32 keeps every loop of the move within 1600
bytes; the loops see the thresholds only as numbers, and `CallAssumption` says that
the unit (1024 in the code) may not be smaller: the shifted loops need a vector left
after the unaligned head, which a unit of 16 would not give them. `SizeRange` = 4096 instead of 2^32 puts the
largest comparison that does not wrap within reach of the run. Four calls on a job are init, submit, submit again and
finalize, with waits and checks (not counted) in between; four calls on handlers
submit, move, assign and destroy while the accelerator works. Threads and jobs are
symmetric in the safety runs of `HwSubmit`; symmetry is not used for liveness.

`CHECK_DEADLOCK FALSE` is set where the system really stops: after the crash of
`WildEnqueue`, at the end of a move, when a DIF job is done, when the dispatcher is
destroyed or initialisation has crashed, and when the calls that `MaxSets`,
`MaxSubmits` or the application allow are used up. In `Kernels` a call may stop only
in `Returned`, and deadlock is checked.

Fairness. `HwWait`: a thread inside `submit` or `wait` keeps running, and a device
completes the descriptors it holds; nobody has to call anything, and ENQCMD need
never be accepted. `Api`: the accelerator completes what it took, and a thread whose
wait is over returns. `HwInit`: the one thread that runs the constructor keeps
running.

## 5. Known deviations

Three have a run that TLC must find violated:

* `PortalSafe` (`hw_device.cpp:71,85`). `last_wq_idx` is shared by all devices of
  a thread. After an enqueue on queue 1 of a two-queue device, the second loop over
  a one-queue device runs to index 1, a `hw_queue` with `portal_mask_` 0. The
  comment promises to go through the queues available on the device. With equal
  counts the property holds, and is proved.
* `CompareOffset` (`accumulate_records.hpp:127`). `=` instead of `+=`: a difference
  found after a page fault is reported at the place of the fault.
* `FenceHonoured` (`dmldefs.h:127`). `DML_FLAG_FENCE` is 0x4, in a descriptor the flag
  that says that the address of the record is valid; the fence is bit 0. A fence asked
  for through the job API never reaches the device. `FencedIsSequential` says what
  still holds.

The following are stated in their modules as the documentation has them and are
violated too; a configuration of the module's run that lists the one invariant shows
it:

* `DeltaResult` (`AutoPath`; `accumulate_records.hpp:138`). `result` is that of the
  second part only, so differences before the fault end in result 0 with a non-empty
  record, which the documentation tells the caller not to apply.
* `ResultOfMember` (`Batch`; `dml_batch.cpp:751`). `dml_batch_get_result` stores a
  status.
* `FaultsLeaveNoTrace` (`Dif`; `partial_completion.hpp:220,232`). Insert and strip
  continue at a destination advanced by the bytes of the source, whose blocks are 8
  bytes shorter (insert) or longer (strip).
* `MaskedTagIgnored` (`Dif`; `dml_dif.c:156,202`). The mask is inverted before it is
  compared with `0xFFFF`.
* `IncompatibleReported` (`HwInit`; `hw_configuration_driver.c:105`). A library without
  one of the functions is closed, the status stays OK, and the next call goes through
  an entry that is NULL or no longer mapped.
* `CrcPadded` (`AutoPath`; `low_level_api.rst:687-688`, `high_level_api.rst:671-672`). The
  documentation says that a source whose size is no multiple of 4 is padded with zeros;
  no kernel pads. `CrcOfWholeSource` is about the bytes of the source as they are.
* `CheckedResult` (`AutoPath`; `low_level_api.rst:475-509`). Of a checked comparison the
  documentation says that bit 1 of the result is set; the code only sets the status and
  leaves the result 0 or 1, which is what `ComparisonResult` says.

Met while modelling; the models follow the code and the properties are stated so that
they hold:

* Cache flush and write back handle `size / 64` lines from the given address: the last
  line of a range that is not made of whole lines is left out. `FlushesRange` claims no
  more than whole lines.
* Compare adds the width of a vector to its 32-bit offset before it looks at the size
  (`compare.c:24`), which wraps for operands of 2^32 - 64 bytes and more: the loop then
  goes on behind them. `CallAssumption` bounds the size of a comparison.
* The AVX-512 CRC for polynomials other than the default takes the 32-bit length as an
  `int` (`crc.c:47`). No caller in the library passes another polynomial;
  `CallAssumption` bounds the length to half of the range.
* `validate_dif_insert` computes the size of the destination in 32 bits
  (`validation.cpp:266`). Where blocks with their fields take 2^32 bytes or more the
  overlap check is made with what is left of the size; `AcceptedBuffersDisjoint` speaks of
  the other insertions.
* The high-level API says of Memory Copy that it does not copy overlapping buffers
  (`operations.hpp:133`); its descriptor is that of a Memory Move, whose buffers nobody
  checks, and the copy is accepted. `AcceptedBuffersDisjoint` speaks of the operations
  that are checked.
* Apply Delta writes at the offsets of its notes unchecked (`apply_delta.c:28`), see
  `DeltaAssumption`.
* Initialisation forgets the mapping of a queue that fails its last check, and the
  context when no device is found; `CleanExit` names both. Nothing stops it at the end
  of its arrays; `FaultsOnlyOutsideLimits` says on which platforms it gets there.
* `DML_FLAG_COPY_ONLY` is checked on one side only (a destination that starts within the source) and
  is cleared in the caller's job, so a job submitted again is no longer checked.
* `create_delta` writes the size of the delta over `destination_length`: a job that is
  submitted again has to be filled in.
* The values `DML_FLAG_EXPECT_*` fit `create_delta` only, whose expected result is a
  mask; `compare` and `compare_pattern` compare `expected_result` with 0 or 1.
* Views of the high-level API keep 32-bit sizes.
* The automatic path continues `page_fault_during_processing` only
  (`core_interconnect.cpp:114`). A batch reports the fault of a member or of its list
  with other statuses, so its caller sees the fault; `StatusIsHonest` says that the
  status of the batch tells of it.
* Waiting for a job whose submission failed, or destroying a handler in flight, is left
  to the caller's contract; the code does not guard against either.

## 6. Proofs

`HwSubmitProofs`, for any number of threads, jobs, devices and queues, from
`ConfigAssumption` alone:

* `Invariance`: `IInv` is inductive. Besides the checked invariants it needs
  `JobInv` (a thread in `submit` owns its job) and `WalkInv`, which says which
  queues have refused at each point of the walk. The device loop is measured by
  `Behind(cursor, d)`, how many turns ago the cursor stood on device `d`; the queue
  loops by `Walked(last, i, d)`.
* `TypeCorrect`, `BusyOnlyWhenExhausted`, `NodeRespected`, `HeldExactlyOnce` follow.
* `UniformPortalSafe` adds the assumption that all devices have the same number of
  queues.
* `Refinement`: `Spec => AcceleratorSpec`.

Of `HwWait`: `WaitOnlyReads` (`WaitSpec => Spec`, so all of the above holds with waiting
threads) and `WaitTypeCorrect`.

The part of `AutoPathProofs` about `MemMove`, for any memory size and contents:

* `MoveInv` says that every address holds its final value except those still to be
  written, which hold their old value (`MemInv`); that the descriptor covers the
  tail or the head of the request, according to the direction the device took
  (`CutInv`); and what each phase knows (`PhaseInv`).
* `SourceIntact` is the heart: the byte about to be read is still to be written, or
  lies outside the destination, or is its own copy.
* `MoveIsCorrect`, `FaultNeverSeen`, `MoveTypeCorrect` follow.

`BatchProofs`, for any capacity, set of members and memory, from
`CapacityAssumption` and `MembersAssumption`: `IInv` adds to the checked invariants how far each slot is while
the software kernel or the device has the batch (`StageInv`), that a successful record
belongs to a slot run since it was set (`FreshInv`), what the record of the batch says
of its members (`OutcomeInv`) and that the status read is that record's (`ReadInv`).
`DeviceStopsOnFailureOnly` is the heart: if a device ends a batch early, the first
member it has not run stands behind one that failed. `TypeCorrect`,
`NoRejectedMember`, `NoMemberTwice`, `HonestStatus` and `NoStaleSuccess` follow.

The order of members is a second layer, `OrderInductive`. `OrderInv` compares memory and
records at every point with `Outcome`, which runs the members one after the other: the
software kernel has done the first `index` of them. On the device, as long as no page
fault has hit and members that conflict stand on two sides of a fence (`Apart`), each
member that has run has the record it gets in order, and each cell holds what it holds in
order once its writers have run (`CellsInOrder`), whichever others have run.
`FencedAlwaysSequential` follows: a batch whose dependent members are fenced ends, on
every path and in every order the device chooses, as if run in sequence.

`HwInitProofs`, for any platform and any size of the arrays, from `InitAssumption`:
`IInv` adds what each stage has opened (`ProgressInv`), that the queues so far come from
the devices so far (`PlaceInv`, which makes the portals distinct), that a mapping
without a queue object is a forgotten one (`MappedInv`) and that the slots so far hold
the usable devices so far with their usable queues (`TableInv`, counted with
`Cardinality`). An object that was moved from holds no portal, so nothing is unmapped by the
heap, and sorting is a bijection, so it loses and doubles nothing. `TypeCorrect`,
`TableReady`, `PortalsOwned`, `ExitIsClean` and `FaultsBounded` follow. `TableReady`
is what `ConfigAssumption` of `HwSubmit` asks of discovery.

`AutoPathProofs`, for any job of the eight operations that `JobAssumption` admits (what
the API and validation let through: sizes, expected results, words of `WordSize` bytes),
and a fault at any byte the device may stop at. `IInv` says that a job stands in one of
a few situations: not begun; ended by one worker (`Whole`); stopped by a fault at `b`
(`Faulted`); or continued from there by the software kernel, with the two records merged
(`Joined`). The work is in showing that `Joined` is `Whole` in all that a caller may rely
on:

* bytes of a destination: the rewritten addresses continue where the device stopped, and
  the pattern of `fill` has the right phase since a fault falls between words;
* `crc`, `copy_crc`: absorbing a prefix and then the rest, with the record's checksum as
  seed, is absorbing the whole, also with reflection, which cancels itself in between;
* comparisons: a difference is in the prefix, where the device would not have faulted, or
  the first one of the rest is the first one of the whole;
* `create_delta`, `apply_delta`: the notes of the prefix followed by those of the rest,
  shifted by the offset, rebuild the same destination, and are the notes of the whole up
  to what fits, with a result that says whether all did.

`DestinationAlwaysCorrect`, `CrcAlwaysWhole`, `ComparisonAlwaysRight`,
`DeltaAlwaysComplete` and, as an action property, `WaitingAgainIsSafe` follow.

`DifProofs`, for any block size, any number of tags and any job that `JobAssumption`
admits, and a fault after any block. `IInv` says that a job is not begun, has ended with
the right record and destination (`Right`), or was stopped by a fault, which only the
hardware path leaves to the caller. As in `AutoPathProofs` the work is in joining two
parts:

* the first damaged block of a part that starts at block `n` is the first of the whole,
  since no block before `n` was damaged, the tags of the record are those of block `n`
  also where they wrap (`(seed + n) % tags`), and offsets are counted from the start;
* update writes blocks `n` and up where one part would have written them, so every field
  verifies with the destination's seeds, masks and formats;
* insert gives each block a field that a check with the same seeds accepts, and strip
  takes away exactly that field.

`DifInvariant`, `FirstErrorAlwaysFound`, `UpdateAlwaysVerifies` and `InsertAlwaysStrips`
state these.

`KernelProofs`, for any call that `CallAssumption` admits: any addresses, any set of
differing bytes, any CPU and any 32-bit length, but for comparisons of more than
2^32 - 65 bytes and CRCs of 2^31 and more, where the counters of the code wrap
(`NoWrap` is what the bound gives). `KInv` is one invariant per kernel, each about its own
program counters (`OwnPc`), so that a step has to keep only its own.

* Memory Move (`MoveInv`): the destination is filled up to `d`, `left` vectors and a tail
  remain, and in a shifted loop `zmm0` holds the source bytes between the aligned source
  pointer and the destination's place in the source (`Holds`). `ShiftedHolds` is the
  heart: alignr, the index tables of permutex2var, and the two byte shifts with a blend
  each yield the source from `distance` on, for the distances they are chosen for
  (`Serves`).
* Fill (`FillInv`): the phase of the pattern at a line is what the unaligned head left.
* Comparisons (`CompareInv`): nothing differs before `at`; the first set bit of a masked
  compare is then the first difference.
* Cache flush (`FlushInv`): the lines of the first `at` vectors.
* CRC (`CrcInv`): `ptr` and `len` in each loop, which bounds what is read.

`MoveAlwaysCopy`, `MoveAlwaysInside`, `FillAlwaysPattern`, `ComparisonsAlwaysAgree`,
`FlushAlwaysRange` and `CrcAlwaysInside` follow.

`OwnershipProofs`, for any number of jobs, handlers and heap buffers and any application, from
the assumptions of `Api`. `ApiInv` says that jobs and blocking calls have their task in
place and a handler that is gone has none (`InPlace`), that buffers are owned once, that
a valid object has a task bound to its own record, with an operation and a record written
through its view (`Viable`, which validation establishes and a continuation keeps), which
is filled in or in flight (`Bound`), that what is in flight is the task of a valid object with an empty
record (`Aimed`), and that the thread waits for a valid object and leaves no blocking
call behind (`Waits`). `Aimed` is needed because a filled record must mean that nobody
writes it any more, else the place of a finished job could not be used again. The
argument has three layers:

* bytes: no view of a descriptor straddles the field of the record's address, so what
  `rebind` writes there is read back whatever else was written (`Rebound`), for every
  `make_*_descriptor`; and the status is the only field on the first byte of a record, so
  every outcome fills it in (`EndedFills`);
* validation: each `validate_*` answers with a status of its own, never one by which
  objects tell that they are valid or gone (`ValidateAnswers`), and only operations that
  exist pass (`ValidOperation`);
* steps: a task lands in a place that no other object has (`Landing`), an idle object is
  refused or goes away (`Dropping`), a record is filled in (`Filling`), handlers exchange
  tasks (`Moving`). Each action is one of these. That there is a buffer to land in is a
  matter of counting (`FreshBuffer`).

`BuffersAlwaysOwnedOnce`, `NeverStrayWrite` and `AlwaysWaitsOnOwnRecord` follow.

On top of ownership come three more layers, in `ApiProofs`, each an invariant of its own.

What is executed (`AskedInv`). The fields of every view lie apart, so what is written
through a view is read back, and `rebind` changes none of it: what the device sees of a
fresh task (`Seen`) is the wish, for every `make_*_descriptor` of both APIs with their
flag words. `Carries` says of a valid object that its task is `Standing`: the descriptor
is the wish and the record is empty or what a device may write of it; or, on the automatic
path, both were rewritten after a fault. Then `FaultRest` is the heart: after
`update_for_continuation` what is seen is exactly the rest of the wish (`RestOf`), every
address, size, seed and tag of every operation, also backwards. A job can be submitted
again as it is, so `Refills` remembers that its fields are as some wish filled them in,
except for those that results are written to. `ExecutedAlwaysAsAsked` follows, and
`AcceptedBuffersAlwaysDisjoint`: what was seen at submission is what was asked, and
validation accepted it (`Sanctioned`); from there it is arithmetic on the sizes of blocks,
including DIF Strip, whose destination is checked with a size of its own, and DIF Insert
as long as that size does not wrap.

Values (`TypedInv`). No field that the operation has in its record is torn, before and
after records are merged (`MergedReads`), and jobs keep their types; the seed of a
checksum is a number too, although it may be the result of an earlier run. `ApiTypes`
follows.

The promise. `Shown` is the outcome a record shows, and `StandingPossible` the heart: what
a standing record shows is a possible outcome of the whole request, whether one piece
wrote it (`OnePiece`) or it was merged of two (`TwoPieces`, from `SecondPiece`: what the
kernel writes of the rest). Every step is then one of `Operation`: a submission starts an
operation (`Starts`), a record that is filled in ends it (`Completes`), an answer is a part
of the outcome (`Tells`), a move exchanges two objects (`MovePromise`), and all else changes
nothing that is visible (`Stutters`). A wait that continues in software turns a fault,
which is no outcome, into one, and leaves an outcome that was there as it is (`Resolves`).
`ApiImplementsOperation` is `Spec => OperationSpec`.

Of `Operation` itself, `NoFalseAnswer`: in any implementation, what a caller has been
told of an operation stays true of its outcome. With the refinement this becomes
`AnswersAlwaysTrue` for both APIs.

Loops and folds of the models are functions on naturals; where a proof needs what such a
function computes, it takes a least counterexample (`WFMin`) instead of an induction
rule.

Only model-checked: liveness (`SubmitReturns`, `WaitReturns`, `InitEnds`, `WaitEnds`),
since fairness is out of the prover's reach; and the value of a CRC (`CrcAgrees` apart from
what is read, which `CrcAlwaysInside` covers), since it needs that folding and reduction
keep a polynomial modulo another, an algebra over GF(2) that the provers have no theory of.

## 7. Not modelled

Register layouts of the legacy headers, benchmarks, examples, tests and build files;
durability flags and BLOCK_ON_FAULT inside the device; `dml_get_library_version`; the
names of devices, the capability register and `memory_type_`; exhaustion of the heap; the byte
order of DIF tags in memory; the layout of the buffer of a batch. Several application
threads appear in `HwSubmit` and `HwWait`, where they share state; in `Api` one thread
makes the calls, since objects may not be shared between threads without
synchronisation of the caller's own.
