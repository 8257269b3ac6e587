------------------------------ MODULE HwSubmit ------------------------------
(***************************************************************************)
(* Submission of a descriptor to the accelerators on the hardware path:    *)
(* hardware_device::submit walks the devices, hw_device::enqueue_descriptor *)
(* walks the work queues of one device, hw_queue::enqueue_descriptor issues *)
(* one ENQCMD.  The cursors current_device_idx and last_wq_idx are          *)
(* thread_local; the shared work queues are filled by every thread and      *)
(* drained by the devices.                                                 *)
(*                                                                         *)
(* One ENQCMD is one step, so the walks of several threads interleave with *)
(* each other and with the devices at the grain the hardware gives.        *)
(***************************************************************************)
EXTENDS Integers, FiniteSets

CONSTANTS
    Threads,      \* application threads that call submit
    Jobs,         \* descriptors, each with a completion record of its own
    Nodes,        \* NUMA node ids
    DeviceCount,  \* hw_dispatcher::device_count_ of an initialised dispatcher
    QueueCount,   \* QueueCount[d]: hw_device::queue_count_
    NumaId,       \* NumaId[d]: hw_device::numa_node_id_
    Capacity,     \* entries of one shared work queue
    AnyNode,      \* numa_id = numeric_limits<uint32_t>::max()
    NoJob         \* a thread that is not in submit

Devices == 0 .. DeviceCount - 1

\* hw_device.hpp: working_queues_ is an array of this many hw_queue objects,
\* of which only the first queue_count_ are initialised.
MaxQueues == 8

ASSUME ConfigAssumption ==
    /\ DeviceCount \in Nat \ {0}
    /\ QueueCount \in [Devices -> 1 .. MaxQueues]
    /\ NumaId \in [Devices -> Nodes]
    /\ Capacity \in Nat \ {0}
    /\ AnyNode \notin Nodes
    /\ NoJob \notin Jobs

VARIABLES
    hw_support,          \* hw_dispatcher::hw_support_, fixed at start-up
    pc,                  \* where each thread is in submit
    job,                 \* the descriptor each thread is submitting
    own_numa_id,         \* the node of each descriptor's last submission
    tried_devices,
    current_device_idx,  \* thread_local of hardware_device::submit
    last_wq_idx,         \* thread_local of hw_device::enqueue_descriptor
    device,              \* the device whose queues the thread is walking
    idx,                 \* the queue it tries next
    refused,             \* history: queues that refused the current descriptor
    queue,               \* queue[d][q]: descriptors the device holds
    record,              \* status byte of each completion record
    phase                \* what the caller knows of each descriptor

vars == <<hw_support, pc, job, own_numa_id, tried_devices, current_device_idx,
          last_wq_idx, device, idx, refused, queue, record, phase>>

\* last_wq_idx before the thread's first call of enqueue_descriptor.
Unset == -1

Portals == Devices \X (0 .. MaxQueues - 1)

\* Status bytes: 0 is "not finished"; the device writes any other.
InProgress == 0
Success == 1
PageFault == 3
Completed == {Success, PageFault}

\* A queue object that initialize_new_queue has filled in.  The others have
\* portal_mask_ = 0: their portal is an address of page 0.
Initialised(d, q) == q < QueueCount[d]

-----------------------------------------------------------------------------
Init ==
    /\ hw_support \in BOOLEAN
    /\ pc = [t \in Threads |-> "idle"]
    /\ job = [t \in Threads |-> NoJob]
    /\ own_numa_id = [j \in Jobs |-> AnyNode]
    /\ tried_devices = [t \in Threads |-> 0]
    /\ current_device_idx = [t \in Threads |-> 0]
    /\ last_wq_idx = [t \in Threads |-> Unset]
    /\ device = [t \in Threads |-> 0]
    /\ idx = [t \in Threads |-> 0]
    /\ refused = [t \in Threads |-> {}]
    /\ queue = [p \in Portals |-> {}]
    /\ record = [j \in Jobs |-> InProgress]
    /\ phase = [j \in Jobs |-> "idle"]

\* The caller owns the descriptor: it has never been accepted, or the device
\* has finished with it.
CallerOwns(j) ==
    /\ phase[j] # "submitting"
    /\ phase[j] = "accepted" => record[j] # InProgress

\* Entry of hardware_device::submit for a task built by make_task, whose
\* completion record is zeroed.  numa_id is the caller's request, here the
\* node rdtscp reports for the calling thread.
Submit(t, j, numa_id, here) ==
    /\ pc[t] = "idle"
    /\ CallerOwns(j)
    /\ record' = [record EXCEPT ![j] = InProgress]
    /\ IF hw_support
       THEN /\ pc' = [pc EXCEPT ![t] = "scan"]
            /\ job' = [job EXCEPT ![t] = j]
            /\ own_numa_id' = [own_numa_id EXCEPT
                                 ![j] = IF numa_id = AnyNode THEN here ELSE numa_id]
            /\ phase' = [phase EXCEPT ![j] = "submitting"]
       ELSE /\ phase' = [phase EXCEPT ![j] = "failure"]
            /\ UNCHANGED <<pc, job, own_numa_id>>
    /\ UNCHANGED <<hw_support, tried_devices, current_device_idx, last_wq_idx,
                   device, idx, refused, queue>>

\* Leaving submit: the automatic variables of the call are gone, the
\* thread_local cursors stay.
Return(t, result) ==
    /\ pc' = [pc EXCEPT ![t] = "idle"]
    /\ phase' = [phase EXCEPT ![job[t]] = result]
    /\ job' = [job EXCEPT ![t] = NoJob]
    /\ tried_devices' = [tried_devices EXCEPT ![t] = 0]
    /\ device' = [device EXCEPT ![t] = 0]
    /\ idx' = [idx EXCEPT ![t] = 0]
    /\ refused' = [refused EXCEPT ![t] = {}]

\* Mutant: the walk ends with the status of a missing accelerator.
QueueBusyAsFailure(t) ==
    /\ pc[t] = "scan"
    /\ tried_devices[t] = DeviceCount
    /\ Return(t, "failure")
    /\ UNCHANGED <<hw_support, own_numa_id, current_device_idx, last_wq_idx,
                   queue, record>>
\* Every device has been tried.
QueueBusy(t) ==
    /\ pc[t] = "scan"
    /\ tried_devices[t] = DeviceCount
    /\ Return(t, "queue_busy")
    /\ UNCHANGED <<hw_support, own_numa_id, current_device_idx, last_wq_idx,
                   queue, record>>

\* current_device_idx = (current_device_idx + 1) % device_count
NextDevice(i) == (i + 1) % DeviceCount

\* Mutant: a device of another node does not count as tried.
SkipDeviceUncounted(t) ==
    /\ pc[t] = "scan"
    /\ tried_devices[t] < DeviceCount
    /\ own_numa_id[job[t]] # NumaId[current_device_idx[t]]
    /\ current_device_idx' = [current_device_idx EXCEPT ![t] = NextDevice(@)]
    /\ UNCHANGED <<hw_support, pc, job, own_numa_id, tried_devices, last_wq_idx,
                   device, idx, refused, queue, record, phase>>
\* The device under the cursor is on another node.
SkipDevice(t) ==
    /\ pc[t] = "scan"
    /\ tried_devices[t] < DeviceCount
    /\ own_numa_id[job[t]] # NumaId[current_device_idx[t]]
    /\ current_device_idx' = [current_device_idx EXCEPT ![t] = NextDevice(@)]
    /\ tried_devices' = [tried_devices EXCEPT ![t] = @ + 1]
    /\ UNCHANGED <<hw_support, pc, job, own_numa_id, last_wq_idx, device, idx,
                   refused, queue, record, phase>>

\* The value of last_wq_idx the walk over device d starts from: the static
\* thread_local is initialised by the first device the thread ever uses.
LastWq(t, d) == IF last_wq_idx[t] = Unset THEN QueueCount[d] - 1 ELSE last_wq_idx[t]

\* The first queue of the walk: the first loop if it is not empty, else the
\* second one.
FirstQueue(last, d) == IF last + 1 < QueueCount[d] THEN last + 1 ELSE 0

\* Mutant: the node of the device is not looked at.
EnterAnyDevice(t) ==
    /\ pc[t] = "scan"
    /\ tried_devices[t] < DeviceCount
    /\ LET d == current_device_idx[t]
           last == LastWq(t, d)
       IN  /\ device' = [device EXCEPT ![t] = d]
           /\ last_wq_idx' = [last_wq_idx EXCEPT ![t] = last]
           /\ idx' = [idx EXCEPT ![t] = FirstQueue(last, d)]
    /\ current_device_idx' = [current_device_idx EXCEPT ![t] = NextDevice(@)]
    /\ record' = [record EXCEPT ![job[t]] = InProgress]
    /\ pc' = [pc EXCEPT ![t] = "enqueue"]
    /\ UNCHANGED <<hw_support, job, own_numa_id, tried_devices, refused, queue, phase>>
\* enqueue() on a device of the right node: the record is zeroed, then the
\* walk over the device's queues starts.
EnterDevice(t) ==
    /\ pc[t] = "scan"
    /\ tried_devices[t] < DeviceCount
    /\ LET d == current_device_idx[t]
           last == LastWq(t, d)
       IN  /\ own_numa_id[job[t]] = NumaId[d]
           /\ device' = [device EXCEPT ![t] = d]
           /\ last_wq_idx' = [last_wq_idx EXCEPT ![t] = last]
           /\ idx' = [idx EXCEPT ![t] = FirstQueue(last, d)]
    /\ current_device_idx' = [current_device_idx EXCEPT ![t] = NextDevice(@)]
    /\ record' = [record EXCEPT ![job[t]] = InProgress]
    /\ pc' = [pc EXCEPT ![t] = "enqueue"]
    /\ UNCHANGED <<hw_support, job, own_numa_id, tried_devices, refused, queue, phase>>

\* ENQCMD accepted: the work queue takes the descriptor, both walks end.
Enqueue(t) ==
    LET p == <<device[t], idx[t]>>
    IN  /\ pc[t] = "enqueue"
        /\ Initialised(device[t], idx[t])
        /\ Cardinality(queue[p]) < Capacity
        /\ queue' = [queue EXCEPT ![p] = @ \cup {job[t]}]
        /\ last_wq_idx' = [last_wq_idx EXCEPT ![t] = idx[t]]
        /\ Return(t, "accepted")
        /\ UNCHANGED <<hw_support, own_numa_id, current_device_idx, record>>

\* Mutant: the second loop ends before the queue it started from.
LastOfWalkEarly(last, i) == i + 1 = last
\* Where the two loops go after queue i of device d refused: on through
\* last+1 .. n_queues-1, then through 0 .. last.
LastOfWalk(last, i) == i = last
FollowingQueue(last, i, d) == IF i > last /\ i + 1 >= QueueCount[d] THEN 0 ELSE i + 1

\* Mutant: the retry flag is read the wrong way round, a descriptor the queue
\* took is offered to the next one.
RefusedButQueued(t) ==
    LET p == <<device[t], idx[t]>>
    IN  /\ pc[t] = "enqueue"
        /\ Initialised(device[t], idx[t])
        /\ queue' = [queue EXCEPT ![p] = @ \cup {job[t]}]
        /\ idx' = [idx EXCEPT ![t] = FollowingQueue(last_wq_idx[t], @, device[t])]
        /\ UNCHANGED <<hw_support, pc, job, own_numa_id, tried_devices, refused,
                       current_device_idx, last_wq_idx, device, record, phase>>
\* ENQCMD asked for a retry: the queue is full.  The work queues are of mode
\* ACCFG_WQ_SHARED, so other processes may hold the entries this one does not,
\* and a refusal is possible whatever this process has in the queue.  After
\* the last queue the device counts as tried.
Refused(t) ==
    LET p == <<device[t], idx[t]>>
    IN  /\ pc[t] = "enqueue"
        /\ Initialised(device[t], idx[t])
        /\ refused' = [refused EXCEPT ![t] = @ \cup {p}]
        /\ IF LastOfWalk(last_wq_idx[t], idx[t])
           THEN /\ pc' = [pc EXCEPT ![t] = "scan"]
                /\ tried_devices' = [tried_devices EXCEPT ![t] = @ + 1]
                /\ UNCHANGED idx
           ELSE /\ idx' = [idx EXCEPT
                             ![t] = FollowingQueue(last_wq_idx[t], @, device[t])]
                /\ UNCHANGED <<pc, tried_devices>>
        /\ UNCHANGED <<hw_support, job, own_numa_id, current_device_idx,
                       last_wq_idx, device, queue, record, phase>>

\* ENQCMD through the portal of a queue object that was never initialised: a
\* store to page 0, which ends the process.
WildEnqueue(t) ==
    /\ pc[t] = "enqueue"
    /\ ~Initialised(device[t], idx[t])
    /\ pc' = [u \in Threads |-> "crashed"]
    /\ UNCHANGED <<hw_support, job, own_numa_id, tried_devices, current_device_idx,
                   last_wq_idx, device, idx, refused, queue, record, phase>>

\* External: an engine of the device takes a descriptor out of a work queue,
\* processes it and writes the status of its completion record.
Complete(p, j, status) ==
    /\ j \in queue[p]
    /\ queue' = [queue EXCEPT ![p] = @ \ {j}]
    /\ record' = [record EXCEPT ![j] = status]
    /\ UNCHANGED <<hw_support, pc, job, own_numa_id, tried_devices,
                   current_device_idx, last_wq_idx, device, idx, refused, phase>>

SubmitStep(t) ==
    \/ QueueBusy(t)
    \/ SkipDevice(t)
    \/ EnterDevice(t)
    \/ Enqueue(t)
    \/ Refused(t)
    \/ WildEnqueue(t)

DeviceStep == \E p \in Portals, j \in Jobs, s \in Completed : Complete(p, j, s)

Next ==
    \/ \E t \in Threads, j \in Jobs, n \in Nodes \cup {AnyNode}, here \in Nodes :
          Submit(t, j, n, here)
    \/ \E t \in Threads : SubmitStep(t)
    \/ DeviceStep

Spec == Init /\ [][Next]_vars

-----------------------------------------------------------------------------
TypeOK ==
    /\ hw_support \in BOOLEAN
    /\ pc \in [Threads -> {"idle", "scan", "enqueue", "crashed"}]
    /\ job \in [Threads -> Jobs \cup {NoJob}]
    /\ own_numa_id \in [Jobs -> Nodes \cup {AnyNode}]
    /\ tried_devices \in [Threads -> 0 .. DeviceCount]
    /\ current_device_idx \in [Threads -> Devices]
    /\ last_wq_idx \in [Threads -> Unset .. MaxQueues - 1]
    /\ device \in [Threads -> Devices]
    /\ idx \in [Threads -> 0 .. MaxQueues - 1]
    /\ refused \in [Threads -> SUBSET Portals]
    /\ queue \in [Portals -> SUBSET Jobs]
    /\ record \in [Jobs -> {InProgress} \cup Completed]
    /\ phase \in [Jobs -> {"idle", "submitting", "accepted", "queue_busy", "failure"}]

\* No thread ever issues ENQCMD through an uninitialised queue object: the
\* walk of hw_device::enqueue_descriptor stays within the device's queues.
PortalSafe == \A t \in Threads :
    pc[t] = "enqueue" => Initialised(device[t], idx[t])

\* The queues a submission for node n may use.
QueuesOn(n) ==
    {p \in Portals : NumaId[p[1]] = n /\ Initialised(p[1], p[2])}

\* submit gives up with queue_busy only after every queue of every device of
\* the node has refused this very descriptor: the cursors, which start
\* anywhere and are shared by all devices, make the walk skip nothing.
BusyIsExhaustive == \A t \in Threads :
    (pc[t] = "scan" /\ tried_devices[t] = DeviceCount)
        => refused[t] = QueuesOn(own_numa_id[job[t]])

\* The load balancer does not cross the node boundary: a device only ever
\* holds descriptors whose submission asked for its node, or was made by a
\* thread running there when submit looked.
NumaBoundary == \A p \in Portals, j \in Jobs :
    j \in queue[p] => NumaId[p[1]] = own_numa_id[j]

\* The portals whose device holds descriptor j.
Holders(j) == {p \in Portals : j \in queue[p]}

\* An accepted descriptor is in exactly one work queue until its record is
\* written and in none afterwards; a descriptor that was refused, or is still
\* being offered, is in none and its record is clear, so falling back to the
\* software path cannot execute it twice.
ExactlyOnce == \A j \in Jobs :
    IF phase[j] = "accepted" /\ record[j] = InProgress
    THEN \E p \in Portals : Holders(j) = {p}
    ELSE Holders(j) = {} /\ (phase[j] # "accepted" => record[j] = InProgress)

\* The walks over devices and queues implement the promise of Accelerator: the
\* caller cannot tell them from one atomic answer, and an accepted descriptor
\* is completed once.
Abstract == INSTANCE Accelerator
AcceleratorSpec == Abstract!Spec
=============================================================================
