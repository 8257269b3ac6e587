--------------------------- MODULE HwSubmitProofs ---------------------------
(***************************************************************************)
(* Safety of HwSubmit for every number of threads, descriptors, devices and *)
(* work queues; and HwWait, which adds waiting, implements it, so that all   *)
(* that is proved here holds with waiting threads too.                       *)
(***************************************************************************)
EXTENDS HwWait, TLAPS

\* How many steps ago the cursor of a thread, now at cur, stood on device d.
Behind(cur, d) == IF d < cur THEN cur - 1 - d ELSE cur - 1 - d + DeviceCount

\* The queues of device d the two loops have been through when they are about
\* to try queue i.
Walked(last, i, d) ==
    {q \in 0 .. QueueCount[d] - 1 :
        IF i > last THEN last < q /\ q < i ELSE last < q \/ q < i}

\* A thread inside submit has a descriptor of its own.
JobInv ==
    /\ \A t \in Threads :
          /\ pc[t] = "idle" => job[t] = NoJob
          /\ pc[t] \in {"scan", "enqueue"} => job[t] \in Jobs
          /\ job[t] # NoJob => phase[job[t]] = "submitting"
    /\ \A t, u \in Threads : job[t] = job[u] /\ job[t] # NoJob => t = u

\* What refused holds while thread t walks over the devices ...
ScanAt(t) ==
    pc[t] = "scan" =>
        refused[t] = {p \in QueuesOn(own_numa_id[job[t]]) :
                        Behind(current_device_idx[t], p[1]) < tried_devices[t]}

\* ... and over the queues of one of them.
EnqueueAt(t) ==
    pc[t] = "enqueue" =>
        /\ tried_devices[t] < DeviceCount
        /\ last_wq_idx[t] # Unset
        /\ idx[t] <= last_wq_idx[t] \/ idx[t] < QueueCount[device[t]]
        /\ NumaId[device[t]] = own_numa_id[job[t]]
        /\ Behind(current_device_idx[t], device[t]) = 0
        /\ refused[t] = {p \in QueuesOn(own_numa_id[job[t]]) :
                           IF p[1] = device[t]
                           THEN p[2] \in Walked(last_wq_idx[t], idx[t], p[1])
                           ELSE Behind(current_device_idx[t], p[1]) \in 1 .. tried_devices[t]}

\* The calls of an idle thread have left no trace.
IdleAt(t) == pc[t] = "idle" => tried_devices[t] = 0 /\ refused[t] = {}

WalkInv == \A t \in Threads : ScanAt(t) /\ EnqueueAt(t) /\ IdleAt(t)

IInv ==
    /\ TypeOK
    /\ JobInv
    /\ WalkInv
    /\ NumaBoundary
    /\ ExactlyOnce

-----------------------------------------------------------------------------
\* The cursor of hardware_device::submit moves to the next device and from the
\* last one back to the first.
LEMMA NextDeviceValue ==
    ASSUME NEW i \in Devices
    PROVE  /\ NextDevice(i) \in Devices
           /\ NextDevice(i) = IF i + 1 = DeviceCount THEN 0 ELSE i + 1
<1>1. DeviceCount \in Nat \ {0} /\ i \in Nat /\ i + 1 <= DeviceCount
  BY ConfigAssumption DEF Devices
<1>2. CASE i + 1 = DeviceCount
  BY <1>1, <1>2 DEF NextDevice, Devices
<1>3. CASE i + 1 < DeviceCount
  BY <1>1, <1>3 DEF NextDevice, Devices
<1>4. QED
  BY <1>1, <1>2, <1>3

\* A portal is a pair of a device and an index of its array of queues.
LEMMA PortalPair ==
    ASSUME NEW p \in Portals
    PROVE  /\ p = <<p[1], p[2]>>
           /\ p[1] \in Devices
           /\ p[2] \in 0 .. MaxQueues - 1
BY DEF Portals

\* Every variable keeps its type; in particular the walks never leave the
\* device table and the array of queue objects.
LEMMA TypeStep == TypeOK /\ WalkInv /\ JobInv /\ [Next]_vars => TypeOK'
<1> SUFFICES ASSUME TypeOK, WalkInv, JobInv, [Next]_vars
             PROVE  TypeOK'
  OBVIOUS
<1> USE ConfigAssumption DEF TypeOK, Completed, MaxQueues, Unset
<1>1. ASSUME NEW t \in Threads, NEW j \in Jobs, NEW n \in Nodes \cup {AnyNode},
             NEW here \in Nodes, Submit(t, j, n, here)
      PROVE  TypeOK'
  BY <1>1, SMTT(60) DEF Submit
<1>2. ASSUME NEW t \in Threads, QueueBusy(t)
      PROVE  TypeOK'
  BY <1>2 DEF QueueBusy, Return, JobInv, Devices
<1>3. ASSUME NEW t \in Threads, SkipDevice(t)
      PROVE  TypeOK'
  BY <1>3, NextDeviceValue DEF SkipDevice
<1>4. ASSUME NEW t \in Threads, EnterDevice(t)
      PROVE  TypeOK'
  BY <1>4, NextDeviceValue DEF EnterDevice, LastWq, FirstQueue, JobInv
<1>5. ASSUME NEW t \in Threads, Enqueue(t)
      PROVE  TypeOK'
  BY <1>5 DEF Enqueue, Return, JobInv, Devices, Portals
<1>6. ASSUME NEW t \in Threads, Refused(t)
      PROVE  TypeOK'
  <2>1. /\ pc[t] = "enqueue" /\ idx[t] \in 0 .. 7 /\ last_wq_idx[t] \in 0 .. 7
        /\ device[t] \in Devices /\ idx[t] < QueueCount[device[t]]
        /\ QueueCount[device[t]] \in 1 .. 8 /\ tried_devices[t] < DeviceCount
    BY <1>6 DEF Refused, WalkInv, EnqueueAt, Initialised
  <2>2. idx[t] # last_wq_idx[t]
          => FollowingQueue(last_wq_idx[t], idx[t], device[t]) \in 0 .. 7
    BY <2>1 DEF FollowingQueue
  <2>3. <<device[t], idx[t]>> \in Portals
    BY <2>1 DEF Portals
  <2>4. refused' \in [Threads -> SUBSET Portals]
    BY <1>6, <2>3 DEF Refused
  <2>5. tried_devices' \in [Threads -> 0 .. DeviceCount]
    BY <1>6, <2>1 DEF Refused
  <2>6. idx' \in [Threads -> 0 .. MaxQueues - 1]
    BY <1>6, <2>1, <2>2 DEF Refused, LastOfWalk
  <2>7. pc' \in [Threads -> {"idle", "scan", "enqueue", "crashed"}]
    BY <1>6 DEF Refused
  <2>8. UNCHANGED <<hw_support, job, own_numa_id, current_device_idx, last_wq_idx,
                    device, queue, record, phase>>
    BY <1>6 DEF Refused
  <2>9. QED
    BY <2>4, <2>5, <2>6, <2>7, <2>8
<1>7. ASSUME NEW t \in Threads, WildEnqueue(t)
      PROVE  TypeOK'
  BY <1>7 DEF WildEnqueue
<1>8. ASSUME NEW p \in Portals, NEW j \in Jobs, NEW s \in Completed, Complete(p, j, s)
      PROVE  TypeOK'
  BY <1>8 DEF Complete
<1>9. CASE UNCHANGED vars
  BY <1>9 DEF vars
<1>10. QED
  BY <1>1, <1>2, <1>3, <1>4, <1>5, <1>6, <1>7, <1>8, <1>9
     DEF Next, SubmitStep, DeviceStep

\* A descriptor being submitted is in the hands of exactly one thread.
LEMMA JobStep == TypeOK /\ JobInv /\ [Next]_vars => JobInv'
<1> SUFFICES ASSUME TypeOK, JobInv, [Next]_vars
             PROVE  JobInv'
  OBVIOUS
<1> USE ConfigAssumption DEF TypeOK, JobInv
<1>1. ASSUME NEW t \in Threads, NEW j \in Jobs, NEW n \in Nodes \cup {AnyNode},
             NEW here \in Nodes, Submit(t, j, n, here)
      PROVE  JobInv'
  BY <1>1, SMTT(60) DEF Submit, CallerOwns
<1>2. ASSUME NEW t \in Threads, QueueBusy(t)
      PROVE  JobInv'
  BY <1>2 DEF QueueBusy, Return
<1>3. ASSUME NEW t \in Threads, SkipDevice(t)
      PROVE  JobInv'
  BY <1>3 DEF SkipDevice
<1>4. ASSUME NEW t \in Threads, EnterDevice(t)
      PROVE  JobInv'
  BY <1>4 DEF EnterDevice
<1>5. ASSUME NEW t \in Threads, Enqueue(t)
      PROVE  JobInv'
  BY <1>5 DEF Enqueue, Return
<1>6. ASSUME NEW t \in Threads, Refused(t)
      PROVE  JobInv'
  BY <1>6 DEF Refused
<1>7. ASSUME NEW t \in Threads, WildEnqueue(t)
      PROVE  JobInv'
  BY <1>7 DEF WildEnqueue
<1>8. ASSUME NEW p \in Portals, NEW j \in Jobs, NEW s \in Completed, Complete(p, j, s)
      PROVE  JobInv'
  BY <1>8 DEF Complete
<1>9. CASE UNCHANGED vars
  BY <1>9 DEF vars
<1>10. QED
  BY <1>1, <1>2, <1>3, <1>4, <1>5, <1>6, <1>7, <1>8, <1>9
     DEF Next, SubmitStep, DeviceStep

\* No step duplicates, loses or completes twice a descriptor.
LEMMA OnceStep == TypeOK /\ JobInv /\ ExactlyOnce /\ [Next]_vars => ExactlyOnce'
<1> SUFFICES ASSUME TypeOK, JobInv, ExactlyOnce, [Next]_vars
             PROVE  ExactlyOnce'
  OBVIOUS
<1> USE ConfigAssumption DEF TypeOK, ExactlyOnce, Holders, InProgress, Success, PageFault, Completed
<1>1. ASSUME NEW t \in Threads, NEW j \in Jobs, NEW n \in Nodes \cup {AnyNode},
             NEW here \in Nodes, Submit(t, j, n, here)
      PROVE  ExactlyOnce'
  BY <1>1 DEF Submit, CallerOwns
<1>2. ASSUME NEW t \in Threads, QueueBusy(t)
      PROVE  ExactlyOnce'
  BY <1>2, SMTT(60) DEF QueueBusy, Return, JobInv
<1>3. ASSUME NEW t \in Threads, SkipDevice(t)
      PROVE  ExactlyOnce'
  BY <1>3 DEF SkipDevice
<1>4. ASSUME NEW t \in Threads, EnterDevice(t)
      PROVE  ExactlyOnce'
  BY <1>4, SMTT(60) DEF EnterDevice, JobInv
<1>5. ASSUME NEW t \in Threads, Enqueue(t)
      PROVE  ExactlyOnce'
  <2> DEFINE p == <<device[t], idx[t]>>
  <2> PICK i \in Jobs : i = job[t]
    BY <1>5 DEF Enqueue, JobInv
  <2>1. /\ p \in Portals
        /\ phase[i] = "submitting" /\ record' = record
        /\ phase' = [phase EXCEPT ![i] = "accepted"]
        /\ queue' = [queue EXCEPT ![p] = @ \cup {i}]
    BY <1>5 DEF Enqueue, Return, JobInv, Portals
  <2>2. Holders(i) = {} /\ record[i] = InProgress
    BY <2>1
  <2> HIDE DEF p
  <2>3. Holders(i)' = {p}
    BY <2>1, <2>2
  <2>4. ASSUME NEW j \in Jobs, j # i
        PROVE  Holders(j)' = Holders(j)
    BY <2>1, <2>4
  <2>5. QED
    BY <2>1, <2>2, <2>3, <2>4
<1>6. ASSUME NEW t \in Threads, Refused(t)
      PROVE  ExactlyOnce'
  BY <1>6 DEF Refused
<1>7. ASSUME NEW t \in Threads, WildEnqueue(t)
      PROVE  ExactlyOnce'
  BY <1>7 DEF WildEnqueue
<1>8. ASSUME NEW p \in Portals, NEW j \in Jobs, NEW s \in Completed, Complete(p, j, s)
      PROVE  ExactlyOnce'
  <2>1. Holders(j) = {p} /\ phase[j] = "accepted" /\ record[j] = InProgress
    BY <1>8 DEF Complete
  <2>2. Holders(j)' = {}
    BY <1>8, <2>1 DEF Complete
  <2>3. ASSUME NEW i \in Jobs, i # j
        PROVE  Holders(i)' = Holders(i) /\ record'[i] = record[i]
    BY <1>8, <2>3 DEF Complete
  <2>4. record'[j] = s /\ phase' = phase
    BY <1>8 DEF Complete
  <2>5. QED
    BY <2>1, <2>2, <2>3, <2>4
<1>9. CASE UNCHANGED vars
  BY <1>9 DEF vars
<1> HIDE DEF TypeOK, ExactlyOnce, Completed
<1>10. QED
  BY <1>1, <1>2, <1>3, <1>4, <1>5, <1>6, <1>7, <1>8, <1>9
     DEF Next, SubmitStep, DeviceStep

\* Descriptors stay on the node of their submission.
LEMMA NumaStep ==
    TypeOK /\ JobInv /\ WalkInv /\ ExactlyOnce /\ NumaBoundary /\ [Next]_vars
        => NumaBoundary'
<1> SUFFICES ASSUME TypeOK, JobInv, WalkInv, ExactlyOnce, NumaBoundary, [Next]_vars
             PROVE  NumaBoundary'
  OBVIOUS
<1> USE ConfigAssumption DEF TypeOK, NumaBoundary
<1>1. ASSUME NEW t \in Threads, NEW j \in Jobs, NEW n \in Nodes \cup {AnyNode},
             NEW here \in Nodes, Submit(t, j, n, here)
      PROVE  NumaBoundary'
  BY <1>1 DEF Submit, CallerOwns, ExactlyOnce, Holders
<1>2. ASSUME NEW t \in Threads, QueueBusy(t)
      PROVE  NumaBoundary'
  BY <1>2 DEF QueueBusy
<1>3. ASSUME NEW t \in Threads, SkipDevice(t)
      PROVE  NumaBoundary'
  BY <1>3 DEF SkipDevice
<1>4. ASSUME NEW t \in Threads, EnterDevice(t)
      PROVE  NumaBoundary'
  BY <1>4 DEF EnterDevice
<1>5. ASSUME NEW t \in Threads, Enqueue(t)
      PROVE  NumaBoundary'
  BY <1>5 DEF Enqueue, WalkInv, EnqueueAt, JobInv, Portals
<1>6. ASSUME NEW t \in Threads, Refused(t)
      PROVE  NumaBoundary'
  BY <1>6 DEF Refused
<1>7. ASSUME NEW t \in Threads, WildEnqueue(t)
      PROVE  NumaBoundary'
  BY <1>7 DEF WildEnqueue
<1>8. ASSUME NEW p \in Portals, NEW j \in Jobs, NEW s \in Completed, Complete(p, j, s)
      PROVE  NumaBoundary'
  BY <1>8 DEF Complete
<1>9. CASE UNCHANGED vars
  BY <1>9 DEF vars
<1>10. QED
  BY <1>1, <1>2, <1>3, <1>4, <1>5, <1>6, <1>7, <1>8, <1>9
     DEF Next, SubmitStep, DeviceStep

\* A step that leaves the locals of thread u alone keeps its part of WalkInv.
LEMMA WalkFrame ==
    ASSUME NEW u \in Threads, ScanAt(u), EnqueueAt(u), IdleAt(u),
           pc'[u] = pc[u], job'[u] = job[u], tried_devices'[u] = tried_devices[u],
           current_device_idx'[u] = current_device_idx[u],
           last_wq_idx'[u] = last_wq_idx[u], device'[u] = device[u],
           idx'[u] = idx[u], refused'[u] = refused[u],
           pc[u] # "idle" => own_numa_id'[job[u]] = own_numa_id[job[u]]
    PROVE  ScanAt(u)' /\ EnqueueAt(u)' /\ IdleAt(u)'
BY DEF ScanAt, EnqueueAt, IdleAt, QueuesOn

\* The device a thread enters becomes the nearest one behind its cursor, and
\* all others move one step away from it.
LEMMA BehindNext ==
    ASSUME NEW c \in Devices, NEW d \in Devices
    PROVE  /\ Behind(c, d) \in 0 .. DeviceCount - 1
           /\ Behind(NextDevice(c), c) = 0
           /\ d # c => Behind(NextDevice(c), d) = Behind(c, d) + 1
           /\ d # c => Behind(c, d) + 1 < DeviceCount
<1>1. DeviceCount \in Nat \ {0}
  BY ConfigAssumption
<1>2. QED
  BY <1>1, NextDeviceValue DEF Behind, Devices

\* Different devices are at different distances behind the cursor.
LEMMA BehindInjective ==
    ASSUME NEW c \in Devices, NEW d \in Devices, NEW e \in Devices,
           Behind(c, d) = Behind(c, e)
    PROVE  d = e
BY ConfigAssumption DEF Behind, Devices

\* Every step of a walk records exactly the queues that have refused so far.
LEMMA WalkStep ==
    TypeOK /\ JobInv /\ WalkInv /\ [Next]_vars => WalkInv'
<1> SUFFICES ASSUME TypeOK, JobInv, WalkInv, [Next]_vars
             PROVE  WalkInv'
  OBVIOUS
<1> USE ConfigAssumption
<1>1. ASSUME NEW t \in Threads, NEW j \in Jobs, NEW n \in Nodes \cup {AnyNode},
             NEW here \in Nodes, Submit(t, j, n, here)
      PROVE  WalkInv'
  <2>1. ASSUME NEW u \in Threads, u # t \/ ~hw_support
        PROVE  ScanAt(u)' /\ EnqueueAt(u)' /\ IdleAt(u)'
    <3>1. pc'[u] = pc[u] /\ job'[u] = job[u]
      BY <1>1, <2>1 DEF Submit, TypeOK
    <3>2. pc[u] # "idle" /\ job[u] \in Jobs => own_numa_id'[job[u]] = own_numa_id[job[u]]
      BY <1>1 DEF Submit, CallerOwns, TypeOK, JobInv
    <3>3. CASE pc[u] = "crashed" /\ job[u] \notin Jobs
      BY <3>1, <3>3 DEF ScanAt, EnqueueAt, IdleAt
    <3>4. CASE pc[u] = "idle" \/ job[u] \in Jobs
      BY <1>1, <3>1, <3>2, <3>4, WalkFrame DEF Submit, WalkInv
    <3>5. QED
      BY <3>3, <3>4 DEF TypeOK, JobInv
  <2>2. ASSUME hw_support
        PROVE  ScanAt(t)' /\ EnqueueAt(t)' /\ IdleAt(t)'
    <3>1. /\ pc'[t] = "scan" /\ tried_devices'[t] = 0 /\ refused'[t] = {}
          /\ current_device_idx'[t] = current_device_idx[t]
          /\ current_device_idx[t] \in Devices
      BY <1>1, <2>2 DEF Submit, TypeOK, WalkInv, IdleAt
    <3>2. \A p \in Portals : ~(Behind(current_device_idx[t], p[1]) < 0)
      BY <3>1, BehindNext, PortalPair, ConfigAssumption
    <3>3. QED
      BY <3>1, <3>2 DEF ScanAt, EnqueueAt, IdleAt, QueuesOn
  <2>3. QED
    BY <2>1, <2>2 DEF WalkInv
<1>2. ASSUME NEW t \in Threads, QueueBusy(t)
      PROVE  WalkInv'
  <2>1. ASSUME NEW u \in Threads, u # t
        PROVE  ScanAt(u)' /\ EnqueueAt(u)' /\ IdleAt(u)'
    BY <1>2, <2>1, WalkFrame DEF QueueBusy, Return, TypeOK, WalkInv
  <2>2. ScanAt(t)' /\ EnqueueAt(t)' /\ IdleAt(t)'
    BY <1>2 DEF QueueBusy, Return, TypeOK, ScanAt, EnqueueAt, IdleAt
  <2>3. QED
    BY <2>1, <2>2 DEF WalkInv
<1>3. ASSUME NEW t \in Threads, SkipDevice(t)
      PROVE  WalkInv'
  <2>1. ASSUME NEW u \in Threads, u # t
        PROVE  ScanAt(u)' /\ EnqueueAt(u)' /\ IdleAt(u)'
    BY <1>3, <2>1, WalkFrame DEF SkipDevice, TypeOK, WalkInv
  <2>2. ScanAt(t)' /\ EnqueueAt(t)' /\ IdleAt(t)'
    <3> DEFINE c == current_device_idx[t]
               Q == QueuesOn(own_numa_id[job[t]])
    <3>1. /\ pc'[t] = "scan" /\ pc[t] = "scan" /\ c \in Devices
          /\ tried_devices[t] \in Nat
          /\ tried_devices'[t] = tried_devices[t] + 1
          /\ current_device_idx'[t] = NextDevice(c)
          /\ refused' = refused /\ job' = job /\ own_numa_id' = own_numa_id
          /\ NumaId[c] # own_numa_id[job[t]]
      BY <1>3 DEF SkipDevice, TypeOK
    <3>2. refused[t] = {p \in Q : Behind(c, p[1]) < tried_devices[t]}
      BY <3>1 DEF WalkInv, ScanAt
    <3>3. \A p \in Q : /\ p[1] \in Devices /\ p[1] # c
                       /\ Behind(NextDevice(c), p[1]) = Behind(c, p[1]) + 1
                       /\ Behind(c, p[1]) \in Nat
      BY <3>1, BehindNext, PortalPair DEF QueuesOn
    <3>4. refused[t] = {p \in Q : Behind(NextDevice(c), p[1]) < tried_devices[t] + 1}
      BY <3>1, <3>2, <3>3
    <3>5. QED
      BY <3>1, <3>4 DEF ScanAt, EnqueueAt, IdleAt, QueuesOn
  <2>3. QED
    BY <2>1, <2>2 DEF WalkInv
<1>4. ASSUME NEW t \in Threads, EnterDevice(t)
      PROVE  WalkInv'
  <2>1. ASSUME NEW u \in Threads, u # t
        PROVE  ScanAt(u)' /\ EnqueueAt(u)' /\ IdleAt(u)'
    BY <1>4, <2>1, WalkFrame DEF EnterDevice, TypeOK, WalkInv
  <2>2. ScanAt(t)' /\ EnqueueAt(t)' /\ IdleAt(t)'
    <3> DEFINE c == current_device_idx[t]
               last == LastWq(t, c)
               Q == QueuesOn(own_numa_id[job[t]])
    <3>1. /\ pc'[t] = "enqueue" /\ pc[t] = "scan" /\ c \in Devices
          /\ tried_devices[t] \in Nat /\ tried_devices[t] < DeviceCount
          /\ tried_devices' = tried_devices
          /\ current_device_idx'[t] = NextDevice(c)
          /\ refused' = refused /\ job' = job /\ own_numa_id' = own_numa_id
          /\ device'[t] = c /\ last_wq_idx'[t] = last
          /\ idx'[t] = FirstQueue(last, c)
          /\ NumaId[c] = own_numa_id[job[t]]
      BY <1>4 DEF EnterDevice, TypeOK
    <3>2. refused[t] = {p \in Q : Behind(c, p[1]) < tried_devices[t]}
      BY <3>1 DEF WalkInv, ScanAt
    <3>3. /\ last \in 0 .. MaxQueues - 1
          /\ Walked(last, FirstQueue(last, c), c) = {}
          /\ FirstQueue(last, c) <= last \/ FirstQueue(last, c) < QueueCount[c]
      BY <3>1 DEF LastWq, FirstQueue, Walked, TypeOK, MaxQueues, Unset
    <3>4. \A p \in Q : /\ p[1] \in Devices
                       /\ Behind(c, p[1]) \in Nat
                       /\ p[1] # c => Behind(NextDevice(c), p[1]) = Behind(c, p[1]) + 1
      BY <3>1, BehindNext, PortalPair DEF QueuesOn
    <3>5. ~(Behind(c, c) < tried_devices[t]) /\ Behind(NextDevice(c), c) = 0
      BY <3>1, BehindNext DEF Behind, Devices
    <3> HIDE DEF Q
    <3>6. refused[t] = {p \in Q :
                           IF p[1] = c
                           THEN p[2] \in Walked(last, FirstQueue(last, c), p[1])
                           ELSE Behind(NextDevice(c), p[1]) \in 1 .. tried_devices[t]}
      <4> HIDE DEF c, last
      <4> QED BY <3>1, <3>2, <3>3, <3>4, <3>5
    <3>7. QED
      BY <3>1, <3>3, <3>5, <3>6 DEF ScanAt, EnqueueAt, IdleAt, QueuesOn, Q, Unset
  <2>3. QED
    BY <2>1, <2>2 DEF WalkInv
<1>5. ASSUME NEW t \in Threads, Enqueue(t)
      PROVE  WalkInv'
  <2>1. ASSUME NEW u \in Threads, u # t
        PROVE  ScanAt(u)' /\ EnqueueAt(u)' /\ IdleAt(u)'
    BY <1>5, <2>1, WalkFrame DEF Enqueue, Return, TypeOK, WalkInv
  <2>2. ScanAt(t)' /\ EnqueueAt(t)' /\ IdleAt(t)'
    BY <1>5 DEF Enqueue, Return, TypeOK, ScanAt, EnqueueAt, IdleAt
  <2>3. QED
    BY <2>1, <2>2 DEF WalkInv
<1>6. ASSUME NEW t \in Threads, Refused(t)
      PROVE  WalkInv'
  <2>1. ASSUME NEW u \in Threads, u # t
        PROVE  ScanAt(u)' /\ EnqueueAt(u)' /\ IdleAt(u)'
    BY <1>6, <2>1, WalkFrame DEF Refused, TypeOK, WalkInv
  <2>2. ScanAt(t)' /\ EnqueueAt(t)' /\ IdleAt(t)'
    <3> DEFINE c == current_device_idx[t]
               d == device[t]
               i == idx[t]
               last == last_wq_idx[t]
               k == tried_devices[t]
               Q == QueuesOn(own_numa_id[job[t]])
    <3>1. /\ pc[t] = "enqueue" /\ c \in Devices /\ d \in Devices
          /\ i \in 0 .. MaxQueues - 1 /\ last \in 0 .. MaxQueues - 1
          /\ k \in Nat /\ k < DeviceCount /\ i < QueueCount[d]
          /\ QueueCount[d] \in 1 .. MaxQueues
          /\ last_wq_idx' = last_wq_idx /\ device' = device
          /\ current_device_idx' = current_device_idx
          /\ job' = job /\ own_numa_id' = own_numa_id
          /\ refused'[t] = refused[t] \cup {<<d, i>>}
          /\ NumaId[d] = own_numa_id[job[t]]
          /\ Behind(c, d) = 0
      BY <1>6 DEF Refused, TypeOK, WalkInv, EnqueueAt, Initialised, Unset, MaxQueues
    <3>2. refused[t] = {p \in Q : IF p[1] = d
                                  THEN p[2] \in Walked(last, i, p[1])
                                  ELSE Behind(c, p[1]) \in 1 .. k}
      BY <3>1 DEF WalkInv, EnqueueAt
    <3>3. <<d, i>> \in Q
      BY <3>1 DEF QueuesOn, Portals, Initialised
    <3>4. \A p \in Q : /\ p[1] \in Devices /\ p = <<p[1], p[2]>>
                       /\ p[2] \in 0 .. QueueCount[p[1]] - 1
                       /\ Behind(c, p[1]) \in Nat
                       /\ p[1] # d => Behind(c, p[1]) # 0
      <4>1. \A p \in Q : p \in Portals /\ p[2] < QueueCount[p[1]]
        BY DEF QueuesOn, Initialised
      <4>2. \A e \in Devices : /\ QueueCount[e] \in 1 .. MaxQueues
                               /\ Behind(c, e) \in Nat
                               /\ e # d => Behind(c, e) # 0
        <5> HIDE DEF c, d
        <5> QED BY <3>1, BehindNext, BehindInjective
      <4> HIDE DEF Q
      <4>3. QED
        BY <4>1, <4>2, PortalPair DEF MaxQueues
    <3>5. CASE i = last
      <4>1. /\ pc'[t] = "scan" /\ tried_devices'[t] = k + 1
        BY <1>6, <3>5 DEF Refused, LastOfWalk, TypeOK
      <4>2. \A q \in 0 .. QueueCount[d] - 1 : q \in Walked(last, i, d) \/ q = i
        BY <3>1, <3>5 DEF Walked, MaxQueues
      <4>3. refused'[t] = {p \in Q : Behind(c, p[1]) < k + 1}
        <5> HIDE DEF Q, c, d, i, last, k
        <5> QED BY <3>1, <3>2, <3>3, <3>4, <4>2
      <4>4. QED
        BY <3>1, <4>1, <4>3 DEF ScanAt, EnqueueAt, IdleAt, QueuesOn
    <3>6. CASE i # last
      <4> DEFINE f == FollowingQueue(last, i, d)
      <4>1. /\ pc'[t] = "enqueue" /\ tried_devices'[t] = k /\ idx'[t] = f
        BY <1>6, <3>1, <3>6 DEF Refused, LastOfWalk, TypeOK
      <4>2. /\ f <= last \/ f < QueueCount[d]
            /\ Walked(last, f, d) = Walked(last, i, d) \cup {i}
        BY <3>1, <3>6 DEF FollowingQueue, Walked, MaxQueues
      <4>3. refused'[t] = {p \in Q : IF p[1] = d
                                     THEN p[2] \in Walked(last, f, p[1])
                                     ELSE Behind(c, p[1]) \in 1 .. k}
        <5> HIDE DEF Q, c, d, i, last, k, f
        <5> QED BY <3>1, <3>2, <3>3, <3>4, <4>2
      <4>4. QED
        BY <3>1, <4>1, <4>2, <4>3 DEF ScanAt, EnqueueAt, IdleAt, QueuesOn, Unset, MaxQueues
    <3>7. QED
      BY <3>5, <3>6
  <2>3. QED
    BY <2>1, <2>2 DEF WalkInv
<1>7. ASSUME NEW t \in Threads, WildEnqueue(t)
      PROVE  WalkInv'
  BY <1>7 DEF WildEnqueue, WalkInv, ScanAt, EnqueueAt, IdleAt
<1>8. ASSUME NEW p \in Portals, NEW j \in Jobs, NEW s \in Completed, Complete(p, j, s)
      PROVE  WalkInv'
  BY <1>8, WalkFrame DEF Complete, WalkInv
<1>9. CASE UNCHANGED vars
  BY <1>9, WalkFrame DEF vars, WalkInv
<1>10. QED
  BY <1>1, <1>2, <1>3, <1>4, <1>5, <1>6, <1>7, <1>8, <1>9
     DEF Next, SubmitStep, DeviceStep

-----------------------------------------------------------------------------
\* The inductive invariant holds in the initial states.
LEMMA InvInit == Init => IInv
<1> SUFFICES ASSUME Init PROVE IInv
  OBVIOUS
<1> USE ConfigAssumption
<1>1. TypeOK
  BY DEF Init, TypeOK, Devices, MaxQueues, Unset, Completed
<1>2. JobInv /\ WalkInv
  BY DEF Init, JobInv, WalkInv, ScanAt, EnqueueAt, IdleAt
<1>3. NumaBoundary /\ ExactlyOnce
  BY DEF Init, NumaBoundary, ExactlyOnce, Holders
<1>4. QED
  BY <1>1, <1>2, <1>3 DEF IInv

\* Every behaviour of the submission code keeps the inductive invariant.
THEOREM Invariance == Spec => []IInv
<1>1. IInv /\ [Next]_vars => IInv'
  BY TypeStep, JobStep, WalkStep, NumaStep, OnceStep DEF IInv
<1>2. QED
  BY InvInit, <1>1, PTL DEF Spec

\* Type correctness: device and queue cursors never leave the tables.
THEOREM TypeCorrect == Spec => []TypeOK
<1>1. IInv => TypeOK
  BY DEF IInv
<1>2. QED
  BY Invariance, <1>1, PTL

\* queue_busy is answered only after every queue of the node has refused.
THEOREM BusyOnlyWhenExhausted == Spec => []BusyIsExhaustive
<1>1. IInv => BusyIsExhaustive
  <2> SUFFICES ASSUME IInv, NEW t \in Threads, pc[t] = "scan",
                      tried_devices[t] = DeviceCount
               PROVE  refused[t] = QueuesOn(own_numa_id[job[t]])
    BY DEF BusyIsExhaustive
  <2> DEFINE c == current_device_idx[t]
             Q == QueuesOn(own_numa_id[job[t]])
  <2>1. c \in Devices /\ DeviceCount \in Nat
    BY ConfigAssumption DEF IInv, TypeOK
  <2>2. \A p \in Q : p \in Portals
    BY DEF QueuesOn
  <2>3. refused[t] = {p \in Q : Behind(c, p[1]) < DeviceCount}
    BY DEF IInv, WalkInv, ScanAt
  <2> HIDE DEF c, Q
  <2>4. \A p \in Q : Behind(c, p[1]) < DeviceCount
    BY <2>1, <2>2, BehindNext, PortalPair
  <2>5. refused[t] = Q
    BY <2>3, <2>4
  <2>6. QED
    BY <2>5 DEF Q
<1>2. QED
  BY Invariance, <1>1, PTL

\* Descriptors never cross the node boundary.
THEOREM NodeRespected == Spec => []NumaBoundary
<1>1. IInv => NumaBoundary
  BY DEF IInv
<1>2. QED
  BY Invariance, <1>1, PTL

\* An accepted descriptor is held by one queue until it is completed; any other
\* descriptor by none.
THEOREM HeldExactlyOnce == Spec => []ExactlyOnce
<1>1. IInv => ExactlyOnce
  BY DEF IInv
<1>2. QED
  BY Invariance, <1>1, PTL

-----------------------------------------------------------------------------
\* Where all devices have the same number of queues, last_wq_idx is a queue of
\* every device.
CursorInv == \A t \in Threads :
    /\ last_wq_idx[t] # Unset => \A d \in Devices : last_wq_idx[t] < QueueCount[d]
    /\ pc[t] = "enqueue" => idx[t] < QueueCount[device[t]]

\* On a machine whose devices all have the same number of work queues no
\* ENQCMD ever goes through an uninitialised queue object.
THEOREM UniformPortalSafe ==
    ASSUME \A d, e \in Devices : QueueCount[d] = QueueCount[e]
    PROVE  Spec => []PortalSafe
<1> USE ConfigAssumption
<1>1. Init => CursorInv
  BY DEF Init, CursorInv, Unset
<1>2. IInv /\ CursorInv /\ [Next]_vars => CursorInv'
  <2> SUFFICES ASSUME TypeOK, WalkInv, CursorInv, [Next]_vars
               PROVE  CursorInv'
    BY DEF IInv
  <2> USE DEF TypeOK, CursorInv, Unset, MaxQueues
  <2>1. ASSUME NEW t \in Threads, NEW j \in Jobs, NEW n \in Nodes \cup {AnyNode},
               NEW here \in Nodes, Submit(t, j, n, here)
        PROVE  CursorInv'
    BY <2>1 DEF Submit
  <2>2. ASSUME NEW t \in Threads, QueueBusy(t) \/ SkipDevice(t)
        PROVE  CursorInv'
    BY <2>2 DEF QueueBusy, Return, SkipDevice
  <2>3. ASSUME NEW t \in Threads, EnterDevice(t)
        PROVE  CursorInv'
    <3> DEFINE c == current_device_idx[t]
    <3>1. c \in Devices /\ \A d \in Devices : QueueCount[d] = QueueCount[c]
      OBVIOUS
    <3>2. LastWq(t, c) \in Int /\ \A d \in Devices : LastWq(t, c) < QueueCount[d]
      BY <3>1 DEF LastWq
    <3>3. FirstQueue(LastWq(t, c), c) < QueueCount[c]
      BY <3>1, <3>2 DEF FirstQueue
    <3>4. QED
      BY <2>3, <3>2, <3>3 DEF EnterDevice
  <2>4. ASSUME NEW t \in Threads, Enqueue(t)
        PROVE  CursorInv'
    BY <2>4 DEF Enqueue, Return
  <2>5. ASSUME NEW t \in Threads, Refused(t)
        PROVE  CursorInv'
    <3> DEFINE last == last_wq_idx[t]
               f == FollowingQueue(last, idx[t], device[t])
    <3>1. last \in 0 .. 7 /\ last < QueueCount[device[t]] /\ idx[t] \in 0 .. 7
      BY <2>5 DEF Refused, WalkInv, EnqueueAt
    <3>2. idx[t] # last => f < QueueCount[device[t]]
      BY <3>1 DEF FollowingQueue
    <3>3. QED
      BY <2>5, <3>2 DEF Refused, LastOfWalk
  <2>6. ASSUME NEW t \in Threads, WildEnqueue(t)
        PROVE  CursorInv'
    BY <2>6 DEF WildEnqueue
  <2>7. ASSUME NEW p \in Portals, NEW j \in Jobs, NEW s \in Completed, Complete(p, j, s)
        PROVE  CursorInv'
    BY <2>7 DEF Complete
  <2>8. CASE UNCHANGED vars
    BY <2>8 DEF vars
  <2> HIDE DEF TypeOK, CursorInv
  <2>9. QED
    BY <2>1, <2>2, <2>3, <2>4, <2>5, <2>6, <2>7, <2>8
       DEF Next, SubmitStep, DeviceStep
<1>3. CursorInv => PortalSafe
  BY DEF CursorInv, PortalSafe, Initialised
<1>4. QED
  BY Invariance, <1>1, <1>2, <1>3, PTL DEF Spec

-----------------------------------------------------------------------------
\* The submission code implements the abstract accelerator.
THEOREM Refinement == Spec => AcceleratorSpec
<1>1. Init => Abstract!Init
  BY DEF Init, Abstract!Init
<1>2. IInv /\ [Next]_vars => [Abstract!Next]_(Abstract!vars)
  <2> SUFFICES ASSUME TypeOK, JobInv, ExactlyOnce, [Next]_vars
               PROVE  [Abstract!Next]_(Abstract!vars)
    BY DEF IInv
  <2> USE ConfigAssumption DEF Abstract!vars, Abstract!Next
  <2>1. ASSUME NEW t \in Threads, NEW j \in Jobs, NEW n \in Nodes \cup {AnyNode},
               NEW here \in Nodes, Submit(t, j, n, here)
        PROVE  Abstract!Begin(j)
    BY <2>1 DEF Submit, CallerOwns, Abstract!Begin
  <2>2. ASSUME NEW t \in Threads, QueueBusy(t) \/ Enqueue(t)
        PROVE  job[t] \in Jobs /\ Abstract!Answer(job[t])
    <3>1. job[t] \in Jobs /\ phase[job[t]] = "submitting"
      BY <2>2 DEF QueueBusy, Enqueue, JobInv
    <3>2. /\ record' = record
          /\ \E p \in {"accepted", "queue_busy"} : phase' = [phase EXCEPT ![job[t]] = p]
      BY <2>2 DEF QueueBusy, Enqueue, Return
    <3>3. QED
      BY <3>1, <3>2 DEF Abstract!Answer
  <2>3. ASSUME NEW t \in Threads, EnterDevice(t)
        PROVE  UNCHANGED <<phase, record>>
    BY <2>3 DEF EnterDevice, JobInv, ExactlyOnce, TypeOK, InProgress
  <2>4. ASSUME NEW t \in Threads, SkipDevice(t) \/ Refused(t) \/ WildEnqueue(t)
        PROVE  UNCHANGED <<phase, record>>
    BY <2>4 DEF SkipDevice, Refused, WildEnqueue
  <2>5. ASSUME NEW p \in Portals, NEW j \in Jobs, NEW s \in Completed, Complete(p, j, s)
        PROVE  Abstract!Finish(j)
    BY <2>5 DEF Complete, ExactlyOnce, Holders, Abstract!Finish
  <2>6. CASE UNCHANGED vars
    BY <2>6 DEF vars
  <2>7. QED
    BY <2>1, <2>2, <2>3, <2>4, <2>5, <2>6 DEF Next, SubmitStep, DeviceStep
<1>3. QED
  BY Invariance, <1>1, <1>2, PTL DEF Spec, AcceleratorSpec, Abstract!Spec

-----------------------------------------------------------------------------
(* Waiting. *)

\* A step of HwWait is one of HwSubmit or leaves its variables alone.
LEMMA WaitStepIsStep == [WaitNext]_allVars => [Next]_vars
<1> SUFFICES ASSUME [WaitNext]_allVars PROVE [Next]_vars
  OBVIOUS
<1>1. CASE CallerSubmits
  BY <1>1 DEF CallerSubmits, Next
<1>2. CASE \E t \in Threads : SubmitStep(t) /\ UNCHANGED waitVars
  BY <1>2 DEF Next
<1>3. CASE \E j \in Jobs : DeviceCompletes(j)
  BY <1>3 DEF DeviceCompletes, Next, DeviceStep
<1>4. CASE \E t \in Threads, j \in Jobs, mode \in BOOLEAN : WaitCall(t, j, mode)
  BY <1>4 DEF WaitCall
<1>5. CASE \E t \in Threads : WaitStep(t)
  BY <1>5 DEF WaitStep, WaitReturn, CheckedBusy, Monitor, WakeOnStore, WakeOnTimeout
<1>6. CASE UNCHANGED allVars
  BY <1>6 DEF allVars
<1> QED  BY <1>1, <1>2, <1>3, <1>4, <1>5, <1>6 DEF WaitNext

\* hardware::wait only reads the completion record: with waiting threads, by busy
\* poll or umwait, submission is what it is without them.
THEOREM WaitOnlyReads == WaitSpec => Spec
<1>1. WaitInit => Init
  BY DEF WaitInit
<1> QED  BY <1>1, WaitStepIsStep, PTL DEF WaitSpec, Spec

WaitVarsType ==
    /\ wpc \in [Threads -> {"no", "check", "arm", "asleep"}]
    /\ wjob \in [Threads -> Jobs \cup {NoJob}]
    /\ umwait \in [Threads -> BOOLEAN]
    /\ triggered \in [Threads -> BOOLEAN]

\* The variables of submission and wait stay within their types.
THEOREM WaitTypeCorrect == WaitSpec => []WaitTypeOK
<1>1. WaitInit => WaitVarsType
  BY DEF WaitInit, WaitVarsType
<1>2. WaitVarsType /\ [WaitNext]_allVars => WaitVarsType'
  <2> SUFFICES ASSUME WaitVarsType, [WaitNext]_allVars PROVE WaitVarsType'
    OBVIOUS
  <2> USE DEF WaitVarsType
  <2>1. CASE UNCHANGED waitVars
    BY <2>1 DEF waitVars
  <2>2. CASE \E j \in Jobs : DeviceCompletes(j)
    BY <2>2 DEF DeviceCompletes
  <2>3. ASSUME NEW t \in Threads, NEW j \in Jobs, NEW mode \in BOOLEAN, WaitCall(t, j, mode)
        PROVE  WaitVarsType'
    BY <2>3 DEF WaitCall
  <2>4. ASSUME NEW t \in Threads, WaitStep(t)
        PROVE  WaitVarsType'
    BY <2>4 DEF WaitStep, WaitReturn, CheckedBusy, Monitor, WakeOnStore, WakeOnTimeout
  <2>5. CASE CallerSubmits \/ UNCHANGED allVars
    BY <2>1, <2>5 DEF CallerSubmits, allVars
  <2> QED  BY <2>1, <2>2, <2>3, <2>4, <2>5 DEF WaitNext
<1>3. TypeOK /\ WaitVarsType => WaitTypeOK
  BY DEF WaitTypeOK, WaitVarsType
<1> QED  BY <1>1, <1>2, <1>3, WaitOnlyReads, TypeCorrect, PTL DEF WaitSpec
=============================================================================
