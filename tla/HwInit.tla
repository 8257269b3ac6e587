------------------------------- MODULE HwInit -------------------------------
(***************************************************************************)
(* Discovery of the accelerators: the constructor of hw_dispatcher loads    *)
(* the accel-config library, opens a context, walks the devices and their  *)
(* work queues and keeps what it can use in fixed arrays; the destructor    *)
(* gives everything back.  What the platform offers, and which of the       *)
(* calls fail, is the environment, fixed when the process starts.          *)
(*                                                                         *)
(* A portal is the mapping of one work queue, named by the positions of     *)
(* device and queue in the library's lists.  memory_type_, which nothing   *)
(* reads, the capability register and the device names are left out.       *)
(***************************************************************************)
EXTENDS Integers, Sequences, FiniteSets, Functions

CONSTANTS
    Environments,  \* the platforms, see Environment
    MaxDevices,    \* MAX_DEVICE_COUNT: size of hw_dispatcher::devices_
    MaxQueues      \* MAX_WORK_QUEUE_COUNT: size of hw_device::working_queues_

\* The first check of initialize_new_queue that a work queue fails, or none.
Failures == {"none", "disabled", "dedicated", "path", "open", "mmap", "group"}

WorkQueue == [fails : Failures, priority : Nat]

\* name contains "dsa", major version at most 2, state enabled: one flag each.
Device == [dsa : BOOLEAN, supported : BOOLEAN, enabled : BOOLEAN,
           numa : Nat, wqs : Seq(WorkQueue)]

\* library: not installed, without one of the functions of the table, or fit.
Environment == [library : {"absent", "incompatible", "fit"},
                context : BOOLEAN, devices : Seq(Device)]

ASSUME InitAssumption ==
    /\ Environments \subseteq Environment
    /\ MaxDevices \in Nat \ {0}
    /\ MaxQueues \in Nat \ {0}

VARIABLES
    env,        \* the platform
    pc,         \* where initialize_hw is
    library,    \* hw_driver_: "closed" or "loaded"
    context,    \* "none", "open": accfg_new succeeded, "kept": in hw_context_
    dev, wq,    \* positions of dev_tmp_ptr and wq_ptr
    slot,       \* device_it
    devices,    \* devices_: node and initialised queues of each slot
    mapped,     \* portals that are mapped into the process
    status      \* hw_init_status_

vars == <<env, pc, library, context, dev, wq, slot, devices, mapped, status>>

Slots == 0 .. MaxDevices - 1
Portals == (Nat \ {0}) \X (Nat \ {0})
Queue == [portal : Portals, priority : Nat]

Working == {"driver", "context", "devices", "queues"}
Crashed == {"bad_call", "overrun"}

-----------------------------------------------------------------------------

\* The members of a new dispatcher, before initialize_hw.
Init ==
    /\ env \in Environments
    /\ pc = "driver"
    /\ library = "closed"
    /\ context = "none"
    /\ dev = 1 /\ wq = 1 /\ slot = 0
    /\ devices = [s \in Slots |-> [numa |-> 0, queues |-> <<>>]]
    /\ mapped = {}
    /\ status = "none"

\* own_load_configuration_functions stops at the first name dlsym cannot find.
LoadFunctions == env.library = "fit"

\* initialize_accelerator_driver: a library without one of the functions is
\* closed again, but the status stays that of dlopen.
LoadDriver ==
    /\ pc = "driver"
    /\ IF env.library = "absent"
       THEN pc' = "failed" /\ status' = "LIBACCEL_NOT_FOUND" /\ UNCHANGED library
       ELSE /\ library' = IF LoadFunctions THEN "loaded" ELSE "closed"
            /\ pc' = "context" /\ UNCHANGED status
    /\ UNCHANGED <<env, context, dev, wq, slot, devices, mapped>>

\* Every wrapper calls through functions_table: with the library closed the
\* entry is NULL or points into code that is no longer mapped.
Callable == library = "loaded"

\* driver_new_context, then the first device of the context.
NewContext ==
    /\ pc = "context"
    /\ \/ ~Callable /\ pc' = "bad_call" /\ UNCHANGED <<context, status>>
       \/ /\ Callable /\ env.context
          /\ context' = "open" /\ pc' = "devices" /\ UNCHANGED status
       \/ /\ Callable /\ ~env.context
          /\ pc' = "failed" /\ status' = "LIBACCEL_ERROR" /\ UNCHANGED context
    /\ UNCHANGED <<env, library, dev, wq, slot, devices, mapped>>

HasDevice == dev <= Len(env.devices)
HasQueue == wq <= Len(env.devices[dev].wqs)

Fit(d) == d.dsa /\ d.supported /\ d.enabled

\* initialize_new_device up to its queues.  It writes to *device_it before its
\* first check, so calling it behind the last slot ends outside the array.
InitDevice ==
    /\ pc = "devices" /\ HasDevice
    /\ \/ slot = MaxDevices /\ pc' = "overrun" /\ UNCHANGED <<dev, wq, devices>>
       \/ /\ slot < MaxDevices /\ ~Fit(env.devices[dev])
          /\ dev' = dev + 1 /\ UNCHANGED <<pc, wq, devices>>
       \/ /\ slot < MaxDevices /\ Fit(env.devices[dev])
          /\ devices' = [devices EXCEPT ![slot].numa = env.devices[dev].numa]
          /\ wq' = 1 /\ pc' = "queues" /\ UNCHANGED dev
    /\ UNCHANGED <<env, library, context, slot, mapped, status>>

Portal == <<dev, wq>>

\* portal_ptr_ = nullptr
NoPortal == <<0, 0>>

\* Bug: the object that a queue was moved from keeps the portal.
MoveKeepingPortal(q) == [to |-> q, from |-> q]

\* The move constructor and the move assignment of hw_queue: the object that is
\* moved to, and the one that is moved from, afterwards.
Move(q) == [to |-> q, from |-> [q EXCEPT !.portal = NoPortal]]

\* push_heap and sort_heap move every queue through a temporary; the destructor
\* of what was moved from unmaps the portal that it still has.
Released(queues) == {Move(queues[i]).from.portal : i \in DOMAIN queues} \ {NoPortal}

\* Bug: a queue that fails is tried again.
InitQueueRetries ==
    /\ pc = "queues" /\ HasQueue
    /\ LET w == env.devices[dev].wqs[wq]
       IN  /\ mapped' = IF w.fails \in {"none", "group"} THEN mapped \cup {Portal} ELSE mapped
           /\ IF w.fails = "none" /\ Len(devices[slot].queues) = MaxQueues
              THEN pc' = "overrun" /\ UNCHANGED <<wq, devices>>
              ELSE /\ devices' = IF w.fails # "none" THEN devices
                                 ELSE [devices EXCEPT ![slot].queues =
                                         Append(@, [portal |-> Portal, priority |-> w.priority])]
                   /\ wq' = IF w.fails = "none" THEN wq + 1 ELSE wq
                   /\ UNCHANGED pc
    /\ UNCHANGED <<env, library, context, dev, slot, status>>

\* Bug: the slot of a queue is its place in the library's list.
InitQueueByPlace ==
    /\ pc = "queues" /\ HasQueue
    /\ LET w == env.devices[dev].wqs[wq]
       IN  /\ mapped' = IF w.fails \in {"none", "group"} THEN mapped \cup {Portal} ELSE mapped
           /\ IF w.fails # "none"
              THEN wq' = wq + 1 /\ UNCHANGED <<pc, devices>>
              ELSE IF wq > MaxQueues
              THEN pc' = "overrun" /\ UNCHANGED <<wq, devices>>
              ELSE /\ devices' = [devices EXCEPT ![slot].queues =
                                    Append(@, [portal |-> Portal, priority |-> w.priority])]
                   /\ wq' = wq + 1 /\ UNCHANGED pc
    /\ UNCHANGED <<env, library, context, dev, slot, status>>

\* initialize_new_queue, push_heap and the step to the next slot and queue.  A
\* queue that fails its last check, the group, has been mapped already.  (The
\* order of the heap shows in nothing but the order that sort_heap leaves.)
InitQueue ==
    /\ pc = "queues" /\ HasQueue
    /\ LET w == env.devices[dev].wqs[wq]
           new == [portal |-> Portal, priority |-> w.priority]
           taken == Len(devices[slot].queues)
       IN  /\ mapped' = IF w.fails = "group" THEN mapped \cup {Portal}
                        ELSE IF w.fails = "none" THEN (mapped \cup {Portal}) \ Released(<<new>>)
                        ELSE mapped
           /\ IF w.fails # "none"
              THEN wq' = wq + 1 /\ UNCHANGED <<pc, devices>>
              ELSE IF taken = MaxQueues
              THEN pc' = "overrun" /\ UNCHANGED <<wq, devices>>
              ELSE /\ devices' = [devices EXCEPT ![slot].queues = Append(@, Move(new).to)]
                   /\ wq' = wq + 1 /\ UNCHANGED pc
    /\ UNCHANGED <<env, library, context, dev, slot, status>>

\* Bug: the queues stay in the order of discovery.
Unsorted(queues) == {queues}

\* sort_heap moves the queues to an order of rising priority; among equals the
\* standard library chooses.
Sorted(queues) ==
    LET n == Len(queues)
    IN  {s \in {[i \in 1 .. n |-> Move(queues[p[i]]).to] : p \in Bijection(1 .. n, 1 .. n)} :
            \A i, j \in 1 .. n : i < j => s[i].priority <= s[j].priority}

\* The end of initialize_new_device: sort, count, and the step to the next
\* slot if there is a queue.
FinishDevice ==
    /\ pc = "queues" /\ ~HasQueue
    /\ \E s \in Sorted(devices[slot].queues) :
          devices' = [devices EXCEPT ![slot].queues = s]
    /\ mapped' = mapped \ Released(devices[slot].queues)
    /\ slot' = IF Len(devices[slot].queues) = 0 THEN slot ELSE slot + 1
    /\ dev' = dev + 1 /\ pc' = "devices"
    /\ UNCHANGED <<env, library, context, wq, status>>

\* The end of initialize_hw: without a device the context is forgotten.
FinishInit ==
    /\ pc = "devices" /\ ~HasDevice
    /\ \/ slot = 0 /\ pc' = "failed" /\ status' = "WORK_QUEUES_NOT_AVAILABLE" /\ UNCHANGED context
       \/ slot > 0 /\ pc' = "ready" /\ status' = "OK" /\ context' = "kept"
    /\ UNCHANGED <<env, library, dev, wq, slot, devices, mapped>>

\* Portals of the queue objects.
HeldBy(s) == {devices[s].queues[i].portal : i \in DOMAIN devices[s].queues}
Held == UNION {HeldBy(s) : s \in Slots}

\* Bug: the queue objects do not unmap their portals.
DestroyKeepsMappings ==
    /\ pc \in {"ready", "failed"}
    /\ pc' = "exit"
    /\ context' = IF context = "kept" THEN "none" ELSE context
    /\ library' = "closed"
    /\ devices' = [s \in Slots |-> [devices[s] EXCEPT !.queues = <<>>]]
    /\ UNCHANGED <<env, dev, wq, slot, mapped, status>>

\* ~hw_dispatcher: the stored context, the library, then the queue objects.
Destroy ==
    /\ pc \in {"ready", "failed"}
    /\ pc' = "exit"
    /\ context' = IF context = "kept" THEN "none" ELSE context
    /\ library' = "closed"
    /\ mapped' = mapped \ Held
    /\ devices' = [s \in Slots |-> [devices[s] EXCEPT !.queues = <<>>]]
    /\ UNCHANGED <<env, dev, wq, slot, status>>

Next ==
    \/ LoadDriver \/ NewContext \/ InitDevice \/ InitQueue
    \/ FinishDevice \/ FinishInit \/ Destroy

\* The constructor runs in one thread to its end.
Spec == Init /\ [][Next]_vars /\ WF_vars(Next)

-----------------------------------------------------------------------------
TypeOK ==
    /\ env \in Environment
    /\ pc \in Working \cup Crashed \cup {"ready", "failed", "exit"}
    /\ library \in {"closed", "loaded"}
    /\ context \in {"none", "open", "kept"}
    /\ dev \in Nat \ {0} /\ wq \in Nat \ {0} /\ slot \in 0 .. MaxDevices
    /\ devices \in [Slots -> [numa : Nat, queues : Seq(Queue)]]
    /\ mapped \subseteq Portals
    /\ status \in {"none", "OK", "LIBACCEL_NOT_FOUND", "LIBACCEL_ERROR",
                   "WORK_QUEUES_NOT_AVAILABLE"}

\* What initialisation should find: the queues of a device that pass every
\* check, and the devices that have one.
UsableQueues(d) == {w \in DOMAIN env.devices[d].wqs : env.devices[d].wqs[w].fails = "none"}
UsableDevices == {d \in DOMAIN env.devices : Fit(env.devices[d]) /\ UsableQueues(d) # {}}

\* The table submit works on: when the hardware path is offered, slot s holds
\* the usable device with s usable ones before it, with its node and exactly its
\* usable queues, once each and in an order of rising priority.  This is the
\* configuration HwSubmit assumes.
ReadyTable ==
    pc = "ready" =>
        /\ slot = Cardinality(UsableDevices) /\ slot > 0
        /\ \A d \in UsableDevices :
              LET s == Cardinality({e \in UsableDevices : e < d})
                  q == devices[s].queues
              IN  /\ devices[s].numa = env.devices[d].numa
                  /\ Len(q) = Cardinality(UsableQueues(d)) /\ Len(q) \in 1 .. MaxQueues
                  /\ HeldBy(s) = {<<d, w>> : w \in UsableQueues(d)}
                  /\ \A i \in DOMAIN q : q[i].priority = env.devices[d].wqs[q[i].portal[2]].priority
                  /\ \A i, j \in DOMAIN q : i < j => q[i].priority <= q[j].priority

\* The portal of a queue object is mapped until the object is destroyed, and no
\* two queue objects have the same, however the heap functions moved them: an
\* ENQCMD never goes to an unmapped page or to the queue of another object.
PortalOwnership ==
    /\ Held \subseteq mapped
    /\ \A s, t \in Slots : \A i \in DOMAIN devices[s].queues, j \in DOMAIN devices[t].queues :
          devices[s].queues[i].portal = devices[t].queues[j].portal => s = t /\ i = j

\* The queues whose mapping initialize_new_queue forgets when it fails late.
Forgotten(p) == p[1] \in DOMAIN env.devices /\ env.devices[p[1]].wqs[p[2]].fails = "group"

\* The destructor gives back everything but the mappings of queues without a
\* group and the context of an initialisation that found no device.
CleanExit ==
    pc = "exit" =>
        /\ library = "closed"
        /\ \A p \in mapped : Forgotten(p)
        /\ context # "none" => context = "open" /\ UsableDevices = {}

\* Initialisation leaves its fixed arrays only on a platform that lists a device
\* after the last one that fits, or a device with more usable queues than fit,
\* and calls through an entry that was not resolved only if the library that is
\* installed lacks a function: never without a library or with a fit one.
FaultsOnlyOutsideLimits ==
    /\ pc = "overrun" =>
        \/ \E d \in DOMAIN env.devices :
              Cardinality({e \in UsableDevices : e < d}) >= MaxDevices
        \/ \E d \in DOMAIN env.devices : Cardinality(UsableQueues(d)) > MaxQueues
    /\ pc = "bad_call" => env.library = "incompatible"

\* The constructor comes to an end on every platform.
InitEnds == <>(pc \notin Working)

\* dmldefs.h documents LIBACCEL_ERROR for a driver whose API is incompatible:
\* the library never calls into such a driver.
IncompatibleReported == pc # "bad_call"
=============================================================================
