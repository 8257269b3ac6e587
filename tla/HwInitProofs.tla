---------------------------- MODULE HwInitProofs ----------------------------
(***************************************************************************)
(* Safety of HwInit for every platform and every size of the fixed arrays.  *)
(***************************************************************************)
EXTENDS HwInit, TLAPS, FiniteSetTheorems

\* The usable devices before device d, the usable queues of d before queue w.
Below(S, n) == {e \in S : e < n}
Before(d) == Below(UsableDevices, d)
QueuesBefore(d, w) == Below(UsableQueues(d), w)

\* What a step of initialize_hw finds of library, context and platform.
ProgressInv ==
    /\ pc \in {"driver", "context"} =>
          /\ context = "none" /\ dev = 1 /\ slot = 0
          /\ \A s \in Slots : devices[s].queues = <<>>
    /\ pc \in {"devices", "queues"} => context = "open" /\ library = "loaded"
    /\ pc \in {"devices", "queues"} => dev <= Len(env.devices) + 1
    /\ pc = "queues" => HasDevice /\ Fit(env.devices[dev]) /\ slot < MaxDevices
    /\ pc = "context" => library = "loaded" \/ env.library = "incompatible"
    /\ pc = "ready" => context = "kept" /\ slot > 0 /\ dev = Len(env.devices) + 1
    /\ pc = "failed" => context = "none" \/ (context = "open" /\ UsableDevices = {})

\* The queues of the slots so far come from the devices so far.
PlaceInv ==
    \A s \in Slots : \A i \in DOMAIN devices[s].queues :
        LET p == devices[s].queues[i].portal
        IN  \/ s < slot /\ p[1] < dev
            \/ s = slot /\ pc \in {"queues", "overrun"} /\ p[1] = dev /\ p[2] < wq

\* A mapping without a queue object is one of those that are forgotten.
MappedInv == pc # "overrun" => \A p \in mapped : p \in Held \/ Forgotten(p)

\* Slot s has the node of device d and its usable queues before w.
Holds(s, d, w) ==
    LET q == devices[s].queues
    IN  /\ devices[s].numa = env.devices[d].numa
        /\ Len(q) = Cardinality(QueuesBefore(d, w)) /\ Len(q) <= MaxQueues
        /\ HeldBy(s) = {<<d, v>> : v \in QueuesBefore(d, w)}
        /\ \A i \in DOMAIN q : q[i].priority = env.devices[d].wqs[q[i].portal[2]].priority

Rising(s) ==
    LET q == devices[s].queues
    IN  \A i, j \in DOMAIN q : i < j => q[i].priority <= q[j].priority

Last(d) == Len(env.devices[d].wqs) + 1

\* The slots are filled one usable device after the other.
TableInv ==
    /\ pc \in {"devices", "queues", "ready"} =>
          /\ slot = Cardinality(Before(dev))
          /\ \A d \in Before(dev) :
                Holds(Cardinality(Before(d)), d, Last(d)) /\ Rising(Cardinality(Before(d)))
    /\ pc = "queues" => wq <= Last(dev) /\ Holds(slot, dev, wq)

IInv ==
    /\ TypeOK
    /\ ProgressInv
    /\ PlaceInv
    /\ PortalOwnership
    /\ MappedInv
    /\ TableInv
    /\ CleanExit
    /\ FaultsOnlyOutsideLimits

-----------------------------------------------------------------------------
(* The platform and what is usable of it. *)

\* Devices and queues are lists of what accel-config reports.
LEMMA PlatformType ==
    ASSUME TypeOK
    PROVE  /\ Len(env.devices) \in Nat /\ DOMAIN env.devices = 1 .. Len(env.devices)
           /\ \A d \in 1 .. Len(env.devices) :
                /\ env.devices[d] \in Device
                /\ Len(env.devices[d].wqs) \in Nat
                /\ DOMAIN env.devices[d].wqs = 1 .. Len(env.devices[d].wqs)
                /\ \A w \in 1 .. Len(env.devices[d].wqs) : env.devices[d].wqs[w] \in WorkQueue
<1>1. env.devices \in Seq(Device)
  BY DEF TypeOK, Environment
<1>2. Len(env.devices) \in Nat /\ DOMAIN env.devices = 1 .. Len(env.devices)
  BY <1>1
<1>3. ASSUME NEW d \in 1 .. Len(env.devices)
      PROVE  /\ env.devices[d] \in Device
             /\ Len(env.devices[d].wqs) \in Nat
             /\ DOMAIN env.devices[d].wqs = 1 .. Len(env.devices[d].wqs)
             /\ \A w \in 1 .. Len(env.devices[d].wqs) : env.devices[d].wqs[w] \in WorkQueue
  <2>1. env.devices[d] \in Device
    BY <1>1
  <2>2. env.devices[d].wqs \in Seq(WorkQueue)
    BY <2>1 DEF Device
  <2> QED  BY <2>1, <2>2
<1> QED  BY <1>2, <1>3

\* There are finitely many usable devices and queues.
LEMMA UsableFinite ==
    ASSUME TypeOK
    PROVE  /\ IsFiniteSet(UsableDevices) /\ UsableDevices \subseteq 1 .. Len(env.devices)
           /\ \A d \in 1 .. Len(env.devices) :
                /\ IsFiniteSet(UsableQueues(d))
                /\ UsableQueues(d) \subseteq 1 .. Len(env.devices[d].wqs)
<1>1. UsableDevices \subseteq 1 .. Len(env.devices)
  BY PlatformType DEF UsableDevices
<1>2. IsFiniteSet(UsableDevices)
  <2>1. 1 \in Int /\ Len(env.devices) \in Int
    BY PlatformType
  <2> QED  BY <1>1, <2>1, FS_Interval, FS_Subset
<1>3. ASSUME NEW d \in 1 .. Len(env.devices)
      PROVE  /\ IsFiniteSet(UsableQueues(d))
             /\ UsableQueues(d) \subseteq 1 .. Len(env.devices[d].wqs)
  <2>1. UsableQueues(d) \subseteq 1 .. Len(env.devices[d].wqs)
    BY PlatformType DEF UsableQueues
  <2>2. 1 \in Int /\ Len(env.devices[d].wqs) \in Int
    BY PlatformType
  <2> QED  BY <2>1, <2>2, FS_Interval, FS_Subset
<1> QED  BY <1>1, <1>2, <1>3

\* Going on by one element counts it if it is of the set.
LEMMA CountOneMore ==
    ASSUME NEW S \in SUBSET Nat, IsFiniteSet(S), NEW n \in Nat
    PROVE  /\ IsFiniteSet(Below(S, n)) /\ Cardinality(Below(S, n)) \in Nat
           /\ Below(S, n + 1) = IF n \in S THEN Below(S, n) \cup {n} ELSE Below(S, n)
           /\ Cardinality(Below(S, n + 1)) =
                 IF n \in S THEN Cardinality(Below(S, n)) + 1 ELSE Cardinality(Below(S, n))
<1>1. Below(S, n) \in SUBSET S /\ n \notin Below(S, n)
  BY DEF Below
<1>2. Below(S, n + 1) = IF n \in S THEN Below(S, n) \cup {n} ELSE Below(S, n)
  <2>1. \A e \in S : e \in Nat
    OBVIOUS
  <2>2. \A e \in S : e < n + 1 <=> e < n \/ e = n
    BY <2>1
  <2> QED  BY <2>2 DEF Below
<1>3. IsFiniteSet(Below(S, n))
  BY <1>1, FS_Subset
<1>4. Cardinality(Below(S, n)) \in Nat
  BY <1>3, FS_CardinalityType
<1>5. Cardinality(Below(S, n) \cup {n}) = Cardinality(Below(S, n)) + 1
  BY <1>1, <1>3, FS_AddElement
<1> QED  BY <1>2, <1>3, <1>4, <1>5

\* An element behind others has more elements before it.
LEMMA CountRises ==
    ASSUME NEW S \in SUBSET Nat, IsFiniteSet(S), NEW n \in Nat, NEW m \in S, m < n
    PROVE  Cardinality(Below(S, m)) < Cardinality(Below(S, n))
<1>1. \A e \in S : e \in Nat
  OBVIOUS
<1>2. (\A e \in S : e < m => e < n) /\ ~(m < m)
  BY <1>1
<1>3. Below(S, m) \in SUBSET Below(S, n)
  BY <1>2 DEF Below
<1>4. m \in Below(S, n) /\ m \notin Below(S, m)
  BY <1>2 DEF Below
<1>5. IsFiniteSet(Below(S, n)) /\ IsFiniteSet(Below(S, m))
  BY <1>1, CountOneMore
<1>6. /\ Cardinality(Below(S, m)) <= Cardinality(Below(S, n))
      /\ Cardinality(Below(S, m)) # Cardinality(Below(S, n))
  BY <1>3, <1>4, <1>5, FS_Subset
<1>7. Cardinality(Below(S, n)) \in Nat /\ Cardinality(Below(S, m)) \in Nat
  BY <1>5, FS_CardinalityType
<1> QED  BY <1>6, <1>7

\* The next device counts if it is usable, and so does the next queue.
LEMMA NextDevice ==
    ASSUME TypeOK, NEW d \in Nat
    PROVE  /\ IsFiniteSet(Before(d)) /\ Cardinality(Before(d)) \in Nat
           /\ Before(d + 1) = IF d \in UsableDevices THEN Before(d) \cup {d} ELSE Before(d)
           /\ Cardinality(Before(d + 1)) =
                 IF d \in UsableDevices THEN Cardinality(Before(d)) + 1 ELSE Cardinality(Before(d))
<1>1. UsableDevices \in SUBSET Nat /\ IsFiniteSet(UsableDevices)
  BY UsableFinite, PlatformType
<1> QED  BY <1>1, CountOneMore DEF Before

LEMMA NextQueue ==
    ASSUME TypeOK, NEW d \in 1 .. Len(env.devices), NEW w \in Nat
    PROVE  /\ IsFiniteSet(QueuesBefore(d, w)) /\ Cardinality(QueuesBefore(d, w)) \in Nat
           /\ QueuesBefore(d, w + 1) =
                 IF w \in UsableQueues(d) THEN QueuesBefore(d, w) \cup {w} ELSE QueuesBefore(d, w)
           /\ Cardinality(QueuesBefore(d, w + 1)) =
                 IF w \in UsableQueues(d) THEN Cardinality(QueuesBefore(d, w)) + 1
                                          ELSE Cardinality(QueuesBefore(d, w))
<1>1. UsableQueues(d) \in SUBSET Nat /\ IsFiniteSet(UsableQueues(d))
  BY UsableFinite, PlatformType
<1> QED  BY <1>1, CountOneMore DEF QueuesBefore

\* A queue that is moved takes its portal along, and leaves none behind.
LEMMA MoveHandsOver ==
    ASSUME NEW q \in Queue
    PROVE  Move(q).to = q /\ Move(q).from.portal = NoPortal
  BY DEF Move, Queue

\* So the temporaries of the heap functions unmap nothing.
LEMMA NothingReleased ==
    ASSUME NEW q \in Seq(Queue)
    PROVE  Released(q) = {}
<1>1. \A i \in DOMAIN q : q[i] \in Queue
  OBVIOUS
<1> QED  BY <1>1, MoveHandsOver DEF Released

\* sort_heap rearranges the queues of a device and loses none.
LEMMA SortedType ==
    ASSUME NEW q \in Seq(Queue), NEW s \in Sorted(q)
    PROVE  /\ s \in Seq(Queue) /\ Len(s) = Len(q) /\ DOMAIN s = DOMAIN q
           /\ \E p \in Bijection(1 .. Len(q), 1 .. Len(q)) : \A i \in 1 .. Len(q) : s[i] = q[p[i]]
           /\ \A i, j \in DOMAIN s : i < j => s[i].priority <= s[j].priority
<1> DEFINE n == Len(q)
<1>1. n \in Nat /\ DOMAIN q = 1 .. n
  OBVIOUS
<1>2. PICK p \in Bijection(1 .. n, 1 .. n) : s = [i \in 1 .. n |-> q[p[i]]]
  <2>1. PICK p \in Bijection(1 .. n, 1 .. n) : s = [i \in 1 .. n |-> Move(q[p[i]]).to]
    BY DEF Sorted
  <2>2. \A i \in 1 .. n : q[p[i]] \in Queue
    BY DEF Bijection, Injection
  <2> QED  BY <2>1, <2>2, MoveHandsOver
<1>3. p \in [1 .. n -> 1 .. n]
  BY DEF Bijection, Injection
<1>4. \A i \in 1 .. n : q[p[i]] \in Queue
  BY <1>3
<1>5. s \in Seq(Queue) /\ Len(s) = n
  BY <1>1, <1>2, <1>4
<1>6. \A i, j \in 1 .. n : i < j => s[i].priority <= s[j].priority
  BY DEF Sorted
<1> QED  BY <1>1, <1>2, <1>5, <1>6

-----------------------------------------------------------------------------
(* What steps keep. *)

\* The platform does not change, and neither does what is usable of it.
LEMMA PlatformKept ==
    ASSUME UNCHANGED env
    PROVE  /\ UsableDevices' = UsableDevices
           /\ \A d : UsableQueues(d)' = UsableQueues(d)
           /\ \A d : Before(d)' = Before(d) /\ Last(d)' = Last(d)
           /\ \A d, w : QueuesBefore(d, w)' = QueuesBefore(d, w)
           /\ \A p : Forgotten(p)' <=> Forgotten(p)
  BY DEF UsableDevices, UsableQueues, Before, QueuesBefore, Below, Last, Forgotten

\* The devices before dev have slots of their own, before the current one.
LEMMA EarlierSlots ==
    ASSUME IInv, pc \in {"devices", "queues", "ready"}
    PROVE  /\ \A d \in Before(dev) : Cardinality(Before(d)) \in Slots
                                    /\ Cardinality(Before(d)) < slot
           /\ IsFiniteSet(Before(dev)) /\ slot \in Nat
<1>1. /\ UsableDevices \in SUBSET Nat /\ IsFiniteSet(UsableDevices)
      /\ dev \in Nat /\ slot \in 0 .. MaxDevices /\ MaxDevices \in Nat
      /\ slot = Cardinality(Before(dev))
  BY UsableFinite, PlatformType, InitAssumption DEF IInv, TypeOK, TableInv
<1>2. IsFiniteSet(Before(dev))
  BY <1>1, CountOneMore DEF Before
<1>3. ASSUME NEW d \in Before(dev)
      PROVE  Cardinality(Before(d)) \in Slots /\ Cardinality(Before(d)) < slot
  <2>1. d \in UsableDevices /\ d < dev /\ d \in Nat
    BY <1>1 DEF Before, Below
  <2>2. Cardinality(Before(d)) < Cardinality(Before(dev))
    BY <1>1, <2>1, CountRises DEF Before
  <2>3. Cardinality(Before(d)) \in Nat
    BY <1>1, <2>1, CountOneMore DEF Before
  <2> QED  BY <1>1, <2>2, <2>3 DEF Slots
<1> QED  BY <1>1, <1>2, <1>3

\* A finished slot stays as it is while the next one is filled.
LEMMA FinishedKept ==
    ASSUME IInv, pc \in {"devices", "queues", "ready"}, UNCHANGED env,
           \A s \in Slots : s < slot => devices'[s] = devices[s]
    PROVE  \A d \in Before(dev) :
             Holds(Cardinality(Before(d)), d, Last(d))' /\ Rising(Cardinality(Before(d)))'
<1> SUFFICES ASSUME NEW d \in Before(dev)
             PROVE  Holds(Cardinality(Before(d)), d, Last(d))' /\ Rising(Cardinality(Before(d)))'
  OBVIOUS
<1> DEFINE s == Cardinality(Before(d))
<1>1. s' = s /\ devices'[s] = devices[s] /\ Last(d)' = Last(d)
  BY EarlierSlots, PlatformKept
<1>2. Holds(s, d, Last(d)) /\ Rising(s)
  BY DEF IInv, TableInv
<1>3. QueuesBefore(d, Last(d))' = QueuesBefore(d, Last(d))
  BY PlatformKept DEF QueuesBefore, Below, Last
<1>4. HeldBy(s)' = HeldBy(s)
  BY <1>1, SMTT(60) DEF HeldBy
<1> HIDE DEF s
<1>5. Holds(s, d, Last(d))'
  BY <1>1, <1>2, <1>3, <1>4 DEF Holds
<1>6. Rising(s)'
  BY <1>1, <1>2 DEF Rising
<1> QED  BY <1>5, <1>6 DEF s

\* Portals stay where they are as long as no queue object changes.
LEMMA OwnershipKept ==
    ASSUME IInv, \A s \in Slots : devices'[s].queues = devices[s].queues
    PROVE  /\ Held' = Held
           /\ \A s \in Slots : HeldBy(s)' = HeldBy(s)
           /\ mapped \subseteq mapped' => PortalOwnership'
<1>1. \A s \in Slots : HeldBy(s)' = HeldBy(s)
  BY DEF HeldBy
<1>2. Held' = Held
  BY <1>1 DEF Held
<1> QED  BY <1>1, <1>2 DEF IInv, PortalOwnership

-----------------------------------------------------------------------------
(* The steps of initialize_hw and of the destructor. *)

\* The constructor starts with nothing.
LEMMA InitInv == Init => IInv
<1> SUFFICES ASSUME Init PROVE IInv
  OBVIOUS
<1> USE DEF Init
<1>1. /\ \A s \in Slots : devices[s].queues = <<>> /\ DOMAIN devices[s].queues = {}
      /\ \A s \in Slots : HeldBy(s) = {}
  BY DEF HeldBy
<1>2. TypeOK
  BY InitAssumption DEF TypeOK, Working, Slots
<1>3. PlaceInv /\ PortalOwnership /\ MappedInv
  BY <1>1 DEF PlaceInv, PortalOwnership, MappedInv, Held
<1> QED  BY <1>1, <1>2, <1>3 DEF IInv, ProgressInv, TableInv, CleanExit, FaultsOnlyOutsideLimits

\* The library is loaded, or closed again.
LEMMA LoadDriverInv == IInv /\ LoadDriver => IInv'
<1> SUFFICES ASSUME IInv, LoadDriver PROVE IInv'
  OBVIOUS
<1>1. UNCHANGED <<env, context, dev, wq, slot, devices, mapped>>
  BY DEF LoadDriver
<1>2. /\ pc = "driver"
      /\ \/ pc' = "failed" /\ status' = "LIBACCEL_NOT_FOUND" /\ library' = library
         \/ pc' = "context" /\ status' = status /\ env.library # "absent"
            /\ library' = IF env.library = "fit" THEN "loaded" ELSE "closed"
  BY DEF LoadDriver, LoadFunctions
<1>3. env.library \in {"absent", "incompatible", "fit"}
  BY DEF IInv, TypeOK, Environment
<1>4. TypeOK'
  BY <1>1, <1>2 DEF IInv, TypeOK, Working
<1>5. ProgressInv'
  BY <1>1, <1>2, <1>3 DEF IInv, ProgressInv
<1>6. PlaceInv'
  BY <1>1, <1>2 DEF IInv, ProgressInv, PlaceInv
<1>7. PortalOwnership' /\ MappedInv'
  BY <1>1, <1>2, OwnershipKept, PlatformKept DEF IInv, MappedInv
<1> QED  BY <1>2, <1>4, <1>5, <1>6, <1>7 DEF IInv, TableInv, CleanExit, FaultsOnlyOutsideLimits

\* A context is opened, if the library can be called.
LEMMA NewContextInv == IInv /\ NewContext => IInv'
<1> SUFFICES ASSUME IInv, NewContext PROVE IInv'
  OBVIOUS
<1>1. UNCHANGED <<env, library, dev, wq, slot, devices, mapped>>
  BY DEF NewContext
<1>2. /\ pc = "context"
      /\ \/ pc' = "bad_call" /\ library # "loaded" /\ UNCHANGED <<context, status>>
         \/ pc' = "devices" /\ library = "loaded" /\ context' = "open" /\ status' = status
         \/ pc' = "failed" /\ status' = "LIBACCEL_ERROR" /\ context' = context
  BY DEF NewContext, Callable
<1>3. TypeOK'
  BY <1>1, <1>2 DEF IInv, TypeOK, Working, Crashed
<1>4. ProgressInv'
  BY <1>1, <1>2, PlatformType DEF IInv, ProgressInv
<1>5. PlaceInv'
  BY <1>1, <1>2 DEF IInv, ProgressInv, PlaceInv
<1>6. PortalOwnership' /\ MappedInv'
  BY <1>1, <1>2, OwnershipKept, PlatformKept DEF IInv, MappedInv
<1>7. TableInv'
  <2>1. dev' = 1 /\ slot' = 0
    BY <1>1, <1>2 DEF IInv, ProgressInv
  <2>2. Before(1) = {}
    BY UsableFinite, PlatformType DEF IInv, Before, Below
  <2>3. Before(dev)' = {} /\ Cardinality(Before(dev))' = 0
    BY <2>1, <2>2, <1>1, PlatformKept, FS_EmptySet DEF Before, Below
  <2> QED  BY <1>2, <2>1, <2>3 DEF TableInv
<1>8. FaultsOnlyOutsideLimits'
  BY <1>1, <1>2 DEF IInv, ProgressInv, TypeOK, FaultsOnlyOutsideLimits
<1> QED  BY <1>2, <1>3, <1>4, <1>5, <1>6, <1>7, <1>8 DEF IInv, CleanExit

\* A queue object is in a slot.
LEMMA QueueType ==
    ASSUME TypeOK, NEW s \in Slots
    PROVE  /\ devices[s] \in [numa : Nat, queues : Seq(Queue)]
           /\ Len(devices[s].queues) \in Nat
           /\ DOMAIN devices[s].queues = 1 .. Len(devices[s].queues)
           /\ \A i \in DOMAIN devices[s].queues :
                /\ devices[s].queues[i] \in Queue
                /\ devices[s].queues[i].portal \in Portals
                /\ devices[s].queues[i].portal[1] \in Nat
                /\ devices[s].queues[i].portal[2] \in Nat
<1>1. devices[s] \in [numa : Nat, queues : Seq(Queue)]
  BY DEF TypeOK
<1>2. devices[s].queues \in Seq(Queue)
  BY <1>1
<1>3. \A i \in 1 .. Len(devices[s].queues) : devices[s].queues[i] \in Queue
  BY <1>2
<1>4. ASSUME NEW q \in Queue
      PROVE  q.portal \in Portals /\ q.portal[1] \in Nat /\ q.portal[2] \in Nat
  BY DEF Queue, Portals
<1>5. /\ Len(devices[s].queues) \in Nat
      /\ DOMAIN devices[s].queues = 1 .. Len(devices[s].queues)
  BY <1>2
<1> QED  BY <1>1, <1>3, <1>4, <1>5

\* initialize_new_device: too many, skipped, or entered.
LEMMA InitDeviceInv == IInv /\ InitDevice => IInv'
<1> SUFFICES ASSUME IInv, InitDevice PROVE IInv'
  OBVIOUS
<1>1. /\ UNCHANGED <<env, library, context, slot, mapped, status>>
      /\ pc = "devices" /\ dev \in 1 .. Len(env.devices) /\ dev \in DOMAIN env.devices
  BY PlatformType DEF InitDevice, HasDevice, IInv, TypeOK
<1>2. /\ slot = Cardinality(Before(dev)) /\ slot \in 0 .. MaxDevices /\ MaxDevices \in Nat
      /\ UsableDevices \in SUBSET Nat /\ IsFiniteSet(UsableDevices)
  BY <1>1, UsableFinite, PlatformType, InitAssumption DEF IInv, TableInv, TypeOK
<1>3. CASE slot = MaxDevices /\ pc' = "overrun" /\ UNCHANGED <<dev, wq, devices>>
  <2>1. TypeOK'
    BY <1>1, <1>3 DEF IInv, TypeOK, Crashed
  <2>2. PlaceInv'
    BY <1>1, <1>3 DEF IInv, PlaceInv
  <2>3. PortalOwnership'
    BY <1>1, <1>3, OwnershipKept
  <2>4. FaultsOnlyOutsideLimits'
    <3>1. Before(dev) = {e \in UsableDevices' : e < dev}
      BY <1>1, <1>3 DEF Before, Below, UsableDevices, UsableQueues
    <3>2. Cardinality(Before(dev)) >= MaxDevices
      BY <1>2, <1>3
    <3>3. Cardinality({e \in UsableDevices' : e < dev}) >= MaxDevices
      BY <3>1, <3>2, Zenon
    <3> QED  BY <1>1, <1>3, <3>3 DEF FaultsOnlyOutsideLimits
  <2> QED  BY <1>3, <2>1, <2>2, <2>3, <2>4 DEF IInv, ProgressInv, MappedInv, TableInv, CleanExit
<1>4. CASE /\ slot < MaxDevices /\ ~Fit(env.devices[dev])
           /\ dev' = dev + 1 /\ UNCHANGED <<pc, wq, devices>>
  <2>1. TypeOK'
    BY <1>1, <1>4, PlatformType DEF IInv, TypeOK
  <2>2. ProgressInv'
    BY <1>1, <1>4, PlatformType DEF IInv, ProgressInv
  <2>3. PlaceInv'
    <3> SUFFICES ASSUME NEW s \in Slots, NEW i \in DOMAIN devices[s].queues
                 PROVE  s < slot /\ devices[s].queues[i].portal[1] < dev + 1
      BY <1>1, <1>4 DEF PlaceInv
    <3>1. s < slot /\ devices[s].queues[i].portal[1] < dev
      BY <1>1 DEF IInv, PlaceInv
    <3> QED  BY <3>1, <1>1, QueueType, PlatformType DEF IInv
  <2>4. PortalOwnership' /\ MappedInv'
    BY <1>1, <1>4, OwnershipKept, PlatformKept DEF IInv, MappedInv
  <2>5. Before(dev)' = Before(dev) /\ Cardinality(Before(dev))' = Cardinality(Before(dev))
    <3>1. dev \notin UsableDevices /\ dev \in Nat
      BY <1>1, <1>4, PlatformType DEF UsableDevices
    <3>2. Before(dev + 1) = Before(dev)
      BY <3>1, NextDevice DEF IInv
    <3>3. Before(dev)' = Before(dev + 1)
      BY <1>1, <1>4 DEF Before, Below, UsableDevices, UsableQueues
    <3> QED  BY <3>2, <3>3
  <2>6. TableInv'
    BY <1>1, <1>2, <1>4, <2>5, FinishedKept DEF TableInv
  <2> QED  BY <1>1, <1>4, <2>1, <2>2, <2>3, <2>4, <2>6 DEF IInv, CleanExit, FaultsOnlyOutsideLimits
<1>5. CASE /\ slot < MaxDevices /\ Fit(env.devices[dev])
           /\ devices' = [devices EXCEPT ![slot].numa = env.devices[dev].numa]
           /\ wq' = 1 /\ pc' = "queues" /\ UNCHANGED dev
  <2>1. /\ slot \in Slots
        /\ \A s \in Slots : devices'[s].queues = devices[s].queues
        /\ \A s \in Slots : s # slot => devices'[s] = devices[s]
        /\ devices'[slot].numa = env.devices[dev].numa
    BY <1>2, <1>5 DEF IInv, TypeOK, Slots
  <2>2. TypeOK'
    <3>1. env.devices[dev].numa \in Nat
      BY <1>1, PlatformType DEF Device, IInv
    <3>2. devices' \in [Slots -> [numa : Nat, queues : Seq(Queue)]]
      BY <1>5, <2>1, <3>1 DEF IInv, TypeOK
    <3> QED  BY <1>1, <1>5, <3>2 DEF IInv, TypeOK, Working
  <2>3. ProgressInv'
    BY <1>1, <1>5 DEF IInv, ProgressInv, HasDevice, Fit
  <2>4. PlaceInv'
    BY <1>1, <1>5, <2>1 DEF IInv, PlaceInv
  <2>5. PortalOwnership' /\ MappedInv'
    BY <1>1, <1>5, <2>1, OwnershipKept, PlatformKept, SMTT(60) DEF IInv, MappedInv
  <2>6. Holds(slot, dev, wq)' /\ (wq <= Last(dev))'
    <3>1. DOMAIN devices[slot].queues = {} /\ Len(devices[slot].queues) = 0
      BY <1>1, <2>1, <1>2, QueueType DEF IInv, PlaceInv
    <3>2. HeldBy(slot)' = {}
      BY <1>1, <2>1, <3>1 DEF HeldBy
    <3>3. QueuesBefore(dev, 1) = {}
      BY <1>1, UsableFinite, PlatformType DEF QueuesBefore, Below, IInv
    <3>4. QueuesBefore(dev, wq)' = {}
      BY <1>1, <1>5, <3>3 DEF QueuesBefore, Below, UsableQueues
    <3>5. Cardinality(QueuesBefore(dev, wq))' = 0
      BY <3>4, FS_EmptySet
    <3>6. Last(dev)' \in Nat /\ 1 <= Last(dev)'
      BY <1>1, <1>5, PlatformType DEF Last, IInv
    <3> QED  BY <1>1, <1>5, <2>1, <3>1, <3>2, <3>4, <3>5, <3>6, InitAssumption DEF Holds
  <2>7. TableInv'
    <3>1. /\ Before(dev)' = Before(dev) /\ Cardinality(Before(dev))' = Cardinality(Before(dev))
      BY <1>1, <1>5 DEF Before, Below, UsableDevices, UsableQueues
    <3>2. \A s \in Slots : s < slot => devices'[s] = devices[s]
      BY <2>1, <1>2
    <3>3. \A d \in Before(dev) :
            Holds(Cardinality(Before(d)), d, Last(d))' /\ Rising(Cardinality(Before(d)))'
      BY <1>1, <3>2, FinishedKept
    <3> QED  BY <1>1, <1>2, <1>5, <2>6, <3>1, <3>3 DEF TableInv
  <2> QED  BY <1>1, <1>5, <2>2, <2>3, <2>4, <2>5, <2>7 DEF IInv, CleanExit, FaultsOnlyOutsideLimits
<1> QED  BY <1>3, <1>4, <1>5 DEF InitDevice

\* A usable queue is what passes every check of initialize_new_queue.
LEMMA UsableQueue ==
    ASSUME TypeOK, NEW d \in 1 .. Len(env.devices), NEW w \in 1 .. Len(env.devices[d].wqs)
    PROVE  w \in UsableQueues(d) <=> env.devices[d].wqs[w].fails = "none"
  BY PlatformType DEF UsableQueues

\* initialize_new_queue: one that fails a check, one too many, or a new object.
LEMMA InitQueueInv == IInv /\ InitQueue => IInv'
<1> SUFFICES ASSUME IInv, InitQueue PROVE IInv'
  OBVIOUS
<1> DEFINE w == env.devices[dev].wqs[wq]
           q == devices[slot].queues
           new == [portal |-> Portal, priority |-> w.priority]
<1>1. /\ UNCHANGED <<env, library, context, dev, slot, status>>
      /\ pc = "queues" /\ dev \in 1 .. Len(env.devices) /\ slot \in Slots
      /\ wq \in Nat \ {0} /\ wq \in 1 .. Len(env.devices[dev].wqs)
  BY PlatformType, InitAssumption, SMTT(60)
     DEF InitQueue, HasDevice, HasQueue, IInv, TypeOK, ProgressInv, Slots
<1>2. /\ w \in WorkQueue /\ Portal \in Portals /\ dev \in Nat
      /\ Last(dev)' = Last(dev) /\ Last(dev) \in Nat /\ wq + 1 <= Last(dev)
  BY <1>1, PlatformType DEF Portal, Portals, Last, IInv
<1>3. /\ mapped' = IF w.fails \in {"none", "group"} THEN mapped \cup {Portal} ELSE mapped
      /\ mapped' \subseteq Portals /\ mapped \subseteq mapped'
  <2>1. /\ new \in Queue /\ <<new>> \in Seq(Queue)
    BY <1>2 DEF Queue, WorkQueue
  <2>2. Released(<<new>>) = {}
    BY <2>1, NothingReleased
  <2> QED  BY <1>2, <2>2 DEF InitQueue, IInv, TypeOK
<1>4. /\ wq \in UsableQueues(dev) <=> w.fails = "none"
      /\ w.fails = "group" => Forgotten(Portal)
  <2>1. dev \in DOMAIN env.devices /\ Portal[1] = dev /\ Portal[2] = wq
    BY <1>1, PlatformType DEF IInv, Portal
  <2> QED  BY <1>1, <2>1, UsableQueue DEF IInv, Forgotten
<1>5. Holds(slot, dev, wq) /\ slot = Cardinality(Before(dev))
  BY <1>1 DEF IInv, TableInv
<1>6. /\ Before(dev)' = Before(dev)
      /\ Cardinality(Before(dev))' = Cardinality(Before(dev))
  BY <1>1 DEF Before, Below, UsableDevices, UsableQueues
<1>7. /\ Len(q) \in Nat /\ DOMAIN q = 1 .. Len(q)
      /\ q \in Seq(Queue) /\ q = devices[slot].queues
  BY <1>1, QueueType DEF IInv
<1> HIDE DEF w, q
<1>8. CASE w.fails # "none" /\ wq' = wq + 1 /\ UNCHANGED <<pc, devices>>
  <2>1. TypeOK'
    BY <1>1, <1>3, <1>8 DEF IInv, TypeOK
  <2>2. ProgressInv'
    BY <1>1, <1>8 DEF IInv, ProgressInv, HasDevice, Fit
  <2>3. PlaceInv'
    <3> SUFFICES ASSUME NEW s \in Slots, NEW i \in DOMAIN devices[s].queues
                 PROVE  LET p == devices[s].queues[i].portal
                        IN  \/ s < slot /\ p[1] < dev
                            \/ s = slot /\ p[1] = dev /\ p[2] < wq + 1
      BY <1>1, <1>8 DEF PlaceInv
    <3> QED  BY <1>1, QueueType, SMTT(60) DEF IInv, PlaceInv
  <2>4. PortalOwnership' /\ Held' = Held /\ HeldBy(slot)' = HeldBy(slot)
    BY <1>1, <1>3, <1>8, OwnershipKept DEF HeldBy
  <2>a. MappedInv'
    <3> SUFFICES ASSUME NEW p \in mapped' PROVE p \in Held \/ Forgotten(p)
      BY <1>1, <2>4, PlatformKept, SMTT(60) DEF MappedInv
    <3> QED  BY <1>1, <1>3, <1>4, <1>8 DEF IInv, MappedInv
  <2>5. Holds(slot, dev, wq)'
    <3>1. QueuesBefore(dev, wq + 1) = QueuesBefore(dev, wq)
      BY <1>1, <1>4, <1>8, NextQueue DEF IInv
    <3>2. QueuesBefore(dev, wq)' = QueuesBefore(dev, wq)
      BY <1>1, <1>8, <3>1, SMTT(60) DEF QueuesBefore, Below, UsableQueues
    <3>3. HeldBy(slot)' = {<<dev, v>> : v \in QueuesBefore(dev, wq)'}
      BY <1>5, <2>4, <3>2, SMTT(60) DEF Holds
    <3>4. /\ Len(q) = Cardinality(QueuesBefore(dev, wq)') /\ Len(q) <= MaxQueues
          /\ \A i \in DOMAIN q : q[i].priority = env.devices[dev].wqs[q[i].portal[2]].priority
          /\ devices[slot].numa = env.devices[dev].numa
      BY <1>5, <1>7, <3>2 DEF Holds
    <3> QED  BY <1>1, <1>7, <1>8, <3>3, <3>4, ZenonT(60) DEF Holds
  <2>6. TableInv'
    BY <1>1, <1>2, <1>5, <1>6, <1>8, <2>5, FinishedKept DEF TableInv
  <2> QED  BY <1>1, <1>8, <2>1, <2>2, <2>3, <2>4, <2>a, <2>6 DEF IInv, CleanExit, FaultsOnlyOutsideLimits
<1>9. CASE /\ w.fails = "none" /\ Len(q) = MaxQueues
           /\ pc' = "overrun" /\ UNCHANGED <<wq, devices>>
  <2>1. TypeOK'
    BY <1>1, <1>3, <1>9 DEF IInv, TypeOK, Crashed
  <2>2. PlaceInv'
    BY <1>1, <1>9, SMTT(60) DEF IInv, PlaceInv
  <2>3. PortalOwnership'
    BY <1>1, <1>3, <1>9, OwnershipKept
  <2>4. FaultsOnlyOutsideLimits'
    <3>1. Cardinality(QueuesBefore(dev, wq + 1)) = MaxQueues + 1
      BY <1>1, <1>4, <1>5, <1>7, <1>9, NextQueue, InitAssumption DEF IInv, Holds
    <3>2. QueuesBefore(dev, wq + 1) \subseteq UsableQueues(dev)
      BY DEF QueuesBefore, Below
    <3>3. IsFiniteSet(UsableQueues(dev))
      BY <1>1, UsableFinite DEF IInv
    <3>4. Cardinality(QueuesBefore(dev, wq + 1)) <= Cardinality(UsableQueues(dev))
      BY <3>2, <3>3, FS_Subset
    <3>5. Cardinality(UsableQueues(dev)) > MaxQueues
      BY <3>1, <3>3, <3>4, FS_CardinalityType, InitAssumption
    <3>6. dev \in DOMAIN env'.devices /\ Cardinality(UsableQueues(dev)') > MaxQueues
      BY <1>1, <3>5, PlatformType, PlatformKept DEF IInv
    <3> QED  BY <1>1, <1>9, <3>6 DEF FaultsOnlyOutsideLimits
  <2> QED  BY <1>9, <2>1, <2>2, <2>3, <2>4 DEF IInv, ProgressInv, MappedInv, TableInv, CleanExit
<1>10. CASE /\ w.fails = "none" /\ Len(q) # MaxQueues
            /\ devices' = [devices EXCEPT ![slot].queues =
                              Append(q, [portal |-> Portal, priority |-> w.priority])]
            /\ wq' = wq + 1 /\ UNCHANGED pc
  <2> DEFINE e == [portal |-> Portal, priority |-> w.priority]
  <2>1. e \in Queue /\ e.portal = Portal /\ e.priority = w.priority
    BY <1>2 DEF Queue, WorkQueue
  <2>2. Portal[1] = dev /\ Portal[2] = wq
    BY DEF Portal
  <2>3. /\ devices'[slot].queues = Append(q, e)
        /\ devices'[slot].numa = devices[slot].numa
        /\ \A s \in Slots : s # slot => devices'[s] = devices[s]
    BY <1>1, <1>10 DEF IInv, TypeOK
  <2>4. devices' \in [Slots -> [numa : Nat, queues : Seq(Queue)]]
    <3>1. Append(q, e) \in Seq(Queue)
      BY <2>1, <1>7
    <3> QED  BY <1>1, <1>10, <3>1 DEF IInv, TypeOK
  <2> HIDE DEF e
  <2>5. /\ Len(devices'[slot].queues) = Len(q) + 1
        /\ DOMAIN devices'[slot].queues = 1 .. Len(q) + 1
        /\ \A i \in 1 .. Len(q) : devices'[slot].queues[i] = q[i]
        /\ devices'[slot].queues[Len(q) + 1] = e
    BY <1>7, <2>1, <2>3
  <2>b. \A i \in DOMAIN devices'[slot].queues :
          i # Len(q) + 1 => i \in DOMAIN q /\ devices'[slot].queues[i] = devices[slot].queues[i]
    <3>1. \A i \in 1 .. Len(q) + 1 : i # Len(q) + 1 => i \in 1 .. Len(q)
      BY <1>7
    <3> QED  BY <1>7, <2>5, <3>1
  <2>6. HeldBy(slot)' = HeldBy(slot) \cup {Portal}
    <3>1. HeldBy(slot)' = {devices'[slot].queues[i].portal : i \in 1 .. Len(q) + 1}
      BY <1>1, <2>5 DEF HeldBy
    <3>2. HeldBy(slot) = {q[i].portal : i \in 1 .. Len(q)}
      BY <1>7 DEF HeldBy
    <3>3. 1 .. Len(q) + 1 = (1 .. Len(q)) \cup {Len(q) + 1}
      BY <1>7
    <3> QED  BY <3>1, <3>2, <3>3, <2>1, <2>5
  <2>7. \A s \in Slots : s # slot => HeldBy(s)' = HeldBy(s)
    BY <2>3 DEF HeldBy
  <2>8. Held' = Held \cup {Portal}
    BY <1>1, <2>6, <2>7 DEF Held
  <2>9. TypeOK'
    BY <1>1, <1>3, <1>10, <2>4 DEF IInv, TypeOK
  <2>10. ProgressInv'
    BY <1>1, <1>10 DEF IInv, ProgressInv, HasDevice, Fit
  <2>11. PlaceInv'
    <3> SUFFICES ASSUME NEW s \in Slots, NEW i \in DOMAIN devices'[s].queues
                 PROVE  LET p == devices'[s].queues[i].portal
                        IN  \/ s < slot /\ p[1] < dev
                            \/ s = slot /\ p[1] = dev /\ p[2] < wq + 1
      BY <1>1, <1>10 DEF PlaceInv
    <3>1. CASE s # slot
      BY <1>1, <2>3, <3>1 DEF IInv, PlaceInv
    <3>2. CASE s = slot /\ i = Len(q) + 1
      BY <1>1, <2>1, <2>2, <2>5, <3>2
    <3>3. CASE s = slot /\ i # Len(q) + 1
      <4>1. i \in DOMAIN q /\ devices'[s].queues[i] = devices[s].queues[i]
        BY <2>b, <3>3
      <4> QED  BY <1>1, <1>7, <3>3, <4>1, QueueType, SMTT(60) DEF IInv, PlaceInv
    <3> QED  BY <3>1, <3>2, <3>3
  <2>12. PortalOwnership'
    <3>1. (Held \subseteq mapped)'
      BY <1>3, <1>10, <2>8 DEF IInv, PortalOwnership
    <3>2. ASSUME NEW s \in Slots, NEW i \in DOMAIN devices'[s].queues, s # slot \/ i # Len(q) + 1
          PROVE  /\ i \in DOMAIN devices[s].queues
                 /\ devices'[s].queues[i] = devices[s].queues[i]
                 /\ devices[s].queues[i].portal # Portal
      <4>1. i \in DOMAIN devices[s].queues /\ devices'[s].queues[i] = devices[s].queues[i]
        BY <1>7, <2>3, <2>b, <3>2
      <4>2. devices[s].queues[i].portal[1] < dev \/ devices[s].queues[i].portal[2] < wq
        BY <4>1 DEF IInv, PlaceInv
      <4> QED  BY <1>1, <1>2, <2>2, <4>1, <4>2, QueueType, SMTT(60) DEF IInv
    <3>3. \A s, t \in Slots : \A i \in DOMAIN devices'[s].queues, j \in DOMAIN devices'[t].queues :
            devices'[s].queues[i].portal = devices'[t].queues[j].portal => s = t /\ i = j
      BY <2>1, <2>5, <3>2, SMTT(60) DEF IInv, PortalOwnership
    <3> QED  BY <3>1, <3>3 DEF PortalOwnership
  <2>13. MappedInv'
    <3> SUFFICES ASSUME NEW p \in mapped' PROVE p \in Held' \/ Forgotten(p)
      BY <1>1, PlatformKept DEF MappedInv
    <3> QED  BY <1>1, <1>3, <1>10, <2>8 DEF IInv, MappedInv
  <2>14. Holds(slot, dev, wq)'
    <3>1. /\ QueuesBefore(dev, wq + 1) = QueuesBefore(dev, wq) \cup {wq}
          /\ Cardinality(QueuesBefore(dev, wq + 1)) = Cardinality(QueuesBefore(dev, wq)) + 1
      BY <1>1, <1>4, <1>10, NextQueue DEF IInv
    <3>2. QueuesBefore(dev, wq)' = QueuesBefore(dev, wq + 1)
      BY <1>1, <1>10 DEF QueuesBefore, Below, UsableQueues
    <3>3. HeldBy(slot)' = {<<dev, v>> : v \in QueuesBefore(dev, wq)'}
      BY <1>5, <2>6, <3>1, <3>2, SMTT(60) DEF Holds, Portal
    <3>4. Len(q) + 1 = Cardinality(QueuesBefore(dev, wq)') /\ Len(q) + 1 <= MaxQueues
      BY <1>5, <1>7, <1>10, <3>1, <3>2, InitAssumption, SMTT(60) DEF Holds
    <3>5. ASSUME NEW i \in DOMAIN devices'[slot].queues
          PROVE  devices'[slot].queues[i].priority =
                   env.devices[dev].wqs[devices'[slot].queues[i].portal[2]].priority
      <4>1. CASE i = Len(q) + 1
        BY <2>1, <2>2, <2>5, <4>1, SMTT(60) DEF w
      <4>2. CASE i # Len(q) + 1
        <5>1. i \in DOMAIN q /\ devices'[slot].queues[i] = q[i]
          BY <1>7, <2>b, <4>2
        <5>2. q[i].priority = env.devices[dev].wqs[q[i].portal[2]].priority
          BY <1>5, <1>7, <5>1 DEF Holds
        <5> QED  BY <5>1, <5>2
      <4> QED  BY <4>1, <4>2, Zenon
    <3> QED  BY <1>1, <1>5, <2>3, <2>5, <3>3, <3>4, <3>5, ZenonT(60) DEF Holds
  <2>15. TableInv'
    <3>1. \A s \in Slots : s < slot => devices'[s] = devices[s]
      BY <1>1, <2>3 DEF Slots
    <3>2. \A d \in Before(dev) :
            Holds(Cardinality(Before(d)), d, Last(d))' /\ Rising(Cardinality(Before(d)))'
      BY <1>1, <3>1, FinishedKept
    <3> QED  BY <1>1, <1>2, <1>5, <1>6, <1>10, <2>14, <3>2 DEF TableInv
  <2> QED  BY <1>1, <1>10, <2>9, <2>10, <2>11, <2>12, <2>13, <2>15
              DEF IInv, CleanExit, FaultsOnlyOutsideLimits
<1>11. Move([portal |-> Portal, priority |-> w.priority]).to = [portal |-> Portal, priority |-> w.priority]
  <2>1. [portal |-> Portal, priority |-> w.priority] \in Queue
    BY <1>2 DEF Queue, WorkQueue
  <2> QED  BY <2>1, MoveHandsOver
<1> QED  BY <1>8, <1>9, <1>10, <1>11 DEF InitQueue, w, q

\* The end of initialize_new_device: the queues are sorted, and the slot is kept
\* if there are any.
LEMMA FinishDeviceInv == IInv /\ FinishDevice => IInv'
<1> SUFFICES ASSUME IInv, FinishDevice PROVE IInv'
  OBVIOUS
<1> DEFINE q == devices[slot].queues
<1>0. mapped' = mapped
  <2>1. slot \in Slots
    BY InitAssumption DEF FinishDevice, IInv, TypeOK, ProgressInv, Slots
  <2>2. devices[slot].queues \in Seq(Queue)
    BY <2>1, QueueType DEF IInv
  <2> QED  BY <2>2, NothingReleased DEF FinishDevice
<1>1. /\ UNCHANGED <<env, library, context, wq, mapped, status>>
      /\ pc = "queues" /\ pc' = "devices" /\ dev' = dev + 1
      /\ slot' = IF Len(q) = 0 THEN slot ELSE slot + 1
      /\ dev \in 1 .. Len(env.devices) /\ dev \in Nat /\ slot \in Slots /\ slot \in Nat
  BY <1>0, PlatformType, InitAssumption
     DEF FinishDevice, HasDevice, IInv, TypeOK, ProgressInv, Slots
<1>2. wq = Last(dev) /\ wq \in Nat
  <2>1. wq \in Nat /\ Len(env.devices[dev].wqs) \in Nat
    BY <1>1, PlatformType DEF IInv, TypeOK
  <2>2. ~(wq <= Len(env.devices[dev].wqs)) /\ wq <= Len(env.devices[dev].wqs) + 1
    BY <1>1 DEF FinishDevice, HasQueue, IInv, TableInv, Last
  <2> QED  BY <2>1, <2>2 DEF Last
<1>3. /\ Len(q) \in Nat /\ DOMAIN q = 1 .. Len(q) /\ q \in Seq(Queue)
      /\ q = devices[slot].queues
  BY <1>1, QueueType DEF IInv
<1>4. PICK s \in Sorted(q) : devices' = [devices EXCEPT ![slot].queues = s]
  BY DEF FinishDevice
<1> HIDE DEF q
<1>5. /\ s \in Seq(Queue) /\ Len(s) = Len(q) /\ DOMAIN s = DOMAIN q
      /\ \A i, j \in DOMAIN s : i < j => s[i].priority <= s[j].priority
  BY <1>3, SortedType
<1>6. PICK p \in Bijection(1 .. Len(q), 1 .. Len(q)) : \A i \in 1 .. Len(q) : s[i] = q[p[i]]
  BY <1>3, SortedType
<1>7. /\ \A i \in DOMAIN q : p[i] \in DOMAIN q /\ s[i] = q[p[i]]
      /\ \A i, j \in DOMAIN q : p[i] = p[j] => i = j
      /\ \A j \in DOMAIN q : \E i \in DOMAIN q : p[i] = j
  BY <1>3, <1>6 DEF Bijection, Injection, Surjection, IsInjective
<1>8. /\ devices'[slot].queues = s /\ devices'[slot].numa = devices[slot].numa
      /\ \A t \in Slots : t # slot => devices'[t] = devices[t]
      /\ devices' \in [Slots -> [numa : Nat, queues : Seq(Queue)]]
  BY <1>1, <1>4, <1>5 DEF IInv, TypeOK
<1>9. ASSUME NEW t \in Slots
      PROVE  HeldBy(t)' = HeldBy(t)
  <2>1. CASE t # slot
    BY <1>8, <2>1 DEF HeldBy
  <2>2. CASE t = slot
    <3>1. /\ HeldBy(t)' = {s[i].portal : i \in DOMAIN s}
          /\ HeldBy(t) = {q[i].portal : i \in DOMAIN q}
      BY <1>3, <1>8, <2>2 DEF HeldBy
    <3>2. \A i \in DOMAIN s : \E j \in DOMAIN q : s[i].portal = q[j].portal
      BY <1>5, <1>7
    <3>3. \A j \in DOMAIN q : \E i \in DOMAIN s : s[i].portal = q[j].portal
      BY <1>5, <1>7, SMTT(60)
    <3> QED  BY <3>1, <3>2, <3>3
  <2> QED  BY <2>1, <2>2
<1>10. Held' = Held
  BY <1>9 DEF Held
<1>11. /\ dev \in UsableDevices <=> Len(q) # 0
       /\ QueuesBefore(dev, Last(dev)) = UsableQueues(dev)
       /\ Holds(slot, dev, Last(dev))
  <2>1. Holds(slot, dev, Last(dev))
    BY <1>1, <1>2 DEF IInv, TableInv
  <2>2. QueuesBefore(dev, Last(dev)) = UsableQueues(dev)
    BY <1>1, UsableFinite, PlatformType DEF QueuesBefore, Below, Last, IInv
  <2>3. Len(q) = Cardinality(UsableQueues(dev))
    BY <1>3, <2>1, <2>2 DEF Holds
  <2>4. Len(q) = 0 <=> UsableQueues(dev) = {}
    BY <1>1, <2>3, UsableFinite, FS_EmptySet DEF IInv
  <2>5. Fit(env.devices[dev]) /\ dev \in DOMAIN env.devices
    BY <1>1, PlatformType DEF IInv, ProgressInv
  <2> QED  BY <2>1, <2>2, <2>4, <2>5 DEF UsableDevices
<1>12. /\ Before(dev)' = IF Len(q) # 0 THEN Before(dev) \cup {dev} ELSE Before(dev)
       /\ slot' = Cardinality(Before(dev)')
       /\ slot = Cardinality(Before(dev))
  <2>1. slot = Cardinality(Before(dev))
    BY <1>1 DEF IInv, TableInv
  <2>2. Before(dev)' = Before(dev + 1)
    BY <1>1 DEF Before, Below, UsableDevices, UsableQueues
  <2> QED  BY <1>1, <1>11, <2>1, <2>2, NextDevice DEF IInv
<1>13. TypeOK'
  <2>1. slot' \in 0 .. MaxDevices
    BY <1>1, InitAssumption DEF Slots
  <2> QED  BY <1>1, <1>8, <2>1 DEF IInv, TypeOK, Working
<1>14. ProgressInv'
  BY <1>1, PlatformType DEF IInv, ProgressInv
<1>15. PlaceInv'
  <2> SUFFICES ASSUME NEW t \in Slots, NEW i \in DOMAIN devices'[t].queues
               PROVE  t < slot' /\ devices'[t].queues[i].portal[1] < dev + 1
    BY <1>1 DEF PlaceInv
  <2>1. CASE t # slot
    <3>1. i \in DOMAIN devices[t].queues /\ devices'[t].queues[i] = devices[t].queues[i]
      BY <1>8, <2>1
    <3>2. t < slot /\ devices[t].queues[i].portal[1] < dev
      BY <2>1, <3>1 DEF IInv, PlaceInv
    <3>3. devices[t].queues[i].portal[1] \in Nat /\ t \in Nat
      BY <3>1, QueueType, InitAssumption DEF IInv, Slots
    <3> QED  BY <1>1, <3>1, <3>2, <3>3
  <2>2. CASE t = slot
    <3>1. i \in DOMAIN q /\ p[i] \in DOMAIN q /\ devices'[t].queues[i] = q[p[i]]
      BY <1>5, <1>7, <1>8, <2>2
    <3>2. Len(q) # 0
      BY <1>3, <3>1
    <3>3. q[p[i]].portal[1] = dev
      BY <1>1, <1>3, <3>1, QueueType DEF IInv, PlaceInv
    <3> QED  BY <1>1, <2>2, <3>1, <3>2, <3>3
  <2> QED  BY <2>1, <2>2
<1>16. PortalOwnership'
  <2>1. (Held \subseteq mapped)'
    BY <1>1, <1>10 DEF IInv, PortalOwnership
  <2> SUFFICES ASSUME NEW t \in Slots, NEW u \in Slots,
                      NEW i \in DOMAIN devices'[t].queues, NEW j \in DOMAIN devices'[u].queues,
                      devices'[t].queues[i].portal = devices'[u].queues[j].portal
               PROVE  t = u /\ i = j
    BY <2>1 DEF PortalOwnership
  <2> DEFINE Origin(v, k) == IF v = slot THEN p[k] ELSE k
  <2>2. ASSUME NEW v \in Slots, NEW k \in DOMAIN devices'[v].queues
        PROVE  /\ Origin(v, k) \in DOMAIN devices[v].queues
               /\ devices'[v].queues[k] = devices[v].queues[Origin(v, k)]
    BY <1>3, <1>5, <1>7, <1>8, ZenonT(60)
  <2>3. t = u /\ Origin(t, i) = Origin(u, j)
    <3> HIDE DEF Origin
    <3> QED  BY <2>2 DEF IInv, PortalOwnership
  <2> QED  BY <1>5, <1>7, <1>8, <2>3
<1>17. MappedInv'
  BY <1>1, <1>10, PlatformKept DEF IInv, MappedInv
<1>18. TableInv'
  <2> SUFFICES ASSUME NEW d \in Before(dev)'
               PROVE  Holds(Cardinality(Before(d)), d, Last(d))' /\ Rising(Cardinality(Before(d)))'
    BY <1>1, <1>12 DEF TableInv
  <2>1. CASE d \in Before(dev)
    <3>1. \A t \in Slots : t < slot => devices'[t] = devices[t]
      BY <1>1, <1>8 DEF Slots
    <3> QED  BY <1>1, <2>1, <3>1, FinishedKept
  <2>2. CASE d \notin Before(dev)
    <3>1. d = dev /\ Cardinality(Before(d)') = slot /\ Last(d)' = Last(d)
      BY <1>1, <1>12, <2>2, PlatformKept, SMTT(60)
    <3>2. QueuesBefore(d, Last(d))' = QueuesBefore(dev, Last(dev))
      BY <1>1, <3>1, PlatformKept
    <3>3. HeldBy(Cardinality(Before(d)))' = {<<d, v>> : v \in QueuesBefore(d, Last(d))'}
      <4>1. \A t : t = slot => HeldBy(t)' = HeldBy(slot)
        BY <1>1, <1>9
      <4>2. HeldBy(Cardinality(Before(d)))' = HeldBy(slot)
        BY <3>1, <4>1
      <4> QED  BY <1>11, <3>1, <3>2, <4>2 DEF Holds
    <3>4. ASSUME NEW i \in DOMAIN s
          PROVE  s[i].priority = env.devices[d].wqs[s[i].portal[2]].priority
      <4>1. p[i] \in DOMAIN q /\ s[i] = q[p[i]]
        BY <1>5, <1>7, SMTT(60)
      <4>2. \A k \in DOMAIN q : q[k].priority = env.devices[dev].wqs[q[k].portal[2]].priority
        BY <1>3, <1>11 DEF Holds
      <4> QED  BY <3>1, <4>1, <4>2, SMTT(60)
    <3>5. /\ devices[slot].numa = env.devices[d].numa
          /\ Len(s) = Cardinality(QueuesBefore(d, Last(d))') /\ Len(s) <= MaxQueues
      BY <1>3, <1>5, <1>11, <3>1, <3>2 DEF Holds
    <3>6. Holds(Cardinality(Before(d)), d, Last(d))'
      BY <1>1, <1>8, <3>1, <3>3, <3>4, <3>5 DEF Holds
    <3>7. Rising(Cardinality(Before(d)))'
      BY <1>5, <1>8, <3>1 DEF Rising
    <3> QED  BY <3>6, <3>7
  <2> QED  BY <2>1, <2>2
<1> QED  BY <1>1, <1>13, <1>14, <1>15, <1>16, <1>17, <1>18
            DEF IInv, CleanExit, FaultsOnlyOutsideLimits

\* The end of initialize_hw: all devices have been looked at.
LEMMA FinishInitInv == IInv /\ FinishInit => IInv'
<1> SUFFICES ASSUME IInv, FinishInit PROVE IInv'
  OBVIOUS
<1>1. /\ UNCHANGED <<env, library, dev, wq, slot, devices, mapped>>
      /\ pc = "devices" /\ context = "open"
      /\ \/ slot = 0 /\ pc' = "failed" /\ status' = "WORK_QUEUES_NOT_AVAILABLE" /\ context' = context
         \/ slot > 0 /\ pc' = "ready" /\ status' = "OK" /\ context' = "kept"
  BY DEF FinishInit, IInv, ProgressInv
<1>2. dev = Len(env.devices) + 1 /\ dev \in Nat
  <2>1. ~(dev <= Len(env.devices)) /\ dev <= Len(env.devices) + 1 /\ dev \in Nat
    BY <1>1 DEF FinishInit, HasDevice, IInv, ProgressInv, TypeOK
  <2> QED  BY <2>1, PlatformType DEF IInv
<1>3. Before(dev) = UsableDevices /\ slot = Cardinality(UsableDevices)
  <2>1. Before(dev) = UsableDevices
    BY <1>2, UsableFinite, PlatformType DEF Before, Below, IInv
  <2> QED  BY <1>1, <2>1 DEF IInv, TableInv
<1>4. slot = 0 => UsableDevices = {}
  BY <1>3, UsableFinite, FS_EmptySet DEF IInv
<1>5. TypeOK'
  BY <1>1 DEF IInv, TypeOK, Working
<1>6. ProgressInv'
  BY <1>1, <1>2, <1>4, PlatformKept DEF IInv, ProgressInv
<1>7. PlaceInv'
  BY <1>1 DEF IInv, PlaceInv
<1>8. PortalOwnership' /\ MappedInv'
  BY <1>1, OwnershipKept, PlatformKept DEF IInv, MappedInv
<1>9. TableInv'
  <2>1. Before(dev)' = Before(dev) /\ slot' = Cardinality(Before(dev)')
    BY <1>1 DEF IInv, TableInv, Before, Below, UsableDevices, UsableQueues
  <2>2. \A d \in Before(dev) :
          Holds(Cardinality(Before(d)), d, Last(d))' /\ Rising(Cardinality(Before(d)))'
    BY <1>1, FinishedKept
  <2> QED  BY <1>1, <2>1, <2>2 DEF TableInv
<1> QED  BY <1>1, <1>5, <1>6, <1>7, <1>8, <1>9 DEF IInv, CleanExit, FaultsOnlyOutsideLimits

\* ~hw_dispatcher unmaps what the queue objects hold.
LEMMA DestroyInv == IInv /\ Destroy => IInv'
<1> SUFFICES ASSUME IInv, Destroy PROVE IInv'
  OBVIOUS
<1>1. /\ UNCHANGED <<env, dev, wq, slot, status>>
      /\ pc \in {"ready", "failed"} /\ pc' = "exit"
      /\ context' = IF context = "kept" THEN "none" ELSE context
      /\ library' = "closed" /\ mapped' = mapped \ Held
      /\ devices' = [s \in Slots |-> [devices[s] EXCEPT !.queues = <<>>]]
  BY DEF Destroy
<1>2. \A s \in Slots : devices'[s].queues = <<>> /\ DOMAIN devices'[s].queues = {}
  BY <1>1 DEF IInv, TypeOK
<1>3. devices' \in [Slots -> [numa : Nat, queues : Seq(Queue)]]
  <2>1. ASSUME NEW s \in Slots
        PROVE  [devices[s] EXCEPT !.queues = <<>>] \in [numa : Nat, queues : Seq(Queue)]
    <3>1. devices[s] \in [numa : Nat, queues : Seq(Queue)] /\ <<>> \in Seq(Queue)
      BY DEF IInv, TypeOK
    <3> QED  BY <3>1
  <2> QED  BY <1>1, <2>1
<1>4. TypeOK'
  <2>1. mapped' \subseteq Portals /\ context' \in {"none", "open", "kept"} /\ pc' = "exit"
    BY <1>1 DEF IInv, TypeOK
  <2>2. UNCHANGED <<env, dev, wq, slot, status>> /\ library' = "closed"
    BY <1>1
  <2> QED  BY <1>3, <2>1, <2>2 DEF IInv, TypeOK
<1>5. ProgressInv' /\ PlaceInv'
  BY <1>1, <1>2 DEF ProgressInv, PlaceInv
<1>6. Held' = {}
  BY <1>2 DEF Held, HeldBy
<1>7. PortalOwnership'
  BY <1>2, <1>6 DEF PortalOwnership
<1>8. \A p \in mapped' : Forgotten(p)'
  BY <1>1, PlatformKept DEF IInv, MappedInv
<1>9. MappedInv'
  BY <1>8 DEF MappedInv
<1>10. CleanExit'
  BY <1>1, <1>8, PlatformKept DEF IInv, ProgressInv, CleanExit
<1> QED  BY <1>1, <1>4, <1>5, <1>7, <1>9, <1>10 DEF IInv, TableInv, FaultsOnlyOutsideLimits

\* Every step of constructor and destructor keeps the invariant.
LEMMA NextInv == IInv /\ [Next]_vars => IInv'
<1> SUFFICES ASSUME IInv, [Next]_vars PROVE IInv'
  OBVIOUS
<1>1. CASE UNCHANGED vars
  <2>1. UNCHANGED <<env, pc, library, context, dev, wq, slot, devices, mapped, status>>
    BY <1>1 DEF vars
  <2>2. TypeOK' /\ PlaceInv'
    BY <2>1 DEF IInv, TypeOK, PlaceInv
  <2>6. CleanExit'
    BY <2>1, PlatformKept DEF IInv, CleanExit
  <2>7. FaultsOnlyOutsideLimits'
    BY <2>1, PlatformKept DEF IInv, FaultsOnlyOutsideLimits
  <2>3. ProgressInv'
    BY <2>1, PlatformKept DEF IInv, ProgressInv, HasDevice, Fit
  <2>4. PortalOwnership' /\ MappedInv'
    BY <2>1, OwnershipKept, PlatformKept DEF IInv, MappedInv
  <2>5. TableInv'
    <3>1. Before(dev)' = Before(dev) /\ QueuesBefore(dev, wq)' = QueuesBefore(dev, wq)
      BY <2>1 DEF Before, QueuesBefore, Below, UsableDevices, UsableQueues
    <3>2. HeldBy(slot)' = HeldBy(slot) /\ Last(dev)' = Last(dev)
      BY <2>1 DEF HeldBy, Last
    <3>3. Holds(slot, dev, wq)' <=> Holds(slot, dev, wq)
      BY <2>1, <3>1, <3>2 DEF Holds
    <3>4. pc \in {"devices", "queues", "ready"} => \A d \in Before(dev) :
            Holds(Cardinality(Before(d)), d, Last(d))' /\ Rising(Cardinality(Before(d)))'
      BY <2>1, FinishedKept
    <3> QED  BY <2>1, <3>1, <3>2, <3>3, <3>4 DEF IInv, TableInv
  <2> QED  BY <2>2, <2>3, <2>4, <2>5, <2>6, <2>7 DEF IInv
<1> QED
  BY <1>1, LoadDriverInv, NewContextInv, InitDeviceInv, InitQueueInv, FinishDeviceInv,
     FinishInitInv, DestroyInv DEF Next

-----------------------------------------------------------------------------
\* The inductive invariant holds throughout.
THEOREM Inductive == Spec => []IInv
  BY InitInv, NextInv, PTL DEF Spec

\* The cursors of initialize_hw stay in range and its tables well formed.
THEOREM TypeCorrect == Spec => []TypeOK
<1>1. IInv => TypeOK
  BY SMTT(60) DEF IInv
<1> QED  BY <1>1, Inductive, PTL

\* When the hardware path is offered, hw_dispatcher has found exactly the usable
\* devices and queues, in order: the table hardware_device::submit works on.
THEOREM TableReady == Spec => []ReadyTable
<1>1. IInv => ReadyTable
  <2> SUFFICES ASSUME IInv, pc = "ready" PROVE ReadyTable
    BY DEF ReadyTable
  <2>1. dev = Len(env.devices) + 1 /\ slot > 0
    BY DEF IInv, ProgressInv
  <2>2. Before(dev) = UsableDevices
    BY <2>1, UsableFinite, PlatformType DEF Before, Below, IInv
  <2>3. slot = Cardinality(UsableDevices)
    BY <2>2, SMTT(60) DEF IInv, TableInv
  <2>4. ASSUME NEW d \in UsableDevices
        PROVE  LET s == Cardinality({e \in UsableDevices : e < d})
                   q == devices[s].queues
               IN  /\ devices[s].numa = env.devices[d].numa
                   /\ Len(q) = Cardinality(UsableQueues(d)) /\ Len(q) \in 1 .. MaxQueues
                   /\ HeldBy(s) = {<<d, w>> : w \in UsableQueues(d)}
                   /\ \A i \in DOMAIN q : q[i].priority = env.devices[d].wqs[q[i].portal[2]].priority
                   /\ \A i, j \in DOMAIN q : i < j => q[i].priority <= q[j].priority
    <3> DEFINE s == Cardinality(Before(d))
    <3>1. s = Cardinality({e \in UsableDevices : e < d})
      BY DEF Before, Below
    <3>2. Holds(s, d, Last(d)) /\ Rising(s) /\ s \in Slots
      BY <2>2, EarlierSlots DEF IInv, TableInv
    <3> HIDE DEF s
    <3>3. QueuesBefore(d, Last(d)) = UsableQueues(d)
      BY UsableFinite, PlatformType, SMTT(60) DEF QueuesBefore, Below, Last, IInv
    <3>4. Len(devices[s].queues) \in 1 .. MaxQueues
      <4>1. IsFiniteSet(UsableQueues(d)) /\ UsableQueues(d) # {}
        BY UsableFinite DEF UsableDevices, IInv
      <4>2. Cardinality(UsableQueues(d)) # 0
        BY <4>1, FS_EmptySet
      <4> QED  BY <3>2, <3>3, <4>2, QueueType, InitAssumption, SMTT(60) DEF Holds, IInv
    <3>5. /\ devices[s].numa = env.devices[d].numa
          /\ Len(devices[s].queues) = Cardinality(UsableQueues(d))
          /\ HeldBy(s) = {<<d, w>> : w \in UsableQueues(d)}
          /\ \A i \in DOMAIN devices[s].queues :
                devices[s].queues[i].priority =
                  env.devices[d].wqs[devices[s].queues[i].portal[2]].priority
      BY <3>2, <3>3 DEF Holds
    <3>6. \A i, j \in DOMAIN devices[s].queues :
            i < j => devices[s].queues[i].priority <= devices[s].queues[j].priority
      BY <3>2 DEF Rising
    <3> QED  BY <3>1, <3>4, <3>5, <3>6
  <2> QED  BY <2>1, <2>3, <2>4, ZenonT(60) DEF ReadyTable
<1> QED  BY <1>1, Inductive, PTL

\* Moving queue objects about never leaves two with the same portal or one with a
\* portal that is not mapped.
THEOREM PortalsOwned == Spec => []PortalOwnership
<1>1. IInv => PortalOwnership
  BY DEF IInv
<1> QED  BY <1>1, Inductive, PTL

\* The destructor gives back all but what initialisation forgot.
THEOREM ExitIsClean == Spec => []CleanExit
<1>1. IInv => CleanExit
  BY DEF IInv
<1> QED  BY <1>1, Inductive, PTL

\* The fixed arrays are left on platforms past their limits only, and unresolved
\* functions are called only in a library that lacks one.
THEOREM FaultsBounded == Spec => []FaultsOnlyOutsideLimits
<1>1. IInv => FaultsOnlyOutsideLimits
  BY DEF IInv
<1> QED  BY <1>1, Inductive, PTL
=============================================================================
