----------------------------- MODULE BatchProofs -----------------------------
(***************************************************************************)
(* Safety of Batch for every capacity, every set of members and any number  *)
(* of calls, submissions and page faults.                                   *)
(***************************************************************************)
EXTENDS Batch, TLAPS, FiniteSetTheorems, WellFoundedInduction

\* The slots that count have not all the same past: how far each of them is
\* depends on who has the batch.
StageInv ==
    /\ pc = "enqueue" => index = 0 /\ \A i \in Slots : runs[i] = 0
    /\ pc = "device" => \A i \in Slots : runs[i] > 0 => i < Count
    /\ pc = "software" => \A i \in Slots :
          IF i < index THEN runs[i] = 1 /\ rec[i].status = Success ELSE runs[i] = 0
    /\ pc = "stopped" => index < Count /\ runs[index] = 1 /\ rec[index].status # Success

\* Success in a record means that its slot has been executed since it was set.
FreshInv == \A i \in Slots : rec[i].status = Success => i \in fresh

\* What the record of a batch says of its members until they change.
OutcomeInv ==
    pc \in {"submitted", "done"} =>
        /\ batch.status \in {Success, BatchError, BatchPageFault}
        /\ batch.status = Success =>
              \A i \in 0 .. Count - 1 : runs[i] = 1 /\ rec[i].status = Success
        /\ batch.status = BatchError => \E i \in ran : rec[i].status # Success

\* The status the caller has read is that of the record of the batch.
ReadInv == pc = "done" => status = to_own_status(batch.status)

IInv ==
    /\ TypeOK
    /\ OnlyValidMembers
    /\ MemberRunsOnce
    /\ StageInv
    /\ FreshInv
    /\ OutcomeInv
    /\ ReadInv

Statuses == Processing .. PageFault \cup {BatchError, BatchPageFault}

-----------------------------------------------------------------------------
\* Some slots, some natural numbers in general, always have a first one.
LEMMA FirstOfThem ==
    ASSUME NEW T \in SUBSET Nat, T # {}
    PROVE  \E n \in T : \A k \in T : n <= k
<1> DEFINE R == {ss \in Nat \X Nat : ss[1] < ss[2]}
<1>1. IsWellFoundedOn(R, Nat)
  BY NatLessThanWellFounded DEF OpToRel
<1>2. PICK n \in T : \A k \in T : ~ (<<k, n>> \in R)
  <2> HIDE DEF R
  <2> QED  BY <1>1, WFMin
<1>3. ASSUME NEW k \in T
      PROVE  n <= k
  <2>1. k \in Nat /\ n \in Nat
    OBVIOUS
  <2>2. k < n => <<k, n>> \in R
    BY <2>1
  <2> QED  BY <1>2, <2>1, <2>2
<1> QED  BY <1>3

\* Only one execution_status reads as ok, and no finished batch as an internal
\* error (to_own_status).
LEMMA ToOwnStatusValue ==
    /\ \A s \in Statuses : to_own_status(s) = "ok" <=> s = Success
    /\ \A s \in Statuses : to_own_status(s) = "batch_error" <=> s = BatchError
    /\ \A s \in {Success, BatchError, BatchPageFault} :
          to_own_status(s) \notin {"being_processed", "internal_error"}
  BY DEF Statuses, to_own_status, Processing, Success, FalsePredicate, PageFault,
         BatchError, BatchPageFault

\* What a kernel leaves in a completion record is one of its final statuses.
LEMMA RecordType ==
    ASSUME NEW m, NEW c
    PROVE  /\ Record(m, c) \in [status : {Success, FalsePredicate}, result : 0 .. 1]
           /\ Record(m, c) \in [status : Processing .. PageFault, result : 0 .. 1]
  BY DEF Record, Predicate, BlankRecord, Processing, Success, FalsePredicate, PageFault

\* A slot of the batch is a slot of the buffer.
LEMMA CountInBuffer ==
    ASSUME TypeOK
    PROVE  /\ Count \in 0 .. Capacity
           /\ Slots \subseteq Nat
           /\ \A i \in 0 .. Count - 1 : i \in Slots
  BY CapacityAssumption DEF TypeOK, Count, Slots

\* The device runs members of the batch only, so it cannot complete more of them
\* than the batch has.
LEMMA RanWithinCount ==
    ASSUME TypeOK, \A i \in Slots : runs[i] > 0 => i < Count
    PROVE  Cardinality(ran) \in 0 .. Count
<1>1. ran \subseteq 0 .. Count - 1
  BY CountInBuffer, CapacityAssumption DEF ran, Slots
<1>2. IsFiniteSet(0 .. Count - 1) /\ Cardinality(0 .. Count - 1) = Count
  <2>1. 0 \in Int /\ Count - 1 \in Int /\ Count \in Nat
    BY CountInBuffer, CapacityAssumption
  <2>2. Cardinality(0 .. Count - 1) = IF 0 > Count - 1 THEN 0 ELSE Count - 1 - 0 + 1
    BY <2>1, FS_Interval
  <2> QED  BY <2>1, <2>2, FS_Interval
<1>3. Cardinality(ran) <= Count /\ IsFiniteSet(ran)
  BY <1>1, <1>2, FS_Subset
<1>4. Cardinality(ran) \in Nat
  BY <1>3, FS_CardinalityType
<1> QED  BY <1>3, <1>4, CountInBuffer, CapacityAssumption

\* When the device has nothing left to start although members are left over, one
\* of those it has run did not succeed: otherwise it could start the first of
\* them, whatever the fences.
LEMMA DeviceStopsOnFailureOnly ==
    ASSUME TypeOK,
           \A i \in Slots : ~Startable(i),
           \E i \in 0 .. Count - 1 : ~(i \in ran /\ rec[i].status = Success)
    PROVE  \E i \in ran : rec[i].status # Success
<1> SUFFICES ASSUME \A i \in ran : rec[i].status = Success
             PROVE  FALSE
  OBVIOUS
<1> DEFINE Left == {i \in 0 .. Count - 1 : i \notin ran}
<1>1. Left # {} /\ Left \subseteq Nat
  BY CountInBuffer
<1>2. PICK n \in Left : \A k \in Left : n <= k
  BY <1>1, FirstOfThem
<1>3. \A k \in 0 .. n - 1 : k \in ran
  BY <1>2, CountInBuffer, CapacityAssumption
<1>4. Startable(n)
  BY <1>2, <1>3 DEF Startable, BeforeFence
<1> QED  BY <1>2, <1>4, CountInBuffer
-----------------------------------------------------------------------------
\* The batch starts empty.
LEMMA InitInv == Init => IInv
<1> SUFFICES ASSUME Init PROVE IInv
  OBVIOUS
<1> USE CapacityAssumption DEF Init, Processing, Success, PageFault, BatchError, BatchPageFault
<1>1. TypeOK
  BY DEF TypeOK, Slots, Count, BlankRecord, BlankBatch, FalsePredicate
<1>2. OnlyValidMembers /\ MemberRunsOnce /\ FreshInv
  BY DEF OnlyValidMembers, MemberRunsOnce, FreshInv, BlankRecord, Slots
<1>3. StageInv /\ OutcomeInv /\ ReadInv
  BY DEF StageInv, OutcomeInv, ReadInv
<1> QED  BY <1>1, <1>2, <1>3 DEF IInv

\* Filling in a slot, with a member that counts only if it is valid.
LEMMA SetByIndexInv == IInv /\ SetByIndex => IInv'
<1> SUFFICES ASSUME IInv, SetByIndex PROVE IInv'
  OBVIOUS
<1>1. PICK i \in 0 .. Capacity, m \in Members : set_by_index(i, m)
  BY DEF SetByIndex
<1> USE DEF SetByIndex
<1>a. Count' = Count
  BY DEF Count
<1>2. CASE i \in Slots /\ Validate(m)
  <2>1. /\ dsc' = [dsc EXCEPT ![i] = m]
        /\ rec' = [rec EXCEPT ![i] = BlankRecord]
        /\ fresh' = fresh \ {i}
    BY <1>1, <1>2 DEF set_by_index, Assign
  <2>2. TypeOK'
    BY <2>1, <1>2, <1>a DEF IInv, TypeOK, BlankRecord, Processing, PageFault
  <2>3. OnlyValidMembers'
    BY <2>1, <1>2 DEF IInv, TypeOK, OnlyValidMembers, Validate
  <2>4. FreshInv'
    BY <2>1, <1>2 DEF IInv, TypeOK, FreshInv, BlankRecord, Processing, Success
  <2> QED  BY <2>2, <2>3, <2>4 DEF IInv, MemberRunsOnce, StageInv, OutcomeInv, ReadInv
<1>3. CASE ~(i \in Slots /\ Validate(m))
  <2>1. UNCHANGED <<dsc, rec, fresh>>
    BY <1>1, <1>3 DEF set_by_index
  <2> QED  BY <2>1, <1>a DEF IInv, TypeOK, OnlyValidMembers, FreshInv, MemberRunsOnce,
                             StageInv, OutcomeInv, ReadInv, Validate
<1> QED  BY <1>2, <1>3

\* sequence::add: the slot behind the last member is overwritten, and counts from
\* then on only if its task is valid.
LEMMA AddInv == IInv /\ Add => IInv'
<1> SUFFICES ASSUME IInv, Add PROVE IInv'
  OBVIOUS
<1>1. PICK m \in Members : add(m)
  BY DEF Add
<1> USE DEF Add
<1>2. CASE length = Capacity
  <2>1. UNCHANGED <<dsc, rec, length, fresh>> /\ Count' = Count
    BY <1>1, <1>2 DEF add, Count
  <2> QED  BY <2>1 DEF IInv, TypeOK, OnlyValidMembers, FreshInv, MemberRunsOnce,
                       StageInv, OutcomeInv, ReadInv, Validate
<1>3. CASE length # Capacity
  <2>1. /\ dsc' = [dsc EXCEPT ![length] = m]
        /\ rec' = [rec EXCEPT ![length] = BlankRecord]
        /\ fresh' = fresh \ {length}
        /\ length' = IF Validate(m) THEN length + 1 ELSE length
    BY <1>1, <1>3 DEF add, Assign
  <2>2. length \in Slots /\ length' \in 0 .. Capacity
    BY <1>3, <2>1, CapacityAssumption DEF IInv, TypeOK, Slots
  <2>3. Count = length /\ Count' = length' /\ length <= length'
    BY <2>1, <2>2 DEF Count, IInv, TypeOK
  <2>4. TypeOK'
    BY <2>1, <2>2, <2>3 DEF IInv, TypeOK, BlankRecord, Processing, PageFault
  <2>5. OnlyValidMembers'
    <3> SUFFICES ASSUME NEW i \in Slots, i < length'
                 PROVE  Validate(dsc[i])'
      BY DEF OnlyValidMembers
    <3>1. CASE i = length
      BY <3>1, <2>1, <2>2 DEF IInv, TypeOK, Validate, Slots
    <3>2. CASE i # length
      <4>1. i < length /\ dsc'[i] = dsc[i]
        BY <3>2, <2>1, <2>2 DEF IInv, TypeOK, Slots
      <4> QED  BY <4>1 DEF IInv, OnlyValidMembers, Validate
    <3> QED  BY <3>1, <3>2
  <2>6. FreshInv'
    BY <2>1, <2>2 DEF IInv, TypeOK, FreshInv, BlankRecord, Processing, Success
  <2> QED  BY <2>4, <2>5, <2>6 DEF IInv, MemberRunsOnce, StageInv, OutcomeInv, ReadInv
<1> QED  BY <1>2, <1>3

\* A new submission forgets the executions of the one before it.
LEMMA SubmitInv ==
    ASSUME IInv, NEW p \in {"software", "hardware", "automatic"}, Submit(p)
    PROVE  IInv'
<1> USE DEF Submit, program
<1>1. Count' = Count /\ Count \in Nat
  BY CountInBuffer, CapacityAssumption DEF Count, IInv
<1>2. pc' \in {"idle", "software", "enqueue"}
  OBVIOUS
<1>3. TypeOK'
  BY <1>1, <1>2 DEF IInv, TypeOK, BlankBatch, Processing
<1>4. OnlyValidMembers'
  BY DEF IInv, OnlyValidMembers, Validate
<1>5. MemberRunsOnce' /\ FreshInv'
  BY DEF IInv, MemberRunsOnce, FreshInv
<1>6. StageInv'
  BY <1>2, CapacityAssumption DEF StageInv, Slots
<1> QED  BY <1>2, <1>3, <1>4, <1>5, <1>6 DEF IInv, OutcomeInv, ReadInv

\* What every step keeps that changes neither members nor records.
LEMMA MembersKept ==
    ASSUME IInv, UNCHANGED <<api, path, dsc, rec, length, runs, fresh>>
    PROVE  /\ OnlyValidMembers' /\ MemberRunsOnce' /\ FreshInv'
           /\ Count' = Count /\ ran' = ran
  BY DEF IInv, OnlyValidMembers, MemberRunsOnce, FreshInv, Validate, Count, ran

\* A queue takes the batch, or none does and the automatic path starts over in
\* software, where nothing has run yet.
LEMMA EnqueueInv == IInv /\ (HwAccept \/ HwRefuse) => IInv'
<1> SUFFICES ASSUME IInv, HwAccept \/ HwRefuse PROVE IInv'
  OBVIOUS
<1>1. /\ UNCHANGED <<api, path, dsc, rec, length, runs, fresh, index, batch>>
      /\ pc = "enqueue" /\ pc' \in {"device", "software", "idle"}
  BY DEF HwAccept, HwRefuse, program
<1>2. TypeOK'
  BY <1>1, MembersKept DEF IInv, TypeOK
<1>3. StageInv'
  BY <1>1, MembersKept, CapacityAssumption DEF IInv, StageInv, Slots
<1> QED  BY <1>1, <1>2, <1>3, MembersKept DEF IInv, OutcomeInv, ReadInv

\* What the execution of slot i, by a kernel or by the device, with success or
\* not, keeps.
LEMMA ExecutedKept ==
    ASSUME IInv, NEW i \in Slots, runs[i] = 0,
           NEW r \in [status : Processing .. PageFault, result : 0 .. 1],
           rec' = [rec EXCEPT ![i] = r],
           runs' = [runs EXCEPT ![i] = @ + 1],
           fresh' = fresh \cup {i},
           UNCHANGED <<api, path, dsc, length>>
    PROVE  /\ OnlyValidMembers' /\ MemberRunsOnce' /\ FreshInv'
           /\ Count' = Count
           /\ rec' \in [Slots -> [status : Processing .. PageFault, result : 0 .. 1]]
           /\ runs' \in [Slots -> Nat] /\ fresh' \subseteq Slots
           /\ runs'[i] = 1 /\ rec'[i] = r
           /\ \A k \in Slots : k # i => runs'[k] = runs[k] /\ rec'[k] = rec[k]
<1>1. OnlyValidMembers' /\ Count' = Count
  BY DEF IInv, OnlyValidMembers, Validate, Count
<1>2. /\ rec' \in [Slots -> [status : Processing .. PageFault, result : 0 .. 1]]
      /\ runs' \in [Slots -> Nat] /\ fresh' \subseteq Slots
  BY DEF IInv, TypeOK
<1>3. /\ runs'[i] = 1 /\ rec'[i] = r
      /\ \A k \in Slots : k # i => runs'[k] = runs[k] /\ rec'[k] = rec[k]
  BY DEF IInv, TypeOK
<1>4. MemberRunsOnce'
  BY <1>3 DEF IInv, MemberRunsOnce
<1>5. FreshInv'
  BY <1>3 DEF IInv, FreshInv
<1> QED  BY <1>1, <1>2, <1>3, <1>4, <1>5

\* One turn of the loop of the software kernel.
LEMMA SwMemberInv == IInv /\ SwMember => IInv'
<1> SUFFICES ASSUME IInv, SwMember PROVE IInv'
  OBVIOUS
<1> DEFINE r == Record(dsc[index], mem)
<1>1. /\ index \in 0 .. Count - 1 /\ index \in Slots /\ Count \in Nat
      /\ runs[index] = 0
  BY CountInBuffer, CapacityAssumption DEF IInv, TypeOK, SwMember, StageInv
<1>2. r \in [status : Processing .. PageFault, result : 0 .. 1]
  BY RecordType
<1>3. /\ rec' = [rec EXCEPT ![index] = r]
      /\ runs' = [runs EXCEPT ![index] = @ + 1]
      /\ fresh' = fresh \cup {index}
      /\ UNCHANGED <<api, path, dsc, length, batch>>
  BY DEF SwMember, Run, program
<1> HIDE DEF r
<1>4. /\ OnlyValidMembers' /\ MemberRunsOnce' /\ FreshInv'
      /\ Count' = Count
      /\ rec' \in [Slots -> [status : Processing .. PageFault, result : 0 .. 1]]
      /\ runs' \in [Slots -> Nat] /\ fresh' \subseteq Slots
      /\ runs'[index] = 1 /\ rec'[index] = r
      /\ \A k \in Slots : k # index => runs'[k] = runs[k] /\ rec'[k] = rec[k]
  BY <1>1, <1>2, <1>3, ExecutedKept
<1>5. CASE r.status # Success
  <2>1. pc' = "stopped" /\ index' = index
    BY <1>4, <1>5 DEF SwMember, Stops
  <2>2. TypeOK'
    BY <1>3, <1>4, <2>1 DEF IInv, TypeOK
  <2>3. StageInv'
    BY <1>1, <1>4, <1>5, <2>1 DEF StageInv, Success
  <2> QED  BY <1>4, <2>1, <2>2, <2>3 DEF IInv, OutcomeInv, ReadInv
<1>6. CASE r.status = Success
  <2>1. pc' = "software" /\ index' = index + 1
    BY <1>4, <1>6 DEF SwMember, Stops
  <2>2. TypeOK'
    BY <1>1, <1>3, <1>4, <2>1 DEF IInv, TypeOK
  <2>3. StageInv'
    <3> SUFFICES ASSUME NEW i \in Slots
                 PROVE  IF i < index' THEN runs'[i] = 1 /\ rec'[i].status = Success
                                      ELSE runs'[i] = 0
      BY <2>1 DEF StageInv, Success
    <3>1. CASE i = index
      BY <3>1, <1>1, <1>4, <1>6, <2>1
    <3>2. CASE i # index
      <4>1. i \in Nat /\ (i < index' <=> i < index)
        BY <3>2, <1>1, <2>1, CapacityAssumption DEF Slots
      <4> QED  BY <3>2, <4>1, <1>4 DEF IInv, StageInv, SwMember
    <3> QED  BY <3>1, <3>2
  <2> QED  BY <1>4, <2>1, <2>2, <2>3 DEF IInv, OutcomeInv, ReadInv
<1> QED  BY <1>5, <1>6

\* The software kernel writes the record of the batch.
LEMMA SwFinishInv == IInv /\ SwFinish => IInv'
<1> SUFFICES ASSUME IInv, SwFinish PROVE IInv'
  OBVIOUS
<1>1. /\ UNCHANGED <<api, path, dsc, rec, length, runs, fresh>>
      /\ pc' = "submitted" /\ index' = 0 /\ batch' = SwBatchRecord
  BY DEF SwFinish, program
<1>2. /\ OnlyValidMembers' /\ MemberRunsOnce' /\ FreshInv'
      /\ Count' = Count /\ ran' = ran
  BY <1>1, MembersKept
<1>3. Count \in Nat /\ index \in 0 .. Count
  BY CountInBuffer, CapacityAssumption DEF IInv, TypeOK
<1>4. TypeOK'
  BY <1>1, <1>2, <1>3 DEF IInv, TypeOK, SwBatchRecord
<1>5. OutcomeInv'
  <2>1. CASE index = Count
    <3>1. pc = "software"
      BY <2>1, <1>3 DEF SwFinish, IInv, StageInv
    <3>2. \A i \in 0 .. Count - 1 : runs[i] = 1 /\ rec[i].status = Success
      BY <3>1, <2>1, CountInBuffer DEF IInv, StageInv
    <3> QED  BY <3>2, <2>1, <1>1, <1>2 DEF OutcomeInv, SwBatchRecord, Success, BatchError
  <2>2. CASE index # Count
    <3>1. index \in Slots /\ runs[index] = 1 /\ rec[index].status # Success
      BY <2>2, <1>3, CountInBuffer DEF SwFinish, IInv, StageInv
    <3>2. \E i \in ran : rec[i].status # Success
      BY <3>1 DEF ran
    <3> QED  BY <3>2, <2>2, <1>1, <1>2 DEF OutcomeInv, SwBatchRecord, Success, BatchError
  <2> QED  BY <2>1, <2>2
<1> QED  BY <1>1, <1>2, <1>4, <1>5 DEF IInv, StageInv, ReadInv

\* The device runs a member, or a page fault stops it.
LEMMA HwMemberInv == IInv /\ (HwMember \/ HwMemberFault) => IInv'
<1> SUFFICES ASSUME IInv, HwMember \/ HwMemberFault PROVE IInv'
  OBVIOUS
<1>1. PICK i \in Slots, r \in [status : Processing .. PageFault, result : 0 .. 1] :
        /\ Startable(i)
        /\ rec' = [rec EXCEPT ![i] = r]
        /\ runs' = [runs EXCEPT ![i] = @ + 1]
        /\ fresh' = fresh \cup {i}
  <2>1. CASE HwMember
    BY <2>1, RecordType DEF HwMember, Run
  <2>2. CASE HwMemberFault
    <3>1. [BlankRecord EXCEPT !.status = PageFault]
              \in [status : Processing .. PageFault, result : 0 .. 1]
      BY DEF BlankRecord, Processing, PageFault
    <3> QED  BY <2>2, <3>1 DEF HwMemberFault
  <2> QED  BY <2>1, <2>2
<1>2. /\ UNCHANGED <<api, path, dsc, length, batch, index, pc>>
      /\ pc = "device"
  BY DEF HwMember, HwMemberFault, program
<1>3. runs[i] = 0 /\ i < Count
  BY <1>1, CountInBuffer, CapacityAssumption DEF Startable, ran, IInv, TypeOK
<1>4. /\ OnlyValidMembers' /\ MemberRunsOnce' /\ FreshInv'
      /\ Count' = Count
      /\ rec' \in [Slots -> [status : Processing .. PageFault, result : 0 .. 1]]
      /\ runs' \in [Slots -> Nat] /\ fresh' \subseteq Slots
      /\ \A k \in Slots : k # i => runs'[k] = runs[k] /\ rec'[k] = rec[k]
  BY <1>1, <1>2, <1>3, ExecutedKept
<1>5. TypeOK'
  BY <1>2, <1>4 DEF IInv, TypeOK
<1>6. StageInv'
  BY <1>2, <1>3, <1>4 DEF IInv, StageInv
<1> QED  BY <1>2, <1>4, <1>5, <1>6 DEF IInv, OutcomeInv, ReadInv

\* The device writes the record of the batch: it has nothing left to start, or
\* cannot read the next descriptor.
LEMMA HwFinishInv == IInv /\ (HwFinish \/ HwListFault) => IInv'
<1> SUFFICES ASSUME IInv, HwFinish \/ HwListFault PROVE IInv'
  OBVIOUS
<1>1. /\ UNCHANGED <<api, path, dsc, rec, length, runs, fresh, index>>
      /\ pc = "device" /\ pc' = "submitted"
  BY DEF HwFinish, HwListFault, program
<1>2. /\ OnlyValidMembers' /\ MemberRunsOnce' /\ FreshInv'
      /\ Count' = Count /\ ran' = ran
  BY <1>1, MembersKept
<1>3. Cardinality(ran) \in 0 .. Count
  BY <1>1, RanWithinCount DEF IInv, StageInv
<1>4. batch' \in [status : {Success, BatchError, BatchPageFault},
                  descriptors_completed : 0 .. Count]
  BY <1>3 DEF HwFinish, HwListFault
<1>5. TypeOK'
  BY <1>1, <1>2, <1>4 DEF IInv, TypeOK
<1>6. OutcomeInv'
  <2>1. CASE HwListFault
    <3>1. batch'.status = BatchPageFault
      BY <2>1 DEF HwListFault
    <3> QED  BY <3>1 DEF OutcomeInv, Success, BatchError, BatchPageFault
  <2>2. CASE HwFinish /\ \A i \in 0 .. Count - 1 : i \in ran /\ rec[i].status = Success
    <3>1. batch'.status = Success
      BY <2>2 DEF HwFinish
    <3>2. \A i \in 0 .. Count - 1 : runs[i] = 1
      BY <2>2, CountInBuffer DEF ran, IInv, TypeOK, MemberRunsOnce
    <3> QED  BY <3>1, <3>2, <2>2, <1>1, <1>2 DEF OutcomeInv, Success, BatchError
  <2>3. CASE HwFinish /\ ~ \A i \in 0 .. Count - 1 : i \in ran /\ rec[i].status = Success
    <3>1. batch'.status = BatchError
      BY <2>3 DEF HwFinish
    <3>2. \E i \in ran : rec[i].status # Success
      BY <2>3, DeviceStopsOnFailureOnly DEF HwFinish, IInv
    <3> QED  BY <3>1, <3>2, <1>1, <1>2 DEF OutcomeInv, Success, BatchError
  <2> QED  BY <2>1, <2>2, <2>3
<1> QED  BY <1>1, <1>2, <1>5, <1>6 DEF IInv, StageInv, ReadInv

\* The caller reads the status, and may use the batch again.
LEMMA ReadBackInv == IInv /\ (WaitBatch \/ Reuse) => IInv'
<1> SUFFICES ASSUME IInv, WaitBatch \/ Reuse PROVE IInv'
  OBVIOUS
<1>1. /\ UNCHANGED <<api, path, dsc, rec, length, runs, fresh, index, batch>>
      /\ \/ pc = "submitted" /\ pc' = "done" /\ status' = to_own_status(batch.status)
         \/ pc = "done" /\ pc' = "idle"
  BY DEF WaitBatch, Reuse, program
<1>2. /\ OnlyValidMembers' /\ MemberRunsOnce' /\ FreshInv'
      /\ Count' = Count /\ ran' = ran
  BY <1>1, MembersKept
<1>3. TypeOK'
  BY <1>1, <1>2 DEF IInv, TypeOK
<1>4. OutcomeInv'
  BY <1>1, <1>2 DEF IInv, OutcomeInv
<1>5. ReadInv'
  BY <1>1 DEF ReadInv
<1> QED  BY <1>1, <1>2, <1>3, <1>4, <1>5 DEF IInv, StageInv

\* Every step of callers, kernels and device keeps the invariant.
LEMMA NextInv == IInv /\ [Next]_vars => IInv'
<1> SUFFICES ASSUME IInv, [Next]_vars PROVE IInv'
  OBVIOUS
<1>1. CASE SetByIndex
  BY <1>1, SetByIndexInv
<1>2. CASE Add
  BY <1>2, AddInv
<1>3. CASE \E p \in {"software", "hardware", "automatic"} : Submit(p)
  BY <1>3, SubmitInv
<1>4. CASE HwAccept \/ HwRefuse
  BY <1>4, EnqueueInv
<1>5. CASE SwMember
  BY <1>5, SwMemberInv
<1>6. CASE SwFinish
  BY <1>6, SwFinishInv
<1>7. CASE HwMember \/ HwMemberFault
  BY <1>7, HwMemberInv
<1>8. CASE HwFinish \/ HwListFault
  BY <1>8, HwFinishInv
<1>9. CASE WaitBatch \/ Reuse
  BY <1>9, ReadBackInv
<1>10. CASE UNCHANGED vars
  <2>1. UNCHANGED <<api, path, dsc, rec, length, runs, fresh, index, batch, status, pc>>
    BY <1>10 DEF vars
  <2> QED  BY <2>1, MembersKept DEF IInv, TypeOK, StageInv, OutcomeInv, ReadInv
<1> QED  BY <1>1, <1>2, <1>3, <1>4, <1>5, <1>6, <1>7, <1>8, <1>9, <1>10 DEF Next

-----------------------------------------------------------------------------
\* The inductive invariant holds throughout.
THEOREM Inductive == Spec => []IInv
  BY InitInv, NextInv, PTL DEF Spec

\* Positions and counts of dml_batch, sequence and the batch kernel stay within
\* the buffer.
THEOREM TypeCorrect == Spec => []TypeOK
<1>1. IInv => TypeOK
  BY DEF IInv
<1> QED  BY <1>1, Inductive, PTL

\* A task that validation rejects is never left where the batch would run it,
\* whatever sequence of dml_batch_set_*_by_index or sequence::add there was.
THEOREM NoRejectedMember == Spec => []OnlyValidMembers
<1>1. IInv => OnlyValidMembers
  BY DEF IInv
<1> QED  BY <1>1, Inductive, PTL

\* No member is executed twice in a submission, on whichever paths it went.
THEOREM NoMemberTwice == Spec => []MemberRunsOnce
<1>1. IInv => MemberRunsOnce
  BY DEF IInv
<1> QED  BY <1>1, Inductive, PTL

\* dml_wait_job and handler::get tell the truth about the members of a batch: all
\* have succeeded, or one that has run has not.
THEOREM HonestStatus == Spec => []StatusIsHonest
<1>1. IInv => StatusIsHonest
  <2> SUFFICES ASSUME IInv, pc = "done" PROVE StatusIsHonest
    BY DEF StatusIsHonest
  <2>1. /\ batch.status \in {Success, BatchError, BatchPageFault}
        /\ status = to_own_status(batch.status)
        /\ batch.status \in Statuses
    BY DEF IInv, OutcomeInv, ReadInv, Statuses, Success, Processing, PageFault
  <2>2. \A i \in Slots : rec[i].status \in Statuses
    BY DEF IInv, TypeOK, Statuses
  <2>3. ASSUME status = "ok", NEW i \in 0 .. Count - 1
        PROVE  runs[i] = 1 /\ get_status(i) = "ok"
    <3>1. runs[i] = 1 /\ rec[i].status = Success
      BY <2>1, <2>3, ToOwnStatusValue DEF IInv, OutcomeInv
    <3> QED  BY <3>1, <2>2, CountInBuffer, ToOwnStatusValue DEF get_status, IInv
  <2>4. ASSUME status = "batch_error"
        PROVE  \E i \in ran : get_status(i) # "ok"
    <3>1. PICK i \in ran : rec[i].status # Success
      BY <2>1, <2>4, ToOwnStatusValue DEF IInv, OutcomeInv
    <3> QED  BY <3>1, <2>2, ToOwnStatusValue DEF get_status, ran
  <2>5. status \notin {"being_processed", "internal_error"}
    BY <2>1, ToOwnStatusValue
  <2> QED  BY <2>3, <2>4, <2>5 DEF StatusIsHonest
<1> QED  BY <1>1, Inductive, PTL

\* The status of a slot never stems from an earlier member of that slot.
THEOREM NoStaleSuccess == Spec => []OkMeansRunSinceSet
<1>1. IInv => OkMeansRunSinceSet
  <2> SUFFICES ASSUME IInv, NEW i \in Slots, get_status(i) = "ok" PROVE i \in fresh
    BY DEF OkMeansRunSinceSet
  <2>1. rec[i].status \in Statuses
    BY DEF IInv, TypeOK, Statuses
  <2>2. rec[i].status = Success
    BY <2>1, ToOwnStatusValue DEF get_status
  <2> QED  BY <2>2 DEF IInv, FreshInv
<1> QED  BY <1>1, Inductive, PTL
-----------------------------------------------------------------------------
(***************************************************************************)
(* The order of the members.  The software kernel runs them one after the   *)
(* other, so it computes InOrder step by step.  Of the device only this is  *)
(* known: what it has run is closed under "waits for", and every cell holds *)
(* what it holds in order after the last of its writers that has run.       *)
(***************************************************************************)

\* One turn of running members in order: from the outcome b to that with the
\* member m of slot i.
Turn(b, m, i) ==
    IF b.stopped THEN b
    ELSE [mem |-> Effect(m, b.mem),
          rec |-> [b.rec EXCEPT ![i] = Record(m, b.mem)],
          stopped |-> Record(m, b.mem).status # Success]

\* Memory and records before the first member.
Begin(o) == [mem |-> o.mem, rec |-> o.rec, stopped |-> FALSE]

\* f is InOrder, up to n, for descriptors d and what was there before, o.
IsOutcome(f, d, o, n) ==
    f = [j \in 0 .. n |-> IF j = 0 THEN Begin(o) ELSE Turn(f[j - 1], d[j - 1], j - 1)]

\* InOrder with its state as parameters.
Outcome(d, o) == CHOOSE f : IsOutcome(f, d, o, Capacity)

RecordSet == [status : Processing .. PageFault, result : 0 .. 1]
Memories == [Cells -> Nat]
Descriptors == [Slots -> Members \cup {Unset}]
Befores == [mem : Memories, rec : [Slots -> RecordSet]]

\* A recursion over the slots has a solution, for any number of them.
LEMMA OutcomeExists ==
    ASSUME NEW d, NEW o, NEW n \in Nat
    PROVE  \E f : IsOutcome(f, d, o, n)
<1> DEFINE T == {j \in Nat : ~ \E f : IsOutcome(f, d, o, j)}
<1> SUFFICES ASSUME T # {} PROVE FALSE
  OBVIOUS
<1>1. PICK j \in T : \A k \in T : j <= k
  <2>1. T \in SUBSET Nat
    OBVIOUS
  <2> HIDE DEF T
  <2> QED  BY <2>1, FirstOfThem
<1>2. CASE j = 0
  <2>1. IsOutcome([k \in 0 .. 0 |-> Begin(o)], d, o, 0)
    BY DEF IsOutcome
  <2> QED  BY <2>1, <1>1, <1>2
<1>3. CASE j # 0
  <2>1. j - 1 \in Nat /\ j \in Nat /\ j - 1 \notin T
    BY <1>1, <1>3
  <2>2. PICK f : IsOutcome(f, d, o, j - 1)
    BY <2>1
  <2> DEFINE g == [k \in 0 .. j |-> IF k = j THEN Turn(f[j - 1], d[j - 1], j - 1) ELSE f[k]]
             B(k, v) == IF k = 0 THEN Begin(o) ELSE Turn(v, d[k - 1], k - 1)
  <2>3. \A k \in 0 .. j - 1 : f[k] = B(k, f[k - 1])
    BY <2>2 DEF IsOutcome
  <2>4. B(j, f[j - 1]) = Turn(f[j - 1], d[j - 1], j - 1)
    BY <1>3
  <2>5. g = [k \in 0 .. j |-> B(k, g[k - 1])]
    <3> HIDE DEF B
    <3>1. ASSUME NEW k \in 0 .. j PROVE g[k] = B(k, g[k - 1])
      <4>1. CASE k = 0
        <5>1. \A v, w : B(0, v) = B(0, w)
          BY DEF B
        <5>2. g[0] = f[0] /\ f[0] = B(0, f[0 - 1])
          BY <1>3, <2>1, <2>3
        <5> QED  BY <4>1, <5>1, <5>2
      <4>2. CASE k # 0 /\ k # j
        <5>1. k \in 0 .. j - 1 /\ k - 1 \in 0 .. j /\ k - 1 # j
          BY <4>2, <2>1
        <5> QED  BY <4>2, <5>1, <2>3
      <4>3. CASE k = j
        <5>1. j - 1 \in 0 .. j /\ j - 1 # j /\ j \in 0 .. j
          BY <2>1
        <5> QED  BY <4>3, <5>1, <2>4
      <4> QED  BY <4>1, <4>2, <4>3
    <3> HIDE DEF g
    <3>2. g = [k \in 0 .. j |-> g[k]]
      BY DEF g
    <3> QED  BY <3>1, <3>2
  <2>6. IsOutcome(g, d, o, j)
    BY <2>5 DEF IsOutcome
  <2> QED  BY <2>6, <1>1
<1> QED  BY <1>2, <1>3

\* The outcome, slot by slot.
LEMMA OutcomeSteps ==
    ASSUME NEW d, NEW o
    PROVE  /\ Outcome(d, o)[0] = Begin(o)
           /\ \A i \in Slots : Outcome(d, o)[i + 1] = Turn(Outcome(d, o)[i], d[i], i)
<1>1. IsOutcome(Outcome(d, o), d, o, Capacity)
  BY OutcomeExists, CapacityAssumption DEF Outcome
<1> HIDE DEF Outcome
<1> DEFINE f == Outcome(d, o)
<1>2. f = [j \in 0 .. Capacity |-> IF j = 0 THEN Begin(o) ELSE Turn(f[j - 1], d[j - 1], j - 1)]
  BY <1>1 DEF IsOutcome
<1> HIDE DEF f
<1>3. f[0] = Begin(o)
  BY <1>2, CapacityAssumption
<1>4. ASSUME NEW i \in Slots PROVE f[i + 1] = Turn(f[i], d[i], i)
  <2>1. i + 1 \in 0 .. Capacity /\ i + 1 # 0 /\ (i + 1) - 1 = i
    BY CapacityAssumption DEF Slots
  <2>2. f[i + 1] = Turn(f[(i + 1) - 1], d[(i + 1) - 1], (i + 1) - 1)
    <3> DEFINE j == i + 1
    <3> HIDE DEF j
    <3>1. j \in 0 .. Capacity /\ j # 0
      BY <2>1 DEF j
    <3>2. f[j] = Turn(f[j - 1], d[j - 1], j - 1)
      BY <3>1, <1>2
    <3> QED  BY <3>2 DEF j
  <2> QED  BY <2>1, <2>2
<1> QED  BY <1>3, <1>4 DEF f

\* InOrder is that outcome.
LEMMA InOrderIsOutcome == InOrder = Outcome(dsc, old)
  BY DEF InOrder, Outcome, IsOutcome, Turn, Begin

\* Induction on positions: what holds at n and is passed on up to m holds at m.
LEMMA Climb ==
    ASSUME NEW n \in Nat, NEW m \in Nat, n <= m,
           NEW S, n \in S, \A k \in n .. m - 1 : k \in S => k + 1 \in S
    PROVE  m \in S
<1> DEFINE T == {k \in n .. m : k \notin S}
<1> SUFFICES ASSUME T # {} PROVE FALSE
  OBVIOUS
<1>1. PICK j \in T : \A k \in T : j <= k
  <2>1. T \in SUBSET Nat
    OBVIOUS
  <2> HIDE DEF T
  <2> QED  BY <2>1, FirstOfThem
<1>2. j # n /\ j \in n .. m /\ j \notin S
  OBVIOUS
<1>3. j - 1 \in n .. m - 1 /\ j - 1 \in Nat /\ (j - 1) + 1 = j /\ ~(j <= j - 1)
  BY <1>2
<1>4. j - 1 \notin T /\ j - 1 \in n .. m
  BY <1>1, <1>3
<1> QED  BY <1>2, <1>3, <1>4

\* A member leaves the cells alone that it does not write.
LEMMA EffectType ==
    ASSUME NEW m \in Members \cup {Unset}, NEW c \in Memories
    PROVE  /\ Effect(m, c) \in Memories
           /\ \A x \in Cells : x \notin Writes(m) => Effect(m, c)[x] = c[x]
<1>1. CASE m.op = "fill"
  <2>1. m \in Members /\ m.dst \in Cells /\ m.value \in Nat
    BY <1>1, MembersAssumption DEF Unset
  <2>2. Effect(m, c) = [c EXCEPT ![m.dst] = m.value] /\ Writes(m) = {m.dst}
    BY <1>1 DEF Effect, Writes
  <2> QED  BY <2>1, <2>2 DEF Memories
<1>2. CASE m.op = "mem_move"
  <2>1. m \in Members /\ m.dst \in Cells /\ m.src \in Cells
    BY <1>2, MembersAssumption DEF Unset
  <2>2. Effect(m, c) = [c EXCEPT ![m.dst] = c[m.src]] /\ Writes(m) = {m.dst}
    BY <1>2 DEF Effect, Writes
  <2> QED  BY <2>1, <2>2 DEF Memories
<1>3. CASE m.op \notin {"fill", "mem_move"}
  BY <1>3 DEF Effect
<1> QED  BY <1>1, <1>2, <1>3

\* What a member does depends only on the cells it reads.
LEMMA EffectOfReads ==
    ASSUME NEW m \in Members \cup {Unset}, NEW c \in Memories, NEW e \in Memories,
           \A x \in Reads(m) : c[x] = e[x]
    PROVE  /\ \A x \in Writes(m) : Effect(m, c)[x] = Effect(m, e)[x]
           /\ Record(m, c) = Record(m, e)
<1>1. CASE m.op = "fill"
  <2>1. m \in Members /\ m.dst \in Cells /\ m.value \in Nat
    BY <1>1, MembersAssumption DEF Unset
  <2>2. /\ Effect(m, c) = [c EXCEPT ![m.dst] = m.value]
        /\ Effect(m, e) = [e EXCEPT ![m.dst] = m.value]
        /\ Writes(m) = {m.dst}
    BY <1>1 DEF Effect, Writes
  <2>3. Record(m, c) = Record(m, e)
    BY <1>1 DEF Record
  <2> QED  BY <2>1, <2>2, <2>3 DEF Memories
<1>2. CASE m.op = "mem_move"
  <2>1. m \in Members /\ m.dst \in Cells /\ m.src \in Cells
    BY <1>2, MembersAssumption DEF Unset
  <2>2. /\ Effect(m, c) = [c EXCEPT ![m.dst] = c[m.src]]
        /\ Effect(m, e) = [e EXCEPT ![m.dst] = e[m.src]]
        /\ Writes(m) = {m.dst} /\ Reads(m) = {m.src}
    BY <1>2 DEF Effect, Writes, Reads
  <2>3. Record(m, c) = Record(m, e)
    BY <1>2 DEF Record
  <2> QED  BY <2>1, <2>2, <2>3 DEF Memories
<1>3. CASE m.op = "compare"
  <2>1. Reads(m) = {m.src, m.dst} /\ Writes(m) = {}
    BY <1>3 DEF Reads, Writes
  <2>2. c[m.src] = e[m.src] /\ c[m.dst] = e[m.dst]
    BY <2>1
  <2>3. Record(m, c) = Record(m, e)
    BY <1>3, <2>2 DEF Record
  <2> QED  BY <2>1, <2>3
<1>4. CASE m.op \notin {"fill", "mem_move", "compare"}
  BY <1>4 DEF Writes, Record
<1> QED  BY <1>1, <1>2, <1>3, <1>4

\* Only a checked comparison does not succeed.
LEMMA FailureIsCheck ==
    ASSUME NEW m, NEW c, Record(m, c).status # Success
    PROVE  m.op = "compare" /\ m.check
  BY DEF Record, Predicate, BlankRecord, Success

\* The outcomes are memories and records.
LEMMA OutcomeType ==
    ASSUME NEW d \in Descriptors, NEW o \in Befores, NEW n \in 0 .. Capacity
    PROVE  Outcome(d, o)[n] \in [mem : Memories, rec : [Slots -> RecordSet], stopped : BOOLEAN]
<1> DEFINE f == Outcome(d, o)
           U == [mem : Memories, rec : [Slots -> RecordSet], stopped : BOOLEAN]
           S == {k \in Nat : f[k] \in U}
<1>1. f[0] = Begin(o) /\ \A i \in Slots : f[i + 1] = Turn(f[i], d[i], i)
  BY OutcomeSteps
<1> HIDE DEF f
<1>2. 0 \in S
  <2>1. Begin(o) \in U
    BY DEF Begin, Befores
  <2> QED  BY <1>1, <2>1
<1>3. ASSUME NEW k \in 0 .. n - 1, k \in S PROVE k + 1 \in S
  <2>1. k \in Slots /\ k + 1 \in Nat
    BY CapacityAssumption DEF Slots
  <2>2. d[k] \in Members \cup {Unset}
    BY <2>1 DEF Descriptors
  <2>3. ASSUME NEW b \in U PROVE Turn(b, d[k], k) \in U
    <3>1. Effect(d[k], b.mem) \in Memories
      BY <2>2, EffectType
    <3>2. Record(d[k], b.mem) \in RecordSet
      BY RecordType DEF RecordSet
    <3>3. [b.rec EXCEPT ![k] = Record(d[k], b.mem)] \in [Slots -> RecordSet]
      BY <3>2, <2>1
    <3> QED  BY <3>1, <3>3 DEF Turn
  <2>4. f[k] \in U /\ f[k + 1] = Turn(f[k], d[k], k)
    BY <1>1, <1>3, <2>1
  <2>5. f[k + 1] \in U
    <3> HIDE DEF U
    <3> QED  BY <2>3, <2>4
  <2> QED  BY <2>1, <2>5
<1>4. n \in Nat /\ 0 <= n
  BY CapacityAssumption
<1>5. n \in S
  <2> HIDE DEF S
  <2> QED  BY <1>2, <1>3, <1>4, Climb
<1> QED  BY <1>5 DEF f

\* After a failure nothing changes any more.
LEMMA OutcomeStays ==
    ASSUME NEW d \in Descriptors, NEW o \in Befores,
           NEW n \in 0 .. Capacity, NEW m \in 0 .. Capacity, n <= m,
           Outcome(d, o)[n].stopped
    PROVE  Outcome(d, o)[m] = Outcome(d, o)[n]
<1> DEFINE f == Outcome(d, o)
           S == {k \in Nat : f[k] = f[n]}
<1>1. \A i \in Slots : f[i + 1] = Turn(f[i], d[i], i)
  BY OutcomeSteps
<1>2. f[n].stopped
  OBVIOUS
<1> HIDE DEF f
<1>3. ASSUME NEW k \in n .. m - 1, k \in S PROVE k + 1 \in S
  <2>1. k \in Slots /\ k + 1 \in Nat
    BY CapacityAssumption DEF Slots
  <2>2. f[k] = f[n] /\ f[k + 1] = Turn(f[k], d[k], k)
    BY <1>1, <1>3, <2>1
  <2>3. Turn(f[n], d[k], k) = f[n]
    BY <1>2 DEF Turn
  <2> QED  BY <2>1, <2>2, <2>3
<1>4. n \in Nat /\ m \in Nat /\ n \in S
  BY CapacityAssumption
<1>5. m \in S
  <2> HIDE DEF S
  <2> QED  BY <1>3, <1>4, Climb
<1> QED  BY <1>5 DEF f

\* A cell changes only where a member writes it, a record only at its slot.
LEMMA OutcomeElsewhere ==
    ASSUME NEW d \in Descriptors, NEW o \in Befores,
           NEW n \in 0 .. Capacity, NEW m \in 0 .. Capacity, n <= m
    PROVE  /\ \A x \in Cells : (\A i \in n .. m - 1 : x \notin Writes(d[i]))
                               => Outcome(d, o)[m].mem[x] = Outcome(d, o)[n].mem[x]
           /\ \A i \in Slots : i \notin n .. m - 1
                               => Outcome(d, o)[m].rec[i] = Outcome(d, o)[n].rec[i]
<1> DEFINE f == Outcome(d, o)
<1>1. \A i \in Slots : f[i + 1] = Turn(f[i], d[i], i)
  BY OutcomeSteps
<1>2. \A k \in 0 .. Capacity : f[k].mem \in Memories /\ f[k].rec \in [Slots -> RecordSet]
  BY OutcomeType
<1> HIDE DEF f
<1>3. n \in Nat /\ m \in Nat
  BY CapacityAssumption
<1>4. ASSUME NEW k \in n .. m - 1
      PROVE  k \in Slots /\ k + 1 \in Nat /\ k \in 0 .. Capacity
  BY CapacityAssumption DEF Slots
<1>5. ASSUME NEW x \in Cells, \A i \in n .. m - 1 : x \notin Writes(d[i])
      PROVE  f[m].mem[x] = f[n].mem[x]
  <2> DEFINE S == {k \in Nat : f[k].mem[x] = f[n].mem[x]}
  <2>1. ASSUME NEW k \in n .. m - 1, k \in S PROVE k + 1 \in S
    <3>1. d[k] \in Members \cup {Unset}
      BY <1>4 DEF Descriptors
    <3>2. Effect(d[k], f[k].mem)[x] = f[k].mem[x]
      BY <3>1, <1>2, <1>4, <1>5, EffectType
    <3>3. f[k + 1] = Turn(f[k], d[k], k) /\ f[k].mem[x] = f[n].mem[x]
      BY <1>1, <1>4, <2>1
    <3>4. Turn(f[k], d[k], k).mem \in {f[k].mem, Effect(d[k], f[k].mem)}
      BY DEF Turn
    <3>5. f[k + 1].mem[x] = f[n].mem[x]
      BY <3>2, <3>3, <3>4
    <3> QED  BY <3>5, <1>4
  <2>2. n \in S
    BY <1>3
  <2>3. m \in S
    <3> HIDE DEF S
    <3> QED  BY <2>1, <2>2, <1>3, Climb
  <2> QED  BY <2>3
<1>6. ASSUME NEW i \in Slots, i \notin n .. m - 1
      PROVE  f[m].rec[i] = f[n].rec[i]
  <2> DEFINE S == {k \in Nat : f[k].rec[i] = f[n].rec[i]}
  <2>1. ASSUME NEW k \in n .. m - 1, k \in S PROVE k + 1 \in S
    <3>1. [f[k].rec EXCEPT ![k] = Record(d[k], f[k].mem)][i] = f[k].rec[i]
      BY <1>2, <1>4, <1>6
    <3>2. f[k + 1] = Turn(f[k], d[k], k) /\ f[k].rec[i] = f[n].rec[i]
      BY <1>1, <1>4, <2>1
    <3>3. Turn(f[k], d[k], k).rec
              \in {f[k].rec, [f[k].rec EXCEPT ![k] = Record(d[k], f[k].mem)]}
      BY DEF Turn
    <3>4. f[k + 1].rec[i] = f[n].rec[i]
      BY <3>1, <3>2, <3>3
    <3> QED  BY <3>4, <1>4
  <2>2. n \in S
    BY <1>3
  <2>3. m \in S
    <3> HIDE DEF S
    <3> QED  BY <2>1, <2>2, <1>3, Climb
  <2> QED  BY <2>3
<1> QED  BY <1>5, <1>6 DEF f

\* Where running in order has stopped, a member has failed.
LEMMA StoppedByFailure ==
    ASSUME NEW d \in Descriptors, NEW o \in Befores, NEW n \in 0 .. Capacity,
           Outcome(d, o)[n].stopped
    PROVE  \E j \in 0 .. n - 1 : /\ ~Outcome(d, o)[j].stopped
                                 /\ Record(d[j], Outcome(d, o)[j].mem).status # Success
<1> DEFINE f == Outcome(d, o)
           S == {k \in Nat : ~f[k].stopped}
<1> SUFFICES ASSUME \A j \in 0 .. n - 1 :
                        f[j].stopped \/ Record(d[j], f[j].mem).status = Success
             PROVE  FALSE
  OBVIOUS
<1>1. f[0] = Begin(o) /\ \A i \in Slots : f[i + 1] = Turn(f[i], d[i], i)
  BY OutcomeSteps
<1>a. f[n].stopped
  OBVIOUS
<1> HIDE DEF f
<1>2. 0 \in S
  BY <1>1 DEF Begin
<1>3. ASSUME NEW k \in 0 .. n - 1, k \in S PROVE k + 1 \in S
  <2>1. k \in Slots /\ k + 1 \in Nat
    BY CapacityAssumption DEF Slots
  <2>2. ~f[k].stopped /\ f[k + 1] = Turn(f[k], d[k], k)
    BY <1>1, <1>3, <2>1
  <2>3. Record(d[k], f[k].mem).status = Success
    BY <2>2
  <2>4. ~Turn(f[k], d[k], k).stopped
    BY <2>2, <2>3 DEF Turn
  <2> QED  BY <2>1, <2>2, <2>4
<1>4. n \in Nat /\ 0 <= n
  BY CapacityAssumption
<1>5. n \in S
  <2> HIDE DEF S
  <2> QED  BY <1>2, <1>3, <1>4, Climb
<1> QED  BY <1>5, <1>a

-----------------------------------------------------------------------------
\* The fences the device sees, and the members one of them separates from i.
Fences == {f \in Slots : FenceBit(dsc[f])}
Behind(F, i) == {k \in 0 .. i - 1 : \E f \in k + 1 .. i : f \in F}

\* The later member n and the earlier one m touch the same cells, or m may end
\* the batch (Depends).
Conflict(n, m) ==
    \/ Writes(m) \cap (Reads(n) \cup Writes(n)) # {}
    \/ Reads(m) \cap Writes(n) # {}
    \/ m.op = "compare" /\ m.check

\* Fences separate all members that depend on each other.
Apart(d, F, n) ==
    \A k \in 0 .. n - 1 : \A i \in 0 .. k - 1 : Conflict(d[k], d[i]) => i \in Behind(F, k)

\* All writers of cell x before m have run, and none behind it.
Covered(d, R, x, m) ==
    /\ \A i \in 0 .. m - 1 : x \in Writes(d[i]) => i \in R
    /\ \A i \in R : x \in Writes(d[i]) => i < m

\* All that member k waits for is over (Startable).
Ready(F, R, r, k) == \A i \in Behind(F, k) : i \in R /\ r[i].status = Success

\* The device has run the slots R: each of them after those it waits for and with
\* the record it has in order; and the cells are where their writers left them.
Untouched(o, R, r) == \A i \in Slots \ R : r[i] = o.rec[i]
Waited(F, R, r) == \A k \in R : Ready(F, R, r, k)
AsInOrder(d, o, R, r) ==
    \A k \in R : ~Outcome(d, o)[k].stopped /\ r[k] = Record(d[k], Outcome(d, o)[k].mem)
CellsInOrder(d, o, n, R, c) ==
    \A x \in Cells, m \in 0 .. n : Covered(d, R, x, m) => c[x] = Outcome(d, o)[m].mem[x]
Device(d, o, F, n, R, c, r) ==
    /\ Untouched(o, R, r)
    /\ Waited(F, R, r)
    /\ AsInOrder(d, o, R, r)
    /\ CellsInOrder(d, o, n, R, c)

\* A member touches cells only.
LEMMA TouchesCells ==
    ASSUME NEW m \in Members \cup {Unset}
    PROVE  Reads(m) \subseteq Cells /\ Writes(m) \subseteq Cells
  BY MembersAssumption DEF Reads, Writes, Unset

\* Before the first member.
LEMMA DeviceStart ==
    ASSUME NEW d \in Descriptors, NEW o \in Befores, NEW F, NEW n \in 0 .. Capacity
    PROVE  Device(d, o, F, n, {}, o.mem, o.rec)
<1>1. CellsInOrder(d, o, n, {}, o.mem)
  <2> SUFFICES ASSUME NEW x \in Cells, NEW m \in 0 .. n, Covered(d, {}, x, m)
               PROVE  o.mem[x] = Outcome(d, o)[m].mem[x]
    BY DEF CellsInOrder
  <2>1. \A i \in 0 .. m - 1 : x \notin Writes(d[i])
    BY DEF Covered
  <2>2. 0 \in 0 .. Capacity /\ m \in 0 .. Capacity /\ 0 <= m
    BY CapacityAssumption
  <2>3. Outcome(d, o)[m].mem[x] = Outcome(d, o)[0].mem[x]
    BY <2>1, <2>2, OutcomeElsewhere
  <2>4. Outcome(d, o)[0] = Begin(o) /\ Begin(o).mem = o.mem
    BY OutcomeSteps DEF Begin
  <2> QED  BY <2>3, <2>4
<1> QED  BY <1>1 DEF Device, Untouched, Waited, AsInOrder

\* When a member may start, no member has failed that comes before it in order,
\* and the cells it reads are as in order: all their earlier writers have run, and
\* no later one has.
LEMMA StartsInOrder ==
    ASSUME NEW d \in Descriptors, NEW o \in Befores, NEW F, NEW n \in 0 .. Capacity,
           NEW R \in SUBSET (0 .. n - 1), NEW c, NEW r,
           Apart(d, F, n), Device(d, o, F, n, R, c, r),
           NEW k \in 0 .. n - 1, k \notin R, Ready(F, R, r, k)
    PROVE  /\ ~Outcome(d, o)[k].stopped
           /\ \A x \in Reads(d[k]) : c[x] = Outcome(d, o)[k].mem[x]
<1> DEFINE f == Outcome(d, o)
<1>1. k \in 0 .. Capacity /\ k \in Slots /\ k \in 0 .. n /\ k \in Nat
  BY CapacityAssumption DEF Slots
<1>2. ~f[k].stopped
  <2> SUFFICES ASSUME f[k].stopped PROVE FALSE
    OBVIOUS
  <2>1. PICK j \in 0 .. k - 1 : ~f[j].stopped /\ Record(d[j], f[j].mem).status # Success
    BY <1>1, StoppedByFailure
  <2>2. Conflict(d[k], d[j])
    BY <2>1, FailureIsCheck DEF Conflict
  <2>3. j \in R /\ r[j].status = Success
    BY <2>2 DEF Apart, Ready
  <2>4. r[j] = Record(d[j], f[j].mem)
    BY <2>3 DEF Device, AsInOrder
  <2> QED  BY <2>1, <2>3, <2>4
<1>3. ASSUME NEW x \in Reads(d[k])
      PROVE  c[x] = f[k].mem[x]
  <2>1. x \in Cells
    BY <1>1, TouchesCells DEF Descriptors
  <2>2. ASSUME NEW i \in 0 .. k - 1, x \in Writes(d[i])
        PROVE  i \in R
    <3>1. Conflict(d[k], d[i])
      BY <2>2 DEF Conflict
    <3> QED  BY <3>1 DEF Apart, Ready
  <2>3. ASSUME NEW i \in R, x \in Writes(d[i])
        PROVE  i < k
    <3> SUFFICES ASSUME ~(i < k) PROVE FALSE
      OBVIOUS
    <3>1. i \in 0 .. n - 1 /\ k \in 0 .. i - 1
      BY <1>1
    <3>2. Conflict(d[i], d[k])
      BY <2>3 DEF Conflict
    <3>3. k \in Behind(F, i)
      BY <3>1, <3>2 DEF Apart
    <3> QED  BY <3>3 DEF Device, Waited, Ready
  <2>4. Covered(d, R, x, k)
    BY <2>2, <2>3 DEF Covered
  <2> QED  BY <1>1, <2>1, <2>4 DEF Device, CellsInOrder
<1> QED  BY <1>2, <1>3

\* The device runs a member that may start.
LEMMA DeviceStep ==
    ASSUME NEW d \in Descriptors, NEW o \in Befores, NEW F, NEW n \in 0 .. Capacity,
           NEW R \in SUBSET (0 .. n - 1), NEW c \in Memories, NEW r \in [Slots -> RecordSet],
           Apart(d, F, n), Device(d, o, F, n, R, c, r),
           NEW k \in 0 .. n - 1, k \notin R, Ready(F, R, r, k)
    PROVE  Device(d, o, F, n, R \cup {k}, Effect(d[k], c), [r EXCEPT ![k] = Record(d[k], c)])
<1> DEFINE f == Outcome(d, o)
           r1 == [r EXCEPT ![k] = Record(d[k], c)]
           c1 == Effect(d[k], c)
           R1 == R \cup {k}
<1>1. k \in 0 .. Capacity /\ k \in Slots /\ k + 1 \in 0 .. Capacity /\ k \in Nat
  BY CapacityAssumption DEF Slots
<1>2. ~f[k].stopped /\ \A x \in Reads(d[k]) : c[x] = f[k].mem[x]
  BY StartsInOrder
<1>3. d[k] \in Members \cup {Unset} /\ f[k].mem \in Memories
  BY <1>1, OutcomeType DEF Descriptors
<1>4. /\ \A x \in Writes(d[k]) : c1[x] = Effect(d[k], f[k].mem)[x]
      /\ Record(d[k], c) = Record(d[k], f[k].mem)
  BY <1>2, <1>3, EffectOfReads
<1>5. /\ r1[k] = Record(d[k], c)
      /\ \A i \in Slots : i # k => r1[i] = r[i]
  BY <1>1
<1>6. \A i \in R : i \in Slots /\ i # k
  BY CapacityAssumption DEF Slots
<1>7. Untouched(o, R1, r1)
  BY <1>5 DEF Device, Untouched
<1>8. Waited(F, R1, r1)
  <2> SUFFICES ASSUME NEW j \in R1, NEW i \in Behind(F, j)
               PROVE  i \in R1 /\ r1[i].status = Success
    BY DEF Waited, Ready
  <2>1. i \in R /\ r[i].status = Success
    BY DEF Device, Waited, Ready
  <2> QED  BY <2>1, <1>5, <1>6
<1>9. AsInOrder(d, o, R1, r1)
  <2> HIDE DEF r1
  <2> SUFFICES ASSUME NEW j \in R1
               PROVE  ~f[j].stopped /\ r1[j] = Record(d[j], f[j].mem)
    BY DEF AsInOrder
  <2>1. CASE j = k
    BY <2>1, <1>2, <1>4, <1>5
  <2>2. CASE j # k
    BY <2>2, <1>5, <1>6 DEF Device, AsInOrder
  <2> QED  BY <2>1, <2>2
<1>10. CellsInOrder(d, o, n, R1, c1)
  <2> HIDE DEF c1
  <2> SUFFICES ASSUME NEW x \in Cells, NEW m \in 0 .. n, Covered(d, R1, x, m)
               PROVE  c1[x] = f[m].mem[x]
    BY DEF CellsInOrder
  <2>1. CASE x \notin Writes(d[k])
    <3>1. c1[x] = c[x]
      BY <2>1, <1>3, EffectType DEF c1
    <3>2. Covered(d, R, x, m)
      BY <2>1 DEF Covered
    <3> QED  BY <3>1, <3>2 DEF Device, CellsInOrder
  <2>2. CASE x \in Writes(d[k])
    <3>1. k < m
      BY <2>2 DEF Covered
    <3>2. ASSUME NEW i \in k + 1 .. m - 1, x \in Writes(d[i])
          PROVE  FALSE
      <4>1. i \in 0 .. m - 1 /\ i # k /\ i \in 0 .. n - 1 /\ k \in 0 .. i - 1
        BY <1>1
      <4>2. i \in R
        BY <3>2, <4>1 DEF Covered
      <4>3. Conflict(d[i], d[k])
        BY <2>2, <3>2 DEF Conflict
      <4>4. k \in Behind(F, i)
        BY <4>1, <4>3 DEF Apart
      <4> QED  BY <4>2, <4>4 DEF Device, Waited, Ready
    <3>3. m \in 0 .. Capacity /\ k + 1 <= m
      BY <1>1, <3>1, CapacityAssumption
    <3>4. f[m].mem[x] = f[k + 1].mem[x]
      BY <1>1, <3>2, <3>3, OutcomeElsewhere
    <3>5. f[k + 1] = Turn(f[k], d[k], k)
      BY <1>1, OutcomeSteps
    <3>6. f[k + 1].mem = Effect(d[k], f[k].mem)
      <4> HIDE DEF f
      <4> QED  BY <1>2, <3>5 DEF Turn
    <3> QED  BY <2>2, <1>4, <3>4, <3>6
  <2> QED  BY <2>1, <2>2
<1> QED  BY <1>7, <1>8, <1>9, <1>10 DEF Device

\* Where nothing is left to start, the members that have run are those that run in
\* order, and so memory and records are the same.
LEMMA DeviceEnd ==
    ASSUME NEW d \in Descriptors, NEW o \in Befores, NEW F, NEW n \in 0 .. Capacity,
           NEW R \in SUBSET (0 .. n - 1), NEW c \in Memories, NEW r \in [Slots -> RecordSet],
           Device(d, o, F, n, R, c, r),
           \A k \in 0 .. n - 1 : k \in R \/ ~Ready(F, R, r, k)
    PROVE  c = Outcome(d, o)[n].mem /\ r = Outcome(d, o)[n].rec
<1> DEFINE f == Outcome(d, o)
<1>a. n \in Nat /\ \A k \in 0 .. n - 1 : k \in Slots /\ k + 1 \in 0 .. Capacity
  BY CapacityAssumption DEF Slots
<1>1. PICK m \in 0 .. n : R = 0 .. m - 1 /\ f[n] = f[m]
  <2> DEFINE Left == {k \in 0 .. n - 1 : k \notin R}
  <2>1. CASE Left = {}
    <3>1. R = 0 .. n - 1
      BY <2>1
    <3>2. n \in 0 .. n
      BY <1>a
    <3> QED  BY <3>1, <3>2
  <2>2. CASE Left # {}
    <3>1. Left \in SUBSET Nat
      OBVIOUS
    <3>2. PICK m \in Left : \A k \in Left : m <= k
      <4> HIDE DEF Left
      <4> QED  BY <3>1, <2>2, FirstOfThem
    <3>3. m \in 0 .. n - 1 /\ m \notin R /\ \A k \in 0 .. m - 1 : k \in R
      BY <3>2, <1>a
    <3>4. PICK i \in Behind(F, m) : ~(i \in R /\ r[i].status = Success)
      BY <3>3 DEF Ready
    <3>5. i \in 0 .. m - 1 /\ i \in R /\ r[i].status # Success
      BY <3>3, <3>4 DEF Behind
    <3>6. ~f[i].stopped /\ Record(d[i], f[i].mem).status # Success
      BY <3>5 DEF Device, AsInOrder
    <3>7. f[i + 1] = Turn(f[i], d[i], i)
      BY <3>5, <1>a, OutcomeSteps
    <3>8. f[i + 1].stopped
      <4> HIDE DEF f
      <4>1. Turn(f[i], d[i], i).stopped = (Record(d[i], f[i].mem).status # Success)
        BY <3>6 DEF Turn
      <4> QED  BY <3>6, <3>7, <4>1
    <3>9. \A j \in i + 1 .. n : j \in 0 .. Capacity /\ f[j] = f[i + 1]
      <4>1. \A j \in i + 1 .. n : j \in 0 .. Capacity /\ i + 1 <= j /\ i + 1 \in 0 .. Capacity
        BY <3>5, <1>a, CapacityAssumption
      <4> QED  BY <4>1, <3>8, OutcomeStays
    <3>10. \A j \in i + 1 .. n - 1 : j \notin R
      <4> SUFFICES ASSUME NEW j \in i + 1 .. n - 1, j \in R PROVE FALSE
        OBVIOUS
      <4>1. j \in i + 1 .. n
        BY <3>5, <1>a
      <4>2. f[j].stopped
        BY <4>1, <3>8, <3>9
      <4> QED  BY <4>2 DEF Device, AsInOrder
    <3>11. m = i + 1
      BY <3>3, <3>5, <3>10, <1>a
    <3>12. R = 0 .. m - 1
      <4>1. \A j \in R : j \in 0 .. m - 1
        BY <3>3, <3>10, <3>11, <1>a
      <4> QED  BY <4>1, <3>3
    <3>13. f[n] = f[m] /\ m \in 0 .. n
      <4>1. n \in i + 1 .. n /\ m \in 0 .. n
        BY <3>5, <3>3, <1>a
      <4> QED  BY <4>1, <3>9, <3>11
    <3> QED  BY <3>12, <3>13
  <2> QED  BY <2>1, <2>2
<1>2. m \in 0 .. Capacity /\ m \in Nat
  BY <1>a, CapacityAssumption
<1>3. f[m].mem \in Memories /\ f[m].rec \in [Slots -> RecordSet]
  BY <1>2, OutcomeType
<1>4. ASSUME NEW x \in Cells PROVE c[x] = f[m].mem[x]
  <2>1. Covered(d, R, x, m)
    BY <1>1, <1>2 DEF Covered
  <2> QED  BY <2>1 DEF Device, CellsInOrder
<1>5. ASSUME NEW i \in Slots PROVE r[i] = f[m].rec[i]
  <2>0. i \in Nat /\ i \in 0 .. Capacity /\ i + 1 \in 0 .. Capacity
    BY CapacityAssumption DEF Slots
  <2>1. CASE i \in R
    <3>1. ~f[i].stopped /\ r[i] = Record(d[i], f[i].mem)
      BY <2>1 DEF Device, AsInOrder
    <3>2. f[i + 1] = Turn(f[i], d[i], i) /\ f[i].rec \in [Slots -> RecordSet]
      BY <2>0, OutcomeSteps, OutcomeType
    <3>3. f[i + 1].rec[i] = Record(d[i], f[i].mem)
      <4> HIDE DEF f
      <4>1. f[i + 1].rec = [f[i].rec EXCEPT ![i] = Record(d[i], f[i].mem)]
        BY <3>1, <3>2 DEF Turn
      <4> QED  BY <4>1, <3>2
    <3>4. i + 1 <= m /\ i \notin i + 1 .. m - 1
      BY <2>1, <1>1, <1>2, <2>0
    <3>5. f[m].rec[i] = f[i + 1].rec[i]
      BY <3>4, <1>2, <2>0, OutcomeElsewhere
    <3> QED  BY <3>1, <3>3, <3>5
  <2>2. CASE i \notin R
    <3>1. r[i] = o.rec[i]
      BY <2>2 DEF Device, Untouched
    <3>2. 0 \in 0 .. Capacity /\ 0 <= m /\ i \notin 0 .. m - 1
      BY <2>2, <1>1, <1>2, CapacityAssumption
    <3>3. f[m].rec[i] = f[0].rec[i]
      BY <3>2, <1>2, OutcomeElsewhere
    <3>4. f[0] = Begin(o) /\ Begin(o).rec = o.rec
      BY OutcomeSteps DEF Begin
    <3> QED  BY <3>1, <3>3, <3>4
  <2> QED  BY <2>1, <2>2
<1>6. c = f[m].mem
  <2> HIDE DEF f
  <2> QED  BY <1>3, <1>4 DEF Memories
<1>7. r = f[m].rec
  <2> HIDE DEF f
  <2> QED  BY <1>3, <1>5
<1> QED  BY <1>1, <1>6, <1>7

-----------------------------------------------------------------------------
\* No member of this submission has met a page fault.
NoFault == \A i \in ran : rec[i].status # PageFault

\* Memory, and what was there when the batch was submitted.
MemoryInv == mem \in Memories /\ old \in Befores

\* The software kernel has done what running in order does up to its position.
LoopInv ==
    /\ pc = "enqueue" => mem = old.mem /\ rec = old.rec
    /\ pc = "software" => /\ mem = Outcome(dsc, old)[index].mem
                          /\ rec = Outcome(dsc, old)[index].rec
                          /\ ~Outcome(dsc, old)[index].stopped
    /\ pc = "stopped" => /\ mem = Outcome(dsc, old)[index + 1].mem
                         /\ rec = Outcome(dsc, old)[index + 1].rec
                         /\ Outcome(dsc, old)[index + 1].stopped

\* The device, if no page fault has hit and the fences are where they must be.
DeviceInv ==
    pc = "device" /\ NoFault /\ Apart(dsc, Fences, Count)
        => Device(dsc, old, Fences, Count, ran, mem, rec)

\* The outcome of a batch that is over.
FinalInv ==
    /\ pc \in {"submitted", "done"} /\ batch.status # BatchPageFault /\ NoFault
    /\ path = "software" \/ Apart(dsc, Fences, Count)
    => mem = Outcome(dsc, old)[Count].mem /\ rec = Outcome(dsc, old)[Count].rec

\* The software path never asks a queue.
PathInv == pc \in {"enqueue", "device"} => path # "software"

OrderInv == MemoryInv /\ PathInv /\ LoopInv /\ DeviceInv /\ FinalInv

\* The types the lemmas on outcomes ask for.
LEMMA OrderTypes ==
    ASSUME IInv, OrderInv
    PROVE  /\ dsc \in Descriptors /\ rec \in [Slots -> RecordSet]
           /\ mem \in Memories /\ old \in Befores
           /\ Count \in 0 .. Capacity /\ index \in 0 .. Count
<1>1. TypeOK
  BY DEF IInv
<1>2. Count \in 0 .. Capacity
  BY <1>1, CountInBuffer
<1> QED  BY <1>1, <1>2 DEF TypeOK, OrderInv, MemoryInv, Descriptors, RecordSet

\* What steps keep that leave the members alone.
LEMMA ProgramKept ==
    ASSUME UNCHANGED program
    PROVE  /\ dsc' = dsc /\ Count' = Count /\ Fences' = Fences
           /\ Apart(dsc, Fences, Count)' = Apart(dsc, Fences, Count)
<1>1. dsc' = dsc /\ api' = api /\ length' = length
  BY DEF program
<1>2. Count' = Count
  BY <1>1 DEF Count
<1>3. Fences' = Fences
  BY <1>1 DEF Fences, FenceBit, Flags
<1> QED  BY <1>1, <1>2, <1>3

\* At the start nothing is under way.
LEMMA InitOrder == Init => OrderInv
<1> SUFFICES ASSUME Init PROVE OrderInv
  OBVIOUS
<1>1. mem \in Memories
  BY DEF Init, Memories
<1>2. rec \in [Slots -> RecordSet]
  BY DEF Init, BlankRecord, RecordSet, Processing, PageFault
<1>3. old \in Befores
  BY <1>1, <1>2 DEF Init, Befores
<1> QED  BY <1>1, <1>3 DEF Init, OrderInv, MemoryInv, PathInv, LoopInv, DeviceInv, FinalInv

\* Members are filled in between submissions only.
LEMMA FillOrder ==
    ASSUME IInv, OrderInv, SetByIndex \/ Add
    PROVE  OrderInv'
<1>1. pc' = "idle" /\ mem' = mem /\ old' = old
  BY DEF SetByIndex, Add
<1> QED  BY <1>1 DEF OrderInv, MemoryInv, PathInv, LoopInv, DeviceInv, FinalInv

\* A submission begins with what is there.
LEMMA SubmitOrder ==
    ASSUME IInv, OrderInv, NEW p \in {"software", "hardware", "automatic"}, Submit(p)
    PROVE  OrderInv'
<1>1. /\ pc' \in {"idle", "software", "enqueue"} /\ index' = 0
      /\ mem' = mem /\ rec' = rec /\ old' = [mem |-> mem, rec |-> rec]
  BY DEF Submit
<1>2. old' \in Befores /\ mem' \in Memories
  BY <1>1, OrderTypes DEF Befores
<1>3. Outcome(dsc', old')[0] = Begin(old')
  BY OutcomeSteps
<1>4. Begin(old').mem = mem /\ Begin(old').rec = rec /\ ~Begin(old').stopped
  BY <1>1 DEF Begin
<1>5. LoopInv'
  BY <1>1, <1>3, <1>4 DEF LoopInv
<1>6. PathInv'
  BY DEF Submit, PathInv
<1> QED  BY <1>1, <1>2, <1>5, <1>6 DEF OrderInv, MemoryInv, PathInv, DeviceInv, FinalInv

\* A queue takes the batch, or the automatic path starts over in software: nothing
\* has run yet.
LEMMA EnqueueOrder ==
    ASSUME IInv, OrderInv, HwAccept \/ HwRefuse
    PROVE  OrderInv'
<1>1. /\ UNCHANGED program /\ pc = "enqueue" /\ pc' \in {"device", "software", "idle"}
      /\ UNCHANGED <<mem, rec, old, runs, index, path>>
  BY DEF HwAccept, HwRefuse
<1>2. mem = old.mem /\ rec = old.rec /\ index = 0 /\ ran = {}
  BY <1>1 DEF OrderInv, LoopInv, IInv, StageInv, ran
<1>3. Outcome(dsc, old)[0] = Begin(old)
  BY OutcomeSteps
<1>4. Begin(old).mem = old.mem /\ Begin(old).rec = old.rec /\ ~Begin(old).stopped
  BY DEF Begin
<1>5. LoopInv'
  BY <1>1, <1>2, <1>3, <1>4, ProgramKept DEF LoopInv
<1>6. Device(dsc, old, Fences, Count, {}, old.mem, old.rec)
  BY OrderTypes, DeviceStart
<1>7. ran' = ran
  BY <1>1 DEF ran
<1>8. Device(dsc, old, Fences, Count, ran, mem, rec)'
  BY <1>1, <1>2, <1>6, <1>7, ProgramKept
<1> QED  BY <1>1, <1>5, <1>8 DEF OrderInv, MemoryInv, PathInv, DeviceInv, FinalInv

\* One turn of the software kernel is one turn of running in order.
LEMMA SwMemberOrder ==
    ASSUME IInv, OrderInv, SwMember
    PROVE  OrderInv'
<1> DEFINE f == Outcome(dsc, old)
<1>1. /\ UNCHANGED program /\ UNCHANGED <<old, path>> /\ pc = "software"
      /\ mem' = Effect(dsc[index], mem)
      /\ rec' = [rec EXCEPT ![index] = Record(dsc[index], mem)]
      /\ IF rec'[index].status # Success
         THEN pc' = "stopped" /\ index' = index
         ELSE pc' = "software" /\ index' = index + 1
  BY DEF SwMember, Run, Stops
<1>2. dsc' = dsc
  BY <1>1, ProgramKept
<1>3. index \in Slots /\ index + 1 \in Nat
  BY OrderTypes, CapacityAssumption DEF SwMember, Slots
<1>4. mem = f[index].mem /\ rec = f[index].rec /\ ~f[index].stopped
  BY <1>1 DEF OrderInv, LoopInv
<1>5. f[index + 1] = Turn(f[index], dsc[index], index)
  BY <1>3, OutcomeSteps
<1>6. /\ f[index + 1].mem = mem' /\ f[index + 1].rec = rec'
      /\ f[index + 1].stopped = (Record(dsc[index], mem).status # Success)
  <2> HIDE DEF f
  <2> QED  BY <1>1, <1>4, <1>5 DEF Turn
<1>7. rec'[index] = Record(dsc[index], mem)
  BY <1>1, <1>3, OrderTypes
<1>8. LoopInv'
  <2>1. CASE Record(dsc[index], mem).status # Success
    <3>1. pc' = "stopped" /\ index' = index
      BY <1>1, <1>7, <2>1
    <3> QED  BY <3>1, <2>1, <1>1, <1>2, <1>6 DEF LoopInv
  <2>2. CASE Record(dsc[index], mem).status = Success
    <3>1. pc' = "software" /\ index' = index + 1
      BY <1>1, <1>7, <2>2
    <3> QED  BY <3>1, <2>2, <1>1, <1>2, <1>6 DEF LoopInv
  <2> QED  BY <2>1, <2>2
<1>9. mem' \in Memories
  BY <1>1, <1>3, OrderTypes, EffectType DEF Descriptors
<1>10. pc' \in {"stopped", "software"}
  BY <1>1
<1> QED  BY <1>1, <1>8, <1>9, <1>10 DEF OrderInv, MemoryInv, PathInv, DeviceInv, FinalInv

\* Where the software kernel ends, running in order ends too.
LEMMA SwFinishOrder ==
    ASSUME IInv, OrderInv, SwFinish
    PROVE  OrderInv'
<1> DEFINE f == Outcome(dsc, old)
<1>1. /\ UNCHANGED program /\ UNCHANGED <<old, mem, rec, runs, path>> /\ pc' = "submitted"
      /\ pc = "stopped" \/ (pc = "software" /\ index = Count)
  BY DEF SwFinish
<1>2. mem = f[Count].mem /\ rec = f[Count].rec
  <2>1. CASE pc = "stopped"
    <3>1. /\ mem = f[index + 1].mem /\ rec = f[index + 1].rec
          /\ f[index + 1].stopped /\ index < Count
      BY <2>1 DEF OrderInv, LoopInv, IInv, StageInv
    <3>2. index + 1 \in 0 .. Capacity /\ Count \in 0 .. Capacity /\ index + 1 <= Count
      BY <3>1, OrderTypes, CapacityAssumption
    <3>3. f[Count] = f[index + 1]
      BY <3>1, <3>2, OrderTypes, OutcomeStays
    <3> QED  BY <3>1, <3>3
  <2>2. CASE pc = "software" /\ index = Count
    BY <2>2 DEF OrderInv, LoopInv
  <2> QED  BY <1>1, <2>1, <2>2
<1>3. FinalInv'
  BY <1>1, <1>2, ProgramKept DEF FinalInv
<1> QED  BY <1>1, <1>3 DEF OrderInv, MemoryInv, PathInv, LoopInv, DeviceInv

\* Startable, in the terms of the lemmas above.
LEMMA StartableIsReady ==
    ASSUME IInv, OrderInv, pc = "device", NEW i \in Slots
    PROVE  Startable(i) <=> i \in 0 .. Count - 1 /\ i \notin ran /\ Ready(Fences, ran, rec, i)
<1>1. BeforeFence(i) = Behind(Fences, i)
  <2>1. \A k \in 0 .. i - 1 : \A f \in k + 1 .. i : f \in Slots
    BY CapacityAssumption DEF Slots
  <2> QED  BY <2>1 DEF BeforeFence, Behind, Fences
<1> QED  BY <1>1 DEF Startable, Ready

\* The device runs a member whose turn it may be.
LEMMA HwMemberOrder ==
    ASSUME IInv, OrderInv, HwMember
    PROVE  OrderInv'
<1>1. PICK k \in Slots : Startable(k) /\ Run(k)
  BY DEF HwMember
<1>2. /\ UNCHANGED program /\ UNCHANGED <<old, path>> /\ pc = "device" /\ pc' = "device"
      /\ mem' = Effect(dsc[k], mem)
      /\ rec' = [rec EXCEPT ![k] = Record(dsc[k], mem)]
      /\ runs' = [runs EXCEPT ![k] = @ + 1]
  BY <1>1 DEF HwMember, Run
<1>3. k \in 0 .. Count - 1 /\ k \notin ran /\ Ready(Fences, ran, rec, k)
  BY <1>1, <1>2, StartableIsReady
<1>4. ran' = ran \cup {k} /\ ran \in SUBSET (0 .. Count - 1)
  <2>1. runs \in [Slots -> Nat]
    BY DEF IInv, TypeOK
  <2>2. \A i \in Slots : runs'[i] = IF i = k THEN runs[i] + 1 ELSE runs[i]
    BY <2>1, <1>2
  <2>3. ran' = ran \cup {k}
    BY <2>1, <2>2 DEF ran
  <2>4. ran \in SUBSET (0 .. Count - 1)
    BY <1>2, OrderTypes, CapacityAssumption DEF IInv, StageInv, ran, Slots
  <2> QED  BY <2>3, <2>4
<1>5. mem' \in Memories
  BY <1>2, OrderTypes, EffectType DEF Descriptors
<1>6. DeviceInv'
  <2> SUFFICES ASSUME NoFault', Apart(dsc, Fences, Count)'
               PROVE  Device(dsc, old, Fences, Count, ran, mem, rec)'
    BY DEF DeviceInv
  <2>1. NoFault
    <3>1. \A i \in ran : i \in Slots /\ i # k /\ i \in ran'
      BY <1>3, <1>4 DEF ran
    <3>2. \A i \in ran : rec'[i] = rec[i]
      BY <3>1, <1>2, OrderTypes
    <3> QED  BY <3>1, <3>2 DEF NoFault
  <2>2. Apart(dsc, Fences, Count)
    BY <1>2, ProgramKept
  <2>3. Device(dsc, old, Fences, Count, ran, mem, rec)
    BY <1>2, <2>1, <2>2 DEF OrderInv, DeviceInv
  <2>4. Device(dsc, old, Fences, Count, ran \cup {k}, Effect(dsc[k], mem),
               [rec EXCEPT ![k] = Record(dsc[k], mem)])
    BY <1>3, <1>4, <2>2, <2>3, OrderTypes, DeviceStep
  <2> QED  BY <2>4, <1>2, <1>4, ProgramKept
<1> QED  BY <1>2, <1>5, <1>6 DEF OrderInv, MemoryInv, PathInv, LoopInv, FinalInv

\* After a page fault nothing is claimed.
LEMMA HwMemberFaultOrder ==
    ASSUME IInv, OrderInv, HwMemberFault
    PROVE  OrderInv'
<1>1. PICK k \in Slots : /\ rec' = [rec EXCEPT ![k] = [BlankRecord EXCEPT !.status = PageFault]]
                         /\ runs' = [runs EXCEPT ![k] = @ + 1]
  BY DEF HwMemberFault
<1>2. UNCHANGED <<old, mem, path>> /\ pc = "device" /\ pc' = "device"
  BY DEF HwMemberFault
<1>3. rec'[k].status = PageFault /\ k \in ran'
  BY <1>1, OrderTypes DEF BlankRecord, IInv, TypeOK, ran
<1>4. ~NoFault'
  BY <1>3 DEF NoFault
<1> QED  BY <1>2, <1>4 DEF OrderInv, MemoryInv, PathInv, LoopInv, DeviceInv, FinalInv

\* Where the device ends, running in order ends too.
LEMMA HwFinishOrder ==
    ASSUME IInv, OrderInv, HwFinish \/ HwListFault
    PROVE  OrderInv'
<1>1. /\ UNCHANGED program /\ UNCHANGED <<old, mem, rec, runs, path>>
      /\ pc = "device" /\ pc' = "submitted"
  BY DEF HwFinish, HwListFault
<1>2. ran' = ran
  BY <1>1 DEF ran
<1>a. path # "software"
  BY <1>1 DEF OrderInv, PathInv
<1>3. FinalInv'
  <2> SUFFICES ASSUME batch'.status # BatchPageFault, NoFault',
                      path' = "software" \/ Apart(dsc, Fences, Count)'
               PROVE  (mem = Outcome(dsc, old)[Count].mem /\ rec = Outcome(dsc, old)[Count].rec)'
    BY DEF FinalInv
  <2>1. HwFinish
    BY DEF HwListFault
  <2>2. NoFault /\ Apart(dsc, Fences, Count)
    BY <1>1, <1>2, <1>a, ProgramKept DEF NoFault
  <2>3. Device(dsc, old, Fences, Count, ran, mem, rec)
    BY <1>1, <2>2 DEF OrderInv, DeviceInv
  <2>4. ran \in SUBSET (0 .. Count - 1)
    BY <1>1, OrderTypes, CapacityAssumption DEF IInv, StageInv, ran, Slots
  <2>5. \A k \in 0 .. Count - 1 : k \in ran \/ ~Ready(Fences, ran, rec, k)
    <3>1. \A k \in 0 .. Count - 1 : k \in Slots
      BY CountInBuffer DEF IInv
    <3> QED  BY <3>1, <1>1, <2>1, StartableIsReady DEF HwFinish
  <2>6. mem = Outcome(dsc, old)[Count].mem /\ rec = Outcome(dsc, old)[Count].rec
    BY <2>3, <2>4, <2>5, OrderTypes, DeviceEnd
  <2> QED  BY <2>6, <1>1, ProgramKept
<1> QED  BY <1>1, <1>3 DEF OrderInv, MemoryInv, PathInv, LoopInv, DeviceInv

\* The caller reads the status and may go on.
LEMMA ReadBackOrder ==
    ASSUME IInv, OrderInv, WaitBatch \/ Reuse
    PROVE  OrderInv'
<1>1. /\ UNCHANGED program /\ UNCHANGED <<old, mem, rec, runs, path, batch>>
      /\ \/ pc = "submitted" /\ pc' = "done"
         \/ pc = "done" /\ pc' = "idle"
  BY DEF WaitBatch, Reuse
<1>2. NoFault' = NoFault
  BY <1>1 DEF NoFault, ran
<1>3. FinalInv'
  BY <1>1, <1>2, ProgramKept DEF OrderInv, FinalInv
<1> QED  BY <1>1, <1>3 DEF OrderInv, MemoryInv, PathInv, LoopInv, DeviceInv

\* Every step keeps the order.
LEMMA NextOrder == IInv /\ OrderInv /\ [Next]_vars => OrderInv'
<1> SUFFICES ASSUME IInv, OrderInv, [Next]_vars PROVE OrderInv'
  OBVIOUS
<1>1. CASE SetByIndex \/ Add
  BY <1>1, FillOrder
<1>2. CASE \E p \in {"software", "hardware", "automatic"} : Submit(p)
  BY <1>2, SubmitOrder
<1>3. CASE HwAccept \/ HwRefuse
  BY <1>3, EnqueueOrder
<1>4. CASE SwMember
  BY <1>4, SwMemberOrder
<1>5. CASE SwFinish
  BY <1>5, SwFinishOrder
<1>6. CASE HwMember
  BY <1>6, HwMemberOrder
<1>7. CASE HwMemberFault
  BY <1>7, HwMemberFaultOrder
<1>8. CASE HwFinish \/ HwListFault
  BY <1>8, HwFinishOrder
<1>9. CASE WaitBatch \/ Reuse
  BY <1>9, ReadBackOrder
<1>10. CASE UNCHANGED vars
  <2>1. /\ UNCHANGED program /\ UNCHANGED <<path, rec, mem, index, batch, old, runs, pc>>
    BY <1>10 DEF vars, program
  <2>2. NoFault' = NoFault /\ ran' = ran
    BY <2>1 DEF NoFault, ran
  <2>3. Device(dsc, old, Fences, Count, ran, mem, rec)'
            = Device(dsc, old, Fences, Count, ran, mem, rec)
    BY <2>1, <2>2, ProgramKept
  <2> QED  BY <2>1, <2>2, <2>3, ProgramKept
           DEF OrderInv, MemoryInv, PathInv, LoopInv, DeviceInv, FinalInv
<1> QED  BY <1>1, <1>2, <1>3, <1>4, <1>5, <1>6, <1>7, <1>8, <1>9, <1>10 DEF Next

\* What a batch has done, on any path and wherever it stands, is what running its
\* members in order does up to there.
THEOREM OrderInductive == Spec => [](IInv /\ OrderInv)
<1>1. Init => IInv /\ OrderInv
  BY InitInv, InitOrder
<1>2. (IInv /\ OrderInv) /\ [Next]_vars => (IInv /\ OrderInv)'
  BY NextInv, NextOrder
<1> QED  BY <1>1, <1>2, PTL DEF Spec

\* Software kernel and device agree: if the fences that reach the device (none of
\* the job API, those of nop in a sequence) separate the members that depend on
\* each other, the batch leaves memory and records as running them in order.
THEOREM FencedAlwaysSequential == Spec => []FencedIsSequential
<1>1. IInv /\ OrderInv => FencedIsSequential
  <2> DEFINE asked == IF api = "sequence" THEN Asked ELSE {}
  <2> SUFFICES ASSUME IInv, OrderInv, pc = "done", status # "page_fault",
                      \A i \in ran : rec[i].status # PageFault,
                      \/ path = "software"
                      \/ \A k \in 0 .. Count - 1 : \A i \in 0 .. k - 1 :
                             Depends(k, i) => \E f \in asked : i < f /\ f <= k
               PROVE  mem = InOrder[Count].mem /\ rec = InOrder[Count].rec
    BY DEF FencedIsSequential, SequentialWith
  <2>1. batch.status # BatchPageFault
    <3>1. status = to_own_status(batch.status)
      BY DEF IInv, ReadInv
    <3>2. to_own_status(BatchPageFault) = "page_fault"
      BY DEF to_own_status, BatchPageFault, BatchError, PageFault, Success, FalsePredicate
    <3> QED  BY <3>1, <3>2
  <2>2. \A f \in asked : f \in Fences /\ f \in Int
    <3> SUFFICES ASSUME api = "sequence", NEW f \in Asked PROVE f \in Fences /\ f \in Int
      OBVIOUS
    <3>1. f \in Slots /\ dsc[f] # Unset /\ dsc[f].fence
      BY DEF Asked
    <3>2. dsc[f] \in Members
      BY <3>1, OrderTypes DEF Descriptors
    <3>3. Flags(dsc[f]) = 1
      BY <3>1, <3>2, MembersAssumption DEF Flags
    <3> QED  BY <3>1, <3>3, CapacityAssumption DEF Fences, FenceBit, Slots
  <2>3. path = "software" \/ Apart(dsc, Fences, Count)
    <3> SUFFICES ASSUME path # "software",
                        NEW k \in 0 .. Count - 1, NEW i \in 0 .. k - 1, Conflict(dsc[k], dsc[i])
                 PROVE  i \in Behind(Fences, k)
      BY DEF Apart
    <3>1. Depends(k, i)
      BY DEF Conflict, Depends
    <3>2. PICK f \in asked : i < f /\ f <= k
      BY <3>1
    <3>3. f \in i + 1 .. k /\ f \in Fences
      BY <3>2, <2>2, OrderTypes, CapacityAssumption
    <3> QED  BY <3>3 DEF Behind
  <2>4. NoFault
    BY DEF NoFault
  <2>5. mem = Outcome(dsc, old)[Count].mem /\ rec = Outcome(dsc, old)[Count].rec
    BY <2>1, <2>3, <2>4 DEF OrderInv, FinalInv
  <2> QED  BY <2>5, InOrderIsOutcome
<1> QED  BY <1>1, OrderInductive, PTL
=============================================================================
