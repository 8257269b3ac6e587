----------------------------- MODULE AutoPathProofs -----------------------------
(***************************************************************************)
(* Proofs about the data operations of AutoPath and, at the end, about     *)
(* Memory Move, which has a module of its own, for every job: a job that   *)
(* runs to its end leaves the destinations, the checksum and the result of *)
(* one kernel over the whole job, also when the device stopped with a page *)
(* fault and the automatic path did the rest and merged the two records.   *)
(*                                                                         *)
(* A job ends in one of three ways: Whole, one worker from start to end;   *)
(* Faulted, a device that stopped at offset b; Joined, that device and     *)
(* then the software kernel on the rest. The Joined lemmas compute the     *)
(* three for each operation; the lemmas in the middle say why the parts    *)
(* meet (words, notes, checksums, first differences); the Right lemmas put *)
(* them together; the invariant of the job then follows action by action.  *)
(***************************************************************************)
EXTENDS AutoPath, MemMove, TLAPS, FiniteSetTheorems, SequenceTheorems, WellFoundedInduction

\* Buffers and completion record from their fields.
Mem(a, b, c, r) == [dst1 |-> a, dst2 |-> b, delta |-> c, rec |-> r]
Rec(s, r, n, z, c) ==
    [status |-> s, result |-> r, bytes_completed |-> n, delta_record_size |-> z, crc_value |-> c]

\* The checksum that the kernel computes for a descriptor.
CrcOf(j, d) ==
    IF j.bypass_reflection THEN Absorb(d.crc_seed, j, d)
                           ELSE Reflect(Absorb(Reflect(d.crc_seed), j, d))

\* Buffers and record that a kernel may find.

\* What the kernel of each operation writes, from any buffers and record it may
\* find: the fields it does not write keep what the first worker left there.
LEMMA KernelOfFill ==
  ASSUME NEW j, j.op = "fill", NEW d,
         NEW a, NEW b, NEW c, NEW s, NEW r, NEW n, NEW z, NEW k
  PROVE  Kernel(j, d, Mem(a, b, c, Rec(s, r, n, z, k)))
           = Mem(dml_ref_fill_u64(j.pattern, a, d.destination_1_address, d.transfer_size), b, c,
                 Rec(Success, r, n, z, k))
  BY DEF Kernel, fill, Finish, Mem, Rec

LEMMA KernelOfDualcast ==
  ASSUME NEW j, j.op = "dualcast", NEW d,
         NEW a, NEW b, NEW c, NEW s, NEW r, NEW n, NEW z, NEW k
  PROVE  Kernel(j, d, Mem(a, b, c, Rec(s, r, n, z, k)))
           = Mem(dml_ref_dualcast(j.source_1, d.source_1_address, a, d.destination_1_address,
                                  d.transfer_size),
                 dml_ref_dualcast(j.source_1, d.source_1_address, b, d.destination_2_address,
                                  d.transfer_size), c,
                 Rec(Success, r, n, z, k))
  BY DEF Kernel, dualcast, Finish, Mem, Rec

LEMMA KernelOfCompare ==
  ASSUME NEW j, j.op = "compare", NEW d,
         NEW a, NEW b, NEW c, NEW s, NEW r, NEW n, NEW z, NEW k
  PROVE  LET found == dml_ref_compare(j, d)
         IN Kernel(j, d, Mem(a, b, c, Rec(s, r, n, z, k)))
           = Mem(a, b, c, Rec(Predicate(j, found[2]), found[2], found[1], z, k))
  BY DEF Kernel, compare, Compared, Mem, Rec

LEMMA KernelOfComparePattern ==
  ASSUME NEW j, j.op = "compare_pattern", NEW d,
         NEW a, NEW b, NEW c, NEW s, NEW r, NEW n, NEW z, NEW k
  PROVE  LET found == dml_ref_compare_pattern(j, d)
         IN Kernel(j, d, Mem(a, b, c, Rec(s, r, n, z, k)))
           = Mem(a, b, c, Rec(Predicate(j, found[2]), found[2], found[1], z, k))
  BY DEF Kernel, compare_pattern, Compared, Mem, Rec

LEMMA KernelOfCreateDelta ==
  ASSUME NEW j, j.op = "create_delta", NEW d,
         NEW a, NEW b, NEW c, NEW s, NEW r, NEW n, NEW z, NEW k
  PROVE  LET found == dml_ref_create_delta(j, d)
         IN Kernel(j, d, Mem(a, b, c, Rec(s, r, n, z, k)))
           = Mem(a, b, PutNotes(c, d.delta_record_address, found[1]),
             Rec(DeltaStatus(j, found[2]), found[2], n, Len(found[1]), k))
  BY ZenonT(60) DEF Kernel, create_delta, Mem, Rec

LEMMA KernelOfApplyDelta ==
  ASSUME NEW j, j.op = "apply_delta", NEW d,
         NEW a, NEW b, NEW c, NEW s, NEW r, NEW n, NEW z, NEW k
  PROVE  LET notes == SubSeq(j.delta, d.delta_record_address + 1,
                        d.delta_record_address + d.delta_record_size)
         IN Kernel(j, d, Mem(a, b, c, Rec(s, r, n, z, k)))
           = Mem(dml_ref_apply_delta(notes, a, d.destination_1_address), b, c,
             Rec(Success, r, n, z, k))
  BY DEF Kernel, apply_delta, Finish, Mem, Rec

LEMMA KernelOfCrc ==
  ASSUME NEW j, j.op = "crc", NEW d,
         NEW a, NEW b, NEW c, NEW s, NEW r, NEW n, NEW z, NEW k
  PROVE  Kernel(j, d, Mem(a, b, c, Rec(s, r, n, z, k)))
           = Mem(a, b, c, Rec(Success, r, n, z, CrcOf(j, d)))
  BY DEF CrcOf, Kernel, crc, Finish, Mem, Rec

LEMMA KernelOfCopyCrc ==
  ASSUME NEW j, j.op = "copy_crc", NEW d,
         NEW a, NEW b, NEW c, NEW s, NEW r, NEW n, NEW z, NEW k
  PROVE  Kernel(j, d, Mem(a, b, c, Rec(s, r, n, z, k)))
           = Mem(dml_ref_dualcast(j.source_1, d.source_1_address, a, d.destination_1_address,
                                  d.transfer_size), b, c, Rec(Success, r, n, z, CrcOf(j, d)))
  BY DEF CrcOf, Kernel, copy_crc, crc, Finish, Mem, Rec, dml_ref_dualcast

-----------------------------------------------------------------------------
\* The three ways a job is done, the descriptor of the second part, and where a
\* device may stop; a job of no length to go is split at 0.
Whole(j) == Kernel(j, MakeTask(j), BlankMem)
Faulted(j, b, s) == HwFaulted(j, MakeTask(j), BlankMem, b, s)
Rest(j, b, s) == update_for_continuation(j, MakeTask(j), Faulted(j, b, s).rec)
Joined(j, b, s) ==
    accumulate_records(j, Rest(j, b, s), Kernel(j, Rest(j, b, s), Faulted(j, b, s)),
                       Faulted(j, b, s).rec)
Cuts(j) == FaultPoints(j, MakeTask(j), BlankMem)
Splits(j) == Cuts(j) \cup {0}
Blank == [i \in Offsets |-> Untouched]

\* The buffers and the record of a job before it runs.
LEMMA BlankIs == BlankMem = Mem(Blank, Blank, <<>>, Rec(Processing, 0, 0, 0, <<>>))
  BY DEF BlankMem, Mem, Rec, Blank, BlankRecord

\* A device that stops changes only status and bytes_completed of what the kernel
\* of the first part leaves.
LEMMA FaultedRecord ==
    ASSUME NEW j, NEW b, NEW s, NEW x, NEW y, NEW c, NEW t, NEW r, NEW n, NEW z, NEW k,
           Kernel(j, Prefix(j, MakeTask(j), b), BlankMem) = Mem(x, y, c, Rec(t, r, n, z, k))
    PROVE  Faulted(j, b, s) = Mem(x, y, c, Rec(s, r, b, z, k))
<1> DEFINE done == Kernel(j, Prefix(j, MakeTask(j), b), BlankMem)
<1>1. Faulted(j, b, s) = [[done EXCEPT !.rec.status = s] EXCEPT !.rec.bytes_completed = b]
  BY DEF Faulted, HwFaulted
<1> HIDE DEF done
<1>2. [done EXCEPT !.rec.status = s] = Mem(x, y, c, Rec(s, r, n, z, k))
  <2>1. done = Mem(x, y, c, Rec(t, r, n, z, k))
    BY DEF done
  <2> QED  BY <2>1 DEF Mem, Rec
<1>3. [Mem(x, y, c, Rec(s, r, n, z, k)) EXCEPT !.rec.bytes_completed = b]
        = Mem(x, y, c, Rec(s, r, b, z, k))
  BY DEF Mem, Rec
<1> QED  BY <1>1, <1>2, <1>3

\* For each operation: what one worker leaves, what a device and the software
\* kernel leave together, and the descriptor that update_for_continuation makes.
\* Fill: the second part starts at b, with the pattern from its beginning.
LEMMA JoinedFill ==
    ASSUME NEW j, j.op = "fill", NEW b \in Nat, NEW s
    PROVE  LET part1 == dml_ref_fill_u64(j.pattern, Blank, 0, b)
           IN  /\ Whole(j) = Mem(dml_ref_fill_u64(j.pattern, Blank, 0, j.transfer_size), Blank,
                                 <<>>, Rec(Success, 0, 0, 0, <<>>))
               /\ Joined(j, b, s)
                    = Mem(dml_ref_fill_u64(j.pattern, part1, b, j.transfer_size - b), Blank,
                          <<>>, Rec(Success, 0, b + b, 0, <<>>))
               /\ Faulted(j, b, s).rec.status = s
<1> DEFINE d == MakeTask(j)
           p == Prefix(j, d, b)
           f == Faulted(j, b, s)
           u == Rest(j, b, s)
           part1 == dml_ref_fill_u64(j.pattern, Blank, 0, b)
<1>1. d.destination_1_address = 0 /\ d.transfer_size = j.transfer_size
  BY DEF MakeTask
<1>2. p.destination_1_address = 0 /\ p.transfer_size = b
  BY DEF MakeTask, Prefix
<1> HIDE DEF d, p
<1>3. Whole(j) = Mem(dml_ref_fill_u64(j.pattern, Blank, 0, j.transfer_size), Blank, <<>>,
                     Rec(Success, 0, 0, 0, <<>>))
  BY <1>1, BlankIs, KernelOfFill DEF Whole, d
<1>4. Kernel(j, p, BlankMem) = Mem(part1, Blank, <<>>, Rec(Success, 0, 0, 0, <<>>))
  BY <1>2, BlankIs, KernelOfFill
<1> HIDE DEF part1, f, u
<1>5. f = Mem(part1, Blank, <<>>, Rec(s, 0, b, 0, <<>>))
  BY <1>4, FaultedRecord DEF p, d, f
<1>6. f.rec.bytes_completed = b /\ f.rec.status = s
  BY <1>5 DEF Mem, Rec
<1>7. u.destination_1_address = b /\ u.transfer_size = j.transfer_size - b
  <2>1. u.destination_1_address = 0 + b /\ u.transfer_size = j.transfer_size - b
    BY <1>6 DEF u, f, Rest, update_for_continuation, MakeTask
  <2> QED  BY <2>1
<1>8. Kernel(j, u, f) = Mem(dml_ref_fill_u64(j.pattern, part1, b, j.transfer_size - b), Blank,
                            <<>>, Rec(Success, 0, b, 0, <<>>))
  BY <1>5, <1>7, KernelOfFill
<1>9. Joined(j, b, s) = Mem(dml_ref_fill_u64(j.pattern, part1, b, j.transfer_size - b), Blank,
                            <<>>, Rec(Success, 0, b + b, 0, <<>>))
  BY <1>6, <1>8 DEF Joined, accumulate_records, u, f, Mem, Rec
<1> QED  BY <1>3, <1>6, <1>9 DEF part1, f

\* Dualcast: source and both destinations move by b.
LEMMA JoinedDualcast ==
    ASSUME NEW j, j.op = "dualcast", NEW b \in Nat, NEW s
    PROVE  LET part1 == dml_ref_dualcast(j.source_1, 0, Blank, 0, b)
           IN  /\ Whole(j)
                    = Mem(dml_ref_dualcast(j.source_1, 0, Blank, 0, j.transfer_size),
                          dml_ref_dualcast(j.source_1, 0, Blank, 0, j.transfer_size), <<>>,
                          Rec(Success, 0, 0, 0, <<>>))
               /\ Joined(j, b, s)
                    = Mem(dml_ref_dualcast(j.source_1, b, part1, b, j.transfer_size - b),
                          dml_ref_dualcast(j.source_1, b, part1, b, j.transfer_size - b), <<>>,
                          Rec(Success, 0, b + b, 0, <<>>))
               /\ Faulted(j, b, s).rec.status = s
<1> DEFINE d == MakeTask(j)
           p == Prefix(j, d, b)
           f == Faulted(j, b, s)
           u == Rest(j, b, s)
           part1 == dml_ref_dualcast(j.source_1, 0, Blank, 0, b)
<1>1. /\ d.source_1_address = 0 /\ d.destination_1_address = 0 /\ d.destination_2_address = 0
      /\ d.transfer_size = j.transfer_size
  BY DEF MakeTask
<1>2. /\ p.source_1_address = 0 /\ p.destination_1_address = 0 /\ p.destination_2_address = 0
      /\ p.transfer_size = b
  BY DEF MakeTask, Prefix
<1> HIDE DEF d, p
<1>3. Whole(j)
        = Mem(dml_ref_dualcast(j.source_1, 0, Blank, 0, j.transfer_size),
              dml_ref_dualcast(j.source_1, 0, Blank, 0, j.transfer_size), <<>>,
              Rec(Success, 0, 0, 0, <<>>))
  BY <1>1, BlankIs, KernelOfDualcast DEF Whole, d
<1>4. Kernel(j, p, BlankMem) = Mem(part1, part1, <<>>, Rec(Success, 0, 0, 0, <<>>))
  BY <1>2, BlankIs, KernelOfDualcast
<1> HIDE DEF part1, f, u
<1>5. f = Mem(part1, part1, <<>>, Rec(s, 0, b, 0, <<>>))
  BY <1>4, FaultedRecord DEF p, d, f
<1>6. f.rec.bytes_completed = b /\ f.rec.status = s
  BY <1>5 DEF Mem, Rec
<1>7. /\ u.source_1_address = b /\ u.destination_1_address = b /\ u.destination_2_address = b
      /\ u.transfer_size = j.transfer_size - b
  <2>1. /\ u.source_1_address = 0 + b /\ u.destination_1_address = 0 + b
        /\ u.destination_2_address = 0 + b /\ u.transfer_size = j.transfer_size - b
    BY <1>6 DEF u, f, Rest, update_for_continuation, MakeTask
  <2> QED  BY <2>1
<1>8. Kernel(j, u, f)
        = Mem(dml_ref_dualcast(j.source_1, b, part1, b, j.transfer_size - b),
              dml_ref_dualcast(j.source_1, b, part1, b, j.transfer_size - b), <<>>,
              Rec(Success, 0, b, 0, <<>>))
  BY <1>5, <1>7, KernelOfDualcast
<1>9. Joined(j, b, s)
        = Mem(dml_ref_dualcast(j.source_1, b, part1, b, j.transfer_size - b),
              dml_ref_dualcast(j.source_1, b, part1, b, j.transfer_size - b), <<>>,
              Rec(Success, 0, b + b, 0, <<>>))
  BY <1>6, <1>8 DEF Joined, accumulate_records, u, f, Mem, Rec
<1> QED  BY <1>3, <1>6, <1>9 DEF part1, f

\* Apply Delta: b counts notes, and the destination stays where it is.
LEMMA JoinedApplyDelta ==
    ASSUME NEW j, j.op = "apply_delta", NEW b \in Nat, NEW s
    PROVE  LET part1 == dml_ref_apply_delta(SubSeq(j.delta, 1, b), Blank, 0)
           IN  /\ Whole(j)
                    = Mem(dml_ref_apply_delta(SubSeq(j.delta, 1, Len(j.delta)), Blank, 0), Blank,
                          <<>>, Rec(Success, 0, 0, 0, <<>>))
               /\ Joined(j, b, s)
                    = Mem(dml_ref_apply_delta(SubSeq(j.delta, b + 1, b + (Len(j.delta) - b)),
                                              part1, 0),
                          Blank, <<>>, Rec(Success, 0, b + b, 0, <<>>))
               /\ Faulted(j, b, s).rec.status = s
<1> DEFINE d == MakeTask(j)
           p == Prefix(j, d, b)
           f == Faulted(j, b, s)
           u == Rest(j, b, s)
           part1 == dml_ref_apply_delta(SubSeq(j.delta, 1, b), Blank, 0)
<1>1. /\ d.delta_record_address = 0 /\ d.delta_record_size = Len(j.delta)
      /\ d.destination_1_address = 0
  BY DEF MakeTask
<1>2. p.delta_record_address = 0 /\ p.delta_record_size = b /\ p.destination_1_address = 0
  BY DEF MakeTask, Prefix
<1> HIDE DEF d, p
<1>3. Whole(j)
        = Mem(dml_ref_apply_delta(SubSeq(j.delta, 1, Len(j.delta)), Blank, 0), Blank, <<>>,
              Rec(Success, 0, 0, 0, <<>>))
  BY <1>1, BlankIs, KernelOfApplyDelta DEF Whole, d
<1>4. Kernel(j, p, BlankMem) = Mem(part1, Blank, <<>>, Rec(Success, 0, 0, 0, <<>>))
  BY <1>2, BlankIs, KernelOfApplyDelta
<1> HIDE DEF part1, f, u
<1>5. f = Mem(part1, Blank, <<>>, Rec(s, 0, b, 0, <<>>))
  BY <1>4, FaultedRecord DEF p, d, f
<1>6. f.rec.bytes_completed = b /\ f.rec.status = s
  BY <1>5 DEF Mem, Rec
<1>7. /\ u.delta_record_address = b /\ u.delta_record_size = Len(j.delta) - b
      /\ u.destination_1_address = 0
  <2>1. /\ u.delta_record_address = 0 + b /\ u.delta_record_size = Len(j.delta) - b
        /\ u.destination_1_address = 0
    BY <1>6 DEF u, f, Rest, update_for_continuation, MakeTask
  <2> QED  BY <2>1
<1>8. Kernel(j, u, f)
        = Mem(dml_ref_apply_delta(SubSeq(j.delta, b + 1, b + (Len(j.delta) - b)), part1, 0),
              Blank, <<>>, Rec(Success, 0, b, 0, <<>>))
  BY <1>5, <1>7, KernelOfApplyDelta
<1>9. Joined(j, b, s)
        = Mem(dml_ref_apply_delta(SubSeq(j.delta, b + 1, b + (Len(j.delta) - b)), part1, 0),
              Blank, <<>>, Rec(Success, 0, b + b, 0, <<>>))
  BY <1>6, <1>8 DEF Joined, accumulate_records, u, f, Mem, Rec
<1> QED  BY <1>3, <1>6, <1>9 DEF part1, f

\* CRC: the second part starts from the checksum of the first.
LEMMA JoinedCrc ==
    ASSUME NEW j, j.op = "crc", NEW b \in Nat, NEW s
    PROVE  /\ Whole(j) = Mem(Blank, Blank, <<>>, Rec(Success, 0, 0, 0, CrcOf(j, MakeTask(j))))
           /\ Joined(j, b, s)
                = Mem(Blank, Blank, <<>>, Rec(Success, 0, b + b, 0, CrcOf(j, Rest(j, b, s))))
           /\ Rest(j, b, s).crc_seed = CrcOf(j, Prefix(j, MakeTask(j), b))
           /\ Rest(j, b, s).source_1_address = b
           /\ Rest(j, b, s).transfer_size = j.transfer_size - b
           /\ Faulted(j, b, s).rec.status = s
<1> DEFINE d == MakeTask(j)
           p == Prefix(j, d, b)
           f == Faulted(j, b, s)
           u == Rest(j, b, s)
<1>1. d.source_1_address = 0 /\ d.transfer_size = j.transfer_size
  BY DEF MakeTask
<1>2. p.source_1_address = 0 /\ p.transfer_size = b
  BY DEF MakeTask, Prefix
<1> HIDE DEF d, p
<1>3. Whole(j) = Mem(Blank, Blank, <<>>, Rec(Success, 0, 0, 0, CrcOf(j, d)))
  BY <1>1, BlankIs, KernelOfCrc DEF Whole, d
<1>4. Kernel(j, p, BlankMem) = Mem(Blank, Blank, <<>>, Rec(Success, 0, 0, 0, CrcOf(j, p)))
  BY <1>2, BlankIs, KernelOfCrc
<1> HIDE DEF f, u
<1>5. f = Mem(Blank, Blank, <<>>, Rec(s, 0, b, 0, CrcOf(j, p)))
  BY <1>4, FaultedRecord DEF p, d, f
<1>6. f.rec.bytes_completed = b /\ f.rec.status = s /\ f.rec.crc_value = CrcOf(j, p)
  BY <1>5 DEF Mem, Rec
<1>7. u.source_1_address = b /\ u.transfer_size = j.transfer_size - b /\ u.crc_seed = CrcOf(j, p)
  <2>1. /\ u.source_1_address = 0 + b /\ u.transfer_size = j.transfer_size - b
        /\ u.crc_seed = CrcOf(j, p)
    BY <1>6 DEF u, f, Rest, update_for_continuation, MakeTask
  <2> QED  BY <2>1
<1>8. Kernel(j, u, f) = Mem(Blank, Blank, <<>>, Rec(Success, 0, b, 0, CrcOf(j, u)))
  BY <1>5, <1>7, KernelOfCrc
<1>9. Joined(j, b, s) = Mem(Blank, Blank, <<>>, Rec(Success, 0, b + b, 0, CrcOf(j, u)))
  BY <1>6, <1>8 DEF Joined, accumulate_records, u, f, Mem, Rec
<1> QED  BY <1>3, <1>6, <1>7, <1>9 DEF u, p, d, f

\* Copy with CRC: as Dualcast with one destination, and as CRC.
LEMMA JoinedCopyCrc ==
    ASSUME NEW j, j.op = "copy_crc", NEW b \in Nat, NEW s
    PROVE  LET part1 == dml_ref_dualcast(j.source_1, 0, Blank, 0, b)
           IN  /\ Whole(j)
                    = Mem(dml_ref_dualcast(j.source_1, 0, Blank, 0, j.transfer_size), Blank, <<>>,
                          Rec(Success, 0, 0, 0, CrcOf(j, MakeTask(j))))
               /\ Joined(j, b, s)
                    = Mem(dml_ref_dualcast(j.source_1, b, part1, b, j.transfer_size - b), Blank,
                          <<>>, Rec(Success, 0, b + b, 0, CrcOf(j, Rest(j, b, s))))
               /\ Rest(j, b, s).crc_seed = CrcOf(j, Prefix(j, MakeTask(j), b))
               /\ Rest(j, b, s).source_1_address = b
               /\ Rest(j, b, s).transfer_size = j.transfer_size - b
               /\ Faulted(j, b, s).rec.status = s
<1> DEFINE d == MakeTask(j)
           p == Prefix(j, d, b)
           f == Faulted(j, b, s)
           u == Rest(j, b, s)
           part1 == dml_ref_dualcast(j.source_1, 0, Blank, 0, b)
<1>1. d.source_1_address = 0 /\ d.destination_1_address = 0 /\ d.transfer_size = j.transfer_size
  BY DEF MakeTask
<1>2. p.source_1_address = 0 /\ p.destination_1_address = 0 /\ p.transfer_size = b
  BY DEF MakeTask, Prefix
<1> HIDE DEF d, p
<1>3. Whole(j)
        = Mem(dml_ref_dualcast(j.source_1, 0, Blank, 0, j.transfer_size), Blank, <<>>,
              Rec(Success, 0, 0, 0, CrcOf(j, d)))
  BY <1>1, BlankIs, KernelOfCopyCrc DEF Whole, d
<1>4. Kernel(j, p, BlankMem) = Mem(part1, Blank, <<>>, Rec(Success, 0, 0, 0, CrcOf(j, p)))
  BY <1>2, BlankIs, KernelOfCopyCrc
<1> HIDE DEF f, u, part1
<1>5. f = Mem(part1, Blank, <<>>, Rec(s, 0, b, 0, CrcOf(j, p)))
  BY <1>4, FaultedRecord DEF p, d, f
<1>6. f.rec.bytes_completed = b /\ f.rec.status = s /\ f.rec.crc_value = CrcOf(j, p)
  BY <1>5 DEF Mem, Rec
<1>7. /\ u.source_1_address = b /\ u.destination_1_address = b
      /\ u.transfer_size = j.transfer_size - b /\ u.crc_seed = CrcOf(j, p)
  <2>1. /\ u.source_1_address = 0 + b /\ u.destination_1_address = 0 + b
        /\ u.transfer_size = j.transfer_size - b /\ u.crc_seed = CrcOf(j, p)
    BY <1>6 DEF u, f, Rest, update_for_continuation, MakeTask
  <2> QED  BY <2>1
<1>8. Kernel(j, u, f)
        = Mem(dml_ref_dualcast(j.source_1, b, part1, b, j.transfer_size - b), Blank, <<>>,
              Rec(Success, 0, b, 0, CrcOf(j, u)))
  BY <1>5, <1>7, KernelOfCopyCrc
<1>9. Joined(j, b, s)
        = Mem(dml_ref_dualcast(j.source_1, b, part1, b, j.transfer_size - b), Blank, <<>>,
              Rec(Success, 0, b + b, 0, CrcOf(j, u)))
  BY <1>6, <1>8 DEF Joined, accumulate_records, u, f, Mem, Rec
<1> QED  BY <1>3, <1>6, <1>7, <1>9 DEF u, p, d, part1, f

\* Compare: the device stops only while it has found no difference.
LEMMA JoinedCompare ==
    ASSUME NEW j, j.op = "compare", NEW b \in Nat, NEW s
    PROVE  /\ LET w == dml_ref_compare(j, MakeTask(j))
              IN  Whole(j) = Mem(Blank, Blank, <<>>, Rec(Predicate(j, w[2]), w[2], w[1], 0, <<>>))
           /\ LET c == dml_ref_compare(j, Rest(j, b, s))
              IN  Joined(j, b, s)
                    = Mem(Blank, Blank, <<>>, Rec(Predicate(j, c[2]), c[2], b, 0, <<>>))
           /\ Rest(j, b, s).source_1_address = b
           /\ Rest(j, b, s).source_2_address = b
           /\ Rest(j, b, s).transfer_size = j.transfer_size - b
           /\ b \in Cuts(j) => dml_ref_compare(j, Prefix(j, MakeTask(j), b))[2] = 0
           /\ Faulted(j, b, s).rec.status = s
<1> DEFINE d == MakeTask(j)
           p == Prefix(j, d, b)
           f == Faulted(j, b, s)
           u == Rest(j, b, s)
           w == dml_ref_compare(j, d)
           a == dml_ref_compare(j, p)
           c == dml_ref_compare(j, u)
<1> HIDE DEF d, p, f, u, w, a, c
<1>1. Whole(j) = Mem(Blank, Blank, <<>>, Rec(Predicate(j, w[2]), w[2], w[1], 0, <<>>))
  BY BlankIs, KernelOfCompare DEF Whole, d, w
<1>2. Kernel(j, p, BlankMem)
        = Mem(Blank, Blank, <<>>, Rec(Predicate(j, a[2]), a[2], a[1], 0, <<>>))
  BY BlankIs, KernelOfCompare DEF a
<1>3. f = Mem(Blank, Blank, <<>>, Rec(s, a[2], b, 0, <<>>))
  BY <1>2, FaultedRecord DEF p, d, f
<1>4. f.rec.bytes_completed = b /\ f.rec.status = s
  BY <1>3 DEF Mem, Rec
<1>5. u.source_1_address = b /\ u.source_2_address = b /\ u.transfer_size = j.transfer_size - b
  <2>1. /\ u.source_1_address = 0 + b /\ u.source_2_address = 0 + b
        /\ u.transfer_size = j.transfer_size - b
    BY <1>4 DEF u, f, Rest, update_for_continuation, MakeTask
  <2> QED  BY <2>1
<1>6. Kernel(j, u, f) = Mem(Blank, Blank, <<>>, Rec(Predicate(j, c[2]), c[2], c[1], 0, <<>>))
  BY <1>3, KernelOfCompare DEF c
<1>7. Joined(j, b, s) = Mem(Blank, Blank, <<>>, Rec(Predicate(j, c[2]), c[2], b, 0, <<>>))
  BY <1>4, <1>6 DEF Joined, accumulate_records, u, f, Mem, Rec
<1>8. b \in Cuts(j) => a[2] = 0
  <2>1. Kernel(j, p, BlankMem).rec.result = a[2]
    BY <1>2 DEF Mem, Rec
  <2>2. b \in Cuts(j) => Kernel(j, p, BlankMem).rec.result = 0
    BY DEF Cuts, FaultPoints, p, d
  <2> QED  BY <2>1, <2>2
<1> QED  BY <1>1, <1>4, <1>5, <1>7, <1>8 DEF w, a, c, u, p, d, f

\* Compare Pattern: likewise, and the offset counts from the start of the job.
LEMMA JoinedComparePattern ==
    ASSUME NEW j, j.op = "compare_pattern", NEW b \in Nat, NEW s
    PROVE  /\ LET w == dml_ref_compare_pattern(j, MakeTask(j))
              IN  Whole(j) = Mem(Blank, Blank, <<>>, Rec(Predicate(j, w[2]), w[2], w[1], 0, <<>>))
           /\ LET c == dml_ref_compare_pattern(j, Rest(j, b, s))
              IN  Joined(j, b, s)
                    = Mem(Blank, Blank, <<>>, Rec(Predicate(j, c[2]), c[2], c[1] + b, 0, <<>>))
           /\ Rest(j, b, s).source_1_address = b
           /\ Rest(j, b, s).transfer_size = j.transfer_size - b
           /\ b \in Cuts(j) => dml_ref_compare_pattern(j, Prefix(j, MakeTask(j), b))[2] = 0
           /\ Faulted(j, b, s).rec.status = s
<1> DEFINE d == MakeTask(j)
           p == Prefix(j, d, b)
           f == Faulted(j, b, s)
           u == Rest(j, b, s)
           w == dml_ref_compare_pattern(j, d)
           a == dml_ref_compare_pattern(j, p)
           c == dml_ref_compare_pattern(j, u)
<1> HIDE DEF d, p, f, u, w, a, c
<1>1. Whole(j) = Mem(Blank, Blank, <<>>, Rec(Predicate(j, w[2]), w[2], w[1], 0, <<>>))
  BY BlankIs, KernelOfComparePattern DEF Whole, d, w
<1>2. Kernel(j, p, BlankMem)
        = Mem(Blank, Blank, <<>>, Rec(Predicate(j, a[2]), a[2], a[1], 0, <<>>))
  BY BlankIs, KernelOfComparePattern DEF a
<1>3. f = Mem(Blank, Blank, <<>>, Rec(s, a[2], b, 0, <<>>))
  BY <1>2, FaultedRecord DEF p, d, f
<1>4. f.rec.bytes_completed = b /\ f.rec.status = s
  BY <1>3 DEF Mem, Rec
<1>5. u.source_1_address = b /\ u.transfer_size = j.transfer_size - b
  <2>1. u.source_1_address = 0 + b /\ u.transfer_size = j.transfer_size - b
    BY <1>4 DEF u, f, Rest, update_for_continuation, MakeTask
  <2> QED  BY <2>1
<1>6. Kernel(j, u, f) = Mem(Blank, Blank, <<>>, Rec(Predicate(j, c[2]), c[2], c[1], 0, <<>>))
  BY <1>3, KernelOfComparePattern DEF c
<1>7. Joined(j, b, s) = Mem(Blank, Blank, <<>>, Rec(Predicate(j, c[2]), c[2], c[1] + b, 0, <<>>))
  BY <1>4, <1>6 DEF Joined, accumulate_records, u, f, Mem, Rec
<1>8. b \in Cuts(j) => a[2] = 0
  <2>1. Kernel(j, p, BlankMem).rec.result = a[2]
    BY <1>2 DEF Mem, Rec
  <2>2. b \in Cuts(j) => Kernel(j, p, BlankMem).rec.result = 0
    BY DEF Cuts, FaultPoints, p, d
  <2> QED  BY <2>1, <2>2
<1> QED  BY <1>1, <1>4, <1>5, <1>7, <1>8 DEF w, a, c, u, p, d, f

\* What the kernel finds in the whole job, before a page fault and after it, and
\* the notes of both parts once the automatic path has merged them.
AllFound(j) == dml_ref_create_delta(j, MakeTask(j))
FirstFound(j, b) == dml_ref_create_delta(j, Prefix(j, MakeTask(j), b))
NextFound(j, b, s) == dml_ref_create_delta(j, Rest(j, b, s))
Merged(j, b, s) ==
    ShiftNotes(PutNotes(PutNotes(<<>>, 0, FirstFound(j, b)[1]),
                        Rest(j, b, s).delta_record_address, NextFound(j, b, s)[1]),
               Rest(j, b, s).delta_record_address, Len(NextFound(j, b, s)[1]), b \div WordSize)

\* A create_delta job done at once, or before and after a page fault at b.
DeltaParts(j, b, s) ==
    /\ Whole(j)
         = Mem(Blank, Blank, PutNotes(<<>>, 0, AllFound(j)[1]),
               Rec(DeltaStatus(j, AllFound(j)[2]), AllFound(j)[2], 0,
                   Len(AllFound(j)[1]), <<>>))
    /\ Joined(j, b, s)
         = Mem(Blank, Blank, Merged(j, b, s),
               Rec(DeltaStatus(j, NextFound(j, b, s)[2]), NextFound(j, b, s)[2], b + b,
                   Len(NextFound(j, b, s)[1]) + Len(FirstFound(j, b)[1]), <<>>))
    /\ Rest(j, b, s).source_1_address = b /\ Rest(j, b, s).source_2_address = b
    /\ Rest(j, b, s).transfer_size = j.transfer_size - b
    /\ Rest(j, b, s).maximum_delta_record_size
         = j.maximum_delta_record_size - Len(FirstFound(j, b)[1])
    /\ Rest(j, b, s).delta_record_address = 0 + Len(FirstFound(j, b)[1])
    /\ b \in Cuts(j) => FirstFound(j, b)[2] # 2
    /\ Faulted(j, b, s).rec.status = s

\* Create Delta: the second part has the room that the first has left.
LEMMA JoinedCreateDelta ==
    ASSUME NEW j, j.op = "create_delta", NEW b \in Nat, NEW s
    PROVE  DeltaParts(j, b, s)
<1> DEFINE d == MakeTask(j)
           p == Prefix(j, d, b)
           f == Faulted(j, b, s)
           u == Rest(j, b, s)
           w == dml_ref_create_delta(j, d)
           a == dml_ref_create_delta(j, p)
           c == dml_ref_create_delta(j, u)
           part1 == PutNotes(<<>>, 0, a[1])
           both == PutNotes(part1, u.delta_record_address, c[1])
<1>1. d.delta_record_address = 0 /\ p.delta_record_address = 0
  BY DEF MakeTask, Prefix
<1> HIDE DEF d, p, f, u, w, a, c, part1, both
<1>2. Whole(j) = Mem(Blank, Blank, PutNotes(<<>>, 0, w[1]),
                     Rec(DeltaStatus(j, w[2]), w[2], 0, Len(w[1]), <<>>))
  BY <1>1, BlankIs, KernelOfCreateDelta DEF Whole, d, w
<1>3. Kernel(j, p, BlankMem)
        = Mem(Blank, Blank, part1, Rec(DeltaStatus(j, a[2]), a[2], 0, Len(a[1]), <<>>))
  BY <1>1, BlankIs, KernelOfCreateDelta DEF a, part1
<1>4. f = Mem(Blank, Blank, part1, Rec(s, a[2], b, Len(a[1]), <<>>))
  BY <1>3, FaultedRecord DEF p, d, f
<1>5. f.rec.bytes_completed = b /\ f.rec.status = s /\ f.rec.delta_record_size = Len(a[1])
  BY <1>4 DEF Mem, Rec
<1>6. /\ u.source_1_address = b /\ u.source_2_address = b
      /\ u.transfer_size = j.transfer_size - b
      /\ u.maximum_delta_record_size = j.maximum_delta_record_size - Len(a[1])
      /\ u.delta_record_address = 0 + Len(a[1])
  <2>1. /\ u.source_1_address = 0 + b /\ u.source_2_address = 0 + b
        /\ u.transfer_size = j.transfer_size - b
        /\ u.maximum_delta_record_size = j.maximum_delta_record_size - Len(a[1])
        /\ u.delta_record_address = 0 + Len(a[1])
    BY <1>5 DEF u, f, Rest, update_for_continuation, MakeTask
  <2> QED  BY <2>1
<1>7. Kernel(j, u, f)
        = Mem(Blank, Blank, both, Rec(DeltaStatus(j, c[2]), c[2], b, Len(c[1]), <<>>))
  BY <1>4, KernelOfCreateDelta DEF c, both
<1> DEFINE m == Kernel(j, u, f)
           shifted == ShiftNotes(both, u.delta_record_address, Len(c[1]), b \div WordSize)
<1> HIDE DEF m, shifted
<1>8. /\ m.delta = both /\ m.rec.delta_record_size = Len(c[1])
  BY <1>7 DEF m, Mem, Rec
<1>9. Joined(j, b, s) = [[[m EXCEPT !.rec.bytes_completed = @ + b] EXCEPT !.delta = shifted]
                           EXCEPT !.rec.delta_record_size = @ + Len(a[1])]
  BY <1>5, <1>8 DEF Joined, accumulate_records, u, f, m, shifted
<1> DEFINE t == DeltaStatus(j, c[2])
           n == Len(c[1])
<1> HIDE DEF t, n
<1>10. [m EXCEPT !.rec.bytes_completed = @ + b]
         = Mem(Blank, Blank, both, Rec(t, c[2], b + b, n, <<>>))
  <2>1. m = Mem(Blank, Blank, both, Rec(t, c[2], b, n, <<>>))
    BY <1>7 DEF m, t, n
  <2> DEFINE bb == m.rec.bytes_completed + b
  <2> HIDE DEF bb
  <2>2. [m EXCEPT !.rec.bytes_completed = bb] = Mem(Blank, Blank, both, Rec(t, c[2], bb, n, <<>>))
    BY <2>1 DEF Mem, Rec
  <2>3. m.rec.bytes_completed = b
    BY <2>1 DEF Mem, Rec
  <2> QED  BY <2>2, <2>3 DEF bb
<1>11. [Mem(Blank, Blank, both, Rec(t, c[2], b + b, n, <<>>)) EXCEPT !.delta = shifted]
         = Mem(Blank, Blank, shifted, Rec(t, c[2], b + b, n, <<>>))
  BY DEF Mem
<1>12. [Mem(Blank, Blank, shifted, Rec(t, c[2], b + b, n, <<>>))
          EXCEPT !.rec.delta_record_size = @ + Len(a[1])]
         = Mem(Blank, Blank, shifted, Rec(t, c[2], b + b, n + Len(a[1]), <<>>))
  BY DEF Mem, Rec
<1>13. b \in Cuts(j) => a[2] # 2
  <2>1. Kernel(j, p, BlankMem).rec.result = a[2]
    BY <1>3 DEF Mem, Rec
  <2>2. b \in Cuts(j) => Kernel(j, p, BlankMem).rec.result # 2
    BY DEF Cuts, FaultPoints, p, d
  <2> QED  BY <2>1, <2>2
<1>14. w = AllFound(j) /\ a = FirstFound(j, b) /\ c = NextFound(j, b, s) /\ u = Rest(j, b, s)
         /\ f = Faulted(j, b, s)
  BY DEF w, a, c, d, p, u, f, AllFound, FirstFound, NextFound
<1>15. shifted = Merged(j, b, s)
  BY <1>14 DEF Merged, shifted, both, part1
<1>16. Joined(j, b, s) = Mem(Blank, Blank, shifted, Rec(t, c[2], b + b, n + Len(a[1]), <<>>))
  BY <1>9, <1>10, <1>11, <1>12
<1> QED  BY <1>2, <1>5, <1>6, <1>13, <1>14, <1>15, <1>16 DEF DeltaParts, t, n

-----------------------------------------------------------------------------
\* Quotient and remainder of the word size.
LEMMA Division ==
    ASSUME NEW n \in Int
    PROVE  /\ n = WordSize * (n \div WordSize) + (n % WordSize)
           /\ n \div WordSize \in Int /\ n % WordSize \in 0 .. WordSize - 1
  BY JobAssumption

\* Multiplication by the word size distributes.
LEMMA Distributes ==
    ASSUME NEW w \in Int, NEW x \in Int, NEW y \in Int
    PROVE  w * x - w * y = w * (x - y)
  OBVIOUS

\* Between minus the word size and the word size 0 is the only multiple of it.
LEMMA NoMultipleBetween ==
    ASSUME NEW w \in Nat \ {0}, NEW k \in Int, NEW a \in 0 .. w - 1, NEW b \in 0 .. w - 1,
           w * k = a - b
    PROVE  k = 0
<1>1. CASE k >= 1
  <2>1. w * k >= w
    BY <1>1
  <2> QED  BY <2>1
<1>2. CASE k <= -1
  <2>1. w * k <= -w
    BY <1>2
  <2> QED  BY <2>1
<1> QED  BY <1>1, <1>2

\* A number is split into quotient and remainder in one way.
LEMMA DivisionUnique ==
    ASSUME NEW q \in Int, NEW r \in 0 .. WordSize - 1
    PROVE  (WordSize * q + r) % WordSize = r /\ (WordSize * q + r) \div WordSize = q
<1> DEFINE n == WordSize * q + r
           q2 == n \div WordSize
           r2 == n % WordSize
           k == q - q2
<1>1. WordSize \in Nat \ {0} /\ WordSize * q \in Int /\ r \in Int
  BY JobAssumption
<1>2. n \in Int
  BY <1>1
<1>3. n = WordSize * q2 + r2 /\ q2 \in Int /\ r2 \in 0 .. WordSize - 1
  <2> HIDE DEF n
  <2> QED  BY <1>2, Division
<1>4. n = WordSize * q + r
  OBVIOUS
<1> HIDE DEF n, q2, r2
<1>5. WordSize * q - WordSize * q2 = WordSize * k /\ k \in Int
  BY <1>1, <1>3, Distributes
<1>6. WordSize * q2 \in Int /\ WordSize * k \in Int
  BY <1>1, <1>3, <1>5
<1>7. WordSize * k = r2 - r
  BY <1>1, <1>3, <1>4, <1>5, <1>6
<1> HIDE DEF k
<1>8. k = 0
  BY <1>1, <1>3, <1>5, <1>7, NoMultipleBetween
<1>9. q2 = q /\ r2 = r
  <2>1. q2 = q
    BY <1>3, <1>8 DEF k
  <2> QED  BY <1>1, <1>3, <1>4, <1>6, <2>1
<1> QED  BY <1>9 DEF q2, r2, n

\* Shifting by a multiple of the word changes neither the place in a word nor
\* the distance between two words.
LEMMA ShiftByWords ==
    ASSUME NEW b \in Int, NEW i \in Int, b % WordSize = 0
    PROVE  /\ (i - b) % WordSize = i % WordSize
           /\ (i - b) \div WordSize = i \div WordSize - b \div WordSize
<1> DEFINE q == i \div WordSize - b \div WordSize
           r == i % WordSize
<1>1. q \in Int /\ r \in 0 .. WordSize - 1 /\ WordSize \in Nat
  BY Division, JobAssumption
<1>2. i - b = WordSize * q + r
  <2>1. WordSize * (i \div WordSize) - WordSize * (b \div WordSize) = WordSize * q
    <3> DEFINE x == i \div WordSize
               y == b \div WordSize
    <3>1. x \in Int /\ y \in Int /\ WordSize \in Int
      BY Division, JobAssumption
    <3> HIDE DEF x, y
    <3>2. WordSize * x - WordSize * y = WordSize * (x - y)
      BY <3>1, Distributes
    <3> QED  BY <3>2 DEF x, y
  <2> QED  BY <1>1, <2>1, Division, SMTT(60)
<1> HIDE DEF q, r
<1>3. (WordSize * q + r) % WordSize = r /\ (WordSize * q + r) \div WordSize = q
  BY <1>1, DivisionUnique
<1> QED  BY <1>1, <1>2, <1>3 DEF q, r

\* Where a job may be split: inside its extent, and at a word boundary when its
\* kernel works in words.
LEMMA SplitType ==
    ASSUME NEW j \in Jobs, NEW b \in Splits(j)
    PROVE  /\ b \in Nat
           /\ j.op = "apply_delta" => b <= Len(j.delta)
           /\ j.op # "apply_delta" => b < j.transfer_size
           /\ j.op \in {"fill", "compare_pattern", "create_delta"} => b % WordSize = 0
<1>1. Len(j.delta) \in Nat /\ j.transfer_size \in Nat \ {0} /\ WordSize \in Nat \ {0}
  BY JobAssumption
<1>2. CASE b \in Cuts(j)
  <2>1. b \in 0 .. Extent(j, MakeTask(j)) - 1
    BY <1>2 DEF Cuts, FaultPoints
  <2>2. j.op \in {"fill", "compare_pattern", "create_delta"} => b % WordSize = 0
    BY <1>2 DEF Cuts, FaultPoints
  <2>3. Extent(j, MakeTask(j)) = IF j.op = "apply_delta" THEN Len(j.delta) ELSE j.transfer_size
    BY DEF Extent, MakeTask
  <2> QED  BY <1>1, <2>1, <2>2, <2>3
<1>3. CASE b = 0
  <2>1. 0 % WordSize = 0
    BY <1>1
  <2> QED  BY <1>1, <1>3, <2>1
<1> QED  BY <1>2, <1>3 DEF Splits

\* A pattern continued at a word boundary is the pattern of the whole.
LEMMA FillDestination ==
    ASSUME job \in Jobs, job.op = "fill", NEW b \in Splits(job), NEW i \in Offsets
    PROVE  LET part1 == dml_ref_fill_u64(job.pattern, Blank, 0, b)
               whole == dml_ref_fill_u64(job.pattern, Blank, 0, job.transfer_size)
               joined == dml_ref_fill_u64(job.pattern, part1, b, job.transfer_size - b)
           IN  whole[i] = WantedDst1(i) /\ joined[i] = WantedDst1(i)
<1> USE JobAssumption DEF Offsets
<1> DEFINE n == job.transfer_size
           part1 == dml_ref_fill_u64(job.pattern, Blank, 0, b)
           whole == dml_ref_fill_u64(job.pattern, Blank, 0, n)
           joined == dml_ref_fill_u64(job.pattern, part1, b, n - b)
<1>1. b \in Nat /\ n \in Nat /\ b < n /\ b % WordSize = 0 /\ i \in Nat /\ WordSize \in Nat \ {0}
  BY SplitType
<1>2. WantedDst1(i) = IF i < n THEN job.pattern[i % WordSize] ELSE Untouched
  BY DEF WantedDst1
<1>3. whole[i] = IF i < n THEN job.pattern[i % WordSize] ELSE Untouched
  <2>1. i - 0 = i
    BY <1>1
  <2> QED  BY <1>1, <2>1 DEF dml_ref_fill_u64, Write, Blank
<1>4. /\ part1 = [a \in Offsets |-> part1[a]]
      /\ part1[i] = IF i < b THEN job.pattern[i % WordSize] ELSE Untouched
  <2>1. i - 0 = i
    BY <1>1
  <2> QED  BY <1>1, <2>1 DEF dml_ref_fill_u64, Write, Blank
<1> HIDE DEF part1
<1>5. joined[i] = IF i \in b .. b + (n - b) - 1 THEN job.pattern[(i - b) % WordSize] ELSE part1[i]
  BY <1>4 DEF dml_ref_fill_u64, Write
<1>6. (i - b) % WordSize = i % WordSize
  <2>1. i \in Int /\ b \in Int
    BY <1>1
  <2> QED  BY <1>1, <2>1, ShiftByWords, Zenon
<1>7. i \in b .. b + (n - b) - 1 <=> b <= i /\ i < n
  BY <1>1
<1> QED  BY <1>1, <1>2, <1>3, <1>4, <1>5, <1>6, <1>7 DEF part1

\* A byte that the first part or the second part copies.
LEMMA CopyDestination ==
    ASSUME NEW j \in Jobs, NEW b \in Nat, b < j.transfer_size, NEW i \in Offsets
    PROVE  LET part1 == dml_ref_dualcast(j.source_1, 0, Blank, 0, b)
               whole == dml_ref_dualcast(j.source_1, 0, Blank, 0, j.transfer_size)
               joined == dml_ref_dualcast(j.source_1, b, part1, b, j.transfer_size - b)
               wanted == IF i < j.transfer_size THEN j.source_1[i] ELSE Untouched
           IN  whole[i] = wanted /\ joined[i] = wanted
<1> USE JobAssumption DEF Offsets
<1> DEFINE n == j.transfer_size
           part1 == dml_ref_dualcast(j.source_1, 0, Blank, 0, b)
           whole == dml_ref_dualcast(j.source_1, 0, Blank, 0, n)
           joined == dml_ref_dualcast(j.source_1, b, part1, b, n - b)
<1>1. n \in Nat /\ i \in Nat /\ 0 + (i - 0) = i /\ b + (i - b) = i
  OBVIOUS
<1>2. whole[i] = IF i < n THEN j.source_1[i] ELSE Untouched
  BY <1>1 DEF dml_ref_dualcast, Write, Blank
<1>3. /\ part1 = [a \in Offsets |-> part1[a]]
      /\ part1[i] = IF i < b THEN j.source_1[i] ELSE Untouched
  BY <1>1 DEF dml_ref_dualcast, Write, Blank
<1> HIDE DEF part1
<1>4. joined[i] = IF i \in b .. b + (n - b) - 1 THEN j.source_1[b + (i - b)] ELSE part1[i]
  BY <1>3 DEF dml_ref_dualcast, Write
<1> QED  BY <1>1, <1>2, <1>3, <1>4 DEF part1

\* A nonempty set of positions has a largest member.
LEMMA LargestOfThem ==
    ASSUME NEW n \in Nat, NEW T \in SUBSET (1 .. n), T # {}
    PROVE  \E x \in T : \A y \in T : y <= x
<1> DEFINE R == {ss \in Nat \X Nat : ss[1] < ss[2]}
           D == {n - y : y \in T}
<1>1. IsWellFoundedOn(R, Nat)
  BY NatLessThanWellFounded DEF OpToRel
<1>2. D \subseteq Nat /\ D # {}
  <2>1. \A y \in T : n - y \in Nat /\ n - y \in D
    OBVIOUS
  <2>2. PICK y \in T : TRUE
    OBVIOUS
  <2>3. D # {}
    BY <2>1, <2>2
  <2>4. D \subseteq Nat
    BY <2>1
  <2> QED  BY <2>3, <2>4
<1>3. PICK d \in D : \A k \in D : ~ (<<k, d>> \in R)
  <2> HIDE DEF R, D
  <2> QED  BY <1>1, <1>2, WFMin
<1>4. PICK x \in T : d = n - x
  OBVIOUS
<1>5. ASSUME NEW y \in T
      PROVE  y <= x
  <2>1. n - y \in D /\ n - y \in Nat /\ d \in Nat
    BY <1>2
  <2>2. n - y < d => <<n - y, d>> \in R
    BY <2>1
  <2> QED  BY <1>3, <1>4, <2>1, <2>2
<1> QED  BY <1>5

\* Max, from the largest member.
LEMMA MaxIs ==
    ASSUME NEW T \in SUBSET Int, NEW x \in T, \A y \in T : y <= x
    PROVE  Max(T) = x
<1>1. \E z \in T : \A y \in T : z >= y
  OBVIOUS
<1>2. Max(T) \in T /\ \A y \in T : Max(T) >= y
  BY <1>1, Zenon DEF Max
<1> DEFINE m == Max(T)
<1>3. m \in T /\ m >= x /\ m <= x
  BY <1>2
<1> HIDE DEF m
<1>4. m \in Int /\ x \in Int
  BY <1>3
<1>5. m = x
  BY <1>3, <1>4
<1> QED  BY <1>5 DEF m

\* Min, from the smallest member.
LEMMA MinIs ==
    ASSUME NEW T \in SUBSET Int, NEW x \in T, \A y \in T : x <= y
    PROVE  Min(T) = x
<1>1. Min(T) \in T /\ \A y \in T : Min(T) <= y
  BY Zenon DEF Min
<1> DEFINE m == Min(T)
<1>2. m \in T /\ m >= x /\ m <= x
  BY <1>1
<1> HIDE DEF m
<1>3. m \in Int /\ x \in Int
  BY <1>2
<1>4. m = x
  BY <1>2, <1>3
<1> QED  BY <1>4 DEF m

\* The last of some positions is the last of those behind b if there are any.
LEMMA LastOfParts ==
    ASSUME NEW n \in Nat, NEW b \in Nat, b <= n, NEW A \in SUBSET (1 .. n)
    PROVE  LET B == {k \in 1 .. n - b : b + k \in A}
           IN  /\ A # {} => Max(A) \in A
               /\ B # {} => Max(B) \in 1 .. n - b /\ A # {} /\ Max(A) = b + Max(B)
               /\ B = {} => A \subseteq 1 .. b
<1> DEFINE B == {k \in 1 .. n - b : b + k \in A}
<1>1. ASSUME A # {}
      PROVE  Max(A) \in A
  <2>1. PICK x \in A : \A y \in A : y <= x
    BY <1>1, LargestOfThem
  <2>2. A \in SUBSET Int
    OBVIOUS
  <2>3. Max(A) = x
    BY <2>1, <2>2, MaxIs
  <2> QED  BY <2>3
<1>2. ASSUME B # {}
      PROVE  Max(B) \in 1 .. n - b /\ A # {} /\ Max(A) = b + Max(B)
  <2>1. B \in SUBSET (1 .. n - b) /\ n - b \in Nat
    OBVIOUS
  <2>2. PICK x \in B : \A y \in B : y <= x
    BY <1>2, <2>1, LargestOfThem
  <2>3. Max(B) = x
    <3>1. B \in SUBSET Int
      BY <2>1
    <3> QED  BY <2>2, <3>1, MaxIs
  <2>4. ASSUME NEW y \in A
        PROVE  y <= b + x
    <3> SUFFICES ASSUME y > b + x PROVE FALSE
      BY <2>1
    <3>1. y - b \in B
      BY <2>1
    <3> QED  BY <2>1, <2>2, <3>1
  <2>5. b + x \in A
    OBVIOUS
  <2>6. Max(A) = b + x
    BY <2>4, <2>5, MaxIs
  <2> QED  BY <2>1, <2>3, <2>5, <2>6
<1>3. ASSUME B = {}, NEW y \in A
      PROVE  y \in 1 .. b
  <2> SUFFICES ASSUME y > b PROVE FALSE
    OBVIOUS
  <2>1. y - b \in B
    OBVIOUS
  <2> QED  BY <1>3, <2>1
<1> QED  BY <1>1, <1>2, <1>3

\* The notes applied in two parts leave, in each word, the last note about it.
LEMMA ApplyDestination ==
    ASSUME job \in Jobs, job.op = "apply_delta", NEW b \in Splits(job), NEW i \in Offsets
    PROVE  LET n == Len(job.delta)
               part1 == dml_ref_apply_delta(SubSeq(job.delta, 1, b), Blank, 0)
               whole == dml_ref_apply_delta(SubSeq(job.delta, 1, n), Blank, 0)
               joined == dml_ref_apply_delta(SubSeq(job.delta, b + 1, b + (n - b)), part1, 0)
           IN  whole[i] = WantedDst1(i) /\ joined[i] = WantedDst1(i)
<1> DEFINE n == Len(job.delta)
           w == i \div WordSize
           o == i % WordSize
           v(k) == job.delta[k].data[o]
           A == {k \in 1 .. n : job.delta[k].offset = w}
           front == SubSeq(job.delta, 1, b)
           back == SubSeq(job.delta, b + 1, b + (n - b))
           A1 == {k \in DOMAIN front : front[k].offset = w}
           A2 == {k \in DOMAIN back : back[k].offset = w}
           part1 == dml_ref_apply_delta(front, Blank, 0)
<1>1. /\ job.delta \in Seq([offset : Nat, data : [0 .. WordSize - 1 -> Nat]])
      /\ n \in Nat /\ b \in Nat /\ b <= n /\ i \in Nat /\ i - 0 = i /\ DOMAIN job.delta = 1 .. n
  <2>1. job.delta \in Seq([offset : Nat, data : [0 .. WordSize - 1 -> Nat]]) /\ Size \in Nat
    BY JobAssumption
  <2>2. b \in Nat /\ b <= n
    BY SplitType
  <2> QED  BY <2>1, <2>2 DEF Offsets
<1>2. SubSeq(job.delta, 1, n) = job.delta
  BY <1>1
<1>3. /\ DOMAIN front = 1 .. b
      /\ \A k \in 1 .. b : front[k] = job.delta[k]
  BY <1>1
<1>4. /\ DOMAIN back = 1 .. n - b
      /\ \A k \in 1 .. n - b : back[k] = job.delta[b + k]
  BY <1>1
<1>5. WantedDst1(i) = IF A = {} THEN Untouched ELSE v(Max(A))
  BY <1>1 DEF WantedDst1
<1>6. dml_ref_apply_delta(job.delta, Blank, 0)[i] = IF A = {} THEN Untouched ELSE v(Max(A))
  BY <1>1 DEF dml_ref_apply_delta, Blank
<1>7. part1 = [a \in Offsets |-> part1[a]]
  BY DEF dml_ref_apply_delta, Blank
<1>8. part1[i] = IF A1 = {} THEN Untouched ELSE front[Max(A1)].data[o]
  BY <1>1 DEF dml_ref_apply_delta, Blank
<1>9. dml_ref_apply_delta(back, part1, 0)[i] = IF A2 = {} THEN part1[i] ELSE back[Max(A2)].data[o]
  <2> HIDE DEF part1
  <2> QED  BY <1>1, <1>7 DEF dml_ref_apply_delta
<1> HIDE DEF part1, v, o
<1>10. A \in SUBSET (1 .. n) /\ A2 = {k \in 1 .. n - b : b + k \in A}
  <2>1. \A k \in 1 .. n - b : b + k \in 1 .. n
    BY <1>1
  <2> QED  BY <1>4, <2>1
<1>11. A2 = {} /\ A \subseteq 1 .. b => A1 = A
  BY <1>1, <1>3, SMTT(60)
<1> HIDE DEF A, A2
<1>12. /\ A # {} => Max(A) \in A
       /\ A2 # {} => Max(A2) \in 1 .. n - b /\ A # {} /\ Max(A) = b + Max(A2)
       /\ A2 = {} => A \subseteq 1 .. b
  <2>1. n \in Nat /\ b \in Nat /\ b <= n
    BY <1>1
  <2> HIDE DEF n
  <2> DEFINE B == {k \in 1 .. n - b : b + k \in A}
  <2>2. /\ A # {} => Max(A) \in A
        /\ B # {} => Max(B) \in 1 .. n - b /\ A # {} /\ Max(A) = b + Max(B)
        /\ B = {} => A \subseteq 1 .. b
    BY <1>10, <2>1, LastOfParts
  <2> QED  BY <1>10, <2>2
<1> HIDE DEF A1, front, back, n
<1>13. CASE A2 # {}
  BY <1>2, <1>4, <1>5, <1>6, <1>9, <1>12, <1>13 DEF v, part1, n, back, front
<1>14. CASE A2 = {}
  BY <1>2, <1>3, <1>5, <1>6, <1>8, <1>9, <1>11, <1>12, <1>14 DEF v, part1, n, back, front
<1> QED  BY <1>13, <1>14

-----------------------------------------------------------------------------
(* The checksum. *)

\* n bytes of source 1 in order.
BytesOf(j, from, n) == [i \in 1 .. n |-> j.source_1[from + i - 1]]

\* The bytes a CRC absorbs are inside the source.
LEMMA BytesOfType ==
    ASSUME NEW j \in Jobs, NEW from \in Nat, NEW n \in Nat, from + n <= Size
    PROVE  /\ BytesOf(j, from, n) \in Seq(Int) /\ Len(BytesOf(j, from, n)) = n
           /\ \A i \in 1 .. n : BytesOf(j, from, n)[i] = j.source_1[from + i - 1]
           /\ \A i \in 1 .. n : BytesOf(j, from, n)[i] \in Nat
<1>1. \A i \in 1 .. n : from + i - 1 \in Offsets
  BY JobAssumption DEF Offsets
<1>2. \A i \in 1 .. n : j.source_1[from + i - 1] \in Nat
  BY <1>1, JobAssumption
<1> QED  BY <1>2 DEF BytesOf

\* Bytes that two workers absorb one after the other are those one would.
LEMMA BytesMeet ==
    ASSUME NEW j \in Jobs, NEW n \in Nat, NEW b \in Nat, b <= n, n <= Size
    PROVE  BytesOf(j, 0, b) \o BytesOf(j, b, n - b) = BytesOf(j, 0, n)
<1> DEFINE p == BytesOf(j, 0, b)
           q == BytesOf(j, b, n - b)
           w == BytesOf(j, 0, n)
<1>1. 0 \in Nat /\ n - b \in Nat /\ 0 + b <= Size /\ b + (n - b) <= Size /\ 0 + n <= Size
  BY JobAssumption
<1>2. p \in Seq(Int) /\ Len(p) = b
  BY <1>1, BytesOfType
<1>3. q \in Seq(Int) /\ Len(q) = n - b
  BY <1>1, BytesOfType
<1>4. w \in Seq(Int) /\ Len(w) = n
  BY <1>1, BytesOfType
<1>5. ASSUME NEW i \in 1 .. n
      PROVE  (p \o q)[i] = w[i]
  <2>1. w[i] = j.source_1[i - 1]
    BY <1>1 DEF BytesOf
  <2>2. CASE i <= b
    <3>1. (p \o q)[i] = p[i]
      <4> HIDE DEF p, q
      <4> QED  BY <1>2, <1>3, <2>2
    <3>2. p[i] = j.source_1[i - 1]
      BY <2>2 DEF BytesOf
    <3> QED  BY <2>1, <3>1, <3>2
  <2>3. CASE i > b
    <3>1. (p \o q)[i] = q[i - b]
      <4> HIDE DEF p, q
      <4> QED  BY <1>1, <1>2, <1>3, <2>3, SMTT(60)
    <3>2. q[i - b] = j.source_1[i - 1]
      <4>1. i - b \in 1 .. n - b /\ b + (i - b) - 1 = i - 1
        BY <2>3
      <4> QED  BY <4>1 DEF BytesOf
    <3> QED  BY <2>1, <3>1, <3>2
  <2>4. i <= b \/ i > b
    OBVIOUS
  <2> HIDE DEF p, q, w
  <2> QED  BY <2>2, <2>3, <2>4
<1> HIDE DEF p, q, w
<1>6. Len(p \o q) = n /\ p \o q \in Seq(Int)
  BY <1>1, <1>2, <1>3
<1>7. p \o q = w
  BY <1>4, <1>5, <1>6, SeqEqual
<1> QED  BY <1>7 DEF p, q, w

\* Inverting and reflecting a state twice changes nothing, and a byte is never
\* taken for the mark of an inversion.
LEMMA ReflectTwice ==
    ASSUME NEW c \in Seq(Int)
    PROVE  Reflect(c \o <<ReflectMark>>) = c
<1> DEFINE r == c \o <<ReflectMark>>
<1>1. r \in Seq(Int) /\ Len(r) = Len(c) + 1 /\ r[Len(r)] = ReflectMark
  BY DEF ReflectMark
<1>2. Reflect(r) = SubSeq(r, 1, Len(r) - 1)
  BY <1>1 DEF Reflect, Last, Front
<1>3. SubSeq(r, 1, Len(r) - 1) = c
  BY <1>1
<1> QED  BY <1>2, <1>3

\* Three parts of a checksum.
LEMMA InThree ==
    ASSUME NEW x \in Seq(Int), NEW y \in Seq(Int), NEW z \in Seq(Int)
    PROVE  (x \o y) \o z = x \o (y \o z)
  BY ConcatAssociative, SMTT(60)

\* A state that ends with a byte is inverted by adding the mark.
LEMMA ReflectBytes ==
    ASSUME NEW c \in Seq(Int), Len(c) > 0, c[Len(c)] # ReflectMark
    PROVE  Reflect(c) = c \o <<ReflectMark>>
  BY DEF Reflect, Last, ReflectMark

\* So is a state that has absorbed at least one byte.
LEMMA ReflectAbsorbed ==
    ASSUME NEW j \in Jobs, NEW c \in Seq(Int), NEW from \in Nat, NEW n \in Nat,
           from + n <= Size, n > 0
    PROVE  Reflect(c \o BytesOf(j, from, n)) = c \o BytesOf(j, from, n) \o <<ReflectMark>>
<1> DEFINE q == BytesOf(j, from, n)
<1>1. q \in Seq(Int) /\ Len(q) = n /\ q[n] \in Nat
  BY BytesOfType
<1> HIDE DEF q
<1>2. c \o q \in Seq(Int) /\ Len(c \o q) = Len(c) + n /\ (c \o q)[Len(c) + n] = q[n]
  <2>1. /\ c \o q \in Seq(Int) /\ Len(c \o q) = Len(c) + Len(q)
        /\ \A i \in 1 .. Len(c) + Len(q) :
              (c \o q)[i] = IF i <= Len(c) THEN c[i] ELSE q[i - Len(c)]
    BY <1>1, ConcatProperties
  <2>2. Len(c) \in Nat /\ Len(c) + n \in 1 .. Len(c) + Len(q)
    BY <1>1
  <2>3. (c \o q)[Len(c) + n] = IF Len(c) + n <= Len(c) THEN c[Len(c) + n]
                                ELSE q[Len(c) + n - Len(c)]
    BY <2>1, <2>2
  <2>4. ~(Len(c) + n <= Len(c)) /\ Len(c) + n - Len(c) = n
    BY <2>2
  <2> QED  BY <1>1, <2>1, <2>3, <2>4
<1>3. Len(c \o q) > 0 /\ (c \o q)[Len(c \o q)] # ReflectMark
  BY <1>1, <1>2 DEF ReflectMark
<1>4. Reflect(c \o q) = c \o q \o <<ReflectMark>>
  BY <1>2, <1>3, ReflectBytes
<1> QED  BY <1>4 DEF q

\* What a descriptor adds to a state.
LEMMA AbsorbIs ==
    ASSUME NEW j, NEW d, NEW c
    PROVE  Absorb(c, j, d) = c \o BytesOf(j, d.source_1_address, d.transfer_size)
  BY DEF Absorb, BytesOf

\* The checksum of a job's whole source.
WholeCrc(j) ==
    IF j.bypass_reflection THEN <<SeedMark>> \o BytesOf(j, 0, j.transfer_size)
    ELSE <<SeedMark, ReflectMark>> \o BytesOf(j, 0, j.transfer_size) \o <<ReflectMark>>

\* A checksum from its first part: the second worker goes on where the first has
\* stopped, also when that was before the first byte.
LEMMA CrcOfParts ==
    ASSUME NEW j \in Jobs, NEW b \in Nat, b < j.transfer_size, NEW d, NEW p, NEW u,
           d.source_1_address = 0, d.transfer_size = j.transfer_size, d.crc_seed = <<SeedMark>>,
           p.source_1_address = 0, p.transfer_size = b, p.crc_seed = <<SeedMark>>,
           u.source_1_address = b, u.transfer_size = j.transfer_size - b, u.crc_seed = CrcOf(j, p)
    PROVE  CrcOf(j, d) = WholeCrc(j) /\ CrcOf(j, u) = WholeCrc(j)
<1> DEFINE n == j.transfer_size
           first == BytesOf(j, 0, b)
           second == BytesOf(j, b, n - b)
           all == BytesOf(j, 0, n)
           seed == <<SeedMark>>
           start == <<SeedMark, ReflectMark>>
<1>1. n \in Nat /\ n <= Size /\ Size \in Nat /\ n - b \in Nat /\ n > 0 /\ n - b > 0
  BY JobAssumption
<1>2. first \in Seq(Int) /\ second \in Seq(Int) /\ all \in Seq(Int) /\ Len(first) = b
  <2>1. 0 \in Nat /\ 0 + b <= Size /\ b + (n - b) <= Size /\ 0 + n <= Size
    BY <1>1
  <2>2. first \in Seq(Int) /\ Len(first) = b
    BY <2>1, BytesOfType
  <2>3. second \in Seq(Int)
    BY <1>1, <2>1, BytesOfType
  <2>4. all \in Seq(Int)
    BY <1>1, <2>1, BytesOfType
  <2> QED  BY <2>2, <2>3, <2>4
<1>3. first \o second = all
  <2>1. b <= n
    BY <1>1
  <2> QED  BY <1>1, <2>1, BytesMeet
<1>4. seed \in Seq(Int) /\ start \in Seq(Int) /\ start = seed \o <<ReflectMark>>
  BY DEF SeedMark, ReflectMark
<1>5. Reflect(seed) = start
  <2>1. Len(seed) > 0 /\ seed[Len(seed)] # ReflectMark
    BY DEF SeedMark, ReflectMark
  <2> HIDE DEF seed, start
  <2> QED  BY <1>4, <2>1, ReflectBytes
<1>6. /\ Absorb(d.crc_seed, j, d) = seed \o all
      /\ Absorb(Reflect(d.crc_seed), j, d) = start \o all
      /\ Absorb(p.crc_seed, j, p) = seed \o first
      /\ Absorb(Reflect(p.crc_seed), j, p) = start \o first
      /\ Absorb(u.crc_seed, j, u) = CrcOf(j, p) \o second
      /\ Absorb(Reflect(u.crc_seed), j, u) = Reflect(CrcOf(j, p)) \o second
  BY <1>5, AbsorbIs
<1>7. /\ Reflect(start \o all) = start \o all \o <<ReflectMark>>
      /\ Reflect(start \o second) = start \o second \o <<ReflectMark>>
  <2>1. 0 \in Nat /\ b + (n - b) <= Size /\ 0 + n <= Size
    BY <1>1
  <2> HIDE DEF start
  <2>2. Reflect(start \o all) = start \o all \o <<ReflectMark>>
    BY <1>1, <1>4, <2>1, ReflectAbsorbed, ZenonT(60)
  <2>3. Reflect(start \o second) = start \o second \o <<ReflectMark>>
    BY <1>1, <1>4, <2>1, ReflectAbsorbed, ZenonT(60)
  <2> QED  BY <2>2, <2>3
<1>8. CASE j.bypass_reflection
  <2>1. CrcOf(j, d) = seed \o all /\ CrcOf(j, p) = seed \o first
    BY <1>6, <1>8 DEF CrcOf
  <2>2. CrcOf(j, u) = (seed \o first) \o second
    BY <1>6, <1>8, <2>1 DEF CrcOf
  <2> HIDE DEF first, second, all, seed
  <2>3. (seed \o first) \o second = seed \o (first \o second)
    <3>1. seed \in Seq(Int) /\ first \in Seq(Int) /\ second \in Seq(Int)
      BY <1>2, <1>4
    <3> QED  BY <3>1, InThree
  <2> QED  BY <1>3, <1>8, <2>1, <2>2, <2>3 DEF WholeCrc, seed, all
<1>9. CASE ~j.bypass_reflection
  <2>1. Reflect(CrcOf(j, p)) = start \o first
    <3>1. CrcOf(j, p) = Reflect(start \o first)
      BY <1>6, <1>9 DEF CrcOf
    <3>2. CASE b = 0
      <4>1. start \o first = seed \o <<ReflectMark>>
        <5> HIDE DEF first, start, seed
        <5>1. first = <<>>
          BY <1>2, <3>2
        <5> QED  BY <1>2, <1>4, <5>1
      <4>2. Reflect(start \o first) = seed
        BY <1>4, <4>1, ReflectTwice
      <4> QED  BY <1>4, <1>5, <3>1, <4>1, <4>2
    <3>3. CASE b > 0
      <4>1. Reflect(start \o first) = start \o first \o <<ReflectMark>>
        <5>1. 0 \in Nat /\ 0 + b <= Size
          BY <1>1
        <5> HIDE DEF start
        <5> QED  BY <1>4, <3>3, <5>1, ReflectAbsorbed
      <4>2. start \o first \in Seq(Int)
        BY <1>2, <1>4
      <4>3. Reflect((start \o first) \o <<ReflectMark>>) = start \o first
        BY <4>2, ReflectTwice
      <4> QED  BY <3>1, <4>1, <4>3
    <3> QED  BY <3>2, <3>3
  <2>2. CrcOf(j, u) = Reflect((start \o first) \o second)
    BY <1>6, <1>9, <2>1 DEF CrcOf
  <2>3. (start \o first) \o second = start \o all
    <3>1. (start \o first) \o second = start \o (first \o second)
      <4> HIDE DEF first, second, all, start
      <4> QED  BY <1>2, <1>4
    <3> QED  BY <1>3, <3>1
  <2>4. CrcOf(j, d) = Reflect(start \o all)
    BY <1>6, <1>9 DEF CrcOf
  <2> QED  BY <1>7, <1>9, <2>2, <2>3, <2>4 DEF WholeCrc
<1> QED  BY <1>8, <1>9

\* What CrcOfWholeSource asks for.
LEMMA WantedCrc ==
    ASSUME NEW j \in Jobs
    PROVE  SubSeq([i \in 1 .. Size |-> j.source_1[i - 1]], 1, j.transfer_size)
             = BytesOf(j, 0, j.transfer_size)
<1> DEFINE q == [i \in 1 .. Size |-> j.source_1[i - 1]]
           n == j.transfer_size
           w == BytesOf(j, 0, n)
<1>1. n \in Nat /\ n <= Size /\ Size \in Nat
  BY JobAssumption
<1>2. \A i \in 1 .. Size : j.source_1[i - 1] \in Int
  <2>1. \A i \in 1 .. Size : i - 1 \in Offsets
    BY <1>1 DEF Offsets
  <2> QED  BY <2>1, JobAssumption
<1>3. q \in Seq(Int) /\ Len(q) = Size /\ \A i \in 1 .. Size : q[i] = j.source_1[i - 1]
  BY <1>1, <1>2
<1>4. w \in Seq(Int) /\ Len(w) = n /\ \A i \in 1 .. n : w[i] = j.source_1[0 + i - 1]
  <2>1. 0 \in Nat /\ 0 + n <= Size
    BY <1>1
  <2>2. w \in Seq(Int) /\ Len(w) = n
    BY <1>1, <2>1, BytesOfType
  <2>3. \A i \in 1 .. n : w[i] = j.source_1[0 + i - 1]
    BY DEF BytesOf
  <2> QED  BY <2>2, <2>3
<1> HIDE DEF q, w
<1>5. SubSeq(q, 1, n) \in Seq(Int) /\ Len(SubSeq(q, 1, n)) = n
      /\ \A i \in 1 .. n : SubSeq(q, 1, n)[i] = q[i]
  BY <1>1, <1>3
<1>6. ASSUME NEW i \in 1 .. n
      PROVE  SubSeq(q, 1, n)[i] = w[i]
  <2>1. 0 + i - 1 = i - 1 /\ i \in 1 .. Size
    BY <1>1
  <2> QED  BY <1>3, <1>4, <1>5, <2>1
<1>7. SubSeq(q, 1, n) = w
  BY <1>1, <1>4, <1>5, <1>6
<1> QED  BY <1>7 DEF q, w

-----------------------------------------------------------------------------
(* The comparisons. *)

\* One of two results, and a status that follows from it.
LEMMA PredicateStatus ==
    ASSUME NEW j, NEW r
    PROVE  /\ Predicate(j, r) \in {Success, FalsePredicate}
           /\ Predicate(j, r) = FalsePredicate <=> j.check_result /\ j.expected_result # r
  BY DEF Predicate, Success, FalsePredicate

\* Differences in the first part and in the rest, of a job cut at b where the
\* device had found none.
LEMMA CompareParts ==
    ASSUME job \in Jobs, job.op = "compare", NEW b \in Nat, b < job.transfer_size,
           NEW d, NEW p, NEW u,
           d.source_1_address = 0, d.source_2_address = 0, d.transfer_size = job.transfer_size,
           p.source_1_address = 0, p.source_2_address = 0, p.transfer_size = b,
           u.source_1_address = b, u.source_2_address = b,
           u.transfer_size = job.transfer_size - b,
           dml_ref_compare(job, p)[2] = 0
    PROVE  /\ dml_ref_compare(job, d)[2] = IF Mismatches = {} THEN 0 ELSE 1
           /\ dml_ref_compare(job, u)[2] = IF Mismatches = {} THEN 0 ELSE 1
<1> DEFINE n == job.transfer_size
           D(from, count) == {i \in 0 .. count - 1 :
                                 job.source_1[from + i] # job.source_2[from + i]}
<1>1. n \in Nat
  BY JobAssumption
<1>2. Mismatches = D(0, n)
  BY <1>1 DEF Mismatches
<1>3. /\ dml_ref_compare(job, d)[2] = IF D(0, n) = {} THEN 0 ELSE 1
      /\ dml_ref_compare(job, p)[2] = IF D(0, b) = {} THEN 0 ELSE 1
      /\ dml_ref_compare(job, u)[2] = IF D(b, n - b) = {} THEN 0 ELSE 1
  BY DEF dml_ref_compare
<1>4. D(0, b) = {}
  BY <1>3
<1>5. D(0, n) = {} <=> D(b, n - b) = {}
  <2>1. ASSUME NEW i \in D(b, n - b)
        PROVE  b + i \in D(0, n)
    BY <1>1
  <2>2. ASSUME NEW i \in D(0, n)
        PROVE  i - b \in D(b, n - b)
    <3>1. i \in Nat /\ i >= b
      BY <1>4
    <3>2. i - b \in 0 .. (n - b) - 1 /\ b + (i - b) = 0 + i
      BY <1>1, <3>1
    <3> QED  BY <3>2
  <2> HIDE DEF D
  <2> QED  BY <2>1, <2>2
<1> QED  BY <1>2, <1>3, <1>5

\* The offset that a comparison with a pattern reports for its first difference m.
LEMMA PatternOffset ==
    ASSUME NEW n \in Nat, NEW m \in Nat
    PROVE  LET tail == (n \div WordSize) * WordSize
               offset == IF m < tail THEN (m \div WordSize) * WordSize ELSE m
           IN  offset \in Nat /\ offset <= m /\ m - offset < WordSize
<1> DEFINE x == m \div WordSize
           y == m % WordSize
<1>1. m = WordSize * x + y /\ x \in Int /\ y \in 0 .. WordSize - 1 /\ WordSize \in Nat \ {0}
  BY Division, JobAssumption
<1>2. x \in Nat
  BY <1>1, JobAssumption
<1> HIDE DEF x, y
<1>3. x * WordSize = WordSize * x /\ x * WordSize \in Nat
  BY <1>1, <1>2
<1>4. x * WordSize <= m /\ m - x * WordSize < WordSize
  BY <1>1, <1>3
<1> QED  BY <1>1, <1>3, <1>4 DEF x

\* A nonempty set of offsets has a smallest member.
LEMMA SmallestOfThem ==
    ASSUME NEW T \in SUBSET Nat, T # {}
    PROVE  Min(T) \in T /\ \A y \in T : Min(T) <= y
<1> DEFINE R == {ss \in Nat \X Nat : ss[1] < ss[2]}
<1>1. IsWellFoundedOn(R, Nat)
  BY NatLessThanWellFounded DEF OpToRel
<1>2. PICK x \in T : \A k \in T : ~ (<<k, x>> \in R)
  <2> HIDE DEF R
  <2> QED  BY <1>1, WFMin
<1>3. ASSUME NEW y \in T
      PROVE  x <= y
  <2>1. y \in Nat /\ x \in Nat
    OBVIOUS
  <2>2. y < x => <<y, x>> \in R
    BY <2>1
  <2> QED  BY <1>2, <2>1, <2>2
<1> QED  BY <1>3, Zenon DEF Min

\* Compare Pattern in two parts finds what it finds in one, and both report the
\* word of the first difference or the difference itself.
LEMMA PatternParts ==
    ASSUME job \in Jobs, job.op = "compare_pattern", NEW b \in Nat, b < job.transfer_size,
           b % WordSize = 0, NEW d, NEW p, NEW u,
           d.source_1_address = 0, d.transfer_size = job.transfer_size,
           p.source_1_address = 0, p.transfer_size = b,
           u.source_1_address = b, u.transfer_size = job.transfer_size - b,
           dml_ref_compare_pattern(job, p)[2] = 0
    PROVE  LET w == dml_ref_compare_pattern(job, d)
               c == dml_ref_compare_pattern(job, u)
           IN  /\ w[2] = IF Mismatches = {} THEN 0 ELSE 1
               /\ c[2] = IF Mismatches = {} THEN 0 ELSE 1
               /\ Mismatches # {} =>
                    /\ w[1] <= Min(Mismatches) /\ Min(Mismatches) - w[1] < WordSize
                    /\ c[1] + b <= Min(Mismatches) /\ Min(Mismatches) - (c[1] + b) < WordSize
<1> DEFINE n == job.transfer_size
           D(from, count) == {i \in 0 .. count - 1 :
                                 job.source_1[from + i] # job.pattern[i % WordSize]}
           Off(count, m) == IF m < (count \div WordSize) * WordSize
                            THEN (m \div WordSize) * WordSize ELSE m
           w == dml_ref_compare_pattern(job, d)
           c == dml_ref_compare_pattern(job, u)
<1>1. n \in Nat /\ n - b \in Nat
  BY JobAssumption
<1>2. Mismatches = D(0, n)
  BY <1>1 DEF Mismatches
<1>3. /\ w[2] = IF D(0, n) = {} THEN 0 ELSE 1
      /\ dml_ref_compare_pattern(job, p)[2] = IF D(0, b) = {} THEN 0 ELSE 1
      /\ c[2] = IF D(b, n - b) = {} THEN 0 ELSE 1
      /\ D(0, n) # {} => w[1] = Off(n, Min(D(0, n)))
      /\ D(b, n - b) # {} => c[1] = Off(n - b, Min(D(b, n - b)))
  BY DEF dml_ref_compare_pattern
<1>4. D(0, b) = {}
  BY <1>3
<1>5. ASSUME NEW i \in D(b, n - b)
      PROVE  b + i \in D(0, n)
  <2>1. i \in Int /\ b + i \in Int /\ (b + i) - b = i /\ b \in Int
    BY <1>1
  <2>2. ((b + i) - b) % WordSize = (b + i) % WordSize
    BY <2>1, ShiftByWords, Zenon
  <2> QED  BY <1>1, <2>1, <2>2
<1>6. ASSUME NEW i \in D(0, n)
      PROVE  i - b \in D(b, n - b)
  <2>1. i \in Nat /\ i >= b
    BY <1>4
  <2>2. i - b \in 0 .. (n - b) - 1 /\ b + (i - b) = 0 + i /\ i \in Int /\ b \in Int
    BY <1>1, <2>1
  <2>3. (i - b) % WordSize = i % WordSize
    BY <2>2, ShiftByWords, Zenon
  <2> QED  BY <2>2, <2>3
<1>7. D(0, n) \in SUBSET Nat /\ D(b, n - b) \in SUBSET Nat
  OBVIOUS
<1>8. ASSUME D(0, n) # {}
      PROVE  /\ w[1] <= Min(D(0, n)) /\ Min(D(0, n)) - w[1] < WordSize
             /\ c[1] + b <= Min(D(0, n)) /\ Min(D(0, n)) - (c[1] + b) < WordSize
  <2> DEFINE m == Min(D(0, n))
             k == Min(D(b, n - b))
  <2>1. D(b, n - b) # {}
    <3> HIDE DEF D
    <3> QED  BY <1>6, <1>8
  <2>2. /\ m \in D(0, n) /\ \A y \in D(0, n) : m <= y
        /\ k \in D(b, n - b) /\ \A y \in D(b, n - b) : k <= y
    <3> HIDE DEF D
    <3> QED  BY <1>7, <1>8, <2>1, SmallestOfThem
  <2>3. m \in Nat /\ k \in Nat
    <3> HIDE DEF D, m, k
    <3> QED  BY <1>7, <2>2
  <2>4. m = b + k
    <3> HIDE DEF D, m, k
    <3>1. m <= b + k /\ k <= m - b
      BY <1>5, <1>6, <2>2
    <3> QED  BY <2>3, <3>1
  <2>5. w[1] = Off(n, m) /\ c[1] = Off(n - b, k)
    BY <1>3, <1>8, <2>1
  <2> HIDE DEF m, k, D, w, c
  <2>6. Off(n, m) \in Nat /\ Off(n, m) <= m /\ m - Off(n, m) < WordSize
    BY <1>1, <2>3, PatternOffset
  <2>7. Off(n - b, k) \in Nat /\ Off(n - b, k) <= k /\ k - Off(n - b, k) < WordSize
    BY <1>1, <2>3, PatternOffset
  <2> HIDE DEF Off
  <2>8. /\ w[1] <= m /\ m - w[1] < WordSize
        /\ c[1] + b <= m /\ m - (c[1] + b) < WordSize
    BY <2>3, <2>4, <2>5, <2>6, <2>7, JobAssumption, SMTT(60)
  <2> QED  BY <2>8 DEF m
<1>9. D(0, n) = {} <=> D(b, n - b) = {}
  <2> HIDE DEF D
  <2> QED  BY <1>5, <1>6
<1> HIDE DEF D, w, c
<1>10. w[2] = IF Mismatches = {} THEN 0 ELSE 1
  BY <1>2, <1>3
<1>11. c[2] = IF Mismatches = {} THEN 0 ELSE 1
  BY <1>2, <1>3, <1>9
<1> QED  BY <1>2, <1>8, <1>10, <1>11 DEF w, c

-----------------------------------------------------------------------------
(* The notes of two parts: the loop of create_delta, word by word. *)

\* One turn of the loop, at word w of sources that start at a and b.
NoteStep(j, a, b, notes, w) ==
    IF Word(j.source_1, a, w) = Word(j.source_2, b, w) THEN notes
    ELSE Append(notes, [offset |-> w, data |-> Word(j.source_2, b, w)])

\* f[w] is what the loop has found after w words, up to n of them.
IsFound(f, j, a, b, n) ==
    f = [w \in 0 .. n |-> IF w = 0 THEN <<>> ELSE NoteStep(j, a, b, f[w - 1], w - 1)]

FoundIn(j, a, b, n) == CHOOSE f : IsFound(f, j, a, b, n)

\* Notes moved by q words.
ShiftedNotes(notes, q) == [k \in 1 .. Len(notes) |-> [offset |-> notes[k].offset + q,
                                               data |-> notes[k].data]]

\* The notes there can be.
NoteSet(j) == [offset : Nat, data : {Word(j.source_2, b, w) : b \in Nat, w \in Nat}]

\* Induction on positions: what holds at the start and is passed on up to m holds
\* at m.
LEMMA Climb ==
    ASSUME NEW m \in Nat, NEW S, 0 \in S, \A k \in 0 .. m - 1 : k \in S => k + 1 \in S
    PROVE  m \in S
<1> DEFINE T == {k \in 0 .. m : k \notin S}
<1> SUFFICES ASSUME T # {} PROVE FALSE
  OBVIOUS
<1>1. PICK i \in T : \A k \in T : i <= k
  <2>1. T \in SUBSET Nat
    OBVIOUS
  <2> HIDE DEF T
  <2> QED  BY <2>1, SmallestOfThem
<1>2. i # 0 /\ i \in 0 .. m /\ i \notin S
  OBVIOUS
<1>3. i - 1 \in 0 .. m - 1 /\ i - 1 \in Nat /\ (i - 1) + 1 = i /\ ~(i <= i - 1)
  BY <1>2
<1>4. i - 1 \notin T /\ i - 1 \in 0 .. m
  BY <1>1, <1>3
<1> QED  BY <1>2, <1>3, <1>4

\* The loop has a value after any number of words.
LEMMA FoundExists ==
    ASSUME NEW j, NEW a, NEW b, NEW n \in Nat
    PROVE  \E f : IsFound(f, j, a, b, n)
<1> DEFINE S == {i \in Nat : \E f : IsFound(f, j, a, b, i)}
<1>1. 0 \in S
  <2>1. IsFound([k \in 0 .. 0 |-> <<>>], j, a, b, 0)
    BY DEF IsFound
  <2> QED  BY <2>1
<1>2. ASSUME NEW i \in 0 .. n - 1, i \in S PROVE i + 1 \in S
  <2>1. i \in Nat /\ i + 1 \in Nat /\ (i + 1) - 1 = i
    OBVIOUS
  <2>2. PICK f : IsFound(f, j, a, b, i)
    BY <1>2
  <2> DEFINE g == [k \in 0 .. i + 1 |-> IF k = i + 1 THEN NoteStep(j, a, b, f[i], i) ELSE f[k]]
             B(k, v) == IF k = 0 THEN <<>> ELSE NoteStep(j, a, b, v, k - 1)
  <2>3. \A k \in 0 .. i : f[k] = B(k, f[k - 1])
    BY <2>2 DEF IsFound
  <2>4. B(i + 1, f[i]) = NoteStep(j, a, b, f[i], i)
    BY <2>1
  <2>5. g = [k \in 0 .. i + 1 |-> B(k, g[k - 1])]
    <3> HIDE DEF B
    <3>1. ASSUME NEW k \in 0 .. i + 1 PROVE g[k] = B(k, g[k - 1])
      <4>1. CASE k = 0
        <5>1. \A v, w : B(0, v) = B(0, w)
          BY DEF B
        <5>2. g[0] = f[0] /\ f[0] = B(0, f[0 - 1])
          BY <2>1, <2>3
        <5> QED  BY <4>1, <5>1, <5>2
      <4>2. CASE k # 0 /\ k # i + 1
        <5>1. k \in 0 .. i /\ k - 1 \in 0 .. i + 1 /\ k - 1 # i + 1
          BY <4>2, <2>1
        <5> QED  BY <4>2, <5>1, <2>3
      <4>3. CASE k = i + 1
        <5>1. i \in 0 .. i + 1 /\ i # i + 1 /\ i + 1 \in 0 .. i + 1 /\ k - 1 = i
          BY <4>3, <2>1
        <5> QED  BY <4>3, <5>1, <2>4
      <4> QED  BY <4>1, <4>2, <4>3
    <3> HIDE DEF g
    <3>2. g = [k \in 0 .. i + 1 |-> g[k]]
      BY DEF g
    <3> QED  BY <3>1, <3>2
  <2>6. IsFound(g, j, a, b, i + 1)
    BY <2>5 DEF IsFound
  <2> QED  BY <2>1, <2>6
<1>3. n \in S
  <2> HIDE DEF S
  <2> QED  BY <1>1, <1>2, Climb
<1> QED  BY <1>3

\* The loop, word by word.
LEMMA FoundSteps ==
    ASSUME NEW j, NEW a, NEW b, NEW n \in Nat
    PROVE  LET f == FoundIn(j, a, b, n)
           IN  f[0] = <<>> /\ \A w \in 0 .. n - 1 : f[w + 1] = NoteStep(j, a, b, f[w], w)
<1> DEFINE f == FoundIn(j, a, b, n)
<1>1. IsFound(f, j, a, b, n)
  BY FoundExists DEF FoundIn
<1> HIDE DEF f
<1>2. f = [w \in 0 .. n |-> IF w = 0 THEN <<>> ELSE NoteStep(j, a, b, f[w - 1], w - 1)]
  BY <1>1 DEF IsFound
<1>3. f[0] = <<>>
  BY <1>2
<1>4. ASSUME NEW w \in 0 .. n - 1 PROVE f[w + 1] = NoteStep(j, a, b, f[w], w)
  <2> DEFINE i == w + 1
  <2>1. i \in 0 .. n /\ i # 0 /\ i - 1 = w
    OBVIOUS
  <2> HIDE DEF i
  <2>2. f[i] = NoteStep(j, a, b, f[i - 1], i - 1)
    BY <1>2, <2>1
  <2> QED  BY <2>1, <2>2 DEF i
<1> QED  BY <1>3, <1>4 DEF f

\* Notes is where that loop ends.
LEMMA NotesIsFound ==
    ASSUME NEW j, NEW d
    PROVE  LET n == d.transfer_size \div WordSize
           IN  Notes(j, d) = FoundIn(j, d.source_1_address, d.source_2_address, n)[n]
  BY DEF Notes, FoundIn, IsFound, NoteStep

\* The loop finds notes.
LEMMA FoundType ==
    ASSUME NEW j, NEW a, NEW b \in Nat, NEW n \in Nat, NEW m \in 0 .. n
    PROVE  FoundIn(j, a, b, n)[m] \in Seq(NoteSet(j))
<1> DEFINE f == FoundIn(j, a, b, n)
           S == {w \in Nat : f[w] \in Seq(NoteSet(j))}
<1>1. f[0] = <<>> /\ \A w \in 0 .. n - 1 : f[w + 1] = NoteStep(j, a, b, f[w], w)
  BY FoundSteps
<1> HIDE DEF f
<1>a. <<>> \in Seq(NoteSet(j))
  OBVIOUS
<1>2. 0 \in S
  BY <1>1, <1>a
<1>3. ASSUME NEW w \in 0 .. m - 1, w \in S PROVE w + 1 \in S
  <2>1. w \in Nat /\ w + 1 \in Nat /\ w \in 0 .. n - 1 /\ f[w] \in Seq(NoteSet(j))
    BY <1>3
  <2>2. [offset |-> w, data |-> Word(j.source_2, b, w)] \in NoteSet(j)
    BY <2>1 DEF NoteSet
  <2>3. NoteStep(j, a, b, f[w], w) \in Seq(NoteSet(j))
    <3> DEFINE note == [offset |-> w, data |-> Word(j.source_2, b, w)]
               N == NoteSet(j)
    <3>1. note \in N /\ f[w] \in Seq(N)
      BY <2>1, <2>2
    <3>2. NoteStep(j, a, b, f[w], w) \in {f[w], Append(f[w], note)}
      BY DEF NoteStep
    <3> HIDE DEF note, N
    <3>3. Append(f[w], note) \in Seq(N)
      BY <3>1
    <3> QED  BY <3>1, <3>2, <3>3 DEF N
  <2>4. f[w + 1] = NoteStep(j, a, b, f[w], w)
    BY <1>1, <2>1
  <2> QED  BY <2>1, <2>3, <2>4
<1>4. m \in S
  <2> HIDE DEF S
  <2> QED  BY <1>2, <1>3, Climb
<1> QED  BY <1>4 DEF f

\* How far the loop is to go makes no difference for how it starts.
LEMMA FoundPrefix ==
    ASSUME NEW j, NEW a, NEW b, NEW n \in Nat, NEW m \in 0 .. n
    PROVE  FoundIn(j, a, b, m)[m] = FoundIn(j, a, b, n)[m]
<1> DEFINE f == FoundIn(j, a, b, n)
           g == FoundIn(j, a, b, m)
           S == {w \in Nat : g[w] = f[w]}
<1>1. f[0] = <<>> /\ \A w \in 0 .. n - 1 : f[w + 1] = NoteStep(j, a, b, f[w], w)
  BY FoundSteps
<1>2. g[0] = <<>> /\ \A w \in 0 .. m - 1 : g[w + 1] = NoteStep(j, a, b, g[w], w)
  BY FoundSteps
<1> HIDE DEF f, g
<1>3. 0 \in S
  BY <1>1, <1>2
<1>4. ASSUME NEW w \in 0 .. m - 1, w \in S PROVE w + 1 \in S
  <2>1. w + 1 \in Nat /\ w \in 0 .. n - 1 /\ g[w] = f[w]
    BY <1>4
  <2>2. f[w + 1] = NoteStep(j, a, b, f[w], w) /\ g[w + 1] = NoteStep(j, a, b, g[w], w)
    BY <1>1, <1>2, <2>1
  <2> QED  BY <2>1, <2>2
<1>5. m \in S
  <2> HIDE DEF S
  <2> QED  BY <1>3, <1>4, Climb
<1> QED  BY <1>5 DEF f, g

\* Word w of the part behind q words is word q + w of the whole.
LEMMA WordBehind ==
    ASSUME NEW buffer, NEW q \in Nat, NEW w \in Nat
    PROVE  Word(buffer, 0, q + w) = Word(buffer, WordSize * q, w)
<1>1. WordSize \in Nat
  BY JobAssumption
<1>2. (q + w) * WordSize = WordSize * q + w * WordSize
  BY <1>1
<1>3. WordSize * q \in Nat /\ w * WordSize \in Nat
  BY <1>1
<1> DEFINE x == WordSize * q
           y == w * WordSize
           z == (q + w) * WordSize
<1> HIDE DEF x, y, z
<1>4. z = x + y /\ x \in Nat /\ y \in Nat
  BY <1>2, <1>3 DEF x, y, z
<1>5. \A i \in 0 .. WordSize - 1 : 0 + z + i = x + y + i
  BY <1>1, <1>4
<1> QED  BY <1>5 DEF Word, x, y, z

\* A note at the end is moved like the others.
LastMoves(v, w, x, q) ==
    ShiftedNotes(Append(v, [offset |-> w, data |-> x]), q)
      = Append(ShiftedNotes(v, q), [offset |-> w + q, data |-> x])

\* It is, whatever the notes are about.
LEMMA MovedAppend ==
    ASSUME NEW N, NEW v \in Seq([offset : Nat, data : N]), NEW w \in Nat, NEW x \in N, NEW q \in Nat
    PROVE  LastMoves(v, w, x, q)
<1> DEFINE e == [offset |-> w, data |-> x]
           a == Append(v, e)
           l == ShiftedNotes(a, q)
           r == Append(ShiftedNotes(v, q), [offset |-> w + q, data |-> x])
<1>1. Len(v) \in Nat /\ e \in [offset : Nat, data : N]
  OBVIOUS
<1>2. Len(a) = Len(v) + 1 /\ \A k \in 1 .. Len(v) : a[k] = v[k]
  BY <1>1
<1>3. a[Len(v) + 1] = e
  BY <1>1
<1>a. \A k \in 1 .. Len(v) : v[k] \in [offset : Nat, data : N]
  <2> DEFINE R == [offset : Nat, data : N]
  <2>1. v \in Seq(R)
    OBVIOUS
  <2> HIDE DEF R
  <2>2. \A k \in 1 .. Len(v) : v[k] \in R
    BY <2>1
  <2> QED  BY <2>2 DEF R
<1>4. \A k \in 1 .. Len(v) : v[k].offset \in Nat /\ v[k].data \in N
  BY <1>a
<1>5. ShiftedNotes(v, q) \in Seq([offset : Nat, data : N]) /\ Len(ShiftedNotes(v, q)) = Len(v)
  <2>1. \A k \in 1 .. Len(v) : [offset |-> v[k].offset + q, data |-> v[k].data]
                                 \in [offset : Nat, data : N]
    BY <1>4
  <2> QED  BY <1>1, <2>1 DEF ShiftedNotes
<1>6. \A k \in 1 .. Len(v) :
        ShiftedNotes(v, q)[k] = [offset |-> v[k].offset + q, data |-> v[k].data]
  BY <1>1 DEF ShiftedNotes
<1> HIDE DEF a
<1>7. \A k \in 1 .. Len(v) + 1 : l[k] = [offset |-> a[k].offset + q, data |-> a[k].data]
  BY <1>2 DEF ShiftedNotes
<1>8. l \in Seq([offset : Nat, data : N]) /\ Len(l) = Len(v) + 1
  <2>1. \A k \in 1 .. Len(v) + 1 : a[k].offset \in Nat /\ a[k].data \in N
    <3> TAKE k \in 1 .. Len(v) + 1
    <3>1. CASE k = Len(v) + 1
      BY <3>1, <1>3
    <3>2. CASE k # Len(v) + 1
      <4>1. k \in 1 .. Len(v)
        BY <3>2, <1>1
      <4> QED  BY <4>1, <1>2, <1>4
    <3> QED  BY <3>1, <3>2
  <2>2. \A k \in 1 .. Len(v) + 1 : [offset |-> a[k].offset + q, data |-> a[k].data]
                                     \in [offset : Nat, data : N]
    BY <2>1
  <2> QED  BY <1>1, <1>2, <2>2 DEF ShiftedNotes
<1>9. r \in Seq([offset : Nat, data : N]) /\ Len(r) = Len(v) + 1
  BY <1>5
<1>10. ASSUME NEW k \in 1 .. Len(v) + 1 PROVE l[k] = r[k]
  <2>1. CASE k = Len(v) + 1
    <3>1. l[k] = [offset |-> w + q, data |-> x]
      BY <2>1, <1>3, <1>7
    <3>2. r[k] = [offset |-> w + q, data |-> x]
      BY <2>1, <1>5
    <3> QED  BY <3>1, <3>2
  <2>2. CASE k # Len(v) + 1
    <3>1. k \in 1 .. Len(v)
      BY <2>2, <1>1
    <3>2. l[k] = [offset |-> v[k].offset + q, data |-> v[k].data]
      BY <3>1, <1>2, <1>7
    <3>3. r[k] = ShiftedNotes(v, q)[k]
      BY <3>1, <1>5
    <3> QED  BY <3>1, <3>2, <3>3, <1>6
  <2> QED  BY <2>1, <2>2
<1> HIDE DEF l, r
<1>11. l = r
  BY <1>1, <1>8, <1>9, <1>10
<1> QED  BY <1>11 DEF l, r, a, LastMoves

\* Appending to the second of two sequences.
LEMMA AppendToSecond ==
    ASSUME NEW N, NEW u \in Seq(N), NEW v \in Seq(N), NEW e \in N
    PROVE  u \o Append(v, e) = Append(u \o v, e)
  OBVIOUS

\* The notes of a part that starts behind q words, moved by q, continue those of
\* the first q words.
LEMMA NotesMeet ==
    ASSUME NEW j, NEW n \in Nat, NEW q \in 0 .. n
    PROVE  FoundIn(j, 0, 0, n)[n]
             = FoundIn(j, 0, 0, n)[q]
                 \o ShiftedNotes(FoundIn(j, WordSize * q, WordSize * q, n - q)[n - q], q)
<1> DEFINE b == WordSize * q
           f == FoundIn(j, 0, 0, n)
           g == FoundIn(j, b, b, n - q)
           D == {Word(j.source_2, c, w) : c \in Nat, w \in Nat}
           N == [offset : Nat, data : D]
           S == {w \in Nat : f[q + w] = f[q] \o ShiftedNotes(g[w], q)}
<1>0. q \in Nat /\ n - q \in Nat /\ b \in Nat /\ 0 \in Nat
  BY JobAssumption
<1>1. f[0] = <<>> /\ \A w \in 0 .. n - 1 : f[w + 1] = NoteStep(j, 0, 0, f[w], w)
  BY FoundSteps
<1>2. g[0] = <<>> /\ \A w \in 0 .. (n - q) - 1 : g[w + 1] = NoteStep(j, b, b, g[w], w)
  BY <1>0, FoundSteps
<1>a. NoteSet(j) = N
  BY DEF NoteSet
<1>3. \A w \in 0 .. n : f[w] \in Seq(N)
  <2> HIDE DEF N
  <2> QED  BY <1>0, <1>a, FoundType
<1>4. \A w \in 0 .. n - q : g[w] \in Seq(N)
  <2> HIDE DEF N, b
  <2> QED  BY <1>0, <1>a, FoundType
<1>5. \A c \in Nat, w \in Nat : Word(j.source_2, c, w) \in D
  OBVIOUS
<1> HIDE DEF f, g, D
<1>6. 0 \in S
  <2>1. ShiftedNotes(<<>>, q) = <<>>
    BY DEF ShiftedNotes
  <2>2. f[q] \o <<>> = f[q] /\ q + 0 = q
    BY <1>0, <1>3
  <2> QED  BY <1>2, <2>1, <2>2
<1>7. ASSUME NEW w \in 0 .. (n - q) - 1, w \in S PROVE w + 1 \in S
  <2>1. /\ w \in Nat /\ w + 1 \in Nat /\ q + w \in 0 .. n - 1 /\ q + (w + 1) = (q + w) + 1
        /\ w \in 0 .. n - q /\ q + w \in 0 .. n /\ q \in 0 .. n
    BY <1>0
  <2> DEFINE x == Word(j.source_2, b, w)
             y == Word(j.source_1, b, w)
             v == g[w]
  <2>2. Word(j.source_2, 0, q + w) = x /\ Word(j.source_1, 0, q + w) = y
    BY <1>0, <2>1, WordBehind
  <2>3. x \in D /\ v \in Seq(N) /\ f[q] \in Seq(N)
    BY <1>0, <1>3, <1>4, <1>5, <2>1
  <2>4. f[q + w] = f[q] \o ShiftedNotes(v, q)
    BY <1>7
  <2>5. f[(q + w) + 1] = NoteStep(j, 0, 0, f[q + w], q + w)
    BY <1>1, <2>1
  <2>6. g[w + 1] = NoteStep(j, b, b, v, w)
    BY <1>2
  <2> HIDE DEF b
  <2>7. /\ NoteStep(j, b, b, v, w) = IF y = x THEN v ELSE Append(v, [offset |-> w, data |-> x])
        /\ NoteStep(j, 0, 0, f[q + w], q + w)
             = IF y = x THEN f[q + w] ELSE Append(f[q + w], [offset |-> q + w, data |-> x])
    BY <2>2 DEF NoteStep
  <2> HIDE DEF x, y, v
  <2>8. CASE y = x
    BY <2>1, <2>4, <2>5, <2>6, <2>7, <2>8
  <2>9. CASE y # x
    <3>1. ShiftedNotes(g[w + 1], q) = Append(ShiftedNotes(v, q), [offset |-> w + q, data |-> x])
      <4>1. g[w + 1] = Append(v, [offset |-> w, data |-> x])
        BY <2>6, <2>7, <2>9
      <4>2. v \in Seq([offset : Nat, data : D]) /\ w \in Nat /\ x \in D /\ q \in Nat
        BY <1>0, <2>1, <2>3
      <4>3. ShiftedNotes(Append(v, [offset |-> w, data |-> x]), q)
              = Append(ShiftedNotes(v, q), [offset |-> w + q, data |-> x])
        <5>1. LastMoves(v, w, x, q)
          BY <4>2, MovedAppend
        <5> QED  BY <5>1 DEF LastMoves
      <4> QED  BY <4>1, <4>3
    <3>2. ShiftedNotes(v, q) \in Seq(N)
      <4>1. \A k \in 1 .. Len(v) : v[k] \in N
        <5> HIDE DEF N
        <5> QED  BY <2>3
      <4>2. \A k \in 1 .. Len(v) : [offset |-> v[k].offset + q, data |-> v[k].data] \in N
        BY <4>1, <1>0
      <4>3. Len(v) \in Nat
        BY <2>3
      <4> HIDE DEF N
      <4> QED  BY <4>2, <4>3 DEF ShiftedNotes
    <3>3. [offset |-> w + q, data |-> x] \in N /\ w + q = q + w
      BY <1>0, <2>1, <2>3
    <3>4. f[q] \o Append(ShiftedNotes(v, q), [offset |-> w + q, data |-> x])
            = Append(f[q] \o ShiftedNotes(v, q), [offset |-> w + q, data |-> x])
      <4> DEFINE e == [offset |-> w + q, data |-> x]
                 head == f[q]
                 tail == ShiftedNotes(v, q)
      <4>1. e \in N /\ head \in Seq(N) /\ tail \in Seq(N)
        BY <2>3, <3>2, <3>3
      <4> HIDE DEF e, head, tail, N
      <4>2. head \o Append(tail, e) = Append(head \o tail, e)
        BY <4>1, AppendToSecond
      <4> QED  BY <4>2 DEF e, head, tail
    <3>5. f[q + (w + 1)] = f[q] \o ShiftedNotes(g[w + 1], q)
      BY <2>1, <2>4, <2>5, <2>7, <2>9, <3>1, <3>3, <3>4
    <3> QED  BY <3>5, <2>1
  <2> QED  BY <2>8, <2>9
<1>8. n - q \in S
  <2> HIDE DEF S
  <2> QED  BY <1>0, <1>6, <1>7, Climb
<1>9. q + (n - q) = n
  BY <1>0
<1> QED  BY <1>8, <1>9 DEF f, g

\* The smaller of two sizes: how many of n notes fit where there is room for m.
Fitting(n, m) == IF n > m THEN m ELSE n

\* The kernel of Create Delta keeps the notes that fit, and says 2 when some did
\* not.
LEMMA FoundFits ==
    ASSUME NEW N, NEW j, NEW d, d.maximum_delta_record_size \in Nat, Notes(j, d) \in Seq(N)
    PROVE  LET all == Notes(j, d)
               found == dml_ref_create_delta(j, d)
               fits == Fitting(Len(all), d.maximum_delta_record_size)
           IN  /\ found[1] = SubSeq(all, 1, fits) /\ Len(found[1]) = fits
               /\ fits \in 0 .. Len(all) /\ fits <= d.maximum_delta_record_size
               /\ found[2] \in {0, 1, 2}
               /\ found[2] = 2 <=> Len(all) > d.maximum_delta_record_size
<1> DEFINE all == Notes(j, d)
           m == d.maximum_delta_record_size
           found == dml_ref_create_delta(j, d)
<1>1. found = IF Len(all) > m THEN <<SubSeq(all, 1, m), 2>>
              ELSE <<all, IF all = <<>> THEN 0 ELSE 1>>
  BY DEF dml_ref_create_delta
<1>2. all \in Seq(N) /\ m \in Nat /\ Len(all) \in Nat
  OBVIOUS
<1> HIDE DEF all, m, found
<1>3. CASE Len(all) > m
  BY <1>1, <1>2, <1>3 DEF Fitting, all, m, found
<1>4. CASE ~(Len(all) > m)
  <2>1. SubSeq(all, 1, Len(all)) = all
    BY <1>2
  <2> QED  BY <1>1, <1>2, <1>4, <2>1 DEF Fitting, all, m, found
<1> QED  BY <1>3, <1>4

\* Moving notes keeps their number, one by one.
LEMMA MovedType ==
    ASSUME NEW D, NEW v \in Seq([offset : Nat, data : D]), NEW q \in Nat
    PROVE  /\ ShiftedNotes(v, q) \in Seq([offset : Nat, data : D])
           /\ Len(ShiftedNotes(v, q)) = Len(v)
           /\ \A k \in 1 .. Len(v) :
                ShiftedNotes(v, q)[k] = [offset |-> v[k].offset + q, data |-> v[k].data]
<1> DEFINE R == [offset : Nat, data : D]
<1>1. \A k \in 1 .. Len(v) : v[k] \in R
  <2>1. v \in Seq(R)
    OBVIOUS
  <2> HIDE DEF R
  <2> QED  BY <2>1
<1>2. \A k \in 1 .. Len(v) : [offset |-> v[k].offset + q, data |-> v[k].data] \in R
  BY <1>1
<1>3. Len(v) \in Nat
  OBVIOUS
<1> HIDE DEF R
<1>4. /\ ShiftedNotes(v, q) \in Seq(R) /\ Len(ShiftedNotes(v, q)) = Len(v)
      /\ \A k \in 1 .. Len(v) :
           ShiftedNotes(v, q)[k] = [offset |-> v[k].offset + q, data |-> v[k].data]
  BY <1>2, <1>3 DEF ShiftedNotes
<1> QED  BY <1>4 DEF R

\* Where the elements of two sequences are, one behind the other.
Behind(u, v, R) ==
    /\ u \o v \in Seq(R) /\ Len(u \o v) = Len(u) + Len(v)
    /\ \A k \in 1 .. Len(u) : (u \o v)[k] = u[k]
    /\ \A k \in 1 .. Len(v) : (u \o v)[Len(u) + k] = v[k]

\* They are there.
LEMMA OneBehindTheOther ==
    ASSUME NEW R, NEW u \in Seq(R), NEW v \in Seq(R)
    PROVE  Behind(u, v, R)
  BY DEF Behind

\* Of a size there is a whole number of words.
LEMMA Quotient ==
    ASSUME NEW n \in Nat
    PROVE  n \div WordSize \in Nat
<1> DEFINE x == n \div WordSize
           r == n % WordSize
<1>1. n = WordSize * x + r /\ x \in Int /\ r \in 0 .. WordSize - 1 /\ WordSize \in Nat \ {0}
  BY Division, JobAssumption
<1> HIDE DEF x, r
<1>2. ASSUME x <= -1 PROVE FALSE
  <2>1. WordSize * x <= -WordSize
    BY <1>1, <1>2
  <2> QED  BY <1>1, <2>1
<1>3. x \in Nat
  BY <1>1, <1>2
<1> QED  BY <1>3 DEF x

\* Adding to the offset of a note leaves its data.
LEMMA NoteMoved ==
    ASSUME NEW D, NEW e \in [offset : Nat, data : D], NEW q \in Nat
    PROVE  [e EXCEPT !.offset = @ + q] = [offset |-> e.offset + q, data |-> e.data]
  OBVIOUS

\* Accumulating the records moves the notes of the second part, all of them and
\* no other.
LEMMA ShiftIsMoved ==
    ASSUME NEW D, NEW u \in Seq([offset : Nat, data : D]),
           NEW v \in Seq([offset : Nat, data : D]), NEW q \in Nat
    PROVE  ShiftNotes(u \o v, Len(u), Len(v), q) = u \o ShiftedNotes(v, q)
<1> DEFINE R == [offset : Nat, data : D]
           n == Len(u)
           m == Len(v)
           uv == u \o v
           mv == ShiftedNotes(v, q)
           l == ShiftNotes(uv, n, m, q)
           r == u \o mv
<1>1. u \in Seq(R) /\ v \in Seq(R)
  OBVIOUS
<1>2. mv \in Seq(R) /\ Len(mv) = m
      /\ \A k \in 1 .. m : mv[k] = [offset |-> v[k].offset + q, data |-> v[k].data]
  BY MovedType
<1>3. \A e \in R : [e EXCEPT !.offset = @ + q] = [offset |-> e.offset + q, data |-> e.data]
  BY NoteMoved
<1>4. \A k \in 1 .. m : [v[k] EXCEPT !.offset = @ + q]
                          = [offset |-> v[k].offset + q, data |-> v[k].data]
  <2>1. \A k \in 1 .. m : v[k] \in R
    <3> HIDE DEF R
    <3> QED  BY <1>1
  <2> QED  BY <2>1, <1>3
<1> HIDE DEF R, mv
<1>5. /\ n \in Nat /\ m \in Nat /\ Len(uv) = n + m /\ DOMAIN uv = 1 .. n + m
      /\ \A k \in 1 .. n : uv[k] = u[k]
      /\ \A k \in 1 .. m : uv[n + k] = v[k]
  BY <1>1
<1>6. /\ Len(r) = n + m /\ r \in Seq(R)
      /\ \A k \in 1 .. n : r[k] = u[k]
      /\ \A k \in 1 .. m : r[n + k] = mv[k]
  <2>0. u \in Seq(R) /\ mv \in Seq(R)
    BY <1>1, <1>2
  <2>1. /\ u \o mv \in Seq(R) /\ Len(u \o mv) = Len(u) + Len(mv)
        /\ \A k \in 1 .. Len(u) : (u \o mv)[k] = u[k]
        /\ \A k \in 1 .. Len(mv) : (u \o mv)[Len(u) + k] = mv[k]
    <3>1. Behind(u, mv, R)
      BY <2>0, OneBehindTheOther
    <3> QED  BY <3>1 DEF Behind
  <2> QED  BY <1>2, <2>1
<1> HIDE DEF n, m, uv, r
<1>7. l = [k \in 1 .. n + m |-> IF k \in n + 1 .. n + m THEN [uv[k] EXCEPT !.offset = @ + q]
                                ELSE uv[k]]
  BY <1>5 DEF ShiftNotes
<1>8. ASSUME NEW k \in 1 .. n + m
      PROVE  (IF k \in n + 1 .. n + m THEN [uv[k] EXCEPT !.offset = @ + q] ELSE uv[k]) = r[k]
  <2>1. CASE k \in n + 1 .. n + m
    <3> DEFINE i == k - n
    <3>1. i \in 1 .. m /\ n + i = k
      BY <1>5, <2>1
    <3> HIDE DEF i
    <3>2. uv[k] = v[i] /\ r[k] = mv[i]
      BY <1>5, <1>6, <3>1
    <3>3. [uv[k] EXCEPT !.offset = @ + q] = mv[i]
      BY <1>2, <1>4, <3>1, <3>2
    <3> QED  BY <2>1, <3>2, <3>3
  <2>2. CASE k \notin n + 1 .. n + m
    <3>1. k \in 1 .. n
      BY <1>5, <2>2
    <3> QED  BY <1>5, <1>6, <2>2, <3>1
  <2> QED  BY <2>1, <2>2
<1>9. l = [k \in 1 .. n + m |-> r[k]]
  BY <1>7, <1>8, Zenon
<1>10. r = [k \in 1 .. n + m |-> r[k]]
  BY <1>5, <1>6
<1>11. l = r
  BY <1>9, <1>10
<1> QED  BY <1>11 DEF n, m, uv, r, mv

\* The first notes of a part, moved, are the first of its moved notes.
LEMMA MovedPrefix ==
    ASSUME NEW D, NEW v \in Seq([offset : Nat, data : D]), NEW q \in Nat,
           NEW k \in 0 .. Len(v)
    PROVE  ShiftedNotes(SubSeq(v, 1, k), q) = SubSeq(ShiftedNotes(v, q), 1, k)
<1> DEFINE R == [offset : Nat, data : D]
           p == SubSeq(v, 1, k)
           l == ShiftedNotes(p, q)
           r == SubSeq(ShiftedNotes(v, q), 1, k)
<1>1. k \in Nat /\ v \in Seq(R)
  OBVIOUS
<1>2. p \in Seq(R) /\ Len(p) = k /\ \A i \in 1 .. k : p[i] = v[i] /\ i \in 1 .. Len(v)
  <2> HIDE DEF R
  <2> QED  BY <1>1
<1>3. ShiftedNotes(v, q) \in Seq(R) /\ Len(ShiftedNotes(v, q)) = Len(v)
      /\ \A i \in 1 .. Len(v) :
           ShiftedNotes(v, q)[i] = [offset |-> v[i].offset + q, data |-> v[i].data]
  BY MovedType
<1> HIDE DEF p
<1>4. l \in Seq(R) /\ Len(l) = k
      /\ \A i \in 1 .. k : l[i] = [offset |-> p[i].offset + q, data |-> p[i].data]
  BY <1>2, MovedType
<1> HIDE DEF R
<1>5. r \in Seq(R) /\ Len(r) = k /\ \A i \in 1 .. k : r[i] = ShiftedNotes(v, q)[i]
  BY <1>1, <1>3
<1>6. \A i \in 1 .. k : l[i] = r[i]
  BY <1>2, <1>3, <1>4, <1>5
<1> HIDE DEF l, r
<1>7. l = r
  BY <1>1, <1>4, <1>5, <1>6
<1> QED  BY <1>7 DEF l, r, p

\* A prefix that takes in the whole of the first sequence.
LEMMA PrefixOfBoth ==
    ASSUME NEW R, NEW u \in Seq(R), NEW v \in Seq(R), NEW k \in 0 .. Len(v)
    PROVE  u \o SubSeq(v, 1, k) = SubSeq(u \o v, 1, Len(u) + k)
<1> DEFINE l == u \o SubSeq(v, 1, k)
           r == SubSeq(u \o v, 1, Len(u) + k)
<1>1. /\ Len(u) \in Nat /\ k \in Nat /\ SubSeq(v, 1, k) \in Seq(R) /\ Len(SubSeq(v, 1, k)) = k
      /\ Len(u \o v) = Len(u) + Len(v) /\ u \o v \in Seq(R) /\ Len(u) + k \in 0 .. Len(u \o v)
      /\ \A i \in 1 .. k : SubSeq(v, 1, k)[i] = v[i]
  OBVIOUS
<1>2. l \in Seq(R) /\ Len(l) = Len(u) + k
  BY <1>1
<1>3. r \in Seq(R) /\ Len(r) = Len(u) + k
  BY <1>1
<1>4. \A i \in 1 .. Len(u) + k : l[i] = r[i]
  BY <1>1
<1> HIDE DEF l, r
<1>5. l = r
  BY <1>1, <1>2, <1>3, <1>4
<1> QED  BY <1>5 DEF l, r

\* Notes of both parts in the delta buffer, the second behind the first.
LEMMA PutBehind ==
    ASSUME NEW R, NEW u \in Seq(R), NEW v \in Seq(R)
    PROVE  PutNotes(<<>>, 0, u) = u /\ PutNotes(u, 0 + Len(u), v) = u \o v
<1>1. SubSeq(<<>>, 1, 0) = <<>> /\ SubSeq(u, 1, 0 + Len(u)) = u /\ <<>> \o u = u
  OBVIOUS
<1> QED  BY <1>1 DEF PutNotes

\* Two parts of the notes, and their lengths, of which the kernels are told only
\* the room that is left: the merged record holds the first notes of the whole.
LEMMA MergedNotes ==
    ASSUME NEW j \in Jobs, j.op = "create_delta", NEW b \in Splits(j), NEW s
    PROVE  /\ Merged(j, b, s) = AllFound(j)[1]
           /\ Len(NextFound(j, b, s)[1]) + Len(FirstFound(j, b)[1]) = Len(AllFound(j)[1])
           /\ NextFound(j, b, s)[2] = 2 <=> AllFound(j)[2] = 2
           /\ NextFound(j, b, s)[2] \in {0, 1, 2}
<1> DEFINE d == MakeTask(j)
           p == Prefix(j, d, b)
           u == Rest(j, b, s)
           n == j.transfer_size \div WordSize
           q == b \div WordSize
           max == j.maximum_delta_record_size
           D == {Word(j.source_2, c, w) : c \in Nat, w \in Nat}
           R == [offset : Nat, data : D]
           all == Notes(j, d)
           first == Notes(j, p)
           next == Notes(j, u)
<1>1. b \in Nat /\ b < j.transfer_size /\ b % WordSize = 0 /\ max \in Nat
      /\ j.transfer_size \in Nat /\ WordSize \in Nat \ {0}
  BY SplitType, JobAssumption
<1>2. DeltaParts(j, b, s)
  BY <1>1, JoinedCreateDelta
<1>3. /\ u.source_1_address = b /\ u.source_2_address = b
      /\ u.transfer_size = j.transfer_size - b
      /\ u.maximum_delta_record_size = max - Len(FirstFound(j, b)[1])
      /\ u.delta_record_address = 0 + Len(FirstFound(j, b)[1])
      /\ b \in Cuts(j) => FirstFound(j, b)[2] # 2
  BY <1>2 DEF DeltaParts
<1>4. /\ d.source_1_address = 0 /\ d.source_2_address = 0 /\ d.transfer_size = j.transfer_size
      /\ d.maximum_delta_record_size = max
      /\ p.source_1_address = 0 /\ p.source_2_address = 0 /\ p.transfer_size = b
      /\ p.maximum_delta_record_size = max
  BY DEF MakeTask, Prefix
<1>5. /\ n \in Nat /\ q \in 0 .. n /\ q \in Nat /\ b = WordSize * q
      /\ (j.transfer_size - b) \div WordSize = n - q /\ n - q \in Nat
  <2>1. n \in Nat /\ q \in Nat
    BY <1>1, Quotient
  <2>a. b = WordSize * q
    <3>1. b = WordSize * q + (b % WordSize) /\ q \in Nat /\ WordSize \in Nat
      BY <1>1, <2>1, Division
    <3>2. WordSize * q \in Nat
      BY <3>1
    <3> HIDE DEF q
    <3> QED  BY <1>1, <3>1, <3>2
  <2>2. j.transfer_size \in Int /\ b \in Int
    BY <1>1
  <2>3. (j.transfer_size - b) \div WordSize = n - q
    BY <1>1, <2>2, ShiftByWords, Zenon
  <2>4. j.transfer_size - b \in Nat
    BY <1>1
  <2>5. (j.transfer_size - b) \div WordSize \in Nat
    BY <2>4, Quotient
  <2> QED  BY <2>1, <2>a, <2>3, <2>5
<1>a. NoteSet(j) = R /\ 0 \in Nat
  BY DEF NoteSet
<1> HIDE DEF d, p, u, n, q, max, R
<1>6. /\ all = FoundIn(j, 0, 0, n)[n]
      /\ first = FoundIn(j, 0, 0, q)[q]
      /\ next = FoundIn(j, b, b, n - q)[n - q]
  BY <1>3, <1>4, <1>5, NotesIsFound DEF n, q
<1>7. all \in Seq(R) /\ first \in Seq(R) /\ next \in Seq(R)
  <2>1. n \in 0 .. n /\ q \in 0 .. q /\ n - q \in 0 .. n - q
    BY <1>5
  <2>2. all \in Seq(NoteSet(j)) /\ first \in Seq(NoteSet(j))
    BY <1>5, <1>6, <1>a, <2>1, FoundType
  <2>3. next \in Seq(NoteSet(j))
    BY <1>1, <1>5, <1>6, <2>1, FoundType
  <2> QED  BY <1>a, <2>2, <2>3
<1>8. all = first \o ShiftedNotes(next, q)
  <2>1. FoundIn(j, 0, 0, q)[q] = FoundIn(j, 0, 0, n)[q]
    BY <1>5, FoundPrefix
  <2>2. FoundIn(j, 0, 0, n)[n]
          = FoundIn(j, 0, 0, n)[q]
              \o ShiftedNotes(FoundIn(j, WordSize * q, WordSize * q, n - q)[n - q], q)
    BY <1>5, NotesMeet
  <2> QED  BY <1>5, <1>6, <2>1, <2>2, Zenon
<1> DEFINE a == FirstFound(j, b)
           c == NextFound(j, b, s)
           w == AllFound(j)
           k == Fitting(Len(next), max - Len(first))
<1> HIDE DEF all, first, next
<1>9. a = dml_ref_create_delta(j, p) /\ c = dml_ref_create_delta(j, u)
      /\ w = dml_ref_create_delta(j, d)
  BY DEF FirstFound, NextFound, AllFound, p, u, d
<1>b. Len(all) \in Nat /\ Len(first) \in Nat /\ Len(next) \in Nat
  BY <1>7
<1> HIDE DEF a, c, w
<1>10. /\ a[1] = SubSeq(first, 1, Fitting(Len(first), max))
       /\ Len(a[1]) = Fitting(Len(first), max)
       /\ a[2] = 2 <=> Len(first) > max
  BY <1>1, <1>4, <1>7, <1>9, FoundFits, SMTT(60) DEF first
<1>11. Len(first) <= max
  <2>1. CASE b \in Cuts(j)
    BY <2>1, <1>1, <1>3, <1>10, <1>b DEF a
  <2>2. CASE b = 0
    <3>1. q = 0
      BY <2>2, <1>1, <1>5
    <3>2. first = <<>>
      BY <3>1, <1>5, <1>6, FoundSteps
    <3> QED  BY <3>2, <1>1
  <2> QED  BY <2>1, <2>2 DEF Splits
<1>12. a[1] = first /\ Len(a[1]) = Len(first)
  <2>1. Fitting(Len(first), max) = Len(first)
    BY <1>1, <1>11, <1>b DEF Fitting
  <2>2. SubSeq(first, 1, Len(first)) = first
    BY <1>7
  <2> QED  BY <1>10, <2>1, <2>2
<1>13. u.maximum_delta_record_size = max - Len(first) /\ max - Len(first) \in Nat
  BY <1>1, <1>3, <1>11, <1>12, <1>b DEF a
<1>14. /\ c[1] = SubSeq(next, 1, k) /\ Len(c[1]) = k /\ k \in 0 .. Len(next)
       /\ c[2] \in {0, 1, 2} /\ (c[2] = 2 <=> Len(next) > max - Len(first))
  BY <1>7, <1>9, <1>13, FoundFits, SMTT(60) DEF next
<1>15. /\ w[1] = SubSeq(all, 1, Fitting(Len(all), max)) /\ Len(w[1]) = Fitting(Len(all), max)
       /\ (w[2] = 2 <=> Len(all) > max)
  BY <1>1, <1>4, <1>7, <1>9, FoundFits, SMTT(60) DEF all
<1>16. ShiftedNotes(next, q) \in Seq(R) /\ Len(ShiftedNotes(next, q)) = Len(next)
  <2>1. next \in Seq([offset : Nat, data : D])
    BY <1>7 DEF R
  <2> HIDE DEF D
  <2> QED  BY <2>1, <1>5, MovedType DEF R
<1>17. Len(all) = Len(first) + Len(next)
  <2> DEFINE t == ShiftedNotes(next, q)
  <2> HIDE DEF t
  <2>1. Len(first \o t) = Len(first) + Len(t)
    BY <1>7, <1>16, OneBehindTheOther DEF t, Behind
  <2> QED  BY <1>8, <1>16, <2>1 DEF t
<1>18. Fitting(Len(all), max) = Len(first) + k
  BY <1>1, <1>11, <1>17, <1>b DEF Fitting
<1>19. Merged(j, b, s) = first \o ShiftedNotes(c[1], q)
  <2>1. c[1] \in Seq(R)
    BY <1>7, <1>14
  <2>2. Merged(j, b, s) = ShiftNotes(PutNotes(PutNotes(<<>>, 0, first), 0 + Len(first), c[1]),
                                     0 + Len(first), Len(c[1]), q)
    BY <1>3, <1>12 DEF Merged, a, c, u, q
  <2>3. PutNotes(<<>>, 0, first) = first /\ PutNotes(first, 0 + Len(first), c[1]) = first \o c[1]
        /\ 0 + Len(first) = Len(first)
    <3> DEFINE v == c[1]
    <3> HIDE DEF v
    <3>1. PutNotes(<<>>, 0, first) = first /\ PutNotes(first, 0 + Len(first), v) = first \o v
      BY <1>7, <2>1, PutBehind DEF v
    <3> QED  BY <3>1, <1>b DEF v
  <2>4. Merged(j, b, s) = ShiftNotes(first \o c[1], Len(first), Len(c[1]), q)
    BY <2>2, <2>3
  <2>5. first \in Seq([offset : Nat, data : D]) /\ c[1] \in Seq([offset : Nat, data : D])
    BY <1>7, <2>1 DEF R
  <2> DEFINE v == c[1]
  <2> HIDE DEF D, v
  <2>6. ShiftNotes(first \o v, Len(first), Len(v), q) = first \o ShiftedNotes(v, q)
    BY <1>5, <2>5, ShiftIsMoved DEF v
  <2> QED  BY <2>4, <2>6 DEF v
<1>20. ShiftedNotes(c[1], q) = SubSeq(ShiftedNotes(next, q), 1, k)
  <2>1. next \in Seq([offset : Nat, data : D])
    BY <1>7 DEF R
  <2> HIDE DEF D, k
  <2> QED  BY <2>1, <1>5, <1>14, MovedPrefix
<1>21. first \o SubSeq(ShiftedNotes(next, q), 1, k) = SubSeq(all, 1, Len(first) + k)
  <2> DEFINE t == ShiftedNotes(next, q)
  <2>1. t \in Seq(R) /\ k \in 0 .. Len(t)
    BY <1>14, <1>16
  <2> HIDE DEF t, k
  <2>2. first \o SubSeq(t, 1, k) = SubSeq(first \o t, 1, Len(first) + k)
    BY <1>7, <2>1, PrefixOfBoth
  <2> QED  BY <1>8, <2>2 DEF t
<1>22. Merged(j, b, s) = w[1]
  BY <1>15, <1>18, <1>19, <1>20, <1>21
<1>23. Len(c[1]) + Len(a[1]) = Len(w[1])
  BY <1>12, <1>14, <1>15, <1>18, <1>b
<1>24. c[2] = 2 <=> w[2] = 2
  <2>1. Len(next) > max - Len(first) <=> Len(all) > max
    BY <1>1, <1>17, <1>b
  <2> QED  BY <1>14, <1>15, <2>1
<1> QED  BY <1>14, <1>22, <1>23, <1>24 DEF a, c, w

-----------------------------------------------------------------------------
(* From the kernels to the job. *)

\* The statuses of a device that stopped.
Faults == {PageFault, WriteFault}

\* The delta record of a create_delta job that has run to its end: the notes that
\* fit of all there are, their number, and what was found.
RightDelta(j, m) ==
    /\ m.delta = AllFound(j)[1]
    /\ m.rec.delta_record_size = Len(AllFound(j)[1])
    /\ m.rec.result = 2 <=> AllFound(j)[2] = 2
    /\ m.rec.result \in {0, 1, 2}
    /\ m.rec.status = DeltaStatus(j, m.rec.result)

\* What the properties ask of the buffers and the record of a job that has run to
\* its end.
Right(m) ==
    /\ m.rec.status \in {Success, FalsePredicate}
    /\ \A i \in Offsets : m.dst1[i] = WantedDst1(i) /\ m.dst2[i] = WantedDst2(i)
    /\ job.op \in {"crc", "copy_crc"} => m.rec.crc_value = WholeCrc(job)
    /\ job.op \in {"compare", "compare_pattern"} =>
          /\ m.rec.result = IF Mismatches = {} THEN 0 ELSE 1
          /\ m.rec.status = FalsePredicate <=>
                job.check_result /\ job.expected_result # m.rec.result
          /\ job.op = "compare_pattern" /\ Mismatches # {} =>
                /\ m.rec.bytes_completed <= Min(Mismatches)
                /\ Min(Mismatches) - m.rec.bytes_completed < WordSize
    /\ job.op = "create_delta" => RightDelta(job, m)

\* Operations that leave a destination alone.
LEMMA WantedBlank ==
    ASSUME NEW i \in Offsets
    PROVE  /\ job.op \notin {"fill", "dualcast", "copy_crc", "apply_delta"}
                => WantedDst1(i) = Blank[i]
           /\ job.op # "dualcast" => WantedDst2(i) = Blank[i]
  BY DEF WantedDst1, WantedDst2, Blank

\* Each operation ends right, done at once or in two parts.
LEMMA RightFill ==
    ASSUME job \in Jobs, job.op = "fill", NEW b \in Splits(job), NEW s
    PROVE  Right(Whole(job)) /\ Right(Joined(job, b, s)) /\ Faulted(job, b, s).rec.status = s
<1> DEFINE part1 == dml_ref_fill_u64(job.pattern, Blank, 0, b)
           whole == dml_ref_fill_u64(job.pattern, Blank, 0, job.transfer_size)
           joined == dml_ref_fill_u64(job.pattern, part1, b, job.transfer_size - b)
<1>1. /\ Whole(job) = Mem(whole, Blank, <<>>, Rec(Success, 0, 0, 0, <<>>))
      /\ Joined(job, b, s) = Mem(joined, Blank, <<>>, Rec(Success, 0, b + b, 0, <<>>))
      /\ Faulted(job, b, s).rec.status = s
  BY SplitType, JoinedFill
<1>2. \A i \in Offsets : whole[i] = WantedDst1(i) /\ joined[i] = WantedDst1(i)
                           /\ Blank[i] = WantedDst2(i)
  BY FillDestination, WantedBlank
<1> HIDE DEF part1, whole, joined
<1> QED  BY <1>1, <1>2 DEF Right, Mem, Rec

\* Dualcast, both destinations.
LEMMA RightDualcast ==
    ASSUME job \in Jobs, job.op = "dualcast", NEW b \in Splits(job), NEW s
    PROVE  Right(Whole(job)) /\ Right(Joined(job, b, s)) /\ Faulted(job, b, s).rec.status = s
<1> DEFINE part1 == dml_ref_dualcast(job.source_1, 0, Blank, 0, b)
           whole == dml_ref_dualcast(job.source_1, 0, Blank, 0, job.transfer_size)
           joined == dml_ref_dualcast(job.source_1, b, part1, b, job.transfer_size - b)
<1>1. /\ Whole(job) = Mem(whole, whole, <<>>, Rec(Success, 0, 0, 0, <<>>))
      /\ Joined(job, b, s) = Mem(joined, joined, <<>>, Rec(Success, 0, b + b, 0, <<>>))
      /\ Faulted(job, b, s).rec.status = s
  BY SplitType, JoinedDualcast
<1>2. \A i \in Offsets : /\ whole[i] = WantedDst1(i) /\ joined[i] = WantedDst1(i)
                         /\ whole[i] = WantedDst2(i) /\ joined[i] = WantedDst2(i)
  <2> TAKE i \in Offsets
  <2> DEFINE wanted == IF i < job.transfer_size THEN job.source_1[i] ELSE Untouched
  <2>1. whole[i] = wanted /\ joined[i] = wanted
    BY SplitType, CopyDestination
  <2>2. WantedDst1(i) = wanted /\ WantedDst2(i) = wanted
    BY DEF WantedDst1, WantedDst2
  <2> QED  BY <2>1, <2>2
<1> HIDE DEF part1, whole, joined
<1> QED  BY <1>1, <1>2 DEF Right, Mem, Rec

\* Apply Delta.
LEMMA RightApplyDelta ==
    ASSUME job \in Jobs, job.op = "apply_delta", NEW b \in Splits(job), NEW s
    PROVE  Right(Whole(job)) /\ Right(Joined(job, b, s)) /\ Faulted(job, b, s).rec.status = s
<1> DEFINE n == Len(job.delta)
           part1 == dml_ref_apply_delta(SubSeq(job.delta, 1, b), Blank, 0)
           whole == dml_ref_apply_delta(SubSeq(job.delta, 1, n), Blank, 0)
           joined == dml_ref_apply_delta(SubSeq(job.delta, b + 1, b + (n - b)), part1, 0)
<1>1. /\ Whole(job) = Mem(whole, Blank, <<>>, Rec(Success, 0, 0, 0, <<>>))
      /\ Joined(job, b, s) = Mem(joined, Blank, <<>>, Rec(Success, 0, b + b, 0, <<>>))
      /\ Faulted(job, b, s).rec.status = s
  BY SplitType, JoinedApplyDelta
<1>2. \A i \in Offsets : whole[i] = WantedDst1(i) /\ joined[i] = WantedDst1(i)
                           /\ Blank[i] = WantedDst2(i)
  BY ApplyDestination, WantedBlank
<1> HIDE DEF n, part1, whole, joined
<1> QED  BY <1>1, <1>2 DEF Right, Mem, Rec

\* The descriptors of a checksum job and of its first part.
LEMMA CrcDescriptors ==
    ASSUME NEW j \in Jobs, j.op \in {"crc", "copy_crc"}, NEW b
    PROVE  LET d == MakeTask(j)
               p == Prefix(j, d, b)
           IN  /\ d.source_1_address = 0 /\ d.transfer_size = j.transfer_size
               /\ d.crc_seed = <<SeedMark>>
               /\ p.source_1_address = 0 /\ p.transfer_size = b /\ p.crc_seed = <<SeedMark>>
<1>1. j.seed = <<SeedMark>>
  BY JobAssumption
<1> QED  BY <1>1 DEF MakeTask, Prefix

\* CRC, with and without reflection.
LEMMA RightCrc ==
    ASSUME job \in Jobs, job.op = "crc", NEW b \in Splits(job), NEW s
    PROVE  Right(Whole(job)) /\ Right(Joined(job, b, s)) /\ Faulted(job, b, s).rec.status = s
<1> DEFINE d == MakeTask(job)
           p == Prefix(job, d, b)
           u == Rest(job, b, s)
<1>1. /\ Whole(job) = Mem(Blank, Blank, <<>>, Rec(Success, 0, 0, 0, CrcOf(job, d)))
      /\ Joined(job, b, s) = Mem(Blank, Blank, <<>>, Rec(Success, 0, b + b, 0, CrcOf(job, u)))
      /\ Faulted(job, b, s).rec.status = s
      /\ u.crc_seed = CrcOf(job, p) /\ u.source_1_address = b
      /\ u.transfer_size = job.transfer_size - b
  BY SplitType, JoinedCrc
<1>2. CrcOf(job, d) = WholeCrc(job) /\ CrcOf(job, u) = WholeCrc(job)
  <2>1. /\ d.source_1_address = 0 /\ d.transfer_size = job.transfer_size
        /\ d.crc_seed = <<SeedMark>>
        /\ p.source_1_address = 0 /\ p.transfer_size = b /\ p.crc_seed = <<SeedMark>>
    BY CrcDescriptors
  <2>2. b \in Nat /\ b < job.transfer_size
    BY SplitType
  <2> HIDE DEF d, p, u
  <2> QED  BY <1>1, <2>1, <2>2, CrcOfParts
<1>3. \A i \in Offsets : Blank[i] = WantedDst1(i) /\ Blank[i] = WantedDst2(i)
  BY WantedBlank
<1> HIDE DEF d, p, u
<1> QED  BY <1>1, <1>2, <1>3 DEF Right, Mem, Rec

\* Copy with CRC.
LEMMA RightCopyCrc ==
    ASSUME job \in Jobs, job.op = "copy_crc", NEW b \in Splits(job), NEW s
    PROVE  Right(Whole(job)) /\ Right(Joined(job, b, s)) /\ Faulted(job, b, s).rec.status = s
<1> DEFINE d == MakeTask(job)
           p == Prefix(job, d, b)
           u == Rest(job, b, s)
           part1 == dml_ref_dualcast(job.source_1, 0, Blank, 0, b)
           whole == dml_ref_dualcast(job.source_1, 0, Blank, 0, job.transfer_size)
           joined == dml_ref_dualcast(job.source_1, b, part1, b, job.transfer_size - b)
<1>1. /\ Whole(job) = Mem(whole, Blank, <<>>, Rec(Success, 0, 0, 0, CrcOf(job, d)))
      /\ Joined(job, b, s) = Mem(joined, Blank, <<>>, Rec(Success, 0, b + b, 0, CrcOf(job, u)))
      /\ Faulted(job, b, s).rec.status = s
      /\ u.crc_seed = CrcOf(job, p) /\ u.source_1_address = b
      /\ u.transfer_size = job.transfer_size - b
  BY SplitType, JoinedCopyCrc
<1>2. CrcOf(job, d) = WholeCrc(job) /\ CrcOf(job, u) = WholeCrc(job)
  <2>1. /\ d.source_1_address = 0 /\ d.transfer_size = job.transfer_size
        /\ d.crc_seed = <<SeedMark>>
        /\ p.source_1_address = 0 /\ p.transfer_size = b /\ p.crc_seed = <<SeedMark>>
    BY CrcDescriptors
  <2>2. b \in Nat /\ b < job.transfer_size
    BY SplitType
  <2> HIDE DEF d, p, u
  <2> QED  BY <1>1, <2>1, <2>2, CrcOfParts
<1>3. \A i \in Offsets : whole[i] = WantedDst1(i) /\ joined[i] = WantedDst1(i)
                           /\ Blank[i] = WantedDst2(i)
  <2> TAKE i \in Offsets
  <2> DEFINE wanted == IF i < job.transfer_size THEN job.source_1[i] ELSE Untouched
  <2>1. whole[i] = wanted /\ joined[i] = wanted
    BY SplitType, CopyDestination
  <2>2. WantedDst1(i) = wanted
    BY DEF WantedDst1
  <2>3. Blank[i] = WantedDst2(i)
    BY WantedBlank
  <2> QED  BY <2>1, <2>2, <2>3
<1> HIDE DEF d, p, u, part1, whole, joined
<1> QED  BY <1>1, <1>2, <1>3 DEF Right, Mem, Rec

\* The descriptors of a comparison, of its first part, and of a part without bytes.
LEMMA CompareDescriptors ==
    ASSUME NEW j \in Jobs, j.op \in {"compare", "compare_pattern"}, NEW b \in Nat
    PROVE  LET d == MakeTask(j)
               p == Prefix(j, d, b)
           IN  /\ d.source_1_address = 0 /\ d.source_2_address = 0
               /\ d.transfer_size = j.transfer_size
               /\ p.source_1_address = 0 /\ p.source_2_address = 0 /\ p.transfer_size = b
               /\ b = 0 => dml_ref_compare(j, p)[2] = 0 /\ dml_ref_compare_pattern(j, p)[2] = 0
<1> DEFINE d == MakeTask(j)
           p == Prefix(j, d, b)
<1>1. /\ d.source_1_address = 0 /\ d.source_2_address = 0 /\ d.transfer_size = j.transfer_size
      /\ p.source_1_address = 0 /\ p.source_2_address = 0 /\ p.transfer_size = b
  BY DEF MakeTask, Prefix
<1> HIDE DEF d, p
<1>2. b = 0 => dml_ref_compare(j, p)[2] = 0 /\ dml_ref_compare_pattern(j, p)[2] = 0
  <2> SUFFICES ASSUME b = 0
               PROVE  dml_ref_compare(j, p)[2] = 0 /\ dml_ref_compare_pattern(j, p)[2] = 0
    OBVIOUS
  <2>1. 0 .. p.transfer_size - 1 = {}
    BY <1>1
  <2> QED  BY <2>1 DEF dml_ref_compare, dml_ref_compare_pattern
<1> QED  BY <1>1, <1>2 DEF d, p

\* Compare: its offset is not part of what is right (see CompareOffset).
LEMMA RightCompare ==
    ASSUME job \in Jobs, job.op = "compare", NEW b \in Splits(job), NEW s
    PROVE  Right(Whole(job)) /\ Right(Joined(job, b, s)) /\ Faulted(job, b, s).rec.status = s
<1> DEFINE d == MakeTask(job)
           p == Prefix(job, d, b)
           u == Rest(job, b, s)
           w == dml_ref_compare(job, d)
           c == dml_ref_compare(job, u)
<1>1. b \in Nat /\ b < job.transfer_size
  BY SplitType
<1>2. /\ Whole(job) = Mem(Blank, Blank, <<>>, Rec(Predicate(job, w[2]), w[2], w[1], 0, <<>>))
      /\ Joined(job, b, s) = Mem(Blank, Blank, <<>>, Rec(Predicate(job, c[2]), c[2], b, 0, <<>>))
      /\ Faulted(job, b, s).rec.status = s
      /\ u.source_1_address = b /\ u.source_2_address = b
      /\ u.transfer_size = job.transfer_size - b
      /\ b \in Cuts(job) => dml_ref_compare(job, p)[2] = 0
  BY <1>1, JoinedCompare
<1>3. /\ w[2] = IF Mismatches = {} THEN 0 ELSE 1
      /\ c[2] = IF Mismatches = {} THEN 0 ELSE 1
  <2>1. /\ d.source_1_address = 0 /\ d.source_2_address = 0
        /\ d.transfer_size = job.transfer_size
        /\ p.source_1_address = 0 /\ p.source_2_address = 0 /\ p.transfer_size = b
        /\ b = 0 => dml_ref_compare(job, p)[2] = 0
    BY <1>1, CompareDescriptors
  <2>2. dml_ref_compare(job, p)[2] = 0
    BY <1>2, <2>1 DEF Splits
  <2> HIDE DEF d, p, u
  <2> QED  BY <1>1, <1>2, <2>1, <2>2, CompareParts
<1>4. \A i \in Offsets : Blank[i] = WantedDst1(i) /\ Blank[i] = WantedDst2(i)
  BY WantedBlank
<1>5. \A r : /\ Predicate(job, r) \in {Success, FalsePredicate}
             /\ Predicate(job, r) = FalsePredicate <=> job.check_result /\ job.expected_result # r
  BY PredicateStatus
<1> HIDE DEF d, p, u, w, c
<1>6. Right(Whole(job))
  BY <1>2, <1>3, <1>4, <1>5 DEF Right, Mem, Rec
<1>7. Right(Joined(job, b, s))
  BY <1>2, <1>3, <1>4, <1>5 DEF Right, Mem, Rec
<1> QED  BY <1>2, <1>6, <1>7

\* Compare Pattern.
LEMMA RightComparePattern ==
    ASSUME job \in Jobs, job.op = "compare_pattern", NEW b \in Splits(job), NEW s
    PROVE  Right(Whole(job)) /\ Right(Joined(job, b, s)) /\ Faulted(job, b, s).rec.status = s
<1> DEFINE d == MakeTask(job)
           p == Prefix(job, d, b)
           u == Rest(job, b, s)
           w == dml_ref_compare_pattern(job, d)
           c == dml_ref_compare_pattern(job, u)
<1>1. b \in Nat /\ b < job.transfer_size /\ b % WordSize = 0
  BY SplitType
<1>2. /\ Whole(job) = Mem(Blank, Blank, <<>>, Rec(Predicate(job, w[2]), w[2], w[1], 0, <<>>))
      /\ Joined(job, b, s)
           = Mem(Blank, Blank, <<>>, Rec(Predicate(job, c[2]), c[2], c[1] + b, 0, <<>>))
      /\ Faulted(job, b, s).rec.status = s
      /\ u.source_1_address = b /\ u.transfer_size = job.transfer_size - b
      /\ b \in Cuts(job) => dml_ref_compare_pattern(job, p)[2] = 0
  BY <1>1, JoinedComparePattern
<1>3. /\ w[2] = IF Mismatches = {} THEN 0 ELSE 1
      /\ c[2] = IF Mismatches = {} THEN 0 ELSE 1
      /\ Mismatches # {} =>
           /\ w[1] <= Min(Mismatches) /\ Min(Mismatches) - w[1] < WordSize
           /\ c[1] + b <= Min(Mismatches) /\ Min(Mismatches) - (c[1] + b) < WordSize
  <2>1. /\ d.source_1_address = 0 /\ d.transfer_size = job.transfer_size
        /\ p.source_1_address = 0 /\ p.transfer_size = b
        /\ b = 0 => dml_ref_compare_pattern(job, p)[2] = 0
    BY <1>1, CompareDescriptors
  <2>2. dml_ref_compare_pattern(job, p)[2] = 0
    BY <1>2, <2>1 DEF Splits
  <2> HIDE DEF d, p, u
  <2> QED  BY <1>1, <1>2, <2>1, <2>2, PatternParts
<1>4. \A i \in Offsets : Blank[i] = WantedDst1(i) /\ Blank[i] = WantedDst2(i)
  BY WantedBlank
<1>5. \A r : /\ Predicate(job, r) \in {Success, FalsePredicate}
             /\ Predicate(job, r) = FalsePredicate <=> job.check_result /\ job.expected_result # r
  BY PredicateStatus
<1> HIDE DEF d, p, u, w, c
<1>6. Right(Whole(job))
  BY <1>2, <1>3, <1>4, <1>5 DEF Right, Mem, Rec
<1>7. Right(Joined(job, b, s))
  BY <1>2, <1>3, <1>4, <1>5 DEF Right, Mem, Rec
<1> QED  BY <1>2, <1>6, <1>7

\* All notes of a job, those that fit, and the result.
LEMMA AllFoundFits ==
    ASSUME NEW j \in Jobs
    PROVE  LET all == Notes(j, MakeTask(j))
               found == AllFound(j)
               fits == Fitting(Len(all), j.maximum_delta_record_size)
           IN  /\ all \in Seq(NoteSet(j)) /\ found[1] \in Seq(NoteSet(j))
               /\ found[1] = SubSeq(all, 1, fits) /\ Len(found[1]) = fits
               /\ found[2] \in {0, 1, 2}
               /\ found[2] = 2 <=> Len(all) > j.maximum_delta_record_size
<1> DEFINE d == MakeTask(j)
           n == j.transfer_size \div WordSize
           N == NoteSet(j)
           all == Notes(j, d)
<1>1. j.transfer_size \in Nat /\ j.maximum_delta_record_size \in Nat
  BY JobAssumption
<1>2. n \in Nat /\ n \in 0 .. n /\ 0 \in Nat
  BY <1>1, Quotient
<1>3. /\ d.source_1_address = 0 /\ d.source_2_address = 0 /\ d.transfer_size = j.transfer_size
      /\ d.maximum_delta_record_size = j.maximum_delta_record_size
  BY DEF MakeTask
<1> HIDE DEF d, n, N
<1>4. all = FoundIn(j, 0, 0, n)[n]
  BY <1>3, NotesIsFound DEF n
<1>5. all \in Seq(N)
  BY <1>2, <1>4, FoundType DEF N
<1> DEFINE found == AllFound(j)
           fits == Fitting(Len(all), j.maximum_delta_record_size)
<1>6. /\ found[1] = SubSeq(all, 1, fits) /\ Len(found[1]) = fits
      /\ fits \in 0 .. Len(all) /\ found[2] \in {0, 1, 2}
      /\ found[2] = 2 <=> Len(all) > j.maximum_delta_record_size
  BY <1>1, <1>3, <1>5, FoundFits DEF AllFound, d
<1> HIDE DEF all, found, fits
<1>7. SubSeq(all, 1, fits) \in Seq(N)
  BY <1>5, <1>6
<1> QED  BY <1>5, <1>6, <1>7 DEF d, N, all, found, fits

\* Create Delta, one worker or two: the same notes in the same record.
LEMMA RightCreateDelta ==
    ASSUME job \in Jobs, job.op = "create_delta", NEW b \in Splits(job), NEW s
    PROVE  Right(Whole(job)) /\ Right(Joined(job, b, s)) /\ Faulted(job, b, s).rec.status = s
<1> DEFINE w == AllFound(job)
           a == FirstFound(job, b)
           c == NextFound(job, b, s)
<1>0. b \in Nat
  BY SplitType
<1>1. DeltaParts(job, b, s)
  BY <1>0, JoinedCreateDelta
<1>2. /\ Whole(job) = Mem(Blank, Blank, PutNotes(<<>>, 0, w[1]),
                          Rec(DeltaStatus(job, w[2]), w[2], 0, Len(w[1]), <<>>))
      /\ Joined(job, b, s) = Mem(Blank, Blank, Merged(job, b, s),
                                Rec(DeltaStatus(job, c[2]), c[2], b + b,
                                    Len(c[1]) + Len(a[1]), <<>>))
      /\ Faulted(job, b, s).rec.status = s
  BY <1>1 DEF DeltaParts
<1>3. /\ Merged(job, b, s) = w[1] /\ Len(c[1]) + Len(a[1]) = Len(w[1])
      /\ c[2] = 2 <=> w[2] = 2
      /\ c[2] \in {0, 1, 2}
  BY MergedNotes
<1>4. w[1] \in Seq(NoteSet(job)) /\ w[2] \in {0, 1, 2}
  BY AllFoundFits
<1>5. PutNotes(<<>>, 0, w[1]) = w[1]
  <2> DEFINE v == w[1]
             N == NoteSet(job)
  <2>1. v \in Seq(N)
    BY <1>4
  <2> HIDE DEF v, N
  <2>2. PutNotes(<<>>, 0, v) = v
    BY <2>1, PutBehind
  <2> QED  BY <2>2 DEF v
<1>6. \A i \in Offsets : Blank[i] = WantedDst1(i) /\ Blank[i] = WantedDst2(i)
  BY WantedBlank
<1>7. \A r : DeltaStatus(job, r) \in {Success, FalsePredicate}
  BY DEF DeltaStatus
<1> HIDE DEF w, a, c
<1>8. ASSUME NEW r \in {0, 1, 2}, NEW n, r = 2 <=> w[2] = 2
      PROVE  Right(Mem(Blank, Blank, w[1], Rec(DeltaStatus(job, r), r, n, Len(w[1]), <<>>)))
  <2> DEFINE m == Mem(Blank, Blank, w[1], Rec(DeltaStatus(job, r), r, n, Len(w[1]), <<>>))
  <2>1. /\ m.dst1 = Blank /\ m.dst2 = Blank /\ m.delta = w[1]
        /\ m.rec.status = DeltaStatus(job, r) /\ m.rec.result = r
        /\ m.rec.delta_record_size = Len(w[1])
    BY DEF Mem, Rec
  <2> HIDE DEF m
  <2>2. RightDelta(job, m)
    BY <1>8, <2>1 DEF RightDelta, w
  <2>3. Right(m)
    BY <1>6, <1>7, <2>1, <2>2 DEF Right
  <2> QED  BY <2>3 DEF m
<1>9. Right(Whole(job))
  BY <1>2, <1>4, <1>5, <1>8
<1>10. Right(Joined(job, b, s))
  BY <1>2, <1>3, <1>8
<1> QED  BY <1>2, <1>9, <1>10

\* One worker or two, from the start or from where a page fault stopped the
\* device: the job ends right.
LEMMA AllEndsRight ==
    ASSUME job \in Jobs, NEW b \in Splits(job), NEW s
    PROVE  Right(Whole(job)) /\ Right(Joined(job, b, s)) /\ Faulted(job, b, s).rec.status = s
<1>1. job.op \in Operations
  BY JobAssumption
<1> QED  BY <1>1, RightFill, RightDualcast, RightCompare, RightComparePattern, RightCreateDelta,
            RightApplyDelta, RightCrc, RightCopyCrc DEF Operations

-----------------------------------------------------------------------------
(* The invariant of the job. *)

\* The job's own buffers and record are right.
MemRight == Right(mem)

\* Until the worker of a submission is done, nothing is written; then the job is
\* right or stopped by a page fault, and only the hardware path leaves it so.
IInv ==
    /\ job \in Jobs
    /\ path \in {"software", "hardware", "automatic"}
    /\ pc \in {"submit", "hw", "submitted", "done"}
    /\ pc \in {"submit", "hw"} => dsc = MakeTask(job) /\ mem = BlankMem /\ out = BlankOut
    /\ pc = "hw" => path # "software"
    /\ pc = "submitted" =>
          /\ dsc = MakeTask(job) /\ out = BlankOut
          /\ \/ MemRight
             \/ /\ path # "software"
                /\ \E b \in Cuts(job), s \in Faults : mem = Faulted(job, b, s)
    /\ pc = "done" =>
          /\ out = write_result(job, mem, BlankOut)
          /\ MemRight \/ (path = "hardware" /\ mem.rec.status \in Faults)

\* What write_result takes from the record.
LEMMA Written ==
    ASSUME NEW j, NEW m
    PROVE  LET o == write_result(j, m, BlankOut)
           IN  /\ o.status = m.rec.status
               /\ j.op \in {"compare", "compare_pattern"} =>
                     o.offset = m.rec.bytes_completed /\ o.result = m.rec.result
               /\ j.op \in {"crc", "copy_crc"} => o.crc = m.rec.crc_value
               /\ j.op = "create_delta" =>
                     o.length = m.rec.delta_record_size /\ o.result = m.rec.result
<1>1. CASE j.op \in {"compare", "compare_pattern"}
  BY <1>1 DEF write_result, BlankOut
<1>2. CASE j.op = "create_delta"
  BY <1>2 DEF write_result, BlankOut
<1>3. CASE j.op \in {"crc", "copy_crc"}
  BY <1>3 DEF write_result, BlankOut
<1>4. CASE j.op \notin {"compare", "compare_pattern", "create_delta", "crc", "copy_crc"}
  BY <1>4 DEF write_result, BlankOut
<1> QED  BY <1>1, <1>2, <1>3, <1>4

\* Writing the same results into a job once more leaves it as it is.
LEMMA WrittenTwice ==
    ASSUME NEW j, NEW m
    PROVE  write_result(j, m, write_result(j, m, BlankOut)) = write_result(j, m, BlankOut)
<1> DEFINE r == m.rec
           o == [status |-> r.status, result |-> 0, offset |-> 0, length |-> 0, crc |-> <<>>]
<1>1. CASE j.op \in {"compare", "compare_pattern"}
  <2> DEFINE v == [status |-> r.status, result |-> r.result, offset |-> r.bytes_completed,
                   length |-> 0, crc |-> <<>>]
  <2>1. write_result(j, m, BlankOut) = v
    BY <1>1 DEF write_result, BlankOut
  <2>2. write_result(j, m, v) = v
    BY <1>1 DEF write_result
  <2> QED  BY <2>1, <2>2
<1>2. CASE j.op = "create_delta"
  <2> DEFINE at == IF m.delta = <<>> THEN 0 ELSE m.delta[1].offset
             v == [status |-> r.status, result |-> r.result, offset |-> at,
                   length |-> r.delta_record_size, crc |-> <<>>]
  <2> HIDE DEF at
  <2>1. write_result(j, m, BlankOut) = v
    BY <1>2 DEF write_result, BlankOut, at
  <2>2. write_result(j, m, v) = v
    BY <1>2 DEF write_result, at
  <2> QED  BY <2>1, <2>2
<1>3. CASE j.op \in {"crc", "copy_crc"}
  <2> DEFINE v == [status |-> r.status, result |-> 0, offset |-> 0,
                   length |-> 0, crc |-> r.crc_value]
  <2>1. write_result(j, m, BlankOut) = v
    BY <1>3 DEF write_result, BlankOut
  <2>2. write_result(j, m, v) = v
    BY <1>3 DEF write_result
  <2> QED  BY <2>1, <2>2
<1>4. CASE j.op \notin {"compare", "compare_pattern", "create_delta", "crc", "copy_crc"}
  <2>1. write_result(j, m, BlankOut) = o
    BY <1>4 DEF write_result, BlankOut
  <2>2. write_result(j, m, o) = o
    BY <1>4 DEF write_result
  <2> QED  BY <2>1, <2>2
<1> QED  BY <1>1, <1>2, <1>3, <1>4

\* The statuses of a page fault, with and without the bit of a write, and no other.
LEMMA FaultStatus ==
    /\ \A s \in Faults : IsPageFault(s) /\ s \notin {Success, FalsePredicate}
    /\ \A s \in {Success, FalsePredicate} : ~IsPageFault(s)
  BY DEF Faults, IsPageFault, PageFault, WriteFault, Success, FalsePredicate

\* A job that has not been submitted satisfies the invariant.
LEMMA InitInv == Init => IInv
  BY DEF Init, IInv

\* Every action keeps the invariant: submission by the lemmas about Whole, a wait
\* after a page fault by those about Joined, a second wait because write_result
\* assigns and because the merged record is no page fault any more.
LEMMA NextInv == IInv /\ [Next]_vars => IInv'
<1> SUFFICES ASSUME IInv, [Next]_vars PROVE IInv'
  OBVIOUS
<1>1. CASE SwSubmit
  <2>1. MemRight'
    <3>1. mem' = Whole(job) /\ job' = job /\ job \in Jobs
      BY <1>1 DEF SwSubmit, IInv, Whole
    <3>2. Right(Whole(job))
      BY <3>1, AllEndsRight DEF Splits
    <3> QED  BY <3>1, <3>2 DEF MemRight, Right, WantedDst1, WantedDst2, Mismatches
  <2> QED  BY <1>1, <2>1 DEF SwSubmit, IInv
<1>2. CASE HwSubmit
  BY <1>2 DEF HwSubmit, IInv
<1>3. CASE HwComplete
  <2>1. MemRight'
    <3>1. mem' = Whole(job) /\ job' = job /\ job \in Jobs
      BY <1>3 DEF HwComplete, IInv, Whole
    <3>2. Right(Whole(job))
      BY <3>1, AllEndsRight DEF Splits
    <3> QED  BY <3>1, <3>2, ZenonT(60) DEF MemRight, Right, WantedDst1, WantedDst2, Mismatches
  <2> QED  BY <1>3, <2>1 DEF HwComplete, IInv
<1>4. CASE HwFault
  <2>1. \E b \in Cuts(job), s \in Faults : mem' = Faulted(job, b, s)
    BY <1>4 DEF HwFault, IInv, Cuts, Faults, Faulted
  <2>2. (\E b \in Cuts(job), s \in Faults : mem = Faulted(job, b, s))'
    BY <1>4, <2>1 DEF HwFault, Cuts
  <2> QED  BY <1>4, <2>2 DEF HwFault, IInv
<1>5. CASE WaitJob
  <2>1. job' = job /\ path' = path /\ pc' = "done" /\ job \in Jobs
    BY <1>5 DEF WaitJob, IInv
  <2>2. out' = write_result(job, mem', out)
    BY <1>5 DEF WaitJob
  <2>0. ASSUME out' = write_result(job, mem', BlankOut),
               MemRight' \/ (path = "hardware" /\ mem'.rec.status \in Faults)
        PROVE  IInv'
    BY <2>0, <2>1 DEF IInv
  <2>3. CASE pc = "submitted" /\ MemRight
    <3>1. ~IsPageFault(mem.rec.status)
      BY <2>3, FaultStatus DEF MemRight, Right
    <3>2. mem' = mem
      BY <1>5, <3>1 DEF WaitJob
    <3>3. MemRight'
      BY <2>1, <2>3, <3>2 DEF MemRight, Right, WantedDst1, WantedDst2, Mismatches
    <3>4. out = BlankOut
      BY <2>3 DEF IInv
    <3>5. out' = write_result(job, mem', BlankOut)
      BY <2>2, <3>4
    <3>6. MemRight' \/ (path = "hardware" /\ mem'.rec.status \in Faults)
      BY <3>3
    <3> QED  BY <2>0, <3>5, <3>6
  <2>4. CASE pc = "submitted" /\ ~MemRight
    <3>1. PICK b \in Cuts(job), s \in Faults : mem = Faulted(job, b, s)
      BY <2>4 DEF IInv
    <3>2. dsc = MakeTask(job) /\ out = BlankOut /\ path \in {"hardware", "automatic"}
      BY <2>4 DEF IInv
    <3>3. Faulted(job, b, s).rec.status = s /\ Right(Joined(job, b, s))
      BY <2>1, AllEndsRight DEF Splits
    <3>4. IsPageFault(mem.rec.status)
      BY <3>1, <3>3, FaultStatus
    <3>5. CASE path = "automatic"
      <4>1. mem' = Joined(job, b, s)
        BY <1>5, <3>1, <3>2, <3>4, <3>5 DEF WaitJob, Joined, Rest
      <4>2. MemRight'
        BY <2>1, <3>3, <4>1, ZenonT(60) DEF MemRight, Right, WantedDst1, WantedDst2, Mismatches
      <4>3. out' = write_result(job, mem', BlankOut)
        BY <2>2, <3>2
      <4>4. MemRight' \/ (path = "hardware" /\ mem'.rec.status \in Faults)
        BY <4>2
      <4> QED  BY <2>0, <4>3, <4>4
    <3>6. CASE path = "hardware"
      <4>1. mem' = mem /\ mem'.rec.status \in Faults
        BY <1>5, <3>1, <3>3, <3>6 DEF WaitJob
      <4> QED  BY <2>0, <2>2, <3>2, <3>6, <4>1
    <3> QED  BY <3>2, <3>5, <3>6
  <2>5. CASE pc = "done"
    <3>1. UNCHANGED <<dsc, mem>>
      <4>1. MemRight => ~IsPageFault(mem.rec.status)
        BY FaultStatus DEF MemRight, Right
      <4> QED  BY <1>5, <2>5, <4>1 DEF WaitJob, IInv
    <3>2. out' = out
      BY <2>2, <2>5, <3>1, WrittenTwice DEF IInv
    <3>3. MemRight' <=> MemRight
      BY <2>1, <3>1 DEF MemRight, Right, WantedDst1, WantedDst2, Mismatches
    <3>4. /\ out = write_result(job, mem, BlankOut)
          /\ MemRight \/ (path = "hardware" /\ mem.rec.status \in Faults)
      BY <2>5 DEF IInv
    <3> QED  BY <2>0, <3>1, <3>2, <3>3, <3>4
  <2> QED  BY <1>5, <2>3, <2>4, <2>5 DEF WaitJob
<1>6. CASE UNCHANGED vars
  <2>1. MemRight' <=> MemRight
    BY <1>6 DEF vars, MemRight, Right, WantedDst1, WantedDst2, Mismatches
  <2>2. (\E b \in Cuts(job), s \in Faults : mem = Faulted(job, b, s))'
          <=> \E b \in Cuts(job), s \in Faults : mem = Faulted(job, b, s)
    BY <1>6 DEF vars, Cuts
  <2> QED  BY <1>6, <2>1, <2>2 DEF vars, IInv
<1> QED  BY <1>1, <1>2, <1>3, <1>4, <1>5, <1>6 DEF Next

\* Every job that is submitted, stopped, continued or waited for again satisfies
\* the invariant: the automatic path never leaves a page fault behind, and only
\* the hardware path may.
THEOREM JobInvariant == Spec => []IInv
  BY InitInv, NextInv, PTL DEF Spec

\* A completed job is right, and its output fields are those of the record.
LEMMA CompletedIsRight ==
    ASSUME IInv, Completed
    PROVE  MemRight /\ out = write_result(job, mem, BlankOut)
<1>1. pc = "done" /\ (path = "hardware" => out.status \notin Faults)
  BY DEF Completed, Faults
<1>2. out = write_result(job, mem, BlankOut) /\ out.status = mem.rec.status
  BY <1>1, Written DEF IInv
<1> QED  BY <1>1, <1>2 DEF IInv

\* For every job and wherever a page fault stopped the device, the destinations
\* of a completed job are those of one kernel: update_for_continuation leaves no
\* gap, no overlap and no shifted pattern.
THEOREM DestinationAlwaysCorrect == Spec => []DestinationCorrect
<1>1. IInv => DestinationCorrect
  BY CompletedIsRight DEF DestinationCorrect, MemRight, Right
<1> QED  BY <1>1, JobInvariant, PTL

\* The checksum of a completed CRC or Copy with CRC job is that of its whole
\* source, inverted and reflected once at both ends: handing crc_value over as the
\* seed of the second part is sound, also when the device stopped at byte 0.
THEOREM CrcAlwaysWhole == Spec => []CrcOfWholeSource
<1>1. IInv => CrcOfWholeSource
  <2> SUFFICES ASSUME IInv, Completed, job.op \in {"crc", "copy_crc"}
               PROVE  CrcOfWholeSource
    BY DEF CrcOfWholeSource
  <2>1. out.crc = WholeCrc(job) /\ job \in Jobs
    BY CompletedIsRight, Written DEF MemRight, Right, IInv
  <2> QED  BY <2>1, WantedCrc DEF CrcOfWholeSource, WholeCrc
<1> QED  BY <1>1, JobInvariant, PTL

\* A completed comparison tells whether the regions differ anywhere, its status
\* follows from expected_result, and Compare Pattern reports an offset within the
\* word of the first difference, however the work was split.
THEOREM ComparisonAlwaysRight == Spec => []ComparisonResult
<1>1. IInv => ComparisonResult
  <2> SUFFICES ASSUME IInv, Completed, job.op \in {"compare", "compare_pattern"}
               PROVE  ComparisonResult
    BY DEF ComparisonResult
  <2>1. /\ out.status = mem.rec.status /\ out.result = mem.rec.result
        /\ out.offset = mem.rec.bytes_completed /\ MemRight
    BY CompletedIsRight, Written
  <2> QED  BY <2>1 DEF ComparisonResult, MemRight, Right
<1> QED  BY <1>1, JobInvariant, PTL

\* The status of a checked Create Delta job says whether the result is the one that
\* was expected, by its documented value.
LEMMA ExpectedDelta ==
    ASSUME NEW j, j.check_result, j.expected_result \in {1, 2, 4}, NEW r \in {0, 1, 2}
    PROVE  DeltaStatus(j, r) = Success <=> j.expected_result = 2 ^ r
<1>1. 2 ^ 0 = 1 /\ 2 ^ 1 = 2 /\ 2 ^ 2 = 4
  OBVIOUS
<1>2. /\ 1 % 8 = 1 /\ 2 % 8 = 2 /\ 4 % 8 = 4
      /\ 1 \div 2 = 0 /\ 2 \div 2 = 1 /\ 4 \div 2 = 2
  OBVIOUS
<1>3. CASE r = 0
  BY <1>1, <1>2, <1>3 DEF DeltaStatus, Success, FalsePredicate
<1>4. CASE r = 1
  BY <1>1, <1>2, <1>4 DEF DeltaStatus, Success, FalsePredicate
<1>5. CASE r = 2
  BY <1>1, <1>2, <1>5 DEF DeltaStatus, Success, FalsePredicate
<1> QED  BY <1>3, <1>4, <1>5

\* A completed Create Delta job has written the first differences of its two whole
\* sources, in order, with offsets from the start of the job, as many as there are
\* or fit, wherever a page fault handed the work from the device to the software
\* kernel; result and status say whether they all fit and are as expected.
THEOREM DeltaAlwaysComplete == Spec => []DeltaComplete
<1>1. IInv => DeltaComplete
  <2> SUFFICES ASSUME IInv, Completed, job.op = "create_delta"
               PROVE  DeltaComplete
    BY DEF DeltaComplete
  <2> DEFINE all == Notes(job, MakeTask(job))
             w == AllFound(job)
             max == job.maximum_delta_record_size
             fits == Fitting(Len(all), max)
             N == NoteSet(job)
  <2>1. job \in Jobs
    BY DEF IInv
  <2>2. RightDelta(job, mem) /\ out = write_result(job, mem, BlankOut)
    BY CompletedIsRight DEF MemRight, Right
  <2>3. /\ out.status = mem.rec.status /\ out.result = mem.rec.result
        /\ out.length = mem.rec.delta_record_size
    BY <2>2, Written
  <2>4. /\ mem.delta = w[1] /\ out.length = Len(w[1])
        /\ out.result = 2 <=> w[2] = 2
        /\ out.result \in {0, 1, 2} /\ out.status = DeltaStatus(job, out.result)
    BY <2>2, <2>3 DEF RightDelta
  <2>5. /\ w[1] \in Seq(N) /\ w[1] = SubSeq(all, 1, fits) /\ Len(w[1]) = fits
        /\ w[2] = 2 <=> Len(all) > max
    BY <2>1, AllFoundFits
  <2> HIDE DEF w, N, all, max
  <2>6. SubSeq(w[1], 1, Len(w[1])) = w[1]
    BY <2>5
  <2>7. Produced = w[1]
    BY <2>4, <2>6 DEF Produced
  <2>8. Produced = SubSeq(all, 1, Len(Produced)) /\ Len(Produced) = fits
    BY <2>5, <2>7
  <2>9. job.check_result /\ job.expected_result \in {1, 2, 4}
          => (out.status = Success <=> job.expected_result = 2 ^ out.result)
    BY <2>4, ExpectedDelta
  <2> QED  BY <2>4, <2>5, <2>8, <2>9 DEF DeltaComplete, Fitting, all, max
<1> QED  BY <1>1, JobInvariant, PTL

\* dml_wait_job and dml_check_job on a finished job change neither its record nor
\* its output fields nor its descriptor: nothing is continued or counted twice.
THEOREM WaitingAgainIsSafe == Spec => WaitIsIdempotent
<1>1. IInv /\ [Next]_vars => [pc = "done" => UNCHANGED <<dsc, mem, out>>]_vars
  <2> SUFFICES ASSUME IInv, Next, pc = "done"
               PROVE  UNCHANGED <<dsc, mem, out>>
    BY DEF vars
  <2>1. WaitJob
    BY DEF Next, SwSubmit, HwSubmit, HwComplete, HwFault
  <2>2. UNCHANGED <<dsc, mem>>
    <3>1. MemRight => ~IsPageFault(mem.rec.status)
      BY FaultStatus DEF MemRight, Right
    <3> QED  BY <2>1, <3>1 DEF WaitJob, IInv
  <2>3. out' = out
    BY <2>1, <2>2, WrittenTwice DEF WaitJob, IInv
  <2> QED  BY <2>2, <2>3
<1> QED  BY <1>1, JobInvariant, PTL DEF Spec, WaitIsIdempotent

-----------------------------------------------------------------------------
(* Memory Move (MemMove): a move that a page fault cuts and software finishes is *)
(* correct, for every memory, request, overlap and fault position.               *)


\* The current phase copies from the first byte to the last.
GoingForward ==
    \/ phase \in {"hw", "waiting"} /\ rec.result = 0
    \/ phase = "sw_forward"

\* Destination addresses the current phase has still to write.
Pending(a) ==
    IF GoingForward
    THEN descriptor.dst + index <= a /\ a < descriptor.dst + descriptor.size
    ELSE descriptor.dst <= a /\ a < descriptor.dst + descriptor.size - index

\* What the descriptor still covers of the request: its last bytes after a
\* device that went forward, its first bytes after one that went backward.
TailLeft ==
    /\ ForwardSafe(req)
    /\ descriptor.src = req.src + (req.size - descriptor.size)
    /\ descriptor.dst = req.dst + (req.size - descriptor.size)
HeadLeft ==
    /\ BackwardSafe(req)
    /\ descriptor.src = req.src
    /\ descriptor.dst = req.dst

CutInv ==
    /\ descriptor.size <= req.size
    /\ TailLeft \/ HeadLeft
    /\ index <= descriptor.size

\* What is known of the descriptor and of the direction in every phase.
PhaseInv ==
    /\ phase \in {"submit", "hw", "waiting"} => descriptor = req
    /\ phase = "submit" => index = 0
    /\ phase \in {"hw", "waiting"} =>
          IF rec.result = 0 THEN ForwardSafe(req) ELSE BackwardSafe(req)
    /\ phase = "waiting" =>
          IF IsPageFault(rec.status)
          THEN rec.bytes_completed = index /\ index < descriptor.size
          ELSE rec.status = Success /\ index = descriptor.size
    /\ phase \in {"sw_forward", "sw_backward", "sw_same"} => phase = KernelPhase(descriptor)
    /\ phase = "sw_same" => index = 0

\* Every address holds its final value except the ones still to be written,
\* which hold what they held at submission.
MemInv ==
    phase # "done" =>
        \A a \in Addr : memory[a] = IF Pending(a) THEN old[a] ELSE Moved(req, a)

MoveInv ==
    /\ MoveTypeOK
    /\ CutInv
    /\ PhaseInv
    /\ MemInv
    /\ MoveCorrect
    /\ FaultHidden

-----------------------------------------------------------------------------
\* The fields of a request are naturals and its two ranges are memory.
LEMMA RequestFields ==
    ASSUME NEW r \in Requests
    PROVE  /\ r.src \in Nat /\ r.dst \in Nat /\ r.size \in Nat \ {0}
           /\ r.src + r.size <= MemSize /\ r.dst + r.size <= MemSize
           /\ r = [src |-> r.src, dst |-> r.dst, size |-> r.size]
BY MemAssumption DEF Requests, Addr

\* A request can be copied in one of the two directions, whatever the overlap.
LEMMA SomeDirection ==
    ASSUME NEW r \in Requests
    PROVE  ForwardSafe(r) \/ BackwardSafe(r)
BY RequestFields DEF ForwardSafe, BackwardSafe

\* The directions dml_ref_mem_move picks are safe ones; it picks none only
\* when the ranges are the same.
LEMMA KernelDirection ==
    ASSUME NEW r \in Requests
    PROVE  /\ KernelPhase(r) \in {"sw_forward", "sw_backward", "sw_same"}
           /\ KernelPhase(r) = "sw_forward" =>
                 r.dst < r.src \/ r.src + r.size <= r.dst
           /\ KernelPhase(r) = "sw_backward" => r.src < r.dst /\ r.dst < r.src + r.size
           /\ KernelPhase(r) = "sw_same" => r.src = r.dst
BY RequestFields DEF KernelPhase

\* The heart of the argument: the byte a phase is about to read has not been
\* overwritten, neither by this phase nor by the device before the fault.
LEMMA SourceIntact ==
    ASSUME MoveInv, NEW k \in Int, index < descriptor.size,
           phase \in {"hw", "sw_forward", "sw_backward"},
           k = IF GoingForward THEN index ELSE descriptor.size - 1 - index
    PROVE  /\ descriptor.src + k \in Addr
           /\ descriptor.dst + k \in Addr
           /\ memory[descriptor.src + k] = old[descriptor.src + k]
           /\ Moved(req, descriptor.dst + k) = old[descriptor.src + k]
<1>1. /\ req \in Requests /\ descriptor \in Requests /\ index \in Nat
      /\ phase # "done"
  BY MemAssumption DEF MoveInv, MoveTypeOK
<1>2. /\ req.src \in Nat /\ req.dst \in Nat /\ req.size \in Nat
      /\ descriptor.src \in Nat /\ descriptor.dst \in Nat /\ descriptor.size \in Nat
      /\ descriptor.src + descriptor.size <= MemSize /\ descriptor.dst + descriptor.size <= MemSize
  BY <1>1, RequestFields
<1>3. 0 <= k /\ k < descriptor.size
  BY <1>1, <1>2
<1>4. descriptor.src + k \in Addr /\ descriptor.dst + k \in Addr
  BY <1>2, <1>3, MemAssumption DEF Addr
<1>5. /\ descriptor.src + req.dst = req.src + descriptor.dst
      /\ req.dst <= descriptor.dst
      /\ descriptor.dst + descriptor.size <= req.dst + req.size
  BY <1>2 DEF MoveInv, CutInv, TailLeft, HeadLeft
<1>6. Moved(req, descriptor.dst + k) = old[descriptor.src + k]
  <2>1. descriptor.dst + k \in req.dst .. req.dst + req.size - 1
    BY <1>2, <1>3, <1>5
  <2>2. req.src + ((descriptor.dst + k) - req.dst) = descriptor.src + k
    <3>1. \A a, b, c, d, i \in Int : a + d = c + b => c + ((b + i) - d) = a + i
      OBVIOUS
    <3>2. QED
      BY <3>1, <1>2, <1>5
  <2>3. QED
    BY <2>1, <2>2 DEF Moved
\* The byte is still to be written, or lies outside the destination, or is
\* its own copy.
<1>7. \/ Pending(descriptor.src + k)
      \/ descriptor.src + k \notin req.dst .. req.dst + req.size - 1
      \/ req.src = req.dst
  <2>1. CASE phase = "hw" /\ rec.result = 0
    <3>1. GoingForward /\ k = index
      BY <2>1 DEF GoingForward
    <3>2. descriptor = req /\ ForwardSafe(req)
      BY <2>1 DEF MoveInv, PhaseInv
    <3>3. QED
      BY <3>1, <3>2, <1>1, <1>2, <1>3 DEF Pending, ForwardSafe
  <2>2. CASE phase = "hw" /\ rec.result # 0
    <3>1. ~GoingForward /\ k = descriptor.size - 1 - index
      BY <2>2 DEF GoingForward
    <3>2. descriptor = req /\ BackwardSafe(req)
      BY <2>2 DEF MoveInv, PhaseInv
    <3>3. QED
      BY <3>1, <3>2, <1>1, <1>2, <1>3 DEF Pending, BackwardSafe
  <2>3. CASE phase = "sw_forward"
    <3>1. GoingForward /\ k = index
      BY <2>3 DEF GoingForward
    <3>2. descriptor.dst < descriptor.src \/ descriptor.src + descriptor.size <= descriptor.dst
      BY <2>3, <1>1, KernelDirection DEF MoveInv, PhaseInv
    <3>3. TailLeft \/ HeadLeft
      BY DEF MoveInv, CutInv
    <3>4. QED
      BY <3>1, <3>2, <3>3, <1>1, <1>2, <1>3, <1>5
      DEF Pending, TailLeft, HeadLeft, ForwardSafe, BackwardSafe
  <2>4. CASE phase = "sw_backward"
    <3>1. ~GoingForward /\ k = descriptor.size - 1 - index
      BY <2>4 DEF GoingForward
    <3>2. descriptor.src < descriptor.dst /\ descriptor.dst < descriptor.src + descriptor.size
      BY <2>4, <1>1, KernelDirection DEF MoveInv, PhaseInv
    <3>3. TailLeft \/ HeadLeft
      BY DEF MoveInv, CutInv
    <3>4. QED
      BY <3>1, <3>2, <3>3, <1>1, <1>2, <1>3, <1>5
      DEF Pending, TailLeft, HeadLeft, ForwardSafe, BackwardSafe
  <2>5. QED
    BY <2>1, <2>2, <2>3, <2>4
<1>8. memory[descriptor.src + k] = IF Pending(descriptor.src + k) THEN old[descriptor.src + k]
                                                 ELSE Moved(req, descriptor.src + k)
  BY <1>1, <1>4 DEF MoveInv, MemInv
<1>9. req.src = req.dst => Moved(req, descriptor.src + k) = old[descriptor.src + k]
  <2>1. req.src = req.dst => req.src + ((descriptor.src + k) - req.dst) = descriptor.src + k
    BY <1>2, <1>3
  <2>2. QED
    BY <2>1 DEF Moved
<1>10. memory[descriptor.src + k] = old[descriptor.src + k]
  BY <1>7, <1>8, <1>9 DEF Moved
<1>11. QED
  BY <1>4, <1>6, <1>10

\* A copying step leaves one address less to write and every other address as
\* it was.
LEMMA CopyStep ==
    ASSUME MoveInv, HwCopy \/ SwCopy
    PROVE  MoveInv'
<1> DEFINE k == IF GoingForward THEN index ELSE descriptor.size - 1 - index
<1>1. /\ phase \in {"hw", "sw_forward", "sw_backward"} /\ index < descriptor.size
      /\ index' = index + 1
      /\ UNCHANGED <<old, req, descriptor, rec, phase>>
  BY DEF HwCopy, SwCopy
<1>2. /\ memory \in [Addr -> Bytes] /\ old \in [Addr -> Bytes]
      /\ index \in Nat /\ rec.result \in {0, 1} /\ req \in Requests /\ descriptor \in Requests
  BY MemAssumption DEF MoveInv, MoveTypeOK, Contents
<1>3. /\ descriptor.dst \in Nat /\ descriptor.size \in Nat /\ descriptor.size <= MemSize
  BY <1>2, RequestFields, MemAssumption
<1>4. k \in Int
  BY <1>2, <1>3
<1>5. memory' = [memory EXCEPT ![descriptor.dst + k] = memory[descriptor.src + k]]
  <2>1. CASE HwCopy
    BY <2>1, <1>2 DEF HwCopy, CopyByte, Forward, Backward, GoingForward
  <2>2. CASE SwCopy
    BY <2>2 DEF SwCopy, CopyByte, Forward, Backward, GoingForward
  <2>3. QED
    BY <2>1, <2>2
<1>6. /\ descriptor.src + k \in Addr
      /\ descriptor.dst + k \in Addr
      /\ memory[descriptor.src + k] = old[descriptor.src + k]
      /\ Moved(req, descriptor.dst + k) = old[descriptor.src + k]
  BY <1>1, <1>4, SourceIntact
<1>7. GoingForward' = GoingForward
  BY <1>1 DEF GoingForward
<1>8. MoveTypeOK'
  BY <1>1, <1>2, <1>3, <1>5, <1>6, MemAssumption DEF MoveInv, MoveTypeOK, Contents
<1>9. CutInv'
  BY <1>1, <1>2, <1>3 DEF MoveInv, CutInv, TailLeft, HeadLeft
<1>10. PhaseInv'
  BY <1>1 DEF MoveInv, PhaseInv
<1>11. MemInv'
  <2>1. SUFFICES ASSUME NEW a \in Addr
                 PROVE  memory'[a] = IF Pending(a)' THEN old[a] ELSE Moved(req, a)
    BY <1>1 DEF MemInv, Moved
  <2>2. a \in Int
    BY MemAssumption DEF Addr
  <2>3. Pending(a)' <=> Pending(a) /\ a # descriptor.dst + k
    BY <1>1, <1>2, <1>3, <1>7, <2>2 DEF Pending
  <2>4. CASE a = descriptor.dst + k
    BY <2>3, <2>4, <1>2, <1>5, <1>6
  <2>5. CASE a # descriptor.dst + k
    <3>1. memory'[a] = memory[a]
      BY <2>5, <1>2, <1>5
    <3>2. memory[a] = IF Pending(a) THEN old[a] ELSE Moved(req, a)
      BY <1>1 DEF MoveInv, MemInv
    <3>3. QED
      BY <3>1, <3>2, <2>3, <2>5
  <2>6. QED
    BY <2>4, <2>5
<1>12. MoveCorrect' /\ FaultHidden'
  BY <1>1 DEF MoveCorrect, FaultHidden
<1>13. QED
  BY <1>8, <1>9, <1>10, <1>11, <1>12 DEF MoveInv

\* The descriptor update leaves exactly the part of the request the device has
\* not done.
LEMMA ContinueStep ==
    ASSUME MoveInv, ContinueInSoftware
    PROVE  MoveInv'
<1>1. /\ phase = "waiting" /\ descriptor = req
      /\ rec.bytes_completed = index /\ index < descriptor.size
      /\ index \in Nat /\ rec.result \in {0, 1} /\ req \in Requests
  BY MemAssumption DEF MoveInv, PhaseInv, MoveTypeOK, ContinueInSoftware
<1>2. /\ descriptor' = Continuation(req, rec) /\ phase' = KernelPhase(descriptor') /\ index' = 0
      /\ UNCHANGED <<memory, old, req, rec>>
  BY <1>1 DEF ContinueInSoftware
<1>3. /\ req.src \in Nat /\ req.dst \in Nat /\ req.size \in Nat
      /\ req.src + req.size <= MemSize /\ req.dst + req.size <= MemSize
      /\ req = [src |-> req.src, dst |-> req.dst, size |-> req.size]
  BY <1>1, RequestFields
<1>4. descriptor' = IF rec.result = 0
             THEN [src |-> req.src + index, dst |-> req.dst + index, size |-> req.size - index]
             ELSE [src |-> req.src, dst |-> req.dst, size |-> req.size - index]
  BY <1>1, <1>2, <1>3 DEF Continuation
<1>5. descriptor' \in Requests
  <2>1. CASE rec.result = 0
    BY <2>1, <1>1, <1>3, <1>4, MemAssumption DEF Requests, Addr
  <2>2. CASE rec.result # 0
    BY <2>2, <1>1, <1>3, <1>4, MemAssumption DEF Requests, Addr
  <2>3. QED
    BY <2>1, <2>2
<1>6. phase' \in {"sw_forward", "sw_backward", "sw_same"}
  BY <1>2, <1>5, KernelDirection
<1>7. MoveTypeOK'
  BY <1>2, <1>5, <1>6, MemAssumption DEF MoveInv, MoveTypeOK
<1>8. IF rec.result = 0 THEN ForwardSafe(req) ELSE BackwardSafe(req)
  BY <1>1 DEF MoveInv, PhaseInv
<1>9. CutInv'
  BY <1>1, <1>2, <1>3, <1>4, <1>8
  DEF CutInv, TailLeft, HeadLeft, ForwardSafe, BackwardSafe
<1>10. PhaseInv'
  BY <1>2, <1>6 DEF PhaseInv
<1>11. MemInv'
  <2>1. SUFFICES ASSUME NEW a \in Addr
                 PROVE  memory[a] = IF Pending(a)' THEN old[a] ELSE Moved(req, a)
    BY <1>2 DEF MemInv, Moved
  <2>2. a \in Int
    BY MemAssumption DEF Addr
  <2>3. memory[a] = IF Pending(a) THEN old[a] ELSE Moved(req, a)
    BY <1>1 DEF MoveInv, MemInv
  <2>4. Pending(a)' <=> descriptor'.dst <= a /\ a < descriptor'.dst + descriptor'.size
    BY <1>2, <1>5, <2>2, RequestFields DEF Pending
  <2>5. Pending(a) <=> descriptor'.dst <= a /\ a < descriptor'.dst + descriptor'.size
    BY <1>1, <1>3, <1>4, <2>2 DEF Pending, GoingForward
  <2>6. QED
    BY <2>3, <2>4, <2>5
<1>12. MoveCorrect' /\ FaultHidden'
  BY <1>6 DEF MoveCorrect, FaultHidden
<1>13. QED
  BY <1>7, <1>9, <1>10, <1>11, <1>12 DEF MoveInv

\* The job starts on the device or in software.
LEMMA StartStep ==
    ASSUME MoveInv, HwStart \/ SwStart
    PROVE  MoveInv'
<1>1. /\ phase = "submit" /\ descriptor = req /\ index = 0 /\ req \in Requests
      /\ UNCHANGED <<memory, old, req, descriptor, index>>
      /\ rec \in [status : Statuses, result : {0, 1}, bytes_completed : Nat]
  BY DEF MoveInv, PhaseInv, MoveTypeOK, HwStart, SwStart
<1>2. /\ phase' \in {"hw", "sw_forward", "sw_backward", "sw_same"}
      /\ phase' # "hw" => phase' = KernelPhase(descriptor)
      /\ phase' = "hw" => IF rec'.result = 0 THEN ForwardSafe(req) ELSE BackwardSafe(req)
      /\ rec' \in [status : Statuses, result : {0, 1}, bytes_completed : Nat]
  BY <1>1, KernelDirection DEF HwStart, SwStart
<1>3. MoveTypeOK'
  BY <1>1, <1>2 DEF MoveInv, MoveTypeOK
<1>4. CutInv'
  BY <1>1 DEF MoveInv, CutInv, TailLeft, HeadLeft
<1>5. PhaseInv'
  BY <1>1, <1>2 DEF PhaseInv
<1>6. MemInv'
  <2>1. \A a \in Addr : Pending(a)' <=> Pending(a)
    BY <1>1, RequestFields, MemAssumption DEF Pending, Addr
  <2>2. QED
    BY <1>1, <2>1 DEF MoveInv, MemInv, Moved
<1>7. MoveCorrect' /\ FaultHidden'
  BY <1>2 DEF MoveCorrect, FaultHidden
<1>8. QED
  BY <1>3, <1>4, <1>5, <1>6, <1>7 DEF MoveInv

\* The device writes the completion record.
LEMMA RecordStep ==
    ASSUME MoveInv, HwStop \/ HwDone
    PROVE  MoveInv'
<1>1. /\ phase = "hw" /\ phase' = "waiting" /\ descriptor = req
      /\ UNCHANGED <<memory, old, req, descriptor, index>>
      /\ rec \in [status : Statuses, result : {0, 1}, bytes_completed : Nat]
      /\ index \in Nat
  BY MemAssumption DEF MoveInv, PhaseInv, MoveTypeOK, HwStop, HwDone
<1>2. /\ rec' \in [status : Statuses, result : {0, 1}, bytes_completed : Nat]
      /\ rec'.result = rec.result
      /\ IF IsPageFault(rec'.status)
         THEN rec'.bytes_completed = index /\ index < descriptor.size
         ELSE rec'.status = Success /\ index = descriptor.size
  <2>1. CASE HwStop
    <3>1. PICK rw \in {0, 128} :
             rec' = [rec EXCEPT !.status = PageFault + rw, !.bytes_completed = index]
      BY <2>1 DEF HwStop
    <3>2. PageFault + rw \in Statuses /\ IsPageFault(PageFault + rw)
      BY <3>1 DEF Statuses, PageFault, IsPageFault
    <3>3. rec'.status = PageFault + rw /\ rec'.bytes_completed = index
      BY <3>1, <1>1
    <3>4. QED
      BY <2>1, <3>1, <3>2, <3>3, <1>1 DEF HwStop
  <2>2. CASE HwDone
    <3>1. Success \in Statuses /\ ~IsPageFault(Success)
      BY DEF Statuses, Success, PageFault, IsPageFault
    <3>2. rec' = [rec EXCEPT !.status = Success, !.bytes_completed = index]
      BY <2>2 DEF HwDone
    <3>3. rec'.status = Success
      BY <3>2, <1>1
    <3>4. QED
      BY <2>2, <3>1, <3>2, <3>3, <1>1 DEF HwDone
  <2>3. QED
    BY <2>1, <2>2
<1>3. MoveTypeOK'
  BY <1>1, <1>2 DEF MoveInv, MoveTypeOK
<1>4. CutInv'
  BY <1>1 DEF MoveInv, CutInv, TailLeft, HeadLeft
<1>5. PhaseInv'
  BY <1>1, <1>2 DEF MoveInv, PhaseInv
<1>6. MemInv'
  <2>1. \A a \in Addr : Pending(a)' <=> Pending(a)
    BY <1>1, <1>2 DEF Pending, GoingForward
  <2>2. QED
    BY <1>1, <2>1 DEF MoveInv, MemInv, Moved
<1>7. MoveCorrect' /\ FaultHidden'
  BY <1>1 DEF MoveCorrect, FaultHidden
<1>8. QED
  BY <1>3, <1>4, <1>5, <1>6, <1>7 DEF MoveInv

\* The job ends with nothing left to write.
LEMMA EndStep ==
    ASSUME MoveInv, SwDone \/ WaitReturns
    PROVE  MoveInv'
<1>1. /\ phase \in {"waiting", "sw_forward", "sw_backward", "sw_same"} /\ phase' = "done"
      /\ UNCHANGED <<memory, old, req, descriptor, index>>
      /\ rec \in [status : Statuses, result : {0, 1}, bytes_completed : Nat]
      /\ req \in Requests /\ descriptor \in Requests
  BY DEF MoveInv, MoveTypeOK, SwDone, WaitReturns
<1>2. index = descriptor.size \/ phase = "sw_same"
  BY DEF MoveInv, PhaseInv, SwDone, WaitReturns
<1>3. rec' \in [status : Statuses, result : {0, 1}, bytes_completed : Nat]
  <2>1. CASE SwDone
    <3>1. rec.bytes_completed + rec.bytes_completed \in Nat /\ Success \in Statuses
      BY <1>1 DEF Statuses
    <3>2. QED
      BY <2>1, <3>1, <1>1 DEF SwDone
  <2>2. CASE WaitReturns
    BY <2>2, <1>1 DEF WaitReturns
  <2>3. QED
    BY <2>1, <2>2
<1>4. MoveTypeOK'
  BY <1>1, <1>3 DEF MoveInv, MoveTypeOK
<1>5. CutInv'
  BY <1>1 DEF MoveInv, CutInv, TailLeft, HeadLeft
<1>6. PhaseInv' /\ MemInv'
  BY <1>1 DEF PhaseInv, MemInv
<1>7. MoveCorrect'
  <2>1. SUFFICES ASSUME NEW a \in Addr
                 PROVE  memory[a] = Moved(req, a)
    BY <1>1 DEF MoveCorrect, Moved
  <2>2. a \in Int
    BY MemAssumption DEF Addr
  <2>3. memory[a] = IF Pending(a) THEN old[a] ELSE Moved(req, a)
    BY <1>1 DEF MoveInv, MemInv
  <2>4. /\ descriptor.src \in Nat /\ descriptor.dst \in Nat /\ descriptor.size \in Nat
        /\ req.src \in Nat /\ req.dst \in Nat /\ req.size \in Nat
    BY <1>1, RequestFields
  <2>5. CASE index = descriptor.size
    BY <2>2, <2>3, <2>4, <2>5 DEF Pending
  <2>6. CASE phase = "sw_same"
    <3>1. descriptor.src = descriptor.dst
      BY <2>6, <1>1, KernelDirection DEF MoveInv, PhaseInv
    <3>2. req.src = req.dst
      BY <3>1, <2>4 DEF MoveInv, CutInv, TailLeft, HeadLeft
    <3>3. req.src + (a - req.dst) = a
      BY <3>2, <2>2, <2>4
    <3>4. QED
      BY <3>3, <2>3 DEF Moved
  <2>7. QED
    BY <1>2, <2>5, <2>6
<1>8. FaultHidden'
  <2>1. CASE SwDone
    BY <2>1, <1>1 DEF SwDone, FaultHidden
  <2>2. CASE WaitReturns
    BY <2>2, <1>1 DEF WaitReturns, FaultHidden, MoveInv, PhaseInv
  <2>3. QED
    BY <2>1, <2>2
<1>9. QED
  BY <1>4, <1>5, <1>6, <1>7, <1>8 DEF MoveInv

LEMMA MoveInvInit == MoveInit => MoveInv
<1> SUFFICES ASSUME MoveInit PROVE MoveInv
  OBVIOUS
<1>1. /\ memory \in Contents /\ old = memory /\ req \in Requests /\ descriptor = req
      /\ phase = "submit" /\ index = 0
      /\ rec = [status |-> Processing, result |-> 0, bytes_completed |-> 0]
  BY DEF MoveInit
<1>2. MoveTypeOK
  BY <1>1, MemAssumption DEF MoveTypeOK, Statuses
<1>3. CutInv
  <2>1. ForwardSafe(req) \/ BackwardSafe(req)
    BY <1>1, SomeDirection
  <2>2. req.src \in Nat /\ req.dst \in Nat /\ req.size \in Nat
    BY <1>1, RequestFields
  <2>3. QED
    BY <1>1, <2>1, <2>2 DEF CutInv, TailLeft, HeadLeft
<1>4. PhaseInv /\ MoveCorrect /\ FaultHidden
  BY <1>1 DEF PhaseInv, MoveCorrect, FaultHidden
<1>5. MemInv
  <2>1. SUFFICES ASSUME NEW a \in Addr
                 PROVE  memory[a] = IF Pending(a) THEN old[a] ELSE Moved(req, a)
    BY DEF MemInv
  <2>2. req.dst \in Nat /\ req.size \in Nat /\ a \in Int
    BY <1>1, RequestFields, MemAssumption DEF Addr
  <2>3. ~Pending(a) => a \notin req.dst .. req.dst + req.size - 1
    BY <1>1, <2>2 DEF Pending, GoingForward
  <2>4. QED
    BY <1>1, <2>3 DEF Moved
<1>6. QED
  BY <1>2, <1>3, <1>4, <1>5 DEF MoveInv

\* IInv is inductive, one step per group of actions of Next.
THEOREM MoveInvariance == MoveSpec => []MoveInv
<1>1. MoveInv /\ [MoveNext]_moveVars => MoveInv'
  <2> SUFFICES ASSUME MoveInv, [MoveNext]_moveVars PROVE MoveInv'
    OBVIOUS
  <2>1. CASE HwStart \/ SwStart
    BY <2>1, StartStep
  <2>2. CASE HwCopy \/ SwCopy
    BY <2>2, CopyStep
  <2>3. CASE HwStop \/ HwDone
    BY <2>3, RecordStep
  <2>4. CASE ContinueInSoftware
    BY <2>4, ContinueStep
  <2>5. CASE SwDone \/ WaitReturns
    BY <2>5, EndStep
  <2>6. CASE UNCHANGED moveVars
    BY <2>6 DEF moveVars, MoveInv, MoveTypeOK, CutInv, TailLeft, HeadLeft, PhaseInv, MemInv,
                Pending, GoingForward, MoveCorrect, Moved, FaultHidden
  <2>7. QED
    BY <2>1, <2>2, <2>3, <2>4, <2>5, <2>6 DEF MoveNext
<1>2. QED
  BY <1>1, MoveInvInit, PTL DEF MoveSpec

\* The descriptor stays a request within memory and the record well formed,
\* wherever the fault cuts the move.
THEOREM MoveTypeCorrect == MoveSpec => []MoveTypeOK
BY MoveInvariance, PTL DEF MoveInv

\* automatic::wait after a page fault at any byte of a move in any direction
\* leaves the destination equal to the original source and the rest of memory
\* untouched.
THEOREM MoveIsCorrect == MoveSpec => []MoveCorrect
BY MoveInvariance, PTL DEF MoveInv

\* A job on the automatic path never ends with a page fault status.
THEOREM FaultNeverSeen == MoveSpec => []FaultHidden
BY MoveInvariance, PTL DEF MoveInv
=============================================================================
