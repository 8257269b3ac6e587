----------------------------- MODULE Avx512Move -----------------------------
(***************************************************************************)
(* The AVX-512 version of Memory Move.  copy_avx512 aligns the destination  *)
(* and then, unless the source happens to be aligned as well, builds every *)
(* destination vector from two aligned source vectors.  How depends on the *)
(* distance between the alignments, and each way has its own tables, masks *)
(* and thresholds.                                                         *)
(*                                                                         *)
(* A vector is a function from byte positions to source addresses, Zero    *)
(* for a byte the instruction cleared: what is copied where, not the data. *)
(***************************************************************************)
EXTENDS KernelCall

CONSTANT Caches   \* CPUID leaf 4 by subleaf, see dml_core_get_cache_size

VARIABLES
    s, d,     \* src and dst
    size,     \* transfer_size
    left,     \* length_512u
    zmm0,     \* the source vector kept from one turn to the next
    filled    \* end of the part of the destination stored without a gap

moveVars == <<s, d, size, left, zmm0, filled>>

Zero == -1
Positions == 0 .. 63
Vector == [Positions -> Int]
ZeroVector == [i \in Positions |-> Zero]

-----------------------------------------------------------------------------
(* Instructions. *)

\* _mm512_load_si512, _mm512_loadu_si512
Load(a) == [i \in Positions |-> a + i]

\* _mm512_maskz_loadu_epi8 with a mask of the bytes from first on
LoadFrom(first, a) == [i \in Positions |-> IF i < first THEN Zero ELSE a + i]

\* _mm512_alignr_epi32
alignr_epi32(a, b, count) ==
    [i \in Positions |-> IF i + 4 * count < 64 THEN b[i + 4 * count] ELSE a[i + 4 * count - 64]]

\* _mm512_permutex2var_epi16
permutex2var_epi16(a, idx, b) ==
    [i \in Positions |->
        LET from == 2 * idx[i \div 2] + (i % 2) IN IF from < 64 THEN a[from] ELSE b[from - 64]]

\* _mm512_bsrli_epi128, _mm512_bslli_epi128: shifts within the four lanes
bsrli_epi128(a, count) ==
    [i \in Positions |-> IF (i % 16) + count < 16 THEN a[i + count] ELSE Zero]
bslli_epi128(a, count) ==
    [i \in Positions |-> IF i % 16 >= count THEN a[i - count] ELSE Zero]

\* _mm512_mask_mov_epi8
mask_mov_epi8(a, mask, b) == [i \in Positions |-> IF i \in mask THEN b[i] ELSE a[i]]

-----------------------------------------------------------------------------
(* Helpers of copy_avx512. *)

\* Bug: every table is that of two bytes more.
PermutexOneOff(bytes) == [w \in 0 .. 31 |-> w + bytes \div 2 + 1]

\* permutex_idx_2u .. permutex_idx_62u by the number of bytes they shift
permutex_idx(bytes) == [w \in 0 .. 31 |-> w + bytes \div 2]

\* permutex_idx_pptr
permutex_idx_pptr == [j \in 0 .. 30 |-> permutex_idx(2 * (j + 1))]

\* The switches over the constant shifts: other values give zeros.
dmlc_own_mm512_bsrli_epi128(a, shift) ==
    IF shift \in 1 .. 15 THEN bsrli_epi128(a, shift) ELSE ZeroVector
dmlc_own_mm512_bslli_epi128(a, shift) ==
    IF shift \in 1 .. 15 THEN bslli_epi128(a, shift) ELSE ZeroVector
dmlc_own_mm512_alignr_epi8(a, b, shift) ==
    IF shift = 0 THEN b
    ELSE IF shift \in 4 .. 60 /\ shift % 4 = 0 THEN alignr_epi32(a, b, shift \div 4)
    ELSE ZeroVector

\* Bytes copied one by one or as 8-byte words: address -> source address.
Copied(from, to, count) == [a \in Bytes(to, count) |-> from + a - to]

\* dmlc_own_px_copy_8u_unrolled: a head up to the alignment of the destination,
\* then whole words and the rest of bytes.  The words are those of the remaining
\* length, with the aligned source in fours.
dmlc_own_px_copy_8u_unrolled(from, to, length) ==
    LET align_dst == 64 - (to % 64)
        align_src == 64 - (from % 64)
        head == IF align_dst = 64 THEN 0 ELSE IF length < align_dst THEN length ELSE align_dst
        rest == length - head
        words == 8 * (rest \div 8)
        blocks == IF align_dst = align_src THEN 32 * (rest \div 32) ELSE words
    IN  IF length < align_dst /\ align_dst < 64
        THEN Copied(from, to, length)
        ELSE [a \in Bytes(to, head) \cup Bytes(to + head, blocks)
                      \cup Bytes(to + head + blocks, words - blocks)
                      \cup Bytes(to + head + words, rest - words) |-> from + a - to]

\* The largest data or unified cache CPUID lists; type 31 ends the list.  The
\* product takes every count one too large; caches for which it wraps at 32 bits
\* are left out.
dml_core_get_cache_size ==
    LET ends == {i \in DOMAIN Caches : Caches[i].type = 31}
        last == IF ends = {} THEN Len(Caches) ELSE Min(ends) - 1
    IN  Max({0} \cup {((Caches[i].ways + 2) * (Caches[i].partitions + 2)
                         * (Caches[i].line + 1) * (Caches[i].sets + 1)) :
                       i \in {j \in 1 .. last : Caches[j].type # 2}})

-----------------------------------------------------------------------------
MoveInit ==
    /\ s = 0 /\ d = 0 /\ size = 0 /\ left = 0 /\ zmm0 = ZeroVector /\ filled = 0

\* Stores that continue the filled part of the destination move its end.
Fill(st) ==
    filled' = IF DOMAIN st = Bytes(filled, Cardinality(DOMAIN st))
              THEN filled + Cardinality(DOMAIN st) ELSE filled

\* A call of the byte-wise copy for all that is left.
PxCopy(count, next) ==
    LET st == dmlc_own_px_copy_8u_unrolled(s, d, count)
    IN  /\ pc' = next /\ Touch(Range(st), st, {}) /\ Fill(st)
        /\ s' = s + count /\ d' = d + count
        /\ size' = size - count
        /\ UNCHANGED <<left, zmm0>>

\* dml_avx512_mem_move: ranges that do not overlap are copied.
EnterMove ==
    /\ Enter("mem_move", "avx512")
    /\ pc' = IF call.src + call.size <= call.dst \/ call.src >= call.dst + call.size
             THEN "copy" ELSE "overlap"
    /\ s' = call.src /\ d' = call.dst /\ size' = call.size /\ filled' = call.dst
    /\ UNCHANGED <<left, zmm0>>
    /\ Touch({}, NoStores, {})

\* dml_ref_mem_move, as the kernel of CPUs without AVX-512 and as the fallback;
\* module MemMove has its steps.
RefMove ==
    /\ pc = "overlap" \/ Enter("mem_move", "ref")
    /\ pc' = "done"
    /\ s' = call.src /\ d' = call.dst /\ size' = 0 /\ filled' = call.dst + call.size
    /\ UNCHANGED <<left, zmm0>>
    /\ LET st == Copied(call.src, call.dst, call.size) IN Touch(Range(st), st, {})

\* The entry of copy_avx512: small copies and copies larger than the cache.
TooLarge ==
    /\ size > 32 * Kilobyte
    /\ dml_core_get_cache_size > 0 /\ size > dml_core_get_cache_size

CopyBySize ==
    /\ pc = "copy"
    /\ size < Kilobyte \/ TooLarge
    /\ PxCopy(size, "done")

align_dst == 64 - (d % 64)
align_src == 64 - (s % 64)

\* The destination is not aligned: its head is copied byte-wise.
CopyHead ==
    /\ pc = "copy" /\ size >= Kilobyte /\ ~TooLarge /\ align_dst < 64
    /\ IF size < 4 * Kilobyte THEN PxCopy(size, "done") ELSE PxCopy(align_dst, "head")

\* Bytes between the source and the source vector it lies in.  (The code has it
\* from the two alignments before the head was copied, which is the same.)
Shift == s % 64

\* The masked load that starts a loop of shifted vectors; src then points to
\* the next source vector.
StartShifted(loop) ==
    /\ pc' = loop
    /\ zmm0' = LoadFrom(Shift, s - Shift)
    /\ left' = size \div 64
    /\ s' = s - Shift + 64
    /\ Touch(Bytes(s, 64 - Shift), NoStores, {})
    /\ UNCHANGED <<d, size, filled>>

StartPlain ==
    /\ pc' = "plain" /\ left' = size \div 64
    /\ Touch({}, NoStores, {})
    /\ UNCHANGED <<s, d, size, zmm0, filled>>

\* After the head: which loop, by the distance of the alignments.  An odd
\* distance needs a lane shift, for which the copy has to be long enough.
ChooseAfterHead ==
    /\ pc = "head"
    /\ \/ Shift % 16 = 0 /\ StartPlain
       \/ Shift % 16 # 0 /\ Shift % 4 = 0 /\ StartShifted("alignr")
       \/ Shift % 4 = 2 /\ StartShifted("permutex")
       \/ /\ Shift % 2 = 1 /\ (Shift < 16 \/ Shift > 48) /\ size >= 16 * Kilobyte
          /\ StartShifted(IF Shift < 16 THEN "odd_low" ELSE "odd_high")
       \/ /\ Shift % 2 = 1 /\ (Shift \in 16 .. 48 \/ size < 16 * Kilobyte)
          /\ PxCopy(size, "done")

\* The same for a destination that was aligned from the start: other thresholds,
\* and a source that is aligned too is copied byte-wise in a range of sizes.
ChooseAligned ==
    /\ pc = "copy" /\ size >= Kilobyte /\ ~TooLarge /\ align_dst = 64
    /\ \/ /\ align_src < 64 /\ (size < 32 * Kilobyte \/ (Shift % 2 = 1 /\ Shift \in 16 .. 48))
          /\ PxCopy(size, "done")
       \/ align_src < 64 /\ size >= 32 * Kilobyte /\ Shift % 4 = 0 /\ StartShifted("alignr")
       \/ align_src < 64 /\ size >= 32 * Kilobyte /\ Shift % 4 = 2 /\ StartShifted("permutex")
       \/ /\ align_src < 64 /\ size >= 32 * Kilobyte /\ Shift % 2 = 1 /\ Shift < 16
          /\ StartShifted("odd_low")
       \/ /\ align_src < 64 /\ size >= 32 * Kilobyte /\ Shift % 2 = 1 /\ Shift > 48
          /\ StartShifted("odd_high")
       \/ /\ align_src = 64 /\ 12 * Kilobyte < size /\ size < 32 * Kilobyte
          /\ PxCopy(size, "done")
       \/ align_src = 64 /\ ~(12 * Kilobyte < size /\ size < 32 * Kilobyte) /\ StartPlain

-----------------------------------------------------------------------------
(* The loops.  zmm0 starts at the aligned address before the source; the     *)
(* distance is found again from where the destination is.                   *)

distance == (call.src + (d - call.dst)) % 64

\* A destination vector from the source vectors a and b that follows it.
Alignr(a, b, shift) == dmlc_own_mm512_alignr_epi8(b, a, shift)
Permutex(a, b, shift) == permutex2var_epi16(a, permutex_idx_pptr[(shift - 2) \div 2], b)
OddLow(a, b, shift) ==
    LET lower == dmlc_own_mm512_bsrli_epi128(a, shift)
        higher == permutex2var_epi16(a, permutex_idx_pptr[(shift - 1) \div 2], b)
    IN  mask_mov_epi8(dmlc_own_mm512_bslli_epi128(higher, 1),
                      {i \in Positions : i % 16 = 0}, lower)
OddHigh(a, b, shift) ==
    LET lower == permutex2var_epi16(a, permutex_idx_pptr[(shift - 3) \div 2], b)
        higher == dmlc_own_mm512_bslli_epi128(b, 64 - shift)
    IN  mask_mov_epi8(higher, {i \in Positions : i % 16 # 15},
                      dmlc_own_mm512_bsrli_epi128(lower, 1))

Shifted(loop, a, b) ==
    CASE loop = "alignr"   -> Alignr(a, b, distance)
      [] loop = "permutex" -> Permutex(a, b, distance)
      [] loop = "odd_low"  -> OddLow(a, b, distance)
      [] loop = "odd_high" -> OddHigh(a, b, distance)

Loops == {"alignr", "permutex", "odd_low", "odd_high"}

\* Four vectors stored from dst on.
Stored(v) == [a \in Bytes(d, 256) |-> v[(a - d) \div 64][(a - d) % 64]]

\* Bug: the loop also takes the last four vectors.
ShiftedTurnTooFar ==
    /\ pc \in Loops /\ left > 3
    /\ LET a == [k \in 0 .. 4 |-> IF k = 0 THEN zmm0 ELSE Load(s + 64 * (k - 1))]
           st == Stored([k \in 0 .. 3 |-> Shifted(pc, a[k], a[k + 1])])
       IN  /\ zmm0' = a[4]
           /\ Touch(Bytes(s, 256), st, {s, d}) /\ Fill(st)
    /\ s' = s + 256 /\ d' = d + 256 /\ left' = left - 4
    /\ UNCHANGED <<pc, size>>

\* One turn: four aligned loads, four aligned stores.
ShiftedTurn ==
    /\ pc \in Loops /\ left > 4
    /\ LET a == [k \in 0 .. 4 |-> IF k = 0 THEN zmm0 ELSE Load(s + 64 * (k - 1))]
           st == Stored([k \in 0 .. 3 |-> Shifted(pc, a[k], a[k + 1])])
       IN  /\ zmm0' = a[4]
           /\ Touch(Bytes(s, 256), st, {s, d}) /\ Fill(st)
    /\ s' = s + 256 /\ d' = d + 256 /\ left' = left - 4
    /\ UNCHANGED <<pc, size>>

\* The loops after an unaligned head and, once more in the code, those for a
\* destination that was aligned.
ShiftedLoopAfterHead == pc \in Loops /\ call.dst % 64 # 0 /\ ShiftedTurn
ShiftedLoopAligned == pc \in Loops /\ call.dst % 64 = 0 /\ ShiftedTurn

\* The loop goes back from the next source vector to the next source byte.
ShiftedEnd ==
    /\ pc \in Loops /\ left <= 4
    /\ pc' = "single" /\ s' = s - (64 - distance)
    /\ Touch({}, NoStores, {})
    /\ UNCHANGED <<d, size, left, zmm0, filled>>

\* The loop without a shift; its loads are aligned ones if the source is.
PlainLoop ==
    /\ pc = "plain" /\ left > 3
    /\ LET st == Stored([k \in 0 .. 3 |-> Load(s + 64 * k)])
       IN  Touch(Bytes(s, 256), st, {d} \cup IF call.dst % 64 = 0 THEN {s} ELSE {}) /\ Fill(st)
    /\ s' = s + 256 /\ d' = d + 256 /\ left' = left - 4
    /\ UNCHANGED <<pc, size, zmm0>>

PlainEnd ==
    /\ pc = "plain" /\ left <= 3 /\ pc' = "single"
    /\ Touch({}, NoStores, {})
    /\ UNCHANGED moveVars

\* The remaining vectors, then the tail.
SingleVector ==
    /\ pc = "single" /\ left > 0
    /\ LET st == [a \in Bytes(d, 64) |-> Load(s)[a - d]]
       IN  Touch(Bytes(s, 64), st, {d}) /\ Fill(st)
    /\ s' = s + 64 /\ d' = d + 64 /\ left' = left - 1
    /\ UNCHANGED <<pc, size, zmm0>>

MoveTail ==
    /\ pc = "single" /\ left = 0
    /\ PxCopy(size % 64, "done")

MoveNext ==
    \/ EnterMove \/ RefMove \/ CopyBySize \/ CopyHead \/ ChooseAfterHead \/ ChooseAligned
    \/ ShiftedLoopAfterHead \/ ShiftedLoopAligned \/ ShiftedEnd \/ PlainLoop \/ PlainEnd \/ SingleVector \/ MoveTail

-----------------------------------------------------------------------------
IsMove == call.op = "mem_move" /\ pc # "call"

\* Whatever the alignments and the loop, each store puts the source byte of the
\* same place into the destination, and nothing outside of it; when the copy ends
\* no byte has been left out.  The vectorised copy, which goes forward in large
\* steps, never runs on ranges that overlap.
MoveIsCopy ==
    IsMove =>
        /\ \A a \in DOMAIN stores :
              /\ a \in Bytes(call.dst, call.size)
              /\ stores[a] = call.src + a - call.dst
        /\ pc = "done" => filled = call.dst + call.size
        /\ pc \notin {"overlap", "done"} =>
              Bytes(call.src, call.size) \cap Bytes(call.dst, call.size) = {}

\* The vectors of copy_avx512 do not reach across the ends of the source, and
\* the instructions that fault on an unaligned address do not get one.
MoveWithinSource ==
    IsMove =>
        /\ reads \subseteq Bytes(call.src, call.size)
        /\ \A a \in aligned : a % 64 = 0
=============================================================================
