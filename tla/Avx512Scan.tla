----------------------------- MODULE Avx512Scan -----------------------------
(***************************************************************************)
(* The AVX-512 versions of Fill, Compare and Compare Pattern, which walk   *)
(* one buffer in vectors with masked ends, and the cache line loops of      *)
(* Cache Flush.                                                            *)
(*                                                                         *)
(* A byte of the pattern is its index; the contents a comparison meets are *)
(* the set call.differ of offsets at which the operands differ.            *)
(***************************************************************************)
EXTENDS KernelCall

VARIABLES
    at,        \* offset of the next vector, or the next cache line
    phase,     \* index of the pattern byte at the start of a vector
    covered,   \* end of the part of the buffer stored without a gap
    result,    \* offset and result code of a comparison
    flushed    \* cache lines flushed or written back

scanVars == <<at, phase, covered, result, flushed>>

Equal == <<0, 0>>
Line(a) == a \div 64

ScanInit == at = 0 /\ phase = 0 /\ covered = 0 /\ result = Equal /\ flushed = {}

-----------------------------------------------------------------------------
(* Fill *)

\* Bytes of the vector of repeated patterns whose first byte has index ph,
\* stored at the addresses from .. from + count - 1.
Pattern(ph, from, count) == [a \in Bytes(from, count) |-> (ph + a - from) % 8]

StorePattern(ph, from, count, al) ==
    /\ Touch({}, Pattern(ph, from, count), al)
    /\ covered' = IF covered = from - call.dst THEN covered + count ELSE covered

\* fill_small_avx512: the mask of the size in two halves of 32 bits.
FillSmall ==
    /\ Enter("fill", "avx512") /\ call.size < 64
    /\ pc' = "small"
    /\ StorePattern(0, call.dst, Min({call.size, 32}), {})
    /\ UNCHANGED <<at, phase, result, flushed>>

FillSmallHigh ==
    /\ pc = "small"
    /\ pc' = "done"
    /\ StorePattern(0, call.dst + 32, Max({0, call.size - 32}), {})
    /\ UNCHANGED <<at, phase, result, flushed>>

unaligned_bytes == call.dst % 64

\* Bug: the pattern is not rotated.
RotateNothing(bytes) == 0

\* Index of the first byte once the pattern has been rotated to the left.  For
\* multiples of 8 the code also shifts right by 64, which is undefined; as a
\* shift by 0 and as 0 alike it leaves the pattern as it is.
Rotate(bytes) == (8 - (bytes % 8)) % 8

\* fill_big_avx512: the part up to the first aligned address.
FillHead ==
    /\ Enter("fill", "avx512") /\ call.size >= 64
    /\ pc' = "fill"
    /\ IF unaligned_bytes = 0
       THEN at' = 0 /\ phase' = 0 /\ Touch({}, NoStores, {}) /\ UNCHANGED covered
       ELSE /\ at' = 64 - unaligned_bytes /\ phase' = Rotate(unaligned_bytes)
            /\ StorePattern(0, call.dst, 64 - unaligned_bytes, {})
    /\ UNCHANGED <<result, flushed>>

FillVector ==
    /\ pc = "fill" /\ at + 64 <= call.size
    /\ StorePattern(phase, call.dst + at, 64, {call.dst + at})
    /\ at' = at + 64
    /\ UNCHANGED <<pc, phase, result, flushed>>

FillTail ==
    /\ pc = "fill" /\ at + 64 > call.size
    /\ pc' = "done"
    /\ StorePattern(phase, call.dst + at, call.size - at, {})
    /\ UNCHANGED <<at, phase, result, flushed>>

\* dml_ref_fill_u64
RefFill ==
    /\ Enter("fill", "ref")
    /\ pc' = "done" /\ StorePattern(0, call.dst, call.size, {})
    /\ UNCHANGED <<at, phase, result, flushed>>

-----------------------------------------------------------------------------
(* Comparisons.  Both operands are read at the same offsets; reads are        *)
(* offsets here.                                                            *)

\* Offsets of a mask's first bit: _tzcnt.
Lowest(mask) == Min(mask)

Return(r) == pc' = "done" /\ result' = r /\ UNCHANGED at

\* dml_avx512_compare: whole vectors, then a masked one.  The offset has 32 bits.
CompareVector ==
    /\ pc = "compare" /\ (at + 64) % SizeRange <= call.size
    /\ LET mask == call.differ \cap Bytes(at, 64)
       IN  \/ mask # {} /\ Return(<<Lowest(mask), 1>>)
           \/ mask = {} /\ at' = (at + 64) % SizeRange /\ UNCHANGED <<pc, result>>
    /\ Touch(Bytes(at, 64), NoStores, {})
    /\ UNCHANGED <<phase, covered, flushed>>

CompareTail ==
    /\ pc = "compare" /\ (at + 64) % SizeRange > call.size
    /\ LET mask == call.differ \cap Bytes(at, call.size % 64)
       IN  Return(IF mask = {} THEN Equal ELSE <<Lowest(mask), 1>>)
    /\ Touch(Bytes(at, call.size % 64), NoStores, {})
    /\ UNCHANGED <<phase, covered, flushed>>

\* 8-byte chunks among the bytes from .. from + count - 1 that differ.
Chunks(from, count) == {8 * (o \div 8) : o \in call.differ \cap Bytes(from, count)}

\* dml_avx512_compare_pattern: eight chunks at a time, a masked vector for the
\* remaining chunks, then the bytes of the tail.
PatternVector ==
    /\ pc = "pattern" /\ at + 64 <= call.size
    /\ LET mask == Chunks(at, 64)
       IN  \/ mask # {} /\ Return(<<Lowest(mask), 1>>)
           \/ mask = {} /\ at' = at + 64 /\ UNCHANGED <<pc, result>>
    /\ Touch(Bytes(at, 64), NoStores, {})
    /\ UNCHANGED <<phase, covered, flushed>>

\* Bug: the offset of a difference in the last chunks counts chunks, not bytes.
PatternChunksUnscaled ==
    /\ pc = "pattern" /\ at + 64 > call.size
    /\ LET count == 8 * ((call.size \div 8) % 8)
           mask == Chunks(at, count)
       IN  /\ \/ mask # {} /\ Return(<<at + (Lowest(mask) - at) \div 8, 1>>)
              \/ mask = {} /\ pc' = "bytes" /\ at' = at + count /\ UNCHANGED result
           /\ Touch(Bytes(at, count), NoStores, {})
    /\ UNCHANGED <<phase, covered, flushed>>

PatternChunks ==
    /\ pc = "pattern" /\ at + 64 > call.size
    /\ LET count == 8 * ((call.size \div 8) % 8)
           mask == Chunks(at, count)
       IN  /\ \/ mask # {} /\ Return(<<Lowest(mask), 1>>)
              \/ mask = {} /\ pc' = "bytes" /\ at' = at + count /\ UNCHANGED result
           /\ Touch(Bytes(at, count), NoStores, {})
    /\ UNCHANGED <<phase, covered, flushed>>

PatternBytes ==
    /\ pc = "bytes"
    /\ LET tail == Bytes(call.size - (call.size % 8), call.size % 8)
           differing == call.differ \cap tail
       IN  /\ Return(IF differing = {} THEN Equal ELSE <<Lowest(differing), 1>>)
           /\ Touch(tail, NoStores, {})
    /\ UNCHANGED <<phase, covered, flushed>>

EnterCompare ==
    /\ Enter("compare", "avx512") \/ Enter("compare_pattern", "avx512")
    /\ pc' = IF call.op = "compare" THEN "compare" ELSE "pattern"
    /\ at' = 0
    /\ Touch({}, NoStores, {})
    /\ UNCHANGED <<phase, covered, result, flushed>>

\* dml_ref_compare: the first difference.
dml_ref_compare(differ) == IF differ = {} THEN Equal ELSE <<Min(differ), 1>>

\* dml_ref_compare_pattern: the first chunk or byte of the tail that differs.
dml_ref_compare_pattern(differ, count) ==
    IF differ = {} THEN Equal
    ELSE IF Min(differ) >= 8 * (count \div 8) THEN <<Min(differ), 1>>
    ELSE <<8 * (Min(differ) \div 8), 1>>

RefCompare ==
    /\ Enter("compare", "ref") \/ Enter("compare_pattern", "ref")
    /\ Return(IF call.op = "compare" THEN dml_ref_compare(call.differ)
              ELSE dml_ref_compare_pattern(call.differ, call.size))
    /\ Touch(Bytes(0, call.size), NoStores, {})
    /\ UNCHANGED <<phase, covered, flushed>>

-----------------------------------------------------------------------------
(* Cache Flush.  call.control is the flag that asks for invalidation.         *)

\* kernels::cache_flush chooses the table entry; a CPU without CLWB writes
\* nothing back.
EnterFlush ==
    /\ pc = "call" /\ call.op = "cache_flush"
    /\ LET entry == dispatcher(cpu)[IF call.control THEN "cache_flush" ELSE "cache_write_back"]
       IN  pc' = IF entry = "clwb_unsupported" THEN "done" ELSE "flush"
    /\ at' = 0
    /\ Touch({}, NoStores, {})
    /\ UNCHANGED <<phase, covered, result, flushed>>

\* Bug: the counter starts at one.
FlushFromSecond ==
    /\ pc = "flush"
    /\ IF at + 1 < call.size \div 64
       THEN at' = at + 1 /\ flushed' = flushed \cup {Line(call.dst + 64 * (at + 1))} /\ UNCHANGED pc
       ELSE pc' = "done" /\ UNCHANGED <<at, flushed>>
    /\ Touch({}, NoStores, {})
    /\ UNCHANGED <<phase, covered, result>>

\* dml_clflush, dml_clflushopt, dml_clwb: whole multiples of a line only.
FlushLine ==
    /\ pc = "flush"
    /\ IF at < call.size \div 64
       THEN at' = at + 1 /\ flushed' = flushed \cup {Line(call.dst + 64 * at)} /\ UNCHANGED pc
       ELSE pc' = "done" /\ UNCHANGED <<at, flushed>>
    /\ Touch({}, NoStores, {})
    /\ UNCHANGED <<phase, covered, result>>

ScanNext ==
    \/ FillSmall \/ FillSmallHigh \/ FillHead \/ FillVector \/ FillTail \/ RefFill
    \/ EnterCompare \/ CompareVector \/ CompareTail
    \/ PatternVector \/ PatternChunks \/ PatternBytes \/ RefCompare
    \/ EnterFlush \/ FlushLine

-----------------------------------------------------------------------------
\* Fill stores at each address of the destination, and at no other, the byte
\* of the pattern that belongs there, whatever the alignment; aligned stores are
\* aligned.
FillIsPattern ==
    call.op = "fill" /\ pc # "call" =>
        /\ \A a \in DOMAIN stores :
              a \in Bytes(call.dst, call.size) /\ stores[a] = (a - call.dst) % 8
        /\ \A a \in aligned : a % 64 = 0
        /\ pc = "done" => covered = call.size

\* Both versions of a comparison give the same offset and result, and do not
\* read behind the operands.
ComparisonsAgree ==
    call.op \in {"compare", "compare_pattern"} =>
        /\ reads \subseteq Bytes(0, call.size)
        /\ pc = "done" =>
              result = IF call.op = "compare" THEN dml_ref_compare(call.differ)
                       ELSE dml_ref_compare_pattern(call.differ, call.size)

\* Lines outside the range are left alone, and a range of whole lines is flushed
\* completely.  A range that is not made of whole lines is not.
FlushesRange ==
    call.op = "cache_flush" =>
        /\ flushed \subseteq {Line(a) : a \in Bytes(call.dst, call.size)}
        /\ (pc = "done" /\ (call.control \/ "clwb" \in cpu)
              /\ call.dst % 64 = 0 /\ call.size % 64 = 0)
              => flushed = {Line(a) : a \in Bytes(call.dst, call.size)}
=============================================================================
