---------------------------- MODULE KernelProofs ----------------------------
(***************************************************************************)
(* Proofs about the kernels of Kernels, for every call and every processor *)
(* that CallAssumption admits: buffers at any address and of any length a  *)
(* 32-bit size has, less a vector for Compare and half of them for CRC.    *)
(*                                                                         *)
(* A call runs one kernel, whose steps are told apart by their program     *)
(* counters (OwnPc). So the invariant is a conjunction of one invariant    *)
(* per kernel, each vacuous for the calls of the others, and a step needs  *)
(* to keep only the one of its own kernel. Each says how far the kernel    *)
(* has come (the bytes before `at`, `d` or `ptr` are done), how that meets *)
(* its vectors of 64 bytes, and that its last step touched only bytes it   *)
(* was asked to touch.                                                     *)
(***************************************************************************)
EXTENDS Kernels, TLAPS, FiniteSetTheorems, WellFoundedInduction

-----------------------------------------------------------------------------
(* Each kernel has its own program counters. *)

\* The program counters between call and return: fill, memory move and CRC.
FillPcs == {"small", "fill"}
MovePcs == {"copy", "overlap", "head", "plain", "single",
            "alignr", "permutex", "odd_low", "odd_high"}
CrcPcs == {"generate", "opt", "fold128", "fold8", "reduce16", "final", "last_two", "done128",
           "barrett", "long_le", "long_be", "fold512", "fold16", "long_end",
           "reference", "ref_only"}

\* A call is at one of its own kernel's program counters.
OwnPc ==
    /\ call \in Calls
    /\ call.op = "fill" => pc \in FillPcs \cup {"call", "done"}
    /\ call.op = "compare" => pc \in {"compare", "call", "done"}
    /\ call.op = "compare_pattern" => pc \in {"pattern", "bytes", "call", "done"}
    /\ call.op = "cache_flush" => pc \in {"flush", "call", "done"}
    /\ call.op = "mem_move" => pc \in MovePcs \cup {"call", "done"}
    /\ call.op = "crc" => pc \in CrcPcs \cup {"call", "done"}

\* The operations.
LEMMA CallOp ==
    ASSUME OwnPc
    PROVE  call.op \in {"mem_move", "fill", "compare", "compare_pattern", "cache_flush", "crc"}
  BY CallAssumption DEF OwnPc

\* The steps of the scanning kernels, by kernel.
FillStep == FillSmall \/ FillSmallHigh \/ FillHead \/ FillVector \/ FillTail \/ RefFill
CompareStep == CompareVector \/ CompareTail
PatternStep == PatternVector \/ PatternChunks \/ PatternBytes
FlushStep == EnterFlush \/ FlushLine

\* A step of the fill kernels is a step of a fill, and stays in the kernel.
LEMMA FillOwns ==
    ASSUME OwnPc, FillStep
    PROVE  OwnPc' /\ call' = call /\ call.op = "fill"
<1>1. call' = call /\ call.op = "fill" /\ pc' \in FillPcs \cup {"done"}
  <2>1. CASE FillSmall
    BY <2>1 DEF FillSmall, Enter, StorePattern, Touch, FillPcs
  <2>2. CASE FillSmallHigh
    BY <2>2, CallOp DEF OwnPc, FillSmallHigh, StorePattern, Touch, FillPcs, MovePcs, CrcPcs
  <2>3. CASE FillHead
    BY <2>3 DEF FillHead, Enter, StorePattern, Touch, FillPcs
  <2>4. CASE FillVector
    BY <2>4, CallOp DEF OwnPc, FillVector, StorePattern, Touch, FillPcs, MovePcs, CrcPcs
  <2>5. CASE FillTail
    BY <2>5, CallOp DEF OwnPc, FillTail, StorePattern, Touch, FillPcs, MovePcs, CrcPcs
  <2>6. CASE RefFill
    BY <2>6 DEF RefFill, Enter, StorePattern, Touch, FillPcs
  <2> QED  BY <2>1, <2>2, <2>3, <2>4, <2>5, <2>6 DEF FillStep
<1> QED  BY <1>1 DEF OwnPc

\* The same for the comparisons, with the two kernels told apart.
LEMMA CompareOwns ==
    ASSUME OwnPc, EnterCompare \/ RefCompare \/ CompareStep \/ PatternStep
    PROVE  /\ OwnPc' /\ call' = call /\ call.op \in {"compare", "compare_pattern"}
           /\ CompareStep => call.op = "compare"
           /\ PatternStep => call.op = "compare_pattern"
<1>1. CASE EnterCompare
  <2>1. /\ call' = call /\ call.op \in {"compare", "compare_pattern"} /\ pc = "call"
        /\ pc' = IF call.op = "compare" THEN "compare" ELSE "pattern"
    BY <1>1 DEF EnterCompare, Enter, Touch
  <2> QED  BY <2>1 DEF OwnPc, CompareStep, PatternStep, CompareVector, CompareTail,
              PatternVector, PatternChunks, PatternBytes
<1>2. CASE RefCompare
  <2>1. /\ call' = call /\ call.op \in {"compare", "compare_pattern"} /\ pc = "call"
        /\ pc' = "done"
    BY <1>2 DEF RefCompare, Enter, Touch, Return
  <2> QED  BY <2>1 DEF OwnPc, CompareStep, PatternStep, CompareVector, CompareTail,
              PatternVector, PatternChunks, PatternBytes
<1>3. CASE CompareStep
  <2>1. call' = call /\ pc = "compare" /\ pc' \in {"compare", "done"}
    BY <1>3 DEF CompareStep, CompareVector, CompareTail, Return, Touch
  <2>2. call.op = "compare"
    BY <2>1, CallOp DEF OwnPc, FillPcs, MovePcs, CrcPcs
  <2> QED  BY <2>1, <2>2 DEF OwnPc, PatternStep, PatternVector, PatternChunks, PatternBytes
<1>4. CASE PatternStep
  <2>1. /\ call' = call /\ pc \in {"pattern", "bytes"} /\ pc' \in {"pattern", "bytes", "done"}
    BY <1>4 DEF PatternStep, PatternVector, PatternChunks, PatternBytes, Return, Touch
  <2>2. call.op = "compare_pattern"
    BY <2>1, CallOp DEF OwnPc, FillPcs, MovePcs, CrcPcs
  <2> QED  BY <2>1, <2>2 DEF OwnPc, CompareStep, CompareVector, CompareTail
<1> QED  BY <1>1, <1>2, <1>3, <1>4

\* The same for a cache flush.
LEMMA FlushOwns ==
    ASSUME OwnPc, FlushStep
    PROVE  OwnPc' /\ call' = call /\ cpu' = cpu /\ call.op = "cache_flush"
<1>1. call' = call /\ cpu' = cpu /\ call.op = "cache_flush" /\ pc' \in {"flush", "done"}
  <2>1. CASE EnterFlush
    BY <2>1 DEF EnterFlush, Touch
  <2>2. CASE FlushLine
    BY <2>2, CallOp DEF OwnPc, FlushLine, Touch, FillPcs, MovePcs, CrcPcs
  <2> QED  BY <2>1, <2>2 DEF FlushStep
<1> QED  BY <1>1 DEF OwnPc

\* The same for a CRC.
LEMMA CrcOwns ==
    ASSUME OwnPc, CrcNext
    PROVE  OwnPc' /\ call' = call /\ call.op = "crc"
<1>1. CASE EnterCrc \/ RefCrc
  <2>1. call' = call /\ call.op = "crc" /\ pc' \in CrcPcs
    BY <1>1 DEF EnterCrc, RefCrc, Enter, ReadsNothing, Touch, CrcPcs
  <2> QED  BY <2>1 DEF OwnPc
<1>2. CASE ~(EnterCrc \/ RefCrc)
  <2> DEFINE Inside == call' = call /\ pc \in CrcPcs /\ pc' \in CrcPcs \cup {"done"}
  <2>1. Inside
    <3>1. CASE Generate
      BY <3>1 DEF Generate, ReadsNothing, Touch, CrcPcs
    <3>2. ASSUME NEW r \in BOOLEAN, OptStart(r)
          PROVE  Inside
      BY <3>2 DEF OptStart, Start256, Start32, Start16, Start4, Start1, Start0, Reads,
         ReadsNothing, Touch, CrcPcs
    <3>3. ASSUME NEW r \in BOOLEAN, OptFold(r)
          PROVE  Inside
      BY <3>3 DEF OptFold, Fold128, FoldEight, Reduce16, Reads, ReadsNothing, Touch, CrcPcs
    <3>4. ASSUME NEW r \in BOOLEAN, OptEnd(r)
          PROVE  Inside
      BY <3>4 DEF OptEnd, Final, LastTwo, Done128, Reduce, Reads, ReadsNothing, Touch, CrcPcs
    <3>5. ASSUME NEW r \in BOOLEAN, LongStep(r)
          PROVE  Inside
      BY <3>5 DEF LongStep, LongStart, LongFold512, LongCombine, LongFold16, LongTail, LongEnd,
         Reads, ReadsNothing, Touch, CrcPcs
    <3>6. CASE RefByte \/ RefEnd
      BY <3>6 DEF RefByte, RefEnd, Reads, ReadsNothing, Touch, CrcPcs
    <3> QED  BY <1>2, <3>1, <3>2, <3>3, <3>4, <3>5, <3>6 DEF CrcNext, own_CRC_8u_opt_k0,
                ReflectedStart, ReflectedShort, ReflectedFold, ReflectedEnd, OptStart,
                own_crc32_long_le_k0, own_crc32_long_be_k0
  <2>2. call.op = "crc"
    BY <2>1, CallOp DEF OwnPc, FillPcs, MovePcs, CrcPcs
  <2> QED  BY <2>1, <2>2 DEF OwnPc
<1> QED  BY <1>1, <1>2

\* The same for a memory move.
LEMMA MoveOwns ==
    ASSUME OwnPc, MoveNext
    PROVE  OwnPc' /\ call' = call /\ call.op = "mem_move"
<1>1. CASE EnterMove \/ (Enter("mem_move", "ref") /\ RefMove)
  <2>1. call' = call /\ call.op = "mem_move" /\ pc' \in MovePcs \cup {"done"}
    BY <1>1 DEF EnterMove, RefMove, Enter, Touch, MovePcs
  <2> QED  BY <2>1 DEF OwnPc
<1>2. CASE ~(EnterMove \/ (Enter("mem_move", "ref") /\ RefMove))
  <2> DEFINE Inside == call' = call /\ pc \in MovePcs /\ pc' \in MovePcs \cup {"done"}
  <2>1. Inside
    <3>1. CASE RefMove
      BY <1>2, <3>1 DEF RefMove, Touch, MovePcs
    <3>2. CASE CopyBySize \/ CopyHead \/ MoveTail
      BY <3>2 DEF CopyBySize, CopyHead, MoveTail, PxCopy, Touch, MovePcs
    <3>3. CASE ChooseAfterHead \/ ChooseAligned
      BY <3>3 DEF ChooseAfterHead, ChooseAligned, StartPlain, StartShifted, PxCopy, Touch, MovePcs
    <3>4. CASE ShiftedLoopAfterHead \/ ShiftedLoopAligned
      BY <3>4 DEF ShiftedLoopAfterHead, ShiftedLoopAligned, ShiftedTurn, Touch, Loops, MovePcs
    <3>5. CASE ShiftedEnd \/ PlainLoop \/ PlainEnd \/ SingleVector
      BY <3>5 DEF ShiftedEnd, PlainLoop, PlainEnd, SingleVector, Touch, Loops, MovePcs
    <3> QED  BY <1>2, <3>1, <3>2, <3>3, <3>4, <3>5 DEF MoveNext
  <2>2. call.op = "mem_move"
    BY <2>1, CallOp DEF OwnPc, FillPcs, MovePcs, CrcPcs
  <2> QED  BY <2>1, <2>2 DEF OwnPc
<1> QED  BY <1>1, <1>2

-----------------------------------------------------------------------------
(* Fill. *)

\* Fill: the last step stored the pattern, and only inside the buffer, with aligned
\* stores only at a line; the bytes before `at` are covered without a gap; in the vector
\* loop the destination is at a line and the pattern has the phase it has there.
FillInv ==
    call.op = "fill" =>
        /\ \A a \in DOMAIN stores :
              a \in Bytes(call.dst, call.size) /\ stores[a] = (a - call.dst) % 8
        /\ \A a \in aligned : a % 64 = 0
        /\ pc = "call" => covered = 0
        /\ pc = "small" => call.size < 64 /\ covered = IF call.size < 32 THEN call.size ELSE 32
        /\ pc = "fill" => /\ at \in 0 .. call.size /\ covered = at
                          /\ (call.dst + at) % 64 = 0 /\ phase = at % 8
        /\ pc = "done" => covered = call.size

\* Min and Max of two numbers.
LEMMA MinMaxOfTwo ==
    ASSUME NEW x \in Int, NEW y \in Int
    PROVE  Min({x, y}) = (IF x < y THEN x ELSE y) /\ Max({x, y}) = (IF x < y THEN y ELSE x)
<1>1. Min({x, y}) \in {x, y} /\ \A z \in {x, y} : Min({x, y}) <= z
  <2>1. \E m \in {x, y} : \A z \in {x, y} : m <= z
    OBVIOUS
  <2> QED  BY <2>1, Zenon DEF Min
<1>2. Max({x, y}) \in {x, y} /\ \A z \in {x, y} : Max({x, y}) >= z
  <2>1. \E m \in {x, y} : \A z \in {x, y} : m >= z
    OBVIOUS
  <2> QED  BY <2>1, Zenon DEF Max
<1> DEFINE m == Min({x, y})
           n == Max({x, y})
<1>3. m \in {x, y} /\ m <= x /\ m <= y
  BY <1>1
<1>4. n \in {x, y} /\ n >= x /\ n >= y
  BY <1>2
<1> HIDE DEF m, n
<1>5. m = (IF x < y THEN x ELSE y)
  BY <1>3
<1>6. n = (IF x < y THEN y ELSE x)
  BY <1>4
<1> QED  BY <1>5, <1>6 DEF m, n

\* A vector further, the place in a line and in a pattern is the same.
LEMMA NextVector ==
    ASSUME NEW x \in Int
    PROVE  (x + 64) % 64 = x % 64 /\ (x + 64) % 8 = x % 8
  OBVIOUS

\* What a store of the pattern does, when the index of its first byte is right.
LEMMA StorePatternRight ==
    ASSUME NEW ph \in Nat, NEW from \in Nat, NEW count \in Nat, NEW al,
           call.dst \in Nat, call.size \in Nat, call' = call,
           from >= call.dst, from + count <= call.dst + call.size,
           ph % 8 = (from - call.dst) % 8,
           StorePattern(ph, from, count, al)
    PROVE  /\ \A a \in DOMAIN stores' :
                 a \in Bytes(call.dst, call.size) /\ stores'[a] = (a - call.dst) % 8
           /\ aligned' = al
<1>1. stores' = Pattern(ph, from, count) /\ aligned' = al
  BY DEF StorePattern, Touch
<1>2. ASSUME NEW a \in Bytes(from, count)
      PROVE  a \in Bytes(call.dst, call.size) /\ (ph + a - from) % 8 = (a - call.dst) % 8
  BY DEF Bytes
<1> QED  BY <1>1, <1>2 DEF Pattern


\* One step of a fill keeps it.
LEMMA FillKeeps ==
    ASSUME OwnPc, FillInv, FillStep
    PROVE  FillInv'
<1>1. call' = call /\ call.op = "fill" /\ call.dst \in Nat /\ call.size \in Nat
  BY FillOwns, CallAssumption DEF OwnPc
<1> DEFINE n == call.size
<1>2. CASE FillSmall
  <2> DEFINE count == Min({n, 32})
  <2>1. count = (IF n < 32 THEN n ELSE 32) /\ count \in Nat /\ count <= n
    BY <1>1, MinMaxOfTwo
  <2> HIDE DEF count
  <2>2. StorePattern(0, call.dst, count, {}) /\ pc' = "small" /\ pc = "call" /\ n < 64
    BY <1>2 DEF FillSmall, Enter, count
  <2>3. /\ \A a \in DOMAIN stores' :
              a \in Bytes(call.dst, n) /\ stores'[a] = (a - call.dst) % 8
        /\ aligned' = {}
    BY <1>1, <2>1, <2>2, StorePatternRight
  <2>4. covered' = count
    BY <1>1, <2>1, <2>2 DEF StorePattern, FillInv
  <2> QED  BY <1>1, <2>1, <2>2, <2>3, <2>4 DEF FillInv
<1>3. CASE FillSmallHigh
  <2> DEFINE count == Max({0, n - 32})
  <2>1. count = (IF 0 < n - 32 THEN n - 32 ELSE 0) /\ count \in Nat
    <3>1. 0 \in Int /\ n - 32 \in Int
      BY <1>1
    <3>2. count = (IF 0 < n - 32 THEN n - 32 ELSE 0)
      BY <3>1, MinMaxOfTwo, Zenon
    <3> HIDE DEF count
    <3> QED  BY <1>1, <3>2
  <2> HIDE DEF count
  <2>2. StorePattern(0, call.dst + 32, count, {}) /\ pc' = "done" /\ pc = "small" /\ n < 64
    BY <1>1, <1>3 DEF FillSmallHigh, count, FillInv
  <2>3. /\ \A a \in DOMAIN stores' :
              a \in Bytes(call.dst, n) /\ stores'[a] = (a - call.dst) % 8
        /\ aligned' = {}
    <3>1. CASE n >= 32
      BY <1>1, <2>1, <2>2, <3>1, StorePatternRight
    <3>2. CASE n < 32
      <4>1. DOMAIN stores' = {} /\ aligned' = {}
        BY <1>1, <2>1, <2>2, <3>2 DEF StorePattern, Touch, Pattern, Bytes
      <4> QED  BY <4>1
    <3> QED  BY <1>1, <3>1, <3>2
  <2>4. covered' = n
    BY <1>1, <2>1, <2>2 DEF StorePattern, FillInv
  <2> QED  BY <1>1, <2>2, <2>3, <2>4 DEF FillInv
<1>4. CASE FillHead
  <2> DEFINE u == unaligned_bytes
  <2>1. u = call.dst % 64 /\ u \in 0 .. 63 /\ n >= 64 /\ pc = "call"
        /\ pc' = "fill" /\ covered = 0
    BY <1>1, <1>4 DEF FillHead, Enter, unaligned_bytes, FillInv
  <2>2. CASE u = 0
    <3>1. at' = 0 /\ phase' = 0 /\ stores' = NoStores /\ aligned' = {} /\ covered' = 0
      BY <1>4, <2>1, <2>2 DEF FillHead, Touch
    <3> QED  BY <1>1, <2>1, <2>2, <3>1 DEF FillInv, NoStores
  <2>3. CASE u # 0
    <3>1. at' = 64 - u /\ phase' = Rotate(u) /\ StorePattern(0, call.dst, 64 - u, {})
      BY <1>4, <2>3 DEF FillHead
    <3>2. 64 - u \in Nat /\ 64 - u <= n
      BY <1>1, <2>1
    <3> HIDE DEF u
    <3>3. /\ \A a \in DOMAIN stores' :
                a \in Bytes(call.dst, n) /\ stores'[a] = (a - call.dst) % 8
          /\ aligned' = {}
      BY <1>1, <3>1, <3>2, StorePatternRight
    <3>4. covered' = 64 - u
      BY <1>1, <2>1, <3>1, <3>2 DEF StorePattern
    <3>5. (call.dst + (64 - u)) % 64 = 0 /\ Rotate(u) = (64 - u) % 8
      BY <1>1, <2>1 DEF Rotate
    <3> QED  BY <1>1, <2>1, <3>1, <3>2, <3>3, <3>4, <3>5 DEF FillInv
  <2> QED  BY <2>2, <2>3
<1>5. CASE FillVector
  <2>1. /\ at \in 0 .. n /\ covered = at /\ (call.dst + at) % 64 = 0 /\ phase = at % 8
        /\ at + 64 <= n /\ pc = "fill" /\ pc' = "fill" /\ at' = at + 64 /\ phase' = phase
        /\ StorePattern(phase, call.dst + at, 64, {call.dst + at})
    BY <1>1, <1>5 DEF FillVector, FillInv
  <2>2. phase \in Nat /\ phase % 8 = (call.dst + at - call.dst) % 8
    BY <1>1, <2>1
  <2>3. /\ \A a \in DOMAIN stores' :
              a \in Bytes(call.dst, n) /\ stores'[a] = (a - call.dst) % 8
        /\ aligned' = {call.dst + at}
    BY <1>1, <2>1, <2>2, StorePatternRight, SMTT(60)
  <2>4. covered' = at + 64
    BY <1>1, <2>1 DEF StorePattern
  <2>5. (call.dst + (at + 64)) % 64 = 0 /\ (at + 64) % 8 = at % 8
    <3>1. call.dst + at \in Int /\ at \in Int /\ call.dst + (at + 64) = call.dst + at + 64
      BY <1>1, <2>1
    <3>2. (call.dst + at + 64) % 64 = (call.dst + at) % 64 /\ (at + 64) % 8 = at % 8
      BY <3>1, NextVector
    <3> QED  BY <2>1, <3>1, <3>2
  <2> QED  BY <1>1, <2>1, <2>3, <2>4, <2>5 DEF FillInv
<1>6. CASE FillTail
  <2>1. /\ at \in 0 .. n /\ covered = at /\ phase = at % 8 /\ pc' = "done"
        /\ StorePattern(phase, call.dst + at, n - at, {})
    BY <1>1, <1>6 DEF FillTail, FillInv
  <2>2. phase \in Nat /\ phase % 8 = (call.dst + at - call.dst) % 8
    BY <1>1, <2>1
  <2>3. /\ \A a \in DOMAIN stores' :
              a \in Bytes(call.dst, n) /\ stores'[a] = (a - call.dst) % 8
        /\ aligned' = {}
    BY <1>1, <2>1, <2>2, StorePatternRight
  <2>4. covered' = n
    BY <1>1, <2>1 DEF StorePattern
  <2> QED  BY <1>1, <2>1, <2>3, <2>4 DEF FillInv
<1>7. CASE RefFill
  <2>1. StorePattern(0, call.dst, n, {}) /\ pc' = "done" /\ pc = "call"
    BY <1>7 DEF RefFill, Enter
  <2>2. /\ \A a \in DOMAIN stores' :
              a \in Bytes(call.dst, n) /\ stores'[a] = (a - call.dst) % 8
        /\ aligned' = {}
    BY <1>1, <2>1, StorePatternRight
  <2>3. covered' = n
    BY <1>1, <2>1 DEF StorePattern, FillInv
  <2> QED  BY <1>1, <2>1, <2>2, <2>3 DEF FillInv
<1> QED  BY <1>2, <1>3, <1>4, <1>5, <1>6, <1>7 DEF FillStep


-----------------------------------------------------------------------------
(* Comparisons. *)

\* Comparisons: only the buffers are read, nothing differs before `at`, and the kernel
\* returns what the reference version returns.
CompareInv ==
    call.op \in {"compare", "compare_pattern"} =>
        /\ reads \subseteq Bytes(0, call.size)
        /\ pc \in {"compare", "pattern"} =>
              /\ at \in 0 .. call.size /\ at % 64 = 0
              /\ call.differ \cap Bytes(0, at) = {}
        /\ pc = "bytes" =>
              /\ at = 8 * (call.size \div 8)
              /\ call.differ \cap Bytes(0, at) = {}
        /\ pc = "done" =>
              result = IF call.op = "compare" THEN dml_ref_compare(call.differ)
                       ELSE dml_ref_compare_pattern(call.differ, call.size)

\* A nonempty set of offsets has a smallest member.
LEMMA SmallestOfThem ==
    ASSUME NEW T \in SUBSET Nat, T # {}
    PROVE  Min(T) \in T /\ \A y \in T : Min(T) <= y
<1> DEFINE R == {ss \in Nat \X Nat : ss[1] < ss[2]}
<1>1. IsWellFoundedOn(R, Nat)
  BY NatLessThanWellFounded DEF OpToRel
<1>2. PICK x \in T : \A k \in T : ~ (<<k, x>> \in R)
  <2> HIDE DEF R
  <2> QED  BY <1>1, WFMin
<1>3. ASSUME NEW y \in T
      PROVE  x <= y
  <2>1. y \in Nat /\ x \in Nat
    OBVIOUS
  <2>2. y < x => <<y, x>> \in R
    BY <2>1
  <2> QED  BY <1>2, <2>1, <2>2
<1> QED  BY <1>3, Zenon DEF Min

\* Min, from the smallest member.
LEMMA MinIs ==
    ASSUME NEW T \in SUBSET Nat, NEW x \in T, \A y \in T : x <= y
    PROVE  Min(T) = x
<1> DEFINE m == Min(T)
<1>1. m \in T /\ m <= x
  BY SmallestOfThem
<1> HIDE DEF m
<1>2. m \in Nat /\ x \in Nat /\ x <= m
  BY <1>1
<1>3. m = x
  BY <1>1, <1>2
<1> QED  BY <1>3 DEF m

\* The first difference among count bytes is the first of all, and its chunk is
\* the first chunk that differs.
FirstIn(D, from, count) ==
    /\ D # {} /\ Min(D) \in Bytes(from, count) /\ Min(D) \in Nat
    /\ Min(D \cap Bytes(from, count)) = Min(D)
    /\ Min({8 * (o \div 8) : o \in D \cap Bytes(from, count)}) = 8 * (Min(D) \div 8)

\* So it is when there is no difference before these bytes.
LEMMA FirstDifference ==
    ASSUME NEW D \in SUBSET Nat, NEW from \in Nat, NEW count \in Nat,
           D \cap Bytes(0, from) = {}, D \cap Bytes(from, count) # {}
    PROVE  FirstIn(D, from, count)
<1> DEFINE T == D \cap Bytes(from, count)
           x == Min(T)
<1>1. x \in T /\ \A y \in T : x <= y
  BY SmallestOfThem
<1>2. x \in Nat /\ x \in D /\ x \in Bytes(from, count)
  BY <1>1
<1> HIDE DEF x
<1>3. ASSUME NEW y \in D
      PROVE  x <= y
  <2>1. y \in Nat /\ y \notin 0 .. from - 1
    BY DEF Bytes
  <2>2. y >= from
    BY <2>1
  <2>3. CASE y \in Bytes(from, count)
    BY <1>1, <2>3
  <2>4. CASE y \notin Bytes(from, count)
    BY <1>2, <2>2, <2>1, <2>4 DEF Bytes
  <2> QED  BY <2>3, <2>4
<1>4. Min(D) = x
  BY <1>2, <1>3, MinIs
<1> DEFINE C == {8 * (o \div 8) : o \in T}
<1>5. C \in SUBSET Nat /\ 8 * (x \div 8) \in C
  BY <1>1
<1>6. ASSUME NEW c \in C
      PROVE  8 * (x \div 8) <= c
  <2>1. PICK o \in T : c = 8 * (o \div 8)
    OBVIOUS
  <2>2. x <= o /\ o \in Nat
    BY <1>1, <2>1
  <2> QED  BY <1>2, <2>1, <2>2
<1> HIDE DEF C
<1>7. Min(C) = 8 * (x \div 8)
  BY <1>5, <1>6, MinIs
<1> QED  BY <1>2, <1>4, <1>7 DEF FirstIn, x, C


\* Offsets without a difference on both sides of a vector's start.
LEMMA NoneBefore ==
    ASSUME NEW D \in SUBSET Nat, NEW from \in Nat, NEW count \in Nat,
           D \cap Bytes(0, from) = {}, D \cap Bytes(from, count) = {}
    PROVE  D \cap Bytes(0, from + count) = {}
  BY DEF Bytes

\* The last vectors of an operand.
LEMMA LastVector ==
    ASSUME NEW n \in Nat, NEW o \in 0 .. n, o % 64 = 0
    PROVE  /\ o + 64 > n => n % 64 = n - o /\ o + 8 * ((n \div 8) % 8) = 8 * (n \div 8)
           /\ o + 64 <= n => o + 64 <= 8 * (n \div 8)
           /\ (o + 64) % 64 = 0
           /\ 8 * (n \div 8) <= n /\ n - (n % 8) = 8 * (n \div 8)
           /\ 8 * (n \div 8) \in Nat /\ n % 8 \in Nat /\ n % 64 \in Nat
           /\ 8 * ((n \div 8) % 8) \in Nat
  OBVIOUS

\* The offset of a comparison does not wrap, for what Compare is called for.
LEMMA NoWrap ==
    ASSUME NEW c \in Calls, c.op = "compare", NEW o \in 0 .. c.size
    PROVE  (o + 64) % SizeRange = o + 64
<1>1. SizeRange \in Nat /\ c.size \in Nat /\ c.size + 64 < SizeRange
  BY CallAssumption
<1>2. \A i, r \in Nat : i < r => i % r = i
  OBVIOUS
<1> QED  BY <1>1, <1>2

\* One step of a comparison keeps it.
LEMMA CompareKeeps ==
    ASSUME OwnPc, CompareInv, EnterCompare \/ RefCompare \/ CompareStep \/ PatternStep
    PROVE  CompareInv'
<1> DEFINE n == call.size
           D == call.differ
<1>1. /\ call' = call /\ call.op \in {"compare", "compare_pattern"} /\ n \in Nat
      /\ D \subseteq 0 .. n - 1 /\ D \in SUBSET Nat
      /\ CompareStep => call.op = "compare"
      /\ PatternStep => call.op = "compare_pattern"
  BY CompareOwns, CallAssumption DEF OwnPc
<1>0. CompareStep => \A o \in 0 .. n : (o + 64) % SizeRange = o + 64
  <2>1. call \in Calls
    BY DEF OwnPc
  <2> QED  BY <1>1, <2>1, NoWrap
<1>2. CASE EnterCompare
  <2>1. at' = 0 /\ reads' = {} /\ pc' \in {"compare", "pattern"}
    BY <1>2 DEF EnterCompare, Touch
  <2>2. 0 % 64 = 0 /\ D \cap Bytes(0, 0) = {} /\ 0 \in 0 .. n
    BY <1>1 DEF Bytes
  <2> QED  BY <1>1, <2>1, <2>2 DEF CompareInv
<1>3. CASE RefCompare
  <2>1. /\ pc' = "done" /\ reads' = Bytes(0, n)
        /\ result' = IF call.op = "compare" THEN dml_ref_compare(D)
                     ELSE dml_ref_compare_pattern(D, n)
    BY <1>3 DEF RefCompare, Return, Touch
  <2> QED  BY <1>1, <2>1 DEF CompareInv
<1> HIDE DEF n, D
<1>4. CASE CompareVector
  <2> DEFINE mask == D \cap Bytes(at, 64)
  <2>1. /\ pc = "compare" /\ at \in 0 .. n /\ at % 64 = 0 /\ D \cap Bytes(0, at) = {}
        /\ at + 64 <= n /\ call.op = "compare" /\ reads' = Bytes(at, 64)
        /\ (mask # {} /\ Return(<<Lowest(mask), 1>>))
           \/ (mask = {} /\ at' = at + 64 /\ UNCHANGED <<pc, result>>)
    BY <1>0, <1>1, <1>4 DEF CompareVector, CompareStep, CompareInv, Touch, n, D
  <2>2. reads' \subseteq Bytes(0, n) /\ at \in Nat /\ 64 \in Nat
    BY <1>1, <2>1 DEF Bytes
  <2>3. CASE mask # {}
    <3>1. D # {} /\ Min(mask) = Min(D)
      <4>1. FirstIn(D, at, 64)
        BY <1>1, <2>1, <2>2, <2>3, FirstDifference
      <4> QED  BY <4>1 DEF FirstIn
    <3>2. pc' = "done" /\ result' = <<Min(D), 1>>
      BY <2>1, <2>3, <3>1 DEF Return, Lowest
    <3> QED  BY <1>1, <2>1, <2>2, <3>1, <3>2 DEF CompareInv, dml_ref_compare, n, D
  <2>4. CASE mask = {}
    <3>1. D \cap Bytes(0, at + 64) = {} /\ (at + 64) % 64 = 0
      BY <1>1, <2>1, <2>2, <2>4, NoneBefore, LastVector
    <3>2. pc' = "compare" /\ at' = at + 64
      BY <2>1, <2>4
    <3> QED  BY <1>1, <2>1, <2>2, <3>1, <3>2 DEF CompareInv, n, D
  <2> QED  BY <2>3, <2>4
<1>5. CASE CompareTail
  <2> DEFINE mask == D \cap Bytes(at, n % 64)
  <2>1. /\ pc = "compare" /\ at \in 0 .. n /\ at % 64 = 0 /\ D \cap Bytes(0, at) = {}
        /\ at + 64 > n /\ call.op = "compare" /\ reads' = Bytes(at, n % 64)
        /\ Return(IF mask = {} THEN Equal ELSE <<Lowest(mask), 1>>)
    BY <1>0, <1>1, <1>5 DEF CompareTail, CompareStep, CompareInv, Touch, n, D
  <2>2. n % 64 = n - at /\ at \in Nat /\ n % 64 \in Nat
    BY <1>1, <2>1, LastVector
  <2>3. reads' \subseteq Bytes(0, n)
    BY <1>1, <2>1, <2>2 DEF Bytes
  <2>4. pc' = "done" /\ result' = IF mask = {} THEN Equal ELSE <<Min(mask), 1>>
    BY <2>1 DEF Return, Lowest
  <2>5. CASE mask # {}
    <3>1. D # {} /\ Min(mask) = Min(D)
      <4>1. FirstIn(D, at, n % 64)
        BY <1>1, <2>1, <2>2, <2>5, FirstDifference
      <4> QED  BY <4>1 DEF FirstIn
    <3> QED  BY <1>1, <2>1, <2>3, <2>4, <2>5, <3>1 DEF CompareInv, dml_ref_compare, n, D
  <2>6. CASE mask = {}
    <3>1. D \cap Bytes(0, at + (n % 64)) = {} /\ at + (n % 64) = n
      BY <1>1, <2>1, <2>2, <2>6, NoneBefore
    <3>2. D = {}
      BY <1>1, <3>1 DEF Bytes, D, n
    <3> QED  BY <1>1, <2>1, <2>3, <2>4, <2>6, <3>2 DEF CompareInv, dml_ref_compare, n, D
  <2> QED  BY <2>5, <2>6
<1>6. CASE PatternVector
  <2> DEFINE mask == D \cap Bytes(at, 64)
             chunks == {8 * (o \div 8) : o \in mask}
  <2>1. /\ pc = "pattern" /\ at \in 0 .. n /\ at % 64 = 0 /\ D \cap Bytes(0, at) = {}
        /\ at + 64 <= n /\ call.op = "compare_pattern" /\ reads' = Bytes(at, 64)
        /\ (chunks # {} /\ Return(<<Lowest(chunks), 1>>))
           \/ (chunks = {} /\ at' = at + 64 /\ UNCHANGED <<pc, result>>)
    BY <1>1, <1>6 DEF PatternVector, PatternStep, CompareInv, Touch, Chunks, n, D
  <2>2. reads' \subseteq Bytes(0, n) /\ at \in Nat /\ 64 \in Nat
    BY <1>1, <2>1 DEF Bytes
  <2>3. CASE mask # {}
    <3>1. /\ D # {} /\ Min(chunks) = 8 * (Min(D) \div 8) /\ Min(D) \in Nat
          /\ Min(D) \in Bytes(at, 64)
      <4>1. FirstIn(D, at, 64)
        BY <1>1, <2>1, <2>2, <2>3, FirstDifference
      <4> QED  BY <4>1 DEF FirstIn
    <3>2. ~(Min(D) >= 8 * (n \div 8))
      <4>1. at + 64 <= 8 * (n \div 8)
        BY <1>1, <2>1, LastVector
      <4>2. Min(D) < at + 64
        BY <2>2, <3>1 DEF Bytes
      <4> DEFINE m == Min(D)
                 e == 8 * (n \div 8)
      <4>3. m \in Int /\ e \in Int /\ at + 64 \in Int
        BY <1>1, <2>1, <3>1
      <4> HIDE DEF m, e
      <4>4. m < at + 64 /\ at + 64 <= e
        BY <4>1, <4>2 DEF m, e
      <4>5. ~(m >= e)
        BY <4>3, <4>4
      <4> QED  BY <4>5 DEF m, e
    <3>3. chunks # {}
      BY <2>3
    <3>4. pc' = "done" /\ result' = <<8 * (Min(D) \div 8), 1>>
      BY <2>1, <3>1, <3>3 DEF Return, Lowest
    <3>5. result' = dml_ref_compare_pattern(D, n)
      BY <3>1, <3>2, <3>4 DEF dml_ref_compare_pattern
    <3> QED  BY <1>1, <2>1, <2>2, <3>4, <3>5 DEF CompareInv, n, D
  <2>4. CASE mask = {}
    <3>1. D \cap Bytes(0, at + 64) = {} /\ (at + 64) % 64 = 0
      BY <1>1, <2>1, <2>2, <2>4, NoneBefore, LastVector
    <3>2. pc' = "pattern" /\ at' = at + 64
      BY <2>1, <2>4
    <3> QED  BY <1>1, <2>1, <2>2, <3>1, <3>2 DEF CompareInv, n, D
  <2> QED  BY <2>3, <2>4
<1>7. CASE PatternChunks
  <2> DEFINE count == 8 * ((n \div 8) % 8)
             mask == D \cap Bytes(at, count)
             chunks == {8 * (o \div 8) : o \in mask}
  <2>1. /\ pc = "pattern" /\ at \in 0 .. n /\ at % 64 = 0 /\ D \cap Bytes(0, at) = {}
        /\ at + 64 > n /\ call.op = "compare_pattern" /\ reads' = Bytes(at, count)
        /\ (chunks # {} /\ Return(<<Lowest(chunks), 1>>))
           \/ (chunks = {} /\ pc' = "bytes" /\ at' = at + count /\ UNCHANGED result)
    BY <1>1, <1>7 DEF PatternChunks, PatternStep, CompareInv, Touch, Chunks, n, D
  <2>2. at + count = 8 * (n \div 8) /\ count \in Nat /\ 8 * (n \div 8) <= n /\ at \in Nat
    <3>1. n \in Nat /\ at \in 0 .. n /\ at % 64 = 0 /\ at + 64 > n
      BY <1>1, <2>1
    <3> HIDE DEF n, D, mask, chunks
    <3>2. at + 8 * ((n \div 8) % 8) = 8 * (n \div 8) /\ 8 * ((n \div 8) % 8) \in Nat
      BY <3>1, LastVector
    <3>3. 8 * (n \div 8) <= n /\ at \in Nat
      BY <3>1, LastVector
    <3> QED  BY <3>2, <3>3 DEF count
  <2> HIDE DEF count
  <2>3. reads' \subseteq Bytes(0, n)
    BY <1>1, <2>1, <2>2 DEF Bytes
  <2>4. CASE mask # {}
    <3>1. /\ D # {} /\ Min(chunks) = 8 * (Min(D) \div 8) /\ Min(D) \in Nat
          /\ Min(D) \in Bytes(at, count)
      <4>1. FirstIn(D, at, count)
        BY <1>1, <2>1, <2>2, <2>4, FirstDifference
      <4> QED  BY <4>1 DEF FirstIn
    <3>2. ~(Min(D) >= 8 * (n \div 8))
      <4> DEFINE m == Min(D)
                 e == 8 * (n \div 8)
      <4>1. m \in Int /\ m < at + count /\ at + count = e /\ e \in Int
        BY <1>1, <2>2, <3>1 DEF Bytes
      <4> HIDE DEF m, e
      <4>2. ~(m >= e)
        BY <4>1
      <4> QED  BY <4>2 DEF m, e
    <3>3. chunks # {}
      BY <2>4
    <3>4. pc' = "done" /\ result' = <<8 * (Min(D) \div 8), 1>>
      BY <2>1, <3>1, <3>3 DEF Return, Lowest
    <3>5. result' = dml_ref_compare_pattern(D, n)
      BY <3>1, <3>2, <3>4 DEF dml_ref_compare_pattern
    <3> QED  BY <1>1, <2>1, <2>3, <3>4, <3>5 DEF CompareInv, n, D
  <2>5. CASE mask = {}
    <3>1. D \cap Bytes(0, at + count) = {}
      BY <1>1, <2>1, <2>2, <2>5, NoneBefore
    <3>2. pc' = "bytes" /\ at' = at + count
      BY <2>1, <2>5
    <3> QED  BY <1>1, <2>1, <2>2, <2>3, <3>1, <3>2 DEF CompareInv, n, D
  <2> QED  BY <2>4, <2>5
<1>8. CASE PatternBytes
  <2> DEFINE from == n - (n % 8)
             mask == D \cap Bytes(from, n % 8)
  <2>1. /\ pc = "bytes" /\ at = 8 * (n \div 8) /\ D \cap Bytes(0, at) = {}
        /\ call.op = "compare_pattern" /\ reads' = Bytes(from, n % 8)
        /\ Return(IF mask = {} THEN Equal ELSE <<Lowest(mask), 1>>)
    BY <1>1, <1>8 DEF PatternBytes, PatternStep, CompareInv, Touch, n, D
  <2>2. from = 8 * (n \div 8) /\ from \in Nat /\ n % 8 \in Nat /\ from + (n % 8) = n
    BY <1>1
  <2>3. D \cap Bytes(0, from) = {}
    BY <2>1, <2>2
  <2>4. reads' \subseteq Bytes(0, n)
    BY <1>1, <2>1, <2>2 DEF Bytes
  <2>5. pc' = "done" /\ result' = IF mask = {} THEN Equal ELSE <<Min(mask), 1>>
    BY <2>1 DEF Return, Lowest
  <2> HIDE DEF from
  <2>6. CASE mask # {}
    <3>1. D # {} /\ Min(mask) = Min(D) /\ Min(D) \in Bytes(from, n % 8)
      <4>1. FirstIn(D, from, n % 8)
        BY <1>1, <2>2, <2>3, <2>6, FirstDifference
      <4> QED  BY <4>1 DEF FirstIn
    <3>2. Min(D) >= 8 * (n \div 8)
      BY <2>2, <3>1 DEF Bytes
    <3>3. result' = dml_ref_compare_pattern(D, n)
      BY <2>5, <2>6, <3>1, <3>2 DEF dml_ref_compare_pattern
    <3> QED  BY <1>1, <2>1, <2>4, <2>5, <3>3 DEF CompareInv, n, D
  <2>7. CASE mask = {}
    <3>1. D \cap Bytes(0, from + (n % 8)) = {}
      BY <1>1, <2>2, <2>3, <2>7, NoneBefore
    <3>2. D = {}
      BY <1>1, <2>2, <3>1 DEF Bytes, D, n
    <3>3. result' = dml_ref_compare_pattern(D, n)
      BY <2>5, <2>7, <3>2 DEF dml_ref_compare_pattern
    <3> QED  BY <1>1, <2>1, <2>4, <2>5, <3>3 DEF CompareInv, n, D
  <2> QED  BY <2>6, <2>7
<1> QED  BY <1>2, <1>3, <1>4, <1>5, <1>6, <1>7, <1>8 DEF CompareStep, PatternStep


-----------------------------------------------------------------------------
(* Cache Flush. *)

\* Cache flush: the lines of the first `at` vectors of the range are flushed; one that
\* the processor supports ends with all of them.
FlushInv ==
    call.op = "cache_flush" =>
        /\ at \in 0 .. (call.size \div 64)
        /\ pc = "call" => at = 0
        /\ flushed = {Line(call.dst + 64 * k) : k \in 0 .. at - 1}
        /\ (pc = "done" /\ (call.control \/ "clwb" \in cpu)) => at = call.size \div 64

\* One step of a cache flush keeps it.
LEMMA FlushKeeps ==
    ASSUME OwnPc, FlushInv, FlushStep
    PROVE  FlushInv'
<1>1. /\ call' = call /\ cpu' = cpu /\ call.op = "cache_flush"
      /\ call.dst \in Nat /\ call.size \in Nat /\ call.control \in BOOLEAN
      /\ call.size \div 64 \in Nat
  BY FlushOwns, CallAssumption DEF OwnPc
<1>2. CASE EnterFlush
  <2>1. at = 0 /\ at' = 0 /\ flushed' = flushed /\ pc' # "call"
    BY <1>1, <1>2 DEF EnterFlush, FlushInv
  <2>2. (call.control \/ "clwb" \in cpu) => pc' # "done"
    <3>1. dispatcher(cpu)["cache_flush"] # "clwb_unsupported"
      BY DEF dispatcher
    <3>2. "clwb" \in cpu => dispatcher(cpu)["cache_write_back"] # "clwb_unsupported"
      BY DEF dispatcher
    <3> QED  BY <1>2, <3>1, <3>2 DEF EnterFlush
  <2> QED  BY <1>1, <2>1, <2>2 DEF FlushInv
<1>3. CASE FlushLine
  <2>1. pc = "flush" /\ at \in 0 .. (call.size \div 64) /\ pc' \in {"flush", "done"}
    BY <1>1, <1>3 DEF FlushLine, FlushInv
  <2>2. CASE at < call.size \div 64
    <3>1. /\ at' = at + 1 /\ pc' = "flush"
          /\ flushed' = flushed \cup {Line(call.dst + 64 * at)}
      BY <1>3, <2>1, <2>2 DEF FlushLine
    <3>2. 0 .. at + 1 - 1 = (0 .. at - 1) \cup {at}
      BY <2>1
    <3>3. flushed' = {Line(call.dst + 64 * k) : k \in 0 .. at + 1 - 1}
      BY <1>1, <3>1, <3>2 DEF FlushInv
    <3> QED  BY <1>1, <2>1, <2>2, <3>1, <3>3 DEF FlushInv
  <2>3. CASE ~(at < call.size \div 64)
    <3>1. at' = at /\ flushed' = flushed
      BY <1>3, <2>3 DEF FlushLine
    <3> QED  BY <1>1, <2>1, <2>3, <3>1 DEF FlushInv
  <2> QED  BY <2>2, <2>3
<1> QED  BY <1>2, <1>3 DEF FlushStep

\* The lines of a range, by its counter.
LEMMA LinesOfRange ==
    ASSUME NEW from \in Nat, NEW n \in Nat, NEW k \in 0 .. (n \div 64) - 1
    PROVE  from + 64 * k \in Bytes(from, n)
  BY DEF Bytes

\* Every byte of an aligned range lies in the line of the vector that its offset
\* selects.
LEMMA LineOfByte ==
    ASSUME NEW from \in Nat, NEW n \in Nat, from % 64 = 0, n % 64 = 0, NEW a \in Bytes(from, n)
    PROVE  /\ (a - from) \div 64 \in 0 .. (n \div 64) - 1
           /\ Line(from + 64 * ((a - from) \div 64)) = Line(a)
  BY DEF Bytes, Line

\* The loop's counter flushed the lines of the range, and no line outside it.
LEMMA FlushedRange == ASSUME OwnPc, FlushInv PROVE FlushesRange
<1> SUFFICES ASSUME call.op = "cache_flush" PROVE FlushesRange
  BY DEF FlushesRange
<1> DEFINE R == {Line(a) : a \in Bytes(call.dst, call.size)}
<1>1. call.dst \in Nat /\ call.size \in Nat /\ call.size \div 64 \in Nat
  BY CallAssumption DEF OwnPc
<1>2. /\ at \in 0 .. (call.size \div 64)
      /\ flushed = {Line(call.dst + 64 * k) : k \in 0 .. at - 1}
  BY DEF FlushInv
<1>3. flushed \subseteq R
  <2>1. ASSUME NEW k \in 0 .. at - 1
        PROVE  call.dst + 64 * k \in Bytes(call.dst, call.size)
    <3>1. k \in 0 .. (call.size \div 64) - 1
      BY <1>1, <1>2
    <3> QED  BY <1>1, <3>1, LinesOfRange
  <2> QED  BY <1>2, <2>1
<1>4. ASSUME at = call.size \div 64, call.dst % 64 = 0, call.size % 64 = 0
      PROVE  R \subseteq flushed
  <2>1. ASSUME NEW a \in Bytes(call.dst, call.size)
        PROVE  Line(a) \in flushed
    <3> DEFINE k == (a - call.dst) \div 64
    <3>1. k \in 0 .. at - 1 /\ Line(call.dst + 64 * k) = Line(a)
      BY <1>1, <1>4, LineOfByte
    <3> HIDE DEF k
    <3> QED  BY <1>2, <3>1
  <2> QED  BY <2>1
<1> QED  BY <1>3, <1>4 DEF FlushesRange, FlushInv


-----------------------------------------------------------------------------
(* Memory Move: the vectors. *)

\* Positions first .. 63 of a vector hold the addresses from base + first on.
Holds(v, base, first) == \A i \in Positions : i >= first => v[i] = base + i

\* The loops and the distances they are for.
Serves(loop, shift) ==
    /\ shift \in 1 .. 63
    /\ loop = "alignr" => shift % 4 = 0
    /\ loop = "permutex" => shift % 2 = 0
    /\ loop = "odd_low" => shift % 2 = 1 /\ shift < 16
    /\ loop = "odd_high" => shift % 2 = 1 /\ shift > 48

\* For a distance of whole words, alignr of two neighbouring source vectors is the source
\* from the distance on.
LEMMA AlignrShifts ==
    ASSUME NEW a, NEW b, NEW base \in Int, NEW shift \in 1 .. 63, shift % 4 = 0,
           Holds(a, base, shift), Holds(b, base + 64, 0)
    PROVE  Holds(Alignr(a, b, shift), base + shift, 0)
<1> SUFFICES ASSUME NEW i \in Positions
             PROVE  Alignr(a, b, shift)[i] = base + shift + i
  BY DEF Holds
<1>1. /\ shift \in 4 .. 60 /\ shift # 0 /\ 4 * (shift \div 4) = shift /\ i \in 0 .. 63
  BY DEF Positions
<1>2. Alignr(a, b, shift)[i] = IF i + shift < 64 THEN a[i + shift] ELSE b[i + shift - 64]
  BY <1>1 DEF Alignr, dmlc_own_mm512_alignr_epi8, alignr_epi32
<1>3. i + shift < 64 => i + shift \in Positions /\ i + shift >= shift
  BY <1>1 DEF Positions
<1>4. ~(i + shift < 64) => i + shift - 64 \in Positions /\ i + shift - 64 >= 0
  BY <1>1 DEF Positions
<1>5. i + shift < 64 => a[i + shift] = base + (i + shift)
  BY <1>3 DEF Holds
<1>6. ~(i + shift < 64) => b[i + shift - 64] = base + 64 + (i + shift - 64)
  BY <1>4 DEF Holds
<1> QED  BY <1>1, <1>2, <1>5, <1>6

\* A byte of the vector that permutex2var takes from two vectors with the table of
\* an even number of bytes.
Takes(a, b, base, bytes, i) ==
    permutex2var_epi16(a, permutex_idx_pptr[(bytes - 2) \div 2], b)[i] = base + bytes + i

\* The index table of an even number of bytes takes the byte that many bytes further, if
\* the first vector holds it.
LEMMA PermutexTakes ==
    ASSUME NEW a, NEW b, NEW base \in Int, NEW first \in Nat, NEW bytes \in 2 .. 62,
           bytes % 2 = 0, bytes >= first - 1, Holds(a, base, first), Holds(b, base + 64, 0),
           NEW i \in Positions, i + bytes >= first
    PROVE  Takes(a, b, base, bytes, i)
<1> DEFINE j == (bytes - 2) \div 2
           idx == permutex_idx_pptr[j]
           from == 2 * idx[i \div 2] + (i % 2)
<1>1. i \in 0 .. 63 /\ j \in 0 .. 30 /\ 2 * (j + 1) = bytes /\ i \div 2 \in 0 .. 31
  BY DEF Positions
<1>2. idx = permutex_idx(bytes)
  BY <1>1 DEF permutex_idx_pptr
<1>3. idx[i \div 2] = i \div 2 + bytes \div 2
  BY <1>1, <1>2 DEF permutex_idx
<1>4. from = i + bytes
  BY <1>1, <1>3
<1>5. permutex2var_epi16(a, idx, b)[i] = IF from < 64 THEN a[from] ELSE b[from - 64]
  BY DEF permutex2var_epi16
<1> HIDE DEF idx, from
<1>6. from < 64 => from \in Positions /\ from >= first
  BY <1>1, <1>4 DEF Positions
<1>7. ~(from < 64) => from - 64 \in Positions /\ from - 64 >= 0
  BY <1>1, <1>4 DEF Positions
<1>8. from < 64 => a[from] = base + from
  BY <1>6 DEF Holds
<1>9. ~(from < 64) => b[from - 64] = base + 64 + (from - 64)
  BY <1>7 DEF Holds
<1>10. permutex2var_epi16(a, idx, b)[i] = base + bytes + i
  BY <1>1, <1>4, <1>5, <1>8, <1>9
<1> QED  BY <1>10 DEF Takes, idx, j

\* So for an even distance permutex2var is the source from the distance on.
LEMMA PermutexShifts ==
    ASSUME NEW a, NEW b, NEW base \in Int, NEW shift \in 1 .. 63, shift % 2 = 0,
           Holds(a, base, shift), Holds(b, base + 64, 0)
    PROVE  Holds(Permutex(a, b, shift), base + shift, 0)
<1>1. shift \in 2 .. 62 /\ shift \in Nat /\ shift >= shift - 1
  OBVIOUS
<1> SUFFICES ASSUME NEW i \in Positions
             PROVE  Permutex(a, b, shift)[i] = base + shift + i
  BY DEF Holds
<1>2. i + shift >= shift
  BY <1>1 DEF Positions
<1>3. Takes(a, b, base, shift, i)
  BY <1>1, <1>2, PermutexTakes
<1> QED  BY <1>3 DEF Permutex, Takes

\* For an odd distance below 16 the next even one is taken and moved up a byte; the first
\* byte of each lane, lost by the move, is blended in from the byte-shifted vector.
LEMMA OddLowShifts ==
    ASSUME NEW a, NEW b, NEW base \in Int, NEW shift \in 1 .. 63, shift % 2 = 1, shift < 16,
           Holds(a, base, shift), Holds(b, base + 64, 0)
    PROVE  Holds(OddLow(a, b, shift), base + shift, 0)
<1> SUFFICES ASSUME NEW i \in Positions
             PROVE  OddLow(a, b, shift)[i] = base + shift + i
  BY DEF Holds
<1> DEFINE lower == dmlc_own_mm512_bsrli_epi128(a, shift)
           higher == permutex2var_epi16(a, permutex_idx_pptr[(shift - 1) \div 2], b)
           up == dmlc_own_mm512_bslli_epi128(higher, 1)
<1>1. i \in 0 .. 63 /\ shift \in 1 .. 15
  BY DEF Positions
<1>2. OddLow(a, b, shift)[i] = IF i % 16 = 0 THEN lower[i] ELSE up[i]
  BY DEF OddLow, mask_mov_epi8
<1>3. CASE i % 16 = 0
  <2>1. lower[i] = a[i + shift]
    BY <1>1, <1>3 DEF dmlc_own_mm512_bsrli_epi128, bsrli_epi128
  <2>2. i + shift \in Positions /\ i + shift >= shift
    BY <1>1, <1>3 DEF Positions
  <2>3. a[i + shift] = base + (i + shift)
    BY <2>2 DEF Holds
  <2> HIDE DEF lower, up
  <2> QED  BY <1>1, <1>2, <1>3, <2>1, <2>3
<1>4. CASE i % 16 # 0
  <2> DEFINE bytes == shift + 1
  <2>1. /\ bytes \in 2 .. 62 /\ bytes % 2 = 0 /\ bytes >= shift - 1 /\ shift \in Nat
        /\ (bytes - 2) \div 2 = (shift - 1) \div 2
        /\ i - 1 \in Positions /\ i - 1 + bytes >= shift
    BY <1>1, <1>4 DEF Positions
  <2>2. up[i] = higher[i - 1]
    <3> HIDE DEF higher
    <3> QED  BY <1>1, <1>4 DEF dmlc_own_mm512_bslli_epi128, bslli_epi128
  <2> HIDE DEF bytes
  <2>3. Takes(a, b, base, bytes, i - 1)
    BY <2>1, PermutexTakes
  <2>4. higher[i - 1] = base + bytes + (i - 1)
    BY <2>1, <2>3 DEF Takes
  <2> HIDE DEF lower, up, higher
  <2> QED  BY <1>1, <1>2, <1>4, <2>2, <2>4 DEF bytes
<1> QED  BY <1>3, <1>4

\* For an odd distance above 48 the even one before is taken and moved down a byte; the
\* last byte of each lane is blended in from the second vector.
LEMMA OddHighShifts ==
    ASSUME NEW a, NEW b, NEW base \in Int, NEW shift \in 1 .. 63, shift % 2 = 1, shift > 48,
           Holds(a, base, shift), Holds(b, base + 64, 0)
    PROVE  Holds(OddHigh(a, b, shift), base + shift, 0)
<1> SUFFICES ASSUME NEW i \in Positions
             PROVE  OddHigh(a, b, shift)[i] = base + shift + i
  BY DEF Holds
<1> DEFINE lower == permutex2var_epi16(a, permutex_idx_pptr[(shift - 3) \div 2], b)
           higher == dmlc_own_mm512_bslli_epi128(b, 64 - shift)
           down == dmlc_own_mm512_bsrli_epi128(lower, 1)
<1>1. i \in 0 .. 63 /\ 64 - shift \in 1 .. 15
  BY DEF Positions
<1>2. OddHigh(a, b, shift)[i] = IF i % 16 # 15 THEN down[i] ELSE higher[i]
  BY DEF OddHigh, mask_mov_epi8
<1>3. CASE i % 16 = 15
  <2>1. higher[i] = b[i - (64 - shift)]
    BY <1>1, <1>3 DEF dmlc_own_mm512_bslli_epi128, bslli_epi128
  <2>2. i - (64 - shift) \in Positions /\ i - (64 - shift) >= 0
    BY <1>1, <1>3 DEF Positions
  <2>3. b[i - (64 - shift)] = base + 64 + (i - (64 - shift))
    BY <2>2 DEF Holds
  <2> HIDE DEF lower, higher, down
  <2> QED  BY <1>1, <1>2, <1>3, <2>1, <2>3
<1>4. CASE i % 16 # 15
  <2> DEFINE bytes == shift - 1
  <2>1. /\ bytes \in 2 .. 62 /\ bytes % 2 = 0 /\ bytes >= shift - 1 /\ shift \in Nat
        /\ (bytes - 2) \div 2 = (shift - 3) \div 2
        /\ i + 1 \in Positions /\ i + 1 + bytes >= shift
    BY <1>1, <1>4 DEF Positions
  <2>2. down[i] = lower[i + 1]
    <3> HIDE DEF lower
    <3> QED  BY <1>1, <1>4 DEF dmlc_own_mm512_bsrli_epi128, bsrli_epi128
  <2> HIDE DEF bytes
  <2>3. Takes(a, b, base, bytes, i + 1)
    BY <2>1, PermutexTakes
  <2>4. lower[i + 1] = base + bytes + (i + 1)
    BY <2>1, <2>3 DEF Takes
  <2> HIDE DEF lower, higher, down
  <2> QED  BY <1>1, <1>2, <1>4, <2>2, <2>4 DEF bytes
<1> QED  BY <1>3, <1>4

\* Whatever the loop, a destination vector is the source from the distance on.
LEMMA ShiftedHolds ==
    ASSUME NEW loop \in Loops, NEW a, NEW b, NEW base \in Int, Serves(loop, distance),
           Holds(a, base, distance), Holds(b, base + 64, 0)
    PROVE  Holds(Shifted(loop, a, b), base + distance, 0)
<1> DEFINE shift == distance
<1>0. shift \in 1 .. 63 /\ Holds(a, base, shift)
  BY DEF Serves
<1> HIDE DEF shift
<1>1. CASE loop = "alignr"
  BY <1>0, <1>1, AlignrShifts DEF Serves, Shifted, shift
<1>2. CASE loop = "permutex"
  BY <1>0, <1>2, PermutexShifts DEF Serves, Shifted, shift
<1>3. CASE loop = "odd_low"
  BY <1>0, <1>3, OddLowShifts DEF Serves, Shifted, shift
<1>4. CASE loop = "odd_high"
  BY <1>0, <1>4, OddHighShifts DEF Serves, Shifted, shift
<1> QED  BY <1>1, <1>2, <1>3, <1>4 DEF Loops


-----------------------------------------------------------------------------
(* Memory Move: the invariant. *)

\* What the last step stored, read and aligned is right.
Touched ==
    /\ \A a \in DOMAIN stores :
          a \in Bytes(call.dst, call.size) /\ stores[a] = call.src + a - call.dst
    /\ reads \subseteq Bytes(call.src, call.size)
    /\ \A a \in aligned : a % 64 = 0

\* The destination is filled up to d, and that many bytes of the source are used.
Underway == d \in call.dst .. call.dst + call.size /\ filled = d
\* The source pointer has come as far as the destination pointer.
InStep == s = call.src + (d - call.dst)

\* The vectors and the tail that are left.
Remaining ==
    left \in Nat /\ size \in Nat /\ call.dst + call.size - d = 64 * left + (size % 64)

\* Memory move: the last step copied to and from the right bytes; a copy by vectors has
\* buffers that do not overlap; the destination is filled up to d, which is at a line in
\* the loops, and what is left is `left` vectors and a tail. In a shifted loop the source
\* is at a line too, `distance` bytes ahead of the destination, and zmm0 carries the bytes
\* between.
MoveInv ==
    call.op = "mem_move" =>
        /\ Touched
        /\ pc \notin {"call", "overlap", "done"} =>
              Bytes(call.src, call.size) \cap Bytes(call.dst, call.size) = {}
        /\ pc = "copy" => Underway /\ d = call.dst /\ InStep /\ size = call.size
        /\ pc = "head" =>
              /\ Underway /\ InStep /\ d % 64 = 0 /\ call.dst % 64 # 0
              /\ size = call.dst + call.size - d /\ size >= 64
        /\ pc \in Loops =>
              /\ Underway /\ Remaining /\ d % 64 = 0 /\ Serves(pc, distance)
              /\ s = call.src + (d - call.dst) - distance + 64 /\ s % 64 = 0
              /\ Holds(zmm0, s - 64, distance)
        /\ pc = "plain" =>
              Underway /\ InStep /\ Remaining /\ d % 64 = 0 /\ (call.dst % 64 = 0 => s % 64 = 0)
        /\ pc = "single" => Underway /\ InStep /\ Remaining /\ d % 64 = 0
        /\ pc = "done" => filled = call.dst + call.size

\* The byte-wise copy stores every byte of its range once, from the same place.
LEMMA PxCopied ==
    ASSUME NEW from \in Nat, NEW to \in Nat, NEW count \in Nat
    PROVE  LET st == dmlc_own_px_copy_8u_unrolled(from, to, count)
           IN  DOMAIN st = Bytes(to, count) /\ \A a \in Bytes(to, count) : st[a] = from + a - to
<1> DEFINE align == 64 - (to % 64)
           head == IF align = 64 THEN 0 ELSE IF count < align THEN count ELSE align
           rest == count - head
           words == 8 * (rest \div 8)
           blocks == IF align = 64 - (from % 64) THEN 32 * (rest \div 32) ELSE words
           all == Bytes(to, head) \cup Bytes(to + head, blocks)
                      \cup Bytes(to + head + blocks, words - blocks)
                      \cup Bytes(to + head + words, rest - words)
           st == dmlc_own_px_copy_8u_unrolled(from, to, count)
<1>1. st = IF count < align /\ align < 64 THEN [a \in Bytes(to, count) |-> from + a - to]
           ELSE [a \in all |-> from + a - to]
  BY DEF dmlc_own_px_copy_8u_unrolled, Copied
<1>2. head \in 0 .. count /\ align \in 1 .. 64
  OBVIOUS
<1> HIDE DEF head, align
<1>3. words \in 0 .. rest /\ rest \in Nat /\ rest = count - head
  BY <1>2
<1> HIDE DEF rest
<1>4. blocks \in 0 .. words
  BY <1>3
<1> HIDE DEF words, blocks
<1>5. all = Bytes(to, count)
  BY <1>2, <1>3, <1>4 DEF Bytes
<1> HIDE DEF all, st
<1>6. DOMAIN st = Bytes(to, count) /\ \A a \in Bytes(to, count) : st[a] = from + a - to
  BY <1>1, <1>5
<1> QED  BY <1>6 DEF st

\* A step that stores the next count bytes.
LEMMA Advances ==
    ASSUME call \in Calls, call.op = "mem_move", call' = call, Underway,
           NEW count \in Nat, d + count <= call.dst + call.size,
           NEW st, DOMAIN st = Bytes(d, count), Fill(st),
           \A a \in Bytes(d, count) : st[a] = call.src + a - call.dst, stores' = st
    PROVE  /\ filled' = d + count
           /\ \A a \in DOMAIN stores' :
                 a \in Bytes(call.dst, call.size) /\ stores'[a] = call.src + a - call.dst
<1>1. /\ call.dst \in Nat /\ call.size \in Nat /\ d \in Nat /\ d >= call.dst
      /\ filled = d
  BY CallAssumption DEF Underway
<1>2. Cardinality(Bytes(d, count)) = count
  <2>1. d \in Int /\ d + count - 1 \in Int
    BY <1>1
  <2>2. Cardinality(d .. d + count - 1)
          = IF d > d + count - 1 THEN 0 ELSE d + count - 1 - d + 1
    BY <2>1, FS_Interval
  <2> QED  BY <1>1, <2>2 DEF Bytes
<1>3. filled' = d + count
  BY <1>1, <1>2 DEF Fill
<1>4. \A a \in Bytes(d, count) : a \in Bytes(call.dst, call.size)
  BY <1>1, SMTT(60) DEF Bytes
<1> QED  BY <1>3, <1>4

\* A call of the byte-wise copy.
LEMMA PxAdvances ==
    ASSUME call \in Calls, call.op = "mem_move", call' = call, Underway, InStep,
           NEW count \in Nat, d + count <= call.dst + call.size, NEW next, PxCopy(count, next)
    PROVE  /\ Touched' /\ pc' = next /\ filled' = d + count /\ d' = d + count
           /\ s' = s + count /\ size' = size - count /\ InStep'
<1> DEFINE st == dmlc_own_px_copy_8u_unrolled(s, d, count)
<1>1. /\ call.src \in Nat /\ call.dst \in Nat /\ call.size \in Nat /\ d \in Nat /\ d >= call.dst
      /\ s = call.src + (d - call.dst) /\ s \in Nat
  BY CallAssumption DEF Underway, InStep
<1>2. /\ pc' = next /\ reads' = Range(st) /\ stores' = st /\ aligned' = {} /\ Fill(st)
      /\ s' = s + count /\ d' = d + count /\ size' = size - count
  BY DEF PxCopy, Touch
<1>3. DOMAIN st = Bytes(d, count) /\ \A a \in Bytes(d, count) : st[a] = s + a - d
  BY <1>1, PxCopied
<1> HIDE DEF st
<1>4. ASSUME NEW a \in Bytes(d, count)
      PROVE  st[a] = call.src + a - call.dst
  <2>1. a \in Int /\ st[a] = s + a - d
    BY <1>1, <1>3 DEF Bytes
  <2> QED  BY <1>1, <2>1
<1>5. /\ filled' = d + count
      /\ \A a \in DOMAIN stores' :
            a \in Bytes(call.dst, call.size) /\ stores'[a] = call.src + a - call.dst
  <2>1. DOMAIN st = Bytes(d, count) /\ Fill(st) /\ stores' = st
    BY <1>2, <1>3
  <2> QED  BY <1>4, <2>1, Advances, Zenon
<1>6. Range(st) \subseteq Bytes(call.src, call.size)
  <2>1. \A a \in Bytes(d, count) : st[a] \in Bytes(call.src, call.size)
    BY <1>1, <1>4 DEF Bytes
  <2> QED  BY <1>3, <2>1 DEF Range
<1>7. InStep'
  BY <1>1, <1>2 DEF InStep
<1> QED  BY <1>2, <1>5, <1>6, <1>7 DEF Touched


\* Loading the first source vector of a shifted loop.
LEMMA ShiftedStarts ==
    ASSUME call \in Calls, call.op = "mem_move", call' = call, Underway, InStep, d % 64 = 0,
           size = call.dst + call.size - d, size >= 64,
           NEW loop \in Loops, Serves(loop, Shift), StartShifted(loop),
           Bytes(call.src, call.size) \cap Bytes(call.dst, call.size) = {}
    PROVE  MoveInv'
<1>1. /\ call.src \in Nat /\ call.dst \in Nat /\ call.size \in Nat
      /\ d \in Nat /\ d >= call.dst /\ d <= call.dst + call.size
      /\ s = call.src + (d - call.dst) /\ s \in Nat /\ size \in Nat
  BY CallAssumption DEF Underway, InStep
<1> DEFINE k == Shift
<1>2. k = s % 64 /\ k = distance /\ k \in 1 .. 63 /\ k <= s
  BY <1>1 DEF Shift, distance, Serves
<1>3. /\ pc' = loop /\ zmm0' = LoadFrom(k, s - k) /\ left' = size \div 64 /\ s' = s - k + 64
      /\ reads' = Bytes(s, 64 - k) /\ stores' = NoStores /\ aligned' = {}
      /\ d' = d /\ size' = size /\ filled' = filled
  BY DEF StartShifted, Touch
<1>4. distance' = distance
  BY <1>3 DEF distance
<1> HIDE DEF k
<1>5. Touched'
  <2>1. Bytes(s, 64 - k) \subseteq Bytes(call.src, call.size)
    BY <1>1, <1>2 DEF Bytes
  <2> QED  BY <1>3, <2>1 DEF Touched, NoStores
<1>6. Remaining'
  <2>1. size \div 64 \in Nat /\ size = 64 * (size \div 64) + (size % 64)
    BY <1>1
  <2> QED  BY <1>3, <2>1 DEF Remaining
<1>7. /\ s' = call.src + (d - call.dst) - k + 64 /\ s' % 64 = 0
  BY <1>1, <1>2, <1>3
<1>8. Holds(zmm0', s' - 64, k)
  <2> SUFFICES ASSUME NEW i \in Positions, i >= k
               PROVE  zmm0'[i] = s' - 64 + i
    BY DEF Holds
  <2>1. zmm0'[i] = s - k + i
    BY <1>2, <1>3 DEF LoadFrom, Positions
  <2> QED  BY <1>1, <1>2, <1>3, <2>1
<1>9. Underway' /\ Serves(pc', distance')
  BY <1>2, <1>3, <1>4 DEF Underway, k
<1>10. (Holds(zmm0, s - 64, distance))'
  BY <1>2, <1>4, <1>8 DEF Holds, Positions
<1> QED  BY <1>2, <1>3, <1>4, <1>5, <1>6, <1>7, <1>9, <1>10 DEF MoveInv, Loops

\* Entering the loop without a shift.
LEMMA PlainStarts ==
    ASSUME call \in Calls, call.op = "mem_move", call' = call, Underway, InStep, d % 64 = 0,
           size = call.dst + call.size - d, call.dst % 64 = 0 => s % 64 = 0, StartPlain,
           Bytes(call.src, call.size) \cap Bytes(call.dst, call.size) = {}
    PROVE  MoveInv'
<1>1. /\ call.dst \in Nat /\ call.size \in Nat /\ d \in Nat /\ d <= call.dst + call.size
      /\ size \in Nat
  BY CallAssumption DEF Underway
<1>2. /\ pc' = "plain" /\ left' = size \div 64 /\ s' = s /\ d' = d /\ size' = size
      /\ filled' = filled /\ reads' = {} /\ stores' = NoStores /\ aligned' = {}
  BY DEF StartPlain, Touch
<1>3. Remaining'
  <2>1. size \div 64 \in Nat /\ size = 64 * (size \div 64) + (size % 64)
    BY <1>1
  <2> QED  BY <1>1, <1>2, <2>1 DEF Remaining
<1>4. Touched'
  BY <1>2 DEF Touched, NoStores
<1> QED  BY <1>2, <1>3, <1>4 DEF MoveInv, Underway, InStep, Loops

\* A byte-wise copy of all that is left ends the call.
LEMMA PxEnds ==
    ASSUME call \in Calls, call.op = "mem_move", call' = call, Underway, InStep,
           NEW count \in Nat, d + count = call.dst + call.size, PxCopy(count, "done")
    PROVE  MoveInv'
<1>1. d + count <= call.dst + call.size
  BY CallAssumption
<1>2. Touched' /\ pc' = "done" /\ filled' = d + count
  BY <1>1, PxAdvances
<1> QED  BY <1>2 DEF MoveInv, Loops

\* Stored: four vectors that continue the source.
LEMMA StoredVectors ==
    ASSUME NEW v, NEW from \in Int, d \in Nat,
           \A k \in 0 .. 3 : Holds(v[k], from + 64 * k, 0)
    PROVE  /\ DOMAIN Stored(v) = Bytes(d, 256)
           /\ \A a \in Bytes(d, 256) : Stored(v)[a] = from + a - d
<1> SUFFICES ASSUME NEW a \in Bytes(d, 256)
             PROVE  v[(a - d) \div 64][(a - d) % 64] = from + a - d
  BY DEF Stored
<1> DEFINE k == (a - d) \div 64
           i == (a - d) % 64
<1>1. /\ a \in Int /\ k \in 0 .. 3 /\ i \in Positions /\ i >= 0 /\ 64 * k + i = a - d
      /\ i \in Int
  BY DEF Bytes, Positions
<1> HIDE DEF k, i
<1>2. v[k][i] = from + 64 * k + i
  BY <1>1 DEF Holds
<1>3. v[k][i] = from + a - d
  BY <1>1, <1>2
<1> QED  BY <1>3 DEF k, i

\* One turn of a shifted loop.
LEMMA TurnKeeps ==
    ASSUME call \in Calls, call.op = "mem_move", call' = call, MoveInv, ShiftedTurn
    PROVE  MoveInv'
<1>1. /\ call.src \in Nat /\ call.dst \in Nat /\ call.size \in Nat /\ pc \in Loops /\ left > 4
      /\ Underway /\ Remaining /\ d % 64 = 0 /\ Serves(pc, distance)
      /\ s = call.src + (d - call.dst) - distance + 64 /\ s % 64 = 0
      /\ Holds(zmm0, s - 64, distance)
      /\ Bytes(call.src, call.size) \cap Bytes(call.dst, call.size) = {}
  BY CallAssumption DEF MoveInv, ShiftedTurn, Loops
<1>2. /\ d \in Nat /\ d >= call.dst /\ left \in Nat /\ distance \in 1 .. 63 /\ s \in Nat
      /\ call.dst + call.size - d >= 320 /\ size \in Nat /\ size % 64 \in 0 .. 63
      /\ filled = d
  BY <1>1 DEF Underway, Remaining, Serves
<1> DEFINE a == [k \in 0 .. 4 |-> IF k = 0 THEN zmm0 ELSE Load(s + 64 * (k - 1))]
           v == [k \in 0 .. 3 |-> Shifted(pc, a[k], a[k + 1])]
           from == call.src + (d - call.dst)
<1>3. /\ zmm0' = a[4] /\ reads' = Bytes(s, 256) /\ stores' = Stored(v) /\ aligned' = {s, d}
      /\ Fill(Stored(v)) /\ s' = s + 256 /\ d' = d + 256 /\ left' = left - 4
      /\ pc' = pc /\ size' = size
  BY DEF ShiftedTurn, Touch
<1>4. \A k \in 0 .. 3 : Holds(v[k], from + 64 * k, 0)
  <2> SUFFICES ASSUME NEW k \in 0 .. 3
               PROVE  Holds(v[k], from + 64 * k, 0)
    OBVIOUS
  <2> DEFINE base == s - 64 + 64 * k
  <2>1. base \in Int /\ base + distance = from + 64 * k
    BY <1>1, <1>2
  <2>2. Holds(a[k], base, distance)
    <3>1. CASE k = 0
      BY <1>1, <1>2, <3>1 DEF Holds, Positions
    <3>2. CASE k # 0
      BY <1>2, <3>2 DEF Holds, Load, Positions
    <3> QED  BY <3>1, <3>2
  <2>3. Holds(a[k + 1], base + 64, 0)
    BY <1>2 DEF Holds, Load, Positions
  <2>4. v[k] = Shifted(pc, a[k], a[k + 1])
    OBVIOUS
  <2> HIDE DEF a, v, base, from
  <2>5. Holds(Shifted(pc, a[k], a[k + 1]), base + distance, 0)
    BY <1>1, <2>1, <2>2, <2>3, ShiftedHolds
  <2> QED  BY <2>1, <2>4, <2>5
<1>5. a[4] = Load(s + 192)
  BY <1>2
<1> HIDE DEF a, v
<1>6. /\ DOMAIN Stored(v) = Bytes(d, 256)
      /\ \A x \in Bytes(d, 256) : Stored(v)[x] = from + x - d
  BY <1>1, <1>2, <1>4, StoredVectors
<1>7. \A x \in Bytes(d, 256) : Stored(v)[x] = call.src + x - call.dst
  <2>1. ASSUME NEW x \in Bytes(d, 256)
        PROVE  from + x - d = call.src + x - call.dst
    <3>1. x \in Int
      BY <1>2 DEF Bytes
    <3>2. call.src \in Int /\ call.dst \in Int /\ d \in Int
      BY <1>1, <1>2
    <3> QED  BY <3>1, <3>2
  <2> HIDE DEF from
  <2> QED  BY <1>6, <2>1
<1>8. /\ filled' = d + 256
      /\ \A x \in DOMAIN stores' :
            x \in Bytes(call.dst, call.size) /\ stores'[x] = call.src + x - call.dst
  <2>1. d + 256 <= call.dst + call.size /\ 256 \in Nat
    BY <1>1, <1>2
  <2> QED  BY <1>1, <1>3, <1>6, <1>7, <2>1, Advances
<1>9. Touched'
  <2>1. Bytes(s, 256) \subseteq Bytes(call.src, call.size)
    BY <1>1, <1>2 DEF Bytes
  <2> QED  BY <1>1, <1>3, <1>8, <2>1 DEF Touched
<1>10. distance' = distance
  <2>1. from \in Int /\ call.src + (d' - call.dst) = from + 256
    BY <1>1, <1>2, <1>3
  <2> HIDE DEF from
  <2>2. (from + 256) % 64 = from % 64
    BY <2>1
  <2> QED  BY <2>1, <2>2 DEF distance, from
<1>11. Underway' /\ Remaining' /\ d' % 64 = 0 /\ s' % 64 = 0
  BY <1>1, <1>2, <1>3, <1>8 DEF Underway, Remaining
<1>12. s' = call.src + (d' - call.dst) - distance' + 64
  BY <1>1, <1>2, <1>3, <1>10
<1>13. (Holds(zmm0, s - 64, distance))'
  BY <1>2, <1>3, <1>5 DEF Holds, Load, Positions
<1> QED  BY <1>1, <1>3, <1>9, <1>10, <1>11, <1>12, <1>13 DEF MoveInv, Loops


\* One turn of the loop without a shift, and one of the remaining vectors.
LEMMA PlainKeeps ==
    ASSUME call \in Calls, call.op = "mem_move", call' = call, MoveInv, PlainLoop
    PROVE  MoveInv'
<1>1. /\ call.src \in Nat /\ call.dst \in Nat /\ call.size \in Nat /\ pc = "plain" /\ left > 3
      /\ Underway /\ InStep /\ Remaining /\ d % 64 = 0 /\ (call.dst % 64 = 0 => s % 64 = 0)
      /\ Bytes(call.src, call.size) \cap Bytes(call.dst, call.size) = {}
  BY CallAssumption DEF MoveInv, PlainLoop
<1>2. /\ d \in Nat /\ d >= call.dst /\ left \in Nat /\ s = call.src + (d - call.dst) /\ s \in Nat
      /\ call.dst + call.size - d >= 256 /\ size \in Nat /\ size % 64 \in 0 .. 63 /\ filled = d
  BY <1>1 DEF Underway, Remaining, InStep
<1> DEFINE v == [k \in 0 .. 3 |-> Load(s + 64 * k)]
<1>3. /\ reads' = Bytes(s, 256) /\ stores' = Stored(v)
      /\ aligned' = {d} \cup IF call.dst % 64 = 0 THEN {s} ELSE {}
      /\ Fill(Stored(v)) /\ s' = s + 256 /\ d' = d + 256 /\ left' = left - 4
      /\ pc' = pc /\ size' = size
  BY DEF PlainLoop, Touch
<1>4. \A k \in 0 .. 3 : Holds(v[k], s + 64 * k, 0)
  BY <1>2 DEF Holds, Load, Positions
<1> HIDE DEF v
<1>5. /\ DOMAIN Stored(v) = Bytes(d, 256)
      /\ \A x \in Bytes(d, 256) : Stored(v)[x] = s + x - d
  BY <1>2, <1>4, StoredVectors
<1>6. \A x \in Bytes(d, 256) : Stored(v)[x] = call.src + x - call.dst
  <2>1. ASSUME NEW x \in Bytes(d, 256)
        PROVE  s + x - d = call.src + x - call.dst
    <3>1. x \in Int
      BY <1>2 DEF Bytes
    <3> QED  BY <1>1, <1>2, <3>1
  <2> QED  BY <1>5, <2>1
<1>7. /\ filled' = d + 256
      /\ \A x \in DOMAIN stores' :
            x \in Bytes(call.dst, call.size) /\ stores'[x] = call.src + x - call.dst
  <2>1. d + 256 <= call.dst + call.size /\ 256 \in Nat
    BY <1>1, <1>2
  <2> QED  BY <1>1, <1>3, <1>5, <1>6, <2>1, Advances
<1>8. Touched'
  <2>1. Bytes(s, 256) \subseteq Bytes(call.src, call.size)
    BY <1>1, <1>2 DEF Bytes
  <2> QED  BY <1>1, <1>3, <1>7, <2>1 DEF Touched
<1>9. Underway' /\ InStep' /\ Remaining' /\ d' % 64 = 0 /\ (call.dst % 64 = 0 => s' % 64 = 0)
  BY <1>1, <1>2, <1>3, <1>7 DEF Underway, InStep, Remaining
<1> QED  BY <1>1, <1>3, <1>8, <1>9 DEF MoveInv, Loops

\* The vectors after the unrolled loop keep it.
LEMMA SingleKeeps ==
    ASSUME call \in Calls, call.op = "mem_move", call' = call, MoveInv, SingleVector
    PROVE  MoveInv'
<1>1. /\ call.src \in Nat /\ call.dst \in Nat /\ call.size \in Nat /\ pc = "single" /\ left > 0
      /\ Underway /\ InStep /\ Remaining /\ d % 64 = 0
      /\ Bytes(call.src, call.size) \cap Bytes(call.dst, call.size) = {}
  BY CallAssumption DEF MoveInv, SingleVector
<1>2. /\ d \in Nat /\ d >= call.dst /\ left \in Nat /\ s = call.src + (d - call.dst) /\ s \in Nat
      /\ call.dst + call.size - d >= 64 /\ size \in Nat /\ size % 64 \in 0 .. 63 /\ filled = d
  BY <1>1 DEF Underway, Remaining, InStep
<1> DEFINE st == [a \in Bytes(d, 64) |-> Load(s)[a - d]]
<1>3. /\ reads' = Bytes(s, 64) /\ stores' = st /\ aligned' = {d} /\ Fill(st)
      /\ s' = s + 64 /\ d' = d + 64 /\ left' = left - 1 /\ pc' = pc /\ size' = size
  BY DEF SingleVector, Touch
<1>4. DOMAIN st = Bytes(d, 64)
  OBVIOUS
<1>5. \A x \in Bytes(d, 64) : st[x] = call.src + x - call.dst
  <2> SUFFICES ASSUME NEW x \in Bytes(d, 64)
               PROVE  st[x] = call.src + x - call.dst
    OBVIOUS
  <2>1. x \in Int /\ x - d \in Positions
    BY <1>2 DEF Bytes, Positions
  <2>2. st[x] = s + (x - d)
    BY <2>1 DEF Load
  <2> HIDE DEF st
  <2> QED  BY <1>1, <1>2, <2>1, <2>2
<1> HIDE DEF st
<1>6. /\ filled' = d + 64
      /\ \A x \in DOMAIN stores' :
            x \in Bytes(call.dst, call.size) /\ stores'[x] = call.src + x - call.dst
  <2>1. d + 64 <= call.dst + call.size /\ 64 \in Nat
    BY <1>1, <1>2
  <2> QED  BY <1>1, <1>3, <1>4, <1>5, <2>1, Advances
<1>7. Touched'
  <2>1. Bytes(s, 64) \subseteq Bytes(call.src, call.size)
    BY <1>1, <1>2 DEF Bytes
  <2> QED  BY <1>1, <1>3, <1>6, <2>1 DEF Touched
<1>8. Underway' /\ InStep' /\ Remaining' /\ d' % 64 = 0
  BY <1>1, <1>2, <1>3, <1>6 DEF Underway, InStep, Remaining
<1> QED  BY <1>1, <1>3, <1>7, <1>8 DEF MoveInv, Loops

\* Which loop follows an unaligned head, and that it fits its distance.
LEMMA AfterHeadKeeps ==
    ASSUME call \in Calls, call.op = "mem_move", call' = call, MoveInv, ChooseAfterHead
    PROVE  MoveInv'
<1>1. /\ call.src \in Nat /\ call.dst \in Nat /\ call.size \in Nat /\ pc = "head"
      /\ Underway /\ InStep /\ d % 64 = 0 /\ call.dst % 64 # 0
      /\ size = call.dst + call.size - d /\ size >= 64
      /\ Bytes(call.src, call.size) \cap Bytes(call.dst, call.size) = {}
  BY CallAssumption DEF MoveInv, ChooseAfterHead
<1>2. /\ d \in Nat /\ size \in Nat /\ s \in Nat /\ d + size = call.dst + call.size
      /\ Shift \in 0 .. 63
  BY <1>1 DEF Underway, InStep, Shift
<1>3. CASE StartPlain
  BY <1>1, <1>3, PlainStarts
<1>4. CASE Shift % 16 # 0 /\ Shift % 4 = 0 /\ StartShifted("alignr")
  <2>1. Serves("alignr", Shift) /\ "alignr" \in Loops
    BY <1>2, <1>4 DEF Serves, Loops
  <2> QED  BY <1>1, <1>4, <2>1, ShiftedStarts
<1>5. CASE Shift % 4 = 2 /\ StartShifted("permutex")
  <2>1. Serves("permutex", Shift) /\ "permutex" \in Loops
    BY <1>2, <1>5 DEF Serves, Loops
  <2> QED  BY <1>1, <1>5, <2>1, ShiftedStarts
<1>6. CASE Shift % 2 = 1 /\ (Shift < 16 \/ Shift > 48)
            /\ StartShifted(IF Shift < 16 THEN "odd_low" ELSE "odd_high")
  <2> DEFINE loop == IF Shift < 16 THEN "odd_low" ELSE "odd_high"
  <2>1. Serves(loop, Shift) /\ loop \in Loops
    BY <1>2, <1>6 DEF Serves, Loops
  <2>2. StartShifted(loop)
    BY <1>6
  <2> HIDE DEF loop
  <2> QED  BY <1>1, <2>1, <2>2, ShiftedStarts
<1>7. CASE PxCopy(size, "done")
  BY <1>1, <1>2, <1>7, PxEnds
<1> QED  BY <1>3, <1>4, <1>5, <1>6, <1>7 DEF ChooseAfterHead

\* The same for a destination that was aligned from the start.
LEMMA AlignedKeeps ==
    ASSUME call \in Calls, call.op = "mem_move", call' = call, MoveInv, ChooseAligned
    PROVE  MoveInv'
<1>1. /\ call.src \in Nat /\ call.dst \in Nat /\ call.size \in Nat /\ pc = "copy"
      /\ Underway /\ InStep /\ d = call.dst /\ size = call.size
      /\ size >= Kilobyte /\ align_dst = 64
      /\ Bytes(call.src, call.size) \cap Bytes(call.dst, call.size) = {}
  BY CallAssumption DEF MoveInv, ChooseAligned
<1>2. /\ d \in Nat /\ size \in Nat /\ s \in Nat /\ d + size = call.dst + call.size
      /\ size = call.dst + call.size - d /\ Shift \in 0 .. 63 /\ Shift = s % 64 /\ d % 64 = 0
      /\ (align_src < 64 => Shift # 0) /\ (align_src = 64 => s % 64 = 0)
  <2>1. d \in Nat /\ size \in Nat /\ s \in Nat
    BY <1>1 DEF InStep
  <2>2. d % 64 \in 0 .. 63 /\ s % 64 \in 0 .. 63
    BY <2>1
  <2>3. 64 - (d % 64) = 64
    BY <1>1 DEF align_dst
  <2>4. d % 64 = 0
    BY <2>2, <2>3
  <2>5. (64 - (s % 64) < 64 => s % 64 # 0) /\ (64 - (s % 64) = 64 => s % 64 = 0)
    BY <2>2
  <2>6. d + size = call.dst + call.size /\ size = call.dst + call.size - d
    BY <1>1
  <2> QED  BY <2>1, <2>2, <2>4, <2>5, <2>6 DEF Shift, align_src
<1>3. size >= 32 * Kilobyte => size >= 64
  BY <1>2, CallAssumption
<1>4. CASE PxCopy(size, "done")
  BY <1>1, <1>2, <1>4, PxEnds
<1>5. CASE align_src = 64 /\ StartPlain
  BY <1>1, <1>2, <1>5, PlainStarts
<1>6. ASSUME NEW loop \in Loops, Serves(loop, Shift), size >= 32 * Kilobyte, StartShifted(loop)
      PROVE  MoveInv'
  BY <1>1, <1>2, <1>3, <1>6, ShiftedStarts
<1>7. CASE align_src < 64 /\ size >= 32 * Kilobyte /\ Shift % 4 = 0 /\ StartShifted("alignr")
  <2>1. Serves("alignr", Shift) /\ "alignr" \in Loops
    BY <1>2, <1>7 DEF Serves, Loops
  <2> QED  BY <1>6, <1>7, <2>1
<1>8. CASE align_src < 64 /\ size >= 32 * Kilobyte /\ Shift % 4 = 2 /\ StartShifted("permutex")
  <2>1. Serves("permutex", Shift) /\ "permutex" \in Loops
    BY <1>2, <1>8 DEF Serves, Loops
  <2> QED  BY <1>6, <1>8, <2>1
<1>9. CASE /\ align_src < 64 /\ size >= 32 * Kilobyte /\ Shift % 2 = 1 /\ Shift < 16
           /\ StartShifted("odd_low")
  <2>1. Serves("odd_low", Shift) /\ "odd_low" \in Loops
    BY <1>2, <1>9 DEF Serves, Loops
  <2> QED  BY <1>6, <1>9, <2>1
<1>10. CASE /\ align_src < 64 /\ size >= 32 * Kilobyte /\ Shift % 2 = 1 /\ Shift > 48
            /\ StartShifted("odd_high")
  <2>1. Serves("odd_high", Shift) /\ "odd_high" \in Loops
    BY <1>2, <1>10 DEF Serves, Loops
  <2> QED  BY <1>6, <1>10, <2>1
<1> QED  BY <1>4, <1>5, <1>7, <1>8, <1>9, <1>10 DEF ChooseAligned

\* One step of a move keeps it.
LEMMA MoveKeeps ==
    ASSUME OwnPc, MoveInv, MoveNext
    PROVE  MoveInv'
<1>1. /\ call' = call /\ call.op = "mem_move" /\ call \in Calls
      /\ call.src \in Nat /\ call.dst \in Nat /\ call.size \in Nat
  BY MoveOwns, CallAssumption DEF OwnPc
<1>2. CASE EnterMove
  <2>1. /\ s' = call.src /\ d' = call.dst /\ size' = call.size /\ filled' = call.dst
        /\ reads' = {} /\ stores' = NoStores /\ aligned' = {} /\ pc' \in {"copy", "overlap"}
        /\ pc' = "copy" => call.src + call.size <= call.dst \/ call.src >= call.dst + call.size
    BY <1>2 DEF EnterMove, Touch
  <2>2. pc' = "copy" => Bytes(call.src, call.size) \cap Bytes(call.dst, call.size) = {}
    BY <1>1, <2>1 DEF Bytes
  <2>3. Touched'
    BY <2>1 DEF Touched, NoStores
  <2>4. Underway' /\ InStep'
    BY <1>1, <2>1 DEF Underway, InStep
  <2> QED  BY <1>1, <2>1, <2>2, <2>3, <2>4 DEF MoveInv, Loops
<1>3. CASE RefMove
  <2> DEFINE st == Copied(call.src, call.dst, call.size)
  <2>1. /\ pc' = "done" /\ filled' = call.dst + call.size
        /\ reads' = Range(st) /\ stores' = st /\ aligned' = {}
    BY <1>3 DEF RefMove, Touch
  <2>2. /\ DOMAIN st = Bytes(call.dst, call.size)
        /\ \A a \in Bytes(call.dst, call.size) : st[a] = call.src + a - call.dst
    BY DEF Copied
  <2>3. \A a \in Bytes(call.dst, call.size) : st[a] \in Bytes(call.src, call.size)
    <3> SUFFICES ASSUME NEW a \in Bytes(call.dst, call.size)
                 PROVE  call.src + a - call.dst \in Bytes(call.src, call.size)
      BY <2>2
    <3>1. a \in Int /\ a >= call.dst /\ a <= call.dst + call.size - 1
      BY <1>1 DEF Bytes
    <3>2. /\ call.src + a - call.dst \in Int /\ call.src + a - call.dst >= call.src
          /\ call.src + a - call.dst <= call.src + call.size - 1
      BY <1>1, <3>1
    <3> QED  BY <1>1, <3>2 DEF Bytes
  <2> HIDE DEF st
  <2>4. Touched'
    BY <1>1, <2>1, <2>2, <2>3 DEF Touched, Range
  <2> QED  BY <1>1, <2>1, <2>4 DEF MoveInv, Loops
<1>4. CASE CopyBySize
  <2>1. Underway /\ InStep /\ size \in Nat /\ d + size = call.dst + call.size
    BY <1>1, <1>4 DEF CopyBySize, MoveInv
  <2> QED  BY <1>1, <1>4, <2>1, PxEnds DEF CopyBySize
<1>5. CASE CopyHead
  <2>1. /\ Underway /\ InStep /\ size \in Nat /\ d + size = call.dst + call.size /\ d = call.dst
        /\ size = call.size /\ pc = "copy"
        /\ Bytes(call.src, call.size) \cap Bytes(call.dst, call.size) = {}
    BY <1>1, <1>5 DEF CopyHead, MoveInv
  <2>2. CASE size < 4 * Kilobyte
    BY <1>1, <1>5, <2>1, <2>2, PxEnds DEF CopyHead
  <2>3. CASE ~(size < 4 * Kilobyte)
    <3> DEFINE h == align_dst
    <3>1. PxCopy(h, "head")
      BY <1>5, <2>3 DEF CopyHead
    <3>2. h \in 1 .. 63 /\ (d + h) % 64 = 0 /\ d % 64 # 0 /\ size >= 127 /\ h \in Nat
      BY <1>1, <1>5, <2>1, <2>3, CallAssumption DEF CopyHead, align_dst
    <3> HIDE DEF h
    <3>3. d + h <= call.dst + call.size
      BY <1>1, <2>1, <3>2
    <3>4. /\ Touched' /\ pc' = "head" /\ filled' = d + h /\ d' = d + h
          /\ size' = size - h /\ InStep'
      BY <1>1, <2>1, <3>1, <3>2, <3>3, PxAdvances
    <3>5. Underway' /\ size' = call.dst + call.size - d' /\ size' >= 64
      BY <1>1, <2>1, <3>2, <3>4 DEF Underway
    <3> QED  BY <1>1, <2>1, <3>2, <3>4, <3>5 DEF MoveInv, Loops
  <2> QED  BY <2>2, <2>3
<1>6. CASE ChooseAfterHead
  BY <1>1, <1>6, AfterHeadKeeps
<1>7. CASE ChooseAligned
  BY <1>1, <1>7, AlignedKeeps
<1>8. CASE ShiftedLoopAfterHead \/ ShiftedLoopAligned
  BY <1>1, <1>8, TurnKeeps DEF ShiftedLoopAfterHead, ShiftedLoopAligned
<1>9. CASE ShiftedEnd
  <2>1. /\ pc' = "single" /\ s' = s - (64 - distance) /\ d' = d /\ size' = size /\ left' = left
        /\ filled' = filled /\ reads' = {} /\ stores' = NoStores /\ aligned' = {}
    BY <1>9 DEF ShiftedEnd, Touch
  <2>2. /\ Underway /\ Remaining /\ d % 64 = 0 /\ distance \in 1 .. 63 /\ d \in Nat
        /\ s = call.src + (d - call.dst) - distance + 64
        /\ Bytes(call.src, call.size) \cap Bytes(call.dst, call.size) = {}
    BY <1>1, <1>9 DEF ShiftedEnd, MoveInv, Loops, Serves, Underway
  <2>3. Touched'
    BY <2>1 DEF Touched, NoStores
  <2>4. Underway' /\ Remaining' /\ InStep'
    BY <1>1, <2>1, <2>2 DEF Underway, Remaining, InStep
  <2> QED  BY <1>1, <2>1, <2>2, <2>3, <2>4 DEF MoveInv, Loops
<1>10. CASE PlainLoop
  BY <1>1, <1>10, PlainKeeps
<1>11. CASE PlainEnd
  <2>1. /\ pc' = "single" /\ s' = s /\ d' = d /\ size' = size /\ left' = left
        /\ filled' = filled /\ reads' = {} /\ stores' = NoStores /\ aligned' = {}
    BY <1>11 DEF PlainEnd, Touch, moveVars
  <2>2. Touched'
    BY <2>1 DEF Touched, NoStores
  <2> QED  BY <1>1, <1>11, <2>1, <2>2 DEF PlainEnd, MoveInv, Loops, Underway, InStep, Remaining
<1>12. CASE SingleVector
  BY <1>1, <1>12, SingleKeeps
<1>13. CASE MoveTail
  <2>1. Underway /\ InStep /\ size % 64 \in Nat /\ d + (size % 64) = call.dst + call.size
    BY <1>1, <1>13 DEF MoveTail, MoveInv, Remaining, Underway
  <2> QED  BY <1>1, <1>13, <2>1, PxEnds DEF MoveTail
<1> QED  BY <1>2, <1>3, <1>4, <1>5, <1>6, <1>7, <1>8, <1>9, <1>10, <1>11, <1>12, <1>13
         DEF MoveNext


-----------------------------------------------------------------------------
(* CRC: what the kernels read.  What they compute is left to the model checker. *)

\* CRC: the last step read only the source; `ptr` and `len` stand in the relation that the
\* loop they are in relies on, and the loop is left at the length its successor needs.
CrcInv ==
    call.op = "crc" =>
        /\ reads \subseteq Bytes(0, call.size)
        /\ pc \in {"generate", "opt"} => ptr = 0 /\ len = call.size
        /\ pc \in {"long_le", "long_be"} => call.size >= 1024 /\ len = call.size
        /\ pc \in {"fold128", "fold8"} => ptr \in Nat /\ len = call.size - 256 - ptr
        /\ pc = "fold128" => len >= 0
        /\ pc = "fold8" => len \in -128 .. -1
        /\ pc \in {"reduce16", "final"} => ptr \in Nat /\ ptr >= 16 /\ len = call.size - 16 - ptr
        /\ pc = "reduce16" => len >= 0
        /\ pc = "final" => len \in -16 .. -1
        /\ pc = "last_two" => ptr \in Nat /\ ptr >= 16 /\ len = call.size - ptr /\ len \in 1 .. 15
        /\ pc = "fold512" => /\ ptr \in Nat /\ ptr % 16 = 0 /\ len = call.size + 64 - ptr
                             /\ len >= 64
        /\ pc = "fold16" => /\ ptr \in Nat /\ ptr % 16 = 0 /\ len = call.size + 16 - ptr
                            /\ len >= 16
        /\ pc \in {"reference", "ref_only"} => ptr \in 0 .. call.size

\* A piece of the source.
LEMMA Piece ==
    ASSUME NEW n \in Nat, NEW first \in Nat, NEW count \in Nat, first + count <= n
    PROVE  Bytes(first, count) \subseteq Bytes(0, n)
  BY DEF Bytes

\* One step of a CRC keeps it.
LEMMA CrcKeeps ==
    ASSUME OwnPc, CrcInv, CrcNext
    PROVE  CrcInv'
<1>1. call' = call /\ call.op = "crc" /\ call.size \in Nat
  BY CrcOwns, CallAssumption DEF OwnPc
<1>0. Signed(call.size) = call.size
  <2>1. 2 * call.size < SizeRange
    BY <1>1, CallAssumption DEF OwnPc
  <2> QED  BY <2>1 DEF Signed
<1>2. CASE EnterCrc \/ RefCrc
  <2>1. /\ reads' = {} /\ ptr' = 0
        /\ \/ pc' \in {"generate", "opt", "long_le", "long_be"} /\ len' = call.size
           \/ pc' = "ref_only"
        /\ pc' \in {"long_le", "long_be"} => ~(call.size < 1024)
    BY <1>0, <1>2 DEF EnterCrc, RefCrc, ReadsNothing, Touch
  <2> QED  BY <1>1, <2>1 DEF CrcInv
<1>3. CASE Generate
  <2>1. pc = "generate" /\ reads' = {} /\ ptr' = ptr /\ len' = len /\ pc' \in {"generate", "opt"}
    BY <1>3 DEF Generate, ReadsNothing, Touch
  <2> QED  BY <1>1, <2>1 DEF CrcInv
<1>4. ASSUME NEW r \in BOOLEAN, OptStart(r)
      PROVE  CrcInv'
  <2>0. pc = "opt" /\ ptr = 0 /\ len = call.size
    <3>1. pc = "opt"
      BY <1>4 DEF OptStart, Start256, Start32, Start16, Start4, Start1, Start0
    <3> QED  BY <1>1, <3>1 DEF CrcInv
  <2>1. CASE Start256(r)
    <3>1. /\ len >= 256 /\ len' = len - 256 /\ pc' = "fold128" /\ ptr' = ptr
          /\ reads' = Bytes(0, 128)
      BY <2>1 DEF Start256, Reads, Touch
    <3>2. reads' \subseteq Bytes(0, call.size)
      <4>1. 0 \in Nat /\ 128 \in Nat /\ 0 + 128 <= call.size
        BY <1>1, <2>0, <3>1
      <4> QED  BY <1>1, <3>1, <4>1, Piece
    <3> QED  BY <1>1, <2>0, <3>1, <3>2 DEF CrcInv
  <2>2. CASE Start32(r)
    <3>1. /\ len \in 32 .. 255 /\ len' = len - 32 /\ pc' = "reduce16" /\ ptr' = 16
          /\ reads' = Bytes(0, 16)
      BY <2>2 DEF Start32, Reads, Touch
    <3>2. reads' \subseteq Bytes(0, call.size)
      <4>1. 0 \in Nat /\ 16 \in Nat /\ 0 + 16 <= call.size
        BY <1>1, <2>0, <3>1
      <4> QED  BY <1>1, <3>1, <4>1, Piece
    <3> QED  BY <1>1, <2>0, <3>1, <3>2 DEF CrcInv
  <2>3. CASE Start16(r)
    <3>1. /\ len \in 16 .. 31 /\ len' = len - 16 /\ ptr' = 16 /\ reads' = Bytes(0, 16)
          /\ pc' = IF len = 16 THEN "done128" ELSE "last_two"
      BY <2>3 DEF Start16, Reads, Touch
    <3>2. reads' \subseteq Bytes(0, call.size)
      <4>1. 0 \in Nat /\ 16 \in Nat /\ 0 + 16 <= call.size
        BY <1>1, <2>0, <3>1
      <4> QED  BY <1>1, <3>1, <4>1, Piece
    <3> QED  BY <1>1, <2>0, <3>1, <3>2 DEF CrcInv
  <2>4. CASE Start4(r) \/ Start1(r)
    <3>1. reads' = Bytes(0, len) /\ pc' \in {"done128", "barrett"}
      BY <2>4 DEF Start4, Start1, Reads, Touch
    <3> QED  BY <1>1, <2>0, <3>1 DEF CrcInv
  <2>5. CASE Start0(r)
    <3>1. reads' = {} /\ pc' = "reference" /\ ptr' = ptr
      BY <2>5 DEF Start0, ReadsNothing, Touch
    <3> QED  BY <1>1, <2>0, <3>1 DEF CrcInv
  <2> QED  BY <1>4, <2>1, <2>2, <2>3, <2>4, <2>5 DEF OptStart
<1>5. ASSUME NEW r \in BOOLEAN, OptFold(r)
      PROVE  CrcInv'
  <2>1. CASE Fold128(r)
    <3>1. /\ pc = "fold128" /\ ptr' = ptr + 128 /\ len' = len - 128
          /\ pc' = (IF len - 128 >= 0 THEN "fold128" ELSE "fold8")
          /\ reads' = Bytes(ptr + 128, 128)
      BY <2>1 DEF Fold128, Reads, Touch
    <3>2. ptr \in Nat /\ len = call.size - 256 - ptr /\ len >= 0
      BY <1>1, <3>1 DEF CrcInv
    <3>3. reads' \subseteq Bytes(0, call.size)
      <4>1. ptr + 128 \in Nat /\ 128 \in Nat /\ ptr + 128 + 128 <= call.size
        BY <1>1, <3>1, <3>2
      <4> QED  BY <1>1, <3>1, <4>1, Piece
    <3> QED  BY <1>1, <3>1, <3>2, <3>3 DEF CrcInv
  <2>2. CASE FoldEight(r)
    <3>1. /\ pc = "fold8" /\ ptr' = ptr + 128 /\ len' = len + 112 /\ reads' = {}
          /\ pc' = IF len + 112 < 0 THEN "final" ELSE "reduce16"
      BY <2>2 DEF FoldEight, ReadsNothing, Touch
    <3>2. ptr \in Nat /\ len = call.size - 256 - ptr /\ len \in -128 .. -1
      BY <1>1, <3>1 DEF CrcInv
    <3> QED  BY <1>1, <3>1, <3>2 DEF CrcInv
  <2>3. CASE Reduce16(r)
    <3>1. /\ pc = "reduce16" /\ ptr' = ptr + 16 /\ len' = len - 16
          /\ pc' = (IF len - 16 >= 0 THEN "reduce16" ELSE "final") /\ reads' = Bytes(ptr, 16)
      BY <2>3 DEF Reduce16, Reads, Touch
    <3>2. ptr \in Nat /\ ptr >= 16 /\ len = call.size - 16 - ptr /\ len >= 0
      BY <1>1, <3>1 DEF CrcInv
    <3>3. reads' \subseteq Bytes(0, call.size)
      <4>1. ptr \in Nat /\ 16 \in Nat /\ ptr + 16 <= call.size
        BY <1>1, <3>1, <3>2
      <4> QED  BY <1>1, <3>1, <4>1, Piece
    <3> QED  BY <1>1, <3>1, <3>2, <3>3 DEF CrcInv
  <2> QED  BY <1>5, <2>1, <2>2, <2>3 DEF OptFold
<1>6. ASSUME NEW r \in BOOLEAN, OptEnd(r)
      PROVE  CrcInv'
  <2>1. CASE Final(r)
    <3>1. /\ pc = "final" /\ ptr' = ptr /\ len' = len + 16 /\ reads' = {}
          /\ pc' = IF len + 16 = 0 THEN "done128" ELSE "last_two"
      BY <2>1 DEF Final, ReadsNothing, Touch
    <3>2. ptr \in Nat /\ ptr >= 16 /\ len = call.size - 16 - ptr /\ len \in -16 .. -1
      BY <1>1, <3>1 DEF CrcInv
    <3> QED  BY <1>1, <3>1, <3>2 DEF CrcInv
  <2>2. CASE LastTwo(r)
    <3>1. pc = "last_two" /\ pc' = "done128" /\ reads' = Bytes(ptr - 16 + len, 16)
      BY <2>2 DEF LastTwo, Reads, Touch
    <3>2. ptr \in Nat /\ ptr >= 16 /\ len = call.size - ptr /\ len \in 1 .. 15
      BY <1>1, <3>1 DEF CrcInv
    <3>3. reads' \subseteq Bytes(0, call.size)
      <4>1. ptr - 16 + len \in Nat /\ 16 \in Nat /\ ptr - 16 + len + 16 <= call.size
        BY <1>1, <3>1, <3>2
      <4> QED  BY <1>1, <3>1, <4>1, Piece
    <3> QED  BY <1>1, <3>1, <3>3 DEF CrcInv
  <2>3. CASE Done128(r) \/ Reduce(r)
    <3>1. /\ reads' = {} /\ pc' \in {"barrett", "reference"}
          /\ pc' = "reference" => ptr' = 0
      BY <2>3 DEF Done128, Reduce, ReadsNothing, Touch
    <3> QED  BY <1>1, <3>1 DEF CrcInv
  <2> QED  BY <1>6, <2>1, <2>2, <2>3 DEF OptEnd
<1>7. ASSUME NEW r \in BOOLEAN, LongStep(r)
      PROVE  CrcInv'
  <2>1. CASE LongStart(r)
    <3>1. /\ pc \in {"long_le", "long_be"} /\ ptr' = 64 /\ pc' = "fold512" /\ len' = len
          /\ reads' = Bytes(0, 64)
      BY <2>1 DEF LongStart, Reads, Touch
    <3>2. call.size >= 1024 /\ len = call.size
      BY <1>1, <3>1 DEF CrcInv
    <3>3. reads' \subseteq Bytes(0, call.size)
      <4>1. 0 \in Nat /\ 64 \in Nat /\ 0 + 64 <= call.size
        BY <1>1, <3>1, <3>2
      <4> QED  BY <1>1, <3>1, <4>1, Piece
    <3>4. 64 % 16 = 0
      OBVIOUS
    <3> QED  BY <1>1, <3>1, <3>2, <3>3, <3>4 DEF CrcInv
  <2>2. CASE LongFold512(r)
    <3>1. /\ pc = "fold512" /\ len >= 128 /\ ptr' = ptr + 64 /\ len' = len - 64 /\ pc' = pc
          /\ reads' = Bytes(ptr, 64)
      BY <2>2 DEF LongFold512, Reads, Touch
    <3>2. ptr \in Nat /\ ptr % 16 = 0 /\ len = call.size + 64 - ptr
      BY <1>1, <3>1 DEF CrcInv
    <3>3. reads' \subseteq Bytes(0, call.size)
      <4>1. ptr \in Nat /\ 64 \in Nat /\ ptr + 64 <= call.size
        BY <1>1, <3>1, <3>2
      <4> QED  BY <1>1, <3>1, <4>1, Piece
    <3>4. (ptr + 64) % 16 = 0
      BY <3>2
    <3> QED  BY <1>1, <3>1, <3>2, <3>3, <3>4 DEF CrcInv
  <2>3. CASE LongCombine(r)
    <3>1. pc = "fold512" /\ len' = len - 48 /\ pc' = "fold16" /\ ptr' = ptr /\ reads' = {}
      BY <2>3 DEF LongCombine, ReadsNothing, Touch
    <3>2. ptr \in Nat /\ ptr % 16 = 0 /\ len = call.size + 64 - ptr /\ len >= 64
      BY <1>1, <3>1 DEF CrcInv
    <3> QED  BY <1>1, <3>1, <3>2 DEF CrcInv
  <2>4. CASE LongFold16(r)
    <3>1. /\ pc = "fold16" /\ len >= 32 /\ ptr' = ptr + 16 /\ len' = len - 16 /\ pc' = pc
          /\ reads' = Bytes(ptr, 16)
      BY <2>4 DEF LongFold16, Reads, Touch
    <3>2. ptr \in Nat /\ ptr % 16 = 0 /\ len = call.size + 16 - ptr
      BY <1>1, <3>1 DEF CrcInv
    <3>3. reads' \subseteq Bytes(0, call.size)
      <4>1. ptr \in Nat /\ 16 \in Nat /\ ptr + 16 <= call.size
        BY <1>1, <3>1, <3>2
      <4> QED  BY <1>1, <3>1, <4>1, Piece
    <3>4. (ptr + 16) % 16 = 0
      BY <3>2
    <3> QED  BY <1>1, <3>1, <3>2, <3>3, <3>4 DEF CrcInv
  <2>5. CASE LongTail(r)
    <3>1. pc = "fold16" /\ pc' = "long_end" /\ reads' = Bytes(ptr, call.size % 16)
      BY <2>5 DEF LongTail, Reads, Touch
    <3>2. ptr \in Nat /\ ptr % 16 = 0 /\ len = call.size + 16 - ptr /\ len >= 16
      BY <1>1, <3>1 DEF CrcInv
    <3>3. call.size % 16 \in Nat /\ ptr + (call.size % 16) <= call.size
      BY <1>1, <3>2
    <3>4. reads' \subseteq Bytes(0, call.size)
      BY <1>1, <3>1, <3>2, <3>3, Piece
    <3> QED  BY <1>1, <3>1, <3>4 DEF CrcInv
  <2>6. CASE LongEnd(r)
    <3>1. reads' = {} /\ pc' = "reference" /\ ptr' = 0
      BY <2>6 DEF LongEnd, ReadsNothing, Touch
    <3> QED  BY <1>1, <3>1 DEF CrcInv
  <2> QED  BY <1>7, <2>1, <2>2, <2>3, <2>4, <2>5, <2>6 DEF LongStep
<1>8. CASE RefByte
  <2>1. /\ pc \in {"reference", "ref_only"} /\ ptr < call.size /\ ptr' = ptr + 1 /\ pc' = pc
        /\ reads' = Bytes(ptr, 1)
    BY <1>8 DEF RefByte, Reads, Touch
  <2>2. ptr \in 0 .. call.size
    BY <1>1, <2>1 DEF CrcInv
  <2>3. reads' \subseteq Bytes(0, call.size)
    BY <1>1, <2>1, <2>2, Piece
  <2> QED  BY <1>1, <2>1, <2>2, <2>3 DEF CrcInv
<1>9. CASE RefEnd
  <2>1. pc' = "done" /\ reads' = {}
    BY <1>9 DEF RefEnd, ReadsNothing, Touch
  <2> QED  BY <1>1, <2>1 DEF CrcInv
<1> QED  BY <1>2, <1>3, <1>4, <1>5, <1>6, <1>7, <1>8, <1>9 DEF CrcNext, own_CRC_8u_opt_k0,
            ReflectedStart, ReflectedShort, ReflectedFold, ReflectedEnd, OptStart,
            own_crc32_long_le_k0, own_crc32_long_be_k0

-----------------------------------------------------------------------------
(* The kernels together. *)

\* The kernels together: each at its own program counters, with its own invariant.
KInv == OwnPc /\ FillInv /\ CompareInv /\ FlushInv /\ MoveInv /\ CrcInv

\* A call that has not begun.
LEMMA InitKInv == Init => KInv
<1> SUFFICES ASSUME Init PROVE KInv
  OBVIOUS
<1>1. /\ call \in Calls /\ pc = "call" /\ reads = {} /\ stores = NoStores /\ aligned = {}
      /\ at = 0 /\ covered = 0 /\ flushed = {} /\ call.size \in Nat
  BY CallAssumption DEF Init, CallInit, ScanInit
<1>2. OwnPc
  BY <1>1 DEF OwnPc
<1>3. FillInv /\ CompareInv /\ MoveInv /\ CrcInv
  BY <1>1 DEF FillInv, CompareInv, MoveInv, CrcInv, Touched, NoStores, Loops
<1>4. FlushInv
  <2>1. call.size \div 64 \in Nat /\ 0 .. at - 1 = {}
    BY <1>1
  <2> QED  BY <1>1, <2>1 DEF FlushInv
<1> QED  BY <1>2, <1>3, <1>4 DEF KInv

\* Each kernel keeps its part, and the parts of the others speak of other calls.
LEMMA NextKInv == KInv /\ [Next]_vars => KInv'
<1> SUFFICES ASSUME KInv, [Next]_vars PROVE KInv'
  OBVIOUS
<1>0. OwnPc /\ FillInv /\ CompareInv /\ FlushInv /\ MoveInv /\ CrcInv
  BY DEF KInv
<1>1. CASE MoveNext
  <2>1. OwnPc' /\ call' = call /\ call.op = "mem_move" /\ MoveInv'
    BY <1>0, <1>1, MoveOwns, MoveKeeps
  <2> QED  BY <2>1 DEF KInv, FillInv, CompareInv, FlushInv, CrcInv
<1>2. CASE CrcNext
  <2>1. OwnPc' /\ call' = call /\ call.op = "crc" /\ CrcInv'
    BY <1>0, <1>2, CrcOwns, CrcKeeps
  <2> QED  BY <2>1 DEF KInv, FillInv, CompareInv, FlushInv, MoveInv
<1>3. CASE FillStep
  <2>1. OwnPc' /\ call' = call /\ call.op = "fill" /\ FillInv'
    BY <1>0, <1>3, FillOwns, FillKeeps
  <2> QED  BY <2>1 DEF KInv, CrcInv, CompareInv, FlushInv, MoveInv
<1>4. CASE EnterCompare \/ RefCompare \/ CompareStep \/ PatternStep
  <2>1. /\ OwnPc' /\ call' = call /\ call.op \in {"compare", "compare_pattern"}
        /\ CompareInv'
    BY <1>0, <1>4, CompareOwns, CompareKeeps
  <2> QED  BY <2>1 DEF KInv, CrcInv, FillInv, FlushInv, MoveInv
<1>5. CASE FlushStep
  <2>1. OwnPc' /\ call' = call /\ call.op = "cache_flush" /\ FlushInv'
    BY <1>0, <1>5, FlushOwns, FlushKeeps
  <2> QED  BY <2>1 DEF KInv, CrcInv, FillInv, CompareInv, MoveInv
<1>6. CASE UNCHANGED vars
  <2>1. UNCHANGED <<callVars, moveVars, scanVars, crcVars>>
    BY <1>6 DEF vars
  <2>2. OwnPc'
    BY <1>0, <2>1 DEF OwnPc, callVars
  <2>3. FillInv' /\ CompareInv' /\ FlushInv'
    BY <1>0, <2>1 DEF FillInv, CompareInv, FlushInv, callVars, scanVars
  <2>4. MoveInv'
    BY <1>0, <2>1 DEF MoveInv, Touched, Underway, InStep, Remaining, distance, callVars, moveVars
  <2>5. CrcInv'
    BY <1>0, <2>1 DEF CrcInv, callVars, crcVars
  <2> QED  BY <2>2, <2>3, <2>4, <2>5 DEF KInv
<1> QED  BY <1>1, <1>2, <1>3, <1>4, <1>5, <1>6 DEF Next, ScanNext, Returned, FillStep,
            CompareStep, PatternStep, FlushStep

\* Every call that the kernels run keeps the invariant of its kernel, from the dispatched
\* function's entry to its return.
THEOREM KernelInvariant == Spec => []KInv
  BY InitKInv, NextKInv, PTL DEF Spec

\* The fill kernels (reference and AVX-512) store the repeated pattern in every byte of
\* the destination and in no other byte, with aligned stores only at a line, for
\* every destination address and length.
THEOREM FillAlwaysPattern == Spec => []FillIsPattern
<1>1. KInv => FillIsPattern
  BY DEF KInv, FillInv, FillIsPattern
<1> QED  BY <1>1, KernelInvariant, PTL

\* Compare and compare-pattern by vectors return the result and the first mismatch of the
\* reference versions, and read no byte outside the sources, wherever the sources differ.
THEOREM ComparisonsAlwaysAgree == Spec => []ComparisonsAgree
<1>1. KInv => ComparisonsAgree
  BY DEF KInv, CompareInv, ComparisonsAgree
<1> QED  BY <1>1, KernelInvariant, PTL

\* A cache flush flushes only lines of its range, and all of them when the range is aligned
\* and the processor has the instruction.
THEOREM FlushAlwaysRange == Spec => []FlushesRange
<1>1. KInv => FlushesRange
  BY FlushedRange DEF KInv
<1> QED  BY <1>1, KernelInvariant, PTL

\* Memory move copies every byte of the source to its place, and stores nothing else,
\* for every pair of addresses: each shifted loop, the unaligned head, the masked tail and
\* the byte-wise copy for overlapping buffers.
THEOREM MoveAlwaysCopy == Spec => []MoveIsCopy
<1>1. KInv => MoveIsCopy
  BY DEF KInv, MoveInv, Touched, MoveIsCopy, IsMove
<1> QED  BY <1>1, KernelInvariant, PTL

\* Memory move loads no byte outside the source, although the shifted loops load whole
\* aligned vectors ahead of the destination.
THEOREM MoveAlwaysInside == Spec => []MoveWithinSource
<1>1. KInv => MoveWithinSource
  BY DEF KInv, MoveInv, Touched, MoveWithinSource, IsMove
<1> QED  BY <1>1, KernelInvariant, PTL

\* The CRC kernels read no byte outside the source, in the short, the folding and the long
\* versions and in their last partial vectors. What they compute is model-checked.
THEOREM CrcAlwaysInside == Spec => []CrcWithinSource
<1>1. KInv => CrcWithinSource
  BY DEF KInv, CrcInv, CrcWithinSource
<1> QED  BY <1>1, KernelInvariant, PTL
=============================================================================
