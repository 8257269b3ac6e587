----------------------------- MODULE MCKernels -----------------------------
(* Calls for Kernels.  The thresholds of copy_avx512 are scaled down with    *)
(* Kilobyte = 32; every distance of the alignments is taken, and sizes on    *)
(* both sides of every threshold.  SizeRange = 4096: the longest comparison  *)
(* is the longest that the code compares right.                             *)
EXTENDS Kernels

\* Every extension, none, and all of AVX-512 but one.
MCCpus == {Features, {}, DML_AVX512_MASK \ {"avx512bw"}}

Moves(sizes, targets) ==
    {[op |-> "mem_move", src |-> 64 + o, dst |-> 4096 + p, size |-> n] :
        o \in 0 .. 63, p \in targets, n \in sizes}

MCMoves ==
    Moves({128, 385, 511, 600, 1024, 1500}, {0, 1, 63}) \cup Moves({31, 1600}, {0, 7})
      \cup {[op |-> "mem_move", src |-> 100, dst |-> p, size |-> 80] : p \in {20, 21, 60, 150, 179, 180}}

MCFills ==
    {[op |-> "fill", dst |-> 64 + o, size |-> n] :
        o \in 0 .. 63, n \in {1, 31, 32, 33, 63, 64, 65, 127, 128, 200}}

\* Differences at one place, or at two.
Differences(n) == {{}} \cup {{o} : o \in 0 .. n - 1} \cup {{o, n - 1} : o \in {0, n \div 2}}
MCComparisons ==
    UNION {{[op |-> o, size |-> n, differ |-> x] : o \in {"compare", "compare_pattern"}, x \in Differences(n)} :
              n \in {1, 7, 8, 9, 63, 64, 65, 71, 129, 192}}
      \cup {[op |-> "compare", size |-> n, differ |-> x] : n \in {4030, 4031}, x \in {{}, {4029}}}

MCFlushes ==
    {[op |-> "cache_flush", dst |-> 128 + o, size |-> n, control |-> c] :
        o \in {0, 1, 32}, n \in {1, 64, 96, 128, 192}, c \in BOOLEAN}

MCData == [i \in 0 .. 1100 |-> (i * i * 7 + 31 * i + 13 + (i \div 16) * 57) % 256]

Crcs(sizes, polys, seeds) ==
    {[op |-> "crc", size |-> n, poly |-> p, seed |-> x, reflected |-> r] :
        n \in sizes, p \in polys, x \in seeds, r \in BOOLEAN}

\* CRC-32 (IEEE 802.3) as a polynomial without a table.
Ieee == Word(\h04C1, \h1DB7)
MCCrcs ==
    Crcs((0 .. 18) \cup {31, 32, 33, 47, 48, 255, 256, 257, 271, 272, 384, 400},
         {D_POLYNOMIAL_1}, {Word(\hFFFF, \h0FF1)})
      \cup Crcs({0, 1, 3, 9, 16, 19, 40, 260, 391}, {Ieee}, {Word(0, 0), Word(\h8000, \h0001)})
      \cup Crcs((1024 .. 1041) \cup {1055, 1056, 1072, 1087, 1088}, {D_POLYNOMIAL_1}, {Word(\h1234, \h5678)})

MCCalls == MCMoves \cup MCFills \cup MCComparisons \cup MCFlushes \cup MCCrcs

MCCaches ==
    <<[type |-> 1, ways |-> 1, partitions |-> 0, line |-> 15, sets |-> 15],
      [type |-> 2, ways |-> 7, partitions |-> 0, line |-> 63, sets |-> 63],
      [type |-> 31, ways |-> 9, partitions |-> 0, line |-> 63, sets |-> 63]>>
=============================================================================
