----------------------------- MODULE Avx512Crc -----------------------------
(***************************************************************************)
(* The vectorised CRC: carry-less multiplications fold 128-bit blocks by    *)
(* constants x^n mod P until 128 bits are left, which are reduced to 32    *)
(* (Barrett).  Several entries, one per range of lengths, share the end;   *)
(* a second version takes the bits of each byte in reverse, and two more    *)
(* serve the default polynomial from 1024 bytes on.                        *)
(*                                                                         *)
(* A polynomial over GF(2) is the set of its exponents, so a register is    *)
(* the set of its bits that are 1 and addition is symmetric difference.    *)
(* After a kernel has finished the reference kernel runs over the same      *)
(* bytes, and the two are compared.                                        *)
(***************************************************************************)
EXTENDS KernelCall

CONSTANT Data   \* Data[i]: byte i of every source buffer

VARIABLES
    xmm,     \* registers 0 .. 7
    ptr,     \* src_ptr, as an offset
    len,     \* the counters len and length
    koeff,   \* the table: P (q), x^64 / P (u), x^n mod P (k); last: largest n made
    crc,     \* the value the kernel returns
    ref      \* the reference kernel's value, as of the first ptr bytes

crcVars == <<xmm, ptr, len, koeff, crc, ref>>

-----------------------------------------------------------------------------
(* Polynomials and instructions. *)

Xor(a, b) == (a \ b) \cup (b \ a)
Times(a, n) == {i + n : i \in a}

Bits(n) == {i \in 0 .. 15 : (n \div 2^i) % 2 = 1}
Word(high, low) == Times(Bits(high), 16) \cup Bits(low)

Low(a) == {i \in a : i < 64}
High(a) == {i - 64 : i \in {j \in a : j >= 64}}

\* _mm_clmulepi64_si128 of two 64-bit halves
Clmul(a, b) ==
    {n \in 0 .. 126 : Cardinality({i \in a : (n - i) \in b}) % 2 = 1}

\* _mm_slli_si128, _mm_srli_si128
slli(a, count) == {i + 8 * count : i \in {j \in a : j + 8 * count < 128}}
srli(a, count) == {i - 8 * count : i \in {j \in a : j >= 8 * count}}

\* The bytes first .. first + count - 1 of the source in a register, the first
\* at the top: a load and ENDIA_SHUF_MASK.
Reversed(first, count) ==
    UNION {Times(Bits(Data[first + j]), 8 * (15 - j)) : j \in 0 .. count - 1}

\* D_REFL: the bits of every byte in reverse order.
D_REFL(a) == {8 * (i \div 8) + 7 - (i % 8) : i \in a}

\* A load as both versions of the kernel do it.
Block(r, first, count) ==
    IF r THEN D_REFL(Reversed(first, count)) ELSE Reversed(first, count)

Dword(a) == {i \in a : i < 32}

-----------------------------------------------------------------------------
(* Constants. *)

D_POLYNOMIAL_1 == Word(\h1EDC, \h6F41)

\* Exponents of the table, in the order of koeff[4] .. koeff[20].
Exponents == {64} \cup {96 + 64 * i : i \in 0 .. 15}

\* opt_poly_1_ptr
opt_poly_1 ==
    [q |-> Word(\h1EDC, \h6F41) \cup {32}, u |-> Word(\h1F91, \hCAF6) \cup {32},
     k |-> [n \in Exponents |->
        CASE n = 64  -> Word(\h3AAB, \h4576) [] n = 96  -> Word(\hD7A0, \h1665)
          [] n = 160 -> Word(\hFF60, \h609E) [] n = 224 -> Word(\hE287, \hE4BA)
          [] n = 288 -> Word(\hB8CA, \hA439) [] n = 352 -> Word(\hB78C, \h6837)
          [] n = 416 -> Word(\h4171, \h2870) [] n = 480 -> Word(\h3F76, \hA4F2)
          [] n = 544 -> Word(\h81EE, \hE05C) [] n = 608 -> Word(\hD29B, \h9738)
          [] n = 672 -> Word(\h6EEC, \hB820) [] n = 736 -> Word(\h8A3B, \h3E81)
          [] n = 800 -> Word(\hD339, \h9D07) [] n = 864 -> Word(\hCF5F, \hD885)
          [] n = 928 -> Word(\h1871, \h36A8) [] n = 992 -> Word(\h920D, \hB960)
          [] n = 1056 -> Word(\h8AE6, \h932C)],
     last |-> 1056]

\* tail += tail; tail ^= mask, on 32 bits
Doubled(tail, poly) ==
    LET twice == Dword(Times(tail, 1)) IN IF 31 \in tail THEN Xor(twice, poly) ELSE twice

\* The tail after n turns.
DoubledTimes(tail, poly, n) ==
    LET f[i \in 0 .. n] == IF i = 0 THEN tail ELSE Doubled(f[i - 1], poly) IN f[n]

\* poly1x64_32_div: nine bytes, the first of them 1, divided bit by bit; the
\* quotient is what the 72 turns shift out of the tail.
DivisionTurn(tail, bit, poly) ==
    LET t == Times(tail, 1) \cup bit IN Dword(IF 31 \in tail THEN Xor(t, poly) ELSE t)

poly1x64_32_div(poly) ==
    LET tail[i \in 0 .. 72] ==
            IF i = 0 THEN {} ELSE DivisionTurn(tail[i - 1], IF i = 8 THEN {0} ELSE {}, poly)
    IN  {72 - i : i \in {j \in 1 .. 72 : 31 \in tail[j - 1]}}

-----------------------------------------------------------------------------
CrcInit ==
    /\ xmm = [i \in 0 .. 7 |-> {}]
    /\ ptr = 0 /\ len = 0
    /\ koeff = [q |-> {}, u |-> {}, k |-> [n \in Exponents |-> {}], last |-> 32]
    /\ crc = {} /\ ref = {}

Register(i, value) == xmm' = [xmm EXCEPT ![i] = value]

\* The kernel reads the bytes first .. first + count - 1.
Reads(first, count) == Touch(Bytes(first, count), NoStores, {})
ReadsNothing == Touch({}, NoStores, {})

\* A size as an int.
Signed(n) == IF 2 * n < SizeRange THEN n ELSE n - SizeRange

\* dmlc_own_calculate_crc_32u and own_CRC_8u_k0, and their reflected versions:
\* the table of the default polynomial, or one to be generated.  Only the
\* versions for long sources of the default polynomial take the size as it is.
EnterCrc ==
    /\ Enter("crc", "avx512")
    /\ pc' = IF call.poly # D_POLYNOMIAL_1 THEN "generate"
             ELSE IF call.size < 1024 THEN "opt"
             ELSE IF call.reflected THEN "long_be" ELSE "long_le"
    /\ koeff' = IF call.poly = D_POLYNOMIAL_1 THEN opt_poly_1
                ELSE [koeff EXCEPT !.q = call.poly \cup {32},
                                   !.u = poly1x64_32_div(call.poly \cup {32})]
    /\ crc' = call.seed /\ ptr' = 0
    /\ len' = IF call.poly = D_POLYNOMIAL_1 /\ call.size >= 1024 THEN call.size ELSE Signed(call.size)
    /\ UNCHANGED <<xmm, ref>> /\ ReadsNothing

RefCrc ==
    /\ Enter("crc", "ref")
    /\ pc' = "ref_only"
    /\ ref' = call.seed /\ ptr' = 0
    /\ UNCHANGED <<xmm, len, koeff, crc>> /\ ReadsNothing

\* The exponent after n in the table.
NextExponent(n) == IF n < 96 THEN n + 32 ELSE n + 64

\* Bug: the loop stops one doubling early.
GenerateShort ==
    /\ pc = "generate"
    /\ LET n == NextExponent(koeff.last)
           tail == IF koeff.last = 32 THEN call.poly ELSE koeff.k[koeff.last]
       IN  /\ koeff' = [koeff EXCEPT !.last = n,
                          !.k[n] = DoubledTimes(tail, call.poly, n - koeff.last - 1)]
           /\ pc' = IF n = 1056 THEN "opt" ELSE "generate"
    /\ UNCHANGED <<xmm, ptr, len, crc, ref>> /\ ReadsNothing

\* own_gen_crc_opt_poly_8u: the powers of x one after the other, each from the
\* one before it, starting with x^32, which is P without its leading term.
Generate ==
    /\ pc = "generate"
    /\ LET n == NextExponent(koeff.last)
           tail == IF koeff.last = 32 THEN call.poly ELSE koeff.k[koeff.last]
       IN  /\ koeff' = [koeff EXCEPT !.last = n,
                          !.k[n] = DoubledTimes(tail, call.poly, n - koeff.last)]
           /\ pc' = IF n = 1056 THEN "opt" ELSE "generate"
    /\ UNCHANGED <<xmm, ptr, len, crc, ref>> /\ ReadsNothing

-----------------------------------------------------------------------------
(* own_CRC_8u_opt_k0 and own_CRC_reflected_8u_opt_k0.  The operators with a    *)
(* parameter r are the sections both have, r for the reflected one.         *)

\* The constant x^n as the code loads it, shifted by 32.
K(n) == Times(koeff.k[n], 32)

\* Both halves of a register multiplied by x^high and x^low.
Fold(x, high, low) == Xor(Clmul(High(x), K(high)), Clmul(Low(x), K(low)))

Seed == Times(crc, 96)

Start256(r) ==
    /\ pc = "opt" /\ call.reflected = r /\ len >= 256
    /\ xmm' = [i \in 0 .. 7 |-> IF i = 0 THEN Xor(Block(r, 0, 16), Seed) ELSE Block(r, 16 * i, 16)]
    /\ len' = len - 256 /\ pc' = "fold128"
    /\ UNCHANGED <<ptr, koeff, crc, ref>> /\ Reads(0, 128)

Fold128(r) ==
    /\ pc = "fold128" /\ call.reflected = r
    /\ xmm' = [i \in 0 .. 7 |-> Xor(Fold(xmm[i], 1056, 992), Block(r, ptr + 128 + 16 * i, 16))]
    /\ ptr' = ptr + 128 /\ len' = len - 128
    /\ pc' = IF len - 128 >= 0 THEN "fold128" ELSE "fold8"
    /\ UNCHANGED <<koeff, crc, ref>> /\ Reads(ptr + 128, 128)

\* Eight registers to one; register i is 7 - i blocks before the last.
FoldEight(r) ==
    /\ pc = "fold8" /\ call.reflected = r
    /\ LET sum[i \in 0 .. 7] ==
               IF i = 0 THEN xmm[7]
               ELSE Xor(sum[i - 1], Fold(xmm[i - 1], 928 - 128 * (i - 1), 864 - 128 * (i - 1)))
       IN  Register(7, sum[7])
    /\ ptr' = ptr + 128 /\ len' = len + 112
    /\ pc' = IF len + 112 < 0 THEN "final" ELSE "reduce16"
    /\ UNCHANGED <<koeff, crc, ref>> /\ ReadsNothing

Reduce16(r) ==
    /\ pc = "reduce16" /\ call.reflected = r
    /\ Register(7, Xor(Fold(xmm[7], 160, 96), Block(r, ptr, 16)))
    /\ ptr' = ptr + 16 /\ len' = len - 16
    /\ pc' = IF len - 16 >= 0 THEN "reduce16" ELSE "final"
    /\ UNCHANGED <<koeff, crc, ref>> /\ Reads(ptr, 16)

Final(r) ==
    /\ pc = "final" /\ call.reflected = r
    /\ len' = len + 16
    /\ pc' = IF len + 16 = 0 THEN "done128" ELSE "last_two"
    /\ UNCHANGED <<xmm, ptr, koeff, crc, ref>> /\ ReadsNothing

\* The shuffles by pshufb_shf_table move the register len bytes up; with the
\* table's top bits flipped they move it 16 - len bytes down.
ShuffleUp(x, count) == slli(x, count)
ShuffleDown(x, count) == srli(x, 16 - count)

\* The last, incomplete block: its 16 bytes are loaded from before the end, and
\* the bytes that are in the register already are taken from there.
LastTwo(r) ==
    /\ pc = "last_two" /\ call.reflected = r
    /\ LET last == Block(r, ptr - 16 + len, 16)
           up == ShuffleUp(xmm[7], len)
           blend == {i \in last : i < 8 * len} \cup {i \in up : i >= 8 * len}
       IN  Register(7, Xor(Fold(ShuffleDown(xmm[7], len), 160, 96), blend))
    /\ pc' = "done128"
    /\ UNCHANGED <<ptr, len, koeff, crc, ref>> /\ Reads(ptr - 16 + len, 16)

\* 128 bits to 64, with K96 and K64 as the constants of the two steps.
Reduce128(x, k96, k64) ==
    LET y == Xor(Clmul(High(x), k96), slli(x, 8))
    IN  Xor(Clmul(Low(srli(y, 12)), k64), {i \in y : i < 96})

\* Barrett reduction of 64 bits: the second 32-bit word of the result.
Barrett(x, u, q) ==
    LET a == slli(Clmul(High(x), u), 4)
        b == slli(Clmul(High(a), q), 4)
    IN  Dword({i - 32 : i \in {j \in Xor(b, x) : j >= 32}})

Done128(r) ==
    /\ pc = "done128" /\ call.reflected = r
    /\ Register(7, Reduce128(xmm[7], K(96), K(64)))
    /\ pc' = "barrett"
    /\ UNCHANGED <<ptr, len, koeff, crc, ref>> /\ ReadsNothing

\* _barrett and _cleanup; the degree of the polynomial is 32, so nothing is scaled.
Reduce(r) ==
    /\ pc = "barrett" /\ call.reflected = r
    /\ crc' = Barrett(xmm[7], koeff.u, koeff.q)
    /\ pc' = "reference" /\ ptr' = 0 /\ ref' = call.seed
    /\ UNCHANGED <<xmm, len, koeff>> /\ ReadsNothing

\* Entries for fewer than 256 bytes.
Start32(r) ==
    /\ pc = "opt" /\ call.reflected = r /\ len \in 32 .. 255
    /\ Register(7, Xor(Block(r, 0, 16), Seed))
    /\ ptr' = 16 /\ len' = len - 32 /\ pc' = "reduce16"
    /\ UNCHANGED <<koeff, crc, ref>> /\ Reads(0, 16)

Start16(r) ==
    /\ pc = "opt" /\ call.reflected = r /\ len \in 16 .. 31
    /\ Register(7, Xor(Block(r, 0, 16), Seed))
    /\ ptr' = 16 /\ len' = len - 16
    /\ pc' = IF len = 16 THEN "done128" ELSE "last_two"
    /\ UNCHANGED <<koeff, crc, ref>> /\ Reads(0, 16)

\* The bytes are gathered in a buffer of zeros on the stack, in pieces of 8, 4,
\* 2 and 1, so that nothing behind the end is read.
Start4(r) ==
    /\ pc = "opt" /\ call.reflected = r /\ len \in 4 .. 15
    /\ Register(7, ShuffleDown(Xor(Block(r, 0, len), Seed), len))
    /\ pc' = "done128"
    /\ UNCHANGED <<ptr, len, koeff, crc, ref>> /\ Reads(0, len)

\* Fewer than 4 bytes: the register holds at most 64 bits after the shift.
Start1(r) ==
    /\ pc = "opt" /\ call.reflected = r /\ len \in 1 .. 3
    /\ Register(7, srli(Xor(Block(r, 0, len), Seed), 8 - len))
    /\ pc' = "barrett"
    /\ UNCHANGED <<ptr, len, koeff, crc, ref>> /\ Reads(0, len)

\* Without bytes the CRC is the seed.
Start0(r) ==
    /\ pc = "opt" /\ call.reflected = r /\ len = 0
    /\ pc' = "reference" /\ ref' = call.seed
    /\ UNCHANGED <<xmm, ptr, len, koeff, crc>> /\ ReadsNothing

OptStart(r) == Start256(r) \/ Start32(r) \/ Start16(r) \/ Start4(r) \/ Start1(r) \/ Start0(r)
OptFold(r) == Fold128(r) \/ FoldEight(r) \/ Reduce16(r)
OptEnd(r) == Final(r) \/ LastTwo(r) \/ Done128(r) \/ Reduce(r)

\* The two kernels.
own_CRC_8u_opt_k0 == OptStart(FALSE) \/ OptFold(FALSE) \/ OptEnd(FALSE)
ReflectedStart == Start256(TRUE)
ReflectedShort == Start32(TRUE) \/ Start16(TRUE) \/ Start4(TRUE) \/ Start1(TRUE) \/ Start0(TRUE)
ReflectedFold == OptFold(TRUE)
ReflectedEnd == OptEnd(TRUE)

-----------------------------------------------------------------------------
(* The kernels for the default polynomial and at least 1024 bytes: four        *)
(* registers, 0, 2, 4 and 6, are folded by 512 bits.  Their branches for      *)
(* short inputs are never reached.  The first takes the bytes as the kernel   *)
(* above does; the second leaves the bits where a load puts them, with       *)
(* reflected constants, and turns the register round before the last step.  *)

Long == {"long_le", "long_be"}

\* The folding constants, k_64, k_96 (also k_128), k_192, k_512 and k_576.
LongLe ==
    [n \in {64, 96, 192, 512, 576} |->
        Times(CASE n = 64  -> Word(\h3AAB, \h4576) [] n = 96  -> Word(\hD7A0, \h1665)
                [] n = 192 -> Word(\hFF60, \h609E) [] n = 512 -> Word(\h3F76, \hA4F2)
                [] n = 576 -> Word(\h81EE, \hE05C), 32)]
LongBe ==
    [n \in {64, 96, 192, 512, 576} |->
        Times(CASE n = 64  -> Word(\h6EA2, \hD55C) [] n = 96  -> Word(\hA668, \h05EB)
                [] n = 192 -> Word(\h7906, \h06FF) [] n = 512 -> Word(\h4F25, \h6EFC)
                [] n = 576 -> Word(\h3A07, \h7781), 1)]

\* bit_reflect_32
bit_reflect_32(a) == {31 - i : i \in a}

\* A load without a shuffle.
Plain(first, count) ==
    UNION {Times(Bits(Data[first + j]), 8 * j) : j \in 0 .. count - 1}

LongBlock(le, first, count) == IF le THEN Reversed(first, count) ELSE Plain(first, count)

\* One folding step; in the reflected order the upper half is the nearer one.
LongFold(le, x, far, near) ==
    IF le THEN Xor(Clmul(Low(x), LongLe[near]), Clmul(High(x), LongLe[far]))
    ELSE Xor(Clmul(High(x), LongBe[near]), Clmul(Low(x), LongBe[far]))

\* own_shift_two_lanes, own_shift_two_lanes_be: the register and the count bytes
\* of the tail next to each other, cut into a block and what comes before it.
own_shift_two_lanes(tail, x, count) ==
    <<srli(tail, 16 - count) \cup slli(x, count), srli(x, 16 - count)>>
own_shift_two_lanes_be(tail, x, count) ==
    <<srli(x, count) \cup slli(tail, 16 - count), slli(x, 16 - count)>>

LongStart(le) ==
    /\ pc = IF le THEN "long_le" ELSE "long_be"
    /\ xmm' = [i \in 0 .. 7 |->
          IF i = 0 THEN Xor(LongBlock(le, 0, 16), IF le THEN Seed ELSE bit_reflect_32(crc))
          ELSE IF i % 2 = 0 THEN LongBlock(le, 8 * i, 16) ELSE xmm[i]]
    /\ ptr' = 64 /\ pc' = "fold512"
    /\ UNCHANGED <<len, koeff, crc, ref>> /\ Reads(0, 64)

LongFold512(le) ==
    /\ pc = "fold512" /\ le = ~call.reflected /\ len >= 128
    /\ xmm' = [i \in 0 .. 7 |->
          IF i % 2 = 0 THEN Xor(LongFold(le, xmm[i], 576, 512), LongBlock(le, ptr + 8 * i, 16))
          ELSE xmm[i]]
    /\ ptr' = ptr + 64 /\ len' = len - 64
    /\ UNCHANGED <<pc, koeff, crc, ref>> /\ Reads(ptr, 64)

\* Four registers to one.
LongCombine(le) ==
    /\ pc = "fold512" /\ le = ~call.reflected /\ len < 128
    /\ LET sum[i \in 0 .. 3] ==
               IF i = 0 THEN xmm[0] ELSE Xor(LongFold(le, sum[i - 1], 192, 96), xmm[2 * i])
       IN  Register(0, sum[3])
    /\ len' = len - 48 /\ pc' = "fold16"
    /\ UNCHANGED <<ptr, koeff, crc, ref>> /\ ReadsNothing

LongFold16(le) ==
    /\ pc = "fold16" /\ le = ~call.reflected /\ len >= 32
    /\ Register(0, Xor(LongFold(le, xmm[0], 192, 96), LongBlock(le, ptr, 16)))
    /\ ptr' = ptr + 16 /\ len' = len - 16
    /\ UNCHANGED <<pc, koeff, crc, ref>> /\ Reads(ptr, 16)

\* tail is that of the length at the start; its mask keeps the load inside.
LongTail(le) ==
    /\ pc = "fold16" /\ le = ~call.reflected /\ len < 32
    /\ LET tail == call.size % 16
           shifted == IF le THEN own_shift_two_lanes(LongBlock(le, ptr, tail), xmm[0], tail)
                      ELSE own_shift_two_lanes_be(LongBlock(le, ptr, tail), xmm[0], tail)
       IN  /\ Register(0, IF tail = 0 THEN xmm[0]
                          ELSE Xor(LongFold(le, shifted[2], 192, 96), shifted[1]))
           /\ Reads(ptr, tail)
    /\ pc' = "long_end"
    /\ UNCHANGED <<ptr, len, koeff, crc, ref>>

\* The last 128 bits in the reflected order, then turned round ("go to LE").
TurnedRound(x) ==
    LET y == Xor(Clmul(Low(x), LongBe[96]), srli(x, 8))
        z == Xor(Clmul(High(slli(y, 12)), LongBe[64]), {i \in y : i >= 32})
    IN  {127 - i : i \in z}

LongEnd(le) ==
    /\ pc = "long_end" /\ le = ~call.reflected
    /\ LET x == IF le THEN Reduce128(xmm[0], LongLe[96], LongLe[64]) ELSE TurnedRound(xmm[0])
       IN  crc' = Barrett(x, opt_poly_1.u, opt_poly_1.q)
    /\ pc' = "reference" /\ ptr' = 0 /\ ref' = call.seed
    /\ UNCHANGED <<xmm, len, koeff>> /\ ReadsNothing

LongStep(le) ==
    \/ LongStart(le) \/ LongFold512(le) \/ LongCombine(le)
    \/ LongFold16(le) \/ LongTail(le) \/ LongEnd(le)

own_crc32_long_le_k0 == LongStep(TRUE)
own_crc32_long_be_k0 == LongStep(FALSE)

-----------------------------------------------------------------------------
(* The reference kernel. *)

\* reverse
reverse(byte) == {7 - i : i \in byte}

\* calculate_crc_32u
calculate_crc_32u(value, byte) == DoubledTimes(Xor(value, Times(byte, 24)), call.poly, 8)

\* dml_ref_crc_32u, dml_ref_crc_reflected_u32, one byte.
RefByte ==
    /\ pc \in {"reference", "ref_only"} /\ ptr < call.size
    /\ ref' = calculate_crc_32u(ref, IF call.reflected THEN reverse(Bits(Data[ptr])) ELSE Bits(Data[ptr]))
    /\ ptr' = ptr + 1
    /\ UNCHANGED <<pc, xmm, len, koeff, crc>> /\ Reads(ptr, 1)

RefEnd ==
    /\ pc \in {"reference", "ref_only"} /\ ptr = call.size
    /\ pc' = "done"
    /\ crc' = IF pc = "ref_only" THEN ref ELSE crc
    /\ UNCHANGED <<xmm, ptr, len, koeff, ref>> /\ ReadsNothing

CrcNext ==
    \/ EnterCrc \/ RefCrc \/ Generate
    \/ own_CRC_8u_opt_k0 \/ ReflectedStart \/ ReflectedShort \/ ReflectedFold \/ ReflectedEnd
    \/ own_crc32_long_le_k0 \/ own_crc32_long_be_k0
    \/ RefByte \/ RefEnd

-----------------------------------------------------------------------------
\* No kernel reads outside the source, although the last, incomplete block is
\* loaded whole.
CrcWithinSource == call.op = "crc" => reads \subseteq Bytes(0, call.size)

\* Whatever the length, the polynomial, the seed and the bit order, and whichever
\* of the kernels serves them, the CRC is that of the byte-wise reference, and no
\* kernel reads outside the source.
CrcAgrees ==
    /\ call.op = "crc" /\ pc = "done" => crc = ref
    /\ CrcWithinSource
=============================================================================
