----------------------------- MODULE KernelCall -----------------------------
(***************************************************************************)
(* One call of a software kernel through the dispatch table: what the CPU   *)
(* offers, which version of the kernel runs, and what the version does to   *)
(* memory.  The versions themselves are in Avx512Move, Avx512Scan and      *)
(* Avx512Crc; module Kernels composes them.                                *)
(*                                                                         *)
(* An address is a number; only its place within a cache line matters.     *)
(***************************************************************************)
EXTENDS Integers, Sequences, FiniteSets, FiniteSetsExt, Functions

CONSTANTS
    Calls,     \* the calls: records with op, size and what the operation needs
    Cpus,      \* sets of Features
    Kilobyte,  \* the unit of copy_avx512's thresholds
    SizeRange  \* how many values a 32-bit size has: 2^32 in the code

Features == {"avx512f", "avx512dq", "avx512cd", "avx512bw", "avx512vl",
             "clflushopt", "clwb", "waitpkg"}

\* Addresses and sizes are unsigned, and what a comparison may find is inside its
\* operands.  Two kernels do not work for every size of 32 bits, and are called
\* for less: the loop of Compare adds a vector to its offset before it looks at
\* the size (compare.c:24), and CRC keeps the length in an int (crc.c:47).  The
\* loops of copy_avx512 read the source from before the destination vector they
\* store, and its head takes up to 63 bytes: with a smaller unit than this the
\* threshold of 4 units would not leave a vector to read.
ASSUME CallAssumption ==
    /\ Cpus \subseteq SUBSET Features
    /\ Kilobyte \in Nat /\ Kilobyte >= 32 /\ SizeRange \in Nat
    /\ \A c \in Calls :
          /\ c.op \in {"mem_move", "fill", "compare", "compare_pattern", "cache_flush", "crc"}
          /\ c.size \in Nat /\ c.size < SizeRange
          /\ c.op = "compare" => c.size + 64 < SizeRange
          /\ c.op = "crc" => 2 * c.size < SizeRange
          /\ c.op \in {"mem_move", "fill", "cache_flush"} => c.dst \in Nat
          /\ c.op = "mem_move" => c.src \in Nat
          /\ c.op \in {"compare", "compare_pattern"} => c.differ \subseteq 0 .. c.size - 1
          /\ c.op = "cache_flush" => c.control \in BOOLEAN

VARIABLES
    call,     \* the arguments, see Calls
    cpu,      \* the features the dispatcher found
    pc,       \* where the kernel is
    reads,    \* addresses the last step read
    stores,   \* address -> what the last step stored there
    aligned   \* addresses of the last step's aligned loads and stores

callVars == <<call, cpu, pc, reads, stores, aligned>>

Bytes(from, count) == from .. from + count - 1
NoStores == [a \in {} |-> 0]

\* DML_AVX512_MASK: the kernels need every one of these extensions.
DML_AVX512_MASK == {"avx512f", "avx512dq", "avx512cd", "avx512bw", "avx512vl"}

\* The function pointers of the dispatch namespace after its static dispatcher
\* has been constructed.
dispatcher(found) ==
    LET data == IF DML_AVX512_MASK \subseteq found THEN "avx512" ELSE "ref"
    IN  [mem_move         |-> data, fill |-> data, compare |-> data,
         compare_pattern  |-> data, crc |-> data,
         cache_flush      |-> IF "clflushopt" \in found THEN "clflushopt" ELSE "clflush",
         cache_write_back |-> IF "clwb" \in found THEN "clwb" ELSE "clwb_unsupported"]

CallInit ==
    /\ call \in Calls /\ cpu \in Cpus
    /\ pc = "call"
    /\ reads = {} /\ stores = NoStores /\ aligned = {}

\* A call through the table: dispatch::mem_move, fill, compare and so on.
Enter(op, version) == pc = "call" /\ call.op = op /\ dispatcher(cpu)[op] = version

\* A step reads the addresses r, stores s, and uses aligned instructions at a.
Touch(r, s, a) ==
    /\ reads' = r /\ stores' = s /\ aligned' = a
    /\ UNCHANGED <<call, cpu>>
=============================================================================
