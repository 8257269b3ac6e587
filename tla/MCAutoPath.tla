------------------------------ MODULE MCAutoPath ------------------------------
(* Instances of AutoPath: small jobs of every operation. *)
EXTENDS AutoPath

MCUntouched == 99

\* Sources whose bytes are all different.
Distinct == [i \in Offsets |-> 10 + i]

\* Sources that differ from the all-zero source 1 in a set of bytes.
Marked(s) == [i \in Offsets |-> IF i \in s THEN 1 ELSE 0]

\* Up to three words, and sizes that end within a word.
Sizes == 1 .. 6

\* check_result and expected_result: not checked, or one of the two results.
Expectations == {<<FALSE, 0>>, <<TRUE, 0>>, <<TRUE, 1>>}

CopyJobs ==
    {[BlankJob EXCEPT !.op = o, !.transfer_size = n, !.source_1 = Distinct,
                      !.bypass_reflection = b] :
        o \in {"dualcast", "crc", "copy_crc"}, n \in Sizes, b \in BOOLEAN}

FillJobs ==
    {[BlankJob EXCEPT !.op = "fill", !.transfer_size = n,
                      !.pattern = [i \in 0 .. WordSize - 1 |-> i + 1]] : n \in Sizes}

CompareJobs ==
    {[BlankJob EXCEPT !.op = "compare", !.transfer_size = n, !.source_2 = Marked(s),
                      !.check_result = e[1], !.expected_result = e[2]] :
        n \in Sizes, s \in SUBSET (0 .. 3), e \in Expectations}

PatternJobs ==
    {[BlankJob EXCEPT !.op = "compare_pattern", !.transfer_size = n, !.source_1 = Marked(s),
                      !.check_result = e[1], !.expected_result = e[2]] :
        n \in Sizes, s \in SUBSET (0 .. 4), e \in Expectations}

\* Validation wants room for eight notes at least, so an overflow takes nine
\* differing words.
DeltaJobs ==
    {[BlankJob EXCEPT !.op = "create_delta", !.transfer_size = n * WordSize,
                      !.source_2 = Marked({w * WordSize : w \in s}),
                      !.maximum_delta_record_size = 8] :
        n \in {4, 9}, s \in SUBSET (0 .. 8)}

\* DML_FLAG_EXPECT_EQUAL, _NOT_EQUAL and _OVERFLOW.
CheckedDeltaJobs ==
    {[BlankJob EXCEPT !.op = "create_delta", !.transfer_size = 9 * WordSize,
                      !.source_2 = Marked({w * WordSize : w \in 0 .. n - 1}),
                      !.maximum_delta_record_size = 8,
                      !.check_result = TRUE, !.expected_result = e] :
        n \in 0 .. 9, e \in {1, 2, 4}}

Note(w, v) == [offset |-> w, data |-> [i \in 0 .. WordSize - 1 |-> v + i]]

ApplyJobs ==
    {[BlankJob EXCEPT !.op = "apply_delta", !.transfer_size = 3 * WordSize,
                      !.delta = <<Note(a, 1), Note(b, 3), Note(c, 5)>>] :
        a, b, c \in 0 .. 2}

AllJobs == CopyJobs \cup FillJobs \cup CompareJobs \cup PatternJobs \cup DeltaJobs
           \cup CheckedDeltaJobs \cup ApplyJobs
=============================================================================
