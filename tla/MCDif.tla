-------------------------------- MODULE MCDif --------------------------------
(* Instances of Dif: up to three blocks of two cells, tags of two bits. *)
EXTENDS Dif

\* Plain data: every cell different.
Distinct == [i \in Offsets |-> [byte |-> i]]

\* Seeds next to the wrap, both formats of both tags, with and without a mask.
Sides == {[BlankSide EXCEPT !.app = a, !.ref = r, !.mask = m, !.inc_app = i, !.fix_ref = f] :
            a \in {0, 3}, r \in {2, 3}, m \in {0, 1}, i \in BOOLEAN, f \in BOOLEAN}

Inserts == {[BlankJob EXCEPT !.op = "insert", !.blocks = n, !.data = Distinct, !.dst = s,
                             !.invert_seed = v, !.invert_result = w] :
              n \in 1 .. 3, s \in Sides, v, w \in BOOLEAN}

\* The buffer a correct insert leaves for n blocks with the tags of a side.
Protected(n, s) ==
    [i \in Offsets |->
        LET k == i \div Step IN
        IF i % Step < BlockSize THEN [byte |-> i]
        ELSE Field(BlankJob, s, s.app, s.ref, [c \in 0 .. BlockSize - 1 |-> [byte |-> k * Step + c]], k)]

\* Damage to the field of block k: none, one of its parts, or all ones.
Damaged(buffer, k, kind) ==
    LET at == k * Step + BlockSize
        f == buffer[at]
    IN  CASE kind = "none" -> buffer
          [] kind = "guard" -> [buffer EXCEPT ![at].guard = NoGuard]
          [] kind = "app" -> [buffer EXCEPT ![at].app = (f.app + 1) % AppTags]
          [] kind = "ref" -> [buffer EXCEPT ![at].ref = (f.ref + 1) % RefTags]
          [] kind = "ones" -> [buffer EXCEPT ![at] = AllOnes]

Kinds == {"none", "guard", "app", "ref", "ones"}

Reads == {[BlankJob EXCEPT !.op = o, !.blocks = n, !.data = Damaged(Protected(n, s), k, d),
                           !.src = s, !.dst = [BlankSide EXCEPT !.inc_app = TRUE, !.app = 2, !.ref = 3],
                           !.detect_tags = t] :
            o \in {"check", "strip", "update"}, n \in {1, 3}, s \in Sides, k \in {0, 2}, d \in Kinds,
            t \in BOOLEAN}

\* Flags of the source and of the destination, one at a time.
Flags == {"no_guard", "no_ref", "enable_error", "detect_all", "detect_app", "pass_guard",
          "pass_app", "pass_ref"}
Flagged == {[j \in DOMAIN BlankJob |->
                IF j \in f THEN TRUE
                ELSE IF j = "op" THEN "update"
                ELSE IF j = "blocks" THEN 3
                ELSE IF j = "data" THEN Damaged(Protected(3, BlankSide), 1, d)
                ELSE IF j = "dst" THEN [BlankSide EXCEPT !.app = 2, !.ref = 2, !.mask = 0]
                ELSE BlankJob[j]] : f \in {{a, b} : a, b \in Flags}, d \in Kinds}

AllJobs == Inserts \cup Reads \cup Flagged

\* A check of tags whose mask is all ones.
MaskJobs == {[BlankJob EXCEPT !.blocks = 2,
                !.data = Protected(2, [BlankSide EXCEPT !.app = 2, !.mask = 0]),
                !.src = [BlankSide EXCEPT !.app = 2, !.mask = AppTags - 1],
                !.no_ref = b] : b \in BOOLEAN}
=============================================================================
