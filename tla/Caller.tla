-------------------------------- MODULE Caller --------------------------------
(***************************************************************************)
(* The application: what it wants of an operation, and how it asks for it   *)
(* in a job structure and in a call of the high-level API.  A wish is        *)
(* [op, arg, flags]: the arguments by the names of the operation's fields,   *)
(* and the names of the flags.                                               *)
(***************************************************************************)
EXTENDS HighLevel, FiniteSets

\* The flags of a descriptor with these names.
FlagWord(names) ==
    LET bit(n) == IF n \in names THEN flag[n] ELSE 0
    IN  bit("fence") + bit("block_on_fault") + bit("check_result") + bit("cache_control")

\* The argument that a field of dml_job_t carries.
JobArg(op) ==
    CASE op \in {"mem_move", "copy_crc", "crc", "dif_check", "dif_insert", "dif_strip",
                 "dif_update"} ->
            [source_first |-> "source_address", destination_first |-> "destination_address",
             source_length |-> "transfer_size"]
      [] op = "compare" ->
            [source_first |-> "source_1_address", source_second |-> "source_2_address",
             source_length |-> "transfer_size", expected_result |-> "expected_result"]
      [] op = "compare_pattern" ->
            [source_first |-> "source_address", source_length |-> "transfer_size",
             pattern |-> "pattern", expected_result |-> "expected_result"]
      [] op = "create_delta" ->
            [source_first |-> "source_1_address", source_second |-> "source_2_address",
             source_length |-> "transfer_size", destination_first |-> "delta_record_address",
             destination_length |-> "maximum_delta_record_size",
             expected_result |-> "expected_result_mask"]
      [] op = "apply_delta" ->
            [source_first |-> "delta_record_address", source_length |-> "delta_record_size",
             destination_first |-> "destination_address", destination_length |-> "transfer_size"]
      [] op = "dualcast" ->
            [source_first |-> "source_address", destination_first |-> "destination_1_address",
             destination_second |-> "destination_2_address", source_length |-> "transfer_size"]
      [] op \in {"fill", "cache_flush"} ->
            [pattern |-> "pattern", destination_first |-> "destination_address",
             destination_length |-> "transfer_size"]
      [] op = "drain" ->
            [destination_first |-> "readback_address_1",
             destination_second |-> "readback_address_2"]
      [] OTHER -> [f \in {} |-> ""]

\* The value of an argument, or 0 where the operation has no such argument.
Arg(want, name) == IF name \in DOMAIN want.arg THEN want.arg[name] ELSE 0

Tags(want, side) ==
    CASE side = "source" -> [ref_tag |-> Arg(want, "source_ref_tag"),
                             app_tag |-> Arg(want, "source_app_tag"),
                             app_tag_mask |-> Arg(want, "source_app_tag_mask")]
      [] side = "destination" -> [ref_tag |-> Arg(want, "destination_ref_tag"),
                                  app_tag |-> Arg(want, "destination_app_tag"),
                                  app_tag_mask |-> Arg(want, "destination_app_tag_mask")]

\* The job structure as the comments of dml_job_t ask for it.  A checksum other
\* than 0 is passed as a seed.
AsJob(want, copy_only) ==
    LET isCrc == want.op \in {"crc", "copy_crc"}
        seeded == isCrc /\ want.arg.crc_seed # 0
        special == Arg(want, "operation_specific_flags") + (IF seeded THEN 1 ELSE 0)
        dif == Arg(want, "dif_flags")
    IN  [f \in DOMAIN BlankJob |->
            IF f \in DOMAIN JobArg(want.op) THEN Arg(want, JobArg(want.op)[f])
            ELSE CASE f = "operation" -> operation[want.op]
                   [] f = "flags" -> FlagWord(want.flags) + special * 65536
                                     + (IF copy_only THEN DML_FLAG_COPY_ONLY ELSE 0)
                   [] f = "crc_null" -> ~isCrc
                   [] f = "crc" -> Arg(want, "crc_seed")
                   [] f = "destination_first" /\ want.op = "batch" ->
                        want.arg.descriptor_list_address
                   [] f = "destination_length" /\ want.op = "batch" ->
                        SizeOfTask * want.arg.descriptors_count + 64
                   [] f = "block_size" -> dif % 4
                   [] f = "dif_flags" -> Arg(want, "source_dif_flags")
                                         + Arg(want, "destination_dif_flags") * 256
                                         + (dif \div 4) * 4 * 65536
                   [] f = "src_tags" -> Tags(want, "source")
                   [] f = "dst_tags" -> Tags(want, "destination")
                   [] OTHER -> BlankJob[f]]

\* The views of a call in their order.
ViewArgs(op) ==
    CASE op \in {"mem_move", "mem_copy", "copy_crc"} ->
            <<"source_address", "destination_address">>
      [] op = "dualcast" ->
            <<"source_address", "destination_1_address", "destination_2_address">>
      [] op = "compare" -> <<"source_1_address", "source_2_address">>
      [] op = "create_delta" ->
            <<"source_1_address", "source_2_address", "delta_record_address">>
      [] op = "apply_delta" -> <<"delta_record_address", "destination_address">>
      [] op \in {"fill", "cache_flush"} -> <<"destination_address">>
      [] op \in {"crc", "compare_pattern"} -> <<"source_address">>
      [] op = "batch" -> <<"descriptor_list_address">>
      [] OTHER -> <<>>

\* A call of the high-level API.  odd is the number of the view whose size does
\* not fit the others (0: none); an odd delta result says that there is nothing
\* to apply.
AsCall(want, op, odd) ==
    LET size(i) ==
            IF ViewArgs(op)[i] = "delta_record_address"
            THEN Arg(want, "maximum_delta_record_size")
            ELSE Arg(want, IF op = "batch" THEN "descriptors_count" ELSE "transfer_size")
        object == OperationObject[op]
        checked == "check_result" \in want.flags
        expected == Arg(want, "expected_result") + Arg(want, "expected_result_mask")
        specific == Arg(want, "operation_specific_flags")
        wanted(method) ==
            CASE method = "expect_equal" -> checked /\ expected = object.equal
              [] method = "expect_not_equal" -> checked /\ expected = object.not_equal
              [] method = "bypass_reflection" -> Has(specific, 2)
              [] method = "bypass_data_reflection" -> Has(specific, 4)
              [] method = "dont_invalidate_cache" -> "cache_control" \in want.flags
              [] method = "block_on_fault" -> "block_on_fault" \in want.flags
    IN  [op |-> op,
         methods |-> {m \in object.setters : wanted(m)},
         views |-> [i \in DOMAIN ViewArgs(op) |->
                        make_view(want.arg[ViewArgs(op)[i]], size(i) + (IF i = odd THEN 8 ELSE 0))],
         value |-> Arg(want, "pattern") + Arg(want, "crc_seed"),
         delta_result |-> [result |-> IF op = "apply_delta" /\ odd # 0 THEN 0 ELSE 1,
                           delta_record_size |-> Arg(want, "delta_record_size")]]

-----------------------------------------------------------------------------
(* What can be asked for. *)

\* Checksums, and seeds, are below it: 2^32 in the code.
CrcRange == 11

\* A value for each argument of an operation.
IsWish(want) ==
    /\ want = [op |-> want.op, arg |-> want.arg, flags |-> want.flags]
    /\ want.op \in Operations
    /\ want.arg \in [DOMAIN View[want.op] -> Nat]
    /\ Arg(want, "transfer_size") < SizeRange /\ Arg(want, "crc_seed") < CrcRange

Byte == 0 .. 255

\* The bits of a checksum, other than the one that says there is a seed.
CrcOptions == {0, 2, 4, 6}

\* By a job: the flags that dmldefs.h has for data operations; lists of a batch
\* are aligned, and only a move can be promised to be a copy.
JobWish(m) ==
    /\ IsWish(m.want)
    /\ m.want.flags \subseteq {"block_on_fault", "check_result", "cache_control"}
    /\ \A n \in {"operation_specific_flags", "dif_flags", "source_dif_flags",
                 "destination_dif_flags"} : Arg(m.want, n) \in Byte
    /\ m.want.op \in {"crc", "copy_crc"} => m.want.arg.operation_specific_flags \in CrcOptions
    /\ m.want.op = "batch" => m.want.arg.descriptor_list_address % 64 = 0
    /\ m.copy_only \in BOOLEAN /\ (m.copy_only => m.want.op = "mem_move")

\* Views of a call whose size its overload looks at.
CheckedViews(op) ==
    CASE op \in {"mem_move", "mem_copy", "copy_crc", "compare", "create_delta"} -> {1, 2}
      [] op = "dualcast" -> {1, 2, 3}
      [] op = "apply_delta" -> {1}
      [] OTHER -> {}

\* By a call: what the operation object has of its own and what its methods add;
\* the sizes of the other views do not reach the check of an odd one.
CallWish(m) ==
    LET object == OperationObject[m.op]
        optional == {n \in {"block_on_fault", "check_result", "cache_control"} :
                        (CASE n = "block_on_fault" -> "block_on_fault"
                           [] n = "check_result" -> "expect_equal"
                           [] n = "cache_control" -> "dont_invalidate_cache") \in object.setters}
        own == {n \in DOMAIN flag : Has(object.flags, flag[n])}
    IN  /\ m.op \in DOMAIN OperationObject
        /\ IsWish(m.want)
        /\ m.want.op = IF m.op = "mem_copy" THEN "mem_move" ELSE m.op
        /\ own \subseteq m.want.flags /\ m.want.flags \subseteq own \cup optional
        /\ Arg(m.want, "expected_result") + Arg(m.want, "expected_result_mask")
              \in IF "check_result" \in m.want.flags THEN {object.equal, object.not_equal} ELSE {0}
        /\ Arg(m.want, "operation_specific_flags")
              \in IF "bypass_reflection" \in object.setters THEN CrcOptions ELSE {0}
        /\ m.odd \in {0} \cup CheckedViews(m.op)
=============================================================================
