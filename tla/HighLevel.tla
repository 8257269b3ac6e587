------------------------------ MODULE HighLevel ------------------------------
(***************************************************************************)
(* The high-level API up to the descriptor: operation objects with their    *)
(* options, data views, and the overloads of submit and execute.            *)
(***************************************************************************)
EXTENDS Tasks

\* An operation object: its options as constructed, what expect_equal and
\* expect_not_equal stand for, and the methods that return a changed copy.
Object(flags, equal, not_equal, setters) ==
    [flags |-> flags, specific |-> 0, expected |-> 0, equal |-> equal,
     not_equal |-> not_equal, setters |-> setters]

nop_operation == Object(flag.fence, 0, 0, {})
mem_move_operation == Object(flag.cache_control, 0, 0, {"block_on_fault"})
mem_copy_operation == Object(flag.cache_control, 0, 0, {"block_on_fault"})
fill_operation == Object(flag.cache_control, 0, 0, {"block_on_fault"})
dualcast_operation == Object(flag.cache_control, 0, 0, {"block_on_fault"})
compare_operation == Object(0, 0, 1, {"expect_equal", "expect_not_equal", "block_on_fault"})
compare_pattern_operation ==
    Object(0, 0, 1, {"expect_equal", "expect_not_equal", "block_on_fault"})
create_delta_operation ==
    Object(flag.cache_control, 1, 2, {"expect_equal", "expect_not_equal", "block_on_fault"})
apply_delta_operation == Object(flag.cache_control, 0, 0, {"block_on_fault"})
crc_operation ==
    Object(0, 0, 0, {"bypass_reflection", "bypass_data_reflection", "block_on_fault"})
copy_crc_operation ==
    Object(flag.cache_control, 0, 0,
           {"bypass_reflection", "bypass_data_reflection", "block_on_fault"})
cache_flush_operation == Object(0, 0, 0, {"dont_invalidate_cache", "block_on_fault"})
batch_operation == Object(0, 0, 0, {})

OperationObject ==
    [nop |-> nop_operation, mem_move |-> mem_move_operation, mem_copy |-> mem_copy_operation,
     fill |-> fill_operation, dualcast |-> dualcast_operation, compare |-> compare_operation,
     compare_pattern |-> compare_pattern_operation, create_delta |-> create_delta_operation,
     apply_delta |-> apply_delta_operation, crc |-> crc_operation,
     copy_crc |-> copy_crc_operation, cache_flush |-> cache_flush_operation,
     batch |-> batch_operation]

\* dml::compare.expect_equal().block_on_fault() and the like: a method returns a copy with
\* one option changed.  Methods are for different options, but for the two expectations, of
\* which a caller chooses one.
Chain(op, methods) ==
    LET o == OperationObject[op]
        bits == crc_specific_flag
        enable(options, method, bit) ==
            IF method \in methods THEN Enable(options, bit) ELSE options
        expects == methods \cap {"expect_equal", "expect_not_equal"} # {}
        checked == IF expects THEN Enable(o.flags, flag.check_result) ELSE o.flags
        kept == enable(checked, "dont_invalidate_cache", flag.cache_control)
        bypassed == enable(o.specific, "bypass_reflection",
                           bits.bypass_crc_inversion_and_reflection)
    IN  [o EXCEPT
            !.flags = enable(kept, "block_on_fault", flag.block_on_fault),
            !.specific = enable(bypassed, "bypass_data_reflection", bits.bypass_data_reflection),
            !.expected = IF "expect_not_equal" \in methods THEN o.not_equal
                         ELSE IF "expect_equal" \in methods THEN o.equal ELSE @]

-----------------------------------------------------------------------------
(* Overloads: the range check and the task, of data views [data, size] and   *)
(* the options o.                                                             *)

make_view(data, size) == [data |-> data, size |-> size]

\* DML_VALIDATE_SIZE_CONSISTENCY
SameSize(lhs, rhs) == IF lhs.size # rhs.size THEN "inconsistent_size" ELSE "ok"

Overload(check, dsc) == [check |-> check, dsc |-> dsc]

submit_batch(seq, o) ==
    Overload("ok", make_batch_descriptor(seq.data, seq.size, o.flags))

submit_nop(o) == Overload("ok", make_nop_descriptor(o.flags))

submit_mem_move(src, dst, o) ==
    Overload(SameSize(src, dst), make_mem_move_descriptor(src.data, dst.data, src.size, o.flags))

submit_mem_copy(src, dst, o) ==
    Overload(SameSize(src, dst), make_mem_move_descriptor(src.data, dst.data, src.size, o.flags))

submit_fill(pattern, dst, o) ==
    Overload("ok", make_fill_descriptor(pattern, dst.data, dst.size, o.flags))

submit_dualcast(src, dst1, dst2, o) ==
    Overload(IF SameSize(src, dst1) # "ok" THEN SameSize(src, dst1) ELSE SameSize(src, dst2),
             make_dualcast_descriptor(src.data, dst1.data, dst2.data, src.size, o.flags,
                                      o.specific))

submit_compare(src1, src2, o) ==
    Overload(SameSize(src1, src2),
             make_compare_descriptor(src1.data, src2.data, src1.size, o.flags, o.expected))

submit_compare_pattern(pattern, src, o) ==
    Overload("ok", make_compare_pattern_descriptor(pattern, src.data, src.size, o.flags,
                                                   o.expected))

submit_create_delta(src1, src2, delta, o) ==
    Overload(SameSize(src1, src2),
             make_create_delta_descriptor(src1.data, src2.data, src1.size, delta.data,
                                          delta.size, o.flags, o.expected))

\* delta_result is what create_delta returned.
submit_apply_delta(delta, dst, delta_result, o) ==
    Overload(IF delta_result.result # 1 THEN "delta_delta_empty" ELSE "ok",
             make_apply_delta_descriptor(delta.data, delta_result.delta_record_size, dst.data,
                                         dst.size, o.flags))

submit_crc(src, seed, o) ==
    Overload("ok", make_crc_descriptor(src.data, src.size, seed, o.flags, o.specific))

submit_copy_crc(src, dst, seed, o) ==
    Overload(SameSize(src, dst),
             make_copy_crc_descriptor(src.data, dst.data, src.size, seed, o.flags, o.specific))

submit_cache_flush(dst, o) ==
    Overload("ok", make_cache_flush_descriptor(dst.data, dst.size, o.flags))

-----------------------------------------------------------------------------
(* Calls: an operation, its methods, the views in order, and the arguments   *)
(* that are not views.                                                       *)

\* The overload of submit that a call selects.
submit_overload(c) ==
    LET o == Chain(c.op, c.methods)
        v == c.views
    IN  CASE c.op = "nop" -> submit_nop(o)
          [] c.op = "batch" -> submit_batch(v[1], o)
          [] c.op = "mem_move" -> submit_mem_move(v[1], v[2], o)
          [] c.op = "mem_copy" -> submit_mem_copy(v[1], v[2], o)
          [] c.op = "fill" -> submit_fill(c.value, v[1], o)
          [] c.op = "dualcast" -> submit_dualcast(v[1], v[2], v[3], o)
          [] c.op = "compare" -> submit_compare(v[1], v[2], o)
          [] c.op = "compare_pattern" -> submit_compare_pattern(c.value, v[1], o)
          [] c.op = "create_delta" -> submit_create_delta(v[1], v[2], v[3], o)
          [] c.op = "apply_delta" -> submit_apply_delta(v[1], v[2], c.delta_result, o)
          [] c.op = "crc" -> submit_crc(v[1], c.value, o)
          [] c.op = "copy_crc" -> submit_copy_crc(v[1], v[2], c.value, o)
          [] c.op = "cache_flush" -> submit_cache_flush(v[1], o)

\* The overloads of execute check and make the same; where the task lives and
\* who waits for it differ.
execute_overload(c) == submit_overload(c)
=============================================================================
