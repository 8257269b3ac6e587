-------------------------------- MODULE Tasks --------------------------------
(***************************************************************************)
(* From a call to a descriptor: the functions that fill in a descriptor     *)
(* (middle layer), the job structure and make_task of the job API, and the  *)
(* operation classes and overloads of the high-level API.                   *)
(***************************************************************************)
EXTENDS Validation

\* view.field() = value for each of the writes, on a descriptor that is all zeros.
\* (The fields of a view are disjoint; if two were not, both would be torn.)
Written(op, writes) ==
    {<<w[1][1], w[1][2], w[2]>> :
        w \in {x \in writes \cup {<<any_descriptor.operation, operation[op]>>} : x[2] # 0}}

Flags(options) == <<any_descriptor.flags, options>>
Spec8(options) == <<any_descriptor.operation_specific_flags, options>>

make_nop_descriptor(options) == Written("nop", {Flags(options)})

make_drain_descriptor(addr1, addr2, options, specific) ==
    LET v == drain_descriptor
    IN  Written("drain", {<<v.readback_address_1, addr1>>, <<v.readback_address_2, addr2>>,
                          Flags(options), Spec8(specific)})

make_mem_move_descriptor(src, dst, size, options) ==
    LET v == mem_move_descriptor
    IN  Written("mem_move", {<<v.source_address, src>>, <<v.destination_address, dst>>,
                             <<v.transfer_size, size>>, Flags(options)})

make_fill_descriptor(pattern, dst, size, options) ==
    LET v == fill_descriptor
    IN  Written("fill", {<<v.pattern, pattern>>, <<v.destination_address, dst>>,
                         <<v.transfer_size, size>>, Flags(options)})

make_dualcast_descriptor(src, dst1, dst2, size, options, specific) ==
    LET v == dualcast_descriptor
    IN  Written("dualcast", {<<v.source_address, src>>, <<v.destination_1_address, dst1>>,
                             <<v.destination_2_address, dst2>>, <<v.transfer_size, size>>,
                             Flags(options), Spec8(specific)})

make_compare_descriptor(src1, src2, size, options, expected) ==
    LET v == compare_descriptor
    IN  Written("compare", {<<v.source_1_address, src1>>, <<v.source_2_address, src2>>,
                            <<v.transfer_size, size>>, Flags(options),
                            <<v.expected_result, expected>>})

make_compare_pattern_descriptor(pattern, src, size, options, expected) ==
    LET v == compare_pattern_descriptor
    IN  Written("compare_pattern", {<<v.pattern, pattern>>, <<v.source_address, src>>,
                                    <<v.transfer_size, size>>, Flags(options),
                                    <<v.expected_result, expected>>})

make_crc_descriptor(src, size, seed, options, specific) ==
    LET v == crc_descriptor
    IN  Written("crc", {<<v.source_address, src>>, <<v.transfer_size, size>>, Flags(options),
                        Spec8(specific), <<v.crc_seed, seed>>})

make_copy_crc_descriptor(src, dst, size, seed, options, specific) ==
    LET v == copy_crc_descriptor
    IN  Written("copy_crc", {<<v.source_address, src>>, <<v.destination_address, dst>>,
                             <<v.transfer_size, size>>, Flags(options), Spec8(specific),
                             <<v.crc_seed, seed>>})

make_create_delta_descriptor(src1, src2, size, delta, max, options, expected) ==
    LET v == create_delta_descriptor
    IN  Written("create_delta", {<<v.source_1_address, src1>>, <<v.source_2_address, src2>>,
                                 <<v.delta_record_address, delta>>, <<v.transfer_size, size>>,
                                 <<v.maximum_delta_record_size, max>>, Flags(options),
                                 <<v.expected_result_mask, expected>>})

make_apply_delta_descriptor(delta, delta_size, dst, size, options) ==
    LET v == apply_delta_descriptor
    IN  Written("apply_delta", {<<v.delta_record_address, delta>>,
                                <<v.destination_address, dst>>, <<v.transfer_size, size>>,
                                <<v.delta_record_size, delta_size>>, Flags(options)})

make_cache_flush_descriptor(dst, size, options) ==
    LET v == cache_flush_descriptor
    IN  Written("cache_flush", {<<v.destination_address, dst>>, <<v.transfer_size, size>>,
                                Flags(options)})

\* The parameters of one side of a DIF operation: flags, tags and mask.
SourceDif(v, flags, p) ==
    {<<v.source_dif_flags, flags>>, <<v.source_ref_tag, p.ref_tag>>,
     <<v.source_app_tag, p.app_tag>>, <<v.source_app_tag_mask, p.app_tag_mask>>}
DestinationDif(v, flags, p) ==
    {<<v.destination_dif_flags, flags>>, <<v.destination_ref_tag, p.ref_tag>>,
     <<v.destination_app_tag, p.app_tag>>, <<v.destination_app_tag_mask, p.app_tag_mask>>}

make_dif_check_descriptor(src, size, sp, options, dif, sf) ==
    LET v == dif_check_descriptor
    IN  Written("dif_check", {<<v.source_address, src>>, <<v.transfer_size, size>>,
                              Flags(options), <<v.dif_flags, dif>>} \cup SourceDif(v, sf, sp))

make_dif_insert_descriptor(src, dst, size, dp, options, dif, df) ==
    LET v == dif_insert_descriptor
    IN  Written("dif_insert", {<<v.source_address, src>>, <<v.destination_address, dst>>,
                               <<v.transfer_size, size>>, Flags(options),
                               <<v.dif_flags, dif>>} \cup DestinationDif(v, df, dp))

make_dif_strip_descriptor(src, dst, size, sp, options, dif, sf) ==
    LET v == dif_strip_descriptor
    IN  Written("dif_strip", {<<v.source_address, src>>, <<v.destination_address, dst>>,
                              <<v.transfer_size, size>>, Flags(options),
                              <<v.dif_flags, dif>>} \cup SourceDif(v, sf, sp))

make_dif_update_descriptor(src, dst, size, sp, dp, options, dif, sf, df) ==
    LET v == dif_update_descriptor
    IN  Written("dif_update", {<<v.source_address, src>>, <<v.destination_address, dst>>,
                               <<v.transfer_size, size>>, Flags(options),
                               <<v.dif_flags, dif>>}
                              \cup SourceDif(v, sf, sp) \cup DestinationDif(v, df, dp))

make_batch_descriptor(list, length, options) ==
    LET v == batch_descriptor
    IN  Written("batch", {<<v.descriptor_list_address, list>>, <<v.descriptors_count, length>>,
                          Flags(options)})

\* impl::rebind: where the completion record is, and that one is wanted.
rebind(dsc, address) ==
    LET flags == Get(dsc, any_descriptor.flags)
    IN  Put(Put(dsc, any_descriptor.completion_record_address, address), any_descriptor.flags,
            Enable(Enable(flags, flag.completion_record_address_valid),
                   flag.request_completion_record))

-----------------------------------------------------------------------------
(* The job API. *)

\* dml_job_t after dml_init_job: every field zero.  crc_checksum_ptr stands for
\* the checksum it points to, or is "null".
NoTags == [ref_tag |-> 0, app_tag |-> 0, app_tag_mask |-> 0]
BlankJob ==
    [operation |-> 0, source_first |-> 0, source_second |-> 0, destination_first |-> 0,
     destination_second |-> 0, crc_null |-> TRUE, crc |-> 0, source_length |-> 0,
     destination_length |-> 0, offset |-> 0, pattern |-> 0, result |-> 0,
     expected_result |-> 0, flags |-> 0, dif_flags |-> 0, block_size |-> 0,
     src_tags |-> NoTags, dst_tags |-> NoTags]

\* job_view: the pieces of the two flag words.
flags_of(job) == job.flags % 65536
specific_flags(job) == (job.flags \div 65536) % 256
dif_src_flags(job) == job.dif_flags % 256
dif_dst_flags(job) == (job.dif_flags \div 256) % 256
\* The block size is or-ed into flags whose two low bits are clear.
dif_flags_of(job) == ((job.dif_flags \div 65536) % 256) + job.block_size

DML_FLAG_COPY_ONLY == 32

\* range_check: only a checksum that has nowhere to go, and a move that the
\* caller promised is a copy, are looked at.
range_check(job) ==
    IF job.operation = operation.mem_move
    THEN IF /\ Has(flags_of(job), DML_FLAG_COPY_ONLY)
            /\ job.source_first <= job.destination_first
            /\ job.source_first + job.source_length > job.destination_first
         THEN "overlapping" ELSE "ok"
    ELSE IF job.operation \in {operation.crc, operation.copy_crc}
    THEN IF job.crc_null THEN "null_pointer" ELSE "ok"
    ELSE IF job.operation \in {operation[op] : op \in Operations} THEN "ok"
    ELSE "operation_error"

\* The bit means something else in a descriptor.  (set_flags keeps 16 bits.)
clear_copy_only(job) ==
    IF job.operation = operation.mem_move /\ Has(flags_of(job), DML_FLAG_COPY_ONLY)
    THEN [job EXCEPT !.flags = Clear(flags_of(job), DML_FLAG_COPY_ONLY)]
    ELSE job

\* dml::align
align(address) == ((address + 63) \div 64) * 64

\* The seed is read from memory and passed by value, and the flag that says so
\* is erased.
Seed(job) ==
    IF Has(specific_flags(job), crc_specific_flag.read_crc_seed) THEN job.crc ELSE 0
WithoutSeed(job) == Clear(specific_flags(job), crc_specific_flag.read_crc_seed)

SizeOfTask == 96

\* make_task(job)
make_task(job) ==
    LET is(op) == job.operation = operation[op]
        src == job.source_first
        dst == job.destination_first
        n == job.source_length
        fl == flags_of(job)
        sf == dif_src_flags(job)
        df == dif_dst_flags(job)
    IN  CASE is("nop") -> make_nop_descriptor(fl)
          [] is("batch") ->
                make_batch_descriptor(align(dst), job.destination_length \div SizeOfTask, fl)
          [] is("drain") ->
                make_drain_descriptor(dst, job.destination_second, fl, specific_flags(job))
          [] is("mem_move") -> make_mem_move_descriptor(src, dst, n, fl)
          [] is("fill") -> make_fill_descriptor(job.pattern, dst, job.destination_length, fl)
          [] is("dualcast") ->
                make_dualcast_descriptor(src, dst, job.destination_second, n, fl,
                                        specific_flags(job))
          [] is("compare") ->
                make_compare_descriptor(src, job.source_second, n, fl, job.expected_result)
          [] is("compare_pattern") ->
                make_compare_pattern_descriptor(job.pattern, src, n, fl, job.expected_result)
          [] is("crc") -> make_crc_descriptor(src, n, Seed(job), fl, WithoutSeed(job))
          [] is("copy_crc") ->
                make_copy_crc_descriptor(src, dst, n, Seed(job), fl, WithoutSeed(job))
          [] is("create_delta") ->
                make_create_delta_descriptor(src, job.source_second, n, dst,
                                            job.destination_length, fl, job.expected_result)
          [] is("apply_delta") ->
                make_apply_delta_descriptor(src, n, dst, job.destination_length, fl)
          [] is("dif_check") ->
                make_dif_check_descriptor(src, n, job.src_tags, fl, dif_flags_of(job), sf)
          [] is("dif_insert") ->
                make_dif_insert_descriptor(src, dst, n, job.dst_tags, fl, dif_flags_of(job), df)
          [] is("dif_strip") ->
                make_dif_strip_descriptor(src, dst, n, job.src_tags, fl, dif_flags_of(job), sf)
          [] is("dif_update") ->
                make_dif_update_descriptor(src, dst, n, job.src_tags, job.dst_tags, fl,
                                          dif_flags_of(job), sf, df)
          [] is("cache_flush") -> make_cache_flush_descriptor(dst, job.destination_length, fl)
          [] OTHER -> make_nop_descriptor(fl)

=============================================================================
