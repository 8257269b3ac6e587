-------------------------------- MODULE MCApi --------------------------------
(* One job, two handlers of one type and a blocking call, for every operation *)
EXTENDS Api

CONSTANTS j, h1, h2, b1, b2, b3, call, temporary

MCAddress == j :> 201 @@ b1 :> 202 @@ b2 :> 203 @@ b3 :> 204 @@ call :> 205 @@ temporary :> 206

W(op, arg, flags) == [op |-> op, arg |-> arg, flags |-> flags]
NoArg == [n \in {} |-> 0]

Move(s, d, n, f) ==
    W("mem_move", [source_address |-> s, destination_address |-> d, transfer_size |-> n], f)
Fill(f) == W("fill", [pattern |-> 3, destination_address |-> 64, transfer_size |-> 9], f)
Compare(e, f) ==
    W("compare", [source_1_address |-> 64, source_2_address |-> 128, transfer_size |-> 3,
                  expected_result |-> e], f)
ComparePattern(e, f) ==
    W("compare_pattern", [pattern |-> 3, source_address |-> 64, transfer_size |-> 9,
                          expected_result |-> e], f)
CreateDelta(n, max, e, f) ==
    W("create_delta", [source_1_address |-> 64, source_2_address |-> 128, transfer_size |-> n,
                       delta_record_address |-> 256, maximum_delta_record_size |-> max,
                       expected_result_mask |-> e], f)
ApplyDelta(d, f) ==
    W("apply_delta", [delta_record_address |-> 64, destination_address |-> d,
                      transfer_size |-> 16, delta_record_size |-> 20], f)
Dualcast(s, d1, d2, f) ==
    W("dualcast", [source_address |-> s, destination_1_address |-> d1,
                   destination_2_address |-> d2, transfer_size |-> 2,
                   operation_specific_flags |-> 0], f)
Crc(seed, spec, f) ==
    W("crc", [source_address |-> 64, transfer_size |-> 3, crc_seed |-> seed,
              operation_specific_flags |-> spec], f)
CopyCrc(d, seed, f) ==
    W("copy_crc", [source_address |-> 64, destination_address |-> d, transfer_size |-> 2,
                   crc_seed |-> seed, operation_specific_flags |-> 6], f)
CacheFlush(f) == W("cache_flush", [destination_address |-> 64, transfer_size |-> 2], f)
Batch(n) == W("batch", [descriptor_list_address |-> 128, descriptors_count |-> n], {})

SourceTags == [source_ref_tag |-> 21, source_app_tag_mask |-> 22, source_app_tag |-> 23]
DestinationTags ==
    [destination_ref_tag |-> 24, destination_app_tag_mask |-> 25, destination_app_tag |-> 26]
DifCheck(n) ==
    W("dif_check", [source_address |-> 64, transfer_size |-> n, dif_flags |-> 4,
                    source_dif_flags |-> 32] @@ SourceTags, {})
DifInsert(s, d, n, f) ==
    W("dif_insert", [source_address |-> s, destination_address |-> d, transfer_size |-> n,
                     dif_flags |-> 0, destination_dif_flags |-> 16] @@ DestinationTags, f)
DifStrip(s, d, n) ==
    W("dif_strip", [source_address |-> s, destination_address |-> d, transfer_size |-> n,
                    dif_flags |-> 0, source_dif_flags |-> 2] @@ SourceTags, {})
DifUpdate(d) ==
    W("dif_update", [source_address |-> 1024, destination_address |-> d, transfer_size |-> 1040,
                     dif_flags |-> 8, source_dif_flags |-> 1, destination_dif_flags |-> 8]
                    @@ SourceTags @@ DestinationTags, {})

\* Requests of the job API.
J(want) == [want |-> want, copy_only |-> FALSE]
CopyOnly(want) == [want |-> want, copy_only |-> TRUE]

Blocking == {"block_on_fault", "cache_control"}

JobMenus ==
    { {J(W("nop", NoArg, {})),
       J(W("drain", [readback_address_1 |-> 64, readback_address_2 |-> 128,
                     operation_specific_flags |-> 3], {}))},
      {CopyOnly(Move(64, 128, 2, {"cache_control"})), CopyOnly(Move(64, 65, 2, {}))},
      {J(Move(64, 65, 2, Blocking)), J(Fill(Blocking))},
      {J(Compare(1, {"check_result"})), J(Crc(5, 2, {}))},
      {J(ComparePattern(0, {"check_result"})), J(Move(0, 65, 2, {}))},
      {J(CreateDelta(72, 80, 2, {"check_result", "block_on_fault"})), J(CreateDelta(16, 80, 2, {"check_result"})),
       J(CreateDelta(16, 70, 0, {}))},
      {J(ApplyDelta(128, {})), J(ApplyDelta(72, {}))},
      {J(Dualcast(64, 4096 + 128, 8192 + 128, Blocking)), J(Dualcast(64, 4096 + 65, 65, {}))},
      {J(Crc(0, 4, {})), J(CopyCrc(256, 7, {"block_on_fault"}))},
      {J(CopyCrc(65, 0, {})), J(CacheFlush({"cache_control"}))},
      {J(Batch(4)), J(Batch(3))},
      {J(DifCheck(1040)), J(DifCheck(1024))},
      {J(DifInsert(64, 2048, 1024, {})), J(DifInsert(64, 64 + 1020, 1024, {})), J(DifInsert(64, 64, 1000, {})),
       J(DifInsert(1024, 64, 127 * 512, {"block_on_fault"}))},
      {J(DifStrip(4096, 64, 520)), J(DifStrip(4096, 4096 - 512, 520)),
       J(DifStrip(40000, 40000 - 33276, 65 * 520))},
      {J(DifUpdate(4096)), J(DifUpdate(1024 + 1032))} }

\* Requests of the high-level API.
H(want) == [want |-> want, op |-> want.op, odd |-> 0]
Odd(want, i) == [want |-> want, op |-> want.op, odd |-> i]
Copy(want) == [want |-> want, op |-> "mem_copy", odd |-> 0]

Cached == {"cache_control"}

HlMenus ==
    { {H(W("nop", NoArg, {"fence"}))},
      {H(Move(64, 65, 2, Cached)), Odd(Move(64, 65, 2, Cached), 2)},
      {Copy(Move(64, 128, 2, Blocking)), Copy(Move(64, 128, 0, Cached))},
      {H(Fill(Cached))},
      {H(Dualcast(64, 4096 + 128, 8192 + 128, Cached)),
       Odd(Dualcast(64, 4096 + 128, 8192 + 128, Cached), 3)},
      {H(Compare(1, {"check_result", "block_on_fault"})), H(Compare(0, {}))},
      {H(ComparePattern(0, {"check_result"})), H(ComparePattern(1, {"check_result"}))},
      {H(CreateDelta(16, 80, 2, Cached \cup {"check_result"})), Odd(CreateDelta(16, 80, 0, Cached), 2)},
      {H(ApplyDelta(128, Cached)), Odd(ApplyDelta(128, Cached), 1)},
      {H(Crc(5, 6, {})), H(Crc(5, 2, {"block_on_fault"}))},
      {H(CopyCrc(256, 7, Cached)), Odd(CopyCrc(256, 7, Cached), 2), H(CopyCrc(65, 7, Cached))},
      {H(CacheFlush({"cache_control"})), H(CacheFlush({}))},
      {H(Batch(4)), H(Batch(3))} }

\* Every operation of either API on every path, jobs with calls one after the
\* other; handlers that are moved while operations fault; two paths at the same
\* time; and a longer life of handlers.
All == {"software", "hardware", "automatic"}
MCApplications ==
    [api : {"job"}, requests : JobMenus, paths : {All}, calls : {4}]
    \cup [api : {"hl"}, requests : HlMenus, paths : {{path} : path \in All}, calls : {1}]
    \cup [api : {"hl"}, requests : {{H(Compare(0, {}))}, {H(Crc(5, 6, {}))}},
          paths : {{"automatic"}}, calls : {2}]
    \cup [api : {"hl"}, requests : {{H(Fill(Cached))}}, paths : {{"hardware", "automatic"}}, calls : {2}]
    \cup [api : {"hl"}, requests : {{H(Fill(Blocking)), Odd(Move(64, 65, 2, Cached), 2)}},
          paths : {{"automatic"}}, calls : {4}]
=============================================================================
