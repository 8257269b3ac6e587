------------------------------ MODULE Validation ------------------------------
(***************************************************************************)
(* core::validate: the checks made on a descriptor before it is submitted,  *)
(* in the order of the code; the first that fails decides the status.       *)
(***************************************************************************)
EXTENDS Views

CONSTANT SizeRange  \* sizes are unsigned integers below it: 2^32 in the code

ASSUME SizeAssumption == SizeRange \in Nat \ {0}

\* RETURN_STATUS_IF in sequence: checks are <<condition, status>>.
FirstOf(checks) ==
    IF \A i \in DOMAIN checks : ~checks[i][1] THEN "success"
    ELSE LET first == CHOOSE i \in DOMAIN checks :
                        checks[i][1] /\ \A k \in DOMAIN checks : k < i => ~checks[k][1]
         IN  checks[first][2]

any_equal_zero(values) == \E i \in DOMAIN values : values[i] = 0
any_misaligned(alignment, values) == \E i \in DOMAIN values : values[i] % alignment # 0

overlaps(lhs, lhs_size, rhs, rhs_size) ==
    \/ lhs <= rhs /\ lhs + lhs_size > rhs
    \/ rhs <= lhs /\ rhs + rhs_size > lhs

DifBlockSize(dif_flags) == CASE dif_flags % 4 = 0 -> 512 [] dif_flags % 4 = 1 -> 520
                             [] dif_flags % 4 = 2 -> 4096 [] dif_flags % 4 = 3 -> 4104

MaxDeltaSize == 524288

\* Addresses and size, which every data operation has.
Present(addresses, sizes) ==
    <<<<any_equal_zero(addresses), "null_address">>, <<any_equal_zero(sizes), "null_size">>>>

validate_fill(v) == FirstOf(Present(<<v.destination_address>>, <<v.transfer_size>>))

validate_mem_move(v) ==
    FirstOf(Present(<<v.source_address, v.destination_address>>, <<v.transfer_size>>))

validate_compare(v) ==
    FirstOf(Present(<<v.source_1_address, v.source_2_address>>, <<v.transfer_size>>))

validate_compare_pattern(v) == FirstOf(Present(<<v.source_address>>, <<v.transfer_size>>))

validate_create_delta(v) ==
    FirstOf(Present(<<v.source_1_address, v.source_2_address, v.delta_record_address>>,
                    <<v.transfer_size, v.maximum_delta_record_size>>)
            \o <<<<any_misaligned(8, <<v.source_1_address, v.source_2_address,
                                       v.delta_record_address>>), "misalignment">>,
                 <<v.transfer_size % 8 # 0, "wrong_size">>,
                 <<v.transfer_size > MaxDeltaSize, "large_size">>,
                 <<v.maximum_delta_record_size % 10 # 0 \/ v.maximum_delta_record_size < 80,
                   "wrong_delta_size">>>>)

validate_apply_delta(v) ==
    FirstOf(Present(<<v.destination_address, v.delta_record_address>>,
                    <<v.transfer_size, v.delta_record_size>>)
            \o <<<<overlaps(v.delta_record_address, v.delta_record_size,
                            v.destination_address, v.transfer_size), "overlapping">>,
                 <<any_misaligned(8, <<v.destination_address, v.delta_record_address>>),
                   "misalignment">>,
                 <<v.transfer_size % 8 # 0, "wrong_size">>,
                 <<v.transfer_size > MaxDeltaSize, "large_size">>,
                 <<v.delta_record_size % 10 # 0, "wrong_delta_size">>>>)

validate_dualcast(v) ==
    LET n == v.transfer_size
    IN  FirstOf(Present(<<v.source_address, v.destination_1_address, v.destination_2_address>>,
                        <<n>>)
            \o <<<<v.destination_1_address % 4096 # v.destination_2_address % 4096,
                   "wrong_dualcast_address">>,
                 <<overlaps(v.source_address, n, v.destination_1_address, n), "overlapping">>,
                 <<overlaps(v.source_address, n, v.destination_2_address, n), "overlapping">>,
                 <<overlaps(v.destination_1_address, n, v.destination_2_address, n),
                   "overlapping">>>>)

validate_crc(v) == FirstOf(Present(<<v.source_address>>, <<v.transfer_size>>))

validate_copy_crc(v) ==
    FirstOf(Present(<<v.source_address, v.destination_address>>, <<v.transfer_size>>)
            \o <<<<overlaps(v.source_address, v.transfer_size,
                            v.destination_address, v.transfer_size), "overlapping">>>>)

validate_cache_flush(v) == FirstOf(Present(<<v.destination_address>>, <<v.transfer_size>>))

validate_dif_check(v) ==
    FirstOf(Present(<<v.source_address>>, <<v.transfer_size>>)
            \o <<<<v.transfer_size % (DifBlockSize(v.dif_flags) + 8) # 0, "wrong_dif_size">>>>)

\* The size with the protection fields is computed in the width of a size.
validate_dif_insert(v) ==
    LET block == DifBlockSize(v.dif_flags)
        n == v.transfer_size
        grown == (n + (n \div block) * 8) % SizeRange
    IN  FirstOf(Present(<<v.source_address, v.destination_address>>, <<n>>)
            \o <<<<n % block # 0, "wrong_dif_size">>,
                 <<overlaps(v.source_address, n, v.destination_address, grown), "overlapping">>>>)

\* Mutant: without the workaround for the hardware.
validate_dif_strip_apart(v) ==
    LET block == DifBlockSize(v.dif_flags)
        n == v.transfer_size
        stripped == n - (n \div block) * 8
    IN  FirstOf(Present(<<v.source_address, v.destination_address>>, <<n>>)
            \o <<<<n % (block + 8) # 0, "wrong_dif_size">>,
                 <<overlaps(v.source_address, n, v.destination_address, stripped),
                   "overlapping">>>>)
\* The size left after the protection fields are gone is computed from blocks
\* without them, and is too small from 64 blocks of 512 bytes on; destinations
\* that end shortly before the source are refused for another reason.
validate_dif_strip(v) ==
    LET block == DifBlockSize(v.dif_flags)
        n == v.transfer_size
        stripped == n - (n \div block) * 8
    IN  FirstOf(Present(<<v.source_address, v.destination_address>>, <<n>>)
            \o <<<<n % (block + 8) # 0, "wrong_dif_size">>,
                 <<overlaps(v.source_address, n, v.destination_address, stripped),
                   "overlapping">>,
                 <<v.destination_address < v.source_address
                     /\ v.destination_address + stripped <= v.source_address
                     /\ v.source_address <= v.destination_address + n,
                   "dif_strip_adjacent">>>>)

validate_dif_update(v) ==
    FirstOf(Present(<<v.source_address, v.destination_address>>, <<v.transfer_size>>)
            \o <<<<v.transfer_size % (DifBlockSize(v.dif_flags) + 8) # 0, "wrong_dif_size">>,
                 <<overlaps(v.source_address, v.transfer_size,
                            v.destination_address, v.transfer_size), "overlapping">>>>)

validate_batch(v) ==
    FirstOf(<<<<v.descriptor_list_address = 0, "null_address">>,
              <<v.descriptors_count < 4, "wrong_batch_size">>>>)

\* The fields of a descriptor as its operation's view shows them.
Fields(dsc, op) == [n \in DOMAIN View[op] |-> Get(dsc, View[op][n])]

validate(dsc) ==
    LET code == Get(dsc, any_descriptor.operation)
        v(op) == Fields(dsc, op)
    IN  CASE code \in {operation.nop, operation.drain} -> "success"
          [] code = operation.batch -> validate_batch(v("batch"))
          [] code = operation.mem_move -> validate_mem_move(v("mem_move"))
          [] code = operation.fill -> validate_fill(v("fill"))
          [] code = operation.compare -> validate_compare(v("compare"))
          [] code = operation.compare_pattern -> validate_compare_pattern(v("compare_pattern"))
          [] code = operation.create_delta -> validate_create_delta(v("create_delta"))
          [] code = operation.apply_delta -> validate_apply_delta(v("apply_delta"))
          [] code = operation.dualcast -> validate_dualcast(v("dualcast"))
          [] code = operation.crc -> validate_crc(v("crc"))
          [] code = operation.copy_crc -> validate_copy_crc(v("copy_crc"))
          [] code = operation.dif_check -> validate_dif_check(v("dif_check"))
          [] code = operation.dif_insert -> validate_dif_insert(v("dif_insert"))
          [] code = operation.dif_strip -> validate_dif_strip(v("dif_strip"))
          [] code = operation.dif_update -> validate_dif_update(v("dif_update"))
          [] code = operation.cache_flush -> validate_cache_flush(v("cache_flush"))
          [] OTHER -> "unsupported_operation"
=============================================================================
