-------------------------------- MODULE Views --------------------------------
(***************************************************************************)
(* Descriptors (64 bytes) and completion records (32 bytes) are untyped     *)
(* memory that is read and written through views, one per operation, each a *)
(* set of fields at fixed offsets.  Memory is modelled as the set of the     *)
(* values other than 0 that were written, each with the bytes it occupies;   *)
(* a value that is written over in part, or read with other bytes than it    *)
(* was written with, is torn.                                                *)
(***************************************************************************)
EXTENDS Integers, Sequences, SequencesExt

\* descriptor(), completion_record(): every byte zero.
Blank == {}

\* A field is <<offset, width>>, a written value is <<offset, width, value>>.
Touches(c, field) == c[1] < field[1] + field[2] /\ field[1] < c[1] + c[2]
Covers(field, c) == field[1] <= c[1] /\ c[1] + c[2] <= field[1] + field[2]

Torn == -1

\* Assigning to, and reading, the reference that an accessor of a view returns.
Put(mem, field, v) ==
    {IF Touches(c, field) THEN <<c[1], c[2], Torn>> ELSE c : c \in {d \in mem : ~Covers(field, d)}}
    \cup (IF v = 0 THEN {} ELSE {<<field[1], field[2], v>>})

\* The same through several accessors of a view: x has the values by field.
PutAll(mem, view, x) ==
    {IF \E n \in DOMAIN x : Touches(c, view[n]) THEN <<c[1], c[2], Torn>> ELSE c :
        c \in {d \in mem : \A n \in DOMAIN x : ~Covers(view[n], d)}}
    \cup {<<view[n][1], view[n][2], x[n]>> : n \in {m \in DOMAIN x : x[m] # 0}}

Get(mem, field) ==
    LET hit == {c \in mem : Touches(c, field)}
    IN  IF hit = {} THEN 0
        ELSE IF \E v \in {c[3] : c \in hit} : hit = {<<field[1], field[2], v>>}
        THEN (CHOOSE c \in hit : TRUE)[3]
        ELSE Torn

-----------------------------------------------------------------------------
(* Operation codes and flags. *)

operation ==
    [nop |-> 0, batch |-> 1, drain |-> 2, mem_move |-> 3, fill |-> 4, compare |-> 5,
     compare_pattern |-> 6, create_delta |-> 7, apply_delta |-> 8, dualcast |-> 9,
     crc |-> 16, copy_crc |-> 17, dif_check |-> 18, dif_insert |-> 19, dif_strip |-> 20,
     dif_update |-> 21, cache_flush |-> 32]

Operations == DOMAIN operation

\* The bits of the flags field (those the library or its callers set).
flag ==
    [fence |-> 1, block_on_fault |-> 2, completion_record_address_valid |-> 4,
     request_completion_record |-> 8, completion_record_steering_tag_selector |-> 32,
     check_result |-> 128, cache_control |-> 256]

Has(flags, bit) == (flags \div bit) % 2 = 1
Enable(flags, bit) == IF Has(flags, bit) THEN flags ELSE flags + bit
Clear(flags, bit) == IF Has(flags, bit) THEN flags - bit ELSE flags

crc_specific_flag ==
    [read_crc_seed |-> 1, bypass_crc_inversion_and_reflection |-> 2, bypass_data_reflection |-> 4]

-----------------------------------------------------------------------------
(* Views of a descriptor. *)

any_descriptor ==
    [flags |-> <<4, 2>>, operation_specific_flags |-> <<6, 1>>, operation |-> <<7, 1>>,
     completion_record_address |-> <<8, 8>>, source_address |-> <<16, 8>>,
     destination_address |-> <<24, 8>>, transfer_size |-> <<32, 4>>]

\* Accessors that views have in common.
Source == any_descriptor.source_address
Destination == any_descriptor.destination_address
Size == any_descriptor.transfer_size
Specific == any_descriptor.operation_specific_flags

nop_descriptor == [n \in {} |-> Source]

batch_descriptor == [descriptor_list_address |-> Source, descriptors_count |-> Size]

drain_descriptor ==
    [readback_address_1 |-> Source, readback_address_2 |-> Destination,
     operation_specific_flags |-> Specific]

mem_move_descriptor ==
    [source_address |-> Source, destination_address |-> Destination, transfer_size |-> Size]

fill_descriptor == [pattern |-> Source, destination_address |-> Destination, transfer_size |-> Size]

compare_descriptor ==
    [source_1_address |-> Source, source_2_address |-> Destination, transfer_size |-> Size,
     expected_result |-> <<40, 1>>]

compare_pattern_descriptor ==
    [pattern |-> Destination, source_address |-> Source, transfer_size |-> Size,
     expected_result |-> <<40, 1>>]

create_delta_descriptor ==
    [source_1_address |-> Source, source_2_address |-> Destination, transfer_size |-> Size,
     delta_record_address |-> <<40, 8>>, maximum_delta_record_size |-> <<48, 4>>,
     expected_result_mask |-> <<56, 1>>]

apply_delta_descriptor ==
    [delta_record_address |-> Source, destination_address |-> Destination,
     transfer_size |-> Size, delta_record_size |-> <<40, 4>>]

dualcast_descriptor ==
    [source_address |-> Source, destination_1_address |-> Destination,
     destination_2_address |-> <<40, 8>>, transfer_size |-> Size,
     operation_specific_flags |-> Specific]

crc_descriptor ==
    [source_address |-> Source, transfer_size |-> Size, crc_seed |-> <<40, 4>>,
     operation_specific_flags |-> Specific]

copy_crc_descriptor ==
    [source_address |-> Source, destination_address |-> Destination, transfer_size |-> Size,
     crc_seed |-> <<40, 4>>, operation_specific_flags |-> Specific]

dif_check_descriptor ==
    [source_address |-> Source, transfer_size |-> Size, source_dif_flags |-> <<40, 1>>,
     dif_flags |-> <<42, 1>>, source_ref_tag |-> <<48, 4>>, source_app_tag_mask |-> <<52, 2>>,
     source_app_tag |-> <<54, 2>>]

dif_insert_descriptor ==
    [source_address |-> Source, destination_address |-> Destination, transfer_size |-> Size,
     destination_dif_flags |-> <<41, 1>>, dif_flags |-> <<42, 1>>,
     destination_ref_tag |-> <<56, 4>>, destination_app_tag_mask |-> <<60, 2>>,
     destination_app_tag |-> <<62, 2>>]

dif_strip_descriptor ==
    [source_address |-> Source, destination_address |-> Destination, transfer_size |-> Size,
     source_dif_flags |-> <<40, 1>>, dif_flags |-> <<42, 1>>, source_ref_tag |-> <<48, 4>>,
     source_app_tag_mask |-> <<52, 2>>, source_app_tag |-> <<54, 2>>]

dif_update_descriptor ==
    [source_address |-> Source, destination_address |-> Destination, transfer_size |-> Size,
     source_dif_flags |-> <<40, 1>>, destination_dif_flags |-> <<41, 1>>,
     dif_flags |-> <<42, 1>>, source_ref_tag |-> <<48, 4>>, source_app_tag_mask |-> <<52, 2>>,
     source_app_tag |-> <<54, 2>>, destination_ref_tag |-> <<56, 4>>,
     destination_app_tag_mask |-> <<60, 2>>, destination_app_tag |-> <<62, 2>>]

cache_flush_descriptor == [destination_address |-> Destination, transfer_size |-> Size]

\* make_view<operation>(descriptor)
View ==
    [nop |-> nop_descriptor, batch |-> batch_descriptor, drain |-> drain_descriptor,
     mem_move |-> mem_move_descriptor, fill |-> fill_descriptor, compare |-> compare_descriptor,
     compare_pattern |-> compare_pattern_descriptor, create_delta |-> create_delta_descriptor,
     apply_delta |-> apply_delta_descriptor, dualcast |-> dualcast_descriptor,
     crc |-> crc_descriptor, copy_crc |-> copy_crc_descriptor,
     dif_check |-> dif_check_descriptor, dif_insert |-> dif_insert_descriptor,
     dif_strip |-> dif_strip_descriptor, dif_update |-> dif_update_descriptor,
     cache_flush |-> cache_flush_descriptor]

-----------------------------------------------------------------------------
(* Views of a completion record. *)

any_completion_record ==
    [status |-> <<0, 1>>, result |-> <<1, 1>>, bytes_completed |-> <<4, 4>>,
     fault_address |-> <<8, 8>>]

\* Mutant: the checksum lies on the count of bytes.
crc_completion_record_low == [crc_value |-> <<6, 4>>]
crc_completion_record == [crc_value |-> <<16, 4>>]

create_delta_completion_record == [delta_record_size |-> <<16, 4>>]

dif_check_completion_record ==
    [source_ref_tag |-> <<16, 4>>, source_app_tag_mask |-> <<20, 2>>, source_app_tag |-> <<22, 2>>]

dif_insert_completion_record ==
    [destination_ref_tag |-> <<24, 4>>, destination_app_tag_mask |-> <<28, 2>>,
     destination_app_tag |-> <<30, 2>>]

dif_strip_completion_record ==
    [source_ref_tag |-> <<16, 4>>, source_app_tag_mask |-> <<20, 2>>, source_app_tag |-> <<22, 2>>]

\* A view with the fields of two.
Joined(f, g) ==
    [n \in DOMAIN f \cup DOMAIN g |-> IF n \in DOMAIN f THEN f[n] ELSE g[n]]

dif_update_completion_record ==
    Joined(dif_strip_completion_record, dif_insert_completion_record)

\* make_view<operation>(completion_record)
RecordView == [op \in Operations |-> Joined(any_completion_record,
    CASE op \in {"crc", "copy_crc"} -> crc_completion_record
      [] op = "create_delta" -> create_delta_completion_record
      [] op = "dif_check" -> dif_check_completion_record
      [] op = "dif_insert" -> dif_insert_completion_record
      [] op = "dif_strip" -> dif_strip_completion_record
      [] op = "dif_update" -> dif_update_completion_record
      [] OTHER -> [n \in {} |-> <<0, 0>>])]
=============================================================================
