----------------------------- MODULE ApiProofs -----------------------------
(***************************************************************************)
(* The two APIs, for every number of jobs, handlers and heap buffers and   *)
(* every application, on top of who owns what (OwnershipProofs).           *)
(*                                                                         *)
(* Content: the fields of a descriptor lie apart, so each write reads back *)
(* and rebind keeps what was written. What the device reads is therefore   *)
(* what the application asked for, on every submission, or the rest of it  *)
(* after a fault, and what validate accepted is true of the buffers that   *)
(* the application named.                                                  *)
(*                                                                         *)
(* Values: no field of a record is torn, so every job keeps its type       *)
(* although a checksum goes on from the result of the last one.            *)
(*                                                                         *)
(* Promise: what the record of an object shows is the outcome of what was  *)
(* asked for, so every step is one that Operation allows.                  *)
(***************************************************************************)
EXTENDS OwnershipProofs

-----------------------------------------------------------------------------
(* What is read through the views of a descriptor. *)

\* The write of the operation that every view makes.
OperationWrite(op) == <<any_descriptor.operation, operation[op]>>

\* Writes through fields that are apart from each other.
AllApart(writes) == \A w \in writes :
    IsField(w[1]) /\ \A x \in writes : x = w \/ Apart(w[1], x[1])

\* On a descriptor that is all zeros, each of them is read back.
LEMMA WrittenRead ==
    ASSUME NEW op, NEW writes, AllApart(writes \cup {OperationWrite(op)}),
           NEW w \in writes \cup {OperationWrite(op)}
    PROVE  Get(Written(op, writes), w[1]) = w[2] /\ Clean(Written(op, writes), w[1])
<1> DEFINE all == writes \cup {OperationWrite(op)}
           dsc == Written(op, writes)
           f == w[1]
           v == w[2]
           cell == <<f[1], f[2], v>>
<1>1. dsc = {<<x[1][1], x[1][2], x[2]>> : x \in {y \in all : y[2] # 0}}
  BY DEF Written, OperationWrite
<1> HIDE DEF dsc
<1>2. IsField(f) /\ \A x \in all : IsField(x[1]) /\ (x = w \/ Apart(f, x[1]))
  BY DEF AllApart
<1> HIDE DEF all
<1>3. ASSUME NEW c \in dsc
      PROVE  (c = cell /\ v # 0) \/ (c[1] \in Int /\ c[2] \in Int /\ ~Touches(c, f))
  <2>1. PICK x \in all : x[2] # 0 /\ c = <<x[1][1], x[1][2], x[2]>>
    BY <1>1
  <2>2. CASE x = w
    BY <2>1, <2>2
  <2>3. CASE x # w
    <3>1. IsField(x[1]) /\ Apart(f, x[1]) /\ c[1] = x[1][1] /\ c[2] = x[1][2]
      BY <1>2, <2>1, <2>3
    <3> HIDE DEF f
    <3> QED  BY <1>2, <3>1 DEF IsField, Apart, Touches
  <2> QED  BY <2>2, <2>3
<1>4. v # 0 => cell \in dsc
  BY <1>1 DEF all
<1> HIDE DEF f, v
<1>5. Touches(cell, f) /\ cell[1] = f[1] /\ cell[2] = f[2] /\ f[1] \in Int /\ f[2] \in Int
  BY <1>2 DEF Touches, IsField
<1> HIDE DEF cell
<1>6. Clean(dsc, f)
  BY <1>3, <1>5 DEF Clean
<1>7. CASE v = 0
  <2>1. {c \in dsc : Touches(c, f)} = {}
    BY <1>3, <1>7
  <2> QED  BY <1>6, <1>7, <2>1, ReadNone DEF dsc, f, v
<1>8. CASE v # 0
  <2>1. {c \in dsc : Touches(c, f)} = {cell}
    BY <1>3, <1>4, <1>5, <1>8
  <2>2. Get(dsc, f) = v
    BY <2>1, ReadOne DEF cell
  <2> QED  BY <1>6, <2>2 DEF dsc, f, v
<1> QED  BY <1>7, <1>8

\* The writes of the arguments of an operation, each through its field.
ArgWrites(op, arg) == {<<View[op][n], arg[n]>> : n \in DOMAIN View[op]}

\* A descriptor with these arguments and flags, whatever record it is bound to.
Holds(dsc, op, arg, flags) ==
    /\ Clean(dsc, AddressField) /\ Clean(dsc, FlagsField) /\ Get(dsc, FlagsField) = flags
    /\ \A w \in ArgWrites(op, arg) \cup {OperationWrite(op)} :
            Clean(dsc, w[1]) /\ Get(dsc, w[1]) = w[2]

\* The writes of a task are apart from each other, from the flags and from the address.
LEMMA TaskWrites ==
    ASSUME NEW op \in Operations, NEW arg, NEW w \in ArgWrites(op, arg) \cup {OperationWrite(op)}
    PROVE  /\ IsField(w[1]) /\ Apart(w[1], FlagsField) /\ Apart(FlagsField, w[1])
           /\ Apart(w[1], AddressField)
           /\ \A x \in ArgWrites(op, arg) \cup {OperationWrite(op)} : x = w \/ Apart(w[1], x[1])
<1> DEFINE view == View[op]
           ow == OperationWrite(op)
<1>1. Layout(view)
  BY ViewLayout
<1>2. ow[1] = <<7, 1>>
  BY SharedFields DEF OperationWrite
<1> HIDE DEF view, ow
<1>3. \A n \in DOMAIN view :
          /\ IsField(view[n]) /\ Apart(view[n], <<7, 1>>) /\ Apart(<<7, 1>>, view[n])
          /\ Apart(view[n], <<4, 2>>) /\ Apart(<<4, 2>>, view[n]) /\ Apart(view[n], <<8, 8>>)
          /\ \A m \in DOMAIN view : m # n => Apart(view[n], view[m])
  BY <1>1 DEF Layout, IsField, Apart
<1>4. CASE w = ow
  <2>1. IsField(w[1]) /\ Apart(w[1], FlagsField) /\ Apart(FlagsField, w[1])
        /\ Apart(w[1], AddressField)
    BY <1>2, <1>4, SharedFields DEF IsField, Apart
  <2>2. \A x \in ArgWrites(op, arg) : Apart(w[1], x[1])
    <3> SUFFICES ASSUME NEW n \in DOMAIN view, NEW x, x = <<view[n], arg[n]>>
                 PROVE  Apart(w[1], x[1])
      BY DEF ArgWrites, view
    <3> QED  BY <1>2, <1>3, <1>4
  <2> QED  BY <1>4, <2>1, <2>2 DEF ow
<1>5. CASE w \in ArgWrites(op, arg)
  <2>1. PICK n \in DOMAIN view : w = <<view[n], arg[n]>>
    BY <1>5 DEF ArgWrites, view
  <2>2. w[1] = view[n]
    BY <2>1
  <2>3. IsField(w[1]) /\ Apart(w[1], FlagsField) /\ Apart(FlagsField, w[1])
        /\ Apart(w[1], AddressField)
    BY <1>3, <2>2, SharedFields
  <2>4. ASSUME NEW x \in ArgWrites(op, arg) PROVE x = w \/ Apart(w[1], x[1])
    <3>1. PICK m \in DOMAIN view : x = <<view[m], arg[m]>>
      BY <2>4 DEF ArgWrites, view
    <3>2. x[1] = view[m]
      BY <3>1
    <3>3. CASE m = n
      BY <2>1, <3>1, <3>3
    <3>4. CASE m # n
      BY <1>3, <2>2, <3>2, <3>4
    <3> QED  BY <3>3, <3>4
  <2>5. Apart(w[1], ow[1])
    BY <1>2, <1>3, <2>2
  <2> QED  BY <2>3, <2>4, <2>5 DEF ow
<1> QED  BY <1>4, <1>5 DEF ow

\* A descriptor that was just made holds what was written,
LEMMA WrittenHolds ==
    ASSUME NEW op \in Operations, NEW arg, NEW flags
    PROVE  Holds(Written(op, ArgWrites(op, arg) \cup {Flags(flags)}), op, arg, flags)
<1> DEFINE args == ArgWrites(op, arg)
           writes == args \cup {Flags(flags)}
           dsc == Written(op, writes)
           all == writes \cup {OperationWrite(op)}
<1>1. Flags(flags)[1] = FlagsField /\ Flags(flags)[2] = flags
  BY DEF Flags, FlagsField
<1>2. \A w \in args \cup {OperationWrite(op)} :
          /\ IsField(w[1]) /\ Apart(w[1], FlagsField) /\ Apart(FlagsField, w[1])
          /\ Apart(w[1], AddressField)
          /\ \A x \in args \cup {OperationWrite(op)} : x = w \/ Apart(w[1], x[1])
  BY TaskWrites
<1> HIDE DEF args
<1>3. AllApart(all)
  BY <1>1, <1>2, SharedFields DEF AllApart
<1>4. \A w \in all : Get(dsc, w[1]) = w[2] /\ Clean(dsc, w[1])
  BY <1>3, WrittenRead
<1>5. Clean(dsc, AddressField)
  <2> SUFFICES ASSUME NEW c \in dsc
               PROVE  c[1] \in Int /\ c[2] \in Int /\ ~Touches(c, AddressField)
    BY DEF Clean
  <2>1. PICK w \in all : c = <<w[1][1], w[1][2], w[2]>>
    BY DEF Written, OperationWrite
  <2>2. IsField(w[1]) /\ Apart(w[1], AddressField)
    <3>1. CASE w = Flags(flags)
      BY <1>1, <3>1, SharedFields DEF Apart
    <3>2. CASE w # Flags(flags)
      BY <1>2, <3>2
    <3> QED  BY <3>1, <3>2
  <2>3. c[1] = w[1][1] /\ c[2] = w[1][2]
    BY <2>1
  <2> QED  BY <2>2, <2>3, SharedFields DEF IsField, Apart, Touches
<1> HIDE DEF dsc
<1>6. Get(dsc, FlagsField) = flags /\ Clean(dsc, FlagsField)
  BY <1>1, <1>4
<1> QED  BY <1>4, <1>5, <1>6 DEF Holds, dsc, args

\* and still does after it was bound to a record, but for the two flags.
LEMMA ReboundHolds ==
    ASSUME NEW op \in Operations, NEW arg, NEW flags, NEW dsc, Holds(dsc, op, arg, flags), NEW a
    PROVE  Holds(rebind(dsc, a), op, arg,
                 Enable(Enable(flags, flag.completion_record_address_valid),
                        flag.request_completion_record))
<1> DEFINE more == Enable(Enable(flags, flag.completion_record_address_valid),
                          flag.request_completion_record)
           one == Put(dsc, AddressField, a)
           two == Put(one, FlagsField, more)
<1>1. rebind(dsc, a) = two
  BY DEF rebind, Holds, AddressField, FlagsField
<1> HIDE DEF more
<1>2. Apart(FlagsField, AddressField) /\ Apart(AddressField, FlagsField)
  BY SharedFields DEF Apart
<1>3. Clean(one, AddressField) /\ Clean(one, FlagsField)
  BY <1>2, PutSame, PutOther, SharedFields DEF Holds
<1> HIDE DEF one
<1>4. Clean(two, AddressField) /\ Clean(two, FlagsField) /\ Get(two, FlagsField) = more
  BY <1>2, <1>3, PutSame, PutOther, SharedFields
<1>5. ASSUME NEW w \in ArgWrites(op, arg) \cup {OperationWrite(op)}
      PROVE  Clean(two, w[1]) /\ Get(two, w[1]) = w[2]
  <2>1. IsField(w[1]) /\ Apart(w[1], FlagsField) /\ Apart(w[1], AddressField)
    BY TaskWrites
  <2>2. Clean(dsc, w[1]) /\ Get(dsc, w[1]) = w[2]
    BY DEF Holds
  <2>3. Clean(one, w[1]) /\ Get(one, w[1]) = w[2]
    BY <2>1, <2>2, PutOther, SharedFields DEF one
  <2> QED  BY <2>1, <2>3, PutOther, SharedFields
<1> HIDE DEF two
<1> QED  BY <1>1, <1>4, <1>5 DEF Holds, more

\* No two operations have the same code.
LEMMA OwnCode ==
    ASSUME NEW op \in Operations
    PROVE  (CHOOSE p \in Operations : operation[p] = operation[op]) = op
<1>1. \A p \in Operations : operation[p] = operation[op] => p = op
  BY DEF Operations, operation
<1> QED  BY <1>1

\* The flags but for the two that rebind sets.
OwnFlags == DOMAIN flag \ {"completion_record_address_valid", "request_completion_record"}

\* A descriptor that was only written through the view of its operation.
Intact(dsc) ==
    /\ Clean(dsc, FlagsField)
    /\ \A n \in DOMAIN View[OperationOf(dsc)] : Clean(dsc, View[OperationOf(dsc)][n])

\* How a device sees a descriptor.
LEMMA HoldsSeen ==
    ASSUME NEW op \in Operations, NEW arg, NEW flags, NEW dsc, Holds(dsc, op, arg, flags),
           arg = [n \in DOMAIN View[op] |-> arg[n]]
    PROVE  /\ Seen(dsc) = [op |-> op, arg |-> arg, flags |-> {n \in OwnFlags : Has(flags, flag[n])}]
           /\ Intact(dsc)
<1>1. Get(dsc, any_descriptor.operation) = operation[op]
  <2>1. OperationWrite(op)[1] = any_descriptor.operation /\ OperationWrite(op)[2] = operation[op]
    BY DEF OperationWrite
  <2> QED  BY <2>1 DEF Holds
<1>2. OperationOf(dsc) = op
  BY <1>1, OwnCode DEF OperationOf
<1>3. \A n \in DOMAIN View[op] : Get(dsc, View[op][n]) = arg[n] /\ Clean(dsc, View[op][n])
  <2> SUFFICES ASSUME NEW n \in DOMAIN View[op]
               PROVE  Get(dsc, View[op][n]) = arg[n] /\ Clean(dsc, View[op][n])
    OBVIOUS
  <2> DEFINE w == <<View[op][n], arg[n]>>
  <2>1. w \in ArgWrites(op, arg) /\ w[1] = View[op][n] /\ w[2] = arg[n]
    BY DEF ArgWrites
  <2> HIDE DEF w
  <2> QED  BY <2>1 DEF Holds
<1>4. Fields(dsc, op) = arg
  BY <1>3 DEF Fields
<1>5. FlagNames(dsc) = {n \in OwnFlags : Has(flags, flag[n])}
  BY DEF FlagNames, OwnFlags, Holds, FlagsField
<1>6. Intact(dsc)
  BY <1>2, <1>3 DEF Intact, Holds
<1> QED  BY <1>2, <1>4, <1>5, <1>6 DEF Seen

\* The flags that callers ask for.
CallerFlags == {"fence", "block_on_fault", "check_result", "cache_control"}

\* Each has a bit of its own, and the two that rebind sets are others.
LEMMA FlagBits ==
    ASSUME NEW a \in {0, 1}, NEW b \in {0, 1}, NEW c \in {0, 1}, NEW d \in {0, 1}, NEW word,
           word = a + 2 * b + 128 * c + 256 * d
    PROVE  /\ Enable(Enable(word, 4), 8) = word + 12
           /\ Enable(Enable(word + 12, 4), 8) = word + 12
           /\ Has(word + 12, 1) <=> a = 1
           /\ Has(word + 12, 2) <=> b = 1
           /\ ~Has(word + 12, 32)
           /\ Has(word + 12, 128) <=> c = 1
           /\ Has(word + 12, 256) <=> d = 1
<1>1. a = 0 \/ a = 1
  OBVIOUS
<1>2. b = 0 \/ b = 1
  OBVIOUS
<1>3. (c = 0 \/ c = 1) /\ (d = 0 \/ d = 1)
  OBVIOUS
<1>4. CASE c = 0 /\ d = 0
  BY <1>1, <1>2, <1>4, SMTT(60) DEF Has, Enable
<1>5. CASE c = 1 /\ d = 0
  BY <1>1, <1>2, <1>5, SMTT(60) DEF Has, Enable
<1>6. CASE c = 0 /\ d = 1
  BY <1>1, <1>2, <1>6, SMTT(60) DEF Has, Enable
<1>7. CASE c = 1 /\ d = 1
  BY <1>1, <1>2, <1>7, SMTT(60) DEF Has, Enable
<1> QED  BY <1>3, <1>4, <1>5, <1>6, <1>7

\* The word with some names, as the descriptor that is bound has it.
LEMMA WordRead ==
    ASSUME NEW names, names \subseteq CallerFlags
    PROVE  LET word == FlagWord(names)
               bound == Enable(Enable(word, flag.completion_record_address_valid),
                               flag.request_completion_record)
           IN  /\ Enable(Enable(bound, flag.completion_record_address_valid),
                         flag.request_completion_record) = bound
               /\ {n \in OwnFlags : Has(bound, flag[n])} = names
<1> DEFINE a == IF "fence" \in names THEN 1 ELSE 0
           b == IF "block_on_fault" \in names THEN 1 ELSE 0
           c == IF "check_result" \in names THEN 1 ELSE 0
           d == IF "cache_control" \in names THEN 1 ELSE 0
           word == FlagWord(names)
           bound == Enable(Enable(word, 4), 8)
<1>1. word = a + 2 * b + 128 * c + 256 * d
  BY DEF FlagWord, flag
<1>2. a \in {0, 1} /\ b \in {0, 1} /\ c \in {0, 1} /\ d \in {0, 1}
  OBVIOUS
<1>3. /\ "fence" \in names <=> a = 1
      /\ "block_on_fault" \in names <=> b = 1
      /\ "check_result" \in names <=> c = 1
      /\ "cache_control" \in names <=> d = 1
  OBVIOUS
<1>4. /\ flag.completion_record_address_valid = 4 /\ flag.request_completion_record = 8
      /\ flag["fence"] = 1 /\ flag["block_on_fault"] = 2 /\ flag["check_result"] = 128
      /\ flag["cache_control"] = 256 /\ flag["completion_record_steering_tag_selector"] = 32
  BY DEF flag
<1>5. OwnFlags = {"fence", "block_on_fault", "completion_record_steering_tag_selector",
                  "check_result", "cache_control"}
  BY DEF OwnFlags, flag
<1> HIDE DEF a, b, c, d, word
<1>6. /\ bound = word + 12 /\ Enable(Enable(bound, 4), 8) = bound
      /\ Has(bound, 1) <=> a = 1
      /\ Has(bound, 2) <=> b = 1
      /\ ~Has(bound, 32)
      /\ Has(bound, 128) <=> c = 1
      /\ Has(bound, 256) <=> d = 1
  BY <1>1, <1>2, FlagBits
<1> HIDE DEF bound
<1>7. {n \in OwnFlags : Has(bound, flag[n])} = names
  <2>1. /\ Has(bound, flag["fence"]) <=> "fence" \in names
        /\ Has(bound, flag["block_on_fault"]) <=> "block_on_fault" \in names
        /\ ~Has(bound, flag["completion_record_steering_tag_selector"])
        /\ Has(bound, flag["check_result"]) <=> "check_result" \in names
        /\ Has(bound, flag["cache_control"]) <=> "cache_control" \in names
    BY <1>3, <1>4, <1>6
  <2>2. "completion_record_steering_tag_selector" \notin names
    BY DEF CallerFlags
  <2>3. \A n \in OwnFlags : Has(bound, flag[n]) <=> n \in names
    BY <1>5, <2>1, <2>2
  <2>4. names \subseteq OwnFlags
    BY <1>5 DEF CallerFlags
  <2> HIDE DEF OwnFlags
  <2> QED  BY <2>3, <2>4
<1> QED  BY <1>4, <1>6, <1>7 DEF bound, word

\* A descriptor with the writes of a wish is seen as that wish, bound once or twice.
LEMMA WishSeen ==
    ASSUME NEW want, want = [op |-> want.op, arg |-> want.arg, flags |-> want.flags],
           want.op \in Operations, want.arg = [n \in DOMAIN View[want.op] |-> want.arg[n]],
           want.flags \subseteq CallerFlags, NEW a, NEW b
    PROVE  LET dsc == Written(want.op, ArgWrites(want.op, want.arg)
                                       \cup {Flags(FlagWord(want.flags))})
           IN  /\ Seen(rebind(dsc, a)) = want /\ Intact(rebind(dsc, a))
               /\ Seen(rebind(rebind(dsc, a), b)) = want /\ Intact(rebind(rebind(dsc, a), b))
<1> DEFINE op == want.op
           arg == want.arg
           names == want.flags
           word == FlagWord(names)
           dsc == Written(op, ArgWrites(op, arg) \cup {Flags(word)})
           bound == Enable(Enable(word, flag.completion_record_address_valid),
                           flag.request_completion_record)
           one == rebind(dsc, a)
           two == rebind(one, b)
<1>1. {n \in OwnFlags : Has(bound, flag[n])} = names
      /\ Enable(Enable(bound, flag.completion_record_address_valid),
                flag.request_completion_record) = bound
  BY WordRead
<1> HIDE DEF word
<1>2. Holds(dsc, op, arg, word)
  BY WrittenHolds
<1> HIDE DEF dsc
<1>3. Holds(one, op, arg, bound)
  BY <1>2, ReboundHolds
<1> HIDE DEF one, bound
<1>4. Holds(two, op, arg, bound)
  BY <1>1, <1>3, ReboundHolds
<1> HIDE DEF two
<1> DEFINE read == {n \in OwnFlags : Has(bound, flag[n])}
<1>5. \A d : Holds(d, op, arg, bound) =>
          Seen(d) = [op |-> op, arg |-> arg, flags |-> read] /\ Intact(d)
  <2>1. op \in Operations /\ arg = [n \in DOMAIN View[op] |-> arg[n]]
    OBVIOUS
  <2> HIDE DEF op, arg
  <2> QED  BY <2>1, HoldsSeen
<1>6. read = names
  BY <1>1
<1> QED  BY <1>3, <1>4, <1>5, <1>6 DEF one, two, dsc, word

\* A descriptor for an operation with these arguments and flags.
TaskWith(op, arg, flags) == Written(op, ArgWrites(op, arg) \cup {Flags(flags)})

\* The functions of the middle layer make it of the arguments.
LEMMA MadeOf ==
    ASSUME NEW arg, NEW o
    PROVE  /\ make_nop_descriptor(o)
                = TaskWith("nop", arg, o)
           /\ make_batch_descriptor(arg.descriptor_list_address, arg.descriptors_count, o)
                = TaskWith("batch", arg, o)
           /\ make_drain_descriptor(arg.readback_address_1, arg.readback_address_2, o,
                                      arg.operation_specific_flags)
                = TaskWith("drain", arg, o)
           /\ make_mem_move_descriptor(arg.source_address, arg.destination_address,
                                         arg.transfer_size, o)
                = TaskWith("mem_move", arg, o)
           /\ make_fill_descriptor(arg.pattern, arg.destination_address, arg.transfer_size, o)
                = TaskWith("fill", arg, o)
           /\ make_cache_flush_descriptor(arg.destination_address, arg.transfer_size, o)
                = TaskWith("cache_flush", arg, o)
<1> USE DEF ArgWrites, View
<1>1. ArgWrites("nop", arg) = {}
  BY DEF nop_descriptor
<1>2. ArgWrites("batch", arg) =
          {<<Source, arg.descriptor_list_address>>, <<Size, arg.descriptors_count>>}
  BY DEF batch_descriptor
<1>3. ArgWrites("drain", arg) =
          {<<Source, arg.readback_address_1>>, <<Destination, arg.readback_address_2>>,
           Spec8(arg.operation_specific_flags)}
  BY DEF drain_descriptor, Spec8, Specific
<1>4. ArgWrites("mem_move", arg) =
          {<<Source, arg.source_address>>, <<Destination, arg.destination_address>>,
           <<Size, arg.transfer_size>>}
  BY DEF mem_move_descriptor
<1>5. ArgWrites("fill", arg) =
          {<<Source, arg.pattern>>, <<Destination, arg.destination_address>>,
           <<Size, arg.transfer_size>>}
  BY DEF fill_descriptor
<1>6. ArgWrites("cache_flush", arg) =
          {<<Destination, arg.destination_address>>, <<Size, arg.transfer_size>>}
  BY DEF cache_flush_descriptor
<1> HIDE DEF ArgWrites, View
<1>7. make_nop_descriptor(o)
        = TaskWith("nop", arg, o)
  BY <1>1 DEF TaskWith, make_nop_descriptor, nop_descriptor, Flags
<1>8. make_batch_descriptor(arg.descriptor_list_address, arg.descriptors_count, o)
        = TaskWith("batch", arg, o)
  BY <1>2 DEF TaskWith, make_batch_descriptor, batch_descriptor, Flags
<1>9. make_drain_descriptor(arg.readback_address_1, arg.readback_address_2, o,
              arg.operation_specific_flags)
        = TaskWith("drain", arg, o)
  BY <1>3 DEF TaskWith, make_drain_descriptor, drain_descriptor, Flags, Spec8
<1>10. make_mem_move_descriptor(arg.source_address, arg.destination_address,
              arg.transfer_size, o)
        = TaskWith("mem_move", arg, o)
  BY <1>4 DEF TaskWith, make_mem_move_descriptor, mem_move_descriptor, Flags
<1>11. make_fill_descriptor(arg.pattern, arg.destination_address, arg.transfer_size, o)
        = TaskWith("fill", arg, o)
  BY <1>5 DEF TaskWith, make_fill_descriptor, fill_descriptor, Flags
<1>12. make_cache_flush_descriptor(arg.destination_address, arg.transfer_size, o)
        = TaskWith("cache_flush", arg, o)
  BY <1>6 DEF TaskWith, make_cache_flush_descriptor, cache_flush_descriptor, Flags
<1> QED  BY <1>7, <1>8, <1>9, <1>10, <1>11, <1>12

\* A job with the fields that m fills in.
Job(m) == clear_copy_only(AsJob(m.want, m.copy_only))

\* The options of a checksum, and whether it has a seed.
SpecialOf(want) ==
    Arg(want, "operation_specific_flags")
    + (IF want.op \in {"crc", "copy_crc"} /\ want.arg.crc_seed # 0 THEN 1 ELSE 0)

\* The fields of the job that hold neither arguments nor results.
LEMMA JobCommon ==
    ASSUME NEW m, JobWish(m)
    PROVE  LET g == AsJob(m.want, m.copy_only)
           IN  /\ DOMAIN g = DOMAIN BlankJob
               /\ g["operation"] = operation[m.want.op]
               /\ g["flags"] = FlagWord(m.want.flags) + SpecialOf(m.want) * 65536
                               + (IF m.copy_only THEN 32 ELSE 0)
               /\ g["crc_null"] = (m.want.op \notin {"crc", "copy_crc"})
               /\ g["crc"] = Arg(m.want, "crc_seed")
<1>1. {"operation", "flags", "crc_null", "crc"} \subseteq DOMAIN BlankJob
  BY DEF BlankJob
<1>2. DOMAIN JobArg(m.want.op) \subseteq
          {"source_first", "source_second", "source_length", "destination_first",
           "destination_second", "destination_length", "pattern", "expected_result"}
  BY DEF JobArg
<1>3. "operation" \notin DOMAIN JobArg(m.want.op) /\ "flags" \notin DOMAIN JobArg(m.want.op)
      /\ "crc_null" \notin DOMAIN JobArg(m.want.op) /\ "crc" \notin DOMAIN JobArg(m.want.op)
  BY <1>2
<1> HIDE DEF JobArg
<1> QED  BY <1>1, <1>3 DEF AsJob, SpecialOf, DML_FLAG_COPY_ONLY

\* The same of comparisons, deltas, dualcast and checksums,
LEMMA MadeOfMore ==
    ASSUME NEW arg, NEW o
    PROVE  /\ make_compare_descriptor(arg.source_1_address, arg.source_2_address,
                                        arg.transfer_size, o, arg.expected_result)
                = TaskWith("compare", arg, o)
           /\ make_compare_pattern_descriptor(arg.pattern, arg.source_address,
                                                arg.transfer_size, o, arg.expected_result)
                = TaskWith("compare_pattern", arg, o)
           /\ make_create_delta_descriptor(arg.source_1_address, arg.source_2_address,
                    arg.transfer_size, arg.delta_record_address, arg.maximum_delta_record_size, o,
                    arg.expected_result_mask)
                = TaskWith("create_delta", arg, o)
           /\ make_apply_delta_descriptor(arg.delta_record_address, arg.delta_record_size,
                    arg.destination_address, arg.transfer_size, o)
                = TaskWith("apply_delta", arg, o)
           /\ make_dualcast_descriptor(arg.source_address, arg.destination_1_address,
                    arg.destination_2_address, arg.transfer_size, o, arg.operation_specific_flags)
                = TaskWith("dualcast", arg, o)
           /\ make_crc_descriptor(arg.source_address, arg.transfer_size, arg.crc_seed, o,
                                    arg.operation_specific_flags)
                = TaskWith("crc", arg, o)
           /\ make_copy_crc_descriptor(arg.source_address, arg.destination_address,
                    arg.transfer_size, arg.crc_seed, o, arg.operation_specific_flags)
                = TaskWith("copy_crc", arg, o)
<1> USE DEF ArgWrites, View
<1>1. ArgWrites("compare", arg) =
          {<<Source, arg.source_1_address>>, <<Destination, arg.source_2_address>>,
           <<Size, arg.transfer_size>>, <<<<40, 1>>, arg.expected_result>>}
  BY DEF compare_descriptor
<1>2. ArgWrites("compare_pattern", arg) =
          {<<Destination, arg.pattern>>, <<Source, arg.source_address>>,
           <<Size, arg.transfer_size>>, <<<<40, 1>>, arg.expected_result>>}
  BY DEF compare_pattern_descriptor
<1>3. ArgWrites("create_delta", arg) =
          {<<Source, arg.source_1_address>>, <<Destination, arg.source_2_address>>,
           <<<<40, 8>>, arg.delta_record_address>>, <<Size, arg.transfer_size>>,
           <<<<48, 4>>, arg.maximum_delta_record_size>>,
           <<<<56, 1>>, arg.expected_result_mask>>}
  BY DEF create_delta_descriptor
<1>4. ArgWrites("apply_delta", arg) =
          {<<Source, arg.delta_record_address>>, <<Destination, arg.destination_address>>,
           <<Size, arg.transfer_size>>, <<<<40, 4>>, arg.delta_record_size>>}
  BY DEF apply_delta_descriptor
<1>5. ArgWrites("dualcast", arg) =
          {<<Source, arg.source_address>>, <<Destination, arg.destination_1_address>>,
           <<<<40, 8>>, arg.destination_2_address>>, <<Size, arg.transfer_size>>,
           Spec8(arg.operation_specific_flags)}
  BY DEF dualcast_descriptor, Spec8, Specific
<1>6. ArgWrites("crc", arg) =
          {<<Source, arg.source_address>>, <<Size, arg.transfer_size>>,
           Spec8(arg.operation_specific_flags), <<<<40, 4>>, arg.crc_seed>>}
  BY DEF crc_descriptor, Spec8, Specific
<1>7. ArgWrites("copy_crc", arg) =
          {<<Source, arg.source_address>>, <<Destination, arg.destination_address>>,
           <<Size, arg.transfer_size>>, Spec8(arg.operation_specific_flags),
           <<<<40, 4>>, arg.crc_seed>>}
  BY DEF copy_crc_descriptor, Spec8, Specific
<1> HIDE DEF ArgWrites, View
<1>8. make_compare_descriptor(arg.source_1_address, arg.source_2_address,
              arg.transfer_size, o, arg.expected_result)
        = TaskWith("compare", arg, o)
  BY <1>1 DEF TaskWith, make_compare_descriptor, compare_descriptor, Flags
<1>9. make_compare_pattern_descriptor(arg.pattern, arg.source_address,
              arg.transfer_size, o, arg.expected_result)
        = TaskWith("compare_pattern", arg, o)
  BY <1>2 DEF TaskWith, make_compare_pattern_descriptor, compare_pattern_descriptor, Flags
<1>10. make_create_delta_descriptor(arg.source_1_address, arg.source_2_address,
              arg.transfer_size, arg.delta_record_address, arg.maximum_delta_record_size, o,
              arg.expected_result_mask)
        = TaskWith("create_delta", arg, o)
  BY <1>3 DEF TaskWith, make_create_delta_descriptor, create_delta_descriptor, Flags
<1>11. make_apply_delta_descriptor(arg.delta_record_address, arg.delta_record_size,
              arg.destination_address, arg.transfer_size, o)
        = TaskWith("apply_delta", arg, o)
  BY <1>4 DEF TaskWith, make_apply_delta_descriptor, apply_delta_descriptor, Flags
<1>12. make_dualcast_descriptor(arg.source_address, arg.destination_1_address,
              arg.destination_2_address, arg.transfer_size, o, arg.operation_specific_flags)
        = TaskWith("dualcast", arg, o)
  BY <1>5 DEF TaskWith, make_dualcast_descriptor, dualcast_descriptor, Flags, Spec8
<1>13. make_crc_descriptor(arg.source_address, arg.transfer_size, arg.crc_seed, o,
              arg.operation_specific_flags)
        = TaskWith("crc", arg, o)
  BY <1>6 DEF TaskWith, make_crc_descriptor, crc_descriptor, Flags, Spec8
<1>14. make_copy_crc_descriptor(arg.source_address, arg.destination_address,
              arg.transfer_size, arg.crc_seed, o, arg.operation_specific_flags)
        = TaskWith("copy_crc", arg, o)
  BY <1>7 DEF TaskWith, make_copy_crc_descriptor, copy_crc_descriptor, Flags, Spec8
<1> QED  BY <1>8, <1>9, <1>10, <1>11, <1>12, <1>13, <1>14

\* One side of a DIF operation.
SourceArgs(arg) ==
    {<<<<40, 1>>, arg.source_dif_flags>>, <<<<48, 4>>, arg.source_ref_tag>>,
     <<<<54, 2>>, arg.source_app_tag>>, <<<<52, 2>>, arg.source_app_tag_mask>>}
DestinationArgs(arg) ==
    {<<<<41, 1>>, arg.destination_dif_flags>>, <<<<56, 4>>, arg.destination_ref_tag>>,
     <<<<62, 2>>, arg.destination_app_tag>>, <<<<60, 2>>, arg.destination_app_tag_mask>>}

\* Its parameters are those of the arguments.
SourceTags(p, arg) ==
    /\ p.ref_tag = arg.source_ref_tag /\ p.app_tag = arg.source_app_tag
    /\ p.app_tag_mask = arg.source_app_tag_mask
DestinationTags(p, arg) ==
    /\ p.ref_tag = arg.destination_ref_tag /\ p.app_tag = arg.destination_app_tag
    /\ p.app_tag_mask = arg.destination_app_tag_mask

\* and of the DIF operations.
LEMMA MadeOfDif ==
    ASSUME NEW arg, NEW o, NEW sp, NEW dp
    PROVE  /\ SourceTags(sp, arg) =>
                make_dif_check_descriptor(arg.source_address, arg.transfer_size, sp, o,
                    arg.dif_flags, arg.source_dif_flags)
                = TaskWith("dif_check", arg, o)
           /\ DestinationTags(dp, arg) =>
                make_dif_insert_descriptor(arg.source_address, arg.destination_address,
                    arg.transfer_size, dp, o, arg.dif_flags, arg.destination_dif_flags)
                = TaskWith("dif_insert", arg, o)
           /\ SourceTags(sp, arg) =>
                make_dif_strip_descriptor(arg.source_address, arg.destination_address,
                    arg.transfer_size, sp, o, arg.dif_flags, arg.source_dif_flags)
                = TaskWith("dif_strip", arg, o)
           /\ SourceTags(sp, arg) /\ DestinationTags(dp, arg) =>
                make_dif_update_descriptor(arg.source_address, arg.destination_address,
                    arg.transfer_size, sp, dp, o, arg.dif_flags, arg.source_dif_flags,
                    arg.destination_dif_flags)
                = TaskWith("dif_update", arg, o)
<1> USE DEF ArgWrites, View, SourceArgs, DestinationArgs
<1>1. ArgWrites("dif_check", arg) =
          {<<Source, arg.source_address>>, <<Size, arg.transfer_size>>,
           <<<<42, 1>>, arg.dif_flags>>} \cup SourceArgs(arg)
  BY DEF dif_check_descriptor
<1>2. ArgWrites("dif_insert", arg) =
          {<<Source, arg.source_address>>, <<Destination, arg.destination_address>>,
           <<Size, arg.transfer_size>>, <<<<42, 1>>, arg.dif_flags>>} \cup DestinationArgs(arg)
  BY DEF dif_insert_descriptor
<1>3. ArgWrites("dif_strip", arg) =
          {<<Source, arg.source_address>>, <<Destination, arg.destination_address>>,
           <<Size, arg.transfer_size>>, <<<<42, 1>>, arg.dif_flags>>} \cup SourceArgs(arg)
  BY DEF dif_strip_descriptor
<1>4. ArgWrites("dif_update", arg) =
          {<<Source, arg.source_address>>, <<Destination, arg.destination_address>>,
           <<Size, arg.transfer_size>>, <<<<42, 1>>, arg.dif_flags>>}
          \cup SourceArgs(arg) \cup DestinationArgs(arg)
  BY DEF dif_update_descriptor
<1> HIDE DEF ArgWrites, View
<1>5. SourceTags(sp, arg) =>
      make_dif_check_descriptor(arg.source_address, arg.transfer_size, sp, o,
              arg.dif_flags, arg.source_dif_flags)
        = TaskWith("dif_check", arg, o)
  BY <1>1 DEF TaskWith, make_dif_check_descriptor, dif_check_descriptor, Flags, SourceDif,
              DestinationDif, SourceArgs, DestinationArgs, SourceTags, DestinationTags
<1>6. DestinationTags(dp, arg) =>
      make_dif_insert_descriptor(arg.source_address, arg.destination_address,
              arg.transfer_size, dp, o, arg.dif_flags, arg.destination_dif_flags)
        = TaskWith("dif_insert", arg, o)
  BY <1>2, SMTT(60) DEF TaskWith, make_dif_insert_descriptor, dif_insert_descriptor, Flags,
              SourceDif, DestinationDif, SourceArgs, DestinationArgs, SourceTags, DestinationTags
<1>7. SourceTags(sp, arg) =>
      make_dif_strip_descriptor(arg.source_address, arg.destination_address,
              arg.transfer_size, sp, o, arg.dif_flags, arg.source_dif_flags)
        = TaskWith("dif_strip", arg, o)
  BY <1>3 DEF TaskWith, make_dif_strip_descriptor, dif_strip_descriptor, Flags, SourceDif,
              DestinationDif, SourceArgs, DestinationArgs, SourceTags, DestinationTags
<1>8. SourceTags(sp, arg) /\ DestinationTags(dp, arg) =>
      make_dif_update_descriptor(arg.source_address, arg.destination_address,
              arg.transfer_size, sp, dp, o, arg.dif_flags, arg.source_dif_flags,
              arg.destination_dif_flags)
        = TaskWith("dif_update", arg, o)
  BY <1>4, ZenonT(60)
     DEF TaskWith, make_dif_update_descriptor, dif_update_descriptor, Flags, SourceDif,
         DestinationDif, SourceArgs, DestinationArgs, SourceTags, DestinationTags
<1> QED  BY <1>5, <1>6, <1>7, <1>8

-----------------------------------------------------------------------------
(* From the fields of a job to its descriptor. *)

\* The two flag words, put together and taken apart.
LEMMA WordParts ==
    ASSUME NEW names, names \subseteq CallerFlags, "fence" \notin names, NEW special \in Byte
    PROVE  LET word == FlagWord(names) IN
           /\ word \in Nat /\ word < 65536 /\ ~Has(word, 32) /\ word % 65536 = word
           /\ (word + special * 65536) % 65536 = word
           /\ ((word + special * 65536) \div 65536) % 256 = special
           /\ Clear((word + 32) % 65536, 32) = word /\ Has((word + 32) % 65536, 32)
<1> DEFINE b == IF "block_on_fault" \in names THEN 1 ELSE 0
           c == IF "check_result" \in names THEN 1 ELSE 0
           d == IF "cache_control" \in names THEN 1 ELSE 0
           word == FlagWord(names)
<1>1. word = 2 * b + 128 * c + 256 * d
  BY DEF FlagWord, flag
<1>2. (b = 0 \/ b = 1) /\ (c = 0 \/ c = 1) /\ (d = 0 \/ d = 1)
  OBVIOUS
<1> HIDE DEF b, c, d, word
<1>3. word \in Nat /\ word < 65536 /\ word + 32 < 65536
  BY <1>1, <1>2
<1>4. word \in {0, 2, 128, 130, 256, 258, 384, 386}
  BY <1>1, <1>2
<1>5. ~Has(word, 32) /\ Has(word + 32, 32)
  BY <1>4 DEF Has
<1>6. word % 65536 = word /\ (word + 32) % 65536 = word + 32
  BY <1>3
<1>7. /\ (word + special * 65536) % 65536 = word
      /\ ((word + special * 65536) \div 65536) = special
      /\ special % 256 = special
  BY <1>3 DEF Byte
<1> QED  BY <1>3, <1>5, <1>6, <1>7 DEF Clear, word

\* The parts of DIF flags likewise.
LEMMA DifParts ==
    ASSUME NEW s \in Byte, NEW t \in Byte, NEW f \in Byte
    PROVE  LET w == s + t * 256 + (f \div 4) * 4 * 65536 IN
           /\ w % 256 = s
           /\ (w \div 256) % 256 = t
           /\ ((w \div 65536) % 256) + (f % 4) = f
<1> DEFINE q == f \div 4
           w == s + t * 256 + q * 4 * 65536
<1>1. q \in 0 .. 63 /\ f = 4 * q + (f % 4) /\ f % 4 \in 0 .. 3
  BY DEF Byte
<1> HIDE DEF q
<1>2. w % 256 = s /\ w \div 256 = t + q * 1024 /\ w \div 65536 = q * 4
  BY <1>1 DEF Byte
<1> HIDE DEF w
<1>3. (t + q * 1024) % 256 = t /\ (q * 4) % 256 = q * 4
  BY <1>1 DEF Byte
<1> QED  BY <1>1, <1>2, <1>3 DEF w, q

\* What JobWish says of the arguments, in terms of the fields of the view.
LEMMA WishArgs ==
    ASSUME NEW want, IsWish(want)
    PROVE  /\ want.op \in Operations /\ DOMAIN want.arg = DOMAIN View[want.op]
           /\ want.arg = [n \in DOMAIN View[want.op] |-> want.arg[n]]
           /\ \A n \in DOMAIN View[want.op] : want.arg[n] \in Nat /\ Arg(want, n) = want.arg[n]
           /\ \A n : n \notin DOMAIN View[want.op] => Arg(want, n) = 0
  BY DEF IsWish, Arg

\* Which operations have options of their own.
LEMMA HasOptions ==
    ASSUME NEW op \in Operations
    PROVE  "operation_specific_flags" \in DOMAIN View[op]
             <=> op \in {"drain", "dualcast", "crc", "copy_crc"}
<1> DEFINE In(view) == "operation_specific_flags" \in DOMAIN view
<1>1. /\ ~In(nop_descriptor) /\ ~In(batch_descriptor) /\ ~In(mem_move_descriptor)
      /\ ~In(fill_descriptor) /\ ~In(cache_flush_descriptor)
  BY DEF nop_descriptor, batch_descriptor, mem_move_descriptor, fill_descriptor,
         cache_flush_descriptor
<1>2. /\ ~In(compare_descriptor) /\ ~In(compare_pattern_descriptor)
      /\ ~In(create_delta_descriptor) /\ ~In(apply_delta_descriptor)
  BY DEF compare_descriptor, compare_pattern_descriptor, create_delta_descriptor,
         apply_delta_descriptor
<1>3. /\ ~In(dif_check_descriptor) /\ ~In(dif_insert_descriptor)
      /\ ~In(dif_strip_descriptor) /\ ~In(dif_update_descriptor)
  BY DEF dif_check_descriptor, dif_insert_descriptor, dif_strip_descriptor,
         dif_update_descriptor
<1>4. /\ In(drain_descriptor) /\ In(dualcast_descriptor)
      /\ In(crc_descriptor) /\ In(copy_crc_descriptor)
  BY DEF drain_descriptor, dualcast_descriptor, crc_descriptor, copy_crc_descriptor
<1> HIDE DEF In
<1>5. In(View[op]) <=> op \in {"drain", "dualcast", "crc", "copy_crc"}
  BY <1>1, <1>2, <1>3, <1>4 DEF Operations, operation, View
<1> QED  BY <1>5 DEF In

\* The flag words of a job as it is submitted.
LEMMA JobShape ==
    ASSUME NEW m, JobWish(m)
    PROVE  LET g == Job(m) IN
           /\ DOMAIN g = DOMAIN BlankJob
           /\ flags_of(g) = FlagWord(m.want.flags) /\ ~Has(flags_of(g), 32)
           /\ specific_flags(g) = SpecialOf(m.want)
           /\ \A n \in DOMAIN BlankJob \ {"flags"} : g[n] = AsJob(m.want, m.copy_only)[n]
<1> DEFINE g0 == AsJob(m.want, m.copy_only)
           g == Job(m)
           special == SpecialOf(m.want)
           word == FlagWord(m.want.flags)
<1>1. /\ DOMAIN g0 = DOMAIN BlankJob /\ g0["operation"] = operation[m.want.op]
      /\ g0["flags"] = word + special * 65536 + (IF m.copy_only THEN 32 ELSE 0)
  BY JobCommon
<1>2. IsWish(m.want) /\ m.want.op \in Operations
  BY DEF JobWish, IsWish
<1>3. special \in Byte /\ (m.want.op = "mem_move" => special = 0)
  <2>1. CASE m.want.op \in {"crc", "copy_crc"}
    <3>1. m.want.arg.operation_specific_flags \in CrcOptions
      BY <2>1 DEF JobWish
    <3>2. Arg(m.want, "operation_specific_flags") = m.want.arg.operation_specific_flags
      BY <1>2, <2>1, WishArgs, HasOptions
    <3> QED  BY <2>1, <3>1, <3>2 DEF SpecialOf, CrcOptions, Byte
  <2>2. CASE m.want.op \notin {"crc", "copy_crc"}
    <3>1. special = Arg(m.want, "operation_specific_flags") + 0
      BY <2>2 DEF SpecialOf
    <3>2. Arg(m.want, "operation_specific_flags") \in Byte
      BY DEF JobWish
    <3>3. special = Arg(m.want, "operation_specific_flags")
      BY <3>1, <3>2 DEF Byte
    <3>4. m.want.op = "mem_move" => Arg(m.want, "operation_specific_flags") = 0
      BY <1>2, WishArgs, HasOptions
    <3> QED  BY <3>2, <3>3, <3>4
  <2> QED  BY <2>1, <2>2
<1>4. /\ word \in Nat /\ word < 65536 /\ ~Has(word, 32) /\ word % 65536 = word
      /\ (word + special * 65536) % 65536 = word
      /\ ((word + special * 65536) \div 65536) % 256 = special
      /\ Clear((word + 32) % 65536, 32) = word /\ Has((word + 32) % 65536, 32)
  <2>1. m.want.flags \subseteq CallerFlags /\ "fence" \notin m.want.flags
    BY DEF JobWish, CallerFlags
  <2> HIDE DEF special
  <2> QED  BY <1>3, <2>1, WordParts
<1> HIDE DEF word, special, g0
<1>5. "flags" \in DOMAIN BlankJob /\ "operation" \in DOMAIN BlankJob
  BY DEF BlankJob
<1>6. m.copy_only \in BOOLEAN /\ (m.copy_only => m.want.op = "mem_move")
  BY DEF JobWish
<1>7. CASE m.copy_only
  <2>1. g0["flags"] = word + 32
    BY <1>1, <1>3, <1>4, <1>6, <1>7
  <2>2. g0.operation = operation.mem_move /\ Has(flags_of(g0), DML_FLAG_COPY_ONLY)
    BY <1>1, <1>4, <1>6, <1>7, <2>1 DEF flags_of, DML_FLAG_COPY_ONLY
  <2>3. g = [g0 EXCEPT !.flags = Clear(flags_of(g0), DML_FLAG_COPY_ONLY)]
    BY <2>2, Zenon DEF Job, clear_copy_only, g0
  <2>4. Clear(flags_of(g0), DML_FLAG_COPY_ONLY) = word
    BY <1>4, <2>1 DEF flags_of, DML_FLAG_COPY_ONLY
  <2>5. /\ DOMAIN g = DOMAIN BlankJob /\ g["flags"] = word
        /\ \A n \in DOMAIN BlankJob \ {"flags"} : g[n] = g0[n]
    BY <1>1, <1>5, <2>3, <2>4
  <2>6. flags_of(g) = word /\ specific_flags(g) = 0
    BY <1>4, <2>5 DEF flags_of, specific_flags
  <2>7. special = 0
    BY <1>3, <1>6, <1>7
  <2> HIDE DEF g
  <2>8. /\ DOMAIN g = DOMAIN BlankJob /\ flags_of(g) = word /\ ~Has(flags_of(g), 32)
        /\ specific_flags(g) = special
        /\ \A n \in DOMAIN BlankJob \ {"flags"} : g[n] = g0[n]
    BY <1>4, <2>5, <2>6, <2>7
  <2> QED  BY <2>8, Zenon DEF g, g0, word, special
<1>8. CASE ~m.copy_only
  <2>1. g0["flags"] = word + special * 65536
    BY <1>1, <1>3, <1>4, <1>8 DEF Byte
  <2>2. flags_of(g0) = word /\ specific_flags(g0) = special
    BY <1>4, <2>1 DEF flags_of, specific_flags
  <2>3. ~Has(flags_of(g0), DML_FLAG_COPY_ONLY)
    BY <1>4, <2>2 DEF DML_FLAG_COPY_ONLY
  <2>4. g = g0
    BY <2>3, Zenon DEF Job, clear_copy_only, g0
  <2> HIDE DEF g
  <2>5. /\ DOMAIN g = DOMAIN BlankJob /\ flags_of(g) = word /\ ~Has(flags_of(g), 32)
        /\ specific_flags(g) = special
        /\ \A n \in DOMAIN BlankJob \ {"flags"} : g[n] = g0[n]
    BY <1>1, <1>4, <2>2, <2>4
  <2> QED  BY <2>5, Zenon DEF g, g0, word, special
<1> QED  BY <1>6, <1>7, <1>8

\* The arguments in the fields of a job.
LEMMA JobArgs ==
    ASSUME NEW m, JobWish(m), NEW n \in DOMAIN JobArg(m.want.op),
           JobArg(m.want.op)[n] \in DOMAIN View[m.want.op]
    PROVE  n \in DOMAIN BlankJob \ {"flags", "crc", "offset", "result"}
           /\ Job(m)[n] = m.want.arg[JobArg(m.want.op)[n]]
<1>1. DOMAIN JobArg(m.want.op) \subseteq
          {"source_first", "source_second", "source_length", "destination_first",
           "destination_second", "destination_length", "pattern", "expected_result"}
  BY DEF JobArg
<1>2. n \in DOMAIN BlankJob \ {"flags", "crc", "offset", "result"}
  BY <1>1 DEF BlankJob
<1> HIDE DEF JobArg
<1>3. AsJob(m.want, m.copy_only)[n] = Arg(m.want, JobArg(m.want.op)[n])
  BY <1>2 DEF AsJob
<1>4. Arg(m.want, JobArg(m.want.op)[n]) = m.want.arg[JobArg(m.want.op)[n]]
  BY WishArgs DEF JobWish
<1> QED  BY <1>2, <1>3, <1>4, JobShape

\* A descriptor for a wish, with arguments arg.
TaskOf(want, arg) == TaskWith(want.op, arg, FlagWord(want.flags))

\* The job structure is still as m filled it in, but for results.
Alike(f, m) == \A n \in DOMAIN BlankJob \ {"crc", "offset", "result"} : f[n] = Job(m)[n]

\* What make_task reads of it.
LEMMA JobAlike ==
    ASSUME NEW m, JobWish(m), NEW f, Alike(f, m)
    PROVE  /\ f.operation = operation[m.want.op]
           /\ flags_of(f) = FlagWord(m.want.flags) /\ ~Has(flags_of(f), 32)
           /\ specific_flags(f) = SpecialOf(m.want)
           /\ \A n \in DOMAIN JobArg(m.want.op) :
                  JobArg(m.want.op)[n] \in DOMAIN View[m.want.op] =>
                      f[n] = m.want.arg[JobArg(m.want.op)[n]]
<1>1. "operation" \in DOMAIN BlankJob \ {"crc", "offset", "result", "flags"}
      /\ "flags" \in DOMAIN BlankJob \ {"crc", "offset", "result"}
  BY DEF BlankJob
<1>2. Job(m)["operation"] = operation[m.want.op]
  BY <1>1, JobCommon, JobShape
<1>3. f["operation"] = Job(m)["operation"] /\ f["flags"] = Job(m)["flags"]
  BY <1>1 DEF Alike
<1>4. flags_of(f) = flags_of(Job(m)) /\ specific_flags(f) = specific_flags(Job(m))
  BY <1>3 DEF flags_of, specific_flags
<1>5. \A n \in DOMAIN JobArg(m.want.op) :
          JobArg(m.want.op)[n] \in DOMAIN View[m.want.op] =>
              f[n] = m.want.arg[JobArg(m.want.op)[n]]
  BY JobArgs DEF Alike
<1> QED  BY <1>2, <1>3, <1>4, <1>5, JobShape

\* The descriptor that make_task makes of a job: operations with one source or none,
LEMMA JobTaskPlain ==
    ASSUME NEW m, JobWish(m), NEW f, Alike(f, m),
           m.want.op \in {"nop", "drain", "mem_move", "fill", "cache_flush"}
    PROVE  make_task(f) = TaskOf(m.want, m.want.arg)
<1> DEFINE want == m.want
           arg == m.want.arg
<1>1. f.operation = operation[want.op] /\ flags_of(f) = FlagWord(want.flags)
  BY JobAlike
<1>2. \A n \in DOMAIN JobArg(want.op) : JobArg(want.op)[n] \in DOMAIN View[want.op] =>
          f[n] = arg[JobArg(want.op)[n]]
  BY JobAlike
<1>3. /\ specific_flags(f) = SpecialOf(want)
      /\ "operation_specific_flags" \in DOMAIN View[want.op] =>
            /\ arg["operation_specific_flags"] \in Nat
            /\ Arg(want, "operation_specific_flags") = arg["operation_specific_flags"]
  BY JobAlike, WishArgs DEF JobWish
<1> USE DEF TaskOf
<1>4. CASE want.op = "nop"
  <2>1. make_task(f) = make_nop_descriptor(flags_of(f))
    BY <1>1, <1>4 DEF make_task, operation
  <2> QED  BY <1>1, <1>4, <2>1, MadeOf
<1>5. CASE want.op = "drain"
  <2>1. /\ f.destination_first = arg.readback_address_1
        /\ f.destination_second = arg.readback_address_2
    BY <1>2, <1>5 DEF JobArg, View, drain_descriptor
  <2>2. specific_flags(f) = arg.operation_specific_flags
    BY <1>3, <1>5 DEF SpecialOf, View, drain_descriptor, Byte
  <2>3. make_task(f) = make_drain_descriptor(f.destination_first, f.destination_second, flags_of(f),
                                            specific_flags(f))
    BY <1>1, <1>5 DEF make_task, operation
  <2> QED  BY <1>1, <1>5, <2>1, <2>2, <2>3, MadeOf
<1>6. CASE want.op = "mem_move"
  <2>1. /\ f.source_first = arg.source_address
        /\ f.destination_first = arg.destination_address
        /\ f.source_length = arg.transfer_size
    BY <1>2, <1>6 DEF JobArg, View, mem_move_descriptor
  <2>2. make_task(f) = make_mem_move_descriptor(f.source_first, f.destination_first,
                                               f.source_length, flags_of(f))
    BY <1>1, <1>6 DEF make_task, operation
  <2> QED  BY <1>1, <1>6, <2>1, <2>2, MadeOf
<1>7. CASE want.op = "fill"
  <2>1. /\ f.pattern = arg.pattern
        /\ f.destination_first = arg.destination_address
        /\ f.destination_length = arg.transfer_size
    BY <1>2, <1>7 DEF JobArg, View, fill_descriptor
  <2>2. make_task(f) = make_fill_descriptor(f.pattern, f.destination_first,
                                           f.destination_length, flags_of(f))
    BY <1>1, <1>7 DEF make_task, operation
  <2> QED  BY <1>1, <1>7, <2>1, <2>2, MadeOf
<1>8. CASE want.op = "cache_flush"
  <2>1. /\ f.destination_first = arg.destination_address
        /\ f.destination_length = arg.transfer_size
    BY <1>2, <1>8 DEF JobArg, View, cache_flush_descriptor
  <2>2. make_task(f) = make_cache_flush_descriptor(f.destination_first, f.destination_length,
                                                  flags_of(f))
    BY <1>1, <1>8 DEF make_task, operation
  <2> QED  BY <1>1, <1>8, <2>1, <2>2, MadeOf
<1> QED  BY <1>4, <1>5, <1>6, <1>7, <1>8

\* with two sources or two destinations,
LEMMA JobTaskMore ==
    ASSUME NEW m, JobWish(m), NEW f, Alike(f, m),
           m.want.op \in {"compare", "compare_pattern", "create_delta", "apply_delta", "dualcast"}
    PROVE  make_task(f) = TaskOf(m.want, m.want.arg)
<1> DEFINE want == m.want
           arg == m.want.arg
<1>1. f.operation = operation[want.op] /\ flags_of(f) = FlagWord(want.flags)
  BY JobAlike
<1>2. \A n \in DOMAIN JobArg(want.op) : JobArg(want.op)[n] \in DOMAIN View[want.op] =>
          f[n] = arg[JobArg(want.op)[n]]
  BY JobAlike
<1>3. /\ specific_flags(f) = SpecialOf(want)
      /\ "operation_specific_flags" \in DOMAIN View[want.op] =>
            /\ arg["operation_specific_flags"] \in Nat
            /\ Arg(want, "operation_specific_flags") = arg["operation_specific_flags"]
  BY JobAlike, WishArgs DEF JobWish
<1> USE DEF TaskOf
<1>4. CASE want.op = "compare"
  <2>1. /\ f.source_first = arg.source_1_address
        /\ f.source_second = arg.source_2_address
        /\ f.source_length = arg.transfer_size
        /\ f.expected_result = arg.expected_result
    BY <1>2, <1>4 DEF JobArg, View, compare_descriptor
  <2>2. make_task(f) = make_compare_descriptor(f.source_first, f.source_second, f.source_length,
                                              flags_of(f), f.expected_result)
    BY <1>1, <1>4 DEF make_task, operation
  <2> QED  BY <1>1, <1>4, <2>1, <2>2, MadeOfMore
<1>5. CASE want.op = "compare_pattern"
  <2>1. /\ f.pattern = arg.pattern /\ f.source_first = arg.source_address
        /\ f.source_length = arg.transfer_size
        /\ f.expected_result = arg.expected_result
    BY <1>2, <1>5 DEF JobArg, View, compare_pattern_descriptor
  <2>2. make_task(f) = make_compare_pattern_descriptor(f.pattern, f.source_first, f.source_length,
                                                      flags_of(f), f.expected_result)
    BY <1>1, <1>5 DEF make_task, operation
  <2> QED  BY <1>1, <1>5, <2>1, <2>2, MadeOfMore
<1>6. CASE want.op = "create_delta"
  <2>1. /\ f.source_first = arg.source_1_address
        /\ f.source_second = arg.source_2_address
        /\ f.source_length = arg.transfer_size
        /\ f.destination_first = arg.delta_record_address
        /\ f.destination_length = arg.maximum_delta_record_size
        /\ f.expected_result = arg.expected_result_mask
    BY <1>2, <1>6 DEF JobArg, View, create_delta_descriptor
  <2>2. make_task(f) = make_create_delta_descriptor(f.source_first, f.source_second,
                          f.source_length, f.destination_first, f.destination_length,
                          flags_of(f), f.expected_result)
    BY <1>1, <1>6 DEF make_task, operation
  <2> QED  BY <1>1, <1>6, <2>1, <2>2, MadeOfMore
<1>7. CASE want.op = "apply_delta"
  <2>1. /\ f.source_first = arg.delta_record_address
        /\ f.source_length = arg.delta_record_size
        /\ f.destination_first = arg.destination_address
        /\ f.destination_length = arg.transfer_size
    BY <1>2, <1>7 DEF JobArg, View, apply_delta_descriptor
  <2>2. make_task(f) = make_apply_delta_descriptor(f.source_first, f.source_length,
                          f.destination_first, f.destination_length, flags_of(f))
    BY <1>1, <1>7 DEF make_task, operation
  <2> QED  BY <1>1, <1>7, <2>1, <2>2, MadeOfMore
<1>8. CASE want.op = "dualcast"
  <2>1. /\ f.source_first = arg.source_address
        /\ f.destination_first = arg.destination_1_address
        /\ f.destination_second = arg.destination_2_address
        /\ f.source_length = arg.transfer_size
    BY <1>2, <1>8 DEF JobArg, View, dualcast_descriptor
  <2>2. specific_flags(f) = arg.operation_specific_flags
    BY <1>3, <1>8 DEF SpecialOf, View, dualcast_descriptor, Byte
  <2>3. make_task(f) = make_dualcast_descriptor(f.source_first, f.destination_first,
                          f.destination_second, f.source_length, flags_of(f), specific_flags(f))
    BY <1>1, <1>8 DEF make_task, operation
  <2> QED  BY <1>1, <1>8, <2>1, <2>2, <2>3, MadeOfMore
<1> QED  BY <1>4, <1>5, <1>6, <1>7, <1>8

\* a batch, whose list is aligned already and whose buffer has room for its tasks,
LEMMA JobTaskBatch ==
    ASSUME NEW m, JobWish(m), NEW f, Alike(f, m), m.want.op = "batch"
    PROVE  make_task(f) = TaskOf(m.want, m.want.arg)
<1> DEFINE want == m.want
           arg == m.want.arg
           list == arg.descriptor_list_address
           count == arg.descriptors_count
<1>1. f.operation = operation[want.op] /\ flags_of(f) = FlagWord(want.flags)
  BY JobAlike
<1>2. list \in Nat /\ count \in Nat /\ list % 64 = 0
  <2>1. {"descriptor_list_address", "descriptors_count"} \subseteq DOMAIN View[want.op]
    BY DEF View, batch_descriptor
  <2> QED  BY <2>1, WishArgs DEF JobWish
<1>3. f.destination_first = list /\ f.destination_length = 96 * count + 64
  <2>1. DOMAIN JobArg(want.op) = {}
    BY DEF JobArg
  <2>2. /\ AsJob(want, m.copy_only)["destination_first"] = list
        /\ AsJob(want, m.copy_only)["destination_length"] = 96 * count + 64
    BY <2>1 DEF AsJob, BlankJob, SizeOfTask
  <2>3. {"destination_first", "destination_length"} \subseteq
            DOMAIN BlankJob \ {"flags", "crc", "offset", "result"}
    BY DEF BlankJob
  <2> QED  BY <2>2, <2>3, JobShape DEF Alike
<1> HIDE DEF list, count
<1>4. align(list) = list /\ (96 * count + 64) \div 96 = count
  BY <1>2 DEF align
<1>5. make_task(f) = make_batch_descriptor(align(f.destination_first),
                                           f.destination_length \div SizeOfTask, flags_of(f))
  BY <1>1 DEF make_task, operation
<1> QED  BY <1>1, <1>3, <1>4, <1>5, MadeOf DEF TaskOf, SizeOfTask, list, count

\* A checksum starts from what the job points to, if it says that this is a seed.
Seeded(f, want) ==
    IF want.op \in {"crc", "copy_crc"} /\ Has(specific_flags(f), 1)
    THEN [want.arg EXCEPT !.crc_seed = f.crc] ELSE want.arg

\* The options with and without the bit for the seed.
LEMMA SeedBit ==
    ASSUME NEW k \in CrcOptions
    PROVE  /\ Has(k + 1, 1) /\ Clear(k + 1, 1) = k
           /\ ~Has(k + 0, 1) /\ Clear(k + 0, 1) = k
  BY DEF CrcOptions, Has, Clear

\* checksums,
LEMMA JobTaskCrc ==
    ASSUME NEW m, JobWish(m), NEW f, Alike(f, m), m.want.op \in {"crc", "copy_crc"}
    PROVE  make_task(f) = TaskOf(m.want, Seeded(f, m.want))
<1> DEFINE want == m.want
           arg == m.want.arg
           new == Seeded(f, want)
           options == arg.operation_specific_flags
<1>1. f.operation = operation[want.op] /\ flags_of(f) = FlagWord(want.flags)
  BY JobAlike
<1>2. \A n \in DOMAIN JobArg(want.op) : JobArg(want.op)[n] \in DOMAIN View[want.op] =>
          f[n] = arg[JobArg(want.op)[n]]
  BY JobAlike
<1>3. DOMAIN arg = DOMAIN View[want.op] /\ options \in CrcOptions
      /\ Arg(want, "operation_specific_flags") = options
  BY WishArgs, HasOptions DEF JobWish
<1>4. specific_flags(f) = options + (IF arg.crc_seed # 0 THEN 1 ELSE 0)
  BY <1>3, JobAlike DEF SpecialOf
<1> HIDE DEF options
<1>5. /\ Has(specific_flags(f), 1) <=> arg.crc_seed # 0
      /\ Clear(specific_flags(f), 1) = options
  BY <1>3, <1>4, SeedBit
<1>6. "crc_seed" \in DOMAIN View[want.op] /\ "operation_specific_flags" \in DOMAIN View[want.op]
  BY DEF View, crc_descriptor, copy_crc_descriptor
<1>7. Seed(f) = new["crc_seed"] /\ WithoutSeed(f) = options
      /\ \A n \in DOMAIN View[want.op] : n # "crc_seed" => new[n] = arg[n]
  <2>1. CASE arg.crc_seed # 0
    <3>1. new = [arg EXCEPT !.crc_seed = f.crc]
      BY <1>5, <2>1, Zenon DEF Seeded
    <3>2. Seed(f) = f.crc /\ WithoutSeed(f) = options
      BY <1>5, <2>1 DEF Seed, WithoutSeed, crc_specific_flag
    <3> QED  BY <1>3, <1>6, <3>1, <3>2
  <2>2. CASE arg.crc_seed = 0
    <3>1. new = arg
      BY <1>5, <2>2, Zenon DEF Seeded
    <3>2. Seed(f) = 0 /\ WithoutSeed(f) = options
      BY <1>5, <2>2 DEF Seed, WithoutSeed, crc_specific_flag
    <3> QED  BY <2>2, <3>1, <3>2
  <2> QED  BY <2>1, <2>2
<1> HIDE DEF new
<1>8. new["operation_specific_flags"] = options
  BY <1>6, <1>7 DEF options
<1>9. CASE want.op = "crc"
  <2>1. f.source_first = new.source_address /\ f.source_length = new.transfer_size
    BY <1>2, <1>7, <1>9 DEF JobArg, View, crc_descriptor
  <2>2. make_task(f) = make_crc_descriptor(f.source_first, f.source_length, Seed(f), flags_of(f),
                                          WithoutSeed(f))
    BY <1>1, <1>9 DEF make_task, operation
  <2> QED  BY <1>1, <1>7, <1>8, <1>9, <2>1, <2>2, MadeOfMore DEF TaskOf, new
<1>10. CASE want.op = "copy_crc"
  <2>1. f.source_first = new.source_address /\ f.source_length = new.transfer_size
        /\ f.destination_first = new.destination_address
    BY <1>2, <1>7, <1>10 DEF JobArg, View, copy_crc_descriptor
  <2>2. make_task(f) = make_copy_crc_descriptor(f.source_first, f.destination_first,
                          f.source_length, Seed(f), flags_of(f), WithoutSeed(f))
    BY <1>1, <1>10 DEF make_task, operation
  <2> QED  BY <1>1, <1>7, <1>8, <1>10, <2>1, <2>2, MadeOfMore DEF TaskOf, new
<1> QED  BY <1>9, <1>10

\* and DIF operations.
LEMMA JobTaskDif ==
    ASSUME NEW m, JobWish(m), NEW f, Alike(f, m),
           m.want.op \in {"dif_check", "dif_insert", "dif_strip", "dif_update"}
    PROVE  make_task(f) = TaskOf(m.want, m.want.arg)
<1> DEFINE want == m.want
           arg == m.want.arg
           s == Arg(want, "source_dif_flags")
           t == Arg(want, "destination_dif_flags")
           d == Arg(want, "dif_flags")
<1>1. f.operation = operation[want.op] /\ flags_of(f) = FlagWord(want.flags)
  BY JobAlike
<1>2. \A n \in DOMAIN JobArg(want.op) : JobArg(want.op)[n] \in DOMAIN View[want.op] =>
          f[n] = arg[JobArg(want.op)[n]]
  BY JobAlike
<1>3. s \in Byte /\ t \in Byte /\ d \in Byte
  BY DEF JobWish
<1>4. \A n \in DOMAIN View[want.op] : Arg(want, n) = arg[n]
  BY WishArgs DEF JobWish
<1>5. /\ f.dif_flags = s + t * 256 + (d \div 4) * 4 * 65536 /\ f.block_size = d % 4
      /\ f.src_tags = Tags(want, "source") /\ f.dst_tags = Tags(want, "destination")
  <2> DEFINE names == {"dif_flags", "block_size", "src_tags", "dst_tags"}
             g == AsJob(want, m.copy_only)
  <2>1. DOMAIN JobArg(want.op) = {"source_first", "destination_first", "source_length"}
    BY DEF JobArg
  <2>2. /\ g["dif_flags"] = s + t * 256 + (d \div 4) * 4 * 65536 /\ g["block_size"] = d % 4
        /\ g["src_tags"] = Tags(want, "source") /\ g["dst_tags"] = Tags(want, "destination")
    BY <2>1 DEF AsJob, BlankJob
  <2>3. names \subseteq DOMAIN BlankJob \ {"flags", "crc", "offset", "result"}
    BY DEF BlankJob
  <2> HIDE DEF g
  <2>4. \A n \in names : f[n] = g[n]
    BY <2>3, JobShape DEF Alike, g
  <2> QED  BY <2>2, <2>4
<1> HIDE DEF s, t, d
<1>6. dif_src_flags(f) = s /\ dif_dst_flags(f) = t /\ dif_flags_of(f) = d
  BY <1>3, <1>5, DifParts DEF dif_src_flags, dif_dst_flags, dif_flags_of
<1> DEFINE sp == Tags(want, "source")
           dp == Tags(want, "destination")
<1>7. /\ sp.ref_tag = Arg(want, "source_ref_tag") /\ sp.app_tag = Arg(want, "source_app_tag")
      /\ sp.app_tag_mask = Arg(want, "source_app_tag_mask")
      /\ dp.ref_tag = Arg(want, "destination_ref_tag")
      /\ dp.app_tag = Arg(want, "destination_app_tag")
      /\ dp.app_tag_mask = Arg(want, "destination_app_tag_mask")
  BY DEF Tags
<1>8. CASE want.op = "dif_check"
  <2>1. f.source_first = arg.source_address /\ f.source_length = arg.transfer_size
    BY <1>2, <1>8 DEF JobArg, View, dif_check_descriptor
  <2>2. d = arg.dif_flags /\ s = arg.source_dif_flags /\ SourceTags(sp, arg)
    BY <1>4, <1>7, <1>8 DEF s, t, d, View, dif_check_descriptor, SourceTags, DestinationTags
  <2> HIDE DEF sp, dp
  <2>3. make_task(f) = make_dif_check_descriptor(f.source_first, f.source_length, sp,
                          flags_of(f), d, s)
    BY <1>1, <1>5, <1>6, <1>8 DEF make_task, operation, sp, dp
  <2> QED  BY <1>1, <1>8, <2>1, <2>2, <2>3, MadeOfDif DEF TaskOf
<1>9. CASE want.op = "dif_insert"
  <2>1. f.source_first = arg.source_address /\ f.source_length = arg.transfer_size
        /\ f.destination_first = arg.destination_address
    BY <1>2, <1>9 DEF JobArg, View, dif_insert_descriptor
  <2>2. d = arg.dif_flags /\ t = arg.destination_dif_flags /\ DestinationTags(dp, arg)
    BY <1>4, <1>7, <1>9 DEF s, t, d, View, dif_insert_descriptor, SourceTags, DestinationTags
  <2> HIDE DEF sp, dp
  <2>3. make_task(f) = make_dif_insert_descriptor(f.source_first, f.destination_first,
                          f.source_length, dp, flags_of(f), d, t)
    BY <1>1, <1>5, <1>6, <1>9 DEF make_task, operation, sp, dp
  <2> QED  BY <1>1, <1>9, <2>1, <2>2, <2>3, MadeOfDif DEF TaskOf
<1>10. CASE want.op = "dif_strip"
  <2>1. f.source_first = arg.source_address /\ f.source_length = arg.transfer_size
        /\ f.destination_first = arg.destination_address
    BY <1>2, <1>10 DEF JobArg, View, dif_strip_descriptor
  <2>2. d = arg.dif_flags /\ s = arg.source_dif_flags /\ SourceTags(sp, arg)
    BY <1>4, <1>7, <1>10 DEF s, t, d, View, dif_strip_descriptor, SourceTags, DestinationTags
  <2> HIDE DEF sp, dp
  <2>3. make_task(f) = make_dif_strip_descriptor(f.source_first, f.destination_first,
                          f.source_length, sp, flags_of(f), d, s)
    BY <1>1, <1>5, <1>6, <1>10 DEF make_task, operation, sp, dp
  <2> QED  BY <1>1, <1>10, <2>1, <2>2, <2>3, MadeOfDif DEF TaskOf
<1>11. CASE want.op = "dif_update"
  <2>1. f.source_first = arg.source_address /\ f.source_length = arg.transfer_size
        /\ f.destination_first = arg.destination_address
    BY <1>2, <1>11 DEF JobArg, View, dif_update_descriptor
  <2>2. /\ d = arg.dif_flags /\ s = arg.source_dif_flags /\ SourceTags(sp, arg)
        /\ t = arg.destination_dif_flags /\ DestinationTags(dp, arg)
    BY <1>4, <1>7, <1>11 DEF s, t, d, View, dif_update_descriptor, SourceTags, DestinationTags
  <2> HIDE DEF sp, dp
  <2>3. make_task(f) = make_dif_update_descriptor(f.source_first, f.destination_first,
                          f.source_length, sp, dp, flags_of(f), d, s, t)
    BY <1>1, <1>5, <1>6, <1>11 DEF make_task, operation, sp, dp
  <2> QED  BY <1>1, <1>11, <2>1, <2>2, <2>3, MadeOfDif DEF TaskOf
<1> QED  BY <1>8, <1>9, <1>10, <1>11

\* A job is made into the descriptor of the wish that its fields carry.
LEMMA JobTask ==
    ASSUME NEW m, JobWish(m), NEW f, Alike(f, m)
    PROVE  make_task(f) = TaskOf(m.want, Seeded(f, m.want))
<1>1. m.want.op \in Operations
  BY DEF JobWish, IsWish
<1>2. CASE m.want.op \in {"crc", "copy_crc"}
  BY <1>2, JobTaskCrc
<1>3. CASE m.want.op \notin {"crc", "copy_crc"}
  <2>1. Seeded(f, m.want) = m.want.arg
    BY <1>3, Zenon DEF Seeded
  <2>2. CASE m.want.op \in {"nop", "drain", "mem_move", "fill", "cache_flush"}
    BY <2>1, <2>2, JobTaskPlain
  <2>3. CASE m.want.op \in {"compare", "compare_pattern", "create_delta", "apply_delta",
                            "dualcast"}
    BY <2>1, <2>3, JobTaskMore
  <2>4. CASE m.want.op = "batch"
    BY <2>1, <2>4, JobTaskBatch
  <2>5. CASE m.want.op \in {"dif_check", "dif_insert", "dif_strip", "dif_update"}
    BY <2>1, <2>5, JobTaskDif
  <2> QED  BY <1>1, <1>3, <2>2, <2>3, <2>4, <2>5 DEF Operations, operation
<1> QED  BY <1>2, <1>3

\* The wish that a job with these fields stands for.
Wanted(f, m) == [op |-> m.want.op, arg |-> Seeded(f, m.want), flags |-> m.want.flags]

\* It has a value for each argument.
LEMMA WantedArgs ==
    ASSUME NEW m, JobWish(m), NEW f
    PROVE  /\ DOMAIN Seeded(f, m.want) = DOMAIN View[m.want.op]
           /\ Seeded(f, m.want) = [n \in DOMAIN View[m.want.op] |-> Seeded(f, m.want)[n]]
           /\ \A n \in DOMAIN View[m.want.op] : n # "crc_seed" =>
                  Seeded(f, m.want)[n] = m.want.arg[n] /\ m.want.arg[n] \in Nat
<1> DEFINE arg == m.want.arg
           new == Seeded(f, m.want)
<1>1. DOMAIN arg = DOMAIN View[m.want.op] /\ arg = [n \in DOMAIN View[m.want.op] |-> arg[n]]
      /\ \A n \in DOMAIN View[m.want.op] : arg[n] \in Nat
  BY WishArgs DEF JobWish
<1>2. new = arg \/ new = [arg EXCEPT !.crc_seed = f.crc]
  BY Zenon DEF Seeded
<1> HIDE DEF new, arg
<1>3. /\ DOMAIN new = DOMAIN View[m.want.op]
      /\ new = [n \in DOMAIN View[m.want.op] |-> new[n]]
      /\ \A n \in DOMAIN View[m.want.op] : n # "crc_seed" => new[n] = arg[n]
  BY <1>1, <1>2
<1> QED  BY <1>1, <1>3 DEF new, arg

\* What the devices see of a job.
LEMMA JobSeen ==
    ASSUME NEW m, JobWish(m), NEW f, Alike(f, m), NEW a, NEW b
    PROVE  /\ Seen(rebind(rebind(make_task(f), a), b)) = Wanted(f, m)
           /\ Intact(rebind(rebind(make_task(f), a), b))
<1> DEFINE want == Wanted(f, m)
           dsc == TaskOf(m.want, Seeded(f, m.want))
<1>1. make_task(f) = dsc
  BY JobTask
<1>2. /\ want.op = m.want.op /\ want.arg = Seeded(f, m.want) /\ want.flags = m.want.flags
      /\ want = [op |-> want.op, arg |-> want.arg, flags |-> want.flags]
  BY DEF Wanted
<1>3. m.want.op \in Operations /\ m.want.flags \subseteq CallerFlags
  BY DEF JobWish, IsWish, CallerFlags
<1> HIDE DEF want
<1>4. want.arg = [n \in DOMAIN View[want.op] |-> want.arg[n]]
  BY <1>2, WantedArgs
<1>5. dsc = Written(want.op, ArgWrites(want.op, want.arg) \cup {Flags(FlagWord(want.flags))})
  BY <1>2 DEF TaskOf, TaskWith
<1> HIDE DEF dsc
<1>6. Seen(rebind(rebind(dsc, a), b)) = want /\ Intact(rebind(rebind(dsc, a), b))
  BY <1>2, <1>3, <1>4, <1>5, WishSeen
<1> QED  BY <1>1, <1>6 DEF want

\* A job that was just filled in is alike, and stands for the wish.
LEMMA FilledIn ==
    ASSUME NEW m, JobWish(m)
    PROVE  Alike(Job(m), m) /\ Wanted(Job(m), m) = m.want
<1>1. Alike(Job(m), m)
  BY DEF Alike
<1>2. Seeded(Job(m), m.want) = m.want.arg
  <2>1. CASE m.want.op \in {"crc", "copy_crc"}
    <3>1. "crc" \in DOMAIN BlankJob \ {"flags"} /\ "crc_seed" \in DOMAIN View[m.want.op]
      BY <2>1 DEF BlankJob, View, crc_descriptor, copy_crc_descriptor
    <3>2. Job(m)["crc"] = Arg(m.want, "crc_seed")
      BY <3>1, JobCommon, JobShape
    <3>3. /\ Arg(m.want, "crc_seed") = m.want.arg["crc_seed"]
          /\ m.want.arg = [n \in DOMAIN View[m.want.op] |-> m.want.arg[n]]
      BY <3>1, WishArgs DEF JobWish
    <3>4. [m.want.arg EXCEPT !.crc_seed = Job(m).crc] = m.want.arg
      <4> DEFINE arg == m.want.arg
                 c == Job(m).crc
      <4>1. c = arg["crc_seed"] /\ arg = [n \in DOMAIN View[m.want.op] |-> arg[n]]
        BY <3>2, <3>3
      <4> HIDE DEF arg, c
      <4>2. [arg EXCEPT !.crc_seed = c] = arg
        BY <3>1, <4>1
      <4> QED  BY <4>2 DEF arg, c
    <3> QED  BY <3>4, Zenon DEF Seeded
  <2>2. CASE m.want.op \notin {"crc", "copy_crc"}
    BY <2>2, Zenon DEF Seeded
  <2> QED  BY <2>1, <2>2
<1>3. m.want = [op |-> m.want.op, arg |-> m.want.arg, flags |-> m.want.flags]
  BY DEF JobWish, IsWish
<1> QED  BY <1>1, <1>2, <1>3 DEF Wanted

-----------------------------------------------------------------------------
(* From a call to its descriptor. *)

\* The names of the options of an operation object.
OptionNames == {"flags", "specific", "expected", "equal", "not_equal", "setters"}

\* What the methods of a chain leave in the options.
LEMMA ChainOptions ==
    ASSUME NEW op, DOMAIN OperationObject[op] = OptionNames, NEW M
    PROVE  LET o == OperationObject[op]
               checks == "expect_equal" \in M \/ "expect_not_equal" \in M
               f1 == IF checks THEN Enable(o.flags, 128) ELSE o.flags
               f2 == IF "dont_invalidate_cache" \in M THEN Enable(f1, 256) ELSE f1
               s1 == IF "bypass_reflection" \in M THEN Enable(o.specific, 2) ELSE o.specific
           IN  /\ Chain(op, M).flags = IF "block_on_fault" \in M THEN Enable(f2, 2) ELSE f2
               /\ Chain(op, M).specific =
                      IF "bypass_data_reflection" \in M THEN Enable(s1, 4) ELSE s1
               /\ Chain(op, M).expected =
                      IF "expect_not_equal" \in M THEN o.not_equal
                      ELSE IF "expect_equal" \in M THEN o.equal ELSE o.expected
<1>1. /\ flag.check_result = 128 /\ flag.cache_control = 256 /\ flag.block_on_fault = 2
      /\ crc_specific_flag.bypass_crc_inversion_and_reflection = 2
      /\ crc_specific_flag.bypass_data_reflection = 4
  BY DEF flag, crc_specific_flag
<1>2. M \cap {"expect_equal", "expect_not_equal"} # {}
          <=> "expect_equal" \in M \/ "expect_not_equal" \in M
  OBVIOUS
<1> QED  BY <1>1, <1>2 DEF Chain, OptionNames

\* Bits that are set one after the other.
LEMMA Enabled ==
    /\ Enable(0, 2) = 2 /\ Enable(0, 128) = 128 /\ Enable(128, 2) = 130 /\ Enable(0, 256) = 256
    /\ Enable(256, 2) = 258 /\ Enable(256, 128) = 384 /\ Enable(384, 2) = 386
    /\ Enable(0, 4) = 4 /\ Enable(2, 4) = 6
    /\ ~Has(0, 2) /\ Has(2, 2) /\ ~Has(4, 2) /\ Has(6, 2)
    /\ ~Has(0, 4) /\ ~Has(2, 4) /\ Has(4, 4) /\ Has(6, 4)
  BY DEF Enable, Has

\* The flags that objects have of their own.
LEMMA OwnOf ==
    /\ {n \in DOMAIN flag : Has(0, flag[n])} = {}
    /\ {n \in DOMAIN flag : Has(1, flag[n])} = {"fence"}
    /\ {n \in DOMAIN flag : Has(256, flag[n])} = {"cache_control"}
  BY DEF Has, flag

\* The options of the call that m makes, and the methods that it calls for them.
CallMethods(m) == AsCall(m.want, m.op, m.odd).methods
Expected(want) == Arg(want, "expected_result") + Arg(want, "expected_result_mask")
Options(want) == Arg(want, "operation_specific_flags")

\* The methods of a call, in terms of the wish.
LEMMA MethodsCalled ==
    ASSUME NEW m
    PROVE  LET object == OperationObject[m.op]
               names == m.want.flags
               M == CallMethods(m)
           IN  /\ "expect_equal" \in M <=>
                    /\ "expect_equal" \in object.setters
                    /\ "check_result" \in names /\ Expected(m.want) = object.equal
               /\ "expect_not_equal" \in M <=>
                    /\ "expect_not_equal" \in object.setters
                    /\ "check_result" \in names /\ Expected(m.want) = object.not_equal
               /\ "bypass_reflection" \in M <=>
                    "bypass_reflection" \in object.setters /\ Has(Options(m.want), 2)
               /\ "bypass_data_reflection" \in M <=>
                    "bypass_data_reflection" \in object.setters /\ Has(Options(m.want), 4)
               /\ "dont_invalidate_cache" \in M <=>
                    "dont_invalidate_cache" \in object.setters /\ "cache_control" \in names
               /\ "block_on_fault" \in M <=>
                    "block_on_fault" \in object.setters /\ "block_on_fault" \in names
<1> DEFINE object == OperationObject[m.op]
           names == m.want.flags
           expected == Arg(m.want, "expected_result") + Arg(m.want, "expected_result_mask")
           specific == Arg(m.want, "operation_specific_flags")
           wanted(method) ==
               CASE method = "expect_equal" -> "check_result" \in names /\ expected = object.equal
                 [] method = "expect_not_equal" ->
                        "check_result" \in names /\ expected = object.not_equal
                 [] method = "bypass_reflection" -> Has(specific, 2)
                 [] method = "bypass_data_reflection" -> Has(specific, 4)
                 [] method = "dont_invalidate_cache" -> "cache_control" \in names
                 [] method = "block_on_fault" -> "block_on_fault" \in names
<1>1. CallMethods(m) = {x \in object.setters : wanted(x)}
  BY DEF CallMethods, AsCall
<1>2. /\ wanted("expect_equal") <=> "check_result" \in names /\ expected = object.equal
      /\ wanted("expect_not_equal") <=> "check_result" \in names /\ expected = object.not_equal
      /\ wanted("bypass_reflection") <=> Has(specific, 2)
      /\ wanted("bypass_data_reflection") <=> Has(specific, 4)
      /\ wanted("dont_invalidate_cache") <=> "cache_control" \in names
      /\ wanted("block_on_fault") <=> "block_on_fault" \in names
  OBVIOUS
<1> HIDE DEF wanted, object, names, expected, specific
<1>3. \A x : x \in CallMethods(m) <=> x \in object.setters /\ wanted(x)
  BY <1>1
<1> QED  BY <1>2, <1>3 DEF object, names, expected, specific, Expected, Options

\* The flags that a call can ask for.
LEMMA CallNames ==
    ASSUME NEW m, CallWish(m)
    PROVE  LET object == OperationObject[m.op]
               own == {n \in DOMAIN flag : Has(object.flags, flag[n])}
           IN  /\ own \subseteq m.want.flags
               /\ \A n \in m.want.flags :
                    \/ n \in own
                    \/ n = "block_on_fault" /\ "block_on_fault" \in object.setters
                    \/ n = "check_result" /\ "expect_equal" \in object.setters
                    \/ n = "cache_control" /\ "dont_invalidate_cache" \in object.setters
  BY DEF CallWish

\* What is in the flag word of a call.
LEMMA CallWord ==
    ASSUME NEW names
    PROVE  FlagWord(names) = (IF "fence" \in names THEN 1 ELSE 0)
                             + (IF "block_on_fault" \in names THEN 2 ELSE 0)
                             + (IF "check_result" \in names THEN 128 ELSE 0)
                             + (IF "cache_control" \in names THEN 256 ELSE 0)
  BY DEF FlagWord, flag

\* The methods leave in the options what the wish has: objects with no choice of their own,
LEMMA PlainOptions ==
    ASSUME NEW m, CallWish(m),
           OperationObject[m.op] \in {Object(1, 0, 0, {}), Object(0, 0, 0, {}),
                                      Object(256, 0, 0, {"block_on_fault"})}
    PROVE  LET o == Chain(m.op, CallMethods(m))
           IN  /\ o.flags = FlagWord(m.want.flags)
               /\ o.specific = Options(m.want) /\ o.expected = Expected(m.want)
<1> DEFINE object == OperationObject[m.op]
           names == m.want.flags
           M == CallMethods(m)
           o == Chain(m.op, M)
<1>1. DOMAIN object = OptionNames /\ object.specific = 0 /\ object.expected = 0
      /\ object.equal = 0 /\ object.not_equal = 0
  BY DEF Object, OptionNames
<1>2. \/ object.flags = 1 /\ object.setters = {}
      \/ object.flags = 0 /\ object.setters = {}
      \/ object.flags = 256 /\ object.setters = {"block_on_fault"}
  BY DEF Object
<1> HIDE DEF object
<1>3. /\ "fence" \in names <=> object.flags = 1
      /\ "cache_control" \in names <=> object.flags = 256
      /\ "check_result" \notin names
      /\ object.flags # 256 => "block_on_fault" \notin names
  BY <1>2, CallNames, OwnOf DEF object
<1>4. Options(m.want) = 0 /\ Expected(m.want) = 0
  BY <1>2, <1>3 DEF CallWish, Options, Expected, object
<1>5. /\ "expect_equal" \notin M /\ "expect_not_equal" \notin M
      /\ "bypass_reflection" \notin M /\ "bypass_data_reflection" \notin M
      /\ "dont_invalidate_cache" \notin M
      /\ "block_on_fault" \in M <=> object.flags = 256 /\ "block_on_fault" \in names
  BY <1>2, MethodsCalled DEF object
<1> HIDE DEF M
<1>6. /\ o.flags = IF "block_on_fault" \in M THEN Enable(object.flags, 2) ELSE object.flags
      /\ o.specific = 0 /\ o.expected = 0
  BY <1>1, <1>5, ChainOptions DEF object
<1> HIDE DEF o, names
<1>7. o.flags = FlagWord(names)
  BY <1>2, <1>3, <1>5, <1>6, CallWord, Enabled
<1> QED  BY <1>4, <1>6, <1>7 DEF o, names, M

\* with an expectation,
LEMMA ExpectOptions ==
    ASSUME NEW m, CallWish(m),
           OperationObject[m.op] \in
               {Object(0, 0, 1, {"expect_equal", "expect_not_equal", "block_on_fault"}),
                Object(256, 1, 2, {"expect_equal", "expect_not_equal", "block_on_fault"})}
    PROVE  LET o == Chain(m.op, CallMethods(m))
           IN  /\ o.flags = FlagWord(m.want.flags)
               /\ o.specific = Options(m.want) /\ o.expected = Expected(m.want)
<1> DEFINE object == OperationObject[m.op]
           names == m.want.flags
           M == CallMethods(m)
           o == Chain(m.op, M)
<1>1. DOMAIN object = OptionNames /\ object.specific = 0 /\ object.expected = 0
      /\ object.setters = {"expect_equal", "expect_not_equal", "block_on_fault"}
  BY DEF Object, OptionNames
<1>2. \/ object.flags = 0 /\ object.equal = 0 /\ object.not_equal = 1
      \/ object.flags = 256 /\ object.equal = 1 /\ object.not_equal = 2
  BY DEF Object
<1> HIDE DEF object
<1>3. "fence" \notin names /\ ("cache_control" \in names <=> object.flags = 256)
  BY <1>1, <1>2, CallNames, OwnOf DEF object
<1>4. /\ Options(m.want) = 0
      /\ "check_result" \in names => Expected(m.want) \in {object.equal, object.not_equal}
      /\ "check_result" \notin names => Expected(m.want) = 0
  BY <1>1 DEF CallWish, Options, Expected, object
<1>5. /\ "expect_equal" \in M <=> "check_result" \in names /\ Expected(m.want) = object.equal
      /\ "expect_not_equal" \in M
            <=> "check_result" \in names /\ Expected(m.want) = object.not_equal
      /\ "bypass_reflection" \notin M /\ "bypass_data_reflection" \notin M
      /\ "dont_invalidate_cache" \notin M
      /\ "block_on_fault" \in M <=> "block_on_fault" \in names
  BY <1>1, MethodsCalled DEF object
<1> HIDE DEF M
<1>6. LET f1 == IF "check_result" \in names THEN Enable(object.flags, 128) ELSE object.flags
      IN  /\ o.flags = IF "block_on_fault" \in names THEN Enable(f1, 2) ELSE f1
          /\ o.specific = 0
          /\ o.expected = IF "expect_not_equal" \in M THEN object.not_equal
                          ELSE IF "expect_equal" \in M THEN object.equal ELSE 0
  BY <1>1, <1>4, <1>5, ChainOptions DEF object
<1> HIDE DEF o, names
<1>7. o.flags = FlagWord(names)
  BY <1>2, <1>3, <1>6, CallWord, Enabled
<1>8. o.expected = Expected(m.want)
  BY <1>2, <1>4, <1>5, <1>6 DEF names
<1> QED  BY <1>4, <1>6, <1>7, <1>8 DEF o, names, M

\* of checksums,
LEMMA CrcCallOptions ==
    ASSUME NEW m, CallWish(m),
           OperationObject[m.op] \in
               {Object(0, 0, 0, {"bypass_reflection", "bypass_data_reflection", "block_on_fault"}),
                Object(256, 0, 0,
                       {"bypass_reflection", "bypass_data_reflection", "block_on_fault"})}
    PROVE  LET o == Chain(m.op, CallMethods(m))
           IN  /\ o.flags = FlagWord(m.want.flags)
               /\ o.specific = Options(m.want) /\ o.expected = Expected(m.want)
<1> DEFINE object == OperationObject[m.op]
           names == m.want.flags
           M == CallMethods(m)
           o == Chain(m.op, M)
<1>1. /\ DOMAIN object = OptionNames /\ object.specific = 0 /\ object.expected = 0
      /\ object.setters = {"bypass_reflection", "bypass_data_reflection", "block_on_fault"}
  BY DEF Object, OptionNames
<1>2. object.flags = 0 \/ object.flags = 256
  BY DEF Object
<1> HIDE DEF object
<1>3. /\ "fence" \notin names /\ "check_result" \notin names
      /\ "cache_control" \in names <=> object.flags = 256
  BY <1>1, <1>2, CallNames, OwnOf DEF object
<1>4. Options(m.want) \in {0, 2, 4, 6} /\ Expected(m.want) = 0
  BY <1>1, <1>3 DEF CallWish, Options, Expected, CrcOptions, object
<1>5. /\ "expect_equal" \notin M /\ "expect_not_equal" \notin M
      /\ "bypass_reflection" \in M <=> Has(Options(m.want), 2)
      /\ "bypass_data_reflection" \in M <=> Has(Options(m.want), 4)
      /\ "dont_invalidate_cache" \notin M
      /\ "block_on_fault" \in M <=> "block_on_fault" \in names
  BY <1>1, MethodsCalled DEF object
<1> HIDE DEF M
<1>6. LET s1 == IF "bypass_reflection" \in M THEN Enable(0, 2) ELSE 0
      IN  /\ o.flags = IF "block_on_fault" \in names THEN Enable(object.flags, 2) ELSE object.flags
          /\ o.specific = IF "bypass_data_reflection" \in M THEN Enable(s1, 4) ELSE s1
          /\ o.expected = 0
  BY <1>1, <1>5, ChainOptions DEF object
<1> HIDE DEF o, names
<1>7. o.flags = FlagWord(names)
  BY <1>2, <1>3, <1>6, CallWord, Enabled
<1>8. o.specific = Options(m.want)
  BY <1>4, <1>5, <1>6, Enabled
<1> QED  BY <1>4, <1>6, <1>7, <1>8 DEF o, names, M

\* and of a flush.
LEMMA FlushOptions ==
    ASSUME NEW m, CallWish(m),
           OperationObject[m.op] = Object(0, 0, 0, {"dont_invalidate_cache", "block_on_fault"})
    PROVE  LET o == Chain(m.op, CallMethods(m))
           IN  /\ o.flags = FlagWord(m.want.flags)
               /\ o.specific = Options(m.want) /\ o.expected = Expected(m.want)
<1> DEFINE object == OperationObject[m.op]
           names == m.want.flags
           M == CallMethods(m)
           o == Chain(m.op, M)
<1>1. /\ DOMAIN object = OptionNames /\ object.specific = 0 /\ object.expected = 0
      /\ object.setters = {"dont_invalidate_cache", "block_on_fault"} /\ object.flags = 0
  BY DEF Object, OptionNames
<1> HIDE DEF object
<1>3. "fence" \notin names /\ "check_result" \notin names
  BY <1>1, CallNames, OwnOf DEF object
<1>4. Options(m.want) = 0 /\ Expected(m.want) = 0
  BY <1>1, <1>3 DEF CallWish, Options, Expected, object
<1>5. /\ "expect_equal" \notin M /\ "expect_not_equal" \notin M
      /\ "bypass_reflection" \notin M /\ "bypass_data_reflection" \notin M
      /\ "dont_invalidate_cache" \in M <=> "cache_control" \in names
      /\ "block_on_fault" \in M <=> "block_on_fault" \in names
  BY <1>1, MethodsCalled DEF object
<1> HIDE DEF M
<1>6. LET f2 == IF "cache_control" \in names THEN Enable(0, 256) ELSE 0
      IN  /\ o.flags = IF "block_on_fault" \in names THEN Enable(f2, 2) ELSE f2
          /\ o.specific = 0 /\ o.expected = 0
  BY <1>1, <1>5, ChainOptions DEF object
<1> HIDE DEF o, names
<1>7. o.flags = FlagWord(names)
  BY <1>3, <1>6, CallWord, Enabled
<1> QED  BY <1>4, <1>6, <1>7 DEF o, names, M

\* Every object is one of these.
LEMMA CallOptions ==
    ASSUME NEW m, CallWish(m)
    PROVE  LET o == Chain(m.op, CallMethods(m))
           IN  /\ o.flags = FlagWord(m.want.flags)
               /\ o.specific = Options(m.want) /\ o.expected = Expected(m.want)
<1>1. flag.fence = 1 /\ flag.cache_control = 256
  BY DEF flag
<1>2. m.op \in DOMAIN OperationObject
  BY DEF CallWish
<1>3. CASE m.op \in {"nop", "mem_move", "mem_copy", "fill", "dualcast", "apply_delta", "batch"}
  <2>1. OperationObject[m.op] \in {Object(1, 0, 0, {}), Object(0, 0, 0, {}),
                                   Object(256, 0, 0, {"block_on_fault"})}
    BY <1>1, <1>3 DEF OperationObject, nop_operation, mem_move_operation, mem_copy_operation,
        fill_operation, dualcast_operation, apply_delta_operation, batch_operation
  <2> QED  BY <2>1, PlainOptions
<1>4. CASE m.op \in {"compare", "compare_pattern", "create_delta"}
  <2>1. OperationObject[m.op] \in
            {Object(0, 0, 1, {"expect_equal", "expect_not_equal", "block_on_fault"}),
             Object(256, 1, 2, {"expect_equal", "expect_not_equal", "block_on_fault"})}
    BY <1>1, <1>4 DEF OperationObject, compare_operation, compare_pattern_operation,
        create_delta_operation
  <2> QED  BY <2>1, ExpectOptions
<1>5. CASE m.op \in {"crc", "copy_crc"}
  <2>1. OperationObject[m.op] \in
            {Object(0, 0, 0, {"bypass_reflection", "bypass_data_reflection", "block_on_fault"}),
             Object(256, 0, 0, {"bypass_reflection", "bypass_data_reflection", "block_on_fault"})}
    BY <1>1, <1>5 DEF OperationObject, crc_operation, copy_crc_operation
  <2> QED  BY <2>1, CrcCallOptions
<1>6. CASE m.op = "cache_flush"
  <2>1. OperationObject[m.op] = Object(0, 0, 0, {"dont_invalidate_cache", "block_on_fault"})
    BY <1>6 DEF OperationObject, cache_flush_operation
  <2> QED  BY <2>1, FlushOptions
<1> QED  BY <1>2, <1>3, <1>4, <1>5, <1>6 DEF OperationObject

\* The call that m makes, and the parts of it that the overloads use.
CallOf(m) == AsCall(m.want, m.op, m.odd)
ViewSize(m, i) ==
    IF ViewArgs(m.op)[i] = "delta_record_address" THEN Arg(m.want, "maximum_delta_record_size")
    ELSE Arg(m.want, IF m.op = "batch" THEN "descriptors_count" ELSE "transfer_size")

LEMMA CallParts ==
    ASSUME NEW m
    PROVE  /\ CallOf(m).op = m.op /\ CallOf(m).methods = CallMethods(m)
           /\ CallOf(m).value = Arg(m.want, "pattern") + Arg(m.want, "crc_seed")
           /\ CallOf(m).delta_result.result = IF m.op = "apply_delta" /\ m.odd # 0 THEN 0 ELSE 1
           /\ CallOf(m).delta_result.delta_record_size = Arg(m.want, "delta_record_size")
           /\ \A i \in DOMAIN ViewArgs(m.op) :
                /\ CallOf(m).views[i].data = m.want.arg[ViewArgs(m.op)[i]]
                /\ CallOf(m).views[i].size = ViewSize(m, i) + (IF i = m.odd THEN 8 ELSE 0)
<1>1. /\ CallOf(m).op = m.op
      /\ CallOf(m).value = Arg(m.want, "pattern") + Arg(m.want, "crc_seed")
      /\ CallOf(m).delta_result.result = IF m.op = "apply_delta" /\ m.odd # 0 THEN 0 ELSE 1
      /\ CallOf(m).delta_result.delta_record_size = Arg(m.want, "delta_record_size")
  BY DEF CallOf, AsCall
<1>2. ASSUME NEW i \in DOMAIN ViewArgs(m.op)
      PROVE  /\ CallOf(m).views[i].data = m.want.arg[ViewArgs(m.op)[i]]
             /\ CallOf(m).views[i].size = ViewSize(m, i) + (IF i = m.odd THEN 8 ELSE 0)
  <2>1. CallOf(m).views[i] = make_view(m.want.arg[ViewArgs(m.op)[i]],
                                       ViewSize(m, i) + (IF i = m.odd THEN 8 ELSE 0))
    BY DEF CallOf, AsCall, ViewSize
  <2> QED  BY <2>1 DEF make_view
<1> QED  BY <1>1, <1>2 DEF CallOf, CallMethods

\* What an accepted call is made into: operations with one source or none,
LEMMA CallTaskPlain ==
    ASSUME NEW m, CallWish(m), submit_overload(CallOf(m)).check = "ok",
           m.op \in {"nop", "batch", "mem_move", "mem_copy", "fill", "cache_flush"}
    PROVE  submit_overload(CallOf(m)).dsc = TaskOf(m.want, m.want.arg)
<1> DEFINE want == m.want
           arg == m.want.arg
           c == CallOf(m)
           o == Chain(c.op, c.methods)
           v == c.views
<1>1. /\ c.op = m.op /\ o.flags = FlagWord(want.flags)
      /\ o.specific = Options(want) /\ o.expected = Expected(want)
  BY CallParts, CallOptions
<1>2. /\ \A n \in DOMAIN View[want.op] : Arg(want, n) = arg[n] /\ arg[n] \in Nat
      /\ \A n : n \notin DOMAIN View[want.op] => Arg(want, n) = 0
  BY WishArgs DEF CallWish
<1>3. want.op = (IF m.op = "mem_copy" THEN "mem_move" ELSE m.op)
      /\ m.odd \in {0} \cup CheckedViews(m.op)
  BY DEF CallWish
<1>4. \A i \in DOMAIN ViewArgs(m.op) :
          /\ v[i].data = arg[ViewArgs(m.op)[i]]
          /\ v[i].size = ViewSize(m, i) + (IF i = m.odd THEN 8 ELSE 0)
  BY CallParts
<1>5. /\ c.value = Arg(want, "pattern") + Arg(want, "crc_seed")
      /\ c.delta_result.result = IF m.op = "apply_delta" /\ m.odd # 0 THEN 0 ELSE 1
      /\ c.delta_result.delta_record_size = Arg(want, "delta_record_size")
  BY CallParts
<1> HIDE DEF c, o, v
<1>6. CASE m.op = "nop"
  <2>1. submit_overload(CallOf(m)) = submit_nop(o)
    BY <1>1, <1>6 DEF submit_overload, c, o, v
  <2>2. m.odd = 0
    BY <1>3, <1>6 DEF CheckedViews
  <2>3. /\ want.op = "nop"
    BY <1>1, <1>2, <1>3, <1>5, <1>6, <2>2 DEF View, nop_descriptor, Options, Expected
  <2> QED  BY <1>1, <2>1, <2>3, MadeOf DEF submit_nop, Overload, TaskOf
<1>7. CASE m.op = "batch"
  <2>1. v[1].data = arg.descriptor_list_address
    BY <1>4, <1>7 DEF ViewArgs
  <2>2. /\ v[1].size = arg.descriptors_count + (IF m.odd = 1 THEN 8 ELSE 0)
    BY <1>2, <1>3, <1>4, <1>7 DEF ViewArgs, ViewSize, View, batch_descriptor
  <2>3. submit_overload(CallOf(m)) = submit_batch(v[1], o)
    BY <1>1, <1>7 DEF submit_overload, c, o, v
  <2>4. m.odd = 0
    BY <1>3, <1>7 DEF CheckedViews
  <2>5. /\ v[1].size = arg.descriptors_count
        /\ want.op = "batch"
    BY <1>1, <1>2, <1>3, <1>5, <1>7, <2>2, <2>4 DEF View, batch_descriptor, Options, Expected
  <2> QED  BY <1>1, <2>1, <2>3, <2>5, MadeOf DEF submit_batch, Overload, TaskOf
<1>8. CASE m.op = "mem_move"
  <2>1. v[1].data = arg.source_address /\ v[2].data = arg.destination_address
    BY <1>4, <1>8 DEF ViewArgs
  <2>2. /\ v[1].size = arg.transfer_size + (IF m.odd = 1 THEN 8 ELSE 0)
        /\ v[2].size = arg.transfer_size + (IF m.odd = 2 THEN 8 ELSE 0)
        /\ arg.transfer_size \in Nat
    BY <1>2, <1>3, <1>4, <1>8 DEF ViewArgs, ViewSize, View, mem_move_descriptor
  <2>3. submit_overload(CallOf(m)) = submit_mem_move(v[1], v[2], o)
    BY <1>1, <1>8 DEF submit_overload, c, o, v
  <2>4. m.odd = 0
    BY <1>3, <1>5, <1>8, <2>2, <2>3 DEF CheckedViews, Overload, SameSize, submit_mem_move
  <2>5. /\ v[1].size = arg.transfer_size
        /\ want.op = "mem_move"
    BY <1>1, <1>2, <1>3, <1>5, <1>8, <2>2, <2>4 DEF View, mem_move_descriptor, Options, Expected
  <2> QED  BY <1>1, <2>1, <2>3, <2>5, MadeOf DEF submit_mem_move, Overload, TaskOf
<1>9. CASE m.op = "mem_copy"
  <2>1. v[1].data = arg.source_address /\ v[2].data = arg.destination_address
    BY <1>4, <1>9 DEF ViewArgs
  <2>2. /\ v[1].size = arg.transfer_size + (IF m.odd = 1 THEN 8 ELSE 0)
        /\ v[2].size = arg.transfer_size + (IF m.odd = 2 THEN 8 ELSE 0)
        /\ arg.transfer_size \in Nat
    BY <1>2, <1>3, <1>4, <1>9 DEF ViewArgs, ViewSize, View, mem_move_descriptor
  <2>3. submit_overload(CallOf(m)) = submit_mem_copy(v[1], v[2], o)
    BY <1>1, <1>9 DEF submit_overload, c, o, v
  <2>4. m.odd = 0
    BY <1>3, <1>5, <1>9, <2>2, <2>3 DEF CheckedViews, Overload, SameSize, submit_mem_copy
  <2>5. /\ v[1].size = arg.transfer_size
        /\ want.op = "mem_move"
    BY <1>1, <1>2, <1>3, <1>5, <1>9, <2>2, <2>4 DEF View, mem_move_descriptor, Options, Expected
  <2> QED  BY <1>1, <2>1, <2>3, <2>5, MadeOf DEF submit_mem_copy, Overload, TaskOf
<1>10. CASE m.op = "fill"
  <2>1. v[1].data = arg.destination_address
    BY <1>4, <1>10 DEF ViewArgs
  <2>2. /\ v[1].size = arg.transfer_size + (IF m.odd = 1 THEN 8 ELSE 0)
    BY <1>2, <1>3, <1>4, <1>10 DEF ViewArgs, ViewSize, View, fill_descriptor
  <2>3. submit_overload(CallOf(m)) = submit_fill(c.value, v[1], o)
    BY <1>1, <1>10 DEF submit_overload, c, o, v
  <2>4. m.odd = 0
    BY <1>3, <1>10 DEF CheckedViews
  <2>5. /\ v[1].size = arg.transfer_size
        /\ c.value = arg.pattern
        /\ want.op = "fill"
    BY <1>1, <1>2, <1>3, <1>5, <1>10, <2>2, <2>4 DEF View, fill_descriptor, Options, Expected
  <2> QED  BY <1>1, <2>1, <2>3, <2>5, MadeOf DEF submit_fill, Overload, TaskOf
<1>11. CASE m.op = "cache_flush"
  <2>1. v[1].data = arg.destination_address
    BY <1>4, <1>11 DEF ViewArgs
  <2>2. /\ v[1].size = arg.transfer_size + (IF m.odd = 1 THEN 8 ELSE 0)
    BY <1>2, <1>3, <1>4, <1>11 DEF ViewArgs, ViewSize, View, cache_flush_descriptor
  <2>3. submit_overload(CallOf(m)) = submit_cache_flush(v[1], o)
    BY <1>1, <1>11 DEF submit_overload, c, o, v
  <2>4. m.odd = 0
    BY <1>3, <1>11 DEF CheckedViews
  <2>5. /\ v[1].size = arg.transfer_size
        /\ want.op = "cache_flush"
    BY <1>1, <1>2, <1>3, <1>5, <1>11, <2>2, <2>4 DEF View, cache_flush_descriptor, Options, Expected
  <2> QED  BY <1>1, <2>1, <2>3, <2>5, MadeOf DEF submit_cache_flush, Overload, TaskOf
<1> QED  BY <1>6, <1>7, <1>8, <1>9, <1>10, <1>11

\* and the others.
LEMMA CallTaskMore ==
    ASSUME NEW m, CallWish(m), submit_overload(CallOf(m)).check = "ok",
           m.op \in {"compare", "compare_pattern", "create_delta", "apply_delta", "dualcast",
                     "crc", "copy_crc"}
    PROVE  submit_overload(CallOf(m)).dsc = TaskOf(m.want, m.want.arg)
<1> DEFINE want == m.want
           arg == m.want.arg
           c == CallOf(m)
           o == Chain(c.op, c.methods)
           v == c.views
<1>1. /\ c.op = m.op /\ o.flags = FlagWord(want.flags)
      /\ o.specific = Options(want) /\ o.expected = Expected(want)
  BY CallParts, CallOptions
<1>2. /\ \A n \in DOMAIN View[want.op] : Arg(want, n) = arg[n] /\ arg[n] \in Nat
      /\ \A n : n \notin DOMAIN View[want.op] => Arg(want, n) = 0
  BY WishArgs DEF CallWish
<1>3. want.op = (IF m.op = "mem_copy" THEN "mem_move" ELSE m.op)
      /\ m.odd \in {0} \cup CheckedViews(m.op)
  BY DEF CallWish
<1>4. \A i \in DOMAIN ViewArgs(m.op) :
          /\ v[i].data = arg[ViewArgs(m.op)[i]]
          /\ v[i].size = ViewSize(m, i) + (IF i = m.odd THEN 8 ELSE 0)
  BY CallParts
<1>5. /\ c.value = Arg(want, "pattern") + Arg(want, "crc_seed")
      /\ c.delta_result.result = IF m.op = "apply_delta" /\ m.odd # 0 THEN 0 ELSE 1
      /\ c.delta_result.delta_record_size = Arg(want, "delta_record_size")
  BY CallParts
<1> HIDE DEF c, o, v
<1>6. CASE m.op = "compare"
  <2>1. v[1].data = arg.source_1_address /\ v[2].data = arg.source_2_address
    BY <1>4, <1>6 DEF ViewArgs
  <2>2. /\ v[1].size = arg.transfer_size + (IF m.odd = 1 THEN 8 ELSE 0)
        /\ v[2].size = arg.transfer_size + (IF m.odd = 2 THEN 8 ELSE 0)
        /\ arg.transfer_size \in Nat
    BY <1>2, <1>3, <1>4, <1>6 DEF ViewArgs, ViewSize, View, compare_descriptor
  <2>3. submit_overload(CallOf(m)) = submit_compare(v[1], v[2], o)
    BY <1>1, <1>6 DEF submit_overload, c, o, v
  <2>4. m.odd = 0
    BY <1>3, <1>5, <1>6, <2>2, <2>3 DEF CheckedViews, Overload, SameSize, submit_compare
  <2>5. /\ v[1].size = arg.transfer_size
        /\ o.expected = arg.expected_result
        /\ want.op = "compare"
    BY <1>1, <1>2, <1>3, <1>5, <1>6, <2>2, <2>4 DEF View, compare_descriptor, Options, Expected
  <2> QED  BY <1>1, <2>1, <2>3, <2>5, MadeOfMore DEF submit_compare, Overload, TaskOf
<1>7. CASE m.op = "compare_pattern"
  <2>1. v[1].data = arg.source_address
    BY <1>4, <1>7 DEF ViewArgs
  <2>2. /\ v[1].size = arg.transfer_size + (IF m.odd = 1 THEN 8 ELSE 0)
    BY <1>2, <1>3, <1>4, <1>7 DEF ViewArgs, ViewSize, View, compare_pattern_descriptor
  <2>3. submit_overload(CallOf(m)) = submit_compare_pattern(c.value, v[1], o)
    BY <1>1, <1>7 DEF submit_overload, c, o, v
  <2>4. m.odd = 0
    BY <1>3, <1>7 DEF CheckedViews
  <2>5. /\ v[1].size = arg.transfer_size
        /\ c.value = arg.pattern
        /\ o.expected = arg.expected_result
        /\ want.op = "compare_pattern"
    BY <1>1, <1>2, <1>3, <1>5, <1>7, <2>2, <2>4
       DEF View, compare_pattern_descriptor, Options, Expected
  <2> QED  BY <1>1, <2>1, <2>3, <2>5, MadeOfMore DEF submit_compare_pattern, Overload, TaskOf
<1>8. CASE m.op = "create_delta"
  <2>1. v[1].data = arg.source_1_address /\ v[2].data = arg.source_2_address
          /\ v[3].data = arg.delta_record_address
    BY <1>4, <1>8 DEF ViewArgs
  <2>2. /\ v[1].size = arg.transfer_size + (IF m.odd = 1 THEN 8 ELSE 0)
        /\ v[2].size = arg.transfer_size + (IF m.odd = 2 THEN 8 ELSE 0)
        /\ v[3].size = arg.maximum_delta_record_size + (IF m.odd = 3 THEN 8 ELSE 0)
        /\ arg.transfer_size \in Nat
    BY <1>2, <1>3, <1>4, <1>8 DEF ViewArgs, ViewSize, View, create_delta_descriptor
  <2>3. submit_overload(CallOf(m)) = submit_create_delta(v[1], v[2], v[3], o)
    BY <1>1, <1>8 DEF submit_overload, c, o, v
  <2>4. m.odd = 0
    BY <1>3, <1>5, <1>8, <2>2, <2>3 DEF CheckedViews, Overload, SameSize, submit_create_delta
  <2>5. /\ v[1].size = arg.transfer_size
        /\ v[3].size = arg.maximum_delta_record_size
        /\ o.expected = arg.expected_result_mask
        /\ want.op = "create_delta"
    BY <1>1, <1>2, <1>3, <1>5, <1>8, <2>2, <2>4 DEF View, create_delta_descriptor, Options, Expected
  <2> QED  BY <1>1, <2>1, <2>3, <2>5, MadeOfMore DEF submit_create_delta, Overload, TaskOf
<1>9. CASE m.op = "apply_delta"
  <2>1. v[1].data = arg.delta_record_address /\ v[2].data = arg.destination_address
    BY <1>4, <1>9 DEF ViewArgs
  <2>2. /\ v[2].size = arg.transfer_size + (IF m.odd = 2 THEN 8 ELSE 0)
        /\ arg.transfer_size \in Nat
    BY <1>2, <1>3, <1>4, <1>9 DEF ViewArgs, ViewSize, View, apply_delta_descriptor
  <2>3. submit_overload(CallOf(m)) = submit_apply_delta(v[1], v[2], c.delta_result, o)
    BY <1>1, <1>9 DEF submit_overload, c, o, v
  <2>4. m.odd = 0
    BY <1>3, <1>5, <1>9, <2>2, <2>3 DEF CheckedViews, Overload, SameSize, submit_apply_delta
  <2>5. /\ v[2].size = arg.transfer_size
        /\ c.delta_result.delta_record_size = arg.delta_record_size
        /\ want.op = "apply_delta"
    BY <1>1, <1>2, <1>3, <1>5, <1>9, <2>2, <2>4 DEF View, apply_delta_descriptor, Options, Expected
  <2> QED  BY <1>1, <2>1, <2>3, <2>5, MadeOfMore DEF submit_apply_delta, Overload, TaskOf
<1>10. CASE m.op = "dualcast"
  <2>1. v[1].data = arg.source_address /\ v[2].data = arg.destination_1_address
          /\ v[3].data = arg.destination_2_address
    BY <1>4, <1>10 DEF ViewArgs
  <2>2. /\ v[1].size = arg.transfer_size + (IF m.odd = 1 THEN 8 ELSE 0)
        /\ v[2].size = arg.transfer_size + (IF m.odd = 2 THEN 8 ELSE 0)
        /\ v[3].size = arg.transfer_size + (IF m.odd = 3 THEN 8 ELSE 0)
        /\ arg.transfer_size \in Nat
    BY <1>2, <1>3, <1>4, <1>10 DEF ViewArgs, ViewSize, View, dualcast_descriptor
  <2>3. submit_overload(CallOf(m)) = submit_dualcast(v[1], v[2], v[3], o)
    BY <1>1, <1>10 DEF submit_overload, c, o, v
  <2>4. m.odd = 0
    BY <1>3, <1>5, <1>10, <2>2, <2>3 DEF CheckedViews, Overload, SameSize, submit_dualcast
  <2>5. /\ v[1].size = arg.transfer_size
        /\ o.specific = arg.operation_specific_flags
        /\ want.op = "dualcast"
    BY <1>1, <1>2, <1>3, <1>5, <1>10, <2>2, <2>4 DEF View, dualcast_descriptor, Options, Expected
  <2> QED  BY <1>1, <2>1, <2>3, <2>5, MadeOfMore DEF submit_dualcast, Overload, TaskOf
<1>11. CASE m.op = "crc"
  <2>1. v[1].data = arg.source_address
    BY <1>4, <1>11 DEF ViewArgs
  <2>2. /\ v[1].size = arg.transfer_size + (IF m.odd = 1 THEN 8 ELSE 0)
    BY <1>2, <1>3, <1>4, <1>11 DEF ViewArgs, ViewSize, View, crc_descriptor
  <2>3. submit_overload(CallOf(m)) = submit_crc(v[1], c.value, o)
    BY <1>1, <1>11 DEF submit_overload, c, o, v
  <2>4. m.odd = 0
    BY <1>3, <1>11 DEF CheckedViews
  <2>5. /\ v[1].size = arg.transfer_size
        /\ c.value = arg.crc_seed
        /\ o.specific = arg.operation_specific_flags
        /\ want.op = "crc"
    BY <1>1, <1>2, <1>3, <1>5, <1>11, <2>2, <2>4 DEF View, crc_descriptor, Options, Expected
  <2> QED  BY <1>1, <2>1, <2>3, <2>5, MadeOfMore DEF submit_crc, Overload, TaskOf
<1>12. CASE m.op = "copy_crc"
  <2>1. v[1].data = arg.source_address /\ v[2].data = arg.destination_address
    BY <1>4, <1>12 DEF ViewArgs
  <2>2. /\ v[1].size = arg.transfer_size + (IF m.odd = 1 THEN 8 ELSE 0)
        /\ v[2].size = arg.transfer_size + (IF m.odd = 2 THEN 8 ELSE 0)
        /\ arg.transfer_size \in Nat
    BY <1>2, <1>3, <1>4, <1>12 DEF ViewArgs, ViewSize, View, copy_crc_descriptor
  <2>3. submit_overload(CallOf(m)) = submit_copy_crc(v[1], v[2], c.value, o)
    BY <1>1, <1>12 DEF submit_overload, c, o, v
  <2>4. m.odd = 0
    BY <1>3, <1>5, <1>12, <2>2, <2>3 DEF CheckedViews, Overload, SameSize, submit_copy_crc
  <2>5. /\ v[1].size = arg.transfer_size
        /\ c.value = arg.crc_seed
        /\ o.specific = arg.operation_specific_flags
        /\ want.op = "copy_crc"
    BY <1>1, <1>2, <1>3, <1>5, <1>12, <2>2, <2>4 DEF View, copy_crc_descriptor, Options, Expected
  <2> QED  BY <1>1, <2>1, <2>3, <2>5, MadeOfMore DEF submit_copy_crc, Overload, TaskOf
<1> QED  BY <1>6, <1>7, <1>8, <1>9, <1>10, <1>11, <1>12

\* An object has no flag of its own, that of a fence or that of the cache.
LEMMA ObjectFlags == \A op \in DOMAIN OperationObject : OperationObject[op].flags \in {0, 1, 256}
  BY DEF OperationObject, Object, flag, nop_operation, mem_move_operation, mem_copy_operation,
         fill_operation, dualcast_operation, compare_operation, compare_pattern_operation,
         create_delta_operation, apply_delta_operation, crc_operation, copy_crc_operation,
         cache_flush_operation, batch_operation

\* An accepted call is seen by the devices as its wish.
LEMMA CallSeen ==
    ASSUME NEW m, CallWish(m), submit_overload(CallOf(m)).check = "ok", NEW a
    PROVE  /\ Seen(rebind(submit_overload(CallOf(m)).dsc, a)) = m.want
           /\ Intact(rebind(submit_overload(CallOf(m)).dsc, a))
<1>1. m.op \in DOMAIN OperationObject
  BY DEF CallWish
<1>2. submit_overload(CallOf(m)).dsc = TaskOf(m.want, m.want.arg)
  BY <1>1, CallTaskPlain, CallTaskMore DEF OperationObject
<1>3. TaskOf(m.want, m.want.arg) = Written(m.want.op, ArgWrites(m.want.op, m.want.arg)
                                                      \cup {Flags(FlagWord(m.want.flags))})
  BY DEF TaskOf, TaskWith
<1>4. /\ m.want = [op |-> m.want.op, arg |-> m.want.arg, flags |-> m.want.flags]
      /\ m.want.op \in Operations
      /\ m.want.arg = [n \in DOMAIN View[m.want.op] |-> m.want.arg[n]]
  BY WishArgs DEF CallWish, IsWish
<1>5. m.want.flags \subseteq CallerFlags
  BY <1>1, ObjectFlags, OwnOf, CallNames DEF CallerFlags
<1> QED  BY <1>2, <1>3, <1>4, <1>5, WishSeen

-----------------------------------------------------------------------------
(* What devices leave in a task. *)

\* Checksums, and the seeds that they go on from.
Seeds == 0 .. CrcRange - 1

\* A value for every argument, a seed among the checksums.
Proper(want) ==
    /\ want = [op |-> want.op, arg |-> want.arg, flags |-> want.flags]
    /\ want.op \in Operations
    /\ want.arg = [n \in DOMAIN View[want.op] |-> want.arg[n]]
    /\ \A n \in DOMAIN View[want.op] : want.arg[n] \in Nat
    /\ "crc_seed" \in DOMAIN View[want.op] => want.arg["crc_seed"] \in Seeds

\* The arguments of the operations that may fault.
LEMMA ViewNames ==
    /\ DOMAIN View["mem_move"] = {"source_address", "destination_address", "transfer_size"}
    /\ DOMAIN View["fill"] = {"pattern", "destination_address", "transfer_size"}
    /\ DOMAIN View["compare"] =
            {"source_1_address", "source_2_address", "transfer_size", "expected_result"}
    /\ DOMAIN View["compare_pattern"] =
            {"pattern", "source_address", "transfer_size", "expected_result"}
    /\ DOMAIN View["create_delta"] =
            {"source_1_address", "source_2_address", "transfer_size", "delta_record_address",
             "maximum_delta_record_size", "expected_result_mask"}
    /\ DOMAIN View["apply_delta"] =
            {"delta_record_address", "destination_address", "transfer_size", "delta_record_size"}
    /\ DOMAIN View["dualcast"] =
            {"source_address", "destination_1_address", "destination_2_address", "transfer_size",
             "operation_specific_flags"}
    /\ DOMAIN View["crc"] =
            {"source_address", "transfer_size", "crc_seed", "operation_specific_flags"}
    /\ DOMAIN View["copy_crc"] =
            {"source_address", "destination_address", "transfer_size", "crc_seed",
             "operation_specific_flags"}
    /\ DOMAIN View["cache_flush"] = {"destination_address", "transfer_size"}
    /\ DOMAIN View["batch"] = {"descriptor_list_address", "descriptors_count"}
    /\ DOMAIN View["drain"] =
            {"readback_address_1", "readback_address_2", "operation_specific_flags"}
    /\ DOMAIN View["nop"] = {}
<1>1. /\ DOMAIN mem_move_descriptor = {"source_address", "destination_address", "transfer_size"}
      /\ DOMAIN fill_descriptor = {"pattern", "destination_address", "transfer_size"}
      /\ DOMAIN compare_descriptor =
            {"source_1_address", "source_2_address", "transfer_size", "expected_result"}
      /\ DOMAIN compare_pattern_descriptor =
            {"pattern", "source_address", "transfer_size", "expected_result"}
  BY DEF mem_move_descriptor, fill_descriptor, compare_descriptor, compare_pattern_descriptor
<1>2. /\ DOMAIN create_delta_descriptor =
            {"source_1_address", "source_2_address", "transfer_size", "delta_record_address",
             "maximum_delta_record_size", "expected_result_mask"}
      /\ DOMAIN apply_delta_descriptor =
            {"delta_record_address", "destination_address", "transfer_size", "delta_record_size"}
      /\ DOMAIN dualcast_descriptor =
            {"source_address", "destination_1_address", "destination_2_address", "transfer_size",
             "operation_specific_flags"}
  BY DEF create_delta_descriptor, apply_delta_descriptor, dualcast_descriptor
<1>3. /\ DOMAIN crc_descriptor =
            {"source_address", "transfer_size", "crc_seed", "operation_specific_flags"}
      /\ DOMAIN copy_crc_descriptor =
            {"source_address", "destination_address", "transfer_size", "crc_seed",
             "operation_specific_flags"}
      /\ DOMAIN cache_flush_descriptor = {"destination_address", "transfer_size"}
      /\ DOMAIN batch_descriptor = {"descriptor_list_address", "descriptors_count"}
      /\ DOMAIN drain_descriptor =
            {"readback_address_1", "readback_address_2", "operation_specific_flags"}
      /\ DOMAIN nop_descriptor = {}
  BY DEF crc_descriptor, copy_crc_descriptor, cache_flush_descriptor, batch_descriptor,
         drain_descriptor, nop_descriptor
<1> QED  BY <1>1, <1>2, <1>3 DEF View

\* The same for the operations on protected blocks.
LEMMA DifNames ==
    /\ DOMAIN View["dif_check"] =
            {"source_address", "transfer_size", "source_dif_flags", "dif_flags", "source_ref_tag",
             "source_app_tag_mask", "source_app_tag"}
    /\ DOMAIN View["dif_insert"] =
            {"source_address", "destination_address", "transfer_size", "destination_dif_flags",
             "dif_flags", "destination_ref_tag", "destination_app_tag_mask", "destination_app_tag"}
    /\ DOMAIN View["dif_strip"] =
            {"source_address", "destination_address", "transfer_size", "source_dif_flags",
             "dif_flags", "source_ref_tag", "source_app_tag_mask", "source_app_tag"}
    /\ DOMAIN View["dif_update"] =
            {"source_address", "destination_address", "transfer_size", "source_dif_flags",
             "destination_dif_flags", "dif_flags", "source_ref_tag", "source_app_tag_mask",
             "source_app_tag", "destination_ref_tag", "destination_app_tag_mask",
             "destination_app_tag"}
<1>1. /\ View["dif_check"] = dif_check_descriptor /\ View["dif_insert"] = dif_insert_descriptor
      /\ View["dif_strip"] = dif_strip_descriptor /\ View["dif_update"] = dif_update_descriptor
  BY DEF View
<1>2. DOMAIN dif_check_descriptor =
            {"source_address", "transfer_size", "source_dif_flags", "dif_flags", "source_ref_tag",
             "source_app_tag_mask", "source_app_tag"}
  BY DEF dif_check_descriptor
<1>3. DOMAIN dif_insert_descriptor =
            {"source_address", "destination_address", "transfer_size", "destination_dif_flags",
             "dif_flags", "destination_ref_tag", "destination_app_tag_mask", "destination_app_tag"}
  BY DEF dif_insert_descriptor
<1>4. DOMAIN dif_strip_descriptor =
            {"source_address", "destination_address", "transfer_size", "source_dif_flags",
             "dif_flags", "source_ref_tag", "source_app_tag_mask", "source_app_tag"}
  BY DEF dif_strip_descriptor
<1>5. DOMAIN dif_update_descriptor =
            {"source_address", "destination_address", "transfer_size", "source_dif_flags",
             "destination_dif_flags", "dif_flags", "source_ref_tag", "source_app_tag_mask",
             "source_app_tag", "destination_ref_tag", "destination_app_tag_mask",
             "destination_app_tag"}
  BY DEF dif_update_descriptor
<1> QED  BY <1>1, <1>2, <1>3, <1>4, <1>5

\* Blocks have some bytes.
LEMMA BlockStep ==
    ASSUME NEW want, want.arg["dif_flags"] \in Nat
    PROVE  SourceStep(want) \in {512, 520, 528, 4096, 4104, 4112}
  BY DEF SourceStep, DifBlockSize

\* A checksum is a seed for the next, of which nothing is left when it goes on with nothing,
\* and the checksum of a rest goes on to that of the whole.
LEMMA ChecksumOf ==
    ASSUME NEW seed \in Seeds, NEW from \in Nat, NEW n \in Nat, NEW b \in 0 .. n
    PROVE  /\ Checksum(seed, from, n) \in Seeds
           /\ Checksum(seed, from, 0) = seed
           /\ Checksum(Checksum(seed, from, b), from + b, n - b) = Checksum(seed, from, n)
<1>1. \A a \in Nat : Content(a) \in Int
  BY DEF Content
<1> DEFINE c0 == Content(from)
           c1 == Content(from + b)
           c2 == Content(from + n)
<1>2. c0 \in Int /\ c1 \in Int /\ c2 \in Int
  BY <1>1
<1>3. from + 0 = from /\ from + b + (n - b) = from + n
  OBVIOUS
<1> HIDE DEF c0, c1, c2
<1>4. /\ (seed + c2 - c0) % 11 \in 0 .. 10 /\ (seed + c0 - c0) % 11 = seed
      /\ (((seed + c1 - c0) % 11) + c2 - c1) % 11 = (seed + c2 - c0) % 11
  BY <1>2 DEF Seeds, CrcRange
<1> QED  BY <1>3, <1>4 DEF Checksum, CrcRange, Seeds, c0, c1, c2

\* What an operation that faulted has to do still.
Remaining(want, x) ==
    [op |-> want.op, arg |-> Left(want.op, want.arg, x), flags |-> want.flags]

\* Operations that may fault.
Faultable == Operations \ {"nop", "drain", "batch"}

\* Which arguments a fault changes, and which buffers they describe.
LEMMA ArgumentsLeft ==
    ASSUME NEW op \in Faultable
    PROVE  /\ Extent(op) \in DOMAIN View[op] /\ Extent(op) \notin Advanced(op) \cup TagFields
           /\ Extent(op) # "crc_seed" /\ "crc_seed" \notin Advanced(op)
           /\ Advanced(op) \cap TagFields = {} /\ "crc_seed" \notin TagFields
           /\ \E n \in Advanced(op) : <<n, Extent(op)>> \in Buffers(op)
           /\ \A n \in Advanced(op) \cap DOMAIN View[op] :
                n \in Resized(op) \/ <<n, Extent(op)>> \in Buffers(op)
           /\ "crc_seed" \in DOMAIN View[op] <=> op \in {"crc", "copy_crc"}
           /\ \A n \in TagFields \cap DOMAIN View[op] :
                n \in DOMAIN RecordView[op] /\ "dif_flags" \in DOMAIN View[op]
           /\ \A p \in Buffers(op) :
                /\ p[1] \in DOMAIN View[op] /\ p[2] \in DOMAIN View[op]
                /\ \/ p[1] \in Advanced(op) /\ p[2] = Extent(op)
                   \/ /\ op = "create_delta"
                      /\ p[1] = "delta_record_address" /\ p[2] = "maximum_delta_record_size"
<1> USE DEF Faultable
<1>0. op \in Operations
  OBVIOUS
<1>1. CASE op \in {"fill", "cache_flush"}
  BY <1>1, ViewNames, RecordNames, <1>0, SMTT(30) DEF Extent, Advanced, TagFields, Buffers, Resized
<1>2. CASE op \in {"compare", "dualcast"}
  BY <1>2, ViewNames, RecordNames, <1>0, SMTT(30) DEF Extent, Advanced, TagFields, Buffers, Resized
<1>3. CASE op \in {"compare_pattern", "crc"}
  BY <1>3, ViewNames, RecordNames, <1>0, SMTT(30) DEF Extent, Advanced, TagFields, Buffers, Resized
<1>4. CASE op \in {"mem_move", "copy_crc"}
  BY <1>4, ViewNames, RecordNames, <1>0, SMTT(30) DEF Extent, Advanced, TagFields, Buffers, Resized
<1>5. CASE op \in {"create_delta", "apply_delta"}
  BY <1>5, ViewNames, RecordNames, <1>0, SMTT(30) DEF Extent, Advanced, TagFields, Buffers, Resized
<1>6. CASE op \in {"dif_check", "dif_insert", "dif_strip", "dif_update"}
  BY <1>6, DifNames, RecordNames, <1>0, SMTT(30) DEF Extent, Advanced, TagFields, Buffers, Resized
<1> QED  BY <1>1, <1>2, <1>3, <1>4, <1>5, <1>6 DEF Operations, operation

\* What a record of a fault says.
LEMMA FaultFields ==
    ASSUME NEW want, want.op \in Operations, NEW b, NEW k, NEW s
    PROVE  LET x == FaultRecord(want, b, k, s)
           IN  /\ DOMAIN x = DOMAIN RecordView[want.op]
               /\ x["status"] = s /\ x["bytes_completed"] = b
               /\ x["result"] = IF want.op = "mem_move" THEN k ELSE 0
               /\ "crc_value" \in DOMAIN x =>
                    x["crc_value"] = Checksum(want.arg.crc_seed, want.arg.source_address, b)
               /\ "delta_record_size" \in DOMAIN x => x["delta_record_size"] = 10 * k
               /\ \A n \in TagFields \cap DOMAIN x : x[n] = TagAfter(want, n, b)
               /\ \A n \in DOMAIN x \ (TagFields \cup {"status", "bytes_completed", "result",
                        "fault_address", "crc_value", "delta_record_size"}) : x[n] = want.arg[n]
               /\ x["fault_address"] = 4096
<1> DEFINE x == FaultRecord(want, b, k, s)
<1>1. {"status", "result", "bytes_completed", "fault_address"} \subseteq DOMAIN RecordView[want.op]
  BY RecordNames
<1>2. DOMAIN x = DOMAIN RecordView[want.op]
  BY DEF FaultRecord
<1>3. /\ x["status"] = s /\ x["bytes_completed"] = b /\ x["fault_address"] = 4096
      /\ x["result"] = IF want.op = "mem_move" THEN k ELSE 0
  BY <1>1, SMTT(30) DEF FaultRecord, TagFields
<1>4. /\ "crc_value" \in DOMAIN x =>
            x["crc_value"] = Checksum(want.arg.crc_seed, want.arg.source_address, b)
      /\ "delta_record_size" \in DOMAIN x => x["delta_record_size"] = 10 * k
  BY <1>2, SMTT(30) DEF FaultRecord, TagFields
<1>5. \A n \in TagFields \cap DOMAIN x : x[n] = TagAfter(want, n, b)
  BY <1>2, SMTT(30) DEF FaultRecord, TagFields
<1>6. \A n \in DOMAIN x \ (TagFields \cup {"status", "bytes_completed", "result",
            "fault_address", "crc_value", "delta_record_size"}) : x[n] = want.arg[n]
  BY <1>2, SMTT(30) DEF FaultRecord, TagFields
<1> QED  BY <1>2, <1>3, <1>4, <1>5, <1>6 DEF x

\* Where an operation faults, and that only these do.
LEMMA FaultPlaces ==
    ASSUME NEW want, Proper(want), NEW x \in Faults(want)
    PROVE  /\ want.op \in Faultable
           /\ \E b \in 0 .. want.arg[Extent(want.op)] - 1 : \E k \in Nat :
                \E s \in {PageFault, PageFault + 128} :
                    /\ x = FaultRecord(want, b, k, s) /\ b % Grain(want) = 0
                    /\ want.op = "mem_move" => k \in {0, 1}
                    /\ want.op = "create_delta" =>
                            k <= b \div 8 /\ 10 * k <= want.arg["maximum_delta_record_size"]
<1>1. want.op \in Operations
  BY DEF Proper
<1>2. want.op \in Faultable
  BY <1>1 DEF Faults, MayFault, Faultable
<1>3. PICK b \in FaultPoints(want) : \E k \in Details(want, b) :
            \E s \in {PageFault, PageFault + 128} : x = FaultRecord(want, b, k, s)
  BY FaultParts
<1> PICK k \in Details(want, b), s \in {PageFault, PageFault + 128} :
            x = FaultRecord(want, b, k, s)
  BY <1>3
<1>4. b \in 0 .. want.arg[Extent(want.op)] - 1 /\ b % Grain(want) = 0
  BY <1>3 DEF FaultPoints
<1>5. /\ k \in Nat /\ (want.op = "mem_move" => k \in {0, 1})
      /\ want.op = "create_delta" =>
            k <= b \div 8 /\ 10 * k <= want.arg["maximum_delta_record_size"]
  <2>1. CASE want.op = "mem_move"
    BY <1>3, <2>1 DEF Details
  <2>2. CASE want.op = "create_delta"
    BY <1>3, <2>2 DEF Details
  <2>3. CASE want.op \notin {"mem_move", "create_delta"}
    BY <1>3, <2>3 DEF Details
  <2> QED  BY <2>1, <2>2, <2>3
<1> QED  BY <1>2, <1>3, <1>4, <1>5

\* The arguments that are left, one by one.
LEMMA LeftArgs ==
    ASSUME NEW op \in Faultable, NEW a, NEW r
    PROVE  LET new == Left(op, a, r)
               b == r["bytes_completed"]
           IN  /\ DOMAIN new = DOMAIN a
               /\ Extent(op) \in DOMAIN a => new[Extent(op)] = a[Extent(op)] - b
               /\ \A n \in Advanced(op) \cap DOMAIN a :
                    new[n] = IF op = "mem_move" /\ r["result"] # 0 THEN a[n] ELSE a[n] + b
               /\ "crc_seed" \in DOMAIN a => new["crc_seed"] = r["crc_value"]
               /\ \A n \in TagFields \cap DOMAIN a : new[n] = r[n]
               /\ op = "create_delta" =>
                    /\ "delta_record_address" \in DOMAIN a =>
                        new["delta_record_address"] =
                            a["delta_record_address"] + r["delta_record_size"]
                    /\ "maximum_delta_record_size" \in DOMAIN a =>
                        new["maximum_delta_record_size"] =
                            a["maximum_delta_record_size"] - r["delta_record_size"]
               /\ \A n \in DOMAIN a \ (Advanced(op) \cup {Extent(op), "crc_seed"} \cup TagFields) :
                    \/ new[n] = a[n]
                    \/ /\ op = "create_delta"
                       /\ n \in {"delta_record_address", "maximum_delta_record_size"}
<1> DEFINE new == Left(op, a, r)
           b == r["bytes_completed"]
<1>1. /\ Extent(op) \notin Advanced(op) \cup TagFields /\ Extent(op) # "crc_seed"
      /\ "crc_seed" \notin Advanced(op) /\ Advanced(op) \cap TagFields = {}
      /\ "crc_seed" \notin TagFields
  BY ArgumentsLeft
<1>2. DOMAIN new = DOMAIN a
  BY DEF Left
<1>3. \A n \in DOMAIN a : new[n] =
            IF n \in Advanced(op)
            THEN (IF op = "mem_move" /\ r["result"] # 0 THEN a[n] ELSE a[n] + b)
            ELSE IF n = Extent(op) THEN a[n] - b
            ELSE IF n = "crc_seed" THEN r["crc_value"]
            ELSE IF n \in TagFields THEN r[n]
            ELSE IF op = "create_delta" /\ n = "delta_record_address"
            THEN a[n] + r["delta_record_size"]
            ELSE IF op = "create_delta" /\ n = "maximum_delta_record_size"
            THEN a[n] - r["delta_record_size"]
            ELSE a[n]
  BY Zenon DEF Left
<1>4. op = "create_delta" => Extent(op) = "transfer_size"
        /\ Advanced(op) = {"source_1_address", "source_2_address"}
  BY DEF Extent, Advanced
<1>5. {"delta_record_address", "maximum_delta_record_size"} \cap TagFields = {}
  BY DEF TagFields
<1> HIDE DEF new
<1> QED  BY <1>1, <1>2, <1>3, <1>4, <1>5 DEF new

\* What is left of an operation that has faulted is its rest, and can be asked for.
LEMMA FaultRest ==
    ASSUME NEW want, Proper(want), NEW x \in Faults(want)
    PROVE  Proper(Remaining(want, x)) /\ RestOf(want, Remaining(want, x))
<1> DEFINE op == want.op
           w == want.arg
           names == DOMAIN View[op]
           r == Left(op, w, x)
           e == Extent(op)
<1>1. /\ op \in Operations /\ op \in Faultable /\ DOMAIN w = names
      /\ \A n \in names : w[n] \in Nat
      /\ "crc_seed" \in names => w["crc_seed"] \in Seeds
  BY FaultPlaces DEF Proper
<1>2. PICK b \in 0 .. w[e] - 1, k \in Nat, s \in {PageFault, PageFault + 128} :
        /\ x = FaultRecord(want, b, k, s)
        /\ op = "create_delta" => k <= b \div 8 /\ 10 * k <= w["maximum_delta_record_size"]
  BY FaultPlaces
<1>3. /\ e \in names /\ e \notin Advanced(op) \cup TagFields /\ e # "crc_seed"
      /\ "crc_seed" \notin Advanced(op) \cup TagFields /\ Advanced(op) \cap TagFields = {}
      /\ "crc_seed" \in names <=> op \in {"crc", "copy_crc"}
      /\ \E n \in Advanced(op) : <<n, e>> \in Buffers(op)
      /\ \A n \in Advanced(op) \cap names : n \in Resized(op) \/ <<n, e>> \in Buffers(op)
      /\ \A n \in TagFields \cap names : n \in DOMAIN RecordView[op] /\ "dif_flags" \in names
      /\ \A p \in Buffers(op) :
            /\ p[1] \in names /\ p[2] \in names
            /\ \/ p[1] \in Advanced(op) /\ p[2] = e
               \/ /\ op = "create_delta"
                  /\ p[1] = "delta_record_address" /\ p[2] = "maximum_delta_record_size"
  BY <1>1, ArgumentsLeft
<1>4. /\ x["bytes_completed"] = b /\ x["result"] = IF op = "mem_move" THEN k ELSE 0
      /\ "crc_value" \in DOMAIN x =>
            x["crc_value"] = Checksum(w["crc_seed"], w["source_address"], b)
      /\ "delta_record_size" \in DOMAIN x => x["delta_record_size"] = 10 * k
      /\ \A n \in TagFields \cap DOMAIN RecordView[op] : x[n] = TagAfter(want, n, b)
      /\ DOMAIN x = DOMAIN RecordView[op]
  BY <1>1, <1>2, FaultFields
<1>5. /\ op = "create_delta" => "delta_record_size" \in DOMAIN x
      /\ op \in {"crc", "copy_crc"} => "crc_value" \in DOMAIN x
  BY <1>1, <1>4, RecordNames
<1>6. /\ op = "create_delta" => {"delta_record_address", "maximum_delta_record_size"} \subseteq names
                                /\ <<"delta_record_address", "maximum_delta_record_size">> \in Buffers(op)
                                /\ e \notin {"delta_record_address", "maximum_delta_record_size"}
      /\ op \in {"crc", "copy_crc"} => "source_address" \in names /\ e = "transfer_size"
  BY ViewNames DEF Buffers, Extent
<1> DEFINE back == op = "mem_move" /\ k # 0
<1>7. /\ DOMAIN r = names /\ r[e] = w[e] - b
      /\ \A n \in Advanced(op) \cap names : r[n] = IF back THEN w[n] ELSE w[n] + b
      /\ op \in {"crc", "copy_crc"} =>
            r["crc_seed"] = Checksum(w["crc_seed"], w["source_address"], b)
      /\ \A n \in TagFields \cap names : r[n] = TagAfter(want, n, b)
      /\ op = "create_delta" =>
            /\ r["delta_record_address"] = w["delta_record_address"] + 10 * k
            /\ r["maximum_delta_record_size"] = w["maximum_delta_record_size"] - 10 * k
      /\ \A n \in names \ (Advanced(op) \cup {e, "crc_seed"} \cup TagFields) :
            \/ r[n] = w[n]
            \/ op = "create_delta" /\ n \in {"delta_record_address", "maximum_delta_record_size"}
  <2> DEFINE new == Left(op, w, x)
  <2>1. /\ DOMAIN new = DOMAIN w
        /\ e \in DOMAIN w => new[e] = w[e] - x["bytes_completed"]
        /\ \A n \in Advanced(op) \cap DOMAIN w :
             new[n] = IF op = "mem_move" /\ x["result"] # 0 THEN w[n] ELSE w[n] + x["bytes_completed"]
        /\ "crc_seed" \in DOMAIN w => new["crc_seed"] = x["crc_value"]
        /\ \A n \in TagFields \cap DOMAIN w : new[n] = x[n]
        /\ op = "create_delta" =>
             /\ "delta_record_address" \in DOMAIN w =>
                 new["delta_record_address"] = w["delta_record_address"] + x["delta_record_size"]
             /\ "maximum_delta_record_size" \in DOMAIN w =>
                 new["maximum_delta_record_size"] =
                     w["maximum_delta_record_size"] - x["delta_record_size"]
        /\ \A n \in DOMAIN w \ (Advanced(op) \cup {e, "crc_seed"} \cup TagFields) :
             \/ new[n] = w[n]
             \/ op = "create_delta" /\ n \in {"delta_record_address", "maximum_delta_record_size"}
    BY <1>1, LeftArgs
  <2> HIDE DEF r, op, w, e, names
  <2> QED  BY <1>1, <1>3, <1>4, <1>5, <1>6, <2>1 DEF r
<1>8. /\ \A n \in TagFields \cap names : TagAfter(want, n, b) \in Nat
      /\ op \in {"crc", "copy_crc"} => Checksum(w["crc_seed"], w["source_address"], b) \in Seeds
  <2>1. ASSUME NEW n \in TagFields \cap names PROVE TagAfter(want, n, b) \in Nat
    <3>1. w["dif_flags"] \in Nat /\ w[n] \in Nat /\ b \in Nat
      BY <1>1, <1>3
    <3>2. SourceStep(want) \in Nat \ {0}
      BY <3>1, BlockStep
    <3> QED  BY <3>1, <3>2 DEF TagAfter
  <2>2. op \in {"crc", "copy_crc"} => Checksum(w["crc_seed"], w["source_address"], b) \in Seeds
    BY <1>1, <1>3, <1>6, ChecksumOf
  <2> QED  BY <2>1, <2>2
<1>9. w[e] \in Nat /\ Seeds \subseteq Nat
  BY <1>1, <1>3 DEF Seeds, CrcRange
<1> DEFINE rest == Remaining(want, x)
<1>10. /\ rest.op = op /\ rest.arg = r /\ rest.flags = want.flags
       /\ rest = [op |-> rest.op, arg |-> rest.arg, flags |-> rest.flags]
       /\ r = [n \in names |-> r[n]]
  <2>1. r = [n \in DOMAIN w |-> r[n]]
    BY DEF Left
  <2> QED  BY <1>1, <2>1 DEF Remaining
<1> HIDE DEF r, w, e, names, op, back, rest
<1>11. \A n \in names : r[n] \in Nat
  <2> SUFFICES ASSUME NEW n \in names PROVE r[n] \in Nat
    OBVIOUS
  <2>1. w[n] \in Nat /\ b \in Nat /\ b < w[e]
    BY <1>1, <1>9
  <2>2. CASE n \in Advanced(op)
    BY <1>7, <2>1, <2>2
  <2>3. CASE n = e
    BY <1>7, <1>9, <2>1, <2>3
  <2>4. CASE n = "crc_seed"
    BY <1>3, <1>7, <1>8, <1>9, <2>4
  <2>5. CASE n \in TagFields
    BY <1>7, <1>8, <2>5
  <2>6. CASE n \notin Advanced(op) \cup {e, "crc_seed"} \cup TagFields
    BY <1>1, <1>2, <1>6, <1>7, <2>1, <2>6
  <2> QED  BY <2>2, <2>3, <2>4, <2>5, <2>6
<1>12. Proper(rest)
  BY <1>1, <1>3, <1>7, <1>8, <1>10, <1>11 DEF Proper, names
<1>13. Arg(want, e) - Arg(rest, e) = b
  BY <1>1, <1>3, <1>7, <1>9, <1>10 DEF Arg, w
<1>14. \A p \in Buffers(op) : r[p[2]] \in 0 .. w[p[2]]
  <2> SUFFICES ASSUME NEW p \in Buffers(op) PROVE r[p[2]] \in 0 .. w[p[2]]
    OBVIOUS
  <2>1. CASE p[2] = e
    BY <1>7, <1>9, <2>1
  <2>2. CASE op = "create_delta" /\ p[2] = "maximum_delta_record_size"
    BY <1>1, <1>2, <1>6, <1>7, <2>2
  <2> QED  BY <1>3, <2>1, <2>2
<1>16. ~back => \A p \in Buffers(op) : r[p[1]] + r[p[2]] = w[p[1]] + w[p[2]]
  <2> SUFFICES ASSUME ~back, NEW p \in Buffers(op) PROVE r[p[1]] + r[p[2]] = w[p[1]] + w[p[2]]
    OBVIOUS
  <2>0. w[p[1]] \in Nat /\ w[p[2]] \in Nat /\ b \in Nat /\ k \in Nat
    BY <1>1, <1>3, <1>9
  <2>1. CASE p[1] \in Advanced(op) /\ p[2] = e
    BY <1>3, <1>7, <2>0, <2>1
  <2>2. CASE op = "create_delta" /\ p[1] = "delta_record_address"
             /\ p[2] = "maximum_delta_record_size"
    BY <1>7, <2>0, <2>2
  <2> QED  BY <1>3, <2>1, <2>2
<1>17. \A n \in names \ ({p[1] : p \in Buffers(op)} \cup {p[2] : p \in Buffers(op)}
                          \cup Resized(op) \cup TagFields \cup {"crc_seed"}) : r[n] = w[n]
  <2> SUFFICES ASSUME NEW n \in names,
                      n \notin {p[1] : p \in Buffers(op)}, n \notin {p[2] : p \in Buffers(op)},
                      n \notin Resized(op) \cup TagFields \cup {"crc_seed"}
               PROVE  r[n] = w[n]
    OBVIOUS
  <2>1. n # e
    BY <1>3
  <2>2. n \notin Advanced(op)
    <3>1. \A p \in Buffers(op) : p[1] # n
      OBVIOUS
    <3>2. <<n, e>>[1] = n
      OBVIOUS
    <3>3. <<n, e>> \notin Buffers(op)
      BY <3>1, <3>2
    <3> QED  BY <1>3, <3>3
  <2>3. op = "create_delta" => n \notin {"delta_record_address", "maximum_delta_record_size"}
    BY <1>6
  <2> QED  BY <1>7, <2>1, <2>2, <2>3
<1>18. DOMAIN rest.arg = DOMAIN want.arg
  BY <1>1, <1>7, <1>10 DEF w
<1>19. RestOf(want, rest)
  <2> DEFINE done == Arg(want, Extent(want.op)) - Arg(rest, Extent(want.op))
  <2>1. done = b /\ done >= 0
    BY <1>13 DEF e, op
  <2>2. back => want.op = "mem_move" /\ \A p \in Buffers(op) : r[p[1]] = w[p[1]]
    <3>1. \A p \in Buffers(op) : back => r[p[1]] = w[p[1]]
      BY <1>3, <1>7 DEF back
    <3> QED  BY <3>1 DEF back, op
  <2> HIDE DEF done
  <2> USE DEF op, w
  <2>3. want.op \in {"crc", "copy_crc"} =>
            rest.arg.crc_seed = Checksum(want.arg.crc_seed, want.arg.source_address, done)
    BY <1>7, <1>10, <2>1
  <2>4. \A n \in DOMAIN want.arg \cap TagFields : rest.arg[n] = TagAfter(want, n, done)
    BY <1>1, <1>7, <1>10, <2>1
  <2>5. \A p \in Buffers(want.op) : rest.arg[p[2]] \in 0 .. want.arg[p[2]]
    BY <1>10, <1>14
  <2>6. \/ \A p \in Buffers(want.op) :
                rest.arg[p[1]] + rest.arg[p[2]] = want.arg[p[1]] + want.arg[p[2]]
        \/ want.op = "mem_move" /\ \A p \in Buffers(want.op) : rest.arg[p[1]] = want.arg[p[1]]
    BY <1>10, <1>16, <2>2
  <2>7. \A n \in DOMAIN want.arg \ ({p[1] : p \in Buffers(want.op)}
                                    \cup {p[2] : p \in Buffers(want.op)}
                                    \cup Resized(want.op) \cup TagFields \cup {"crc_seed"}) :
            rest.arg[n] = want.arg[n]
    BY <1>1, <1>10, <1>17
  <2> QED  BY <1>10, <1>18, <2>1, <2>3, <2>4, <2>5, <2>6, <2>7, Zenon DEF RestOf, done
<1> QED  BY <1>12, <1>19 DEF rest

\* The whole is a rest.
LEMMA WholeRest ==
    ASSUME NEW want, Proper(want)
    PROVE  RestOf(want, want)
<1> DEFINE op == want.op
           w == want.arg
           names == DOMAIN View[op]
<1>1. /\ op \in Operations /\ DOMAIN w = names
      /\ \A n \in names : w[n] \in Nat
      /\ "crc_seed" \in names => w["crc_seed"] \in Seeds
  BY DEF Proper
<1>2. Arg(want, Extent(op)) - Arg(want, Extent(op)) = 0
  <2>1. Arg(want, Extent(op)) \in Nat
    BY <1>1 DEF Arg
  <2> QED  BY <2>1
<1>3. CASE op \in Faultable
  <2>1. /\ "crc_seed" \in names <=> op \in {"crc", "copy_crc"}
        /\ \A n \in TagFields \cap names : "dif_flags" \in names
        /\ \A p \in Buffers(op) : p[2] \in names
    BY <1>3, ArgumentsLeft
  <2>2. \A n \in TagFields \cap names : TagAfter(want, n, 0) = w[n]
    <3> SUFFICES ASSUME NEW n \in TagFields \cap names PROVE TagAfter(want, n, 0) = w[n]
      OBVIOUS
    <3>1. SourceStep(want) \in {512, 520, 528, 4096, 4104, 4112} /\ w[n] \in Nat
      BY <1>1, <2>1, BlockStep
    <3> QED  BY <3>1 DEF TagAfter
  <2>3. op \in {"crc", "copy_crc"} => w["crc_seed"] = Checksum(w["crc_seed"], w["source_address"], 0)
    <3>1. op \in {"crc", "copy_crc"} => "source_address" \in names
      BY ViewNames
    <3> QED  BY <1>1, <2>1, <3>1, ChecksumOf
  <2>4. \A p \in Buffers(op) : w[p[2]] \in 0 .. w[p[2]]
    BY <1>1, <2>1
  <2> DEFINE done == Arg(want, Extent(want.op)) - Arg(want, Extent(want.op))
  <2>5. done = 0 /\ done >= 0
    BY <1>2
  <2> HIDE DEF done
  <2>6. \A n \in DOMAIN want.arg \cap TagFields : want.arg[n] = TagAfter(want, n, done)
    BY <1>1, <2>2, <2>5
  <2>7. want.op \in {"crc", "copy_crc"} =>
            want.arg.crc_seed = Checksum(want.arg.crc_seed, want.arg.source_address, done)
    BY <2>3, <2>5
  <2> QED  BY <2>4, <2>5, <2>6, <2>7, Zenon DEF RestOf, done
<1>4. CASE op \in {"nop", "drain", "batch"}
  <2>1. Buffers(op) = {}
    BY <1>4 DEF Buffers
  <2>2. names \cap TagFields = {} /\ op \notin {"crc", "copy_crc"}
    BY <1>4, ViewNames DEF TagFields
  <2> HIDE DEF op, names
  <2> QED  BY <1>1, <1>2, <2>1, <2>2, SMTT(30) DEF RestOf, op
<1> QED  BY <1>1, <1>3, <1>4 DEF Faultable

\* The record of an operation, by what was written into it.
RecordOf(op, x) == PutAll(Blank, RecordView[op], x)

\* The same after a fault and the software kernel.
Merged(op, x, y) ==
    accumulate_records(op, PutAll(RecordOf(op, x), RecordView[op], y), RecordOf(op, x))

\* Kernels do not fault.
LEMMA KernelStatus ==
    ASSUME NEW want, NEW x \in KernelWrites(want)
    PROVE  x["status"] \in {Success, FalsePredicate, BatchError, DifError}
<1> USE DEF Success, FalsePredicate, BatchError, DifError
<1>1. CASE want.op \in {"compare", "compare_pattern"}
  BY <1>1 DEF KernelWrites, compare, CompareStatus
<1>2. CASE want.op = "create_delta"
  BY <1>2 DEF KernelWrites, create_delta, DeltaStatus
<1>3. CASE want.op \in {"crc", "copy_crc"}
  BY <1>3 DEF KernelWrites, crc
<1>4. CASE want.op \in {"dif_check", "dif_strip", "dif_update"}
  BY <1>4 DEF KernelWrites, dif_check
<1>5. CASE want.op = "dif_insert"
  BY <1>5 DEF KernelWrites, dif_insert
<1>6. CASE want.op = "batch"
  BY <1>6 DEF KernelWrites, batch
<1>7. CASE want.op \notin {"compare", "compare_pattern", "create_delta", "crc", "copy_crc",
                           "dif_check", "dif_strip", "dif_update", "dif_insert", "batch"}
  BY <1>7 DEF KernelWrites
<1> QED  BY <1>1, <1>2, <1>3, <1>4, <1>5, <1>6, <1>7

\* What the accelerator writes, by kind.
LEMMA AcceleratorKinds ==
    ASSUME NEW want, want.op \in Operations, NEW x \in AcceleratorWrites(want)
    PROVE  \/ \E y \in KernelWrites(want) : x = Joined(y, Done(want)) /\ x["status"] = y["status"]
           \/ x = Breakdown(want) /\ x["status"] = HardwareTimeout
           \/ x \in Faults(want) /\ x["status"] \in {PageFault, PageFault + 128}
<1>1. CASE \E y \in KernelWrites(want) : x = Joined(y, Done(want))
  <2>1. PICK y \in KernelWrites(want) : x = Joined(y, Done(want))
    BY <1>1
  <2>2. "status" \in DOMAIN y
    BY KernelEnds DEF Ended
  <2>3. x["status"] = y["status"]
    BY <2>1, <2>2 DEF Joined
  <2> QED  BY <2>1, <2>3
<1>2. CASE x = Breakdown(want)
  <2>1. "status" \in DOMAIN RecordView[want.op]
    BY StatusRead
  <2> QED  BY <1>2, <2>1 DEF Breakdown
<1>3. CASE x \in Faults(want)
  <2>1. PICK b \in FaultPoints(want) : \E k \in Details(want, b) :
            \E s \in {PageFault, PageFault + 128} : x = FaultRecord(want, b, k, s)
    BY <1>3, FaultParts
  <2>2. PICK k \in Details(want, b), s \in {PageFault, PageFault + 128} :
            x = FaultRecord(want, b, k, s)
    BY <2>1
  <2>3. x["status"] = s
    BY <2>2, FaultFields
  <2> QED  BY <1>3, <2>3
<1> QED  BY <1>1, <1>2, <1>3 DEF AcceleratorWrites

\* What was written into the record can be read from it.
LEMMA RecordReads ==
    ASSUME NEW op \in Operations, NEW x, Ended(op, x)
    PROVE  /\ Tidy(op, RecordOf(op, x)) /\ Filled(RecordOf(op, x))
           /\ Get(RecordOf(op, x), any_completion_record.status) = x["status"]
           /\ \A n \in DOMAIN RecordView[op] :
                Read(op, RecordOf(op, x))[n] = IF n \in DOMAIN x THEN x[n] ELSE 0
<1>1. Tidy(op, Blank) /\ \A n \in DOMAIN RecordView[op] : Read(op, Blank)[n] = 0
  BY BlankTidy
<1>2. /\ Tidy(op, RecordOf(op, x)) /\ Filled(RecordOf(op, x))
      /\ Get(RecordOf(op, x), any_completion_record.status) = x["status"]
  BY <1>1, EndedFills DEF RecordOf
<1>3. \A n \in DOMAIN RecordView[op] :
            Read(op, RecordOf(op, x))[n] = IF n \in DOMAIN x THEN x[n] ELSE Read(op, Blank)[n]
  BY <1>1, RecordPut DEF RecordOf, Ended
<1> QED  BY <1>1, <1>2, <1>3

\* A record that was written twice.
Overwritten(op, x, y) ==
    [n \in DOMAIN RecordView[op] |-> IF n \in DOMAIN y THEN y[n] ELSE x[n]]

\* The fields of a merged record.
LEMMA MergedReads ==
    ASSUME NEW op \in Operations, NEW x, Ended(op, x), DOMAIN x = DOMAIN RecordView[op],
           NEW y, Ended(op, y)
    PROVE  /\ Filled(Merged(op, x, y))
           /\ Read(op, Merged(op, x, y))["status"] = y["status"]
           /\ Read(op, Merged(op, x, y))["bytes_completed"] =
                IF op \in {"nop", "drain", "batch"} THEN Overwritten(op, x, y)["bytes_completed"]
                ELSE IF op = "compare" THEN x["bytes_completed"]
                ELSE Overwritten(op, x, y)["bytes_completed"] + x["bytes_completed"]
           /\ op = "create_delta" =>
                Read(op, Merged(op, x, y))["delta_record_size"] =
                    Overwritten(op, x, y)["delta_record_size"] + x["delta_record_size"]
           /\ \A n \in DOMAIN RecordView[op] \ {"bytes_completed", "delta_record_size"} :
                Read(op, Merged(op, x, y))[n] = Overwritten(op, x, y)[n]
<1> DEFINE view == RecordView[op]
           z == Overwritten(op, x, y)
           prev == RecordOf(op, x)
           mid == PutAll(prev, view, y)
           new == Merged(op, x, y)
           q == Read(op, mid)
           p == Read(op, prev)
           sum == [bytes_completed |-> q.bytes_completed + p.bytes_completed]
           u == CASE op \in {"nop", "drain", "batch"} -> [n \in {} |-> 0]
                  [] op = "compare" -> [bytes_completed |-> p.bytes_completed]
                  [] op = "create_delta" ->
                        Joined(sum, [delta_record_size |-> q.delta_record_size + p.delta_record_size])
                  [] OTHER -> sum
<1>1. new = PutAll(mid, view, u)
  BY DEF Merged, accumulate_records
<1>2. /\ {"status", "result", "bytes_completed", "fault_address"} \subseteq DOMAIN view
      /\ op = "create_delta" => "delta_record_size" \in DOMAIN view
  BY RecordNames
<1>3. Tidy(op, prev) /\ \A n \in DOMAIN view : p[n] = x[n]
  BY RecordReads
<1>4. Tidy(op, mid) /\ Filled(mid)
      /\ Get(mid, any_completion_record.status) = y["status"]
  BY <1>3, EndedFills
<1>5. \A n \in DOMAIN view : q[n] = z[n]
  <2>1. \A n \in DOMAIN view : q[n] = IF n \in DOMAIN y THEN y[n] ELSE p[n]
    BY <1>3, RecordPut DEF Ended
  <2> QED  BY <1>3, <2>1 DEF Overwritten
<1>6. /\ op \in {"nop", "drain", "batch"} => DOMAIN u = {}
      /\ op = "compare" => DOMAIN u = {"bytes_completed"}
                           /\ u["bytes_completed"] = x["bytes_completed"]
      /\ op = "create_delta" =>
            /\ DOMAIN u = {"bytes_completed", "delta_record_size"}
            /\ u["bytes_completed"] = z["bytes_completed"] + x["bytes_completed"]
            /\ u["delta_record_size"] = z["delta_record_size"] + x["delta_record_size"]
      /\ op \notin {"nop", "drain", "batch", "compare", "create_delta"} =>
            /\ DOMAIN u = {"bytes_completed"}
            /\ u["bytes_completed"] = z["bytes_completed"] + x["bytes_completed"]
  <2>1. /\ p["bytes_completed"] = x["bytes_completed"]
        /\ q["bytes_completed"] = z["bytes_completed"]
        /\ op = "create_delta" => /\ p["delta_record_size"] = x["delta_record_size"]
                                  /\ q["delta_record_size"] = z["delta_record_size"]
    BY <1>2, <1>3, <1>5
  <2> HIDE DEF p, q, z
  <2> QED  BY <2>1, SMTT(30) DEF Joined
<1> HIDE DEF u, mid, prev, p, q
<1>7. DOMAIN u \subseteq DOMAIN view
  BY <1>2, <1>6, SMTT(30)
<1>8. \A n \in DOMAIN view : Read(op, new)[n] = IF n \in DOMAIN u THEN u[n] ELSE z[n]
  <2>1. \A n \in DOMAIN view : Read(op, new)[n] = IF n \in DOMAIN u THEN u[n] ELSE q[n]
    BY <1>1, <1>4, <1>7, RecordPut DEF q
  <2> QED  BY <1>5, <2>1
<1>9. Read(op, new)["status"] = y["status"] /\ "status" \in DOMAIN y /\ y["status"] # 0
  <2>1. "status" \in DOMAIN y /\ y["status"] # 0
    BY DEF Ended
  <2>2. "status" \notin DOMAIN u /\ "status" \in DOMAIN view
    BY <1>2, <1>6, SMTT(30)
  <2>3. z["status"] = y["status"]
    BY <2>1, <2>2 DEF Overwritten
  <2> HIDE DEF z, new
  <2> QED  BY <1>8, <2>1, <2>2, <2>3
<1>10. Filled(new)
  BY <1>9, StatusRead DEF Filled
<1> HIDE DEF z, new, view
<1>11. /\ Read(op, new)["bytes_completed"] =
            IF op \in {"nop", "drain", "batch"} THEN z["bytes_completed"]
            ELSE IF op = "compare" THEN x["bytes_completed"]
            ELSE z["bytes_completed"] + x["bytes_completed"]
       /\ op = "create_delta" =>
            Read(op, new)["delta_record_size"] = z["delta_record_size"] + x["delta_record_size"]
  <2>1. CASE op \in {"nop", "drain", "batch"}
    BY <1>2, <1>6, <1>8, <2>1
  <2>2. CASE op = "compare"
    BY <1>2, <1>6, <1>8, <2>2
  <2>3. CASE op = "create_delta"
    BY <1>2, <1>6, <1>8, <2>3
  <2>4. CASE op \notin {"nop", "drain", "batch", "compare", "create_delta"}
    BY <1>2, <1>6, <1>8, <2>4
  <2> QED  BY <2>1, <2>2, <2>3, <2>4
<1>12. \A n \in DOMAIN view \ {"bytes_completed", "delta_record_size"} : Read(op, new)[n] = z[n]
  BY <1>6, <1>8, SMTT(30)
<1> QED  BY <1>9, <1>10, <1>11, <1>12, Zenon DEF z, new, view

\* A device reads from the rewritten descriptor what is left, and all else as it was.
LEMMA UpdateSeen ==
    ASSUME NEW dsc, NEW rec, Viable(dsc, rec), Intact(dsc)
    PROVE  LET new == update_for_continuation(dsc, rec)
               op == OperationOf(dsc)
           IN  /\ Seen(new) = [op |-> op, arg |-> Left(op, Fields(dsc, op), Read(op, rec)),
                               flags |-> FlagNames(dsc)]
               /\ Intact(new) /\ OperationOf(new) = op
<1> DEFINE new == update_for_continuation(dsc, rec)
           op == OperationOf(dsc)
           view == View[op]
           x == Left(op, Fields(dsc, op), Read(op, rec))
           t == [dsc |-> dsc, rec |-> rec]
<1>1. op \in Operations /\ Viable(t.dsc, t.rec)
  BY DEF Viable
<1>2. OperationOf(new) = op
  <2>1. LET u == update_for_continuation(t.dsc, t.rec) IN OperationOf(u) = OperationOf(t.dsc)
    BY <1>1, UpdateViable
  <2> QED  BY <2>1
<1>3. new = PutAll(dsc, view, x)
  BY DEF update_for_continuation
<1>4. DOMAIN x = DOMAIN view /\ x = [n \in DOMAIN view |-> x[n]]
  BY DEF Left, Fields
<1>5. Layout(view)
  BY <1>1, ViewLayout
<1>6. \A n \in DOMAIN view : Clean(dsc, view[n])
  BY DEF Intact
<1>7. Clean(dsc, FlagsField)
  BY DEF Intact
<1> HIDE DEF x, view, new, op
<1>8. \A n \in DOMAIN view : Get(new, view[n]) = x[n] /\ Clean(new, view[n])
  <2> SUFFICES ASSUME NEW n \in DOMAIN view PROVE Get(new, view[n]) = x[n] /\ Clean(new, view[n])
    OBVIOUS
  <2>1. IsField(view[n]) /\ Clean(dsc, view[n])
        /\ \A m \in DOMAIN x : IsField(view[m]) /\ (m # n => Apart(view[n], view[m]))
    BY <1>4, <1>5, <1>6 DEF Layout
  <2> QED  BY <1>3, <1>4, <2>1, PutAllSame
<1>9. Get(new, FlagsField) = Get(dsc, FlagsField) /\ Clean(new, FlagsField)
  <2>1. IsField(FlagsField)
    BY SharedFields
  <2>2. \A n \in DOMAIN x : IsField(view[n]) /\ Apart(FlagsField, view[n])
    BY <1>4, <1>5, SharedFields DEF Layout, Apart, IsField
  <2> QED  BY <1>3, <1>7, <2>1, <2>2, PutAllOther
<1>10. FlagNames(new) = FlagNames(dsc)
  BY <1>9 DEF FlagNames, FlagsField
<1>11. Fields(new, op) = x
  <2>1. Fields(new, op) = [n \in DOMAIN view |-> x[n]]
    BY <1>8 DEF Fields, view
  <2> QED  BY <1>4, <2>1
<1>12. Intact(new)
  BY <1>2, <1>8, <1>9 DEF Intact, view
<1>13. Seen(new) = [op |-> op, arg |-> x, flags |-> FlagNames(dsc)]
  BY <1>2, <1>10, <1>11 DEF Seen
<1> QED  BY <1>2, <1>12, <1>13 DEF x, op, new

\* How an accepted operation stands: the accelerator has it, a device has executed it, or it was
\* taken up again after a fault.
Standing(want, path, dsc, rec) ==
    \/ Seen(dsc) = want /\ rec = Blank /\ path # "software"
    \/ Seen(dsc) = want /\ \E x \in KernelWrites(want) : rec = RecordOf(want.op, x)
    \/ /\ Seen(dsc) = want /\ path # "software"
       /\ \E x \in AcceleratorWrites(want) : rec = RecordOf(want.op, x)
    \/ /\ path = "automatic"
       /\ \E x \in Faults(want) :
            /\ Seen(dsc) = Remaining(want, x)
            /\ \E y \in KernelWrites(Remaining(want, x)) : rec = Merged(want.op, x, y)

\* What the software kernel ends is no fault.
LEMMA MergedClean ==
    ASSUME NEW want, Proper(want), NEW x \in Faults(want), NEW y \in KernelWrites(Remaining(want, x))
    PROVE  Filled(Merged(want.op, x, y)) /\ ~Faulted(Merged(want.op, x, y))
<1> DEFINE op == want.op
           rec == Merged(op, x, y)
<1>1. op \in Operations
  BY DEF Proper
<1>2. Ended(op, x) /\ DOMAIN x = DOMAIN RecordView[op]
  BY <1>1, AcceleratorEnds DEF AcceleratorWrites
<1>3. Remaining(want, x).op = op
  BY DEF Remaining
<1>4. Ended(op, y)
  BY <1>1, <1>3, KernelEnds
<1>5. Filled(rec) /\ Read(op, rec)["status"] = y["status"]
  BY <1>1, <1>2, <1>4, MergedReads
<1>6. Get(rec, any_completion_record.status) = y["status"]
  BY <1>1, <1>5, StatusRead
<1>7. \A n \in {Success, FalsePredicate, BatchError, DifError} : n % 128 # PageFault
  BY DEF Success, FalsePredicate, BatchError, DifError, PageFault
<1>8. ~Faulted(rec)
  BY <1>6, <1>7, KernelStatus DEF Faulted
<1> QED  BY <1>5, <1>8

\* A record that is not empty was written by kernels without a fault, or by the accelerator.
LEMMA StandingStatus ==
    ASSUME NEW want, Proper(want), NEW path, NEW dsc, NEW rec, Standing(want, path, dsc, rec)
    PROVE  LET status == Get(rec, any_completion_record.status)
           IN  /\ OperationOf(dsc) = want.op
               /\ \/ rec = Blank /\ ~Filled(rec) /\ path # "software" /\ Seen(dsc) = want
                  \/ /\ Filled(rec) /\ rec # Blank /\ ~Faulted(rec)
                     /\ \/ Seen(dsc) = want
                        \/ path = "automatic" /\ RestOf(want, Seen(dsc))
                  \/ /\ Filled(rec) /\ rec # Blank /\ Faulted(rec) /\ Seen(dsc) = want
                     /\ path # "software"
                     /\ \E x \in Faults(want) : rec = RecordOf(want.op, x)
<1> DEFINE op == want.op
           status == Get(rec, any_completion_record.status)
<1>1. op \in Operations
  BY DEF Proper
<1>2. ~Filled(Blank)
  BY BlankNotFilled
<1>3. \A w : Seen(dsc) = w => OperationOf(dsc) = w.op
  BY DEF Seen
<1>4. \A n \in {Success, FalsePredicate, BatchError, DifError, HardwareTimeout} :
            n # 0 /\ n % 128 # PageFault
  BY DEF Success, FalsePredicate, BatchError, DifError, HardwareTimeout, PageFault
<1>5. CASE Seen(dsc) = want /\ rec = Blank /\ path # "software"
  BY <1>2, <1>3, <1>5
<1>6. CASE Seen(dsc) = want /\ \E x \in KernelWrites(want) : rec = RecordOf(want.op, x)
  <2>1. PICK x \in KernelWrites(want) : rec = RecordOf(op, x)
    BY <1>6
  <2>2. Filled(rec) /\ status = x["status"]
    BY <1>1, <2>1, KernelEnds, RecordReads
  <2>3. ~Faulted(rec)
    BY <1>4, <2>2, KernelStatus DEF Faulted
  <2> QED  BY <1>2, <1>3, <1>6, <2>2, <2>3
<1>7. CASE /\ Seen(dsc) = want /\ path # "software"
           /\ \E x \in AcceleratorWrites(want) : rec = RecordOf(want.op, x)
  <2>1. PICK x \in AcceleratorWrites(want) : rec = RecordOf(op, x)
    BY <1>7
  <2>2. Filled(rec) /\ status = x["status"] /\ rec # Blank
    BY <1>1, <1>2, <2>1, AcceleratorEnds, RecordReads
  <2>3. \/ x["status"] \in {Success, FalsePredicate, BatchError, DifError, HardwareTimeout}
        \/ x \in Faults(want) /\ x["status"] \in {PageFault, PageFault + 128}
    BY <1>1, AcceleratorKinds, KernelStatus
  <2>4. CASE x["status"] \in {Success, FalsePredicate, BatchError, DifError, HardwareTimeout}
    <3>1. ~Faulted(rec)
      BY <1>4, <2>2, <2>4 DEF Faulted
    <3> QED  BY <1>3, <1>7, <2>2, <3>1
  <2>5. CASE x \in Faults(want) /\ x["status"] \in {PageFault, PageFault + 128}
    <3>1. Faulted(rec)
      BY <2>2, <2>5 DEF Faulted, PageFault
    <3> QED  BY <1>3, <1>7, <2>1, <2>2, <2>5, <3>1
  <2> QED  BY <2>3, <2>4, <2>5
<1>8. CASE /\ path = "automatic"
           /\ \E x \in Faults(want) :
                /\ Seen(dsc) = Remaining(want, x)
                /\ \E y \in KernelWrites(Remaining(want, x)) : rec = Merged(want.op, x, y)
  <2>0. PICK x \in Faults(want) :
            /\ Seen(dsc) = Remaining(want, x)
            /\ \E y \in KernelWrites(Remaining(want, x)) : rec = Merged(want.op, x, y)
    BY <1>8
  <2>1. PICK y \in KernelWrites(Remaining(want, x)) :
            Seen(dsc) = Remaining(want, x) /\ rec = Merged(op, x, y)
    BY <2>0
  <2>2. Remaining(want, x).op = op
    BY DEF Remaining
  <2>3. Filled(rec) /\ ~Faulted(rec)
    BY <2>1, MergedClean
  <2>4. RestOf(want, Seen(dsc))
    BY <2>1, FaultRest
  <2> QED  BY <1>2, <1>3, <1>8, <2>1, <2>2, <2>3, <2>4
<1> QED  BY <1>5, <1>6, <1>7, <1>8 DEF Standing

\* The accelerator completes what it took.
LEMMA FinishedStanding ==
    ASSUME NEW want, Proper(want), NEW path, NEW dsc, Standing(want, path, dsc, Blank),
           NEW x \in AcceleratorWrites(Seen(dsc))
    PROVE  Standing(want, path, dsc, PutAll(Blank, RecordView[OperationOf(dsc)], x))
<1>1. OperationOf(dsc) = want.op /\ path # "software" /\ Seen(dsc) = want
  BY StandingStatus, BlankNotFilled
<1> QED  BY <1>1 DEF Standing, RecordOf

\* The automatic path takes up what faulted.
LEMMA ContinuedStanding ==
    ASSUME NEW want, Proper(want), NEW t, Viable(t.dsc, t.rec), Intact(t.dsc),
           Standing(want, "automatic", t.dsc, t.rec), Faulted(t.rec), NEW u \in Continued(t)
    PROVE  Standing(want, "automatic", u.dsc, u.rec) /\ Intact(u.dsc) /\ ~Faulted(u.rec)
<1> DEFINE op == want.op
           new == update_for_continuation(t.dsc, t.rec)
<1>1. op \in Operations /\ want = [op |-> want.op, arg |-> want.arg, flags |-> want.flags]
  BY DEF Proper
<1>2. OperationOf(t.dsc) = op /\ Seen(t.dsc) = want
      /\ \E x \in Faults(want) : t.rec = RecordOf(op, x)
  <2>1. Filled(t.rec)
    BY DEF Faulted, Filled, PageFault
  <2> QED  BY <2>1, StandingStatus
<1>3. PICK x \in Faults(want) : t.rec = RecordOf(op, x)
  BY <1>2
<1>4. Ended(op, x) /\ DOMAIN x = DOMAIN RecordView[op]
  BY <1>1, AcceleratorEnds DEF AcceleratorWrites
<1>5. Read(op, t.rec) = x
  <2>1. x = [n \in DOMAIN RecordView[op] |-> x[n]]
    <3>1. \E b, k, s : x = FaultRecord(want, b, k, s)
      BY FaultParts
    <3> QED  BY <3>1 DEF FaultRecord
  <2>2. \A n \in DOMAIN RecordView[op] : Read(op, t.rec)[n] = x[n]
    BY <1>1, <1>3, <1>4, RecordReads
  <2>3. Read(op, t.rec) = [n \in DOMAIN RecordView[op] |-> Read(op, t.rec)[n]]
    BY DEF Read
  <2> QED  BY <2>1, <2>2, <2>3
<1>6. Fields(t.dsc, op) = want.arg /\ FlagNames(t.dsc) = want.flags
  <2>1. Seen(t.dsc) = [op |-> op, arg |-> Fields(t.dsc, op), flags |-> FlagNames(t.dsc)]
    BY <1>2 DEF Seen
  <2> HIDE DEF op
  <2>2. want.arg = Fields(t.dsc, op)
    BY <1>2, <2>1
  <2>3. want.flags = FlagNames(t.dsc)
    BY <1>2, <2>1
  <2> QED  BY <2>2, <2>3
<1>7. Seen(new) = Remaining(want, x) /\ Intact(new) /\ OperationOf(new) = op
  <2>1. /\ Seen(new) = [op |-> op, arg |-> Left(op, Fields(t.dsc, op), Read(op, t.rec)),
                        flags |-> FlagNames(t.dsc)]
        /\ Intact(new) /\ OperationOf(new) = op
    BY <1>2, UpdateSeen
  <2> QED  BY <1>5, <1>6, <2>1 DEF Remaining
<1> HIDE DEF new
<1>8. PICK y \in KernelWrites(Seen(new)) :
        u = [dsc |-> new,
             rec |-> accumulate_records(op, PutAll(t.rec, RecordView[op], y), t.rec)]
  BY <1>7 DEF Continued, new
<1>9. u.dsc = new /\ u.rec = Merged(op, x, y)
  BY <1>3, <1>8 DEF Merged
<1>10. ~Faulted(u.rec)
  BY <1>3, <1>7, <1>8, <1>9, MergedClean
<1> QED  BY <1>3, <1>7, <1>8, <1>9, <1>10 DEF Standing

\* A note of a delta, and the bad block of a check, as kernels record them.
Note(want, k, r) ==
    [delta_record_size |-> 10 * k, result |-> r, status |-> DeltaStatus(want, r)]
BadBlock(want, k, e) ==
    [result |-> e, bytes_completed |-> k * SourceStep(want), status |-> DifError]
Difference(want, i, r) ==
    [bytes_completed |-> i, result |-> r, status |-> CompareStatus(want, r)]

\* What the kernels with several outcomes record.
LEMMA KernelKinds ==
    ASSUME NEW want, NEW x \in KernelWrites(want)
    PROVE  /\ want.op \in {"compare", "compare_pattern"} =>
                \/ x = Difference(want, 0, 0)
                \/ \E i \in 0 .. want.arg["transfer_size"] - 1 : x = Difference(want, i, 1)
           /\ want.op = "create_delta" =>
                LET words == want.arg["transfer_size"] \div 8
                    room == want.arg["maximum_delta_record_size"] \div 10
                IN  \/ x = Note(want, 0, 0)
                    \/ \E k \in 1 .. (IF words < room THEN words ELSE room) : x = Note(want, k, 1)
                    \/ words > room /\ x = Note(want, room, 2)
           /\ want.op \in {"dif_check", "dif_strip", "dif_update"} =>
                \/ x = [result |-> 0, bytes_completed |-> 0, status |-> Success]
                \/ \E e \in DifFaults :
                    \E k \in 0 .. (want.arg["transfer_size"] \div SourceStep(want)) - 1 :
                        x = BadBlock(want, k, e)
           /\ want.op = "batch" =>
                \/ x = [bytes_completed |-> want.arg["descriptors_count"], status |-> Success]
                \/ \E k \in 0 .. want.arg["descriptors_count"] - 1 :
                        x = [bytes_completed |-> k, status |-> BatchError]
           /\ want.op \in {"crc", "copy_crc"} =>
                x = [crc_value |-> Checksum(want.arg["crc_seed"], want.arg["source_address"],
                                            want.arg["transfer_size"]),
                     status |-> Success]
           /\ want.op = "dif_insert" => x = [bytes_completed |-> 0, status |-> Success]
           /\ want.op \notin {"compare", "compare_pattern", "create_delta", "crc", "copy_crc",
                              "dif_check", "dif_strip", "dif_update", "dif_insert", "batch"} =>
                x = [status |-> Success]
<1>1. CASE want.op \in {"compare", "compare_pattern"}
  <2>1. x \in compare(want)
    BY <1>1 DEF KernelWrites
  <2> QED  BY <1>1, <2>1, Zenon DEF compare, Difference
<1>2. CASE want.op = "create_delta"
  <2>1. x \in create_delta(want)
    BY <1>2 DEF KernelWrites
  <2> DEFINE words == want.arg["transfer_size"] \div 8
             room == want.arg["maximum_delta_record_size"] \div 10
  <2>2. x \in {Note(want, 0, 0)}
             \cup {Note(want, k, 1) : k \in 1 .. (IF words < room THEN words ELSE room)}
             \cup (IF words > room THEN {Note(want, room, 2)} ELSE {})
    BY <2>1, Zenon DEF create_delta, Note
  <2> HIDE DEF words, room
  <2>3. \/ x = Note(want, 0, 0)
        \/ \E k \in 1 .. (IF words < room THEN words ELSE room) : x = Note(want, k, 1)
        \/ words > room /\ x = Note(want, room, 2)
    BY <2>2, Zenon
  <2> QED  BY <1>2, <2>3, Zenon DEF words, room
<1>3. CASE want.op \in {"dif_check", "dif_strip", "dif_update"}
  <2>1. x \in dif_check(want)
    BY <1>3 DEF KernelWrites
  <2> DEFINE top == (want.arg["transfer_size"] \div SourceStep(want)) - 1
             good == [result |-> 0, bytes_completed |-> 0, status |-> Success]
  <2>2. x \in {good} \cup {BadBlock(want, k, e) : e \in DifFaults, k \in 0 .. top}
    BY <2>1 DEF dif_check, BadBlock
  <2> HIDE DEF top, good
  <2>3. x = good \/ \E e \in DifFaults : \E k \in 0 .. top : x = BadBlock(want, k, e)
    BY <2>2
  <2> QED  BY <1>3, <2>3, Zenon DEF top, good
<1>4. CASE want.op = "batch"
  <2>1. x \in batch(want)
    BY <1>4 DEF KernelWrites
  <2> QED  BY <1>4, <2>1, Zenon DEF batch
<1>5. CASE want.op \in {"crc", "copy_crc"}
  <2>1. x \in crc(want)
    BY <1>5 DEF KernelWrites
  <2> QED  BY <1>5, <2>1, Zenon DEF crc
<1>6. CASE want.op = "dif_insert"
  <2>1. x \in dif_insert
    BY <1>6 DEF KernelWrites
  <2> QED  BY <1>6, <2>1, Zenon DEF dif_insert
<1>7. CASE want.op \notin {"compare", "compare_pattern", "create_delta", "crc", "copy_crc",
                          "dif_check", "dif_strip", "dif_update", "dif_insert", "batch"}
  <2>1. x \in {[status |-> Success]}
    BY <1>7 DEF KernelWrites
  <2> QED  BY <1>7, <2>1, Zenon
<1> QED  BY <1>1, <1>2, <1>3, <1>4, <1>5, <1>6, <1>7

\* The numbers that kernels write.
LEMMA KernelValues ==
    ASSUME NEW want, Proper(want), NEW x \in KernelWrites(want)
    PROVE  /\ \A n \in DOMAIN x : x[n] \in Nat
           /\ want.op \in {"crc", "copy_crc"} => x["crc_value"] \in Seeds
<1> DEFINE op == want.op
           w == want.arg
           names == DOMAIN View[op]
<1>0. x["status"] \in Nat
  BY KernelStatus DEF Success, FalsePredicate, BatchError, DifError
<1>1. op \in Operations /\ \A n \in names : w[n] \in Nat
  BY DEF Proper
<1>2. CASE op \in {"compare", "compare_pattern"}
  <2>1. DOMAIN x = {"bytes_completed", "result", "status"}
        /\ x["bytes_completed"] \in Nat /\ x["result"] \in Nat
    BY <1>2 DEF KernelWrites, compare
  <2> QED  BY <1>0, <1>2, <2>1
<1>3. CASE op = "create_delta"
  <2>1. {"transfer_size", "maximum_delta_record_size"} \subseteq names
    BY <1>3, ViewNames
  <2> DEFINE words == w["transfer_size"] \div 8
             room == w["maximum_delta_record_size"] \div 10
  <2>2. words \in Nat /\ room \in Nat
    BY <1>1, <2>1
  <2>3. \E k \in Nat : \E r \in {0, 1, 2} : x = Note(want, k, r)
    <3>1. \/ x = Note(want, 0, 0)
          \/ \E k \in 1 .. (IF words < room THEN words ELSE room) : x = Note(want, k, 1)
          \/ words > room /\ x = Note(want, room, 2)
      BY <1>3, KernelKinds
    <3> HIDE DEF words, room
    <3> QED  BY <2>2, <3>1
  <2>4. DOMAIN x = {"delta_record_size", "result", "status"}
        /\ x["delta_record_size"] \in Nat /\ x["result"] \in Nat
    BY <2>3 DEF Note
  <2> QED  BY <1>0, <1>3, <2>4
<1>4. CASE op \in {"crc", "copy_crc"}
  <2>1. {"source_address", "transfer_size", "crc_seed"} \subseteq names
    BY <1>4, ViewNames
  <2>2. x = [crc_value |-> Checksum(w["crc_seed"], w["source_address"], w["transfer_size"]),
             status |-> Success]
    BY <1>4 DEF KernelWrites, crc
  <2>3. w["crc_seed"] \in Seeds /\ w["source_address"] \in Nat /\ w["transfer_size"] \in Nat
    BY <1>1, <2>1 DEF Proper
  <2>4. Checksum(w["crc_seed"], w["source_address"], w["transfer_size"]) \in Seeds
    BY <2>3, ChecksumOf
  <2>5. DOMAIN x = {"crc_value", "status"} /\ x["crc_value"] \in Seeds
    BY <2>2, <2>4
  <2> QED  BY <1>0, <2>5 DEF Seeds
<1>5. CASE op \in {"dif_check", "dif_strip", "dif_update"}
  <2>1. {"dif_flags", "transfer_size"} \subseteq names
    BY <1>5, DifNames
  <2>2. SourceStep(want) \in {512, 520, 528, 4096, 4104, 4112}
    BY <1>1, <2>1, BlockStep
  <2> DEFINE top == (w["transfer_size"] \div SourceStep(want)) - 1
  <2>3. \/ x = [result |-> 0, bytes_completed |-> 0, status |-> Success]
        \/ \E e \in {1, 8} : \E k \in 0 .. top : x = BadBlock(want, k, e)
    BY <1>5, KernelKinds DEF DifFaults
  <2> HIDE DEF top
  <2>4. DOMAIN x = {"result", "bytes_completed", "status"}
        /\ x["result"] \in Nat /\ x["bytes_completed"] \in Nat
    BY <2>2, <2>3 DEF BadBlock
  <2> QED  BY <1>0, <1>5, <2>4
<1>6. CASE op = "dif_insert"
  BY <1>0, <1>6 DEF KernelWrites, dif_insert
<1>7. CASE op = "batch"
  <2>1. "descriptors_count" \in names
    BY <1>7, ViewNames
  <2>2. w["descriptors_count"] \in Nat
    BY <1>1, <2>1
  <2>3. DOMAIN x = {"bytes_completed", "status"} /\ x["bytes_completed"] \in Nat
    BY <1>7, <2>2 DEF KernelWrites, batch
  <2> QED  BY <1>0, <1>7, <2>3
<1>8. CASE op \notin {"compare", "compare_pattern", "create_delta", "crc", "copy_crc",
                      "dif_check", "dif_strip", "dif_update", "dif_insert", "batch"}
  BY <1>0, <1>8 DEF KernelWrites
<1> QED  BY <1>2, <1>3, <1>4, <1>5, <1>6, <1>7, <1>8

\* The numbers of a fault.
LEMMA FaultValues ==
    ASSUME NEW want, Proper(want), NEW x \in Faults(want)
    PROVE  /\ \A n \in DOMAIN x : x[n] \in Nat
           /\ want.op \in {"crc", "copy_crc"} => x["crc_value"] \in Seeds
<1> DEFINE op == want.op
           w == want.arg
           names == DOMAIN View[op]
<1>1. op \in Faultable /\ op \in Operations /\ \A n \in names : w[n] \in Nat
  BY FaultPlaces DEF Proper
<1>2. PICK b \in 0 .. w[Extent(op)] - 1, k \in Nat, s \in {PageFault, PageFault + 128} :
        x = FaultRecord(want, b, k, s)
  BY FaultPlaces
<1>3. /\ DOMAIN x = DOMAIN RecordView[op]
      /\ x["status"] = s /\ x["bytes_completed"] = b
      /\ x["result"] = IF op = "mem_move" THEN k ELSE 0
      /\ "crc_value" \in DOMAIN x =>
            x["crc_value"] = Checksum(w.crc_seed, w.source_address, b)
      /\ "delta_record_size" \in DOMAIN x => x["delta_record_size"] = 10 * k
      /\ \A n \in TagFields \cap DOMAIN x : x[n] = TagAfter(want, n, b)
      /\ \A n \in DOMAIN x \ (TagFields \cup {"status", "bytes_completed", "result",
               "fault_address", "crc_value", "delta_record_size"}) : x[n] = w[n]
      /\ x["fault_address"] = 4096
  BY <1>1, <1>2, FaultFields
<1>4. b \in Nat /\ s \in Nat
  BY <1>2 DEF PageFault
<1>5. op \in {"crc", "copy_crc"} => x["crc_value"] \in Seeds
  <2>1. op \in {"crc", "copy_crc"} =>
            {"source_address", "crc_seed"} \subseteq names /\ "crc_value" \in DOMAIN RecordView[op]
    BY <1>1, ViewNames, RecordNames
  <2>2. op \in {"crc", "copy_crc"} => w["crc_seed"] \in Seeds /\ w["source_address"] \in Nat
    BY <1>1, <2>1 DEF Proper
  <2>3. b \in 0 .. b
    BY <1>4
  <2>4. op \in {"crc", "copy_crc"} => Checksum(w["crc_seed"], w["source_address"], b) \in Seeds
    BY <1>4, <2>2, <2>3, ChecksumOf
  <2> QED  BY <1>3, <2>1, <2>4
<1>6. /\ \A n \in DOMAIN RecordView[op] : n \in names \cup {"status", "bytes_completed", "result",
               "fault_address", "crc_value", "delta_record_size"}
      /\ \A n \in TagFields \cap DOMAIN RecordView[op] : n \in names /\ "dif_flags" \in names
      /\ "crc_value" \in DOMAIN RecordView[op] => op \in {"crc", "copy_crc"}
  <2>1. CASE op \in {"dif_check", "dif_insert", "dif_strip", "dif_update"}
    BY <1>1, <2>1, RecordNames, DifNames DEF TagFields
  <2>2. CASE op \notin {"dif_check", "dif_insert", "dif_strip", "dif_update"}
    BY <1>1, <2>2, RecordNames DEF TagFields
  <2> QED  BY <2>1, <2>2
<1>7. \A n \in TagFields \cap DOMAIN RecordView[op] : TagAfter(want, n, b) \in Nat
  <2> SUFFICES ASSUME NEW n \in TagFields \cap DOMAIN RecordView[op]
               PROVE  TagAfter(want, n, b) \in Nat
    OBVIOUS
  <2>1. w["dif_flags"] \in Nat /\ w[n] \in Nat
    BY <1>1, <1>6
  <2>2. SourceStep(want) \in {512, 520, 528, 4096, 4104, 4112}
    BY <2>1, BlockStep
  <2> QED  BY <1>4, <2>1, <2>2 DEF TagAfter
<1>8. \A n \in DOMAIN x : x[n] \in Nat
  <2> HIDE DEF op, w, names
  <2> SUFFICES ASSUME NEW n \in DOMAIN x PROVE x[n] \in Nat
    OBVIOUS
  <2>1. CASE n \in {"status", "bytes_completed", "result", "fault_address", "delta_record_size"}
    BY <1>2, <1>3, <1>4, <2>1
  <2>2. CASE n = "crc_value"
    BY <1>3, <1>5, <1>6, <2>2 DEF Seeds
  <2>3. CASE n \in TagFields
    BY <1>3, <1>7, <2>3
  <2>4. CASE n \notin TagFields \cup {"status", "bytes_completed", "result",
               "fault_address", "crc_value", "delta_record_size"}
    BY <1>1, <1>3, <1>6, <2>4
  <2> QED  BY <2>1, <2>2, <2>3, <2>4
<1> QED  BY <1>5, <1>8

\* The numbers in a record, whoever wrote it.
LEMMA StandingValues ==
    ASSUME NEW want, Proper(want), NEW path, NEW dsc, NEW rec, Standing(want, path, dsc, rec)
    PROVE  /\ \A n \in DOMAIN RecordView[want.op] : Read(want.op, rec)[n] \in Nat
           /\ want.op \in {"crc", "copy_crc"} => Read(want.op, rec)["crc_value"] \in Seeds
<1> DEFINE op == want.op
           view == RecordView[op]
<1>0. 0 \in Seeds
  BY DEF Seeds, CrcRange
<1>1. op \in Operations /\ (op \in {"crc", "copy_crc"} => "crc_value" \in DOMAIN view)
  BY RecordNames DEF Proper
<1>2. /\ \A n \in DOMAIN view : n # "bytes_completed" /\ n # "delta_record_size" =>
                n \in DOMAIN view \ {"bytes_completed", "delta_record_size"}
      /\ "bytes_completed" \in DOMAIN view /\ "crc_value" # "bytes_completed"
      /\ "delta_record_size" \in DOMAIN view => op = "create_delta"
  BY <1>1, RecordNames
<1>3. CASE rec = Blank
  BY <1>0, <1>1, <1>3, BlankTidy
<1>4. ASSUME NEW x, Ended(op, x), rec = RecordOf(op, x), \A n \in DOMAIN x : x[n] \in Nat,
             op \in {"crc", "copy_crc"} => "crc_value" \notin DOMAIN x \/ x["crc_value"] \in Seeds
      PROVE  /\ \A n \in DOMAIN view : Read(op, rec)[n] \in Nat
             /\ op \in {"crc", "copy_crc"} => Read(op, rec)["crc_value"] \in Seeds
  BY <1>0, <1>1, <1>4, RecordReads
<1>5. CASE \E x \in KernelWrites(want) : rec = RecordOf(op, x)
  <2>1. PICK x \in KernelWrites(want) : rec = RecordOf(op, x)
    BY <1>5
  <2> QED  BY <1>1, <1>4, <2>1, KernelEnds, KernelValues
<1>6. CASE \E x \in AcceleratorWrites(want) : rec = RecordOf(op, x)
  <2>1. PICK x \in AcceleratorWrites(want) : rec = RecordOf(op, x)
    BY <1>6
  <2>2. Ended(op, x)
    BY <1>1, AcceleratorEnds
  <2>3. \A n \in DOMAIN Done(want) : Done(want)[n] \in Nat /\ (n = "crc_value" => Done(want)[n] = 0)
    <3>1. Arg(want, "transfer_size") \in Nat
      BY DEF Arg, Proper
    <3> QED  BY <3>1 DEF Done
  <2>4. CASE \E y \in KernelWrites(want) : x = Joined(y, Done(want))
    <3>1. PICK y \in KernelWrites(want) : x = Joined(y, Done(want))
      BY <2>4
    <3>2. /\ \A n \in DOMAIN y : y[n] \in Nat
          /\ op \in {"crc", "copy_crc"} => y["crc_value"] \in Seeds
      BY KernelValues
    <3>3. \A n \in DOMAIN x : x[n] \in Nat
      BY <2>3, <3>1, <3>2 DEF Joined
    <3>4. op \in {"crc", "copy_crc"} => "crc_value" \notin DOMAIN x \/ x["crc_value"] \in Seeds
      BY <1>0, <2>3, <3>1, <3>2 DEF Joined
    <3> QED  BY <1>4, <2>1, <2>2, <3>3, <3>4
  <2>5. CASE x = Breakdown(want)
    <3>1. \A n \in DOMAIN x : x[n] \in Nat /\ (n = "crc_value" => x[n] = 0)
      BY <2>5 DEF Breakdown, HardwareTimeout
    <3> QED  BY <1>0, <1>4, <2>1, <2>2, <3>1
  <2>6. CASE x \in Faults(want)
    BY <1>4, <2>1, <2>2, <2>6, FaultValues
  <2> QED  BY <1>1, <2>4, <2>5, <2>6, AcceleratorKinds
<1>7. CASE \E x \in Faults(want) : \E y \in KernelWrites(Remaining(want, x)) : rec = Merged(op, x, y)
  <2>0. PICK x \in Faults(want) : \E y \in KernelWrites(Remaining(want, x)) : rec = Merged(op, x, y)
    BY <1>7
  <2>1. PICK y \in KernelWrites(Remaining(want, x)) : rec = Merged(op, x, y)
    BY <2>0
  <2>2. Ended(op, x) /\ DOMAIN x = DOMAIN view
    BY <1>1, AcceleratorEnds DEF AcceleratorWrites
  <2>3. Remaining(want, x).op = op /\ Proper(Remaining(want, x))
    BY FaultRest DEF Remaining
  <2>4. Ended(op, y)
    BY <1>1, <2>3, KernelEnds
  <2>5. /\ \A n \in DOMAIN y : y[n] \in Nat
        /\ op \in {"crc", "copy_crc"} => y["crc_value"] \in Seeds
    BY <2>3, KernelValues
  <2>6. /\ \A n \in DOMAIN x : x[n] \in Nat
        /\ op \in {"crc", "copy_crc"} => x["crc_value"] \in Seeds
    BY FaultValues
  <2> DEFINE z == Overwritten(op, x, y)
  <2>7. /\ \A n \in DOMAIN view : z[n] \in Nat
        /\ op \in {"crc", "copy_crc"} => z["crc_value"] \in Seeds
    BY <1>1, <2>2, <2>5, <2>6 DEF Overwritten
  <2>8. /\ Read(op, rec)["bytes_completed"] =
             IF op \in {"nop", "drain", "batch"} THEN z["bytes_completed"]
             ELSE IF op = "compare" THEN x["bytes_completed"]
             ELSE z["bytes_completed"] + x["bytes_completed"]
        /\ op = "create_delta" =>
             Read(op, rec)["delta_record_size"] = z["delta_record_size"] + x["delta_record_size"]
        /\ \A n \in DOMAIN view \ {"bytes_completed", "delta_record_size"} : Read(op, rec)[n] = z[n]
    BY <1>1, <2>1, <2>2, <2>4, MergedReads
  <2> HIDE DEF z, view, op
  <2>9. Read(op, rec)["bytes_completed"] \in Nat
    <3>1. z["bytes_completed"] \in Nat /\ x["bytes_completed"] \in Nat
      BY <1>2, <2>2, <2>6, <2>7
    <3> QED  BY <2>8, <3>1
  <2>10. "delta_record_size" \in DOMAIN view => Read(op, rec)["delta_record_size"] \in Nat
    BY <1>2, <2>2, <2>6, <2>7, <2>8
  <2>11. op \in {"crc", "copy_crc"} => Read(op, rec)["crc_value"] \in Seeds
    BY <1>1, <1>2, <2>7, <2>8
  <2>12. \A n \in DOMAIN view : Read(op, rec)[n] \in Nat
    BY <1>2, <2>7, <2>8, <2>9, <2>10
  <2> QED  BY <2>11, <2>12 DEF view, op
<1> QED  BY <1>3, <1>5, <1>6, <1>7 DEF Standing
-----------------------------------------------------------------------------
(* Outcomes. *)

\* What callers may see of an operation.
LEMMA PartsOf ==
    ASSUME NEW op \in Operations
    PROVE  Parts(op) =
            CASE op \in {"compare", "compare_pattern", "dif_check", "dif_strip", "dif_update"} ->
                    {"status", "result", "bytes_completed"}
              [] op = "create_delta" -> {"status", "result", "bytes_completed", "delta_record_size"}
              [] op \in {"crc", "copy_crc"} -> {"status", "crc_value"}
              [] op \in {"dif_insert", "batch"} -> {"status", "bytes_completed"}
              [] op = "mem_move" -> {"status", "result"}
              [] OTHER -> {"status"}
<1>1. CASE op \in {"compare", "compare_pattern"}
  BY <1>1 DEF Parts, JobParts, ResultParts
<1>2. CASE op \in {"dif_check", "dif_strip", "dif_update"}
  BY <1>2 DEF Parts, JobParts, ResultParts
<1>3. CASE op = "create_delta"
  BY <1>3 DEF Parts, JobParts, ResultParts
<1>4. CASE op \in {"crc", "copy_crc"}
  BY <1>4 DEF Parts, JobParts, ResultParts
<1>5. CASE op = "dif_insert"
  BY <1>5 DEF Parts, JobParts, ResultParts
<1>6. CASE op = "batch"
  BY <1>6 DEF Parts, JobParts, ResultParts
<1>7. CASE op = "mem_move"
  BY <1>7 DEF Parts, JobParts, ResultParts
<1>8. CASE op \in {"nop", "drain", "fill", "apply_delta", "dualcast", "cache_flush"}
  BY <1>8 DEF Parts, JobParts, ResultParts
<1> QED  BY <1>1, <1>2, <1>3, <1>4, <1>5, <1>6, <1>7, <1>8 DEF Operations, operation

\* Callers tell these statuses apart.
LEMMA OwnStatus ==
    /\ to_own_status(Success % 64) = "ok" /\ to_own_status(FalsePredicate % 64) = "false_predicate"
    /\ to_own_status(Success) = "ok" /\ to_own_status(FalsePredicate) = "false_predicate"
    /\ to_own_status(BatchError % 64) = "error" /\ to_own_status(DifError % 64) = "error"
    /\ \A want, r : CompareStatus(want, r) \in {Success, FalsePredicate}
    /\ \A want, r : DeltaStatus(want, r) \in {Success, FalsePredicate}
<1>1. 1 % 64 = 1 /\ 2 % 64 = 2 /\ 5 % 64 = 5 /\ 9 % 64 = 9
  OBVIOUS
<1>2. \A want, r : CompareStatus(want, r) \in {Success, FalsePredicate}
  BY DEF CompareStatus
<1>3. \A want, r : DeltaStatus(want, r) \in {Success, FalsePredicate}
  BY DEF DeltaStatus
<1> QED  BY <1>1, <1>2, <1>3
         DEF to_own_status, Success, FalsePredicate, BatchError, DifError, PageFault

\* What the caller sees of a comparison.
LEMMA CompareEnds ==
    ASSUME NEW want, want.op \in {"compare", "compare_pattern"}, NEW twice,
           "transfer_size" \in DOMAIN want.arg, want.arg["transfer_size"] \in Nat,
           NEW r, r["result"] \in {0, 1}, r["status"] = CompareStatus(want, r["result"]),
           r["bytes_completed"] \in 0 .. want.arg["transfer_size"],
           r["result"] = 1 => r["bytes_completed"] < want.arg["transfer_size"]
    PROVE  Visible(want.op, r) \in Ends(want, twice)
<1> DEFINE n == Arg(want, "transfer_size")
           v == [status |-> to_own_status(r["status"] % 64), result |-> r["result"],
                 bytes_completed |-> r["bytes_completed"]]
<1>1. want.op \in Operations
  BY DEF Operations, operation
<1>2. Visible(want.op, r) = v
  BY <1>1, PartsOf DEF Visible
<1>3. n = want.arg["transfer_size"]
  BY DEF Arg
<1>4. to_own_status(r["status"] % 64) = to_own_status(CompareStatus(want, r["result"]))
      /\ to_own_status(r["status"] % 64) \in {"ok", "false_predicate"}
  BY OwnStatus
<1>5. v \in [status : {"ok", "false_predicate"}, result : {0, 1}, bytes_completed : 0 .. n]
      /\ v.status = to_own_status(CompareStatus(want, v.result))
      /\ (v.result = 1 => v.bytes_completed < n)
  BY <1>3, <1>4
<1> HIDE DEF v, n
<1>6. v \in {x \in [status : {"ok", "false_predicate"}, result : {0, 1}, bytes_completed : 0 .. n] :
                    /\ x.status = to_own_status(CompareStatus(want, x.result))
                    /\ x.result = 1 => x.bytes_completed < n}
  BY <1>5
<1> QED  BY <1>2, <1>6 DEF Ends, n

\* Of a delta.
LEMMA DeltaEnds ==
    ASSUME NEW want, want.op = "create_delta", NEW twice \in BOOLEAN,
           "transfer_size" \in DOMAIN want.arg, want.arg["transfer_size"] \in Nat,
           want.arg["maximum_delta_record_size"] \in Nat,
           NEW r, r["result"] \in {0, 1, 2}, r["status"] = DeltaStatus(want, r["result"]),
           r["bytes_completed"] \in 0 .. 2 * want.arg["transfer_size"],
           NEW k \in Nat, r["delta_record_size"] = 10 * k,
           k <= want.arg["transfer_size"] \div 8,
           10 * k <= want.arg["maximum_delta_record_size"],
           r["result"] = 0 => k = 0 \/ twice,
           r["result"] = 1 => k > 0,
           r["result"] = 2 => 10 * k = want.arg["maximum_delta_record_size"]
    PROVE  Visible(want.op, r) \in Ends(want, twice)
<1> DEFINE n == Arg(want, "transfer_size")
           max == want.arg["maximum_delta_record_size"]
           v == [status |-> to_own_status(r["status"] % 64), result |-> r["result"],
                 bytes_completed |-> r["bytes_completed"],
                 delta_record_size |-> r["delta_record_size"]]
<1>1. want.op \in Operations
  BY DEF Operations, operation
<1>2. Visible(want.op, r) = v
  BY <1>1, PartsOf DEF Visible
<1>3. n = want.arg["transfer_size"]
  BY DEF Arg
<1>4. to_own_status(r["status"] % 64) = to_own_status(DeltaStatus(want, r["result"]))
      /\ to_own_status(r["status"] % 64) \in {"ok", "false_predicate"}
  BY OwnStatus
<1>5. r["delta_record_size"] \in {i \in 0 .. max : i % 10 = 0}
      /\ r["delta_record_size"] \div 10 = k
  BY SMTT(30)
<1> HIDE DEF n, max
<1>6. /\ v \in [status : {"ok", "false_predicate"}, result : {0, 1, 2}, bytes_completed : 0 .. 2 * n,
               delta_record_size : {i \in 0 .. max : i % 10 = 0}]
      /\ v.status = to_own_status(DeltaStatus(want, v.result))
  BY <1>3, <1>4, <1>5
<1>7. /\ v.delta_record_size \div 10 <= n \div 8
      /\ v.result = 0 => v.delta_record_size = 0 \/ twice
      /\ v.result = 1 => v.delta_record_size > 0
      /\ v.result = 2 => v.delta_record_size = max
  BY <1>3, <1>5 DEF max
<1> HIDE DEF v
<1> QED  BY <1>2, <1>6, <1>7 DEF Ends, n, max

\* Of a checksum.
LEMMA CrcEnds ==
    ASSUME NEW want, want.op \in {"crc", "copy_crc"}, NEW twice,
           "transfer_size" \in DOMAIN want.arg,
           NEW r, r["status"] = Success,
           r["crc_value"] = Checksum(want.arg["crc_seed"], want.arg["source_address"],
                                     want.arg["transfer_size"])
    PROVE  Visible(want.op, r) \in Ends(want, twice)
<1>1. want.op \in Operations
  BY DEF Operations, operation
<1>2. Visible(want.op, r) = [status |-> "ok", crc_value |-> r["crc_value"]]
  BY <1>1, PartsOf, OwnStatus DEF Visible
<1> QED  BY <1>2 DEF Ends, Arg

\* Of a check of protected blocks.
LEMMA CheckEnds ==
    ASSUME NEW want, want.op \in {"dif_check", "dif_strip", "dif_update"}, NEW twice,
           "transfer_size" \in DOMAIN want.arg, want.arg["transfer_size"] \in Nat,
           NEW r, NEW k \in 0 .. want.arg["transfer_size"] \div SourceStep(want),
           r["bytes_completed"] = k * SourceStep(want),
           \/ r["status"] = Success /\ r["result"] = 0
           \/ /\ r["status"] = DifError /\ r["result"] \in DifFaults
              /\ k * SourceStep(want) < want.arg["transfer_size"]
    PROVE  Visible(want.op, r) \in Ends(want, twice)
<1> DEFINE n == Arg(want, "transfer_size")
           v == [status |-> to_own_status(r["status"] % 64), result |-> r["result"],
                 bytes_completed |-> r["bytes_completed"]]
           counts == {i * SourceStep(want) : i \in 0 .. n \div SourceStep(want)}
<1>1. want.op \in Operations
  BY DEF Operations, operation
<1>2. Visible(want.op, r) = v
  BY <1>1, PartsOf DEF Visible
<1>3. n = want.arg["transfer_size"]
  BY DEF Arg
<1>4. \/ v.status = "ok" /\ v.result = 0
      \/ v.status = "error" /\ v.result \in DifFaults /\ v.bytes_completed < n
  BY <1>3, OwnStatus
<1>5. v.bytes_completed \in counts
  BY <1>3
<1>6. 0 \notin DifFaults
  BY DEF DifFaults
<1>7. v \in [status : {"ok", "error"}, result : {0} \cup DifFaults, bytes_completed : counts]
  BY <1>4, <1>5
<1> HIDE DEF v, n, counts
<1> QED  BY <1>2, <1>4, <1>6, <1>7 DEF Ends, n, counts

\* Of the others.
LEMMA OtherEnds ==
    ASSUME NEW want, want.op \in Operations, NEW twice,
           NEW r, r["status"] = Success
    PROVE  /\ want.op = "mem_move" /\ r["result"] \in {0, 1} => Visible(want.op, r) \in Ends(want, twice)
           /\ want.op = "dif_insert" /\ "transfer_size" \in DOMAIN want.arg
              /\ (\E k \in 0 .. want.arg["transfer_size"] \div SourceStep(want) :
                    r["bytes_completed"] = k * SourceStep(want)) =>
                        Visible(want.op, r) \in Ends(want, twice)
           /\ want.op \in {"nop", "drain", "fill", "apply_delta", "dualcast", "cache_flush"} =>
                Visible(want.op, r) \in Ends(want, twice)
<1>1. CASE want.op = "mem_move"
  <2>1. Visible(want.op, r) = [status |-> "ok", result |-> r["result"]]
    BY <1>1, PartsOf, OwnStatus DEF Visible
  <2> QED  BY <1>1, <2>1 DEF Ends
<1>2. CASE want.op = "dif_insert"
  <2>1. Visible(want.op, r) = [status |-> "ok", bytes_completed |-> r["bytes_completed"]]
    BY <1>2, PartsOf, OwnStatus DEF Visible
  <2> DEFINE counts(n) == {k * SourceStep(want) : k \in 0 .. n \div SourceStep(want)}
  <2>2. Ends(want, twice) = [status : {"ok"}, bytes_completed : counts(Arg(want, "transfer_size"))]
    BY <1>2 DEF Ends
  <2>3. "transfer_size" \in DOMAIN want.arg =>
            Ends(want, twice) = [status : {"ok"}, bytes_completed : counts(want.arg["transfer_size"])]
    BY <2>2 DEF Arg
  <2> QED  BY <1>2, <2>1, <2>3
<1>3. CASE want.op \in {"nop", "drain", "fill", "apply_delta", "dualcast", "cache_flush"}
  <2>1. Visible(want.op, r) = [status |-> "ok"]
    BY <1>3, PartsOf, OwnStatus DEF Visible
  <2>2. Ends(want, twice) = [status : {"ok"}]
    BY <1>3 DEF Ends
  <2> QED  BY <1>3, <2>1, <2>2
<1> QED  BY <1>1, <1>2, <1>3

\* Of a batch, which does not fault itself.
LEMMA BatchEnds ==
    ASSUME NEW want, want.op = "batch", NEW twice, want.arg["descriptors_count"] \in Nat,
           NEW r, r["bytes_completed"] \in 0 .. want.arg["descriptors_count"],
           \/ r["status"] = Success /\ r["bytes_completed"] = want.arg["descriptors_count"]
           \/ r["status"] = BatchError /\ r["bytes_completed"] < want.arg["descriptors_count"]
    PROVE  Visible(want.op, r) \in Ends(want, twice)
<1> DEFINE n == want.arg["descriptors_count"]
           v == [status |-> to_own_status(r["status"] % 64), bytes_completed |-> r["bytes_completed"]]
<1>1. Visible(want.op, r) = v
  BY PartsOf DEF Visible, Operations, operation
<1>2. v \in [status : {"ok", "error"}, bytes_completed : 0 .. n]
      /\ (v.status = "ok" <=> v.bytes_completed = n)
  BY OwnStatus
<1> HIDE DEF v, n
<1> QED  BY <1>1, <1>2 DEF Ends, n

\* The sizes that validation asks for, without which a delta does not fill its buffer.
Sized(want) == want.op = "create_delta" => want.arg["maximum_delta_record_size"] % 10 = 0

\* An operation that was executed in one piece, with the fields that no kernel writes 0 or as the
\* accelerator leaves them.
LEMMA OnePiece ==
    ASSUME NEW want, Proper(want), Sized(want), NEW x \in KernelWrites(want), NEW r,
           \A n \in DOMAIN RecordView[want.op] :
                r[n] = IF n \in DOMAIN x THEN x[n] ELSE IF n = "bytes_completed" THEN r[n] ELSE 0,
           r["bytes_completed"] \in Nat,
           want.op = "create_delta" => r["bytes_completed"] <= want.arg["transfer_size"],
           NEW twice \in BOOLEAN
    PROVE  Visible(want.op, r) \in Ends(want, twice)
<1> DEFINE op == want.op
           w == want.arg
           names == DOMAIN View[op]
           n == w["transfer_size"]
<1>1. op \in Operations /\ DOMAIN w = names /\ \A m \in names : w[m] \in Nat
  BY DEF Proper
<1>2. {"status", "result", "bytes_completed"} \subseteq DOMAIN RecordView[op]
      /\ "status" \in DOMAIN x
  BY <1>1, RecordNames, KernelEnds DEF Ended
<1>3. r["status"] = x["status"]
  BY <1>2
<1>4. CASE op \in {"compare", "compare_pattern"}
  <2>1. "transfer_size" \in names /\ n \in Nat
    BY <1>1, <1>4, ViewNames
  <2>2. \/ x = Difference(want, 0, 0) \/ \E i \in 0 .. n - 1 : x = Difference(want, i, 1)
    BY <1>4, KernelKinds
  <2>3. r["result"] = x["result"] /\ r["bytes_completed"] = x["bytes_completed"]
    BY <1>2, <2>2 DEF Difference
  <2>4. /\ r["result"] \in {0, 1} /\ r["status"] = CompareStatus(want, r["result"])
        /\ r["bytes_completed"] \in 0 .. n /\ (r["result"] = 1 => r["bytes_completed"] < n)
    BY <1>3, <2>1, <2>2, <2>3 DEF Difference
  <2> QED  BY <1>1, <1>4, <2>1, <2>4, CompareEnds
<1>5. CASE op = "create_delta"
  <2>1. {"transfer_size", "maximum_delta_record_size"} \subseteq names
        /\ "delta_record_size" \in DOMAIN RecordView[op]
    BY <1>1, <1>5, ViewNames, RecordNames
  <2> DEFINE max == w["maximum_delta_record_size"]
             words == n \div 8
             room == max \div 10
  <2>2. n \in Nat /\ max \in Nat /\ words \in Nat /\ room \in Nat /\ 10 * room = max
    BY <1>1, <1>5, <2>1 DEF Sized
  <2>3. \/ x = Note(want, 0, 0)
        \/ \E k \in 1 .. (IF words < room THEN words ELSE room) : x = Note(want, k, 1)
        \/ words > room /\ x = Note(want, room, 2)
    BY <1>5, KernelKinds
  <2> HIDE DEF words, room, max, n
  <2>4. PICK k \in Nat, c \in {0, 1, 2} :
            /\ x = Note(want, k, c) /\ k <= words /\ k <= room
            /\ (c = 0 => k = 0) /\ (c = 1 => k > 0) /\ (c = 2 => k = room)
    BY <2>2, <2>3
  <2>5. /\ r["result"] = c /\ r["delta_record_size"] = 10 * k
        /\ r["status"] = DeltaStatus(want, c)
    BY <1>2, <1>3, <2>1, <2>4 DEF Note
  <2>6. r["bytes_completed"] \in 0 .. 2 * n
    BY <1>5, <2>2 DEF n
  <2>7. 10 * k <= max /\ (c = 2 => 10 * k = max)
    BY <2>2, <2>4
  <2> QED  BY <1>1, <1>5, <2>1, <2>2, <2>4, <2>5, <2>6, <2>7, DeltaEnds DEF n, max, words
<1>6. CASE op \in {"crc", "copy_crc"}
  <2>1. "transfer_size" \in names /\ "crc_value" \in DOMAIN RecordView[op]
    BY <1>1, <1>6, ViewNames, RecordNames
  <2>2. x = [crc_value |-> Checksum(w["crc_seed"], w["source_address"], n), status |-> Success]
    BY <1>6, KernelKinds
  <2>3. r["crc_value"] = Checksum(w["crc_seed"], w["source_address"], n) /\ r["status"] = Success
    BY <1>3, <2>1, <2>2
  <2> QED  BY <1>1, <1>6, <2>1, <2>3, CrcEnds
<1>7. CASE op \in {"dif_check", "dif_strip", "dif_update"}
  <2>1. {"transfer_size", "dif_flags"} \subseteq names
    BY <1>1, <1>7, DifNames
  <2> DEFINE step == SourceStep(want)
  <2>2. n \in Nat /\ step \in {512, 520, 528, 4096, 4104, 4112}
    BY <1>1, <2>1, BlockStep
  <2>3. \/ x = [result |-> 0, bytes_completed |-> 0, status |-> Success]
        \/ \E e \in DifFaults : \E k \in 0 .. (n \div step) - 1 : x = BadBlock(want, k, e)
    BY <1>7, KernelKinds
  <2>4. r["result"] = x["result"] /\ r["bytes_completed"] = x["bytes_completed"]
    BY <1>2, <2>3 DEF BadBlock
  <2>5. CASE x = [result |-> 0, bytes_completed |-> 0, status |-> Success]
    <3>1. 0 \in 0 .. n \div step /\ 0 * step = 0
      BY <2>2
    <3>2. r["result"] = 0 /\ r["bytes_completed"] = 0 * SourceStep(want) /\ r["status"] = Success
      BY <1>3, <2>4, <2>5, <3>1
    <3> HIDE DEF step
    <3> QED  BY <1>1, <1>7, <2>1, <2>2, <3>1, <3>2, CheckEnds DEF step
  <2>6. ASSUME NEW e \in DifFaults, NEW k \in 0 .. (n \div step) - 1, x = BadBlock(want, k, e)
        PROVE  Visible(want.op, r) \in Ends(want, twice)
    <3>1. r["result"] = e /\ r["bytes_completed"] = k * step /\ r["status"] = DifError
      BY <1>3, <2>4, <2>6 DEF BadBlock
    <3>2. k \in 0 .. n \div step /\ k * step < n
      <4> HIDE DEF n, step
      <4> QED  BY <2>2
    <3> HIDE DEF step
    <3> QED  BY <1>1, <1>7, <2>1, <2>2, <3>1, <3>2, CheckEnds DEF step
  <2> QED  BY <2>3, <2>5, <2>6
<1>8. CASE op = "dif_insert"
  <2>1. {"transfer_size", "dif_flags"} \subseteq names
    BY <1>1, <1>8, DifNames
  <2> DEFINE step == SourceStep(want)
  <2>2. n \in Nat /\ step \in {512, 520, 528, 4096, 4104, 4112}
    BY <1>1, <2>1, BlockStep
  <2>3. 0 \in 0 .. n \div step /\ 0 * step = 0
    BY <2>2
  <2>4. x = [bytes_completed |-> 0, status |-> Success]
    BY <1>8, KernelKinds
  <2>5. r["bytes_completed"] = 0 /\ r["status"] = Success
    BY <1>2, <1>3, <2>4
  <2>6. \E k \in 0 .. w["transfer_size"] \div SourceStep(want) :
            r["bytes_completed"] = k * SourceStep(want)
    BY <2>3, <2>5
  <2> QED  BY <1>1, <1>8, <2>1, <2>5, <2>6, OtherEnds
<1>9. CASE op = "batch"
  <2>1. "descriptors_count" \in names
    BY <1>9, ViewNames
  <2> DEFINE count == w["descriptors_count"]
  <2>2. count \in Nat
    BY <1>1, <2>1
  <2>3. \/ x = [bytes_completed |-> count, status |-> Success]
        \/ \E k \in 0 .. count - 1 : x = [bytes_completed |-> k, status |-> BatchError]
    BY <1>9, KernelKinds
  <2>4. r["bytes_completed"] = x["bytes_completed"]
    BY <1>2, <2>3
  <2> QED  BY <1>3, <1>9, <2>2, <2>3, <2>4, BatchEnds
<1>10. CASE op \in {"nop", "drain", "fill", "apply_delta", "dualcast", "cache_flush", "mem_move"}
  <2>1. x = [status |-> Success]
    BY <1>10, KernelKinds
  <2>2. r["status"] = Success /\ r["result"] = 0
    BY <1>2, <1>3, <2>1
  <2> QED  BY <1>1, <1>10, <2>2, OtherEnds
<1> QED  BY <1>1, <1>4, <1>5, <1>6, <1>7, <1>8, <1>9, <1>10 DEF Operations, operation

\* What is left after b bytes and k notes.
LEMMA RestArgs ==
    ASSUME NEW want, Proper(want), NEW b \in Nat, NEW k \in Nat, NEW s,
           NEW x, x = FaultRecord(want, b, k, s), want.op \in Faultable
    PROVE  /\ Remaining(want, x).op = want.op /\ Remaining(want, x).flags = want.flags
           /\ Remaining(want, x).arg[Extent(want.op)] = want.arg[Extent(want.op)] - b
           /\ \A n \in {"expected_result", "expected_result_mask", "dif_flags"} :
                n \in DOMAIN View[want.op] => Remaining(want, x).arg[n] = want.arg[n]
           /\ want.op \in {"crc", "copy_crc"} =>
                /\ Remaining(want, x).arg["crc_seed"] =
                        Checksum(want.arg["crc_seed"], want.arg["source_address"], b)
                /\ Remaining(want, x).arg["source_address"] = want.arg["source_address"] + b
           /\ want.op = "create_delta" =>
                Remaining(want, x).arg["maximum_delta_record_size"] =
                    want.arg["maximum_delta_record_size"] - 10 * k
<1> DEFINE op == want.op
           w == want.arg
           r == Remaining(want, x).arg
<1>1. op \in Operations /\ DOMAIN w = DOMAIN View[op] /\ Extent(op) \in DOMAIN View[op]
  BY ArgumentsLeft DEF Proper
<1>2. /\ Remaining(want, x).op = op /\ Remaining(want, x).flags = want.flags
      /\ r = Left(op, w, x)
  BY DEF Remaining
<1>3. /\ x["bytes_completed"] = b
      /\ "crc_value" \in DOMAIN x =>
            x["crc_value"] = Checksum(w["crc_seed"], w["source_address"], b)
      /\ "delta_record_size" \in DOMAIN x => x["delta_record_size"] = 10 * k
      /\ DOMAIN x = DOMAIN RecordView[op]
  BY <1>1, FaultFields
<1>4. /\ op = "create_delta" => "delta_record_size" \in DOMAIN x
                                /\ "maximum_delta_record_size" \in DOMAIN View[op]
      /\ op \in {"crc", "copy_crc"} => "crc_value" \in DOMAIN x
            /\ {"crc_seed", "source_address"} \subseteq DOMAIN View[op]
            /\ "source_address" \in Advanced(op)
  BY <1>1, <1>3, RecordNames, ViewNames DEF Advanced
<1>5. \A n \in {"expected_result", "expected_result_mask", "dif_flags"} :
            n \notin Advanced(op) \cup {Extent(op), "crc_seed"} \cup TagFields
  <2>1. Extent(op) \in {"transfer_size", "delta_record_size"}
    BY DEF Extent
  <2>2. Advanced(op) \subseteq {"source_address", "destination_1_address", "destination_2_address",
            "destination_address", "delta_record_address", "source_1_address", "source_2_address"}
    BY DEF Advanced
  <2> QED  BY <2>1, <2>2 DEF TagFields
<1> DEFINE new == Left(op, w, x)
<1>6. /\ new[Extent(op)] = w[Extent(op)] - x["bytes_completed"]
      /\ \A n \in Advanced(op) \cap DOMAIN w :
            new[n] = IF op = "mem_move" /\ x["result"] # 0 THEN w[n] ELSE w[n] + x["bytes_completed"]
      /\ "crc_seed" \in DOMAIN w => new["crc_seed"] = x["crc_value"]
      /\ op = "create_delta" /\ "maximum_delta_record_size" \in DOMAIN w =>
            new["maximum_delta_record_size"] =
                w["maximum_delta_record_size"] - x["delta_record_size"]
      /\ \A n \in DOMAIN w \ (Advanced(op) \cup {Extent(op), "crc_seed"} \cup TagFields) :
            \/ new[n] = w[n]
            \/ op = "create_delta" /\ n \in {"delta_record_address", "maximum_delta_record_size"}
  BY <1>1, LeftArgs
<1> HIDE DEF new, op, w, r
<1> QED  BY <1>1, <1>2, <1>3, <1>4, <1>5, <1>6 DEF op, w, r, new

\* The second piece of an operation that faulted after b bytes.
LEMMA SecondPiece ==
    ASSUME NEW want, Proper(want), Sized(want), want.op \in Faultable,
           NEW b \in Nat, b < want.arg[Extent(want.op)], b % Grain(want) = 0, NEW k \in Nat,
           want.op = "mem_move" => k \in {0, 1},
           want.op = "create_delta" => k <= b \div 8 /\ 10 * k <= want.arg["maximum_delta_record_size"],
           NEW rest, rest.op = want.op, rest.flags = want.flags,
           rest.arg[Extent(want.op)] = want.arg[Extent(want.op)] - b,
           \A m \in {"expected_result", "expected_result_mask", "dif_flags"} :
                m \in DOMAIN View[want.op] => rest.arg[m] = want.arg[m],
           want.op \in {"crc", "copy_crc"} =>
                /\ rest.arg["crc_seed"] =
                        Checksum(want.arg["crc_seed"], want.arg["source_address"], b)
                /\ rest.arg["source_address"] = want.arg["source_address"] + b,
           want.op = "create_delta" =>
                rest.arg["maximum_delta_record_size"] = want.arg["maximum_delta_record_size"] - 10 * k,
           NEW y \in KernelWrites(rest),
           NEW r, r["status"] = y["status"],
           r["result"] = IF "result" \in DOMAIN y THEN y["result"]
                         ELSE IF want.op = "mem_move" THEN k ELSE 0,
           r["bytes_completed"] = IF want.op = "compare" THEN b
                                  ELSE IF "bytes_completed" \in DOMAIN y THEN y["bytes_completed"] + b
                                  ELSE b + b,
           want.op = "create_delta" /\ "delta_record_size" \in DOMAIN y =>
                r["delta_record_size"] = y["delta_record_size"] + 10 * k,
           "crc_value" \in DOMAIN y => r["crc_value"] = y["crc_value"],
           NEW twice \in BOOLEAN, twice
    PROVE  Visible(want.op, r) \in Ends(want, twice)
<1> DEFINE op == want.op
           w == want.arg
           names == DOMAIN View[op]
           n == w["transfer_size"]
           view == RecordView[op]
<1>1. op \in Operations /\ DOMAIN w = names /\ \A m \in names : w[m] \in Nat
  BY DEF Proper
<1>9. /\ Extent(op) = (IF op = "apply_delta" THEN "delta_record_size" ELSE "transfer_size")
      /\ Extent(op) \in names /\ w[Extent(op)] \in Nat
  BY <1>1, ArgumentsLeft DEF Extent
<1>10. CASE op \in {"compare", "compare_pattern"}
  <2>1. {"transfer_size", "expected_result"} \subseteq names /\ n \in Nat /\ b < n
    BY <1>1, <1>9, <1>10, ViewNames
  <2>2. rest.arg["transfer_size"] = n - b
    BY <1>9, <1>10
  <2>3. \/ y = Difference(rest, 0, 0) \/ \E i \in 0 .. (n - b) - 1 : y = Difference(rest, i, 1)
    BY <1>10, <2>2, KernelKinds
  <2>4. \A c : CompareStatus(rest, c) = CompareStatus(want, c)
    BY <2>1 DEF CompareStatus
  <2>5. PICK i \in Nat, c \in {0, 1} :
            y = Difference(rest, i, c) /\ (c = 0 => i = 0) /\ i < n - b
    BY <2>1, <2>3
  <2>6. DOMAIN y = {"bytes_completed", "result", "status"} /\ y["bytes_completed"] = i
        /\ y["result"] = c /\ y["status"] = CompareStatus(want, c)
    BY <2>4, <2>5 DEF Difference
  <2>8. /\ r["result"] = c /\ r["status"] = CompareStatus(want, r["result"])
        /\ r["bytes_completed"] \in 0 .. n /\ r["bytes_completed"] < n
    BY <1>9, <2>1, <2>5, <2>6
  <2>9. /\ want.op \in {"compare", "compare_pattern"}
        /\ "transfer_size" \in DOMAIN want.arg /\ want.arg["transfer_size"] \in Nat
        /\ r["result"] \in {0, 1} /\ r["status"] = CompareStatus(want, r["result"])
        /\ r["bytes_completed"] \in 0 .. want.arg["transfer_size"]
        /\ (r["result"] = 1 => r["bytes_completed"] < want.arg["transfer_size"])
    BY <1>1, <1>10, <2>1, <2>8
  <2> HIDE DEF op, w, n, names
  <2> QED  BY ONLY <2>9, CompareEnds
<1>11. CASE op = "create_delta"
  <2>1. {"transfer_size", "maximum_delta_record_size", "expected_result_mask"} \subseteq names
        /\ "delta_record_size" \in DOMAIN view
    BY <1>1, <1>11, ViewNames, RecordNames
  <2> DEFINE max == w["maximum_delta_record_size"]
             words == (n - b) \div 8
             room == (max - 10 * k) \div 10
  <2>2. /\ n \in Nat /\ max \in Nat /\ b < n /\ b % 8 = 0 /\ max % 10 = 0
        /\ k <= b \div 8 /\ 10 * k <= max
    BY <1>1, <1>9, <1>11, <2>1 DEF Sized, Grain
  <2>3. rest.arg["transfer_size"] = n - b /\ rest.arg["maximum_delta_record_size"] = max - 10 * k
    BY <1>9, <1>11
  <2>4. \/ y = Note(rest, 0, 0)
        \/ \E i \in 1 .. (IF words < room THEN words ELSE room) : y = Note(rest, i, 1)
        \/ words > room /\ y = Note(rest, room, 2)
    BY <1>11, <2>3, KernelKinds
  <2>5. \A c : DeltaStatus(rest, c) = DeltaStatus(want, c)
    BY <2>1 DEF DeltaStatus
  <2> HIDE DEF n, max
  <2>6. /\ words \in Nat /\ room \in Nat /\ 10 * room + 10 * k = max
        /\ k + words <= n \div 8 /\ b <= n
    BY <1>9, <2>2
  <2> HIDE DEF words, room
  <2>7. PICK i \in Nat, c \in {0, 1, 2} :
            /\ y = Note(rest, i, c) /\ i <= words /\ i <= room
            /\ (c = 0 => i = 0) /\ (c = 1 => i > 0) /\ (c = 2 => i = room)
    BY <2>4, <2>6
  <2>8. DOMAIN y = {"delta_record_size", "result", "status"} /\ y["delta_record_size"] = 10 * i
        /\ y["result"] = c /\ y["status"] = DeltaStatus(want, c)
    BY <2>5, <2>7 DEF Note
  <2> DEFINE j == i + k
  <2>10. /\ r["result"] = c /\ r["status"] = DeltaStatus(want, c)
         /\ r["delta_record_size"] = 10 * j /\ r["bytes_completed"] = b + b
    BY <1>11, <2>7, <2>8
  <2>11. /\ j \in Nat /\ j <= n \div 8 /\ 10 * j <= max /\ (c = 1 => j > 0)
         /\ (c = 2 => 10 * j = max) /\ b + b \in 0 .. 2 * n
    BY <1>9, <2>2, <2>6, <2>7
  <2> HIDE DEF j
  <2>12. /\ want.op = "create_delta" /\ twice \in BOOLEAN
         /\ "transfer_size" \in DOMAIN want.arg /\ want.arg["transfer_size"] \in Nat
         /\ want.arg["maximum_delta_record_size"] \in Nat
         /\ r["result"] \in {0, 1, 2} /\ r["status"] = DeltaStatus(want, r["result"])
         /\ r["bytes_completed"] \in 0 .. 2 * want.arg["transfer_size"]
         /\ j \in Nat /\ r["delta_record_size"] = 10 * j
         /\ j <= want.arg["transfer_size"] \div 8
         /\ 10 * j <= want.arg["maximum_delta_record_size"]
         /\ (r["result"] = 0 => j = 0 \/ twice)
         /\ (r["result"] = 1 => j > 0)
         /\ (r["result"] = 2 => 10 * j = want.arg["maximum_delta_record_size"])
    BY <1>1, <1>11, <2>1, <2>2, <2>10, <2>11 DEF n, max
  <2> HIDE DEF op, w, names
  <2> QED  BY ONLY <2>12, DeltaEnds
<1>12. CASE op \in {"crc", "copy_crc"}
  <2>1. {"transfer_size", "source_address", "crc_seed"} \subseteq names
        /\ "crc_value" \in DOMAIN view
    BY <1>1, <1>12, ViewNames, RecordNames
  <2>2. /\ rest.arg["transfer_size"] = n - b
        /\ rest.arg["crc_seed"] = Checksum(w["crc_seed"], w["source_address"], b)
        /\ rest.arg["source_address"] = w["source_address"] + b
    BY <1>9, <1>12
  <2>3. y = [crc_value |-> Checksum(rest.arg["crc_seed"], rest.arg["source_address"],
                                    rest.arg["transfer_size"]),
             status |-> Success]
    BY <1>12, KernelKinds
  <2>4. w["crc_seed"] \in Seeds /\ w["source_address"] \in Nat /\ n \in Nat /\ b \in 0 .. n
    BY <1>1, <1>9, <1>12, <2>1 DEF Proper
  <2>5. y["crc_value"] = Checksum(w["crc_seed"], w["source_address"], n) /\ y["status"] = Success
        /\ "crc_value" \in DOMAIN y
    BY <2>2, <2>3, <2>4, ChecksumOf
  <2>6. r["crc_value"] = Checksum(w["crc_seed"], w["source_address"], n) /\ r["status"] = Success
    BY <2>1, <2>5
  <2>7. /\ want.op \in {"crc", "copy_crc"} /\ "transfer_size" \in DOMAIN want.arg
        /\ r["status"] = Success
        /\ r["crc_value"] = Checksum(want.arg["crc_seed"], want.arg["source_address"],
                                     want.arg["transfer_size"])
    BY <1>1, <1>12, <2>1, <2>6
  <2> HIDE DEF op, w, n, names
  <2> QED  BY ONLY <2>7, CrcEnds
<1>13. CASE op \in {"dif_check", "dif_strip", "dif_update", "dif_insert"}
  <2>1. {"transfer_size", "dif_flags"} \subseteq names
    BY <1>1, <1>13, DifNames
  <2> DEFINE step == SourceStep(want)
  <2>2. n \in Nat /\ b < n /\ step \in {512, 520, 528, 4096, 4104, 4112} /\ b % step = 0
    BY <1>1, <1>9, <1>13, <2>1, BlockStep DEF Grain
  <2>3. rest.arg["transfer_size"] = n - b /\ SourceStep(rest) = step
    BY <1>9, <1>13, <2>1 DEF SourceStep
  <2> DEFINE d == b \div step
  <2> HIDE DEF n, step
  <2>4. d \in 0 .. n \div step /\ b = d * step /\ 0 + b = d * step
    BY ONLY <2>2, b \in Nat
  <2>5. CASE op = "dif_insert"
    <3>1. y = [bytes_completed |-> 0, status |-> Success]
      BY <2>5, KernelKinds
    <3>2. r["bytes_completed"] = d * step /\ r["status"] = Success
      BY <2>4, <2>5, <3>1
    <3>3. \E i \in 0 .. w["transfer_size"] \div SourceStep(want) :
                r["bytes_completed"] = i * SourceStep(want)
      BY <2>4, <3>2 DEF n, step
    <3> QED  BY <1>1, <2>1, <2>5, <3>2, <3>3, OtherEnds
  <2>6. CASE op \in {"dif_check", "dif_strip", "dif_update"}
    <3>1. \/ y = [result |-> 0, bytes_completed |-> 0, status |-> Success]
          \/ \E e \in DifFaults : \E i \in 0 .. ((n - b) \div step) - 1 : y = BadBlock(rest, i, e)
      <4>1. \/ y = [result |-> 0, bytes_completed |-> 0, status |-> Success]
            \/ \E e \in DifFaults : \E i \in 0 .. (rest.arg["transfer_size"] \div SourceStep(rest)) - 1 :
                    y = BadBlock(rest, i, e)
        BY <2>6, KernelKinds
      <4> QED  BY <2>3, <4>1
    <3>2. CASE y = [result |-> 0, bytes_completed |-> 0, status |-> Success]
      <4>1. r["result"] = 0 /\ r["bytes_completed"] = d * step /\ r["status"] = Success
        BY <2>4, <2>6, <3>2
      <4> HIDE DEF d
      <4>2. /\ want.op \in {"dif_check", "dif_strip", "dif_update"}
            /\ "transfer_size" \in DOMAIN want.arg /\ want.arg["transfer_size"] \in Nat
            /\ d \in 0 .. want.arg["transfer_size"] \div SourceStep(want)
            /\ r["bytes_completed"] = d * SourceStep(want)
            /\ r["status"] = Success /\ r["result"] = 0
        <5>1. "transfer_size" \in DOMAIN want.arg /\ want.arg["transfer_size"] \in Nat
          BY <1>1, <2>1, <2>2 DEF n
        <5>2. d \in 0 .. want.arg["transfer_size"] \div SourceStep(want)
          BY ONLY <2>4 DEF n, step, w
        <5>3. r["bytes_completed"] = d * SourceStep(want) /\ r["status"] = Success /\ r["result"] = 0
          BY ONLY <4>1 DEF step
        <5> QED  BY <2>6, <5>1, <5>2, <5>3
      <4> HIDE DEF op, w, names
      <4> QED  BY ONLY <4>2, CheckEnds
    <3>3. ASSUME NEW e \in DifFaults, NEW i \in 0 .. ((n - b) \div step) - 1, y = BadBlock(rest, i, e)
          PROVE  Visible(want.op, r) \in Ends(want, twice)
      <4>1. /\ DOMAIN y = {"result", "bytes_completed", "status"} /\ y["result"] = e
            /\ y["bytes_completed"] = i * step /\ y["status"] = DifError
        BY <2>3, <3>3 DEF BadBlock
      <4>2. r["result"] = e /\ r["bytes_completed"] = i * step + b /\ r["status"] = DifError
        BY <2>6, <4>1
      <4> DEFINE j == i + d
      <4>3. i * step + b = j * step /\ j \in 0 .. n \div step /\ j * step < n
        <5>1. i \in Nat /\ d \in Nat
          BY <1>9, <2>2, <2>4
        <5>2. i * step + b = j * step
          <6> HIDE DEF d
          <6> QED  BY <2>2, <2>4, <5>1
        <5>3. i * step + b < n
          BY <1>9, <2>2
        <5> HIDE DEF d
        <5>4. j \in 0 .. n \div step
          <6> HIDE DEF j
          <6>1. j \in Nat /\ j * step < n
            BY <5>1, <5>2, <5>3 DEF j
          <6> QED  BY <2>2, <6>1
        <5> QED  BY <5>2, <5>3, <5>4
      <4> HIDE DEF j
      <4>4. /\ want.op \in {"dif_check", "dif_strip", "dif_update"}
            /\ "transfer_size" \in DOMAIN want.arg /\ want.arg["transfer_size"] \in Nat
            /\ j \in 0 .. want.arg["transfer_size"] \div SourceStep(want)
            /\ r["bytes_completed"] = j * SourceStep(want)
            /\ r["status"] = DifError /\ r["result"] \in DifFaults
            /\ j * SourceStep(want) < want.arg["transfer_size"]
        BY <1>1, <2>1, <2>2, <2>6, <4>2, <4>3 DEF n, step
      <4> HIDE DEF op, w, names
      <4> QED  BY ONLY <4>4, CheckEnds
    <3> QED  BY <3>1, <3>2, <3>3
  <2> QED  BY <1>13, <2>5, <2>6
<1>14. CASE op \in {"fill", "apply_delta", "dualcast", "cache_flush", "mem_move"}
  <2>1. y = [status |-> Success]
    BY <1>14, KernelKinds
  <2>2. r["status"] = Success /\ r["result"] = IF op = "mem_move" THEN k ELSE 0
    BY <2>1
  <2>3. op = "mem_move" => r["result"] \in {0, 1}
    BY <2>2
  <2> QED  BY <1>1, <1>14, <2>2, <2>3, OtherEnds
<1> QED  BY <1>1, <1>10, <1>11, <1>12, <1>13, <1>14 DEF Operations, operation, Faultable

\* An operation that faulted and was finished in software.
LEMMA TwoPieces ==
    ASSUME NEW want, Proper(want), Sized(want), NEW x \in Faults(want),
           NEW y \in KernelWrites(Remaining(want, x)), NEW twice \in BOOLEAN, twice
    PROVE  Visible(want.op, Read(want.op, Merged(want.op, x, y))) \in Ends(want, twice)
<1> DEFINE op == want.op
           view == RecordView[want.op]
           rest == Remaining(want, x)
           z == Overwritten(want.op, x, y)
           r == Read(want.op, Merged(want.op, x, y))
<1>1. want.op \in Operations /\ want.op \in Faultable
  BY FaultPlaces DEF Proper
<1>2. PICK b \in 0 .. want.arg[Extent(want.op)] - 1 : \E k \in Nat :
        \E s \in {PageFault, PageFault + 128} :
        /\ x = FaultRecord(want, b, k, s) /\ b % Grain(want) = 0
        /\ want.op = "mem_move" => k \in {0, 1}
        /\ want.op = "create_delta" =>
                k <= b \div 8 /\ 10 * k <= want.arg["maximum_delta_record_size"]
  BY FaultPlaces
<1>3. PICK k \in Nat : \E s \in {PageFault, PageFault + 128} :
        /\ x = FaultRecord(want, b, k, s)
        /\ want.op = "mem_move" => k \in {0, 1}
        /\ want.op = "create_delta" =>
                k <= b \div 8 /\ 10 * k <= want.arg["maximum_delta_record_size"]
  BY <1>2
<1>4. b \in Nat /\ b < want.arg[Extent(want.op)]
  <2>1. want.arg[Extent(want.op)] \in Nat
    BY <1>1, ArgumentsLeft DEF Proper
  <2> QED  BY <1>2, <2>1
<1>5. /\ DOMAIN x = DOMAIN view /\ x["bytes_completed"] = b
      /\ x["result"] = IF want.op = "mem_move" THEN k ELSE 0
      /\ "delta_record_size" \in DOMAIN x => x["delta_record_size"] = 10 * k
  BY <1>1, <1>3, FaultFields
<1>6. /\ rest.op = want.op /\ rest.flags = want.flags
      /\ rest.arg[Extent(want.op)] = want.arg[Extent(want.op)] - b
      /\ \A m \in {"expected_result", "expected_result_mask", "dif_flags"} :
            m \in DOMAIN View[want.op] => rest.arg[m] = want.arg[m]
      /\ want.op \in {"crc", "copy_crc"} =>
            /\ rest.arg["crc_seed"] = Checksum(want.arg["crc_seed"], want.arg["source_address"], b)
            /\ rest.arg["source_address"] = want.arg["source_address"] + b
      /\ want.op = "create_delta" =>
            rest.arg["maximum_delta_record_size"] = want.arg["maximum_delta_record_size"] - 10 * k
  BY <1>1, <1>3, <1>4, RestArgs
<1>7. Ended(want.op, x) /\ Ended(want.op, y)
  <2>1. Ended(want.op, x)
    BY <1>1, AcceleratorEnds DEF AcceleratorWrites
  <2> QED  BY <1>1, <1>6, <2>1, KernelEnds
<1>8. /\ "result" \in DOMAIN view /\ "bytes_completed" \in DOMAIN view
      /\ want.op = "create_delta" => "delta_record_size" \in DOMAIN view
      /\ DOMAIN y \subseteq DOMAIN view
  BY <1>1, <1>7, RecordNames DEF Ended
<1>9. \A m \in DOMAIN view : z[m] = IF m \in DOMAIN y THEN y[m] ELSE x[m]
  BY DEF Overwritten
<1>10. /\ r["status"] = y["status"]
       /\ r["bytes_completed"] =
             IF want.op \in {"nop", "drain", "batch"} THEN z["bytes_completed"]
             ELSE IF want.op = "compare" THEN x["bytes_completed"]
             ELSE z["bytes_completed"] + x["bytes_completed"]
       /\ want.op = "create_delta" =>
             r["delta_record_size"] = z["delta_record_size"] + x["delta_record_size"]
       /\ \A m \in DOMAIN view \ {"bytes_completed", "delta_record_size"} : r[m] = z[m]
  BY <1>1, <1>5, <1>7, MergedReads
<1> HIDE DEF r, z, rest, view
<1>11. r["result"] = IF "result" \in DOMAIN y THEN y["result"]
                     ELSE IF want.op = "mem_move" THEN k ELSE 0
  BY <1>5, <1>8, <1>9, <1>10
<1>12. r["bytes_completed"] = IF want.op = "compare" THEN b
                              ELSE IF "bytes_completed" \in DOMAIN y THEN y["bytes_completed"] + b
                              ELSE b + b
  <2>1. want.op \notin {"nop", "drain", "batch"}
    BY <1>1 DEF Faultable
  <2> QED  BY <1>5, <1>8, <1>9, <1>10, <2>1
<1>13. want.op = "create_delta" /\ "delta_record_size" \in DOMAIN y =>
            r["delta_record_size"] = y["delta_record_size"] + 10 * k
  BY <1>5, <1>8, <1>9, <1>10
<1>14. "crc_value" \in DOMAIN y => r["crc_value"] = y["crc_value"]
  BY <1>8, <1>9, <1>10
<1>15. y \in KernelWrites(rest)
  BY DEF rest
<1>16. Visible(want.op, r) \in Ends(want, twice)
  <2>1. b \in Nat /\ b < want.arg[Extent(want.op)] /\ b % Grain(want) = 0 /\ k \in Nat
    BY <1>2, <1>4
  <2>2. r["status"] = y["status"] /\ (want.op = "mem_move" => k \in {0, 1})
        /\ (want.op = "create_delta" =>
                k <= b \div 8 /\ 10 * k <= want.arg["maximum_delta_record_size"])
    BY <1>3, <1>10
  <2>3. Proper(want) /\ Sized(want) /\ twice \in BOOLEAN /\ twice
    OBVIOUS
  <2> QED  BY ONLY <1>1, <1>6, <1>11, <1>12, <1>13, <1>14, <1>15, <2>1, <2>2, <2>3, SecondPiece
<1> QED  BY <1>16 DEF r

\* What is shown of an outcome depends on its parts only.
LEMMA SameVisible ==
    ASSUME NEW op \in Operations, NEW x, NEW y,
           \A n \in DOMAIN RecordView[op] : x[n] = y[n]
    PROVE  Visible(op, x) = Visible(op, y)
<1>1. Parts(op) \subseteq DOMAIN RecordView[op] /\ "status" \in DOMAIN RecordView[op]
  BY PartsOf, RecordNames
<1> QED  BY <1>1 DEF Visible

\* An outcome that is final is one that the path may give.
LEMMA StandingPossible ==
    ASSUME NEW want, Proper(want), Sized(want), NEW path, NEW dsc, NEW rec,
           Standing(want, path, dsc, rec), Filled(rec), ~(path = "automatic" /\ Faulted(rec)),
           path \in {"software", "hardware", "automatic"}
    PROVE  Visible(want.op, Read(want.op, rec)) \in Possible([want |-> want, path |-> path])
<1> DEFINE op == want.op
           view == RecordView[want.op]
           r == Read(want.op, rec)
           shown == Visible(want.op, Read(want.op, rec))
           possible == Possible([want |-> want, path |-> path])
<1>1. op \in Operations /\ DOMAIN view = DOMAIN RecordView[op] /\ "bytes_completed" \in DOMAIN view
  BY RecordNames DEF Proper
<1>2. PICK twice \in BOOLEAN : twice = (path = "automatic")
  OBVIOUS
<1>3. /\ \A v \in Ends(want, twice) : v \in possible
      /\ path # "software" => Visible(op, Breakdown(want)) \in possible
      /\ path = "hardware" => \A x \in Faults(want) : Visible(op, x) \in possible
  BY <1>2 DEF Possible
<1> HIDE DEF possible
<1>4. ASSUME NEW x \in KernelWrites(want), rec = RecordOf(op, x)
      PROVE  shown \in possible
  <2>1. Ended(op, x)
    BY <1>1, KernelEnds
  <2>2. \A n \in DOMAIN view : r[n] = IF n \in DOMAIN x THEN x[n] ELSE 0
    BY <1>1, <1>4, <2>1, RecordReads
  <2>3. r["bytes_completed"] \in Nat
        /\ (op = "create_delta" => r["bytes_completed"] <= want.arg["transfer_size"])
    <3>1. r["bytes_completed"] \in Nat
      BY <1>1, StandingValues
    <3>2. ASSUME op = "create_delta" PROVE r["bytes_completed"] <= want.arg["transfer_size"]
      <4>1. want.arg["transfer_size"] \in Nat
        BY <3>2, ViewNames DEF Proper
      <4>2. "bytes_completed" \notin DOMAIN x
        BY <3>2, KernelKinds DEF Note
      <4> QED  BY <1>1, <2>2, <4>1, <4>2
    <3> QED  BY <3>1, <3>2
  <2>4. \A n \in DOMAIN view :
            r[n] = IF n \in DOMAIN x THEN x[n] ELSE IF n = "bytes_completed" THEN r[n] ELSE 0
    BY <2>2
  <2> HIDE DEF r
  <2>5. Visible(want.op, r) \in Ends(want, twice)
    BY <2>3, <2>4, OnePiece
  <2> QED  BY <1>3, <2>5 DEF r
<1>5. ASSUME NEW x \in AcceleratorWrites(want), rec = RecordOf(op, x), path # "software"
      PROVE  shown \in possible
  <2>1. Ended(op, x) /\ DOMAIN x = DOMAIN view
    BY <1>1, AcceleratorEnds
  <2>2. \A n \in DOMAIN view : r[n] = x[n]
    BY <1>1, <1>5, <2>1, RecordReads
  <2>3. shown = Visible(op, x)
    <3> HIDE DEF r
    <3> QED  BY <1>1, <2>2, SameVisible DEF r
  <2>4. CASE x = Breakdown(want)
    BY <1>3, <1>5, <2>3, <2>4
  <2>5. CASE x \in Faults(want) /\ x["status"] \in {PageFault, PageFault + 128}
    <3>1. Get(rec, any_completion_record.status) = x["status"]
      BY <1>1, <1>5, <2>1, RecordReads
    <3>2. Faulted(rec)
      BY <2>5, <3>1 DEF Faulted, PageFault
    <3> QED  BY <1>3, <1>5, <2>3, <2>5, <3>2
  <2>6. CASE \E y \in KernelWrites(want) : x = Joined(y, Done(want)) /\ x["status"] = y["status"]
    <3>1. PICK y \in KernelWrites(want) : x = Joined(y, Done(want))
      BY <2>6
    <3>2. DOMAIN y \subseteq DOMAIN view
      BY <1>1, KernelEnds DEF Ended
    <3>3. \A n \in DOMAIN view : x[n] = IF n \in DOMAIN y THEN y[n]
                                 ELSE IF n = "bytes_completed" THEN Arg(want, "transfer_size") ELSE 0
      BY <3>1, <3>2 DEF Joined, Done
    <3>4. \A n \in DOMAIN view :
            r[n] = IF n \in DOMAIN y THEN y[n] ELSE IF n = "bytes_completed" THEN r[n] ELSE 0
      BY <2>2, <3>3
    <3>5. r["bytes_completed"] \in Nat
      BY <1>1, StandingValues
    <3>6. ASSUME op = "create_delta" PROVE r["bytes_completed"] <= want.arg["transfer_size"]
      <4>1. want.arg["transfer_size"] \in Nat /\ "transfer_size" \in DOMAIN want.arg
        BY <3>6, ViewNames DEF Proper
      <4>2. "bytes_completed" \notin DOMAIN y
        BY <3>6, KernelKinds DEF Note
      <4> QED  BY <1>1, <2>2, <3>3, <4>1, <4>2 DEF Arg
    <3> HIDE DEF r
    <3>7. Visible(want.op, r) \in Ends(want, twice)
      BY <3>4, <3>5, <3>6, OnePiece
    <3> QED  BY <1>3, <3>7 DEF r
  <2> QED  BY <1>1, <2>4, <2>5, <2>6, AcceleratorKinds
<1>6. ASSUME path = "automatic", NEW x \in Faults(want), NEW y \in KernelWrites(Remaining(want, x)),
             rec = Merged(op, x, y)
      PROVE  shown \in possible
  <2>1. Visible(want.op, Read(want.op, Merged(want.op, x, y))) \in Ends(want, twice)
    BY <1>2, <1>6, TwoPieces
  <2> QED  BY <1>3, <1>6, <2>1
<1>7. rec # Blank
  BY BlankNotFilled
<1> HIDE DEF shown
<1>8. shown \in possible
  BY <1>4, <1>5, <1>6, <1>7 DEF Standing
<1> QED  BY <1>8 DEF shown, possible
-----------------------------------------------------------------------------
(* What is asked for stays what is executed. *)

\* Some descriptor of it passed validation.
Sanctioned(want) == \E d : Seen(d) = want /\ validate(d) = "success"

\* A valid object has the task of what was asked for, as devices left it, and only a valid
\* object stands for something.
Carries(ob, t, as) ==
    /\ as # None => ob.status = "ok"
    /\ ob.status = "ok" =>
        /\ as \in Requests /\ as.path = ob.path
        /\ Proper(as.want) /\ Sanctioned(as.want)
        /\ Intact(t.dsc) /\ Standing(as.want, ob.path, t.dsc, t.rec)

\* A valid job can be submitted again: its fields are as some m filled them in, but for
\* results, and so were they when it was submitted.
Refills(ob, f, as) == ob.status = "ok" /\ as.want.op # "create_delta" =>
    /\ DOMAIN f = DOMAIN BlankJob /\ f.crc \in Seeds
    /\ \E m, e : /\ m.want \in Wants /\ JobWish(m) /\ Alike(f, m) /\ Alike(e, m)
                 /\ as.want = Wanted(e, m)

\* Jobs have the path of their initialization.
Routed(ob) == ob.status # "dead" => ob.path \in Paths

\* The invariant.
AskedInv ==
    /\ DOMAIN asked = Objects /\ DOMAIN job = Jobs
    /\ \A o \in Objects : Carries(obj[o], Task(o), asked[o])
    /\ \A j \in Jobs : Refills(obj[j], job[j], asked[j]) /\ Routed(obj[j])

\* What a request consists of.
LEMMA RequestParts ==
    ASSUME NEW as \in Requests
    PROVE  as = [want |-> as.want, path |-> as.path] /\ as.want \in Wishes /\ as.path \in Paths
           /\ as # None
  BY MarkAssumption DEF Requests

\* Wishes are proper, and so are those that go on from a result.
LEMMA WishProper ==
    /\ \A m : CallWish(m) => Proper(m.want)
    /\ \A m, f : JobWish(m) /\ f.crc \in Seeds => Proper(Wanted(f, m))
<1>1. ASSUME NEW want, IsWish(want) PROVE Proper(want)
  <2>1. /\ want.op \in Operations /\ want.arg = [n \in DOMAIN View[want.op] |-> want.arg[n]]
        /\ \A n \in DOMAIN View[want.op] : want.arg[n] \in Nat /\ Arg(want, n) = want.arg[n]
    BY <1>1, WishArgs
  <2>2. "crc_seed" \in DOMAIN View[want.op] => want.arg["crc_seed"] \in Seeds
    <3>1. CrcRange \in Nat /\ Arg(want, "crc_seed") < CrcRange
      BY <1>1 DEF CrcRange, IsWish
    <3>2. ASSUME "crc_seed" \in DOMAIN View[want.op]
          PROVE  want.arg["crc_seed"] \in Nat /\ want.arg["crc_seed"] < CrcRange
      BY <2>1, <3>1, <3>2
    <3> QED  BY ONLY <3>1, <3>2 DEF Seeds
  <2> QED  BY <1>1, <2>1, <2>2 DEF Proper, IsWish
<1>2. ASSUME NEW m, CallWish(m) PROVE Proper(m.want)
  BY <1>1, <1>2 DEF CallWish
<1>3. ASSUME NEW m, NEW f, JobWish(m), f.crc \in Seeds PROVE Proper(Wanted(f, m))
  <2>1. Proper(m.want)
    BY <1>1, <1>3 DEF JobWish
  <2> DEFINE arg == Seeded(f, m.want)
             view == DOMAIN View[m.want.op]
  <2>2. /\ arg = [n \in view |-> arg[n]]
        /\ \A n \in view : n # "crc_seed" => arg[n] \in Nat
    BY <1>3, WantedArgs
  <2>3. arg = m.want.arg \/ arg = [m.want.arg EXCEPT !.crc_seed = f.crc]
    BY DEF Seeded
  <2>4. "crc_seed" \in view => arg["crc_seed"] \in Seeds
    BY <1>3, <2>1, <2>3 DEF Proper
  <2>5. Seeds \subseteq Nat
    BY DEF Seeds, CrcRange
  <2>6. /\ Wanted(f, m).op = m.want.op /\ Wanted(f, m).arg = arg
        /\ Wanted(f, m) = [op |-> Wanted(f, m).op, arg |-> Wanted(f, m).arg, flags |-> Wanted(f, m).flags]
    BY DEF Wanted
  <2>7. m.want.op \in Operations
    BY <2>1 DEF Proper
  <2> HIDE DEF arg
  <2>8. \A n \in view : arg[n] \in Nat
    BY <2>2, <2>4, <2>5
  <2> QED  BY <2>2, <2>4, <2>6, <2>7, <2>8 DEF Proper
<1> QED  BY <1>2, <1>3

\* Results are written next to what was filled in.
LEMMA ResultAlike ==
    ASSUME NEW m, JobWish(m), NEW f, Alike(f, m), DOMAIN f = DOMAIN BlankJob,
           m.want.op # "create_delta", NEW rec
    PROVE  Alike(write_result(f, rec), m) /\ DOMAIN write_result(f, rec) = DOMAIN BlankJob
<1> DEFINE new == write_result(f, rec)
           r == Read(m.want.op, rec)
           names == {"crc", "offset", "result"}
<1>1. m.want.op \in Operations
  BY DEF JobWish, IsWish
<1>2. f.operation = operation[m.want.op]
  BY JobAlike
<1>3. (CHOOSE p \in Operations : operation[p] = f.operation) = m.want.op
  BY <1>1, <1>2, OwnCode
<1>4. names \subseteq DOMAIN f
  BY DEF BlankJob
<1>5. \/ new = [f EXCEPT !.result = r.result] \/ new = [f EXCEPT !.crc = r.crc_value]
      \/ new = [f EXCEPT !.offset = r.bytes_completed, !.result = r.result]
      \/ new = [f EXCEPT !.offset = r.bytes_completed] \/ new = f
  BY <1>3, Zenon DEF write_result
<1> HIDE DEF new, r
<1>6. DOMAIN new = DOMAIN f /\ \A n \in DOMAIN f \ names : new[n] = f[n]
  BY <1>4, <1>5
<1> QED  BY <1>6 DEF Alike, new

\* A job that is submitted again as it is stands for the wish that goes on from its result.
LEMMA NextWish ==
    ASSUME NEW m, JobWish(m), NEW e, Alike(e, m), NEW f, Alike(f, m)
    PROVE  LET want == Wanted(e, m)
           IN  Wanted(f, m) = IF /\ want.op \in {"crc", "copy_crc"}
                                 /\ Has(specific_flags(f), crc_specific_flag.read_crc_seed)
                              THEN [want EXCEPT !.arg.crc_seed = f.crc] ELSE want
<1> DEFINE want == Wanted(e, m)
           arg == m.want.arg
           op == m.want.op
           again == op \in {"crc", "copy_crc"} /\ Has(specific_flags(f), 1)
<1>1. crc_specific_flag.read_crc_seed = 1
  BY DEF crc_specific_flag
<1>2. specific_flags(f) = specific_flags(e)
  BY JobAlike
<1>3. DOMAIN arg = DOMAIN View[op] /\ arg = [n \in DOMAIN View[op] |-> arg[n]]
  BY WishArgs DEF JobWish
<1>4. want.op = op
  BY DEF Wanted
<1>5. again <=> /\ want.op \in {"crc", "copy_crc"}
                /\ Has(specific_flags(f), crc_specific_flag.read_crc_seed)
  BY <1>1, <1>4
<1>6. CASE again
  <2>1. Seeded(f, m.want) = [arg EXCEPT !.crc_seed = f.crc]
        /\ Seeded(e, m.want) = [arg EXCEPT !.crc_seed = e.crc]
    BY <1>2, <1>6, Zenon DEF Seeded
  <2>2. Seeded(f, m.want) = [Seeded(e, m.want) EXCEPT !.crc_seed = f.crc]
    <3> HIDE DEF arg
    <3> QED  BY <1>3, <2>1
  <2>3. Wanted(f, m) = [want EXCEPT !.arg.crc_seed = f.crc]
    <3> DEFINE s == Seeded(e, m.want)
               c == f.crc
               next == [want EXCEPT !.arg.crc_seed = c]
    <3>1. want = [op |-> op, arg |-> s, flags |-> m.want.flags]
      BY DEF Wanted
    <3> HIDE DEF want, s, c
    <3>2. next = [op |-> op, arg |-> [s EXCEPT !.crc_seed = c], flags |-> m.want.flags]
      BY <3>1
    <3> QED  BY <2>2, <3>2 DEF Wanted, s, c
  <2> QED  BY <1>5, <1>6, <2>3, Zenon
<1>7. CASE ~again
  <2>1. Seeded(f, m.want) = arg /\ Seeded(e, m.want) = arg
    BY <1>2, <1>7, Zenon DEF Seeded
  <2>2. Wanted(f, m) = want
    BY <2>1 DEF Wanted
  <2> QED  BY <1>5, <1>7, <2>2, Zenon
<1> QED  BY <1>6, <1>7

\* The tasks of the other valid objects are left alone.
OthersKept(o) == \A q \in Objects \ {o} :
    obj'[q] = obj[q] /\ (obj[q].status = "ok" => Task(q)' = Task(q))

\* One object takes up an operation, or is refused one, and the others are left alone.
Retakes(o) == OthersKept(o) /\ \E as : asked' = [asked EXCEPT ![o] = as]

\* One object comes to stand for something else.
Reasked(o, as) ==
    DOMAIN asked' = Objects /\ asked'[o] = as /\ \A q \in Objects \ {o} : asked'[q] = asked[q]

\* Only its fields are written, if it is a job.
Rewrites(o) == DOMAIN job' = Jobs /\ \A q \in Jobs \ {o} : job'[q] = job[q]

\* A step that is about one object.
LEMMA Settling ==
    ASSUME AskedInv, NEW o \in Objects, OthersKept(o), NEW as, Reasked(o, as),
           Rewrites(o), Carries(obj'[o], Task(o)', as),
           o \in Jobs => Refills(obj'[o], job'[o], as) /\ Routed(obj'[o])
    PROVE  AskedInv'
<1>1. DOMAIN asked' = Objects /\ asked'[o] = as /\ \A q \in Objects \ {o} : asked'[q] = asked[q]
  BY DEF Reasked
<1>2. DOMAIN job' = Jobs /\ \A q \in Jobs \ {o} : job'[q] = job[q]
  BY DEF Rewrites
<1>3. \A q \in Objects : Carries(obj'[q], Task(q)', asked'[q])
  <2> SUFFICES ASSUME NEW q \in Objects \ {o} PROVE Carries(obj'[q], Task(q)', asked'[q])
    BY <1>1
  <2>1. Carries(obj[q], Task(q), asked[q])
    BY DEF AskedInv
  <2>2. obj'[q] = obj[q] /\ (obj[q].status = "ok" => Task(q)' = Task(q))
    BY DEF OthersKept
  <2>3. asked'[q] = asked[q]
    BY <1>1
  <2> QED  BY <2>1, <2>2, <2>3 DEF Carries
<1>4. \A j \in Jobs : Refills(obj'[j], job'[j], asked'[j]) /\ Routed(obj'[j])
  <2> SUFFICES ASSUME NEW j \in Jobs, j # o PROVE Refills(obj'[j], job'[j], asked'[j]) /\ Routed(obj'[j])
    BY <1>1, <1>2
  <2>1. j \in Objects \ {o}
    BY DEF Objects
  <2>2. Refills(obj[j], job[j], asked[j]) /\ Routed(obj[j])
    BY DEF AskedInv
  <2>3. obj'[j] = obj[j] /\ job'[j] = job[j] /\ asked'[j] = asked[j]
    BY <1>1, <1>2, <2>1 DEF OthersKept
  <2> QED  BY <2>2, <2>3
<1> QED  BY <1>1, <1>2, <1>3, <1>4 DEF AskedInv

\* An object that is not valid stands for nothing.
LEMMA Refused ==
    ASSUME NEW ob, ob.status # "ok", NEW t, NEW f
    PROVE  Carries(ob, t, None) /\ Refills(ob, f, None)
  BY DEF Carries, Refills

\* Where the task of an object goes, no other has one.
LEMMA OthersAway ==
    ASSUME ApiInv, NEW o \in Objects, NEW p, NEW d, NEW r, NEW st, NEW place,
           Restated(o, st, place), Retasked(p, d, r), \A q \in Objects \ {o} : obj[q].place # p
    PROVE  OthersKept(o)
<1> SUFFICES ASSUME NEW q \in Objects \ {o}
             PROVE  obj'[q] = obj[q] /\ (obj[q].status = "ok" => Task(q)' = Task(q))
  BY DEF OthersKept
<1>1. obj'[q] = obj[q]
  BY DEF Restated
<1>2. ASSUME obj[q].status = "ok" PROVE Task(q)' = Task(q)
  <2>1. obj[q].place \in Places \ {p}
    BY <1>2, OwnPlace DEF ApiInv, Bound
  <2> QED  BY <1>1, <2>1 DEF Retasked, Task
<1> QED  BY <1>1, <1>2

\* A checksum that a job was given goes on to another.
LEMMA ResultSown ==
    ASSUME NEW want, Proper(want), NEW path, NEW dsc, NEW rec, Standing(want, path, dsc, rec),
           NEW f, f.operation = operation[want.op], f.crc \in Seeds, DOMAIN f = DOMAIN BlankJob
    PROVE  write_result(f, rec).crc \in Seeds
<1> DEFINE op == want.op
           new == write_result(f, rec)
           r == Read(op, rec)
<1>1. op \in Operations
  BY DEF Proper
<1>2. (CHOOSE p \in Operations : operation[p] = f.operation) = op
  BY <1>1, OwnCode
<1>3. op \in {"crc", "copy_crc"} => r.crc_value \in Seeds
  BY StandingValues
<1>4. \/ new = [f EXCEPT !.result = r.result]
      \/ op \in {"crc", "copy_crc"} /\ new = [f EXCEPT !.crc = r.crc_value]
      \/ new = [f EXCEPT !.offset = r.bytes_completed, !.result = r.result]
      \/ new = [f EXCEPT !.destination_length = r.delta_record_size, !.result = r.result,
                         !.offset = FirstNote]
      \/ new = [f EXCEPT !.offset = r.bytes_completed] \/ new = f
  BY <1>2, Zenon DEF write_result
<1>5. "crc" \in DOMAIN f
  BY DEF BlankJob
<1> HIDE DEF new, r
<1>6. new.crc \in Seeds
  BY <1>3, <1>4, <1>5
<1> QED  BY <1>6 DEF new

\* What the automatic path makes of a task is still that of what was asked for.
LEMMA Answered ==
    ASSUME ApiInv, AskedInv, NEW o \in Objects, obj[o].status = "ok", Finished(o),
           NEW t \in Resolved(o)
    PROVE  Carries(obj[o], t, asked[o]) /\ ~(obj[o].path = "automatic" /\ Faulted(t.rec))
<1>1. Carries(obj[o], Task(o), asked[o])
  BY DEF AskedInv
<1>2. CASE t = Task(o) /\ ~(obj[o].path = "automatic" /\ Faulted(Task(o).rec))
  BY <1>1, <1>2
<1>3. CASE obj[o].path = "automatic" /\ Faulted(Task(o).rec) /\ t \in Continued(Task(o))
  <2> DEFINE u == Task(o)
             as == asked[o]
  <2>1. Viable(u.dsc, u.rec)
    BY ResolvedViable
  <2>2. /\ as \in Requests /\ as.path = obj[o].path /\ Proper(as.want) /\ Sanctioned(as.want)
        /\ Intact(u.dsc) /\ Standing(as.want, "automatic", u.dsc, u.rec)
    BY <1>1, <1>3 DEF Carries
  <2>3. Faulted(u.rec) /\ t \in Continued(u)
    BY <1>3
  <2> HIDE DEF u, as
  <2>4. Standing(as.want, "automatic", t.dsc, t.rec) /\ Intact(t.dsc) /\ ~Faulted(t.rec)
    BY <2>1, <2>2, <2>3, ContinuedStanding
  <2> QED  BY <1>3, <2>2, <2>4 DEF Carries, as
<1> QED  BY <1>2, <1>3 DEF Resolved

\* The task of an object is replaced by what was made of it; a job may be given its result.
LEMMA Resolving ==
    ASSUME ApiInv, AskedInv, NEW o \in Objects, obj[o].status = "ok", Finished(o),
           NEW t \in Resolved(o), Resolve(o, t), obj' = obj, asked' = asked,
           \/ job' = job
           \/ o \in Jobs /\ job' = [job EXCEPT ![o] = write_result(job[o], t.rec)]
    PROVE  AskedInv' /\ OthersKept(o) /\ Task(o)' = t
<1>1. obj[o].place \in Places /\ DOMAIN task = Places /\ DOMAIN t = {"dsc", "rec"}
  BY ResolvedViable DEF ApiInv, Shapes
<1>2. obj[o].place # None
  BY <1>1, PlaceAssumption
<1>3. OthersKept(o)
  <2> SUFFICES ASSUME NEW q \in Objects \ {o} PROVE Task(q)' = Task(q)
    BY DEF OthersKept
  <2>1. obj[q].place # obj[o].place
    BY <1>2, OneOwner DEF ApiInv
  <2> QED  BY <1>1, <2>1 DEF Resolve, Task
<1>4. Task(o)' = t
  BY <1>1 DEF Resolve, Task
<1>5. Carries(obj'[o], Task(o)', asked[o])
  BY <1>4, Answered
<1>6. DOMAIN asked = Objects /\ DOMAIN job = Jobs
  BY DEF AskedInv
<1>7. Reasked(o, asked[o]) /\ Rewrites(o)
  BY <1>6 DEF Reasked, Rewrites
<1>8. ASSUME o \in Jobs PROVE Refills(obj'[o], job'[o], asked[o]) /\ Routed(obj'[o])
  <2>1. Refills(obj[o], job[o], asked[o]) /\ Routed(obj[o])
    BY <1>8 DEF AskedInv
  <2>2. CASE job' = job
    BY <2>1, <2>2
  <2>3. CASE job' = [job EXCEPT ![o] = write_result(job[o], t.rec)]
    <3> SUFFICES ASSUME asked[o].want.op # "create_delta"
                 PROVE  /\ DOMAIN job'[o] = DOMAIN BlankJob /\ job'[o].crc \in Seeds
                        /\ \E m, e : /\ m.want \in Wants /\ JobWish(m) /\ Alike(job'[o], m)
                                     /\ Alike(e, m) /\ asked[o].want = Wanted(e, m)
      BY <2>1 DEF Refills
    <3> DEFINE f == job[o]
               new == write_result(job[o], t.rec)
    <3>1. DOMAIN f = DOMAIN BlankJob /\ f.crc \in Seeds
          /\ \E m, e : /\ m.want \in Wants /\ JobWish(m) /\ Alike(f, m) /\ Alike(e, m)
                       /\ asked[o].want = Wanted(e, m)
      BY <2>1 DEF Refills
    <3>2. PICK m, e : /\ m.want \in Wants /\ JobWish(m) /\ Alike(f, m) /\ Alike(e, m)
                      /\ asked[o].want = Wanted(e, m)
      BY <3>1
    <3>3. m.want.op = asked[o].want.op
      BY <3>2 DEF Wanted
    <3>4. job'[o] = new
      BY <1>6, <1>8, <2>3
    <3>5. Alike(new, m) /\ DOMAIN new = DOMAIN BlankJob
      BY <3>1, <3>2, <3>3, ResultAlike
    <3>6. Proper(asked[o].want) /\ Standing(asked[o].want, obj[o].path, t.dsc, t.rec)
      BY Answered DEF Carries
    <3>7. f.operation = operation[asked[o].want.op]
      BY <3>2, <3>3, JobAlike
    <3>8. new.crc \in Seeds
      BY <3>1, <3>6, <3>7, ResultSown
    <3> QED  BY <3>2, <3>4, <3>5, <3>8
  <2> QED  BY <2>2, <2>3
<1> QED  BY <1>3, <1>4, <1>5, <1>7, <1>8, Settling

\* A step that changes none of it.
LEMMA Resting ==
    ASSUME AskedInv, obj' = obj, asked' = asked, task' = task, job' = job
    PROVE  AskedInv'
  BY DEF AskedInv, Task

\* The accelerator completes what it took.
LEMMA FinishAsked ==
    ASSUME ApiInv, AskedInv, NEW dsc \in flight, Finish(dsc)
    PROVE  /\ AskedInv'
           /\ \E o \in Objects : obj[o].status = "ok" /\ Task(o).rec = Blank /\ OthersKept(o)
<1>1. PICK o \in Objects : obj[o].status = "ok" /\ Task(o).dsc = dsc /\ Task(o).rec = Blank
  BY DEF ApiInv, Aimed
<1>2. obj[o].place # None /\ Named(dsc) = {obj[o].place} /\ obj[o].place \in Places
  BY <1>1, OwnPlace DEF ApiInv, Bound
<1>3. PICK x \in AcceleratorWrites(Seen(dsc)) : task' = Completed(task, dsc, x)
  BY DEF Finish
<1> DEFINE r == PutAll(Blank, RecordView[OperationOf(dsc)], x)
<1>4. Carries(obj[o], Task(o), asked[o])
  BY DEF AskedInv
<1>5. /\ asked[o] \in Requests /\ asked[o].path = obj[o].path /\ Proper(asked[o].want)
      /\ Sanctioned(asked[o].want) /\ Intact(dsc) /\ Standing(asked[o].want, obj[o].path, dsc, Blank)
  BY <1>1, <1>4 DEF Carries
<1>6. Standing(asked[o].want, obj[o].path, dsc, r)
  BY <1>5, FinishedStanding
<1> HIDE DEF r
<1>7. task' = [q \in Places |-> IF q = obj[o].place THEN [task[q] EXCEPT !.rec = r] ELSE task[q]]
  BY <1>1, <1>2, <1>3 DEF Completed, Task, r
<1>8. obj' = obj /\ asked' = asked /\ job' = job
  BY DEF Finish
<1>9. Task(o)'.dsc = dsc /\ Task(o)'.rec = r
  BY <1>1, <1>2, <1>7, <1>8 DEF ApiInv, Shapes, Task
<1>10. Carries(obj'[o], Task(o)', asked[o])
  BY <1>1, <1>5, <1>6, <1>8, <1>9 DEF Carries
<1>11. OthersKept(o)
  <2> SUFFICES ASSUME NEW q \in Objects \ {o}, obj[q].status = "ok" PROVE Task(q)' = Task(q)
    BY <1>8 DEF OthersKept
  <2>1. obj[q].place # obj[o].place /\ obj[q].place \in Places
    BY <1>2, OneOwner, OwnPlace DEF ApiInv, Bound
  <2> QED  BY <1>7, <1>8, <2>1 DEF Task
<1>12. Reasked(o, asked[o]) /\ Rewrites(o)
  BY <1>8 DEF Reasked, Rewrites, AskedInv
<1>13. o \in Jobs => Refills(obj'[o], job'[o], asked[o]) /\ Routed(obj'[o])
  BY <1>8 DEF AskedInv
<1> QED  BY <1>1, <1>10, <1>11, <1>12, <1>13, Settling

\* Asking again, waiting and completing.
LEMMA RestingSteps ==
    ASSUME ApiInv, AskedInv,
           \/ Return \/ Device \/ UNCHANGED vars
           \/ \E j \in Jobs : WaitJob(j) \/ CheckJob(j)
           \/ \E h \in Handlers : GetResult(h) \/ IsFinished(h)
    PROVE  AskedInv'
<1>1. Jobs \subseteq Objects /\ Handlers \subseteq Objects
  BY DEF Objects
<1>2. CASE Return
  <2>1. waiting \in Objects /\ obj[waiting].status = "ok" /\ Finished(waiting)
    BY <1>2, SMTT(30) DEF Return, ApiInv, Waits
  <2>2. obj' = obj /\ asked' = asked
    BY <1>2 DEF Return
  <2>3. PICK t \in Resolved(waiting) :
            /\ Resolve(waiting, t)
            /\ job' = IF waiting \in Jobs
                      THEN [job EXCEPT ![waiting] = write_result(job[waiting], t.rec)] ELSE job
    BY <1>2 DEF Return
  <2> QED  BY <2>1, <2>2, <2>3, Resolving
<1>3. CASE Device
  BY <1>3, FinishAsked DEF Device
<1>4. CASE UNCHANGED vars
  BY <1>4, Resting DEF vars
<1>5. ASSUME NEW j \in Jobs, WaitJob(j) PROVE AskedInv'
  BY <1>5, Resting DEF WaitJob
<1>6. ASSUME NEW j \in Jobs, CheckJob(j) PROVE AskedInv'
  <2>1. j \in Objects /\ obj[j].status = "ok" /\ Finished(j) /\ obj' = obj /\ asked' = asked
    BY <1>1, <1>6 DEF CheckJob
  <2>2. PICK t \in Resolved(j) :
            Resolve(j, t) /\ job' = [job EXCEPT ![j] = write_result(job[j], t.rec)]
    BY <1>6 DEF CheckJob
  <2> QED  BY <2>1, <2>2, Resolving
<1>7. ASSUME NEW h \in Handlers, GetResult(h) PROVE AskedInv'
  BY <1>7, Resting DEF GetResult
<1>8. ASSUME NEW h \in Handlers, IsFinished(h) PROVE AskedInv'
  <2>1. h \in Objects /\ obj[h].status = "ok" /\ Finished(h) /\ obj' = obj /\ asked' = asked
        /\ job' = job
    BY <1>1, <1>8 DEF IsFinished
  <2>2. PICK t \in Resolved(h) : Resolve(h, t)
    BY <1>8 DEF IsFinished
  <2> QED  BY <2>1, <2>2, Resolving
<1> QED  BY <1>2, <1>3, <1>4, <1>5, <1>6, <1>7, <1>8

\* An object is made or goes away.
LEMMA CreationSteps ==
    ASSUME ApiInv, AskedInv,
           \/ \E j \in Jobs : FinalizeJob(j) \/ \E path \in app.paths : InitJob(j, path)
           \/ \E h \in Handlers : Default(h) \/ Destroy(h)
    PROVE  AskedInv'
<1> USE DEF Objects
<1>1. DOMAIN obj = Objects /\ DOMAIN task = Places
      /\ \A p \in Places : DOMAIN task[p] = {"dsc", "rec"}
  BY DEF ApiInv, Shapes
<1>2. DOMAIN asked = Objects /\ DOMAIN job = Jobs
  BY DEF AskedInv
<1>3. ASSUME NEW j \in Jobs, FinalizeJob(j) PROVE AskedInv'
  <2>1. obj' = [obj EXCEPT ![j] = Dead] /\ asked' = [asked EXCEPT ![j] = None]
        /\ task' = task /\ job' = job
    BY <1>3 DEF FinalizeJob
  <2>2. OthersKept(j) /\ Reasked(j, None) /\ Rewrites(j) /\ obj'[j].status # "ok"
    BY <1>1, <1>2, <2>1 DEF OthersKept, Reasked, Rewrites, Task, Dead
  <2>3. Routed(obj'[j])
    BY <1>1, <2>1 DEF Routed, Dead
  <2> QED  BY <2>2, <2>3, Settling, Refused
<1>4. ASSUME NEW j \in Jobs, NEW path \in app.paths, InitJob(j, path) PROVE AskedInv'
  <2>1. /\ obj' = [obj EXCEPT ![j] = [status |-> "idle", path |-> path, place |-> j]]
        /\ asked' = [asked EXCEPT ![j] = None] /\ job' = [job EXCEPT ![j] = BlankJob]
        /\ task' = [task EXCEPT ![j] = BlankTask]
    BY <1>4 DEF InitJob
  <2>2. Reasked(j, None) /\ Rewrites(j) /\ obj'[j].status # "ok"
    BY <1>1, <1>2, <2>1 DEF Reasked, Rewrites
  <2>3. OthersKept(j)
    <3>1. \A q \in Objects \ {j} : obj[q].place # j
      BY PlaceAssumption DEF ApiInv, InPlace, Objects
    <3> QED  BY <1>1, <2>1, <3>1 DEF OthersKept, Task
  <2>4. Routed(obj'[j])
    <3>1. path \in Paths
      BY <1>4, ApplicationAssumption DEF ApiInv, Shapes
    <3> QED  BY <1>1, <2>1, <3>1 DEF Routed
  <2> QED  BY <2>2, <2>3, <2>4, Settling, Refused
<1>5. ASSUME NEW h \in Handlers, Destroy(h) PROVE AskedInv'
  <2>1. obj' = [obj EXCEPT ![h] = Dead] /\ asked' = [asked EXCEPT ![h] = None]
        /\ task' = task /\ job' = job
    BY <1>5 DEF Destroy
  <2>2. OthersKept(h) /\ Reasked(h, None) /\ Rewrites(h) /\ obj'[h].status # "ok"
    BY <1>1, <1>2, <2>1 DEF OthersKept, Reasked, Rewrites, Task, Dead
  <2>3. h \notin Jobs
    BY PlaceAssumption
  <2> QED  BY <2>2, <2>3, Settling, Refused
<1>6. ASSUME NEW h \in Handlers, Default(h) PROVE AskedInv'
  <2> DEFINE p == Fresh
  <2>1. /\ obj' = [obj EXCEPT ![h] = DefaultHandler(p)] /\ obj[h].status = "dead"
        /\ asked' = asked /\ job' = job /\ task' = [task EXCEPT ![p] = BlankTask]
    BY <1>6 DEF Default
  <2>2. \A q \in Objects : obj[q].place # p
    BY FreshBuffer
  <2> HIDE DEF p
  <2>3. asked[h] = None
    BY <2>1 DEF AskedInv, Carries
  <2>4. Reasked(h, None) /\ Rewrites(h) /\ obj'[h].status # "ok"
    BY <1>1, <1>2, <2>1, <2>3 DEF Reasked, Rewrites, DefaultHandler
  <2>5. h \notin Jobs
    BY PlaceAssumption
  <2>6. OthersKept(h)
    BY <1>1, <2>1, <2>2 DEF OthersKept, Task
  <2> QED  BY <2>4, <2>5, <2>6, Settling, Refused
<1> QED  BY <1>3, <1>4, <1>5, <1>6

\* A move takes what was asked for along.
LEMMA MoveSteps ==
    ASSUME ApiInv, AskedInv, NEW g \in Handlers, NEW h \in Handlers,
           MoveConstruct(g, h) \/ MoveAssign(g, h)
    PROVE  AskedInv'
<1>1. /\ g \in Objects /\ h \in Objects /\ g # h /\ g \notin Jobs /\ h \notin Jobs
      /\ Jobs \subseteq Objects
  BY PlaceAssumption DEF Objects, MoveConstruct, MoveAssign
<1>2. /\ DOMAIN obj = Objects /\ DOMAIN asked = Objects /\ DOMAIN job = Jobs
      /\ DOMAIN obj[h] = {"status", "path", "place"}
  BY <1>1 DEF ApiInv, Shapes, AskedInv
<1>3. task' = task /\ job' = job /\ asked' = [asked EXCEPT ![g] = asked[h], ![h] = asked[g]]
  BY DEF MoveConstruct, MoveAssign, Swap
<1>4. /\ DOMAIN asked' = Objects /\ asked'[g] = asked[h] /\ asked'[h] = asked[g]
      /\ \A q \in Objects \ {g, h} : asked'[q] = asked[q]
  BY <1>1, <1>2, <1>3
<1>5. /\ obj'[g] = obj[h]
      /\ obj'[h] = obj[g] \/ (obj[g].status = "dead" /\ obj'[h].status = "error")
      /\ \A q \in Objects \ {g, h} : obj'[q] = obj[q]
  <2>1. CASE MoveConstruct(g, h)
    <3>1. obj' = [obj EXCEPT ![g] = obj[h], ![h] = MovedFrom(h)] /\ obj[g].status = "dead"
      BY <2>1 DEF MoveConstruct
    <3>2. MovedFrom(h).status = "error"
      BY <1>2 DEF MovedFrom
    <3> QED  BY <1>1, <1>2, <3>1, <3>2
  <2>2. CASE MoveAssign(g, h)
    <3>1. obj' = [obj EXCEPT ![g] = obj[h], ![h] = obj[g]]
      BY <2>2 DEF MoveAssign, Swap
    <3> QED  BY <1>1, <1>2, <3>1
  <2> QED  BY <2>1, <2>2
<1>6. \A o \in Objects : Carries(obj[o], Task(o), asked[o])
  BY DEF AskedInv
<1>7. ASSUME NEW o \in Objects PROVE Carries(obj'[o], Task(o)', asked'[o])
  <2>1. CASE o = g
    <3>1. Task(o)' = Task(h)
      BY <1>3, <1>5, <2>1 DEF Task
    <3> QED  BY <1>1, <1>4, <1>5, <1>6, <2>1, <3>1
  <2>2. CASE o = h /\ obj'[h] = obj[g]
    <3>1. Task(o)' = Task(g)
      BY <1>3, <2>2 DEF Task
    <3> QED  BY <1>1, <1>4, <1>6, <2>2, <3>1
  <2>3. CASE o = h /\ obj[g].status = "dead" /\ obj'[h].status = "error"
    <3>1. asked[g] = None
      BY <1>1, <1>6, <2>3 DEF Carries
    <3> QED  BY <1>4, <2>3, <3>1, Refused
  <2>4. CASE o \notin {g, h}
    <3>1. Task(o)' = Task(o) /\ obj'[o] = obj[o] /\ asked'[o] = asked[o]
      BY <1>3, <1>4, <1>5, <2>4 DEF Task
    <3> QED  BY <1>6, <3>1
  <2> QED  BY <1>5, <2>1, <2>2, <2>3, <2>4
<1>8. \A j \in Jobs : Refills(obj'[j], job'[j], asked'[j]) /\ Routed(obj'[j])
  <2> SUFFICES ASSUME NEW j \in Jobs PROVE Refills(obj'[j], job'[j], asked'[j]) /\ Routed(obj'[j])
    OBVIOUS
  <2>1. obj'[j] = obj[j] /\ asked'[j] = asked[j] /\ job'[j] = job[j]
    BY <1>1, <1>3, <1>4, <1>5
  <2> QED  BY <2>1 DEF AskedInv
<1> QED  BY <1>2, <1>3, <1>4, <1>7, <1>8 DEF AskedInv

\* A job whose checksum has a seed.
LEMMA SeedAsked ==
    ASSUME NEW m, JobWish(m), NEW f, Alike(f, m), m.want.op \in {"crc", "copy_crc"},
           Has(specific_flags(f), 1)
    PROVE  m.want.arg.crc_seed # 0
<1>1. specific_flags(f) = SpecialOf(m.want)
  BY JobAlike
<1>2. m.want.arg.operation_specific_flags \in CrcOptions
  BY DEF JobWish
<1>3. Arg(m.want, "operation_specific_flags") = m.want.arg.operation_specific_flags
  BY WishArgs, HasOptions, ZenonT(60) DEF JobWish
<1> SUFFICES ASSUME m.want.arg.crc_seed = 0 PROVE FALSE
  OBVIOUS
<1>4. SpecialOf(m.want) \in CrcOptions
  BY <1>2, <1>3 DEF SpecialOf, CrcOptions
<1>5. ~Has(SpecialOf(m.want), 1)
  BY <1>4 DEF CrcOptions, Has
<1> QED  BY <1>1, <1>5

\* What a job stands for when it is submitted may be asked for.
LEMMA WantedKnown ==
    ASSUME NEW m, m.want \in Wants, JobWish(m), NEW f, Alike(f, m), f.crc \in Seeds
    PROVE  Wanted(f, m) \in Wishes
<1> DEFINE op == m.want.op
           arg == m.want.arg
           c == f.crc
<1>1. m.want = [op |-> op, arg |-> arg, flags |-> m.want.flags]
  BY DEF JobWish, IsWish
<1>2. CASE Seeded(f, m.want) = arg
  <2>1. Wanted(f, m) = m.want
    BY <1>1, <1>2 DEF Wanted
  <2> QED  BY <2>1 DEF Wishes
<1>3. CASE Seeded(f, m.want) # arg
  <2>1. op \in {"crc", "copy_crc"} /\ Has(specific_flags(f), 1)
        /\ Seeded(f, m.want) = [arg EXCEPT !.crc_seed = c]
    BY <1>3, Zenon DEF Seeded
  <2>2. m.want \in Crcs
    BY <2>1, SeedAsked DEF Crcs
  <2>3. arg = [n \in DOMAIN View[op] |-> arg[n]] /\ "crc_seed" \in DOMAIN View[op]
    BY <2>1, WishArgs, SMTT(60) DEF JobWish, View, crc_descriptor, copy_crc_descriptor
  <2>5. c \in Seeds
    OBVIOUS
  <2>6. Wanted(f, m) = [m.want EXCEPT !.arg.crc_seed = c]
    <3> DEFINE s == [arg EXCEPT !.crc_seed = c]
               w == m.want
               g == m.want.flags
    <3>1. Wanted(f, m) = [op |-> op, arg |-> s, flags |-> g]
      BY <2>1 DEF Wanted
    <3>2. w = [op |-> op, arg |-> arg, flags |-> g]
      BY <1>1
    <3> HIDE DEF w, op, arg, c, g
    <3>3. [w EXCEPT !.arg.crc_seed = c] = [op |-> op, arg |-> s, flags |-> g]
      BY <3>2
    <3> QED  BY <3>1, <3>3 DEF w
  <2> QED  BY <2>2, <2>5, <2>6 DEF Wishes, Seeds
<1> QED  BY <1>2, <1>3

\* A job that is filled in has a seed.
LEMMA FilledSown ==
    ASSUME NEW m, JobWish(m)
    PROVE  Job(m).crc \in Seeds
<1>1. "crc" \in DOMAIN BlankJob \ {"flags"}
  BY DEF BlankJob
<1>2. Job(m)["crc"] = Arg(m.want, "crc_seed")
  BY <1>1, JobCommon, JobShape
<1>3. Arg(m.want, "crc_seed") \in Nat /\ Arg(m.want, "crc_seed") < CrcRange /\ CrcRange \in Nat
  BY WishArgs DEF JobWish, IsWish, CrcRange
<1> QED  BY <1>2, <1>3 DEF Seeds

\* A task that was taken is that of what was asked for.
LEMMA OfferStanding ==
    ASSUME NEW p, NEW d, NEW path, NEW r, Offer(p, d, path, "success", r)
    PROVE  Sanctioned(Seen(d)) /\ Standing(Seen(d), path, d, r)
<1>1. OperationOf(d) = Seen(d).op
  BY DEF Seen
<1> QED  BY <1>1 DEF Offer, Sanctioned, Standing, RecordOf

\* A task lands where its object has it, of what was asked for if it is accepted.
LEMMA Accepting ==
    ASSUME ApiInv, AskedInv, NEW o \in Objects, NEW p, NEW d, NEW path, NEW s, NEW st, NEW r, NEW as,
           Restated(o, st, p), Offer(p, d, path, s, r), st = "ok" => s = "success",
           \A q \in Objects \ {o} : obj[q].place # p,
           Reasked(o, IF st = "ok" THEN as ELSE None), Rewrites(o),
           st = "ok" => /\ Seen(d) = as.want /\ Intact(d) /\ Proper(as.want)
                        /\ as \in Requests /\ as.path = path /\ obj'[o].path = path,
           o \in Jobs => (st = "ok" => Refills(obj'[o], job'[o], as)) /\ Routed(obj'[o])
    PROVE  AskedInv' /\ OthersKept(o)
<1>0. Retasked(p, d, r)
  BY DEF Offer
<1>1. OthersKept(o)
  BY <1>0, OthersAway
<1>2. obj'[o].status = st /\ Task(o)'.dsc = d /\ Task(o)'.rec = r
  BY <1>0 DEF Restated, Retasked, Task
<1>3. CASE st = "ok"
  <2>1. Sanctioned(as.want) /\ Standing(as.want, path, d, r)
    BY <1>3, OfferStanding
  <2>2. Reasked(o, as) /\ Carries(obj'[o], Task(o)', as)
    BY <1>2, <1>3, <2>1 DEF Carries
  <2> QED  BY <1>1, <1>3, <2>2, Settling
<1>4. CASE st # "ok"
  <2>1. Reasked(o, None) /\ obj'[o].status # "ok"
    BY <1>2, <1>4
  <2> QED  BY <1>1, <2>1, Settling, Refused
<1> QED  BY <1>3, <1>4

\* An object is refused before it has a task.
LEMMA Refusing ==
    ASSUME AskedInv, NEW o \in Objects, NEW st, NEW p, Restated(o, st, p), st # "ok",
           task' = task, Reasked(o, None), Rewrites(o), o \in Jobs => Routed(obj'[o])
    PROVE  AskedInv' /\ OthersKept(o)
<1>1. OthersKept(o) /\ obj'[o].status # "ok"
  BY DEF Restated, OthersKept, Task
<1> QED  BY <1>1, Settling, Refused

\* dml::submit of a job whose fields are those that m fills in, or goes on from.
LEMMA SubmitStep ==
    ASSUME ApiInv, AskedInv, NEW j \in Jobs, NEW fields, NEW want, NEW mode,
           obj[j].status # "dead", Submit(j, fields, want, mode), NEW m, JobWish(m),
           Alike(clear_copy_only(fields), m),
           DOMAIN clear_copy_only(fields) = DOMAIN BlankJob,
           m.want \in Wants, clear_copy_only(fields).crc \in Seeds,
           want = Wanted(clear_copy_only(fields), m)
    PROVE  AskedInv' /\ Retakes(j)
<1>1. j \in Objects /\ j \in Places \ {Temporary} /\ j # None
  BY PlaceAssumption DEF Objects, Places
<1>2. obj[j].place = j /\ obj[j].path \in Routes /\ obj[j].path \in Paths
  BY <1>1 DEF ApiInv, InPlace, Shapes, AskedInv, Routed
<1>3. \A q \in Objects \ {j} : obj[q].place # j
  BY <1>1, PlaceAssumption DEF ApiInv, InPlace, Objects
<1>4. DOMAIN asked = Objects /\ DOMAIN job = Jobs
  BY DEF AskedInv
<1>5. CASE range_check(fields) # "ok"
  <2> DEFINE st == range_check(fields)
  <2>1. /\ obj' = [obj EXCEPT ![j].status = st] /\ task' = task
        /\ job' = [job EXCEPT ![j] = fields] /\ asked' = [asked EXCEPT ![j] = None]
    BY <1>5 DEF Submit
  <2> HIDE DEF st
  <2>2. Restated(j, st, j)
    BY <1>1, <1>2, <2>1 DEF ApiInv, Shapes, Restated
  <2>3. Reasked(j, None) /\ Rewrites(j)
    BY <1>1, <1>4, <2>1 DEF Reasked, Rewrites
  <2>4. Routed(obj'[j])
    BY <1>1, <1>2, <2>1 DEF ApiInv, Shapes, Routed
  <2>5. AskedInv' /\ OthersKept(j)
    BY <1>1, <1>5, <2>1, <2>2, <2>3, <2>4, Refusing DEF st
  <2> QED  BY <2>1, <2>5 DEF Retakes
<1>6. CASE range_check(fields) = "ok"
  <2> DEFINE checked == clear_copy_only(fields)
             made == make_task(checked)
             tmp == rebind(made, Address[Temporary])
             dsc == MoveTask(tmp, j)
             as == [want |-> want, path |-> obj[j].path]
  <2>1. PICK s \in ml_submit(dsc, obj[j].path) :
            /\ Offered([task EXCEPT ![j] = [dsc |-> dsc, rec |-> Blank]], dsc, s.taker)
            /\ job' = [job EXCEPT ![j] = checked]
            /\ obj' = [obj EXCEPT ![j].status = IF s.status = "success" THEN "ok" ELSE s.status]
            /\ asked' = [asked EXCEPT ![j] = IF s.status = "success" THEN as ELSE None]
    BY <1>6 DEF Submit
  <2>2. Named(dsc) = {j} /\ Bindable(dsc)
    <3>1. Bindable(made) /\ Temporary \in Places
      BY TaskBindable DEF Places
    <3> HIDE DEF made
    <3>2. Bindable(tmp)
      BY <3>1, Rebound
    <3> HIDE DEF tmp
    <3> QED  BY <1>1, <3>2, Rebound DEF MoveTask
  <2>3. Seen(dsc) = want /\ Intact(dsc) /\ Proper(want) /\ want \in Wishes
    <3> HIDE DEF checked
    <3> QED  BY JobSeen, WishProper, WantedKnown DEF MoveTask, checked
  <2> HIDE DEF dsc
  <2>4. PICK r : Offer(j, dsc, obj[j].path, s.status, r)
    BY <1>1, <1>2, <2>1, <2>2, Offering DEF ApiInv
  <2> DEFINE st == IF s.status = "success" THEN "ok" ELSE s.status
  <2>5. st = "ok" <=> s.status = "success"
    BY <2>4 DEF Offer, Statuses, Refusals
  <2>6. Restated(j, st, j)
    BY <1>1, <1>2, <2>1 DEF ApiInv, Shapes, Restated
  <2> HIDE DEF st
  <2>7. Reasked(j, IF st = "ok" THEN as ELSE None)
    <3> HIDE DEF as
    <3> QED  BY <1>1, <1>4, <2>1, <2>5 DEF Reasked
  <2>8. Rewrites(j) /\ job'[j] = checked
    <3> HIDE DEF checked
    <3> QED  BY <1>4, <2>1 DEF Rewrites
  <2>9. obj'[j].path = obj[j].path /\ Routed(obj'[j])
    BY <1>1, <1>2, <2>1 DEF ApiInv, Shapes, Routed
  <2>10. as.want = want /\ as.path = obj[j].path /\ as \in Requests
    BY <1>2, <2>3 DEF Requests
  <2> HIDE DEF as, checked
  <2>11. Refills(obj'[j], job'[j], as)
    BY <2>8, <2>10 DEF Refills, checked
  <2>12. AskedInv' /\ OthersKept(j)
    BY <1>1, <1>3, <2>3, <2>4, <2>5, <2>6, <2>7, <2>8, <2>9, <2>10, <2>11, Accepting
  <2> QED  BY <2>1, <2>12 DEF Retakes
<1> QED  BY <1>5, <1>6

\* A job that is filled in and submitted.
LEMMA SubmitJobStep ==
    ASSUME ApiInv, AskedInv, app.api = "job", NEW j \in Jobs, NEW mode, SubmitJob(j, mode)
    PROVE  AskedInv' /\ Retakes(j)
<1>1. PICK m \in app.requests : Submit(j, AsJob(m.want, m.copy_only), m.want, mode)
  BY DEF SubmitJob
<1>2. JobWish(m) /\ obj[j].status # "dead"
  BY WishAssumption, SMTT(60) DEF ApiInv, Shapes, SubmitJob
<1> DEFINE fields == AsJob(m.want, m.copy_only)
<1>3. clear_copy_only(fields) = Job(m)
  BY DEF Job
<1> HIDE DEF fields
<1>4. /\ Alike(Job(m), m) /\ Wanted(Job(m), m) = m.want /\ DOMAIN Job(m) = DOMAIN BlankJob
      /\ Job(m).crc \in Seeds
  BY <1>2, FilledIn, FilledSown, JobShape
<1>5. m.want \in Wants
  BY DEF ApiInv, Shapes, Wants
<1> QED  BY <1>1, <1>2, <1>3, <1>4, <1>5, SubmitStep DEF fields

\* A job that is submitted again as it is.
LEMMA ResubmitStep ==
    ASSUME ApiInv, AskedInv, NEW j \in Jobs, ResubmitJob(j)
    PROVE  AskedInv' /\ Retakes(j)
<1> DEFINE want == asked[j].want
           f == job[j]
           next == IF /\ want.op \in {"crc", "copy_crc"}
                      /\ Has(specific_flags(f), crc_specific_flag.read_crc_seed)
                   THEN [want EXCEPT !.arg.crc_seed = f.crc] ELSE want
<1>1. obj[j].status = "ok" /\ want.op # "create_delta" /\ Submit(j, f, next, "submit")
  BY Zenon DEF ResubmitJob
<1>2. DOMAIN f = DOMAIN BlankJob /\ f.crc \in Seeds
      /\ \E m, e : /\ m.want \in Wants /\ JobWish(m) /\ Alike(f, m) /\ Alike(e, m)
                   /\ want = Wanted(e, m)
  BY <1>1 DEF AskedInv, Refills
<1>3. PICK m, e : /\ m.want \in Wants /\ JobWish(m) /\ Alike(f, m) /\ Alike(e, m)
                  /\ want = Wanted(e, m)
  BY <1>2
<1>4. next = Wanted(f, m)
  <2> HIDE DEF f, want
  <2>1. LET w == Wanted(e, m)
        IN  Wanted(f, m) = IF /\ w.op \in {"crc", "copy_crc"}
                              /\ Has(specific_flags(f), crc_specific_flag.read_crc_seed)
                           THEN [w EXCEPT !.arg.crc_seed = f.crc] ELSE w
    BY <1>3, NextWish
  <2> QED  BY <1>3, <2>1, Zenon
<1> HIDE DEF next, f
<1>5. clear_copy_only(f) = f
  <2>1. ~Has(flags_of(f), 32)
    BY <1>3, JobAlike
  <2> QED  BY <2>1, Zenon DEF clear_copy_only, DML_FLAG_COPY_ONLY
<1>6. obj[j].status # "dead"
  BY <1>1
<1> QED  BY <1>1, <1>2, <1>3, <1>4, <1>5, <1>6, SubmitStep

\* dml::submit into a handler.
LEMMA SubmitCallStep ==
    ASSUME ApiInv, AskedInv, app.api = "hl", NEW h \in Handlers, NEW path \in app.paths,
           SubmitCall(h, path)
    PROVE  AskedInv' /\ Retakes(h)
<1> DEFINE p == Fresh
<1>1. h \in Objects /\ h \notin Jobs
  BY PlaceAssumption DEF Objects
<1>2. p \in Places \ {Temporary} /\ \A q \in Objects : obj[q].place # p
  BY FreshBuffer
<1>3. path \in Routes /\ path \in Paths
  BY ApplicationAssumption DEF ApiInv, Shapes, Routes
<1>4. DOMAIN asked = Objects /\ DOMAIN job = Jobs /\ job' = job
  BY DEF AskedInv, SubmitCall
<1> DEFINE over(m) == submit_overload(CallOf(m))
           bound(m) == rebind(over(m).dsc, Address[p])
<1>5. PICK m \in app.requests : \E s \in ml_submit(bound(m), path) :
        LET tasks == [task EXCEPT ![p] = [dsc |-> bound(m), rec |-> Blank]]
        IN  /\ IF over(m).check = "ok" THEN Offered(tasks, bound(m), s.taker)
               ELSE task' = tasks /\ UNCHANGED flight
            /\ obj' = [obj EXCEPT ![h] = handler_of(over(m), p, path, s)]
            /\ asked' = [asked EXCEPT ![h] = IF over(m).check = "ok" /\ s.status = "success"
                                             THEN [want |-> m.want, path |-> path] ELSE None]
  BY DEF SubmitCall, CallOf
<1> DEFINE ov == over(m)
           dsc == bound(m)
           tasks == [task EXCEPT ![p] = [dsc |-> dsc, rec |-> Blank]]
           as == [want |-> m.want, path |-> path]
<1>6. PICK s \in ml_submit(dsc, path) :
        /\ IF ov.check = "ok" THEN Offered(tasks, dsc, s.taker)
           ELSE task' = tasks /\ UNCHANGED flight
        /\ obj' = [obj EXCEPT ![h] = handler_of(ov, p, path, s)]
        /\ asked' = [asked EXCEPT ![h] = IF ov.check = "ok" /\ s.status = "success"
                                         THEN as ELSE None]
  BY <1>5
<1>7. CallWish(m) /\ m.op \in DOMAIN OperationObject
  BY WishAssumption, ApplicationAssumption, SMTT(60) DEF ApiInv, Shapes
<1>8. Bindable(ov.dsc)
  <2> DEFINE call == CallOf(m)
  <2>1. call.op = m.op
    BY CallParts
  <2> HIDE DEF call
  <2> QED  BY <1>7, <2>1, CallBindable DEF call
<1>9. ov.check = "ok" => Seen(dsc) = m.want /\ Intact(dsc) /\ Proper(m.want)
  BY <1>7, CallSeen, WishProper
<1>10. as.want = m.want /\ as.path = path /\ as \in Requests
  <2>1. m.want \in Wishes
    BY DEF ApiInv, Shapes, Wants, Wishes
  <2> QED  BY <1>3, <2>1 DEF Requests
<1> HIDE DEF ov, p, over, as
<1>11. Named(dsc) = {p} /\ Bindable(dsc)
  BY <1>2, <1>8, Rebound DEF ov
<1> HIDE DEF dsc, bound
<1>12. CASE ov.check = "ok"
  <2>1. PICK r : Offer(p, dsc, path, s.status, r)
    BY <1>2, <1>3, <1>6, <1>11, <1>12, Offering DEF ApiInv
  <2> DEFINE st == IF s.status = "success" THEN "ok" ELSE s.status
  <2>2. st = "ok" <=> s.status = "success"
    BY <2>1 DEF Offer, Statuses, Refusals
  <2>3. Restated(h, st, p)
    BY <1>1, <1>3, <1>6, <1>12 DEF ApiInv, Shapes, Restated, handler_of, Routes
  <2> HIDE DEF st
  <2>4. st = "ok" => obj'[h].path = path
    BY <1>1, <1>6, <1>12, <2>2 DEF ApiInv, Shapes, handler_of
  <2>5. Reasked(h, IF st = "ok" THEN as ELSE None) /\ Rewrites(h)
    BY <1>1, <1>4, <1>6, <1>12, <2>2 DEF Reasked, Rewrites
  <2>6. AskedInv' /\ OthersKept(h)
    BY <1>1, <1>2, <1>9, <1>10, <1>12, <2>1, <2>2, <2>3, <2>4, <2>5, Accepting
  <2> QED  BY <1>6, <2>6 DEF Retakes
<1>13. CASE ov.check # "ok"
  <2>1. Retasked(p, dsc, Blank)
    BY <1>2, <1>6, <1>13, Rewritten DEF ApiInv
  <2>2. Restated(h, ov.check, p)
    BY <1>1, <1>3, <1>6, <1>13 DEF ApiInv, Shapes, Restated, handler_of, Routes
  <2>3. Reasked(h, None) /\ Rewrites(h)
    BY <1>1, <1>4, <1>6, <1>13 DEF Reasked, Rewrites
  <2>4. OthersKept(h) /\ obj'[h].status # "ok"
    BY <1>1, <1>2, <1>13, <2>1, <2>2, OthersAway DEF Restated
  <2>5. AskedInv'
    BY <1>1, <2>3, <2>4, Settling, Refused
  <2> QED  BY <1>6, <2>4, <2>5 DEF Retakes
<1> QED  BY <1>12, <1>13

\* dml::execute
LEMMA ExecuteStep ==
    ASSUME ApiInv, AskedInv, app.api = "hl", NEW path \in app.paths, Execute(path)
    PROVE  AskedInv' /\ Retakes(Call)
<1>1. Call \in Objects /\ Call \notin Jobs /\ Call \in Places \ {Temporary}
  BY PlaceAssumption DEF Objects, Places
<1>2. path \in Routes /\ path \in Paths
  BY ApplicationAssumption DEF ApiInv, Shapes, Routes
<1>3. \A q \in Objects \ {Call} : obj[q].place # Call
  BY <1>1, PlaceAssumption DEF ApiInv, InPlace, Objects
<1>4. DOMAIN asked = Objects /\ DOMAIN job = Jobs /\ job' = job
  BY DEF AskedInv, Execute
<1> DEFINE over(m) == submit_overload(CallOf(m))
           bound(m) == rebind(over(m).dsc, Address[Call])
<1>5. PICK m \in app.requests :
        IF over(m).check # "ok"
        THEN /\ obj' = [obj EXCEPT ![Call].status = over(m).check] /\ task' = task
             /\ asked' = [asked EXCEPT ![Call] = None]
        ELSE \E s \in ml_submit(bound(m), path) :
                /\ Offered([task EXCEPT ![Call] = [dsc |-> bound(m), rec |-> Blank]], bound(m),
                           s.taker)
                /\ obj' = [obj EXCEPT ![Call] =
                        [status |-> IF s.status = "success" THEN "ok"
                                    ELSE IF validate(bound(m)) # "success" THEN s.status ELSE "error",
                         path |-> path, place |-> Call]]
                /\ asked' = [asked EXCEPT ![Call] =
                        IF s.status = "success" THEN [want |-> m.want, path |-> path] ELSE None]
  BY DEF Execute, execute_overload, CallOf
<1> DEFINE ov == over(m)
           dsc == bound(m)
           as == [want |-> m.want, path |-> path]
<1>6. CallWish(m) /\ m.op \in DOMAIN OperationObject
  BY WishAssumption, ApplicationAssumption, SMTT(60) DEF ApiInv, Shapes
<1>7. Bindable(ov.dsc)
  <2> DEFINE call == CallOf(m)
  <2>1. call.op = m.op
    BY CallParts
  <2> HIDE DEF call
  <2> QED  BY <1>6, <2>1, CallBindable DEF call
<1>8. ov.check = "ok" => Seen(dsc) = m.want /\ Intact(dsc) /\ Proper(m.want)
  BY <1>6, CallSeen, WishProper
<1>9. CASE ov.check # "ok"
  <2>1. /\ obj' = [obj EXCEPT ![Call].status = ov.check] /\ task' = task
        /\ asked' = [asked EXCEPT ![Call] = None]
    BY <1>5, <1>9
  <2> HIDE DEF ov
  <2>2. Restated(Call, ov.check, obj[Call].place)
    BY <1>1, <2>1 DEF ApiInv, Shapes, Restated
  <2>3. Reasked(Call, None) /\ Rewrites(Call)
    BY <1>1, <1>4, <2>1 DEF Reasked, Rewrites
  <2>4. AskedInv' /\ OthersKept(Call)
    BY <1>1, <1>9, <2>1, <2>2, <2>3, Refusing
  <2> QED  BY <2>1, <2>4 DEF Retakes
<1>10. CASE ov.check = "ok"
  <2>1. PICK s \in ml_submit(dsc, path) :
            /\ Offered([task EXCEPT ![Call] = [dsc |-> dsc, rec |-> Blank]], dsc, s.taker)
            /\ obj' = [obj EXCEPT ![Call] =
                    [status |-> IF s.status = "success" THEN "ok"
                                ELSE IF validate(dsc) # "success" THEN s.status ELSE "error",
                     path |-> path, place |-> Call]]
            /\ asked' = [asked EXCEPT ![Call] = IF s.status = "success" THEN as ELSE None]
    BY <1>5, <1>10
  <2>2. /\ dsc = rebind(ov.dsc, Address[Call]) /\ as.want = m.want /\ as.path = path
        /\ as \in Requests
    <3>1. m.want \in Wishes
      BY DEF ApiInv, Shapes, Wants, Wishes
    <3> QED  BY <1>2, <3>1 DEF Requests
  <2> HIDE DEF dsc, ov, as
  <2>3. Named(dsc) = {Call} /\ Bindable(dsc)
    BY <1>1, <1>7, <2>2, Rebound
  <2>4. PICK r : Offer(Call, dsc, path, s.status, r)
    BY <1>1, <1>2, <2>1, <2>3, Offering DEF ApiInv
  <2> DEFINE st == IF s.status = "success" THEN "ok"
                   ELSE IF validate(dsc) # "success" THEN s.status ELSE "error"
  <2>5. st = "ok" <=> s.status = "success"
    BY <2>4 DEF Offer, Statuses, Refusals
  <2>6. Restated(Call, st, Call)
    BY <1>1, <1>2, <2>1 DEF ApiInv, Shapes, Restated
  <2> HIDE DEF st
  <2>7. obj'[Call].path = path
    BY <1>1, <2>1 DEF ApiInv, Shapes
  <2>8. Reasked(Call, IF st = "ok" THEN as ELSE None) /\ Rewrites(Call)
    BY <1>1, <1>4, <2>1, <2>5 DEF Reasked, Rewrites
  <2>9. AskedInv' /\ OthersKept(Call)
    BY <1>1, <1>3, <1>8, <1>10, <2>2, <2>4, <2>5, <2>6, <2>7, <2>8, Accepting
  <2> QED  BY <2>1, <2>9 DEF Retakes
<1> QED  BY <1>9, <1>10

\* At first nobody has asked for anything.
LEMMA InitAsked == Init => AskedInv
<1> SUFFICES ASSUME Init PROVE AskedInv
  OBVIOUS
<1>1. \A o \in Objects : obj[o].status # "ok" /\ asked[o] = None
  BY DEF Init, Dead
<1>2. DOMAIN asked = Objects /\ DOMAIN job = Jobs /\ Jobs \subseteq Objects
  BY DEF Init, Objects
<1>3. \A j \in Jobs : Routed(obj[j])
  BY <1>2 DEF Init, Dead, Routed
<1> QED  BY <1>1, <1>2, <1>3, Refused DEF AskedInv

\* Every step keeps what was asked for and what is executed the same.
LEMMA StepAsked == ApiInv /\ AskedInv /\ [Next]_vars => AskedInv'
<1> SUFFICES ASSUME ApiInv, AskedInv, [Next]_vars PROVE AskedInv'
  OBVIOUS
<1>1. CASE JobApi
  <2>1. PICK j \in Jobs :
            \/ \E path \in app.paths : InitJob(j, path)
            \/ \E mode \in {"submit", "execute"} : SubmitJob(j, mode)
            \/ ResubmitJob(j) \/ WaitJob(j) \/ CheckJob(j) \/ FinalizeJob(j)
    BY <1>1 DEF JobApi
  <2>2. app.api = "job"
    BY <1>1 DEF JobApi
  <2>3. CASE FinalizeJob(j) \/ \E path \in app.paths : InitJob(j, path)
    BY <2>3, CreationSteps
  <2>4. CASE \E mode \in {"submit", "execute"} : SubmitJob(j, mode)
    BY <2>2, <2>4, SubmitJobStep
  <2>5. CASE ResubmitJob(j)
    BY <2>5, ResubmitStep
  <2>6. CASE WaitJob(j) \/ CheckJob(j)
    BY <2>6, RestingSteps
  <2> QED  BY <2>1, <2>3, <2>4, <2>5, <2>6
<1>2. CASE HighLevelApi
  <2>1. app.api = "hl"
    BY <1>2 DEF HighLevelApi
  <2>2. CASE \E path \in app.paths : Execute(path)
    BY <2>1, <2>2, ExecuteStep
  <2>3. CASE \E h \in Handlers :
            \/ \E path \in app.paths : SubmitCall(h, path)
            \/ Default(h) \/ Destroy(h) \/ GetResult(h) \/ IsFinished(h)
            \/ \E g \in Handlers : MoveConstruct(g, h) \/ MoveAssign(g, h)
    <3>1. PICK h \in Handlers :
            \/ \E path \in app.paths : SubmitCall(h, path)
            \/ Default(h) \/ Destroy(h) \/ GetResult(h) \/ IsFinished(h)
            \/ \E g \in Handlers : MoveConstruct(g, h) \/ MoveAssign(g, h)
      BY <2>3
    <3>2. CASE \E path \in app.paths : SubmitCall(h, path)
      BY <2>1, <3>2, SubmitCallStep
    <3>3. CASE Default(h) \/ Destroy(h)
      BY <3>3, CreationSteps
    <3>4. CASE GetResult(h) \/ IsFinished(h)
      BY <3>4, RestingSteps
    <3>5. CASE \E g \in Handlers : MoveConstruct(g, h) \/ MoveAssign(g, h)
      BY <3>5, MoveSteps
    <3> QED  BY <3>1, <3>2, <3>3, <3>4, <3>5
  <2> QED  BY <1>2, <2>2, <2>3 DEF HighLevelApi
<1>3. CASE Return \/ Device \/ UNCHANGED vars
  BY <1>3, RestingSteps
<1> QED  BY <1>1, <1>2, <1>3 DEF Next

\* What kernels and accelerator read through their views of an accepted descriptor is what the
\* caller asked for, by either API, for every wish, and in a job that is submitted again and
\* again: make_task, the overloads, the options and rebind put each argument into its field
\* and add or lose no flag.  After a page fault that automatic::wait resolved it is the rest
\* of that: update_for_continuation advances what has to go on and nothing else.
THEOREM ExecutedAlwaysAsAsked == Spec => []ExecutedAsAsked
<1>1. AskedInv => ExecutedAsAsked
  <2> SUFFICES ASSUME AskedInv, NEW o \in Objects, asked[o] # None
               PROVE  IF asked[o].path = "automatic" /\ Filled(Task(o).rec) /\ ~Faulted(Task(o).rec)
                      THEN RestOf(asked[o].want, Seen(Task(o).dsc))
                      ELSE Seen(Task(o).dsc) = asked[o].want
    BY DEF ExecutedAsAsked, Filled
  <2> DEFINE want == asked[o].want
             path == asked[o].path
             dsc == Task(o).dsc
             rec == Task(o).rec
  <2>1. Proper(want) /\ Standing(want, path, dsc, rec)
    BY DEF AskedInv, Carries
  <2> HIDE DEF want, path, dsc, rec
  <2>2. \/ rec = Blank /\ ~Filled(rec) /\ path # "software" /\ Seen(dsc) = want
        \/ /\ Filled(rec) /\ rec # Blank /\ ~Faulted(rec)
           /\ (Seen(dsc) = want \/ (path = "automatic" /\ RestOf(want, Seen(dsc))))
        \/ /\ Filled(rec) /\ rec # Blank /\ Faulted(rec) /\ Seen(dsc) = want
           /\ path # "software"
    BY <2>1, StandingStatus
  <2>3. RestOf(want, want)
    BY <2>1, WholeRest
  <2> QED  BY <2>2, <2>3 DEF want, path, dsc, rec
<1> QED  BY <1>1, InitApi, StepApi, InitAsked, StepAsked, PTL DEF Spec

-----------------------------------------------------------------------------
(* Accepted operations do not work on overlapping buffers. *)

\* Success means that no check failed.
LEMMA NoneFailed ==
    ASSUME NEW checks \in Seq(Checks), FirstOf(checks) = "success"
    PROVE  \A i \in DOMAIN checks : ~checks[i][1]
<1> SUFFICES ASSUME \E i \in DOMAIN checks : checks[i][1]
             PROVE  FALSE
  OBVIOUS
<1> DEFINE F == {i \in DOMAIN checks : checks[i][1]}
           IsFirst(i) == checks[i][1] /\ \A k \in DOMAIN checks : k < i => ~checks[k][1]
<1>1. DOMAIN checks \subseteq Nat /\ \A i \in DOMAIN checks : checks[i][2] \in Refusals
  BY DEF Checks
<1>2. PICK i \in F : \A k \in F : ~(k < i)
  <2>1. F \in SUBSET Nat /\ F # {}
    BY <1>1
  <2> HIDE DEF F
  <2> QED  BY <2>1, SmallestOf
<1>3. i \in DOMAIN checks /\ IsFirst(i)
  BY <1>2
<1> DEFINE first == CHOOSE n \in DOMAIN checks : IsFirst(n)
<1>4. first \in DOMAIN checks
  BY <1>3
<1>5. FirstOf(checks) = checks[first][2]
  BY <1>3 DEF FirstOf
<1> HIDE DEF first
<1>6. "success" \in Refusals
  BY <1>1, <1>4, <1>5
<1> QED  BY <1>6 DEF Refusals

\* Nor did one behind those for nulls.
LEMMA NoneBehind ==
    ASSUME NEW a, NEW s, NEW t \in Seq(Checks), FirstOf(Present(a, s) \o t) = "success"
    PROVE  \A i \in DOMAIN t : ~t[i][1]
<1> DEFINE head == Present(a, s)
<1>1. head \in Seq(Checks)
  BY PresentChecks
<1>2. Len(head) = 2
  BY DEF Present
<1> HIDE DEF head
<1>3. head \o t \in Seq(Checks)
  BY <1>1
<1>4. \A i \in DOMAIN (head \o t) : ~(head \o t)[i][1]
  BY <1>3, NoneFailed DEF head
<1> SUFFICES ASSUME NEW i \in DOMAIN t
             PROVE  ~t[i][1]
  OBVIOUS
<1>5. 2 + i \in DOMAIN (head \o t) /\ (head \o t)[2 + i] = t[i]
  <2>1. DOMAIN t = 1..Len(t) /\ Len(t) \in Nat /\ i \in Nat /\ i >= 1 /\ i <= Len(t)
    OBVIOUS
  <2>2. Len(head \o t) = 2 + Len(t)
    <3>1. Len(head \o t) = Len(head) + Len(t)
      BY <1>1
    <3> QED  BY <1>2, <3>1
  <2>3. DOMAIN (head \o t) = 1..Len(head \o t)
    BY <1>3
  <2>4. 2 + i \in DOMAIN (head \o t)
    BY <2>1, <2>2, <2>3
  <2>5. ~(2 + i <= Len(head)) /\ (2 + i) - Len(head) = i
    BY <1>2, <2>1
  <2>6. 2 + i \in 1..(Len(head) + Len(t))
    BY <1>2, <2>1
  <2>7. (head \o t)[2 + i] = t[i]
    BY <1>1, <2>5, <2>6
  <2> QED  BY <2>4, <2>7
<1> QED  BY <1>4, <1>5

\* A size of blocks with or without their protection.
Ragged(n, b) == n % b # 0

\* A destination that ends shortly before its source.
Near(d, s, m, n) == d < s /\ d + m <= s /\ s <= d + n

\* The checks that keep buffers apart.
LEMMA ApartChecks ==
    /\ \A a, m, b, n : <<overlaps(a, m, b, n), "overlapping">> \in Checks
    /\ \A n, b : <<Ragged(n, b), "wrong_dif_size">> \in Checks
    /\ \A d, s, m, n : <<Near(d, s, m, n), "dif_strip_adjacent">> \in Checks
<1>1. {"overlapping", "wrong_dif_size", "dif_strip_adjacent"} \subseteq Refusals
  BY DEF Refusals
<1>2. (\A n, b : Ragged(n, b) \in BOOLEAN) /\ (\A d, s, m, n : Near(d, s, m, n) \in BOOLEAN)
  BY DEF Ragged, Near
<1> QED  BY <1>1, <1>2, Conditions, ACheck

\* What passes with one, two, three or more checks behind those for nulls.
LEMMA Passes ==
    ASSUME NEW a, NEW s
    PROVE  /\ \A x \in Checks : FirstOf(Present(a, s) \o <<x>>) = "success" => ~x[1]
           /\ \A x, y \in Checks :
                FirstOf(Present(a, s) \o <<x, y>>) = "success" => ~x[1] /\ ~y[1]
           /\ \A x, y, z \in Checks :
                FirstOf(Present(a, s) \o <<x, y, z>>) = "success" => ~x[1] /\ ~y[1] /\ ~z[1]
           /\ \A x, y, z, w \in Checks :
                FirstOf(Present(a, s) \o <<x, y, z, w>>) = "success"
                    => ~y[1] /\ ~z[1] /\ ~w[1]
           /\ \A x, y, z, w, u \in Checks :
                FirstOf(Present(a, s) \o <<x, y, z, w, u>>) = "success" => ~x[1]
<1> DEFINE Passed(t) == \A i \in DOMAIN t : ~t[i][1]
           All(t) == FirstOf(Present(a, s) \o t)
<1>1. \A t \in Seq(Checks) : All(t) = "success" => Passed(t)
  BY NoneBehind
<1> HIDE DEF All
<1>2. \A x \in Checks : All(<<x>>) = "success" => Passed(<<x>>)
  BY <1>1, ShortSeq
<1>3. \A x, y \in Checks : All(<<x, y>>) = "success" => Passed(<<x, y>>)
  BY <1>1, ShortSeq
<1>4. \A x, y, z \in Checks : All(<<x, y, z>>) = "success" => Passed(<<x, y, z>>)
  BY <1>1, ShortSeq
<1>5. \A x, y, z, w \in Checks : All(<<x, y, z, w>>) = "success" => Passed(<<x, y, z, w>>)
  BY <1>1, ShortSeq
<1>6. \A x, y, z, w, u \in Checks :
        All(<<x, y, z, w, u>>) = "success" => Passed(<<x, y, z, w, u>>)
  BY <1>1, ShortSeq
<1>7. \A x : Passed(<<x>>) => ~x[1]
  OBVIOUS
<1>8. \A x, y : Passed(<<x, y>>) => ~x[1] /\ ~y[1]
  OBVIOUS
<1>9. \A x, y, z : Passed(<<x, y, z>>) => ~x[1] /\ ~y[1] /\ ~z[1]
  OBVIOUS
<1>10. \A x, y, z, w : Passed(<<x, y, z, w>>) => ~y[1] /\ ~z[1] /\ ~w[1]
  OBVIOUS
<1>11. \A x, y, z, w, u : Passed(<<x, y, z, w, u>>) => ~x[1]
  OBVIOUS
<1> HIDE DEF Passed
<1> QED  BY <1>2, <1>3, <1>4, <1>5, <1>6, <1>7, <1>8, <1>9, <1>10, <1>11 DEF All

\* What the validation of copies, duplicates and deltas lets pass.
LEMMA PassedPlain ==
    ASSUME NEW v
    PROVE  /\ validate_copy_crc(v) = "success" =>
                ~overlaps(v.source_address, v.transfer_size,
                          v.destination_address, v.transfer_size)
           /\ validate_apply_delta(v) = "success" =>
                ~overlaps(v.delta_record_address, v.delta_record_size,
                          v.destination_address, v.transfer_size)
           /\ validate_dualcast(v) = "success" =>
                LET n == v.transfer_size
                IN  /\ ~overlaps(v.source_address, n, v.destination_1_address, n)
                    /\ ~overlaps(v.source_address, n, v.destination_2_address, n)
                    /\ ~overlaps(v.destination_1_address, n, v.destination_2_address, n)
<1> DEFINE over(a, m, b, n) == <<overlaps(a, m, b, n), "overlapping">>
           cast == <<v.destination_1_address % 4096 # v.destination_2_address % 4096,
                     "wrong_dualcast_address">>
           mis(a) == <<any_misaligned(8, a), "misalignment">>
           odd == <<v.transfer_size % 8 # 0, "wrong_size">>
           large == <<v.transfer_size > MaxDeltaSize, "large_size">>
           ten == <<v.delta_record_size % 10 # 0, "wrong_delta_size">>
<1>1. \A a, m, b, n : over(a, m, b, n) \in Checks
  BY ApartChecks
<1>2. {"wrong_dualcast_address", "misalignment", "wrong_size", "large_size", "wrong_delta_size"}
        \subseteq Refusals
  BY DEF Refusals
<1>3. \A a : mis(a) \in Checks
  BY <1>2, Conditions, ACheck
<1>4. cast \in Checks /\ odd \in Checks /\ large \in Checks /\ ten \in Checks
  <2> DEFINE b1 == v.destination_1_address % 4096 # v.destination_2_address % 4096
             b2 == v.transfer_size % 8 # 0
             b3 == v.transfer_size > MaxDeltaSize
             b4 == v.delta_record_size % 10 # 0
  <2>1. b1 \in BOOLEAN /\ b2 \in BOOLEAN /\ b3 \in BOOLEAN /\ b4 \in BOOLEAN
    OBVIOUS
  <2> HIDE DEF b1, b2, b3, b4
  <2>2. /\ <<b1, "wrong_dualcast_address">> \in Checks /\ <<b2, "wrong_size">> \in Checks
        /\ <<b3, "large_size">> \in Checks /\ <<b4, "wrong_delta_size">> \in Checks
    BY <1>2, <2>1, ACheck
  <2> QED  BY <2>2 DEF b1, b2, b3, b4
<1>5. \A a, m, b, n : over(a, m, b, n)[1] = overlaps(a, m, b, n)
  OBVIOUS
<1> HIDE DEF over, cast, mis, odd, large, ten
<1>6. \A p, s, a, m, b, n :
        FirstOf(Present(p, s) \o <<over(a, m, b, n)>>) = "success" => ~overlaps(a, m, b, n)
  BY <1>1, <1>5, Passes
<1>7. \A p, s, a, m, b, n, c :
        FirstOf(Present(p, s) \o <<over(a, m, b, n), mis(c), odd, large, ten>>) = "success"
            => ~overlaps(a, m, b, n)
  BY <1>1, <1>3, <1>4, <1>5, Passes
<1>8. \A p, s, a, b, c, n :
        FirstOf(Present(p, s) \o <<cast, over(a, n, b, n), over(a, n, c, n), over(b, n, c, n)>>)
            = "success"
        => ~overlaps(a, n, b, n) /\ ~overlaps(a, n, c, n) /\ ~overlaps(b, n, c, n)
  BY <1>1, <1>4, <1>5, Passes
<1>9. validate_copy_crc(v) = "success" =>
        ~overlaps(v.source_address, v.transfer_size, v.destination_address, v.transfer_size)
  BY <1>6 DEF validate_copy_crc, over
<1>10. validate_apply_delta(v) = "success" =>
        ~overlaps(v.delta_record_address, v.delta_record_size,
                  v.destination_address, v.transfer_size)
  BY <1>7 DEF validate_apply_delta, over, mis, odd, large, ten
<1>11. validate_dualcast(v) = "success" =>
        LET n == v.transfer_size
        IN  /\ ~overlaps(v.source_address, n, v.destination_1_address, n)
            /\ ~overlaps(v.source_address, n, v.destination_2_address, n)
            /\ ~overlaps(v.destination_1_address, n, v.destination_2_address, n)
  BY <1>8 DEF validate_dualcast, over, cast
<1> QED  BY <1>9, <1>10, <1>11

\* There is room for whole notes in the record of a delta.
LEMMA PassedDelta ==
    ASSUME NEW v, validate_create_delta(v) = "success"
    PROVE  v.maximum_delta_record_size % 10 = 0
<1> DEFINE c1 == any_misaligned(8, <<v.source_1_address, v.source_2_address,
                                     v.delta_record_address>>)
           c2 == v.transfer_size % 8 # 0
           c3 == v.transfer_size > MaxDeltaSize
           c4 == v.maximum_delta_record_size % 10 # 0 \/ v.maximum_delta_record_size < 80
           addresses == <<v.source_1_address, v.source_2_address, v.delta_record_address>>
           sizes == <<v.transfer_size, v.maximum_delta_record_size>>
<1>1. {"misalignment", "wrong_size", "large_size", "wrong_delta_size"} \subseteq Refusals
  BY DEF Refusals
<1>2. c1 \in BOOLEAN
  BY Conditions
<1>3. c2 \in BOOLEAN /\ c3 \in BOOLEAN /\ c4 \in BOOLEAN
  OBVIOUS
<1>4. FirstOf(Present(addresses, sizes) \o <<<<c1, "misalignment">>, <<c2, "wrong_size">>,
                <<c3, "large_size">>, <<c4, "wrong_delta_size">>>>) = "success"
  BY DEF validate_create_delta
<1> HIDE DEF c1, c2, c3, c4, addresses, sizes
<1>5. /\ <<c1, "misalignment">> \in Checks /\ <<c2, "wrong_size">> \in Checks
      /\ <<c3, "large_size">> \in Checks /\ <<c4, "wrong_delta_size">> \in Checks
  BY <1>1, <1>2, <1>3, ACheck
<1>6. ~(<<c4, "wrong_delta_size">>[1])
  BY <1>4, <1>5, Passes
<1> QED  BY <1>6 DEF c4

\* What the validation of DIF operations lets pass.
LEMMA PassedDif ==
    ASSUME NEW v, NEW block, block = DifBlockSize(v.dif_flags),
           NEW n, n = v.transfer_size
    PROVE  /\ validate_dif_update(v) = "success" =>
                ~overlaps(v.source_address, n, v.destination_address, n)
           /\ validate_dif_insert(v) = "success" =>
                /\ ~Ragged(n, block)
                /\ ~overlaps(v.source_address, n, v.destination_address,
                          (n + (n \div block) * 8) % SizeRange)
           /\ validate_dif_strip(v) = "success" =>
                /\ ~overlaps(v.source_address, n, v.destination_address, n - (n \div block) * 8)
                /\ ~Near(v.destination_address, v.source_address, n - (n \div block) * 8, n)
<1> DEFINE over(a, m, b, k) == <<overlaps(a, m, b, k), "overlapping">>
           size(k, b) == <<Ragged(k, b), "wrong_dif_size">>
           near(a, b, m, k) == <<Near(a, b, m, k), "dif_strip_adjacent">>
<1>1. /\ \A a, m, b, k : over(a, m, b, k) \in Checks
      /\ \A k, b : size(k, b) \in Checks
      /\ \A a, b, m, k : near(a, b, m, k) \in Checks
  BY ApartChecks
<1>2. /\ \A a, m, b, k : over(a, m, b, k)[1] = overlaps(a, m, b, k)
      /\ \A k, b : size(k, b)[1] = Ragged(k, b)
      /\ \A a, b, m, k : near(a, b, m, k)[1] = Near(a, b, m, k)
  OBVIOUS
<1> HIDE DEF over, size, near
<1>3. \A p, s, i, j, a, m, b, k :
        FirstOf(Present(p, s) \o <<size(i, j), over(a, m, b, k)>>) = "success"
        => ~Ragged(i, j) /\ ~overlaps(a, m, b, k)
  BY <1>1, <1>2, Passes
<1>4. \A p, s, i, j, a, m, b, k, c, d, e, f :
        FirstOf(Present(p, s) \o <<size(i, j), over(a, m, b, k), near(c, d, e, f)>>) = "success"
        => ~overlaps(a, m, b, k) /\ ~Near(c, d, e, f)
  BY <1>1, <1>2, Passes
<1>5. validate_dif_update(v) = "success" =>
        ~overlaps(v.source_address, n, v.destination_address, n)
  <2>1. FirstOf(Present(<<v.source_address, v.destination_address>>, <<n>>)
            \o <<size(n, block + 8), over(v.source_address, n, v.destination_address, n)>>)
          = validate_dif_update(v)
    BY DEF validate_dif_update, size, over, Ragged
  <2> QED  BY <1>3, <2>1
<1>6. validate_dif_insert(v) = "success" =>
        /\ ~Ragged(n, block)
        /\ ~overlaps(v.source_address, n, v.destination_address,
                          (n + (n \div block) * 8) % SizeRange)
  <2>1. FirstOf(Present(<<v.source_address, v.destination_address>>, <<n>>)
            \o <<size(n, block), over(v.source_address, n, v.destination_address,
                                      (n + (n \div block) * 8) % SizeRange)>>)
          = validate_dif_insert(v)
    BY DEF validate_dif_insert, size, over, Ragged
  <2> QED  BY <1>3, <2>1
<1>7. validate_dif_strip(v) = "success" =>
        /\ ~overlaps(v.source_address, n, v.destination_address, n - (n \div block) * 8)
        /\ ~Near(v.destination_address, v.source_address, n - (n \div block) * 8, n)
  <2>1. FirstOf(Present(<<v.source_address, v.destination_address>>, <<n>>)
            \o <<size(n, block + 8),
                 over(v.source_address, n, v.destination_address, n - (n \div block) * 8),
                 near(v.destination_address, v.source_address, n - (n \div block) * 8, n)>>)
          = validate_dif_strip(v)
    BY DEF validate_dif_strip, size, over, near, Ragged, Near
  <2> QED  BY <1>4, <2>1
<1> QED  BY <1>5, <1>6, <1>7

\* Two ranges that share no byte.
Separate(s, n, d, m) == s + n <= d \/ d + m <= s

\* Ranges that do not overlap share none.
LEMMA SeparateRanges ==
    ASSUME NEW s \in Nat, NEW n \in Nat, NEW d \in Nat, NEW m \in Int, ~overlaps(s, n, d, m)
    PROVE  Separate(s, n, d, m)
  BY DEF overlaps, Separate

\* Blocks that grow by their protection, or shrink by it.
LEMMA SeparateBlocks ==
    ASSUME NEW s \in Nat, NEW n \in Nat, NEW d \in Nat, NEW flags \in Nat, NEW block,
           block = DifBlockSize(flags)
    PROVE  /\ (/\ ~Ragged(n, block) /\ (n \div block) * (block + 8) < SizeRange
               /\ ~overlaps(s, n, d, (n + (n \div block) * 8) % SizeRange))
                => Separate(s, n, d, (n \div block) * (block + 8))
           /\ ~(\/ overlaps(s, n, d, n - (n \div block) * 8)
                \/ Near(d, s, n - (n \div block) * 8, n))
                => Separate(s, n, d, (n \div (block + 8)) * block)
<1>1. block \in {512, 520, 4096, 4104}
  <2>1. flags % 4 \in 0..3
    OBVIOUS
  <2> QED  BY <2>1 DEF DifBlockSize
<1>2. n \div block \in Nat /\ n \div (block + 8) \in Nat
  BY <1>1
<1>3. ~Ragged(n, block) => (n \div block) * (block + 8) = n + (n \div block) * 8
  <2>1. CASE block = 512
    BY <1>2, <2>1 DEF Ragged
  <2>2. CASE block = 520
    BY <1>2, <2>2 DEF Ragged
  <2>3. CASE block = 4096
    BY <1>2, <2>3 DEF Ragged
  <2>4. CASE block = 4104
    BY <1>2, <2>4 DEF Ragged
  <2> QED  BY <1>1, <2>1, <2>2, <2>3, <2>4
<1>4. (n \div (block + 8)) * block \in Nat /\ (n \div (block + 8)) * block <= n
  <2>1. CASE block = 512
    BY <1>2, <2>1
  <2>2. CASE block = 520
    BY <1>2, <2>2
  <2>3. CASE block = 4096
    BY <1>2, <2>3
  <2>4. CASE block = 4104
    BY <1>2, <2>4
  <2> QED  BY <1>1, <2>1, <2>2, <2>3, <2>4
<1> DEFINE more == (n \div block) * 8
           real == (n \div (block + 8)) * block
<1>5. more \in Nat
  BY <1>2
<1> HIDE DEF more, real
<1>6. n + more < SizeRange /\ ~overlaps(s, n, d, (n + more) % SizeRange)
        => Separate(s, n, d, n + more)
  <2>1. n + more < SizeRange => (n + more) % SizeRange = n + more
    BY <1>5, SizeAssumption
  <2> QED  BY <1>5, <2>1, SeparateRanges
<1>7. ~overlaps(s, n, d, n - more) /\ ~Near(d, s, n - more, n) => Separate(s, n, d, real)
  <2>1. real \in Nat /\ real <= n
    BY <1>4 DEF real
  <2> QED  BY <1>5, <2>1 DEF overlaps, Near, Separate
<1>8. ASSUME ~Ragged(n, block), (n \div block) * (block + 8) < SizeRange,
             ~overlaps(s, n, d, (n + (n \div block) * 8) % SizeRange)
      PROVE  Separate(s, n, d, (n \div block) * (block + 8))
  <2>1. (n \div block) * (block + 8) = n + more
    BY <1>3, <1>8 DEF more
  <2>2. n + more < SizeRange
    BY <1>8, <2>1
  <2>3. ~overlaps(s, n, d, (n + more) % SizeRange)
    BY <1>8 DEF more
  <2>4. Separate(s, n, d, n + more)
    BY <1>6, <2>2, <2>3
  <2> QED  BY <2>1, <2>4
<1>9. ASSUME ~(\/ overlaps(s, n, d, n - (n \div block) * 8)
               \/ Near(d, s, n - (n \div block) * 8, n))
      PROVE  Separate(s, n, d, (n \div (block + 8)) * block)
  BY <1>7, <1>9 DEF more, real
<1> QED  BY <1>8, <1>9

\* The checks of its own operation let an accepted descriptor pass.
LEMMA OwnChecks ==
    ASSUME NEW dsc, validate(dsc) = "success"
    PROVE  LET v == Fields(dsc, OperationOf(dsc))
           IN  /\ OperationOf(dsc) = "dualcast" => validate_dualcast(v) = "success"
               /\ OperationOf(dsc) = "copy_crc" => validate_copy_crc(v) = "success"
               /\ OperationOf(dsc) = "apply_delta" => validate_apply_delta(v) = "success"
               /\ OperationOf(dsc) = "dif_insert" => validate_dif_insert(v) = "success"
               /\ OperationOf(dsc) = "dif_strip" => validate_dif_strip(v) = "success"
               /\ OperationOf(dsc) = "dif_update" => validate_dif_update(v) = "success"
               /\ OperationOf(dsc) = "create_delta" => validate_create_delta(v) = "success"
<1> DEFINE op == OperationOf(dsc)
           code == Get(dsc, any_descriptor.operation)
<1>1. code = operation[op]
  BY ValidOperation
<1> HIDE DEF op, code
<1>2. ASSUME op = "dualcast" PROVE validate_dualcast(Fields(dsc, op)) = "success"
  <2>1. code = operation.dualcast
    BY <1>1, <1>2 DEF operation
  <2>2. validate(dsc) = validate_dualcast(Fields(dsc, "dualcast"))
    BY <2>1 DEF validate, operation, code
  <2> QED  BY <1>2, <2>2
<1>3. ASSUME op = "copy_crc" PROVE validate_copy_crc(Fields(dsc, op)) = "success"
  <2>1. code = operation.copy_crc
    BY <1>1, <1>3 DEF operation
  <2>2. validate(dsc) = validate_copy_crc(Fields(dsc, "copy_crc"))
    BY <2>1 DEF validate, operation, code
  <2> QED  BY <1>3, <2>2
<1>4. ASSUME op = "apply_delta" PROVE validate_apply_delta(Fields(dsc, op)) = "success"
  <2>1. code = operation.apply_delta
    BY <1>1, <1>4 DEF operation
  <2>2. validate(dsc) = validate_apply_delta(Fields(dsc, "apply_delta"))
    BY <2>1 DEF validate, operation, code
  <2> QED  BY <1>4, <2>2
<1>5. ASSUME op = "dif_insert" PROVE validate_dif_insert(Fields(dsc, op)) = "success"
  <2>1. code = operation.dif_insert
    BY <1>1, <1>5 DEF operation
  <2>2. validate(dsc) = validate_dif_insert(Fields(dsc, "dif_insert"))
    BY <2>1 DEF validate, operation, code
  <2> QED  BY <1>5, <2>2
<1>6. ASSUME op = "dif_strip" PROVE validate_dif_strip(Fields(dsc, op)) = "success"
  <2>1. code = operation.dif_strip
    BY <1>1, <1>6 DEF operation
  <2>2. validate(dsc) = validate_dif_strip(Fields(dsc, "dif_strip"))
    BY <2>1 DEF validate, operation, code
  <2> QED  BY <1>6, <2>2
<1>7. ASSUME op = "dif_update" PROVE validate_dif_update(Fields(dsc, op)) = "success"
  <2>1. code = operation.dif_update
    BY <1>1, <1>7 DEF operation
  <2>2. validate(dsc) = validate_dif_update(Fields(dsc, "dif_update"))
    BY <2>1 DEF validate, operation, code
  <2> QED  BY <1>7, <2>2
<1>8. ASSUME op = "create_delta" PROVE validate_create_delta(Fields(dsc, op)) = "success"
  <2>1. code = operation.create_delta
    BY <1>1, <1>8 DEF operation
  <2>2. validate(dsc) = validate_create_delta(Fields(dsc, "create_delta"))
    BY <2>1 DEF validate, operation, code
  <2> QED  BY <1>8, <2>2
<1> QED  BY <1>2, <1>3, <1>4, <1>5, <1>6, <1>7, <1>8 DEF op

\* Deltas that are accepted have room for whole notes.
LEMMA SanctionedSized ==
    ASSUME NEW want, Sanctioned(want)
    PROVE  Sized(want)
<1>1. PICK d : Seen(d) = want /\ validate(d) = "success"
  BY DEF Sanctioned
<1>2. want.op = OperationOf(d) /\ want.arg = Fields(d, OperationOf(d))
  BY <1>1 DEF Seen
<1>3. want.op = "create_delta" => validate_create_delta(want.arg) = "success"
  BY <1>1, <1>2, OwnChecks
<1> QED  BY <1>3, PassedDelta DEF Sized

\* Ranges of a wish that share no byte, pair by pair.
Disjoint(r) == \A i, k \in DOMAIN r :
    i < k => r[i][1] + r[i][2] <= r[k][1] \/ r[k][1] + r[k][2] <= r[i][1]

\* Of two ranges, of three and of none.
LEMMA DisjointRanges ==
    /\ Disjoint(<<>>)
    /\ \A a, m, b, n : Separate(a, m, b, n) => Disjoint(<<<<a, m>>, <<b, n>>>>)
    /\ \A a, b, c, n : Separate(a, n, b, n) /\ Separate(a, n, c, n) /\ Separate(b, n, c, n)
            => Disjoint(<<<<a, n>>, <<b, n>>, <<c, n>>>>)
<1>1. Disjoint(<<>>)
  BY DEF Disjoint
<1>2. ASSUME NEW a, NEW m, NEW b, NEW n, Separate(a, m, b, n)
      PROVE  Disjoint(<<<<a, m>>, <<b, n>>>>)
  <2> DEFINE r == <<<<a, m>>, <<b, n>>>>
  <2>1. DOMAIN r = 1..2 /\ r[1] = <<a, m>> /\ r[2] = <<b, n>>
    OBVIOUS
  <2>2. \A i, k \in 1..2 : i < k => i = 1 /\ k = 2
    OBVIOUS
  <2> HIDE DEF r
  <2>3. r[1][1] = a /\ r[1][2] = m /\ r[2][1] = b /\ r[2][2] = n
    BY <2>1
  <2>4. Disjoint(r)
    BY <1>2, <2>1, <2>2, <2>3 DEF Disjoint, Separate
  <2> QED  BY <2>4 DEF r
<1>3. ASSUME NEW a, NEW b, NEW c, NEW n,
             Separate(a, n, b, n), Separate(a, n, c, n), Separate(b, n, c, n)
      PROVE  Disjoint(<<<<a, n>>, <<b, n>>, <<c, n>>>>)
  <2> DEFINE r == <<<<a, n>>, <<b, n>>, <<c, n>>>>
  <2>1. DOMAIN r = 1..3 /\ r[1] = <<a, n>> /\ r[2] = <<b, n>> /\ r[3] = <<c, n>>
    OBVIOUS
  <2>2. \A i, k \in 1..3 : i < k => (i = 1 /\ k = 2) \/ (i = 1 /\ k = 3) \/ (i = 2 /\ k = 3)
    OBVIOUS
  <2> HIDE DEF r
  <2>3. r[1][1] = a /\ r[1][2] = n /\ r[2][1] = b /\ r[2][2] = n /\ r[3][1] = c /\ r[3][2] = n
    BY <2>1
  <2>4. Disjoint(r)
    BY <1>3, <2>1, <2>2, <2>3 DEF Disjoint, Separate
  <2> QED  BY <2>4 DEF r
<1> QED  BY <1>1, <1>2, <1>3

\* The numbers that the ranges are made of.
LEMMA RangeArgs ==
    ASSUME NEW want, Proper(want), NEW a, a = want.arg
    PROVE  /\ want.op \in {"copy_crc", "dif_insert", "dif_strip", "dif_update"} =>
                a.source_address \in Nat /\ a.destination_address \in Nat
                    /\ a.transfer_size \in Nat
           /\ want.op \in {"dif_insert", "dif_strip", "dif_update"} => a.dif_flags \in Nat
           /\ want.op = "dualcast" =>
                /\ a.source_address \in Nat /\ a.transfer_size \in Nat
                /\ a.destination_1_address \in Nat /\ a.destination_2_address \in Nat
           /\ want.op = "apply_delta" =>
                /\ a.delta_record_address \in Nat /\ a.delta_record_size \in Nat
                /\ a.destination_address \in Nat /\ a.transfer_size \in Nat
<1>1. \A n \in DOMAIN View[want.op] : a[n] \in Nat
  BY DEF Proper
<1>2. want.op = "copy_crc" => {"source_address", "destination_address", "transfer_size"}
                                \subseteq DOMAIN View[want.op]
  BY DEF View, copy_crc_descriptor
<1>3. want.op = "dif_insert" =>
        {"source_address", "destination_address", "transfer_size", "dif_flags"}
            \subseteq DOMAIN View[want.op]
  BY DEF View, dif_insert_descriptor
<1>4. want.op = "dif_strip" =>
        {"source_address", "destination_address", "transfer_size", "dif_flags"}
            \subseteq DOMAIN View[want.op]
  BY DEF View, dif_strip_descriptor
<1>5. want.op = "dif_update" =>
        {"source_address", "destination_address", "transfer_size", "dif_flags"}
            \subseteq DOMAIN View[want.op]
  BY DEF View, dif_update_descriptor
<1>6. want.op = "dualcast" =>
        {"source_address", "destination_1_address", "destination_2_address", "transfer_size"}
            \subseteq DOMAIN View[want.op]
  BY DEF View, dualcast_descriptor
<1>7. want.op = "apply_delta" =>
        {"delta_record_address", "delta_record_size", "destination_address", "transfer_size"}
            \subseteq DOMAIN View[want.op]
  BY DEF View, apply_delta_descriptor
<1> QED  BY <1>1, <1>2, <1>3, <1>4, <1>5, <1>6, <1>7

\* A descriptor that passed and shows a wish: its ranges share no byte.
LEMMA PassedDisjoint ==
    ASSUME NEW dsc, validate(dsc) = "success", NEW want, Seen(dsc) = want, Proper(want)
    PROVE  Disjoint(Ranges(want))
<1> DEFINE a == want.arg
           n == a.transfer_size
           block == DifBlockSize(a.dif_flags)
<1>1. want.op = OperationOf(dsc) /\ want.arg = Fields(dsc, OperationOf(dsc))
  BY DEF Seen
<1>2. /\ want.op = "dualcast" => validate_dualcast(a) = "success"
      /\ want.op = "copy_crc" => validate_copy_crc(a) = "success"
      /\ want.op = "apply_delta" => validate_apply_delta(a) = "success"
      /\ want.op = "dif_insert" => validate_dif_insert(a) = "success"
      /\ want.op = "dif_strip" => validate_dif_strip(a) = "success"
      /\ want.op = "dif_update" => validate_dif_update(a) = "success"
  BY <1>1, OwnChecks
<1> HIDE DEF a
<1>3. CASE want.op = "dualcast"
  <2> DEFINE s == a.source_address
             d == a.destination_1_address
             e == a.destination_2_address
  <2>1. s \in Nat /\ d \in Nat /\ e \in Nat /\ n \in Nat
    BY <1>3, RangeArgs DEF a
  <2>2. ~overlaps(s, n, d, n) /\ ~overlaps(s, n, e, n) /\ ~overlaps(d, n, e, n)
    BY <1>2, <1>3, PassedPlain
  <2>3. Ranges(want) = <<<<s, n>>, <<d, n>>, <<e, n>>>>
    BY <1>3 DEF Ranges, a
  <2> HIDE DEF s, d, e, n
  <2>4. Separate(s, n, d, n) /\ Separate(s, n, e, n) /\ Separate(d, n, e, n)
    BY <2>1, <2>2, SeparateRanges
  <2> QED  BY <2>3, <2>4, DisjointRanges
<1>4. CASE want.op = "copy_crc" \/ want.op = "dif_update"
  <2> DEFINE s == a.source_address
             d == a.destination_address
  <2>1. s \in Nat /\ d \in Nat /\ n \in Nat
    BY <1>4, RangeArgs DEF a
  <2>2. ~overlaps(s, n, d, n)
    BY <1>2, <1>4, PassedPlain, PassedDif
  <2>3. Ranges(want) = <<<<s, n>>, <<d, n>>>>
    BY <1>4 DEF Ranges, a
  <2> HIDE DEF s, d, n
  <2>4. Separate(s, n, d, n)
    BY <2>1, <2>2, SeparateRanges
  <2> QED  BY <2>3, <2>4, DisjointRanges
<1>5. CASE want.op = "apply_delta"
  <2> DEFINE s == a.delta_record_address
             m == a.delta_record_size
             d == a.destination_address
  <2>1. s \in Nat /\ m \in Nat /\ d \in Nat /\ n \in Nat
    BY <1>5, RangeArgs DEF a
  <2>2. ~overlaps(s, m, d, n)
    BY <1>2, <1>5, PassedPlain
  <2>3. Ranges(want) = <<<<s, m>>, <<d, n>>>>
    BY <1>5 DEF Ranges, a
  <2> HIDE DEF s, m, d, n
  <2>4. Separate(s, m, d, n)
    BY <2>1, <2>2, SeparateRanges
  <2> QED  BY <2>3, <2>4, DisjointRanges
<1>6. CASE want.op = "dif_insert" \/ want.op = "dif_strip"
  <2> DEFINE s == a.source_address
             d == a.destination_address
             flags == a.dif_flags
             most == (n \div block) * (block + 8)
             least == (n \div (block + 8)) * block
  <2>1. s \in Nat /\ d \in Nat /\ n \in Nat /\ flags \in Nat
    BY <1>6, RangeArgs DEF a
  <2>2. /\ want.op = "dif_insert" =>
            ~Ragged(n, block) /\ ~overlaps(s, n, d, (n + (n \div block) * 8) % SizeRange)
        /\ want.op = "dif_strip" =>
            ~overlaps(s, n, d, n - (n \div block) * 8) /\ ~Near(d, s, n - (n \div block) * 8, n)
    BY <1>2, PassedDif
  <2>3. want.op = "dif_insert" =>
            \/ most < SizeRange /\ Ranges(want) = <<<<s, n>>, <<d, most>>>>
            \/ Ranges(want) = <<>>
    BY DEF Ranges, a
  <2>4. want.op = "dif_strip" => Ranges(want) = <<<<s, n>>, <<d, least>>>>
    BY DEF Ranges, a
  <2>5. block = DifBlockSize(flags)
    OBVIOUS
  <2> HIDE DEF s, d, n, flags, block
  <2>6. /\ want.op = "dif_insert" /\ most < SizeRange => Separate(s, n, d, most)
        /\ want.op = "dif_strip" => Separate(s, n, d, least)
    BY <2>1, <2>2, <2>5, SeparateBlocks
  <2> HIDE DEF most, least
  <2> QED  BY <1>6, <2>3, <2>4, <2>6, DisjointRanges
<1>7. CASE want.op \notin {"dualcast", "copy_crc", "apply_delta", "dif_insert", "dif_strip",
                           "dif_update"}
  <2>1. Ranges(want) = <<>>
    BY <1>7 DEF Ranges
  <2> QED  BY <2>1, DisjointRanges
<1> QED  BY <1>3, <1>4, <1>5, <1>6, <1>7

\* An operation that was accepted, by either API, of those whose buffers core::validate keeps
\* apart has them apart: the bytes that it really reads and writes, the workaround for
\* dif_strip included, whatever addresses and sizes the caller gave, as long as the size of an
\* insertion with its protection fields does not wrap.
THEOREM AcceptedBuffersAlwaysDisjoint == Spec => []AcceptedBuffersDisjoint
<1>1. AskedInv => AcceptedBuffersDisjoint
  <2> SUFFICES ASSUME AskedInv, NEW o \in Objects, asked[o] # None
               PROVE  Disjoint(Ranges(asked[o].want))
    BY DEF AcceptedBuffersDisjoint, Disjoint
  <2>1. Carries(obj[o], Task(o), asked[o])
    BY DEF AskedInv
  <2>2. Sanctioned(asked[o].want) /\ Proper(asked[o].want)
    BY <2>1 DEF Carries
  <2> QED  BY <2>2, PassedDisjoint DEF Sanctioned
<1> QED  BY <1>1, InitApi, StepApi, InitAsked, StepAsked, PTL DEF Spec

-----------------------------------------------------------------------------
(* No value is torn. *)

\* The fields of a job that the library computes with or writes hold numbers.
Typed(f) ==
    /\ DOMAIN f = DOMAIN BlankJob
    /\ \A n \in {"crc", "offset", "result", "destination_length", "flags"} : f[n] \in Nat

\* So they do in a job that is filled in, before and after the library cleared a flag.
LEMMA FilledTyped ==
    ASSUME NEW m, JobWish(m)
    PROVE  /\ Typed(AsJob(m.want, m.copy_only)) /\ Typed(Job(m))
           /\ Job(m).operation = operation[m.want.op]
<1> DEFINE g == AsJob(m.want, m.copy_only)
<1>1. /\ DOMAIN g = DOMAIN BlankJob /\ g["operation"] = operation[m.want.op]
      /\ g["flags"] = FlagWord(m.want.flags) + SpecialOf(m.want) * 65536
                      + (IF m.copy_only THEN 32 ELSE 0)
      /\ g["crc"] = Arg(m.want, "crc_seed")
  BY JobCommon
<1>2. IsWish(m.want)
  BY DEF JobWish
<1>3. \A n : Arg(m.want, n) \in Nat
  <2> DEFINE want == m.want
  <2>1. \A n \in DOMAIN want.arg : want.arg[n] \in Nat
    BY <1>2, WishArgs
  <2> HIDE DEF want
  <2>2. \A n : Arg(want, n) \in Nat
    BY <2>1 DEF Arg
  <2> QED  BY <2>2 DEF want
<1>4. g["flags"] \in Nat
  <2>1. FlagWord(m.want.flags) \in Nat
    BY DEF FlagWord, flag
  <2>2. SpecialOf(m.want) \in Nat
    BY <1>3 DEF SpecialOf
  <2> QED  BY <1>1, <2>1, <2>2
<1>5. {"offset", "result", "destination_length", "flags", "operation"} \subseteq DOMAIN BlankJob
      /\ BlankJob["offset"] = 0 /\ BlankJob["result"] = 0 /\ BlankJob["destination_length"] = 0
  BY DEF BlankJob
<1>6. g["offset"] \in Nat /\ g["result"] \in Nat
  <2>1. DOMAIN JobArg(m.want.op) \subseteq
            {"source_first", "source_second", "source_length", "destination_first",
             "destination_second", "destination_length", "pattern", "expected_result"}
    BY DEF JobArg
  <2>2. "offset" \notin DOMAIN JobArg(m.want.op) /\ "result" \notin DOMAIN JobArg(m.want.op)
    BY <2>1
  <2> HIDE DEF JobArg
  <2> QED  BY <1>5, <2>2 DEF AsJob
<1>7. g["destination_length"] \in Nat
  <2>1. CASE "destination_length" \in DOMAIN JobArg(m.want.op)
    <3> HIDE DEF JobArg
    <3>1. g["destination_length"] = Arg(m.want, JobArg(m.want.op)["destination_length"])
      BY <1>5, <2>1 DEF AsJob
    <3> QED  BY <1>3, <3>1
  <2>2. CASE "destination_length" \notin DOMAIN JobArg(m.want.op) /\ m.want.op = "batch"
    <3>1. g["destination_length"] = SizeOfTask * m.want.arg.descriptors_count + 64
      <4> HIDE DEF JobArg
      <4> QED  BY <1>5, <2>2 DEF AsJob
    <3>2. "descriptors_count" \in DOMAIN View[m.want.op]
      BY <2>2 DEF View, batch_descriptor
    <3>3. m.want.arg.descriptors_count \in Nat
      BY <1>2, <3>2, WishArgs
    <3> QED  BY <3>1, <3>3 DEF SizeOfTask
  <2>3. CASE "destination_length" \notin DOMAIN JobArg(m.want.op) /\ m.want.op # "batch"
    <3> HIDE DEF JobArg
    <3>1. g["destination_length"] = 0
      BY <1>5, <2>3 DEF AsJob
    <3> QED  BY <3>1
  <2> QED  BY <2>1, <2>2, <2>3
<1>8. Typed(g)
  <2> HIDE DEF g
  <2> QED  BY <1>1, <1>3, <1>4, <1>6, <1>7 DEF Typed
<1>9. /\ DOMAIN Job(m) = DOMAIN BlankJob
      /\ \A n \in DOMAIN BlankJob \ {"flags"} : Job(m)[n] = g[n]
  BY JobShape
<1> HIDE DEF g
<1>10. Job(m).operation = operation[m.want.op]
  BY <1>1, <1>5, <1>9
<1>11. Job(m)["flags"] \in Nat
  <2>1. g["flags"] % 65536 \in Nat
    BY <1>4
  <2>2. Job(m) = g \/ Job(m) = [g EXCEPT !.flags = Clear(flags_of(g), 32)]
    BY Zenon DEF Job, clear_copy_only, DML_FLAG_COPY_ONLY, g
  <2>3. Clear(flags_of(g), 32) \in Nat
    <3> DEFINE w == g["flags"] % 65536
    <3>1. flags_of(g) = w
      BY DEF flags_of
    <3> HIDE DEF w
    <3>2. w \in Nat
      BY <2>1 DEF w
    <3>3. Has(w, 32) => w >= 32
      BY <3>2 DEF Has
    <3>4. Clear(w, 32) \in Nat
      BY <3>2, <3>3 DEF Clear
    <3> QED  BY <3>1, <3>4
  <2> QED  BY <1>1, <1>4, <1>5, <2>2, <2>3
<1>12. Typed(Job(m))
  <2>1. {"crc", "offset", "result", "destination_length"} \subseteq DOMAIN BlankJob \ {"flags"}
    BY DEF BlankJob
  <2> QED  BY <1>8, <1>9, <1>11, <2>1 DEF Typed
<1> QED  BY <1>8, <1>10, <1>12 DEF g

\* A result that is read from the record of what was asked for leaves a job typed.
LEMMA ResultTyped ==
    ASSUME NEW f, Typed(f), NEW want, Proper(want), f.operation = operation[want.op],
           NEW path, NEW dsc, NEW rec, Standing(want, path, dsc, rec)
    PROVE  Typed(write_result(f, rec)) /\ write_result(f, rec).operation = f.operation
<1> DEFINE op == want.op
           r == Read(op, rec)
           new == write_result(f, rec)
           names == {"crc", "offset", "result", "destination_length", "flags"}
<1>1. (CHOOSE p \in Operations : operation[p] = f.operation) = op
  BY OwnCode DEF Proper
<1>2. /\ \A n \in DOMAIN RecordView[op] : r[n] \in Nat
      /\ op \in Operations
  BY StandingValues DEF Proper
<1> HIDE DEF op
<1>3. {"result", "bytes_completed"} \subseteq DOMAIN RecordView[op]
  BY <1>2 DEF RecordView, Joined, any_completion_record, op
<1>4. op \in {"crc", "copy_crc"} => "crc_value" \in DOMAIN RecordView[op]
  BY <1>2 DEF RecordView, Joined, crc_completion_record, op
<1>5. op = "create_delta" => "delta_record_size" \in DOMAIN RecordView[op]
  BY <1>2 DEF RecordView, Joined, create_delta_completion_record, op
<1>6. \/ new = [f EXCEPT !.result = r.result] \/ new = f
      \/ op \in {"crc", "copy_crc"} /\ new = [f EXCEPT !.crc = r.crc_value]
      \/ new = [f EXCEPT !.offset = r.bytes_completed, !.result = r.result]
      \/ op = "create_delta"
         /\ new = [f EXCEPT !.destination_length = r.delta_record_size, !.result = r.result,
                            !.offset = FirstNote]
      \/ new = [f EXCEPT !.offset = r.bytes_completed]
  BY <1>1, Zenon DEF write_result, op
<1>7. names \cup {"operation"} \subseteq DOMAIN f
  BY DEF Typed, BlankJob
<1> HIDE DEF new, r
<1>8. /\ r["result"] \in Nat /\ r["bytes_completed"] \in Nat
      /\ op \in {"crc", "copy_crc"} => r["crc_value"] \in Nat
      /\ op = "create_delta" => r["delta_record_size"] \in Nat
  BY <1>2, <1>3, <1>4, <1>5
<1>9. DOMAIN new = DOMAIN f /\ new["operation"] = f["operation"]
  BY <1>6, <1>7
<1>10. \A n \in names : f[n] \in Nat
  BY DEF Typed
<1>11. \A n \in names : new[n] \in Nat
  <2> HIDE DEF names
  <2>1. FirstNote \in Nat
    BY DEF FirstNote
  <2>2. names \subseteq DOMAIN f
    BY <1>7
  <2>3. CASE new = [f EXCEPT !.result = r.result]
    BY <1>8, <1>10, <2>2, <2>3
  <2>4. CASE new = f
    BY <1>10, <2>4
  <2>5. CASE op \in {"crc", "copy_crc"} /\ new = [f EXCEPT !.crc = r.crc_value]
    BY <1>8, <1>10, <2>2, <2>5
  <2>6. CASE new = [f EXCEPT !.offset = r.bytes_completed, !.result = r.result]
    BY <1>8, <1>10, <2>2, <2>6
  <2>7. CASE op = "create_delta"
             /\ new = [f EXCEPT !.destination_length = r.delta_record_size, !.result = r.result,
                                !.offset = FirstNote]
    BY <1>8, <1>10, <2>1, <2>2, <2>7
  <2>8. CASE new = [f EXCEPT !.offset = r.bytes_completed]
    BY <1>8, <1>10, <2>2, <2>8
  <2> QED  BY <1>6, <2>3, <2>4, <2>5, <2>6, <2>7, <2>8
<1> QED  BY <1>9, <1>11 DEF Typed, new

\* The path of an object.
Sound(ob) == ob.path \in Paths \cup {"software"}

\* A job has the operation that it stands for.
Fits(ob, f, as) == Typed(f) /\ (ob.status = "ok" => f.operation = operation[as.want.op])

\* The invariant.
TypedInv ==
    /\ calls \in 0 .. app.calls
    /\ \A o \in Objects : Sound(obj[o])
    /\ \A j \in Jobs : Fits(obj[j], job[j], asked[j])

\* Calls stay within the bound.
Counted == app' = app /\ calls' \in 0 .. app.calls

\* A call is counted.
LEMMA CallCounted ==
    ASSUME ApiInv, TypedInv, Step, app' = app
    PROVE  Counted
<1>1. app.calls \in Nat
  BY ApplicationAssumption DEF ApiInv, Shapes
<1> QED  BY <1>1 DEF Step, Counted, TypedInv

\* A step that is about one object.
LEMMA TypedAbout ==
    ASSUME TypedInv, NEW o \in Objects, Counted,
           \A q \in Objects \ {o} : obj'[q] = obj[q] /\ asked'[q] = asked[q],
           \A j \in Jobs \ {o} : job'[j] = job[j],
           Sound(obj'[o]), o \in Jobs => Fits(obj'[o], job'[o], asked'[o])
    PROVE  TypedInv'
<1>1. calls' \in 0 .. app'.calls
  BY DEF Counted
<1>2. \A q \in Objects : Sound(obj'[q])
  BY DEF TypedInv
<1>4. \A j \in Jobs : Fits(obj'[j], job'[j], asked'[j])
  <2> SUFFICES ASSUME NEW j \in Jobs, j # o PROVE Fits(obj'[j], job'[j], asked'[j])
    OBVIOUS
  <2>1. obj'[j] = obj[j] /\ asked'[j] = asked[j] /\ job'[j] = job[j]
    BY DEF Objects
  <2> QED  BY <2>1 DEF TypedInv
<1> QED  BY <1>1, <1>2, <1>4 DEF TypedInv

\* An object that is not valid.
LEMMA InvalidSound ==
    ASSUME NEW ob, ob.status # "ok", NEW as
    PROVE  /\ ob.path \in Paths \cup {"software"} => Sound(ob)
           /\ \A f : Typed(f) => Fits(ob, f, as)
  BY DEF Sound, Fits

\* What a valid object has.
LEMMA ValidParts ==
    ASSUME ApiInv, AskedInv, NEW o \in Objects, obj[o].status = "ok"
    PROVE  /\ obj[o].place \in Places /\ Named(Task(o).dsc) = {obj[o].place}
           /\ asked[o] \in Requests /\ asked[o] # None /\ asked[o].path = obj[o].path
           /\ asked[o].path \in Routes /\ Proper(asked[o].want) /\ Sanctioned(asked[o].want)
           /\ Standing(asked[o].want, asked[o].path, Task(o).dsc, Task(o).rec)
           /\ OperationOf(Task(o).dsc) = asked[o].want.op /\ asked[o].want.op \in Operations
<1>1. obj[o].place # None /\ Named(Task(o).dsc) = {obj[o].place}
  BY DEF ApiInv, Bound
<1>2. obj[o].place \in Places
  BY <1>1, OwnPlace DEF ApiInv
<1>3. /\ asked[o] \in Requests /\ asked[o].path = obj[o].path /\ Proper(asked[o].want)
      /\ Sanctioned(asked[o].want)
      /\ Standing(asked[o].want, asked[o].path, Task(o).dsc, Task(o).rec)
  BY DEF AskedInv, Carries
<1>4. asked[o] # None /\ asked[o].path \in Routes
  BY <1>3, RequestParts, ApplicationAssumption DEF Routes
<1>5. OperationOf(Task(o).dsc) = asked[o].want.op
  BY <1>3, StandingStatus
<1>6. asked[o].want.op \in Operations
  BY <1>3 DEF Proper
<1> QED  BY <1>1, <1>2, <1>3, <1>4, <1>5, <1>6

\* Asking again, waiting and completing.
LEMMA TypedResting ==
    ASSUME ApiInv, AskedInv, TypedInv,
           \/ Return \/ Device \/ UNCHANGED vars
           \/ \E j \in Jobs : WaitJob(j) \/ CheckJob(j)
           \/ \E h \in Handlers : GetResult(h) \/ IsFinished(h)
    PROVE  TypedInv'
<1>1. ASSUME app' = app, calls' = calls, obj' = obj, asked' = asked, job' = job
      PROVE  TypedInv'
  BY <1>1 DEF TypedInv
<1>2. ASSUME NEW o \in Objects, obj[o].status = "ok", Finished(o), NEW t \in Resolved(o),
             app' = app, calls' = calls, obj' = obj, asked' = asked,
             job' = IF o \in Jobs THEN [job EXCEPT ![o] = write_result(job[o], t.rec)] ELSE job
      PROVE  TypedInv'
  <2>1. CASE o \notin Jobs
    BY <1>1, <1>2, <2>1
  <2>2. CASE o \in Jobs
    <3>1. Fits(obj[o], job[o], asked[o])
      BY <2>2 DEF TypedInv
    <3>2. Proper(asked[o].want) /\ Standing(asked[o].want, obj[o].path, t.dsc, t.rec)
      BY <1>2, Answered DEF Carries
    <3>3. Typed(job[o]) /\ job[o].operation = operation[asked[o].want.op]
      BY <1>2, <3>1 DEF Fits
    <3> DEFINE new == write_result(job[o], t.rec)
    <3>4. Typed(new) /\ new.operation = job[o].operation
      BY <3>2, <3>3, ResultTyped
    <3> HIDE DEF new
    <3>5. job'[o] = new /\ \A j \in Jobs \ {o} : job'[j] = job[j]
      BY <1>2, <2>2 DEF AskedInv, new
    <3>6. Fits(obj'[o], job'[o], asked'[o])
      BY <1>2, <3>1, <3>4, <3>5 DEF Fits
    <3>7. Sound(obj'[o]) /\ Counted
      BY <1>2 DEF TypedInv, Counted
    <3> QED  BY <1>2, <3>5, <3>6, <3>7, TypedAbout
  <2> QED  BY <2>1, <2>2
<1>3. CASE Return
  <2>1. waiting \in Objects /\ obj[waiting].status = "ok" /\ Finished(waiting)
    BY <1>3, SMTT(30) DEF Return, ApiInv, Waits
  <2>2. PICK t \in Resolved(waiting) :
            job' = IF waiting \in Jobs
                   THEN [job EXCEPT ![waiting] = write_result(job[waiting], t.rec)] ELSE job
    BY <1>3 DEF Return
  <2>3. app' = app /\ calls' = calls /\ obj' = obj /\ asked' = asked
    BY <1>3 DEF Return
  <2> QED  BY <1>2, <2>1, <2>2, <2>3
<1>4. CASE Device
  <2>1. PICK dsc \in flight : Finish(dsc)
    BY <1>4 DEF Device
  <2>2. app' = app /\ calls' = calls /\ obj' = obj /\ asked' = asked /\ job' = job
    BY <2>1 DEF Finish
  <2> QED  BY <1>1, <2>2
<1>5. CASE UNCHANGED vars
  BY <1>1, <1>5 DEF vars
<1>6. ASSUME NEW j \in Jobs, WaitJob(j) PROVE TypedInv'
  BY <1>1, <1>6 DEF WaitJob
<1>7. ASSUME NEW j \in Jobs, CheckJob(j) PROVE TypedInv'
  <2>1. /\ j \in Objects /\ obj[j].status = "ok" /\ Finished(j)
        /\ app' = app /\ calls' = calls /\ obj' = obj /\ asked' = asked
    BY <1>7 DEF CheckJob, Objects
  <2>2. PICK t \in Resolved(j) : job' = [job EXCEPT ![j] = write_result(job[j], t.rec)]
    BY <1>7 DEF CheckJob
  <2> QED  BY <1>2, <2>1, <2>2
<1>8. ASSUME NEW h \in Handlers, GetResult(h) \/ IsFinished(h) PROVE TypedInv'
  BY <1>1, <1>8 DEF GetResult, IsFinished
<1> QED  BY <1>3, <1>4, <1>5, <1>6, <1>7, <1>8

\* An object is made or goes away.
LEMMA TypedCreation ==
    ASSUME ApiInv, AskedInv, TypedInv,
           \/ \E j \in Jobs : FinalizeJob(j) \/ \E path \in app.paths : InitJob(j, path)
           \/ \E h \in Handlers : Default(h) \/ Destroy(h)
    PROVE  TypedInv'
<1>1. DOMAIN obj = Objects /\ DOMAIN asked = Objects /\ DOMAIN job = Jobs
  BY DEF ApiInv, Shapes, AskedInv
<1>2. Dead.status # "ok" /\ Dead.path = "software" /\ Typed(BlankJob)
  BY DEF Dead, Typed, BlankJob
<1>3. ASSUME NEW j \in Jobs, FinalizeJob(j) PROVE TypedInv'
  <2>1. /\ obj' = [obj EXCEPT ![j] = Dead] /\ asked' = [asked EXCEPT ![j] = None]
        /\ task' = task /\ job' = job /\ app' = app /\ Step
    BY <1>3 DEF FinalizeJob
  <2>2. j \in Objects /\ Typed(job[j])
    BY DEF Objects, TypedInv, Fits
  <2>3. /\ obj'[j] = Dead /\ \A q \in Objects \ {j} : obj'[q] = obj[q] /\ asked'[q] = asked[q]
        /\ \A q \in Jobs \ {j} : job'[q] = job[q]
    BY <1>1, <2>1, <2>2
  <2>4. Sound(obj'[j]) /\ Fits(obj'[j], job'[j], asked'[j])
    BY <1>2, <2>1, <2>2, <2>3, InvalidSound
  <2>5. Counted
    BY <2>1, CallCounted
  <2> QED  BY <2>2, <2>3, <2>4, <2>5, TypedAbout
<1>4. ASSUME NEW j \in Jobs, NEW path \in app.paths, InitJob(j, path) PROVE TypedInv'
  <2> DEFINE idle == [status |-> "idle", path |-> path, place |-> j]
  <2>1. /\ obj' = [obj EXCEPT ![j] = idle]
        /\ asked' = [asked EXCEPT ![j] = None] /\ job' = [job EXCEPT ![j] = BlankJob]
        /\ task' = [task EXCEPT ![j] = BlankTask] /\ app' = app /\ Step
    BY <1>4 DEF InitJob
  <2>2. j \in Objects /\ j \in Places
    BY DEF Objects, Places
  <2>3. idle.status # "ok" /\ idle.path \in Paths \cup {"software"}
    BY ApplicationAssumption DEF ApiInv, Shapes
  <2> HIDE DEF idle
  <2>4. /\ obj'[j] = idle /\ \A q \in Objects \ {j} : obj'[q] = obj[q] /\ asked'[q] = asked[q]
        /\ job'[j] = BlankJob /\ \A q \in Jobs \ {j} : job'[q] = job[q]
    BY <1>1, <2>1, <2>2
  <2>5. Sound(obj'[j]) /\ Fits(obj'[j], job'[j], asked'[j])
    BY <1>2, <2>3, <2>4, InvalidSound
  <2>6. Counted
    BY <2>1, CallCounted
  <2> QED  BY <2>2, <2>4, <2>5, <2>6, TypedAbout
<1>5. ASSUME NEW h \in Handlers, Default(h) PROVE TypedInv'
  <2> DEFINE p == Fresh
  <2>1. /\ obj' = [obj EXCEPT ![h] = DefaultHandler(p)] /\ asked' = asked /\ job' = job
        /\ task' = [task EXCEPT ![p] = BlankTask] /\ app' = app /\ Step
    BY <1>5 DEF Default
  <2>2. h \in Objects /\ h \notin Jobs
    BY PlaceAssumption DEF Objects
  <2> HIDE DEF p
  <2>4. DefaultHandler(p).status # "ok" /\ DefaultHandler(p).path = "software"
    BY DEF DefaultHandler
  <2>5. /\ obj'[h] = DefaultHandler(p)
        /\ \A q \in Objects \ {h} : obj'[q] = obj[q] /\ asked'[q] = asked[q]
    BY <1>1, <2>1, <2>2
  <2>6. Sound(obj'[h])
    BY <2>4, <2>5, InvalidSound
  <2>7. Counted
    BY <2>1, CallCounted
  <2> QED  BY <2>1, <2>2, <2>5, <2>6, <2>7, TypedAbout
<1>6. ASSUME NEW h \in Handlers, Destroy(h) PROVE TypedInv'
  <2>1. /\ obj' = [obj EXCEPT ![h] = Dead] /\ asked' = [asked EXCEPT ![h] = None]
        /\ task' = task /\ job' = job /\ app' = app /\ Step
    BY <1>6 DEF Destroy
  <2>2. h \in Objects /\ h \notin Jobs
    BY PlaceAssumption DEF Objects
  <2>3. obj'[h] = Dead /\ \A q \in Objects \ {h} : obj'[q] = obj[q] /\ asked'[q] = asked[q]
    BY <1>1, <2>1, <2>2
  <2>4. Sound(obj'[h])
    BY <1>2, <2>3, InvalidSound
  <2>5. Counted
    BY <2>1, CallCounted
  <2> QED  BY <2>1, <2>2, <2>3, <2>4, <2>5, TypedAbout
<1> QED  BY <1>3, <1>4, <1>5, <1>6

\* A handler is moved.
LEMMA TypedMove ==
    ASSUME ApiInv, AskedInv, TypedInv, NEW g \in Handlers, NEW h \in Handlers,
           MoveConstruct(g, h) \/ MoveAssign(g, h)
    PROVE  TypedInv'
<1>1. DOMAIN obj = Objects /\ DOMAIN asked = Objects
      /\ \A o \in Objects : DOMAIN obj[o] = {"status", "path", "place"}
  BY DEF ApiInv, Shapes, AskedInv
<1>2. g \in Objects /\ h \in Objects /\ \A j \in Jobs : j \in Objects \ {g, h}
  BY PlaceAssumption DEF Objects
<1>3. task' = task /\ job' = job /\ app' = app /\ Step /\ g # h
  BY DEF MoveConstruct, MoveAssign
<1>4. Counted
  BY <1>3, CallCounted
<1>5. asked' = [asked EXCEPT ![g] = asked[h], ![h] = asked[g]]
  BY DEF MoveConstruct, MoveAssign, Swap
<1>6. asked'[g] = asked[h] /\ asked'[h] = asked[g]
      /\ \A q \in Objects \ {g, h} : asked'[q] = asked[q]
  BY <1>1, <1>2, <1>3, <1>5
<1>7. /\ obj'[g] = obj[h] /\ \A q \in Objects \ {g, h} : obj'[q] = obj[q]
      /\ \/ obj'[h] = obj[g]
         \/ obj'[h].status = "error" /\ obj'[h].path = obj[h].path
  <2>1. CASE MoveConstruct(g, h)
    <3>1. obj' = [obj EXCEPT ![g] = obj[h], ![h] = MovedFrom(h)]
      BY <2>1 DEF MoveConstruct
    <3>2. MovedFrom(h).status = "error" /\ MovedFrom(h).path = obj[h].path
      BY <1>1, <1>2 DEF MovedFrom
    <3> QED  BY <1>1, <1>2, <1>3, <3>1, <3>2
  <2>2. CASE MoveAssign(g, h)
    <3>1. obj' = [obj EXCEPT ![g] = obj[h], ![h] = obj[g]]
      BY <2>2 DEF MoveAssign, Swap
    <3> QED  BY <1>1, <1>2, <1>3, <3>1
  <2> QED  BY <2>1, <2>2
<1>8. \A o \in Objects : Sound(obj'[o])
  BY <1>1, <1>2, <1>7 DEF TypedInv, Sound
<1>9. \A j \in Jobs : Fits(obj'[j], job'[j], asked'[j])
  BY <1>2, <1>3, <1>6, <1>7 DEF TypedInv
<1> QED  BY <1>4, <1>8, <1>9 DEF TypedInv, Counted

\* dml::submit of a job that has the operation it stands for.
LEMMA TypedSubmit ==
    ASSUME ApiInv, AskedInv, TypedInv, Counted, NEW j \in Jobs, NEW fields, NEW want, NEW mode,
           obj[j].status # "dead", Submit(j, fields, want, mode),
           Typed(fields), Typed(clear_copy_only(fields)),
           clear_copy_only(fields).operation = operation[want.op]
    PROVE  TypedInv'
<1>1. j \in Objects /\ j \in Places \ {Temporary} /\ j # None
  BY PlaceAssumption DEF Objects, Places
<1>2. DOMAIN obj = Objects /\ DOMAIN asked = Objects /\ DOMAIN job = Jobs
      /\ DOMAIN obj[j] = {"status", "path", "place"} /\ obj[j].path \in Routes
  BY <1>1 DEF ApiInv, Shapes, AskedInv
<1>3. obj[j].path \in Paths \cup {"software"}
  BY <1>1 DEF TypedInv, Sound
<1>4. CASE range_check(fields) # "ok"
  <2> DEFINE st == range_check(fields)
  <2>1. /\ obj' = [obj EXCEPT ![j].status = st] /\ task' = task
        /\ job' = [job EXCEPT ![j] = fields] /\ asked' = [asked EXCEPT ![j] = None]
    BY <1>4 DEF Submit
  <2> HIDE DEF st
  <2>2. /\ obj'[j].status = st /\ obj'[j].path = obj[j].path /\ job'[j] = fields
        /\ \A q \in Objects \ {j} : obj'[q] = obj[q] /\ asked'[q] = asked[q]
        /\ \A q \in Jobs \ {j} : job'[q] = job[q]
    BY <1>1, <1>2, <2>1
  <2>3. Sound(obj'[j]) /\ Fits(obj'[j], job'[j], asked'[j])
    BY <1>3, <1>4, <2>2, InvalidSound DEF st
  <2> QED  BY <1>1, <2>2, <2>3, TypedAbout
<1>5. CASE range_check(fields) = "ok"
  <2> DEFINE checked == clear_copy_only(fields)
             made == make_task(checked)
             tmp == rebind(made, Address[Temporary])
             dsc == MoveTask(tmp, j)
             as == [want |-> want, path |-> obj[j].path]
  <2>1. PICK s \in ml_submit(dsc, obj[j].path) :
            /\ Offered([task EXCEPT ![j] = [dsc |-> dsc, rec |-> Blank]], dsc, s.taker)
            /\ job' = [job EXCEPT ![j] = checked]
            /\ obj' = [obj EXCEPT ![j].status = IF s.status = "success" THEN "ok" ELSE s.status]
            /\ asked' = [asked EXCEPT ![j] = IF s.status = "success" THEN as ELSE None]
    BY <1>5 DEF Submit
  <2>2. Named(dsc) = {j} /\ Bindable(dsc)
    <3>1. Bindable(made) /\ Temporary \in Places
      BY TaskBindable DEF Places
    <3> HIDE DEF made
    <3>2. Bindable(tmp)
      BY <3>1, Rebound
    <3> HIDE DEF tmp
    <3> QED  BY <1>1, <3>2, Rebound DEF MoveTask
  <2>4. as.want = want
    OBVIOUS
  <2> HIDE DEF dsc, as, checked
  <2>5. PICK r : Offer(j, dsc, obj[j].path, s.status, r)
    BY <1>1, <1>2, <2>1, <2>2, Offering DEF ApiInv
  <2>7. s.status # "ok"
    BY <2>5 DEF Offer, Statuses, Refusals
  <2>8. /\ obj'[j].path = obj[j].path /\ job'[j] = checked
        /\ obj'[j].status = IF s.status = "success" THEN "ok" ELSE s.status
        /\ asked'[j] = IF s.status = "success" THEN as ELSE None
        /\ \A q \in Objects \ {j} : obj'[q] = obj[q] /\ asked'[q] = asked[q]
        /\ \A q \in Jobs \ {j} : job'[q] = job[q]
    BY <1>1, <1>2, <2>1
  <2>9. obj'[j].status = "ok" => asked'[j].want = want
    BY <2>4, <2>7, <2>8
  <2>10. Sound(obj'[j]) /\ Fits(obj'[j], job'[j], asked'[j])
    BY <1>3, <2>8, <2>9 DEF Sound, Fits, checked
  <2> QED  BY <1>1, <2>8, <2>10, TypedAbout
<1> QED  BY <1>4, <1>5

\* A job that is filled in and submitted.
LEMMA TypedSubmitJob ==
    ASSUME ApiInv, AskedInv, TypedInv, app.api = "job", NEW j \in Jobs, NEW mode,
           SubmitJob(j, mode)
    PROVE  TypedInv'
<1>1. PICK m \in app.requests : Submit(j, AsJob(m.want, m.copy_only), m.want, mode)
  BY DEF SubmitJob
<1>2. JobWish(m) /\ obj[j].status # "dead"
  BY WishAssumption, SMTT(60) DEF ApiInv, Shapes, SubmitJob
<1> DEFINE fields == AsJob(m.want, m.copy_only)
<1>3. clear_copy_only(fields) = Job(m)
  BY DEF Job
<1>4. Typed(fields) /\ Typed(Job(m)) /\ Job(m).operation = operation[m.want.op]
  BY <1>2, FilledTyped
<1> HIDE DEF fields
<1>5. Counted
  BY CallCounted DEF SubmitJob
<1> QED  BY <1>1, <1>2, <1>3, <1>4, <1>5, TypedSubmit DEF fields

\* A job that is submitted again as it is.
LEMMA TypedResubmit ==
    ASSUME ApiInv, AskedInv, TypedInv, NEW j \in Jobs, ResubmitJob(j)
    PROVE  TypedInv'
<1> DEFINE want == asked[j].want
           f == job[j]
           next == IF /\ want.op \in {"crc", "copy_crc"}
                      /\ Has(specific_flags(f), crc_specific_flag.read_crc_seed)
                   THEN [want EXCEPT !.arg.crc_seed = f.crc] ELSE want
<1>1. obj[j].status = "ok" /\ want.op # "create_delta" /\ Submit(j, f, next, "submit")
  BY Zenon DEF ResubmitJob
<1>2. PICK m, e : JobWish(m) /\ Alike(f, m) /\ Alike(e, m) /\ want = Wanted(e, m)
  BY <1>1 DEF AskedInv, Refills
<1>3. next.op = want.op
  <2>1. want = [op |-> want.op, arg |-> want.arg, flags |-> want.flags]
    BY <1>2 DEF Wanted
  <2> HIDE DEF want, f
  <2> QED  BY <2>1
<1>4. Typed(f)
  BY DEF TypedInv, Fits
<1>6. clear_copy_only(f) = f
  <2>1. ~Has(flags_of(f), 32)
    BY <1>2, JobAlike
  <2> QED  BY <2>1, Zenon DEF clear_copy_only, DML_FLAG_COPY_ONLY
<1>7. f.operation = operation[want.op]
  BY <1>1, <1>4 DEF TypedInv, Fits
<1>8. Counted /\ obj[j].status # "dead"
  BY <1>1, CallCounted DEF ResubmitJob
<1> HIDE DEF next, f, want
<1> QED  BY <1>1, <1>3, <1>4, <1>6, <1>7, <1>8, TypedSubmit

\* dml::submit into a handler.
LEMMA TypedSubmitCall ==
    ASSUME ApiInv, AskedInv, TypedInv, app.api = "hl", NEW h \in Handlers,
           NEW path \in app.paths, SubmitCall(h, path)
    PROVE  TypedInv'
<1> DEFINE p == Fresh
           over(m) == submit_overload(CallOf(m))
           bound(m) == rebind(over(m).dsc, Address[p])
<1>1. h \in Objects /\ h \notin Jobs
  BY PlaceAssumption DEF Objects
<1>3. path \in Paths
  BY ApplicationAssumption DEF ApiInv, Shapes
<1>4. DOMAIN obj = Objects /\ DOMAIN asked = Objects /\ job' = job
  BY DEF ApiInv, Shapes, AskedInv, SubmitCall
<1>5. PICK m \in app.requests : \E s \in ml_submit(bound(m), path) :
        LET tasks == [task EXCEPT ![p] = [dsc |-> bound(m), rec |-> Blank]]
        IN  /\ IF over(m).check = "ok" THEN Offered(tasks, bound(m), s.taker)
               ELSE task' = tasks /\ UNCHANGED flight
            /\ obj' = [obj EXCEPT ![h] = handler_of(over(m), p, path, s)]
            /\ asked' = [asked EXCEPT ![h] = IF over(m).check = "ok" /\ s.status = "success"
                                             THEN [want |-> m.want, path |-> path] ELSE None]
  BY DEF SubmitCall, CallOf
<1> DEFINE ov == over(m)
           dsc == bound(m)
           tasks == [task EXCEPT ![p] = [dsc |-> dsc, rec |-> Blank]]
           as == [want |-> m.want, path |-> path]
<1>6. PICK s \in ml_submit(dsc, path) :
        /\ IF ov.check = "ok" THEN Offered(tasks, dsc, s.taker)
           ELSE task' = tasks /\ UNCHANGED flight
        /\ obj' = [obj EXCEPT ![h] = handler_of(ov, p, path, s)]
        /\ asked' = [asked EXCEPT ![h] = IF ov.check = "ok" /\ s.status = "success"
                                         THEN as ELSE None]
  BY <1>5
<1> HIDE DEF ov, p, over, as
<1> HIDE DEF dsc, bound
<1> DEFINE new == handler_of(ov, p, path, s)
<1>12. /\ new.path \in Paths \cup {"software"}
       /\ new.status = IF ov.check # "ok" THEN ov.check
                       ELSE IF s.status = "success" THEN "ok" ELSE s.status
  BY <1>3 DEF handler_of
<1> HIDE DEF new
<1>14. /\ obj'[h] = new /\ asked'[h] = IF ov.check = "ok" /\ s.status = "success"
                                       THEN as ELSE None
       /\ \A q \in Objects \ {h} : obj'[q] = obj[q] /\ asked'[q] = asked[q]
  BY <1>1, <1>4, <1>6 DEF new
<1>15. Sound(obj'[h])
  BY <1>12, <1>14 DEF Sound
<1>17. Counted
  BY CallCounted DEF SubmitCall
<1> QED  BY <1>1, <1>4, <1>14, <1>15, <1>17, TypedAbout

\* dml::execute
LEMMA TypedExecute ==
    ASSUME ApiInv, AskedInv, TypedInv, app.api = "hl", NEW path \in app.paths, Execute(path)
    PROVE  TypedInv'
<1> DEFINE over(m) == submit_overload(CallOf(m))
           bound(m) == rebind(over(m).dsc, Address[Call])
<1>1. Call \in Objects /\ Call \notin Jobs /\ Call \in Places
  BY PlaceAssumption DEF Objects, Places
<1>2. path \in Paths
  BY ApplicationAssumption DEF ApiInv, Shapes
<1>3. DOMAIN obj = Objects /\ DOMAIN asked = Objects /\ job' = job
      /\ DOMAIN obj[Call] = {"status", "path", "place"}
  BY <1>1 DEF ApiInv, Shapes, AskedInv, Execute
<1>4. PICK m \in app.requests :
        IF over(m).check # "ok"
        THEN /\ obj' = [obj EXCEPT ![Call].status = over(m).check] /\ task' = task
             /\ asked' = [asked EXCEPT ![Call] = None]
        ELSE \E s \in ml_submit(bound(m), path) :
                /\ Offered([task EXCEPT ![Call] = [dsc |-> bound(m), rec |-> Blank]], bound(m),
                           s.taker)
                /\ obj' = [obj EXCEPT ![Call] =
                        [status |-> IF s.status = "success" THEN "ok"
                                    ELSE IF validate(bound(m)) # "success" THEN s.status ELSE "error",
                         path |-> path, place |-> Call]]
                /\ asked' = [asked EXCEPT ![Call] =
                        IF s.status = "success" THEN [want |-> m.want, path |-> path] ELSE None]
  BY DEF Execute, execute_overload, CallOf
<1> DEFINE ov == over(m)
           dsc == bound(m)
           as == [want |-> m.want, path |-> path]
<1>6. Counted
  BY CallCounted DEF Execute
<1>7. CASE ov.check # "ok"
  <2>1. /\ obj' = [obj EXCEPT ![Call].status = ov.check] /\ task' = task
        /\ asked' = [asked EXCEPT ![Call] = None]
    BY <1>4, <1>7
  <2> HIDE DEF ov
  <2>2. /\ obj'[Call].status = ov.check /\ obj'[Call].path = obj[Call].path
        /\ \A q \in Objects \ {Call} : obj'[q] = obj[q] /\ asked'[q] = asked[q]
    BY <1>1, <1>3, <2>1
  <2>3. Sound(obj'[Call])
    BY <1>1, <1>7, <2>2 DEF TypedInv, Sound
  <2> QED  BY <1>1, <1>3, <1>6, <2>2, <2>3, TypedAbout
<1>8. CASE ov.check = "ok"
  <2>1. PICK s \in ml_submit(dsc, path) :
            /\ Offered([task EXCEPT ![Call] = [dsc |-> dsc, rec |-> Blank]], dsc, s.taker)
            /\ obj' = [obj EXCEPT ![Call] =
                    [status |-> IF s.status = "success" THEN "ok"
                                ELSE IF validate(dsc) # "success" THEN s.status ELSE "error",
                     path |-> path, place |-> Call]]
            /\ asked' = [asked EXCEPT ![Call] = IF s.status = "success" THEN as ELSE None]
    BY <1>4, <1>8
  <2> HIDE DEF dsc, ov, as
  <2>2. /\ obj'[Call].path = path
        /\ \A q \in Objects \ {Call} : obj'[q] = obj[q] /\ asked'[q] = asked[q]
    BY <1>1, <1>3, <2>1
  <2>3. Sound(obj'[Call])
    BY <1>2, <2>2 DEF Sound
  <2> QED  BY <1>1, <1>3, <1>6, <2>2, <2>3, TypedAbout
<1> QED  BY <1>7, <1>8

\* At first there is nothing to read.
LEMMA InitTyped == Init => TypedInv
<1> SUFFICES ASSUME Init PROVE TypedInv
  OBVIOUS
<1>1. app.calls \in Nat
  BY ApplicationAssumption DEF Init
<1>2. \A o \in Objects : Sound(obj[o])
  BY DEF Init, Dead, Sound
<1>4. \A j \in Jobs : Fits(obj[j], job[j], asked[j])
  <2>1. Typed(BlankJob) /\ Dead.status # "ok"
    BY DEF Typed, BlankJob, Dead
  <2>2. \A j \in Jobs : obj[j] = Dead /\ job[j] = BlankJob
    BY DEF Init, Objects
  <2> QED  BY <2>1, <2>2, InvalidSound
<1>5. calls \in 0 .. app.calls
  BY <1>1 DEF Init
<1> QED  BY <1>2, <1>4, <1>5 DEF TypedInv

\* Every step keeps jobs typed.
LEMMA StepTyped == ApiInv /\ AskedInv /\ TypedInv /\ [Next]_vars => TypedInv'
<1> SUFFICES ASSUME ApiInv, AskedInv, TypedInv, [Next]_vars PROVE TypedInv'
  OBVIOUS
<1>1. CASE JobApi
  <2>1. PICK j \in Jobs :
            \/ \E path \in app.paths : InitJob(j, path)
            \/ \E mode \in {"submit", "execute"} : SubmitJob(j, mode)
            \/ ResubmitJob(j) \/ WaitJob(j) \/ CheckJob(j) \/ FinalizeJob(j)
    BY <1>1 DEF JobApi
  <2>2. app.api = "job"
    BY <1>1 DEF JobApi
  <2>3. CASE FinalizeJob(j) \/ \E path \in app.paths : InitJob(j, path)
    BY <2>3, TypedCreation
  <2>4. CASE \E mode \in {"submit", "execute"} : SubmitJob(j, mode)
    BY <2>2, <2>4, TypedSubmitJob
  <2>5. CASE ResubmitJob(j)
    BY <2>5, TypedResubmit
  <2>6. CASE WaitJob(j) \/ CheckJob(j)
    BY <2>6, TypedResting
  <2> QED  BY <2>1, <2>3, <2>4, <2>5, <2>6
<1>2. CASE HighLevelApi
  <2>1. app.api = "hl"
    BY <1>2 DEF HighLevelApi
  <2>2. CASE \E path \in app.paths : Execute(path)
    BY <2>1, <2>2, TypedExecute
  <2>3. CASE \E h \in Handlers :
            \/ \E path \in app.paths : SubmitCall(h, path)
            \/ Default(h) \/ Destroy(h) \/ GetResult(h) \/ IsFinished(h)
            \/ \E g \in Handlers : MoveConstruct(g, h) \/ MoveAssign(g, h)
    <3>1. PICK h \in Handlers :
            \/ \E path \in app.paths : SubmitCall(h, path)
            \/ Default(h) \/ Destroy(h) \/ GetResult(h) \/ IsFinished(h)
            \/ \E g \in Handlers : MoveConstruct(g, h) \/ MoveAssign(g, h)
      BY <2>3
    <3>2. CASE \E path \in app.paths : SubmitCall(h, path)
      BY <2>1, <3>2, TypedSubmitCall
    <3>3. CASE Default(h) \/ Destroy(h)
      BY <3>3, TypedCreation
    <3>4. CASE GetResult(h) \/ IsFinished(h)
      BY <3>4, TypedResting
    <3>5. CASE \E g \in Handlers : MoveConstruct(g, h) \/ MoveAssign(g, h)
      BY <3>5, TypedMove
    <3> QED  BY <3>1, <3>2, <3>3, <3>4, <3>5
  <2> QED  BY <1>2, <2>2, <2>3 DEF HighLevelApi
<1>3. CASE Return \/ Device \/ UNCHANGED vars
  BY <1>3, TypedResting
<1> QED  BY <1>1, <1>2, <1>3 DEF Next

\* The type invariant: every place, path and count is what it should be, and no field that an
\* operation reports in is ever torn, neither in a record, read through the view of the
\* operation that was asked for, nor in a job that was given its result, however often the
\* record and the job were used for other operations before.
THEOREM ApiTypes == Spec => []TypeOK
<1>1. ApiInv /\ AskedInv /\ TypedInv => TypeOK
  <2> SUFFICES ASSUME ApiInv, AskedInv, TypedInv PROVE TypeOK
    OBVIOUS
  <2>1. app \in Applications /\ calls \in 0 .. app.calls /\ waiting \in Objects \cup {None}
    BY DEF ApiInv, Shapes, TypedInv, Waits
  <2>2. ASSUME NEW o \in Objects
        PROVE  obj[o].path \in Paths \cup {"software"} /\ obj[o].place \in Places \cup {None}
    BY OwnPlace DEF ApiInv, TypedInv, Sound
  <2>3. \A j \in Jobs : \A f \in {"crc", "offset", "result", "destination_length", "flags"} :
            job[j][f] \in Nat
    BY DEF TypedInv, Fits, Typed
  <2>4. ASSUME NEW o \in Objects, asked[o] # None
        PROVE  LET r == Read(asked[o].want.op, Task(o).rec) IN \A f \in DOMAIN r : r[f] \in Nat
    <3>1. obj[o].status = "ok"
      BY <2>4 DEF AskedInv, Carries
    <3>2. /\ Proper(asked[o].want)
          /\ Standing(asked[o].want, asked[o].path, Task(o).dsc, Task(o).rec)
      BY <3>1, ValidParts
    <3> QED  BY <3>2, StandingValues DEF Read
  <2>5. allocated \subseteq Heap
    BY DEF ApiInv, InPlace, BuffersOwnedOnce
  <2>6. ASSUME NEW dsc \in flight PROVE Get(dsc, any_descriptor.operation) \in Nat
    <3>1. PICK o \in Objects : obj[o].status = "ok" /\ Task(o).dsc = dsc
      BY DEF ApiInv, Aimed
    <3>2. Viable(dsc, Task(o).rec)
      BY <3>1 DEF ApiInv, Bound
    <3>3. \A op \in Operations : operation[op] \in Nat
      BY DEF Operations, operation
    <3> QED  BY <3>2, <3>3 DEF Viable
  <2> QED  BY <2>1, <2>2, <2>3, <2>4, <2>5, <2>6 DEF TypeOK
<1> QED  BY <1>1, InitApi, StepApi, InitAsked, StepAsked, InitTyped, StepTyped, PTL DEF Spec


-----------------------------------------------------------------------------
(* Both APIs keep the promise of Operation: what a record says. *)

\* Something for every object.
Maps == asked = [o \in Objects |-> asked[o]] /\ told = [o \in Objects |-> told[o]]

\* All of it.
AllInv == ApiInv /\ AskedInv /\ TypedInv /\ Maps

\* The outcome that a record shows to who asked for as.
Shown(as, rec) ==
    IF ~Filled(rec) \/ (as.path = "automatic" /\ Faulted(rec))
    THEN Pending ELSE Visible(as.want.op, Read(as.want.op, rec))

\* That is the outcome of what an object stands for,
LEMMA NowShown ==
    ASSUME NEW o \in Objects
    PROVE  OutcomeNow(o) = IF asked[o] = None THEN None ELSE Shown(asked[o], Task(o).rec)
  BY Zenon DEF OutcomeNow, Shown, Filled

\* also after a step.
LEMMA NextShown ==
    ASSUME NEW o \in Objects
    PROVE  OutcomeNow(o)' = IF asked'[o] = None THEN None ELSE Shown(asked'[o], Task(o)'.rec)
  BY Zenon DEF OutcomeNow, Shown, Filled

\* It is one that is possible for the path.
LEMMA CarriedShown ==
    ASSUME NEW ob, NEW t, NEW as, Carries(ob, t, as), as # None
    PROVE  as \in Requests /\ Shown(as, t.rec) \in {Pending} \cup Possible(as)
<1>1. /\ as \in Requests /\ as.path = ob.path /\ Proper(as.want) /\ Sanctioned(as.want)
      /\ Standing(as.want, ob.path, t.dsc, t.rec)
  BY DEF Carries
<1>2. as = [want |-> as.want, path |-> as.path] /\ as.path \in {"software", "hardware", "automatic"}
  BY <1>1, RequestParts, ApplicationAssumption
<1>3. Sized(as.want)
  BY <1>1, SanctionedSized
<1>4. CASE ~Filled(t.rec) \/ (as.path = "automatic" /\ Faulted(t.rec))
  BY <1>1, <1>4 DEF Shown
<1>5. CASE Filled(t.rec) /\ ~(as.path = "automatic" /\ Faulted(t.rec))
  <2> DEFINE shown == Visible(as.want.op, Read(as.want.op, t.rec))
             want == as.want
             path == as.path
  <2>1. shown \in Possible([want |-> want, path |-> path])
    BY <1>1, <1>2, <1>3, <1>5, StandingPossible
  <2>2. Shown(as, t.rec) = shown
    BY <1>5 DEF Shown
  <2> QED  BY <1>1, <1>2, <2>1, <2>2
<1> QED  BY <1>4, <1>5

\* The outcomes of other objects stay as they are.
LEMMA OthersShown ==
    ASSUME AskedInv, NEW o \in Objects, OthersKept(o), NEW q \in Objects \ {o},
           asked'[q] = asked[q]
    PROVE  OutcomeNow(q)' = OutcomeNow(q)
<1>1. obj'[q] = obj[q] /\ (obj[q].status = "ok" => Task(q)' = Task(q))
  BY DEF OthersKept
<1>2. asked[q] # None => obj[q].status = "ok"
  BY DEF AskedInv, Carries
<1>3. OutcomeNow(q)' = IF asked'[q] = None THEN None ELSE Shown(asked'[q], Task(q)'.rec)
  BY NextShown
<1> QED  BY <1>1, <1>2, <1>3, NowShown

\* Nothing else changes when one object takes up an operation, ends it or tells of it.
LEMMA AboutOne ==
    ASSUME AllInv, NEW o \in Objects, OthersKept(o), NEW as, NEW an,
           asked' = [asked EXCEPT ![o] = as], told' = [told EXCEPT ![o] = an]
    PROVE  Promise!Only(o) /\ asked'[o] = as /\ told'[o] = an /\ Maps'
<1> DEFINE x == [p \in Objects |-> OutcomeNow(p)]
           y == [p \in Objects |-> OutcomeNow(p)']
<1>1. DOMAIN asked = Objects /\ DOMAIN told = Objects
  <2>1. Maps
    BY DEF AllInv
  <2> QED  BY <2>1 DEF Maps
<1>2. /\ asked'[o] = as /\ told'[o] = an /\ Maps'
      /\ \A q \in Objects \ {o} : asked'[q] = asked[q]
  BY <1>1 DEF Maps
<1>3. y = [x EXCEPT ![o] = y[o]]
  <2>1. \A p \in Objects \ {o} : OutcomeNow(p)' = OutcomeNow(p)
    BY <1>2, OthersShown DEF AllInv
  <2> QED  BY <2>1
<1>4. asked' = [asked EXCEPT ![o] = asked'[o]] /\ told' = [told EXCEPT ![o] = told'[o]]
  BY <1>2
<1>5. Promise!Only(o)
  BY <1>3, <1>4 DEF Promise!Only
<1> QED  BY <1>2, <1>5

\* An object stands for something else, or for nothing, and has told nothing.
LEMMA Starts ==
    ASSUME AllInv, AskedInv', NEW o \in Objects, Retakes(o), told' = [told EXCEPT ![o] = None]
    PROVE  Maps' /\ Promise!Next
<1> DEFINE y == [p \in Objects |-> OutcomeNow(p)']
<1>1. PICK as : asked' = [asked EXCEPT ![o] = as]
  BY DEF Retakes
<1>2. Promise!Only(o) /\ asked'[o] = as /\ told'[o] = None /\ Maps'
  BY <1>1, AboutOne DEF Retakes
<1>3. CASE as = None
  <2>1. y[o] = None
    BY <1>2, <1>3, NextShown
  <2>2. Promise!Forget(o)
    BY <1>2, <1>3, <2>1 DEF Promise!Forget
  <2> QED  BY <1>2, <2>2 DEF Promise!Next
<1>4. CASE as # None
  <2>1. Carries(obj'[o], Task(o)', asked'[o])
    BY DEF AskedInv
  <2>2. as \in Requests /\ Shown(as, Task(o)'.rec) \in {Pending} \cup Possible(as)
    BY <1>2, <1>4, <2>1, CarriedShown
  <2>3. y[o] \in {Pending} \cup Possible(as)
    BY <1>2, <1>4, <2>2, NextShown
  <2>4. Promise!Start(o)
    BY <1>2, <1>4, <2>2, <2>3 DEF Promise!Start
  <2> QED  BY <1>2, <2>4 DEF Promise!Next
<1> QED  BY <1>3, <1>4

\* Nothing that a caller can know of changes.
LEMMA Stutters ==
    ASSUME asked' = asked, told' = told, \A o \in Objects : OutcomeNow(o)' = OutcomeNow(o)
    PROVE  UNCHANGED Promise!vars
<1>1. [p \in Objects |-> OutcomeNow(p)'] = [p \in Objects |-> OutcomeNow(p)]
  OBVIOUS
<1> QED  BY <1>1 DEF Promise!vars

\* An operation that ends unless it has, without anyone being told.
LEMMA Completes ==
    ASSUME AllInv, AskedInv', NEW o \in Objects, obj[o].status = "ok", OthersKept(o),
           UNCHANGED <<asked, told>>,
           \/ Shown(asked[o], Task(o).rec) = Pending
           \/ Shown(asked[o], Task(o)'.rec) = Shown(asked[o], Task(o).rec)
    PROVE  Maps' /\ (Promise!Next \/ UNCHANGED Promise!vars)
<1> DEFINE x == [p \in Objects |-> OutcomeNow(p)]
           y == [p \in Objects |-> OutcomeNow(p)']
           as == asked[o]
<1>1. as \in Requests /\ as # None
  <2>1. as \in Requests
    BY DEF AllInv, AskedInv, Carries
  <2> QED  BY <2>1, RequestParts
<1>2. Maps /\ Maps'
  BY DEF AllInv, Maps
<1>3. x[o] = Shown(as, Task(o).rec) /\ y[o] = Shown(as, Task(o)'.rec)
  BY <1>1, NowShown, NextShown
<1>4. y[o] \in {Pending} \cup Possible(as)
  <2>1. Carries(obj'[o], Task(o)', asked'[o])
    BY DEF AskedInv
  <2>2. asked'[o] # None /\ asked'[o] = as
    BY <1>1
  <2>3. Shown(as, Task(o)'.rec) \in {Pending} \cup Possible(as)
    BY <2>1, <2>2, CarriedShown
  <2> QED  BY <1>3, <2>3
<1>5. CASE y[o] = x[o]
  <2>1. \A p \in Objects \ {o} : OutcomeNow(p)' = OutcomeNow(p)
    BY OthersShown DEF AllInv
  <2>2. \A p \in Objects : OutcomeNow(p)' = OutcomeNow(p)
    BY <1>5, <2>1
  <2> QED  BY <1>2, <2>2, Stutters
<1>6. CASE x[o] = Pending /\ y[o] \in Possible(as)
  <2>1. asked' = [asked EXCEPT ![o] = asked[o]] /\ told' = [told EXCEPT ![o] = told[o]]
    BY <1>2 DEF Maps
  <2>2. Promise!Only(o)
    BY <2>1, AboutOne
  <2>3. Promise!Finish(o)
    BY <1>6, <2>2 DEF Promise!Finish
  <2> QED  BY <1>2, <2>3 DEF Promise!Next
<1> QED  BY <1>3, <1>4, <1>5, <1>6

\* A wait that begins, and a step that changes nothing.
LEMMA RestPromise ==
    ASSUME AllInv, UNCHANGED <<obj, task, asked, told>>
    PROVE  Maps' /\ UNCHANGED Promise!vars
<1>1. \A o \in Objects : OutcomeNow(o)' = OutcomeNow(o)
  BY DEF Task, OutcomeNow
<1>2. Maps'
  BY DEF AllInv, Maps
<1> QED  BY <1>1, <1>2, Stutters

-----------------------------------------------------------------------------
(* What callers are told. *)

\* An answer is part of what a record of the operation says.
Quotes(an, op, rec) ==
    DOMAIN an \subseteq Parts(op) /\ an = [n \in DOMAIN an |-> Visible(op, Read(op, rec))[n]]

\* The parts of an outcome that dml_check_job and dml_wait_job tell of are true.
LEMMA JobTells ==
    ASSUME NEW op \in Operations, NEW f, DOMAIN f = DOMAIN BlankJob, f.operation = operation[op],
           NEW rec
    PROVE  Quotes(JobAnswer(op, write_result(f, rec), rec), op, rec)
<1> DEFINE new == write_result(f, rec)
           parts == JobParts(op)
           s == to_own_status(status_of(rec))
           an == JobAnswer(op, new, rec)
           x == Read(op, rec)
           out == Visible(op, x)
<1>1. (CHOOSE p \in Operations : operation[p] = f.operation) = op
  BY OwnCode
<1>2. x["status"] = Get(rec, any_completion_record.status)
  BY StatusRead
<1>3. {"crc", "offset", "result", "destination_length"} \subseteq DOMAIN f
  BY DEF BlankJob
<1>4. \A n \in DOMAIN parts : n # "status" /\ new[parts[n]] = x[n]
  <2> DEFINE crcs == {"crc", "copy_crc"}
             compares == {"compare", "compare_pattern", "dif_check", "dif_strip", "dif_update"}
  <2>1. \/ op \in crcs /\ new = [f EXCEPT !.crc = x.crc_value]
        \/ op \in compares /\ new = [f EXCEPT !.offset = x.bytes_completed, !.result = x.result]
        \/ op = "create_delta"
           /\ new = [f EXCEPT !.destination_length = x.delta_record_size, !.result = x.result,
                              !.offset = FirstNote]
        \/ op = "dif_insert" /\ new = [f EXCEPT !.offset = x.bytes_completed]
        \/ op = "mem_move" /\ new = [f EXCEPT !.result = x.result]
        \/ op \notin crcs \cup compares \cup {"create_delta", "dif_insert", "mem_move"}
    BY <1>1, Zenon DEF write_result
  <2>2. /\ op \in crcs => parts = [crc_value |-> "crc"]
        /\ op \in compares => parts = [bytes_completed |-> "offset", result |-> "result"]
        /\ op = "create_delta" =>
                parts = [delta_record_size |-> "destination_length", result |-> "result"]
        /\ op = "dif_insert" => parts = [bytes_completed |-> "offset"]
        /\ op = "mem_move" => parts = [result |-> "result"]
        /\ op \notin crcs \cup compares \cup {"create_delta", "dif_insert", "mem_move"} =>
                parts = [n \in {} |-> ""]
    BY DEF JobParts
  <2> HIDE DEF new, parts, crcs, compares, x
  <2>3. CASE op \in crcs /\ new = [f EXCEPT !.crc = x.crc_value]
    BY <1>3, <2>2, <2>3 DEF crcs
  <2>4. CASE op \in compares /\ new = [f EXCEPT !.offset = x.bytes_completed, !.result = x.result]
    <3>1. new["offset"] = x["bytes_completed"] /\ new["result"] = x["result"]
      BY <1>3, <2>4
    <3>2. /\ DOMAIN parts = {"bytes_completed", "result"}
          /\ parts["bytes_completed"] = "offset" /\ parts["result"] = "result"
      BY <2>2, <2>4
    <3> QED  BY <3>1, <3>2
  <2>5. CASE op = "create_delta"
             /\ new = [f EXCEPT !.destination_length = x.delta_record_size, !.result = x.result,
                                !.offset = FirstNote]
    <3>1. new["destination_length"] = x["delta_record_size"] /\ new["result"] = x["result"]
      BY <1>3, <2>5
    <3>2. /\ DOMAIN parts = {"delta_record_size", "result"}
          /\ parts["delta_record_size"] = "destination_length" /\ parts["result"] = "result"
      BY <2>2, <2>5
    <3> QED  BY <2>5, <3>1, <3>2
  <2>6. CASE op = "dif_insert" /\ new = [f EXCEPT !.offset = x.bytes_completed]
    BY <1>3, <2>2, <2>6
  <2>7. CASE op = "mem_move" /\ new = [f EXCEPT !.result = x.result]
    BY <1>3, <2>2, <2>7
  <2>8. CASE op \notin crcs \cup compares \cup {"create_delta", "dif_insert", "mem_move"}
    BY <2>2, <2>8
  <2> QED  BY <2>1, <2>3, <2>4, <2>5, <2>6, <2>7, <2>8
<1>5. /\ DOMAIN an = {"status"} \cup DOMAIN parts /\ an["status"] = s
      /\ \A n \in DOMAIN parts : n # "status" => an[n] = new[parts[n]]
      /\ an = [n \in DOMAIN an |-> an[n]]
  <2> DEFINE told1 == [status |-> s]
             told2 == [n \in DOMAIN parts |-> new[parts[n]]]
  <2>1. an = Joined(told1, told2)
    BY Zenon DEF JobAnswer
  <2> HIDE DEF an, new, parts, s
  <2>2. DOMAIN told1 = {"status"} /\ told1["status"] = s
    OBVIOUS
  <2>3. DOMAIN told2 = DOMAIN parts /\ \A n \in DOMAIN parts : told2[n] = new[parts[n]]
    OBVIOUS
  <2> HIDE DEF told1, told2
  <2> QED  BY <2>1, <2>2, <2>3 DEF Joined
<1>6. {"status"} \cup DOMAIN parts \subseteq Parts(op)
  BY DEF Parts
<1>7. out["status"] = s /\ \A n \in Parts(op) \ {"status"} : out[n] = x[n]
  <2> HIDE DEF x
  <2> QED  BY <1>2, <1>6 DEF Visible, status_of
<1> HIDE DEF new, parts, s, an, x, out
<1>8. DOMAIN an \subseteq Parts(op) /\ an = [n \in DOMAIN an |-> out[n]]
  BY <1>4, <1>5, <1>6, <1>7
<1> QED  BY <1>8 DEF Quotes, an, new, out, x

\* The parts of an outcome that handler::get and dml::execute tell of are true.
LEMMA CallTells ==
    ASSUME NEW op \in Operations, NEW rec
    PROVE  Quotes(make_result(op, rec), op, rec)
<1> DEFINE parts == ResultParts(op)
           s == to_own_status(status_of(rec))
           an == make_result(op, rec)
           x == Read(op, rec)
           out == Visible(op, x)
<1>1. x["status"] = Get(rec, any_completion_record.status)
  BY StatusRead
<1>2. /\ DOMAIN an = {"status"} \cup parts /\ an["status"] = s
      /\ \A n \in parts : n # "status" => an[n] = x[n]
      /\ an = [n \in DOMAIN an |-> an[n]]
  <2> DEFINE told1 == [status |-> s]
             told2 == [n \in parts |-> x[n]]
  <2>1. an = Joined(told1, told2)
    BY Zenon DEF make_result
  <2> HIDE DEF an, parts, s, x
  <2>2. DOMAIN told1 = {"status"} /\ told1["status"] = s
    OBVIOUS
  <2>3. DOMAIN told2 = parts /\ \A n \in parts : told2[n] = x[n]
    OBVIOUS
  <2> HIDE DEF told1, told2
  <2> QED  BY <2>1, <2>2, <2>3 DEF Joined
<1>3. {"status"} \cup parts \subseteq Parts(op)
  BY DEF Parts
<1>4. out["status"] = s /\ \A n \in Parts(op) \ {"status"} : out[n] = x[n]
  <2> HIDE DEF x
  <2> QED  BY <1>1, <1>3 DEF Visible, status_of
<1> HIDE DEF parts, s, an, x, out
<1>5. DOMAIN an \subseteq Parts(op) /\ an = [n \in DOMAIN an |-> out[n]]
  BY <1>2, <1>3, <1>4
<1> QED  BY <1>5 DEF Quotes, an, out, x

\* The record that a wait or a look leaves says how the operation ended; it is the one that
\* was there if that was clear before.
LEMMA Resolves ==
    ASSUME AllInv, NEW o \in Objects, obj[o].status = "ok", Finished(o), NEW t \in Resolved(o)
    PROVE  /\ asked[o] \in Requests /\ asked[o] # None
           /\ Shown(asked[o], t.rec) = Visible(asked[o].want.op, Read(asked[o].want.op, t.rec))
           /\ Shown(asked[o], t.rec) \in Possible(asked[o])
           /\ Shown(asked[o], Task(o).rec) \in {Pending, Shown(asked[o], t.rec)}
<1> DEFINE as == asked[o]
           out == Visible(as.want.op, Read(as.want.op, t.rec))
<1>1. /\ as \in Requests /\ as.path = obj[o].path
  BY DEF AllInv, AskedInv, Carries
<1>2. as # None
  BY <1>1, RequestParts
<1>3. Carries(obj[o], t, as) /\ ~(as.path = "automatic" /\ Faulted(t.rec))
  BY <1>1, Answered DEF AllInv
<1>4. Filled(t.rec)
  BY ResolvedViable DEF AllInv
<1>5. Shown(as, t.rec) = out
  BY <1>3, <1>4 DEF Shown
<1>6. Shown(as, t.rec) \in Possible(as)
  <2>1. /\ Proper(as.want) /\ Sanctioned(as.want) /\ Standing(as.want, as.path, t.dsc, t.rec)
    BY <1>1, <1>3 DEF Carries
  <2>2. as = [want |-> as.want, path |-> as.path]
        /\ as.path \in {"software", "hardware", "automatic"}
    BY <1>1, RequestParts, ApplicationAssumption
  <2>3. Sized(as.want)
    BY <2>1, SanctionedSized
  <2> DEFINE want == as.want
             path == as.path
  <2>4. out \in Possible([want |-> want, path |-> path])
    BY <1>3, <1>4, <2>1, <2>2, <2>3, StandingPossible
  <2> QED  BY <1>5, <2>2, <2>4
<1>7. Shown(as, Task(o).rec) \in {Pending, Shown(as, t.rec)}
  <2>1. CASE obj[o].path = "automatic" /\ Faulted(Task(o).rec)
    BY <1>1, <2>1 DEF Shown
  <2>2. CASE ~(obj[o].path = "automatic" /\ Faulted(Task(o).rec))
    BY <2>2 DEF Resolved
  <2> QED  BY <2>1, <2>2
<1> QED  BY <1>1, <1>2, <1>5, <1>6, <1>7

\* The caller is told of an operation that is over.
LEMMA Tells ==
    ASSUME AllInv, NEW o \in Objects, obj[o].status = "ok", Finished(o), NEW t \in Resolved(o),
           OthersKept(o), Task(o)' = t, asked' = asked, NEW an, told' = [told EXCEPT ![o] = an],
           Quotes(an, asked[o].want.op, t.rec)
    PROVE  Maps' /\ Promise!Next
<1> DEFINE as == asked[o]
           op == as.want.op
           out == Visible(op, Read(op, t.rec))
           before == [p \in Objects |-> OutcomeNow(p)]
           after == [p \in Objects |-> OutcomeNow(p)']
<1>1. /\ as \in Requests /\ as # None /\ Shown(as, t.rec) = out /\ out \in Possible(as)
      /\ Shown(as, Task(o).rec) \in {Pending, out}
  BY Resolves
<1>2. asked' = [asked EXCEPT ![o] = as]
  BY DEF AllInv, Maps
<1>3. Promise!Only(o) /\ told'[o] = an /\ Maps'
  <2> HIDE DEF as
  <2> QED  BY <1>2, AboutOne
<1>4. before[o] \in {Pending, out} /\ after[o] = out
  BY <1>1, NowShown, NextShown
<1>5. DOMAIN out = Parts(op)
  BY DEF Visible
<1>6. DOMAIN an \subseteq Parts(op) /\ an = [n \in DOMAIN an |-> out[n]]
  BY DEF Quotes
<1> HIDE DEF out, before, after
<1>7. an # None /\ out # Pending
  <2>1. /\ out # Pending
        /\ \A parts \in SUBSET DOMAIN out : [n \in parts |-> out[n]] # None
    BY <1>1, MarkAssumption
  <2> QED  BY <1>5, <1>6, <2>1
<1>8. Promise!Truth(an, out)
  BY <1>6 DEF Promise!Truth
<1>9. Promise!Tell(o)
  BY <1>1, <1>3, <1>4, <1>7, <1>8 DEF Promise!Tell, before, after
<1> QED  BY <1>3, <1>9 DEF Promise!Next

\* What a job tells of is true.
LEMMA JobTellsTrue ==
    ASSUME AllInv, NEW j \in Jobs, obj[j].status = "ok", NEW rec
    PROVE  Quotes(JobAnswer(asked[j].want.op, write_result(job[j], rec), rec), asked[j].want.op, rec)
<1>1. j \in Objects
  BY DEF Objects
<1>2. asked[j].want.op \in Operations
  BY <1>1 DEF AllInv, AskedInv, Carries, Proper
<1>3. DOMAIN job[j] = DOMAIN BlankJob /\ job[j].operation = operation[asked[j].want.op]
  BY DEF AllInv, TypedInv, Fits, Typed
<1> QED  BY <1>2, <1>3, JobTells

\* handler::is_finished
LEMMA LookPromise ==
    ASSUME AllInv, AskedInv', NEW h \in Handlers, IsFinished(h)
    PROVE  Maps' /\ (Promise!Next \/ UNCHANGED Promise!vars)
<1>1. /\ h \in Objects /\ obj[h].status = "ok" /\ Finished(h)
      /\ UNCHANGED <<obj, job, asked, told>>
  BY DEF Objects, IsFinished
<1>2. PICK t \in Resolved(h) : Resolve(h, t)
  BY DEF IsFinished
<1>3. OthersKept(h) /\ Task(h)' = t
  BY <1>1, <1>2, Resolving DEF AllInv
<1>4. Shown(asked[h], Task(h).rec) \in {Pending, Shown(asked[h], t.rec)}
  BY <1>1, Resolves
<1> QED  BY <1>1, <1>3, <1>4, Completes

\* The accelerator completes an operation.
LEMMA DevicePromise ==
    ASSUME AllInv, AskedInv', Device
    PROVE  Maps' /\ (Promise!Next \/ UNCHANGED Promise!vars)
<1>1. PICK dsc \in flight : Finish(dsc)
  BY DEF Device
<1>2. PICK o \in Objects : obj[o].status = "ok" /\ Task(o).rec = Blank /\ OthersKept(o)
  BY <1>1, FinishAsked DEF AllInv
<1>3. UNCHANGED <<asked, told>>
  BY <1>1 DEF Finish
<1>4. Shown(asked[o], Task(o).rec) = Pending
  BY <1>2, BlankNotFilled DEF Shown
<1> QED  BY <1>2, <1>3, <1>4, Completes

\* dml_check_job
LEMMA CheckPromise ==
    ASSUME AllInv, NEW j \in Jobs, CheckJob(j)
    PROVE  Maps' /\ Promise!Next
<1>1. j \in Objects /\ obj[j].status = "ok" /\ Finished(j) /\ obj' = obj /\ asked' = asked
  BY DEF Objects, CheckJob
<1>2. OperationOf(Task(j).dsc) = asked[j].want.op
  BY <1>1, ValidParts DEF AllInv
<1> DEFINE new(t) == write_result(job[j], t.rec)
           an(t) == JobAnswer(asked[j].want.op, new(t), t.rec)
<1>3. PICK t \in Resolved(j) :
        /\ Resolve(j, t) /\ job' = [job EXCEPT ![j] = new(t)]
        /\ told' = [told EXCEPT ![j] = JobAnswer(OperationOf(Task(j).dsc), job'[j], t.rec)]
  BY DEF CheckJob
<1>4. job'[j] = new(t)
  <2> HIDE DEF new
  <2> QED  BY <1>3 DEF AllInv, AskedInv
<1>5. told' = [told EXCEPT ![j] = an(t)]
  <2> HIDE DEF new
  <2> QED  BY <1>2, <1>3, <1>4
<1>6. OthersKept(j) /\ Task(j)' = t
  BY <1>1, <1>3, Resolving DEF AllInv
<1>7. Quotes(an(t), asked[j].want.op, t.rec)
  BY <1>1, JobTellsTrue
<1> HIDE DEF an, new
<1> QED  BY <1>1, <1>3, <1>5, <1>6, <1>7, Tells

\* The end of a wait.
LEMMA ReturnPromise ==
    ASSUME AllInv, Return
    PROVE  Maps' /\ Promise!Next
<1>0. waiting \in Objects /\ obj[waiting].status = "ok" /\ Finished(waiting)
  BY SMTT(30) DEF Return, AllInv, ApiInv, Waits
<1>1. PICK o \in Objects : o = waiting
  BY <1>0
<1> DEFINE op == asked[o].want.op
           new(t) == write_result(job[o], t.rec)
<1>2. obj[o].status = "ok" /\ Finished(o) /\ obj' = obj /\ asked' = asked
  BY <1>0, <1>1 DEF Return
<1>3. OperationOf(Task(o).dsc) = op /\ op \in Operations
  BY <1>2, ValidParts DEF AllInv
<1>4. PICK t \in Resolved(o) :
        /\ Resolve(o, t)
        /\ o \in Jobs => job' = [job EXCEPT ![o] = new(t)]
                         /\ told' = [told EXCEPT ![o] = JobAnswer(op, new(t), t.rec)]
        /\ o \notin Jobs => job' = job /\ told' = [told EXCEPT ![o] = make_result(op, t.rec)]
  <2>1. PICK t \in Resolved(o) :
            LET fields == IF o \in Jobs THEN new(t) ELSE BlankJob
            IN  /\ Resolve(o, t)
                /\ job' = IF o \in Jobs THEN [job EXCEPT ![o] = fields] ELSE job
                /\ told' = [told EXCEPT ![o] =
                        IF o \in Jobs THEN JobAnswer(OperationOf(Task(o).dsc), fields, t.rec)
                        ELSE make_result(OperationOf(Task(o).dsc), t.rec)]
    BY <1>1 DEF Return
  <2> HIDE DEF op, new
  <2> QED  BY <1>3, <2>1
<1> HIDE DEF op
<1>5. OthersKept(o) /\ Task(o)' = t
  BY <1>2, <1>4, Resolving DEF AllInv
<1>6. CASE o \in Jobs
  <2> DEFINE an == JobAnswer(op, new(t), t.rec)
  <2>1. told' = [told EXCEPT ![o] = an]
    BY <1>4, <1>6
  <2>2. Quotes(an, asked[o].want.op, t.rec)
    BY <1>2, <1>6, JobTellsTrue DEF op
  <2> HIDE DEF an, new
  <2> QED  BY <1>2, <1>4, <1>5, <2>1, <2>2, Tells
<1>7. CASE o \notin Jobs
  <2> DEFINE an == make_result(op, t.rec)
  <2>1. told' = [told EXCEPT ![o] = an]
    BY <1>4, <1>7
  <2>2. Quotes(an, asked[o].want.op, t.rec)
    BY <1>3, CallTells DEF op
  <2> HIDE DEF an
  <2> QED  BY <1>2, <1>4, <1>5, <2>1, <2>2, Tells
<1> QED  BY <1>6, <1>7

-----------------------------------------------------------------------------
(* Objects that are made, moved and given up. *)

\* The domains of the state.
LEMMA Domains ==
    ASSUME AllInv
    PROVE  /\ DOMAIN obj = Objects /\ DOMAIN asked = Objects /\ DOMAIN told = Objects
           /\ DOMAIN task = Places
           /\ \A o \in Objects : DOMAIN obj[o] = {"status", "path", "place"}
<1>1. DOMAIN asked = Objects /\ DOMAIN told = Objects
  <2>1. Maps
    BY DEF AllInv
  <2> QED  BY <2>1 DEF Maps
<1> QED  BY <1>1 DEF AllInv, ApiInv, Shapes

\* dml_init_job, dml_finalize_job, and the constructor and destructor of a handler.
LEMMA CreationPromise ==
    ASSUME AllInv, AskedInv',
           \/ \E j \in Jobs : FinalizeJob(j) \/ \E path \in app.paths : InitJob(j, path)
           \/ \E h \in Handlers : Default(h) \/ Destroy(h)
    PROVE  Maps' /\ (Promise!Next \/ UNCHANGED Promise!vars)
<1> USE DEF Objects
<1>1. DOMAIN obj = Objects /\ DOMAIN asked = Objects /\ DOMAIN task = Places
  BY Domains
<1>2. ASSUME NEW j \in Jobs, FinalizeJob(j) PROVE Maps' /\ Promise!Next
  <2>1. obj' = [obj EXCEPT ![j] = Dead] /\ asked' = [asked EXCEPT ![j] = None]
        /\ told' = [told EXCEPT ![j] = None] /\ task' = task
    BY <1>2 DEF FinalizeJob
  <2>2. Retakes(j)
    BY <1>1, <2>1 DEF Retakes, OthersKept, Task
  <2> QED  BY <2>1, <2>2, Starts
<1>3. ASSUME NEW j \in Jobs, NEW path \in app.paths, InitJob(j, path) PROVE Maps' /\ Promise!Next
  <2> DEFINE new == [status |-> "idle", path |-> path, place |-> j]
  <2>1. /\ obj' = [obj EXCEPT ![j] = new] /\ asked' = [asked EXCEPT ![j] = None]
        /\ told' = [told EXCEPT ![j] = None] /\ task' = [task EXCEPT ![j] = BlankTask]
    BY <1>3 DEF InitJob
  <2> HIDE DEF new
  <2>2. \A q \in Objects \ {j} : obj[q].place # j
    BY PlaceAssumption DEF AllInv, ApiInv, InPlace
  <2>3. Retakes(j)
    <3>1. OthersKept(j)
      BY <1>1, <2>1, <2>2 DEF OthersKept, Task
    <3> QED  BY <2>1, <3>1 DEF Retakes
  <2> QED  BY <2>1, <2>3, Starts
<1>4. ASSUME NEW h \in Handlers, Destroy(h) PROVE Maps' /\ Promise!Next
  <2>1. obj' = [obj EXCEPT ![h] = Dead] /\ asked' = [asked EXCEPT ![h] = None]
        /\ told' = [told EXCEPT ![h] = None] /\ task' = task
    BY <1>4 DEF Destroy
  <2>2. Retakes(h)
    BY <1>1, <2>1 DEF Retakes, OthersKept, Task
  <2> QED  BY <2>1, <2>2, Starts
<1>5. ASSUME NEW h \in Handlers, Default(h) PROVE Maps' /\ UNCHANGED Promise!vars
  <2> DEFINE p == Fresh
  <2>1. /\ obj' = [obj EXCEPT ![h] = DefaultHandler(p)] /\ obj[h].status = "dead"
        /\ asked' = asked /\ told' = told /\ task' = [task EXCEPT ![p] = BlankTask]
    BY <1>5 DEF Default
  <2>2. \A q \in Objects : obj[q].place # p
    BY FreshBuffer DEF AllInv
  <2> HIDE DEF p
  <2>3. OthersKept(h)
    BY <1>1, <2>1, <2>2 DEF OthersKept, Task
  <2>4. asked[h] = None
    BY <2>1 DEF AllInv, AskedInv, Carries
  <2>5. \A q \in Objects : OutcomeNow(q)' = OutcomeNow(q)
    <3>1. OutcomeNow(h)' = OutcomeNow(h)
      BY <2>1, <2>4, NowShown, NextShown
    <3> QED  BY <2>1, <2>3, <3>1, OthersShown DEF AllInv
  <2>6. Maps'
    BY <2>1 DEF AllInv, Maps
  <2> QED  BY <2>1, <2>5, <2>6, Stutters
<1> QED  BY <1>2, <1>3, <1>4, <1>5

\* A handler that is moved takes along what it stands for, how that ended and what it told.
LEMMA MovePromise ==
    ASSUME AllInv, NEW g \in Handlers, NEW h \in Handlers,
           MoveConstruct(g, h) \/ MoveAssign(g, h)
    PROVE  Maps' /\ Promise!Next
<1>1. /\ g \in Objects /\ h \in Objects /\ g # h /\ g \notin Jobs /\ h \notin Jobs
      /\ Jobs \subseteq Objects
  BY PlaceAssumption DEF Objects, MoveConstruct, MoveAssign
<1>2. /\ DOMAIN obj = Objects /\ DOMAIN asked = Objects /\ DOMAIN told = Objects
      /\ DOMAIN obj[h] = {"status", "path", "place"}
  BY <1>1, Domains
<1>3. /\ task' = task /\ job' = job
      /\ asked' = [asked EXCEPT ![g] = asked[h], ![h] = asked[g]]
      /\ told' = [told EXCEPT ![g] = told[h], ![h] = told[g]]
  BY DEF MoveConstruct, MoveAssign, Swap
<1>4. /\ asked'[g] = asked[h] /\ asked'[h] = asked[g]
      /\ \A q \in Objects \ {g, h} : asked'[q] = asked[q]
  BY <1>1, <1>2, <1>3
<1>5. Maps'
  BY <1>2, <1>3 DEF Maps
<1>6. /\ obj'[g] = obj[h]
      /\ obj'[h] = obj[g] \/ (obj[g].status = "dead" /\ obj'[h].status = "error")
      /\ \A q \in Objects \ {g, h} : obj'[q] = obj[q]
  <2>1. CASE MoveConstruct(g, h)
    <3>1. obj' = [obj EXCEPT ![g] = obj[h], ![h] = MovedFrom(h)] /\ obj[g].status = "dead"
      BY <2>1 DEF MoveConstruct
    <3>2. MovedFrom(h).status = "error"
      BY <1>2 DEF MovedFrom
    <3> QED  BY <1>1, <1>2, <3>1, <3>2
  <2>2. CASE MoveAssign(g, h)
    <3>1. obj' = [obj EXCEPT ![g] = obj[h], ![h] = obj[g]]
      BY <2>2 DEF MoveAssign, Swap
    <3> QED  BY <1>1, <1>2, <3>1
  <2> QED  BY <2>1, <2>2
<1>7. Task(g)' = Task(h) /\ \A q \in Objects \ {g, h} : Task(q)' = Task(q)
  BY <1>3, <1>6 DEF Task
<1>8. obj'[h] = obj[g] => Task(h)' = Task(g)
  BY <1>3 DEF Task
<1>9. obj[g].status = "dead" => asked[g] = None
  BY <1>1 DEF AllInv, AskedInv, Carries
<1>10. /\ OutcomeNow(g)' = OutcomeNow(h) /\ OutcomeNow(h)' = OutcomeNow(g)
       /\ \A q \in Objects \ {g, h} : OutcomeNow(q)' = OutcomeNow(q)
  <2>1. OutcomeNow(g)' = OutcomeNow(h)
    BY <1>1, <1>4, <1>7, NowShown, NextShown
  <2>2. OutcomeNow(h)' = OutcomeNow(g)
    <3>1. OutcomeNow(g) = IF asked[g] = None THEN None ELSE Shown(asked[g], Task(g).rec)
      BY <1>1, NowShown
    <3>2. OutcomeNow(h)' = IF asked[g] = None THEN None ELSE Shown(asked[g], Task(h)'.rec)
      BY <1>1, <1>4, NextShown
    <3> QED  BY <1>6, <1>8, <1>9, <3>1, <3>2
  <2>3. ASSUME NEW q \in Objects \ {g, h} PROVE OutcomeNow(q)' = OutcomeNow(q)
    BY <1>4, <1>7, NowShown, NextShown
  <2> QED  BY <2>1, <2>2, <2>3
<1>11. Promise!Exchange(g, h)
  <2> DEFINE x == [p \in Objects |-> OutcomeNow(p)]
             y == [p \in Objects |-> OutcomeNow(p)']
  <2>1. y = [x EXCEPT ![g] = x[h], ![h] = x[g]]
    BY <1>1, <1>10
  <2> QED  BY <1>3, <2>1 DEF Promise!Exchange
<1> QED  BY <1>1, <1>5, <1>11 DEF Promise!Next

\* A submission: the object stands for what it accepts.
LEMMA SubmissionPromise ==
    ASSUME AllInv, AskedInv',
           \/ /\ app.api = "job"
              /\ \E j \in Jobs : ResubmitJob(j) \/ \E mode \in {"submit", "execute"} : SubmitJob(j, mode)
           \/ /\ app.api = "hl"
              /\ \E path \in app.paths : Execute(path) \/ \E h \in Handlers : SubmitCall(h, path)
    PROVE  Maps' /\ Promise!Next
<1> USE DEF Objects
<1>1. ASSUME NEW j \in Jobs, ResubmitJob(j) PROVE Maps' /\ Promise!Next
  <2>1. Retakes(j) /\ told' = [told EXCEPT ![j] = None]
    BY <1>1, ResubmitStep DEF AllInv, ResubmitJob
  <2> QED  BY <2>1, Starts
<1>2. ASSUME app.api = "job", NEW j \in Jobs, NEW mode \in {"submit", "execute"}, SubmitJob(j, mode)
      PROVE  Maps' /\ Promise!Next
  <2>1. Retakes(j) /\ told' = [told EXCEPT ![j] = None]
    BY <1>2, SubmitJobStep DEF AllInv, SubmitJob
  <2> QED  BY <2>1, Starts
<1>3. ASSUME app.api = "hl", NEW path \in app.paths, Execute(path) PROVE Maps' /\ Promise!Next
  <2>1. Retakes(Call) /\ told' = [told EXCEPT ![Call] = None]
    BY <1>3, ExecuteStep DEF AllInv, Execute
  <2> QED  BY <2>1, Starts
<1>4. ASSUME app.api = "hl", NEW path \in app.paths, NEW h \in Handlers, SubmitCall(h, path)
      PROVE  Maps' /\ Promise!Next
  <2>1. Retakes(h) /\ told' = [told EXCEPT ![h] = None]
    BY <1>4, SubmitCallStep DEF AllInv, SubmitCall
  <2> QED  BY <2>1, Starts
<1> QED  BY <1>1, <1>2, <1>3, <1>4

-----------------------------------------------------------------------------
(* The promise. *)

\* At first nobody stands for anything.
LEMMA InitPromise == Init => Maps /\ Promise!Init
<1> SUFFICES ASSUME Init PROVE Maps /\ Promise!Init
  OBVIOUS
<1>1. asked = [o \in Objects |-> None] /\ told = [o \in Objects |-> None]
  BY DEF Init
<1>2. \A o \in Objects : OutcomeNow(o) = None
  BY <1>1, NowShown
<1>3. Maps
  BY <1>1 DEF Maps
<1>4. [o \in Objects |-> OutcomeNow(o)] = [o \in Objects |-> None]
  BY <1>2
<1> QED  BY <1>1, <1>3, <1>4 DEF Promise!Init

\* Every step is one that Operation allows, or one that no caller can see.
LEMMA StepPromise ==
    AllInv /\ AskedInv' /\ [Next]_vars => Maps' /\ (Promise!Next \/ UNCHANGED Promise!vars)
<1> SUFFICES ASSUME AllInv, AskedInv', [Next]_vars
             PROVE  Maps' /\ (Promise!Next \/ UNCHANGED Promise!vars)
  OBVIOUS
<1>1. CASE JobApi
  <2>1. PICK j \in Jobs :
            \/ \E path \in app.paths : InitJob(j, path)
            \/ \E mode \in {"submit", "execute"} : SubmitJob(j, mode)
            \/ ResubmitJob(j) \/ WaitJob(j) \/ CheckJob(j) \/ FinalizeJob(j)
    BY <1>1 DEF JobApi
  <2>2. app.api = "job"
    BY <1>1 DEF JobApi
  <2>3. CASE FinalizeJob(j) \/ \E path \in app.paths : InitJob(j, path)
    BY <2>3, CreationPromise
  <2>4. CASE \E mode \in {"submit", "execute"} : SubmitJob(j, mode)
    BY <2>2, <2>4, SubmissionPromise
  <2>5. CASE ResubmitJob(j)
    BY <2>2, <2>5, SubmissionPromise
  <2>6. CASE WaitJob(j)
    <3>1. UNCHANGED <<obj, task, asked, told>>
      BY <2>6 DEF WaitJob
    <3> QED  BY <3>1, RestPromise
  <2>7. CASE CheckJob(j)
    BY <2>7, CheckPromise
  <2> QED  BY <2>1, <2>3, <2>4, <2>5, <2>6, <2>7
<1>2. CASE HighLevelApi
  <2>1. app.api = "hl"
    BY <1>2 DEF HighLevelApi
  <2>2. CASE \E path \in app.paths : Execute(path)
    BY <2>1, <2>2, SubmissionPromise
  <2>3. CASE \E h \in Handlers :
            \/ \E path \in app.paths : SubmitCall(h, path)
            \/ Default(h) \/ Destroy(h) \/ GetResult(h) \/ IsFinished(h)
            \/ \E g \in Handlers : MoveConstruct(g, h) \/ MoveAssign(g, h)
    <3>1. PICK h \in Handlers :
            \/ \E path \in app.paths : SubmitCall(h, path)
            \/ Default(h) \/ Destroy(h) \/ GetResult(h) \/ IsFinished(h)
            \/ \E g \in Handlers : MoveConstruct(g, h) \/ MoveAssign(g, h)
      BY <2>3
    <3>2. CASE \E path \in app.paths : SubmitCall(h, path)
      BY <2>1, <3>2, SubmissionPromise
    <3>3. CASE Default(h) \/ Destroy(h)
      BY <3>3, CreationPromise
    <3>4. CASE GetResult(h)
      <4>1. UNCHANGED <<obj, task, asked, told>>
        BY <3>4 DEF GetResult
      <4> QED  BY <4>1, RestPromise
    <3>5. CASE IsFinished(h)
      BY <3>5, LookPromise
    <3>6. CASE \E g \in Handlers : MoveConstruct(g, h) \/ MoveAssign(g, h)
      BY <3>6, MovePromise
    <3> QED  BY <3>1, <3>2, <3>3, <3>4, <3>5, <3>6
  <2> QED  BY <1>2, <2>2, <2>3 DEF HighLevelApi
<1>3. CASE Return
  BY <1>3, ReturnPromise
<1>4. CASE Device
  BY <1>4, DevicePromise
<1>5. CASE UNCHANGED vars
  <2>1. UNCHANGED <<obj, task, asked, told>>
    BY <1>5 DEF vars
  <2> QED  BY <2>1, RestPromise
<1> QED  BY <1>1, <1>2, <1>3, <1>4, <1>5 DEF Next

\* Both APIs implement the promise of Operation: an operation that is accepted has one outcome,
\* one that it can have on its path, in one piece or in two that accumulate_records merged;
\* and what a caller is told is part of that outcome,
\* however often and by whichever function it asks, wherever the handler was moved meanwhile,
\* and also when a page fault was resolved in between; a call that is refused stands for
\* nothing.
THEOREM ApiImplementsOperation == Spec => OperationSpec
<1>1. Init => AllInv /\ Promise!Init
  BY InitApi, InitAsked, InitTyped, InitPromise DEF AllInv
<1>2. AllInv /\ [Next]_vars => AllInv' /\ [Promise!Next]_(Promise!vars)
  <2> SUFFICES ASSUME AllInv, [Next]_vars PROVE AllInv' /\ [Promise!Next]_(Promise!vars)
    OBVIOUS
  <2>1. ApiInv' /\ AskedInv' /\ TypedInv'
    BY StepApi, StepAsked, StepTyped DEF AllInv
  <2>2. Maps' /\ (Promise!Next \/ UNCHANGED Promise!vars)
    BY <2>1, StepPromise
  <2> QED  BY <2>1, <2>2 DEF AllInv
<1> QED  BY <1>1, <1>2, PTL DEF Spec, OperationSpec, Promise!Spec

-----------------------------------------------------------------------------
(* What a caller may rely on, from the promise of Operation alone. *)

\* Whatever dml_check_job, dml_wait_job or handler::get has told of an operation
\* is true of the outcome it has, at any later time and after any move.
AnswersTrue == \A o \in Objects :
    told[o] # None => OutcomeNow(o) # Pending /\ Promise!Truth(told[o], OutcomeNow(o))

\* Objects stand for requests, if for anything.
Known == Maps /\ \A o \in Objects : asked[o] # None => asked[o] \in Requests

\* A step of Operation that affects one object leaves what the others were asked,
\* how they ended and what they told.
LEMMA OnlyOne ==
    ASSUME Maps, NEW o \in Objects, Promise!Only(o)
    PROVE  /\ Maps'
           /\ \A p \in Objects \ {o} :
                 asked'[p] = asked[p] /\ OutcomeNow(p)' = OutcomeNow(p) /\ told'[p] = told[p]
<1> DEFINE x == [p \in Objects |-> OutcomeNow(p)]
           y == [p \in Objects |-> OutcomeNow(p)']
<1>1. /\ asked' = [asked EXCEPT ![o] = asked'[o]]
      /\ told' = [told EXCEPT ![o] = told'[o]]
      /\ y = [x EXCEPT ![o] = y[o]]
  BY DEF Promise!Only
<1>2. Maps'
  BY <1>1 DEF Maps
<1>3. ASSUME NEW p \in Objects \ {o}
      PROVE  asked'[p] = asked[p] /\ OutcomeNow(p)' = OutcomeNow(p) /\ told'[p] = told[p]
  <2>1. x[p] = OutcomeNow(p) /\ y[p] = OutcomeNow(p)' /\ p \in DOMAIN x
    OBVIOUS
  <2> HIDE DEF x, y
  <2>2. y[p] = x[p] /\ asked'[p] = asked[p] /\ told'[p] = told[p]
    BY <1>1, <2>1 DEF Maps
  <2> QED  BY <2>1, <2>2
<1> QED  BY <1>2, <1>3

\* A step about one object that leaves it standing for a request, or nothing, and its answer
\* true.
LEMMA StaysTrue ==
    ASSUME Known, AnswersTrue, NEW o \in Objects, Promise!Only(o),
           asked'[o] # None => asked'[o] \in Requests,
           told'[o] # None => OutcomeNow(o)' # Pending /\ Promise!Truth(told'[o], OutcomeNow(o)')
    PROVE  Known' /\ AnswersTrue'
<1>1. /\ Maps'
      /\ \A p \in Objects \ {o} :
            asked'[p] = asked[p] /\ OutcomeNow(p)' = OutcomeNow(p) /\ told'[p] = told[p]
  BY OnlyOne DEF Known
<1>2. Known'
  <2>1. \A p \in Objects : asked'[p] # None => asked'[p] \in Requests
    BY <1>1 DEF Known
  <2> QED  BY <1>1, <2>1 DEF Known
<1>3. AnswersTrue'
  BY <1>1 DEF AnswersTrue
<1> QED  BY <1>2, <1>3

\* The promise is worth having: objects that keep it never tell what is not so.
THEOREM NoFalseAnswer == OperationSpec => []AnswersTrue
<1> DEFINE x == [p \in Objects |-> OutcomeNow(p)]
           y == [p \in Objects |-> OutcomeNow(p)']
<1>1. \A p \in Objects : x[p] = OutcomeNow(p) /\ y[p] = OutcomeNow(p)'
  OBVIOUS
<1>2. Promise!Init => Known /\ AnswersTrue
  BY DEF Promise!Init, Known, Maps, AnswersTrue
<1>3. Known /\ AnswersTrue /\ [Promise!Next]_(Promise!vars) => Known' /\ AnswersTrue'
  <2> SUFFICES ASSUME Known, AnswersTrue, [Promise!Next]_(Promise!vars)
               PROVE  Known' /\ AnswersTrue'
    OBVIOUS
  <2>1. ASSUME NEW o \in Objects, Promise!Start(o) \/ Promise!Forget(o)
        PROVE  Known' /\ AnswersTrue'
    <3>1. Promise!Only(o) /\ told'[o] = None /\ (asked'[o] # None => asked'[o] \in Requests)
      BY <2>1 DEF Promise!Start, Promise!Forget
    <3> QED  BY <3>1, StaysTrue
  <2>2. ASSUME NEW o \in Objects, Promise!Finish(o)
        PROVE  Known' /\ AnswersTrue'
    <3>1. Promise!Only(o) /\ told' = told /\ asked' = asked /\ x[o] = Pending
      BY <2>2 DEF Promise!Finish
    <3>2. told[o] = None /\ (asked[o] # None => asked[o] \in Requests)
      BY <1>1, <3>1 DEF AnswersTrue, Known
    <3> QED  BY <3>1, <3>2, StaysTrue
  <2>3. ASSUME NEW o \in Objects, Promise!Tell(o)
        PROVE  Known' /\ AnswersTrue'
    <3>1. /\ Promise!Only(o) /\ Promise!Truth(told'[o], y[o]) /\ asked' = asked /\ asked[o] # None
          /\ y[o] \in IF x[o] = Pending THEN Possible(asked[o]) ELSE {x[o]}
      BY <2>3 DEF Promise!Tell
    <3>2. asked[o] \in Requests
      BY <3>1 DEF Known
    <3> HIDE DEF x, y
    <3>3. y[o] # Pending
      BY <3>1, <3>2, MarkAssumption
    <3>4. OutcomeNow(o)' # Pending /\ Promise!Truth(told'[o], OutcomeNow(o)')
      BY <1>1, <3>1, <3>3
    <3> QED  BY <3>1, <3>2, <3>4, StaysTrue
  <2>4. ASSUME NEW o \in Objects, NEW p \in Objects \ {o}, Promise!Exchange(o, p)
        PROVE  Known' /\ AnswersTrue'
    <3>1. /\ asked' = [asked EXCEPT ![o] = asked[p], ![p] = asked[o]]
          /\ told' = [told EXCEPT ![o] = told[p], ![p] = told[o]]
          /\ y = [x EXCEPT ![o] = x[p], ![p] = x[o]]
      BY <2>4 DEF Promise!Exchange
    <3>2. DOMAIN x = Objects /\ DOMAIN asked = Objects /\ DOMAIN told = Objects
      BY DEF Known, Maps
    <3> HIDE DEF x, y
    <3>3. Maps'
      BY <3>1, <3>2 DEF Maps
    <3>4. /\ told'[o] = told[p] /\ y[o] = x[p] /\ asked'[o] = asked[p]
          /\ told'[p] = told[o] /\ y[p] = x[o] /\ asked'[p] = asked[o]
          /\ \A q \in Objects \ {o, p} :
                told'[q] = told[q] /\ y[q] = x[q] /\ asked'[q] = asked[q]
      BY <3>1, <3>2
    <3>5. \A q \in Objects : asked'[q] # None => asked'[q] \in Requests
      BY <3>4 DEF Known
    <3>6. AnswersTrue'
      BY <1>1, <3>4 DEF AnswersTrue
    <3> QED  BY <3>3, <3>5, <3>6 DEF Known
  <2>5. CASE UNCHANGED Promise!vars
    <3>1. asked' = asked /\ told' = told /\ y = x
      BY <2>5 DEF Promise!vars
    <3>2. \A p \in Objects : OutcomeNow(p)' = OutcomeNow(p)
      BY <1>1, <3>1
    <3> QED  BY <3>1, <3>2 DEF Known, Maps, AnswersTrue
  <2> QED  BY <2>1, <2>2, <2>3, <2>4, <2>5 DEF Promise!Next
<1> QED  BY <1>2, <1>3, PTL DEF OperationSpec, Promise!Spec

\* So neither API does: no job, handler or blocking call ever tells of an operation what is
\* not so.
THEOREM AnswersAlwaysTrue == Spec => []AnswersTrue
  BY ApiImplementsOperation, NoFalseAnswer, PTL
=============================================================================
