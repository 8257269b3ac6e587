--------------------------- MODULE OwnershipProofs ---------------------------
(***************************************************************************)
(* The two APIs, for every number of jobs, handlers and heap buffers and   *)
(* every application: who owns a task and its record.  A descriptor names  *)
(* the record of the one object that owns it, from rebind through moves to *)
(* the end of the wait.                                                    *)
(***************************************************************************)
EXTENDS Api, TLAPS, FiniteSetTheorems, WellFoundedInduction

-----------------------------------------------------------------------------
(* Reading and writing fields of memory. *)

\* A field, and two that share no byte.
IsField(f) == f[1] \in Nat /\ f[2] \in Nat /\ f[2] > 0
Apart(f, g) == f[1] + f[2] <= g[1] \/ g[1] + g[2] <= f[1]

\* What lies on a field was written through it.
Clean(mem, f) == \A c \in mem :
    c[1] \in Int /\ c[2] \in Int /\ (Touches(c, f) => c[1] = f[1] /\ c[2] = f[2])

\* Two memories that agree on what touches a field are read alike.
LEMMA ReadAlike ==
    ASSUME NEW m1, NEW m2, NEW f, {c \in m1 : Touches(c, f)} = {c \in m2 : Touches(c, f)}
    PROVE  Get(m1, f) = Get(m2, f)
  BY Zenon DEF Get

\* The only value on a field is read,
LEMMA ReadOne ==
    ASSUME NEW mem, NEW f, NEW v, {c \in mem : Touches(c, f)} = {<<f[1], f[2], v>>}
    PROVE  Get(mem, f) = v
<1> DEFINE cell == <<f[1], f[2], v>>
           hit == {c \in mem : Touches(c, f)}
<1>1. hit = {cell} /\ cell[3] = v
  OBVIOUS
<1> HIDE DEF hit, cell
<1>2. (CHOOSE c \in hit : TRUE) = cell
  BY <1>1
<1>3. v \in {c[3] : c \in hit}
  BY <1>1
<1>4. \E u \in {c[3] : c \in hit} : hit = {<<f[1], f[2], u>>}
  BY <1>1, <1>3 DEF cell
<1>5. hit # {}
  BY <1>1
<1>6. Get(mem, f) = (CHOOSE c \in hit : TRUE)[3]
  BY <1>4, <1>5 DEF Get, hit
<1> QED  BY <1>1, <1>2, <1>6

\* and a field with nothing on it is zero.
LEMMA ReadNone ==
    ASSUME NEW mem, NEW f, {c \in mem : Touches(c, f)} = {}
    PROVE  Get(mem, f) = 0
  BY Zenon DEF Get

\* A write of a field that is clean is read back, and leaves it clean.
LEMMA PutSame ==
    ASSUME NEW mem, NEW f, IsField(f), Clean(mem, f), NEW v
    PROVE  Get(Put(mem, f, v), f) = v /\ Clean(Put(mem, f, v), f)
<1> DEFINE new == Put(mem, f, v)
           cell == <<f[1], f[2], v>>
<1>1. \A c \in new : (c = cell /\ v # 0) \/ (c \in mem /\ ~Touches(c, f))
  <2> SUFFICES ASSUME NEW c \in new, ~(c = cell /\ v # 0)
               PROVE  c \in mem /\ ~Touches(c, f)
    OBVIOUS
  <2>1. PICK d \in mem : /\ ~Covers(f, d)
                         /\ c = IF Touches(d, f) THEN <<d[1], d[2], Torn>> ELSE d
    BY DEF Put
  <2>2. ~Touches(d, f)
    BY <2>1 DEF Clean, Covers, IsField
  <2> QED  BY <2>1, <2>2
<1>2. v # 0 => cell \in new
  BY DEF Put
<1>3. Touches(cell, f) /\ cell[1] = f[1] /\ cell[2] = f[2] /\ f[1] \in Int /\ f[2] \in Int
  BY DEF Touches, IsField
<1> HIDE DEF new, cell
<1>4. Clean(new, f)
  BY <1>1, <1>3 DEF Clean
<1>5. CASE v = 0
  <2>1. {c \in new : Touches(c, f)} = {}
    BY <1>1, <1>5
  <2> QED  BY <1>4, <1>5, <2>1, ReadNone DEF new
<1>6. CASE v # 0
  <2>1. {c \in new : Touches(c, f)} = {cell}
    BY <1>1, <1>2, <1>3, <1>6
  <2> QED  BY <1>4, <2>1, ReadOne DEF new, cell
<1> QED  BY <1>5, <1>6

\* A write of a field leaves those apart from it as they were.
LEMMA PutOther ==
    ASSUME NEW mem, NEW f, IsField(f), Clean(mem, f), NEW g, IsField(g), Apart(f, g), NEW v
    PROVE  Get(Put(mem, g, v), f) = Get(mem, f) /\ Clean(Put(mem, g, v), f)
<1> DEFINE new == Put(mem, g, v)
           cell == <<g[1], g[2], v>>
<1>1. \A d \in mem : Touches(d, f) => ~Touches(d, g) /\ ~Covers(g, d)
  BY DEF Clean, Touches, Covers, Apart, IsField
<1>2. cell[1] = g[1] /\ cell[2] = g[2] /\ ~Touches(cell, f)
  BY DEF Touches, Apart, IsField
<1>3. ASSUME NEW c \in new
      PROVE  c = cell \/ \E d \in mem : c[1] = d[1] /\ c[2] = d[2] /\ (Touches(d, f) => c = d)
  <2> SUFFICES ASSUME c # cell
               PROVE  \E d \in mem : c[1] = d[1] /\ c[2] = d[2] /\ (Touches(d, f) => c = d)
    OBVIOUS
  <2>1. PICK d \in mem : c = IF Touches(d, g) THEN <<d[1], d[2], Torn>> ELSE d
    BY DEF Put
  <2> QED  BY <1>1, <2>1
<1>4. \A d \in mem : Touches(d, f) => d \in new
  BY <1>1 DEF Put
<1> HIDE DEF new, cell
<1>5. ASSUME NEW c \in new, Touches(c, f) PROVE c \in mem
  <2>1. PICK d \in mem : c[1] = d[1] /\ c[2] = d[2] /\ (Touches(d, f) => c = d)
    BY <1>2, <1>3, <1>5
  <2> QED  BY <1>5, <2>1 DEF Touches
<1>6. {c \in new : Touches(c, f)} = {c \in mem : Touches(c, f)}
  BY <1>4, <1>5
<1>7. Clean(new, f)
  <2> SUFFICES ASSUME NEW c \in new
               PROVE  /\ c[1] \in Int /\ c[2] \in Int
                      /\ Touches(c, f) => c[1] = f[1] /\ c[2] = f[2]
    BY DEF Clean
  <2>1. CASE c = cell
    BY <1>2, <2>1 DEF IsField
  <2>2. CASE c # cell
    <3>1. PICK d \in mem : c[1] = d[1] /\ c[2] = d[2] /\ (Touches(d, f) => c = d)
      BY <1>3, <2>2
    <3> QED  BY <3>1 DEF Clean, Touches
  <2> QED  BY <2>1, <2>2
<1> QED  BY <1>6, <1>7, ReadAlike DEF new

\* Several fields of a view are written.  One that is apart from all of them is
\* left as it was,
LEMMA PutAllOther ==
    ASSUME NEW mem, NEW f, IsField(f), Clean(mem, f), NEW view, NEW x,
           \A n \in DOMAIN x : IsField(view[n]) /\ Apart(f, view[n])
    PROVE  Get(PutAll(mem, view, x), f) = Get(mem, f) /\ Clean(PutAll(mem, view, x), f)
<1> DEFINE new == PutAll(mem, view, x)
           Hit(d) == \E n \in DOMAIN x : Touches(d, view[n])
           Torns(d) == IF Hit(d) THEN <<d[1], d[2], Torn>> ELSE d
           old == {d \in mem : \A n \in DOMAIN x : ~Covers(view[n], d)}
           cells == {<<view[n][1], view[n][2], x[n]>> : n \in {m \in DOMAIN x : x[m] # 0}}
<1>1. new = {Torns(d) : d \in old} \cup cells
  BY DEF PutAll
<1>2. \A d \in mem : Touches(d, f) => ~Hit(d) /\ d \in old
  BY DEF Clean, Touches, Covers, Apart, IsField
<1>3. \A c \in cells : c[1] \in Int /\ c[2] \in Int /\ ~Touches(c, f)
  BY DEF Touches, Apart, IsField
<1>4. \A d \in mem : Torns(d)[1] = d[1] /\ Torns(d)[2] = d[2] /\ (Touches(d, f) => Torns(d) = d)
  BY <1>2
<1> HIDE DEF new, cells, Torns, Hit
<1>5. \A c \in new : c \in cells \/ \E d \in mem : c = Torns(d)
  BY <1>1
<1>6. \A c \in new : Touches(c, f) => c \in mem
  <2> SUFFICES ASSUME NEW c \in new, Touches(c, f) PROVE c \in mem
    OBVIOUS
  <2>1. PICK d \in mem : c = Torns(d)
    BY <1>3, <1>5
  <2>2. Touches(d, f)
    BY <1>4, <2>1 DEF Touches
  <2> QED  BY <1>4, <2>1, <2>2
<1>7. \A d \in mem : Touches(d, f) => d \in new
  <2> SUFFICES ASSUME NEW d \in mem, Touches(d, f) PROVE d \in new
    OBVIOUS
  <2>1. d \in old /\ Torns(d) = d
    BY <1>2, <1>4
  <2> HIDE DEF old
  <2> QED  BY <1>1, <2>1
<1>8. {c \in new : Touches(c, f)} = {c \in mem : Touches(c, f)}
  BY <1>6, <1>7
<1>9. Clean(new, f)
  <2> SUFFICES ASSUME NEW c \in new
               PROVE  /\ c[1] \in Int /\ c[2] \in Int
                      /\ Touches(c, f) => c[1] = f[1] /\ c[2] = f[2]
    BY DEF Clean
  <2>1. CASE c \in cells
    BY <1>3, <2>1
  <2>2. CASE c \notin cells
    <3>1. PICK d \in mem : c = Torns(d)
      BY <1>5, <2>2
    <3> QED  BY <1>4, <1>6, <3>1 DEF Clean
  <2> QED  BY <2>1, <2>2
<1> QED  BY <1>8, <1>9, ReadAlike DEF new

\* and one of them has its value.
LEMMA PutAllSame ==
    ASSUME NEW mem, NEW view, NEW x, NEW n \in DOMAIN x, IsField(view[n]), Clean(mem, view[n]),
           \A m \in DOMAIN x : IsField(view[m]) /\ (m # n => Apart(view[n], view[m]))
    PROVE  /\ Get(PutAll(mem, view, x), view[n]) = x[n]
           /\ Clean(PutAll(mem, view, x), view[n])
<1> DEFINE new == PutAll(mem, view, x)
           f == view[n]
           v == x[n]
           cell == <<f[1], f[2], v>>
           Torns(d) == IF \E m \in DOMAIN x : Touches(d, view[m]) THEN <<d[1], d[2], Torn>> ELSE d
           old == {d \in mem : \A m \in DOMAIN x : ~Covers(view[m], d)}
           cells == {<<view[m][1], view[m][2], x[m]>> : m \in {k \in DOMAIN x : x[k] # 0}}
<1>1. new = {Torns(d) : d \in old} \cup cells
  BY DEF PutAll
<1>2. \A d \in old : d[1] \in Int /\ d[2] \in Int /\ ~Touches(d, f)
  BY DEF Clean, Touches, Covers, IsField
<1>3. \A d \in old : /\ Torns(d)[1] \in Int /\ Torns(d)[2] \in Int /\ ~Touches(Torns(d), f)
  <2> SUFFICES ASSUME NEW d \in old
               PROVE  Torns(d)[1] \in Int /\ Torns(d)[2] \in Int /\ ~Touches(Torns(d), f)
    OBVIOUS
  <2>1. Torns(d)[1] = d[1] /\ Torns(d)[2] = d[2]
    OBVIOUS
  <2> HIDE DEF Torns, old
  <2> QED  BY <1>2, <2>1 DEF Touches
<1>4. \A c \in cells : (c = cell /\ v # 0) \/ (c[1] \in Int /\ c[2] \in Int /\ ~Touches(c, f))
  <2> SUFFICES ASSUME NEW m \in DOMAIN x, NEW c, c = <<view[m][1], view[m][2], x[m]>>, x[m] # 0
               PROVE  (c = cell /\ v # 0) \/ (c[1] \in Int /\ c[2] \in Int /\ ~Touches(c, f))
    OBVIOUS
  <2>1. CASE m = n
    BY <2>1
  <2>2. CASE m # n
    <3>1. IsField(view[m]) /\ Apart(f, view[m]) /\ IsField(f) /\ c[1] = view[m][1] /\ c[2] = view[m][2]
      BY <2>2
    <3> HIDE DEF f
    <3> QED  BY <3>1 DEF Touches, Apart, IsField
  <2> QED  BY <2>1, <2>2
<1>5. v # 0 => cell \in cells
  OBVIOUS
<1> HIDE DEF cells, old, Torns
<1>6. \A c \in new : (c = cell /\ v # 0) \/ (c[1] \in Int /\ c[2] \in Int /\ ~Touches(c, f))
  BY <1>1, <1>3, <1>4
<1>7. v # 0 => cell \in new
  BY <1>1, <1>5
<1>8. Touches(cell, f) /\ cell[1] = f[1] /\ cell[2] = f[2] /\ f[1] \in Int /\ f[2] \in Int
  BY DEF Touches, IsField
<1> HIDE DEF new, cell, f, v
<1>9. Clean(new, f)
  BY <1>6, <1>8 DEF Clean
<1>10. CASE v = 0
  <2>1. {c \in new : Touches(c, f)} = {}
    BY <1>6, <1>10
  <2> QED  BY <1>9, <1>10, <2>1, ReadNone DEF new, f, v
<1>11. CASE v # 0
  <2>1. {c \in new : Touches(c, f)} = {cell}
    BY <1>6, <1>7, <1>8, <1>11
  <2>2. Get(new, f) = v
    BY <2>1, ReadOne DEF cell
  <2> QED  BY <1>9, <2>2 DEF new, f, v
<1> QED  BY <1>10, <1>11

-----------------------------------------------------------------------------
(* Descriptors: binding one to a record. *)

\* The field for the address of the completion record.
AddressField == any_descriptor.completion_record_address

\* The field for the flags.
FlagsField == any_descriptor.flags

\* The fields of a view: apart from each other and from those that all views share.
Layout(view) == \A n \in DOMAIN view :
    /\ IsField(view[n]) /\ view[n][1] # 7
    /\ view[n][1] + view[n][2] <= 4 \/ (view[n][1] = 6 /\ view[n][2] = 1) \/ view[n][1] >= 16
    /\ \A m \in DOMAIN view : m # n => Apart(view[n], view[m])

\* Every view of a descriptor is laid out so.
LEMMA ViewLayout == \A op \in Operations : Layout(View[op])
<1> USE DEF Layout, IsField, Apart, Source, Destination, Size, Specific, any_descriptor
<1>1. Layout(nop_descriptor) /\ Layout(batch_descriptor) /\ Layout(drain_descriptor)
  BY DEF nop_descriptor, batch_descriptor, drain_descriptor
<1>2. Layout(mem_move_descriptor) /\ Layout(fill_descriptor) /\ Layout(cache_flush_descriptor)
  BY DEF mem_move_descriptor, fill_descriptor, cache_flush_descriptor
<1>3. Layout(compare_descriptor) /\ Layout(compare_pattern_descriptor)
  BY DEF compare_descriptor, compare_pattern_descriptor
<1>4. Layout(create_delta_descriptor) /\ Layout(apply_delta_descriptor)
  BY DEF create_delta_descriptor, apply_delta_descriptor
<1>5. Layout(dualcast_descriptor) /\ Layout(crc_descriptor) /\ Layout(copy_crc_descriptor)
  BY DEF dualcast_descriptor, crc_descriptor, copy_crc_descriptor
<1>6. Layout(dif_check_descriptor) /\ Layout(dif_insert_descriptor)
  BY DEF dif_check_descriptor, dif_insert_descriptor
<1>7. Layout(dif_strip_descriptor)
  BY DEF dif_strip_descriptor
<1>8. Layout(dif_update_descriptor)
  BY DEF dif_update_descriptor
<1> HIDE DEF Layout
<1> QED  BY <1>1, <1>2, <1>3, <1>4, <1>5, <1>6, <1>7, <1>8 DEF Operations, operation, View

\* The fields that all views share.
LEMMA SharedFields ==
    /\ AddressField = <<8, 8>> /\ FlagsField = <<4, 2>> /\ any_descriptor.operation = <<7, 1>>
    /\ IsField(AddressField) /\ IsField(FlagsField) /\ IsField(any_descriptor.operation)
  BY DEF AddressField, FlagsField, any_descriptor, IsField

\* Values lie aside of the fields for the operation and for the address of the
\* record, or exactly on them.
Bindable(dsc) == \A c \in dsc :
    /\ c[1] \in Int /\ c[2] \in Int
    /\ \/ c[1] + c[2] <= 6 \/ c[1] >= 16
       \/ c[2] = 1 /\ c[1] \in {6, 7}
       \/ c[1] = 8 /\ c[2] = 8

\* The fields that the views of descriptors have.
Aside(field) ==
    /\ field[1] \in Nat /\ field[2] \in Nat
    /\ \/ field[1] + field[2] <= 6 \/ field[1] >= 16
       \/ field[2] = 1 /\ field[1] \in {6, 7}

\* What was written through the two fields is all that touches them.
LEMMA BindableClean ==
    ASSUME NEW dsc, Bindable(dsc)
    PROVE  Clean(dsc, AddressField) /\ Clean(dsc, any_descriptor.operation)
  BY SharedFields DEF Bindable, Clean, Touches

\* A descriptor that is written through such fields.
LEMMA WrittenBindable ==
    ASSUME NEW op, NEW writes, \A w \in writes : Aside(w[1])
    PROVE  Bindable(Written(op, writes))
<1>1. Aside(any_descriptor.operation)
  BY DEF Aside, any_descriptor
<1>2. \A w \in writes \cup {<<any_descriptor.operation, operation[op]>>} : Aside(w[1])
  BY <1>1
<1> SUFFICES ASSUME NEW c \in Written(op, writes)
             PROVE  /\ c[1] \in Int /\ c[2] \in Int
                    /\ \/ c[1] + c[2] <= 6 \/ c[1] >= 16
                       \/ c[2] = 1 /\ c[1] \in {6, 7}
                       \/ c[1] = 8 /\ c[2] = 8
  BY DEF Bindable
<1>3. PICK w \in writes \cup {<<any_descriptor.operation, operation[op]>>} :
          c = <<w[1][1], w[1][2], w[2]>>
  BY DEF Written
<1>4. Aside(w[1]) /\ c[1] = w[1][1] /\ c[2] = w[1][2]
  BY <1>2, <1>3
<1> QED  BY <1>4 DEF Aside

\* A write of a field keeps that, if the field itself does not straddle.
LEMMA PutBindable ==
    ASSUME NEW dsc, Bindable(dsc), NEW v, NEW field \in {<<4, 2>>, <<8, 8>>}
    PROVE  Bindable(Put(dsc, field, v))
<1> SUFFICES ASSUME NEW c \in Put(dsc, field, v)
             PROVE  /\ c[1] \in Int /\ c[2] \in Int
                    /\ \/ c[1] + c[2] <= 6 \/ c[1] >= 16
                       \/ c[2] = 1 /\ c[1] \in {6, 7}
                       \/ c[1] = 8 /\ c[2] = 8
  BY DEF Bindable
<1>1. CASE c = <<field[1], field[2], v>>
  BY <1>1
<1>2. CASE \E d \in dsc : c = d \/ c = <<d[1], d[2], Torn>>
  <2>1. PICK d \in dsc : c[1] = d[1] /\ c[2] = d[2]
    BY <1>2
  <2> QED  BY <2>1 DEF Bindable
<1> QED  BY <1>1, <1>2 DEF Put

\* And so do writes through a view.
LEMMA PutAllBindable ==
    ASSUME NEW dsc, Bindable(dsc), NEW view, Layout(view), NEW x, DOMAIN x \subseteq DOMAIN view
    PROVE  /\ Bindable(PutAll(dsc, view, x))
           /\ Get(PutAll(dsc, view, x), AddressField) = Get(dsc, AddressField)
           /\ Get(PutAll(dsc, view, x), any_descriptor.operation)
                = Get(dsc, any_descriptor.operation)
<1> DEFINE new == PutAll(dsc, view, x)
<1>1. \A n \in DOMAIN x :
          /\ IsField(view[n]) /\ Apart(<<7, 1>>, view[n]) /\ Apart(<<8, 8>>, view[n])
          /\ view[n][1] + view[n][2] <= 6 \/ (view[n][1] = 6 /\ view[n][2] = 1) \/ view[n][1] >= 16
  BY DEF Layout, IsField, Apart
<1>2. Bindable(new)
  <2> SUFFICES ASSUME NEW c \in new
               PROVE  /\ c[1] \in Int /\ c[2] \in Int
                      /\ \/ c[1] + c[2] <= 6 \/ c[1] >= 16
                         \/ c[2] = 1 /\ c[1] \in {6, 7}
                         \/ c[1] = 8 /\ c[2] = 8
    BY DEF Bindable
  <2>1. CASE \E n \in DOMAIN x : c = <<view[n][1], view[n][2], x[n]>>
    BY <1>1, <2>1 DEF IsField
  <2>2. CASE \E d \in dsc : c = d \/ c = <<d[1], d[2], Torn>>
    <3>1. PICK d \in dsc : c[1] = d[1] /\ c[2] = d[2]
      BY <2>2
    <3> QED  BY <3>1 DEF Bindable
  <2> QED  BY <2>1, <2>2 DEF PutAll
<1>3. Clean(dsc, AddressField) /\ Clean(dsc, any_descriptor.operation)
  BY BindableClean
<1> QED  BY <1>1, <1>2, <1>3, PutAllOther, SharedFields

\* What was written is read back, also after the flags were written.
LEMMA AddressRead ==
    ASSUME NEW dsc, Bindable(dsc), NEW a \in Int, a # 0, NEW f
    PROVE  Get(Put(Put(dsc, AddressField, a), any_descriptor.flags, f), AddressField) = a
<1> DEFINE one == Put(dsc, AddressField, a)
<1>1. Apart(AddressField, FlagsField)
  BY SharedFields DEF Apart
<1>2. Get(one, AddressField) = a /\ Clean(one, AddressField)
  BY BindableClean, PutSame, SharedFields
<1> HIDE DEF one
<1>3. Get(Put(one, FlagsField, f), AddressField) = a
  BY <1>1, <1>2, PutOther, SharedFields
<1> QED  BY <1>3 DEF one, FlagsField

\* A descriptor that was bound to a place names that place alone.
LEMMA Rebound ==
    ASSUME NEW dsc, Bindable(dsc), NEW p \in Places
    PROVE  /\ Named(rebind(dsc, Address[p])) = {p}
           /\ Bindable(rebind(dsc, Address[p]))
<1> DEFINE a == Address[p]
           f == Enable(Enable(Get(dsc, any_descriptor.flags), flag.completion_record_address_valid),
                       flag.request_completion_record)
<1>1. a \in Int /\ a # 0 /\ \A q \in Places : Address[q] = a => q = p
  BY AddressAssumption
<1>2. rebind(dsc, a) = Put(Put(dsc, AddressField, a), any_descriptor.flags, f)
  BY DEF rebind, AddressField
<1>3. AddressField = <<8, 8>> /\ any_descriptor.flags = <<4, 2>>
  BY DEF AddressField, any_descriptor
<1> HIDE DEF f, a
<1>4. Get(rebind(dsc, a), AddressField) = a
  BY <1>1, <1>2, AddressRead
<1>5. Bindable(rebind(dsc, a))
  BY <1>2, <1>3, PutBindable
<1>6. Named(rebind(dsc, a)) = {p}
  BY <1>1, <1>4 DEF Named, AddressField, a
<1> QED  BY <1>5, <1>6 DEF a

\* Every view of a descriptor keeps off that field.
LEMMA MadeBindable ==
    /\ \A o : Bindable(make_nop_descriptor(o))
    /\ \A a, b, o, s : Bindable(make_drain_descriptor(a, b, o, s))
    /\ \A a, b, n, o : Bindable(make_mem_move_descriptor(a, b, n, o))
    /\ \A a, b, n, o : Bindable(make_fill_descriptor(a, b, n, o))
    /\ \A a, b, c, n, o, s : Bindable(make_dualcast_descriptor(a, b, c, n, o, s))
    /\ \A a, b, n, o, e : Bindable(make_compare_descriptor(a, b, n, o, e))
    /\ \A a, b, n, o, e : Bindable(make_compare_pattern_descriptor(a, b, n, o, e))
    /\ \A a, n, c, o, s : Bindable(make_crc_descriptor(a, n, c, o, s))
    /\ \A a, b, n, c, o, s : Bindable(make_copy_crc_descriptor(a, b, n, c, o, s))
    /\ \A a, b, n, d, m, o, e : Bindable(make_create_delta_descriptor(a, b, n, d, m, o, e))
    /\ \A d, m, b, n, o : Bindable(make_apply_delta_descriptor(d, m, b, n, o))
    /\ \A b, n, o : Bindable(make_cache_flush_descriptor(b, n, o))
    /\ \A l, n, o : Bindable(make_batch_descriptor(l, n, o))
<1> USE WrittenBindable DEF Aside, Flags, Spec8, any_descriptor, Source, Destination, Size,
        Specific
<1>1. \A o : Bindable(make_nop_descriptor(o))
  BY DEF make_nop_descriptor
<1>2. \A a, b, o, s : Bindable(make_drain_descriptor(a, b, o, s))
  BY DEF make_drain_descriptor, drain_descriptor
<1>3. \A a, b, n, o : Bindable(make_mem_move_descriptor(a, b, n, o))
  BY DEF make_mem_move_descriptor, mem_move_descriptor
<1>4. \A a, b, n, o : Bindable(make_fill_descriptor(a, b, n, o))
  BY DEF make_fill_descriptor, fill_descriptor
<1>5. \A a, b, c, n, o, s : Bindable(make_dualcast_descriptor(a, b, c, n, o, s))
  BY DEF make_dualcast_descriptor, dualcast_descriptor
<1>6. \A a, b, n, o, e : Bindable(make_compare_descriptor(a, b, n, o, e))
  BY DEF make_compare_descriptor, compare_descriptor
<1>7. \A a, b, n, o, e : Bindable(make_compare_pattern_descriptor(a, b, n, o, e))
  BY DEF make_compare_pattern_descriptor, compare_pattern_descriptor
<1>8. \A a, n, c, o, s : Bindable(make_crc_descriptor(a, n, c, o, s))
  BY DEF make_crc_descriptor, crc_descriptor
<1>9. \A a, b, n, c, o, s : Bindable(make_copy_crc_descriptor(a, b, n, c, o, s))
  BY DEF make_copy_crc_descriptor, copy_crc_descriptor
<1>10. \A a, b, n, d, m, o, e : Bindable(make_create_delta_descriptor(a, b, n, d, m, o, e))
  BY DEF make_create_delta_descriptor, create_delta_descriptor
<1>11. \A d, m, b, n, o : Bindable(make_apply_delta_descriptor(d, m, b, n, o))
  BY DEF make_apply_delta_descriptor, apply_delta_descriptor
<1>12. \A b, n, o : Bindable(make_cache_flush_descriptor(b, n, o))
  BY DEF make_cache_flush_descriptor, cache_flush_descriptor
<1>13. \A l, n, o : Bindable(make_batch_descriptor(l, n, o))
  BY DEF make_batch_descriptor, batch_descriptor
<1> QED  BY <1>1, <1>2, <1>3, <1>4, <1>5, <1>6, <1>7, <1>8, <1>9, <1>10, <1>11, <1>12, <1>13

\* The same for the DIF operations.
LEMMA DifBindable ==
    /\ \A a, n, p, o, d, f : Bindable(make_dif_check_descriptor(a, n, p, o, d, f))
    /\ \A a, b, n, p, o, d, f : Bindable(make_dif_insert_descriptor(a, b, n, p, o, d, f))
    /\ \A a, b, n, p, o, d, f : Bindable(make_dif_strip_descriptor(a, b, n, p, o, d, f))
    /\ \A a, b, n, p, q, o, d, f, g :
          Bindable(make_dif_update_descriptor(a, b, n, p, q, o, d, f, g))
<1> USE WrittenBindable DEF Aside, Flags, any_descriptor, Source, Destination, Size,
        SourceDif, DestinationDif
<1>1. \A a, n, p, o, d, f : Bindable(make_dif_check_descriptor(a, n, p, o, d, f))
  BY DEF make_dif_check_descriptor, dif_check_descriptor
<1>2. \A a, b, n, p, o, d, f : Bindable(make_dif_insert_descriptor(a, b, n, p, o, d, f))
  BY DEF make_dif_insert_descriptor, dif_insert_descriptor
<1>3. \A a, b, n, p, o, d, f : Bindable(make_dif_strip_descriptor(a, b, n, p, o, d, f))
  BY DEF make_dif_strip_descriptor, dif_strip_descriptor
<1>4. \A a, b, n, p, q, o, d, f, g :
          Bindable(make_dif_update_descriptor(a, b, n, p, q, o, d, f, g))
  BY DEF make_dif_update_descriptor, dif_update_descriptor
<1> QED  BY <1>1, <1>2, <1>3, <1>4

\* The descriptor of a job, whatever its fields.
LEMMA TaskBindable == ASSUME NEW fields PROVE Bindable(make_task(fields))
  BY MadeBindable, DifBindable, SMTT(60) DEF make_task

\* The descriptor of a call that has an overload, and what its range check says.
LEMMA CallBindable ==
    ASSUME NEW c, c.op \in DOMAIN OperationObject
    PROVE  Bindable(submit_overload(c).dsc) /\ submit_overload(c).check # "dead"
<1> DEFINE r == submit_overload(c)
<1>1. c.op \in {"nop", "batch", "mem_move", "mem_copy", "fill", "dualcast", "compare",
                "compare_pattern", "create_delta", "apply_delta", "crc", "copy_crc",
                "cache_flush"}
  BY DEF OperationObject
<1> USE MadeBindable DEF submit_overload, Overload, SameSize
<1>2. CASE c.op \in {"nop", "batch", "fill", "crc", "cache_flush", "compare_pattern"}
  BY <1>2 DEF submit_nop, submit_batch, submit_fill, submit_crc, submit_cache_flush,
              submit_compare_pattern
<1>3. CASE c.op \in {"mem_move", "mem_copy", "compare", "copy_crc"}
  BY <1>3 DEF submit_mem_move, submit_mem_copy, submit_compare, submit_copy_crc
<1>4. CASE c.op \in {"dualcast", "create_delta", "apply_delta"}
  BY <1>4 DEF submit_dualcast, submit_create_delta, submit_apply_delta
<1> QED  BY <1>1, <1>2, <1>3, <1>4

-----------------------------------------------------------------------------
(* Validation. *)

\* A nonempty set of numbers has a smallest one.
LEMMA SmallestOf ==
    ASSUME NEW T \in SUBSET Nat, T # {}
    PROVE  \E x \in T : \A y \in T : ~(y < x)
<1> DEFINE R == {ss \in Nat \X Nat : ss[1] < ss[2]}
<1>1. IsWellFoundedOn(R, Nat)
  BY NatLessThanWellFounded DEF OpToRel
<1>2. PICK x \in T : \A k \in T : ~ (<<k, x>> \in R)
  <2> HIDE DEF R
  <2> QED  BY <1>1, WFMin
<1>3. ASSUME NEW y \in T
      PROVE  ~(y < x)
  <2>1. y \in Nat /\ x \in Nat
    OBVIOUS
  <2>2. y < x => <<y, x>> \in R
    BY <2>1
  <2> QED  BY <1>2, <2>1, <2>2
<1> QED  BY <1>3

\* The status of a check that fails, or success.
LEMMA FirstOfChecks ==
    ASSUME NEW S, NEW checks \in Seq(BOOLEAN \X S)
    PROVE  FirstOf(checks) \in S \cup {"success"}
<1> DEFINE F == {i \in DOMAIN checks : checks[i][1]}
           IsFirst(i) == checks[i][1] /\ \A k \in DOMAIN checks : k < i => ~checks[k][1]
<1>1. DOMAIN checks \subseteq Nat /\ \A i \in DOMAIN checks : checks[i][2] \in S
  OBVIOUS
<1>2. CASE F = {}
  BY <1>2 DEF FirstOf
<1>3. CASE F # {}
  <2>1. PICK i \in F : \A k \in F : ~(k < i)
    BY <1>1, <1>3, SmallestOf
  <2>2. i \in DOMAIN checks /\ IsFirst(i)
    BY <2>1
  <2> DEFINE first == CHOOSE n \in DOMAIN checks : IsFirst(n)
  <2>3. first \in DOMAIN checks
    BY <2>2
  <2>4. FirstOf(checks) = checks[first][2]
    BY <2>2 DEF FirstOf
  <2> HIDE DEF first
  <2> QED  BY <1>1, <2>3, <2>4
<1> QED  BY <1>2, <1>3

\* What the checks answer.
Refusals ==
    {"null_address", "null_size", "misalignment", "wrong_size", "large_size", "wrong_delta_size",
     "overlapping", "wrong_dualcast_address", "wrong_dif_size", "dif_strip_adjacent",
     "wrong_batch_size"}

\* A check of the code: a condition and the status of its failure.
Checks == BOOLEAN \X Refusals

\* A condition with a status that refuses is a check.
LEMMA ACheck ==
    ASSUME NEW c \in BOOLEAN, NEW r \in Refusals
    PROVE  <<c, r>> \in Checks
  BY DEF Checks

\* The checks for null addresses and sizes.
LEMMA PresentChecks ==
    ASSUME NEW a, NEW s
    PROVE  Present(a, s) \in Seq(Checks)
<1>1. any_equal_zero(a) \in BOOLEAN /\ any_equal_zero(s) \in BOOLEAN
  BY DEF any_equal_zero
<1>2. "null_address" \in Refusals /\ "null_size" \in Refusals
  BY DEF Refusals
<1>3. /\ <<any_equal_zero(a), "null_address">> \in Checks
      /\ <<any_equal_zero(s), "null_size">> \in Checks
  BY <1>1, <1>2, ACheck
<1> QED  BY <1>3 DEF Present

\* The answer of a sequence of checks.
Answer(status) == status \in Refusals \cup {"success"}

\* Those checks alone answer with a refusal or success,
LEMMA Alone ==
    ASSUME NEW a, NEW s
    PROVE  Answer(FirstOf(Present(a, s)))
<1>1. Present(a, s) \in Seq(BOOLEAN \X Refusals)
  BY PresentChecks DEF Checks
<1> QED  BY <1>1, FirstOfChecks DEF Answer

\* and so they do with others behind them.
LEMMA Joins ==
    ASSUME NEW a, NEW s, NEW t \in Seq(Checks)
    PROVE  Answer(FirstOf(Present(a, s) \o t))
<1> DEFINE all == Present(a, s) \o t
<1>1. all \in Seq(Checks)
  BY PresentChecks
<1> HIDE DEF all
<1>2. FirstOf(all) \in Refusals \cup {"success"}
  BY <1>1, FirstOfChecks DEF Checks
<1> QED  BY <1>2 DEF Answer, all

\* A sequence of checks that the code makes, of up to five.
LEMMA ShortSeq ==
    ASSUME NEW S
    PROVE  /\ \A a \in S : <<a>> \in Seq(S)
           /\ \A a, b \in S : <<a, b>> \in Seq(S)
           /\ \A a, b, c \in S : <<a, b, c>> \in Seq(S)
           /\ \A a, b, c, d \in S : <<a, b, c, d>> \in Seq(S)
           /\ \A a, b, c, d, e \in S : <<a, b, c, d, e>> \in Seq(S)
  OBVIOUS

\* What the validation of each operation answers: those that only look for nulls.
LEMMA ValidateSmall ==
    ASSUME NEW v
    PROVE  /\ Answer(validate_fill(v)) /\ Answer(validate_mem_move(v))
           /\ Answer(validate_compare(v)) /\ Answer(validate_compare_pattern(v))
           /\ Answer(validate_crc(v)) /\ Answer(validate_cache_flush(v))
  BY Alone DEF validate_fill, validate_mem_move, validate_compare, validate_compare_pattern,
               validate_crc, validate_cache_flush
\* The conditions that the checks look at.
LEMMA Conditions ==
    /\ \A n, a : any_misaligned(n, a) \in BOOLEAN
    /\ \A a, m, b, n : overlaps(a, m, b, n) \in BOOLEAN
  BY DEF any_misaligned, overlaps

\* create_delta and apply_delta.
LEMMA ValidateDelta ==
    ASSUME NEW v
    PROVE  Answer(validate_create_delta(v)) /\ Answer(validate_apply_delta(v))
<1> DEFINE mis(a) == <<any_misaligned(8, a), "misalignment">>
           odd == <<v.transfer_size % 8 # 0, "wrong_size">>
           large == <<v.transfer_size > MaxDeltaSize, "large_size">>
           most == <<v.maximum_delta_record_size % 10 # 0 \/ v.maximum_delta_record_size < 80,
                     "wrong_delta_size">>
           ten == <<v.delta_record_size % 10 # 0, "wrong_delta_size">>
           over == <<overlaps(v.delta_record_address, v.delta_record_size,
                              v.destination_address, v.transfer_size), "overlapping">>
<1>1. {"misalignment", "wrong_size", "large_size", "wrong_delta_size", "overlapping"}
        \subseteq Refusals
  BY DEF Refusals
<1>2. (\A a : mis(a) \in Checks) /\ over \in Checks
  BY <1>1, Conditions, ACheck
<1>3. odd \in Checks /\ large \in Checks /\ most \in Checks /\ ten \in Checks
  <2> DEFINE b1 == v.transfer_size % 8 # 0
             b2 == v.transfer_size > MaxDeltaSize
             b3 == v.maximum_delta_record_size % 10 # 0 \/ v.maximum_delta_record_size < 80
             b4 == v.delta_record_size % 10 # 0
  <2>1. b1 \in BOOLEAN /\ b2 \in BOOLEAN /\ b3 \in BOOLEAN /\ b4 \in BOOLEAN
    OBVIOUS
  <2> HIDE DEF b1, b2, b3, b4
  <2>2. /\ <<b1, "wrong_size">> \in Checks /\ <<b2, "large_size">> \in Checks
        /\ <<b3, "wrong_delta_size">> \in Checks /\ <<b4, "wrong_delta_size">> \in Checks
    BY <1>1, <2>1, ACheck
  <2> QED  BY <2>2 DEF b1, b2, b3, b4
<1> HIDE DEF mis, odd, large, most, ten, over
<1>4. \A a : <<mis(a), odd, large, most>> \in Seq(Checks)
  BY <1>2, <1>3, ShortSeq
<1>5. \A a : <<over, mis(a), odd, large, ten>> \in Seq(Checks)
  BY <1>2, <1>3, ShortSeq
<1>6. Answer(validate_create_delta(v))
  <2>1. \A a, s, b : Answer(FirstOf(Present(a, s) \o <<mis(b), odd, large, most>>))
    BY <1>4, Joins
  <2> QED  BY <2>1 DEF validate_create_delta, mis, odd, large, most
<1>7. Answer(validate_apply_delta(v))
  <2>1. \A a, s, b : Answer(FirstOf(Present(a, s) \o <<over, mis(b), odd, large, ten>>))
    BY <1>5, Joins
  <2> QED  BY <2>1 DEF validate_apply_delta, mis, odd, large, ten, over
<1> QED  BY <1>6, <1>7

\* dualcast, copy_crc and batch.
LEMMA ValidateTwo ==
    ASSUME NEW v
    PROVE  /\ Answer(validate_dualcast(v)) /\ Answer(validate_copy_crc(v))
           /\ Answer(validate_batch(v))
<1> DEFINE over(a, m, b, n) == <<overlaps(a, m, b, n), "overlapping">>
           cast == <<v.destination_1_address % 4096 # v.destination_2_address % 4096,
                     "wrong_dualcast_address">>
           null == <<v.descriptor_list_address = 0, "null_address">>
           few == <<v.descriptors_count < 4, "wrong_batch_size">>
<1>1. {"overlapping", "wrong_dualcast_address", "null_address", "wrong_batch_size"}
        \subseteq Refusals
  BY DEF Refusals
<1>2. \A a, m, b, n : over(a, m, b, n) \in Checks
  BY <1>1, Conditions, ACheck
<1>3. cast \in Checks /\ null \in Checks /\ few \in Checks
  <2> DEFINE b1 == v.destination_1_address % 4096 # v.destination_2_address % 4096
             b2 == v.descriptor_list_address = 0
             b3 == v.descriptors_count < 4
  <2>1. b1 \in BOOLEAN /\ b2 \in BOOLEAN /\ b3 \in BOOLEAN
    OBVIOUS
  <2> HIDE DEF b1, b2, b3
  <2>2. /\ <<b1, "wrong_dualcast_address">> \in Checks /\ <<b2, "null_address">> \in Checks
        /\ <<b3, "wrong_batch_size">> \in Checks
    BY <1>1, <2>1, ACheck
  <2> QED  BY <2>2 DEF b1, b2, b3
<1> HIDE DEF over, cast, null, few
<1>4. \A a, b, c, n : <<cast, over(a, n, b, n), over(a, n, c, n), over(b, n, c, n)>> \in Seq(Checks)
  BY <1>2, <1>3, ShortSeq
<1>5. \A a, m, b, n : <<over(a, m, b, n)>> \in Seq(Checks)
  BY <1>2, ShortSeq
<1>6. <<null, few>> \in Seq(BOOLEAN \X Refusals)
  BY <1>3, ShortSeq DEF Checks
<1>7. Answer(validate_dualcast(v))
  <2>1. \A p, s, a, b, c, n :
            Answer(FirstOf(Present(p, s)
                \o <<cast, over(a, n, b, n), over(a, n, c, n), over(b, n, c, n)>>))
    BY <1>4, Joins
  <2> QED  BY <2>1 DEF validate_dualcast, cast, over
<1>8. Answer(validate_copy_crc(v))
  <2>1. \A p, s, a, m, b, n : Answer(FirstOf(Present(p, s) \o <<over(a, m, b, n)>>))
    BY <1>5, Joins
  <2> QED  BY <2>1 DEF validate_copy_crc, over
<1>9. Answer(validate_batch(v))
  BY <1>6, FirstOfChecks DEF Answer, validate_batch, null, few
<1> QED  BY <1>7, <1>8, <1>9

\* The DIF operations.
LEMMA ValidateDif ==
    ASSUME NEW v
    PROVE  /\ Answer(validate_dif_check(v)) /\ Answer(validate_dif_insert(v))
           /\ Answer(validate_dif_strip(v)) /\ Answer(validate_dif_update(v))
<1> DEFINE over(a, m, b, n) == <<overlaps(a, m, b, n), "overlapping">>
           size(n, b) == <<n % b # 0, "wrong_dif_size">>
           near(a, b, m, n) == <<a < b /\ a + m <= b /\ b <= a + n, "dif_strip_adjacent">>
<1>1. {"overlapping", "wrong_dif_size", "dif_strip_adjacent"} \subseteq Refusals
  BY DEF Refusals
<1>2. \A a, m, b, n : over(a, m, b, n) \in Checks
  BY <1>1, Conditions, ACheck
<1>3. (\A n, b : size(n, b) \in Checks) /\ (\A a, b, m, n : near(a, b, m, n) \in Checks)
  BY <1>1 DEF Checks
<1> HIDE DEF over, size, near
<1>4. \A n, b : <<size(n, b)>> \in Seq(Checks)
  BY <1>3, ShortSeq
<1>5. \A k, l, a, m, b, n : <<size(k, l), over(a, m, b, n)>> \in Seq(Checks)
  BY <1>2, <1>3, ShortSeq
<1>6. \A k, l, a, m, b, n, c, d, e, f :
          <<size(k, l), over(a, m, b, n), near(c, d, e, f)>> \in Seq(Checks)
  BY <1>2, <1>3, ShortSeq
<1>7. Answer(validate_dif_check(v))
  <2>1. \A p, s, n, b : Answer(FirstOf(Present(p, s) \o <<size(n, b)>>))
    BY <1>4, Joins
  <2> QED  BY <2>1 DEF validate_dif_check, size
<1>8. Answer(validate_dif_insert(v)) /\ Answer(validate_dif_update(v))
  <2>1. \A p, s, k, l, a, m, b, n :
            Answer(FirstOf(Present(p, s) \o <<size(k, l), over(a, m, b, n)>>))
    BY <1>5, Joins
  <2> QED  BY <2>1 DEF validate_dif_insert, validate_dif_update, size, over
<1>9. Answer(validate_dif_strip(v))
  <2>1. \A p, s, k, l, a, m, b, n, c, d, e, f :
            Answer(FirstOf(Present(p, s) \o <<size(k, l), over(a, m, b, n), near(c, d, e, f)>>))
    BY <1>6, Joins
  <2> QED  BY <2>1 DEF validate_dif_strip, size, over, near
<1> QED  BY <1>7, <1>8, <1>9
\* What a submission may be told: never what an object says of itself.
Statuses == Refusals \cup {"success", "unsupported_operation", "failure", "queue_busy"}

\* core::validate answers with a status of its own.
LEMMA ValidateAnswers ==
    ASSUME NEW dsc
    PROVE  validate(dsc) \in Statuses
<1> DEFINE v(op) == Fields(dsc, op)
<1>1. \A x : Answer(x) => x \in Statuses
  BY DEF Answer, Statuses
<1>2. "success" \in Statuses /\ "unsupported_operation" \in Statuses
  BY DEF Statuses
<1> QED  BY <1>1, <1>2, ValidateSmall, ValidateDelta, ValidateTwo, ValidateDif DEF validate

\* Only operations that exist pass, and the code is that of the operation.
LEMMA ValidOperation ==
    ASSUME NEW dsc, validate(dsc) = "success"
    PROVE  /\ OperationOf(dsc) \in Operations
           /\ Get(dsc, any_descriptor.operation) = operation[OperationOf(dsc)]
<1> DEFINE code == Get(dsc, any_descriptor.operation)
<1>1. code \in {operation[op] : op \in Operations}
  <2> SUFFICES ASSUME code \notin {operation[op] : op \in Operations}
               PROVE  validate(dsc) = "unsupported_operation"
    OBVIOUS
  <2>1. \A op \in Operations : code # operation[op]
    OBVIOUS
  <2>2. /\ code # operation.nop /\ code # operation.batch /\ code # operation.drain
        /\ code # operation.mem_move /\ code # operation.fill /\ code # operation.compare
        /\ code # operation.compare_pattern /\ code # operation.create_delta
        /\ code # operation.apply_delta /\ code # operation.dualcast /\ code # operation.crc
        /\ code # operation.copy_crc /\ code # operation.dif_check
        /\ code # operation.dif_insert /\ code # operation.dif_strip
        /\ code # operation.dif_update /\ code # operation.cache_flush
    BY <2>1 DEF Operations, operation
  <2> HIDE DEF code
  <2> QED  BY <2>2 DEF validate, code
<1>2. \E op \in Operations : operation[op] = code
  BY <1>1
<1> HIDE DEF code
<1> QED  BY <1>2 DEF OperationOf, code

\* A job that is refused before it has a task.
LEMMA RangeAnswers ==
    ASSUME NEW fields
    PROVE  range_check(fields) \in {"ok", "overlapping", "null_pointer", "operation_error"}
  BY DEF range_check

-----------------------------------------------------------------------------
(* Records. *)

\* Fields that are apart from each other and lie from some byte on, or before it.
Spread(view, lo, hi) == \A n \in DOMAIN view :
    /\ IsField(view[n]) /\ lo <= view[n][1] /\ view[n][1] + view[n][2] <= hi
    /\ \A m \in DOMAIN view : m # n => Apart(view[n], view[m])

\* The fields of every view of a completion record are apart from each other.
LEMMA RecordLayout ==
    ASSUME NEW op \in Operations, NEW n \in DOMAIN RecordView[op]
    PROVE  /\ IsField(RecordView[op][n])
           /\ \A m \in DOMAIN RecordView[op] : m # n => Apart(RecordView[op][n], RecordView[op][m])
<1> DEFINE rest == CASE op \in {"crc", "copy_crc"} -> crc_completion_record
                     [] op = "create_delta" -> create_delta_completion_record
                     [] op = "dif_check" -> dif_check_completion_record
                     [] op = "dif_insert" -> dif_insert_completion_record
                     [] op = "dif_strip" -> dif_strip_completion_record
                     [] op = "dif_update" -> dif_update_completion_record
                     [] OTHER -> [k \in {} |-> <<0, 0>>]
           both == Joined(any_completion_record, rest)
<1> USE DEF Spread, IsField, Apart
<1>1. Spread(any_completion_record, 0, 16)
  BY DEF any_completion_record
<1>2. Spread(crc_completion_record, 16, 32) /\ Spread(create_delta_completion_record, 16, 32)
  BY DEF crc_completion_record, create_delta_completion_record
<1>3. Spread(dif_check_completion_record, 16, 32)
  BY DEF dif_check_completion_record
<1>4. Spread(dif_insert_completion_record, 24, 32)
  BY DEF dif_insert_completion_record
<1>5. Spread(dif_strip_completion_record, 16, 24)
  BY DEF dif_strip_completion_record
<1>6. Spread([k \in {} |-> <<0, 0>>], 16, 32)
  OBVIOUS
<1> USE DEF Joined
<1>7. \A f, g : \A lo, mid, hi \in Nat :
        Spread(f, lo, mid) /\ Spread(g, mid, hi) /\ lo <= mid /\ mid <= hi
            => Spread(Joined(f, g), lo, hi)
  OBVIOUS
<1> HIDE DEF Spread, Joined
<1>8. Spread(dif_update_completion_record, 16, 32)
  BY <1>4, <1>5, <1>7 DEF dif_update_completion_record
<1>9. Spread(dif_insert_completion_record, 16, 32) /\ Spread(dif_strip_completion_record, 16, 32)
  BY <1>4, <1>5 DEF Spread
<1>10. Spread(rest, 16, 32)
  BY <1>2, <1>3, <1>6, <1>8, <1>9
<1> HIDE DEF rest
<1>11. Spread(both, 0, 32)
  BY <1>1, <1>7, <1>10
<1>12. RecordView[op] = both
  BY DEF RecordView, rest
<1> QED  BY <1>11, <1>12 DEF Spread

\* The fields that the record of an operation has.
LEMMA RecordNames ==
    ASSUME NEW op \in Operations
    PROVE  /\ DOMAIN RecordView[op] = {"status", "result", "bytes_completed", "fault_address"}
                \cup (CASE op \in {"crc", "copy_crc"} -> {"crc_value"}
                       [] op = "create_delta" -> {"delta_record_size"}
                       [] op \in {"dif_check", "dif_strip"} ->
                            {"source_ref_tag", "source_app_tag_mask", "source_app_tag"}
                       [] op = "dif_insert" ->
                            {"destination_ref_tag", "destination_app_tag_mask", "destination_app_tag"}
                       [] op = "dif_update" ->
                            {"source_ref_tag", "source_app_tag_mask", "source_app_tag",
                             "destination_ref_tag", "destination_app_tag_mask", "destination_app_tag"}
                       [] OTHER -> {})
           /\ RecordView[op]["status"] = any_completion_record.status
<1> DEFINE rest == CASE op \in {"crc", "copy_crc"} -> crc_completion_record
                     [] op = "create_delta" -> create_delta_completion_record
                     [] op = "dif_check" -> dif_check_completion_record
                     [] op = "dif_insert" -> dif_insert_completion_record
                     [] op = "dif_strip" -> dif_strip_completion_record
                     [] op = "dif_update" -> dif_update_completion_record
                     [] OTHER -> [k \in {} |-> <<0, 0>>]
<1>1. RecordView[op] = Joined(any_completion_record, rest)
  BY DEF RecordView
<1>2. DOMAIN any_completion_record = {"status", "result", "bytes_completed", "fault_address"}
  BY DEF any_completion_record
<1>3. /\ DOMAIN crc_completion_record = {"crc_value"}
      /\ DOMAIN create_delta_completion_record = {"delta_record_size"}
      /\ DOMAIN dif_check_completion_record =
            {"source_ref_tag", "source_app_tag_mask", "source_app_tag"}
      /\ DOMAIN dif_strip_completion_record =
            {"source_ref_tag", "source_app_tag_mask", "source_app_tag"}
      /\ DOMAIN dif_insert_completion_record =
            {"destination_ref_tag", "destination_app_tag_mask", "destination_app_tag"}
      /\ DOMAIN [k \in {} |-> <<0, 0>>] = {}
  BY DEF crc_completion_record, create_delta_completion_record, dif_check_completion_record,
         dif_strip_completion_record, dif_insert_completion_record
<1>4. \A f, g : DOMAIN Joined(f, g) = DOMAIN f \cup DOMAIN g
  BY DEF Joined
<1>5. \A f, g : \A n \in DOMAIN f : Joined(f, g)[n] = f[n]
  BY DEF Joined
<1>6. DOMAIN dif_update_completion_record =
            {"source_ref_tag", "source_app_tag_mask", "source_app_tag",
             "destination_ref_tag", "destination_app_tag_mask", "destination_app_tag"}
  <2>1. DOMAIN dif_update_completion_record =
            DOMAIN dif_strip_completion_record \cup DOMAIN dif_insert_completion_record
    BY <1>4, Zenon DEF dif_update_completion_record
  <2> QED  BY <1>3, <2>1
<1>7. RecordView[op]["status"] = any_completion_record["status"]
  BY <1>1, <1>2, <1>5
<1>8. DOMAIN RecordView[op] = DOMAIN any_completion_record \cup DOMAIN rest
  BY <1>1, <1>4
<1>9. DOMAIN rest = CASE op \in {"crc", "copy_crc"} -> {"crc_value"}
                       [] op = "create_delta" -> {"delta_record_size"}
                       [] op \in {"dif_check", "dif_strip"} ->
                            {"source_ref_tag", "source_app_tag_mask", "source_app_tag"}
                       [] op = "dif_insert" ->
                            {"destination_ref_tag", "destination_app_tag_mask", "destination_app_tag"}
                       [] op = "dif_update" ->
                            {"source_ref_tag", "source_app_tag_mask", "source_app_tag",
                             "destination_ref_tag", "destination_app_tag_mask", "destination_app_tag"}
                       [] OTHER -> {}
  BY <1>3, <1>6
<1> HIDE DEF rest
<1> QED  BY <1>2, <1>7, <1>8, <1>9

\* A record that was only written through the view of an operation.
Tidy(op, rec) == \A n \in DOMAIN RecordView[op] : Clean(rec, RecordView[op][n])

\* One that is all zeros is read so,
LEMMA BlankTidy ==
    ASSUME NEW op
    PROVE  Tidy(op, Blank) /\ \A n \in DOMAIN RecordView[op] : Read(op, Blank)[n] = 0
<1>1. \A f : Get(Blank, f) = 0
  BY ReadNone DEF Blank
<1> QED  BY <1>1 DEF Tidy, Clean, Blank, Read

\* and what is written into a field is read back.
LEMMA RecordPut ==
    ASSUME NEW op \in Operations, NEW rec, Tidy(op, rec),
           NEW x, DOMAIN x \subseteq DOMAIN RecordView[op]
    PROVE  /\ Tidy(op, PutAll(rec, RecordView[op], x))
           /\ \A n \in DOMAIN RecordView[op] :
                Read(op, PutAll(rec, RecordView[op], x))[n] =
                    IF n \in DOMAIN x THEN x[n] ELSE Read(op, rec)[n]
<1> DEFINE view == RecordView[op]
           new == PutAll(rec, view, x)
<1>1. \A n \in DOMAIN view :
          IsField(view[n]) /\ \A m \in DOMAIN view : m # n => Apart(view[n], view[m])
  BY RecordLayout
<1>2. \A n \in DOMAIN view : Clean(rec, view[n])
  BY DEF Tidy
<1> HIDE DEF view
<1>3. ASSUME NEW n \in DOMAIN view
      PROVE  /\ Clean(new, view[n])
             /\ Get(new, view[n]) = IF n \in DOMAIN x THEN x[n] ELSE Get(rec, view[n])
  <2>1. CASE n \in DOMAIN x
    <3>1. Get(new, view[n]) = x[n] /\ Clean(new, view[n])
      BY <1>1, <1>2, <2>1, PutAllSame DEF view
    <3> QED  BY <2>1, <3>1
  <2>2. CASE n \notin DOMAIN x
    <3>1. Get(new, view[n]) = Get(rec, view[n]) /\ Clean(new, view[n])
      BY <1>1, <1>2, <2>2, PutAllOther DEF view
    <3> QED  BY <2>2, <3>1
  <2> QED  BY <2>1, <2>2
<1> QED  BY <1>3 DEF Tidy, Read, view, new

\* The status is read alike through every view.
LEMMA StatusRead ==
    ASSUME NEW op \in Operations, NEW rec
    PROVE  /\ "status" \in DOMAIN RecordView[op]
           /\ Read(op, rec)["status"] = Get(rec, any_completion_record.status)
  BY RecordNames DEF Read

-----------------------------------------------------------------------------
(* What devices write. *)

\* Fields of the record of an operation, the status among them.
Ended(op, x) ==
    /\ DOMAIN x \subseteq DOMAIN RecordView[op]
    /\ "status" \in DOMAIN x /\ x["status"] \in Nat \ {0}

\* Whatever a kernel computes it says how it ended.
LEMMA KernelEnds ==
    ASSUME NEW want, want.op \in Operations, NEW x \in KernelWrites(want)
    PROVE  Ended(want.op, x)
<1> DEFINE op == want.op
           names == DOMAIN RecordView[op]
<1>1. {"status", "result", "bytes_completed"} \subseteq names
  BY RecordNames
<1>2. op \in {"crc", "copy_crc"} => "crc_value" \in names
  BY RecordNames
<1>3. op = "create_delta" => "delta_record_size" \in names
  BY RecordNames
<1>4. /\ \A r : CompareStatus(want, r) \in {1, 2} /\ DeltaStatus(want, r) \in {1, 2}
      /\ Success = 1 /\ DifError = 9 /\ BatchError = 5
  BY DEF CompareStatus, DeltaStatus, Success, FalsePredicate, DifError, BatchError
<1> DEFINE Fit(y) == DOMAIN y \subseteq names /\ "status" \in DOMAIN y /\ y["status"] \in Nat \ {0}
<1>5. \A i, r : Fit([bytes_completed |-> i, result |-> r, status |-> CompareStatus(want, r)])
  BY <1>1, <1>4
<1>6. op = "create_delta" =>
        \A k, r : Fit([delta_record_size |-> k, result |-> r, status |-> DeltaStatus(want, r)])
  BY <1>1, <1>3, <1>4
<1>7. op \in {"crc", "copy_crc"} => \A c : Fit([crc_value |-> c, status |-> Success])
  BY <1>1, <1>2, <1>4
<1>8. \A e, k : \A s \in {Success, DifError} : Fit([result |-> e, bytes_completed |-> k, status |-> s])
  BY <1>1, <1>4
<1>9. \A k : \A s \in {Success, BatchError} : Fit([bytes_completed |-> k, status |-> s])
  BY <1>1, <1>4
<1>10. Fit([status |-> Success])
  BY <1>1, <1>4
<1> HIDE DEF Fit, names
<1>11. CASE op \in {"compare", "compare_pattern"}
  BY <1>5, <1>11 DEF KernelWrites, compare, Fit, Ended, names
<1>12. CASE op = "create_delta"
  <2>1. x \in create_delta(want)
    BY <1>12 DEF KernelWrites
  <2>2. \E k, r : x = [delta_record_size |-> k, result |-> r, status |-> DeltaStatus(want, r)]
    BY <2>1 DEF create_delta
  <2> QED  BY <1>6, <1>12, <2>2 DEF Fit, Ended, names
<1>13. CASE op \in {"crc", "copy_crc"}
  BY <1>7, <1>13 DEF KernelWrites, crc, Fit, Ended, names
<1>14. CASE op \in {"dif_check", "dif_strip", "dif_update"}
  BY <1>8, <1>14 DEF KernelWrites, dif_check, Fit, Ended, names
<1>15. CASE op \in {"dif_insert", "batch"}
  BY <1>9, <1>15 DEF KernelWrites, dif_insert, batch, Fit, Ended, names
<1>16. CASE op \notin {"compare", "compare_pattern", "create_delta", "crc", "copy_crc", "dif_check",
                       "dif_strip", "dif_update", "dif_insert", "batch"}
  BY <1>10, <1>16 DEF KernelWrites, Fit, Ended, names
<1> QED  BY <1>11, <1>12, <1>13, <1>14, <1>15, <1>16

\* A fault has the status of one, while reading or writing.
LEMMA FaultParts ==
    ASSUME NEW want, NEW x \in Faults(want)
    PROVE  \E b \in FaultPoints(want) : \E k \in Details(want, b) :
                \E s \in {PageFault, PageFault + 128} : x = FaultRecord(want, b, k, s)
  BY DEF Faults

\* The accelerator fills all of it.
LEMMA AcceleratorEnds ==
    ASSUME NEW want, want.op \in Operations, NEW x \in AcceleratorWrites(want)
    PROVE  Ended(want.op, x) /\ DOMAIN x = DOMAIN RecordView[want.op]
<1> DEFINE names == DOMAIN RecordView[want.op]
<1>1. "status" \in names
  BY RecordNames
<1>2. ASSUME NEW y \in KernelWrites(want), x = Joined(y, Done(want))
      PROVE  Ended(want.op, x) /\ DOMAIN x = names
  <2>1. Ended(want.op, y)
    BY <1>2, KernelEnds
  <2>2. DOMAIN Done(want) = names
    BY DEF Done
  <2>3. DOMAIN x = names /\ "status" \in DOMAIN y /\ x["status"] = y["status"]
    BY <1>1, <1>2, <2>1, <2>2 DEF Joined, Ended
  <2> QED  BY <2>1, <2>3 DEF Ended
<1>3. CASE x = Breakdown(want)
  BY <1>1, <1>3 DEF Breakdown, Ended, HardwareTimeout
<1>4. CASE x \in Faults(want)
  <2>1. PICK b, k, s : x = FaultRecord(want, b, k, s) /\ s \in {PageFault, PageFault + 128}
    BY <1>4, FaultParts
  <2>2. DOMAIN x = names /\ x["status"] = s
    BY <1>1, <2>1 DEF FaultRecord, TagFields
  <2> QED  BY <1>1, <2>1, <2>2 DEF Ended, PageFault
<1> QED  BY <1>2, <1>3, <1>4 DEF AcceleratorWrites

\* A record that was written.
Filled(rec) == Get(rec, any_completion_record.status) # 0

\* What either device writes counts as that.
LEMMA EndedFills ==
    ASSUME NEW op \in Operations, NEW rec, Tidy(op, rec), NEW x, Ended(op, x)
    PROVE  /\ Tidy(op, PutAll(rec, RecordView[op], x)) /\ Filled(PutAll(rec, RecordView[op], x))
           /\ Get(PutAll(rec, RecordView[op], x), any_completion_record.status) = x["status"]
<1> DEFINE new == PutAll(rec, RecordView[op], x)
<1>1. /\ Tidy(op, new)
      /\ \A n \in DOMAIN RecordView[op] :
            Read(op, new)[n] = IF n \in DOMAIN x THEN x[n] ELSE Read(op, rec)[n]
  BY RecordPut DEF Ended
<1> HIDE DEF new
<1>2. Read(op, new)["status"] = x["status"]
  BY <1>1, StatusRead DEF Ended
<1>3. Get(new, any_completion_record.status) = x["status"]
  BY <1>2, StatusRead
<1> QED  BY <1>1, <1>3 DEF Filled, Ended, new

\* A descriptor with an operation, and a record written through its view.
Viable(dsc, rec) ==
    /\ Bindable(dsc) /\ OperationOf(dsc) \in Operations
    /\ Get(dsc, any_descriptor.operation) = operation[OperationOf(dsc)]
    /\ Tidy(OperationOf(dsc), rec)

\* As they are when validation lets them pass.
LEMMA ValidViable ==
    ASSUME NEW dsc, Bindable(dsc), validate(dsc) = "success"
    PROVE  Viable(dsc, Blank)
  BY ValidOperation, BlankTidy DEF Viable

\* A device keeps them so.
LEMMA WriteViable ==
    ASSUME NEW dsc, NEW rec, Viable(dsc, rec),
           NEW x \in KernelWrites(Seen(dsc)) \cup AcceleratorWrites(Seen(dsc))
    PROVE  /\ Viable(dsc, PutAll(rec, RecordView[OperationOf(dsc)], x))
           /\ Filled(PutAll(rec, RecordView[OperationOf(dsc)], x))
<1> DEFINE op == OperationOf(dsc)
<1>1. Seen(dsc).op = op
  BY DEF Seen
<1>2. Ended(op, x)
  BY <1>1, KernelEnds, AcceleratorEnds DEF Viable
<1> QED  BY <1>2, EndedFills DEF Viable

\* What an operation that is taken up has to do is read from the same fields.
LEMMA UpdateViable ==
    ASSUME NEW t, Viable(t.dsc, t.rec)
    PROVE  LET dsc == update_for_continuation(t.dsc, t.rec)
           IN  /\ Bindable(dsc) /\ Named(dsc) = Named(t.dsc)
               /\ OperationOf(dsc) = OperationOf(t.dsc)
               /\ Get(dsc, any_descriptor.operation) = Get(t.dsc, any_descriptor.operation)
<1> DEFINE op == OperationOf(t.dsc)
           x == Left(op, Fields(t.dsc, op), Read(op, t.rec))
           dsc == PutAll(t.dsc, View[op], x)
<1>1. DOMAIN x = DOMAIN View[op]
  BY DEF Left, Fields
<1>2. Layout(View[op]) /\ Bindable(t.dsc)
  BY ViewLayout DEF Viable
<1> HIDE DEF x
<1>3. /\ Bindable(dsc) /\ Get(dsc, AddressField) = Get(t.dsc, AddressField)
      /\ Get(dsc, any_descriptor.operation) = Get(t.dsc, any_descriptor.operation)
  BY <1>1, <1>2, PutAllBindable
<1>4. update_for_continuation(t.dsc, t.rec) = dsc
  BY DEF update_for_continuation, x
<1> HIDE DEF dsc
<1>5. Named(dsc) = Named(t.dsc)
  BY <1>3 DEF Named, AddressField
<1>6. OperationOf(dsc) = OperationOf(t.dsc)
  BY <1>3 DEF OperationOf
<1> QED  BY <1>3, <1>4, <1>5, <1>6

\* What is merged into a record are fields other than the status.
LEMMA AccumulateViable ==
    ASSUME NEW op \in Operations, NEW rec, Tidy(op, rec), NEW prev
    PROVE  LET new == accumulate_records(op, rec, prev)
           IN  /\ Tidy(op, new)
               /\ Get(new, any_completion_record.status) = Get(rec, any_completion_record.status)
<1> DEFINE r == Read(op, rec)
           p == Read(op, prev)
           sum == [bytes_completed |-> r.bytes_completed + p.bytes_completed]
           x == CASE op \in {"nop", "drain", "batch"} -> [n \in {} |-> 0]
                  [] op = "compare" -> [bytes_completed |-> p.bytes_completed]
                  [] op = "create_delta" ->
                        Joined(sum, [delta_record_size |-> r.delta_record_size + p.delta_record_size])
                  [] OTHER -> sum
           new == PutAll(rec, RecordView[op], x)
<1>1. accumulate_records(op, rec, prev) = new
  BY DEF accumulate_records
<1>2. DOMAIN x \subseteq {"bytes_completed"} \cup (IF op = "create_delta" THEN {"delta_record_size"} ELSE {})
  BY DEF Joined
<1>3. DOMAIN x \subseteq DOMAIN RecordView[op] /\ "status" \notin DOMAIN x
  BY <1>2, RecordNames
<1> HIDE DEF x
<1>4. /\ Tidy(op, new)
      /\ \A n \in DOMAIN RecordView[op] :
            Read(op, new)[n] = IF n \in DOMAIN x THEN x[n] ELSE Read(op, rec)[n]
  BY <1>3, RecordPut
<1> HIDE DEF new
<1>5. Read(op, new)["status"] = Read(op, rec)["status"]
  BY <1>3, <1>4, StatusRead
<1> QED  BY <1>1, <1>4, <1>5, StatusRead

\* An operation that was taken up is over, and still bound to its record.
LEMMA ContinuedViable ==
    ASSUME NEW t, Viable(t.dsc, t.rec), NEW u \in Continued(t)
    PROVE  /\ Viable(u.dsc, u.rec) /\ Filled(u.rec) /\ DOMAIN u = {"dsc", "rec"}
           /\ Named(u.dsc) = Named(t.dsc) /\ OperationOf(u.dsc) = OperationOf(t.dsc)
<1> DEFINE dsc == update_for_continuation(t.dsc, t.rec)
           op == OperationOf(dsc)
           written(x) == PutAll(t.rec, RecordView[op], x)
<1>1. PICK x \in KernelWrites(Seen(dsc)) :
          u = [dsc |-> dsc, rec |-> accumulate_records(op, written(x), t.rec)]
  BY DEF Continued
<1>2. /\ Bindable(dsc) /\ Named(dsc) = Named(t.dsc) /\ op = OperationOf(t.dsc)
      /\ Get(dsc, any_descriptor.operation) = operation[op]
      /\ op \in Operations /\ Tidy(op, t.rec)
  BY UpdateViable DEF Viable
<1> HIDE DEF dsc
<1>5. Tidy(op, written(x)) /\ Filled(written(x))
  <2>1. Seen(dsc).op = op
    BY DEF Seen
  <2> QED  BY <1>2, <2>1, KernelEnds, EndedFills
<1> DEFINE new == accumulate_records(op, written(x), t.rec)
<1>6. Tidy(op, new) /\ Filled(new)
  BY <1>2, <1>5, AccumulateViable DEF Filled
<1>7. u.dsc = dsc /\ u.rec = new /\ DOMAIN u = {"dsc", "rec"}
  BY <1>1
<1> HIDE DEF new
<1> QED  BY <1>2, <1>6, <1>7 DEF Viable

\* An empty record is not filled in.
LEMMA BlankNotFilled == ~Filled(Blank)
  BY DEF Filled, Get, Blank

-----------------------------------------------------------------------------
(* The invariant. *)

\* The execution paths.
Routes == {"software", "hardware", "automatic"}

\* Objects and tasks are structures.
Shapes ==
    /\ app \in Applications
    /\ DOMAIN obj = Objects
    /\ \A o \in Objects : DOMAIN obj[o] = {"status", "path", "place"} /\ obj[o].path \in Routes
    /\ DOMAIN task = Places
    /\ \A p \in Places : DOMAIN task[p] = {"dsc", "rec"}

\* Jobs and calls have their task in place; a handler that is gone has none.
InPlace ==
    /\ \A o \in Jobs : obj[o].place \in {o, None} /\ (obj[o].status # "dead" => obj[o].place = o)
    /\ obj[Call].place \in {Call, None}
    /\ \A h \in Handlers :
            obj[h].place \in Heap \cup {None} /\ (obj[h].status = "dead" => obj[h].place = None)

\* A valid object has a task that passed validation and is bound to its own
\* record, which is filled in or will be.
Bound == \A o \in Objects : obj[o].status = "ok" =>
    /\ obj[o].place # None
    /\ Named(Task(o).dsc) = {obj[o].place}
    /\ Viable(Task(o).dsc, Task(o).rec)
    /\ Filled(Task(o).rec) \/ Task(o).dsc \in flight

\* What the accelerator executes is the task of a valid object, and its record
\* is empty.
Aimed == \A dsc \in flight : \E o \in Objects :
    obj[o].status = "ok" /\ Task(o).dsc = dsc /\ Task(o).rec = Blank

\* The thread waits for a valid object, and leaves no blocking call behind.
Waits ==
    /\ waiting \in Objects \cup {None}
    /\ waiting # None => obj[waiting].status = "ok"
    /\ waiting # Call => ~(obj[Call].status = "ok" /\ Task(Call).dsc \in flight)

\* The inductive invariant of jobs, handlers and blocking calls.
ApiInv ==
    /\ Shapes /\ InPlace /\ BuffersOwnedOnce /\ Bound /\ Aimed /\ Waits
    /\ task[Temporary].rec = Blank
-----------------------------------------------------------------------------
(* Owners. *)

\* Different objects have their tasks in different places.
LEMMA OneOwner ==
    ASSUME InPlace, BuffersOwnedOnce, NEW o \in Objects, NEW q \in Objects \ {o},
           obj[o].place # None
    PROVE  obj[o].place # obj[q].place /\ obj[o].place \in Places \ {Temporary}
<1> USE PlaceAssumption DEF Objects, Places
<1>1. CASE o \in Jobs
  <2>1. obj[o].place = o
    BY <1>1 DEF InPlace
  <2>2. q \in Jobs => obj[q].place \in {q, None}
    BY DEF InPlace
  <2>3. q = Call => obj[q].place \in {Call, None}
    BY DEF InPlace
  <2>4. q \in Handlers => obj[q].place \in Heap \cup {None}
    BY DEF InPlace
  <2> QED  BY <1>1, <2>1, <2>2, <2>3, <2>4
<1>2. CASE o = Call
  <2>1. obj[o].place = Call
    BY <1>2 DEF InPlace
  <2>2. q \in Jobs => obj[q].place \in {q, None}
    BY DEF InPlace
  <2>4. q \in Handlers => obj[q].place \in Heap \cup {None}
    BY DEF InPlace
  <2> QED  BY <1>2, <2>1, <2>2, <2>4
<1>3. CASE o \in Handlers
  <2>1. obj[o].place \in Heap
    BY <1>3 DEF InPlace
  <2>2. q \in Jobs => obj[q].place \in {q, None}
    BY DEF InPlace
  <2>3. q = Call => obj[q].place \in {Call, None}
    BY DEF InPlace
  <2>4. q \in Handlers => obj[o].place # obj[q].place
    BY <1>3 DEF BuffersOwnedOnce
  <2> QED  BY <1>3, <2>1, <2>2, <2>3, <2>4
<1> QED  BY <1>1, <1>2, <1>3

\* The place of a task is none of a temporary.
LEMMA OwnPlace ==
    ASSUME InPlace, NEW o \in Objects, obj[o].place # None
    PROVE  obj[o].place \in Places \ {Temporary}
<1> USE PlaceAssumption DEF Objects, Places, InPlace
<1>1. CASE o \in Jobs
  BY <1>1
<1>2. CASE o = Call
  BY <1>2
<1>3. CASE o \in Handlers
  BY <1>3
<1> QED  BY <1>1, <1>2, <1>3

\* A descriptor in flight that names the place of an object is the task of
\* that object.
LEMMA FlightOwner ==
    ASSUME ApiInv, NEW o \in Objects, obj[o].place # None, NEW dsc \in flight,
           obj[o].place \in Named(dsc)
    PROVE  obj[o].status = "ok" /\ Task(o).dsc = dsc /\ Task(o).rec = Blank
<1>1. PICK q \in Objects : obj[q].status = "ok" /\ Task(q).dsc = dsc /\ Task(q).rec = Blank
  BY DEF ApiInv, Aimed
<1>2. Named(dsc) = {obj[q].place}
  BY <1>1 DEF ApiInv, Bound
<1>3. obj[q].place = obj[o].place
  BY <1>2
<1>4. q = o
  BY <1>3, OneOwner DEF ApiInv
<1> QED  BY <1>1, <1>4

\* What is in flight belongs to other objects than one that does not run.
LEMMA OthersRun ==
    ASSUME ApiInv, NEW o \in Objects, ~Running(o), NEW dsc \in flight
    PROVE  \E q \in Objects \ {o} :
              obj[q].status = "ok" /\ Task(q).dsc = dsc /\ Task(q).rec = Blank
<1>1. PICK q \in Objects : obj[q].status = "ok" /\ Task(q).dsc = dsc /\ Task(q).rec = Blank
  BY DEF ApiInv, Aimed
<1>2. Named(dsc) = {obj[q].place} /\ obj[q].place # None
  BY <1>1 DEF ApiInv, Bound
<1>3. q # o
  BY <1>2 DEF Running
<1> QED  BY <1>1, <1>3

\* A record that is filled in ends the operation.
LEMMA FilledEnds ==
    ASSUME ApiInv, NEW o \in Objects, obj[o].status = "ok", Filled(Task(o).rec)
    PROVE  Task(o).dsc \notin flight
<1> SUFFICES ASSUME Task(o).dsc \in flight PROVE FALSE
  OBVIOUS
<1>1. obj[o].place # None /\ obj[o].place \in Named(Task(o).dsc)
  BY DEF ApiInv, Bound
<1>2. Task(o).rec = Blank
  BY <1>1, FlightOwner
<1> QED  BY <1>2, BlankNotFilled

\* No blocking call runs while the thread makes calls.
LEMMA CallIdle ==
    ASSUME ApiInv, waiting = None
    PROVE  ~Running(Call)
<1> SUFFICES ASSUME Running(Call) PROVE FALSE
  OBVIOUS
<1>1. Call \in Objects /\ Call # None
  BY PlaceAssumption DEF Objects
<1>2. PICK dsc \in flight : obj[Call].place \in Named(dsc)
  BY DEF Running
<1>3. obj[Call].status = "ok" /\ Task(Call).dsc = dsc
  BY <1>1, <1>2, FlightOwner DEF Running
<1> QED  BY <1>1, <1>3 DEF ApiInv, Waits
-----------------------------------------------------------------------------
(* What steps do to objects and tasks. *)

\* Object o gets status st and its task is at p.
Restated(o, st, p) ==
    /\ DOMAIN obj' = Objects
    /\ \A q \in Objects : DOMAIN obj'[q] = {"status", "path", "place"} /\ obj'[q].path \in Routes
    /\ obj'[o].status = st /\ obj'[o].place = p
    /\ \A q \in Objects \ {o} : obj'[q] = obj[q]

\* Descriptor and record at p become d and r.
Retasked(p, d, r) ==
    /\ DOMAIN task' = Places
    /\ \A q \in Places : DOMAIN task'[q] = {"dsc", "rec"}
    /\ task'[p].dsc = d /\ task'[p].rec = r
    /\ \A q \in Places \ {p} : task'[q] = task[q]

\* Who gets the buffers when the task of o goes to p, or away with None.
Reallocated(o, p) ==
    allocated' = IF o \in Handlers THEN (allocated \cup ({p} \ {None})) \ ({obj[o].place} \ {p})
                 ELSE allocated

\* Buffers stay owned once when a handler gets one that no other has.
LEMMA StayOwned ==
    ASSUME InPlace, BuffersOwnedOnce, NEW o \in Objects, NEW p, NEW st, Restated(o, st, p),
           p # None => \A q \in Objects \ {o} : obj[q].place # p, Reallocated(o, p)
    PROVE  BuffersOwnedOnce'
<1>1. CASE o \notin Handlers
  <2>1. \A h \in Handlers : obj'[h] = obj[h]
    BY <1>1 DEF Restated, Objects
  <2>2. allocated' = allocated
    BY <1>1 DEF Reallocated
  <2> QED  BY <2>1, <2>2 DEF BuffersOwnedOnce
<1>2. CASE o \in Handlers
  <2>1. \A h \in Handlers \ {o} : obj'[h].place = obj[h].place
    BY DEF Restated, Objects
  <2>2. obj'[o].place = p
    BY DEF Restated
  <2>3. \A g, h \in Handlers : g # h /\ obj'[g].place # None => obj'[g].place # obj'[h].place
    <3> SUFFICES ASSUME NEW g \in Handlers, NEW h \in Handlers, g # h, obj'[g].place # None
                 PROVE  obj'[g].place # obj'[h].place
      OBVIOUS
    <3>1. CASE g = o
      BY <1>2, <2>1, <2>2, <3>1 DEF Objects
    <3>2. CASE h = o
      BY <1>2, <2>1, <2>2, <3>2 DEF Objects
    <3>3. CASE g # o /\ h # o
      BY <2>1, <3>3 DEF BuffersOwnedOnce
    <3> QED  BY <3>1, <3>2, <3>3
  <2> DEFINE old == {obj[h].place : h \in Handlers} \ {None}
             new == {obj'[h].place : h \in Handlers} \ {None}
  <2>4. allocated = old /\ allocated' = (allocated \cup ({p} \ {None})) \ ({obj[o].place} \ {p})
    BY <1>2 DEF BuffersOwnedOnce, Reallocated
  <2>5. ASSUME NEW b \in new PROVE b \in allocated'
    <3>1. PICK h \in Handlers : b = obj'[h].place /\ b # None
      OBVIOUS
    <3>2. CASE h = o
      BY <2>2, <2>4, <3>1, <3>2
    <3>3. CASE h # o
      <4>1. b = obj[h].place /\ b \in old
        BY <2>1, <3>1, <3>3
      <4>2. b # obj[o].place
        BY <1>2, <3>1, <3>3, <4>1 DEF BuffersOwnedOnce
      <4> QED  BY <2>4, <4>1, <4>2
    <3> QED  BY <3>2, <3>3
  <2>6. ASSUME NEW b \in allocated' PROVE b \in new
    <3>1. CASE b = p /\ p # None
      BY <1>2, <2>2, <3>1
    <3>2. CASE b # p /\ b \in old
      <4>1. PICK h \in Handlers : b = obj[h].place /\ b # None
        BY <3>2
      <4>2. h # o
        BY <2>4, <3>2, <4>1
      <4> QED  BY <2>1, <4>1, <4>2
    <3>3. CASE b = p /\ p = None
      BY <2>4, <3>3
    <3> QED  BY <2>4, <3>1, <3>2, <3>3
  <2> QED  BY <2>3, <2>5, <2>6 DEF BuffersOwnedOnce
<1> QED  BY <1>1, <1>2

\* The task of object o, which did not run, goes to a place of its own: it is
\* made, or submitted with whatever success.
LEMMA Landing ==
    ASSUME ApiInv, waiting = None, NEW o \in Objects, NEW p \in Places \ {Temporary}, NEW st,
           NEW d, NEW r,
           ~Running(o), \A q \in Objects \ {o} : obj[q].place # p,
           Restated(o, st, p), Retasked(p, d, r), Reallocated(o, p), app' = app,
           (o \in Jobs => p = o), (o = Call => p = Call), (o \in Handlers => p \in Heap),
           st # "dead",
           \A e \in flight : e \in flight',
           \A e \in flight' : e \in flight \/ (e = d /\ st = "ok" /\ r = Blank),
           st = "ok" => Named(d) = {p} /\ Viable(d, r) /\ (Filled(r) \/ d \in flight'),
           waiting' = None \/ (waiting' = o /\ st = "ok"),
           o = Call /\ st = "ok" => waiting' = o
    PROVE  ApiInv'
<1> USE DEF Task
<1>1. obj'[o].status = st /\ obj'[o].place = p /\ \A q \in Objects \ {o} : obj'[q] = obj[q]
  BY DEF Restated
<1>2. task'[p].dsc = d /\ task'[p].rec = r /\ \A q \in Places \ {p} : task'[q] = task[q]
  BY DEF Retasked
<1>3. p # None /\ Temporary \in Places
  BY PlaceAssumption DEF Places
<1>4. Shapes'
  BY DEF ApiInv, Shapes, Restated, Retasked
<1>5. InPlace'
  <2>1. \A j \in Jobs :
            obj'[j].place \in {j, None} /\ (obj'[j].status # "dead" => obj'[j].place = j)
    BY <1>1 DEF ApiInv, InPlace, Objects
  <2>2. obj'[Call].place \in {Call, None}
    BY <1>1 DEF ApiInv, InPlace, Objects
  <2>3. \A h \in Handlers : obj'[h].place \in Heap \cup {None}
                            /\ (obj'[h].status = "dead" => obj'[h].place = None)
    BY <1>1 DEF ApiInv, InPlace, Objects
  <2> QED  BY <2>1, <2>2, <2>3 DEF InPlace
<1>6. BuffersOwnedOnce'
  BY StayOwned DEF ApiInv
<1>7. ASSUME NEW q \in Objects \ {o}, obj[q].status = "ok"
      PROVE  Task(q)' = Task(q) /\ obj'[q].place = obj[q].place
  <2>1. obj[q].place # None
    BY <1>7 DEF ApiInv, Bound
  <2>2. obj[q].place \in Places \ {p}
    BY <2>1, OwnPlace DEF ApiInv
  <2> QED  BY <1>1, <1>2, <2>2
<1>8. Bound'
  <2> SUFFICES ASSUME NEW q \in Objects, obj'[q].status = "ok"
               PROVE  /\ obj'[q].place # None
                      /\ Named(Task(q)'.dsc) = {obj'[q].place}
                      /\ Viable(Task(q)'.dsc, Task(q)'.rec)
                      /\ Filled(Task(q)'.rec) \/ Task(q)'.dsc \in flight'
    BY DEF Bound, Named, Filled
  <2>1. CASE q = o
    BY <1>1, <1>2, <1>3, <2>1
  <2>2. CASE q # o
    <3>1. obj[q].status = "ok"
      BY <1>1, <2>2
    <3>2. Task(q)' = Task(q) /\ obj'[q].place = obj[q].place
      BY <1>7, <2>2, <3>1
    <3> QED  BY <3>1, <3>2 DEF ApiInv, Bound
  <2> QED  BY <2>1, <2>2
<1>9. Aimed'
  <2> SUFFICES ASSUME NEW e \in flight'
               PROVE  \E q \in Objects : /\ obj'[q].status = "ok" /\ Task(q)'.dsc = e
                                         /\ Task(q)'.rec = Blank
    BY DEF Aimed
  <2>1. CASE e \in flight
    <3>1. PICK q \in Objects \ {o} :
              obj[q].status = "ok" /\ Task(q).dsc = e /\ Task(q).rec = Blank
      BY <2>1, OthersRun
    <3>2. Task(q)' = Task(q) /\ obj'[q] = obj[q]
      BY <1>1, <1>7, <3>1
    <3> QED  BY <3>1, <3>2
  <2>2. CASE e = d /\ st = "ok" /\ r = Blank
    BY <1>1, <1>2, <2>2
  <2> QED  BY <2>1, <2>2
<1>10. Waits'
  <2>1. waiting' \in Objects \cup {None} /\ (waiting' # None => obj'[waiting'].status = "ok")
    BY <1>1
  <2>2. ASSUME waiting' # Call, obj'[Call].status = "ok", Task(Call)'.dsc \in flight' PROVE FALSE
    <3>1. Call \in Objects /\ Call # None
      BY PlaceAssumption DEF Objects
    <3>2. Call # o
      BY <1>1, <2>2
    <3>3. obj[Call].status = "ok" /\ Task(Call)' = Task(Call)
      BY <1>1, <1>7, <2>2, <3>1, <3>2
    <3>4. Task(Call).dsc \notin flight
      BY <3>1, <3>3 DEF ApiInv, Waits
    <3>5. Task(Call).dsc = d /\ st = "ok"
      BY <2>2, <3>3, <3>4
    <3>6. Named(Task(Call).dsc) = {obj[Call].place}
      BY <3>1, <3>3 DEF ApiInv, Bound
    <3>7. obj[Call].place = p
      BY <3>5, <3>6
    <3> QED  BY <3>1, <3>2, <3>7
  <2> QED  BY <2>1, <2>2 DEF Waits
<1>11. task'[Temporary].rec = Blank
  BY <1>2, <1>3 DEF ApiInv
<1> QED  BY <1>4, <1>5, <1>6, <1>8, <1>9, <1>10, <1>11 DEF ApiInv
\* An object keeps its place, or is gone and has none.
Leaves(o, st, p) ==
    \/ p = obj[o].place /\ st # "dead" /\ (obj[o].status # "dead" \/ o = Call)
    \/ p = None /\ st = "dead"

\* Object o, which did not run, is refused a call or goes away.
LEMMA Dropping ==
    ASSUME ApiInv, waiting = None, waiting' = None, NEW o \in Objects, ~Running(o), NEW st, NEW p,
           Restated(o, st, p), Reallocated(o, p), st # "ok",
           Leaves(o, st, p),
           UNCHANGED <<app, task, flight>>
    PROVE  ApiInv'
<1> USE DEF Task
<1>1. obj'[o].status = st /\ obj'[o].place = p /\ \A q \in Objects \ {o} : obj'[q] = obj[q]
  BY DEF Restated
<1>2. Shapes'
  BY DEF ApiInv, Shapes, Restated
<1>3. InPlace'
  <2>1. \A j \in Jobs :
            obj'[j].place \in {j, None} /\ (obj'[j].status # "dead" => obj'[j].place = j)
    BY <1>1, PlaceAssumption DEF ApiInv, InPlace, Objects, Leaves
  <2>2. obj'[Call].place \in {Call, None}
    BY <1>1 DEF ApiInv, InPlace, Objects, Leaves
  <2>3. \A h \in Handlers : obj'[h].place \in Heap \cup {None}
                            /\ (obj'[h].status = "dead" => obj'[h].place = None)
    BY <1>1, PlaceAssumption DEF ApiInv, InPlace, Objects, Leaves
  <2> QED  BY <2>1, <2>2, <2>3 DEF InPlace
<1>4. BuffersOwnedOnce'
  <2>1. p # None => \A q \in Objects \ {o} : obj[q].place # p
    BY OneOwner DEF ApiInv, Leaves
  <2> QED  BY <2>1, StayOwned DEF ApiInv
<1>5. Bound'
  <2> SUFFICES ASSUME NEW q \in Objects, obj'[q].status = "ok"
               PROVE  /\ obj'[q].place # None
                      /\ Named(Task(q)'.dsc) = {obj'[q].place}
                      /\ Viable(Task(q)'.dsc, Task(q)'.rec)
                      /\ Filled(Task(q)'.rec) \/ Task(q)'.dsc \in flight'
    BY DEF Bound, Named, Filled
  <2>1. q # o /\ obj'[q] = obj[q] /\ obj[q].status = "ok"
    BY <1>1
  <2> QED  BY <2>1 DEF ApiInv, Bound
<1>6. Aimed'
  <2> SUFFICES ASSUME NEW e \in flight
               PROVE  \E q \in Objects : /\ obj'[q].status = "ok" /\ Task(q)'.dsc = e
                                         /\ Task(q)'.rec = Blank
    BY DEF Aimed
  <2>1. PICK q \in Objects \ {o} :
            obj[q].status = "ok" /\ Task(q).dsc = e /\ Task(q).rec = Blank
    BY OthersRun
  <2>2. obj'[q] = obj[q]
    BY <1>1
  <2> QED  BY <2>1, <2>2
<1>7. Waits'
  <2>1. Call # None /\ Call \in Objects
    BY PlaceAssumption DEF Objects
  <2>2. ~(obj[Call].status = "ok" /\ Task(Call).dsc \in flight)
    BY <2>1 DEF ApiInv, Waits
  <2>3. ~(obj'[Call].status = "ok" /\ Task(Call)'.dsc \in flight')
    BY <1>1, <2>1, <2>2
  <2> QED  BY <2>3 DEF Waits
<1>8. task'[Temporary].rec = Blank
  BY DEF ApiInv
<1> QED  BY <1>2, <1>3, <1>4, <1>5, <1>6, <1>7, <1>8 DEF ApiInv

\* Nobody stops to wait, unless it is for o.
StillWaits(o) == waiting' = waiting \/ (waiting = o /\ waiting' = None)

\* The record of object o is filled in, or filled in again and its descriptor
\* with it, and what the accelerator has left to do is the rest.
LEMMA Filling ==
    ASSUME ApiInv, NEW o \in Objects, obj[o].status = "ok", NEW d, NEW r,
           Named(d) = Named(Task(o).dsc), Viable(d, r), Filled(r),
           Retasked(obj[o].place, d, r), flight' = flight \ {Task(o).dsc},
           UNCHANGED <<app, obj, allocated>>,
           StillWaits(o)
    PROVE  ApiInv'
<1> USE DEF Task
<1> DEFINE p == obj[o].place
<1>1. p \in Places \ {Temporary} /\ p # None /\ Named(Task(o).dsc) = {p}
  BY OwnPlace DEF ApiInv, Bound
<1>2. task'[p].dsc = d /\ task'[p].rec = r /\ \A q \in Places \ {p} : task'[q] = task[q]
  BY DEF Retasked
<1>3. ASSUME NEW q \in Objects \ {o}, obj[q].status = "ok"
      PROVE  Task(q)' = Task(q) /\ Task(q).dsc # Task(o).dsc
  <2>1. obj[q].place # None /\ Named(Task(q).dsc) = {obj[q].place}
    BY <1>3 DEF ApiInv, Bound
  <2>2. obj[q].place \in Places \ {p}
    BY <2>1, OneOwner DEF ApiInv
  <2> QED  BY <1>1, <1>2, <2>1, <2>2
<1>4. Task(o)'.dsc = d /\ Task(o)'.rec = r
  BY <1>2
<1>5. Shapes'
  BY DEF ApiInv, Shapes, Retasked
<1>6. InPlace' /\ BuffersOwnedOnce'
  BY DEF ApiInv, InPlace, BuffersOwnedOnce
<1>7. Bound'
  <2> SUFFICES ASSUME NEW q \in Objects, obj[q].status = "ok"
               PROVE  /\ obj[q].place # None
                      /\ Named(Task(q)'.dsc) = {obj[q].place}
                      /\ Viable(Task(q)'.dsc, Task(q)'.rec)
                      /\ Filled(Task(q)'.rec) \/ Task(q)'.dsc \in flight'
    BY DEF Bound, Named, Filled
  <2>1. CASE q = o
    BY <1>1, <1>4, <2>1 DEF ApiInv, Bound
  <2>2. CASE q # o
    BY <1>3, <2>2 DEF ApiInv, Bound
  <2> QED  BY <2>1, <2>2
<1>8. Aimed'
  <2> SUFFICES ASSUME NEW e \in flight'
               PROVE  \E q \in Objects : /\ obj[q].status = "ok" /\ Task(q)'.dsc = e
                                         /\ Task(q)'.rec = Blank
    BY DEF Aimed
  <2>1. PICK q \in Objects : obj[q].status = "ok" /\ Task(q).dsc = e /\ Task(q).rec = Blank
    BY DEF ApiInv, Aimed
  <2>2. q # o
    BY <2>1
  <2> QED  BY <1>3, <2>1, <2>2
<1>9. Waits'
  <2>1. Call \in Objects /\ Call # None
    BY PlaceAssumption DEF Objects
  <2>2. waiting' \in Objects \cup {None} /\ (waiting' # None => obj'[waiting'].status = "ok")
    BY DEF ApiInv, Waits, StillWaits
  <2>3. ASSUME waiting' # Call, obj[Call].status = "ok", Task(Call)'.dsc \in flight' PROVE FALSE
    <3>1. CASE Call = o
      <4>1. d \in flight /\ d # Task(o).dsc /\ p \in Named(d)
        BY <1>1, <1>4, <2>3, <3>1
      <4> QED  BY <1>1, <4>1, FlightOwner
    <3>2. CASE Call # o
      <4>1. Task(Call)' = Task(Call) /\ waiting # Call
        BY <1>3, <2>1, <2>3, <3>2 DEF StillWaits
      <4> QED  BY <2>3, <4>1 DEF ApiInv, Waits
    <3> QED  BY <3>1, <3>2
  <2> QED  BY <2>2, <2>3 DEF Waits
<1>10. task'[Temporary].rec = Blank
  BY <1>1, <1>2, PlaceAssumption DEF ApiInv, Places
<1> QED  BY <1>5, <1>6, <1>7, <1>8, <1>9, <1>10 DEF ApiInv

\* The source of a move has what the target had, or nothing.
LeftWith(g, h) == obj'[h] = obj[g] \/ (obj[g].status = "dead" /\ obj'[h].status = "error")

\* What handler h had goes to g, and what g had, which is nothing or a task, to
\* h.
LEMMA Moving ==
    ASSUME ApiInv, waiting = None, NEW g \in Handlers, NEW h \in Handlers, g # h,
           DOMAIN obj' = Objects, obj'[g] = obj[h],
           DOMAIN obj'[h] = {"status", "path", "place"}, obj'[h].path \in Routes,
           obj'[h].place = obj[g].place,
           LeftWith(g, h),
           \A q \in Objects \ {g, h} : obj'[q] = obj[q],
           UNCHANGED <<app, task, allocated, flight, waiting>>
    PROVE  ApiInv'
<1> USE DEF Task, LeftWith
<1>1. g \in Objects /\ h \in Objects /\ Call \in Objects
      /\ g \notin Jobs /\ h \notin Jobs /\ g # Call /\ h # Call
  BY PlaceAssumption DEF Objects
<1>2. Shapes'
  BY <1>1 DEF ApiInv, Shapes
<1>3. InPlace'
  <2>1. \A q \in Jobs \cup {Call} : obj'[q] = obj[q]
    BY <1>1 DEF Objects
  <2>2. \A k \in Handlers : obj'[k].place \in Heap \cup {None}
                            /\ (obj'[k].status = "dead" => obj'[k].place = None)
    BY DEF ApiInv, InPlace, Objects
  <2> QED  BY <2>1, <2>2 DEF ApiInv, InPlace
<1> DEFINE from(k) == IF k = g THEN h ELSE IF k = h THEN g ELSE k
<1>4. \A k \in Handlers : from(k) \in Handlers /\ obj'[k].place = obj[from(k)].place
                          /\ from(from(k)) = k
  BY DEF Objects
<1>5. BuffersOwnedOnce'
  <2> HIDE DEF from
  <2>1. \A a, b \in Handlers : a # b /\ obj'[a].place # None => obj'[a].place # obj'[b].place
    <3> SUFFICES ASSUME NEW a \in Handlers, NEW b \in Handlers, a # b, obj'[a].place # None
                 PROVE  obj'[a].place # obj'[b].place
      OBVIOUS
    <3>1. from(a) # from(b) /\ from(a) \in Handlers /\ from(b) \in Handlers
      BY <1>4
    <3> QED  BY <1>4, <3>1 DEF ApiInv, BuffersOwnedOnce
  <2>2. {obj'[k].place : k \in Handlers} = {obj[k].place : k \in Handlers}
    <3>1. \A b \in {obj'[k].place : k \in Handlers} : b \in {obj[k].place : k \in Handlers}
      BY <1>4
    <3>2. \A b \in {obj[k].place : k \in Handlers} : b \in {obj'[k].place : k \in Handlers}
      <4> SUFFICES ASSUME NEW k \in Handlers
                   PROVE  obj[k].place \in {obj'[m].place : m \in Handlers}
        OBVIOUS
      <4>1. from(k) \in Handlers /\ obj'[from(k)].place = obj[k].place
        BY <1>4
      <4> QED  BY <4>1
    <3> QED  BY <3>1, <3>2
  <2> QED  BY <2>1, <2>2 DEF ApiInv, BuffersOwnedOnce
<1>6. ASSUME NEW q \in Objects, obj'[q].status = "ok"
      PROVE  \E k \in Objects : obj'[q] = obj[k]
  <2>1. CASE q = g
    BY <1>1, <2>1
  <2>2. CASE q = h
    BY <1>1, <1>6, <2>2
  <2>3. CASE q \notin {g, h}
    BY <2>3
  <2> QED  BY <2>1, <2>2, <2>3
<1>7. Bound'
  <2> SUFFICES ASSUME NEW q \in Objects, obj'[q].status = "ok"
               PROVE  /\ obj'[q].place # None
                      /\ Named(task[obj'[q].place].dsc) = {obj'[q].place}
                      /\ Viable(task[obj'[q].place].dsc, task[obj'[q].place].rec)
                      /\ Filled(task[obj'[q].place].rec) \/ task[obj'[q].place].dsc \in flight
    BY DEF Bound, Named, Filled
  <2>1. PICK k \in Objects : obj'[q] = obj[k]
    BY <1>6
  <2> QED  BY <2>1 DEF ApiInv, Bound
<1>8. Aimed'
  <2> SUFFICES ASSUME NEW e \in flight
               PROVE  \E q \in Objects : /\ obj'[q].status = "ok" /\ task[obj'[q].place].dsc = e
                                         /\ task[obj'[q].place].rec = Blank
    BY DEF Aimed
  <2>1. PICK q \in Objects : obj[q].status = "ok" /\ Task(q).dsc = e /\ Task(q).rec = Blank
    BY DEF ApiInv, Aimed
  <2>2. CASE q = g
    <3>1. obj'[h] = obj[g]
      BY <2>1, <2>2
    <3> QED  BY <1>1, <2>1, <2>2, <3>1
  <2>3. CASE q = h
    BY <1>1, <2>1, <2>3
  <2>4. CASE q \notin {g, h}
    BY <2>1, <2>4
  <2> QED  BY <2>2, <2>3, <2>4
<1>9. Waits'
  <2>1. obj'[Call] = obj[Call]
    BY <1>1
  <2> QED  BY <2>1 DEF ApiInv, Waits
<1>10. task'[Temporary].rec = Blank
  BY DEF ApiInv
<1> QED  BY <1>2, <1>3, <1>5, <1>7, <1>8, <1>9, <1>10 DEF ApiInv
-----------------------------------------------------------------------------
(* Steps. *)

\* What came of offering descriptor d, bound to place p, to the devices of a path.
Offer(p, d, path, status, r) ==
    /\ Retasked(p, d, r)
    /\ status \in Statuses
    /\ \A e \in flight : e \in flight'
    /\ \A e \in flight' : e \in flight \/ (e = d /\ status = "success" /\ r = Blank)
    /\ status = "success" =>
            /\ validate(d) = "success" /\ Viable(d, r) /\ (Filled(r) \/ d \in flight')
            /\ \/ r = Blank /\ path # "software"
               \/ \E x \in KernelWrites(Seen(d)) : r = PutAll(Blank, RecordView[OperationOf(d)], x)

\* A task that is written, all zeros but for its descriptor.
LEMMA Rewritten ==
    ASSUME Shapes, NEW p \in Places, NEW d, NEW r,
           task' = [task EXCEPT ![p] = [dsc |-> d, rec |-> r]]
    PROVE  Retasked(p, d, r)
  BY DEF Shapes, Retasked

\* ml::submit, by whichever device the descriptor is taken, or by none.
LEMMA Offering ==
    ASSUME Shapes, NEW p \in Places, NEW d, Named(d) = {p}, Bindable(d), NEW path \in Routes,
           NEW s \in ml_submit(d, path),
           Offered([task EXCEPT ![p] = [dsc |-> d, rec |-> Blank]], d, s.taker)
    PROVE  \E r : Offer(p, d, path, s.status, r)
<1> DEFINE tasks == [task EXCEPT ![p] = [dsc |-> d, rec |-> Blank]]
<1>1. CASE validate(d) # "success"
  <2>1. s.status = validate(d) /\ s.taker = "nobody"
    BY <1>1 DEF ml_submit
  <2>2. task' = tasks /\ flight' = flight
    BY <2>1 DEF Offered
  <2>3. Retasked(p, d, Blank)
    BY <2>2, Rewritten
  <2> QED  BY <1>1, <2>1, <2>2, <2>3, ValidateAnswers DEF Offer
<1>2. CASE validate(d) = "success"
  <2>0. Viable(d, Blank)
    BY <1>2, ValidViable
  <2>1. \/ s.taker = "software" /\ s.status = "success"
        \/ s.taker = "accelerator" /\ s.status = "success" /\ path # "software"
        \/ s.taker = "nobody" /\ s.status \in {"failure", "queue_busy"}
    BY <1>2 DEF ml_submit, Takers, Routes
  <2>2. CASE s.taker = "software" /\ s.status = "success"
    <3>1. PICK x \in KernelWrites(Seen(d)) : task' = Completed(tasks, d, x)
      BY <2>2 DEF Offered
    <3>2. flight' = flight
      BY <2>2 DEF Offered
    <3> DEFINE r == PutAll(Blank, RecordView[OperationOf(d)], x)
    <3>3. Filled(r) /\ Viable(d, r)
      BY <2>0, WriteViable
    <3> HIDE DEF r
    <3>0. tasks[p].rec = Blank
      BY DEF Shapes
    <3>4. task' = [q \in Places |-> IF q = p THEN [tasks[q] EXCEPT !.rec = r] ELSE tasks[q]]
      BY <3>0, <3>1 DEF Completed, r
    <3>5. Retasked(p, d, r)
      BY <3>4 DEF Shapes, Retasked
    <3> QED  BY <1>2, <2>2, <3>2, <3>3, <3>5 DEF Offer, Statuses, r
  <2>3. CASE s.taker = "accelerator" /\ s.status = "success" /\ path # "software"
    <3>1. task' = tasks /\ flight' = flight \cup {d}
      BY <2>3 DEF Offered
    <3>2. Retasked(p, d, Blank)
      BY <3>1, Rewritten
    <3> QED  BY <1>2, <2>0, <2>3, <3>1, <3>2 DEF Offer, Statuses
  <2>4. CASE s.taker = "nobody" /\ s.status \in {"failure", "queue_busy"}
    <3>1. task' = tasks /\ flight' = flight
      BY <2>4 DEF Offered
    <3>2. Retasked(p, d, Blank)
      BY <3>1, Rewritten
    <3> QED  BY <2>4, <3>1, <3>2 DEF Offer, Statuses
  <2> QED  BY <2>1, <2>2, <2>3, <2>4
<1> QED  BY <1>1, <1>2

\* The accelerator completes what it took.
LEMMA FinishKeeps ==
    ASSUME ApiInv, NEW dsc \in flight, Finish(dsc)
    PROVE  ApiInv'
<1>1. PICK o \in Objects : obj[o].status = "ok" /\ Task(o).dsc = dsc /\ Task(o).rec = Blank
  BY DEF ApiInv, Aimed
<1>2. /\ obj[o].place # None /\ Named(dsc) = {obj[o].place} /\ Viable(dsc, Blank)
      /\ obj[o].place \in Places
  BY <1>1, OwnPlace DEF ApiInv, Bound
<1>3. PICK x \in AcceleratorWrites(Seen(dsc)) : task' = Completed(task, dsc, x)
  BY DEF Finish
<1> DEFINE r == PutAll(Blank, RecordView[OperationOf(dsc)], x)
<1>4. Filled(r) /\ Viable(dsc, r)
  BY <1>2, WriteViable
<1> HIDE DEF r
<1>5. task' = [q \in Places |-> IF q = obj[o].place THEN [task[q] EXCEPT !.rec = r] ELSE task[q]]
  BY <1>1, <1>2, <1>3 DEF Completed, Task, r
<1>6. Retasked(obj[o].place, Task(o).dsc, r)
  BY <1>2, <1>5 DEF ApiInv, Shapes, Retasked, Task
<1>7. flight' = flight \ {Task(o).dsc} /\ UNCHANGED <<app, obj, allocated>> /\ StillWaits(o)
  BY <1>1 DEF Finish, StillWaits
<1> QED  BY <1>1, <1>4, <1>6, <1>7, Filling

\* What is left of a task when its result is asked for.
LEMMA ResolvedViable ==
    ASSUME ApiInv, NEW o \in Objects, obj[o].status = "ok", Finished(o), NEW t \in Resolved(o)
    PROVE  /\ obj[o].place \in Places /\ Filled(Task(o).rec)
           /\ Viable(Task(o).dsc, Task(o).rec) /\ Named(Task(o).dsc) = {obj[o].place}
           /\ Viable(t.dsc, t.rec) /\ Filled(t.rec) /\ DOMAIN t = {"dsc", "rec"}
           /\ Named(t.dsc) = Named(Task(o).dsc) /\ OperationOf(t.dsc) = OperationOf(Task(o).dsc)
<1>1. /\ obj[o].place # None /\ Named(Task(o).dsc) = {obj[o].place}
      /\ Viable(Task(o).dsc, Task(o).rec) /\ obj[o].place \in Places
  BY OwnPlace DEF ApiInv, Bound
<1>2. Filled(Task(o).rec)
  BY <1>1 DEF Finished, Filled, Task
<1>3. DOMAIN Task(o) = {"dsc", "rec"}
  BY <1>1 DEF ApiInv, Shapes, Task
<1>4. CASE t = Task(o)
  BY <1>1, <1>2, <1>3, <1>4
<1>5. CASE t \in Continued(Task(o))
  BY <1>1, <1>2, <1>5, ContinuedViable
<1> QED  BY <1>4, <1>5 DEF Resolved

\* Asking for the result of an object whose record is filled in.
LEMMA ResolveKeeps ==
    ASSUME ApiInv, NEW o \in Objects, obj[o].status = "ok", Finished(o),
           NEW t \in Resolved(o), Resolve(o, t), UNCHANGED <<app, obj, allocated, flight>>,
           StillWaits(o)
    PROVE  ApiInv'
<1>1. /\ obj[o].place \in Places /\ Filled(Task(o).rec)
      /\ Viable(t.dsc, t.rec) /\ Filled(t.rec) /\ DOMAIN t = {"dsc", "rec"}
      /\ Named(t.dsc) = Named(Task(o).dsc)
  BY ResolvedViable
<1>2. Retasked(obj[o].place, t.dsc, t.rec)
  BY <1>1 DEF Resolve, ApiInv, Shapes, Retasked
<1>3. flight' = flight \ {Task(o).dsc}
  BY <1>1, FilledEnds
<1> QED  BY <1>1, <1>2, <1>3, Filling

\* The end of a wait.
LEMMA ReturnKeeps == ApiInv /\ Return => ApiInv'
<1> SUFFICES ASSUME ApiInv, Return PROVE ApiInv'
  OBVIOUS
<1> DEFINE o == waiting
<1>1. o \in Objects /\ obj[o].status = "ok" /\ Finished(o)
  BY DEF Return, ApiInv, Waits
<1>2. PICK t \in Resolved(o) : Resolve(o, t)
  BY DEF Return
<1>3. UNCHANGED <<app, obj, allocated, flight>> /\ StillWaits(o)
  BY DEF Return, StillWaits
<1> HIDE DEF o
<1> QED  BY <1>1, <1>2, <1>3, ResolveKeeps

\* dml_check_job and handler::is_finished.
LEMMA LookKeeps ==
    ASSUME ApiInv, NEW o \in Objects, CheckJob(o) \/ IsFinished(o)
    PROVE  ApiInv'
<1>1. /\ obj[o].status = "ok" /\ Finished(o)
      /\ UNCHANGED <<app, obj, allocated, flight>> /\ StillWaits(o)
  BY DEF CheckJob, IsFinished, StillWaits
<1>2. PICK t \in Resolved(o) : Resolve(o, t)
  BY DEF CheckJob, IsFinished
<1> QED  BY <1>1, <1>2, ResolveKeeps

\* A wait begins.
LEMMA WaitKeeps ==
    ASSUME ApiInv, NEW o \in Objects, WaitJob(o) \/ GetResult(o)
    PROVE  ApiInv'
<1>1. /\ obj[o].status = "ok" /\ waiting = None /\ waiting' = o
      /\ UNCHANGED <<app, obj, task, allocated, flight>>
  BY DEF WaitJob, GetResult, Free
<1>2. Call # None
  BY PlaceAssumption DEF Objects
<1>3. Waits'
  BY <1>1, <1>2 DEF ApiInv, Waits, Task
<1>4. Shapes' /\ InPlace' /\ BuffersOwnedOnce'
  BY <1>1 DEF ApiInv, Shapes, InPlace, BuffersOwnedOnce
<1>5. Bound'
  BY <1>1 DEF ApiInv, Bound, Task, Named, Filled
<1>6. Aimed'
  BY <1>1 DEF ApiInv, Aimed, Task
<1>7. (task[Temporary].rec = Blank)'
  BY <1>1 DEF ApiInv
<1> QED  BY <1>3, <1>4, <1>5, <1>6, <1>7 DEF ApiInv
\* There is a buffer for one more task than there are handlers.
LEMMA FreshBuffer ==
    ASSUME ApiInv
    PROVE  /\ Fresh \in Heap /\ Fresh \notin allocated
           /\ \A q \in Objects : obj[q].place # Fresh
           /\ Fresh \in Places \ {Temporary} /\ Fresh # None
<1> DEFINE places == {obj[h].place : h \in Handlers}
<1>1. IsFiniteSet(places) /\ Cardinality(places) <= Cardinality(Handlers)
  <2> DEFINE f == [h \in Handlers |-> obj[h].place]
  <2>1. f \in Surjection(Handlers, places)
    BY DEF Surjection
  <2> QED  BY <2>1, FS_Surjection, PlaceAssumption
<1>2. \E p \in Heap : p \notin allocated
  <2> SUFFICES ASSUME Heap \subseteq allocated PROVE FALSE
    OBVIOUS
  <2>1. Heap \subseteq places
    BY DEF ApiInv, BuffersOwnedOnce
  <2>2. Cardinality(Heap) <= Cardinality(places)
    BY <1>1, <2>1, FS_Subset
  <2>3. /\ Cardinality(Heap) \in Nat /\ Cardinality(places) \in Nat
        /\ Cardinality(Handlers) \in Nat
    BY <1>1, FS_CardinalityType, PlaceAssumption
  <2> QED  BY <1>1, <2>2, <2>3, PlaceAssumption
<1>3. Fresh \in Heap /\ Fresh \notin allocated
  BY <1>2 DEF Fresh
<1>4. Fresh \in Places \ {Temporary} /\ Fresh # None
  BY <1>3, PlaceAssumption DEF Places
<1>5. ASSUME NEW q \in Objects PROVE obj[q].place # Fresh
  <2>1. CASE q \in Handlers
    BY <1>3, <1>4, <2>1 DEF ApiInv, BuffersOwnedOnce
  <2>2. CASE q \in Jobs
    BY <1>3, <1>4, <2>2, PlaceAssumption DEF ApiInv, InPlace
  <2>3. CASE q = Call
    BY <1>3, <1>4, <2>3, PlaceAssumption DEF ApiInv, InPlace
  <2> QED  BY <2>1, <2>2, <2>3 DEF Objects
<1> QED  BY <1>3, <1>4, <1>5
\* A job that is made again while it does not run.
LEMMA InitJobKeeps ==
    ASSUME ApiInv, NEW j \in Jobs, NEW path \in app.paths, InitJob(j, path)
    PROVE  ApiInv'
<1>1. j \in Objects /\ j \in Places \ {Temporary} /\ j \notin Handlers /\ j # Call /\ j # None
  BY PlaceAssumption DEF Objects, Places
<1>2. path \in Routes
  BY ApplicationAssumption DEF ApiInv, Shapes, Routes
<1>3. /\ waiting = None /\ waiting' = None /\ ~Running(j) /\ app' = app
      /\ allocated' = allocated /\ flight' = flight
  BY DEF InitJob, Step, Free
<1>4. Restated(j, "idle", j)
  BY <1>1, <1>2 DEF InitJob, ApiInv, Shapes, Restated
<1>5. task' = [task EXCEPT ![j] = [dsc |-> Blank, rec |-> Blank]]
  BY DEF InitJob, BlankTask
<1>6. Retasked(j, Blank, Blank)
  BY <1>1, <1>5, Rewritten DEF ApiInv
<1>7. Reallocated(j, j)
  BY <1>1, <1>3 DEF Reallocated
<1>8. \A q \in Objects \ {j} : obj[q].place # j
  BY <1>1, PlaceAssumption DEF ApiInv, InPlace, Objects
<1> QED  BY <1>1, <1>3, <1>4, <1>6, <1>7, <1>8, Landing

\* What both ways to submit a job do, whatever is in it.
LEMMA SubmitKeeps ==
    ASSUME ApiInv, NEW j \in Jobs, NEW fields, NEW want, NEW mode, Free, ~Running(j),
           obj[j].status # "dead", Submit(j, fields, want, mode), UNCHANGED <<app, allocated>>
    PROVE  ApiInv'
<1>1. j \in Objects /\ j \in Places \ {Temporary} /\ j \notin Handlers /\ j # Call /\ j # None
  BY PlaceAssumption DEF Objects, Places
<1>2. obj[j].place = j /\ obj[j].path \in Routes /\ waiting = None
  BY <1>1 DEF ApiInv, InPlace, Shapes, Free
<1>3. \A q \in Objects \ {j} : obj[q].place # j
  BY <1>1, PlaceAssumption DEF ApiInv, InPlace, Objects
<1>4. Reallocated(j, j)
  BY <1>1 DEF Reallocated
<1>5. CASE range_check(fields) # "ok"
  <2> DEFINE st == range_check(fields)
  <2>1. st # "ok" /\ st # "dead"
    BY <1>5, RangeAnswers
  <2>2. obj' = [obj EXCEPT ![j].status = st] /\ UNCHANGED <<task, flight, waiting>>
    BY <1>5 DEF Submit
  <2> HIDE DEF st
  <2>3. Restated(j, st, j)
    BY <1>1, <1>2, <2>2 DEF ApiInv, Shapes, Restated
  <2>4. Leaves(j, st, j)
    BY <1>2, <2>1 DEF Leaves
  <2>5. UNCHANGED <<app, task, flight>> /\ waiting' = None
    BY <1>2, <2>2
  <2> QED  BY <1>1, <1>2, <1>4, <2>1, <2>3, <2>4, <2>5, Dropping
<1>6. CASE range_check(fields) = "ok"
  <2> DEFINE checked == clear_copy_only(fields)
             made == make_task(checked)
             tmp == rebind(made, Address[Temporary])
             dsc == MoveTask(tmp, j)
  <2>1. PICK s \in ml_submit(dsc, obj[j].path) :
            /\ Offered([task EXCEPT ![j] = [dsc |-> dsc, rec |-> Blank]], dsc, s.taker)
            /\ obj' = [obj EXCEPT ![j].status = IF s.status = "success" THEN "ok" ELSE s.status]
            /\ waiting' = IF s.status = "success" /\ mode = "execute" THEN j ELSE None
    BY <1>6 DEF Submit
  <2>2. Named(dsc) = {j} /\ Bindable(dsc)
    <3>1. Bindable(made) /\ Temporary \in Places
      BY TaskBindable DEF Places
    <3> HIDE DEF made
    <3>2. Bindable(tmp)
      BY <3>1, Rebound
    <3> HIDE DEF tmp
    <3> QED  BY <1>1, <3>2, Rebound DEF MoveTask
  <2> HIDE DEF dsc
  <2>3. PICK r : Offer(j, dsc, obj[j].path, s.status, r)
    BY <1>1, <1>2, <2>1, <2>2, Offering DEF ApiInv
  <2> DEFINE st == IF s.status = "success" THEN "ok" ELSE s.status
  <2>4. st # "dead" /\ (st = "ok" <=> s.status = "success")
    BY <2>3 DEF Offer, Statuses, Refusals
  <2>5. Restated(j, st, j)
    BY <1>1, <1>2, <2>1 DEF ApiInv, Shapes, Restated
  <2> HIDE DEF st
  <2>6. /\ Retasked(j, dsc, r)
        /\ \A e \in flight : e \in flight'
        /\ \A e \in flight' : e \in flight \/ (e = dsc /\ st = "ok" /\ r = Blank)
        /\ st = "ok" => Named(dsc) = {j} /\ Viable(dsc, r)
                        /\ (Filled(r) \/ dsc \in flight')
    BY <2>2, <2>3, <2>4 DEF Offer
  <2>7. waiting' = None \/ (waiting' = j /\ st = "ok")
    BY <2>1, <2>4
  <2> QED  BY <1>1, <1>2, <1>3, <1>4, <2>4, <2>5, <2>6, <2>7, Landing
<1> QED  BY <1>5, <1>6

\* dml_finalize_job: the task goes, its place stays with the job.
LEMMA FinalizeKeeps ==
    ASSUME ApiInv, NEW j \in Jobs, FinalizeJob(j)
    PROVE  ApiInv'
<1>1. j \in Objects /\ j \notin Handlers /\ j # None
  BY PlaceAssumption DEF Objects, Places
<1>2. /\ waiting = None /\ waiting' = None /\ ~Running(j)
      /\ UNCHANGED <<app, task, flight>> /\ allocated' = allocated
  BY DEF FinalizeJob, Step, Free
<1>3. Restated(j, "dead", None)
  BY <1>1 DEF FinalizeJob, ApiInv, Shapes, Restated, Dead, Routes
<1>4. Reallocated(j, None)
  BY <1>1, <1>2 DEF Reallocated
<1>5. Leaves(j, "dead", None)
  BY DEF Leaves
<1> QED  BY <1>1, <1>2, <1>3, <1>4, <1>5, Dropping
\* handler(): a buffer of its own with an empty task.
LEMMA DefaultKeeps ==
    ASSUME ApiInv, NEW h \in Handlers, Default(h)
    PROVE  ApiInv'
<1> DEFINE p == Fresh
<1>1. h \in Objects /\ h \notin Jobs /\ h # Call
  BY PlaceAssumption DEF Objects
<1>2. /\ p \in Heap /\ p \notin allocated /\ (\A q \in Objects : obj[q].place # p)
      /\ p \in Places \ {Temporary} /\ p # None
  BY FreshBuffer
<1>3. /\ waiting = None /\ waiting' = None /\ app' = app /\ flight' = flight
      /\ obj[h].status = "dead" /\ allocated' = allocated \cup {p}
  BY DEF Default, Step, Free
<1>4. obj[h].place = None
  BY <1>3 DEF ApiInv, InPlace
<1>5. ~Running(h)
  BY <1>4 DEF Running
<1>6. task' = [task EXCEPT ![p] = [dsc |-> Blank, rec |-> Blank]]
  BY DEF Default, BlankTask
<1>7. obj' = [obj EXCEPT ![h] = [status |-> "error", path |-> "software", place |-> p]]
  BY DEF Default, DefaultHandler
<1> HIDE DEF p
<1>8. Restated(h, "error", p)
  BY <1>1, <1>7 DEF ApiInv, Shapes, Restated, Routes
<1>9. Retasked(p, Blank, Blank)
  BY <1>2, <1>6, Rewritten DEF ApiInv
<1>10. Reallocated(h, p)
  <2>1. None \notin allocated
    BY DEF ApiInv, BuffersOwnedOnce
  <2> QED  BY <1>2, <1>3, <1>4, <2>1 DEF Reallocated
<1> QED  BY <1>1, <1>2, <1>3, <1>5, <1>8, <1>9, <1>10, Landing

\* dml::submit into a handler: a new buffer, and the old one is freed.
LEMMA SubmitCallKeeps ==
    ASSUME ApiInv, app.api = "hl", NEW h \in Handlers, NEW path \in app.paths, SubmitCall(h, path)
    PROVE  ApiInv'
<1> DEFINE p == Fresh
<1>1. h \in Objects /\ h \notin Jobs /\ h # Call
  BY PlaceAssumption DEF Objects
<1>2. /\ p \in Heap /\ p \notin allocated /\ (\A q \in Objects : obj[q].place # p)
      /\ p \in Places \ {Temporary} /\ p # None
  BY FreshBuffer
<1>3. path \in Routes
  BY ApplicationAssumption DEF ApiInv, Shapes, Routes
<1>4. waiting = None /\ waiting' = None /\ app' = app /\ ~Running(h)
  BY DEF SubmitCall, Step, Free
<1>5. PICK m \in app.requests :
        LET ov == submit_overload(AsCall(m.want, m.op, m.odd))
            dsc == rebind(ov.dsc, Address[p])
            tasks == [task EXCEPT ![p] = [dsc |-> dsc, rec |-> Blank]]
        IN  \E s \in ml_submit(dsc, path) :
              /\ IF ov.check = "ok" THEN Offered(tasks, dsc, s.taker)
                 ELSE task' = tasks /\ UNCHANGED flight
              /\ obj' = [obj EXCEPT ![h] = handler_of(ov, p, path, s)]
              /\ allocated' = (allocated \cup {p}) \ {obj[h].place}
  BY DEF SubmitCall
<1> DEFINE call == AsCall(m.want, m.op, m.odd)
           ov == submit_overload(call)
           dsc == rebind(ov.dsc, Address[p])
           tasks == [task EXCEPT ![p] = [dsc |-> dsc, rec |-> Blank]]
<1>6. PICK s \in ml_submit(dsc, path) :
        /\ IF ov.check = "ok" THEN Offered(tasks, dsc, s.taker)
           ELSE task' = tasks /\ UNCHANGED flight
        /\ obj' = [obj EXCEPT ![h] = handler_of(ov, p, path, s)]
        /\ allocated' = (allocated \cup {p}) \ {obj[h].place}
  BY <1>5
<1>7. Bindable(ov.dsc) /\ ov.check # "dead"
  <2>1. m.op \in DOMAIN OperationObject
    BY ApplicationAssumption, SMTT(60) DEF ApiInv, Shapes
  <2>2. call.op = m.op
    BY DEF AsCall
  <2> HIDE DEF call
  <2> QED  BY <2>1, <2>2, CallBindable
<1> HIDE DEF ov, p
<1>8. Named(dsc) = {p} /\ Bindable(dsc)
  BY <1>2, <1>7, Rebound
<1> HIDE DEF dsc
<1>9. Reallocated(h, p)
  BY <1>2, <1>1, <1>6 DEF Reallocated
<1>10. CASE ov.check = "ok"
  <2>1. PICK r : Offer(p, dsc, path, s.status, r)
    BY <1>2, <1>3, <1>6, <1>8, <1>10, Offering DEF ApiInv
  <2> DEFINE st == IF s.status = "success" THEN "ok" ELSE s.status
  <2>2. st # "dead" /\ (st = "ok" <=> s.status = "success")
    BY <2>1 DEF Offer, Statuses, Refusals
  <2>3. Restated(h, st, p)
    BY <1>1, <1>3, <1>6, <1>10 DEF ApiInv, Shapes, Restated, handler_of, Routes
  <2> HIDE DEF st
  <2>4. /\ Retasked(p, dsc, r)
        /\ \A e \in flight : e \in flight'
        /\ \A e \in flight' : e \in flight \/ (e = dsc /\ st = "ok" /\ r = Blank)
        /\ st = "ok" => Named(dsc) = {p} /\ Viable(dsc, r)
                        /\ (Filled(r) \/ dsc \in flight')
    BY <1>8, <2>1, <2>2 DEF Offer
  <2> QED  BY <1>1, <1>2, <1>4, <1>9, <2>2, <2>3, <2>4, Landing, SMTT(60)
<1>11. CASE ov.check # "ok"
  <2>1. task' = tasks /\ flight' = flight
    BY <1>6, <1>11
  <2>2. Retasked(p, dsc, Blank)
    BY <1>2, <2>1, Rewritten DEF ApiInv
  <2>3. Restated(h, ov.check, p)
    BY <1>1, <1>3, <1>6, <1>11 DEF ApiInv, Shapes, Restated, handler_of, Routes
  <2> QED  BY <1>1, <1>2, <1>4, <1>7, <1>9, <1>11, <2>1, <2>2, <2>3, Landing
<1> QED  BY <1>10, <1>11

\* ~handler(): its buffer is freed, once.
LEMMA DestroyKeeps ==
    ASSUME ApiInv, NEW h \in Handlers, Destroy(h)
    PROVE  ApiInv'
<1>1. h \in Objects /\ h # Call
  BY PlaceAssumption DEF Objects
<1>2. /\ waiting = None /\ waiting' = None /\ ~Running(h)
      /\ UNCHANGED <<app, task, flight>> /\ allocated' = allocated \ {obj[h].place}
  BY DEF Destroy, Step, Free
<1>3. Restated(h, "dead", None)
  BY <1>1 DEF Destroy, ApiInv, Shapes, Restated, Dead, Routes
<1>4. Reallocated(h, None)
  <2>1. None \notin allocated
    BY DEF ApiInv, BuffersOwnedOnce
  <2> QED  BY <1>2, <2>1 DEF Reallocated
<1>5. Leaves(h, "dead", None)
  BY DEF Leaves
<1> QED  BY <1>1, <1>2, <1>3, <1>4, <1>5, Dropping

\* Moves exchange tasks between handlers; what is in flight keeps its owner.
LEMMA MoveKeeps ==
    ASSUME ApiInv, NEW g \in Handlers, NEW h \in Handlers, MoveConstruct(g, h) \/ MoveAssign(g, h)
    PROVE  ApiInv'
<1>1. g \in Objects /\ h \in Objects
  BY DEF Objects
<1>2. waiting = None /\ UNCHANGED <<app, task, allocated, flight, waiting>>
  BY DEF MoveConstruct, MoveAssign, Step, Free
<1>3. g # h
  BY DEF MoveConstruct, MoveAssign
<1>4. /\ DOMAIN obj = Objects
      /\ \A o \in Objects : DOMAIN obj[o] = {"status", "path", "place"} /\ obj[o].path \in Routes
  BY DEF ApiInv, Shapes
<1>5. CASE MoveConstruct(g, h)
  <2>1. obj' = [obj EXCEPT ![g] = obj[h], ![h] = MovedFrom(h)] /\ obj[g].status = "dead"
    BY <1>5 DEF MoveConstruct
  <2>2. obj[g].place = None
    BY <2>1 DEF ApiInv, InPlace
  <2>3. /\ DOMAIN MovedFrom(h) = {"status", "path", "place"} /\ MovedFrom(h).path \in Routes
        /\ MovedFrom(h).place = None /\ MovedFrom(h).status = "error"
    BY <1>1, <1>4 DEF MovedFrom
  <2>4. DOMAIN obj' = Objects /\ obj'[g] = obj[h] /\ obj'[h] = MovedFrom(h)
        /\ \A q \in Objects \ {g, h} : obj'[q] = obj[q]
    BY <1>1, <1>3, <1>4, <2>1
  <2>5. LeftWith(g, h)
    BY <2>1, <2>3, <2>4 DEF LeftWith
  <2> QED  BY <1>2, <1>3, <2>2, <2>3, <2>4, <2>5, Moving
<1>6. CASE MoveAssign(g, h)
  <2>1. obj' = [obj EXCEPT ![g] = obj[h], ![h] = obj[g]]
    BY <1>6 DEF MoveAssign, Swap
  <2>2. DOMAIN obj' = Objects /\ obj'[g] = obj[h] /\ obj'[h] = obj[g]
        /\ \A q \in Objects \ {g, h} : obj'[q] = obj[q]
    BY <1>1, <1>3, <1>4, <2>1
  <2>3. LeftWith(g, h)
    BY <2>2 DEF LeftWith
  <2> QED  BY <1>1, <1>2, <1>3, <1>4, <2>2, <2>3, Moving
<1> QED  BY <1>5, <1>6

\* dml::execute: the task on the stack, which no accelerator still writes to.
LEMMA ExecuteKeeps ==
    ASSUME ApiInv, app.api = "hl", NEW path \in app.paths, Execute(path)
    PROVE  ApiInv'
<1>1. /\ Call \in Objects /\ Call \notin Handlers /\ Call \notin Jobs /\ Call # None
      /\ Call \in Places \ {Temporary}
  BY PlaceAssumption DEF Objects, Places
<1>2. path \in Routes
  BY ApplicationAssumption DEF ApiInv, Shapes, Routes
<1>3. waiting = None /\ app' = app /\ allocated' = allocated
  BY DEF Execute, Step, Free
<1>4. ~Running(Call)
  BY <1>3, CallIdle
<1>5. \A p : Reallocated(Call, p)
  BY <1>1, <1>3 DEF Reallocated
<1>6. \A q \in Objects \ {Call} : obj[q].place # Call
  BY <1>1, PlaceAssumption DEF ApiInv, InPlace, Objects
<1> DEFINE ov(m) == execute_overload(AsCall(m.want, m.op, m.odd))
           bound(m) == rebind(ov(m).dsc, Address[Call])
<1>7. PICK m \in app.requests :
        IF ov(m).check # "ok"
        THEN obj' = [obj EXCEPT ![Call].status = ov(m).check] /\ UNCHANGED <<task, flight, waiting>>
        ELSE \E s \in ml_submit(bound(m), path) :
                /\ Offered([task EXCEPT ![Call] = [dsc |-> bound(m), rec |-> Blank]], bound(m),
                           s.taker)
                /\ obj' = [obj EXCEPT ![Call] =
                        [status |-> IF s.status = "success" THEN "ok"
                                    ELSE IF validate(bound(m)) # "success" THEN s.status ELSE "error",
                         path |-> path, place |-> Call]]
                /\ waiting' = IF s.status = "success" THEN Call ELSE None
  BY DEF Execute
<1> DEFINE call == AsCall(m.want, m.op, m.odd)
           over == ov(m)
           dsc == bound(m)
<1>8. Bindable(over.dsc) /\ over.check # "dead"
  <2>1. m.op \in DOMAIN OperationObject
    BY ApplicationAssumption, SMTT(60) DEF ApiInv, Shapes
  <2>2. call.op = m.op
    BY DEF AsCall
  <2>3. over = submit_overload(call)
    BY DEF execute_overload
  <2> HIDE DEF call, over
  <2> QED  BY <2>1, <2>2, <2>3, CallBindable
<1>9. CASE over.check # "ok"
  <2>1. obj' = [obj EXCEPT ![Call].status = over.check] /\ UNCHANGED <<task, flight, waiting>>
    BY <1>7, <1>9
  <2> HIDE DEF over
  <2>2. Restated(Call, over.check, obj[Call].place)
    BY <1>1, <2>1 DEF ApiInv, Shapes, Restated
  <2>3. Leaves(Call, over.check, obj[Call].place)
    BY <1>8 DEF Leaves
  <2>4. UNCHANGED <<app, task, flight>> /\ waiting' = None
    BY <1>3, <2>1
  <2> QED  BY <1>1, <1>3, <1>4, <1>5, <1>9, <2>2, <2>3, <2>4, Dropping
<1>10. CASE over.check = "ok"
  <2>1. PICK s \in ml_submit(dsc, path) :
            /\ Offered([task EXCEPT ![Call] = [dsc |-> dsc, rec |-> Blank]], dsc, s.taker)
            /\ obj' = [obj EXCEPT ![Call] =
                    [status |-> IF s.status = "success" THEN "ok"
                                ELSE IF validate(dsc) # "success" THEN s.status ELSE "error",
                     path |-> path, place |-> Call]]
            /\ waiting' = IF s.status = "success" THEN Call ELSE None
    BY <1>7, <1>10
  <2>2. dsc = rebind(over.dsc, Address[Call])
    OBVIOUS
  <2> HIDE DEF dsc, over
  <2>3. Named(dsc) = {Call} /\ Bindable(dsc)
    BY <1>1, <1>8, <2>2, Rebound
  <2>4. PICK r : Offer(Call, dsc, path, s.status, r)
    BY <1>1, <1>2, <2>1, <2>3, Offering DEF ApiInv
  <2> DEFINE st == IF s.status = "success" THEN "ok" 
                   ELSE IF validate(dsc) # "success" THEN s.status ELSE "error"
  <2>5. st # "dead" /\ (st = "ok" <=> s.status = "success")
    BY <2>4 DEF Offer, Statuses, Refusals
  <2>6. Restated(Call, st, Call)
    BY <1>1, <1>2, <2>1 DEF ApiInv, Shapes, Restated
  <2> HIDE DEF st
  <2>7. /\ Retasked(Call, dsc, r)
        /\ \A e \in flight : e \in flight'
        /\ \A e \in flight' : e \in flight \/ (e = dsc /\ st = "ok" /\ r = Blank)
        /\ st = "ok" => Named(dsc) = {Call} /\ Viable(dsc, r)
                        /\ (Filled(r) \/ dsc \in flight')
    BY <2>3, <2>4, <2>5 DEF Offer
  <2>8. (waiting' = None \/ (waiting' = Call /\ st = "ok")) /\ (st = "ok" => waiting' = Call)
    BY <2>1, <2>5
  <2> QED  BY <1>1, <1>3, <1>4, <1>5, <1>6, <2>5, <2>6, <2>7, <2>8, Landing
<1> QED  BY <1>9, <1>10
-----------------------------------------------------------------------------
(* Theorems. *)

\* At first there are no objects.
LEMMA InitApi == Init => ApiInv
<1> SUFFICES ASSUME Init PROVE ApiInv
  OBVIOUS
<1>1. \A o \in Objects : obj[o] = [status |-> "dead", path |-> "software", place |-> None]
  BY DEF Init, Dead
<1>2. Shapes
  BY <1>1 DEF Init, Shapes, Routes, BlankTask, Dead
<1>3. InPlace
  BY <1>1 DEF InPlace, Objects
<1>4. BuffersOwnedOnce
  <2>1. \A h \in Handlers : obj[h].place = None
    BY <1>1 DEF Objects
  <2>2. allocated = {}
    BY DEF Init
  <2> QED  BY <2>1, <2>2 DEF BuffersOwnedOnce
<1>5. Bound
  BY <1>1 DEF Bound
<1>6. Aimed
  BY DEF Init, Aimed
<1>7. Waits
  BY DEF Init, Waits
<1>8. task[Temporary].rec = Blank
  BY DEF Init, BlankTask, Places
<1> QED  BY <1>2, <1>3, <1>4, <1>5, <1>6, <1>7, <1>8 DEF ApiInv

\* Every step of the APIs and of the accelerator keeps the invariant.
LEMMA StepApi == ApiInv /\ [Next]_vars => ApiInv'
<1> SUFFICES ASSUME ApiInv, [Next]_vars PROVE ApiInv'
  OBVIOUS
<1>1. CASE JobApi
  <2>1. PICK j \in Jobs :
            \/ \E path \in app.paths : InitJob(j, path)
            \/ \E mode \in {"submit", "execute"} : SubmitJob(j, mode)
            \/ ResubmitJob(j) \/ WaitJob(j) \/ CheckJob(j) \/ FinalizeJob(j)
    BY <1>1 DEF JobApi
  <2>2. CASE \E path \in app.paths : InitJob(j, path)
    BY <2>2, InitJobKeeps
  <2>3. CASE \E mode \in {"submit", "execute"} : SubmitJob(j, mode)
    <3>1. PICK mode \in {"submit", "execute"} : SubmitJob(j, mode)
      BY <2>3
    <3>2. /\ Free /\ obj[j].status # "dead" /\ ~Running(j) /\ UNCHANGED <<app, allocated>>
          /\ \E fields, want : Submit(j, fields, want, mode)
      BY <3>1 DEF SubmitJob, Step
    <3> QED  BY <3>2, SubmitKeeps
  <2>4. CASE ResubmitJob(j)
    <3>1. /\ Free /\ obj[j].status # "dead" /\ ~Running(j) /\ UNCHANGED <<app, allocated>>
          /\ \E fields, want : Submit(j, fields, want, "submit")
      BY <2>4 DEF ResubmitJob, Step
    <3> QED  BY <3>1, SubmitKeeps
  <2>5. CASE WaitJob(j) \/ CheckJob(j)
    BY <2>5, WaitKeeps, LookKeeps DEF Objects
  <2>6. CASE FinalizeJob(j)
    BY <2>6, FinalizeKeeps
  <2> QED  BY <2>1, <2>2, <2>3, <2>4, <2>5, <2>6
<1>2. CASE HighLevelApi
  <2>1. app.api = "hl"
    BY <1>2 DEF HighLevelApi
  <2>2. CASE \E path \in app.paths : Execute(path)
    BY <2>1, <2>2, ExecuteKeeps
  <2>3. CASE \E h \in Handlers :
            \/ \E path \in app.paths : SubmitCall(h, path)
            \/ Default(h) \/ Destroy(h) \/ GetResult(h) \/ IsFinished(h)
            \/ \E g \in Handlers : MoveConstruct(g, h) \/ MoveAssign(g, h)
    <3>1. PICK h \in Handlers :
            \/ \E path \in app.paths : SubmitCall(h, path)
            \/ Default(h) \/ Destroy(h) \/ GetResult(h) \/ IsFinished(h)
            \/ \E g \in Handlers : MoveConstruct(g, h) \/ MoveAssign(g, h)
      BY <2>3
    <3>2. CASE \E path \in app.paths : SubmitCall(h, path)
      BY <2>1, <3>2, SubmitCallKeeps
    <3>3. CASE Default(h) \/ Destroy(h)
      BY <3>3, DefaultKeeps, DestroyKeeps
    <3>4. CASE GetResult(h) \/ IsFinished(h)
      BY <3>4, WaitKeeps, LookKeeps DEF Objects
    <3>5. CASE \E g \in Handlers : MoveConstruct(g, h) \/ MoveAssign(g, h)
      BY <3>5, MoveKeeps
    <3> QED  BY <3>1, <3>2, <3>3, <3>4, <3>5
  <2> QED  BY <1>2, <2>2, <2>3 DEF HighLevelApi
<1>3. CASE Return
  BY <1>3, ReturnKeeps
<1>4. CASE Device
  BY <1>4, FinishKeeps DEF Device
<1>5. CASE UNCHANGED vars
  <2>1. UNCHANGED <<app, obj, task, allocated, flight, waiting>>
    BY <1>5 DEF vars
  <2>2. Shapes' /\ InPlace' /\ BuffersOwnedOnce'
    BY <2>1 DEF ApiInv, Shapes, InPlace, BuffersOwnedOnce
  <2>3. Bound'
    BY <2>1 DEF ApiInv, Bound, Task, Named, Filled
  <2>4. Aimed' /\ Waits'
    BY <2>1 DEF ApiInv, Aimed, Waits, Task
  <2>5. (task[Temporary].rec = Blank)'
    BY <2>1 DEF ApiInv
  <2> QED  BY <2>2, <2>3, <2>4, <2>5 DEF ApiInv
<1> QED  BY <1>1, <1>2, <1>3, <1>4, <1>5 DEF Next

\* The invariant holds in every state that jobs, handlers and blocking calls can
\* be brought to, for any number of them.
THEOREM ApiInvariant == Spec => []ApiInv
  BY InitApi, StepApi, PTL DEF Spec

\* handler: construction, move, assignment, refused submission and destruction
\* free every buffer once and leak none.
THEOREM BuffersAlwaysOwnedOnce == Spec => []BuffersOwnedOnce
<1>1. ApiInv => BuffersOwnedOnce
  BY DEF ApiInv
<1> QED  BY <1>1, ApiInvariant, PTL

\* The accelerator writes into the record of the object that stands for the
\* operation, wherever the handler was moved, and no device into the temporary
\* task that make_task returned.
THEOREM NeverStrayWrite == Spec => []NoStrayWrite
<1>1. ApiInv => NoStrayWrite
  <2> SUFFICES ASSUME ApiInv, NEW dsc \in flight
               PROVE  \E o \in Objects : /\ obj[o].status = "ok"
                                         /\ Named(dsc) = {obj[o].place}
                                         /\ Task(o).dsc = dsc
    BY DEF ApiInv, NoStrayWrite
  <2>1. PICK o \in Objects : obj[o].status = "ok" /\ Task(o).dsc = dsc
    BY DEF ApiInv, Aimed
  <2>2. Named(dsc) = {obj[o].place}
    BY <2>1 DEF ApiInv, Bound
  <2> QED  BY <2>1, <2>2
<1> QED  BY <1>1, ApiInvariant, PTL

\* dml_wait_job, handler::get and execute poll a record that is bound to the task
\* and that was written or is going to be.
THEOREM AlwaysWaitsOnOwnRecord == Spec => []WaitsOnOwnRecord
<1>1. ApiInv => WaitsOnOwnRecord
  <2> SUFFICES ASSUME ApiInv, waiting # None
               PROVE  /\ Named(Task(waiting).dsc) = {obj[waiting].place}
                      /\ Filled(Task(waiting).rec) \/ Running(waiting)
    BY DEF WaitsOnOwnRecord, Filled
  <2>1. waiting \in Objects /\ obj[waiting].status = "ok"
    BY DEF ApiInv, Waits
  <2>2. /\ obj[waiting].place # None /\ Named(Task(waiting).dsc) = {obj[waiting].place}
        /\ Filled(Task(waiting).rec) \/ Task(waiting).dsc \in flight
    BY <2>1 DEF ApiInv, Bound
  <2> QED  BY <2>2 DEF Running
<1> QED  BY <1>1, ApiInvariant, PTL
=============================================================================
