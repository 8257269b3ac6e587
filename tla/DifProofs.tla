------------------------------ MODULE DifProofs ------------------------------
(***************************************************************************)
(* Safety of Dif for every block size, every number of tags, every job and  *)
(* wherever a page fault stops the device: a job that is done in two parts  *)
(* finds what it would have found in one, and what update and insert write  *)
(* passes a check.                                                          *)
(***************************************************************************)
EXTENDS Dif, TLAPS, WellFoundedInduction

-----------------------------------------------------------------------------
(* Numbers. *)

\* Quotient and remainder.
LEMMA Division ==
    ASSUME NEW w \in Nat \ {0}, NEW n \in Int
    PROVE  /\ n = w * (n \div w) + (n % w)
           /\ n \div w \in Int /\ n % w \in 0 .. w - 1
  OBVIOUS

\* Multiplication distributes over differences.
LEMMA Distributes ==
    ASSUME NEW w \in Int, NEW x \in Int, NEW y \in Int
    PROVE  /\ w * x - w * y = w * (x - y)
           /\ w * x + w * y = w * (x + y)
           /\ w * x = x * w /\ w * x \in Int
  OBVIOUS

\* Between -w and w the only multiple of w is 0.
LEMMA NoMultipleBetween ==
    ASSUME NEW w \in Nat \ {0}, NEW k \in Int, NEW a \in 0 .. w - 1, NEW b \in 0 .. w - 1,
           w * k = a - b
    PROVE  k = 0
<1>1. CASE k >= 1
  <2>1. w * k >= w
    BY <1>1
  <2> QED  BY <2>1
<1>2. CASE k <= -1
  <2>1. w * k <= -w
    BY <1>2
  <2> QED  BY <2>1
<1> QED  BY <1>1, <1>2

\* A number has one quotient and one remainder.
LEMMA DivisionUnique ==
    ASSUME NEW w \in Nat \ {0}, NEW q \in Int, NEW r \in 0 .. w - 1
    PROVE  (w * q + r) % w = r /\ (w * q + r) \div w = q
<1> DEFINE n == w * q + r
           q2 == n \div w
           r2 == n % w
           k == q - q2
<1>1. w * q \in Int /\ r \in Int
  OBVIOUS
<1>2. n \in Int
  BY <1>1
<1>3. n = w * q2 + r2 /\ q2 \in Int /\ r2 \in 0 .. w - 1
  <2> HIDE DEF n
  <2> QED  BY <1>2, Division
<1>4. n = w * q + r
  OBVIOUS
<1> HIDE DEF n, q2, r2
<1>5. w * q - w * q2 = w * k /\ k \in Int
  BY <1>1, <1>3, Distributes
<1>6. w * q2 \in Int /\ w * k \in Int
  BY <1>1, <1>3, <1>5
<1>7. w * k = r2 - r
  BY <1>1, <1>3, <1>4, <1>5, <1>6
<1> HIDE DEF k
<1>8. k = 0
  BY <1>1, <1>3, <1>5, <1>7, NoMultipleBetween
<1>9. q2 = q
  BY <1>3, <1>8 DEF k
<1>10. r2 = r
  BY <1>1, <1>3, <1>4, <1>6, <1>9
<1> QED  BY <1>9, <1>10 DEF q2, r2, n

\* Wrapping in between changes nothing.
LEMMA WrapsOnce ==
    ASSUME NEW w \in Nat \ {0}, NEW a \in Int, NEW b \in Int
    PROVE  ((a % w) + b) % w = (a + b) % w
<1> DEFINE q1 == a \div w
           r1 == a % w
           q2 == (r1 + b) \div w
           r2 == (r1 + b) % w
<1>1. a = w * q1 + r1 /\ q1 \in Int /\ r1 \in 0 .. w - 1
  BY Division
<1> HIDE DEF q1, r1
<1>2. r1 + b \in Int
  BY <1>1
<1>3. r1 + b = w * q2 + r2 /\ q2 \in Int /\ r2 \in 0 .. w - 1
  <2> DEFINE c == r1 + b
  <2>1. c \in Int
    BY <1>2
  <2> HIDE DEF c
  <2>2. c = w * (c \div w) + (c % w) /\ c \div w \in Int /\ c % w \in 0 .. w - 1
    BY <2>1, Division
  <2> QED  BY <2>2 DEF c
<1> HIDE DEF q2, r2
<1>4. w * q1 + w * q2 = w * (q1 + q2) /\ w * q1 \in Int /\ w * q2 \in Int
  BY <1>1, <1>3, Distributes
<1>5. a + b = w * (q1 + q2) + r2
  BY <1>1, <1>3, <1>4
<1>6. q1 + q2 \in Int
  BY <1>1, <1>3
<1>7. (w * (q1 + q2) + r2) % w = r2
  <2> DEFINE q == q1 + q2
  <2>1. q \in Int
    BY <1>6
  <2> HIDE DEF q
  <2>2. (w * q + r2) % w = r2
    BY <1>3, <2>1, DivisionUnique
  <2> QED  BY <2>2 DEF q
<1> QED  BY <1>5, <1>7 DEF r2, r1

\* The k-th of n steps of s cells is inside them.
LEMMA InsideSteps ==
    ASSUME NEW s \in Nat \ {0}, NEW n \in Nat, NEW k \in 0 .. n - 1, NEW i \in 0 .. s - 1
    PROVE  /\ k * s + i \in 0 .. n * s - 1
           /\ (k * s + i) \div s = k /\ (k * s + i) % s = i
<1>1. n * s - k * s = (n - k) * s /\ k * s \in Nat /\ n * s \in Nat
  OBVIOUS
<1>2. (n - k) * s >= s
  OBVIOUS
<1>3. k * s + i \in 0 .. n * s - 1
  BY <1>1, <1>2
<1>4. k * s = s * k
  OBVIOUS
<1> QED  BY <1>3, <1>4, DivisionUnique

\* Any cell of n steps belongs to one of them.
LEMMA StepOf ==
    ASSUME NEW s \in Nat \ {0}, NEW n \in Nat, NEW a \in 0 .. n * s - 1
    PROVE  /\ a \div s \in 0 .. n - 1 /\ a % s \in 0 .. s - 1
           /\ a = (a \div s) * s + (a % s)
<1> DEFINE q == a \div s
           r == a % s
<1>1. a = s * q + r /\ q \in Int /\ r \in 0 .. s - 1
  BY Division
<1> HIDE DEF q, r
<1>2. q >= 0
  <2>1. q <= -1 => s * q <= -s
    BY <1>1
  <2> QED  BY <1>1, <2>1
<1>3. q < n
  <2>1. q >= n => s * q >= s * n
    BY <1>1
  <2>2. s * n = n * s /\ s * n \in Int /\ s * q \in Int
    BY <1>1
  <2> QED  BY <1>1, <2>1, <2>2
<1>4. s * q = q * s
  BY <1>1
<1> QED  BY <1>1, <1>2, <1>3, <1>4 DEF q, r

\* n steps of s cells are n steps.
LEMMA CountOfSteps ==
    ASSUME NEW s \in Nat \ {0}, NEW n \in Int
    PROVE  (n * s) \div s = n
<1>1. (s * n + 0) \div s = n
  BY DivisionUnique
<1>2. s * n + 0 = n * s
  OBVIOUS
<1> QED  BY <1>1, <1>2

\* A nonempty set of block numbers has a smallest one.
LEMMA SmallestOfThem ==
    ASSUME NEW T \in SUBSET Nat, T # {}
    PROVE  Min(T) \in T /\ \A y \in T : Min(T) <= y
<1> DEFINE R == {ss \in Nat \X Nat : ss[1] < ss[2]}
<1>1. IsWellFoundedOn(R, Nat)
  BY NatLessThanWellFounded DEF OpToRel
<1>2. PICK x \in T : \A k \in T : ~ (<<k, x>> \in R)
  <2> HIDE DEF R
  <2> QED  BY <1>1, WFMin
<1>3. ASSUME NEW y \in T
      PROVE  x <= y
  <2>1. y \in Nat /\ x \in Nat
    OBVIOUS
  <2>2. y < x => <<y, x>> \in R
    BY <2>1
  <2> QED  BY <1>2, <2>1, <2>2
<1> QED  BY <1>3, Zenon DEF Min

-----------------------------------------------------------------------------
(* Jobs and the pieces they are done in. *)

\* What the assumptions say of a job.
LEMMA JobIs ==
    ASSUME NEW j \in Jobs
    PROVE  /\ BlockSize \in Nat \ {0} /\ Step \in Nat \ {0} /\ BlockSize < Step
           /\ AppTags \in Nat \ {0} /\ RefTags \in Nat \ {0} /\ Size \in Nat
           /\ j.blocks \in Nat \ {0} /\ j.blocks * Step <= Size
           /\ j.op \in {"check", "insert", "strip", "update"}
           /\ SourceStep(j.op) \in Nat \ {0} /\ SourceStep(j.op) <= Step
           /\ DestinationStep(j.op) \in Nat \ {0} /\ DestinationStep(j.op) <= Step
           /\ j.src.app \in 0 .. AppTags - 1 /\ j.dst.app \in 0 .. AppTags - 1
           /\ j.src.ref \in 0 .. RefTags - 1 /\ j.dst.ref \in 0 .. RefTags - 1
<1>1. BlockSize \in Nat \ {0} /\ AppTags \in Nat \ {0} /\ RefTags \in Nat \ {0} /\ Size \in Nat
  BY SizeAssumption
<1> QED  BY <1>1, JobAssumption DEF SourceStep, DestinationStep, Step

\* Counting on from a tag that has wrapped.
LEMMA WrapsTwice ==
    ASSUME NEW w \in Nat \ {0}, NEW a \in Int, NEW x \in Int, NEW y \in Int
    PROVE  (((a + x) % w) + y) % w = (a + (x + y)) % w
<1> DEFINE b == a + x
<1>1. b \in Int /\ b + y = a + (x + y)
  OBVIOUS
<1> HIDE DEF b
<1>2. ((b % w) + y) % w = (b + y) % w
  BY <1>1, WrapsOnce
<1> QED  BY <1>1, <1>2 DEF b

\* The application tag of block n + k is that of k blocks after the tag of block n.
LEMMA AppTagGoesOn ==
    ASSUME NEW side, NEW app \in Int, NEW n \in Nat, NEW k \in Nat
    PROVE  AppTag(side, AppTag(side, app, n), k) = AppTag(side, app, n + k)
<1> DEFINE up(m) == IF side.inc_app THEN m ELSE 0
<1>1. AppTags \in Nat \ {0}
  BY SizeAssumption
<1>2. up(n) \in Int /\ up(k) \in Int /\ up(n) + up(k) = up(n + k)
  OBVIOUS
<1>3. \A s, m : AppTag(side, s, m) = (s + up(m)) % AppTags
  BY DEF AppTag
<1> HIDE DEF up
<1>4. (((app + up(n)) % AppTags) + up(k)) % AppTags = (app + (up(n) + up(k))) % AppTags
  BY <1>1, <1>2, WrapsTwice
<1> QED  BY <1>2, <1>3, <1>4

\* And so is the reference tag.
LEMMA RefTagGoesOn ==
    ASSUME NEW side, NEW ref \in Int, NEW n \in Nat, NEW k \in Nat
    PROVE  RefTag(side, RefTag(side, ref, n), k) = RefTag(side, ref, n + k)
<1> DEFINE up(m) == IF side.fix_ref THEN 0 ELSE m
<1>1. RefTags \in Nat \ {0}
  BY SizeAssumption
<1>2. up(n) \in Int /\ up(k) \in Int /\ up(n) + up(k) = up(n + k)
  OBVIOUS
<1>3. \A s, m : RefTag(side, s, m) = (s + up(m)) % RefTags
  BY DEF RefTag
<1> HIDE DEF up
<1>4. (((ref + up(n)) % RefTags) + up(k)) % RefTags = (ref + (up(n) + up(k))) % RefTags
  BY <1>1, <1>2, WrapsTwice
<1> QED  BY <1>2, <1>3, <1>4

\* The tags of the first block are the seeds.
LEMMA FirstTags ==
    ASSUME NEW side, NEW app \in 0 .. AppTags - 1, NEW ref \in 0 .. RefTags - 1,
           AppTags \in Nat \ {0}, RefTags \in Nat \ {0}
    PROVE  AppTag(side, app, 0) = app /\ RefTag(side, ref, 0) = ref
  BY DEF AppTag, RefTag

\* The blocks with an error when the job is done in one piece.
Bad(j) == {k \in 0 .. j.blocks - 1 : Errors(j, MakeTask(j), k) # 0}

\* A descriptor of the blocks from n on, as far as checking goes.
ChecksFrom(j, d, n) ==
    /\ d.src = n * Step
    /\ d.src_app = AppTag(j.src, j.src.app, n) /\ d.src_ref = RefTag(j.src, j.src.ref, n)

\* The errors found from block n on are those of the whole job.
LEMMA ErrorsShift ==
    ASSUME NEW j \in Jobs, NEW n \in Nat, NEW d, ChecksFrom(j, d, n), NEW k \in Nat
    PROVE  Errors(j, d, k) = Errors(j, MakeTask(j), n + k)
<1> DEFINE t == MakeTask(j)
<1>1. t.src = 0 /\ t.src_app = j.src.app /\ t.src_ref = j.src.ref
  BY DEF MakeTask
<1>2. /\ Step \in Nat /\ j.src.app \in Int /\ j.src.ref \in Int
  BY JobIs
<1>3. d.src + k * Step = t.src + (n + k) * Step
  BY <1>1, <1>2 DEF ChecksFrom
<1>4. /\ AppTag(j.src, d.src_app, k) = AppTag(j.src, t.src_app, n + k)
      /\ RefTag(j.src, d.src_ref, k) = RefTag(j.src, t.src_ref, n + k)
  <2>1. AppTag(j.src, AppTag(j.src, j.src.app, n), k) = AppTag(j.src, j.src.app, n + k)
    BY <1>2, AppTagGoesOn
  <2>2. RefTag(j.src, RefTag(j.src, j.src.ref, n), k) = RefTag(j.src, j.src.ref, n + k)
    BY <1>2, RefTagGoesOn
  <2> QED  BY <1>1, <2>1, <2>2 DEF ChecksFrom
<1>5. \A b : Field(j, j.src, d.src_app, d.src_ref, b, k) = Field(j, j.src, t.src_app, t.src_ref, b, n + k)
  BY <1>4 DEF Field
<1> HIDE DEF t
<1>6. Errors(j, d, k) = Errors(j, t, n + k)
  BY <1>3, <1>5 DEF Errors
<1> QED  BY <1>6 DEF t

\* What one check of the blocks from n on finds, if those before are good: the
\* first bad block of the job, counted from n.
LEMMA CheckFrom ==
    ASSUME NEW j \in Jobs, NEW n \in 0 .. j.blocks, NEW m \in n .. j.blocks, NEW d,
           ChecksFrom(j, d, n), d.size = (m - n) * Step, \A k \in Bad(j) : n <= k
    PROVE  LET found == dml_legacy_dif_check(j, d)
               bad == {k \in Bad(j) : k < m}
           IN  /\ bad = {} => found = <<0, 0>>
               /\ bad # {} => /\ Min(Bad(j)) \in bad
                              /\ found = <<Errors(j, MakeTask(j), Min(Bad(j))),
                                           (Min(Bad(j)) - n) * Step>>
<1> DEFINE E(k) == Errors(j, MakeTask(j), k)
           bad == {k \in Bad(j) : k < m}
           bad2 == {k \in 0 .. d.size \div Step - 1 : Errors(j, d, k) # 0}
<1>1. Step \in Nat \ {0} /\ j.blocks \in Nat /\ n \in Nat /\ m \in Nat /\ m - n \in Nat
  BY JobIs
<1>2. d.size \div Step = m - n
  BY <1>1, CountOfSteps
<1>3. \A k \in Nat : Errors(j, d, k) = E(n + k)
  BY <1>1, ErrorsShift
<1>4. Bad(j) = {k \in 0 .. j.blocks - 1 : E(k) # 0}
  BY DEF Bad
<1>5. dml_legacy_dif_check(j, d) =
        IF bad2 = {} THEN <<0, 0>> ELSE <<Errors(j, d, Min(bad2)), Min(bad2) * Step>>
  BY DEF dml_legacy_dif_check
<1>6. bad2 = {k \in 0 .. (m - n) - 1 : E(n + k) # 0}
  BY <1>1, <1>2, <1>3
<1> HIDE DEF E, bad2
<1>7. bad2 = {k - n : k \in bad}
  BY <1>1, <1>4, <1>6
<1>8. CASE bad = {}
  BY <1>5, <1>7, <1>8
<1>9. CASE bad # {}
  <2>1. bad2 # {} /\ bad2 \in SUBSET Nat /\ Bad(j) # {} /\ Bad(j) \in SUBSET Nat
    BY <1>1, <1>4, <1>6, <1>7, <1>9
  <2> DEFINE x == Min(bad2)
             y == Min(Bad(j))
  <2>2. x \in bad2 /\ \A k \in bad2 : x <= k
    BY <2>1, SmallestOfThem
  <2>3. y \in Bad(j) /\ \A k \in Bad(j) : y <= k
    BY <2>1, SmallestOfThem
  <2> HIDE DEF x, y
  <2>4. y \in bad /\ y \in Nat
    <3>1. PICK k \in bad : TRUE
      BY <1>9
    <3> QED  BY <1>1, <1>4, <2>3, <3>1
  <2>5. y - n \in bad2
    BY <1>7, <2>4
  <2>6. x + n \in bad /\ x \in Nat
    <3>1. PICK k \in bad : x = k - n
      BY <1>7, <2>2
    <3>2. k \in Nat /\ n <= k
      BY <1>1, <1>4
    <3>3. x + n = k
      BY <1>1, <3>1, <3>2
    <3> QED  BY <1>1, <3>1, <3>2, <3>3
  <2>7. x = y - n
    BY <1>1, <2>2, <2>3, <2>4, <2>5, <2>6
  <2>8. Errors(j, d, x) = E(y)
    BY <1>1, <1>3, <2>4, <2>6, <2>7
  <2> QED  BY <1>5, <1>9, <2>1, <2>4, <2>7, <2>8 DEF x, y, E
<1> QED  BY <1>8, <1>9

-----------------------------------------------------------------------------
(* What the kernels write. *)

\* WriteBlocks puts every cell of every block in its place and leaves what is
\* before them alone.
LEMMA WrittenCells ==
    ASSUME NEW dst, DOMAIN dst = Offsets, NEW from \in Nat, NEW step \in Nat \ {0}, NEW n \in Nat,
           Size \in Nat, from + n * step <= Size, NEW cell
    PROVE  LET w == WriteBlocks(dst, from, step, n, cell)
           IN  /\ DOMAIN w = Offsets
               /\ \A k \in 0 .. n - 1, i \in 0 .. step - 1 :
                     from + (k * step + i) \in Offsets /\ w[from + (k * step + i)] = cell[k][i]
               /\ \A a \in Offsets : a < from => w[a] = dst[a]
<1> DEFINE w == WriteBlocks(dst, from, step, n, cell)
<1>1. w = [a \in Offsets |-> IF a \in from .. from + n * step - 1
                             THEN cell[(a - from) \div step][(a - from) % step] ELSE dst[a]]
  BY DEF WriteBlocks
<1> HIDE DEF w
<1>2. n * step \in Nat
  OBVIOUS
<1>3. ASSUME NEW k \in 0 .. n - 1, NEW i \in 0 .. step - 1
      PROVE  from + (k * step + i) \in Offsets /\ w[from + (k * step + i)] = cell[k][i]
  <2> DEFINE b == k * step + i
             a == from + b
  <2>1. b \in 0 .. n * step - 1 /\ b \div step = k /\ b % step = i
    BY InsideSteps
  <2> HIDE DEF b
  <2>2. a \in Offsets /\ a \in from .. from + n * step - 1 /\ a - from = b
    BY <1>2, <2>1 DEF Offsets
  <2> HIDE DEF a
  <2>3. w[a] = cell[b \div step][b % step]
    BY <1>1, <2>2
  <2>4. w[a] = cell[k][i]
    BY <2>1, <2>3
  <2> QED  BY <2>2, <2>4 DEF a, b
<1>4. ASSUME NEW a \in Offsets, a < from
      PROVE  w[a] = dst[a]
  <2>1. a \notin from .. from + n * step - 1
    BY <1>4 DEF Offsets
  <2> QED  BY <1>1, <2>1
<1> QED  BY <1>1, <1>3, <1>4 DEF w

\* The first n blocks of the destination of an update.
UpdatedUpTo(j, o, n) ==
    /\ DOMAIN o = Offsets
    /\ \A k \in 0 .. n - 1 :
        /\ \A i \in 0 .. BlockSize - 1 : o[k * Step + i] = j.data[k * Step + i]
        /\ o[k * Step + BlockSize] =
              Updated(j, MakeTask(j), j.data[k * Step + BlockSize], Block(j.data, k * Step), k)

\* A descriptor of the blocks from n on, as far as writing fields goes.
WritesFrom(j, d, n) ==
    d.dst_app = AppTag(j.dst, j.dst.app, n) /\ d.dst_ref = RefTag(j.dst, j.dst.ref, n)

\* The fields written from block n on are those of the whole job.
LEMMA UpdatedShift ==
    ASSUME NEW j \in Jobs, NEW n \in Nat, NEW d, WritesFrom(j, d, n), NEW k \in Nat, NEW f, NEW b
    PROVE  Updated(j, d, f, b, k) = Updated(j, MakeTask(j), f, b, n + k)
<1> DEFINE t == MakeTask(j)
<1>1. t.dst_app = j.dst.app /\ t.dst_ref = j.dst.ref
  BY DEF MakeTask
<1>2. j.dst.app \in Int /\ j.dst.ref \in Int
  BY JobIs
<1>3. AppTag(j.dst, d.dst_app, k) = AppTag(j.dst, t.dst_app, n + k)
  <2>1. AppTag(j.dst, AppTag(j.dst, j.dst.app, n), k) = AppTag(j.dst, j.dst.app, n + k)
    BY <1>2, AppTagGoesOn
  <2> QED  BY <1>1, <2>1 DEF WritesFrom
<1>4. RefTag(j.dst, d.dst_ref, k) = RefTag(j.dst, t.dst_ref, n + k)
  <2>1. RefTag(j.dst, RefTag(j.dst, j.dst.ref, n), k) = RefTag(j.dst, j.dst.ref, n + k)
    BY <1>2, RefTagGoesOn
  <2> QED  BY <1>1, <2>1 DEF WritesFrom
<1>5. Field(j, j.dst, d.dst_app, d.dst_ref, b, k) = Field(j, j.dst, t.dst_app, t.dst_ref, b, n + k)
  BY <1>3, <1>4 DEF Field
<1> HIDE DEF t
<1>6. Updated(j, d, f, b, k) = Updated(j, t, f, b, n + k)
  BY <1>5 DEF Updated
<1> QED  BY <1>6 DEF t

\* The blocks from n up to m are updated behind the first n, if all are good.
LEMMA UpdateFrom ==
    ASSUME NEW j \in Jobs, j.op = "update", NEW n \in 0 .. j.blocks, NEW m \in n .. j.blocks,
           NEW d, ChecksFrom(j, d, n), WritesFrom(j, d, n), d.dst = n * Step,
           d.size = (m - n) * Step, \A k \in Bad(j) : m <= k,
           NEW o, UpdatedUpTo(j, o, n), NEW r
    PROVE  UpdatedUpTo(j, dif_update(j, d, o, r).out, m)
<1>1. /\ Step \in Nat \ {0} /\ j.blocks \in Nat /\ n \in Nat /\ m \in Nat /\ m - n \in Nat
      /\ BlockSize \in Nat /\ Step = BlockSize + 1 /\ Size \in Nat /\ j.blocks * Step <= Size
  BY JobIs DEF Step
<1>2. Bad(j) \in SUBSET Nat
  BY <1>1 DEF Bad
<1>3. dml_legacy_dif_check(j, d) = <<0, 0>>
  <2>1. {k \in Bad(j) : k < m} = {} /\ \A k \in Bad(j) : n <= k
    BY <1>1, <1>2
  <2> QED  BY <2>1, CheckFrom
<1>4. d.size \div Step = m - n
  BY <1>1, CountOfSteps
<1> DEFINE c == [k \in 0 .. m - n - 1 |-> [i \in 0 .. BlockSize |->
                    IF i < BlockSize THEN j.data[d.src + k * Step + i]
                    ELSE Updated(j, d, j.data[d.src + k * Step + i],
                                 Block(j.data, d.src + k * Step), k)]]
           w == WriteBlocks(o, n * Step, Step, m - n, c)
<1>5. dif_update(j, d, o, r).out = w
  <2> DEFINE num == d.size \div Step
             all == [k \in 0 .. num - 1 |-> [i \in 0 .. BlockSize |->
                        IF i < BlockSize THEN j.data[d.src + k * Step + i]
                        ELSE Updated(j, d, j.data[d.src + k * Step + i],
                                     Block(j.data, d.src + k * Step), k)]]
  <2>1. DestinationStep(j.op) = Step
    BY DEF DestinationStep
  <2>2. dif_update(j, d, o, r).out = WriteBlocks(o, d.dst, DestinationStep(j.op), num, all)
    BY <1>3 DEF dif_update
  <2>3. num = m - n
    BY <1>4
  <2>4. all = c
    BY <2>3
  <2> HIDE DEF num, all, c
  <2> QED  BY <2>1, <2>2, <2>3, <2>4
<1>6. n * Step \in Nat /\ n * Step + (m - n) * Step <= Size /\ DOMAIN o = Offsets
  <2>1. n * Step + (m - n) * Step = m * Step /\ m * Step <= j.blocks * Step
    BY <1>1
  <2>2. n * Step \in Nat /\ m * Step \in Nat /\ j.blocks * Step \in Nat
    BY <1>1
  <2> QED  BY <1>1, <2>1, <2>2 DEF UpdatedUpTo
<1> HIDE DEF w, c
<1>7. /\ DOMAIN w = Offsets
      /\ \A k \in 0 .. m - n - 1, i \in 0 .. Step - 1 :
            w[n * Step + (k * Step + i)] = c[k][i]
      /\ \A a \in Offsets : a < n * Step => w[a] = o[a]
  BY <1>1, <1>6, WrittenCells DEF w
<1>8. ASSUME NEW k \in 0 .. m - 1
      PROVE  /\ \A i \in 0 .. BlockSize - 1 : w[k * Step + i] = j.data[k * Step + i]
             /\ w[k * Step + BlockSize] =
                  Updated(j, MakeTask(j), j.data[k * Step + BlockSize], Block(j.data, k * Step), k)
  <2>1. CASE k < n
    <3>1. ASSUME NEW i \in 0 .. BlockSize
          PROVE  w[k * Step + i] = o[k * Step + i]
      <4>1. k * Step + i \in 0 .. n * Step - 1
        BY <1>1, <2>1, InsideSteps
      <4>2. k * Step + i \in Offsets
        <5>1. n * Step <= Size
          BY <1>1, <1>6
        <5> QED  BY <1>1, <1>6, <4>1, <5>1 DEF Offsets
      <4> QED  BY <1>6, <1>7, <4>1, <4>2
    <3> QED  BY <1>1, <2>1, <3>1 DEF UpdatedUpTo
  <2>2. CASE k >= n
    <3> DEFINE l == k - n
    <3>1. l \in 0 .. m - n - 1 /\ k = n + l
      BY <1>1, <2>2
    <3>2. n * Step + l * Step = k * Step /\ d.src = n * Step
      BY <1>1, <3>1 DEF ChecksFrom
    <3> HIDE DEF l
    <3>3. ASSUME NEW i \in 0 .. BlockSize
          PROVE  w[k * Step + i] = c[l][i]
      <4>1. n * Step + (l * Step + i) = k * Step + i
        BY <1>1, <3>1, <3>2
      <4>2. w[n * Step + (l * Step + i)] = c[l][i]
        BY <1>1, <1>7, <3>1
      <4> QED  BY <4>1, <4>2
    <3>4. ASSUME NEW i \in 0 .. BlockSize
          PROVE  c[l][i] = IF i < BlockSize THEN j.data[k * Step + i]
                           ELSE Updated(j, d, j.data[k * Step + i], Block(j.data, k * Step), l)
      BY <3>1, <3>2 DEF c
    <3>5. \A f, b : Updated(j, d, f, b, l) = Updated(j, MakeTask(j), f, b, k)
      BY <1>1, <3>1, UpdatedShift
    <3>6. ASSUME NEW i \in 0 .. BlockSize - 1
          PROVE  w[k * Step + i] = j.data[k * Step + i]
      BY <1>1, <3>3, <3>4
    <3>7. w[k * Step + BlockSize] =
             Updated(j, MakeTask(j), j.data[k * Step + BlockSize], Block(j.data, k * Step), k)
      <4>1. BlockSize \in 0 .. BlockSize /\ ~(BlockSize < BlockSize)
        BY <1>1
      <4> QED  BY <3>3, <3>4, <3>5, <4>1
    <3> QED  BY <3>6, <3>7
  <2> QED  BY <1>1, <2>1, <2>2
<1> QED  BY <1>5, <1>7, <1>8 DEF UpdatedUpTo

\* The destination of an insert done in one piece.
InsertedAll(j, o) ==
    /\ DOMAIN o = Offsets
    /\ \A k \in 0 .. j.blocks - 1 :
        /\ \A i \in 0 .. BlockSize - 1 : o[k * Step + i] = j.data[k * BlockSize + i]
        /\ o[k * Step + BlockSize] = Inserted(j, MakeTask(j), k)

\* An insert of the whole job.
LEMMA InsertWhole ==
    ASSUME NEW j \in Jobs, j.op = "insert", NEW o, DOMAIN o = Offsets, NEW r
    PROVE  InsertedAll(j, dif_insert(j, MakeTask(j), o, r).out)
<1> DEFINE n == j.blocks
           c == [k \in 0 .. n - 1 |-> [i \in 0 .. BlockSize |->
                    IF i < BlockSize THEN j.data[0 + k * BlockSize + i]
                    ELSE Inserted(j, MakeTask(j), k)]]
           w == WriteBlocks(o, 0, Step, n, c)
<1>1. /\ Step \in Nat \ {0} /\ n \in Nat /\ BlockSize \in Nat \ {0} /\ Step = BlockSize + 1
      /\ Size \in Nat /\ n * Step <= Size /\ n * Step \in Nat
  BY JobIs DEF Step
<1>2. (n * BlockSize) \div BlockSize = n
  BY <1>1, CountOfSteps
<1>3. dif_insert(j, MakeTask(j), o, r).out = w
  BY <1>2 DEF dif_insert, DestinationStep, MakeTask, SourceStep
<1> HIDE DEF w, c
<1>4. /\ DOMAIN w = Offsets
      /\ \A k \in 0 .. n - 1, i \in 0 .. Step - 1 : w[0 + (k * Step + i)] = c[k][i]
  BY <1>1, WrittenCells DEF w
<1>5. ASSUME NEW k \in 0 .. n - 1, NEW i \in 0 .. BlockSize
      PROVE  w[k * Step + i] = IF i < BlockSize THEN j.data[k * BlockSize + i]
                               ELSE Inserted(j, MakeTask(j), k)
  <2>1. 0 + (k * Step + i) = k * Step + i /\ 0 + k * BlockSize + i = k * BlockSize + i
    BY <1>1
  <2>2. w[0 + (k * Step + i)] = c[k][i]
    BY <1>1, <1>4
  <2>3. c[k][i] = IF i < BlockSize THEN j.data[0 + k * BlockSize + i] ELSE Inserted(j, MakeTask(j), k)
    BY DEF c
  <2> QED  BY <2>1, <2>2, <2>3
<1>6. \A k \in 0 .. n - 1 :
        /\ \A i \in 0 .. BlockSize - 1 : w[k * Step + i] = j.data[k * BlockSize + i]
        /\ w[k * Step + BlockSize] = Inserted(j, MakeTask(j), k)
  <2> SUFFICES ASSUME NEW k \in 0 .. n - 1
               PROVE  /\ \A i \in 0 .. BlockSize - 1 : w[k * Step + i] = j.data[k * BlockSize + i]
                      /\ w[k * Step + BlockSize] = Inserted(j, MakeTask(j), k)
    OBVIOUS
  <2>1. BlockSize \in 0 .. BlockSize /\ ~(BlockSize < BlockSize)
    BY <1>1
  <2>2. ASSUME NEW i \in 0 .. BlockSize - 1
        PROVE  w[k * Step + i] = j.data[k * BlockSize + i]
    <3>1. i \in 0 .. BlockSize /\ i < BlockSize
      BY <1>1
    <3> QED  BY <1>5, <3>1
  <2>3. w[k * Step + BlockSize] = Inserted(j, MakeTask(j), k)
    BY <1>5, <2>1
  <2> QED  BY <2>2, <2>3
<1> QED  BY <1>3, <1>4, <1>6 DEF InsertedAll

-----------------------------------------------------------------------------
(* The invariant. *)

\* The variables as they start.
BlankOut == [i \in Offsets |-> Blank]
BlankRec == [status |-> Processing, result |-> 0, bytes_completed |-> 0,
             src_app |-> 0, src_ref |-> 0, dst_app |-> 0, dst_ref |-> 0]
BlankRet == [status |-> Processing, result |-> 0, offset |-> 0]

Faults == {PageFault, WriteFault}

\* A record of a job that has ended: the first bad block of the whole job, if
\* there is one.
RightRecord(j, r) ==
    /\ r.status \in {Success, DifError} /\ r.bytes_completed \in Int
    /\ j.op = "insert" => r.status = Success
    /\ j.op # "insert" =>
        /\ Bad(j) = {} => r.status = Success
        /\ Bad(j) # {} => /\ r.status = DifError
                          /\ r.result = Errors(j, MakeTask(j), Min(Bad(j)))
                          /\ r.bytes_completed = Min(Bad(j)) * Step

\* Record and destination of a job that has ended, with the descriptor of its
\* last part.
Right(j, d, o, r) ==
    /\ RightRecord(j, r)
    /\ j.op = "update" /\ r.status = Success => UpdatedUpTo(j, o, j.blocks)
    /\ j.op = "insert" /\ d.src = 0 => InsertedAll(j, o)

\* Everything done by the device up to a fault after n blocks.
Stopped(j, o, r) ==
    \E n \in 0 .. j.blocks - 1, s \in Faults :
        /\ n <= Good(j, MakeTask(j))
        /\ o = HwFaulted(j, MakeTask(j), BlankOut, BlankRec, n, s).out
        /\ r = HwFaulted(j, MakeTask(j), BlankOut, BlankRec, n, s).rec

\* How far a job is: not begun, ended or stopped by a fault, or reported to the
\* caller.
IInv ==
    /\ job \in Jobs /\ path \in {"software", "hardware", "automatic"}
    /\ pc \in {"submit", "hw", "submitted", "done"}
    /\ pc \in {"submit", "hw"} => out = BlankOut /\ rec = BlankRec
    /\ pc # "done" => dsc = MakeTask(job) /\ ret = BlankRet
    /\ pc = "hw" => path # "software"
    /\ pc = "submitted" => \/ Right(job, dsc, out, rec)
                           \/ path # "software" /\ Stopped(job, out, rec)
    /\ pc = "done" => /\ ret = write_result(job, rec, BlankRet)
                      /\ \/ Right(job, dsc, out, rec)
                         \/ path = "hardware" /\ rec.status \in Faults

-----------------------------------------------------------------------------
(* One kernel, or a device and a kernel. *)

\* Which kernel it is.
LEMMA KernelIs ==
    ASSUME NEW j, NEW d, NEW o, NEW r
    PROVE  /\ j.op = "check" => Kernel(j, d, o, r) = dif_check(j, d, o, r)
           /\ j.op = "insert" => Kernel(j, d, o, r) = dif_insert(j, d, o, r)
           /\ j.op = "strip" => Kernel(j, d, o, r) = dif_strip(j, d, o, r)
           /\ j.op = "update" => Kernel(j, d, o, r) = dif_update(j, d, o, r)
  BY DEF Kernel

\* The record of an insert.
Done(r) == [r EXCEPT !.status = Success, !.bytes_completed = 0]

\* The record of insert is always that.
LEMMA InsertRecord ==
    ASSUME NEW j, NEW d, NEW o, NEW r
    PROVE  dif_insert(j, d, o, r).rec = Done(r)
<1>1. \A a, b : [out |-> a, rec |-> b].rec = b
  OBVIOUS
<1> QED  BY <1>1, Zenon DEF dif_insert, Done

\* The record of strip is that of its check.
LEMMA StripRecord ==
    ASSUME NEW j, NEW d, NEW o, NEW r
    PROVE  dif_strip(j, d, o, r).rec = Finished(r, dml_legacy_dif_check(j, d))
<1>1. \A a, b : [out |-> a, rec |-> b].rec = b
  OBVIOUS
<1> QED  BY <1>1, Zenon DEF dif_strip

\* And so is the record of update.
LEMMA UpdateRecord ==
    ASSUME NEW j, NEW d, NEW o, NEW r
    PROVE  dif_update(j, d, o, r).rec = Finished(r, dml_legacy_dif_check(j, d))
<1>1. \A a, b : [out |-> a, rec |-> b].rec = b
  OBVIOUS
<1> QED  BY <1>1, Zenon DEF dif_update

\* A record has its fields.
IsRecord(r) == DOMAIN r = {"status", "result", "bytes_completed", "src_app", "src_ref",
                           "dst_app", "dst_ref"}

\* The record of a kernel is that of its check, or success.
LEMMA KernelRecord ==
    ASSUME NEW j \in Jobs, NEW d, NEW o, NEW r, IsRecord(r)
    PROVE  LET x == Kernel(j, d, o, r).rec
               found == dml_legacy_dif_check(j, d)
           IN  /\ j.op = "insert" => x.status = Success /\ x.bytes_completed = 0
               /\ j.op # "insert" =>
                    /\ x.status = IF found[1] = 0 THEN Success ELSE DifError
                    /\ x.result = found[1] /\ x.bytes_completed = found[2]
               /\ IsRecord(x)
<1> DEFINE found == dml_legacy_dif_check(j, d)
           x == Kernel(j, d, o, r).rec
<1>1. CASE j.op = "insert"
  <2>1. x = Done(r)
    <3>1. Kernel(j, d, o, r) = dif_insert(j, d, o, r)
      BY <1>1, KernelIs
    <3>2. dif_insert(j, d, o, r).rec = Done(r)
      BY InsertRecord, Zenon
    <3> QED  BY <3>1, <3>2, Zenon
  <2> HIDE DEF x
  <2>2. x.status = Success /\ x.bytes_completed = 0 /\ IsRecord(x)
    BY <2>1 DEF IsRecord, Done
  <2> QED  BY <1>1, <2>2 DEF x
<1>2. CASE j.op # "insert"
  <2>1. x = Finished(r, found)
    <3>1. j.op \in {"check", "strip", "update"}
      BY <1>2, JobIs
    <3> HIDE DEF found
    <3>2. CASE j.op = "check"
      BY <3>2, KernelIs DEF dif_check, found
    <3>3. CASE j.op = "strip"
      <4>1. Kernel(j, d, o, r) = dif_strip(j, d, o, r)
        BY <3>3, KernelIs
      <4>2. dif_strip(j, d, o, r).rec = Finished(r, found)
        BY StripRecord, Zenon DEF found
      <4> QED  BY <4>1, <4>2, Zenon
    <3>4. CASE j.op = "update"
      <4>1. Kernel(j, d, o, r) = dif_update(j, d, o, r)
        BY <3>4, KernelIs
      <4>2. dif_update(j, d, o, r).rec = Finished(r, found)
        BY UpdateRecord, Zenon DEF found
      <4> QED  BY <4>1, <4>2, Zenon
    <3> QED  BY <3>1, <3>2, <3>3, <3>4
  <2> HIDE DEF x, found
  <2>2. /\ x.status = IF found[1] = 0 THEN Success ELSE DifError
        /\ x.result = found[1] /\ x.bytes_completed = found[2] /\ IsRecord(x)
    BY <2>1 DEF Finished, IsRecord
  <2> QED  BY <1>2, <2>2 DEF x, found
<1> QED  BY <1>1, <1>2

\* The record of a kernel for the blocks from n on, if those before are good.
LEMMA RecordFrom ==
    ASSUME NEW j \in Jobs, j.op # "insert", NEW n \in 0 .. j.blocks, NEW d, ChecksFrom(j, d, n),
           d.size = (j.blocks - n) * Step, \A k \in Bad(j) : n <= k,
           NEW o, NEW r, IsRecord(r)
    PROVE  LET x == Kernel(j, d, o, r).rec
           IN  /\ Bad(j) = {} => x.status = Success /\ x.bytes_completed = 0
               /\ Bad(j) # {} => /\ Min(Bad(j)) \in 0 .. j.blocks - 1
                                 /\ x.status = DifError
                                 /\ x.result = Errors(j, MakeTask(j), Min(Bad(j)))
                                 /\ x.bytes_completed = (Min(Bad(j)) - n) * Step
<1> DEFINE x == Kernel(j, d, o, r).rec
           found == dml_legacy_dif_check(j, d)
<1>1. /\ x.status = IF found[1] = 0 THEN Success ELSE DifError
      /\ x.result = found[1] /\ x.bytes_completed = found[2]
  BY KernelRecord
<1>2. j.blocks \in Nat
  BY JobIs
<1>3. {k \in Bad(j) : k < j.blocks} = Bad(j)
  BY <1>2 DEF Bad
<1>4. /\ Bad(j) = {} => found = <<0, 0>>
      /\ Bad(j) # {} => /\ Min(Bad(j)) \in Bad(j)
                        /\ found = <<Errors(j, MakeTask(j), Min(Bad(j))), (Min(Bad(j)) - n) * Step>>
  BY <1>2, <1>3, CheckFrom
<1>5. \A k \in Bad(j) : k \in 0 .. j.blocks - 1 /\ Errors(j, MakeTask(j), k) # 0
  BY DEF Bad
<1> HIDE DEF x, found
<1>6. CASE Bad(j) = {}
  BY <1>1, <1>4, <1>6 DEF x
<1>7. CASE Bad(j) # {}
  BY <1>1, <1>4, <1>5, <1>7 DEF x
<1> QED  BY <1>6, <1>7

\* The descriptor of a job and of its first blocks.
LEMMA FirstPart ==
    ASSUME NEW j \in Jobs, NEW n \in Nat
    PROVE  LET d == Prefix(j, MakeTask(j), n)
           IN  /\ ChecksFrom(j, d, 0) /\ WritesFrom(j, d, 0) /\ d.dst = 0 /\ d.src = 0
               /\ d.size = n * SourceStep(j.op)
               /\ n = j.blocks => d = MakeTask(j)
<1> DEFINE d == Prefix(j, MakeTask(j), n)
<1>1. d = [src |-> 0, dst |-> 0, size |-> n * SourceStep(j.op),
           src_app |-> j.src.app, src_ref |-> j.src.ref,
           dst_app |-> j.dst.app, dst_ref |-> j.dst.ref]
  BY DEF Prefix, MakeTask
<1>2. AppTag(j.src, j.src.app, 0) = j.src.app /\ RefTag(j.src, j.src.ref, 0) = j.src.ref
  BY JobIs, FirstTags
<1>3. AppTag(j.dst, j.dst.app, 0) = j.dst.app /\ RefTag(j.dst, j.dst.ref, 0) = j.dst.ref
  BY JobIs, FirstTags
<1>4. 0 * Step = 0
  BY JobIs
<1>5. n = j.blocks => d = MakeTask(j)
  BY <1>1 DEF MakeTask
<1> QED  BY <1>1, <1>2, <1>3, <1>4, <1>5 DEF ChecksFrom, WritesFrom

\* Blocks the device gets through are good.
LEMMA GoodBlocks ==
    ASSUME NEW j \in Jobs, j.op # "insert"
    PROVE  LET g == Good(j, MakeTask(j))
           IN  /\ g \in 0 .. j.blocks /\ \A k \in Bad(j) : g <= k
               /\ Bad(j) = {} => g = j.blocks
<1>1. Good(j, MakeTask(j)) = IF Bad(j) = {} THEN j.blocks ELSE Min(Bad(j))
  BY DEF Good, Bad
<1>2. Bad(j) \in SUBSET Nat /\ Bad(j) \subseteq 0 .. j.blocks - 1 /\ j.blocks \in Nat
  BY JobIs DEF Bad
<1>3. Bad(j) # {} => Min(Bad(j)) \in Bad(j) /\ \A k \in Bad(j) : Min(Bad(j)) <= k
  BY <1>2, SmallestOfThem
<1> QED  BY <1>1, <1>2, <1>3

\* An update of the first n blocks, all good.
LEMMA UpdatePrefix ==
    ASSUME NEW j \in Jobs, j.op = "update", NEW n \in 0 .. j.blocks, \A k \in Bad(j) : n <= k,
           NEW o, DOMAIN o = Offsets, NEW r
    PROVE  UpdatedUpTo(j, Kernel(j, Prefix(j, MakeTask(j), n), o, r).out, n)
<1> DEFINE d == Prefix(j, MakeTask(j), n)
<1>1. j.blocks \in Nat /\ n \in Nat /\ n - 0 = n /\ n \in 0 .. j.blocks /\ 0 * Step = 0
  BY JobIs
<1>2. ChecksFrom(j, d, 0) /\ WritesFrom(j, d, 0) /\ d.dst = 0 /\ d.size = n * Step
  BY <1>1, FirstPart DEF SourceStep
<1>3. UpdatedUpTo(j, o, 0)
  BY DEF UpdatedUpTo
<1> HIDE DEF d
<1>4. UpdatedUpTo(j, dif_update(j, d, o, r).out, n)
  BY <1>1, <1>2, <1>3, UpdateFrom
<1> QED  BY <1>4, KernelIs DEF d

\* The record of one kernel for the whole job.
LEMMA WholeRecord ==
    ASSUME NEW j \in Jobs, NEW o
    PROVE  RightRecord(j, Kernel(j, MakeTask(j), o, BlankRec).rec)
<1> DEFINE t == MakeTask(j)
           x == Kernel(j, t, o, BlankRec).rec
<1>1. IsRecord(BlankRec)
  BY DEF IsRecord, BlankRec
<1>2. j.blocks \in Nat \ {0} /\ Step \in Nat \ {0}
  BY JobIs
<1>3. CASE j.op = "insert"
  <2>1. x.status = Success /\ x.bytes_completed = 0
    BY <1>1, <1>3, KernelRecord
  <2> HIDE DEF x
  <2>2. RightRecord(j, x)
    BY <1>3, <2>1 DEF RightRecord
  <2> QED  BY <2>2 DEF x
<1>4. CASE j.op # "insert"
  <2>1. ChecksFrom(j, t, 0) /\ t.size = (j.blocks - 0) * Step
    <3>1. Prefix(j, t, j.blocks) = t
      BY <1>2, FirstPart
    <3>2. ChecksFrom(j, t, 0) /\ t.size = j.blocks * SourceStep(j.op)
      BY <1>2, <3>1, FirstPart
    <3> QED  BY <1>2, <1>4, <3>2 DEF SourceStep
  <2>2. \A k \in Bad(j) : 0 <= k
    BY <1>2 DEF Bad
  <2> HIDE DEF t
  <2>3. /\ Bad(j) = {} => x.status = Success /\ x.bytes_completed = 0
        /\ Bad(j) # {} => /\ Min(Bad(j)) \in 0 .. j.blocks - 1
                          /\ x.status = DifError
                          /\ x.result = Errors(j, MakeTask(j), Min(Bad(j)))
                          /\ x.bytes_completed = (Min(Bad(j)) - 0) * Step
    BY <1>1, <1>2, <1>4, <2>1, <2>2, RecordFrom
  <2> HIDE DEF x
  <2>4. RightRecord(j, x)
    BY <1>2, <1>4, <2>3 DEF RightRecord
  <2> QED  BY <2>4 DEF x, t
<1> QED  BY <1>3, <1>4

\* A job done by one kernel is right.
LEMMA WholeRight ==
    ASSUME NEW j \in Jobs, NEW g, j.op = "insert" => g = j.blocks,
           j.op = "update" /\ Bad(j) = {} => g = j.blocks
    PROVE  Right(j, MakeTask(j), Kernel(j, Prefix(j, MakeTask(j), g), BlankOut, BlankRec).out,
                 Kernel(j, MakeTask(j), BlankOut, BlankRec).rec)
<1> DEFINE t == MakeTask(j)
           x == Kernel(j, t, BlankOut, BlankRec).rec
           w == Kernel(j, Prefix(j, t, g), BlankOut, BlankRec).out
<1>1. RightRecord(j, x)
  BY WholeRecord
<1>2. j.blocks \in Nat \ {0} /\ DOMAIN BlankOut = Offsets
  BY JobIs DEF BlankOut
<1>3. ASSUME j.op = "update", x.status = Success
      PROVE  UpdatedUpTo(j, w, j.blocks)
  <2>1. Bad(j) = {}
    BY <1>1, <1>3 DEF RightRecord, Success, DifError
  <2>2. g = j.blocks
    BY <1>3, <2>1
  <2>3. UpdatedUpTo(j, Kernel(j, Prefix(j, MakeTask(j), j.blocks), BlankOut, BlankRec).out, j.blocks)
    BY <1>2, <1>3, <2>1, UpdatePrefix
  <2> QED  BY <2>2, <2>3
<1>4. ASSUME j.op = "insert"
      PROVE  InsertedAll(j, w)
  <2>1. Prefix(j, t, g) = t
    BY <1>2, <1>4, FirstPart
  <2>2. InsertedAll(j, dif_insert(j, t, BlankOut, BlankRec).out)
    BY <1>2, <1>4, InsertWhole
  <2>3. Kernel(j, t, BlankOut, BlankRec) = dif_insert(j, t, BlankOut, BlankRec)
    BY <1>4, KernelIs
  <2> HIDE DEF t
  <2> QED  BY <2>1, <2>2, <2>3
<1> HIDE DEF x, w
<1>5. Right(j, t, w, x)
  BY <1>1, <1>3, <1>4 DEF Right
<1> QED  BY <1>5 DEF w, x

\* The record that the device leaves at a fault.
LEMMA StoppedRecord ==
    ASSUME NEW j \in Jobs, NEW n \in 0 .. j.blocks - 1, NEW s
    PROVE  LET f == HwFaulted(j, MakeTask(j), BlankOut, BlankRec, n, s)
           IN  /\ f.out = Kernel(j, Prefix(j, MakeTask(j), n), BlankOut, BlankRec).out
               /\ IsRecord(f.rec) /\ f.rec.status = s
               /\ f.rec.bytes_completed = n * SourceStep(j.op)
               /\ f.rec.src_app = AppTag(j.src, j.src.app, n)
               /\ f.rec.src_ref = RefTag(j.src, j.src.ref, n)
               /\ f.rec.dst_app = AppTag(j.dst, j.dst.app, n)
               /\ f.rec.dst_ref = RefTag(j.dst, j.dst.ref, n)
  BY DEF HwFaulted, MakeTask, IsRecord

\* The descriptor the automatic path goes on with after n blocks.
LEMMA ContinuedFrom ==
    ASSUME NEW j \in Jobs, NEW n \in 0 .. j.blocks - 1, NEW r,
           r.bytes_completed = n * SourceStep(j.op),
           r.src_app = AppTag(j.src, j.src.app, n), r.src_ref = RefTag(j.src, j.src.ref, n),
           r.dst_app = AppTag(j.dst, j.dst.app, n), r.dst_ref = RefTag(j.dst, j.dst.ref, n)
    PROVE  LET d == update_for_continuation(j, MakeTask(j), r)
           IN  /\ j.op # "insert" => ChecksFrom(j, d, n) /\ d.size = (j.blocks - n) * Step
               /\ j.op = "update" => WritesFrom(j, d, n) /\ d.dst = n * Step
               /\ j.op = "insert" => d.src = n * BlockSize
               /\ j.op = "insert" /\ n = 0 => d = MakeTask(j)
<1> DEFINE t == MakeTask(j)
           d == update_for_continuation(j, t, r)
           b == n * SourceStep(j.op)
           moved == [t EXCEPT !.src = @ + r.bytes_completed, !.size = @ - r.bytes_completed]
<1>1. t = [src |-> 0, dst |-> 0, size |-> j.blocks * SourceStep(j.op),
           src_app |-> j.src.app, src_ref |-> j.src.ref,
           dst_app |-> j.dst.app, dst_ref |-> j.dst.ref]
  BY DEF MakeTask
<1>2. /\ j.blocks \in Nat /\ Step \in Nat \ {0} /\ BlockSize \in Nat \ {0}
      /\ SourceStep(j.op) \in Nat \ {0} /\ n \in Nat
      /\ j.op \in {"check", "insert", "strip", "update"}
  BY JobIs
<1>3. /\ j.op # "insert" => SourceStep(j.op) = Step
      /\ j.op = "insert" => SourceStep(j.op) = BlockSize
  BY DEF SourceStep
<1>4. /\ b \in Nat /\ 0 + b = b
      /\ j.blocks * SourceStep(j.op) - b = (j.blocks - n) * SourceStep(j.op)
  BY <1>2
<1>0. moved = [src |-> 0 + b, dst |-> 0, size |-> j.blocks * SourceStep(j.op) - b,
               src_app |-> j.src.app, src_ref |-> j.src.ref,
               dst_app |-> j.dst.app, dst_ref |-> j.dst.ref]
  <2>1. r.bytes_completed = b
    OBVIOUS
  <2>2. moved = [t EXCEPT !.src = @ + b, !.size = @ - b]
    BY <2>1
  <2> HIDE DEF t, b, moved
  <2> QED  BY <1>1, <2>2
<1>9. /\ j.op = "check" => d = [moved EXCEPT !.src_app = r.src_app, !.src_ref = r.src_ref]
      /\ j.op = "insert" => d = [moved EXCEPT !.dst = @ + b, !.dst_app = r.dst_app,
                                              !.dst_ref = r.dst_ref]
      /\ j.op = "strip" => d = [moved EXCEPT !.dst = @ + b, !.src_app = r.src_app,
                                             !.src_ref = r.src_ref]
      /\ j.op = "update" => d = [moved EXCEPT !.dst = @ + b,
                                              !.src_app = r.src_app, !.src_ref = r.src_ref,
                                              !.dst_app = r.dst_app, !.dst_ref = r.dst_ref]
  BY DEF update_for_continuation
<1> HIDE DEF t, d, b, moved
<1>5. CASE j.op = "check"
  <2>1. /\ d.src = 0 + b /\ d.size = j.blocks * SourceStep(j.op) - b
        /\ d.src_app = r.src_app /\ d.src_ref = r.src_ref
    BY <1>0, <1>9, <1>5
  <2> QED  BY <1>3, <1>4, <1>5, <2>1 DEF ChecksFrom, b, d, t
<1>6. CASE j.op = "strip"
  <2>1. /\ d.src = 0 + b /\ d.size = j.blocks * SourceStep(j.op) - b
        /\ d.src_app = r.src_app /\ d.src_ref = r.src_ref
    BY <1>0, <1>9, <1>6
  <2> QED  BY <1>3, <1>4, <1>6, <2>1 DEF ChecksFrom, b, d, t
<1>7. CASE j.op = "update"
  <2>1. /\ d.src = 0 + b /\ d.size = j.blocks * SourceStep(j.op) - b /\ d.dst = 0 + b
        /\ d.src_app = r.src_app /\ d.src_ref = r.src_ref
        /\ d.dst_app = r.dst_app /\ d.dst_ref = r.dst_ref
    BY <1>0, <1>9, <1>7, ZenonT(60)
  <2> QED  BY <1>3, <1>4, <1>7, <2>1 DEF ChecksFrom, WritesFrom, b, d, t
<1>8. CASE j.op = "insert"
  <2>1. d = [src |-> 0 + b, dst |-> 0 + b, size |-> j.blocks * SourceStep(j.op) - b,
             src_app |-> j.src.app, src_ref |-> j.src.ref,
             dst_app |-> r.dst_app, dst_ref |-> r.dst_ref]
    BY <1>0, <1>9, <1>8, ZenonT(60)
  <2>2. n = 0 => b = 0 /\ r.dst_app = j.dst.app /\ r.dst_ref = j.dst.ref
    <3>1. AppTag(j.dst, j.dst.app, 0) = j.dst.app /\ RefTag(j.dst, j.dst.ref, 0) = j.dst.ref
      BY JobIs, FirstTags
    <3> QED  BY <1>2, <3>1 DEF b
  <2>3. n = 0 => d = t
    <3>1. ASSUME n = 0
          PROVE  j.blocks * SourceStep(j.op) - b = j.blocks * SourceStep(j.op)
      BY <1>2, <2>2, <3>1
    <3> QED  BY <1>1, <1>4, <2>1, <2>2, <3>1
  <2> QED  BY <1>3, <1>4, <1>8, <2>1, <2>3 DEF b, d, t
<1> QED  BY <1>2, <1>5, <1>6, <1>7, <1>8

\* A job that is done in two parts is right, but for what an insert or a strip has
\* written.
LEMMA ContinuedRight ==
    ASSUME NEW j \in Jobs, NEW n \in 0 .. j.blocks - 1, NEW s, n <= Good(j, MakeTask(j)),
           NEW f, f = HwFaulted(j, MakeTask(j), BlankOut, BlankRec, n, s),
           NEW d, d = update_for_continuation(j, MakeTask(j), f.rec)
    PROVE  Right(j, d, Kernel(j, d, f.out, f.rec).out,
                 accumulate_records(Kernel(j, d, f.out, f.rec).rec, f.rec))
<1> DEFINE done == Kernel(j, d, f.out, f.rec)
           x == done.rec
           w == done.out
           all == accumulate_records(x, f.rec)
           b == f.rec.bytes_completed
<1>1. /\ f.out = Kernel(j, Prefix(j, MakeTask(j), n), BlankOut, BlankRec).out
      /\ IsRecord(f.rec) /\ b = n * SourceStep(j.op)
      /\ f.rec.src_app = AppTag(j.src, j.src.app, n) /\ f.rec.src_ref = RefTag(j.src, j.src.ref, n)
      /\ f.rec.dst_app = AppTag(j.dst, j.dst.app, n) /\ f.rec.dst_ref = RefTag(j.dst, j.dst.ref, n)
  BY StoppedRecord
<1>2. /\ j.op # "insert" => ChecksFrom(j, d, n) /\ d.size = (j.blocks - n) * Step
      /\ j.op = "update" => WritesFrom(j, d, n) /\ d.dst = n * Step
      /\ j.op = "insert" => d.src = n * BlockSize
      /\ j.op = "insert" /\ n = 0 => d = MakeTask(j)
  BY <1>1, ContinuedFrom
<1>3. /\ j.blocks \in Nat \ {0} /\ n \in Nat /\ n \in 0 .. j.blocks /\ Step \in Nat \ {0}
      /\ BlockSize \in Nat \ {0} /\ DOMAIN BlankOut = Offsets
  BY JobIs DEF BlankOut
<1>4. /\ IsRecord(x)
      /\ j.op = "insert" => x.status = Success /\ x.bytes_completed = 0
  BY <1>1, KernelRecord
<1>5. /\ all.status = x.status /\ all.result = x.result
      /\ all.bytes_completed = x.bytes_completed + b
  <2> HIDE DEF x
  <2> QED  BY <1>4 DEF accumulate_records, IsRecord
<1>6. CASE j.op # "insert"
  <2>1. \A k \in Bad(j) : n <= k
    <3>1. Good(j, MakeTask(j)) \in Nat /\ \A k \in Bad(j) : Good(j, MakeTask(j)) <= k
      BY <1>3, <1>6, GoodBlocks
    <3>2. \A k \in Bad(j) : k \in Nat
      BY <1>3 DEF Bad
    <3> QED  BY <1>3, <3>1, <3>2
  <2>2. /\ Bad(j) = {} => x.status = Success /\ x.bytes_completed = 0
        /\ Bad(j) # {} => /\ Min(Bad(j)) \in 0 .. j.blocks - 1
                          /\ x.status = DifError
                          /\ x.result = Errors(j, MakeTask(j), Min(Bad(j)))
                          /\ x.bytes_completed = (Min(Bad(j)) - n) * Step
    BY <1>1, <1>2, <1>3, <1>6, <2>1, RecordFrom
  <2>3. b = n * Step /\ b \in Int
    BY <1>1, <1>3, <1>6 DEF SourceStep
  <2>4. ASSUME NEW k \in Nat
        PROVE  (k - n) * Step + n * Step = k * Step /\ k * Step \in Int
    BY <1>3
  <2> HIDE DEF x, all, b
  <2>5. RightRecord(j, all)
    <3>1. CASE Bad(j) = {}
      BY <1>5, <1>6, <2>2, <2>3, <3>1 DEF RightRecord
    <3>2. CASE Bad(j) # {}
      <4>1. Min(Bad(j)) \in Nat
        BY <1>3, <2>2, <3>2
      <4>2. all.bytes_completed = Min(Bad(j)) * Step /\ Min(Bad(j)) * Step \in Int
        BY <1>5, <2>2, <2>3, <2>4, <3>2, <4>1
      <4> QED  BY <1>5, <1>6, <2>2, <3>2, <4>2 DEF RightRecord
    <3> QED  BY <3>1, <3>2
  <2>6. ASSUME j.op = "update", all.status = Success
        PROVE  UpdatedUpTo(j, w, j.blocks)
    <3>1. Bad(j) = {}
      BY <1>5, <2>2, <2>6 DEF Success, DifError
    <3>2. UpdatedUpTo(j, f.out, n)
      BY <1>1, <1>3, <2>1, <2>6, UpdatePrefix
    <3>3. \A k \in Bad(j) : j.blocks <= k
      BY <3>1
    <3>4. UpdatedUpTo(j, dif_update(j, d, f.out, f.rec).out, j.blocks)
      BY <1>2, <1>3, <2>6, <3>2, <3>3, UpdateFrom
    <3>5. w = dif_update(j, d, f.out, f.rec).out
      BY <2>6, KernelIs
    <3> QED  BY <3>4, <3>5
  <2> HIDE DEF w
  <2>7. Right(j, d, w, all)
    BY <1>6, <2>5, <2>6 DEF Right
  <2> QED  BY <2>7 DEF w, all, x, b
<1>7. CASE j.op = "insert"
  <2>1. RightRecord(j, all)
    <3>1. b \in Int
      BY <1>1, <1>3, <1>7 DEF SourceStep
    <3> HIDE DEF x, all, b
    <3> QED  BY <1>4, <1>5, <1>7, <3>1 DEF RightRecord
  <2>2. ASSUME d.src = 0
        PROVE  InsertedAll(j, w)
    <3>1. n = 0
      BY <1>2, <1>3, <1>7, <2>2
    <3>2. d = MakeTask(j)
      BY <1>2, <1>7, <3>1
    <3>3. DOMAIN f.out = Offsets
      <4> DEFINE p == Prefix(j, MakeTask(j), n)
      <4>1. f.out = dif_insert(j, p, BlankOut, BlankRec).out
        BY <1>1, <1>7, KernelIs
      <4> HIDE DEF p
      <4>2. DOMAIN dif_insert(j, p, BlankOut, BlankRec).out = DOMAIN BlankOut
        BY DEF dif_insert, WriteBlocks
      <4> QED  BY <1>3, <4>1, <4>2
    <3>4. InsertedAll(j, dif_insert(j, d, f.out, f.rec).out)
      BY <1>7, <3>2, <3>3, InsertWhole
    <3>5. w = dif_insert(j, d, f.out, f.rec).out
      BY <1>7, KernelIs
    <3> QED  BY <3>4, <3>5
  <2> HIDE DEF w, all
  <2>3. Right(j, d, w, all)
    BY <1>7, <2>1, <2>2 DEF Right
  <2> QED  BY <2>3 DEF w, all, x, b
<1> QED  BY <1>6, <1>7

-----------------------------------------------------------------------------
(* Reading what was written. *)

\* Jobs that read what j has left in o with the tags j has written it with.
Reads(rd, j, o) ==
    /\ rd.data = o /\ rd.src = j.dst /\ rd.blocks = j.blocks
    /\ rd.invert_seed = j.invert_seed /\ rd.invert_result = j.invert_result

\* Every block in o holds data and is followed by its field.
Sealed(j, o) == \A k \in 0 .. j.blocks - 1 :
    /\ o[k * Step] # Blank
    /\ o[k * Step + BlockSize] = Field(j, j.dst, j.dst.app, j.dst.ref, Block(o, k * Step), k)

\* A sealed buffer passes a check with the same seeds, whatever is detected or
\* disabled: its guards are not all ones.
LEMMA SealedPasses ==
    ASSUME NEW j \in Jobs, NEW o, Sealed(j, o), NEW rd, Reads(rd, j, o), NEW d, d.src = 0,
           d.src_app = j.dst.app, d.src_ref = j.dst.ref, d.size = j.blocks * Step
    PROVE  dml_legacy_dif_check(rd, d) = <<0, 0>>
<1>1. j.blocks \in Nat /\ Step \in Nat \ {0} /\ BlockSize \in Nat \ {0}
  BY JobIs
<1>2. d.size \div Step = j.blocks
  BY <1>1, CountOfSteps
<1>3. ASSUME NEW k \in 0 .. j.blocks - 1
      PROVE  Errors(rd, d, k) = 0
  <2> DEFINE f == o[k * Step + BlockSize]
             b == Block(o, k * Step)
             want == Field(rd, rd.src, d.src_app, d.src_ref, b, k)
  <2>1. d.src + k * Step = k * Step /\ k * Step \in Nat
    BY <1>1
  <2>2. f = want
    BY DEF Sealed, Reads, Field, Guard
  <2>3. f # AllOnes
    <3>1. want.guard = <<rd.invert_seed, b, rd.invert_result>>
      BY DEF Field, Guard
    <3>2. b[0] = o[k * Step + 0] /\ k * Step + 0 = k * Step
      BY <1>1, <2>1 DEF Block
    <3>3. b[0] # Blank
      BY <3>2 DEF Sealed
    <3>4. AllOnes.guard = NoGuard
      BY DEF AllOnes
    <3>5. b # [i \in 0 .. BlockSize - 1 |-> Blank]
      BY <1>1, <3>3
    <3> HIDE DEF b, want, f
    <3>6. want.guard # NoGuard
      <4> DEFINE none == [i \in 0 .. BlockSize - 1 |-> Blank]
      <4>1. NoGuard = <<TRUE, none, TRUE>>
        BY DEF NoGuard
      <4>2. \A x, y, z : <<x, y, z>>[2] = y
        OBVIOUS
      <4> HIDE DEF none
      <4>3. \A g, x, y, z : g = <<x, y, z>> => g[2] = y
        BY <4>2
      <4>4. NoGuard[2] = none
        BY <4>1, <4>3, Zenon
      <4>5. want.guard[2] = b
        BY <3>1, <4>3
      <4> QED  BY <3>5, <4>4, <4>5 DEF none
    <3> QED  BY <2>2, <3>4, <3>6
  <2>4. rd.data[d.src + k * Step + BlockSize] = f /\ Block(rd.data, d.src + k * Step) = b
    BY <2>1 DEF Reads
  <2> HIDE DEF f, b, want
  <2> QED  BY <2>2, <2>3, <2>4 DEF Errors, want
<1>4. {k \in 0 .. d.size \div Step - 1 : Errors(rd, d, k) # 0} = {}
  BY <1>2, <1>3
<1> QED  BY <1>4 DEF dml_legacy_dif_check

\* The check of what a job has written is such a job.
LEMMA ReaderReads ==
    ASSUME job \in Jobs
    PROVE  LET d == MakeTask(Reader)
           IN  /\ Reads(Reader, job, out) /\ Reader.op = "check"
               /\ Reads([Reader EXCEPT !.op = "strip"], job, out)
               /\ [Reader EXCEPT !.op = "strip"].op = "strip"
               /\ d.src = 0 /\ d.dst = 0 /\ d.src_app = job.dst.app /\ d.src_ref = job.dst.ref
               /\ d.size = job.blocks * Step
<1>1. {"op", "data", "src", "dst", "blocks", "invert_seed", "invert_result"} \subseteq DOMAIN job
  BY JobAssumption DEF BlankJob
<1>2. /\ Reader.op = "check" /\ Reader.data = out /\ Reader.src = job.dst
      /\ Reader.blocks = job.blocks /\ Reader.dst = job.dst
      /\ Reader.invert_seed = job.invert_seed /\ Reader.invert_result = job.invert_result
      /\ DOMAIN Reader = DOMAIN job
  BY <1>1 DEF Reader
<1> DEFINE r == Reader
           s == [r EXCEPT !.op = "strip"]
<1> HIDE DEF r
<1>3. /\ s.op = "strip" /\ s.data = r.data /\ s.src = r.src /\ s.blocks = r.blocks
      /\ s.invert_seed = r.invert_seed /\ s.invert_result = r.invert_result
  BY <1>1, <1>2 DEF r
<1>4. Reads(r, job, out) /\ Reads(s, job, out)
  BY <1>2, <1>3 DEF Reads, r
<1>5. /\ MakeTask(r).src = 0 /\ MakeTask(r).dst = 0
      /\ MakeTask(r).src_app = job.dst.app /\ MakeTask(r).src_ref = job.dst.ref
      /\ MakeTask(r).size = job.blocks * Step
  BY <1>2 DEF MakeTask, SourceStep, r
<1> QED  BY <1>2, <1>3, <1>4, <1>5 DEF r

\* What update and insert write, without fields that are passed on, is sealed.
LEMMA UpdateSeals ==
    ASSUME NEW j \in Jobs, j.op = "update", NEW o, UpdatedUpTo(j, o, j.blocks)
    PROVE  /\ \A k \in 0 .. j.blocks - 1 : Block(o, k * Step) = Block(j.data, k * Step)
           /\ ~(j.pass_guard \/ j.pass_app \/ j.pass_ref) => Sealed(j, o)
<1>1. j.blocks \in Nat /\ Step \in Nat \ {0} /\ BlockSize \in Nat \ {0}
  BY JobIs
<1>2. ASSUME NEW k \in 0 .. j.blocks - 1
      PROVE  Block(o, k * Step) = Block(j.data, k * Step)
  BY DEF UpdatedUpTo, Block
<1>3. ASSUME NEW k \in 0 .. j.blocks - 1, ~(j.pass_guard \/ j.pass_app \/ j.pass_ref)
      PROVE  /\ o[k * Step] # Blank
             /\ o[k * Step + BlockSize] = Field(j, j.dst, j.dst.app, j.dst.ref, Block(o, k * Step), k)
  <2>1. k * Step + 0 \in 0 .. j.blocks * Step - 1 /\ k * Step + 0 = k * Step
    BY <1>1, InsideSteps
  <2>2. j.data[k * Step] # Blank
    <3>1. SourceStep(j.op) = Step
      BY DEF SourceStep
    <3> QED  BY <2>1, <3>1, JobAssumption
  <2>3. o[k * Step] = j.data[k * Step]
    <3>1. 0 \in 0 .. BlockSize - 1
      BY <1>1
    <3>2. o[k * Step + 0] = j.data[k * Step + 0]
      BY <3>1 DEF UpdatedUpTo
    <3> QED  BY <2>1, <3>2
  <2> DEFINE new == Field(j, j.dst, j.dst.app, j.dst.ref, Block(j.data, k * Step), k)
  <2>4. Updated(j, MakeTask(j), j.data[k * Step + BlockSize], Block(j.data, k * Step), k)
          = [guard |-> new.guard, app |-> new.app, ref |-> new.ref]
    BY <1>3 DEF Updated, MakeTask
  <2>5. new = [guard |-> new.guard, app |-> new.app, ref |-> new.ref]
    BY DEF Field
  <2>6. o[k * Step + BlockSize] = new
    BY <2>4, <2>5 DEF UpdatedUpTo
  <2> QED  BY <1>2, <2>2, <2>3, <2>6
<1> QED  BY <1>2, <1>3 DEF Sealed

\* What insert writes is sealed, and holds the data.
LEMMA InsertSeals ==
    ASSUME NEW j \in Jobs, j.op = "insert", NEW o, InsertedAll(j, o)
    PROVE  Sealed(j, o)
<1>1. j.blocks \in Nat /\ Step \in Nat \ {0} /\ BlockSize \in Nat \ {0}
  BY JobIs
<1>2. ASSUME NEW k \in 0 .. j.blocks - 1
      PROVE  /\ o[k * Step] # Blank
             /\ o[k * Step + BlockSize] = Field(j, j.dst, j.dst.app, j.dst.ref, Block(o, k * Step), k)
  <2>1. k * BlockSize + 0 \in 0 .. j.blocks * BlockSize - 1 /\ k * BlockSize + 0 = k * BlockSize
    BY <1>1, InsideSteps
  <2>2. j.data[k * BlockSize] # Blank
    <3>1. SourceStep(j.op) = BlockSize
      BY DEF SourceStep
    <3> QED  BY <2>1, <3>1, JobAssumption
  <2>3. o[k * Step] = j.data[k * BlockSize]
    <3>1. 0 \in 0 .. BlockSize - 1 /\ k * Step + 0 = k * Step
      BY <1>1
    <3>2. o[k * Step + 0] = j.data[k * BlockSize + 0]
      BY <3>1 DEF InsertedAll
    <3> QED  BY <2>1, <3>1, <3>2
  <2>4. Block(o, k * Step) = Block(j.data, k * BlockSize)
    BY DEF InsertedAll, Block
  <2>5. /\ MakeTask(j).src = 0 /\ MakeTask(j).dst_app = j.dst.app /\ MakeTask(j).dst_ref = j.dst.ref
        /\ 0 + k * BlockSize = k * BlockSize
    BY <1>1 DEF MakeTask
  <2>6. Inserted(j, MakeTask(j), k)
          = Field(j, j.dst, j.dst.app, j.dst.ref, Block(j.data, k * BlockSize), k)
    BY <2>5 DEF Inserted
  <2> QED  BY <2>2, <2>3, <2>4, <2>6 DEF InsertedAll
<1> QED  BY <1>2 DEF Sealed

-----------------------------------------------------------------------------
(* The theorems. *)

\* Statuses that are page faults.
LEMMA FaultStatus ==
    /\ \A s \in Faults : IsPageFault(s)
    /\ \A s \in {Success, DifError} : ~IsPageFault(s) /\ s \notin Faults
  BY DEF Faults, IsPageFault, PageFault, WriteFault, Success, DifError

\* The job has not begun.
LEMMA InitInv == Init => IInv
  BY DEF Init, IInv, BlankOut, BlankRec, BlankRet

\* Every step keeps the invariant: the kernel and the device by WholeRight, a wait
\* after a fault by ContinuedRight.
LEMMA NextInv == IInv /\ [Next]_vars => IInv'
<1> SUFFICES ASSUME IInv, [Next]_vars PROVE IInv'
  OBVIOUS
<1>0. job \in Jobs
  BY DEF IInv
<1>1. CASE SwSubmit
  <2>1. /\ out' = Kernel(job, MakeTask(job), BlankOut, BlankRec).out
        /\ rec' = Kernel(job, MakeTask(job), BlankOut, BlankRec).rec
    BY <1>1 DEF SwSubmit, Becomes, IInv
  <2>2. Right(job, MakeTask(job), out', rec')
    <3>1. Prefix(job, MakeTask(job), job.blocks) = MakeTask(job)
      BY <1>0, JobIs, FirstPart
    <3>2. Right(job, MakeTask(job), Kernel(job, Prefix(job, MakeTask(job), job.blocks), BlankOut, BlankRec).out,
                Kernel(job, MakeTask(job), BlankOut, BlankRec).rec)
      BY <1>0, WholeRight
    <3> QED  BY <2>1, <3>1, <3>2
  <2> QED  BY <1>1, <2>2 DEF SwSubmit, IInv
<1>2. CASE HwSubmit
  BY <1>2 DEF HwSubmit, IInv
<1>3. CASE HwComplete
  <2> DEFINE g == Good(job, MakeTask(job))
  <2>1. /\ out' = Kernel(job, Prefix(job, MakeTask(job), g), BlankOut, BlankRec).out
        /\ rec' = Kernel(job, MakeTask(job), BlankOut, BlankRec).rec
    BY <1>3 DEF HwComplete, HwDone, Becomes, IInv
  <2>2. job.op = "insert" => g = job.blocks
    BY DEF Good
  <2>3. job.op = "update" /\ Bad(job) = {} => g = job.blocks
    BY <1>0, GoodBlocks
  <2> HIDE DEF g
  <2>4. Right(job, MakeTask(job), out', rec')
    BY <1>0, <2>1, <2>2, <2>3, WholeRight
  <2> QED  BY <1>3, <2>4 DEF HwComplete, IInv
<1>4. CASE HwFault
  <2>1. Stopped(job, out', rec')
    BY <1>4 DEF HwFault, Becomes, IInv, Stopped, Faults
  <2> QED  BY <1>4, <2>1 DEF HwFault, IInv
<1>5. CASE WaitJob
  <2>1. /\ job' = job /\ path' = path /\ pc' = "done" /\ pc = "submitted"
        /\ ret' = write_result(job, rec', BlankRet)
    BY <1>5 DEF WaitJob, IInv
  <2>2. ASSUME Right(job, dsc', out', rec') \/ (path = "hardware" /\ rec'.status \in Faults)
        PROVE  IInv'
    BY <2>1, <2>2 DEF IInv
  <2>3. CASE Right(job, dsc, out, rec)
    <3>1. ~IsPageFault(rec.status)
      BY <2>3, FaultStatus DEF Right, RightRecord
    <3>2. UNCHANGED <<dsc, out, rec>>
      BY <1>5, <3>1 DEF WaitJob
    <3> QED  BY <2>2, <2>3, <3>2
  <2>4. CASE ~Right(job, dsc, out, rec)
    <3>1. path # "software" /\ Stopped(job, out, rec) /\ dsc = MakeTask(job)
      BY <2>1, <2>4 DEF IInv
    <3>2. PICK n \in 0 .. job.blocks - 1, s \in Faults :
             /\ n <= Good(job, MakeTask(job))
             /\ out = HwFaulted(job, MakeTask(job), BlankOut, BlankRec, n, s).out
             /\ rec = HwFaulted(job, MakeTask(job), BlankOut, BlankRec, n, s).rec
      BY <3>1 DEF Stopped
    <3> DEFINE f == HwFaulted(job, MakeTask(job), BlankOut, BlankRec, n, s)
    <3>3. rec.status = s
      BY <1>0, <3>2, StoppedRecord
    <3>4. IsPageFault(rec.status)
      BY <3>3, FaultStatus
    <3>5. CASE path = "automatic"
      <4>1. /\ dsc' = update_for_continuation(job, MakeTask(job), rec)
            /\ out' = Kernel(job, dsc', out, rec).out
            /\ rec' = accumulate_records(Kernel(job, dsc', out, rec).rec, rec)
        BY <1>5, <3>1, <3>4, <3>5 DEF WaitJob
      <4>2. f.out = out /\ f.rec = rec
        BY <3>2
      <4> HIDE DEF f
      <4>3. Right(job, dsc', Kernel(job, dsc', f.out, f.rec).out,
                  accumulate_records(Kernel(job, dsc', f.out, f.rec).rec, f.rec))
        BY <1>0, <3>2, <4>1, <4>2, ContinuedRight DEF f
      <4> QED  BY <2>2, <4>1, <4>2, <4>3
    <3>6. CASE path = "hardware"
      <4>1. rec' = rec
        BY <1>5, <3>6 DEF WaitJob
      <4> QED  BY <2>2, <3>3, <3>6, <4>1
    <3> QED  BY <3>1, <3>5, <3>6 DEF IInv
  <2> QED  BY <2>3, <2>4
<1>6. CASE UNCHANGED vars
  BY <1>6 DEF vars, IInv
<1> QED  BY <1>1, <1>2, <1>3, <1>4, <1>5, <1>6 DEF Next

\* Every job is not begun, ended right, or stopped by a fault that only the
\* hardware path leaves to the caller.
THEOREM DifInvariant == Spec => []IInv
  BY InitInv, NextInv, PTL DEF Spec

\* What the caller finds in a job whose status is no page fault.
LEMMA EndedRight ==
    ASSUME IInv, pc = "done", path = "hardware" => ret.status \notin Faults
    PROVE  /\ job \in Jobs /\ Right(job, dsc, out, rec)
           /\ ret.status = rec.status /\ ret.offset = rec.bytes_completed
           /\ job.op # "insert" => ret.result = rec.result
<1>1. ret.status = rec.status /\ ret.offset = rec.bytes_completed
  BY DEF IInv, write_result
<1>2. job.op # "insert" => ret.result = rec.result
  BY DEF IInv, write_result
<1> QED  BY <1>1, <1>2 DEF IInv

\* For every job, and wherever a page fault stopped the device, check, strip and
\* update report the first damaged block of the whole job with its kind of damage
\* and its place: tags go on in the second part where they ended in the first,
\* also where they wrap, and offsets count from the beginning of the job.
THEOREM FirstErrorAlwaysFound == Spec => []FirstErrorFound
<1>1. IInv => FirstErrorFound
  <2> SUFFICES ASSUME IInv, pc = "done", job.op # "insert",
                      path = "hardware" => ret.status \notin {PageFault, WriteFault}
               PROVE  /\ ret.status = Success <=> BadBlocks = {}
                      /\ BadBlocks # {} =>
                            /\ ret.result = Errors(job, MakeTask(job), Min(BadBlocks))
                            /\ ret.offset = Min(BadBlocks) * Step
    BY DEF FirstErrorFound
  <2>1. BadBlocks = Bad(job)
    BY DEF BadBlocks, Bad
  <2>2. /\ RightRecord(job, rec) /\ ret.status = rec.status /\ ret.offset = rec.bytes_completed
        /\ ret.result = rec.result
    BY EndedRight DEF Right, Faults
  <2> QED  BY <2>1, <2>2 DEF RightRecord, Success, DifError
<1> QED  BY <1>1, DifInvariant, PTL

\* For every job and every place of a page fault, the blocks that a successful
\* update leaves are those of the source, and their new fields pass a check with
\* the destination's seeds, masks and formats; a part of the field that is passed
\* through is the source's.
THEOREM UpdateAlwaysVerifies == Spec => []UpdateVerifies
<1>1. IInv => UpdateVerifies
  <2> SUFFICES ASSUME IInv, Succeeded, job.op = "update"
               PROVE  /\ \A k \in 0 .. job.blocks - 1 :
                            Block(out, k * Step) = Block(job.data, k * Step)
                      /\ ~(job.pass_guard \/ job.pass_app \/ job.pass_ref) =>
                            dml_legacy_dif_check(Reader, MakeTask(Reader)) = <<0, 0>>
                      /\ \A k \in 0 .. job.blocks - 1 :
                            LET old == job.data[k * Step + BlockSize]
                                new == out[k * Step + BlockSize]
                            IN  /\ job.pass_guard => new.guard = old.guard
                                /\ job.pass_app => new.app = old.app
                                /\ job.pass_ref => new.ref = old.ref
    BY Zenon DEF UpdateVerifies
  <2>1. job \in Jobs /\ UpdatedUpTo(job, out, job.blocks)
    <3>1. Success \notin Faults
      BY FaultStatus
    <3> QED  BY <3>1, EndedRight DEF Right, Succeeded
  <2>2. /\ \A k \in 0 .. job.blocks - 1 : Block(out, k * Step) = Block(job.data, k * Step)
        /\ ~(job.pass_guard \/ job.pass_app \/ job.pass_ref) => Sealed(job, out)
    BY <2>1, UpdateSeals
  <2>3. ~(job.pass_guard \/ job.pass_app \/ job.pass_ref) =>
            dml_legacy_dif_check(Reader, MakeTask(Reader)) = <<0, 0>>
    BY <2>1, <2>2, ReaderReads, SealedPasses
  <2>4. ASSUME NEW k \in 0 .. job.blocks - 1
        PROVE  LET old == job.data[k * Step + BlockSize]
                   new == out[k * Step + BlockSize]
               IN  /\ job.pass_guard => new.guard = old.guard
                   /\ job.pass_app => new.app = old.app
                   /\ job.pass_ref => new.ref = old.ref
    <3> DEFINE old == job.data[k * Step + BlockSize]
               b == Block(job.data, k * Step)
               t == MakeTask(job)
    <3>1. out[k * Step + BlockSize] = Updated(job, t, old, b, k)
      BY <2>1 DEF UpdatedUpTo
    <3> HIDE DEF old, b, t
    <3>2. LET new == Updated(job, t, old, b, k)
          IN  /\ job.pass_guard => new.guard = old.guard
              /\ job.pass_app => new.app = old.app
              /\ job.pass_ref => new.ref = old.ref
      BY DEF Updated
    <3> QED  BY <3>1, <3>2 DEF old
  <2> QED  BY <2>2, <2>3, <2>4
<1> QED  BY <1>1, DifInvariant, PTL

\* For every job that ran in one piece, by the kernel or by the device, what insert
\* has written passes a check with the same seeds, and strip gives back the source.
THEOREM InsertAlwaysStrips == Spec => []InsertThenStrip
<1>1. IInv => InsertThenStrip
  <2> DEFINE s == [Reader EXCEPT !.op = "strip"]
             d == MakeTask(Reader)
  <2> SUFFICES ASSUME IInv, Succeeded, job.op = "insert", Whole
               PROVE  /\ dml_legacy_dif_check(Reader, MakeTask(Reader)) = <<0, 0>>
                      /\ \A i \in 0 .. job.blocks * BlockSize - 1 :
                            dif_strip(s, d, out, rec).out[i] = job.data[i]
    BY Zenon DEF InsertThenStrip
  <2>1. job \in Jobs /\ InsertedAll(job, out)
    <3>1. Success \notin Faults
      BY FaultStatus
    <3> QED  BY <3>1, EndedRight DEF Right, Succeeded, Whole
  <2>2. Sealed(job, out)
    BY <2>1, InsertSeals
  <2>3. /\ Reads(Reader, job, out) /\ Reads(s, job, out) /\ s.op = "strip"
        /\ d.src = 0 /\ d.dst = 0 /\ d.src_app = job.dst.app /\ d.src_ref = job.dst.ref
        /\ d.size = job.blocks * Step
    BY <2>1, ReaderReads
  <2> HIDE DEF s, d
  <2>4. dml_legacy_dif_check(Reader, d) = <<0, 0>> /\ dml_legacy_dif_check(s, d) = <<0, 0>>
    BY <2>1, <2>2, <2>3, SealedPasses
  <2> DEFINE n == job.blocks
             c == [k \in 0 .. n - 1 |-> [i \in 0 .. BlockSize - 1 |-> out[0 + k * Step + i]]]
             w == WriteBlocks(out, 0, BlockSize, n, c)
  <2>5. /\ n \in Nat /\ Step \in Nat \ {0} /\ BlockSize \in Nat \ {0} /\ Size \in Nat
        /\ n * BlockSize <= Size /\ n * BlockSize \in Nat
    <3>1. /\ n \in Nat /\ Step \in Nat \ {0} /\ BlockSize \in Nat \ {0} /\ Size \in Nat
          /\ n * Step <= Size /\ BlockSize < Step
      BY <2>1, JobIs
    <3>2. n * BlockSize <= n * Step /\ n * Step \in Nat /\ n * BlockSize \in Nat
      BY <3>1
    <3> QED  BY <3>1, <3>2
  <2>6. d.size \div Step = n
    BY <2>3, <2>5, CountOfSteps
  <2>7. dif_strip(s, d, out, rec).out = w
    <3> DEFINE num == d.size \div Step
               all == [k \in 0 .. num - 1 |->
                          [i \in 0 .. BlockSize - 1 |-> s.data[d.src + k * Step + i]]]
    <3>1. DestinationStep(s.op) = BlockSize
      BY <2>3 DEF DestinationStep
    <3>2. dif_strip(s, d, out, rec).out = WriteBlocks(out, d.dst, DestinationStep(s.op), num, all)
      BY <2>4 DEF dif_strip
    <3>3. num = n /\ s.data = out /\ d.src = 0
      BY <2>3, <2>6 DEF Reads
    <3>4. all = c
      BY <3>3
    <3> HIDE DEF num, all, c
    <3> QED  BY <2>3, <3>1, <3>2, <3>3, <3>4
  <2> HIDE DEF c, w
  <2>8. \A k \in 0 .. n - 1, i \in 0 .. BlockSize - 1 : w[0 + (k * BlockSize + i)] = c[k][i]
    <3>1. DOMAIN out = Offsets /\ 0 + n * BlockSize <= Size
      BY <2>1, <2>5 DEF InsertedAll
    <3> QED  BY <2>5, <3>1, WrittenCells DEF w
  <2>9. ASSUME NEW a \in 0 .. n * BlockSize - 1
        PROVE  w[a] = job.data[a]
    <3> DEFINE k == a \div BlockSize
               i == a % BlockSize
    <3>1. k \in 0 .. n - 1 /\ i \in 0 .. BlockSize - 1 /\ a = k * BlockSize + i
      BY <2>5, StepOf
    <3> HIDE DEF k, i
    <3>2. 0 + (k * BlockSize + i) = a /\ 0 + k * Step + i = k * Step + i
      BY <2>5, <3>1
    <3>3. w[a] = c[k][i]
      BY <2>8, <3>1, <3>2
    <3>4. c[k][i] = out[0 + k * Step + i]
      BY <3>1 DEF c
    <3>5. out[k * Step + i] = job.data[k * BlockSize + i]
      BY <2>1, <3>1 DEF InsertedAll
    <3> QED  BY <3>1, <3>2, <3>3, <3>4, <3>5
  <2> QED  BY <2>4, <2>7, <2>9 DEF d
<1> QED  BY <1>1, DifInvariant, PTL
=============================================================================
