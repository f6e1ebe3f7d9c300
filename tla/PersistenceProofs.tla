--------------------------- MODULE PersistenceProofs ---------------------------
(***************************************************************************)
(* What the server may forget and what it may not, for every number of     *)
(* chunks, ticks, edits, restarts and failing statements: no delta on its  *)
(* way to the INSERT, no edit of a chunk that counts as clean, nothing     *)
(* when it stops in order.  Before that, for every size of chunk and of    *)
(* grid: the bytes of a chunk are decoded to it, and each position has one *)
(* sector and one place under each of its two names.                       *)
(*                                                                         *)
(* SerializeChunk and DeserializeChunk are recursive functions.  What they *)
(* compute is the last of a sequence of states, and what holds of each     *)
(* state is carried along the sequence by BoundedInduction.                *)
(***************************************************************************)
EXTENDS VoxelWorld, SequenceTheorems, WellFoundedInduction, TLAPS

(* Arithmetic and induction.                                               *)

(* A set of numbers that goes on from each to the next holds the bound:    *)
(* what there is of induction when nothing may take an operator.           *)
LEMMA BoundedInduction ==
  ASSUME NEW n \in Nat, NEW T \in SUBSET (0 .. n), 0 \in T,
         \A k \in T : k < n => k + 1 \in T
  PROVE  n \in T
  <1> DEFINE U == (0 .. n) \ T
  <1>1. SUFFICES ASSUME U # {} PROVE FALSE
    OBVIOUS
  <1>2. U \subseteq Nat
    OBVIOUS
  <1> HIDE DEF U
  <1>3. PICK x \in U : \A y \in U : ~(<<y, x>> \in OpToRel(<, Nat))
    BY <1>1, <1>2, WFMin, NatLessThanWellFounded, Zenon
  <1>4. \A y \in U : ~(y < x)
    <2>1. \A y \in U : <<y, x>> \in Nat \X Nat
      BY <1>2
    <2> QED
      BY <1>3, <2>1 DEF OpToRel
  <1> QED
    <2>1. x \in 0 .. n /\ x \notin T /\ x # 0
      BY DEF U
    <2>2. x - 1 \in 0 .. n /\ x - 1 < n /\ (x - 1) + 1 = x /\ x - 1 < x
      BY <2>1
    <2>3. x - 1 \in T
      BY <1>4, <2>2 DEF U
    <2> QED
      BY <2>1, <2>2, <2>3

(* A quotient and a remainder are what they are.                           *)
LEMMA QuotientAndRemainder ==
  ASSUME NEW n \in Nat, n # 0, NEW q \in Int, NEW r \in 0 .. n - 1
  PROVE  (n * q + r) \div n = q /\ (n * q + r) % n = r
  <1> DEFINE a == n * q + r
             d == a \div n
             m == a % n
  <1>1. a \in Int /\ d \in Int /\ m \in 0 .. n - 1 /\ a = n * d + m
    OBVIOUS
  <1> HIDE DEF d, m
  <1>2. n * (q - d) = m - r
    BY <1>1
  <1>3. ~(q - d >= 1)
    <2>1. SUFFICES ASSUME q - d >= 1 PROVE FALSE
      OBVIOUS
    <2>2. n * (q - d) >= n
      BY <1>1, <2>1
    <2> QED
      BY <1>1, <1>2, <2>2
  <1>4. ~(q - d <= -1)
    <2>1. SUFFICES ASSUME q - d <= -1 PROVE FALSE
      OBVIOUS
    <2>2. n * (q - d) <= -n
      BY <1>1, <2>1
    <2> QED
      BY <1>1, <1>2, <2>2
  <1>5. q = d
    BY <1>1, <1>3, <1>4
  <1>6. r = m
    BY <1>1, <1>2, <1>5
  <1> QED
    BY <1>5, <1>6 DEF d, m

(* Quotient and remainder of a natural number.                             *)
LEMMA Divided ==
  ASSUME NEW a \in Nat, NEW n \in Nat, n # 0
  PROVE  a \div n \in Nat /\ a % n \in 0 .. n - 1 /\ a = n * (a \div n) + (a % n)
  <1> DEFINE d == a \div n
             m == a % n
  <1>1. d \in Int /\ m \in 0 .. n - 1 /\ a = n * d + m
    OBVIOUS
  <1> HIDE DEF d, m
  <1>2. d >= 0
    <2>1. SUFFICES ASSUME d <= -1 PROVE FALSE
      BY <1>1
    <2>2. n * d <= -n
      BY <1>1, <2>1
    <2> QED
      BY <1>1, <2>2
  <1> QED
    BY <1>1, <1>2 DEF d, m

(* A number below a product has a quotient below its other factor.         *)
LEMMA QuotientBelow ==
  ASSUME NEW a \in Nat, NEW n \in Nat, n # 0, NEW k \in Nat, a < n * k
  PROVE  a \div n < k
  <1> DEFINE d == a \div n
             m == a % n
  <1>1. d \in Nat /\ m \in 0 .. n - 1 /\ a = n * d + m
    BY Divided
  <1> HIDE DEF d, m
  <1>2. SUFFICES ASSUME d >= k PROVE FALSE
    BY <1>1 DEF d
  <1>3. n * d >= n * k
    BY <1>1, <1>2
  <1> QED
    BY <1>1, <1>3

(* Two digits are told by the number they make.                            *)
LEMMA DigitsDistinct ==
  ASSUME NEW n \in Nat, n # 0, NEW q1 \in Int, NEW q2 \in Int,
         NEW r1 \in 0 .. n - 1, NEW r2 \in 0 .. n - 1, n * q1 + r1 = n * q2 + r2
  PROVE  q1 = q2 /\ r1 = r2
  BY QuotientAndRemainder

-----------------------------------------------------------------------------
(* The two bytes of a count, read the lower one first.                     *)
LEMMA CountFromBytes ==
  ASSUME NEW count \in 0 .. MaxRun
  PROVE  /\ count % ByteBase \in Nat /\ (count \div ByteBase) % ByteBase \in Nat
         /\ (count % ByteBase) + ByteBase * ((count \div ByteBase) % ByteBase) = count
  <1> DEFINE B == ByteBase
             d == count \div B
             m == count % B
  <1>1. B \in Nat /\ B > 1 /\ B * B - 1 \in Nat /\ count \in Nat /\ count < B * B
    BY CodecAssumption DEF MaxRun
  <1> HIDE DEF B
  <1>2. d \in Int /\ m \in 0 .. B - 1 /\ count = B * d + m
    BY <1>1
  <1> HIDE DEF d, m
  <1>3. d >= 0
    <2>1. SUFFICES ASSUME d <= -1 PROVE FALSE
      BY <1>2
    <2>2. B * d <= -B
      BY <1>1, <1>2, <2>1
    <2> QED
      BY <1>1, <1>2, <2>2
  <1>4. d < B
    <2>1. SUFFICES ASSUME d >= B PROVE FALSE
      BY <1>1, <1>2
    <2>2. B * d >= B * B
      BY <1>1, <1>2, <2>1
    <2> QED
      BY <1>1, <1>2, <2>2
  <1>5. d = B * 0 + d /\ d \in 0 .. B - 1
    BY <1>1, <1>2, <1>3, <1>4
  <1>6. d % B = d
    BY <1>1, <1>5, QuotientAndRemainder
  <1> QED
    BY <1>1, <1>2, <1>3, <1>6 DEF d, m, B

-----------------------------------------------------------------------------
(* The states of serializeChunk's scan, voxel by voxel.                    *)
Scanned(s, v) ==
  IF GoesOn(s, v) THEN [s EXCEPT !.count = @ + 1]
  ELSE [out |-> WithRun(s), type |-> v, count |-> 1]

IsScan(f, voxels) ==
  /\ f[1] = [out |-> <<>>, type |-> voxels[1], count |-> 1]
  /\ \A i \in 2 .. ChunkVolume : f[i] = Scanned(f[i - 1], voxels[i])

(* What SerializeChunk computes is the last state of such a scan.          *)
LEMMA SerializeIsScan ==
  ASSUME NEW voxels
  PROVE  \E f : IsScan(f, voxels) /\ SerializeChunk(voxels) = WithRun(f[ChunkVolume])
  <1> DEFINE first == [out |-> <<>>, type |-> voxels[1], count |-> 1]
             Step(f, i) == IF i = 1 THEN first ELSE Scanned(f[i - 1], voxels[i])
             last == ChunkVolume - 1
             T == {m \in 0 .. last : \E f : f = [i \in 1 .. m + 1 |-> Step(f, i)]}
             scan == CHOOSE f : f = [i \in Cells |-> Step(f, i)]
  <1>0. last \in Nat /\ last + 1 = ChunkVolume /\ ChunkVolume \in Nat
    BY CodecAssumption
  <1>1. 0 \in T
    <2> DEFINE f == [i \in 1 .. 0 + 1 |-> first]
    <2> HIDE DEF first
    <2>1. f = [i \in 1 .. 0 + 1 |-> Step(f, i)]
      OBVIOUS
    <2> HIDE DEF f, Step
    <2>2. \E h : h = [i \in 1 .. 0 + 1 |-> Step(h, i)]
      BY <2>1
    <2> QED
      BY <1>0, <2>2
  <1>2. ASSUME NEW m \in T, m < last
        PROVE  m + 1 \in T
    <2>1. PICK f : f = [i \in 1 .. m + 1 |-> Step(f, i)]
      OBVIOUS
    <2> DEFINE next == Scanned(f[m + 1], voxels[m + 2])
               h == [i \in 1 .. m + 2 |-> IF i = m + 2 THEN next ELSE f[i]]
    <2> HIDE DEF first
    <2>2. m \in Nat /\ \A i \in 1 .. m + 1 : f[i] = Step(f, i)
      BY <1>0, <2>1
    <2>3. \A i \in 1 .. m + 2 : h[i] = Step(h, i)
      <3>1. SUFFICES ASSUME NEW i \in 1 .. m + 2 PROVE h[i] = Step(h, i)
        OBVIOUS
      <3>2. CASE i = 1
        BY <2>2, <3>2
      <3>3. CASE i = m + 2
        <4>1. i # 1 /\ i - 1 = m + 1 /\ i - 1 \in 1 .. m + 2 /\ i - 1 # m + 2
          BY <2>2, <3>3
        <4>2. h[i] = next /\ h[i - 1] = f[m + 1]
          BY <3>3, <4>1
        <4> HIDE DEF h
        <4> QED
          BY <3>3, <4>1, <4>2
      <3>4. CASE i \in 2 .. m + 1
        <4>1. h[i] = f[i] /\ h[i - 1] = f[i - 1] /\ i \in 1 .. m + 1 /\ i # 1
          BY <2>2, <3>4
        <4> HIDE DEF h
        <4> QED
          BY <2>2, <4>1
      <3> QED
        BY <2>2, <3>2, <3>3, <3>4
    <2>4. h = [i \in 1 .. m + 2 |-> Step(h, i)]
      <3> HIDE DEF Step, next
      <3> QED
        BY <2>3
    <2> HIDE DEF h, Step
    <2>5. \E k : k = [i \in 1 .. m + 2 |-> Step(k, i)]
      BY <2>4
    <2>6. (m + 1) + 1 = m + 2 /\ m + 1 \in 0 .. last
      BY <1>0, <1>2, <2>2
    <2> QED
      BY <2>5, <2>6
  <1>3. last \in T
    <2> HIDE DEF T, last
    <2> QED
      BY <1>0, <1>1, <1>2, BoundedInduction DEF T
  <1>4. scan = [i \in Cells |-> Step(scan, i)]
    <2> HIDE DEF Step, first
    <2>1. \E f : f = [i \in Cells |-> Step(f, i)]
      BY <1>0, <1>3 DEF Cells
    <2> QED
      BY <2>1
  <1>5. SerializeChunk(voxels) = WithRun(scan[ChunkVolume])
    BY DEF SerializeChunk, LastRunOut, Scanned
  <1> HIDE DEF scan
  <1>6. IsScan(scan, voxels)
    <2>1. 1 \in Cells /\ \A i \in 2 .. ChunkVolume : i \in Cells /\ i # 1
      BY <1>0, CodecAssumption DEF Cells
    <2> QED
      BY <1>4, <2>1 DEF IsScan
  <1> QED
    BY <1>5, <1>6

(* The states of deserializeChunk, run by run.                             *)
Unread(before) == [ok |-> TRUE, filled |-> 0, voxels |-> before]

RunRead(r, data, k) == ReadRun(r, data[3 * k - 2] + ByteBase * data[3 * k - 1], data[3 * k])

IsReading(r, data, runs, before) ==
  /\ r[0] = Unread(before)
  /\ \A k \in 1 .. runs : r[k] = RunRead(r[k - 1], data, k)

Verdict(s) == [ok |-> s.ok /\ s.filled = ChunkVolume, voxels |-> s.voxels]

(* What DeserializeChunk computes is the last state of such a reading.     *)
LEMMA DeserializeIsReading ==
  ASSUME NEW data, NEW before, NEW runs \in Nat, runs = Len(data) \div 3
  PROVE  \E r : IsReading(r, data, runs, before)
                /\ DeserializeChunk(data, before) = Verdict(r[runs])
  <1> DEFINE first == Unread(before)
             Step(f, k) == IF k = 0 THEN first ELSE RunRead(f[k - 1], data, k)
             T == {m \in 0 .. runs : \E f : f = [k \in 0 .. m |-> Step(f, k)]}
             read == CHOOSE f : f = [k \in 0 .. runs |-> Step(f, k)]
  <1>1. 0 \in T
    <2> DEFINE f == [k \in 0 .. 0 |-> first]
    <2> HIDE DEF first
    <2>1. f = [k \in 0 .. 0 |-> Step(f, k)]
      OBVIOUS
    <2> HIDE DEF f, Step
    <2>2. \E h : h = [k \in 0 .. 0 |-> Step(h, k)]
      BY <2>1
    <2> QED
      BY <2>2
  <1>2. ASSUME NEW m \in T, m < runs
        PROVE  m + 1 \in T
    <2>1. PICK f : f = [k \in 0 .. m |-> Step(f, k)]
      OBVIOUS
    <2> DEFINE next == RunRead(f[m], data, m + 1)
               h == [k \in 0 .. m + 1 |-> IF k = m + 1 THEN next ELSE f[k]]
    <2> HIDE DEF first
    <2>2. m \in Nat /\ \A k \in 0 .. m : f[k] = Step(f, k)
      BY <2>1
    <2>3. \A k \in 0 .. m + 1 : h[k] = Step(h, k)
      <3>1. SUFFICES ASSUME NEW k \in 0 .. m + 1 PROVE h[k] = Step(h, k)
        OBVIOUS
      <3>2. CASE k = 0
        BY <2>2, <3>2
      <3>3. CASE k = m + 1
        BY <2>2, <3>3
      <3>4. CASE k \in 1 .. m
        <4>1. h[k] = f[k] /\ h[k - 1] = f[k - 1]
          BY <2>2, <3>4
        <4> QED
          BY <2>2, <3>4, <4>1
      <3> QED
        BY <2>2, <3>2, <3>3, <3>4
    <2>4. h = [k \in 0 .. m + 1 |-> Step(h, k)]
      <3> HIDE DEF Step, next
      <3> QED
        BY <2>3
    <2> HIDE DEF h, Step
    <2>5. \E g : g = [k \in 0 .. m + 1 |-> Step(g, k)]
      BY <2>4
    <2> QED
      BY <1>2, <2>2, <2>5
  <1>3. runs \in T
    <2> HIDE DEF T
    <2> QED
      BY <1>1, <1>2, BoundedInduction DEF T
  <1>4. read = [k \in 0 .. runs |-> Step(read, k)]
    BY <1>3
  <1>5. DeserializeChunk(data, before) = Verdict(read[runs])
    BY DEF DeserializeChunk, Unread, RunRead, Verdict
  <1> HIDE DEF read
  <1>6. IsReading(read, data, runs, before)
    BY <1>4 DEF IsReading
  <1> QED
    BY <1>5, <1>6

(* There is one reading of the data, so that any gives the result.         *)
LEMMA ReadingEnds ==
  ASSUME NEW data, NEW before, NEW runs \in Nat, runs = Len(data) \div 3,
         NEW r, IsReading(r, data, runs, before)
  PROVE  DeserializeChunk(data, before) = Verdict(r[runs])
  <1>1. PICK q : /\ IsReading(q, data, runs, before)
                 /\ DeserializeChunk(data, before) = Verdict(q[runs])
    BY DeserializeIsReading
  <1> DEFINE T == {k \in 0 .. runs : r[k] = q[k]}
  <1>2. 0 \in T
    BY <1>1 DEF IsReading
  <1>3. ASSUME NEW k \in T, k < runs
        PROVE  k + 1 \in T
    <2>1. k + 1 \in 1 .. runs /\ (k + 1) - 1 = k /\ k + 1 \in 0 .. runs
      BY <1>3
    <2>2. r[k + 1] = RunRead(r[k], data, k + 1) /\ q[k + 1] = RunRead(q[k], data, k + 1)
      BY <1>1, <2>1 DEF IsReading
    <2> QED
      BY <2>1, <2>2
  <1>4. runs \in T
    <2> HIDE DEF T
    <2> QED
      BY <1>2, <1>3, BoundedInduction DEF T
  <1> QED
    BY <1>1, <1>4

-----------------------------------------------------------------------------
(* The first voxels of one chunk, and the others of another.               *)
UpTo(i, voxels, before) == [j \in Cells |-> IF j <= i THEN voxels[j] ELSE before[j]]

(* All the runs in the data, and no fewer, read the first voxels.          *)
Reads(data, runs, i, voxels, before) ==
  \E r : /\ IsReading(r, data, runs, before)
         /\ r[runs] = [ok |-> TRUE, filled |-> i, voxels |-> UpTo(i, voxels, before)]
         /\ \A k \in 0 .. runs - 1 : r[k].filled \in 0 .. i - 1

(* The scan has come to voxel i: those before the run in progress are out. *)
Reached(s, i, runs, voxels, before) ==
  /\ s = [out |-> s.out, type |-> voxels[i], count |-> s.count]
  /\ s.out \in Seq(Nat) /\ Len(s.out) = 3 * runs
  /\ s.count \in 1 .. MaxRun /\ s.count <= i
  /\ \A j \in (i - s.count) + 1 .. i : voxels[j] = voxels[i]
  /\ Reads(s.out, runs, i - s.count, voxels, before)

(* With the run in progress put out, the runs read the voxels so far.      *)
LEMMA LastRunIsRead ==
  ASSUME NEW voxels \in [Cells -> Types], NEW before \in [Cells -> Types],
         NEW i \in Cells, NEW runs \in Nat, NEW s, Reached(s, i, runs, voxels, before)
  PROVE  /\ WithRun(s) \in Seq(Nat) /\ Len(WithRun(s)) = 3 * (runs + 1)
         /\ Reads(WithRun(s), runs + 1, i, voxels, before)
  <1> DEFINE n == s.count
             type == voxels[i]
             low == n % ByteBase
             high == (n \div ByteBase) % ByteBase
             run == <<low, high, type>>
             out == s.out
             data == WithRun(s)
             old == i - n
  <1>1. /\ n \in 1 .. MaxRun /\ n <= i /\ out \in Seq(Nat) /\ Len(out) = 3 * runs
        /\ s.type = type /\ type \in Types /\ type \in Nat
        /\ i \in Nat /\ i <= ChunkVolume /\ ChunkVolume \in Nat
    BY CodecAssumption DEF Reached, Cells, Bytes
  <1>2. MaxRun \in Nat
    BY CodecAssumption DEF MaxRun
  <1>3. low \in Nat /\ high \in Nat /\ low + ByteBase * high = n
    BY <1>1, <1>2, CountFromBytes
  <1>4. n \in Nat /\ n # 0 /\ old \in Nat /\ old < i /\ old + n = i /\ old # ChunkVolume
    BY <1>1, <1>2
  <1>5. data = out \o run
    BY <1>1 DEF WithRun
  <1> HIDE DEF low, high, n, type, out, data
  <1>6. run \in Seq(Nat) /\ Len(run) = 3 /\ run[1] = low /\ run[2] = high /\ run[3] = type
    BY <1>1, <1>3
  <1> HIDE DEF run
  <1>7. /\ data \in Seq(Nat) /\ Len(data) = 3 * runs + 3
        /\ \A j \in 1 .. 3 * runs : data[j] = out[j]
        /\ \A j \in 3 * runs + 1 .. 3 * runs + 3 : data[j] = run[j - 3 * runs]
    <2>1. /\ data \in Seq(Nat) /\ Len(data) = Len(out) + Len(run)
          /\ \A j \in 1 .. Len(out) + Len(run) :
               data[j] = IF j <= Len(out) THEN out[j] ELSE run[j - Len(out)]
      BY <1>1, <1>5, <1>6, ConcatProperties
    <2>2. /\ Len(data) = 3 * runs + 3
          /\ \A j \in 1 .. 3 * runs + 3 :
               data[j] = IF j <= 3 * runs THEN out[j] ELSE run[j - 3 * runs]
      BY <1>1, <1>6, <2>1
    <2>3. /\ \A j \in 1 .. 3 * runs : j \in 1 .. 3 * runs + 3 /\ j <= 3 * runs
          /\ \A j \in 3 * runs + 1 .. 3 * runs + 3 :
               j \in 1 .. 3 * runs + 3 /\ ~(j <= 3 * runs)
      OBVIOUS
    <2> QED
      BY <2>1, <2>2, <2>3
  <1>8. data[3 * runs + 1] = low /\ data[3 * runs + 2] = high /\ data[3 * runs + 3] = type
    <2> DEFINE a == 3 * runs
    <2>1. a \in Int /\ \A j \in a + 1 .. a + 3 : data[j] = run[j - a]
      BY <1>7
    <2> HIDE DEF a
    <2>2. /\ a + 1 \in a + 1 .. a + 3 /\ a + 2 \in a + 1 .. a + 3 /\ a + 3 \in a + 1 .. a + 3
          /\ (a + 1) - a = 1 /\ (a + 2) - a = 2 /\ (a + 3) - a = 3
      BY <2>1
    <2>3. data[a + 1] = run[1] /\ data[a + 2] = run[2] /\ data[a + 3] = run[3]
      BY <2>1, <2>2
    <2> QED
      BY <1>6, <2>3 DEF a
  <1>9. PICK r : /\ IsReading(r, out, runs, before)
                 /\ r[runs] = [ok |-> TRUE, filled |-> old, voxels |-> UpTo(old, voxels, before)]
                 /\ \A k \in 0 .. runs - 1 : r[k].filled \in 0 .. old - 1
    BY DEF Reached, Reads, out, n
  <1> DEFINE next == RunRead(r[runs], data, runs + 1)
             q == [k \in 0 .. runs + 1 |-> IF k = runs + 1 THEN next ELSE r[k]]
  <1>10. next = [ok |-> TRUE, filled |-> i, voxels |-> UpTo(i, voxels, before)]
    <2> DEFINE was == UpTo(old, voxels, before)
               now == [j \in Cells |-> IF old < j /\ j <= i THEN type ELSE was[j]]
    <2>1. next = ReadRun(r[runs], n, type)
      <3>1. 3 * (runs + 1) - 2 = 3 * runs + 1 /\ 3 * (runs + 1) - 1 = 3 * runs + 2
            /\ 3 * (runs + 1) = 3 * runs + 3
        OBVIOUS
      <3> QED
        BY <1>3, <1>8, <3>1 DEF RunRead
    <2>2. (IF old + n < ChunkVolume THEN old + n ELSE ChunkVolume) = i
      BY <1>1, <1>4
    <2>3. next = [ok |-> TRUE, filled |-> i, voxels |-> now]
      <3>1. r[runs].ok = TRUE /\ r[runs].filled = old /\ r[runs].voxels = was
        BY <1>9
      <3> HIDE DEF was, next, old
      <3> QED
        BY <1>4, <2>1, <2>2, <3>1 DEF ReadRun
    <2>4. now = UpTo(i, voxels, before)
      <3>1. \A j \in Cells : old < j /\ j <= i => voxels[j] = type
        <4>1. \A j \in old + 1 .. i : voxels[j] = type
          BY DEF Reached, n, type
        <4> QED
          BY <1>1, <1>4, <4>1 DEF Cells
      <3>2. \A j \in Cells : now[j] = IF j <= i THEN voxels[j] ELSE before[j]
        BY <1>1, <1>4, <3>1 DEF Cells, UpTo
      <3> HIDE DEF now
      <3>3. now = [j \in Cells |-> now[j]]
        BY DEF now
      <3> QED
        BY <3>2, <3>3 DEF UpTo
    <2> QED
      BY <2>3, <2>4
  <1>11. IsReading(q, data, runs + 1, before)
    <2>1. q[0] = Unread(before)
      BY <1>9 DEF IsReading
    <2>2. ASSUME NEW k \in 1 .. runs + 1
          PROVE  q[k] = RunRead(q[k - 1], data, k)
      <3>1. CASE k = runs + 1
        <4>1. q[k] = next /\ q[k - 1] = r[runs] /\ k = runs + 1
          BY <3>1
        <4> HIDE DEF q
        <4> QED
          BY <4>1
      <3>2. CASE k # runs + 1
        <4>1. k \in 1 .. runs /\ q[k] = r[k] /\ q[k - 1] = r[k - 1]
          BY <3>2
        <4>2. r[k] = RunRead(r[k - 1], out, k)
          BY <1>9, <4>1 DEF IsReading
        <4>3. /\ data[3 * k - 2] = out[3 * k - 2] /\ data[3 * k - 1] = out[3 * k - 1]
              /\ data[3 * k] = out[3 * k]
          <5>1. /\ 3 * k - 2 \in 1 .. 3 * runs /\ 3 * k - 1 \in 1 .. 3 * runs
                /\ 3 * k \in 1 .. 3 * runs
            BY <4>1
          <5> QED
            BY <1>7, <5>1
        <4>4. RunRead(r[k - 1], out, k) = RunRead(r[k - 1], data, k)
          BY <4>3 DEF RunRead
        <4> HIDE DEF q
        <4> QED
          BY <4>1, <4>2, <4>4
      <3> QED
        BY <3>1, <3>2
    <2> HIDE DEF q
    <2> QED
      BY <2>1, <2>2 DEF IsReading
  <1>12. q[runs + 1] = next
    OBVIOUS
  <1>13. \A k \in 0 .. (runs + 1) - 1 : q[k].filled \in 0 .. i - 1
    <2>1. SUFFICES ASSUME NEW k \in 0 .. runs PROVE q[k].filled \in 0 .. i - 1
      <3>1. (runs + 1) - 1 = runs
        OBVIOUS
      <3> HIDE DEF q
      <3> QED
        BY <2>1, <3>1
    <2>2. q[k] = r[k]
      OBVIOUS
    <2>3. CASE k = runs
      BY <1>1, <1>4, <1>9, <2>2, <2>3
    <2>4. CASE k # runs
      <3>1. r[k].filled \in 0 .. old - 1
        BY <1>9, <2>4
      <3> HIDE DEF q, old
      <3> QED
        BY <1>1, <1>4, <2>2, <3>1
    <2> QED
      BY <2>3, <2>4
  <1> HIDE DEF q, next
  <1>14. Reads(data, runs + 1, i, voxels, before)
    BY <1>10, <1>11, <1>12, <1>13 DEF Reads
  <1>15. Len(data) = 3 * (runs + 1)
    BY <1>7
  <1> QED
    BY <1>7, <1>14, <1>15 DEF data

(* The scan comes to every voxel with those before it told by its runs.    *)
LEMMA ScanReaches ==
  ASSUME NEW voxels \in [Cells -> Types], NEW before \in [Cells -> Types],
         NEW f, IsScan(f, voxels)
  PROVE  \A i \in Cells : \E runs \in Nat : Reached(f[i], i, runs, voxels, before)
  <1> DEFINE last == ChunkVolume - 1
             Good(i) == \E runs \in Nat : Reached(f[i], i, runs, voxels, before)
             T == {m \in 0 .. last : \A i \in 1 .. m + 1 : Good(i)}
  <1>1. last \in Nat /\ last + 1 = ChunkVolume /\ ChunkVolume \in Nat /\ 1 \in Cells
    BY CodecAssumption DEF Cells
  <1>2. MaxRun \in Nat /\ MaxRun > 1
    <2>1. ByteBase \in Nat /\ ByteBase >= 2
      BY CodecAssumption
    <2>2. ByteBase * ByteBase >= 2 * ByteBase /\ ByteBase * ByteBase \in Nat
      BY <2>1
    <2> QED
      BY <2>1, <2>2 DEF MaxRun
  <1>3. Good(1)
    <2>1. f[1] = [out |-> <<>>, type |-> voxels[1], count |-> 1]
      BY DEF IsScan
    <2>2. PICK s : s = f[1]
      OBVIOUS
    <2>3. s.out = <<>> /\ s.count = 1 /\ s = [out |-> s.out, type |-> voxels[1], count |-> s.count]
      BY <2>1, <2>2
    <2>4. UpTo(0, voxels, before) = before
      BY <1>1 DEF UpTo, Cells
    <2>5. Reads(<<>>, 0, 0, voxels, before)
      <3> DEFINE r == [k \in 0 .. 0 |-> Unread(before)]
      <3>1. IsReading(r, <<>>, 0, before)
        BY DEF IsReading
      <3>2. r[0] = [ok |-> TRUE, filled |-> 0, voxels |-> UpTo(0, voxels, before)]
        <4>1. r[0] = Unread(before)
          OBVIOUS
        <4>2. Unread(before) = [ok |-> TRUE, filled |-> 0, voxels |-> before]
          BY DEF Unread
        <4> HIDE DEF r
        <4> QED
          BY <2>4, <4>1, <4>2, Zenon
      <3>3. \A k \in 0 .. 0 - 1 : r[k].filled \in 0 .. 0 - 1
        OBVIOUS
      <3> HIDE DEF r
      <3> QED
        BY <3>1, <3>2, <3>3 DEF Reads
    <2>6. Reached(s, 1, 0, voxels, before)
      <3>1. <<>> \in Seq(Nat) /\ Len(<<>>) = 3 * 0 /\ 1 - 1 = 0 /\ 1 \in 1 .. MaxRun /\ 1 <= 1
        BY <1>2
      <3>2. \A j \in (1 - 1) + 1 .. 1 : voxels[j] = voxels[1]
        OBVIOUS
      <3> QED
        BY <2>3, <2>5, <3>1, <3>2 DEF Reached
    <2> QED
      BY <2>2, <2>6
  <1>4. ASSUME NEW i \in Cells, i + 1 \in Cells, Good(i)
        PROVE  Good(i + 1)
    <2>1. PICK runs \in Nat : Reached(f[i], i, runs, voxels, before)
      BY <1>4
    <2>2. PICK s, t : s = f[i] /\ t = f[i + 1]
      OBVIOUS
    <2>3. i \in Nat /\ i >= 1 /\ i + 1 <= ChunkVolume
      BY <1>1, <1>4 DEF Cells
    <2>4. t = Scanned(s, voxels[i + 1])
      <3>1. i + 1 \in 2 .. ChunkVolume /\ (i + 1) - 1 = i
        BY <1>1, <2>3
      <3>2. f[i + 1] = Scanned(f[(i + 1) - 1], voxels[i + 1])
        BY <3>1 DEF IsScan
      <3> QED
        BY <2>2, <3>1, <3>2
    <2>5. Reached(s, i, runs, voxels, before)
      BY <2>1, <2>2
    <2>6. /\ s = [out |-> s.out, type |-> voxels[i], count |-> s.count]
          /\ s.count \in 1 .. MaxRun /\ s.count <= i /\ s.type = voxels[i]
          /\ s.out \in Seq(Nat) /\ Len(s.out) = 3 * runs
          /\ \A j \in (i - s.count) + 1 .. i : voxels[j] = voxels[i]
          /\ Reads(s.out, runs, i - s.count, voxels, before)
      BY <2>5 DEF Reached
    <2>7. PICK c, o, v : c = s.count /\ o = s.out /\ v = voxels[i + 1]
      OBVIOUS
    <2>8. c \in Nat /\ c + 1 <= i + 1 /\ (i + 1) - (c + 1) = i - c
      <3>1. c \in Nat /\ c <= i
        BY <1>2, <2>6, <2>7
      <3> QED
        BY <2>3, <3>1
    <2>9. CASE GoesOn(s, v)
      <3>1. v = voxels[i] /\ c < MaxRun
        BY <2>6, <2>7, <2>9 DEF GoesOn
      <3>2. t = [out |-> o, type |-> v, count |-> c + 1]
        <4>1. s = [out |-> o, type |-> v, count |-> c]
          BY <2>6, <2>7, <3>1
        <4> QED
          BY <2>4, <2>7, <2>9, <4>1 DEF Scanned
      <3>3. t.out = o /\ t.count = c + 1 /\ t = [out |-> t.out, type |-> v, count |-> t.count]
        BY <3>2
      <3>4. \A j \in (i - c) + 1 .. i + 1 : voxels[j] = v
        <4>1. \A j \in (i - c) + 1 .. i + 1 : j \in (i - c) + 1 .. i \/ j = i + 1
          BY <2>3, <2>8
        <4> QED
          BY <2>6, <2>7, <3>1, <4>1
      <3>5. Reached(t, i + 1, runs, voxels, before)
        <4>1. c + 1 \in 1 .. MaxRun
          BY <1>2, <2>8, <3>1
        <4> QED
          BY <2>6, <2>7, <2>8, <3>3, <3>4, <4>1 DEF Reached
      <3> QED
        BY <2>2, <3>5
    <2>10. CASE ~GoesOn(s, v)
      <3>1. t = [out |-> WithRun(s), type |-> v, count |-> 1]
        BY <2>4, <2>7, <2>10 DEF Scanned
      <3>2. /\ WithRun(s) \in Seq(Nat) /\ Len(WithRun(s)) = 3 * (runs + 1)
            /\ Reads(WithRun(s), runs + 1, i, voxels, before)
        BY <2>5, LastRunIsRead
      <3>3. t.out = WithRun(s) /\ t.count = 1 /\ t = [out |-> t.out, type |-> v, count |-> t.count]
        BY <3>1
      <3>4. 1 \in 1 .. MaxRun /\ (i + 1) - 1 = i /\ 1 <= i + 1
        BY <1>2, <2>3
      <3>5. \A j \in i + 1 .. i + 1 : voxels[j] = v
        BY <2>3, <2>7
      <3>6. Reached(t, i + 1, runs + 1, voxels, before)
        BY <2>7, <3>2, <3>3, <3>4, <3>5 DEF Reached
      <3>7. runs + 1 \in Nat
        OBVIOUS
      <3> QED
        BY <2>2, <3>6, <3>7
    <2> QED
      BY <2>9, <2>10
  <1>5. 0 \in T
    <2>1. \A i \in 1 .. 0 + 1 : i = 1
      OBVIOUS
    <2> QED
      BY <1>1, <1>3, <2>1
  <1>6. ASSUME NEW m \in T, m < last
        PROVE  m + 1 \in T
    <2>1. m \in Nat /\ m + 1 \in 0 .. last /\ m + 1 \in Cells /\ (m + 1) + 1 \in Cells
      BY <1>1, <1>6 DEF Cells
    <2>2. \A i \in 1 .. m + 1 : Good(i)
      OBVIOUS
    <2> HIDE DEF Good
    <2>3. Good((m + 1) + 1)
      BY <1>4, <2>1, <2>2
    <2>4. \A i \in 1 .. (m + 1) + 1 : i \in 1 .. m + 1 \/ i = (m + 1) + 1
      BY <2>1
    <2> QED
      BY <2>1, <2>2, <2>3, <2>4
  <1>7. last \in T
    <2> HIDE DEF T, last
    <2> QED
      BY <1>1, <1>5, <1>6, BoundedInduction DEF T
  <1>8. \A i \in 1 .. ChunkVolume : Good(i)
    <2> HIDE DEF Good
    <2> QED
      BY <1>1, <1>7
  <1> QED
    BY <1>8 DEF Cells

(* VoxelSystem.cpp:116-183: the bytes of any chunk, of any size, are       *)
(* decoded to it, and no piece cut from their start is.                    *)
THEOREM ChunksRoundTrip == RoundTrip
  <1>1. SUFFICES ASSUME NEW voxels \in [Cells -> Types], NEW before \in [Cells -> Types]
                 PROVE  LET bytes == SerializeChunk(voxels)
                        IN  /\ DeserializeChunk(bytes, before) = [ok |-> TRUE, voxels |-> voxels]
                            /\ \A n \in 0 .. Len(bytes) - 1 :
                                 ~DeserializeChunk(SubSeq(bytes, 1, n), before).ok
    BY DEF RoundTrip
  <1>2. PICK f : IsScan(f, voxels) /\ SerializeChunk(voxels) = WithRun(f[ChunkVolume])
    BY SerializeIsScan
  <1>3. ChunkVolume \in Cells /\ ChunkVolume \in Nat
    BY CodecAssumption DEF Cells
  <1>4. PICK runs \in Nat : Reached(f[ChunkVolume], ChunkVolume, runs, voxels, before)
    BY <1>2, <1>3, ScanReaches
  <1>5. PICK bytes : bytes = SerializeChunk(voxels)
    OBVIOUS
  <1>6. PICK m \in Nat : m = runs + 1
    OBVIOUS
  <1>7. bytes \in Seq(Nat) /\ Len(bytes) = 3 * m /\ Reads(bytes, m, ChunkVolume, voxels, before)
    BY <1>2, <1>3, <1>4, <1>5, <1>6, LastRunIsRead
  <1>8. PICK r : /\ IsReading(r, bytes, m, before)
                 /\ r[m] = [ok |-> TRUE, filled |-> ChunkVolume,
                            voxels |-> UpTo(ChunkVolume, voxels, before)]
                 /\ \A k \in 0 .. m - 1 : r[k].filled \in 0 .. ChunkVolume - 1
    BY <1>7 DEF Reads
  <1>9. DeserializeChunk(bytes, before) = [ok |-> TRUE, voxels |-> voxels]
    <2>1. m = Len(bytes) \div 3
      BY <1>7
    <2>2. DeserializeChunk(bytes, before) = Verdict(r[m])
      BY <1>8, <2>1, ReadingEnds
    <2>3. UpTo(ChunkVolume, voxels, before) = voxels
      BY <1>3 DEF UpTo, Cells
    <2>4. PICK d : d = r[m]
      OBVIOUS
    <2>5. d.ok = TRUE /\ d.filled = ChunkVolume /\ d.voxels = voxels
      BY <1>8, <2>3, <2>4
    <2>6. Verdict(d) = [ok |-> TRUE, voxels |-> voxels]
      BY <2>5 DEF Verdict
    <2> QED
      BY <2>2, <2>4, <2>6
  <1>10. ASSUME NEW n \in 0 .. Len(bytes) - 1
         PROVE  ~DeserializeChunk(SubSeq(bytes, 1, n), before).ok
    <2> DEFINE piece == SubSeq(bytes, 1, n)
               k == n \div 3
    <2>1. k \in 0 .. m - 1 /\ 3 * k <= n /\ k \in Nat
      BY <1>7
    <2>2. Len(piece) = n /\ \A j \in 1 .. n : piece[j] = bytes[j]
      BY <1>7, SubSeqProperties
    <2> HIDE DEF piece, k
    <2>3. IsReading(r, piece, k, before)
      <3>1. ASSUME NEW j \in 1 .. k
            PROVE  r[j] = RunRead(r[j - 1], piece, j)
        <4>1. j \in 1 .. m /\ 3 * j - 2 \in 1 .. n /\ 3 * j - 1 \in 1 .. n /\ 3 * j \in 1 .. n
          BY <2>1
        <4>2. r[j] = RunRead(r[j - 1], bytes, j)
          BY <1>8, <4>1 DEF IsReading
        <4>3. /\ piece[3 * j - 2] = bytes[3 * j - 2] /\ piece[3 * j - 1] = bytes[3 * j - 1]
              /\ piece[3 * j] = bytes[3 * j]
          BY <2>2, <4>1
        <4> QED
          BY <4>2, <4>3 DEF RunRead
      <3> QED
        BY <1>8, <3>1 DEF IsReading
    <2>4. k = Len(piece) \div 3
      BY <2>2 DEF k
    <2>5. DeserializeChunk(piece, before) = Verdict(r[k])
      BY <2>1, <2>3, <2>4, ReadingEnds
    <2>6. r[k].filled # ChunkVolume
      <3>1. r[k].filled \in 0 .. ChunkVolume - 1
        BY <1>8, <2>1
      <3> QED
        BY <1>3, <3>1
    <2>7. PICK d : d = r[k]
      OBVIOUS
    <2>8. Verdict(d).ok = (d.ok /\ d.filled = ChunkVolume)
      BY DEF Verdict
    <2>9. ~Verdict(d).ok
      BY <2>6, <2>7, <2>8
    <2> QED
      BY <2>5, <2>7, <2>9 DEF piece
  <1> QED
    BY <1>5, <1>9, <1>10

-----------------------------------------------------------------------------
(* Where things are.                                                       *)

(* The sizes are positive numbers.                                         *)
LEMMA Sizes ==
  /\ CHUNK_SIZE \in Nat \ {0} /\ SECTOR_SIZE_X \in Nat \ {0} /\ SECTOR_SIZE_Y \in Nat \ {0}
  /\ SECTOR_SIZE_Z \in Nat \ {0} /\ GridWidth \in Nat \ {0} /\ GridHeight \in Nat \ {0}
  /\ UINT8_VALUES \in Nat \ {0}
  BY CoordinatesAssumption

(* A position on an axis and the sector it is in.                          *)
LEMMA SectorOnAxis ==
  ASSUME NEW v \in Int, NEW size \in Nat, size # 0, NEW k \in Int
  PROVE  (k * size <= v /\ v < k * size + size) <=> k = v \div size
  <1> DEFINE d == v \div size
             m == v % size
  <1>1. d \in Int /\ m \in 0 .. size - 1 /\ v = size * d + m
    OBVIOUS
  <1> HIDE DEF d, m
  <1>2. ASSUME k * size <= v, v < k * size + size
        PROVE  k = d
    <2>1. v - k * size \in 0 .. size - 1 /\ v = size * k + (v - k * size)
      BY <1>2
    <2>2. PICK r \in 0 .. size - 1 : v = size * k + r
      BY <2>1
    <2> QED
      BY <1>1, <2>2, DigitsDistinct
  <1>3. ASSUME k = d
        PROVE  k * size <= v /\ v < k * size + size
    BY <1>1, <1>3
  <1> QED
    BY <1>2, <1>3 DEF d

(* The sector in row y and column x has the number that getSector gives.   *)
LEMMA GridNumbers ==
  ASSUME NEW x \in 0 .. GridWidth - 1, NEW y \in 0 .. GridHeight - 1
  PROVE  /\ y * GridWidth + x + 1 \in DOMAIN Grid
         /\ Grid[y * GridWidth + x + 1] = [x |-> x, y |-> y]
  <1> DEFINE w == GridWidth
             h == GridHeight
             k == y * w + x + 1
  <1>1. w \in Nat \ {0} /\ h \in Nat \ {0} /\ x \in 0 .. w - 1 /\ y \in 0 .. h - 1
    BY Sizes
  <1> HIDE DEF w, h
  <1>2. k \in 1 .. w * h
    <2>1. y * w >= 0 /\ y * w <= (h - 1) * w
      BY <1>1
    <2>2. (h - 1) * w = w * h - w /\ w * h \in Nat /\ y * w \in Int
      BY <1>1
    <2> QED
      BY <1>1, <2>1, <2>2
  <1>3. k - 1 = w * y + x
    BY <1>1
  <1> HIDE DEF k
  <1>4. (k - 1) % w = x /\ (k - 1) \div w = y
    BY <1>1, <1>3, QuotientAndRemainder
  <1>5. DOMAIN Grid = 1 .. w * h /\ Grid[k] = [x |-> (k - 1) % w, y |-> (k - 1) \div w]
    BY <1>2 DEF Grid, w, h
  <1> QED
    BY <1>2, <1>4, <1>5 DEF k, w

(* Each sector of the grid has such a row and column.                      *)
LEMMA GridSectors ==
  ASSUME NEW k \in DOMAIN Grid
  PROVE  \E x \in 0 .. GridWidth - 1, y \in 0 .. GridHeight - 1 :
           k = y * GridWidth + x + 1 /\ Grid[k] = [x |-> x, y |-> y]
  <1> DEFINE w == GridWidth
             h == GridHeight
  <1>1. w \in Nat \ {0} /\ h \in Nat \ {0} /\ w * h \in Nat
    BY Sizes
  <1> HIDE DEF w, h
  <1>2. k \in 1 .. w * h /\ Grid[k] = [x |-> (k - 1) % w, y |-> (k - 1) \div w]
    BY DEF Grid, w, h
  <1>3. PICK a \in Nat : a = k - 1 /\ a < w * h /\ a + 1 = k
    BY <1>1, <1>2
  <1>4. a \div w \in Nat /\ a % w \in 0 .. w - 1 /\ a = w * (a \div w) + (a % w) /\ a \div w < h
    BY <1>1, <1>3, Divided, QuotientBelow
  <1>5. PICK x, y : x = a % w /\ y = a \div w
    OBVIOUS
  <1>6. x \in 0 .. w - 1 /\ y \in 0 .. h - 1 /\ k = y * w + x + 1
    <2>1. y \in Nat /\ x \in 0 .. w - 1 /\ a = w * y + x /\ y < h
      BY <1>4, <1>5
    <2> QED
      BY <1>1, <1>3, <2>1
  <1> QED
    BY <1>2, <1>3, <1>5, <1>6 DEF w, h

(* IsInBounds, axis by axis.                                               *)
LEMMA BoundsByAxis ==
  ASSUME NEW s, NEW p
  PROVE  IsInBounds(s, p) <=>
           /\ s.x * SECTOR_SIZE_X <= p.x /\ p.x < s.x * SECTOR_SIZE_X + SECTOR_SIZE_X
           /\ s.y * SECTOR_SIZE_Y <= p.y /\ p.y < s.y * SECTOR_SIZE_Y + SECTOR_SIZE_Y
           /\ 0 <= p.z /\ p.z < SECTOR_SIZE_Z
  BY DEF IsInBounds, MinBound, MaxBound

(* A position in the universe lies in the sector of its quotients, and in  *)
(* no other.                                                               *)
LEMMA SectorOfPlace ==
  ASSUME NEW p \in Universe, NEW x, NEW y,
         x = p.x \div SECTOR_SIZE_X, y = p.y \div SECTOR_SIZE_Y
  PROVE  /\ x \in 0 .. GridWidth - 1 /\ y \in 0 .. GridHeight - 1
         /\ y * GridWidth + x + 1 \in DOMAIN Grid
         /\ SectorsAt(p) = {y * GridWidth + x + 1}
         /\ SectorOf(p) = [x |-> x, y |-> y] /\ SectorOf(p) = GetSector(x, y)
  <1>1. /\ p.x \in Nat /\ p.x < SECTOR_SIZE_X * GridWidth
        /\ p.y \in Nat /\ p.y < SECTOR_SIZE_Y * GridHeight
        /\ p.z \in Nat /\ p.z < SECTOR_SIZE_Z
    BY Sizes DEF Universe
  <1>2. x \in 0 .. GridWidth - 1 /\ y \in 0 .. GridHeight - 1
    <2>1. x \in Nat /\ y \in Nat
      BY <1>1, Sizes, Divided
    <2>2. x < GridWidth /\ y < GridHeight
      BY <1>1, Sizes, QuotientBelow
    <2> QED
      BY <2>1, <2>2, Sizes
  <1>3. PICK k : k = y * GridWidth + x + 1
    OBVIOUS
  <1>4. k \in DOMAIN Grid /\ Grid[k] = [x |-> x, y |-> y]
    BY <1>2, <1>3, GridNumbers
  <1>5. ASSUME NEW a \in Int, NEW b \in Int, NEW s, s = [x |-> a, y |-> b]
        PROVE  IsInBounds(s, p) <=> a = x /\ b = y
    <2>1. /\ (a * SECTOR_SIZE_X <= p.x /\ p.x < a * SECTOR_SIZE_X + SECTOR_SIZE_X) <=> a = x
          /\ (b * SECTOR_SIZE_Y <= p.y /\ p.y < b * SECTOR_SIZE_Y + SECTOR_SIZE_Y) <=> b = y
      <3>1. PICK u \in Int, v \in Int : u = p.x /\ v = p.y
        BY <1>1
      <3>2. (a * SECTOR_SIZE_X <= u /\ u < a * SECTOR_SIZE_X + SECTOR_SIZE_X)
              <=> a = u \div SECTOR_SIZE_X
        BY Sizes, SectorOnAxis
      <3>3. (b * SECTOR_SIZE_Y <= v /\ v < b * SECTOR_SIZE_Y + SECTOR_SIZE_Y)
              <=> b = v \div SECTOR_SIZE_Y
        BY Sizes, SectorOnAxis
      <3> QED
        BY <3>1, <3>2, <3>3
    <2>2. s.x = a /\ s.y = b
      BY <1>5
    <2> QED
      BY <1>1, <2>1, <2>2, BoundsByAxis
  <1>6. ASSUME NEW i \in DOMAIN Grid
        PROVE  IsInBounds(Grid[i], p) <=> i = k
    <2>1. PICK a \in 0 .. GridWidth - 1, b \in 0 .. GridHeight - 1 :
            i = b * GridWidth + a + 1 /\ Grid[i] = [x |-> a, y |-> b]
      BY GridSectors
    <2>2. IsInBounds(Grid[i], p) <=> a = x /\ b = y
      BY <1>5, <2>1
    <2>3. ASSUME i = k PROVE a = x /\ b = y
      <3>1. [x |-> a, y |-> b] = [x |-> x, y |-> y]
        BY <1>4, <2>1, <2>3
      <3>2. PICK s : s = [x |-> a, y |-> b]
        OBVIOUS
      <3>3. s.x = a /\ s.y = b
        BY <3>2
      <3>4. s.x = x /\ s.y = y
        BY <3>1, <3>2
      <3> QED
        BY <3>3, <3>4
    <2> QED
      BY <1>3, <2>1, <2>2, <2>3
  <1>7. SectorsAt(p) = {k}
    BY <1>4, <1>6 DEF SectorsAt
  <1>8. SectorOf(p) = Grid[k]
    BY <1>7 DEF SectorOf
  <1> QED
    BY <1>2, <1>3, <1>4, <1>7, <1>8 DEF GetSector

(* findSectorForUniversePos gives each position its sector                 *)
(* (Sector.cpp:28-88).                                                     *)
LEMMA SectorsAreExact == OneSectorEach
  <1>1. SUFFICES ASSUME NEW p \in Around
                 PROVE  IF p \in Universe
                        THEN /\ \E k \in DOMAIN Grid : SectorsAt(p) = {k}
                             /\ SectorOf(p) = GetSector(p.x \div SECTOR_SIZE_X,
                                                        p.y \div SECTOR_SIZE_Y)
                        ELSE SectorsAt(p) = {}
    BY DEF OneSectorEach
  <1>2. ASSUME p \in Universe
        PROVE  /\ \E k \in DOMAIN Grid : SectorsAt(p) = {k}
               /\ SectorOf(p) = GetSector(p.x \div SECTOR_SIZE_X, p.y \div SECTOR_SIZE_Y)
    <2>1. PICK x, y : x = p.x \div SECTOR_SIZE_X /\ y = p.y \div SECTOR_SIZE_Y
      OBVIOUS
    <2>2. /\ y * GridWidth + x + 1 \in DOMAIN Grid /\ SectorsAt(p) = {y * GridWidth + x + 1}
          /\ SectorOf(p) = GetSector(x, y)
      BY <1>2, <2>1, SectorOfPlace
    <2> QED
      BY <2>1, <2>2
  <1>3. ASSUME NEW k \in DOMAIN Grid, IsInBounds(Grid[k], p)
        PROVE  p \in Universe
    <2>1. PICK a \in 0 .. GridWidth - 1, b \in 0 .. GridHeight - 1 :
            k = b * GridWidth + a + 1 /\ Grid[k] = [x |-> a, y |-> b]
      BY GridSectors
    <2>2. Grid[k].x = a /\ Grid[k].y = b
      BY <2>1
    <2>3. /\ a * SECTOR_SIZE_X <= p.x /\ p.x < a * SECTOR_SIZE_X + SECTOR_SIZE_X
          /\ b * SECTOR_SIZE_Y <= p.y /\ p.y < b * SECTOR_SIZE_Y + SECTOR_SIZE_Y
          /\ 0 <= p.z /\ p.z < SECTOR_SIZE_Z
      BY <1>3, <2>2, BoundsByAxis
    <2>4. /\ p = [x |-> p.x, y |-> p.y, z |-> p.z]
          /\ p.x \in Int /\ p.y \in Int /\ p.z \in Int
      BY Sizes DEF Around
    <2>5. ASSUME NEW v \in Int, NEW n \in Nat \ {0}, NEW size \in Nat \ {0},
                 NEW i \in 0 .. n - 1, i * size <= v, v < i * size + size
          PROVE  v \in 0 .. n * size - 1
      <3>1. i * size >= 0 /\ i * size <= (n - 1) * size
        BY <2>5
      <3>2. (n - 1) * size = n * size - size /\ n * size \in Int /\ i * size \in Int
        BY <2>5
      <3> QED
        BY <2>5, <3>1, <3>2
    <2>6. /\ p.x \in 0 .. GridWidth * SECTOR_SIZE_X - 1
          /\ p.y \in 0 .. GridHeight * SECTOR_SIZE_Y - 1
      BY <2>3, <2>4, <2>5, Sizes
    <2>7. p.z \in 0 .. SECTOR_SIZE_Z - 1
      BY <2>3, <2>4, Sizes
    <2> QED
      BY <2>4, <2>6, <2>7 DEF Universe
  <1> QED
    BY <1>2, <1>3 DEF SectorsAt

-----------------------------------------------------------------------------
(* One axis of the universe: its sectors, their chunks, their voxels.      *)
LEMMA AxisPlaces ==
  ASSUME NEW c \in Nat \ {0}, NEW size \in Nat \ {0}, NEW count \in Nat \ {0}, size % c = 0,
         NEW v \in 0 .. count * size - 1,
         NEW m, m = size \div c, NEW g, g = v \div size
  PROVE  /\ m \in Nat \ {0} /\ size = c * m /\ g \in 0 .. count - 1
         /\ v - g * size \in Nat
         /\ (v - g * size) \div c \in 0 .. m - 1 /\ (v - g * size) % c = v % c
         /\ v \div c = g * m + ((v - g * size) \div c) /\ v \div c \in 0 .. count * m - 1
         /\ v % c \in 0 .. c - 1 /\ v = c * (v \div c) + (v % c)
  <1>1. m \in Nat /\ size = c * m
    BY Divided
  <1>2. m # 0
    BY <1>1
  <1>3. v \in Nat /\ count * size \in Nat /\ v < size * count
    <2>1. count * size \in Nat /\ count * size = size * count
      OBVIOUS
    <2> QED
      BY <2>1
  <1>4. g \in Nat /\ v % size \in 0 .. size - 1 /\ v = size * g + (v % size) /\ g < count
    BY <1>3, Divided, QuotientBelow
  <1>5. PICK w \in Nat : w = v - g * size /\ w < size
    BY <1>4
  <1>6. PICK q, r : q = w \div c /\ r = w % c
    OBVIOUS
  <1>7. q \in Nat /\ r \in 0 .. c - 1 /\ w = c * q + r /\ q < m
    <2>1. w \in Nat /\ m \in Nat /\ c \in Nat /\ c # 0 /\ w < c * m
      BY <1>1, <1>5
    <2>2. w \div c \in Nat /\ w % c \in 0 .. c - 1 /\ w = c * (w \div c) + (w % c)
      BY <2>1, Divided
    <2>3. w \div c < m
      BY <2>1, QuotientBelow
    <2> QED
      BY <1>6, <2>2, <2>3
  <1>8. PICK d \in Nat : d = g * m + q
    BY <1>1, <1>4, <1>7
  <1>9. v = c * d + r
    <2>1. c * d = c * (g * m) + c * q /\ c * (g * m) = g * (c * m)
      <3>1. c \in Int /\ g \in Int /\ m \in Int /\ q \in Int
        BY <1>1, <1>4, <1>7
      <3>2. c * (g * m + q) = c * (g * m) + c * q /\ c * (g * m) = g * (c * m)
        BY <3>1
      <3> QED
        BY <1>8, <3>2
    <2>2. c * d = g * size + c * q
      BY <1>1, <2>1
    <2> QED
      BY <1>3, <1>4, <1>5, <1>7, <1>8, <2>2
  <1>10. v \div c = d /\ v % c = r
    <2>1. c \in Nat /\ c # 0 /\ d \in Int /\ r \in 0 .. c - 1
      BY <1>7, <1>8
    <2>2. (c * d + r) \div c = d /\ (c * d + r) % c = r
      BY <2>1, QuotientAndRemainder
    <2> QED
      BY <1>9, <2>2
  <1>11. v < c * (count * m) /\ count * m \in Nat
    <2>1. count * m \in Nat /\ c * (count * m) = (c * m) * count
      BY <1>1
    <2> QED
      BY <1>1, <1>3, <2>1
  <1>12. v \div c < count * m
    <2>1. PICK n \in Nat : n = count * m
      BY <1>11
    <2>2. v < c * n
      BY <1>11, <2>1
    <2>3. v \div c < n
      BY <1>3, <2>2, QuotientBelow
    <2> QED
      BY <2>1, <2>3
  <1>13. d \in 0 .. count * m - 1
    BY <1>8, <1>10, <1>11, <1>12
  <1>14. g \in 0 .. count - 1 /\ q \in 0 .. m - 1
    BY <1>1, <1>4, <1>7
  <1> QED
    BY <1>1, <1>2, <1>5, <1>6, <1>7, <1>8, <1>9, <1>10, <1>13, <1>14

(* C++'s remainder of a natural number, twice.                             *)
LEMMA LocalIsRemainder ==
  ASSUME NEW v \in Nat
  PROVE  LocalAxis(v) = v % CHUNK_SIZE
  <1>1. PICK c \in Nat : c = CHUNK_SIZE /\ c # 0
    BY Sizes
  <1>2. PICK q, r : q = v \div c /\ r = v % c
    OBVIOUS
  <1>3. q \in Nat /\ r \in 0 .. c - 1 /\ v = c * q + r
    BY <1>1, <1>2, Divided
  <1>4. Remainder(v, c) = r
    BY <1>2, <1>3 DEF Remainder, Quotient
  <1>5. PICK n \in Nat : n = r + c /\ n = c * 1 + r
    BY <1>3
  <1>6. n \div c = 1
    <2>1. (c * 1 + r) \div c = 1
      BY <1>1, <1>3, QuotientAndRemainder
    <2> QED
      BY <1>5, <2>1
  <1>7. Remainder(n, c) = r
    BY <1>1, <1>3, <1>5, <1>6 DEF Remainder, Quotient
  <1> QED
    BY <1>1, <1>2, <1>4, <1>5, <1>7 DEF LocalAxis

(* The parts of a chunk's name are told by it.                             *)
Digit == 0 .. UINT8_VALUES - 1

(* The cast to uint8_t leaves a digit alone.                               *)
LEMMA DigitIsItself ==
  ASSUME NEW v \in Digit
  PROVE  UInt8(v) = v
  <1>1. PICK b \in Nat : b = UINT8_VALUES /\ b # 0
    BY Sizes
  <1>2. v \in 0 .. b - 1 /\ v = b * 0 + v
    BY <1>1 DEF Digit
  <1>3. (b * 0 + v) % b = v
    BY <1>1, <1>2, QuotientAndRemainder
  <1> QED
    BY <1>1, <1>2, <1>3 DEF UInt8

(* Read from the end, a name gives its parts.                              *)
Low(id) == id % UINT8_VALUES
High(id) == id \div UINT8_VALUES

ReadAs(id, sx, sy, cx, cy, cz) ==
  /\ Low(id) = cz /\ Low(High(id)) = cy /\ Low(High(High(id))) = cx
  /\ Low(High(High(High(id)))) = sy /\ High(High(High(High(High(id))))) = sx

(* makeChunkID's name gives back what it was made of.                      *)
LEMMA NameIsRead ==
  ASSUME NEW sx \in Digit, NEW sy \in Digit, NEW cx \in Digit, NEW cy \in Digit,
         NEW cz \in Digit
  PROVE  ReadAs(MakeChunkID(sx, sy, cx, cy, cz), sx, sy, cx, cy, cz)
  <1>0. PICK id : id = MakeChunkID(sx, sy, cx, cy, cz)
    OBVIOUS
  <1>1. PICK b \in Nat : b = UINT8_VALUES /\ b # 0 /\ Digit = 0 .. b - 1
    BY Sizes DEF Digit
  <1>2. id = b * (b * (b * (b * (b * sx + 0) + sy) + cx) + cy) + cz
    <2>1. sx \in Int /\ sy \in Int /\ cx \in Int /\ cy \in Int /\ cz \in Int
      BY <1>1
    <2>2. id = b * b * b * (b * b * sx + sy) + b * b * cx + b * cy + cz
      BY <1>0, <1>1, DigitIsItself DEF MakeChunkID
    <2> QED
      BY <2>1, <2>2
  <1>3. PICK d \in Int, e \in Int, f \in Int, g \in Int :
          d = b * sx + 0 /\ e = b * d + sy /\ f = b * e + cx /\ g = b * f + cy
    BY <1>1
  <1>4. ASSUME NEW q \in Int, NEW r \in Digit, NEW v, v = b * q + r
        PROVE  Low(v) = r /\ High(v) = q
    <2>1. (b * q + r) \div b = q /\ (b * q + r) % b = r
      BY <1>1, QuotientAndRemainder
    <2> QED
      BY <1>1, <1>4, <2>1 DEF Low, High
  <1>5. id = b * g + cz
    BY <1>2, <1>3
  <1>6. Low(id) = cz /\ High(id) = g
    BY <1>4, <1>5
  <1>7. Low(g) = cy /\ High(g) = f /\ Low(f) = cx /\ High(f) = e /\ Low(e) = sy /\ High(e) = d
    BY <1>3, <1>4
  <1>8. High(d) = sx
    <2>1. 0 \in Digit /\ sx \in Int
      BY <1>1
    <2> QED
      BY <1>3, <1>4, <2>1
  <1> QED
    BY <1>0, <1>6, <1>7, <1>8 DEF ReadAs

(* The chunk and the voxel of a position, as both names have them.         *)
Chunks(v) == v \div CHUNK_SIZE
LocalX(s, p) == Chunks(p.x - s.x * SECTOR_SIZE_X)
LocalY(s, p) == Chunks(p.y - s.y * SECTOR_SIZE_Y)

Parts(s, p) ==
  /\ s = [x |-> s.x, y |-> s.y]
  /\ Chunks(SECTOR_SIZE_X) \in Nat \ {0} /\ Chunks(SECTOR_SIZE_Y) \in Nat \ {0}
  /\ Chunks(p.x) = s.x * Chunks(SECTOR_SIZE_X) + LocalX(s, p)
  /\ Chunks(p.y) = s.y * Chunks(SECTOR_SIZE_Y) + LocalY(s, p)
  /\ p.x = CHUNK_SIZE * Chunks(p.x) + LocalPos(p).x
  /\ p.y = CHUNK_SIZE * Chunks(p.y) + LocalPos(p).y
  /\ p.z = CHUNK_SIZE * Chunks(p.z) + LocalPos(p).z
  /\ {s.x, s.y, LocalX(s, p), LocalY(s, p), Chunks(p.x), Chunks(p.y), Chunks(p.z)} \subseteq Digit
  /\ SectorChunkID(s, p) = MakeChunkID(s.x, s.y, LocalX(s, p), LocalY(s, p), Chunks(p.z))
  /\ VoxelChunkID(s, p) = MakeChunkID(s.x, s.y, Chunks(p.x), Chunks(p.y), Chunks(p.z))

(* Where the sector of a position is, and so its chunk and its voxel.      *)
LEMMA NameParts ==
  ASSUME NEW p \in Universe, NEW s, s = SectorOf(p)
  PROVE  Parts(s, p)
  <1> DEFINE c == CHUNK_SIZE
             lx == LocalX(s, p)
             ly == LocalY(s, p)
             mx == Chunks(SECTOR_SIZE_X)
             my == Chunks(SECTOR_SIZE_Y)
             mz == Chunks(SECTOR_SIZE_Z)
             vx == Chunks(p.x)
             vy == Chunks(p.y)
             vz == Chunks(p.z)
  <1>1. /\ p.x \in 0 .. GridWidth * SECTOR_SIZE_X - 1
        /\ p.y \in 0 .. GridHeight * SECTOR_SIZE_Y - 1
        /\ p.z \in 0 .. SECTOR_SIZE_Z - 1
    BY DEF Universe
  <1>2. s = [x |-> s.x, y |-> s.y] /\ s.x = p.x \div SECTOR_SIZE_X /\ s.y = p.y \div SECTOR_SIZE_Y
    <2>1. PICK x, y : x = p.x \div SECTOR_SIZE_X /\ y = p.y \div SECTOR_SIZE_Y
      OBVIOUS
    <2>2. s = [x |-> x, y |-> y]
      BY <2>1, SectorOfPlace
    <2> QED
      BY <2>1, <2>2
  <1>3. /\ mx \in Nat \ {0} /\ s.x \in 0 .. GridWidth - 1
        /\ p.x - s.x * SECTOR_SIZE_X \in Nat
        /\ lx \in 0 .. mx - 1 /\ vx = s.x * mx + lx /\ vx \in 0 .. GridWidth * mx - 1
        /\ p.x = c * vx + (p.x % c)
    <2>1. SECTOR_SIZE_X % CHUNK_SIZE = 0
      BY CoordinatesAssumption
    <2> QED
      BY <1>1, <1>2, <2>1, Sizes, AxisPlaces DEF Chunks, LocalX, LocalY
  <1>4. /\ my \in Nat \ {0} /\ s.y \in 0 .. GridHeight - 1
        /\ p.y - s.y * SECTOR_SIZE_Y \in Nat
        /\ ly \in 0 .. my - 1 /\ vy = s.y * my + ly /\ vy \in 0 .. GridHeight * my - 1
        /\ p.y = c * vy + (p.y % c)
    <2>1. SECTOR_SIZE_Y % CHUNK_SIZE = 0
      BY CoordinatesAssumption
    <2> QED
      BY <1>1, <1>2, <2>1, Sizes, AxisPlaces DEF Chunks, LocalX, LocalY
  <1>5. mz \in Nat \ {0} /\ vz \in 0 .. mz - 1 /\ p.z = c * vz + (p.z % c)
    <2>1. SECTOR_SIZE_Z % CHUNK_SIZE = 0
      BY CoordinatesAssumption
    <2>2. PICK n \in Nat \ {0} : n = 1
      OBVIOUS
    <2>3. p.z \in 0 .. n * SECTOR_SIZE_Z - 1
      BY <1>1, <2>2, Sizes
    <2>4. PICK g, v, size : g = p.z \div SECTOR_SIZE_Z /\ v = p.z /\ size = SECTOR_SIZE_Z
      OBVIOUS
    <2>5. /\ c \in Nat \ {0} /\ size \in Nat \ {0} /\ size % c = 0 /\ v \in 0 .. n * size - 1
          /\ mz = size \div c /\ g = v \div size /\ vz = v \div c
      BY <2>1, <2>3, <2>4, Sizes DEF Chunks
    <2> HIDE DEF mz, vz, c
    <2>6. mz \in Nat \ {0} /\ vz \in 0 .. n * mz - 1 /\ v = c * vz + (v % c)
      BY <2>5, AxisPlaces
    <2>7. n * mz = mz
      BY <2>2, <2>6
    <2> QED
      BY <2>4, <2>6, <2>7
  <1>6. p.x \in Nat /\ p.y \in Nat /\ p.z \in Nat
    BY <1>1
  <1>7. LocalPos(p).x = p.x % c /\ LocalPos(p).y = p.y % c /\ LocalPos(p).z = p.z % c
    <2>1. LocalAxis(p.x) = p.x % c /\ LocalAxis(p.y) = p.y % c /\ LocalAxis(p.z) = p.z % c
      BY <1>6, LocalIsRemainder
    <2>2. LocalPos(p).x = LocalAxis(p.x) /\ LocalPos(p).y = LocalAxis(p.y)
          /\ LocalPos(p).z = LocalAxis(p.z)
      BY DEF LocalPos
    <2> QED
      BY <2>1, <2>2
  <1>8. /\ s.x \in Digit /\ s.y \in Digit /\ vx \in Digit /\ vy \in Digit /\ vz \in Digit
        /\ lx \in Digit /\ ly \in Digit
    <2>1. /\ GridWidth <= UINT8_VALUES /\ GridHeight <= UINT8_VALUES
          /\ GridWidth * mx <= UINT8_VALUES /\ GridHeight * my <= UINT8_VALUES
          /\ mz <= UINT8_VALUES
      BY CoordinatesAssumption DEF Chunks
    <2> HIDE DEF lx, ly, mx, my, mz, vx, vy, vz
    <2>2. mx <= GridWidth * mx /\ my <= GridHeight * my
          /\ GridWidth * mx \in Nat /\ GridHeight * my \in Nat
      BY <1>3, <1>4, Sizes
    <2> QED
      BY <1>3, <1>4, <1>5, <2>1, <2>2, Sizes DEF Digit
  <1>9. SectorChunkID(s, p) = MakeChunkID(s.x, s.y, lx, ly, vz)
    <2>1. p.z - 0 = p.z
      BY <1>6
    <2> QED
      BY <1>3, <1>4, <1>6, <2>1 DEF SectorChunkID, Quotient, MinBound, Chunks, LocalX, LocalY
  <1>10. VoxelChunkID(s, p) = MakeChunkID(s.x, s.y, vx, vy, vz)
    BY <1>6 DEF VoxelChunkID, Quotient, Chunks
  <1> QED
    BY <1>2, <1>3, <1>4, <1>5, <1>7, <1>8, <1>9, <1>10 DEF Parts

(* Two positions have no place in common, under either name                *)
(* (VoxelSystem.cpp:10-27, Sector.cpp:37-46).                              *)
LEMMA PlacesAreDistinct == PlacesDistinct
  <1>1. SUFFICES ASSUME NEW p \in Universe, NEW q \in Universe, LocalPos(p) = LocalPos(q),
                        \/ SectorChunkID(SectorOf(p), p) = SectorChunkID(SectorOf(q), q)
                        \/ VoxelChunkID(SectorOf(p), p) = VoxelChunkID(SectorOf(q), q)
                 PROVE  p = q
    BY DEF PlacesDistinct
  <1>2. PICK s, t : s = SectorOf(p) /\ t = SectorOf(q)
    OBVIOUS
  <1>3. Parts(s, p) /\ Parts(t, q)
    BY <1>2, NameParts
  <1> DEFINE lp == LocalX(s, p)
             mp == LocalY(s, p)
             lq == LocalX(t, q)
             mq == LocalY(t, q)
             xp == Chunks(p.x)
             yp == Chunks(p.y)
             zp == Chunks(p.z)
             xq == Chunks(q.x)
             yq == Chunks(q.y)
             zq == Chunks(q.z)
  <1>4. xp = xq /\ yp = yq /\ zp = zq
    <2>1. /\ s.x \in Digit /\ s.y \in Digit /\ lp \in Digit /\ mp \in Digit
          /\ xp \in Digit /\ yp \in Digit /\ zp \in Digit
          /\ SectorChunkID(s, p) = MakeChunkID(s.x, s.y, lp, mp, zp)
          /\ VoxelChunkID(s, p) = MakeChunkID(s.x, s.y, xp, yp, zp)
      BY <1>3 DEF Parts
    <2>2. /\ t.x \in Digit /\ t.y \in Digit /\ lq \in Digit /\ mq \in Digit
          /\ xq \in Digit /\ yq \in Digit /\ zq \in Digit
          /\ SectorChunkID(t, q) = MakeChunkID(t.x, t.y, lq, mq, zq)
          /\ VoxelChunkID(t, q) = MakeChunkID(t.x, t.y, xq, yq, zq)
      BY <1>3 DEF Parts
    <2>0. /\ xp = s.x * Chunks(SECTOR_SIZE_X) + lp /\ yp = s.y * Chunks(SECTOR_SIZE_Y) + mp
          /\ xq = t.x * Chunks(SECTOR_SIZE_X) + lq /\ yq = t.y * Chunks(SECTOR_SIZE_Y) + mq
      BY <1>3 DEF Parts
    <2> HIDE DEF lp, mp, lq, mq, xp, yp, zp, xq, yq, zq
    <2>3. CASE SectorChunkID(s, p) = SectorChunkID(t, q)
      <3>1. PICK id : id = SectorChunkID(s, p) /\ id = SectorChunkID(t, q)
        BY <2>3
      <3>2. ReadAs(id, s.x, s.y, lp, mp, zp)
        BY <2>1, <3>1, NameIsRead
      <3>3. ReadAs(id, t.x, t.y, lq, mq, zq)
        BY <2>2, <3>1, NameIsRead
      <3>4. s.x = t.x /\ s.y = t.y /\ lp = lq /\ mp = mq /\ zp = zq
        BY <3>2, <3>3 DEF ReadAs
      <3> QED
        BY <2>0, <3>4
    <2>4. CASE VoxelChunkID(s, p) = VoxelChunkID(t, q)
      <3>1. PICK id : id = VoxelChunkID(s, p) /\ id = VoxelChunkID(t, q)
        BY <2>4
      <3>2. ReadAs(id, s.x, s.y, xp, yp, zp)
        BY <2>1, <3>1, NameIsRead
      <3>3. ReadAs(id, t.x, t.y, xq, yq, zq)
        BY <2>2, <3>1, NameIsRead
      <3> QED
        BY <3>2, <3>3 DEF ReadAs
    <2> QED
      BY <1>1, <1>2, <2>3, <2>4
  <1>5. p.x = q.x /\ p.y = q.y /\ p.z = q.z
    BY <1>1, <1>3, <1>4 DEF Parts
  <1>6. p = [x |-> p.x, y |-> p.y, z |-> p.z] /\ q = [x |-> q.x, y |-> q.y, z |-> q.z]
    BY DEF Universe
  <1> QED
    BY <1>5, <1>6

-----------------------------------------------------------------------------
(* What memory and tables hold.  The chunks are those of AddChunk: no row  *)
(* names a sector, so none is ever loaded.                                 *)
Typed ==
  /\ phase \in Phases /\ connected \in BOOLEAN /\ stopping \in BOOLEAN
  /\ tickNum \in Nat
  /\ DOMAIN chunks \subseteq ChunkIds
  /\ \A id \in DOMAIN chunks : chunks[id] \in Chunk /\ chunks[id].corner = Corner[id]
  /\ deltas \in Seq(Delta) /\ events \in Seq(Delta)
  /\ edits \in Seq(Delta) /\ flushed \in Seq(Delta)
  /\ toFlush \subseteq DOMAIN chunks
  /\ \A id \in DOMAIN chunkRows :
       chunkRows[id] \in [sectorId: {NoSector}, voxelData: {chunkRows[id].voxelData}, version: Nat]

(* An edit names a chunk that is loaded: VoxelSystem unloads none.         *)
EditsOfLoaded ==
  \A i \in DOMAIN edits : \E id \in DOMAIN chunks : edits[i].corner = Corner[id]

(* The bytes in the row of a clean chunk that was edited are its own.      *)
CleanBytesSaved ==
  \A id \in DOMAIN chunks :
    Edited(id) /\ ~chunks[id].dirty =>
      /\ id \in DOMAIN chunkRows
      /\ chunkRows[id].voxelData = SerializeChunk(chunks[id].voxels)

(* With a database, VoxelSystem's buffer is empty except in the tick, and  *)
(* only with one does the loop flush.                                      *)
Consumed ==
  /\ phase \in {"events", "chunks"} => connected
  /\ phase \in {"head", "events", "chunks"} /\ connected => deltas = <<>>

(* The final flush has emptied the event buffer, and each dirty chunk is   *)
(* still to be visited or was refused.                                     *)
FinalFlush ==
  phase = "chunks" /\ stopping =>
    /\ events = <<>>
    /\ \A id \in DOMAIN chunks : chunks[id].dirty => id \in toFlush \cup failed

PersistenceIInv ==
  /\ Typed
  /\ DeltasConserved
  /\ EditsOfLoaded
  /\ CleanBytesSaved
  /\ Consumed
  /\ FinalFlush

-----------------------------------------------------------------------------
LEMMA InitPersistenceIInv ==
  ASSUME PersistenceInit
  PROVE  PersistenceIInv
  <1> USE DEF PersistenceInit
  <1>1. Typed
    <2>1. phase \in Phases /\ connected \in BOOLEAN /\ stopping \in BOOLEAN
      BY Zenon DEF Phases
    <2>2. DOMAIN chunks = {} /\ DOMAIN chunkRows = {}
      OBVIOUS
    <2>3. <<>> \in Seq(Delta) /\ tickNum \in Nat
      OBVIOUS
    <2> QED
      BY <2>1, <2>2, <2>3 DEF Typed
  <1>2. DeltasConserved
    BY DEF DeltasConserved, Running
  <1>3. EditsOfLoaded
    BY DEF EditsOfLoaded
  <1>4. CleanBytesSaved
    BY DEF CleanBytesSaved
  <1>5. Consumed /\ FinalFlush
    BY DEF Consumed, FinalFlush
  <1> QED
    BY <1>1, <1>2, <1>3, <1>4, <1>5 DEF PersistenceIInv

(* No row names a sector, so that a start finds no chunk.                  *)
LEMMA NoneLoaded ==
  ASSUME Typed, LoadSectorChunks
  PROVE  chunks' = [id \in {} |-> 0]
  <1>1. \A id \in DOMAIN chunkRows : chunkRows[id].sectorId = NoSector
    BY DEF Typed
  <1>2. RowsOfSectors = {}
    BY <1>1, PersistenceAssumption DEF RowsOfSectors
  <1> QED
    BY <1>2 DEF LoadSectorChunks

LEMMA StartPreserves ==
  ASSUME PersistenceIInv, NEW ok \in BOOLEAN, Start(ok)
  PROVE  PersistenceIInv'
  <1>1. chunks' = [id \in {} |-> 0]
    BY NoneLoaded DEF Start, PersistenceIInv
  <1>2. /\ phase' = "head" /\ connected' = ok /\ stopping' = FALSE /\ tickNum' = 0
        /\ deltas' = <<>> /\ events' = <<>> /\ edits' = <<>> /\ flushed' = <<>>
        /\ toFlush' = {} /\ chunkRows' = chunkRows
    BY DEF Start, tableVars
  <1>3. Typed'
    <2>1. phase' \in Phases /\ connected' \in BOOLEAN /\ stopping' \in BOOLEAN
      BY <1>2, Zenon DEF Phases
    <2>2. DOMAIN chunks' = {}
      BY <1>1
    <2>3. <<>> \in Seq(Delta) /\ tickNum' \in Nat
      BY <1>2
    <2> QED
      BY <1>2, <2>1, <2>2, <2>3 DEF Typed, PersistenceIInv
  <1>4. DeltasConserved'
    BY <1>2 DEF DeltasConserved
  <1>5. EditsOfLoaded' /\ CleanBytesSaved'
    BY <1>1, <1>2 DEF EditsOfLoaded, CleanBytesSaved
  <1>6. Consumed' /\ FinalFlush'
    BY <1>2 DEF Consumed, FinalFlush
  <1> QED
    BY <1>3, <1>4, <1>5, <1>6 DEF PersistenceIInv

(* The steps that only move the loop on.                                   *)
LEMMA LoopPreserves ==
  ASSUME PersistenceIInv,
         Crash \/ BeginTick \/ LeaveLoop \/ EndTickUnconnected \/ EndTick
  PROVE  PersistenceIInv'
  <1>1. /\ chunks' = chunks /\ deltas' = deltas /\ events' = events /\ toFlush' = toFlush
        /\ edits' = edits /\ flushed' = flushed /\ failed' = failed
        /\ chunkRows' = chunkRows
    BY DEF Crash, BeginTick, LeaveLoop, EndTickUnconnected, EndTick,
           memoryVars, tableVars, historyVars
  <1>2. Typed'
    <2> USE DEF PersistenceIInv, Typed
    <2>1. phase' \in Phases
      BY DEF Phases, Crash, BeginTick, LeaveLoop, EndTickUnconnected, EndTick
    <2>2. connected' \in BOOLEAN /\ stopping' \in BOOLEAN
      BY Zenon DEF Crash, BeginTick, LeaveLoop, EndTickUnconnected, EndTick
    <2>3. tickNum' \in Nat
      BY DEF Crash, BeginTick, LeaveLoop, EndTickUnconnected, EndTick
    <2> QED
      BY <1>1, <2>1, <2>2, <2>3
  <1>3. DeltasConserved'
    BY <1>1 DEF DeltasConserved, Running, PersistenceIInv,
                Crash, BeginTick, LeaveLoop, EndTickUnconnected, EndTick
  <1>4. EditsOfLoaded' /\ CleanBytesSaved'
    BY <1>1 DEF EditsOfLoaded, CleanBytesSaved, Edited, PersistenceIInv
  <1>5. Consumed' /\ FinalFlush'
    BY <1>1 DEF Consumed, FinalFlush, PersistenceIInv,
                Crash, BeginTick, LeaveLoop, EndTickUnconnected, EndTick
  <1> QED
    BY <1>2, <1>3, <1>4, <1>5 DEF PersistenceIInv

(* Nobody has edited a chunk before it is added: an edit names a chunk     *)
(* that is loaded, and no two chunks share a corner.                       *)
LEMMA AddChunkPreserves ==
  ASSUME PersistenceIInv, NEW id \in ChunkIds, AddChunk(id)
  PROVE  PersistenceIInv'
  <1> DEFINE fresh == NewChunk(Corner[id], 1)
  <1>1. /\ phase = "sim" /\ id \notin DOMAIN chunks
        /\ DOMAIN chunks' = DOMAIN chunks \cup {id}
        /\ chunks'[id] = fresh
        /\ \A k \in DOMAIN chunks : chunks'[k] = chunks[k]
    BY DEF AddChunk
  <1>2. /\ phase' = phase /\ connected' = connected /\ stopping' = stopping
        /\ tickNum' = tickNum /\ deltas' = deltas /\ events' = events /\ toFlush' = toFlush
        /\ edits' = edits /\ flushed' = flushed /\ failed' = failed
        /\ chunkRows' = chunkRows
    BY DEF AddChunk, tableVars, historyVars
  <1>3. /\ fresh \in Chunk /\ fresh.corner = Corner[id] /\ fresh.dirty = FALSE
        /\ fresh.voxels \in [Cells -> Types]
    BY PersistenceAssumption DEF NewChunk, Chunk
  <1> HIDE DEF fresh
  <1>4. Typed'
    BY <1>1, <1>2, <1>3 DEF Typed, PersistenceIInv
  <1>5. DeltasConserved'
    BY <1>2 DEF DeltasConserved, Running, PersistenceIInv
  <1>6. EditsOfLoaded'
    BY <1>1, <1>2 DEF EditsOfLoaded, PersistenceIInv
  <1>7. CleanBytesSaved'
    <2>1. \A i \in DOMAIN edits : edits[i].corner # Corner[id]
      BY <1>1, PersistenceAssumption DEF EditsOfLoaded, PersistenceIInv, Typed
    <2>2. ~Edited(id)'
      BY <1>1, <1>2, <1>3, <2>1 DEF Edited
    <2>3. \A k \in DOMAIN chunks : Edited(k)' = Edited(k)
      BY <1>1, <1>2 DEF Edited
    <2>4. SUFFICES ASSUME NEW k \in DOMAIN chunks', Edited(k)', ~chunks'[k].dirty
                   PROVE  /\ k \in DOMAIN chunkRows'
                          /\ chunkRows'[k].voxelData = SerializeChunk(chunks'[k].voxels)
      BY DEF CleanBytesSaved
    <2>5. k \in DOMAIN chunks
      BY <1>1, <2>2, <2>4
    <2> QED
      BY <1>1, <1>2, <2>3, <2>4, <2>5 DEF CleanBytesSaved, PersistenceIInv
  <1>8. Consumed' /\ FinalFlush'
    BY <1>1, <1>2 DEF Consumed, FinalFlush, PersistenceIInv
  <1> QED
    BY <1>4, <1>5, <1>6, <1>7, <1>8 DEF PersistenceIInv

LEMMA SetVoxelPreserves ==
  ASSUME PersistenceIInv, NEW id \in DOMAIN chunks, NEW cell \in Cells, NEW type \in Types,
         SetVoxel(id, cell, type)
  PROVE  PersistenceIInv'
  <1> DEFINE delta == [corner |-> chunks[id].corner, cell |-> cell,
                       old |-> chunks[id].voxels[cell], new |-> type, tick |-> tickNum]
             edited == [corner |-> chunks[id].corner,
                        voxels |-> [chunks[id].voxels EXCEPT ![cell] = type],
                        dirty |-> TRUE, version |-> chunks[id].version + 1]
  <1>1. /\ phase = "sim"
        /\ chunks' = [chunks EXCEPT ![id] = edited]
        /\ deltas' = Append(deltas, delta)
        /\ edits' = Append(edits, delta)
    BY Zenon DEF SetVoxel
  <1>2. /\ phase' = phase /\ connected' = connected /\ stopping' = stopping
        /\ tickNum' = tickNum /\ events' = events /\ toFlush' = toFlush
        /\ flushed' = flushed /\ failed' = failed /\ chunkRows' = chunkRows
    BY DEF SetVoxel, tableVars
  <1>3. /\ chunks[id] \in Chunk /\ chunks[id].corner = Corner[id] /\ id \in ChunkIds
        /\ tickNum \in Nat
        /\ deltas \in Seq(Delta) /\ events \in Seq(Delta)
        /\ edits \in Seq(Delta) /\ flushed \in Seq(Delta)
    BY DEF PersistenceIInv, Typed
  <1>4. delta \in Delta /\ delta.corner = Corner[id]
    BY <1>3 DEF Delta, Chunk
  <1>5. edited \in Chunk /\ edited.corner = Corner[id] /\ edited.dirty = TRUE
    <2>1. /\ [chunks[id].voxels EXCEPT ![cell] = type] \in [Cells -> Types]
          /\ chunks[id].version + 1 \in Nat
      BY <1>3 DEF Chunk
    <2> QED
      BY <1>3, <2>1 DEF Chunk
  <1> HIDE DEF delta, edited
  <1>6. /\ DOMAIN chunks' = DOMAIN chunks /\ chunks'[id] = edited
        /\ \A k \in DOMAIN chunks : k # id => chunks'[k] = chunks[k]
    BY <1>1
  <1>7. Typed'
    <2>1. deltas' \in Seq(Delta) /\ edits' \in Seq(Delta)
      BY <1>1, <1>3, <1>4, AppendProperties
    <2> QED
      BY <1>2, <1>5, <1>6, <2>1 DEF Typed, PersistenceIInv
  <1>8. DeltasConserved'
    <2>1. flushed \o events \in Seq(Delta)
      BY <1>3, ConcatProperties
    <2>2. edits = (flushed \o events) \o deltas
      BY <1>1 DEF PersistenceIInv, DeltasConserved, Running
    <2>3. Append((flushed \o events) \o deltas, delta)
            = (flushed \o events) \o Append(deltas, delta)
      <3>1. (flushed \o events) \o deltas \in Seq(Delta) /\ <<delta>> \in Seq(Delta)
        BY <1>3, <1>4, <2>1, ConcatProperties
      <3>2. Append((flushed \o events) \o deltas, delta)
              = ((flushed \o events) \o deltas) \o <<delta>>
        BY <1>4, <3>1, AppendIsConcat
      <3>3. Append(deltas, delta) = deltas \o <<delta>>
        BY <1>3, <1>4, AppendIsConcat
      <3>4. ((flushed \o events) \o deltas) \o <<delta>>
              = (flushed \o events) \o (deltas \o <<delta>>)
        <4>1. deltas \in Seq(Delta)
          BY <1>3
        <4> QED
          BY <2>1, <3>1, <4>1, ConcatAssociative
      <3> QED
        BY <3>2, <3>3, <3>4, Zenon
    <2> QED
      BY <1>1, <1>2, <2>2, <2>3 DEF DeltasConserved
  <1>9. /\ DOMAIN edits' = DOMAIN edits \cup {Len(edits) + 1}
        /\ edits'[Len(edits) + 1] = delta
        /\ \A i \in DOMAIN edits : edits'[i] = edits[i]
    BY <1>1, <1>3, <1>4, AppendProperties
  <1>10. EditsOfLoaded'
    BY <1>4, <1>6, <1>9 DEF EditsOfLoaded, PersistenceIInv
  <1>11. CleanBytesSaved'
    <2>1. SUFFICES ASSUME NEW k \in DOMAIN chunks', Edited(k)', ~chunks'[k].dirty
                   PROVE  /\ k \in DOMAIN chunkRows'
                          /\ chunkRows'[k].voxelData = SerializeChunk(chunks'[k].voxels)
      BY DEF CleanBytesSaved
    <2>2. k \in DOMAIN chunks /\ k # id /\ chunks'[k] = chunks[k]
      BY <1>5, <1>6, <2>1
    <2>3. k \in ChunkIds /\ chunks[k].corner = Corner[k] /\ Corner[k] # Corner[id]
      BY <1>3, <2>2, PersistenceAssumption DEF PersistenceIInv, Typed
    <2>4. Edited(k)
      BY <1>4, <1>9, <2>1, <2>2, <2>3 DEF Edited
    <2> QED
      BY <1>2, <2>1, <2>2, <2>4 DEF CleanBytesSaved, PersistenceIInv
  <1>12. Consumed' /\ FinalFlush'
    BY <1>1, <1>2 DEF Consumed, FinalFlush, PersistenceIInv
  <1> QED
    BY <1>7, <1>8, <1>10, <1>11, <1>12 DEF PersistenceIInv

LEMMA ConsumeDeltasPreserves ==
  ASSUME PersistenceIInv, ConsumeDeltas
  PROVE  PersistenceIInv'
  <1>1. /\ phase = "sim" /\ connected /\ phase' = "events"
        /\ events' = events \o deltas /\ deltas' = <<>>
        /\ connected' = connected /\ stopping' = stopping /\ tickNum' = tickNum
        /\ chunks' = chunks /\ toFlush' = toFlush /\ edits' = edits
        /\ flushed' = flushed /\ failed' = failed /\ chunkRows' = chunkRows
    BY DEF ConsumeDeltas, tableVars, historyVars
  <1>2. /\ deltas \in Seq(Delta) /\ events \in Seq(Delta) /\ flushed \in Seq(Delta)
    BY DEF PersistenceIInv, Typed
  <1>3. events' \in Seq(Delta) /\ deltas' \in Seq(Delta)
    BY <1>1, <1>2, ConcatProperties
  <1>4. Typed'
    BY <1>1, <1>3 DEF Typed, PersistenceIInv, Phases
  <1>5. DeltasConserved'
    <2>1. edits = (flushed \o events) \o deltas
      BY <1>1 DEF PersistenceIInv, DeltasConserved, Running
    <2>2. (flushed \o events) \o deltas = flushed \o (events \o deltas)
      BY <1>2, ConcatAssociative
    <2>3. flushed \o (events \o deltas) \in Seq(Delta)
      BY <1>2, ConcatProperties
    <2>4. (flushed \o events') \o <<>> = flushed \o events'
      BY <1>1, <2>3, ConcatEmptySeq
    <2> QED
      BY <1>1, <2>1, <2>2, <2>4 DEF DeltasConserved
  <1>6. EditsOfLoaded' /\ CleanBytesSaved'
    BY <1>1 DEF EditsOfLoaded, CleanBytesSaved, Edited, PersistenceIInv
  <1>7. Consumed' /\ FinalFlush'
    BY <1>1 DEF Consumed, FinalFlush
  <1> QED
    BY <1>4, <1>5, <1>6, <1>7 DEF PersistenceIInv

LEMMA FlushVoxelEventsPreserves ==
  ASSUME PersistenceIInv, FlushVoxelEvents
  PROVE  PersistenceIInv'
  <1>1. /\ phase = "events" /\ phase' = "chunks"
        /\ toFlush' = IF ChunksDue THEN DOMAIN chunks ELSE {}
        /\ failed' = {}
        /\ connected' = connected /\ stopping' = stopping /\ tickNum' = tickNum
        /\ chunks' = chunks /\ deltas' = deltas /\ edits' = edits
        /\ chunkRows' = chunkRows
    BY DEF FlushVoxelEvents
  <1>2. /\ deltas \in Seq(Delta) /\ events \in Seq(Delta) /\ flushed \in Seq(Delta)
        /\ edits = (flushed \o events) \o deltas
        /\ toFlush' \subseteq DOMAIN chunks
    BY <1>1 DEF PersistenceIInv, Typed, DeltasConserved, Running
  <1>3. \/ flushed' = flushed \o events /\ events' = <<>>
        \/ flushed' = flushed /\ events' = events
    BY DEF FlushVoxelEvents
  <1>4. events' \in Seq(Delta) /\ flushed' \in Seq(Delta) /\ flushed' \o events' = flushed \o events
    <2>1. flushed \o events \in Seq(Delta) /\ <<>> \in Seq(Delta)
      BY <1>2, ConcatProperties
    <2>2. (flushed \o events) \o <<>> = flushed \o events
      BY <2>1, ConcatEmptySeq
    <2> QED
      BY <1>2, <1>3, <2>1, <2>2
  <1>5. Typed'
    BY <1>1, <1>2, <1>4 DEF Typed, PersistenceIInv, Phases
  <1>6. DeltasConserved'
    BY <1>1, <1>2, <1>4 DEF DeltasConserved
  <1>7. EditsOfLoaded' /\ CleanBytesSaved'
    BY <1>1 DEF EditsOfLoaded, CleanBytesSaved, Edited, PersistenceIInv
  <1>8. Consumed'
    BY <1>1 DEF Consumed, PersistenceIInv
  <1>9. FinalFlush'
    <2>1. SUFFICES ASSUME stopping
                   PROVE  /\ events' = <<>>
                          /\ \A id \in DOMAIN chunks' : chunks'[id].dirty => id \in toFlush' \cup failed'
      BY <1>1 DEF FinalFlush
    <2>2. EventsDue /\ ChunksDue
      BY <2>1 DEF EventsDue, ChunksDue
    <2>3. events' = <<>>
      BY <2>2 DEF FlushVoxelEvents
    <2> QED
      BY <1>1, <2>2, <2>3
  <1> QED
    BY <1>5, <1>6, <1>7, <1>8, <1>9 DEF PersistenceIInv

(* A chunk becomes clean only with its row.                                *)
LEMMA FlushChunkPreserves ==
  ASSUME PersistenceIInv, NEW id \in toFlush, FlushChunk(id)
  PROVE  PersistenceIInv'
  <1>1. /\ phase = "chunks" /\ id \in DOMAIN chunks /\ id \in ChunkIds
        /\ toFlush' = toFlush \ {id}
        /\ phase' = phase /\ connected' = connected /\ stopping' = stopping
        /\ tickNum' = tickNum /\ deltas' = deltas /\ events' = events
        /\ edits' = edits /\ flushed' = flushed
    BY DEF FlushChunk, PersistenceIInv, Typed
  <1>2. chunks[id] \in Chunk /\ chunks[id].corner = Corner[id]
    BY <1>1 DEF PersistenceIInv, Typed
  <1>3. CASE ~chunks[id].dirty
    <2>1. chunkRows' = chunkRows /\ chunks' = chunks /\ failed' = failed
      BY <1>3 DEF FlushChunk
    <2>2. Typed'
      BY <1>1, <2>1 DEF Typed, PersistenceIInv
    <2>3. DeltasConserved' /\ EditsOfLoaded' /\ CleanBytesSaved'
      BY <1>1, <2>1 DEF DeltasConserved, Running, EditsOfLoaded, CleanBytesSaved, Edited,
                        PersistenceIInv
    <2>4. Consumed' /\ FinalFlush'
      BY <1>1, <1>3, <2>1 DEF Consumed, FinalFlush, PersistenceIInv
    <2> QED
      BY <2>2, <2>3, <2>4 DEF PersistenceIInv
  <1>4. CASE chunks[id].dirty
    <2>1. PICK ok \in SaveOutcomes :
            /\ chunks' = [chunks EXCEPT ![id].dirty = DirtyAfter(ok)]
            /\ IF ok
                 THEN /\ chunkRows' = [k \in DOMAIN chunkRows \cup {id} |->
                                         IF k = id THEN MergedRow(id) ELSE chunkRows[k]]
                      /\ failed' = failed
                 ELSE failed' = failed \cup {id} /\ chunkRows' = chunkRows
      BY <1>4 DEF FlushChunk
    <2>2. ok \in BOOLEAN
      BY PersistenceAssumption DEF SaveOutcomes
    <2>3. /\ DOMAIN chunks' = DOMAIN chunks
          /\ \A k \in DOMAIN chunks : k # id => chunks'[k] = chunks[k]
          /\ chunks'[id] = [chunks[id] EXCEPT !.dirty = ~ok]
      BY <1>1, <2>1 DEF DirtyAfter
    <2>4. /\ chunks'[id] \in Chunk
          /\ chunks'[id].corner = Corner[id] /\ chunks'[id].voxels = chunks[id].voxels
          /\ chunks'[id].dirty = ~ok
      BY <1>2, <2>2, <2>3 DEF Chunk
    <2>5. /\ DOMAIN chunkRows \subseteq DOMAIN chunkRows'
          /\ \A k \in DOMAIN chunkRows : k # id => chunkRows'[k] = chunkRows[k]
          /\ ok => id \in DOMAIN chunkRows' /\ chunkRows'[id] = MergedRow(id)
          /\ ~ok => chunkRows' = chunkRows
          /\ DOMAIN chunkRows' \subseteq DOMAIN chunkRows \cup {id}
      BY <2>1, <2>2
    <2>6. /\ MergedRow(id).voxelData = SerializeChunk(chunks[id].voxels)
          /\ MergedRow(id) \in [sectorId: {NoSector},
                                voxelData: {SerializeChunk(chunks[id].voxels)}, version: Nat]
      <3> DEFINE data == SerializeChunk(chunks[id].voxels)
      <3>1. chunks[id].version \in Nat
        BY <1>2 DEF Chunk
      <3>2. \A k \in DOMAIN chunkRows :
              chunkRows[k].sectorId = NoSector /\ chunkRows[k].version \in Nat
        BY DEF PersistenceIInv, Typed
      <3>3. PICK n \in Nat :
              MergedRow(id) = [sectorId |-> NoSector, voxelData |-> data, version |-> n]
        BY <3>1, <3>2 DEF MergedRow
      <3> HIDE DEF data
      <3>4. /\ MergedRow(id).voxelData = data
            /\ MergedRow(id) \in [sectorId: {NoSector}, voxelData: {data}, version: Nat]
        BY <3>3
      <3> QED
        BY <3>4 DEF data
    <2>7. Typed'
      <3>1. \A k \in DOMAIN chunks' : chunks'[k] \in Chunk /\ chunks'[k].corner = Corner[k]
        BY <2>3, <2>4 DEF Typed, PersistenceIInv
      <3>2. \A k \in DOMAIN chunkRows' :
              chunkRows'[k] \in [sectorId: {NoSector}, voxelData: {chunkRows'[k].voxelData},
                                 version: Nat]
        BY <2>2, <2>5, <2>6 DEF Typed, PersistenceIInv
      <3> QED
        BY <1>1, <2>3, <3>1, <3>2 DEF Typed, PersistenceIInv
    <2>8. DeltasConserved' /\ EditsOfLoaded'
      BY <1>1, <2>3 DEF DeltasConserved, Running, EditsOfLoaded, PersistenceIInv
    <2>9. CleanBytesSaved'
      <3>1. \A k \in DOMAIN chunks : Edited(k)' => Edited(k)
        BY <1>1, <1>2, <2>3, <2>4 DEF Edited
      <3>2. SUFFICES ASSUME NEW k \in DOMAIN chunks, Edited(k), ~chunks'[k].dirty
                     PROVE  /\ k \in DOMAIN chunkRows'
                            /\ chunkRows'[k].voxelData = SerializeChunk(chunks'[k].voxels)
        BY <2>3, <3>1 DEF CleanBytesSaved
      <3>3. CASE k = id
        BY <2>2, <2>4, <2>5, <2>6, <3>2, <3>3
      <3>4. CASE k # id
        BY <2>3, <2>5, <3>2, <3>4 DEF CleanBytesSaved, PersistenceIInv
      <3> QED
        BY <3>3, <3>4
    <2>10. Consumed'
      BY <1>1 DEF Consumed, PersistenceIInv
    <2>11. FinalFlush'
      <3>1. ~ok => id \in failed'
        BY <2>1
      <3>2. failed \subseteq failed'
        BY <2>1, <2>2
      <3> QED
        BY <1>1, <2>2, <2>3, <2>4, <3>1, <3>2 DEF FinalFlush, PersistenceIInv
    <2> QED
      BY <2>7, <2>8, <2>9, <2>10, <2>11 DEF PersistenceIInv
  <1> QED
    BY <1>3, <1>4

LEMMA StutterPreserves ==
  ASSUME PersistenceIInv, UNCHANGED persistenceVars
  PROVE  PersistenceIInv'
  BY DEF PersistenceIInv, persistenceVars, memoryVars, tableVars, historyVars, Typed,
         DeltasConserved, Running, EditsOfLoaded, CleanBytesSaved, Edited, Consumed, FinalFlush

THEOREM PersistenceInvariant == PersistenceSpec => []PersistenceIInv
  <1>1. PersistenceInit => PersistenceIInv
    BY InitPersistenceIInv
  <1>2. PersistenceIInv /\ [PersistenceNext]_persistenceVars => PersistenceIInv'
    <2> SUFFICES ASSUME PersistenceIInv, [PersistenceNext]_persistenceVars
                 PROVE  PersistenceIInv'
      OBVIOUS
    <2>1. CASE UNCHANGED persistenceVars
      BY <2>1, StutterPreserves
    <2>2. CASE PersistenceNext
      BY <2>2, StartPreserves, LoopPreserves, AddChunkPreserves, SetVoxelPreserves,
         ConsumeDeltasPreserves, FlushVoxelEventsPreserves, FlushChunkPreserves
         DEF PersistenceNext
    <2> QED
      BY <2>1, <2>2
  <1> QED
    BY <1>1, <1>2, PTL DEF PersistenceSpec

(* On its way from setVoxel to the INSERT no delta is lost, doubled or     *)
(* overtaken, whatever is refused and whenever the server dies             *)
(* (VoxelSystem::consumeDeltas, ChunkStore::appendVoxelEvents).            *)
THEOREM DeltasAreConserved == PersistenceSpec => []DeltasConserved
  <1>1. PersistenceIInv => DeltasConserved
    BY DEF PersistenceIInv
  <1> QED
    BY <1>1, PersistenceInvariant, PTL

(* If chunks of this size can be decoded, a chunk that was edited and is   *)
(* clean can be decoded from its row (VoxelSystem::setVoxel,               *)
(* ChunkStore::flushDirtyChunks).                                          *)
THEOREM CleanChunksAreSaved == PersistenceSpec => []CleanIsSaved
  <1>1. PersistenceIInv => CleanIsSaved
    <2>1. SUFFICES ASSUME PersistenceIInv, NEW id \in DOMAIN chunks, Edited(id), ~chunks[id].dirty
                   PROVE  /\ id \in DOMAIN chunkRows
                          /\ Saved(chunkRows[id]) = [ok |-> TRUE, voxels |-> chunks[id].voxels]
      BY DEF CleanIsSaved
    <2>2. /\ id \in DOMAIN chunkRows
          /\ chunkRows[id].voxelData = SerializeChunk(chunks[id].voxels)
      BY <2>1 DEF PersistenceIInv, CleanBytesSaved
    <2>3. chunks[id].voxels \in [Cells -> Types]
      BY <2>1 DEF PersistenceIInv, Typed, Chunk
    <2>4. [c \in Cells |-> Empty] \in [Cells -> Types]
      BY PersistenceAssumption
    <2>5. \A voxels, before \in [Cells -> Types] :
            DeserializeChunk(SerializeChunk(voxels), before) = [ok |-> TRUE, voxels |-> voxels]
      BY ChunksRoundTrip DEF RoundTrip
    <2> QED
      BY <2>2, <2>3, <2>4, <2>5 DEF Saved
  <1> QED
    BY <1>1, PersistenceInvariant, PTL

(* In every state, and for every size of chunk, the code of chunks is exact *)
(* (VoxelSystem.cpp:116-183).                                               *)
THEOREM CodeIsExact == PersistenceSpec => []CodeExact
  <1>1. CodeExact
    BY ChunksRoundTrip DEF CodeExact
  <1> QED
    BY <1>1, PTL

(* For every grid, a position is in one sector, and each of the two ways to *)
(* name its chunk tells it from every other (Sector.cpp:28-88,              *)
(* VoxelSystem.cpp:10-27).                                                  *)
THEOREM PlacesAreExact == PersistenceSpec => []PlacesExact
  <1>1. PlacesExact
    BY SectorsAreExact, PlacesAreDistinct DEF PlacesExact, CoordinatesExact
  <1> QED
    BY <1>1, PTL

(* A stop in order leaves no delta and no event behind, and of the chunks  *)
(* only those whose save was refused (main.cpp:331-341).                   *)
THEOREM OrderlyStopSaves == PersistenceSpec => StopSavesAll
  <1>1. PersistenceIInv =>
          [phase = "chunks" /\ stopping /\ phase' = "down" /\ toFlush = {} =>
             /\ deltas = <<>> /\ events = <<>>
             /\ \A id \in DOMAIN chunks : chunks[id].dirty => id \in failed]_persistenceVars
    BY DEF PersistenceIInv, Consumed, FinalFlush
  <1> QED
    BY <1>1, PersistenceInvariant, PTL DEF StopSavesAll
=============================================================================
