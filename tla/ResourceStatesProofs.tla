-------------------------- MODULE ResourceStatesProofs --------------------------
(***************************************************************************)
(* The barriers, for any resources and states and any size of the array.   *)
(*                                                                         *)
(* RecordAgrees speaks of the state the GPU has when it has met what waits *)
(* in the array.  Each step of the tracker is shown to leave that state,   *)
(* TheEnd, alone (a flush) or to take it one barrier further (Add), with   *)
(* the Flags the barrier should have or, in the second way to go astray,   *)
(* with others.  An invariant of its own says that no transition is under  *)
(* way to the state a resource has, without which finishing one would do   *)
(* nothing.                                                                *)
(***************************************************************************)
EXTENDS ResourceStates, SequenceTheorems, WellFoundedInduction, TLAPS

St == States \cup {NoState}
Flags == {"NONE", "BEGIN_ONLY", "END_ONLY"}
Barrier == [kind: {"transition", "uav"}, resource: Resources, before: St, after: St]
GpuState == [state: St, split: St]
Outcomes == [Resources -> GpuState]
Slots == 1 .. MAX_NUM_BARRIERS

-----------------------------------------------------------------------------
LEMMA BoundedInduction ==
  ASSUME NEW n \in Nat, NEW T \in SUBSET (0 .. n), 0 \in T,
         \A k \in T : k < n => k + 1 \in T
  PROVE  n \in T
  <1> DEFINE U == (0 .. n) \ T
  <1>1. SUFFICES ASSUME U # {} PROVE FALSE
    OBVIOUS
  <1>2. U \subseteq Nat
    OBVIOUS
  <1> HIDE DEF U
  <1>3. PICK x \in U : \A y \in U : ~(<<y, x>> \in OpToRel(<, Nat))
    BY <1>1, <1>2, WFMin, NatLessThanWellFounded, Zenon
  <1>4. \A y \in U : ~(y < x)
    <2>1. \A y \in U : <<y, x>> \in Nat \X Nat
      BY <1>2
    <2> QED
      BY <1>3, <2>1 DEF OpToRel
  <1> QED
    <2>1. x \in 0 .. n /\ x \notin T /\ x # 0
      BY DEF U
    <2>2. x - 1 \in 0 .. n /\ x - 1 < n /\ (x - 1) + 1 = x /\ x - 1 < x
      BY <2>1
    <2>3. x - 1 \in T
      BY <1>4, <2>2 DEF U
    <2> QED
      BY <2>1, <2>2, <2>3

(* The outcomes after each barrier.                                        *)
IsSeries(after, barriers, fl, g) ==
  /\ after[0] = g
  /\ \A i \in 1 .. Len(barriers) : after[i] = Met(after[i - 1], barriers[i], fl[i])

LEMMA OutcomeIsSeries ==
  ASSUME NEW barriers, Len(barriers) \in Nat, NEW fl, NEW g
  PROVE  \E after : /\ IsSeries(after, barriers, fl, g)
                    /\ Outcome(barriers, fl, g) = after[Len(barriers)]
  <1> DEFINE n == Len(barriers)
             Step(f, i) == IF i = 0 THEN g ELSE Met(f[i - 1], barriers[i], fl[i])
             T == {m \in 0 .. n : \E f : f = [i \in 0 .. m |-> Step(f, i)]}
             after == CHOOSE f : f = [i \in 0 .. n |-> Step(f, i)]
  <1>1. 0 \in T
    <2> DEFINE f == [i \in 0 .. 0 |-> g]
    <2>1. f = [i \in 0 .. 0 |-> Step(f, i)]
      OBVIOUS
    <2> HIDE DEF f, Step
    <2>2. \E h : h = [i \in 0 .. 0 |-> Step(h, i)]
      BY <2>1
    <2> QED
      BY <2>2
  <1>2. ASSUME NEW m \in T, m < n
        PROVE  m + 1 \in T
    <2>1. PICK f : f = [i \in 0 .. m |-> Step(f, i)]
      OBVIOUS
    <2> DEFINE next == Met(f[m], barriers[m + 1], fl[m + 1])
               h == [i \in 0 .. m + 1 |-> IF i = m + 1 THEN next ELSE f[i]]
    <2>2. m \in Nat /\ \A i \in 0 .. m : f[i] = Step(f, i)
      BY <2>1
    <2>3. \A i \in 0 .. m + 1 : h[i] = Step(h, i)
      <3>1. SUFFICES ASSUME NEW i \in 0 .. m + 1 PROVE h[i] = Step(h, i)
        OBVIOUS
      <3>2. CASE i = 0
        BY <2>2, <3>2
      <3>3. CASE i = m + 1
        BY <2>2, <3>3
      <3>4. CASE i \in 1 .. m
        <4>1. h[i] = f[i] /\ h[i - 1] = f[i - 1]
          BY <2>2, <3>4
        <4> QED
          BY <2>2, <3>4, <4>1
      <3> QED
        BY <2>2, <3>2, <3>3, <3>4
    <2>4. h = [i \in 0 .. m + 1 |-> Step(h, i)]
      <3> HIDE DEF Step, next
      <3> QED
        BY <2>3
    <2> HIDE DEF h, Step
    <2>5. \E k : k = [i \in 0 .. m + 1 |-> Step(k, i)]
      BY <2>4
    <2> QED
      BY <1>2, <2>2, <2>5
  <1>3. n \in T
    <2> HIDE DEF T
    <2> QED
      BY <1>1, <1>2, BoundedInduction DEF T
  <1>4. after = [i \in 0 .. n |-> Step(after, i)]
    BY <1>3
  <1>5. Outcome(barriers, fl, g) = after[n]
    BY DEF Outcome
  <1> HIDE DEF after
  <1>6. IsSeries(after, barriers, fl, g)
    BY <1>4 DEF IsSeries
  <1> QED
    BY <1>5, <1>6

LEMMA SeriesEndsInOutcome ==
  ASSUME NEW barriers, Len(barriers) \in Nat, NEW fl, NEW g,
         NEW f, IsSeries(f, barriers, fl, g)
  PROVE  Outcome(barriers, fl, g) = f[Len(barriers)]
  <1> DEFINE n == Len(barriers)
  <1>1. PICK after : /\ IsSeries(after, barriers, fl, g)
                     /\ Outcome(barriers, fl, g) = after[n]
    BY OutcomeIsSeries
  <1> DEFINE T == {i \in 0 .. n : f[i] = after[i]}
  <1>2. 0 \in T
    BY <1>1 DEF IsSeries
  <1>3. ASSUME NEW i \in T, i < n
        PROVE  i + 1 \in T
    <2>1. i + 1 \in 1 .. n /\ (i + 1) - 1 = i /\ i + 1 \in 0 .. n
      BY <1>3
    <2>2. /\ f[i + 1] = Met(f[i], barriers[i + 1], fl[i + 1])
          /\ after[i + 1] = Met(after[i], barriers[i + 1], fl[i + 1])
      BY <1>1, <2>1 DEF IsSeries
    <2> QED
      BY <2>1, <2>2
  <1>4. n \in T
    <2> HIDE DEF T
    <2> QED
      BY <1>2, <1>3, BoundedInduction DEF T
  <1> QED
    BY <1>1, <1>4

LEMMA NoBarriers ==
  ASSUME NEW fl, NEW g
  PROVE  Outcome(<<>>, fl, g) = g
  <1>1. PICK after : /\ IsSeries(after, <<>>, fl, g)
                     /\ Outcome(<<>>, fl, g) = after[0]
    BY OutcomeIsSeries
  <1> QED
    BY <1>1 DEF IsSeries

(* The outcome of one barrier more depends on the Flags of their slots     *)
(* only.                                                                   *)
LEMMA OneBarrierMore ==
  ASSUME NEW barriers \in Seq(Barrier), NEW b \in Barrier, NEW fl, NEW fl2, NEW g,
         \A i \in 1 .. Len(barriers) : fl2[i] = fl[i]
  PROVE  Outcome(Append(barriers, b), fl2, g)
           = Met(Outcome(barriers, fl, g), b, fl2[Len(barriers) + 1])
  <1> DEFINE longer == Append(barriers, b)
             n == Len(barriers)
  <1>1. /\ n \in Nat /\ Len(longer) = n + 1 /\ longer[n + 1] = b
        /\ \A i \in 1 .. n : longer[i] = barriers[i]
    BY AppendProperties
  <1> HIDE DEF longer
  <1>2. PICK after : /\ IsSeries(after, longer, fl2, g)
                     /\ Outcome(longer, fl2, g) = after[n + 1]
    BY <1>1, OutcomeIsSeries
  <1>3. IsSeries(after, barriers, fl, g)
    <2>1. \A i \in 1 .. n : i \in 1 .. n + 1
      BY <1>1
    <2> QED
      BY <1>1, <1>2, <2>1 DEF IsSeries
  <1>4. Outcome(barriers, fl, g) = after[n]
    BY <1>1, <1>3, SeriesEndsInOutcome
  <1>5. after[n + 1] = Met(after[n], b, fl2[n + 1])
    <2>1. n + 1 \in 1 .. n + 1 /\ (n + 1) - 1 = n
      BY <1>1
    <2> QED
      BY <1>1, <1>2, <2>1 DEF IsSeries
  <1> QED
    BY <1>2, <1>4, <1>5 DEF longer

(* The outcome depends on the Flags of the slots in use only.              *)
LEMMA FlagsInUse ==
  ASSUME NEW barriers, Len(barriers) \in Nat, NEW fl, NEW fl2, NEW g,
         \A i \in 1 .. Len(barriers) : fl2[i] = fl[i]
  PROVE  Outcome(barriers, fl2, g) = Outcome(barriers, fl, g)
  <1>1. PICK after : /\ IsSeries(after, barriers, fl, g)
                     /\ Outcome(barriers, fl, g) = after[Len(barriers)]
    BY OutcomeIsSeries
  <1>2. IsSeries(after, barriers, fl2, g)
    BY <1>1 DEF IsSeries
  <1> QED
    BY <1>1, <1>2, SeriesEndsInOutcome

(* A barrier moves its own resource only.                                  *)
LEMMA MetTyped ==
  ASSUME NEW g \in Outcomes, NEW b \in Barrier, NEW flag
  PROVE  /\ Met(g, b, flag) \in Outcomes
         /\ \A q \in Resources \ {b.resource} : Met(g, b, flag)[q] = g[q]
  <1>1. b.resource \in Resources /\ b.before \in St /\ b.after \in St /\ NoState \in St
    BY DEF Barrier, St
  <1>2. /\ Lost \in GpuState /\ [state |-> b.before, split |-> b.after] \in GpuState
        /\ [state |-> b.after, split |-> NoState] \in GpuState
    BY <1>1 DEF Lost, GpuState
  <1> QED
    BY <1>1, <1>2 DEF Met, Outcomes

LEMMA SeriesTyped ==
  ASSUME NEW barriers \in Seq(Barrier), NEW fl, NEW g \in Outcomes,
         NEW after, IsSeries(after, barriers, fl, g)
  PROVE  \A i \in 0 .. Len(barriers) : after[i] \in Outcomes
  <1> DEFINE n == Len(barriers)
             T == {i \in 0 .. n : \A j \in 0 .. i : after[j] \in Outcomes}
  <1>1. n \in Nat /\ \A i \in 1 .. n : barriers[i] \in Barrier
    BY ElementOfSeq
  <1>2. 0 \in T
    <2>1. after[0] \in Outcomes
      BY DEF IsSeries
    <2> QED
      BY <1>1, <2>1
  <1>3. ASSUME NEW i \in T, i < n
        PROVE  i + 1 \in T
    <2>1. i + 1 \in 1 .. n /\ (i + 1) - 1 = i /\ i \in 0 .. i
      BY <1>1, <1>3
    <2>2. after[i + 1] = Met(after[i], barriers[i + 1], fl[i + 1])
      BY <2>1 DEF IsSeries
    <2>3. after[i + 1] \in Outcomes
      BY <1>1, <2>1, <2>2, MetTyped
    <2>4. \A j \in 0 .. i + 1 : j \in 0 .. i \/ j = i + 1
      BY <2>1
    <2> QED
      BY <2>1, <2>3, <2>4
  <1>4. n \in T
    <2> HIDE DEF T
    <2> QED
      BY <1>1, <1>2, <1>3, BoundedInduction DEF T
  <1> QED
    BY <1>4

LEMMA OutcomeTyped ==
  ASSUME NEW barriers \in Seq(Barrier), NEW fl, NEW g \in Outcomes
  PROVE  Outcome(barriers, fl, g) \in Outcomes
  <1>1. Len(barriers) \in Nat /\ Len(barriers) \in 0 .. Len(barriers)
    OBVIOUS
  <1>2. PICK after : /\ IsSeries(after, barriers, fl, g)
                     /\ Outcome(barriers, fl, g) = after[Len(barriers)]
    BY <1>1, OutcomeIsSeries
  <1> QED
    BY <1>1, <1>2, SeriesTyped

(* Barriers of other resources leave a resource as it is.                  *)
LEMMA OthersAside ==
  ASSUME NEW barriers \in Seq(Barrier), NEW fl, NEW g \in Outcomes,
         NEW r \in Resources, NEW x \in GpuState,
         \A i \in DOMAIN barriers : barriers[i].resource # r
  PROVE  Outcome(barriers, fl, [g EXCEPT ![r] = x])
           = [Outcome(barriers, fl, g) EXCEPT ![r] = x]
  <1> DEFINE n == Len(barriers)
  <1>1. n \in Nat /\ \A i \in 1 .. n : barriers[i] \in Barrier /\ barriers[i].resource # r
    BY ElementOfSeq
  <1>2. PICK after : /\ IsSeries(after, barriers, fl, g)
                     /\ Outcome(barriers, fl, g) = after[n]
    BY <1>1, OutcomeIsSeries
  <1>3. \A i \in 0 .. n : after[i] \in Outcomes
    BY <1>2, SeriesTyped
  <1> DEFINE With(o) == [o EXCEPT ![r] = x]
             changed == [i \in 0 .. n |-> With(after[i])]
  <1>4. ASSUME NEW o \in Outcomes, NEW b \in Barrier, b.resource # r, NEW flag
        PROVE  Met(With(o), b, flag) = With(Met(o, b, flag))
    <2>1. /\ b.resource \in Resources /\ With(o) \in Outcomes
          /\ With(o)[b.resource] = o[b.resource]
      BY <1>4 DEF Outcomes, Barrier
    <2>2. Fits(b, flag, With(o)) <=> Fits(b, flag, o)
      BY <2>1 DEF Fits
    <2> DEFINE y == IF ~Fits(b, flag, o) THEN Lost
                    ELSE IF flag = "BEGIN_ONLY" THEN [state |-> b.before, split |-> b.after]
                    ELSE [state |-> b.after, split |-> NoState]
    <2>3. CASE b.kind = "uav"
      BY <2>3 DEF Met
    <2>4. CASE b.kind # "uav"
      <3>1. /\ Met(With(o), b, flag) = [With(o) EXCEPT ![b.resource] = y]
            /\ Met(o, b, flag) = [o EXCEPT ![b.resource] = y]
        BY <2>2, <2>4 DEF Met
      <3> HIDE DEF y
      <3>2. [[o EXCEPT ![r] = x] EXCEPT ![b.resource] = y]
              = [[o EXCEPT ![b.resource] = y] EXCEPT ![r] = x]
        BY <1>4, <2>1 DEF Outcomes
      <3> QED
        BY <3>1, <3>2
    <2> QED
      BY <2>3, <2>4
  <1>5. IsSeries(changed, barriers, fl, [g EXCEPT ![r] = x])
    <2>1. changed[0] = [g EXCEPT ![r] = x]
      BY <1>1, <1>2 DEF IsSeries
    <2>2. ASSUME NEW i \in 1 .. n
          PROVE  changed[i] = Met(changed[i - 1], barriers[i], fl[i])
      <3>1. i \in 0 .. n /\ i - 1 \in 0 .. n
        BY <1>1
      <3>2. after[i] = Met(after[i - 1], barriers[i], fl[i])
        BY <1>2 DEF IsSeries
      <3>3. changed[i] = With(after[i]) /\ changed[i - 1] = With(after[i - 1])
        BY <3>1
      <3> HIDE DEF With, changed
      <3> QED
        BY <1>1, <1>3, <1>4, <3>1, <3>2, <3>3
    <2> HIDE DEF changed
    <2> QED
      BY <2>1, <2>2 DEF IsSeries
  <1>6. Outcome(barriers, fl, [g EXCEPT ![r] = x]) = changed[n]
    <2> HIDE DEF changed
    <2> QED
      BY <1>1, <1>5, SeriesEndsInOutcome
  <1> QED
    BY <1>1, <1>2, <1>6

-----------------------------------------------------------------------------
(* The tracker in the middle of a call, and the GPU when it has met all    *)
(* that waits.                                                             *)
Tracker == [batch: Seq(Barrier), flags: [Slots -> Flags], gpu: Outcomes]

Sound(s) == s \in Tracker /\ Len(s.batch) <= MAX_NUM_BARRIERS

TheEnd(s) == Outcome(s.batch, s.flags, s.gpu)

Fielded(s) == s = [batch |-> s.batch, flags |-> s.flags, gpu |-> s.gpu]

LEMMA SoundFields ==
  ASSUME NEW s, Sound(s)
  PROVE  /\ Fielded(s)
         /\ s.batch \in Seq(Barrier) /\ s.flags \in [Slots -> Flags] /\ s.gpu \in Outcomes
         /\ Len(s.batch) \in Nat /\ Len(s.batch) <= MAX_NUM_BARRIERS
         /\ TheEnd(s) \in Outcomes
  <1>1. /\ Fielded(s)
        /\ s.batch \in Seq(Barrier) /\ s.flags \in [Slots -> Flags] /\ s.gpu \in Outcomes
        /\ Len(s.batch) \in Nat /\ Len(s.batch) <= MAX_NUM_BARRIERS
    BY DEF Sound, Tracker, Fielded
  <1>2. TheEnd(s) \in Outcomes
    BY <1>1, OutcomeTyped DEF TheEnd
  <1> QED
    BY <1>1, <1>2

(* A flush leaves the end as it was.                                       *)
LEMMA Flushing ==
  ASSUME NEW s, Sound(s)
  PROVE  /\ Sound(Flushed(s)) /\ Flushed(s).batch = <<>>
         /\ TheEnd(Flushed(s)) = TheEnd(s) /\ Flushed(s).flags = s.flags
  <1> DEFINE o == TheEnd(s)
  <1>1. o \in Outcomes
    BY SoundFields
  <1>2. Flushed(s) = [batch |-> <<>>, flags |-> s.flags, gpu |-> o]
    <2>1. Flushed(s) = [s EXCEPT !.batch = <<>>, !.gpu = o]
      BY DEF Flushed, TheEnd
    <2> HIDE DEF o
    <2> QED
      BY <2>1, SoundFields DEF Fielded
  <1>3. <<>> \in Seq(Barrier) /\ Len(<<>>) = 0 /\ 0 <= MAX_NUM_BARRIERS
    BY StatesAssumption
  <1> HIDE DEF o
  <1>4. Sound(Flushed(s))
    BY <1>1, <1>2, <1>3, SoundFields DEF Sound, Tracker
  <1>5. TheEnd(Flushed(s)) = o
    BY <1>2, NoBarriers DEF TheEnd
  <1> QED
    BY <1>2, <1>4, <1>5 DEF o

LEMMA Freeing ==
  ASSUME NEW s, Sound(s)
  PROVE  /\ Sound(FlushedIfFull(s)) /\ TheEnd(FlushedIfFull(s)) = TheEnd(s)
         /\ Len(FlushedIfFull(s).batch) < MAX_NUM_BARRIERS
         /\ FlushedIfFull(s).flags = s.flags
         /\ Len(s.batch) = MAX_NUM_BARRIERS => FlushedIfFull(s).batch = <<>>
         /\ Len(s.batch) < MAX_NUM_BARRIERS => FlushedIfFull(s) = s
  <1>1. MAX_NUM_BARRIERS \in Nat /\ MAX_NUM_BARRIERS > 0
    BY StatesAssumption
  <1>2. CASE Len(s.batch) = MAX_NUM_BARRIERS
    <2>1. FlushedIfFull(s) = Flushed(s) /\ Len(Flushed(s).batch) = 0
      BY <1>2, Flushing DEF FlushedIfFull, IsFull
    <2> QED
      BY <1>1, <1>2, <2>1, Flushing
  <1>3. CASE Len(s.batch) # MAX_NUM_BARRIERS
    <2>1. FlushedIfFull(s) = s
      BY <1>3 DEF FlushedIfFull, IsFull
    <2> QED
      BY <1>1, <1>3, <2>1, SoundFields
  <1> QED
    BY <1>2, <1>3

LEMMA FlushingIf ==
  ASSUME NEW s, Sound(s), NEW immediate \in BOOLEAN
  PROVE  Sound(FlushedIf(s, immediate)) /\ TheEnd(FlushedIf(s, immediate)) = TheEnd(s)
  BY Flushing DEF FlushedIf

(* The Flags with one of them changed.                                     *)
Changed(fl, slot, flag) == [fl EXCEPT ![slot] = flag]

LEMMA SameFields ==
  ASSUME NEW s, NEW t, Fielded(s), Fielded(t), s.batch = t.batch, s.flags = t.flags,
         s.gpu = t.gpu
  PROVE  s = t
  BY DEF Fielded

LEMMA PutFields ==
  ASSUME NEW s, Fielded(s), NEW b
  PROVE  /\ Fielded(Put(s, b)) /\ Put(s, b).batch = Append(s.batch, b)
         /\ Put(s, b).flags = s.flags /\ Put(s, b).gpu = s.gpu
  <1>1. PICK x, y, z : s = [batch |-> x, flags |-> y, gpu |-> z]
    BY DEF Fielded
  <1> DEFINE longer == Append(s.batch, b)
  <1>2. Put(s, b) = [s EXCEPT !.batch = longer]
    BY DEF Put
  <1> HIDE DEF longer
  <1>3. Put(s, b) = [batch |-> longer, flags |-> y, gpu |-> z]
    BY <1>1, <1>2
  <1>4. s.flags = y /\ s.gpu = z
    BY <1>1
  <1> QED
    BY <1>3, <1>4 DEF longer, Fielded

LEMMA FlagSetFields ==
  ASSUME NEW s, Fielded(s), NEW slot, NEW flag
  PROVE  /\ Fielded(FlagSet(s, slot, flag)) /\ FlagSet(s, slot, flag).batch = s.batch
         /\ FlagSet(s, slot, flag).flags = Changed(s.flags, slot, flag)
         /\ FlagSet(s, slot, flag).gpu = s.gpu
  <1>1. PICK x, y, z : s = [batch |-> x, flags |-> y, gpu |-> z]
    BY DEF Fielded
  <1> DEFINE changed == [s.flags EXCEPT ![slot] = flag]
  <1>2. FlagSet(s, slot, flag) = [s EXCEPT !.flags = changed]
    BY DEF FlagSet
  <1> HIDE DEF changed
  <1>3. FlagSet(s, slot, flag) = [batch |-> x, flags |-> changed, gpu |-> z]
    BY <1>1, <1>2
  <1>4. s.batch = x /\ s.gpu = z
    BY <1>1
  <1> QED
    BY <1>3, <1>4 DEF changed, Changed, Fielded

(* A slot is taken and its Flags are set.                                  *)
Added(s, b, flag) == FlagSet(Put(s, b), Len(s.batch) + 1, flag)

LEMMA AddedFields ==
  ASSUME NEW s, Fielded(s), NEW b, NEW flag
  PROVE  /\ Fielded(Added(s, b, flag)) /\ Added(s, b, flag).batch = Append(s.batch, b)
         /\ Added(s, b, flag).flags = Changed(s.flags, Len(s.batch) + 1, flag)
         /\ Added(s, b, flag).gpu = s.gpu
  <1> DEFINE put == Put(s, b)
             n == Len(s.batch)
  <1>1. /\ Fielded(put) /\ put.batch = Append(s.batch, b)
        /\ put.flags = s.flags /\ put.gpu = s.gpu
    BY PutFields
  <1>2. Added(s, b, flag) = FlagSet(put, n + 1, flag)
    BY DEF Added
  <1> HIDE DEF put, n
  <1>3. /\ Fielded(FlagSet(put, n + 1, flag)) /\ FlagSet(put, n + 1, flag).batch = put.batch
        /\ FlagSet(put, n + 1, flag).flags = Changed(put.flags, n + 1, flag)
        /\ FlagSet(put, n + 1, flag).gpu = put.gpu
    BY <1>1, FlagSetFields
  <1> QED
    BY <1>1, <1>2, <1>3 DEF n

(* The Flags of a barrier may be set after the next barrier's.             *)
LEMMA FlagsInAnyOrder ==
  ASSUME NEW s, Fielded(s), s.batch \in Seq(Barrier), s.flags \in [Slots -> Flags],
         NEW b \in Barrier, NEW u, NEW flag, NEW noFlag
  PROVE  FlagSet(Added(Put(s, b), u, noFlag), Len(s.batch) + 1, flag)
           = Added(Added(s, b, flag), u, noFlag)
  <1>1. PICK n, m, put, more, one, late, two :
          /\ n = Len(s.batch) + 1 /\ m = n + 1 /\ put = Put(s, b)
          /\ more = Added(put, u, noFlag) /\ one = Added(s, b, flag)
          /\ late = FlagSet(more, n, flag) /\ two = Added(one, u, noFlag)
    OBVIOUS
  <1>2. Len(Append(s.batch, b)) = n /\ n \in Nat /\ n # m
    BY <1>1, AppendProperties
  <1>3. /\ Fielded(put) /\ put.batch = Append(s.batch, b) /\ put.flags = s.flags
        /\ put.gpu = s.gpu
    BY <1>1, PutFields
  <1>4. /\ Fielded(more) /\ more.batch = Append(put.batch, u)
        /\ more.flags = Changed(s.flags, m, noFlag)
        /\ more.gpu = s.gpu
    <2>1. /\ Fielded(more) /\ more.batch = Append(put.batch, u)
          /\ more.flags = Changed(put.flags, Len(put.batch) + 1, noFlag)
          /\ more.gpu = put.gpu
      BY <1>1, <1>3, AddedFields
    <2>2. Len(put.batch) + 1 = m
      BY <1>1, <1>2, <1>3
    <2> QED
      BY <1>3, <2>1, <2>2
  <1>5. /\ Fielded(late) /\ late.batch = more.batch /\ late.flags = Changed(more.flags, n, flag)
        /\ late.gpu = more.gpu
    BY <1>1, <1>4, FlagSetFields
  <1>6. /\ Fielded(one) /\ one.batch = put.batch /\ one.flags = Changed(s.flags, n, flag)
        /\ one.gpu = s.gpu
    BY <1>1, <1>3, AddedFields
  <1>7. /\ Fielded(two) /\ two.batch = more.batch /\ two.flags = Changed(one.flags, m, noFlag)
        /\ two.gpu = s.gpu
    <2>1. /\ Fielded(two) /\ two.batch = Append(one.batch, u)
          /\ two.flags = Changed(one.flags, Len(one.batch) + 1, noFlag)
          /\ two.gpu = one.gpu
      BY <1>1, <1>6, AddedFields
    <2>2. Len(one.batch) + 1 = m
      BY <1>1, <1>2, <1>3, <1>6
    <2> QED
      BY <1>4, <1>6, <2>1, <2>2
  <1>8. Changed(Changed(s.flags, m, noFlag), n, flag)
          = Changed(Changed(s.flags, n, flag), m, noFlag)
    BY <1>2 DEF Changed
  <1>9. late = two
    BY <1>3, <1>4, <1>5, <1>6, <1>7, <1>8, SameFields
  <1> QED
    BY <1>1, <1>9

(* A barrier and its flag take the end one barrier further.                *)
LEMMA Adding ==
  ASSUME NEW s, Sound(s), Len(s.batch) < MAX_NUM_BARRIERS,
         NEW b \in Barrier, NEW flag \in Flags
  PROVE  /\ Sound(Added(s, b, flag)) /\ Len(Added(s, b, flag).batch) = Len(s.batch) + 1
         /\ TheEnd(Added(s, b, flag)) = Met(TheEnd(s), b, flag)
  <1> DEFINE n == Len(s.batch)
             t == Added(s, b, flag)
             fl == [s.flags EXCEPT ![n + 1] = flag]
  <1>1. n \in Nat /\ n + 1 \in Slots /\ n + 1 <= MAX_NUM_BARRIERS /\ s.batch \in Seq(Barrier)
    BY SoundFields, StatesAssumption DEF Slots
  <1>2. /\ Fielded(t) /\ t.batch = Append(s.batch, b) /\ t.flags = fl
        /\ t.gpu = s.gpu
    BY SoundFields, AddedFields DEF Fielded, Changed
  <1>3. Append(s.batch, b) \in Seq(Barrier) /\ Len(Append(s.batch, b)) = n + 1
    BY <1>1, AppendProperties
  <1>4. fl \in [Slots -> Flags] /\ fl[n + 1] = flag
        /\ \A i \in 1 .. n : fl[i] = s.flags[i]
    <2>1. s.flags \in [Slots -> Flags]
      BY SoundFields
    <2>2. \A i \in 1 .. n : i \in Slots /\ i # n + 1
      BY <1>1, StatesAssumption DEF Slots
    <2> QED
      BY <1>1, <2>1, <2>2
  <1>5. fl[n + 1] = flag
    BY <1>1, <1>4
  <1> HIDE DEF t, fl
  <1>6. Sound(t)
    BY <1>1, <1>2, <1>3, <1>4, SoundFields DEF Sound, Tracker, Fielded
  <1>7. TheEnd(t) = Outcome(Append(s.batch, b), fl, s.gpu)
    BY <1>2 DEF TheEnd
  <1>8. TheEnd(t) = Met(TheEnd(s), b, flag)
    BY <1>1, <1>4, <1>5, <1>7, OneBarrierMore DEF TheEnd
  <1> QED
    BY <1>2, <1>3, <1>6, <1>8 DEF t, fl

(* A slot that is taken keeps its Flags until they are set.                *)
LEMMA Putting ==
  ASSUME NEW s, Sound(s), Len(s.batch) < MAX_NUM_BARRIERS, NEW b \in Barrier
  PROVE  LET stale == s.flags[Len(s.batch) + 1]
         IN  stale \in Flags /\ Put(s, b) = Added(s, b, stale)
  <1> DEFINE n == Len(s.batch) + 1
             stale == s.flags[n]
  <1>1. n \in Slots /\ s.flags \in [Slots -> Flags]
    BY SoundFields, StatesAssumption DEF Slots
  <1>2. Changed(s.flags, n, stale) = s.flags
    BY <1>1 DEF Changed
  <1>3. /\ Fielded(Put(s, b)) /\ Put(s, b).batch = Append(s.batch, b)
        /\ Put(s, b).flags = s.flags /\ Put(s, b).gpu = s.gpu
    BY SoundFields, PutFields
  <1>4. /\ Fielded(Added(s, b, stale)) /\ Added(s, b, stale).batch = Append(s.batch, b)
        /\ Added(s, b, stale).flags = Changed(s.flags, n, stale)
        /\ Added(s, b, stale).gpu = s.gpu
    BY SoundFields, AddedFields
  <1> QED
    BY <1>1, <1>2, <1>3, <1>4, SameFields

(* Flags set past the slots in use mean nothing.                           *)
LEMMA SettingUnused ==
  ASSUME NEW s, Sound(s), NEW slot \in Slots, slot > Len(s.batch), NEW flag \in Flags
  PROVE  Sound(FlagSet(s, slot, flag)) /\ TheEnd(FlagSet(s, slot, flag)) = TheEnd(s)
  <1> DEFINE t == FlagSet(s, slot, flag)
  <1>1. /\ Fielded(s) /\ s.batch \in Seq(Barrier) /\ Len(s.batch) \in Nat
        /\ s.flags \in [Slots -> Flags]
    BY SoundFields
  <1>2. /\ Fielded(t) /\ t.batch = s.batch /\ t.flags = Changed(s.flags, slot, flag)
        /\ t.gpu = s.gpu
    BY <1>1, FlagSetFields
  <1>3. t.flags \in [Slots -> Flags]
    BY <1>1, <1>2 DEF Changed
  <1>4. \A i \in 1 .. Len(s.batch) : t.flags[i] = s.flags[i]
    <2>1. \A i \in 1 .. Len(s.batch) : i # slot
      BY <1>1 DEF Slots
    <2> QED
      BY <1>1, <1>2, <2>1 DEF Changed
  <1> HIDE DEF t
  <1>5. Sound(t)
    BY <1>2, <1>3, SoundFields DEF Sound, Tracker, Fielded
  <1>6. TheEnd(t) = TheEnd(s)
    BY <1>1, <1>2, <1>4, FlagsInUse DEF TheEnd
  <1> QED
    BY <1>5, <1>6 DEF t

LEMMA UavMeansNothing ==
  ASSUME NEW o \in Outcomes, NEW r \in Resources
  PROVE  UavBarrier(r) \in Barrier /\ Met(o, UavBarrier(r), "NONE") = o
  BY DEF UavBarrier, Barrier, St, Met

LEMMA AddingUav ==
  ASSUME NEW s, Sound(s), NEW r \in Resources
  PROVE  /\ Sound(WithUav(s, r)) /\ TheEnd(WithUav(s, r)) = TheEnd(s)
         /\ Len(WithUav(s, r).batch) = Len(FlushedIfFull(s).batch) + 1
  <1> DEFINE free == FlushedIfFull(s)
  <1>1. Sound(free) /\ Len(free.batch) < MAX_NUM_BARRIERS /\ TheEnd(free) = TheEnd(s)
        /\ TheEnd(s) \in Outcomes
    BY Freeing, SoundFields
  <1>2. WithUav(s, r) = Added(free, UavBarrier(r), "NONE")
    BY DEF WithUav, Added
  <1>3. UavBarrier(r) \in Barrier /\ Met(TheEnd(s), UavBarrier(r), "NONE") = TheEnd(s)
    BY <1>1, UavMeansNothing
  <1>4. "NONE" \in Flags
    BY DEF Flags
  <1> HIDE DEF free
  <1>5. /\ Sound(WithUav(s, r))
        /\ TheEnd(WithUav(s, r)) = Met(TheEnd(free), UavBarrier(r), "NONE")
        /\ Len(WithUav(s, r).batch) = Len(free.batch) + 1
    BY <1>1, <1>2, <1>3, <1>4, Adding
  <1> QED
    BY <1>1, <1>3, <1>5 DEF free

-----------------------------------------------------------------------------
(* A resource is, at the end, as it is recorded.                           *)
OnRecord(s, r) == TheEnd(s)[r] = [state |-> usage[r], split |-> transitioning[r]]

(* The barrier of TransitionResource, with the Flags it should have.       *)
LEMMA LegalTransition ==
  ASSUME NEW o \in Outcomes, NEW r \in Resources, NEW new \in States,
         o[r] = [state |-> usage[r], split |-> transitioning[r]],
         usage[r] # new, ~OutOfTurn(r, new)
  PROVE  Met(o, Transition(r, usage[r], new), EndingFlag(r, new))[r]
           = [state |-> new, split |-> StillUnderWay(r, new)]
  <1> DEFINE b == Transition(r, usage[r], new)
             flag == EndingFlag(r, new)
  <1>1. /\ b.kind = "transition" /\ b.resource = r /\ b.before = usage[r] /\ b.after = new
        /\ flag = IF transitioning[r] = new THEN "END_ONLY" ELSE "NONE"
        /\ new # NoState /\ transitioning[r] \in {NoState, new}
    BY StatesAssumption DEF Transition, EndingFlag, OutOfTurn
  <1> HIDE DEF b, flag
  <1>2. Fits(b, flag, o) /\ StillUnderWay(r, new) = NoState
    BY <1>1 DEF Fits, StillUnderWay
  <1>3. Met(o, b, flag) = [o EXCEPT ![r] = [state |-> new, split |-> NoState]]
    BY <1>1, <1>2 DEF Met
  <1> QED
    BY <1>2, <1>3 DEF Outcomes, b, flag

(* TransitionResource leaves the other resources as they would have been,  *)
(* whatever is flushed on the way, and takes its own to the new state      *)
(* unless it leads it astray.                                              *)
LEMMA Transitioning ==
  ASSUME NEW s, Sound(s), NEW r \in Resources, NEW new \in States, usage[r] \in States
  PROVE  LET t == Transitioned(s, r, new)
         IN  /\ Sound(t)
             /\ \A q \in Resources \ {r} : TheEnd(t)[q] = TheEnd(s)[q]
             /\ OnRecord(s, r) /\ ~OutOfTurn(r, new) /\ ~SentTooEarly(s, r, new)
                  => TheEnd(t)[r] = [state |-> new, split |-> StillUnderWay(r, new)]
  <1> DEFINE free == FlushedIfFull(s)
             n == Len(free.batch)
             b == Transition(r, usage[r], new)
             flag == EndingFlag(r, new)
             o == TheEnd(s)
             t == Transitioned(s, r, new)
             x == [state |-> new, split |-> StillUnderWay(r, new)]
             Goes == OnRecord(s, r) /\ ~OutOfTurn(r, new) /\ ~SentTooEarly(s, r, new)
  <1>1. /\ Sound(free) /\ n \in Nat /\ n < MAX_NUM_BARRIERS
        /\ MAX_NUM_BARRIERS \in Nat /\ MAX_NUM_BARRIERS >= 2
        /\ TheEnd(free) = o /\ o \in Outcomes
    BY Freeing, SoundFields, StatesAssumption
  <1>2. b \in Barrier /\ b.resource = r
    BY DEF Transition, Barrier, St
  <1>3. flag \in Flags
    BY DEF EndingFlag, Flags
  <1> SUFFICES /\ Sound(t)
               /\ \A q \in Resources \ {r} : TheEnd(t)[q] = o[q]
               /\ Goes => TheEnd(t)[r] = x
    OBVIOUS
  <1>4. ASSUME usage[r] # new, NEW fl \in Flags, Goes => fl = flag
        PROVE  /\ \A q \in Resources \ {r} : Met(o, b, fl)[q] = o[q]
               /\ Goes => Met(o, b, fl)[r] = x
    <2>1. \A q \in Resources \ {r} : Met(o, b, fl)[q] = o[q]
      <3> HIDE DEF b, o
      <3> QED
        BY <1>1, <1>2, MetTyped
    <2>2. ASSUME Goes PROVE Met(o, b, flag)[r] = x
      <3>1. o[r] = [state |-> usage[r], split |-> transitioning[r]]
        BY <2>2 DEF OnRecord
      <3> HIDE DEF o
      <3> QED
        BY <1>1, <1>4, <2>2, <3>1, LegalTransition
    <2> QED
      BY <1>4, <2>1, <2>2
  <1> HIDE DEF b, flag, free, n, o, x, Goes
  <1>5. CASE usage[r] # new
    <2> DEFINE one == Added(free, b, flag)
               put == Put(free, b)
    <2>1. /\ Sound(one) /\ Len(one.batch) = n + 1
          /\ TheEnd(one) = Met(o, b, flag)
      BY <1>1, <1>2, <1>3, Adding DEF n
    <2>2. CASE ~NeedsUav(r, new)
      <3>1. t = one
        BY <1>5, <2>2 DEF Transitioned, Added, free, b, flag
      <3> HIDE DEF one, t
      <3> QED
        BY <1>3, <1>4, <1>5, <2>1, <3>1
    <2>3. CASE NeedsUav(r, new) /\ n + 1 < MAX_NUM_BARRIERS
      <3> DEFINE two == Added(one, UavBarrier(r), "NONE")
      <3>1. /\ UavBarrier(r) \in Barrier /\ Met(TheEnd(one), UavBarrier(r), "NONE") = TheEnd(one)
            /\ "NONE" \in Flags
        BY <2>1, SoundFields, UavMeansNothing DEF Flags
      <3>2. Sound(two) /\ TheEnd(two) = TheEnd(one)
        <4>1. /\ Sound(two)
              /\ TheEnd(two) = Met(TheEnd(one), UavBarrier(r), "NONE")
          <5> HIDE DEF one
          <5> QED
            BY <2>1, <2>3, <3>1, Adding
        <4> HIDE DEF two, one
        <4> QED
          BY <3>1, <4>1
      <3>3. t = two
        <4>1. /\ Fielded(free) /\ free.batch \in Seq(Barrier) /\ free.flags \in [Slots -> Flags]
              /\ Len(free.batch) + 1 = n + 1
          BY <1>1, SoundFields DEF n, Fielded
        <4>2. Fielded(put) /\ Len(put.batch) = n + 1
          <5>1. put.batch = Append(free.batch, b) /\ Fielded(put)
            BY <4>1, PutFields
          <5>2. Len(Append(free.batch, b)) = Len(free.batch) + 1
            BY <1>2, <4>1, AppendProperties
          <5> QED
            BY <4>1, <5>1, <5>2
        <4>3. FlushedIfFull(put) = put
          <5> HIDE DEF put
          <5> QED
            BY <1>1, <2>3, <4>2 DEF FlushedIfFull, IsFull
        <4>4. t = FlagSet(WithUav(put, r), n + 1, flag)
          BY <1>5, <2>3 DEF Transitioned, free, b, flag, n, put
        <4>5. WithUav(put, r) = Added(put, UavBarrier(r), "NONE")
          <5> HIDE DEF put
          <5> QED
            BY <4>3 DEF WithUav, Added
        <4>6. FlagSet(Added(put, UavBarrier(r), "NONE"), n + 1, flag) = two
          BY <1>2, <4>1, FlagsInAnyOrder DEF n
        <4> HIDE DEF t, two, put
        <4> QED
          BY <4>4, <4>5, <4>6
      <3> HIDE DEF one, two, t
      <3> QED
        BY <1>3, <1>4, <1>5, <2>1, <3>2, <3>3
    <2>4. CASE NeedsUav(r, new) /\ n + 1 = MAX_NUM_BARRIERS
      <3> DEFINE stale == free.flags[n + 1]
                 w == WithUav(put, r)
      <3>1. stale \in Flags /\ put = Added(free, b, stale)
        BY <1>1, <1>2, Putting DEF n
      <3>2. /\ Sound(put) /\ Len(put.batch) = MAX_NUM_BARRIERS
            /\ TheEnd(put) = Met(o, b, stale)
        <4> HIDE DEF stale, put
        <4> QED
          BY <1>1, <1>2, <2>4, <3>1, Adding DEF n
      <3>3. Sound(w) /\ TheEnd(w) = TheEnd(put) /\ Len(w.batch) = 1
        <4> HIDE DEF put
        <4>1. /\ Sound(w) /\ TheEnd(w) = TheEnd(put)
              /\ Len(w.batch) = Len(FlushedIfFull(put).batch) + 1
          BY <3>2, AddingUav
        <4>2. Len(FlushedIfFull(put).batch) = 0
          BY <3>2, Freeing
        <4> HIDE DEF w
        <4> QED
          BY <4>1, <4>2
      <3>4. t = FlagSet(w, n + 1, flag)
        BY <1>5, <2>4 DEF Transitioned, free, b, flag, n
      <3>5. n + 1 \in Slots /\ n + 1 > 1
        BY <1>1, <2>4 DEF Slots
      <3>6. Sound(t) /\ TheEnd(t) = TheEnd(w)
        <4> HIDE DEF w, t
        <4> QED
          BY <1>3, <3>3, <3>4, <3>5, SettingUnused
      <3>7. Goes => stale = flag
        BY <1>5, <2>4 DEF Goes, SentTooEarly, free, n, flag
      <3> HIDE DEF t, w, put, stale
      <3> QED
        BY <1>4, <1>5, <3>1, <3>2, <3>3, <3>6, <3>7
    <2>5. n + 1 < MAX_NUM_BARRIERS \/ n + 1 = MAX_NUM_BARRIERS
      BY <1>1
    <2> QED
      BY <2>2, <2>3, <2>4, <2>5
  <1>6. CASE usage[r] = new
    <2>1. Goes => o[r] = x
      BY <1>6 DEF Goes, OnRecord, o, x, StillUnderWay
    <2>2. CASE new = UNORDERED_ACCESS
      <3>1. t = WithUav(free, r)
        BY <1>6, <2>2 DEF Transitioned, free
      <3>2. Sound(t) /\ TheEnd(t) = o
        <4> HIDE DEF t
        <4> QED
          BY <1>1, <3>1, AddingUav
      <3> HIDE DEF t
      <3> QED
        BY <2>1, <3>2
    <2>3. CASE new # UNORDERED_ACCESS
      <3>1. t = free
        BY <1>6, <2>3 DEF Transitioned, free
      <3> HIDE DEF t
      <3> QED
        BY <1>1, <2>1, <3>1
    <2> QED
      BY <2>2, <2>3
  <1> QED
    BY <1>5, <1>6

-----------------------------------------------------------------------------
(* What the record and the GPU have in common.                             *)
Agreement ==
  /\ usage \in [Resources -> States] /\ transitioning \in [Resources -> St]
  /\ astray \subseteq Resources
  /\ Sound(Now)
  /\ \A r \in Resources \ astray : OnRecord(Now, r)
  /\ \A r \in Resources : transitioning[r] # usage[r]

(* A back buffer is moved by the frame only, and frames end with a flush.  *)
TargetsKept ==
  /\ target \in Targets \cup {NoTarget}
  /\ \A t \in Targets : /\ transitioning[t] = NoState /\ t \notin astray
                        /\ usage[t] = IF t = target THEN RENDER_TARGET ELSE PRESENT
  /\ target = NoTarget => batch = <<>>

(* A process that has written past the array is in the middle of a frame.  *)
StatesIInv == IF BatchFits THEN Agreement /\ TargetsKept ELSE target # NoTarget

LEMMA NowAgrees ==
  ASSUME Agreement
  PROVE  /\ Sound(Now) /\ \A r \in Resources \ astray : OnRecord(Now, r)
         /\ Now.batch = batch /\ Now.flags = flags /\ Now.gpu = gpu
         /\ TheEnd(Now) \in Outcomes /\ TheEnd(Now) = Outcome(batch, flags, gpu)
         /\ batch \in Seq(Barrier) /\ Len(batch) \in Nat /\ gpu \in Outcomes
  <1>1. Now.batch = batch /\ Now.flags = flags /\ Now.gpu = gpu
    BY DEF Now
  <1>2. TheEnd(Now) = Outcome(batch, flags, gpu)
    BY <1>1 DEF TheEnd
  <1>3. Sound(Now) /\ TheEnd(Now) \in Outcomes
    BY SoundFields DEF Agreement
  <1> QED
    BY <1>1, <1>2, <1>3, SoundFields DEF Agreement

LEMMA Became ==
  ASSUME NEW s, Sound(s), Becomes(s)
  PROVE  Sound(Now)' /\ TheEnd(Now)' = TheEnd(s) /\ batch' = s.batch
  <1>1. Now' = s
    BY SoundFields DEF Now, Becomes, Fielded
  <1> QED
    BY <1>1 DEF Sound, TheEnd, Becomes

(* One resource goes, at the end and on record, to the same state, or goes *)
(* astray.                                                                 *)
LEMMA Recorded ==
  ASSUME Agreement, NEW r \in Resources, NEW a \in States, NEW b \in St, b # a,
         Sound(Now)', NEW o, o = TheEnd(Now)',
         \A q \in Resources \ {r} : o[q] = TheEnd(Now)[q],
         r \notin astray' => o[r] = [state |-> a, split |-> b],
         astray \ {r} \subseteq astray', astray' \subseteq astray \cup {r},
         usage' = [usage EXCEPT ![r] = a], transitioning' = [transitioning EXCEPT ![r] = b]
  PROVE  Agreement'
  <1>1. usage \in [Resources -> States] /\ transitioning \in [Resources -> St]
        /\ astray \subseteq Resources
    BY DEF Agreement
  <1>2. usage' \in [Resources -> States] /\ transitioning' \in [Resources -> St]
        /\ astray' \subseteq Resources
    BY <1>1
  <1>3. \A q \in Resources \ astray' : o[q] = [state |-> usage'[q], split |-> transitioning'[q]]
    BY <1>1, NowAgrees DEF OnRecord
  <1>4. \A q \in Resources : transitioning'[q] # usage'[q]
    BY <1>1 DEF Agreement
  <1> QED
    BY <1>2, <1>3, <1>4 DEF Agreement, OnRecord

(* Nothing moves.                                                          *)
LEMMA Unmoved ==
  ASSUME Agreement, Sound(Now)', TheEnd(Now)' = TheEnd(Now),
         usage' = usage, transitioning' = transitioning, astray' = astray
  PROVE  Agreement'
  BY DEF Agreement, OnRecord

(* Agreement is only reached by a process that is sound.                   *)
LEMMA Fitting ==
  ASSUME Agreement
  PROVE  BatchFits
  BY NowAgrees, SoundFields DEF BatchFits

(* The move of a back buffer, with the flush at its end.                   *)
LEMMA MovingATarget ==
  ASSUME Agreement, TargetsKept, NEW t \in Targets, NEW new \in {PRESENT, RENDER_TARGET},
         MoveTarget(t, new)
  PROVE  Agreement' /\ batch' = <<>> /\ transitioning' = transitioning /\ astray' = astray
  <1>1. /\ t \in Resources /\ new \in States /\ new # NoState /\ NoState \in St
        /\ transitioning[t] = NoState /\ t \notin astray /\ usage[t] \in States
        /\ transitioning \in [Resources -> St]
    BY StatesAssumption DEF TargetsKept, Agreement, Resources, St
  <1>2. StillUnderWay(t, new) = NoState /\ ~OutOfTurn(t, new)
    BY <1>1 DEF StillUnderWay, OutOfTurn
  <1>3. ~SentTooEarly(Now, t, new)
    BY StatesAssumption DEF TargetsKept, SentTooEarly, NeedsUav
  <1> DEFINE s == Transitioned(Now, t, new)
  <1>4. /\ Sound(s) /\ TheEnd(s)[t] = [state |-> new, split |-> NoState]
        /\ \A q \in Resources \ {t} : TheEnd(s)[q] = TheEnd(Now)[q]
    BY <1>1, <1>2, <1>3, NowAgrees, Transitioning
  <1>5. /\ Becomes(Flushed(s)) /\ usage' = [usage EXCEPT ![t] = new]
        /\ transitioning' = [transitioning EXCEPT ![t] = NoState] /\ astray' = astray
    BY <1>2, <1>3 DEF MoveTarget, LedAstray
  <1> HIDE DEF s
  <1>6. Sound(Flushed(s)) /\ TheEnd(Flushed(s)) = TheEnd(s) /\ Flushed(s).batch = <<>>
    BY <1>4, Flushing
  <1>7. Sound(Now)' /\ TheEnd(Now)' = TheEnd(s) /\ batch' = <<>>
    BY <1>5, <1>6, Became
  <1>8. Agreement'
    <2>1. PICK o, a, c : o = TheEnd(s) /\ a = new /\ c = NoState
      OBVIOUS
    <2>2. /\ o = TheEnd(Now)' /\ o[t] = [state |-> a, split |-> c]
          /\ \A q \in Resources \ {t} : o[q] = TheEnd(Now)[q]
          /\ a \in States /\ c \in St /\ c # a /\ usage' = [usage EXCEPT ![t] = a]
          /\ transitioning' = [transitioning EXCEPT ![t] = c]
      BY <1>1, <1>4, <1>5, <1>7, <2>1
    <2>3. astray \ {t} \subseteq astray' /\ astray' \subseteq astray \cup {t}
      BY <1>5
    <2> QED
      BY <1>1, <1>7, <2>2, <2>3, Recorded
  <1>9. transitioning' = transitioning
    BY <1>1, <1>5
  <1> QED
    BY <1>5, <1>7, <1>8, <1>9

(* The game's calls leave the back buffers alone.                          *)
LEMMA TargetsLeft ==
  ASSUME Agreement, TargetsKept, target # NoTarget \/ batch' = batch,
         NEW r \in Others, NEW a, NEW b,
         usage' = [usage EXCEPT ![r] = a], transitioning' = [transitioning EXCEPT ![r] = b],
         astray' \subseteq astray \cup {r}, target' = target
  PROVE  TargetsKept'
  <1>1. /\ usage \in [Resources -> States] /\ transitioning \in [Resources -> St]
        /\ \A t \in Targets : t # r /\ t \in Resources
    BY StatesAssumption DEF Agreement, Resources
  <1>2. \A t \in Targets : usage'[t] = usage[t] /\ transitioning'[t] = transitioning[t]
    BY <1>1
  <1> QED
    BY <1>1, <1>2 DEF TargetsKept

LEMMA Leading ==
  ASSUME NEW s, NEW r, NEW new
  PROVE  /\ LedAstray(s, r, new) \subseteq {r}
         /\ r \notin LedAstray(s, r, new) => ~OutOfTurn(r, new) /\ ~SentTooEarly(s, r, new)
  BY DEF LedAstray

(* What BeginResourceTransition finds when it has finished the transition  *)
(* begun before.                                                           *)
LastAstray(r) ==
  IF FinishedFirst(r) THEN LedAstray(FlushedIfFull(Now), r, transitioning[r]) ELSE {}

LEMMA Ending ==
  ASSUME Agreement, NEW r \in Resources
  PROVE  /\ Sound(Ended(r)) /\ StateToLeave(r) \in States
         /\ \A q \in Resources \ {r} : TheEnd(Ended(r))[q] = TheEnd(Now)[q]
         /\ r \notin astray \cup LastAstray(r)
              => TheEnd(Ended(r))[r] = [state |-> StateToLeave(r), split |-> NoState]
  <1> DEFINE free == FlushedIfFull(Now)
             under == transitioning[r]
  <1>1. /\ Sound(free) /\ TheEnd(free) = TheEnd(Now)
        /\ usage[r] \in States /\ under \in St /\ under # usage[r]
        /\ r \notin astray => OnRecord(free, r)
    BY NowAgrees, Freeing DEF Agreement, OnRecord
  <1>2. Ended(r) = IF FinishedFirst(r) THEN Transitioned(free, r, under) ELSE free
    BY DEF Ended
  <1>3. LastAstray(r) = IF FinishedFirst(r) THEN LedAstray(free, r, under) ELSE {}
    BY DEF LastAstray
  <1> HIDE DEF free
  <1>4. CASE FinishedFirst(r)
    <2>1. under \in States /\ StateToLeave(r) = under /\ StillUnderWay(r, under) = NoState
      BY <1>1, <1>4 DEF FinishedFirst, StateToLeave, StillUnderWay, St
    <2>2. PICK u \in States : u = under
      BY <2>1
    <2>3. LET t == Transitioned(free, r, u)
          IN  /\ Sound(t)
              /\ \A q \in Resources \ {r} : TheEnd(t)[q] = TheEnd(free)[q]
              /\ OnRecord(free, r) /\ ~OutOfTurn(r, u) /\ ~SentTooEarly(free, r, u)
                  => TheEnd(t)[r] = [state |-> u, split |-> StillUnderWay(r, u)]
      BY <1>1, Transitioning
    <2>4. r \notin LedAstray(free, r, u) => ~OutOfTurn(r, u) /\ ~SentTooEarly(free, r, u)
      BY Leading
    <2> HIDE DEF under
    <2>5. Ended(r) = Transitioned(free, r, u) /\ LastAstray(r) = LedAstray(free, r, u)
      BY <1>2, <1>3, <1>4, <2>2
    <2> QED
      BY <1>1, <2>1, <2>2, <2>3, <2>4, <2>5
  <1>5. CASE ~FinishedFirst(r)
    <2>1. Ended(r) = free /\ StateToLeave(r) = usage[r] /\ under = NoState
      BY <1>2, <1>5 DEF FinishedFirst, StateToLeave
    <2> QED
      BY <1>1, <2>1 DEF OnRecord
  <1> QED
    BY <1>4, <1>5

LEMMA InitAgrees ==
  ASSUME StatesInit
  PROVE  StatesIInv
  <1>1. /\ NoState \in St /\ PRESENT \in St /\ PRESENT \in States /\ PRESENT # NoState
        /\ DEPTH_WRITE \in St /\ MAX_NUM_BARRIERS \in Nat /\ DepthStencil \in Resources
        /\ DepthStencil \notin Targets
    BY StatesAssumption DEF St, Resources
  <1>2. /\ batch \in Seq(Barrier) /\ Len(batch) = 0
        /\ flags \in [Slots -> Flags] /\ gpu \in Outcomes
    BY <1>1 DEF StatesInit, Slots, Flags, Outcomes, GpuState
  <1>3. Sound(Now) /\ Now.batch = <<>> /\ Now.flags = flags /\ Now.gpu = gpu
    BY <1>1, <1>2 DEF Sound, Tracker, Now, StatesInit
  <1>4. TheEnd(Now) = gpu
    BY <1>3, NoBarriers DEF TheEnd
  <1>5. \A r \in Resources \ astray : OnRecord(Now, r)
    BY <1>4 DEF OnRecord, StatesInit
  <1>6. Agreement
    BY <1>1, <1>3, <1>5 DEF Agreement, StatesInit
  <1>7. TargetsKept
    BY <1>1, StatesAssumption DEF TargetsKept, StatesInit, Resources
  <1> QED
    BY <1>6, <1>7, Fitting DEF StatesIInv

LEMMA PrepareTargetAgrees ==
  ASSUME Agreement, TargetsKept, NEW t \in Targets, PrepareTarget(t)
  PROVE  Agreement' /\ TargetsKept'
  <1>1. Agreement' /\ batch' = <<>> /\ transitioning' = transitioning /\ astray' = astray
    BY MovingATarget DEF PrepareTarget
  <1>2. TargetsKept'
    <2>1. usage \in [Resources -> States] /\ t \in Resources
      BY DEF Agreement, Resources
    <2>2. target' = t /\ target = NoTarget /\ usage' = [usage EXCEPT ![t] = RENDER_TARGET]
      BY DEF PrepareTarget, MoveTarget
    <2>3. \A q \in Targets : q # target /\ q \in Resources
      BY <2>2, StatesAssumption DEF Resources
    <2>4. \A q \in Targets : usage'[q] = IF q = target' THEN RENDER_TARGET ELSE PRESENT
      BY <2>1, <2>2, <2>3 DEF TargetsKept
    <2> QED
      BY <1>1, <2>2, <2>4 DEF TargetsKept
  <1> QED
    BY <1>1, <1>2

LEMMA PresentTargetAgrees ==
  ASSUME Agreement, TargetsKept, PresentTarget
  PROVE  Agreement' /\ TargetsKept'
  <1>1. target \in Targets
    BY DEF TargetsKept, PresentTarget, Recording
  <1>2. Agreement' /\ batch' = <<>> /\ transitioning' = transitioning /\ astray' = astray
    BY <1>1, MovingATarget DEF PresentTarget
  <1>3. TargetsKept'
    <2>1. usage \in [Resources -> States] /\ target \in Resources
      BY <1>1 DEF Agreement, Resources
    <2>2. target' = NoTarget /\ usage' = [usage EXCEPT ![target] = PRESENT]
      BY DEF PresentTarget, MoveTarget
    <2>3. \A q \in Targets : q # NoTarget /\ q \in Resources
      BY StatesAssumption DEF Resources
    <2>4. \A q \in Targets : usage'[q] = PRESENT
      BY <2>1, <2>2, <2>3 DEF TargetsKept
    <2> QED
      BY <1>2, <2>2, <2>3, <2>4 DEF TargetsKept
  <1> QED
    BY <1>2, <1>3

(* New back buffers are in the state that the old ones were left in.       *)
LEMMA RecreateTargetsAgrees ==
  ASSUME Agreement, TargetsKept, RecreateTargets
  PROVE  Agreement' /\ TargetsKept'
  <1>1. batch = <<>> /\ target = NoTarget
    BY DEF TargetsKept, RecreateTargets
  <1>2. /\ usage' = usage /\ transitioning' = transitioning /\ batch' = <<>>
        /\ flags' = flags /\ target' = target
    BY <1>1 DEF RecreateTargets
  <1>3. CoreMade \subseteq Resources /\ \A r \in CoreMade : MadeIn(r) \in St
    BY StatesAssumption DEF CoreMade, MadeIn, Resources, St
  <1>4. TheEnd(Now) = gpu /\ gpu \in Outcomes
    BY <1>1, NoBarriers, NowAgrees
  <1>5. gpu' = [r \in Resources |->
                  IF r \in CoreMade THEN [state |-> MadeIn(r), split |-> NoState] ELSE gpu[r]]
    BY DEF RecreateTargets
  <1>6. gpu' \in Outcomes
    BY <1>3, <1>4, <1>5 DEF Outcomes, GpuState, St
  <1>7. /\ Now'.batch = <<>> /\ Now'.flags = flags /\ Now'.gpu = gpu' /\ Fielded(Now')
        /\ Now' = [batch |-> <<>>, flags |-> flags, gpu |-> gpu']
    BY <1>2 DEF Now, Fielded
  <1>8. TheEnd(Now') = gpu'
    BY <1>7, NoBarriers DEF TheEnd
  <1>9. Sound(Now)'
    <2>1. flags \in [Slots -> Flags] /\ <<>> \in Seq(Barrier) /\ MAX_NUM_BARRIERS \in Nat
      BY NowAgrees, SoundFields, StatesAssumption
    <2>2. Now' \in Tracker /\ Len(Now'.batch) = 0
      BY <1>6, <1>7, <2>1 DEF Tracker
    <2>3. Sound(Now')
      BY <2>1, <2>2 DEF Sound
    <2> QED
      BY <2>3 DEF Sound
  <1>10. astray' = (astray \ CoreMade) \cup
                     {r \in CoreMade : usage[r] # MadeIn(r) \/ transitioning[r] # NoState}
    BY DEF RecreateTargets
  <1>11. \A r \in Resources \ astray' : gpu'[r] = [state |-> usage[r], split |-> transitioning[r]]
    <2>1. SUFFICES ASSUME NEW r \in Resources, r \notin astray'
                   PROVE  gpu'[r] = [state |-> usage[r], split |-> transitioning[r]]
      OBVIOUS
    <2>2. CASE r \in CoreMade
      BY <1>5, <1>10, <2>1, <2>2
    <2>3. CASE r \notin CoreMade
      <3>1. gpu'[r] = gpu[r] /\ r \notin astray
        BY <1>5, <1>10, <2>1, <2>3
      <3> QED
        BY <1>4, <3>1, NowAgrees DEF OnRecord
    <2> QED
      BY <2>2, <2>3
  <1>12. Agreement'
    <2>1. \A r \in Resources \ astray' : OnRecord(Now, r)'
      BY <1>2, <1>8, <1>11 DEF OnRecord, TheEnd
    <2>2. astray' \subseteq Resources
      BY <1>3, <1>10 DEF Agreement
    <2> QED
      BY <1>2, <1>9, <2>1, <2>2 DEF Agreement
  <1>13. TargetsKept'
    <2>1. \A t \in Targets : t # target /\ t \in CoreMade /\ MadeIn(t) = PRESENT
      BY <1>1, StatesAssumption DEF Resources, CoreMade, MadeIn
    <2>2. \A t \in Targets : t \notin astray'
      BY <1>10, <2>1 DEF TargetsKept
    <2> QED
      BY <1>2, <2>2 DEF TargetsKept
  <1> QED
    BY <1>12, <1>13

LEMMA ResetTrackerAgrees ==
  ASSUME Agreement, TargetsKept, ResetTracker
  PROVE  Agreement' /\ TargetsKept'
  <1>1. batch = <<>>
    BY DEF TargetsKept, ResetTracker
  <1>2. UNCHANGED statesVars
    BY <1>1 DEF ResetTracker, statesVars
  <1> QED
    BY <1>2 DEF Agreement, TargetsKept, OnRecord, TheEnd, Now, Sound, statesVars

LEMMA TransitionResourceAgrees ==
  ASSUME Agreement, TargetsKept, NEW r \in Others, NEW new \in States,
         NEW immediate \in BOOLEAN, TransitionResource(r, new, immediate)
  PROVE  Agreement' /\ TargetsKept'
  <1> DEFINE b == StillUnderWay(r, new)
             s == Transitioned(Now, r, new)
             lost == LedAstray(Now, r, new)
  <1>1. /\ r \in Resources /\ usage[r] \in States /\ transitioning[r] \in St
        /\ transitioning[r] # usage[r] /\ NoState \in St /\ new # NoState
    BY StatesAssumption DEF Agreement, Resources, St
  <1>2. b \in St /\ b # new
    BY <1>1 DEF StillUnderWay
  <1>3. lost \subseteq {r}
        /\ (r \notin lost => ~OutOfTurn(r, new) /\ ~SentTooEarly(Now, r, new))
    BY Leading
  <1>4. /\ Sound(s) /\ \A q \in Resources \ {r} : TheEnd(s)[q] = TheEnd(Now)[q]
        /\ r \notin astray \cup lost => TheEnd(s)[r] = [state |-> new, split |-> b]
    BY <1>1, <1>3, NowAgrees, Transitioning
  <1>5. /\ Becomes(FlushedIf(s, immediate)) /\ usage' = [usage EXCEPT ![r] = new]
        /\ transitioning' = [transitioning EXCEPT ![r] = b] /\ astray' = astray \cup lost
        /\ target' = target /\ target # NoTarget
    BY DEF TransitionResource, Recording
  <1> HIDE DEF s, b, lost
  <1>6. Sound(FlushedIf(s, immediate)) /\ TheEnd(FlushedIf(s, immediate)) = TheEnd(s)
    BY <1>4, FlushingIf
  <1>7. Sound(Now)' /\ TheEnd(Now)' = TheEnd(s)
    BY <1>5, <1>6, Became
  <1>8. Agreement'
    <2>1. PICK o, a, c : o = TheEnd(s) /\ a = new /\ c = b
      OBVIOUS
    <2>2. /\ o = TheEnd(Now)' /\ \A q \in Resources \ {r} : o[q] = TheEnd(Now)[q]
          /\ r \notin astray' => o[r] = [state |-> a, split |-> c]
          /\ a \in States /\ c \in St /\ c # a /\ usage' = [usage EXCEPT ![r] = a]
          /\ transitioning' = [transitioning EXCEPT ![r] = c]
      BY <1>2, <1>4, <1>5, <1>7, <2>1
    <2>3. astray \ {r} \subseteq astray' /\ astray' \subseteq astray \cup {r}
      BY <1>3, <1>5
    <2> QED
      BY <1>1, <1>7, <2>2, <2>3, Recorded
  <1>9. TargetsKept'
    <2>1. astray' \subseteq astray \cup {r}
      BY <1>3, <1>5
    <2> QED
      BY <1>5, <2>1, TargetsLeft
  <1> QED
    BY <1>8, <1>9

(* The transition begun before is finished, then the next is begun.        *)
LEMMA BeginResourceTransitionAgrees ==
  ASSUME Agreement, TargetsKept, NEW r \in Others, NEW new \in States,
         NEW immediate \in BOOLEAN, BeginResourceTransition(r, new, immediate)
  PROVE  Agreement' /\ TargetsKept'
  <1> DEFINE old == StateToLeave(r)
             ended == Ended(r)
             b == IF old = new THEN NoState ELSE new
             lost == LastAstray(r)
             t == Transition(r, old, new)
             begun == IF old = new THEN ended ELSE Added(ended, t, "BEGIN_ONLY")
  <1>1. r \in Resources /\ NoState \in St /\ new # NoState /\ new \in St
    BY StatesAssumption DEF Resources, St
  <1>2. /\ Sound(ended) /\ old \in States
        /\ \A q \in Resources \ {r} : TheEnd(ended)[q] = TheEnd(Now)[q]
        /\ r \notin astray \cup lost => TheEnd(ended)[r] = [state |-> old, split |-> NoState]
        /\ lost \subseteq {r}
    BY <1>1, Ending, Leading DEF LastAstray
  <1>3. b \in St /\ b # old
    <2>1. old # NoState
      BY <1>2, StatesAssumption
    <2> QED
      BY <1>1, <2>1
  <1>4. /\ old # new => ~IsFull(ended)
        /\ Becomes(FlushedIf(begun, immediate \/ IsFull(begun)))
        /\ usage' = [usage EXCEPT ![r] = old]
        /\ transitioning' = [transitioning EXCEPT ![r] = b] /\ astray' = astray \cup lost
        /\ target' = target /\ target # NoTarget
    BY DEF BeginResourceTransition, Recording, LastAstray, Added
  <1>5. /\ t \in Barrier /\ t.kind = "transition" /\ t.resource = r
        /\ t.before = old /\ t.after = new
    BY <1>1, <1>2 DEF Transition, Barrier, St
  <1> HIDE DEF old, ended, lost, t
  <1>6. /\ Sound(begun) /\ \A q \in Resources \ {r} : TheEnd(begun)[q] = TheEnd(Now)[q]
        /\ r \notin astray \cup lost => TheEnd(begun)[r] = [state |-> old, split |-> b]
    <2>1. CASE old = new
      BY <1>2, <2>1
    <2>2. CASE old # new
      <3>1. Len(ended.batch) < MAX_NUM_BARRIERS /\ TheEnd(ended) \in Outcomes
        <4>1. Len(ended.batch) \in Nat /\ Len(ended.batch) <= MAX_NUM_BARRIERS
              /\ MAX_NUM_BARRIERS \in Nat /\ TheEnd(ended) \in Outcomes
          BY <1>2, SoundFields, StatesAssumption
        <4> QED
          BY <1>4, <2>2, <4>1 DEF IsFull
      <3>2. /\ Sound(begun) /\ TheEnd(begun) = Met(TheEnd(ended), t, "BEGIN_ONLY")
        <4>1. begun = Added(ended, t, "BEGIN_ONLY") /\ "BEGIN_ONLY" \in Flags
          BY <2>2 DEF Flags
        <4> HIDE DEF begun
        <4> QED
          BY <1>2, <1>5, <3>1, <4>1, Adding
      <3>3. PICK o \in Outcomes : o = TheEnd(ended)
        BY <3>1
      <3>4. \A q \in Resources \ {r} : Met(o, t, "BEGIN_ONLY")[q] = o[q]
        BY <1>5, MetTyped
      <3>5. ASSUME o[r] = [state |-> old, split |-> NoState]
            PROVE  Met(o, t, "BEGIN_ONLY")[r] = [state |-> old, split |-> new]
        BY <1>1, <1>5, <3>5 DEF Met, Fits, Outcomes
      <3>6. b = new
        BY <2>2
      <3> HIDE DEF begun, b
      <3> QED
        BY <1>2, <3>2, <3>3, <3>4, <3>5, <3>6
    <2> QED
      BY <2>1, <2>2
  <1> HIDE DEF begun, b
  <1>7. PICK at \in BOOLEAN : Becomes(FlushedIf(begun, at))
    <2>1. (immediate \/ IsFull(begun)) \in BOOLEAN
      BY DEF IsFull
    <2> QED
      BY <1>4, <2>1
  <1>8. Sound(FlushedIf(begun, at)) /\ TheEnd(FlushedIf(begun, at)) = TheEnd(begun)
    BY <1>6, FlushingIf
  <1>9. Sound(Now)' /\ TheEnd(Now)' = TheEnd(begun)
    BY <1>7, <1>8, Became
  <1>10. Agreement'
    <2>1. PICK o, a, c : o = TheEnd(begun) /\ a = old /\ c = b
      OBVIOUS
    <2>2. /\ o = TheEnd(Now)' /\ \A q \in Resources \ {r} : o[q] = TheEnd(Now)[q]
          /\ r \notin astray' => o[r] = [state |-> a, split |-> c]
          /\ a \in States /\ c \in St /\ c # a /\ usage' = [usage EXCEPT ![r] = a]
          /\ transitioning' = [transitioning EXCEPT ![r] = c]
      BY <1>2, <1>3, <1>4, <1>6, <1>9, <2>1
    <2>3. astray \ {r} \subseteq astray' /\ astray' \subseteq astray \cup {r}
      BY <1>2, <1>4
    <2> QED
      BY <1>1, <1>9, <2>2, <2>3, Recorded
  <1>11. TargetsKept'
    <2>1. astray' \subseteq astray \cup {r}
      BY <1>2, <1>4
    <2> QED
      BY <1>4, <2>1, TargetsLeft
  <1> QED
    BY <1>10, <1>11

(* A barrier past the array ends what can be said.                         *)
LEMMA OverrunArraySpoils ==
  ASSUME Agreement, NEW r \in Others, NEW new \in States, OverrunArray(r, new)
  PROVE  ~BatchFits' /\ target' # NoTarget
  <1> DEFINE t == Transition(r, StateToLeave(r), new)
             ended == Ended(r)
  <1>1. Sound(ended) /\ r \in Resources /\ StateToLeave(r) \in States
    BY Ending DEF Resources
  <1>2. t \in Barrier
    BY <1>1 DEF Transition, Barrier, St
  <1>3. /\ IsFull(ended) /\ batch' = Put(ended, t).batch
        /\ target' = target /\ target # NoTarget
    BY DEF OverrunArray, Recording, Becomes
  <1> HIDE DEF t, ended
  <1>4. Len(batch') = MAX_NUM_BARRIERS + 1 /\ MAX_NUM_BARRIERS \in Nat
    <2>1. batch' = Append(ended.batch, t) /\ ended.batch \in Seq(Barrier)
      BY <1>1, <1>3, SoundFields, PutFields
    <2> QED
      BY <1>2, <1>3, <2>1, AppendProperties, StatesAssumption DEF IsFull
  <1> QED
    BY <1>3, <1>4 DEF BatchFits

(* The calls that change the array only.                                   *)
LEMMA ArrayAgrees ==
  ASSUME Agreement, TargetsKept, NEW s, Sound(s), TheEnd(s) = TheEnd(Now), Becomes(s),
         target # NoTarget, UNCHANGED <<usage, transitioning, astray, target>>
  PROVE  Agreement' /\ TargetsKept'
  <1>1. Sound(Now)' /\ TheEnd(Now)' = TheEnd(Now)
    BY Became
  <1>2. Agreement'
    BY <1>1, Unmoved
  <1> QED
    BY <1>2 DEF TargetsKept

LEMMA InsertUAVBarrierAgrees ==
  ASSUME Agreement, TargetsKept, NEW r \in Others, NEW immediate \in BOOLEAN,
         InsertUAVBarrier(r, immediate)
  PROVE  Agreement' /\ TargetsKept'
  <1> DEFINE s == WithUav(Now, r)
  <1>1. Sound(s) /\ TheEnd(s) = TheEnd(Now)
    BY NowAgrees, AddingUav DEF Resources
  <1> HIDE DEF s
  <1>2. Sound(FlushedIf(s, immediate)) /\ TheEnd(FlushedIf(s, immediate)) = TheEnd(s)
    BY <1>1, FlushingIf
  <1>3. /\ Becomes(FlushedIf(s, immediate)) /\ target # NoTarget
        /\ UNCHANGED <<usage, transitioning, astray, target>>
    BY DEF InsertUAVBarrier, Recording, s
  <1> QED
    BY <1>1, <1>2, <1>3, ArrayAgrees

LEMMA FlushResourceBarriersAgrees ==
  ASSUME Agreement, TargetsKept, FlushResourceBarriers
  PROVE  Agreement' /\ TargetsKept'
  <1>1. Sound(Flushed(Now)) /\ TheEnd(Flushed(Now)) = TheEnd(Now)
    BY NowAgrees, Flushing
  <1>2. /\ Becomes(Flushed(Now)) /\ target # NoTarget
        /\ UNCHANGED <<usage, transitioning, astray, target>>
    BY DEF FlushResourceBarriers, Recording
  <1> QED
    BY <1>1, <1>2, ArrayAgrees

(* A resource made anew while others wait in the array.                    *)
LEMMA SetResourceAgrees ==
  ASSUME Agreement, TargetsKept, NEW r \in Others, NEW state \in States, SetResource(r, state)
  PROVE  Agreement' /\ TargetsKept'
  <1> DEFINE x == [state |-> state, split |-> NoState]
  <1>1. /\ r \in Resources /\ NoState \in St /\ state # NoState /\ x \in GpuState
    BY StatesAssumption DEF Resources, St, GpuState
  <1>2. /\ \A i \in DOMAIN batch : batch[i].resource # r
        /\ usage' = [usage EXCEPT ![r] = state]
        /\ transitioning' = [transitioning EXCEPT ![r] = NoState]
        /\ gpu' = [gpu EXCEPT ![r] = x] /\ astray' = astray \ {r}
        /\ batch' = batch /\ flags' = flags /\ target' = target
    BY DEF SetResource
  <1> HIDE DEF x
  <1>3. Outcome(batch, flags, [gpu EXCEPT ![r] = x])
          = [Outcome(batch, flags, gpu) EXCEPT ![r] = x]
    <2>1. /\ batch \in Seq(Barrier) /\ gpu \in Outcomes /\ x \in GpuState /\ r \in Resources
          /\ \A i \in DOMAIN batch : batch[i].resource # r
      BY <1>1, <1>2, NowAgrees
    <2>2. PICK bs, fl, g : bs = batch /\ fl = flags /\ g = gpu
      OBVIOUS
    <2>3. Outcome(bs, fl, [g EXCEPT ![r] = x]) = [Outcome(bs, fl, g) EXCEPT ![r] = x]
      BY <2>1, <2>2, OthersAside
    <2> QED
      BY <2>2, <2>3
  <1>4. gpu' \in Outcomes
    <2>1. gpu \in [Resources -> GpuState]
      BY NowAgrees DEF Outcomes
    <2> QED
      BY <1>1, <1>2, <2>1 DEF Outcomes
  <1>5. Now' = [batch |-> batch, flags |-> flags, gpu |-> gpu']
    BY <1>2 DEF Now
  <1>6. Sound(Now')
    <2>1. /\ flags \in [Slots -> Flags] /\ batch \in Seq(Barrier)
          /\ Len(batch) <= MAX_NUM_BARRIERS
      BY NowAgrees, SoundFields
    <2> QED
      BY <1>4, <1>5, <2>1 DEF Sound, Tracker
  <1>7. TheEnd(Now') = [TheEnd(Now) EXCEPT ![r] = x]
    BY <1>2, <1>3, <1>5, NowAgrees DEF TheEnd
  <1>8. Agreement'
    <2>1. Sound(Now)'
      BY <1>6 DEF Sound
    <2>2. PICK o : o = TheEnd(Now') /\ o = TheEnd(Now)'
      BY DEF TheEnd
    <2>3. TheEnd(Now) \in [Resources -> GpuState]
      BY NowAgrees DEF Outcomes
    <2>4. o[r] = [state |-> state, split |-> NoState]
          /\ \A q \in Resources \ {r} : o[q] = TheEnd(Now)[q]
      BY <1>1, <1>7, <2>2, <2>3 DEF x
    <2>5. astray \ {r} \subseteq astray' /\ astray' \subseteq astray \cup {r}
      BY <1>2
    <2> QED
      BY <1>1, <1>2, <2>1, <2>2, <2>4, <2>5, Recorded
  <1>9. TargetsKept'
    <2>1. astray' \subseteq astray \cup {r}
      BY <1>2
    <2> QED
      BY <1>2, <2>1, TargetsLeft
  <1> QED
    BY <1>8, <1>9

LEMMA StatesStep ==
  ASSUME StatesIInv, [StatesNext]_statesVars
  PROVE  StatesIInv'
  <1>1. CASE UNCHANGED statesVars
    BY <1>1 DEF StatesIInv, BatchFits, Agreement, TargetsKept, OnRecord, TheEnd, Now, Sound,
                statesVars
  <1>2. CASE StatesNext /\ ~BatchFits
    <2>1. target # NoTarget
      BY <1>2 DEF StatesIInv
    <2> QED
      BY <1>2, <2>1 DEF StatesNext, PrepareTarget, PresentTarget, RecreateTargets, ResetTracker,
           TransitionResource, BeginResourceTransition, OverrunArray, InsertUAVBarrier,
           FlushResourceBarriers, SetResource, Recording
  <1>3. CASE StatesNext /\ BatchFits
    <2>1. Agreement /\ TargetsKept
      BY <1>3 DEF StatesIInv
    <2>2. ASSUME Agreement', TargetsKept'
          PROVE  StatesIInv'
      <3>1. BatchFits'
        <4>1. Len(Now'.batch) <= MAX_NUM_BARRIERS /\ Now'.batch = batch'
          BY <2>2 DEF Agreement, Sound, Now
        <4> QED
          BY <4>1 DEF BatchFits
      <3> QED
        BY <2>2, <3>1 DEF StatesIInv
    <2>3. CASE \E t \in Targets : PrepareTarget(t)
      BY <2>1, <2>2, <2>3, PrepareTargetAgrees
    <2>4. CASE PresentTarget
      BY <2>1, <2>2, <2>4, PresentTargetAgrees
    <2>5. CASE RecreateTargets
      BY <2>1, <2>2, <2>5, RecreateTargetsAgrees
    <2>6. CASE ResetTracker
      BY <2>1, <2>2, <2>6, ResetTrackerAgrees
    <2>7. CASE \E r \in Others, new \in States, immediate \in BOOLEAN :
                 TransitionResource(r, new, immediate)
      BY <2>1, <2>2, <2>7, TransitionResourceAgrees
    <2>8. CASE \E r \in Others, new \in States, immediate \in BOOLEAN :
                 BeginResourceTransition(r, new, immediate)
      BY <2>1, <2>2, <2>8, BeginResourceTransitionAgrees
    <2>9. CASE \E r \in Others, new \in States : OverrunArray(r, new)
      BY <2>1, <2>9, OverrunArraySpoils DEF StatesIInv
    <2>10. CASE \E r \in Others, immediate \in BOOLEAN : InsertUAVBarrier(r, immediate)
      BY <2>1, <2>2, <2>10, InsertUAVBarrierAgrees
    <2>11. CASE FlushResourceBarriers
      BY <2>1, <2>2, <2>11, FlushResourceBarriersAgrees
    <2>12. CASE \E r \in Others \ {DepthStencil}, state \in States : SetResource(r, state)
      BY <2>1, <2>2, <2>12, SetResourceAgrees
    <2> QED
      BY <1>3, <2>3, <2>4, <2>5, <2>6, <2>7, <2>8, <2>9, <2>10, <2>11, <2>12 DEF StatesNext
  <1> QED
    BY <1>1, <1>2, <1>3

-----------------------------------------------------------------------------
(* The tracker's record, the array and the GPU's resources keep together   *)
(* through every call (ResourceStateTracker.cpp:10-100), and a process     *)
(* that writes past the array does so in the middle of a frame.            *)
THEOREM StatesInvariant == StatesSpec => []StatesIInv
  <1>1. StatesInit => StatesIInv
    BY InitAgrees
  <1>2. StatesIInv /\ [StatesNext]_statesVars => StatesIInv'
    BY StatesStep
  <1> QED
    BY <1>1, <1>2, PTL DEF StatesSpec

(* A resource ends in the state recorded of it, unless it was led astray.  *)
THEOREM RecordIsRight == StatesSpec => []RecordAgrees
  <1>1. StatesIInv => RecordAgrees
    <2>1. SUFFICES ASSUME Agreement, NEW r \in Resources \ astray
                   PROVE  Outcome(batch, flags, gpu)[r]
                            = [state |-> usage[r], split |-> transitioning[r]]
      BY DEF StatesIInv, RecordAgrees
    <2> QED
      BY <2>1, NowAgrees DEF OnRecord
  <1> QED
    BY <1>1, StatesInvariant, PTL

(* A frame leaves an empty array and its back buffer in PRESENT, for the   *)
(* GPU and on record (GraphicsCore.cpp:367-420).                           *)
THEOREM FramesEndClean == StatesSpec => []FramesLeaveNothing
  <1>1. StatesIInv => FramesLeaveNothing
    <2>1. SUFFICES ASSUME Agreement, TargetsKept, target = NoTarget
                   PROVE  /\ batch = <<>>
                          /\ \A t \in Targets : usage[t] = PRESENT /\ gpu[t].state = PRESENT
      BY DEF StatesIInv, FramesLeaveNothing
    <2>2. batch = <<>> /\ TheEnd(Now) = gpu
      BY <2>1, NoBarriers, NowAgrees DEF TargetsKept
    <2>3. ASSUME NEW t \in Targets
          PROVE  usage[t] = PRESENT /\ gpu[t].state = PRESENT
      <3>1. t # target /\ t \in Resources \ astray
        BY <2>1, StatesAssumption DEF TargetsKept, Resources
      <3>2. usage[t] = PRESENT
        BY <2>1, <3>1 DEF TargetsKept
      <3>3. gpu[t] = [state |-> usage[t], split |-> transitioning[t]]
        BY <2>1, <2>2, <3>1, NowAgrees DEF OnRecord
      <3> QED
        BY <3>2, <3>3
    <2> QED
      BY <2>2, <2>3
  <1> QED
    BY <1>1, StatesInvariant, PTL
=============================================================================
