-------------------------- MODULE ClientEngineProofs --------------------------
(***************************************************************************)
(* The frame fence, for every number of back buffers, any choice of the    *)
(* next buffer by the swap chain, and any resizes and losses of the        *)
(* device; then the window and the message loop, which keep to the         *)
(* graphics core's specification, so that what is proved of the fence      *)
(* holds of the client, and the two invariants of WndProc.                 *)
(***************************************************************************)
EXTENDS ClientEngine, SequenceTheorems, TLAPS

-----------------------------------------------------------------------------
(* The graphics core.  What the theorems say of single values is inductive *)
(* only together with the order of the queue: signals ascend, each list is *)
(* followed by one that the fence value of its buffer covers, and each     *)
(* value a buffer may be waited for with is reached, announced or the next *)
(* to be signalled.  Nothing is claimed while the device is lost;          *)
(* HandleDeviceLost starts over with a queue that holds one signal.        *)

IsSignal(command) == command.op = "signal"

(* Signals ascend from the value the fence has.                            *)
Ordered(q, c) ==
  \A k \in 1 .. Len(q) : IsSignal(q[k]) =>
    /\ c < q[k].on
    /\ \A m \in 1 .. Len(q) : k < m /\ IsSignal(q[m]) => q[k].on < q[m].on

EndsInSignal(q) == q = <<>> \/ IsSignal(q[Len(q)])

Under(q, v) == \A k \in 1 .. Len(q) : IsSignal(q[k]) => q[k].on < v

(* Every list of allocator n is followed by a signal of at most v.         *)
Covered(q, n, v) ==
  \A k \in 1 .. Len(q) : q[k] = Execute(n) =>
    \E m \in 1 .. Len(q) : k < m /\ IsSignal(q[m]) /\ q[m].on <= v

Free(q, n) == \A k \in 1 .. Len(q) : q[k] # Execute(n)

Announced(q, c, v) == v <= c \/ \E k \in 1 .. Len(q) : q[k] = Signal(v)

(* The fence once the GPU has done the head of q.                          *)
After(q, c) == IF Head(q).op = "signal" THEN Head(q).on ELSE c

-----------------------------------------------------------------------------
(* Pushing on the back of a queue.                                         *)
LEMMA Push ==
  ASSUME NEW q \in Seq(Commands), NEW x \in Commands
  PROVE  /\ Append(q, x) \in Seq(Commands)
         /\ Len(q) \in Nat
         /\ Len(Append(q, x)) = Len(q) + 1
         /\ Append(q, x) # <<>>
         /\ \A k \in 1 .. Len(q) : Append(q, x)[k] = q[k]
         /\ Append(q, x)[Len(q) + 1] = x
  OBVIOUS

(* Taking off its front.                                                   *)
LEMMA Pop ==
  ASSUME NEW q \in Seq(Commands), q # <<>>
  PROVE  /\ Head(q) \in Commands /\ Head(q) = q[1]
         /\ Tail(q) \in Seq(Commands)
         /\ Len(q) \in Nat \ {0}
         /\ Len(Tail(q)) = Len(q) - 1
         /\ \A k \in 1 .. Len(q) - 1 : Tail(q)[k] = q[k + 1]
  <1>1. Len(q) \in Nat \ {0}
    BY EmptySeq
  <1>2. Head(q) \in Commands /\ Tail(q) \in Seq(Commands) /\ Len(Tail(q)) = Len(q) - 1
    BY HeadTailProperties
  <1>3. \A k \in 1 .. Len(Tail(q)) : Tail(q)[k] = q[k + 1]
    BY HeadTailProperties
  <1>4. Head(q) = q[1]
    OBVIOUS
  <1> QED
    BY <1>1, <1>2, <1>3, <1>4

(* What the queue holds is what it is said to hold.                        *)
LEMMA CommandsKnown ==
  ASSUME NEW n \in Nat
  PROVE  /\ Execute(n) \in Commands /\ ~IsSignal(Execute(n))
         /\ Signal(n) \in Commands /\ IsSignal(Signal(n)) /\ Signal(n).on = n
  BY DEF Execute, Signal, Commands, IsSignal

(* What is in the queue is a command.                                      *)
LEMMA Held ==
  ASSUME NEW q \in Seq(Commands), NEW k \in 1 .. Len(q)
  PROVE  q[k] \in Commands /\ q[k].on \in Nat
  <1>1. q[k] \in Commands
    BY ElementOfSeq
  <1> QED
    BY <1>1 DEF Commands

(* Signalling a value above all others.                                    *)
LEMMA PushSignal ==
  ASSUME NEW q \in Seq(Commands), NEW c \in Nat, NEW v \in Nat,
         Ordered(q, c), Under(q, v), c < v
  PROVE  LET r == Append(q, Signal(v)) IN
         /\ r \in Seq(Commands)
         /\ Ordered(r, c)
         /\ EndsInSignal(r)
         /\ Under(r, v + 1)
         /\ Announced(r, c, v)
         /\ \A w \in Nat : Announced(q, c, w) => Announced(r, c, w)
         /\ \A n, w \in Nat : Covered(q, n, w) => Covered(r, n, w)
         /\ \A n \in Nat : Free(q, n) => Free(r, n)
  <1> DEFINE r == Append(q, Signal(v))
             l == Len(q)
  <1>1. /\ r \in Seq(Commands) /\ l \in Nat /\ Len(r) = l + 1 /\ r # <<>>
        /\ \A k \in 1 .. l : r[k] = q[k]
        /\ r[l + 1] = Signal(v)
    BY Push, CommandsKnown
  <1>2. IsSignal(Signal(v)) /\ Signal(v).on = v
    BY CommandsKnown
  <1>3. \A k \in 1 .. l : q[k] \in Commands /\ q[k].on \in Nat
    BY Held
  <1>4. \A n \in Nat : Signal(v) # Execute(n)
    BY CommandsKnown
  <1> HIDE DEF r, l
  <1>5. Ordered(r, c)
    BY <1>1, <1>2, <1>3 DEF Ordered, Under, l
  <1>6. Under(r, v + 1)
    BY <1>1, <1>2, <1>3 DEF Under, l
  <1>7. EndsInSignal(r) /\ Announced(r, c, v)
    BY <1>1, <1>2 DEF EndsInSignal, Announced
  <1>8. \A w \in Nat : Announced(q, c, w) => Announced(r, c, w)
    BY <1>1 DEF Announced, l
  <1>9. \A n, w \in Nat : Covered(q, n, w) => Covered(r, n, w)
    BY <1>1, <1>4 DEF Covered, l
  <1>10. \A n \in Nat : Free(q, n) => Free(r, n)
    BY <1>1, <1>4 DEF Free, l
  <1> QED
    BY <1>1, <1>5, <1>6, <1>7, <1>8, <1>9, <1>10 DEF r

(* Handing over a list and signalling after it.                            *)
LEMMA PushFrame ==
  ASSUME NEW q \in Seq(Commands), NEW c \in Nat, NEW v \in Nat, NEW i \in Nat,
         Ordered(q, c), Under(q, v), c < v
  PROVE  LET r == Append(Append(q, Execute(i)), Signal(v)) IN
         /\ r \in Seq(Commands)
         /\ Ordered(r, c)
         /\ EndsInSignal(r)
         /\ Under(r, v + 1)
         /\ Announced(r, c, v)
         /\ \A w \in Nat : Announced(q, c, w) => Announced(r, c, w)
         /\ \A n, w \in Nat : (n # i \/ v <= w) /\ (Covered(q, n, w) \/ Free(q, n))
                                => Covered(r, n, w)
         /\ \A n \in Nat : n # i /\ Free(q, n) => Free(r, n)
  <1> DEFINE p == Append(q, Execute(i))
             r == Append(p, Signal(v))
             l == Len(q)
  <1>1. /\ p \in Seq(Commands) /\ l \in Nat /\ Len(p) = l + 1
        /\ \A k \in 1 .. l : p[k] = q[k]
        /\ p[l + 1] = Execute(i)
    BY Push, CommandsKnown
  <1>2. /\ r \in Seq(Commands) /\ Len(r) = l + 2
        /\ \A k \in 1 .. l + 1 : r[k] = p[k]
        /\ r[l + 2] = Signal(v)
    BY <1>1, Push, CommandsKnown
  <1>3. /\ IsSignal(Signal(v)) /\ Signal(v).on = v /\ ~IsSignal(Execute(i))
        /\ \A n \in Nat : n # i => Execute(n) # Execute(i)
        /\ \A n \in Nat : Signal(v) # Execute(n)
    BY CommandsKnown DEF Execute
  <1> HIDE DEF p, r, l
  <1>4. Ordered(p, c) /\ Under(p, v)
    BY <1>1, <1>3 DEF Ordered, Under, l
  <1>5. /\ Ordered(r, c) /\ EndsInSignal(r) /\ Under(r, v + 1) /\ Announced(r, c, v)
        /\ \A w \in Nat : Announced(p, c, w) => Announced(r, c, w)
    BY <1>1, <1>4, PushSignal DEF r
  <1>6. \A w \in Nat : Announced(q, c, w) => Announced(p, c, w)
    BY <1>1 DEF Announced, l
  <1>7. ASSUME NEW n \in Nat, NEW w \in Nat, n # i \/ v <= w,
               Covered(q, n, w) \/ Free(q, n), NEW k \in 1 .. Len(r), r[k] = Execute(n)
        PROVE  \E m \in 1 .. Len(r) : k < m /\ IsSignal(r[m]) /\ r[m].on <= w
    <2>1. CASE k \in 1 .. l
      <3>1. q[k] = Execute(n)
        BY <1>1, <1>2, <1>7, <2>1
      <3>2. PICK m \in 1 .. l : k < m /\ IsSignal(q[m]) /\ q[m].on <= w
        BY <1>7, <2>1, <3>1 DEF Covered, Free, l
      <3>3. m \in 1 .. Len(r) /\ r[m] = q[m]
        BY <1>1, <1>2
      <3> QED
        BY <3>2, <3>3
    <2>2. CASE k = l + 1
      <3>1. n = i
        BY <1>1, <1>2, <1>3, <1>7, <2>2
      <3>2. v <= w /\ l + 2 \in 1 .. Len(r) /\ k < l + 2
        BY <1>1, <1>2, <1>7, <2>2, <3>1
      <3> QED
        BY <1>2, <1>3, <3>2
    <2>3. CASE k = l + 2
      BY <1>2, <1>3, <1>7, <2>3
    <2> QED
      BY <1>1, <1>2, <2>1, <2>2, <2>3
  <1>8. ASSUME NEW n \in Nat, n # i, Free(q, n), NEW k \in 1 .. Len(r)
        PROVE  r[k] # Execute(n)
    <2>1. k \in 1 .. l \/ k = l + 1 \/ k = l + 2
      BY <1>1, <1>2
    <2> QED
      BY <2>1, <1>1, <1>2, <1>3, <1>8 DEF Free, l
  <1> QED
    BY <1>2, <1>5, <1>6, <1>7, <1>8 DEF Covered, Free, p, r

(* The GPU does the head of the queue.                                     *)
LEMMA PopCommand ==
  ASSUME NEW q \in Seq(Commands), NEW c \in Nat, q # <<>>, Ordered(q, c)
  PROVE  LET r == Tail(q)
             d == After(q, c)
         IN  /\ r \in Seq(Commands) /\ d \in Nat /\ c <= d
             /\ Ordered(r, d)
             /\ EndsInSignal(q) => EndsInSignal(r)
             /\ \A v \in Nat : Under(q, v) => Under(r, v) /\ (c < v => d < v)
             /\ \A v \in Nat : Announced(q, c, v) => Announced(r, d, v)
             /\ \A n, w \in Nat : Covered(q, n, w) => Covered(r, n, w)
             /\ \A n \in Nat : Free(q, n) => Free(r, n)
  <1> DEFINE r == Tail(q)
             d == After(q, c)
             l == Len(q)
  <1>1. /\ Head(q) \in Commands /\ Head(q) = q[1]
        /\ r \in Seq(Commands) /\ l \in Nat \ {0} /\ Len(r) = l - 1
        /\ \A k \in 1 .. l - 1 : r[k] = q[k + 1]
    BY Pop
  <1>2. /\ d \in Nat
        /\ IsSignal(q[1]) => d = q[1].on /\ c < d
        /\ ~IsSignal(q[1]) => d = c
    BY <1>1 DEF After, IsSignal, Commands, Ordered
  <1>3. \A k \in 1 .. l : q[k] \in Commands /\ q[k].on \in Nat
    BY Held
  <1> HIDE DEF r, d, l
  <1>4. Ordered(r, d)
    <2>1. ASSUME NEW k \in 1 .. l - 1, IsSignal(r[k])
          PROVE  /\ d < r[k].on
                 /\ \A m \in 1 .. l - 1 : k < m /\ IsSignal(r[m]) => r[k].on < r[m].on
      <3>1. k + 1 \in 1 .. l /\ r[k] = q[k + 1] /\ 1 \in 1 .. l /\ 1 < k + 1
        BY <1>1, <2>1
      <3>2. d < r[k].on
        BY <1>2, <2>1, <3>1 DEF Ordered, l
      <3>3. ASSUME NEW m \in 1 .. l - 1, k < m, IsSignal(r[m])
            PROVE  r[k].on < r[m].on
        <4>1. m + 1 \in 1 .. l /\ r[m] = q[m + 1] /\ k + 1 < m + 1
          BY <1>1, <3>3
        <4> QED
          BY <2>1, <3>1, <3>3, <4>1 DEF Ordered, l
      <3> QED
        BY <3>2, <3>3
    <2> QED
      BY <1>1, <2>1 DEF Ordered
  <1>5. EndsInSignal(q) => EndsInSignal(r)
    <2>1. CASE l = 1
      <3>1. r = <<>>
        BY <1>1, <2>1, EmptySeq
      <3> QED
        BY <3>1 DEF EndsInSignal
    <2>2. CASE l # 1
      <3>1. r[l - 1] = q[l]
        BY <1>1, <2>2
      <3> QED
        BY <1>1, <2>2, <3>1 DEF EndsInSignal, l
    <2> QED
      BY <2>1, <2>2
  <1>6. ASSUME NEW v \in Nat, Under(q, v)
        PROVE  Under(r, v) /\ (c < v => d < v)
    <2>1. c < v => d < v
      BY <1>1, <1>2, <1>6 DEF Under, l
    <2>2. ASSUME NEW k \in 1 .. Len(r), IsSignal(r[k])
          PROVE  r[k].on < v
      <3>1. k + 1 \in 1 .. l /\ r[k] = q[k + 1]
        BY <1>1
      <3> QED
        BY <1>6, <2>2, <3>1 DEF Under, l
    <2> QED
      BY <2>1, <2>2 DEF Under
  <1>7. ASSUME NEW v \in Nat, Announced(q, c, v)
        PROVE  Announced(r, d, v)
    <2>1. CASE v <= c
      BY <1>2, <2>1 DEF Announced
    <2>2. CASE \E k \in 1 .. l : q[k] = Signal(v)
      <3>1. PICK k \in 1 .. l : q[k] = Signal(v)
        BY <2>2
      <3>2. CASE k = 1
        BY <1>2, <3>1, <3>2, CommandsKnown DEF Announced
      <3>3. CASE k # 1
        <4>1. k - 1 \in 1 .. l - 1 /\ (k - 1) + 1 = k
          BY <1>1, <3>3
        <4>2. r[k - 1] = q[k]
          BY <1>1, <4>1
        <4> QED
          BY <1>1, <3>1, <4>1, <4>2 DEF Announced
      <3> QED
        BY <3>2, <3>3
    <2> QED
      BY <1>7, <2>1, <2>2 DEF Announced, l
  <1>8. ASSUME NEW n \in Nat, NEW w \in Nat, Covered(q, n, w), NEW k \in 1 .. Len(r),
               r[k] = Execute(n)
        PROVE  \E m \in 1 .. Len(r) : k < m /\ IsSignal(r[m]) /\ r[m].on <= w
    <2>1. k + 1 \in 1 .. l /\ q[k + 1] = Execute(n)
      BY <1>1, <1>8
    <2>2. PICK m \in 1 .. l : k + 1 < m /\ IsSignal(q[m]) /\ q[m].on <= w
      BY <1>8, <2>1 DEF Covered, l
    <2>3. m - 1 \in 1 .. l - 1 /\ (m - 1) + 1 = m /\ k < m - 1
      BY <1>1, <2>2
    <2>4. r[m - 1] = q[m]
      BY <1>1, <2>3
    <2> QED
      BY <1>1, <2>2, <2>3, <2>4
  <1>9. ASSUME NEW n \in Nat, Free(q, n), NEW k \in 1 .. Len(r)
        PROVE  r[k] # Execute(n)
    <2>1. k + 1 \in 1 .. l /\ r[k] = q[k + 1]
      BY <1>1
    <2> QED
      BY <1>9, <2>1 DEF Free, l
  <1>10. c <= d
    BY <1>2
  <1>11. \A n, w \in Nat : Covered(q, n, w) => Covered(r, n, w)
    BY <1>8 DEF Covered
  <1>12. \A n \in Nat : Free(q, n) => Free(r, n)
    BY <1>9 DEF Free
  <1> QED
    BY <1>1, <1>2, <1>4, <1>5, <1>6, <1>7, <1>10, <1>11, <1>12 DEF r, d

(* Once the value that covers an allocator is reached, it is free.         *)
LEMMA ReachedFrees ==
  ASSUME NEW q \in Seq(Commands), NEW c \in Nat, NEW n \in Nat, NEW v \in Nat,
         Ordered(q, c), Covered(q, n, v), v <= c
  PROVE  Free(q, n)
  <1> SUFFICES ASSUME NEW k \in 1 .. Len(q), q[k] = Execute(n)
               PROVE  FALSE
    BY DEF Free
  <1>1. PICK m \in 1 .. Len(q) : IsSignal(q[m]) /\ q[m].on <= v
    BY DEF Covered
  <1>2. c < q[m].on /\ q[m].on \in Nat
    BY <1>1, Held DEF Ordered
  <1> QED
    BY <1>1, <1>2

(* Once the last value signalled is reached, the queue is empty.           *)
LEMMA ReachedEmpties ==
  ASSUME NEW q \in Seq(Commands), NEW c \in Nat, NEW v \in Nat,
         Ordered(q, c), EndsInSignal(q), Under(q, v + 1), v <= c
  PROVE  q = <<>>
  <1> SUFFICES ASSUME q # <<>>
               PROVE  FALSE
    OBVIOUS
  <1>1. Len(q) \in 1 .. Len(q)
    BY EmptySeq
  <1>2. IsSignal(q[Len(q)]) /\ q[Len(q)].on \in Nat
    BY <1>1, Held DEF EndsInSignal
  <1> QED
    BY <1>1, <1>2 DEF Ordered, Under
-----------------------------------------------------------------------------
Value == fenceValues[backBufferIndex]

Fifo == ~removed => Ordered(queue, completed) /\ EndsInSignal(queue)

(* Between frames and while one is recorded: the next value to be          *)
(* signalled is above all, and the current allocator is free.              *)
AtLoop ==
  ~removed /\ cpu \in {"Start", "Loop", "Record"} =>
    /\ completed < Value /\ Under(queue, Value)
    /\ Free(queue, backBufferIndex)
    /\ \A n \in Frames : n # backBufferIndex =>
         /\ Covered(queue, n, fenceValues[n])
         /\ fenceValues[n] = Value \/ Announced(queue, completed, fenceValues[n])

(* While MoveToNextFrame waits: every buffer's value is on its way.        *)
AtFrameWait ==
  ~removed /\ cpu = "AwaitFrame" =>
    /\ awaited = Value
    /\ completed < currentFence + 1 /\ Under(queue, currentFence + 1)
    /\ \A n \in Frames :
         /\ Covered(queue, n, fenceValues[n])
         /\ Announced(queue, completed, fenceValues[n])

(* While WaitForGpu waits: nothing follows the value waited for.           *)
AtGpuWait ==
  ~removed /\ cpu \in {"AwaitResize", "AwaitShutdown"} =>
    /\ awaited = Value /\ awaited > 0
    /\ completed < awaited + 1 /\ Under(queue, awaited + 1)
    /\ Announced(queue, completed, awaited)

-----------------------------------------------------------------------------
(* The fence values WaitForGpu leaves, and those HandleDeviceLost starts   *)
(* from, are numbers.                                                      *)
LEMMA FencesTyped ==
  ASSUME GraphicsTypeOK
  PROVE  /\ AfterWait \in [Frames -> Nat]
         /\ AlignFences \in [Frames -> Nat]
         /\ fenceValues[backBufferIndex] \in Nat
  BY DEF GraphicsTypeOK, AfterWait, AlignFences

(* HandleDeviceLost keeps the types.                                       *)
LEMMA LostTyped ==
  ASSUME GraphicsTypeOK, NEW values \in [Frames -> Nat], HandleDeviceLost(values)
  PROVE  GraphicsTypeOK'
  <1>1. fenceValues' \in [Frames -> Nat] /\ completed' \in Nat /\ awaited' \in Nat
    BY DEF GraphicsTypeOK, HandleDeviceLost, SignalGpu
  <1>2. queue' \in Seq(Commands)
    <2>1. fenceValues'[backBufferIndex] \in Nat
      BY <1>1 DEF GraphicsTypeOK
    <2>2. queue' = Append(<<>>, Signal(fenceValues'[backBufferIndex]))
      BY DEF HandleDeviceLost, SignalGpu
    <2>3. <<>> \in Seq(Commands)
      OBVIOUS
    <2> QED
      BY <2>1, <2>2, <2>3, Push, CommandsKnown
  <1>3. cpu' = "AwaitResize" /\ rtvTaken' = 0 /\ dsvTaken' = 0 /\ swapChain' = FALSE
        /\ removed' = FALSE
    BY DEF HandleDeviceLost, SignalGpu
  <1>4. UNCHANGED <<backBufferIndex, currentFence, outputSize, losses>>
    BY DEF HandleDeviceLost
  <1> QED
    BY <1>1, <1>2, <1>3, <1>4 DEF GraphicsTypeOK, Places, Waits

(* WaitForGpu's Signal keeps the types.                                    *)
LEMMA SignalTyped ==
  ASSUME GraphicsTypeOK, NEW there, SignalGpu(queue, fenceValues, removed, there)
  PROVE  awaited' \in Nat /\ queue' \in Seq(Commands) /\ cpu' = there
  <1>1. fenceValues[backBufferIndex] \in Nat
    BY FencesTyped
  <1>2. Append(queue, Signal(fenceValues[backBufferIndex])) \in Seq(Commands)
    BY <1>1, Push, CommandsKnown DEF GraphicsTypeOK
  <1> QED
    BY <1>1, <1>2 DEF SignalGpu, GraphicsTypeOK

(* Every step keeps the types.                                             *)
LEMMA TypeStep ==
  ASSUME GraphicsTypeOK, [GraphicsNext]_graphicsVars
  PROVE  GraphicsTypeOK'
  <1> USE DEF GraphicsTypeOK, Places, Waits
  <1>1. ASSUME NEW size \in Sizes, WindowSizeChanged(size)
        PROVE  GraphicsTypeOK'
    <2>1. CASE UNCHANGED graphicsVars
      BY <2>1 DEF graphicsVars, cpuVars, gpuVars
    <2>2. CASE outputSize' = size /\ BeginResize
      <3>1. awaited' \in Nat /\ queue' \in Seq(Commands) /\ cpu' = "AwaitResize"
        BY <2>2, SignalTyped DEF BeginResize
      <3> QED
        BY <2>2, <3>1 DEF BeginResize
    <2> QED
      BY <1>1, <2>1, <2>2 DEF WindowSizeChanged
  <1>2. CASE Prepare
    BY <1>2 DEF Prepare, gpuVars
  <1>3. CASE Present
    <2> DEFINE value == fenceValues[backBufferIndex]
    <2>1. CASE MoveToNextFrame
      <3>1. /\ backBufferIndex' \in Frames /\ cpu' \in {"AwaitFrame", "Loop"}
            /\ currentFence' = value
            /\ queue' = Append(Append(queue, Execute(backBufferIndex)), Signal(value))
            /\ awaited' = awaited \/ \E n \in Frames : awaited' = fenceValues[n]
            /\ fenceValues' = fenceValues
                 \/ \E n \in Frames : fenceValues' = [fenceValues EXCEPT ![n] = value + 1]
            /\ UNCHANGED <<outputSize, swapChain, rtvTaken, dsvTaken, completed, removed,
                           losses>>
        BY <2>1 DEF MoveToNextFrame
      <3>2. value \in Nat /\ backBufferIndex \in Nat
        BY DEF Frames
      <3>3. queue' \in Seq(Commands)
        <4>1. Append(queue, Execute(backBufferIndex)) \in Seq(Commands)
          BY <3>2, Push, CommandsKnown
        <4> QED
          BY <3>1, <3>2, <4>1, Push, CommandsKnown
      <3> QED
        BY <3>1, <3>2, <3>3
    <2>2. CASE HandleDeviceLost(fenceValues)
      BY <2>2, LostTyped
    <2>3. CASE /\ cpu' = "Threw"
               /\ queue' = Append(queue, Execute(backBufferIndex))
               /\ UNCHANGED <<backBufferIndex, fenceValues, awaited, currentFence, outputSize,
                              swapChain, rtvTaken, dsvTaken, completed, removed, losses>>
      <3>1. queue' \in Seq(Commands)
        BY <2>3, Push, CommandsKnown DEF Frames
      <3> QED
        BY <2>3, <3>1
    <2> QED
      BY <1>3, <2>1, <2>2, <2>3 DEF Present
  <1>4. CASE BeginShutdown
    <2>1. awaited' \in Nat /\ queue' \in Seq(Commands) /\ cpu' = "AwaitShutdown"
      BY <1>4, SignalTyped DEF BeginShutdown
    <2> QED
      BY <1>4, <2>1 DEF BeginShutdown
  <1>5. CASE FinishResize
    <2>1. AlignFences \in [Frames -> Nat]
      BY FencesTyped
    <2>2. CASE HandleDeviceLost(AlignFences)
      BY <2>1, <2>2, LostTyped
    <2>3. ASSUME ~HandleDeviceLost(AlignFences)
          PROVE  /\ cpu' \in {"Loop", "Threw"} /\ fenceValues' = AlignFences
                 /\ backBufferIndex' \in Frames /\ swapChain' \in BOOLEAN
                 /\ rtvTaken' \in {rtvTaken, rtvTaken + BackBufferCount}
                 /\ dsvTaken' \in {dsvTaken, dsvTaken + 1}
                 /\ UNCHANGED <<awaited, currentFence, outputSize, queue, completed, removed,
                                losses>>
      BY <1>5, <2>3 DEF FinishResize, gpuVars
    <2>4. ASSUME ~HandleDeviceLost(AlignFences)
          PROVE  rtvTaken' \in Nat /\ dsvTaken' \in Nat
      BY <2>3, <2>4, GraphicsAssumption
    <2>5. CASE ~HandleDeviceLost(AlignFences)
      BY <2>1, <2>3, <2>4, <2>5
    <2> QED
      BY <2>2, <2>5
  <1>6. CASE EndFrameWait
    BY <1>6 DEF EndFrameWait, gpuVars
  <1>7. CASE FinishShutdown
    BY <1>7, FencesTyped DEF FinishShutdown, gpuVars
  <1>8. CASE GpuStep
    <2>1. queue' \in Seq(Commands) /\ Head(queue) \in Commands
      BY <1>8, Pop DEF GpuStep
    <2>2. completed' \in Nat
      BY <1>8, <2>1 DEF GpuStep, Commands
    <2> QED
      BY <1>8, <2>1, <2>2 DEF GpuStep, cpuVars
  <1>9. CASE LoseDevice
    BY <1>9 DEF LoseDevice, cpuVars
  <1>10. CASE UNCHANGED graphicsVars
    BY <1>10 DEF graphicsVars, cpuVars, gpuVars
  <1> QED
    BY <1>1, <1>2, <1>3, <1>4, <1>5, <1>6, <1>7, <1>8, <1>9, <1>10
       DEF GraphicsNext, Resume, Gpu

-----------------------------------------------------------------------------
Order == Fifo /\ AtLoop /\ AtFrameWait /\ AtGpuWait

(* HandleDeviceLost starts over: the queue holds one signal, of the value  *)
(* after the one the new fence has.                                        *)
LEMMA LostOrder ==
  ASSUME GraphicsTypeOK, NEW values \in [Frames -> Nat], HandleDeviceLost(values)
  PROVE  Order'
  <1> DEFINE c == values[backBufferIndex]
             v == c + 1
             r == Append(<<>>, Signal(v))
  <1>1. c \in Nat /\ v \in Nat /\ c < v
    BY DEF GraphicsTypeOK
  <1>2. /\ cpu' = "AwaitResize" /\ awaited' = v /\ completed' = c /\ queue' = r
        /\ fenceValues'[backBufferIndex'] = v
    BY <1>1 DEF HandleDeviceLost, SignalGpu, GraphicsTypeOK
  <1>3. Ordered(<<>>, c) /\ Under(<<>>, v) /\ <<>> \in Seq(Commands)
    BY DEF Ordered, Under
  <1>4. Ordered(r, c) /\ EndsInSignal(r) /\ Under(r, v + 1) /\ Announced(r, c, v)
    BY <1>1, <1>3, PushSignal
  <1> HIDE DEF c, v, r
  <1>5. awaited' > 0 /\ completed' < awaited' + 1
    BY <1>1, <1>2 DEF v
  <1> QED
    BY <1>2, <1>4, <1>5 DEF Order, Fifo, AtLoop, AtFrameWait, AtGpuWait, Value

(* WaitForGpu's Signal, given between two frames.                          *)
LEMMA SignalOrder ==
  ASSUME GraphicsTypeOK, Order, ~removed, cpu \in {"Start", "Loop"},
         NEW there \in {"AwaitResize", "AwaitShutdown"},
         SignalGpu(queue, fenceValues, removed, there),
         UNCHANGED <<backBufferIndex, fenceValues, completed, removed>>
  PROVE  Order'
  <1> DEFINE r == Append(queue, Signal(Value))
  <1>1. /\ Value \in Nat /\ completed \in Nat /\ queue \in Seq(Commands)
        /\ Ordered(queue, completed) /\ Under(queue, Value) /\ completed < Value
    BY FencesTyped DEF GraphicsTypeOK, Order, Fifo, AtLoop, Value
  <1>2. /\ Ordered(r, completed) /\ EndsInSignal(r) /\ Under(r, Value + 1)
        /\ Announced(r, completed, Value)
    BY <1>1, PushSignal
  <1>3. queue' = r /\ awaited' = Value /\ cpu' = there /\ Value' = Value
    BY DEF SignalGpu, Value
  <1>4. Value > 0 /\ completed < Value + 1
    BY <1>1
  <1> HIDE DEF r
  <1> QED
    BY <1>2, <1>3, <1>4 DEF Order, Fifo, AtLoop, AtFrameWait, AtGpuWait, Value

(* MoveToNextFrame: the list just handed over is covered by the value just *)
(* signalled, and the next allocator is free or will be when the wait      *)
(* ends.                                                                   *)
LEMMA MoveOrder ==
  ASSUME GraphicsTypeOK, Order, ~removed, cpu = "Record", MoveToNextFrame
  PROVE  Order'
  <1> DEFINE i == backBufferIndex
             r == Append(Append(queue, Execute(i)), Signal(Value))
  <1>1. PICK next \in Frames :
          /\ queue' = r /\ currentFence' = Value /\ backBufferIndex' = next
          /\ \/ /\ MustWait(next) /\ cpu' = "AwaitFrame"
                /\ awaited' = fenceValues[next] /\ UNCHANGED fenceValues
             \/ /\ ~MustWait(next) /\ cpu' = "Loop"
                /\ fenceValues' = [fenceValues EXCEPT ![next] = Value + 1]
          /\ UNCHANGED <<completed, removed>>
    BY DEF MoveToNextFrame, Value
  <1>2. /\ Value \in Nat /\ completed \in Nat /\ queue \in Seq(Commands)
        /\ i \in Nat /\ i \in Frames /\ fenceValues[i] = Value
        /\ \A n \in Frames : n \in Nat /\ fenceValues[n] \in Nat
        /\ Ordered(queue, completed) /\ Under(queue, Value) /\ completed < Value
        /\ Free(queue, i)
    BY FencesTyped DEF GraphicsTypeOK, Order, Fifo, AtLoop, Value, Frames
  <1>3. \A n \in Frames : n # i =>
          /\ Covered(queue, n, fenceValues[n])
          /\ fenceValues[n] = Value \/ Announced(queue, completed, fenceValues[n])
    BY DEF Order, AtLoop
  <1>4. /\ Ordered(r, completed) /\ EndsInSignal(r) /\ Under(r, Value + 1)
        /\ Announced(r, completed, Value)
        /\ \A w \in Nat : Announced(queue, completed, w) => Announced(r, completed, w)
        /\ \A n, w \in Nat : (n # i \/ Value <= w) /\ (Covered(queue, n, w) \/ Free(queue, n))
                               => Covered(r, n, w)
        /\ \A n \in Nat : n # i /\ Free(queue, n) => Free(r, n)
    BY <1>2, PushFrame
  <1> HIDE DEF r
  <1>5. \A n \in Frames : Covered(r, n, fenceValues[n])
                         /\ Announced(r, completed, fenceValues[n])
    <2> SUFFICES ASSUME NEW n \in Frames
                 PROVE  Covered(r, n, fenceValues[n]) /\ Announced(r, completed, fenceValues[n])
      OBVIOUS
    <2>1. CASE n = i
      <3>1. fenceValues[n] = Value /\ Value <= Value
        BY <1>2, <2>1
      <3> QED
        BY <1>2, <1>4, <2>1, <3>1
    <2>2. CASE n # i
      BY <1>2, <1>3, <1>4, <2>2
    <2> QED
      BY <2>1, <2>2
  <1>6. completed < Value + 1
    BY <1>2
  <1>7. CASE MustWait(next)
    <2>1. /\ cpu' = "AwaitFrame" /\ awaited' = fenceValues[next]
          /\ fenceValues' = fenceValues
      BY <1>1, <1>7
    <2> QED
      BY <1>1, <1>4, <1>5, <1>6, <2>1
         DEF Order, Fifo, AtLoop, AtFrameWait, AtGpuWait, Value
  <1>8. CASE ~MustWait(next)
    <2>1. /\ cpu' = "Loop"
          /\ fenceValues' = [fenceValues EXCEPT ![next] = Value + 1]
      BY <1>1, <1>8
    <2>2. fenceValues[next] <= completed
      BY <1>2, <1>8 DEF MustWait
    <2>3. next # i /\ next \in Nat /\ fenceValues[next] \in Nat
      BY <1>2, <2>2
    <2>4. Free(queue, next)
      BY <1>2, <1>3, <2>2, <2>3, ReachedFrees
    <2>5. Free(r, next)
      BY <1>4, <2>3, <2>4
    <2>6. Value' = Value + 1
      BY <1>1, <2>1 DEF Value, GraphicsTypeOK
    <2>7. \A n \in Frames : n # next => fenceValues'[n] = fenceValues[n]
      BY <2>1 DEF GraphicsTypeOK
    <2>8. Fifo' /\ AtFrameWait' /\ AtGpuWait'
      BY <1>1, <1>4, <2>1 DEF Fifo, AtFrameWait, AtGpuWait
    <2>9. AtLoop'
      BY <1>1, <1>4, <1>5, <1>6, <2>1, <2>5, <2>6, <2>7 DEF AtLoop
    <2> QED
      BY <2>8, <2>9 DEF Order
  <1> QED
    BY <1>7, <1>8

(* The end of MoveToNextFrame's wait: the allocator waited for is free.    *)
LEMMA EndWaitOrder ==
  ASSUME GraphicsTypeOK, Order, ~removed, EndFrameWait
  PROVE  Order'
  <1> DEFINE i == backBufferIndex
  <1>1. /\ cpu' = "Loop"
        /\ fenceValues' = [fenceValues EXCEPT ![i] = currentFence + 1]
        /\ UNCHANGED <<backBufferIndex, queue, completed, removed>>
        /\ awaited <= completed
    BY DEF EndFrameWait, gpuVars, Reached, GraphicsTypeOK
  <1>2. /\ queue \in Seq(Commands) /\ completed \in Nat /\ currentFence \in Nat
        /\ i \in Nat /\ i \in Frames /\ fenceValues \in [Frames -> Nat]
    BY DEF GraphicsTypeOK, Frames
  <1>3. /\ Ordered(queue, completed) /\ EndsInSignal(queue)
        /\ awaited = fenceValues[i]
        /\ completed < currentFence + 1 /\ Under(queue, currentFence + 1)
        /\ \A n \in Frames :
             /\ Covered(queue, n, fenceValues[n])
             /\ Announced(queue, completed, fenceValues[n])
    BY DEF Order, Fifo, AtFrameWait, EndFrameWait, Value
  <1>4. Free(queue, i)
    BY <1>1, <1>2, <1>3, ReachedFrees
  <1>5. Value' = currentFence + 1
    BY <1>1, <1>2 DEF Value
  <1>6. \A n \in Frames : n # i => fenceValues'[n] = fenceValues[n]
    BY <1>1, <1>2
  <1>7. AtLoop'
    BY <1>1, <1>3, <1>4, <1>5, <1>6 DEF AtLoop
  <1>8. Fifo' /\ AtFrameWait' /\ AtGpuWait'
    BY <1>1, <1>3 DEF Fifo, AtFrameWait, AtGpuWait
  <1> QED
    BY <1>7, <1>8 DEF Order

(* When WaitForGpu's value is reached, the GPU has nothing left.           *)
LEMMA GpuIdle ==
  ASSUME GraphicsTypeOK, Order, ~removed, cpu \in {"AwaitResize", "AwaitShutdown"},
         Reached(awaited)
  PROVE  queue = <<>>
  <1>1. /\ queue \in Seq(Commands) /\ completed \in Nat /\ awaited \in Nat
        /\ awaited <= completed
    BY DEF GraphicsTypeOK, Reached
  <1>2. Ordered(queue, completed) /\ EndsInSignal(queue) /\ Under(queue, awaited + 1)
    BY DEF Order, Fifo, AtGpuWait
  <1> QED
    BY <1>1, <1>2, ReachedEmpties

(* After a resize all buffers have one fence value, above all signalled.   *)
LEMMA ResizeOrder ==
  ASSUME GraphicsTypeOK, Order, ~removed, FinishResize
  PROVE  Order'
  <1>1. /\ cpu' = "Loop" /\ fenceValues' = AlignFences /\ backBufferIndex' \in Frames
        /\ UNCHANGED <<queue, completed, removed>> /\ cpu = "AwaitResize"
        /\ Reached(awaited)
    BY DEF FinishResize, gpuVars
  <1>2. queue = <<>>
    BY <1>1, GpuIdle
  <1>3. /\ awaited = Value /\ awaited > 0 /\ completed < awaited + 1
        /\ awaited \in Nat /\ completed \in Nat
    BY <1>1 DEF Order, AtGpuWait, GraphicsTypeOK
  <1>4. AfterWait[backBufferIndex] = awaited + 1
    BY <1>3 DEF AfterWait, Value, GraphicsTypeOK
  <1>5. \A n \in Frames : fenceValues'[n] = awaited + 1
    BY <1>1, <1>4 DEF AlignFences
  <1>6. Value' = awaited + 1
    BY <1>1, <1>5 DEF Value
  <1>7. \A n : Covered(<<>>, n, fenceValues'[n]) /\ Free(<<>>, n)
    BY DEF Covered, Free
  <1>8. Under(<<>>, Value') /\ Ordered(<<>>, completed) /\ EndsInSignal(<<>>)
    BY DEF Under, Ordered, EndsInSignal
  <1>9. AtLoop'
    BY <1>1, <1>2, <1>3, <1>5, <1>6, <1>7, <1>8 DEF AtLoop
  <1>10. Fifo' /\ AtFrameWait' /\ AtGpuWait'
    BY <1>1, <1>2, <1>8 DEF Fifo, AtFrameWait, AtGpuWait
  <1> QED
    BY <1>9, <1>10 DEF Order

(* The GPU's step leaves all that is said of the queue true.               *)
LEMMA GpuOrder ==
  ASSUME GraphicsTypeOK, Order, ~removed, GpuStep
  PROVE  Order'
  <1>1. /\ queue' = Tail(queue) /\ completed' = After(queue, completed)
        /\ queue # <<>> /\ removed' = removed /\ UNCHANGED cpuVars
    BY DEF GpuStep, After
  <1>2. /\ queue \in Seq(Commands) /\ completed \in Nat
        /\ Ordered(queue, completed) /\ EndsInSignal(queue)
        /\ Value \in Nat /\ awaited \in Nat /\ currentFence \in Nat
        /\ backBufferIndex \in Nat
        /\ \A n \in Frames : n \in Nat /\ fenceValues[n] \in Nat
    BY FencesTyped DEF GraphicsTypeOK, Order, Fifo, Frames, Value
  <1>3. /\ Ordered(queue', completed') /\ EndsInSignal(queue')
        /\ \A v \in Nat : Under(queue, v)
             => Under(queue', v) /\ (completed < v => completed' < v)
        /\ \A v \in Nat : Announced(queue, completed, v) => Announced(queue', completed', v)
        /\ \A n, w \in Nat : Covered(queue, n, w) => Covered(queue', n, w)
        /\ \A n \in Nat : Free(queue, n) => Free(queue', n)
    BY <1>1, <1>2, PopCommand
  <1>4. /\ cpu' = cpu /\ Value' = Value /\ fenceValues' = fenceValues /\ awaited' = awaited
        /\ currentFence' = currentFence /\ backBufferIndex' = backBufferIndex
    BY <1>1 DEF cpuVars, Value
  <1>5. Fifo'
    BY <1>3 DEF Fifo
  <1>6. AtLoop'
    BY <1>1, <1>2, <1>3, <1>4 DEF Order, AtLoop
  <1>7. AtFrameWait'
    <2>1. currentFence + 1 \in Nat
      BY <1>2
    <2> QED
      BY <1>1, <1>2, <1>3, <1>4, <2>1 DEF Order, AtFrameWait
  <1>8. AtGpuWait'
    <2>1. awaited + 1 \in Nat
      BY <1>2
    <2> QED
      BY <1>1, <1>2, <1>3, <1>4, <2>1 DEF Order, AtGpuWait
  <1> QED
    BY <1>5, <1>6, <1>7, <1>8 DEF Order

(* Every step keeps the order of the queue.                                *)
LEMMA OrderStep ==
  ASSUME GraphicsTypeOK, Order, [GraphicsNext]_graphicsVars
  PROVE  Order'
  <1>1. CASE removed'
    BY <1>1 DEF Order, Fifo, AtLoop, AtFrameWait, AtGpuWait
  <1>2. ASSUME NEW values \in [Frames -> Nat], HandleDeviceLost(values)
        PROVE  Order'
    BY <1>2, LostOrder
  <1>3. fenceValues \in [Frames -> Nat] /\ AlignFences \in [Frames -> Nat]
    BY FencesTyped DEF GraphicsTypeOK
  <1>4. CASE removed /\ ~removed'
    <2>1. HandleDeviceLost(fenceValues) \/ HandleDeviceLost(AlignFences)
      BY <1>4 DEF GraphicsNext, WindowSizeChanged, BeginResize, Prepare, Present, BeginShutdown,
         Resume, FinishResize, EndFrameWait, FinishShutdown, Gpu, GpuStep, LoseDevice,
         MoveToNextFrame, graphicsVars, cpuVars, gpuVars
    <2> QED
      BY <1>2, <1>3, <2>1
  <1>5. CASE ~removed /\ ~removed'
    <2>1. ASSUME NEW size \in Sizes, cpu \in {"Start", "Loop"}, WindowSizeChanged(size)
          PROVE  Order'
      <3>1. CASE UNCHANGED graphicsVars
        BY <3>1 DEF graphicsVars, cpuVars, gpuVars, Order, Fifo, AtLoop, AtFrameWait, AtGpuWait,
           Value
      <3>2. CASE BeginResize
        BY <1>5, <2>1, <3>2, SignalOrder DEF BeginResize
      <3> QED
        BY <2>1, <3>1, <3>2 DEF WindowSizeChanged
    <2>2. CASE Prepare
      BY <2>2 DEF Prepare, gpuVars, Order, Fifo, AtLoop, AtFrameWait, AtGpuWait, Value
    <2>3. CASE Present
      BY <1>5, <2>3, MoveOrder DEF Present
    <2>4. CASE BeginShutdown
      BY <1>5, <2>4, SignalOrder DEF BeginShutdown
    <2>5. CASE FinishResize
      BY <1>5, <2>5, ResizeOrder
    <2>6. CASE EndFrameWait
      BY <1>5, <2>6, EndWaitOrder
    <2>7. CASE FinishShutdown
      <3>1. queue = <<>>
        BY <1>5, <2>7, GpuIdle DEF FinishShutdown
      <3>2. UNCHANGED <<queue, completed, removed>> /\ cpu' = "Ended"
        BY <2>7 DEF FinishShutdown, gpuVars
      <3> QED
        BY <3>2 DEF Order, Fifo, AtLoop, AtFrameWait, AtGpuWait
    <2>8. CASE GpuStep
      BY <1>5, <2>8, GpuOrder
    <2>9. CASE LoseDevice
      BY <1>5, <2>9 DEF LoseDevice
    <2>10. CASE UNCHANGED graphicsVars
      BY <2>10 DEF graphicsVars, cpuVars, gpuVars, Order, Fifo, AtLoop, AtFrameWait, AtGpuWait,
         Value
    <2> QED
      BY <2>1, <2>2, <2>3, <2>4, <2>5, <2>6, <2>7, <2>8, <2>9, <2>10
         DEF GraphicsNext, Resume, Gpu
  <1> QED
    BY <1>1, <1>4, <1>5 DEF GraphicsTypeOK

(* Startup leaves an idle GPU and the current buffer one value ahead.      *)
LEMMA StartsInOrder ==
  ASSUME GraphicsInit
  PROVE  GraphicsTypeOK /\ Order
  <1>1. 0 \in Frames
    BY GraphicsAssumption DEF Frames
  <1>2. GraphicsTypeOK
    BY <1>1 DEF GraphicsInit, GraphicsTypeOK, Places
  <1>3. Value = 1
    BY <1>1 DEF GraphicsInit, Value
  <1>4. /\ Ordered(<<>>, 0) /\ EndsInSignal(<<>>) /\ Under(<<>>, 1)
        /\ \A n, v : Free(<<>>, n) /\ Covered(<<>>, n, v)
    BY DEF Ordered, EndsInSignal, Under, Free, Covered
  <1>5. \A n \in Frames : n # backBufferIndex => Announced(queue, completed, fenceValues[n])
    BY DEF GraphicsInit, Announced
  <1>6. queue = <<>> /\ completed = 0 /\ cpu = "Start"
    BY DEF GraphicsInit
  <1> QED
    BY <1>2, <1>3, <1>4, <1>5, <1>6 DEF Order, Fifo, AtLoop, AtFrameWait, AtGpuWait

(* The inductive invariant of the fence.                                   *)
THEOREM GraphicsInductive == GraphicsSpec => [](GraphicsTypeOK /\ Order)
  <1>1. GraphicsInit => GraphicsTypeOK /\ Order
    BY StartsInOrder
  <1>2. GraphicsTypeOK /\ Order /\ [GraphicsNext]_graphicsVars => (GraphicsTypeOK /\ Order)'
    BY TypeStep, OrderStep
  <1> QED
    BY <1>1, <1>2, PTL DEF GraphicsSpec

(* Whatever the number of buffers and the order in which the swap chain    *)
(* hands them out, a frame is recorded into an allocator whose lists the   *)
(* GPU has executed.                                                       *)
THEOREM AllocatorsAreIdle == GraphicsSpec => []AllocatorIdleWhenReset
  <1>1. GraphicsTypeOK /\ Order => AllocatorIdleWhenReset
    BY DEF GraphicsTypeOK, Order, AtLoop, AllocatorIdleWhenReset, Queued, Free
  <1> QED
    BY <1>1, GraphicsInductive, PTL

(* The CPU blocks on no value that nobody will signal.                     *)
THEOREM WaitsAreFinite == GraphicsSpec => []NoWaitForEver
  <1>1. GraphicsTypeOK /\ Order => NoWaitForEver
    <2> SUFFICES ASSUME GraphicsTypeOK, Order, cpu \in Waits, ~removed
                 PROVE  completed >= awaited \/ Queued(Signal(awaited))
      BY DEF NoWaitForEver, Reached
    <2>1. completed \in Nat /\ awaited \in Nat /\ backBufferIndex \in Frames
      BY DEF GraphicsTypeOK
    <2>2. Announced(queue, completed, awaited)
      BY <2>1 DEF Order, AtFrameWait, AtGpuWait, Waits, Value
    <2>3. DOMAIN queue = 1 .. Len(queue)
      BY LenProperties DEF GraphicsTypeOK
    <2> QED
      BY <2>1, <2>2, <2>3 DEF Announced, Queued
  <1> QED
    BY <1>1, GraphicsInductive, PTL

(* No render target is released while the GPU may still draw.              *)
THEOREM TargetsAreIdle == GraphicsSpec => TargetsIdleWhenReleased
  <1>1. GraphicsTypeOK /\ Order /\ (FinishResize \/ FinishShutdown)
          => removed \/ queue = <<>>
    BY GpuIdle DEF FinishResize, FinishShutdown
  <1>2. GraphicsTypeOK /\ Order /\ [GraphicsNext]_graphicsVars
          => [FinishResize \/ FinishShutdown => removed \/ queue = <<>>]_graphicsVars
    BY <1>1
  <1> QED
    BY <1>2, GraphicsInductive, PTL DEF GraphicsSpec, TargetsIdleWhenReleased

-----------------------------------------------------------------------------
(* The window and the message loop.                                        *)

WindowTyped ==
  /\ inSizemove \in BOOLEAN /\ inSuspend \in BOOLEAN /\ minimized \in BOOLEAN
  /\ gameSuspended \in BOOLEAN /\ asleep \in BOOLEAN /\ unseen \in BOOLEAN
  /\ windowSize \in Sizes

(* NeverLeftSuspended is inductive once the game is known to have been     *)
(* told of nothing but what the flag records, and of nothing at first.     *)
SuspendIInv ==
  /\ cpu = "Start" => ~gameSuspended
  /\ gameSuspended => inSuspend
  /\ inSuspend => minimized \/ asleep

(* OutputFollowsWindow during the waits of a resize as well, and with the  *)
(* fact that a window being dragged is not minimized.                      *)
SizeIInv == cpu # "Start" /\ ~inSizemove /\ ~unseen => outputSize = windowSize

WindowIInv == WindowTyped /\ SuspendIInv /\ SizeIInv

(* WindowSizeChanged leaves m_outputSize at the size it is given, and the  *)
(* CPU where it was or waiting.                                            *)
LEMMA SizeTaken ==
  ASSUME NEW size, WindowSizeChanged(size)
  PROVE  outputSize' = size /\ cpu' \in {cpu, "AwaitResize"}
  <1>1. CASE size = outputSize /\ UNCHANGED graphicsVars
    BY <1>1 DEF graphicsVars, cpuVars
  <1>2. CASE outputSize' = size /\ BeginResize
    BY <1>2 DEF BeginResize, SignalGpu
  <1> QED
    BY <1>1, <1>2 DEF WindowSizeChanged

(* Every step of the client keeps the invariant of the window.             *)
LEMMA WindowStep ==
  ASSUME WindowIInv, [ClientNext]_clientVars
  PROVE  WindowIInv'
  <1> USE DEF WindowIInv, WindowTyped, SuspendIInv, SizeIInv
  <1>1. ASSUME NEW shown \in BOOLEAN, NEW size \in Sizes, Startup(shown, size)
        PROVE  WindowIInv'
    BY <1>1, SizeTaken DEF Startup
  <1>2. CASE Minimize
    BY <1>2 DEF Minimize, Handling, graphicsVars, cpuVars
  <1>3. CASE BeginDrag
    BY <1>3 DEF BeginDrag, Handling, graphicsVars, cpuVars
  <1>4. CASE EndDrag
    BY <1>4, SizeTaken DEF EndDrag, PassOn, Handling
  <1>5. CASE QuerySuspend
    BY <1>5 DEF QuerySuspend, Handling, graphicsVars, cpuVars
  <1>6. CASE ResumeSuspend
    BY <1>6 DEF ResumeSuspend, Handling, graphicsVars, cpuVars
  <1>7. ASSUME NEW size \in Sizes, Restore(size)
        PROVE  WindowIInv'
    BY <1>7 DEF Restore, Handling, graphicsVars, cpuVars
  <1>8. ASSUME NEW size \in Sizes, SizeTo(size)
        PROVE  WindowIInv'
    BY <1>8, SizeTaken DEF SizeTo, PassOn, Handling, messageVars
  <1>9. ASSUME NEW size \in Sizes, DragTo(size)
        PROVE  WindowIInv'
    BY <1>9 DEF DragTo, Handling, messageVars, graphicsVars, cpuVars
  <1>10. ASSUME NEW size \in Sizes, ToggleFullscreen(size)
         PROVE  WindowIInv'
    BY <1>10, SizeTaken DEF ToggleFullscreen, PassOn, Handling
  <1>11. CASE BeginFrame \/ EndFrame \/ Close \/ (Resume /\ UNCHANGED windowVars)
    <2>1. /\ outputSize' = outputSize /\ cpu # "Start" /\ cpu' # "Start"
          /\ UNCHANGED windowVars
      BY <1>11 DEF BeginFrame, EndFrame, Close, Prepare, Present, MoveToNextFrame,
         HandleDeviceLost, BeginShutdown, SignalGpu, Resume, FinishResize, EndFrameWait,
         FinishShutdown
    <2> QED
      BY <2>1 DEF windowVars, messageVars
  <1>12. CASE Gpu /\ UNCHANGED windowVars
    BY <1>12 DEF Gpu, GpuStep, LoseDevice, cpuVars, windowVars, messageVars
  <1>13. CASE UNCHANGED clientVars
    BY <1>13 DEF clientVars, graphicsVars, cpuVars, windowVars, messageVars
  <1> QED
    BY <1>1, <1>2, <1>3, <1>4, <1>5, <1>6, <1>7, <1>8, <1>9, <1>10, <1>11, <1>12, <1>13
       DEF ClientNext

(* The invariant of the window.                                            *)
THEOREM WindowInductive == ClientSpec => []WindowIInv
  <1>1. ClientInit => WindowIInv
    BY DEF ClientInit, GraphicsInit, WindowIInv, WindowTyped, SuspendIInv, SizeIInv
  <1>2. WindowIInv /\ [ClientNext]_clientVars => WindowIInv'
    BY WindowStep
  <1> QED
    BY <1>1, <1>2, PTL DEF ClientSpec

(* The game is left suspended only while the window is minimized or the    *)
(* system about to sleep.                                                  *)
THEOREM SuspensionsEnd == ClientSpec => []NeverLeftSuspended
  <1>1. WindowIInv => NeverLeftSuspended
    BY DEF WindowIInv, SuspendIInv, NeverLeftSuspended
  <1> QED
    BY <1>1, WindowInductive, PTL

(* The back buffers have the size of the window, but for the sizes dropped *)
(* when it is first shown and when it is restored (NeuronClient.cpp:202).  *)
THEOREM SizesAreFollowed == ClientSpec => []OutputFollowsWindow
  <1>1. WindowIInv => OutputFollowsWindow
    BY DEF WindowIInv, SizeIInv, OutputFollowsWindow
  <1> QED
    BY <1>1, WindowInductive, PTL

(* The client, its messages included, is one user of the graphics core:    *)
(* each of its steps is a step of GraphicsCore or leaves that alone.       *)
THEOREM ClientImplementsGraphics == ClientSpec => GraphicsSpec
  <1>1. ClientInit => GraphicsInit
    BY DEF ClientInit
  <1>2. WindowIInv /\ [ClientNext]_clientVars => [GraphicsNext]_graphicsVars
    <2> SUFFICES ASSUME WindowTyped, [ClientNext]_clientVars
                 PROVE  [GraphicsNext]_graphicsVars
      BY DEF WindowIInv
    <2>1. ASSUME NEW size \in Sizes, WindowSizeChanged(size), cpu \in {"Start", "Loop"}
          PROVE  GraphicsNext
      BY <2>1 DEF GraphicsNext
    <2>2. ASSUME NEW shown \in BOOLEAN, NEW size \in Sizes, Startup(shown, size)
          PROVE  GraphicsNext
      BY <2>1, <2>2 DEF Startup, WindowTyped
    <2>3. ASSUME NEW size \in Sizes, Restore(size) \/ SizeTo(size) \/ DragTo(size)
                                     \/ ToggleFullscreen(size)
          PROVE  [GraphicsNext]_graphicsVars
      BY <2>1, <2>3 DEF Restore, SizeTo, DragTo, ToggleFullscreen, PassOn, Handling
    <2>4. CASE EndDrag
      BY <2>1, <2>4 DEF EndDrag, PassOn, Handling, WindowTyped
    <2>5. CASE Minimize \/ BeginDrag \/ QuerySuspend \/ ResumeSuspend
      BY <2>5 DEF Minimize, BeginDrag, QuerySuspend, ResumeSuspend
    <2>6. CASE BeginFrame \/ EndFrame \/ Close
      BY <2>6 DEF BeginFrame, EndFrame, Close, GraphicsNext
    <2>7. CASE (Resume \/ Gpu) /\ UNCHANGED windowVars
      BY <2>7 DEF GraphicsNext
    <2>8. CASE UNCHANGED clientVars
      BY <2>8 DEF clientVars
    <2> QED
      BY <2>2, <2>3, <2>4, <2>5, <2>6, <2>7, <2>8 DEF ClientNext
  <1> QED
    BY <1>1, <1>2, WindowInductive, PTL DEF ClientSpec, GraphicsSpec
=============================================================================
