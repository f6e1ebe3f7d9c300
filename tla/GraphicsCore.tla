----------------------------- MODULE GraphicsCore -----------------------------
(***************************************************************************)
(* Neuron::Graphics::Core: the CPU records one command list per frame, the *)
(* GPU executes what it is given in order, and a fence tells how far it    *)
(* is.  The calls are cut where the CPU blocks on the fence; the GPU and   *)
(* the loss of the device may come between any two steps.                  *)
(*                                                                         *)
(* A window size is a value of its own; views, viewports and colour spaces *)
(* are left out, and a Direct3D call fails only by loss of the device.     *)
(***************************************************************************)
EXTENDS Naturals, Sequences

CONSTANTS
  BackBufferCount,  \* m_backBufferCount
  Sizes,            \* sizes a client area may have
  NoSize,           \* the 1x1 that m_outputSize starts with
  MaxFence,         \* bound: no frame or resize is begun beyond this fence value
  MaxLosses         \* bound: losses of the device

ASSUME GraphicsAssumption ==
  /\ BackBufferCount \in Nat \ {0}
  /\ MaxFence \in Nat /\ MaxLosses \in Nat
  /\ NoSize \notin Sizes

VARIABLES
  cpu,              \* where the CPU is: see Places
  backBufferIndex,  \* m_backBufferIndex
  fenceValues,      \* m_fenceValues, per back buffer
  awaited,          \* the value the CPU blocks on; 0 when Signal was refused
  currentFence,     \* currentFenceValue of MoveToNextFrame
  outputSize,       \* m_outputSize
  swapChain,        \* is there an m_swapChain?
  rtvTaken,         \* descriptors taken from the RTV heap
  dsvTaken,         \* descriptors taken from the DSV heap
  queue,            \* what the GPU has yet to do
  completed,        \* the value of m_fence
  removed,          \* has the device been lost?
  losses            \* how often it was

cpuVars == <<cpu, backBufferIndex, fenceValues, awaited, currentFence, outputSize,
             swapChain, rtvTaken, dsvTaken>>
gpuVars == <<queue, completed, removed, losses>>
graphicsVars == <<cpuVars, gpuVars>>

Frames == 0 .. BackBufferCount - 1

(* "Loop" is Run between two messages or frames, "Record" the time between *)
(* Prepare and Present; the Await places are the waits for the fence.      *)
Waits == {"AwaitFrame", "AwaitResize", "AwaitShutdown"}
Places == {"Start", "Loop", "Record", "Ended", "Threw"} \cup Waits

(* What the queue holds: lists to execute, by the number of the allocator  *)
(* they were recorded from, and values to signal.                          *)
Commands   == [op : {"execute", "signal"}, on : Nat]
Execute(n) == [op |-> "execute", on |-> n]
Signal(v)  == [op |-> "signal", on |-> v]

Queued(command) == \E k \in DOMAIN queue : queue[k] = command

(* On a lost device every fence counts as reached.                         *)
Reached(v) == removed \/ completed >= v

-----------------------------------------------------------------------------
(* Startup up to SetWindow: CreateDeviceResources has created the fence    *)
(* with value 0 and advanced the value of back buffer 0.                   *)
GraphicsInit ==
  /\ cpu = "Start"
  /\ backBufferIndex = 0
  /\ fenceValues = [n \in Frames |-> IF n = 0 THEN 1 ELSE 0]
  /\ awaited = 0 /\ currentFence = 0
  /\ outputSize = NoSize
  /\ swapChain = FALSE
  /\ rtvTaken = 0 /\ dsvTaken = 0
  /\ queue = <<>> /\ completed = 0
  /\ removed = FALSE /\ losses = 0

(* Mutant: the wait is for the frame before.                               *)
SignalGpu_Previous(q, values, lost, there) ==
  /\ cpu' = there
  /\ \/ /\ awaited' = values[backBufferIndex] - 1
        /\ queue' = Append(q, Signal(values[backBufferIndex]))
     \/ /\ lost
        /\ awaited' = 0
        /\ queue' = q

(* Mutant: the wait is for the value after the increment.                  *)
SignalGpu_NextValue(q, values, lost, there) ==
  /\ cpu' = there
  /\ \/ /\ awaited' = values[backBufferIndex] + 1
        /\ queue' = Append(q, Signal(values[backBufferIndex]))
     \/ /\ lost
        /\ awaited' = 0
        /\ queue' = q

(* WaitForGpu() up to its wait, the work given to the GPU being q: a lost   *)
(* device refuses the Signal, and then there is nothing to wait for.       *)
SignalGpu(q, values, lost, there) ==
  /\ cpu' = there
  /\ \/ /\ awaited' = values[backBufferIndex]
        /\ queue' = Append(q, Signal(values[backBufferIndex]))
     \/ /\ lost
        /\ awaited' = 0
        /\ queue' = q

(* The fence values when WaitForGpu() returns.                             *)
AfterWait ==
  IF awaited = 0 THEN fenceValues
  ELSE [fenceValues EXCEPT ![backBufferIndex] = @ + 1]

(* The loop that destroys the render targets and levels the fence values.  *)
AlignFences == [n \in Frames |-> AfterWait[backBufferIndex]]

(* CreateWindowSizeDependentResources() up to the end of WaitForGpu's      *)
(* Signal.                                                                 *)
BeginResize ==
  /\ SignalGpu(queue, fenceValues, removed, "AwaitResize")
  /\ UNCHANGED <<backBufferIndex, fenceValues, currentFence, swapChain, rtvTaken,
                 dsvTaken, completed, removed, losses>>

(* WindowSizeChanged(size)                                                 *)
WindowSizeChanged(size) ==
  \/ /\ size = outputSize
     /\ UNCHANGED graphicsVars
  \/ /\ size # outputSize
     /\ fenceValues[backBufferIndex] < MaxFence
     /\ outputSize' = size
     /\ BeginResize

(* HandleDeviceLost() with the fence values it finds, up to the WaitForGpu *)
(* of the CreateWindowSizeDependentResources it ends with.  Everything is  *)
(* released; the new fence starts where the current back buffer was, and   *)
(* no fence value is reset.                                                *)
HandleDeviceLost(values) ==
  LET i == backBufferIndex
      fresh == [values EXCEPT ![i] = @ + 1]
  IN  /\ fenceValues' = fresh
      /\ completed' = values[i]
      /\ removed' = FALSE
      /\ SignalGpu(<<>>, fresh, FALSE, "AwaitResize")
      /\ swapChain' = FALSE
      /\ rtvTaken' = 0 /\ dsvTaken' = 0
      /\ UNCHANGED <<backBufferIndex, currentFence, outputSize, losses>>

(* CreateWindowSizeDependentResources() from the end of the wait on.  The  *)
(* swap chain says which buffer is current; resizing the chain of a lost   *)
(* device reports the loss instead.                                        *)
FinishResize ==
  /\ cpu = "AwaitResize"
  /\ Reached(awaited)
  /\ \/ /\ ~removed
        /\ cpu' = "Loop"
        /\ fenceValues' = AlignFences
        /\ backBufferIndex' \in Frames
        /\ swapChain' = TRUE
        /\ rtvTaken' = rtvTaken + BackBufferCount
        /\ dsvTaken' = dsvTaken + 1
        /\ UNCHANGED <<awaited, currentFence, outputSize, gpuVars>>
     \/ /\ removed /\ swapChain
        /\ HandleDeviceLost(AlignFences)
     \/ /\ removed /\ ~swapChain
        /\ cpu' = "Threw"
        /\ fenceValues' = AlignFences
        /\ UNCHANGED <<backBufferIndex, awaited, currentFence, outputSize, swapChain,
                       rtvTaken, dsvTaken, gpuVars>>

-----------------------------------------------------------------------------
(* Prepare(): the allocator of the current buffer is reset and recorded    *)
(* into.                                                                   *)
Prepare ==
  /\ cpu = "Loop"
  /\ fenceValues[backBufferIndex] < MaxFence
  /\ cpu' = "Record"
  /\ UNCHANGED <<backBufferIndex, fenceValues, awaited, currentFence, outputSize,
                 swapChain, rtvTaken, dsvTaken, gpuVars>>

(* Mutant: the buffer's last value is not waited for.                      *)
MustWait_Never(n) == FALSE

(* "If the next frame is not ready to be rendered yet, wait until it is."  *)
MustWait(n) == completed < fenceValues[n]

(* MoveToNextFrame() once the frame's list is in the queue: Signal, then   *)
(* the buffer the swap chain names next, at once or after a wait.          *)
MoveToNextFrame ==
  LET value == fenceValues[backBufferIndex] IN
  \E next \in Frames :
    /\ queue' = Append(Append(queue, Execute(backBufferIndex)), Signal(value))
    /\ currentFence' = value
    /\ backBufferIndex' = next
    /\ \/ /\ MustWait(next)
          /\ cpu' = "AwaitFrame"
          /\ awaited' = fenceValues[next]
          /\ UNCHANGED fenceValues
       \/ /\ ~MustWait(next)
          /\ cpu' = "Loop"
          /\ fenceValues' = [fenceValues EXCEPT ![next] = value + 1]
          /\ UNCHANGED awaited
    /\ UNCHANGED <<outputSize, swapChain, rtvTaken, dsvTaken, completed, removed, losses>>

(* Present(): the list is closed and handed to the GPU.  A lost device is  *)
(* reported by the swap chain; one lost just after that makes the Signal   *)
(* of MoveToNextFrame fail, and check_hresult throws.                      *)
Present ==
  /\ cpu = "Record"
  /\ \/ ~removed /\ MoveToNextFrame
     \/ removed /\ HandleDeviceLost(fenceValues)
     \/ /\ removed
        /\ cpu' = "Threw"
        /\ queue' = Append(queue, Execute(backBufferIndex))
        /\ UNCHANGED <<backBufferIndex, fenceValues, awaited, currentFence, outputSize,
                       swapChain, rtvTaken, dsvTaken, completed, removed, losses>>

(* The end of MoveToNextFrame() when it had to wait.                       *)
EndFrameWait ==
  /\ cpu = "AwaitFrame"
  /\ Reached(awaited)
  /\ cpu' = "Loop"
  /\ fenceValues' = [fenceValues EXCEPT ![backBufferIndex] = currentFence + 1]
  /\ UNCHANGED <<backBufferIndex, awaited, currentFence, outputSize, swapChain, rtvTaken,
                 dsvTaken, gpuVars>>

(* Shutdown(), which Run's end leads to, up to the wait and after it.      *)
BeginShutdown ==
  /\ cpu = "Loop"
  /\ SignalGpu(queue, fenceValues, removed, "AwaitShutdown")
  /\ UNCHANGED <<backBufferIndex, fenceValues, currentFence, outputSize, swapChain,
                 rtvTaken, dsvTaken, completed, removed, losses>>

FinishShutdown ==
  /\ cpu = "AwaitShutdown"
  /\ Reached(awaited)
  /\ cpu' = "Ended"
  /\ fenceValues' = AfterWait
  /\ swapChain' = FALSE
  /\ rtvTaken' = 0 /\ dsvTaken' = 0
  /\ UNCHANGED <<backBufferIndex, awaited, currentFence, outputSize, gpuVars>>

-----------------------------------------------------------------------------
(* The GPU does the next thing it was given.                               *)
GpuStep ==
  /\ queue # <<>> /\ ~removed
  /\ queue' = Tail(queue)
  /\ completed' = IF Head(queue).op = "signal" THEN Head(queue).on ELSE completed
  /\ UNCHANGED <<cpuVars, removed, losses>>

(* The device is lost; the GPU stops where it is.                          *)
LoseDevice ==
  /\ cpu \notin {"Ended", "Threw"}
  /\ ~removed /\ losses < MaxLosses
  /\ removed' = TRUE
  /\ losses' = losses + 1
  /\ UNCHANGED <<cpuVars, queue, completed>>

Gpu == GpuStep \/ LoseDevice

(* The steps the CPU takes when the fence lets it.                         *)
Resume == FinishResize \/ EndFrameWait \/ FinishShutdown

GraphicsNext ==
  \/ \E size \in Sizes :
       /\ cpu \in {"Start", "Loop"}
       /\ WindowSizeChanged(size)
  \/ Prepare \/ Present \/ BeginShutdown
  \/ Resume
  \/ Gpu

GraphicsSpec == GraphicsInit /\ [][GraphicsNext]_graphicsVars

-----------------------------------------------------------------------------
GraphicsTypeOK ==
  /\ cpu \in Places
  /\ backBufferIndex \in Frames
  /\ fenceValues \in [Frames -> Nat]
  /\ awaited \in Nat /\ currentFence \in Nat /\ completed \in Nat
  /\ rtvTaken \in Nat /\ dsvTaken \in Nat /\ losses \in Nat
  /\ outputSize \in Sizes \cup {NoSize}
  /\ swapChain \in BOOLEAN /\ removed \in BOOLEAN
  /\ queue \in Seq(Commands)

(* While a frame is recorded, the GPU has nothing left to execute from its *)
(* allocator, whichever buffer the swap chain chose and whatever happened  *)
(* to the window or the device before; or the device is gone.              *)
AllocatorIdleWhenReset ==
  cpu = "Record" => removed \/ ~Queued(Execute(backBufferIndex))

(* The render targets are only released when the GPU draws no more: it has *)
(* nothing left to do, or is gone.                                         *)
TargetsIdleWhenReleased ==
  [][FinishResize \/ FinishShutdown => removed \/ queue = <<>>]_graphicsVars

(* A value the CPU waits for is one the GPU will reach: it is reached      *)
(* already, or its Signal is in the queue.  A wait for a value that nobody *)
(* signals would be for ever (INFINITE).                                   *)
NoWaitForEver ==
  cpu \in Waits => Reached(awaited) \/ Queued(Signal(awaited))
=============================================================================
