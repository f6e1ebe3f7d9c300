---------------------------- MODULE ResourceStates ----------------------------
(***************************************************************************)
(* ResourceStateTracker and GpuResource: the state each resource is        *)
(* recorded to be in, the barriers that take it there, gathered in an      *)
(* array of MAX_NUM_BARRIERS, and the GPU that meets them in the command   *)
(* list.  Core moves its back buffer to RENDER_TARGET in Prepare and back  *)
(* to PRESENT in Present; between the two the game may use the tracker for *)
(* any resource (GraphicsCore.h:70), Core's depth buffer (:57) included.   *)
(*                                                                         *)
(* The array outlives a flush: a slot keeps the Flags of the barrier it    *)
(* held last until they are assigned.  TransitionResource assigns them     *)
(* after InsertUAVBarrier, which flushes a full array, and                 *)
(* BeginResourceTransition looks for room only before it finishes a        *)
(* transition already begun, and may write past the array: of a process    *)
(* that did nothing more is said.                                          *)
(***************************************************************************)
EXTENDS Naturals, Sequences

CONSTANTS
  Targets,          \* the back buffers
  Others,           \* the resources the game moves, the depth buffer one of them
  DepthStencil,
  States,           \* D3D12_RESOURCE_STATES
  PRESENT,          \* and COMMON, which is the same value
  RENDER_TARGET,
  DEPTH_WRITE,
  UNORDERED_ACCESS,
  NoState,          \* static_cast<D3D12_RESOURCE_STATES>(-1)
  NoTarget,         \* no frame is being recorded
  MAX_NUM_BARRIERS  \* 16 in the code

Resources == Targets \cup Others

ASSUME StatesAssumption ==
  /\ {PRESENT, RENDER_TARGET, DEPTH_WRITE, UNORDERED_ACCESS} \subseteq States
  /\ PRESENT # RENDER_TARGET /\ UNORDERED_ACCESS \notin {PRESENT, RENDER_TARGET}
  /\ Targets \cap Others = {} /\ DepthStencil \in Others
  /\ NoState \notin States /\ NoTarget \notin Resources
  /\ MAX_NUM_BARRIERS \in Nat /\ MAX_NUM_BARRIERS >= 2

VARIABLES
  usage,         \* m_usageState of each resource
  transitioning, \* m_transitioningState of each resource
  batch,         \* m_ResourceBarrierBuffer up to m_numBarriersToFlush, Flags apart
  flags,         \* the Flags in each slot of the whole array
  gpu,           \* state and begun transition of each resource, as the GPU has it
  astray,        \* history: resources whose record went wrong in a known way
  target         \* the back buffer of the frame being recorded

statesVars == <<usage, transitioning, batch, flags, gpu, astray, target>>

Transition(r, before, after) ==
  [kind |-> "transition", resource |-> r, before |-> before, after |-> after]

UavBarrier(r) == [kind |-> "uav", resource |-> r, before |-> NoState, after |-> NoState]

(* The GPU meets a barrier: legal ones start from the state it has, and    *)
(* end a transition only if that very one was begun.                       *)
Fits(b, flag, g) ==
  LET r == g[b.resource]
  IN  r.state = b.before /\ r.split = IF flag = "END_ONLY" THEN b.after ELSE NoState

(* After an illegal barrier nothing is known of the resource.              *)
Lost == [state |-> NoState, split |-> NoState]

(* What the GPU has after one barrier more.                                *)
Met(g, b, flag) ==
  IF b.kind = "uav" THEN g
  ELSE [g EXCEPT ![b.resource] =
          IF ~Fits(b, flag, g) THEN Lost
          ELSE IF flag = "BEGIN_ONLY" THEN [state |-> b.before, split |-> b.after]
          ELSE [state |-> b.after, split |-> NoState]]

(* What the GPU makes of barriers with the Flags of their slots.           *)
Outcome(barriers, fl, g) ==
  LET after[i \in 0 .. Len(barriers)] ==
        IF i = 0 THEN g ELSE Met(after[i - 1], barriers[i], fl[i])
  IN  after[Len(barriers)]

-----------------------------------------------------------------------------
(* The array, IMPLEMENTATION_PLAN.md:263 "up to 16", is never overrun.     *)
BatchFits == Len(batch) <= MAX_NUM_BARRIERS

(* A command list is being recorded, by a process that is still sound.     *)
Recording == target # NoTarget /\ BatchFits

(* The tracker in the middle of a call: array, Flags and the GPU's end.    *)
Now == [batch |-> batch, flags |-> flags, gpu |-> gpu]

Becomes(s) == batch' = s.batch /\ flags' = s.flags /\ gpu' = s.gpu

(* FlushResourceBarriers                                                   *)
Flushed(s) ==
  [s EXCEPT !.batch = <<>>, !.gpu = Outcome(s.batch, s.flags, s.gpu)]

IsFull(s) == Len(s.batch) = MAX_NUM_BARRIERS

FlushedIfFull(s) == IF IsFull(s) THEN Flushed(s) ELSE s

FlushedIf(s, immediate) == IF immediate THEN Flushed(s) ELSE s

(* The next slot is taken, all but its Flags.                              *)
Put(s, b) == [s EXCEPT !.batch = Append(s.batch, b)]

FlagSet(s, slot, flag) == [s EXCEPT !.flags[slot] = flag]

(* InsertUAVBarrier                                                        *)
WithUav(s, r) ==
  LET free == FlushedIfFull(s)
  IN  FlagSet(Put(free, UavBarrier(r)), Len(free.batch) + 1, "NONE")

(* Mutant: a transition that was begun is made again in full.              *)
EndingFlag_None(r, new) == "NONE"

(* Is a transition to this state under way?                                *)
EndingFlag(r, new) == IF transitioning[r] = new THEN "END_ONLY" ELSE "NONE"

(* Does TransitionResource order the accesses before and after?            *)
NeedsUav(r, new) == UNORDERED_ACCESS \in {usage[r], new}

(* TransitionResource, up to the flush at its end: the slot is taken       *)
(* before, and its Flags are set after, the barrier for unordered access.  *)
Transitioned(s, r, new) ==
  LET free == FlushedIfFull(s)
      slot == Len(free.batch) + 1
      put  == Put(free, Transition(r, usage[r], new))
  IN  IF usage[r] # new
      THEN FlagSet(IF NeedsUav(r, new) THEN WithUav(put, r) ELSE put, slot, EndingFlag(r, new))
      ELSE IF new = UNORDERED_ACCESS THEN WithUav(free, r) ELSE free

(* The transition that TransitionResource leaves under way                 *)
StillUnderWay(r, new) ==
  IF usage[r] # new /\ transitioning[r] = new THEN NoState ELSE transitioning[r]

(* The first way to go astray: to another state between the halves of a    *)
(* split transition.                                                       *)
OutOfTurn(r, new) == usage[r] # new /\ transitioning[r] \notin {NoState, new}

(* The second: the barrier takes the last slot, is sent by the flush in    *)
(* InsertUAVBarrier, and the slot still has other Flags.                   *)
SentTooEarly(s, r, new) ==
  LET free == FlushedIfFull(s)
      slot == Len(free.batch) + 1
  IN  /\ usage[r] # new /\ NeedsUav(r, new)
      /\ slot = MAX_NUM_BARRIERS /\ free.flags[slot] # EndingFlag(r, new)

LedAstray(s, r, new) == IF OutOfTurn(r, new) \/ SentTooEarly(s, r, new) THEN {r} ELSE {}

-----------------------------------------------------------------------------
(* What Core makes itself, anew for each size and device, and in which     *)
(* states.  Destroy and Put leave the record alone, the third way to go    *)
(* astray: the depth buffer, made in DEPTH_WRITE, is recorded as COMMON.   *)
CoreMade == Targets \cup {DepthStencil}

MadeIn(r) == IF r \in Targets THEN PRESENT ELSE DEPTH_WRITE

StatesInit ==
  /\ usage = [r \in Resources |-> PRESENT]
  /\ transitioning = [r \in Resources |-> NoState]
  /\ batch = <<>> /\ flags = [i \in 1 .. MAX_NUM_BARRIERS |-> "NONE"]
  /\ gpu = [r \in Resources |->
              [state |-> IF r = DepthStencil THEN DEPTH_WRITE ELSE PRESENT, split |-> NoState]]
  /\ target = NoTarget
  /\ astray = IF DEPTH_WRITE = PRESENT THEN {} ELSE {DepthStencil}

(* Core moves its back buffer, and flushes.                                *)
MoveTarget(t, new) ==
  /\ Becomes(Flushed(Transitioned(Now, t, new)))
  /\ usage' = [usage EXCEPT ![t] = new]
  /\ transitioning' = [transitioning EXCEPT ![t] = StillUnderWay(t, new)]
  /\ astray' = astray \cup LedAstray(Now, t, new)

(* Core::Prepare opens the command list.                                   *)
PrepareTarget(t) ==
  /\ target = NoTarget
  /\ target' = t
  /\ MoveTarget(t, RENDER_TARGET)

(* Mutant: the list is closed without the flush.                           *)
PresentTarget_Unflushed ==
  /\ Recording
  /\ target' = NoTarget
  /\ Becomes(Transitioned(Now, target, PRESENT))
  /\ usage' = [usage EXCEPT ![target] = PRESENT]
  /\ transitioning' = [transitioning EXCEPT ![target] = StillUnderWay(target, PRESENT)]
  /\ UNCHANGED astray

(* Core::Present closes it.                                                *)
PresentTarget ==
  /\ Recording
  /\ target' = NoTarget
  /\ MoveTarget(target, PRESENT)

(* A resize or a lost device: new back buffers and a new depth buffer.     *)
RecreateTargets ==
  /\ target = NoTarget
  /\ gpu' = [r \in Resources |->
               IF r \in CoreMade THEN [state |-> MadeIn(r), split |-> NoState] ELSE gpu[r]]
  /\ astray' = (astray \ CoreMade) \cup
                 {r \in CoreMade : usage[r] # MadeIn(r) \/ transitioning[r] # NoState}
  /\ UNCHANGED <<usage, transitioning, batch, flags, target>>

(* ResourceStateTracker::Reset, after the loss of the device               *)
ResetTracker ==
  /\ target = NoTarget
  /\ batch' = <<>>
  /\ UNCHANGED <<usage, transitioning, flags, gpu, astray, target>>

(* TransitionResource, by the game.                                        *)
TransitionResource(r, new, immediate) ==
  /\ Recording
  /\ Becomes(FlushedIf(Transitioned(Now, r, new), immediate))
  /\ usage' = [usage EXCEPT ![r] = new]
  /\ transitioning' = [transitioning EXCEPT ![r] = StillUnderWay(r, new)]
  /\ astray' = astray \cup LedAstray(Now, r, new)
  /\ UNCHANGED target

(* The transition begun before is finished first.                          *)
FinishedFirst(r) == transitioning[r] # NoState

StateToLeave(r) == IF FinishedFirst(r) THEN transitioning[r] ELSE usage[r]

(* The tracker when BeginResourceTransition has finished it.               *)
Ended(r) ==
  LET free == FlushedIfFull(Now)
  IN  IF FinishedFirst(r) THEN Transitioned(free, r, transitioning[r]) ELSE free

(* BeginResourceTransition, if there is still a slot for its own barrier.  *)
BeginResourceTransition(r, new, immediate) ==
  LET old   == StateToLeave(r)
      begun == IF old = new THEN Ended(r)
               ELSE FlagSet(Put(Ended(r), Transition(r, old, new)),
                            Len(Ended(r).batch) + 1, "BEGIN_ONLY")
  IN  /\ Recording
      /\ old # new => ~IsFull(Ended(r))
      /\ Becomes(FlushedIf(begun, immediate \/ IsFull(begun)))
      /\ usage' = [usage EXCEPT ![r] = old]
      /\ transitioning' = [transitioning EXCEPT ![r] = IF old = new THEN NoState ELSE new]
      /\ astray' = astray \cup
           IF FinishedFirst(r) THEN LedAstray(FlushedIfFull(Now), r, transitioning[r]) ELSE {}
      /\ UNCHANGED target

(* And if there is none: the barrier is written past the array.            *)
OverrunArray(r, new) ==
  /\ Recording
  /\ StateToLeave(r) # new /\ IsFull(Ended(r))
  /\ Becomes(Put(Ended(r), Transition(r, StateToLeave(r), new)))
  /\ UNCHANGED <<usage, transitioning, astray, target>>

(* InsertUAVBarrier, by the game                                           *)
InsertUAVBarrier(r, immediate) ==
  /\ Recording
  /\ Becomes(FlushedIf(WithUav(Now, r), immediate))
  /\ UNCHANGED <<usage, transitioning, astray, target>>

FlushResourceBarriers ==
  /\ Recording /\ batch # <<>>
  /\ Becomes(Flushed(Now))
  /\ UNCHANGED <<usage, transitioning, astray, target>>

(* Set: the game makes a resource anew, none of whose barriers is pending. *)
SetResource(r, state) ==
  /\ BatchFits /\ \A i \in DOMAIN batch : batch[i].resource # r
  /\ usage' = [usage EXCEPT ![r] = state]
  /\ transitioning' = [transitioning EXCEPT ![r] = NoState]
  /\ gpu' = [gpu EXCEPT ![r] = [state |-> state, split |-> NoState]]
  /\ astray' = astray \ {r}
  /\ UNCHANGED <<batch, flags, target>>

StatesNext ==
  \/ \E t \in Targets : PrepareTarget(t)
  \/ PresentTarget \/ RecreateTargets \/ ResetTracker
  \/ \E r \in Others, new \in States, immediate \in BOOLEAN :
       \/ TransitionResource(r, new, immediate)
       \/ BeginResourceTransition(r, new, immediate)
  \/ \E r \in Others, new \in States : OverrunArray(r, new)
  \/ \E r \in Others, immediate \in BOOLEAN : InsertUAVBarrier(r, immediate)
  \/ FlushResourceBarriers
  \/ \E r \in Others \ {DepthStencil}, state \in States : SetResource(r, state)

StatesSpec == StatesInit /\ [][StatesNext]_statesVars

-----------------------------------------------------------------------------
(* The barriers sent and those waiting take the GPU, by legal steps, to    *)
(* what is recorded of each resource, begun transitions included, however  *)
(* calls on several resources fall into batches, full ones flushed on the  *)
(* way: but for the three ways to go astray, each of which spoils the      *)
(* record of its own resource only, and that only until the resource is    *)
(* made anew as recorded (ResourceStateTracker.cpp:10-100).                *)
RecordAgrees ==
  BatchFits =>
    \A r \in Resources \ astray :
      Outcome(batch, flags, gpu)[r] = [state |-> usage[r], split |-> transitioning[r]]

(* Between frames no barrier waits, which Reset would drop and the closed  *)
(* list not take, and each back buffer is, for the GPU and on record, as   *)
(* the swap chain wants it: what Destroy and Put (GpuResource.h:28-44)     *)
(* leave of the old buffer's record is right for the new one, whatever the *)
(* game did to its own resources and the depth buffer.                     *)
FramesLeaveNothing ==
  target = NoTarget =>
    /\ batch = <<>>
    /\ \A t \in Targets : usage[t] = PRESENT /\ gpu[t].state = PRESENT
=============================================================================
