----------------------------- MODULE ClientEngine -----------------------------
(***************************************************************************)
(* ClientEngine: Run, which handles window messages and draws a frame when *)
(* there is none, and WndProc, which keeps track of the window and tells   *)
(* the game about it.                                                      *)
(*                                                                         *)
(* Windows sends the messages modelled here by calling WndProc, so that    *)
(* what happens to the window and its handler are one step; a handler that *)
(* ends in WindowSizeChanged goes on in GraphicsCore.  While the user      *)
(* drags the window, Windows runs a loop of its own and Run draws nothing. *)
(***************************************************************************)
EXTENDS GraphicsCore

VARIABLES
  inSizemove,     \* s_in_sizemove
  inSuspend,      \* s_in_suspend
  minimized,      \* s_minimized
  fullscreen,     \* s_fullscreen
  gameSuspended,  \* the last the game was told: OnSuspending or OnResuming
  windowSize,     \* the window's client area, when it is not minimized
  asleep,         \* the system has announced that it will suspend
  unseen          \* history: its size came with a WM_SIZE that WndProc drops

messageVars == <<inSizemove, inSuspend, minimized, fullscreen, gameSuspended>>
windowVars == <<messageVars, windowSize, asleep, unseen>>
clientVars == <<graphicsVars, windowVars>>

Handling == cpu = "Loop"

ClientInit ==
  /\ GraphicsInit
  /\ inSizemove = FALSE /\ inSuspend = FALSE /\ minimized = FALSE
  /\ fullscreen = FALSE /\ gameSuspended = FALSE
  /\ windowSize \in Sizes
  /\ asleep = FALSE /\ unseen = FALSE

(* Startup: SetWindow with the client area of the new window, then         *)
(* ShowWindow as wWinMain was told to, whose WM_SIZE arrives before there  *)
(* is a game: a window shown minimized is counted as suspended without a   *)
(* word to the game, and the size of one shown maximized is dropped.       *)
Startup(shownMinimized, shownSize) ==
  /\ cpu = "Start"
  /\ shownMinimized => shownSize = windowSize
  /\ WindowSizeChanged(windowSize)
  /\ minimized' = shownMinimized
  /\ inSuspend' = shownMinimized
  /\ windowSize' = shownSize
  /\ unseen' = (shownSize # windowSize)
  /\ UNCHANGED <<inSizemove, fullscreen, gameSuspended, asleep>>

-----------------------------------------------------------------------------
(* WM_SIZE with SIZE_MINIMIZED: the game is told once.                     *)
Minimize ==
  /\ Handling /\ ~minimized /\ ~inSizemove
  /\ minimized' = TRUE
  /\ gameSuspended' = (gameSuspended \/ ~inSuspend)
  /\ inSuspend' = TRUE
  /\ UNCHANGED <<graphicsVars, inSizemove, fullscreen, windowSize, asleep, unseen>>

(* Mutant: the flag is kept.                                               *)
Restore_KeepsFlag(size) ==
  /\ Handling /\ minimized
  /\ minimized' = FALSE
  /\ gameSuspended' = (gameSuspended /\ ~inSuspend)
  /\ windowSize' = size
  /\ unseen' = (size # outputSize)
  /\ UNCHANGED <<graphicsVars, inSizemove, inSuspend, fullscreen, asleep>>

(* WM_SIZE with another state after that: the game resumes, and the size   *)
(* that comes with the message is passed over.                             *)
Restore(size) ==
  /\ Handling /\ minimized
  /\ minimized' = FALSE
  /\ gameSuspended' = (gameSuspended /\ ~inSuspend)
  /\ inSuspend' = FALSE
  /\ windowSize' = size
  /\ unseen' = (size # outputSize)
  /\ UNCHANGED <<graphicsVars, inSizemove, fullscreen, asleep>>

(* OnWindowSizeChanged, for a window that now has this size.               *)
PassOn(size) ==
  /\ WindowSizeChanged(size)
  /\ windowSize' = size
  /\ unseen' = FALSE

(* WM_SIZE of a window neither minimized nor dragged                       *)
SizeTo(size) ==
  /\ Handling /\ ~minimized /\ ~inSizemove
  /\ PassOn(size)
  /\ UNCHANGED <<messageVars, asleep>>

(* WM_ENTERSIZEMOVE, WM_SIZE while the user drags, WM_EXITSIZEMOVE         *)
BeginDrag ==
  /\ Handling /\ ~minimized /\ ~inSizemove
  /\ inSizemove' = TRUE
  /\ UNCHANGED <<graphicsVars, inSuspend, minimized, fullscreen, gameSuspended, windowSize,
                 asleep, unseen>>

DragTo(size) ==
  /\ Handling /\ inSizemove
  /\ windowSize' = size
  /\ UNCHANGED <<graphicsVars, messageVars, asleep, unseen>>

(* Mutant: the size is passed on only if a frame border was dragged.       *)
EndDrag_Silent ==
  /\ Handling /\ inSizemove
  /\ inSizemove' = FALSE
  /\ unseen' = FALSE
  /\ UNCHANGED <<graphicsVars, windowSize, inSuspend, minimized, fullscreen,
                 gameSuspended, asleep>>

EndDrag ==
  /\ Handling /\ inSizemove
  /\ inSizemove' = FALSE
  /\ PassOn(windowSize)
  /\ UNCHANGED <<inSuspend, minimized, fullscreen, gameSuspended, asleep>>

(* WM_SYSKEYDOWN, ALT+ENTER: the style changes, which sends a WM_SIZE, and *)
(* the same size is passed on again.                                       *)
ToggleFullscreen(size) ==
  /\ Handling /\ ~minimized /\ ~inSizemove
  /\ fullscreen' = ~fullscreen
  /\ PassOn(size)
  /\ UNCHANGED <<inSizemove, inSuspend, minimized, gameSuspended, asleep>>

(* WM_POWERBROADCAST: PBT_APMQUERYSUSPEND                                  *)
QuerySuspend ==
  /\ Handling /\ ~asleep
  /\ asleep' = TRUE
  /\ gameSuspended' = (gameSuspended \/ ~inSuspend)
  /\ inSuspend' = TRUE
  /\ UNCHANGED <<graphicsVars, inSizemove, minimized, fullscreen, windowSize, unseen>>

(* PBT_APMRESUMESUSPEND: a minimized window stays suspended.               *)
ResumeSuspend ==
  /\ Handling /\ asleep
  /\ asleep' = FALSE
  /\ gameSuspended' = (gameSuspended /\ (minimized \/ ~inSuspend))
  /\ inSuspend' = (inSuspend /\ minimized)
  /\ UNCHANGED <<graphicsVars, inSizemove, minimized, fullscreen, windowSize, unseen>>

-----------------------------------------------------------------------------
(* A turn of Run without a message, and the end of the frame it begins.    *)
BeginFrame ==
  /\ ~inSizemove
  /\ Prepare
  /\ UNCHANGED windowVars

EndFrame == Present /\ UNCHANGED windowVars

(* WM_CLOSE, WM_DESTROY, WM_QUIT: Run returns and Shutdown follows.        *)
Close ==
  /\ ~inSizemove
  /\ BeginShutdown
  /\ UNCHANGED windowVars

ClientNext ==
  \/ \E shownMinimized \in BOOLEAN, shownSize \in Sizes : Startup(shownMinimized, shownSize)
  \/ Minimize \/ BeginDrag \/ EndDrag \/ QuerySuspend \/ ResumeSuspend
  \/ \E size \in Sizes :
       Restore(size) \/ SizeTo(size) \/ DragTo(size) \/ ToggleFullscreen(size)
  \/ BeginFrame \/ EndFrame \/ Close
  \/ (Resume \/ Gpu) /\ UNCHANGED windowVars

ClientSpec == ClientInit /\ [][ClientNext]_clientVars

(* The GPU works on as long as it has work and its device, and a wait that *)
(* may end does end: the system wakes the thread.                          *)
ClientFairness ==
  /\ WF_clientVars(GpuStep /\ UNCHANGED windowVars)
  /\ WF_clientVars(Resume /\ UNCHANGED windowVars)

FairClientSpec == ClientSpec /\ ClientFairness

-----------------------------------------------------------------------------
(* Whenever no drag is going on the back buffers have the size of the      *)
(* window, however resizes, drags, lost devices and minimizing follow each *)
(* other; but for the two sizes WndProc drops, of a window shown before    *)
(* there is a game (NeuronClient.cpp:76, 220) and of one restored (:213),  *)
(* and those only until a size is passed on again.                         *)
OutputFollowsWindow ==
  cpu \in {"Loop", "Record"} /\ ~inSizemove /\ ~unseen => outputSize = windowSize

(* The game is never left suspended without a reason, a minimized window   *)
(* or a sleeping system, whichever began or ended first.                   *)
NeverLeftSuspended ==
  inSuspend \/ gameSuspended => minimized \/ asleep

(* Run is never stuck at the fence: every wait ends, be it by the GPU or   *)
(* by the loss of its device.                                              *)
WaitsEnd == cpu \in Waits ~> cpu \notin Waits

(* The assertion of DescriptorHeap::Alloc, "Descriptor Heap out of space": *)
(* the window's views fit the heaps made for them.                         *)
HeapsSuffice == rtvTaken <= BackBufferCount /\ dsvTaken <= 1
=============================================================================
