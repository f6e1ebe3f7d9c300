----------------------------- MODULE ClientFrame -----------------------------
(***************************************************************************)
(* From the keyboard, the mouse and the clock to what a frame of the       *)
(* client does: the messages InputSystem hears through WndProcManager, and *)
(* ClientEngine::Run's frame, Timer::Core::Update and GameApp::Update.     *)
(* Run handles every waiting message before it draws a frame and none      *)
(* during one, so a message is handled when it is sent, between frames.    *)
(* Of Update the model keeps the order: what the mouse gathered is reset,  *)
(* the commands are sent, and then the camera is updated.                  *)
(*                                                                         *)
(* The keyboard has a state of its own.  While another window has the      *)
(* focus no message comes, and while ALT is held a key sends WM_SYSKEYDOWN *)
(* and WM_SYSKEYUP, which processMessage does not know.                    *)
(*                                                                         *)
(* Of the four movement keys the model has the two of one axis; mouse      *)
(* position, capture, touch, panning, interpolation and the frame rate     *)
(* display are left out, and SnapshotFeed has the network part of Update.  *)
(***************************************************************************)
EXTENDS Integers, Sequences, FiniteSetsExt

CONSTANTS
  Keys,            \* of the keyboard: some of "W", "S", "R" and "M"
  Frequency,       \* QueryPerformanceFrequency
  TicksPerSecond,  \* 10 million in the code
  MIN_ZOOM, MAX_ZOOM, InitialZoom,  \* Camera's, in notches of the wheel
  Delays,          \* the time that may pass at once
  MaxTime,         \* bound: time that passes
  MaxFrames,       \* bound: frames
  MaxClicks,       \* bound: clicks
  MaxWheel         \* bound: notches the wheel is turned between two frames

MaxDelta == Frequency \div 10   \* m_qpcMaxDelta

ASSUME FrameAssumption ==
  /\ Frequency \in Nat \ {0} /\ TicksPerSecond \in Nat \ {0}
  /\ MIN_ZOOM \in Int /\ MAX_ZOOM \in Int /\ InitialZoom \in MIN_ZOOM .. MAX_ZOOM
  /\ Delays \subseteq Nat
  /\ MaxTime \in Nat /\ MaxFrames \in Nat /\ MaxClicks \in Nat /\ MaxWheel \in Nat

VARIABLES
  focus,      \* the window has the focus
  alt,        \* ALT is held
  held,       \* keys held down on the keyboard
  unheard,    \* history: keys whose last press or release sent no message
  handlers,   \* WndProcManager::sm_wndProcs
  keysDown,   \* InputSystem::m_keysDown
  wheel,      \* m_wheelDelta
  pending,    \* m_pendingCommands
  connected,  \* m_socket.isConnected()
  updating,   \* Update has sent the commands; the camera is next
  zoom,       \* Camera::m_zoom
  turned,     \* history: notches heard since the camera's last update
  clicks,     \* history: left clicks the window heard
  sentClicks, \* history: the clicks among the commands sent, in order
  harvest,    \* history: the commands of the last frame
  now,        \* the performance counter, from 0
  last,       \* m_qpcLastTime
  elapsed,    \* m_elapsedTicks
  total,      \* m_totalTicks
  frames,     \* m_frameCount
  skipped     \* history: time not to be counted, clamped or suspended

keyboardVars == <<focus, alt, held, unheard>>
inputVars    == <<handlers, keysDown, wheel, pending>>
sendVars     == <<connected, clicks, sentClicks, harvest>>
cameraVars   == <<updating, zoom, turned>>
clockVars    == <<now, last, elapsed, total, frames, skipped>>
frameVars    == <<keyboardVars, inputVars, sendVars, cameraVars, clockVars>>

(* A click's number stands for its place on the screen.                    *)
Order(action, target, click) == [action |-> action, target |-> target, click |-> click]
Click(n) == Order("Move", 0, n)

-----------------------------------------------------------------------------
FrameInit ==
  /\ focus = TRUE /\ alt = FALSE /\ held = {} /\ unheard = {}
  /\ handlers = <<>> /\ keysDown = {} /\ wheel = 0 /\ pending = <<>>
  /\ connected \in BOOLEAN /\ updating = FALSE /\ zoom = InitialZoom /\ turned = 0
  /\ clicks = 0 /\ sentClicks = <<>> /\ harvest = <<>>
  /\ now = 0 /\ last = 0 /\ elapsed = 0 /\ total = 0 /\ frames = 0 /\ skipped = 0

(* GameApp's constructor adds its WndProc to the list and its destructor   *)
(* takes it out again; the calls of handlers end with GameApp's, which     *)
(* answers -1 like every other one would have to.                          *)
AddWndProc ==
  /\ handlers = <<>> /\ frames = 0
  /\ handlers' = <<"GameApp">>
  /\ UNCHANGED <<keyboardVars, keysDown, wheel, pending, sendVars, cameraVars, clockVars>>

RemoveWndProc ==
  /\ frames > 0
  /\ handlers' = SelectSeq(handlers, LAMBDA h : h # "GameApp")
  /\ UNCHANGED <<keyboardVars, keysDown, wheel, pending, sendVars, cameraVars, clockVars>>

Dispatched == \E i \in DOMAIN handlers : handlers[i] = "GameApp"

HearsKeys  == Dispatched /\ focus /\ ~alt
HearsMouse == Dispatched /\ focus

Heard(k) == IF HearsKeys THEN unheard \ {k} ELSE unheard \cup {k}

(* WM_KEYDOWN, the first and those a key held down repeats                 *)
Press(k) ==
  /\ k \notin held
  /\ held' = held \cup {k}
  /\ unheard' = Heard(k)
  /\ keysDown' = IF HearsKeys THEN keysDown \cup {k} ELSE keysDown
  /\ UNCHANGED <<focus, alt, handlers, wheel, pending, sendVars, cameraVars, clockVars>>

Repeat(k) ==
  /\ k \in held /\ HearsKeys
  /\ unheard' = Heard(k)
  /\ keysDown' = keysDown \cup {k}
  /\ UNCHANGED <<focus, alt, held, handlers, wheel, pending, sendVars, cameraVars, clockVars>>

(* Mutant: the release of any key counts for all.                          *)
AfterKeyUp_All(k) == {}

AfterKeyUp(k) == keysDown \ {k}

(* WM_KEYUP                                                                *)
Release(k) ==
  /\ k \in held
  /\ held' = held \ {k}
  /\ unheard' = Heard(k)
  /\ keysDown' = IF HearsKeys THEN AfterKeyUp(k) ELSE keysDown
  /\ UNCHANGED <<focus, alt, handlers, wheel, pending, sendVars, cameraVars, clockVars>>

SwitchWindow ==
  /\ focus' = ~focus
  /\ UNCHANGED <<alt, held, unheard, inputVars, sendVars, cameraVars, clockVars>>

PressOrReleaseAlt ==
  /\ alt' = ~alt
  /\ UNCHANGED <<focus, held, unheard, inputVars, sendVars, cameraVars, clockVars>>

(* WM_LBUTTONDOWN                                                          *)
LeftClick ==
  /\ HearsMouse /\ clicks < MaxClicks
  /\ clicks' = clicks + 1
  /\ pending' = Append(pending, Click(clicks + 1))
  /\ UNCHANGED <<keyboardVars, handlers, keysDown, wheel, connected, sentClicks, harvest,
                 cameraVars, clockVars>>

(* WM_MOUSEWHEEL                                                           *)
TurnWheel(delta) ==
  /\ HearsMouse /\ turned + delta \in -MaxWheel .. MaxWheel
  /\ wheel' = wheel + delta
  /\ turned' = turned + delta
  /\ UNCHANGED <<keyboardVars, handlers, keysDown, pending, sendVars, updating, zoom,
                 clockVars>>

PassTime(d) ==
  /\ now + d <= MaxTime
  /\ now' = now + d
  /\ UNCHANGED <<keyboardVars, inputVars, sendVars, cameraVars, last, elapsed, total, frames,
                 skipped>>

-----------------------------------------------------------------------------
(* Mutant: a long frame is counted in full.                                *)
Counted_InFull(delta) == delta

(* A frame counts a tenth of a second at most.                             *)
Counted(delta) == IF delta > MaxDelta THEN MaxDelta ELSE delta

(* Timer::Core::Update                                                     *)
UpdateTimer ==
  LET counted == Counted(now - last)
      ticks   == (counted * TicksPerSecond) \div Frequency
  IN  /\ last' = now
      /\ elapsed' = ticks /\ total' = total + ticks /\ frames' = frames + 1
      /\ skipped' = skipped + (now - last - counted)
      /\ UNCHANGED now

(* Timer::Core::ResetElapsedTime, when the game is resumed                 *)
ResetElapsedTime ==
  /\ skipped' = skipped + (now - last)
  /\ last' = now
  /\ UNCHANGED <<keyboardVars, inputVars, sendVars, cameraVars, now, elapsed, total, frames>>

(* What getPendingCommands adds to the clicks for the keys that are down   *)
Direction(keys) == (IF "W" \in keys THEN 1 ELSE 0) - (IF "S" \in keys THEN 1 ELSE 0)

OrdersFor(keys) ==
     (IF keys \cap {"W", "S"} # {} THEN <<Order("Move", Direction(keys), 0)>> ELSE <<>>)
  \o (IF "R" \in keys THEN <<Order("Attack", 0, 0)>> ELSE <<>>)
  \o (IF "M" \in keys THEN <<Order("Mine", 0, 0)>> ELSE <<>>)

(* Mutant: the result is a copy of the queue.                              *)
PendingAfter_Copied(commands) == commands

(* m_pendingCommands when getPendingCommands has moved it out              *)
PendingAfter(commands) == <<>>

(* Camera::update's zoom                                                   *)
Zoomed(delta) == Min({MAX_ZOOM, Max({MIN_ZOOM, zoom + delta})})

(* A frame of Run: the timer, then GameApp::Update as far as the commands. *)
Frame ==
  LET commands == pending \o OrdersFor(keysDown)
  IN  /\ Dispatched /\ frames < MaxFrames
      /\ UpdateTimer
      /\ wheel' = 0                                            \* resetFrame
      /\ harvest' = commands                                   \* getPendingCommands
      /\ pending' = PendingAfter(commands)
      /\ sentClicks' = IF connected THEN sentClicks \o pending ELSE sentClicks
      /\ updating' = TRUE
      /\ UNCHANGED <<keyboardVars, handlers, keysDown, connected, clicks, zoom, turned>>

(* The rest of Update: the camera, with the wheel's deltas                 *)
UpdateCamera ==
  /\ zoom' = Zoomed(wheel)
  /\ turned' = 0
  /\ updating' = FALSE
  /\ UNCHANGED <<keyboardVars, inputVars, sendVars, clockVars>>

HandleMessage ==
  \/ AddWndProc \/ RemoveWndProc
  \/ \E k \in Keys : Press(k) \/ Repeat(k) \/ Release(k)
  \/ SwitchWindow \/ PressOrReleaseAlt \/ LeftClick
  \/ \E delta \in {-1, 1} : TurnWheel(delta)
  \/ ResetElapsedTime

FrameNext ==
  \/ ~updating /\ (HandleMessage \/ Frame)
  \/ updating /\ UpdateCamera
  \/ \E d \in Delays : PassTime(d)

FrameSpec == FrameInit /\ [][FrameNext]_frameVars

-----------------------------------------------------------------------------
(* With a connection every click is sent once and in order, however frames *)
(* and clicks alternate (InputSystem.cpp:40-52, 98-104).                   *)
ClicksSentOnce ==
  connected => sentClicks \o pending = [n \in 1 .. clicks |-> Click(n)]

(* A frame gives, after the clicks, the orders of the keys the player is   *)
(* holding and no others, unless the message of a press or release went    *)
(* elsewhere or came as WM_SYSKEY...: then a key goes on commanding until  *)
(* it is pressed and released again (InputSystem.cpp:13-21, 60-97).        *)
OrdersFollowKeys ==
  [][Frame /\ unheard = {} =>
       \E n \in 0 .. Len(harvest') :
         /\ \A i \in 1 .. n : harvest'[i].click # 0
         /\ SubSeq(harvest', n + 1, Len(harvest')) = OrdersFor(held)]_frameVars

(* StarStrike.md:288 has the mouse wheel zoom: an update of the camera     *)
(* follows what the wheel was turned since the last one.  It does not:     *)
(* Update resets the deltas before it hands them to the camera             *)
(* (GameApp.cpp:86, 125).                                                  *)
WheelZooms == [][UpdateCamera => zoom' = Zoomed(turned)]_frameVars

(* The game's clock follows the performance counter, less what is clamped  *)
(* or suspended, and falls behind by less than a tick a frame; no frame    *)
(* lasts longer than a tenth of a second (TimerCore.h:43-80).              *)
ClockKeepsTime ==
  LET behind == (last - skipped) * TicksPerSecond - total * Frequency
  IN  /\ 0 <= behind /\ behind <= frames * (Frequency - 1)
      /\ elapsed * 10 <= TicksPerSecond
=============================================================================
