----------------------------- MODULE GameAppProofs -----------------------------
(***************************************************************************)
(* The two halves of GameApp::Update: from keyboard, mouse and clock to    *)
(* commands, and from the socket to what the cache shows.  For  *)
(* any keys, clicks, delays and frequencies, and for any entities, losses, *)
(* copies and delays of snapshots.                                         *)
(***************************************************************************)
EXTENDS SnapshotFeed, ClientFrame, SequenceTheorems, TLAPS

-----------------------------------------------------------------------------
(* Input, clock and camera.  ClicksSentOnce needs to know only that the    *)
(* two sequences hold clicks.                                              *)
Clicks == {Click(n) : n \in Nat \ {0}}

ClickIInv ==
  /\ connected \in BOOLEAN /\ clicks \in Nat
  /\ pending \in Seq(Clicks) /\ sentClicks \in Seq(Clicks)
  /\ ClicksSentOnce

(* What InputSystem believes of the keys it has heard of.                  *)
KeysIInv ==
  /\ held \subseteq Keys /\ keysDown \subseteq Keys
  /\ \A k \in Keys : k \notin unheard => (k \in keysDown <=> k \in held)

(* ClockKeepsTime, with the types and the order of the counter's values.   *)
ClockIInv ==
  /\ now \in Nat /\ last \in Nat /\ skipped \in Nat /\ frames \in Nat
  /\ elapsed \in Nat /\ total \in Nat
  /\ last <= now
  /\ ClockKeepsTime

FrameIInv == ClickIInv /\ KeysIInv /\ ClockIInv

-----------------------------------------------------------------------------
(* A click joins a row of clicks that is complete so far.                  *)
LEMMA NextClick ==
  ASSUME NEW n \in Nat, NEW row, row = [k \in 1 .. n |-> Click(k)]
  PROVE  /\ row \in Seq(Clicks)
         /\ Append(row, Click(n + 1)) = [k \in 1 .. n + 1 |-> Click(k)]
  <1>1. \A k \in Nat \ {0} : Click(k) \in Clicks
    BY DEF Clicks
  <1> HIDE DEF Clicks
  <1>2. row \in Seq(Clicks)
    BY <1>1
  <1>3. [k \in 1 .. n + 1 |-> Click(k)] \in Seq(Clicks) /\ Append(row, Click(n + 1)) \in Seq(Clicks)
    BY <1>1, <1>2, AppendProperties
  <1>4. /\ Len(row) = n /\ Len([k \in 1 .. n + 1 |-> Click(k)]) = n + 1
        /\ Len(Append(row, Click(n + 1))) = n + 1
    BY <1>1, <1>2, AppendProperties
  <1>5. ASSUME NEW k \in 1 .. n + 1
        PROVE  Append(row, Click(n + 1))[k] = [j \in 1 .. n + 1 |-> Click(j)][k]
    BY <1>1, <1>2, <1>4, AppendProperties
  <1> QED
    BY <1>2, <1>3, <1>4, <1>5, SeqEqual

LEMMA LeftClickCounts ==
  ASSUME ClickIInv, LeftClick
  PROVE  ClickIInv'
  <1>1. /\ clicks' = clicks + 1 /\ pending' = Append(pending, Click(clicks + 1))
        /\ connected' = connected /\ sentClicks' = sentClicks
    BY DEF LeftClick
  <1>2. /\ clicks \in Nat /\ Click(clicks + 1) \in Clicks
        /\ pending \in Seq(Clicks) /\ sentClicks \in Seq(Clicks)
    BY DEF ClickIInv, Clicks
  <1>3. /\ clicks' \in Nat /\ pending' \in Seq(Clicks) /\ sentClicks' \in Seq(Clicks)
    BY <1>1, <1>2, AppendProperties
  <1>4. ASSUME connected
        PROVE  sentClicks' \o pending' = [n \in 1 .. clicks' |-> Click(n)]
    <2> DEFINE new == Click(clicks + 1)
    <2>1. sentClicks \o pending = [n \in 1 .. clicks |-> Click(n)]
      BY <1>4 DEF ClickIInv, ClicksSentOnce
    <2>2. Append(sentClicks \o pending, new) = [n \in 1 .. clicks + 1 |-> Click(n)]
      BY <1>2, <2>1, NextClick
    <2> HIDE DEF new
    <2>3. /\ new \in Clicks /\ <<new>> \in Seq(Clicks)
          /\ sentClicks \o pending \in Seq(Clicks)
      BY <1>2, ConcatProperties DEF new
    <2>4. /\ Append(sentClicks \o pending, new) = (sentClicks \o pending) \o <<new>>
          /\ Append(pending, new) = pending \o <<new>>
      BY <1>2, <2>3, AppendIsConcat
    <2>5. (sentClicks \o pending) \o <<new>> = sentClicks \o (pending \o <<new>>)
      BY <1>2, <2>3, ConcatAssociative
    <2> QED
      BY <1>1, <2>2, <2>4, <2>5 DEF new
  <1> QED
    BY <1>1, <1>3, <1>4 DEF ClickIInv, ClicksSentOnce

LEMMA FrameSendsClicks ==
  ASSUME ClickIInv, Frame
  PROVE  ClickIInv'
  <1>1. /\ clicks' = clicks /\ connected' = connected /\ pending' = <<>>
        /\ sentClicks' = IF connected THEN sentClicks \o pending ELSE sentClicks
    BY DEF Frame, PendingAfter
  <1>2. pending \in Seq(Clicks) /\ sentClicks \in Seq(Clicks) /\ clicks \in Nat
    BY DEF ClickIInv
  <1>3. pending' \in Seq(Clicks) /\ sentClicks' \in Seq(Clicks)
    BY <1>1, <1>2, ConcatProperties
  <1>4. sentClicks' \o pending' = sentClicks'
    BY <1>1, <1>3, ConcatEmptySeq
  <1> QED
    BY <1>1, <1>2, <1>3, <1>4 DEF ClickIInv, ClicksSentOnce

(* The orders for the keys stand after the clicks.                         *)
LEMMA OrdersFollow ==
  ASSUME ClickIInv, KeysIInv, Frame, unheard = {}
  PROVE  \E n \in 0 .. Len(harvest') :
           /\ \A i \in 1 .. n : harvest'[i].click # 0
           /\ SubSeq(harvest', n + 1, Len(harvest')) = OrdersFor(held)
  <1> DEFINE S == Clicks \cup {Order(a, t, 0) : a \in {"Move", "Attack", "Mine"}, t \in Int}
             n == Len(pending)
             orders == OrdersFor(held)
  <1>1. keysDown = held
    BY DEF KeysIInv
  <1>2. harvest' = pending \o orders
    BY <1>1 DEF Frame
  <1>3. pending \in Seq(Clicks) /\ \A i \in 1 .. n : pending[i] \in Clicks
    BY ElementOfSeq DEF ClickIInv
  <1>4. orders \in Seq(S)
    <2> DEFINE T == {Order(a, t, 0) : a \in {"Move", "Attack", "Mine"}, t \in Int}
    <2>1. /\ Order("Move", Direction(held), 0) \in T
          /\ Order("Attack", 0, 0) \in T /\ Order("Mine", 0, 0) \in T
      BY DEF Direction
    <2> HIDE DEF T
    <2>2. /\ <<>> \in Seq(T) /\ <<Order("Move", Direction(held), 0)>> \in Seq(T)
          /\ <<Order("Attack", 0, 0)>> \in Seq(T) /\ <<Order("Mine", 0, 0)>> \in Seq(T)
      BY <2>1
    <2>3. orders \in Seq(T)
      BY <2>2, ConcatProperties DEF OrdersFor
    <2> QED
      BY <2>3, SeqMonotonic DEF T
  <1>5. \A c \in Clicks : c.click # 0
    BY DEF Clicks, Click, Order
  <1>6. pending \in Seq(S)
    BY <1>3, SeqMonotonic
  <1> HIDE DEF S, orders
  <1>7. /\ n \in Nat /\ Len(orders) \in Nat /\ Len(harvest') = n + Len(orders)
        /\ \A i \in 1 .. n : harvest'[i] = pending[i]
        /\ \A i \in 1 .. Len(orders) : harvest'[n + i] = orders[i]
        /\ \A i \in 1 .. Len(orders) : orders[i] \in S
    BY <1>2, <1>4, <1>6
  <1>8. SubSeq(harvest', n + 1, Len(harvest')) = orders
    <2>1. \A i \in n + 1 .. Len(harvest') : harvest'[i] \in S
      BY <1>7
    <2> DEFINE rest == SubSeq(harvest', n + 1, Len(harvest'))
    <2>2. /\ rest \in Seq(S) /\ Len(rest) = Len(orders)
          /\ \A i \in 1 .. Len(orders) : rest[i] = harvest'[n + 1 + i - 1]
      BY <1>7, <2>1, SubSeqProperties
    <2> HIDE DEF rest
    <2>3. \A i \in 1 .. Len(orders) : rest[i] = orders[i]
      BY <1>7, <2>2
    <2> QED
      BY <1>4, <2>2, <2>3, SeqEqual DEF rest
  <1>9. n \in 0 .. Len(harvest') /\ \A i \in 1 .. n : harvest'[i].click # 0
    BY <1>3, <1>5, <1>7
  <1> QED
    BY <1>8, <1>9 DEF orders

LEMMA KeysHeard ==
  ASSUME KeysIInv, NEW k \in Keys, Press(k) \/ Repeat(k) \/ Release(k)
  PROVE  KeysIInv'
  <1> USE DEF KeysIInv, Heard
  <1>1. CASE Press(k)
    BY <1>1 DEF Press
  <1>2. CASE Repeat(k)
    BY <1>2 DEF Repeat
  <1>3. CASE Release(k)
    BY <1>3 DEF Release, AfterKeyUp
  <1> QED
    BY <1>1, <1>2, <1>3

-----------------------------------------------------------------------------
(* A frame that counts c of the counter falls behind by less than a tick,  *)
(* and one that counts a tenth of a second at most lasts no longer.        *)
LEMMA TickLoss ==
  ASSUME NEW c \in Nat, NEW t \in Nat
  PROVE  /\ (c * t) \div Frequency \in Nat
         /\ c * t - ((c * t) \div Frequency) * Frequency \in 0 .. Frequency - 1
         /\ c <= MaxDelta => ((c * t) \div Frequency) * 10 <= t
  <1>1. Frequency \in Nat \ {0}
    BY FrameAssumption
  <1> DEFINE p == c * t
             q == p \div Frequency
  <1>2. p \in Nat
    BY <1>1
  <1>3. q \in Nat /\ p - q * Frequency \in 0 .. Frequency - 1
    <2> HIDE DEF p
    <2> QED
      BY <1>1, <1>2
  <1>4. ASSUME c <= MaxDelta
        PROVE  q * 10 <= t
    <2>1. c * 10 <= Frequency
      BY <1>1, <1>4 DEF MaxDelta
    <2>2. (c * 10) * t <= Frequency * t
      BY <1>1, <2>1
    <2>3. q * Frequency <= p
      BY <1>1, <1>2, <1>3
    <2>4. (q * 10) * Frequency <= t * Frequency
      <3>1. (c * 10) * t = p * 10 /\ (q * 10) * Frequency = (q * Frequency) * 10
        BY <1>1, <1>3
      <3> HIDE DEF p, q
      <3> QED
        BY <1>1, <1>2, <1>3, <2>2, <2>3, <3>1
    <2> HIDE DEF p, q
    <2> QED
      BY <1>1, <1>3, <2>4
  <1> QED
    BY <1>3, <1>4

LEMMA ClockTicks ==
  ASSUME ClockIInv, UpdateTimer
  PROVE  ClockIInv'
  <1> DEFINE c == Counted(now - last)
             ticks == (c * TicksPerSecond) \div Frequency
  <1>1. /\ now \in Nat /\ last \in Nat /\ skipped \in Nat /\ frames \in Nat /\ total \in Nat
        /\ last <= now /\ TicksPerSecond \in Nat /\ Frequency \in Nat \ {0}
    BY FrameAssumption DEF ClockIInv
  <1>2. c \in Nat /\ c <= now - last /\ c <= MaxDelta
    BY <1>1 DEF Counted, MaxDelta
  <1>3. /\ ticks \in Nat /\ c * TicksPerSecond - ticks * Frequency \in 0 .. Frequency - 1
        /\ ticks * 10 <= TicksPerSecond
    BY <1>1, <1>2, TickLoss
  <1>4. /\ last' = now /\ now' = now /\ elapsed' = ticks /\ total' = total + ticks
        /\ frames' = frames + 1 /\ skipped' = skipped + (now - last - c)
    BY DEF UpdateTimer
  <1> HIDE DEF c, ticks
  <1>5. last' - skipped' = (last - skipped) + c /\ c * TicksPerSecond \in Nat
    BY <1>1, <1>2, <1>4
  <1>6. /\ (last' - skipped') * TicksPerSecond = (last - skipped) * TicksPerSecond + c * TicksPerSecond
        /\ total' * Frequency = total * Frequency + ticks * Frequency
        /\ frames' * (Frequency - 1) = frames * (Frequency - 1) + (Frequency - 1)
    BY <1>1, <1>2, <1>3, <1>4, <1>5
  <1> DEFINE behind == (last - skipped) * TicksPerSecond - total * Frequency
             loss   == c * TicksPerSecond - ticks * Frequency
  <1>7. /\ behind \in Int /\ 0 <= behind /\ behind <= frames * (Frequency - 1)
        /\ frames * (Frequency - 1) \in Int /\ Frequency \in Int
        /\ behind' = behind + loss /\ loss \in 0 .. Frequency - 1
    BY <1>1, <1>2, <1>3, <1>5, <1>6 DEF ClockIInv, ClockKeepsTime
  <1>8. ClockKeepsTime'
    <2>1. 0 <= behind' /\ behind' <= frames' * (Frequency - 1)
      <3> HIDE DEF behind, loss
      <3> QED
        BY <1>6, <1>7
    <2> QED
      BY <1>3, <1>4, <2>1 DEF ClockKeepsTime
  <1> QED
    BY <1>1, <1>2, <1>3, <1>4, <1>8 DEF ClockIInv

LEMMA InitFrameIInv ==
  ASSUME FrameInit
  PROVE  FrameIInv
  <1>1. ClickIInv
    <2>1. <<>> \in Seq(Clicks) /\ <<>> \o <<>> = <<>>
      BY EmptySeq, ConcatEmptySeq
    <2>2. [n \in 1 .. 0 |-> Click(n)] = <<>>
      OBVIOUS
    <2> QED
      BY <2>1, <2>2 DEF FrameInit, ClickIInv, ClicksSentOnce
  <1>2. KeysIInv
    BY DEF FrameInit, KeysIInv
  <1>3. ClockIInv
    BY FrameAssumption DEF FrameInit, ClockIInv, ClockKeepsTime
  <1> QED
    BY <1>1, <1>2, <1>3 DEF FrameIInv

(* What most actions leave alone.                                          *)
LEMMA RestKept ==
  ASSUME FrameIInv
  PROVE  /\ UNCHANGED <<connected, clicks, pending, sentClicks>> => ClickIInv'
         /\ UNCHANGED <<held, keysDown, unheard>> => KeysIInv'
         /\ UNCHANGED clockVars => ClockIInv'
  <1>1. ASSUME UNCHANGED <<connected, clicks, pending, sentClicks>>
        PROVE  ClickIInv'
    BY <1>1 DEF FrameIInv, ClickIInv, ClicksSentOnce
  <1>2. ASSUME UNCHANGED <<held, keysDown, unheard>>
        PROVE  KeysIInv'
    BY <1>2 DEF FrameIInv, KeysIInv
  <1>3. ASSUME UNCHANGED clockVars
        PROVE  ClockIInv'
    BY <1>3 DEF FrameIInv, ClockIInv, ClockKeepsTime, clockVars
  <1> QED
    BY <1>1, <1>2, <1>3

LEMMA FrameNextPreserves == FrameIInv /\ [FrameNext]_frameVars => FrameIInv'
  <1> SUFFICES ASSUME FrameIInv, [FrameNext]_frameVars
               PROVE  FrameIInv'
    OBVIOUS
  <1> USE DEF keyboardVars, inputVars, sendVars
  <1>1. CASE UNCHANGED frameVars
    BY <1>1, RestKept DEF frameVars, clockVars, FrameIInv
  <1>2. CASE AddWndProc \/ RemoveWndProc
    <2>1. UNCHANGED <<keyboardVars, keysDown, wheel, pending, sendVars, cameraVars, clockVars>>
      BY <1>2 DEF AddWndProc, RemoveWndProc
    <2> QED
      BY <2>1, RestKept DEF FrameIInv
  <1>3. ASSUME NEW k \in Keys, Press(k) \/ Repeat(k) \/ Release(k)
        PROVE  FrameIInv'
    <2>1. KeysIInv'
      BY <1>3, KeysHeard DEF FrameIInv
    <2>2. UNCHANGED <<pending, sendVars, cameraVars, clockVars>>
      BY <1>3 DEF Press, Repeat, Release
    <2> QED
      BY <2>1, <2>2, RestKept DEF FrameIInv
  <1>4. CASE SwitchWindow \/ PressOrReleaseAlt
    <2>1. UNCHANGED <<held, unheard, inputVars, sendVars, cameraVars, clockVars>>
      BY <1>4 DEF SwitchWindow, PressOrReleaseAlt
    <2> QED
      BY <2>1, RestKept DEF FrameIInv
  <1>5. CASE LeftClick
    <2>1. ClickIInv'
      BY <1>5, LeftClickCounts DEF FrameIInv
    <2>2. UNCHANGED <<keyboardVars, keysDown, clockVars>>
      BY <1>5 DEF LeftClick
    <2> QED
      BY <2>1, <2>2, RestKept DEF FrameIInv
  <1>6. ASSUME NEW delta, TurnWheel(delta)
        PROVE  FrameIInv'
    <2>1. UNCHANGED <<keyboardVars, keysDown, pending, sendVars, clockVars>>
      BY <1>6 DEF TurnWheel
    <2> QED
      BY <2>1, RestKept DEF FrameIInv
  <1>7. ASSUME NEW d \in Delays, PassTime(d)
        PROVE  FrameIInv'
    <2>1. /\ UNCHANGED <<keyboardVars, inputVars, sendVars, last, elapsed, total, frames, skipped>>
          /\ now' = now + d
      BY <1>7 DEF PassTime
    <2>2. d \in Nat
      BY FrameAssumption
    <2>3. ClockIInv'
      BY <2>1, <2>2 DEF FrameIInv, ClockIInv, ClockKeepsTime
    <2> QED
      BY <2>1, <2>3, RestKept DEF FrameIInv
  <1>8. CASE ResetElapsedTime
    <2>1. /\ UNCHANGED <<keyboardVars, inputVars, sendVars, now, elapsed, total, frames>>
          /\ skipped' = skipped + (now - last) /\ last' = now
      BY <1>8 DEF ResetElapsedTime
    <2>2. ClockIInv'
      <3>1. /\ last' - skipped' = last - skipped
            /\ last' \in Nat /\ skipped' \in Nat /\ last' <= now'
        BY <2>1 DEF FrameIInv, ClockIInv
      <3> QED
        BY <2>1, <3>1 DEF FrameIInv, ClockIInv, ClockKeepsTime
    <2> QED
      BY <2>1, <2>2, RestKept DEF FrameIInv
  <1>9. CASE Frame
    <2>1. ClickIInv'
      BY <1>9, FrameSendsClicks DEF FrameIInv
    <2>2. UNCHANGED keyboardVars /\ UNCHANGED keysDown /\ UpdateTimer
      BY <1>9 DEF Frame
    <2>3. ClockIInv'
      BY <2>2, ClockTicks DEF FrameIInv
    <2> QED
      BY <2>1, <2>2, <2>3, RestKept DEF FrameIInv
  <1>10. CASE UpdateCamera
    <2>1. UNCHANGED <<keyboardVars, inputVars, sendVars, clockVars>>
      BY <1>10 DEF UpdateCamera
    <2> QED
      BY <2>1, RestKept DEF FrameIInv
  <1> QED
    BY <1>1, <1>2, <1>3, <1>4, <1>5, <1>6, <1>7, <1>8, <1>9, <1>10 DEF FrameNext, HandleMessage

(* The inductive invariant of a frame's input side                         *)
THEOREM FrameInvariant == FrameSpec => []FrameIInv
  <1>1. FrameInit => FrameIInv
    BY InitFrameIInv
  <1> QED
    BY <1>1, FrameNextPreserves, PTL DEF FrameSpec

(* However frames and clicks alternate, a connected client sends every     *)
(* click once and in order (InputSystem.cpp:40-52, 98-104).                *)
THEOREM ClicksAreSentOnce == FrameSpec => []ClicksSentOnce
  <1>1. FrameIInv => ClicksSentOnce
    BY DEF FrameIInv, ClickIInv
  <1> QED
    BY <1>1, FrameInvariant, PTL

(* The clock falls behind the counter by less than a tick a frame and      *)
(* gives no frame more than a tenth of a second, for any frequency         *)
(* (TimerCore.h:43-80).                                                    *)
THEOREM ClockIsKept == FrameSpec => []ClockKeepsTime
  <1>1. FrameIInv => ClockKeepsTime
    BY DEF FrameIInv, ClockIInv
  <1> QED
    BY <1>1, FrameInvariant, PTL

(* A frame orders what the keys held say, if all of them were heard        *)
(* (InputSystem.cpp:60-97).                                                *)
THEOREM KeysAreObeyed == FrameSpec => OrdersFollowKeys
  <1>1. FrameIInv /\ [FrameNext]_frameVars =>
          [Frame /\ unheard = {} =>
             \E n \in 0 .. Len(harvest') :
               /\ \A i \in 1 .. n : harvest'[i].click # 0
               /\ SubSeq(harvest', n + 1, Len(harvest')) = OrdersFor(held)]_frameVars
    BY OrdersFollow DEF FrameIInv
  <1> QED
    BY <1>1, FrameInvariant, PTL DEF FrameSpec, OrdersFollowKeys

-----------------------------------------------------------------------------
(* Snapshots.  An entity's last holder is named, instead of asked for as   *)
(* the greatest of a set; its place in the cache is a number, so that the  *)
(* way there can be added to where it comes from.                          *)
HoldsIt(i, id) == id \in DOMAIN published[applied[i]].position

LastHolder(i, id) ==
  /\ i \in DOMAIN applied /\ HoldsIt(i, id)
  /\ \A j \in DOMAIN applied : HoldsIt(j, id) => j <= i

ShownAs(ce, snap, id) ==
  /\ ce \in ClientEntity
  /\ ce.lastSnapshotTick = snap.serverTick
  /\ ce.targetPos = snap.position[id]
  /\ drainLeft = MAX_RECV_PER_FRAME => ce.pos = snap.position[id]

FeedTyped ==
  /\ published \in Seq(Snapshots)
  /\ applied \in Seq(1 .. Len(published))
  /\ inbox \in Seq(-1 .. Len(published))
  /\ drainLeft \in 0 .. MAX_RECV_PER_FRAME

CacheShows ==
  \A id \in EntityIds :
    /\ (\A i \in DOMAIN applied : ~HoldsIt(i, id)) => id \notin DOMAIN cache
    /\ (\E i \in DOMAIN applied : HoldsIt(i, id)) =>
         /\ id \in DOMAIN cache
         /\ \E i \in DOMAIN applied :
              LastHolder(i, id) /\ ShownAs(cache[id], published[applied[i]], id)

FeedIInv == FeedTyped /\ DOMAIN cache \subseteq EntityIds /\ CacheShows

(* A snapshot's positions, and what of FeedTyped every step needs          *)
LEMMA SnapshotFacts ==
  ASSUME FeedTyped
  PROVE  /\ \A k \in 1 .. Len(published) :
              /\ published[k] \in Snapshots /\ published[k].serverTick \in Nat
              /\ DOMAIN published[k].position \subseteq EntityIds
              /\ \A id \in DOMAIN published[k].position : published[k].position[id] \in Positions
         /\ \A i \in DOMAIN applied : applied[i] \in 1 .. Len(published)
         /\ Len(published) \in Nat /\ Len(applied) \in Nat /\ DOMAIN applied = 1 .. Len(applied)
  <1>1. ASSUME NEW k \in 1 .. Len(published)
        PROVE  /\ published[k] \in Snapshots /\ published[k].serverTick \in Nat
               /\ DOMAIN published[k].position \subseteq EntityIds
               /\ \A id \in DOMAIN published[k].position : published[k].position[id] \in Positions
    <2>1. published[k] \in Snapshots
      BY <1>1, ElementOfSeq DEF FeedTyped
    <2>2. PICK ids \in SUBSET EntityIds : published[k].position \in [ids -> Positions]
      BY <2>1 DEF Snapshots
    <2> QED
      BY <2>1, <2>2 DEF Snapshots
  <1>2. /\ Len(published) \in Nat /\ Len(applied) \in Nat /\ DOMAIN applied = 1 .. Len(applied)
    BY LenProperties DEF FeedTyped
  <1>3. \A i \in DOMAIN applied : applied[i] \in 1 .. Len(published)
    BY <1>2, ElementOfSeq DEF FeedTyped
  <1> QED
    BY <1>1, <1>2, <1>3

(* The last holder is the one snapshot that is shown; it is the newest if  *)
(* the holders came in order.                                              *)
LEMMA ShownIsLast ==
  ASSUME FeedIInv
  PROVE  ShowsOneSnapshot
  <1> DEFINE holders(id) == {i \in DOMAIN applied : id \in DOMAIN published[applied[i]].position}
             ordered(id) == \A i, j \in holders(id) : i <= j => applied[i] <= applied[j]
             Shown(i, id) ==
               LET shown == published[applied[i]]
               IN  /\ cache[id].lastSnapshotTick = shown.serverTick
                   /\ cache[id].targetPos = shown.position[id]
                   /\ drainLeft = MAX_RECV_PER_FRAME => cache[id].pos = shown.position[id]
                   /\ ordered(id) => \A j \in holders(id) : applied[j] <= applied[i]
  <1> SUFFICES ASSUME NEW id \in EntityIds
               PROVE  /\ id \in DOMAIN cache <=> holders(id) # {}
                      /\ id \in DOMAIN cache => \E i \in holders(id) : Shown(i, id)
    BY DEF ShowsOneSnapshot
  <1> USE DEF HoldsIt
  <1>1. CASE holders(id) = {}
    BY <1>1 DEF FeedIInv, CacheShows
  <1>2. CASE holders(id) # {}
    <2>1. /\ id \in DOMAIN cache
          /\ \E i \in DOMAIN applied :
               LastHolder(i, id) /\ ShownAs(cache[id], published[applied[i]], id)
      BY <1>2 DEF FeedIInv, CacheShows
    <2>2. PICK i \in DOMAIN applied :
                 LastHolder(i, id) /\ ShownAs(cache[id], published[applied[i]], id)
      BY <2>1
    <2>3. i \in holders(id) /\ \A j \in holders(id) : j <= i
      BY <2>2 DEF LastHolder
    <2>4. Shown(i, id)
      BY <2>2, <2>3 DEF ShownAs
    <2> HIDE DEF holders, Shown
    <2> QED
      BY <1>2, <2>1, <2>3, <2>4
  <1> QED
    BY <1>1, <1>2

(* As long as no snapshot is applied, and no snapshot published before is  *)
(* another, the cache shows what it did.                                   *)
LEMMA CacheKept ==
  ASSUME FeedIInv, UNCHANGED <<applied, cache>>,
         \A k \in 1 .. Len(published) : published'[k] = published[k],
         drainLeft' = MAX_RECV_PER_FRAME => drainLeft = MAX_RECV_PER_FRAME
  PROVE  DOMAIN cache' \subseteq EntityIds /\ CacheShows'
  <1>1. \A i \in DOMAIN applied' : applied'[i] = applied[i] /\ published'[applied[i]] = published[applied[i]]
    BY SnapshotFacts DEF FeedIInv
  <1>2. \A id, i : i \in DOMAIN applied => (HoldsIt(i, id)' <=> HoldsIt(i, id))
    BY <1>1 DEF HoldsIt
  <1>3. \A id, i : LastHolder(i, id)' <=> LastHolder(i, id)
    BY <1>2 DEF LastHolder
  <1>4. \A id, i : i \in DOMAIN applied /\ ShownAs(cache[id], published[applied[i]], id)
                     => ShownAs(cache[id], published[applied[i]], id)'
    BY <1>1 DEF ShownAs
  <1>5. CacheShows'
    <2> SUFFICES ASSUME NEW id \in EntityIds
                 PROVE  /\ (\A i \in DOMAIN applied' : ~HoldsIt(i, id)') => id \notin DOMAIN cache'
                        /\ (\E i \in DOMAIN applied' : HoldsIt(i, id)') =>
                             /\ id \in DOMAIN cache'
                             /\ \E i \in DOMAIN applied' :
                                  LastHolder(i, id)' /\ ShownAs(cache[id], published[applied[i]], id)'
      BY DEF CacheShows
    <2>1. /\ (\A i \in DOMAIN applied : ~HoldsIt(i, id)) => id \notin DOMAIN cache
          /\ (\E i \in DOMAIN applied : HoldsIt(i, id)) =>
               /\ id \in DOMAIN cache
               /\ \E i \in DOMAIN applied :
                    LastHolder(i, id) /\ ShownAs(cache[id], published[applied[i]], id)
      BY DEF FeedIInv, CacheShows
    <2> QED
      BY <1>2, <1>3, <1>4, <2>1
  <1> QED
    BY <1>5 DEF FeedIInv

LEMMA PublishPreserves ==
  ASSUME FeedIInv, Publish
  PROVE  FeedIInv'
  <1>0. PICK ids \in SUBSET EntityIds : \E position \in [ids -> Positions] :
          published' = Append(published,
            [serverTick |-> Len(published) * TICKS_PER_SNAPSHOT, position |-> position])
    BY DEF Publish
  <1>1. PICK position \in [ids -> Positions] :
          published' = Append(published,
            [serverTick |-> Len(published) * TICKS_PER_SNAPSHOT, position |-> position])
    BY <1>0
  <1> DEFINE snap == [serverTick |-> Len(published) * TICKS_PER_SNAPSHOT, position |-> position]
  <1>2. /\ published \in Seq(Snapshots) /\ Len(published) \in Nat
        /\ applied \in Seq(1 .. Len(published)) /\ inbox \in Seq(-1 .. Len(published))
    BY SnapshotFacts DEF FeedIInv, FeedTyped
  <1>3. snap \in Snapshots
    <2>1. Len(published) * TICKS_PER_SNAPSHOT \in Nat
      BY <1>2, FeedAssumption
    <2>2. position \in UNION {[set -> Positions] : set \in SUBSET EntityIds}
      OBVIOUS
    <2> QED
      BY <2>1, <2>2 DEF Snapshots
  <1> HIDE DEF snap
  <1>4. /\ published' \in Seq(Snapshots) /\ Len(published') = Len(published) + 1
        /\ \A k \in 1 .. Len(published) : published'[k] = published[k]
    BY <1>1, <1>2, <1>3, AppendProperties DEF snap
  <1>5. UNCHANGED <<deliveries, inbox, drainLeft, cache, lastTick, applied>>
    BY DEF Publish
  <1>6. /\ applied' \in Seq(1 .. Len(published')) /\ inbox' \in Seq(-1 .. Len(published'))
    <2>1. /\ 1 .. Len(published) \subseteq 1 .. Len(published')
          /\ -1 .. Len(published) \subseteq -1 .. Len(published')
      BY <1>2, <1>4
    <2> QED
      BY <1>2, <1>5, <2>1, SeqMonotonic
  <1>7. DOMAIN cache' \subseteq EntityIds /\ CacheShows'
    BY <1>4, <1>5, CacheKept
  <1> QED
    BY <1>4, <1>5, <1>6, <1>7 DEF FeedIInv, FeedTyped

LEMMA DeliveryPreserves ==
  ASSUME FeedIInv, Deliver \/ DeliverOther
  PROVE  FeedIInv'
  <1>1. UNCHANGED <<published, drainLeft, cache, lastTick, applied>>
    BY DEF Deliver, DeliverOther
  <1>2. \E k \in -1 .. Len(published) : inbox' = Append(inbox, k)
    <2>1. DOMAIN published = 1 .. Len(published) /\ Len(published) \in Nat
      BY DEF FeedIInv, FeedTyped
    <2> QED
      BY <2>1 DEF Deliver, DeliverOther, Damaged, Stray
  <1>3. inbox' \in Seq(-1 .. Len(published))
    BY <1>2, AppendProperties DEF FeedIInv, FeedTyped
  <1>4. DOMAIN cache' \subseteq EntityIds /\ CacheShows'
    BY <1>1, CacheKept
  <1> QED
    BY <1>1, <1>3, <1>4 DEF FeedIInv, FeedTyped

LEMMA DropPreserves ==
  ASSUME FeedIInv, PassOver \/ DropRejected
  PROVE  FeedIInv'
  <1>1. /\ inbox' = Tail(inbox) /\ inbox # <<>>
        /\ UNCHANGED <<published, deliveries, cache, lastTick, applied>>
        /\ drainLeft > 0 /\ (drainLeft' = 0 \/ drainLeft' = drainLeft - 1)
    BY DEF PassOver, DropRejected
  <1>2. /\ inbox' \in Seq(-1 .. Len(published)) /\ drainLeft' # MAX_RECV_PER_FRAME
        /\ drainLeft' \in 0 .. MAX_RECV_PER_FRAME
    BY <1>1, HeadTailProperties, FeedAssumption DEF FeedIInv, FeedTyped
  <1>3. DOMAIN cache' \subseteq EntityIds /\ CacheShows'
    BY <1>1, <1>2, CacheKept
  <1> QED
    BY <1>1, <1>2, <1>3 DEF FeedIInv, FeedTyped

(* interpolate(1.0f) takes each entity to the target: prevPos cancels.     *)
LEMMA InterpolatePreserves ==
  ASSUME FeedIInv, Interpolate
  PROVE  FeedIInv'
  <1>1. /\ cache' = [id \in DOMAIN cache |-> [cache[id] EXCEPT !.pos = Interpolated(cache[id])]]
        /\ drainLeft' = MAX_RECV_PER_FRAME
        /\ UNCHANGED <<published, deliveries, inbox, lastTick, applied>>
    BY DEF Interpolate
  <1>2. DOMAIN cache' = DOMAIN cache
    BY <1>1
  <1>3. ASSUME NEW id \in DOMAIN cache, NEW snap, ShownAs(cache[id], snap, id)
        PROVE  ShownAs(cache[id], snap, id)'
    <2> DEFINE ce == cache[id]
    <2>1. /\ ce.prevPos \in Int /\ ce.targetPos \in Int /\ ce.targetPos \in Positions
          /\ ce \in ClientEntity /\ ce.lastSnapshotTick = snap.serverTick
          /\ ce.targetPos = snap.position[id]
      BY <1>3, FeedAssumption DEF ShownAs, ClientEntity
    <2>2. cache'[id] = [ce EXCEPT !.pos = ce.targetPos]
      BY <1>1, <2>1 DEF Interpolated
    <2> HIDE DEF ce
    <2>3. /\ cache'[id] \in ClientEntity /\ cache'[id].pos = ce.targetPos
          /\ cache'[id].targetPos = ce.targetPos
          /\ cache'[id].lastSnapshotTick = ce.lastSnapshotTick
      BY <2>1, <2>2 DEF ClientEntity
    <2> QED
      BY <2>1, <2>3 DEF ShownAs
  <1>4. \A id, i : /\ HoldsIt(i, id)' <=> HoldsIt(i, id)
                   /\ LastHolder(i, id)' <=> LastHolder(i, id)
    BY <1>1 DEF HoldsIt, LastHolder
  <1>5. CacheShows'
    <2> SUFFICES ASSUME NEW id \in EntityIds
                 PROVE  /\ (\A i \in DOMAIN applied' : ~HoldsIt(i, id)') => id \notin DOMAIN cache'
                        /\ (\E i \in DOMAIN applied' : HoldsIt(i, id)') =>
                             /\ id \in DOMAIN cache'
                             /\ \E i \in DOMAIN applied' :
                                  LastHolder(i, id)' /\ ShownAs(cache[id], published[applied[i]], id)'
      BY DEF CacheShows
    <2>1. /\ (\A i \in DOMAIN applied : ~HoldsIt(i, id)) => id \notin DOMAIN cache
          /\ (\E i \in DOMAIN applied : HoldsIt(i, id)) =>
               /\ id \in DOMAIN cache
               /\ \E i \in DOMAIN applied :
                    LastHolder(i, id) /\ ShownAs(cache[id], published[applied[i]], id)
      BY DEF FeedIInv, CacheShows
    <2>2. ASSUME NEW i \in DOMAIN applied, id \in DOMAIN cache,
                 ShownAs(cache[id], published[applied[i]], id)
          PROVE  ShownAs(cache[id], published[applied[i]], id)'
      BY <1>1, <1>3, <2>2
    <2> QED
      BY <1>1, <1>2, <1>4, <2>1, <2>2
  <1>6. FeedTyped'
    <2>1. MAX_RECV_PER_FRAME \in 0 .. MAX_RECV_PER_FRAME
      BY FeedAssumption
    <2> QED
      BY <1>1, <2>1 DEF FeedIInv, FeedTyped
  <1> QED
    BY <1>2, <1>5, <1>6 DEF FeedIInv

(* What the cache holds of an entity in the snapshot, known or not.        *)
LEMMA UpdateShows ==
  ASSUME FeedIInv, NEW k \in 1 .. Len(published), UpdateFromSnapshot(published[k]),
         NEW id \in DOMAIN published[k].position
  PROVE  /\ cache'[id] \in ClientEntity
         /\ cache'[id].lastSnapshotTick = published[k].serverTick
         /\ cache'[id].targetPos = published[k].position[id]
  <1> DEFINE snap == published[k]
  <1>1. /\ snap.serverTick \in Nat /\ snap.position[id] \in Positions /\ id \in EntityIds
    BY SnapshotFacts DEF FeedIInv
  <1>2. CASE id \in DOMAIN cache
    <2>2. cache[id].pos \in Positions
      <3>1. \E i \in DOMAIN applied : ShownAs(cache[id], published[applied[i]], id)
        BY <1>1, <1>2 DEF FeedIInv, CacheShows
      <3> QED
        BY <3>1 DEF ShownAs, ClientEntity
    <2>3. cache'[id] = Mirror(cache[id], snap.position[id], snap.serverTick)
      BY <1>2 DEF UpdateFromSnapshot
    <2> HIDE DEF snap
    <2> QED
      BY <1>1, <2>2, <2>3 DEF Mirror, ClientEntity, snap
  <1>3. CASE id \notin DOMAIN cache
    <2>1. cache'[id] = [pos |-> snap.position[id], prevPos |-> snap.position[id],
                        targetPos |-> snap.position[id], lastSnapshotTick |-> snap.serverTick]
      BY <1>3 DEF UpdateFromSnapshot
    <2> HIDE DEF snap
    <2> QED
      BY <1>1, <2>1 DEF ClientEntity, snap
  <1> QED
    BY <1>2, <1>3

LEMMA ApplyPreserves ==
  ASSUME FeedIInv, ApplySnapshot
  PROVE  FeedIInv'
  <1> DEFINE k == Head(inbox)
  <1>0. PICK n : n = Len(applied) + 1
    OBVIOUS
  <1>1. /\ drainLeft > 0 /\ inbox # <<>> /\ k # Damaged /\ k # Stray
        /\ UpdateFromSnapshot(published[k])
        /\ applied' = Append(applied, k) /\ inbox' = Tail(inbox)
        /\ drainLeft' = drainLeft - 1 /\ published' = published
    BY DEF ApplySnapshot, Rejected
  <1>2. /\ inbox \in Seq(-1 .. Len(published)) /\ Len(published) \in Nat
        /\ applied \in Seq(1 .. Len(published)) /\ drainLeft \in 0 .. MAX_RECV_PER_FRAME
        /\ Len(applied) \in Nat /\ DOMAIN applied = 1 .. Len(applied)
    BY SnapshotFacts DEF FeedIInv, FeedTyped
  <1>3. k \in 1 .. Len(published) /\ inbox' \in Seq(-1 .. Len(published))
    <2>1. Head(inbox) \in -1 .. Len(published) /\ Tail(inbox) \in Seq(-1 .. Len(published))
      BY <1>1, <1>2, HeadTailProperties
    <2> QED
      BY <1>1, <1>2, <2>1 DEF Damaged, Stray
  <1> HIDE DEF k
  <1>4. /\ applied' \in Seq(1 .. Len(published)) /\ DOMAIN applied' = 1 .. n
        /\ applied'[n] = k /\ \A i \in DOMAIN applied : applied'[i] = applied[i]
    BY <1>0, <1>1, <1>2, <1>3, AppendProperties
  <1>5. drainLeft' \in 0 .. MAX_RECV_PER_FRAME /\ drainLeft' # MAX_RECV_PER_FRAME
    BY <1>1, <1>2, FeedAssumption
  <1>6. DOMAIN published[k].position \subseteq EntityIds
    BY <1>3, SnapshotFacts DEF FeedIInv
  <1>7. /\ DOMAIN cache' = DOMAIN cache \cup DOMAIN published[k].position
        /\ \A id \in DOMAIN cache : id \notin DOMAIN published[k].position => cache'[id] = cache[id]
    BY <1>1 DEF UpdateFromSnapshot
  <1>8. /\ \A id, i : i \in DOMAIN applied => (HoldsIt(i, id)' <=> HoldsIt(i, id))
        /\ \A id : HoldsIt(n, id)' <=> id \in DOMAIN published[k].position
    BY <1>1, <1>4 DEF HoldsIt
  <1>9. CacheShows'
    <2> SUFFICES ASSUME NEW id \in EntityIds
                 PROVE  /\ (\A i \in DOMAIN applied' : ~HoldsIt(i, id)') => id \notin DOMAIN cache'
                        /\ (\E i \in DOMAIN applied' : HoldsIt(i, id)') =>
                             /\ id \in DOMAIN cache'
                             /\ \E i \in DOMAIN applied' :
                                  LastHolder(i, id)' /\ ShownAs(cache[id], published[applied[i]], id)'
      BY DEF CacheShows
    <2>1. /\ n \in DOMAIN applied' /\ DOMAIN applied' = DOMAIN applied \cup {n}
          /\ n \in Nat /\ \A i \in DOMAIN applied : i <= n
      BY <1>0, <1>2, <1>4
    <2>2. CASE id \in DOMAIN published[k].position
      <3>1. LastHolder(n, id)'
        BY <1>2, <1>4, <1>8, <2>1, <2>2 DEF LastHolder
      <3>2. ShownAs(cache[id], published[applied[n]], id)'
        BY <1>1, <1>3, <1>4, <1>5, <2>2, UpdateShows DEF ShownAs
      <3> QED
        BY <1>7, <1>8, <2>1, <2>2, <3>1, <3>2
    <2>3. CASE id \notin DOMAIN published[k].position
      <3>1. /\ (\A i \in DOMAIN applied : ~HoldsIt(i, id)) => id \notin DOMAIN cache
            /\ (\E i \in DOMAIN applied : HoldsIt(i, id)) =>
                 /\ id \in DOMAIN cache
                 /\ \E i \in DOMAIN applied :
                      LastHolder(i, id) /\ ShownAs(cache[id], published[applied[i]], id)
        BY DEF FeedIInv, CacheShows
      <3>2. ASSUME NEW i \in DOMAIN applied, LastHolder(i, id)
            PROVE  LastHolder(i, id)'
        BY <1>8, <2>1, <2>3, <3>2 DEF LastHolder
      <3>3. ASSUME NEW i \in DOMAIN applied, id \in DOMAIN cache,
                   ShownAs(cache[id], published[applied[i]], id)
            PROVE  ShownAs(cache[id], published[applied[i]], id)'
        BY <1>1, <1>4, <1>5, <1>7, <2>3, <3>3 DEF ShownAs
      <3> QED
        BY <1>7, <1>8, <2>1, <2>3, <3>1, <3>2, <3>3
    <2> QED
      BY <2>2, <2>3
  <1>10. DOMAIN cache' \subseteq EntityIds
    BY <1>6, <1>7 DEF FeedIInv
  <1> QED
    BY <1>1, <1>3, <1>4, <1>5, <1>9, <1>10 DEF FeedIInv, FeedTyped

LEMMA FeedNextPreserves == FeedIInv /\ [FeedNext]_feedVars => FeedIInv'
  <1> SUFFICES ASSUME FeedIInv, [FeedNext]_feedVars
               PROVE  FeedIInv'
    OBVIOUS
  <1>1. CASE UNCHANGED feedVars
    <2>1. UNCHANGED <<published, inbox, drainLeft, cache, applied>>
      BY <1>1 DEF feedVars
    <2> QED
      BY <2>1, CacheKept DEF FeedIInv, FeedTyped
  <1>2. CASE FeedNext
    BY <1>2, PublishPreserves, DeliveryPreserves, ApplyPreserves, DropPreserves,
       InterpolatePreserves DEF FeedNext
  <1> QED
    BY <1>1, <1>2

(* The inductive invariant of the snapshots' way                           *)
THEOREM FeedInvariant == FeedSpec => []FeedIInv
  <1>1. FeedInit => FeedIInv
    <2> SUFFICES ASSUME FeedInit PROVE FeedIInv
      OBVIOUS
    <2>1. FeedTyped
      BY FeedAssumption, EmptySeq DEF FeedInit, FeedTyped
    <2>2. CacheShows /\ DOMAIN cache = {}
      BY DEF FeedInit, CacheShows
    <2> QED
      BY <2>1, <2>2 DEF FeedIInv
  <1> QED
    BY <1>1, FeedNextPreserves, PTL DEF FeedSpec

(* Whatever the network loses, copies, delays or damages, and for any      *)
(* number of entities, what is shown of each comes from one snapshot that  *)
(* was applied, and from the newest if they came in order                  *)
(* (EntityCache.cpp:7-58).                                                 *)
THEOREM OneSnapshotIsShown == FeedSpec => []ShowsOneSnapshot
  <1>1. FeedIInv => ShowsOneSnapshot
    BY ShownIsLast
  <1> QED
    BY <1>1, FeedInvariant, PTL

=============================================================================
