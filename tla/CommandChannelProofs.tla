------------------------ MODULE CommandChannelProofs ------------------------
(***************************************************************************)
(* Duplicate detection and what it is for: no command is lost to it, or    *)
(* executed twice, that came from a port of one session with no damaged    *)
(* number.  For every number of clients, ports, sessions and packets, and  *)
(* every window.                                                           *)
(***************************************************************************)
EXTENDS CommandChannel, SequenceTheorems, FiniteSetTheorems, TLAPS

-----------------------------------------------------------------------------
(* The socket manager, with any traffic.  That no sequence number repeats  *)
(* within the window is not inductive: the manager does not look at what   *)
(* it handed over, only at the deque.  RecentIsTail says that the deque is *)
(* an exact record of it, and it is inductive with the types alone.        *)

(* RecentIsTail for one sender.                                            *)
IsTail(recent, all) ==
  /\ Len(recent) = IF Len(all) <= DEDUP_WINDOW THEN Len(all) ELSE DEDUP_WINDOW
  /\ \A i \in DOMAIN recent : recent[i] = all[Len(all) - Len(recent) + i].seq

(* NoRepeatInWindow for one sender.                                        *)
NoRepeat(all) ==
  \A i, j \in DOMAIN all :
    i < j /\ j - i <= DEDUP_WINDOW => all[i].seq # all[j].seq

SocketIInv ==
  /\ SocketTypeOK
  /\ \A key \in Endpoints : IsTail(StateOf(key).recent, delivered[key])
  /\ \A key \in Endpoints : NoRepeat(delivered[key])

(* Pushing on the back of a sequence.                                      *)
LEMMA PushBack ==
  ASSUME NEW S, NEW s \in Seq(S), NEW x \in S
  PROVE  /\ Append(s, x) \in Seq(S)
         /\ Len(s) \in Nat
         /\ Len(Append(s, x)) = Len(s) + 1
         /\ DOMAIN s = 1 .. Len(s)
         /\ DOMAIN Append(s, x) = 1 .. Len(s) + 1
         /\ \A i \in 1 .. Len(s) : Append(s, x)[i] = s[i]
         /\ Append(s, x)[Len(s) + 1] = x
  OBVIOUS

(* Taking off the front of a sequence.                                     *)
LEMMA PopFront ==
  ASSUME NEW S, NEW s \in Seq(S), s # <<>>
  PROVE  /\ Head(s) \in S
         /\ Tail(s) \in Seq(S)
         /\ Len(s) \in Nat \ {0}
         /\ Len(Tail(s)) = Len(s) - 1
         /\ DOMAIN Tail(s) = 1 .. Len(s) - 1
         /\ \A i \in 1 .. Len(s) - 1 : Tail(s)[i] = s[i + 1]
  <1>1. Len(s) \in Nat \ {0}
    BY EmptySeq
  <1>2. Head(s) \in S /\ Tail(s) \in Seq(S)
    BY HeadTailProperties
  <1>3. Len(Tail(s)) = Len(s) - 1 /\ \A i \in 1 .. Len(Tail(s)) : Tail(s)[i] = s[i + 1]
    BY HeadTailProperties
  <1>4. DOMAIN Tail(s) = 1 .. Len(Tail(s))
    BY <1>2, LenProperties
  <1> QED
    BY <1>1, <1>2, <1>3, <1>4

(* isDuplicate's deque stays the tail of what is handed over, when both    *)
(* take one more packet (SocketManager.cpp:103-106).                       *)
LEMMA RememberKeepsTail ==
  ASSUME NEW recent \in Seq(SequenceNumbers), NEW all \in Seq(Deliveries),
         NEW x \in Deliveries, IsTail(recent, all)
  PROVE  /\ Remember(recent, x.seq) \in Seq(SequenceNumbers)
         /\ IsTail(Remember(recent, x.seq), Append(all, x))
  <1> DEFINE n == Len(recent)
             m == Len(all)
             r == Append(recent, x.seq)
             a == Append(all, x)
  <1>1. x.seq \in SequenceNumbers
    BY DEF Deliveries
  <1>2. /\ r \in Seq(SequenceNumbers) /\ n \in Nat /\ Len(r) = n + 1
        /\ DOMAIN recent = 1 .. n /\ DOMAIN r = 1 .. n + 1
        /\ \A i \in 1 .. n : r[i] = recent[i]
        /\ r[n + 1] = x.seq
    BY <1>1, PushBack
  <1>3. /\ m \in Nat /\ Len(a) = m + 1
        /\ \A i \in 1 .. m : a[i] = all[i]
        /\ a[m + 1] = x
    BY PushBack
  <1>4. /\ n = IF m <= DEDUP_WINDOW THEN m ELSE DEDUP_WINDOW
        /\ \A i \in 1 .. n : recent[i] = all[m - n + i].seq
    BY <1>2 DEF IsTail
  <1>5. DEDUP_WINDOW \in Nat
    BY SocketAssumption
  <1>6. r # <<>>
    BY <1>2
  <1>7. /\ Tail(r) \in Seq(SequenceNumbers) /\ Len(Tail(r)) = n
        /\ DOMAIN Tail(r) = 1 .. n
        /\ \A i \in 1 .. n : Tail(r)[i] = r[i + 1]
    BY <1>2, <1>6, PopFront
  <1> HIDE DEF n, m, r, a
  <1>8. \A i \in 1 .. n + 1 : r[i] = a[m - n + i].seq
    <2> SUFFICES ASSUME NEW i \in 1 .. n + 1
                 PROVE  r[i] = a[m - n + i].seq
      OBVIOUS
    <2>1. CASE i = n + 1
      BY <2>1, <1>2, <1>3, <1>4, <1>5
    <2>2. CASE i # n + 1
      <3>1. i \in 1 .. n /\ m - n + i \in 1 .. m
        BY <2>2, <1>2, <1>3, <1>4, <1>5
      <3> QED
        BY <3>1, <1>2, <1>3, <1>4
    <2> QED
      BY <2>1, <2>2
  <1>9. CASE n + 1 > DEDUP_WINDOW
    <2>1. Remember(recent, x.seq) = Tail(r)
      BY <1>9 DEF Remember, n, r
    <2>2. n = DEDUP_WINDOW /\ ~(m + 1 <= DEDUP_WINDOW)
      BY <1>9, <1>2, <1>3, <1>4, <1>5
    <2>3. \A i \in 1 .. n : Tail(r)[i] = a[(m + 1) - n + i].seq
      <3> SUFFICES ASSUME NEW i \in 1 .. n
                   PROVE  Tail(r)[i] = a[(m + 1) - n + i].seq
        OBVIOUS
      <3>1. i + 1 \in 1 .. n + 1 /\ (m + 1) - n + i = m - n + (i + 1)
        BY <1>2, <1>3
      <3> QED
        BY <3>1, <1>7, <1>8
    <2>4. IsTail(Tail(r), a)
      BY <2>2, <2>3, <1>3, <1>7 DEF IsTail
    <2> QED
      BY <2>1, <2>4, <1>7 DEF a
  <1>10. CASE ~(n + 1 > DEDUP_WINDOW)
    <2>1. Remember(recent, x.seq) = r
      BY <1>10 DEF Remember, n, r
    <2>2. n = m /\ m + 1 <= DEDUP_WINDOW
      BY <1>10, <1>2, <1>3, <1>4, <1>5
    <2>3. \A i \in 1 .. n + 1 : r[i] = a[(m + 1) - (n + 1) + i].seq
      <3> SUFFICES ASSUME NEW i \in 1 .. n + 1
                   PROVE  r[i] = a[(m + 1) - (n + 1) + i].seq
        OBVIOUS
      <3>1. (m + 1) - (n + 1) + i = m - n + i
        BY <1>2, <1>3
      <3> QED
        BY <3>1, <1>8
    <2>4. IsTail(r, a)
      BY <2>2, <2>3, <1>2, <1>3 DEF IsTail
    <2> QED
      BY <2>1, <2>4, <1>2 DEF a
  <1> QED
    BY <1>9, <1>10, <1>2, <1>5

(* A packet whose number is not in the deque repeats none of the window    *)
(* (SocketManager.cpp:96-101).                                             *)
LEMMA UnseenIsFresh ==
  ASSUME NEW recent \in Seq(SequenceNumbers), NEW all \in Seq(Deliveries),
         NEW x \in Deliveries, IsTail(recent, all), NoRepeat(all),
         ~Seen(recent, x.seq)
  PROVE  NoRepeat(Append(all, x))
  <1> DEFINE n == Len(recent)
             m == Len(all)
             a == Append(all, x)
  <1>1. n \in Nat /\ DOMAIN recent = 1 .. n
    OBVIOUS
  <1>2. /\ m \in Nat /\ DOMAIN all = 1 .. m /\ DOMAIN a = 1 .. m + 1
        /\ \A i \in 1 .. m : a[i] = all[i]
        /\ a[m + 1] = x
    BY PushBack
  <1>3. /\ n = IF m <= DEDUP_WINDOW THEN m ELSE DEDUP_WINDOW
        /\ \A i \in 1 .. n : recent[i] = all[m - n + i].seq
    BY <1>1 DEF IsTail
  <1>4. \A k \in 1 .. n : recent[k] # x.seq
    BY <1>1 DEF Seen
  <1>5. DEDUP_WINDOW \in Nat
    BY SocketAssumption
  <1> HIDE DEF n, m, a
  <1> SUFFICES ASSUME NEW i \in 1 .. m + 1, NEW j \in 1 .. m + 1,
                      i < j, j - i <= DEDUP_WINDOW
               PROVE  a[i].seq # a[j].seq
    BY <1>2 DEF NoRepeat, a
  <1>6. i \in 1 .. m
    BY <1>2
  <1>7. CASE j = m + 1
    <2> DEFINE k == i - (m - n)
    <2>1. k \in 1 .. n /\ m - n + k = i
      BY <1>7, <1>6, <1>1, <1>2, <1>3, <1>5
    <2>2. recent[k] = all[i].seq
      BY <2>1, <1>3
    <2> QED
      BY <1>7, <1>6, <2>1, <2>2, <1>2, <1>4
  <1>8. CASE j # m + 1
    <2>1. j \in 1 .. m
      BY <1>8, <1>2
    <2> QED
      BY <2>1, <1>6, <1>2 DEF NoRepeat
  <1> QED
    BY <1>7, <1>8

-----------------------------------------------------------------------------
(* m_senderStates[key] yields a state of the right type.                   *)
LEMMA StateTyped ==
  ASSUME SocketTypeOK, NEW key
  PROVE  StateOf(key) \in SenderState
  BY DEF SocketTypeOK, StateOf, SenderState

(* Giving one sender a new state changes no other sender's.                *)
LEMMA SetStateFacts ==
  ASSUME SocketTypeOK, NEW key \in Endpoints, NEW state \in SenderState,
         SetState(key, state)
  PROVE  /\ DOMAIN senderStates' \subseteq Endpoints
         /\ \A k \in DOMAIN senderStates' : senderStates'[k] \in SenderState
         /\ StateOf(key)' = state
         /\ \A k \in Endpoints \ {key} : StateOf(k)' = StateOf(k)
  BY DEF SocketTypeOK, SetState, StateOf

(* One iteration of the loop keeps the types of the socket and takes a     *)
(* datagram that arrived.                                                  *)
LEMMA TakeFacts ==
  ASSUME SocketTypeOK, Take
  PROVE  /\ Head(inbox) \in Datagrams
         /\ inbox' \in Seq(Datagrams)
         /\ budget' \in 0 .. MAX_RECV_PER_TICK
         /\ tick' = tick
  <1>1. Head(inbox) \in Datagrams /\ Tail(inbox) \in Seq(Datagrams)
    BY PopFront DEF SocketTypeOK, Take
  <1>2. budget - 1 \in 0 .. MAX_RECV_PER_TICK
    BY SocketAssumption DEF SocketTypeOK, Take
  <1> QED
    BY <1>1, <1>2 DEF Take

(* An empty manager, with no sender known.                                 *)
LEMMA InitSocketIInv == SocketInit => SocketIInv
  <1> SUFFICES ASSUME SocketInit PROVE SocketIInv
    OBVIOUS
  <1>1. /\ <<>> \in Seq(Datagrams) /\ <<>> \in Seq(Deliveries)
        /\ <<>> \in Seq(SequenceNumbers)
        /\ Len(<<>>) = 0 /\ DOMAIN <<>> = {}
    BY EmptySeq
  <1>2. SocketTypeOK
    BY <1>1, SocketAssumption DEF SocketInit, SocketTypeOK
  <1>3. \A key \in Endpoints : StateOf(key).recent = <<>> /\ delivered[key] = <<>>
    BY DEF SocketInit, StateOf
  <1>4. IsTail(<<>>, <<>>) /\ NoRepeat(<<>>)
    BY <1>1, SocketAssumption DEF IsTail, NoRepeat
  <1> QED
    BY <1>2, <1>3, <1>4 DEF SocketIInv

(* A packet handed over is the last in its sender's deque and repeats none *)
(* of the window; the other senders' deques stay.                          *)
LEMMA AcceptPreserves ==
  ASSUME SocketIInv, AcceptPacket
  PROVE  SocketIInv'
  <1> DEFINE d == Head(inbox)
             state == StateOf(d.from)
             x == Received(d)
             newState == [state EXCEPT !.recent = Remember(@, d.seq)]
  <1>1. SocketTypeOK
    BY DEF SocketIInv
  <1>2. /\ d \in Datagrams /\ inbox' \in Seq(Datagrams)
        /\ budget' \in 0 .. MAX_RECV_PER_TICK /\ tick' = tick
    BY <1>1, TakeFacts DEF AcceptPacket
  <1>3. /\ d.from \in Endpoints /\ d.seq \in SequenceNumbers /\ d.payload \in Payloads
    BY <1>2 DEF Datagrams
  <1>4. x \in Deliveries /\ x.seq = d.seq
    BY <1>1, <1>3 DEF Received, Deliveries, SocketTypeOK
  <1>5. state \in SenderState
    BY <1>1, StateTyped
  <1>6. state.recent \in Seq(SequenceNumbers) /\ state.lastCrcLogTime \in Nat
    BY <1>5 DEF SenderState
  <1>7. /\ ~Seen(state.recent, x.seq)
        /\ SetState(d.from, newState)
        /\ delivered' = [delivered EXCEPT ![d.from] = Append(@, x)]
    BY <1>4 DEF AcceptPacket, HandOver
  <1>8. /\ delivered \in [Endpoints -> Seq(Deliveries)]
        /\ delivered[d.from] \in Seq(Deliveries)
        /\ IsTail(state.recent, delivered[d.from])
        /\ NoRepeat(delivered[d.from])
    BY <1>1, <1>3 DEF SocketIInv, SocketTypeOK
  <1> HIDE DEF x
  <1>9. /\ Remember(state.recent, x.seq) \in Seq(SequenceNumbers)
        /\ IsTail(Remember(state.recent, x.seq), Append(delivered[d.from], x))
    BY <1>4, <1>6, <1>8, RememberKeepsTail
  <1>10. NoRepeat(Append(delivered[d.from], x))
    BY <1>4, <1>6, <1>7, <1>8, UnseenIsFresh
  <1>11. newState \in SenderState /\ newState.recent = Remember(state.recent, x.seq)
    BY <1>4, <1>5, <1>9 DEF SenderState
  <1> HIDE DEF newState
  <1>12. PICK e \in Endpoints : e = d.from
    BY <1>3
  <1>13. /\ DOMAIN senderStates' \subseteq Endpoints
         /\ \A k \in DOMAIN senderStates' : senderStates'[k] \in SenderState
         /\ StateOf(e)' = newState
         /\ \A k \in Endpoints \ {e} : StateOf(k)' = StateOf(k)
    <2>1. SetState(e, newState)
      BY <1>7, <1>12
    <2> QED
      BY <2>1, <1>1, <1>11, SetStateFacts
  <1>14. /\ delivered' \in [Endpoints -> Seq(Deliveries)]
         /\ delivered'[e] = Append(delivered[e], x)
         /\ \A k \in Endpoints \ {e} : delivered'[k] = delivered[k]
    <2>1. Append(delivered[e], x) \in Seq(Deliveries)
      BY <1>4, <1>8, <1>12, PushBack
    <2> QED
      BY <2>1, <1>7, <1>8, <1>12
  <1>15. SocketTypeOK'
    BY <1>1, <1>2, <1>13, <1>14 DEF SocketTypeOK
  <1>16. ASSUME NEW key \in Endpoints
         PROVE  /\ IsTail(StateOf(key)'.recent, delivered'[key])
                /\ NoRepeat(delivered'[key])
    <2>1. CASE key = e
      BY <2>1, <1>9, <1>10, <1>11, <1>12, <1>13, <1>14
    <2>2. CASE key # e
      BY <2>2, <1>13, <1>14 DEF SocketIInv
    <2> QED
      BY <2>1, <2>2
  <1> QED
    BY <1>15, <1>16 DEF SocketIInv, IsTail, NoRepeat

(* What recvPackets drops, whatever it writes to a sender's log time,      *)
(* leaves every deque and everything handed over as it was.                *)
LEMMA DropPreserves ==
  ASSUME SocketIInv, Take,
         NEW e \in Endpoints, NEW state \in SenderState,
         state.recent = StateOf(e).recent, SetState(e, state),
         UNCHANGED delivered
  PROVE  SocketIInv'
  <1>1. SocketTypeOK
    BY DEF SocketIInv
  <1>2. /\ inbox' \in Seq(Datagrams)
        /\ budget' \in 0 .. MAX_RECV_PER_TICK /\ tick' = tick
    BY <1>1, TakeFacts
  <1>3. /\ DOMAIN senderStates' \subseteq Endpoints
        /\ \A k \in DOMAIN senderStates' : senderStates'[k] \in SenderState
        /\ StateOf(e)' = state
        /\ \A k \in Endpoints \ {e} : StateOf(k)' = StateOf(k)
    BY <1>1, SetStateFacts
  <1>4. SocketTypeOK'
    BY <1>1, <1>2, <1>3 DEF SocketTypeOK
  <1>5. ASSUME NEW key \in Endpoints
        PROVE  /\ IsTail(StateOf(key)'.recent, delivered'[key])
               /\ NoRepeat(delivered'[key])
    <2>1. StateOf(key)'.recent = StateOf(key).recent
      BY <1>3
    <2> QED
      BY <2>1 DEF SocketIInv
  <1> QED
    BY <1>4, <1>5 DEF SocketIInv, IsTail, NoRepeat

(* A step that leaves the senders and what was handed over alone.          *)
LEMMA SendersUntouched ==
  ASSUME SocketIInv, UNCHANGED <<senderStates, delivered>>,
         inbox' \in Seq(Datagrams), budget' \in 0 .. MAX_RECV_PER_TICK,
         tick' \in Nat
  PROVE  SocketIInv'
  BY DEF SocketIInv, SocketTypeOK, StateOf, IsTail, NoRepeat

(* Every step of the server's side of the channel keeps the invariant.     *)
LEMMA SocketNextPreserves == SocketIInv /\ [SocketNext]_socketVars => SocketIInv'
  <1> SUFFICES ASSUME SocketIInv, [SocketNext]_socketVars
               PROVE  SocketIInv'
    OBVIOUS
  <1>1. SocketTypeOK
    BY DEF SocketIInv
  <1>2. ASSUME NEW d \in Datagrams, Arrive(d)
        PROVE  SocketIInv'
    <2>1. inbox' \in Seq(Datagrams)
      BY <1>1, <1>2, PushBack DEF SocketTypeOK, Arrive
    <2> QED
      BY <1>1, <1>2, <2>1, SendersUntouched DEF SocketTypeOK, Arrive
  <1>3. CASE AcceptPacket
    BY <1>3, AcceptPreserves
  <1>4. CASE DropDuplicate
    <2>1. Take /\ UNCHANGED delivered /\ Head(inbox) \in Datagrams
      BY <1>1, <1>4, TakeFacts DEF DropDuplicate
    <2>2. PICK e \in Endpoints : e = Head(inbox).from
      BY <2>1 DEF Datagrams
    <2>3. SetState(e, StateOf(e)) /\ StateOf(e) \in SenderState
      BY <1>1, <1>4, <2>2, StateTyped DEF DropDuplicate
    <2> QED
      BY <2>1, <2>3, DropPreserves
  <1>5. CASE DropBadCrc
    <2> DEFINE now == StartTime + tick
               stamped(s) == IF now - s.lastCrcLogTime >= CRC_LOG_INTERVAL
                               THEN [s EXCEPT !.lastCrcLogTime = now] ELSE s
    <2>1. Take /\ UNCHANGED delivered /\ Head(inbox) \in Datagrams
      BY <1>1, <1>5, TakeFacts DEF DropBadCrc
    <2>2. PICK e \in Endpoints : e = Head(inbox).from
      BY <2>1 DEF Datagrams
    <2>3. SetState(e, stamped(StateOf(e)))
      BY <1>5, <2>2 DEF DropBadCrc
    <2>4. now \in Nat
      BY <1>1, SocketAssumption DEF SocketTypeOK
    <2>5. StateOf(e) \in SenderState
      BY <1>1, StateTyped
    <2> HIDE DEF now
    <2>6. /\ stamped(StateOf(e)) \in SenderState
          /\ stamped(StateOf(e)).recent = StateOf(e).recent
      BY <2>4, <2>5 DEF SenderState
    <2> HIDE DEF stamped
    <2> QED
      BY <2>1, <2>3, <2>6, DropPreserves
  <1>6. CASE DropInvalid
    BY <1>1, <1>6, TakeFacts, SendersUntouched DEF DropInvalid, SocketTypeOK
  <1>7. CASE BreakOff
    <2>1. inbox' \in Seq(Datagrams)
      BY <1>1, <1>7, PopFront DEF SocketTypeOK, BreakOff
    <2> QED
      BY <1>1, <1>7, <2>1, SocketAssumption, SendersUntouched DEF SocketTypeOK, BreakOff
  <1>8. CASE FinishTick
    BY <1>1, <1>8, SocketAssumption, SendersUntouched DEF SocketTypeOK, FinishTick
  <1>9. CASE UNCHANGED socketVars
    BY <1>1, <1>9, SendersUntouched DEF SocketTypeOK, socketVars
  <1> QED
    BY <1>2, <1>3, <1>4, <1>5, <1>6, <1>7, <1>8, <1>9 DEF SocketNext, RecvOne

(* The inductive invariant holds of every behaviour.                       *)
THEOREM SocketInductive == SocketSpec => []SocketIInv
  <1> QED
    BY InitSocketIInv, SocketNextPreserves, PTL DEF SocketSpec

(* Every field keeps the type it has in the code, and the loop's counter   *)
(* its bounds (SocketManager.cpp:24-77).                                   *)
THEOREM SocketTyped == SocketSpec => []SocketTypeOK
  <1>1. SocketIInv => SocketTypeOK
    BY DEF SocketIInv
  <1> QED
    BY <1>1, SocketInductive, PTL

(* The deque of every sender is the tail of what was handed over for it,   *)
(* for every window (SocketManager.cpp:92-109).                            *)
THEOREM DequeIsExact == SocketSpec => []RecentIsTail
  <1>1. SocketIInv => RecentIsTail
    BY DEF SocketIInv, RecentIsTail, IsTail
  <1> QED
    BY <1>1, SocketInductive, PTL

(* No packet is handed over twice within the window of its sender, for     *)
(* every window and any traffic of the others.                             *)
THEOREM DuplicatesDetected == SocketSpec => []NoRepeatInWindow
  <1>1. SocketIInv => NoRepeatInWindow
    BY DEF SocketIInv, NoRepeatInWindow, NoRepeat
  <1> QED
    BY <1>1, SocketInductive, PTL

-----------------------------------------------------------------------------
(* What was handed over in a tick, as in TickIntakeBounded.                *)
HandedIn(t) ==
  {p \in Endpoints \X (1 .. MaxDelivered + MaxInbox) :
     p[2] \in DOMAIN delivered[p[1]] /\ delivered[p[1]][p[2]].tick = t}

(* That the intake is bounded needs the counter: in the tick under way no  *)
(* more was handed over than the loop's iterations so far, and nothing in  *)
(* a tick to come.                                                         *)
IntakeIInv ==
  /\ SocketIInv
  /\ \A t \in Nat : IsFiniteSet(HandedIn(t)) /\ Cardinality(HandedIn(t)) <= MAX_RECV_PER_TICK
  /\ Cardinality(HandedIn(tick)) + budget <= MAX_RECV_PER_TICK
  /\ \A t \in Nat : t > tick => HandedIn(t) = {}

LEMMA InitIntakeIInv == SocketInit => IntakeIInv
  <1> SUFFICES ASSUME SocketInit PROVE IntakeIInv
    OBVIOUS
  <1>1. \A t \in Nat : HandedIn(t) = {}
    BY DEF HandedIn, SocketInit
  <1>2. \A t \in Nat : IsFiniteSet(HandedIn(t)) /\ Cardinality(HandedIn(t)) = 0
    BY <1>1, FS_EmptySet
  <1>3. tick = 0 /\ budget = MAX_RECV_PER_TICK /\ MAX_RECV_PER_TICK \in Nat /\ SocketIInv
    BY InitSocketIInv, SocketAssumption DEF SocketInit
  <1> QED
    BY <1>1, <1>2, <1>3 DEF IntakeIInv

(* A packet handed over counts in the tick under way and in no other.      *)
LEMMA AcceptCounts ==
  ASSUME SocketIInv, AcceptPacket
  PROVE  /\ \E x : HandedIn(tick)' \subseteq HandedIn(tick) \cup {x}
         /\ \A t \in Nat : t # tick => HandedIn(t)' = HandedIn(t)
  <1>1. PICK d \in Datagrams : d = Head(inbox)
    BY TakeFacts DEF AcceptPacket, SocketIInv
  <1> DEFINE all == delivered[d.from]
             x == Received(d)
  <1>2. /\ d.from \in Endpoints /\ all \in Seq(Deliveries)
        /\ delivered \in [Endpoints -> Seq(Deliveries)]
        /\ delivered' = [delivered EXCEPT ![d.from] = Append(all, x)]
        /\ x \in Deliveries /\ x.tick = tick /\ tick' = tick
    BY <1>1, TakeFacts DEF SocketIInv, SocketTypeOK, AcceptPacket, HandOver, Received, Datagrams, Deliveries
  <1> HIDE DEF x
  <1>3. /\ DOMAIN delivered'[d.from] = DOMAIN all \cup {Len(all) + 1}
        /\ \A i \in DOMAIN all : delivered'[d.from][i] = all[i]
        /\ delivered'[d.from][Len(all) + 1] = x
        /\ Len(all) + 1 \notin DOMAIN all
    <2> HIDE DEF all
    <2>1. delivered'[d.from] = Append(all, x)
      BY <1>2
    <2> QED
      BY <1>2, <2>1, PushBack
  <1>4. \A p \in Endpoints \ {d.from} : delivered'[p] = delivered[p]
    BY <1>2
  <1>5. HandedIn(tick)' \subseteq HandedIn(tick) \cup {<<d.from, Len(all) + 1>>}
    BY <1>2, <1>3, <1>4 DEF HandedIn
  <1>6. ASSUME NEW t \in Nat, t # tick
        PROVE  HandedIn(t)' = HandedIn(t)
    BY <1>2, <1>3, <1>4, <1>6 DEF HandedIn
  <1> QED
    BY <1>5, <1>6

LEMMA IntakePreserves == IntakeIInv /\ [SocketNext]_socketVars => IntakeIInv'
  <1> SUFFICES ASSUME IntakeIInv, [SocketNext]_socketVars PROVE IntakeIInv'
    OBVIOUS
  <1>1. SocketIInv /\ SocketIInv' /\ tick \in Nat /\ budget \in Nat /\ MAX_RECV_PER_TICK \in Nat
    BY SocketNextPreserves, SocketAssumption DEF IntakeIInv, SocketIInv, SocketTypeOK
  <1>2. \A t \in Nat : IsFiniteSet(HandedIn(t)) /\ Cardinality(HandedIn(t)) \in Nat
    BY FS_CardinalityType DEF IntakeIInv
  <1>3. CASE AcceptPacket
    <2>1. /\ budget > 0 /\ budget' = budget - 1 /\ tick' = tick
      BY <1>3 DEF AcceptPacket, Take
    <2>2. PICK x : HandedIn(tick)' \subseteq HandedIn(tick) \cup {x}
      BY <1>1, <1>3, AcceptCounts
    <2>3. \A t \in Nat : t # tick => HandedIn(t)' = HandedIn(t)
      BY <1>1, <1>3, AcceptCounts
    <2>4. /\ IsFiniteSet(HandedIn(tick) \cup {x})
          /\ Cardinality(HandedIn(tick) \cup {x}) <= Cardinality(HandedIn(tick)) + 1
          /\ Cardinality(HandedIn(tick) \cup {x}) \in Nat
      <3>1. IsFiniteSet(HandedIn(tick)) /\ Cardinality(HandedIn(tick)) \in Nat
        BY <1>1, <1>2
      <3>2. /\ IsFiniteSet(HandedIn(tick) \cup {x})
            /\ Cardinality(HandedIn(tick) \cup {x}) =
                 IF x \in HandedIn(tick) THEN Cardinality(HandedIn(tick))
                 ELSE Cardinality(HandedIn(tick)) + 1
        BY <3>1, FS_AddElement
      <3> QED
        BY <3>1, <3>2
    <2>5. /\ IsFiniteSet(HandedIn(tick)')
          /\ Cardinality(HandedIn(tick)') <= Cardinality(HandedIn(tick)) + 1
          /\ Cardinality(HandedIn(tick)') \in Nat
      <3>1. /\ IsFiniteSet(HandedIn(tick)')
            /\ Cardinality(HandedIn(tick)') <= Cardinality(HandedIn(tick) \cup {x})
        BY <2>2, <2>4, FS_Subset
      <3>2. Cardinality(HandedIn(tick)') \in Nat
        BY <3>1, FS_CardinalityType
      <3> QED
        BY <1>1, <1>2, <2>4, <3>1, <3>2
    <2>6. Cardinality(HandedIn(tick)') + budget' <= MAX_RECV_PER_TICK
      BY <1>1, <1>2, <2>1, <2>5 DEF IntakeIInv
    <2>7. ASSUME NEW t \in Nat
          PROVE  /\ IsFiniteSet(HandedIn(t)') /\ Cardinality(HandedIn(t)') <= MAX_RECV_PER_TICK
                 /\ t > tick => HandedIn(t)' = {}
      <3>1. CASE t = tick
        BY <1>1, <2>1, <2>5, <2>6, <3>1
      <3>2. CASE t # tick
        BY <1>1, <2>3, <3>2 DEF IntakeIInv
      <3> QED
        BY <3>1, <3>2
    <2> QED
      BY <1>1, <2>1, <2>6, <2>7 DEF IntakeIInv
  <1>4. CASE FinishTick
    <2>1. /\ \A t : HandedIn(t)' = HandedIn(t)
          /\ tick' = tick + 1 /\ budget' = MAX_RECV_PER_TICK
      BY <1>4 DEF FinishTick, HandedIn
    <2>2. HandedIn(tick + 1) = {} /\ Cardinality(HandedIn(tick + 1)) = 0
      <3>1. tick + 1 \in Nat /\ tick + 1 > tick
        BY <1>1
      <3> QED
        BY <3>1, FS_EmptySet DEF IntakeIInv
    <2>3. HandedIn(tick)' = HandedIn(tick + 1)
      BY <1>4 DEF FinishTick, HandedIn
    <2>4. Cardinality(HandedIn(tick)') + budget' <= MAX_RECV_PER_TICK
      BY <1>1, <2>1, <2>2, <2>3
    <2>5. \A t \in Nat : t > tick' => t > tick
      BY <1>1, <2>1
    <2> QED
      BY <1>1, <2>1, <2>4, <2>5 DEF IntakeIInv
  <1>5. CASE ~AcceptPacket /\ ~FinishTick
    <2>1. \A t : HandedIn(t)' = HandedIn(t)
      BY <1>5 DEF SocketNext, RecvOne, Arrive, DropDuplicate, DropBadCrc, DropInvalid, BreakOff,
                  socketVars, HandedIn
    <2>2. tick' = tick /\ budget' \in Nat /\ budget' <= budget
      BY <1>1, <1>5 DEF SocketNext, RecvOne, Arrive, DropDuplicate, DropBadCrc, DropInvalid,
                        BreakOff, Take, socketVars
    <2>3. Cardinality(HandedIn(tick)) \in Nat
      BY <1>1, <1>2
    <2> QED
      BY <1>1, <2>1, <2>2, <2>3 DEF IntakeIInv
  <1> QED
    BY <1>3, <1>4, <1>5

(* No tick takes in more than MAX_RECV_PER_TICK packets, over all senders, *)
(* for any number of them (SocketManager.cpp:26).                          *)
THEOREM IntakeIsBounded == SocketSpec => []TickIntakeBounded
  <1>1. IntakeIInv => TickIntakeBounded
    <2> SUFFICES ASSUME IntakeIInv, NEW t \in 0 .. tick
                 PROVE  Cardinality(HandedIn(t)) <= MAX_RECV_PER_TICK
      BY DEF TickIntakeBounded, HandedIn
    <2> QED
      BY DEF IntakeIInv
  <1> QED
    BY <1>1, InitIntakeIInv, IntakePreserves, PTL DEF SocketSpec

-----------------------------------------------------------------------------
(* The channel.  The server compares sequence numbers, the properties      *)
(* speak of packets.  The invariant connects the two: in a session the     *)
(* number of a packet is its position.                                     *)

(* A connected client numbers its packets by their position.               *)
ClientsNumber ==
  /\ port \in [Clients -> Endpoints \cup {NoPort}]
  /\ sendSequence \in [Clients -> Nat] /\ sentCount \in [Clients -> Nat]
  /\ session \in [Clients -> Nat] /\ sessions \in 0 .. MaxSessions
  /\ \A c \in Clients :
       Connected(c) => sendSequence[c] = sentCount[c] /\ session[c] \in 1 .. MaxSessions

(* Every packet sent carries its position as its number.                   *)
PacketsNumbered == \A d \in network : d \in Datagrams /\ d.payload[2] = d.seq

ChannelIInv == SocketIInv /\ ClientsNumber /\ PacketsNumbered

(* Every step of the channel is a step of SocketManager, or none: what     *)
(* arrives is a datagram, damaged or not.                                  *)
LEMMA ChannelStepIsSocketStep ==
  ASSUME ChannelIInv, [ChannelNext]_channelVars
  PROVE  [SocketNext]_socketVars
  <1>1. CASE Transmit
    <2>1. PICK d \in network :
            \/ \E result \in DecodeResults \cup {NoDatagram} : Arrive([d EXCEPT !.result = result])
            \/ \E seq \in SequenceNumbers : Arrive([d EXCEPT !.seq = seq])
      BY <1>1 DEF Transmit
    <2>2. d \in Datagrams
      BY DEF ChannelIInv, PacketsNumbered
    <2>3. \A result \in DecodeResults \cup {NoDatagram} : [d EXCEPT !.result = result] \in Datagrams
      BY <2>2 DEF Datagrams
    <2>4. \A seq \in SequenceNumbers : [d EXCEPT !.seq = seq] \in Datagrams
      BY <2>2 DEF Datagrams
    <2> QED
      BY <2>1, <2>3, <2>4 DEF SocketNext
  <1>2. CASE ServerStep
    BY <1>2 DEF ServerStep, SocketNext
  <1>3. ASSUME NEW c \in Clients,
               (\E p \in Endpoints : Connect(c, p)) \/ Disconnect(c) \/ SendCommand(c)
        PROVE  UNCHANGED socketVars
    BY <1>3 DEF Connect, Disconnect, SendCommand
  <1>4. CASE UNCHANGED channelVars
    BY <1>4 DEF channelVars
  <1> QED
    BY <1>1, <1>2, <1>3, <1>4 DEF ChannelNext

(* Nothing sent, nobody connected.                                         *)
LEMMA InitChannelIInv == ChannelInit => ChannelIInv
  <1> SUFFICES ASSUME ChannelInit PROVE ChannelIInv
    OBVIOUS
  <1>1. SocketIInv
    BY InitSocketIInv DEF ChannelInit
  <1>2. ClientsNumber
    BY ChannelAssumption DEF ChannelInit, ClientsNumber, Connected
  <1>3. PacketsNumbered
    BY DEF ChannelInit, PacketsNumbered
  <1> QED
    BY <1>1, <1>2, <1>3 DEF ChannelIInv

(* connect() starts a session whose ping is number 0                       *)
(* (ClientSocket.cpp:7-32).                                                *)
LEMMA ConnectPreserves ==
  ASSUME ChannelIInv,
         NEW c \in Clients, NEW p \in Endpoints, Connect(c, p)
  PROVE  ClientsNumber' /\ PacketsNumbered'
  <1> DEFINE ping == Packet(c, p, 0, 0, sessions + 1)
  <1>1. /\ network' = network \cup {ping}
        /\ port' = [port EXCEPT ![c] = p]
        /\ session' = [session EXCEPT ![c] = sessions + 1]
        /\ sessions < MaxSessions /\ sessions' = sessions + 1
        /\ sendSequence' = [sendSequence EXCEPT ![c] = 1]
        /\ sentCount' = [sentCount EXCEPT ![c] = 1]
    BY DEF Connect
  <1>2. sessions + 1 \in 1 .. MaxSessions /\ sessions + 1 \in Nat
    BY <1>1, ChannelAssumption DEF ChannelIInv, ClientsNumber
  <1>3. ping.seq = 0 /\ ping.payload[2] = 0
    BY DEF Packet
  <1>4. ping \in Datagrams
    <2>1. <<sessions + 1, 0>> \in Payloads /\ 0 \in SequenceNumbers
      BY <1>2, ChannelAssumption
    <2> QED
      BY <2>1 DEF Packet, Datagrams, DecodeResults
  <1> HIDE DEF ping
  <1>5. ClientsNumber'
    <2>1. \A e \in Clients : Connected(e)' =>
            sendSequence'[e] = sentCount'[e] /\ session'[e] \in 1 .. MaxSessions
      BY <1>1, <1>2 DEF ChannelIInv, ClientsNumber, Connected
    <2>2. /\ port' \in [Clients -> Endpoints \cup {NoPort}]
          /\ sendSequence' \in [Clients -> Nat] /\ sentCount' \in [Clients -> Nat]
          /\ session' \in [Clients -> Nat] /\ sessions' \in 0 .. MaxSessions
      BY <1>1, <1>2 DEF ChannelIInv, ClientsNumber
    <2> QED
      BY <2>1, <2>2 DEF ClientsNumber
  <1>6. PacketsNumbered'
    BY <1>1, <1>3, <1>4 DEF ChannelIInv, PacketsNumbered
  <1> QED
    BY <1>5, <1>6

(* disconnect() frees a port and sends nothing.                            *)
LEMMA DisconnectPreserves ==
  ASSUME ChannelIInv, NEW c \in Clients, Disconnect(c)
  PROVE  ClientsNumber' /\ PacketsNumbered'
  <1>1. /\ port' = [port EXCEPT ![c] = NoPort]
        /\ UNCHANGED <<sendSequence, sentCount, session, sessions, network>>
    BY DEF Disconnect
  <1> QED
    BY <1>1, ChannelAssumption DEF ChannelIInv, ClientsNumber, PacketsNumbered, Connected

(* sendCommand adds the packet its numbering calls for                     *)
(* (ClientSocket.h:29-35).                                                 *)
LEMMA SendCommandPreserves ==
  ASSUME ChannelIInv, NEW c \in Clients, SendCommand(c)
  PROVE  ClientsNumber' /\ PacketsNumbered'
  <1> DEFINE pkt == Packet(c, port[c], sendSequence[c], sentCount[c], session[c])
  <1>1. /\ Connected(c) /\ sentCount[c] < MaxSent
        /\ network' = network \cup {pkt}
        /\ sendSequence' = [sendSequence EXCEPT ![c] = (sendSequence[c] + 1) % SeqSpace]
        /\ sentCount' = [sentCount EXCEPT ![c] = sentCount[c] + 1]
        /\ UNCHANGED <<port, session, sessions>>
    BY DEF SendCommand
  <1>2. /\ port[c] \in Endpoints
        /\ sendSequence[c] = sentCount[c] /\ sentCount[c] \in Nat
        /\ session[c] \in 1 .. MaxSessions
    BY <1>1 DEF ChannelIInv, ClientsNumber, Connected
  <1>3. (sendSequence[c] + 1) % SeqSpace = sentCount[c] + 1
    BY <1>1, <1>2, ChannelAssumption
  <1>4. pkt.seq = sendSequence[c] /\ pkt.payload[2] = sentCount[c]
    BY DEF Packet
  <1>5. pkt \in Datagrams
    <2>1. sentCount[c] \in 0 .. MaxSent /\ sendSequence[c] \in 0 .. SeqSpace - 1
      BY <1>1, <1>2, ChannelAssumption
    <2>2. <<session[c], sentCount[c]>> \in Payloads /\ sendSequence[c] \in SequenceNumbers
      BY <2>1, <1>2, ChannelAssumption
    <2> QED
      BY <2>2, <1>2 DEF Packet, Datagrams, DecodeResults
  <1> HIDE DEF pkt
  <1>6. ClientsNumber'
    <2>1. /\ sendSequence' \in [Clients -> Nat] /\ sentCount' \in [Clients -> Nat]
          /\ \A e \in Clients : sendSequence[e] = sentCount[e] => sendSequence'[e] = sentCount'[e]
      BY <1>1, <1>2, <1>3 DEF ChannelIInv, ClientsNumber
    <2> QED
      BY <2>1, <1>1 DEF ChannelIInv, ClientsNumber, Connected
  <1>7. PacketsNumbered'
    BY <1>1, <1>2, <1>4, <1>5 DEF ChannelIInv, PacketsNumbered
  <1> QED
    BY <1>6, <1>7

(* Every step of clients, network and server keeps the invariant.          *)
LEMMA ChannelNextPreserves ==
  ASSUME ChannelIInv, [ChannelNext]_channelVars
  PROVE  ChannelIInv'
  <1>1. SocketIInv'
    BY ChannelStepIsSocketStep, SocketNextPreserves DEF ChannelIInv
  <1>2. ASSUME NEW c \in Clients, NEW p \in Endpoints, Connect(c, p)
        PROVE  ChannelIInv'
    BY <1>1, <1>2, ConnectPreserves DEF ChannelIInv
  <1>3. ASSUME NEW c \in Clients, Disconnect(c)
        PROVE  ChannelIInv'
    BY <1>1, <1>3, DisconnectPreserves DEF ChannelIInv
  <1>4. ASSUME NEW c \in Clients, SendCommand(c)
        PROVE  ChannelIInv'
    BY <1>1, <1>4, SendCommandPreserves DEF ChannelIInv
  <1>5. CASE UNCHANGED clientVars
    BY <1>1, <1>5 DEF ChannelIInv, clientVars, ClientsNumber, PacketsNumbered, Connected
  <1> QED
    BY <1>2, <1>3, <1>4, <1>5 DEF ChannelNext, Transmit, ServerStep, channelVars

(* An undamaged packet found in the deque is one that was handed over: on  *)
(* a trusted port its number leaves no other.                              *)
LEMMA DuplicateWasHandedOver ==
  ASSUME ChannelIInv, DropDuplicate, Trusted(Head(inbox).from),
         Genuine(Head(inbox).from, Head(inbox))
  PROVE  HandedOver(Head(inbox))
  <1> DEFINE d == Head(inbox)
             recent == StateOf(d.from).recent
             all == delivered[d.from]
  <1>1. inbox # <<>> /\ Seen(recent, d.seq)
    BY DEF DropDuplicate, Take
  <1>2. d \in Datagrams
    BY <1>1, PopFront DEF ChannelIInv, SocketIInv, SocketTypeOK
  <1>3. d.from \in Endpoints
    BY <1>2 DEF Datagrams
  <1>4. IsTail(recent, all) /\ all \in Seq(Deliveries)
    BY <1>3 DEF ChannelIInv, SocketIInv, SocketTypeOK
  <1>5. recent \in Seq(SequenceNumbers)
    BY StateTyped DEF ChannelIInv, SocketIInv, SenderState
  <1>6. PICK e \in network : e.from = d.from /\ e.seq = d.seq /\ e.payload = d.payload
    BY DEF Genuine, d
  <1>7. Trusted(d.from)
    OBVIOUS
  <1> HIDE DEF d, recent, all
  <1>8. PICK k \in DOMAIN all : all[k].seq = d.seq
    <2>1. PICK i \in DOMAIN recent : recent[i] = d.seq
      BY <1>1 DEF Seen
    <2>2. /\ DOMAIN recent = 1 .. Len(recent) /\ Len(recent) \in Nat
          /\ DOMAIN all = 1 .. Len(all) /\ Len(all) \in Nat
      BY <1>4, <1>5
    <2>3. Len(recent) <= Len(all)
      BY <2>2, <1>4, SocketAssumption DEF IsTail
    <2>4. Len(all) - Len(recent) + i \in DOMAIN all
      BY <2>1, <2>2, <2>3
    <2> QED
      BY <2>1, <2>4, <1>4 DEF IsTail
  <1>9. PICK f \in network :
          f.from = d.from /\ f.seq = all[k].seq /\ f.payload = all[k].payload
    BY <1>7, <1>8 DEF Trusted, Genuine, all
  <1>10. e.payload[1] = f.payload[1] /\ e.payload[2] = f.payload[2]
    BY <1>6, <1>7, <1>8, <1>9 DEF ChannelIInv, PacketsNumbered, Trusted
  <1>11. /\ e.payload \in (1 .. MaxSessions) \X (0 .. MaxSent)
         /\ f.payload \in (1 .. MaxSessions) \X (0 .. MaxSent)
    BY ChannelAssumption DEF ChannelIInv, PacketsNumbered, Datagrams
  <1>12. e.payload = f.payload
    BY <1>10, <1>11
  <1> QED
    BY <1>6, <1>8, <1>9, <1>12 DEF HandedOver, all, d

(* On a port one session has had, and no damaged number came from,         *)
(* recvPackets drops an undamaged packet as a duplicate only if it has     *)
(* handed it over before: for any window, any traffic of the other ports   *)
(* and any number of clients.                                              *)
THEOREM OnlyDuplicatesDropped == ChannelSpec => OnlyProcessedDropped
  <1>1. ChannelInit => ChannelIInv
    BY InitChannelIInv
  <1>2. ChannelIInv /\ [ChannelNext]_channelVars => ChannelIInv'
    BY ChannelNextPreserves
  <1>3. ChannelIInv /\ [ChannelNext]_channelVars
          => [DropDuplicate /\ Trusted(Head(inbox).from) /\ Genuine(Head(inbox).from, Head(inbox))
                => HandedOver(Head(inbox))]_channelVars
    BY DuplicateWasHandedOver
  <1> QED
    BY <1>1, <1>2, <1>3, PTL DEF ChannelSpec, OnlyProcessedDropped

(* Seen from the server, clients and network are just traffic: the channel *)
(* implements the socket manager on its own, so what holds of that holds   *)
(* here.                                                                   *)
THEOREM ChannelImplementsSocket == ChannelSpec => SocketSpec
  <1>1. ChannelInit => ChannelIInv /\ SocketInit
    BY InitChannelIInv DEF ChannelInit
  <1>2. ChannelIInv /\ [ChannelNext]_channelVars => ChannelIInv'
    BY ChannelNextPreserves
  <1>3. ChannelIInv /\ [ChannelNext]_channelVars => [SocketNext]_socketVars
    BY ChannelStepIsSocketStep
  <1> QED
    BY <1>1, <1>2, <1>3, PTL DEF ChannelSpec, SocketSpec

(* No packet is handed over twice within the window, whatever clients and  *)
(* network do.                                                             *)
THEOREM ChannelDetectsDuplicates == ChannelSpec => []NoRepeatInWindow
  <1> QED
    BY ChannelImplementsSocket, DuplicatesDetected, PTL

(* A packet handed over again is further away than the window, so more     *)
(* different packets of its session than fit the window came in between.   *)
LEMMA RepeatNeedsLongSession ==
  ASSUME ChannelIInv, IsFiniteSet(network), NEW p \in Endpoints, Trusted(p),
         NEW i \in DOMAIN delivered[p], NEW j \in DOMAIN delivered[p], i < j,
         delivered[p][i].payload = delivered[p][j].payload
  PROVE  LET sent == {d \in network : d.payload[1] = delivered[p][i].payload[1]}
         IN  Cardinality(sent) > DEDUP_WINDOW
  <1> DEFINE all == delivered[p]
             sent == {d \in network : d.payload[1] = all[i].payload[1]}
             run == i .. i + DEDUP_WINDOW
             Of(k, d) == d.from = p /\ d.seq = all[k].seq /\ d.payload = all[k].payload
             which == [k \in run |-> CHOOSE d \in network : Of(k, d)]
  <1>1. /\ all \in Seq(Deliveries) /\ Len(all) \in Nat /\ DOMAIN all = 1 .. Len(all)
        /\ DEDUP_WINDOW \in Nat /\ NoRepeat(all)
    BY SocketAssumption DEF ChannelIInv, SocketIInv, SocketTypeOK
  <1>2. \A k \in DOMAIN all : \E d \in network : Of(k, d)
    BY DEF Trusted, Genuine
  <1>3. all[i].seq = all[j].seq
    <2>1. PICK d \in network : Of(i, d)
      BY <1>2
    <2>2. PICK e \in network : Of(j, e)
      BY <1>2
    <2> QED
      BY <2>1, <2>2 DEF ChannelIInv, PacketsNumbered
  <1>4. j - i > DEDUP_WINDOW
    BY <1>1, <1>3 DEF NoRepeat
  <1>5. run \subseteq DOMAIN all /\ i \in Int
    BY <1>1, <1>4
  <1>6. \A k \in run : which[k] \in network /\ Of(k, which[k])
    BY <1>2, <1>5
  <1> HIDE DEF which
  <1>7. \A k \in run : which[k] \in sent
    <2>1. PICK d \in network : Of(i, d)
      BY <1>2
    <2> QED
      BY <1>6, <2>1 DEF Trusted
  <1>8. \A k, l \in run : which[k] = which[l] => k = l
    <2> HIDE DEF all
    <2>1. \A k, l \in run : k \in DOMAIN all /\ k \in Int /\ l - k <= DEDUP_WINDOW
      BY <1>1, <1>5
    <2> HIDE DEF run
    <2>2. \A k, l \in run : all[k].seq = all[l].seq => k = l
      BY <1>1, <2>1 DEF NoRepeat
    <2> QED
      BY <1>6, <2>2
  <1>9. which \in Injection(run, sent)
    <2>1. which = [k \in run |-> which[k]]
      BY DEF which
    <2> HIDE DEF sent, run
    <2>2. which \in [run -> sent]
      BY <1>7, <2>1
    <2> QED
      BY <1>8, <2>2 DEF Injection, IsInjective
  <1>10. IsFiniteSet(sent)
    BY FS_Subset
  <1>11. Cardinality(run) = DEDUP_WINDOW + 1
    BY <1>1, <1>5, FS_Interval
  <1>12. Cardinality(run) <= Cardinality(sent)
    BY <1>9, <1>10, FS_Injection
  <1>13. Cardinality(sent) \in Nat
    BY <1>10, FS_CardinalityType
  <1> QED
    BY <1>1, <1>11, <1>12, <1>13

(* From such a port a command reaches the main loop at most once while its *)
(* session is no longer than the window, for any window and any traffic of *)
(* the others (SocketManager.cpp:92-109).                                  *)
THEOREM CommandsArriveOnce == ChannelSpec => []CommandsAtMostOnce
  <1> DEFINE Inv == ChannelIInv /\ IsFiniteSet(network)
  <1>1. ChannelInit => Inv
    BY InitChannelIInv, FS_EmptySet DEF ChannelInit
  <1>2. Inv /\ [ChannelNext]_channelVars => Inv'
    <2> SUFFICES ASSUME Inv, [ChannelNext]_channelVars PROVE IsFiniteSet(network')
      BY ChannelNextPreserves
    <2>1. network' = network \/ \E d : network' = network \cup {d}
      BY DEF ChannelNext, Connect, Disconnect, SendCommand, Transmit, ServerStep, clientVars,
             channelVars
    <2> QED
      BY <2>1, FS_AddElement
  <1>3. Inv => CommandsAtMostOnce
    <2> SUFFICES ASSUME Inv, NEW p \in Endpoints, Trusted(p),
                        NEW i \in DOMAIN delivered[p], NEW j \in DOMAIN delivered[p], i # j,
                        delivered[p][j].payload = delivered[p][i].payload,
                        Cardinality({d \in network : d.payload[1] = delivered[p][i].payload[1]})
                          <= DEDUP_WINDOW
                 PROVE  FALSE
      BY DEF CommandsAtMostOnce
    <2> DEFINE sent == {d \in network : d.payload[1] = delivered[p][i].payload[1]}
    <2>1. i \in Int /\ j \in Int
      BY DEF ChannelIInv, SocketIInv, SocketTypeOK
    <2>2. Cardinality(sent) \in Nat /\ DEDUP_WINDOW \in Nat
      BY FS_Subset, FS_CardinalityType, SocketAssumption
    <2>3. CASE i < j
      <3>1. Cardinality(sent) > DEDUP_WINDOW
        BY <2>3, RepeatNeedsLongSession
      <3> HIDE DEF sent
      <3> QED
        BY <2>2, <3>1 DEF sent
    <2>4. CASE j < i
      <3> DEFINE again == {d \in network : d.payload[1] = delivered[p][j].payload[1]}
      <3>1. Cardinality(again) > DEDUP_WINDOW
        BY <2>4, RepeatNeedsLongSession
      <3>2. again = sent
        OBVIOUS
      <3> HIDE DEF sent, again
      <3> QED
        BY <2>2, <3>1, <3>2 DEF sent
    <2> QED
      BY <2>1, <2>3, <2>4
  <1> QED
    BY <1>1, <1>2, <1>3, PTL DEF ChannelSpec
=============================================================================
