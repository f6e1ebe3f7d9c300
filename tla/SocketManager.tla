---------------------------- MODULE SocketManager ----------------------------
(***************************************************************************)
(* NeuronServer/SocketManager: the server's side of the UDP channel.       *)
(* Datagrams arrive in the socket's buffer in any order and any number of  *)
(* copies; recvPackets takes at most MAX_RECV_PER_TICK of them per tick,   *)
(* validates them, drops those it has seen lately and hands the rest to    *)
(* the main loop.  The loop of recvPackets is one action per datagram,     *)
(* because datagrams keep arriving while it runs.                          *)
(***************************************************************************)
EXTENDS Integers, Sequences, FiniteSets

CONSTANTS
  Endpoints,          \* sender keys "addr:port"
  SequenceNumbers,    \* values of PacketHeader::sequence
  Payloads,           \* what a packet carries
  DEDUP_WINDOW,       \* 60 in the code
  MAX_RECV_PER_TICK,  \* 100 in the code
  CRC_LOG_INTERVAL,   \* one minute, in ticks
  StartTime,          \* steady_clock at start-up, in ticks
  MaxInbox,           \* bound: datagrams the socket buffer holds
  MaxDelivered,       \* bound: a sender falls silent after so many packets
  MaxTicks             \* bound: ticks

ASSUME SocketAssumption ==
  /\ DEDUP_WINDOW \in Nat /\ MAX_RECV_PER_TICK \in Nat \ {0}
  /\ MaxInbox \in Nat /\ MaxDelivered \in Nat /\ MaxTicks \in Nat
  /\ CRC_LOG_INTERVAL \in Nat /\ StartTime \in Nat

(* decodePacket's verdicts, of which the last three only leave a log line, *)
(* and what recvFrom makes nothing of: an empty datagram, or the error the *)
(* system queues after a snapshot was sent to a port closed meanwhile.     *)
DecodeResults == {"Ok", "BadCrc", "BadMagic", "Oversized", "TooShort"}
NoDatagram == "NoDatagram"

Datagrams == [from: Endpoints, seq: SequenceNumbers, payload: Payloads,
              result: DecodeResults \cup {NoDatagram}]

VARIABLES
  inbox,         \* datagrams waiting in m_socket
  budget,        \* iterations left in this tick's recvPackets
  senderStates,  \* m_senderStates: endpoint -> dedup and log state
  delivered,     \* history: what recvPackets handed over, per endpoint
  tick           \* the main loop's tick number

socketVars == <<inbox, budget, senderStates, delivered, tick>>

SenderState == [recent: Seq(SequenceNumbers), lastCrcLogTime: Nat]

(* m_senderStates[key], which creates a missing entry.                     *)
StateOf(key) ==
  IF key \in DOMAIN senderStates THEN senderStates[key]
  ELSE [recent |-> <<>>, lastCrcLogTime |-> 0]

SetState(key, state) ==
  senderStates' = [k \in DOMAIN senderStates \cup {key} |->
                     IF k = key THEN state ELSE senderStates[k]]

(* Mutant: only the latest packet counts as seen.                          *)
Seen_LatestOnly(recent, seq) == recent # <<>> /\ recent[Len(recent)] = seq

Seen(recent, seq) == \E i \in DOMAIN recent : recent[i] = seq

(* Mutant: >= where the code has >.                                        *)
Remember_OneLess(recent, seq) ==
  IF Len(recent) + 1 >= DEDUP_WINDOW
    THEN Tail(Append(recent, seq))
    ELSE Append(recent, seq)

(* push_back, then pop_front when the window is exceeded.                  *)
Remember(recent, seq) ==
  IF Len(recent) + 1 > DEDUP_WINDOW
    THEN Tail(Append(recent, seq))
    ELSE Append(recent, seq)

-----------------------------------------------------------------------------
SocketInit ==
  /\ inbox = <<>>
  /\ budget = MAX_RECV_PER_TICK
  /\ senderStates = [key \in {} |-> 0]
  /\ delivered = [key \in Endpoints |-> <<>>]
  /\ tick = 0

(* The network puts a datagram in the socket's buffer, unless it is full.  *)
Arrive(d) ==
  /\ Len(inbox) < MaxInbox
  /\ Len(delivered[d.from]) < MaxDelivered
  /\ inbox' = Append(inbox, d)
  /\ UNCHANGED <<budget, senderStates, delivered, tick>>

(* Mutant: the loop runs until the socket is empty.                        *)
Take_Unbounded ==
  /\ inbox # <<>>
  /\ inbox' = Tail(inbox)
  /\ budget' = budget - 1
  /\ UNCHANGED tick

(* One iteration of recvPackets takes the next datagram.                   *)
Take ==
  /\ budget > 0
  /\ inbox # <<>>
  /\ inbox' = Tail(inbox)
  /\ budget' = budget - 1
  /\ UNCHANGED tick

Received(d) == [seq |-> d.seq, payload |-> d.payload, tick |-> tick]

HandOver(d) ==
  delivered' = [delivered EXCEPT ![d.from] = Append(@, Received(d))]

(* A valid packet that isDuplicate does not know.                          *)
AcceptPacket ==
  LET d == Head(inbox)
      state == StateOf(d.from)
  IN  /\ Take
      /\ d.result = "Ok"
      /\ ~Seen(state.recent, d.seq)
      /\ SetState(d.from, [state EXCEPT !.recent = Remember(@, d.seq)])
      /\ HandOver(d)

(* A valid packet that isDuplicate knows.                                  *)
DropDuplicate ==
  LET d == Head(inbox)
      state == StateOf(d.from)
  IN  /\ Take
      /\ d.result = "Ok"
      /\ Seen(state.recent, d.seq)
      /\ SetState(d.from, state)
      /\ UNCHANGED delivered

(* shouldLogCrcError, with its state created or stamped on the way.        *)
DropBadCrc ==
  LET d == Head(inbox)
      state == StateOf(d.from)
      now == StartTime + tick
  IN  /\ Take
      /\ d.result = "BadCrc"
      /\ SetState(d.from,
           IF now - state.lastCrcLogTime >= CRC_LOG_INTERVAL
             THEN [state EXCEPT !.lastCrcLogTime = now] ELSE state)
      /\ UNCHANGED delivered

(* Foreign, oversized or truncated: nothing is kept.                       *)
DropInvalid ==
  /\ Take
  /\ Head(inbox).result \in {"BadMagic", "Oversized", "TooShort"}
  /\ UNCHANGED <<senderStates, delivered>>

(* recvFrom takes it for "no more data" and the loop breaks off, whatever  *)
(* else waits in the socket.                                               *)
BreakOff ==
  /\ budget > 0
  /\ inbox # <<>> /\ Head(inbox).result = NoDatagram
  /\ inbox' = Tail(inbox)
  /\ budget' = 0
  /\ UNCHANGED <<senderStates, delivered, tick>>

RecvOne == AcceptPacket \/ DropDuplicate \/ DropBadCrc \/ DropInvalid \/ BreakOff

(* recvPackets returns; the main loop finishes the tick and calls again.   *)
FinishTick ==
  /\ budget = 0 \/ inbox = <<>>
  /\ tick < MaxTicks
  /\ tick' = tick + 1
  /\ budget' = MAX_RECV_PER_TICK
  /\ UNCHANGED <<inbox, senderStates, delivered>>

SocketNext ==
  \/ \E d \in Datagrams : Arrive(d)
  \/ RecvOne
  \/ FinishTick

SocketSpec == SocketInit /\ [][SocketNext]_socketVars

-----------------------------------------------------------------------------
Deliveries == [seq: SequenceNumbers, payload: Payloads, tick: Nat]

(* Every field holds a value of its C++ type.                              *)
SocketTypeOK ==
  /\ inbox \in Seq(Datagrams)
  /\ budget \in 0 .. MAX_RECV_PER_TICK
  /\ DOMAIN senderStates \subseteq Endpoints
  /\ \A key \in DOMAIN senderStates : senderStates[key] \in SenderState
  /\ delivered \in [Endpoints -> Seq(Deliveries)]
  /\ tick \in Nat

(* The deque of a sender is exactly the tail of what was handed over for   *)
(* it, no longer than the window: neither a duplicate, nor a corrupt       *)
(* packet, nor another sender's traffic pushes a sequence number out       *)
(* (SocketManager.cpp:92-109).                                             *)
RecentIsTail ==
  \A key \in Endpoints :
    LET recent == StateOf(key).recent
        all    == delivered[key]
    IN  /\ Len(recent) = IF Len(all) <= DEDUP_WINDOW THEN Len(all) ELSE DEDUP_WINDOW
        /\ \A i \in DOMAIN recent :
             recent[i] = all[Len(all) - Len(recent) + i].seq

(* "Duplicate detection": among any DEDUP_WINDOW + 1 packets handed over   *)
(* in a row for a sender, no sequence number occurs twice.                 *)
NoRepeatInWindow ==
  \A key \in Endpoints :
    LET all == delivered[key]
    IN  \A i, j \in DOMAIN all :
          i < j /\ j - i <= DEDUP_WINDOW => all[i].seq # all[j].seq

(* The main loop gets at most MAX_RECV_PER_TICK packets in a tick, over    *)
(* all senders and however the arrivals are spread.                        *)
TickIntakeBounded ==
  \A t \in 0 .. tick :
    Cardinality({p \in Endpoints \X (1 .. MaxDelivered + MaxInbox) :
                   p[2] \in DOMAIN delivered[p[1]] /\ delivered[p[1]][p[2]].tick = t})
      <= MAX_RECV_PER_TICK
=============================================================================
