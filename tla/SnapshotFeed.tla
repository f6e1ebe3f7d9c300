---------------------------- MODULE SnapshotFeed ----------------------------
(***************************************************************************)
(* The way of a snapshot to the screen: Server/main.cpp publishes it, the  *)
(* network loses, copies, delays or damages it, and on the client          *)
(* GameApp::Update drains the socket through ClientSocket::recv and        *)
(* decodeSnapshot into the EntityCache and interpolates.                   *)
(*                                                                         *)
(* ServerSession says what a snapshot holds; here it is any set of at most *)
(* MAX_ENTITIES_PER_SNAP entities.  m_entities and m_lookup, which never   *)
(* shrink, are one function from entity ids.                               *)
(***************************************************************************)
EXTENDS Integers, Sequences, FiniteSetsExt

CONSTANTS
  EntityIds,              \* entity ids the server has used
  Positions,              \* places of entities
  PACKET_HEADER_SIZE,     \* 18 bytes in the code
  SNAP_HEADER_SIZE,       \* 16: SnapState without its entities
  SNAP_ENTITY_SIZE,       \* 40: sizeof(SnapEntityData)
  MAX_ENTITIES_PER_SNAP,  \* 64 in the code
  MAX_PACKET_SIZE,        \* 1400 in the code
  MAX_RECV_PER_FRAME,     \* 10 in the code
  TICKS_PER_SNAPSHOT,     \* 3 in the code
  MaxSnapshots,           \* bound: snapshots published
  MaxInbox,               \* bound: datagrams the client's socket holds
  MaxDeliveries           \* bound: times a snapshot is delivered

ASSUME FeedAssumption ==
  /\ Positions \subseteq Int
  /\ PACKET_HEADER_SIZE \in Nat /\ SNAP_HEADER_SIZE \in Nat /\ SNAP_ENTITY_SIZE \in Nat
  /\ MAX_ENTITIES_PER_SNAP \in Nat /\ MAX_PACKET_SIZE \in Nat
  /\ MAX_RECV_PER_FRAME \in Nat \ {0} /\ TICKS_PER_SNAPSHOT \in Nat \ {0}
  /\ MaxSnapshots \in Nat /\ MaxInbox \in Nat /\ MaxDeliveries \in Nat

VARIABLES
  published,  \* history: the snapshots sent, in order
  deliveries, \* times the network has delivered a snapshot
  inbox,      \* datagrams in the client's socket: a snapshot's number, Damaged or Stray
  drainLeft,  \* iterations left in this frame's drain loop
  cache,      \* EntityCache: entity id -> ClientEntity
  lastTick,   \* EntityCache::m_lastTick
  applied     \* history: numbers of the snapshots applied

feedVars == <<published, deliveries, inbox, drainLeft, cache, lastTick, applied>>

(* Datagrams that decodePacket rejects, and that it accepts but            *)
(* decodeSnapshot does not: the type is not covered by the checksum.       *)
Damaged == 0
Stray   == -1

Snapshots == [serverTick: Nat, position: UNION {[ids -> Positions] : ids \in SUBSET EntityIds}]

ClientEntity == [pos: Positions, prevPos: Positions, targetPos: Positions,
                 lastSnapshotTick: Nat]

(* encodePacket sends the whole struct, however few entities it holds.     *)
PacketSize == PACKET_HEADER_SIZE + SNAP_HEADER_SIZE
                + MAX_ENTITIES_PER_SNAP * SNAP_ENTITY_SIZE

-----------------------------------------------------------------------------
FeedInit ==
  /\ published = <<>> /\ deliveries = 0 /\ inbox = <<>>
  /\ drainLeft = MAX_RECV_PER_FRAME
  /\ cache = [id \in {} |-> 0] /\ lastTick = 0 /\ applied = <<>>

(* broadcastSnapshot: the living entities, wherever they are by now.       *)
Publish ==
  /\ Len(published) < MaxSnapshots
  /\ \E ids \in SUBSET EntityIds :
       /\ Cardinality(ids) <= MAX_ENTITIES_PER_SNAP
       /\ \E position \in [ids -> Positions] :
            published' = Append(published,
              [serverTick |-> Len(published) * TICKS_PER_SNAPSHOT, position |-> position])
  /\ UNCHANGED <<deliveries, inbox, drainLeft, cache, lastTick, applied>>

(* A snapshot arrives, in its turn, late, again, or never.                 *)
Deliver ==
  /\ Len(inbox) < MaxInbox /\ deliveries < MaxDeliveries
  /\ \E k \in DOMAIN published : inbox' = Append(inbox, k)
  /\ deliveries' = deliveries + 1
  /\ UNCHANGED <<published, drainLeft, cache, lastTick, applied>>

(* A datagram arrives that is none of the snapshots.                       *)
DeliverOther ==
  /\ Len(inbox) < MaxInbox
  /\ \E d \in {Damaged, Stray} : inbox' = Append(inbox, d)
  /\ UNCHANGED <<published, deliveries, drainLeft, cache, lastTick, applied>>

(* decodePacket's verdict on the datagram at hand.                         *)
Rejected(k) == k = Damaged \/ PacketSize > MAX_PACKET_SIZE

(* The loop goes on after a datagram that decodes and is no snapshot.      *)
PassOver ==
  /\ drainLeft > 0 /\ inbox # <<>> /\ ~Rejected(Head(inbox)) /\ Head(inbox) = Stray
  /\ inbox' = Tail(inbox)
  /\ drainLeft' = drainLeft - 1
  /\ UNCHANGED <<published, deliveries, cache, lastTick, applied>>

(* What updateFromSnapshot makes of an entity the cache knows.             *)
Mirror(ce, pos, tick) ==
  [pos |-> ce.pos, prevPos |-> ce.pos, targetPos |-> pos, lastSnapshotTick |-> tick]

(* updateFromSnapshot(serverTick, entities, count)                         *)
UpdateFromSnapshot(snap) ==
  /\ lastTick' = snap.serverTick
  /\ cache' = [id \in DOMAIN cache \cup DOMAIN snap.position |->
       CASE id \notin DOMAIN snap.position -> cache[id]
         [] id \in DOMAIN snap.position /\ id \in DOMAIN cache ->
              Mirror(cache[id], snap.position[id], snap.serverTick)
         [] OTHER ->
              [pos |-> snap.position[id], prevPos |-> snap.position[id],
               targetPos |-> snap.position[id], lastSnapshotTick |-> snap.serverTick]]

(* One iteration of the drain loop, with a snapshot                        *)
ApplySnapshot ==
  /\ drainLeft > 0 /\ inbox # <<>> /\ ~Rejected(Head(inbox)) /\ Head(inbox) # Stray
  /\ UpdateFromSnapshot(published[Head(inbox)])
  /\ applied' = Append(applied, Head(inbox))
  /\ inbox' = Tail(inbox)
  /\ drainLeft' = drainLeft - 1
  /\ UNCHANGED <<published, deliveries>>

(* Mutant: one rejected datagram empties the socket.                       *)
DropRejected_EmptiesInbox ==
  /\ drainLeft > 0 /\ inbox # <<>> /\ Rejected(Head(inbox))
  /\ inbox' = <<>>
  /\ drainLeft' = 0
  /\ UNCHANGED <<published, deliveries, cache, lastTick, applied>>

(* recv returns nullopt for a rejected datagram too, and the loop breaks.  *)
DropRejected ==
  /\ drainLeft > 0 /\ inbox # <<>> /\ Rejected(Head(inbox))
  /\ inbox' = Tail(inbox)
  /\ drainLeft' = 0
  /\ UNCHANGED <<published, deliveries, cache, lastTick, applied>>

(* Mutant: the way from prevPos to targetPos is added frame after frame.   *)
Interpolated_Accumulates(ce) == ce.pos + (ce.targetPos - ce.prevPos)

(* Where interpolate(1.0f) puts an entity.                                 *)
Interpolated(ce) == ce.prevPos + (ce.targetPos - ce.prevPos)

(* interpolate(1.0f) and the next frame.                                   *)
Interpolate ==
  /\ drainLeft = 0 \/ inbox = <<>>
  /\ cache' = [id \in DOMAIN cache |-> [cache[id] EXCEPT !.pos = Interpolated(cache[id])]]
  /\ drainLeft' = MAX_RECV_PER_FRAME
  /\ UNCHANGED <<published, deliveries, inbox, lastTick, applied>>

FeedNext ==
  \/ Publish \/ Deliver \/ DeliverOther
  \/ PassOver \/ ApplySnapshot \/ DropRejected \/ Interpolate

DrainStep == PassOver \/ ApplySnapshot \/ DropRejected \/ Interpolate

(* The client renders frame after frame.                                   *)
FeedSpec == FeedInit /\ [][FeedNext]_feedVars /\ WF_feedVars(DrainStep)

-----------------------------------------------------------------------------
(* The place, the date and the target of an entity come from one snapshot  *)
(* that was applied and holds it, never from several; if the network kept  *)
(* the order of its snapshots, from the newest.  Other datagrams and       *)
(* snapshots without the entity change nothing.  The frame drawn when the  *)
(* socket has been drained shows it in that place, not on the way there    *)
(* (EntityCache.cpp:7-58).                                                 *)
ShowsOneSnapshot ==
  \A id \in EntityIds :
    LET holders == {i \in DOMAIN applied : id \in DOMAIN published[applied[i]].position}
        ordered == \A i, j \in holders : i <= j => applied[i] <= applied[j]
    IN  /\ id \in DOMAIN cache <=> holders # {}
        /\ id \in DOMAIN cache =>
             \E i \in holders :
               LET shown == published[applied[i]]
               IN  /\ cache[id].lastSnapshotTick = shown.serverTick
                   /\ cache[id].targetPos = shown.position[id]
                   /\ drainLeft = MAX_RECV_PER_FRAME => cache[id].pos = shown.position[id]
                   /\ ordered => \A j \in holders : applied[j] <= applied[i]

(* StarStrike.md:765: "Accept snapshots out-of-order; use snapshot tick to *)
(* sort", so that an entity shows the newest snapshot that holds it.  It   *)
(* shows the last to arrive: no tick is compared (EntityCache.cpp:11-28).  *)
NewestShown ==
  \A id \in DOMAIN cache : \A i \in DOMAIN applied :
    id \in DOMAIN published[applied[i]].position =>
      published[applied[i]].serverTick <= cache[id].lastSnapshotTick

IsWaiting(k) == \E i \in DOMAIN inbox : inbox[i] = k
IsApplied(k) == \E i \in DOMAIN applied : applied[i] = k

(* A snapshot that fits in a packet and is in the client's socket is       *)
(* applied in the end, however many damaged datagrams break off the drain  *)
(* loop before its turn (GameApp.cpp:91-106).                              *)
FittingIsApplied ==
  \A k \in 1 .. MaxSnapshots : (IsWaiting(k) /\ ~Rejected(k)) ~> IsApplied(k)

(* IMPLEMENTATION_PLAN.md:1188 has "Snapshots received and entity cache    *)
(* updated".  With the sizes of the code no snapshot is, however often the *)
(* network delivers one (PacketCodec.cpp:97, PacketTypes.h:81-89).         *)
SnapshotsReceived == \A k \in 1 .. MaxSnapshots : IsWaiting(k) ~> IsApplied(k)
=============================================================================
