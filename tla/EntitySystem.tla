---------------------------- MODULE EntitySystem ----------------------------
(***************************************************************************)
(* GameLogic/EntitySystem: the entity array, its id lookup and the pool of *)
(* freed ids.  One action per public operation that changes state.         *)
(*                                                                         *)
(* Positions, velocities and accelerations are one-dimensional integers    *)
(* and one tick lasts one unit of time; orientation and hit points, which  *)
(* no operation of the class reads or writes, are left out.                *)
(***************************************************************************)
EXTENDS Integers, Sequences, FiniteSets

CONSTANTS
  EntityIdSpace,     \* 2^32 in the code: EntityID is a uint32_t
  PlayerIdSpace,     \* 2^16 in the code: PlayerID is a uint16_t
  EntityTypes,       \* the enumeration EntityType
  Prototypes,        \* the entities callers ask for
  MaxLive,           \* bound: entities alive at the same time
  MaxSlots,          \* bound: length of m_entities
  MaxTick            \* bound: tick numbers

EntityIds == 0 .. EntityIdSpace - 1
INVALID_ENTITY == EntityIdSpace - 1

PlayerIds == 0 .. PlayerIdSpace - 1
INVALID_PLAYER == PlayerIdSpace - 1

(* Memory ends long before 2^32 - 1 entities are alive at once.            *)
ASSUME BoundsAssumption ==
  /\ EntityIdSpace \in Nat /\ PlayerIdSpace \in Nat \ {0}
  /\ MaxLive \in Nat /\ MaxSlots \in Nat /\ MaxTick \in Nat
  /\ MaxLive < EntityIdSpace

(* The part of an Entity a caller fills in.                                *)
PrototypeType ==
  [type: EntityTypes, owner: PlayerIds, target: EntityIds,
   pos: Int, vel: Int, accel: Int]

ASSUME PrototypesAssumption == Prototypes \subseteq PrototypeType

VARIABLES
  slots,      \* m_entities
  lookup,     \* m_entityLookup: id -> index into slots
  freePool,   \* m_freePool, last in first out
  nextId,     \* m_nextId
  liveCount   \* m_liveCount

entityVars == <<slots, lookup, freePool, nextId, liveCount>>

(* What an Entity holds besides its identity and liveness.                 *)
BodyType ==
  [type: EntityTypes, owner: PlayerIds, target: EntityIds,
   pos: Int, vel: Int, accel: Int, lastUpdateTick: Nat]

Body(type, owner, target, pos, vel, accel, tick) ==
  [type |-> type, owner |-> owner, target |-> target,
   pos |-> pos, vel |-> vel, accel |-> accel, lastUpdateTick |-> tick]

FreshBody(p) == Body(p.type, p.owner, p.target, p.pos, p.vel, p.accel, 0)

SlotType == [id: EntityIds, alive: BOOLEAN, body: BodyType]

Slot(id, alive, body) == [id |-> id, alive |-> alive, body |-> body]

-----------------------------------------------------------------------------
EntityInit ==
  /\ slots = <<>>
  /\ lookup = [id \in {} |-> 0]
  /\ freePool = <<>>
  /\ nextId = 0
  /\ liveCount = 0

(* The id a spawn takes: the last one freed, else the next new one.        *)
SpawnId == IF freePool = <<>> THEN nextId ELSE freePool[Len(freePool)]

(* Mutant: the pool's last id is read and not popped.                      *)
TakeId_KeepsPool ==
  /\ nextId' = IF freePool = <<>> THEN (nextId + 1) % EntityIdSpace ELSE nextId
  /\ UNCHANGED freePool

TakeId ==
  IF freePool = <<>>
    THEN /\ nextId' = (nextId + 1) % EntityIdSpace
         /\ UNCHANGED freePool
    ELSE /\ freePool' = SubSeq(freePool, 1, Len(freePool) - 1)
         /\ UNCHANGED nextId

(* spawnEntity(prototype) *)
SpawnEntity(p) ==
  LET id == SpawnId
      e  == Slot(id, TRUE, FreshBody(p))
  IN  /\ TakeId
      /\ IF id \in DOMAIN lookup
           THEN /\ slots' = [slots EXCEPT ![lookup[id]] = e]
                /\ UNCHANGED lookup
           ELSE /\ slots' = Append(slots, e)
                /\ lookup' = [k \in DOMAIN lookup \cup {id} |->
                                IF k = id THEN Len(slots) + 1 ELSE lookup[k]]
      /\ liveCount' = liveCount + 1

(* getEntity(id) # nullptr *)
Exists(id) == id \in DOMAIN lookup /\ slots[lookup[id]].alive

(* Mutant: the lookup keeps the destroyed entity's entry.                  *)
DestroyEntity_KeepsLookup(id) ==
  /\ Exists(id)
  /\ slots' = [slots EXCEPT ![lookup[id]] = Slot(INVALID_ENTITY, FALSE, @.body)]
  /\ freePool' = Append(freePool, id)
  /\ liveCount' = liveCount - 1
  /\ UNCHANGED <<lookup, nextId>>

(* Mutant: the freed id never goes to the pool.                            *)
DestroyEntity_LeaksId(id) ==
  /\ Exists(id)
  /\ slots' = [slots EXCEPT ![lookup[id]] = Slot(INVALID_ENTITY, FALSE, @.body)]
  /\ lookup' = [k \in DOMAIN lookup \ {id} |-> lookup[k]]
  /\ liveCount' = liveCount - 1
  /\ UNCHANGED <<freePool, nextId>>

(* destroyEntity(id), of an id it does not ignore *)
DestroyEntity(id) ==
  /\ Exists(id)
  /\ slots' = [slots EXCEPT ![lookup[id]] = Slot(INVALID_ENTITY, FALSE, @.body)]
  /\ freePool' = Append(freePool, id)
  /\ lookup' = [k \in DOMAIN lookup \ {id} |-> lookup[k]]
  /\ liveCount' = liveCount - 1
  /\ UNCHANGED nextId

(* Mutant: the new velocity moves the entity and is not kept.              *)
Integrate_ForgetsVelocity(b, tick) ==
  Body(b.type, b.owner, b.target, b.pos + b.vel + b.accel, b.vel, b.accel, tick)

(* The body of a living entity after tickUpdate: velocity first.           *)
Integrate(b, tick) ==
  LET vel == b.vel + b.accel
  IN  Body(b.type, b.owner, b.target, b.pos + vel, vel, b.accel, tick)

(* tickUpdate(dt, tickNum) *)
TickUpdate(tick) ==
  /\ slots' = [i \in DOMAIN slots |->
                 IF slots[i].alive
                   THEN [slots[i] EXCEPT !.body = Integrate(@, tick)]
                   ELSE slots[i]]
  /\ UNCHANGED <<lookup, freePool, nextId, liveCount>>

-----------------------------------------------------------------------------
(* The class on its own: any caller, any legal call.                       *)
EntitySpawn ==
  /\ liveCount < MaxLive
  /\ Len(slots) < MaxSlots
  /\ \E p \in Prototypes : SpawnEntity(p)

EntityDestroy == \E id \in EntityIds : DestroyEntity(id)

(* Tick numbers only grow, as they do in the server's main loop.           *)
EntityTick ==
  \E tick \in 1 .. MaxTick :
    /\ \A i \in DOMAIN slots : slots[i].body.lastUpdateTick < tick
    /\ TickUpdate(tick)

EntityNext == EntitySpawn \/ EntityDestroy \/ EntityTick

EntitySpec == EntityInit /\ [][EntityNext]_entityVars

-----------------------------------------------------------------------------
(* Every field holds a value of its C++ type, and the lookup never leads   *)
(* outside m_entities (EntitySystem.h:64-68).                              *)
EntityTypeOK ==
  /\ slots \in Seq(SlotType)
  /\ DOMAIN lookup \subseteq EntityIds
  /\ \A id \in DOMAIN lookup : lookup[id] \in DOMAIN slots
  /\ freePool \in Seq(EntityIds)
  /\ nextId \in EntityIds
  /\ liveCount \in Nat

LiveIds == DOMAIN lookup
FreeIds == {freePool[i] : i \in DOMAIN freePool}

(* The lookup and the array agree: an id leads to the one living slot that *)
(* carries it, and a slot the lookup does not reach is dead and anonymous. *)
LookupExact ==
  /\ \A id \in LiveIds : slots[lookup[id]].alive /\ slots[lookup[id]].id = id
  /\ \A i \in DOMAIN slots :
       IF slots[i].alive
         THEN slots[i].id \in LiveIds /\ lookup[slots[i].id] = i
         ELSE slots[i].id = INVALID_ENTITY

(* An id is living, free or not yet issued, and only one of the three; it  *)
(* is in the pool once.  A double free or a stale pool entry breaks this,  *)
(* and the next two spawns would share an id.                              *)
IdsPartitioned ==
  /\ LiveIds \cap FreeIds = {}
  /\ LiveIds \cup FreeIds = 0 .. nextId - 1
  /\ \A i, j \in DOMAIN freePool : freePool[i] = freePool[j] => i = j

(* "Uses a free pool to reuse EntityIDs and avoid ID exhaustion": however  *)
(* many entities come and go, the ids issued are as many as were ever      *)
(* alive at once, so nextId cannot reach INVALID_ENTITY or wrap.           *)
NoIdExhaustion ==
  /\ nextId = liveCount + Len(freePool)
  /\ nextId <= MaxLive

(* liveCount() is the number of entities getEntity finds.                  *)
LiveCountExact == liveCount = Cardinality(LiveIds)

(* No call brings a dead slot back to life or changes which entity a slot  *)
(* holds: an index into getAll() taken earlier never names another one.    *)
SlotsNeverChangeHands ==
  [][\A i \in DOMAIN slots :
       /\ ~slots[i].alive => slots'[i] = slots[i]
       /\ slots'[i].alive => slots'[i].id = slots[i].id]_entityVars

(* The class implements what its header promises.                          *)
World ==
  INSTANCE EntityWorld WITH
    EntityIds <- EntityIds \ {INVALID_ENTITY},
    Bodies    <- {FreshBody(p) : p \in Prototypes},
    Ticks     <- 1 .. MaxTick,
    world     <- [id \in LiveIds |-> slots[lookup[id]].body]

ImplementsWorld == World!Spec
=============================================================================
