------------------------- MODULE EntitySystemProofs -------------------------
(***************************************************************************)
(* The entity system, for every number of ids, entities and slots.         *)
(*                                                                         *)
(* None of the safety properties is inductive alone.  That a spawn takes a *)
(* dead id needs IdsPartitioned; that it takes a small one needs the count *)
(* in NoIdExhaustion; both need LookupExact, so that destroyEntity frees   *)
(* exactly the id it was given.  Their conjunction is.                     *)
(***************************************************************************)
EXTENDS EntitySystem, FiniteSetTheorems, SequenceTheorems, TLAPS

IInv ==
  /\ EntityTypeOK
  /\ LookupExact
  /\ IdsPartitioned
  /\ NoIdExhaustion
  /\ LiveCountExact

(* Pushing on the back of a vector and popping it.                         *)
LEMMA PushBack ==
  ASSUME NEW S, NEW s \in Seq(S), NEW x \in S
  PROVE  /\ Append(s, x) \in Seq(S)
         /\ Len(s) \in Nat
         /\ Len(Append(s, x)) = Len(s) + 1
         /\ DOMAIN s = 1 .. Len(s)
         /\ DOMAIN Append(s, x) = 1 .. Len(s) + 1
         /\ \A i \in DOMAIN s : Append(s, x)[i] = s[i]
         /\ Append(s, x)[Len(s) + 1] = x
  OBVIOUS

(* Popping the back of a vector that is not empty leaves the rest.         *)
LEMMA PopBack ==
  ASSUME NEW S, NEW s \in Seq(S), s # <<>>
  PROVE  /\ Len(s) \in Nat \ {0}
         /\ DOMAIN s = 1 .. Len(s)
         /\ SubSeq(s, 1, Len(s) - 1) \in Seq(S)
         /\ Len(SubSeq(s, 1, Len(s) - 1)) = Len(s) - 1
         /\ DOMAIN SubSeq(s, 1, Len(s) - 1) = 1 .. Len(s) - 1
         /\ \A i \in 1 .. Len(s) - 1 : SubSeq(s, 1, Len(s) - 1)[i] = s[i]
  <1>1. Len(s) \in Nat \ {0} /\ DOMAIN s = 1 .. Len(s)
    BY EmptySeq
  <1>2. \A i \in 1 .. Len(s) - 1 : s[i] \in S
    BY <1>1, ElementOfSeq
  <1>3. SubSeq(s, 1, Len(s) - 1) \in Seq(S)
    BY <1>1, <1>2, SubSeqProperties
  <1>4. /\ Len(SubSeq(s, 1, Len(s) - 1)) = Len(s) - 1
        /\ \A i \in 1 .. Len(s) - 1 : SubSeq(s, 1, Len(s) - 1)[i] = s[i]
    BY <1>1, <1>2, SubSeqProperties
  <1> QED
    BY <1>1, <1>3, <1>4, LenProperties

(* The id a spawn takes is dead and is not INVALID_ENTITY, so spawnEntity  *)
(* appends a slot: its branch for a dead slot in the lookup is never taken.*)
LEMMA SpawnTakesDeadId ==
  ASSUME IInv, liveCount < MaxLive
  PROVE  /\ SpawnId \in EntityIds
         /\ SpawnId # INVALID_ENTITY
         /\ SpawnId \notin LiveIds
         /\ SpawnId <= nextId
  <1> USE BoundsAssumption
  <1>1. CASE freePool = <<>>
    <2>1. nextId = liveCount
      BY <1>1 DEF IInv, NoIdExhaustion, EntityTypeOK
    <2>2. nextId \in Nat /\ nextId < MaxLive
      BY <2>1 DEF IInv, EntityTypeOK, EntityIds
    <2>3. nextId \notin LiveIds
      BY <2>2 DEF IInv, IdsPartitioned
    <2> QED
      BY <1>1, <2>2, <2>3 DEF SpawnId, EntityIds, INVALID_ENTITY
  <1>2. CASE freePool # <<>>
    <2>1. Len(freePool) \in DOMAIN freePool
      BY <1>2 DEF IInv, EntityTypeOK
    <2>2. SpawnId \in FreeIds
      BY <1>2, <2>1 DEF SpawnId, FreeIds
    <2>3. SpawnId \in 0 .. nextId - 1 /\ SpawnId \notin LiveIds
      BY <2>2 DEF IInv, IdsPartitioned
    <2> QED
      BY <2>3 DEF IInv, NoIdExhaustion, EntityTypeOK, EntityIds, INVALID_ENTITY
  <1> QED
    BY <1>1, <1>2

(* getEntity finds finitely many ids, all of them issued before.           *)
LEMMA LiveIdsFinite ==
  ASSUME IInv
  PROVE  IsFiniteSet(LiveIds)
  <1>1. nextId - 1 \in Int
    BY DEF IInv, EntityTypeOK, EntityIds
  <1>2. IsFiniteSet(0 .. nextId - 1)
    BY <1>1, FS_Interval
  <1>3. LiveIds \in SUBSET (0 .. nextId - 1)
    BY DEF IInv, IdsPartitioned
  <1> QED
    BY <1>2, <1>3, FS_Subset

(* The slot a spawn fills holds values of the Entity's types.              *)
LEMMA FreshSlotTyped ==
  ASSUME NEW p \in Prototypes, NEW id \in EntityIds
  PROVE  Slot(id, TRUE, FreshBody(p)) \in SlotType
  BY PrototypesAssumption
  DEF Slot, SlotType, FreshBody, Body, BodyType, PrototypeType

(* What a spawn does to the array and the lookup.                          *)
LEMMA SpawnAppends ==
  ASSUME IInv, liveCount < MaxLive, NEW p \in Prototypes, SpawnEntity(p)
  PROVE  /\ slots' = Append(slots, Slot(SpawnId, TRUE, FreshBody(p)))
         /\ lookup' = [k \in LiveIds \cup {SpawnId} |->
                         IF k = SpawnId THEN Len(slots) + 1 ELSE lookup[k]]
  BY SpawnTakesDeadId DEF SpawnEntity, LiveIds

(* A new EntitySystem satisfies the invariant.                             *)
LEMMA InitIInv == EntityInit => IInv
  BY BoundsAssumption, FS_EmptySet
  DEF EntityInit, IInv, EntityTypeOK, LookupExact, IdsPartitioned,
      NoIdExhaustion, LiveCountExact, LiveIds, FreeIds, EntityIds

(* spawnEntity keeps the invariant: its id comes from the pool's back or   *)
(* from m_nextId, and its slot is the array's new last one                 *)
(* (EntitySystem.cpp:7-42).                                                *)
LEMMA SpawnPreserves ==
  ASSUME IInv, EntitySpawn
  PROVE  IInv'
  <1> PICK p \in Prototypes : SpawnEntity(p)
    BY DEF EntitySpawn
  <1> DEFINE id == SpawnId
             e  == Slot(id, TRUE, FreshBody(p))
  <1>0. liveCount < MaxLive
    BY DEF EntitySpawn
  <1>1. /\ id \in EntityIds /\ id # INVALID_ENTITY /\ id \notin LiveIds
        /\ id <= nextId
    BY <1>0, SpawnTakesDeadId
  <1>2. /\ slots' = Append(slots, e)
        /\ lookup' = [k \in LiveIds \cup {id} |->
                        IF k = id THEN Len(slots) + 1 ELSE lookup[k]]
    BY <1>0, SpawnAppends
  <1>3. e \in SlotType /\ e.alive = TRUE /\ e.id = id
    BY <1>1, FreshSlotTyped DEF Slot
  <1>4. /\ slots \in Seq(SlotType) /\ slots' \in Seq(SlotType)
        /\ DOMAIN slots = 1 .. Len(slots)
        /\ DOMAIN slots' = 1 .. Len(slots) + 1
        /\ \A i \in DOMAIN slots : slots'[i] = slots[i]
        /\ slots'[Len(slots) + 1] = e
        /\ Len(slots) \in Nat
    <2> HIDE DEF e
    <2> QED
      BY <1>2, <1>3, PushBack DEF IInv, EntityTypeOK
  <1>5. LiveIds' = LiveIds \cup {id}
    BY <1>2 DEF LiveIds
  <1> HIDE DEF id, e
  <1>6. /\ freePool' \in Seq(EntityIds)
        /\ nextId' \in EntityIds
        /\ liveCount' \in Nat
        /\ NoIdExhaustion'
    <2>1. CASE freePool = <<>>
      <3>1. nextId' = (nextId + 1) % EntityIdSpace /\ freePool' = freePool
            /\ liveCount' = liveCount + 1
        BY <2>1 DEF SpawnEntity, TakeId
      <3>2. nextId = liveCount /\ nextId + 1 <= MaxLive /\ nextId \in Nat
        BY <2>1, <1>0, BoundsAssumption
        DEF IInv, NoIdExhaustion, EntityTypeOK, EntityIds
      <3>3. nextId' = nextId + 1
        BY <3>1, <3>2, BoundsAssumption
      <3> QED
        BY <2>1, <3>1, <3>2, <3>3, BoundsAssumption
        DEF IInv, EntityTypeOK, NoIdExhaustion, EntityIds
    <2>2. CASE freePool # <<>>
      <3>1. /\ freePool' = SubSeq(freePool, 1, Len(freePool) - 1)
            /\ nextId' = nextId /\ liveCount' = liveCount + 1
        BY <2>2 DEF SpawnEntity, TakeId
      <3>2. freePool \in Seq(EntityIds) /\ Len(freePool) \in Nat \ {0}
        BY <2>2 DEF IInv, EntityTypeOK
      <3>3. freePool' \in Seq(EntityIds) /\ Len(freePool') = Len(freePool) - 1
        BY <2>2, <3>1, <3>2, PopBack
      <3>4. /\ liveCount \in Nat /\ nextId \in EntityIds
            /\ nextId = liveCount + Len(freePool) /\ nextId <= MaxLive
        BY DEF IInv, EntityTypeOK, NoIdExhaustion
      <3>5. nextId' = nextId /\ liveCount' = liveCount + 1
        BY <3>1
      <3>6. Len(freePool) \in Nat /\ Len(freePool') = Len(freePool) - 1
        BY <3>2, <3>3
      <3>7. nextId' = liveCount' + Len(freePool') /\ nextId' <= MaxLive
        BY <3>4, <3>5, <3>6
      <3>8. NoIdExhaustion'
        BY <3>7 DEF NoIdExhaustion
      <3> QED
        BY <3>3, <3>4, <3>5, <3>8
    <2> QED
      BY <2>1, <2>2
  <1>7. EntityTypeOK'
    <2>1. \A k \in LiveIds' : lookup'[k] \in DOMAIN slots'
      BY <1>2, <1>4 DEF IInv, EntityTypeOK, LiveIds
    <2> QED
      BY <1>1, <1>4, <1>5, <1>6, <2>1 DEF IInv, EntityTypeOK, LiveIds
  <1>8. LookupExact'
    <2>1. ASSUME NEW k \in LiveIds'
          PROVE  slots'[lookup'[k]].alive /\ slots'[lookup'[k]].id = k
      <3>1. CASE k = id
        BY <3>1, <1>2, <1>3, <1>4
      <3>2. CASE k # id
        <4>1. k \in LiveIds /\ lookup'[k] = lookup[k]
          BY <3>2, <1>2, <1>5
        <4> QED
          BY <4>1, <1>4 DEF IInv, LookupExact, EntityTypeOK, LiveIds
      <3> QED
        BY <3>1, <3>2
    <2>2. ASSUME NEW i \in DOMAIN slots'
          PROVE  IF slots'[i].alive
                   THEN slots'[i].id \in LiveIds' /\ lookup'[slots'[i].id] = i
                   ELSE slots'[i].id = INVALID_ENTITY
      <3>1. CASE i = Len(slots) + 1
        BY <3>1, <1>2, <1>3, <1>4, <1>5
      <3>2. CASE i \in DOMAIN slots
        <4>1. slots'[i] = slots[i]
          BY <3>2, <1>4
        <4>2. slots[i].alive => /\ slots[i].id \in LiveIds
                                /\ slots[i].id # id
                                /\ lookup[slots[i].id] = i
          BY <3>2, <1>1 DEF IInv, LookupExact
        <4> QED
          BY <3>2, <4>1, <4>2, <1>2, <1>5 DEF IInv, LookupExact
      <3> QED
        BY <3>1, <3>2, <1>4
    <2> QED
      BY <2>1, <2>2 DEF LookupExact, LiveIds
  <1>9. IdsPartitioned'
    <2>1. CASE freePool = <<>>
      <3>0. nextId \in Nat /\ nextId + 1 < EntityIdSpace
        BY <2>1, <1>0, BoundsAssumption
        DEF IInv, NoIdExhaustion, EntityTypeOK, EntityIds
      <3>1. freePool' = freePool /\ nextId' = nextId + 1 /\ id = nextId
        BY <2>1, <3>0, BoundsAssumption DEF SpawnEntity, TakeId, id, SpawnId
      <3>2. FreeIds = {} /\ FreeIds' = {}
        BY <2>1, <3>1 DEF FreeIds
      <3>3. nextId \in Nat
        BY DEF IInv, EntityTypeOK, EntityIds
      <3>4. LiveIds = 0 .. nextId - 1
        BY <3>2 DEF IInv, IdsPartitioned
      <3>5. LiveIds' = 0 .. nextId' - 1
        BY <3>1, <3>3, <3>4, <1>5
      <3> QED
        BY <2>1, <3>1, <3>2, <3>5 DEF IdsPartitioned
    <2>2. CASE freePool # <<>>
      <3> DEFINE n == Len(freePool)
      <3>1. /\ freePool' = SubSeq(freePool, 1, n - 1)
            /\ nextId' = nextId /\ id = freePool[n]
        BY <2>2 DEF SpawnEntity, TakeId, id, SpawnId
      <3>2. freePool \in Seq(EntityIds) /\ n \in Nat \ {0}
            /\ DOMAIN freePool = 1 .. n
        BY <2>2 DEF IInv, EntityTypeOK
      <3>3. /\ DOMAIN freePool' = 1 .. n - 1
            /\ \A i \in 1 .. n - 1 : freePool'[i] = freePool[i]
        BY <2>2, <3>1, <3>2, PopBack
      <3>4. \A i, j \in 1 .. n : freePool[i] = freePool[j] => i = j
        BY <3>2 DEF IInv, IdsPartitioned
      <3>5. FreeIds' = FreeIds \ {id}
        <4>1. FreeIds = {freePool[i] : i \in 1 .. n}
          BY <3>2 DEF FreeIds
        <4>2. FreeIds' = {freePool'[i] : i \in 1 .. n - 1}
          BY <3>3 DEF FreeIds
        <4>3. 1 .. n = (1 .. n - 1) \cup {n} /\ n \notin 1 .. n - 1
          BY <3>2
        <4> HIDE DEF n
        <4>4. \A i \in 1 .. n - 1 : freePool[i] # freePool[n]
          BY <3>4, <4>3
        <4> QED
          BY <3>1, <3>3, <4>1, <4>2, <4>3, <4>4
      <3>6. id \in FreeIds
        BY <3>1, <3>2 DEF FreeIds
      <3>7. \A i, j \in DOMAIN freePool' : freePool'[i] = freePool'[j] => i = j
        BY <3>2, <3>3, <3>4
      <3> QED
        BY <3>1, <3>5, <3>6, <3>7, <1>5 DEF IInv, IdsPartitioned
    <2> QED
      BY <2>1, <2>2
  <1>10. LiveCountExact'
    <2>1. Cardinality(LiveIds') = Cardinality(LiveIds) + 1
      BY <1>1, <1>5, LiveIdsFinite, FS_AddElement
    <2>2. liveCount' = liveCount + 1
      BY DEF SpawnEntity
    <2> QED
      BY <2>1, <2>2 DEF IInv, LiveCountExact
  <1> QED
    BY <1>6, <1>7, <1>8, <1>9, <1>10 DEF IInv

(* What a destroy does, in the terms of the invariant.                     *)
LEMMA DestroyFacts ==
  ASSUME IInv, NEW id \in EntityIds, DestroyEntity(id)
  PROVE  LET x == lookup[id]
         IN  /\ id \in LiveIds /\ x \in DOMAIN slots
             /\ slots' \in Seq(SlotType) /\ Len(slots') = Len(slots)
             /\ slots'[x].alive = FALSE /\ slots'[x].id = INVALID_ENTITY
             /\ \A i \in DOMAIN slots : i # x => slots'[i] = slots[i]
             /\ LiveIds' = LiveIds \ {id}
             /\ \A k \in LiveIds' : lookup'[k] = lookup[k] /\ lookup[k] # x
  <1> DEFINE x == lookup[id]
             e == Slot(INVALID_ENTITY, FALSE, slots[x].body)
  <1>1. id \in LiveIds /\ x \in DOMAIN slots
    BY DEF DestroyEntity, Exists, IInv, EntityTypeOK, LiveIds
  <1>2. slots[x] \in SlotType
    BY <1>1 DEF IInv, EntityTypeOK
  <1>3. INVALID_ENTITY \in EntityIds
    BY BoundsAssumption DEF EntityIds, INVALID_ENTITY
  <1>4. e \in SlotType /\ e.alive = FALSE /\ e.id = INVALID_ENTITY
    BY <1>2, <1>3 DEF Slot, SlotType
  <1>5. slots' = [slots EXCEPT ![x] = e]
    BY DEF DestroyEntity
  <1>6. LiveIds' = LiveIds \ {id} /\ \A k \in LiveIds' : lookup'[k] = lookup[k]
    BY DEF DestroyEntity, LiveIds
  <1>7. \A k \in LiveIds : k # id => lookup[k] # x
    BY <1>1 DEF IInv, LookupExact
  <1> HIDE DEF x, e
  <1>8. slots' \in Seq(SlotType) /\ Len(slots') = Len(slots)
    BY <1>1, <1>4, <1>5 DEF IInv, EntityTypeOK
  <1>9. slots'[x] = e /\ \A i \in DOMAIN slots : i # x => slots'[i] = slots[i]
    BY <1>1, <1>5 DEF IInv, EntityTypeOK
  <1> QED
    BY <1>1, <1>4, <1>6, <1>7, <1>8, <1>9 DEF x

(* destroyEntity keeps the invariant: slot, lookup, pool and count change  *)
(* together (EntitySystem.cpp:44-60).                                      *)
LEMMA DestroyPreserves ==
  ASSUME IInv, EntityDestroy
  PROVE  IInv'
  <1> PICK id \in EntityIds : DestroyEntity(id)
    BY DEF EntityDestroy
  <1> DEFINE x == lookup[id]
  <1>1. /\ id \in LiveIds /\ x \in DOMAIN slots
        /\ slots' \in Seq(SlotType) /\ Len(slots') = Len(slots)
        /\ slots'[x].alive = FALSE /\ slots'[x].id = INVALID_ENTITY
        /\ \A i \in DOMAIN slots : i # x => slots'[i] = slots[i]
        /\ LiveIds' = LiveIds \ {id}
        /\ \A k \in LiveIds' : lookup'[k] = lookup[k] /\ lookup[k] # x
    BY DestroyFacts
  <1>2. /\ freePool' = Append(freePool, id)
        /\ nextId' = nextId /\ liveCount' = liveCount - 1
    BY DEF DestroyEntity
  <1>3. DOMAIN slots' = DOMAIN slots
    BY <1>1 DEF IInv, EntityTypeOK
  <1>4. /\ freePool \in Seq(EntityIds) /\ freePool' \in Seq(EntityIds)
        /\ Len(freePool') = Len(freePool) + 1
        /\ DOMAIN freePool' = 1 .. Len(freePool) + 1
        /\ DOMAIN freePool = 1 .. Len(freePool)
        /\ \A i \in DOMAIN freePool : freePool'[i] = freePool[i]
        /\ freePool'[Len(freePool) + 1] = id
        /\ Len(freePool) \in Nat
    BY <1>2 DEF IInv, EntityTypeOK
  <1>5. FreeIds' = FreeIds \cup {id}
    BY <1>4 DEF FreeIds
  <1>6. liveCount' \in Nat /\ liveCount = liveCount' + 1 /\ LiveCountExact'
    <2>1. IsFiniteSet(LiveIds)
      BY LiveIdsFinite
    <2>2. Cardinality(LiveIds') = Cardinality(LiveIds) - 1
      BY <1>1, <2>1, FS_RemoveElement
    <2>3. Cardinality(LiveIds') \in Nat
      BY <1>1, <2>1, FS_RemoveElement, FS_CardinalityType
    <2> QED
      BY <1>2, <2>2, <2>3 DEF IInv, LiveCountExact, EntityTypeOK
  <1>7. EntityTypeOK' /\ NoIdExhaustion'
    <2>1. \A k \in LiveIds' : lookup'[k] \in DOMAIN slots'
      BY <1>1, <1>3 DEF IInv, EntityTypeOK, LiveIds
    <2> QED
      BY <1>1, <1>2, <1>4, <1>6, <2>1
      DEF IInv, EntityTypeOK, NoIdExhaustion, LiveIds
  <1>8. LookupExact'
    <2>1. ASSUME NEW k \in LiveIds'
          PROVE  slots'[lookup'[k]].alive /\ slots'[lookup'[k]].id = k
      BY <1>1 DEF IInv, LookupExact, EntityTypeOK, LiveIds
    <2>2. ASSUME NEW i \in DOMAIN slots'
          PROVE  IF slots'[i].alive
                   THEN slots'[i].id \in LiveIds' /\ lookup'[slots'[i].id] = i
                   ELSE slots'[i].id = INVALID_ENTITY
      <3>1. CASE i = x
        BY <3>1, <1>1
      <3>2. CASE i # x
        <4>1. slots'[i] = slots[i] /\ i \in DOMAIN slots
          BY <3>2, <1>1, <1>3
        <4>2. slots[i].alive => slots[i].id \in LiveIds /\ slots[i].id # id
          BY <3>2, <4>1 DEF IInv, LookupExact
        <4> QED
          BY <4>1, <4>2, <1>1 DEF IInv, LookupExact
      <3> QED
        BY <3>1, <3>2
    <2> QED
      BY <2>1, <2>2 DEF LookupExact
  <1>9. IdsPartitioned'
    <2>1. id \notin FreeIds
      BY <1>1 DEF IInv, IdsPartitioned
    <2>2. \A i \in DOMAIN freePool : freePool[i] # id
      BY <2>1 DEF FreeIds
    <2>3. \A i, j \in DOMAIN freePool' : freePool'[i] = freePool'[j] => i = j
      BY <1>4, <2>2 DEF IInv, IdsPartitioned
    <2> QED
      BY <1>1, <1>2, <1>5, <2>3 DEF IInv, IdsPartitioned
  <1> QED
    BY <1>6, <1>7, <1>8, <1>9 DEF IInv

(* The physics of a tick turns a body into a body.                         *)
LEMMA IntegrateTyped ==
  ASSUME NEW b \in BodyType, NEW tick \in Nat
  PROVE  Integrate(b, tick) \in BodyType
  BY DEF Integrate, Body, BodyType

(* tickUpdate moves the living and keeps every slot's id and liveness.     *)
LEMMA TickFacts ==
  ASSUME IInv, EntityTick
  PROVE  /\ slots' \in Seq(SlotType) /\ Len(slots') = Len(slots)
         /\ DOMAIN slots' = DOMAIN slots
         /\ \A i \in DOMAIN slots :
              /\ slots'[i].alive <=> slots[i].alive
              /\ slots'[i].id = slots[i].id
              /\ ~slots[i].alive => slots'[i] = slots[i]
  <1>1. PICK tick \in 1 .. MaxTick : TickUpdate(tick)
    BY DEF EntityTick
  <1>2. tick \in Nat
    BY BoundsAssumption
  <1> DEFINE moved(i) == [slots[i] EXCEPT !.body = Integrate(@, tick)]
  <1>3. slots' = [i \in DOMAIN slots |->
                    IF slots[i].alive THEN moved(i) ELSE slots[i]]
    BY <1>1 DEF TickUpdate
  <1>4. /\ slots \in Seq(SlotType) /\ Len(slots) \in Nat
        /\ DOMAIN slots = 1 .. Len(slots)
        /\ \A i \in DOMAIN slots : slots[i] \in SlotType
    BY DEF IInv, EntityTypeOK
  <1>5. ASSUME NEW i \in DOMAIN slots
        PROVE  moved(i) \in SlotType /\ (moved(i).alive <=> slots[i].alive)
                                     /\ moved(i).id = slots[i].id
    <2>1. slots[i] \in SlotType /\ Integrate(slots[i].body, tick) \in BodyType
      BY <1>2, <1>4, IntegrateTyped DEF SlotType
    <2> QED
      BY <2>1 DEF SlotType
  <1> HIDE DEF moved
  <1>6. slots' \in [1 .. Len(slots) -> SlotType]
    BY <1>3, <1>4, <1>5
  <1> QED
    BY <1>3, <1>4, <1>5, <1>6

(* tickUpdate keeps the invariant: it touches no id and no liveness        *)
(* (EntitySystem.cpp:80-90).                                               *)
LEMMA TickPreserves ==
  ASSUME IInv, EntityTick
  PROVE  IInv'
  <1>1. UNCHANGED <<lookup, freePool, nextId, liveCount>>
    BY DEF EntityTick, TickUpdate
  <1>2. LiveIds' = LiveIds /\ FreeIds' = FreeIds
    BY <1>1 DEF LiveIds, FreeIds
  <1>3. EntityTypeOK'
    BY <1>1, TickFacts DEF IInv, EntityTypeOK
  <1>4. LookupExact'
    <2>1. \A k \in LiveIds : lookup'[k] = lookup[k] /\ lookup[k] \in DOMAIN slots
      BY <1>1 DEF IInv, EntityTypeOK, LiveIds
    <2>2. \A k \in LiveIds' : slots'[lookup'[k]].alive /\ slots'[lookup'[k]].id = k
      BY <1>2, <2>1, TickFacts DEF IInv, LookupExact
    <2>3. ASSUME NEW i \in DOMAIN slots'
          PROVE  IF slots'[i].alive
                   THEN slots'[i].id \in LiveIds' /\ lookup'[slots'[i].id] = i
                   ELSE slots'[i].id = INVALID_ENTITY
      <3>1. /\ i \in DOMAIN slots /\ (slots'[i].alive <=> slots[i].alive)
            /\ slots'[i].id = slots[i].id
        BY TickFacts
      <3> QED
        BY <1>1, <1>2, <3>1 DEF IInv, LookupExact
    <2> QED
      BY <2>2, <2>3 DEF LookupExact
  <1>5. IdsPartitioned' /\ NoIdExhaustion' /\ LiveCountExact'
    BY <1>1, <1>2 DEF IInv, IdsPartitioned, NoIdExhaustion, LiveCountExact
  <1> QED
    BY <1>3, <1>4, <1>5 DEF IInv

(* A step that changes no field of the class keeps the invariant.          *)
LEMMA StutterPreserves ==
  ASSUME IInv, UNCHANGED entityVars
  PROVE  IInv'
  BY DEF entityVars, IInv, EntityTypeOK, LookupExact, IdsPartitioned,
         NoIdExhaustion, LiveCountExact, LiveIds, FreeIds

(* Every step keeps the invariant.                                         *)
LEMMA NextPreserves == IInv /\ [EntityNext]_entityVars => IInv'
  BY SpawnPreserves, DestroyPreserves, TickPreserves, StutterPreserves
  DEF EntityNext

(* The inductive invariant holds of every behaviour.                       *)
THEOREM EntityInductive == EntitySpec => []IInv
  <1> QED
    BY InitIInv, NextPreserves, PTL DEF EntitySpec

(* Every field keeps its type and no lookup leaves the array               *)
(* (EntitySystem.cpp:7-60).                                                *)
THEOREM EntityTyped == EntitySpec => []EntityTypeOK
  <1>1. IInv => EntityTypeOK
    BY DEF IInv
  <1> QED
    BY <1>1, EntityInductive, PTL

(* getEntity finds exactly the living entities, each in its own slot.      *)
THEOREM LookupIsExact == EntitySpec => []LookupExact
  <1>1. IInv => LookupExact
    BY DEF IInv
  <1> QED
    BY <1>1, EntityInductive, PTL

(* No id is living twice, free twice, or living and free.                  *)
THEOREM IdsArePartitioned == EntitySpec => []IdsPartitioned
  <1>1. IInv => IdsPartitioned
    BY DEF IInv
  <1> QED
    BY <1>1, EntityInductive, PTL

(* The pool does avoid id exhaustion, for any number of spawns and         *)
(* destroys.                                                               *)
THEOREM IdsNeverExhausted == EntitySpec => []NoIdExhaustion
  <1>1. IInv => NoIdExhaustion
    BY DEF IInv
  <1> QED
    BY <1>1, EntityInductive, PTL

(* liveCount() counts the entities getEntity finds.                        *)
THEOREM LiveCountIsExact == EntitySpec => []LiveCountExact
  <1>1. IInv => LiveCountExact
    BY DEF IInv
  <1> QED
    BY <1>1, EntityInductive, PTL

(* A dead slot stays dead and a living slot keeps its id until it dies.    *)
THEOREM SlotsKeepTheirEntity == EntitySpec => SlotsNeverChangeHands
  <1> DEFINE Kept == \A i \in DOMAIN slots :
                       /\ ~slots[i].alive => slots'[i] = slots[i]
                       /\ slots'[i].alive => slots'[i].id = slots[i].id
  <1>1. ASSUME IInv, EntitySpawn PROVE Kept
    <2>1. PICK p \in Prototypes : SpawnEntity(p)
      BY <1>1 DEF EntitySpawn
    <2>2. liveCount < MaxLive
      BY <1>1 DEF EntitySpawn
    <2>3. slots' = Append(slots, Slot(SpawnId, TRUE, FreshBody(p)))
      BY <1>1, <2>1, <2>2, SpawnAppends
    <2>4. Slot(SpawnId, TRUE, FreshBody(p)) \in SlotType
      BY <1>1, <2>2, SpawnTakesDeadId, FreshSlotTyped
    <2> DEFINE e == Slot(SpawnId, TRUE, FreshBody(p))
    <2>5. \A i \in DOMAIN slots : slots'[i] = slots[i]
      <3>1. slots' = Append(slots, e) /\ e \in SlotType /\ slots \in Seq(SlotType)
        BY <1>1, <2>3, <2>4 DEF IInv, EntityTypeOK
      <3> HIDE DEF e
      <3> QED
        BY <3>1, PushBack
    <2> QED
      BY <2>5
  <1>2. ASSUME IInv, EntityDestroy PROVE Kept
    <2>1. PICK id \in EntityIds : DestroyEntity(id)
      BY <1>2 DEF EntityDestroy
    <2>2. slots[lookup[id]].alive
      BY <2>1 DEF DestroyEntity, Exists
    <2> QED
      BY <1>2, <2>1, <2>2, DestroyFacts
  <1>3. ASSUME IInv, EntityTick PROVE Kept
    <2>1. \A i \in DOMAIN slots :
            /\ slots'[i].id = slots[i].id
            /\ ~slots[i].alive => slots'[i] = slots[i]
      BY <1>3, TickFacts
    <2> QED
      BY <2>1
  <1>4. UNCHANGED entityVars => Kept
    BY DEF entityVars
  <1>5. IInv /\ [EntityNext]_entityVars => [Kept]_entityVars
    BY <1>1, <1>2, <1>3, <1>4 DEF EntityNext
  <1> QED
    BY <1>5, EntityInductive, PTL DEF EntitySpec, SlotsNeverChangeHands

-----------------------------------------------------------------------------
(* The refinement: the world a caller sees through getEntity.              *)
SeenWorld == [id \in LiveIds |-> slots[lookup[id]].body]

(* A spawn looks to the callers of getEntity like the creation of one      *)
(* entity, the others unchanged.                                           *)
LEMMA SpawnCreates ==
  ASSUME IInv, EntitySpawn
  PROVE  World!Create
  <1> PICK p \in Prototypes : SpawnEntity(p)
    BY DEF EntitySpawn
  <1>0. liveCount < MaxLive
    BY DEF EntitySpawn
  <1> DEFINE id == SpawnId
             e  == Slot(id, TRUE, FreshBody(p))
  <1>1. /\ id \in EntityIds \ {INVALID_ENTITY} /\ id \notin LiveIds
        /\ e \in SlotType /\ e.body = FreshBody(p)
    BY <1>0, SpawnTakesDeadId, FreshSlotTyped DEF Slot
  <1>2. /\ slots' = Append(slots, e)
        /\ lookup' = [k \in LiveIds \cup {id} |->
                        IF k = id THEN Len(slots) + 1 ELSE lookup[k]]
    BY <1>0, SpawnAppends
  <1>3. LiveIds' = LiveIds \cup {id}
    BY <1>2 DEF LiveIds
  <1> HIDE DEF id, e
  <1>4. /\ \A i \in DOMAIN slots : slots'[i] = slots[i]
        /\ slots'[Len(slots) + 1] = e
    BY <1>1, <1>2, PushBack DEF IInv, EntityTypeOK
  <1>5. \A k \in LiveIds : k # id /\ lookup[k] \in DOMAIN slots
    BY <1>1 DEF IInv, EntityTypeOK, LiveIds
  <1>6. SeenWorld' = [k \in LiveIds \cup {id} |->
                        IF k = id THEN FreshBody(p) ELSE SeenWorld[k]]
    BY <1>1, <1>2, <1>3, <1>4, <1>5 DEF SeenWorld
  <1>7. DOMAIN SeenWorld = LiveIds
    BY DEF SeenWorld
  <1> QED
    BY <1>1, <1>6, <1>7 DEF World!Create, SeenWorld

(* A destroy looks to them like the removal of one entity.                 *)
LEMMA DestroyRemoves ==
  ASSUME IInv, EntityDestroy
  PROVE  World!Remove
  <1> PICK id \in EntityIds : DestroyEntity(id)
    BY DEF EntityDestroy
  <1>1. id \in LiveIds /\ LiveIds' = LiveIds \ {id}
    BY DestroyFacts
  <1>2. \A k \in LiveIds' : slots'[lookup'[k]] = slots[lookup[k]]
    BY <1>1, DestroyFacts DEF IInv, EntityTypeOK, LiveIds
  <1>3. SeenWorld' = [k \in LiveIds \ {id} |-> SeenWorld[k]]
    BY <1>1, <1>2 DEF SeenWorld
  <1>4. DOMAIN SeenWorld = LiveIds
    BY DEF SeenWorld
  <1> QED
    BY <1>1, <1>3, <1>4 DEF World!Remove, SeenWorld

(* A tick looks to them like every entity advancing by one tick, in the    *)
(* second of the two orders they must reckon with.                         *)
LEMMA TickAdvances ==
  ASSUME IInv, EntityTick
  PROVE  World!Advance
  <1>1. PICK tick \in 1 .. MaxTick : TickUpdate(tick)
    BY DEF EntityTick
  <1>2. UNCHANGED lookup /\ LiveIds' = LiveIds
    BY <1>1 DEF TickUpdate, LiveIds
  <1> DEFINE moved(b) == [b EXCEPT !.pos = b.pos + (b.vel + b.accel),
                                   !.vel = b.vel + b.accel,
                                   !.lastUpdateTick = tick]
  <1>3. ASSUME NEW b \in BodyType PROVE Integrate(b, tick) = moved(b)
    <2> DEFINE r == [type |-> b.type, owner |-> b.owner, target |-> b.target,
                     pos |-> b.pos + (b.vel + b.accel), vel |-> b.vel + b.accel,
                     accel |-> b.accel, lastUpdateTick |-> tick]
    <2>2. Integrate(b, tick) = r
      BY DEF Integrate, Body
    <2>3. /\ DOMAIN b = {"type", "owner", "target", "pos", "vel", "accel",
                         "lastUpdateTick"}
          /\ b = [f \in DOMAIN b |-> b[f]]
      BY <1>3 DEF BodyType
    <2>4. moved(b) = [f \in DOMAIN b |->
                       IF f = "lastUpdateTick" THEN tick
                       ELSE IF f = "pos" THEN b.pos + (b.vel + b.accel)
                       ELSE IF f = "vel" THEN b.vel + b.accel ELSE b[f]]
      BY <2>3, Zenon
    <2>5. moved(b) = r
      BY <2>3, <2>4
    <2> QED
      BY <2>2, <2>5
  <1>4. ASSUME NEW k \in LiveIds
        PROVE  slots'[lookup'[k]].body = moved(slots[lookup[k]].body)
    <2>1. lookup[k] \in DOMAIN slots /\ slots[lookup[k]].alive
      BY DEF IInv, EntityTypeOK, LookupExact, LiveIds
    <2>2. slots[lookup[k]] \in SlotType
      BY <2>1 DEF IInv, EntityTypeOK
    <2>3. slots'[lookup[k]].body = Integrate(slots[lookup[k]].body, tick)
      BY <1>1, <2>1, <2>2 DEF TickUpdate, SlotType
    <2> QED
      BY <1>2, <1>3, <2>2, <2>3 DEF SlotType
  <1> HIDE DEF moved
  <1>5. SeenWorld' = [k \in LiveIds |-> moved(SeenWorld[k])]
    BY <1>2, <1>4 DEF SeenWorld
  <1>6. DOMAIN SeenWorld = LiveIds
    BY DEF SeenWorld
  <1>7. \E accelerateFirst \in BOOLEAN :
          SeenWorld' = [k \in DOMAIN SeenWorld |->
            [SeenWorld[k] EXCEPT
               !.pos = SeenWorld[k].pos +
                         (IF accelerateFirst THEN SeenWorld[k].vel + SeenWorld[k].accel
                          ELSE SeenWorld[k].vel),
               !.vel = SeenWorld[k].vel + SeenWorld[k].accel,
               !.lastUpdateTick = tick]]
    <2> WITNESS TRUE \in BOOLEAN
    <2> QED
      BY <1>5, <1>6 DEF moved
  <1> QED
    BY <1>7 DEF World!Advance, SeenWorld

(* The entity system implements the world its header promises: a spawn     *)
(* creates one entity, a destroy removes one, a tick moves all of them.    *)
THEOREM EntitySystemImplementsWorld == EntitySpec => ImplementsWorld
  <1>1. EntityInit => World!Init
    BY DEF EntityInit, World!Init, LiveIds
  <1>2. IInv /\ [EntityNext]_entityVars => [World!Next]_SeenWorld
    <2>1. UNCHANGED entityVars => UNCHANGED SeenWorld
      BY DEF entityVars, SeenWorld, LiveIds
    <2> QED
      BY <2>1, SpawnCreates, DestroyRemoves, TickAdvances DEF EntityNext, World!Next
  <1> QED
    BY <1>1, <1>2, EntityInductive, PTL
    DEF EntitySpec, ImplementsWorld, World!Spec, SeenWorld
=============================================================================
