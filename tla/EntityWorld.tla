----------------------------- MODULE EntityWorld -----------------------------
(***************************************************************************)
(* What GameLogic/EntitySystem.h promises its callers, with nothing of how *)
(* it is stored: a world that maps the identifiers of the living entities  *)
(* to their bodies.  EntitySystem implements it.                           *)
(***************************************************************************)
EXTENDS Integers

CONSTANTS EntityIds,  \* identifiers spawnEntity may return (never INVALID_ENTITY)
          Bodies,     \* the bodies spawnEntity may be asked for
          Ticks       \* the tick numbers tickUpdate may be given

VARIABLE world        \* a function from the ids of the living entities

(* "The entity's `id` field is set by the system": some id that no living  *)
(* entity has.                                                             *)
Create ==
  \E id \in EntityIds \ DOMAIN world, body \in Bodies :
    world' = [k \in DOMAIN world \cup {id} |->
                IF k = id THEN body ELSE world[k]]

(* "Destroy an entity by ID."                                              *)
Remove ==
  \E id \in DOMAIN world :
    world' = [k \in DOMAIN world \ {id} |-> world[k]]

(* Physics moves every living entity once and nothing else, all of them in *)
(* the same order: by the velocity they had, as the header's "pos += vel * *)
(* dt, vel += accel * dt" reads, or by the one they now have.  Callers may *)
(* rely on neither.                                                        *)
Advance ==
  \E tick \in Ticks, accelerateFirst \in BOOLEAN :
    world' = [k \in DOMAIN world |->
                [world[k] EXCEPT
                   !.pos = world[k].pos +
                             (IF accelerateFirst THEN world[k].vel + world[k].accel
                              ELSE world[k].vel),
                   !.vel = world[k].vel + world[k].accel,
                   !.lastUpdateTick = tick]]

Init == world = [id \in {} |-> 0]

Next == Create \/ Remove \/ Advance

Spec == Init /\ [][Next]_world
=============================================================================
