--------------------------- MODULE MCEntitySystem ---------------------------
(* A small EntitySystem for TLC: six ids, two prototypes that differ in    *)
(* what physics does to them.                                              *)
EXTENDS EntitySystem

MCEntityTypes == {"Ship", "Asteroid"}

MCPrototypes ==
  {[type |-> "Ship", owner |-> 0, target |-> EntityIdSpace - 1,
    pos |-> 0, vel |-> 0, accel |-> 0],
   [type |-> "Asteroid", owner |-> PlayerIdSpace - 1, target |-> EntityIdSpace - 1,
    pos |-> 1, vel |-> 1, accel |-> 1]}

=============================================================================
