--------------------------- MODULE MCServerSession ---------------------------
(* A server with one asteroid and three player ids: player 0 owns the test *)
(* ship, player 1 finds its id taken by that ship, player 2 gets one of    *)
(* its own, as INVALID_PLAYER, and the fourth endpoint is player 0 again.  *)
EXTENDS ServerSession

MCEntityTypes == {"Ship", "Asteroid"}

MCPrototypes == {Ship(pid) : pid \in PlayerIds}

Cmd(action, target, entity, claimed) ==
  [action |-> action, target |-> target, targetEntity |-> entity, playerId |-> claimed]

(* Commands whose claimed player id is someone else's for all but one.     *)
MCCmdInputs == {Cmd("Move", 3, INVALID_ENTITY, 2), Cmd("Stop", 0, INVALID_ENTITY, 0),
                Cmd("Attack", 0, 0, 0)}

(* The endpoints are alike: that they are first heard in the order of      *)
(* their names leaves nothing out.                                         *)
HeardInOrder ==
  \A ep \in DOMAIN clients' : \A e \in Endpoints : e < ep => e \in DOMAIN clients'

=============================================================================
