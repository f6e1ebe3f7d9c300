---------------------------- MODULE ConnectionPool ----------------------------
(***************************************************************************)
(* What Database promises its callers: of the connections that are open,   *)
(* each is nobody's or one caller's, a caller has one at most, and         *)
(* connections are opened and closed only when nobody has one.             *)
(***************************************************************************)
CONSTANTS
  Connections,  \* SqlConnection objects
  Threads,      \* callers
  Nobody        \* not one of them

VARIABLE owner  \* whose an open connection is

Open == DOMAIN owner

Init == owner = [c \in {} |-> Nobody]

Connect(opened) ==
  /\ Open = {}
  /\ owner' = [c \in opened |-> Nobody]

Borrow(t, c) ==
  /\ owner[c] = Nobody
  /\ \A d \in Open : owner[d] # t
  /\ owner' = [owner EXCEPT ![c] = t]

Return(c) ==
  /\ owner[c] # Nobody
  /\ owner' = [owner EXCEPT ![c] = Nobody]

Close ==
  /\ \A c \in Open : owner[c] = Nobody
  /\ owner' = [c \in {} |-> Nobody]

Next ==
  \/ \E opened \in SUBSET Connections : Connect(opened)
  \/ \E c \in Open : Return(c) \/ \E t \in Threads : Borrow(t, c)
  \/ Close

Spec == Init /\ [][Next]_owner
=============================================================================
