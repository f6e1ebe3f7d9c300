------------------------- MODULE ServerSessionProofs -------------------------
(***************************************************************************)
(* Who is which player, which ship is whose, and whom a ship obeys, for    *)
(* every number of clients, asteroids, ids, commands and ticks.            *)
(*                                                                         *)
(* The server destroys nothing, so that the entities are numbered as they  *)
(* came: the asteroids, the test ship, then one ship for each player whose *)
(* id is above the asteroids'.  The invariant says so, and that the player *)
(* ids are given out round after round; what a queue of commands does is   *)
(* an induction over its length.                                           *)
(***************************************************************************)
EXTENDS ServerSession, FiniteSetTheorems, SequenceTheorems, TLAPS

(* What the server keeps in m_entities: nothing dies there.                *)
Hull == [type: {"Ship", "Asteroid"}, owner: PlayerIds, target: EntityIds,
         pos: Int, vel: Int, accel: Int, lastUpdateTick: Nat]

Thing == [id: Nat, alive: {TRUE}, body: Hull]

(* The entities are numbered as they came, and the number of a player's    *)
(* ship is the player's own but for the test ship.                         *)
Fleet(ss) ==
  /\ ss \in Seq(Thing)
  /\ \A i \in DOMAIN ss :
       /\ ss[i].id = i - 1
       /\ ss[i].body.type = IF i <= NumAsteroids THEN "Asteroid" ELSE "Ship"
       /\ i > NumAsteroids => ss[i].body.owner = IF i = NumAsteroids + 1 THEN 0 ELSE i - 1

(* No id has been freed; the lookup finds each entity where it came.       *)
Numbered ==
  /\ freePool = <<>> /\ nextId = Len(slots)
  /\ lookup = [id \in 0 .. Len(slots) - 1 |-> id + 1]

(* The number of clients, and of the player ids given out to them.         *)
Count == Cardinality(DOMAIN clients)

IdsGiven == IF Count < PlayerIdSpace THEN Count ELSE PlayerIdSpace

(* After q rounds through the player ids each has q holders, those of the  *)
(* round under way one more.                                               *)
RoundsDone(q) ==
  /\ Count = q * PlayerIdSpace + nextPlayerId
  /\ \A pid \in PlayerIds :
       /\ IsFiniteSet(Holders(pid))
       /\ Cardinality(Holders(pid)) = IF pid < nextPlayerId THEN q + 1 ELSE q

(* The players are numbered as they were first heard.                      *)
PlayersNumbered ==
  /\ DOMAIN clients \subseteq Endpoints
  /\ nextPlayerId \in 0 .. PlayerIdSpace - 1
  /\ Count < PlayerIdSpace => nextPlayerId = Count
  /\ \A ep \in DOMAIN clients : clients[ep].playerId \in 0 .. IdsGiven - 1
  /\ \A pid \in 0 .. IdsGiven - 1 : \E ep \in DOMAIN clients : clients[ep].playerId = pid
  /\ \E q \in Nat : RoundsDone(q)

(* Players above the asteroids have brought a ship each.                   *)
ShipsBrought ==
  Len(slots) = IF IdsGiven <= NumAsteroids + 1 THEN NumAsteroids + 1 ELSE IdsGiven

(* A command in the queue is its sender's.                                 *)
QueueOwned ==
  /\ pending \in Seq(CmdInputType)
  /\ issuers \subseteq DOMAIN clients
  /\ \A k \in DOMAIN pending :
       \E ep \in issuers : clients[ep].playerId = pending[k].playerId

(* Between the phases: the queue is empty but while packets are handled,   *)
(* and when a tick ends everything has moved in it.                        *)
PhasesDone ==
  /\ phase \in {"head", "packets", "physics", "broadcast", "stopped", "killed"}
  /\ tickNum \in Nat
  /\ phase \notin {"packets", "killed"} => pending = <<>>
  /\ phase = "broadcast" => \A i \in DOMAIN slots : slots[i].body.lastUpdateTick = tickNum
  /\ phase \in {"head", "stopped"} /\ tickNum > 0 =>
       \A i \in DOMAIN slots : slots[i].body.lastUpdateTick = tickNum - 1

ServerIInv ==
  /\ Fleet(slots)
  /\ Numbered
  /\ PlayersNumbered
  /\ ShipsBrought
  /\ QueueOwned
  /\ PhasesDone

-----------------------------------------------------------------------------
(* Induction up to n: were n not in T, the successor would map T one to    *)
(* one into T without 0.                                                   *)
LEMMA BoundedInduction ==
  ASSUME NEW n \in Nat, NEW T \in SUBSET (0 .. n), 0 \in T,
         \A k \in T : k < n => k + 1 \in T
  PROVE  n \in T
  <1> DEFINE succ == [k \in T |-> k + 1]
  <1>1. SUFFICES ASSUME n \notin T PROVE FALSE
    OBVIOUS
  <1>2. \A k \in T : k + 1 \in T \ {0}
    BY <1>1
  <1>3. /\ IsFiniteSet(T) /\ Cardinality(T) \in Nat
        /\ IsFiniteSet(T \ {0}) /\ Cardinality(T \ {0}) = Cardinality(T) - 1
    <2>1. IsFiniteSet(0 .. n)
      BY FS_Interval
    <2>2. IsFiniteSet(T)
      BY <2>1, FS_Subset
    <2>3. Cardinality(T) \in Nat
      BY <2>2, FS_CardinalityType
    <2> QED
      BY <2>2, <2>3, FS_RemoveElement
  <1>4. succ \in [T -> T \ {0}]
    BY <1>2
  <1>5. \A j, k \in T : succ[j] = succ[k] => j = k
    OBVIOUS
  <1>6. succ \in Injection(T, T \ {0})
    BY <1>4, <1>5 DEF Injection, IsInjective
  <1>7. Cardinality(T) <= Cardinality(T \ {0})
    BY <1>3, <1>6, FS_Injection
  <1> QED
    BY <1>3, <1>7

(* A series of states of the fleet, one after each command.                *)
IsSeries(after, ss, cmds) ==
  /\ after[0] = ss
  /\ \A k \in 1 .. Len(cmds) : after[k] = Execute(after[k - 1], cmds[k])

(* ExecuteAll is the last of a series in which each command meets what the *)
(* one before it left (SimulationEngine::phase1_inputProcessing).          *)
LEMMA ExecuteAllIsSeries ==
  ASSUME NEW ss, NEW cmds, Len(cmds) \in Nat
  PROVE  \E after : IsSeries(after, ss, cmds) /\ ExecuteAll(ss, cmds) = after[Len(cmds)]
  <1> DEFINE n == Len(cmds)
             Step(f, k) == IF k = 0 THEN ss ELSE Execute(f[k - 1], cmds[k])
             T == {m \in 0 .. n : \E f : f = [k \in 0 .. m |-> Step(f, k)]}
             after == CHOOSE f : f = [k \in 0 .. n |-> Step(f, k)]
  <1>1. 0 \in T
    <2>1. [k \in 0 .. 0 |-> ss] = [k \in 0 .. 0 |-> Step([j \in 0 .. 0 |-> ss], k)]
      OBVIOUS
    <2> DEFINE g == [j \in 0 .. 0 |-> ss]
    <2>2. g = [k \in 0 .. 0 |-> Step(g, k)]
      BY <2>1
    <2> HIDE DEF g, Step
    <2>3. \E f : f = [k \in 0 .. 0 |-> Step(f, k)]
      BY <2>2
    <2> QED
      BY <2>3
  <1>2. ASSUME NEW m \in T, m < n
        PROVE  m + 1 \in T
    <2>1. PICK f : f = [k \in 0 .. m |-> Step(f, k)]
      OBVIOUS
    <2> DEFINE g == [k \in 0 .. m + 1 |->
                       IF k = m + 1 THEN Execute(f[m], cmds[m + 1]) ELSE f[k]]
    <2>2. m \in Nat /\ \A k \in 0 .. m : f[k] = Step(f, k)
      BY <2>1
    <2>3. \A k \in 0 .. m + 1 : g[k] = Step(g, k)
      <3>1. SUFFICES ASSUME NEW k \in 0 .. m + 1 PROVE g[k] = Step(g, k)
        OBVIOUS
      <3>2. CASE k = 0
        BY <2>2, <3>2
      <3>3. CASE k = m + 1
        BY <2>2, <3>3
      <3>4. CASE k \in 1 .. m
        <4>1. g[k] = f[k] /\ g[k - 1] = f[k - 1]
          BY <2>2, <3>4
        <4> QED
          BY <2>2, <3>4, <4>1
      <3> QED
        BY <2>2, <3>2, <3>3, <3>4
    <2>4. g = [k \in 0 .. m + 1 |-> Step(g, k)]
      <3> HIDE DEF Step
      <3> QED
        BY <2>3
    <2> HIDE DEF g, Step
    <2>5. \E h : h = [k \in 0 .. m + 1 |-> Step(h, k)]
      BY <2>4
    <2> QED
      BY <1>2, <2>2, <2>5
  <1>3. n \in T
    <2> HIDE DEF T
    <2> QED
      BY <1>1, <1>2, BoundedInduction DEF T
  <1>4. after = [k \in 0 .. n |-> Step(after, k)]
    BY <1>3
  <1>5. ExecuteAll(ss, cmds) = after[n]
    BY DEF ExecuteAll
  <1> HIDE DEF after
  <1>6. IsSeries(after, ss, cmds)
    BY <1>4 DEF IsSeries
  <1> QED
    BY <1>5, <1>6

(* A non-empty set of positions has a greatest.                            *)
LEMMA GreatestPosition ==
  ASSUME NEW n \in Nat, NEW S \in SUBSET (1 .. n), S # {}
  PROVE  Max(S) \in S /\ \A k \in S : k <= Max(S)
  <1> DEFINE T == {m \in 0 .. n : \/ \A k \in S : k > m
                                  \/ \E x \in S : x <= m /\ \A k \in S : k <= m => k <= x}
  <1>1. 0 \in T
    OBVIOUS
  <1>2. ASSUME NEW m \in T, m < n
        PROVE  m + 1 \in T
    <2>1. m + 1 \in 0 .. n
      BY <1>2
    <2>2. CASE m + 1 \in S
      <3>1. m + 1 <= m + 1 /\ \A k \in S : k <= m + 1 => k <= m + 1
        BY <2>1
      <3> QED
        BY <2>1, <2>2, <3>1
    <2>3. CASE m + 1 \notin S
      <3>1. \A k \in S : k <= m + 1 <=> k <= m
        BY <2>1, <2>3
      <3> QED
        BY <2>1, <3>1
    <2> QED
      BY <2>2, <2>3
  <1>3. n \in T
    <2> HIDE DEF T
    <2> QED
      BY <1>1, <1>2, BoundedInduction DEF T
  <1>4. \E x \in S : \A k \in S : x >= k
    <2>1. \A k \in S : k \in Nat /\ k <= n
      OBVIOUS
    <2>2. PICK s : s \in S
      OBVIOUS
    <2>3. \E x \in S : x <= n /\ \A k \in S : k <= n => k <= x
      BY <1>3, <2>1, <2>2
    <2> QED
      BY <2>1, <2>3
  <1> QED
    BY <1>4 DEF Max

-----------------------------------------------------------------------------
(* What a command that is not a Move leaves behind it.                     *)
Effect(b, cmd) ==
  /\ cmd.action = "Stop" => b.vel = 0 /\ b.accel = 0
  /\ cmd.action \in {"Attack", "Mine"} => b.target = cmd.targetEntity

LEMMA ObeyFacts ==
  ASSUME NEW b \in Hull, NEW cmd \in CmdInputType
  PROVE  /\ Obey(b, cmd) \in Hull
         /\ Obey(b, cmd).type = b.type /\ Obey(b, cmd).owner = b.owner
         /\ Obey(b, cmd).lastUpdateTick = b.lastUpdateTick
         /\ Effect(Obey(b, cmd), cmd)
  <1>1. /\ SHIP_MOVE_SPEED \in Int /\ -SHIP_MOVE_SPEED \in Int /\ 0 \in Int
        /\ INVALID_ENTITY \in EntityIds /\ cmd.targetEntity \in EntityIds
        /\ b.vel \in Int /\ b.accel \in Int /\ b.target \in EntityIds
    BY SessionAssumption, BoundsAssumption DEF INVALID_ENTITY, EntityIds, CmdInputType, Hull
  <1>2. ASSUME NEW vel \in Int, NEW accel \in Int, NEW target \in EntityIds
        PROVE  /\ Steered(b, vel, accel, target) \in Hull
               /\ Steered(b, vel, accel, target).type = b.type
               /\ Steered(b, vel, accel, target).owner = b.owner
               /\ Steered(b, vel, accel, target).lastUpdateTick = b.lastUpdateTick
               /\ Steered(b, vel, accel, target).vel = vel
               /\ Steered(b, vel, accel, target).accel = accel
               /\ Steered(b, vel, accel, target).target = target
    BY DEF Steered, Body, Hull
  <1>3. cmd.action \in {"Move", "Stop", "Attack", "Mine", "None"}
    BY DEF CmdInputType
  <1>4. CASE cmd.action = "Move"
    <2>1. /\ cmd.target - b.pos \in Int /\ Distance(cmd.target - b.pos) \in Int
          /\ SHIP_STOP_DISTANCE \in Int
      BY SessionAssumption DEF CmdInputType, Hull, Distance
    <2>2. \/ Obey(b, cmd) = Steered(b, SHIP_MOVE_SPEED, b.accel, INVALID_ENTITY)
          \/ Obey(b, cmd) = Steered(b, -SHIP_MOVE_SPEED, b.accel, INVALID_ENTITY)
          \/ Obey(b, cmd) = Steered(b, 0, b.accel, b.target)
      BY <1>4, <2>1 DEF Obey
    <2> QED
      BY <1>1, <1>2, <1>4, <2>2 DEF Effect
  <1>5. CASE cmd.action = "Stop"
    <2>1. Obey(b, cmd) = Steered(b, 0, 0, b.target)
      BY <1>5 DEF Obey
    <2> QED
      BY <1>1, <1>2, <1>5, <2>1 DEF Effect
  <1>6. CASE cmd.action \in {"Attack", "Mine"}
    <2>1. Obey(b, cmd) = Steered(b, b.vel, b.accel, cmd.targetEntity)
      BY <1>6 DEF Obey
    <2> QED
      BY <1>1, <1>2, <1>6, <2>1 DEF Effect
  <1>7. CASE cmd.action = "None"
    <2>1. Obey(b, cmd) = b
      BY <1>7 DEF Obey
    <2> QED
      BY <1>7, <2>1 DEF Effect
  <1> QED
    BY <1>3, <1>4, <1>5, <1>6, <1>7

(* A ship has one owner and a player one ship at most.                     *)
LEMMA ShipIsOnly ==
  ASSUME NEW ss, Fleet(ss), NEW i \in DOMAIN ss, i > NumAsteroids
  PROVE  ShipsOf(ss, ss[i].body.owner) = {i}
  <1>1. DOMAIN ss = 1 .. Len(ss) /\ Len(ss) \in Nat /\ NumAsteroids \in Nat
    BY SessionAssumption DEF Fleet
  <1>2. \A k \in DOMAIN ss : ss[k].alive
    <2>1. \A k \in DOMAIN ss : ss[k] \in Thing
      BY <1>1, ElementOfSeq DEF Fleet
    <2>2. \A k \in DOMAIN ss : ss[k].alive = TRUE
      BY <2>1 DEF Thing
    <2> QED
      BY <2>2
  <1> QED
    BY <1>1, <1>2 DEF Fleet, ShipsOf

LEMMA ExecuteFacts ==
  ASSUME NEW ss, Fleet(ss), NEW cmd \in CmdInputType
  PROVE  /\ Fleet(Execute(ss, cmd)) /\ Len(Execute(ss, cmd)) = Len(ss)
         /\ \A i \in DOMAIN ss :
              /\ Execute(ss, cmd)[i].body.owner = ss[i].body.owner
              /\ Execute(ss, cmd)[i].body.lastUpdateTick = ss[i].body.lastUpdateTick
              /\ ss[i].body.owner # cmd.playerId => Execute(ss, cmd)[i] = ss[i]
              /\ i > NumAsteroids /\ ss[i].body.owner = cmd.playerId =>
                   Effect(Execute(ss, cmd)[i].body, cmd)
  <1> DEFINE own == ShipsOf(ss, cmd.playerId)
  <1>1. DOMAIN ss = 1 .. Len(ss) /\ Len(ss) \in Nat /\ ss \in Seq(Thing) /\ NumAsteroids \in Nat
    BY SessionAssumption DEF Fleet
  <1>2. CASE own = {}
    <2>1. Execute(ss, cmd) = ss
      BY <1>2 DEF Execute
    <2>2. \A i \in DOMAIN ss : i > NumAsteroids => ss[i].body.owner # cmd.playerId
      BY <1>2, ShipIsOnly
    <2> QED
      BY <2>1, <2>2
  <1>3. CASE own # {}
    <2>1. PICK i \in DOMAIN ss : i > NumAsteroids /\ ss[i].body.owner = cmd.playerId
      BY <1>1, <1>3 DEF ShipsOf, Fleet
    <2>2. own = {i}
      BY <2>1, ShipIsOnly
    <2>3. Min(own) = i
      BY <1>1, <2>2 DEF Min
    <2> DEFINE b == Obey(ss[i].body, cmd)
               es == Execute(ss, cmd)
    <2>4. es = [ss EXCEPT ![i].body = b]
      BY <1>3, <2>3 DEF Execute
    <2>5. ss[i] \in Thing /\ ss[i].body \in Hull
      <3>1. ss[i] \in Thing
        BY <1>1, ElementOfSeq
      <3> QED
        BY <3>1 DEF Thing
    <2>6. /\ b \in Hull /\ b.type = ss[i].body.type /\ b.owner = ss[i].body.owner
          /\ b.lastUpdateTick = ss[i].body.lastUpdateTick /\ Effect(b, cmd)
      BY <2>5, ObeyFacts
    <2> HIDE DEF b, es
    <2>7. /\ es = [k \in 1 .. Len(ss) |-> es[k]]
          /\ \A k \in DOMAIN ss : k # i => es[k] = ss[k]
          /\ es[i] = [ss[i] EXCEPT !.body = b]
      BY <1>1, <2>4
    <2>8. es[i] \in Thing /\ es[i].body = b /\ es[i].id = ss[i].id
      BY <2>5, <2>6, <2>7 DEF Thing
    <2>9. es \in Seq(Thing) /\ Len(es) = Len(ss) /\ DOMAIN es = DOMAIN ss
      <3>1. \A k \in 1 .. Len(ss) : es[k] \in Thing
        BY <1>1, <2>7, <2>8
      <3> QED
        BY <1>1, <2>7, <3>1
    <2>10. Fleet(es)
      BY <1>1, <2>6, <2>7, <2>8, <2>9 DEF Fleet
    <2>11. \A k \in DOMAIN ss : k > NumAsteroids /\ ss[k].body.owner = cmd.playerId => k = i
      BY <2>2, ShipIsOnly
    <2>12. \A k \in DOMAIN ss :
              /\ es[k].body.owner = ss[k].body.owner
              /\ es[k].body.lastUpdateTick = ss[k].body.lastUpdateTick
              /\ ss[k].body.owner # cmd.playerId => es[k] = ss[k]
              /\ k > NumAsteroids /\ ss[k].body.owner = cmd.playerId => Effect(es[k].body, cmd)
      BY <2>1, <2>6, <2>7, <2>8, <2>11
    <2> QED
      BY <2>9, <2>10, <2>12 DEF es
  <1> QED
    BY <1>2, <1>3

(* After the k-th of the commands: nobody's ship has changed but those of  *)
(* the commanders, and each shows the last order among them.               *)
Done(ss, cmds, after, k) ==
  /\ Fleet(after[k]) /\ Len(after[k]) = Len(ss)
  /\ \A i \in DOMAIN ss :
       /\ after[k][i].body.owner = ss[i].body.owner
       /\ after[k][i].body.lastUpdateTick = ss[i].body.lastUpdateTick
       /\ (\A m \in 1 .. k : cmds[m].playerId # ss[i].body.owner) => after[k][i] = ss[i]
       /\ i > NumAsteroids =>
            \A m \in 1 .. k :
              /\ cmds[m].playerId = ss[i].body.owner
              /\ \A later \in m + 1 .. k : cmds[later].playerId # ss[i].body.owner
              => Effect(after[k][i].body, cmds[m])

LEMMA ExecuteAllFacts ==
  ASSUME NEW ss, Fleet(ss), NEW cmds \in Seq(CmdInputType)
  PROVE  \E after : ExecuteAll(ss, cmds) = after[Len(cmds)] /\ Done(ss, cmds, after, Len(cmds))
  <1> DEFINE n == Len(cmds)
  <1>1. n \in Nat /\ \A k \in 1 .. n : cmds[k] \in CmdInputType
    BY ElementOfSeq
  <1>2. PICK after :
           /\ after[0] = ss
           /\ \A k \in 1 .. n : after[k] = Execute(after[k - 1], cmds[k])
           /\ ExecuteAll(ss, cmds) = after[n]
    <2>1. PICK after : IsSeries(after, ss, cmds) /\ ExecuteAll(ss, cmds) = after[Len(cmds)]
      BY <1>1, ExecuteAllIsSeries
    <2> QED
      BY <2>1 DEF IsSeries
  <1> DEFINE T == {k \in 0 .. n : Done(ss, cmds, after, k)}
  <1>3. 0 \in T
    <2>1. after[0] = ss /\ 1 .. 0 = {}
      BY <1>2
    <2>2. Done(ss, cmds, after, 0)
      BY <2>1 DEF Done
    <2> QED
      BY <1>1, <2>2
  <1>4. ASSUME NEW k \in T, k < n
        PROVE  k + 1 \in T
    <2>1. k + 1 \in 1 .. n /\ k \in Nat /\ Done(ss, cmds, after, k)
      BY <1>1, <1>4
    <2> DEFINE was == after[k]
               is  == after[k + 1]
               cmd == cmds[k + 1]
    <2>2. is = Execute(was, cmd) /\ cmd \in CmdInputType
      BY <1>1, <1>2, <2>1
    <2>3. Fleet(was) /\ Len(was) = Len(ss)
      BY <2>1 DEF Done
    <2>4. DOMAIN was = DOMAIN ss
      BY <2>3 DEF Fleet
    <2> HIDE DEF was, is, cmd
    <2>5. /\ Fleet(is) /\ Len(is) = Len(ss)
          /\ \A i \in DOMAIN ss :
               /\ is[i].body.owner = was[i].body.owner
               /\ is[i].body.lastUpdateTick = was[i].body.lastUpdateTick
               /\ was[i].body.owner # cmd.playerId => is[i] = was[i]
               /\ i > NumAsteroids /\ was[i].body.owner = cmd.playerId => Effect(is[i].body, cmd)
      BY <2>2, <2>3, <2>4, ExecuteFacts
    <2>6. \A i \in DOMAIN ss :
            /\ was[i].body.owner = ss[i].body.owner
            /\ was[i].body.lastUpdateTick = ss[i].body.lastUpdateTick
            /\ (\A m \in 1 .. k : cmds[m].playerId # ss[i].body.owner) => was[i] = ss[i]
            /\ i > NumAsteroids =>
                 \A m \in 1 .. k :
                   /\ cmds[m].playerId = ss[i].body.owner
                   /\ \A later \in m + 1 .. k : cmds[later].playerId # ss[i].body.owner
                   => Effect(was[i].body, cmds[m])
      BY <2>1 DEF Done, was
    <2>7. ASSUME NEW i \in DOMAIN ss, \A m \in 1 .. k + 1 : cmds[m].playerId # ss[i].body.owner
          PROVE  is[i] = ss[i]
      BY <2>1, <2>5, <2>6, <2>7 DEF cmd
    <2>8. ASSUME NEW i \in DOMAIN ss, i > NumAsteroids, NEW m \in 1 .. k + 1,
                 cmds[m].playerId = ss[i].body.owner,
                 \A later \in m + 1 .. k + 1 : cmds[later].playerId # ss[i].body.owner
          PROVE  Effect(is[i].body, cmds[m])
      <3>1. CASE m = k + 1
        BY <2>5, <2>6, <2>8, <3>1 DEF cmd
      <3>2. CASE m \in 1 .. k
        <4>1. cmds[k + 1].playerId # ss[i].body.owner
          BY <2>1, <2>8, <3>2
        <4>2. is[i] = was[i]
          BY <2>5, <2>6, <4>1 DEF cmd
        <4>3. \A later \in m + 1 .. k : cmds[later].playerId # ss[i].body.owner
          BY <2>1, <2>8, <3>2
        <4> QED
          BY <2>6, <2>8, <3>2, <4>2, <4>3
      <3> QED
        BY <2>1, <3>1, <3>2
    <2>9. Done(ss, cmds, after, k + 1)
      BY <2>5, <2>6, <2>7, <2>8 DEF Done, is
    <2> QED
      BY <2>1, <2>9
  <1>5. n \in T
    <2> HIDE DEF T
    <2> QED
      BY <1>1, <1>3, <1>4, BoundedInduction DEF T
  <1> QED
    BY <1>2, <1>5

-----------------------------------------------------------------------------
(* The sizes of the id spaces.                                             *)
LEMMA Spaces ==
  /\ NumAsteroids \in Nat /\ PlayerIdSpace \in Nat \ {0} /\ EntityIdSpace \in Nat \ {0}
  /\ INVALID_PLAYER \in PlayerIds /\ INVALID_ENTITY \in EntityIds
  /\ IsFiniteSet(Endpoints) /\ Cardinality(Endpoints) \in Nat
  <1>1. IsFiniteSet(Endpoints) /\ Cardinality(Endpoints) \in Nat
    BY SessionAssumption, FS_CardinalityType
  <1>2. NumAsteroids \in Nat /\ PlayerIdSpace \in Nat \ {0} /\ EntityIdSpace \in Nat \ {0}
    BY SessionAssumption, BoundsAssumption
  <1> QED
    BY <1>1, <1>2
       DEF INVALID_PLAYER, INVALID_ENTITY, PlayerIds, EntityIds

(* New ships and asteroids are Things.                                     *)
LEMMA NewShip ==
  ASSUME NEW id \in Nat, NEW pid \in PlayerIds
  PROVE  /\ Slot(id, TRUE, FreshBody(Ship(pid))) \in Thing
         /\ Slot(id, TRUE, FreshBody(Ship(pid))).id = id
         /\ Slot(id, TRUE, FreshBody(Ship(pid))).body.owner = pid
         /\ Slot(id, TRUE, FreshBody(Ship(pid))).body.type = "Ship"
  BY Spaces DEF Slot, FreshBody, Body, Ship, Thing, Hull

LEMMA NewAsteroid ==
  ASSUME NEW id \in Nat, NEW i \in Int
  PROVE  /\ Slot(id, TRUE, FreshBody(Asteroid(i))) \in Thing
         /\ Slot(id, TRUE, FreshBody(Asteroid(i))).id = id
         /\ Slot(id, TRUE, FreshBody(Asteroid(i))).body.type = "Asteroid"
  BY Spaces DEF Slot, FreshBody, Body, Asteroid, Thing, Hull

LEMMA InitServerIInv ==
  ASSUME ServerInit
  PROVE  ServerIInv
  <1>1. Fleet(slots) /\ Len(slots) = NumAsteroids + 1
    <2> DEFINE first(i) == Slot(i - 1, TRUE, FreshBody(IF i <= NumAsteroids THEN Asteroid(i) ELSE Ship(0)))
    <2>1. slots = [i \in 1 .. NumAsteroids + 1 |-> first(i)]
      BY DEF ServerInit
    <2>2. ASSUME NEW i \in 1 .. NumAsteroids + 1
          PROVE  /\ first(i) \in Thing /\ first(i).id = i - 1
                 /\ first(i).body.type = IF i <= NumAsteroids THEN "Asteroid" ELSE "Ship"
                 /\ i > NumAsteroids => first(i).body.owner = 0
      <3>1. i - 1 \in Nat /\ i \in Int /\ 0 \in PlayerIds
        BY Spaces DEF PlayerIds
      <3>2. CASE i <= NumAsteroids
        <4>1. first(i) = Slot(i - 1, TRUE, FreshBody(Asteroid(i)))
          BY <3>2
        <4> DEFINE id == i - 1
        <4>0. id \in Nat /\ i \in Int /\ first(i) = Slot(id, TRUE, FreshBody(Asteroid(i)))
          BY <3>1, <4>1
        <4> HIDE DEF first, id
        <4>4. /\ Slot(id, TRUE, FreshBody(Asteroid(i))) \in Thing
              /\ Slot(id, TRUE, FreshBody(Asteroid(i))).id = id
              /\ Slot(id, TRUE, FreshBody(Asteroid(i))).body.type = "Asteroid"
          BY <4>0, NewAsteroid
        <4>5. first(i) \in Thing /\ first(i).id = id /\ first(i).body.type = "Asteroid"
          BY <4>0, <4>4
        <4>2. first(i) \in Thing /\ first(i).id = i - 1 /\ first(i).body.type = "Asteroid"
          BY <4>5 DEF id
        <4>3. ~(i > NumAsteroids)
          BY <3>1, <3>2, Spaces
        <4> QED
          BY <3>2, <4>2, <4>3
      <3>3. CASE ~(i <= NumAsteroids)
        <4>1. first(i) = Slot(i - 1, TRUE, FreshBody(Ship(0)))
          BY <3>3
        <4> DEFINE id == i - 1
                   pid == 0
        <4>0. /\ id \in Nat /\ pid \in PlayerIds
              /\ first(i) = Slot(id, TRUE, FreshBody(Ship(pid)))
          BY <3>1, <4>1
        <4> HIDE DEF first, id, pid
        <4>4. /\ Slot(id, TRUE, FreshBody(Ship(pid))) \in Thing
              /\ Slot(id, TRUE, FreshBody(Ship(pid))).id = id
              /\ Slot(id, TRUE, FreshBody(Ship(pid))).body.owner = pid
              /\ Slot(id, TRUE, FreshBody(Ship(pid))).body.type = "Ship"
          BY <4>0, NewShip
        <4>3. /\ first(i) \in Thing /\ first(i).id = id
              /\ first(i).body.type = "Ship" /\ first(i).body.owner = pid
          BY <4>0, <4>4
        <4>2. /\ first(i) \in Thing /\ first(i).id = i - 1
              /\ first(i).body.type = "Ship" /\ first(i).body.owner = 0
          BY <4>3 DEF id, pid
        <4> QED
          BY <3>1, <3>3, <4>2, Spaces
      <3> QED
        BY <3>2, <3>3
    <2> HIDE DEF first
    <2>3. slots \in Seq(Thing) /\ Len(slots) = NumAsteroids + 1
      BY <2>1, <2>2, Spaces
    <2> QED
      BY <2>1, <2>2, <2>3, Spaces DEF Fleet
  <1>2. Numbered
    BY <1>1, Spaces DEF Numbered, ServerInit
  <1>3. PlayersNumbered /\ ShipsBrought
    <2>1. DOMAIN clients = {} /\ nextPlayerId = 0 /\ Count = 0 /\ IdsGiven = 0
      BY Spaces, FS_EmptySet DEF ServerInit, Count, IdsGiven
    <2>2. RoundsDone(0)
      BY <2>1, Spaces, FS_EmptySet DEF RoundsDone, Holders, PlayerIds
    <2>3. 0 .. IdsGiven - 1 = {}
      BY <2>1
    <2> QED
      BY <1>1, <2>1, <2>2, <2>3, Spaces DEF PlayersNumbered, ShipsBrought
  <1>4. QueueOwned /\ PhasesDone
    BY DEF QueueOwned, PhasesDone, ServerInit
  <1> QED
    BY <1>1, <1>2, <1>3, <1>4 DEF ServerIInv

(* Steps that touch no client leave the numbering of the players alone.    *)
LEMMA PlayersUntouched ==
  ASSUME PlayersNumbered, UNCHANGED <<clients, nextPlayerId>>
  PROVE  PlayersNumbered' /\ Count' = Count /\ IdsGiven' = IdsGiven
  <1>1. Count' = Count /\ IdsGiven' = IdsGiven /\ \A p : Holders(p)' = Holders(p)
    BY DEF Count, IdsGiven, Holders
  <1>2. \A q \in Nat : RoundsDone(q) => RoundsDone(q)'
    BY <1>1 DEF RoundsDone
  <1> QED
    BY <1>1, <1>2 DEF PlayersNumbered

LEMMA SimTickPreserves ==
  ASSUME ServerIInv, SimTick
  PROVE  ServerIInv'
  <1>1. /\ phase' = "physics" /\ slots' = ExecuteAll(slots, pending)
        /\ pending' = <<>> /\ issuers' = {} /\ tickNum' = tickNum
        /\ UNCHANGED <<lookup, freePool, nextId, clients, nextPlayerId>>
    BY DEF SimTick
  <1>2. Fleet(slots) /\ pending \in Seq(CmdInputType)
    BY DEF ServerIInv, QueueOwned
  <1>3. Fleet(slots') /\ Len(slots') = Len(slots)
    BY <1>1, <1>2, ExecuteAllFacts DEF Done
  <1>4. Numbered' /\ PlayersNumbered' /\ ShipsBrought'
    BY <1>1, <1>3, PlayersUntouched DEF Numbered, ShipsBrought, ServerIInv
  <1>5. QueueOwned' /\ PhasesDone'
    BY <1>1 DEF QueueOwned, PhasesDone, ServerIInv
  <1> QED
    BY <1>3, <1>4, <1>5 DEF ServerIInv

LEMMA UniverseTickPreserves ==
  ASSUME ServerIInv, UniverseTick
  PROVE  ServerIInv'
  <1>1. /\ phase = "physics" /\ phase' = "broadcast" /\ tickNum' = tickNum /\ tickNum \in Nat
        /\ UNCHANGED <<lookup, freePool, nextId, clients, nextPlayerId, pending, issuers>>
        /\ slots' = [i \in DOMAIN slots |->
                       IF slots[i].alive THEN [slots[i] EXCEPT !.body = Integrate(@, tickNum)]
                       ELSE slots[i]]
    BY DEF UniverseTick, TickUpdate, ServerIInv, PhasesDone
  <1>2. DOMAIN slots = 1 .. Len(slots) /\ Len(slots) \in Nat /\ slots \in Seq(Thing)
    BY DEF ServerIInv, Fleet
  <1>3. ASSUME NEW i \in DOMAIN slots
        PROVE  /\ slots'[i] \in Thing /\ slots'[i].id = slots[i].id
               /\ slots'[i].body.type = slots[i].body.type
               /\ slots'[i].body.owner = slots[i].body.owner
               /\ slots'[i].body.lastUpdateTick = tickNum
    <2>1. slots[i] \in Thing
      BY <1>2, ElementOfSeq
    <2>2. slots[i].alive = TRUE /\ slots[i].body \in Hull
      BY <2>1 DEF Thing
    <2>3. slots'[i] = [slots[i] EXCEPT !.body = Integrate(slots[i].body, tickNum)]
      BY <1>1, <2>2
    <2> DEFINE b == Integrate(slots[i].body, tickNum)
    <2>4. /\ b \in Hull /\ b.type = slots[i].body.type /\ b.owner = slots[i].body.owner
          /\ b.lastUpdateTick = tickNum
      BY <1>1, <2>2 DEF Integrate, Body, Hull
    <2> HIDE DEF b
    <2> QED
      BY <2>1, <2>3, <2>4 DEF Thing, b
  <1>4. slots' \in Seq(Thing) /\ Len(slots') = Len(slots) /\ DOMAIN slots' = DOMAIN slots
    BY <1>1, <1>2, <1>3
  <1>5. Fleet(slots')
    BY <1>2, <1>3, <1>4 DEF Fleet, ServerIInv
  <1>6. Numbered' /\ PlayersNumbered' /\ ShipsBrought'
    BY <1>1, <1>4, PlayersUntouched DEF Numbered, ShipsBrought, ServerIInv
  <1>7. QueueOwned'
    BY <1>1 DEF QueueOwned, ServerIInv
  <1>8. PhasesDone'
    BY <1>1, <1>3, <1>4 DEF PhasesDone, ServerIInv
  <1> QED
    BY <1>5, <1>6, <1>7, <1>8 DEF ServerIInv

(* The steps that leave entities, players and the queue alone.             *)
LEMMA LoopStepPreserves ==
  ASSUME ServerIInv,
         \/ BeginTick \/ Stop \/ Broadcast
         \/ RequestShutdown \/ CloseConsole \/ EndProcess \/ UNCHANGED serverVars
  PROVE  ServerIInv'
  <1>1. UNCHANGED <<slots, lookup, freePool, nextId, clients, nextPlayerId, pending, issuers>>
    BY DEF BeginTick, Stop, Broadcast, RequestShutdown, CloseConsole, EndProcess, serverVars,
           sessionVars, entityVars
  <1>2. PhasesDone'
    <2>1. CASE phase' = phase /\ tickNum' = tickNum
      BY <1>1, <2>1 DEF PhasesDone, ServerIInv
    <2>2. CASE BeginTick \/ Stop
      BY <1>1, <2>2 DEF PhasesDone, ServerIInv, BeginTick, Stop
    <2>3. CASE Broadcast
      <3>1. phase = "broadcast" /\ phase' = "head" /\ tickNum' = tickNum + 1
        BY <2>3 DEF Broadcast
      <3> QED
        BY <1>1, <3>1 DEF PhasesDone, ServerIInv
    <2>4. CASE EndProcess
      <3>1. phase' = "killed" /\ tickNum' = tickNum
        BY <2>4 DEF EndProcess
      <3> QED
        BY <1>1, <3>1 DEF PhasesDone, ServerIInv
    <2> QED
      BY <2>1, <2>2, <2>3, <2>4 DEF RequestShutdown, CloseConsole, serverVars, sessionVars
  <1> QED
    BY <1>1, <1>2, PlayersUntouched DEF ServerIInv, Numbered, ShipsBrought, QueueOwned

(* There are no more clients than endpoints, and so as many as can be      *)
(* counted.                                                                *)
LEMMA Counted ==
  ASSUME ServerIInv
  PROVE  /\ IsFiniteSet(DOMAIN clients) /\ Count \in Nat
         /\ IdsGiven \in Nat /\ IdsGiven <= PlayerIdSpace
         /\ nextPlayerId \in Nat /\ nextPlayerId \in PlayerIds /\ nextPlayerId < PlayerIdSpace
  <1>1. IsFiniteSet(DOMAIN clients) /\ Cardinality(DOMAIN clients) \in Nat
    BY Spaces, FS_Subset, FS_CardinalityType DEF ServerIInv, PlayersNumbered
  <1>2. nextPlayerId \in 0 .. PlayerIdSpace - 1
    BY DEF ServerIInv, PlayersNumbered
  <1> QED
    BY <1>1, <1>2, Spaces DEF Count, IdsGiven, PlayerIds

(* A player id that was given out is also an entity's: its player brings   *)
(* no ship.                                                                *)
LEMMA GivenIdIsTaken ==
  ASSUME ServerIInv, NEW pid \in 0 .. IdsGiven - 1
  PROVE  pid \in PlayerIds /\ ~NeedsShip(pid)
  <1>1. IdsGiven \in Nat /\ IdsGiven <= PlayerIdSpace
    BY Counted
  <1>2. pid \in 0 .. Len(slots) - 1
    BY <1>1, Spaces DEF ServerIInv, ShipsBrought
  <1>3. pid \in DOMAIN lookup /\ lookup[pid] = pid + 1
    BY <1>2 DEF ServerIInv, Numbered
  <1>4. slots \in Seq(Thing) /\ pid + 1 \in 1 .. Len(slots)
    BY <1>2 DEF ServerIInv, Fleet
  <1>5. slots[pid + 1] \in Thing
    BY <1>4, ElementOfSeq
  <1>6. slots[pid + 1].alive = TRUE
    BY <1>5 DEF Thing
  <1> QED
    BY <1>1, <1>3, <1>6, Spaces DEF Exists, NeedsShip, PlayerIds

(* A client heard before keeps its number.                                 *)
LEMMA KnownClient ==
  ASSUME ServerIInv, NEW ep \in DOMAIN clients
  PROVE  /\ PlayerOf(ep) = clients[ep].playerId /\ PlayerOf(ep) \in PlayerIds
         /\ ~NeedsShip(PlayerOf(ep))
  <1>1. PlayerOf(ep) = clients[ep].playerId /\ PlayerOf(ep) \in 0 .. IdsGiven - 1
    BY DEF PlayerOf, ServerIInv, PlayersNumbered
  <1> QED
    BY <1>1, GivenIdIsTaken

(* A client heard for the first time is counted and gets the next number;  *)
(* once all were given out it is one that has a holder.                    *)
LEMMA NewClient ==
  ASSUME ServerIInv, NEW ep \in Endpoints \ DOMAIN clients
  PROVE  /\ PlayerOf(ep) = nextPlayerId
         /\ IsFiniteSet(DOMAIN clients \cup {ep})
         /\ Cardinality(DOMAIN clients \cup {ep}) = Count + 1
         /\ Count < PlayerIdSpace => nextPlayerId = Count
         /\ (nextPlayerId + 1) % PlayerIdSpace =
              IF nextPlayerId + 1 < PlayerIdSpace THEN nextPlayerId + 1 ELSE 0
  <1>1. /\ IsFiniteSet(DOMAIN clients) /\ Count \in Nat
        /\ nextPlayerId \in Nat /\ nextPlayerId < PlayerIdSpace /\ PlayerIdSpace \in Nat \ {0}
    BY Counted, Spaces
  <1>2. /\ IsFiniteSet(DOMAIN clients \cup {ep})
        /\ Cardinality(DOMAIN clients \cup {ep}) = Count + 1
    BY <1>1, FS_AddElement DEF Count
  <1>3. (nextPlayerId + 1) % PlayerIdSpace =
          IF nextPlayerId + 1 < PlayerIdSpace THEN nextPlayerId + 1 ELSE 0
    <2>1. CASE nextPlayerId + 1 < PlayerIdSpace
      BY <1>1, <2>1
    <2>2. CASE nextPlayerId + 1 = PlayerIdSpace
      BY <1>1, <2>2
    <2> QED
      BY <1>1, <2>1, <2>2
  <1> QED
    BY <1>2, <1>3 DEF PlayerOf, ServerIInv, PlayersNumbered

(* An id below the number of entities is found: nobody brings a ship whose *)
(* player id is not above them all.                                        *)
LEMMA NewcomersShip ==
  ASSUME ServerIInv, NEW ep \in Endpoints \ DOMAIN clients
  PROVE  NeedsShip(nextPlayerId) <=> (Count < PlayerIdSpace /\ nextPlayerId > NumAsteroids)
  <1>1. /\ nextPlayerId \in Nat /\ nextPlayerId \in PlayerIds /\ nextPlayerId < PlayerIdSpace
        /\ Count \in Nat
        /\ Count < PlayerIdSpace => nextPlayerId = Count
    BY Counted DEF ServerIInv, PlayersNumbered
  <1>2. slots \in Seq(Thing) /\ DOMAIN slots = 1 .. Len(slots) /\ Len(slots) \in Nat
    BY DEF ServerIInv, Fleet
  <1>3. CASE nextPlayerId <= NumAsteroids
    <2>1. nextPlayerId \in 0 .. Len(slots) - 1
      BY <1>1, <1>2, <1>3, Spaces DEF ServerIInv, ShipsBrought
    <2>2. nextPlayerId \in DOMAIN lookup /\ lookup[nextPlayerId] = nextPlayerId + 1
      BY <2>1 DEF ServerIInv, Numbered
    <2>3. slots[nextPlayerId + 1] \in Thing
      BY <1>2, <2>1, ElementOfSeq
    <2>4. slots[nextPlayerId + 1].alive = TRUE
      BY <2>3 DEF Thing
    <2> QED
      BY <1>1, <1>3, <2>2, <2>4, Spaces DEF Exists, NeedsShip
  <1>4. CASE nextPlayerId > NumAsteroids /\ Count < PlayerIdSpace
    <2>1. Len(slots) = nextPlayerId
      BY <1>1, <1>4, Spaces DEF ServerIInv, ShipsBrought, IdsGiven
    <2>2. ~Exists(nextPlayerId)
      BY <1>1, <2>1 DEF Exists, ServerIInv, Numbered
    <2>3. ASSUME NEW i \in ShipsOf(slots, nextPlayerId) PROVE FALSE
      <3>1. i \in 1 .. nextPlayerId /\ slots[i].body.type = "Ship" /\ slots[i].body.owner = nextPlayerId
        BY <1>2, <2>1 DEF ShipsOf
      <3>2. i > NumAsteroids
        BY <1>2, <2>1, <3>1, Spaces DEF ServerIInv, Fleet
      <3>3. slots[i].body.owner = IF i = NumAsteroids + 1 THEN 0 ELSE i - 1
        BY <1>2, <2>1, <3>1, <3>2 DEF ServerIInv, Fleet
      <3> QED
        BY <1>1, <1>4, <3>1, <3>2, <3>3, Spaces
    <2> QED
      BY <1>4, <2>2, <2>3 DEF NeedsShip
  <1>5. CASE ~(Count < PlayerIdSpace)
    <2>1. nextPlayerId \in 0 .. IdsGiven - 1
      BY <1>1, <1>5, Spaces DEF IdsGiven
    <2> QED
      BY <1>5, <2>1, GivenIdIsTaken
  <1> QED
    BY <1>1, <1>3, <1>4, <1>5, Spaces

(* A ship joins the entities with the number of its player.                *)
LEMMA ShipJoins ==
  ASSUME ServerIInv, NEW pid \in PlayerIds, pid > NumAsteroids, pid = Len(slots),
         pid + 1 < EntityIdSpace, SpawnEntity(Ship(pid))
  PROVE  Fleet(slots') /\ Numbered' /\ Len(slots') = pid + 1
  <1> DEFINE e == Slot(pid, TRUE, FreshBody(Ship(pid)))
  <1>1. /\ slots \in Seq(Thing) /\ DOMAIN slots = 1 .. pid /\ pid \in Nat
        /\ freePool = <<>> /\ nextId = pid
        /\ DOMAIN lookup = 0 .. pid - 1 /\ \A id \in 0 .. pid - 1 : lookup[id] = id + 1
    BY DEF ServerIInv, Fleet, Numbered, PlayerIds
  <1>2. SpawnId = pid /\ (pid + 1) % EntityIdSpace = pid + 1 /\ pid \notin DOMAIN lookup
    <2>1. SpawnId = pid /\ pid \notin DOMAIN lookup
      BY <1>1 DEF SpawnId
    <2>2. pid + 1 \in Nat /\ EntityIdSpace \in Nat /\ pid + 1 < EntityIdSpace
      BY <1>1, Spaces
    <2>3. (pid + 1) % EntityIdSpace = pid + 1
      BY ONLY <2>2
    <2> QED
      BY <2>1, <2>3
  <1>3. /\ slots' = Append(slots, e)
        /\ lookup' = [k \in DOMAIN lookup \cup {pid} |-> IF k = pid THEN pid + 1 ELSE lookup[k]]
        /\ freePool' = freePool /\ nextId' = pid + 1
    BY <1>1, <1>2 DEF SpawnEntity, TakeId
  <1>4. /\ e \in Thing /\ e.id = pid /\ e.body.owner = pid /\ e.body.type = "Ship"
    BY <1>1, NewShip, Spaces
  <1> HIDE DEF e
  <1>5. /\ slots' \in Seq(Thing) /\ Len(slots') = pid + 1 /\ DOMAIN slots' = 1 .. pid + 1
        /\ \A i \in 1 .. pid : slots'[i] = slots[i]
        /\ slots'[pid + 1] = e
    BY <1>1, <1>3, <1>4, AppendProperties
  <1>6. Fleet(slots')
    <2>1. SUFFICES ASSUME NEW i \in 1 .. pid + 1
                   PROVE  /\ slots'[i].id = i - 1
                          /\ slots'[i].body.type = IF i <= NumAsteroids THEN "Asteroid" ELSE "Ship"
                          /\ i > NumAsteroids =>
                               slots'[i].body.owner = IF i = NumAsteroids + 1 THEN 0 ELSE i - 1
      BY <1>5 DEF Fleet
    <2>2. CASE i \in 1 .. pid
      BY <1>1, <1>5, <2>2 DEF ServerIInv, Fleet
    <2>3. CASE i = pid + 1
      BY <1>1, <1>4, <1>5, <2>3, Spaces
    <2> QED
      BY <1>1, <2>2, <2>3
  <1>7. Numbered'
    BY <1>1, <1>3, <1>5 DEF Numbered
  <1> QED
    BY <1>5, <1>6, <1>7

LEMMA HandlePacketPreserves ==
  ASSUME ServerIInv, NEW ep \in Endpoints, NEW input \in CmdInputs \cup {NoCommand},
         HandlePacket(ep, input)
  PROVE  ServerIInv'
  <1> DEFINE pid == PlayerOf(ep)
  <1>1. /\ phase = "packets" /\ phase' = phase /\ tickNum' = tickNum
        /\ TrackClient(ep) /\ EnsureShip(pid) /\ Enqueue(pid, ep, input)
    BY DEF HandlePacket
  <1>2. /\ DOMAIN clients' = DOMAIN clients \cup {ep}
        /\ clients'[ep].playerId = pid
        /\ \A k \in DOMAIN clients : clients'[k].playerId = clients[k].playerId
    BY <1>1 DEF TrackClient, PlayerOf
  <1>3. pid \in PlayerIds
    BY KnownClient, NewClient, Counted
  <1>4. PlayersNumbered' /\ Fleet(slots') /\ Numbered' /\ ShipsBrought'
    <2>1. CASE ep \in DOMAIN clients
      <3>1. nextPlayerId' = nextPlayerId /\ DOMAIN clients' = DOMAIN clients
        BY <1>1, <1>2, <2>1 DEF TrackClient
      <3>2. UNCHANGED entityVars
        BY <1>1, <2>1, KnownClient DEF EnsureShip
      <3>3. \A k \in DOMAIN clients : clients'[k].playerId = clients[k].playerId
        BY <1>2
      <3>4. Count' = Count /\ IdsGiven' = IdsGiven /\ \A p : Holders(p)' = Holders(p)
        BY <3>1, <3>3 DEF Count, IdsGiven, Holders
      <3>5. PlayersNumbered'
        BY <3>1, <3>3, <3>4 DEF PlayersNumbered, RoundsDone, ServerIInv
      <3> QED
        BY <3>1, <3>2, <3>4, <3>5 DEF ServerIInv, Numbered, ShipsBrought, entityVars
    <2>2. CASE ep \notin DOMAIN clients
      <3>1. /\ pid = nextPlayerId
            /\ nextPlayerId' = IF nextPlayerId + 1 < PlayerIdSpace THEN nextPlayerId + 1 ELSE 0
            /\ Count' = Count + 1
            /\ Count < PlayerIdSpace => nextPlayerId = Count
        BY <1>1, <1>2, <2>2, NewClient DEF TrackClient, Count
      <3>2. /\ Count \in Nat /\ nextPlayerId \in Nat /\ nextPlayerId < PlayerIdSpace
            /\ IsFiniteSet(DOMAIN clients) /\ IdsGiven \in Nat
        BY Counted
      <3>3. IdsGiven' = IF Count < PlayerIdSpace THEN Count + 1 ELSE IdsGiven
        BY <3>1, <3>2, Spaces DEF IdsGiven
      <3>4. PlayersNumbered'
        <4>1. nextPlayerId' \in 0 .. PlayerIdSpace - 1
          BY <3>1, <3>2, Spaces
        <4>2. Count' < PlayerIdSpace => nextPlayerId' = Count'
          BY <3>1, <3>2, Spaces
        <4>3. pid \in 0 .. IdsGiven' - 1
          BY <3>1, <3>2, <3>3, Spaces DEF IdsGiven
        <4>4. \A k \in DOMAIN clients' : clients'[k].playerId \in 0 .. IdsGiven' - 1
          BY <1>2, <3>2, <3>3, <4>3, Spaces DEF PlayersNumbered, ServerIInv, IdsGiven
        <4>5. \A p \in 0 .. IdsGiven' - 1 : \E e \in DOMAIN clients' : clients'[e].playerId = p
          <5> SUFFICES ASSUME NEW p \in 0 .. IdsGiven' - 1
                       PROVE  \E e \in DOMAIN clients' : clients'[e].playerId = p
            OBVIOUS
          <5>1. CASE p = pid
            BY <1>2, <5>1
          <5>2. CASE p # pid
            <6>1. p \in 0 .. IdsGiven - 1
              BY <3>1, <3>2, <3>3, <5>2, Spaces DEF IdsGiven
            <6> QED
              BY <1>2, <6>1 DEF PlayersNumbered, ServerIInv
          <5> QED
            BY <5>1, <5>2
        <4>6. \E q \in Nat : RoundsDone(q)'
          <5>1. PICK q \in Nat : RoundsDone(q)
            BY DEF PlayersNumbered, ServerIInv
          <5>2. Count = q * PlayerIdSpace + nextPlayerId
            BY <5>1 DEF RoundsDone
          <5>10. PICK mine \in PlayerIds : mine = pid
            BY <1>3
          <5>3. ep \notin Holders(mine) /\ Holders(mine)' = Holders(mine) \cup {ep}
            BY <1>2, <2>2, <5>10 DEF Holders
          <5>4. \A p \in PlayerIds \ {mine} : Holders(p)' = Holders(p)
            BY <1>2, <2>2, <5>10 DEF Holders
          <5>5. IsFiniteSet(Holders(mine)) /\ Cardinality(Holders(mine)) = q
            BY <3>1, <3>2, <5>1, <5>10 DEF RoundsDone
          <5>6. IsFiniteSet(Holders(mine))' /\ Cardinality(Holders(mine))' = q + 1
            BY <5>3, <5>5, FS_AddElement
          <5>7. \A p \in PlayerIds :
                  /\ IsFiniteSet(Holders(p))'
                  /\ Cardinality(Holders(p))' = IF p <= nextPlayerId THEN q + 1 ELSE q
            <6> SUFFICES ASSUME NEW p \in PlayerIds
                         PROVE  /\ IsFiniteSet(Holders(p))'
                                /\ Cardinality(Holders(p))' = IF p <= nextPlayerId THEN q + 1 ELSE q
              OBVIOUS
            <6>1. CASE p = mine
              BY <3>1, <3>2, <5>6, <5>10, <6>1
            <6>2. CASE p # mine
              <7>1. p < nextPlayerId <=> p <= nextPlayerId
                BY <3>1, <3>2, <5>10, <6>2, Spaces DEF PlayerIds
              <7> QED
                BY <5>1, <5>4, <6>2, <7>1 DEF RoundsDone
            <6> QED
              BY <6>1, <6>2
          <5>8. CASE nextPlayerId + 1 < PlayerIdSpace
            <6>1. nextPlayerId' = nextPlayerId + 1 /\ Count' = q * PlayerIdSpace + nextPlayerId'
              BY <3>1, <3>2, <5>2, <5>8, Spaces
            <6>2. \A p \in PlayerIds : p < nextPlayerId' <=> p <= nextPlayerId
              BY <3>2, <6>1, Spaces DEF PlayerIds
            <6>3. RoundsDone(q)'
              BY <5>7, <6>1, <6>2 DEF RoundsDone
            <6> QED
              BY <6>3
          <5>9. CASE ~(nextPlayerId + 1 < PlayerIdSpace)
            <6>1. nextPlayerId' = 0 /\ nextPlayerId + 1 = PlayerIdSpace
              BY <3>1, <3>2, <5>9, Spaces
            <6>2. Count' = q * PlayerIdSpace + PlayerIdSpace
              BY <3>1, <3>2, <5>2, <6>1, Spaces
            <6>3. q * PlayerIdSpace + PlayerIdSpace = (q + 1) * PlayerIdSpace
              BY Spaces
            <6>4. \A p \in PlayerIds : p <= nextPlayerId /\ ~(p < nextPlayerId')
              BY <3>2, <6>1, Spaces DEF PlayerIds
            <6>5. RoundsDone(q + 1)'
              BY <5>7, <6>1, <6>2, <6>3, <6>4 DEF RoundsDone
            <6> QED
              BY <6>5
          <5> QED
            BY <5>8, <5>9
        <4> QED
          BY <1>2, <4>1, <4>2, <4>4, <4>5, <4>6 DEF PlayersNumbered, ServerIInv
      <3>5. CASE ~(Count < PlayerIdSpace /\ nextPlayerId > NumAsteroids)
        <4>1. UNCHANGED entityVars
          BY <1>1, <2>2, <3>1, <3>5, NewcomersShip DEF EnsureShip
        <4>2. ShipsBrought'
          BY <3>1, <3>2, <3>3, <3>5, <4>1, Spaces DEF ServerIInv, ShipsBrought, IdsGiven, entityVars
        <4> QED
          BY <3>4, <4>1, <4>2 DEF ServerIInv, Numbered, entityVars
      <3>6. CASE Count < PlayerIdSpace /\ nextPlayerId > NumAsteroids
        <4>1. SpawnEntity(Ship(pid))
          BY <1>1, <2>2, <3>1, <3>6, NewcomersShip DEF EnsureShip
        <4>2. pid = Len(slots) /\ pid + 1 < EntityIdSpace
          BY <3>1, <3>2, <3>6, Spaces, SessionAssumption DEF ServerIInv, ShipsBrought, IdsGiven
        <4>3. Fleet(slots') /\ Numbered' /\ Len(slots') = pid + 1
          BY <1>3, <3>1, <3>6, <4>1, <4>2, ShipJoins
        <4>4. ShipsBrought'
          BY <3>1, <3>2, <3>3, <3>6, <4>3, Spaces DEF ShipsBrought
        <4> QED
          BY <3>4, <4>3, <4>4
      <3> QED
        BY <3>5, <3>6
    <2> QED
      BY <2>1, <2>2
  <1>5. QueueOwned'
    <2>1. /\ pending \in Seq(CmdInputType) /\ issuers \subseteq DOMAIN clients
          /\ \A k \in DOMAIN pending :
               \E e \in issuers : clients[e].playerId = pending[k].playerId
      BY DEF ServerIInv, QueueOwned
    <2>2. CASE input = NoCommand
      <3>1. pending' = pending /\ issuers' = issuers
        BY <1>1, <2>2 DEF Enqueue
      <3> QED
        BY <1>2, <2>1, <3>1 DEF QueueOwned
    <2>3. CASE input # NoCommand
      <3> DEFINE cmd == [input EXCEPT !.playerId = pid]
      <3>1. pending' = Append(pending, cmd) /\ issuers' = issuers \cup {ep}
        BY <1>1, <2>3 DEF Enqueue
      <3>2. input \in CmdInputType
        BY <2>3, SessionAssumption
      <3> HIDE DEF pid
      <3>3. cmd \in CmdInputType /\ cmd.playerId = pid
        BY <1>3, <3>2 DEF CmdInputType
      <3> HIDE DEF cmd
      <3>4. /\ pending' \in Seq(CmdInputType) /\ DOMAIN pending' = DOMAIN pending \cup {Len(pending) + 1}
            /\ \A k \in DOMAIN pending : pending'[k] = pending[k]
            /\ pending'[Len(pending) + 1] = cmd
        BY <2>1, <3>1, <3>3, AppendProperties
      <3>5. \A k \in DOMAIN pending' :
              \E e \in issuers' : clients'[e].playerId = pending'[k].playerId
        BY <1>2, <2>1, <3>1, <3>3, <3>4
      <3> QED
        BY <1>2, <2>1, <3>1, <3>4, <3>5 DEF QueueOwned
    <2> QED
      BY <2>2, <2>3
  <1>6. PhasesDone'
    BY <1>1 DEF ServerIInv, PhasesDone
  <1> QED
    BY <1>4, <1>5, <1>6 DEF ServerIInv

THEOREM ServerInvariant == ServerSpec => []ServerIInv
  <1>1. ServerInit => ServerIInv
    BY InitServerIInv
  <1>2. ServerIInv /\ [ServerNext]_serverVars => ServerIInv'
    <2> SUFFICES ASSUME ServerIInv, [ServerNext]_serverVars
                 PROVE  ServerIInv'
      OBVIOUS
    <2>1. ASSUME NEW ep \in Endpoints, NEW input \in CmdInputs \cup {NoCommand},
                 HandlePacket(ep, input)
          PROVE  ServerIInv'
      BY <2>1, HandlePacketPreserves
    <2>2. CASE SimTick
      BY <2>2, SimTickPreserves
    <2>3. CASE UniverseTick
      BY <2>3, UniverseTickPreserves
    <2>4. CASE \/ BeginTick \/ Stop \/ Broadcast
               \/ RequestShutdown \/ CloseConsole \/ EndProcess \/ UNCHANGED serverVars
      BY <2>4, LoopStepPreserves
    <2> QED
      BY <2>1, <2>2, <2>3, <2>4 DEF ServerNext, MainLoop
  <1> QED
    BY <1>1, <1>2, PTL DEF ServerSpec

(* However many endpoints are heard, they share player ids only when these *)
(* have run out, and evenly (trackClient, main.cpp:59-75).                 *)
THEOREM PlayersAreDistinct == ServerSpec => []PlayersDistinct
  <1>1. ServerIInv => PlayersDistinct
    <2> SUFFICES ASSUME ServerIInv PROVE PlayersDistinct
      OBVIOUS
    <2>1. PICK q \in Nat : RoundsDone(q)
      BY DEF ServerIInv, PlayersNumbered
    <2>2. /\ nextPlayerId \in Nat /\ Count \in Nat /\ PlayerIdSpace \in Nat \ {0}
          /\ Count = q * PlayerIdSpace + nextPlayerId
      BY <2>1, Counted, Spaces DEF RoundsDone
    <2>3. ASSUME NEW pid \in PlayerIds
          PROVE  (Cardinality(Holders(pid)) - 1) * PlayerIdSpace < Count
      <3>1. CASE pid < nextPlayerId
        <4>1. Cardinality(Holders(pid)) - 1 = q /\ nextPlayerId > 0
          BY <2>1, <2>2, <3>1, Spaces DEF RoundsDone, PlayerIds
        <4>2. q * PlayerIdSpace \in Nat
          BY <2>2
        <4>3. q * PlayerIdSpace < Count
          BY <2>2, <4>1, <4>2
        <4> QED
          BY <4>1, <4>3
      <3>2. CASE ~(pid < nextPlayerId)
        <4>1. Cardinality(Holders(pid)) = q
          BY <2>1, <3>2 DEF RoundsDone
        <4>2. (q - 1) * PlayerIdSpace = q * PlayerIdSpace - PlayerIdSpace /\ q * PlayerIdSpace \in Nat
          BY <2>2
        <4>3. (q - 1) * PlayerIdSpace < Count
          BY <2>2, <4>2
        <4> QED
          BY <4>1, <4>3
      <3> QED
        BY <3>1, <3>2
    <2>4. ASSUME Holders(INVALID_PLAYER) # {} PROVE Count >= PlayerIdSpace
      <3>1. PICK ep \in DOMAIN clients : clients[ep].playerId = PlayerIdSpace - 1
        BY <2>4 DEF Holders, INVALID_PLAYER
      <3>2. PlayerIdSpace - 1 \in 0 .. IdsGiven - 1
        BY <3>1 DEF ServerIInv, PlayersNumbered
      <3> QED
        BY <2>2, <3>2, Counted DEF IdsGiven
    <2> QED
      BY <2>3, <2>4 DEF PlayersDistinct, Count
  <1> QED
    BY <1>1, ServerInvariant, PTL

(* A player brings one ship at most, whoever shares its id, and every ship *)
(* but the test ship has a player (main.cpp:259-284).                      *)
THEOREM ShipsAreOwned == ServerSpec => []ShipsHaveOwners
  <1>1. ServerIInv => ShipsHaveOwners
    <2> SUFFICES ASSUME ServerIInv PROVE ShipsHaveOwners
      OBVIOUS
    <2>1. Fleet(slots) /\ slots \in Seq(Thing) /\ DOMAIN slots = 1 .. Len(slots) /\ Len(slots) \in Nat
      BY DEF ServerIInv, Fleet
    <2>2. ASSUME NEW pid \in PlayerIds
          PROVE  Cardinality(ShipsOf(slots, pid)) <= 1
      <3>1. CASE ShipsOf(slots, pid) = {}
        BY <3>1, FS_EmptySet
      <3>2. CASE ShipsOf(slots, pid) # {}
        <4>1. PICK i \in DOMAIN slots : i > NumAsteroids /\ slots[i].body.owner = pid
          BY <2>1, <3>2, Spaces DEF ShipsOf, Fleet
        <4>2. ShipsOf(slots, pid) = {i}
          BY <2>1, <4>1, ShipIsOnly
        <4>3. Cardinality({i}) = 1
          BY FS_Singleton
        <4> QED
          BY <4>2, <4>3
      <3> QED
        BY <3>1, <3>2
    <2>3. ASSUME NEW i \in DOMAIN slots, slots[i].body.type = "Ship", slots[i].id # NumAsteroids
          PROVE  Holders(slots[i].body.owner) # {}
      <3>1. /\ i \in 1 .. Len(slots) /\ i > NumAsteroids + 1
            /\ slots[i].body.owner = i - 1
        BY <2>1, <2>3, Spaces DEF Fleet
      <3>2. i - 1 \in 0 .. IdsGiven - 1
        BY <2>1, <3>1, Counted, Spaces DEF ServerIInv, ShipsBrought
      <3>3. PICK ep \in DOMAIN clients : clients[ep].playerId = i - 1
        BY <3>2 DEF ServerIInv, PlayersNumbered
      <3> QED
        BY <3>1, <3>3 DEF Holders
    <2> QED
      BY <2>2, <2>3 DEF ShipsHaveOwners
  <1> QED
    BY <1>1, ServerInvariant, PTL

(* The loop stops between ticks, with no command abandoned and everything  *)
(* moved (main.cpp:246-329).                                               *)
THEOREM StopIsBetweenTicks == ServerSpec => []StopsBetweenTicks
  <1>1. ServerIInv => StopsBetweenTicks
    BY DEF ServerIInv, PhasesDone, StopsBetweenTicks
  <1> QED
    BY <1>1, ServerInvariant, PTL

(* A tick changes an entity only if the endpoint that owns it sent a       *)
(* command (SimulationEngine.cpp:30-102, main.cpp:286-304).                *)
THEOREM ShipsObeyTheirOwners == ServerSpec => ShipsObeyOwners
  <1> DEFINE Obeyed == \A i \in DOMAIN slots :
                         slots'[i] # slots[i] =>
                           \E ep \in issuers : clients[ep].playerId = slots[i].body.owner
  <1>1. ASSUME ServerIInv, SimTick PROVE Obeyed
    <2>1. /\ Fleet(slots) /\ pending \in Seq(CmdInputType)
          /\ \A k \in DOMAIN pending :
               \E ep \in issuers : clients[ep].playerId = pending[k].playerId
      BY <1>1 DEF ServerIInv, QueueOwned
    <2>2. slots' = ExecuteAll(slots, pending) /\ DOMAIN pending = 1 .. Len(pending)
      BY <1>1, <2>1 DEF SimTick
    <2>3. SUFFICES ASSUME NEW i \in DOMAIN slots, slots'[i] # slots[i]
                   PROVE  \E ep \in issuers : clients[ep].playerId = slots[i].body.owner
      OBVIOUS
    <2>4. \E k \in 1 .. Len(pending) : pending[k].playerId = slots[i].body.owner
      BY <2>1, <2>2, <2>3, ExecuteAllFacts DEF Done
    <2> QED
      BY <2>1, <2>2, <2>4
  <1>2. ServerIInv /\ [ServerNext]_serverVars => [SimTick => Obeyed]_serverVars
    BY <1>1
  <1> QED
    BY <1>2, ServerInvariant, PTL DEF ServerSpec, ShipsObeyOwners

(* The last command of a ship's player decides, if it is not a Move        *)
(* (SimulationEngine.cpp:30-102).                                          *)
THEOREM LastOrdersStand == ServerSpec => LastOrderStands
  <1> DEFINE own(i)  == {k \in DOMAIN pending : pending[k].playerId = slots[i].body.owner}
             last(i) == pending[Max(own(i))]
             b(i)    == slots'[i].body
             Stands  == \A i \in DOMAIN slots :
                          slots[i].alive /\ slots[i].body.type = "Ship" /\ own(i) # {} =>
                            /\ last(i).action = "Stop" => b(i).vel = 0 /\ b(i).accel = 0
                            /\ last(i).action \in {"Attack", "Mine"} =>
                                 b(i).target = last(i).targetEntity
  <1>1. ASSUME ServerIInv, SimTick PROVE Stands
    <2>1. /\ Fleet(slots) /\ pending \in Seq(CmdInputType)
          /\ slots' = ExecuteAll(slots, pending)
          /\ DOMAIN pending = 1 .. Len(pending) /\ Len(pending) \in Nat
          /\ NumAsteroids \in Nat /\ DOMAIN slots \subseteq Nat
      BY <1>1, SessionAssumption DEF ServerIInv, QueueOwned, SimTick, Fleet
    <2>2. SUFFICES ASSUME NEW i \in DOMAIN slots, slots[i].body.type = "Ship", own(i) # {}
                   PROVE  Effect(b(i), last(i))
      BY DEF Effect
    <2>3. i > NumAsteroids
      BY <2>1, <2>2 DEF Fleet
    <2> DEFINE m == Max(own(i))
    <2>4. m \in own(i) /\ \A k \in own(i) : k <= m
      <3>1. own(i) \in SUBSET (1 .. Len(pending))
        BY <2>1
      <3> QED
        BY <2>1, <2>2, <3>1, GreatestPosition
    <2> HIDE DEF m
    <2>5. m \in 1 .. Len(pending) /\ pending[m].playerId = slots[i].body.owner
      BY <2>1, <2>4
    <2>6. \A later \in m + 1 .. Len(pending) : pending[later].playerId # slots[i].body.owner
      BY <2>1, <2>4, <2>5
    <2>7. Effect(b(i), pending[m])
      BY <2>1, <2>3, <2>5, <2>6, ExecuteAllFacts DEF Done
    <2> QED
      BY <2>7 DEF m
  <1>2. ServerIInv /\ [ServerNext]_serverVars => [SimTick => Stands]_serverVars
    BY <1>1
  <1> QED
    BY <1>2, ServerInvariant, PTL DEF ServerSpec, LastOrderStands

-----------------------------------------------------------------------------
(* What of a fleet a snapshot has taken in when it has come to entity i.   *)
Taken(shown, i) ==
  IF slots[i].alive /\ HasPlace(Len(shown[i - 1]))
    THEN Append(shown[i - 1], Shown(slots[i]))
    ELSE shown[i - 1]

(* A snapshot is the last of a series that goes through the entities one   *)
(* after the other (broadcastSnapshot, main.cpp:86-101).                   *)
LEMMA SnapEntitiesIsSeries ==
  ASSUME Len(slots) \in Nat
  PROVE  \E shown :
           /\ shown[0] = <<>>
           /\ \A i \in 1 .. Len(slots) : shown[i] = Taken(shown, i)
           /\ SnapEntities = shown[Len(slots)]
  <1> DEFINE n == Len(slots)
             Step(f, i) == IF i = 0 THEN <<>> ELSE Taken(f, i)
             T == {m \in 0 .. n : \E f : f = [i \in 0 .. m |-> Step(f, i)]}
             shown == CHOOSE f : f = [i \in 0 .. n |-> Step(f, i)]
  <1>1. 0 \in T
    <2> DEFINE f == [i \in 0 .. 0 |-> <<>>]
    <2>1. f = [i \in 0 .. 0 |-> Step(f, i)]
      OBVIOUS
    <2> HIDE DEF f, Step
    <2>2. \E h : h = [i \in 0 .. 0 |-> Step(h, i)]
      BY <2>1
    <2> QED
      BY <2>2
  <1>2. ASSUME NEW m \in T, m < n
        PROVE  m + 1 \in T
    <2>1. PICK f : f = [i \in 0 .. m |-> Step(f, i)]
      OBVIOUS
    <2> DEFINE next == Taken(f, m + 1)
               h == [i \in 0 .. m + 1 |-> IF i = m + 1 THEN next ELSE f[i]]
    <2>2. m \in Nat /\ \A i \in 0 .. m : f[i] = Step(f, i)
      BY <2>1
    <2>3. \A i \in 0 .. m + 1 : h[i] = Step(h, i)
      <3>1. SUFFICES ASSUME NEW i \in 0 .. m + 1 PROVE h[i] = Step(h, i)
        OBVIOUS
      <3>2. CASE i = 0
        BY <2>2, <3>2
      <3>3. CASE i = m + 1
        <4>1. h[i] = next /\ h[i - 1] = f[m] /\ i # 0 /\ i - 1 = m /\ (m + 1) - 1 = m
          BY <2>2, <3>3
        <4> HIDE DEF h
        <4> QED
          BY <3>3, <4>1 DEF Taken
      <3>4. CASE i \in 1 .. m
        <4>1. h[i] = f[i] /\ h[i - 1] = f[i - 1] /\ i \in 0 .. m /\ i # 0
          BY <2>2, <3>4
        <4> HIDE DEF h
        <4> QED
          BY <2>2, <4>1 DEF Taken
      <3> QED
        BY <2>2, <3>2, <3>3, <3>4
    <2>4. h = [i \in 0 .. m + 1 |-> Step(h, i)]
      <3> HIDE DEF Step, next
      <3> QED
        BY <2>3
    <2> HIDE DEF h, Step
    <2>5. \E g : g = [i \in 0 .. m + 1 |-> Step(g, i)]
      BY <2>4
    <2> QED
      BY <1>2, <2>2, <2>5
  <1>3. n \in T
    <2> HIDE DEF T
    <2> QED
      BY <1>1, <1>2, BoundedInduction DEF T
  <1>4. shown = [i \in 0 .. n |-> Step(shown, i)]
    BY <1>3
  <1>5. SnapEntities = shown[n]
    BY DEF SnapEntities, Taken
  <1> HIDE DEF shown
  <1>6. shown[0] = <<>> /\ \A i \in 1 .. n : shown[i] = Taken(shown, i)
    BY <1>4
  <1> QED
    BY <1>5, <1>6

(* The length of a snapshot, and its entities.                             *)
Shortened == IF Len(slots) <= MAX_ENTITIES_PER_SNAP THEN Len(slots) ELSE MAX_ENTITIES_PER_SNAP

FirstShown(n) == [i \in 1 .. n |-> Shown(slots[i])]

(* The first entities are shown, one after the other, until there is no    *)
(* place left.                                                             *)
LEMMA FirstAreShown ==
  ASSUME Fleet(slots)
  PROVE  SnapEntities = FirstShown(Shortened)
  <1>1. /\ slots \in Seq(Thing) /\ Len(slots) \in Nat /\ DOMAIN slots = 1 .. Len(slots)
        /\ \A i \in 1 .. Len(slots) : slots[i].alive = TRUE
        /\ MAX_ENTITIES_PER_SNAP \in Nat
    <2>1. slots \in Seq(Thing) /\ Len(slots) \in Nat /\ DOMAIN slots = 1 .. Len(slots)
      BY DEF Fleet
    <2>2. \A i \in 1 .. Len(slots) : slots[i] \in Thing
      BY <2>1, ElementOfSeq
    <2> QED
      BY <2>1, <2>2, SessionAssumption DEF Thing
  <1>2. PICK shown : /\ shown[0] = <<>>
                     /\ \A i \in 1 .. Len(slots) : shown[i] = Taken(shown, i)
                     /\ SnapEntities = shown[Len(slots)]
    BY <1>1, SnapEntitiesIsSeries
  <1> DEFINE Pictures == {Shown(slots[k]) : k \in 1 .. Len(slots)}
             upto(i) == IF i <= MAX_ENTITIES_PER_SNAP THEN i ELSE MAX_ENTITIES_PER_SNAP
             T == {i \in 0 .. Len(slots) : shown[i] = FirstShown(upto(i))}
  <1>3. 0 \in T
    <2>1. FirstShown(0) = <<>> /\ upto(0) = 0
      BY <1>1 DEF FirstShown
    <2> QED
      BY <1>1, <1>2, <2>1
  <1>4. ASSUME NEW i \in T, i < Len(slots)
        PROVE  i + 1 \in T
    <2>1. i \in Nat /\ i + 1 \in 1 .. Len(slots) /\ (i + 1) - 1 = i /\ i + 1 \in 0 .. Len(slots)
      BY <1>1, <1>4
    <2>2. shown[i + 1] = Taken(shown, i + 1) /\ shown[i] = FirstShown(upto(i))
      BY <1>2, <2>1
    <2> HIDE DEF Pictures
    <2>3. \A n \in 0 .. Len(slots) : FirstShown(n) \in Seq(Pictures) /\ Len(FirstShown(n)) = n
      <3>1. \A k \in 1 .. Len(slots) : Shown(slots[k]) \in Pictures
        BY DEF Pictures
      <3> QED
        BY <1>1, <3>1 DEF FirstShown
    <2>4. CASE i < MAX_ENTITIES_PER_SNAP
      <3>1. upto(i) = i /\ upto(i + 1) = i + 1 /\ i \in 0 .. Len(slots)
        BY <1>1, <2>1, <2>4
      <3> DEFINE longer == Append(FirstShown(i), Shown(slots[i + 1]))
      <3>2. HasPlace(Len(FirstShown(i)))
        BY <2>3, <2>4, <3>1 DEF HasPlace
      <3>3. shown[i + 1] = longer
        BY <1>1, <2>1, <2>2, <3>1, <3>2 DEF Taken
      <3>4. Shown(slots[i + 1]) \in Pictures
        BY <2>1 DEF Pictures
      <3>5. /\ longer \in Seq(Pictures) /\ Len(longer) = i + 1
            /\ \A k \in 1 .. i : longer[k] = FirstShown(i)[k]
            /\ longer[i + 1] = Shown(slots[i + 1])
        BY <2>1, <2>3, <3>1, <3>4, AppendProperties
      <3>6. \A k \in 1 .. i + 1 : longer[k] = FirstShown(i + 1)[k]
        BY <2>1, <3>5 DEF FirstShown
      <3> HIDE DEF longer
      <3>7. longer = FirstShown(i + 1)
        BY <2>1, <2>3, <3>5, <3>6, SeqEqual
      <3> QED
        BY <2>1, <3>1, <3>3, <3>7
    <2>5. CASE ~(i < MAX_ENTITIES_PER_SNAP)
      <3>1. /\ upto(i) = MAX_ENTITIES_PER_SNAP /\ upto(i + 1) = MAX_ENTITIES_PER_SNAP
            /\ MAX_ENTITIES_PER_SNAP \in 0 .. Len(slots)
        BY <1>1, <2>1, <2>5
      <3>2. ~HasPlace(Len(FirstShown(MAX_ENTITIES_PER_SNAP)))
        BY <1>1, <2>3, <3>1 DEF HasPlace
      <3>3. shown[i + 1] = shown[i]
        BY <2>1, <2>2, <3>1, <3>2 DEF Taken
      <3> QED
        BY <2>1, <2>2, <3>1, <3>3
    <2> QED
      BY <2>4, <2>5
  <1>5. Len(slots) \in T
    <2> HIDE DEF T
    <2> QED
      BY <1>1, <1>3, <1>4, BoundedInduction DEF T
  <1> QED
    BY <1>2, <1>5 DEF Shortened

(* Each snapshot sent shows the first entities, as they are after the      *)
(* tick's physics, and all of them if they are no more than its places,    *)
(* and goes to all endpoints heard (broadcastSnapshot, main.cpp:77-110).   *)
THEOREM SnapshotsAreComplete == ServerSpec => SnapshotComplete
  <1> DEFINE living   == {i \in DOMAIN slots : slots[i].alive}
             rank(i)  == Cardinality({j \in living : j <= i})
             shown    == snapshot'.entities
             Complete ==
               /\ snapshot'.serverTick = tickNum /\ snapshot'.sentTo = DOMAIN clients
               /\ Len(shown) = IF Cardinality(living) <= MAX_ENTITIES_PER_SNAP
                                THEN Cardinality(living) ELSE MAX_ENTITIES_PER_SNAP
               /\ \A i \in living :
                    /\ slots[i].body.lastUpdateTick = tickNum
                    /\ rank(i) <= MAX_ENTITIES_PER_SNAP => shown[rank(i)] = Shown(slots[i])
  <1>1. ASSUME ServerIInv, [ServerNext]_serverVars, snapshot' # snapshot
        PROVE  Complete
    <2>1. Broadcast
      BY <1>1 DEF ServerNext, MainLoop, HandlePacket, BeginTick, SimTick, UniverseTick, Stop,
                  RequestShutdown, CloseConsole, EndProcess, serverVars, sessionVars
    <2>2. /\ snapshot' = [sequence |-> snapSequence, serverTick |-> tickNum,
                          entities |-> SnapEntities, sentTo |-> Recipients]
          /\ phase = "broadcast"
      BY <1>1, <2>1 DEF Broadcast
    <2>3. /\ snapshot'.serverTick = tickNum /\ snapshot'.sentTo = DOMAIN clients
          /\ shown = FirstShown(Shortened)
      BY <1>1, <2>2, FirstAreShown DEF Recipients, ServerIInv
    <2>4. /\ Len(slots) \in Nat /\ DOMAIN slots = 1 .. Len(slots) /\ slots \in Seq(Thing)
          /\ MAX_ENTITIES_PER_SNAP \in Nat
      BY <1>1, SessionAssumption DEF ServerIInv, Fleet
    <2>5. living = 1 .. Len(slots)
      <3>1. \A i \in 1 .. Len(slots) : slots[i] \in Thing
        BY <2>4, ElementOfSeq
      <3> QED
        BY <2>4, <3>1 DEF Thing
    <2>6. Cardinality(living) = Len(slots) /\ \A i \in living : rank(i) = i
      <3>1. \A n \in Nat : Cardinality(1 .. n) = n
        BY FS_Interval
      <3>2. ASSUME NEW i \in living PROVE {j \in living : j <= i} = 1 .. i /\ i \in Nat
        BY <2>4, <2>5
      <3> QED
        BY <2>4, <2>5, <3>1, <3>2
    <2>7. /\ Shortened \in Nat
          /\ Shortened = IF Len(slots) <= MAX_ENTITIES_PER_SNAP
                          THEN Len(slots) ELSE MAX_ENTITIES_PER_SNAP
          /\ \A i \in 1 .. Len(slots) : i <= MAX_ENTITIES_PER_SNAP => i <= Shortened
      BY <2>4 DEF Shortened
    <2> HIDE DEF living, rank, shown
    <2>8. Len(shown) = Shortened /\ \A i \in 1 .. Shortened : shown[i] = Shown(slots[i])
      BY <2>3, <2>7 DEF FirstShown
    <2>9. \A i \in living : slots[i].body.lastUpdateTick = tickNum
      BY <1>1, <2>2, <2>4, <2>5 DEF ServerIInv, PhasesDone
    <2>10. Len(shown) = IF Cardinality(living) <= MAX_ENTITIES_PER_SNAP
                          THEN Cardinality(living) ELSE MAX_ENTITIES_PER_SNAP
      BY <2>6, <2>7, <2>8
    <2>11. ASSUME NEW i \in living, rank(i) <= MAX_ENTITIES_PER_SNAP
           PROVE  shown[rank(i)] = Shown(slots[i])
      <3>1. rank(i) = i /\ i \in 1 .. Len(slots) /\ i \in Nat
        BY <2>4, <2>5, <2>6
      <3>2. i \in 1 .. Shortened
        BY <2>7, <2>11, <3>1
      <3> QED
        BY <2>8, <3>1, <3>2
    <2> QED
      BY <2>3, <2>9, <2>10, <2>11
  <1>2. ServerIInv /\ [ServerNext]_serverVars => [snapshot' # snapshot => Complete]_serverVars
    BY <1>1
  <1> QED
    BY <1>2, ServerInvariant, PTL DEF ServerSpec, SnapshotComplete
=============================================================================
