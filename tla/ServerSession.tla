---------------------------- MODULE ServerSession ----------------------------
(***************************************************************************)
(* The server process: Server/main.cpp's loop around SimulationEngine and  *)
(* EntitySystem.  The loop is one thread; the network decides which valid  *)
(* packets recvPackets hands over (SocketManager says which those are) and *)
(* the console handler, another thread, may request the shutdown at any    *)
(* moment, or the system end the process.  What the loop does with the     *)
(* database is Persistence's part.                                         *)
(*                                                                         *)
(* As in EntitySystem space is one line, and a velocity is the distance    *)
(* covered in a tick.                                                      *)
(***************************************************************************)
EXTENDS EntitySystem, FiniteSetsExt

CONSTANTS
  Endpoints,              \* "addr:port" of the senders
  CmdInputs,              \* the commands clients send
  NoCommand,              \* a valid packet of any other type
  NumAsteroids,           \* 16 in the code, one per sector
  SHIP_MOVE_SPEED,
  SHIP_STOP_DISTANCE,
  TICKS_PER_SNAPSHOT,     \* 3 in the code
  MAX_ENTITIES_PER_SNAP,  \* 64 in the code
  MaxPackets              \* bound: packets handed over in a tick

CmdInputType ==
  [action: {"Move", "Stop", "Attack", "Mine", "None"}, target: Int,
   targetEntity: EntityIds, playerId: PlayerIds]

(* Player ids may run out, entity ids not: a player brings one ship.       *)
ASSUME SessionAssumption ==
  /\ CmdInputs \subseteq CmdInputType /\ NoCommand \notin CmdInputs
  /\ NumAsteroids \in Nat /\ SHIP_MOVE_SPEED \in Nat /\ SHIP_STOP_DISTANCE \in Nat
  /\ TICKS_PER_SNAPSHOT \in Nat \ {0} /\ MAX_ENTITIES_PER_SNAP \in Nat
  /\ MaxPackets \in Nat
  /\ IsFiniteSet(Endpoints)
  /\ NumAsteroids + 1 + PlayerIdSpace < EntityIdSpace

VARIABLES
  clients,            \* g_clients: endpoint -> player id and last tick heard
  nextPlayerId,       \* g_nextPlayerId
  pending,            \* m_pendingCommands
  snapSequence,       \* g_snapSequence
  tickNum,
  shutdownRequested,  \* g_shutdownRequested
  closing,            \* the system is about to end the process
  phase,              \* where the loop is
  handled,            \* packets handled in this tick
  issuers,            \* history: endpoints whose commands are pending
  snapshot            \* history: the last snapshot sent, and to whom

sessionVars == <<clients, nextPlayerId, pending, snapSequence, tickNum,
                 shutdownRequested, closing, phase, handled, issuers, snapshot>>

serverVars == <<entityVars, sessionVars>>

NoSnapshot == [sequence |-> -1, serverTick |-> -1, entities |-> <<>>, sentTo |-> {}]

Ship(pid) ==
  [type |-> "Ship", owner |-> pid, target |-> INVALID_ENTITY,
   pos |-> 0, vel |-> 0, accel |-> 0]

Asteroid(i) ==
  [type |-> "Asteroid", owner |-> INVALID_PLAYER, target |-> INVALID_ENTITY,
   pos |-> i, vel |-> 0, accel |-> 0]

-----------------------------------------------------------------------------
(* After the start-up code: the asteroids, then the test ship of player 0. *)
ServerInit ==
  /\ slots = [i \in 1 .. NumAsteroids + 1 |->
                Slot(i - 1, TRUE,
                     FreshBody(IF i <= NumAsteroids THEN Asteroid(i) ELSE Ship(0)))]
  /\ lookup = [id \in 0 .. NumAsteroids |-> id + 1]
  /\ freePool = <<>>
  /\ nextId = NumAsteroids + 1
  /\ liveCount = NumAsteroids + 1
  /\ clients = [ep \in {} |-> 0]
  /\ nextPlayerId = 0
  /\ pending = <<>>
  /\ snapSequence = 0
  /\ tickNum = 0
  /\ shutdownRequested = FALSE
  /\ closing = FALSE
  /\ phase = "head"
  /\ handled = 0
  /\ issuers = {}
  /\ snapshot = NoSnapshot

(* The loop's condition, read once per tick.                               *)
BeginTick ==
  /\ phase = "head" /\ ~shutdownRequested
  /\ tickNum < MaxTick
  /\ phase' = "packets"
  /\ handled' = 0
  /\ UNCHANGED <<entityVars, clients, nextPlayerId, pending, snapSequence, tickNum,
                 shutdownRequested, closing, issuers, snapshot>>

(* Mutant: the loop is left as soon as the flag is seen.                   *)
Stop_MidTick ==
  /\ phase # "stopped" /\ shutdownRequested
  /\ phase' = "stopped"
  /\ UNCHANGED <<entityVars, clients, nextPlayerId, pending, snapSequence, tickNum,
                 shutdownRequested, closing, handled, issuers, snapshot>>

(* Mutant: the server waits until its clients are gone.                    *)
Stop_WhenEmpty ==
  /\ phase = "head" /\ shutdownRequested /\ DOMAIN clients = {}
  /\ phase' = "stopped"
  /\ UNCHANGED <<entityVars, clients, nextPlayerId, pending, snapSequence, tickNum,
                 shutdownRequested, closing, handled, issuers, snapshot>>

Stop ==
  /\ phase = "head" /\ shutdownRequested
  /\ phase' = "stopped"
  /\ UNCHANGED <<entityVars, clients, nextPlayerId, pending, snapSequence, tickNum,
                 shutdownRequested, closing, handled, issuers, snapshot>>

(* Mutant: whoever sends is given the next player id.                      *)
PlayerOf_AlwaysNext(ep) == nextPlayerId

(* trackClient(addr, port, tickNum): what it returns, and what it does.    *)
PlayerOf(ep) == IF ep \in DOMAIN clients THEN clients[ep].playerId ELSE nextPlayerId

(* Mutant: the next player id is not advanced.                             *)
TrackClient_SameId(ep) ==
  /\ clients' = [k \in DOMAIN clients \cup {ep} |->
                   IF k = ep THEN [playerId |-> PlayerOf(ep), lastTick |-> tickNum]
                   ELSE clients[k]]
  /\ UNCHANGED nextPlayerId

TrackClient(ep) ==
  /\ clients' = [k \in DOMAIN clients \cup {ep} |->
                   IF k = ep THEN [playerId |-> PlayerOf(ep), lastTick |-> tickNum]
                   ELSE clients[k]]
  /\ nextPlayerId' = IF ep \in DOMAIN clients THEN nextPlayerId
                     ELSE (nextPlayerId + 1) % PlayerIdSpace

(* The slots that hold a living ship of the player.                        *)
ShipsOf(ss, pid) ==
  {i \in DOMAIN ss : ss[i].alive /\ ss[i].body.type = "Ship" /\ ss[i].body.owner = pid}

(* Mutant: only the owners of the ships are looked at.                     *)
NeedsShip_ByOwner(pid) == ShipsOf(slots, pid) = {}

(* The player id is also looked up as an entity id.                        *)
NeedsShip(pid) == ~Exists(pid) /\ ShipsOf(slots, pid) = {}

EnsureShip(pid) ==
  IF NeedsShip(pid) THEN SpawnEntity(Ship(pid)) ELSE UNCHANGED entityVars

(* Mutant: the packet's own player id is believed.                         *)
Enqueue_AsClaimed(pid, ep, input) ==
  IF input = NoCommand
    THEN UNCHANGED <<pending, issuers>>
    ELSE /\ pending' = Append(pending, input)
         /\ issuers' = issuers \cup {ep}

(* enqueueCommand, with the player id the server knows the sender by.      *)
Enqueue(pid, ep, input) ==
  IF input = NoCommand
    THEN UNCHANGED <<pending, issuers>>
    ELSE /\ pending' = Append(pending, [input EXCEPT !.playerId = pid])
         /\ issuers' = issuers \cup {ep}

(* One iteration of the loop over the received packets.                    *)
HandlePacket(ep, input) ==
  /\ phase = "packets" /\ handled < MaxPackets
  /\ handled' = handled + 1
  /\ TrackClient(ep)
  /\ EnsureShip(PlayerOf(ep))
  /\ Enqueue(PlayerOf(ep), ep, input)
  /\ UNCHANGED <<snapSequence, tickNum, shutdownRequested, closing, phase, snapshot>>

-----------------------------------------------------------------------------
Distance(x) == IF x < 0 THEN -x ELSE x

(* A body with another course and target.                                  *)
Steered(b, vel, accel, target) ==
  Body(b.type, b.owner, target, b.pos, vel, accel, b.lastUpdateTick)

(* What a command does to the body of its player's ship.                   *)
Obey(b, cmd) ==
  LET delta == cmd.target - b.pos
      speed == IF delta > 0 THEN SHIP_MOVE_SPEED ELSE -SHIP_MOVE_SPEED
  IN  CASE cmd.action = "Move" /\ Distance(delta) > SHIP_STOP_DISTANCE ->
             Steered(b, speed, b.accel, INVALID_ENTITY)
        [] cmd.action = "Move" /\ Distance(delta) <= SHIP_STOP_DISTANCE ->
             Steered(b, 0, b.accel, b.target)
        [] cmd.action = "Stop" -> Steered(b, 0, 0, b.target)
        [] cmd.action \in {"Attack", "Mine"} ->
             Steered(b, b.vel, b.accel, cmd.targetEntity)
        [] OTHER -> b

(* The first living ship of the player obeys; a player without is ignored. *)
Execute(ss, cmd) ==
  LET own == ShipsOf(ss, cmd.playerId)
  IN  IF own = {} THEN ss
      ELSE [ss EXCEPT ![Min(own)].body = Obey(@, cmd)]

(* Mutant: the queue is worked off from its end.                           *)
ExecuteAll_LastFirst(ss, cmds) ==
  LET after[k \in 0 .. Len(cmds)] ==
        IF k = 0 THEN ss ELSE Execute(after[k - 1], cmds[Len(cmds) + 1 - k])
  IN  after[Len(cmds)]

(* phase1_inputProcessing, first to last.                                  *)
ExecuteAll(ss, cmds) ==
  LET after[k \in 0 .. Len(cmds)] ==
        IF k = 0 THEN ss ELSE Execute(after[k - 1], cmds[k])
  IN  after[Len(cmds)]

(* sim.tick(tickNum): phases 2 to 6 are empty.                             *)
SimTick ==
  /\ phase = "packets"
  /\ phase' = "physics"
  /\ slots' = ExecuteAll(slots, pending)
  /\ pending' = <<>>
  /\ issuers' = {}
  /\ UNCHANGED <<lookup, freePool, nextId, liveCount, clients, nextPlayerId,
                 snapSequence, tickNum, shutdownRequested, closing, handled, snapshot>>

(* universe.tick(TICK_INTERVAL_SEC, tickNum)                               *)
UniverseTick ==
  /\ phase = "physics"
  /\ phase' = "broadcast"
  /\ TickUpdate(tickNum)
  /\ UNCHANGED <<clients, nextPlayerId, pending, snapSequence, tickNum,
                 shutdownRequested, closing, handled, issuers, snapshot>>

(* What a SnapEntity shows of an entity.                                   *)
Shown(s) == [entityId |-> s.id, position |-> s.body.pos, ownerId |-> s.body.owner]

(* Mutant: the last place of a snapshot stays empty.                       *)
HasPlace_OneShort(count) == count < MAX_ENTITIES_PER_SNAP - 1

HasPlace(count) == count < MAX_ENTITIES_PER_SNAP

(* The entities of a SnapState: the first living ones of the array.        *)
SnapEntities ==
  LET shown[i \in 0 .. Len(slots)] ==
        IF i = 0 THEN <<>>
        ELSE IF slots[i].alive /\ HasPlace(Len(shown[i - 1]))
          THEN Append(shown[i - 1], Shown(slots[i]))
          ELSE shown[i - 1]
  IN  shown[Len(slots)]

(* Mutant: only the clients heard in this tick are sent a snapshot.        *)
Recipients_HeardNow == {ep \in DOMAIN clients : clients[ep].lastTick = tickNum}

Recipients == DOMAIN clients

(* broadcastSnapshot, when it is due, and the end of the tick.             *)
Broadcast ==
  /\ phase = "broadcast"
  /\ IF tickNum % TICKS_PER_SNAPSHOT = 0 /\ DOMAIN clients # {}
       THEN /\ snapshot' = [sequence   |-> snapSequence,
                            serverTick |-> tickNum,
                            entities   |-> SnapEntities,
                            sentTo     |-> Recipients]
            /\ snapSequence' = snapSequence + 1
       ELSE UNCHANGED <<snapshot, snapSequence>>
  /\ tickNum' = tickNum + 1
  /\ phase' = "head"
  /\ UNCHANGED <<entityVars, clients, nextPlayerId, pending, shutdownRequested,
                 closing, handled, issuers>>

(* consoleCtrlHandler, on its own thread, of Ctrl+C or Ctrl+Break.         *)
RequestShutdown ==
  /\ phase # "killed"
  /\ shutdownRequested' = TRUE
  /\ UNCHANGED <<entityVars, clients, nextPlayerId, pending, snapSequence, tickNum,
                 closing, phase, handled, issuers, snapshot>>

(* The same of a console that is closed or a system that shuts down, which *)
(* set the flag, and of a log-off, left to the default handler: the system *)
(* ends the process as soon as the handlers have returned.                 *)
CloseConsole ==
  /\ phase # "killed"
  /\ shutdownRequested' \in {shutdownRequested, TRUE}
  /\ closing' = TRUE
  /\ UNCHANGED <<entityVars, clients, nextPlayerId, pending, snapSequence, tickNum,
                 phase, handled, issuers, snapshot>>

(* The process ends wherever the loop is.                                  *)
EndProcess ==
  /\ closing /\ phase # "stopped"
  /\ phase' = "killed"
  /\ UNCHANGED <<entityVars, clients, nextPlayerId, pending, snapSequence, tickNum,
                 shutdownRequested, closing, handled, issuers, snapshot>>

MainLoop == BeginTick \/ SimTick \/ UniverseTick \/ Broadcast \/ Stop

ServerNext ==
  \/ \E ep \in Endpoints, input \in CmdInputs \cup {NoCommand} : HandlePacket(ep, input)
  \/ MainLoop
  \/ RequestShutdown
  \/ CloseConsole
  \/ EndProcess

(* The operating system keeps running the loop's thread.                   *)
ServerSpec == ServerInit /\ [][ServerNext]_serverVars /\ WF_serverVars(MainLoop)

-----------------------------------------------------------------------------
(* The endpoints that are player pid.                                      *)
Holders(pid) == {ep \in DOMAIN clients : clients[ep].playerId = pid}

(* Endpoints are the same player only when the ids have run out: an id has *)
(* a second holder only after all ids were given out once, a third after   *)
(* they were given out twice.  Until all but the last are given out nobody *)
(* is INVALID_PLAYER, which owns the asteroids (main.cpp:59-75).           *)
PlayersDistinct ==
  /\ \A pid \in PlayerIds :
       (Cardinality(Holders(pid)) - 1) * PlayerIdSpace < Cardinality(DOMAIN clients)
  /\ Holders(INVALID_PLAYER) # {} => Cardinality(DOMAIN clients) >= PlayerIdSpace

(* However often a player is heard and whoever shares its id, it has one   *)
(* ship at most, and no ship but the test ship is without a player.        *)
ShipsHaveOwners ==
  /\ \A pid \in PlayerIds : Cardinality(ShipsOf(slots, pid)) <= 1
  /\ \A i \in DOMAIN slots :
       slots[i].alive /\ slots[i].body.type = "Ship" /\ slots[i].id # NumAsteroids =>
         Holders(slots[i].body.owner) # {}

(* main.cpp:259, "Spawn a ship for brand-new players": every player that   *)
(* was heard has a ship.                                                   *)
PlayersHaveShips ==
  \A ep \in DOMAIN clients : ShipsOf(slots, clients[ep].playerId) # {}

(* A simulation tick changes an entity only if the endpoint that owns it   *)
(* sent a command, whatever player ids the packets claim.                  *)
ShipsObeyOwners ==
  [][SimTick =>
       \A i \in DOMAIN slots :
         slots'[i] # slots[i] =>
           \E ep \in issuers : clients[ep].playerId = slots[i].body.owner]_serverVars

(* The commands of a player take effect in the order they were received:   *)
(* after a tick whose last one is a Stop the ship is at rest, and an       *)
(* Attack or Mine that came last decides its target.                       *)
LastOrderStands ==
  [][SimTick =>
       \A i \in DOMAIN slots :
         LET own  == {k \in DOMAIN pending : pending[k].playerId = slots[i].body.owner}
             last == pending[Max(own)]
             b    == slots'[i].body
         IN  slots[i].alive /\ slots[i].body.type = "Ship" /\ own # {} =>
               /\ last.action = "Stop" => b.vel = 0 /\ b.accel = 0
               /\ last.action \in {"Attack", "Mine"} => b.target = last.targetEntity]_serverVars

(* A snapshot goes to all endpoints heard so far and shows, in the order   *)
(* of the array, the first living entities up to its capacity, each with   *)
(* the id, the owner and the place it has after this tick's physics, and   *)
(* nothing else (main.cpp:77-110).                                         *)
SnapshotComplete ==
  [][snapshot' # snapshot =>
       LET living  == {i \in DOMAIN slots : slots[i].alive}
           rank(i) == Cardinality({j \in living : j <= i})
           shown   == snapshot'.entities
       IN  /\ snapshot'.serverTick = tickNum /\ snapshot'.sentTo = DOMAIN clients
           /\ Len(shown) = IF Cardinality(living) <= MAX_ENTITIES_PER_SNAP
                            THEN Cardinality(living) ELSE MAX_ENTITIES_PER_SNAP
           /\ \A i \in living :
                /\ slots[i].body.lastUpdateTick = tickNum
                /\ rank(i) <= MAX_ENTITIES_PER_SNAP => shown[rank(i)] = Shown(slots[i])]_serverVars

(* "Graceful shutdown": the loop stops between ticks, never with a command *)
(* taken off the socket and not executed, or executed and not moved.       *)
StopsBetweenTicks ==
  phase = "stopped" =>
    /\ pending = <<>>
    /\ \A i \in DOMAIN slots :
         slots[i].alive /\ tickNum > 0 => slots[i].body.lastUpdateTick = tickNum - 1

(* A requested shutdown is carried out, unless the system takes the        *)
(* process away before.                                                    *)
ShutdownCompletes == shutdownRequested ~> (phase = "stopped" \/ closing)

(* An endpoint that was heard is sent a snapshot within TICKS_PER_SNAPSHOT *)
(* ticks, unless the server ends first.                                    *)
ClientsAreServed ==
  \A ep \in Endpoints :
    (ep \in DOMAIN clients /\ tickNum + TICKS_PER_SNAPSHOT <= MaxTick)
      ~> (ep \in snapshot.sentTo \/ phase \in {"stopped", "killed"})
=============================================================================
