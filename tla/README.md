# StarStrike, specified

TLA+ specifications of the StarStrike server, its UDP protocol, its persistence with
the connection pool, the voxel code and the coordinates under it, and of the client's snapshot
path, input, window, graphics core and resource barriers, with the TLC runs that check them on small
instances and the TLAPS proofs that hold for every instance. Paths are relative
to the repository's root; line numbers are those of the commit beside this
directory.

Contents: [the system](#the-system) ·
[modules](#modules-and-how-they-follow-the-code) ·
[runs](#runs) · [fairness](#fairness) · [proofs](#proofs) ·
[where code and documents differ](#where-code-and-documents-differ) ·
[not modelled](#not-modelled) · [plan](#plan)

## The system

StarStrike is a space RTS. A dedicated server (`Server/main.cpp`) runs one loop of
60 ticks a second on one thread: receive packets, make ships for new players,
execute commands, move entities, broadcast a snapshot every third tick, write
voxel edits to SQL Server. Clients (`StarStrike/GameApp.cpp`) send commands over UDP
and draw what the snapshots tell them. Everything crosses the network in
datagrams with a sequence number and a CRC and nothing is acknowledged.

    GameApp -> ClientSocket ~~UDP~~> SocketManager -> main loop -> SimulationEngine
       ^                                                 |   |          |
    EntityCache <- SnapshotDecoder <~~UDP~~ broadcastSnapshot |     EntitySystem
                                                         VoxelSystem -> ChunkStore -> Database

### Inventory

| Component | State | Operations | Hard about it | What makes it correct |
|---|---|---|---|---|
| **EntitySystem** (`GameLogic/EntitySystem.cpp`) | `m_entities` (dead ones stay), `m_entityLookup`, `m_freePool`, `m_nextId`, `m_liveCount` | `spawnEntity`, `destroyEntity`, `getEntity`, `tickUpdate` | four records of the same fact; ids are reused, slots are not | an id leads to the one living slot that carries it; ids are living, free or unissued; ids run out only with the living |
| **SocketManager** (`NeuronServer/SocketManager.cpp`) | the socket, per endpoint the last 60 sequence numbers and the time of the last CRC log line | `recvPackets`, `sendTo`, `isDuplicate`, `shouldLogCrcError` | datagrams are lost, copied, reordered, damaged, and arrive while the loop runs; the window counts packets | no repeat within the window, no fresh packet dropped, bounded intake per tick |
| **ClientSocket** (`NeuronClient/ClientSocket.cpp`) | socket, server address, `m_sendSequence`, connected | `connect`, `disconnect`, `sendCommand`, `recv` | a session restarts its numbers; `recv` answers the same for "nothing" and "rubbish" | commands act at most once; what arrives is used |
| **Main loop** (`Server/main.cpp`) | `g_clients`, `g_nextPlayerId`, `g_snapSequence`, `tickNum`, `g_shutdownRequested` | `trackClient`, ship spawning, queueing, `broadcastSnapshot`, flushing, shutdown; `consoleCtrlHandler` on another thread | player ids and entity ids meet; shutdown at any moment | one player per endpoint, at most one ship per player, snapshots complete, graceful stop |
| **SimulationEngine** (`NeuronServer/SimulationEngine.cpp`) | `m_pendingCommands` | `enqueueCommand`, `tick` (phase 1; phases 2–6 are empty) | several players and several commands in one tick, forged player ids | a ship obeys its owner only and the last order stands |
| **UniverseManager, Sector, SectorManager** (`GameLogic/`) | sectors and their bounds | `init`, `tick`, coordinate look-ups | conversions between universe, sector and chunk coordinates | every position in one sector and one chunk |
| **VoxelSystem** (`GameLogic/VoxelSystem.cpp`) | `m_chunks` with dirty flag and version, `m_deltaBuffer` | `setVoxel`, `loadChunk`, `consumeDeltas`, run-length code, coordinate look-ups | an edit changes a chunk and a log that are saved separately | no edit unsaved and clean; no delta lost or doubled; decode inverts encode |
| **ChunkStore** (`NeuronServer/ChunkStore.cpp`) | `m_eventBuffer`; tables `voxel_chunks`, `voxel_events` | `appendVoxelEvents`, `flushVoxelEvents`, `flushDirtyChunks`, `saveChunk`, `loadSectorChunks`, `ensureSchema` | each statement fails on its own; crashes between any two steps | what counts as saved is saved; what was saved comes back |
| **Database** (`NeuronServer/Database.cpp`) | connections, which are lent, their queue | `acquire`, release, `execute`, transactions | lending, waiting, shutting down while lent | a connection has at most one borrower; a transaction stays on one connection |
| **UDPSocket, PacketCodec, PacketTypes** (`NeuronCore/`) | none but the socket | `sendTo`, `recvFrom`, `encodePacket`, `decodePacket` | sizes and truncation | what one side sends the other can decode |
| **EntityCache, SnapshotDecoder** (`NeuronClient/`) | per entity the last and the next position and their date; the last tick | `updateFromSnapshot`, `interpolate`, `clear` | snapshots are lost, late and partial | each entity shows one snapshot, not a blend |
| **GameApp** (`StarStrike/GameApp.cpp`) | camera, connection | `Update` (drain the socket, interpolate, send commands, zoom), touch and render | the drain loop stops early; the order of reset and use | a delivered snapshot is drawn |
| **InputSystem, Camera** (`NeuronClient/`) | keys down, wheel, pending commands; zoom | `processMessage`, `getPendingCommands`, `resetFrame`; `update` | messages that go elsewhere while a key is held | a click is one command; orders follow the keys held |
| **Timer** (`NeuronCore/TimerCore.h`), **WndProcManager** | last counter, elapsed and total ticks; list of handlers | `Update`, `ResetElapsedTime`; add, remove, dispatch | long frames, rounding | the clock follows the counter |
| **ASyncLoader** (`NeuronCore/`) | loading flag and waiters | start, finish, wait | missed notification | no caller in the repository |
| **ClientEngine** (`NeuronClient/NeuronClient.cpp`) | suspended, minimised, in size-move, fullscreen | `Startup`, `Run`, `WndProc`, `Shutdown` | order of size, drag, suspend and power messages | the back buffers follow the window; no suspension is left over |
| **Graphics core** (`NeuronClient/GraphicsCore.cpp`, `DescriptorHeap.cpp`) | fence, fence value per back buffer, current back buffer, swap chain, output size, descriptors taken | `Prepare`, `Present`, `MoveToNextFrame`, `WaitForGpu`, `WindowSizeChanged`, `HandleDeviceLost`, `Shutdown` | the GPU runs behind the CPU and may vanish at any moment; waits have no timeout | nothing the GPU uses is reset or released; every wait ends; the heaps suffice |
| **Resource states** (`NeuronClient/ResourceStateTracker.cpp`, `GpuResource.h`, `SamplerManager.cpp`) | recorded state per resource, pending barriers | `TransitionResource`, `BeginResourceTransition`, `InsertUAVBarrier`, `FlushResourceBarriers` | a buffer of 16 that fills in the middle of a call | recorded state = state after the barriers |
| **TickProfiler, ServerLog, Config** (`NeuronServer/`, `Server/Config.cpp`) | counters; settings | record, report; parse | – | – |
| Math, file helpers, Direct3D wrappers, vendored headers | | | geometry, descriptions, I/O | – |

### How the parts interact

* By **calls**, on the server: everything but the console handler runs on the loop's
  thread. `recvPackets` returns a vector; for each packet the loop calls `trackClient`, then
  the entity system, then `enqueueCommand`; `sim.tick` and `universe.tick` follow, then
  the broadcast and the flushes. Steps of the loop interleave only with the network and with
  `consoleCtrlHandler`, which sets an atomic flag.
* By **messages**: commands from client to server, snapshots back.
* By **callbacks**, on the client: Windows calls `WndProc`, from `DispatchMessage` or from its own loop while the user
  drags the window; `WndProc` calls the hooks of `GameMain`, and those the graphics core, which blocks on the fence. Between
  messages `Run` draws a frame. The GPU is the only other actor.
* By **shared state**: `EntitySystem` between loop, simulation and broadcast; `VoxelSystem`'s
  buffers between simulation and `ChunkStore`; the tables between one run of the server
  and the next; the pool of connections between callers of `Database`, of which there is one today.

## Modules, and how they follow the code

Every action is one operation of the code with all the state it changes. Its comment
names the operation; the bounds that only the model has are the `Max...` constants,
each commented "bound" where it is declared. Operators whose names carry an
underscore (`TakeId_KeepsPool`) are mutants: plausible bugs of the definition
below them, used to see that the properties can fail and never referred to otherwise.

| Module | Models | Extends |
|---|---|---|
| `EntityWorld` | abstract: a world from which entities are created, removed, advanced | |
| `EntitySystem` | `EntitySystem.cpp`, all of it; implements `EntityWorld` | `EntityWorld` (INSTANCE) |
| `EntitySystemProofs` | theorems about it | `EntitySystem` |
| `SocketManager` | `recvPackets`, datagram by datagram | |
| `CommandChannel` | `ClientSocket::connect/disconnect/sendCommand`, the network, `SocketManager` | `SocketManager` |
| `CommandChannelProofs` | theorems about the window and the channel | `CommandChannel` |
| `ServerSession` | the loop of `main.cpp` with `SimulationEngine`, `UniverseManager`, `EntitySystem` | `EntitySystem` |
| `ServerSessionProofs` | theorems about players, ships, commands and snapshots | `ServerSession` |
| `VoxelCodec` | `serializeChunk`, `deserializeChunk` | |
| `Coordinates` | `SectorManager`, `Sector` and `VoxelSystem`'s conversions between positions, sectors, chunks and voxels | |
| `Persistence` | `VoxelSystem`'s edits, `ChunkStore`, the tables, start, stop and crash | `VoxelCodec` |
| `VoxelWorld` | nothing of its own: the voxels with their code and their places | `Persistence`, `Coordinates` |
| `PersistenceProofs` | theorems about all three | `VoxelWorld` |
| `ConnectionPool` | abstract: connections with at most one borrower each | |
| `DatabasePool` | `Database`'s pool, on many threads; implements `ConnectionPool` | `ConnectionPool` (INSTANCE) |
| `DatabasePoolProofs` | theorems about it | `DatabasePool` |
| `SnapshotFeed` | `broadcastSnapshot` to `EntityCache`, with `ClientSocket::recv` and the drain loop | |
| `GraphicsCore` | fences, back buffers, resize, device loss, and the GPU | |
| `ClientEngine` | `WndProc`, `Run`, start-up and shutdown of the client | `GraphicsCore` |
| `ClientEngineProofs` | theorems about the graphics core and the window; the client keeps to `GraphicsSpec` | `ClientEngine` |
| `ResourceStates` | `ResourceStateTracker`, `GpuResource`, and the GPU that meets the barriers | |
| `ResourceStatesProofs` | theorems about them | `ResourceStates` |
| `ClientFrame` | `InputSystem`, `WndProcManager`, `Timer`, the rest of `GameApp::Update` | |
| `GameAppProofs` | theorems about both halves of `GameApp::Update` | `SnapshotFeed`, `ClientFrame` |
| `MC...` | values for the constants | the module after `MC` |
| `MCServerData`, `MCServerLoop`, `MCClient` | nothing of their own: the parts that a passing run checks together, see [runs](#runs) | the `MC...` modules of the parts |

**EntitySystem.** `slots` is `m_entities`, counted from 1; `lookup` is `m_entityLookup`, a
function whose domain is the keys; `freePool` a sequence whose end is the vector's back.
Space is a line: position, velocity and acceleration are integers per tick, which keeps
the order of the two Euler updates observable (`Integrate` sets the velocity first; the header's comment has the position first,
and `EntityWorld` leaves the order open). Ids are
`0 .. EntityIdSpace - 1` with the last one `INVALID_ENTITY`, and arithmetic on `nextId` wraps.
`Body` holds what a snapshot or a command can tell apart; name and radius are
constant after the spawn and left out. `SpawnEntity` keeps the code's branch for a dead
slot found through the lookup, which `SpawnTakesDeadId` proves is never taken.

**SocketManager.** `inbox` is the operating system's buffer, `budget` the loop's counter `i`.
A datagram carries the verdict `decodePacket` will give on it. `NoDatagram` stands for what
`recvFrom` reports as "nothing": an empty datagram, or the connection-reset
error that a send to a closed port leaves in the socket; both end the loop with packets still
waiting. `delivered` is a history of what the vector returned by `recvPackets` held.

**CommandChannel.** The network is a set of all datagrams ever sent from which any may arrive,
never, once or often, in any order, intact or damaged. A payload is the pair of session and
position in it. Damage to the magic number, the length or the payload shows in the verdict `decodePacket` gives; the checksum covers the payload only
(`PacketTypes.h:20`), so `Transmit` may also deliver a packet with any other sequence number and a verdict of `Ok`. A damaged type makes a command something else, which
is not told apart here (`SnapshotFeed` has it for snapshots). `NoDatagram` may come in the place of any packet. `port` is the local port the system gives a socket, which
another session may have had before. `Trusted(p)` says of a port that one session had it so far and no damaged number was handed over from it; it is a state
predicate, evaluated when a packet is dropped or handed over, not a restriction of the model.

**ServerSession.** `phase` is the place in the loop: `head` (its condition), `packets` (the
`for` over the packets), `physics`, `broadcast`, `stopped`. `HandlePacket` is one iteration of that
`for`, for any endpoint and any valid packet: which are possible is `SocketManager`'s
part. `SnapEntities` is the `for` of `broadcastSnapshot`: a slot after the other, the living ones taken while there is a place (`HasPlace`). `trackClient`, the ship test, `spawnEntity` and `enqueueCommand` are one action, because nothing
can come between them. `RequestShutdown` is the console handler for Ctrl+C and Ctrl+Break and may come anywhere. `CloseConsole` is the same handler for a closed console
or a system that shuts down, and the default one at log-off: after it `EndProcess` may end the process wherever the loop is (`killed`). `issuers`
and `snapshot` are history. The start-up code (16 asteroids, one test ship of player 0) is `ServerInit`,
with `NumAsteroids` of them.

**Persistence.** `phase` is `down`, `head`, `sim`, `events`, `chunks`. No code outside the tests edits a voxel
yet, so `AddChunk` and `SetVoxel` are the calls the tests make at the point where
`sim.tick` would make them. `flushDirtyChunks` is one action per chunk, in any order (`m_chunks` is an unordered
map), since each save may fail and the process may die between two. A
statement's outcome is a free choice if `StatementsMayFail`, except for an INSERT that leaves out a
required column. After `Crash` or the end of `main`, `Start` finds the tables as they were.

The bytes of a row are those `VoxelCodec` makes of the chunk, so that "saved" means "decodes to it".

**VoxelCodec and Coordinates** are pure: recursive functions and operators. In the codec a byte has `ByteBase` values and a
run length two bytes; `deserializeChunk` reads whatever it is given, too short or too long. `Coordinates`
has both ways to name a chunk, `Sector`'s with the sector's corner taken off and `VoxelSystem`'s without, and
the cut to eight bits. `VoxelWorld` joins them to `Persistence` and states `CodeExact` and `PlacesExact`, which quantify over all
chunks and positions of the instance. They are the same in every state, so TLC evaluates them where `starts` is 0.

**DatabasePool.** `ConnectPool` and `DisconnectPool` are `connect` and `disconnect`. `available` is the queue, `held` what each thread has in hand between `acquire` and `release`, with the lock held
in neither; `Refuse` is the caller that gets `nullptr`. SQL Server may `Break` any connection; nothing repairs one. `DisconnectsInUse` lets
`disconnect` come while connections are lent, as the header allows and `main` never does.

**SnapshotFeed.** Published snapshots are numbered; a datagram is a number, `Damaged`, which `decodePacket` refuses, or `Stray`, which it accepts and
`decodeSnapshot` does not (another type or size; the type is outside the checksum). Whether a snapshot
decodes follows from `PacketSize`, computed from the sizes of the structs.
`ApplySnapshot`, `PassOver` and `DropRejected` are iterations of the drain loop, `Interpolate` the interpolation and the
next frame.

**GraphicsCore.** The calls are cut where the CPU blocks: `BeginResize` ends in the wait of `WaitForGpu`, `FinishResize`
goes on after it, and likewise for the other two waits. `cpu` is the place of the CPU: `Loop`, `Record` (between
`Prepare` and `Present`), the three `Await...`, `Start`, `Ended`, and `Threw` for a failed `check_hresult`. `queue` is what the GPU has yet to do:
command lists, named by the allocator they were recorded from, and fence values to signal.
`awaited` is 0 when `Signal` was refused and `WaitForGpu` returns at once. Which buffer comes next is the swap chain's choice.
`LoseDevice` may come at any moment; after it every fence counts as reached, which is
what Direct3D promises, and the GPU does nothing more. `HandleDeviceLost` is called from `Present` and from inside a resize; it keeps the fence values
and creates a fence that starts at the current one. A Direct3D call fails only by loss of the
device. The model, like a build without assertions, goes on when a heap is exhausted.

**ClientEngine.** One action per message that changes something, with what Windows does to the window in the same step:
`windowSize` is the client area, `asleep` that the system announced its suspension, `unseen` that the window has a size whose WM_SIZE `WndProc` dropped: the one with which
it came back from being minimized, or, in `Startup`, the one in which `ShowWindow(nCmdShow)` showed it maximized before there was a game. A handler that passes on a size goes on in `GraphicsCore`. No frame is drawn during a drag, because the
loop that runs then is not `Run`. `WM_MOVE` and `WM_DISPLAYCHANGE` end in `UpdateColorSpace` and change no state of the model; pointer and
activation messages reach empty hooks. ALT+ENTER may send several WM_SIZE; all but the last are `SizeTo`.

**ResourceStates.** A call of the tracker is an action built from the steps it takes on a record of array, flags and GPU: flush if full,
take a slot, set its flags, insert a UAV barrier, which may flush again. `flags` outlives a flush, as the array does. The GPU accepts a
barrier that starts from the state it has and ends only what was begun; after any other, nothing is known of the resource (`Lost`). The calls have the guards of the code and no more: any resource of
the game and Core's depth buffer, any state, however full the array is. `OverrunArray` is the call for whose last barrier there is no slot;
of a process that has written past its array nothing more is said. `astray` is history: the resources whose record is known to be wrong, in one of three ways.

1. A resource is taken to another state between the two halves of a split transition (`OutOfTurn`).
2. Its barrier goes into the last slot, and the UAV barrier that belongs to it flushes the array before the barrier's own `Flags` are set (`SentTooEarly`,
   `ResourceStateTracker.cpp:27-38`).
3. The depth buffer is created in DEPTH_WRITE (`GraphicsCore.cpp:319-321`) while its record stays COMMON, as its constructor left it, and `Destroy` and `Put` touch no record (`GpuResource.h:28-44`).

**ClientFrame.** The keyboard is an actor: `held` is what the player holds, `keysDown` what `InputSystem` believes, and
`unheard` the keys whose last message went to another window or came as WM_SYSKEY. A frame has two steps in the order of the code: `Frame` is `Timer::Core::Update` and
`GameApp::Update` from `resetFrame` to the commands, `UpdateCamera` the camera's update with the wheel's delta as it then is.
No message is handled between the two (`updating`), because `Run` is in `Update`.

## Runs

| Run | Configuration | Result | What it shows |
|---|---|---|---|
| `server_data` | entities: 6 ids, 3 living, 5 slots, 2 ticks. Commands: 2 clients, 2 ports, 2 sessions of a ping and a command, window 2, 2 packets a tick. Voxels: 2 chunks of 4, runs of at most 3, 2 edits, 2 starts, failing statements; 2×2 sectors of 2×2×2 chunks | pass | lookup exact, ids partitioned and never exhausted by the dead, no call changes which entity a slot holds, implements `EntityWorld`; no repeat within the window, each command of a trusted port at most once, only processed ones dropped, intake per tick bounded; clean chunks decode from their rows, deltas conserved, an orderly stop saves all the database accepts; decode inverts encode, sectors and chunks divide the universe |
| `server_loop` | loop: 4 endpoints, 3 player ids, 1 asteroid, 2 places in a snapshot, 3 commands with forged ids, 2 packets a tick, 3 ticks. Pool: 3 connections, 3 threads, any dropped | pass | an id is shared only when all are given out, ships have owners and obey only them, the last order stands, snapshots show what they have room for; every heard client is served; shutdown completes unless the system ends the process, and comes between ticks; a connection has one borrower at most and none is lost, implements `ConnectionPool`, while a connection lives statements go on succeeding |
| `client` | snapshots: 2 entities, 2 places, 2 snapshots, 3 deliveries, the code's sizes with a limit of 4096 bytes. Frame: 2 keys, a counter of 30 a second, 2 frames, 2 clicks. Window: 2 back buffers, 2 sizes, fence values to 6, 1 loss of the device. Barriers: 1 back buffer, the depth buffer, a resource of the game, 4 states, array of 2 | pass | each entity shows one snapshot and those that fit are applied; clicks sent once, orders follow the keys heard, the clock keeps the counter's time; allocators and render targets idle when touched, waits end, the output follows the window, no suspension left over; records right but for the ways astray, nothing waits between frames |
| `event_log` | 1 edit, no failures | **violation** | no event ever reaches its table |
| `reload` | 1 edit, 2 starts, no failures | **violation** | a saved chunk does not come back |
| `heaps` | the window of `client` without a loss | **violation** | the first resize exhausts the descriptor heaps |
| `overrun` | the barriers of `client` with an array of 3 | **violation** | a call writes past the array of barriers |
| `wheel` | 1 key, 1 frame, wheel ±1 | **violation** | the camera's update does not see the wheel |
| `snapshots_refused` | 1 snapshot, the code's sizes and limit | **violation** | no snapshot is ever applied |
| `late_snapshot` | the snapshots of `client` | **violation** | an older snapshot that arrives late is shown |
| `newcomers` | 3 endpoints, 1 packet a tick, 2 ticks | **violation** | player 1 gets no ship |
| `dedup` | the commands of `server_data` | **violation** | a new session on an old port has its packets dropped |

**Runs of several parts.** A passing run checks several parts side by side, each of which is a module of its own. They share no variable and every
property speaks of one part. Its next-state relation lets a part move only while the others are idle, in their initial
state (in `MCClient` one of their initial states), so a run has exactly the behaviours of each part by itself: an invariant or an action property of a part holds in the
run if and only if it holds of the part alone. For liveness, fairness is stated for each part with its own variables and is empty for an idle one: the main loop is fair
once it has moved, and a frame that has nothing to drain, a pool that is not connected and a client that is not started have no fair step that changes anything.
Interactions between parts are not what these sums are for; where parts do interact, one module has both: `CommandChannel` has
`SocketManager`, `ServerSession` has `EntitySystem` and the simulation, `ClientEngine` has `GraphicsCore`, `Persistence` has the codec.

**Why the bounds are enough.** `server_data`: with three living and five slots an id is
freed and taken again while two others live and a dead slot lies between living
ones; six ids keep one fresh id beyond all that are used, and the last is `INVALID_ENTITY`.
Two sessions of two packets with three sequence numbers fill the window of 2, reuse a port and damage each number into every other; three and four packets
handed over show what the window still knows; every packet may arrive as often as there is room, in any of the six verdicts; a third datagram in a
tick exceeds the intake. Clients, ports and the properties over them are interchangeable and reduced by symmetry; all properties are safety properties but the
refinement, which is of a specification without fairness. The events' period is 1 tick and the chunks' is 2, so there are ticks with one and with both due; two edits make
one chunk edited twice or two chunks, a second start makes a crash recover.
Chunks of four voxels have runs one short of, at, and beyond the limit of three, alone and followed
by another; the code's 32768 voxels never reach its limit of 65535, so the cut of a run is checked here beyond what the constants of today need. The grid has a neighbour on every side and a position beyond each bound.
`server_loop`: three player ids are 0, which owns the test ship, 1, which is the id of a living entity, and INVALID_PLAYER, which a third endpoint gets; the fourth is
player 0 again. Two packets a tick are two commands of one player, or of two, or two new
endpoints; three ticks hold two broadcasts, and the array grows to three entities and more than the two places of a snapshot. Endpoints are alike, and `HeardInOrder` keeps one order of their first
packets. With as many threads as connections the pool is empty, full and between, and each may be broken in each place of the queue; the pool's state space is complete without bounds.
`client`: two snapshots and three deliveries allow a loss, a copy and a reversal, with as many stray and damaged datagrams as the socket holds. What follows once a snapshot
fits is checked with a limit of 4096 bytes in the place of 1400, under which `snapshots_refused` shows that nothing follows. A delay of 4 counts is clamped to 3, which are 2½ ticks, so both the clamp and the remainder occur.
Six fence values are two rounds over the buffers with a resize and a lost device between them, and
a loss may hit a frame, a resize, a wait or the start; the bounds are in the guards of the steps that begin a frame or
a resize, so that nothing begun is cut off. Two slots are the fewest in which a transition with its UAV barrier meets an array with none, one and two
taken, and in which the array is overrun; two resources interleave in it, without other bounds.

Deadlock is not checked (`CHECK_DEADLOCK FALSE`) in the passing runs because the bounded behaviours end: a stopped
server, an exhausted tick or delivery bound, a process after an overrun. The only cycle of waiting in the modelled code would be
the loop waiting for a flag, which `ShutdownCompletes` covers.

## Fairness

* `ServerSpec` has weak fairness of `MainLoop`: the loop's own steps except taking one more
  packet. The thread is never blocked by another (the socket is non-blocking, the console handler
  takes no lock), so the operating system runs it eventually. Nothing is assumed
  of the network or of the console handler. `ShutdownCompletes` and `ClientsAreServed` need
  no more: `ShutdownCompletes` promises nothing once the system is about to end the process, and `ClientsAreServed` nothing once the server has ended.
* `FeedSpec` has weak fairness of `DrainStep`: the client's message loop draws frame after frame, and each drains the socket.
  Nothing is assumed of the server or the network; `FittingIsApplied` speaks of datagrams already
  in the client's socket that `decodePacket` accepts.

* `FairClientSpec` has weak fairness of the GPU, while it has work and its device, and of the CPU's return from
  a wait that is over: the driver and the scheduler do both. Nothing is assumed of the user, the system's messages or the swap chain.
  `WaitsEnd` needs both, and that whoever waits has a signal coming.
* `FairPoolSpec` says that a statement under way ends and that, after one has ended, another is made: the server's `flushVoxelEvents`
  and `flushDirtyChunks` make them again and again. `BrokenOnesPass` needs both: a
  broken connection fails the statement it meets and goes to the back of the queue.

## Proofs

`EntitySystemProofs` proves, for every size of the id space, every set of prototypes and every bound:

* `EntityTyped`, `LookupIsExact`, `IdsArePartitioned`, `IdsNeverExhausted`, `LiveCountIsExact`: the
  types, the invariants of run `server_data`, and that the counter is exact;
* `SlotsKeepTheirEntity`: the action property that no call revives a dead slot or
  changes the entity of a living one;
* `EntitySystemImplementsWorld`: the refinement of `EntityWorld`, by the second of the two orders it allows.

None of the invariants is inductive by itself. That a spawn takes an id not alive needs the partition of the
ids; that it takes one below `INVALID_ENTITY` needs the count of issued ids in `NoIdExhaustion`; that
`destroyEntity` frees exactly the id it was given needs `LookupExact`; the counter needs them all. `IInv` is
their conjunction. `InitIInv` starts it, `SpawnPreserves`, `DestroyPreserves` and
`TickPreserves` keep it, one per operation, each by the invariant's parts. The refinement
rests on it too: a caller of `getEntity` sees the function from living ids to bodies, a
spawn adds to it, a destroy takes from it, a tick advances it (`SpawnCreates`,
`DestroyRemoves`, `TickAdvances`).

Of the window `CommandChannelProofs` proves `SocketTyped`, `DequeIsExact` (`RecentIsTail`) and `DuplicatesDetected`
(`NoRepeatInWindow`) for every window, every number of senders and any traffic. That no number repeats
within the window is not inductive: the manager never looks at what it handed over, only at its deque. `SocketIInv`
adds that the deque is the exact tail of that history. Two lemmas about sequences carry the
argument: pushing on both keeps the tail (`RememberKeepsTail`), and a number not in the tail repeats none of the
window (`UnseenIsFresh`). `IntakeIsBounded` (`TickIntakeBounded`) rests on another strengthening, `IntakeIInv`: in the tick under way no more was
handed over than the loop has iterated, and nothing in a tick to come.

Of the channel it proves `ChannelImplementsSocket` (clients and network are just traffic to the server, so the theorems above
hold of the whole channel) and two results without a hypothesis about ports or damage: `OnlyDuplicatesDropped`, an undamaged packet from a trusted port that is
dropped as a duplicate has been handed over, so that there duplicate detection loses no command; and `CommandsArriveOnce`, a command from such a port is handed over
once at most while its session has sent no more packets than the window holds. The server compares numbers
and the properties speak of packets; `ChannelIInv` connects them: in a session the number of
a packet is its position, and a packet that waits or was handed over carries a payload that was sent from its port. With one session on the port and genuine numbers, equal
numbers are equal packets. For the second result, a repeat would lie further off than the window, and the
packets handed over in between, all different and all of the session, would outnumber it: an injection from positions into
the packets sent (`RepeatNeedsLongSession`). That the port has had one session is needed: `dedup` refutes the first result without it. That no damaged number was handed over is needed too:
a packet whose number was damaged into a fresh one is handed over beside its copy, and puts a number into the window that a later packet has a right to.

`ServerSessionProofs` proves, for any number of endpoints, player ids, asteroids, places in a snapshot and commands: `PlayersAreDistinct`, `ShipsAreOwned`, `ShipsObeyTheirOwners`,
`SnapshotsAreComplete`, `LastOrdersStand` and `StopIsBetweenTicks`. `ServerIInv` has six parts: `Fleet` (nothing ever dies; the array
holds the asteroids, the test ship, then a ship for each player that got one, and the place in it is the entity's id), `Numbered` (no id was
freed, the lookup is that numbering), `PlayersNumbered` (players are numbered as they are first heard, and ids are given out round after round:
`IdsGiven`, `RoundsDone`), `ShipsBrought` (who is numbered above the start-up entities brought a ship), `QueueOwned` and `PhasesDone`. `ShipsHaveOwners` alone is
not inductive: whether a newcomer gets a ship depends on which *entity* ids exist (`GivenIdIsTaken`, `NewcomersShip`). Ids may wrap: `PlayersDistinct` says that an
id has a second holder only after every id was given out once, a third after twice, and so on. What a tick does to the ships is a
recursive function over the queue of commands. `BoundedInduction` makes induction over its length available without the library's
theorems, which take an operator: were the last position not reached, the successor would map the positions reached one to one into
fewer. With it `ExecuteAllIsSeries` unfolds the function and `ExecuteAllFacts` carries through it who has changed and whose order stands.
The loop of the snapshot is unfolded likewise (`SnapEntitiesIsSeries`); as no entity ever dies, the first ones are
taken one by one until there is no place left (`FirstAreShown`), so `SnapshotsAreComplete` holds for any number of places and needs no hypothesis.

`PersistenceProofs` proves `DeltasAreConserved`, `CleanChunksAreSaved` and `OrderlyStopSaves` for any chunks, edits, failures, crashes
and restarts. `PersistenceIInv`: the types, `EditsOfLoaded` (only chunks in memory are edited), `CleanBytesSaved` (an edited chunk that is clean has in its row
the bytes `serializeChunk` makes of it), `Consumed` (between the flushes no delta is left in `VoxelSystem`) and
`FinalFlush` (after the loop both flushes are due). That those bytes decode to the chunk again is `ChunksRoundTrip`, for chunks of any size, any types and any
limit of a run: the serializer's scan is a recursive function, unfolded into the series of its states (`SerializeIsScan`), and `ScanReaches`
carries along it that a decoder given the bytes so far, with the run under way, stands just behind that run. `CodeIsExact` says it of the run's property.
`PlacesAreExact` proves `PlacesExact` for every size of sectors and grid that the names have room for: a position is quotient and
remainder by the size of a sector (`SectorsAreExact`), a chunk's name is a number whose digits are its coordinates (`NameIsRead`), and
two such numbers are equal only with equal digits; so names differ, with either of the two ways to name a chunk (`PlacesAreDistinct`).

`DatabasePoolProofs` proves `ConnectionsAreConserved`, `RefusalsAreDue` (`acquire` gives up only when every connection is lent) and the
refinement `PoolImplements`, for any number of connections and threads, if the pool is not disconnected in use.

`ClientEngineProofs` proves `AllocatorsAreIdle`, `WaitsAreFinite` and `TargetsAreIdle` for any number of back buffers, any
sizes and any number of losses. Its inductive invariant `Order` speaks of the
queue while the device is there: the values to be signalled ascend from the completed one; each command list is followed by a signal that
its buffer's fence value covers; and each such value is reached, announced or the next to be signalled. So a buffer whose
value is reached has no list left, and a value awaited is on its
way. It shows `ClientImplementsGraphics`: every window message is a step of the graphics core or none, so
the three hold of the client; and `SuspensionsEnd` and `SizesAreFollowed`, whose strengthening says that the game has been told nothing but what
the flag records and that the output size is right during the waits as well, unless the window has a size that was dropped.

`GameAppProofs` proves `OneSnapshotIsShown` for any entities, snapshots and deliveries: in the cache the next position and its date come from one
snapshot, the one applied last (`ShownIsLast`), and interpolation with 1.0 cancels where an entity came from (`CacheShows`, `ApplyPreserves`, `InterpolatePreserves`). Of the
frame it proves `ClicksAreSentOnce`, `KeysAreObeyed` and `ClockIsKept`, from `FrameIInv`, which has one part for each; what the conversion from counts to ticks loses is
`TickLoss`.

`ResourceStatesProofs` proves `RecordIsRight` and `FramesEndClean` for any resources, any states and any size of the array from two on, with no restriction on the
calls. The proof follows the state the GPU will have when it has met all that waits in the array: a flush leaves that state alone (`Flushing`), a barrier
adds one step to it (`Adding`), and flags may be set later than the barrier (`FlagsInAnyOrder`) unless it was sent before, and then its resource is astray (`Leading`, `LastAstray`);
the barriers of one resource do not touch another (`OthersAside`). `StatesIInv` is that agreement, with the place of the back buffers in a frame, while the array holds what was put
into it. After an overrun it says only that a frame is under way, which never ends (`OverrunArraySpoils`).

The assumptions are those the modules name (`BoundsAssumption`, `PrototypesAssumption`, `SocketAssumption`, `ChannelAssumption`, `SessionAssumption`,
`CodecAssumption`, `CoordinatesAssumption`, `PersistenceAssumption`, `PoolAssumption`, `FeedAssumption`, `FrameAssumption`, `GraphicsAssumption`,
`StatesAssumption`): natural bounds, prototypes and commands of the right type, sessions
shorter than the 2^32 sequence numbers, a grid whose chunks bytes can count, an array of two barriers at least (16 in the code), fewer living entities than ids. The last stands for a limit the code does not
have: it trusts that there are never 2^32 - 1 entities alive; player ids may run out. One theorem module has a hypothesis, `~DisconnectsInUse`, which `main` fulfils and `Database`'s header does not ask for.

Every invariant and action property of the passing runs is stated by a theorem; what the violation runs refute is not. Out of the prover's reach, and left to TLC, are the five liveness properties
(`ShutdownCompletes`, `ClientsAreServed`, `FittingIsApplied`, `WaitsEnd`, `BrokenOnesPass`): they need fairness and with it ENABLED.

## Where code and documents differ

Shown by a run that violates the documented property:

1. `event_log`: `StarStrike.md:938` "Every voxel removal written to voxel_events table". The INSERT omits
   `chunk_id`, which is NOT NULL; the outcome is ignored and the buffer emptied.
2. `reload`: `StarStrike.md:638` "loads all chunks per sector". The query is by `sector_id`, which no save writes, and the
   rows found are not decoded and all become the chunk with `INVALID_CHUNK`.
3. `heaps`: `DescriptorHeap.cpp:44` asserts "Descriptor Heap out of space. Increase heap size." The heaps of render target and depth
   views hold one set, each resize takes another, and only the loss of the device gives any back.

4. `overrun`: `IMPLEMENTATION_PLAN.md:263` "up to 16" barriers. `BeginResourceTransition` looks for room once and may
   take three slots.
5. `wheel`: `StarStrike.md:288` has the wheel zoom between 4x and 64x. `GameApp::Update` resets the wheel (`GameApp.cpp:86`) before it
   reads it (`:125`), and the camera's range is 0.1 to 10.
6. `snapshots_refused`: `IMPLEMENTATION_PLAN.md:1188` "Snapshots received and entity cache updated". 2594 bytes are sent and at most
   1400 accepted. `Tests.NeuronCore/PacketCodecTests.cpp:85-97` knows of the size and expects a
   delta encoding that is not there.
7. `late_snapshot`: `StarStrike.md:765` "use snapshot tick to sort". Ticks are not compared (`EntityCache.cpp:11`), and what arrives late is shown.
8. `newcomers`: `main.cpp:259` "Spawn a ship for brand-new players". Line 260 looks the *player* id up as an *entity*
   id, and the start-up entities have the ids 0 to 16: players 1 to 16 get no ship. Player 0 has the test ship.
9. `dedup`: `StarStrike.md:768` "drop if already processed". A new session restarts at 0 while the server keeps
   the window of the old one under the same address and port.

Left out of a property, which says so:

* `EntitySystem.h:60-61` has "pos += vel * dt, vel += accel * dt"; `EntitySystem.cpp:86-88` changes the velocity first. `EntityWorld` allows either, so
  `ImplementsWorld` takes no side.
* `VoxelSystem.h:82` "the ChunkID that contains it" and `Sector.h:32` "its owning ChunkID": the two name the same chunk in sector (0,0) only, as `VoxelSystem.cpp:12` does not take off
  the sector's corner. `PlacesExact` shows that either name by itself tells all places apart, not that they agree.
* `GraphicsCore.cpp:204` "These resources need to be recreated every time the window size is changed": the size of a window shown maximized (`NeuronClient.cpp:76`) comes before there is a
  game, and the size that comes with the end of being minimized (`:213-219`) is taken for the restore alone. Neither is passed on; the back buffers keep the old
  size until the next WM_SIZE. `OutputFollowsWindow` excepts exactly this (`unseen`).
* The depth buffer's record, and the flags of a barrier in the last slot: see `astray` above. `RecordAgrees` excepts the resource, and says that no other is affected.
* `Database.h:57` "thread-safe", but `disconnect` destroys what is lent, which `DisconnectsInUse = FALSE` leaves out as `main` does. `Database.h:86` "blocks" but `acquire` returns `nullptr`; `Database.h:79`:
  each transaction helper borrows a connection of its own, so `COMMIT` may meet another than `BEGIN` (no callers).
* `IMPLEMENTATION_PLAN.md:554` and `:1813` promise a graceful shutdown. Windows ends the process once the handler of `main.cpp:23-38` has answered for a closed console or a
  system shutdown, and at log-off without it; what was not flushed by then is lost. `ShutdownCompletes` and `StopsBetweenTicks` speak of the stops the loop makes itself.

Plain from the code:

* A damaged type or sequence number of a packet is not noticed, for the checksum leaves out the header (`PacketTypes.h:20`).
* `EntitySystem.cpp:26-30` speak of reusing a dead slot; `destroyEntity` erases the lookup entry, so the array grows
  with every spawn (`SpawnTakesDeadId`).
* `StarStrike.md:768` "60-tick dedup window": the window is 60 packets (`SocketManager.cpp:105`).
* `IMPLEMENTATION_PLAN.md:425` "buffer in reorder window": commands are executed in the order of arrival.
* `StarStrike.md:770` "Discard packets from unknown clients after 60 seconds": clients are never forgotten.
* `Constants.h:58` "stop when within this distance of target": the distance is looked at only when a Move is
  executed (`SimulationEngine.cpp:73`), so a ship flies on past its target.
* `ChunkStore.h:23` "with version check": the MERGE compares no version.
* `IMPLEMENTATION_PLAN.md:280` "Device lost/restored events fan through `IDeviceNotify`": nothing registers one
  (`GraphicsCore.h:39`), so the game would not hear of a lost device.
* `VoxelSystem.h:77`: `deserializeChunk` refuses malformed data, but takes what comes after the last voxel for good.
* `InputSystem.cpp:13-21`: a key held when the window loses the focus, or when ALT is pressed, stays down until it is pressed and released again, and gives an order
  every frame (`OrdersFollowKeys` excepts it). The orders of W, A, S and D have the absolute targets (0, 1), (-1, 0) and so on, not places near the ship.
* `main.cpp:236-331`: a tick that comes late is not made up for.
* `GraphicsCore.cpp:514`: a device lost after `IDXGISwapChain::Present` and before `Signal` ends the program by an exception, while one lost earlier or later is
  restored.

## Not modelled

* `d3dx12.h` and `DDSTextureLoader`, some 9,150 of the repository's 19,400 lines of code, are vendored; about 2,000 more are unit tests. Of what is left, the
  larger part fills Direct3D descriptions, draws, or is arithmetic.
* `ASyncLoader` and `Timer`'s `UpdateFixedStep` (`TimerCore.h:102-149`): nothing calls them.
* `ChunkStore::loadChunk`, `EntityCache::clear`, the schema's other tables: nothing in the program calls or uses them.
* ODBC: connection strings, binding and fetching. A statement succeeds or fails as a whole.
* CRC and byte layouts of packets: a datagram carries `decodePacket`'s verdict; sizes are kept where they decide it.
* Floating point: positions are integers on a line; interpolation runs with its only argument in the code, 1.0.
* Configuration, logging and `TickProfiler`: no decision of the server depends on a line written or a counter reported.
* Threads, files and the file system (`Threading.h`, `FileSystem.h`) are declared and not implemented.
* Rendering, touch, cursor and capture of the mouse, panning, views and colour spaces: geometry and description.
  Direct3D wrappers: no logic of this program.

## Plan

Done: every module of the table above; a theorem for each invariant and each action property of the passing runs.

Left, in this order:

1. A composition of `CommandChannel` with `ServerSession`: commands executed at most once, end to end. Both are
   proved about alone, on the same notion of a packet handed over.
2. An abstract specification of what a store promises (an edit is pending, then saved, and what is saved comes back to the one who asks), implemented
   by `Persistence` where `reload` does not refute it; its refinement is a theorem to prove.
3. The same for `SnapshotFeed`: a register per entity that takes the values of published snapshots.
4. `SnapshotFeed` with a server that forgets entities, once `EntityCache` has a way to.
