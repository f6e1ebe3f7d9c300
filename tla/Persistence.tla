----------------------------- MODULE Persistence -----------------------------
(***************************************************************************)
(* What survives the server: VoxelSystem's chunks and deltas in memory,    *)
(* ChunkStore's event buffer between, and the two tables in SQL Server.    *)
(* The server starts, runs its loop, stops or crashes, and starts again on *)
(* the same database; each statement may fail on its own.                  *)
(*                                                                         *)
(* A row holds the bytes that VoxelCodec makes of a chunk; nothing in the  *)
(* program decodes them again.  No code outside the tests makes a chunk or *)
(* edits a voxel yet: AddChunk and SetVoxel are the calls the tests make,  *)
(* at the place in the tick where the simulation's empty phases would make *)
(* them.                                                                   *)
(***************************************************************************)
EXTENDS VoxelCodec, FiniteSets

CONSTANTS
  ChunkIds,                \* identifiers of chunks
  INVALID_CHUNK,           \* the identifier of a chunk nobody named
  Corner,                  \* minCorner of the chunk an identifier stands for
  Origin,                  \* the corner a chunk is constructed with
  Empty,                   \* the type of an untouched voxel
  Sectors,                 \* sector_id values
  NoSector,                \* SQL NULL
  VOXEL_EVENT_FLUSH_TICKS, \* 60 in the code
  CHUNK_FLUSH_TICKS,       \* 1800 in the code
  StatementsMayFail,       \* may SQL Server refuse a correct statement?
  MaxSteps,                 \* bound: ticks of one run of the server
  MaxEdits,                \* bound: edits in one run of the server
  MaxStarts                \* bound: starts of the server

ASSUME PersistenceAssumption ==
  /\ INVALID_CHUNK \notin ChunkIds /\ NoSector \notin Sectors /\ Empty \in Types
  /\ Corner \in [ChunkIds -> {Corner[id] : id \in ChunkIds}]
  /\ \A id, other \in ChunkIds : Corner[id] = Corner[other] => id = other
  /\ VOXEL_EVENT_FLUSH_TICKS \in Nat \ {0} /\ CHUNK_FLUSH_TICKS \in Nat \ {0}
  /\ StatementsMayFail \in BOOLEAN
  /\ MaxSteps \in Nat /\ MaxEdits \in Nat /\ MaxStarts \in Nat

VARIABLES
  phase,      \* where the server is: see Phases
  connected,  \* Database::m_connected
  tickNum,    \* the loop's tick number
  stopping,   \* the loop has been left
  chunks,     \* VoxelSystem::m_chunks
  deltas,     \* VoxelSystem::m_deltaBuffer
  events,     \* ChunkStore::m_eventBuffer
  toFlush,    \* chunks flushDirtyChunks has yet to visit
  chunkRows,  \* the table voxel_chunks
  eventRows,  \* the table voxel_events
  starts,     \* starts of the server so far
  edits,      \* history: the deltas of this run of the server, in order
  flushed,    \* history: the deltas flushVoxelEvents let go of, in order
  failed      \* history: chunks whose save failed in the current flush

memoryVars == <<chunks, deltas, events>>
tableVars  == <<chunkRows, eventRows>>
historyVars == <<edits, flushed, failed>>
persistenceVars == <<phase, connected, tickNum, stopping, toFlush, starts,
                     memoryVars, tableVars, historyVars>>

Phases == {"down", "head", "sim", "events", "chunks"}

Chunk == [corner: {Corner[id] : id \in ChunkIds} \cup {Origin},
          voxels: [Cells -> Types], dirty: BOOLEAN, version: Nat]

Delta == [corner: {Corner[id] : id \in ChunkIds} \cup {Origin}, cell: Cells,
          old: Types, new: Types, tick: Nat]

NewChunk(corner, version) ==
  [corner |-> corner, voxels |-> [c \in Cells |-> Empty],
   dirty |-> FALSE, version |-> version]

-----------------------------------------------------------------------------
PersistenceInit ==
  /\ phase = "down" /\ connected = FALSE /\ stopping = FALSE
  /\ tickNum = 0 /\ starts = 0
  /\ chunks = [id \in {} |-> 0] /\ deltas = <<>> /\ events = <<>>
  /\ toFlush = {}
  /\ chunkRows = [id \in {} |-> 0] /\ eventRows = <<>>
  /\ edits = <<>> /\ flushed = <<>> /\ failed = {}

(* loadSectorChunks for every sector: the rows found under the sector's id *)
(* all become the chunk that has no identifier, one over the other.        *)
RowsOfSectors == {id \in DOMAIN chunkRows : chunkRows[id].sectorId \in Sectors}

LoadSectorChunks ==
  IF RowsOfSectors = {} THEN chunks' = [id \in {} |-> 0]
  ELSE \E last \in RowsOfSectors :
         chunks' = [id \in {INVALID_CHUNK} |-> NewChunk(Origin, chunkRows[last].version)]

(* main's start-up, with or without a database.                            *)
Start(ok) ==
  /\ phase = "down" /\ starts < MaxStarts
  /\ phase' = "head" /\ connected' = ok /\ stopping' = FALSE
  /\ tickNum' = 0 /\ starts' = starts + 1
  /\ IF ok THEN LoadSectorChunks ELSE chunks' = [id \in {} |-> 0]
  /\ deltas' = <<>> /\ events' = <<>> /\ toFlush' = {}
  /\ edits' = <<>> /\ flushed' = <<>> /\ failed' = {}
  /\ UNCHANGED tableVars

(* The process dies; what is in the tables stays.                          *)
Crash ==
  /\ phase # "down"
  /\ phase' = "down"
  /\ UNCHANGED <<connected, tickNum, stopping, toFlush, starts, memoryVars,
                 tableVars, historyVars>>

(* The loop's condition: one more tick, or the final flush.                *)
BeginTick ==
  /\ phase = "head" /\ tickNum < MaxSteps
  /\ phase' = "sim"
  /\ UNCHANGED <<connected, tickNum, stopping, toFlush, starts, memoryVars,
                 tableVars, historyVars>>

LeaveLoop ==
  /\ phase = "head"
  /\ phase' = IF connected THEN "events" ELSE "down"
  /\ stopping' = TRUE
  /\ UNCHANGED <<connected, tickNum, toFlush, starts, memoryVars, tableVars,
                 historyVars>>

(* VoxelSystem::loadChunk of a fresh chunk.                                *)
AddChunk(id) ==
  /\ phase = "sim" /\ id \notin DOMAIN chunks
  /\ chunks' = [k \in DOMAIN chunks \cup {id} |->
                  IF k = id THEN NewChunk(Corner[id], 1) ELSE chunks[k]]
  /\ UNCHANGED <<phase, connected, tickNum, stopping, toFlush, starts, deltas,
                 events, tableVars, historyVars>>

(* setVoxel: any loaded chunk with the position in it, and its delta.      *)
SetVoxel(id, cell, type) ==
  LET delta == [corner |-> chunks[id].corner, cell |-> cell,
                old |-> chunks[id].voxels[cell], new |-> type, tick |-> tickNum]
  IN  /\ phase = "sim" /\ Len(edits) < MaxEdits
      /\ chunks' = [chunks EXCEPT ![id] =
                      [corner |-> @.corner, voxels |-> [@.voxels EXCEPT ![cell] = type],
                       dirty |-> TRUE, version |-> @.version + 1]]
      /\ deltas' = Append(deltas, delta)
      /\ edits' = Append(edits, delta)
      /\ UNCHANGED <<phase, connected, tickNum, stopping, toFlush, starts, events,
                     tableVars, flushed, failed>>

(* Without a database the tick ends here and the deltas stay.              *)
EndTickUnconnected ==
  /\ phase = "sim" /\ ~connected
  /\ phase' = "head" /\ tickNum' = tickNum + 1
  /\ UNCHANGED <<connected, stopping, toFlush, starts, memoryVars, tableVars,
                 historyVars>>

(* Mutant: the delta buffer is copied, not swapped away.                   *)
ConsumeDeltas_Copies ==
  /\ phase = "sim" /\ connected
  /\ phase' = "events"
  /\ events' = events \o deltas
  /\ UNCHANGED <<connected, tickNum, stopping, toFlush, starts, chunks, deltas,
                 tableVars, historyVars>>

(* consumeDeltas and appendVoxelEvents.                                    *)
ConsumeDeltas ==
  /\ phase = "sim" /\ connected
  /\ phase' = "events"
  /\ events' = events \o deltas
  /\ deltas' = <<>>
  /\ UNCHANGED <<connected, tickNum, stopping, toFlush, starts, chunks, tableVars,
                 historyVars>>

(* The batch INSERT leaves out a column that the table requires.           *)
InsertedColumns == {"universe_x", "universe_y", "universe_z", "old_type", "new_type",
                    "player_id", "tick_number"}
RequiredColumns == {"chunk_id"}

InsertOutcomes ==
  IF ~(RequiredColumns \subseteq InsertedColumns) THEN {FALSE}
  ELSE IF StatementsMayFail THEN BOOLEAN ELSE {TRUE}

(* When the events and the chunks are written: on the tick, or at the end. *)
EventsDue == stopping \/ tickNum % VOXEL_EVENT_FLUSH_TICKS = 0

(* Mutant: the final flush leaves the chunks to their own schedule.        *)
ChunksDue_NotAtStop == tickNum % CHUNK_FLUSH_TICKS = 0

ChunksDue == stopping \/ tickNum % CHUNK_FLUSH_TICKS = 0

(* flushVoxelEvents empties the buffer whatever became of the INSERT, and  *)
(* flushDirtyChunks sets out on its round.                                 *)
FlushVoxelEvents ==
  /\ phase = "events"
  /\ phase' = "chunks"
  /\ IF EventsDue /\ events # <<>>
       THEN \E ok \in InsertOutcomes :
              /\ eventRows' = IF ok THEN eventRows \o events ELSE eventRows
              /\ flushed' = flushed \o events
              /\ events' = <<>>
       ELSE UNCHANGED <<eventRows, flushed, events>>
  /\ toFlush' = IF ChunksDue THEN DOMAIN chunks ELSE {}
  /\ failed' = {}
  /\ UNCHANGED <<connected, tickNum, stopping, starts, chunks, deltas, chunkRows, edits>>

(* saveChunk's MERGE, which never names the sector.                        *)
MergedRow(id) ==
  LET known == id \in DOMAIN chunkRows
  IN  [sectorId  |-> IF known THEN chunkRows[id].sectorId ELSE NoSector,
       voxelData |-> SerializeChunk(chunks[id].voxels),
       version   |-> IF known THEN chunkRows[id].version + 1 ELSE chunks[id].version]

SaveOutcomes == IF StatementsMayFail THEN BOOLEAN ELSE {TRUE}

(* Mutant: the chunk counts as saved before the outcome is known.          *)
DirtyAfter_Regardless(ok) == FALSE

DirtyAfter(ok) == ~ok

(* One chunk of the round: clean ones are passed over, a failed save       *)
(* leaves the chunk dirty.                                                 *)
FlushChunk(id) ==
  /\ phase = "chunks" /\ id \in toFlush
  /\ toFlush' = toFlush \ {id}
  /\ IF chunks[id].dirty
       THEN \E ok \in SaveOutcomes :
              /\ chunks' = [chunks EXCEPT ![id].dirty = DirtyAfter(ok)]
              /\ IF ok
                   THEN /\ chunkRows' = [k \in DOMAIN chunkRows \cup {id} |->
                                           IF k = id THEN MergedRow(id) ELSE chunkRows[k]]
                        /\ UNCHANGED failed
                   ELSE failed' = failed \cup {id} /\ UNCHANGED chunkRows
       ELSE UNCHANGED <<chunkRows, chunks, failed>>
  /\ UNCHANGED <<phase, connected, tickNum, stopping, starts, deltas, events,
                 eventRows, edits, flushed>>

(* The tick, or the final flush, is over.                                  *)
EndTick ==
  /\ phase = "chunks" /\ toFlush = {}
  /\ IF stopping
       THEN phase' = "down" /\ connected' = FALSE /\ UNCHANGED tickNum
       ELSE phase' = "head" /\ tickNum' = tickNum + 1 /\ UNCHANGED connected
  /\ UNCHANGED <<stopping, toFlush, starts, memoryVars, tableVars, historyVars>>

PersistenceNext ==
  \/ \E ok \in BOOLEAN : Start(ok)
  \/ Crash \/ BeginTick \/ LeaveLoop
  \/ \E id \in ChunkIds : AddChunk(id)
  \/ \E id \in DOMAIN chunks, cell \in Cells, type \in Types : SetVoxel(id, cell, type)
  \/ EndTickUnconnected \/ ConsumeDeltas \/ FlushVoxelEvents
  \/ \E id \in toFlush : FlushChunk(id)
  \/ EndTick

PersistenceSpec == PersistenceInit /\ [][PersistenceNext]_persistenceVars

-----------------------------------------------------------------------------
Running == phase # "down"

(* What a row's bytes are decoded to                                       *)
Saved(row) == DeserializeChunk(row.voxelData, [c \in Cells |-> Empty])

Edited(id) == \E i \in DOMAIN edits : edits[i].corner = chunks[id].corner

(* A chunk edited in this run and not dirty has a row in voxel_chunks that *)
(* is decoded to what it is in memory: no failed save and no edit between  *)
(* two flushes is ever forgotten (VoxelSystem.cpp:50, ChunkStore.cpp:94).  *)
CleanIsSaved ==
  Running =>
    \A id \in DOMAIN chunks :
      Edited(id) /\ ~chunks[id].dirty =>
        /\ id \in DOMAIN chunkRows
        /\ Saved(chunkRows[id]) = [ok |-> TRUE, voxels |-> chunks[id].voxels]

(* On its way from setVoxel to the INSERT no delta is lost, doubled or     *)
(* overtaken, and one batch never holds what another has taken.            *)
DeltasConserved == Running => edits = flushed \o events \o deltas

(* An orderly stop leaves nothing unsaved but what the database refused:   *)
(* no chunk, no event, and no delta in the buffer of VoxelSystem, which    *)
(* the final flush does not consume (main.cpp:331-341).                    *)
StopSavesAll ==
  [][phase = "chunks" /\ stopping /\ phase' = "down" /\ toFlush = {} =>
       /\ deltas = <<>> /\ events = <<>>
       /\ \A id \in DOMAIN chunks : chunks[id].dirty => id \in failed]_persistenceVars

(* StarStrike.md:938, "Every voxel removal written to voxel_events table": *)
(* what flushVoxelEvents lets go of is in the table.                       *)
EventsAreLogged == Running /\ starts = 1 => Len(eventRows) = Len(flushed)

(* StarStrike.md:638, "loads all chunks per sector": a chunk saved before  *)
(* the server starts is there, with its voxels, once it has started.       *)
SavedChunksComeBack ==
  [][Start(TRUE) =>
       \A id \in DOMAIN chunkRows :
         id \in DOMAIN chunks' /\ chunks'[id].voxels = Saved(chunkRows[id]).voxels]_persistenceVars
=============================================================================
