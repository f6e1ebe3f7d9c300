----------------------------- MODULE MCServerData -----------------------------
(***************************************************************************)
(* What the server keeps, part by part, for a run: the entities, the way   *)
(* of commands to it, and the voxels.  The parts share no variable and     *)
(* every property speaks of one of them, so that it is enough to take      *)
(* every behavior of each while the others are in their initial state.     *)
(***************************************************************************)
EXTENDS MCEntitySystem, MCCommandChannel, MCPersistence

partsVars == <<entityVars, channelVars, persistenceVars>>

PartsInit == EntityInit /\ ChannelInit /\ PersistenceInit

PartsNext ==
  \/ /\ ChannelInit /\ PersistenceInit
     /\ EntityNext /\ UNCHANGED <<channelVars, persistenceVars>>
  \/ /\ EntityInit /\ PersistenceInit
     /\ ChannelNext /\ UNCHANGED <<entityVars, persistenceVars>>
  \/ /\ EntityInit /\ ChannelInit
     /\ PersistenceNext /\ UNCHANGED <<entityVars, channelVars>>

PartsSpec == PartsInit /\ [][PartsNext]_partsVars
=============================================================================
