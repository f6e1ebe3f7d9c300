----------------------------- MODULE MCServerLoop -----------------------------
(***************************************************************************)
(* The server's main loop and its pool of connections, for a run.  They    *)
(* share no variable and every property speaks of one of them, so that it  *)
(* is enough to take every behavior of each while the other is in its      *)
(* initial state.  Fairness asks for no first step of the server, so that  *)
(* it may stay there.                                                      *)
(***************************************************************************)
EXTENDS MCServerSession, MCDatabasePool

partsVars == <<serverVars, poolVars>>

PartsInit == ServerInit /\ PoolInit

PartsNext ==
  \/ PoolInit /\ ServerNext /\ UNCHANGED poolVars
  \/ ServerInit /\ PoolNext /\ UNCHANGED serverVars

PartsSpec ==
  /\ PartsInit /\ [][PartsNext]_partsVars
  /\ WF_serverVars(~ServerInit /\ MainLoop) /\ PoolFairness
=============================================================================
