------------------------------- MODULE MCClient -------------------------------
(***************************************************************************)
(* The parts of the client side by side, for a run: the snapshots' way to  *)
(* the cache, the frame's input and clock, the window with the graphics    *)
(* core, and the resources' states.  They share no variable and every      *)
(* property speaks of one of them, so that it is enough to take every      *)
(* behavior of each while the others are idle, in one initial state.  No   *)
(* fair step is possible there.                                            *)
(***************************************************************************)
EXTENDS MCSnapshotFeed, MCClientFrame, MCClientEngine, MCResourceStates

FeedIdle   == FeedInit
FrameIdle  == FrameInit /\ connected
ClientIdle == ClientInit /\ windowSize = large
StatesIdle == StatesInit

partsVars == <<feedVars, frameVars, clientVars, statesVars>>

PartsInit ==
  \/ FeedInit /\ FrameIdle /\ ClientIdle /\ StatesIdle
  \/ FeedIdle /\ FrameInit /\ ClientIdle /\ StatesIdle
  \/ FeedIdle /\ FrameIdle /\ ClientInit /\ StatesIdle
  \/ FeedIdle /\ FrameIdle /\ ClientIdle /\ StatesInit

PartsNext ==
  \/ /\ FrameIdle /\ ClientIdle /\ StatesIdle
     /\ FeedNext /\ UNCHANGED <<frameVars, clientVars, statesVars>>
  \/ /\ FeedIdle /\ ClientIdle /\ StatesIdle
     /\ FrameNext /\ UNCHANGED <<feedVars, clientVars, statesVars>>
  \/ /\ FeedIdle /\ FrameIdle /\ StatesIdle
     /\ ClientNext /\ UNCHANGED <<feedVars, frameVars, statesVars>>
  \/ /\ FeedIdle /\ FrameIdle /\ ClientIdle
     /\ StatesNext /\ UNCHANGED <<feedVars, frameVars, clientVars>>

PartsSpec ==
  /\ PartsInit /\ [][PartsNext]_partsVars
  /\ WF_feedVars(DrainStep) /\ ClientFairness
=============================================================================
