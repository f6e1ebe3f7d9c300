----------------------------- MODULE DatabasePool -----------------------------
(***************************************************************************)
(* Database, the pool of ODBC connections: m_pool owns them, m_available   *)
(* is the queue of those not lent, and execute and query borrow the first, *)
(* run their statement without the lock and put it back at the end.        *)
(*                                                                         *)
(* SQL Server may drop a connection at any time.  Nothing in the class     *)
(* finds out or connects again: the connection goes round the queue and    *)
(* every statement it meets fails.                                         *)
(*                                                                         *)
(* The class is written for callers on several threads (Database.h:57);    *)
(* connect and disconnect are called by their owner, main, which connects  *)
(* a closed pool and, unless DisconnectsInUse, disconnects it when no      *)
(* statement is under way.                                                 *)
(***************************************************************************)
EXTENDS Naturals, Sequences, Functions

CONSTANTS
  Connections,           \* SqlConnection objects
  Threads,               \* callers of execute and query
  Nobody,                \* not a thread
  NoConnection,          \* nullptr
  PoolSize,              \* DatabaseConfig::poolSize
  DisconnectsInUse       \* may disconnect be called while a statement runs?

ASSUME PoolAssumption ==
  /\ NoConnection \notin Connections /\ Nobody \notin Threads
  /\ PoolSize \in Nat /\ DisconnectsInUse \in BOOLEAN

VARIABLES
  pool,         \* m_pool: the connections that exist
  available,    \* m_available: pointers, first in first out
  isConnected,  \* m_connected
  held,         \* the connection a thread's statement runs on
  broken,       \* connections SQL Server has dropped
  succeeded     \* did the last statement to end succeed?

poolVars == <<pool, available, isConnected, held, broken, succeeded>>

Lent == {held[t] : t \in Threads} \ {NoConnection}

PoolInit ==
  /\ pool = {} /\ available = <<>> /\ isConnected = FALSE
  /\ held = [t \in Threads |-> NoConnection]
  /\ broken = {} /\ succeeded = FALSE

(* connect: poolSize attempts, each of which may fail on its own.          *)
ConnectPool ==
  /\ pool = {}
  /\ \E n \in 0 .. PoolSize : \E opened \in [1 .. n -> Connections] :
       /\ IsInjective(opened)
       /\ available' = available \o opened
       /\ pool' = Range(opened)
       /\ isConnected' = (n > 0)
  /\ UNCHANGED <<held, broken, succeeded>>

(* disconnect, or the destructor: a connection still lent is destroyed     *)
(* with the others.                                                        *)
DisconnectPool ==
  /\ DisconnectsInUse \/ Lent = {}
  /\ pool' = {} /\ available' = <<>> /\ isConnected' = FALSE
  /\ broken' = {}
  /\ UNCHANGED <<held, succeeded>>

(* Mutant: the first connection is lent and stays in the queue.            *)
Acquire_KeepsFirst(t) ==
  /\ held[t] = NoConnection /\ available # <<>>
  /\ held' = [held EXCEPT ![t] = Head(available)]
  /\ UNCHANGED <<pool, available, isConnected, broken, succeeded>>

(* acquire, with a connection to lend                                      *)
Acquire(t) ==
  /\ held[t] = NoConnection /\ available # <<>>
  /\ held' = [held EXCEPT ![t] = Head(available)]
  /\ available' = Tail(available)
  /\ UNCHANGED <<pool, isConnected, broken, succeeded>>

(* acquire returns nullptr, and the statement fails without being tried.   *)
Refuse(t) ==
  /\ held[t] = NoConnection /\ available = <<>>
  /\ succeeded' = FALSE
  /\ UNCHANGED <<pool, available, isConnected, held, broken>>

(* Mutant: the queue is a stack.                                           *)
Returned_First(c) == <<c>> \o available

(* m_available when a connection has been put back                         *)
Returned(c) == Append(available, c)

(* The statement ends, and release puts its connection back.               *)
Release(t) ==
  /\ held[t] # NoConnection
  /\ available' = Returned(held[t])
  /\ succeeded' = (held[t] \notin broken)
  /\ held' = [held EXCEPT ![t] = NoConnection]
  /\ UNCHANGED <<pool, isConnected, broken>>

(* SQL Server restarts, or the network fails.                              *)
Break(c) ==
  /\ c \in pool \ broken
  /\ broken' = broken \cup {c}
  /\ UNCHANGED <<pool, available, isConnected, held, succeeded>>

PoolNext ==
  \/ ConnectPool \/ DisconnectPool
  \/ \E t \in Threads : Acquire(t) \/ Refuse(t) \/ Release(t)
  \/ \E c \in Connections : Break(c)

PoolSpec == PoolInit /\ [][PoolNext]_poolVars

(* Every statement ends, and there is always a next one: ChunkStore runs   *)
(* one a second as long as edits are made.                                 *)
PoolFairness ==
  /\ \A t \in Threads : WF_poolVars(Release(t))
  /\ WF_poolVars(\E t \in Threads : Acquire(t))

FairPoolSpec == PoolSpec /\ PoolFairness

-----------------------------------------------------------------------------
PoolTypeOK ==
  /\ pool \subseteq Connections
  /\ available \in Seq(Connections)
  /\ isConnected \in BOOLEAN /\ succeeded \in BOOLEAN
  /\ held \in [Threads -> Connections \cup {NoConnection}]
  /\ broken \subseteq pool

(* Each connection of the pool is in one place, in the queue once or with  *)
(* one thread, and nothing else is in either: no statement ever runs on a  *)
(* connection another one uses, or that is gone (Database.cpp:283-300).    *)
ConnectionsConserved ==
  /\ IsInjective(available)
  /\ \A t, u \in Threads : held[t] = held[u] /\ held[t] # NoConnection => t = u
  /\ Range(available) = pool \ Lent
  /\ Lent \subseteq pool

(* acquire gives up, where Database.h:86 would have it block, only when    *)
(* every connection of the pool is in use.                                 *)
RefusedOnlyWhenAllLent ==
  [][\A t \in Threads : Refuse(t) => Lent = pool]_poolVars

(* As long as one connection is alive there is always another statement    *)
(* that succeeds: the broken ones, which nothing removes, are met in turn  *)
(* and not for ever (the queue at Database.cpp:291).                       *)
BrokenOnesPass ==
  <>[](pool \ broken # {}) => []<>succeeded

Owner ==
  [c \in pool |->
     IF c \in Lent THEN CHOOSE t \in Threads : held[t] = c ELSE Nobody]

Abstract == INSTANCE ConnectionPool WITH owner <- Owner

(* The class is the pool its callers think of.                             *)
ImplementsPool == Abstract!Spec
=============================================================================
