-------------------------- MODULE DatabasePoolProofs --------------------------
(***************************************************************************)
(* The pool for any number of connections and threads, as long as it is    *)
(* disconnected only when nobody runs a statement.  That each connection   *)
(* is in one place is inductive once the types are known.                  *)
(***************************************************************************)
EXTENDS DatabasePool, TLAPS

PoolIInv == PoolTypeOK /\ ConnectionsConserved

(* Lending takes the first out of the queue and leaves the others once.    *)
LEMMA TakeFirst ==
  ASSUME NEW s \in Seq(Connections), s # <<>>, IsInjective(s)
  PROVE  /\ Head(s) \in Range(s)
         /\ Tail(s) \in Seq(Connections)
         /\ IsInjective(Tail(s))
         /\ Range(Tail(s)) = Range(s) \ {Head(s)}
  <1> DEFINE n == Len(s)  r == Tail(s)
  <1>1. /\ n \in Nat \ {0} /\ DOMAIN s = 1 .. n /\ Head(s) = s[1]
        /\ r \in Seq(Connections) /\ DOMAIN r = 1 .. n - 1
        /\ \A i \in 1 .. n - 1 : r[i] = s[i + 1]
    OBVIOUS
  <1> HIDE DEF n, r
  <1>2. \A i, j \in 1 .. n : s[i] = s[j] => i = j
    BY <1>1 DEF IsInjective
  <1>3. IsInjective(r)
    BY <1>1, <1>2 DEF IsInjective
  <1>4. ASSUME NEW c \in Range(s), c # s[1]
        PROVE  c \in Range(r)
    <2>1. PICK i \in 1 .. n : s[i] = c
      BY <1>1 DEF Range
    <2>2. i - 1 \in 1 .. n - 1 /\ r[i - 1] = c
      BY <1>1, <1>4, <2>1
    <2> QED
      BY <1>1, <2>2 DEF Range
  <1>5. ASSUME NEW c \in Range(r)
        PROVE  c \in Range(s) /\ c # s[1]
    <2>1. PICK i \in 1 .. n - 1 : r[i] = c
      BY <1>1 DEF Range
    <2>2. i + 1 \in 1 .. n /\ s[i + 1] = c /\ i + 1 # 1 /\ 1 \in 1 .. n
      BY <1>1, <2>1
    <2> QED
      BY <1>1, <1>2, <2>2 DEF Range
  <1>6. s[1] \in Range(s)
    BY <1>1 DEF Range
  <1> QED
    BY <1>1, <1>3, <1>4, <1>5, <1>6 DEF r

(* A connection that is not in the queue is put at its end.                *)
LEMMA PutLast ==
  ASSUME NEW s \in Seq(Connections), IsInjective(s),
         NEW c \in Connections, c \notin Range(s)
  PROVE  /\ Append(s, c) \in Seq(Connections)
         /\ IsInjective(Append(s, c))
         /\ Range(Append(s, c)) = Range(s) \cup {c}
  <1> DEFINE n == Len(s)  r == Append(s, c)
  <1>1. /\ n \in Nat /\ DOMAIN s = 1 .. n
        /\ r \in Seq(Connections) /\ DOMAIN r = 1 .. n + 1
        /\ r[n + 1] = c /\ \A i \in 1 .. n : r[i] = s[i]
    OBVIOUS
  <1> HIDE DEF n, r
  <1>2. \A i, j \in 1 .. n : s[i] = s[j] => i = j
    BY <1>1 DEF IsInjective
  <1>3. \A i \in 1 .. n : s[i] # c
    BY <1>1 DEF Range
  <1>4. IsInjective(r)
    BY <1>1, <1>2, <1>3 DEF IsInjective
  <1>5. Range(r) = Range(s) \cup {c}
    BY <1>1 DEF Range
  <1> QED
    BY <1>1, <1>4, <1>5 DEF r

(* The queue of a pool just connected.                                     *)
LEMMA QueueOfOpened ==
  ASSUME NEW n \in Nat, NEW opened \in [1 .. n -> Connections]
  PROVE  /\ <<>> \o opened = opened
         /\ opened \in Seq(Connections)
  OBVIOUS

-----------------------------------------------------------------------------
LEMMA InitPool == PoolInit => PoolIInv
  <1> SUFFICES ASSUME PoolInit PROVE PoolIInv
    OBVIOUS
  <1>1. Lent = {}
    BY DEF PoolInit, Lent
  <1>2. Range(available) = {} /\ IsInjective(available)
    BY DEF PoolInit, Range, IsInjective
  <1>3. /\ \A t \in Threads : held[t] = NoConnection
        /\ held \in [Threads -> Connections \cup {NoConnection}]
    BY DEF PoolInit
  <1>4. available \in Seq(Connections)
    BY DEF PoolInit
  <1>5. PoolTypeOK
    BY <1>3, <1>4 DEF PoolInit, PoolTypeOK
  <1>6. ConnectionsConserved
    BY <1>1, <1>2, <1>3 DEF PoolInit, ConnectionsConserved
  <1> QED
    BY <1>5, <1>6 DEF PoolIInv

LEMMA ConnectKeeps ==
  ASSUME PoolIInv, ConnectPool
  PROVE  PoolIInv'
  <1>1. PICK n \in 0 .. PoolSize : \E opened \in [1 .. n -> Connections] :
          /\ IsInjective(opened)
          /\ available' = available \o opened
          /\ pool' = Range(opened)
          /\ isConnected' = (n > 0)
    BY DEF ConnectPool
  <1>2. PICK opened \in [1 .. n -> Connections] :
          /\ IsInjective(opened)
          /\ available' = available \o opened
          /\ pool' = Range(opened)
          /\ isConnected' = (n > 0)
    BY <1>1
  <1>3. n \in Nat
    BY PoolAssumption
  <1>4. pool = {} /\ Lent = {} /\ available = <<>>
    <2>1. pool = {} /\ Lent = {} /\ Range(available) = {}
      BY DEF ConnectPool, PoolIInv, ConnectionsConserved
    <2>2. available \in Seq(Connections)
      BY DEF PoolIInv, PoolTypeOK
    <2>3. available # <<>> => available[1] \in Range(available)
      BY <2>2 DEF Range
    <2> QED
      BY <2>1, <2>3
  <1>5. available' = opened /\ available' \in Seq(Connections)
    BY <1>2, <1>3, <1>4, QueueOfOpened
  <1>6. pool' \subseteq Connections
    BY <1>2 DEF Range
  <1>7. held' = held /\ broken' = {} /\ succeeded' = succeeded /\ Lent' = {}
    BY <1>4 DEF ConnectPool, PoolIInv, PoolTypeOK, Lent
  <1> QED
    BY <1>2, <1>5, <1>6, <1>7, <1>4 DEF PoolIInv, PoolTypeOK, ConnectionsConserved

LEMMA DisconnectKeeps ==
  ASSUME ~DisconnectsInUse, PoolIInv, DisconnectPool
  PROVE  PoolIInv'
  <1>1. Range(<<>>) = {} /\ IsInjective(<<>>) /\ <<>> \in Seq(Connections)
    BY DEF Range, IsInjective
  <1>2. Lent = {} /\ Lent' = {}
    BY DEF DisconnectPool, Lent
  <1> QED
    BY <1>1, <1>2 DEF DisconnectPool, PoolIInv, PoolTypeOK, ConnectionsConserved

LEMMA AcquireKeeps ==
  ASSUME PoolIInv, NEW t \in Threads, Acquire(t)
  PROVE  /\ PoolIInv'
         /\ Head(available) \in pool \ Lent
         /\ Lent' = Lent \cup {Head(available)}
  <1> DEFINE c == Head(available)
  <1>1. /\ c \in Range(available) /\ Tail(available) \in Seq(Connections)
        /\ IsInjective(Tail(available)) /\ Range(Tail(available)) = Range(available) \ {c}
    BY TakeFirst DEF Acquire, PoolIInv, PoolTypeOK, ConnectionsConserved
  <1>2. c \in pool \ Lent /\ c \in Connections /\ c # NoConnection
    BY <1>1, PoolAssumption DEF PoolIInv, PoolTypeOK, ConnectionsConserved
  <1> HIDE DEF c
  <1>3. /\ held' = [held EXCEPT ![t] = c] /\ available' = Tail(available)
        /\ held[t] = NoConnection
        /\ UNCHANGED <<pool, isConnected, broken, succeeded>>
    BY DEF Acquire, c
  <1>4. held \in [Threads -> Connections \cup {NoConnection}]
    BY DEF PoolIInv, PoolTypeOK
  <1>5. Lent' = Lent \cup {c}
    BY <1>2, <1>3, <1>4 DEF Lent
  <1>6. \A u \in Threads : held[u] # c
    BY <1>2 DEF Lent
  <1>7. PoolTypeOK'
    BY <1>1, <1>2, <1>3, <1>4 DEF PoolIInv, PoolTypeOK
  <1>8. \A u, v \in Threads : held'[u] = held'[v] /\ held'[u] # NoConnection => u = v
    BY <1>3, <1>4, <1>6 DEF PoolIInv, ConnectionsConserved
  <1>9. Range(available') = pool' \ Lent' /\ Lent' \subseteq pool' /\ IsInjective(available')
    BY <1>1, <1>2, <1>3, <1>5 DEF PoolIInv, ConnectionsConserved
  <1> QED
    BY <1>2, <1>5, <1>7, <1>8, <1>9 DEF PoolIInv, ConnectionsConserved, c

LEMMA ReleaseKeeps ==
  ASSUME PoolIInv, NEW t \in Threads, Release(t)
  PROVE  /\ PoolIInv'
         /\ held[t] \in Lent
         /\ Lent' = Lent \ {held[t]}
  <1> DEFINE c == held[t]
  <1>1. held \in [Threads -> Connections \cup {NoConnection}] /\ c # NoConnection
    BY DEF PoolIInv, PoolTypeOK, Release
  <1>2. c \in Lent /\ c \in pool /\ c \in Connections /\ c \notin Range(available)
    BY <1>1 DEF Lent, PoolIInv, ConnectionsConserved
  <1>3. /\ Append(available, c) \in Seq(Connections)
        /\ IsInjective(Append(available, c))
        /\ Range(Append(available, c)) = Range(available) \cup {c}
    BY <1>2, PutLast DEF PoolIInv, PoolTypeOK, ConnectionsConserved
  <1> HIDE DEF c
  <1>4. /\ held' = [held EXCEPT ![t] = NoConnection] /\ available' = Append(available, c)
        /\ succeeded' = (c \notin broken)
        /\ UNCHANGED <<pool, isConnected, broken>>
    BY DEF Release, Returned, c
  <1>5. \A u \in Threads : held[u] = c => u = t
    BY <1>1 DEF PoolIInv, ConnectionsConserved, c
  <1>6. Lent' = Lent \ {c}
    <2>1. ASSUME NEW d \in Lent' PROVE d \in Lent \ {c}
      <3>1. PICK u \in Threads : held'[u] = d /\ d # NoConnection
        BY DEF Lent
      <3>2. u # t /\ held[u] = d
        BY <1>1, <1>4, <3>1
      <3> QED
        BY <1>5, <3>1, <3>2 DEF Lent
    <2>2. ASSUME NEW d \in Lent \ {c} PROVE d \in Lent'
      <3>1. PICK u \in Threads : held[u] = d /\ d # NoConnection
        BY DEF Lent
      <3>2. u # t /\ held'[u] = d
        BY <1>1, <1>4, <2>2, <3>1 DEF c
      <3> QED
        BY <3>1, <3>2 DEF Lent
    <2> QED
      BY <2>1, <2>2
  <1>7. PoolTypeOK'
    BY <1>1, <1>3, <1>4 DEF PoolIInv, PoolTypeOK
  <1>8. \A u, v \in Threads : held'[u] = held'[v] /\ held'[u] # NoConnection => u = v
    BY <1>1, <1>4 DEF PoolIInv, ConnectionsConserved
  <1>9. Range(available') = pool' \ Lent' /\ Lent' \subseteq pool' /\ IsInjective(available')
    BY <1>2, <1>3, <1>4, <1>6 DEF PoolIInv, ConnectionsConserved
  <1> QED
    BY <1>2, <1>6, <1>7, <1>8, <1>9 DEF PoolIInv, ConnectionsConserved, c

LEMMA NextKeepsPool ==
  ASSUME ~DisconnectsInUse, PoolIInv, [PoolNext]_poolVars
  PROVE  PoolIInv'
  <1>1. CASE ConnectPool
    BY <1>1, ConnectKeeps
  <1>2. CASE DisconnectPool
    BY <1>2, DisconnectKeeps
  <1>3. ASSUME NEW t \in Threads, Acquire(t) PROVE PoolIInv'
    BY <1>3, AcquireKeeps
  <1>4. ASSUME NEW t \in Threads, Refuse(t) PROVE PoolIInv'
    <2>1. UNCHANGED <<pool, available, isConnected, held, broken>> /\ succeeded' = FALSE
      BY <1>4 DEF Refuse
    <2> QED
      BY <2>1 DEF PoolIInv, PoolTypeOK, ConnectionsConserved, Lent
  <1>5. ASSUME NEW t \in Threads, Release(t) PROVE PoolIInv'
    BY <1>5, ReleaseKeeps
  <1>6. ASSUME NEW c \in Connections, Break(c) PROVE PoolIInv'
    <2>1. /\ UNCHANGED <<pool, available, isConnected, held, succeeded>>
          /\ broken' = broken \cup {c} /\ c \in pool
      BY <1>6 DEF Break
    <2> QED
      BY <2>1 DEF PoolIInv, PoolTypeOK, ConnectionsConserved, Lent
  <1>7. CASE UNCHANGED poolVars
    BY <1>7 DEF poolVars, PoolIInv, PoolTypeOK, ConnectionsConserved, Lent
  <1> QED
    BY <1>1, <1>2, <1>3, <1>4, <1>5, <1>6, <1>7 DEF PoolNext

LEMMA PoolInvariant ==
  ASSUME ~DisconnectsInUse
  PROVE  PoolSpec => []PoolIInv
  <1>1. PoolInit => PoolIInv
    BY InitPool
  <1>2. PoolIInv /\ [PoolNext]_poolVars => PoolIInv'
    BY NextKeepsPool
  <1> QED
    BY <1>1, <1>2, PTL DEF PoolSpec

(* No connection is ever with two callers, lost from the pool or lent when *)
(* it is gone, whatever fails and breaks (Database.cpp:283-300).           *)
THEOREM ConnectionsAreConserved ==
  ASSUME ~DisconnectsInUse
  PROVE  PoolSpec => []ConnectionsConserved
  <1>1. PoolIInv => ConnectionsConserved
    BY DEF PoolIInv
  <1> QED
    BY <1>1, PoolInvariant, PTL

(* acquire returns nullptr only when every connection is in use.           *)
THEOREM RefusalsAreDue ==
  ASSUME ~DisconnectsInUse
  PROVE  PoolSpec => RefusedOnlyWhenAllLent
  <1>1. ASSUME PoolIInv, NEW t \in Threads, Refuse(t)
        PROVE  Lent = pool
    <2>1. Range(available) = {}
      BY <1>1 DEF Refuse, Range
    <2> QED
      BY <1>1, <2>1 DEF PoolIInv, ConnectionsConserved
  <1>2. PoolIInv /\ [PoolNext]_poolVars
          => [\A t \in Threads : Refuse(t) => Lent = pool]_poolVars
    BY <1>1
  <1> QED
    BY <1>2, PoolInvariant, PTL DEF PoolSpec, RefusedOnlyWhenAllLent

-----------------------------------------------------------------------------
(* Whose a connection of the pool is.                                      *)
LEMMA OwnerKnown ==
  ASSUME PoolIInv
  PROVE  /\ DOMAIN Owner = pool
         /\ \A c \in pool \ Lent : Owner[c] = Nobody
         /\ \A t \in Threads : held[t] # NoConnection => Owner[held[t]] = t
         /\ \A c \in Lent : Owner[c] \in Threads /\ held[Owner[c]] = c /\ Owner[c] # Nobody
  <1>1. ASSUME NEW c \in Lent
        PROVE  Owner[c] \in Threads /\ held[Owner[c]] = c
    <2>1. c \in pool /\ \E t \in Threads : held[t] = c
      BY DEF PoolIInv, ConnectionsConserved, Lent
    <2> QED
      BY <2>1 DEF Owner
  <1>2. ASSUME NEW t \in Threads, held[t] # NoConnection
        PROVE  Owner[held[t]] = t
    <2>1. held[t] \in Lent
      BY <1>2 DEF Lent
    <2> QED
      BY <1>1, <1>2, <2>1 DEF PoolIInv, ConnectionsConserved
  <1> QED
    BY <1>1, <1>2, PoolAssumption DEF Owner

LEMMA OwnerKnownNext ==
  ASSUME PoolIInv'
  PROVE  /\ DOMAIN Owner' = pool'
         /\ \A c \in pool' \ Lent' : Owner'[c] = Nobody
         /\ \A t \in Threads : held'[t] # NoConnection => Owner'[held'[t]] = t
  <1>1. ASSUME NEW t \in Threads, held'[t] # NoConnection
        PROVE  Owner'[held'[t]] = t
    <2>1. held'[t] \in Lent' /\ held'[t] \in pool'
      BY <1>1 DEF Lent, PoolIInv, ConnectionsConserved
    <2>2. \A u \in Threads : held'[u] = held'[t] => u = t
      BY <1>1 DEF PoolIInv, ConnectionsConserved
    <2> QED
      BY <2>1, <2>2 DEF Owner
  <1> QED
    BY <1>1 DEF Owner

(* Owners are known connection by connection.                              *)
LEMMA OwnersDiffer ==
  ASSUME pool' = pool, NEW c \in pool, NEW o,
         Owner'[c] = o, \A d \in pool \ {c} : Owner'[d] = Owner[d]
  PROVE  Owner' = [Owner EXCEPT ![c] = o]
  <1> DEFINE f == Owner  g == Owner'
  <1>1. f = [d \in pool |-> f[d]] /\ g = [d \in pool |-> g[d]]
    BY DEF Owner
  <1>2. g[c] = o /\ \A d \in pool \ {c} : g[d] = f[d]
    OBVIOUS
  <1> HIDE DEF f, g
  <1>3. g = [f EXCEPT ![c] = o]
    BY <1>1, <1>2
  <1> QED
    BY <1>3 DEF f, g

(* Two pools that are lent alike have the same owners.                     *)
LEMMA SameOwner ==
  ASSUME pool' = pool, held' = held
  PROVE  Owner' = Owner
  BY DEF Owner, Lent

(* The class implements ConnectionPool: whatever its queue does, its       *)
(* callers see connections borrowed and returned.                          *)
THEOREM PoolImplements ==
  ASSUME ~DisconnectsInUse
  PROVE  PoolSpec => ImplementsPool
  <1>1. PoolInit => Abstract!Init
    BY DEF PoolInit, Abstract!Init, Owner
  <1>2. ASSUME PoolIInv, PoolIInv', [PoolNext]_poolVars
        PROVE  [Abstract!Next]_Owner
    <2>1. CASE ConnectPool
      <3>1. pool = {} /\ Lent' = {} /\ pool' \subseteq Connections
        BY <1>2, <2>1 DEF ConnectPool, PoolIInv, PoolTypeOK, ConnectionsConserved, Lent
      <3>2. Owner' = [c \in pool' |-> Nobody] /\ DOMAIN Owner = {}
        BY <3>1 DEF Owner
      <3>3. Abstract!Connect(pool')
        BY <3>2 DEF Abstract!Connect, Abstract!Open
      <3> QED
        BY <3>1, <3>3 DEF Abstract!Next
    <2>2. CASE DisconnectPool
      <3>1. Lent = {} /\ pool' = {}
        BY <2>2 DEF DisconnectPool
      <3>2. Abstract!Close
        BY <3>1 DEF Abstract!Close, Abstract!Open, Owner
      <3> QED
        BY <3>2 DEF Abstract!Next
    <2>3. ASSUME NEW t \in Threads, Acquire(t) PROVE [Abstract!Next]_Owner
      <3> DEFINE c == Head(available)
      <3>1. c \in pool \ Lent /\ Lent' = Lent \cup {c} /\ pool' = pool
            /\ held[t] = NoConnection /\ held' = [held EXCEPT ![t] = c]
            /\ held \in [Threads -> Connections \cup {NoConnection}]
        BY <1>2, <2>3, AcquireKeeps DEF Acquire, PoolIInv, PoolTypeOK
      <3> HIDE DEF c
      <3>2. Owner[c] = Nobody /\ \A d \in pool : Owner[d] # t
        <4>1. ASSUME NEW d \in pool, d \in Lent PROVE Owner[d] # t
          BY <1>2, <3>1, <4>1, OwnerKnown DEF Lent
        <4>2. ASSUME NEW d \in pool, d \notin Lent PROVE Owner[d] # t
          BY <1>2, <4>2, OwnerKnown, PoolAssumption
        <4> QED
          BY <1>2, <3>1, <4>1, <4>2, OwnerKnown
      <3>3. held'[t] = c /\ c # NoConnection
        BY <1>2, <3>1, PoolAssumption DEF PoolIInv, PoolTypeOK
      <3>4. /\ DOMAIN Owner' = pool'
            /\ \A d \in pool' \ Lent' : Owner'[d] = Nobody
            /\ \A u \in Threads : held'[u] # NoConnection => Owner'[held'[u]] = u
        BY <1>2, OwnerKnownNext
      <3>5. \A d \in pool \ {c} : Owner'[d] = Owner[d]
        <4> SUFFICES ASSUME NEW d \in pool \ {c} PROVE Owner'[d] = Owner[d]
          OBVIOUS
        <4>1. CASE d \in Lent
          <5>1. PICK u \in Threads : held[u] = d /\ d # NoConnection
            BY <4>1 DEF Lent
          <5>2. u # t /\ held'[u] = d
            BY <3>1, <5>1
          <5> QED
            BY <1>2, <3>4, <5>1, <5>2, OwnerKnown
        <4>2. CASE d \notin Lent
          BY <1>2, <3>1, <3>4, <4>2, OwnerKnown
        <4> QED
          BY <4>1, <4>2
      <3>6. Owner'[c] = t
        BY <3>3, <3>4
      <3>7. Owner' = [Owner EXCEPT ![c] = t]
        BY <3>1, <3>5, <3>6, OwnersDiffer
      <3>8. Abstract!Borrow(t, c)
        BY <1>2, <3>2, <3>7, OwnerKnown DEF Abstract!Borrow, Abstract!Open
      <3>9. c \in Abstract!Open
        BY <1>2, <3>1, OwnerKnown DEF Abstract!Open
      <3> QED
        BY <3>8, <3>9 DEF Abstract!Next
    <2>4. ASSUME NEW t \in Threads, Refuse(t) PROVE [Abstract!Next]_Owner
      BY <2>4, SameOwner DEF Refuse
    <2>5. ASSUME NEW t \in Threads, Release(t) PROVE [Abstract!Next]_Owner
      <3> DEFINE c == held[t]
      <3>1. c \in Lent /\ Lent' = Lent \ {c} /\ pool' = pool /\ c \in pool
            /\ held' = [held EXCEPT ![t] = NoConnection]
            /\ held \in [Threads -> Connections \cup {NoConnection}]
        BY <1>2, <2>5, ReleaseKeeps DEF Release, PoolIInv, PoolTypeOK, ConnectionsConserved
      <3>2. Owner[c] # Nobody
        BY <1>2, <3>1, OwnerKnown
      <3>3. /\ DOMAIN Owner' = pool'
            /\ \A d \in pool' \ Lent' : Owner'[d] = Nobody
            /\ \A u \in Threads : held'[u] # NoConnection => Owner'[held'[u]] = u
        BY <1>2, OwnerKnownNext
      <3>4. Owner'[c] = Nobody
        BY <3>1, <3>3
      <3>5. \A d \in pool \ {c} : Owner'[d] = Owner[d]
        <4> SUFFICES ASSUME NEW d \in pool \ {c} PROVE Owner'[d] = Owner[d]
          OBVIOUS
        <4>1. CASE d \in Lent
          <5>1. PICK u \in Threads : held[u] = d /\ d # NoConnection
            BY <4>1 DEF Lent
          <5>2. u # t /\ held'[u] = d
            BY <3>1, <5>1
          <5> QED
            BY <1>2, <3>3, <5>1, <5>2, OwnerKnown
        <4>2. CASE d \notin Lent
          BY <1>2, <3>1, <3>3, <4>2, OwnerKnown
        <4> QED
          BY <4>1, <4>2
      <3> HIDE DEF c
      <3>6. Owner' = [Owner EXCEPT ![c] = Nobody]
        BY <3>1, <3>4, <3>5, OwnersDiffer
      <3>7. Abstract!Return(c) /\ c \in Abstract!Open
        BY <1>2, <3>1, <3>2, <3>6, OwnerKnown DEF Abstract!Return, Abstract!Open
      <3> QED
        BY <3>7 DEF Abstract!Next
    <2>6. ASSUME NEW c \in Connections, Break(c) PROVE [Abstract!Next]_Owner
      BY <2>6, SameOwner DEF Break
    <2>7. CASE UNCHANGED poolVars
      BY <2>7, SameOwner DEF poolVars
    <2> QED
      BY <1>2, <2>1, <2>2, <2>3, <2>4, <2>5, <2>6, <2>7 DEF PoolNext
  <1> QED
    BY <1>1, <1>2, PoolInvariant, PTL DEF PoolSpec, ImplementsPool, Abstract!Spec
=============================================================================
