------------------------- MODULE ConnRegistryProofs -------------------------
(***************************************************************************)
(* Proofs about ConnRegistry, for any callers, databases, orders of the    *)
(* parameters and maximum.                                                 *)
(***************************************************************************)
EXTENDS ConnRegistry, FiniteSetTheorems, FunctionTheorems, TLAPS

Outside == {"idle", "lock", "ensureUp", "lookup", "open"}
Opening == {"ping", "fingerprint", "register"}

-----------------------------------------------------------------------------
(* The connections of a pool. *)

\* A pool has a finite number of connections in use.
LEMMA InUseFinite ==
  ASSUME NEW p
  PROVE  IsFiniteSet(InUse(p)) /\ Cardinality(InUse(p)) \in Nat
<1>1. InUse(p) \subseteq Callers
  BY DEF InUse
<1>2. QED
  BY <1>1, ConnRegistryAssumption, FS_Subset, FS_CardinalityType

\* A step in which nobody takes a connection lends none.
LEMMA NoMoreInUse ==
  ASSUME PoolsBounded, limited' \subseteq limited,
         \A p : InUse(p)' \subseteq InUse(p)
  PROVE  PoolsBounded'
<1>1. SUFFICES ASSUME MaxConns > 0, NEW p \in limited'
               PROVE  Cardinality(InUse(p)') <= MaxConns
  BY DEF PoolsBounded
<1>2. Cardinality(InUse(p)) <= MaxConns
  BY <1>1 DEF PoolsBounded
<1>3. /\ Cardinality(InUse(p)') <= Cardinality(InUse(p))
      /\ Cardinality(InUse(p)) \in Nat /\ Cardinality(InUse(p)') \in Nat
  BY InUseFinite, FS_Subset, FS_CardinalityType
<1>4. QED
  BY <1>2, <1>3, ConnRegistryAssumption

-----------------------------------------------------------------------------
(* The steps. *)

\* Before the first call there is no pool and nobody holds the lock.
LEMMA InitHolds == Init => IInv
<1>1. SUFFICES ASSUME Init PROVE IInv
  OBVIOUS
<1>2. TypeOK /\ LockHeld /\ OnePool /\ Registered
  BY <1>1 DEF Init, TypeOK, LockHeld, OnePool, Registered, Connecting
<1>3. PoolsBounded
  BY <1>1 DEF Init, PoolsBounded
<1>4. QED
  BY <1>2, <1>3 DEF IInv

\* A caller that comes to Connect holds nothing.
LEMMA StartConnectSafe ==
  ASSUME IInv, NEW c \in Callers, StartConnect(c)
  PROVE  IInv'
<1> USE DEF IInv, StartConnect, GoTo
<1>1. TypeOK'
  BY DEF TypeOK
<1>2. LockHeld' /\ OnePool' /\ Registered'
  BY DEF TypeOK, LockHeld, OnePool, Registered, Connecting
<1>3. \A p : InUse(p)' \subseteq InUse(p)
  BY DEF InUse, TypeOK
<1>4. PoolsBounded'
  BY <1>3, NoMoreInUse
<1>5. QED
  BY <1>1, <1>2, <1>4

\* The lock of the registry is taken by one caller, and only when it is free.
LEMMA LockRegistrySafe ==
  ASSUME IInv, NEW c \in Callers, LockRegistry(c)
  PROVE  IInv'
<1> USE DEF IInv, LockRegistry, GoTo
<1>1. TypeOK'
  BY DEF TypeOK
<1>2. LockHeld' /\ OnePool'
  BY ConnRegistryAssumption DEF TypeOK, LockHeld, OnePool, Connecting
<1>3. Registered'
  BY DEF TypeOK, Registered
<1>4. \A p : InUse(p)' \subseteq InUse(p)
  BY DEF InUse, TypeOK
<1>5. PoolsBounded'
  BY <1>4, NoMoreInUse
<1>6. QED
  BY <1>1, <1>2, <1>3, <1>5

\* The tunnel is ensured under the lock, which stays with the caller.
LEMMA EnsureUpSafe ==
  ASSUME IInv, NEW c \in Callers, EnsureUp(c)
  PROVE  IInv'
<1> USE DEF IInv, EnsureUp, GoTo
<1>1. TypeOK'
  BY DEF TypeOK
<1>2. LockHeld' /\ OnePool' /\ Registered'
  BY DEF TypeOK, LockHeld, OnePool, Registered, Connecting
<1>3. \A p : InUse(p)' \subseteq InUse(p)
  BY DEF InUse, TypeOK
<1>4. PoolsBounded'
  BY <1>3, NoMoreInUse
<1>5. QED
  BY <1>1, <1>2, <1>4

\* The pool that is found is the one of the connection string; when none is,
\* the lock keeps the entry empty until the caller fills it.
LEMMA LookupSafe ==
  ASSUME IInv, NEW c \in Callers, Lookup(c)
  PROVE  IInv'
<1> USE DEF IInv, Lookup, GoTo, ReturnFrom
<1>1. TypeOK'
  BY DEF TypeOK
<1>2. lock = c
  BY DEF LockHeld, Connecting
<1>3. \A e \in Callers : e # c => ~ Connecting(e)
  BY <1>2 DEF LockHeld
<1>4. LockHeld'
  BY <1>2, <1>3 DEF LockHeld, TypeOK, Connecting
<1>5. OnePool' /\ Registered'
  BY DEF TypeOK, OnePool, Registered
<1>6. \A p : InUse(p)' \subseteq InUse(p)
  BY DEF InUse, TypeOK
<1>7. PoolsBounded'
  BY <1>6, NoMoreInUse
<1>8. QED
  BY <1>1, <1>4, <1>5, <1>7

\* The pool that is opened is new.
LEMMA OpenSafe ==
  ASSUME IInv, NEW c \in Callers, Open(c)
  PROVE  IInv'
<1> USE DEF IInv, Open, GoTo
<1>1. PICK p \in Pools \ opened : opened' = opened \cup {p} /\ pool' = [pool EXCEPT ![c] = p]
  OBVIOUS
<1>2. TypeOK'
  BY <1>1 DEF TypeOK
<1>3. LockHeld' /\ OnePool'
  BY <1>1 DEF TypeOK, LockHeld, OnePool, Connecting
<1>4. \A d \in Dsn : registry[d] # p
  BY <1>1, ConnRegistryAssumption DEF Registered, TypeOK
<1>5. Registered'
  BY <1>1, <1>4 DEF Registered, TypeOK
<1>6. \A q : InUse(q)' \subseteq InUse(q)
  BY <1>1 DEF InUse, TypeOK
<1>7. PoolsBounded'
  BY <1>6, NoMoreInUse
<1>8. QED
  BY <1>2, <1>3, <1>5, <1>7

\* Nobody uses a pool that is not registered yet.
LEMMA UnregisteredUnused ==
  ASSUME IInv, NEW c \in Callers, pc[c] \in Opening
  PROVE  InUse(pool[c]) = {}
<1>1. ASSUME NEW e \in Callers, pc[e] = "using" PROVE pool[e] # pool[c]
  BY <1>1 DEF IInv, OnePool, Registered, TypeOK, Opening
<1>2. QED
  BY <1>1 DEF InUse

\* A pool gets its maximum before anybody may take a connection of it.
LEMMA PingSafe ==
  ASSUME IInv, NEW c \in Callers, Ping(c)
  PROVE  IInv'
<1> USE DEF IInv, Ping, GoTo
<1>1. TypeOK'
  BY DEF TypeOK, Registered
<1>2. LockHeld' /\ OnePool'
  BY DEF TypeOK, LockHeld, OnePool, Connecting
<1>3. Registered'
  BY DEF Registered, TypeOK
<1>4. \A p : InUse(p)' = InUse(p)
  BY DEF InUse, TypeOK
<1>5. ASSUME MaxConns > 0, NEW p \in limited' PROVE Cardinality(InUse(p)') <= MaxConns
  <2>1. CASE p \in limited
    <3>1. Cardinality(InUse(p)) <= MaxConns
      BY <1>5, <2>1 DEF PoolsBounded
    <3>2. InUse(p)' = InUse(p)
      BY <1>4
    <3>3. QED
      BY <3>1, <3>2, Zenon
  <2>2. CASE p = pool[c]
    <3>1. InUse(p) = {}
      BY <2>2, UnregisteredUnused DEF Opening
    <3>2. InUse(p)' = {}
      BY <3>1, <1>4
    <3>3. Cardinality(InUse(p)') = 0
      BY <3>2, FS_EmptySet, Zenon
    <3>4. QED
      BY <3>3, ConnRegistryAssumption
  <2>3. QED
    BY <1>5, <2>1, <2>2
<1>6. PoolsBounded'
  BY <1>5 DEF PoolsBounded
<1>7. QED
  BY <1>1, <1>2, <1>3, <1>6

\* Asking for the server's version lends nobody a connection.
LEMMA FingerprintSafe ==
  ASSUME IInv, NEW c \in Callers, Fingerprint(c)
  PROVE  IInv'
<1> USE DEF IInv, Fingerprint, GoTo
<1>1. TypeOK'
  BY DEF TypeOK
<1>2. LockHeld' /\ OnePool' /\ Registered'
  BY DEF TypeOK, LockHeld, OnePool, Registered, Connecting
<1>3. \A p : InUse(p)' \subseteq InUse(p)
  BY DEF InUse, TypeOK
<1>4. PoolsBounded'
  BY <1>3, NoMoreInUse
<1>5. QED
  BY <1>1, <1>2, <1>4

\* The entry is still empty, so nobody's pool changes.
LEMMA RegisterSafe ==
  ASSUME IInv, NEW c \in Callers, Register(c)
  PROVE  IInv'
<1> USE DEF IInv, Register, GoTo, ReturnFrom
<1>1. lock = c /\ \A e \in Callers : e # c => ~ Connecting(e)
  BY DEF LockHeld, Connecting
<1>2. /\ registry[dsn[c]] = None /\ dsn[c] \in Dsn
      /\ pool[c] \in limited /\ pool[c] # None
      /\ \A d \in Dsn : registry[d] # pool[c]
  BY ConnRegistryAssumption DEF Registered, TypeOK
<1>3. TypeOK'
  BY <1>2 DEF TypeOK
<1>4. LockHeld'
  BY <1>1, <1>2 DEF LockHeld, TypeOK, Connecting
<1>5. OnePool'
  BY <1>2 DEF OnePool, TypeOK
<1>6. Registered'
  BY <1>1, <1>2 DEF Registered, TypeOK, Connecting
<1>7. \A p : InUse(p)' \subseteq InUse(p)
  BY <1>2 DEF InUse, TypeOK
<1>8. PoolsBounded'
  BY <1>7, NoMoreInUse
<1>9. QED
  BY <1>3, <1>4, <1>5, <1>6, <1>8

\* The pool that is given up is not registered.
LEMMA ConnectFailsSafe ==
  ASSUME IInv, NEW c \in Callers, ConnectFails(c)
  PROVE  IInv'
<1> USE DEF IInv, ConnectFails, GoTo, ReturnFrom
<1>1. lock = c /\ \A e \in Callers : e # c => ~ Connecting(e)
  BY DEF LockHeld, Connecting
<1>2. \A d \in Dsn : registry[d] # None => registry[d] # pool[c]
  BY DEF Registered
<1>3. TypeOK'
  BY DEF TypeOK
<1>4. LockHeld'
  BY <1>1 DEF LockHeld, TypeOK, Connecting
<1>5. OnePool'
  BY DEF OnePool, TypeOK
<1>6. Registered'
  BY <1>1, <1>2 DEF Registered, TypeOK, Connecting
<1>7. \A p : InUse(p)' \subseteq InUse(p)
  BY DEF InUse, TypeOK
<1>8. PoolsBounded'
  BY <1>7, NoMoreInUse
<1>9. QED
  BY <1>3, <1>4, <1>5, <1>6, <1>8

\* The pool waits when it has lent its maximum.
LEMMA TakeSafe ==
  ASSUME IInv, NEW c \in Callers, Take(c)
  PROVE  IInv'
<1> USE DEF IInv, Take, GoTo
<1>1. TypeOK'
  BY DEF TypeOK
<1>2. LockHeld' /\ OnePool' /\ Registered'
  BY DEF TypeOK, LockHeld, OnePool, Registered, Connecting
<1>3. ASSUME MaxConns > 0, NEW p \in limited' PROVE Cardinality(InUse(p)') <= MaxConns
  <2>1. CASE p = pool[c]
    <3>1. Cardinality(InUse(p)) < MaxConns /\ c \notin InUse(p)
      BY <1>3, <2>1 DEF InUse
    <3>2. InUse(p)' = InUse(p) \cup {c}
      BY <2>1 DEF InUse, TypeOK
    <3>3. Cardinality(InUse(p)') = Cardinality(InUse(p)) + 1
      BY <3>1, <3>2, InUseFinite, FS_AddElement
    <3>4. QED
      BY <3>1, <3>3, InUseFinite, ConnRegistryAssumption
  <2>2. CASE p # pool[c]
    <3>1. InUse(p)' = InUse(p)
      BY <2>2 DEF InUse, TypeOK
    <3>2. QED
      BY <3>1, <1>3 DEF PoolsBounded
  <2>3. QED
    BY <2>1, <2>2
<1>4. PoolsBounded'
  BY <1>3 DEF PoolsBounded
<1>5. QED
  BY <1>1, <1>2, <1>4

\* A connection that is given back makes room in its pool.
LEMMA GiveBackSafe ==
  ASSUME IInv, NEW c \in Callers, GiveBack(c)
  PROVE  IInv'
<1> USE DEF IInv, GiveBack, GoTo
<1>1. TypeOK'
  BY DEF TypeOK
<1>2. LockHeld' /\ OnePool' /\ Registered'
  BY DEF TypeOK, LockHeld, OnePool, Registered, Connecting
<1>3. \A p : InUse(p)' \subseteq InUse(p)
  BY DEF InUse, TypeOK
<1>4. PoolsBounded'
  BY <1>3, NoMoreInUse
<1>5. QED
  BY <1>1, <1>2, <1>4

\* The invariant is kept by every step.
LEMMA NextSafe ==
  ASSUME IInv, [Next]_vars
  PROVE  IInv'
<1>1. CASE UNCHANGED vars
  <2>1. (TypeOK /\ LockHeld /\ OnePool /\ Registered)'
    BY <1>1 DEF vars, IInv, TypeOK, LockHeld, OnePool, Registered, Connecting
  <2>2. \A p : InUse(p)' \subseteq InUse(p)
    BY <1>1 DEF vars, InUse
  <2>3. PoolsBounded'
    BY <1>1, <2>2, NoMoreInUse DEF vars, IInv
  <2>4. QED
    BY <2>1, <2>3 DEF IInv
<1>2. CASE Next
  <2>1. PICK c \in Callers : StartConnect(c) \/ ConnectStep(c) \/ Take(c) \/ GiveBack(c)
    BY <1>2 DEF Next
  <2>2. CASE ConnectStep(c)
    BY <2>2, LockRegistrySafe, EnsureUpSafe, LookupSafe, OpenSafe, PingSafe,
       FingerprintSafe, RegisterSafe, ConnectFailsSafe DEF ConnectStep
  <2>3. QED
    BY <2>1, <2>2, StartConnectSafe, TakeSafe, GiveBackSafe
<1>3. QED
  BY <1>1, <1>2

-----------------------------------------------------------------------------
(* The theorems. *)

\* Whoever is inside Connect has the lock, a connection string has one pool for
\* good, and no pool lends more than its maximum.
THEOREM Invariance == Spec => []IInv
<1>1. QED
  BY InitHolds, NextSafe, PTL DEF Spec

\* However many goroutines connect for the first time at once, those with the same
\* connection string have at most max_connections connections: they share its pool.
THEOREM StringBounded == Spec => []ConnectionsPerString
<1>1. IInv => ConnectionsPerString
  <2>1. SUFFICES ASSUME IInv, MaxConns > 0, NEW s \in Dsn
                 PROVE  Cardinality(UsersBy(s)) <= MaxConns
    BY DEF ConnectionsPerString
  <2> DEFINE p == registry[s]
  <2>2. \A c \in UsersBy(s) : pool[c] = p /\ p # None
    BY <2>1 DEF UsersBy, IInv, OnePool
  <2>3. CASE UsersBy(s) = {}
    BY <2>1, <2>3, FS_EmptySet, ConnRegistryAssumption
  <2>4. CASE UsersBy(s) # {}
    <3>1. p \in limited
      BY <2>1, <2>2, <2>4 DEF IInv, Registered
    <3>2. UsersBy(s) \subseteq InUse(p)
      BY <2>2 DEF UsersBy, InUse
    <3>3. /\ Cardinality(UsersBy(s)) <= Cardinality(InUse(p))
          /\ Cardinality(UsersBy(s)) \in Nat /\ Cardinality(InUse(p)) \in Nat
      BY <3>2, InUseFinite, FS_Subset, FS_CardinalityType
    <3>4. Cardinality(InUse(p)) <= MaxConns
      BY <2>1, <3>1 DEF IInv, PoolsBounded
    <3>5. QED
      BY <3>3, <3>4, ConnRegistryAssumption
  <2>5. QED
    BY <2>3, <2>4
<1>2. QED
  BY <1>1, Invariance, PTL

\* The users of a connection string can be numbered up to its maximum.
LEMMA Numbered ==
  ASSUME ConnectionsPerString, MaxConns > 0, NEW s \in Dsn
  PROVE  \E f : f \in Injection(UsersBy(s), 1..MaxConns)
<1>1. UsersBy(s) \subseteq Callers
  BY DEF UsersBy
<1>2. IsFiniteSet(UsersBy(s))
  BY <1>1, ConnRegistryAssumption, FS_Subset
<1> DEFINE k == Cardinality(UsersBy(s))
<1>3. k \in Nat /\ k <= MaxConns
  BY <1>2, FS_CardinalityType DEF ConnectionsPerString
<1>4. PICK b : b \in Bijection(1..k, UsersBy(s))
  BY <1>2, FS_CardinalityType DEF ExistsBijection
<1> HIDE DEF k
<1>5. PICK f : f \in Bijection(UsersBy(s), 1..k)
  BY <1>4, Fun_BijInverse
<1>6. f \in Injection(UsersBy(s), 1..MaxConns)
  BY <1>3, <1>5, ConnRegistryAssumption DEF Bijection, Injection, IsInjective
<1>7. QED
  BY <1>6

\* What bounds the connections of a database.
ConnectionsPerOrder ==
    MaxConns > 0 =>
        \A d \in Databases : Cardinality(UsersOf(d)) <= Cardinality(Orders) * MaxConns

\* A database has at most as many times max_connections connections as its
\* connection strings have orders (config.go:267): that is all that bounds them, and
\* with two orders max_connections does not (ConnectionsBounded).
THEOREM OrdersBound == Spec => []ConnectionsPerOrder
<1>1. ASSUME IInv, ConnectionsPerString, MaxConns > 0, NEW d \in Databases
      PROVE  Cardinality(UsersOf(d)) <= Cardinality(Orders) * MaxConns
  <2> DEFINE number(o) == CHOOSE f : f \in Injection(UsersBy(<<d, o>>), 1..MaxConns)
             T == Orders \X (1..MaxConns)
             seat == [c \in UsersOf(d) |-> <<dsn[c][2], number(dsn[c][2])[c]>>]
  <2>1. \A o \in Orders : number(o) \in Injection(UsersBy(<<d, o>>), 1..MaxConns)
    <3>1. SUFFICES ASSUME NEW o \in Orders
                   PROVE  \E f : f \in Injection(UsersBy(<<d, o>>), 1..MaxConns)
      OBVIOUS
    <3>2. <<d, o>> \in Dsn
      BY DEF Dsn
    <3>3. QED
      BY <1>1, <3>2, Numbered
  <2> HIDE DEF number
  <2>2. \A c \in UsersOf(d) : dsn[c][2] \in Orders /\ c \in UsersBy(<<d, dsn[c][2]>>)
    BY <1>1 DEF UsersOf, UsersBy, IInv, TypeOK, Dsn
  <2>3. seat \in Injection(UsersOf(d), T)
    <3>1. \A c \in UsersOf(d) : number(dsn[c][2])[c] \in 1..MaxConns
      BY <2>1, <2>2 DEF Injection
    <3>2. \A c \in UsersOf(d) : seat[c] \in T
      BY <2>2, <3>1
    <3>3. ASSUME NEW c \in UsersOf(d), NEW e \in UsersOf(d), seat[c] = seat[e]
          PROVE  c = e
      <4> DEFINE o == dsn[c][2]
      <4>1. o = dsn[e][2] /\ number(o)[c] = number(o)[e]
        BY <3>3
      <4>2. c \in UsersBy(<<d, o>>) /\ e \in UsersBy(<<d, o>>) /\ o \in Orders
        BY <2>2, <4>1
      <4>3. QED
        BY <2>1, <4>1, <4>2 DEF Injection, IsInjective
    <3>4. QED
      BY <3>2, <3>3 DEF Injection, IsInjective
  <2>4. /\ IsFiniteSet(1..MaxConns) /\ Cardinality(1..MaxConns) = MaxConns
    BY <1>1, ConnRegistryAssumption, FS_Interval
  <2>5. IsFiniteSet(T) /\ Cardinality(T) = Cardinality(Orders) * MaxConns
    BY <2>4, ConnRegistryAssumption, FS_Product
  <2> HIDE DEF seat, T
  <2>6. QED
    BY <2>3, <2>5, FS_Injection
<1>2. IInv /\ ConnectionsPerString => ConnectionsPerOrder
  BY <1>1 DEF ConnectionsPerOrder
<1>3. QED
  BY <1>2, Invariance, StringBounded, PTL
=============================================================================
