---------------------------- MODULE ConnRegistry ----------------------------
(***************************************************************************)
(* The connection registry of the provider (src/postgresql/config.go): one *)
(* process-wide map from connection strings to pools, under a process-wide *)
(* lock that Connect holds while it starts the tunnel, opens the pool,     *)
(* pings the server and asks for its version.  Every operation of every    *)
(* resource begins with Connect; transactions on another database connect  *)
(* through a client of their own (startTransaction, src/postgresql/        *)
(* helpers.go).                                                            *)
(*                                                                         *)
(* connStr writes the parameters in the order in which Go iterates a map,  *)
(* which differs from one call to the next: the string, and with it the    *)
(* key, is one of Orders for the same database.                            *)
(***************************************************************************)
EXTENDS Naturals, FiniteSets

CONSTANTS Callers,      \* the goroutines that connect
          Databases,
          Orders,       \* the orders of the parameters in a connection string
          MaxConns,     \* max_connections, 0 for no limit
          Hinted,       \* expected_version is set: no need to ask the server
          Pools,        \* bound: the pools that can be opened
          None

ASSUME ConnRegistryAssumption ==
    /\ MaxConns \in Nat /\ Hinted \in BOOLEAN
    /\ IsFiniteSet(Callers) /\ IsFiniteSet(Orders)
    /\ None \notin Pools /\ None \notin Callers

Dsn == Databases \X Orders

VARIABLES
    registry,     \* dbRegistry: the pool of each connection string
    limited,      \* the pools that have their maximum set
    opened,       \* the pools sql.Open has made
    lock,         \* who holds dbRegistryLock
    pc,           \* the next step of each caller
    dsn, pool     \* what it connects to, and the pool it has

vars == <<registry, limited, opened, lock, pc, dsn, pool>>

TypeOK ==
    /\ registry \in [Dsn -> Pools \cup {None}]
    /\ limited \subseteq opened /\ opened \subseteq Pools
    /\ lock \in Callers \cup {None}
    /\ pc \in [Callers -> {"idle", "lock", "ensureUp", "lookup", "open", "ping", "fingerprint",
                           "register", "connected", "using"}]
    /\ dsn \in [Callers -> Dsn]
    /\ pool \in [Callers -> Pools \cup {None}]

Init ==
    /\ registry = [d \in Dsn |-> None]
    /\ limited = {} /\ opened = {}
    /\ lock = None
    /\ pc = [c \in Callers |-> "idle"]
    /\ dsn \in [Callers -> Dsn]
    /\ pool = [c \in Callers |-> None]

GoTo(c, label) == pc' = [pc EXCEPT ![c] = label]

\* The connections of a pool that are lent.
InUse(p) == {c \in Callers : pc[c] = "using" /\ pool[c] = p}

-----------------------------------------------------------------------------
(* Connect. *)

\* The client of a database, and the order the parameters come out in this time.
StartConnect(c) ==
    /\ pc[c] = "idle"
    /\ \E d \in Dsn : dsn' = [dsn EXCEPT ![c] = d]
    /\ GoTo(c, "lock")
    /\ UNCHANGED <<registry, limited, opened, lock, pool>>

\* Faulty form: goes on without the lock.
LockRegistryFree(c) ==
    /\ pc[c] = "lock"
    /\ GoTo(c, "ensureUp")
    /\ UNCHANGED <<registry, limited, opened, lock, dsn, pool>>

LockRegistry(c) ==
    /\ pc[c] = "lock" /\ lock = None
    /\ lock' = c
    /\ GoTo(c, "ensureUp")
    /\ UNCHANGED <<registry, limited, opened, dsn, pool>>

\* The tunnel is up, or there is none.
EnsureUp(c) ==
    /\ pc[c] = "ensureUp"
    /\ GoTo(c, "lookup")
    /\ UNCHANGED <<registry, limited, opened, lock, dsn, pool>>

\* Returning from Connect, with the pool p or an error.
ReturnFrom(c, p) ==
    /\ GoTo(c, IF p = None THEN "idle" ELSE "connected")
    /\ pool' = [pool EXCEPT ![c] = p]
    /\ lock' = IF lock = c THEN None ELSE lock
    /\ UNCHANGED dsn

Lookup(c) ==
    /\ pc[c] = "lookup"
    /\ IF registry[dsn[c]] # None
         THEN ReturnFrom(c, registry[dsn[c]])
         ELSE GoTo(c, "open") /\ UNCHANGED <<lock, dsn, pool>>
    /\ UNCHANGED <<registry, limited, opened>>

Open(c) ==
    /\ pc[c] = "open"
    /\ \E p \in Pools \ opened :
         /\ opened' = opened \cup {p}
         /\ pool' = [pool EXCEPT ![c] = p]
    /\ GoTo(c, "ping")
    /\ UNCHANGED <<registry, limited, lock, dsn>>

\* The server answers; the limit is set before anyone else can see the pool.
Ping(c) ==
    /\ pc[c] = "ping"
    /\ limited' = limited \cup {pool[c]}
    /\ GoTo(c, IF Hinted THEN "register" ELSE "fingerprint")
    /\ UNCHANGED <<registry, opened, lock, dsn, pool>>

Fingerprint(c) ==
    /\ pc[c] = "fingerprint"
    /\ GoTo(c, "register")
    /\ UNCHANGED <<registry, limited, opened, lock, dsn, pool>>

Register(c) ==
    /\ pc[c] = "register"
    /\ registry' = [registry EXCEPT ![dsn[c]] = pool[c]]
    /\ ReturnFrom(c, pool[c])
    /\ UNCHANGED <<limited, opened>>

\* Faulty form: tries again, with the lock, until the server answers.
ConnectFailsRetries(c) ==
    /\ pc[c] \in {"ensureUp", "open", "ping", "fingerprint"}
    /\ GoTo(c, "ensureUp")
    /\ pool' = [pool EXCEPT ![c] = None]
    /\ opened' = opened \ {pool[c]}
    /\ limited' = limited \ {pool[c]}
    /\ UNCHANGED <<registry, lock, dsn>>

\* The tunnel, the ping or the version query fails: nothing is registered, and
\* the pool that was opened serves nobody.
ConnectFails(c) ==
    /\ pc[c] \in {"ensureUp", "open", "ping", "fingerprint"}
    /\ ReturnFrom(c, None)
    /\ opened' = opened \ {pool[c]}
    /\ limited' = limited \ {pool[c]}
    /\ UNCHANGED registry

-----------------------------------------------------------------------------
(* Statements and transactions on the pool. *)

Take(c) ==
    /\ pc[c] = "connected"
    /\ MaxConns = 0 \/ pool[c] \notin limited \/ Cardinality(InUse(pool[c])) < MaxConns
    /\ GoTo(c, "using")
    /\ UNCHANGED <<registry, limited, opened, lock, dsn, pool>>

GiveBack(c) ==
    /\ pc[c] = "using"
    /\ GoTo(c, "idle")
    /\ pool' = [pool EXCEPT ![c] = None]
    /\ UNCHANGED <<registry, limited, opened, lock, dsn>>

-----------------------------------------------------------------------------

ConnectStep(c) ==
    \/ LockRegistry(c) \/ EnsureUp(c) \/ Lookup(c) \/ Open(c) \/ Ping(c)
    \/ Fingerprint(c) \/ Register(c) \/ ConnectFails(c)

Next == \E c \in Callers : StartConnect(c) \/ ConnectStep(c) \/ Take(c) \/ GiveBack(c)

Spec == Init /\ [][Next]_vars

\* Goroutines run; the mutex, which is Go's and hands over to those that have
\* waited, and the pool, a queue, are fair; connections go back.
FairSpec ==
    /\ Spec
    /\ \A c \in Callers :
         /\ SF_vars(LockRegistry(c)) /\ WF_vars(ConnectStep(c))
         /\ SF_vars(Take(c)) /\ WF_vars(GiveBack(c))

-----------------------------------------------------------------------------
(* Properties. *)

UsersOf(d) == {c \in Callers : pc[c] = "using" /\ dsn[c][1] = d}
UsersBy(s) == {c \in Callers : pc[c] = "using" /\ dsn[c] = s}

\* However many goroutines connect for the first time at once, those with the same
\* connection string share one pool, and one maximum (config.go:321-333).
ConnectionsPerString ==
    MaxConns > 0 => \A s \in Dsn : Cardinality(UsersBy(s)) <= MaxConns

\* "max_connections - Set the maximum number of open connections to the database"
\* (website/docs/index.html.markdown:202): not so, since the connection strings of
\* one database differ in the order of their parameters.
ConnectionsBounded ==
    MaxConns > 0 => \A d \in Databases : Cardinality(UsersOf(d)) <= MaxConns

\* Connect returns, whatever fails in it and whoever fails in front, and then the
\* caller has its connection.
ConnectReturns ==
    \A c \in Callers : pc[c] = "lock" ~> pc[c] \in {"idle", "using"}

-----------------------------------------------------------------------------
(* Why ConnectionsPerString holds. *)

Connecting(c) == pc[c] \in {"ensureUp", "lookup", "open", "ping", "fingerprint", "register"}

\* Whoever is inside Connect has the lock.
LockHeld == \A c \in Callers : Connecting(c) => lock = c

\* A caller outside has the pool of its connection string.
OnePool ==
    \A c \in Callers :
        pc[c] \in {"connected", "using"} => pool[c] # None /\ registry[dsn[c]] = pool[c]

\* Nobody overwrites an entry, and what is registered, or about to be, is limited.
Registered ==
    /\ \A d \in Dsn : registry[d] # None => registry[d] \in limited
    /\ \A c \in Callers :
         /\ pc[c] \in {"open", "ping", "fingerprint", "register"} => registry[dsn[c]] = None
         /\ pc[c] \in {"ping", "fingerprint", "register"} =>
              pool[c] \in opened /\ \A d \in Dsn : registry[d] # pool[c]
         /\ pc[c] \in {"fingerprint", "register"} => pool[c] \in limited
         /\ pc[c] \in {"idle", "lock", "ensureUp", "lookup", "open"} => pool[c] = None

PoolsBounded ==
    MaxConns > 0 => \A p \in limited : Cardinality(InUse(p)) <= MaxConns

IInv == TypeOK /\ LockHeld /\ OnePool /\ Registered /\ PoolsBounded
=============================================================================
