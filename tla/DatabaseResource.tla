-------------------------- MODULE DatabaseResource --------------------------
(***************************************************************************)
(* postgresql_database (src/postgresql/resource_database_fw.go).  CREATE,  *)
(* ALTER and DROP DATABASE cannot share a transaction, so every statement  *)
(* commits on its own.  A user who is not a superuser must be a member of  *)
(* the owner: the role is borrowed, granted before the statements and      *)
(* revoked by a defer, under an advisory lock on the user that a           *)
(* transaction of its own holds, the lock transaction.                     *)
(*                                                                         *)
(* Terraform runs the operations of several resources at once; they share  *)
(* the databases, the user's memberships, the lock and a connection pool.  *)
(* A lock transaction keeps a connection of the pool and every statement   *)
(* outside it needs one more.  setAlterOwnership begins its lock           *)
(* transaction in the database it changes: from that database's pool, and  *)
(* as PostgreSQL's advisory locks are local to a database it never waits   *)
(* for the others' lock, nor they for its.                                 *)
(*                                                                         *)
(* The pool of a database is one of those ConnRegistry may open for it.    *)
(* The tablespace and the connection limit, which nothing depends on, are  *)
(* left out.                                                               *)
(***************************************************************************)
EXTENDS Naturals, FiniteSets

CONSTANTS Resources,     \* the postgresql_database resources of a configuration
          Names,         \* database names
          Owners,        \* roles that own databases, the provider's user excepted
          Admin,         \* the provider's user
          Superuser,     \* it is one
          InitialRoles,  \* the roles the user is a member of, for good
          Scenarios,     \* what a run of Terraform may meet: see scenario below
          Kinds,         \* the operations Terraform runs
          MaxRuns,       \* bound: operations per resource
          Absent, Nobody

Database == [name : Names, owner : Owners \cup {Admin}, open : BOOLEAN,
             template : BOOLEAN, alter : BOOLEAN]

Statements == {"pgLockRole", "grant", "revoke", "create", "untemplate", "block", "drop",
               "alterOwner", "reassign", "rename", "allowConns", "isTemplate"}

ASSUME DatabaseAssumption ==
    /\ Admin \notin Owners
    /\ Absent \notin Owners \cup {Admin} \cup Database
    /\ Nobody \notin Resources
    /\ Superuser \in BOOLEAN
    /\ InitialRoles \subseteq Owners
    /\ Scenarios \subseteq [plans : SUBSET Database, foreign : SUBSET Names,
                             mayFail : SUBSET Statements, maxConns : Nat]
    /\ Kinds \subseteq {"create", "update", "delete"}
    /\ MaxRuns \in Nat

VARIABLES
    owner, open, template,  \* pg_database: owners (or Absent), ALLOW_CONNECTIONS, IS_TEMPLATE
    memberOf,               \* pg_auth_members: the roles the user is a member of
    lock,                   \* whose lock transaction has the lock on the user
    held,                   \* the resources whose lock transaction has a pool connection
    leaked,                 \* the connections that never go back to the pool
    tracked,                \* Terraform's state of each resource
    kind, plan, prior,      \* the operation of each resource
    pc, fn,                 \* its next statement and the function it belongs to
    target, granted, err,   \* that function's owner, ownerGranted and err
    runs,                   \* the operations each resource has run
    scenario                \* what Terraform meets: chosen at first, and it stays

pgDatabase == <<owner, open, template>>
locks == <<lock, held, leaked>>
args == <<kind, plan, prior, runs, scenario>>
vars == <<pgDatabase, memberOf, locks, tracked, args, pc, fn, target, granted, err>>

Plans == scenario.plans        \* the databases the configuration may ask for
Foreign == scenario.foreign    \* those that exist and no resource manages
MayFail == scenario.mayFail    \* the statements that may fail for reasons of their own
MaxConns == scenario.maxConns  \* max_connections, 0 for no limit

Setters == {"setDBName", "setAlterOwnership", "setDBOwner", "setDBAllowConns", "setDBIsTemplate"}

Functions == Setters \cup {"createDatabase", "deleteDatabase"}

PC == {"idle", "startTransaction", "getDatabaseOwner", "isMember", "commitReassign",
       "isStillMember", "return", "read"} \cup Setters \cup Statements

TypeOK ==
    /\ owner \in [Names -> Owners \cup {Admin, Absent}]
    /\ open \subseteq Names /\ template \subseteq Names
    /\ memberOf \subseteq Owners
    /\ lock \in Resources \cup {Nobody}
    /\ held \subseteq Resources
    /\ leaked \in Nat
    /\ tracked \in [Resources -> Database \cup {Absent}]
    /\ kind \in [Resources -> {"none", "create", "update", "delete"}]
    /\ plan \in [Resources -> Database \cup {Absent}]
    /\ prior \in [Resources -> Database \cup {Absent}]
    /\ pc \in [Resources -> PC]
    /\ fn \in [Resources -> Functions \cup {"none"}]
    /\ target \in [Resources -> Owners \cup {Admin}]
    /\ granted \in [Resources -> BOOLEAN]
    /\ err \in [Resources -> BOOLEAN]
    /\ runs \in [Resources -> 0 .. MaxRuns]
    /\ scenario \in Scenarios

Init ==
    /\ scenario \in Scenarios
    /\ owner = [n \in Names |-> IF n \in Foreign THEN Admin ELSE Absent]
    /\ open = Foreign /\ template = {}
    /\ memberOf = InitialRoles
    /\ lock = Nobody /\ held = {} /\ leaked = 0
    /\ tracked = [o \in Resources |-> Absent]
    /\ kind = [o \in Resources |-> "none"]
    /\ plan = [o \in Resources |-> Absent]
    /\ prior = [o \in Resources |-> Absent]
    /\ pc = [o \in Resources |-> "idle"]
    /\ fn = [o \in Resources |-> "none"]
    /\ target = [o \in Resources |-> Admin]
    /\ granted = [o \in Resources |-> FALSE]
    /\ err = [o \in Resources |-> FALSE]
    /\ runs = [o \in Resources |-> 0]

-----------------------------------------------------------------------------
(* The pool, the server, and the flow of an operation. *)

\* database/sql has a connection to lend.
Connection == MaxConns = 0 \/ Cardinality(held) + leaked < MaxConns

\* The user may act as role r.
Entitled(r) == Superuser \/ r = Admin \/ r \in memberOf

\* The database an operation works on: renamed already when an Update gets there.
Name(o) == plan[o].name

GoTo(o, label) == pc' = [pc EXCEPT ![o] = label]

SetErr(o, e) == err' = [err EXCEPT ![o] = e]

Changed(o, field) == plan[o][field] # prior[o][field]

\* What a setter of Update tests first.
Wanted(o, setter) ==
    CASE setter = "setDBName"         -> Changed(o, "name")
      [] setter = "setAlterOwnership" -> (Changed(o, "owner") \/ Changed(o, "alter")) /\ plan[o].alter
      [] setter = "setDBOwner"        -> Changed(o, "owner")
      [] setter = "setDBAllowConns"   -> Changed(o, "open")
      [] setter = "setDBIsTemplate"   -> Changed(o, "template")

\* Where an operation goes on when one of its functions returns no error.
Following(function) ==
    CASE function = "setDBName"         -> "setAlterOwnership"
      [] function = "setAlterOwnership" -> "setDBOwner"
      [] function = "setDBOwner"        -> "setDBAllowConns"
      [] function = "setDBAllowConns"   -> "setDBIsTemplate"
      [] function = "setDBIsTemplate"   -> "read"
      [] function = "createDatabase"    -> "read"
      [] function = "deleteDatabase"    -> "idle"

\* The first statement of each function once the owner's role is borrowed.
FirstStatement(o) ==
    CASE fn[o] = "createDatabase"    -> "create"
      [] fn[o] = "deleteDatabase"    -> IF prior[o].template THEN "untemplate" ELSE "block"
      [] fn[o] = "setDBOwner"        -> "alterOwner"
      [] fn[o] = "setAlterOwnership" -> "reassign"

\* The function returns: its defers run first, the revoke before the rollback.
Defers(o) == GoTo(o, IF granted[o] THEN "isStillMember" ELSE "return")

\* What the server asks of a statement.
Allowed(o, statement) ==
    CASE statement = "create"     -> owner[Name(o)] = Absent /\ Entitled(plan[o].owner)
      [] statement = "drop"       -> /\ owner[Name(o)] # Absent /\ Entitled(owner[Name(o)])
                                     /\ Name(o) \notin template
      [] statement = "alterOwner" -> /\ owner[Name(o)] # Absent /\ Entitled(owner[Name(o)])
                                     /\ Entitled(plan[o].owner)
      [] statement = "reassign"   -> Entitled(target[o]) /\ Entitled(plan[o].owner)
      [] statement = "rename"     -> /\ owner[prior[o].name] # Absent
                                     /\ Entitled(owner[prior[o].name])
                                     /\ owner[Name(o)] = Absent
      [] OTHER                    -> owner[Name(o)] # Absent /\ Entitled(owner[Name(o)])

\* A statement can run: the reassignment runs in the lock transaction.
Runs(o, statement) == pc[o] = statement /\ (statement = "reassign" \/ Connection)

Executes(o, statement) == Runs(o, statement) /\ Allowed(o, statement)

-----------------------------------------------------------------------------
(* Terraform starts an operation. *)

Begin(o, operation, newPlan, newPrior) ==
    /\ pc[o] = "idle" /\ operation \in Kinds /\ runs[o] < MaxRuns
    /\ kind' = [kind EXCEPT ![o] = operation]
    /\ plan' = [plan EXCEPT ![o] = newPlan]
    /\ prior' = [prior EXCEPT ![o] = newPrior]
    /\ runs' = [runs EXCEPT ![o] = @ + 1]
    /\ UNCHANGED <<pgDatabase, memberOf, locks, tracked, granted, err, scenario>>

\* Without an owner in the configuration the user owns the database, and nothing
\* is borrowed nor locked.
StartCreate(o) ==
    \E p \in Plans, hasOwner \in BOOLEAN :
        /\ tracked[o] = Absent
        /\ hasOwner \/ p.owner = Admin
        /\ Begin(o, "create", p, Absent)
        /\ fn' = [fn EXCEPT ![o] = "createDatabase"]
        /\ target' = [target EXCEPT ![o] = p.owner]
        /\ GoTo(o, IF hasOwner THEN "startTransaction" ELSE "create")

StartUpdate(o) ==
    \E p \in Plans :
        /\ tracked[o] \notin {Absent, p}
        /\ Begin(o, "update", p, tracked[o])
        /\ GoTo(o, "setDBName")
        /\ UNCHANGED <<fn, target>>

StartDelete(o) ==
    /\ tracked[o] # Absent
    /\ Begin(o, "delete", tracked[o], tracked[o])
    /\ fn' = [fn EXCEPT ![o] = "deleteDatabase"]
    /\ target' = [target EXCEPT ![o] = tracked[o].owner]
    /\ GoTo(o, "startTransaction")

\* The setters of Update, in order, each skipped when it has nothing to change.
Setter(o) ==
    /\ pc[o] \in Setters
    /\ IF Wanted(o, pc[o])
         THEN /\ fn' = [fn EXCEPT ![o] = pc[o]]
              /\ target' = [target EXCEPT ![o] = plan[o].owner]
              /\ GoTo(o, CASE pc[o] = "setDBName"       -> "rename"
                           [] pc[o] = "setDBAllowConns" -> "allowConns"
                           [] pc[o] = "setDBIsTemplate" -> "isTemplate"
                           [] OTHER                     -> "startTransaction")
         ELSE GoTo(o, Following(pc[o])) /\ UNCHANGED <<fn, target>>
    /\ UNCHANGED <<pgDatabase, memberOf, locks, tracked, args, granted, err>>

-----------------------------------------------------------------------------
(* Borrowing the owner's role. *)

StartTransaction(o) ==
    /\ pc[o] = "startTransaction"
    /\ IF fn[o] = "setAlterOwnership"
         THEN UNCHANGED held
         ELSE Connection /\ held' = held \cup {o}
    /\ GoTo(o, "pgLockRole")
    /\ UNCHANGED <<pgDatabase, memberOf, lock, leaked, tracked, args, fn, target, granted, err>>

\* Faulty form: does not take the lock.
PgLockRoleFree(o) ==
    /\ pc[o] = "pgLockRole"
    /\ GoTo(o, IF fn[o] = "setAlterOwnership" THEN "getDatabaseOwner" ELSE "isMember")
    /\ UNCHANGED <<pgDatabase, memberOf, locks, tracked, args, fn, target, granted, err>>

PgLockRole(o) ==
    /\ pc[o] = "pgLockRole"
    /\ IF fn[o] = "setAlterOwnership"
         THEN UNCHANGED lock /\ GoTo(o, "getDatabaseOwner")
         ELSE lock = Nobody /\ lock' = o /\ GoTo(o, "isMember")
    /\ UNCHANGED <<pgDatabase, memberOf, held, leaked, tracked, args, fn, target, granted, err>>

\* A failure to lock returns before the rollback is deferred: the transaction
\* stays open on its connection.
PgLockRoleFails(o) ==
    /\ pc[o] = "pgLockRole" /\ "pgLockRole" \in MayFail
    /\ held' = held \ {o}
    /\ leaked' = IF o \in held THEN leaked + 1 ELSE leaked
    /\ SetErr(o, TRUE)
    /\ GoTo(o, "return")
    /\ UNCHANGED <<pgDatabase, memberOf, lock, tracked, args, fn, target, granted>>

\* setAlterOwnership borrows the role of the owner the database has now.
GetDatabaseOwner(o) ==
    /\ pc[o] = "getDatabaseOwner" /\ Connection
    /\ LET current == owner[Name(o)] IN
         IF current \in {Absent, plan[o].owner}
           THEN GoTo(o, "return") /\ SetErr(o, current = Absent) /\ UNCHANGED target
           ELSE GoTo(o, "isMember") /\ target' = [target EXCEPT ![o] = current] /\ UNCHANGED err
    /\ UNCHANGED <<pgDatabase, memberOf, locks, tracked, args, fn, granted>>

IsMember(o) ==
    /\ pc[o] = "isMember" /\ (target[o] = Admin \/ Connection)
    /\ GoTo(o, IF target[o] \in memberOf \cup {Admin} THEN FirstStatement(o) ELSE "grant")
    /\ UNCHANGED <<pgDatabase, memberOf, locks, tracked, args, fn, target, granted, err>>

Grant(o) ==
    /\ Runs(o, "grant")
    /\ memberOf' = memberOf \cup {target[o]}
    /\ granted' = [granted EXCEPT ![o] = TRUE]
    /\ GoTo(o, FirstStatement(o))
    /\ UNCHANGED <<pgDatabase, locks, tracked, args, fn, target, err>>

GrantFails(o) ==
    /\ Runs(o, "grant") /\ "grant" \in MayFail
    /\ SetErr(o, TRUE)
    /\ GoTo(o, "return")
    /\ UNCHANGED <<pgDatabase, memberOf, locks, tracked, args, fn, target, granted>>

-----------------------------------------------------------------------------
(* The statements. *)

Create(o) ==
    /\ Executes(o, "create")
    /\ owner' = [owner EXCEPT ![Name(o)] = plan[o].owner]
    /\ open' = IF plan[o].open THEN open \cup {Name(o)} ELSE open
    /\ template' = IF plan[o].template THEN template \cup {Name(o)} ELSE template
    /\ Defers(o)
    /\ UNCHANGED <<memberOf, locks, tracked, args, fn, target, granted, err>>

\* Delete: clear IS_TEMPLATE, block and terminate connections, drop.
Untemplate(o) ==
    /\ Executes(o, "untemplate")
    /\ template' = template \ {Name(o)}
    /\ GoTo(o, "block")
    /\ UNCHANGED <<owner, open, memberOf, locks, tracked, args, fn, target, granted, err>>

Block(o) ==
    /\ Executes(o, "block")
    /\ open' = open \ {Name(o)}
    /\ GoTo(o, "drop")
    /\ UNCHANGED <<owner, template, memberOf, locks, tracked, args, fn, target, granted, err>>

Drop(o) ==
    /\ Executes(o, "drop")
    /\ owner' = [owner EXCEPT ![Name(o)] = Absent]
    /\ open' = open \ {Name(o)}
    /\ Defers(o)
    /\ UNCHANGED <<template, memberOf, locks, tracked, args, fn, target, granted, err>>

AlterOwner(o) ==
    /\ Executes(o, "alterOwner")
    /\ owner' = [owner EXCEPT ![Name(o)] = plan[o].owner]
    /\ Defers(o)
    /\ UNCHANGED <<open, template, memberOf, locks, tracked, args, fn, target, granted, err>>

Reassign(o) ==
    /\ Executes(o, "reassign")
    /\ GoTo(o, "commitReassign")
    /\ UNCHANGED <<pgDatabase, memberOf, locks, tracked, args, fn, target, granted, err>>

\* REASSIGN OWNED moves what the role owns in the database the transaction is
\* connected to and, like every shared object, the databases it owns.
CommitReassign(o) ==
    /\ pc[o] = "commitReassign"
    /\ owner' = [n \in Names |-> IF owner[n] = target[o] THEN plan[o].owner ELSE owner[n]]
    /\ Defers(o)
    /\ UNCHANGED <<open, template, memberOf, locks, tracked, args, fn, target, granted, err>>

Rename(o) ==
    /\ Executes(o, "rename")
    /\ LET from == prior[o].name
           Move(names) == IF from \in names THEN (names \ {from}) \cup {Name(o)} ELSE names IN
         /\ owner' = [owner EXCEPT ![Name(o)] = owner[from], ![from] = Absent]
         /\ open' = Move(open)
         /\ template' = Move(template)
    /\ Defers(o)
    /\ UNCHANGED <<memberOf, locks, tracked, args, fn, target, granted, err>>

AllowConns(o) ==
    /\ Executes(o, "allowConns")
    /\ open' = IF plan[o].open THEN open \cup {Name(o)} ELSE open \ {Name(o)}
    /\ Defers(o)
    /\ UNCHANGED <<owner, template, memberOf, locks, tracked, args, fn, target, granted, err>>

IsTemplate(o) ==
    /\ Executes(o, "isTemplate")
    /\ template' = IF plan[o].template THEN template \cup {Name(o)} ELSE template \ {Name(o)}
    /\ Defers(o)
    /\ UNCHANGED <<owner, open, memberOf, locks, tracked, args, fn, target, granted, err>>

\* Faulty form: an error returns before the revoke is deferred.
StatementFailsKeepsRole(o) ==
    \E statement \in Statements \ {"pgLockRole", "grant", "revoke"} :
        /\ Runs(o, statement)
        /\ statement \in MayFail \/ ~Allowed(o, statement)
        /\ SetErr(o, TRUE)
        /\ GoTo(o, "return")
        /\ UNCHANGED <<pgDatabase, memberOf, locks, tracked, args, fn, target, granted>>

\* The server refuses the statement, or it fails for another reason.
StatementFails(o) ==
    \E statement \in Statements \ {"pgLockRole", "grant", "revoke"} :
        /\ Runs(o, statement)
        /\ statement \in MayFail \/ ~Allowed(o, statement)
        /\ SetErr(o, TRUE)
        /\ Defers(o)
        /\ UNCHANGED <<pgDatabase, memberOf, locks, tracked, args, fn, target, granted>>

-----------------------------------------------------------------------------
(* Returning. *)

\* The deferred revokeRoleMembership: its result replaces err, whatever err was.
IsStillMember(o) ==
    /\ pc[o] = "isStillMember" /\ Connection
    /\ IF target[o] \in memberOf
         THEN GoTo(o, "revoke") /\ UNCHANGED err
         ELSE GoTo(o, "return") /\ SetErr(o, FALSE)
    /\ UNCHANGED <<pgDatabase, memberOf, locks, tracked, args, fn, target, granted>>

Revoke(o) ==
    /\ Runs(o, "revoke")
    /\ memberOf' = memberOf \ {target[o]}
    /\ SetErr(o, FALSE)
    /\ GoTo(o, "return")
    /\ UNCHANGED <<pgDatabase, locks, tracked, args, fn, target, granted>>

RevokeFails(o) ==
    /\ Runs(o, "revoke") /\ "revoke" \in MayFail
    /\ SetErr(o, TRUE)
    /\ GoTo(o, "return")
    /\ UNCHANGED <<pgDatabase, memberOf, locks, tracked, args, fn, target, granted>>

\* Faulty form: leaves the lock transaction open.
ReturnLocked(o) ==
    /\ pc[o] = "return"
    /\ granted' = [granted EXCEPT ![o] = FALSE]
    /\ SetErr(o, FALSE)
    /\ GoTo(o, IF err[o] THEN "idle" ELSE Following(fn[o]))
    /\ tracked' = IF fn[o] = "deleteDatabase" /\ ~err[o]
                    THEN [tracked EXCEPT ![o] = Absent] ELSE tracked
    /\ UNCHANGED <<pgDatabase, memberOf, locks, args, fn, target>>

\* The deferred rollback of the lock transaction; then an error ends the
\* operation, which keeps the state it started from.
Return(o) ==
    /\ pc[o] = "return"
    /\ held' = held \ {o}
    /\ lock' = IF lock = o THEN Nobody ELSE lock
    /\ granted' = [granted EXCEPT ![o] = FALSE]
    /\ SetErr(o, FALSE)
    /\ GoTo(o, IF err[o] THEN "idle" ELSE Following(fn[o]))
    /\ tracked' = IF fn[o] = "deleteDatabase" /\ ~err[o]
                    THEN [tracked EXCEPT ![o] = Absent] ELSE tracked
    /\ UNCHANGED <<pgDatabase, memberOf, leaked, args, fn, target>>

\* readDatabaseInto: what the server has under the plan's name.
ReadInto(o, wanted) ==
    tracked' = [tracked EXCEPT ![o] =
        IF owner[wanted.name] = Absent THEN Absent
        ELSE [name |-> wanted.name, owner |-> owner[wanted.name], open |-> wanted.name \in open,
              template |-> wanted.name \in template, alter |-> wanted.alter]]

\* Create and Update end with it.
Read(o) ==
    /\ pc[o] = "read" /\ Connection
    /\ ReadInto(o, plan[o])
    /\ GoTo(o, "idle")
    /\ UNCHANGED <<pgDatabase, memberOf, locks, args, fn, target, granted, err>>

\* A resource's Read, before every plan.
Refresh(o) ==
    /\ pc[o] = "idle" /\ tracked[o] # Absent /\ Connection
    /\ ReadInto(o, tracked[o])
    /\ UNCHANGED <<pgDatabase, memberOf, locks, args, pc, fn, target, granted, err>>

-----------------------------------------------------------------------------

Step(o) ==
    \/ Setter(o)
    \/ StartTransaction(o) \/ PgLockRole(o) \/ PgLockRoleFails(o)
    \/ GetDatabaseOwner(o) \/ IsMember(o) \/ Grant(o) \/ GrantFails(o)
    \/ Create(o) \/ Untemplate(o) \/ Block(o) \/ Drop(o)
    \/ AlterOwner(o) \/ Reassign(o) \/ CommitReassign(o)
    \/ Rename(o) \/ AllowConns(o) \/ IsTemplate(o) \/ StatementFails(o)
    \/ IsStillMember(o) \/ Revoke(o) \/ RevokeFails(o) \/ Return(o) \/ Read(o)

Done == (\A o \in Resources : pc[o] = "idle") /\ UNCHANGED vars

Next ==
    \/ \E o \in Resources :
        StartCreate(o) \/ StartUpdate(o) \/ StartDelete(o) \/ Step(o) \/ Refresh(o)
    \/ Done

Spec == Init /\ [][Next]_vars

\* Every goroutine runs, and statements and lock requests are served.
FairSpec == Spec /\ \A o \in Resources : WF_vars(Step(o))

-----------------------------------------------------------------------------
(* Properties. *)

\* As long as no REVOKE fails: the user's own memberships stay, and any other is
\* one that an operation borrows and has still to give back.
OnlyBorrowed ==
    "revoke" \notin MayFail =>
        /\ InitialRoles \subseteq memberOf
        /\ \A r \in memberOf \ InitialRoles :
             \E o \in Resources : granted[o] /\ target[o] = r /\ pc[o] # "return"

\* No plan asks for the ownership of objects to follow the owner.
NoReassignment == \A p \in Plans : ~p.alter

\* What resource_database_fw.go:228-229 takes the lock for: while the statements
\* that need the owner's role run, the user is a member of it.  The functions of
\* alter_object_ownership lock elsewhere.
OwnerHeld ==
    "revoke" \notin MayFail /\ NoReassignment =>
        \A o \in Resources :
            pc[o] \in {"create", "untemplate", "block", "drop", "alterOwner"} =>
                Entitled(target[o])

\* Every operation that starts returns.
OperationsReturn == \A o \in Resources : pc[o] # "idle" ~> pc[o] = "idle"
=============================================================================
