---------------------------- MODULE GrantResource ----------------------------
(***************************************************************************)
(* postgresql_grant (src/postgresql/resource_grant_fw.go), with what it    *)
(* shares with postgresql_default_privileges: Create, Read, Update and     *)
(* Delete as the transactions and statements they send, against the        *)
(* server's privileges, its row locks and its advisory locks.              *)
(*                                                                         *)
(* Terraform is run again and again: a run reads every resource that is in *)
(* the state, then applies what is planned for each, in parallel.  Users   *)
(* edit the configuration between runs, and somebody else grants, revokes  *)
(* and creates tables at any time, a bounded number of times.              *)
(*                                                                         *)
(* The callback runs inside withRolesGranted, which RolesGranted models:   *)
(* here it holds the roles it needs.                                       *)
(***************************************************************************)
EXTENDS Naturals, FiniteSets

CONSTANTS Resources,      \* the resources of the configuration
          Roles,          \* who is granted privileges, and who is a member of it
          Public,         \* the grantee that is no role
          Members,        \* the roles that are members of a role
          Database,       \* the database; its lock is one of the keys
          Objects,        \* tables, columns, functions and the like
          TypeOf,         \* what an object is
          TableOf,        \* the table of a column
          Later,          \* the objects that are created later, if at all
          Privileges,     \* what can be granted on each of them
          Targets,        \* what the resources may be about
          Configs,        \* the privileges a user may ask for
          MaxEdits, MaxDrifts, MaxFailures,
          Absent,         \* not configured; not in the state
          Nobody

VARIABLES acl,            \* committed privileges: <<object, grantee, privilege>>
          present,        \* the objects that exist
          dirty,          \* the rows each open transaction has written
          mine,           \* what they say to it
          holder,         \* advisory locks
          target, config, \* the configuration of each resource
          state,          \* Terraform's state
          op, fn, pc,     \* the operation of each resource, its part and next statement
          edits, drifts, failures

server == <<acl, present, dirty, mine>>
inputs == <<target, config, edits, drifts, failures>>
vars == <<server, holder, inputs, state, op, fn, pc>>

All == "ALL"
Grantees == Roles \cup {Public}
Keys == Roles \cup {Database}
Types == {"table", "function", "database", "schema", "column", "default"}

\* What a resource is about: changing any of it replaces the resource.  No
\* objects means all of the type; those of a column grant are the columns.  The
\* owner is that of the default privileges.
Target == [type : Types, role : Grantees, owner : Roles, objects : SUBSET Objects]

\* A resource in the state.
Instance == [privileges : SUBSET (Privileges \cup {All}), objects : SUBSET Objects,
             tainted : BOOLEAN]

PC == {"idle", "plan", "lock", "revoke", "grant", "commit", "read", "over"}

ASSUME GrantAssumption ==
    /\ Public \notin Roles /\ Database \notin Roles
    /\ Nobody \notin Resources
    /\ Members \in [Roles -> SUBSET Roles]
    /\ Later \subseteq Objects
    /\ Targets \subseteq [Resources -> Target]
    /\ \A f \in Targets, r \in Resources : f[r].objects \cap Later = {}
    /\ Configs \subseteq SUBSET (Privileges \cup {All})
    /\ {MaxEdits, MaxDrifts, MaxFailures} \subseteq Nat

TypeOK ==
    /\ acl \subseteq Objects \X Grantees \X Privileges
    /\ present \subseteq Objects
    /\ dirty \in [Resources -> SUBSET Objects]
    /\ mine \in [Resources -> SUBSET (Objects \X Grantees \X Privileges)]
    /\ holder \in [Keys -> Resources \cup {Nobody}]
    /\ target \in [Resources -> Target]
    /\ DOMAIN config = Resources
    /\ \A r \in Resources : config[r] = Absent \/ config[r] \subseteq Privileges \cup {All}
    /\ state \in [Resources -> Instance \cup {Absent}]
    /\ op \in [Resources -> {"refresh", "create", "update", "delete"}]
    /\ fn \in [Resources -> {"apply", "read"}]
    /\ pc \in [Resources -> PC]
    /\ {edits, drifts, failures} \subseteq Nat

-----------------------------------------------------------------------------
(* The parameters of the statements. *)

\* ALL stands for every privilege of the type.
Expand(privs) == IF All \in privs THEN Privileges ELSE privs

PrivilegesEqual(granted, wanted) ==
    granted = wanted \/ (All \in wanted /\ granted = Privileges)

\* createOrUpdate refuses a column grant of several privileges.
Valid(r, privs) == target[r].type = "column" => Cardinality(privs) = 1

\* What a statement on all objects of a type reaches in the server, and what
\* the query that reads the privileges back does.
Reaches(type) == CASE type = "table" -> {"table", "view"} [] OTHER -> {type}

ReadsTypes(type) ==
    CASE type = "function" -> {"function", "procedure"} [] OTHER -> {type}

Granted(r) ==
    IF target[r].objects # {} THEN target[r].objects
    ELSE {o \in present : TypeOf[o] \in Reaches(target[r].type)}

\* A Delete goes by the columns that were last read.
Revoked(r) ==
    IF target[r].type = "column" /\ op[r] = "delete" THEN state[r].objects ELSE Granted(r)

ReadObjects(r) ==
    {o \in present : /\ TypeOf[o] \in ReadsTypes(target[r].type)
                     /\ target[r].objects # {} => o \in target[r].objects}

\* Faulty form: an Update revokes the privileges it is going to grant.
RevokeArgumentNew(r) == IF op[r] = "delete" THEN state[r].privileges ELSE config[r]

\* The privileges an Update revokes are those in the state.
RevokeArgument(r) == IF op[r] = "create" THEN config[r] ELSE state[r].privileges

\* REVOKE ALL, except from columns and, when there are privileges to name, from
\* tables and functions that are named.
RevokedPrivileges(r) ==
    IF \/ target[r].type = "column"
       \/ /\ target[r].type \in {"table", "function"}
          /\ target[r].objects # {}
          /\ RevokeArgument(r) # {}
      THEN Expand(RevokeArgument(r))
      ELSE Privileges

\* The server revokes from a table's columns what it revokes from the table.
WithColumns(S) == S \cup {c \in Objects : TypeOf[c] = "column" /\ TableOf[c] \in S}

RevokedRows(r) == WithColumns(Revoked(r))

-----------------------------------------------------------------------------
(* The server's side. *)

View(r) == {t \in acl : t[1] \notin dirty[r]} \cup mine[r]

PrivilegesOf(rows, o, grantee) == {p \in Privileges : <<o, grantee, p>> \in rows}

\* The rows of the next statement; it waits for transactions that wrote them.
\* Whether it then succeeds or fails ("tuple concurrently updated") is open.
Touches(r) ==
    CASE pc[r] = "revoke" -> RevokedRows(r) [] pc[r] = "grant" -> Granted(r) [] OTHER -> {}

RowHolders(r) == {q \in Resources \ {r} : dirty[q] \cap Touches(r) # {}}

Write(r, rows) ==
    /\ RowHolders(r) = {}
    /\ dirty' = [dirty EXCEPT ![r] = @ \cup Touches(r)]
    /\ mine' = [mine EXCEPT ![r] = {t \in rows : t[1] \in dirty[r] \cup Touches(r)}]
    /\ UNCHANGED <<acl, present>>

EndTransaction(r) ==
    /\ dirty' = [dirty EXCEPT ![r] = {}]
    /\ mine' = [mine EXCEPT ![r] = {}]
    /\ holder' = [k \in Keys |-> IF holder[k] = r THEN Nobody ELSE holder[k]]
    /\ UNCHANGED present

-----------------------------------------------------------------------------
(* Advisory locks: the role's, its members', the database's. *)

\* There is no pg_roles row, and so no lock, for public.
RoleKeys(r) ==
    {IF target[r].type = "default" THEN target[r].owner ELSE target[r].role} \ {Public}

MemberKeys(r) == UNION {Members[x] : x \in RoleKeys(r)}

DatabaseKeys(r) ==
    IF target[r].type = "database" /\ fn[r] = "apply" THEN {Database} ELSE {}

\* Faulty form: goes on without the database's lock.
LockKeysOfRole(r) == RoleKeys(r) \cup MemberKeys(r)

LockKeys(r) == RoleKeys(r) \cup MemberKeys(r) \cup DatabaseKeys(r)

\* The keys the transaction asks for next: one statement locks the role, the
\* next its members, in any order, the last the database.
Locking(r) ==
    LET left(keys) == {k \in keys : holder[k] # r}
    IN  IF pc[r] # "lock" THEN {}
        ELSE IF left(RoleKeys(r)) # {} THEN left(RoleKeys(r))
        ELSE IF left(MemberKeys(r)) # {} THEN left(MemberKeys(r))
        ELSE left(DatabaseKeys(r))

GoTo(r, next) == pc' = [pc EXCEPT ![r] = next]

\* What an operation does once it has its locks.
First(part) == IF part = "read" THEN "read" ELSE "revoke"

TakeLock(r) ==
    \E k \in Locking(r) :
        /\ holder[k] = Nobody
        /\ holder' = [holder EXCEPT ![k] = r]
        /\ GoTo(r, IF \A l \in LockKeys(r) : holder'[l] = r THEN First(fn[r]) ELSE "lock")
        /\ UNCHANGED <<server, inputs, state, op, fn>>

-----------------------------------------------------------------------------
(* Terraform's run. *)

Init ==
    /\ target \in Targets
    /\ acl = {} /\ present = Objects \ Later
    /\ dirty = [r \in Resources |-> {}] /\ mine = [r \in Resources |-> {}]
    /\ holder = [k \in Keys |-> Nobody]
    /\ config \in [Resources -> Configs] /\ \A r \in Resources : Valid(r, config[r])
    /\ state = [r \in Resources |-> Absent]
    /\ op = [r \in Resources |-> "refresh"] /\ fn = [r \in Resources |-> "read"]
    /\ pc = [r \in Resources |-> "idle"]
    /\ edits = 0 /\ drifts = 0 /\ failures = 0

\* startTransaction, for the statements of an operation or for reading: a read
\* takes no lock, except for default privileges, nor does what is public's.
Begin(r, part) ==
    /\ fn' = [fn EXCEPT ![r] = part]
    /\ GoTo(r, IF \/ part = "read" /\ target[r].type # "default"
                  \/ RoleKeys(r) = {} /\ target[r].type # "database"
                 THEN First(part) ELSE "lock")

\* The resource is done with; the run ends with the last, and the next begins.
Return(r) ==
    /\ op' = [op EXCEPT ![r] = "refresh"]
    /\ fn' = [fn EXCEPT ![r] = "read"]
    /\ IF \A q \in Resources \ {r} : pc[q] = "over"
         THEN pc' = [q \in Resources |-> "idle"]
         ELSE GoTo(r, "over")

\* A resource that is in the state is read before it is planned.
Refresh(r) ==
    /\ pc[r] = "idle"
    /\ IF state[r] = Absent THEN GoTo(r, "plan") /\ UNCHANGED fn ELSE Begin(r, "read")
    /\ UNCHANGED <<server, holder, inputs, state, op>>

\* What Terraform has to do for a resource, if anything.
Planned(r) ==
    IF state[r] = Absent THEN {o \in {"create"} : config[r] # Absent}
    ELSE IF \/ config[r] = Absent \/ state[r].tainted
            \/ state[r].objects # target[r].objects THEN {"delete"}
    ELSE {o \in {"update"} : state[r].privileges # config[r]}

\* Nothing is applied before all resources have been read.
Plan(r) ==
    /\ pc[r] = "plan"
    /\ \A q \in Resources : op[q] = "refresh" => pc[q] \in {"plan", "over"}
    /\ \/ Planned(r) = {} /\ Return(r)
       \/ /\ op' \in {[op EXCEPT ![r] = o] : o \in Planned(r)}
          /\ Begin(r, "apply")
    /\ UNCHANGED <<server, holder, inputs, state>>

-----------------------------------------------------------------------------
(* The statements. *)

\* Faulty form: revokes outside the transaction.
RevokeAtOnce(r) ==
    /\ pc[r] = "revoke" /\ RowHolders(r) = {}
    /\ acl' = acl \ (RevokedRows(r) \X {target[r].role} \X RevokedPrivileges(r))
    /\ GoTo(r, IF op[r] = "delete" \/ config[r] = {} THEN "commit" ELSE "grant")
    /\ UNCHANGED <<present, dirty, mine, holder, inputs, state, op, fn>>

Revoke(r) ==
    /\ pc[r] = "revoke"
    /\ Write(r, View(r) \ (RevokedRows(r) \X {target[r].role} \X RevokedPrivileges(r)))
    /\ GoTo(r, IF op[r] = "delete" \/ config[r] = {} THEN "commit" ELSE "grant")
    /\ UNCHANGED <<holder, inputs, state, op, fn>>

Grant(r) ==
    /\ pc[r] = "grant"
    /\ Write(r, View(r) \cup (Granted(r) \X {target[r].role} \X Expand(config[r])))
    /\ GoTo(r, "commit")
    /\ UNCHANGED <<holder, inputs, state, op, fn>>

\* A Delete is over, and a replaced resource is created next; anything else is
\* read back in a second transaction.
Commit(r) ==
    /\ pc[r] = "commit"
    /\ acl' = View(r)
    /\ EndTransaction(r)
    /\ IF op[r] = "delete"
         THEN /\ state' = [state EXCEPT ![r] = Absent]
              /\ GoTo(r, "plan") /\ UNCHANGED fn
         ELSE Begin(r, "read") /\ UNCHANGED state
    /\ UNCHANGED <<inputs, op>>

\* The privileges that are compared: a refresh has those in the state.
Expected(r) == IF op[r] = "refresh" THEN state[r].privileges ELSE config[r]

\* What the query says of the privileges: of several objects that have not the
\* expected ones, the first row, whichever that is.
ReadPrivileges(r) ==
    LET granted == [o \in ReadObjects(r) |-> PrivilegesOf(acl, o, target[r].role)]
        differ  == {o \in ReadObjects(r) : ~PrivilegesEqual(granted[o], Expected(r))}
    IN  IF differ = {} \/ target[r].type = "column" THEN {Expected(r)}
        ELSE {granted[o] : o \in differ}

\* The columns on which a column grant is still found: there is no pg_roles row
\* for public, and ALL is the name of no privilege.
ReadColumns(r) ==
    IF target[r].type # "column" THEN target[r].objects
    ELSE {c \in IF op[r] = "refresh" THEN state[r].objects ELSE target[r].objects :
             /\ target[r].role # Public
             /\ Expected(r) \subseteq PrivilegesOf(acl, c, target[r].role)}

\* readDefaultPrivileges takes a role without privileges for a missing resource.
Gone(r, found) == target[r].type = "default" /\ found = {} /\ Expected(r) # {}

\* An Update then leaves the state as it was.  Terraform keeps a Create whose
\* result is not what was planned, as tainted.
Read(r) ==
    /\ pc[r] = "read"
    /\ \E found \in ReadPrivileges(r) :
         state' = [state EXCEPT ![r] =
             IF Gone(r, found) THEN IF op[r] = "update" THEN @ ELSE Absent
             ELSE [privileges |-> found, objects |-> ReadColumns(r),
                   tainted |-> CASE op[r] = "refresh" -> state[r].tainted
                                 [] op[r] = "create" -> \/ found # config[r]
                                                       \/ ReadColumns(r) # target[r].objects
                                 [] OTHER -> FALSE]]
    /\ EndTransaction(r)
    /\ IF op[r] = "refresh" THEN GoTo(r, "plan") /\ UNCHANGED <<op, fn>> ELSE Return(r)
    /\ UNCHANGED <<acl, inputs>>

\* An error returns through deferredRollback; Terraform keeps what it had.
Fail(r) ==
    /\ EndTransaction(r)
    /\ Return(r)
    /\ UNCHANGED <<acl, target, config, edits, drifts, state>>

StatementFails(r) ==
    /\ pc[r] \notin {"idle", "plan", "over"}
    /\ failures < MaxFailures /\ failures' = failures + 1
    /\ Fail(r)

-----------------------------------------------------------------------------
(* Deadlocks, which the server ends. *)

WaitsFor(r) ==
    RowHolders(r) \cup ({holder[k] : k \in Locking(r)} \ {Nobody})

Deadlocked(r) ==
    /\ RowHolders(r) # {} \/ (Locking(r) # {} /\ \A k \in Locking(r) : holder[k] # Nobody)
    /\ \A S \in SUBSET Resources :
          (WaitsFor(r) \subseteq S /\ \A q \in S : WaitsFor(q) \subseteq S) => r \in S

DeadlockError(r) == Deadlocked(r) /\ Fail(r) /\ UNCHANGED failures

-----------------------------------------------------------------------------
(* Users and others. *)

Edit(r) ==
    /\ edits < MaxEdits /\ edits' = edits + 1
    /\ \A q \in Resources : pc[q] = "idle"
    /\ \E c \in Configs \cup {Absent} :
          /\ c # config[r] /\ (c # Absent => Valid(r, c))
          /\ config' = [config EXCEPT ![r] = c]
    /\ UNCHANGED <<server, holder, target, drifts, failures, state, op, fn, pc>>

\* Somebody else grants or revokes; CREATE TABLE comes without privileges.
Drift ==
    /\ drifts < MaxDrifts /\ drifts' = drifts + 1
    /\ \/ \E r \in Resources, p \in Privileges : \E o \in Granted(r) :
            LET role == target[r].role IN
            /\ \A q \in Resources : WithColumns({o}) \cap dirty[q] = {}
            /\ acl' = IF <<o, role, p>> \in acl THEN acl \ (WithColumns({o}) \X {role} \X {p})
                                            ELSE acl \cup {<<o, role, p>>}
            /\ UNCHANGED present
       \/ \E o \in Later \ present :
            /\ present' = present \cup {o}
            /\ UNCHANGED acl
    /\ UNCHANGED <<dirty, mine, holder, target, config, edits, failures, state, op, fn, pc>>

Step(r) ==
    \/ Refresh(r) \/ Plan(r) \/ TakeLock(r)
    \/ Revoke(r) \/ Grant(r) \/ Commit(r) \/ Read(r)

Next ==
    \/ \E r \in Resources : Step(r) \/ StatementFails(r) \/ DeadlockError(r) \/ Edit(r)
    \/ Drift

Spec == Init /\ [][Next]_vars

\* Terraform is run again and again, and the server executes what nothing blocks
\* and ends deadlocks.
FairSpec ==
    Spec /\ \A r \in Resources : WF_vars(Step(r)) /\ WF_vars(DeadlockError(r))

-----------------------------------------------------------------------------
(* Properties. *)

InUpdate(r) == op[r] = "update" /\ pc[r] \in {"revoke", "grant", "commit"}

\* "the role will not lose its privileges between the revoke and grant"
\* (resource_grant_fw.go:302-304): while an update is under way, no step of the
\* provider, its own or another resource's, takes away a privilege that is
\* configured and was granted.
NoPrivilegeGap ==
    [][drifts' = drifts =>
         \A t \in acl \ acl', r \in Resources :
            InUpdate(r) /\ t[1] \in Granted(r) /\ t[2] = target[r].role =>
                t[3] \notin Expand(config[r])]_vars

\* The locks do what they are for, "to avoid concurrent updates"
\* (helpers.go:520, 542): of two resources of one role, or two of the database,
\* none comes to write a row that the other has written and not committed, which
\* would fail one of them.
NoConcurrentUpdates ==
    \A r, q \in Resources :
        /\ r # q
        /\ \/ RoleKeys(r) \cap RoleKeys(q) # {}
           \/ target[r].type = "database" /\ target[q].type = "database"
        => q \notin RowHolders(r)

\* What Terraform is run for: the state says what is configured, and every
\* object of the resource has exactly that (a column, at least that).
Converged(r) ==
    config[r] # Absent =>
        /\ state[r] # Absent /\ state[r].privileges = config[r]
        /\ \A o \in Granted(r) :
              LET granted == PrivilegesOf(acl, o, target[r].role)
              IN  /\ Expand(config[r]) \subseteq granted
                  /\ target[r].type # "column" => granted \subseteq Expand(config[r])

\* Once nobody interferes, running Terraform again and again ends converged,
\* whatever had become of the privileges: Read says so "when the live state
\* drifts from the configured value" (resource_grant_fw.go:476-478), and Update
\* revokes what Read reported.  Excepted is a column grant that never finds
\* itself.  It does not hold of a resource that names several objects: Read
\* compares each with what the last Read has found, and reports one; nor where
\* there are views, which Read does not look at, or procedures, which a grant on
\* functions does not reach.
Unfindable(r) ==
    /\ target[r].type = "column" /\ config[r] # Absent
    /\ All \in config[r] \/ target[r].role = Public

Converges == \A r \in Resources : <>[](Unfindable(r) \/ Converged(r))
=============================================================================
