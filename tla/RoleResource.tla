---------------------------- MODULE RoleResource ----------------------------
(***************************************************************************)
(* postgresql_role (src/postgresql/resource_role_fw.go): Create, Read,     *)
(* Update and Delete, several roles at a time, and the postgresql_grant_   *)
(* role beside them.  Terraform is run again and again, as in              *)
(* GrantResource: what is in the state is read, then what is planned is    *)
(* applied in parallel.                                                    *)
(*                                                                         *)
(* A role in the server is identified by the resource that created it,     *)
(* which stands for its oid: names change.  Its attributes are abstracted  *)
(* to those that do not have their default: "attribute" stands for the     *)
(* booleans, the connection limit and valid_until, "timeout" for the two   *)
(* timeouts and assume_role.                                               *)
(*                                                                         *)
(* Not here: skip_drop_role, and a reading that fails after a commit, both *)
(* of which leave a role behind that no resource knows; what Delete does   *)
(* to the objects of the role, inside withRolesGranted (RolesGranted).     *)
(***************************************************************************)
EXTENDS Naturals, FiniteSets

CONSTANTS Resources,      \* the role resources
          Names,          \* the names their roles may have
          Passwords,
          Scenarios,      \* what a user may configure, and the server
          MaxEdits, MaxDrifts, MaxFailures,
          Absent,         \* not configured; not in the state; not in the server
          Untouched, Nobody

VARIABLES roles,          \* pg_authid, committed
          members,        \* pg_auth_members, committed: the level of each pair
          mine, own,      \* what each open transaction has written to them
          holder,         \* advisory locks
          scenario, config,
          state,          \* Terraform's state of the roles
          granted,        \* and of the grant_roles
          op, pc,         \* the operation of each resource and its next statement
          todo,           \* the names it has still to revoke or to grant
          edits, drifts, failures

server == <<roles, members, mine, own>>
inputs == <<scenario, config, edits, drifts, failures>>
vars == <<server, holder, inputs, state, granted, op, pc, todo>>

Options == {"attribute", "search_path", "timeout"}
Pairs == Resources \X Resources     \* <<group, member>>
Level == {"none", "member", "admin"}

NoPassword == "no password"
OtherHash == "the hash of another password"

\* Of the write-only password the state has the version, which users change
\* with the password, as they are told to (role.html.markdown:57-61).  What is
\* read may be the hash of a password that nobody configured.
Password == [kind : {"null", "password", "password_wo"},
             value : Passwords \cup {NoPassword, OtherHash}]
ConfiguredPassword ==
    {w \in Password : w.value # OtherHash /\ (w.kind = "null" => w.value = NoPassword)}

Row == [name : Names, options : SUBSET Options, password : Passwords \cup {NoPassword}]

\* roles: the resources whose names, when they are configured, the list has.
Config == [name : Names, roles : SUBSET Resources, options : SUBSET Options,
           password : ConfiguredPassword]

Instance == [name : Names, roles : SUBSET Names, options : SUBSET Options,
             password : Password, tainted : BOOLEAN]

GrantRole == [group : Resources, member : Resources, level : Level \ {"none"}]

\* What users configure, and where: the roles of a grant_role keep their names.
\* md5: how the server stores passwords, else as SCRAM; reads: the provider's
\* user can read them and the roles log in; ignoring: the resources with
\* ignore_changes = [roles]; ordered: the grant_roles refer to the resources, so
\* that Terraform applies them after the roles.
Scenario == [configs : [Resources -> SUBSET (Config \cup {Absent})],
             ignoring : SUBSET Resources,
             grantRoles : SUBSET GrantRole, ordered : BOOLEAN,
             md5 : BOOLEAN, reads : BOOLEAN]

ASSUME RoleAssumption ==
    /\ Scenarios \subseteq Scenario
    /\ Absent \notin Config \cup Row \cup Instance
    /\ Untouched \notin Row \cup {Absent} \cup Level
    /\ Nobody \notin Resources /\ \A r \in Resources : r \notin GrantRole
    /\ NoPassword \notin Passwords /\ OtherHash \notin Passwords
    /\ {MaxEdits, MaxDrifts, MaxFailures} \subseteq Nat

PC == {"idle", "plan", "create", "lock", "members", "lockMembers", "rename", "alter",
       "list", "revoke", "grant", "drop", "commit", "read", "delete", "over"}

Participants == Resources \cup scenario.grantRoles

TypeOK ==
    /\ roles \in [Resources -> Row \cup {Absent}]
    /\ members \in [Pairs -> Level]
    /\ mine \in [Resources -> [Resources -> Row \cup {Absent, Untouched}]]
    /\ own \in [Resources -> [Pairs -> Level \cup {Untouched}]]
    /\ holder \in [Resources -> Resources \cup {Nobody}]
    /\ scenario \in Scenario
    /\ config \in [Resources -> Config \cup {Absent}]
    /\ state \in [Resources -> Instance \cup {Absent}]
    /\ granted \in [scenario.grantRoles -> Level]
    /\ op \in [Resources -> {"refresh", "create", "update", "delete"}]
    /\ pc \in [Participants -> PC]
    /\ todo \in [Resources -> SUBSET (Names \cup Resources)]
    /\ {edits, drifts, failures} \subseteq Nat

-----------------------------------------------------------------------------
(* The server: transactions see what is committed and what they wrote. *)

View(r) == [o \in Resources |-> IF mine[r][o] = Untouched THEN roles[o] ELSE mine[r][o]]

Sees(r, p) == IF own[r][p] = Untouched THEN members[p] ELSE own[r][p]

Named(rows, n) == {o \in Resources : rows[o] # Absent /\ rows[o].name = n}

NoRows == [o \in Resources |-> Untouched]
NoPairs == [p \in Pairs |-> Untouched]

PairsOf(o) == {p \in Pairs : p[1] = o \/ p[2] = o}

\* The open transactions that have written a row, that have dropped a role, and
\* that take or give up a name: others wait for them.
RowHolders(r, p) == {q \in Resources \ {r} : own[q][p] # Untouched}
DropHolders(r, o) == {q \in Resources \ {r} : mine[q][o] = Absent}

NameHolders(r, n) ==
    {q \in Resources \ {r} : \E o \in Resources :
        mine[q][o] # Untouched /\ o \in Named(roles, n) \cup Named(View(q), n)}

EndTransaction(r) ==
    /\ mine' = [mine EXCEPT ![r] = NoRows]
    /\ own' = [own EXCEPT ![r] = NoPairs]
    /\ holder' = [o \in Resources |-> IF holder[o] = r THEN Nobody ELSE holder[o]]
    /\ todo' = [todo EXCEPT ![r] = {}]

-----------------------------------------------------------------------------
(* What an operation works with. *)

\* The plan.  Roles that are ignored are planned as they are in the state.
PlannedRoles(r) ==
    IF r \in scenario.ignoring /\ state[r] # Absent THEN state[r].roles
    ELSE {config[q].name : q \in config[r].roles}

Planned(r) == [name |-> config[r].name, roles |-> PlannedRoles(r),
               options |-> config[r].options, password |-> config[r].password]

Recorded(inst) == [name |-> inst.name, roles |-> inst.roles,
                   options |-> inst.options, password |-> inst.password]

\* The name the next statement uses, and the role it finds.
Subject(r) ==
    IF op[r] \in {"refresh", "delete"} \/ pc[r] \in {"lock", "members", "lockMembers", "rename"}
      THEN state[r].name ELSE config[r].name

Found(r) == Named(View(r), Subject(r))

\* Whether plan and state differ in an option.
Differs(r, option) == (option \in config[r].options) # (option \in state[r].options)

\* The options with one of them as it is planned.
With(options, r, option) == (options \ {option}) \cup (config[r].options \cap {option})

\* The password attribute as a string: "" when it is null.
Text(password) == IF password.kind = "password" THEN password.value ELSE NoPassword

\* Faulty form: a new name is not looked at.
SetsPasswordIfNew(r) ==
    CASE config[r].password.kind = "password_wo" -> config[r].password # state[r].password
      [] config[r].password.kind = "password" -> Text(config[r].password) # Text(state[r].password)
      [] OTHER -> FALSE

\* roleFwSetRolePassword: a write-only password when its version is new, a
\* password when it or the name is; nothing when there is no password any more.
SetsPassword(r) ==
    CASE config[r].password.kind = "password_wo" -> config[r].password # state[r].password
      [] config[r].password.kind = "password" ->
            \/ Text(config[r].password) # Text(state[r].password)
            \/ config[r].name # state[r].name
      [] OTHER -> FALSE

\* roleFwReadRolePassword: another password than the one in the state is told
\* from it when it is md5, and is then its hash.
ReadPassword(row, password) ==
    IF ~scenario.reads \/ Text(password) = NoPassword THEN password
    ELSE [password EXCEPT !.value =
            CASE row.password = NoPassword -> NoPassword
              [] scenario.md5 /\ row.password # @ -> OtherHash
              [] OTHER -> @]

-----------------------------------------------------------------------------
(* Terraform's run. *)

GoTo(x, next) == pc' = [pc EXCEPT ![x] = next]

\* The run ends with the last, and the next begins.
Over(x) ==
    IF \A y \in Participants \ {x} : pc[y] = "over"
      THEN pc' = [y \in Participants |-> "idle"]
      ELSE GoTo(x, "over")

Return(r) == op' = [op EXCEPT ![r] = "refresh"] /\ Over(r)

\* The names of a configuration are unique, and its roles are configured.
Configurations ==
    {conf \in [Resources -> UNION {scenario.configs[r] : r \in Resources}] :
        \A r \in Resources :
            /\ conf[r] \in scenario.configs[r]
            /\ conf[r] # Absent =>
                  /\ \A q \in conf[r].roles : conf[q] # Absent
                  /\ \A q \in Resources \ {r} : conf[q] # Absent => conf[q].name # conf[r].name}

Init ==
    /\ roles = [o \in Resources |-> Absent]
    /\ members = [p \in Pairs |-> "none"]
    /\ mine = [r \in Resources |-> NoRows] /\ own = [r \in Resources |-> NoPairs]
    /\ holder = [o \in Resources |-> Nobody]
    /\ scenario \in Scenarios
    /\ config \in Configurations
    /\ state = [r \in Resources |-> Absent]
    /\ granted = [g \in scenario.grantRoles |-> "none"]
    /\ op = [r \in Resources |-> "refresh"]
    /\ pc = [x \in Participants |-> "idle"]
    /\ todo = [r \in Resources |-> {}]
    /\ edits = 0 /\ drifts = 0 /\ failures = 0

Refresh(r) ==
    /\ pc[r] = "idle"
    /\ GoTo(r, IF state[r] = Absent THEN "plan" ELSE "read")
    /\ UNCHANGED <<server, holder, inputs, state, granted, op, todo>>

\* Nothing is applied before all have been read.
AllRead ==
    /\ \A r \in Resources : op[r] = "refresh" => pc[r] \in {"plan", "over"}
    /\ \A g \in scenario.grantRoles : pc[g] # "idle"

\* What Terraform has to do, if anything.
Wanted(r) ==
    IF state[r] = Absent THEN {o \in {"create"} : config[r] # Absent}
    ELSE IF config[r] = Absent \/ state[r].tainted THEN {"delete"}
    ELSE {o \in {"update"} : Recorded(state[r]) # Planned(r)}

Plan(r) ==
    /\ pc[r] = "plan" /\ AllRead
    /\ \/ Wanted(r) = {} /\ Return(r)
       \/ \E o \in Wanted(r) :
             /\ op' = [op EXCEPT ![r] = o]
             /\ GoTo(r, IF o = "create" THEN "create" ELSE "lock")
    /\ UNCHANGED <<server, holder, inputs, state, granted, todo>>

-----------------------------------------------------------------------------
(* The statements of a transaction. *)

\* CREATE ROLE, with the password whatever its kind.
CreateRole(r) ==
    /\ pc[r] = "create"
    /\ roles[r] = Absent /\ Named(roles, config[r].name) = {}
    /\ NameHolders(r, config[r].name) = {}
    /\ mine' = [mine EXCEPT ![r][r] =
                  [name |-> config[r].name, password |-> config[r].password.value,
                   options |-> config[r].options \cap {"attribute"}]]
    /\ todo' = [todo EXCEPT ![r] = PlannedRoles(r)]
    /\ GoTo(r, "grant")
    /\ UNCHANGED <<roles, members, own, holder, inputs, state, granted, op>>

\* pgLockRole: first the role, if it is there,
LockRole(r) ==
    /\ pc[r] = "lock"
    /\ \A o \in Found(r) : holder[o] = Nobody
    /\ holder' = [o \in Resources |-> IF o \in Found(r) THEN r ELSE holder[o]]
    /\ GoTo(r, "members")
    /\ UNCHANGED <<server, inputs, state, granted, op, todo>>

\* Faulty form: no members are locked.
FindNoMembers(r) ==
    /\ pc[r] = "members"
    /\ GoTo(r, "lockMembers")
    /\ UNCHANGED <<server, holder, inputs, state, granted, op, todo>>

\* then the members it has when the second statement begins, in any order.
FindMembers(r) ==
    /\ pc[r] = "members"
    /\ todo' = [todo EXCEPT ![r] =
                  {m \in Resources : \E o \in Found(r) : members[<<o, m>>] # "none"}]
    /\ GoTo(r, "lockMembers")
    /\ UNCHANGED <<server, holder, inputs, state, granted, op>>

LockMember(r) ==
    /\ pc[r] = "lockMembers"
    /\ \/ \E m \in todo[r] :
             /\ holder[m] \in {r, Nobody}
             /\ holder' = [holder EXCEPT ![m] = r]
             /\ todo' = [todo EXCEPT ![r] = @ \ {m}]
             /\ UNCHANGED pc
       \/ /\ todo[r] = {}
          /\ GoTo(r, IF op[r] = "delete" THEN "drop" ELSE "rename")
          /\ UNCHANGED <<holder, todo>>
    /\ UNCHANGED <<server, inputs, state, granted, op>>

\* The server forgets an md5 password, which is salted with the name.
Renamed(r, row) ==
    [row EXCEPT !.name = config[r].name,
                !.password = IF scenario.md5 THEN NoPassword ELSE @]

Rename(r) ==
    /\ pc[r] = "rename"
    /\ \/ config[r].name = state[r].name /\ UNCHANGED mine
       \/ /\ config[r].name # state[r].name
          /\ Named(roles, config[r].name) = {} /\ NameHolders(r, config[r].name) = {}
          /\ \E o \in Found(r) : mine' = [mine EXCEPT ![r][o] = Renamed(r, View(r)[o])]
    /\ GoTo(r, "alter")
    /\ UNCHANGED <<roles, members, own, holder, inputs, state, granted, op, todo>>

\* The password, the booleans, the connection limit and valid_until: a statement
\* for each that differs from the state.
Alters(r) == SetsPassword(r) \/ Differs(r, "attribute")

Altered(r, row) ==
    [row EXCEPT !.password = IF SetsPassword(r) THEN config[r].password.value ELSE @,
                !.options = IF Differs(r, "attribute") THEN With(@, r, "attribute") ELSE @]

Alter(r) ==
    /\ pc[r] = "alter"
    /\ \/ ~Alters(r) /\ UNCHANGED mine
       \/ /\ Alters(r)
          /\ \E o \in Found(r) : mine' = [mine EXCEPT ![r][o] = Altered(r, View(r)[o])]
    /\ GoTo(r, "list")
    /\ UNCHANGED <<roles, members, own, holder, inputs, state, granted, op, todo>>

\* roleFwRevokeRoles reads the names of the roles the role is a member of,
ListRoles(r) ==
    /\ pc[r] = "list"
    /\ todo' = [todo EXCEPT ![r] =
                  {View(r)[p[1]].name : p \in {q \in Pairs : q[2] \in Found(r)
                                                             /\ Sees(r, q) # "none"}}]
    /\ GoTo(r, "revoke")
    /\ UNCHANGED <<server, holder, inputs, state, granted, op>>

Write(r, p, level) == own' = [own EXCEPT ![r][p] = level]

\* and then revokes them by name.
RevokeRole(r) ==
    /\ pc[r] = "revoke"
    /\ \E n \in todo[r] : \E x \in Named(View(r), n), o \in Found(r) :
          /\ RowHolders(r, <<x, o>>) \cup DropHolders(r, x) = {}
          /\ IF Sees(r, <<x, o>>) = "none" THEN UNCHANGED own ELSE Write(r, <<x, o>>, "none")
          /\ todo' = [todo EXCEPT ![r] = @ \ {n}]
    /\ UNCHANGED <<roles, members, mine, holder, inputs, state, granted, op, pc>>

\* Faulty form: grants what the state has.
AllRevokedStateGranted(r) ==
    /\ pc[r] = "revoke" /\ todo[r] = {}
    /\ todo' = [todo EXCEPT ![r] = state[r].roles]
    /\ GoTo(r, "grant")
    /\ UNCHANGED <<server, holder, inputs, state, granted, op>>

AllRevoked(r) ==
    /\ pc[r] = "revoke" /\ todo[r] = {}
    /\ todo' = [todo EXCEPT ![r] = PlannedRoles(r)]
    /\ GoTo(r, "grant")
    /\ UNCHANGED <<server, holder, inputs, state, granted, op>>

\* A GRANT without admin option, which leaves an admin option as it is.
GrantTo(r) ==
    /\ pc[r] = "grant"
    /\ \E n \in todo[r] : \E x \in Named(View(r), n), o \in Found(r) :
          /\ RowHolders(r, <<x, o>>) \cup DropHolders(r, x) = {}
          /\ IF Sees(r, <<x, o>>) = "none" THEN Write(r, <<x, o>>, "member") ELSE UNCHANGED own
          /\ todo' = [todo EXCEPT ![r] = @ \ {n}]
    /\ UNCHANGED <<roles, members, mine, holder, inputs, state, granted, op, pc>>

\* search_path always, the timeouts and assume_role when they differ from the
\* state, or are given to a new role.
NewSettings(r, options) ==
    LET path == With(options, r, "search_path")
    IN  IF op[r] = "create" \/ Differs(r, "timeout") THEN With(path, r, "timeout") ELSE path

Settings(r) ==
    /\ pc[r] = "grant" /\ todo[r] = {}
    /\ \E o \in Found(r) :
          mine' = [mine EXCEPT ![r][o] =
                     [View(r)[o] EXCEPT !.options = NewSettings(r, @)]]
    /\ GoTo(r, "commit")
    /\ UNCHANGED <<roles, members, own, holder, inputs, state, granted, op, todo>>

\* DROP ROLE waits for those who grant and revoke the role.
DropRole(r) ==
    /\ pc[r] = "drop"
    /\ \E o \in Found(r) :
          /\ \A p \in PairsOf(o) : RowHolders(r, p) = {}
          /\ mine' = [mine EXCEPT ![r][o] = Absent]
          /\ own' = [own EXCEPT ![r] = [p \in Pairs |->
                       IF p \in PairsOf(o) /\ Sees(r, p) # "none" THEN "none" ELSE own[r][p]]]
    /\ GoTo(r, "commit")
    /\ UNCHANGED <<roles, members, holder, inputs, state, granted, op, todo>>

\* A resource that is replaced is created next.
Commit(r) ==
    /\ pc[r] = "commit"
    /\ roles' = View(r)
    /\ members' = [p \in Pairs |-> Sees(r, p)]
    /\ EndTransaction(r)
    /\ IF op[r] = "delete"
         THEN state' = [state EXCEPT ![r] = Absent] /\ GoTo(r, "plan")
         ELSE GoTo(r, "read") /\ UNCHANGED state
    /\ UNCHANGED <<inputs, granted, op>>

\* readRoleInto, in no transaction.  A Create or Update whose role is not found
\* leaves no state; Terraform keeps a new role that is not what was planned as
\* tainted.
ReadValues(r, o) ==
    LET expected == IF op[r] = "refresh" THEN state[r].password ELSE config[r].password
    IN  [name     |-> roles[o].name,
         roles    |-> {roles[x].name : x \in {y \in Resources : members[<<y, o>>] # "none"}},
         options  |-> roles[o].options,
         password |-> ReadPassword(roles[o], expected)]

ReadInstance(r, o) ==
    LET values == ReadValues(r, o)
    IN  [name |-> values.name, roles |-> values.roles, options |-> values.options,
         password |-> values.password,
         tainted |-> IF op[r] = "refresh" THEN state[r].tainted
                     ELSE op[r] = "create" /\ values # Planned(r)]

\* Faulty form: looks for the name that the state has.
ReadOld(r) ==
    LET name  == IF state[r] # Absent THEN state[r].name ELSE config[r].name
        found == Named(roles, name)
    IN  /\ pc[r] = "read"
        /\ state' = [state EXCEPT ![r] = IF found = {} THEN Absent
                                         ELSE ReadInstance(r, CHOOSE o \in found : TRUE)]
        /\ IF op[r] = "refresh" THEN GoTo(r, "plan") /\ UNCHANGED op ELSE Return(r)
        /\ UNCHANGED <<server, holder, inputs, granted, todo>>

Read(r) ==
    LET found == Named(roles, Subject(r))
    IN  /\ pc[r] = "read"
        /\ state' = [state EXCEPT ![r] = IF found = {} THEN Absent
                                         ELSE ReadInstance(r, CHOOSE o \in found : TRUE)]
        /\ IF op[r] = "refresh" THEN GoTo(r, "plan") /\ UNCHANGED op ELSE Return(r)
        /\ UNCHANGED <<server, holder, inputs, granted, todo>>

-----------------------------------------------------------------------------
(* Errors: deferredRollback; Terraform keeps the state it had. *)

Fail(r) ==
    /\ EndTransaction(r)
    /\ Return(r)
    /\ UNCHANGED <<roles, members, scenario, config, edits, drifts, state, granted>>

\* A run whose reading fails applies nothing.
StatementFails(r) ==
    /\ pc[r] \notin {"idle", "plan", "read", "over"}
    /\ failures < MaxFailures /\ failures' = failures + 1
    /\ Fail(r)

\* The server has no such role, or has one of the new name.
Refused(r) ==
    CASE pc[r] = "create" -> Named(roles, config[r].name) # {}
      [] pc[r] = "rename" -> /\ config[r].name # state[r].name
                             /\ Found(r) = {} \/ Named(roles, config[r].name) # {}
      [] pc[r] = "alter"  -> Alters(r) /\ Found(r) = {}
      [] pc[r] = "revoke" -> \E n \in todo[r] : Named(View(r), n) = {} \/ Found(r) = {}
      [] pc[r] = "grant"  -> Found(r) = {} \/ \E n \in todo[r] : Named(View(r), n) = {}
      [] pc[r] = "drop"   -> Found(r) = {}
      [] OTHER -> FALSE

Refuse(r) == Refused(r) /\ Fail(r) /\ UNCHANGED failures

-----------------------------------------------------------------------------
(* postgresql_grant_role, a transaction of which is one step here. *)

PairOf(g) == <<g.group, g.member>>

Writable(p) ==
    \A q \in Resources : /\ own[q][p] = Untouched
                         /\ mine[q][p[1]] # Absent /\ mine[q][p[2]] # Absent

\* Faulty form: keeps an entry without a membership, and an old level.
GrantRoleRefreshRemoved(g) ==
    /\ pc[g] = "idle"
    /\ granted' = [granted EXCEPT ![g] =
                     IF @ = "none" \/ members[PairOf(g)] # "none" THEN @ ELSE Absent]
    /\ GoTo(g, "plan")
    /\ UNCHANGED <<server, holder, inputs, state, op, todo>>

GrantRoleRefresh(g) ==
    /\ pc[g] = "idle"
    /\ granted' = [granted EXCEPT ![g] = IF @ = "none" THEN @ ELSE members[PairOf(g)]]
    /\ GoTo(g, "plan")
    /\ UNCHANGED <<server, holder, inputs, state, op, todo>>

GrantRolePlan(g) ==
    /\ pc[g] = "plan" /\ AllRead
    /\ scenario.ordered => pc[g.group] = "over" /\ pc[g.member] = "over"
    /\ CASE granted[g] = g.level -> Over(g)
         [] granted[g] = "none" -> GoTo(g, "create")
         [] OTHER -> GoTo(g, "delete")
    /\ UNCHANGED <<server, holder, inputs, state, granted, op, todo>>

GrantRoleDelete(g) ==
    /\ pc[g] = "delete" /\ Writable(PairOf(g))
    /\ members' = [members EXCEPT ![PairOf(g)] = "none"]
    /\ granted' = [granted EXCEPT ![g] = "none"]
    /\ GoTo(g, "create")
    /\ UNCHANGED <<roles, mine, own, holder, inputs, state, op, todo>>

GrantRoleCreate(g) ==
    /\ pc[g] = "create" /\ Writable(PairOf(g))
    /\ roles[g.group] # Absent /\ roles[g.member] # Absent
    /\ members' = [members EXCEPT ![PairOf(g)] = g.level]
    /\ granted' = [granted EXCEPT ![g] = g.level]
    /\ Over(g)
    /\ UNCHANGED <<roles, mine, own, holder, inputs, state, op, todo>>

GrantRoleRefused(g) ==
    /\ pc[g] \in {"delete", "create"}
    /\ roles[g.group] = Absent \/ roles[g.member] = Absent
    /\ Over(g)
    /\ UNCHANGED <<server, holder, inputs, state, granted, op, todo>>

GrantRoleStep(g) ==
    \/ GrantRoleRefresh(g) \/ GrantRolePlan(g) \/ GrantRoleDelete(g)
    \/ GrantRoleCreate(g) \/ GrantRoleRefused(g)

-----------------------------------------------------------------------------
(* Users and others. *)

Edit ==
    /\ edits < MaxEdits /\ edits' = edits + 1
    /\ \A x \in Participants : pc[x] = "idle"
    /\ config' \in Configurations \ {config}
    /\ UNCHANGED <<server, holder, scenario, drifts, failures, state, granted, op, pc, todo>>

Unlocked(o) ==
    \A q \in Resources : mine[q][o] = Untouched /\ \A p \in PairsOf(o) : own[q][p] = Untouched

Configurable(p) == \E c \in scenario.configs[p[2]] \ {Absent} : p[1] \in c.roles

\* Somebody else changes an option, a membership or, if it can be noticed, the
\* password, or drops the role between two runs.
Drift(o) ==
    /\ drifts < MaxDrifts /\ drifts' = drifts + 1
    /\ roles[o] # Absent /\ Unlocked(o)
    /\ \/ /\ \/ \E option \in Options :
                   roles' = [roles EXCEPT ![o].options =
                               (@ \cup {option}) \ (@ \cap {option})]
             \/ /\ scenario.md5 /\ scenario.reads
                /\ \E p \in Passwords \cup {NoPassword} : roles' = [roles EXCEPT ![o].password = p]
          /\ UNCHANGED members
       \/ \E p \in PairsOf(o) :
             /\ Configurable(p)
             /\ \A x \in {p[1], p[2]} : roles[x] # Absent /\ Unlocked(x)
             /\ members' = [members EXCEPT ![p] = IF @ = "none" THEN "member" ELSE "none"]
             /\ UNCHANGED roles
       \/ /\ \A x \in Participants : pc[x] = "idle"
          /\ roles' = [roles EXCEPT ![o] = Absent]
          /\ members' = [p \in Pairs |-> IF p \in PairsOf(o) THEN "none" ELSE members[p]]
    /\ UNCHANGED <<mine, own, holder, scenario, config, edits, failures, state, granted, op, pc, todo>>

Step(r) ==
    \/ Refresh(r) \/ Plan(r) \/ CreateRole(r) \/ LockRole(r) \/ FindMembers(r)
    \/ LockMember(r) \/ Rename(r) \/ Alter(r) \/ ListRoles(r) \/ RevokeRole(r)
    \/ AllRevoked(r) \/ GrantTo(r) \/ Settings(r) \/ DropRole(r) \/ Commit(r) \/ Read(r)
    \/ Refuse(r)

Next ==
    \/ \E r \in Resources : Step(r) \/ StatementFails(r) \/ Drift(r)
    \/ Edit
    \/ \E g \in scenario.grantRoles : GrantRoleStep(g)

Spec == Init /\ [][Next]_vars

\* Terraform is run again and again, and the server executes what nothing blocks.
FairSpec ==
    /\ Spec
    /\ \A r \in Resources : WF_vars(Step(r))
    /\ \A x \in UNION {s.grantRoles : s \in Scenarios} :
          WF_vars(x \in scenario.grantRoles /\ GrantRoleStep(x))

-----------------------------------------------------------------------------
(* Properties. *)

\* Roles are looked for by the name in Terraform's state, and names may be handed
\* from one role to another: it is always the resource's own role that is found,
\* except between the commit of an Update and its reading (readRoleInto, by name).
StatesNameOwnRoles ==
    \A r \in Resources : state[r] # Absent /\ pc[r] # "read" =>
        Named(roles, state[r].name) \subseteq {r}

\* The names that roleFwRevokeRoles has read (resource_role_fw.go:936-972) are
\* still those of roles when the REVOKE comes, which would fail the Update
\* otherwise: Update and Delete of the group lock its members (helpers.go:530).
\* A grant_role may make new ones: it refers to the roles, or they keep their names.
RevokeFindsRoles ==
    drifts = 0 => \A r \in Resources : pc[r] = "revoke" =>
        \A n \in todo[r] : Named(View(r), n) # {} /\ \A x \in Named(View(r), n) : DropHolders(r, x) = {}

\* The password of which Terraform's state says that it is set, is: with it a
\* user may log in, whatever was renamed, switched or replaced.  Not so of a
\* write-only password that a renaming has made the server forget.
PasswordInForce ==
    drifts = 0 => \A r \in Resources :
        /\ state[r] # Absent /\ pc[r] # "read" /\ roles[r] # Absent
        /\ state[r].password.kind = "password_wo" => ~scenario.md5
        /\ state[r].password.value \in Passwords
        => roles[r].password = state[r].password.value

\* What Terraform is run for: the role is what is configured, and so its
\* memberships, unless they are ignored; a role that is removed is gone.
Converged(r) ==
    IF config[r] = Absent THEN state[r] = Absent /\ roles[r] = Absent
    ELSE /\ state[r] # Absent /\ Recorded(state[r]) = Planned(r)
         /\ roles[r] # Absent
         /\ roles[r].name = config[r].name /\ roles[r].options = config[r].options
         /\ r \in scenario.ignoring \/
               {x \in Resources : members[<<x, r>>] # "none"} = config[r].roles
         /\ \/ config[r].password.kind = "null"
            \/ config[r].password.kind = "password_wo" /\ scenario.md5
            \/ roles[r].password = config[r].password.value

\* Once nobody interferes, running Terraform again and again ends with the roles
\* and the memberships of grant_role as they are configured.
Converges ==
    <>[](/\ \A r \in Resources : Converged(r)
         /\ \A g \in scenario.grantRoles : members[PairOf(g)] = g.level)
=============================================================================
