----------------------------- MODULE RoleProofs -----------------------------
(***************************************************************************)
(* Theorems about RoleResource, for any roles, names and scenarios: a      *)
(* resource never takes the role of another for its own, the names an      *)
(* Update has read stay those of roles, and the password in Terraform's    *)
(* state is the one in force.                                              *)
(***************************************************************************)
EXTENDS RoleResource, TLAPS

\* What each point of an operation knows of its arguments.
Flow(r) ==
    /\ pc[r] # "delete"
    /\ pc[r] \in {"idle", "over"} => op[r] = "refresh"
    /\ pc[r] = "plan" => op[r] \in {"refresh", "delete"}
    /\ pc[r] = "read" => op[r] # "delete"
    /\ pc[r] = "create" => op[r] = "create"
    /\ pc[r] \in {"lock", "members", "lockMembers"} => op[r] \in {"update", "delete"}
    /\ pc[r] \in {"rename", "alter", "list", "revoke"} => op[r] = "update"
    /\ pc[r] = "grant" => op[r] \in {"create", "update"}
    /\ pc[r] = "drop" => op[r] = "delete"
    /\ pc[r] = "commit" => op[r] # "refresh"
    /\ op[r] \in {"create", "update"} => config[r] # Absent
    /\ op[r] = "create" => state[r] = Absent
    /\ op[r] = "update" => state[r] # Absent
    /\ op[r] = "delete" => (state[r] = Absent) = (pc[r] = "plan")
    /\ op[r] = "refresh" /\ pc[r] = "read" => state[r] # Absent

\* Terraform reads everything before it applies anything.
StillReads(r) == pc[r] = "idle" \/ (pc[r] = "read" /\ op[r] = "refresh")

Phase ==
    (\E r \in Resources : StillReads(r)) =>
        \A q \in Resources : op[q] = "refresh" /\ pc[q] \in {"idle", "read", "plan"}

Renames(r) == pc[r] \in {"alter", "list", "revoke", "grant", "commit"}

\* A transaction writes its own role, under the name that is configured, and its
\* own memberships.
Written(r) ==
    /\ \A o \in Resources \ {r} : mine[r][o] = Untouched
    /\ mine[r][r] # Untouched => Renames(r)
    /\ mine[r][r] = Absent <=> pc[r] = "commit" /\ op[r] = "delete"
    /\ mine[r][r] \in Row => mine[r][r].name = config[r].name
    /\ op[r] = "create" /\ Renames(r) => mine[r][r] # Untouched
    /\ op[r] = "update" /\ Renames(r) /\ mine[r][r] = Untouched =>
         config[r].name = state[r].name
    /\ \A p \in Pairs : own[r][p] # Untouched =>
         /\ pc[r] \in {"revoke", "grant", "commit"}
         /\ op[r] # "delete" => p[2] = r
         /\ p \in PairsOf(r)

\* Between the commit of an operation and its reading the state is the old one.
Unread(r) == pc[r] = "read" /\ op[r] # "refresh"

\* The role of a resource is there when its state says so, under the name the
\* state has, and no other role has that name.
Known(r) ==
    /\ Unread(r) => roles[r] # Absent /\ roles[r].name = config[r].name
    /\ ~Unread(r) /\ state[r] = Absent => roles[r] = Absent
    /\ ~Unread(r) /\ state[r] # Absent =>
         /\ Named(roles, state[r].name) \subseteq {r}
         /\ roles[r] # Absent => roles[r].name = state[r].name
         /\ ~StillReads(r) => roles[r] # Absent

\* Names are unique, also the one a transaction gives.
Unique ==
    \A o \in Resources :
        /\ roles[o] # Absent => Named(roles, roles[o].name) \subseteq {o}
        /\ mine[o][o] \in Row => Named(roles, mine[o][o].name) \subseteq {o}

\* The roles of a membership are there, those of one a transaction grants as it
\* sees them; what has a role is not granted while it is dropped.
MembersExist ==
    \A p \in Pairs : members[p] # "none" => roles[p[1]] # Absent /\ roles[p[2]] # Absent

GrantsExist(r) ==
    \A p \in Pairs : own[r][p] \notin {Untouched, "none"} =>
        View(r)[p[1]] # Absent /\ View(r)[p[2]] # Absent

DropsAlone(r) ==
    mine[r][r] = Absent => \A p \in PairsOf(r) :
        Sees(r, p) = "none" /\ \A q \in Resources \ {r} : own[q][p] = Untouched

BaseInv ==
    /\ TypeOK
    /\ config \in Configurations
    /\ Phase
    /\ Unique
    /\ MembersExist
    /\ \A r \in Resources : Flow(r) /\ Written(r) /\ Known(r) /\ GrantsExist(r) /\ DropsAlone(r)

-----------------------------------------------------------------------------
(* The locks and the names read. *)

\* An Update or a Delete past the lock of its role, and past those of its members.
HasRole(r) ==
    /\ op[r] \in {"update", "delete"}
    /\ pc[r] \in {"members", "lockMembers", "rename", "drop"} \/ Renames(r)
HasMembers(r) == HasRole(r) /\ pc[r] # "members"

\* What is left of a run in which a resource's operation cannot revoke any more.
Settled(r) ==
    \/ pc[r] \in {"read", "over"} \/ op[r] = "create"
    \/ pc[r] = "plan" /\ op[r] = "delete"

\* The members of a role that is to be renamed or dropped are locked, but for
\* those that have become members since.
MembersLocked(x) ==
    HasMembers(x) => \A m \in Resources :
        members[<<x, m>>] # "none" =>
            \/ pc[x] = "lockMembers" /\ m \in todo[x]
            \/ holder[m] = x
            \/ Settled(m)

\* What is still to be revoked is the name of a role that has the member.
NamesFound(r) ==
    pc[r] = "revoke" => \A n \in todo[r] :
        \E x \in Named(View(r), n) : members[<<x, r>>] # "none"

\* The grant_roles that refer to roles are applied after those.
Ordered ==
    \A g \in scenario.grantRoles :
        pc[g] \in {"delete", "create"} => pc[g.group] = "over" /\ pc[g.member] = "over"

Undisturbed == drifts = 0 /\ scenario.ordered

LockInv ==
    /\ \A r \in Resources : HasRole(r) => holder[r] = r
    /\ Undisturbed =>
         /\ \A r \in Resources : MembersLocked(r) /\ NamesFound(r)
         /\ Ordered

-----------------------------------------------------------------------------
(* The passwords. *)

\* A password that the server is sure to have.
Lasting(password) ==
    password.value \in Passwords /\ (password.kind = "password_wo" => ~scenario.md5)

PasswordKnown(r) ==
    /\ ~Unread(r) /\ state[r] # Absent /\ roles[r] # Absent /\ Lasting(state[r].password) =>
         roles[r].password = state[r].password.value
    /\ pc[r] = "alter" /\ Lasting(state[r].password)
         /\ ~(scenario.md5 /\ config[r].name # state[r].name) =>
         View(r)[r].password = state[r].password.value
    /\ Renames(r) /\ pc[r] # "alter" /\ op[r] # "delete" /\ Lasting(config[r].password) =>
         View(r)[r].password = config[r].password.value
    /\ Unread(r) /\ Lasting(config[r].password) =>
         roles[r].password = config[r].password.value

PasswordInv == drifts = 0 => \A r \in Resources : PasswordKnown(r)

-----------------------------------------------------------------------------
(* The operators. *)

USE DEF server, inputs

\* What a transaction sees of a role is a row, or that it is not there.
LEMMA ViewType ==
    ASSUME TypeOK, NEW r \in Resources
    PROVE  /\ View(r) \in [Resources -> Row \cup {Absent}]
           /\ \A o \in Resources : View(r)[o] =
                IF mine[r][o] = Untouched THEN roles[o] ELSE mine[r][o]
           /\ \A p \in Pairs : Sees(r, p) \in Level
           /\ Found(r) \subseteq Resources
           /\ \A o \in Found(r) : View(r)[o] \in Row
BY RoleAssumption DEF TypeOK, View, Sees, Found, Named

\* A configuration is one, its names are unique and its roles are configured.
LEMMA ConfigurationFacts ==
    ASSUME RoleAssumption, scenario \in Scenario, NEW conf \in Configurations
    PROVE  /\ conf \in [Resources -> Config \cup {Absent}]
           /\ \A r \in Resources : conf[r] # Absent =>
                /\ \A q \in conf[r].roles : conf[q] # Absent
                /\ \A q \in Resources \ {r} : conf[q] # Absent => conf[q].name # conf[r].name
<1>1. \A r \in Resources : scenario.configs[r] \subseteq Config \cup {Absent}
  BY DEF Scenario
<1> QED
  BY <1>1 DEF Configurations

\* The planned roles are names.
LEMMA PlannedType ==
    ASSUME TypeOK, config \in Configurations, NEW r \in Resources, config[r] # Absent
    PROVE  PlannedRoles(r) \subseteq Names
<1>1. /\ config \in [Resources -> Config \cup {Absent}]
      /\ \A q \in config[r].roles : config[q] # Absent
  BY RoleAssumption, ConfigurationFacts DEF TypeOK
<1>2. \A q \in config[r].roles : config[q].name \in Names
  BY <1>1 DEF Config
<1> QED
  BY <1>2 DEF PlannedRoles, TypeOK, Instance

\* What the program counters are after a step.
LEMMA Counters ==
    ASSUME TypeOK, NEW x \in Participants
    PROVE  /\ \A next \in PC : GoTo(x, next) => pc' \in [Participants -> PC]
           /\ Over(x) => pc' \in [Participants -> PC]
           /\ x \in Resources /\ Return(x) =>
                /\ pc' \in [Participants -> PC]
                /\ op' \in [Resources -> {"refresh", "create", "update", "delete"}]
<1>1. \A next \in PC : GoTo(x, next) => pc' \in [Participants -> PC]
  BY DEF TypeOK, GoTo
<1>2. Over(x) => pc' \in [Participants -> PC]
  BY <1>1 DEF Over, PC
<1> QED
  BY <1>1, <1>2 DEF TypeOK, Return

\* The parts of the type invariant that the end of a transaction changes.
LEMMA EndType ==
    ASSUME TypeOK, NEW r \in Resources, EndTransaction(r)
    PROVE  /\ mine' \in [Resources -> [Resources -> Row \cup {Absent, Untouched}]]
           /\ own' \in [Resources -> [Pairs -> Level \cup {Untouched}]]
           /\ holder' \in [Resources -> Resources \cup {Nobody}]
           /\ todo' \in [Resources -> SUBSET (Names \cup Resources)]
BY DEF TypeOK, EndTransaction, NoRows, NoPairs

\* A transaction writes the level of a membership.
LEMMA WriteType ==
    ASSUME TypeOK, NEW r \in Resources, NEW p \in Pairs, NEW level \in Level,
           Write(r, p, level)
    PROVE  own' \in [Resources -> [Pairs -> Level \cup {Untouched}]]
BY DEF TypeOK, Write

\* What is read into the state is an instance.
LEMMA InstanceType ==
    ASSUME BaseInv, NEW r \in Resources, pc[r] = "read",
           NEW o \in Resources, roles[o] # Absent
    PROVE  ReadInstance(r, o) \in Instance
<1> USE DEF BaseInv
<1>1. config \in [Resources -> Config \cup {Absent}]
  BY RoleAssumption, ConfigurationFacts DEF TypeOK
<1> DEFINE expected == IF op[r] = "refresh" THEN state[r].password ELSE config[r].password
<1>2. expected \in Password
  BY <1>1 DEF Flow, TypeOK, Instance, Config, ConfiguredPassword
<1>3. roles[o] \in Row
  BY DEF TypeOK
<1>4. ReadPassword(roles[o], expected) \in Password
  <2> HIDE DEF expected
  <2>1. roles[o].password \in Passwords \cup {NoPassword}
    BY <1>3 DEF Row
  <2> QED
    BY <1>2, <2>1 DEF ReadPassword, Password
<1>5. {roles[x].name : x \in {y \in Resources : members[<<y, o>>] # "none"}} \subseteq Names
  <2>1. \A x \in Resources : members[<<x, o>>] # "none" => roles[x] \in Row
    BY DEF MembersExist, TypeOK, Pairs
  <2> QED
    BY <2>1 DEF Row
<1>6. op[r] = "refresh" => state[r].tainted \in BOOLEAN
  BY DEF Flow, TypeOK, Instance
<1> QED
  BY <1>3, <1>4, <1>5, <1>6 DEF ReadInstance, ReadValues, Instance, Row

-----------------------------------------------------------------------------
(* Types are kept: one step per action. *)

\* Every step of the resources, of Terraform and of others keeps the types.
LEMMA TypeStep == BaseInv /\ [Next]_vars => TypeOK'
<1> SUFFICES ASSUME BaseInv, [Next]_vars PROVE TypeOK'
  OBVIOUS
<1>0. config \in [Resources -> Config \cup {Absent}] /\ config \in Configurations
  BY DEF BaseInv, TypeOK
<1> USE DEF TypeOK
<1>1. ASSUME NEW r \in Resources, Refresh(r) PROVE TypeOK'
  BY <1>1, Counters DEF BaseInv, Refresh, PC, Participants
<1>2. ASSUME NEW r \in Resources, Plan(r) PROVE TypeOK'
  <2>1. Wanted(r) \subseteq {"create", "update", "delete"}
    BY DEF Wanted
  <2> QED
    BY <1>2, <2>1, Counters DEF BaseInv, Plan, PC, Participants
<1>3. ASSUME NEW r \in Resources, CreateRole(r) PROVE TypeOK'
  <2>1. config[r] \in Config
    BY <1>0, <1>3 DEF BaseInv, Flow, CreateRole
  <2>2. PlannedRoles(r) \subseteq Names
    BY <1>3, PlannedType DEF BaseInv, Flow, CreateRole
  <2>3. config[r].name \in Names /\ config[r].options \subseteq Options
        /\ config[r].password.value \in Passwords \cup {NoPassword}
    BY <2>1 DEF Config, ConfiguredPassword, Password
  <2>4. [name |-> config[r].name, password |-> config[r].password.value,
         options |-> config[r].options \cap {"attribute"}] \in Row
    BY <2>3 DEF Row
  <2>5. GoTo(r, "grant") /\ "grant" \in PC /\ r \in Participants
    BY <1>3 DEF CreateRole, PC, Participants
  <2>6. mine' \in [Resources -> [Resources -> Row \cup {Absent, Untouched}]]
    BY <1>3, <2>4 DEF BaseInv, CreateRole
  <2> QED
    BY <1>3, <2>2, <2>5, <2>6, Counters DEF BaseInv, CreateRole, Participants
<1>4. ASSUME NEW r \in Resources, LockRole(r) PROVE TypeOK'
  BY <1>4, ViewType, Counters DEF BaseInv, LockRole, PC, Participants
<1>5. ASSUME NEW r \in Resources, FindMembers(r) PROVE TypeOK'
  BY <1>5, Counters DEF BaseInv, FindMembers, PC, Participants
<1>6. ASSUME NEW r \in Resources, LockMember(r) PROVE TypeOK'
  <2>1. holder' \in [Resources -> Resources \cup {Nobody}]
    BY <1>6 DEF BaseInv, LockMember
  <2>2. todo' \in [Resources -> SUBSET (Names \cup Resources)]
    <3>1. ASSUME NEW m \in todo[r], todo' = [todo EXCEPT ![r] = @ \ {m}]
          PROVE  todo' \in [Resources -> SUBSET (Names \cup Resources)]
      BY <3>1 DEF BaseInv
    <3> QED
      BY <1>6, <3>1 DEF BaseInv, LockMember
  <2>3. pc' \in [Participants -> PC]
    BY <1>6, Counters DEF BaseInv, LockMember, PC, Participants
  <2> QED
    BY <1>6, <2>1, <2>2, <2>3 DEF BaseInv, LockMember, Participants
<1>7. ASSUME NEW r \in Resources, Rename(r) PROVE TypeOK'
  <2>1. ASSUME NEW o \in Found(r) PROVE Renamed(r, View(r)[o]) \in Row
    <3>1. config[r].name \in Names
      BY <1>0, <1>7 DEF BaseInv, Flow, Rename, Config
    <3>2. View(r)[o] \in Row
      BY <2>1, ViewType DEF BaseInv
    <3> QED
      BY <3>1, <3>2 DEF Renamed, Row
  <2>2. GoTo(r, "alter") /\ "alter" \in PC /\ r \in Participants
    BY <1>7 DEF Rename, PC, Participants
  <2>3. mine' \in [Resources -> [Resources -> Row \cup {Absent, Untouched}]]
    <3>1. CASE UNCHANGED mine
      BY <3>1 DEF BaseInv
    <3>2. CASE mine' # mine
      <4>1. PICK o \in Found(r) : mine' = [mine EXCEPT ![r][o] = Renamed(r, View(r)[o])]
        BY <1>7, <3>2 DEF Rename
      <4> QED
        BY <2>1, <4>1, ViewType DEF BaseInv
    <3> QED
      BY <3>1, <3>2
  <2> QED
    BY <1>7, <2>2, <2>3, Counters DEF BaseInv, Rename, Participants
<1>8. ASSUME NEW r \in Resources, Alter(r) PROVE TypeOK'
  <2>1. ASSUME NEW o \in Found(r) PROVE Altered(r, View(r)[o]) \in Row
    <3>1. config[r].password.value \in Passwords \cup {NoPassword}
          /\ config[r].options \subseteq Options
      BY <1>0, <1>8 DEF BaseInv, Flow, Alter, Config, ConfiguredPassword, Password
    <3>2. View(r)[o] \in Row
      BY <2>1, ViewType DEF BaseInv
    <3>3. With(View(r)[o].options, r, "attribute") \subseteq Options
      BY <3>1, <3>2 DEF With, Row
    <3> QED
      BY <3>1, <3>2, <3>3 DEF Altered, Row
  <2>2. GoTo(r, "list") /\ "list" \in PC /\ r \in Participants
    BY <1>8 DEF Alter, PC, Participants
  <2>3. mine' \in [Resources -> [Resources -> Row \cup {Absent, Untouched}]]
    <3>1. CASE UNCHANGED mine
      BY <3>1 DEF BaseInv
    <3>2. CASE mine' # mine
      <4>1. PICK o \in Found(r) : mine' = [mine EXCEPT ![r][o] = Altered(r, View(r)[o])]
        BY <1>8, <3>2 DEF Alter
      <4> QED
        BY <2>1, <4>1, ViewType DEF BaseInv
    <3> QED
      BY <3>1, <3>2
  <2> QED
    BY <1>8, <2>2, <2>3, Counters DEF BaseInv, Alter, Participants
<1>9. ASSUME NEW r \in Resources, ListRoles(r) PROVE TypeOK'
  <2> DEFINE names == {View(r)[p[1]].name : p \in {q \in Pairs : q[2] \in Found(r)
                                                               /\ Sees(r, q) # "none"}}
  <2>1. ASSUME NEW p \in Pairs, p[2] \in Found(r), Sees(r, p) # "none"
        PROVE  View(r)[p[1]].name \in Names
    <3>1. own[r] = NoPairs \/ \A q \in Pairs : own[r][q] = Untouched
      BY <1>9 DEF BaseInv, Written, ListRoles
    <3>2. members[p] # "none"
      BY <2>1, <3>1 DEF Sees, NoPairs
    <3>3. roles[p[1]] # Absent /\ p[1] \in Resources
      BY <3>2 DEF BaseInv, MembersExist, Pairs
    <3>4. mine[r][p[1]] # Absent
      BY <1>9, <3>3, RoleAssumption DEF BaseInv, Written, ListRoles
    <3>5. View(r)[p[1]] \in Row
      BY <3>3, <3>4, ViewType DEF BaseInv
    <3> QED
      BY <3>5 DEF Row
  <2>2. names \subseteq Names
    BY <2>1
  <2>3. todo' = [todo EXCEPT ![r] = names] /\ GoTo(r, "revoke")
    BY <1>9 DEF ListRoles
  <2> HIDE DEF names
  <2> QED
    BY <1>9, <2>2, <2>3, Counters DEF BaseInv, ListRoles, PC, Participants
<1>10. ASSUME NEW r \in Resources, RevokeRole(r) PROVE TypeOK'
  <2>1. own' \in [Resources -> [Pairs -> Level \cup {Untouched}]]
    <3>1. PICK x \in Resources, o \in Resources :
            own' = own \/ Write(r, <<x, o>>, "none")
      BY <1>10 DEF RevokeRole, Named, Found
    <3> QED
      BY <3>1, WriteType DEF BaseInv, Pairs, Level
  <2>2. todo' \in [Resources -> SUBSET (Names \cup Resources)]
    BY <1>10 DEF BaseInv, RevokeRole
  <2> QED
    BY <1>10, <2>1, <2>2 DEF BaseInv, RevokeRole, Participants
<1>11. ASSUME NEW r \in Resources, AllRevoked(r) PROVE TypeOK'
  <2>1. PlannedRoles(r) \subseteq Names
    BY <1>11, PlannedType DEF BaseInv, Flow, AllRevoked
  <2> QED
    BY <1>11, <2>1, Counters DEF BaseInv, AllRevoked, PC, Participants
<1>12. ASSUME NEW r \in Resources, GrantTo(r) PROVE TypeOK'
  <2>1. own' \in [Resources -> [Pairs -> Level \cup {Untouched}]]
    <3>1. PICK x \in Resources, o \in Resources :
            own' = own \/ Write(r, <<x, o>>, "member")
      BY <1>12 DEF GrantTo, Named, Found
    <3> QED
      BY <3>1, WriteType DEF BaseInv, Pairs, Level
  <2>2. todo' \in [Resources -> SUBSET (Names \cup Resources)]
    BY <1>12 DEF BaseInv, GrantTo
  <2> QED
    BY <1>12, <2>1, <2>2 DEF BaseInv, GrantTo, Participants
<1>13. ASSUME NEW r \in Resources, Settings(r) PROVE TypeOK'
  <2>1. ASSUME NEW o \in Found(r)
        PROVE  [View(r)[o] EXCEPT !.options = NewSettings(r, @)] \in Row
    <3>1. config[r].options \subseteq Options
      BY <1>0, <1>13 DEF BaseInv, Flow, Settings, Config
    <3>2. View(r)[o] \in Row
      BY <2>1, ViewType DEF BaseInv
    <3>3. NewSettings(r, View(r)[o].options) \subseteq Options
      BY <3>1, <3>2 DEF NewSettings, With, Row
    <3> QED
      BY <3>2, <3>3 DEF Row
  <2>2. GoTo(r, "commit") /\ "commit" \in PC /\ r \in Participants
    BY <1>13 DEF Settings, PC, Participants
  <2>3. mine' \in [Resources -> [Resources -> Row \cup {Absent, Untouched}]]
    BY <1>13, <2>1, ViewType DEF BaseInv, Settings
  <2> QED
    BY <1>13, <2>2, <2>3, Counters DEF BaseInv, Settings, Participants
<1>14. ASSUME NEW r \in Resources, DropRole(r) PROVE TypeOK'
  <2>1. GoTo(r, "commit") /\ "commit" \in PC /\ r \in Participants
    BY <1>14 DEF DropRole, PC, Participants
  <2>2. own' \in [Resources -> [Pairs -> Level \cup {Untouched}]]
    BY <1>14 DEF BaseInv, DropRole, Level
  <2>3. mine' \in [Resources -> [Resources -> Row \cup {Absent, Untouched}]]
    BY <1>14, ViewType DEF BaseInv, DropRole
  <2> QED
    BY <1>14, <2>1, <2>2, <2>3, Counters DEF BaseInv, DropRole, Participants
<1>15. ASSUME NEW r \in Resources, Commit(r) PROVE TypeOK'
  <2>1. roles' \in [Resources -> Row \cup {Absent}]
    BY <1>15, ViewType DEF BaseInv, Commit
  <2>2. members' \in [Pairs -> Level]
    BY <1>15, ViewType DEF BaseInv, Commit
  <2>3. state' \in [Resources -> Instance \cup {Absent}]
    BY <1>15 DEF BaseInv, Commit
  <2>4. pc' \in [Participants -> PC]
    BY <1>15, Counters DEF BaseInv, Commit, PC, Participants
  <2>5. EndTransaction(r) /\ UNCHANGED <<inputs, granted, op>>
    BY <1>15 DEF Commit
  <2> QED
    BY <2>1, <2>2, <2>3, <2>4, <2>5, EndType DEF BaseInv, Participants
<1>16. ASSUME NEW r \in Resources, Read(r) PROVE TypeOK'
  <2> DEFINE found == Named(roles, Subject(r))
  <2>1. found # {} => (CHOOSE o \in found : TRUE) \in found
    OBVIOUS
  <2>2. \A o \in found : ReadInstance(r, o) \in Instance
    BY <1>16, InstanceType DEF Read, Named
  <2>3. state' \in [Resources -> Instance \cup {Absent}]
    BY <1>16, <2>1, <2>2 DEF BaseInv, Read
  <2>4. /\ pc' \in [Participants -> PC]
        /\ op' \in [Resources -> {"refresh", "create", "update", "delete"}]
    BY <1>16, Counters DEF BaseInv, Read, PC, Participants
  <2> QED
    BY <1>16, <2>3, <2>4 DEF BaseInv, Read, Participants
<1>17. ASSUME NEW r \in Resources, Fail(r), failures' \in Nat PROVE TypeOK'
  BY <1>17, EndType, Counters DEF BaseInv, Fail, Participants
<1>18. ASSUME NEW r \in Resources, Refuse(r) \/ StatementFails(r) PROVE TypeOK'
  BY <1>17, <1>18 DEF BaseInv, Refuse, StatementFails
<1>19. ASSUME NEW r \in Resources, Drift(r) PROVE TypeOK'
  <2>1. roles[r] \in Row /\ drifts' \in Nat
    BY <1>19 DEF BaseInv, Drift
  <2>2. \A option \in Options :
          (roles[r].options \cup {option}) \ (roles[r].options \cap {option}) \subseteq Options
    BY <2>1 DEF Row
  <2>3. roles' \in [Resources -> Row \cup {Absent}]
    <3>1. ASSUME NEW option \in Options,
                 roles' = [roles EXCEPT ![r].options = (@ \cup {option}) \ (@ \cap {option})]
          PROVE  roles' \in [Resources -> Row \cup {Absent}]
      BY <2>1, <2>2, <3>1 DEF BaseInv, Row
    <3>2. ASSUME NEW p \in Passwords \cup {NoPassword},
                 roles' = [roles EXCEPT ![r].password = p]
          PROVE  roles' \in [Resources -> Row \cup {Absent}]
      BY <2>1, <3>2 DEF BaseInv, Row
    <3> QED
      BY <1>19, <3>1, <3>2 DEF BaseInv, Drift
  <2>4. members' \in [Pairs -> Level]
    BY <1>19 DEF BaseInv, Drift, Level
  <2> QED
    BY <1>19, <2>1, <2>3, <2>4 DEF BaseInv, Drift, Participants
<1>20. CASE Edit
  <2>1. config' \in [Resources -> Config \cup {Absent}]
    BY <1>20, RoleAssumption, ConfigurationFacts DEF BaseInv, Edit
  <2> QED
    BY <1>20, <2>1 DEF BaseInv, Edit, Participants
<1>21. ASSUME NEW g \in scenario.grantRoles, GrantRoleStep(g) PROVE TypeOK'
  <2>1. g \in GrantRole /\ PairOf(g) \in Pairs /\ g \in Participants
    BY DEF BaseInv, Scenario, GrantRole, PairOf, Pairs, Participants
  <2>2. g.level \in Level
    BY <2>1 DEF GrantRole
  <2>3. CASE GrantRoleRefresh(g)
    BY <2>1, <2>3, Counters DEF BaseInv, GrantRoleRefresh, PC, Participants
  <2>4. CASE GrantRolePlan(g)
    BY <2>1, <2>4, Counters DEF BaseInv, GrantRolePlan, PC, Participants
  <2>5. CASE GrantRoleDelete(g)
    BY <2>1, <2>5, Counters DEF BaseInv, GrantRoleDelete, PC, Participants, Level
  <2>6. CASE GrantRoleCreate(g)
    BY <2>1, <2>2, <2>6, Counters DEF BaseInv, GrantRoleCreate, Participants
  <2>7. CASE GrantRoleRefused(g)
    BY <2>1, <2>7, Counters DEF BaseInv, GrantRoleRefused, Participants
  <2> QED
    BY <1>21, <2>3, <2>4, <2>5, <2>6, <2>7 DEF GrantRoleStep
<1>22. CASE UNCHANGED vars
  BY <1>22 DEF BaseInv, vars, Participants
<1> QED
  BY <1>1, <1>2, <1>3, <1>4, <1>5, <1>6, <1>7, <1>8, <1>9, <1>10, <1>11, <1>12, <1>13,
     <1>14, <1>15, <1>16, <1>18, <1>19, <1>20, <1>21, <1>22 DEF Next, Step

-----------------------------------------------------------------------------
(* What a step of a resource leaves alone. *)

\* The run goes on, or the next one begins.
RunGoesOn(x) ==
    \/ \A q \in Resources \ {x} : pc'[q] = pc[q]
    \/ /\ \A q \in Resources \ {x} : pc[q] = "over"
       /\ \A q \in Resources : pc'[q] = "idle"

LeavesAlone(r) ==
    /\ \A q \in Resources \ {r} :
         /\ op'[q] = op[q] /\ state'[q] = state[q] /\ todo'[q] = todo[q]
         /\ mine'[q] = mine[q] /\ own'[q] = own[q]
         /\ \A o \in Resources : holder[o] = q => holder'[o] = q
    /\ UNCHANGED <<scenario, config, drifts>>
    /\ RunGoesOn(r)

\* It changes no committed row.
CommitsNothing == UNCHANGED <<roles, members>>

\* It writes no membership of a role that another drops.
AvoidsDropped(r) ==
    \A q \in Resources \ {r} : mine[q][q] = Absent =>
        \A p \in PairsOf(q) : own'[r][p] = Untouched

\* Reading ends for a resource, and nothing is applied before.
KeepsPhase(r) ==
    /\ StillReads(r)' => StillReads(r) \/ \A q \in Resources : pc'[q] = "idle"
    /\ (\E q \in Resources : StillReads(q)) =>
         op'[r] = "refresh" /\ pc'[r] \in {"idle", "read", "plan"}

\* Whoever moves on moves alone; whoever is the last to end begins the next run.
LEMMA RunGoesOnFacts ==
    ASSUME TypeOK, NEW x \in Participants
    PROVE  /\ \A next : GoTo(x, next) =>
                pc'[x] = next /\ \A y \in Participants \ {x} : pc'[y] = pc[y]
           /\ Over(x) => /\ RunGoesOn(x)
                         /\ pc'[x] \in {"idle", "over"}
                         /\ pc'[x] = "idle" => \A y \in Participants : pc'[y] = "idle"
BY DEF TypeOK, GoTo, Over, RunGoesOn, Participants

\* Each state a resource's operation is in rests on its own data only.
LEMMA OthersFlow ==
    ASSUME BaseInv, NEW r \in Resources, LeavesAlone(r), NEW q \in Resources \ {r}
    PROVE  Flow(q)'
BY DEF BaseInv, LeavesAlone, RunGoesOn, Flow

\* What another transaction has written stays its own.
LEMMA OthersWritten ==
    ASSUME BaseInv, NEW r \in Resources, LeavesAlone(r), NEW q \in Resources \ {r}
    PROVE  Written(q)'
BY DEF BaseInv, LeavesAlone, RunGoesOn, Written, Renames, Flow

\* What another resource has read stays known while nothing is committed.
LEMMA OthersKnown ==
    ASSUME BaseInv, NEW r \in Resources, LeavesAlone(r), CommitsNothing,
           NEW q \in Resources \ {r}
    PROVE  Known(q)'
BY DEF BaseInv, LeavesAlone, CommitsNothing, RunGoesOn, Known, Unread, StillReads, Flow, Named

\* The next run begins when all have read, planned and applied.
LEMMA PhaseStep ==
    ASSUME BaseInv, NEW r \in Resources, LeavesAlone(r), Flow(r)', KeepsPhase(r)
    PROVE  Phase'
<1> SUFFICES ASSUME NEW s \in Resources, StillReads(s)', NEW q \in Resources
             PROVE  op'[q] = "refresh" /\ pc'[q] \in {"idle", "read", "plan"}
  BY DEF Phase
<1>1. CASE \A x \in Resources : pc'[x] = "idle"
  BY <1>1, OthersFlow DEF Flow
<1>2. CASE ~ \A x \in Resources : pc'[x] = "idle"
  <2>1. \A x \in Resources \ {r} : pc'[x] = pc[x] /\ op'[x] = op[x]
    BY <1>2 DEF LeavesAlone, RunGoesOn
  <2>2. StillReads(s)
    BY <1>2, <2>1 DEF KeepsPhase, StillReads
  <2> QED
    BY <2>1, <2>2 DEF KeepsPhase, BaseInv, Phase
<1> QED
  BY <1>1, <1>2

\* So what remains of a step that commits nothing is what it does to its own data.
LEMMA OwnBase ==
    ASSUME BaseInv, NEW r \in Resources, LeavesAlone(r), CommitsNothing, KeepsPhase(r),
           AvoidsDropped(r), TypeOK',
           Flow(r)', Written(r)', Known(r)', GrantsExist(r)', DropsAlone(r)',
           mine'[r][r] \in Row => Named(roles, mine'[r][r].name) \subseteq {r}
    PROVE  BaseInv'
<1>1. config' \in Configurations'
  BY DEF BaseInv, LeavesAlone, Configurations
<1>2. Phase'
  BY PhaseStep
<1>3. Unique'
  BY DEF BaseInv, LeavesAlone, CommitsNothing, Unique, Named
<1>4. MembersExist'
  BY DEF BaseInv, CommitsNothing, MembersExist
<1>5. ASSUME NEW q \in Resources \ {r} PROVE GrantsExist(q)'
  BY DEF BaseInv, LeavesAlone, CommitsNothing, GrantsExist, View
<1>6. ASSUME NEW q \in Resources \ {r} PROVE DropsAlone(q)'
  <2>1. PairsOf(q)' = PairsOf(q) /\ \A p \in Pairs : Sees(q, p)' = Sees(q, p)
    BY DEF PairsOf, Sees, LeavesAlone, CommitsNothing
  <2>2. ASSUME mine'[q][q] = Absent, NEW p \in PairsOf(q)
        PROVE  Sees(q, p)' = "none" /\ \A s \in Resources \ {q} : own'[s][p] = Untouched
    <3>1. p \in Pairs /\ mine[q][q] = Absent
      BY <2>2 DEF PairsOf, LeavesAlone
    <3>2. Sees(q, p) = "none" /\ \A s \in Resources \ {q} : own[s][p] = Untouched
      BY <3>1 DEF BaseInv, DropsAlone
    <3>3. own'[r][p] = Untouched
      BY <3>1 DEF AvoidsDropped
    <3> QED
      BY <2>1, <3>1, <3>2, <3>3 DEF LeavesAlone
  <2> QED
    BY <2>1, <2>2 DEF DropsAlone
<1> QED
  BY <1>1, <1>2, <1>3, <1>4, <1>5, <1>6, OthersFlow, OthersWritten, OthersKnown DEF BaseInv

-----------------------------------------------------------------------------
(* The base of the invariant is kept: one lemma per kind of step. *)

\* Configured names are those of one resource.
LEMMA NamesDiffer ==
    ASSUME BaseInv, NEW r \in Resources, NEW q \in Resources \ {r},
           config[r] # Absent, config[q] # Absent
    PROVE  config[q].name # config[r].name
BY RoleAssumption, ConfigurationFacts DEF BaseInv, TypeOK

\* Until it commits, a transaction sees its own role under the name it looks for,
\* and no other: the role that its resource had, or is to have.
LEMMA FoundOwn ==
    ASSUME BaseInv, NEW r \in Resources,
           pc[r] \in {"lock", "members", "lockMembers", "rename", "alter", "list",
                      "revoke", "grant", "drop"}
    PROVE  Found(r) = {r}
<1> USE DEF BaseInv
<1>1. \A o \in Resources \ {r} : View(r)[o] = roles[o]
  BY ViewType DEF Written
<1>2. CASE pc[r] \in {"lock", "members", "lockMembers", "rename", "drop"}
  <2>1. View(r)[r] = roles[r]
    BY <1>2, ViewType DEF Written, Renames
  <2>2. Subject(r) = state[r].name /\ state[r] # Absent
    BY <1>2 DEF Subject, Flow
  <2>3. roles[r] # Absent /\ roles[r].name = state[r].name
        /\ Named(roles, state[r].name) \subseteq {r}
    BY <1>2, <2>2 DEF Known, Unread, StillReads
  <2> QED
    BY <1>1, <2>1, <2>2, <2>3 DEF Found, Named
<1>3. CASE pc[r] \in {"alter", "list", "revoke", "grant"}
  <2>1. op[r] \in {"create", "update"} /\ Subject(r) = config[r].name
    BY <1>3 DEF Subject, Flow
  <2>2. CASE mine[r][r] = Untouched
    <3>1. op[r] = "update" /\ config[r].name = state[r].name /\ state[r] # Absent
      BY <1>3, <2>1, <2>2 DEF Written, Renames, Flow
    <3>2. roles[r] # Absent /\ roles[r].name = state[r].name
          /\ Named(roles, state[r].name) \subseteq {r}
      BY <1>3, <3>1 DEF Known, Unread, StillReads
    <3> QED
      BY <1>1, <2>1, <2>2, <3>1, <3>2, ViewType DEF Found, Named
  <2>3. CASE mine[r][r] # Untouched
    <3>1. mine[r][r] \in Row
      BY <1>3, <2>3 DEF Written, TypeOK
    <3>2. mine[r][r].name = config[r].name /\ Named(roles, config[r].name) \subseteq {r}
      BY <3>1 DEF Written, Unique
    <3>3. View(r)[r] = mine[r][r] /\ mine[r][r] # Absent
      BY <2>3, <3>1, ViewType, RoleAssumption
    <3> QED
      BY <1>1, <2>1, <3>2, <3>3 DEF Found, Named
  <2> QED
    BY <2>2, <2>3
<1> QED
  BY <1>2, <1>3

\* What is not written or is given up stays out of the others' way.
LEMMA AvoidsIfKept ==
    ASSUME BaseInv, NEW r \in Resources, own' = own \/ own'[r] = NoPairs
    PROVE  AvoidsDropped(r)
<1> SUFFICES ASSUME NEW q \in Resources \ {r}, mine[q][q] = Absent, NEW p \in PairsOf(q)
             PROVE  own'[r][p] = Untouched
  BY DEF AvoidsDropped
<1>1. p \in Pairs /\ own[r][p] = Untouched
  BY DEF BaseInv, DropsAlone, PairsOf
<1> QED
  BY <1>1 DEF NoPairs

\* Refreshing, locking and listing write nothing.
LEMMA QuietStep ==
    ASSUME BaseInv, TypeOK', NEW r \in Resources,
           \/ Refresh(r) \/ LockRole(r) \/ FindMembers(r) \/ LockMember(r)
           \/ ListRoles(r) \/ AllRevoked(r)
    PROVE  BaseInv'
<1>1. UNCHANGED <<server, inputs, state, op>>
  BY DEF Refresh, LockRole, FindMembers, LockMember, ListRoles, AllRevoked
<1>2. \A q \in Resources \ {r} : pc'[q] = pc[q]
  BY DEF BaseInv, TypeOK, Refresh, LockRole, FindMembers, LockMember, ListRoles, AllRevoked,
         GoTo, Participants
<1>3. \/ /\ pc[r] = "idle" /\ pc'[r] = (IF state[r] = Absent THEN "plan" ELSE "read")
      \/ pc[r] = "lock" /\ pc'[r] = "members"
      \/ pc[r] = "members" /\ pc'[r] = "lockMembers"
      \/ /\ pc[r] = "lockMembers"
         /\ pc'[r] \in {"lockMembers", IF op[r] = "delete" THEN "drop" ELSE "rename"}
      \/ pc[r] = "list" /\ pc'[r] = "revoke"
      \/ pc[r] = "revoke" /\ pc'[r] = "grant"
  BY DEF BaseInv, TypeOK, Refresh, LockRole, FindMembers, LockMember, ListRoles, AllRevoked,
         GoTo, Participants
<1>4. \A q \in Resources \ {r} : todo'[q] = todo[q] /\
         \A o \in Resources : holder[o] = q => holder'[o] = q
  <2>1. CASE LockRole(r)
    <3>1. \A o \in Resources : holder[o] \in Resources => holder'[o] = holder[o]
      BY <2>1, RoleAssumption, ViewType DEF BaseInv, LockRole
    <3> QED
      BY <2>1, <3>1 DEF LockRole
  <2>2. CASE LockMember(r)
    <3>1. \A o \in Resources : holder'[o] # holder[o] => holder[o] \in {r, Nobody}
      BY <2>2 DEF BaseInv, TypeOK, LockMember
    <3> QED
      BY <2>2, <3>1, RoleAssumption DEF BaseInv, TypeOK, LockMember
  <2>3. CASE Refresh(r) \/ FindMembers(r) \/ ListRoles(r) \/ AllRevoked(r)
    BY <2>3 DEF BaseInv, TypeOK, Refresh, FindMembers, ListRoles, AllRevoked
  <2> QED
    BY <2>1, <2>2, <2>3
<1>5. LeavesAlone(r) /\ CommitsNothing
  BY <1>1, <1>2, <1>4 DEF LeavesAlone, CommitsNothing, RunGoesOn
<1>6. Flow(r)'
  BY <1>1, <1>3 DEF BaseInv, Flow
<1>7. Written(r)'
  BY <1>1, <1>3 DEF BaseInv, Written, Renames
<1>8. Known(r)'
  BY <1>1, <1>3 DEF BaseInv, Flow, Known, Unread, StillReads, Named
<1>9. GrantsExist(r)' /\ DropsAlone(r)'
  BY <1>1 DEF BaseInv, GrantsExist, DropsAlone, View, Sees
<1>10. KeepsPhase(r)
  BY <1>1, <1>3 DEF BaseInv, Phase, Flow, KeepsPhase, StillReads
<1>11. mine'[r][r] \in Row => Named(roles, mine'[r][r].name) \subseteq {r}
  BY <1>1 DEF BaseInv, Unique
<1> QED
  BY <1>1, <1>5, <1>6, <1>7, <1>8, <1>9, <1>10, <1>11, AvoidsIfKept, OwnBase

\* An operation is planned, or there is nothing to do.
LEMMA PlanStep == ASSUME BaseInv, TypeOK', NEW r \in Resources, Plan(r) PROVE BaseInv'
<1>1. UNCHANGED <<server, holder, inputs, state, granted, todo>> /\ pc[r] = "plan" /\ AllRead
  BY DEF Plan
<1>2. \A q \in Resources : ~StillReads(q)
  BY <1>1 DEF BaseInv, Flow, AllRead, StillReads
<1>3. \/ /\ RunGoesOn(r) /\ op' = [op EXCEPT ![r] = "refresh"]
         /\ pc'[r] \in {"idle", "over"} /\ Wanted(r) = {}
         /\ pc'[r] = "idle" => \A q \in Resources : pc'[q] = "idle"
      \/ \E o \in Wanted(r) :
           /\ op' = [op EXCEPT ![r] = o]
           /\ pc'[r] = (IF o = "create" THEN "create" ELSE "lock") /\ RunGoesOn(r)
           /\ \A q \in Resources \ {r} : pc'[q] = pc[q]
  BY RunGoesOnFacts DEF BaseInv, Plan, Return, Participants, RunGoesOn
<1>4. \A o \in Wanted(r) :
        /\ o \in {"create", "update", "delete"}
        /\ o = "create" => state[r] = Absent
        /\ o \in {"update", "delete"} => state[r] # Absent
        /\ o \in {"create", "update"} => config[r] # Absent
  BY DEF Wanted
<1>5. LeavesAlone(r) /\ CommitsNothing
  BY <1>1, <1>3 DEF LeavesAlone, CommitsNothing, BaseInv, TypeOK
<1>6. Flow(r)'
  BY <1>1, <1>3, <1>4 DEF BaseInv, TypeOK, Flow
<1>7. Written(r)'
  BY <1>1, <1>3, <1>4 DEF BaseInv, TypeOK, Written, Renames
<1>8. Known(r)'
  BY <1>1, <1>2, <1>3 DEF BaseInv, Flow, Known, Unread, StillReads, Named
<1>9. GrantsExist(r)' /\ DropsAlone(r)'
  BY <1>1 DEF BaseInv, GrantsExist, DropsAlone, View, Sees
<1>10. KeepsPhase(r)
  BY <1>2, <1>3 DEF KeepsPhase, StillReads
<1>11. mine'[r][r] \in Row => Named(roles, mine'[r][r].name) \subseteq {r}
  BY <1>1 DEF BaseInv, Unique
<1> QED
  BY <1>1, <1>5, <1>6, <1>7, <1>8, <1>9, <1>10, <1>11, AvoidsIfKept, OwnBase

\* The role is created, renamed or altered, in the transaction's own view.
LEMMA RowStep ==
    ASSUME BaseInv, TypeOK', NEW r \in Resources, NEW row,
           row = Untouched \/ (row \in Row /\ row.name = config[r].name),
           Named(roles, config[r].name) \subseteq {r},
           mine' = [mine EXCEPT ![r][r] = row], UNCHANGED <<roles, members, own>>,
           UNCHANGED <<holder, inputs, state, granted, op>>,
           \A q \in Resources \ {r} : todo'[q] = todo[q] /\ pc'[q] = pc[q],
           \/ pc[r] = "create" /\ pc'[r] = "grant" /\ row # Untouched
           \/ pc[r] = "rename" /\ pc'[r] = "alter"
                /\ (row = Untouched => config[r].name = state[r].name)
           \/ pc[r] = "alter" /\ pc'[r] = "list"
                /\ (row = Untouched => mine[r][r] = Untouched)
           \/ pc[r] = "grant" /\ pc'[r] = "commit" /\ row # Untouched
    PROVE  BaseInv'
<1> USE RoleAssumption
<1>1. mine'[r][r] = row /\ row # Absent /\ \A q \in Resources, o \in Resources :
         q # r \/ o # r => mine'[q][o] = mine[q][o]
  BY DEF BaseInv, TypeOK
<1>2. LeavesAlone(r) /\ CommitsNothing
  BY <1>1 DEF LeavesAlone, CommitsNothing, RunGoesOn, BaseInv, TypeOK
<1>3. Flow(r)'
  BY DEF BaseInv, Flow
<1>4. Written(r)'
  BY <1>1 DEF BaseInv, Flow, Written, Renames
<1>5. Known(r)'
  BY DEF BaseInv, Flow, Known, Unread, StillReads, Named
<1>6. \A o \in Resources : View(r)[o] # Absent => View(r)'[o] # Absent
  <2>1. \A o \in Resources :
          View(r)'[o] = IF mine'[r][o] = Untouched THEN roles'[o] ELSE mine'[r][o]
    BY DEF View
  <2>2. CASE row = Untouched
    <3>1. mine[r][r] \in {Untouched, Absent} \/ pc[r] = "rename"
      BY <2>2
    <3>2. mine[r][r] = Untouched
      BY <2>2, <3>1 DEF BaseInv, Written, Renames
    <3> QED
      BY <1>1, <2>1, <2>2, <3>2, ViewType DEF BaseInv
  <2>3. CASE row # Untouched
    BY <1>1, <2>1, <2>3, ViewType DEF BaseInv
  <2> QED
    BY <2>2, <2>3
<1>7. GrantsExist(r)'
  BY <1>6 DEF BaseInv, GrantsExist, Pairs
<1>8. DropsAlone(r)'
  BY <1>1 DEF DropsAlone
<1>9. KeepsPhase(r)
  BY DEF BaseInv, Phase, Flow, KeepsPhase, StillReads
<1>10. mine'[r][r] \in Row => Named(roles, mine'[r][r].name) \subseteq {r}
  BY <1>1
<1> QED
  BY <1>2, <1>3, <1>4, <1>5, <1>7, <1>8, <1>9, <1>10, AvoidsIfKept, OwnBase

\* A role with the configured name is the resource's own, once it has that name.
LEMMA NameKept ==
    ASSUME BaseInv, NEW r \in Resources, pc[r] \in {"alter", "grant"}
    PROVE  Named(roles, config[r].name) \subseteq {r} /\ View(r)[r] \in Row
           /\ View(r)[r].name = config[r].name
<1>1. Found(r) = {r} /\ Subject(r) = config[r].name
  BY FoundOwn DEF Subject, BaseInv, Flow
<1>2. View(r)[r] \in Row /\ View(r)[r].name = config[r].name
  BY <1>1, ViewType DEF BaseInv, Found, Named
<1>3. \A o \in Resources \ {r} : View(r)[o] = roles[o]
  BY ViewType DEF BaseInv, Written
<1> QED
  BY <1>1, <1>2, <1>3 DEF Found, Named

\* The statements of Create and Update that write the operation's own role.
LEMMA MineStep ==
    ASSUME BaseInv, TypeOK', NEW r \in Resources,
           CreateRole(r) \/ Rename(r) \/ Alter(r) \/ Settings(r)
    PROVE  BaseInv'
<1> USE RoleAssumption
<1>0. /\ UNCHANGED <<roles, members, own, holder, inputs, state, granted, op>>
      /\ \A q \in Resources \ {r} : todo'[q] = todo[q] /\ pc'[q] = pc[q]
  BY RunGoesOnFacts DEF BaseInv, TypeOK, CreateRole, Rename, Alter, Settings, Participants
<1>1. mine'[r][r] \in Row \cup {Absent, Untouched} /\ r \in Participants
  BY DEF TypeOK, Participants
<1>2. CASE CreateRole(r)
  <2> DEFINE row == [name |-> config[r].name, password |-> config[r].password.value,
                     options |-> config[r].options \cap {"attribute"}]
  <2>1. mine' = [mine EXCEPT ![r][r] = row] /\ row.name = config[r].name
    BY <1>2 DEF CreateRole
  <2>2. mine'[r][r] = row
    BY <2>1 DEF BaseInv, TypeOK
  <2>3. row # Absent /\ row # Untouched /\ row \in Row
    <3>1. config[r] \in Config
      BY <1>2 DEF BaseInv, TypeOK, Flow, CreateRole
    <3>2. row \in Row
      BY <3>1 DEF Config, ConfiguredPassword, Password, Row
    <3> QED
      BY <3>2
  <2>4. Named(roles, config[r].name) \subseteq {r} /\ pc[r] = "create" /\ pc'[r] = "grant"
    BY <1>1, <1>2, RunGoesOnFacts DEF BaseInv, CreateRole
  <2> HIDE DEF row
  <2> QED
    BY <1>0, <2>1, <2>3, <2>4, RowStep
<1>3. CASE Rename(r)
  <2>1. pc[r] = "rename" /\ pc'[r] = "alter" /\ mine[r][r] = Untouched /\ Found(r) = {r}
    BY <1>1, <1>3, FoundOwn, RunGoesOnFacts DEF BaseInv, Rename, Written, Renames
  <2>2. CASE config[r].name = state[r].name /\ UNCHANGED mine
    <3>1. mine' = [mine EXCEPT ![r][r] = Untouched]
      BY <2>1, <2>2 DEF BaseInv, TypeOK
    <3>2. Named(roles, config[r].name) \subseteq {r}
      BY <2>1, <2>2 DEF BaseInv, Flow, Known, Unread
    <3> QED
      BY <1>0, <2>1, <2>2, <3>1, <3>2, RowStep
  <2>3. CASE config[r].name # state[r].name
    <3>1. /\ Named(roles, config[r].name) = {}
          /\ mine' = [mine EXCEPT ![r][r] = Renamed(r, View(r)[r])]
      BY <1>3, <2>1, <2>3 DEF Rename
    <3>2. View(r)[r] \in Row
      BY <2>1, ViewType DEF BaseInv
    <3>3. config[r] \in Config
      BY <2>1 DEF BaseInv, TypeOK, Flow
    <3>4. Renamed(r, View(r)[r]) \in Row /\ Renamed(r, View(r)[r]).name = config[r].name
      BY <3>2, <3>3 DEF Renamed, Row, Config
    <3> QED
      BY <1>0, <2>1, <3>1, <3>4, RowStep
  <2> QED
    BY <1>3, <2>2, <2>3 DEF Rename
<1>4. CASE Alter(r)
  <2>1. pc[r] = "alter" /\ pc'[r] = "list" /\ Found(r) = {r}
    BY <1>1, <1>4, FoundOwn, RunGoesOnFacts DEF BaseInv, Alter
  <2>2. CASE UNCHANGED mine
    <3>1. mine' = [mine EXCEPT ![r][r] = mine[r][r]]
      BY <2>2 DEF BaseInv, TypeOK
    <3>2. mine[r][r] = Untouched \/ (mine[r][r] \in Row /\ mine[r][r].name = config[r].name)
      BY <2>1 DEF BaseInv, TypeOK, Written
    <3> QED
      BY <1>0, <2>1, <3>1, <3>2, NameKept, RowStep
  <2>3. CASE mine' # mine
    <3>1. mine' = [mine EXCEPT ![r][r] = Altered(r, View(r)[r])]
      BY <1>4, <2>1, <2>3 DEF Alter
    <3>2. mine'[r][r] = Altered(r, View(r)[r])
      BY <3>1 DEF BaseInv, TypeOK
    <3>3. config[r] \in Config
      BY <2>1 DEF BaseInv, TypeOK, Flow
    <3>4. View(r)[r] \in Row /\ View(r)[r].name = config[r].name
      BY <2>1, NameKept
    <3>5. With(View(r)[r].options, r, "attribute") \subseteq Options
      BY <3>3, <3>4 DEF With, Row, Config
    <3>6. Altered(r, View(r)[r]) \in Row /\ Altered(r, View(r)[r]).name = config[r].name
      BY <3>3, <3>4, <3>5 DEF Altered, Row, Config, ConfiguredPassword, Password
    <3> QED
      BY <1>0, <2>1, <3>1, <3>6, NameKept, RowStep
  <2> QED
    BY <2>2, <2>3
<1>5. CASE Settings(r)
  <2>1. pc[r] = "grant" /\ pc'[r] = "commit" /\ Found(r) = {r}
    BY <1>1, <1>5, FoundOwn, RunGoesOnFacts DEF BaseInv, Settings
  <2> DEFINE row == [View(r)[r] EXCEPT !.options = NewSettings(r, @)]
  <2>2. mine' = [mine EXCEPT ![r][r] = row]
    BY <1>5, <2>1 DEF Settings
  <2>3. config[r] \in Config
    BY <2>1 DEF BaseInv, TypeOK, Flow
  <2>4. View(r)[r] \in Row /\ View(r)[r].name = config[r].name
    BY <2>1, NameKept
  <2>5. NewSettings(r, View(r)[r].options) \subseteq Options
    BY <2>3, <2>4 DEF NewSettings, With, Row, Config
  <2>6. row \in Row /\ row.name = config[r].name
    BY <2>4, <2>5 DEF Row
  <2> HIDE DEF row
  <2> QED
    BY <1>0, <2>1, <2>2, <2>6, NameKept, RowStep
<1> QED
  BY <1>2, <1>3, <1>4, <1>5

\* Memberships of the role are revoked and granted while the groups are there.
LEMMA OwnRowsStep ==
    ASSUME BaseInv, TypeOK', NEW r \in Resources, RevokeRole(r) \/ GrantTo(r)
    PROVE  BaseInv'
<1> USE RoleAssumption
<1>1. PICK x \in Resources, level \in {"none", "member"} :
        /\ DropHolders(r, x) = {} /\ View(r)[x] # Absent
        /\ own' = own \/ own' = [own EXCEPT ![r][<<x, r>>] = level]
  <2>1. Found(r) = {r}
    BY FoundOwn DEF RevokeRole, GrantTo
  <2>2. CASE RevokeRole(r)
    <3>1. PICK n \in todo[r] : \E x \in Named(View(r), n) :
            /\ RowHolders(r, <<x, r>>) \cup DropHolders(r, x) = {}
            /\ own' = own \/ Write(r, <<x, r>>, "none")
      BY <2>1, <2>2 DEF RevokeRole
    <3> QED
      BY <3>1 DEF Write, Named
  <2>3. CASE GrantTo(r)
    <3>1. PICK n \in todo[r] : \E x \in Named(View(r), n) :
            /\ RowHolders(r, <<x, r>>) \cup DropHolders(r, x) = {}
            /\ own' = own \/ Write(r, <<x, r>>, "member")
      BY <2>1, <2>3 DEF GrantTo
    <3> QED
      BY <3>1 DEF Write, Named
  <2> QED
    BY <2>2, <2>3
<1>2. /\ UNCHANGED <<roles, members, mine, holder, inputs, state, granted, op, pc>>
      /\ \A q \in Resources \ {r} : todo'[q] = todo[q]
  BY DEF RevokeRole, GrantTo, BaseInv, TypeOK
<1>3. \A q \in Resources, p \in Pairs : own'[q][p] # own[q][p] => q = r /\ p = <<x, r>>
  BY <1>1 DEF BaseInv, TypeOK
<1>4. LeavesAlone(r) /\ CommitsNothing
  BY <1>1, <1>2 DEF LeavesAlone, CommitsNothing, RunGoesOn, BaseInv, TypeOK
<1>5. pc[r] \in {"revoke", "grant"} /\ op[r] # "delete" /\ mine[r][r] # Absent
  BY DEF RevokeRole, GrantTo, BaseInv, Flow, Written
<1>6. Flow(r)' /\ Known(r)'
  BY <1>2 DEF BaseInv, Flow, Known, Unread, StillReads, Named
<1>7. Written(r)'
  BY <1>2, <1>3, <1>5 DEF BaseInv, Written, Renames, PairsOf
<1>8. GrantsExist(r)'
  <2>1. View(r)' = View(r)
    BY <1>2 DEF View
  <2>2. View(r)[r] # Absent
    BY <1>5, FoundOwn DEF Found, Named
  <2> QED
    BY <1>1, <1>3, <2>1, <2>2 DEF BaseInv, GrantsExist
<1>9. DropsAlone(r)'
  BY <1>2, <1>5 DEF DropsAlone
<1>10. AvoidsDropped(r)
  <2> SUFFICES ASSUME NEW q \in Resources \ {r}, mine[q][q] = Absent, NEW p \in PairsOf(q)
               PROVE  own'[r][p] = Untouched
    BY DEF AvoidsDropped
  <2>1. p \in Pairs /\ own[r][p] = Untouched
    BY DEF BaseInv, DropsAlone, PairsOf
  <2>2. q # x
    BY <1>1 DEF DropHolders
  <2>3. p # <<x, r>>
    BY <2>2 DEF PairsOf
  <2> QED
    BY <1>3, <2>1, <2>3
<1>11. KeepsPhase(r)
  BY <1>2, <1>5 DEF BaseInv, Phase, Flow, KeepsPhase, StillReads
<1>12. mine'[r][r] \in Row => Named(roles, mine'[r][r].name) \subseteq {r}
  BY <1>2 DEF BaseInv, Unique
<1> QED
  BY <1>4, <1>6, <1>7, <1>8, <1>9, <1>10, <1>11, <1>12, OwnBase

\* A role is dropped when no other transaction writes its memberships.
LEMMA DropStep ==
    ASSUME BaseInv, TypeOK', NEW r \in Resources, DropRole(r)
    PROVE  BaseInv'
<1> USE RoleAssumption
<1>1. /\ pc[r] = "drop" /\ Found(r) = {r}
      /\ UNCHANGED <<roles, members, holder, inputs, state, granted, op, todo>>
  BY FoundOwn DEF DropRole
<1>2. /\ \A p \in PairsOf(r) : RowHolders(r, p) = {}
      /\ mine' = [mine EXCEPT ![r][r] = Absent]
      /\ own' = [own EXCEPT ![r] = [p \in Pairs |->
                   IF p \in PairsOf(r) /\ Sees(r, p) # "none" THEN "none" ELSE own[r][p]]]
  BY <1>1 DEF DropRole
<1>3. pc'[r] = "commit" /\ \A q \in Resources \ {r} : pc'[q] = pc[q]
  BY RunGoesOnFacts DEF DropRole, BaseInv, Participants
<1>4. /\ mine'[r][r] = Absent
      /\ \A q \in Resources, o \in Resources : q # r \/ o # r => mine'[q][o] = mine[q][o]
      /\ \A q \in Resources \ {r} : mine'[q] = mine[q] /\ own'[q] = own[q]
  BY <1>2 DEF BaseInv, TypeOK
<1>5. \A p \in Pairs : own[r][p] = Untouched
  BY <1>1 DEF BaseInv, Written
<1>6. \A p \in Pairs :
        own'[r][p] = IF p \in PairsOf(r) /\ members[p] # "none" THEN "none" ELSE Untouched
  BY <1>2, <1>5 DEF BaseInv, TypeOK, Sees
<1>7. LeavesAlone(r) /\ CommitsNothing
  BY <1>1, <1>3, <1>4 DEF LeavesAlone, CommitsNothing, RunGoesOn
<1>8. op[r] = "delete" /\ Flow(r)' /\ Known(r)'
  BY <1>1, <1>3 DEF BaseInv, Flow, Known, Unread, StillReads, Named
<1>9. Written(r)'
  BY <1>3, <1>4, <1>6, <1>1, <1>8 DEF BaseInv, Written, Renames, Flow, TypeOK
<1>10. GrantsExist(r)'
  BY <1>6 DEF GrantsExist, Level
<1>11. DropsAlone(r)'
  <2> SUFFICES ASSUME NEW p \in PairsOf(r)
               PROVE  Sees(r, p)' = "none" /\ \A q \in Resources \ {r} : own'[q][p] = Untouched
    BY DEF DropsAlone, PairsOf
  <2>1. p \in Pairs
    BY DEF PairsOf
  <2>2. Sees(r, p)' = "none"
    BY <1>1, <1>6, <2>1 DEF Sees, Level
  <2>3. \A q \in Resources \ {r} : own[q][p] = Untouched
    BY <1>2 DEF RowHolders
  <2> QED
    BY <1>4, <2>2, <2>3
<1>12. AvoidsDropped(r)
  <2> SUFFICES ASSUME NEW q \in Resources \ {r}, mine[q][q] = Absent, NEW p \in PairsOf(q)
               PROVE  own'[r][p] = Untouched
    BY DEF AvoidsDropped
  <2>1. p \in Pairs /\ Sees(q, p) = "none"
    BY DEF BaseInv, DropsAlone, PairsOf
  <2>2. p \in PairsOf(r) => own[q][p] = Untouched
    BY <1>2 DEF RowHolders
  <2>3. p \in PairsOf(r) => members[p] = "none"
    BY <2>1, <2>2 DEF Sees
  <2> QED
    BY <1>6, <2>1, <2>3
<1>13. KeepsPhase(r)
  BY <1>1, <1>3, <1>8 DEF BaseInv, Phase, Flow, KeepsPhase, StillReads
<1>14. mine'[r][r] \in Row => Named(roles, mine'[r][r].name) \subseteq {r}
  BY <1>4
<1> QED
  BY <1>7, <1>8, <1>9, <1>10, <1>11, <1>12, <1>13, <1>14, OwnBase

\* A failure gives up what the transaction has written.
LEMMA FailStep ==
    ASSUME BaseInv, TypeOK', NEW r \in Resources, Fail(r),
           pc[r] \notin {"idle", "plan", "read", "over"}
    PROVE  BaseInv'
<1>1. /\ UNCHANGED <<roles, members, scenario, config, edits, drifts, state, granted>>
      /\ EndTransaction(r) /\ op' = [op EXCEPT ![r] = "refresh"]
  BY DEF Fail, Return
<1>2. /\ mine'[r] = NoRows /\ own'[r] = NoPairs /\ op'[r] = "refresh"
      /\ \A q \in Resources \ {r} : /\ mine'[q] = mine[q] /\ own'[q] = own[q]
                                   /\ op'[q] = op[q] /\ todo'[q] = todo[q]
      /\ \A q \in Resources \ {r}, o \in Resources : holder[o] = q => holder'[o] = q
  BY <1>1 DEF BaseInv, TypeOK, EndTransaction
<1>3. /\ RunGoesOn(r) /\ pc'[r] \in {"idle", "over"}
      /\ pc'[r] = "idle" => \A q \in Resources : pc'[q] = "idle"
  BY RunGoesOnFacts DEF Fail, Return, BaseInv, Participants
<1>4. LeavesAlone(r) /\ CommitsNothing
  BY <1>1, <1>2, <1>3 DEF LeavesAlone, CommitsNothing
<1>5. \A q \in Resources : ~StillReads(q)
  BY DEF BaseInv, Phase, StillReads, Flow
<1>6. Flow(r)'
  BY <1>2, <1>3 DEF Flow
<1>7. Written(r)'
  BY <1>2, <1>3, RoleAssumption DEF Written, NoRows, NoPairs, Renames
<1>8. Known(r)'
  BY <1>1, <1>2, <1>3, <1>5 DEF BaseInv, Flow, Known, Unread, StillReads, Named
<1>9. GrantsExist(r)' /\ DropsAlone(r)'
  BY <1>2, RoleAssumption DEF GrantsExist, DropsAlone, NoRows, NoPairs
<1>10. KeepsPhase(r)
  BY <1>3, <1>5 DEF KeepsPhase, StillReads
<1>11. mine'[r][r] \in Row => Named(roles, mine'[r][r].name) \subseteq {r}
  BY <1>2, RoleAssumption DEF NoRows
<1> QED
  BY <1>2, <1>4, <1>6, <1>7, <1>8, <1>9, <1>10, <1>11, AvoidsIfKept, OwnBase

\* What a transaction publishes: its own role, with the configured name, or
\* that it is gone.
LEMMA Published ==
    ASSUME BaseInv, NEW r \in Resources, Commit(r)
    PROVE  /\ \A o \in Resources \ {r} : roles'[o] = roles[o]
           /\ op[r] = "delete" => roles'[r] = Absent
           /\ op[r] # "delete" =>
                /\ op[r] \in {"create", "update"} /\ config[r] # Absent
                /\ roles'[r] \in Row /\ roles'[r].name = config[r].name
                /\ Named(roles, config[r].name) \subseteq {r}
           /\ \A p \in Pairs : own[r][p] = Untouched => members'[p] = members[p]
           /\ members' \in [Pairs -> Level]
           /\ \A q \in Resources : ~StillReads(q)
<1> USE RoleAssumption DEF BaseInv
<1>1. roles' = View(r) /\ members' = [p \in Pairs |-> Sees(r, p)] /\ pc[r] = "commit"
  BY DEF Commit
<1>2. \A o \in Resources \ {r} : roles'[o] = roles[o]
  BY <1>1, ViewType DEF Written
<1>3. op[r] = "delete" => roles'[r] = Absent
  BY <1>1, ViewType DEF Written
<1>4. ASSUME op[r] # "delete"
      PROVE  /\ op[r] \in {"create", "update"} /\ config[r] # Absent
             /\ roles'[r] \in Row /\ roles'[r].name = config[r].name
             /\ Named(roles, config[r].name) \subseteq {r}
  <2>1. op[r] \in {"create", "update"} /\ config[r] # Absent
    BY <1>1, <1>4 DEF Flow, TypeOK
  <2>2. CASE mine[r][r] = Untouched
    <3>1. op[r] = "update" /\ config[r].name = state[r].name /\ state[r] # Absent
      BY <1>1, <2>1, <2>2 DEF Written, Renames, Flow
    <3>2. roles[r] # Absent /\ roles[r].name = state[r].name
          /\ Named(roles, state[r].name) \subseteq {r}
      BY <1>1, <3>1 DEF Known, Unread, StillReads
    <3> QED
      BY <1>1, <2>1, <2>2, <3>1, <3>2, ViewType DEF TypeOK
  <2>3. CASE mine[r][r] # Untouched
    <3>1. mine[r][r] \in Row /\ mine[r][r].name = config[r].name
      BY <1>1, <1>4, <2>3 DEF Written, TypeOK
    <3> QED
      BY <1>1, <2>1, <2>3, <3>1, ViewType DEF Unique
  <2> QED
    BY <2>2, <2>3
<1>5. \A q \in Resources : ~StillReads(q)
  BY <1>1 DEF Phase, StillReads, Flow
<1> QED
  BY <1>1, <1>2, <1>3, <1>4, <1>5, ViewType DEF Sees

\* A transaction publishes what it has written.
LEMMA CommitStep ==
    ASSUME BaseInv, TypeOK', NEW r \in Resources, Commit(r)
    PROVE  BaseInv'
<1> USE RoleAssumption
<1>1. /\ pc[r] = "commit" /\ roles' = View(r) /\ EndTransaction(r)
      /\ UNCHANGED <<inputs, granted, op>>
      /\ members' = [p \in Pairs |-> Sees(r, p)]
  BY DEF Commit
<1>2. /\ mine'[r] = NoRows /\ own'[r] = NoPairs
      /\ \A q \in Resources \ {r} : /\ mine'[q] = mine[q] /\ own'[q] = own[q]
                                   /\ op'[q] = op[q] /\ todo'[q] = todo[q]
      /\ \A q \in Resources \ {r}, o \in Resources : holder[o] = q => holder'[o] = q
  BY <1>1 DEF BaseInv, TypeOK, EndTransaction
<1>3. /\ \A q \in Resources \ {r} : pc'[q] = pc[q] /\ state'[q] = state[q]
      /\ op[r] = "delete" => pc'[r] = "plan" /\ state'[r] = Absent
      /\ op[r] # "delete" => pc'[r] = "read" /\ state'[r] = state[r]
  BY RunGoesOnFacts DEF Commit, BaseInv, TypeOK, Participants
<1>4. LeavesAlone(r)
  BY <1>1, <1>2, <1>3 DEF LeavesAlone, RunGoesOn
<1>5. config' \in Configurations'
  BY <1>1 DEF BaseInv, Configurations
<1>6. Flow(r)'
  BY <1>1, <1>3 DEF BaseInv, Flow
<1>7. Phase'
  <2>1. KeepsPhase(r)
    BY <1>1, <1>3, Published DEF BaseInv, Flow, KeepsPhase, StillReads
  <2> QED
    BY <1>4, <1>6, <2>1, PhaseStep
<1>8. Unique'
  <2>1. ASSUME NEW o \in Resources, roles'[o] # Absent
        PROVE  Named(roles', roles'[o].name) \subseteq {o}
    <3>1. CASE o = r
      BY <2>1, <3>1, Published DEF Named
    <3>2. CASE o # r
      <4>1. roles'[o] = roles[o] /\ Named(roles, roles[o].name) \subseteq {o}
        BY <2>1, <3>2, Published DEF BaseInv, Unique
      <4>2. roles'[r] = Absent \/ roles'[r].name # roles[o].name
        BY <2>1, <3>2, <4>1, Published DEF Named
      <4> QED
        BY <3>2, <4>1, <4>2, Published DEF Named
    <3> QED
      BY <3>1, <3>2
  <2>2. ASSUME NEW o \in Resources, mine'[o][o] \in Row
        PROVE  Named(roles', mine'[o][o].name) \subseteq {o}
    <3>1. o # r /\ mine[o][o] \in Row /\ mine'[o][o] = mine[o][o]
      BY <1>2, <2>2 DEF NoRows
    <3>2. /\ mine[o][o].name = config[o].name /\ config[o] # Absent
          /\ Named(roles, config[o].name) \subseteq {o}
      <4>1. Renames(o) /\ ~(pc[o] = "commit" /\ op[o] = "delete")
        BY <3>1 DEF BaseInv, Written
      <4>2. op[o] \in {"create", "update"}
        BY <4>1 DEF BaseInv, TypeOK, Renames, Flow
      <4> QED
        BY <3>1, <4>2 DEF BaseInv, Written, Flow, Unique
    <3>3. roles'[r] = Absent \/ roles'[r].name # config[o].name
      BY <3>1, <3>2, Published, NamesDiffer
    <3> QED
      BY <3>1, <3>2, <3>3, Published DEF Named
  <2> QED
    BY <2>1, <2>2 DEF Unique, Named
<1>9. MembersExist'
  <2> SUFFICES ASSUME NEW p \in Pairs, members'[p] # "none"
               PROVE  roles'[p[1]] # Absent /\ roles'[p[2]] # Absent
    BY DEF MembersExist
  <2>1. Sees(r, p) # "none"
    BY <1>1
  <2>2. CASE own[r][p] = Untouched
    <3>1. roles[p[1]] # Absent /\ roles[p[2]] # Absent /\ p[1] \in Resources /\ p[2] \in Resources
      BY <2>1, <2>2 DEF Sees, BaseInv, MembersExist, Pairs
    <3>2. p \in PairsOf(r) => mine[r][r] # Absent
      BY <2>1 DEF BaseInv, DropsAlone
    <3>3. p \in PairsOf(r) => roles'[r] # Absent
      BY <1>1, <3>2, Published DEF BaseInv, Written
    <3> QED
      BY <3>1, <3>3, Published DEF PairsOf
  <2>3. CASE own[r][p] # Untouched
    BY <1>1, <2>1, <2>3 DEF Sees, BaseInv, GrantsExist
  <2> QED
    BY <2>2, <2>3
<1>10. Written(r)'
  BY <1>2, <1>3 DEF Written, NoRows, NoPairs, Renames
<1>11. Known(r)'
  BY <1>1, <1>3, Published DEF BaseInv, Flow, Known, Unread
<1>12. GrantsExist(r)' /\ DropsAlone(r)'
  BY <1>2 DEF GrantsExist, DropsAlone, NoRows, NoPairs
<1>13. ASSUME NEW q \in Resources \ {r} PROVE Known(q)'
  <2>1. roles'[q] = roles[q] /\ state'[q] = state[q] /\ Unread(q)' = Unread(q) /\ ~StillReads(q)
        /\ config' = config /\ Known(q)
    BY <1>1, <1>2, <1>3, Published DEF Unread, BaseInv
  <2>2. CASE Unread(q)
    BY <2>1, <2>2 DEF Known
  <2>3. CASE ~Unread(q) /\ state[q] = Absent
    BY <2>1, <2>3 DEF Known
  <2>4. CASE ~Unread(q) /\ state[q] # Absent
    <3>1. roles[q] # Absent /\ roles[q].name = state[q].name
          /\ Named(roles, state[q].name) \subseteq {q}
      BY <2>1, <2>4 DEF Known
    <3>2. roles'[r] = Absent \/ roles'[r].name # state[q].name
      BY <3>1, Published DEF Named
    <3>3. Named(roles', state[q].name) \subseteq {q}
      BY <3>1, <3>2, Published DEF Named
    <3> QED
      BY <2>1, <2>4, <3>1, <3>3 DEF Known, Named
  <2> QED
    BY <2>2, <2>3, <2>4
<1>14. ASSUME NEW q \in Resources \ {r} PROVE GrantsExist(q)'
  <2> SUFFICES ASSUME NEW p \in Pairs, own'[q][p] \notin {Untouched, "none"}, NEW o \in {p[1], p[2]}
               PROVE  View(q)'[o] # Absent
    BY DEF GrantsExist
  <2>1. own[q][p] \notin {Untouched, "none"} /\ View(q)[o] # Absent /\ o \in Resources
    BY <1>2 DEF BaseInv, GrantsExist, Pairs
  <2>2. View(q)'[o] = IF mine'[q][o] = Untouched THEN roles'[o] ELSE mine'[q][o]
    BY <2>1 DEF View
  <2>3. View(q)[o] = IF mine[q][o] = Untouched THEN roles[o] ELSE mine[q][o]
    BY <2>1 DEF View
  <2>4. CASE o = r
    <3>1. mine[r][r] # Absent
      BY <2>1, <2>4 DEF BaseInv, DropsAlone, PairsOf
    <3>2. roles'[r] # Absent
      BY <1>1, <3>1, Published DEF BaseInv, Written
    <3> QED
      BY <1>2, <2>1, <2>2, <2>3, <2>4, <3>2
  <2>5. CASE o # r
    BY <1>2, <2>1, <2>2, <2>3, <2>5, Published
  <2> QED
    BY <2>4, <2>5
<1>15. ASSUME NEW q \in Resources \ {r} PROVE DropsAlone(q)'
  <2> SUFFICES ASSUME mine'[q][q] = Absent, NEW p \in PairsOf(q)
               PROVE  Sees(q, p)' = "none" /\ \A s \in Resources \ {q} : own'[s][p] = Untouched
    BY DEF DropsAlone, PairsOf
  <2>1. p \in Pairs /\ Sees(q, p) = "none" /\ \A s \in Resources \ {q} : own[s][p] = Untouched
    BY <1>2 DEF BaseInv, DropsAlone, PairsOf
  <2>2. members'[p] = members[p]
    BY <2>1, Published
  <2>3. Sees(q, p)' = "none"
    BY <1>2, <2>1, <2>2 DEF Sees
  <2> QED
    BY <1>2, <2>1, <2>3 DEF NoPairs
<1> QED
  BY <1>4, <1>5, <1>6, <1>7, <1>8, <1>9, <1>10, <1>11, <1>12, <1>13, <1>14, <1>15,
     OthersFlow, OthersWritten DEF BaseInv

\* A reading finds the resource's own role, or none.
LEMMA ReadStep ==
    ASSUME BaseInv, TypeOK', NEW r \in Resources, Read(r)
    PROVE  BaseInv'
<1> DEFINE found == Named(roles, Subject(r))
<1>1. pc[r] = "read" /\ UNCHANGED <<server, holder, inputs, granted, todo>>
  BY DEF Read
<1>2. /\ found \subseteq {r}
      /\ found = {} => op[r] = "refresh" /\ roles[r] = Absent
  <2>1. CASE op[r] = "refresh"
    BY <1>1, <2>1 DEF BaseInv, Subject, Flow, Known, Unread, Named
  <2>2. CASE op[r] # "refresh"
    BY <1>1, <2>2 DEF BaseInv, Subject, Flow, TypeOK, Known, Unread, Unique, Named
  <2> QED
    BY <2>1, <2>2
<1>3. /\ \A q \in Resources \ {r} : state'[q] = state[q]
      /\ found = {} => state'[r] = Absent
      /\ found # {} => state'[r] # Absent /\ state'[r].name = roles[r].name /\ roles[r] # Absent
  <2>1. found # {} => (CHOOSE o \in found : TRUE) = r /\ roles[r] # Absent
    BY <1>2 DEF Named
  <2> DEFINE new == IF found = {} THEN Absent ELSE ReadInstance(r, CHOOSE o \in found : TRUE)
  <2>2. state' = [state EXCEPT ![r] = new]
    BY DEF Read
  <2>3. found # {} => ReadInstance(r, r) \in Instance /\ ReadInstance(r, r).name = roles[r].name
    BY <1>1, <2>1, InstanceType DEF ReadInstance, ReadValues
  <2>4. state'[r] = new /\ \A q \in Resources \ {r} : state'[q] = state[q]
    <3> HIDE DEF new
    <3> QED
      BY <2>2 DEF BaseInv, TypeOK
  <2>5. found # {} => new = ReadInstance(r, r)
    BY <2>1
  <2> HIDE DEF found
  <2> QED
    BY <2>1, <2>3, <2>4, <2>5, RoleAssumption
<1>4. \/ /\ op[r] = "refresh" /\ op' = op /\ pc'[r] = "plan"
         /\ \A q \in Resources \ {r} : pc'[q] = pc[q]
      \/ /\ op[r] # "refresh" /\ op' = [op EXCEPT ![r] = "refresh"]
         /\ pc'[r] \in {"idle", "over"} /\ RunGoesOn(r)
         /\ pc'[r] = "idle" => \A q \in Resources : pc'[q] = "idle"
  BY RunGoesOnFacts DEF Read, Return, BaseInv, Participants
<1>5. LeavesAlone(r) /\ CommitsNothing
  BY <1>1, <1>3, <1>4 DEF LeavesAlone, CommitsNothing, RunGoesOn, BaseInv, TypeOK
<1>6. op'[r] = "refresh" /\ Flow(r)'
  BY <1>4 DEF Flow, BaseInv, TypeOK
<1>7. Written(r)'
  BY <1>1, <1>4, <1>6, RoleAssumption DEF BaseInv, Written, Renames
<1>8. Known(r)'
  <2> HIDE DEF found
  <2>1. roles[r] # Absent => Named(roles, roles[r].name) \subseteq {r}
    BY DEF BaseInv, Unique
  <2> QED
    BY <1>1, <1>2, <1>3, <1>4, <1>6, <2>1 DEF Known, Unread, Named
<1>9. GrantsExist(r)' /\ DropsAlone(r)'
  BY <1>1 DEF BaseInv, GrantsExist, DropsAlone, View, Sees
<1>10. KeepsPhase(r)
  BY <1>1, <1>4, <1>6 DEF BaseInv, Phase, Flow, KeepsPhase, StillReads
<1>11. mine'[r][r] \in Row => Named(roles, mine'[r][r].name) \subseteq {r}
  BY <1>1 DEF BaseInv, Unique
<1> QED
  BY <1>1, <1>5, <1>6, <1>7, <1>8, <1>9, <1>10, <1>11, AvoidsIfKept, OwnBase

-----------------------------------------------------------------------------
(* Steps that are nobody's operation. *)

\* Between two runs no transaction is open.
LEMMA NothingOpen ==
    ASSUME BaseInv, NEW r \in Resources, pc[r] \in {"idle", "plan", "over"}
    PROVE  /\ \A o \in Resources : mine[r][o] = Untouched
           /\ \A p \in Pairs : own[r][p] = Untouched
BY RoleAssumption DEF BaseInv, TypeOK, Written, Renames

\* What others change in the server has been written by no transaction, and no
\* role gets another name; roles are dropped between two runs.
LEMMA DriftFacts ==
    ASSUME BaseInv, NEW r \in Resources, Drift(r)
    PROVE  /\ UNCHANGED <<mine, own, holder, scenario, config, state, granted, op, pc, todo>>
           /\ \A o \in Resources : roles'[o] # Absent =>
                roles[o] # Absent /\ roles'[o].name = roles[o].name
           /\ \/ \A o \in Resources : roles[o] # Absent => roles'[o] # Absent
              \/ \A x \in Resources : pc[x] = "idle"
           /\ \A p \in Pairs : members'[p] # members[p] =>
                Unlocked(p[1]) /\ Unlocked(p[2])
           /\ MembersExist'
<1> USE RoleAssumption DEF BaseInv
<1>1. UNCHANGED <<mine, own, holder, scenario, config, state, granted, op, pc, todo>>
  BY DEF Drift
<1>2. ASSUME NEW row \in Row, row.name = roles[r].name, roles[r] # Absent,
             roles' = [roles EXCEPT ![r] = row], UNCHANGED members
      PROVE  /\ \A o \in Resources : roles'[o] # Absent =>
                  roles[o] # Absent /\ roles'[o].name = roles[o].name
             /\ \A o \in Resources : roles[o] # Absent => roles'[o] # Absent
             /\ \A p \in Pairs : members'[p] = members[p]
             /\ MembersExist'
  BY <1>2 DEF TypeOK, MembersExist, Pairs
<1>3. roles[r] \in Row
  BY DEF Drift, TypeOK
<1>4. CASE /\ \E option \in Options :
                roles' = [roles EXCEPT ![r].options = (@ \cup {option}) \ (@ \cap {option})]
           /\ UNCHANGED members
  <2>1. PICK option \in Options :
          roles' = [roles EXCEPT ![r].options = (@ \cup {option}) \ (@ \cap {option})]
    BY <1>4
  <2> DEFINE row == [roles[r] EXCEPT !.options = (@ \cup {option}) \ (@ \cap {option})]
  <2>2. row \in Row /\ row.name = roles[r].name
    BY <1>3 DEF Row
  <2>3. roles' = [roles EXCEPT ![r] = row]
    BY <1>3, <2>1 DEF TypeOK
  <2> HIDE DEF row
  <2> QED
    BY <1>1, <1>2, <1>3, <1>4, <2>2, <2>3
<1>5. CASE /\ \E p \in Passwords \cup {NoPassword} : roles' = [roles EXCEPT ![r].password = p]
           /\ UNCHANGED members
  <2>1. PICK p \in Passwords \cup {NoPassword} : roles' = [roles EXCEPT ![r].password = p]
    BY <1>5
  <2> DEFINE row == [roles[r] EXCEPT !.password = p]
  <2>2. row \in Row /\ row.name = roles[r].name
    BY <1>3 DEF Row
  <2>3. roles' = [roles EXCEPT ![r] = row]
    BY <1>3, <2>1 DEF TypeOK
  <2> HIDE DEF row
  <2> QED
    BY <1>1, <1>2, <1>3, <1>5, <2>2, <2>3
<1>6. CASE \E p \in PairsOf(r) :
             /\ \A x \in {p[1], p[2]} : roles[x] # Absent /\ Unlocked(x)
             /\ members' = [members EXCEPT ![p] = IF @ = "none" THEN "member" ELSE "none"]
             /\ UNCHANGED roles
  BY <1>1, <1>6 DEF TypeOK, MembersExist, PairsOf
<1>7. CASE /\ \A x \in Participants : pc[x] = "idle"
           /\ roles' = [roles EXCEPT ![r] = Absent]
           /\ members' = [p \in Pairs |-> IF p \in PairsOf(r) THEN "none" ELSE members[p]]
  <2>1. \A x \in Resources : pc[x] = "idle"
    BY <1>7 DEF Participants
  <2>2. \A o \in Resources : Unlocked(o)
    BY <2>1, NothingOpen DEF Unlocked, PairsOf
  <2>3. MembersExist'
    <3>1. ASSUME NEW p \in Pairs, members'[p] # "none"
          PROVE  roles'[p[1]] # Absent /\ roles'[p[2]] # Absent
      <4>1. p \notin PairsOf(r) /\ members[p] # "none"
        BY <1>7, <3>1
      <4> QED
        BY <1>7, <4>1 DEF TypeOK, MembersExist, PairsOf, Pairs
    <3> QED
      BY <3>1 DEF MembersExist
  <2> QED
    BY <1>1, <1>7, <2>1, <2>2, <2>3 DEF TypeOK, Pairs
<1> QED
  BY <1>4, <1>5, <1>6, <1>7 DEF Drift

\* So the invariant holds whatever others do.
LEMMA DriftStep ==
    ASSUME BaseInv, TypeOK', NEW r \in Resources, Drift(r)
    PROVE  BaseInv'
<1> USE RoleAssumption
<1>1. UNCHANGED <<mine, own, holder, scenario, config, state, granted, op, pc, todo>>
  BY DriftFacts
<1>2. config' \in Configurations' /\ Phase'
  BY <1>1 DEF BaseInv, Configurations, Phase, StillReads
<1>3. \A n : Named(roles', n) \subseteq Named(roles, n)
  BY DriftFacts DEF Named
<1>4. Unique'
  <2>1. ASSUME NEW o \in Resources, roles'[o] # Absent
        PROVE  Named(roles', roles'[o].name) \subseteq {o}
    BY <1>3, <2>1, DriftFacts DEF BaseInv, Unique
  <2>2. ASSUME NEW o \in Resources, mine'[o][o] \in Row
        PROVE  Named(roles', mine'[o][o].name) \subseteq {o}
    BY <1>1, <1>3, <2>2 DEF BaseInv, Unique
  <2> QED
    BY <2>1, <2>2 DEF Unique, Named
<1>5. ASSUME NEW q \in Resources PROVE Flow(q)' /\ Written(q)'
  BY <1>1 DEF BaseInv, Flow, Written, Renames
<1>6. ASSUME NEW q \in Resources PROVE Known(q)'
  <2>1. Unread(q)' = Unread(q) /\ StillReads(q)' = StillReads(q) /\ Known(q)
    BY <1>1 DEF Unread, StillReads, BaseInv
  <2>2. roles[q] # Absent /\ ~StillReads(q) => roles'[q] # Absent
    BY DriftFacts DEF StillReads
  <2>3. Unread(q) => ~StillReads(q)
    BY DEF Unread, StillReads
  <2>4. roles'[q] # Absent => roles[q] # Absent /\ roles'[q].name = roles[q].name
    BY DriftFacts
  <2>5. ~Unread(q) /\ state[q] # Absent => Named(roles', state[q].name) \subseteq {q}
    BY <1>3, <2>1 DEF Known
  <2>6. ~Unread(q) /\ state[q] # Absent => Named(roles, state[q].name)' \subseteq {q}
    BY <1>1, <2>5 DEF Named
  <2> HIDE DEF Unread, StillReads
  <2> QED
    BY <1>1, <2>1, <2>2, <2>3, <2>4, <2>6 DEF Known
<1>7. ASSUME NEW q \in Resources PROVE GrantsExist(q)'
  <2> SUFFICES ASSUME NEW p \in Pairs, own[q][p] \notin {Untouched, "none"}, NEW o \in {p[1], p[2]}
               PROVE  View(q)'[o] # Absent
    BY <1>1 DEF GrantsExist
  <2>1. o \in Resources /\ View(q)[o] # Absent /\ pc[q] # "idle"
    BY NothingOpen DEF BaseInv, GrantsExist, Pairs
  <2>2. roles[o] # Absent => roles'[o] # Absent
    BY <2>1, DriftFacts
  <2> QED
    BY <1>1, <2>1, <2>2 DEF View
<1>8. ASSUME NEW q \in Resources PROVE DropsAlone(q)'
  <2> SUFFICES ASSUME mine[q][q] = Absent, NEW p \in PairsOf(q)
               PROVE  Sees(q, p)' = "none" /\ \A s \in Resources \ {q} : own'[s][p] = Untouched
    BY <1>1 DEF DropsAlone, PairsOf
  <2>1. /\ p \in Pairs /\ q \in {p[1], p[2]} /\ Sees(q, p) = "none"
        /\ \A s \in Resources \ {q} : own[s][p] = Untouched
    BY DEF BaseInv, DropsAlone, PairsOf
  <2>2. ~Unlocked(q)
    BY DEF Unlocked
  <2>3. members'[p] = members[p]
    BY <2>1, <2>2, DriftFacts
  <2> QED
    BY <1>1, <2>1, <2>3 DEF Sees
<1> QED
  BY <1>2, <1>4, <1>5, <1>6, <1>7, <1>8, DriftFacts DEF BaseInv

\* Users edit between two runs, when nothing is known of the configuration.
LEMMA EditStep == ASSUME BaseInv, TypeOK', Edit PROVE BaseInv'
<1> USE RoleAssumption
<1>1. /\ UNCHANGED <<server, holder, scenario, state, op, pc>> /\ config' \in Configurations
      /\ \A q \in Resources : pc[q] = "idle"
  BY DEF Edit, Participants
<1>2. \A q \in Resources : op[q] = "refresh" /\ mine[q][q] = Untouched
  BY <1>1, NothingOpen DEF BaseInv, Flow
<1>3. config' \in Configurations' /\ Phase' /\ MembersExist'
  BY <1>1 DEF BaseInv, Configurations, Phase, StillReads, MembersExist
<1>4. Unique'
  BY <1>1 DEF BaseInv, Unique, Named
<1>5. ASSUME NEW q \in Resources PROVE Flow(q)' /\ GrantsExist(q)' /\ DropsAlone(q)'
  BY <1>1, <1>2 DEF BaseInv, Flow, GrantsExist, DropsAlone, View, Sees
<1>6. ASSUME NEW q \in Resources PROVE Written(q)'
  BY <1>1, <1>2 DEF BaseInv, Written, Renames
<1>7. ASSUME NEW q \in Resources PROVE Known(q)'
  BY <1>1, <1>2 DEF BaseInv, Known, Unread, StillReads, Named
<1> QED
  BY <1>3, <1>4, <1>5, <1>6, <1>7 DEF BaseInv

\* A grant_role writes a membership of two roles that nobody drops.
LEMMA GrantRoleFacts ==
    ASSUME BaseInv, NEW g \in scenario.grantRoles, GrantRoleStep(g)
    PROVE  /\ UNCHANGED <<roles, mine, own, holder, inputs, state, op, todo>>
           /\ PairOf(g) \in Pairs /\ g \in Participants /\ g \notin Resources
           /\ RunGoesOn(g)
           /\ \A p \in Pairs : members'[p] # members[p] => p = PairOf(g) /\ Writable(p)
           /\ members'[PairOf(g)] \notin {members[PairOf(g)], "none"} =>
                roles[g.group] # Absent /\ roles[g.member] # Absent
<1>1. g \in GrantRole /\ g \in Participants
  BY DEF BaseInv, TypeOK, Scenario, Participants
<1>2. PairOf(g) \in Pairs /\ g \notin Resources
  BY <1>1, RoleAssumption DEF GrantRole, PairOf, Pairs
<1>3. RunGoesOn(g)
  <2>1. \A next : GoTo(g, next) => RunGoesOn(g)
    BY <1>1, RunGoesOnFacts DEF BaseInv, RunGoesOn, Participants
  <2> QED
    BY <1>1, <2>1, RunGoesOnFacts DEF BaseInv, GrantRoleStep, GrantRoleRefresh, GrantRolePlan,
       GrantRoleDelete, GrantRoleCreate, GrantRoleRefused
<1>4. \/ UNCHANGED members
      \/ Writable(PairOf(g)) /\ members' = [members EXCEPT ![PairOf(g)] = "none"]
      \/ /\ Writable(PairOf(g)) /\ members' = [members EXCEPT ![PairOf(g)] = g.level]
         /\ roles[g.group] # Absent /\ roles[g.member] # Absent
  BY DEF GrantRoleStep, GrantRoleRefresh, GrantRolePlan, GrantRoleDelete, GrantRoleCreate,
         GrantRoleRefused
<1>5. UNCHANGED <<roles, mine, own, holder, inputs, state, op, todo>>
  BY DEF GrantRoleStep, GrantRoleRefresh, GrantRolePlan, GrantRoleDelete, GrantRoleCreate,
         GrantRoleRefused
<1>6. \A p \in Pairs : members'[p] # members[p] => p = PairOf(g) /\ Writable(p)
  BY <1>2, <1>4 DEF BaseInv, TypeOK
<1>7. members'[PairOf(g)] \notin {members[PairOf(g)], "none"} =>
        roles[g.group] # Absent /\ roles[g.member] # Absent
  BY <1>2, <1>4 DEF BaseInv, TypeOK
<1> QED
  BY <1>1, <1>2, <1>3, <1>5, <1>6, <1>7

\* So it keeps the invariant.
LEMMA GrantRoleKeeps ==
    ASSUME BaseInv, TypeOK', NEW g \in scenario.grantRoles, GrantRoleStep(g)
    PROVE  BaseInv'
<1> USE RoleAssumption
<1>1. UNCHANGED <<roles, mine, own, holder, inputs, state, op, todo>>
  BY GrantRoleFacts
<1>2. \/ \A q \in Resources : pc'[q] = pc[q]
      \/ \A q \in Resources : pc[q] = "over" /\ pc'[q] = "idle"
  BY GrantRoleFacts DEF RunGoesOn
<1>3. config' \in Configurations' /\ Unique'
  BY <1>1 DEF BaseInv, Configurations, Unique, Named
<1>4. ASSUME NEW q \in Resources PROVE Flow(q)' /\ GrantsExist(q)'
  BY <1>1, <1>2 DEF BaseInv, Flow, GrantsExist, View
<1>5. Phase'
  BY <1>1, <1>2, <1>4 DEF BaseInv, Phase, StillReads, Flow
<1>6. MembersExist'
  <2>1. ASSUME NEW p \in Pairs, members'[p] # "none"
        PROVE  roles[p[1]] # Absent /\ roles[p[2]] # Absent
    <3>1. CASE members'[p] = members[p]
      BY <2>1, <3>1 DEF BaseInv, MembersExist
    <3>2. CASE members'[p] # members[p]
      <4>1. p = PairOf(g) /\ members'[p] # "none"
        BY <2>1, <3>2, GrantRoleFacts
      <4>2. roles[g.group] # Absent /\ roles[g.member] # Absent
        BY <3>2, <4>1, GrantRoleFacts
      <4> QED
        BY <4>1, <4>2 DEF PairOf
    <3> QED
      BY <3>1, <3>2
  <2> QED
    BY <1>1, <2>1 DEF MembersExist
<1>7. ASSUME NEW q \in Resources PROVE Written(q)'
  BY <1>1, <1>2 DEF BaseInv, Written, Renames
<1>8. ASSUME NEW q \in Resources PROVE Known(q)'
  BY <1>1, <1>2 DEF BaseInv, Known, Unread, StillReads, Named
<1>9. ASSUME NEW q \in Resources PROVE DropsAlone(q)'
  <2> SUFFICES ASSUME mine[q][q] = Absent, NEW p \in PairsOf(q)
               PROVE  Sees(q, p)' = "none" /\ \A s \in Resources \ {q} : own'[s][p] = Untouched
    BY <1>1 DEF DropsAlone, PairsOf
  <2>1. /\ p \in Pairs /\ q \in {p[1], p[2]} /\ Sees(q, p) = "none"
        /\ \A s \in Resources \ {q} : own[s][p] = Untouched
    BY DEF BaseInv, DropsAlone, PairsOf
  <2>2. members'[p] = members[p]
    BY <2>1, GrantRoleFacts DEF Writable
  <2> QED
    BY <1>1, <2>1, <2>2 DEF Sees
<1> QED
  BY <1>3, <1>4, <1>5, <1>6, <1>7, <1>8, <1>9 DEF BaseInv

-----------------------------------------------------------------------------
(* The base of the invariant. *)

\* Nothing is there at first.
LEMMA BaseInit == Init => BaseInv
<1> SUFFICES ASSUME Init PROVE BaseInv
  OBVIOUS
<1> USE RoleAssumption
<1>1. scenario \in Scenario /\ config \in [Resources -> Config \cup {Absent}]
  BY ConfigurationFacts DEF Init
<1>2. TypeOK
  BY <1>1 DEF Init, TypeOK, NoRows, NoPairs, Level, PC
<1>3. \A r \in Resources : pc[r] = "idle" /\ op[r] = "refresh"
  BY DEF Init, Participants
<1>4. Phase /\ Unique /\ MembersExist
  BY <1>3 DEF Init, Phase, Unique, MembersExist, NoRows
<1>5. ASSUME NEW r \in Resources
      PROVE  Flow(r) /\ Written(r) /\ Known(r) /\ GrantsExist(r) /\ DropsAlone(r)
  BY <1>3 DEF Init, Flow, Written, Renames, Known, Unread, GrantsExist, DropsAlone, NoRows,
     NoPairs
<1> QED
  BY <1>2, <1>4, <1>5 DEF Init, BaseInv

\* Every step keeps the base of the invariant.
LEMMA BaseStep == BaseInv /\ [Next]_vars => BaseInv'
<1> SUFFICES ASSUME BaseInv, [Next]_vars PROVE BaseInv'
  OBVIOUS
<1>1. TypeOK'
  BY TypeStep
<1>2. ASSUME NEW r \in Resources, Step(r) PROVE BaseInv'
  <2>1. CASE Refresh(r) \/ LockRole(r) \/ FindMembers(r) \/ LockMember(r) \/ ListRoles(r)
             \/ AllRevoked(r)
    BY <1>1, <2>1, QuietStep
  <2>2. CASE Plan(r)
    BY <1>1, <2>2, PlanStep
  <2>3. CASE CreateRole(r) \/ Rename(r) \/ Alter(r) \/ Settings(r)
    BY <1>1, <2>3, MineStep
  <2>4. CASE RevokeRole(r) \/ GrantTo(r)
    BY <1>1, <2>4, OwnRowsStep
  <2>5. CASE DropRole(r)
    BY <1>1, <2>5, DropStep
  <2>6. CASE Commit(r)
    BY <1>1, <2>6, CommitStep
  <2>7. CASE Read(r)
    BY <1>1, <2>7, ReadStep
  <2>8. CASE Refuse(r)
    BY <1>1, <2>8, FailStep DEF Refuse, Refused
  <2> QED
    BY <1>2, <2>1, <2>2, <2>3, <2>4, <2>5, <2>6, <2>7, <2>8 DEF Step
<1>3. ASSUME NEW r \in Resources, StatementFails(r) PROVE BaseInv'
  BY <1>1, <1>3, FailStep DEF StatementFails
<1>4. ASSUME NEW r \in Resources, Drift(r) PROVE BaseInv'
  BY <1>1, <1>4, DriftStep
<1>5. CASE Edit
  BY <1>1, <1>5, EditStep
<1>6. ASSUME NEW g \in scenario.grantRoles, GrantRoleStep(g) PROVE BaseInv'
  BY <1>1, <1>6, GrantRoleKeeps
<1>7. CASE UNCHANGED vars
  BY <1>7 DEF vars, BaseInv, TypeOK, Participants, Configurations, Phase, Unique, MembersExist,
     StillReads, Flow, Written, Renames, Known, Unread, GrantsExist, DropsAlone, View, Sees,
     Named, PairsOf
<1> QED
  BY <1>2, <1>3, <1>4, <1>5, <1>6, <1>7 DEF Next

\* The base of the invariant holds of every behaviour.
THEOREM BaseInvariance == Spec => []BaseInv
BY BaseInit, BaseStep, PTL DEF Spec

\* The variables keep their types: a membership that is read is one of a role
\* that is there, whose name is a name.
THEOREM TypeCorrect == Spec => []TypeOK
<1>1. BaseInv => TypeOK
  BY DEF BaseInv
<1> QED
  BY <1>1, BaseInvariance, PTL

\* No resource ever finds the role of another under the name in its state, however
\* roles are renamed, replaced and dropped (readRoleInto and getRole, by name).
THEOREM FindsOwnRole == Spec => []StatesNameOwnRoles
<1>1. BaseInv => StatesNameOwnRoles
  BY DEF BaseInv, StatesNameOwnRoles, Known, Unread
<1> QED
  BY <1>1, BaseInvariance, PTL

-----------------------------------------------------------------------------
(* The locks. *)

\* Where the others are in the run.
Continues(x) ==
    \/ \A y \in Participants \ {x} : pc'[y] = pc[y]
    \/ /\ \A y \in Participants \ {x} : pc[y] = "over"
       /\ \A y \in Participants : pc'[y] = "idle"

\* A counter is set, or the run is over for somebody.
LEMMA CountersGoOn ==
    ASSUME TypeOK, NEW x \in Participants
    PROVE  /\ \A next : GoTo(x, next) => Continues(x)
           /\ Over(x) => Continues(x)
BY DEF TypeOK, GoTo, Over, Continues

\* What every step of an operation leaves alone: the locks of others among it.
LEMMA StepFacts ==
    ASSUME BaseInv, NEW r \in Resources, Step(r) \/ StatementFails(r)
    PROVE  /\ LeavesAlone(r) /\ Continues(r) /\ pc[r] # "over"
           /\ Commit(r) \/ CommitsNothing
<1> USE RoleAssumption
<1>1. r \in Participants
  BY DEF Participants
<1>2. ASSUME EndTransaction(r)
      PROVE  /\ \A q \in Resources \ {r} :
                  mine'[q] = mine[q] /\ own'[q] = own[q] /\ todo'[q] = todo[q]
             /\ \A q \in Resources \ {r}, o \in Resources : holder[o] = q => holder'[o] = q
  BY <1>2 DEF BaseInv, TypeOK, EndTransaction
<1>3. ASSUME Fail(r), Refuse(r) \/ StatementFails(r)
      PROVE  LeavesAlone(r) /\ Continues(r) /\ pc[r] # "over" /\ CommitsNothing
  <2>1. Continues(r) /\ RunGoesOn(r) /\ \A q \in Resources \ {r} : op'[q] = op[q]
    BY <1>1, <1>3, CountersGoOn, RunGoesOnFacts DEF BaseInv, TypeOK, Fail, Return
  <2>2. pc[r] # "over"
    BY <1>3 DEF Refuse, Refused, StatementFails
  <2> QED
    BY <1>2, <1>3, <2>1, <2>2 DEF Fail, LeavesAlone, CommitsNothing
<1>4. ASSUME Commit(r) PROVE LeavesAlone(r) /\ Continues(r) /\ pc[r] # "over"
  <2>1. Continues(r) /\ RunGoesOn(r) /\ \A q \in Resources \ {r} : state'[q] = state[q]
    <3>1. \A q \in Resources \ {r} : state'[q] = state[q]
      BY <1>4 DEF BaseInv, TypeOK, Commit
    <3>2. \E next : GoTo(r, next)
      BY <1>4 DEF Commit
    <3>3. Continues(r)
      BY <1>1, <3>2, CountersGoOn DEF BaseInv
    <3> QED
      BY <1>1, <3>1, <3>3 DEF Continues, RunGoesOn, Participants
  <2> QED
    BY <1>2, <1>4, <2>1 DEF Commit, LeavesAlone
<1>5. ASSUME Plan(r) \/ Read(r)
      PROVE  LeavesAlone(r) /\ Continues(r) /\ pc[r] # "over" /\ CommitsNothing
  <2>1. (\E next : GoTo(r, next)) \/ Over(r)
    BY <1>5 DEF Plan, Read, Return
  <2>2. Continues(r) /\ RunGoesOn(r)
    BY <1>1, <2>1, CountersGoOn DEF BaseInv, Continues, RunGoesOn, Participants
  <2>3. \A q \in Resources \ {r} : op'[q] = op[q] /\ state'[q] = state[q]
    BY <1>5 DEF BaseInv, TypeOK, Plan, Read, Return
  <2> QED
    BY <1>5, <2>2, <2>3 DEF LeavesAlone, CommitsNothing, Plan, Read
<1>6. ASSUME \/ Refresh(r) \/ LockRole(r) \/ FindMembers(r) \/ LockMember(r) \/ ListRoles(r)
             \/ AllRevoked(r) \/ CreateRole(r) \/ Rename(r) \/ Alter(r) \/ Settings(r)
             \/ RevokeRole(r) \/ GrantTo(r) \/ DropRole(r)
      PROVE  LeavesAlone(r) /\ Continues(r) /\ pc[r] # "over" /\ CommitsNothing
  <2>1. Continues(r) /\ RunGoesOn(r) /\ pc[r] # "over"
    <3>1. (\E next : GoTo(r, next)) \/ UNCHANGED pc
      BY <1>6 DEF Refresh, LockRole, FindMembers, LockMember, ListRoles, AllRevoked, CreateRole,
         Rename, Alter, Settings, RevokeRole, GrantTo, DropRole
    <3>2. Continues(r)
      BY <1>1, <3>1, CountersGoOn DEF BaseInv, Continues
    <3>3. pc[r] # "over"
      BY <1>6 DEF Refresh, LockRole, FindMembers, LockMember, ListRoles, AllRevoked, CreateRole,
         Rename, Alter, Settings, RevokeRole, GrantTo, DropRole
    <3> QED
      BY <3>2, <3>3 DEF Continues, RunGoesOn, Participants
  <2>2. UNCHANGED <<roles, members, inputs, state, op>>
    BY <1>6 DEF Refresh, LockRole, FindMembers, LockMember, ListRoles, AllRevoked, CreateRole,
       Rename, Alter, Settings, RevokeRole, GrantTo, DropRole
  <2>3. \A q \in Resources \ {r} : mine'[q] = mine[q]
    BY <1>6 DEF BaseInv, TypeOK, Refresh, LockRole, FindMembers, LockMember, ListRoles,
       AllRevoked, CreateRole, Rename, Alter, Settings, RevokeRole, GrantTo, DropRole
  <2>4. \A q \in Resources \ {r} : own'[q] = own[q]
    BY <1>6 DEF BaseInv, TypeOK, Refresh, LockRole, FindMembers, LockMember, ListRoles,
       AllRevoked, CreateRole, Rename, Alter, Settings, RevokeRole, GrantTo, DropRole, Write
  <2>5. \A q \in Resources \ {r} : todo'[q] = todo[q]
    BY <1>6 DEF BaseInv, TypeOK, Refresh, LockRole, FindMembers, LockMember, ListRoles,
       AllRevoked, CreateRole, Rename, Alter, Settings, RevokeRole, GrantTo, DropRole
  <2>6. \A q \in Resources \ {r}, o \in Resources : holder[o] = q => holder'[o] = q
    <3>1. CASE LockRole(r)
      BY <3>1, ViewType DEF BaseInv, LockRole
    <3>2. CASE LockMember(r)
      BY <3>2 DEF BaseInv, TypeOK, LockMember
    <3>3. CASE UNCHANGED holder
      BY <3>3
    <3> QED
      BY <1>6, <3>1, <3>2, <3>3 DEF Refresh, FindMembers, ListRoles, AllRevoked, CreateRole,
         Rename, Alter, Settings, RevokeRole, GrantTo, DropRole
  <2> QED
    BY <2>1, <2>2, <2>3, <2>4, <2>5, <2>6 DEF LeavesAlone, CommitsNothing
<1> QED
  BY <1>3, <1>4, <1>5, <1>6 DEF Step, Refuse, StatementFails

\* A run that goes on for one operation goes on for the others, a step of which
\* does not begin a run under an operation that is not over.
LEMMA SameRun ==
    ASSUME BaseInv, NEW x \in Participants, Continues(x), NEW y \in Participants \ {x},
           pc'[y] # "idle" \/ pc[y] # "over"
    PROVE  \A z \in Participants \ {x} : pc'[z] = pc[z]
BY DEF Continues

\* An operation takes the lock of its role and keeps it.
LEMMA KeepsLock ==
    ASSUME BaseInv, NEW r \in Resources, Step(r) \/ StatementFails(r),
           HasRole(r) => holder[r] = r, HasRole(r)'
    PROVE  holder'[r] = r /\ (pc[r] # "lock" => HasRole(r))
<1> USE RoleAssumption
<1>1. r \in Participants
  BY DEF Participants
<1>2. CASE LockRole(r)
  BY <1>2, FoundOwn DEF LockRole
<1>3. CASE LockMember(r)
  BY <1>3 DEF BaseInv, TypeOK, Flow, LockMember, HasRole
<1>4. CASE \/ FindMembers(r) \/ ListRoles(r) \/ AllRevoked(r) \/ Rename(r) \/ Alter(r)
           \/ Settings(r) \/ RevokeRole(r) \/ GrantTo(r) \/ DropRole(r)
  <2>1. /\ UNCHANGED <<holder, op>>
        /\ pc[r] \in {"members", "list", "revoke", "rename", "alter", "grant", "drop"}
    BY <1>4 DEF FindMembers, ListRoles, AllRevoked, Rename, Alter, Settings, RevokeRole, GrantTo,
       DropRole
  <2> QED
    BY <2>1 DEF HasRole, Renames
<1>5. CASE \/ Refresh(r) \/ Plan(r) \/ Read(r) \/ Commit(r) \/ Fail(r) \/ CreateRole(r)
  <2>1. \/ pc'[r] \in {"plan", "read", "create", "lock", "over", "idle"}
        \/ op'[r] = "create"
    <3>1. CASE Refresh(r)
      BY <1>1, <3>1, RunGoesOnFacts DEF BaseInv, Refresh
    <3>2. CASE Plan(r)
      BY <1>1, <3>2, RunGoesOnFacts DEF BaseInv, Plan, Return
    <3>3. CASE Read(r)
      BY <1>1, <3>3, RunGoesOnFacts DEF BaseInv, Read, Return
    <3>4. CASE Commit(r)
      BY <1>1, <3>4, RunGoesOnFacts DEF BaseInv, Commit
    <3>5. CASE Fail(r)
      BY <1>1, <3>5, RunGoesOnFacts DEF BaseInv, Fail, Return
    <3>6. CASE CreateRole(r)
      BY <3>6 DEF BaseInv, Flow, CreateRole
    <3> QED
      BY <1>5, <3>1, <3>2, <3>3, <3>4, <3>5, <3>6
  <2> QED
    BY <2>1 DEF HasRole, Renames
<1> QED
  BY <1>2, <1>3, <1>4, <1>5 DEF Step, Refuse, StatementFails

\* The members of a role are found when it is locked, and locked one by one; no
\* statement of its own transaction adds one before the commit.
LEMMA MembersLockedOwn ==
    ASSUME BaseInv, NEW r \in Resources, Step(r) \/ StatementFails(r),
           HasRole(r) => holder[r] = r, MembersLocked(r), HasMembers(r)'
    PROVE  MembersLocked(r)'
<1> USE RoleAssumption
<1>1. r \in Participants /\ HasRole(r)' /\ holder'[r] = r
  BY KeepsLock DEF Participants, HasMembers
<1>2. ASSUME UNCHANGED <<members, holder, op>>, HasMembers(r), pc[r] # "lockMembers",
             \A q \in Resources \ {r} : pc'[q] = pc[q]
      PROVE  MembersLocked(r)'
  BY <1>1, <1>2 DEF MembersLocked, Settled
<1>3. CASE FindMembers(r)
  <2>1. UNCHANGED members /\ pc'[r] = "lockMembers"
    BY <1>1, <1>3, RunGoesOnFacts DEF BaseInv, FindMembers
  <2>2. Found(r) = {r}
    BY <1>3, FoundOwn DEF FindMembers
  <2>3. todo'[r] = {m \in Resources : members[<<r, m>>] # "none"}
    BY <1>3, <2>2 DEF BaseInv, TypeOK, FindMembers
  <2> QED
    BY <2>1, <2>3 DEF MembersLocked
<1>4. CASE LockMember(r)
  <2>1. UNCHANGED <<members, op>> /\ pc[r] = "lockMembers" /\ HasMembers(r)
    BY <1>4 DEF BaseInv, Flow, LockMember, HasMembers, HasRole
  <2>2. CASE todo[r] = {} /\ UNCHANGED holder
    <3>1. \E next : GoTo(r, next)
      BY <1>4, <2>2 DEF LockMember
    <3>2. \A q \in Resources \ {r} : pc'[q] = pc[q]
      BY <1>1, <3>1, RunGoesOnFacts DEF BaseInv, Participants
    <3>3. \A m \in Resources : members[<<r, m>>] # "none" => holder[m] = r \/ Settled(m)
      BY <2>1, <2>2 DEF MembersLocked
    <3> QED
      BY <1>1, <2>1, <2>2, <3>2, <3>3 DEF MembersLocked, Settled
  <2>3. ASSUME NEW m \in todo[r], holder[m] \in {r, Nobody}, holder' = [holder EXCEPT ![m] = r],
               todo' = [todo EXCEPT ![r] = @ \ {m}], UNCHANGED pc
        PROVE  MembersLocked(r)'
    <3>1. todo'[r] = todo[r] \ {m}
      BY <2>3 DEF BaseInv, TypeOK
    <3>2. \A n \in Resources : (n = m => holder'[n] = r) /\ (n # m => holder'[n] = holder[n])
      BY <2>3 DEF BaseInv, TypeOK
    <3> QED
      BY <2>1, <2>3, <3>1, <3>2 DEF MembersLocked, Settled
  <2> QED
    BY <1>4, <2>2, <2>3 DEF LockMember
<1>5. CASE \/ ListRoles(r) \/ AllRevoked(r) \/ Rename(r) \/ Alter(r) \/ Settings(r)
           \/ RevokeRole(r) \/ GrantTo(r) \/ DropRole(r)
  <2>1. /\ UNCHANGED <<members, holder, op>>
        /\ pc[r] \in {"list", "revoke", "rename", "alter", "grant", "drop"}
        /\ (\E next : GoTo(r, next)) \/ UNCHANGED pc
    BY <1>5 DEF ListRoles, AllRevoked, Rename, Alter, Settings, RevokeRole, GrantTo, DropRole
  <2>2. HasMembers(r)
    BY <1>1, <2>1, KeepsLock DEF HasMembers
  <2>3. \A q \in Resources \ {r} : pc'[q] = pc[q]
    BY <1>1, <2>1, RunGoesOnFacts DEF BaseInv, Participants
  <2> QED
    BY <1>2, <2>1, <2>2, <2>3
<1>6. CASE LockRole(r)
  BY <1>1, <1>6, RunGoesOnFacts DEF BaseInv, LockRole, HasMembers, HasRole, Renames
<1>7. CASE Refresh(r) \/ Plan(r) \/ Read(r) \/ Commit(r) \/ Fail(r) \/ CreateRole(r)
  <2>1. (pc[r] # "lock" /\ ~HasRole(r)) \/ Commit(r) \/ Fail(r)
    BY <1>7 DEF BaseInv, Flow, Refresh, Plan, Read, CreateRole, HasRole, Renames
  <2>2. Commit(r) \/ Fail(r)
    BY <1>1, <2>1, KeepsLock
  <2>3. pc'[r] \in {"plan", "read", "over", "idle"}
    BY <1>1, <2>2, RunGoesOnFacts DEF BaseInv, Commit, Fail, Return
  <2> QED
    BY <2>3 DEF HasMembers, HasRole, Renames
<1> QED
  BY <1>3, <1>4, <1>5, <1>6, <1>7 DEF Step, Refuse, StatementFails

\* An operation that cannot revoke any more does not before the run is over.
LEMMA StaysSettled ==
    ASSUME BaseInv, NEW r \in Resources, Step(r) \/ StatementFails(r), Settled(r),
           NEW x \in Resources \ {r}, op[x] # "refresh", pc'[x] # "idle"
    PROVE  Settled(r)'
<1> USE RoleAssumption
<1>1. r \in Participants /\ ~StillReads(r)
  BY DEF Participants, BaseInv, Phase
<1>2. pc'[r] # "idle"
  <2>1. Over(r) => pc'[r] # "idle"
    BY <1>1 DEF BaseInv, TypeOK, Over, GoTo, Participants
  <2>2. (\E next \in PC \ {"idle"} : GoTo(r, next)) \/ UNCHANGED pc \/ Over(r)
    BY DEF Step, StatementFails, Refresh, Plan, CreateRole, LockRole, FindMembers, LockMember,
       Rename, Alter, ListRoles, RevokeRole, AllRevoked, GrantTo, Settings, DropRole, Commit,
       Read, Refuse, Fail, Return, PC
  <2>3. pc[r] # "idle"
    BY <1>1 DEF StillReads
  <2> QED
    BY <1>1, <2>1, <2>2, <2>3, RunGoesOnFacts DEF BaseInv
<1>3. CASE Plan(r) /\ op[r] = "delete"
  <2>1. state[r] = Absent
    BY <1>3 DEF BaseInv, Flow, Plan
  <2>2. Return(r) \/ op' = [op EXCEPT ![r] = "create"]
    BY <1>3, <2>1 DEF Plan, Wanted
  <2> QED
    BY <1>1, <1>2, <2>2, RunGoesOnFacts DEF BaseInv, TypeOK, Return, Settled
<1>4. CASE Read(r)
  <2>1. Return(r)
    BY <1>1, <1>4 DEF Read, StillReads
  <2> QED
    BY <1>1, <1>2, <2>1, RunGoesOnFacts DEF BaseInv, Return, Settled
<1>5. CASE Fail(r)
  BY <1>1, <1>2, <1>5, RunGoesOnFacts DEF BaseInv, Fail, Return, Settled
<1>6. CASE op[r] = "create" /\ UNCHANGED op
  BY <1>6 DEF Settled
<1> QED
  BY <1>3, <1>4, <1>5, <1>6, StepFacts DEF Step, Refuse, StatementFails, Settled, Refresh, Plan,
     CreateRole, LockRole, FindMembers, LockMember, Rename, Alter, ListRoles, RevokeRole,
     AllRevoked, GrantTo, Settings, DropRole, Commit, BaseInv, Flow

\* A commit of another operation gives a role no member but its own, which has
\* then nothing left to revoke.
LEMMA MembersLockedOther ==
    ASSUME BaseInv, TypeOK', NEW r \in Resources, Step(r) \/ StatementFails(r),
           NEW x \in Resources \ {r}, MembersLocked(x), HasMembers(x)'
    PROVE  MembersLocked(x)'
<1> USE RoleAssumption
<1>0. /\ r \in Participants /\ x \in Participants \ {r}
      /\ LeavesAlone(r) /\ Continues(r)
  BY StepFacts DEF Participants
<1>1. pc'[x] # "idle" /\ pc'[x] # "over"
  BY DEF HasMembers, HasRole, Renames
<1>2. \A q \in Resources \ {r} : pc'[q] = pc[q] /\ op'[q] = op[q] /\ todo'[q] = todo[q]
  BY <1>0, <1>1, SameRun DEF LeavesAlone, Participants
<1>3. HasMembers(x) /\ op[x] # "refresh"
  BY <1>2 DEF HasMembers, HasRole, Renames
<1>4. \A m \in Resources : holder[m] = x => holder'[m] = x
  BY <1>0 DEF LeavesAlone
<1>5. \A m \in Resources : Settled(m) => Settled(m)'
  BY <1>1, <1>2, <1>3, StaysSettled DEF Settled
<1>6. ASSUME NEW m \in Resources, members'[<<x, m>>] # "none"
      PROVE  members[<<x, m>>] # "none" \/ Settled(m)'
  <2>1. CASE CommitsNothing
    BY <1>6, <2>1 DEF CommitsNothing
  <2>2. CASE Commit(r)
    <3>1. <<x, m>> \in Pairs
      BY DEF Pairs
    <3>2. CASE own[r][<<x, m>>] = Untouched
      BY <1>6, <2>2, <3>1, <3>2, Published
    <3>3. CASE own[r][<<x, m>>] # Untouched
      <4>1. m = r
        BY <3>1, <3>3 DEF BaseInv, Written, PairsOf
      <4>2. pc'[r] = "read" \/ (pc'[r] = "plan" /\ op'[r] = "delete")
        BY <1>0, <2>2, RunGoesOnFacts DEF BaseInv, Commit
      <4> QED
        BY <4>1, <4>2 DEF Settled
    <3> QED
      BY <3>2, <3>3
  <2> QED
    BY <2>1, <2>2, StepFacts
<1> QED
  BY <1>2, <1>3, <1>4, <1>5, <1>6 DEF MembersLocked

-----------------------------------------------------------------------------
(* The names read. *)

\* The names are read in the transaction, of roles that have the member.
LEMMA NamesFoundOwn ==
    ASSUME BaseInv, NEW r \in Resources, Step(r) \/ StatementFails(r), NamesFound(r)
    PROVE  NamesFound(r)'
<1> USE RoleAssumption
<1>1. r \in Participants
  BY DEF Participants
<1>2. CASE ListRoles(r)
  <2>1. UNCHANGED <<members, roles, mine>> /\ Found(r) = {r} /\ pc[r] = "list"
    BY <1>2, FoundOwn DEF ListRoles
  <2>2. todo'[r] = {View(r)[p[1]].name : p \in {q \in Pairs : q[2] \in {r}
                                                             /\ Sees(r, q) # "none"}}
    BY <1>2, <2>1 DEF BaseInv, TypeOK, ListRoles
  <2>3. ASSUME NEW p \in Pairs, p[2] = r, Sees(r, p) # "none"
        PROVE  \E x \in Named(View(r), View(r)[p[1]].name) : members[<<x, r>>] # "none"
    <3>1. members[p] # "none" /\ p = <<p[1], r>> /\ p[1] \in Resources
      BY <2>1, <2>3 DEF BaseInv, Written, Sees, Pairs
    <3>2. roles[p[1]] # Absent /\ mine[r][p[1]] # Absent
      BY <2>1, <3>1 DEF BaseInv, MembersExist, Pairs, Written
    <3>3. View(r)[p[1]] # Absent
      BY <3>1, <3>2, ViewType DEF BaseInv
    <3> QED
      BY <3>1, <3>3 DEF Named
  <2>4. View(r)' = View(r)
    BY <2>1 DEF View
  <2> QED
    BY <2>1, <2>2, <2>3, <2>4 DEF NamesFound, Named
<1>3. CASE RevokeRole(r)
  <2>1. UNCHANGED <<members, roles, mine, pc>> /\ todo'[r] \subseteq todo[r]
    BY <1>3 DEF BaseInv, TypeOK, RevokeRole
  <2>2. View(r)' = View(r)
    BY <2>1 DEF View
  <2> QED
    BY <2>1, <2>2 DEF NamesFound, Named
<1>4. CASE ~ListRoles(r) /\ ~RevokeRole(r)
  <2>1. pc'[r] # "revoke"
    BY <1>1, <1>4, RunGoesOnFacts DEF BaseInv, Step, StatementFails, Refresh, Plan, CreateRole,
       LockRole, FindMembers, LockMember, Rename, Alter, AllRevoked, GrantTo, Settings,
       DropRole, Commit, Read, Refuse, Fail, Return
  <2> QED
    BY <2>1 DEF NamesFound
<1> QED
  BY <1>2, <1>3, <1>4

\* A role that an operation commits has no member that revokes it: it would have
\* the lock of the member, or be new.
LEMMA NoMemberRevokes ==
    ASSUME BaseInv, NEW r \in Resources, pc[r] = "revoke", holder[r] = r,
           NEW x \in Resources \ {r}, pc[x] = "commit", MembersLocked(x)
    PROVE  members[<<x, r>>] = "none"
<1> SUFFICES ASSUME members[<<x, r>>] # "none" PROVE FALSE
  OBVIOUS
<1>1. op[r] = "update"
  BY DEF BaseInv, Flow
<1>2. roles[x] # Absent
  BY DEF BaseInv, MembersExist, Pairs
<1>3. op[x] \in {"update", "delete"}
  BY <1>2 DEF BaseInv, TypeOK, Flow, Known, Unread
<1>4. HasMembers(x)
  BY <1>3 DEF HasMembers, HasRole, Renames
<1> QED
  BY <1>1, <1>4 DEF MembersLocked, Settled

\* So no step of another operation takes the name away.
LEMMA NamesFoundOther ==
    ASSUME BaseInv, TypeOK', NEW s \in Resources, Step(s) \/ StatementFails(s),
           MembersLocked(s), NEW r \in Resources \ {s}, NamesFound(r),
           HasRole(r) => holder[r] = r
    PROVE  NamesFound(r)'
<1> USE RoleAssumption
<1> SUFFICES ASSUME pc'[r] = "revoke", NEW n \in todo'[r]
             PROVE  \E x \in Named(View(r)', n) : members'[<<x, r>>] # "none"
  BY DEF NamesFound, Named
<1>1. LeavesAlone(s) /\ Continues(s) /\ s \in Participants /\ r \in Participants \ {s}
  BY StepFacts DEF Participants
<1>2. pc[r] = "revoke" /\ todo'[r] = todo[r] /\ mine'[r] = mine[r]
  BY <1>1, SameRun DEF LeavesAlone
<1>3. PICK x \in Named(View(r), n) : members[<<x, r>>] # "none"
  BY <1>2 DEF NamesFound
<1>4. x \in Resources /\ View(r)[x] # Absent /\ View(r)[x].name = n
  BY <1>3 DEF Named
<1>5. CASE CommitsNothing
  <2>1. View(r)' = View(r)
    BY <1>2, <1>5 DEF CommitsNothing, View
  <2> QED
    BY <1>3, <1>5, <2>1 DEF CommitsNothing
<1>6. CASE Commit(s)
  <2>1. HasRole(r)
    BY <1>2 DEF BaseInv, Flow, HasRole, Renames
  <2>2. x # s
    BY <1>2, <1>3, <1>6, <2>1, NoMemberRevokes DEF Commit
  <2>3. View(r)'[x] = View(r)[x]
    BY <1>2, <1>4, <1>6, <2>2, Published DEF View
  <2>4. own[s][<<x, r>>] = Untouched
    BY <1>4, <2>2 DEF BaseInv, Written, PairsOf, Pairs
  <2>5. members'[<<x, r>>] = members[<<x, r>>]
    BY <1>4, <1>6, <2>4, Published DEF Pairs
  <2> QED
    BY <1>3, <1>4, <2>3, <2>5 DEF Named
<1> QED
  BY <1>5, <1>6, StepFacts

\* Their steps come when neither role has an operation.
LEMMA GrantRoleLocks ==
    ASSUME BaseInv, TypeOK', NEW g \in scenario.grantRoles, GrantRoleStep(g),
           scenario.ordered, Ordered
    PROVE  /\ Continues(g)
           /\ Ordered'
           /\ \A r \in Resources : HasRole(r)' => HasRole(r)
           /\ \A r \in Resources : MembersLocked(r) => MembersLocked(r)'
           /\ \A r \in Resources : NamesFound(r) => NamesFound(r)'
<1> USE RoleAssumption
<1>1. /\ UNCHANGED <<roles, mine, own, holder, inputs, state, op, todo>>
      /\ g \in Participants /\ g \notin Resources
      /\ \A p \in Pairs : members'[p] # members[p] => p = PairOf(g)
  BY GrantRoleFacts
<1>2. Continues(g)
  BY <1>1, CountersGoOn DEF BaseInv, GrantRoleStep, GrantRoleRefresh, GrantRolePlan,
     GrantRoleDelete, GrantRoleCreate, GrantRoleRefused
<1>3. g.group \in Participants \ {g} /\ g.member \in Participants \ {g}
      /\ g.group \in Resources /\ g.member \in Resources
  BY <1>1 DEF BaseInv, TypeOK, Scenario, GrantRole, Participants
<1>4. pc'[g] \in {"delete", "create"} => pc[g.group] = "over" /\ pc[g.member] = "over"
  BY <1>1, RunGoesOnFacts DEF BaseInv, Ordered, GrantRoleStep, GrantRoleRefresh, GrantRolePlan,
     GrantRoleDelete, GrantRoleCreate, GrantRoleRefused
<1>5. Ordered'
  <2>1. CASE \A y \in Participants : pc'[y] = "idle"
    BY <1>1, <2>1 DEF Ordered, Participants
  <2>2. CASE \A y \in Participants \ {g} : pc'[y] = pc[y]
    <3>1. \A h \in scenario.grantRoles :
            h \in Participants /\ h.group \in Participants \ {g} /\ h.member \in Participants \ {g}
      BY <1>1 DEF BaseInv, TypeOK, Scenario, GrantRole, Participants
    <3> QED
      BY <1>1, <1>4, <2>2, <3>1 DEF Ordered
  <2> QED
    BY <1>2, <2>1, <2>2 DEF Continues
<1>6. \/ \A r \in Resources : pc'[r] = pc[r]
      \/ \A r \in Resources : pc'[r] = "idle"
  BY <1>1, <1>2 DEF Continues, Participants
<1>7. \A r \in Resources : HasRole(r)' => HasRole(r)
  BY <1>1, <1>6 DEF HasRole, Renames
<1>8. UNCHANGED members \/ (pc[g.group] = "over" /\ pc[g.member] = "over")
  BY DEF Ordered, GrantRoleStep, GrantRoleRefresh, GrantRolePlan, GrantRoleDelete,
         GrantRoleCreate, GrantRoleRefused
<1>9. ASSUME NEW r \in Resources, MembersLocked(r) PROVE MembersLocked(r)'
  <2>1. CASE \A q \in Resources : pc'[q] = "idle"
    BY <2>1 DEF MembersLocked, HasMembers, HasRole, Renames
  <2>2. CASE \A q \in Resources : pc'[q] = pc[q]
    <3>1. HasMembers(r)' => (HasMembers(r) /\ r # g.group) \/ UNCHANGED members
      BY <1>1, <1>8, <2>2 DEF HasMembers, HasRole, Renames
    <3>2. HasMembers(r)' => HasMembers(r) /\ \A m \in Resources : members'[<<r, m>>] = members[<<r, m>>]
      BY <1>1, <1>8, <2>2, <3>1 DEF HasMembers, HasRole, Renames, PairOf, Pairs
    <3> QED
      BY <1>1, <1>9, <2>2, <3>2 DEF MembersLocked, Settled
  <2> QED
    BY <1>6, <2>1, <2>2
<1>10. ASSUME NEW r \in Resources, NamesFound(r) PROVE NamesFound(r)'
  <2> SUFFICES ASSUME pc'[r] = "revoke" PROVE NamesFound(r)'
    BY DEF NamesFound
  <2>1. pc[r] = "revoke" /\ View(r)' = View(r)
    BY <1>1, <1>6 DEF View
  <2>2. \A x \in Resources : members'[<<x, r>>] = members[<<x, r>>]
    BY <1>1, <1>8, <2>1 DEF PairOf, Pairs
  <2> QED
    BY <1>1, <1>10, <2>1, <2>2 DEF NamesFound, Named
<1> QED
  BY <1>2, <1>5, <1>7, <1>9, <1>10

\* Nothing is locked at first.
LEMMA LockInit == Init => LockInv
BY DEF Init, LockInv, Undisturbed, Ordered, MembersLocked, NamesFound, HasMembers, HasRole,
   Renames, Participants

\* Every step keeps the locks and the names.
LEMMA LockStep == BaseInv /\ BaseInv' /\ LockInv /\ [Next]_vars => LockInv'
<1> SUFFICES ASSUME BaseInv, TypeOK', LockInv, [Next]_vars PROVE LockInv'
  BY DEF BaseInv
<1> USE RoleAssumption
<1>1. ASSUME NEW r \in Resources, Step(r) \/ StatementFails(r) PROVE LockInv'
  <2>0. LeavesAlone(r) /\ Continues(r) /\ pc[r] # "over" /\ r \in Participants
    BY <1>1, StepFacts DEF Participants
  <2>1. ASSUME NEW q \in Resources, HasRole(q)' PROVE holder'[q] = q
    <3>1. CASE q = r
      BY <1>1, <2>1, <3>1, KeepsLock DEF LockInv
    <3>2. CASE q # r
      <4>1. pc'[q] = pc[q] /\ op'[q] = op[q]
        BY <2>0, <2>1, <3>2 DEF LeavesAlone, RunGoesOn, HasRole, Renames
      <4>2. HasRole(q)
        BY <2>1, <4>1 DEF HasRole, Renames
      <4> QED
        BY <2>0, <3>2, <4>2 DEF LeavesAlone, LockInv
    <3> QED
      BY <3>1, <3>2
  <2>2. ASSUME Undisturbed' PROVE Undisturbed
    BY <2>0, <2>2 DEF LeavesAlone, Undisturbed
  <2>3. ASSUME Undisturbed, NEW x \in Resources PROVE MembersLocked(x)'
    <3>1. MembersLocked(x) /\ (HasRole(r) => holder[r] = r)
      BY <2>3 DEF LockInv
    <3>2. ~HasMembers(x)' => MembersLocked(x)'
      BY DEF MembersLocked
    <3> QED
      BY <1>1, <3>1, <3>2, MembersLockedOwn, MembersLockedOther
  <2>4. ASSUME Undisturbed, NEW q \in Resources PROVE NamesFound(q)'
    <3>1. NamesFound(q) /\ MembersLocked(r) /\ (HasRole(q) => holder[q] = q)
      BY <2>4 DEF LockInv
    <3> QED
      BY <1>1, <3>1, NamesFoundOwn, NamesFoundOther
  <2>5. ASSUME Undisturbed PROVE Ordered'
    <3> SUFFICES ASSUME NEW g \in scenario.grantRoles, pc'[g] \in {"delete", "create"}
                 PROVE  pc'[g.group] = "over" /\ pc'[g.member] = "over"
      BY <2>0 DEF LeavesAlone, Ordered
    <3>1. g \in GrantRole /\ g \in Participants \ {r}
      BY DEF BaseInv, TypeOK, Scenario, Participants
    <3>2. \A z \in Participants \ {r} : pc'[z] = pc[z]
      BY <2>0, <3>1, SameRun
    <3>3. pc[g.group] = "over" /\ pc[g.member] = "over"
      BY <2>5, <3>1, <3>2 DEF LockInv, Ordered
    <3>4. g.group \in Participants \ {r} /\ g.member \in Participants \ {r}
      BY <2>0, <3>1, <3>3 DEF GrantRole, Participants
    <3> QED
      BY <3>2, <3>3, <3>4
  <2> QED
    BY <2>1, <2>2, <2>3, <2>4, <2>5 DEF LockInv
<1>2. ASSUME NEW r \in Resources, Drift(r) PROVE LockInv'
  <2>1. UNCHANGED <<op, pc, holder>> /\ drifts' # 0
    <3>1. drifts \in Nat /\ drifts' = drifts + 1
      BY <1>2 DEF Drift, BaseInv, TypeOK
    <3> QED
      BY <1>2, <3>1 DEF Drift
  <2> QED
    BY <2>1 DEF LockInv, Undisturbed, HasRole, Renames
<1>3. CASE Edit
  <2>1. UNCHANGED <<op, pc, scenario>> /\ \A x \in Participants : pc[x] = "idle"
    BY <1>3 DEF Edit
  <2> QED
    BY <2>1 DEF LockInv, Ordered, MembersLocked, NamesFound, HasMembers, HasRole, Renames,
       Participants
<1>4. ASSUME NEW g \in scenario.grantRoles, GrantRoleStep(g) PROVE LockInv'
  <2>1. UNCHANGED <<holder, scenario, op>> /\ drifts' = drifts
        /\ \/ \A q \in Resources : pc'[q] = pc[q]
           \/ \A q \in Resources : pc[q] = "over" /\ pc'[q] = "idle"
    BY <1>4, GrantRoleFacts DEF RunGoesOn
  <2>2. \A r \in Resources : HasRole(r)' => holder'[r] = r
    BY <2>1 DEF LockInv, HasRole, Renames
  <2>3. Undisturbed' => Undisturbed
    BY <2>1 DEF Undisturbed
  <2>4. Undisturbed => Ordered' /\ \A r \in Resources : MembersLocked(r)' /\ NamesFound(r)'
    BY <1>4, GrantRoleLocks DEF LockInv, Undisturbed
  <2> QED
    BY <2>2, <2>3, <2>4 DEF LockInv
<1>5. CASE UNCHANGED vars
  <2>1. UNCHANGED <<roles, members, mine, holder, scenario, op, pc, todo, drifts>>
    BY <1>5 DEF vars
  <2>2. \A r \in Resources : View(r)' = View(r)
    BY <2>1 DEF View
  <2>3. \A r \in Resources : NamesFound(r)' = NamesFound(r)
    BY <2>1, <2>2 DEF NamesFound, Named
  <2>4. \A r \in Resources : HasRole(r)' = HasRole(r) /\ MembersLocked(r)' = MembersLocked(r)
    BY <2>1 DEF MembersLocked, HasMembers, HasRole, Renames, Settled
  <2> QED
    BY <2>1, <2>3, <2>4 DEF LockInv, Undisturbed, Ordered
<1> QED
  BY <1>1, <1>2, <1>3, <1>4, <1>5 DEF Next

\* In a transaction a name is the name of one role.
LEMMA SeenOnce ==
    ASSUME BaseInv, NEW r \in Resources, NEW n,
           NEW x \in Named(View(r), n), NEW y \in Named(View(r), n)
    PROVE  x = y
<1> USE RoleAssumption
<1>1. /\ x \in Resources /\ View(r)[x] # Absent /\ View(r)[x].name = n
      /\ y \in Resources /\ View(r)[y] # Absent /\ View(r)[y].name = n
  BY DEF Named
<1>2. ASSUME NEW o \in Resources \ {r}, View(r)[o] # Absent
      PROVE  Named(roles, View(r)[o].name) \subseteq {o} /\ o \in Named(roles, View(r)[o].name)
  BY <1>2, ViewType DEF BaseInv, Written, Unique, Named
<1>3. View(r)[r] # Absent => Named(roles, View(r)[r].name) \subseteq {r}
  <2>1. CASE mine[r][r] = Untouched
    BY <2>1, ViewType DEF BaseInv, Unique
  <2>2. CASE mine[r][r] # Untouched
    <3>1. View(r)[r] = mine[r][r]
      BY <2>2, ViewType DEF BaseInv
    <3>2. mine[r][r] # Absent => mine[r][r] \in Row
      BY <2>2 DEF BaseInv, TypeOK
    <3> QED
      BY <3>1, <3>2 DEF BaseInv, Unique
  <2> QED
    BY <2>1, <2>2
<1> QED
  BY <1>1, <1>2, <1>3

\* With the locks, nobody renames or drops what is to be revoked.
LEMMA RevokesFound ==
    ASSUME BaseInv, LockInv, scenario.ordered PROVE RevokeFindsRoles
<1> USE RoleAssumption
<1> SUFFICES ASSUME drifts = 0, NEW r \in Resources, pc[r] = "revoke", NEW n \in todo[r]
             PROVE  /\ Named(View(r), n) # {}
                    /\ \A x \in Named(View(r), n) : DropHolders(r, x) = {}
  BY DEF RevokeFindsRoles
<1>1. PICK x \in Named(View(r), n) : members[<<x, r>>] # "none"
  BY DEF LockInv, Undisturbed, NamesFound
<1>2. holder[r] = r
  BY DEF LockInv, HasRole, Renames, BaseInv, Flow
<1>3. DropHolders(r, x) = {}
  <2> SUFFICES ASSUME NEW q \in Resources \ {r}, mine[q][x] = Absent PROVE FALSE
    BY DEF DropHolders
  <2>1. x = q /\ pc[q] = "commit"
    BY DEF BaseInv, Written, Named
  <2> QED
    BY <1>1, <1>2, <2>1, NoMemberRevokes DEF LockInv, Undisturbed
<1> QED
  BY <1>1, <1>3, SeenOnce

\* Together they are inductive.
THEOREM LockInvariance == Spec => [](BaseInv /\ LockInv)
<1>1. BaseInv /\ LockInv /\ [Next]_vars => (BaseInv /\ LockInv)'
  BY BaseStep, LockStep
<1> QED
  BY <1>1, BaseInit, LockInit, PTL DEF Spec

\* When grant_roles are applied after the roles they name, what an Update has read
\* to be revoked is still there when it revokes it (roleFwRevokeRoles), because
\* whoever renames or drops a role has locked its members (pgLockRole).
THEOREM RevokesWhatItRead == Spec => [](scenario.ordered => RevokeFindsRoles)
<1>1. BaseInv /\ LockInv => (scenario.ordered => RevokeFindsRoles)
  BY RevokesFound
<1> QED
  BY <1>1, LockInvariance, PTL

-----------------------------------------------------------------------------
(* The passwords. *)

\* Where a transaction writes no row, its role is seen with the same password.
LEMMA SamePassword ==
    ASSUME BaseInv, NEW r \in Resources, PasswordKnown(r),
           UNCHANGED <<scenario, config>>, roles'[r] = roles[r], mine'[r] = mine[r],
           state'[r] = state[r], op'[r] = op[r],
           pc'[r] # pc[r] =>
             \/ pc[r] \notin {"read", "alter"} /\ pc'[r] \notin {"read", "alter"}
                  /\ (Renames(r)' => Renames(r))
             \/ op[r] = "refresh" /\ ~Renames(r)'
    PROVE  PasswordKnown(r)'
<1>1. View(r)'[r] = View(r)[r]
  BY DEF View
<1>2. Unread(r)' = Unread(r)
  BY DEF Unread
<1>3. ~Unread(r)' /\ state'[r] # Absent /\ roles'[r] # Absent /\ Lasting(state[r].password)' =>
        roles'[r].password = state'[r].password.value
  BY <1>2 DEF PasswordKnown, Lasting
<1>4. pc'[r] = "alter" /\ Lasting(state[r].password)'
        /\ ~(scenario'.md5 /\ config'[r].name # state'[r].name) =>
        View(r)'[r].password = state'[r].password.value
  BY <1>1 DEF PasswordKnown, Lasting, Renames
<1>5. Renames(r)' /\ pc'[r] # "alter" /\ op'[r] # "delete" /\ Lasting(config[r].password)' =>
        View(r)'[r].password = config'[r].password.value
  BY <1>1 DEF PasswordKnown, Lasting, Renames, BaseInv, Flow
<1>6. Unread(r)' /\ Lasting(config[r].password)' =>
        roles'[r].password = config'[r].password.value
  BY <1>2 DEF PasswordKnown, Lasting
<1> QED
  BY <1>3, <1>4, <1>5, <1>6 DEF PasswordKnown

\* A password that the server has before Alter and that is not set then is the one
\* that is configured: the switch from one kind of password to another sets it.
LEMMA SetOrSame ==
    ASSUME BaseInv, NEW r \in Resources, pc[r] = "alter", PasswordKnown(r),
           Lasting(config[r].password)
    PROVE  Altered(r, View(r)[r]).password = config[r].password.value
<1> USE RoleAssumption
<1>1. config[r] \in Config /\ state[r] \in Instance /\ View(r)[r] \in Row
  BY NameKept DEF BaseInv, TypeOK, Flow
<1>2. config[r].password \in ConfiguredPassword /\ state[r].password \in Password
  BY <1>1 DEF Config, Instance
<1>3. Altered(r, View(r)[r]).password =
        IF SetsPassword(r) THEN config[r].password.value ELSE View(r)[r].password
  BY <1>1 DEF Altered, Row
<1>4. CASE ~SetsPassword(r)
  <2>1. config[r].password.kind \in {"password", "password_wo"}
    BY <1>2 DEF ConfiguredPassword, Password, Lasting
  <2>2. CASE config[r].password.kind = "password_wo"
    <3>1. config[r].password = state[r].password
      BY <1>4, <2>2 DEF SetsPassword
    <3> QED
      BY <1>3, <1>4, <2>2, <3>1 DEF PasswordKnown, Lasting
  <2>3. CASE config[r].password.kind = "password"
    <3>1. /\ Text(config[r].password) = Text(state[r].password)
          /\ config[r].name = state[r].name
      BY <1>4, <2>3 DEF SetsPassword
    <3>2. state[r].password.kind = "password"
          /\ state[r].password.value = config[r].password.value
      BY <2>3, <3>1 DEF Text, Lasting
    <3> QED
      BY <1>3, <1>4, <2>3, <3>1, <3>2 DEF PasswordKnown, Lasting
  <2> QED
    BY <2>1, <2>2, <2>3
<1> QED
  BY <1>3, <1>4

\* What is read is the password that the server has, or does not say that it is.
LEMMA ReadsLasting ==
    ASSUME RoleAssumption, NEW row, NEW password \in Password,
           Lasting(password) => row.password = password.value,
           Lasting(ReadPassword(row, password))
    PROVE  row.password = ReadPassword(row, password).value
<1>1. CASE ~scenario.reads \/ Text(password) = NoPassword
  BY <1>1 DEF ReadPassword
<1>2. CASE ~(~scenario.reads \/ Text(password) = NoPassword)
  <2> DEFINE value == CASE row.password = NoPassword -> NoPassword
                        [] scenario.md5 /\ row.password # password.value -> OtherHash
                        [] OTHER -> password.value
  <2>1. ReadPassword(row, password) = [password EXCEPT !.value = value]
    BY <1>2 DEF ReadPassword, Password
  <2>2. ReadPassword(row, password).value = value
        /\ ReadPassword(row, password).kind = password.kind
    <3> HIDE DEF value
    <3> QED
      BY <2>1 DEF Password
  <2>3. value \notin {NoPassword, OtherHash}
    BY <2>2 DEF Lasting, RoleAssumption
  <2>4. value = password.value
    BY <2>3
  <2> HIDE DEF value
  <2> QED
    BY <2>2, <2>4 DEF Lasting
<1> QED
  BY <1>1, <1>2

\* What the steps of an operation do to its own password.
LEMMA PasswordOwn ==
    ASSUME BaseInv, TypeOK', NEW r \in Resources, Step(r) \/ StatementFails(r),
           PasswordKnown(r)
    PROVE  PasswordKnown(r)'
<1> USE RoleAssumption
<1>0. r \in Participants
  BY DEF Participants
<1>1. CASE \/ Refresh(r) \/ LockRole(r) \/ FindMembers(r) \/ LockMember(r)
           \/ ListRoles(r) \/ AllRevoked(r) \/ RevokeRole(r) \/ GrantTo(r)
  <2>1. UNCHANGED <<roles, mine, inputs, state, op>>
    BY <1>1 DEF Refresh, LockRole, FindMembers, LockMember, ListRoles, AllRevoked, RevokeRole,
       GrantTo
  <2>2. \/ pc[r] = "idle" /\ op[r] = "refresh" /\ pc'[r] \in {"plan", "read"}
        \/ pc[r] \in {"lock", "members", "lockMembers"}
             /\ pc'[r] \in {"members", "lockMembers", "drop", "rename"}
        \/ pc[r] = "list" /\ pc'[r] = "revoke"
        \/ pc[r] = "revoke" /\ pc'[r] = "grant"
        \/ pc'[r] = pc[r]
    BY <1>0, <1>1, RunGoesOnFacts DEF BaseInv, Flow, Refresh, LockRole, FindMembers, LockMember,
       ListRoles, AllRevoked, RevokeRole, GrantTo
  <2> QED
    BY <2>1, <2>2, SamePassword DEF Renames
<1>2. CASE Plan(r)
  <2>1. UNCHANGED <<roles, mine, inputs, state>> /\ pc[r] = "plan"
        /\ pc'[r] \in {"create", "lock", "over", "idle"}
    BY <1>0, <1>2, RunGoesOnFacts DEF BaseInv, Plan, Return
  <2> QED
    BY <2>1 DEF PasswordKnown, Unread, Renames, Lasting
<1>3. CASE CreateRole(r)
  <2>1. /\ op[r] = "create" /\ state'[r] = Absent /\ pc'[r] = "grant" /\ config' = config
        /\ scenario' = scenario
    BY <1>0, <1>3, RunGoesOnFacts DEF BaseInv, Flow, CreateRole
  <2>2. mine'[r][r] =
          [name |-> config[r].name, password |-> config[r].password.value,
           options |-> config[r].options \cap {"attribute"}]
    BY <1>3 DEF BaseInv, TypeOK, CreateRole
  <2>3. mine'[r][r] # Untouched
    <3>1. config[r] \in Config
      BY <2>1 DEF BaseInv, TypeOK, Flow
    <3>2. mine'[r][r] \in Row
      BY <2>2, <3>1 DEF Config, ConfiguredPassword, Password, Row
    <3> QED
      BY <3>2
  <2>4. View(r)'[r].password = config[r].password.value
    BY <2>2, <2>3 DEF View
  <2> QED
    BY <2>1, <2>4 DEF PasswordKnown, Unread
<1>4. CASE Rename(r)
  <2>1. /\ pc[r] = "rename" /\ Found(r) = {r} /\ mine[r][r] = Untouched
        /\ pc'[r] = "alter" /\ UNCHANGED <<roles, inputs, state, op>>
    BY <1>0, <1>4, FoundOwn, RunGoesOnFacts DEF BaseInv, Rename, Written, Renames
  <2>2. View(r)[r] = roles[r] /\ roles[r] \in Row
    BY <2>1, ViewType DEF BaseInv
  <2>3. state[r] # Absent /\ ~Unread(r)
    BY <2>1 DEF BaseInv, Flow, Unread
  <2>4. ASSUME Lasting(state[r].password),
               ~(scenario.md5 /\ config[r].name # state[r].name)
        PROVE  View(r)'[r].password = state[r].password.value
    <3>1. roles[r].password = state[r].password.value
      BY <2>2, <2>3, <2>4 DEF PasswordKnown
    <3>2. CASE UNCHANGED mine
      BY <2>1, <2>2, <3>1, <3>2 DEF View
    <3>3. CASE mine' # mine
      <4>1. ~scenario.md5 /\ mine' = [mine EXCEPT ![r][r] = Renamed(r, View(r)[r])]
        BY <1>4, <2>1, <2>4, <3>3 DEF Rename
      <4>2. Renamed(r, View(r)[r]).password = roles[r].password
        BY <2>2, <4>1 DEF Renamed, Row
      <4>3. mine'[r][r] = Renamed(r, View(r)[r])
        BY <4>1 DEF BaseInv, TypeOK
      <4>4. mine'[r][r] # Untouched
        <5>1. config[r].name \in Names
          BY <2>1 DEF BaseInv, TypeOK, Flow, Config
        <5>2. Renamed(r, View(r)[r]) \in Row
          BY <2>2, <5>1 DEF Renamed, Row
        <5> QED
          BY <4>3, <5>2
      <4> QED
        BY <3>1, <4>2, <4>3, <4>4 DEF View
    <3> QED
      BY <3>2, <3>3
  <2> QED
    BY <2>1, <2>3, <2>4 DEF PasswordKnown, Unread, Renames, Lasting
<1>5. CASE Alter(r)
  <2>1. /\ pc[r] = "alter" /\ Found(r) = {r} /\ op[r] = "update"
        /\ pc'[r] = "list" /\ UNCHANGED <<roles, inputs, state, op>>
    BY <1>0, <1>5, FoundOwn, RunGoesOnFacts DEF BaseInv, Flow, Alter
  <2>2. View(r)[r] \in Row
    BY <2>1, ViewType DEF BaseInv
  <2>3. View(r)'[r].password = Altered(r, View(r)[r]).password
    <3>1. CASE ~Alters(r) /\ UNCHANGED mine
      <4>1. ~SetsPassword(r) /\ View(r)'[r] = View(r)[r]
        BY <2>1, <3>1 DEF View, Alters
      <4> QED
        BY <2>2, <4>1 DEF Altered, Row
    <3>2. CASE Alters(r)
      <4>1. mine' = [mine EXCEPT ![r][r] = Altered(r, View(r)[r])]
        BY <1>5, <2>1, <3>2 DEF Alter
      <4>2. mine'[r][r] = Altered(r, View(r)[r])
        BY <4>1 DEF BaseInv, TypeOK
      <4>3. Altered(r, View(r)[r]).name = View(r)[r].name
        BY <2>2 DEF Altered, Row
      <4>4. mine'[r][r] # Untouched
        <5>1. config[r] \in Config
          BY <2>1 DEF BaseInv, TypeOK, Flow
        <5>2. With(View(r)[r].options, r, "attribute") \subseteq Options
          BY <2>2, <5>1 DEF With, Row, Config
        <5>3. Altered(r, View(r)[r]) \in Row
          BY <2>2, <5>1, <5>2 DEF Altered, Row, Config, ConfiguredPassword, Password
        <5> QED
          BY <4>2, <5>3
      <4> QED
        BY <4>2, <4>4 DEF View
    <3> QED
      BY <1>5, <3>1, <3>2 DEF Alter
  <2>4. Lasting(config[r].password) => View(r)'[r].password = config[r].password.value
    BY <2>1, <2>3, SetOrSame
  <2> QED
    BY <2>1, <2>4 DEF PasswordKnown, Unread, Renames, Lasting
<1>6. CASE Settings(r)
  <2>1. /\ pc[r] = "grant" /\ Found(r) = {r} /\ op[r] \in {"create", "update"}
        /\ pc'[r] = "commit" /\ UNCHANGED <<roles, inputs, state, op>>
    BY <1>0, <1>6, FoundOwn, RunGoesOnFacts DEF BaseInv, Flow, Settings
  <2> DEFINE row == [View(r)[r] EXCEPT !.options = NewSettings(r, @)]
  <2>2. View(r)[r] \in Row
    BY <2>1, ViewType DEF BaseInv
  <2>3. mine' = [mine EXCEPT ![r][r] = row]
    BY <1>6, <2>1 DEF Settings
  <2>4. row.password = View(r)[r].password /\ row \in Row
    <3>1. config[r] \in Config
      BY <2>1 DEF BaseInv, TypeOK, Flow
    <3>2. NewSettings(r, View(r)[r].options) \subseteq Options
      BY <2>2, <3>1 DEF NewSettings, With, Row, Config
    <3> QED
      BY <2>2, <3>2 DEF Row
  <2> HIDE DEF row
  <2>5. mine'[r][r] = row
    BY <2>3 DEF BaseInv, TypeOK
  <2>6. View(r)'[r].password = View(r)[r].password
    BY <2>4, <2>5 DEF View
  <2> QED
    BY <2>1, <2>6 DEF PasswordKnown, Unread, Renames, Lasting
<1>7. CASE DropRole(r)
  <2>1. pc[r] = "drop" /\ op[r] = "delete" /\ pc'[r] = "commit"
        /\ UNCHANGED <<roles, inputs, state, op>>
    BY <1>0, <1>7, RunGoesOnFacts DEF BaseInv, Flow, DropRole
  <2> QED
    BY <2>1 DEF PasswordKnown, Unread, Lasting
<1>8. CASE Commit(r)
  <2>1. roles' = View(r) /\ UNCHANGED <<inputs, op>> /\ pc[r] = "commit"
    BY <1>8 DEF Commit
  <2>2. CASE op[r] = "delete"
    <3>1. state'[r] = Absent /\ pc'[r] = "plan"
      BY <1>0, <1>8, <2>2, RunGoesOnFacts DEF BaseInv, TypeOK, Commit
    <3> QED
      BY <3>1 DEF PasswordKnown, Unread, Renames
  <2>3. CASE op[r] # "delete"
    <3>1. pc'[r] = "read" /\ op'[r] # "refresh"
      BY <1>0, <1>8, <2>1, <2>3, RunGoesOnFacts DEF BaseInv, Flow, Commit
    <3> QED
      BY <2>1, <2>3, <3>1 DEF PasswordKnown, Unread, Renames, Lasting
  <2> QED
    BY <2>2, <2>3
<1>9. CASE Read(r)
  <2> DEFINE expected == IF op[r] = "refresh" THEN state[r].password ELSE config[r].password
  <2> DEFINE found == Named(roles, Subject(r))
  <2>1. pc[r] = "read" /\ UNCHANGED <<roles, mine, inputs>>
    BY <1>9 DEF Read
  <2>2. pc'[r] \in {"plan", "over", "idle"}
    BY <1>0, <1>9, RunGoesOnFacts DEF BaseInv, Read, Return
  <2>3. \/ state'[r] = Absent
        \/ roles[r] # Absent /\ state'[r] = ReadInstance(r, r)
    <3> DEFINE new == IF found = {} THEN Absent ELSE ReadInstance(r, CHOOSE o \in found : TRUE)
    <3>1. state' = [state EXCEPT ![r] = new]
      BY <1>9 DEF Read
    <3>2. state'[r] = new
      <4> HIDE DEF new
      <4> QED
        BY <3>1 DEF BaseInv, TypeOK
    <3>3. found \subseteq {r}
      BY <2>1 DEF BaseInv, TypeOK, Subject, Flow, Known, Unread, Unique, Named
    <3>4. found # {} => (CHOOSE o \in found : TRUE) = r /\ roles[r] # Absent
      BY <3>3 DEF Named
    <3> QED
      BY <3>2, <3>4
  <2>4. ASSUME roles[r] # Absent, state'[r] = ReadInstance(r, r), Lasting(state'[r].password)
        PROVE  roles[r].password = state'[r].password.value
    <3>1. state'[r].password = ReadPassword(roles[r], expected)
      BY <2>4 DEF ReadInstance, ReadValues
    <3>2. expected \in Password
      BY <2>1 DEF BaseInv, TypeOK, Flow, Instance, Config, ConfiguredPassword
    <3>3. Lasting(expected) => roles[r].password = expected.value
      BY <2>1, <2>4 DEF PasswordKnown, Unread, BaseInv, Flow
    <3> HIDE DEF expected
    <3> QED
      BY <2>4, <3>1, <3>2, <3>3, ReadsLasting
  <2>5. Lasting(state[r].password)' => Lasting(state'[r].password)
    BY <2>1 DEF Lasting
  <2> QED
    BY <2>1, <2>2, <2>3, <2>4, <2>5 DEF PasswordKnown, Unread, Renames
<1>10. CASE Fail(r) /\ pc[r] # "read"
  <2>1. UNCHANGED <<roles, state, scenario, config>> /\ pc'[r] \in {"over", "idle"}
    BY <1>0, <1>10, RunGoesOnFacts DEF BaseInv, Fail, Return
  <2> QED
    BY <1>10, <2>1 DEF PasswordKnown, Unread, Renames, Lasting
<1> QED
  BY <1>1, <1>2, <1>3, <1>4, <1>5, <1>6, <1>7, <1>8, <1>9, <1>10
     DEF Step, Refuse, Refused, StatementFails

\* Nor do the others change it.
LEMMA PasswordOther ==
    ASSUME BaseInv, TypeOK', NEW s \in Resources, Step(s) \/ StatementFails(s),
           NEW r \in Resources \ {s}, PasswordKnown(r)
    PROVE  PasswordKnown(r)'
<1>1. LeavesAlone(s)
  BY StepFacts
<1>2. roles'[r] = roles[r]
  BY StepFacts, Published DEF CommitsNothing
<1>3. pc'[r] = pc[r] \/ (pc[r] = "over" /\ pc'[r] = "idle")
  BY <1>1 DEF LeavesAlone, RunGoesOn
<1>4. UNCHANGED <<scenario, config>> /\ mine'[r] = mine[r] /\ state'[r] = state[r] /\ op'[r] = op[r]
  BY <1>1 DEF LeavesAlone
<1> QED
  BY <1>2, <1>3, <1>4, SamePassword DEF Renames

\* There are no passwords at first.
LEMMA PasswordInit == Init => PasswordInv
BY DEF Init, PasswordInv, PasswordKnown, Unread, Renames, Participants

\* Every step keeps what is known of the passwords.
LEMMA PasswordStep == BaseInv /\ BaseInv' /\ PasswordInv /\ [Next]_vars => PasswordInv'
<1> SUFFICES ASSUME BaseInv, TypeOK', PasswordInv, [Next]_vars PROVE PasswordInv'
  BY DEF BaseInv
<1>1. ASSUME NEW s \in Resources, Step(s) \/ StatementFails(s) PROVE PasswordInv'
  <2>1. drifts' = drifts
    BY <1>1, StepFacts DEF LeavesAlone
  <2>2. ASSUME NEW r \in Resources, PasswordKnown(r) PROVE PasswordKnown(r)'
    BY <1>1, <2>2, PasswordOwn, PasswordOther
  <2> QED
    BY <2>1, <2>2 DEF PasswordInv
<1>2. ASSUME NEW r \in Resources, Drift(r) PROVE PasswordInv'
  BY <1>2 DEF Drift, BaseInv, TypeOK, PasswordInv
<1>3. CASE Edit
  <2>1. /\ UNCHANGED <<roles, state, scenario, op, pc, drifts>>
        /\ \A r \in Resources : pc[r] = "idle"
    BY <1>3 DEF Edit, Participants
  <2> QED
    BY <2>1 DEF PasswordInv, PasswordKnown, Unread, Renames, Lasting
<1>4. ASSUME NEW g \in scenario.grantRoles, GrantRoleStep(g) PROVE PasswordInv'
  <2>1. /\ UNCHANGED <<roles, mine, inputs, state, op>>
        /\ \/ \A q \in Resources : pc'[q] = pc[q]
           \/ \A q \in Resources : pc[q] = "over" /\ pc'[q] = "idle"
    BY <1>4, GrantRoleFacts DEF RunGoesOn
  <2>2. ASSUME NEW r \in Resources, PasswordKnown(r) PROVE PasswordKnown(r)'
    BY <2>1, <2>2, SamePassword DEF Renames
  <2> QED
    BY <2>1, <2>2 DEF PasswordInv
<1>5. CASE UNCHANGED vars
  <2>1. ASSUME NEW r \in Resources, PasswordKnown(r) PROVE PasswordKnown(r)'
    BY <1>5, <2>1, SamePassword DEF vars
  <2> QED
    BY <1>5, <2>1 DEF vars, PasswordInv
<1> QED
  BY <1>1, <1>2, <1>3, <1>4, <1>5 DEF Next

\* It is inductive together with the base.
THEOREM PasswordInvariance == Spec => [](BaseInv /\ PasswordInv)
<1>1. BaseInv /\ PasswordInv /\ [Next]_vars => (BaseInv /\ PasswordInv)'
  BY BaseStep, PasswordStep
<1> QED
  BY <1>1, BaseInit, PasswordInit, PTL DEF Spec

\* As long as nobody else changes the server, the password in Terraform's state is
\* the one that lets its user log in, after any sequence of renamings, of switches
\* between password and password_wo, and of failures between them
\* (roleFwSetRolePassword, roleFwReadRolePassword).
THEOREM PasswordsInForce == Spec => []PasswordInForce
<1>1. BaseInv /\ PasswordInv => PasswordInForce
  BY DEF PasswordInv, PasswordInForce, PasswordKnown, Unread, Lasting
<1> QED
  BY <1>1, PasswordInvariance, PTL
=============================================================================
