----------------------------- MODULE CatalogRun -----------------------------
(***************************************************************************)
(* What the resources of catalog objects share: the objects of the server, *)
(* with what depends on what among them, and the runs of Terraform, which  *)
(* reads what its state has, plans, and applies the plan in parallel,      *)
(* dependencies first.  There is one resource of each kind; the operations *)
(* of the kinds are in SchemaResource, ForeignData, Replication and        *)
(* FunctionResource.                                                       *)
(*                                                                         *)
(* An operation is one transaction, or several statements that commit one  *)
(* by one; some kinds then read back what there is, in a transaction of    *)
(* its own.  The provider's user may do all that is asked of it: the roles *)
(* it is granted for that are RolesGranted's matter.                       *)
(***************************************************************************)
EXTENDS Naturals, FiniteSets

CONSTANTS Names,          \* of objects; a user mapping has that of its server
          Roles, Public,  \* who may own objects and have privileges
          Me,             \* the provider's user, a role
          Versions, Newest,
          DefaultSchema,
          OptionNames, OptionValues,
          Tables,
          Scenarios,      \* by name: what users configure, and what is there before
          MaxDrifts, MaxFailures,
          Absent,         \* not configured; not in the state; not in the server
          Unset           \* an attribute that is not configured

VARIABLES catalog,        \* the objects there are, by kind and name
          missing,        \* the roles that have been dropped
          scenario, config,
          state, tainted, \* Terraform's state, and what it is to replace
          pc,             \* where each resource is in the run
          halfDone,       \* the kinds of which an operation failed after a commit
          edits, drifts, failures

inputs == <<scenario, config, edits, drifts>>
vars == <<catalog, missing, inputs, state, tainted, pc, halfDone, failures>>

Kinds == {"schema", "extension", "server", "mapping", "publication", "subscription", "slot",
          "function"}
Objects == Kinds \X Names

Privileges == {"usage", "create"}
Grantees == Roles \cup {Public}
Policy == [role : Grantees, privileges : SUBSET Privileges]
Options == UNION {[S -> OptionValues] : S \in SUBSET OptionNames}
Operations == {"insert", "update"}

\* slot: the one a subscription uses.
SubscriptionRow == [conn : {"a", "b"}, enabled : BOOLEAN, slot : Names \cup {Absent}]

\* acl: with what an owner has of its own; owners: who has ever owned the schema, a
\* history.  fdw: the extension the foreign-data wrapper is part of; the type of the
\* server is as its wrapper.
Row == [schema |-> [owner : Roles, acl : SUBSET (Grantees \X Privileges), owners : SUBSET Roles],
        extension |-> [schema : Names \cup {DefaultSchema}, version : Versions],
        server |-> [fdw : Names, version : Versions, owner : Roles, options : Options],
        mapping |-> [options : Options],
        publication |-> [owner : Roles, tables : SUBSET Tables, all : BOOLEAN,
                         params : SUBSET Operations],
        subscription |-> SubscriptionRow,
        slot |-> [plugin : {"a", "b"}],
        function |-> [returns : {"a", "b"}, options : {"a", "b"}, body : {"a", "b"}]]

\* What is configured.  Optional attributes that are computed may be unset; in an
\* instance of the state nothing is.  A schema has one policy for a role, without
\* grant options; the operations a publication publishes are configured in the
\* order in which they are read.
Policies == {P \in SUBSET Policy : \A p, q \in P : p.role = q.role => p = q}

SchemaConfig ==
    [name : Names, owner : Roles \cup {Unset}, policies : Policies, cascade : BOOLEAN]
ExtensionConfig ==
    [name : Names, schema : Names \cup {DefaultSchema, Unset}, version : Versions \cup {Unset},
     cascade : BOOLEAN]
ServerConfig ==
    [name : Names, fdw : Names, version : Versions, owner : Roles \cup {Unset},
     options : Options, cascade : BOOLEAN]
MappingConfig == [name : Names, options : Options]
PublicationConfig ==
    [name : Names, owner : Roles \cup {Unset}, tables : (SUBSET Tables) \cup {Unset},
     all : BOOLEAN \cup {Unset}, params : (SUBSET Operations) \cup {Unset}, cascade : BOOLEAN]
SubscriptionConfig == [name : Names, conn : {"a", "b"}, createSlot : BOOLEAN, slot : Names]
SlotConfig == [name : Names, plugin : {"a", "b"}]
FunctionConfig ==
    [name : Names, returns : {"a", "b"}, options : {"a", "b"}, body : {"a", "b"},
     cascade : BOOLEAN]

Config ==
    [schema |-> SchemaConfig, extension |-> ExtensionConfig, server |-> ServerConfig,
     mapping |-> MappingConfig, publication |-> PublicationConfig,
     subscription |-> SubscriptionConfig, slot |-> SlotConfig, function |-> FunctionConfig]

\* The attributes of which another value makes another object.
ForceNew == [schema |-> {}, extension |-> {"name"}, server |-> {"fdw"}, mapping |-> {"name"},
             publication |-> {"all"}, subscription |-> {"name", "conn", "createSlot", "slot"},
             slot |-> {"name", "plugin"}, function |-> {"name", "returns"}]

\* configs: from the kinds to a configuration or Absent; there: what is in the
\* server at first, by kind and name; order: <<k, d>> when the configuration of k
\* refers to the resource d; edits: how often users change it.
IsScenario(s) ==
    /\ \A c \in s.configs :
        /\ \A k \in Kinds : c[k] = Absent \/ c[k] \in Config[k]
        /\ \A p \in s.order : c[p[1]] # Absent => c[p[2]] # Absent
    /\ s.order \subseteq Kinds \X Kinds
    /\ s.edits \in Nat
    /\ s.there = [k \in Kinds |-> [n \in Names |-> s.there[k][n]]]
    /\ \A k \in Kinds, n \in Names : s.there[k][n] = Absent \/ s.there[k][n] \in Row[k]
    /\ \A n \in Names : s.there["schema"][n] # Absent =>
         s.there["schema"][n].owners = {s.there["schema"][n].owner}

\* (TLC evaluates a definition once, and what a .cfg gives a constant every time.)
Given == Scenarios
GivenKinds == [s \in DOMAIN Given |-> {k \in Kinds : \E c \in Given[s].configs : c[k] # Absent}]

ASSUME CatalogAssumption ==
    /\ \A s \in DOMAIN Scenarios : IsScenario(Scenarios[s])
    /\ Me \in Roles /\ Public \notin Roles /\ Newest \in Versions
    /\ {DefaultSchema, Absent, Unset} \cap Names = {}
    /\ \A k \in Kinds : Absent \notin Config[k] /\ Absent \notin Row[k]
    /\ Unset \notin Roles /\ Unset \notin Versions /\ Unset # DefaultSchema
    /\ Unset \notin BOOLEAN /\ Unset \notin {"a", "b"} /\ Unset \notin Options
    /\ \A S \in SUBSET Policy : S # Unset
    /\ \A S \in SUBSET Tables : S # Unset
    /\ \A S \in SUBSET Operations : S # Unset
    /\ {MaxDrifts, MaxFailures} \subseteq Nat

Complete(C) == {c \in C : \A f \in DOMAIN c : c[f] # Unset}

PC == {"idle", "read", "create", "update", "delete", "unset", "drop", "readBack", "over", "failed"}

TypeOK ==
    /\ \A k \in Kinds, n \in Names : catalog[k][n] = Absent \/ catalog[k][n] \in Row[k]
    /\ missing \subseteq Roles
    /\ scenario \in DOMAIN Scenarios
    /\ config \in Given[scenario].configs
    /\ \A k \in Kinds : state[k] = Absent \/ state[k] \in Complete(Config[k])
    /\ tainted \subseteq Kinds
    /\ pc \in [Kinds -> PC]
    /\ halfDone \subseteq Kinds
    /\ {edits, drifts, failures} \subseteq Nat

-----------------------------------------------------------------------------
(* The server. *)

Put(k, n, row) == [catalog EXCEPT ![k][n] = row]

\* What an object depends on.
DependsOn(d, o) ==
    LET row == catalog[d[1]][d[2]]
    IN  /\ row # Absent
        /\ \/ d[1] = "extension" /\ o = <<"schema", row.schema>>
           \/ d[1] = "server" /\ o = <<"extension", row.fdw>>
           \/ d[1] = "mapping" /\ o = <<"server", d[2]>>

WithDependents(S) ==
    S \cup {d \in {"extension", "server", "mapping"} \X Names : \E o \in S : DependsOn(d, o)}

\* What goes with an object: at most an extension, a server and its mapping.
Doomed(o) == WithDependents(WithDependents(WithDependents({o})))

Without(S) ==
    [k \in Kinds |-> [n \in Names |-> IF <<k, n>> \in S THEN Absent ELSE catalog[k][n]]]

\* DROP ... RESTRICT is refused while something depends on the object.
CanDrop(k, n, cascade) == catalog[k][n] # Absent /\ (cascade \/ Doomed(<<k, n>>) = {<<k, n>>})

\* The catalog in which the object n of kind k is called m and has a new row:
\* what depends on the object knows it by its oid.
Renamed(k, n, m, row) ==
    [catalog EXCEPT ![k][n] = Absent,
                    ![k][m] = row,
                    !.extension = [e \in Names |-> IF DependsOn(<<"extension", e>>, <<k, n>>)
                                                   THEN [@[e] EXCEPT !.schema = m] ELSE @[e]],
                    !.mapping = IF k = "server"
                                THEN [@ EXCEPT ![n] = Absent, ![m] = catalog.mapping[n]] ELSE @]

Active(slot) ==
    \E n \in Names : LET row == catalog.subscription[n]
                     IN  row # Absent /\ row.enabled /\ row.slot = slot

-----------------------------------------------------------------------------
(* What Terraform gives an operation, and what it makes of the result. *)

Planned(k) ==
    [f \in DOMAIN config[k] |->
        IF config[k][f] = Unset /\ state[k] # Absent THEN state[k][f] ELSE config[k][f]]

Told(planned, default) == IF planned = Unset THEN default ELSE planned

\* The instance that has the attributes read where the plan has its own.
With(inst, read) ==
    [f \in DOMAIN inst |-> IF f \in DOMAIN read THEN read[f] ELSE inst[f]]

Fail(k) ==
    /\ pc' = [pc EXCEPT ![k] = "failed"]
    /\ halfDone' = IF pc[k] \in {"unset", "drop", "readBack"} THEN halfDone \cup {k} ELSE halfDone
    /\ UNCHANGED <<catalog, missing, inputs, state, tainted>>

\* A statement, or a transaction, that the server accepts or refuses, and that
\* may fail for reasons of its own: then it has done nothing.
Try(k, accepted, Effect) ==
    \/ /\ accepted
       /\ Effect
       /\ UNCHANGED <<missing, inputs, halfDone, failures>>
    \/ ~accepted /\ Fail(k) /\ UNCHANGED failures
    \/ failures < MaxFailures /\ failures' = failures + 1 /\ Fail(k)

\* Terraform keeps a result that contradicts the plan, as an error, and replaces
\* the object if it was to be created.
Record(k, inst) ==
    LET contradicts == \E f \in DOMAIN inst : Planned(k)[f] \notin {Unset, inst[f]}
    IN  /\ state' = [state EXCEPT ![k] = inst]
        /\ pc' = [pc EXCEPT ![k] = IF contradicts THEN "failed" ELSE "over"]
        /\ tainted' = IF contradicts /\ state[k] = Absent THEN tainted \cup {k} ELSE tainted \ {k}

\* What is deleted and still configured is replaced.
Forget(k) ==
    /\ state' = [state EXCEPT ![k] = Absent]
    /\ pc' = [pc EXCEPT ![k] = IF config[k] = Absent THEN "over" ELSE "create"]
    /\ tainted' = tainted \ {k}

Continue(k, step) == pc' = [pc EXCEPT ![k] = step] /\ UNCHANGED <<state, tainted>>

\* Who waits for whom: what refers to another comes after it, and is deleted
\* before that is changed or deleted.
Refers(k) == {d \in Kinds : <<k, d>> \in Given[scenario].order}
ReferredBy(k) == {e \in Kinds : <<e, k>> \in Given[scenario].order}

Turn(k, step) ==
    /\ pc[k] = step
    /\ step \in {"create", "update"} => \A d \in Refers(k) : pc[d] = "over"
    /\ step \in {"update", "delete"} => \A e \in ReferredBy(k) :
        pc[e] \notin {"delete", "unset", "drop", "failed"}

\* An operation is skipped when one it waits for has failed.
Skip(k) ==
    /\ \/ pc[k] \in {"create", "update"} /\ \E d \in Refers(k) : pc[d] = "failed"
       \/ pc[k] \in {"update", "delete"} /\ \E e \in ReferredBy(k) : pc[e] = "failed"
    /\ Fail(k)
    /\ UNCHANGED failures
=============================================================================
