-------------------------- MODULE CatalogResources --------------------------
(***************************************************************************)
(* The resources of catalog objects in runs of Terraform: SchemaResource,  *)
(* ForeignData, Replication and FunctionResource composed, with the users  *)
(* who change the configuration between runs and others who change the     *)
(* server meanwhile.                                                       *)
(***************************************************************************)
EXTENDS SchemaResource, ForeignData, Replication, FunctionResource

InPlay == GivenKinds[scenario]

Init ==
    /\ scenario \in DOMAIN Scenarios
    /\ config \in Given[scenario].configs
    /\ catalog = Given[scenario].there
    /\ missing = {}
    /\ state = [k \in Kinds |-> Absent]
    /\ tainted = {} /\ halfDone = {}
    /\ pc = [k \in Kinds |-> IF k \in InPlay THEN "idle" ELSE "over"]
    /\ edits = 0 /\ drifts = 0 /\ failures = 0

-----------------------------------------------------------------------------
(* Runs of Terraform. *)

ReadInstance(k, inst, row) ==
    CASE k = "schema" -> ReadSchema(inst, row)
      [] k = "extension" -> ReadExtension(inst, row)
      [] k = "server" -> ReadServer(inst, row)
      [] k = "mapping" -> ReadMapping(inst, row)
      [] k = "publication" -> ReadPublication(inst, row)
      [] k = "subscription" -> ReadSubscription(inst, row)
      [] k = "slot" -> ReadSlot(inst, row)
      [] k = "function" -> ReadFunction(inst, row)

\* Read: what is no longer there is removed from the state.
Refresh(k) ==
    /\ pc[k] = "idle"
    /\ state' = [state EXCEPT ![k] =
            IF @ = Absent THEN Absent
            ELSE LET row == catalog[k][@.name]
                 IN  IF row = Absent THEN Absent ELSE ReadInstance(k, @, row)]
    /\ tainted' = IF state'[k] = Absent THEN tainted \ {k} ELSE tainted
    /\ pc' = [pc EXCEPT ![k] = "read"]
    /\ UNCHANGED <<catalog, missing, inputs, halfDone, failures>>

ToDo(k) ==
    CASE state[k] = Absent /\ config[k] = Absent -> "over"
      [] state[k] = Absent /\ config[k] # Absent -> "create"
      [] state[k] # Absent /\ config[k] = Absent -> "delete"
      [] OTHER -> IF k \in tainted \/ \E f \in ForceNew[k] : Planned(k)[f] # state[k][f] THEN "delete"
                  ELSE IF Planned(k) # state[k] THEN "update" ELSE "over"

Plan ==
    /\ \A k \in InPlay : pc[k] = "read"
    /\ pc' = [k \in Kinds |-> IF k \in InPlay THEN ToDo(k) ELSE "over"]
    /\ UNCHANGED <<catalog, missing, inputs, state, tainted, halfDone, failures>>

\* The reading after a create or an update.  What is not found is an error in
\* either: removing an updated resource from the state is one for the framework.
ReadBack(k) ==
    LET row == catalog[k][config[k].name]
    IN  /\ pc[k] = "readBack"
        /\ \/ /\ row # Absent
              /\ Record(k, ReadInstance(k, Planned(k), row))
              /\ UNCHANGED <<catalog, missing, inputs, halfDone, failures>>
           \/ row = Absent /\ Fail(k) /\ UNCHANGED failures
           \/ failures < MaxFailures /\ failures' = failures + 1 /\ Fail(k)

Settled == \A k \in Kinds : pc[k] \in {"over", "failed"}

\* Terraform is run again, with the configuration as it is or another one.
Run(c) ==
    /\ Settled
    /\ config' = c
    /\ pc' = [k \in Kinds |-> IF k \in InPlay THEN "idle" ELSE "over"]
    /\ UNCHANGED <<catalog, missing, scenario, state, tainted, halfDone, drifts, failures>>

RunAgain == Run(config) /\ UNCHANGED edits

Edit ==
    /\ edits < Given[scenario].edits /\ edits' = edits + 1
    /\ \E c \in Given[scenario].configs \ {config} : Run(c)

-----------------------------------------------------------------------------
(* Other users of the server. *)

Drift(after) ==
    /\ drifts < MaxDrifts /\ drifts' = drifts + 1
    /\ catalog' = after
    /\ UNCHANGED <<scenario, config, edits, state, tainted, pc, halfDone, failures>>

DropObject ==
    \E k \in InPlay, n \in Names :
        /\ catalog[k][n] # Absent
        /\ k = "slot" => ~Active(n)
        /\ k = "subscription" => SlotThere(catalog[k][n])
        /\ Drift(IF k = "subscription" THEN SubscriptionGone(n) ELSE Without(Doomed(<<k, n>>)))
        /\ UNCHANGED missing

\* Another owner, version, options, tables or body.
Altered(k, row) ==
    CASE k = "schema" -> {OwnedBy(row, r) : r \in Roles \ missing}
      [] k = "extension" -> {[row EXCEPT !.version = v] : v \in Versions}
      [] k \in {"server", "mapping"} -> {[row EXCEPT !.options = o] : o \in Options}
      [] k = "publication" -> IF row.all THEN {} ELSE {[row EXCEPT !.tables = t] : t \in SUBSET Tables}
      [] k = "function" -> {[row EXCEPT !.options = o, !.body = b] : o, b \in {"a", "b"}}
      [] k \in {"subscription", "slot"} -> {}

AlterObject ==
    \E k \in InPlay, n \in Names :
        /\ catalog[k][n] # Absent
        /\ \E row \in Altered(k, catalog[k][n]) \ {catalog[k][n]} : Drift(Put(k, n, row))
        /\ UNCHANGED missing

\* A role that owns nothing is dropped, with the privileges it has.
Owns(r) ==
    \E k \in {"schema", "server", "publication"}, n \in Names :
        catalog[k][n] # Absent /\ catalog[k][n].owner = r

WithoutPrivileges(row, r) ==
    IF row = Absent THEN Absent ELSE [row EXCEPT !.acl = {p \in @ : p[1] # r}]

DropRole ==
    \E r \in Roles \ (missing \cup {Me}) :
        /\ ~Owns(r)
        /\ Drift([catalog EXCEPT !.schema = [n \in Names |-> WithoutPrivileges(@[n], r)]])
        /\ missing' = missing \cup {r}

-----------------------------------------------------------------------------
SchemaStep == CreateSchema \/ UpdateSchema \/ DeleteSchema

ForeignDataStep ==
    \/ CreateExtension \/ UpdateExtension \/ DeleteExtension
    \/ CreateServer \/ UpdateServer \/ DeleteServer
    \/ CreateMapping \/ UpdateMapping \/ DeleteMapping

ReplicationStep ==
    \/ CreatePublication \/ UpdatePublication \/ DeletePublication
    \/ CreateSubscription \/ DisableSubscription \/ UnsetSlot \/ DropSubscription
    \/ CreateSlot \/ DeleteSlot

FunctionStep == CreateFunction \/ UpdateFunction \/ DeleteFunction

TerraformStep ==
    \/ \E k \in InPlay : Refresh(k) \/ ReadBack(k) \/ Skip(k)
    \/ Plan \/ RunAgain

Step == SchemaStep \/ ForeignDataStep \/ ReplicationStep \/ FunctionStep \/ TerraformStep

Next == Step \/ Edit \/ DropObject \/ AlterObject \/ DropRole

Spec == Init /\ [][Next]_vars

\* Terraform is run again and again, and a run ends.
FairSpec == Spec /\ WF_vars(Step)

-----------------------------------------------------------------------------
(* Properties. *)

\* What the configuration says of a resource is so, in the state and the server.
InSync(k) ==
    LET c == config[k]
        s == state[k]
    IN  IF c = Absent THEN s = Absent
        ELSE /\ s # Absent
             /\ s.name = c.name
             /\ catalog[k][c.name] # Absent
             /\ LET read == ReadInstance(k, s, catalog[k][c.name])
                IN  \A f \in DOMAIN c : c[f] \notin {Unset} => c[f] = read[f]
             /\ k = "subscription" => catalog[k][c.name].enabled
             /\ k = "function" /\ drifts = 0 => catalog[k][c.name].body = c.body

\* An operation on one of these may take what is above it in the catalog.
Base == [schema |-> {}, extension |-> {"schema"}, server |-> {"schema", "extension"},
         mapping |-> {"schema", "extension", "server"}, publication |-> {},
         subscription |-> {}, slot |-> {}, function |-> {}]

MayCascade(k) ==
    \E d \in Base[k], c \in Given[scenario].configs : c[d] # Absent /\ c[d].cascade

\* A subscription is disabled for good when its deletion failed half-way and it
\* is configured again: nothing reads whether it is enabled.
LeftDisabled(k) == k = "subscription" /\ k \in halfDone

\* What a run has applied without an error is as it is configured, in the state
\* and in the server: also what is recorded without reading it, what was there
\* before, what followed the renaming of something else and what was replaced.
Applied ==
    drifts = 0 =>
        \A k \in InPlay : pc[k] = "over" =>
            InSync(k) \/ MayCascade(k) \/ LeftDisabled(k)

Granted(to) ==
    LET s == state.schema
    IN  {g \in catalog.schema[s.name].acl : g[1] \in to} = {g \in Grants(s.policies) : g[1] \in to}

SchemaThereStill == pc.schema # "readBack" /\ state.schema # Absent /\ catalog.schema[state.schema.name] # Absent

\* Roles that have never owned the schema have the privileges on it that the
\* policies in the state give them, and nobody but its owner has any others,
\* although they are only granted and revoked where two configurations differ and
\* are never read: through renamings, failures, changes of the owner by Terraform
\* or others, the replacement of the schema, and roles dropped before or after
\* their policies.
PoliciesInForce ==
    SchemaThereStill /\ "schema" \notin halfDone =>
        LET row == catalog.schema[state.schema.name]
        IN  /\ Granted(Roles \ (missing \cup row.owners))
            /\ \A g \in row.acl :
                 g[1] \in Roles \ (missing \cup {row.owner}) => g \in Grants(state.schema.policies)

\* "usage - Should the specified ROLE have USAGE privileges to the specified SCHEMA."
\* (website/docs/r/postgresql_schema.html.markdown:72): not so when the role was the
\* owner of the schema, whose privileges go to the next owner, and nothing grants
\* them again.
PolicyRolesServed ==
    SchemaThereStill /\ "schema" \notin halfDone /\ drifts = 0 =>
        \A p \in state.schema.policies :
            p.role \in Roles => {p.role} \X p.privileges \subseteq catalog.schema[state.schema.name].acl

\* No object is left that the provider has made and no resource knows, unless
\* the reading after the commit failed.  A subscription may know a slot.
Tracked ==
    \A k \in Kinds \ halfDone, n \in Names :
        catalog[k][n] # Absent /\ Given[scenario].there[k][n] = Absent /\ pc[k] # "readBack" =>
            \/ state[k] # Absent /\ state[k].name = n
            \/ k = "slot" /\ \E m \in Names : catalog.subscription[m] # Absent
                                              /\ catalog.subscription[m].slot = n

\* The slot of a subscription that did not create it is kept when the
\* subscription goes (resource_subscription_fw.go:366-367), also when a deletion
\* fails and is tried again.
SlotStep ==
    \A n \in Names :
        catalog.slot[n] # Absent /\ catalog'.slot[n] = Absent =>
            \/ drifts' # drifts
            \/ state.slot # Absent /\ state'.slot = Absent /\ state.slot.name = n
            \/ /\ state.subscription # Absent /\ state'.subscription = Absent
               /\ state.subscription.createSlot /\ state.subscription.slot = n

SlotKept == [][SlotStep]_vars

\* Updates that the server refuses, however often they are tried.
Refused(k) ==
    /\ k = "publication" /\ config[k] # Absent /\ state[k] # Absent
    /\ \/ state[k].all /\ config[k].tables # Unset
       \/ config[k].name # state[k].name /\ Changes(state[k], Planned(k)) # {}

\* An object that no resource knows, left by a reading that failed, may have a
\* name that is configured, or depend on what is configured otherwise.
Lost(k) ==
    /\ k \in halfDone
    /\ \E n \in Names : catalog[k][n] # Absent /\ (state[k] # Absent => state[k].name # n)

\* A role that was dropped is configured.
NamesMissing(k) ==
    /\ config[k] # Absent
    /\ \/ k \in {"schema", "server", "publication"} /\ config[k].owner \in missing
       \/ k = "schema" /\ NamedRoles(config[k].policies) \cap missing # {}

\* Terraform, run again and again, gets everything to what is configured, from
\* whatever failures, changes by others and edits have left, but for what the
\* server will never accept.
Converges ==
    \A k \in Kinds :
        <>[](\/ InSync(k) \/ LeftDisabled(k) \/ Refused(k)
             \/ \E d \in Base[k] \cup {k} : NamesMissing(d)
             \/ \E d \in Kinds : Lost(d))

-----------------------------------------------------------------------------
(* Why SlotKept holds. *)

\* The catalog, the state and the resources' places are by kind.
Shape ==
    /\ catalog = [k \in Kinds |-> [n \in Names |-> catalog[k][n]]]
    /\ state = [k \in Kinds |-> state[k]]
    /\ pc = [k \in Kinds |-> pc[k]]
    /\ scenario \in DOMAIN Given /\ config \in Given[scenario].configs
    /\ drifts \in Nat

SubscriptionTypes ==
    /\ state.subscription = Absent \/ state.subscription \in SubscriptionConfig
    /\ \A n \in Names : catalog.subscription[n] \in SubscriptionRow \cup {Absent}

\* What is deleted is known, with its slot: who is about to drop a subscription
\* that did not create its slot has unset it, and no other slot goes with it.
SlotsKnown ==
    /\ pc.slot = "delete" => state.slot # Absent
    /\ pc.subscription = "create" => state.subscription = Absent
    /\ pc.subscription \in {"create", "readBack"} => config.subscription # Absent
    /\ pc.subscription \in {"delete", "unset", "drop"} => state.subscription # Absent
    /\ pc.subscription \in {"unset", "drop"} => ~state.subscription.createSlot
    /\ pc.subscription = "drop" /\ Subscribed # Absent => Subscribed.slot = Absent
    /\ state.subscription # Absent /\ Subscribed # Absent =>
           Subscribed.slot \in {Absent, state.subscription.slot}

\* The inductive invariant.
IInv == Shape /\ SubscriptionTypes /\ SlotsKnown

-----------------------------------------------------------------------------
(* What Tracked, Applied and PoliciesInForce are proved from, of scenarios. *)

\* Users refer to a server by its name when they configure a mapping, and there is
\* no mapping before: so a mapping is of the server that is configured with it.
MappingsFollow ==
    \A s \in DOMAIN Scenarios :
        /\ \A n \in Names : Given[s].there["mapping"][n] = Absent
        /\ "mapping" \in GivenKinds[s] => <<"mapping", "server">> \in Given[s].order
        /\ \A c \in Given[s].configs :
             c["mapping"] # Absent => c["mapping"].name = c["server"].name

\* Who configures an extension in a schema that is one of Terraform's refers to it:
\* the extension is configured along with that schema, under the name it has then.
SchemasFollow ==
    \A s \in DOMAIN Scenarios :
        \A c, d \in Given[s].configs :
            c["extension"] # Absent /\ d["schema"] # Absent
              /\ c["extension"].schema = d["schema"].name =>
                c["schema"] # Absent /\ c["schema"].name = d["schema"].name

\* The schemas there before have no privileges for roles, PUBLIC and their owners
\* apart: those of a schema that is taken over stay, whatever its policies.
NothingGranted ==
    \A s \in DOMAIN Scenarios, n \in Names :
        LET row == Given[s].there["schema"][n]
        IN  row # Absent => \A g \in row.acl : g[1] \in Roles => g[1] = row.owner
=============================================================================
