----------------------------- MODULE MCCatalog ------------------------------
(* Small instances of CatalogResources: the kinds that depend on each other. *)
EXTENDS CatalogResources, TLC

CONSTANTS m, n, me, alice, bob, option, one, two, table, other

OldVersion == 1
NewVersion == 2

NoneConfigured == [k \in Kinds |-> Absent]
NothingThere == [k \in Kinds |-> [x \in Names |-> Absent]]

\* A configuration of some kinds, from sets of what may be configured of each.
Configurations(of) ==
    {[k \in Kinds |-> IF k \in DOMAIN of THEN c[k] ELSE Absent] :
        c \in {c \in [DOMAIN of -> UNION {of[k] : k \in DOMAIN of}] :
                  \A k \in DOMAIN of : c[k] \in of[k]}}

Play(configs, order, there) ==
    [configs |-> configs, order |-> order, there |-> there, edits |-> IF order = {} THEN 2 ELSE 1]

SchemaOf(name, owner, policies, cascade) ==
    [name |-> name, owner |-> owner, policies |-> policies, cascade |-> cascade]
ExtensionOf(schema, version, cascade) ==
    [name |-> n, schema |-> schema, version |-> version, cascade |-> cascade]
ServerOf(name, fdw, version, owner, options) ==
    [name |-> name, fdw |-> fdw, version |-> version, owner |-> owner, options |-> options,
     cascade |-> FALSE]
MappingOf(options) == [name |-> n, options |-> options]
PublicationOf(name, owner, tables, all, params) ==
    [name |-> name, owner |-> owner, tables |-> tables, all |-> all, params |-> params,
     cascade |-> FALSE]
SubscriptionOf(conn, createSlot, slot) ==
    [name |-> n, conn |-> conn, createSlot |-> createSlot, slot |-> slot]
SlotOf(name, plugin) == [name |-> name, plugin |-> plugin]

FunctionOf(name, returns, options, body) ==
    [name |-> name, returns |-> returns, options |-> options, body |-> body, cascade |-> FALSE]

To(role, privileges) == [role |-> role, privileges |-> privileges]

\* A schema by itself: policies, a new name; and one that is there before.
Some == {To(alice, {"usage"})}
More == {To(alice, {"usage", "create"}), To(Public, {"usage"})}

Policied ==
    Play(Configurations("schema" :> {SchemaOf(m, Unset, Some, FALSE), SchemaOf(m, bob, More, FALSE),
                                     SchemaOf(n, Unset, {}, FALSE), SchemaOf(n, Unset, More, FALSE),
                                     Absent}),
         {}, NothingThere)

Adopted ==
    Play(Configurations("schema" :> {SchemaOf(n, o, p, FALSE) : o \in {bob, Unset}, p \in {{}, Some}}),
         {}, [NothingThere EXCEPT !.schema[n] = NewSchema(me)])

\* A schema whose owner has a policy as well.
HandedOver ==
    Play(Configurations("schema" :> {SchemaOf(m, alice, Some, FALSE), SchemaOf(m, bob, Some, FALSE),
                                     SchemaOf(n, bob, More, FALSE)}),
         {}, NothingThere)

\* An extension in a schema that is renamed, one that is there in another version.
Housed(cascade, there) ==
    Play({[NoneConfigured EXCEPT !.schema = s, !.extension = e] :
            s \in {SchemaOf(x, Unset, {}, cascade) : x \in {m, n}},
            e \in {ExtensionOf(Unset, Unset, FALSE), Absent}}
         \cup {[NoneConfigured EXCEPT !.schema = SchemaOf(x, Unset, {}, cascade),
                                      !.extension = ExtensionOf(x, v, FALSE)] :
                  x \in {m, n}, v \in {OldVersion, NewVersion}}
         \cup {NoneConfigured},
         {<<"extension", "schema">>}, there)

InOldVersion ==
    [NothingThere EXCEPT !.extension[n] = [schema |-> DefaultSchema, version |-> OldVersion]]

\* An extension, a server that uses it and a mapping to that.
Foreign(cascade) ==
    LET none == <<>>
        some == option :> one
        changed == option :> two
    IN  Play({c \in Configurations(("extension" :> {ExtensionOf(Unset, Unset, cascade), Absent})
                   @@ ("server" :> {ServerOf(n, n, OldVersion, Unset, none),
                                    ServerOf(n, n, NewVersion, alice, some), Absent})
                   @@ ("mapping" :> {MappingOf(some), MappingOf(changed), Absent})) :
                /\ c.mapping # Absent => c.server # Absent
                /\ c.server # Absent => c.extension # Absent},
             {<<"server", "extension">>, <<"mapping", "server">>}, NothingThere)

\* A server that is renamed.
Renaming ==
    Play(Configurations("server" :> {ServerOf(x, n, OldVersion, Unset, o) :
                                        x \in {m, n}, o \in {<<>>, option :> one}}),
         {}, InOldVersion)

Published ==
    Play(Configurations("publication" :>
            {PublicationOf(m, Unset, Unset, TRUE, {"insert"}),
             PublicationOf(m, alice, {table}, Unset, Operations),
             PublicationOf(m, Unset, {table, other}, Unset, {"insert"}),
             PublicationOf(n, Unset, Unset, Unset, Unset),
             PublicationOf(n, Unset, {other}, Unset, Unset), Absent}),
         {}, NothingThere)

\* A subscription with the slot of a resource, and one with a slot of its own or
\* one that is there.
Subscribing ==
    Play({[NoneConfigured EXCEPT !.slot = SlotOf(x, "a"), !.subscription = s] :
            x \in {m, n}, s \in {Absent}}
         \cup {[NoneConfigured EXCEPT !.slot = SlotOf(x, "a"),
                                      !.subscription = SubscriptionOf(c, FALSE, x)] :
                  x \in {m, n}, c \in {"a", "b"}}
         \cup {[NoneConfigured EXCEPT !.slot = SlotOf(m, "b")], NoneConfigured},
         {<<"subscription", "slot">>}, NothingThere)

SubscribingAlone ==
    Play(Configurations("subscription" :>
            {SubscriptionOf("a", TRUE, m), SubscriptionOf("b", FALSE, n), Absent}),
         {}, [NothingThere EXCEPT !.slot[n] = [plugin |-> "a"]])

Defining ==
    Play(Configurations("function" :>
            {FunctionOf(m, "a", "a", "a"), FunctionOf(m, "a", "b", "a"), FunctionOf(m, "a", "b", "b"),
             FunctionOf(m, "b", "a", "b"), FunctionOf(n, "b", "b", "b"), Absent}),
         {}, NothingThere)

MCScenarios ==
    [policied |-> Policied, handedOver |-> HandedOver, adopted |-> Adopted,
     housed |-> Housed(FALSE, InOldVersion),
     housedCascading |-> Housed(TRUE, NothingThere),
     foreign |-> Foreign(FALSE), foreignCascading |-> Foreign(TRUE), renaming |-> Renaming,
     published |-> Published, subscribing |-> Subscribing, subscribingAlone |-> SubscribingAlone,
     defining |-> Defining]

PolicyScenarios == [policied |-> Policied, handedOver |-> HandedOver]

\* The scenarios are ones that the theorems about Tracked, Applied and
\* PoliciesInForce are of.
ASSUME ScenariosFollow == MappingsFollow /\ SchemasFollow /\ NothingGranted
=============================================================================
