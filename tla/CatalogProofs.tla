---------------------------- MODULE CatalogProofs ----------------------------
(* Proofs about CatalogResources, for any scenarios, names and numbers of      *)
(* changes: which slots go with a subscription, what the server and the state  *)
(* hold, that no object the provider has made is lost, and that the policies   *)
(* of a schema are in force.                                                   *)
EXTENDS CatalogResources, TLAPS

Replicated == {"slot", "subscription"}

-----------------------------------------------------------------------------
(* The server. *)

\* A catalog has the objects by kind and name.
Rows(cat) == cat = [k \in Kinds |-> [n \in Names |-> cat[k][n]]]

\* Nothing happens to slots and subscriptions.
Kept(cat) == \A j \in Replicated, x \in Names : cat[j][x] = catalog[j][x]

\* Putting a row is about that row only.
LEMMA PutFacts ==
    ASSUME Rows(catalog), NEW k \in Kinds, NEW n, NEW row
    PROVE  /\ Rows(Put(k, n, row))
           /\ \A j \in Kinds \ {k}, x \in Names : Put(k, n, row)[j][x] = catalog[j][x]
           /\ \A x \in Names : Put(k, n, row)[k][x] = IF x = n THEN row ELSE catalog[k][x]
BY DEF Rows, Put

\* What is put under another kind is not a slot or a subscription.
LEMMA PutKept ==
    ASSUME Rows(catalog), NEW k \in Kinds \ Replicated, NEW n, NEW row
    PROVE  Rows(Put(k, n, row)) /\ Kept(Put(k, n, row))
BY PutFacts DEF Kept, Replicated, Kinds

\* A slot or a subscription depends on nothing: it does not go with another
\* object.
LEMMA DependentFacts ==
    ASSUME NEW S, NEW j \in Replicated, NEW x, <<j, x>> \in WithDependents(S)
    PROVE  <<j, x>> \in S
BY DEF WithDependents, DependsOn, Replicated

\* With an object go, of the slots and subscriptions, only itself.
LEMMA DoomedFacts ==
    ASSUME NEW k \in Kinds, NEW n, NEW j \in Replicated, NEW x,
           <<j, x>> \in Doomed(<<k, n>>)
    PROVE  j = k /\ x = n
<1>1. <<j, x>> \in {<<k, n>>}
  BY DependentFacts DEF Doomed
<1> QED  BY <1>1

\* Changing a slot does not change the other slots and the subscriptions.
LEMMA SlotChanged ==
    ASSUME NEW cat, Rows(cat), NEW n, NEW row
    PROVE  LET changed == [cat EXCEPT !.slot[n] = row]
           IN  /\ Rows(changed)
               /\ \A x \in Names : x # n => changed["slot"][x] = cat["slot"][x]
               /\ \A x \in Names : changed["subscription"][x] = cat["subscription"][x]
<1> DEFINE changed == [cat EXCEPT !.slot[n] = row]
<1>1. Rows(changed)
  BY DEF Rows
<1>2. \A x \in Names : x # n => changed["slot"][x] = cat["slot"][x]
  BY DEF Rows, Kinds
<1>3. \A x \in Names : changed["subscription"][x] = cat["subscription"][x]
  BY DEF Rows, Kinds
<1> QED  BY <1>1, <1>2, <1>3

\* Without some objects the others are as before.
LEMMA WithoutFacts ==
    ASSUME NEW S
    PROVE  /\ Rows(Without(S))
           /\ \A j \in Kinds, x \in Names :
                Without(S)[j][x] = IF <<j, x>> \in S THEN Absent ELSE catalog[j][x]
BY DEF Rows, Without

\* Dropping an object of another kind drops no slot and no subscription.
LEMMA WithoutKept ==
    ASSUME NEW k \in Kinds \ Replicated, NEW n
    PROVE  Rows(Without(Doomed(<<k, n>>))) /\ Kept(Without(Doomed(<<k, n>>)))
<1>1. \A j \in Replicated, x \in Names : <<j, x>> \notin Doomed(<<k, n>>)
  BY DoomedFacts
<1>2. Replicated \subseteq Kinds
  BY DEF Replicated, Kinds
<1>3. Rows(Without(Doomed(<<k, n>>)))
  BY WithoutFacts
<1>4. \A j \in Kinds, x \in Names :
        <<j, x>> \notin Doomed(<<k, n>>) => Without(Doomed(<<k, n>>))[j][x] = catalog[j][x]
  BY WithoutFacts
<1>5. Kept(Without(Doomed(<<k, n>>)))
  BY <1>1, <1>2, <1>4, Zenon DEF Kept
<1> QED  BY <1>3, <1>5

\* Nor does changing a row of another kind change them,
LEMMA RowChanged ==
    ASSUME NEW cat, Rows(cat), Kept(cat), NEW k \in Kinds \ Replicated, NEW n, NEW row
    PROVE  Rows([cat EXCEPT ![k][n] = row]) /\ Kept([cat EXCEPT ![k][n] = row])
<1>1. Rows([cat EXCEPT ![k][n] = row])
  BY DEF Rows
<1>2. Kept([cat EXCEPT ![k][n] = row])
  BY DEF Rows, Kept, Replicated, Kinds
<1> QED  BY <1>1, <1>2

\* or changing all of another kind,
LEMMA KindChanged ==
    ASSUME NEW cat, Rows(cat), Kept(cat), NEW k \in Kinds \ Replicated,
           NEW f, f = [n \in Names |-> f[n]]
    PROVE  Rows([cat EXCEPT ![k] = f]) /\ Kept([cat EXCEPT ![k] = f])
BY DEF Rows, Kept, Replicated, Kinds

\* or renaming an object, with what depends on it.
LEMMA RenamedKept ==
    ASSUME Rows(catalog), NEW k \in {"schema", "server", "publication"}, NEW n, NEW m, NEW row
    PROVE  Rows(Renamed(k, n, m, row)) /\ Kept(Renamed(k, n, m, row))
<1> DEFINE gone == [catalog EXCEPT ![k][n] = Absent]
           moved == [gone EXCEPT ![k][m] = row]
           extension == [e \in Names |-> IF DependsOn(<<"extension", e>>, <<k, n>>)
                                         THEN [moved.extension[e] EXCEPT !.schema = m]
                                         ELSE moved.extension[e]]
           followed == [moved EXCEPT !["extension"] = extension]
           mapping == IF k = "server"
                      THEN [followed.mapping EXCEPT ![n] = Absent, ![m] = catalog.mapping[n]]
                      ELSE followed.mapping
<1>0. k \in Kinds \ Replicated /\ {"extension", "mapping"} \subseteq Kinds \ Replicated
  BY DEF Kinds, Replicated
<1>1. Rows(gone) /\ Kept(gone)
  BY <1>0, RowChanged DEF Kept
<1>2. Rows(moved) /\ Kept(moved)
  <2> HIDE DEF gone
  <2> QED  BY <1>0, <1>1, RowChanged
<1>3. Rows(followed) /\ Kept(followed)
  <2>1. extension = [e \in Names |-> extension[e]]
    OBVIOUS
  <2> HIDE DEF moved, extension
  <2> QED  BY <1>0, <1>2, <2>1, KindChanged
<1>4. mapping = [e \in Names |-> mapping[e]]
  <2> HIDE DEF followed
  <2> QED  BY <1>3 DEF Rows, Kinds
<1>5. Rows([followed EXCEPT !["mapping"] = mapping]) /\ Kept([followed EXCEPT !["mapping"] = mapping])
  <2> HIDE DEF followed, mapping
  <2> QED  BY <1>0, <1>3, <1>4, KindChanged
<1>6. Renamed(k, n, m, row) = [followed EXCEPT !["mapping"] = mapping]
  BY DEF Renamed
<1> QED  BY <1>5, <1>6

-----------------------------------------------------------------------------
(* What an operation of one resource leaves to the others. *)

\* Kinds have their places, and only k's changes.
Local(k) ==
    /\ state' = [j \in Kinds |-> state'[j]]
    /\ pc' = [j \in Kinds |-> pc'[j]]
    /\ \A j \in Kinds \ {k} : state'[j] = state[j] /\ pc'[j] = pc[j]

\* What is made of the result of an operation is about its resource.
LEMMA Results ==
    ASSUME Shape, NEW k \in Kinds, NEW inst, NEW step,
           \/ Record(k, inst) \/ Forget(k) \/ Continue(k, step) \/ Fail(k)
    PROVE  Local(k)
BY DEF Shape, Local, Record, Forget, Continue, Fail

\* What is done with a kind that is not replicated.
Elsewhere(k) == Rows(catalog') /\ Kept(catalog') /\ Local(k) /\ UNCHANGED inputs

\* An operation that fails changes nothing but the place of its resource.
LEMMA FailElsewhere ==
    ASSUME Shape, NEW k \in Kinds, Fail(k)
    PROVE  Elsewhere(k)
<1>1. Local(k)
  BY Results
<1>2. catalog' = catalog /\ UNCHANGED inputs
  BY DEF Fail
<1>3. Rows(catalog')
  BY <1>2 DEF Shape, Rows
<1>4. Kept(catalog')
  BY <1>2 DEF Kept
<1> QED  BY <1>1, <1>2, <1>3, <1>4 DEF Elsewhere

\* The catalog as an operation on an object of kind k leaves it.
LEMMA DoneElsewhere ==
    ASSUME Shape, NEW k \in Kinds \ Replicated, NEW n, NEW m, NEW row, NEW inst, NEW step,
           \/ catalog' \in {catalog, Put(k, n, row), Without(Doomed(<<k, n>>))}
           \/ k \in {"schema", "server", "publication"} /\ catalog' = Renamed(k, n, m, row),
           Record(k, inst) \/ Forget(k) \/ Continue(k, step),
           UNCHANGED inputs
    PROVE  Elsewhere(k)
<1>1. Rows(catalog) /\ Kept(catalog)
  BY DEF Shape, Rows, Kept
<1>2. Rows(catalog') /\ Kept(catalog')
  BY <1>1, PutKept, WithoutKept, RenamedKept
<1> QED  BY <1>2, Results DEF Elsewhere

\* The operations of the kind schema.
LEMMA SchemaElsewhere ==
    ASSUME Shape, CreateSchema \/ UpdateSchema \/ DeleteSchema
    PROVE  Elsewhere("schema")
<1>0. "schema" \in Kinds \ Replicated
  BY DEF Kinds, Replicated
<1>1. CASE CreateSchema
  BY <1>0, <1>1, FailElsewhere, DoneElsewhere DEF CreateSchema, Try
<1>2. CASE UpdateSchema
  BY <1>0, <1>2, FailElsewhere, DoneElsewhere DEF UpdateSchema, Try
<1>3. CASE DeleteSchema
  BY <1>0, <1>3, FailElsewhere, DoneElsewhere DEF DeleteSchema, Try
<1> QED  BY <1>1, <1>2, <1>3

\* The operations of the kind extension.
LEMMA ExtensionElsewhere ==
    ASSUME Shape, CreateExtension \/ UpdateExtension \/ DeleteExtension
    PROVE  Elsewhere("extension")
<1>0. "extension" \in Kinds \ Replicated
  BY DEF Kinds, Replicated
<1>1. CASE CreateExtension
  BY <1>0, <1>1, FailElsewhere, DoneElsewhere DEF CreateExtension, Try
<1>2. CASE UpdateExtension
  BY <1>0, <1>2, FailElsewhere, DoneElsewhere DEF UpdateExtension, Try
<1>3. CASE DeleteExtension
  BY <1>0, <1>3, FailElsewhere, DoneElsewhere DEF DeleteExtension, Try
<1> QED  BY <1>1, <1>2, <1>3

\* The operations of the kind server.
LEMMA ServerElsewhere ==
    ASSUME Shape, CreateServer \/ UpdateServer \/ DeleteServer
    PROVE  Elsewhere("server")
<1>0. "server" \in Kinds \ Replicated
  BY DEF Kinds, Replicated
<1>1. CASE CreateServer
  BY <1>0, <1>1, FailElsewhere, DoneElsewhere DEF CreateServer, Try
<1>2. CASE UpdateServer
  BY <1>0, <1>2, FailElsewhere, DoneElsewhere DEF UpdateServer, Try
<1>3. CASE DeleteServer
  BY <1>0, <1>3, FailElsewhere, DoneElsewhere DEF DeleteServer, Try
<1> QED  BY <1>1, <1>2, <1>3

\* The operations of the kind mapping.
LEMMA MappingElsewhere ==
    ASSUME Shape, CreateMapping \/ UpdateMapping \/ DeleteMapping
    PROVE  Elsewhere("mapping")
<1>0. "mapping" \in Kinds \ Replicated
  BY DEF Kinds, Replicated
<1>1. CASE CreateMapping
  BY <1>0, <1>1, FailElsewhere, DoneElsewhere DEF CreateMapping, Try
<1>2. CASE UpdateMapping
  BY <1>0, <1>2, FailElsewhere, DoneElsewhere DEF UpdateMapping, Try
<1>3. CASE DeleteMapping
  BY <1>0, <1>3, FailElsewhere, DoneElsewhere DEF DeleteMapping, Try
<1> QED  BY <1>1, <1>2, <1>3

\* The operations of the kind publication.
LEMMA PublicationElsewhere ==
    ASSUME Shape, CreatePublication \/ UpdatePublication \/ DeletePublication
    PROVE  Elsewhere("publication")
<1>0. "publication" \in Kinds \ Replicated
  BY DEF Kinds, Replicated
<1>1. CASE CreatePublication
  BY <1>0, <1>1, FailElsewhere, DoneElsewhere DEF CreatePublication, Try
<1>2. CASE UpdatePublication
  BY <1>0, <1>2, FailElsewhere, DoneElsewhere DEF UpdatePublication, Try
<1>3. CASE DeletePublication
  BY <1>0, <1>3, FailElsewhere, DoneElsewhere DEF DeletePublication, Try
<1> QED  BY <1>1, <1>2, <1>3

\* The operations of the kind function.
LEMMA FunctionElsewhere ==
    ASSUME Shape, CreateFunction \/ UpdateFunction \/ DeleteFunction
    PROVE  Elsewhere("function")
<1>0. "function" \in Kinds \ Replicated
  BY DEF Kinds, Replicated
<1>1. CASE CreateFunction
  BY <1>0, <1>1, FailElsewhere, DoneElsewhere DEF CreateFunction, Try
<1>2. CASE UpdateFunction
  BY <1>0, <1>2, FailElsewhere, DoneElsewhere DEF UpdateFunction, Try
<1>3. CASE DeleteFunction
  BY <1>0, <1>3, FailElsewhere, DoneElsewhere DEF DeleteFunction, Try
<1> QED  BY <1>1, <1>2, <1>3

-----------------------------------------------------------------------------
(* Subscriptions. *)

\* The kinds the proofs are about, and their types.
LEMMA Types ==
    /\ Row.subscription = SubscriptionRow
    /\ Config.subscription = SubscriptionConfig
    /\ {"slot", "subscription"} \subseteq Kinds
BY DEF Row, Config, Kinds

\* A subscription that is configured is so as its attributes allow.
LEMMA Configured ==
    ASSUME Shape
    PROVE  config.subscription = Absent \/ config.subscription \in SubscriptionConfig
<1>1. IsScenario(Given[scenario])
  BY CatalogAssumption DEF Shape, Given
<1> QED  BY <1>1, Types DEF Shape, IsScenario

\* The plan of a subscription is its configuration: it has no computed attributes.
LEMMA PlannedFacts ==
    ASSUME Shape, SubscriptionTypes, config.subscription # Absent
    PROVE  /\ Planned("subscription") \in SubscriptionConfig
           /\ Planned("subscription").name = config.subscription.name
<1> DEFINE c == config.subscription
           s == state.subscription
<1>1. c \in SubscriptionConfig /\ c.name # Unset
  BY Configured, CatalogAssumption DEF SubscriptionConfig
<1>2. Planned("subscription") =
        [name |-> IF c.name = Unset /\ s # Absent THEN s.name ELSE c.name,
         conn |-> IF c.conn = Unset /\ s # Absent THEN s.conn ELSE c.conn,
         createSlot |-> IF c.createSlot = Unset /\ s # Absent THEN s.createSlot ELSE c.createSlot,
         slot |-> IF c.slot = Unset /\ s # Absent THEN s.slot ELSE c.slot]
  BY <1>1 DEF Planned, SubscriptionConfig
<1> QED  BY <1>1, <1>2 DEF SubscriptionTypes, SubscriptionConfig

\* Reading a subscription leaves its slot in the state, if it has one.
LEMMA ReadFacts ==
    ASSUME NEW inst \in SubscriptionConfig, NEW row \in SubscriptionRow
    PROVE  LET s == ReadInstance("subscription", inst, row)
           IN  /\ s \in SubscriptionConfig
               /\ s.name = inst.name
               /\ row.slot \in {Absent, s.slot}
<1>1. ReadInstance("subscription", inst, row) = ReadSubscription(inst, row)
  BY Zenon DEF ReadInstance
<1>2. CASE row.slot = Absent
  BY <1>1, <1>2 DEF ReadSubscription
<1>3. CASE row.slot # Absent
  <2>1. With(inst, [conn |-> row.conn, slot |-> row.slot]) =
          [name |-> inst.name, conn |-> row.conn, createSlot |-> inst.createSlot,
           slot |-> row.slot]
    BY DEF With, SubscriptionConfig
  <2> QED  BY <1>1, <1>3, <2>1, SMT DEF ReadSubscription, SubscriptionConfig, SubscriptionRow
<1> QED  BY <1>2, <1>3

\* What is planned to be deleted is in the state, what is to be created is not.
LEMMA ToDoFacts ==
    ASSUME NEW k
    PROVE  /\ ToDo(k) \in {"over", "create", "update", "delete"}
           /\ ToDo(k) = "create" => state[k] = Absent /\ config[k] # Absent
           /\ ToDo(k) = "delete" => state[k] # Absent
BY Zenon DEF ToDo

-----------------------------------------------------------------------------
(* The invariant of slots and subscriptions. *)

\* What happens elsewhere does not disturb it.
LEMMA ElsewhereKeeps ==
    ASSUME IInv, NEW k \in Kinds \ Replicated, Elsewhere(k)
    PROVE  IInv' /\ SlotStep
<1>1. Shape'
  BY DEF IInv, Shape, Elsewhere, Local, Rows, inputs
<1>2. /\ \A j \in Replicated : state'[j] = state[j] /\ pc'[j] = pc[j]
      /\ Kept(catalog') /\ config' = config
  BY Types DEF Elsewhere, Local, Replicated, inputs
<1>3. SubscriptionTypes'
  BY <1>2 DEF IInv, SubscriptionTypes, Replicated, Kept
<1>4. state.subscription # Absent => Subscribed' = Subscribed
  BY <1>2 DEF IInv, SubscriptionTypes, SubscriptionConfig, Replicated, Kept, Subscribed
<1>5. SlotsKnown'
  BY <1>2, <1>4 DEF IInv, SlotsKnown, Replicated
<1>6. SlotStep
  BY <1>2 DEF SlotStep, Kept, Replicated
<1> QED  BY <1>1, <1>3, <1>5, <1>6 DEF IInv

\* Nor does what others do to the server, who may drop subscriptions.
LEMMA DriftKeeps ==
    ASSUME IInv, Rows(catalog'), drifts' = drifts + 1, UNCHANGED <<scenario, config, state, pc>>,
           \A x \in Names : catalog'["subscription"][x] \in {Absent, catalog["subscription"][x]}
    PROVE  IInv' /\ SlotStep
<1>1. Shape' /\ drifts' # drifts
  BY DEF IInv, Shape, Rows
<1>2. SubscriptionTypes'
  BY DEF IInv, SubscriptionTypes
<1>3. state.subscription # Absent => Subscribed' \in {Absent, Subscribed}
  BY DEF IInv, SubscriptionTypes, SubscriptionConfig, Subscribed
<1>4. SlotsKnown'
  BY <1>3 DEF IInv, SlotsKnown
<1> QED  BY <1>1, <1>2, <1>4 DEF IInv, SlotStep

\* An operation that fails has left the server as it was.
LEMMA FailKeeps ==
    ASSUME IInv, NEW k \in Kinds, Fail(k)
    PROVE  IInv' /\ SlotStep
<1>1. /\ catalog' = catalog /\ state' = state /\ UNCHANGED inputs
      /\ pc' = [j \in Kinds |-> IF j = k THEN "failed" ELSE pc[j]]
  BY DEF Fail, IInv, Shape
<1>2. Shape'
  BY <1>1 DEF IInv, Shape, inputs
<1>3. SubscriptionTypes' /\ Subscribed' = Subscribed
  BY <1>1 DEF IInv, SubscriptionTypes, Subscribed
<1>4. SlotsKnown'
  BY <1>1, <1>3, Types DEF IInv, SlotsKnown, inputs
<1>5. SlotStep
  BY <1>1 DEF SlotStep
<1> QED  BY <1>2, <1>3, <1>4, <1>5 DEF IInv

\* The operations of subscriptions.
LEMMA Disabled ==
    ASSUME NEW row \in SubscriptionRow
    PROVE  LET disabled == [row EXCEPT !.enabled = FALSE]
           IN  disabled \in SubscriptionRow /\ disabled.slot = row.slot
BY DEF SubscriptionRow

\* Every operation of a subscription keeps the invariant.
LEMMA SubscriptionKeeps ==
    ASSUME IInv,
           CreateSubscription \/ DisableSubscription \/ UnsetSlot \/ DropSubscription
    PROVE  IInv' /\ SlotStep
<1> DEFINE s == state.subscription
<1> USE DEF IInv
<1>0. Rows(catalog) /\ {"slot", "subscription"} \subseteq Kinds
  BY Types DEF Shape, Rows
<1>1. CASE Fail("subscription")
  BY <1>0, <1>1, FailKeeps
<1>2. CASE CreateSubscription /\ ~Fail("subscription")
  <2> DEFINE c == Planned("subscription")
             made == Put("subscription", c.name, [conn |-> c.conn, enabled |-> TRUE,
                                                  slot |-> c.slot])
  <2>1. /\ pc.subscription = "create" /\ s = Absent
        /\ c.createSlot => catalog.slot[c.slot] = Absent
        /\ catalog' = IF c.createSlot THEN [made EXCEPT !.slot[c.slot] = [plugin |-> "a"]] ELSE made
        /\ state' = state /\ UNCHANGED inputs
        /\ pc' = [pc EXCEPT !.subscription = "readBack"]
    BY <1>2 DEF CreateSubscription, Try, Turn, Continue, SlotsKnown
  <2>2. c \in SubscriptionConfig /\ config.subscription # Absent
    BY <2>1, PlannedFacts DEF SlotsKnown
  <2>3. /\ Rows(made)
        /\ \A x \in Names : made["slot"][x] = catalog["slot"][x]
        /\ \A x \in Names : made["subscription"][x] =
              IF x = c.name THEN [conn |-> c.conn, enabled |-> TRUE, slot |-> c.slot]
              ELSE catalog["subscription"][x]
    BY <1>0, PutFacts
  <2> HIDE DEF made
  <2>4. /\ Rows(catalog')
        /\ \A x \in Names : catalog'["slot"][x] = catalog["slot"][x] \/ x = c.slot
        /\ \A x \in Names : catalog'["subscription"][x] = made["subscription"][x]
        /\ c.createSlot \/ (\A x \in Names : catalog'["slot"][x] = catalog["slot"][x])
    <3>1. CASE c.createSlot
      <4>1. catalog' = [made EXCEPT !.slot[c.slot] = [plugin |-> "a"]]
        BY <2>1, <3>1
      <4> HIDE DEF c
      <4>2. /\ Rows(catalog')
            /\ \A x \in Names : x # c.slot => catalog'["slot"][x] = made["slot"][x]
            /\ \A x \in Names : catalog'["subscription"][x] = made["subscription"][x]
        BY <2>3, <4>1, SlotChanged
      <4> QED  BY <2>3, <3>1, <4>2
    <3>2. CASE ~c.createSlot
      <4>1. catalog' = made
        BY <2>1, <3>2
      <4> HIDE DEF c
      <4> QED  BY <2>3, <4>1
    <3> QED  BY <3>1, <3>2
  <2> HIDE DEF c
  <2>5. Shape'
    BY <2>1, <2>4 DEF Shape, Rows, inputs
  <2>6. SubscriptionTypes'
    <3>1. [conn |-> c.conn, enabled |-> TRUE, slot |-> c.slot] \in SubscriptionRow
      BY <2>2 DEF SubscriptionConfig, SubscriptionRow
    <3> QED  BY <2>1, <2>3, <2>4, <3>1 DEF SubscriptionTypes
  <2>7. SlotsKnown'
    BY <2>1, <2>2 DEF SlotsKnown, Shape, inputs
  <2>8. SlotStep
    BY <2>1, <2>4 DEF SlotStep
  <2> QED  BY <2>5, <2>6, <2>7, <2>8
<1>3. CASE DisableSubscription /\ ~Fail("subscription")
  <2> DEFINE row == [Subscribed EXCEPT !.enabled = FALSE]
  <2>1. /\ pc.subscription = "delete" /\ ~s.createSlot /\ s # Absent /\ Subscribed # Absent
        /\ catalog' = Put("subscription", s.name, row)
        /\ state' = state /\ UNCHANGED inputs
        /\ pc' = [pc EXCEPT !.subscription = "unset"]
    BY <1>3 DEF DisableSubscription, Try, Turn, Continue, SlotsKnown, SetSubscription, KeepsSlot
  <2>2. s \in SubscriptionConfig /\ Subscribed \in SubscriptionRow
    BY <2>1 DEF SubscriptionTypes, SubscriptionConfig, Subscribed
  <2>3. row \in SubscriptionRow /\ row.slot = Subscribed.slot
    BY <2>2, Disabled
  <2> HIDE DEF row
  <2>4. /\ Rows(catalog')
        /\ \A x \in Names : catalog'["slot"][x] = catalog["slot"][x]
        /\ \A x \in Names : catalog'["subscription"][x] =
              IF x = s.name THEN row ELSE catalog["subscription"][x]
    BY <1>0, <2>1, PutFacts
  <2>5. Shape'
    BY <2>1, <2>4 DEF Shape, Rows, inputs
  <2>6. SubscriptionTypes'
    BY <2>1, <2>3, <2>4 DEF SubscriptionTypes
  <2>7. Subscribed' = row
    BY <2>1, <2>2, <2>4 DEF Subscribed, SubscriptionConfig
  <2>8. SlotsKnown'
    BY <2>1, <2>3, <2>7 DEF SlotsKnown, Shape, inputs
  <2>9. SlotStep
    BY <2>4 DEF SlotStep
  <2> QED  BY <2>5, <2>6, <2>8, <2>9
<1>4. CASE UnsetSlot /\ ~Fail("subscription")
  <2> DEFINE row == [Subscribed EXCEPT !.slot = Absent]
  <2>1. /\ pc.subscription = "unset" /\ ~s.createSlot /\ s # Absent /\ Subscribed # Absent
        /\ catalog' = Put("subscription", s.name, row)
        /\ state' = state /\ UNCHANGED inputs
        /\ pc' = [pc EXCEPT !.subscription = "drop"]
    BY <1>4 DEF UnsetSlot, Try, Turn, Continue, SlotsKnown, SetSubscription
  <2>2. s \in SubscriptionConfig /\ Subscribed \in SubscriptionRow
    BY <2>1 DEF SubscriptionTypes, SubscriptionConfig, Subscribed
  <2>3. row \in SubscriptionRow /\ row.slot = Absent
    BY <2>2 DEF SubscriptionRow
  <2> HIDE DEF row
  <2>4. /\ Rows(catalog')
        /\ \A x \in Names : catalog'["slot"][x] = catalog["slot"][x]
        /\ \A x \in Names : catalog'["subscription"][x] =
              IF x = s.name THEN row ELSE catalog["subscription"][x]
    BY <1>0, <2>1, PutFacts
  <2>5. Shape'
    BY <2>1, <2>4 DEF Shape, Rows, inputs
  <2>6. SubscriptionTypes'
    BY <2>1, <2>3, <2>4 DEF SubscriptionTypes
  <2>7. Subscribed' = row
    BY <2>1, <2>2, <2>4 DEF Subscribed, SubscriptionConfig
  <2>8. SlotsKnown'
    BY <2>1, <2>3, <2>7 DEF SlotsKnown, Shape, inputs
  <2>9. SlotStep
    BY <2>4 DEF SlotStep
  <2> QED  BY <2>5, <2>6, <2>8, <2>9
<1>5. CASE DropSubscription /\ ~Fail("subscription")
  <2>1. /\ s # Absent /\ Subscribed # Absent
        /\ s.createSlot \/ Subscribed.slot = Absent
        /\ catalog' = SubscriptionGone(s.name)
        /\ Forget("subscription") /\ UNCHANGED inputs
    BY <1>5 DEF DropSubscription, Try, Turn, SlotsKnown, KeepsSlot
  <2>2. /\ state' = [state EXCEPT !.subscription = Absent]
        /\ pc' = [pc EXCEPT !.subscription = IF config.subscription = Absent THEN "over" ELSE "create"]
    BY <2>1 DEF Forget
  <2>3. /\ s \in SubscriptionConfig
        /\ Subscribed.slot \in {Absent, s.slot}
    BY <2>1 DEF SubscriptionTypes, SlotsKnown
  <2> DEFINE put == Put("subscription", s.name, Absent)
  <2>4. /\ Rows(put)
        /\ \A x \in Names : put["slot"][x] = catalog["slot"][x]
        /\ \A x \in Names : put["subscription"][x] \in {Absent, catalog["subscription"][x]}
    BY <1>0, PutFacts
  <2> HIDE DEF put
  <2>5. /\ Rows(catalog')
        /\ \A x \in Names : catalog'["slot"][x] = catalog["slot"][x] \/ (s.createSlot /\ x = s.slot)
        /\ \A x \in Names : catalog'["subscription"][x] \in {Absent, catalog["subscription"][x]}
    <3>1. CASE Subscribed.slot = Absent
      <4>1. catalog' = put
        BY <2>1, <3>1 DEF SubscriptionGone, Subscribed, put
      <4> QED  BY <2>4, <4>1
    <3>2. CASE Subscribed.slot # Absent
      <4>1. catalog' = [put EXCEPT !.slot[s.slot] = Absent] /\ s.createSlot
        BY <2>1, <2>3, <3>2 DEF SubscriptionGone, Subscribed, put
      <4> QED  BY <2>4, <4>1, SlotChanged
    <3> QED  BY <3>1, <3>2
  <2>6. Shape'
    BY <2>1, <2>2, <2>5 DEF Shape, Rows, inputs
  <2>7. SubscriptionTypes'
    BY <2>2, <2>5 DEF SubscriptionTypes, Shape
  <2>8. SlotsKnown'
    BY <2>1, <2>2 DEF SlotsKnown, Shape, inputs
  <2>9. SlotStep
    <3>1. state'.subscription = Absent
      BY <1>0, <2>2 DEF Shape
    <3> QED  BY <2>1, <2>5, <3>1 DEF SlotStep
  <2> QED  BY <2>6, <2>7, <2>8, <2>9
<1> QED
  BY <1>1, <1>2, <1>3, <1>4, <1>5

\* The operations of slots.
LEMMA SlotKeeps ==
    ASSUME IInv, CreateSlot \/ DeleteSlot
    PROVE  IInv' /\ SlotStep
<1> DEFINE c == Planned("slot")
           s == state.slot
<1> USE DEF IInv
<1>0. Rows(catalog) /\ {"slot", "subscription"} \subseteq Kinds
  BY Types DEF Shape, Rows
<1>1. CASE Fail("slot")
  BY <1>0, <1>1, FailKeeps
<1>2. CASE ~Fail("slot")
  <2>1. /\ \E n, row : catalog' = Put("slot", n, row)
        /\ (\E inst : Record("slot", inst)) \/ Forget("slot")
        /\ UNCHANGED inputs
    BY <1>2 DEF CreateSlot, DeleteSlot, Try
  <2>2. /\ Rows(catalog')
        /\ \A x \in Names : catalog'["subscription"][x] = catalog["subscription"][x]
    BY <1>0, <2>1, PutFacts
  <2>3. Local("slot") /\ pc'.slot # "delete"
    BY <1>0, <2>1, Results DEF Record, Forget, Shape
  <2>4. state'.subscription = state.subscription /\ pc'.subscription = pc.subscription
    BY <1>0, <2>3 DEF Local
  <2>5. Shape'
    BY <2>1, <2>2, <2>3 DEF Shape, Local, Rows, inputs
  <2>6. SubscriptionTypes' /\ (state.subscription # Absent => Subscribed' = Subscribed)
    BY <2>2, <2>4 DEF SubscriptionTypes, SubscriptionConfig, Subscribed
  <2>7. SlotsKnown'
    BY <2>1, <2>3, <2>4, <2>6 DEF SlotsKnown, inputs
  <2>8. SlotStep
    <3>1. CASE CreateSlot
      <4>1. catalog.slot[c.name] = Absent /\ \E row : catalog' = Put("slot", c.name, row)
        BY <1>2, <3>1 DEF CreateSlot, Try
      <4>2. \A x \in Names : x # c.name => catalog'["slot"][x] = catalog["slot"][x]
        BY <1>0, <4>1, PutFacts
      <4> QED  BY <4>1, <4>2 DEF SlotStep
    <3>2. CASE DeleteSlot
      <4>1. s # Absent /\ catalog' = Put("slot", s.name, Absent) /\ Forget("slot")
        BY <1>2, <3>2 DEF DeleteSlot, Try, Turn, SlotsKnown
      <4>2. \A x \in Names : x # s.name => catalog'["slot"][x] = catalog["slot"][x]
        BY <1>0, <4>1, PutFacts
      <4>3. state'.slot = Absent
        BY <1>0, <4>1 DEF Forget, Shape
      <4> QED  BY <4>1, <4>2, <4>3 DEF SlotStep
    <3> QED  BY <3>1, <3>2
  <2> QED  BY <2>5, <2>6, <2>7, <2>8
<1> QED  BY <1>1, <1>2

\* The steps of Terraform itself, which leave the server as it is.
LEMMA TerraformKeeps ==
    ASSUME IInv, TerraformStep \/ Edit
    PROVE  IInv' /\ SlotStep
<1> USE DEF IInv
<1>0. {"slot", "subscription"} \subseteq Kinds /\ InPlay \subseteq Kinds
  BY Types DEF InPlay, GivenKinds, Shape
<1>1. ASSUME NEW k \in InPlay, Refresh(k) PROVE IInv' /\ SlotStep
  <2>1. catalog' = catalog /\ UNCHANGED inputs /\ Local(k) /\ pc'[k] = "read"
    BY <1>0, <1>1 DEF Refresh, Local, Shape
  <2>2. Shape' /\ SlotStep
    BY <2>1 DEF Shape, Local, inputs, SlotStep
  <2>3. CASE k \notin Replicated
    <3>1. Elsewhere(k)
      BY <2>1, <2>2 DEF Elsewhere, Rows, Kept, Shape
    <3> QED  BY <1>0, <2>3, <3>1, ElsewhereKeeps
  <2>4. CASE k = "slot"
    <3>1. state'.subscription = state.subscription /\ pc'.subscription = pc.subscription
      BY <1>0, <2>1, <2>4 DEF Local
    <3>2. SubscriptionTypes' /\ Subscribed' = Subscribed
      BY <2>1, <3>1 DEF SubscriptionTypes, Subscribed
    <3>3. SlotsKnown'
      BY <2>1, <2>4, <3>1, <3>2 DEF SlotsKnown, inputs
    <3> QED  BY <2>2, <3>2, <3>3
  <2>5. CASE k = "subscription"
    <3> DEFINE s == state.subscription
    <3>1. state'.subscription =
            IF s = Absent THEN Absent
            ELSE IF Subscribed = Absent THEN Absent ELSE ReadInstance("subscription", s, Subscribed)
      BY <1>0, <1>1, <2>5 DEF Refresh, Shape, Subscribed
    <3>2. pc'.slot = pc.slot /\ state'.slot = state.slot
      BY <1>0, <2>1, <2>5 DEF Local
    <3>3. CASE s = Absent \/ Subscribed = Absent
      <4>1. state'.subscription = Absent
        BY <3>1, <3>3
      <4>2. SubscriptionTypes'
        BY <2>1, <4>1 DEF SubscriptionTypes
      <4>3. SlotsKnown'
        BY <2>1, <2>5, <3>2, <4>1 DEF SlotsKnown
      <4> QED  BY <2>2, <4>2, <4>3
    <3>4. CASE s # Absent /\ Subscribed # Absent
      <4>1. s \in SubscriptionConfig /\ Subscribed \in SubscriptionRow
        BY <3>4 DEF SubscriptionTypes, SubscriptionConfig, Subscribed
      <4>2. /\ state'.subscription \in SubscriptionConfig
            /\ state'.subscription.name = s.name
            /\ Subscribed.slot \in {Absent, state'.subscription.slot}
        BY <3>1, <3>4, <4>1, ReadFacts
      <4>3. SubscriptionTypes' /\ Subscribed' = Subscribed
        BY <2>1, <4>2 DEF SubscriptionTypes, Subscribed
      <4>4. SlotsKnown'
        BY <2>1, <2>5, <3>2, <4>2, <4>3 DEF SlotsKnown
      <4> QED  BY <2>2, <4>3, <4>4
    <3> QED  BY <3>3, <3>4
  <2> QED  BY <1>0, <2>3, <2>4, <2>5 DEF Replicated
<1>2. ASSUME NEW k \in InPlay, ReadBack(k) PROVE IInv' /\ SlotStep
  <2> DEFINE row == catalog[k][config[k].name]
             inst == ReadInstance(k, Planned(k), row)
  <2>1. CASE Fail(k)
    BY <1>0, <2>1, FailKeeps
  <2>2. CASE ~Fail(k)
    <3>1. /\ pc[k] = "readBack" /\ row # Absent /\ Record(k, inst)
          /\ catalog' = catalog /\ UNCHANGED inputs
      BY <1>2, <2>2 DEF ReadBack
    <3>2. state'[k] = inst /\ pc'[k] \in {"over", "failed"}
      BY <1>0, <3>1 DEF Record, Shape
    <3> HIDE DEF inst
    <3>3. Local(k)
      BY <1>0, <3>1, Results
    <3>4. Shape' /\ SlotStep
      BY <3>1, <3>3 DEF Shape, Local, inputs, SlotStep
    <3>5. CASE k \notin Replicated
      <4>1. Elsewhere(k)
        BY <3>1, <3>3 DEF Elsewhere, Rows, Kept, Shape
      <4> QED  BY <1>0, <3>5, <4>1, ElsewhereKeeps
    <3>6. CASE k = "slot"
      <4>1. state'.subscription = state.subscription /\ pc'.subscription = pc.subscription
        BY <1>0, <3>3, <3>6 DEF Local
      <4>2. SubscriptionTypes' /\ Subscribed' = Subscribed
        BY <3>1, <4>1 DEF SubscriptionTypes, Subscribed
      <4>3. SlotsKnown'
        BY <3>1, <3>2, <3>6, <4>1, <4>2 DEF SlotsKnown, inputs
      <4> QED  BY <3>4, <4>2, <4>3
    <3>7. CASE k = "subscription"
      <4> DEFINE c == Planned("subscription")
      <4>1. pc'.slot = pc.slot /\ state'.slot = state.slot
        BY <1>0, <3>3, <3>7 DEF Local
      <4>2. c \in SubscriptionConfig /\ c.name = config.subscription.name
        BY <3>1, <3>7, PlannedFacts DEF SlotsKnown
      <4>3. row \in SubscriptionRow
        BY <3>1, <3>7, <4>2 DEF SubscriptionTypes, SubscriptionConfig
      <4>4. /\ inst \in SubscriptionConfig /\ inst.name = c.name
            /\ row.slot \in {Absent, inst.slot}
        <5> HIDE DEF c, row
        <5> QED  BY <3>7, <4>2, <4>3, ReadFacts DEF inst, c
      <4>5. SubscriptionTypes' /\ Subscribed' = row
        BY <3>1, <3>2, <3>7, <4>2, <4>4 DEF SubscriptionTypes, Subscribed
      <4>6. SlotsKnown'
        BY <3>1, <3>2, <3>7, <4>1, <4>4, <4>5 DEF SlotsKnown
      <4> QED  BY <3>4, <4>5, <4>6
    <3> QED  BY <1>0, <3>5, <3>6, <3>7 DEF Replicated
  <2> QED  BY <2>1, <2>2
<1>3. ASSUME NEW k \in InPlay, Skip(k) PROVE IInv' /\ SlotStep
  BY <1>0, <1>3, FailKeeps DEF Skip
<1>4. CASE Plan
  <2>1. /\ catalog' = catalog /\ state' = state /\ UNCHANGED inputs
        /\ pc' = [k \in Kinds |-> IF k \in InPlay THEN ToDo(k) ELSE "over"]
    BY <1>4 DEF Plan
  <2>2. Shape' /\ SlotStep
    BY <2>1 DEF Shape, inputs, SlotStep
  <2>3. SubscriptionTypes' /\ Subscribed' = Subscribed
    BY <2>1 DEF SubscriptionTypes, Subscribed
  <2>4. pc'.slot \in {"over", ToDo("slot")} /\ pc'.subscription \in {"over", ToDo("subscription")}
    BY <1>0, <2>1
  <2>5. SlotsKnown'
    BY <2>1, <2>3, <2>4, ToDoFacts DEF SlotsKnown, inputs
  <2> QED  BY <2>2, <2>3, <2>5
<1>5. ASSUME NEW c \in Given[scenario].configs, Run(c) PROVE IInv' /\ SlotStep
  <2>1. /\ catalog' = catalog /\ state' = state /\ config' = c
        /\ scenario' = scenario /\ drifts' = drifts
        /\ pc' = [k \in Kinds |-> IF k \in InPlay THEN "idle" ELSE "over"]
    BY <1>5 DEF Run
  <2>2. Shape' /\ SlotStep
    BY <2>1 DEF Shape, Given, SlotStep
  <2>3. SubscriptionTypes' /\ Subscribed' = Subscribed
    BY <2>1 DEF SubscriptionTypes, Subscribed
  <2>4. pc'.slot \in {"over", "idle"} /\ pc'.subscription \in {"over", "idle"}
    BY <1>0, <2>1
  <2>5. SlotsKnown'
    BY <2>1, <2>3, <2>4 DEF SlotsKnown
  <2> QED  BY <2>2, <2>3, <2>5
<1>6. config \in Given[scenario].configs
  BY DEF Shape
<1>7. Edit => \E c \in Given[scenario].configs : Run(c)
  BY DEF Edit
<1> QED  BY <1>1, <1>2, <1>3, <1>4, <1>5, <1>6, <1>7 DEF TerraformStep, RunAgain

\* What others do: an object goes with what depends on it, or its row changes,
\* which that of a slot or a subscription does not.
LEMMA OthersKeep ==
    ASSUME IInv, DropObject \/ AlterObject \/ DropRole
    PROVE  IInv' /\ SlotStep
<1> USE DEF IInv
<1>0. /\ Rows(catalog) /\ Kept(catalog)
      /\ {"slot", "subscription"} \subseteq Kinds /\ InPlay \subseteq Kinds
  BY Types DEF InPlay, GivenKinds, Shape, Rows, Kept
<1>1. ASSUME NEW after, Drift(after), Rows(after),
             \A x \in Names : after["subscription"][x] \in {Absent, catalog["subscription"][x]}
      PROVE  IInv' /\ SlotStep
  BY <1>1, DriftKeeps DEF Drift
<1>2. ASSUME NEW after, Drift(after), Rows(after), Kept(after)
      PROVE  IInv' /\ SlotStep
  BY <1>1, <1>2 DEF Kept, Replicated
<1>3. CASE DropObject
  <2>1. PICK k \in InPlay, n \in Names :
               Drift(IF k = "subscription" THEN SubscriptionGone(n) ELSE Without(Doomed(<<k, n>>)))
    BY <1>3 DEF DropObject
  <2>2. CASE k = "subscription"
    <3> DEFINE put == Put("subscription", n, Absent)
    <3>1. /\ Rows(put)
          /\ \A x \in Names : put["subscription"][x] \in {Absent, catalog["subscription"][x]}
      BY <1>0, PutFacts
    <3> HIDE DEF put
    <3>2. \/ SubscriptionGone(n) = put
          \/ \E m : SubscriptionGone(n) = [put EXCEPT !.slot[m] = Absent]
      BY DEF SubscriptionGone, put
    <3>3. /\ Rows(SubscriptionGone(n))
          /\ \A x \in Names :
                SubscriptionGone(n)["subscription"][x] \in {Absent, catalog["subscription"][x]}
      <4>1. CASE SubscriptionGone(n) = put
        BY <3>1, <4>1
      <4>2. ASSUME NEW m, SubscriptionGone(n) = [put EXCEPT !.slot[m] = Absent]
            PROVE  /\ Rows(SubscriptionGone(n))
                   /\ \A x \in Names : SubscriptionGone(n)["subscription"][x] = put["subscription"][x]
        BY <3>1, <4>2, SlotChanged
      <4> QED  BY <3>1, <3>2, <4>1, <4>2
    <3>4. Drift(SubscriptionGone(n))
      BY <2>1, <2>2
    <3> QED  BY <1>1, <3>3, <3>4
  <2>3. CASE k # "subscription"
    <3> DEFINE after == Without(Doomed(<<k, n>>))
    <3>1. Rows(after)
      BY WithoutFacts
    <3>2. \A x \in Names : after["subscription"][x] \in {Absent, catalog["subscription"][x]}
      BY <1>0 DEF Without
    <3>3. Drift(after)
      BY <2>1, <2>3
    <3> HIDE DEF after
    <3> QED  BY <1>1, <3>1, <3>2, <3>3
  <2> QED  BY <2>2, <2>3
<1>4. CASE AlterObject
  <2>1. PICK k \in InPlay, n \in Names :
               \E row \in Altered(k, catalog[k][n]) : Drift(Put(k, n, row))
    BY <1>4 DEF AlterObject
  <2>2. Altered("slot", catalog[k][n]) = {} /\ Altered("subscription", catalog[k][n]) = {}
    BY DEF Altered
  <2>3. k \in Kinds \ Replicated
    BY <1>0, <2>1, <2>2 DEF Replicated
  <2>4. \A row : Rows(Put(k, n, row)) /\ Kept(Put(k, n, row))
    BY <1>0, <2>3, PutKept
  <2> QED  BY <1>2, <2>1, <2>4
<1>5. CASE DropRole
  <2> DEFINE schemas(r) == [n \in Names |-> WithoutPrivileges(catalog.schema[n], r)]
             after(r) == [catalog EXCEPT !.schema = schemas(r)]
  <2>1. PICK r : Drift(after(r))
    BY <1>5 DEF DropRole
  <2>2. schemas(r) = [n \in Names |-> schemas(r)[n]] /\ "schema" \in Kinds \ Replicated
    BY DEF Kinds, Replicated
  <2> HIDE DEF schemas
  <2>3. Rows(after(r)) /\ Kept(after(r))
    BY <1>0, <2>2, KindChanged
  <2> HIDE DEF after
  <2> QED  BY <1>2, <2>1, <2>3
<1> QED  BY <1>3, <1>4, <1>5

\* A step that changes nothing.
LEMMA StutterKeeps ==
    ASSUME IInv, UNCHANGED vars
    PROVE  IInv' /\ SlotStep
BY DEF vars, inputs, IInv, Shape, SubscriptionTypes, SlotsKnown, Subscribed, SlotStep

-----------------------------------------------------------------------------
(* Slots are kept. *)

\* At first nothing is in the state, and the server has what the scenario says.
LEMMA InitInv ==
    Init => IInv
<1> SUFFICES ASSUME Init
             PROVE  IInv
  OBVIOUS
<1>1. IsScenario(Given[scenario])
  BY CatalogAssumption DEF Init, Given
<1>2. /\ catalog = [k \in Kinds |-> [n \in Names |-> catalog[k][n]]]
      /\ state = [k \in Kinds |-> Absent]
      /\ pc = [k \in Kinds |-> IF k \in InPlay THEN "idle" ELSE "over"]
      /\ scenario \in DOMAIN Given /\ config \in Given[scenario].configs /\ drifts = 0
  BY <1>1 DEF Init, IsScenario, Given
<1>3. Shape
  BY <1>2 DEF Shape
<1>4. \A k \in Replicated : state[k] = Absent /\ pc[k] \in {"idle", "over"}
  BY <1>2, Types DEF Replicated
<1>5. SubscriptionTypes
  BY <1>1, <1>4, Types DEF Init, IsScenario, SubscriptionTypes, Replicated
<1>6. SlotsKnown
  BY <1>4 DEF SlotsKnown, Replicated
<1> QED  BY <1>3, <1>5, <1>6 DEF IInv

\* Every step keeps the invariant, and no step loses another slot.
LEMMA NextKeeps ==
    ASSUME IInv, [Next]_vars
    PROVE  IInv' /\ SlotStep
<1> DEFINE Others == Kinds \ Replicated
<1>0. {"schema", "extension", "server", "mapping", "publication", "function"} \subseteq Others /\ Shape
  BY DEF Kinds, Replicated, IInv
<1>1. CASE SchemaStep
  BY <1>0, <1>1, SchemaElsewhere, ElsewhereKeeps DEF SchemaStep
<1>2. CASE ForeignDataStep
  BY <1>0, <1>2, ExtensionElsewhere, ServerElsewhere, MappingElsewhere, ElsewhereKeeps
     DEF ForeignDataStep
<1>3. CASE ReplicationStep
  BY <1>0, <1>3, PublicationElsewhere, ElsewhereKeeps, SubscriptionKeeps, SlotKeeps
     DEF ReplicationStep
<1>4. CASE FunctionStep
  BY <1>0, <1>4, FunctionElsewhere, ElsewhereKeeps DEF FunctionStep
<1>5. CASE TerraformStep \/ Edit
  BY <1>5, TerraformKeeps
<1>6. CASE DropObject \/ AlterObject \/ DropRole
  BY <1>6, OthersKeep
<1>7. CASE UNCHANGED vars
  BY <1>7, StutterKeeps
<1> QED  BY <1>1, <1>2, <1>3, <1>4, <1>5, <1>6, <1>7 DEF Next, Step

\* What is about to be dropped is known with its slot, for any scenarios and any
\* number of failures and changes.
THEOREM Invariance == Spec => []IInv
<1>1. IInv /\ [Next]_vars => IInv'
  BY NextKeeps
<1> QED  BY <1>1, InitInv, PTL DEF Spec

\* So only the slot goes with a subscription that it has created, also when the
\* deletion failed before and is tried again: no other slot of the server is lost
\* (resource_subscription_fw.go:364-396).
THEOREM SlotKeptAlways == Spec => SlotKept
<1>1. IInv /\ [Next]_vars => [SlotStep]_vars
  BY NextKeeps
<1> QED  BY <1>1, Invariance, PTL DEF Spec, SlotKept

-----------------------------------------------------------------------------
(* Types. *)

\* Where the operation on k is, what Terraform has of it and for it.
At(k) ==
    /\ pc[k] \in {"create", "update", "readBack"} => config[k] # Absent
    /\ pc[k] \in {"update", "delete", "unset", "drop"} => state[k] # Absent
    /\ pc[k] = "create" => state[k] = Absent
    /\ pc[k] = "update" => \A f \in ForceNew[k] : Planned(k)[f] = state[k][f]

TypesInv == TypeOK /\ \A k \in Kinds : At(k)

\* A catalog has rows of the kinds.
Typed(cat) == \A k \in Kinds, n \in Names : cat[k][n] \in Row[k] \cup {Absent}

\* What is put is a row.
LEMMA PutTyped ==
    ASSUME Rows(catalog), Typed(catalog), NEW k \in Kinds, NEW n, NEW row \in Row[k] \cup {Absent}
    PROVE  Typed(Put(k, n, row))
<1>1. ASSUME NEW j \in Kinds, NEW x \in Names PROVE Put(k, n, row)[j][x] \in Row[j] \cup {Absent}
  <2>1. CASE j = k
    BY <2>1, PutFacts DEF Typed
  <2>2. CASE j # k
    BY <2>2, PutFacts DEF Typed
  <2> QED  BY <2>1, <2>2
<1> QED  BY <1>1 DEF Typed

\* What is dropped leaves rows.
LEMMA WithoutTyped ==
    ASSUME Typed(catalog), NEW S
    PROVE  Typed(Without(S))
<1>1. \A j \in Kinds, x \in Names :
        Without(S)[j][x] = IF <<j, x>> \in S THEN Absent ELSE catalog[j][x]
  BY WithoutFacts
<1>2. ASSUME NEW j \in Kinds, NEW x \in Names PROVE Without(S)[j][x] \in Row[j] \cup {Absent}
  <2>1. Without(S)[j][x] \in {Absent, catalog[j][x]}
    BY <1>1
  <2> QED  BY <2>1 DEF Typed
<1> QED  BY <1>2 DEF Typed

\* The catalog after a renaming, object by object.
IsRenamed(after, k, n, m, row) ==
    \A x \in Names :
        /\ after[k][x] = IF x = m THEN row ELSE IF x = n THEN Absent ELSE catalog[k][x]
        /\ after["extension"][x] =
              IF DependsOn(<<"extension", x>>, <<k, n>>)
              THEN [catalog["extension"][x] EXCEPT !.schema = m] ELSE catalog["extension"][x]
        /\ k # "server" => after["mapping"][x] = catalog["mapping"][x]
        /\ k = "server" => after["mapping"][x] =
              IF x = m THEN catalog["mapping"][n] ELSE IF x = n THEN Absent ELSE catalog["mapping"][x]
        /\ \A j \in Kinds \ {k, "extension", "mapping"} : after[j][x] = catalog[j][x]

LEMMA RenamedFacts ==
    ASSUME Rows(catalog), NEW k \in {"schema", "server", "publication"},
           NEW n, NEW m, NEW row
    PROVE  IsRenamed(Renamed(k, n, m, row), k, n, m, row)
<1> SUFFICES ASSUME NEW x \in Names
             PROVE  LET after == Renamed(k, n, m, row)
           IN  /\ after[k][x] = IF x = m THEN row ELSE IF x = n THEN Absent ELSE catalog[k][x]
               /\ after["extension"][x] =
                    IF DependsOn(<<"extension", x>>, <<k, n>>)
                    THEN [catalog["extension"][x] EXCEPT !.schema = m] ELSE catalog["extension"][x]
               /\ k # "server" => after["mapping"][x] = catalog["mapping"][x]
               /\ k = "server" => after["mapping"][x] =
                    IF x = m THEN catalog["mapping"][n] ELSE IF x = n THEN Absent
                    ELSE catalog["mapping"][x]
               /\ \A j \in Kinds \ {k, "extension", "mapping"} : after[j][x] = catalog[j][x]
  BY Zenon DEF IsRenamed
<1> DEFINE gone == [catalog EXCEPT ![k][n] = Absent]
           moved == [gone EXCEPT ![k][m] = row]
           extension == [e \in Names |-> IF DependsOn(<<"extension", e>>, <<k, n>>)
                                         THEN [moved["extension"][e] EXCEPT !.schema = m]
                                         ELSE moved["extension"][e]]
           followed == [moved EXCEPT !["extension"] = extension]
           mapping == IF k = "server"
                      THEN [followed["mapping"] EXCEPT ![n] = Absent, ![m] = catalog["mapping"][n]]
                      ELSE followed["mapping"]
           after == [followed EXCEPT !["mapping"] = mapping]
<1>0. /\ {"schema", "server", "publication", "extension", "mapping"} \subseteq Kinds
      /\ k \in Kinds /\ k # "extension" /\ k # "mapping"
  BY DEF Kinds
<1>1. /\ Rows(gone) /\ gone[k][x] = IF x = n THEN Absent ELSE catalog[k][x]
      /\ \A j \in Kinds \ {k} : gone[j] = catalog[j]
  BY <1>0 DEF Rows
<1>2. /\ Rows(moved)
      /\ moved[k][x] = IF x = m THEN row ELSE IF x = n THEN Absent ELSE catalog[k][x]
      /\ \A j \in Kinds \ {k} : moved[j] = catalog[j]
  <2> HIDE DEF gone
  <2> QED  BY <1>0, <1>1 DEF Rows
<1>3. /\ Rows(followed) /\ followed[k] = moved[k]
      /\ followed["extension"][x] = extension[x]
      /\ \A j \in Kinds \ {k, "extension"} : followed[j] = catalog[j]
  <2>1. extension = [e \in Names |-> extension[e]]
    OBVIOUS
  <2> HIDE DEF moved, extension
  <2> QED  BY <1>0, <1>2, <2>1 DEF Rows
<1>4. extension[x] = IF DependsOn(<<"extension", x>>, <<k, n>>)
                     THEN [catalog["extension"][x] EXCEPT !.schema = m] ELSE catalog["extension"][x]
  <2> HIDE DEF moved
  <2> QED  BY <1>0, <1>2
<1>5. /\ k # "server" => mapping[x] = catalog["mapping"][x]
      /\ k = "server" =>
            mapping[x] = IF x = m THEN catalog["mapping"][n] ELSE IF x = n THEN Absent
                                      ELSE catalog["mapping"][x]
  <2> HIDE DEF followed
  <2> QED  BY <1>0, <1>3 DEF Rows
<1>6. /\ after[k] = followed[k] /\ after["extension"] = followed["extension"]
      /\ after["mapping"] = mapping
      /\ \A j \in Kinds \ {k, "extension", "mapping"} : after[j] = followed[j]
  <2> HIDE DEF followed, mapping
  <2> QED  BY <1>0, <1>3 DEF Rows
<1>7. Renamed(k, n, m, row) = after
  BY DEF Renamed
<1> HIDE DEF after, mapping, followed, extension, moved, gone
<1> QED  BY <1>0, <1>2, <1>3, <1>4, <1>5, <1>6, <1>7

\* It leaves rows, too.
LEMMA RenamedTyped ==
    ASSUME Rows(catalog), Typed(catalog), NEW k \in {"schema", "server", "publication"},
           NEW n \in Names, NEW m \in Names, NEW row \in Row[k]
    PROVE  Typed(Renamed(k, n, m, row))
<1> DEFINE after == Renamed(k, n, m, row)
<1>0. IsRenamed(after, k, n, m, row)
  BY RenamedFacts
<1> HIDE DEF after
<1>1. ASSUME NEW x \in Names PROVE after["extension"][x] \in Row["extension"] \cup {Absent}
  <2>1. CASE DependsOn(<<"extension", x>>, <<k, n>>)
    <3>1. catalog["extension"][x] \in Row["extension"]
      BY <2>1 DEF Typed, DependsOn, Kinds
    <3>2. Row["extension"] = [schema : Names \cup {DefaultSchema}, version : Versions]
      BY DEF Row
    <3>3. [catalog["extension"][x] EXCEPT !.schema = m] \in Row["extension"]
      BY <3>1, <3>2
    <3> QED  BY <2>1, <3>3, <1>0 DEF IsRenamed
  <2>2. CASE ~DependsOn(<<"extension", x>>, <<k, n>>)
    <3>1. catalog["extension"][x] \in Row["extension"] \cup {Absent}
      BY DEF Typed, Kinds
    <3> QED  BY <2>2, <3>1, <1>0 DEF IsRenamed
  <2> QED  BY <2>1, <2>2
<1>2. ASSUME NEW x \in Names PROVE after["mapping"][x] \in Row["mapping"] \cup {Absent}
  <2>1. \A y \in Names : catalog["mapping"][y] \in Row["mapping"] \cup {Absent}
    BY DEF Typed, Kinds
  <2> QED  BY <2>1, <1>0 DEF IsRenamed
<1>3. ASSUME NEW x \in Names, NEW j \in Kinds \ {"extension", "mapping"}
      PROVE  after[j][x] \in Row[j] \cup {Absent}
  <2>1. catalog[j][x] \in Row[j] \cup {Absent}
    BY DEF Typed
  <2> QED  BY <2>1, <1>0 DEF IsRenamed
<1> QED  BY <1>1, <1>2, <1>3 DEF Typed, after

-----------------------------------------------------------------------------
(* Configurations, plans and what is read. *)

\* What is configured is of its kind.
LEMMA ConfigTyped ==
    ASSUME Shape, NEW k \in Kinds
    PROVE  config[k] = Absent \/ config[k] \in Config[k]
<1>1. IsScenario(Given[scenario])
  BY CatalogAssumption DEF Shape, Given
<1> QED  BY <1>1 DEF Shape, IsScenario

\* The kinds' configurations and rows.
LEMMA KindTypes ==
    /\ Config["schema"] = SchemaConfig /\ Config["extension"] = ExtensionConfig
    /\ Config["server"] = ServerConfig /\ Config["mapping"] = MappingConfig
    /\ Config["publication"] = PublicationConfig /\ Config["subscription"] = SubscriptionConfig
    /\ Config["slot"] = SlotConfig /\ Config["function"] = FunctionConfig
    /\ Row["schema"] = [owner : Roles, acl : SUBSET (Grantees \X Privileges), owners : SUBSET Roles]
    /\ Row["extension"] = [schema : Names \cup {DefaultSchema}, version : Versions]
    /\ Row["server"] = [fdw : Names, version : Versions, owner : Roles, options : Options]
    /\ Row["mapping"] = [options : Options]
    /\ Row["publication"] = [owner : Roles, tables : SUBSET Tables, all : BOOLEAN,
                             params : SUBSET Operations]
    /\ Row["subscription"] = SubscriptionRow
    /\ Row["slot"] = [plugin : {"a", "b"}]
    /\ Row["function"] = [returns : {"a", "b"}, options : {"a", "b"}, body : {"a", "b"}]
BY DEF Config, Row

\* What an instance of the state has besides a configuration: its computed attributes.
LEMMA CompleteSchema ==
    ASSUME NEW c \in SchemaConfig
    PROVE  c \in Complete(SchemaConfig) <=> c.owner \in Roles
<1>1. DOMAIN c = {"name", "owner", "policies", "cascade"}
  BY DEF SchemaConfig
<1>2. c.name # Unset /\ c.policies # Unset /\ c.cascade # Unset
  BY CatalogAssumption DEF SchemaConfig, Policies
<1> QED  BY <1>1, <1>2, CatalogAssumption DEF Complete, SchemaConfig

LEMMA CompleteExtension ==
    ASSUME NEW c \in ExtensionConfig
    PROVE  c \in Complete(ExtensionConfig) <=>
             c.schema \in Names \cup {DefaultSchema} /\ c.version \in Versions
<1>1. DOMAIN c = {"name", "schema", "version", "cascade"}
  BY DEF ExtensionConfig
<1>2. c.name # Unset /\ c.cascade # Unset
  BY CatalogAssumption DEF ExtensionConfig
<1> QED  BY <1>1, <1>2, CatalogAssumption DEF Complete, ExtensionConfig

LEMMA CompleteServer ==
    ASSUME NEW c \in ServerConfig
    PROVE  c \in Complete(ServerConfig) <=> c.owner \in Roles
<1>1. DOMAIN c = {"name", "fdw", "version", "owner", "options", "cascade"}
  BY DEF ServerConfig
<1>2. /\ c.name # Unset /\ c.fdw # Unset /\ c.version # Unset /\ c.options # Unset
      /\ c.cascade # Unset
  BY CatalogAssumption DEF ServerConfig
<1> QED  BY <1>1, <1>2, CatalogAssumption DEF Complete, ServerConfig

LEMMA CompletePublication ==
    ASSUME NEW c \in PublicationConfig
    PROVE  c \in Complete(PublicationConfig) <=>
             /\ c.owner \in Roles /\ c.tables \in SUBSET Tables /\ c.all \in BOOLEAN
             /\ c.params \in SUBSET Operations
<1>1. DOMAIN c = {"name", "owner", "tables", "all", "params", "cascade"}
  BY DEF PublicationConfig
<1>2. c.name # Unset /\ c.cascade # Unset
  BY CatalogAssumption DEF PublicationConfig
<1>3. /\ c.tables # Unset <=> c.tables \in SUBSET Tables
      /\ c.params # Unset <=> c.params \in SUBSET Operations
      /\ c.all # Unset <=> c.all \in BOOLEAN
      /\ c.owner # Unset <=> c.owner \in Roles
  <2>1. /\ c.tables \in (SUBSET Tables) \cup {Unset} /\ c.params \in (SUBSET Operations) \cup {Unset}
        /\ c.owner \in Roles \cup {Unset}
    BY DEF PublicationConfig
  <2>2. c.all \in BOOLEAN \cup {Unset}
    BY Zenon DEF PublicationConfig
  <2>3. Unset \notin SUBSET Tables /\ Unset \notin SUBSET Operations /\ Unset \notin Roles
    <3>1. (\A S \in SUBSET Tables : S # Unset) /\ (\A S \in SUBSET Operations : S # Unset)
      BY CatalogAssumption
    <3>2. Unset \notin SUBSET Tables /\ Unset \notin SUBSET Operations
      BY <3>1, Zenon
    <3> QED  BY <3>2, CatalogAssumption
  <2>4. Unset \notin BOOLEAN
    BY CatalogAssumption, Zenon
  <2>5. c.all # Unset <=> c.all \in BOOLEAN
    BY <2>2, <2>4, Zenon
  <2> QED  BY <2>1, <2>3, <2>5
<1> QED  BY <1>1, <1>2, <1>3 DEF Complete

\* The other kinds have no computed attributes.
LEMMA CompleteOthers ==
    /\ Complete(MappingConfig) = MappingConfig
    /\ Complete(SubscriptionConfig) = SubscriptionConfig
    /\ Complete(SlotConfig) = SlotConfig
    /\ Complete(FunctionConfig) = FunctionConfig
<1>1. ASSUME NEW c \in MappingConfig PROVE \A f \in DOMAIN c : c[f] # Unset
  BY CatalogAssumption DEF MappingConfig
<1>2. ASSUME NEW c \in SubscriptionConfig PROVE \A f \in DOMAIN c : c[f] # Unset
  BY CatalogAssumption DEF SubscriptionConfig
<1>3. ASSUME NEW c \in SlotConfig PROVE \A f \in DOMAIN c : c[f] # Unset
  BY CatalogAssumption DEF SlotConfig
<1>4. ASSUME NEW c \in FunctionConfig PROVE \A f \in DOMAIN c : c[f] # Unset
  BY CatalogAssumption DEF FunctionConfig
<1> QED  BY <1>1, <1>2, <1>3, <1>4 DEF Complete

\* A plan takes each attribute from the configuration, or from the state where it
\* is computed.
LEMMA PlannedAttributes ==
    ASSUME NEW k
    PROVE  /\ Planned(k) = [f \in DOMAIN config[k] |-> Planned(k)[f]]
           /\ \A f \in DOMAIN config[k] :
                /\ config[k][f] # Unset \/ state[k] = Absent => Planned(k)[f] = config[k][f]
                /\ config[k][f] = Unset /\ state[k] # Absent => Planned(k)[f] = state[k][f]
BY DEF Planned

\* A plan is a configuration, and an instance when the resource is in the state.
PlanTyped(k) ==
    /\ Planned(k) \in Config[k]
    /\ state[k] # Absent => Planned(k) \in Complete(Config[k])
    /\ Planned(k).name = config[k].name

LEMMA PlannedTyped ==
    ASSUME Shape, NEW k \in Kinds, config[k] # Absent,
           state[k] = Absent \/ state[k] \in Complete(Config[k])
    PROVE  PlanTyped(k)
<1> DEFINE c == config[k]
           s == state[k]
           p == Planned(k)
<1>0. c \in Config[k] /\ (s = Absent \/ (s \in Complete(Config[k]) /\ s \in Config[k]))
  BY ConfigTyped DEF Complete
<1>1. CASE k = "schema"
  <2>1. /\ p = [name |-> p.name, owner |-> p.owner, policies |-> p.policies,
                cascade |-> p.cascade]
        /\ p.name = c.name /\ p.policies = c.policies /\ p.cascade = c.cascade
        /\ p.owner \in Roles \cup {Unset}
        /\ s # Absent => p.owner \in Roles
    <3>1. DOMAIN c = {"name", "owner", "policies", "cascade"} /\ c \in SchemaConfig
      BY <1>0, <1>1, KindTypes DEF SchemaConfig
    <3>2. c.name # Unset /\ c.policies # Unset /\ c.cascade # Unset
      BY <3>1, CatalogAssumption DEF SchemaConfig, Policies
    <3>3. s # Absent => s.owner \in Roles
      BY <1>0, <1>1, KindTypes, CompleteSchema
    <3>4. c.owner \in Roles \cup {Unset}
      BY <3>1 DEF SchemaConfig
    <3>5. p = [f \in {"name", "owner", "policies", "cascade"} |-> p[f]]
      BY <3>1, PlannedAttributes
    <3> HIDE DEF p, c, s
    <3> QED  BY <3>1, <3>2, <3>3, <3>4, <3>5, PlannedAttributes DEF p, c, s
  <2>2. p \in SchemaConfig
    BY <1>0, <1>1, <2>1, KindTypes DEF SchemaConfig
  <2> QED  BY <1>1, <2>1, <2>2, KindTypes, CompleteSchema DEF PlanTyped
<1>2. CASE k = "extension"
  <2>1. /\ p = [name |-> p.name, schema |-> p.schema, version |-> p.version,
                cascade |-> p.cascade]
        /\ p.name = c.name /\ p.cascade = c.cascade
        /\ p.schema \in (Names \cup {DefaultSchema}) \cup {Unset}
        /\ s # Absent => p.schema \in Names \cup {DefaultSchema}
        /\ p.version \in Versions \cup {Unset}
        /\ s # Absent => p.version \in Versions
    <3>1. DOMAIN c = {"name", "schema", "version", "cascade"} /\ c \in ExtensionConfig
      BY <1>0, <1>2, KindTypes DEF ExtensionConfig
    <3>2. c.name # Unset /\ c.cascade # Unset
      BY <3>1, CatalogAssumption DEF ExtensionConfig
    <3>3. s # Absent => s.schema \in Names \cup {DefaultSchema} /\ s.version \in Versions
      BY <1>0, <1>2, KindTypes, CompleteExtension
    <3>4. c.schema \in (Names \cup {DefaultSchema}) \cup {Unset} /\ c.version \in Versions \cup {Unset}
      BY <3>1, Zenon DEF ExtensionConfig
    <3>5. p = [f \in {"name", "schema", "version", "cascade"} |-> p[f]]
      BY <3>1, PlannedAttributes
    <3> HIDE DEF p, c, s
    <3> QED  BY <3>1, <3>2, <3>3, <3>4, <3>5, PlannedAttributes DEF p, c, s
  <2>2. p \in ExtensionConfig
    BY <1>0, <1>2, <2>1, KindTypes DEF ExtensionConfig
  <2> QED  BY <1>2, <2>1, <2>2, KindTypes, CompleteExtension DEF PlanTyped
<1>3. CASE k = "server"
  <2>1. /\ p = [name |-> p.name, fdw |-> p.fdw, version |-> p.version, owner |-> p.owner,
                options |-> p.options, cascade |-> p.cascade]
        /\ p.name = c.name /\ p.fdw = c.fdw /\ p.version = c.version
        /\ p.options = c.options /\ p.cascade = c.cascade
        /\ p.owner \in Roles \cup {Unset}
        /\ s # Absent => p.owner \in Roles
    <3>1. DOMAIN c = {"name", "fdw", "version", "owner", "options", "cascade"} /\ c \in ServerConfig
      BY <1>0, <1>3, KindTypes DEF ServerConfig
    <3>2. c.name # Unset /\ c.fdw # Unset /\ c.version # Unset /\ c.options # Unset /\ c.cascade # Unset
      BY <3>1, CatalogAssumption DEF ServerConfig
    <3>3. s # Absent => s.owner \in Roles
      BY <1>0, <1>3, KindTypes, CompleteServer
    <3>4. c.owner \in Roles \cup {Unset}
      BY <3>1, Zenon DEF ServerConfig
    <3>5. p = [f \in {"name", "fdw", "version", "owner", "options", "cascade"} |-> p[f]]
      BY <3>1, PlannedAttributes
    <3> HIDE DEF p, c, s
    <3> QED  BY <3>1, <3>2, <3>3, <3>4, <3>5, PlannedAttributes DEF p, c, s
  <2>2. p \in ServerConfig
    BY <1>0, <1>3, <2>1, KindTypes DEF ServerConfig
  <2> QED  BY <1>3, <2>1, <2>2, KindTypes, CompleteServer DEF PlanTyped
<1>4. CASE k = "mapping"
  <2>1. /\ p = [name |-> p.name, options |-> p.options]
        /\ p.name = c.name /\ p.options = c.options
    <3>1. DOMAIN c = {"name", "options"} /\ c \in MappingConfig
      BY <1>0, <1>4, KindTypes DEF MappingConfig
    <3>2. c.name # Unset /\ c.options # Unset
      BY <3>1, CatalogAssumption DEF MappingConfig
    <3>5. p = [f \in {"name", "options"} |-> p[f]]
      BY <3>1, PlannedAttributes
    <3> HIDE DEF p, c, s
    <3> QED  BY <3>1, <3>2, <3>5, PlannedAttributes DEF p, c, s
  <2>2. p \in MappingConfig
    BY <1>0, <1>4, <2>1, KindTypes DEF MappingConfig
  <2> QED  BY <1>4, <2>1, <2>2, KindTypes, CompleteOthers DEF PlanTyped
<1>5. CASE k = "publication"
  <2>1. /\ p = [name |-> p.name, owner |-> p.owner, tables |-> p.tables, all |-> p.all,
                params |-> p.params, cascade |-> p.cascade]
        /\ p.name = c.name /\ p.cascade = c.cascade
        /\ p.owner \in Roles \cup {Unset}
        /\ s # Absent => p.owner \in Roles
        /\ p.tables \in (SUBSET Tables) \cup {Unset}
        /\ s # Absent => p.tables \in SUBSET Tables
        /\ p.all \in BOOLEAN \cup {Unset}
        /\ s # Absent => p.all \in BOOLEAN
        /\ p.params \in (SUBSET Operations) \cup {Unset}
        /\ s # Absent => p.params \in SUBSET Operations
    <3>1. DOMAIN c = {"name", "owner", "tables", "all", "params", "cascade"} /\ c \in PublicationConfig
      BY <1>0, <1>5, KindTypes DEF PublicationConfig
    <3>2. c.name # Unset /\ c.cascade # Unset
      BY <3>1, CatalogAssumption DEF PublicationConfig
    <3>3. s # Absent => /\ s.owner \in Roles /\ s.tables \in SUBSET Tables
                          /\ s.all \in BOOLEAN /\ s.params \in SUBSET Operations
      BY <1>0, <1>5, KindTypes, CompletePublication
    <3>4. /\ c.owner \in Roles \cup {Unset} /\ c.tables \in (SUBSET Tables) \cup {Unset}
          /\ c.all \in BOOLEAN \cup {Unset} /\ c.params \in (SUBSET Operations) \cup {Unset}
      BY <3>1, Zenon DEF PublicationConfig
    <3>5. p = [f \in {"name", "owner", "tables", "all", "params", "cascade"} |-> p[f]]
      BY <3>1, PlannedAttributes
    <3> HIDE DEF p, c, s
    <3> QED  BY <3>1, <3>2, <3>3, <3>4, <3>5, PlannedAttributes DEF p, c, s
  <2>2. p \in PublicationConfig
    BY <1>0, <1>5, <2>1, KindTypes DEF PublicationConfig
  <2> QED  BY <1>5, <2>1, <2>2, KindTypes, CompletePublication DEF PlanTyped
<1>6. CASE k = "subscription"
  <2>1. /\ p = [name |-> p.name, conn |-> p.conn, createSlot |-> p.createSlot, slot |-> p.slot]
        /\ p.name = c.name /\ p.conn = c.conn /\ p.createSlot = c.createSlot /\ p.slot = c.slot
    <3>1. DOMAIN c = {"name", "conn", "createSlot", "slot"} /\ c \in SubscriptionConfig
      BY <1>0, <1>6, KindTypes DEF SubscriptionConfig
    <3>2. c.name # Unset /\ c.conn # Unset /\ c.createSlot # Unset /\ c.slot # Unset
      BY <3>1, CatalogAssumption DEF SubscriptionConfig
    <3>5. p = [f \in {"name", "conn", "createSlot", "slot"} |-> p[f]]
      BY <3>1, PlannedAttributes
    <3> HIDE DEF p, c, s
    <3> QED  BY <3>1, <3>2, <3>5, PlannedAttributes DEF p, c, s
  <2>2. p \in SubscriptionConfig
    BY <1>0, <1>6, <2>1, KindTypes DEF SubscriptionConfig
  <2> QED  BY <1>6, <2>1, <2>2, KindTypes, CompleteOthers DEF PlanTyped
<1>7. CASE k = "slot"
  <2>1. /\ p = [name |-> p.name, plugin |-> p.plugin]
        /\ p.name = c.name /\ p.plugin = c.plugin
    <3>1. DOMAIN c = {"name", "plugin"} /\ c \in SlotConfig
      BY <1>0, <1>7, KindTypes DEF SlotConfig
    <3>2. c.name # Unset /\ c.plugin # Unset
      BY <3>1, CatalogAssumption DEF SlotConfig
    <3>5. p = [f \in {"name", "plugin"} |-> p[f]]
      BY <3>1, PlannedAttributes
    <3> HIDE DEF p, c, s
    <3> QED  BY <3>1, <3>2, <3>5, PlannedAttributes DEF p, c, s
  <2>2. p \in SlotConfig
    BY <1>0, <1>7, <2>1, KindTypes DEF SlotConfig
  <2> QED  BY <1>7, <2>1, <2>2, KindTypes, CompleteOthers DEF PlanTyped
<1>8. CASE k = "function"
  <2>1. /\ p = [name |-> p.name, returns |-> p.returns, options |-> p.options, body |-> p.body,
                cascade |-> p.cascade]
        /\ p.name = c.name /\ p.returns = c.returns /\ p.options = c.options
        /\ p.body = c.body /\ p.cascade = c.cascade
    <3>1. DOMAIN c = {"name", "returns", "options", "body", "cascade"} /\ c \in FunctionConfig
      BY <1>0, <1>8, KindTypes DEF FunctionConfig
    <3>2. c.name # Unset /\ c.returns # Unset /\ c.options # Unset /\ c.body # Unset /\ c.cascade # Unset
      BY <3>1, CatalogAssumption DEF FunctionConfig
    <3>5. p = [f \in {"name", "returns", "options", "body", "cascade"} |-> p[f]]
      BY <3>1, PlannedAttributes
    <3> HIDE DEF p, c, s
    <3> QED  BY <3>1, <3>2, <3>5, PlannedAttributes DEF p, c, s
  <2>2. p \in FunctionConfig
    BY <1>0, <1>8, <2>1, KindTypes DEF FunctionConfig
  <2> QED  BY <1>8, <2>1, <2>2, KindTypes, CompleteOthers DEF PlanTyped
<1> QED  BY <1>1, <1>2, <1>3, <1>4, <1>5, <1>6, <1>7, <1>8 DEF Kinds

\* What is read makes an instance of a plan, of the same name.
LEMMA ReadTyped ==
    ASSUME NEW k \in Kinds, NEW inst \in Config[k], NEW row \in Row[k]
    PROVE  /\ ReadInstance(k, inst, row) \in Complete(Config[k])
           /\ ReadInstance(k, inst, row).name = inst.name
           /\ k = "schema" => ReadInstance(k, inst, row).policies = inst.policies
           /\ k = "subscription" => ReadInstance(k, inst, row).createSlot = inst.createSlot
<1> DEFINE r == ReadInstance(k, inst, row)
<1>1. CASE k = "schema"
  <2>1. inst \in SchemaConfig /\ row \in Row["schema"]
    BY <1>1, KindTypes
  <2>2. r = ReadSchema(inst, row)
    BY <1>1, Zenon DEF ReadInstance
  <2>3. r = [name |-> inst.name, owner |-> row.owner, policies |-> inst.policies,
             cascade |-> inst.cascade]
    BY <2>1, <2>2 DEF ReadSchema, With, SchemaConfig
  <2>4. r \in SchemaConfig /\ r.name = inst.name /\ r.policies = inst.policies /\ r.owner \in Roles
    BY <2>1, <2>3, KindTypes DEF SchemaConfig
  <2> QED  BY <1>1, <2>4, KindTypes, CompleteSchema
<1>2. CASE k = "extension"
  <2>1. inst \in ExtensionConfig /\ row \in Row["extension"]
    BY <1>2, KindTypes
  <2>2. r = ReadExtension(inst, row)
    BY <1>2, Zenon DEF ReadInstance
  <2>3. r = [name |-> inst.name, schema |-> row.schema, version |-> row.version,
             cascade |-> inst.cascade]
    BY <2>1, <2>2 DEF ReadExtension, With, ExtensionConfig
  <2>4. /\ r \in ExtensionConfig /\ r.name = inst.name
        /\ r.schema \in Names \cup {DefaultSchema} /\ r.version \in Versions
    BY <2>1, <2>3, KindTypes DEF ExtensionConfig
  <2> QED  BY <1>2, <2>4, KindTypes, CompleteExtension
<1>3. CASE k = "server"
  <2>1. inst \in ServerConfig /\ row \in Row["server"]
    BY <1>3, KindTypes
  <2>2. r = ReadServer(inst, row)
    BY <1>3, Zenon DEF ReadInstance
  <2>3. r = [name |-> inst.name, fdw |-> row.fdw, version |-> row.version, owner |-> row.owner,
             options |-> row.options, cascade |-> inst.cascade]
    BY <2>1, <2>2 DEF ReadServer, With, ServerConfig
  <2>4. r \in ServerConfig /\ r.name = inst.name /\ r.owner \in Roles
    BY <2>1, <2>3, KindTypes DEF ServerConfig
  <2> QED  BY <1>3, <2>4, KindTypes, CompleteServer
<1>4. CASE k = "mapping"
  <2>1. inst \in MappingConfig /\ row \in Row["mapping"]
    BY <1>4, KindTypes
  <2>2. r = ReadMapping(inst, row)
    BY <1>4, Zenon DEF ReadInstance
  <2>3. r = [name |-> inst.name, options |-> row.options]
    BY <2>1, <2>2 DEF ReadMapping, With, MappingConfig
  <2>4. r \in MappingConfig /\ r.name = inst.name
    BY <2>1, <2>3, KindTypes DEF MappingConfig
  <2> QED  BY <1>4, <2>4, KindTypes, CompleteOthers
<1>5. CASE k = "publication"
  <2>1. inst \in PublicationConfig /\ row \in Row["publication"]
    BY <1>5, KindTypes
  <2>2. r = ReadPublication(inst, row)
    BY <1>5, Zenon DEF ReadInstance
  <2>3. r = [name |-> inst.name, owner |-> row.owner,
             tables |-> IF row.all THEN Tables ELSE row.tables, all |-> row.all,
             params |-> row.params, cascade |-> inst.cascade]
    BY <2>1, <2>2 DEF ReadPublication, With, PublicationConfig
  <2>4. r \in PublicationConfig /\ r.name = inst.name
        /\ r.owner \in Roles /\ r.tables \in SUBSET Tables /\ r.all \in BOOLEAN
        /\ r.params \in SUBSET Operations
    BY <2>1, <2>3, KindTypes DEF PublicationConfig
  <2> QED  BY <1>5, <2>4, KindTypes, CompletePublication
<1>6. CASE k = "subscription"
  <2>1. inst \in SubscriptionConfig /\ row \in Row["subscription"]
    BY <1>6, KindTypes
  <2>2. r = ReadSubscription(inst, row)
    BY <1>6, Zenon DEF ReadInstance
  <2>3. /\ row.slot = Absent => r = inst
        /\ row.slot # Absent => r = [name |-> inst.name, conn |-> row.conn,
                                     createSlot |-> inst.createSlot, slot |-> row.slot]
    BY <2>1, <2>2 DEF ReadSubscription, With, SubscriptionConfig
  <2>4. r \in SubscriptionConfig /\ r.name = inst.name /\ r.createSlot = inst.createSlot
    BY <2>1, <2>3, KindTypes DEF SubscriptionConfig, SubscriptionRow
  <2> QED  BY <1>6, <2>4, KindTypes, CompleteOthers
<1>7. CASE k = "slot"
  <2>1. inst \in SlotConfig /\ row \in Row["slot"]
    BY <1>7, KindTypes
  <2>2. r = ReadSlot(inst, row)
    BY <1>7, Zenon DEF ReadInstance
  <2>3. r = [name |-> inst.name, plugin |-> row.plugin]
    BY <2>1, <2>2 DEF ReadSlot, With, SlotConfig
  <2>4. r \in SlotConfig /\ r.name = inst.name
    BY <2>1, <2>3, KindTypes DEF SlotConfig
  <2> QED  BY <1>7, <2>4, KindTypes, CompleteOthers
<1>8. CASE k = "function"
  <2>1. inst \in FunctionConfig /\ row \in Row["function"]
    BY <1>8, KindTypes
  <2>2. r = ReadFunction(inst, row)
    BY <1>8, Zenon DEF ReadInstance
  <2>3. r = [name |-> inst.name, returns |-> row.returns, options |-> row.options,
             body |-> inst.body, cascade |-> inst.cascade]
    BY <2>1, <2>2 DEF ReadFunction, With, FunctionConfig
  <2>4. r \in FunctionConfig /\ r.name = inst.name
    BY <2>1, <2>3, KindTypes DEF FunctionConfig
  <2> QED  BY <1>8, <2>4, KindTypes, CompleteOthers
<1> QED  BY <1>1, <1>2, <1>3, <1>4, <1>5, <1>6, <1>7, <1>8 DEF Kinds

-----------------------------------------------------------------------------
(* The operations: types, and which objects Terraform knows. *)

\* The name under which Terraform has, or is about to record, the object of k.
Knows(k, x) ==
    IF pc[k] = "readBack" THEN config[k].name = x ELSE state[k] # Absent /\ state[k].name = x

\* The states in which operations are: of one kind, or of all.
KindInv(k) == At(k) /\ (state[k] = Absent \/ state[k] \in Complete(Config[k]))

\* An operation has succeeded: what it leaves is typed,
Leaves(k) ==
    /\ Typed(catalog')
    /\ UNCHANGED <<missing, inputs, halfDone, failures>>
    /\ \/ \E inst \in Complete(Config[k]) : Record(k, inst)
       \/ Forget(k)
       \/ Continue(k, "readBack") /\ config[k] # Absent
       \/ \E step \in {"unset", "drop"} : Continue(k, step) /\ state[k] # Absent

\* it has made no object of another kind, and of its own one that Terraform
\* knows; and there is none any more that Terraform has known only before.
Tracks(k) ==
    /\ \A j \in Kinds \ {k}, x \in Names : catalog'[j][x] # Absent => catalog[j][x] # Absent
    /\ \A x \in Names : catalog'[k][x] # Absent =>
         \/ catalog[k][x] # Absent /\ ~Knows(k, x)
         \/ Knows(k, x)'

FailsOnly(k) ==
    Fail(k) /\ (UNCHANGED failures \/ failures' = failures + 1)

\* What Terraform knows of an object after an operation.
LEMMA KnowsAfter ==
    ASSUME Shape, NEW k \in Kinds, UNCHANGED inputs, NEW x
    PROVE  /\ Forget(k) => ~Knows(k, x)'
           /\ \A inst : Record(k, inst) /\ inst # Absent => (Knows(k, x)' <=> inst.name = x)
           /\ Continue(k, "readBack") => (Knows(k, x)' <=> config[k].name = x)
           /\ \A step \in {"unset", "drop"} :
                Continue(k, step) => (Knows(k, x)' <=> state[k] # Absent /\ state[k].name = x)
           /\ pc[k] = "create" /\ At(k) => ~Knows(k, x)
           /\ pc[k] \in {"update", "delete", "unset", "drop"} /\ At(k) =>
                 (Knows(k, x) <=> state[k].name = x)
BY DEF Shape, Knows, Forget, Record, Continue, At, inputs

\* A statement that drops an object takes others with it, and makes none.
LEMMA DropTracks ==
    ASSUME Shape, NEW k \in Kinds, At(k), Typed(catalog), pc[k] = "delete",
           catalog' \in {Without(Doomed(<<k, state[k].name>>)), Put(k, state[k].name, Absent)}
             \/ (catalog' = catalog /\ catalog[k][state[k].name] = Absent),
           UNCHANGED inputs
    PROVE  Typed(catalog') /\ Tracks(k)
<1> DEFINE n == state[k].name
<1>0. Rows(catalog)
  BY DEF Shape, Rows
<1>1. <<k, n>> \in Doomed(<<k, n>>)
  BY DEF Doomed, WithDependents
<1>2. /\ Typed(catalog')
      /\ \A j \in Kinds, x \in Names : catalog'[j][x] \in {Absent, catalog[j][x]}
      /\ n \in Names => catalog'[k][n] = Absent
  <2>1. CASE catalog' = Without(Doomed(<<k, n>>))
    <3> DEFINE S == Doomed(<<k, n>>)
    <3> HIDE DEF S
    <3>1. \A j \in Kinds, x \in Names :
            Without(S)[j][x] = IF <<j, x>> \in S THEN Absent ELSE catalog[j][x]
      BY WithoutFacts
    <3>2. Typed(Without(S)) /\ catalog' = Without(S) /\ <<k, n>> \in S
      BY <1>1, <2>1, WithoutTyped DEF S
    <3> QED  BY <3>1, <3>2
  <2>2. CASE catalog' = Put(k, n, Absent)
    <3>1. Typed(catalog')
      BY <1>0, <2>2, PutTyped
    <3>2. \A j \in Kinds, x \in Names : catalog'[j][x] \in {Absent, catalog[j][x]}
      BY <1>0, <2>2, PutFacts
    <3>3. n \in Names => catalog'[k][n] = Absent
      BY <1>0, <2>2, PutFacts
    <3> QED  BY <3>1, <3>2, <3>3
  <2>3. CASE catalog' = catalog /\ catalog[k][n] = Absent
    BY <2>3
  <2> QED  BY <2>1, <2>2, <2>3
<1>3. \A x : Knows(k, x) <=> n = x
  BY KnowsAfter
<1> HIDE DEF n
<1> QED  BY <1>2, <1>3 DEF Tracks

\* Privileges are of grantees.
LEMMA GrantsTyped ==
    ASSUME NEW P \in SUBSET Policy
    PROVE  Grants(P) \subseteq Grantees \X Privileges
BY DEF Grants, Policy

\* So are those of a schema that is new or has another owner.
LEMMA SchemaRows ==
    ASSUME NEW o \in Roles
    PROVE  /\ NewSchema(o) \in Row["schema"]
           /\ \A row \in Row["schema"] : OwnedBy(row, o) \in Row["schema"]
           /\ \A row \in Row["schema"], acl \in SUBSET (Grantees \X Privileges) :
                [row EXCEPT !.acl = acl] \in Row["schema"]
<1> DEFINE R == [owner : Roles, acl : SUBSET (Grantees \X Privileges), owners : SUBSET Roles]
<1>1. {o} \X Privileges \in SUBSET (Grantees \X Privileges)
  BY DEF Grantees
<1>2. ASSUME NEW row \in R PROVE OwnedBy(row, o) \in R
  <2>1. \A g \in row.acl : (IF g[1] = row.owner THEN <<o, g[2]>> ELSE g) \in Grantees \X Privileges
    BY DEF Grantees
  <2>2. {IF g[1] = row.owner THEN <<o, g[2]>> ELSE g : g \in row.acl} \in SUBSET (Grantees \X Privileges)
    BY <2>1
  <2>3. row.owners \cup {o} \in SUBSET Roles
    OBVIOUS
  <2> QED  BY <2>2, <2>3 DEF OwnedBy
<1>3. ASSUME NEW row \in R, NEW acl \in SUBSET (Grantees \X Privileges)
      PROVE  [row EXCEPT !.acl = acl] \in R
  OBVIOUS
<1>4. NewSchema(o) \in R
  BY <1>1 DEF NewSchema
<1> QED  BY <1>2, <1>3, <1>4, KindTypes

\* The operations of schemas.
LEMMA SchemaDone ==
    ASSUME Shape, Typed(catalog), KindInv("schema"), CreateSchema \/ UpdateSchema \/ DeleteSchema
    PROVE  FailsOnly("schema") \/ (Leaves("schema") /\ Tracks("schema"))
<1> DEFINE k == "schema"
           s == state["schema"]
           c == Planned("schema")
<1>0. Rows(catalog) /\ k \in Kinds
  BY DEF Shape, Rows, Kinds
<1>1. CASE CreateSchema /\ ~FailsOnly(k)
  <2> DEFINE row == catalog["schema"][c.name]
             owned == IF row = Absent THEN NewSchema(Told(c.owner, Me))
                      ELSE OwnedBy(row, Told(c.owner, row.owner))
             new == [owned EXCEPT !.acl = @ \cup Grants(c.policies)]
  <2>1. /\ pc[k] = "create" /\ catalog' = Put(k, c.name, new) /\ Continue(k, "readBack")
        /\ UNCHANGED <<missing, inputs, halfDone, failures>>
    BY <1>1 DEF CreateSchema, Try, FailsOnly, Turn
  <2>2. config[k] # Absent /\ s = Absent /\ At(k)
    BY <2>1 DEF KindInv, At
  <2>3. PlanTyped(k)
    BY <1>0, <2>2, PlannedTyped
  <2>4. c \in SchemaConfig /\ c.name = config[k].name
    BY <2>3, KindTypes DEF PlanTyped
  <2> HIDE DEF c
  <2>5. c.name \in Names /\ c.owner \in Roles \cup {Unset} /\ c.policies \in SUBSET Policy
    BY <2>4 DEF SchemaConfig, Policies
  <2>6. row \in Row["schema"] \cup {Absent}
    BY <1>0, <2>5 DEF Typed
  <2>7. owned \in Row["schema"]
    <3>1. CASE row = Absent
      <4>1. Told(c.owner, Me) \in Roles
        BY <2>5, CatalogAssumption DEF Told
      <4> QED  BY <3>1, <4>1, SchemaRows
    <3>2. CASE row # Absent
      <4>1. row \in Row["schema"] /\ row.owner \in Roles
        BY <2>6, <3>2, KindTypes
      <4>2. Told(c.owner, row.owner) \in Roles
        BY <2>5, <4>1 DEF Told
      <4> QED  BY <3>2, <4>1, <4>2, SchemaRows
    <3> QED  BY <3>1, <3>2
  <2> HIDE DEF owned
  <2>8. new \in Row["schema"]
    <3>1. owned.acl \in SUBSET (Grantees \X Privileges)
      BY <2>7, KindTypes
    <3>2. owned.acl \cup Grants(c.policies) \in SUBSET (Grantees \X Privileges)
      BY <2>5, <3>1, GrantsTyped
    <3> QED  BY <2>7, <3>2, SchemaRows, CatalogAssumption
  <2> HIDE DEF new
  <2>9. Leaves(k)
    BY <1>0, <2>1, <2>2, <2>8, PutTyped DEF Leaves
  <2>10. Tracks(k)
    BY <1>0, <2>1, <2>2, <2>4, PutFacts, KnowsAfter DEF Tracks
  <2> QED  BY <2>9, <2>10
<1>2. CASE UpdateSchema /\ ~FailsOnly(k)
  <2> DEFINE row == catalog["schema"][s.name]
             changes == PolicyChanges(s.policies, c.policies)
             owner == IF c.owner = s.owner THEN {} ELSE {c.owner}
             idle == c.name = s.name /\ owner \cup changes.revoked \cup changes.granted = {}
             owned == IF owner = {} THEN row ELSE OwnedBy(row, c.owner)
             new == [owned EXCEPT !.acl = (@ \ Grants(changes.revoked)) \cup Grants(changes.granted)]
  <2>1. /\ pc[k] = "update" /\ Continue(k, "readBack")
        /\ idle \/ row # Absent
        /\ catalog' = IF idle THEN catalog ELSE Renamed(k, s.name, c.name, new)
        /\ UNCHANGED <<missing, inputs, halfDone, failures>>
    BY <1>2 DEF UpdateSchema, Try, FailsOnly, Turn
  <2>2. config[k] # Absent /\ s # Absent /\ At(k) /\ s \in Complete(SchemaConfig)
    BY <2>1, KindTypes DEF KindInv, At
  <2>3. PlanTyped(k)
    BY <1>0, <2>2, PlannedTyped DEF KindInv
  <2>4. c \in Complete(SchemaConfig) /\ c.name = config[k].name
    BY <2>2, <2>3, KindTypes DEF PlanTyped
  <2> HIDE DEF c, s
  <2>5. /\ c.name \in Names /\ c.owner \in Roles /\ c.policies \in SUBSET Policy
        /\ s.name \in Names
    <3>1. c \in SchemaConfig /\ s \in SchemaConfig
      BY <2>2, <2>4 DEF Complete
    <3> QED  BY <2>4, <3>1, CompleteSchema DEF SchemaConfig, Policies
  <2>6. row \in Row["schema"] \cup {Absent}
    BY <1>0, <2>5 DEF Typed
  <2>7. changes.granted \in SUBSET Policy
    BY <2>5 DEF PolicyChanges
  <2> HIDE DEF changes
  <2>8. row # Absent => new \in Row["schema"]
    <3>1. Grants(changes.granted) \subseteq Grantees \X Privileges
      BY <2>7, GrantsTyped
    <3>2. SUFFICES ASSUME row # Absent PROVE new \in Row["schema"]
      OBVIOUS
    <3>3. owned \in Row["schema"]
      BY <2>5, <2>6, <3>2, SchemaRows
    <3> HIDE DEF owned
    <3>4. owned.acl \in SUBSET (Grantees \X Privileges)
      BY <3>3, KindTypes
    <3>5. (owned.acl \ Grants(changes.revoked)) \cup Grants(changes.granted)
            \in SUBSET (Grantees \X Privileges)
      BY <3>1, <3>4
    <3> QED  BY <3>3, <3>5, SchemaRows, CatalogAssumption
  <2> HIDE DEF new, idle
  <2>9. Leaves(k)
    BY <1>0, <2>1, <2>2, <2>5, <2>8, RenamedTyped DEF Leaves
  <2>10. Tracks(k)
    <3>1. \A x : (Knows(k, x) <=> s.name = x) /\ (Knows(k, x)' <=> c.name = x)
      BY <1>0, <2>1, <2>2, <2>4, KnowsAfter DEF s
    <3>2. CASE idle
      BY <2>1, <3>1, <3>2 DEF Tracks, idle
    <3>3. CASE ~idle
      <4>1. IsRenamed(catalog', k, s.name, c.name, new)
        BY <1>0, <2>1, <3>3, RenamedFacts
      <4>2. \A x \in Names : catalog'["extension"][x] # Absent => catalog["extension"][x] # Absent
        BY <4>1 DEF IsRenamed, DependsOn
      <4>3. \A j \in Kinds \ {k}, x \in Names : catalog'[j][x] # Absent => catalog[j][x] # Absent
        BY <4>1, <4>2 DEF IsRenamed
      <4>4. \A x \in Names : x # c.name =>
            catalog'[k][x] = IF x = s.name THEN Absent ELSE catalog[k][x]
        BY <4>1 DEF IsRenamed
      <4> QED  BY <3>1, <4>3, <4>4 DEF Tracks
    <3> QED  BY <3>2, <3>3
  <2> QED  BY <2>9, <2>10
<1>3. CASE DeleteSchema /\ ~FailsOnly(k)
  <2>1. /\ pc[k] = "delete" /\ Forget(k)
        /\ \/ catalog' = Without(Doomed(<<k, s.name>>))
           \/ catalog' = catalog /\ catalog[k][s.name] = Absent
        /\ UNCHANGED <<missing, inputs, halfDone, failures>>
    BY <1>3 DEF DeleteSchema, Try, FailsOnly, Turn
  <2>2. Typed(catalog') /\ Tracks(k)
    BY <1>0, <2>1, DropTracks DEF KindInv
  <2> QED  BY <2>1, <2>2 DEF Leaves
<1> QED  BY <1>1, <1>2, <1>3

\* What is configured is there, and so is a row.
LEMMA NotAbsent ==
    ASSUME NEW k \in Kinds, NEW c, c \in Config[k] \/ c \in Row[k]
    PROVE  c # Absent
BY CatalogAssumption

\* The operations of extensions.
LEMMA ExtensionDone ==
    ASSUME Shape, Typed(catalog), KindInv("extension"),
           CreateExtension \/ UpdateExtension \/ DeleteExtension
    PROVE  FailsOnly("extension") \/ (Leaves("extension") /\ Tracks("extension"))
<1> DEFINE k == "extension"
           s == state["extension"]
           c == Planned("extension")
           row == catalog["extension"][c.name]
<1>0. Rows(catalog) /\ k \in Kinds
  BY DEF Shape, Rows, Kinds
<1>1. CASE CreateExtension /\ ~FailsOnly(k)
  <2> DEFINE new == [schema |-> Told(c.schema, DefaultSchema), version |-> Told(c.version, Newest)]
  <2>1. /\ pc[k] = "create" /\ Continue(k, "readBack")
        /\ catalog' = IF row # Absent THEN catalog ELSE Put(k, c.name, new)
        /\ UNCHANGED <<missing, inputs, halfDone, failures>>
    BY <1>1 DEF CreateExtension, Try, FailsOnly, Turn
  <2>2. config[k] # Absent /\ s = Absent /\ At(k)
    BY <2>1 DEF KindInv, At
  <2>3. PlanTyped(k)
    BY <1>0, <2>2, PlannedTyped
  <2>4. c \in ExtensionConfig /\ c.name = config[k].name
    BY <2>3, KindTypes DEF PlanTyped
  <2> HIDE DEF c
  <2>5. new \in Row[k]
    BY <2>4, KindTypes, CatalogAssumption DEF ExtensionConfig, Told
  <2> HIDE DEF new, row
  <2>6. Leaves(k)
    BY <1>0, <2>1, <2>2, <2>5, PutTyped DEF Leaves
  <2>7. Tracks(k)
    BY <1>0, <2>1, <2>2, <2>4, PutFacts, KnowsAfter DEF Tracks
  <2> QED  BY <2>6, <2>7
<1>2. CASE UpdateExtension /\ ~FailsOnly(k)
  <2> DEFINE moves == c.schema # s.schema
             updates == c.version # s.version
             new == [schema |-> IF moves THEN c.schema ELSE row.schema,
                     version |-> IF updates THEN c.version ELSE row.version]
  <2>1. /\ pc[k] = "update" /\ Continue(k, "readBack")
        /\ moves \/ updates => row # Absent
        /\ catalog' = IF moves \/ updates THEN Put(k, c.name, new) ELSE catalog
        /\ UNCHANGED <<missing, inputs, halfDone, failures>>
    BY <1>2 DEF UpdateExtension, Try, FailsOnly, Turn
  <2>2. /\ config[k] # Absent /\ s # Absent /\ At(k) /\ s \in Complete(ExtensionConfig)
        /\ c.name = s.name
    BY <2>1, KindTypes DEF KindInv, At, ForceNew
  <2>3. PlanTyped(k)
    BY <1>0, <2>2, PlannedTyped DEF KindInv
  <2>4. c \in Complete(ExtensionConfig) /\ c.name = config[k].name
    BY <2>2, <2>3, KindTypes DEF PlanTyped
  <2> HIDE DEF c, s
  <2>5. /\ c.name \in Names /\ c.schema \in Names \cup {DefaultSchema} /\ c.version \in Versions
    <3>1. c \in ExtensionConfig
      BY <2>4 DEF Complete
    <3> QED  BY <2>4, <3>1, CompleteExtension DEF ExtensionConfig
  <2>6. row \in Row[k] \cup {Absent}
    BY <1>0, <2>5 DEF Typed
  <2> HIDE DEF row, moves, updates
  <2>7. row # Absent => new \in Row[k]
    BY <2>5, <2>6, KindTypes
  <2> HIDE DEF new
  <2>8. Leaves(k)
    BY <1>0, <2>1, <2>2, <2>7, PutTyped DEF Leaves
  <2>9. \A x : (Knows(k, x) <=> c.name = x) /\ (Knows(k, x)' <=> c.name = x)
    BY <1>0, <2>1, <2>2, <2>4, KnowsAfter DEF s
  <2>10. Tracks(k)
    BY <1>0, <2>1, <2>9, PutFacts DEF Tracks
  <2> QED  BY <2>8, <2>10
<1>3. CASE DeleteExtension /\ ~FailsOnly(k)
  <2>1. /\ pc[k] = "delete" /\ Forget(k) /\ catalog' = Without(Doomed(<<k, s.name>>))
        /\ UNCHANGED <<missing, inputs, halfDone, failures>>
    BY <1>3 DEF DeleteExtension, Try, FailsOnly, Turn
  <2>2. Typed(catalog') /\ Tracks(k)
    BY <1>0, <2>1, DropTracks DEF KindInv
  <2> QED  BY <2>1, <2>2 DEF Leaves
<1> QED  BY <1>1, <1>2, <1>3

\* The options of a server or a mapping.
LEMMA OptionsTyped ==
    ASSUME NEW old \in Options, NEW new \in Options, NEW has \in Options
    PROVE  NewOptions(old, new, has) \in Options
<1> DEFINE D == (DOMAIN has \ DOMAIN old) \cup DOMAIN new
<1>1. /\ DOMAIN has \subseteq OptionNames /\ \A o \in DOMAIN has : has[o] \in OptionValues
      /\ DOMAIN new \subseteq OptionNames /\ \A o \in DOMAIN new : new[o] \in OptionValues
  BY DEF Options
<1>2. D \in SUBSET OptionNames
  BY <1>1
<1>3. NewOptions(old, new, has) \in [D -> OptionValues]
  BY <1>1 DEF NewOptions
<1> QED  BY <1>2, <1>3 DEF Options

\* The operations of user mappings.
LEMMA MappingDone ==
    ASSUME Shape, Typed(catalog), KindInv("mapping"),
           CreateMapping \/ UpdateMapping \/ DeleteMapping
    PROVE  FailsOnly("mapping") \/ (Leaves("mapping") /\ Tracks("mapping"))
<1> DEFINE k == "mapping"
           s == state["mapping"]
           c == Planned("mapping")
           row == catalog["mapping"][c.name]
<1>0. Rows(catalog) /\ k \in Kinds
  BY DEF Shape, Rows, Kinds
<1>1. CASE CreateMapping /\ ~FailsOnly(k)
  <2> DEFINE new == [options |-> c.options]
  <2>1. /\ pc[k] = "create" /\ Record(k, c) /\ catalog' = Put(k, c.name, new)
        /\ UNCHANGED <<missing, inputs, halfDone, failures>>
    BY <1>1 DEF CreateMapping, Try, FailsOnly, Turn
  <2>2. config[k] # Absent /\ s = Absent /\ At(k)
    BY <2>1 DEF KindInv, At
  <2>3. PlanTyped(k)
    BY <1>0, <2>2, PlannedTyped
  <2>4. c \in MappingConfig /\ c \in Complete(Config[k])
    BY <2>3, KindTypes, CompleteOthers DEF PlanTyped
  <2> HIDE DEF c
  <2>5. new \in Row[k] /\ c # Absent
    BY <1>0, <2>4, KindTypes, NotAbsent DEF MappingConfig
  <2> HIDE DEF new, row
  <2>6. Leaves(k)
    BY <1>0, <2>1, <2>4, <2>5, PutTyped DEF Leaves
  <2>7. Tracks(k)
    BY <1>0, <2>1, <2>2, <2>5, PutFacts, KnowsAfter DEF Tracks
  <2> QED  BY <2>6, <2>7
<1>2. CASE UpdateMapping /\ ~FailsOnly(k)
  <2> DEFINE new == [options |-> NewOptions(s.options, c.options, row.options)]
  <2>1. /\ pc[k] = "update" /\ Record(k, c) /\ row # Absent /\ catalog' = Put(k, c.name, new)
        /\ UNCHANGED <<missing, inputs, halfDone, failures>>
    BY <1>2 DEF UpdateMapping, Try, FailsOnly, Turn
  <2>2. /\ config[k] # Absent /\ s # Absent /\ At(k) /\ s \in MappingConfig
        /\ c.name = s.name
    BY <2>1, KindTypes, CompleteOthers DEF KindInv, At, ForceNew
  <2>3. PlanTyped(k)
    BY <1>0, <2>2, PlannedTyped DEF KindInv
  <2>4. c \in MappingConfig /\ c \in Complete(Config[k])
    BY <2>3, KindTypes, CompleteOthers DEF PlanTyped
  <2> HIDE DEF c, s
  <2>5. row.options \in Options /\ s.options \in Options /\ c.options \in Options
    <3>1. row \in Row[k]
      BY <1>0, <2>1, <2>4 DEF Typed, MappingConfig
    <3> QED  BY <2>2, <2>4, <3>1, KindTypes DEF MappingConfig
  <2> HIDE DEF row
  <2>6. new \in Row[k] /\ c # Absent
    BY <1>0, <2>4, <2>5, OptionsTyped, KindTypes, NotAbsent
  <2> HIDE DEF new
  <2>7. Leaves(k)
    BY <1>0, <2>1, <2>4, <2>6, PutTyped DEF Leaves
  <2>8. \A x : (Knows(k, x) <=> c.name = x) /\ (Knows(k, x)' <=> c.name = x)
    BY <1>0, <2>1, <2>2, <2>6, KnowsAfter DEF s
  <2>9. Tracks(k)
    BY <1>0, <2>1, <2>8, PutFacts DEF Tracks
  <2> QED  BY <2>7, <2>9
<1>3. CASE DeleteMapping /\ ~FailsOnly(k)
  <2>1. /\ pc[k] = "delete" /\ Forget(k) /\ catalog' = Put(k, s.name, Absent)
        /\ UNCHANGED <<missing, inputs, halfDone, failures>>
    BY <1>3 DEF DeleteMapping, Try, FailsOnly, Turn
  <2>2. Typed(catalog') /\ Tracks(k)
    BY <1>0, <2>1, DropTracks DEF KindInv
  <2> QED  BY <2>1, <2>2 DEF Leaves
<1> QED  BY <1>1, <1>2, <1>3

\* The operations of functions.
LEMMA FunctionDone ==
    ASSUME Shape, Typed(catalog), KindInv("function"),
           CreateFunction \/ UpdateFunction \/ DeleteFunction
    PROVE  FailsOnly("function") \/ (Leaves("function") /\ Tracks("function"))
<1> DEFINE k == "function"
           s == state["function"]
           c == Planned("function")
<1>0. Rows(catalog) /\ k \in Kinds
  BY DEF Shape, Rows, Kinds
<1>1. ASSUME config[k] # Absent
      PROVE  c \in FunctionConfig /\ c \in Complete(Config[k]) /\ Definition(c) \in Row[k] /\ c # Absent
  <2>1. PlanTyped(k)
    BY <1>0, <1>1, PlannedTyped DEF KindInv
  <2>2. c \in FunctionConfig /\ c \in Complete(Config[k])
    BY <2>1, KindTypes, CompleteOthers DEF PlanTyped
  <2> HIDE DEF c
  <2> QED  BY <1>0, <2>2, KindTypes, NotAbsent DEF FunctionConfig, Definition
<1>2. CASE CreateFunction /\ ~FailsOnly(k)
  <2>1. /\ pc[k] = "create" /\ Record(k, c) /\ catalog' = Put(k, c.name, Definition(c))
        /\ UNCHANGED <<missing, inputs, halfDone, failures>>
    BY <1>2 DEF CreateFunction, Try, FailsOnly, Turn
  <2>2. config[k] # Absent /\ s = Absent /\ At(k)
    BY <2>1 DEF KindInv, At
  <2> HIDE DEF c
  <2>3. Leaves(k)
    BY <1>0, <1>1, <2>1, <2>2, PutTyped DEF Leaves
  <2>4. Tracks(k)
    BY <1>0, <1>1, <2>1, <2>2, PutFacts, KnowsAfter DEF Tracks
  <2> QED  BY <2>3, <2>4
<1>3. CASE UpdateFunction /\ ~FailsOnly(k)
  <2>1. /\ pc[k] = "update" /\ Record(k, c) /\ catalog' = Put(k, c.name, Definition(c))
        /\ UNCHANGED <<missing, inputs, halfDone, failures>>
    BY <1>3 DEF UpdateFunction, Try, FailsOnly, Turn
  <2>2. config[k] # Absent /\ s # Absent /\ At(k) /\ c.name = s.name
    BY <2>1, KindTypes DEF KindInv, At, ForceNew
  <2> HIDE DEF c, s
  <2>3. Leaves(k)
    BY <1>0, <1>1, <2>1, <2>2, PutTyped DEF Leaves
  <2>4. \A x : (Knows(k, x) <=> c.name = x) /\ (Knows(k, x)' <=> c.name = x)
    BY <1>0, <1>1, <2>1, <2>2, KnowsAfter DEF s
  <2>5. Tracks(k)
    BY <1>0, <2>1, <2>4, PutFacts DEF Tracks
  <2> QED  BY <2>3, <2>5
<1>4. CASE DeleteFunction /\ ~FailsOnly(k)
  <2>1. /\ pc[k] = "delete" /\ Forget(k) /\ catalog' = Without(Doomed(<<k, s.name>>))
        /\ UNCHANGED <<missing, inputs, halfDone, failures>>
    BY <1>4 DEF DeleteFunction, Try, FailsOnly, Turn
  <2>2. Typed(catalog') /\ Tracks(k)
    BY <1>0, <2>1, DropTracks DEF KindInv
  <2> QED  BY <2>1, <2>2 DEF Leaves
<1> QED  BY <1>2, <1>3, <1>4

\* The operations of servers, whose mapping goes with the name.
LEMMA ServerDone ==
    ASSUME Shape, Typed(catalog), KindInv("server"),
           CreateServer \/ UpdateServer \/ DeleteServer
    PROVE  \/ FailsOnly("server")
           \/ /\ Leaves("server")
              /\ \/ Tracks("server")
                 \/ /\ Turn("server", "update")
                    /\ Planned("server").name # state["server"].name
                    /\ catalog["mapping"][state["server"].name] # Absent
<1> DEFINE k == "server"
           s == state["server"]
           c == Planned("server")
<1>0. Rows(catalog) /\ k \in Kinds
  BY DEF Shape, Rows, Kinds
<1>1. CASE CreateServer /\ ~FailsOnly(k)
  <2> DEFINE new == [fdw |-> c.fdw, version |-> c.version, owner |-> Told(c.owner, Me),
                     options |-> c.options]
             inst == WithOwner(c)
  <2>1. /\ pc[k] = "create" /\ Record(k, inst) /\ catalog' = Put(k, c.name, new)
        /\ UNCHANGED <<missing, inputs, halfDone, failures>>
    BY <1>1 DEF CreateServer, Try, FailsOnly, Turn
  <2>2. config[k] # Absent /\ s = Absent /\ At(k)
    BY <2>1 DEF KindInv, At
  <2>3. PlanTyped(k)
    BY <1>0, <2>2, PlannedTyped
  <2>4. c \in ServerConfig
    BY <2>3, KindTypes DEF PlanTyped
  <2> HIDE DEF c
  <2>5. Told(c.owner, Me) \in Roles
    BY <2>4, CatalogAssumption DEF ServerConfig, Told
  <2>6. new \in Row[k]
    BY <2>4, <2>5, KindTypes DEF ServerConfig
  <2>7. inst \in ServerConfig /\ inst.owner \in Roles /\ inst.name = c.name
    BY <2>4, <2>5 DEF ServerConfig, WithOwner
  <2> HIDE DEF new, inst
  <2>8. inst \in Complete(Config[k]) /\ inst # Absent
    BY <1>0, <2>7, CompleteServer, KindTypes, NotAbsent
  <2>9. Leaves(k)
    BY <1>0, <2>1, <2>6, <2>8, PutTyped DEF Leaves
  <2>10. Tracks(k)
    BY <1>0, <2>1, <2>2, <2>7, <2>8, PutFacts, KnowsAfter DEF Tracks
  <2> QED  BY <2>9, <2>10
<1>2. CASE UpdateServer /\ ~FailsOnly(k)
  <2> DEFINE row == catalog["server"][s.name]
             idle == [c EXCEPT !.cascade = s.cascade] = s
             new == [fdw |-> row.fdw,
                     version |-> IF c.version # s.version THEN c.version ELSE row.version,
                     owner |-> IF c.owner # s.owner THEN c.owner ELSE row.owner,
                     options |-> IF c.options # s.options
                                 THEN NewOptions(s.options, c.options, row.options)
                                 ELSE row.options]
  <2>1. /\ pc[k] = "update" /\ Turn(k, "update") /\ Record(k, c)
        /\ idle \/ row # Absent
        /\ catalog' = IF idle THEN catalog ELSE Renamed(k, s.name, c.name, new)
        /\ UNCHANGED <<missing, inputs, halfDone, failures>>
    BY <1>2 DEF UpdateServer, Try, FailsOnly, Turn
  <2>2. config[k] # Absent /\ s # Absent /\ At(k) /\ s \in Complete(ServerConfig)
    BY <2>1, KindTypes DEF KindInv, At
  <2>3. PlanTyped(k)
    BY <1>0, <2>2, PlannedTyped DEF KindInv
  <2>4. c \in Complete(ServerConfig) /\ c \in ServerConfig /\ s \in ServerConfig
    BY <2>2, <2>3, KindTypes DEF PlanTyped, Complete
  <2>5. c # Absent
    BY <1>0, <2>4, KindTypes, NotAbsent
  <2> HIDE DEF c, s
  <2>6. /\ c.name \in Names /\ c.owner \in Roles /\ c.version \in Versions /\ c.options \in Options
        /\ s.name \in Names /\ s.options \in Options
    BY <2>4, CompleteServer DEF ServerConfig
  <2>7. row \in Row[k] \cup {Absent}
    BY <1>0, <2>6 DEF Typed
  <2> HIDE DEF row
  <2>8. row # Absent => new \in Row[k]
    <3>1. row # Absent => /\ row.fdw \in Names /\ row.owner \in Roles /\ row.version \in Versions
                          /\ row.options \in Options
      BY <2>7, KindTypes
    <3>2. row # Absent => NewOptions(s.options, c.options, row.options) \in Options
      BY <2>6, <3>1, OptionsTyped
    <3> QED  BY <2>6, <3>1, <3>2, KindTypes
  <2>9. idle => c.name = s.name
    BY <2>4 DEF ServerConfig
  <2> HIDE DEF new, idle
  <2>10. Leaves(k)
    BY <1>0, <2>1, <2>2, <2>4, <2>6, <2>8, RenamedTyped, KindTypes DEF Leaves
  <2>11. ASSUME c.name = s.name \/ catalog["mapping"][s.name] = Absent
         PROVE  Tracks(k)
    <3>1. \A x : (Knows(k, x) <=> s.name = x) /\ (Knows(k, x)' <=> c.name = x)
      BY <1>0, <2>1, <2>2, <2>5, KnowsAfter DEF s
    <3>2. CASE idle
      BY <2>1, <2>9, <3>1, <3>2 DEF Tracks
    <3>3. CASE ~idle
      <4>1. IsRenamed(catalog', k, s.name, c.name, new)
        BY <1>0, <2>1, <3>3, RenamedFacts
      <4>2. \A x \in Names : catalog'["extension"][x] # Absent => catalog["extension"][x] # Absent
        BY <4>1 DEF IsRenamed, DependsOn
      <4>3. \A x \in Names : catalog'["mapping"][x] # Absent => catalog["mapping"][x] # Absent
        <5>1. \A x \in Names : catalog'["mapping"][x] =
                IF x = c.name THEN catalog["mapping"][s.name]
                ELSE IF x = s.name THEN Absent ELSE catalog["mapping"][x]
          BY <4>1, Zenon DEF IsRenamed
        <5> QED  BY <2>6, <2>11, <5>1
      <4>4. \A j \in Kinds \ {k}, x \in Names : catalog'[j][x] # Absent => catalog[j][x] # Absent
        BY <4>1, <4>2, <4>3 DEF IsRenamed
      <4>5. \A x \in Names : x # c.name =>
            catalog'[k][x] = IF x = s.name THEN Absent ELSE catalog[k][x]
        BY <4>1 DEF IsRenamed
      <4> QED  BY <3>1, <4>4, <4>5 DEF Tracks
    <3> QED  BY <3>2, <3>3
  <2> QED  BY <2>1, <2>10, <2>11 DEF c, s
<1>3. CASE DeleteServer /\ ~FailsOnly(k)
  <2>1. /\ pc[k] = "delete" /\ Forget(k) /\ catalog' = Without(Doomed(<<k, s.name>>))
        /\ UNCHANGED <<missing, inputs, halfDone, failures>>
    BY <1>3 DEF DeleteServer, Try, FailsOnly, Turn
  <2>2. Typed(catalog') /\ Tracks(k)
    BY <1>0, <2>1, DropTracks DEF KindInv
  <2> QED  BY <2>1, <2>2 DEF Leaves
<1> QED  BY <1>1, <1>2, <1>3

\* A publication with another owner, other tables and parameters.
LEMMA PublicationRow ==
    ASSUME NEW row \in Row["publication"], NEW owner \in Roles, NEW tables \in SUBSET Tables,
           NEW params \in SUBSET Operations
    PROVE  [row EXCEPT !.owner = owner, !.tables = tables, !.params = params] \in Row["publication"]
<1> DEFINE R == [owner : Roles, tables : SUBSET Tables, all : BOOLEAN, params : SUBSET Operations]
<1>0. Row["publication"] = R
  BY KindTypes
<1>1. [row EXCEPT !.owner = owner] \in R
  BY <1>0
<1>2. ASSUME NEW r \in R PROVE [r EXCEPT !.tables = tables] \in R
  OBVIOUS
<1>3. ASSUME NEW r \in R PROVE [r EXCEPT !.params = params] \in R
  OBVIOUS
<1> HIDE DEF R
<1> QED  BY <1>0, <1>1, <1>2, <1>3

\* The operations of publications: a new name comes with nothing else that is new.
LEMMA PublicationDone ==
    ASSUME Shape, Typed(catalog), KindInv("publication"),
           CreatePublication \/ UpdatePublication \/ DeletePublication
    PROVE  FailsOnly("publication") \/ (Leaves("publication") /\ Tracks("publication"))
<1> DEFINE k == "publication"
           s == state["publication"]
           c == Planned("publication")
<1>0. Rows(catalog) /\ k \in Kinds
  BY DEF Shape, Rows, Kinds
<1>1. CASE CreatePublication /\ ~FailsOnly(k)
  <2> DEFINE new == [owner |-> Told(c.owner, Me), tables |-> Told(c.tables, {}),
                     all |-> Told(c.all, FALSE), params |-> Told(c.params, Operations)]
  <2>1. /\ pc[k] = "create" /\ Continue(k, "readBack") /\ catalog' = Put(k, c.name, new)
        /\ UNCHANGED <<missing, inputs, halfDone, failures>>
    BY <1>1 DEF CreatePublication, Try, FailsOnly, Turn
  <2>2. config[k] # Absent /\ s = Absent /\ At(k)
    BY <2>1 DEF KindInv, At
  <2>3. PlanTyped(k)
    BY <1>0, <2>2, PlannedTyped
  <2>4. c \in PublicationConfig /\ c.name = config[k].name
    BY <2>3, KindTypes DEF PlanTyped
  <2> HIDE DEF c
  <2>5. new \in Row[k]
    <3>1. Told(c.owner, Me) \in Roles
      BY <2>4, CatalogAssumption DEF PublicationConfig, Told
    <3>2. Told(c.tables, {}) \in SUBSET Tables
      BY <2>4 DEF PublicationConfig, Told
    <3>3. Told(c.all, FALSE) \in BOOLEAN
      <4>1. c.all \in BOOLEAN \cup {Unset}
        BY <2>4, Zenon DEF PublicationConfig
      <4> QED  BY <4>1, Zenon DEF Told
    <3>4. Told(c.params, Operations) \in SUBSET Operations
      BY <2>4 DEF PublicationConfig, Told
    <3> QED  BY <3>1, <3>2, <3>3, <3>4, KindTypes
  <2> HIDE DEF new
  <2>6. Leaves(k)
    BY <1>0, <2>1, <2>2, <2>5, PutTyped DEF Leaves
  <2>7. Tracks(k)
    BY <1>0, <2>1, <2>2, <2>4, PutFacts, KnowsAfter DEF Tracks
  <2> QED  BY <2>6, <2>7
<1>2. CASE UpdatePublication /\ ~FailsOnly(k)
  <2> DEFINE changes == Changes(s, c)
             row == catalog["publication"][IF changes = {} THEN s.name ELSE c.name]
             renamed == c.name # s.name
             new == [row EXCEPT !.owner = IF "owner" \in changes THEN c.owner ELSE @,
                                !.tables = IF "tables" \in changes
                                           THEN NewTables(@, s.tables, c.tables) ELSE @,
                                !.params = IF "params" \in changes THEN c.params ELSE @]
  <2>1. /\ pc[k] = "update" /\ Continue(k, "readBack")
        /\ changes # {} => row # Absent
        /\ renamed => row # Absent /\ catalog["publication"][c.name] = Absent
        /\ catalog' = IF changes = {} /\ ~renamed THEN catalog ELSE Renamed(k, s.name, c.name, new)
        /\ UNCHANGED <<missing, inputs, halfDone, failures>>
    BY <1>2 DEF UpdatePublication, Try, FailsOnly, Turn
  <2>2. /\ config[k] # Absent /\ s # Absent /\ At(k) /\ s \in Complete(PublicationConfig)
    BY <2>1, KindTypes DEF KindInv, At
  <2>3. PlanTyped(k)
    BY <1>0, <2>2, PlannedTyped DEF KindInv
  <2>4. /\ c \in Complete(PublicationConfig) /\ c \in PublicationConfig /\ c.name = config[k].name
        /\ s \in PublicationConfig
    BY <2>2, <2>3, KindTypes DEF PlanTyped, Complete
  <2> HIDE DEF c, s, changes
  <2>5. /\ c.name \in Names /\ s.name \in Names /\ c.owner \in Roles
        /\ c.tables \in SUBSET Tables /\ c.params \in SUBSET Operations
    BY <2>4, CompletePublication DEF PublicationConfig
  <2>6. row \in Row[k] \cup {Absent}
    BY <1>0, <2>5 DEF Typed
  <2>7. renamed \/ changes # {} => row # Absent
    BY <2>1
  <2> HIDE DEF row
  <2>8. row # Absent => new \in Row[k]
    <3>1. SUFFICES ASSUME row # Absent PROVE new \in Row[k]
      OBVIOUS
    <3>2. row \in Row[k] /\ row.tables \in SUBSET Tables /\ row.params \in SUBSET Operations
          /\ row.owner \in Roles
      BY <2>6, <3>1, KindTypes
    <3> DEFINE owner == IF "owner" \in changes THEN c.owner ELSE row.owner
               tables == IF "tables" \in changes
                         THEN NewTables(row.tables, s.tables, c.tables) ELSE row.tables
               params == IF "params" \in changes THEN c.params ELSE row.params
    <3>3. owner \in Roles /\ tables \in SUBSET Tables /\ params \in SUBSET Operations
      BY <2>5, <3>2 DEF NewTables
    <3>4. row \in [owner : Roles, tables : SUBSET Tables, all : BOOLEAN, params : SUBSET Operations]
      BY <3>2, KindTypes
    <3>5. new = [row EXCEPT !.owner = owner, !.tables = tables, !.params = params]
      BY <3>4
    <3> HIDE DEF new, owner, tables, params
    <3> QED  BY <3>2, <3>3, <3>5, PublicationRow
  <2> HIDE DEF new, renamed
  <2>9. Leaves(k)
    BY <1>0, <2>1, <2>2, <2>5, <2>7, <2>8, RenamedTyped DEF Leaves
  <2>10. \A x : (Knows(k, x) <=> s.name = x) /\ (Knows(k, x)' <=> c.name = x)
    BY <1>0, <2>1, <2>2, <2>4, KnowsAfter DEF s
  <2>11. Tracks(k)
    <3>1. CASE changes = {} /\ ~renamed
      BY <2>1, <2>10, <3>1 DEF Tracks, renamed
    <3>2. CASE ~(changes = {} /\ ~renamed)
      <4>1. IsRenamed(catalog', k, s.name, c.name, new)
        BY <1>0, <2>1, <3>2, RenamedFacts
      <4>2. \A x \in Names : catalog'["extension"][x] # Absent => catalog["extension"][x] # Absent
        BY <4>1 DEF IsRenamed, DependsOn
      <4>3. \A j \in Kinds \ {k}, x \in Names : catalog'[j][x] # Absent => catalog[j][x] # Absent
        BY <4>1, <4>2 DEF IsRenamed
      <4>4. \A x \in Names : x # c.name =>
            catalog'[k][x] = IF x = s.name THEN Absent ELSE catalog[k][x]
        BY <4>1 DEF IsRenamed
      <4> QED  BY <2>10, <4>3, <4>4 DEF Tracks
    <3> QED  BY <3>1, <3>2
  <2> QED  BY <2>9, <2>11
<1>3. CASE DeletePublication /\ ~FailsOnly(k)
  <2>1. /\ pc[k] = "delete" /\ Forget(k) /\ catalog' = Put(k, s.name, Absent)
        /\ UNCHANGED <<missing, inputs, halfDone, failures>>
    BY <1>3 DEF DeletePublication, Try, FailsOnly, Turn
  <2>2. Typed(catalog') /\ Tracks(k)
    BY <1>0, <2>1, DropTracks DEF KindInv
  <2> QED  BY <2>1, <2>2 DEF Leaves
<1> QED  BY <1>1, <1>2, <1>3

\* The operations of replication slots.
LEMMA SlotDone ==
    ASSUME Shape, Typed(catalog), KindInv("slot"), CreateSlot \/ DeleteSlot
    PROVE  \/ FailsOnly("slot") /\ pc["slot"] # "readBack"
           \/ /\ Leaves("slot") /\ Tracks("slot")
              /\ \A x \in Names : catalog'["subscription"][x] = catalog["subscription"][x]
<1> DEFINE k == "slot"
           s == state["slot"]
           c == Planned("slot")
           new == [plugin |-> c.plugin]
<1>0. Rows(catalog) /\ k \in Kinds /\ "subscription" \in Kinds
  BY DEF Shape, Rows, Kinds
<1>1. CASE CreateSlot /\ ~FailsOnly(k)
  <2>1. /\ pc[k] = "create" /\ Record(k, c) /\ catalog' = Put(k, c.name, new)
        /\ UNCHANGED <<missing, inputs, halfDone, failures>>
    BY <1>1 DEF CreateSlot, Try, FailsOnly, Turn
  <2>2. config[k] # Absent /\ s = Absent /\ At(k)
    BY <2>1 DEF KindInv, At
  <2>3. PlanTyped(k)
    BY <1>0, <2>2, PlannedTyped
  <2>4. c \in SlotConfig /\ c \in Complete(Config[k])
    BY <2>3, KindTypes, CompleteOthers DEF PlanTyped
  <2> HIDE DEF c
  <2>5. new \in Row[k] /\ c # Absent
    BY <1>0, <2>4, KindTypes, NotAbsent DEF SlotConfig
  <2> HIDE DEF new
  <2>6. Leaves(k)
    BY <1>0, <2>1, <2>4, <2>5, PutTyped DEF Leaves
  <2>7. Tracks(k)
    BY <1>0, <2>1, <2>2, <2>5, PutFacts, KnowsAfter DEF Tracks
  <2> QED  BY <1>0, <2>1, <2>6, <2>7, PutFacts
<1>2. CASE DeleteSlot /\ ~FailsOnly(k)
  <2>1. /\ pc[k] = "delete" /\ Forget(k) /\ catalog' = Put(k, s.name, Absent)
        /\ UNCHANGED <<missing, inputs, halfDone, failures>>
    BY <1>2 DEF DeleteSlot, Try, FailsOnly, Turn
  <2>2. Typed(catalog') /\ Tracks(k)
    BY <1>0, <2>1, DropTracks DEF KindInv
  <2>3. Leaves(k)
    BY <2>1, <2>2 DEF Leaves
  <2> QED  BY <1>0, <2>1, <2>2, <2>3, PutFacts
<1>3. FailsOnly(k) => pc[k] # "readBack"
  BY DEF CreateSlot, DeleteSlot, Turn
<1> QED  BY <1>1, <1>2, <1>3

\* Which configuration says who makes the slot of the subscription that is known.
CreatesSlot ==
    IF pc["subscription"] = "readBack" THEN config["subscription"].createSlot
    ELSE state["subscription"].createSlot

\* A subscription has the slot, and if it is known it has made it.
HasSlot(x) ==
    \E y \in Names : /\ catalog["subscription"][y] # Absent
                     /\ catalog["subscription"][y].slot = x
                     /\ Knows("subscription", y) => CreatesSlot

\* A slot that is there was before without the subscriptions, or has one now.
SlotsTracked ==
    \A x \in Names : catalog'["slot"][x] # Absent =>
        (catalog["slot"][x] # Absent /\ ~HasSlot(x)) \/ HasSlot(x)'

\* What a step does to subscriptions and slots, object by object.
Exchanged(n, row, z, v) ==
    /\ \A x \in Names :
         /\ catalog'["subscription"][x] = IF x = n THEN row ELSE catalog["subscription"][x]
         /\ catalog'["slot"][x] = IF x = z THEN v ELSE catalog["slot"][x]
         /\ \A j \in Kinds \ Replicated : catalog'[j][x] = catalog[j][x]

\* A subscription and a slot change together.
LEMMA BothExchanged ==
    ASSUME Rows(catalog), NEW n, NEW row, NEW z, NEW v,
           catalog' = [Put("subscription", n, row) EXCEPT !.slot[z] = v]
    PROVE  Exchanged(n, row, z, v)
<1> DEFINE put == Put("subscription", n, row)
           cat == [put EXCEPT !.slot[z] = v]
<1>0. {"slot", "subscription"} \subseteq Kinds
  BY Types
<1>1. /\ Rows(put)
      /\ \A x \in Names : put["subscription"][x] = IF x = n THEN row ELSE catalog["subscription"][x]
      /\ \A j \in Kinds \ {"subscription"}, x \in Names : put[j][x] = catalog[j][x]
  BY <1>0, PutFacts
<1> HIDE DEF put
<1>2. /\ \A x \in Names : cat["slot"][x] = IF x = z THEN v ELSE put["slot"][x]
      /\ \A j \in Kinds \ {"slot"}, x \in Names : cat[j][x] = put[j][x]
  BY <1>0, <1>1 DEF Rows
<1>3. catalog' = cat
  BY DEF put
<1> HIDE DEF cat
<1>4. \A x \in Names : cat["subscription"][x] = IF x = n THEN row ELSE catalog["subscription"][x]
  BY <1>0, <1>1, <1>2
<1>5. \A x \in Names : cat["slot"][x] = IF x = z THEN v ELSE catalog["slot"][x]
  BY <1>0, <1>1, <1>2
<1>6. \A x \in Names, j \in Kinds \ Replicated : cat[j][x] = catalog[j][x]
  BY <1>1, <1>2 DEF Replicated
<1> QED  BY <1>3, <1>4, <1>5, <1>6 DEF Exchanged

\* It leaves rows.
LEMMA ExchangedTyped ==
    ASSUME Typed(catalog), NEW n, NEW row \in SubscriptionRow \cup {Absent}, NEW z,
           NEW v \in Row["slot"] \cup {Absent}, Exchanged(n, row, z, v)
    PROVE  Typed(catalog')
<1>1. ASSUME NEW j \in Kinds, NEW x \in Names PROVE catalog'[j][x] \in Row[j] \cup {Absent}
  <2>1. catalog[j][x] \in Row[j] \cup {Absent}
    BY DEF Typed
  <2>2. j \in Kinds \ Replicated \/ j = "slot" \/ j = "subscription"
    BY DEF Replicated
  <2>3. CASE j \in Kinds \ Replicated
    BY <2>1, <2>3 DEF Exchanged
  <2>4. CASE j = "slot"
    <3>1. catalog'[j][x] = (IF x = z THEN v ELSE catalog[j][x])
      BY <2>4 DEF Exchanged
    <3> QED  BY <2>1, <2>4, <3>1
  <2>5. CASE j = "subscription"
    <3>1. catalog'[j][x] = (IF x = n THEN row ELSE catalog[j][x])
      BY <2>5 DEF Exchanged
    <3> QED  BY <2>1, <2>5, <3>1, KindTypes
  <2> QED  BY <2>2, <2>3, <2>4, <2>5
<1> QED  BY <1>1 DEF Typed

\* Without the slot it is only about the subscription.
LEMMA OnlyExchanged ==
    ASSUME Rows(catalog), NEW n, NEW row, catalog' = Put("subscription", n, row)
    PROVE  Exchanged(n, row, Absent, Absent)
<1>1. \A x \in Names : x # Absent
  BY CatalogAssumption
<1>2. {"slot", "subscription"} \subseteq Kinds
  BY Types
<1> QED  BY <1>1, <1>2, PutFacts DEF Exchanged, Replicated

\* The operations of subscriptions: the slots with their types.
LEMMA SubscriptionDone ==
    ASSUME IInv, Typed(catalog), KindInv("subscription"),
           CreateSubscription \/ DisableSubscription \/ UnsetSlot \/ DropSubscription
    PROVE  \/ FailsOnly("subscription") /\ pc["subscription"] # "readBack"
           \/ /\ Leaves("subscription")
              /\ \A j \in Kinds \ Replicated, x \in Names : catalog'[j][x] = catalog[j][x]
              /\ \A x \in Names : catalog'["subscription"][x] # Absent =>
                   (catalog["subscription"][x] # Absent /\ ~Knows("subscription", x))
                     \/ Knows("subscription", x)'
              /\ SlotsTracked
              /\ pc'["subscription"] = "readBack" => state'["subscription"] = Absent
<1> DEFINE k == "subscription"
           s == state["subscription"]
           c == Planned("subscription")
<1>0. Rows(catalog) /\ k \in Kinds /\ Shape
  BY DEF IInv, Shape, Rows, Kinds
<1>1. CASE CreateSubscription /\ ~FailsOnly(k)
  <2> DEFINE row == [conn |-> c.conn, enabled |-> TRUE, slot |-> c.slot]
             made == Put("subscription", c.name, row)
             with == [made EXCEPT !.slot[c.slot] = [plugin |-> "a"]]
  <2>1. /\ pc[k] = "create" /\ Continue(k, "readBack")
        /\ catalog["subscription"][c.name] = Absent
        /\ catalog' = IF c.createSlot THEN with ELSE made
        /\ UNCHANGED <<missing, inputs, halfDone, failures>>
    BY <1>1 DEF CreateSubscription, Try, FailsOnly, Turn
  <2>2. config[k] # Absent /\ s = Absent /\ At(k)
    BY <2>1 DEF KindInv, At
  <2>3. PlanTyped(k)
    BY <1>0, <2>2, PlannedTyped
  <2>4. c \in SubscriptionConfig /\ c.name = config[k].name
    BY <2>3, KindTypes DEF PlanTyped
  <2>5. c.createSlot = config[k].createSlot
    <3>1. config[k] \in SubscriptionConfig
      BY <1>0, <2>2, Configured
    <3>2. "createSlot" \in DOMAIN config[k]
      BY <3>1 DEF SubscriptionConfig
    <3> QED  BY <2>2, <3>2, PlannedAttributes
  <2> HIDE DEF c
  <2>6. row \in SubscriptionRow
    BY <2>4 DEF SubscriptionConfig, SubscriptionRow
  <2> DEFINE z == IF c.createSlot THEN c.slot ELSE Absent
             v == IF c.createSlot THEN [plugin |-> "a"] ELSE Absent
  <2>7. Exchanged(c.name, row, z, v)
    <3>1. CASE c.createSlot
      <4> HIDE DEF row
      <4> QED  BY <1>0, <2>1, <3>1, BothExchanged
    <3>2. CASE ~c.createSlot
      BY <1>0, <2>1, <3>2, OnlyExchanged
    <3> QED  BY <3>1, <3>2
  <2>8. v \in Row["slot"] \cup {Absent}
    BY KindTypes
  <2>9. Typed(catalog')
    BY <2>6, <2>7, <2>8, ExchangedTyped
  <2>10. Leaves(k)
    BY <2>1, <2>2, <2>9 DEF Leaves
  <2>11. \A x : ~Knows(k, x) /\ (Knows(k, x)' <=> c.name = x)
    BY <1>0, <2>1, <2>2, <2>4, KnowsAfter
  <2>12. c.createSlot => CreatesSlot'
    BY <1>0, <2>1, <2>5 DEF CreatesSlot, Continue, Shape, inputs
  <2> HIDE DEF with, made
  <2>13. SlotsTracked
    <3>1. ASSUME NEW x \in Names, catalog'["slot"][x] # Absent
          PROVE  (catalog["slot"][x] # Absent /\ ~HasSlot(x)) \/ HasSlot(x)'
      <4>1. CASE c.createSlot /\ x = c.slot
        <5>1. /\ catalog'["subscription"][c.name] = row /\ c.name \in Names /\ row # Absent
              /\ row.slot = x /\ CreatesSlot'
          <6>1. row # Absent
            BY <1>0, <2>6, KindTypes, NotAbsent
          <6> QED  BY <2>4, <2>7, <2>12, <4>1, <6>1 DEF Exchanged, SubscriptionConfig
        <5> HIDE DEF row
        <5> QED  BY <5>1 DEF HasSlot
      <4>2. CASE ~(c.createSlot /\ x = c.slot)
        <5>1. catalog'["slot"][x] = catalog["slot"][x]
          <6>1. x # Absent
            BY CatalogAssumption
          <6> QED  BY <2>7, <4>2, <6>1 DEF Exchanged
        <5>2. HasSlot(x) => HasSlot(x)'
          <6>1. SUFFICES ASSUME NEW y \in Names, catalog["subscription"][y] # Absent,
                                catalog["subscription"][y].slot = x
                         PROVE  HasSlot(x)'
            BY DEF HasSlot
          <6>2. y # c.name
            BY <2>1, <6>1
          <6>3. catalog'["subscription"][y] = catalog["subscription"][y] /\ ~Knows(k, y)'
            BY <2>7, <2>11, <6>2 DEF Exchanged
          <6> QED  BY <6>1, <6>3 DEF HasSlot
        <5> QED  BY <3>1, <5>1, <5>2
      <4> QED  BY <4>1, <4>2
    <3> QED  BY <3>1 DEF SlotsTracked
  <2>14. /\ \A j \in Kinds \ Replicated, x \in Names : catalog'[j][x] = catalog[j][x]
         /\ \A x \in Names : catalog'[k][x] # Absent =>
              (catalog[k][x] # Absent /\ ~Knows(k, x)) \/ Knows(k, x)'
    BY <2>7, <2>11 DEF Exchanged
  <2> QED  BY <2>1, <2>2, <2>10, <2>13, <2>14 DEF Continue
<1>2. CASE (DisableSubscription \/ UnsetSlot) /\ ~FailsOnly(k)
  <2> DEFINE old == catalog["subscription"][s.name]
             row == IF pc[k] = "delete" THEN [old EXCEPT !.enabled = FALSE]
                    ELSE [old EXCEPT !.slot = Absent]
  <2>1. /\ pc[k] \in {"delete", "unset"} /\ old # Absent
        /\ \E step \in {"unset", "drop"} : Continue(k, step)
        /\ catalog' = Put(k, s.name, row)
        /\ UNCHANGED <<missing, inputs, halfDone, failures>>
    BY <1>2 DEF DisableSubscription, UnsetSlot, Try, FailsOnly, Turn, Subscribed, SetSubscription
  <2>2. s # Absent /\ At(k) /\ s \in SubscriptionConfig
    BY <2>1, KindTypes, CompleteOthers DEF KindInv, At
  <2>3. old \in SubscriptionRow
    BY <1>0, <2>1, <2>2, KindTypes DEF Typed, SubscriptionConfig
  <2> HIDE DEF old
  <2>4. /\ row \in SubscriptionRow
        /\ row.slot = old.slot \/ (pc[k] = "unset" /\ row.slot = Absent)
    <3>1. CASE pc[k] = "delete"
      BY <2>3, <3>1 DEF SubscriptionRow
    <3>2. CASE pc[k] = "unset"
      BY <2>3, <3>2 DEF SubscriptionRow
    <3> QED  BY <2>1, <3>1, <3>2
  <2> HIDE DEF row
  <2>5. Exchanged(s.name, row, Absent, Absent)
    BY <1>0, <2>1, OnlyExchanged
  <2>6. Typed(catalog')
    BY <2>4, <2>5, ExchangedTyped
  <2>7. Leaves(k)
    BY <2>1, <2>2, <2>6 DEF Leaves
  <2>8. \A x : (Knows(k, x) <=> s.name = x) /\ (Knows(k, x)' <=> s.name = x)
    BY <1>0, <2>1, <2>2, KnowsAfter
  <2>9. CreatesSlot' = CreatesSlot /\ (pc[k] = "unset" => ~CreatesSlot)
    BY <1>0, <2>1, <2>2 DEF CreatesSlot, Continue, Shape, inputs, IInv, SlotsKnown
  <2>10. SlotsTracked
    <3>1. ASSUME NEW x \in Names, HasSlot(x) PROVE HasSlot(x)'
      <4>1. PICK y \in Names : /\ catalog["subscription"][y] # Absent
                               /\ catalog["subscription"][y].slot = x
                               /\ Knows(k, y) => CreatesSlot
        BY <3>1 DEF HasSlot
      <4>2. catalog'["subscription"][y] # Absent /\ catalog'["subscription"][y].slot = x
        <5>1. CASE y # s.name
          BY <2>5, <4>1, <5>1 DEF Exchanged
        <5>2. CASE y = s.name
          <6>1. pc[k] # "unset"
            BY <2>8, <2>9, <4>1, <5>2
          <6>2. row # Absent
            BY <1>0, <2>4, KindTypes, NotAbsent
          <6> QED  BY <2>4, <2>5, <4>1, <5>2, <6>1, <6>2 DEF Exchanged, old
        <5> QED  BY <5>1, <5>2
      <4> QED  BY <2>8, <2>9, <4>1, <4>2 DEF HasSlot
    <3>2. \A x \in Names : catalog'["slot"][x] = catalog["slot"][x]
      BY <2>5, CatalogAssumption DEF Exchanged
    <3> QED  BY <3>1, <3>2 DEF SlotsTracked
  <2>11. /\ \A j \in Kinds \ Replicated, x \in Names : catalog'[j][x] = catalog[j][x]
         /\ \A x \in Names : catalog'[k][x] # Absent =>
              (catalog[k][x] # Absent /\ ~Knows(k, x)) \/ Knows(k, x)'
    BY <2>5, <2>8 DEF Exchanged
  <2>12. pc'[k] # "readBack"
    BY <1>0, <2>1 DEF Continue, Shape
  <2> QED  BY <2>7, <2>10, <2>11, <2>12
<1>3. CASE DropSubscription /\ ~FailsOnly(k)
  <2> DEFINE n == s.name
             z == catalog["subscription"][n].slot
  <2>1. /\ pc[k] \in {"drop", "delete"} /\ Forget(k) /\ catalog' = SubscriptionGone(n)
        /\ UNCHANGED <<missing, inputs, halfDone, failures>>
    BY <1>3 DEF DropSubscription, Try, FailsOnly, Turn
  <2>2. s # Absent /\ At(k)
    BY <2>1 DEF KindInv, At
  <2>3. Exchanged(n, Absent, z, Absent)
    <3>1. CASE z = Absent
      BY <1>0, <2>1, <3>1, OnlyExchanged DEF SubscriptionGone
    <3>2. CASE z # Absent
      BY <1>0, <2>1, <3>2, BothExchanged DEF SubscriptionGone
    <3> QED  BY <3>1, <3>2
  <2>4. Typed(catalog')
    BY <2>3, ExchangedTyped
  <2>5. Leaves(k)
    BY <2>1, <2>4 DEF Leaves
  <2>6. \A x : (Knows(k, x) <=> n = x) /\ ~Knows(k, x)'
    BY <1>0, <2>1, <2>2, KnowsAfter
  <2> HIDE DEF n
  <2>7. SlotsTracked
    <3>1. ASSUME NEW x \in Names, catalog'["slot"][x] # Absent, HasSlot(x) PROVE HasSlot(x)'
      <4>1. PICK y \in Names : /\ catalog["subscription"][y] # Absent
                               /\ catalog["subscription"][y].slot = x
        BY <3>1 DEF HasSlot
      <4>2. y # n
        BY <2>3, <3>1, <4>1 DEF Exchanged
      <4>3. catalog'["subscription"][y] = catalog["subscription"][y]
        BY <2>3, <4>2 DEF Exchanged
      <4> QED  BY <2>6, <4>1, <4>3 DEF HasSlot
    <3>2. \A x \in Names : catalog'["slot"][x] # Absent => catalog["slot"][x] # Absent
      BY <2>3 DEF Exchanged
    <3> QED  BY <3>1, <3>2 DEF SlotsTracked
  <2>8. /\ \A j \in Kinds \ Replicated, x \in Names : catalog'[j][x] = catalog[j][x]
        /\ \A x \in Names : catalog'[k][x] # Absent =>
             (catalog[k][x] # Absent /\ ~Knows(k, x)) \/ Knows(k, x)'
    BY <2>3, <2>6 DEF Exchanged
  <2>9. pc'[k] # "readBack"
    BY <1>0, <2>1 DEF Forget, Shape
  <2> QED  BY <2>5, <2>7, <2>8, <2>9
<1>4. FailsOnly(k) => pc[k] # "readBack"
  BY DEF CreateSubscription, DisableSubscription, UnsetSlot, DropSubscription, Turn
<1> QED  BY <1>1, <1>2, <1>3, <1>4

-----------------------------------------------------------------------------
(* Types are kept. *)

\* The name is a name.
LEMMA NameTyped ==
    ASSUME NEW k \in Kinds, NEW c \in Config[k]
    PROVE  c.name \in Names
<1>1. CASE k = "schema"
  BY <1>1, KindTypes DEF SchemaConfig
<1>2. CASE k = "extension"
  BY <1>2, KindTypes DEF ExtensionConfig
<1>3. CASE k = "server"
  BY <1>3, KindTypes DEF ServerConfig
<1>4. CASE k = "mapping"
  BY <1>4, KindTypes DEF MappingConfig
<1>5. CASE k = "publication"
  BY <1>5, KindTypes DEF PublicationConfig
<1>6. CASE k = "subscription"
  BY <1>6, KindTypes DEF SubscriptionConfig
<1>7. CASE k = "slot"
  BY <1>7, KindTypes DEF SlotConfig
<1>8. CASE k = "function"
  BY <1>8, KindTypes DEF FunctionConfig
<1> QED  BY <1>1, <1>2, <1>3, <1>4, <1>5, <1>6, <1>7, <1>8 DEF Kinds

\* The catalog of a typed state.
LEMMA TypedCatalog ==
    /\ TypeOK => Typed(catalog)
    /\ \A k \in Kinds : TypesInv => KindInv(k)
BY DEF TypeOK, Typed, TypesInv, KindInv

\* An operation that fails leaves the types.
LEMMA FailTypes ==
    ASSUME TypesInv, Shape, NEW k \in Kinds, FailsOnly(k)
    PROVE  TypesInv'
<1>1. /\ UNCHANGED <<catalog, missing, inputs, state, tainted>>
      /\ pc' = [pc EXCEPT ![k] = "failed"] /\ halfDone' \subseteq halfDone \cup {k}
      /\ failures' \in Nat
  BY DEF FailsOnly, Fail, TypesInv, TypeOK
<1>2. \A j \in Kinds : pc'[j] = IF j = k THEN "failed" ELSE pc[j]
  BY <1>1 DEF Shape
<1>3. TypeOK'
  BY <1>1 DEF TypesInv, TypeOK, inputs, PC
<1>4. ASSUME NEW j \in Kinds PROVE At(j)'
  <2>1. Planned(j)' = Planned(j)
    BY <1>1 DEF Planned, inputs
  <2>2. At(j)
    BY DEF TypesInv
  <2> QED  BY <1>1, <1>2, <2>1, <2>2 DEF At, inputs
<1> QED  BY <1>3, <1>4 DEF TypesInv

\* So does one that succeeds,
LEMMA LeavesTypes ==
    ASSUME TypesInv, Shape, NEW k \in Kinds, Leaves(k)
    PROVE  TypesInv'
<1>1. /\ Typed(catalog') /\ UNCHANGED <<missing, inputs, halfDone, failures>>
      /\ tainted' \subseteq tainted \cup {k}
      /\ state'[k] = Absent \/ state'[k] \in Complete(Config[k])
      /\ pc'[k] \in {"over", "failed", "create", "readBack", "unset", "drop"}
      /\ pc'[k] = "create" => state'[k] = Absent /\ config[k] # Absent
      /\ pc'[k] = "readBack" => config[k] # Absent
      /\ pc'[k] \in {"unset", "drop"} => state'[k] # Absent
  <2>1. CASE \E inst \in Complete(Config[k]) : Record(k, inst)
    BY <2>1 DEF Leaves, Record, Shape
  <2>2. CASE Forget(k)
    BY <2>2 DEF Leaves, Forget, Shape
  <2>3. CASE Continue(k, "readBack") /\ config[k] # Absent
    BY <2>3 DEF Leaves, Continue, Shape, TypesInv, TypeOK
  <2>4. ASSUME NEW step \in {"unset", "drop"}, Continue(k, step), state[k] # Absent
        PROVE  /\ Typed(catalog') /\ UNCHANGED <<missing, inputs, halfDone, failures>>
               /\ state' = state /\ tainted' = tainted /\ pc'[k] = step
    BY <2>4 DEF Leaves, Continue, Shape
  <2> QED  BY <2>1, <2>2, <2>3, <2>4 DEF Leaves, TypesInv, TypeOK
<1>2. /\ \A j \in Kinds \ {k} : state'[j] = state[j] /\ pc'[j] = pc[j]
      /\ pc' = [j \in Kinds |-> pc'[j]]
  <2>1. Local(k)
    BY Results DEF Leaves
  <2> QED  BY <2>1 DEF Local
<1>3. TypeOK'
  <2>1. pc' \in [Kinds -> PC]
    <3>1. \A j \in Kinds : pc'[j] \in PC
      BY <1>1, <1>2 DEF TypesInv, TypeOK, PC
    <3> QED  BY <1>2, <3>1
  <2>2. \A j \in Kinds : state'[j] = Absent \/ state'[j] \in Complete(Config[j])
    BY <1>1, <1>2 DEF TypesInv, TypeOK
  <2> QED  BY <1>1, <2>1, <2>2 DEF TypesInv, TypeOK, Typed, inputs
<1>4. ASSUME NEW j \in Kinds PROVE At(j)'
  <2>1. CASE j = k
    BY <1>1, <2>1 DEF At, inputs
  <2>2. CASE j # k
    <3>1. state'[j] = state[j] /\ pc'[j] = pc[j] /\ config' = config
      BY <1>1, <1>2, <2>2 DEF inputs
    <3>2. Planned(j)' = Planned(j)
      BY <3>1 DEF Planned
    <3>3. At(j)
      BY DEF TypesInv
    <3> QED  BY <3>1, <3>2, <3>3 DEF At
  <2> QED  BY <2>1, <2>2
<1> QED  BY <1>3, <1>4 DEF TypesInv

\* the operations of all kinds,
LEMMA OperationTypes ==
    ASSUME IInv, TypesInv, SchemaStep \/ ForeignDataStep \/ ReplicationStep \/ FunctionStep
    PROVE  TypesInv'
<1>0. /\ Shape /\ Typed(catalog) /\ \A k \in Kinds : KindInv(k)
      /\ {"schema", "extension", "server", "mapping", "publication", "subscription", "slot",
          "function"} \subseteq Kinds
  BY TypedCatalog DEF IInv, TypesInv, Kinds
<1>1. CASE SchemaStep
  BY <1>0, <1>1, SchemaDone, FailTypes, LeavesTypes DEF SchemaStep
<1>2. CASE CreateExtension \/ UpdateExtension \/ DeleteExtension
  BY <1>0, <1>2, ExtensionDone, FailTypes, LeavesTypes
<1>3. CASE CreateServer \/ UpdateServer \/ DeleteServer
  BY <1>0, <1>3, ServerDone, FailTypes, LeavesTypes
<1>4. CASE CreateMapping \/ UpdateMapping \/ DeleteMapping
  BY <1>0, <1>4, MappingDone, FailTypes, LeavesTypes
<1>5. CASE CreatePublication \/ UpdatePublication \/ DeletePublication
  BY <1>0, <1>5, PublicationDone, FailTypes, LeavesTypes
<1>6. CASE CreateSubscription \/ DisableSubscription \/ UnsetSlot \/ DropSubscription
  BY <1>0, <1>6, SubscriptionDone, FailTypes, LeavesTypes
<1>7. CASE CreateSlot \/ DeleteSlot
  BY <1>0, <1>7, SlotDone, FailTypes, LeavesTypes
<1>8. CASE FunctionStep
  BY <1>0, <1>8, FunctionDone, FailTypes, LeavesTypes DEF FunctionStep
<1> QED  BY <1>1, <1>2, <1>3, <1>4, <1>5, <1>6, <1>7, <1>8 DEF ForeignDataStep, ReplicationStep

\* What a run begins with.
LEMMA ToDoAt ==
    ASSUME NEW k
    PROVE  /\ ToDo(k) \in {"over", "create", "update", "delete"}
           /\ ToDo(k) = "create" => state[k] = Absent /\ config[k] # Absent
           /\ ToDo(k) = "delete" => state[k] # Absent
           /\ ToDo(k) = "update" =>
                /\ state[k] # Absent /\ config[k] # Absent
                /\ \A f \in ForceNew[k] : Planned(k)[f] = state[k][f]
BY Zenon DEF ToDo

\* What is read is what there is.
LEMMA RefreshFacts ==
    ASSUME Shape, TypesInv, NEW k \in Kinds, Refresh(k)
    PROVE  /\ Local(k) /\ pc'[k] = "read" /\ tainted' \subseteq tainted
           /\ UNCHANGED <<catalog, missing, inputs, halfDone, failures>>
           /\ \/ /\ state'[k] = Absent
                 /\ state[k] # Absent => catalog[k][state[k].name] = Absent
              \/ /\ state[k] # Absent /\ state'[k] \in Complete(Config[k]) /\ state'[k] # Absent
                 /\ state'[k].name = state[k].name
                 /\ k = "schema" => state'[k].policies = state[k].policies
                 /\ k = "subscription" => state'[k].createSlot = state[k].createSlot
<1> DEFINE s == state[k]
           row == catalog[k][s.name]
<1>1. /\ Local(k) /\ pc'[k] = "read" /\ tainted' \subseteq tainted
      /\ UNCHANGED <<catalog, missing, inputs, halfDone, failures>>
      /\ state'[k] = IF s = Absent THEN Absent
                     ELSE IF row = Absent THEN Absent ELSE ReadInstance(k, s, row)
  BY DEF Refresh, Local, Shape
<1>2. CASE s = Absent \/ row = Absent
  BY <1>1, <1>2
<1>3. CASE s # Absent /\ row # Absent
  <2>1. s \in Config[k]
    BY <1>3 DEF TypesInv, TypeOK, Complete
  <2>2. row \in Row[k]
    BY <1>3, <2>1, NameTyped DEF TypesInv, TypeOK
  <2> HIDE DEF s, row
  <2>3. /\ ReadInstance(k, s, row) \in Complete(Config[k])
        /\ ReadInstance(k, s, row).name = s.name
        /\ k = "schema" => ReadInstance(k, s, row).policies = s.policies
        /\ k = "subscription" => ReadInstance(k, s, row).createSlot = s.createSlot
    BY <2>1, <2>2, ReadTyped
  <2>4. state'[k] = ReadInstance(k, s, row)
    BY <1>1, <1>3
  <2>5. state'[k] # Absent
    BY <2>3, <2>4, NotAbsent DEF Complete
  <2> QED  BY <1>1, <1>3, <2>3, <2>4, <2>5 DEF s
<1> QED  BY <1>2, <1>3

\* After an operation, too.
LEMMA ReadBackFacts ==
    ASSUME Shape, TypesInv, NEW k \in Kinds, ReadBack(k)
    PROVE  /\ pc[k] = "readBack" /\ config[k] # Absent
           /\ \/ FailsOnly(k)
              \/ /\ UNCHANGED <<catalog, missing, inputs, halfDone, failures>>
                 /\ \E inst \in Complete(Config[k]) :
                      /\ Record(k, inst) /\ inst # Absent /\ inst.name = config[k].name
                      /\ k = "schema" => inst.policies = config[k].policies
                      /\ k = "subscription" => inst.createSlot = config[k].createSlot
<1> DEFINE c == Planned(k)
           row == catalog[k][config[k].name]
<1>0. pc[k] = "readBack" /\ config[k] # Absent
  BY DEF ReadBack, TypesInv, At
<1>1. CASE ~FailsOnly(k)
  <2>1. /\ row # Absent /\ Record(k, ReadInstance(k, c, row))
        /\ UNCHANGED <<catalog, missing, inputs, halfDone, failures>>
    BY <1>1 DEF ReadBack, FailsOnly
  <2>2. config[k] \in Config[k] /\ PlanTyped(k)
    BY <1>0, ConfigTyped, PlannedTyped DEF TypesInv, TypeOK
  <2>3. c \in Config[k] /\ c.name = config[k].name
    BY <2>2 DEF PlanTyped
  <2>4. row \in Row[k]
    BY <2>1, <2>2, NameTyped DEF TypesInv, TypeOK
  <2>5. k = "schema" => c.policies = config[k].policies
    <3>1. SUFFICES ASSUME k = "schema" PROVE c.policies = config[k].policies
      OBVIOUS
    <3>2. config[k].policies # Unset /\ "policies" \in DOMAIN config[k]
      BY <2>2, <3>1, KindTypes, CatalogAssumption DEF SchemaConfig, Policies
    <3> QED  BY <3>2, PlannedAttributes
  <2>6. k = "subscription" => c.createSlot = config[k].createSlot
    <3>1. SUFFICES ASSUME k = "subscription" PROVE c.createSlot = config[k].createSlot
      OBVIOUS
    <3>2. config[k].createSlot # Unset /\ "createSlot" \in DOMAIN config[k]
      BY <2>2, <3>1, KindTypes, CatalogAssumption DEF SubscriptionConfig
    <3> QED  BY <3>2, PlannedAttributes
  <2> HIDE DEF c, row
  <2>7. /\ ReadInstance(k, c, row) \in Complete(Config[k])
        /\ ReadInstance(k, c, row).name = c.name
        /\ k = "schema" => ReadInstance(k, c, row).policies = c.policies
        /\ k = "subscription" => ReadInstance(k, c, row).createSlot = c.createSlot
    BY <2>3, <2>4, ReadTyped
  <2>8. ReadInstance(k, c, row) # Absent
    BY <2>7, NotAbsent DEF Complete
  <2> QED  BY <1>0, <2>1, <2>3, <2>5, <2>6, <2>7, <2>8
<1> QED  BY <1>0, <1>1

\* the runs of Terraform,
LEMMA TerraformTypes ==
    ASSUME IInv, TypesInv, TerraformStep \/ Edit
    PROVE  TypesInv'
<1> USE DEF IInv
<1>0. InPlay \subseteq Kinds
  BY DEF InPlay, GivenKinds, Shape
<1>1. ASSUME NEW k \in InPlay, Refresh(k) PROVE TypesInv'
  <2>1. /\ Local(k) /\ pc'[k] = "read" /\ tainted' \subseteq tainted
        /\ UNCHANGED <<catalog, missing, inputs, halfDone, failures>>
        /\ state'[k] = Absent \/ state'[k] \in Complete(Config[k])
    <3>1. Shape /\ k \in Kinds
      BY <1>0
    <3> QED  BY <1>1, <3>1, RefreshFacts
  <2>2. /\ \A j \in Kinds \ {k} : state'[j] = state[j] /\ pc'[j] = pc[j]
        /\ pc' = [j \in Kinds |-> pc'[j]]
    BY <2>1 DEF Local
  <2>3. pc' \in [Kinds -> PC]
    <3>1. \A j \in Kinds : pc'[j] \in PC
      BY <2>1, <2>2 DEF TypesInv, TypeOK, PC
    <3> QED  BY <2>2, <3>1
  <2>4. \A j \in Kinds : state'[j] = Absent \/ state'[j] \in Complete(Config[j])
    BY <2>1, <2>2 DEF TypesInv, TypeOK
  <2>5. TypeOK'
    BY <2>1, <2>3, <2>4 DEF TypesInv, TypeOK, inputs
  <2>6. ASSUME NEW j \in Kinds PROVE At(j)'
    <3>1. CASE j = k
      BY <2>1, <3>1 DEF At
    <3>2. CASE j # k
      <4>1. state'[j] = state[j] /\ pc'[j] = pc[j] /\ config' = config
        BY <2>1, <2>2, <3>2 DEF inputs
      <4>2. Planned(j)' = Planned(j)
        BY <4>1 DEF Planned
      <4>3. At(j)
        BY DEF TypesInv
      <4> QED  BY <4>1, <4>2, <4>3 DEF At
    <3> QED  BY <3>1, <3>2
  <2> QED  BY <2>5, <2>6 DEF TypesInv
<1>2. ASSUME NEW k \in InPlay, ReadBack(k) PROVE TypesInv'
  <2>1. FailsOnly(k) \/ Leaves(k)
    BY <1>0, <1>2, ReadBackFacts, TypedCatalog DEF Leaves, TypesInv
  <2> QED  BY <1>0, <2>1, FailTypes, LeavesTypes
<1>3. ASSUME NEW k \in InPlay, Skip(k) PROVE TypesInv'
  BY <1>0, <1>3, FailTypes DEF Skip, FailsOnly
<1>4. CASE Plan
  <2>1. /\ pc' = [k \in Kinds |-> IF k \in InPlay THEN ToDo(k) ELSE "over"]
        /\ UNCHANGED <<catalog, missing, inputs, state, tainted, halfDone, failures>>
    BY <1>4 DEF Plan
  <2>2. pc' \in [Kinds -> PC]
    BY <2>1, ToDoAt DEF PC
  <2>3. TypeOK'
    BY <2>1, <2>2 DEF TypesInv, TypeOK, inputs
  <2>4. ASSUME NEW k \in Kinds PROVE At(k)'
    <3>1. pc'[k] \in {ToDo(k), "over"}
      BY <2>1
    <3>2. Planned(k)' = Planned(k) /\ state' = state /\ config' = config
      BY <2>1 DEF Planned, inputs
    <3> QED  BY <3>1, <3>2, ToDoAt DEF At
  <2> QED  BY <2>3, <2>4 DEF TypesInv
<1>5. ASSUME NEW c \in Given[scenario].configs, Run(c), edits' \in Nat PROVE TypesInv'
  <2>1. /\ config' = c /\ pc' = [k \in Kinds |-> IF k \in InPlay THEN "idle" ELSE "over"]
        /\ UNCHANGED <<catalog, missing, scenario, state, tainted, halfDone, drifts, failures>>
    BY <1>5 DEF Run
  <2>2. pc' \in [Kinds -> PC]
    BY <2>1 DEF PC
  <2>3. TypeOK'
    BY <1>5, <2>1, <2>2 DEF TypesInv, TypeOK
  <2>4. ASSUME NEW k \in Kinds PROVE At(k)'
    BY <2>1 DEF At
  <2> QED  BY <2>3, <2>4 DEF TypesInv
<1>6. config \in Given[scenario].configs /\ edits \in Nat
  BY DEF Shape, TypesInv, TypeOK
<1>7. Edit => edits' \in Nat /\ \E c \in Given[scenario].configs : Run(c)
  BY <1>6 DEF Edit
<1> QED  BY <1>1, <1>2, <1>3, <1>4, <1>5, <1>6, <1>7 DEF TerraformStep, RunAgain

\* An altered object is still one of its kind.
LEMMA AlteredTyped ==
    ASSUME NEW k \in Kinds, NEW old \in Row[k], NEW row \in Altered(k, old)
    PROVE  row \in Row[k] /\ (k = "schema" => \E r \in Roles : row = OwnedBy(old, r))
<1>1. CASE k = "schema"
  <2>1. Altered(k, old) = {OwnedBy(old, r) : r \in Roles \ missing}
    BY <1>1 DEF Altered
  <2>2. PICK r \in Roles : row = OwnedBy(old, r)
    BY <2>1
  <2> QED  BY <1>1, <2>2, SchemaRows
<1>2. CASE k = "extension"
  <2>1. Altered(k, old) = {[old EXCEPT !.version = v] : v \in Versions}
    BY <1>2 DEF Altered
  <2>2. PICK v \in Versions : row = [old EXCEPT !.version = v]
    BY <2>1
  <2> QED  BY <1>2, <2>2, KindTypes
<1>3. CASE k \in {"server", "mapping"}
  <2>1. Altered(k, old) = {[old EXCEPT !.options = o] : o \in Options}
    BY <1>3 DEF Altered
  <2>2. PICK o \in Options : row = [old EXCEPT !.options = o]
    BY <2>1
  <2>3. CASE k = "server"
    BY <2>2, <2>3, KindTypes
  <2>4. CASE k = "mapping"
    BY <2>2, <2>4, KindTypes
  <2> QED  BY <1>3, <2>3, <2>4
<1>4. CASE k = "publication"
  <2>1. Altered(k, old) = IF old.all THEN {} ELSE {[old EXCEPT !.tables = t] : t \in SUBSET Tables}
    BY <1>4 DEF Altered
  <2>2. PICK t \in SUBSET Tables : row = [old EXCEPT !.tables = t]
    BY <2>1
  <2> QED  BY <1>4, <2>2, KindTypes
<1>5. CASE k = "function"
  <2>1. Altered(k, old) = {[old EXCEPT !.options = o, !.body = b] : o, b \in {"a", "b"}}
    BY <1>5 DEF Altered
  <2>2. PICK o \in {"a", "b"}, b \in {"a", "b"} : row = [old EXCEPT !.options = o, !.body = b]
    BY <2>1
  <2> DEFINE R == Row["function"]
  <2>3. ASSUME NEW r \in R PROVE [r EXCEPT !.options = o] \in R
    BY KindTypes
  <2>4. ASSUME NEW r \in R PROVE [r EXCEPT !.body = b] \in R
    BY KindTypes
  <2> HIDE DEF R
  <2> QED  BY <1>5, <2>2, <2>3, <2>4 DEF R
<1>6. CASE k \in {"subscription", "slot"}
  BY <1>6 DEF Altered
<1> QED  BY <1>1, <1>2, <1>3, <1>4, <1>5, <1>6 DEF Kinds

-----------------------------------------------------------------------------
(* What others do. *)

\* What others leave: objects they have not made, the privileges on schemas of roles
\* that are there and do not own it, and slots with their subscriptions.
Drifted ==
    /\ drifts' = drifts + 1 /\ missing \subseteq missing' /\ missing' \subseteq Roles
    /\ UNCHANGED <<scenario, config, edits, state, tainted, pc, halfDone, failures>>
    /\ Typed(catalog')
    /\ \A k \in Kinds, x \in Names : catalog'[k][x] # Absent => catalog[k][x] # Absent
    /\ \A x \in Names : catalog'["schema"][x] # Absent => \E r \in Roles :
         \/ catalog'["schema"][x] = catalog["schema"][x]
         \/ catalog'["schema"][x] = OwnedBy(catalog["schema"][x], r)
         \/ catalog'["schema"][x] = WithoutPrivileges(catalog["schema"][x], r) /\ r \in missing'
    /\ \A x \in Names : catalog'["slot"][x] # Absent /\ HasSlot(x) => HasSlot(x)'

\* Objects go, with what they have.
LEMMA DropObjectDrifts ==
    ASSUME IInv, TypesInv, DropObject
    PROVE  Drifted
<1>0. /\ Rows(catalog) /\ Typed(catalog) /\ InPlay \subseteq Kinds
      /\ {"slot", "subscription", "schema"} \subseteq Kinds
  BY TypedCatalog DEF IInv, Shape, Rows, InPlay, GivenKinds, Kinds, TypesInv
<1>1. PICK k \in InPlay, n \in Names :
             /\ Drift(IF k = "subscription" THEN SubscriptionGone(n) ELSE Without(Doomed(<<k, n>>)))
             /\ UNCHANGED missing
  BY DEF DropObject
<1>2. /\ drifts' = drifts + 1 /\ missing \subseteq missing' /\ missing' \subseteq Roles
      /\ UNCHANGED <<scenario, config, edits, state, tainted, pc, halfDone, failures>>
  BY <1>1 DEF Drift, TypesInv, TypeOK
<1>3. /\ Typed(catalog')
      /\ \A j \in Kinds, x \in Names : catalog'[j][x] \in {Absent, catalog[j][x]}
      /\ \A x \in Names : catalog'["slot"][x] # Absent /\ HasSlot(x) => HasSlot(x)'
  <2>1. CASE k = "subscription"
    <3> DEFINE z == catalog["subscription"][n].slot
    <3>1. Exchanged(n, Absent, z, Absent)
      <4>1. catalog' = SubscriptionGone(n)
        BY <1>1, <2>1 DEF Drift
      <4>2. CASE z = Absent
        BY <1>0, <4>1, <4>2, OnlyExchanged DEF SubscriptionGone
      <4>3. CASE z # Absent
        BY <1>0, <4>1, <4>3, BothExchanged DEF SubscriptionGone
      <4> QED  BY <4>2, <4>3
    <3>2. Typed(catalog')
      BY <1>0, <3>1, ExchangedTyped
    <3>3. ASSUME NEW j \in Kinds, NEW x \in Names PROVE catalog'[j][x] \in {Absent, catalog[j][x]}
      BY <3>1 DEF Exchanged, Replicated
    <3>4. ASSUME NEW x \in Names, catalog'["slot"][x] # Absent, HasSlot(x) PROVE HasSlot(x)'
      <4>1. PICK y \in Names : /\ catalog["subscription"][y] # Absent
                               /\ catalog["subscription"][y].slot = x
                               /\ Knows("subscription", y) => CreatesSlot
        BY <3>4 DEF HasSlot
      <4>2. y # n
        BY <3>1, <3>4, <4>1 DEF Exchanged
      <4>3. catalog'["subscription"][y] = catalog["subscription"][y]
        BY <3>1, <4>2 DEF Exchanged
      <4>4. (Knows("subscription", y)' <=> Knows("subscription", y)) /\ CreatesSlot' = CreatesSlot
        BY <1>2 DEF Knows, CreatesSlot
      <4> QED  BY <4>1, <4>3, <4>4 DEF HasSlot
    <3> QED  BY <3>2, <3>3, <3>4
  <2>2. CASE k # "subscription"
    <3> DEFINE S == Doomed(<<k, n>>)
    <3>1. catalog' = Without(S)
      BY <1>1, <2>2 DEF Drift
    <3>2. \A x \in Names : <<"subscription", x>> \notin S
      BY <1>0, <2>2, DoomedFacts DEF Replicated
    <3> HIDE DEF S
    <3>3. \A j \in Kinds, x \in Names :
            catalog'[j][x] = IF <<j, x>> \in S THEN Absent ELSE catalog[j][x]
      <4>1. \A j \in Kinds, x \in Names :
              Without(S)[j][x] = IF <<j, x>> \in S THEN Absent ELSE catalog[j][x]
        BY WithoutFacts
      <4> QED  BY <3>1, <4>1
    <3>4. \A x \in Names : catalog'["subscription"][x] = catalog["subscription"][x]
      BY <1>0, <3>2, <3>3
    <3>5. CreatesSlot' = CreatesSlot
          /\ \A y : Knows("subscription", y)' <=> Knows("subscription", y)
      BY <1>2 DEF Knows, CreatesSlot
    <3>6. \A x \in Names : HasSlot(x) => HasSlot(x)'
      BY <3>4, <3>5 DEF HasSlot
    <3>7. Typed(catalog')
      BY <1>0, <3>1, WithoutTyped
    <3> QED  BY <3>3, <3>6, <3>7
  <2> QED  BY <2>1, <2>2
<1>4. /\ \A j \in Kinds, x \in Names : catalog'[j][x] # Absent => catalog[j][x] # Absent
      /\ \A x \in Names : catalog'["schema"][x] # Absent =>
           catalog'["schema"][x] = catalog["schema"][x]
  BY <1>0, <1>3
<1>5. Me \in Roles
  BY CatalogAssumption
<1> QED  BY <1>2, <1>3, <1>4, <1>5 DEF Drifted

\* Objects are altered.
LEMMA AlterObjectDrifts ==
    ASSUME IInv, TypesInv, AlterObject
    PROVE  Drifted
<1>0. /\ Rows(catalog) /\ Typed(catalog) /\ InPlay \subseteq Kinds
      /\ {"slot", "subscription", "schema"} \subseteq Kinds
  BY TypedCatalog DEF IInv, Shape, Rows, InPlay, GivenKinds, Kinds, TypesInv
<1>1. PICK k \in InPlay, n \in Names :
             /\ catalog[k][n] # Absent
             /\ \E row \in Altered(k, catalog[k][n]) : Drift(Put(k, n, row))
             /\ UNCHANGED missing
  BY DEF AlterObject
<1>2. PICK row \in Altered(k, catalog[k][n]) : Drift(Put(k, n, row))
  BY <1>1
<1>3. /\ drifts' = drifts + 1 /\ missing' = missing /\ missing \subseteq Roles
      /\ UNCHANGED <<scenario, config, edits, state, tainted, pc, halfDone, failures>>
      /\ catalog' = Put(k, n, row)
  BY <1>1, <1>2 DEF Drift, TypesInv, TypeOK
<1>4. /\ row \in Row[k] /\ k \in Kinds
      /\ k = "schema" => \E r \in Roles : row = OwnedBy(catalog[k][n], r)
  BY <1>0, <1>1, AlteredTyped DEF Typed
<1>5. Typed(catalog')
  BY <1>0, <1>3, <1>4, PutTyped
<1>6. /\ \A j \in Kinds \ {k}, x \in Names : catalog'[j][x] = catalog[j][x]
      /\ \A x \in Names : catalog'[k][x] = IF x = n THEN row ELSE catalog[k][x]
  BY <1>0, <1>3, <1>4, PutFacts
<1>7. \A j \in Kinds, x \in Names : catalog'[j][x] # Absent => catalog[j][x] # Absent
  BY <1>1, <1>6
<1>8. \A x \in Names : catalog'["schema"][x] # Absent => \E r \in Roles :
         \/ catalog'["schema"][x] = catalog["schema"][x]
         \/ catalog'["schema"][x] = OwnedBy(catalog["schema"][x], r)
  BY <1>0, <1>4, <1>6, CatalogAssumption
<1>9. k # "subscription"
  BY <1>2 DEF Altered
<1>10. \A x \in Names : HasSlot(x) => HasSlot(x)'
  <2>1. \A x \in Names : catalog'["subscription"][x] = catalog["subscription"][x]
    BY <1>0, <1>6, <1>9
  <2>2. CreatesSlot' = CreatesSlot
        /\ \A y : Knows("subscription", y)' <=> Knows("subscription", y)
    BY <1>3 DEF Knows, CreatesSlot
  <2> QED  BY <2>1, <2>2 DEF HasSlot
<1> QED  BY <1>3, <1>5, <1>7, <1>8, <1>10 DEF Drifted

\* Roles go, with the privileges they have.
LEMMA DropRoleDrifts ==
    ASSUME IInv, TypesInv, DropRole
    PROVE  Drifted
<1>0. /\ Rows(catalog) /\ Typed(catalog)
      /\ {"slot", "subscription", "schema"} \subseteq Kinds
  BY TypedCatalog DEF IInv, Shape, Rows, Kinds, TypesInv
<1>1. PICK r \in Roles :
             /\ Drift([catalog EXCEPT !.schema =
                          [n \in Names |-> WithoutPrivileges(catalog.schema[n], r)]])
             /\ missing' = missing \cup {r}
  BY DEF DropRole
<1>2. /\ drifts' = drifts + 1 /\ missing \subseteq missing' /\ missing' \subseteq Roles
      /\ UNCHANGED <<scenario, config, edits, state, tainted, pc, halfDone, failures>>
      /\ catalog' = [catalog EXCEPT !.schema = [n \in Names |-> WithoutPrivileges(catalog.schema[n], r)]]
  BY <1>1 DEF Drift, TypesInv, TypeOK
<1>3. /\ \A j \in Kinds \ {"schema"}, x \in Names : catalog'[j][x] = catalog[j][x]
      /\ \A x \in Names : catalog'["schema"][x] = WithoutPrivileges(catalog["schema"][x], r)
  BY <1>0, <1>2 DEF Rows
<1>4. ASSUME NEW x \in Names
      PROVE  /\ catalog'["schema"][x] = Absent <=> catalog["schema"][x] = Absent
             /\ catalog["schema"][x] # Absent =>
                  /\ catalog'["schema"][x] \in Row["schema"]
                  /\ catalog'["schema"][x].acl = {p \in catalog["schema"][x].acl : p[1] # r}
  <2> DEFINE row == catalog["schema"][x]
  <2>1. CASE row = Absent
    BY <1>3, <2>1 DEF WithoutPrivileges
  <2>2. CASE row # Absent
    <3>1. row \in [owner : Roles, acl : SUBSET (Grantees \X Privileges), owners : SUBSET Roles]
      BY <1>0, <2>2, KindTypes DEF Typed
    <3>2. catalog'["schema"][x] = [row EXCEPT !.acl = {p \in row.acl : p[1] # r}]
      BY <1>3, <2>2 DEF WithoutPrivileges
    <3> HIDE DEF row
    <3>3. /\ catalog'["schema"][x] \in Row["schema"]
          /\ catalog'["schema"][x].acl = {p \in row.acl : p[1] # r}
      BY <3>1, <3>2, KindTypes
    <3>4. catalog'["schema"][x] # Absent
      BY <1>0, <3>3, NotAbsent
    <3> QED  BY <2>2, <3>3, <3>4 DEF row
  <2> QED  BY <2>1, <2>2
<1>5. Typed(catalog')
  <2>1. ASSUME NEW j \in Kinds, NEW x \in Names PROVE catalog'[j][x] \in Row[j] \cup {Absent}
    BY <1>0, <1>3, <1>4 DEF Typed
  <2> QED  BY <2>1 DEF Typed
<1>6. \A x \in Names :
         catalog'["schema"][x] = WithoutPrivileges(catalog["schema"][x], r) /\ r \in missing'
  BY <1>1, <1>3
<1>7. \A x \in Names : HasSlot(x) => HasSlot(x)'
  <2>1. \A x \in Names : catalog'["subscription"][x] = catalog["subscription"][x]
    BY <1>0, <1>3
  <2>2. CreatesSlot' = CreatesSlot
        /\ \A y : Knows("subscription", y)' <=> Knows("subscription", y)
    BY <1>2 DEF Knows, CreatesSlot
  <2> QED  BY <2>1, <2>2 DEF HasSlot
<1>8. \A j \in Kinds, x \in Names : catalog'[j][x] # Absent => catalog[j][x] # Absent
  BY <1>3, <1>4
<1> QED  BY <1>2, <1>5, <1>6, <1>7, <1>8 DEF Drifted

\* What others do keeps the types.
LEMMA DriftedTypes ==
    ASSUME TypesInv, Drifted
    PROVE  TypesInv'
<1>1. TypeOK'
  BY DEF Drifted, TypesInv, TypeOK, Typed
<1>2. ASSUME NEW k \in Kinds PROVE At(k)'
  <2>1. Planned(k)' = Planned(k)
    BY DEF Drifted, Planned
  <2> QED  BY <2>1 DEF Drifted, TypesInv, At
<1> QED  BY <1>1, <1>2 DEF TypesInv

\* At first nothing is in the state.
LEMMA InitTypes ==
    Init => TypesInv
<1> SUFFICES ASSUME Init PROVE TypesInv
  OBVIOUS
<1>1. IsScenario(Given[scenario])
  BY CatalogAssumption DEF Init, Given
<1>2. \A k \in Kinds, n \in Names : catalog[k][n] = Absent \/ catalog[k][n] \in Row[k]
  BY <1>1 DEF Init, IsScenario
<1>3. TypeOK
  BY <1>2 DEF Init, TypeOK, PC, Given
<1>4. ASSUME NEW k \in Kinds PROVE At(k)
  BY DEF Init, At
<1> QED  BY <1>3, <1>4 DEF TypesInv

\* Every step keeps the types.
LEMMA NextTypes ==
    ASSUME IInv, TypesInv, [Next]_vars
    PROVE  TypesInv'
<1>1. CASE UNCHANGED vars
  <2>1. TypeOK'
    BY <1>1 DEF TypesInv, TypeOK, vars, inputs
  <2>2. ASSUME NEW k \in Kinds PROVE At(k)'
    BY <1>1 DEF TypesInv, At, Planned, vars, inputs
  <2> QED  BY <2>1, <2>2 DEF TypesInv
<1>2. CASE DropObject \/ AlterObject \/ DropRole
  BY <1>2, DropObjectDrifts, AlterObjectDrifts, DropRoleDrifts, DriftedTypes
<1> QED  BY <1>1, <1>2, OperationTypes, TerraformTypes DEF Next, Step

\* Whatever is configured, fails and is changed by others, the server has objects
\* of their kinds and the state has complete instances.
THEOREM TypeCorrect == Spec => []TypeOK
<1>1. IInv /\ TypesInv /\ [Next]_vars => TypesInv'
  BY NextTypes
<1>2. TypesInv => TypeOK
  BY DEF TypesInv
<1> QED  BY <1>1, <1>2, InitTypes, Invariance, PTL DEF Spec

-----------------------------------------------------------------------------
(* What the provider has made is known. *)

\* An object that was not there before is known, or a subscription has made it.
Known ==
    \A k \in Kinds \ halfDone, x \in Names :
        catalog[k][x] # Absent /\ Given[scenario].there[k][x] = Absent =>
            Knows(k, x) \/ (k = "slot" /\ HasSlot(x))

\* A mapping is deleted, or failed to be, when its server is to be renamed.
MappingDeleted ==
    /\ pc["mapping"] \notin {"readBack", "unset", "drop"} /\ "mapping" \notin halfDone
    /\ state["mapping"] # Absent => "mapping" \in InPlay
    /\ pc["server"] = "update" /\ state["mapping"] # Absent
         /\ state["mapping"].name # config["server"].name =>
               pc["mapping"] \in {"delete", "failed"}

\* The inductive invariant.
TrackInv ==
    /\ Known
    /\ pc["subscription"] = "readBack" => state["subscription"] = Absent
    /\ MappingDeleted

\* Which names are known, and who makes the slot, depends on a resource only.
LEMMA SameKnown ==
    ASSUME NEW j, state'[j] = state[j], pc'[j] = pc[j], config' = config
    PROVE  /\ \A x : Knows(j, x)' <=> Knows(j, x)
           /\ j = "subscription" => CreatesSlot' = CreatesSlot
BY DEF Knows, CreatesSlot

\* An operation that fails leaves what is known, unless it was the reading.
LEMMA FailKnown ==
    ASSUME IInv, TrackInv, NEW k \in Kinds, FailsOnly(k)
    PROVE  Known'
<1>1. /\ UNCHANGED <<catalog, inputs, state>>
      /\ halfDone \subseteq halfDone' /\ (pc[k] = "readBack" => k \in halfDone')
      /\ pc' = [pc EXCEPT ![k] = "failed"]
  BY DEF FailsOnly, Fail
<1>2. /\ \A j \in Kinds \ {k} : pc'[j] = pc[j]
      /\ pc'[k] = "failed" /\ config' = config
  BY <1>1 DEF IInv, Shape, inputs
<1>3. ASSUME NEW j \in Kinds, j # k \/ pc[k] # "readBack" \/ state[k] = Absent
      PROVE  /\ \A x : Knows(j, x) => Knows(j, x)' \/ (j = k /\ pc[k] = "readBack")
             /\ \A x : Knows(j, x)' => Knows(j, x)
             /\ j = "subscription" => CreatesSlot' = CreatesSlot \/ \A x : ~Knows(j, x)'
  <2>1. CASE j # k
    <3>1. state'[j] = state[j] /\ pc'[j] = pc[j]
      BY <1>1, <1>2, <2>1
    <3> QED  BY <1>2, <2>1, <3>1, SameKnown
  <2>2. CASE j = k /\ pc[k] # "readBack"
    BY <1>1, <1>2, <2>2 DEF Knows, CreatesSlot
  <2>3. CASE j = k /\ pc[k] = "readBack" /\ state[k] = Absent
    BY <1>1, <1>2, <2>3 DEF Knows, CreatesSlot
  <2> QED  BY <1>3, <2>1, <2>2, <2>3
<1>4. ASSUME NEW x \in Names, HasSlot(x) PROVE HasSlot(x)'
  <2>1. PICK y \in Names : /\ catalog["subscription"][y] # Absent
                           /\ catalog["subscription"][y].slot = x
                           /\ Knows("subscription", y) => CreatesSlot
    BY <1>4 DEF HasSlot
  <2>2. "subscription" \in Kinds /\ (pc["subscription"] = "readBack" =>
        state["subscription"] = Absent)
    BY Types DEF TrackInv
  <2>3. Knows("subscription", y)' => CreatesSlot'
    BY <1>3, <2>1, <2>2
  <2> QED  BY <1>1, <2>1, <2>3 DEF HasSlot
<1>5. ASSUME NEW j \in Kinds \ halfDone', NEW x \in Names,
             catalog'[j][x] # Absent, Given[scenario'].there[j][x] = Absent
      PROVE  Knows(j, x)' \/ (j = "slot" /\ HasSlot(x)')
  <2>1. Knows(j, x) \/ (j = "slot" /\ HasSlot(x))
    BY <1>1, <1>5 DEF TrackInv, Known, inputs
  <2>2. j # k \/ pc[k] # "readBack"
    BY <1>1, <1>5
  <2> QED  BY <1>3, <1>4, <2>1, <2>2
<1> QED  BY <1>5 DEF Known

\* An operation that makes no object but one that is known leaves all known.
LEMMA TracksKnown ==
    ASSUME IInv, TrackInv, NEW k \in Kinds \ {"subscription"}, Local(k), Tracks(k),
           UNCHANGED inputs, halfDone' = halfDone,
           \A x \in Names : catalog'["subscription"][x] = catalog["subscription"][x]
    PROVE  Known'
<1>1. \A j \in Kinds \ {k} : state'[j] = state[j] /\ pc'[j] = pc[j]
  BY DEF Local
<1>2. config' = config /\ scenario' = scenario /\ "subscription" \in Kinds
  BY Types DEF inputs
<1>3. \A j \in Kinds \ {k}, x \in Names : Knows(j, x)' <=> Knows(j, x)
  BY <1>1, <1>2, SameKnown
<1>4. \A x \in Names : HasSlot(x)' <=> HasSlot(x)
  <2>1. CreatesSlot' = CreatesSlot
    BY <1>1, <1>2, SameKnown
  <2> QED  BY <1>2, <1>3, <2>1 DEF HasSlot
<1>5. ASSUME NEW j \in Kinds \ halfDone', NEW x \in Names,
             catalog'[j][x] # Absent, Given[scenario'].there[j][x] = Absent
      PROVE  Knows(j, x)' \/ (j = "slot" /\ HasSlot(x)')
  <2>1. catalog[j][x] # Absent => Knows(j, x) \/ (j = "slot" /\ HasSlot(x))
    BY <1>2, <1>5 DEF TrackInv, Known
  <2>2. CASE j = k
    BY <1>4, <1>5, <2>1, <2>2 DEF Tracks
  <2>3. CASE j # k
    BY <1>3, <1>4, <1>5, <2>1, <2>3 DEF Tracks
  <2> QED  BY <2>2, <2>3
<1> QED  BY <1>5 DEF Known

\* The operations of subscriptions leave the slots with who has made them.
LEMMA SubscriptionKnown ==
    ASSUME IInv, TypesInv, TrackInv,
           CreateSubscription \/ DisableSubscription \/ UnsetSlot \/ DropSubscription
    PROVE  /\ Known'
           /\ pc'["subscription"] = "readBack" => state'["subscription"] = Absent
           /\ Local("subscription") /\ UNCHANGED inputs
           /\ halfDone' \subseteq halfDone \cup {"subscription"}
<1> DEFINE k == "subscription"
<1>0. k \in Kinds /\ "slot" \in Kinds /\ Shape /\ Typed(catalog) /\ KindInv(k)
  BY TypedCatalog, Types DEF TypesInv, IInv
<1>1. CASE FailsOnly(k) /\ pc[k] # "readBack"
  <2>1. Known'
    BY <1>0, <1>1, FailKnown
  <2>2. pc'[k] = "failed" /\ halfDone' \subseteq halfDone \cup {k} /\ UNCHANGED inputs /\ Local(k)
    BY <1>0, <1>1, Results DEF FailsOnly, Fail, Shape
  <2> QED  BY <2>1, <2>2
<1>2. CASE ~(FailsOnly(k) /\ pc[k] # "readBack")
  <2>1. /\ Leaves(k)
        /\ \A j \in Kinds \ Replicated, x \in Names : catalog'[j][x] = catalog[j][x]
        /\ \A x \in Names : catalog'[k][x] # Absent =>
             (catalog[k][x] # Absent /\ ~Knows(k, x)) \/ Knows(k, x)'
        /\ SlotsTracked
        /\ pc'[k] = "readBack" => state'[k] = Absent
    BY <1>0, <1>2, SubscriptionDone
  <2>2. Local(k) /\ halfDone' = halfDone /\ UNCHANGED inputs
    BY <1>0, <2>1, Results DEF Leaves
  <2>3. \A j \in Kinds \ {k}, x \in Names : Knows(j, x)' <=> Knows(j, x)
    BY <2>2, SameKnown DEF Local, inputs
  <2>4. scenario' = scenario
    BY <2>2 DEF inputs
  <2>5. ASSUME NEW j \in Kinds \ halfDone', NEW x \in Names,
               catalog'[j][x] # Absent, Given[scenario'].there[j][x] = Absent
        PROVE  Knows(j, x)' \/ (j = "slot" /\ HasSlot(x)')
    <3>1. catalog[j][x] # Absent => Knows(j, x) \/ (j = "slot" /\ HasSlot(x))
      BY <2>2, <2>4, <2>5 DEF TrackInv, Known
    <3>2. CASE j = k
      BY <2>1, <2>5, <3>1, <3>2
    <3>3. CASE j = "slot"
      BY <1>0, <2>1, <2>3, <2>5, <3>1, <3>3 DEF SlotsTracked
    <3>4. CASE j \notin Replicated
      BY <2>1, <2>3, <2>5, <3>1, <3>4 DEF Replicated
    <3> QED  BY <3>2, <3>3, <3>4 DEF Replicated
  <2> QED  BY <2>1, <2>2, <2>5 DEF Known
<1> QED  BY <1>1, <1>2

\* A mapping stays to be deleted, whatever other resources do,
LEMMA OtherMappings ==
    ASSUME IInv, TypesInv, TrackInv, NEW k \in Kinds \ {"mapping"}, Local(k), UNCHANGED inputs,
           halfDone' \subseteq halfDone \cup {k}, k = "server" => pc'[k] # "update"
    PROVE  MappingDeleted'
<1>1. /\ "mapping" \in Kinds /\ "server" \in Kinds
      /\ config' = config /\ InPlay' = InPlay
  BY DEF Kinds, inputs, InPlay
<1>2. state'["mapping"] = state["mapping"] /\ pc'["mapping"] = pc["mapping"]
  BY <1>1 DEF Local
<1>3. pc'["server"] = "update" => pc["server"] = "update"
  BY <1>1 DEF Local
<1> QED  BY <1>1, <1>2, <1>3 DEF TrackInv, MappingDeleted

\* or is, or waits for the server.
LEMMA MappingSteps ==
    ASSUME MappingsFollow, IInv, TypesInv, TrackInv,
           \/ CreateMapping \/ UpdateMapping \/ DeleteMapping
           \/ "mapping" \in InPlay /\ (Skip("mapping") \/ Refresh("mapping"))
    PROVE  MappingDeleted'
<1> DEFINE k == "mapping"
<1> USE DEF IInv
<1>0. /\ k \in Kinds /\ "server" \in Kinds
      /\ config[k] # Absent => k \in InPlay
  BY DEF Kinds, InPlay, GivenKinds, Shape
<1>1. config[k] # Absent => <<k, "server">> \in Given[scenario].order
  BY <1>0 DEF MappingsFollow, InPlay, Shape, Given
<1>2. /\ UNCHANGED inputs /\ Local(k) /\ halfDone' = halfDone
      /\ pc'[k] \notin {"readBack", "unset", "drop", "update"}
      /\ state'[k] # Absent => "mapping" \in InPlay
      /\ \/ state'[k] = Absent
         \/ pc["server"] = "over"
         \/ pc'[k] = "failed" /\ state' = state
         \/ pc[k] = "idle" /\ state'[k].name = state[k].name /\ state[k] # Absent
  <2>1. CASE Fail(k) /\ UNCHANGED inputs
    <3>1. Local(k) /\ pc'[k] = "failed" /\ state' = state
      BY <1>0, <2>1, Results DEF Fail, Shape
    <3>2. halfDone' = halfDone
      BY <2>1 DEF Fail, TrackInv, MappingDeleted
    <3> QED  BY <2>1, <3>1, <3>2 DEF TrackInv, MappingDeleted
  <2>2. CASE (CreateMapping \/ UpdateMapping) /\ ~Fail(k)
    <3>1. /\ Turn(k, pc[k]) /\ pc[k] \in {"create", "update"} /\ Record(k, Planned(k))
          /\ UNCHANGED <<inputs, halfDone>>
      BY <2>2 DEF CreateMapping, UpdateMapping, Try, Turn
    <3>2. config[k] # Absent
      BY <1>0, <3>1 DEF TypesInv, At
    <3>3. pc["server"] = "over"
      BY <1>0, <1>1, <3>1, <3>2 DEF Turn, Refers
    <3>4. Local(k) /\ pc'[k] \in {"over", "failed"}
      BY <1>0, <3>1, Results DEF Record, Shape
    <3> QED  BY <1>0, <3>1, <3>2, <3>3, <3>4
  <2>3. CASE DeleteMapping /\ ~Fail(k)
    <3>1. Forget(k) /\ UNCHANGED <<inputs, halfDone>>
      BY <2>3 DEF DeleteMapping, Try
    <3>2. Local(k) /\ pc'[k] \in {"over", "create"} /\ state'[k] = Absent
      BY <1>0, <3>1, Results DEF Forget, Shape
    <3> QED  BY <3>1, <3>2
  <2>4. CASE "mapping" \in InPlay /\ Refresh(k)
    <3>1. Shape /\ pc[k] = "idle"
      BY <2>4 DEF Refresh
    <3> QED  BY <1>0, <2>4, <3>1, RefreshFacts
  <2>5. Fail(k) => UNCHANGED inputs
    BY DEF Fail
  <2> QED  BY <2>1, <2>2, <2>3, <2>4, <2>5 DEF Skip
<1>3. /\ config' = config /\ pc'["server"] = pc["server"] /\ InPlay' = InPlay
  BY <1>0, <1>2 DEF Local, inputs, InPlay
<1>4. ASSUME pc["server"] = "update", state'[k] # Absent, state'[k].name # config["server"].name
      PROVE  pc'[k] = "failed"
  BY <1>2, <1>4 DEF TrackInv, MappingDeleted
<1> QED  BY <1>2, <1>3, <1>4 DEF TrackInv, MappingDeleted

\* A server that is given another name has no mapping.
LEMMA ServerUnmapped ==
    ASSUME MappingsFollow, IInv, TypesInv, TrackInv, Turn("server", "update"),
           Planned("server").name # state["server"].name
    PROVE  catalog["mapping"][state["server"].name] = Absent
<1> DEFINE k == "server"
<1>0. Shape /\ Typed(catalog) /\ KindInv(k) /\ {"server", "mapping"} \subseteq Kinds
  BY TypedCatalog DEF IInv, TypesInv, Kinds
<1> SUFFICES ASSUME catalog["mapping"][state[k].name] # Absent
             PROVE  FALSE
  OBVIOUS
<1>1. pc[k] = "update" /\ config[k] # Absent /\ state[k] # Absent /\ state[k] \in Complete(Config[k])
  BY <1>0 DEF Turn, KindInv, At
<1>2. Planned(k).name = config[k].name /\ state[k].name \in Names
  BY <1>0, <1>1, PlannedTyped, NameTyped DEF PlanTyped, Complete
<1>3. Given[scenario].there["mapping"][state[k].name] = Absent
  BY <1>2 DEF MappingsFollow, IInv, Shape, Given
<1>4. Knows("mapping", state[k].name)
  BY <1>0, <1>2, <1>3 DEF TrackInv, MappingDeleted, Known
<1>5. /\ state["mapping"] # Absent /\ state["mapping"].name = state[k].name
      /\ "mapping" \in InPlay /\ pc["mapping"] \in {"delete", "failed"}
  BY <1>1, <1>2, <1>4 DEF Knows, TrackInv, MappingDeleted
<1>6. <<"mapping", k>> \in Given[scenario].order
  BY <1>5 DEF MappingsFollow, InPlay, IInv, Shape, Given
<1> QED  BY <1>0, <1>5, <1>6 DEF Turn, ReferredBy

\* Every operation leaves all objects known.
LEMMA OperationTracks ==
    ASSUME MappingsFollow, IInv, TypesInv, TrackInv,
           SchemaStep \/ ForeignDataStep \/ ReplicationStep \/ FunctionStep
    PROVE  TrackInv'
<1>0. /\ Shape /\ Typed(catalog) /\ \A k \in Kinds : KindInv(k)
      /\ {"schema", "extension", "server", "mapping", "publication", "subscription", "slot",
          "function"} \subseteq Kinds
  BY TypedCatalog DEF IInv, TypesInv, Kinds
<1>1. ASSUME NEW k \in Kinds \ {"subscription"},
             FailsOnly(k) \/ (Leaves(k) /\ Tracks(k)
               /\ \A x \in Names : catalog'["subscription"][x] = catalog["subscription"][x]),
             IF k = "mapping" THEN CreateMapping \/ UpdateMapping \/ DeleteMapping
             ELSE k = "server" => pc'[k] # "update"
      PROVE  TrackInv'
  <2>1. Known' /\ Local(k) /\ UNCHANGED inputs /\ halfDone' \subseteq halfDone \cup {k}
    <3>1. CASE FailsOnly(k)
      BY <1>0, <3>1, FailKnown, Results DEF FailsOnly, Fail
    <3>2. CASE ~FailsOnly(k)
      <4>1. Local(k) /\ UNCHANGED inputs /\ halfDone' = halfDone
        BY <1>0, <1>1, <3>2, Results DEF Leaves
      <4> QED  BY <1>1, <3>2, <4>1, TracksKnown
    <3> QED  BY <3>1, <3>2
  <2>2. pc'["subscription"] = "readBack" => state'["subscription"] = Absent
    BY <1>0, <1>1, <2>1 DEF Local, TrackInv
  <2>3. MappingDeleted'
    BY <1>1, <2>1, MappingSteps, OtherMappings
  <2> QED  BY <2>1, <2>2, <2>3 DEF TrackInv
<1>2. ASSUME NEW k \in Kinds \ Replicated, Elsewhere(k)
      PROVE  \A x \in Names : catalog'["subscription"][x] = catalog["subscription"][x]
  BY <1>2 DEF Elsewhere, Kept, Replicated
<1>3. {"schema", "extension", "server", "mapping", "publication", "function"} \subseteq Kinds \ Replicated
  BY <1>0 DEF Replicated
<1>4. CASE SchemaStep
  <2>1. Elsewhere("schema")
    BY <1>0, <1>4, SchemaElsewhere DEF SchemaStep
  <2>2. FailsOnly("schema") \/ (Leaves("schema") /\ Tracks("schema"))
    BY <1>0, <1>4, SchemaDone DEF SchemaStep
  <2> QED  BY <1>1, <1>2, <1>3, <2>1, <2>2 DEF Replicated
<1>5. CASE CreateExtension \/ UpdateExtension \/ DeleteExtension
  <2>1. Elsewhere("extension")
    BY <1>0, <1>5, ExtensionElsewhere
  <2>2. FailsOnly("extension") \/ (Leaves("extension") /\ Tracks("extension"))
    BY <1>0, <1>5, ExtensionDone
  <2> QED  BY <1>1, <1>2, <1>3, <2>1, <2>2 DEF Replicated
<1>6. CASE CreateServer \/ UpdateServer \/ DeleteServer
  <2> DEFINE k == "server"
  <2>1. Elsewhere(k)
    BY <1>0, <1>6, ServerElsewhere
  <2>2. pc'[k] # "update"
    <3>1. Fail(k) \/ (\E inst : Record(k, inst)) \/ Forget(k)
      BY <1>6 DEF CreateServer, UpdateServer, DeleteServer, Try
    <3> QED  BY <1>0, <3>1 DEF Fail, Record, Forget, Shape
  <2>3. ~(/\ Turn(k, "update") /\ Planned(k).name # state[k].name
          /\ catalog["mapping"][state[k].name] # Absent)
    BY ServerUnmapped
  <2>4. FailsOnly(k) \/ (Leaves(k) /\ Tracks(k))
    BY <1>0, <1>6, <2>3, ServerDone
  <2> QED  BY <1>1, <1>2, <1>3, <2>1, <2>2, <2>4 DEF Replicated
<1>7. CASE CreateMapping \/ UpdateMapping \/ DeleteMapping
  <2>1. Elsewhere("mapping")
    BY <1>0, <1>7, MappingElsewhere
  <2>2. FailsOnly("mapping") \/ (Leaves("mapping") /\ Tracks("mapping"))
    BY <1>0, <1>7, MappingDone
  <2> QED  BY <1>1, <1>2, <1>3, <1>7, <2>1, <2>2 DEF Replicated
<1>8. CASE CreatePublication \/ UpdatePublication \/ DeletePublication
  <2>1. Elsewhere("publication")
    BY <1>0, <1>8, PublicationElsewhere
  <2>2. FailsOnly("publication") \/ (Leaves("publication") /\ Tracks("publication"))
    BY <1>0, <1>8, PublicationDone
  <2> QED  BY <1>1, <1>2, <1>3, <2>1, <2>2 DEF Replicated
<1>9. CASE CreateSubscription \/ DisableSubscription \/ UnsetSlot \/ DropSubscription
  <2>1. /\ Known'
        /\ pc'["subscription"] = "readBack" => state'["subscription"] = Absent
        /\ Local("subscription") /\ UNCHANGED inputs
        /\ halfDone' \subseteq halfDone \cup {"subscription"}
    BY <1>9, SubscriptionKnown
  <2>2. MappingDeleted'
    BY <1>0, <2>1, OtherMappings
  <2> QED  BY <2>1, <2>2 DEF TrackInv
<1>10. CASE CreateSlot \/ DeleteSlot
  <2>1. \/ FailsOnly("slot")
        \/ /\ Leaves("slot") /\ Tracks("slot")
           /\ \A x \in Names : catalog'["subscription"][x] = catalog["subscription"][x]
    BY <1>0, <1>10, SlotDone
  <2> QED  BY <1>0, <1>1, <2>1
<1>11. CASE FunctionStep
  <2>1. Elsewhere("function")
    BY <1>0, <1>11, FunctionElsewhere DEF FunctionStep
  <2>2. FailsOnly("function") \/ (Leaves("function") /\ Tracks("function"))
    BY <1>0, <1>11, FunctionDone DEF FunctionStep
  <2> QED  BY <1>1, <1>2, <1>3, <2>1, <2>2 DEF Replicated
<1> QED  BY <1>4, <1>5, <1>6, <1>7, <1>8, <1>9, <1>10, <1>11 DEF ForeignDataStep, ReplicationStep

\* A step that leaves what is known of each resource, and the server as it is.
LEMMA SameTracks ==
    ASSUME TrackInv, UNCHANGED <<catalog, scenario>>, halfDone' = halfDone,
           \A k \in Kinds, x \in Names : Knows(k, x) /\ catalog[k][x] # Absent => Knows(k, x)',
           \A x \in Names : Knows("subscription", x)' =>
               Knows("subscription", x) /\ CreatesSlot' = CreatesSlot
    PROVE  Known'
<1>1. \A x \in Names : HasSlot(x) => HasSlot(x)'
  BY DEF HasSlot
<1> QED  BY <1>1 DEF TrackInv, Known

\* So does what Terraform reads and plans.
LEMMA TerraformTracks ==
    ASSUME MappingsFollow, IInv, TypesInv, TrackInv, TerraformStep \/ Edit
    PROVE  TrackInv'
<1>0. /\ InPlay \subseteq Kinds /\ Shape /\ {"subscription", "mapping", "server"} \subseteq Kinds
      /\ config \in Given[scenario].configs
  BY DEF InPlay, GivenKinds, IInv, Shape, Kinds
<1>1. ASSUME NEW k \in InPlay, Refresh(k) PROVE TrackInv'
  <2>1. /\ Local(k) /\ pc[k] = "idle" /\ pc'[k] = "read"
        /\ UNCHANGED <<catalog, missing, inputs, halfDone, failures>>
        /\ \/ /\ state'[k] = Absent
              /\ state[k] # Absent => catalog[k][state[k].name] = Absent
           \/ /\ state[k] # Absent /\ state'[k] # Absent /\ state'[k].name = state[k].name
              /\ k = "subscription" => state'[k].createSlot = state[k].createSlot
    <3>1. k \in Kinds /\ pc[k] = "idle"
      BY <1>0, <1>1 DEF Refresh
    <3> QED  BY <1>0, <1>1, <3>1, RefreshFacts
  <2>2. config' = config /\ scenario' = scenario
    BY <2>1 DEF inputs
  <2>3. ASSUME NEW j \in Kinds, NEW x \in Names
        PROVE  /\ Knows(j, x) /\ catalog[j][x] # Absent => Knows(j, x)'
               /\ Knows(j, x)' => Knows(j, x)
               /\ j = "subscription" /\ Knows(j, x)' => CreatesSlot' = CreatesSlot
    <3>1. CASE j # k
      <4>1. state'[j] = state[j] /\ pc'[j] = pc[j]
        BY <2>1, <3>1 DEF Local
      <4> QED  BY <2>2, <4>1, SameKnown
    <3>2. CASE j = k
      BY <2>1, <3>2 DEF Knows, CreatesSlot
    <3> QED  BY <3>1, <3>2
  <2>4. Known'
    BY <1>0, <2>1, <2>2, <2>3, SameTracks
  <2>5. pc'["subscription"] = "readBack" => state'["subscription"] = Absent
    BY <1>0, <2>1 DEF Local, TrackInv
  <2>6. MappingDeleted'
    <3>1. CASE k = "mapping"
      BY <1>1, <3>1, MappingSteps
    <3>2. CASE k # "mapping"
      BY <1>0, <2>1, <3>2, OtherMappings
    <3> QED  BY <3>1, <3>2
  <2> QED  BY <2>4, <2>5, <2>6 DEF TrackInv
<1>2. ASSUME NEW k \in InPlay, ReadBack(k) PROVE TrackInv'
  <2>1. /\ k \in Kinds /\ pc[k] = "readBack" /\ config[k] # Absent
        /\ \/ FailsOnly(k)
           \/ /\ UNCHANGED <<catalog, missing, inputs, halfDone, failures>>
              /\ \E inst : /\ Record(k, inst) /\ inst # Absent /\ inst.name = config[k].name
                           /\ k = "subscription" => inst.createSlot = config[k].createSlot
    <3>1. k \in Kinds
      BY <1>0
    <3> QED  BY <1>0, <1>2, <3>1, ReadBackFacts
  <2>2. /\ Known' /\ Local(k) /\ UNCHANGED inputs /\ halfDone' \subseteq halfDone \cup {k}
        /\ pc'[k] \in {"over", "failed"}
    <3>1. CASE FailsOnly(k)
      <4>1. Known' /\ Local(k)
        BY <1>0, <2>1, <3>1, FailKnown, Results DEF FailsOnly
      <4> QED  BY <1>0, <2>1, <3>1, <4>1 DEF FailsOnly, Fail, Shape
    <3>2. CASE ~FailsOnly(k)
      <4>1. PICK inst : /\ Record(k, inst) /\ inst # Absent /\ inst.name = config[k].name
                        /\ k = "subscription" => inst.createSlot = config[k].createSlot
        BY <2>1, <3>2
      <4>2. UNCHANGED <<catalog, inputs, halfDone>>
        BY <2>1, <3>2
      <4>3. Local(k) /\ state'[k] = inst /\ pc'[k] \in {"over", "failed"}
        BY <1>0, <2>1, <4>1, Results DEF Record, Shape
      <4>4. config' = config /\ scenario' = scenario
        BY <4>2 DEF inputs
      <4>5. ASSUME NEW j \in Kinds, NEW x \in Names
            PROVE  /\ Knows(j, x)' <=> Knows(j, x)
                   /\ j = "subscription" => CreatesSlot' = CreatesSlot
        <5>1. CASE j # k
          <6>1. state'[j] = state[j] /\ pc'[j] = pc[j]
            BY <4>3, <5>1 DEF Local
          <6> QED  BY <4>4, <6>1, SameKnown
        <5>2. CASE j = k
          BY <2>1, <4>1, <4>3, <4>4, <5>2 DEF Knows, CreatesSlot
        <5> QED  BY <5>1, <5>2
      <4>6. Known'
        BY <1>0, <4>2, <4>4, <4>5, SameTracks
      <4> QED  BY <4>2, <4>3, <4>6
    <3> QED  BY <3>1, <3>2
  <2>3. pc'["subscription"] = "readBack" => state'["subscription"] = Absent
    BY <1>0, <2>2 DEF Local, TrackInv
  <2>4. k # "mapping"
    BY <2>1 DEF TrackInv, MappingDeleted
  <2>5. MappingDeleted'
    BY <1>0, <2>2, <2>4, OtherMappings
  <2> QED  BY <2>2, <2>3, <2>5 DEF TrackInv
<1>3. ASSUME NEW k \in InPlay, Skip(k) PROVE TrackInv'
  <2>1. FailsOnly(k) /\ k \in Kinds
    BY <1>0, <1>3 DEF Skip, FailsOnly
  <2>2. /\ Known' /\ Local(k) /\ UNCHANGED inputs /\ halfDone' \subseteq halfDone \cup {k}
        /\ pc'[k] = "failed"
    BY <1>0, <2>1, FailKnown, Results DEF FailsOnly, Fail, Shape
  <2>3. pc'["subscription"] = "readBack" => state'["subscription"] = Absent
    BY <1>0, <2>2 DEF Local, TrackInv
  <2>4. MappingDeleted'
    <3>1. CASE k = "mapping"
      BY <1>3, <3>1, MappingSteps
    <3>2. CASE k # "mapping"
      BY <1>0, <2>2, <3>2, OtherMappings
    <3> QED  BY <3>1, <3>2
  <2> QED  BY <2>2, <2>3, <2>4 DEF TrackInv
<1>4. CASE Plan
  <2>1. /\ \A k \in InPlay : pc[k] = "read"
        /\ pc' = [k \in Kinds |-> IF k \in InPlay THEN ToDo(k) ELSE "over"]
        /\ UNCHANGED <<catalog, missing, inputs, state, tainted, halfDone, failures>>
    BY <1>4 DEF Plan
  <2>2. config' = config /\ scenario' = scenario /\ InPlay' = InPlay
    BY <2>1 DEF inputs, InPlay
  <2>3. ASSUME NEW k \in Kinds
        PROVE  /\ pc[k] # "readBack" /\ pc'[k] \in {"over", ToDo(k)}
               /\ pc'[k] \notin {"readBack", "unset", "drop"}
    <3>1. config[k] # Absent => k \in InPlay
      BY <1>0 DEF InPlay, GivenKinds, Shape
    <3>2. pc[k] = "readBack" => config[k] # Absent
      BY DEF TypesInv, At
    <3> QED  BY <2>1, <3>1, <3>2, ToDoAt
  <2>4. ASSUME NEW k \in Kinds, NEW x \in Names
        PROVE  (Knows(k, x)' <=> Knows(k, x)) /\ (k = "subscription" =>
              CreatesSlot' = CreatesSlot)
    BY <2>1, <2>2, <2>3 DEF Knows, CreatesSlot
  <2>5. Known'
    BY <1>0, <2>1, <2>2, <2>4, SameTracks
  <2>6. ASSUME pc'["server"] = "update", state["mapping"] # Absent,
               state["mapping"].name # config["server"].name
        PROVE  pc'["mapping"] = "delete"
    <3>1. "mapping" \in InPlay /\ pc'["mapping"] = ToDo("mapping")
      BY <1>0, <2>1, <2>6 DEF TrackInv, MappingDeleted
    <3>2. CASE config["mapping"] = Absent
      BY <2>6, <3>1, <3>2, Zenon DEF ToDo
    <3>3. CASE config["mapping"] # Absent
      <4>1. config["mapping"].name = config["server"].name
        BY <1>0, <3>3 DEF MappingsFollow, Shape, Given
      <4>2. PlanTyped("mapping")
        BY <1>0, <3>3, PlannedTyped DEF TypesInv, TypeOK
      <4>3. Planned("mapping").name # state["mapping"].name
        BY <2>6, <4>1, <4>2 DEF PlanTyped
      <4>4. \E f \in ForceNew["mapping"] : Planned("mapping")[f] # state["mapping"][f]
        BY <4>3 DEF ForceNew
      <4> QED  BY <2>6, <3>1, <3>3, <4>4 DEF ToDo
    <3> QED  BY <3>2, <3>3
  <2>7. MappingDeleted'
    BY <1>0, <2>1, <2>2, <2>3, <2>6 DEF TrackInv, MappingDeleted
  <2> QED  BY <1>0, <2>3, <2>5, <2>7 DEF TrackInv
<1>5. ASSUME NEW c, Run(c) PROVE TrackInv'
  <2>1. /\ \A k \in Kinds : pc[k] # "readBack"
        /\ pc' = [k \in Kinds |-> IF k \in InPlay THEN "idle" ELSE "over"]
        /\ UNCHANGED <<catalog, missing, scenario, state, tainted, halfDone, drifts, failures>>
    BY <1>5 DEF Run, Settled
  <2>2. \A k \in Kinds : pc'[k] \in {"idle", "over"}
    BY <2>1
  <2>3. ASSUME NEW k \in Kinds, NEW x \in Names
        PROVE  (Knows(k, x)' <=> Knows(k, x)) /\ (k = "subscription" =>
              CreatesSlot' = CreatesSlot)
    BY <2>1, <2>2 DEF Knows, CreatesSlot
  <2>4. Known'
    BY <1>0, <2>1, <2>3, SameTracks
  <2>5. MappingDeleted'
    BY <1>0, <2>1, <2>2 DEF TrackInv, MappingDeleted, InPlay
  <2> QED  BY <1>0, <2>2, <2>4, <2>5 DEF TrackInv
<1> QED  BY <1>1, <1>2, <1>3, <1>4, <1>5 DEF TerraformStep, RunAgain, Edit

\* And what others do.
LEMMA DriftedTracks ==
    ASSUME TrackInv, Drifted
    PROVE  TrackInv'
<1>1. UNCHANGED <<scenario, config, state, pc, halfDone>> /\ InPlay' = InPlay
  BY DEF Drifted, InPlay
<1>2. \A k \in Kinds, x \in Names : Knows(k, x)' <=> Knows(k, x)
  BY <1>1 DEF Knows
<1>3. Known'
  BY <1>1, <1>2 DEF TrackInv, Known, Drifted
<1> QED  BY <1>1, <1>3 DEF TrackInv, MappingDeleted

\* Every step leaves all objects known.
LEMMA NextTracks ==
    ASSUME MappingsFollow, IInv, TypesInv, TrackInv, [Next]_vars
    PROVE  TrackInv'
<1>1. CASE UNCHANGED vars
  <2>1. UNCHANGED <<catalog, scenario, config, state, pc, halfDone>> /\ InPlay' = InPlay
    BY <1>1 DEF vars, inputs, InPlay
  <2>2. Known'
    <3>1. \A k \in Kinds, x \in Names : Knows(k, x)' <=> Knows(k, x)
      BY <2>1 DEF Knows
    <3>2. CreatesSlot' = CreatesSlot
      BY <2>1 DEF CreatesSlot
    <3>3. "subscription" \in Kinds
      BY Types
    <3> QED  BY <2>1, <3>1, <3>2, <3>3, SameTracks
  <2> QED  BY <2>1, <2>2 DEF TrackInv, MappingDeleted
<1>2. CASE DropObject \/ AlterObject \/ DropRole
  BY <1>2, DropObjectDrifts, AlterObjectDrifts, DropRoleDrifts, DriftedTracks
<1> QED  BY <1>1, <1>2, OperationTracks, TerraformTracks DEF Next, Step

\* At first nothing is there that is not the scenario's.
LEMMA InitTracks ==
    Init => TrackInv
<1> SUFFICES ASSUME Init PROVE TrackInv
  OBVIOUS
<1>1. Known
  BY DEF Init, Known
<1> QED  BY <1>1, Types DEF Init, TrackInv, MappingDeleted, Kinds

\* No object that the provider has made is lost, whatever fails and whatever others
\* change, but for those whose reading failed after they were made: an operation
\* that fails has made none, one that succeeds is recorded by the name of what it
\* has made, and what follows the renaming of a server is known by its new name.
THEOREM TrackedAlways == MappingsFollow => (Spec => []Tracked)
<1>1. SUFFICES ASSUME MappingsFollow PROVE Spec => []Tracked
  OBVIOUS
<1>2. Init => TrackInv
  BY InitTracks
<1>3. IInv /\ TypesInv /\ TrackInv /\ [Next]_vars => TypesInv' /\ TrackInv'
  BY <1>1, NextTypes, NextTracks
<1>4. TrackInv => Tracked
  <2> SUFFICES ASSUME TrackInv, NEW k \in Kinds \ halfDone, NEW n \in Names,
                      catalog[k][n] # Absent, Given[scenario].there[k][n] = Absent,
                      pc[k] # "readBack"
               PROVE  \/ state[k] # Absent /\ state[k].name = n
                      \/ k = "slot" /\ \E m \in Names : catalog.subscription[m] # Absent
                                                        /\ catalog.subscription[m].slot = n
    BY DEF Tracked
  <2> QED  BY DEF TrackInv, Known, Knows, HasSlot
<1> QED  BY <1>2, <1>3, <1>4, InitTypes, Invariance, PTL DEF Spec

-----------------------------------------------------------------------------
(* The policies in the state are in force. *)

\* The privileges on a schema are those of some policies: roles that are not gone and
\* have never owned it have what is theirs of these, and nobody but its owner has more.
Right(row, granted, gone) ==
    /\ row.owner \in row.owners
    /\ \A g \in granted : g[1] \in Roles \ (gone \cup row.owners) => g \in row.acl
    /\ \A g \in row.acl : g[1] \in Roles \ (gone \cup {row.owner}) => g \in granted

\* The policies that a schema is to have, once it is made or altered.
InForce ==
    IF pc["schema"] = "readBack" THEN config["schema"].policies ELSE state["schema"].policies

\* The inductive invariant: roles have what the policies of the schema that is known
\* give them, and nothing of other schemas, their owners apart.
PolicyInv ==
    "schema" \notin halfDone =>
        \A x \in Names : catalog["schema"][x] # Absent =>
            Right(catalog["schema"][x], IF Knows("schema", x) THEN Grants(InForce) ELSE {}, missing)

\* A schema that is made is its owner's; one that is given away takes with it only what
\* was its owner's; and what roles had that are dropped is nobody's.
LEMMA OwnerRight ==
    /\ \A o \in Roles : \A gone : Right(NewSchema(o), {}, gone)
    /\ \A row, o, granted, gone : Right(row, granted, gone) => Right(OwnedBy(row, o), granted, gone)
<1>1. ASSUME NEW o \in Roles, NEW gone PROVE Right(NewSchema(o), {}, gone)
  <2>1. /\ NewSchema(o).owner = o /\ NewSchema(o).owners = {o}
        /\ NewSchema(o).acl = {o} \X Privileges
    BY DEF NewSchema
  <2> QED  BY <2>1 DEF Right
<1>2. ASSUME NEW row, NEW o, NEW granted, NEW gone, Right(row, granted, gone)
      PROVE  Right(OwnedBy(row, o), granted, gone)
  <2> DEFINE owned == OwnedBy(row, o)
             moved(g) == IF g[1] = row.owner THEN <<o, g[2]>> ELSE g
  <2>1. /\ owned.owner = o /\ owned.owners = row.owners \cup {o}
        /\ owned.acl = {moved(g) : g \in row.acl}
    BY DEF OwnedBy
  <2> HIDE DEF owned
  <2>2. ASSUME NEW g \in granted, g[1] \in Roles \ (gone \cup owned.owners)
        PROVE  g \in owned.acl
    <3>1. g \in row.acl /\ g[1] # row.owner
      BY <1>2, <2>1, <2>2 DEF Right
    <3>2. moved(g) = g
      BY <3>1
    <3> HIDE DEF moved
    <3> QED  BY <2>1, <3>1, <3>2
  <2>3. ASSUME NEW g \in owned.acl, g[1] \in Roles \ (gone \cup {owned.owner})
        PROVE  g \in granted
    <3>1. PICK h \in row.acl : g = moved(h)
      BY <2>1
    <3>2. h[1] # row.owner
      BY <2>1, <2>3, <3>1
    <3>3. g = h
      BY <3>1, <3>2
    <3> QED  BY <1>2, <2>3, <3>2, <3>3 DEF Right
  <2> QED  BY <2>1, <2>2, <2>3 DEF Right, owned
<1> QED  BY <1>1, <1>2

LEMMA DroppedRight ==
    ASSUME NEW row \in Row["schema"], NEW role, NEW granted, NEW gone, NEW after,
           Right(row, granted, gone), gone \subseteq after, role \in after
    PROVE  Right(row, granted, after) /\ Right(WithoutPrivileges(row, role), granted, after)
<1>1. Right(row, granted, after)
  BY DEF Right
<1> DEFINE new == WithoutPrivileges(row, role)
<1>2. row # Absent
  BY CatalogAssumption DEF Kinds
<1>3. new = [row EXCEPT !.acl = {p \in row.acl : p[1] # role}]
  BY <1>2 DEF WithoutPrivileges
<1> HIDE DEF new
<1>4. /\ new.acl = {p \in row.acl : p[1] # role}
      /\ new.owner = row.owner /\ new.owners = row.owners
  BY <1>3, KindTypes
<1> QED  BY <1>1, <1>4 DEF Right, new

\* What is revoked and granted makes the difference of two configurations: a role has
\* one policy in each, which is replaced or withdrawn.
LEMMA ChangesRight ==
    ASSUME NEW old \in Policies, NEW new \in Policies,
           NEW row \in Row["schema"], Right(row, Grants(old), missing)
    PROVE  LET changes == PolicyChanges(old, new)
           IN  Right([row EXCEPT !.acl = (@ \ Grants(changes.revoked)) \cup Grants(changes.granted)],
                     Grants(new), missing)
<1> DEFINE revoked == PolicyChanges(old, new).revoked
           granted == PolicyChanges(old, new).granted
           acl == row.acl
           after == (acl \ Grants(revoked)) \cup Grants(granted)
           changed == [row EXCEPT !.acl = after]
<1>1. \A P, g : g \in Grants(P) <=> \E p \in P : \E v \in p.privileges : g = <<p.role, v>>
  BY DEF Grants
<1>2. /\ old \subseteq Policy /\ new \subseteq Policy
      /\ \A p, q \in old : p.role = q.role => p = q
  BY DEF Policies
<1>3. /\ revoked = {p \in old : IF \E q \in new : q.role = p.role THEN p \notin new
                                 ELSE p.role \notin missing \cup {Public}}
      /\ granted = new \ old
  BY DEF PolicyChanges
<1> HIDE DEF revoked, granted
<1>4. changed.acl = after /\ changed.owner = row.owner /\ changed.owners = row.owners
  BY KindTypes
<1> HIDE DEF changed
<1>5. ASSUME NEW g \in after, g[1] \in Roles \ (missing \cup {row.owner})
      PROVE  g \in Grants(new)
  <2>1. CASE g \in Grants(granted)
    <3>1. granted \subseteq new
      BY <1>3
    <3> QED  BY <1>1, <2>1, <3>1
  <2>2. CASE g \in acl /\ g \notin Grants(revoked)
    <3>1. g \in Grants(old)
      BY <1>5, <2>2 DEF Right
    <3>2. PICK p \in old : \E v \in p.privileges : g = <<p.role, v>>
      BY <1>1, <3>1
    <3>3. p \notin revoked
      BY <1>1, <2>2, <3>2
    <3>4. p.role \notin missing \cup {Public}
      BY <1>5, <3>2, CatalogAssumption
    <3>5. p \in new
      BY <1>3, <3>3, <3>4
    <3> QED  BY <1>1, <3>2, <3>5
  <2> QED  BY <1>5, <2>1, <2>2
<1>6. ASSUME NEW g \in Grants(new), g[1] \in Roles \ (missing \cup row.owners)
      PROVE  g \in after
  <2>1. PICK q \in new : \E v \in q.privileges : g = <<q.role, v>>
    BY <1>1, <1>6
  <2>2. CASE q \in old
    <3>1. g \in acl
      <4>1. g \in Grants(old)
        BY <1>1, <2>1, <2>2
      <4> QED  BY <1>6, <4>1 DEF Right
    <3>2. g \notin Grants(revoked)
      <4>1. SUFFICES ASSUME NEW p \in revoked, p.role = q.role PROVE FALSE
        BY <1>1, <2>1
      <4>2. p = q
        BY <1>2, <1>3, <2>2, <4>1
      <4> QED  BY <1>3, <2>1, <4>1, <4>2
    <3> QED  BY <3>1, <3>2
  <2>3. CASE q \notin old
    BY <1>1, <1>3, <2>1, <2>3
  <2> QED  BY <2>2, <2>3
<1>7. row.owner \in row.owners
  BY DEF Right
<1>8. Right(changed, Grants(new), missing)
  BY <1>4, <1>5, <1>6, <1>7 DEF Right
<1> QED  BY <1>8 DEF changed, revoked, granted

\* The policies in a plan are those configured.
LEMMA PoliciesTyped ==
    ASSUME Shape, KindInv("schema")
    PROVE  /\ state["schema"] # Absent => state["schema"].policies \in Policies
           /\ config["schema"] # Absent =>
                /\ Planned("schema").policies = config["schema"].policies
                /\ config["schema"].policies \in Policies
                /\ Planned("schema").name = config["schema"].name
                /\ Planned("schema").name \in Names
<1> DEFINE c == config["schema"]
           s == state["schema"]
<1>0. "schema" \in Kinds
  BY DEF Kinds
<1>1. s # Absent => s \in SchemaConfig
  BY KindTypes DEF KindInv, Complete
<1>2. ASSUME c # Absent
      PROVE  /\ c \in SchemaConfig /\ c.policies # Unset /\ "policies" \in DOMAIN c
             /\ PlanTyped("schema")
  <2>1. c \in SchemaConfig
    BY <1>0, <1>2, ConfigTyped, KindTypes
  <2>2. PlanTyped("schema")
    BY <1>0, <1>2, PlannedTyped DEF KindInv
  <2> QED  BY <2>1, <2>2, CatalogAssumption DEF SchemaConfig, Policies
<1>3. c # Absent => Planned("schema").policies = c.policies /\ Planned("schema").name = c.name
  BY <1>2, PlannedAttributes DEF PlanTyped
<1> QED  BY <1>1, <1>2, <1>3 DEF SchemaConfig

\* The operations of the schema keep them in force,
LEMMA SchemaPolicies ==
    ASSUME IInv, TypesInv, PolicyInv, CreateSchema \/ UpdateSchema \/ DeleteSchema
    PROVE  PolicyInv'
<1> DEFINE k == "schema"
           s == state["schema"]
           c == Planned("schema")
<1>0. /\ Rows(catalog) /\ k \in Kinds /\ Shape /\ Typed(catalog) /\ KindInv(k)
  BY TypedCatalog DEF IInv, TypesInv, Shape, Rows, Kinds
<1>1. CASE FailsOnly(k)
  <2>1. UNCHANGED <<catalog, missing, config, state>> /\ pc'[k] = "failed" /\ pc[k] # "readBack"
        /\ halfDone \subseteq halfDone'
    BY <1>0, <1>1 DEF FailsOnly, Fail, inputs, Shape, CreateSchema, UpdateSchema, DeleteSchema, Turn
  <2> QED  BY <2>1 DEF PolicyInv, Knows, InForce
<1>2. CASE CreateSchema /\ ~FailsOnly(k)
  <2> DEFINE row == catalog["schema"][c.name]
             owned == IF row = Absent THEN NewSchema(Told(c.owner, Me))
                      ELSE OwnedBy(row, Told(c.owner, row.owner))
             new == [owned EXCEPT !.acl = @ \cup Grants(c.policies)]
  <2>1. /\ pc[k] = "create" /\ catalog' = Put(k, c.name, new) /\ Continue(k, "readBack")
        /\ UNCHANGED <<missing, inputs, halfDone, failures>>
    BY <1>2 DEF CreateSchema, Try, FailsOnly, Turn
  <2>2. config[k] # Absent /\ s = Absent /\ At(k)
    BY <1>0, <2>1 DEF KindInv, At
  <2>3. c.policies = config[k].policies /\ c.name = config[k].name /\ c.name \in Names
    BY <1>0, <2>2, PoliciesTyped
  <2> HIDE DEF c
  <2>4. \A x : ~Knows(k, x) /\ (Knows(k, x)' <=> c.name = x)
    BY <1>0, <2>1, <2>2, <2>3, KnowsAfter
  <2>5. InForce' = c.policies
    BY <1>0, <2>1, <2>3 DEF InForce, Continue, Shape, inputs
  <2>6. c.owner \in Roles \cup {Unset} /\ c.policies \in SUBSET Policy
    <3>1. c \in SchemaConfig
      BY <1>0, <2>2, PlannedTyped, KindTypes DEF PlanTyped, c
    <3> QED  BY <3>1 DEF SchemaConfig, Policies
  <2>7. ASSUME "schema" \notin halfDone' PROVE owned \in Row[k] /\ Right(owned, {}, missing)
    <3>1. CASE row = Absent
      <4>1. Told(c.owner, Me) \in Roles
        BY <2>6, CatalogAssumption DEF Told
      <4> QED  BY <3>1, <4>1, SchemaRows, OwnerRight
    <3>2. CASE row # Absent
      <4>1. row \in Row[k]
        BY <1>0, <2>3, <3>2 DEF Typed
      <4>2. Told(c.owner, row.owner) \in Roles
        <5> HIDE DEF row
        <5>1. row.owner \in Roles
          BY <4>1, KindTypes
        <5> QED  BY <2>6, <5>1 DEF Told
      <4>3. Right(row, {}, missing)
        BY <2>1, <2>3, <2>4, <2>7, <3>2 DEF PolicyInv
      <4> HIDE DEF row
      <4> QED  BY <3>2, <4>1, <4>2, <4>3, SchemaRows, OwnerRight
    <3> QED  BY <3>1, <3>2
  <2> HIDE DEF row, owned
  <2>8. ASSUME "schema" \notin halfDone' PROVE Right(new, Grants(c.policies), missing)
    <3>1. new.acl = owned.acl \cup Grants(c.policies) /\ new.owner = owned.owner
          /\ new.owners = owned.owners
      BY <2>7, <2>8, KindTypes
    <3> HIDE DEF new
    <3> QED  BY <2>7, <2>8, <3>1 DEF Right
  <2> HIDE DEF new
  <2>9. ASSUME "schema" \notin halfDone', NEW x \in Names, catalog'[k][x] # Absent
        PROVE  Right(catalog'[k][x], IF Knows(k, x)' THEN Grants(InForce') ELSE {}, missing')
    <3>1. catalog'[k][x] = IF x = c.name THEN new ELSE catalog[k][x]
      BY <1>0, <2>1, PutFacts
    <3>2. CASE x = c.name
      BY <2>1, <2>4, <2>5, <2>8, <2>9, <3>1, <3>2
    <3>3. CASE x # c.name
      BY <2>1, <2>4, <2>9, <3>1, <3>3 DEF PolicyInv
    <3> QED  BY <3>2, <3>3
  <2> QED  BY <2>9 DEF PolicyInv
<1>3. CASE UpdateSchema /\ ~FailsOnly(k)
  <2> DEFINE row == catalog["schema"][s.name]
             changes == PolicyChanges(s.policies, c.policies)
             owner == IF c.owner = s.owner THEN {} ELSE {c.owner}
             idle == c.name = s.name /\ owner \cup changes.revoked \cup changes.granted = {}
             owned == IF owner = {} THEN row ELSE OwnedBy(row, c.owner)
             new == [owned EXCEPT !.acl = (@ \ Grants(changes.revoked)) \cup Grants(changes.granted)]
  <2>1. /\ pc[k] = "update" /\ Continue(k, "readBack")
        /\ idle \/ row # Absent
        /\ catalog' = IF idle THEN catalog ELSE Renamed(k, s.name, c.name, new)
        /\ UNCHANGED <<missing, inputs, halfDone, failures>>
    BY <1>3 DEF UpdateSchema, Try, FailsOnly, Turn
  <2>2. config[k] # Absent /\ s # Absent /\ At(k) /\ s \in Complete(SchemaConfig)
    BY <1>0, <2>1, KindTypes DEF KindInv, At
  <2>3. /\ c.policies = config[k].policies /\ c.name = config[k].name /\ c.name \in Names
        /\ s.policies \in Policies /\ c.policies \in Policies /\ s.name \in Names
    <3>1. s.name \in Names
      BY <1>0, <2>2, NameTyped, KindTypes DEF Complete
    <3> QED  BY <1>0, <2>2, <3>1, PoliciesTyped
  <2> HIDE DEF c
  <2>4. \A x : (Knows(k, x) <=> s.name = x) /\ (Knows(k, x)' <=> c.name = x)
    BY <1>0, <2>1, <2>2, <2>3, KnowsAfter
  <2>5. InForce' = c.policies /\ InForce = s.policies
    BY <1>0, <2>1, <2>3 DEF InForce, Continue, Shape, inputs
  <2>6. c.owner \in Roles
    <3>1. PlanTyped(k)
      BY <1>0, <2>2, PlannedTyped DEF KindInv
    <3>2. c \in Complete(SchemaConfig)
      BY <2>2, <3>1, KindTypes DEF PlanTyped, c
    <3>3. c \in SchemaConfig
      BY <3>2 DEF Complete
    <3> QED  BY <3>2, <3>3, CompleteSchema
  <2>7. idle => changes.revoked = {} /\ changes.granted = {} /\ c.name = s.name /\ owner = {}
    OBVIOUS
  <2>8. ASSUME "schema" \notin halfDone', row # Absent
        PROVE  Right(new, Grants(c.policies), missing) /\ (idle => new = row)
    <3>1. Right(row, Grants(s.policies), missing) /\ row \in Row[k]
      BY <1>0, <2>1, <2>3, <2>4, <2>5, <2>8 DEF PolicyInv, Typed
    <3>2. owned \in Row[k] /\ Right(owned, Grants(s.policies), missing)
      <4> HIDE DEF row
      <4> QED  BY <2>6, <3>1, SchemaRows, OwnerRight
    <3>3. idle => owned = row
      OBVIOUS
    <3> HIDE DEF row, owned
    <3>4. Right(new, Grants(c.policies), missing)
      BY <2>3, <3>2, ChangesRight
    <3>5. ASSUME idle PROVE new = owned
      <4>1. Grants({}) = {}
        BY DEF Grants
      <4>2. new = [owned EXCEPT !.acl = (owned.acl \ {}) \cup {}]
        BY <2>7, <3>5, <4>1
      <4> HIDE DEF new
      <4>3. new = [owned EXCEPT !.acl = owned.acl]
        BY <4>2
      <4> QED  BY <3>2, <4>3, KindTypes
    <3> QED  BY <3>3, <3>4, <3>5
  <2> HIDE DEF s, row, changes, owner, idle, new
  <2>9. ASSUME "schema" \notin halfDone', NEW x \in Names, catalog'[k][x] # Absent
        PROVE  Right(catalog'[k][x], IF Knows(k, x)' THEN Grants(InForce') ELSE {}, missing')
    <3>1. CASE idle
      <4>1. catalog' = catalog /\ c.name = s.name
        BY <2>1, <2>7, <3>1
      <4>2. CASE x = c.name
        <5>1. row = catalog'[k][x] /\ row # Absent
          BY <2>9, <4>1, <4>2 DEF row
        <5> QED  BY <2>1, <2>4, <2>5, <2>8, <2>9, <3>1, <4>2, <5>1
      <4>3. CASE x # c.name
        BY <2>1, <2>4, <2>9, <4>1, <4>3 DEF PolicyInv
      <4> QED  BY <4>2, <4>3
    <3>2. CASE ~idle
      <4>1. catalog'[k][x] = IF x = c.name THEN new ELSE IF x = s.name THEN Absent ELSE catalog[k][x]
        <5>1. IsRenamed(catalog', k, s.name, c.name, new)
          BY <1>0, <2>1, <3>2, RenamedFacts
        <5> QED  BY <5>1 DEF IsRenamed
      <4>2. CASE x = c.name
        BY <2>1, <2>4, <2>5, <2>8, <2>9, <3>2, <4>1, <4>2
      <4>3. CASE x # c.name
        <5>1. catalog'[k][x] = catalog[k][x] /\ x # s.name
          BY <2>9, <4>1, <4>3
        <5> QED  BY <2>1, <2>4, <2>9, <4>3, <5>1 DEF PolicyInv
      <4> QED  BY <4>2, <4>3
    <3> QED  BY <3>1, <3>2
  <2> QED  BY <2>9 DEF PolicyInv
<1>4. CASE DeleteSchema /\ ~FailsOnly(k)
  <2>1. /\ pc[k] = "delete" /\ Forget(k)
        /\ \/ catalog' = Without(Doomed(<<k, s.name>>))
           \/ catalog' = catalog /\ catalog[k][s.name] = Absent
        /\ UNCHANGED <<missing, inputs, halfDone, failures>>
    BY <1>4 DEF DeleteSchema, Try, FailsOnly, Turn
  <2>2. At(k) /\ s # Absent
    BY <1>0, <2>1 DEF KindInv, At
  <2>3. \A x : (Knows(k, x) <=> s.name = x) /\ ~Knows(k, x)'
    BY <1>0, <2>1, <2>2, KnowsAfter
  <2>4. ASSUME NEW x \in Names, catalog'[k][x] # Absent
        PROVE  catalog'[k][x] = catalog[k][x] /\ x # s.name
    <3>1. CASE catalog' = Without(Doomed(<<k, s.name>>))
      <4> DEFINE S == Doomed(<<k, s.name>>)
      <4>1. <<k, s.name>> \in S
        BY DEF Doomed, WithDependents
      <4> HIDE DEF S
      <4>2. Without(S)[k][x] = IF <<k, x>> \in S THEN Absent ELSE catalog[k][x]
        BY <1>0, WithoutFacts
      <4>3. catalog' = Without(S)
        BY <3>1 DEF S
      <4> QED  BY <2>4, <4>1, <4>2, <4>3
    <3>2. CASE catalog' = catalog /\ catalog[k][s.name] = Absent
      BY <2>4, <3>2
    <3> QED  BY <2>1, <3>1, <3>2
  <2>5. ASSUME "schema" \notin halfDone', NEW x \in Names, catalog'[k][x] # Absent
        PROVE  Right(catalog'[k][x], {}, missing')
    BY <2>1, <2>3, <2>4, <2>5 DEF PolicyInv
  <2> QED  BY <2>3, <2>5 DEF PolicyInv
<1> QED  BY <1>1, <1>2, <1>3, <1>4

\* What an operation of another kind leaves: the schemas, or some of them.
SchemasLeft(k) ==
    /\ k \in Kinds \ {"schema"}
    /\ Local(k) /\ UNCHANGED inputs /\ missing' = missing /\ halfDone \subseteq halfDone'
    /\ \A x \in Names : catalog'["schema"][x] \in {Absent, catalog["schema"][x]}

\* Schemas are not what is put, dropped or renamed.
LEMMA LeftFacts ==
    ASSUME Shape, NEW k \in Kinds \ {"schema"}, NEW n, NEW m, NEW row,
           \/ catalog' \in {catalog, Put(k, n, row), Without(Doomed(<<k, n>>))}
           \/ k \in {"server", "publication"} /\ catalog' = Renamed(k, n, m, row)
    PROVE  \A x \in Names : catalog'["schema"][x] \in {Absent, catalog["schema"][x]}
<1>0. Rows(catalog) /\ "schema" \in Kinds \ {k}
  BY DEF Shape, Rows, Kinds
<1>1. CASE catalog' = catalog
  BY <1>1
<1>2. CASE catalog' = Put(k, n, row)
  BY <1>0, <1>2, PutFacts
<1>3. CASE catalog' = Without(Doomed(<<k, n>>))
  <2> DEFINE S == Doomed(<<k, n>>)
  <2> HIDE DEF S
  <2>1. \A x \in Names :
          Without(S)["schema"][x] = IF <<"schema", x>> \in S THEN Absent ELSE catalog["schema"][x]
    BY <1>0, WithoutFacts
  <2>2. catalog' = Without(S)
    BY <1>3 DEF S
  <2> QED  BY <2>1, <2>2
<1>4. CASE k \in {"server", "publication"} /\ catalog' = Renamed(k, n, m, row)
  <2>1. IsRenamed(catalog', k, n, m, row)
    BY <1>0, <1>4, RenamedFacts
  <2> QED  BY <1>0, <1>4, <2>1 DEF IsRenamed
<1> QED  BY <1>1, <1>2, <1>3, <1>4

\* An operation fails, or leaves them as its statement does.
LEMMA LeftDone ==
    ASSUME Shape, NEW k \in Kinds \ {"schema"}, FailsOnly(k) \/ Leaves(k),
           \A x \in Names : catalog'["schema"][x] \in {Absent, catalog["schema"][x]}
    PROVE  SchemasLeft(k)
BY Results DEF FailsOnly, Fail, Leaves, SchemasLeft

\* The operations of the other kinds leave the schemas.
LEMMA OthersLeave ==
    ASSUME IInv, TypesInv, ForeignDataStep \/ ReplicationStep \/ FunctionStep
    PROVE  \E k \in Kinds : SchemasLeft(k)
<1>0. /\ Shape /\ Typed(catalog) /\ \A k \in Kinds : KindInv(k)
      /\ {"extension", "server", "mapping", "publication", "subscription", "slot",
          "function"} \subseteq Kinds \ {"schema"}
      /\ "schema" \in Kinds \ Replicated
  BY TypedCatalog DEF IInv, TypesInv, Kinds, Replicated
<1>1. CASE CreateExtension \/ UpdateExtension \/ DeleteExtension
  <2>1. FailsOnly("extension") \/ Leaves("extension")
    BY <1>0, <1>1, ExtensionDone
  <2>2. \A x \in Names : catalog'["schema"][x] \in {Absent, catalog["schema"][x]}
    BY <1>0, <1>1, LeftFacts DEF CreateExtension, UpdateExtension, DeleteExtension, Try, Fail
  <2> QED  BY <1>0, <2>1, <2>2, LeftDone
<1>2. CASE CreateServer \/ UpdateServer \/ DeleteServer
  <2>1. FailsOnly("server") \/ Leaves("server")
    BY <1>0, <1>2, ServerDone
  <2>2. \A x \in Names : catalog'["schema"][x] \in {Absent, catalog["schema"][x]}
    <3>1. CASE CreateServer
      BY <1>0, <3>1, LeftFacts DEF CreateServer, Try, Fail
    <3>2. CASE UpdateServer
      BY <1>0, <3>2, LeftFacts DEF UpdateServer, Try, Fail
    <3>3. CASE DeleteServer
      BY <1>0, <3>3, LeftFacts DEF DeleteServer, Try, Fail
    <3> QED  BY <1>2, <3>1, <3>2, <3>3
  <2> QED  BY <1>0, <2>1, <2>2, LeftDone
<1>3. CASE CreateMapping \/ UpdateMapping \/ DeleteMapping
  <2>1. FailsOnly("mapping") \/ Leaves("mapping")
    BY <1>0, <1>3, MappingDone
  <2>2. \A x \in Names : catalog'["schema"][x] \in {Absent, catalog["schema"][x]}
    BY <1>0, <1>3, LeftFacts DEF CreateMapping, UpdateMapping, DeleteMapping, Try, Fail
  <2> QED  BY <1>0, <2>1, <2>2, LeftDone
<1>4. CASE CreatePublication \/ UpdatePublication \/ DeletePublication
  <2>1. FailsOnly("publication") \/ Leaves("publication")
    BY <1>0, <1>4, PublicationDone
  <2>2. \A x \in Names : catalog'["schema"][x] \in {Absent, catalog["schema"][x]}
    <3>1. CASE CreatePublication
      BY <1>0, <3>1, LeftFacts DEF CreatePublication, Try, Fail
    <3>2. CASE UpdatePublication
      BY <1>0, <3>2, LeftFacts DEF UpdatePublication, Try, Fail
    <3>3. CASE DeletePublication
      BY <1>0, <3>3, LeftFacts DEF DeletePublication, Try, Fail
    <3> QED  BY <1>4, <3>1, <3>2, <3>3
  <2> QED  BY <1>0, <2>1, <2>2, LeftDone
<1>5. CASE CreateSubscription \/ DisableSubscription \/ UnsetSlot \/ DropSubscription
  <2>1. \/ FailsOnly("subscription")
        \/ /\ Leaves("subscription")
           /\ \A x \in Names : catalog'["schema"][x] = catalog["schema"][x]
    BY <1>0, <1>5, SubscriptionDone
  <2>2. \A x \in Names : catalog'["schema"][x] \in {Absent, catalog["schema"][x]}
    BY <2>1 DEF FailsOnly, Fail
  <2> QED  BY <1>0, <2>1, <2>2, LeftDone
<1>6. CASE CreateSlot \/ DeleteSlot
  <2>1. FailsOnly("slot") \/ Leaves("slot")
    BY <1>0, <1>6, SlotDone
  <2>2. \A x \in Names : catalog'["schema"][x] \in {Absent, catalog["schema"][x]}
    BY <1>0, <1>6, LeftFacts DEF CreateSlot, DeleteSlot, Try, Fail
  <2> QED  BY <1>0, <2>1, <2>2, LeftDone
<1>7. CASE FunctionStep
  <2>1. FailsOnly("function") \/ Leaves("function")
    BY <1>0, <1>7, FunctionDone DEF FunctionStep
  <2>2. \A x \in Names : catalog'["schema"][x] \in {Absent, catalog["schema"][x]}
    BY <1>0, <1>7, LeftFacts
       DEF FunctionStep, CreateFunction, UpdateFunction, DeleteFunction, Try, Fail
  <2> QED  BY <1>0, <2>1, <2>2, LeftDone
<1> QED  BY <1>1, <1>2, <1>3, <1>4, <1>5, <1>6, <1>7
         DEF ForeignDataStep, ReplicationStep

\* A step that leaves privileges as the same policies have them, with what is known of
\* the schema and its policies.
LEMMA SamePolicies ==
    ASSUME PolicyInv, halfDone \subseteq halfDone',
           \A x \in Names : catalog'["schema"][x] # Absent =>
                /\ catalog["schema"][x] # Absent
                /\ \A granted : Right(catalog["schema"][x], granted, missing) =>
                                 Right(catalog'["schema"][x], granted, missing')
                /\ "schema" \notin halfDone' =>
                     /\ Knows("schema", x)' <=> Knows("schema", x)
                     /\ Knows("schema", x) => InForce' = InForce
    PROVE  PolicyInv'
<1>1. ASSUME "schema" \notin halfDone', NEW x \in Names, catalog'["schema"][x] # Absent
      PROVE  Right(catalog'["schema"][x],
                   IF Knows("schema", x)' THEN Grants(InForce') ELSE {}, missing')
  <2>1. Right(catalog["schema"][x], IF Knows("schema", x) THEN Grants(InForce) ELSE {}, missing)
    BY <1>1 DEF PolicyInv
  <2>2. CASE Knows("schema", x)
    BY <1>1, <2>1, <2>2
  <2>3. CASE ~Knows("schema", x)
    BY <1>1, <2>1, <2>3
  <2> QED  BY <2>2, <2>3
<1> QED  BY <1>1 DEF PolicyInv

\* The operations of the other kinds keep them in force,
LEMMA OtherPolicies ==
    ASSUME PolicyInv, NEW k, SchemasLeft(k)
    PROVE  PolicyInv'
<1>1. "schema" \in Kinds \ {k}
  BY DEF SchemasLeft, Kinds
<1>2. state'["schema"] = state["schema"] /\ pc'["schema"] = pc["schema"] /\ config' = config
      /\ missing' = missing /\ halfDone \subseteq halfDone'
  BY <1>1 DEF SchemasLeft, Local, inputs
<1>3. InForce' = InForce /\ \A x : Knows("schema", x)' <=> Knows("schema", x)
  BY <1>2 DEF InForce, Knows
<1>4. \A x \in Names : catalog'["schema"][x] # Absent =>
      catalog'["schema"][x] = catalog["schema"][x]
  BY DEF SchemasLeft
<1> QED  BY <1>2, <1>3, <1>4, SamePolicies

\* and what Terraform reads and plans,
LEMMA TerraformPolicies ==
    ASSUME IInv, TypesInv, PolicyInv, TerraformStep \/ Edit
    PROVE  PolicyInv'
<1>0. /\ InPlay \subseteq Kinds /\ Shape /\ "schema" \in Kinds /\ KindInv("schema")
  BY TypedCatalog DEF InPlay, GivenKinds, IInv, Shape, Kinds, TypesInv
<1>1. ASSUME NEW k \in InPlay, Refresh(k) PROVE PolicyInv'
  <2>1. /\ Local(k) /\ pc[k] = "idle" /\ pc'[k] = "read" /\ k \in Kinds
        /\ UNCHANGED <<catalog, missing, inputs, halfDone, failures>>
        /\ \/ /\ state'[k] = Absent
              /\ state[k] # Absent => catalog[k][state[k].name] = Absent
           \/ /\ state[k] # Absent /\ state'[k] # Absent /\ state'[k].name = state[k].name
              /\ k = "schema" => state'[k].policies = state[k].policies
    <3>1. k \in Kinds /\ pc[k] = "idle"
      BY <1>0, <1>1 DEF Refresh
    <3> QED  BY <1>0, <1>1, <3>1, RefreshFacts
  <2>2. CASE k # "schema"
    <3>1. SchemasLeft(k)
      BY <2>1, <2>2 DEF SchemasLeft
    <3> QED  BY <3>1, OtherPolicies
  <2>3. CASE k = "schema"
    <3>1. ASSUME NEW x \in Names, catalog["schema"][x] # Absent
          PROVE  /\ Knows("schema", x)' <=> Knows("schema", x)
                 /\ Knows("schema", x) => InForce' = InForce
      BY <2>1, <2>3, <3>1 DEF Knows, InForce
    <3> QED  BY <2>1, <3>1, SamePolicies
  <2> QED  BY <2>2, <2>3
<1>2. ASSUME NEW k \in InPlay, ReadBack(k) PROVE PolicyInv'
  <2>1. /\ k \in Kinds /\ pc[k] = "readBack" /\ config[k] # Absent
        /\ \/ FailsOnly(k)
           \/ /\ UNCHANGED <<catalog, missing, inputs, halfDone, failures>>
              /\ \E inst : /\ Record(k, inst) /\ inst # Absent /\ inst.name = config[k].name
                           /\ k = "schema" => inst.policies = config[k].policies
    <3>1. k \in Kinds
      BY <1>0
    <3> QED  BY <1>0, <1>2, <3>1, ReadBackFacts
  <2>2. CASE FailsOnly(k)
    <3>1. /\ Local(k) /\ UNCHANGED <<catalog, missing, inputs>> /\ halfDone' = halfDone \cup {k}
      BY <1>0, <2>1, <2>2, Results DEF FailsOnly, Fail
    <3>2. CASE k # "schema"
      <4>1. SchemasLeft(k)
        BY <2>1, <3>1, <3>2 DEF SchemasLeft
      <4> QED  BY <4>1, OtherPolicies
    <3>3. CASE k = "schema"
      BY <3>1, <3>3 DEF PolicyInv
    <3> QED  BY <3>2, <3>3
  <2>3. CASE ~FailsOnly(k)
    <3>1. PICK inst : /\ Record(k, inst) /\ inst # Absent /\ inst.name = config[k].name
                      /\ k = "schema" => inst.policies = config[k].policies
      BY <2>1, <2>3
    <3>2. UNCHANGED <<catalog, missing, inputs, halfDone>>
      BY <2>1, <2>3
    <3>3. Local(k) /\ state'[k] = inst /\ pc'[k] \in {"over", "failed"}
      BY <1>0, <2>1, <3>1, Results DEF Record, Shape
    <3>4. CASE k # "schema"
      <4>1. SchemasLeft(k)
        BY <2>1, <3>2, <3>3, <3>4 DEF SchemasLeft
      <4> QED  BY <4>1, OtherPolicies
    <3>5. CASE k = "schema"
      <4>1. InForce' = InForce /\ \A x : Knows("schema", x)' <=> Knows("schema", x)
        BY <2>1, <3>1, <3>3, <3>5 DEF Knows, InForce
      <4> QED  BY <3>2, <4>1, SamePolicies
    <3> QED  BY <3>4, <3>5
  <2> QED  BY <2>2, <2>3
<1>3. ASSUME NEW k \in InPlay, Skip(k) PROVE PolicyInv'
  <2>1. Fail(k) /\ pc[k] \notin {"readBack", "unset", "drop"} /\ k \in Kinds
    BY <1>0, <1>3 DEF Skip
  <2>2. /\ Local(k) /\ UNCHANGED <<catalog, missing, inputs, state, halfDone>>
        /\ pc'[k] = "failed"
    BY <1>0, <2>1, Results DEF Fail, Shape
  <2>3. pc["schema"] = "readBack" <=> pc'["schema"] = "readBack"
    BY <1>0, <2>1, <2>2 DEF Local
  <2>4. InForce' = InForce /\ \A x : Knows("schema", x)' <=> Knows("schema", x)
    BY <2>2, <2>3 DEF Knows, InForce, inputs
  <2> QED  BY <2>2, <2>4, SamePolicies
<1>4. CASE Plan \/ \E c : Run(c)
  <2>1. /\ UNCHANGED <<catalog, missing, state, halfDone>>
        /\ pc["schema"] # "readBack" /\ pc'["schema"] # "readBack"
    <3>1. CASE Plan
      <4>1. /\ \A k \in InPlay : pc[k] = "read"
            /\ pc' = [k \in Kinds |-> IF k \in InPlay THEN ToDo(k) ELSE "over"]
            /\ UNCHANGED <<catalog, missing, state, halfDone>>
        BY <3>1 DEF Plan
      <4>2. config["schema"] # Absent => "schema" \in InPlay
        BY <1>0 DEF InPlay, GivenKinds, Shape
      <4>3. pc["schema"] = "readBack" => config["schema"] # Absent
        BY <1>0 DEF KindInv, At
      <4> QED  BY <1>0, <4>1, <4>2, <4>3, ToDoAt
    <3>2. CASE \E c : Run(c)
      BY <1>0, <3>2 DEF Run, Settled
    <3> QED  BY <1>4, <3>1, <3>2
  <2>2. InForce' = InForce /\ \A x : Knows("schema", x)' <=> Knows("schema", x)
    BY <2>1 DEF Knows, InForce
  <2> QED  BY <2>1, <2>2, SamePolicies
<1> QED  BY <1>1, <1>2, <1>3, <1>4 DEF TerraformStep, RunAgain, Edit

\* and what others do.
LEMMA DriftedPolicies ==
    ASSUME TypesInv, PolicyInv, Drifted
    PROVE  PolicyInv'
<1>1. UNCHANGED <<config, state, pc, halfDone>> /\ missing \subseteq missing' /\ "schema" \in Kinds
  BY DEF Drifted, Kinds
<1>2. InForce' = InForce /\ \A x : Knows("schema", x)' <=> Knows("schema", x)
  BY <1>1 DEF Knows, InForce
<1>3. ASSUME NEW x \in Names, catalog'["schema"][x] # Absent, NEW granted,
             Right(catalog["schema"][x], granted, missing)
      PROVE  Right(catalog'["schema"][x], granted, missing')
  <2> DEFINE row == catalog["schema"][x]
             new == catalog'["schema"][x]
  <2>1. row # Absent /\ row \in Row["schema"]
    BY <1>1, <1>3 DEF Drifted, TypesInv, TypeOK
  <2>2. PICK r \in Roles : \/ new = row
                           \/ new = OwnedBy(row, r)
                           \/ new = WithoutPrivileges(row, r) /\ r \in missing'
    BY <1>3 DEF Drifted
  <2>3. Right(row, granted, missing)
    BY <1>3
  <2> HIDE DEF row
  <2>4. CASE new = row
    <3>1. Right(row, granted, missing')
      BY <1>1, <2>3 DEF Right
    <3> QED  BY <2>4, <3>1
  <2>5. CASE new = OwnedBy(row, r)
    <3>1. Right(OwnedBy(row, r), granted, missing)
      BY <2>3, OwnerRight
    <3>2. Right(OwnedBy(row, r), granted, missing')
      BY <1>1, <3>1 DEF Right
    <3> QED  BY <2>5, <3>2
  <2>6. CASE new = WithoutPrivileges(row, r) /\ r \in missing'
    BY <1>1, <2>1, <2>3, <2>6, DroppedRight
  <2> QED  BY <2>2, <2>4, <2>5, <2>6
<1>4. \A x \in Names : catalog'["schema"][x] # Absent => catalog["schema"][x] # Absent
  BY <1>1 DEF Drifted
<1> QED  BY <1>1, <1>2, <1>3, <1>4, SamePolicies

\* Every step keeps the policies in force.
LEMMA NextPolicies ==
    ASSUME IInv, TypesInv, PolicyInv, [Next]_vars
    PROVE  PolicyInv'
<1>1. CASE UNCHANGED vars
  BY <1>1 DEF vars, inputs, PolicyInv, Knows, InForce
<1>2. CASE DropObject \/ AlterObject \/ DropRole
  BY <1>2, DropObjectDrifts, AlterObjectDrifts, DropRoleDrifts, DriftedPolicies
<1>3. CASE SchemaStep
  BY <1>3, SchemaPolicies DEF SchemaStep
<1>4. CASE ForeignDataStep \/ ReplicationStep \/ FunctionStep
  BY <1>4, OthersLeave, OtherPolicies
<1> QED  BY <1>1, <1>2, <1>3, <1>4, TerraformPolicies DEF Next, Step

\* Roles that have never owned the schema have the privileges on it that its policies
\* give them, and nobody but its owner has any others, although these are never read:
\* what is revoked and granted makes up the difference of two configurations, it goes
\* with the schema when that is renamed, deleted or made again, a change of owner moves
\* only what was the owner's, and a failed operation has changed neither the server nor
\* the state.  The schemas that were there before, which the provider takes over, are
\* not to have privileges of roles but their owners.
THEOREM PoliciesInForceAlways == NothingGranted => (Spec => []PoliciesInForce)
<1>1. SUFFICES ASSUME NothingGranted PROVE Spec => []PoliciesInForce
  OBVIOUS
<1>2. Init => PolicyInv
  <2> SUFFICES ASSUME Init PROVE PolicyInv
    OBVIOUS
  <2>1. /\ scenario \in DOMAIN Scenarios /\ catalog = Given[scenario].there
        /\ state["schema"] = Absent /\ pc["schema"] # "readBack"
    BY DEF Init, Kinds
  <2>2. ASSUME NEW x \in Names, catalog["schema"][x] # Absent
        PROVE  Right(catalog["schema"][x], {}, missing)
    <3> DEFINE row == catalog["schema"][x]
    <3>1. row.owners = {row.owner}
      BY <2>1, <2>2, CatalogAssumption DEF IsScenario, Given
    <3>2. \A g \in row.acl : g[1] \in Roles => g[1] = row.owner
      BY <1>1, <2>1, <2>2 DEF NothingGranted
    <3> QED  BY <3>1, <3>2 DEF Right
  <2> QED  BY <2>1, <2>2 DEF PolicyInv, Knows
<1>3. IInv /\ TypesInv /\ PolicyInv /\ [Next]_vars => TypesInv' /\ PolicyInv'
  BY NextTypes, NextPolicies
<1>4. TypesInv /\ PolicyInv => PoliciesInForce
  <2> SUFFICES ASSUME TypesInv, PolicyInv, SchemaThereStill, "schema" \notin halfDone
               PROVE  LET row == catalog["schema"][state["schema"].name]
                      IN  /\ Granted(Roles \ (missing \cup row.owners))
                          /\ \A g \in row.acl : g[1] \in Roles \ (missing \cup {row.owner}) =>
                               g \in Grants(state["schema"].policies)
    BY DEF PoliciesInForce
  <2> DEFINE s == state["schema"]
             row == catalog["schema"][s.name]
  <2>1. /\ pc["schema"] # "readBack" /\ s # Absent /\ catalog["schema"][s.name] # Absent
    BY DEF SchemaThereStill
  <2>2. s.name \in Names
    BY <2>1, NameTyped DEF TypesInv, TypeOK, Complete, Kinds
  <2>3. Right(row, Grants(s.policies), missing)
    BY <2>1, <2>2 DEF PolicyInv, Knows, InForce
  <2> QED  BY <2>3 DEF Right, Granted
<1> QED  BY <1>2, <1>3, <1>4, InitTypes, Invariance, PTL DEF Spec

-----------------------------------------------------------------------------
(* What a run has applied. *)

\* The instance in the state is what there is.
Agrees(k) ==
    LET s == state[k]
        row == catalog[k][s.name]
    IN  s # Absent /\ row # Absent /\ s = ReadInstance(k, s, row)

\* What is configured is so, but for what is not read.
Fits(k) ==
    LET c == config[k]
        s == state[k]
        row == catalog[k][s.name]
    IN  IF c = Absent THEN s = Absent
        ELSE /\ s # Absent /\ s.name = c.name /\ row # Absent
             /\ \A f \in DOMAIN c : c[f] # Unset => c[f] = ReadInstance(k, s, row)[f]

\* The instances that are read, attribute by attribute.
LEMMA ReadForms ==
    ASSUME NEW i, NEW row
    PROVE  /\ i \in SchemaConfig => ReadInstance("schema", i, row) =
                [name |-> i.name, owner |-> row.owner, policies |-> i.policies, cascade |-> i.cascade]
           /\ i \in ExtensionConfig => ReadInstance("extension", i, row) =
                [name |-> i.name, schema |-> row.schema, version |-> row.version,
                 cascade |-> i.cascade]
           /\ i \in ServerConfig => ReadInstance("server", i, row) =
                [name |-> i.name, fdw |-> row.fdw, version |-> row.version, owner |-> row.owner,
                 options |-> row.options, cascade |-> i.cascade]
           /\ i \in MappingConfig => ReadInstance("mapping", i, row) =
                [name |-> i.name, options |-> row.options]
           /\ i \in PublicationConfig => ReadInstance("publication", i, row) =
                [name |-> i.name, owner |-> row.owner,
                 tables |-> IF row.all THEN Tables ELSE row.tables, all |-> row.all,
                 params |-> row.params, cascade |-> i.cascade]
           /\ i \in SubscriptionConfig => ReadInstance("subscription", i, row) =
                IF row.slot = Absent THEN i
                ELSE [name |-> i.name, conn |-> row.conn, createSlot |-> i.createSlot,
                      slot |-> row.slot]
           /\ i \in SlotConfig => ReadInstance("slot", i, row) =
                [name |-> i.name, plugin |-> row.plugin]
           /\ i \in FunctionConfig => ReadInstance("function", i, row) =
                [name |-> i.name, returns |-> row.returns, options |-> row.options,
                 body |-> i.body, cascade |-> i.cascade]
<1>1. /\ ReadInstance("schema", i, row) = ReadSchema(i, row)
      /\ ReadInstance("extension", i, row) = ReadExtension(i, row)
      /\ ReadInstance("server", i, row) = ReadServer(i, row)
      /\ ReadInstance("mapping", i, row) = ReadMapping(i, row)
      /\ ReadInstance("publication", i, row) = ReadPublication(i, row)
      /\ ReadInstance("subscription", i, row) = ReadSubscription(i, row)
      /\ ReadInstance("slot", i, row) = ReadSlot(i, row)
      /\ ReadInstance("function", i, row) = ReadFunction(i, row)
  BY Zenon DEF ReadInstance
<1>2. i \in SchemaConfig => ReadSchema(i, row) =
        [name |-> i.name, owner |-> row.owner, policies |-> i.policies, cascade |-> i.cascade]
  BY DEF ReadSchema, With, SchemaConfig
<1>3. i \in ExtensionConfig => ReadExtension(i, row) =
        [name |-> i.name, schema |-> row.schema, version |-> row.version, cascade |-> i.cascade]
  BY DEF ReadExtension, With, ExtensionConfig
<1>4. i \in ServerConfig => ReadServer(i, row) =
        [name |-> i.name, fdw |-> row.fdw, version |-> row.version, owner |-> row.owner,
         options |-> row.options, cascade |-> i.cascade]
  BY DEF ReadServer, With, ServerConfig
<1>5. i \in MappingConfig => ReadMapping(i, row) = [name |-> i.name, options |-> row.options]
  BY DEF ReadMapping, With, MappingConfig
<1>6. i \in PublicationConfig => ReadPublication(i, row) =
        [name |-> i.name, owner |-> row.owner,
         tables |-> IF row.all THEN Tables ELSE row.tables, all |-> row.all,
         params |-> row.params, cascade |-> i.cascade]
  BY DEF ReadPublication, With, PublicationConfig
<1>7. i \in SubscriptionConfig => ReadSubscription(i, row) =
        IF row.slot = Absent THEN i
        ELSE [name |-> i.name, conn |-> row.conn, createSlot |-> i.createSlot, slot |-> row.slot]
  BY DEF ReadSubscription, With, SubscriptionConfig
<1>8. i \in SlotConfig => ReadSlot(i, row) = [name |-> i.name, plugin |-> row.plugin]
  BY DEF ReadSlot, With, SlotConfig
<1>9. i \in FunctionConfig => ReadFunction(i, row) =
        [name |-> i.name, returns |-> row.returns, options |-> row.options,
         body |-> i.body, cascade |-> i.cascade]
  BY DEF ReadFunction, With, FunctionConfig
<1> QED  BY <1>1, <1>2, <1>3, <1>4, <1>5, <1>6, <1>7, <1>8, <1>9

\* What is read is read so again.
LEMMA ReadAgain ==
    ASSUME NEW k \in Kinds, NEW i \in Config[k], NEW row \in Row[k]
    PROVE  ReadInstance(k, ReadInstance(k, i, row), row) = ReadInstance(k, i, row)
<1> DEFINE r == ReadInstance(k, i, row)
<1>0. r \in Config[k]
  BY ReadTyped DEF Complete
<1>1. CASE k = "schema"
  <2>1. i \in SchemaConfig /\ r \in SchemaConfig
    BY <1>0, <1>1, KindTypes
  <2> QED  BY <1>1, <2>1, ReadForms
<1>2. CASE k = "extension"
  <2>1. i \in ExtensionConfig /\ r \in ExtensionConfig
    BY <1>0, <1>2, KindTypes
  <2> QED  BY <1>2, <2>1, ReadForms
<1>3. CASE k = "server"
  <2>1. i \in ServerConfig /\ r \in ServerConfig
    BY <1>0, <1>3, KindTypes
  <2> QED  BY <1>3, <2>1, ReadForms
<1>4. CASE k = "mapping"
  <2>1. i \in MappingConfig /\ r \in MappingConfig
    BY <1>0, <1>4, KindTypes
  <2> QED  BY <1>4, <2>1, ReadForms
<1>5. CASE k = "publication"
  <2>1. i \in PublicationConfig /\ r \in PublicationConfig
    BY <1>0, <1>5, KindTypes
  <2> QED  BY <1>5, <2>1, ReadForms
<1>6. CASE k = "subscription"
  <2>1. i \in SubscriptionConfig /\ r \in SubscriptionConfig
    BY <1>0, <1>6, KindTypes
  <2> QED  BY <1>6, <2>1, ReadForms
<1>7. CASE k = "slot"
  <2>1. i \in SlotConfig /\ r \in SlotConfig
    BY <1>0, <1>7, KindTypes
  <2> QED  BY <1>7, <2>1, ReadForms
<1>8. CASE k = "function"
  <2>1. i \in FunctionConfig /\ r \in FunctionConfig
    BY <1>0, <1>8, KindTypes
  <2> QED  BY <1>8, <2>1, ReadForms
<1> QED  BY <1>1, <1>2, <1>3, <1>4, <1>5, <1>6, <1>7, <1>8 DEF Kinds

\* Configurations of a kind have the same attributes.
LEMMA SameAttributes ==
    ASSUME NEW k \in Kinds, NEW c \in Config[k], NEW d \in Config[k]
    PROVE  DOMAIN c = DOMAIN d
<1>1. \A e \in SchemaConfig : DOMAIN e = {"name", "owner", "policies", "cascade"}
  BY DEF SchemaConfig
<1>2. \A e \in ExtensionConfig : DOMAIN e = {"name", "schema", "version", "cascade"}
  BY DEF ExtensionConfig
<1>3. \A e \in ServerConfig : DOMAIN e = {"name", "fdw", "version", "owner", "options", "cascade"}
  BY DEF ServerConfig
<1>4. \A e \in MappingConfig : DOMAIN e = {"name", "options"}
  BY DEF MappingConfig
<1>5. \A e \in PublicationConfig : DOMAIN e = {"name", "owner", "tables", "all", "params", "cascade"}
  BY DEF PublicationConfig
<1>6. \A e \in SubscriptionConfig : DOMAIN e = {"name", "conn", "createSlot", "slot"}
  BY DEF SubscriptionConfig
<1>7. \A e \in SlotConfig : DOMAIN e = {"name", "plugin"}
  BY DEF SlotConfig
<1>8. \A e \in FunctionConfig : DOMAIN e = {"name", "returns", "options", "body", "cascade"}
  BY DEF FunctionConfig
<1> QED  BY <1>1, <1>2, <1>3, <1>4, <1>5, <1>6, <1>7, <1>8, KindTypes DEF Kinds

\* What is recorded fits, when it is what there is and does not contradict the plan.
LEMMA RecordFits ==
    ASSUME Shape, NEW k \in Kinds, UNCHANGED inputs, config[k] # Absent,
           NEW i \in Config[k], Record(k, i), i.name = config[k].name,
           catalog'[k][i.name] # Absent, i = ReadInstance(k, i, catalog'[k][i.name]),
           pc'[k] = "over"
    PROVE  Fits(k)'
<1> DEFINE c == config[k]
<1>1. c \in Config[k] /\ c # Absent /\ i # Absent
  BY ConfigTyped, NotAbsent
<1>2. DOMAIN c = DOMAIN i
  BY <1>1, SameAttributes
<1>3. state'[k] = i /\ \A f \in DOMAIN i : Planned(k)[f] \in {Unset, i[f]}
  BY DEF Record, Shape
<1>4. \A f \in DOMAIN c : c[f] # Unset => c[f] = i[f]
  BY <1>2, <1>3, PlannedAttributes
<1>5. config'[k] = c
  BY DEF inputs
<1>6. state'[k].name = config'[k].name
  BY <1>3, <1>5
<1> HIDE DEF c
<1>7. ReadInstance(k, state'[k], catalog'[k][state'[k].name]) = i
  BY <1>3
<1> QED  BY <1>1, <1>3, <1>4, <1>5, <1>6, <1>7 DEF Fits

\* What is planned to stay fits, when the state is what there is.
LEMMA PlanFits ==
    ASSUME NEW k \in Kinds, state[k] # Absent => Agrees(k),
           config[k] # Absent => PlanTyped(k), ToDo(k) = "over"
    PROVE  Fits(k)
<1>1. CASE state[k] = Absent
  <2>1. config[k] = Absent
    BY <1>1, Zenon DEF ToDo
  <2> QED  BY <1>1, <2>1 DEF Fits
<1>2. CASE state[k] # Absent
  <2>1. config[k] # Absent /\ Planned(k) = state[k]
    BY <1>2, Zenon DEF ToDo
  <2>2. \A f \in DOMAIN config[k] : config[k][f] # Unset => config[k][f] = state[k][f]
    BY <2>1, PlannedAttributes
  <2> QED  BY <1>2, <2>1, <2>2 DEF Fits, Agrees, PlanTyped
<1> QED  BY <1>1, <1>2

-----------------------------------------------------------------------------
(* What an operation leaves of the other resources. *)

\* What is in the state of a resource is as it was.
Same(k) == state[k] # Absent => catalog'[k][state[k].name] = catalog[k][state[k].name]

\* The extension follows its schema to another name.
Moved ==
    LET row == catalog["extension"][state["extension"].name]
    IN  /\ state["extension"] # Absent /\ row # Absent
        /\ state["schema"] # Absent /\ row.schema = state["schema"].name
        /\ config["schema"] # Absent
        /\ catalog'["extension"][state["extension"].name] =
             [row EXCEPT !.schema = config["schema"].name]

Spares(k) ==
    \A j \in Kinds \ {k} :
        MayCascade(j) \/ Same(j) \/ (k = "schema" /\ j = "extension" /\ Moved)

\* There is no mapping to a server that is not there.
Served(cat) == \A x \in Names : cat["mapping"][x] # Absent => cat["server"][x] # Absent

\* What is in the state was configured.
Stated ==
    \A k \in {"schema", "extension", "server"} : state[k] # Absent =>
        \E c \in Given[scenario].configs :
            c[k] # Absent /\ c[k].name = state[k].name /\ c[k].cascade = state[k].cascade

\* What goes with an object of another kind is above it.
LEMMA DependentKinds ==
    ASSUME NEW j, NEW S, \A d \in S : d[1] = j \/ j \in Base[d[1]]
    PROVE  \A d \in WithDependents(S) : d[1] = j \/ j \in Base[d[1]]
<1>1. /\ Base["schema"] = {} /\ Base["extension"] = {"schema"}
      /\ Base["server"] = {"schema", "extension"}
      /\ Base["mapping"] = {"schema", "extension", "server"}
  BY DEF Base
<1>2. ASSUME NEW d \in WithDependents(S), d \notin S
      PROVE  d[1] = j \/ j \in Base[d[1]]
  <2>1. PICK o \in S : DependsOn(d, o)
    BY <1>2 DEF WithDependents
  <2>2. o[1] = j \/ j \in Base[o[1]]
    OBVIOUS
  <2>3. CASE d[1] = "extension" /\ o[1] = "schema"
    BY <1>1, <2>2, <2>3
  <2>4. CASE d[1] = "server" /\ o[1] = "extension"
    BY <1>1, <2>2, <2>4
  <2>5. CASE d[1] = "mapping" /\ o[1] = "server"
    BY <1>1, <2>2, <2>5
  <2> QED  BY <2>1, <2>3, <2>4, <2>5 DEF DependsOn
<1> QED  BY <1>2

LEMMA DoomedKinds ==
    ASSUME NEW j, NEW n, NEW k, NEW x, <<k, x>> \in Doomed(<<j, n>>)
    PROVE  k = j \/ j \in Base[k]
<1> DEFINE S == {<<j, n>>}
           T == WithDependents(S)
           U == WithDependents(T)
<1>1. \A d \in S : d[1] = j \/ j \in Base[d[1]]
  OBVIOUS
<1>2. \A d \in T : d[1] = j \/ j \in Base[d[1]]
  <2> HIDE DEF S
  <2> QED  BY <1>1, DependentKinds
<1>3. \A d \in U : d[1] = j \/ j \in Base[d[1]]
  <2> HIDE DEF T
  <2> QED  BY <1>2, DependentKinds
<1>4. \A d \in WithDependents(U) : d[1] = j \/ j \in Base[d[1]]
  <2> HIDE DEF U
  <2> QED  BY <1>3, DependentKinds
<1>5. <<k, x>> \in WithDependents(U)
  BY DEF Doomed
<1> QED  BY <1>4, <1>5

\* With a server go those who are mapped to it.
LEMMA DoomedMappings ==
    ASSUME NEW j, NEW n, NEW x \in Names, <<"server", x>> \in Doomed(<<j, n>>),
           catalog["mapping"][x] # Absent
    PROVE  <<"mapping", x>> \in Doomed(<<j, n>>)
<1> DEFINE S == {<<j, n>>}
           T == WithDependents(S)
           U == WithDependents(T)
<1>1. \A V, d : d \in WithDependents(V) <=>
         d \in V \/ (d \in {"extension", "server", "mapping"} \X Names /\ \E o \in V : DependsOn(d, o))
  BY DEF WithDependents
<1>2. \A o : \A y \in Names : DependsOn(<<"server", y>>, o) => \E e : o = <<"extension", e>>
  BY DEF DependsOn
<1>3. \A e, o : DependsOn(<<"extension", e>>, o) => \E z : o = <<"schema", z>>
  BY DEF DependsOn
<1>4. \A z, o : ~DependsOn(<<"schema", z>>, o)
  BY DEF DependsOn
<1>5. Doomed(<<j, n>>) = WithDependents(U)
  BY DEF Doomed
<1>6. \A V, z : <<"schema", z>> \in WithDependents(V) => <<"schema", z>> \in V
  BY <1>1, <1>4
<1>7. \A e : <<"extension", e>> \in U => <<"extension", e>> \in T
  <2> HIDE DEF S
  <2> SUFFICES ASSUME NEW e, <<"extension", e>> \in U PROVE <<"extension", e>> \in T
    OBVIOUS
  <2>1. CASE <<"extension", e>> \in T
    BY <2>1
  <2>2. CASE <<"extension", e>> \notin T
    <3>1. PICK o \in T : DependsOn(<<"extension", e>>, o)
      BY <1>1, <2>2
    <3>2. o \in S
      BY <1>3, <1>6, <3>1
    <3>3. e \in Names
      BY <1>1, <2>2
    <3> QED  BY <1>1, <3>1, <3>2, <3>3
  <2> QED  BY <2>1, <2>2
<1>8. <<"server", x>> \in U
  <2> HIDE DEF T
  <2>1. CASE <<"server", x>> \notin U
    <3>1. PICK o \in U : DependsOn(<<"server", x>>, o)
      BY <1>1, <1>5, <2>1
    <3>2. o \in T
      BY <1>2, <1>7, <3>1
    <3> QED  BY <1>1, <3>1, <3>2
  <2> QED  BY <2>1
<1>9. DependsOn(<<"mapping", x>>, <<"server", x>>)
  BY DEF DependsOn
<1> HIDE DEF U
<1> QED  BY <1>1, <1>5, <1>8, <1>9

\* What stays when objects are dropped: what does not depend on them.
LEMMA DropSpares ==
    ASSUME Shape, NEW k \in Kinds, NEW n, Stated,
           k \in {"schema", "extension", "server"} =>
              /\ state[k] # Absent /\ CanDrop(k, n, state[k].cascade)
              /\ n = state[k].name,
           catalog' = Without(Doomed(<<k, n>>)), \A j \in Kinds : state[j] # Absent => state[j].name \in Names
    PROVE  Spares(k) /\ (Served(catalog) => Served(catalog'))
<1> DEFINE S == Doomed(<<k, n>>)
<1>1. \A j \in Kinds, x \in Names :
         catalog'[j][x] = IF <<j, x>> \in S THEN Absent ELSE catalog[j][x]
  BY DEF Without
<1>2. ASSUME NEW j \in Kinds \ {k}, ~MayCascade(j), NEW x \in Names PROVE <<j, x>> \notin S
  <2>1. SUFFICES ASSUME <<j, x>> \in S PROVE FALSE
    OBVIOUS
  <2>2. k \in Base[j]
    BY <2>1, DoomedKinds
  <2>3. k \in {"schema", "extension", "server"}
    BY <2>2 DEF Base, Kinds
  <2>4. S # {<<k, n>>}
    BY <2>1
  <2>5. state[k] # Absent /\ state[k].cascade
    BY <2>3, <2>4 DEF CanDrop
  <2>6. PICK c \in Given[scenario].configs : c[k] # Absent /\ c[k].cascade
    BY <2>3, <2>5 DEF Stated
  <2> QED  BY <1>2, <2>2, <2>6 DEF MayCascade
<1> HIDE DEF S
<1>3. Spares(k)
  BY <1>1, <1>2 DEF Spares, Same
<1>4. ASSUME Served(catalog) PROVE Served(catalog')
  <2>1. {"server", "mapping"} \subseteq Kinds
    BY DEF Kinds
  <2>2. \A x \in Names : <<"server", x>> \in S /\ catalog["mapping"][x] # Absent => <<"mapping", x>> \in S
    BY DoomedMappings DEF S
  <2> QED  BY <1>1, <1>4, <2>1, <2>2 DEF Served
<1> QED  BY <1>3, <1>4

\* What stays when an object is made or altered: all other kinds.
LEMMA PutSpares ==
    ASSUME Shape, NEW k \in Kinds, NEW n, NEW row, catalog' \in {catalog, Put(k, n, row)},
           \A j \in Kinds : state[j] # Absent => state[j].name \in Names
    PROVE  /\ Spares(k)
           /\ Served(catalog) /\ (k = "server" => row # Absent)
                /\ (k = "mapping" /\ row # Absent /\ n \in Names => catalog["server"][n] # Absent)
              => Served(catalog')
<1>1. Rows(catalog) /\ {"server", "mapping"} \subseteq Kinds
  BY DEF Shape, Rows, Kinds
<1>2. /\ \A j \in Kinds \ {k}, x \in Names : catalog'[j][x] = catalog[j][x]
      /\ \A x \in Names : catalog'[k][x] \in {catalog[k][x], row}
      /\ \A x \in Names : x # n => catalog'[k][x] = catalog[k][x]
  BY <1>1, PutFacts
<1>3. Spares(k)
  BY <1>2 DEF Spares, Same
<1>4. ASSUME Served(catalog), k = "server" => row # Absent,
             k = "mapping" /\ row # Absent /\ n \in Names => catalog["server"][n] # Absent
      PROVE  Served(catalog')
  <2>1. CASE k = "server"
    BY <1>1, <1>2, <1>4, <2>1 DEF Served
  <2>2. CASE k = "mapping"
    BY <1>1, <1>2, <1>4, <2>2 DEF Served
  <2>3. CASE k # "server" /\ k # "mapping"
    BY <1>1, <1>2, <1>4, <2>3 DEF Served
  <2> QED  BY <2>1, <2>2, <2>3
<1> QED  BY <1>3, <1>4

\* What stays when an object is renamed: all but the schema of an extension.
LEMMA RenamedSpares ==
    ASSUME Shape, NEW k \in {"schema", "server", "publication"}, NEW n \in Names, NEW m \in Names,
           NEW row, k = "server" => row # Absent, catalog' = Renamed(k, n, m, row),
           \A j \in Kinds : state[j] # Absent => state[j].name \in Names,
           k = "schema" => /\ state[k] # Absent /\ n = state[k].name
                           /\ config[k] # Absent /\ m = config[k].name,
           k = "server" /\ n # m =>
              catalog["mapping"][n] = Absent /\ catalog["mapping"][m] = Absent
    PROVE  Spares(k) /\ (Served(catalog) => Served(catalog'))
<1>1. IsRenamed(catalog', k, n, m, row)
  BY RenamedFacts DEF Shape, Rows
<1>2. {"schema", "extension", "server", "mapping", "publication"} \subseteq Kinds
  BY DEF Kinds
<1>3. ASSUME NEW x \in Names PROVE catalog'["mapping"][x] = catalog["mapping"][x]
  <2>1. CASE k # "server"
    BY <1>1, <2>1 DEF IsRenamed
  <2>2. CASE k = "server"
    <3>1. catalog'["mapping"][x] =
            IF x = m THEN catalog["mapping"][n] ELSE IF x = n THEN Absent ELSE catalog["mapping"][x]
      BY <1>1, <2>2 DEF IsRenamed
    <3> QED  BY <2>2, <3>1
  <2> QED  BY <2>1, <2>2
<1>4. ASSUME NEW j \in Kinds \ {k}, state[j] # Absent
      PROVE  Same(j) \/ (k = "schema" /\ j = "extension" /\ Moved)
  <2> DEFINE x == state[j].name
  <2>0. x \in Names
    BY <1>4
  <2> HIDE DEF x
  <2>1. CASE j \notin {"extension", "mapping"}
    <3>1. catalog'[j][x] = catalog[j][x]
      BY <1>1, <1>4, <2>0, <2>1 DEF IsRenamed
    <3> QED  BY <3>1 DEF Same, x
  <2>2. CASE j = "mapping"
    BY <1>3, <2>0, <2>2 DEF Same, x
  <2>3. CASE j = "extension"
    <3>1. catalog'[j][x] = IF DependsOn(<<j, x>>, <<k, n>>) THEN [catalog[j][x] EXCEPT !.schema = m]
                           ELSE catalog[j][x]
      BY <1>1, <2>0, <2>3 DEF IsRenamed
    <3>2. CASE ~DependsOn(<<j, x>>, <<k, n>>)
      BY <3>1, <3>2 DEF Same, x
    <3>3. CASE DependsOn(<<j, x>>, <<k, n>>)
      <4>1. catalog[j][x] # Absent /\ k = "schema" /\ catalog[j][x].schema = n
        BY <2>3, <3>3 DEF DependsOn
      <4> QED  BY <1>4, <2>3, <3>1, <3>3, <4>1 DEF Moved, x
    <3> QED  BY <3>2, <3>3
  <2> QED  BY <2>1, <2>2, <2>3
<1>5. Spares(k)
  BY <1>4 DEF Spares, Same
<1>6. ASSUME Served(catalog), NEW x \in Names, catalog'["mapping"][x] # Absent
      PROVE  catalog'["server"][x] # Absent
  <2>1. catalog["server"][x] # Absent /\ catalog["mapping"][x] # Absent
    BY <1>3, <1>6 DEF Served
  <2>2. CASE k # "server"
    BY <1>1, <1>2, <2>1, <2>2 DEF IsRenamed
  <2>3. CASE k = "server"
    BY <1>1, <2>1, <2>3 DEF IsRenamed
  <2> QED  BY <2>2, <2>3
<1> QED  BY <1>5, <1>6 DEF Served

\* An extension that follows its schema is where it is configured to be.
LEMMA MovedFits ==
    ASSUME SchemasFollow, Shape, Typed(catalog), Stated, Fits("extension"), Moved,
           KindInv("extension"), KindInv("schema"),
           config' = config, state'["extension"] = state["extension"]
    PROVE  Fits("extension")'
<1> DEFINE k == "extension"
           c == config[k]
           s == state[k]
           row == catalog[k][s.name]
           new == catalog'[k][s.name]
           to == config["schema"].name
<1>1. /\ c # Absent /\ s # Absent /\ s.name = c.name /\ row # Absent
      /\ \A f \in DOMAIN c : c[f] # Unset => c[f] = ReadInstance(k, s, row)[f]
  BY DEF Fits, Moved
<1>2. c \in ExtensionConfig /\ s \in ExtensionConfig /\ s.name \in Names /\ k \in Kinds
      /\ "schema" \in Kinds
  BY <1>1, ConfigTyped, KindTypes, NameTyped DEF KindInv, Complete, Kinds
<1>3. row \in Row[k] /\ row = [schema |-> row.schema, version |-> row.version]
  <2>1. row \in Row[k]
    BY <1>1, <1>2 DEF Typed
  <2> HIDE DEF row
  <2> QED  BY <2>1, KindTypes
<1>4. /\ new = [schema |-> to, version |-> row.version]
      /\ state["schema"] # Absent /\ row.schema = state["schema"].name
  BY <1>3 DEF Moved
<1> HIDE DEF row, new, s, c, to
<1>5. /\ ReadInstance(k, s, row) = [name |-> s.name, schema |-> row.schema,
                                    version |-> row.version, cascade |-> s.cascade]
      /\ ReadInstance(k, s, new) = [name |-> s.name, schema |-> new.schema,
                                    version |-> new.version, cascade |-> s.cascade]
  BY <1>2, ReadForms
<1>6. c.schema # Unset => row.schema = to
  <2>1. SUFFICES ASSUME c.schema # Unset PROVE row.schema = to
    OBVIOUS
  <2>2. c.schema = row.schema
    BY <1>1, <1>2, <1>5, <2>1 DEF ExtensionConfig
  <2>3. PICK d \in Given[scenario].configs : d["schema"] # Absent /\ d["schema"].name = state["schema"].name
    BY <1>4 DEF Stated
  <2>4. scenario \in DOMAIN Scenarios /\ config \in Given[scenario].configs
    BY DEF Shape, Given
  <2>5. config[k] # Absent /\ config[k].schema = d["schema"].name
    BY <1>1, <1>4, <2>2, <2>3 DEF c
  <2>6. config["schema"].name = d["schema"].name
    BY <2>3, <2>4, <2>5 DEF SchemasFollow
  <2> QED  BY <1>4, <2>3, <2>6 DEF to
<1>7. \A f \in DOMAIN c : c[f] # Unset => c[f] = ReadInstance(k, s, new)[f]
  BY <1>1, <1>2, <1>4, <1>5, <1>6 DEF ExtensionConfig
<1>8. new # Absent
  <2>1. to \in Names
    BY <1>2, ConfigTyped, NameTyped DEF to, Moved
  <2>2. new \in Row[k]
    BY <1>3, <1>4, <2>1, KindTypes
  <2> QED  BY <1>2, <2>2, NotAbsent
<1> QED  BY <1>1, <1>7, <1>8 DEF Fits, s, c, new

-----------------------------------------------------------------------------
(* What an operation makes of what is applied. *)

\* The operation leaves the others, and what it ends with fits.
Applies(k) ==
    /\ Spares(k)
    /\ Served(catalog) => Served(catalog')
    /\ pc'[k] = "over" => MayCascade(k) \/ Fits(k)'

\* What is deleted and not configured fits; what goes on has not ended.
LEMMA EndFits ==
    ASSUME Shape, NEW k \in Kinds, UNCHANGED inputs,
           Forget(k) \/ \E step \in {"readBack", "unset", "drop"} : Continue(k, step)
    PROVE  pc'[k] = "over" => Fits(k)'
<1>1. CASE Forget(k)
  <2>1. state'[k] = Absent /\ (pc'[k] = "over" => config'[k] = Absent)
    BY <1>1 DEF Forget, Shape, inputs
  <2> QED  BY <2>1 DEF Fits
<1>2. CASE \E step \in {"readBack", "unset", "drop"} : Continue(k, step)
  BY <1>2 DEF Continue, Shape
<1> QED  BY <1>1, <1>2

\* What is in the state has a name.
LEMMA StateNames ==
    ASSUME TypesInv
    PROVE  /\ Typed(catalog) /\ \A k \in Kinds : KindInv(k)
           /\ \A k \in Kinds : state[k] # Absent => state[k] \in Config[k] /\ state[k].name \in Names
<1>1. Typed(catalog) /\ \A k \in Kinds : KindInv(k)
  BY TypedCatalog DEF TypesInv
<1>2. \A k \in Kinds : state[k] # Absent => state[k] \in Config[k]
  BY <1>1 DEF KindInv, Complete
<1> QED  BY <1>1, <1>2, NameTyped

\* Dropping an object and what goes with it leaves the other kinds as they were.
LEMMA DropApplies ==
    ASSUME Shape, TypesInv, Stated, NEW k \in Kinds, UNCHANGED inputs, Forget(k),
           k \in {"schema", "extension", "server"} =>
              state[k] # Absent /\ CanDrop(k, state[k].name, state[k].cascade),
           catalog' = Without(Doomed(<<k, state[k].name>>))
    PROVE  Applies(k)
<1>1. Spares(k) /\ (Served(catalog) => Served(catalog'))
  BY StateNames, DropSpares
<1> QED  BY <1>1, EndFits DEF Applies

\* So does writing an object of a kind, and of no other.
LEMMA PutApplies ==
    ASSUME Shape, TypesInv, NEW k \in Kinds, UNCHANGED inputs, NEW n, NEW row,
           catalog' \in {catalog, Put(k, n, row)},
           \/ Forget(k)
           \/ \E step \in {"readBack", "unset", "drop"} : Continue(k, step)
           \/ pc'[k] = "over" => MayCascade(k) \/ Fits(k)',
           k = "server" => row # Absent,
           k = "mapping" /\ row # Absent /\ n \in Names => catalog["server"][n] # Absent
    PROVE  Applies(k)
<1>1. Spares(k) /\ (Served(catalog) => Served(catalog'))
  BY StateNames, PutSpares
<1> QED  BY <1>1, EndFits DEF Applies

\* The operations of schemas.
LEMMA SchemaApplies ==
    ASSUME IInv, TypesInv, Stated, CreateSchema \/ UpdateSchema \/ DeleteSchema
    PROVE  FailsOnly("schema") \/ Applies("schema")
<1> DEFINE k == "schema"
           s == state["schema"]
           c == Planned("schema")
<1>0. Shape /\ k \in Kinds /\ Typed(catalog) /\ KindInv(k)
  BY TypedCatalog DEF IInv, TypesInv, Kinds
<1>1. CASE CreateSchema /\ ~FailsOnly(k)
  <2> DEFINE row == catalog["schema"][c.name]
             owned == IF row = Absent THEN NewSchema(Told(c.owner, Me))
                      ELSE OwnedBy(row, Told(c.owner, row.owner))
             new == [owned EXCEPT !.acl = @ \cup Grants(c.policies)]
  <2>1. /\ catalog' = Put(k, c.name, new) /\ Continue(k, "readBack")
        /\ UNCHANGED <<missing, inputs, halfDone, failures>>
    BY <1>1 DEF CreateSchema, Try, FailsOnly, Turn
  <2> HIDE DEF new, c
  <2> QED  BY <1>0, <2>1, PutApplies
<1>2. CASE UpdateSchema /\ ~FailsOnly(k)
  <2> DEFINE row == catalog["schema"][s.name]
             changes == PolicyChanges(s.policies, c.policies)
             owner == IF c.owner = s.owner THEN {} ELSE {c.owner}
             idle == c.name = s.name /\ owner \cup changes.revoked \cup changes.granted = {}
             owned == IF owner = {} THEN row ELSE OwnedBy(row, c.owner)
             new == [owned EXCEPT !.acl = (@ \ Grants(changes.revoked)) \cup Grants(changes.granted)]
  <2>1. /\ pc[k] = "update" /\ Continue(k, "readBack")
        /\ idle \/ row # Absent
        /\ catalog' = IF idle THEN catalog ELSE Renamed(k, s.name, c.name, new)
        /\ UNCHANGED <<missing, inputs, halfDone, failures>>
    BY <1>2 DEF UpdateSchema, Try, FailsOnly, Turn
  <2>2. config[k] # Absent /\ s # Absent
    BY <1>0, <2>1 DEF KindInv, At
  <2>3. PlanTyped(k)
    BY <1>0, <2>2, PlannedTyped DEF KindInv
  <2>4. c.name \in Names /\ c.name = config[k].name /\ s.name \in Names
    BY <1>0, <2>2, <2>3, NameTyped, StateNames DEF PlanTyped
  <2> HIDE DEF idle, c
  <2>6. CASE idle
    BY <1>0, <2>1, <2>6, PutApplies
  <2>7. CASE ~idle
    <3> HIDE DEF new
    <3>1. Spares(k) /\ (Served(catalog) => Served(catalog'))
      BY <1>0, <2>1, <2>2, <2>4, <2>7, StateNames, RenamedSpares
    <3> QED  BY <1>0, <2>1, <3>1, EndFits DEF Applies
  <2> QED  BY <2>6, <2>7
<1>3. CASE DeleteSchema /\ ~FailsOnly(k)
  <2>1. /\ pc[k] = "delete" /\ Forget(k)
        /\ \/ /\ catalog' = Without(Doomed(<<k, s.name>>))
              /\ CanDrop(k, s.name, s.cascade)
           \/ catalog' = catalog
        /\ UNCHANGED <<missing, inputs, halfDone, failures>>
    BY <1>3 DEF DeleteSchema, Try, FailsOnly, Turn
  <2>2. s # Absent
    BY <1>0, <2>1 DEF KindInv, At
  <2> QED  BY <1>0, <2>1, <2>2, DropApplies, PutApplies
<1> QED  BY <1>1, <1>2, <1>3

\* The operations of extensions.
LEMMA ExtensionApplies ==
    ASSUME IInv, TypesInv, Stated, CreateExtension \/ UpdateExtension \/ DeleteExtension
    PROVE  FailsOnly("extension") \/ Applies("extension")
<1> DEFINE k == "extension"
           s == state["extension"]
           c == Planned("extension")
<1>0. Shape /\ k \in Kinds /\ KindInv(k)
  BY TypedCatalog DEF IInv, TypesInv, Kinds
<1>1. CASE (CreateExtension \/ UpdateExtension) /\ ~FailsOnly(k)
  <2>1. /\ \E row : catalog' \in {catalog, Put(k, c.name, row)}
        /\ Continue(k, "readBack")
        /\ UNCHANGED <<missing, inputs, halfDone, failures>>
    BY <1>1 DEF CreateExtension, UpdateExtension, Try, FailsOnly
  <2> HIDE DEF c
  <2> QED  BY <1>0, <2>1, PutApplies
<1>2. CASE DeleteExtension /\ ~FailsOnly(k)
  <2>1. /\ pc[k] = "delete" /\ Forget(k)
        /\ catalog' = Without(Doomed(<<k, s.name>>)) /\ CanDrop(k, s.name, s.cascade)
        /\ UNCHANGED <<missing, inputs, halfDone, failures>>
    BY <1>2 DEF DeleteExtension, Try, FailsOnly, Turn
  <2>2. s # Absent
    BY <1>0, <2>1 DEF KindInv, At
  <2> QED  BY <1>0, <2>1, <2>2, DropApplies
<1> QED  BY <1>1, <1>2

\* The operations of publications.
LEMMA PublicationApplies ==
    ASSUME IInv, TypesInv, CreatePublication \/ UpdatePublication \/ DeletePublication
    PROVE  FailsOnly("publication") \/ Applies("publication")
<1> DEFINE k == "publication"
           s == state["publication"]
           c == Planned("publication")
<1>0. Shape /\ k \in Kinds /\ KindInv(k)
  BY TypedCatalog DEF IInv, TypesInv, Kinds
<1>1. CASE CreatePublication /\ ~FailsOnly(k)
  <2>1. /\ \E row : catalog' = Put(k, c.name, row)
        /\ Continue(k, "readBack")
        /\ UNCHANGED <<missing, inputs, halfDone, failures>>
    BY <1>1 DEF CreatePublication, Try, FailsOnly
  <2> HIDE DEF c
  <2> QED  BY <1>0, <2>1, PutApplies
<1>2. CASE UpdatePublication /\ ~FailsOnly(k)
  <2>1. /\ pc[k] = "update" /\ Continue(k, "readBack")
        /\ catalog' = catalog \/ \E row : catalog' = Renamed(k, s.name, c.name, row)
        /\ UNCHANGED <<missing, inputs, halfDone, failures>>
    BY <1>2 DEF UpdatePublication, Try, FailsOnly, Turn
  <2>2. config[k] # Absent /\ s # Absent
    BY <1>0, <2>1 DEF KindInv, At
  <2>3. PlanTyped(k)
    BY <1>0, <2>2, PlannedTyped DEF KindInv
  <2>4. c.name \in Names /\ s.name \in Names
    BY <1>0, <2>2, <2>3, NameTyped, StateNames DEF PlanTyped
  <2>5. CASE catalog' = catalog
    BY <1>0, <2>1, <2>5, PutApplies
  <2>6. CASE \E row : catalog' = Renamed(k, s.name, c.name, row)
    <3> HIDE DEF c
    <3>1. Spares(k) /\ (Served(catalog) => Served(catalog'))
      BY <1>0, <2>4, <2>6, StateNames, RenamedSpares
    <3> QED  BY <1>0, <2>1, <3>1, EndFits DEF Applies
  <2> QED  BY <2>1, <2>5, <2>6
<1>3. CASE DeletePublication /\ ~FailsOnly(k)
  <2>1. /\ Forget(k) /\ catalog' = Put(k, s.name, Absent)
        /\ UNCHANGED <<missing, inputs, halfDone, failures>>
    BY <1>3 DEF DeletePublication, Try, FailsOnly
  <2> QED  BY <1>0, <2>1, PutApplies
<1> QED  BY <1>1, <1>2, <1>3

\* Options that are what the state says become those that are planned.
LEMMA OptionsReplaced ==
    ASSUME NEW old \in Options, NEW new \in Options
    PROVE  NewOptions(old, new, old) = new
<1>1. new = [o \in DOMAIN new |-> new[o]]
  BY DEF Options
<1>2. (DOMAIN old \ DOMAIN old) \cup DOMAIN new = DOMAIN new
  OBVIOUS
<1> QED  BY <1>1, <1>2 DEF NewOptions

\* The operations of mappings.
LEMMA MappingApplies ==
    ASSUME IInv, TypesInv, Served(catalog), CreateMapping \/ UpdateMapping \/ DeleteMapping,
           pc["mapping"] = "update" => MayCascade("mapping") \/ Agrees("mapping")
    PROVE  FailsOnly("mapping") \/ Applies("mapping")
<1> DEFINE k == "mapping"
           s == state["mapping"]
           c == Planned("mapping")
           row == catalog["mapping"][c.name]
<1>0. Shape /\ k \in Kinds /\ Typed(catalog) /\ KindInv(k) /\ Rows(catalog)
  BY TypedCatalog DEF IInv, TypesInv, Kinds, Shape, Rows
<1>1. ASSUME config[k] # Absent
      PROVE  c \in MappingConfig /\ c.name \in Names /\ c \in Config[k] /\ c.name = config[k].name
  <2>1. PlanTyped(k)
    BY <1>0, <1>1, PlannedTyped DEF KindInv
  <2> QED  BY <1>0, <2>1, KindTypes, NameTyped DEF PlanTyped
<1>2. ASSUME NEW o, o = c.options, config[k] # Absent, Record(k, c),
             catalog' = Put(k, c.name, [options |-> o]), UNCHANGED inputs,
             catalog["server"][c.name] # Absent
      PROVE  Applies(k)
  <2> DEFINE new == [options |-> o]
  <2>1. /\ c \in MappingConfig /\ c.name \in Names /\ c \in Config[k] /\ c.name = config[k].name
    BY <1>1, <1>2
  <2>2. catalog'[k][c.name] = new
    BY <1>0, <1>2, <2>1, PutFacts
  <2> HIDE DEF c
  <2>3. c = ReadInstance(k, c, new)
    BY <1>2, <2>1, ReadForms DEF MappingConfig
  <2>4. new \in Row[k] /\ new # Absent
    BY <1>0, <1>2, <2>1, KindTypes, NotAbsent DEF MappingConfig
  <2>5. pc'[k] = "over" => Fits(k)'
    BY <1>0, <1>2, <2>1, <2>2, <2>3, <2>4, RecordFits
  <2> QED  BY <1>0, <1>2, <2>5, PutApplies
<1>3. CASE CreateMapping /\ ~FailsOnly(k)
  <2>1. /\ pc[k] = "create" /\ Record(k, c) /\ catalog' = Put(k, c.name, [options |-> c.options])
        /\ catalog["server"][c.name] # Absent
        /\ UNCHANGED <<missing, inputs, halfDone, failures>>
    BY <1>3 DEF CreateMapping, Try, FailsOnly, Turn
  <2>2. config[k] # Absent
    BY <1>0, <2>1 DEF KindInv, At
  <2> QED  BY <1>2, <2>1, <2>2
<1>4. CASE UpdateMapping /\ ~FailsOnly(k)
  <2> DEFINE o == NewOptions(s.options, c.options, row.options)
  <2>1. /\ pc[k] = "update" /\ Record(k, c) /\ row # Absent
        /\ catalog' = Put(k, c.name, [options |-> o])
        /\ UNCHANGED <<missing, inputs, halfDone, failures>>
    BY <1>4 DEF UpdateMapping, Try, FailsOnly, Turn
  <2>2. config[k] # Absent /\ s # Absent /\ c.name = s.name /\ s \in MappingConfig
    BY <1>0, <2>1, KindTypes, StateNames DEF KindInv, At, ForceNew
  <2>3. c \in MappingConfig /\ c.name \in Names
    BY <1>1, <2>2
  <2>4. catalog["server"][c.name] # Absent
    BY <2>1, <2>3 DEF Served
  <2>5. CASE MayCascade(k)
    <3>1. pc'[k] = "over" => MayCascade(k) \/ Fits(k)'
      BY <2>5
    <3> HIDE DEF c, o
    <3> QED  BY <1>0, <2>1, <2>4, <3>1, PutApplies
  <2>6. CASE Agrees(k)
    <3>1. s = ReadInstance(k, s, row)
      BY <2>2, <2>6 DEF Agrees
    <3>2. ReadInstance(k, s, row).options = row.options
      BY <2>2, ReadForms
    <3>3. o = NewOptions(row.options, c.options, row.options)
      BY <3>1, <3>2
    <3>4. o = c.options
      <4> HIDE DEF row
      <4>1. s.options \in Options /\ c.options \in Options
        BY <2>2, <2>3 DEF MappingConfig
      <4> QED  BY <3>1, <3>2, <3>3, <4>1, OptionsReplaced
    <3> QED  BY <1>2, <2>1, <2>2, <2>4, <3>4
  <2> QED  BY <2>1, <2>5, <2>6
<1>5. CASE DeleteMapping /\ ~FailsOnly(k)
  <2>1. /\ Forget(k) /\ catalog' = Put(k, s.name, Absent)
        /\ UNCHANGED <<missing, inputs, halfDone, failures>>
    BY <1>5 DEF DeleteMapping, Try, FailsOnly
  <2> QED  BY <1>0, <2>1, PutApplies
<1> QED  BY <1>3, <1>4, <1>5

\* The operations of functions.
LEMMA FunctionApplies ==
    ASSUME IInv, TypesInv, Stated, CreateFunction \/ UpdateFunction \/ DeleteFunction
    PROVE  FailsOnly("function") \/ Applies("function")
<1> DEFINE k == "function"
           s == state["function"]
           c == Planned("function")
<1>0. Shape /\ k \in Kinds /\ Typed(catalog) /\ KindInv(k) /\ Rows(catalog)
  BY TypedCatalog DEF IInv, TypesInv, Kinds, Shape, Rows
<1>1. CASE (CreateFunction \/ UpdateFunction) /\ ~FailsOnly(k)
  <2> DEFINE new == Definition(c)
  <2>1. /\ pc[k] \in {"create", "update"} /\ Record(k, c) /\ catalog' = Put(k, c.name, new)
        /\ UNCHANGED <<missing, inputs, halfDone, failures>>
    BY <1>1 DEF CreateFunction, UpdateFunction, Try, FailsOnly, Turn
  <2>2. config[k] # Absent
    BY <1>0, <2>1 DEF KindInv, At
  <2>3. PlanTyped(k)
    BY <1>0, <2>2, PlannedTyped DEF KindInv
  <2>4. c \in FunctionConfig /\ c \in Config[k] /\ c.name \in Names /\ c.name = config[k].name
    BY <1>0, <2>3, KindTypes, NameTyped DEF PlanTyped
  <2>5. catalog'[k][c.name] = new
    BY <1>0, <2>1, <2>4, PutFacts
  <2> HIDE DEF c
  <2>6. new = [returns |-> c.returns, options |-> c.options, body |-> c.body]
    BY DEF Definition
  <2>7. new \in Row[k] /\ new # Absent
    BY <1>0, <2>4, KindTypes, NotAbsent DEF FunctionConfig, Definition
  <2>8. c = ReadInstance(k, c, new)
    BY <2>4, <2>6, ReadForms DEF FunctionConfig
  <2> HIDE DEF new
  <2>9. pc'[k] = "over" => Fits(k)'
    BY <1>0, <2>1, <2>2, <2>4, <2>5, <2>7, <2>8, RecordFits
  <2> QED  BY <1>0, <2>1, <2>9, PutApplies
<1>2. CASE DeleteFunction /\ ~FailsOnly(k)
  <2>1. /\ Forget(k) /\ catalog' = Without(Doomed(<<k, s.name>>))
        /\ UNCHANGED <<missing, inputs, halfDone, failures>>
    BY <1>2 DEF DeleteFunction, Try, FailsOnly, Turn
  <2> QED  BY <1>0, <2>1, DropApplies
<1> QED  BY <1>1, <1>2

\* The operations of servers.
LEMMA ServerApplies ==
    ASSUME MappingsFollow, IInv, TypesInv, TrackInv, Stated, Served(catalog),
           CreateServer \/ UpdateServer \/ DeleteServer,
           pc["server"] = "update" => MayCascade("server") \/ Agrees("server")
    PROVE  FailsOnly("server") \/ Applies("server")
<1> DEFINE k == "server"
           s == state["server"]
           c == Planned("server")
<1>0. Shape /\ k \in Kinds /\ Typed(catalog) /\ KindInv(k) /\ Rows(catalog)
  BY TypedCatalog DEF IInv, TypesInv, Kinds, Shape, Rows
<1>1. ASSUME config[k] # Absent
      PROVE  /\ c \in ServerConfig /\ c.name \in Names /\ c \in Config[k]
             /\ c.name = config[k].name
             /\ state[k] # Absent => c \in Complete(ServerConfig)
  <2>1. PlanTyped(k)
    BY <1>0, <1>1, PlannedTyped DEF KindInv
  <2> QED  BY <1>0, <2>1, KindTypes, NameTyped DEF PlanTyped
<1>2. CASE CreateServer /\ ~FailsOnly(k)
  <2> DEFINE new == [fdw |-> c.fdw, version |-> c.version, owner |-> Told(c.owner, Me),
                     options |-> c.options]
             inst == WithOwner(c)
  <2>1. /\ pc[k] = "create" /\ Record(k, inst) /\ catalog' = Put(k, c.name, new)
        /\ UNCHANGED <<missing, inputs, halfDone, failures>>
    BY <1>2 DEF CreateServer, Try, FailsOnly, Turn
  <2>2. config[k] # Absent
    BY <1>0, <2>1 DEF KindInv, At
  <2>3. c \in ServerConfig /\ c.name \in Names /\ c.name = config[k].name
    BY <1>1, <2>2
  <2>4. catalog'[k][c.name] = new
    BY <1>0, <2>1, <2>3, PutFacts
  <2> HIDE DEF c
  <2>5. inst = [name |-> c.name, fdw |-> c.fdw, version |-> c.version,
                owner |-> Told(c.owner, Me), options |-> c.options, cascade |-> c.cascade]
    BY <2>3 DEF ServerConfig, WithOwner
  <2>6. Told(c.owner, Me) \in Roles
    BY <2>3, CatalogAssumption DEF ServerConfig, Told
  <2>7. inst \in ServerConfig /\ inst \in Config[k] /\ new \in Row[k] /\ new # Absent
    <3>1. inst \in ServerConfig /\ new \in Row[k]
      BY <2>3, <2>5, <2>6, KindTypes DEF ServerConfig
    <3> QED  BY <1>0, <3>1, KindTypes, NotAbsent
  <2>8. inst.name = config[k].name /\ inst.name = c.name
    BY <2>3, <2>5
  <2>9. inst = ReadInstance(k, inst, new)
    <3>1. ReadInstance(k, inst, new) =
            [name |-> inst.name, fdw |-> new.fdw, version |-> new.version, owner |-> new.owner,
             options |-> new.options, cascade |-> inst.cascade]
      BY <2>7, ReadForms
    <3> QED  BY <2>5, <3>1
  <2> HIDE DEF inst, new
  <2>10. pc'[k] = "over" => Fits(k)'
    BY <1>0, <2>1, <2>2, <2>4, <2>7, <2>8, <2>9, RecordFits
  <2> QED  BY <1>0, <2>1, <2>7, <2>10, PutApplies
<1>3. CASE UpdateServer /\ ~FailsOnly(k)
  <2> DEFINE row == catalog["server"][s.name]
             idle == [c EXCEPT !.cascade = s.cascade] = s
             new == [fdw |-> row.fdw,
                     version |-> IF c.version # s.version THEN c.version ELSE row.version,
                     owner |-> IF c.owner # s.owner THEN c.owner ELSE row.owner,
                     options |-> IF c.options # s.options
                                 THEN NewOptions(s.options, c.options, row.options)
                                 ELSE row.options]
  <2>1. /\ pc[k] = "update" /\ Turn(k, "update") /\ Record(k, c)
        /\ idle \/ (row # Absent /\ (c.name # s.name => catalog["server"][c.name] = Absent))
        /\ catalog' = IF idle THEN catalog ELSE Renamed(k, s.name, c.name, new)
        /\ UNCHANGED <<missing, inputs, halfDone, failures>>
    BY <1>3 DEF UpdateServer, Try, FailsOnly, Turn
  <2>2. /\ config[k] # Absent /\ s # Absent /\ s \in Complete(ServerConfig) /\ s \in ServerConfig
        /\ s.name \in Names /\ c.fdw = s.fdw
    BY <1>0, <2>1, KindTypes, StateNames DEF KindInv, At, ForceNew
  <2>3. /\ c \in ServerConfig /\ c.name \in Names /\ c.name = config[k].name /\ c \in Config[k]
        /\ c \in Complete(ServerConfig)
    BY <1>1, <2>2
  <2>4. c.name # s.name => catalog["mapping"][s.name] = Absent /\ (~idle => catalog["mapping"][c.name] = Absent)
    BY <2>1, <2>3, ServerUnmapped DEF Served
  <2> HIDE DEF c, s
  <2>5. /\ c.owner \in Roles /\ c.version \in Versions /\ c.options \in Options
        /\ s.options \in Options /\ c.fdw \in Names
    BY <2>2, <2>3, CompleteServer DEF ServerConfig
  <2>6. row \in Row[k] \cup {Absent}
    BY <1>0, <2>2 DEF Typed
  <2> HIDE DEF row
  <2>7. row # Absent => new \in Row[k] /\ new # Absent
    <3>1. row # Absent => /\ row.fdw \in Names /\ row.owner \in Roles /\ row.version \in Versions
                          /\ row.options \in Options
      BY <2>6, KindTypes
    <3>2. row # Absent => NewOptions(s.options, c.options, row.options) \in Options
      BY <2>5, <3>1, OptionsTyped
    <3>3. row # Absent => new \in Row[k]
      BY <2>5, <3>1, <3>2, KindTypes
    <3> QED  BY <1>0, <3>3, NotAbsent
  <2>8. idle => /\ c.name = s.name /\ c.version = s.version /\ c.owner = s.owner
                /\ c.options = s.options
    BY <2>2, <2>3 DEF ServerConfig
  <2>9. c = [name |-> c.name, fdw |-> c.fdw, version |-> c.version, owner |-> c.owner,
             options |-> c.options, cascade |-> c.cascade]
    BY <2>3 DEF ServerConfig
  <2>10. Spares(k) /\ (Served(catalog) => Served(catalog'))
    <3> HIDE DEF idle, new
    <3>1. CASE idle
      <4>1. catalog' \in {catalog, Put(k, c.name, c)}
        BY <2>1, <3>1
      <4>2. \A j \in Kinds : state[j] # Absent => state[j].name \in Names
        BY StateNames
      <4>3. c # Absent
        BY <1>0, <2>3, NotAbsent
      <4> QED  BY <1>0, <4>1, <4>2, <4>3, PutSpares
    <3>2. CASE ~idle
      <4>1. new # Absent /\ catalog' = Renamed(k, s.name, c.name, new)
        BY <2>1, <2>7, <3>2
      <4>2. \A j \in Kinds : state[j] # Absent => state[j].name \in Names
        BY StateNames
      <4> QED  BY <1>0, <2>2, <2>3, <2>4, <3>2, <4>1, <4>2, RenamedSpares
    <3> QED  BY <3>1, <3>2
  <2>11. ASSUME Agrees(k), pc'[k] = "over" PROVE Fits(k)'
    <3>1. row # Absent /\ s = ReadInstance(k, s, row)
      BY <2>11 DEF Agrees, s, row
    <3>2. s = [name |-> s.name, fdw |-> row.fdw, version |-> row.version, owner |-> row.owner,
               options |-> row.options, cascade |-> s.cascade]
      BY <2>2, <3>1, ReadForms
    <3>3. s.fdw = row.fdw /\ s.version = row.version /\ s.owner = row.owner /\ s.options = row.options
      BY <3>2
    <3> DEFINE after == IF idle THEN row ELSE new
    <3>4. catalog'[k][c.name] = after
      <4>1. CASE idle
        BY <2>1, <2>8, <4>1 DEF row
      <4>2. CASE ~idle
        <5> HIDE DEF new, idle
        <5>1. IsRenamed(catalog', k, s.name, c.name, new)
          BY <1>0, <2>1, <4>2, RenamedFacts
        <5> QED  BY <2>3, <4>2, <5>1 DEF IsRenamed
      <4> QED  BY <4>1, <4>2
    <3>5. /\ after.fdw = c.fdw /\ after.version = c.version /\ after.owner = c.owner
          /\ after.options = c.options
      <4>1. CASE idle
        BY <2>2, <2>8, <3>3, <4>1
      <4>2. CASE ~idle
        <5>1. NewOptions(s.options, c.options, row.options) = c.options
          BY <2>5, <3>3, OptionsReplaced
        <5> HIDE DEF idle
        <5> QED  BY <2>2, <3>3, <4>2, <5>1
      <4> QED  BY <4>1, <4>2
    <3>6. after # Absent
      BY <2>7, <3>1
    <3> HIDE DEF after
    <3>7. c = ReadInstance(k, c, after)
      BY <2>3, <2>9, <3>5, ReadForms
    <3> QED  BY <1>0, <2>1, <2>2, <2>3, <2>11, <3>4, <3>6, <3>7, RecordFits
  <2> QED  BY <2>1, <2>10, <2>11 DEF Applies
<1>4. CASE DeleteServer /\ ~FailsOnly(k)
  <2>1. /\ pc[k] = "delete" /\ Forget(k)
        /\ catalog' = Without(Doomed(<<k, s.name>>)) /\ CanDrop(k, s.name, s.cascade)
        /\ UNCHANGED <<missing, inputs, halfDone, failures>>
    BY <1>4 DEF DeleteServer, Try, FailsOnly, Turn
  <2>2. s # Absent
    BY <1>0, <2>1 DEF KindInv, At
  <2> QED  BY <1>0, <2>1, <2>2, DropApplies
<1> QED  BY <1>2, <1>3, <1>4

-----------------------------------------------------------------------------
(* What is recorded without reading it, or is not read. *)

\* The slot in the state is there, and it is not that of a subscription that
\* creates its own, which is there too.
SlotsApart ==
    /\ state["slot"] # Absent => catalog["slot"][state["slot"].name] # Absent
    /\ \A x \in Names :
         LET row == catalog["subscription"][x]
         IN  Knows("subscription", x) /\ row # Absent /\ CreatesSlot /\ row.slot # Absent =>
               /\ catalog["slot"][row.slot] # Absent
               /\ state["slot"] # Absent => state["slot"].name # row.slot

\* A subscription is enabled until its deletion begins.
Enabled ==
    \A x \in Names :
        Knows("subscription", x) /\ catalog["subscription"][x] # Absent =>
            \/ catalog["subscription"][x].enabled
            \/ pc["subscription"] \in {"unset", "drop"}
            \/ "subscription" \in halfDone

\* The body of the function is that in the state.
Bodies ==
    LET s == state["function"]
        row == catalog["function"][s.name]
    IN  s # Absent /\ row # Absent => row.body = s.body

\* The operations of slots.
LEMMA SlotApplies ==
    ASSUME IInv, TypesInv, SlotsApart, CreateSlot \/ DeleteSlot
    PROVE  FailsOnly("slot") \/ (Applies("slot") /\ SlotsApart')
<1> DEFINE k == "slot"
           s == state["slot"]
           c == Planned("slot")
<1>0. /\ Shape /\ k \in Kinds /\ Typed(catalog) /\ KindInv(k) /\ Rows(catalog)
      /\ "subscription" \in Kinds
  BY TypedCatalog DEF IInv, TypesInv, Kinds, Shape, Rows
<1>1. \A x \in Names : catalog["subscription"][x] # Absent =>
         catalog["subscription"][x].slot \in Names \cup {Absent}
  <2>1. \A row \in SubscriptionRow : row.slot \in Names \cup {Absent}
    BY DEF SubscriptionRow
  <2>2. \A x \in Names : catalog["subscription"][x] \in SubscriptionRow \cup {Absent}
    BY <1>0, KindTypes DEF Typed
  <2> QED  BY <2>1, <2>2
<1>2. CASE CreateSlot /\ ~FailsOnly(k)
  <2> DEFINE new == [plugin |-> c.plugin]
  <2>1. /\ pc[k] = "create" /\ Record(k, c) /\ catalog' = Put(k, c.name, new)
        /\ catalog[k][c.name] = Absent
        /\ UNCHANGED <<missing, inputs, halfDone, failures>>
    BY <1>2 DEF CreateSlot, Try, FailsOnly, Turn
  <2>2. config[k] # Absent
    BY <1>0, <2>1 DEF KindInv, At
  <2>3. PlanTyped(k)
    BY <1>0, <2>2, PlannedTyped DEF KindInv
  <2>4. c \in SlotConfig /\ c \in Config[k] /\ c.name \in Names /\ c.name = config[k].name
    BY <1>0, <2>3, KindTypes, NameTyped DEF PlanTyped
  <2>5. /\ catalog'[k][c.name] = new
        /\ \A x \in Names : x # c.name => catalog'[k][x] = catalog[k][x]
        /\ \A x \in Names : catalog'["subscription"][x] = catalog["subscription"][x]
    BY <1>0, <2>1, <2>4, PutFacts
  <2> HIDE DEF c
  <2>6. new \in Row[k] /\ new # Absent
    BY <1>0, <2>4, KindTypes, NotAbsent DEF SlotConfig
  <2>7. c = ReadInstance(k, c, new)
    BY <2>4, ReadForms DEF SlotConfig
  <2> HIDE DEF new
  <2>8. pc'[k] = "over" => Fits(k)'
    BY <1>0, <2>1, <2>2, <2>4, <2>5, <2>6, <2>7, RecordFits
  <2>9. Applies(k)
    BY <1>0, <2>1, <2>8, PutApplies
  <2>10. /\ state'[k] = c /\ state'["subscription"] = state["subscription"]
         /\ pc'["subscription"] = pc["subscription"] /\ config' = config
    BY <1>0, <2>1 DEF Record, Shape, inputs
  <2>11. CreatesSlot' = CreatesSlot /\ \A x : Knows("subscription", x)' <=> Knows("subscription", x)
    BY <2>10, SameKnown
  <2>12. SlotsApart'
    BY <1>1, <2>1, <2>4, <2>5, <2>6, <2>10, <2>11 DEF SlotsApart
  <2> QED  BY <2>9, <2>12
<1>3. CASE DeleteSlot /\ ~FailsOnly(k)
  <2>1. /\ pc[k] = "delete" /\ Forget(k) /\ catalog' = Put(k, s.name, Absent)
        /\ UNCHANGED <<missing, inputs, halfDone, failures>>
    BY <1>3 DEF DeleteSlot, Try, FailsOnly, Turn
  <2>2. s # Absent
    BY <1>0, <2>1 DEF KindInv, At
  <2>3. Applies(k)
    BY <1>0, <2>1, PutApplies
  <2>4. /\ state'[k] = Absent /\ state'["subscription"] = state["subscription"]
        /\ pc'["subscription"] = pc["subscription"] /\ config' = config
    BY <1>0, <2>1 DEF Forget, Shape, inputs
  <2>5. CreatesSlot' = CreatesSlot /\ \A x : Knows("subscription", x)' <=> Knows("subscription", x)
    BY <2>4, SameKnown
  <2>6. /\ \A x \in Names : x # s.name => catalog'[k][x] = catalog[k][x]
        /\ \A x \in Names : catalog'["subscription"][x] = catalog["subscription"][x]
    BY <1>0, <2>1, PutFacts
  <2>7. SlotsApart'
    BY <1>1, <2>2, <2>4, <2>5, <2>6 DEF SlotsApart
  <2> QED  BY <2>3, <2>7
<1> QED  BY <1>2, <1>3

\* The operations of subscriptions.
LEMMA SubscriptionApplies ==
    ASSUME IInv, TypesInv, SlotsApart,
           CreateSubscription \/ DisableSubscription \/ UnsetSlot \/ DropSubscription
    PROVE  FailsOnly("subscription") \/ (Applies("subscription") /\ SlotsApart' /\ Enabled')
<1> DEFINE k == "subscription"
           s == state["subscription"]
           c == Planned("subscription")
           t == state["slot"]
<1>0. /\ Rows(catalog) /\ k \in Kinds /\ Shape /\ Typed(catalog) /\ KindInv(k) /\ "slot" \in Kinds
      /\ \A j \in Kinds : state[j] # Absent => state[j].name \in Names
  BY StateNames DEF IInv, Shape, Rows, Kinds
<1>1. ASSUME NEW n, NEW row, NEW z, NEW v, Exchanged(n, row, z, v), Local(k), UNCHANGED inputs,
             t # Absent => t.name # z,
             \/ Forget(k)
             \/ \E step \in {"readBack", "unset", "drop"} : Continue(k, step)
      PROVE  Applies(k) /\ (t # Absent => catalog'["slot"][t.name] # Absent)
  <2>1. \A j \in Kinds \ {k}, x \in Names : j # "slot" \/ x # z => catalog'[j][x] = catalog[j][x]
    BY <1>1 DEF Exchanged, Replicated
  <2>2. \A j \in Kinds \ {k} : Same(j)
    BY <1>0, <1>1, <2>1 DEF Same
  <2>3. Served(catalog) => Served(catalog')
    <3>1. "server" \in Kinds \ {k, "slot"} /\ "mapping" \in Kinds \ {k, "slot"}
      BY DEF Kinds
    <3> QED  BY <2>1, <3>1 DEF Served
  <2>4. t # Absent => catalog'["slot"][t.name] # Absent
    <3>1. t # Absent => t.name \in Names /\ catalog["slot"][t.name] # Absent
      BY <1>0 DEF SlotsApart
    <3> HIDE DEF t
    <3> QED  BY <1>0, <1>1, <2>1, <3>1
  <2> QED  BY <1>0, <1>1, <2>2, <2>3, <2>4, EndFits DEF Applies, Spares
<1>2. CASE CreateSubscription /\ ~FailsOnly(k)
  <2> DEFINE row == [conn |-> c.conn, enabled |-> TRUE, slot |-> c.slot]
             made == Put("subscription", c.name, row)
             with == [made EXCEPT !.slot[c.slot] = [plugin |-> "a"]]
             z == IF c.createSlot THEN c.slot ELSE Absent
             v == IF c.createSlot THEN [plugin |-> "a"] ELSE Absent
  <2>1. /\ pc[k] = "create" /\ Continue(k, "readBack")
        /\ catalog["subscription"][c.name] = Absent
        /\ c.createSlot => catalog["slot"][c.slot] = Absent
        /\ catalog' = IF c.createSlot THEN with ELSE made
        /\ UNCHANGED <<missing, inputs, halfDone, failures>>
    BY <1>2 DEF CreateSubscription, Try, FailsOnly, Turn
  <2>2. config[k] # Absent /\ s = Absent /\ At(k)
    BY <1>0, <2>1 DEF KindInv, At
  <2>3. PlanTyped(k)
    BY <1>0, <2>2, PlannedTyped
  <2>4. c \in SubscriptionConfig /\ c.name = config[k].name
    BY <2>3, KindTypes DEF PlanTyped
  <2>5. c.createSlot = config[k].createSlot
    <3>1. config[k] \in SubscriptionConfig
      BY <1>0, <2>2, Configured
    <3>2. "createSlot" \in DOMAIN config[k]
      BY <3>1 DEF SubscriptionConfig
    <3> QED  BY <2>2, <3>2, PlannedAttributes
  <2> HIDE DEF c
  <2>6. Exchanged(c.name, row, z, v)
    <3>1. CASE c.createSlot
      <4> HIDE DEF row
      <4> QED  BY <1>0, <2>1, <3>1, BothExchanged
    <3>2. CASE ~c.createSlot
      BY <1>0, <2>1, <3>2, OnlyExchanged
    <3> QED  BY <3>1, <3>2
  <2> HIDE DEF with, made
  <2>7. Local(k)
    BY <1>0, <2>1, Results
  <2>8. t # Absent => t.name # z
    <3>1. t # Absent => t.name \in Names /\ t.name # Absent
      BY <1>0, CatalogAssumption
    <3>2. t # Absent => catalog["slot"][t.name] # Absent
      BY DEF SlotsApart
    <3> QED  BY <2>1, <3>1, <3>2
  <2>9. Applies(k) /\ (t # Absent => catalog'["slot"][t.name] # Absent)
    <3> HIDE DEF row, z, v
    <3> QED  BY <1>1, <2>1, <2>6, <2>7, <2>8
  <2>10. \A x : Knows(k, x)' <=> c.name = x
    BY <1>0, <2>1, <2>4, KnowsAfter
  <2>11. CreatesSlot' <=> c.createSlot
    BY <1>0, <2>1, <2>5 DEF CreatesSlot, Continue, Shape, inputs
  <2>12. state'["slot"] = t
    BY <1>0, <2>7 DEF Local
  <2>13. /\ catalog'[k][c.name] = row /\ c.name \in Names
         /\ c.createSlot => catalog'["slot"][c.slot] # Absent
    <3>1. c.name \in Names /\ c.slot \in Names
      BY <2>4 DEF SubscriptionConfig
    <3>2. c.createSlot => v # Absent
      <4>1. [plugin |-> "a"] \in Row["slot"]
        BY KindTypes
      <4> QED  BY <1>0, <4>1, NotAbsent
    <3> HIDE DEF row, v
    <3> QED  BY <2>6, <3>1, <3>2 DEF Exchanged
  <2>14. Enabled'
    BY <2>10, <2>13 DEF Enabled
  <2>15. SlotsApart'
    BY <2>8, <2>9, <2>10, <2>11, <2>12, <2>13 DEF SlotsApart
  <2> QED  BY <2>9, <2>14, <2>15
<1>3. CASE (DisableSubscription \/ UnsetSlot) /\ ~FailsOnly(k)
  <2>1. /\ \E step \in {"unset", "drop"} : Continue(k, step)
        /\ \E row : catalog' = Put(k, s.name, row)
        /\ UNCHANGED <<missing, inputs, halfDone, failures>>
        /\ ~s.createSlot
    BY <1>3 DEF DisableSubscription, UnsetSlot, Try, FailsOnly, Turn, Subscribed, SetSubscription,
                KeepsSlot, IInv, SlotsKnown
  <2>2. PICK row : Exchanged(s.name, row, Absent, Absent)
    BY <1>0, <2>1, OnlyExchanged
  <2>3. Local(k)
    BY <1>0, <2>1, Results
  <2>4. t # Absent => t.name # Absent
    BY <1>0, CatalogAssumption
  <2>5. Applies(k) /\ (t # Absent => catalog'["slot"][t.name] # Absent)
    BY <1>1, <2>1, <2>2, <2>3, <2>4
  <2>6. /\ ~CreatesSlot' /\ pc'[k] \in {"unset", "drop"} /\ state'["slot"] = t
    BY <1>0, <2>1, <2>3 DEF CreatesSlot, Continue, Shape, Local
  <2> QED  BY <2>5, <2>6 DEF SlotsApart, Enabled
<1>4. CASE DropSubscription /\ ~FailsOnly(k)
  <2> DEFINE n == s.name
             old == catalog["subscription"][n]
             z == old.slot
  <2>1. /\ pc[k] = "drop" \/ (pc[k] = "delete" /\ s.createSlot)
        /\ Forget(k) /\ catalog' = SubscriptionGone(n) /\ old # Absent
        /\ UNCHANGED <<missing, inputs, halfDone, failures>>
    BY <1>4 DEF DropSubscription, Try, FailsOnly, Turn, KeepsSlot, Subscribed
  <2>2. s # Absent /\ At(k) /\ n \in Names
    BY <1>0, <2>1 DEF KindInv, At
  <2>3. Exchanged(n, Absent, z, Absent)
    <3>1. CASE z = Absent
      BY <1>0, <2>1, <3>1, OnlyExchanged DEF SubscriptionGone
    <3>2. CASE z # Absent
      BY <1>0, <2>1, <3>2, BothExchanged DEF SubscriptionGone
    <3> QED  BY <3>1, <3>2
  <2>4. Local(k)
    BY <1>0, <2>1, Results
  <2>5. t # Absent => t.name # z
    <3>1. CASE pc[k] = "drop"
      <4>1. z = Absent
        BY <2>1, <3>1 DEF IInv, SlotsKnown, Subscribed
      <4> QED  BY <1>0, <4>1, CatalogAssumption
    <3>2. CASE pc[k] = "delete" /\ s.createSlot
      <4>1. Knows(k, n) /\ CreatesSlot
        BY <2>2, <3>2 DEF Knows, CreatesSlot
      <4>2. z # Absent /\ t # Absent => t.name # z
        BY <2>1, <2>2, <4>1 DEF SlotsApart
      <4> QED  BY <1>0, <4>2, CatalogAssumption
    <3> QED  BY <2>1, <3>1, <3>2
  <2>6. Applies(k) /\ (t # Absent => catalog'["slot"][t.name] # Absent)
    <3> HIDE DEF z
    <3> QED  BY <1>1, <2>1, <2>3, <2>4, <2>5
  <2>7. (\A x : ~Knows(k, x)') /\ state'["slot"] = t
    BY <1>0, <2>1, <2>4, KnowsAfter DEF Local
  <2> QED  BY <2>6, <2>7 DEF SlotsApart, Enabled
<1> QED  BY <1>2, <1>3, <1>4

-----------------------------------------------------------------------------
(* The inductive invariant of what is applied. *)

\* A run reads everything before it does anything.  What is recorded as it is
\* planned is not read back.
Phase ==
    /\ \A k \in Kinds \ InPlay : pc[k] = "over"
    /\ \A j, k \in InPlay : pc[k] \in {"idle", "read"} => pc[j] \in {"idle", "read"}
    /\ \A k \in {"slot", "function"} : pc[k] # "readBack"

\* What was read is so until the plan, and of what is altered without reading it
\* again until that; what is done fits.
Good(k) ==
    \/ MayCascade(k)
    \/ /\ pc[k] = "read" /\ state[k] # Absent => Agrees(k)
       /\ pc[k] = "update" /\ k \in {"server", "mapping"} => Agrees(k)
       /\ pc[k] = "over" => Fits(k)

Undrifted ==
    /\ Served(catalog) /\ SlotsApart /\ Enabled /\ Bodies
    /\ \A k \in InPlay : Good(k)

AppliedInv == Phase /\ Stated /\ (drifts = 0 => Undrifted)

\* What is neither changed nor moved on is as good as it was.
LEMMA SameGood ==
    ASSUME NEW j, state'[j] = state[j], pc'[j] = pc[j], UNCHANGED inputs, Same(j), Good(j)
    PROVE  Good(j)'
<1>1. MayCascade(j)' <=> MayCascade(j)
  BY DEF MayCascade, inputs
<1>2. state[j] # Absent =>
        ReadInstance(j, state'[j], catalog'[j][state'[j].name])
          = ReadInstance(j, state[j], catalog[j][state[j].name])
  BY DEF Same
<1>3. Agrees(j) => Agrees(j)'
  BY <1>2 DEF Agrees, Same
<1>4. Fits(j) => Fits(j)'
  <2>1. SUFFICES ASSUME Fits(j) PROVE Fits(j)'
    OBVIOUS
  <2>2. CASE config[j] = Absent
    BY <2>1, <2>2 DEF Fits, inputs
  <2>3. CASE config[j] # Absent
    <3>1. config'[j] = config[j]
      BY DEF inputs
    <3> QED  BY <1>2, <2>1, <2>3, <3>1 DEF Fits, Same
  <2> QED  BY <2>2, <2>3
<1> QED  BY <1>1, <1>3, <1>4 DEF Good

\* An operation of one leaves the others good, and itself.
LEMMA AppliesGood ==
    ASSUME SchemasFollow, IInv, TypesInv, Phase, Stated, NEW k \in Kinds, Local(k), UNCHANGED inputs,
           Applies(k), pc[k] \notin {"idle", "read", "over"}, pc'[k] \notin {"read", "update"},
           \A j \in InPlay : Good(j)
    PROVE  \A j \in InPlay : Good(j)'
<1>0. Shape /\ Typed(catalog) /\ InPlay \subseteq Kinds /\ \A j \in Kinds : KindInv(j)
  BY TypedCatalog DEF IInv, TypesInv, InPlay, GivenKinds, Shape, Given
<1>1. \A j : MayCascade(j)' <=> MayCascade(j)
  BY DEF MayCascade, inputs
<1>2. k \in InPlay
  BY DEF Phase
<1>3. \A j \in InPlay : pc[j] # "read"
  BY <1>2 DEF Phase
<1>4. Good(k)'
  BY <1>1 DEF Applies, Good
<1>5. ASSUME NEW j \in InPlay, j # k PROVE Good(j)'
  <2>1. state'[j] = state[j] /\ pc'[j] = pc[j]
    BY <1>0, <1>5 DEF Local
  <2>2. MayCascade(j) \/ Same(j) \/ (k = "schema" /\ j = "extension" /\ Moved)
    BY <1>0, <1>5 DEF Applies, Spares
  <2>3. CASE MayCascade(j)
    BY <1>1, <2>3 DEF Good
  <2>4. CASE Same(j)
    BY <2>1, <2>4, SameGood
  <2>5. CASE k = "schema" /\ j = "extension" /\ Moved
    <3>1. {"schema", "extension"} \subseteq Kinds
      BY DEF Kinds
    <3>2. Fits(j) => Fits(j)'
      BY <1>0, <2>1, <2>5, <3>1, MovedFits DEF inputs
    <3>3. pc'[j] # "read"
      BY <1>3, <2>1
    <3>4. Good(j)
      OBVIOUS
    <3> QED  BY <1>1, <2>1, <2>5, <3>2, <3>3, <3>4 DEF Good
  <2> QED  BY <2>2, <2>3, <2>4, <2>5
<1>6. InPlay' = InPlay
  BY DEF InPlay, GivenKinds, inputs
<1> QED  BY <1>4, <1>5

\* An operation is in the middle of a run.
LEMMA PhaseKept ==
    ASSUME Shape, Phase, NEW k \in Kinds, Local(k), UNCHANGED inputs,
           pc[k] \notin {"idle", "read", "over"}, pc'[k] \notin {"idle", "read"},
           k \in {"slot", "function"} => pc'[k] # "readBack"
    PROVE  Phase'
<1>1. InPlay' = InPlay /\ InPlay \subseteq Kinds
  BY DEF InPlay, GivenKinds, inputs, Shape, Given
<1>2. k \in InPlay
  BY DEF Phase
<1>3. \A j \in InPlay : pc[j] \notin {"idle", "read"}
  BY <1>2 DEF Phase
<1>4. {"slot", "function"} \subseteq Kinds
  BY DEF Kinds
<1> QED  BY <1>1, <1>2, <1>3, <1>4 DEF Phase, Local

\* What is recorded is named and dropped as it is configured.
LEMMA StatedKept ==
    ASSUME Shape, Stated, NEW k \in Kinds, \A j \in Kinds \ {k} : state'[j] = state[j], UNCHANGED inputs,
           k \in {"schema", "extension", "server"} =>
              \/ state'[k] = Absent
              \/ /\ state[k] # Absent /\ state'[k].name = state[k].name
                 /\ state'[k].cascade = state[k].cascade
              \/ /\ config[k] # Absent /\ state'[k].name = config[k].name
                 /\ state'[k].cascade = config[k].cascade
    PROVE  Stated'
<1>1. scenario' = scenario /\ config \in Given[scenario].configs
  BY DEF inputs, Shape
<1>2. {"schema", "extension", "server"} \subseteq Kinds
  BY DEF Kinds
<1>3. ASSUME NEW j \in {"schema", "extension", "server"}, state'[j] # Absent
      PROVE  \E c \in Given[scenario].configs :
                c[j] # Absent /\ c[j].name = state'[j].name /\ c[j].cascade = state'[j].cascade
  <2>1. CASE j = k
    BY <1>1, <1>3, <2>1 DEF Stated
  <2>2. CASE j # k
    BY <1>2, <1>3, <2>2 DEF Stated
  <2> QED  BY <2>1, <2>2
<1> QED  BY <1>1, <1>3 DEF Stated

\* A plan says as the configuration does what is dropped with the object.
LEMMA PlannedCascade ==
    ASSUME Shape, NEW k \in {"schema", "extension", "server"}, config[k] # Absent
    PROVE  Planned(k).cascade = config[k].cascade
<1>1. k \in Kinds
  BY DEF Kinds
<1>2. "cascade" \in DOMAIN config[k] /\ config[k].cascade \in BOOLEAN
  <2>1. config[k] \in Config[k]
    BY <1>1, ConfigTyped
  <2>2. CASE k = "schema"
    BY <2>1, <2>2, KindTypes DEF SchemaConfig
  <2>3. CASE k = "extension"
    BY <2>1, <2>3, KindTypes DEF ExtensionConfig
  <2>4. CASE k = "server"
    BY <2>1, <2>4, KindTypes DEF ServerConfig
  <2> QED  BY <2>2, <2>3, <2>4
<1> QED  BY <1>2, PlannedAttributes, CatalogAssumption

-----------------------------------------------------------------------------
(* The parts that only some operations disturb. *)

\* An operation on another kind touches neither slots nor subscriptions.
LEMMA SlotsApartElsewhere ==
    ASSUME IInv, TypesInv, SlotsApart, NEW k \in Kinds \ Replicated, Elsewhere(k)
    PROVE  SlotsApart'
<1>0. /\ {"slot", "subscription"} \subseteq Kinds /\ k \notin {"slot", "subscription"}
      /\ Typed(catalog) /\ \A j \in Kinds : state[j] # Absent => state[j].name \in Names
  BY StateNames DEF Kinds, Replicated
<1>1. \A x \in Names : /\ catalog'["slot"][x] = catalog["slot"][x]
                       /\ catalog'["subscription"][x] = catalog["subscription"][x]
  BY DEF Elsewhere, Kept, Replicated
<1>2. /\ \A j \in {"slot", "subscription"} : state'[j] = state[j] /\ pc'[j] = pc[j]
      /\ config' = config
  BY <1>0 DEF Elsewhere, Local, inputs
<1>3. /\ CreatesSlot' = CreatesSlot
      /\ \A x : Knows("subscription", x)' <=> Knows("subscription", x)
  BY <1>2, SameKnown
<1>4. \A x \in Names : catalog["subscription"][x] # Absent /\ catalog["subscription"][x].slot # Absent =>
         catalog["subscription"][x].slot \in Names
  <2>1. \A row \in SubscriptionRow : row.slot \in Names \cup {Absent}
    BY DEF SubscriptionRow
  <2>2. \A x \in Names : catalog["subscription"][x] \in SubscriptionRow \cup {Absent}
    BY <1>0, KindTypes DEF Typed
  <2> QED  BY <2>1, <2>2
<1> QED  BY <1>0, <1>1, <1>2, <1>3, <1>4 DEF SlotsApart

\* Nothing but an operation on the subscription disables it.
LEMMA EnabledKept ==
    ASSUME Enabled, state'["subscription"] = state["subscription"],
           pc'["subscription"] = pc["subscription"], config' = config, halfDone \subseteq halfDone',
           \A x \in Names : catalog'["subscription"][x] = catalog["subscription"][x]
    PROVE  Enabled'
<1>1. \A x : Knows("subscription", x)' <=> Knows("subscription", x)
  BY SameKnown
<1> QED  BY <1>1 DEF Enabled

\* Nothing but an operation on the function changes its body.
LEMMA BodiesKept ==
    ASSUME Bodies, NEW k \in Kinds \ {"function"}, Local(k), Spares(k)
    PROVE  Bodies'
<1>1. "function" \in Kinds /\ ~MayCascade("function")
  BY DEF Kinds, MayCascade, Base
<1>2. Same("function") /\ state'["function"] = state["function"]
  BY <1>1 DEF Spares, Local
<1> QED  BY <1>2 DEF Bodies, Same

\* The operations of functions say what is in the body.
LEMMA BodiesMade ==
    ASSUME IInv, TypesInv, CreateFunction \/ UpdateFunction \/ DeleteFunction, ~FailsOnly("function")
    PROVE  Bodies'
<1> DEFINE k == "function"
           c == Planned("function")
<1>0. Shape /\ k \in Kinds /\ KindInv(k) /\ Rows(catalog)
  BY TypedCatalog DEF IInv, TypesInv, Kinds, Shape, Rows
<1>1. CASE CreateFunction \/ UpdateFunction
  <2>1. /\ pc[k] \in {"create", "update"} /\ Record(k, c) /\ catalog' = Put(k, c.name, Definition(c))
    BY <1>1 DEF CreateFunction, UpdateFunction, Try, FailsOnly, Turn
  <2>2. config[k] # Absent
    BY <1>0, <2>1 DEF KindInv, At
  <2>3. PlanTyped(k)
    BY <1>0, <2>2, PlannedTyped DEF KindInv
  <2>4. c.name \in Names
    BY <1>0, <2>3, NameTyped DEF PlanTyped
  <2>5. catalog'[k][c.name] = Definition(c)
    BY <1>0, <2>1, <2>4, PutFacts
  <2>6. state'[k] = c
    BY <1>0, <2>1 DEF Record, Shape
  <2> HIDE DEF c
  <2> QED  BY <2>5, <2>6 DEF Bodies, Definition
<1>2. CASE DeleteFunction
  <2>1. Forget(k)
    BY <1>2 DEF DeleteFunction, Try, FailsOnly
  <2>2. state'[k] = Absent
    BY <1>0, <2>1 DEF Forget, Shape
  <2> QED  BY <2>2 DEF Bodies
<1> QED  BY <1>1, <1>2

\* An operation that fails leaves what there is.
LEMMA FailApplied ==
    ASSUME IInv, TypesInv, TrackInv, AppliedInv, NEW k \in Kinds, FailsOnly(k),
           pc[k] \notin {"idle", "read", "over"}
    PROVE  AppliedInv'
<1>0. Shape /\ InPlay \subseteq Kinds /\ "subscription" \in Kinds
  BY DEF IInv, InPlay, GivenKinds, Shape, Given, Kinds
<1>1. /\ Local(k) /\ pc'[k] = "failed" /\ UNCHANGED <<catalog, inputs, state>>
      /\ halfDone' = IF pc[k] \in {"unset", "drop", "readBack"} THEN halfDone \cup {k} ELSE halfDone
  BY <1>0, Results DEF FailsOnly, Fail, Shape
<1>2. Phase'
  BY <1>0, <1>1, PhaseKept DEF AppliedInv
<1>3. Stated'
  BY <1>1 DEF AppliedInv, Stated, inputs
<1>4. ASSUME drifts = 0 PROVE Undrifted'
  <2>0. Undrifted
    BY <1>4 DEF AppliedInv
  <2>1. ASSUME NEW x, Knows("subscription", x)'
        PROVE  /\ Knows("subscription", x) /\ CreatesSlot' = CreatesSlot
               /\ pc'["subscription"] = pc["subscription"] \/ k = "subscription"
    BY <1>0, <1>1, <2>1 DEF Knows, CreatesSlot, TrackInv, Local, inputs
  <2>2. SlotsApart'
    BY <1>1, <2>0, <2>1 DEF Undrifted, SlotsApart
  <2>3. Enabled'
    BY <1>1, <2>0, <2>1 DEF Undrifted, Enabled
  <2>4. Served(catalog') /\ Bodies'
    BY <1>1, <2>0 DEF Undrifted, Bodies
  <2>5. ASSUME NEW j \in InPlay PROVE Good(j)'
    <3>1. CASE j = k
      BY <1>1, <3>1 DEF Good
    <3>2. CASE j # k
      <4>1. state'[j] = state[j] /\ pc'[j] = pc[j] /\ Same(j)
        BY <1>0, <1>1, <2>5, <3>2 DEF Local, Same
      <4> QED  BY <1>1, <2>0, <4>1, SameGood DEF Undrifted
    <3> QED  BY <3>1, <3>2
  <2>6. InPlay' = InPlay
    BY <1>1 DEF InPlay, GivenKinds, inputs
  <2> QED  BY <2>2, <2>3, <2>4, <2>5, <2>6 DEF Undrifted
<1>5. drifts' = drifts
  BY <1>1 DEF inputs
<1> QED  BY <1>2, <1>3, <1>4, <1>5 DEF AppliedInv

\* An operation that is done.
LEMMA DoneApplied ==
    ASSUME SchemasFollow, IInv, TypesInv, AppliedInv, NEW k \in Kinds, Local(k), UNCHANGED inputs,
           pc[k] \notin {"idle", "read", "over"}, pc'[k] \notin {"idle", "read", "update"},
           k \in {"slot", "function"} => pc'[k] # "readBack",
           Stated', drifts = 0 => Applies(k) /\ SlotsApart' /\ Enabled' /\ Bodies'
    PROVE  AppliedInv'
<1>1. Phase'
  BY PhaseKept DEF AppliedInv, IInv
<1>2. ASSUME drifts = 0 PROVE Undrifted'
  <2>1. \A j \in InPlay : Good(j)'
    BY <1>2, AppliesGood DEF AppliedInv, Undrifted
  <2>2. Served(catalog')
    BY <1>2 DEF AppliedInv, Undrifted, Applies
  <2>3. InPlay' = InPlay
    BY DEF InPlay, GivenKinds, inputs
  <2> QED  BY <1>2, <2>1, <2>2, <2>3 DEF Undrifted
<1>3. drifts' = drifts
  BY DEF inputs
<1> QED  BY <1>1, <1>2, <1>3 DEF AppliedInv

\* The kinds whose operations do nothing to slots and subscriptions.
LEMMA ElsewhereApplied ==
    ASSUME SchemasFollow, IInv, TypesInv, TrackInv, AppliedInv, NEW k \in Kinds \ Replicated,
           pc[k] \in {"create", "update", "delete"}, Elsewhere(k),
           FailsOnly(k) \/ Leaves(k),
           pc'[k] \notin {"idle", "read", "update"}, k = "function" => pc'[k] # "readBack",
           Stated', drifts = 0 => FailsOnly(k) \/ (Applies(k) /\ Bodies')
    PROVE  AppliedInv'
<1>1. CASE FailsOnly(k)
  BY <1>1, FailApplied
<1>2. CASE ~FailsOnly(k)
  <2>1. Local(k) /\ UNCHANGED inputs /\ halfDone' = halfDone
    BY <1>2 DEF Elsewhere, Leaves
  <2>2. "subscription" \in Kinds \ {k} /\ k # "slot"
    BY DEF Kinds, Replicated
  <2>3. drifts = 0 => SlotsApart'
    BY SlotsApartElsewhere DEF AppliedInv, Undrifted
  <2>4. drifts = 0 => Enabled'
    <3>1. \A x \in Names : catalog'["subscription"][x] = catalog["subscription"][x]
      BY DEF Elsewhere, Kept, Replicated
    <3>2. /\ state'["subscription"] = state["subscription"]
          /\ pc'["subscription"] = pc["subscription"] /\ config' = config
      BY <2>1, <2>2 DEF Local, inputs
    <3> QED  BY <2>1, <3>1, <3>2, EnabledKept DEF AppliedInv, Undrifted
  <2> QED  BY <1>2, <2>1, <2>2, <2>3, <2>4, DoneApplied
<1> QED  BY <1>1, <1>2

\* How an operation ends.
LEMMA Ended ==
    ASSUME Shape, NEW k \in Kinds, Local(k), UNCHANGED inputs,
           \/ Fail(k) \/ Forget(k)
           \/ \E step \in {"readBack", "unset", "drop"} : Continue(k, step)
           \/ \E inst : Record(k, inst)
    PROVE  /\ pc'[k] \notin {"idle", "read", "update"}
           /\ \A j \in Kinds \ {k} : state'[j] = state[j]
           /\ \/ state'[k] \in {Absent, state[k]}
              \/ \E inst : Record(k, inst) /\ state'[k] = inst
BY DEF Shape, Local, Fail, Forget, Continue, Record

\* A server is recorded with the name and the cascade that are configured.
LEMMA ServerStated ==
    ASSUME IInv, TypesInv, Stated, CreateServer \/ UpdateServer \/ DeleteServer, Local("server"),
           UNCHANGED inputs
    PROVE  Stated'
<1> DEFINE k == "server"
           c == Planned("server")
<1>0. Shape /\ k \in Kinds /\ KindInv(k)
  BY TypedCatalog DEF IInv, TypesInv, Kinds
<1>1. \/ Fail(k) \/ Forget(k)
      \/ Record(k, c) /\ pc[k] = "update"
      \/ Record(k, WithOwner(c)) /\ pc[k] = "create"
  BY DEF CreateServer, UpdateServer, DeleteServer, Try, Turn
<1>2. \A j \in Kinds \ {k} : state'[j] = state[j]
  BY DEF Local
<1>3. CASE Fail(k) \/ Forget(k)
  <2>1. state'[k] \in {Absent, state[k]}
    BY <1>0, <1>3 DEF Fail, Forget, Shape
  <2> QED  BY <1>0, <1>2, <2>1, StatedKept
<1>4. CASE (Record(k, c) /\ pc[k] = "update") \/ (Record(k, WithOwner(c)) /\ pc[k] = "create")
  <2>1. config[k] # Absent
    BY <1>0, <1>4 DEF KindInv, At
  <2>2. PlanTyped(k)
    BY <1>0, <2>1, PlannedTyped DEF KindInv
  <2>3. c \in ServerConfig /\ c.name = config[k].name /\ c.cascade = config[k].cascade
    BY <1>0, <2>1, <2>2, KindTypes, PlannedCascade DEF PlanTyped
  <2>4. state'[k] \in {c, WithOwner(c)}
    BY <1>0, <1>4 DEF Record, Shape
  <2> HIDE DEF c
  <2>5. WithOwner(c).name = c.name /\ WithOwner(c).cascade = c.cascade
    BY <2>3 DEF ServerConfig, WithOwner
  <2> QED  BY <1>0, <1>2, <2>1, <2>3, <2>4, <2>5, StatedKept
<1> QED  BY <1>1, <1>3, <1>4

\* Every operation keeps what is applied.
LEMMA OperationApplied ==
    ASSUME MappingsFollow, SchemasFollow, IInv, TypesInv, TrackInv, AppliedInv,
           SchemaStep \/ ForeignDataStep \/ ReplicationStep \/ FunctionStep
    PROVE  AppliedInv'
<1>0. /\ Shape /\ Typed(catalog) /\ \A k \in Kinds : KindInv(k)
      /\ {"schema", "extension", "server", "mapping", "publication", "function"} \subseteq Kinds \ Replicated
      /\ {"slot", "subscription"} \subseteq Kinds
      /\ Stated /\ (drifts = 0 => Undrifted)
  BY TypedCatalog DEF IInv, TypesInv, Kinds, Replicated, AppliedInv
<1>1. ASSUME NEW k \in Kinds \ Replicated, pc[k] \in {"create", "update", "delete"}, Elsewhere(k),
             FailsOnly(k) \/ Leaves(k), drifts = 0 => FailsOnly(k) \/ Applies(k),
             \/ Fail(k) \/ Forget(k)
             \/ Continue(k, "readBack") /\ k # "function"
             \/ (\E inst : Record(k, inst)) /\ k \notin {"schema", "extension"},
             k = "server" => Stated', k = "function" => FailsOnly(k) \/ Bodies'
      PROVE  AppliedInv'
  <2>1. Local(k) /\ UNCHANGED inputs
    BY <1>1 DEF Elsewhere
  <2>2. /\ pc'[k] \notin {"idle", "read", "update"}
        /\ \A j \in Kinds \ {k} : state'[j] = state[j]
    BY <1>0, <1>1, <2>1, Ended
  <2>3. k \in {"schema", "extension"} => state'[k] \in {Absent, state[k]}
    BY <1>0, <1>1 DEF Fail, Forget, Continue, Shape
  <2>4. Stated'
    BY <1>0, <1>1, <2>1, <2>2, <2>3, StatedKept
  <2>5. k = "function" => pc'[k] # "readBack"
    BY <1>0, <1>1 DEF Fail, Forget, Record, Shape
  <2>6. drifts = 0 => FailsOnly(k) \/ (Applies(k) /\ Bodies')
    <3>1. Applies(k) /\ drifts = 0 /\ k # "function" => Bodies'
      BY <1>0, <1>1, <2>1, BodiesKept DEF Applies, Undrifted
    <3> QED  BY <1>1, <3>1
  <2> QED  BY <1>1, <2>2, <2>4, <2>5, <2>6, ElsewhereApplied
<1>2. \A k \in InPlay : drifts = 0 => Good(k)
  BY <1>0 DEF Undrifted
<1>3. \A k \in Kinds : drifts = 0 /\ pc[k] = "update" /\ k \in {"server", "mapping"} =>
         MayCascade(k) \/ Agrees(k)
  BY <1>2 DEF Good, AppliedInv, Phase
<1>4. CASE SchemaStep
  <2> DEFINE k == "schema"
  <2>1. Elsewhere(k)
    BY <1>0, <1>4, SchemaElsewhere DEF SchemaStep
  <2>2. FailsOnly(k) \/ Leaves(k)
    BY <1>0, <1>4, SchemaDone DEF SchemaStep
  <2>3. FailsOnly(k) \/ Applies(k)
    BY <1>0, <1>4, SchemaApplies DEF SchemaStep
  <2>4. /\ Fail(k) \/ Forget(k) \/ Continue(k, "readBack")
        /\ pc[k] \in {"create", "update", "delete"}
    BY <1>4 DEF SchemaStep, CreateSchema, UpdateSchema, DeleteSchema, Try, Turn
  <2> QED  BY <1>0, <1>1, <2>1, <2>2, <2>3, <2>4
<1>5. CASE CreateExtension \/ UpdateExtension \/ DeleteExtension
  <2> DEFINE k == "extension"
  <2>1. Elsewhere(k)
    BY <1>0, <1>5, ExtensionElsewhere
  <2>2. FailsOnly(k) \/ Leaves(k)
    BY <1>0, <1>5, ExtensionDone
  <2>3. FailsOnly(k) \/ Applies(k)
    BY <1>0, <1>5, ExtensionApplies
  <2>4. /\ Fail(k) \/ Forget(k) \/ Continue(k, "readBack")
        /\ pc[k] \in {"create", "update", "delete"}
    BY <1>5 DEF CreateExtension, UpdateExtension, DeleteExtension, Try, Turn
  <2> QED  BY <1>0, <1>1, <2>1, <2>2, <2>3, <2>4
<1>6. CASE CreateServer \/ UpdateServer \/ DeleteServer
  <2> DEFINE k == "server"
  <2>1. Elsewhere(k)
    BY <1>0, <1>6, ServerElsewhere
  <2>2. FailsOnly(k) \/ Leaves(k)
    BY <1>0, <1>6, ServerDone
  <2>3. drifts = 0 => FailsOnly(k) \/ Applies(k)
    BY <1>0, <1>3, <1>6, ServerApplies DEF Undrifted
  <2>4. /\ Fail(k) \/ Forget(k) \/ \E inst : Record(k, inst)
        /\ pc[k] \in {"create", "update", "delete"}
    BY <1>6 DEF CreateServer, UpdateServer, DeleteServer, Try, Turn
  <2>5. Stated'
    BY <1>0, <1>6, <2>1, ServerStated DEF Elsewhere
  <2> QED  BY <1>0, <1>1, <2>1, <2>2, <2>3, <2>4, <2>5
<1>7. CASE CreateMapping \/ UpdateMapping \/ DeleteMapping
  <2> DEFINE k == "mapping"
  <2>1. Elsewhere(k)
    BY <1>0, <1>7, MappingElsewhere
  <2>2. FailsOnly(k) \/ Leaves(k)
    BY <1>0, <1>7, MappingDone
  <2>3. drifts = 0 => FailsOnly(k) \/ Applies(k)
    BY <1>0, <1>3, <1>7, MappingApplies DEF Undrifted
  <2>4. /\ Fail(k) \/ Forget(k) \/ \E inst : Record(k, inst)
        /\ pc[k] \in {"create", "update", "delete"}
    BY <1>7 DEF CreateMapping, UpdateMapping, DeleteMapping, Try, Turn
  <2> QED  BY <1>0, <1>1, <2>1, <2>2, <2>3, <2>4
<1>8. CASE CreatePublication \/ UpdatePublication \/ DeletePublication
  <2> DEFINE k == "publication"
  <2>1. Elsewhere(k)
    BY <1>0, <1>8, PublicationElsewhere
  <2>2. FailsOnly(k) \/ Leaves(k)
    BY <1>0, <1>8, PublicationDone
  <2>3. FailsOnly(k) \/ Applies(k)
    BY <1>0, <1>8, PublicationApplies
  <2>4. /\ Fail(k) \/ Forget(k) \/ Continue(k, "readBack")
        /\ pc[k] \in {"create", "update", "delete"}
    BY <1>8 DEF CreatePublication, UpdatePublication, DeletePublication, Try, Turn
  <2> QED  BY <1>0, <1>1, <2>1, <2>2, <2>3, <2>4
<1>9. CASE FunctionStep
  <2> DEFINE k == "function"
  <2>1. Elsewhere(k)
    BY <1>0, <1>9, FunctionElsewhere DEF FunctionStep
  <2>2. FailsOnly(k) \/ Leaves(k)
    BY <1>0, <1>9, FunctionDone DEF FunctionStep
  <2>3. FailsOnly(k) \/ (Applies(k) /\ Bodies')
    BY <1>0, <1>9, FunctionApplies, BodiesMade DEF FunctionStep
  <2>4. /\ Fail(k) \/ Forget(k) \/ \E inst : Record(k, inst)
        /\ pc[k] \in {"create", "update", "delete"}
    BY <1>9 DEF FunctionStep, CreateFunction, UpdateFunction, DeleteFunction, Try, Turn
  <2> QED  BY <1>0, <1>1, <2>1, <2>2, <2>3, <2>4
<1>10. ASSUME NEW k \in Replicated, pc[k] \in {"create", "update", "delete", "unset", "drop"},
              FailsOnly(k) \/ Leaves(k),
              \/ Fail(k) \/ Forget(k)
              \/ k = "subscription" /\ \E step \in {"readBack", "unset", "drop"} : Continue(k, step)
              \/ k = "slot" /\ \E inst : Record(k, inst),
              drifts = 0 => FailsOnly(k) \/ (Applies(k) /\ SlotsApart' /\ Enabled')
       PROVE  AppliedInv'
  <2>0. k \in Kinds /\ k # "function"
    BY <1>0 DEF Replicated
  <2>1. CASE FailsOnly(k)
    BY <1>10, <2>0, <2>1, FailApplied
  <2>2. CASE ~FailsOnly(k)
    <3>1. Local(k) /\ UNCHANGED inputs
      BY <1>0, <1>10, <2>0, <2>2, Results DEF Leaves
    <3>2. /\ pc'[k] \notin {"idle", "read", "update"}
          /\ \A j \in Kinds \ {k} : state'[j] = state[j]
      BY <1>0, <1>10, <2>0, <3>1, Ended
    <3>3. k = "slot" => pc'[k] # "readBack"
      BY <1>0, <1>10, <2>0 DEF Fail, Forget, Record, Shape
    <3>4. Stated'
      BY <1>0, <1>10, <2>0, <3>1, <3>2, StatedKept DEF Replicated
    <3>5. drifts = 0 => Bodies'
      BY <1>0, <1>10, <2>0, <2>2, <3>1, BodiesKept DEF Applies, Undrifted
    <3> QED  BY <1>10, <2>0, <2>2, <3>1, <3>2, <3>3, <3>4, <3>5, DoneApplied
  <2> QED  BY <2>1, <2>2
<1>11. CASE CreateSlot \/ DeleteSlot
  <2> DEFINE k == "slot"
  <2>1. /\ FailsOnly(k) \/ Leaves(k)
        /\ \A x \in Names : FailsOnly(k) \/ catalog'["subscription"][x] = catalog["subscription"][x]
    BY <1>0, <1>11, SlotDone
  <2>2. drifts = 0 => FailsOnly(k) \/ (Applies(k) /\ SlotsApart')
    BY <1>0, <1>11, SlotApplies DEF Undrifted
  <2>3. /\ Fail(k) \/ Forget(k) \/ \E inst : Record(k, inst)
        /\ pc[k] \in {"create", "update", "delete"}
    BY <1>11 DEF CreateSlot, DeleteSlot, Try, Turn
  <2>4. drifts = 0 => FailsOnly(k) \/ Enabled'
    <3>1. SUFFICES ASSUME drifts = 0, ~FailsOnly(k) PROVE Enabled'
      OBVIOUS
    <3>2. Local(k) /\ UNCHANGED inputs /\ halfDone' = halfDone
      BY <1>0, <2>1, <2>3, <3>1, Results DEF Leaves
    <3>3. /\ state'["subscription"] = state["subscription"]
          /\ pc'["subscription"] = pc["subscription"] /\ config' = config
      BY <1>0, <3>2 DEF Local, inputs
    <3> QED  BY <1>0, <2>1, <3>1, <3>2, <3>3, EnabledKept DEF Undrifted
  <2> QED  BY <1>10, <2>1, <2>2, <2>3, <2>4 DEF Replicated
<1>12. CASE CreateSubscription \/ DisableSubscription \/ UnsetSlot \/ DropSubscription
  <2> DEFINE k == "subscription"
  <2>1. FailsOnly(k) \/ Leaves(k)
    BY <1>0, <1>12, SubscriptionDone
  <2>2. drifts = 0 => FailsOnly(k) \/ (Applies(k) /\ SlotsApart' /\ Enabled')
    BY <1>0, <1>12, SubscriptionApplies DEF Undrifted
  <2>3. /\ Fail(k) \/ Forget(k) \/ \E step \in {"readBack", "unset", "drop"} : Continue(k, step)
        /\ pc[k] \in {"create", "update", "delete", "unset", "drop"}
    BY <1>12 DEF CreateSubscription, DisableSubscription, UnsetSlot, DropSubscription, Try, Turn
  <2> QED  BY <1>10, <2>1, <2>2, <2>3 DEF Replicated
<1> QED  BY <1>4, <1>5, <1>6, <1>7, <1>8, <1>9, <1>11, <1>12 DEF ForeignDataStep, ReplicationStep

\* What is not read is as it was in the instance.
LEMMA ReadKeeps ==
    ASSUME NEW k \in Kinds, NEW i \in Config[k], NEW row
    PROVE  /\ k \in {"schema", "extension", "server"} => ReadInstance(k, i, row).cascade = i.cascade
           /\ k = "function" => ReadInstance(k, i, row).body = i.body
<1>1. CASE k = "schema"
  BY <1>1, KindTypes, ReadForms
<1>2. CASE k = "extension"
  BY <1>2, KindTypes, ReadForms
<1>3. CASE k = "server"
  BY <1>3, KindTypes, ReadForms
<1>4. CASE k = "function"
  BY <1>4, KindTypes, ReadForms
<1> QED  BY <1>1, <1>2, <1>3, <1>4

\* What is read agrees with what there is.
LEMMA RefreshAgrees ==
    ASSUME Shape, TypesInv, NEW k \in Kinds, Refresh(k), state'[k] # Absent
    PROVE  /\ Agrees(k)' /\ state[k] # Absent /\ state'[k].name = state[k].name
           /\ catalog[k][state[k].name] # Absent
           /\ k \in {"schema", "extension", "server"} => state'[k].cascade = state[k].cascade
           /\ k = "function" => state'[k].body = state[k].body
<1> DEFINE s == state[k]
           row == catalog[k][s.name]
<1>1. s # Absent /\ row # Absent /\ state'[k] = ReadInstance(k, s, row) /\ catalog' = catalog
  BY DEF Refresh, Shape
<1>2. s \in Config[k] /\ s.name \in Names /\ Typed(catalog)
  BY <1>1, StateNames
<1>3. row \in Row[k]
  BY <1>1, <1>2 DEF Typed
<1> HIDE DEF s, row
<1>4. ReadInstance(k, s, row).name = s.name
  BY <1>2, <1>3, ReadTyped
<1>5. ReadInstance(k, ReadInstance(k, s, row), row) = ReadInstance(k, s, row)
  BY <1>2, <1>3, ReadAgain
<1>6. catalog'[k][state'[k].name] = row
  BY <1>1, <1>4 DEF s, row
<1>7. ReadInstance(k, state'[k], catalog'[k][state'[k].name]) = state'[k]
  BY <1>1, <1>5, <1>6
<1>8. Agrees(k)'
  BY <1>1, <1>6, <1>7 DEF Agrees
<1> QED  BY <1>1, <1>2, <1>4, <1>8, ReadKeeps DEF s, row

\* Reading at the start of a run records what the server has.
LEMMA RefreshApplied ==
    ASSUME IInv, TypesInv, AppliedInv, NEW k \in InPlay, Refresh(k)
    PROVE  AppliedInv'
<1>0. Shape /\ InPlay \subseteq Kinds /\ k \in Kinds
      /\ {"schema", "extension", "server", "slot", "subscription", "function"} \subseteq Kinds
  BY DEF IInv, InPlay, GivenKinds, Shape, Given, Kinds
<1>1. /\ Local(k) /\ pc[k] = "idle" /\ pc'[k] = "read"
      /\ UNCHANGED <<catalog, missing, inputs, halfDone, failures>>
  BY <1>0, RefreshFacts DEF Refresh
<1>2. InPlay' = InPlay
  BY <1>1 DEF InPlay, GivenKinds, inputs
<1>3. Phase'
  BY <1>0, <1>1, <1>2 DEF AppliedInv, Phase, Local
<1>4. Stated'
  BY <1>0, <1>1, RefreshAgrees, StatedKept DEF AppliedInv, Local
<1>5. ASSUME drifts = 0 PROVE Undrifted'
  <2>0. Undrifted
    BY <1>5 DEF AppliedInv
  <2>1. ASSUME NEW x, Knows("subscription", x)'
        PROVE  Knows("subscription", x) /\ CreatesSlot' = CreatesSlot
    <3>1. CASE k = "subscription"
      BY <1>0, <1>1, <2>1, <3>1, RefreshFacts DEF Knows, CreatesSlot
    <3>2. CASE k # "subscription"
      <4>1. /\ state'["subscription"] = state["subscription"]
            /\ pc'["subscription"] = pc["subscription"] /\ config' = config
        BY <1>0, <1>1, <3>2 DEF Local, inputs
      <4> QED  BY <2>1, <4>1, SameKnown
    <3> QED  BY <3>1, <3>2
  <2>2. state'["slot"] # Absent =>
          state["slot"] # Absent /\ state'["slot"].name = state["slot"].name
    BY <1>0, <1>1, RefreshAgrees DEF Local
  <2>3. SlotsApart'
    BY <1>1, <2>0, <2>1, <2>2 DEF Undrifted, SlotsApart
  <2>4. pc["subscription"] \in {"unset", "drop"} => pc'["subscription"] = pc["subscription"]
    BY <1>0, <1>1 DEF Local
  <2>5. Enabled'
    BY <1>1, <2>0, <2>1, <2>4 DEF Undrifted, Enabled
  <2>6. state'["function"] # Absent =>
          /\ state["function"] # Absent /\ state'["function"].name = state["function"].name
          /\ state'["function"].body = state["function"].body
    BY <1>0, <1>1, RefreshAgrees DEF Local
  <2>7. Served(catalog') /\ Bodies'
    BY <1>1, <2>0, <2>6 DEF Undrifted, Bodies
  <2>8. ASSUME NEW j \in InPlay PROVE Good(j)'
    <3>1. CASE j = k
      BY <1>0, <1>1, <3>1, RefreshAgrees DEF Good
    <3>2. CASE j # k
      <4>1. state'[j] = state[j] /\ pc'[j] = pc[j] /\ Same(j)
        BY <1>0, <1>1, <2>8, <3>2 DEF Local, Same
      <4> QED  BY <1>1, <2>0, <4>1, SameGood DEF Undrifted
    <3> QED  BY <3>1, <3>2
  <2> QED  BY <1>2, <2>3, <2>5, <2>7, <2>8 DEF Undrifted
<1>6. drifts' = drifts
  BY <1>1 DEF inputs
<1> QED  BY <1>3, <1>4, <1>5, <1>6 DEF AppliedInv

\* What is read after an operation fits.
LEMMA ReadBackApplied ==
    ASSUME IInv, TypesInv, TrackInv, AppliedInv, NEW k \in InPlay, ReadBack(k)
    PROVE  AppliedInv'
<1> DEFINE c == Planned(k)
           row == catalog[k][config[k].name]
           inst == ReadInstance(k, c, row)
<1>0. /\ Shape /\ InPlay \subseteq Kinds /\ k \in Kinds /\ KindInv(k) /\ Typed(catalog)
      /\ {"schema", "extension", "server", "slot", "subscription", "function"} \subseteq Kinds
  BY TypedCatalog DEF IInv, TypesInv, InPlay, GivenKinds, Shape, Given, Kinds
<1>1. pc[k] = "readBack" /\ config[k] # Absent /\ k \notin {"slot", "function"}
  BY <1>0 DEF ReadBack, KindInv, At, AppliedInv, Phase
<1>2. CASE FailsOnly(k)
  BY <1>0, <1>1, <1>2, FailApplied
<1>3. CASE ~FailsOnly(k)
  <2>1. /\ row # Absent /\ Record(k, inst)
        /\ UNCHANGED <<catalog, missing, inputs, halfDone, failures>>
    BY <1>3 DEF ReadBack, FailsOnly
  <2>2. PlanTyped(k)
    BY <1>0, <1>1, PlannedTyped DEF KindInv
  <2>3. c \in Config[k] /\ c.name = config[k].name /\ c.name \in Names
    BY <1>0, <2>2, NameTyped DEF PlanTyped
  <2>4. row \in Row[k]
    BY <1>0, <2>1, <2>3 DEF Typed
  <2>5. k \in {"schema", "extension", "server"} => c.cascade = config[k].cascade
    BY <1>0, <1>1, PlannedCascade
  <2>6. k = "subscription" => c.createSlot = config[k].createSlot
    <3>1. SUFFICES ASSUME k = "subscription" PROVE c.createSlot = config[k].createSlot
      OBVIOUS
    <3>2. config[k] \in SubscriptionConfig
      BY <1>0, <1>1, <3>1, Configured
    <3>3. config[k].createSlot # Unset /\ "createSlot" \in DOMAIN config[k]
      BY <3>2, CatalogAssumption DEF SubscriptionConfig
    <3> QED  BY <3>3, PlannedAttributes
  <2>7. row = catalog'[k][c.name]
    BY <2>1, <2>3
  <2> HIDE DEF c, row
  <2>8. /\ inst \in Config[k] /\ inst.name = c.name /\ inst # Absent
        /\ k = "subscription" => inst.createSlot = c.createSlot
        /\ k \in {"schema", "extension", "server"} => inst.cascade = c.cascade
    BY <1>0, <2>3, <2>4, ReadTyped, ReadKeeps, NotAbsent DEF Complete
  <2>9. inst = ReadInstance(k, inst, row)
    BY <1>0, <2>3, <2>4, ReadAgain
  <2> HIDE DEF inst
  <2>10. pc'[k] = "over" => Fits(k)'
    BY <1>0, <1>1, <2>1, <2>3, <2>7, <2>8, <2>9, RecordFits
  <2>11. Local(k) /\ state'[k] = inst /\ pc'[k] \in {"over", "failed"}
    BY <1>0, <2>1, Results DEF Record, Shape
  <2>12. Phase'
    BY <1>0, <1>1, <2>1, <2>11, PhaseKept DEF AppliedInv
  <2>13. Stated'
    BY <1>0, <1>1, <2>1, <2>3, <2>5, <2>8, <2>11, StatedKept DEF AppliedInv, Local
  <2>14. ASSUME drifts = 0 PROVE Undrifted'
    <3>0. Undrifted
      BY <2>14 DEF AppliedInv
    <3>1. ASSUME NEW x PROVE /\ Knows("subscription", x)' <=> Knows("subscription", x)
                             /\ CreatesSlot' = CreatesSlot
      <4>1. CASE k = "subscription"
        BY <1>1, <2>3, <2>6, <2>8, <2>11, <4>1 DEF Knows, CreatesSlot
      <4>2. CASE k # "subscription"
        <5>1. /\ state'["subscription"] = state["subscription"]
              /\ pc'["subscription"] = pc["subscription"] /\ config' = config
          BY <1>0, <2>1, <2>11, <4>2 DEF Local, inputs
        <5> QED  BY <5>1, SameKnown
      <4> QED  BY <4>1, <4>2
    <3>2. \A j \in {"slot", "function"} : state'[j] = state[j]
      BY <1>0, <1>1, <2>11 DEF Local
    <3>3. SlotsApart'
      BY <2>1, <3>0, <3>1, <3>2 DEF Undrifted, SlotsApart
    <3>4. pc["subscription"] \in {"unset", "drop"} => pc'["subscription"] = pc["subscription"]
      BY <1>0, <1>1, <2>11 DEF Local
    <3>5. Enabled'
      BY <2>1, <3>0, <3>1, <3>4 DEF Undrifted, Enabled
    <3>6. Served(catalog') /\ Bodies'
      BY <2>1, <3>0, <3>2 DEF Undrifted, Bodies
    <3>7. ASSUME NEW j \in InPlay PROVE Good(j)'
      <4>1. CASE j = k
        BY <2>10, <2>11, <4>1 DEF Good
      <4>2. CASE j # k
        <5>1. state'[j] = state[j] /\ pc'[j] = pc[j] /\ Same(j)
          BY <1>0, <2>1, <2>11, <3>7, <4>2 DEF Local, Same
        <5> QED  BY <2>1, <3>0, <5>1, SameGood DEF Undrifted
      <4> QED  BY <4>1, <4>2
    <3>8. InPlay' = InPlay
      BY <2>1 DEF InPlay, GivenKinds, inputs
    <3> QED  BY <3>3, <3>5, <3>6, <3>7, <3>8 DEF Undrifted
  <2>15. drifts' = drifts
    BY <2>1 DEF inputs
  <2> QED  BY <2>12, <2>13, <2>14, <2>15 DEF AppliedInv
<1> QED  BY <1>2, <1>3

\* What is planned to stay is as it is configured.
LEMMA PlanApplied ==
    ASSUME IInv, TypesInv, AppliedInv, Plan
    PROVE  AppliedInv'
<1>0. Shape /\ InPlay \subseteq Kinds /\ {"slot", "subscription", "function"} \subseteq Kinds
  BY DEF IInv, InPlay, GivenKinds, Shape, Given, Kinds
<1>1. /\ \A k \in InPlay : pc[k] = "read" /\ pc'[k] = ToDo(k)
      /\ \A k \in Kinds \ InPlay : pc'[k] = "over"
      /\ UNCHANGED <<catalog, missing, inputs, state, tainted, halfDone, failures>>
  BY <1>0 DEF Plan
<1>2. InPlay' = InPlay
  BY <1>1 DEF InPlay, GivenKinds, inputs
<1>3. \A k \in Kinds : pc'[k] \in {"over", "create", "update", "delete"}
  BY <1>1, ToDoAt
<1>4. Phase'
  BY <1>0, <1>1, <1>2, <1>3 DEF Phase
<1>5. Stated'
  BY <1>1 DEF AppliedInv, Stated, inputs
<1>6. ASSUME drifts = 0 PROVE Undrifted'
  <2>0. Undrifted
    BY <1>6 DEF AppliedInv
  <2>1. pc["subscription"] \in {"read", "over"}
    BY <1>0, <1>1 DEF AppliedInv, Phase
  <2>2. pc'["subscription"] # "readBack"
    BY <1>0, <1>3
  <2>3. CreatesSlot' = CreatesSlot /\ \A x : Knows("subscription", x)' <=> Knows("subscription", x)
    BY <1>1, <2>1, <2>2 DEF CreatesSlot, Knows
  <2>4. SlotsApart'
    BY <1>1, <2>0, <2>3 DEF Undrifted, SlotsApart
  <2>5. Enabled'
    BY <1>1, <2>0, <2>1, <2>3 DEF Undrifted, Enabled
  <2>6. Served(catalog') /\ Bodies'
    BY <1>1, <2>0 DEF Undrifted, Bodies
  <2>7. ASSUME NEW k \in InPlay, Agrees(k) PROVE Agrees(k)'
    BY <1>1, <2>7 DEF Agrees
  <2>8. ASSUME NEW k \in InPlay, Fits(k) PROVE Fits(k)'
    BY <1>1, <2>8 DEF Fits, inputs
  <2>9. ASSUME NEW k \in InPlay PROVE Good(k)'
    <3>1. MayCascade(k)' <=> MayCascade(k)
      BY <1>1 DEF MayCascade, inputs
    <3>2. CASE MayCascade(k)
      BY <3>1, <3>2 DEF Good
    <3>3. CASE ~MayCascade(k)
      <4>1. state[k] # Absent => Agrees(k)
        BY <1>1, <2>0, <2>9, <3>3 DEF Undrifted, Good
      <4>2. ToDo(k) = "update" => Agrees(k)'
        BY <2>7, <4>1, ToDoAt
      <4>3. config[k] # Absent => PlanTyped(k)
        BY <1>0, StateNames, PlannedTyped DEF KindInv
      <4>4. ToDo(k) = "over" => Fits(k)'
        BY <1>0, <2>8, <4>1, <4>3, PlanFits
      <4> QED  BY <1>1, <1>3, <4>2, <4>4, ToDoAt DEF Good
    <3> QED  BY <3>2, <3>3
  <2> QED  BY <1>2, <2>4, <2>5, <2>6, <2>9 DEF Undrifted
<1>7. drifts' = drifts
  BY <1>1 DEF inputs
<1> QED  BY <1>4, <1>5, <1>6, <1>7 DEF AppliedInv

\* A run begins where the last one has ended.
LEMMA RunApplied ==
    ASSUME IInv, TypesInv, AppliedInv, NEW c, Run(c)
    PROVE  AppliedInv'
<1>0. Shape /\ InPlay \subseteq Kinds /\ {"slot", "subscription", "function"} \subseteq Kinds
  BY DEF IInv, InPlay, GivenKinds, Shape, Given, Kinds
<1>1. /\ \A k \in Kinds : pc[k] \in {"over", "failed"}
      /\ \A k \in InPlay : pc'[k] = "idle"
      /\ \A k \in Kinds \ InPlay : pc'[k] = "over"
      /\ UNCHANGED <<catalog, missing, scenario, state, tainted, halfDone, drifts, failures>>
  BY <1>0 DEF Run, Settled
<1>2. InPlay' = InPlay
  BY <1>1 DEF InPlay, GivenKinds
<1>3. Phase'
  BY <1>0, <1>1, <1>2 DEF Phase
<1>4. Stated'
  BY <1>1 DEF AppliedInv, Stated
<1>5. ASSUME drifts = 0 PROVE Undrifted'
  <2>0. Undrifted
    BY <1>5 DEF AppliedInv
  <2>1. pc["subscription"] \in {"over", "failed"} /\ pc'["subscription"] \in {"idle", "over"}
    BY <1>0, <1>1
  <2>2. CreatesSlot' = CreatesSlot /\ \A x : Knows("subscription", x)' <=> Knows("subscription", x)
    BY <1>1, <2>1 DEF CreatesSlot, Knows
  <2>3. SlotsApart'
    BY <1>1, <2>0, <2>2 DEF Undrifted, SlotsApart
  <2>4. Enabled'
    BY <1>1, <2>0, <2>1, <2>2 DEF Undrifted, Enabled
  <2>5. Served(catalog') /\ Bodies'
    BY <1>1, <2>0 DEF Undrifted, Bodies
  <2>6. \A k \in InPlay : Good(k)'
    BY <1>1 DEF Good
  <2> QED  BY <1>2, <2>3, <2>4, <2>5, <2>6 DEF Undrifted
<1> QED  BY <1>1, <1>3, <1>4, <1>5 DEF AppliedInv

\* What others have changed is not what is applied.
LEMMA DriftedApplied ==
    ASSUME TypesInv, AppliedInv, Drifted
    PROVE  AppliedInv'
<1>1. UNCHANGED <<scenario, config, state, pc>> /\ drifts' # 0
  BY DEF TypesInv, TypeOK, Drifted
<1>2. Phase' /\ Stated'
  BY <1>1 DEF AppliedInv, Phase, Stated, InPlay
<1> QED  BY <1>1, <1>2 DEF AppliedInv

\* The invariant is about nothing that a step out of the system changes.
LEMMA StutterApplied ==
    ASSUME AppliedInv, UNCHANGED vars
    PROVE  AppliedInv'
<1>1. /\ UNCHANGED inputs
      /\ UNCHANGED <<catalog, state, pc, halfDone, drifts, scenario, config>>
  BY DEF vars, inputs
<1>2. Phase' /\ Stated' /\ InPlay' = InPlay
  BY <1>1 DEF AppliedInv, Phase, Stated, InPlay
<1>3. ASSUME Undrifted PROVE Undrifted'
  <2>1. \A j \in InPlay : Good(j)'
    BY <1>1, <1>3, SameGood DEF Undrifted, Same
  <2>2. CreatesSlot' = CreatesSlot /\ \A x : Knows("subscription", x)' <=> Knows("subscription", x)
    BY <1>1, SameKnown
  <2>3. SlotsApart' /\ Enabled'
    BY <1>1, <1>3, <2>2 DEF Undrifted, SlotsApart, Enabled
  <2>4. Served(catalog') /\ Bodies'
    BY <1>1, <1>3 DEF Undrifted, Bodies
  <2> QED  BY <1>2, <2>1, <2>3, <2>4 DEF Undrifted
<1> QED  BY <1>1, <1>2, <1>3 DEF AppliedInv

\* Every step keeps the invariant: changes by others count as drifts, and after
\* them nothing more is said than the phase and what was configured.
LEMMA NextApplied ==
    ASSUME MappingsFollow, SchemasFollow, IInv, TypesInv, TrackInv, AppliedInv, [Next]_vars
    PROVE  AppliedInv'
<1>1. CASE UNCHANGED vars
  BY <1>1, StutterApplied
<1>2. CASE DropObject \/ AlterObject \/ DropRole
  BY <1>2, DropObjectDrifts, AlterObjectDrifts, DropRoleDrifts, DriftedApplied
<1>3. CASE TerraformStep \/ Edit
  <2>1. InPlay \subseteq Kinds
    BY DEF IInv, InPlay, GivenKinds, Shape, Given
  <2>2. ASSUME NEW k \in InPlay, Refresh(k) \/ ReadBack(k) PROVE AppliedInv'
    BY <2>2, RefreshApplied, ReadBackApplied
  <2>3. ASSUME NEW k \in InPlay, Skip(k) PROVE AppliedInv'
    <3>1. FailsOnly(k) /\ pc[k] \notin {"idle", "read", "over"}
      BY <2>3 DEF Skip, FailsOnly
    <3> QED  BY <2>1, <3>1, FailApplied
  <2>4. Plan => AppliedInv'
    BY PlanApplied
  <2>5. RunAgain \/ Edit => AppliedInv'
    BY RunApplied DEF RunAgain, Edit
  <2> QED  BY <1>3, <2>2, <2>3, <2>4, <2>5 DEF TerraformStep
<1> QED  BY <1>1, <1>2, <1>3, OperationApplied DEF Next, Step

\* What fits is in sync.
LEMMA AppliedThen ==
    ASSUME IInv, TypesInv, AppliedInv
    PROVE  Applied
<1>1. SUFFICES ASSUME drifts = 0, NEW k \in InPlay, pc[k] = "over", ~MayCascade(k), ~LeftDisabled(k)
               PROVE  InSync(k)
  BY DEF Applied
<1> DEFINE c == config[k]
           s == state[k]
           row == catalog[k][c.name]
<1>2. Undrifted /\ Fits(k)
  BY <1>1 DEF AppliedInv, Undrifted, Good
<1>3. CASE c = Absent
  BY <1>2, <1>3 DEF Fits, InSync
<1>4. CASE c # Absent
  <2>0. k \in Kinds
    BY DEF IInv, InPlay, GivenKinds, Shape, Given
  <2>1. /\ s # Absent /\ s.name = c.name /\ row # Absent
        /\ \A f \in DOMAIN c : c[f] # Unset => c[f] = ReadInstance(k, s, row)[f]
    BY <1>2, <1>4 DEF Fits
  <2>2. c \in Config[k] /\ c.name \in Names /\ s \in Config[k]
    BY <1>4, <2>0, <2>1, ConfigTyped, NameTyped, StateNames DEF IInv
  <2>3. k = "subscription" => row.enabled
    <3>1. k = "subscription" => Knows(k, c.name)
      BY <1>1, <2>1 DEF Knows
    <3> QED  BY <1>1, <1>2, <2>1, <2>2, <3>1 DEF Undrifted, Enabled, LeftDisabled
  <2>4. k = "function" => row.body = c.body
    <3>1. SUFFICES ASSUME k = "function" PROVE row.body = c.body
      OBVIOUS
    <3>2. row.body = s.body
      BY <1>2, <2>1, <3>1 DEF Undrifted, Bodies
    <3>3. ReadInstance(k, s, row).body = s.body
      BY <2>0, <2>2, <3>1, ReadKeeps
    <3>4. "body" \in DOMAIN c /\ c.body # Unset
      BY <2>2, <3>1, KindTypes, CatalogAssumption DEF FunctionConfig
    <3> QED  BY <2>1, <3>2, <3>3, <3>4
  <2> QED  BY <1>4, <2>1, <2>3, <2>4 DEF InSync
<1> QED  BY <1>3, <1>4

\* Before the first run nothing is in the state, and no resource has been applied.
LEMMA InitApplied ==
    ASSUME MappingsFollow, Init
    PROVE  AppliedInv
<1>1. /\ \A k \in Kinds : state[k] = Absent /\ pc[k] = IF k \in InPlay THEN "idle" ELSE "over"
      /\ {"schema", "extension", "server", "slot", "subscription", "function"} \subseteq Kinds
      /\ InPlay \subseteq Kinds
  BY DEF Init, Kinds, InPlay, GivenKinds, Given
<1>2. Phase /\ Stated
  BY <1>1 DEF Phase, Stated
<1>3. \A x : ~Knows("subscription", x)
  BY <1>1 DEF Knows
<1>4. Served(catalog)
  BY DEF Init, MappingsFollow, Served, Given
<1>5. SlotsApart /\ Enabled /\ Bodies
  BY <1>1, <1>3 DEF SlotsApart, Enabled, Bodies
<1>6. \A k \in InPlay : Good(k)
  BY <1>1 DEF Good
<1> QED  BY <1>2, <1>4, <1>5, <1>6 DEF AppliedInv, Undrifted

\* As long as no one else changes the server, what a run has applied without an
\* error is as it is configured, in the state and in the server, whatever failed in
\* this run or before: also what Update and Create record as it is planned and do
\* not read back, what they take over, what follows the renaming of a schema or a
\* server, and what is deleted and made again.  A mapping is to be configured with
\* its server, and an extension with the schema it is in, if that is configured.
THEOREM AppliedAlways == MappingsFollow /\ SchemasFollow => (Spec => []Applied)
<1>1. SUFFICES ASSUME MappingsFollow, SchemasFollow PROVE Spec => []Applied
  OBVIOUS
<1>2. Init => AppliedInv
  BY <1>1, InitApplied
<1>3. IInv /\ TypesInv /\ TrackInv /\ AppliedInv /\ [Next]_vars => TypesInv' /\ TrackInv' /\ AppliedInv'
  BY <1>1, NextTypes, NextTracks, NextApplied
<1>4. IInv /\ TypesInv /\ AppliedInv => Applied
  BY AppliedThen
<1> QED  BY <1>2, <1>3, <1>4, InitTypes, InitTracks, Invariance, PTL DEF Spec
=============================================================================
