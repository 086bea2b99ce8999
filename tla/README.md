# Verification of the PostgreSQL provider

TLA+ models of `terraform-provider-postgresql-anywhere`, checked with TLC, and
theorems about them, proved with TLAPS. Paths are relative to the repository;
line numbers are those of the commit the models were written from.

## The system

Terraform starts one provider process and calls the Create, Read, Update and
Delete of its resources from up to ten goroutines at once. All share one
`*Client`, the process-wide registry of connection pools, and, when one is
configured, one tunnel to the server. The server is shared with them, and its
catalogs are the state that operations of different resources meet in: nothing
in the process orders two operations on different resources; only the server's
row locks, its advisory locks (`pgLockRole`, `pgLockDatabase`) and Go's mutexes
do.

| Component | State | Operations | Meets the others through |
|---|---|---|---|
| provider configuration (`provider.go`, `fw_provider.go`, `fw_model.go`, `main.go`) | none after start | Configure | builds the `Client` and picks one tunnel |
| connection registry (`config.go`, `startTransaction` in `helpers.go`) | `dbRegistry`, `dbRegistryLock`, one `sql.DB` per connection string | Connect, fingerprint, Begin | called first by every operation; calls the tunnel under its lock |
| SSM tunnel (`ssm_tunnel.go`, `transport.go`) | tunnel registry, listener, one shared smux session | EnsureUp, acceptLoop, openStream, establish, teardown, Close | carries every connection; owns a data channel |
| SSM data channel (`ssm_tunnel.go`) | sequence numbers, handshake, pipe | start, readLoop, sendInput, close | agent on one side, smux on the other |
| SSH, Azure Bastion, GCP IAP tunnels, loopback listener, proxy driver | registries, listeners, relays | EnsureUp, handleConn, Close | as the SSM tunnel |
| temporary roles (`withRolesGranted` and below, `helpers.go`) | `pg_auth_members`, inside the caller's transaction | grant, callback, restore | grant, default privileges, schema, role Delete |
| advisory locks (`helpers.go`) | locks of one database | pgLockRole, pgLockDatabase | grant, default privileges, role Update, database |
| postgresql_database | `pg_database`, memberships lent to the user | Create, Read, Update (rename, reassign, owner, tablespace, limit, connections, template), Delete | memberships, advisory lock, pool |
| postgresql_grant_role | `pg_auth_members` | Create, Read, Delete | memberships |
| postgresql_role | `pg_authid`, memberships, settings | Create, Read, Update (about fifteen ordered steps), Delete | memberships, advisory lock |
| postgresql_grant, postgresql_default_privileges | ACLs | create-or-update (revoke, grant, read back), Read, Delete | temporary roles, both advisory locks |
| postgresql_schema | namespace, owner, policies as ACLs | Create, Read, Update, Delete | temporary roles |
| postgresql_publication, postgresql_subscription, replication slots | replication catalogs and slots | Create, Read, Update, Delete (a subscription's in three statements) | slots, pool |
| postgresql_extension, postgresql_server, postgresql_user_mapping | an extension, a server that uses it, a mapping to that | Create, Read, Update, Delete | what depends on what, pool |
| postgresql_function | one function, by its signature | Create, Read, Update, Delete | pool |
| postgresql_index, postgresql_security_label | one catalog row each | Create, Read, Update, Delete | pool |
| data sources | none | Read | pool |

What is hard here, and what would make each part correct:

* **Memberships.** A provider user who is not a superuser must be a member of a
  role to work on its objects, so operations give it roles for a moment, in
  three ways that share no lock. Correct means: the callback has the roles it
  needs; afterwards every membership is what it was; what
  `postgresql_grant_role` manages is nobody else's to change; deadlocks over
  the rows resolve.
* **Statements that commit one by one.** `CREATE/ALTER/DROP DATABASE` run
  outside transactions, with a deferred revoke after them. Correct means: the
  role is held while needed and given back on every path, errors reach
  Terraform, Terraform's state and the server agree.
* **Pools.** Operations hold one connection and ask for another. Correct means:
  every operation returns, every connection goes back, the documented maximum
  is one.
* **The data channel.** The agent repeats, the network loses, a timeout races
  the handshake. Correct means: smux reads each frame once and in order, the
  agent gets a gapless sequence, nothing is left behind by a failed start.
* **Tunnels.** Many connections share a registry, a listener and, with SSM, one
  session that may die at any time. Correct means: one session at AWS, nobody
  tears down what others use, what is open has an owner, a broken upstream
  reaches the client, nobody waits for ever, no goroutine is left.
* **Multi-step resource operations** (role Update, subscription Delete,
  publication Update, grant's revoke-then-grant, the read-back after a commit):
  one step fails, or another resource's operation comes between two steps.
* **Objects that others depend on, and what is never read.** An extension, its
  schema and its server are renamed, replaced and dropped in some order;
  policies, function bodies and whether a subscription is enabled are written and
  never read. Correct means: what was applied is so in the server, nothing that
  is managed gets lost, and the next runs converge from whatever failures left.

## The modules

```
PgMembership <- RolesGranted <- MembershipOps <- RolesGrantedProofs

FrameStream <= SSMDataChannel <- SSMProofs -> SSMTunnel

DatabaseResource <- DatabaseProofs                 ConnRegistry <- ConnRegistryProofs

GrantResource <- GrantProofs                       RoleResource <- RoleProofs

LoopbackTunnel <- LoopbackTunnelProofs

            SchemaResource, ForeignData,
CatalogRun <- Replication, FunctionResource <- CatalogResources <- CatalogProofs
```
`<-` is EXTENDS, `<=` is "is implemented by". Each specification has an `MC...`
module with its small instances. A definition that ends in a bug's name under
a comment "Faulty form" is never part of a specification: it is what a
plausible mistake in the code would be, kept beside the action it replaces so
that each property can be shown to notice it.

**`PgMembership`** is the server as `helpers.go` uses it, external to the
repository: the rows of `pg_auth_members`, READ COMMITTED transactions with
private writes, row locks, `GRANT` with its circularity test, `REVOKE`, `DROP
ROLE`, `COMMIT`, `ROLLBACK`. One row per pair of roles, as PostgreSQL keeps
them up to 15, and later ones when the provider's user is the only grantor.

**`RolesGranted`** is `withRolesGranted` (helpers.go:113-213), one action per
statement it sends: `pc` is the next statement, `todo` what is left of the
first loop, `granted` and `revoked` the two Go slices. The test for membership
and the `GRANT` or `REVOKE` that follows are two actions (`CheckGrant`,
`GrantRole`), as they are two statements. `fn` is a window in which the
callback runs and any other session takes steps; the Delete of a role drops the
role there. Any statement may fail, which takes the operation to its deferred
rollback.

**`MembershipOps`** puts beside it the other two writers of the same rows:
`postgresql_grant_role` (resource_grant_role_fw.go:126-251, `Gr...` actions)
and the loan of a database's owner (`Loan...` actions, autocommitted).

**`DatabaseResource`** is `resource_database_fw.go`: `pc` the statement, `fn`
the Go function it belongs to, `target`, `granted` and `err` that function's
`owner`, `ownerGranted` and named result. `Return` is the function's return
with its deferred revoke and rollback done; the order of the setters in Update
is `Following`. `lock` is the advisory lock of `pgLockRole`, `held` the
connections of lock transactions, `tracked` Terraform's state. `scenario` is what
stays the same in a behaviour: the plans, the databases of others, the statements
that may fail and `max_connections`.

**`GrantResource`** is `resource_grant_fw.go` and what
`resource_default_privileges_fw.go` shares with it. `acl` is the committed
privileges, `dirty` and `mine` the rows an open transaction has written and
their new content, `holder` the advisory locks; `op` is what Terraform asks for,
`fn` whether the statements are the operation's own or the read-back's, `pc` the
next one. `target` is what a change of replaces the resource (its type, grantee,
objects), `config` the privileges configured, `state` Terraform's. A Terraform
run is in the model, because a Read is only worth what the next plan makes of
it: every resource is refreshed, then what is planned is applied in parallel,
and the next run begins. What withRolesGranted does around the two statements
is `RolesGranted`'s matter.

**`RoleResource`** is `resource_role_fw.go` for several roles at a time, in the
same runs of Terraform, with `postgresql_grant_role` beside it. `roles` and
`members` are the committed `pg_authid` and `pg_auth_members`, `mine` and `own`
what each open transaction has written to them, `holder` the advisory locks of
`pgLockRole`, `todo` the names an operation has read and not yet locked, revoked
or granted. A role is known by the resource that created it, as the server knows
it by its oid, while `Found` finds it by name, as every statement of the
provider does. The statements of Update keep their order; those between the
password and `valid_until`, which touch one row that is then locked, are one
action (`Alter`), and so are the settings (`Settings`). The roles of a
grant_role keep their names.

**`ConnRegistry`** is `Client.Connect` (config.go:303-369) step by step under
`dbRegistryLock`, and the pool's lending. `Orders` stands for what iterating a
Go map does to the parameters in `connParams`: the registry's key is one of
several strings for the same database. Two parameters make two orders, and the
default scheme always has two or more (`sslmode` and `connect_timeout`).

**`SSMDataChannel`** is the data channel (ssm_tunnel.go:543-818): `loop` is the
point `readLoop` is at, `wire` and `unacked` the messages under way and the
agent's unacknowledged ones, `inbox` what the agent has received, `read` what
smux has read from the pipe, `starter` what `start` is doing. **`FrameStream`**
is what smux relies on: the frames sent arrive once each, in order. The
refinement is `ExactlyOnceInOrder`, with the agent's frames as `sent` and `read`
as `received`.

**`SSMTunnel`** is what shares that data channel (ssm_tunnel.go:30-415,
transport.go): `client` is the provider's end of a connection, from EnsureUp
under `registryLock` to the dial, and `pc` the handler at the other end
(`acceptLoop`, `handleConn`, `openStream`), with `sessMu` the tunnel's mutex that
is held over every call to AWS. `session` is the session, the data channel and
its identifier, `alive` the sessions that still carry streams, `started` and
`ended` what AWS has been asked for. A session may die between the look at it and
the opening of a stream: then it is established once more (`retried`). `closing`
is the next step of Close.

**`LoopbackTunnel`** is the other three: `kind` is which. `bastion` and `lost` are
an SSH tunnel's client, `up` the channel or websocket of one connection. The
handler (`pc`) and the goroutine that reads the websocket (`reader`) share
`writeMu`; of IAP's protocol the frames are data, others and ones that are cut off
or unknown, and `sent`, `delivered` and `acked` count data, which the relay sends
`Window` ahead of the acknowledgement.

**`CatalogRun`** is what the resources of catalog objects share: `catalog`, the
objects by kind and name with what depends on what (`DependsOn`, `Doomed`), what
the server does with a DROP and a RENAME, and the runs of Terraform around the
operations: `config` and `state` by kind, `pc` where each resource is, `tainted`
what Terraform is to replace, `Turn` who waits for whom. There is one resource of
each kind. A transaction is one action (`Try`), which the server accepts or
refuses or which fails for other reasons, and a read-back in a second one is
another. **`SchemaResource`** (with the policies, whose difference is
`PolicyChanges`, and what a change of owner makes of the privileges, `OwnedBy`),
**`ForeignData`** (extension, server, user mapping),
**`Replication`** (publication, subscription with the three statements of its
Delete, slot) and **`FunctionResource`** have the operations of the kinds, one
action each, or one per statement that commits. **`CatalogResources`** composes
them, adds Terraform's refresh, plan and repetition, users who edit the
configuration, and others who drop and alter objects and drop roles.

## The runs

Passing runs:

| Run | Instance | Shows |
|---|---|---|
| roles_granted | two operations, the user and two roles, every acyclic graph of memberships, lists with repetitions, both orders and the user itself; none, one other or the user superuser | the inductive invariant, the callback's roles, the restore, what commits leave, and that both operations return, deadlocks over rows included |
| membership_ops | one operation of each of the three kinds | the user is left no membership that is not old, managed or on loan |
| database | two resources, two names, two roles, one held for good, two operations each, in two scenarios: every statement but the revoke may fail; three connections, `alter_object_ownership`, a database of others, and every failure but the one that leaks a connection | loans always go back, the owner's role is held when needed, every operation returns |
| grant | two grants at a time: a table and a column of it; the database for a role and for public; all tables and default privileges, over two common members. One edit, one privilege or table that comes or goes behind Terraform's back, one failed statement | no privilege is gone for a moment, the advisory locks exclude, the deadlocks they allow resolve, and Terraform converges |
| role | two roles at a time, in four scenarios: one takes the other's name; one is a member of the other, which is renamed; passwords change, in both kinds and under two names; options change beside a grant_role. One edit, one drift, one failed statement | a resource finds its own role, the names to revoke are still there, passwords are in force, and Terraform converges |
| conn_registry | three goroutines, one database, its parameters in two orders, two connections at most, every step may fail | one maximum under one connection string, Connect returns and its caller is served |
| ssm_tunnel | two connections, two tunnels one after the other, three sessions, all of which may die or fail, Close at any time | one session at AWS, nobody but Close gives up a live one, the registry names tunnels that listen, every connection is answered, Close returns |
| loopback_tunnel | two connections over each transport, starts that fail, an upstream that breaks, Close at any time; three data frames, alone and packed | one writer at a time, listeners and clients have an owner, a closed tunnel relays one message at most, a broken upstream reaches the client, goroutines end, the window opens again |
| catalog | twelve scenarios of one to three kinds (below), one edit or two, one failure, one change by others | what was applied is so, policies are in force, no object and no slot is lost, everything converges |
| data_channel | handshake and two frames, two outbound frames, three messages under way, one lost | refinement of `FrameStream`, gapless input, a failed start cleans up, every frame is read unless one was lost |

The scenarios of `catalog`: a schema with policies, of PUBLIC too, that is renamed
and changes hands; a schema of a role with a policy that is handed to another; a
schema that was there before; an extension in a schema that is
renamed, with and without cascade, or that was there in another version; an
extension, a server and a mapping, with and without cascade; a server that is
renamed; a publication of tables, of all tables, renamed; a slot and the
subscription that uses it; a subscription with its own slot; a function.

Two runs show a disagreement between the code and its documentation, and are the
findings in `PROJECT.json`:

| Run | What happens |
|---|---|
| conn_registry_orders | a database has more connections than `max_connections` (index.html.markdown:202): connParams ranges over a Go map (config.go:267), and each order of its parameters makes a connection string, hence a pool, with the whole maximum |
| catalog_owner | a role that has a policy and owned the schema is left with nothing when another role gets it: `ALTER SCHEMA ... OWNER TO` (resource_schema_fw.go:357, :460) makes what the old owner has the new one's, and policies that are the same in state and plan are not granted again. The same happens when others have made the role the owner and the next run sets the owner back |

Other disagreements are in the models but have no run of their own:

* `PolicyChanges`: a policy of PUBLIC that is removed from a schema stays in the
  server, since the revoke is inside the test for a role that was dropped
  (resource_schema_fw.go:523), which PUBLIC never passes; the comment at :521-522
  says that the test is not needed for it. So `PoliciesInForce` is about roles.
* `Return` of a Create: the error of CREATE DATABASE ("already exists") is
  overwritten by the nil of the deferred revoke (resource_database_fw.go:247), and
  the read that follows adopts somebody else's database, although :333-334 says
  the revoke overrides err "if necessary". The Delete turns a refused DROP DATABASE
  into a success in the same way (:752): the database stays while the resource goes.
* `ReadPrivileges` and what it compares: a grant on several named tables never gets
  rid of a privilege that one of them had before, and is replaced in every run:
  Read compares each object with what the last Read found on one of them
  (resource_grant_fw.go:599), not with what is configured (:476-478).
* `RevokeRole` in `RoleResource`: with `ignore_changes = [roles]` an Update for another
  attribute revokes the memberships and grants them without the admin option a
  postgresql_grant_role gave (resource_role_fw.go:746, :976), although
  postgresql_grant_role.html.markdown:27 recommends the setting.
* The data channel acknowledges a message ahead of the expected one and then drops
  it for good (ssm_tunnel.go:664), although it is to "process each sequence exactly
  once, in order" (:662). So frames arrive unless one is lost
  (`EveryFrameReadUnlessLost`).
* `CloseSession`: a handler that waits for the mutex while Close holds it finds no
  session and establishes one (:103, :233), which is left open. The provider never
  calls Close itself.
* The registry's key of an SSM tunnel leaves out the instance's tags, the role and
  the profile; that of the others the credentials. Two configurations that differ
  there share a tunnel.
* `FindTunnel`: the registries of the other tunnels return one whose bastion is
  gone, for good.
* `NextFrame`: IAP's reader ends on a frame that is cut off or unknown without
  closing the local connection (gcp_iap_tunnel.go:181-213): the client waits.
  `LossReachesClient` is checked with frames it knows.
* `CheckGrant` and `GrantRole`, `CheckGranted` and `RevokeGranted` of
  `RolesGranted`: the test for a membership and the statement that follows are
  two steps (helpers.go:82, 106). When a grant_role commits between them,
  withRolesGranted's restore revokes a membership that is in Terraform's state, or
  grants back for good one that was destroyed. So `NoStrayMembership` leaves out
  the pairs of grant_role.
* `Renamed` in `RoleResource`: a rename makes the server forget an md5 password;
  `password` is set again, `password_wo` is not, unless its version changes too.
  `PasswordInForce` leaves that out. Removing `password` leaves the server's as it
  is (:913).
* `AllRevoked`: with `ignore_changes = [roles]` an Update grants what the state
  has, also what a grant_role's Delete has just revoked in the same run.
* `ReadInstance` in `RoleResource`: a Create whose role a grant_role gives a
  membership before the read-back is "not what was planned", and the new role is
  replaced.
* `CreateRole` and `Altered` in `RoleResource` abstract from two texts: a password
  "NULL" is `PASSWORD NULL` in Create (:343) and the word itself in Update (:917);
  `valid_until = "NULL"` is documented as infinity
  (postgresql_role.html.markdown:149) and sent as it is (:359).
* `LoanRevoke`: withRolesGranted finds the user a member through a
  database operation's loan, grants nothing, and the loan ends while the callback
  runs. So `NeededRolesHeld` is stated of `RolesGranted`, without loans.
* `Connection`: with as many database operations as `max_connections`, each
  holds a connection with its lock transaction and waits for another for its
  statements, for ever. `OperationsReturn` is checked with one connection more.
  The read of a security label asks for a second connection too
  (resource_security_label_fw.go:129).
* `ReadColumns`: a column grant of ALL, or to public, never finds itself and is
  replaced in every run; `ReadsTypes` and `Reaches`: functions are read back with
  the procedures, tables without the views. `Converges` is stated without them.
* `RevokedPrivileges`: a grant on named tables that have lost all privileges is
  updated with REVOKE ALL, which takes the column grants too, although
  resource_grant_fw.go:840 says they are not to be messed with.
* `CommitReassign` and `Connection`: with `alter_object_ownership` the lock
  transaction is in the altered database (resource_database_fw.go:603), where an
  advisory lock excludes nobody, and its revoke may take the role from under a
  CREATE or ALTER DATABASE. This is why `OwnerHeld` is stated without the option.
  REASSIGN OWNED (:632) moves the role's other databases too.
* `PgLockRoleFails`: the error returns before the rollback is deferred (:234), and
  the transaction keeps its connection.
* `GrantBack`: a reverse membership WITH ADMIN OPTION comes back without it
  (helpers.go:82 and 207).
* `CreateSchema`: a schema that is there is adopted also without `if_not_exists`.
  Policies of one role are documented as cumulative
  (postgresql_schema.html.markdown:75), but Update keeps the last one (:571) and
  compares lower-cased names. The owner changes without the role's lock (:460).
* `CreateExtension`: one that is there in another version contradicts the plan and
  is dropped and created.
* `UpdateServer`: what follows an equals sign in an option's value is lost when it
  is read (resource_server_fw.go:480-483). A server cannot be replaced while a
  mapping that is not replaced depends on it.
* `UpdatePublication`: the statements name the publication by its new name before
  the last one gives it that name (resource_publication_fw.go:587-616), so a
  renaming with another change is refused in every run (`Refused`). A publication
  of all tables cannot be given a list. The order of `publish_param` and tables
  without their schema contradict what is read.
* `ReadSubscription`: whether it is enabled is never read, so one whose deletion
  failed half-way and that is configured again stays disabled (`LeftDisabled`).
  A slot cannot be replaced under an enabled subscription.
* `ReadBack`: when it fails after the commit, the object is lost to Terraform, or
  after a renaming known by the old name and lost at the next refresh (`Lost`).
* `ReadFunction`: the body is not read, so that another's change of it is never
  noticed; a type must be spelled as the server spells it, or it contradicts the
  plan.

### Bounds, and why they are enough

The interactions are between pairs of operations over one or two rows, so two
sessions and three roles (the user and two others) reach every order in which
two operations test, write and restore; a third role adds no new row conflict,
and a third session only chains the pairwise ones. Longer role lists repeat the
loop. `MaxRuns` = 2 lets a database be created and then updated or deleted. Two
frames after the handshake are the first that can be swapped or repeated;
`MaxWire` = 3 lets a repetition overtake nothing but stand behind both. What
does not depend on the bounds is proved. In `RoleResource` two roles are what a
name needs to be handed over and a membership to be revoked under; three names
let one of them go elsewhere. One edit makes one plan, one drift another, and one
failure leaves each operation undone once.

In `SSMTunnel` the second connection is the one that meets a session another has
established or lost; three sessions let it die before and after a stream is
opened, and two tunnels let one be opened after the other is closed. In
`LoopbackTunnel` nothing is shared by connections but the registry and an SSH
client; three data frames shut a window of one twice. In `CatalogResources` an
operation meets at most the chain schema, extension, server, mapping: the
scenarios take those that touch. Two names are what a renaming and a replacement
need. Runs are repeated without a bound.

### Fairness

* Operations run when they can (weak fairness): goroutines are scheduled, and
  each statement gets an answer or an error. That is enough for row locks and
  advisory locks, whose holders always move on and which no later operation can
  take again and again in the instances (`MaxRuns`). In `GrantResource` and
  `RoleResource` it is Terraform that is run again and again, while edits, drifts
  and failures end: nothing else ever converges.
* In `ConnRegistry`, callers come again, so `LockRegistry` and `Take` get strong
  fairness: Go's mutex hands over to starved waiters and `database/sql` serves
  its requests in order.
* The agent's repetitions get strong fairness per message: it repeats until it
  is acknowledged. Nothing is assumed of its first sending, of losses or of the
  network, and smux is assumed to keep reading (its receive loop).
* In `SSMTunnel`, AWS answers StartSession (there is no deadline, ssm_tunnel.go:273)
  and what waits for a mutex gets it in the end (strong fairness): Go hands a mutex
  over to waiters that starve. Sessions need not live, nor be established.
* In `LoopbackTunnel`, the relay goes on sending while its window is open; clients
  need not send, read or close. The acknowledging goroutine gets the mutex.
* In `CatalogResources`, Terraform is run again and again and a run ends, whatever
  the order in which resources take their turns (weak fairness of `Step`).
* `start` has its 30 s timer, its caller closes what failed: weak fairness.

CHECK_DEADLOCK is off where the system may stop: the data channel closes, and
the operations of database are over when each resource has run `MaxRuns`
of them, and tunnels and connections are not used again once they are closed.

## What is proved

All for every value of the constants; the only assumptions are the modules' own
`ASSUME`s (types, finiteness of the callers, acyclic initial memberships) and the
hypotheses named below.

* **`GrantProofs`.** `Inv`: what each point of an operation knows (there is a
  configuration to grant, a state to revoke from), and that a transaction that
  writes holds every lock it is to take. From it `TypeOK` and
  `NoConcurrentUpdates`, for any number of resources, roles and objects.
  `NoPrivilegeGap` takes more (`RowsInv`): what a transaction has written is rows of
  its own objects, which no other has and whose privileges of other grantees are
  still the committed ones, and after its GRANT what is configured is among them.
  It is proved where `Governed` holds: resources of one grantee that may be about
  the same object share a lock. PUBLIC has no lock, so of two resources of PUBLIC on
  one object each takes the other's privileges away; the scenarios of `grant` all
  satisfy it.
* **`RoleProofs`.** `BaseInv` is what the rest stands on: where each operation is
  (`Flow`), that everything is refreshed before anything is applied (`Phase`), what a
  transaction has written (`Written`), that the state tells which role is the
  resource's and by which name (`Known`), that names are unique, committed or about
  to be (`Unique`), and that memberships are of roles that exist
  (`MembersExist`, `GrantsExist`, `DropsAlone`). From it `TypeOK` and
  `StatesNameOwnRoles`: a resource that takes the name another has given up does so
  after the commit, since names collide in the server. `LockInv` adds that the
  members of a role that is renamed or dropped are locked by it, or can no longer
  revoke in this run, whence `RevokeFindsRoles`, for grant_roles that refer to the
  roles (`scenario.ordered`). Without that it does not hold in general: a group that
  no reference orders is given to a role, whose Update reads the group's name and
  revokes it after the group was renamed. That was found by a counterexample on the
  way; the unordered scenario of `role`, where names do not change, stays with TLC.
  `PasswordInv` follows a password from the plan to the statements, the commit and
  the state, through renames that make the server forget it, whence
  `PasswordInForce`.

* **`RolesGrantedProofs`.** The invariant `IInv` says what each label knows of
  the local slices, that `granted` and `revoked` are exactly the rows the
  transaction has changed (its books), that row locks are exclusive and that
  what a test has found stays true because the row is locked or the committed
  rows change only back to what they were. From it: `TypeOK`;
  `NeededRolesHeld`, which says nothing of autocommitted loans; `MembershipsKept`, an action property: at commit the books
  are empty, so no row differs; `RestoreNeverRefused`: everything granted is
  taken back first, and a subset of an acyclic graph is acyclic. The invariant
  is needed because each property is about the end of an operation and is only
  true thanks to what every earlier statement recorded. Beside the other two writers
  (`MembershipOps`) `IInv` does not hold, for a row may change between test and
  statement; `OpsInv` says less: a membership of the user that a transaction has
  written is managed or in `granted`, and nobody commits with anything in
  `granted` (`Accounted`). From it `NoStrayMembership`, by what each of the three
  kinds of operation commits.
* **`DatabaseProofs`.** `TypeOK` together with `Flow` (what each label says of
  the arguments). `OnlyBorrowed` from `BorrowInv`, in scenarios where revokes do
  not fail: each membership beyond the user's own has an operation with its revoke
  still to come. `OwnerHeld` from the mutual exclusion of the advisory lock, in
  scenarios where revokes do not fail and no plan has `alter_object_ownership`,
  with which it is false. Both premises are part of the properties; a scenario
  stays (`ScenarioStays`).
* **`SSMProofs`, the data channel.** `ChannelInv` relates the expected number, the
  frames read and the point readLoop is at (`Reading`), and the outbound number, the
  handshake and the agent's inbox (`Writing`). From it `InputContiguous` and
  the refinement of `FrameStream`: each step appends the next frame, sends one,
  or stutters. It holds under loss: what loss breaks is liveness.
* **`SSMProofs`, the tunnel.** `IInv`: who establishes a session or opens a stream
  holds the tunnel's mutex, tears down only a dead session, and every session AWS was
  asked for and not asked to end is the tunnel's or the one being established
  (`SessionsKnown`). From it `SingleSession` and `ReconnectsOnlyWhenBroken`.
  `RegistryInv` is about the other mutex: a listener that is not in the registry, or
  an entry that is about to go, has its EnsureUp or Close under `registryLock`.
  From it `RegistryListens`.
* **`ConnRegistryProofs`.** `IInv`: the lock is held inside Connect, a
  connection string keeps its pool, a pool lends at most its maximum. From it
  `ConnectionsPerString` (`StringBounded`), for any number of orders, and what
  that leaves of the documented maximum: a database has at most `MaxConns`
  connections for each order of its parameters (`OrdersBound`).
* **`LoopbackTunnelProofs`.** `IInv`: who writes to a websocket holds its mutex
  (`WriterHolds`), who starts a tunnel has the registry's lock and a tunnel that is
  nobody else's (`StarterHolds`, `RegistryOwns`). From it `OneWriter` and
  `NothingLeftOpen`. `LateInv`: a handler that has relayed a message of a closed
  tunnel is on its way to the next look at `closed`, which no tunnel leaves again.
  From it `AtMostOneLate`.
* **`CatalogProofs`.** `SlotKept` of every composition of scenarios, names, failures
  and changes by others. That a subscription which did not create its slot has
  unset it when it is dropped takes that Terraform knows the slot: `SlotsKnown`
  relates each point of a deletion to the state, and the state to the slot the
  server has, through refreshes, read-backs and failures. `IInv` is that with the
  types of subscriptions and the shapes of the functions. The proof shows first
  what no other kind's operation touches (`Elsewhere`), then takes the operations
  of subscriptions and slots one by one.
* **`CatalogProofs`, all kinds.** For each kind a lemma (`SchemaDone`,
  `ExtensionDone`, ...) says that an operation fails without an effect, or leaves a
  typed catalog and an instance of its kind (`Leaves`), and that every object that is
  there afterwards was there and not the resource's, or is known to it now
  (`Tracks`). `TypesInv` adds to `TypeOK` what each point of a run knows (`At`): what
  is deleted is in the state, what is updated is configured under attributes that
  need no replacement. From it `TypeOK`. `TrackInv` counts as known what an operation
  is about to read back, and a slot whose subscription made it; from it `Tracked`.
  The kinds meet in one place: a mapping follows its server to a new name, so the
  server's Update must come after the mapping's Delete. That is the order of the
  references, and holds where `MappingsFollow`: a mapping is configured with
  the server it refers to, and none is there before. `PolicyInv` says of every
  schema that its privileges are right (`Right`): roles that are there and have never
  owned it have what the policies of the resource that knows it give them, and
  nobody but its owner has more. `owners` is a history variable for that: what
  becomes of an owner's policy is the finding above. A change of owner, whoever makes
  it, carries the old owner's privileges to the new one and keeps that
  (`OwnerRight`); so does an update (`ChangesRight`): what is revoked and granted is
  the difference, since each configuration has one policy for a role. From it
  `PoliciesInForce`, where `NothingGranted`: a schema that is taken over keeps the
  privileges it gave before to others than its owner, and no policy says so.
* **`CatalogProofs`, what is applied.** `Applied` is about the end of a run and the
  server is not read again there, so `AppliedInv` follows each object through the run.
  `Phase`: nothing is applied before everything is read. `Stated`: the names in the
  state are configured ones, under which a deletion may cascade. As long as nobody
  else changes the server (`drifts = 0`), `Good` says of each kind that what was read
  is still so when it is planned (`Agrees`), and, of a server and a mapping, which are
  altered without reading them again, until that; and that what is done is as
  configured (`Fits`), but for what a CASCADE may have taken (`MayCascade`).
  `Served`, `SlotsApart`, `Enabled` and `Bodies` are about what no reading
  tells: that a mapping's server is there, that the slot of a resource is not the one
  a subscription takes with it, that a subscription is enabled until its deletion
  begins (after a half-done one it stays disabled: `LeftDisabled`), and that the body
  of the function is the recorded one. For each kind a lemma says that its operation
  fails or `Applies`: it spares the other kinds, and is good itself. The kinds meet
  where an extension follows its schema to another name (`Moved`): an extension that
  is already applied must not be in a schema that is still to be renamed. It is not,
  where `SchemasFollow`: an extension that is configured in a schema of Terraform's
  is configured along with that schema, under the schema's new name. From it
  `Applied`, where `MappingsFollow` and `SchemasFollow`.

  TLC evaluates the three hypotheses of the scenarios of `catalog`.

Type correctness is a conjunct of the inductive invariants, which hold for every
instance.

Only model-checked:

* liveness (`OperationsReturn`, `Converges`, `ConnectReturns`, `ConnectionsAnswered`
  and the others): fairness and ENABLED are out of the prover's reach;
* `RevokeFindsRoles` with grant_roles that no reference orders;
* the runs that are violations.

## What is not modelled

The text of SQL statements, quoting, version tests of single clauses, logging,
the terraform-plugin-framework, and what AWS, SSH, Azure and GCP do behind a
call: each has one outcome or an error. The imports. The connection limit and the
tablespace of a database. Smux itself: it is a reader and a writer, and opening a
stream is assumed to fail on a dead session only. Functions' definitions
(`model_pg_function.go`) are parsed with regular expressions and stay a matter for
unit tests; indexes and security labels are one statement each; data sources only
read; the provider's configuration is a pure mapping. In `RoleResource`,
`skip_drop_role` and a reading that fails after the commit, both of which leave a
role that no resource knows. A killed provider is not an action: nothing recovers
from it, so every loan would trivially stay.

Abstractions of `CatalogResources`: one resource of each kind; a transaction is
atomic, also the look for a schema before CREATE SCHEMA; a refresh does not fail;
one policy for a role and no grant options; the name of a function is its
signature; physical slots are as logical ones; the roles the user needs are
`RolesGranted`'s matter.

## Plan

1. `CatalogResources`: a second schema, so that an extension may move between two
   that are managed.
2. `DatabaseResource` in the runs of Terraform of `CatalogRun`: what its history of
   partial failures leaves, as for the other objects.
3. `GrantResource`: roles and schemas that go away.
4. `RoleResource`: skip_drop_role and a read-back that fails after the commit.
