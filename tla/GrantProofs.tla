----------------------------- MODULE GrantProofs -----------------------------
(***************************************************************************)
(* Theorems about GrantResource: its types, that the advisory locks keep   *)
(* the resources of one role, and those of the database, out of each       *)
(* other's rows, and that no update takes a configured privilege away.     *)
(***************************************************************************)
EXTENDS GrantResource, TLAPS

InTransaction == {"revoke", "grant", "commit"}

\* What each point of an operation knows of its arguments.
Flow(r) ==
    /\ pc[r] \in {"idle", "over"} => op[r] = "refresh" /\ fn[r] = "read"
    /\ pc[r] = "plan" => op[r] \in {"refresh", "delete"}
    /\ pc[r] \in InTransaction => fn[r] = "apply"
    /\ pc[r] = "grant" => op[r] # "delete"
    /\ pc[r] = "read" => fn[r] = "read"
    /\ fn[r] = "apply" => op[r] # "refresh"
    /\ fn[r] = "read" => op[r] # "delete"
    /\ pc[r] \in {"lock", "read"} \cup InTransaction =>
         /\ op[r] \in {"create", "update"} => config[r] # Absent
         /\ op[r] # "create" => state[r] # Absent

\* A transaction that writes has all its locks, and one that has written is
\* still under way.
Locked(r) ==
    /\ pc[r] \in InTransaction => \A k \in LockKeys(r) : holder[k] = r
    /\ dirty[r] # {} => pc[r] \in {"grant", "commit"}

Inv == TypeOK /\ \A r \in Resources : Flow(r) /\ Locked(r)

-----------------------------------------------------------------------------
(* The operators. *)

\* ALL is expanded: what a statement names is privileges of the type.
LEMMA ExpandType ==
    ASSUME NEW privs, privs \subseteq Privileges \cup {All}
    PROVE  Expand(privs) \subseteq Privileges
BY DEF Expand

\* A statement is about objects of the configuration.
LEMMA GrantedType ==
    ASSUME TypeOK, NEW r \in Resources
    PROVE  Granted(r) \subseteq Objects /\ target[r].role \in Grantees
BY DEF TypeOK, Granted, Target

\* The advisory locks of a resource are keys.
LEMMA KeysType ==
    ASSUME TypeOK, NEW r \in Resources
    PROVE  LockKeys(r) \subseteq Keys /\ Locking(r) \subseteq Keys
<1>1. RoleKeys(r) \subseteq Roles
  BY DEF TypeOK, RoleKeys, Target, Grantees
<1>2. MemberKeys(r) \subseteq Roles
  BY <1>1, GrantAssumption DEF MemberKeys
<1> QED
  BY <1>1, <1>2 DEF LockKeys, Locking, DatabaseKeys, Keys

\* What a transaction sees is rows.
LEMMA ViewType ==
    ASSUME TypeOK, NEW r \in Resources
    PROVE  View(r) \subseteq Objects \X Grantees \X Privileges
BY DEF TypeOK, View

\* A resource waits for another's rows only if they hold a lock in common: so
\* the types and the locks give what the locks are for.
LEMMA LocksExclude == Inv => NoConcurrentUpdates
<1> SUFFICES ASSUME Inv, NEW r \in Resources, NEW q \in Resources, r # q,
                    \/ RoleKeys(r) \cap RoleKeys(q) # {}
                    \/ target[r].type = "database" /\ target[q].type = "database",
                    q \in RowHolders(r)
             PROVE  FALSE
  BY DEF NoConcurrentUpdates
<1>1. pc[r] \in InTransaction /\ pc[q] \in InTransaction
  BY DEF RowHolders, Touches, Inv, Locked, InTransaction
<1>2. fn[r] = "apply" /\ fn[q] = "apply"
  BY <1>1 DEF Inv, Flow
<1>3. PICK k : k \in LockKeys(r) /\ k \in LockKeys(q)
  BY <1>2 DEF LockKeys, DatabaseKeys
<1> QED
  BY <1>1, <1>3 DEF Inv, Locked

-----------------------------------------------------------------------------
(* The invariant is inductive: one lemma per kind of step. *)

\* An operation's step is not about the other resources, but for ending the run.
LeavesAlone(r) ==
    /\ target' = target
    /\ \A q \in Resources \ {r} :
         /\ op'[q] = op[q] /\ fn'[q] = fn[q] /\ dirty'[q] = dirty[q]
         /\ config'[q] = config[q] /\ state'[q] = state[q]
         /\ pc'[q] = pc[q] \/ (pc[q] = "over" /\ pc'[q] = "idle")
         /\ \A k \in Keys : holder[k] = q => holder'[k] = q

\* Whatever an operation's step leaves alone stays as the invariant says.
LEMMA Others ==
    ASSUME Inv, NEW r \in Resources, LeavesAlone(r)
    PROVE  \A q \in Resources \ {r} : Flow(q)' /\ Locked(q)'
<1> SUFFICES ASSUME NEW q \in Resources, q # r
             PROVE  Flow(q)' /\ Locked(q)'
  OBVIOUS
<1>1. Flow(q)'
  BY DEF Inv, LeavesAlone, Flow, InTransaction
<1>2. LockKeys(q)' = LockKeys(q)
  BY DEF LeavesAlone, LockKeys, RoleKeys, MemberKeys, DatabaseKeys
<1>3. LockKeys(q) \subseteq Keys
  BY KeysType DEF Inv
<1>4. Locked(q)'
  BY <1>2, <1>3 DEF Inv, LeavesAlone, Locked, InTransaction
<1> QED
  BY <1>1, <1>4

\* So what remains of a step is what it does to its own resource.
LEMMA Own ==
    ASSUME Inv, NEW r \in Resources, LeavesAlone(r), TypeOK', Flow(r)', Locked(r)'
    PROVE  Inv'
BY Others DEF Inv

\* Before the first run nothing is under way.
LEMMA Initially == Init => Inv
<1> SUFFICES ASSUME Init PROVE Inv
  OBVIOUS
<1> USE DEF Init
<1>1. TypeOK
  <2>1. \A r \in Resources : config[r] \subseteq Privileges \cup {All}
    BY GrantAssumption
  <2>2. target \in [Resources -> Target]
    BY GrantAssumption
  <2>3. {edits, drifts, failures} \subseteq Nat
    OBVIOUS
  <2> QED
    BY <2>1, <2>2, <2>3 DEF TypeOK, PC
<1>2. \A r \in Resources : Flow(r) /\ Locked(r)
  BY DEF Flow, Locked, InTransaction
<1> QED
  BY <1>1, <1>2 DEF Inv

\* What GoTo, Begin and Return write are program counters.
LEMMA Counters ==
    ASSUME TypeOK, NEW r \in Resources
    PROVE  /\ \A next \in PC : GoTo(r, next) => pc' \in [Resources -> PC]
           /\ \A part \in {"apply", "read"} : Begin(r, part) =>
                pc' \in [Resources -> PC] /\ fn' \in [Resources -> {"apply", "read"}]
           /\ Return(r) =>
                /\ pc' \in [Resources -> PC] /\ fn' \in [Resources -> {"apply", "read"}]
                /\ op' \in [Resources -> {"refresh", "create", "update", "delete"}]
<1>1. \A part \in {"apply", "read"} : First(part) \in PC
  BY DEF First, PC
<1> QED
  BY <1>1 DEF TypeOK, GoTo, Begin, Return, PC

\* A resource is looked at: it is planned, or first read.
LEMMA RefreshStep == ASSUME Inv, NEW r \in Resources, Refresh(r) PROVE Inv'
<1> USE DEF Refresh, server, inputs
<1>1. TypeOK'
  BY Counters DEF Inv, TypeOK, PC, GoTo, Begin, First
<1>2. LeavesAlone(r)
  BY DEF LeavesAlone, GoTo, Begin, Inv, TypeOK
<1>3. Flow(r)'
  BY DEF Inv, TypeOK, Flow, GoTo, Begin, First, InTransaction
<1>4. Locked(r)'
  BY DEF Inv, TypeOK, Flow, Locked, GoTo, Begin, First, InTransaction
<1> QED
  BY <1>1, <1>2, <1>3, <1>4, Own

\* Ending an operation: the last of a run starts the next.
LEMMA Returns ==
    ASSUME Inv, NEW r \in Resources, Return(r)
    PROVE  /\ pc'[r] \in {"idle", "over"} /\ op'[r] = "refresh" /\ fn'[r] = "read"
           /\ \A q \in Resources \ {r} :
                /\ op'[q] = op[q] /\ fn'[q] = fn[q]
                /\ pc'[q] = pc[q] \/ (pc[q] = "over" /\ pc'[q] = "idle")
BY DEF Inv, TypeOK, Return, GoTo

\* What Terraform plans can be done: there is something to create or update to,
\* and something to update or delete.
LEMMA PlannedKnown ==
    ASSUME NEW r \in Resources, NEW o \in Planned(r)
    PROVE  /\ o \in {"create", "update", "delete"}
           /\ o \in {"create", "update"} => config[r] # Absent
           /\ o \in {"update", "delete"} => state[r] # Absent
BY DEF Planned

\* An operation is planned, or nothing is.
LEMMA PlanStep == ASSUME Inv, NEW r \in Resources, Plan(r) PROVE Inv'
<1> USE DEF server, inputs
<1>1. CASE Return(r) /\ UNCHANGED <<server, holder, inputs, state>>
  <2>1. TypeOK'
    BY <1>1, Counters DEF Inv, TypeOK
  <2>2. LeavesAlone(r)
    BY <1>1, Returns DEF LeavesAlone
  <2>3. Flow(r)' /\ Locked(r)'
    BY <1>1, Returns DEF Plan, Inv, Flow, Locked, InTransaction
  <2> QED
    BY <2>1, <2>2, <2>3, Own
<1>2. ASSUME NEW o \in Planned(r), op' = [op EXCEPT ![r] = o], Begin(r, "apply"),
             UNCHANGED <<server, holder, inputs, state>>
      PROVE  Inv'
  <2>1. TypeOK'
    BY <1>2, Counters, PlannedKnown DEF Inv, TypeOK
  <2>2. LeavesAlone(r)
    BY <1>2 DEF LeavesAlone, Begin, GoTo, Inv, TypeOK
  <2>3. pc'[r] \in {"lock", "revoke"} /\ fn'[r] = "apply" /\ op'[r] = o
    BY <1>2 DEF Inv, TypeOK, Begin, GoTo, First
  <2>4. Flow(r)'
    BY <1>2, <2>3, PlannedKnown DEF Flow, InTransaction
  <2>5. pc'[r] = "revoke" => LockKeys(r)' = {}
    BY <1>2 DEF Inv, TypeOK, Begin, GoTo, First, LockKeys, RoleKeys, MemberKeys, DatabaseKeys
  <2>6. dirty'[r] = {}
    BY <1>2 DEF Plan, Inv, Locked
  <2>7. Locked(r)'
    BY <2>3, <2>5, <2>6 DEF Locked, InTransaction
  <2> QED
    BY <2>1, <2>2, <2>4, <2>7, Own
<1> QED
  BY <1>1, <1>2 DEF Plan

\* A lock is taken from nobody, and the last one lets the operation go on.
LEMMA TakeLockStep == ASSUME Inv, NEW r \in Resources, TakeLock(r) PROVE Inv'
<1> USE DEF server, inputs
<1>1. PICK k \in Locking(r) :
        /\ holder[k] = Nobody
        /\ holder' = [holder EXCEPT ![k] = r]
        /\ GoTo(r, IF \A l \in LockKeys(r) : holder'[l] = r THEN First(fn[r]) ELSE "lock")
        /\ UNCHANGED <<server, inputs, state, op, fn>>
  BY DEF TakeLock
<1>2. k \in Keys /\ pc[r] = "lock"
  BY KeysType DEF Inv, Locking
<1>3. pc'[r] \in {"lock", First(fn[r])} /\ \A q \in Resources \ {r} : pc'[q] = pc[q]
  BY <1>1 DEF Inv, TypeOK, GoTo
<1>4. TypeOK'
  BY <1>1, <1>2 DEF Inv, TypeOK, GoTo, First, PC
<1>5. LeavesAlone(r)
  BY <1>1, <1>2, <1>3, GrantAssumption DEF Inv, TypeOK, LeavesAlone
<1>6. Flow(r)'
  BY <1>1, <1>2, <1>3 DEF Inv, TypeOK, Flow, First, InTransaction
<1>7. LockKeys(r)' = LockKeys(r)
  BY <1>1 DEF LockKeys, RoleKeys, MemberKeys, DatabaseKeys
<1>8. Locked(r)'
  BY <1>1, <1>2, <1>3, <1>7 DEF Inv, TypeOK, Locked, GoTo, InTransaction
<1> QED
  BY <1>4, <1>5, <1>6, <1>8, Own

\* A statement writes rows of objects to the transaction's own view.
LEMMA WriteStep ==
    ASSUME Inv, NEW r \in Resources, NEW rows, rows \subseteq Objects \X Grantees \X Privileges,
           Write(r, rows), NEW next \in {"grant", "commit"}, GoTo(r, next),
           pc[r] \in InTransaction,
           next = "grant" => op[r] # "delete",
           UNCHANGED <<holder, inputs, state, op, fn>>
    PROVE  Inv'
<1> USE DEF inputs, InTransaction
<1>1. Touches(r) \subseteq Objects
  <2>1. CASE pc[r] = "revoke"
    <3>1. op[r] = "delete" => state[r] \in Instance
      BY <2>1 DEF Inv, TypeOK, Flow
    <3>2. Revoked(r) \subseteq Objects
      BY <3>1, GrantedType DEF Revoked, Instance, Inv
    <3> QED
      BY <2>1, <3>2 DEF Touches, RevokedRows, WithColumns
  <2>2. CASE pc[r] = "grant"
    BY <2>2, GrantedType DEF Touches, Inv
  <2> QED
    BY <2>1, <2>2 DEF Touches
<1>2. TypeOK'
  BY <1>1 DEF Write, Inv, TypeOK, GoTo, PC
<1>3. LeavesAlone(r)
  BY DEF LeavesAlone, Write, GoTo, Inv, TypeOK
<1>4. Flow(r)'
  BY DEF Inv, TypeOK, Flow, GoTo
<1>5. LockKeys(r)' = LockKeys(r)
  BY DEF LockKeys, RoleKeys, MemberKeys, DatabaseKeys
<1>6. Locked(r)'
  BY <1>5 DEF Inv, TypeOK, Locked, Write, GoTo
<1> QED
  BY <1>2, <1>3, <1>4, <1>6, Own

\* The REVOKE.
LEMMA RevokeStep == ASSUME Inv, NEW r \in Resources, Revoke(r) PROVE Inv'
<1> DEFINE rows == View(r) \ (RevokedRows(r) \X {target[r].role} \X RevokedPrivileges(r))
           next == IF op[r] = "delete" \/ config[r] = {} THEN "commit" ELSE "grant"
<1>1. rows \subseteq Objects \X Grantees \X Privileges
  BY ViewType DEF Inv
<1>2. Write(r, rows) /\ GoTo(r, next)
  BY DEF Revoke
<1>3. next \in {"grant", "commit"} /\ (next = "grant" => op[r] # "delete")
  OBVIOUS
<1> HIDE DEF rows, next
<1> QED
  BY <1>1, <1>2, <1>3, WriteStep DEF Revoke, InTransaction

\* The GRANT, which there is only when something is configured.
LEMMA GrantStep == ASSUME Inv, NEW r \in Resources, Grant(r) PROVE Inv'
<1> DEFINE rows == View(r) \cup (Granted(r) \X {target[r].role} \X Expand(config[r]))
<1>1. config[r] \subseteq Privileges \cup {All}
  BY DEF Inv, TypeOK, Flow, Grant, InTransaction
<1>2. Expand(config[r]) \subseteq Privileges
  BY <1>1, ExpandType
<1>3. Granted(r) \X {target[r].role} \X Expand(config[r])
        \subseteq Objects \X Grantees \X Privileges
  BY <1>2, GrantedType DEF Inv
<1>4. rows \subseteq Objects \X Grantees \X Privileges
  BY <1>3, ViewType DEF Inv
<1>5. Write(r, rows)
  BY DEF Grant
<1> HIDE DEF rows
<1> QED
  BY <1>4, <1>5, WriteStep DEF Grant, InTransaction

\* A transaction that ends has no rows left and releases its own locks only.
LEMMA Ends ==
    ASSUME Inv, NEW r \in Resources, EndTransaction(r)
    PROVE  /\ dirty' \in [Resources -> SUBSET Objects] /\ dirty'[r] = {}
           /\ mine' \in [Resources -> SUBSET (Objects \X Grantees \X Privileges)]
           /\ holder' \in [Keys -> Resources \cup {Nobody}]
           /\ present' = present
           /\ \A q \in Resources \ {r} :
                /\ dirty'[q] = dirty[q]
                /\ \A k \in Keys : holder[k] = q => holder'[k] = q
BY DEF Inv, TypeOK, EndTransaction

\* A commit publishes what the transaction saw.
LEMMA CommitStep == ASSUME Inv, NEW r \in Resources, Commit(r) PROVE Inv'
<1> USE DEF inputs
<1>1. pc[r] = "commit" /\ acl' = View(r) /\ EndTransaction(r) /\ UNCHANGED <<inputs, op>>
  BY DEF Commit
<1>2. acl' \subseteq Objects \X Grantees \X Privileges
  BY <1>1, ViewType DEF Inv
<1>3. CASE op[r] = "delete"
  <2>1. /\ state' = [state EXCEPT ![r] = Absent]
        /\ GoTo(r, "plan") /\ UNCHANGED fn
    BY <1>3 DEF Commit
  <2>2. TypeOK'
    BY <1>1, <1>2, <2>1, Ends DEF Inv, TypeOK, GoTo, PC
  <2>3. LeavesAlone(r)
    BY <1>1, <2>1, Ends DEF LeavesAlone, GoTo, Inv, TypeOK
  <2>4. Flow(r)' /\ Locked(r)'
    BY <1>1, <1>3, <2>1, Ends DEF Inv, TypeOK, Flow, Locked, GoTo, InTransaction
  <2> QED
    BY <2>2, <2>3, <2>4, Own
<1>4. CASE op[r] # "delete"
  <2>1. Begin(r, "read") /\ UNCHANGED state
    BY <1>4 DEF Commit
  <2>2. TypeOK'
    BY <1>1, <1>2, <2>1, Ends, Counters DEF Inv, TypeOK
  <2>3. LeavesAlone(r)
    BY <1>1, <2>1, Ends DEF LeavesAlone, Begin, GoTo, Inv, TypeOK
  <2>4. pc'[r] \in {"lock", "read"} /\ fn'[r] = "read"
    BY <2>1 DEF Inv, TypeOK, Begin, GoTo, First
  <2>5. Flow(r)' /\ Locked(r)'
    BY <1>1, <1>4, <2>1, <2>4, Ends DEF Inv, TypeOK, Flow, Locked, InTransaction
  <2> QED
    BY <2>2, <2>3, <2>5, Own
<1> QED
  BY <1>3, <1>4

\* What Read finds is privileges of the type, or what was expected.
LEMMA ReadType ==
    ASSUME Inv, NEW r \in Resources, pc[r] = "read"
    PROVE  /\ ReadPrivileges(r) \subseteq SUBSET (Privileges \cup {All})
           /\ ReadColumns(r) \subseteq Objects
<1>1. state[r] # Absent \/ op[r] # "refresh"
  BY DEF Inv, Flow
<1>2. op[r] \in {"create", "update", "refresh"} /\ (op[r] # "refresh" => config[r] # Absent)
  BY DEF Inv, TypeOK, Flow
<1>3. op[r] = "refresh" => state[r] \in Instance
  BY <1>1 DEF Inv, TypeOK
<1>4. Expected(r) \subseteq Privileges \cup {All}
  BY <1>2, <1>3 DEF Expected, Inv, TypeOK, Instance
<1>5. target[r].objects \subseteq Objects
  BY DEF Inv, TypeOK, Target
<1>6. ReadColumns(r) \subseteq Objects
  BY <1>3, <1>5 DEF ReadColumns, Instance
<1>7. \A o : PrivilegesOf(acl, o, target[r].role) \subseteq Privileges
  BY DEF PrivilegesOf
<1>8. ReadPrivileges(r) \subseteq SUBSET (Privileges \cup {All})
  BY <1>4, <1>7 DEF ReadPrivileges
<1> QED
  BY <1>6, <1>8

\* Reading: the state is what was found, and a refresh goes on to the plan.
LEMMA ReadStep == ASSUME Inv, NEW r \in Resources, Read(r) PROVE Inv'
<1> USE DEF inputs
<1>1. PICK found \in ReadPrivileges(r) :
        state' = [state EXCEPT ![r] =
             IF Gone(r, found) THEN IF op[r] = "update" THEN @ ELSE Absent
             ELSE [privileges |-> found, objects |-> ReadColumns(r),
                   tainted |-> CASE op[r] = "refresh" -> state[r].tainted
                                 [] op[r] = "create" -> \/ found # config[r]
                                                       \/ ReadColumns(r) # target[r].objects
                                 [] OTHER -> FALSE]]
  BY DEF Read
<1>2. pc[r] = "read" /\ EndTransaction(r) /\ UNCHANGED <<acl, inputs>>
  BY DEF Read
<1>3. op[r] = "refresh" => state[r].tainted \in BOOLEAN
  BY <1>2 DEF Inv, TypeOK, Flow, Instance
<1>4. state' \in [Resources -> Instance \cup {Absent}]
  <2> DEFINE t == CASE op[r] = "refresh" -> state[r].tainted
                    [] op[r] = "create" -> \/ found # config[r]
                                          \/ ReadColumns(r) # target[r].objects
                    [] OTHER -> FALSE
             i == [privileges |-> found, objects |-> ReadColumns(r), tainted |-> t]
  <2>1. t \in BOOLEAN
    BY <1>3
  <2>2. found \subseteq Privileges \cup {All} /\ ReadColumns(r) \subseteq Objects
    BY <1>2, ReadType
  <2> HIDE DEF t
  <2>3. i \in Instance
    BY <2>1, <2>2 DEF Instance
  <2>4. state' = [state EXCEPT ![r] =
             IF Gone(r, found) THEN IF op[r] = "update" THEN @ ELSE Absent ELSE i]
    BY <1>1 DEF t
  <2> HIDE DEF i
  <2> QED
    BY <2>3, <2>4 DEF Inv, TypeOK
<1>5. \A q \in Resources \ {r} : state'[q] = state[q]
  BY <1>1 DEF Inv, TypeOK
<1>6. CASE op[r] = "refresh"
  <2>1. GoTo(r, "plan") /\ UNCHANGED <<op, fn>>
    BY <1>6 DEF Read
  <2>2. TypeOK'
    BY <1>2, <1>4, <2>1, Ends DEF Inv, TypeOK, GoTo, PC
  <2>3. LeavesAlone(r)
    BY <1>2, <1>5, <2>1, Ends DEF LeavesAlone, GoTo, Inv, TypeOK
  <2>4. Flow(r)' /\ Locked(r)'
    BY <1>2, <1>6, <2>1, Ends DEF Inv, TypeOK, Flow, Locked, GoTo, InTransaction
  <2> QED
    BY <2>2, <2>3, <2>4, Own
<1>7. CASE op[r] # "refresh"
  <2>1. Return(r)
    BY <1>7 DEF Read
  <2>2. TypeOK'
    BY <1>2, <1>4, <2>1, Ends, Counters DEF Inv, TypeOK
  <2>3. LeavesAlone(r)
    BY <1>2, <1>5, <2>1, Ends, Returns DEF LeavesAlone
  <2>4. Flow(r)' /\ Locked(r)'
    BY <1>2, <2>1, Ends, Returns DEF Flow, Locked, InTransaction
  <2> QED
    BY <2>2, <2>3, <2>4, Own
<1> QED
  BY <1>6, <1>7

\* An error ends the operation and its transaction.
LEMMA FailStep ==
    ASSUME Inv, NEW r \in Resources, Fail(r), failures' \in Nat
    PROVE  Inv'
<1>1. EndTransaction(r) /\ Return(r) /\ UNCHANGED <<acl, target, config, edits, drifts, state>>
  BY DEF Fail
<1>2. TypeOK'
  BY <1>1, Ends, Counters DEF Inv, TypeOK
<1>3. LeavesAlone(r)
  BY <1>1, Ends, Returns DEF LeavesAlone
<1>4. Flow(r)' /\ Locked(r)'
  BY <1>1, Ends, Returns DEF Flow, Locked, InTransaction
<1> QED
  BY <1>2, <1>3, <1>4, Own

\* The configuration changes between runs.
LEMMA EditStep == ASSUME Inv, NEW r \in Resources, Edit(r) PROVE Inv'
<1> USE DEF server
<1>1. TypeOK'
  BY GrantAssumption DEF Edit, Inv, TypeOK
<1>2. \A q \in Resources : Flow(q)'
  BY DEF Edit, Inv, Flow, InTransaction
<1>3. \A q \in Resources : Locked(q)'
  BY DEF Edit, Inv, Locked, InTransaction
<1> QED
  BY <1>1, <1>2, <1>3 DEF Inv

\* Others write committed rows only.
LEMMA DriftStep == ASSUME Inv, Drift PROVE Inv'
<1>1. /\ UNCHANGED <<dirty, mine, holder, target, config, edits, failures, state, op, fn, pc>>
      /\ drifts' \in Nat
  BY DEF Drift, Inv, TypeOK
<1>2. acl' \subseteq Objects \X Grantees \X Privileges /\ present' \subseteq Objects
  <2>1. CASE \E r \in Resources, p \in Privileges : \E o \in Granted(r) :
            LET role == target[r].role IN
            /\ \A q \in Resources : WithColumns({o}) \cap dirty[q] = {}
            /\ acl' = IF <<o, role, p>> \in acl THEN acl \ (WithColumns({o}) \X {role} \X {p})
                                            ELSE acl \cup {<<o, role, p>>}
            /\ UNCHANGED present
    <3>1. PICK r \in Resources, p \in Privileges : \E o \in Granted(r) :
            acl' \subseteq acl \cup {<<o, target[r].role, p>>} /\ UNCHANGED present
      BY <2>1
    <3> QED
      BY <3>1, GrantedType DEF Inv, TypeOK
  <2>2. CASE \E o \in Later \ present : present' = present \cup {o} /\ UNCHANGED acl
    BY <2>2, GrantAssumption DEF Inv, TypeOK
  <2> QED
    BY <2>1, <2>2 DEF Drift
<1>3. TypeOK'
  BY <1>1, <1>2 DEF Inv, TypeOK
<1>4. \A q \in Resources : Flow(q)'
  BY <1>1 DEF Inv, Flow, InTransaction
<1>5. \A q \in Resources : Locked(q)'
  BY <1>1 DEF Inv, Locked, LockKeys, RoleKeys, MemberKeys, DatabaseKeys, InTransaction
<1> QED
  BY <1>3, <1>4, <1>5 DEF Inv

\* Every step.
LEMMA NextStep == Inv /\ [Next]_vars => Inv'
<1> SUFFICES ASSUME Inv, [Next]_vars PROVE Inv'
  OBVIOUS
<1>1. ASSUME NEW r \in Resources, Step(r) PROVE Inv'
  BY <1>1, RefreshStep, PlanStep, TakeLockStep, RevokeStep, GrantStep, CommitStep, ReadStep
     DEF Step
<1>2. ASSUME NEW r \in Resources, StatementFails(r) PROVE Inv'
  BY <1>2, FailStep DEF StatementFails, Inv, TypeOK
<1>3. ASSUME NEW r \in Resources, DeadlockError(r) PROVE Inv'
  BY <1>3, FailStep DEF DeadlockError, Inv, TypeOK
<1>4. ASSUME NEW r \in Resources, Edit(r) PROVE Inv'
  BY <1>4, EditStep
<1>5. CASE Drift
  BY <1>5, DriftStep
<1>6. CASE UNCHANGED vars
  <2>1. TypeOK'
    BY <1>6 DEF Inv, TypeOK, vars, server, inputs
  <2>2. \A q \in Resources : Flow(q)'
    BY <1>6 DEF Inv, Flow, InTransaction, vars, server, inputs
  <2>3. \A q \in Resources : Locked(q)'
    BY <1>6 DEF Inv, Locked, LockKeys, RoleKeys, MemberKeys, DatabaseKeys, InTransaction,
                vars, server, inputs
  <2> QED
    BY <2>1, <2>2, <2>3 DEF Inv
<1> QED
  BY <1>1, <1>2, <1>3, <1>4, <1>5, <1>6 DEF Next

-----------------------------------------------------------------------------
(* The theorems. *)

\* The inductive invariant is one.
LEMMA Invariance == Spec => []Inv
  BY Initially, NextStep, PTL DEF Spec

\* The variables of grants have their types: only privileges of the type reach
\* the server, and Terraform's state is an instance or none.
THEOREM TypeInvariance == Spec => []TypeOK
<1>1. Inv => TypeOK
  BY DEF Inv
<1> QED
  BY <1>1, Invariance, PTL

\* Two resources of one role, or of the database, never meet in a row
\* (pgLockRole, pgLockDatabase), however many there are and whatever fails.
THEOREM GrantsDoNotCollide == Spec => []NoConcurrentUpdates
  BY Invariance, LocksExclude, PTL

-----------------------------------------------------------------------------
(* No privilege is lost between the revoke and the grant of an update.     *)

\* The objects a resource may be about, those that are created later included.
Scope(r) ==
    IF target[r].objects # {} THEN target[r].objects
    ELSE {o \in Objects : TypeOf[o] \in Reaches(target[r].type)}

\* A transaction has rows of its own objects, which no other has; what was there
\* it leaves but for its own grantee's privileges, and at the commit of an update
\* what is configured is there again.  Columns are read among those configured.
Rows(r) ==
    /\ dirty[r] \subseteq WithColumns(Scope(r))
    /\ \A q \in Resources \ {r} : dirty[r] \cap dirty[q] = {}
    /\ \A t \in mine[r] : t[1] \in dirty[r] \cap present
    /\ \A t \in acl : t[1] \in dirty[r] =>
         \/ t \in mine[r]
         \/ /\ t[2] = target[r].role
            /\ pc[r] = "commit" /\ op[r] = "update" /\ t[1] \in Granted(r)
                 => t[3] \notin Expand(config[r])
    /\ state[r] # Absent => state[r].objects \subseteq target[r].objects

\* Privileges are on objects that are there; those configured by name are.
Placed ==
    /\ target \in Targets
    /\ Objects \ Later \subseteq present
    /\ \A t \in acl : t[1] \in present

RowsInv == Placed /\ \A r \in Resources : Rows(r)

\* A grant reaches what is there, within what the resource is about.
LEMMA GrantedScope ==
    ASSUME Inv, Placed, NEW r \in Resources
    PROVE  Granted(r) \subseteq Scope(r) /\ Granted(r) \subseteq present
<1>1. target[r].objects \subseteq Objects \ Later
  BY GrantAssumption DEF Inv, TypeOK, Placed, Target
<1>2. present \subseteq Objects
  BY DEF Inv, TypeOK
<1> QED
  BY <1>1, <1>2 DEF Granted, Scope, Placed

\* And so does a revoke, with the columns of tables.
LEMMA TouchesScope ==
    ASSUME Inv, RowsInv, NEW r \in Resources
    PROVE  Touches(r) \subseteq WithColumns(Scope(r))
<1>1. Granted(r) \subseteq Scope(r)
  BY GrantedScope DEF RowsInv
<1>2. \A S, T : S \subseteq T => WithColumns(S) \subseteq WithColumns(T) /\ S \subseteq WithColumns(T)
  BY DEF WithColumns
<1>3. CASE pc[r] = "revoke"
  <2>1. op[r] = "delete" => state[r].objects \subseteq target[r].objects
    BY <1>3 DEF Inv, Flow, InTransaction, RowsInv, Rows
  <2>2. Revoked(r) \subseteq Scope(r)
    BY <1>1, <2>1 DEF Revoked, Scope
  <2> QED
    BY <1>2, <1>3, <2>2 DEF Touches, RevokedRows
<1>4. CASE pc[r] = "grant"
  BY <1>1, <1>2, <1>4 DEF Touches
<1> QED
  BY <1>3, <1>4 DEF Touches

\* A step that writes nothing.
LEMMA NoRows ==
    ASSUME Inv, RowsInv, NEW r \in Resources, LeavesAlone(r), UNCHANGED server,
           pc'[r] # "commit",
           state'[r] # Absent => state'[r] = state[r]
    PROVE  RowsInv'
<1> USE DEF server, LeavesAlone
<1>1. Placed'
  BY DEF RowsInv, Placed
<1>2. ASSUME NEW q \in Resources PROVE Rows(q)'
  <2>1. Rows(q) /\ Scope(q)' = Scope(q) /\ Granted(q)' = Granted(q)
    BY DEF RowsInv, Scope, Granted
  <2>2. CASE q = r
    BY <2>1, <2>2 DEF Rows
  <2>3. CASE q # r
    BY <2>1, <2>3 DEF Rows
  <2> QED
    BY <2>2, <2>3
<1> QED
  BY <1>1, <1>2 DEF RowsInv

\* A statement that writes.
LEMMA WriteRows ==
    ASSUME Inv, RowsInv, NEW r \in Resources, NEW rows, Write(r, rows), LeavesAlone(r),
           UNCHANGED <<target, config, op, state>>, pc[r] # "commit",
           \A t \in rows : t \in View(r) \/ t[1] \in Granted(r),
           \A t \in View(r) : t[2] # target[r].role => t \in rows,
           pc'[r] = "commit" /\ op[r] = "update" => \A t \in acl :
             t[1] \in Granted(r) /\ t[2] = target[r].role /\ t[3] \in Expand(config[r]) => t \in rows
    PROVE  RowsInv'
<1>1. /\ RowHolders(r) = {} /\ UNCHANGED <<acl, present>>
      /\ dirty'[r] = dirty[r] \cup Touches(r)
      /\ mine'[r] = {t \in rows : t[1] \in dirty'[r]}
      /\ \A q \in Resources \ {r} : dirty'[q] = dirty[q] /\ mine'[q] = mine[q]
  BY DEF Write, Inv, TypeOK
<1>2. Placed'
  BY <1>1 DEF RowsInv, Placed
<1>3. \A q \in Resources : Scope(q)' = Scope(q) /\ Granted(q)' = Granted(q)
  BY <1>1 DEF Scope, Granted
<1>4. \A q \in Resources \ {r} : dirty[q] \cap dirty'[r] = {}
  BY <1>1 DEF RowHolders, RowsInv, Rows
<1>5. ASSUME NEW q \in Resources \ {r} PROVE Rows(q)'
  BY <1>1, <1>3, <1>4 DEF RowsInv, Rows, LeavesAlone
<1>6. Rows(r)'
  <2>1. dirty'[r] \subseteq WithColumns(Scope(r)')
    BY <1>1, <1>3, TouchesScope DEF RowsInv, Rows
  <2>2. WithColumns(Scope(r))' = WithColumns(Scope(r)')
    BY DEF WithColumns
  <2>3. \A t \in View(r) : t[1] \in present
    BY DEF View, RowsInv, Rows, Placed
  <2>4. Granted(r) \subseteq present
    BY GrantedScope DEF RowsInv
  <2>5. \A t \in mine'[r] : t[1] \in dirty'[r] \cap present'
    BY <1>1, <2>3, <2>4
  <2>6. ASSUME NEW t \in acl', t[1] \in dirty'[r], t \notin mine'[r]
        PROVE  /\ t[2] = target'[r].role
               /\ pc'[r] = "commit" /\ op'[r] = "update" /\ t[1] \in Granted(r)'
                    => t[3] \notin Expand(config'[r])
    <3>1. t \notin rows /\ t \in acl
      BY <1>1, <2>6
    <3>2. t[2] = target[r].role
      <4>1. CASE t \in View(r)
        BY <3>1, <4>1
      <4>2. CASE t \notin View(r)
        BY <3>1, <4>2 DEF View, RowsInv, Rows
      <4> QED
        BY <4>1, <4>2
    <3> QED
      BY <1>3, <3>1, <3>2
  <2> QED
    BY <1>1, <1>3, <1>4, <2>1, <2>2, <2>5, <2>6 DEF RowsInv, Rows, Expand
<1> QED
  BY <1>2, <1>5, <1>6 DEF RowsInv

\* The end of a transaction: others see what it commits in its own objects only.
LEMMA EndRows ==
    ASSUME Inv, RowsInv, NEW r \in Resources, EndTransaction(r), LeavesAlone(r),
           acl' \in {acl, View(r)},
           state'[r] # Absent => state'[r].objects \subseteq target[r].objects
    PROVE  RowsInv'
<1>1. /\ dirty'[r] = {} /\ mine'[r] = {} /\ present' = present
      /\ \A q \in Resources \ {r} : dirty'[q] = dirty[q] /\ mine'[q] = mine[q]
  BY DEF EndTransaction, Inv, TypeOK
<1>2. \A t \in acl' : t[1] \in present /\ (t \in acl \/ t[1] \in dirty[r])
  BY DEF View, RowsInv, Rows, Placed
<1>3. Placed'
  BY <1>1, <1>2 DEF RowsInv, Placed, LeavesAlone
<1>4. \A q \in Resources : Scope(q)' = Scope(q) /\ Granted(q)' = Granted(q)
  BY <1>1 DEF Scope, Granted, LeavesAlone
<1>5. ASSUME NEW q \in Resources \ {r} PROVE Rows(q)'
  BY <1>1, <1>2, <1>4 DEF RowsInv, Rows, LeavesAlone
<1>6. Rows(r)'
  BY <1>1 DEF Rows, LeavesAlone
<1> QED
  BY <1>3, <1>5, <1>6 DEF RowsInv

\* Somebody else writes to rows that no transaction has, and a new table is in
\* nobody's way.
LEMMA DriftRows == ASSUME Inv, RowsInv, Drift PROVE RowsInv'
<1>1. UNCHANGED <<dirty, mine, target, config, state, op, pc>>
  BY DEF Drift
<1>2. \A q \in Resources : Scope(q)' = Scope(q)
  BY <1>1 DEF Scope
<1>3. CASE \E r \in Resources, p \in Privileges : \E o \in Granted(r) :
            LET role == target[r].role IN
            /\ \A q \in Resources : WithColumns({o}) \cap dirty[q] = {}
            /\ acl' = IF <<o, role, p>> \in acl THEN acl \ (WithColumns({o}) \X {role} \X {p})
                                            ELSE acl \cup {<<o, role, p>>}
            /\ UNCHANGED present
  <2>a. PICK r \in Resources, p \in Privileges : \E o \in Granted(r) :
            /\ \A q \in Resources : WithColumns({o}) \cap dirty[q] = {}
            /\ acl' \subseteq acl \cup {<<o, target[r].role, p>>}
            /\ UNCHANGED present
    BY <1>3
  <2>1. PICK o \in Granted(r) :
            /\ \A q \in Resources : WithColumns({o}) \cap dirty[q] = {}
            /\ acl' \subseteq acl \cup {<<o, target[r].role, p>>}
            /\ UNCHANGED present
    BY <2>a
  <2>2. o \in WithColumns({o})
    BY DEF WithColumns
  <2>3. o \in present
    BY GrantedScope DEF RowsInv
  <2>4. Placed'
    BY <1>1, <2>1, <2>3 DEF RowsInv, Placed
  <2>5. ASSUME NEW q \in Resources PROVE Rows(q)'
    <3>1. \A t \in acl' : t[1] \in dirty[q] => t \in acl
      BY <2>1, <2>2
    <3>2. Granted(q)' = Granted(q)
      BY <1>1, <2>1 DEF Granted
    <3> QED
      BY <1>1, <1>2, <2>1, <3>1, <3>2 DEF RowsInv, Rows
  <2> QED
    BY <2>4, <2>5 DEF RowsInv
<1>4. CASE \E o \in Later \ present : present' = present \cup {o} /\ UNCHANGED acl
  <2>1. PICK o \in Later \ present : present' = present \cup {o} /\ UNCHANGED acl
    BY <1>4
  <2>2. Placed'
    BY <1>1, <2>1 DEF RowsInv, Placed
  <2>3. ASSUME NEW q \in Resources PROVE Rows(q)'
    <3>1. \A t \in acl : t[1] \in Granted(q)' => t[1] \in Granted(q)
      BY <1>1, <2>1 DEF Granted, RowsInv, Placed
    <3> QED
      BY <1>1, <1>2, <2>1, <3>1 DEF RowsInv, Rows
  <2> QED
    BY <2>2, <2>3 DEF RowsInv
<1> QED
  BY <1>3, <1>4 DEF Drift

\* The steps of an operation are about its own resource.
LEMMA ActsAlone ==
    ASSUME Inv, NEW r \in Resources, Step(r) \/ Fail(r)
    PROVE  LeavesAlone(r)
<1> USE DEF server, inputs
<1>1. CASE Refresh(r)
  BY <1>1 DEF Refresh, LeavesAlone, GoTo, Begin, Inv, TypeOK
<1>2. CASE Plan(r)
  <2>1. CASE Return(r) /\ UNCHANGED <<server, holder, inputs, state>>
    BY <2>1, Returns DEF LeavesAlone
  <2>2. ASSUME NEW o \in Planned(r), op' = [op EXCEPT ![r] = o], Begin(r, "apply"),
               UNCHANGED <<server, holder, inputs, state>>
        PROVE  LeavesAlone(r)
    BY <2>2 DEF LeavesAlone, Begin, GoTo, Inv, TypeOK
  <2> QED
    BY <1>2, <2>1, <2>2 DEF Plan
<1>3. CASE TakeLock(r)
  <2>1. PICK k \in Locking(r) :
          holder[k] = Nobody /\ holder' = [holder EXCEPT ![k] = r]
    BY <1>3 DEF TakeLock
  <2>2. k \in Keys /\ UNCHANGED <<server, inputs, state, op, fn>>
    BY <1>3, KeysType DEF TakeLock, Inv
  <2>3. \A q \in Resources \ {r} : pc'[q] = pc[q]
    BY <1>3 DEF TakeLock, Inv, TypeOK, GoTo
  <2> QED
    BY <2>1, <2>2, <2>3, GrantAssumption DEF Inv, TypeOK, LeavesAlone
<1>4. CASE Revoke(r) \/ Grant(r)
  <2>1. /\ \E rows : Write(r, rows)
        /\ \E next : GoTo(r, next)
        /\ UNCHANGED <<holder, inputs, state, op, fn>>
    BY <1>4 DEF Revoke, Grant
  <2> QED
    BY <2>1 DEF LeavesAlone, Write, GoTo, Inv, TypeOK
<1>5. CASE Commit(r)
  <2>1. EndTransaction(r) /\ UNCHANGED <<inputs, op>>
    BY <1>5 DEF Commit
  <2>2. CASE state' = [state EXCEPT ![r] = Absent] /\ GoTo(r, "plan") /\ UNCHANGED fn
    BY <2>1, <2>2, Ends DEF LeavesAlone, GoTo, Inv, TypeOK
  <2>3. CASE Begin(r, "read") /\ UNCHANGED state
    BY <2>1, <2>3, Ends DEF LeavesAlone, Begin, GoTo, Inv, TypeOK
  <2> QED
    BY <1>5, <2>2, <2>3 DEF Commit
<1>6. CASE Read(r)
  <2>1. EndTransaction(r) /\ UNCHANGED <<acl, inputs>>
    BY <1>6 DEF Read
  <2>2. \A q \in Resources \ {r} : state'[q] = state[q]
    BY <1>6 DEF Read, Inv, TypeOK
  <2>3. CASE GoTo(r, "plan") /\ UNCHANGED <<op, fn>>
    BY <2>1, <2>2, <2>3, Ends DEF LeavesAlone, GoTo, Inv, TypeOK
  <2>4. CASE Return(r)
    BY <2>1, <2>2, <2>4, Ends, Returns DEF LeavesAlone
  <2> QED
    BY <1>6, <2>3, <2>4 DEF Read
<1>7. CASE Fail(r)
  BY <1>7, Ends, Returns DEF Fail, LeavesAlone
<1> QED
  BY <1>1, <1>2, <1>3, <1>4, <1>5, <1>6, <1>7 DEF Step

\* Every step keeps the rows as they are said to be.
LEMMA RowsStep == Inv /\ RowsInv /\ [Next]_vars => RowsInv'
<1> SUFFICES ASSUME Inv, RowsInv, [Next]_vars PROVE RowsInv'
  OBVIOUS
<1>1. ASSUME NEW r \in Resources, Refresh(r) \/ Plan(r) \/ TakeLock(r) PROVE RowsInv'
  <2>1. UNCHANGED server /\ UNCHANGED state
    BY <1>1 DEF Refresh, Plan, TakeLock
  <2>2. pc'[r] # "commit"
    <3>1. CASE Refresh(r)
      BY <3>1 DEF Refresh, GoTo, Begin, First, Inv, TypeOK
    <3>2. CASE Plan(r)
      BY <3>2 DEF Plan, Return, GoTo, Begin, First, Inv, TypeOK
    <3>3. CASE TakeLock(r)
      BY <3>3 DEF TakeLock, GoTo, First, Inv, TypeOK
    <3> QED
      BY <1>1, <3>1, <3>2, <3>3
  <2>3. LeavesAlone(r)
    BY <1>1, ActsAlone DEF Step
  <2> QED
    BY <2>1, <2>2, <2>3, NoRows
<1>2. ASSUME NEW r \in Resources, Revoke(r) PROVE RowsInv'
  <2> DEFINE rows == View(r) \ (RevokedRows(r) \X {target[r].role} \X RevokedPrivileges(r))
             next == IF op[r] = "delete" \/ config[r] = {} THEN "commit" ELSE "grant"
  <2>1. /\ Write(r, rows) /\ LeavesAlone(r) /\ pc[r] = "revoke" /\ GoTo(r, next)
        /\ UNCHANGED <<target, config, op, state>>
    BY <1>2, ActsAlone DEF Revoke, inputs, Step
  <2>2. \A t \in View(r) : t[2] # target[r].role => t \in rows
    OBVIOUS
  <2>3. pc'[r] = "commit" /\ op[r] = "update" => Expand(config[r]) = {}
    BY <2>1 DEF GoTo, Inv, TypeOK, Expand
  <2>4. \A t \in rows : t \in View(r)
    OBVIOUS
  <2> HIDE DEF rows, next
  <2> QED
    BY <2>1, <2>2, <2>3, <2>4, WriteRows
<1>3. ASSUME NEW r \in Resources, Grant(r) PROVE RowsInv'
  <2> DEFINE granted == Granted(r) \X {target[r].role} \X Expand(config[r])
             rows == View(r) \cup granted
  <2>1. /\ Write(r, rows) /\ LeavesAlone(r) /\ pc[r] = "grant"
        /\ UNCHANGED <<target, config, op, state>>
    BY <1>3, ActsAlone DEF Grant, inputs, Step
  <2>2. \A t \in granted : t[1] \in Granted(r)
    OBVIOUS
  <2>3. \A t \in acl : t[1] \in Granted(r) /\ t[2] = target[r].role /\ t[3] \in Expand(config[r])
                         => t \in granted
    BY DEF Inv, TypeOK
  <2> HIDE DEF granted
  <2>4. /\ \A t \in rows : t \in View(r) \/ t[1] \in Granted(r)
        /\ \A t \in View(r) : t \in rows
        /\ granted \subseteq rows
    BY <2>2
  <2> HIDE DEF rows
  <2> QED
    BY <2>1, <2>3, <2>4, WriteRows
<1>4. ASSUME NEW r \in Resources, Commit(r) PROVE RowsInv'
  <2>1. EndTransaction(r) /\ LeavesAlone(r) /\ acl' = View(r)
    BY <1>4, ActsAlone DEF Commit, Step
  <2>2. state'[r] \in {state[r], Absent}
    BY <1>4 DEF Commit, Inv, TypeOK
  <2> QED
    BY <2>1, <2>2, EndRows DEF RowsInv, Rows
<1>5. ASSUME NEW r \in Resources, Read(r) PROVE RowsInv'
  <2>1. EndTransaction(r) /\ LeavesAlone(r) /\ acl' = acl
    BY <1>5, ActsAlone DEF Read, Step
  <2>2. op[r] = "refresh" => state[r].objects \subseteq target[r].objects
    BY <1>5 DEF Read, Inv, Flow, RowsInv, Rows
  <2>3. ReadColumns(r) \subseteq target[r].objects
    BY <2>2 DEF ReadColumns
  <2>4. \/ state'[r] \in {state[r], Absent}
        \/ state'[r].objects = ReadColumns(r)
    BY <1>5 DEF Read, Inv, TypeOK
  <2> QED
    BY <2>1, <2>3, <2>4, EndRows DEF RowsInv, Rows
<1>6. ASSUME NEW r \in Resources, Fail(r) PROVE RowsInv'
  <2>1. EndTransaction(r) /\ LeavesAlone(r) /\ acl' = acl /\ state' = state
    BY <1>6, ActsAlone DEF Fail
  <2> QED
    BY <2>1, EndRows DEF RowsInv, Rows
<1>7. ASSUME NEW r \in Resources, Edit(r) PROVE RowsInv'
  <2>1. UNCHANGED <<server, target, state, op, pc>> /\ \A q \in Resources : pc[q] = "idle"
    BY <1>7 DEF Edit
  <2>2. Placed'
    BY <2>1 DEF RowsInv, Placed, server
  <2>3. \A q \in Resources : Scope(q)' = Scope(q) /\ Granted(q)' = Granted(q)
    BY <2>1 DEF Scope, Granted, server
  <2> QED
    BY <2>1, <2>2, <2>3 DEF RowsInv, Rows, server
<1>8. CASE UNCHANGED vars
  <2>1. UNCHANGED <<acl, present, dirty, mine, target, config, state, op, pc>>
    BY <1>8 DEF vars, server, inputs
  <2>2. Placed'
    BY <2>1 DEF RowsInv, Placed
  <2>3. \A q \in Resources : Scope(q)' = Scope(q) /\ Granted(q)' = Granted(q)
    BY <2>1 DEF Scope, Granted
  <2>4. \A q \in Resources : Rows(q)'
    BY <2>1, <2>3 DEF RowsInv, Rows
  <2> QED
    BY <2>2, <2>4 DEF RowsInv
<1> QED
  BY <1>1, <1>2, <1>3, <1>4, <1>5, <1>6, <1>7, <1>8, DriftRows
     DEF Next, Step, StatementFails, DeadlockError

\* Resources of one grantee that may be about the same object have a lock in common.
\* A role has one lock (helpers.go:520), PUBLIC has none: of two resources of
\* PUBLIC for the same object each takes the privileges of the other away.
Governed ==
    \A r, q \in Resources : r # q /\ target[r].role = target[q].role =>
        \/ RoleKeys(r) \cap RoleKeys(q) # {}
        \/ target[r].type = "database" /\ target[q].type = "database"
        \/ Scope(r) \cap WithColumns(Scope(q)) = {}

\* An update takes no configured privilege away between its revoke and its grant
\* (resource_grant_fw.go:302-304), nor does another resource meanwhile.
THEOREM NoGap == Spec /\ Governed => NoPrivilegeGap
<1> DEFINE Kept ==
        drifts' = drifts =>
          \A t \in acl \ acl', r \in Resources :
             InUpdate(r) /\ t[1] \in Granted(r) /\ t[2] = target[r].role =>
                 t[3] \notin Expand(config[r])
           I == Inv /\ RowsInv /\ Governed
<1>1. Init => RowsInv
  <2> SUFFICES ASSUME Init PROVE RowsInv
    OBVIOUS
  <2>1. Placed
    BY DEF Init, Placed
  <2>2. \A r \in Resources : Rows(r)
    BY DEF Init, Rows
  <2> QED
    BY <2>1, <2>2 DEF RowsInv
<1>2. Governed /\ [Next]_vars => Governed'
  <2> SUFFICES ASSUME Governed, [Next]_vars PROVE Governed'
    OBVIOUS
  <2>1. target' = target
    BY DEF Next, Step, StatementFails, DeadlockError, Fail, Refresh, Plan, TakeLock, Revoke, Grant,
       Commit, Read, Edit, Drift, vars, inputs
  <2>2. \A r : RoleKeys(r)' = RoleKeys(r) /\ Scope(r)' = Scope(r)
    BY <2>1 DEF RoleKeys, Scope
  <2> QED
    BY <2>1, <2>2 DEF Governed, WithColumns
<1>3. ASSUME I, [Next]_vars, drifts' = drifts, NEW t \in acl \ acl', NEW r \in Resources,
             InUpdate(r), t[1] \in Granted(r), t[2] = target[r].role
      PROVE  t[3] \notin Expand(config[r])
  <2>1. PICK q \in Resources : Commit(q)
    <3>1. ~Drift
      BY <1>3 DEF Drift, I, Inv, TypeOK
    <3> QED
      BY <1>3, <3>1 DEF Next, Step, StatementFails, DeadlockError, Fail, Refresh, Plan, TakeLock,
         Revoke, Grant, Read, Edit, Write, vars, server
  <2>2. t[1] \in dirty[q] /\ t \notin mine[q] /\ pc[q] = "commit"
    BY <1>3, <2>1 DEF Commit, View
  <2>3. t[2] = target[q].role
    BY <1>3, <2>2 DEF RowsInv, Rows
  <2>4. CASE q = r
    BY <1>3, <2>2, <2>4 DEF RowsInv, Rows, InUpdate
  <2>5. CASE q # r
    <3>1. t[1] \in WithColumns(Scope(q)) /\ t[1] \in Scope(r)
      BY <1>3, <2>2, GrantedScope DEF RowsInv, Rows
    <3>2. \/ RoleKeys(r) \cap RoleKeys(q) # {}
          \/ target[r].type = "database" /\ target[q].type = "database"
      BY <1>3, <2>3, <2>5, <3>1 DEF Governed
    <3>3. pc[r] \in InTransaction /\ pc[q] \in InTransaction
      BY <1>3, <2>2 DEF InUpdate, InTransaction
    <3>4. fn[r] = "apply" /\ fn[q] = "apply"
      BY <1>3, <3>3 DEF Inv, Flow
    <3>5. PICK k : k \in LockKeys(r) /\ k \in LockKeys(q)
      BY <3>2, <3>4 DEF LockKeys, DatabaseKeys
    <3> QED
      BY <1>3, <2>5, <3>3, <3>5 DEF Inv, Locked
  <2> QED
    BY <2>4, <2>5
<1>4. I /\ [Next]_vars => Kept
  BY <1>3
<1>5. I /\ [Next]_vars => I'
  BY <1>2, NextStep, RowsStep
<1>6. Init /\ Governed => I
  BY <1>1, Initially
<1>7. I /\ [Next]_vars => [Kept]_vars
  BY <1>4
<1> HIDE DEF I, Kept
<1>8. Init /\ Governed /\ [][Next]_vars => [][Kept]_vars
  BY <1>5, <1>6, <1>7, PTL
<1> QED
  BY <1>8 DEF Spec, NoPrivilegeGap, Kept
=============================================================================
