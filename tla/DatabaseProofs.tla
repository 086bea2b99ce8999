--------------------------- MODULE DatabaseProofs ---------------------------
(***************************************************************************)
(* Proofs about DatabaseResource, for any resources, databases, plans and  *)
(* limits.                                                                 *)
(***************************************************************************)
EXTENDS DatabaseResource, TLAPS

\* The labels of a function that borrows, before its first statement.
Opening == {"startTransaction", "pgLockRole", "getDatabaseOwner", "isMember", "grant"}

\* What each label says of the operation's own variables.
Flow(o) ==
    /\ pc[o] # "idle" => plan[o] \in Database
    /\ pc[o] \in Setters \cup {"rename"} => prior[o] \in Database
    /\ pc[o] # "idle" /\ fn[o] \in Setters => prior[o] \in Database
    /\ pc[o] \in Opening =>
          fn[o] \in {"createDatabase", "deleteDatabase", "setAlterOwnership", "setDBOwner"}
    /\ pc[o] = "grant" => target[o] \in Owners
    /\ pc[o] \in Statements \cup {"commitReassign", "isStillMember", "return"} =>
          fn[o] \in Functions

TypeInv == TypeOK /\ \A o \in Resources : Flow(o)

\* The labels between the grant of a borrowed role and the end of its function.
Borrowing == {"create", "untemplate", "block", "drop", "alterOwner", "reassign",
              "commitReassign", "isStillMember", "revoke", "return"}

\* A role is borrowed only when the user did not have it for good, and each role
\* it has beyond its own has a borrower whose revoke is still to come.
BorrowInv ==
    /\ InitialRoles \subseteq memberOf
    /\ \A r \in memberOf \ InitialRoles :
         \E o \in Resources : granted[o] /\ target[o] = r /\ pc[o] # "return"
    /\ \A o \in Resources :
         /\ pc[o] = "grant" => target[o] \notin InitialRoles
         /\ granted[o] => target[o] \notin InitialRoles /\ pc[o] \in Borrowing
         /\ pc[o] \in {"isStillMember", "revoke"} => granted[o]

-----------------------------------------------------------------------------
(* Type correctness. *)

\* Nothing runs at first, and the types hold.
LEMMA InitTyped == Init => TypeInv
  BY DatabaseAssumption, MaxRuns \in Nat, 0 \in 0 .. MaxRuns
  DEF Init, TypeInv, TypeOK, Flow, PC, Setters, Functions, Opening, Statements, Foreign

\* What a configuration asks for are databases.
LEMMA PlansTyped == TypeOK => Plans \subseteq Database
  BY DatabaseAssumption DEF TypeOK, Plans

\* What is read back is a database of the plan's name.
LEMMA ReadTyped ==
  ASSUME TypeOK, NEW o \in Resources, NEW wanted \in Database, ReadInto(o, wanted)
  PROVE  tracked' \in [Resources -> Database \cup {Absent}]
<1>1. wanted.name \in Names
  BY DEF Database
<1>2. CASE owner[wanted.name] = Absent
  BY <1>2 DEF ReadInto, TypeOK
<1>3. CASE owner[wanted.name] # Absent
  <2>1. owner[wanted.name] \in Owners \cup {Admin}
    BY <1>1, <1>3 DEF TypeOK
  <2>2. /\ (wanted.name \in open) \in BOOLEAN /\ (wanted.name \in template) \in BOOLEAN
        /\ wanted.alter \in BOOLEAN
    BY DEF Database
  <2>3. [name |-> wanted.name, owner |-> owner[wanted.name], open |-> wanted.name \in open,
         template |-> wanted.name \in template, alter |-> wanted.alter] \in Database
    BY <1>1, <2>1, <2>2, Zenon DEF Database
  <2>4. QED
    BY <1>3, <2>3 DEF ReadInto, TypeOK
<1>4. QED
  BY <1>2, <1>3

\* Where the functions lead is a label, and Flow holds there.
LEMMA FollowingTyped ==
  ASSUME NEW f \in Functions
  PROVE  /\ Following(f) \in Setters \cup {"read", "idle"}
         /\ Following(f) \in Setters => f \in Setters
  BY DEF Functions, Setters, Following

\* The statement a Go function begins with.
LEMMA FirstTyped ==
  ASSUME NEW o \in Resources,
         fn[o] \in {"createDatabase", "deleteDatabase", "setAlterOwnership", "setDBOwner"}
  PROVE  FirstStatement(o) \in {"create", "untemplate", "block", "alterOwner", "reassign"}
  BY DEF FirstStatement

\* A step of an operation changes the control variables of no other.
OthersKept(o) ==
    \A u \in Resources \ {o} :
        /\ pc'[u] = pc[u] /\ fn'[u] = fn[u] /\ target'[u] = target[u]
        /\ plan'[u] = plan[u] /\ prior'[u] = prior[u]
        /\ granted'[u] = granted[u]

\* An operation begins with the arguments its statements need.
LEMMA StartTyped ==
  ASSUME TypeInv, NEW o \in Resources, StartCreate(o) \/ StartUpdate(o) \/ StartDelete(o)
  PROVE  TypeOK' /\ Flow(o)' /\ OthersKept(o)
<1>1. TypeOK
  BY DEF TypeInv
<1>2. runs[o] + 1 \in 0 .. MaxRuns
  BY <1>1, DatabaseAssumption DEF TypeOK, StartCreate, StartUpdate, StartDelete, Begin
<1> USE <1>1, <1>2, DatabaseAssumption, PlansTyped
    DEF TypeOK, Begin, GoTo, Flow, OthersKept, PC, Setters, Functions, Opening, Statements,
        pgDatabase, locks
<1>3. CASE StartCreate(o)
  <2>1. PICK p \in Plans, hasOwner \in BOOLEAN :
          /\ Begin(o, "create", p, Absent)
          /\ fn' = [fn EXCEPT ![o] = "createDatabase"]
          /\ target' = [target EXCEPT ![o] = p.owner]
          /\ GoTo(o, IF hasOwner THEN "startTransaction" ELSE "create")
    BY <1>3 DEF StartCreate
  <2>2. p \in Database /\ p.owner \in Owners \cup {Admin}
    BY DEF Database
  <2>3. QED
    BY <2>1, <2>2
<1>4. CASE StartUpdate(o)
  <2>1. PICK p \in Plans : tracked[o] # Absent /\ Begin(o, "update", p, tracked[o])
                            /\ GoTo(o, "setDBName") /\ UNCHANGED <<fn, target>>
    BY <1>4 DEF StartUpdate
  <2>2. p \in Database /\ tracked[o] \in Database
    BY <2>1
  <2>3. QED
    BY <2>1, <2>2
<1>5. CASE StartDelete(o)
  <2>1. tracked[o] \in Database /\ tracked[o].owner \in Owners \cup {Admin}
    BY <1>5 DEF StartDelete, Database
  <2>2. QED
    BY <1>5, <2>1 DEF StartDelete
<1>6. QED
  BY <1>3, <1>4, <1>5

\* The setters of Update follow each other, or open a function.
LEMMA SetterTyped ==
  ASSUME TypeInv, NEW o \in Resources, Setter(o)
  PROVE  TypeOK' /\ Flow(o)' /\ OthersKept(o)
<1>1. TypeOK /\ Flow(o) /\ pc[o] \in Setters /\ pc[o] \in Functions
  BY DEF TypeInv, Setter, Functions
<1>2. plan[o] \in Database /\ prior[o] \in Database /\ plan[o].owner \in Owners \cup {Admin}
  BY <1>1 DEF Flow, Setters, Database
<1>3. Following(pc[o]) \in Setters \cup {"read"}
  BY <1>1 DEF Setters, Following
<1> USE <1>1, <1>2
    DEF TypeOK, GoTo, Flow, OthersKept, PC, Setters, Functions, Opening, Statements,
        pgDatabase, locks, args
<1>4. CASE Wanted(o, pc[o])
  BY <1>4 DEF Setter
<1>5. CASE ~Wanted(o, pc[o])
  BY <1>3, <1>5 DEF Setter
<1>6. QED
  BY <1>4, <1>5

\* The statements that take the lock and lend the owner's role.
LEMMA BorrowTyped ==
  ASSUME TypeInv, NEW o \in Resources,
         \/ StartTransaction(o) \/ PgLockRole(o) \/ PgLockRoleFails(o)
         \/ GetDatabaseOwner(o) \/ IsMember(o) \/ Grant(o) \/ GrantFails(o)
  PROVE  TypeOK' /\ Flow(o)'
<1>1. TypeOK /\ Flow(o)
  BY DEF TypeInv
<1>2. pc[o] \in Opening
  BY DEF StartTransaction, PgLockRole, PgLockRoleFails, GetDatabaseOwner, IsMember, Grant,
         GrantFails, Runs, Opening
<1>3. FirstStatement(o) \in {"create", "untemplate", "block", "alterOwner", "reassign"}
  BY <1>1, <1>2, FirstTyped DEF Flow
<1>4. plan[o] \in Database /\ Name(o) \in Names
      /\ fn[o] \in {"createDatabase", "deleteDatabase", "setAlterOwnership", "setDBOwner"}
  BY <1>1, <1>2 DEF Flow, Opening, Database, Name
<1> USE <1>1, <1>4
    DEF TypeOK, GoTo, SetErr, Flow, PC, Setters, Functions, Opening, Statements,
        pgDatabase, locks, args
<1>5. CASE StartTransaction(o)
  BY <1>5 DEF StartTransaction
<1>6. CASE PgLockRole(o)
  BY <1>6 DEF PgLockRole
<1>7. CASE PgLockRoleFails(o)
  BY <1>7 DEF PgLockRoleFails
<1>8. CASE GetDatabaseOwner(o)
  <2>1. owner[Name(o)] \in Owners \cup {Admin, Absent}
    OBVIOUS
  <2>2. CASE owner[Name(o)] \in {Absent, plan[o].owner}
    BY <1>8, <2>2 DEF GetDatabaseOwner
  <2>3. CASE owner[Name(o)] \notin {Absent, plan[o].owner}
    BY <1>8, <2>1, <2>3 DEF GetDatabaseOwner
  <2>4. QED
    BY <2>2, <2>3
<1>9. CASE IsMember(o)
  BY <1>3, <1>9 DEF IsMember
<1>10. CASE Grant(o)
  <2>1. memberOf' = memberOf \cup {target[o]} /\ target[o] \in Owners
    BY <1>10 DEF Grant, Runs
  <2>2. QED
    BY <1>3, <1>10, <2>1 DEF Grant, Runs
<1>11. CASE GrantFails(o)
  BY <1>11 DEF GrantFails, Runs
<1>12. QED
  BY <1>5, <1>6, <1>7, <1>8, <1>9, <1>10, <1>11

\* The statements on the database itself.
LEMMA StatementTyped ==
  ASSUME TypeInv, NEW o \in Resources,
         \/ Create(o) \/ Untemplate(o) \/ Block(o) \/ Drop(o)
         \/ AlterOwner(o) \/ Reassign(o) \/ CommitReassign(o)
         \/ Rename(o) \/ AllowConns(o) \/ IsTemplate(o) \/ StatementFails(o)
  PROVE  TypeOK' /\ Flow(o)'
<1>1. TypeOK /\ Flow(o)
  BY DEF TypeInv
<1>2. pc[o] \in Statements \cup {"commitReassign"}
  BY DEF Create, Untemplate, Block, Drop, AlterOwner, Reassign, CommitReassign, Rename,
         AllowConns, IsTemplate, StatementFails, Executes, Runs, Statements
<1>3. plan[o] \in Database /\ Name(o) \in Names /\ plan[o].owner \in Owners \cup {Admin}
      /\ fn[o] \in Functions
  BY <1>1, <1>2 DEF Flow, Statements, Database, Name
<1> USE <1>1, <1>2, <1>3
    DEF TypeOK, GoTo, Defers, Flow, PC, Setters, Functions, Opening, Statements,
        pgDatabase, locks, args
<1>4. CASE Create(o) \/ AlterOwner(o)
  BY <1>4 DEF Create, AlterOwner, Executes, Runs
<1>5. CASE Untemplate(o) \/ Block(o) \/ AllowConns(o) \/ IsTemplate(o)
  BY <1>5 DEF Untemplate, Block, AllowConns, IsTemplate, Executes, Runs
<1>6. CASE Drop(o) \/ Reassign(o)
  BY <1>6 DEF Drop, Reassign, Executes, Runs
<1>7. CASE CommitReassign(o)
  BY <1>7 DEF CommitReassign
<1>8. CASE Rename(o)
  <2>1. prior[o].name \in Names
    BY <1>8 DEF Rename, Executes, Runs, Database
  <2>2. owner[prior[o].name] \in Owners \cup {Admin, Absent}
    BY <2>1
  <2>3. QED
    BY <1>8, <2>1, <2>2 DEF Rename, Executes, Runs
<1>9. CASE StatementFails(o)
  BY <1>9 DEF StatementFails, Runs, SetErr
<1>10. QED
  BY <1>4, <1>5, <1>6, <1>7, <1>8, <1>9

\* The deferred revoke, the return and the reading back.
LEMMA ReturnTyped ==
  ASSUME TypeInv, NEW o \in Resources,
         IsStillMember(o) \/ Revoke(o) \/ RevokeFails(o) \/ Return(o) \/ Read(o) \/ Refresh(o)
  PROVE  TypeOK' /\ Flow(o)'
<1>1. TypeOK /\ Flow(o)
  BY DEF TypeInv
<1> USE <1>1
    DEF TypeOK, GoTo, SetErr, Flow, PC, Setters, Functions, Opening, Statements,
        pgDatabase, locks, args
<1>2. CASE IsStillMember(o)
  <2>1. CASE target[o] \in memberOf
    BY <1>2, <2>1 DEF IsStillMember
  <2>2. CASE target[o] \notin memberOf
    BY <1>2, <2>2 DEF IsStillMember
  <2>3. QED
    BY <2>1, <2>2
<1>3. CASE Revoke(o)
  BY <1>3 DEF Revoke, Runs
<1>4. CASE RevokeFails(o)
  BY <1>4 DEF RevokeFails, Runs
<1>5. CASE Return(o)
  <2>1. Following(fn[o]) \in Setters \cup {"read", "idle"}
        /\ (Following(fn[o]) \in Setters => fn[o] \in Setters)
    BY <1>5, FollowingTyped DEF Return
  <2>2. QED
    BY <1>5, <2>1 DEF Return
<1>6. CASE Read(o)
  <2>1. tracked' \in [Resources -> Database \cup {Absent}]
    BY <1>6, ReadTyped DEF Read
  <2>2. QED
    BY <1>6, <2>1 DEF Read
<1>7. CASE Refresh(o)
  <2>1. tracked' \in [Resources -> Database \cup {Absent}]
    BY <1>7, ReadTyped DEF Refresh
  <2>2. QED
    BY <1>7, <2>1 DEF Refresh
<1>8. QED
  BY <1>2, <1>3, <1>4, <1>5, <1>6, <1>7

\* A step of an operation leaves the others where they are.
LEMMA StepKeepsOthers ==
  ASSUME TypeInv, NEW o \in Resources, Step(o) \/ Refresh(o)
  PROVE  OthersKept(o)
<1>1. TypeOK
  BY DEF TypeInv
<1> USE <1>1 DEF OthersKept, TypeOK, GoTo, Defers, args
<1>2. ASSUME \/ Setter(o) \/ StartTransaction(o) \/ PgLockRole(o) \/ PgLockRoleFails(o)
             \/ GetDatabaseOwner(o) \/ IsMember(o) \/ Grant(o) \/ GrantFails(o)
      PROVE  OthersKept(o)
  BY <1>2 DEF Setter, StartTransaction, PgLockRole, PgLockRoleFails, GetDatabaseOwner,
     IsMember, Grant, GrantFails
<1>3. ASSUME \/ Create(o) \/ Untemplate(o) \/ Block(o) \/ Drop(o)
             \/ AlterOwner(o) \/ Reassign(o) \/ CommitReassign(o)
             \/ Rename(o) \/ AllowConns(o) \/ IsTemplate(o) \/ StatementFails(o)
      PROVE  OthersKept(o)
  BY <1>3 DEF Create, Untemplate, Block, Drop, AlterOwner, Reassign, CommitReassign, Rename,
     AllowConns, IsTemplate, StatementFails
<1>4. ASSUME IsStillMember(o) \/ Revoke(o) \/ RevokeFails(o) \/ Return(o) \/ Read(o) \/ Refresh(o)
      PROVE  OthersKept(o)
  BY <1>4 DEF IsStillMember, Revoke, RevokeFails, Return, Read, Refresh
<1>5. QED
  BY <1>2, <1>3, <1>4 DEF Step

\* Type correctness, with what the labels say.
THEOREM TypeInvariance == Spec => []TypeInv
<1>1. Init => TypeInv
  BY InitTyped
<1>2. TypeInv /\ [Next]_vars => TypeInv'
  <2> SUFFICES ASSUME TypeInv, [Next]_vars PROVE TypeInv'
    OBVIOUS
  <2>1. ASSUME NEW o \in Resources,
               StartCreate(o) \/ StartUpdate(o) \/ StartDelete(o) \/ Step(o) \/ Refresh(o)
        PROVE  TypeInv'
    <3>1. TypeOK' /\ Flow(o)'
      BY <2>1, StartTyped, SetterTyped, BorrowTyped, StatementTyped, ReturnTyped DEF Step
    <3>2. OthersKept(o)
      BY <2>1, StartTyped, StepKeepsOthers
    <3>3. ASSUME NEW u \in Resources \ {o} PROVE Flow(u)'
      BY <3>2 DEF TypeInv, Flow, OthersKept
    <3>4. QED
      BY <3>1, <3>3 DEF TypeInv
  <2>2. CASE UNCHANGED vars
    BY <2>2 DEF vars, pgDatabase, locks, args, TypeInv, TypeOK, Flow
  <2>3. QED
    BY <2>1, <2>2 DEF Next, Done
<1>3. QED
  BY <1>1, <1>2, PTL DEF Spec

\* TypeOK holds throughout: no operation of a database gets a value it cannot have.
THEOREM TypeCorrect == Spec => []TypeOK
<1>1. TypeInv => TypeOK
  BY DEF TypeInv
<1>2. QED
  BY <1>1, TypeInvariance, PTL

-----------------------------------------------------------------------------
(* What is borrowed is given back. *)

\* What Terraform meets stays.
LEMMA ScenarioStays == [Next]_vars => scenario' = scenario
<1>1. ASSUME NEW o \in Resources,
             StartCreate(o) \/ StartUpdate(o) \/ StartDelete(o) \/ Step(o) \/ Refresh(o)
      PROVE  scenario' = scenario
  BY <1>1
  DEF Step, StartCreate, StartUpdate, StartDelete, Begin, Setter, StartTransaction,
     PgLockRole, PgLockRoleFails, GetDatabaseOwner, IsMember, Grant, GrantFails, Create,
     Untemplate, Block, Drop, AlterOwner, Reassign, CommitReassign, Rename, AllowConns,
     IsTemplate, StatementFails, IsStillMember, Revoke, RevokeFails, Return, Read, Refresh,
     args
<1>2. QED
  BY <1>1 DEF Next, Done, vars, args

\* Steps that change no membership and no granted flag.
LEMMA BorrowFrame ==
  ASSUME BorrowInv, NEW o \in Resources, OthersKept(o),
         memberOf' = memberOf, granted'[o] = granted[o],
         granted[o] => /\ target'[o] = target[o]
                       /\ pc'[o] \in Borrowing \ {"return"},
         pc'[o] = "grant" => target'[o] \notin InitialRoles,
         pc'[o] \in {"isStillMember", "revoke"} => granted[o]
  PROVE  BorrowInv'
<1>1. ASSUME NEW r \in memberOf' \ InitialRoles
      PROVE  \E u \in Resources : granted'[u] /\ target'[u] = r /\ pc'[u] # "return"
  <2>1. PICK u \in Resources : granted[u] /\ target[u] = r /\ pc[u] # "return"
    BY DEF BorrowInv
  <2>2. CASE u = o
    BY <2>1, <2>2
  <2>3. CASE u # o
    BY <2>1, <2>3 DEF OthersKept
  <2>4. QED
    BY <2>2, <2>3
<1>2. QED
  BY <1>1 DEF BorrowInv, OthersKept

\* Each role that is lent has one operation that will give it back, whatever fails but the revoke.
LEMMA BorrowStep ==
  ASSUME TypeInv, BorrowInv, "revoke" \notin MayFail, NEW o \in Resources,
         StartCreate(o) \/ StartUpdate(o) \/ StartDelete(o) \/ Step(o) \/ Refresh(o)
  PROVE  BorrowInv'
<1>1. TypeOK /\ Flow(o)
  BY DEF TypeInv
<1>2. OthersKept(o)
  BY StartTyped, StepKeepsOthers
<1>3. /\ InitialRoles \subseteq memberOf
      /\ granted[o] => target[o] \notin InitialRoles /\ pc[o] \in Borrowing
  BY DEF BorrowInv
<1>4. ASSUME \/ StartCreate(o) \/ StartUpdate(o) \/ StartDelete(o) \/ Setter(o)
             \/ StartTransaction(o) \/ PgLockRole(o) \/ PgLockRoleFails(o)
             \/ GetDatabaseOwner(o) \/ GrantFails(o) \/ Read(o) \/ Refresh(o)
      PROVE  BorrowInv'
  <2>1. /\ pc[o] \notin Borrowing
        /\ memberOf' = memberOf /\ granted' = granted
        /\ pc'[o] \notin {"grant", "isStillMember", "revoke"}
    <3>1. CASE StartCreate(o) \/ StartUpdate(o) \/ StartDelete(o)
      BY <3>1, <1>1 DEF StartCreate, StartUpdate, StartDelete, Begin, GoTo, Borrowing, TypeOK
    <3>2. CASE Setter(o)
      BY <3>2, <1>1 DEF Setter, Following, GoTo, Borrowing, Setters, TypeOK
    <3>3. CASE \/ StartTransaction(o) \/ PgLockRole(o) \/ PgLockRoleFails(o)
               \/ GetDatabaseOwner(o) \/ GrantFails(o) \/ Read(o) \/ Refresh(o)
      BY <3>3, <1>1 DEF StartTransaction, PgLockRole, PgLockRoleFails, GetDatabaseOwner,
         GrantFails, Runs, Read, Refresh, GoTo, Borrowing, TypeOK
    <3>4. QED
      BY <1>4, <3>1, <3>2, <3>3
  <2>2. QED
    BY <1>2, <1>3, <2>1, BorrowFrame
<1>5. CASE IsMember(o)
  <2>1. /\ pc[o] \notin Borrowing
        /\ memberOf' = memberOf /\ granted' = granted /\ target' = target
        /\ pc'[o] \notin {"isStillMember", "revoke"}
        /\ pc'[o] = "grant" => target[o] \notin memberOf
    BY <1>1, <1>5, FirstTyped DEF IsMember, GoTo, Flow, Opening, Borrowing, TypeOK
  <2>2. QED
    BY <1>2, <1>3, <2>1, BorrowFrame
<1>6. CASE Grant(o)
  <2>1. /\ memberOf' = memberOf \cup {target[o]} /\ granted'[o] /\ target'[o] = target[o]
        /\ target[o] \notin InitialRoles
        /\ pc'[o] \in Borrowing \ {"return", "grant", "isStillMember", "revoke"}
    BY <1>1, <1>6, FirstTyped
    DEF Grant, Runs, GoTo, Flow, Opening, Borrowing, TypeOK, BorrowInv
  <2>2. ASSUME NEW r \in memberOf' \ InitialRoles
        PROVE  \E u \in Resources : granted'[u] /\ target'[u] = r /\ pc'[u] # "return"
    <3>1. CASE r = target[o]
      BY <3>1, <2>1
    <3>2. CASE r # target[o]
      <4>1. PICK u \in Resources : granted[u] /\ target[u] = r /\ pc[u] # "return"
        BY <2>1, <3>2 DEF BorrowInv
      <4>2. QED
        BY <1>2, <3>2, <4>1 DEF OthersKept
    <3>3. QED
      BY <3>1, <3>2
  <2>3. QED
    BY <1>2, <2>1, <2>2 DEF BorrowInv, OthersKept
<1>7. CASE \/ Create(o) \/ Untemplate(o) \/ Block(o) \/ Drop(o)
           \/ AlterOwner(o) \/ Reassign(o) \/ CommitReassign(o)
           \/ Rename(o) \/ AllowConns(o) \/ IsTemplate(o) \/ StatementFails(o)
  <2>1. /\ memberOf' = memberOf /\ granted' = granted /\ target' = target
        /\ granted[o] => pc'[o] \in Borrowing \ {"return"}
        /\ pc'[o] \notin {"grant", "revoke"}
        /\ pc'[o] = "isStillMember" => granted[o]
    BY <1>1, <1>7, ZenonT(60)
    DEF Create, Untemplate, Block, Drop, AlterOwner, Reassign, CommitReassign, Rename,
        AllowConns, IsTemplate, StatementFails, Defers, GoTo, Borrowing, TypeOK
  <2>2. QED
    BY <1>2, <1>3, <2>1, BorrowFrame
<1>8. CASE IsStillMember(o)
  <2>1. memberOf' = memberOf /\ granted' = granted /\ target' = target
    BY <1>8 DEF IsStillMember
  <2>2. CASE target[o] \in memberOf /\ granted[o]
    BY <1>1, <1>2, <1>3, <1>8, <2>1, <2>2, BorrowFrame DEF IsStillMember, GoTo, Borrowing, TypeOK
  <2>3. CASE target[o] \notin memberOf
    <3>1. pc'[o] = "return"
      BY <1>1, <1>8, <2>3 DEF IsStillMember, GoTo, TypeOK
    <3>2. QED
      BY <1>2, <1>3, <2>1, <2>3, <3>1 DEF BorrowInv, OthersKept, Borrowing
  <2>4. QED
    BY <1>8, <2>2, <2>3 DEF BorrowInv, IsStillMember
<1>9. CASE Revoke(o)
  <2>1. /\ memberOf' = memberOf \ {target[o]} /\ granted' = granted /\ target' = target
        /\ pc'[o] = "return" /\ granted[o] /\ target[o] \notin InitialRoles
    BY <1>1, <1>9 DEF Revoke, Runs, GoTo, TypeOK, BorrowInv
  <2>2. ASSUME NEW r \in memberOf' \ InitialRoles
        PROVE  \E u \in Resources : granted'[u] /\ target'[u] = r /\ pc'[u] # "return"
    <3>1. PICK u \in Resources : granted[u] /\ target[u] = r /\ pc[u] # "return"
      BY <2>1 DEF BorrowInv
    <3>2. QED
      BY <1>2, <2>1, <3>1 DEF OthersKept
  <2>3. InitialRoles \subseteq memberOf'
    BY <1>3, <2>1
  <2>4. ASSUME NEW u \in Resources
        PROVE  /\ pc'[u] = "grant" => target'[u] \notin InitialRoles
               /\ granted'[u] => target'[u] \notin InitialRoles /\ pc'[u] \in Borrowing
               /\ pc'[u] \in {"isStillMember", "revoke"} => granted'[u]
    <3>1. CASE u = o
      BY <2>1, <3>1 DEF Borrowing
    <3>2. CASE u # o
      BY <1>2, <3>2 DEF BorrowInv, OthersKept
    <3>3. QED
      BY <3>1, <3>2
  <2>5. QED
    BY <2>2, <2>3, <2>4 DEF BorrowInv
<1>10. CASE Return(o)
  <2>1. /\ memberOf' = memberOf /\ ~granted'[o] /\ pc[o] = "return"
        /\ pc'[o] \notin {"grant", "isStillMember", "revoke"}
    BY <1>1, <1>10, FollowingTyped DEF Return, GoTo, Flow, TypeOK, Setters
  <2>2. QED
    BY <1>2, <2>1 DEF BorrowInv, OthersKept
<1>11. QED
  BY <1>4, <1>5, <1>6, <1>7, <1>8, <1>9, <1>10 DEF Step, RevokeFails

\* Unless a REVOKE itself fails, the user always has its own memberships, and
\* any other one is on loan to an operation that will revoke it.
THEOREM OnlyBorrowedHolds == Spec => []OnlyBorrowed
<1> DEFINE Inv == "revoke" \notin MayFail => BorrowInv
<1>1. Init => Inv
  BY DEF Init, BorrowInv
<1>2. TypeInv /\ Inv /\ [Next]_vars => Inv'
  <2> SUFFICES ASSUME TypeInv, Inv, [Next]_vars, "revoke" \notin MayFail' PROVE BorrowInv'
    OBVIOUS
  <2>1. "revoke" \notin MayFail /\ BorrowInv
    BY ScenarioStays DEF MayFail
  <2>2. CASE UNCHANGED vars
    BY <2>1, <2>2 DEF vars, args, BorrowInv
  <2>3. QED
    BY <2>1, <2>2, BorrowStep DEF Next, Done
<1>3. Inv => OnlyBorrowed
  BY DEF BorrowInv, OnlyBorrowed
<1>4. QED
  BY <1>1, <1>2, <1>3, TypeInvariance, PTL DEF Spec

-----------------------------------------------------------------------------
(* The lock keeps the owner's role while it is in use. *)

\* The labels at which an operation has the lock.
Locking == {"isMember", "grant", "untemplate", "block", "drop", "alterOwner",
            "isStillMember", "revoke"}

Using == {"create", "untemplate", "block", "drop", "alterOwner"}

\* Without setAlterOwnership, whoever uses or returns a role has the lock, and
\* the role stays while it is in use.
LockInv(o) ==
    /\ pc[o] # "idle" => ~plan[o].alter
    /\ tracked[o] # Absent => ~tracked[o].alter
    /\ fn[o] # "setAlterOwnership"
    /\ pc[o] \notin {"reassign", "commitReassign", "getDatabaseOwner"}
    /\ pc[o] \in Locking => lock = o
    /\ pc[o] = "create" /\ target[o] # Admin => lock = o
    /\ granted[o] /\ pc[o] # "return" => lock = o
    /\ pc[o] \in Using => target[o] \in memberOf \cup {Admin}

\* Between the lock and the return an operation holds what it uses (LockInv), by its own steps.
LEMMA LockStep ==
  ASSUME NoReassignment, TypeInv, NEW o \in Resources, LockInv(o),
         BorrowInv,
         StartCreate(o) \/ StartUpdate(o) \/ StartDelete(o) \/ Step(o) \/ Refresh(o)
  PROVE  LockInv(o)'
<1>1. TypeOK /\ Flow(o)
  BY DEF TypeInv
<1>2. /\ granted[o] => pc[o] \in Borrowing
      /\ pc[o] \in {"isStillMember", "revoke"} => granted[o]
  BY DEF BorrowInv
<1> USE <1>1 DEF TypeOK, LockInv, Locking, Using, GoTo
<1>3. CASE StartCreate(o) \/ StartDelete(o)
  BY <1>2, <1>3, PlansTyped, DatabaseAssumption
  DEF StartCreate, StartDelete, Begin, NoReassignment, Borrowing
<1>4. CASE StartUpdate(o)
  BY <1>2, <1>4, PlansTyped, DatabaseAssumption DEF StartUpdate, Begin, NoReassignment, Borrowing
<1>5. CASE Setter(o)
  <2>1. /\ pc[o] \in Setters /\ ~plan[o].alter /\ ~granted[o]
        /\ pc[o] = "setAlterOwnership" => ~Wanted(o, pc[o])
        /\ Following(pc[o]) \in Setters \cup {"read"}
    BY <1>2, <1>5 DEF Setter, Wanted, Following, Setters, Borrowing
  <2>2. CASE Wanted(o, pc[o])
    BY <1>5, <2>1, <2>2 DEF Setter, Setters, locks, args
  <2>3. CASE ~Wanted(o, pc[o])
    BY <1>5, <2>1, <2>3 DEF Setter, Setters, locks, args
  <2>4. QED
    BY <2>2, <2>3
<1>6. CASE StartTransaction(o) \/ PgLockRole(o) \/ PgLockRoleFails(o)
  BY <1>2, <1>6 DEF StartTransaction, PgLockRole, PgLockRoleFails, Borrowing, args
<1>7. CASE GetDatabaseOwner(o) \/ Reassign(o) \/ CommitReassign(o)
  BY <1>7 DEF GetDatabaseOwner, Reassign, CommitReassign, Executes, Runs
<1>8. CASE IsMember(o)
  BY <1>2, <1>8, FirstTyped DEF IsMember, Flow, Opening, FirstStatement, Borrowing, locks, args
<1>9. CASE Grant(o) \/ GrantFails(o)
  BY <1>2, <1>9, FirstTyped
  DEF Grant, GrantFails, Runs, Flow, Opening, FirstStatement, Borrowing, locks, args
<1>10. CASE Create(o) \/ Drop(o) \/ AlterOwner(o) \/ Rename(o) \/ AllowConns(o) \/ IsTemplate(o)
  BY <1>2, <1>10
  DEF Create, Drop, AlterOwner, Rename, AllowConns, IsTemplate, Executes, Runs, Defers,
      Borrowing, locks, args
<1>11. CASE Untemplate(o) \/ Block(o)
  BY <1>2, <1>11 DEF Untemplate, Block, Executes, Runs, locks, args
<1>12. CASE StatementFails(o)
  BY <1>2, <1>12 DEF StatementFails, Runs, Statements, Defers, Borrowing, locks, args
<1>13. CASE IsStillMember(o) \/ Revoke(o) \/ RevokeFails(o)
  BY <1>2, <1>13 DEF IsStillMember, Revoke, RevokeFails, Runs, locks, args
<1>14. CASE Return(o)
  BY <1>2, <1>14, FollowingTyped DEF Return, Flow, Setters, args
<1>15. CASE Read(o) \/ Refresh(o)
  BY <1>2, <1>15 DEF Read, Refresh, ReadInto, Flow, Borrowing, locks, args
<1>16. QED
  BY <1>3, <1>4, <1>5, <1>6, <1>7, <1>8, <1>9, <1>10, <1>11, <1>12, <1>13, <1>14, <1>15 DEF Step

\* A step of one operation leaves the lock and the role to the one that has them.
LEMMA LockFrame ==
  ASSUME TypeInv, NEW o \in Resources, NEW u \in Resources \ {o},
         LockInv(o), LockInv(u), BorrowInv,
         StartCreate(o) \/ StartUpdate(o) \/ StartDelete(o) \/ Step(o) \/ Refresh(o)
  PROVE  LockInv(u)'
<1>1. TypeOK /\ OthersKept(o)
  BY StartTyped, StepKeepsOthers DEF TypeInv
<1>2. tracked'[u] = tracked[u]
  BY <1>1 DEF Step, StartCreate, StartUpdate, StartDelete, Begin, Setter, StartTransaction,
     PgLockRole, PgLockRoleFails, GetDatabaseOwner, IsMember, Grant, GrantFails, Create,
     Untemplate, Block, Drop, AlterOwner, Reassign, CommitReassign, Rename, AllowConns,
     IsTemplate, StatementFails, IsStillMember, Revoke, RevokeFails, Return, Read, Refresh,
     ReadInto, TypeOK
<1>3. lock = u => lock' = u
  BY <1>1, DatabaseAssumption
  DEF Step, StartCreate, StartUpdate, StartDelete, Begin, Setter, StartTransaction,
     PgLockRole, PgLockRoleFails, GetDatabaseOwner, IsMember, Grant, GrantFails, Create,
     Untemplate, Block, Drop, AlterOwner, Reassign, CommitReassign, Rename, AllowConns,
     IsTemplate, StatementFails, IsStillMember, Revoke, RevokeFails, Return, Read, Refresh,
     locks
<1>4. memberOf \subseteq memberOf' \/ (pc[o] = "revoke" /\ lock = o)
  BY DEF LockInv, Locking, Runs,
     Step, StartCreate, StartUpdate, StartDelete, Begin, Setter, StartTransaction,
     PgLockRole, PgLockRoleFails, GetDatabaseOwner, IsMember, Grant, GrantFails, Create,
     Untemplate, Block, Drop, AlterOwner, Reassign, CommitReassign, Rename, AllowConns,
     IsTemplate, StatementFails, IsStillMember, Revoke, RevokeFails, Return, Read, Refresh
<1>5. QED
  BY <1>1, <1>2, <1>3, <1>4 DEF LockInv, Locking, Using, OthersKept

\* As long as no plan asks for the ownership of objects to follow the owner and
\* no REVOKE fails, the user is a member of an owner's role whenever a statement
\* needs it.
THEOREM OwnerHeldByLock == Spec => []OwnerHeld
<1> DEFINE Premise == "revoke" \notin MayFail /\ NoReassignment
           Inv == Premise => BorrowInv /\ \A o \in Resources : LockInv(o)
<1>1. Init => Inv
  BY DEF Init, BorrowInv, LockInv, Locking, Using
<1>2. TypeInv /\ Inv /\ [Next]_vars => Inv'
  <2> SUFFICES ASSUME TypeInv, Inv, [Next]_vars, Premise'
               PROVE  BorrowInv' /\ \A o \in Resources : LockInv(o)'
    OBVIOUS
  <2>1. Premise /\ BorrowInv /\ \A o \in Resources : LockInv(o)
    BY ScenarioStays DEF MayFail, Plans, NoReassignment
  <2>2. ASSUME NEW o \in Resources,
               StartCreate(o) \/ StartUpdate(o) \/ StartDelete(o) \/ Step(o) \/ Refresh(o)
        PROVE  BorrowInv' /\ \A u \in Resources : LockInv(u)'
    BY <2>1, <2>2, BorrowStep, LockStep, LockFrame
  <2>3. CASE UNCHANGED vars
    BY <2>1, <2>3 DEF vars, locks, args, BorrowInv, LockInv
  <2>4. QED
    BY <2>2, <2>3 DEF Next, Done
<1>3. Inv => OwnerHeld
  BY DEF LockInv, Using, OwnerHeld, Entitled
<1>4. QED
  BY <1>1, <1>2, <1>3, TypeInvariance, PTL DEF Spec
=============================================================================
