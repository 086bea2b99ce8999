---------------------------- MODULE RolesGranted ----------------------------
(***************************************************************************)
(* withRolesGranted (src/postgresql/helpers.go): inside one transaction,   *)
(* give the connected user every role a resource needs, run the resource's *)
(* statements, and put the memberships back before the commit.  Terraform  *)
(* applies up to ten resources at once, so several such transactions run   *)
(* side by side on the same memberships.                                   *)
(*                                                                         *)
(* One session is one resource operation: a Create, Update or Delete of    *)
(* grant, default_privileges or schema, or the Delete of a role, which     *)
(* drops the role in the same transaction.  Any statement may fail; the    *)
(* operation then returns and its deferred rollback runs.                  *)
(***************************************************************************)
EXTENDS PgMembership

CONSTANTS Admin,          \* the user the provider connects as
          RoleLists,      \* the role lists callers pass
          SuperuserSets,  \* the sets of roles that may be superusers
          InitialMembers  \* the memberships the provider may find

ASSUME RolesGrantedAssumption ==
    /\ Admin \in Roles
    /\ RoleLists \subseteq Seq(Roles)
    /\ SuperuserSets \subseteq SUBSET Roles
    /\ InitialMembers \subseteq [Pairs -> Level]
    /\ \A rows \in InitialMembers : Acyclic(rows)

VARIABLES superusers,     \* the roles with rolsuper
          pc,             \* the next statement of each operation
          list,           \* the roles argument of withRolesGranted
          todo,           \* the roles its first loop has still to look at
          granted,        \* grantedRoles
          revoked,        \* revokedRoles
          drops           \* the operation is a role's Delete

opVars == <<pc, list, todo, granted, revoked, drops>>
vars == <<pgVars, superusers, opVars>>

PC == {"idle", "prepare", "revokeReverse", "checkGrant", "grantRole", "fn",
       "restore", "revokeGranted", "grantBack", "drop", "commit", "done", "failed"}

TypeOK ==
    /\ PgTypeOK
    /\ superusers \in SuperuserSets
    /\ pc \in [Sessions -> PC]
    /\ list \in [Sessions -> Seq(Roles)]
    /\ todo \in [Sessions -> Seq(Roles)]
    /\ granted \in [Sessions -> Seq(Roles)]
    /\ revoked \in [Sessions -> Seq(Roles)]
    /\ drops \in [Sessions -> BOOLEAN]

Elems(seq) == {seq[i] : i \in DOMAIN seq}

Init ==
    /\ members \in InitialMembers
    /\ roles = Roles
    /\ own = [s \in Sessions |-> NoWrites]
    /\ dropped = [s \in Sessions |-> {}]
    /\ superusers \in SuperuserSets
    /\ pc = [s \in Sessions |-> "idle"]
    /\ list = [s \in Sessions |-> <<>>]
    /\ todo = [s \in Sessions |-> <<>>]
    /\ granted = [s \in Sessions |-> <<>>]
    /\ revoked = [s \in Sessions |-> <<>>]
    /\ drops = [s \in Sessions |-> FALSE]

GoTo(s, label) == pc' = [pc EXCEPT ![s] = label]

-----------------------------------------------------------------------------
(* The statements of one operation, in program order. *)

\* The resource starts its transaction and calls withRolesGranted; a superuser,
\* like an empty list, goes straight to the callback.
Begin(s, roleList, isDelete) ==
    /\ pc[s] = "idle"
    /\ isDelete => Len(roleList) = 1 /\ roleList[1] # Admin
    /\ list' = [list EXCEPT ![s] = roleList]
    /\ todo' = [todo EXCEPT ![s] = IF Admin \in superusers THEN <<>> ELSE roleList]
    /\ drops' = [drops EXCEPT ![s] = isDelete]
    /\ GoTo(s, "prepare")
    /\ UNCHANGED <<pgVars, superusers, granted, revoked>>

Skip(s) == todo' = [todo EXCEPT ![s] = Tail(@)] /\ GoTo(s, "prepare")

\* The next role: skipped when it is a superuser or the user itself; otherwise
\* is the user's own role granted to it?
CheckReverse(s) ==
    /\ pc[s] = "prepare" /\ todo[s] # <<>>
    /\ LET r == Head(todo[s]) IN
         /\ SeesRole(s, r)
         /\ \/ /\ r \in superusers \cup {Admin}
               /\ Skip(s)
            \/ /\ r \notin superusers \cup {Admin}
               /\ GoTo(s, IF SeesMember(s, Admin, r) THEN "revokeReverse" ELSE "checkGrant")
               /\ UNCHANGED todo
    /\ UNCHANGED <<pgVars, superusers, list, granted, revoked, drops>>

\* Faulty form: goes on to the next role once the reverse membership is revoked.
RevokeReverseSkipsGrant(s) ==
    /\ pc[s] = "revokeReverse"
    /\ Revoke(s, Admin, Head(todo[s]))
    /\ revoked' = [revoked EXCEPT ![s] = Append(@, Head(todo[s]))]
    /\ Skip(s)
    /\ UNCHANGED <<superusers, list, granted, drops>>

RevokeReverse(s) ==
    /\ pc[s] = "revokeReverse"
    /\ Revoke(s, Admin, Head(todo[s]))
    /\ revoked' = [revoked EXCEPT ![s] = Append(@, Head(todo[s]))]
    /\ GoTo(s, "checkGrant")
    /\ UNCHANGED <<superusers, list, todo, granted, drops>>

\* Faulty form: grants the role whether or not the user is a member already.
CheckGrantAlways(s) ==
    /\ pc[s] = "checkGrant"
    /\ GoTo(s, "grantRole")
    /\ UNCHANGED <<pgVars, superusers, list, todo, granted, revoked, drops>>

\* Is the user a member of the role already?
CheckGrant(s) ==
    /\ pc[s] = "checkGrant"
    /\ IF SeesMember(s, Head(todo[s]), Admin)
         THEN Skip(s)
         ELSE GoTo(s, "grantRole") /\ UNCHANGED todo
    /\ UNCHANGED <<pgVars, superusers, list, granted, revoked, drops>>

\* Faulty form: the role granted is not recorded.
GrantRoleUnrecorded(s) ==
    /\ pc[s] = "grantRole"
    /\ Grant(s, Head(todo[s]), Admin, "member")
    /\ Skip(s)
    /\ UNCHANGED <<superusers, list, granted, revoked, drops>>

GrantRole(s) ==
    /\ pc[s] = "grantRole"
    /\ Grant(s, Head(todo[s]), Admin, "member")
    /\ granted' = [granted EXCEPT ![s] = Append(@, Head(todo[s]))]
    /\ Skip(s)
    /\ UNCHANGED <<superusers, list, revoked, drops>>

\* The callback: the resource's own statements, which use the memberships and
\* change none.
StartFn(s) ==
    /\ pc[s] = "prepare" /\ todo[s] = <<>>
    /\ GoTo(s, "fn")
    /\ UNCHANGED <<pgVars, superusers, list, todo, granted, revoked, drops>>

EndFn(s) ==
    /\ pc[s] = "fn"
    /\ GoTo(s, "restore")
    /\ UNCHANGED <<pgVars, superusers, list, todo, granted, revoked, drops>>

\* First restoring loop: take back every role granted above.
CheckGranted(s) ==
    /\ pc[s] = "restore" /\ granted[s] # <<>>
    /\ IF SeesMember(s, Head(granted[s]), Admin)
         THEN GoTo(s, "revokeGranted") /\ UNCHANGED granted
         ELSE granted' = [granted EXCEPT ![s] = Tail(@)] /\ UNCHANGED pc
    /\ UNCHANGED <<pgVars, superusers, list, todo, revoked, drops>>

RevokeGranted(s) ==
    /\ pc[s] = "revokeGranted"
    /\ Revoke(s, Head(granted[s]), Admin)
    /\ granted' = [granted EXCEPT ![s] = Tail(@)]
    /\ GoTo(s, "restore")
    /\ UNCHANGED <<superusers, list, todo, revoked, drops>>

\* Faulty form: does not wait for the first loop.
CheckRevokedEarly(s) ==
    /\ pc[s] = "restore" /\ revoked[s] # <<>>
    /\ LET r == Head(revoked[s]) IN
         IF SeesRole(s, r) /\ ~SeesMember(s, Admin, r)
           THEN GoTo(s, "grantBack") /\ UNCHANGED revoked
           ELSE revoked' = [revoked EXCEPT ![s] = Tail(@)] /\ UNCHANGED pc
    /\ UNCHANGED <<pgVars, superusers, list, todo, granted, drops>>

\* Second restoring loop, only after the first: the user's role back to every
\* role it was revoked from, unless that role is gone.
CheckRevoked(s) ==
    /\ pc[s] = "restore" /\ granted[s] = <<>> /\ revoked[s] # <<>>
    /\ LET r == Head(revoked[s]) IN
         IF SeesRole(s, r) /\ ~SeesMember(s, Admin, r)
           THEN GoTo(s, "grantBack") /\ UNCHANGED revoked
           ELSE revoked' = [revoked EXCEPT ![s] = Tail(@)] /\ UNCHANGED pc
    /\ UNCHANGED <<pgVars, superusers, list, todo, granted, drops>>

GrantBack(s) ==
    /\ pc[s] = "grantBack"
    /\ Grant(s, Admin, Head(revoked[s]), "member")
    /\ revoked' = [revoked EXCEPT ![s] = Tail(@)]
    /\ GoTo(s, "restore")
    /\ UNCHANGED <<superusers, list, todo, granted, drops>>

Restored(s) ==
    /\ pc[s] = "restore" /\ granted[s] = <<>> /\ revoked[s] = <<>>
    /\ GoTo(s, IF drops[s] THEN "drop" ELSE "commit")
    /\ UNCHANGED <<pgVars, superusers, list, todo, granted, revoked, drops>>

\* DROP ROLE, in the Delete of a role.
DropTarget(s) ==
    /\ pc[s] = "drop"
    /\ DropRole(s, list[s][1])
    /\ GoTo(s, "commit")
    /\ UNCHANGED <<superusers, list, todo, granted, revoked, drops>>

\* The operation returns: its local variables are gone.
Return(s, label) ==
    /\ GoTo(s, label)
    /\ list' = [list EXCEPT ![s] = <<>>]
    /\ todo' = [todo EXCEPT ![s] = <<>>]
    /\ granted' = [granted EXCEPT ![s] = <<>>]
    /\ revoked' = [revoked EXCEPT ![s] = <<>>]
    /\ UNCHANGED <<superusers, drops>>

Commit(s) == pc[s] = "commit" /\ CommitTxn(s) /\ Return(s, "done")

\* A statement failed: the error is returned and deferredRollback runs.
Running(s) == pc[s] \notin {"idle", "done", "failed"}

\* Faulty form: returns without the deferred rollback.
RollbackLeaked(s) == Running(s) /\ Return(s, "failed") /\ UNCHANGED pgVars

Rollback(s) == Running(s) /\ RollbackTxn(s) /\ Return(s, "failed")

-----------------------------------------------------------------------------
(* When a statement cannot be executed. *)

\* The server refuses it, or a row the code scans is missing.
Refused(s) ==
    \/ pc[s] = "prepare" /\ todo[s] # <<>> /\ ~SeesRole(s, Head(todo[s]))
    \/ pc[s] = "revokeReverse" /\ ~RevokeAccepted(s, Admin, Head(todo[s]))
    \/ pc[s] = "grantRole" /\ ~GrantAccepted(s, Head(todo[s]), Admin)
    \/ pc[s] = "revokeGranted" /\ ~RevokeAccepted(s, Head(granted[s]), Admin)
    \/ pc[s] = "grantBack" /\ ~GrantAccepted(s, Admin, Head(revoked[s]))
    \/ pc[s] = "drop" /\ ~SeesRole(s, list[s][1])

WaitsFor(s) ==
    CASE pc[s] = "revokeReverse" -> MembershipHolders(s, Admin, Head(todo[s]))
      [] pc[s] = "grantRole"     -> MembershipHolders(s, Head(todo[s]), Admin)
      [] pc[s] = "revokeGranted" -> MembershipHolders(s, Head(granted[s]), Admin)
      [] pc[s] = "grantBack"     -> MembershipHolders(s, Admin, Head(revoked[s]))
      [] pc[s] = "drop"          -> DropRoleHolders(s, list[s][1])
      [] OTHER                   -> {}

\* s waits, through others, for itself.
Deadlocked(s) ==
    \A S \in SUBSET Sessions :
        (WaitsFor(s) \subseteq S /\ \A u \in S : WaitsFor(u) \subseteq S) => s \in S

\* The server's answer to a statement that cannot be executed.
StatementError(s) == (Refused(s) \/ Deadlocked(s)) /\ Rollback(s)

Step(s) ==
    \/ CheckReverse(s) \/ RevokeReverse(s) \/ CheckGrant(s) \/ GrantRole(s)
    \/ StartFn(s) \/ EndFn(s)
    \/ CheckGranted(s) \/ RevokeGranted(s) \/ CheckRevoked(s) \/ GrantBack(s)
    \/ Restored(s) \/ DropTarget(s) \/ Commit(s)

Terminated == (\A s \in Sessions : ~Running(s)) /\ UNCHANGED vars

Next ==
    \/ \E s \in Sessions :
        \/ \E roleList \in RoleLists, isDelete \in BOOLEAN : Begin(s, roleList, isDelete)
        \/ Step(s)
        \/ Rollback(s)
    \/ Terminated

Spec == Init /\ [][Next]_vars

\* Go runs the goroutines that are not blocked, and the server executes every
\* statement that nothing blocks and refuses the ones it must.
FairSpec ==
    Spec /\ \A s \in Sessions : WF_vars(Step(s)) /\ WF_vars(StatementError(s))

-----------------------------------------------------------------------------
(* Properties. *)

\* Temporary means temporary: no commit of an operation leaves anyone with a
\* membership it did not have, or without one it had (helpers.go:113-115),
\* unless one of its two roles is dropped.
MembershipsKept ==
    [][\A p \in Pairs :
         {p[1], p[2]} \subseteq roles' => (members'[p] = "none") = (members[p] = "none")]_vars

\* The roles the callback needs: superusers cannot be granted, and the user
\* needs no membership in itself, nor any when it is a superuser.
Needed(s) ==
    IF Admin \in superusers THEN {} ELSE Elems(list[s]) \ (superusers \cup {Admin})

\* While the callback runs the user is a member of every role it needs, as its
\* own transaction sees it, whatever other operations do meanwhile; only a role
\* another operation dropped is excepted.
NeededRolesHeld ==
    \A s \in Sessions : pc[s] = "fn" =>
        \A r \in Needed(s) \cap roles : SeesMember(s, r, Admin)

\* Putting a revoked membership back never closes a cycle, which the server
\* would refuse, failing an operation whose statements all succeeded: the roles
\* granted are all taken back before the first one is given back.
RestoreNeverRefused ==
    \A s \in Sessions : pc[s] \in {"revokeGranted", "grantBack"} => ~Refused(s)

\* No operation is left waiting: each one that starts returns, deadlocks over
\* memberships included.
OperationsReturn == \A s \in Sessions : Running(s) ~> ~Running(s)

-----------------------------------------------------------------------------
(* Why the properties hold: the inductive invariant. *)

\* Transactions never share a row, and never touch a row of a role that
\* another one has dropped.
LocksExclusive ==
    \A s, u \in Sessions : s # u =>
        /\ dropped[s] \cap dropped[u] = {}
        /\ \A p \in Pairs : own[s][p] # Untouched =>
              /\ own[u][p] = Untouched
              /\ p[1] \notin dropped[u] /\ p[2] \notin dropped[u]

Preparing(s) == pc[s] \in {"prepare", "revokeReverse", "checkGrant", "grantRole"}

NoDuplicates(seq) == \A i, j \in DOMAIN seq : i # j => seq[i] # seq[j]

\* What each label says of the local variables.
Control(s) ==
    /\ ~Running(s) => own[s] = NoWrites
    /\ pc[s] # "commit" => dropped[s] = {}
    /\ \A p \in Pairs : p[1] \in dropped[s] \/ p[2] \in dropped[s] =>
          own[s][p] = "none" \/ (own[s][p] = Untouched /\ members[p] = "none")
    /\ Running(s) /\ drops[s] => Len(list[s]) = 1 /\ list[s][1] # Admin
    /\ pc[s] = "drop" => drops[s]
    /\ ~Preparing(s) => todo[s] = <<>>
    /\ Admin \in superusers => todo[s] = <<>>
    /\ Preparing(s) /\ pc[s] # "prepare" =>
          todo[s] # <<>> /\ Head(todo[s]) \notin superusers \cup {Admin}
    /\ pc[s] = "revokeGranted" => granted[s] # <<>>
    /\ pc[s] = "grantBack" => granted[s] = <<>> /\ revoked[s] # <<>>
    /\ ~Running(s) \/ pc[s] \in {"drop", "commit"} =>
          granted[s] = <<>> /\ revoked[s] = <<>>

\* grantedRoles and revokedRoles are the rows the transaction has changed and
\* has still to put back; every other row it wrote says again what the
\* committed row says, the rows of a dropped role excepted.
Books(s) ==
    /\ NoDuplicates(granted[s])
    /\ NoDuplicates(revoked[s])
    /\ \A r \in Elems(granted[s]) : r # Admin /\ own[s][<<r, Admin>>] = "member"
    /\ \A r \in Elems(revoked[s]) : r # Admin /\ own[s][<<Admin, r>>] = "none"
    /\ \A p \in Pairs : own[s][p] # Untouched =>
          /\ p[1] \in roles /\ p[2] \in roles
          /\ \/ /\ p[1] \in dropped[s] \/ p[2] \in dropped[s]
                /\ own[s][p] = "none"
             \/ /\ p[1] # Admin /\ p[2] = Admin
                /\ members[p] = "none"
                /\ own[s][p] # "none" => p[1] \in Elems(granted[s])
             \/ /\ p[1] = Admin /\ p[2] # Admin
                /\ members[p] # "none"
                /\ own[s][p] = "none" => p[2] \in Elems(revoked[s])
    /\ Preparing(s) => \A r \in Roles \ {Admin} :
          /\ own[s][<<r, Admin>>] # "none"
          /\ own[s][<<Admin, r>>] \in {Untouched, "none"}

\* What was read is still so when the statement it decides runs.
ChecksHold(s) ==
    /\ pc[s] = "revokeReverse" /\ Head(todo[s]) \in roles => SeesMember(s, Admin, Head(todo[s]))
    /\ pc[s] = "grantRole" => ~SeesMember(s, Head(todo[s]), Admin)

\* The roles behind the loop's index are held already.
PreparedRolesHeld(s) ==
    Preparing(s) \/ pc[s] = "fn" =>
        \A r \in Needed(s) \cap roles : r \in Elems(todo[s]) \/ SeesMember(s, r, Admin)

\* The user stays, only roles that are there are dropped, and no row outlives
\* its roles.
RolesLive ==
    /\ Admin \in roles
    /\ \A s \in Sessions : dropped[s] \subseteq roles \ {Admin}
    /\ \A p \in Pairs : members[p] # "none" => p[1] \in roles /\ p[2] \in roles

IInv ==
    /\ TypeOK
    /\ RolesLive
    /\ LocksExclusive
    /\ \A s \in Sessions : Control(s) /\ Books(s) /\ ChecksHold(s) /\ PreparedRolesHeld(s)
=============================================================================
