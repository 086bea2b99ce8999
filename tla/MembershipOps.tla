---------------------------- MODULE MembershipOps ----------------------------
(***************************************************************************)
(* The three ways the provider changes role memberships, side by side on   *)
(* one server, as Terraform runs them:                                     *)
(*   - withRolesGranted, inside a transaction (RolesGranted);              *)
(*   - postgresql_grant_role (src/postgresql/resource_grant_role_fw.go),   *)
(*     whose rows are meant to stay: Create revokes and grants, Delete     *)
(*     revokes, each in a transaction;                                     *)
(*   - the loans of postgresql_database, granted and revoked by statements *)
(*     that commit on their own (DatabaseResource has the whole resource). *)
(* No lock is common to the three: pgLockRole is taken on other roles, in  *)
(* other databases or, by schemas and grant_role, not at all.              *)
(***************************************************************************)
EXTENDS RolesGranted

CONSTANTS HelperOps,       \* the sessions that run withRolesGranted
          GrantRoleOps,    \* the sessions of postgresql_grant_role
          LoanOps,         \* the sessions of postgresql_database
          ManagedPairs,    \* the memberships of grant_role resources
          InitialManaged   \* those that an earlier run created

ASSUME MembershipOpsAssumption ==
    /\ Sessions = HelperOps \cup GrantRoleOps \cup LoanOps
    /\ InitialManaged \subseteq ManagedPairs
    /\ ManagedPairs \subseteq Pairs

VARIABLES managed,       \* the memberships in Terraform's state
          pair,          \* the membership each grant_role or database operation works on
          withAdmin,     \* with_admin_option
          ownerGranted,  \* the database operation granted the role
          initial        \* the rows the run started from

moreVars == <<managed, pair, withAdmin, ownerGranted, initial>>
allVars == <<vars, moreVars>>

OpsInit ==
    /\ Init
    /\ \A p \in InitialManaged : members[p] # "none"
    /\ managed = InitialManaged
    /\ pair = [s \in Sessions |-> <<Admin, Admin>>]
    /\ withAdmin = [s \in Sessions |-> FALSE]
    /\ ownerGranted = [s \in Sessions |-> FALSE]
    /\ initial = members

\* A step of s that only moves it on.
Moves(s, label) ==
    /\ GoTo(s, label)
    /\ UNCHANGED <<superusers, list, todo, granted, revoked, drops>>

-----------------------------------------------------------------------------
(* postgresql_grant_role. *)

\* Terraform runs one operation of a resource at a time.
Free(p) == \A s \in GrantRoleOps : Running(s) => pair[s] # p

StartGrantRole(s, p, admin) ==
    /\ s \in GrantRoleOps /\ pc[s] = "idle"
    /\ p \in ManagedPairs \ managed /\ Free(p)
    /\ pair' = [pair EXCEPT ![s] = p]
    /\ withAdmin' = [withAdmin EXCEPT ![s] = admin]
    /\ Moves(s, "grRevoke")
    /\ UNCHANGED <<pgVars, managed, ownerGranted, initial>>

GrRevoke(s) ==
    /\ pc[s] = "grRevoke"
    /\ Revoke(s, pair[s][1], pair[s][2])
    /\ Moves(s, "grGrant")
    /\ UNCHANGED moreVars

GrGrant(s) ==
    /\ pc[s] = "grGrant"
    /\ Grant(s, pair[s][1], pair[s][2], IF withAdmin[s] THEN "admin" ELSE "member")
    /\ Moves(s, "grCommit")
    /\ UNCHANGED moreVars

GrCommit(s) ==
    /\ pc[s] = "grCommit"
    /\ CommitTxn(s)
    /\ Moves(s, "grRead")
    /\ UNCHANGED moreVars

\* The state is set whether or not the row is found.
GrRead(s) ==
    /\ pc[s] = "grRead"
    /\ managed' = managed \cup {pair[s]}
    /\ Moves(s, "done")
    /\ UNCHANGED <<pgVars, pair, withAdmin, ownerGranted, initial>>

StartGrantRoleDelete(s, p) ==
    /\ s \in GrantRoleOps /\ pc[s] = "idle"
    /\ p \in managed /\ Free(p)
    /\ pair' = [pair EXCEPT ![s] = p]
    /\ managed' = managed \ {p}
    /\ Moves(s, "grDelete")
    /\ UNCHANGED <<pgVars, withAdmin, ownerGranted, initial>>

GrDelete(s) ==
    /\ pc[s] = "grDelete"
    /\ Revoke(s, pair[s][1], pair[s][2])
    /\ Moves(s, "grDeleteCommit")
    /\ UNCHANGED moreVars

GrDeleteCommit(s) ==
    /\ pc[s] = "grDeleteCommit"
    /\ CommitTxn(s)
    /\ Moves(s, "done")
    /\ UNCHANGED moreVars

-----------------------------------------------------------------------------
(* The loan of an owner's role to the user, one statement at a time. *)

\* One database operation at a time: pgLockRole(currentUser).
StartLoan(s, r) ==
    /\ s \in LoanOps /\ pc[s] = "idle" /\ r # Admin
    /\ \A u \in LoanOps : ~Running(u)
    /\ pair' = [pair EXCEPT ![s] = <<r, Admin>>]
    /\ Moves(s, "loanCheck")
    /\ UNCHANGED <<pgVars, managed, withAdmin, ownerGranted, initial>>

LoanCheck(s) ==
    /\ pc[s] = "loanCheck"
    /\ Moves(s, IF members[pair[s]] # "none" THEN "loanUse" ELSE "loanGrant")
    /\ UNCHANGED <<pgVars, moreVars>>

LoanGrant(s) ==
    /\ pc[s] = "loanGrant"
    /\ MembershipHolders(s, pair[s][1], Admin) = {}
    /\ GrantAccepted(s, pair[s][1], Admin)
    /\ members' = [members EXCEPT ![pair[s]] = IF @ = "none" THEN "member" ELSE @]
    /\ ownerGranted' = [ownerGranted EXCEPT ![s] = TRUE]
    /\ Moves(s, "loanUse")
    /\ UNCHANGED <<roles, own, dropped, managed, pair, withAdmin, initial>>

\* CREATE, ALTER or DROP DATABASE.
LoanUse(s) ==
    /\ pc[s] = "loanUse"
    /\ Moves(s, IF ownerGranted[s] THEN "loanCheckAgain" ELSE "done")
    /\ UNCHANGED <<pgVars, moreVars>>

\* The server refuses the grant: the operation returns.
LoanRefused(s) ==
    /\ pc[s] = "loanGrant"
    /\ Moves(s, "failed")
    /\ UNCHANGED <<pgVars, moreVars>>

LoanCheckAgain(s) ==
    /\ pc[s] = "loanCheckAgain"
    /\ IF members[pair[s]] # "none"
         THEN Moves(s, "loanRevoke") /\ UNCHANGED ownerGranted
         ELSE Moves(s, "done") /\ ownerGranted' = [ownerGranted EXCEPT ![s] = FALSE]
    /\ UNCHANGED <<pgVars, managed, pair, withAdmin, initial>>

LoanRevoke(s) ==
    /\ pc[s] = "loanRevoke"
    /\ MembershipHolders(s, pair[s][1], Admin) = {}
    /\ RevokeAccepted(s, pair[s][1], Admin)
    /\ members' = [members EXCEPT ![pair[s]] = "none"]
    /\ ownerGranted' = [ownerGranted EXCEPT ![s] = FALSE]
    /\ Moves(s, "done")
    /\ UNCHANGED <<roles, own, dropped, managed, pair, withAdmin, initial>>

-----------------------------------------------------------------------------

GrantRoleStep(s) ==
    GrRevoke(s) \/ GrGrant(s) \/ GrCommit(s) \/ GrRead(s) \/ GrDelete(s) \/ GrDeleteCommit(s)

LoanStep(s) ==
    \/ LoanCheck(s) \/ LoanGrant(s) \/ LoanRefused(s)
    \/ LoanUse(s) \/ LoanCheckAgain(s) \/ LoanRevoke(s)

\* A failed operation of grant_role keeps the state it had: a Create that failed
\* after its commit has none, a Delete that failed has its row.
GrantRoleFails(s) ==
    /\ s \in GrantRoleOps /\ Rollback(s)
    /\ managed' = IF pc[s] \in {"grDelete", "grDeleteCommit"} THEN managed \cup {pair[s]} ELSE managed
    /\ UNCHANGED <<pair, withAdmin, ownerGranted, initial>>

OpsNext ==
    \/ \E s \in HelperOps :
         /\ \/ \E roleList \in RoleLists : Begin(s, roleList, FALSE)
            \/ Step(s)
            \/ Rollback(s)
         /\ UNCHANGED moreVars
    \/ \E s \in GrantRoleOps :
         \/ \E p \in ManagedPairs, admin \in BOOLEAN : StartGrantRole(s, p, admin)
         \/ \E p \in ManagedPairs : StartGrantRoleDelete(s, p)
         \/ GrantRoleStep(s)
         \/ GrantRoleFails(s)
    \/ \E s \in LoanOps : (\E r \in Roles : StartLoan(s, r)) \/ LoanStep(s)
    \/ Terminated /\ UNCHANGED moreVars

OpsSpec == OpsInit /\ [][OpsNext]_allVars

-----------------------------------------------------------------------------
(* Properties. *)

\* Whatever the interleaving, the user gains no lasting membership: each row that
\* makes it a member was there before, is a grant_role's, or is on loan.
NoStrayMembership ==
    \A p \in Pairs : members[p] # "none" /\ p[2] = Admin =>
        \/ initial[p] # "none"
        \/ p \in ManagedPairs
        \/ \E s \in LoanOps : ownerGranted[s] /\ pair[s] = p
=============================================================================
