---------------------------- MODULE PgMembership ----------------------------
(***************************************************************************)
(* The part of a PostgreSQL server the provider's role handling relies on: *)
(* the catalog pg_auth_members, read and written by concurrent READ        *)
(* COMMITTED transactions.  It is external to the repository and modelled  *)
(* from the statements src/postgresql/helpers.go and the resources send.   *)
(*                                                                         *)
(* A pair <<r, m>> is the catalog row "m is a member of r" (roleid,        *)
(* member): one row per pair, as PostgreSQL up to 15 keeps them, and as    *)
(* PostgreSQL 16 does when the provider's user is the only grantor.        *)
(*                                                                         *)
(* A transaction writes a private copy of the rows it changes; the copy is *)
(* its lock on the row, which others wait for, and is published by COMMIT  *)
(* or forgotten by ROLLBACK.  Reads see the committed rows overlaid with   *)
(* the reader's own writes.                                                *)
(***************************************************************************)
EXTENDS Naturals, Sequences

CONSTANTS Roles,        \* the roles that exist when the provider starts
          Sessions      \* the transactions the provider opens

VARIABLES members,      \* committed rows: the level of each pair
          roles,        \* committed roles
          own,          \* the rows each open transaction has written
          dropped       \* the roles each open transaction has dropped

pgVars == <<members, roles, own, dropped>>

Pairs == Roles \X Roles

\* No row; a row; a row WITH ADMIN OPTION.
Level == {"none", "member", "admin"}

Untouched == "untouched"

NoWrites == [p \in Pairs |-> Untouched]

PgTypeOK ==
    /\ members \in [Pairs -> Level]
    /\ roles \subseteq Roles
    /\ own \in [Sessions -> [Pairs -> Level \cup {Untouched}]]
    /\ dropped \in [Sessions -> SUBSET Roles]

-----------------------------------------------------------------------------
(* What a statement of session s sees. *)

Sees(s, p) == IF own[s][p] = Untouched THEN members[p] ELSE own[s][p]

SeesRole(s, r) == r \in roles \ dropped[s]

SeesMember(s, r, m) == Sees(s, <<r, m>>) # "none"

View(s) == [p \in Pairs |-> Sees(s, p)]

\* r is m, or a member of m directly or through other roles: every set that
\* holds r, and with a role the roles it is a member of, also holds m.
Inherits(rows, r, m) ==
    \A S \in SUBSET Roles :
        (/\ r \in S
         /\ \A p \in Pairs : rows[p] # "none" /\ p[2] \in S => p[1] \in S)
        => m \in S

\* No role is a member of itself, directly or not.
Acyclic(rows) == \A p \in Pairs : rows[p] # "none" => ~Inherits(rows, p[1], p[2])

-----------------------------------------------------------------------------
(* Locks: rows written, and roles dropped, by another open transaction. *)

RowHolders(s, p) == {u \in Sessions \ {s} : own[u][p] # Untouched}

DropHolders(s, r) == {u \in Sessions \ {s} : r \in dropped[u]}

RowsOf(r) == {p \in Pairs : p[1] = r \/ p[2] = r}

\* The sessions that the next statement of s must wait for.
MembershipHolders(s, r, m) ==
    RowHolders(s, <<r, m>>) \cup DropHolders(s, r) \cup DropHolders(s, m)

DropRoleHolders(s, r) ==
    DropHolders(s, r) \cup UNION {RowHolders(s, p) : p \in RowsOf(r)}

-----------------------------------------------------------------------------
(* Statements.  Each one is enabled when nothing makes it wait and the     *)
(* server accepts it; what happens when the server refuses is its caller's *)
(* affair.                                                                 *)

Write(s, p, level) == own' = [own EXCEPT ![s][p] = level]

\* GRANT r TO m, with the admin option when level is "admin": refused when
\* either role is gone and when r is a member of m; a notice and no write when
\* the row already says as much.
GrantAccepted(s, r, m) ==
    /\ SeesRole(s, r)
    /\ SeesRole(s, m)
    /\ ~Inherits(View(s), r, m)

Grant(s, r, m, level) ==
    /\ MembershipHolders(s, r, m) = {}
    /\ GrantAccepted(s, r, m)
    /\ IF Sees(s, <<r, m>>) \in {level, "admin"}
         THEN own' = own
         ELSE Write(s, <<r, m>>, level)
    /\ UNCHANGED <<members, roles, dropped>>

\* REVOKE r FROM m: the row goes with its admin option; only a warning when
\* there is no row.
RevokeAccepted(s, r, m) == SeesRole(s, r) /\ SeesRole(s, m)

Revoke(s, r, m) ==
    /\ MembershipHolders(s, r, m) = {}
    /\ RevokeAccepted(s, r, m)
    /\ IF SeesMember(s, r, m) THEN Write(s, <<r, m>>, "none") ELSE own' = own
    /\ UNCHANGED <<members, roles, dropped>>

\* DROP ROLE r removes the role and every row it is in.
DropRole(s, r) ==
    /\ DropRoleHolders(s, r) = {}
    /\ SeesRole(s, r)
    /\ dropped' = [dropped EXCEPT ![s] = @ \cup {r}]
    /\ own' = [own EXCEPT ![s] = [p \in Pairs |->
                 IF p \in RowsOf(r) /\ Sees(s, p) # "none" THEN "none" ELSE @[p]]]
    /\ UNCHANGED <<members, roles>>

\* COMMIT publishes the rows and the drops of s and releases its locks.
CommitTxn(s) ==
    /\ members' = [p \in Pairs |-> Sees(s, p)]
    /\ roles' = roles \ dropped[s]
    /\ own' = [own EXCEPT ![s] = NoWrites]
    /\ dropped' = [dropped EXCEPT ![s] = {}]

\* ROLLBACK forgets them.
RollbackTxn(s) ==
    /\ own' = [own EXCEPT ![s] = NoWrites]
    /\ dropped' = [dropped EXCEPT ![s] = {}]
    /\ UNCHANGED <<members, roles>>
=============================================================================
