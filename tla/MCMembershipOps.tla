-------------------------- MODULE MCMembershipOps --------------------------
(* Small instances of MembershipOps: the user adm and two more roles. *)
EXTENDS MembershipOps, TLC

CONSTANTS adm, a, b, h, g, d

MCRoles == {adm, a, b}

\* One operation of each kind.
MCAll == {h, g, d}

MCRoleLists == {<<a>>, <<a, b>>}

MCNoSuperusers == {{}}

\* The user's membership in a, and b's membership in the user's role.
MCManagedPairs == {<<a, adm>>, <<adm, b>>}
MCInitialManaged == {<<adm, b>>}

\* b is a member of the user's role; or of nothing.
MCInitialMembers ==
    {rows \in [MCRoles \X MCRoles -> {"none", "member"}] :
        \A p \in MCRoles \X MCRoles : p # <<adm, b>> => rows[p] = "none"}
=============================================================================
