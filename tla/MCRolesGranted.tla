--------------------------- MODULE MCRolesGranted ---------------------------
(* Small instances of RolesGranted: the user adm and two more roles. *)
EXTENDS RolesGranted

CONSTANTS adm, a, b

MCRoles == {adm, a, b}

\* Every acyclic graph of plain memberships.
MCInitialMembers ==
    {rows \in [MCRoles \X MCRoles -> {"none", "member"}] : Acyclic(rows)}

\* One role, two roles in either order, the same role twice, the user.
MCRoleLists == {<<a>>, <<a, b>>, <<b, a>>, <<a, a>>, <<adm, b>>}

MCSuperuserSets == {{}, {b}, {adm}}
=============================================================================
