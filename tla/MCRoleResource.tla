--------------------------- MODULE MCRoleResource ---------------------------
(* Small instances of RoleResource: a role, and one it may be a member of. *)
EXTENDS RoleResource, TLC

CONSTANTS bob, admins, a, b, c, p, q

Null == [kind |-> "null", value |-> NoPassword]
Pw(v) == [kind |-> "password", value |-> v]
Wo(v) == [kind |-> "password_wo", value |-> v]

Bob(name, groups, options, password) ==
    [name |-> name, roles |-> groups, options |-> options, password |-> password]

Group(name) == [name |-> name, roles |-> {}, options |-> {}, password |-> Null]

Renaming(names, groups, reads) ==
    [configs |-> (bob :> ({Bob(n, g, {}, Pw(p)) : n \in names, g \in groups} \cup {Absent}))
              @@ (admins :> {Group(b), Group(c), Absent}),
     ignoring |-> {}, grantRoles |-> {}, ordered |-> TRUE, md5 |-> TRUE, reads |-> reads]

\* One role may take the name the other has given up; a role is a member of one
\* that is renamed.
HandingOver == Renaming({a, b}, {{}}, FALSE)
Joining == Renaming({a}, {{}, {admins}}, TRUE)

\* Passwords change, and their kind.
Switching ==
    [configs |-> (bob :> {Bob(n, {}, {"search_path"}, w) : n \in {a, b}, w \in {Pw(p), Wo(p), Wo(q), Null}})
              @@ (admins :> {Absent}),
     ignoring |-> {}, grantRoles |-> {}, ordered |-> TRUE, md5 |-> FALSE, reads |-> TRUE]

\* Options change, and a grant_role gives bob the role.
Granting(level, ordered) ==
    [configs |-> (bob :> {Bob(a, {}, o, Null) : o \in {{}, {"attribute", "timeout"}}})
              @@ (admins :> {Group(b)}),
     ignoring |-> {bob}, grantRoles |-> {[group |-> admins, member |-> bob, level |-> level]},
     ordered |-> ordered, md5 |-> TRUE, reads |-> TRUE]

MCScenarios == {HandingOver, Joining, Switching, Granting("admin", FALSE)}
=============================================================================
