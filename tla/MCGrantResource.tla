-------------------------- MODULE MCGrantResource --------------------------
(* Small instances of GrantResource: two resources at a time. *)
EXTENDS GrantResource, TLC

CONSTANTS r1, r2, x, y, m, n, t1, t2, t3, c, d, e, S, U

\* A database, three tables, a column of the first, an entry of default privileges.
MCObjects == {t1, t2, t3, c, d, e}
MCTypeOf == [o \in {t1, t2, t3} |-> "table"] @@ (c :> "column") @@ (d :> "database")
            @@ (e :> "default")
MCTableOf == c :> t1

\* x and y have two members in common, who have none.
MCMembers == (x :> {m, n}) @@ (y :> {m, n}) @@ (m :> {}) @@ (n :> {})

About(type, grantee, owner, objects) ==
    [type |-> type, role |-> grantee, owner |-> owner, objects |-> objects]

Pair(a, b) == (r1 :> a) @@ (r2 :> b)

\* A table by name and a column of it; the database for a role and
\* for public; all tables
\* and the default privileges of another owner.
MCTargets == {
    Pair(About("table", m, m, {t1}), About("column", m, m, {c})),
    Pair(About("database", m, m, {d}), About("database", Public, n, {d})),
    Pair(About("table", x, x, {}), About("default", x, y, {e}))}

MCConfigs == {{S}, {All}}
=============================================================================
