--------------------------- MODULE SchemaResource ---------------------------
(***************************************************************************)
(* postgresql_schema (src/postgresql/resource_schema_fw.go).  Its policies *)
(* are granted and revoked as the state and the plan differ; they are      *)
(* never read.                                                             *)
(***************************************************************************)
EXTENDS CatalogRun

Grants(policies) == UNION {{p.role} \X p.privileges : p \in policies}

NamedRoles(policies) == {p.role : p \in policies} \ {Public}

ReadSchema(inst, row) == With(inst, [owner |-> row.owner])

NewSchema(o) == [owner |-> o, acl |-> {o} \X Privileges, owners |-> {o}]

\* ALTER SCHEMA ... OWNER TO: what the old owner has becomes the new owner's, also
\* what a policy has given it, and is one with what the new owner had.
OwnedBy(row, o) ==
    [owner |-> o,
     acl |-> {IF g[1] = row.owner THEN <<o, g[2]>> ELSE g : g \in row.acl},
     owners |-> row.owners \cup {o}]

\* Faulty form: what is granted is granted again when nothing changes, but
\* privileges that are no longer granted stay.
GrantsOnly(old, new) == [revoked |-> {}, granted |-> new]

\* Faulty form: roles that were dropped before their policies are not skipped.
RevokesBlindly(old, new) ==
    [revoked |-> {p \in old : p.role # Public /\ p \notin new}, granted |-> new \ old]

\* The policies to revoke and to grant.  What is dropped is revoked unless its
\* role was dropped first, or is PUBLIC.
PolicyChanges(old, new) ==
    [revoked |-> {p \in old : IF \E q \in new : q.role = p.role THEN p \notin new
                              ELSE p.role \notin missing \cup {Public}},
     granted |-> new \ old]

\* A schema that is there is taken over, whatever if_not_exists says.
CreateSchema ==
    LET c == Planned("schema")
        row == catalog.schema[c.name]
        owned == IF row = Absent THEN NewSchema(Told(c.owner, Me))
                 ELSE OwnedBy(row, Told(c.owner, row.owner))
    IN  /\ Turn("schema", "create")
        /\ Try("schema",
               (NamedRoles(c.policies) \cup {c.owner}) \cap missing = {},
               /\ catalog' = Put("schema", c.name, [owned EXCEPT !.acl = @ \cup Grants(c.policies)])
               /\ Continue("schema", "readBack"))

UpdateSchema ==
    LET c == Planned("schema")
        s == state.schema
        row == catalog.schema[s.name]
        changes == PolicyChanges(s.policies, c.policies)
        owner == IF c.owner = s.owner THEN {} ELSE {c.owner}
        owned == IF owner = {} THEN row ELSE OwnedBy(row, c.owner)
        idle == c.name = s.name /\ owner \cup changes.revoked \cup changes.granted = {}
    IN  /\ Turn("schema", "update")
        /\ Try("schema",
               \/ idle
               \/ /\ row # Absent
                  /\ c.name # s.name => catalog.schema[c.name] = Absent
                  /\ (NamedRoles(changes.revoked \cup changes.granted) \cup owner) \cap missing = {},
               /\ catalog' = IF idle THEN catalog
                             ELSE Renamed("schema", s.name, c.name,
                                          [owned EXCEPT !.acl = (@ \ Grants(changes.revoked))
                                                                \cup Grants(changes.granted)])
               /\ Continue("schema", "readBack"))

\* A schema that is not there counts as deleted.
DeleteSchema ==
    LET s == state.schema
    IN  /\ Turn("schema", "delete")
        /\ Try("schema",
               catalog.schema[s.name] = Absent \/ CanDrop("schema", s.name, s.cascade),
               /\ catalog' = IF catalog.schema[s.name] = Absent THEN catalog
                             ELSE Without(Doomed(<<"schema", s.name>>))
               /\ Forget("schema"))
=============================================================================
