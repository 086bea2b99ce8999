---------------------------- MODULE ForeignData ----------------------------
(***************************************************************************)
(* postgresql_extension, postgresql_server and postgresql_user_mapping     *)
(* (src/postgresql/resource_extension_fw.go, resource_server_fw.go and     *)
(* resource_user_mapping_fw.go): an extension is in a schema and has a     *)
(* foreign-data wrapper, a server uses it, a user is mapped to the server. *)
(* The mapping is that of one user.                                        *)
(***************************************************************************)
EXTENDS CatalogRun

\* Options are changed one by one, as the state and the plan differ: ADD, SET
\* and DROP are refused for an option that is there, or is not.
OptionsApply(old, new, has) ==
    /\ \A o \in DOMAIN new : o \in DOMAIN has <=> o \in DOMAIN old
    /\ DOMAIN old \ DOMAIN new \subseteq DOMAIN has

\* Faulty form: options that are no longer configured stay.
OptionsAdded(old, new, has) ==
    [o \in DOMAIN has \cup DOMAIN new |-> IF o \in DOMAIN new THEN new[o] ELSE has[o]]

NewOptions(old, new, has) ==
    [o \in (DOMAIN has \ DOMAIN old) \cup DOMAIN new |->
        IF o \in DOMAIN new THEN new[o] ELSE has[o]]

-----------------------------------------------------------------------------
(* Extensions. *)

ReadExtension(inst, row) == With(inst, [schema |-> row.schema, version |-> row.version])

SchemaThere(n) == n \in Names => catalog.schema[n] # Absent

\* CREATE EXTENSION IF NOT EXISTS: one that is there stays what it is.
CreateExtension ==
    LET c == Planned("extension")
        row == catalog.extension[c.name]
    IN  /\ Turn("extension", "create")
        /\ Try("extension",
               row = Absent /\ c.schema # Unset => SchemaThere(c.schema),
               /\ catalog' = IF row # Absent THEN catalog
                             ELSE Put("extension", c.name, [schema |-> Told(c.schema, DefaultSchema),
                                                            version |-> Told(c.version, Newest)])
               /\ Continue("extension", "readBack"))

UpdateExtension ==
    LET c == Planned("extension")
        s == state.extension
        row == catalog.extension[c.name]
        moves == c.schema # s.schema
        updates == c.version # s.version
    IN  /\ Turn("extension", "update")
        /\ Try("extension",
               /\ moves \/ updates => row # Absent
               /\ moves => SchemaThere(c.schema),
               /\ catalog' = IF moves \/ updates
                             THEN Put("extension", c.name,
                                      [schema |-> IF moves THEN c.schema ELSE row.schema,
                                       version |-> IF updates THEN c.version ELSE row.version])
                             ELSE catalog
               /\ Continue("extension", "readBack"))

DeleteExtension ==
    LET s == state.extension
    IN  /\ Turn("extension", "delete")
        /\ Try("extension",
               CanDrop("extension", s.name, s.cascade),
               /\ catalog' = Without(Doomed(<<"extension", s.name>>))
               /\ Forget("extension"))

-----------------------------------------------------------------------------
(* Foreign servers: what is planned is recorded without reading it back. *)

ReadServer(inst, row) ==
    With(inst, [fdw |-> row.fdw, version |-> row.version, owner |-> row.owner,
                options |-> row.options])

\* Faulty form: the owner is not read.
Unread(inst) == inst

\* The owner is read in the transaction that creates the server.
WithOwner(inst) == [inst EXCEPT !.owner = Told(@, Me)]

CreateServer ==
    LET c == Planned("server")
        owner == Told(c.owner, Me)
    IN  /\ Turn("server", "create")
        /\ Try("server",
               /\ catalog.server[c.name] = Absent
               /\ catalog.extension[c.fdw] # Absent
               /\ owner \notin missing,
               /\ catalog' = Put("server", c.name, [fdw |-> c.fdw, version |-> c.version,
                                                    owner |-> owner, options |-> c.options])
               /\ Record("server", WithOwner(c)))

\* The id follows the name (ModifyPlan): renaming is no other server.
UpdateServer ==
    LET c == Planned("server")
        s == state.server
        row == catalog.server[s.name]
        idle == [c EXCEPT !.cascade = s.cascade] = s
    IN  /\ Turn("server", "update")
        /\ Try("server",
               \/ idle
               \/ /\ row # Absent
                  /\ c.name # s.name => catalog.server[c.name] = Absent
                  /\ c.owner # s.owner => c.owner \notin missing
                  /\ c.options # s.options => OptionsApply(s.options, c.options, row.options),
               /\ catalog' =
                    IF idle THEN catalog
                    ELSE Renamed("server", s.name, c.name,
                           [fdw |-> row.fdw,
                            version |-> IF c.version # s.version THEN c.version ELSE row.version,
                            owner |-> IF c.owner # s.owner THEN c.owner ELSE row.owner,
                            options |-> IF c.options # s.options
                                        THEN NewOptions(s.options, c.options, row.options)
                                        ELSE row.options])
               /\ Record("server", c))

DeleteServer ==
    LET s == state.server
    IN  /\ Turn("server", "delete")
        /\ Try("server",
               CanDrop("server", s.name, s.cascade),
               /\ catalog' = Without(Doomed(<<"server", s.name>>))
               /\ Forget("server"))

-----------------------------------------------------------------------------
(* User mappings: single statements that commit. *)

ReadMapping(inst, row) == With(inst, [options |-> row.options])

CreateMapping ==
    LET c == Planned("mapping")
    IN  /\ Turn("mapping", "create")
        /\ Try("mapping",
               catalog.server[c.name] # Absent /\ catalog.mapping[c.name] = Absent,
               /\ catalog' = Put("mapping", c.name, [options |-> c.options])
               /\ Record("mapping", c))

UpdateMapping ==
    LET c == Planned("mapping")
        s == state.mapping
        row == catalog.mapping[c.name]
    IN  /\ Turn("mapping", "update")
        /\ Try("mapping",
               row # Absent /\ OptionsApply(s.options, c.options, row.options),
               /\ catalog' = Put("mapping", c.name,
                                 [options |-> NewOptions(s.options, c.options, row.options)])
               /\ Record("mapping", c))

DeleteMapping ==
    LET s == state.mapping
    IN  /\ Turn("mapping", "delete")
        /\ Try("mapping",
               CanDrop("mapping", s.name, FALSE),
               /\ catalog' = Put("mapping", s.name, Absent)
               /\ Forget("mapping"))
=============================================================================
