--------------------------- MODULE FunctionResource ---------------------------
(***************************************************************************)
(* postgresql_function (src/postgresql/resource_function_fw.go).  The name *)
(* is the signature: schema, name and the types of the arguments.  What is *)
(* planned is recorded without reading it back, and the body is never      *)
(* read.                                                                   *)
(***************************************************************************)
EXTENDS CatalogRun

ReadFunction(inst, row) == With(inst, [returns |-> row.returns, options |-> row.options])

Definition(c) == [returns |-> c.returns, options |-> c.options, body |-> c.body]

CreateFunction ==
    LET c == Planned("function")
    IN  /\ Turn("function", "create")
        /\ Try("function", catalog.function[c.name] = Absent,
               /\ catalog' = Put("function", c.name, Definition(c))
               /\ Record("function", c))

\* CREATE OR REPLACE makes the function when there is none, and returns what it
\* returned.
UpdateFunction ==
    LET c == Planned("function")
        row == catalog.function[c.name]
    IN  /\ Turn("function", "update")
        /\ Try("function", row # Absent => row.returns = c.returns,
               /\ catalog' = Put("function", c.name, Definition(c))
               /\ Record("function", c))

\* DROP ... IF EXISTS.
DeleteFunction ==
    LET s == state.function
    IN  /\ Turn("function", "delete")
        /\ Try("function",
               catalog.function[s.name] # Absent => CanDrop("function", s.name, s.cascade),
               /\ catalog' = Without(Doomed(<<"function", s.name>>))
               /\ Forget("function"))
=============================================================================
