--------------------------- MODULE MCConnRegistry ---------------------------
(* Small instances of ConnRegistry: the .cfg files give the constants. *)
EXTENDS ConnRegistry
=============================================================================
