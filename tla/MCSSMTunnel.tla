----------------------------- MODULE MCSSMTunnel ----------------------------
(* Small instances of SSMTunnel: the .cfg files give the constants. *)
EXTENDS SSMTunnel
=============================================================================
