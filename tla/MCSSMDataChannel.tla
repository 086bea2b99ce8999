-------------------------- MODULE MCSSMDataChannel --------------------------
(* Small instances of SSMDataChannel: the .cfg files give the bounds. *)
EXTENDS SSMDataChannel
=============================================================================
