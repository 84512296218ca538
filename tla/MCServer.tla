------------------------------ MODULE MCServer ------------------------------
(***************************************************************************)
(* Server on small instances: three clients that compete for two slots.    *)
(***************************************************************************)
EXTENDS Server
=============================================================================
