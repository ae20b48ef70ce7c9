------------------------------- MODULE MCServer -------------------------------
(* Server on small sets; its constants are given in the MCServer*.cfg files. *)
EXTENDS Server
===============================================================================
