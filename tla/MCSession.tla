------------------------------- MODULE MCSession -------------------------------
(* Session on small sets; its constants are given in the MCSession*.cfg files. *)
EXTENDS Session
===============================================================================
