------------------------------ MODULE MCProtocol ------------------------------
(* Protocol on small sets; its constants are given in MCProtocol.cfg. *)
EXTENDS Protocol
===============================================================================
