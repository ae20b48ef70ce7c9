---------------------------- MODULE MCThreadPool ------------------------------
(* ThreadPool on small sets; its constants are given in MCThreadPool.cfg. *)
EXTENDS ThreadPool
===============================================================================
