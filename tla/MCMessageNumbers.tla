--------------------------- MODULE MCMessageNumbers ---------------------------
(* MessageNumbers on small sets. *)
EXTENDS MessageNumbers

MCPieces == {"ann", "s", "b"}

MCDrafts == { [sender |-> <<"ann">>, subject |-> <<"s">>, body |-> <<"b">>] }
===============================================================================
