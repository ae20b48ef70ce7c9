-------------------------------- MODULE MCDakty --------------------------------
(* Dakty on small sets. *)
EXTENDS Dakty

MCWords == {"ann", "bob", "x"}

MCRequests == { [name |-> <<n>>, password |-> <<"x">>] : n \in {"ann", "bob"} }

\* Enough for the run that looks for a loss of what the queue did take.
MCOneRequest == { [name |-> <<"ann">>, password |-> <<"x">>] }

MCPieces == {"ann", "s", "b"}

MCDrafts == { [sender |-> <<"ann">>, subject |-> <<"s">>, body |-> <<"b">>] }
===============================================================================
