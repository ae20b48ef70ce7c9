---------------------------- MODULE MCMessageStore ----------------------------
(* MessageStore on small sets. *)
EXTENDS MessageStore

MCPieces == {"ann", "bob", "s", "t", "b"}

\* An ordinary message, and one with a '|' in its subject whose body is only a '|'.
MCDrafts ==
  { [sender |-> <<"ann">>, subject |-> <<"s">>,      body |-> <<"b">>],
    [sender |-> <<"bob">>, subject |-> <<"s", "t">>, body |-> <<>>] }
===============================================================================
