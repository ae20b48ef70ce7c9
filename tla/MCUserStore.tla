----------------------------- MODULE MCUserStore -------------------------------
(* UserStore on small sets. *)
EXTENDS UserStore

MCWords == {"ann", "bob", "x"}

\* The same name twice, a name that is the password of another account, and a name
\* with a blank in it.
MCRequests ==
  { [name |-> <<"ann">>, password |-> <<"x">>],
    [name |-> <<"ann">>, password |-> <<"bob">>],
    [name |-> <<"bob">>, password |-> <<"x">>],
    [name |-> <<"ann", "bob">>, password |-> <<"x">>] }
===============================================================================
