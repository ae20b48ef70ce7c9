-------------------------------- MODULE UserFile -------------------------------
(***************************************************************************)
(* The accounts of persistence.c and the text file they are kept in.  A    *)
(* name and a password are sequences of the words that blanks divide them  *)
(* into: <<"ann">> is the string "ann", <<"ann", "lee">> "ann lee", <<>>   *)
(* the empty one.  A file is the sequence of its words: fscanf, which      *)
(* reads it, does not tell the end of a line from a blank.                 *)
(***************************************************************************)
EXTENDS Naturals, Sequences

\* What fprintf "%s %s\n" adds.
Line(account) == account.name \o account.password

\* fscanf "%31s %31s" until it fails: two words each, an odd one is ignored.
Accounts(words) ==
  [k \in 1 .. Len(words) \div 2 |->
     [name |-> <<words[2 * k - 1]>>, password |-> <<words[2 * k]>>]]

\* What persistence_init has in user_cache if it can read n words.
Load(file, n, max) ==
  LET all == Accounts(SubSeq(file, 1, n))
  IN  SubSeq(all, 1, IF Len(all) < max THEN Len(all) ELSE max)

\* An account that is read back as it was written.
Plain(account) == Len(account.name) = 1 /\ Len(account.password) = 1
===============================================================================
