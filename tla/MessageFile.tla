------------------------------ MODULE MessageFile -----------------------------
(***************************************************************************)
(* The records of persistence.c and the text file they are kept in.  A     *)
(* field (sender, subject, body) is the sequence of the non-empty pieces   *)
(* that '|' divides it into: <<p>> is a string without '|', <<p, q>> the   *)
(* string "p|q", and <<>> both the empty string and "|".  A file is a      *)
(* sequence of records, one for each line that fprintf "%u|%s|%s|%s\n"     *)
(* wrote.                                                                  *)
(***************************************************************************)
EXTENDS Naturals, Sequences

\* What strtok(line, "|") yields after the id: empty fields vanish, and a field
\* with a '|' counts for as many fields as it has pieces.
Tokens(m) == m.sender \o m.subject \o m.body

\* A line with fewer than four tokens is skipped; of the rest the first four count.
Readable(m) == Len(Tokens(m)) >= 3

ReadBack(m) ==
  [id      |-> m.id,
   sender  |-> <<Tokens(m)[1]>>,
   subject |-> <<Tokens(m)[2]>>,
   body    |-> <<Tokens(m)[3]>>]

\* The board that persistence_init has in message_cache once it has read the first n
\* lines of a file: entry k is what it read back from line at[k].
Loads(board, file, n) ==
  \E at \in [1 .. Len(board) -> 1 .. n] :
    /\ \A i, k \in 1 .. Len(board) : i < k => at[i] < at[k]
    /\ {at[k] : k \in 1 .. Len(board)} = {j \in 1 .. n : Readable(file[j])}
    /\ board = [k \in 1 .. Len(board) |-> ReadBack(file[at[k]])]

\* delete_message closes the gap that entry i leaves.
Without(seq, i) ==
  [k \in 1 .. Len(seq) - 1 |-> IF k < i THEN seq[k] ELSE seq[k + 1]]

Ascending(seq) == \A i, j \in 1 .. Len(seq) : i < j => seq[i].id < seq[j].id
===============================================================================
