--------------------------------- MODULE Board --------------------------------
(***************************************************************************)
(* What the message half of persistence.c promises: a board in memory and  *)
(* a copy of it on disk that is only ever replaced as a whole, by a state  *)
(* the board was in, so that a crash at any moment leaves a board that was *)
(* there once.  No flag, thread, temporary file or partly written line.    *)
(***************************************************************************)
EXTENDS MessageFile

CONSTANTS Drafts, Capacity, Ids

VARIABLES
  up,      \* TRUE while the server runs
  board,   \* the messages, oldest first
  copy,    \* the state of the board about to replace the saved one
  saved    \* what the disk holds

boardVars == <<up, board, copy, saved>>

Init == up = FALSE /\ board = <<>> /\ copy = <<>> /\ saved = <<>>

\* A new message goes last and is numbered above all those on the board.
Post(d, id) ==
  /\ up
  /\ Len(board) < Capacity
  /\ \A k \in 1 .. Len(board) : board[k].id < id
  /\ board' = Append(board, [id |-> id, sender |-> d.sender, subject |-> d.subject, body |-> d.body])
  /\ UNCHANGED <<up, copy, saved>>

Delete(i) ==
  /\ up
  /\ board' = Without(board, i)
  /\ UNCHANGED <<up, copy, saved>>

Copy == up /\ copy' = board /\ UNCHANGED <<up, board, saved>>

Save == up /\ saved' = copy /\ copy' = <<>> /\ UNCHANGED <<up, board>>

Abandon == up /\ copy' = <<>> /\ UNCHANGED <<up, board, saved>>

Stop == up' = FALSE /\ board' = <<>> /\ copy' = <<>> /\ UNCHANGED saved

\* A start reads the disk to the end, or up to the first read error.
Start ==
  /\ ~up
  /\ up' = TRUE
  /\ \E n \in 0 .. Len(saved) : Loads(board', saved, n)
  /\ UNCHANGED <<copy, saved>>

Next ==
  \/ \E d \in Drafts, id \in Ids : Post(d, id)
  \/ \E i \in 1 .. Len(board) : Delete(i)
  \/ Copy \/ Save \/ Abandon \/ Stop \/ Start

Spec == Init /\ [][Next]_boardVars
===============================================================================
