--------------------------------- MODULE Writer --------------------------------
(***************************************************************************)
(* What a worker thread may expect of a background I/O thread of           *)
(* persistence.c, whichever of the two it is: what it is asked for it      *)
(* does, and it ends when it has been told to and nothing is left.  No     *)
(* queue, flag, mutex, condition variable, sleep or wakeup; and nothing    *)
(* about what is asked for after it has ended, because nobody does that.   *)
(***************************************************************************)
EXTENDS Naturals

CONSTANT Limit  \* so many requests can be waiting; one more is not added to them

VARIABLES
  up,       \* TRUE while the server runs
  running,  \* FALSE once the thread has been told to end
  asked,    \* how many requests wait
  busy,     \* TRUE while the thread serves one
  ended     \* TRUE once the thread has ended

thread == <<asked, busy, ended>>
writerVars == <<up, running, thread>>

Fresh == asked = 0 /\ ~busy /\ ~ended

Init == up = FALSE /\ running = TRUE /\ Fresh

Ask ==
  /\ up /\ asked < Limit
  /\ asked' = asked + 1
  /\ UNCHANGED <<up, running, busy, ended>>

Take ==
  /\ up /\ ~busy /\ ~ended /\ asked > 0
  /\ asked' = asked - 1 /\ busy' = TRUE
  /\ UNCHANGED <<up, running, ended>>

Finish ==
  /\ up /\ busy
  /\ busy' = FALSE
  /\ UNCHANGED <<up, running, asked, ended>>

TellToEnd == up /\ running' = FALSE /\ UNCHANGED <<up, thread>>

End ==
  /\ up /\ ~running /\ ~busy /\ asked = 0
  /\ ended' = TRUE
  /\ UNCHANGED <<up, running, asked, busy>>

Stop == up' = FALSE /\ running' = TRUE /\ Fresh'

Start == ~up /\ up' = TRUE /\ UNCHANGED <<running, thread>>

Next == Ask \/ Take \/ Finish \/ TellToEnd \/ End \/ Stop \/ Start

Spec == Init /\ [][Next]_writerVars /\ WF_writerVars(Take \/ Finish \/ End)
================================================================================
