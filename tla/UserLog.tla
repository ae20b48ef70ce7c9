-------------------------------- MODULE UserLog --------------------------------
(***************************************************************************)
(* What the user half of persistence.c promises of its file: it only ever  *)
(* grows, by the lines of accounts accepted since the process started,     *)
(* each at most once and in any order; a write that fails may leave part   *)
(* of a line.  No queue, thread or cache.                                  *)
(***************************************************************************)
EXTENDS UserFile

CONSTANT Requests

VARIABLES
  up,       \* TRUE while the server runs
  pending,  \* the accounts accepted and not yet written or given up
  log       \* the lines of the file

logVars == <<up, pending, log>>

Init == up = FALSE /\ pending = {} /\ log = <<>>

Accept(u) ==
  /\ up
  /\ u \notin pending
  /\ pending' = pending \cup {u}
  /\ UNCHANGED <<up, log>>

Write(u) ==
  /\ u \in pending
  /\ log' = log \o Line(u)
  /\ pending' = pending \ {u}
  /\ UNCHANGED up

GiveUp(u) ==
  /\ u \in pending
  /\ pending' = pending \ {u}
  /\ \/ UNCHANGED log
     \/ \E n \in 1 .. Len(Line(u)) - 1 : log' = log \o SubSeq(Line(u), 1, n)
  /\ UNCHANGED up

Start == ~up /\ up' = TRUE /\ UNCHANGED <<pending, log>>

Stop == up' = FALSE /\ pending' = {} /\ UNCHANGED log

Next ==
  \/ \E u \in Requests : Accept(u) \/ Write(u) \/ GiveUp(u)
  \/ Start \/ Stop

Spec == Init /\ [][Next]_logVars
===============================================================================
