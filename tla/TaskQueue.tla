------------------------------ MODULE TaskQueue -------------------------------
(***************************************************************************)
(* What threadpool.c promises, with no array, mutex or condition variable: *)
(* a bounded FIFO from which idle workers take tasks one at a time.  Once  *)
(* closed it takes no more tasks, and a worker retires only when it is     *)
(* closed and empty, so every task accepted is handed to some worker.      *)
(***************************************************************************)
EXTENDS Naturals, Sequences

CONSTANTS Tasks, Workers, Capacity, NoTask

VARIABLES
  queue,    \* the tasks accepted and not yet handed out, oldest first
  closed,   \* TRUE once no further task will come
  held,     \* held[w] is the task worker w is serving, or NoTask
  retired   \* the workers that have terminated

tqVars == <<queue, closed, held, retired>>

Idle(w) == held[w] = NoTask /\ w \notin retired

Init ==
  /\ queue = <<>>
  /\ closed = FALSE
  /\ held = [w \in Workers |-> NoTask]
  /\ retired = {}

Put(x) ==
  /\ ~closed
  /\ Len(queue) < Capacity
  /\ queue' = Append(queue, x)
  /\ UNCHANGED <<closed, held, retired>>

Take(w) ==
  /\ Idle(w)
  /\ queue # <<>>
  /\ held' = [held EXCEPT ![w] = Head(queue)]
  /\ queue' = Tail(queue)
  /\ UNCHANGED <<closed, retired>>

Finish(w) ==
  /\ held[w] # NoTask
  /\ held' = [held EXCEPT ![w] = NoTask]
  /\ UNCHANGED <<queue, closed, retired>>

Close ==
  /\ ~closed
  /\ closed' = TRUE
  /\ UNCHANGED <<queue, held, retired>>

Retire(w) ==
  /\ Idle(w)
  /\ closed
  /\ queue = <<>>
  /\ retired' = retired \cup {w}
  /\ UNCHANGED <<queue, closed, held>>

Next ==
  \/ \E x \in Tasks : Put(x)
  \/ \E w \in Workers : Take(w) \/ Finish(w) \/ Retire(w)
  \/ Close

Spec == Init /\ [][Next]_tqVars
===============================================================================
