------------------------------ MODULE ThreadPool ------------------------------
(***************************************************************************)
(* threadpool.c: the pool between the accepting main thread and the worker *)
(* threads of server.c.  pool_submit, pool_fetch and pool_shutdown hold    *)
(* pool->lock from their first access to their last, except while asleep   *)
(* in pthread_cond_wait, so each stretch between two such points is one    *)
(* atomic step here and the mutex needs no variable.  A thread that wakes  *)
(* up, signalled or not, has to take the lock again and re-evaluates its   *)
(* while condition: it goes back to the state it had on entry.             *)
(*                                                                         *)
(* The callers are abstracted to what server.c does with the pool: main    *)
(* submits sockets one at a time, then shuts the pool down once; a worker  *)
(* fetches, serves the socket for as long as its client likes, and fetches *)
(* again.  Server.tla refines both.                                        *)
(***************************************************************************)
EXTENDS Ring, FiniteSets

CONSTANTS
  Sockets,    \* the descriptors main may submit
  Workers,    \* the worker threads, THREAD_POOL_SIZE of them
  QueueSize,  \* QUEUE_SIZE, the length of client_sockets
  NoSocket    \* a value that is no descriptor

ASSUME PoolAssumption ==
  /\ QueueSize \in Nat \ {0}
  /\ NoSocket \notin Sockets
  /\ IsFiniteSet(Workers)

VARIABLES
  pool,        \* the ring [slots, head, tail, count]
  shutdown,    \* pool->shutdown
  mainAt,      \* where main is with respect to the pool
  mainSocket,  \* the argument of main's pool_submit
  workerAt,    \* where each worker is with respect to the pool
  held         \* the socket pool_fetch gave each worker

poolVars == <<pool, shutdown, mainAt, mainSocket, workerAt, held>>

MainStates == {"running", "submit", "wait_not_full", "stopped"}
WorkerStates == {"fetch", "wait_not_empty", "busy", "exited"}

WorkersIn(state) == {w \in Workers : workerAt[w] = state}

TypeOK ==
  /\ pool \in RingType(QueueSize, Sockets \cup {NoSocket})
  /\ shutdown \in BOOLEAN
  /\ mainAt \in MainStates
  /\ mainSocket \in Sockets \cup {NoSocket}
  /\ workerAt \in [Workers -> WorkerStates]
  /\ held \in [Workers -> Sockets \cup {NoSocket}]

-------------------------------------------------------------------------------
pool_init ==
  /\ pool = EmptyRing(QueueSize, NoSocket)
  /\ shutdown = FALSE

Init ==
  /\ pool_init
  /\ mainAt = "running"
  /\ mainSocket = NoSocket
  /\ workerAt = [w \in Workers |-> "fetch"]
  /\ held = [w \in Workers |-> NoSocket]

-------------------------------------------------------------------------------
(* The main thread. *)

\* main calls pool_submit with the socket accept gave it.
CallSubmit(s) ==
  /\ mainAt = "running"
  /\ mainAt' = "submit"
  /\ mainSocket' = s
  /\ UNCHANGED <<pool, shutdown, workerAt, held>>

SubmitWaits ==
  /\ mainAt = "submit"
  /\ IsFull(pool, QueueSize)
  /\ mainAt' = "wait_not_full"
  /\ UNCHANGED <<pool, shutdown, mainSocket, workerAt, held>>

SignalNotEmpty_Nobody == UNCHANGED workerAt

\* pthread_cond_signal(&not_empty) wakes one sleeping worker, if there is one.
SignalNotEmpty ==
  \/ /\ WorkersIn("wait_not_empty") = {}
     /\ UNCHANGED workerAt
  \/ \E w \in WorkersIn("wait_not_empty") : workerAt' = [workerAt EXCEPT ![w] = "fetch"]

SubmitPuts ==
  /\ mainAt = "submit"
  /\ ~IsFull(pool, QueueSize)
  /\ pool' = Enqueue(pool, QueueSize, mainSocket)
  /\ mainAt' = "running"
  /\ mainSocket' = NoSocket
  /\ SignalNotEmpty
  /\ UNCHANGED <<shutdown, held>>

pool_submit == SubmitWaits \/ SubmitPuts

BroadcastNotEmpty_One == SignalNotEmpty

BroadcastNotEmpty ==
  workerAt' = [w \in Workers |->
                 IF workerAt[w] = "wait_not_empty" THEN "fetch" ELSE workerAt[w]]

pool_shutdown ==
  /\ mainAt = "running"
  /\ shutdown' = TRUE
  /\ mainAt' = "stopped"
  /\ BroadcastNotEmpty
  /\ UNCHANGED <<pool, mainSocket, held>>

-------------------------------------------------------------------------------
(* A worker thread w. *)

FetchWaits(w) ==
  /\ workerAt[w] = "fetch"
  /\ pool.count = 0
  /\ ~shutdown
  /\ workerAt' = [workerAt EXCEPT ![w] = "wait_not_empty"]
  /\ UNCHANGED <<pool, shutdown, mainAt, mainSocket, held>>

Finished_EvenIfQueued == shutdown

Finished == pool.count = 0 /\ shutdown

\* The return of -1, on which worker_thread breaks out of its loop.
FetchQuits(w) ==
  /\ workerAt[w] = "fetch"
  /\ Finished
  /\ workerAt' = [workerAt EXCEPT ![w] = "exited"]
  /\ UNCHANGED <<pool, shutdown, mainAt, mainSocket, held>>

SignalNotFull_Nobody == UNCHANGED mainAt

\* pthread_cond_signal(&not_full): main is the only thread that can be waiting.
SignalNotFull ==
  mainAt' = IF mainAt = "wait_not_full" THEN "submit" ELSE mainAt

FetchTakes(w) ==
  /\ workerAt[w] = "fetch"
  /\ pool.count > 0
  /\ held' = [held EXCEPT ![w] = Front(pool)]
  /\ pool' = Dequeue(pool, QueueSize)
  /\ workerAt' = [workerAt EXCEPT ![w] = "busy"]
  /\ SignalNotFull
  /\ UNCHANGED <<shutdown, mainSocket>>

pool_fetch(w) == FetchWaits(w) \/ FetchQuits(w) \/ FetchTakes(w)

\* worker_thread is done with its socket and calls pool_fetch again.
Release(w) ==
  /\ workerAt[w] = "busy"
  /\ workerAt' = [workerAt EXCEPT ![w] = "fetch"]
  /\ held' = [held EXCEPT ![w] = NoSocket]
  /\ UNCHANGED <<pool, shutdown, mainAt, mainSocket>>

-------------------------------------------------------------------------------
\* POSIX lets pthread_cond_wait return without a signal.
SpuriousWakeup ==
  \/ /\ mainAt = "wait_not_full"
     /\ mainAt' = "submit"
     /\ UNCHANGED <<pool, shutdown, mainSocket, workerAt, held>>
  \/ \E w \in WorkersIn("wait_not_empty") :
       /\ workerAt' = [workerAt EXCEPT ![w] = "fetch"]
       /\ UNCHANGED <<pool, shutdown, mainAt, mainSocket, held>>

AllExited == \A w \in Workers : workerAt[w] = "exited"

\* The program has ended: a stutter, so that any other stop is a deadlock.
Ended ==
  /\ mainAt = "stopped"
  /\ AllExited
  /\ UNCHANGED poolVars

Next ==
  \/ \E s \in Sockets : CallSubmit(s)
  \/ pool_submit
  \/ pool_shutdown
  \/ \E w \in Workers : pool_fetch(w) \/ Release(w)
  \/ SpuriousWakeup
  \/ Ended

\* A thread that is not asleep gets the lock in the end and runs on.  Nothing is
\* assumed of Release (a client may keep its worker for ever), of CallSubmit and
\* pool_shutdown (they wait for clients and signals) or of spurious wakeups.
Fairness ==
  /\ WF_poolVars(pool_submit)
  /\ \A w \in Workers : WF_poolVars(pool_fetch(w))

Spec == Init /\ [][Next]_poolVars /\ Fairness

-------------------------------------------------------------------------------
(* Properties *)

\* The circular queue is consistent across wrap-around: tail is count places
\* after head, and no slot in between was overwritten or left unset.
RingIsSound == SoundRing(pool, QueueSize, Sockets, NoSocket)

\* No lost wakeup for the workers: while some worker sleeps on not_empty, every
\* queued socket has an awake worker on its way to fetch it.
NoSleeperOwedWork ==
  WorkersIn("wait_not_empty") # {} => pool.count <= Cardinality(WorkersIn("fetch"))

\* No lost wakeup for main: it sleeps on not_full only while the queue is full.
MainSleepsOnlyIfFull == mainAt = "wait_not_full" => IsFull(pool, QueueSize)

\* After pool_shutdown nobody sleeps on not_empty and main will submit no more,
\* and a worker that has left leaves no socket behind in the queue.
ShutdownWakesAll ==
  /\ shutdown => WorkersIn("wait_not_empty") = {} /\ mainAt = "stopped"
  /\ WorkersIn("exited") # {} => shutdown /\ pool.count = 0

\* A thread holds a socket exactly while it is at a point of the code where its
\* local variable is in use.  With the four above it is inductive.
HandOff ==
  /\ \A w \in Workers : workerAt[w] = "busy" <=> held[w] # NoSocket
  /\ mainAt \in {"submit", "wait_not_full"} <=> mainSocket # NoSocket

IInv ==
  /\ TypeOK
  /\ RingIsSound
  /\ NoSleeperOwedWork
  /\ MainSleepsOnlyIfFull
  /\ ShutdownWakesAll
  /\ HandOff

\* The pool implements the bounded FIFO: sockets go out in the order they came
\* in, each to one worker, none after shutdown is dropped.
PoolAsQueue ==
  INSTANCE TaskQueue WITH
    Tasks <- Sockets, Capacity <- QueueSize, NoTask <- NoSocket,
    queue <- Contents(pool, QueueSize), closed <- shutdown,
    retired <- WorkersIn("exited")

ImplementsTaskQueue == PoolAsQueue!Spec

\* If no client keeps its worker for ever, main is not stuck in pool_submit ...
ClientsLeave == \A w \in Workers : []<>(workerAt[w] # "busy")

SubmitReturns == ClientsLeave => (mainAt = "wait_not_full" ~> mainAt = "running")

\* ... and once the pool is shut down every worker thread terminates.
WorkersTerminate == ClientsLeave => (shutdown ~> AllExited)
===============================================================================
