-------------------------------- MODULE Server --------------------------------
(***************************************************************************)
(* server.c: the main thread's accept loop and graceful shutdown, the      *)
(* signal handler, and the worker threads around handle_client, on top of  *)
(* the pool of ThreadPool.tla, whose variables and actions are used here   *)
(* as they are.  What a client says is left out: for this module a         *)
(* connection is open until its client goes away or shutdown() is called   *)
(* on it, and handle_client serves it until then.                          *)
(*                                                                         *)
(* Descriptors are reused: close makes a number free and a later accept    *)
(* may return it again, while active_sockets still holds it.               *)
(***************************************************************************)
EXTENDS Integers, Sequences, FiniteSets

CONSTANTS Sockets, Workers, QueueSize, NoSocket

\* THREAD_POOL_SIZE and QUEUE_SIZE are not 0.
ASSUME ServerAssumption ==
  /\ IsFiniteSet(Workers) /\ Workers # {}
  /\ QueueSize \in Nat \ {0}
  /\ NoSocket \notin Sockets

VARIABLES
  pool, shutdown, mainAt, mainSocket, workerAt, held,   \* as in ThreadPool
  keep_running,    \* cleared by the signal handler
  active_sockets,  \* active_sockets[w], NoSocket for -1
  conn,            \* what each descriptor is connected to
  mainStep,        \* where main is in server.c
  workerStep       \* where a worker with a socket is in worker_thread

poolVars == <<pool, shutdown, mainAt, mainSocket, workerAt, held>>
serverVars == <<keep_running, active_sockets, conn, mainStep, workerStep>>
vars == <<poolVars, serverVars>>

Pool == INSTANCE ThreadPool

\* "closed": no such descriptor; "open": recv blocks until the client sends;
\* "ended": the client left or shutdown() was called, and recv returns at once.
ConnStates == {"closed", "open", "ended"}

ListeningSteps == {"loop", "accepting", "waiting"}
ShutdownSteps ==
  {"sweep", "pool_shutdown", "persistence_shutdown", "join", "returned"}

\* "none": in pool_fetch, or gone.  "clear": handle_client has returned.
WorkerSteps == {"none", "register", "serving", "clear"}

TypeOK ==
  /\ Pool!TypeOK
  /\ keep_running \in BOOLEAN
  /\ active_sockets \in [Workers -> Sockets \cup {NoSocket}]
  /\ conn \in [Sockets -> ConnStates]
  /\ mainStep \in ListeningSteps \cup ShutdownSteps
  /\ workerStep \in [Workers -> WorkerSteps]

Init ==
  /\ Pool!Init
  /\ keep_running = TRUE
  /\ active_sockets = [w \in Workers |-> NoSocket]
  /\ conn = [s \in Sockets |-> "closed"]
  /\ mainStep = "loop"
  /\ workerStep = [w \in Workers |-> "none"]

-------------------------------------------------------------------------------
(* Signals and clients. *)

\* The handler sets the flag and no more.  Only a main already asleep in accept
\* is interrupted (EINTR, on which it breaks out of the loop): one that has
\* evaluated the while condition and not yet called accept, or that sleeps in
\* pool_submit, is not.
handle_signal ==
  /\ keep_running' = FALSE
  /\ mainStep' = IF mainStep = "waiting" THEN "sweep" ELSE mainStep
  /\ UNCHANGED <<poolVars, active_sockets, conn, workerStep>>

\* A client closes its connection, or the network does.
ClientLeaves(s) ==
  /\ conn[s] = "open"
  /\ conn' = [conn EXCEPT ![s] = "ended"]
  /\ UNCHANGED <<poolVars, keep_running, active_sockets, mainStep, workerStep>>

-------------------------------------------------------------------------------
(* The main thread, in the order of main(). *)

LoopTest ==
  /\ mainStep = "loop"
  /\ mainAt = "running"
  /\ mainStep' = IF keep_running THEN "accepting" ELSE "sweep"
  /\ UNCHANGED <<poolVars, keep_running, active_sockets, conn, workerStep>>

CallAccept ==
  /\ mainStep = "accepting"
  /\ mainStep' = "waiting"
  /\ UNCHANGED <<poolVars, keep_running, active_sockets, conn, workerStep>>

\* accept returns a new descriptor, which main passes to pool_submit.
AcceptReturns(s) ==
  /\ mainStep = "waiting"
  /\ conn[s] = "closed"
  /\ conn' = [conn EXCEPT ![s] = "open"]
  /\ mainStep' = "loop"
  /\ Pool!CallSubmit(s)
  /\ UNCHANGED <<keep_running, active_sockets, workerStep>>

\* Any error but EINTR: reported, and the loop goes on.
AcceptFails ==
  /\ mainStep = "waiting"
  /\ mainStep' = "loop"
  /\ UNCHANGED <<poolVars, keep_running, active_sockets, conn, workerStep>>

Submit_GivesUp ==
  /\ mainAt = "submit" /\ mainAt' = "running"
  /\ UNCHANGED <<pool, shutdown, mainSocket, workerAt, held, serverVars>>

Submit ==
  /\ Pool!pool_submit
  /\ UNCHANGED serverVars

\* Seen by the loop over active_sockets, under active_sockets_mutex.
Swept_NotTheFirst ==
  {active_sockets[w] : w \in Workers \ {CHOOSE first \in Workers : TRUE}}

Swept == {active_sockets[w] : w \in Workers}

\* shutdown() on a number that has been closed fails and changes nothing.
Sweep ==
  /\ mainStep = "sweep"
  /\ conn' = [s \in Sockets |->
                IF conn[s] = "open" /\ s \in Swept THEN "ended" ELSE conn[s]]
  /\ mainStep' = "pool_shutdown"
  /\ UNCHANGED <<poolVars, keep_running, active_sockets, workerStep>>

PoolShutdown ==
  /\ mainStep = "pool_shutdown"
  /\ Pool!pool_shutdown
  /\ mainStep' = "persistence_shutdown"
  /\ UNCHANGED <<keep_running, active_sockets, conn, workerStep>>

\* The call returns once the two I/O threads have ended, for which see Dakty.tla.
PersistenceShutdown ==
  /\ mainStep = "persistence_shutdown"
  /\ mainStep' = "join"
  /\ UNCHANGED <<poolVars, keep_running, active_sockets, conn, workerStep>>

Joined_OnlyOne == \E w \in Workers : workerAt[w] = "exited"

Joined == \A w \in Workers : workerAt[w] = "exited"

JoinWorkers ==
  /\ mainStep = "join"
  /\ Joined
  /\ mainStep' = "returned"
  /\ UNCHANGED <<poolVars, keep_running, active_sockets, conn, workerStep>>

MainThread ==
  LoopTest \/ CallAccept \/ Submit \/ Sweep \/ PoolShutdown \/ PersistenceShutdown \/ JoinWorkers

-------------------------------------------------------------------------------
(* worker_thread. *)

Fetch(w) ==
  /\ Pool!pool_fetch(w)
  /\ workerStep' = [workerStep EXCEPT ![w] = IF workerAt'[w] = "busy" THEN "register" ELSE "none"]
  /\ UNCHANGED <<keep_running, active_sockets, conn, mainStep>>

SetActive_OnlyIfFree(w, s) ==
  active_sockets' = [active_sockets EXCEPT ![w] = IF @ = NoSocket THEN s ELSE @]

SetActive(w, s) == active_sockets' = [active_sockets EXCEPT ![w] = s]

Register(w) ==
  /\ workerStep[w] = "register"
  /\ SetActive(w, held[w])
  /\ workerStep' = [workerStep EXCEPT ![w] = "serving"]
  /\ UNCHANGED <<poolVars, keep_running, conn, mainStep>>

\* handle_client leaves its loop when recv reports the end, and closes.
close_Forgotten(s) == UNCHANGED conn

close(s) == conn' = [conn EXCEPT ![s] = "closed"]

handle_client(w) ==
  /\ workerStep[w] = "serving"
  /\ conn[held[w]] = "ended"
  /\ close(held[w])
  /\ workerStep' = [workerStep EXCEPT ![w] = "clear"]
  /\ UNCHANGED <<poolVars, keep_running, active_sockets, mainStep>>

\* active_sockets[w] = -1, and back to pool_fetch.
Clear(w) ==
  /\ workerStep[w] = "clear"
  /\ SetActive(w, NoSocket)
  /\ workerStep' = [workerStep EXCEPT ![w] = "none"]
  /\ Pool!Release(w)
  /\ UNCHANGED <<keep_running, conn, mainStep>>

WorkerThread(w) == Fetch(w) \/ Register(w) \/ handle_client(w) \/ Clear(w)

Spurious ==
  /\ Pool!SpuriousWakeup
  /\ UNCHANGED serverVars

\* The process has ended; any other stop is a deadlock.
Ended ==
  /\ mainStep = "returned"
  /\ UNCHANGED vars

Next ==
  \/ handle_signal
  \/ \E s \in Sockets : ClientLeaves(s) \/ AcceptReturns(s)
  \/ AcceptFails
  \/ MainThread
  \/ \E w \in Workers : WorkerThread(w)
  \/ Spurious
  \/ Ended

\* Threads that can run are scheduled.  Clients need not come, speak or leave.
Fairness ==
  /\ WF_vars(MainThread)
  /\ \A w \in Workers : WF_vars(WorkerThread(w))

Spec == Init /\ [][Next]_vars /\ Fairness

-------------------------------------------------------------------------------
(* Properties *)

\* A step of the server is a step of the pool or leaves the pool alone, and its
\* scheduling is enough for the pool's: all that holds of ThreadPool holds here.
ImplementsPool == Pool!Spec

\* The workers that may still read, write or close descriptor s.
Users(s) == {w \in Workers : held[w] = s /\ workerStep[w] \in {"register", "serving"}}

Queued == Pool!Contents(pool, QueueSize)

\* Who answers for descriptor s: main, a place of the queue, or a worker.
Owners(s) ==
  {<<"main", k>> : k \in {i \in {0} : mainSocket = s}}
    \cup {<<"queue", k>> : k \in {i \in 1 .. pool.count : Queued[i] = s}}
    \cup {<<"worker", w>> : w \in Users(s)}

\* Every connected descriptor is in exactly one place (in main's hands, once in
\* the queue, or with one worker), and a closed one in none: no connection is
\* leaked, closed twice, or served by two workers, though descriptors are reused.
OneOwner ==
  \A s \in Sockets :
    IF conn[s] = "closed" THEN Owners(s) = {} ELSE \E o \in Owners(s) : Owners(s) = {o}

\* What the sweep can rely on: while a worker is inside handle_client its socket
\* is in active_sockets, and an entry is stale only between close and Clear.
ActiveIsServed ==
  \A w \in Workers :
    /\ workerStep[w] = "serving" => active_sockets[w] = held[w]
    /\ active_sockets[w] # NoSocket => workerStep[w] \in {"serving", "clear"}

\* When main returns, every thread has ended and every connection is closed.
NothingLeftAtExit ==
  mainStep = "returned" =>
    /\ Pool!AllExited
    /\ pool.count = 0
    /\ \A s \in Sockets : conn[s] = "closed"

\* What the proof of these needs besides them and the pool's invariant: where main
\* and the workers are in server.c goes with where they are in the pool.
MainInStep ==
  /\ mainStep \in ListeningSteps \cup {"sweep", "pool_shutdown"} <=> mainAt # "stopped"
  /\ mainStep \in {"accepting", "waiting", "sweep", "pool_shutdown"} => mainAt = "running"
  /\ mainStep = "returned" => Pool!AllExited

WorkersInStep == \A w \in Workers : workerStep[w] # "none" <=> workerAt[w] = "busy"

IInv ==
  /\ TypeOK
  /\ Pool!IInv
  /\ MainInStep
  /\ WorkersInStep
  /\ ActiveIsServed
  /\ OneOwner

\* The sweep frees each worker it finds serving, whatever its client does.
SweepFreesServing ==
  \A w \in Workers :
    (mainStep = "sweep" /\ workerStep[w] = "serving") ~> workerStep[w] = "clear"

\* Every client goes away sooner or later.
ClientsLeave == \A s \in Sockets : []<>(conn[s] # "open")

\* Then every connection accepted reaches a worker, before and during shutdown ...
AcceptedIsServed ==
  ClientsLeave => \A s \in Sockets : (mainSocket = s) ~> (\E w \in Workers : w \in Users(s))

\* ... and a signal ends the server, though it may find main asleep in pool_submit
\* or between two calls: all but a main that is about to call accept, or has done so
\* without being interrupted, runs through the shutdown to its end.
SignalEndsServer ==
  ClientsLeave =>
    (~keep_running /\ mainStep \notin {"accepting", "waiting"} ~> mainStep = "returned")

-------------------------------------------------------------------------------
(* What the documentation says and the code does not do. *)

\* README.md, Graceful Shutdown: shutdown() on the active sockets unblocks the
\* workers waiting for data, so the exit waits for no client.
ShutdownEndsUnaided == mainStep = "sweep" ~> mainStep = "returned"

\* server.c: without SA_RESTART "accept is sure to be interrupted by EINTR".
SignalInterruptsAccept == ~keep_running ~> mainStep # "waiting"
===============================================================================
