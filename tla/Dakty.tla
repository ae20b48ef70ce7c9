--------------------------------- MODULE Dakty ---------------------------------
(***************************************************************************)
(* The whole server from its start to the end of its graceful shutdown:    *)
(* Server.tla with the two halves of persistence.c, whose actions are used *)
(* here as they are.  A worker inside handle_client makes the operations   *)
(* its client asks for, one at a time and also those that are still in the *)
(* socket when the client has left or the sweep has shut the connection    *)
(* down; main tells the I/O threads to end and waits for them before it    *)
(* waits for the workers.                                                  *)
(*                                                                         *)
(* There are no crashes here and the disk works; MessageStore.tla and      *)
(* UserStore.tla have both.  The files are empty at the start.             *)
(***************************************************************************)
EXTENDS Integers, Sequences, FiniteSets

CONSTANTS
  Sockets, Workers, QueueSize, NoSocket,                \* as in Server
  Words, Requests, NoUser, MaxUsers, WriteQueueSize, MaxWords,  \* as in UserStore
  Pieces, Drafts, MaxMessages, MaxId                    \* as in MessageStore

ASSUME DaktyAssumption ==
  /\ IsFiniteSet(Workers) /\ Workers # {}
  /\ QueueSize \in Nat \ {0}
  /\ NoSocket \notin Sockets
  /\ MaxUsers \in Nat \ {0} /\ WriteQueueSize \in Nat \ {0} /\ MaxWords \in Nat
  /\ Requests \subseteq [name : Seq(Words), password : Seq(Words)]
  /\ NoUser \notin [name : Seq(Words), password : Seq(Words)]
  /\ MaxMessages \in Nat \ {0} /\ MaxId \in Nat \ {0}
  /\ Drafts \subseteq [sender : Seq(Pieces), subject : Seq(Pieces), body : Seq(Pieces)]

VARIABLES
  pool, shutdown, mainAt, mainSocket, workerAt, held,
  keep_running, active_sockets, conn, mainStep, workerStep,  \* as in Server
  persistence_running,
  user_cache, user_queue, user_arg, user_ioAt, new_user, utenti, dropped, sound,
  message_cache, next_message_id, msg_needs_flush, msg_at, msg_ioAt,
  local_dump, written, messaggi, diskState,
  changing,  \* history: the number of the message a worker has posted or deleted
  answered   \* history: what had been answered when persistence_shutdown was called

serverVars ==
  <<pool, shutdown, mainAt, mainSocket, workerAt, held,
    keep_running, active_sockets, conn, mainStep, workerStep>>
userVars == <<user_cache, user_queue, user_arg, user_ioAt, new_user, utenti, dropped, sound>>
messageVars ==
  <<message_cache, next_message_id, msg_needs_flush, msg_at, msg_ioAt,
    local_dump, written, messaggi, diskState>>
history == <<changing, answered>>
vars == <<serverVars, persistence_running, userVars, messageVars, history>>

Server == INSTANCE Server

\* Both stores are up from the start, and loaded nothing.
Users ==
  INSTANCE UserStore WITH
    proc <- "up", loaded <- 0, running <- persistence_running,
    cache <- user_cache, queue <- user_queue, arg <- user_arg, ioAt <- user_ioAt,
    file <- utenti

Messages ==
  INSTANCE MessageStore WITH
    proc <- "up", readPos <- 1, maxId <- 0, running <- persistence_running,
    cache <- message_cache, nextId <- next_message_id, needsFlush <- msg_needs_flush,
    workerAt <- msg_at, ioAt <- msg_ioAt, dump <- local_dump, file <- messaggi

Nothing == [accounts |-> {}, posted |-> {}, deleted |-> {}]

TypeOK ==
  /\ Server!TypeOK
  /\ Users!TypeOK
  /\ Messages!TypeOK
  /\ changing \in [Workers -> 0 .. MaxId]
  /\ answered \in [accounts : SUBSET Requests, posted : SUBSET (1 .. MaxId),
                   deleted : SUBSET (1 .. MaxId)]

Init ==
  /\ Server!Init
  /\ persistence_running = TRUE
  /\ user_cache = <<>> /\ utenti = <<>> /\ dropped = {} /\ sound = TRUE
  /\ user_queue = Users!EmptyRing(WriteQueueSize, NoUser)
  /\ user_arg = [w \in Workers |-> NoUser]
  /\ user_ioAt = "test" /\ new_user = NoUser
  /\ message_cache = <<>> /\ next_message_id = 1 /\ messaggi = <<>>
  /\ msg_needs_flush = FALSE /\ msg_at = [w \in Workers |-> "idle"]
  /\ msg_ioAt = "test" /\ local_dump = <<>> /\ written = 0 /\ diskState = "loaded"
  /\ changing = [w \in Workers |-> 0]
  /\ answered = Nothing

-------------------------------------------------------------------------------
(* A worker in handle_client. *)

Between(w) == user_arg[w] = NoUser /\ msg_at[w] = "idle"

ChangesUsers == UNCHANGED <<serverVars, messageVars, history>>

ChangesMessages == UNCHANGED <<serverVars, userVars, answered>>

register_user(w, u) ==
  /\ workerStep[w] = "serving" /\ Between(w)
  /\ Users!AddToCache(w, u)
  /\ ChangesUsers

post_message(w, d) ==
  /\ workerStep[w] = "serving" /\ Between(w)
  /\ Messages!save_message(w, d)
  /\ changing' = [changing EXCEPT ![w] = next_message_id]
  /\ ChangesMessages

delete_message(w, id, user) ==
  /\ workerStep[w] = "serving" /\ Between(w)
  /\ Messages!delete_message(w, id, user)
  /\ changing' = [changing EXCEPT ![w] = id]
  /\ ChangesMessages

\* The second half of the operation, after which the reply is sent.
Completes(w) ==
  \/ Users!QueueWrite(w) /\ ChangesUsers
  \/ /\ Messages!trigger_message_flush(w)
     /\ changing' = [changing EXCEPT ![w] = 0]
     /\ ChangesMessages

\* worker_thread, which leaves handle_client only between two operations.
WorkerThread(w) ==
  \/ Completes(w)
  \/ /\ Between(w)
     /\ Server!WorkerThread(w)
     /\ UNCHANGED <<persistence_running, userVars, messageVars, history>>

-------------------------------------------------------------------------------
(* main and the I/O threads. *)

NumbersOn(board) == {board[k].id : k \in 1 .. Len(board)}

Underway == {changing[w] : w \in Workers}

\* persistence_running = 0 and the two signals ...
StopIoThreads ==
  /\ mainStep = "persistence_shutdown"
  /\ Users!persistence_shutdown
  /\ Messages!persistence_shutdown
  /\ answered' =
       [accounts |-> {user_cache[k] : k \in 1 .. Len(user_cache)} \ {user_arg[w] : w \in Workers},
        posted   |-> NumbersOn(message_cache) \ Underway,
        deleted  |-> (1 .. next_message_id - 1) \ (NumbersOn(message_cache) \cup Underway)]
  /\ UNCHANGED <<serverVars, changing>>

IoThreadsJoined_OnlyUsers == user_ioAt = "exited"

\* ... and the two joins.
IoThreadsJoined == user_ioAt = "exited" /\ msg_ioAt = "exited"

MainThread ==
  \/ StopIoThreads
  \/ /\ mainStep = "persistence_shutdown" => IoThreadsJoined
     /\ Server!MainThread
     /\ UNCHANGED <<persistence_running, userVars, messageVars, history>>

user_file_thr ==
  /\ Users!IoThread
  /\ dropped' = dropped
  /\ ChangesUsers

message_file_thr ==
  /\ Messages!IoThread
  /\ diskState' # "failed"
  /\ ChangesMessages
  /\ UNCHANGED changing

\* pthread_cond_wait of an I/O thread may return without a signal.
IoSpurious ==
  \/ Users!IoWakes /\ ChangesUsers
  \/ Messages!IoWakes /\ ChangesMessages /\ UNCHANGED changing

\* Signals, clients, spurious wakeups and the end, as far as the threads of server.c go.
Surroundings ==
  /\ \/ Server!handle_signal
     \/ \E s \in Sockets : Server!ClientLeaves(s) \/ Server!AcceptReturns(s)
     \/ Server!AcceptFails
     \/ Server!Spurious
     \/ Server!Ended
  /\ UNCHANGED <<persistence_running, userVars, messageVars, history>>

Next ==
  \/ \E w \in Workers, u \in Requests : register_user(w, u)
  \/ \E w \in Workers, d \in Drafts : post_message(w, d)
  \/ \E w \in Workers, id \in 1 .. MaxId, d \in Drafts : delete_message(w, id, d.sender)
  \/ \E w \in Workers : WorkerThread(w)
  \/ MainThread
  \/ user_file_thr
  \/ message_file_thr
  \/ IoSpurious
  \/ Surroundings

\* Threads that can run are scheduled; clients need not come, ask for anything or leave.
Fairness ==
  /\ WF_vars(MainThread)
  /\ WF_vars(user_file_thr)
  /\ WF_vars(message_file_thr)
  /\ \A w \in Workers : WF_vars(WorkerThread(w))

Spec == Init /\ [][Next]_vars /\ Fairness

-------------------------------------------------------------------------------
(* Properties *)

Saved == {Users!Accounts(utenti)[k] : k \in 1 .. Len(utenti) \div 2}

\* Once main has joined the I/O threads, what a client had an answer to when
\* persistence_shutdown was called is in the files: the message posted (or it has been
\* deleted since), no message deleted, and the line of the account registered (which is
\* read back as that account if all lines are plain), although workers go on changing
\* both stores while the threads come to their end. There is one exception: an account
\* that found the write queue full is answered with success all the same, and is lost
\* ("Salvataggio perso"). That takes more accounts than the queue has slots.
AnsweredIsSaved ==
  mainStep \in {"join", "returned"} =>
    /\ \A u \in answered.accounts : u \in dropped \/ Users!InFile(u)
    /\ sound => answered.accounts \ dropped \subseteq Saved
    /\ Len(user_cache) <= WriteQueueSize => answered.accounts \cap dropped = {}
    /\ answered.posted \cap NumbersOn(message_cache) \subseteq NumbersOn(messaggi)
    /\ answered.deleted \cap NumbersOn(messaggi) = {}

\* What the proof of this needs besides the invariants of the three parts.  A change of
\* the board is under way as long as its worker has not asked for the flush.
ChangesInStep == \A w \in Workers : changing[w] # 0 <=> msg_at[w] = "trigger"

\* The numbers that the next file must have, and those it must not have: the changes
\* answered so far, or those answered when the shutdown was called.
ToBeSaved ==
  IF persistence_running
    THEN NumbersOn(message_cache) \ Underway
    ELSE answered.posted \cap NumbersOn(message_cache)

ToBeGone ==
  IF persistence_running
    THEN (1 .. next_message_id - 1) \ (NumbersOn(message_cache) \cup Underway)
    ELSE answered.deleted

ShowsAnswered(board) ==
  ToBeSaved \subseteq NumbersOn(board) /\ ToBeGone \cap NumbersOn(board) = {}

\* The board shows them always, the file unless a flush is due, and a copy on its way to
\* the file unless another flush is.
BoardReachesFile ==
  /\ ShowsAnswered(message_cache)
  /\ msg_ioAt \in {"test", "asleep"} => msg_needs_flush \/ ShowsAnswered(messaggi)
  /\ msg_ioAt = "write" => msg_needs_flush \/ ShowsAnswered(local_dump)
  /\ msg_ioAt = "exited" => ShowsAnswered(messaggi)

\* What was answered is out of the workers' hands.
AnsweredIsPast ==
  ~persistence_running =>
    /\ answered.posted \cup answered.deleted \subseteq 1 .. next_message_id - 1
    /\ \A u \in answered.accounts :
         /\ u \in Users!Registered
         /\ \A w \in Workers : user_arg[w] # u

AccountsReachFile ==
  user_ioAt = "exited" =>
    /\ \A u \in answered.accounts : u \in dropped \/ Users!InFile(u)
    /\ sound => answered.accounts \ dropped \subseteq Saved

\* The queue is full of accounts registered before the one that finds it so.
LossNeedsFullQueue == dropped # {} => Len(user_cache) > WriteQueueSize

ThreadsInStep ==
  /\ IoThreadsJoined \/ mainStep \notin {"join", "returned"}
  /\ user_ioAt = "exited" \/ msg_ioAt = "exited" => ~persistence_running

IInv ==
  /\ TypeOK
  /\ Server!IInv
  /\ Users!NamesInv
  /\ Messages!IInv
  /\ ChangesInStep
  /\ BoardReachesFile
  /\ AnsweredIsPast
  /\ AccountsReachFile
  /\ LossNeedsFullQueue
  /\ ThreadsInStep

\* The shutdown of the whole server ends if clients leave: neither does an I/O thread
\* sleep through it or find work for ever, nor a worker wait for one that has ended.
ShutdownEnds == Server!ClientsLeave => (mainStep = "sweep" ~> mainStep = "returned")

-------------------------------------------------------------------------------
(* What the documentation says and the code does not do. *)

\* README.md, Graceful Shutdown: the main thread joins the workers and has the last
\* buffers written to disk, "garantendo zero perdite di dati".
ShutdownSavesAll ==
  mainStep = "returned" =>
    /\ messaggi = message_cache
    /\ {user_cache[k] : k \in 1 .. Len(user_cache)} \ dropped \subseteq Saved
===============================================================================
