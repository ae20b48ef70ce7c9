------------------------------ MODULE DaktyProofs ------------------------------
(***************************************************************************)
(* The safety of the whole server for any number of sockets, workers and   *)
(* accounts, any queue and any boards: every step is one of the three      *)
(* parts or leaves the part alone, so that each keeps the invariant proved *)
(* for it in a module of its own, and then what is answered and what is on *)
(* its way to the files.                                                   *)
(*                                                                         *)
(* The parts are used here through instances of their proof modules, whose *)
(* operators have the definitions of the instances in Dakty; the lemmas    *)
(* named Same... say so of the three that matter in each.                  *)
(***************************************************************************)
EXTENDS Dakty, SequenceTheorems, FiniteSetTheorems, TLAPS

ServerFacts == INSTANCE ServerProofs

UserFacts ==
  INSTANCE UserStoreProofs WITH
    proc <- "up", loaded <- 0, running <- persistence_running,
    cache <- user_cache, queue <- user_queue, arg <- user_arg, ioAt <- user_ioAt,
    file <- utenti

MessageFacts ==
  INSTANCE MessageStoreProofs WITH
    proc <- "up", readPos <- 1, maxId <- 0, running <- persistence_running,
    cache <- message_cache, nextId <- next_message_id, needsFlush <- msg_needs_flush,
    workerAt <- msg_at, ioAt <- msg_ioAt, dump <- local_dump, file <- messaggi

\* The two instances of Server mean the same.
LEMMA SameServerInit == Server!Init <=> ServerFacts!Init
BY Zenon DEF Server!Init, ServerFacts!Init, Server!Pool!Init, ServerFacts!Pool!Init,
              Server!Pool!pool_init, ServerFacts!Pool!pool_init,
              Server!Pool!EmptyRing, ServerFacts!Pool!EmptyRing,
              Server!Pool!Index, ServerFacts!Pool!Index

\* Their steps ...
LEMMA SameServerNext == Server!Next <=> ServerFacts!Next
BY Zenon DEF Server!Next, ServerFacts!Next, Server!handle_signal, ServerFacts!handle_signal,
              Server!poolVars, ServerFacts!poolVars,
              Server!ClientLeaves, ServerFacts!ClientLeaves,
              Server!AcceptReturns, ServerFacts!AcceptReturns,
              Server!Pool!CallSubmit, ServerFacts!Pool!CallSubmit,
              Server!AcceptFails, ServerFacts!AcceptFails,
              Server!MainThread, ServerFacts!MainThread, Server!LoopTest, ServerFacts!LoopTest,
              Server!CallAccept, ServerFacts!CallAccept, Server!Submit, ServerFacts!Submit,
              Server!Pool!pool_submit, ServerFacts!Pool!pool_submit,
              Server!Pool!SubmitWaits, ServerFacts!Pool!SubmitWaits,
              Server!Pool!IsFull, ServerFacts!Pool!IsFull,
              Server!Pool!SubmitPuts, ServerFacts!Pool!SubmitPuts,
              Server!Pool!Enqueue, ServerFacts!Pool!Enqueue,
              Server!Pool!Following, ServerFacts!Pool!Following,
              Server!Pool!SignalNotEmpty, ServerFacts!Pool!SignalNotEmpty,
              Server!Pool!WorkersIn, ServerFacts!Pool!WorkersIn,
              Server!serverVars, ServerFacts!serverVars, Server!Sweep, ServerFacts!Sweep,
              Server!Swept, ServerFacts!Swept, Server!PoolShutdown, ServerFacts!PoolShutdown,
              Server!Pool!pool_shutdown, ServerFacts!Pool!pool_shutdown,
              Server!Pool!BroadcastNotEmpty, ServerFacts!Pool!BroadcastNotEmpty,
              Server!PersistenceShutdown, ServerFacts!PersistenceShutdown,
              Server!JoinWorkers, ServerFacts!JoinWorkers, Server!Joined, ServerFacts!Joined,
              Server!WorkerThread, ServerFacts!WorkerThread, Server!Fetch, ServerFacts!Fetch,
              Server!Pool!pool_fetch, ServerFacts!Pool!pool_fetch,
              Server!Pool!FetchWaits, ServerFacts!Pool!FetchWaits,
              Server!Pool!FetchQuits, ServerFacts!Pool!FetchQuits,
              Server!Pool!Finished, ServerFacts!Pool!Finished,
              Server!Pool!FetchTakes, ServerFacts!Pool!FetchTakes,
              Server!Pool!Front, ServerFacts!Pool!Front,
              Server!Pool!Dequeue, ServerFacts!Pool!Dequeue,
              Server!Pool!SignalNotFull, ServerFacts!Pool!SignalNotFull,
              Server!Register, ServerFacts!Register, Server!SetActive, ServerFacts!SetActive,
              Server!handle_client, ServerFacts!handle_client, Server!close, ServerFacts!close,
              Server!Clear, ServerFacts!Clear, Server!Pool!Release, ServerFacts!Pool!Release,
              Server!Spurious, ServerFacts!Spurious,
              Server!Pool!SpuriousWakeup, ServerFacts!Pool!SpuriousWakeup,
              Server!Ended, ServerFacts!Ended, Server!vars, ServerFacts!vars

\* ... and their invariants.
LEMMA SameServerInv == Server!IInv <=> ServerFacts!IInv
BY Zenon DEF Server!IInv, ServerFacts!IInv, Server!TypeOK, ServerFacts!TypeOK,
              Server!Pool!TypeOK, ServerFacts!Pool!TypeOK,
              Server!Pool!RingType, ServerFacts!Pool!RingType,
              Server!Pool!Index, ServerFacts!Pool!Index,
              Server!Pool!MainStates, ServerFacts!Pool!MainStates,
              Server!Pool!WorkerStates, ServerFacts!Pool!WorkerStates,
              Server!ConnStates, ServerFacts!ConnStates,
              Server!ListeningSteps, ServerFacts!ListeningSteps,
              Server!ShutdownSteps, ServerFacts!ShutdownSteps,
              Server!WorkerSteps, ServerFacts!WorkerSteps,
              Server!Pool!IInv, ServerFacts!Pool!IInv,
              Server!Pool!RingIsSound, ServerFacts!Pool!RingIsSound,
              Server!Pool!SoundRing, ServerFacts!Pool!SoundRing,
              Server!Pool!SlotOf, ServerFacts!Pool!SlotOf,
              Server!Pool!NoSleeperOwedWork, ServerFacts!Pool!NoSleeperOwedWork,
              Server!Pool!WorkersIn, ServerFacts!Pool!WorkersIn,
              Server!Pool!MainSleepsOnlyIfFull, ServerFacts!Pool!MainSleepsOnlyIfFull,
              Server!Pool!IsFull, ServerFacts!Pool!IsFull,
              Server!Pool!ShutdownWakesAll, ServerFacts!Pool!ShutdownWakesAll,
              Server!Pool!HandOff, ServerFacts!Pool!HandOff,
              Server!Pool!Cardinality, ServerFacts!Pool!Cardinality,
              Server!MainInStep, ServerFacts!MainInStep,
              Server!Pool!AllExited, ServerFacts!Pool!AllExited,
              Server!WorkersInStep, ServerFacts!WorkersInStep,
              Server!ActiveIsServed, ServerFacts!ActiveIsServed,
              Server!OneOwner, ServerFacts!OneOwner, Server!Owners, ServerFacts!Owners,
              Server!Queued, ServerFacts!Queued,
              Server!Pool!Contents, ServerFacts!Pool!Contents, Server!Users, ServerFacts!Users

\* The two instances of UserStore mean the same.
LEMMA SameUserNext == Users!Next <=> UserFacts!Next
BY Zenon DEF Users!Next, UserFacts!Next, Users!QueueWrite, UserFacts!QueueWrite,
              Users!IsFull, UserFacts!IsFull, Users!Enqueue, UserFacts!Enqueue,
              Users!Following, UserFacts!Following, Users!WakeIo, UserFacts!WakeIo,
              Users!AddToCache, UserFacts!AddToCache, Users!NameIsFree, UserFacts!NameIsFree,
              Users!persistence_shutdown, UserFacts!persistence_shutdown,
              Users!IoThread, UserFacts!IoThread, Users!IoTakes, UserFacts!IoTakes,
              Users!Finished, UserFacts!Finished, Users!Front, UserFacts!Front,
              Users!Dequeue, UserFacts!Dequeue, Users!IoAppends, UserFacts!IoAppends,
              Users!AppendSucceeds, UserFacts!AppendSucceeds, Users!Written, UserFacts!Written,
              Users!Line, UserFacts!Line, Users!Plain, UserFacts!Plain,
              Users!AppendFails, UserFacts!AppendFails, Users!IoWakes, UserFacts!IoWakes,
              Users!ProcessEnds, UserFacts!ProcessEnds, Users!EmptyRing, UserFacts!EmptyRing,
              Users!Index, UserFacts!Index, Users!persistence_init, UserFacts!persistence_init,
              Users!Load, UserFacts!Load, Users!Accounts, UserFacts!Accounts

\* ... and so do their invariants.
LEMMA SameUserInv == Users!NamesInv <=> UserFacts!NamesInv
BY Zenon DEF Users!NamesInv, UserFacts!NamesInv, Users!IInv, UserFacts!IInv,
              Users!TypeOK, UserFacts!TypeOK, Users!Account, UserFacts!Account,
              Users!RingType, UserFacts!RingType, Users!Index, UserFacts!Index,
              Users!QueueIsSound, UserFacts!QueueIsSound, Users!SoundRing, UserFacts!SoundRing,
              Users!SlotOf, UserFacts!SlotOf,
              Users!IoSleepsOnlyIfIdle, UserFacts!IoSleepsOnlyIfIdle,
              Users!EveryAccountIsSomewhere, UserFacts!EveryAccountIsSomewhere,
              Users!Registered, UserFacts!Registered, Users!HeldOnce, UserFacts!HeldOnce,
              Users!Holders, UserFacts!Holders, Users!Waiting, UserFacts!Waiting,
              Users!Contents, UserFacts!Contents, Users!InFile, UserFacts!InFile,
              Users!Line, UserFacts!Line, Users!HeldIsRegistered, UserFacts!HeldIsRegistered,
              Users!RegisteredApart, UserFacts!RegisteredApart,
              Users!ThreadHolds, UserFacts!ThreadHolds,
              Users!OnlyUpHolds, UserFacts!OnlyUpHolds,
              Users!FileIsPaired, UserFacts!FileIsPaired, Users!Accounts, UserFacts!Accounts,
              Users!NameIsTakenOnce, UserFacts!NameIsTakenOnce,
              Users!DistinctNames, UserFacts!DistinctNames,
              Users!SettledIsSaved, UserFacts!SettledIsSaved,
              Users!RegisteredOnRequest, UserFacts!RegisteredOnRequest

\* The two instances of MessageStore mean the same.
LEMMA SameMessageNext == Messages!Next <=> MessageFacts!Next
BY Zenon DEF Messages!Next, MessageFacts!Next,
              Messages!save_message, MessageFacts!save_message,
              Messages!Idle, MessageFacts!Idle, Messages!HasRoom, MessageFacts!HasRoom,
              Messages!ChangeCache, MessageFacts!ChangeCache,
              Messages!delete_message, MessageFacts!delete_message,
              Messages!Without, MessageFacts!Without,
              Messages!trigger_message_flush, MessageFacts!trigger_message_flush,
              Messages!SetFlag, MessageFacts!SetFlag, Messages!WakeIo, MessageFacts!WakeIo,
              Messages!persistence_shutdown, MessageFacts!persistence_shutdown,
              Messages!IoThread, MessageFacts!IoThread, Messages!IoTests, MessageFacts!IoTests,
              Messages!IoAtStep, MessageFacts!IoAtStep,
              Messages!IoCopies, MessageFacts!IoCopies, Messages!GiveUp, MessageFacts!GiveUp,
              Messages!FlushOver, MessageFacts!FlushOver,
              Messages!IoWrites, MessageFacts!IoWrites,
              Messages!IoReplaces, MessageFacts!IoReplaces,
              Messages!FullyWritten, MessageFacts!FullyWritten,
              Messages!IoWakes, MessageFacts!IoWakes,
              Messages!ProcessEnds, MessageFacts!ProcessEnds,
              Messages!persistence_init, MessageFacts!persistence_init,
              Messages!ProcessStarts, MessageFacts!ProcessStarts,
              Messages!LoadLine, MessageFacts!LoadLine,
              Messages!Readable, MessageFacts!Readable, Messages!Tokens, MessageFacts!Tokens,
              Messages!ReadBack, MessageFacts!ReadBack,
              Messages!HighestWith, MessageFacts!HighestWith,
              Messages!LoadEnds, MessageFacts!LoadEnds, Messages!Serve, MessageFacts!Serve,
              Messages!LoadFails, MessageFacts!LoadFails

\* ... and so do their invariants.
LEMMA SameMessageInv == Messages!IInv <=> MessageFacts!IInv
BY Zenon DEF Messages!IInv, MessageFacts!IInv, Messages!TypeOK, MessageFacts!TypeOK,
              Messages!IoStates, MessageFacts!IoStates, Messages!Message, MessageFacts!Message,
              Messages!UniqueIds, MessageFacts!UniqueIds,
              Messages!Ascending, MessageFacts!Ascending,
              Messages!NoLostFlush, MessageFacts!NoLostFlush,
              Messages!TriggerDue, MessageFacts!TriggerDue,
              Messages!IoSleepsOnlyIfIdle, MessageFacts!IoSleepsOnlyIfIdle,
              Messages!LoadingInOrder, MessageFacts!LoadingInOrder,
              Messages!CopyIsCurrent, MessageFacts!CopyIsCurrent,
              Messages!OnlyUpMoves, MessageFacts!OnlyUpMoves

-------------------------------------------------------------------------------
\* What is assumed of the constants here is what the three parts assume.
LEMMA PartsMayRun ==
  ServerFacts!ServerAssumption /\ UserFacts!UserAssumption /\ MessageFacts!StoreAssumption
BY DaktyAssumption
DEF ServerFacts!ServerAssumption, ServerFacts!IsFiniteSet, IsFiniteSet,
    UserFacts!UserAssumption, MessageFacts!StoreAssumption

\* The invariant of each part is kept by the steps of that part: first main and the workers,
LEMMA ServerKeepsInvariant ==
  /\ Server!Init => Server!IInv
  /\ Server!IInv /\ [Server!Next]_(Server!vars) => Server!IInv'
<1>1. UNCHANGED Server!vars <=> UNCHANGED ServerFacts!vars
  BY DEF Server!vars, ServerFacts!vars, Server!poolVars, ServerFacts!poolVars,
         Server!serverVars, ServerFacts!serverVars
<1>2. Server!IInv' <=> ServerFacts!IInv'
  BY SameServerInv, PTL
<1>3. QED
  BY <1>1, <1>2, PartsMayRun, SameServerInit, SameServerNext, SameServerInv,
     ServerFacts!InitInv, ServerFacts!StepInv

\* then the store of accounts,
LEMMA UsersKeepInvariant ==
  Users!NamesInv /\ [Users!Next]_(Users!vars) => Users!NamesInv'
<1>1. UNCHANGED Users!vars <=> UNCHANGED UserFacts!vars
  BY DEF Users!vars, UserFacts!vars, Users!memory, UserFacts!memory
<1>2. Users!NamesInv' <=> UserFacts!NamesInv'
  BY SameUserInv, PTL
<1>3. QED
  BY <1>1, <1>2, PartsMayRun, SameUserNext, SameUserInv, UserFacts!StepNames

\* and the store of messages.
LEMMA MessagesKeepInvariant ==
  Messages!IInv /\ [Messages!Next]_(Messages!vars) => Messages!IInv'
<1>1. UNCHANGED Messages!vars <=> UNCHANGED MessageFacts!vars
  BY DEF Messages!vars, MessageFacts!vars, Messages!memory, MessageFacts!memory
<1>2. Messages!IInv' <=> MessageFacts!IInv'
  BY SameMessageInv, PTL
<1>3. QED
  BY <1>1, <1>2, PartsMayRun, SameMessageNext, SameMessageInv, MessageFacts!StepInv

\* The three parts start as their own specifications let them start.
LEMMA InitParts == Init => Server!IInv /\ Users!NamesInv /\ Messages!IInv
<1> SUFFICES ASSUME Init PROVE Server!IInv /\ Users!NamesInv /\ Messages!IInv
  OBVIOUS
<1>1. UserFacts!NothingYet
  BY DEF Init, UserFacts!NothingYet, Users!EmptyRing, UserFacts!EmptyRing, Users!Index,
         UserFacts!Index
<1>2. MessageFacts!NothingYet
  BY DEF Init, MessageFacts!NothingYet
<1>3. Server!IInv
  BY ServerKeepsInvariant DEF Init
<1>4. QED
  BY <1>1, <1>2, <1>3, PartsMayRun, SameUserInv, SameMessageInv, UserFacts!InitNames,
     MessageFacts!InitInv

-------------------------------------------------------------------------------
(* Every step is one of each part, or leaves that part alone. *)

\* What of the server a step of Dakty that is not the server's leaves alone.
LEMMA ServerStays == UNCHANGED serverVars => UNCHANGED Server!vars
BY DEF serverVars, Server!vars, Server!poolVars, Server!serverVars

\* The same for the store of accounts ...
LEMMA UsersStay == UNCHANGED <<persistence_running, userVars>> => UNCHANGED Users!vars
BY DEF userVars, Users!vars, Users!memory

\* ... and for the store of messages.
LEMMA MessagesStay == UNCHANGED <<persistence_running, messageVars>> => UNCHANGED Messages!vars
BY DEF messageVars, Messages!vars, Messages!memory

\* The cases of a step, with what each leaves alone.
LEMMA StepCases ==
  ASSUME [Next]_vars
  PROVE  \/ \E w \in Workers, u \in Requests : register_user(w, u)
         \/ \E w \in Workers, d \in Drafts : post_message(w, d)
         \/ \E w \in Workers, id \in 1 .. MaxId, d \in Drafts : delete_message(w, id, d.sender)
         \/ \E w \in Workers : Users!QueueWrite(w) /\ ChangesUsers
         \/ \E w \in Workers : /\ Messages!trigger_message_flush(w)
                               /\ changing' = [changing EXCEPT ![w] = 0]
                               /\ ChangesMessages
         \/ StopIoThreads
         \/ user_file_thr
         \/ message_file_thr
         \/ Users!IoWakes /\ ChangesUsers
         \/ Messages!IoWakes /\ ChangesMessages /\ UNCHANGED changing
         \/ /\ UNCHANGED <<persistence_running, userVars, messageVars, history>>
            /\ Server!Next \/ UNCHANGED Server!vars
            /\ mainStep = "persistence_shutdown" /\ mainStep' # mainStep => IoThreadsJoined
<1>1. CASE UNCHANGED vars
  BY <1>1, ServerStays DEF vars, serverVars
<1>2. ASSUME NEW w \in Workers, WorkerThread(w), ~Completes(w)
      PROVE  /\ UNCHANGED <<persistence_running, userVars, messageVars, history>>
             /\ Server!Next /\ UNCHANGED mainStep
  BY <1>2 DEF WorkerThread, Server!Next, Server!WorkerThread, Server!Fetch, Server!Register,
              Server!handle_client, Server!Clear
<1>3. CASE MainThread
  BY <1>3 DEF MainThread, Server!Next
<1>4. CASE Surroundings
  <2>1. UNCHANGED <<persistence_running, userVars, messageVars, history>> /\ Server!Next
    BY <1>4 DEF Surroundings, Server!Next
  <2>2. mainStep = "persistence_shutdown" => mainStep' = mainStep
    BY <1>4 DEF Surroundings, Server!handle_signal, Server!ClientLeaves, Server!AcceptReturns,
                Server!AcceptFails, Server!Spurious, Server!Ended, Server!vars, Server!serverVars
  <2>3. QED
    BY <2>1, <2>2
<1>5. QED
  BY <1>1, <1>2, <1>3, <1>4 DEF Next, WorkerThread, Completes, IoSpurious

\* main and the workers do what Server lets them do ...
LEMMA StepOfServer == [Next]_vars => [Server!Next]_(Server!vars)
BY StepCases, ServerStays
DEF register_user, post_message, delete_message, ChangesUsers, ChangesMessages, StopIoThreads,
    user_file_thr, message_file_thr

\* ... the store of accounts what UserStore lets it do ...
LEMMA StepOfUsers == [Next]_vars => [Users!Next]_(Users!vars)
<1> SUFFICES ASSUME [Next]_vars PROVE Users!Next \/ UNCHANGED Users!vars
  OBVIOUS
<1>1. ASSUME NEW w \in Workers, NEW u \in Requests, register_user(w, u) PROVE Users!Next
  BY <1>1 DEF register_user, Users!Next
<1>2. ASSUME NEW w \in Workers, NEW d \in Drafts, post_message(w, d)
      PROVE  UNCHANGED Users!vars
  BY <1>2, UsersStay DEF post_message, ChangesMessages, Messages!save_message,
                         Messages!ChangeCache
<1>3. ASSUME NEW w \in Workers, NEW id \in 1 .. MaxId, NEW d \in Drafts,
             delete_message(w, id, d.sender)
      PROVE  UNCHANGED Users!vars
  BY <1>3, UsersStay DEF delete_message, ChangesMessages, Messages!delete_message,
                         Messages!ChangeCache
<1>4. ASSUME NEW w \in Workers, Users!QueueWrite(w) PROVE Users!Next
  BY <1>4 DEF Users!Next
<1>5. ASSUME NEW w \in Workers, Messages!trigger_message_flush(w), ChangesMessages
      PROVE  UNCHANGED Users!vars
  BY <1>5, UsersStay DEF ChangesMessages, Messages!trigger_message_flush
<1>6. CASE StopIoThreads
  BY <1>6 DEF StopIoThreads, Users!Next
<1>7. CASE user_file_thr
  BY <1>7 DEF user_file_thr, Users!Next
<1>8. CASE message_file_thr
  BY <1>8, UsersStay
  DEF message_file_thr, ChangesMessages, Messages!IoThread, Messages!IoTests,
      Messages!IoCopies, Messages!IoWrites, Messages!IoReplaces
<1>9. UNCHANGED <<persistence_running, userVars>> => UNCHANGED Users!vars
  BY UsersStay
<1>10. Users!IoWakes => Users!Next
  BY DEF Users!Next
<1>11. Messages!IoWakes /\ ChangesMessages => UNCHANGED Users!vars
  BY UsersStay DEF ChangesMessages, Messages!IoWakes
<1>12. QED
  BY <1>1, <1>2, <1>3, <1>4, <1>5, <1>6, <1>7, <1>8, <1>9, <1>10, <1>11, StepCases

\* ... and the board what MessageStore lets it do.
LEMMA StepOfMessages == [Next]_vars => [Messages!Next]_(Messages!vars)
<1> SUFFICES ASSUME [Next]_vars PROVE Messages!Next \/ UNCHANGED Messages!vars
  OBVIOUS
<1>1. ASSUME NEW w \in Workers, NEW u \in Requests, register_user(w, u)
      PROVE  UNCHANGED Messages!vars
  BY <1>1, MessagesStay DEF register_user, ChangesUsers, Users!AddToCache
<1>2. ASSUME NEW w \in Workers, NEW d \in Drafts, post_message(w, d) PROVE Messages!Next
  BY <1>2 DEF post_message, Messages!Next
<1>3. ASSUME NEW w \in Workers, NEW id \in 1 .. MaxId, NEW d \in Drafts,
             delete_message(w, id, d.sender)
      PROVE  Messages!Next
  BY <1>3 DEF delete_message, Messages!Next
<1>4. ASSUME NEW w \in Workers, Users!QueueWrite(w), ChangesUsers
      PROVE  UNCHANGED Messages!vars
  BY <1>4, MessagesStay DEF ChangesUsers, Users!QueueWrite
<1>5. ASSUME NEW w \in Workers, Messages!trigger_message_flush(w) PROVE Messages!Next
  BY <1>5 DEF Messages!Next
<1>6. CASE StopIoThreads
  BY <1>6 DEF StopIoThreads, Messages!Next
<1>7. CASE user_file_thr
  BY <1>7, MessagesStay
  DEF user_file_thr, ChangesUsers, Users!IoThread, Users!IoTakes, Users!IoAppends
<1>8. CASE message_file_thr
  BY <1>8 DEF message_file_thr, Messages!Next
<1>9. UNCHANGED <<persistence_running, messageVars>> => UNCHANGED Messages!vars
  BY MessagesStay
<1>10. Users!IoWakes /\ ChangesUsers => UNCHANGED Messages!vars
  BY MessagesStay DEF ChangesUsers, Users!IoWakes
<1>11. Messages!IoWakes => Messages!Next
  BY DEF Messages!Next
<1>12. QED
  BY <1>1, <1>2, <1>3, <1>4, <1>5, <1>6, <1>7, <1>8, <1>9, <1>10, <1>11, StepCases

-------------------------------------------------------------------------------
(* Where the threads are. *)

\* Neither I/O thread comes back, and persistence_shutdown is not taken back.
LEMMA ExitIsFinal ==
  ASSUME [Next]_vars
  PROVE  /\ user_ioAt = "exited" => user_ioAt' = "exited"
         /\ msg_ioAt = "exited" => msg_ioAt' = "exited"
         /\ ~persistence_running => ~persistence_running'
<1>1. ASSUME NEW w \in Workers, NEW u \in Requests, register_user(w, u)
      PROVE  UNCHANGED <<persistence_running, user_ioAt, msg_ioAt>>
  BY <1>1 DEF register_user, ChangesUsers, Users!AddToCache, messageVars
<1>2. ASSUME NEW w \in Workers, NEW d \in Drafts, post_message(w, d)
      PROVE  UNCHANGED <<persistence_running, user_ioAt, msg_ioAt>>
  BY <1>2 DEF post_message, ChangesMessages, Messages!save_message, Messages!ChangeCache, userVars
<1>3. ASSUME NEW w \in Workers, NEW id \in 1 .. MaxId, NEW d \in Drafts,
             delete_message(w, id, d.sender)
      PROVE  UNCHANGED <<persistence_running, user_ioAt, msg_ioAt>>
  BY <1>3 DEF delete_message, ChangesMessages, Messages!delete_message, Messages!ChangeCache,
              userVars
<1>4. ASSUME NEW w \in Workers, Users!QueueWrite(w), ChangesUsers
      PROVE  /\ UNCHANGED <<persistence_running, msg_ioAt>>
             /\ user_ioAt = "exited" => user_ioAt' = "exited"
  BY <1>4 DEF ChangesUsers, Users!QueueWrite, Users!WakeIo, messageVars
<1>5. ASSUME NEW w \in Workers, Messages!trigger_message_flush(w), ChangesMessages
      PROVE  /\ UNCHANGED <<persistence_running, user_ioAt>>
             /\ msg_ioAt = "exited" => msg_ioAt' = "exited"
  BY <1>5 DEF ChangesMessages, Messages!trigger_message_flush, Messages!WakeIo, userVars
<1>6. CASE StopIoThreads
  BY <1>6 DEF StopIoThreads, Users!persistence_shutdown, Messages!persistence_shutdown,
              Users!WakeIo, Messages!WakeIo
<1>7. CASE user_file_thr
  BY <1>7 DEF user_file_thr, ChangesUsers, messageVars, Users!IoThread, Users!IoTakes,
              Users!IoAppends
<1>8. CASE message_file_thr
  BY <1>8 DEF message_file_thr, ChangesMessages, userVars, Messages!IoThread, Messages!IoTests,
              Messages!IoCopies, Messages!IoWrites, Messages!IoReplaces, Messages!IoAtStep
<1>9. UNCHANGED <<persistence_running, userVars, messageVars, history>>
        => UNCHANGED <<persistence_running, user_ioAt, msg_ioAt>>
  BY DEF userVars, messageVars
<1>10. Users!IoWakes /\ ChangesUsers
         => UNCHANGED <<persistence_running, msg_ioAt>> /\ user_ioAt # "exited"
  BY DEF ChangesUsers, messageVars, Users!IoWakes
<1>11. Messages!IoWakes /\ ChangesMessages
         => UNCHANGED <<persistence_running, user_ioAt>> /\ msg_ioAt # "exited"
  BY DEF ChangesMessages, userVars, Messages!IoWakes, Messages!IoAtStep
<1>12. QED
  BY <1>1, <1>2, <1>3, <1>4, <1>5, <1>6, <1>7, <1>8, <1>9, <1>10, <1>11, StepCases

\* An I/O thread ends only when it has been told to.
LEMMA ExitsWhenTold ==
  ASSUME [Next]_vars
  PROVE  /\ user_ioAt # "exited" /\ user_ioAt' = "exited" =>
              user_file_thr /\ user_ioAt = "test" /\ user_queue.count = 0 /\ ~persistence_running
         /\ msg_ioAt # "exited" /\ msg_ioAt' = "exited" =>
              message_file_thr /\ ~persistence_running
<1>1. ASSUME NEW w \in Workers, NEW u \in Requests, register_user(w, u)
      PROVE  UNCHANGED <<user_ioAt, msg_ioAt>>
  BY <1>1 DEF register_user, ChangesUsers, Users!AddToCache, messageVars
<1>2. ASSUME NEW w \in Workers, NEW d \in Drafts, post_message(w, d)
      PROVE  UNCHANGED <<user_ioAt, msg_ioAt>>
  BY <1>2 DEF post_message, ChangesMessages, Messages!save_message, Messages!ChangeCache, userVars
<1>3. ASSUME NEW w \in Workers, NEW id \in 1 .. MaxId, NEW d \in Drafts,
             delete_message(w, id, d.sender)
      PROVE  UNCHANGED <<user_ioAt, msg_ioAt>>
  BY <1>3 DEF delete_message, ChangesMessages, Messages!delete_message, Messages!ChangeCache,
              userVars
<1>4. ASSUME NEW w \in Workers, Users!QueueWrite(w), ChangesUsers
      PROVE  msg_ioAt' = msg_ioAt /\ (user_ioAt' = "exited" => user_ioAt = "exited")
  BY <1>4 DEF ChangesUsers, Users!QueueWrite, Users!WakeIo, messageVars
<1>5. ASSUME NEW w \in Workers, Messages!trigger_message_flush(w), ChangesMessages
      PROVE  user_ioAt' = user_ioAt /\ (msg_ioAt' = "exited" => msg_ioAt = "exited")
  BY <1>5 DEF ChangesMessages, Messages!trigger_message_flush, Messages!WakeIo, userVars
<1>6. CASE StopIoThreads
  BY <1>6 DEF StopIoThreads, Users!persistence_shutdown, Messages!persistence_shutdown,
              Users!WakeIo, Messages!WakeIo
<1>7. CASE user_file_thr
  BY <1>7 DEF user_file_thr, ChangesUsers, messageVars, Users!IoThread, Users!IoTakes,
              Users!IoAppends, Users!Finished
<1>8. CASE message_file_thr
  BY <1>8 DEF message_file_thr, ChangesMessages, userVars, Messages!IoThread, Messages!IoTests,
              Messages!IoCopies, Messages!IoWrites, Messages!IoReplaces, Messages!GiveUp,
              Messages!FlushOver
<1>9. UNCHANGED <<persistence_running, userVars, messageVars, history>>
        => UNCHANGED <<user_ioAt, msg_ioAt>>
  BY DEF userVars, messageVars
<1>10. Users!IoWakes /\ ChangesUsers => msg_ioAt' = msg_ioAt /\ user_ioAt' = "test"
  BY DEF ChangesUsers, messageVars, Users!IoWakes
<1>11. Messages!IoWakes /\ ChangesMessages => user_ioAt' = user_ioAt /\ msg_ioAt' = "test"
  BY DEF ChangesMessages, userVars, Messages!IoWakes
<1>12. QED
  BY <1>1, <1>2, <1>3, <1>4, <1>5, <1>6, <1>7, <1>8, <1>9, <1>10, <1>11, StepCases

\* main passes persistence_shutdown only when both have ended.
LEMMA StepThreads == ThreadsInStep /\ [Next]_vars => ThreadsInStep'
<1> SUFFICES ASSUME ThreadsInStep, [Next]_vars PROVE ThreadsInStep'
  OBVIOUS
<1>1. mainStep' \in {"join", "returned"} => mainStep \in {"join", "returned"} \/ IoThreadsJoined
  <2>1. UNCHANGED serverVars => mainStep' = mainStep
    BY DEF serverVars
  <2>2. Server!Next /\ mainStep' \in {"join", "returned"}
          => mainStep \in {"join", "returned", "persistence_shutdown"}
    BY DEF Server!Next, Server!handle_signal, Server!ClientLeaves, Server!AcceptReturns,
           Server!AcceptFails, Server!MainThread, Server!LoopTest, Server!CallAccept, Server!Submit,
           Server!Sweep, Server!PoolShutdown, Server!PersistenceShutdown, Server!JoinWorkers,
           Server!WorkerThread, Server!Fetch, Server!Register, Server!handle_client, Server!Clear,
           Server!Spurious, Server!Ended, Server!vars, Server!serverVars
  <2>3. UNCHANGED Server!vars => mainStep' = mainStep
    BY DEF Server!vars, Server!serverVars
  <2>4. QED
    BY <2>1, <2>2, <2>3, StepCases
    DEF register_user, post_message, delete_message, ChangesUsers, ChangesMessages,
        StopIoThreads, user_file_thr, message_file_thr
<1>2. QED
  BY <1>1, ExitIsFinal, ExitsWhenTold DEF ThreadsInStep, IoThreadsJoined

-------------------------------------------------------------------------------
(* The numbers on the board. *)

\* A number on a board is that of one of its messages.
LEMMA NumberCases ==
  ASSUME NEW board, NEW n
  PROVE  n \in NumbersOn(board) <=> \E k \in 1 .. Len(board) : board[k].id = n
BY DEF NumbersOn

\* A message has a number.
LEMMA MessageHasNumber ==
  ASSUME NEW m \in Messages!Message
  PROVE  m.id \in 1 .. MaxId /\ m.id \in Nat
<1>1. m.id \in 1 .. MaxId
  BY DEF Messages!Message
<1>2. QED
  BY <1>1, DaktyAssumption

\* Posting adds one.
LEMMA PostAdds ==
  ASSUME NEW board \in Seq(Messages!Message), NEW m \in Messages!Message
  PROVE  NumbersOn(Append(board, m)) = NumbersOn(board) \cup {m.id}
<1> DEFINE more == Append(board, m)
<1>1. /\ Len(more) = Len(board) + 1 /\ Len(board) \in Nat /\ more[Len(board) + 1] = m
      /\ \A k \in 1 .. Len(board) : more[k] = board[k]
  OBVIOUS
<1> HIDE DEF more
<1>2. ASSUME NEW n, n \in NumbersOn(more) PROVE n \in NumbersOn(board) \cup {m.id}
  <2>1. PICK k \in 1 .. Len(more) : more[k].id = n
    BY <1>2, NumberCases
  <2>2. k \in 1 .. Len(board) \/ k = Len(board) + 1
    BY <1>1
  <2>3. QED
    BY <1>1, <2>1, <2>2, NumberCases
<1>3. ASSUME NEW n, n \in NumbersOn(board) PROVE n \in NumbersOn(more)
  <2>1. PICK k \in 1 .. Len(board) : board[k].id = n
    BY <1>3, NumberCases
  <2>2. k \in 1 .. Len(more) /\ more[k].id = n
    BY <1>1, <2>1
  <2>3. QED
    BY <2>2, NumberCases
<1>4. m.id \in NumbersOn(more)
  <2>1. Len(board) + 1 \in 1 .. Len(more)
    BY <1>1
  <2>2. QED
    BY <1>1, <2>1, NumberCases
<1>5. QED
  BY <1>2, <1>3, <1>4 DEF more

\* Deleting takes one away: no other message has it.
LEMMA DeleteRemoves ==
  ASSUME NEW board \in Seq(Messages!Message), Messages!Ascending(board), NEW i \in 1 .. Len(board)
  PROVE  NumbersOn(Messages!Without(board, i)) = NumbersOn(board) \ {board[i].id}
<1> DEFINE less == Messages!Without(board, i)
<1>1. /\ Len(board) \in Nat /\ Len(less) = Len(board) - 1
      /\ \A k \in 1 .. Len(board) - 1 : less[k] = IF k < i THEN board[k] ELSE board[k + 1]
  BY DEF Messages!Without
<1>2. \A k, j \in 1 .. Len(board) : board[k].id = board[j].id => k = j
  <2>1. \A k \in 1 .. Len(board) : board[k] \in Messages!Message
    BY ElementOfSeq
  <2>2. \A k \in 1 .. Len(board) : board[k].id \in Nat
    BY <2>1, MessageHasNumber
  <2>3. QED
    BY <1>1, <2>2 DEF Messages!Ascending
<1> HIDE DEF less
<1>3. ASSUME NEW n, n \in NumbersOn(less) PROVE n \in NumbersOn(board) /\ n # board[i].id
  <2>1. PICK k \in 1 .. Len(less) : less[k].id = n
    BY <1>3, NumberCases
  <2>2. PICK j \in 1 .. Len(board) : j # i /\ board[j].id = n
    <3>1. CASE k < i
      BY <1>1, <2>1, <3>1
    <3>2. CASE ~(k < i)
      <4>1. k + 1 \in 1 .. Len(board) /\ k + 1 # i /\ board[k + 1].id = n
        BY <1>1, <2>1, <3>2
      <4>2. QED
        BY <4>1
    <3>3. QED
      BY <3>1, <3>2
  <2>3. QED
    BY <1>2, <2>2, NumberCases
<1>4. ASSUME NEW n, n \in NumbersOn(board), n # board[i].id PROVE n \in NumbersOn(less)
  <2>1. PICK k \in 1 .. Len(board) : board[k].id = n /\ k # i
    BY <1>4, NumberCases
  <2>2. CASE k < i
    <3>1. k \in 1 .. Len(less) /\ less[k].id = n
      BY <1>1, <2>1, <2>2
    <3>2. QED
      BY <3>1, NumberCases
  <2>3. CASE ~(k < i)
    <3>1. k - 1 \in 1 .. Len(less) /\ less[k - 1].id = n
      BY <1>1, <2>1, <2>3
    <3>2. QED
      BY <3>1, NumberCases
  <2>4. QED
    BY <2>2, <2>3
<1>5. QED
  BY <1>3, <1>4 DEF less

\* The numbers on the board have all been given out.
LEMMA NumbersArePast ==
  ASSUME Messages!IInv
  PROVE  /\ next_message_id \in Nat /\ next_message_id <= MaxId + 1
         /\ NumbersOn(message_cache) \subseteq 1 .. next_message_id - 1
         /\ next_message_id - 1 <= MaxId
<1>1. /\ next_message_id \in 1 .. MaxId + 1 /\ message_cache \in Seq(Messages!Message)
      /\ \A k \in 1 .. Len(message_cache) : message_cache[k].id < next_message_id
  BY DEF Messages!IInv, Messages!TypeOK, Messages!UniqueIds
<1>2. \A k \in 1 .. Len(message_cache) : message_cache[k] \in Messages!Message
  BY <1>1, ElementOfSeq
<1>3. \A k \in 1 .. Len(message_cache) : message_cache[k].id \in 1 .. next_message_id - 1
  <2>1. \A k \in 1 .. Len(message_cache) : message_cache[k].id \in 1 .. MaxId
    BY <1>2, MessageHasNumber
  <2>2. QED
    BY <1>1, <2>1, DaktyAssumption
<1>4. NumbersOn(message_cache) \subseteq 1 .. next_message_id - 1
  BY <1>3 DEF NumbersOn
<1>5. QED
  BY <1>1, <1>4, DaktyAssumption

-------------------------------------------------------------------------------
(* What is answered. *)

\* A change is under way between the two halves of an operation on the board.
LEMMA StepChanges ==
  ASSUME IInv, [Next]_vars
  PROVE  changing' \in [Workers -> 0 .. MaxId] /\ ChangesInStep'
<1>1. changing \in [Workers -> 0 .. MaxId] /\ msg_at \in [Workers -> {"idle", "trigger"}]
  BY DEF IInv, TypeOK, Messages!TypeOK
<1>2. ASSUME NEW w \in Workers, NEW d \in Drafts, post_message(w, d)
      PROVE  changing' \in [Workers -> 0 .. MaxId] /\ ChangesInStep'
  <2>1. /\ next_message_id <= MaxId /\ changing' = [changing EXCEPT ![w] = next_message_id]
        /\ msg_at' = [msg_at EXCEPT ![w] = "trigger"]
    BY <1>2 DEF post_message, Messages!save_message, Messages!ChangeCache
  <2>2. next_message_id \in 1 .. MaxId
    BY <2>1, DaktyAssumption DEF IInv, Messages!IInv, Messages!TypeOK
  <2>3. QED
    BY <1>1, <2>1, <2>2, DaktyAssumption DEF IInv, ChangesInStep
<1>3. ASSUME NEW w \in Workers, NEW id \in 1 .. MaxId, NEW d \in Drafts,
             delete_message(w, id, d.sender)
      PROVE  changing' \in [Workers -> 0 .. MaxId] /\ ChangesInStep'
  <2>1. changing' = [changing EXCEPT ![w] = id] /\ msg_at' = [msg_at EXCEPT ![w] = "trigger"]
    BY <1>3 DEF delete_message, Messages!delete_message, Messages!ChangeCache
  <2>2. QED
    BY <1>1, <2>1, DaktyAssumption DEF IInv, ChangesInStep
<1>4. ASSUME NEW w \in Workers, Messages!trigger_message_flush(w),
             changing' = [changing EXCEPT ![w] = 0]
      PROVE  changing' \in [Workers -> 0 .. MaxId] /\ ChangesInStep'
  <2>1. msg_at' = [msg_at EXCEPT ![w] = "idle"]
    BY <1>4 DEF Messages!trigger_message_flush
  <2>2. QED
    BY <1>1, <1>4, <2>1, DaktyAssumption DEF IInv, ChangesInStep
<1>5. UNCHANGED <<changing, msg_at>> => changing' \in [Workers -> 0 .. MaxId] /\ ChangesInStep'
  BY <1>1 DEF IInv, ChangesInStep
<1>6. message_file_thr \/ StopIoThreads => UNCHANGED <<changing, msg_at>>
  BY DEF message_file_thr, StopIoThreads, Messages!persistence_shutdown, Messages!IoThread,
         Messages!IoTests, Messages!IoCopies, Messages!IoWrites, Messages!IoReplaces
<1>7. Messages!IoWakes /\ UNCHANGED changing => UNCHANGED <<changing, msg_at>>
  BY DEF Messages!IoWakes
<1>8. ChangesUsers \/ UNCHANGED <<persistence_running, userVars, messageVars, history>>
        => UNCHANGED <<changing, msg_at>>
  BY DEF ChangesUsers, messageVars, history
<1>9. QED
  BY <1>2, <1>3, <1>4, <1>5, <1>6, <1>7, <1>8, StepCases DEF register_user, user_file_thr

\* What had been answered when persistence_shutdown was called is written down then, once.
LEMMA AnsweredStays ==
  ASSUME [Next]_vars, ~StopIoThreads
  PROVE  UNCHANGED <<answered, persistence_running>>
BY StepCases
DEF register_user, post_message, delete_message, ChangesUsers, ChangesMessages, history,
    user_file_thr, message_file_thr, Users!AddToCache, Users!QueueWrite, Users!IoThread,
    Users!IoTakes, Users!IoAppends, Messages!save_message, Messages!delete_message,
    Messages!ChangeCache, Messages!trigger_message_flush, Messages!IoThread, Messages!IoTests,
    Messages!IoCopies, Messages!IoWrites, Messages!IoReplaces, Users!IoWakes, Messages!IoWakes

\* It is what was in the stores and in nobody's hands.
LEMMA ShutdownAnswers ==
  ASSUME IInv, StopIoThreads
  PROVE  /\ answered' \in [accounts : SUBSET Requests, posted : SUBSET (1 .. MaxId),
                           deleted : SUBSET (1 .. MaxId)]
         /\ answered'.accounts \subseteq Users!Registered
         /\ \A u \in answered'.accounts : \A w \in Workers : user_arg[w] # u
         /\ answered'.posted = NumbersOn(message_cache) \ Underway
         /\ answered'.deleted =
              (1 .. next_message_id - 1) \ (NumbersOn(message_cache) \cup Underway)
<1>1. answered' =
        [accounts |-> {user_cache[k] : k \in 1 .. Len(user_cache)} \ {user_arg[w] : w \in Workers},
         posted   |-> NumbersOn(message_cache) \ Underway,
         deleted  |-> (1 .. next_message_id - 1) \ (NumbersOn(message_cache) \cup Underway)]
  BY DEF StopIoThreads
<1>2. {user_cache[k] : k \in 1 .. Len(user_cache)} = Users!Registered
  BY DEF Users!Registered
<1>3. Users!Registered \subseteq Requests
  BY DEF IInv, Users!NamesInv, Users!RegisteredOnRequest
<1>4. 1 .. next_message_id - 1 \subseteq 1 .. MaxId /\ NumbersOn(message_cache) \subseteq 1 .. MaxId
  BY NumbersArePast, DaktyAssumption DEF IInv
<1>5. answered' \in [accounts : SUBSET Requests, posted : SUBSET (1 .. MaxId),
                     deleted : SUBSET (1 .. MaxId)]
  BY <1>1, <1>2, <1>3, <1>4
<1>6. QED
  BY <1>1, <1>2, <1>5

\* Numbers that have been given out stay so, and so do names.
LEMMA PastStays ==
  ASSUME IInv, [Next]_vars
  PROVE  /\ 1 .. next_message_id - 1 \subseteq 1 .. next_message_id' - 1
         /\ \A u \in Users!Registered :
              /\ u \in Users!Registered'
              /\ \A w \in Workers : user_arg'[w] = u => user_arg[w] = u
<1>1. next_message_id \in Nat
  BY NumbersArePast DEF IInv
<1>2. next_message_id' = next_message_id \/ next_message_id' = next_message_id + 1
  BY StepCases
  DEF register_user, post_message, delete_message, ChangesUsers, ChangesMessages, history,
      user_file_thr, message_file_thr, StopIoThreads, messageVars, Messages!persistence_shutdown,
      Messages!save_message, Messages!delete_message, Messages!ChangeCache,
      Messages!trigger_message_flush, Messages!IoThread, Messages!IoTests,
      Messages!IoCopies, Messages!IoWrites, Messages!IoReplaces, Messages!IoWakes
<1>3. 1 .. next_message_id - 1 \subseteq 1 .. next_message_id' - 1
  BY <1>1, <1>2
<1>4. user_cache \in Seq(Users!Account) /\ user_arg \in [Workers -> Users!Account \cup {NoUser}]
  BY DEF IInv, Users!NamesInv, Users!IInv, Users!TypeOK
<1>5. ASSUME NEW w \in Workers, NEW u \in Requests, register_user(w, u),
             NEW v \in Users!Registered
      PROVE  /\ v \in Users!Registered'
             /\ \A x \in Workers : user_arg'[x] = v => user_arg[x] = v
  <2>1. /\ user_cache' = Append(user_cache, u) /\ user_arg' = [user_arg EXCEPT ![w] = u]
        /\ \A k \in 1 .. Len(user_cache) : user_cache[k].name # u.name
    BY <1>5 DEF register_user, Users!AddToCache, Users!NameIsFree
  <2>2. PICK k \in 1 .. Len(user_cache) : user_cache[k] = v
    BY DEF Users!Registered
  <2>3. k \in 1 .. Len(user_cache') /\ user_cache'[k] = v
    BY <1>4, <2>1, <2>2
  <2>4. v # u
    BY <2>1, <2>2
  <2>5. \A x \in Workers : user_arg'[x] = v => user_arg[x] = v
    BY <1>4, <2>1, <2>4
  <2>6. v \in Users!Registered'
    BY <2>3 DEF Users!Registered
  <2>7. QED
    BY <2>1, <2>5, <2>6
<1>6. UNCHANGED user_cache => Users!Registered' = Users!Registered
  BY DEF Users!Registered
<1>7. ASSUME NEW w \in Workers, Users!QueueWrite(w), NEW v \in Users!Registered
      PROVE  /\ UNCHANGED user_cache
             /\ \A x \in Workers : user_arg'[x] = v => user_arg[x] = v
  <2>1. UNCHANGED user_cache /\ user_arg' = [user_arg EXCEPT ![w] = NoUser]
    BY <1>7 DEF Users!QueueWrite
  <2>2. v # NoUser
    <3>1. v \in Requests
      BY DEF IInv, Users!NamesInv, Users!RegisteredOnRequest
    <3>2. QED
      BY <3>1, DaktyAssumption
  <2>3. QED
    BY <1>4, <2>1, <2>2
<1>8. StopIoThreads \/ user_file_thr \/ Users!IoWakes => UNCHANGED <<user_cache, user_arg>>
  BY DEF StopIoThreads, user_file_thr, Users!persistence_shutdown, Users!IoThread, Users!IoTakes,
         Users!IoAppends, Users!IoWakes
<1>9. UNCHANGED userVars => UNCHANGED <<user_cache, user_arg>>
  BY DEF userVars
<1>10. \/ \E w \in Workers, u \in Requests : register_user(w, u)
       \/ \E w \in Workers : Users!QueueWrite(w)
       \/ UNCHANGED <<user_cache, user_arg>>
  BY <1>8, <1>9, StepCases DEF post_message, delete_message, ChangesMessages, message_file_thr
<1>11. QED
  BY <1>3, <1>5, <1>6, <1>7, <1>10

\* What was answered is past when the shutdown is called, and stays so.
LEMMA StepAnswered ==
  ASSUME IInv, [Next]_vars
  PROVE  /\ answered' \in [accounts : SUBSET Requests, posted : SUBSET (1 .. MaxId),
                           deleted : SUBSET (1 .. MaxId)]
         /\ AnsweredIsPast'
<1>1. CASE StopIoThreads
  <2>1. /\ answered'.posted \cup answered'.deleted \subseteq 1 .. next_message_id - 1
    BY <1>1, ShutdownAnswers, NumbersArePast DEF IInv
  <2>2. \A u \in answered'.accounts :
          u \in Users!Registered /\ \A w \in Workers : user_arg[w] # u
    BY <1>1, ShutdownAnswers
  <2>3. QED
    BY <1>1, <2>1, <2>2, ShutdownAnswers, PastStays DEF AnsweredIsPast
<1>2. CASE ~StopIoThreads
  <2>1. UNCHANGED <<answered, persistence_running>>
    BY <1>2, AnsweredStays
  <2>2. QED
    BY <2>1, PastStays DEF IInv, TypeOK, AnsweredIsPast
<1>3. QED
  BY <1>1, <1>2

\* An account is given up by the worker that finds the queue full, and nowhere else.
LEMMA StepDrops ==
  ASSUME [Next]_vars
  PROVE  \/ dropped' = dropped
         \/ \E w \in Workers : /\ user_arg[w] # NoUser
                                /\ Users!IsFull(user_queue, WriteQueueSize)
                                /\ dropped' = dropped \cup {user_arg[w]}
                                /\ user_cache' = user_cache
BY StepCases
DEF register_user, post_message, delete_message, ChangesUsers, ChangesMessages, userVars,
    user_file_thr, message_file_thr, StopIoThreads, Users!AddToCache, Users!QueueWrite,
    Users!persistence_shutdown, Users!IoWakes

\* A full queue and a worker hold one account more than the queue has slots, all of them
\* different, and all registered.
LEMMA FullQueueHolds ==
  ASSUME IInv, NEW w \in Workers, user_arg[w] # NoUser, Users!IsFull(user_queue, WriteQueueSize)
  PROVE  Len(user_cache) > WriteQueueSize
<1> DEFINE held_(k) == IF k = 0 THEN user_arg[w] ELSE Users!Waiting[k]
           Slots == 0 .. WriteQueueSize
           entry == [k \in Slots |-> CHOOSE j \in 1 .. Len(user_cache) : user_cache[j] = held_(k)]
<1>1. user_queue.count = WriteQueueSize /\ WriteQueueSize \in Nat
  BY DaktyAssumption DEF Users!IsFull
<1>2. \A k \in Slots : held_(k) \in Users!Account
  <2>1. user_arg[w] \in Users!Account
    BY DEF IInv, Users!NamesInv, Users!IInv, Users!TypeOK
  <2>2. \A k \in 1 .. WriteQueueSize : Users!Waiting[k] \in Users!Account
    BY <1>1 DEF IInv, Users!NamesInv, Users!IInv, Users!QueueIsSound, Users!SoundRing,
                Users!Waiting, Users!Contents
  <2>3. QED
    BY <2>1, <2>2
<1>3. \A k \in Slots : Users!Holders(held_(k)) # {}
  <2>1. <<"worker", w>> \in Users!Holders(user_arg[w])
    BY DEF Users!Holders
  <2>2. \A k \in 1 .. WriteQueueSize : <<"queue", k>> \in Users!Holders(Users!Waiting[k])
    BY <1>1 DEF Users!Holders
  <2>3. ASSUME NEW k \in Slots PROVE \E h : h \in Users!Holders(held_(k))
    <3>1. CASE k = 0
      BY <2>1, <3>1
    <3>2. CASE k # 0
      <4>1. k \in 1 .. WriteQueueSize /\ held_(k) = Users!Waiting[k]
        BY <1>1, <3>2
      <4>2. QED
        BY <2>2, <4>1
    <3>3. QED
      BY <3>1, <3>2
  <2>4. QED
    BY <2>3
<1>4. \A k \in Slots : held_(k) \in Users!Registered
  BY <1>2, <1>3 DEF IInv, Users!NamesInv, Users!IInv, Users!HeldIsRegistered
<1>5. \A j, k \in Slots : held_(j) = held_(k) => j = k
  <2> SUFFICES ASSUME NEW j \in Slots, NEW k \in Slots, held_(j) = held_(k), j # k PROVE FALSE
    OBVIOUS
  <2>1. PICK h : Users!Holders(held_(j)) = {h}
    BY <1>3, <1>4 DEF IInv, Users!NamesInv, Users!IInv, Users!EveryAccountIsSomewhere,
                      Users!HeldOnce
  <2>2. j # 0 => <<"queue", j>> \in Users!Holders(held_(j))
    BY <1>1 DEF Users!Holders
  <2>3. k # 0 => <<"queue", k>> \in Users!Holders(held_(j))
    BY <1>1 DEF Users!Holders
  <2>4. j = 0 \/ k = 0 => <<"worker", w>> \in Users!Holders(held_(j))
    BY DEF Users!Holders
  <2>5. QED
    BY <2>1, <2>2, <2>3, <2>4
<1>6. /\ entry \in [Slots -> 1 .. Len(user_cache)]
      /\ \A k \in Slots : user_cache[entry[k]] = held_(k)
  <2>1. \A k \in Slots : \E j \in 1 .. Len(user_cache) : user_cache[j] = held_(k)
    BY <1>4 DEF Users!Registered
  <2>2. QED
    BY <2>1
<1> HIDE DEF entry, held_
<1>7. IsInjective(entry)
  <2> SUFFICES ASSUME NEW j \in Slots, NEW k \in Slots, entry[j] = entry[k] PROVE j = k
    BY <1>6 DEF IsInjective
  <2>1. held_(j) = held_(k)
    BY <1>6
  <2>2. QED
    BY <1>5, <2>1
<1>8. Len(user_cache) \in Nat
  BY DEF IInv, Users!NamesInv, Users!IInv, Users!TypeOK
<1>9. IsFiniteSet(1 .. Len(user_cache)) /\ Cardinality(1 .. Len(user_cache)) = Len(user_cache)
  <2>1. 1 \in Int /\ Len(user_cache) \in Int
    BY <1>8
  <2>2. /\ IsFiniteSet(1 .. Len(user_cache))
        /\ Cardinality(1 .. Len(user_cache)) =
             IF 1 > Len(user_cache) THEN 0 ELSE Len(user_cache) - 1 + 1
    BY <2>1, FS_Interval
  <2>3. QED
    BY <1>8, <2>2
<1>10. Cardinality(Slots) = WriteQueueSize + 1
  BY <1>1, FS_Interval
<1>11. Cardinality(Slots) <= Cardinality(1 .. Len(user_cache))
  BY <1>6, <1>7, <1>9, FS_Injection DEF Injection
<1>12. QED
  BY <1>1, <1>8, <1>9, <1>10, <1>11

\* And the cache never shrinks while the server runs.
LEMMA StepLoss ==
  ASSUME IInv, [Next]_vars
  PROVE  LossNeedsFullQueue'
<1>1. Len(user_cache) \in Nat /\ Len(user_cache') >= Len(user_cache)
  <2>1. user_cache \in Seq(Users!Account)
    BY DEF IInv, Users!NamesInv, Users!IInv, Users!TypeOK
  <2>2. user_cache' = user_cache \/ \E u \in Requests : user_cache' = Append(user_cache, u)
    BY StepCases
    DEF register_user, post_message, delete_message, ChangesUsers, ChangesMessages, userVars,
        user_file_thr, message_file_thr, StopIoThreads, Users!AddToCache, Users!QueueWrite,
        Users!persistence_shutdown, Users!IoThread, Users!IoTakes, Users!IoAppends, Users!IoWakes
  <2>3. QED
    BY <2>1, <2>2
<1>2. dropped' # {} => Len(user_cache) > WriteQueueSize
  BY StepDrops, FullQueueHolds DEF IInv, LossNeedsFullQueue
<1>3. QED
  BY <1>1, <1>2, DaktyAssumption DEF LossNeedsFullQueue

\* user_file_thr ends with an empty queue, when what was answered and not given up is in
\* nobody's hands.
LEMMA StepAccounts ==
  ASSUME IInv, [Next]_vars
  PROVE  AccountsReachFile'
<1> SUFFICES ASSUME user_ioAt' = "exited"
             PROVE  \A u \in answered'.accounts :
                      u \notin dropped' => Users!InFile(u)' /\ (sound' => u \in Saved')
  BY DEF AccountsReachFile
<1>1. CASE user_ioAt = "exited"
  <2>1. ~persistence_running
        /\ \A u \in answered.accounts : u \in dropped \/ Users!InFile(u)
    BY <1>1 DEF IInv, ThreadsInStep, AccountsReachFile
  <2>2. ~StopIoThreads
    BY <2>1 DEF StopIoThreads, Users!persistence_shutdown
  <2>3. UNCHANGED <<utenti, sound>>
    BY <1>1, StepCases
    DEF register_user, post_message, delete_message, ChangesUsers, ChangesMessages, userVars,
        user_file_thr, message_file_thr, StopIoThreads, Users!AddToCache, Users!QueueWrite,
        Users!persistence_shutdown, Users!IoThread, Users!IoTakes, Users!IoAppends, Users!IoWakes
  <2>4. answered' = answered
    BY <2>2, AnsweredStays
  <2>5. \A u : Users!InFile(u) => Users!InFile(u)'
    BY <2>3 DEF Users!InFile, Users!Line
  <2>6. Saved' = Saved
    BY <2>3 DEF Saved, Users!Accounts
  <2>7. dropped \subseteq dropped'
    BY StepDrops
  <2>8. QED
    BY <1>1, <2>1, <2>3, <2>4, <2>5, <2>6, <2>7 DEF IInv, AccountsReachFile
<1>2. CASE user_ioAt # "exited"
  <2>1. user_file_thr /\ user_ioAt = "test" /\ user_queue.count = 0 /\ ~persistence_running
    BY <1>2, ExitsWhenTold
  <2>2. UNCHANGED <<answered, utenti, sound, dropped>>
    BY <2>1 DEF user_file_thr, ChangesUsers, history, Users!IoThread, Users!IoTakes,
                Users!IoAppends
  <2>3. new_user = NoUser
    BY <2>1 DEF IInv, Users!NamesInv, Users!IInv, Users!ThreadHolds
  <2>4. ASSUME NEW u \in answered.accounts, u \notin dropped
        PROVE  Users!Holders(u) = {} /\ u \in Users!Registered
    <3>1. u \in Users!Registered /\ \A w \in Workers : user_arg[w] # u
      BY <2>1 DEF IInv, AnsweredIsPast
    <3>2. u # new_user
      BY <2>3, <3>1, DaktyAssumption DEF IInv, Users!NamesInv, Users!RegisteredOnRequest
    <3>3. \A h : h \notin Users!Holders(u)
      BY <2>1, <2>4, <3>1, <3>2 DEF Users!Holders
    <3>4. QED
      BY <3>1, <3>3
  <2>5. \A u \in answered.accounts : u \notin dropped => Users!InFile(u)
    BY <2>4 DEF IInv, Users!NamesInv, Users!IInv, Users!EveryAccountIsSomewhere, Users!HeldOnce
  <2>6. sound => \A u \in answered.accounts : u \notin dropped => u \in Saved
    BY <2>4 DEF IInv, Users!NamesInv, Users!SettledIsSaved, Saved
  <2>7. \A u : Users!InFile(u) => Users!InFile(u)'
    BY <2>2 DEF Users!InFile, Users!Line
  <2>8. Saved' = Saved
    BY <2>2 DEF Saved, Users!Accounts
  <2>9. QED
    BY <2>2, <2>5, <2>6, <2>7, <2>8
<1>3. QED
  BY <1>1, <1>2

-------------------------------------------------------------------------------
(* The board on its way to the file. *)

\* Steps that ask no more of the next file and leave the copies of the board alone.
LEMMA CopiesStay ==
  ASSUME IInv, ToBeSaved' \subseteq ToBeSaved, ToBeGone' \subseteq ToBeGone,
         ShowsAnswered(message_cache)',
         UNCHANGED <<msg_needs_flush, local_dump, messaggi>>,
         msg_ioAt' = msg_ioAt \/ (msg_ioAt = "asleep" /\ msg_ioAt' = "test")
  PROVE  BoardReachesFile'
<1>1. ShowsAnswered(messaggi) => ShowsAnswered(messaggi)'
  BY DEF ShowsAnswered, NumbersOn
<1>2. ShowsAnswered(local_dump) => ShowsAnswered(local_dump)'
  BY DEF ShowsAnswered, NumbersOn
<1>3. QED
  BY <1>1, <1>2 DEF IInv, BoardReachesFile

\* A step that leaves the board, the numbers and the changes alone asks for the same.
LEMMA AsksTheSame ==
  ASSUME UNCHANGED <<persistence_running, message_cache, next_message_id, changing, answered>>
  PROVE  ToBeSaved' = ToBeSaved /\ ToBeGone' = ToBeGone
BY DEF ToBeSaved, ToBeGone, NumbersOn, Underway

\* A worker that makes change n has no other under way.
LEMMA UnderwayGrows ==
  ASSUME IInv, NEW w \in Workers, msg_at[w] = "idle", NEW n, changing' = [changing EXCEPT ![w] = n]
  PROVE  \A m \in 1 .. MaxId : m \in Underway' <=> m \in Underway \/ m = n
<1>1. changing \in [Workers -> 0 .. MaxId] /\ changing[w] = 0
  BY DEF IInv, TypeOK, ChangesInStep
<1>2. SUFFICES ASSUME NEW m \in 1 .. MaxId PROVE m \in Underway' <=> m \in Underway \/ m = n
  OBVIOUS
<1>3. m # 0
  BY DaktyAssumption
<1>4. m \in Underway' <=> \E v \in Workers : changing'[v] = m
  BY DEF Underway
<1>5. m \in Underway <=> \E v \in Workers : changing[v] = m
  BY DEF Underway
<1>6. changing'[w] = n /\ \A v \in Workers : v # w => changing'[v] = changing[v]
  BY <1>1
<1>7. QED
  BY <1>1, <1>3, <1>4, <1>5, <1>6

\* A message posted has a new number, under way.
LEMMA PostReaches ==
  ASSUME IInv, NEW w \in Workers, NEW d \in Drafts, post_message(w, d)
  PROVE  BoardReachesFile'
<1> DEFINE n == next_message_id
           more == [id |-> n, sender |-> d.sender, subject |-> d.subject, body |-> d.body]
<1>1. /\ msg_at[w] = "idle" /\ changing' = [changing EXCEPT ![w] = n] /\ n <= MaxId
      /\ message_cache' = Append(message_cache, more) /\ next_message_id' = n + 1
      /\ UNCHANGED <<msg_needs_flush, local_dump, messaggi, msg_ioAt, persistence_running, answered>>
  BY DEF post_message, Messages!save_message, Messages!ChangeCache, Between, ChangesMessages
<1>2. /\ n \in Nat /\ NumbersOn(message_cache) \subseteq 1 .. n - 1
      /\ n \in 1 .. MaxId
  BY <1>1, NumbersArePast, DaktyAssumption DEF IInv, Messages!IInv, Messages!TypeOK
<1>3. NumbersOn(message_cache') = NumbersOn(message_cache) \cup {n}
  <2>1. message_cache \in Seq(Messages!Message)
    BY DEF IInv, Messages!IInv, Messages!TypeOK
  <2>2. more \in Messages!Message
    BY <1>2, DaktyAssumption DEF Messages!Message
  <2>3. QED
    BY <1>1, <2>1, <2>2, PostAdds
<1>4. \A m \in 1 .. MaxId : m \in Underway' <=> m \in Underway \/ m = n
  BY <1>1, UnderwayGrows
<1>5. answered.posted \cup answered.deleted \subseteq 1 .. n - 1 \/ persistence_running
  BY DEF IInv, AnsweredIsPast
<1>6. NumbersOn(message_cache)' = NumbersOn(message_cache')
  BY DEF NumbersOn
<1> HIDE DEF more
<1>7. ToBeSaved' \subseteq ToBeSaved
  <2> SUFFICES ASSUME NEW m \in ToBeSaved' PROVE m \in ToBeSaved
    OBVIOUS
  <2>1. m \in NumbersOn(message_cache) \cup {n} /\ m \in 1 .. MaxId
    <3>1. m \in NumbersOn(message_cache')
      BY <1>6 DEF ToBeSaved
    <3>2. QED
      BY <1>2, <1>3, <3>1, DaktyAssumption
  <2>2. m # n
    <3>1. persistence_running => m \notin Underway'
      BY <1>1 DEF ToBeSaved
    <3>2. ~persistence_running => m \in answered.posted
      BY <1>1 DEF ToBeSaved
    <3>3. n \in Underway'
      BY <1>2, <1>4
    <3>4. n \notin 1 .. n - 1
      BY <1>2
    <3>5. QED
      BY <1>5, <3>1, <3>2, <3>3, <3>4
  <2>3. QED
    BY <1>1, <1>4, <2>1, <2>2 DEF ToBeSaved
<1>8. ToBeGone' \subseteq ToBeGone /\ n \notin ToBeGone'
  <2>1. CASE persistence_running
    <3>1. ToBeGone' = (1 .. n) \ (NumbersOn(message_cache') \cup Underway')
      BY <1>1, <1>2, <1>6, <2>1 DEF ToBeGone
    <3>2. ToBeGone = (1 .. n - 1) \ (NumbersOn(message_cache) \cup Underway)
      BY <2>1 DEF ToBeGone
    <3>3. \A m \in 1 .. n : m \in 1 .. MaxId /\ (m = n \/ m \in 1 .. n - 1)
      BY <1>1, <1>2, DaktyAssumption
    <3>4. QED
      BY <1>3, <1>4, <3>1, <3>2, <3>3
  <2>2. CASE ~persistence_running
    BY <1>1, <1>2, <1>5, <2>2 DEF ToBeGone
  <2>3. QED
    BY <2>1, <2>2
<1>9. ShowsAnswered(message_cache)'
  <2>1. ToBeSaved' \subseteq NumbersOn(message_cache')
    BY <1>6 DEF ToBeSaved
  <2>2. ToBeGone \cap NumbersOn(message_cache) = {}
    BY DEF IInv, BoardReachesFile, ShowsAnswered
  <2>3. ToBeGone' \cap NumbersOn(message_cache') = {}
    BY <1>3, <1>8, <2>2
  <2>4. QED
    BY <1>6, <2>1, <2>3 DEF ShowsAnswered
<1>10. QED
  BY <1>1, <1>7, <1>8, <1>9, CopiesStay

\* A message deleted is no longer to be saved, and its number is under way.
LEMMA DeleteReaches ==
  ASSUME IInv, NEW w \in Workers, NEW id \in 1 .. MaxId, NEW d \in Drafts,
         delete_message(w, id, d.sender)
  PROVE  BoardReachesFile'
<1>1. /\ msg_at[w] = "idle" /\ changing' = [changing EXCEPT ![w] = id]
      /\ UNCHANGED <<msg_needs_flush, local_dump, messaggi, msg_ioAt, persistence_running, answered,
                     next_message_id>>
  BY DEF delete_message, Messages!delete_message, Messages!ChangeCache, Between, ChangesMessages
<1>2. PICK i \in 1 .. Len(message_cache) :
        message_cache[i].id = id /\ message_cache' = Messages!Without(message_cache, i)
  BY DEF delete_message, Messages!delete_message, Messages!ChangeCache
<1>3. message_cache \in Seq(Messages!Message) /\ Messages!Ascending(message_cache)
  BY DEF IInv, Messages!IInv, Messages!TypeOK, Messages!UniqueIds
<1>4. NumbersOn(message_cache') = NumbersOn(message_cache) \ {id}
  BY <1>2, <1>3, DeleteRemoves
<1>5. \A m \in 1 .. MaxId : m \in Underway' <=> m \in Underway \/ m = id
  BY <1>1, UnderwayGrows
<1>6. NumbersOn(message_cache)' = NumbersOn(message_cache')
  BY DEF NumbersOn
<1>7. /\ NumbersOn(message_cache) \subseteq 1 .. MaxId
      /\ 1 .. next_message_id - 1 \subseteq 1 .. MaxId
  BY NumbersArePast, DaktyAssumption DEF IInv
<1>8. ToBeSaved' \subseteq ToBeSaved
  BY <1>1, <1>4, <1>5, <1>6, <1>7 DEF ToBeSaved
<1>9. ToBeGone' \subseteq ToBeGone
  BY <1>1, <1>4, <1>5, <1>6, <1>7 DEF ToBeGone
<1>10. ShowsAnswered(message_cache)'
  <2>1. ToBeSaved' \subseteq NumbersOn(message_cache')
    BY <1>6 DEF ToBeSaved
  <2>2. ToBeGone \cap NumbersOn(message_cache) = {}
    BY DEF IInv, BoardReachesFile, ShowsAnswered
  <2>3. ToBeGone' \cap NumbersOn(message_cache') = {}
    BY <1>4, <1>9, <2>2
  <2>4. QED
    BY <1>6, <2>1, <2>3 DEF ShowsAnswered
<1>11. QED
  BY <1>1, <1>8, <1>9, <1>10, CopiesStay

\* A change that is answered has a flush due.
LEMMA TriggerReaches ==
  ASSUME IInv, NEW w \in Workers, Messages!trigger_message_flush(w), ChangesMessages
  PROVE  BoardReachesFile'
<1>1. /\ msg_needs_flush' = TRUE
      /\ UNCHANGED <<persistence_running, message_cache, next_message_id, messaggi, answered>>
      /\ msg_ioAt' = IF msg_ioAt = "asleep" THEN "test" ELSE msg_ioAt
  BY DEF Messages!trigger_message_flush, Messages!SetFlag, Messages!WakeIo, ChangesMessages
<1>2. NumbersOn(message_cache)' = NumbersOn(message_cache)
      /\ NumbersOn(messaggi)' = NumbersOn(messaggi)
  BY <1>1 DEF NumbersOn
<1>3. ShowsAnswered(message_cache)'
  BY <1>1, <1>2 DEF IInv, BoardReachesFile, ShowsAnswered, ToBeSaved, ToBeGone
<1>4. msg_ioAt' = "exited" => ShowsAnswered(messaggi)'
  <2> SUFFICES ASSUME msg_ioAt = "exited" PROVE ShowsAnswered(messaggi)'
    BY <1>1
  <2>1. ~persistence_running
    BY DEF IInv, ThreadsInStep
  <2>2. QED
    BY <1>1, <1>2, <2>1 DEF IInv, BoardReachesFile, ShowsAnswered, ToBeSaved, ToBeGone
<1>5. QED
  BY <1>1, <1>3, <1>4 DEF BoardReachesFile

\* persistence_shutdown fixes what the file is to show, as of now.
LEMMA ShutdownReaches ==
  ASSUME IInv, StopIoThreads
  PROVE  BoardReachesFile'
<1>1. /\ persistence_running /\ ~persistence_running'
      /\ UNCHANGED <<message_cache, messaggi, local_dump, msg_needs_flush>>
      /\ msg_ioAt' = IF msg_ioAt = "asleep" THEN "test" ELSE msg_ioAt
  BY DEF StopIoThreads, Users!persistence_shutdown, Messages!persistence_shutdown, Messages!WakeIo
<1>2. NumbersOn(message_cache)' = NumbersOn(message_cache)
  BY <1>1 DEF NumbersOn
<1>3. ToBeSaved' = ToBeSaved /\ ToBeGone' = ToBeGone
  BY <1>1, <1>2, ShutdownAnswers DEF ToBeSaved, ToBeGone
<1>4. ShowsAnswered(message_cache)'
  BY <1>2, <1>3 DEF IInv, BoardReachesFile, ShowsAnswered
<1>5. QED
  BY <1>1, <1>3, <1>4, CopiesStay

\* message_file_thr copies a board that shows it, and replaces the file by a copy.
LEMMA ThreadReaches ==
  ASSUME IInv, message_file_thr
  PROVE  BoardReachesFile'
<1>1. UNCHANGED <<persistence_running, message_cache, next_message_id, changing, answered>>
  BY DEF message_file_thr, ChangesMessages, Messages!IoThread, Messages!IoTests,
         Messages!IoCopies, Messages!IoWrites, Messages!IoReplaces
<1>2. ToBeSaved' = ToBeSaved /\ ToBeGone' = ToBeGone
  BY <1>1, AsksTheSame
<1>3. ShowsAnswered(message_cache) /\ ShowsAnswered(message_cache)'
  BY <1>1, <1>2 DEF IInv, BoardReachesFile, ShowsAnswered, NumbersOn
<1>4. diskState' # "failed"
  BY DEF message_file_thr
<1>5. CASE Messages!IoTests
  <2>1. UNCHANGED <<local_dump, messaggi>> /\ msg_ioAt = "test"
    BY <1>5 DEF Messages!IoTests, Messages!IoAtStep
  <2>2. ShowsAnswered(messaggi) => ShowsAnswered(messaggi)'
    BY <1>2, <2>1 DEF ShowsAnswered, NumbersOn
  <2>3. QED
    BY <1>3, <1>5, <2>1, <2>2 DEF IInv, BoardReachesFile, Messages!IoTests
<1>6. CASE Messages!IoCopies
  <2>1. local_dump' = message_cache /\ msg_ioAt' = "write"
    BY <1>4, <1>6 DEF Messages!IoCopies, Messages!GiveUp, Messages!FlushOver
  <2>2. ShowsAnswered(local_dump)'
    BY <1>2, <1>3, <2>1 DEF ShowsAnswered, NumbersOn
  <2>3. QED
    BY <1>3, <2>1, <2>2 DEF BoardReachesFile
<1>7. CASE Messages!IoWrites
  <2>1. UNCHANGED <<msg_ioAt, local_dump, messaggi, msg_needs_flush>>
    BY <1>4, <1>7 DEF Messages!IoWrites, Messages!GiveUp, Messages!FlushOver
  <2>2. QED
    BY <1>2, <1>3, <2>1, CopiesStay
<1>8. CASE Messages!IoReplaces
  <2>1. /\ msg_ioAt = "write" /\ msg_ioAt' = "test" /\ UNCHANGED msg_needs_flush
        /\ messaggi' = SubSeq(local_dump, 1, written) /\ written = Len(local_dump)
    BY <1>4, <1>8 DEF Messages!IoReplaces, Messages!GiveUp, Messages!FlushOver,
                      Messages!FullyWritten, Messages!IoAtStep
  <2>2. local_dump \in Seq(Messages!Message)
    BY DEF IInv, Messages!IInv, Messages!TypeOK
  <2>3. messaggi' = local_dump
    BY <2>1, <2>2
  <2>4. ShowsAnswered(local_dump) => ShowsAnswered(messaggi)'
    BY <1>2, <2>3 DEF ShowsAnswered, NumbersOn
  <2>5. QED
    BY <1>3, <2>1, <2>4 DEF IInv, BoardReachesFile
<1>9. QED
  BY <1>5, <1>6, <1>7, <1>8 DEF message_file_thr, Messages!IoThread

\* No step keeps the board from reaching the file.
LEMMA StepReaches ==
  ASSUME IInv, [Next]_vars
  PROVE  BoardReachesFile'
<1>1. ASSUME UNCHANGED <<messageVars, history, persistence_running>> PROVE BoardReachesFile'
  <2>1. ToBeSaved' = ToBeSaved /\ ToBeGone' = ToBeGone
    BY <1>1, AsksTheSame DEF messageVars, history
  <2>2. ShowsAnswered(message_cache)'
    BY <1>1, <2>1 DEF IInv, BoardReachesFile, ShowsAnswered, NumbersOn, messageVars
  <2>3. QED
    BY <1>1, <2>1, <2>2, CopiesStay DEF messageVars
<1>2. ChangesUsers /\ UNCHANGED persistence_running => BoardReachesFile'
  BY <1>1 DEF ChangesUsers
<1>3. ASSUME NEW w \in Workers, NEW u \in Requests, register_user(w, u)
      PROVE  BoardReachesFile'
  BY <1>2, <1>3 DEF register_user, Users!AddToCache
<1>4. ASSUME NEW w \in Workers, Users!QueueWrite(w), ChangesUsers
      PROVE  BoardReachesFile'
  BY <1>2, <1>4 DEF Users!QueueWrite
<1>5. CASE user_file_thr
  BY <1>2, <1>5 DEF user_file_thr, Users!IoThread, Users!IoTakes, Users!IoAppends
<1>6. ASSUME Users!IoWakes, ChangesUsers PROVE BoardReachesFile'
  BY <1>2, <1>6 DEF Users!IoWakes
<1>7. ASSUME Messages!IoWakes, ChangesMessages, UNCHANGED changing PROVE BoardReachesFile'
  <2>1. /\ UNCHANGED <<persistence_running, message_cache, next_message_id, msg_needs_flush,
                       local_dump, messaggi, changing, answered>>
        /\ msg_ioAt = "asleep" /\ msg_ioAt' = "test"
    BY <1>7 DEF Messages!IoWakes, Messages!IoAtStep, ChangesMessages
  <2>2. ToBeSaved' = ToBeSaved /\ ToBeGone' = ToBeGone
    BY <2>1, AsksTheSame
  <2>3. ShowsAnswered(message_cache)'
    BY <2>1, <2>2 DEF IInv, BoardReachesFile, ShowsAnswered, NumbersOn
  <2>4. QED
    BY <2>1, <2>2, <2>3, CopiesStay
<1>8. QED
  BY <1>1, <1>3, <1>4, <1>5, <1>6, <1>7, PostReaches, DeleteReaches, TriggerReaches,
     ShutdownReaches, ThreadReaches, StepCases

-------------------------------------------------------------------------------
(* The invariant. *)

\* At the start nothing is answered and nothing is due in a file.
LEMMA InitInv == Init => IInv
<1> SUFFICES ASSUME Init PROVE IInv
  OBVIOUS
<1>1. Server!IInv /\ Users!NamesInv /\ Messages!IInv
  BY InitParts
<1>2. TypeOK
  <2>1. changing \in [Workers -> 0 .. MaxId]
    BY DaktyAssumption DEF Init
  <2>2. answered \in [accounts : SUBSET Requests, posted : SUBSET (1 .. MaxId),
                      deleted : SUBSET (1 .. MaxId)]
    BY DEF Init, Nothing
  <2>3. Server!TypeOK /\ Users!TypeOK /\ Messages!TypeOK
    BY <1>1 DEF Server!IInv, Users!NamesInv, Users!IInv, Messages!IInv
  <2>4. QED
    BY <2>1, <2>2, <2>3 DEF TypeOK
<1>3. ChangesInStep
  BY DEF Init, ChangesInStep
<1>4. BoardReachesFile
  <2>1. NumbersOn(<<>>) = {}
    BY DEF NumbersOn
  <2>2. ToBeSaved = {} /\ ToBeGone = {}
    BY <2>1 DEF Init, ToBeSaved, ToBeGone
  <2>3. ShowsAnswered(<<>>)
    BY <2>2 DEF ShowsAnswered
  <2>4. QED
    BY <2>3 DEF Init, BoardReachesFile
<1>5. AnsweredIsPast /\ AccountsReachFile /\ LossNeedsFullQueue
  BY DEF Init, AnsweredIsPast, AccountsReachFile, LossNeedsFullQueue
<1>6. ThreadsInStep
  BY DEF Init, ThreadsInStep, Server!Init
<1>7. QED
  BY <1>1, <1>2, <1>3, <1>4, <1>5, <1>6 DEF IInv

\* Every step keeps it: the steps of each part keep that part's own invariant.
LEMMA StepInv == IInv /\ [Next]_vars => IInv'
<1> SUFFICES ASSUME IInv, [Next]_vars PROVE IInv'
  OBVIOUS
<1>1. Server!IInv' /\ Users!NamesInv' /\ Messages!IInv'
  <2>1. Server!IInv /\ Users!NamesInv /\ Messages!IInv
    BY DEF IInv
  <2>2. [Server!Next]_(Server!vars) /\ [Users!Next]_(Users!vars) /\ [Messages!Next]_(Messages!vars)
    BY StepOfServer, StepOfUsers, StepOfMessages
  <2>3. QED
    BY <2>1, <2>2, ServerKeepsInvariant, UsersKeepInvariant, MessagesKeepInvariant
<1>2. TypeOK'
  <2>1. Server!TypeOK' /\ Users!TypeOK' /\ Messages!TypeOK'
    BY <1>1 DEF Server!IInv, Users!NamesInv, Users!IInv, Messages!IInv
  <2>2. QED
    BY <2>1, StepChanges, StepAnswered DEF TypeOK
<1>3. ThreadsInStep'
  BY StepThreads DEF IInv
<1>4. QED
  BY <1>1, <1>2, <1>3, StepChanges, StepAnswered, StepAccounts, StepLoss, StepReaches DEF IInv

\* The invariant holds in every state of the server of any size.
THEOREM DaktyInvariant == Spec => []IInv
<1>1. QED
  BY InitInv, StepInv, PTL DEF Spec

\* Every variable keeps its type, from the start of the server to the end of its shutdown.
THEOREM TypesAreKept == Spec => []TypeOK
<1>1. IInv => TypeOK
  BY DEF IInv
<1>2. QED
  BY <1>1, DaktyInvariant, PTL

\* Once main has joined the I/O threads, every message and deletion that a client had an
\* answer to when persistence_shutdown was called is in the files, and every account but
\* those that found the write queue full, of which there are none unless more accounts were
\* registered than the queue has slots.
THEOREM WhatIsAnsweredIsSaved == Spec => []AnsweredIsSaved
<1>1. IInv => AnsweredIsSaved
  <2> SUFFICES ASSUME IInv, mainStep \in {"join", "returned"} PROVE AnsweredIsSaved
    BY DEF AnsweredIsSaved
  <2>1. user_ioAt = "exited" /\ msg_ioAt = "exited" /\ ~persistence_running
    BY DEF IInv, ThreadsInStep, IoThreadsJoined
  <2>2. /\ \A u \in answered.accounts : u \in dropped \/ Users!InFile(u)
        /\ sound => answered.accounts \ dropped \subseteq Saved
    BY <2>1 DEF IInv, AccountsReachFile
  <2>3. ShowsAnswered(messaggi)
    BY <2>1 DEF IInv, BoardReachesFile
  <2>4. /\ answered.posted \cap NumbersOn(message_cache) \subseteq NumbersOn(messaggi)
        /\ answered.deleted \cap NumbersOn(messaggi) = {}
    BY <2>1, <2>3 DEF ShowsAnswered, ToBeSaved, ToBeGone
  <2>5. Len(user_cache) <= WriteQueueSize => dropped = {}
    <3>1. Len(user_cache) \in Nat
      BY DEF IInv, Users!NamesInv, Users!IInv, Users!TypeOK
    <3>2. QED
      BY <3>1, DaktyAssumption DEF IInv, LossNeedsFullQueue
  <2>6. QED
    BY <2>2, <2>4, <2>5 DEF AnsweredIsSaved
<1>2. QED
  BY <1>1, DaktyInvariant, PTL

\* The components run in the whole server as they were verified alone: each of its steps is
\* one of the server's, one of each store's, or leaves that part as it is, so that what is
\* proved of every step of a part holds of the whole.
THEOREM PartsRunTogether ==
  Spec => /\ [][Server!Next]_(Server!vars)
          /\ [][Users!Next]_(Users!vars)
          /\ [][Messages!Next]_(Messages!vars)
<1>1. QED
  BY StepOfServer, StepOfUsers, StepOfMessages, PTL DEF Spec
===============================================================================
