----------------------------- MODULE ServerProofs -----------------------------
(***************************************************************************)
(* The safety of Server for every length of the queue, every finite set of *)
(* workers and every set of descriptors, from that of the pool.            *)
(***************************************************************************)
EXTENDS Server, RingProofs

PoolFacts == INSTANCE ThreadPoolProofs

-------------------------------------------------------------------------------
(* The pool inside the server is the pool of ThreadPoolProofs. *)

\* What holds of the one instance holds of the other: the invariant.
LEMMA SameInvariant == Pool!IInv <=> PoolFacts!IInv
<1>1. Pool!TypeOK <=> PoolFacts!TypeOK
  BY DEF Pool!TypeOK, PoolFacts!TypeOK, Pool!RingType, PoolFacts!RingType,
         Pool!Index, PoolFacts!Index, Pool!MainStates, PoolFacts!MainStates,
         Pool!WorkerStates, PoolFacts!WorkerStates
<1>2. Pool!RingIsSound <=> PoolFacts!RingIsSound
  BY DEF Pool!RingIsSound, PoolFacts!RingIsSound, Pool!SoundRing, PoolFacts!SoundRing,
         Pool!RingType, PoolFacts!RingType, Pool!Index, PoolFacts!Index,
         Pool!SlotOf, PoolFacts!SlotOf
<1>3. Pool!MainSleepsOnlyIfFull <=> PoolFacts!MainSleepsOnlyIfFull
  BY DEF Pool!MainSleepsOnlyIfFull, PoolFacts!MainSleepsOnlyIfFull,
         Pool!IsFull, PoolFacts!IsFull
<1>4. Pool!ShutdownWakesAll <=> PoolFacts!ShutdownWakesAll
  BY DEF Pool!ShutdownWakesAll, PoolFacts!ShutdownWakesAll,
         Pool!WorkersIn, PoolFacts!WorkersIn
<1>5. Pool!HandOff <=> PoolFacts!HandOff
  BY DEF Pool!HandOff, PoolFacts!HandOff
<1>6. Pool!NoSleeperOwedWork <=> PoolFacts!NoSleeperOwedWork
  BY DEF Pool!NoSleeperOwedWork, PoolFacts!NoSleeperOwedWork, Pool!WorkersIn,
         PoolFacts!WorkersIn, Pool!Cardinality, PoolFacts!Cardinality
<1>7. QED
  BY <1>1, <1>2, <1>3, <1>4, <1>5, <1>6 DEF Pool!IInv, PoolFacts!IInv

\* The initial state.
LEMMA SameInit == Pool!Init <=> PoolFacts!Init
BY DEF Pool!Init, PoolFacts!Init, Pool!pool_init, PoolFacts!pool_init,
       Pool!EmptyRing, PoolFacts!EmptyRing, Pool!Index, PoolFacts!Index

\* The steps, function by function.
LEMMA SameNext == Pool!Next <=> PoolFacts!Next
<1>1. \A s : Pool!CallSubmit(s) <=> PoolFacts!CallSubmit(s)
  BY DEF Pool!CallSubmit, PoolFacts!CallSubmit
<1>2. Pool!pool_submit <=> PoolFacts!pool_submit
  BY DEF Pool!pool_submit, PoolFacts!pool_submit, Pool!SubmitWaits, PoolFacts!SubmitWaits,
         Pool!SubmitPuts, PoolFacts!SubmitPuts, Pool!SignalNotEmpty, PoolFacts!SignalNotEmpty,
         Pool!WorkersIn, PoolFacts!WorkersIn, Pool!IsFull, PoolFacts!IsFull,
         Pool!Enqueue, PoolFacts!Enqueue, Pool!Following, PoolFacts!Following
<1>3. Pool!pool_shutdown <=> PoolFacts!pool_shutdown
  BY DEF Pool!pool_shutdown, PoolFacts!pool_shutdown,
         Pool!BroadcastNotEmpty, PoolFacts!BroadcastNotEmpty
<1>4. \A w : Pool!pool_fetch(w) <=> PoolFacts!pool_fetch(w)
  BY DEF Pool!pool_fetch, PoolFacts!pool_fetch, Pool!FetchWaits, PoolFacts!FetchWaits,
         Pool!FetchQuits, PoolFacts!FetchQuits, Pool!FetchTakes, PoolFacts!FetchTakes,
         Pool!Finished, PoolFacts!Finished, Pool!SignalNotFull, PoolFacts!SignalNotFull,
         Pool!Front, PoolFacts!Front, Pool!Dequeue, PoolFacts!Dequeue,
         Pool!Following, PoolFacts!Following
<1>5. \A w : Pool!Release(w) <=> PoolFacts!Release(w)
  BY DEF Pool!Release, PoolFacts!Release
<1>6. Pool!SpuriousWakeup <=> PoolFacts!SpuriousWakeup
  BY DEF Pool!SpuriousWakeup, PoolFacts!SpuriousWakeup, Pool!WorkersIn, PoolFacts!WorkersIn
<1>7. Pool!Ended <=> PoolFacts!Ended
  BY DEF Pool!Ended, PoolFacts!Ended, Pool!AllExited, PoolFacts!AllExited,
         Pool!poolVars, PoolFacts!poolVars
<1>8. QED
  BY <1>1, <1>2, <1>3, <1>4, <1>5, <1>6, <1>7 DEF Pool!Next, PoolFacts!Next

\* What the pool's proofs assume is assumed here.
LEMMA PoolMayRun == PoolFacts!PoolAssumption
BY ServerAssumption DEF PoolFacts!PoolAssumption, PoolFacts!IsFiniteSet, IsFiniteSet

\* The pool's invariant, as the server uses it.
LEMMA PoolKeepsInvariant ==
  /\ Pool!Init => Pool!IInv
  /\ Pool!IInv /\ [Pool!Next]_(Pool!poolVars) => Pool!IInv'
<1>1. Pool!Init => Pool!IInv
  BY PoolMayRun, SameInvariant, SameInit, PoolFacts!InitInv
<1>2. UNCHANGED Pool!poolVars <=> UNCHANGED PoolFacts!poolVars
  BY DEF Pool!poolVars, PoolFacts!poolVars
<1>3. Pool!IInv' <=> PoolFacts!IInv'
  BY SameInvariant, PTL
<1>4. QED
  BY <1>1, <1>2, <1>3, PoolMayRun, SameInvariant, SameNext, PoolFacts!StepInv

\* Every step of the server calls the pool as ThreadPool lets it be called, or not at all.
LEMMA StepIsPoolStep == [Next]_vars => [Pool!Next]_(Pool!poolVars)
<1> SUFFICES ASSUME [Next]_vars PROVE Pool!Next \/ UNCHANGED Pool!poolVars
  OBVIOUS
<1>1. CASE UNCHANGED poolVars
  BY <1>1 DEF poolVars, Pool!poolVars
<1>2. ASSUME NEW s \in Sockets, AcceptReturns(s) PROVE Pool!Next
  BY <1>2 DEF AcceptReturns, Pool!Next
<1>3. CASE Submit
  BY <1>3 DEF Submit, Pool!Next
<1>4. CASE PoolShutdown
  BY <1>4 DEF PoolShutdown, Pool!Next
<1>5. ASSUME NEW w \in Workers, Fetch(w) PROVE Pool!Next
  BY <1>5 DEF Fetch, Pool!Next
<1>6. ASSUME NEW w \in Workers, Clear(w) PROVE Pool!Next
  BY <1>6 DEF Clear, Pool!Next
<1>7. CASE Spurious
  BY <1>7 DEF Spurious, Pool!Next
<1>8. CASE UNCHANGED vars
  BY <1>1, <1>8 DEF vars
<1>9. CASE handle_signal \/ AcceptFails \/ LoopTest \/ CallAccept \/ Sweep
           \/ PersistenceShutdown \/ JoinWorkers
  BY <1>1, <1>9 DEF handle_signal, AcceptFails, LoopTest, CallAccept, Sweep,
                    PersistenceShutdown, JoinWorkers
<1>10. ASSUME NEW s \in Sockets, ClientLeaves(s) PROVE UNCHANGED poolVars
  BY <1>10 DEF ClientLeaves
<1>11. ASSUME NEW w \in Workers, Register(w) \/ handle_client(w) PROVE UNCHANGED poolVars
  BY <1>11 DEF Register, handle_client
<1>12. QED
  BY <1>1, <1>2, <1>3, <1>4, <1>5, <1>6, <1>7, <1>8, <1>9, <1>10, <1>11
  DEF Next, MainThread, WorkerThread, Ended

\* So in the server, too, no socket is lost and no wakeup either, and the pool, which
\* is used as it is meant to be, is the bounded FIFO: see ThreadPoolProofs.
THEOREM ServerRunsPool ==
  Spec => Pool!Init /\ [][Pool!Next]_(Pool!poolVars) /\ []Pool!IInv
<1>1. Init => Pool!Init
  BY DEF Init
<1>2. QED
  BY <1>1, StepIsPoolStep, PoolKeepsInvariant, PTL DEF Spec

-------------------------------------------------------------------------------
(* The queue and the owners. *)

\* The queue's contents, as a sequence.
LEMMA QueuedType ==
  ASSUME Pool!IInv
  PROVE  Queued \in Seq(Sockets) /\ Len(Queued) = pool.count /\ pool.count \in Nat
<1>1. SoundRing(pool, QueueSize, Sockets, NoSocket)
  BY DEF Pool!IInv, Pool!RingIsSound, Pool!SoundRing, SoundRing, Pool!RingType, RingType,
         Pool!Index, Index, Pool!SlotOf, SlotOf
<1>2. Queued = Contents(pool, QueueSize)
  BY DEF Queued, Pool!Contents, Contents, Pool!SlotOf, SlotOf
<1>3. QED
  BY <1>1, <1>2, ContentsType, Fields, ServerAssumption

\* pool_submit appends main's socket.
LEMMA PutAppends ==
  ASSUME Pool!IInv, Pool!SubmitPuts
  PROVE  /\ mainSocket \in Sockets
         /\ Queued' = Append(Queued, mainSocket)
         /\ pool'.count = pool.count + 1
<1>1. SoundRing(pool, QueueSize, Sockets, NoSocket)
  BY DEF Pool!IInv, Pool!RingIsSound, Pool!SoundRing, SoundRing, Pool!RingType, RingType,
         Pool!Index, Index, Pool!SlotOf, SlotOf
<1>2. Queued = Contents(pool, QueueSize) /\ Queued' = Contents(pool', QueueSize)
  BY DEF Queued, Pool!Contents, Contents, Pool!SlotOf, SlotOf
<1>3. /\ pool' = Enqueue(pool, QueueSize, mainSocket) /\ ~IsFull(pool, QueueSize)
      /\ mainSocket \in Sockets
  BY DEF Pool!SubmitPuts, Pool!Enqueue, Enqueue, Pool!Following, Following,
         Pool!IsFull, IsFull, Pool!IInv, Pool!HandOff, Pool!TypeOK
<1>4. pool'.count = pool.count + 1
  BY <1>3 DEF Enqueue
<1>5. QED
  BY <1>1, <1>2, <1>3, <1>4, EnqueueAppends, ServerAssumption

\* pool_fetch takes the first socket.
LEMMA TakeIsTail ==
  ASSUME Pool!IInv, NEW w \in Workers, Pool!FetchTakes(w)
  PROVE  /\ Queued' = Tail(Queued)
         /\ held'[w] = Queued[1] /\ Queued[1] \in Sockets
         /\ pool.count > 0 /\ pool'.count = pool.count - 1
<1>1. SoundRing(pool, QueueSize, Sockets, NoSocket)
  BY DEF Pool!IInv, Pool!RingIsSound, Pool!SoundRing, SoundRing, Pool!RingType, RingType,
         Pool!Index, Index, Pool!SlotOf, SlotOf
<1>2. Queued = Contents(pool, QueueSize) /\ Queued' = Contents(pool', QueueSize)
  BY DEF Queued, Pool!Contents, Contents, Pool!SlotOf, SlotOf
<1>3. /\ pool' = Dequeue(pool, QueueSize) /\ pool.count > 0
      /\ held'[w] = Front(pool)
  BY DEF Pool!FetchTakes, Pool!Dequeue, Dequeue, Pool!Following, Following,
         Pool!Front, Front, Pool!IInv, Pool!TypeOK
<1>4. /\ Front(pool) \in Sockets /\ Front(pool) = Head(Contents(pool, QueueSize))
      /\ Contents(pool', QueueSize) = Tail(Contents(pool, QueueSize))
  BY <1>1, <1>3, DequeueIsTail, ServerAssumption
<1>5. Head(Queued) = Queued[1]
  BY QueuedType
<1>6. pool'.count = pool.count - 1
  BY <1>3 DEF Dequeue
<1>7. QED
  BY <1>2, <1>3, <1>4, <1>5, <1>6

\* Who owns a descriptor, place by place, before a step and after it.
LEMMA OwnerCases ==
  ASSUME NEW s, NEW o
  PROVE  o \in Owners(s) <=>
           \/ mainSocket = s /\ o = <<"main", 0>>
           \/ \E k \in 1 .. pool.count : Queued[k] = s /\ o = <<"queue", k>>
           \/ \E w \in Users(s) : o = <<"worker", w>>
BY DEF Owners

\* The same after a step.
LEMMA OwnerCasesNext ==
  ASSUME NEW s, NEW o
  PROVE  o \in Owners(s)' <=>
           \/ mainSocket' = s /\ o = <<"main", 0>>
           \/ \E k \in 1 .. pool'.count : Queued'[k] = s /\ o = <<"queue", k>>
           \/ \E w \in Users(s)' : o = <<"worker", w>>
BY DEF Owners

\* A descriptor with one owner is nowhere else.
LEMMA OwnedElsewhere ==
  ASSUME NEW s, NEW o, Owners(s) = {o}
  PROVE  /\ mainSocket = s => o = <<"main", 0>>
         /\ \A k \in 1 .. pool.count : Queued[k] = s => o = <<"queue", k>>
         /\ \A w \in Users(s) : o = <<"worker", w>>
<1>1. \A p : p \in Owners(s) => p = o
  OBVIOUS
<1>2. mainSocket = s => <<"main", 0>> \in Owners(s)
  BY OwnerCases
<1>3. ASSUME NEW k \in 1 .. pool.count, Queued[k] = s PROVE <<"queue", k>> \in Owners(s)
  BY <1>3, OwnerCases
<1>4. ASSUME NEW w \in Users(s) PROVE <<"worker", w>> \in Owners(s)
  BY <1>4, OwnerCases
<1>5. QED
  BY <1>1, <1>2, <1>3, <1>4

\* Steps that leave the owners alone, and open or close nothing.
LEMMA OwnersStay ==
  ASSUME IInv,
         \A s \in Sockets : Owners(s)' = Owners(s),
         \A s \in Sockets : conn'[s] = "closed" <=> conn[s] = "closed"
  PROVE  OneOwner'
BY DEF IInv, OneOwner

\* The start: nothing connected, everybody before the first call.
LEMMA InitInv == Init => IInv
<1> SUFFICES ASSUME Init PROVE IInv
  OBVIOUS
<1> USE DEF Init
<1>1. Pool!IInv
  BY PoolKeepsInvariant
<1>2. /\ mainAt = "running" /\ mainSocket = NoSocket /\ pool.count = 0
      /\ workerAt = [w \in Workers |-> "fetch"]
  BY DEF Pool!Init, Pool!pool_init, Pool!EmptyRing
<1>3. TypeOK
  BY <1>1 DEF TypeOK, Pool!IInv, ConnStates, ListeningSteps, WorkerSteps
<1>4. MainInStep /\ WorkersInStep /\ ActiveIsServed
  BY <1>2 DEF MainInStep, WorkersInStep, ActiveIsServed, ListeningSteps
<1>5. OneOwner
  <2> SUFFICES ASSUME NEW s \in Sockets, NEW o \in Owners(s) PROVE FALSE
    BY DEF OneOwner
  <2>1. mainSocket # s
    BY <1>2, ServerAssumption
  <2>2. Users(s) = {}
    BY DEF Users
  <2>3. QED
    BY <1>2, <2>1, <2>2, OwnerCases
<1>6. QED
  BY <1>1, <1>3, <1>4, <1>5 DEF IInv

-------------------------------------------------------------------------------
(* Steps of main and of the clients. *)

\* Steps outside the pool that open and close no descriptor.
LEMMA QuietStep ==
  ASSUME IInv, UNCHANGED <<poolVars, active_sockets, workerStep>>,
         keep_running' \in BOOLEAN,
         conn' \in [Sockets -> ConnStates],
         \A s \in Sockets : conn'[s] = "closed" <=> conn[s] = "closed",
         mainStep' \in ListeningSteps \cup ShutdownSteps, MainInStep'
  PROVE  IInv'
<1>1. Pool!IInv'
  BY PoolKeepsInvariant DEF IInv, poolVars, Pool!poolVars
<1>2. TypeOK'
  BY <1>1 DEF IInv, TypeOK, Pool!IInv
<1>3. WorkersInStep' /\ ActiveIsServed'
  BY DEF IInv, poolVars, WorkersInStep, ActiveIsServed
<1>4. \A s \in Sockets : Owners(s)' = Owners(s)
  BY DEF Owners, Users, Queued, Pool!Contents, Pool!SlotOf, poolVars
<1>5. QED
  BY <1>1, <1>2, <1>3, <1>4, OwnersStay DEF IInv

\* The signal, the clients, and main's own steps.
LEMMA OutsideStep ==
  ASSUME IInv,
         \/ handle_signal \/ AcceptFails \/ LoopTest \/ CallAccept \/ Sweep
         \/ PersistenceShutdown \/ JoinWorkers
         \/ \E s \in Sockets : ClientLeaves(s)
  PROVE  IInv'
<1> USE DEF IInv, TypeOK, ConnStates, ListeningSteps, ShutdownSteps, MainInStep, poolVars
<1>1. CASE handle_signal \/ AcceptFails \/ LoopTest \/ CallAccept
  BY <1>1, QuietStep DEF handle_signal, AcceptFails, LoopTest, CallAccept, Pool!AllExited
<1>2. CASE Sweep
  <2>1. /\ conn' \in [Sockets -> ConnStates]
        /\ \A s \in Sockets : conn'[s] = "closed" <=> conn[s] = "closed"
    BY <1>2 DEF Sweep
  <2>2. QED
    BY <1>2, <2>1, QuietStep DEF Sweep, Pool!AllExited
<1>3. CASE PersistenceShutdown \/ JoinWorkers
  BY <1>3, QuietStep DEF PersistenceShutdown, JoinWorkers, Joined, Pool!AllExited
<1>4. ASSUME NEW s \in Sockets, ClientLeaves(s) PROVE IInv'
  <2>1. /\ conn' \in [Sockets -> ConnStates]
        /\ \A t \in Sockets : conn'[t] = "closed" <=> conn[t] = "closed"
    BY <1>4 DEF ClientLeaves
  <2>2. QED
    BY <1>4, <2>1, QuietStep DEF ClientLeaves, Pool!AllExited
<1>5. QED
  BY <1>1, <1>2, <1>3, <1>4

\* A new connection is main's.
LEMMA AcceptStep ==
  ASSUME IInv, NEW s \in Sockets, AcceptReturns(s)
  PROVE  IInv'
<1>1. /\ mainStep = "waiting" /\ mainStep' = "loop" /\ conn[s] = "closed"
      /\ conn' = [conn EXCEPT ![s] = "open"]
      /\ mainAt = "running" /\ mainAt' = "submit" /\ mainSocket' = s
      /\ UNCHANGED <<pool, shutdown, workerAt, held, keep_running, active_sockets, workerStep>>
  BY DEF AcceptReturns, Pool!CallSubmit
<1>2. Pool!IInv'
  BY PoolKeepsInvariant DEF IInv, AcceptReturns, Pool!Next
<1>3. TypeOK'
  BY <1>1, <1>2 DEF IInv, TypeOK, Pool!IInv, ConnStates, ListeningSteps
<1>4. MainInStep' /\ WorkersInStep' /\ ActiveIsServed'
  BY <1>1 DEF IInv, MainInStep, WorkersInStep, ActiveIsServed, ListeningSteps
<1>5. mainSocket = NoSocket
  BY <1>1 DEF IInv, Pool!IInv, Pool!HandOff
<1>6. \A t : Users(t)' = Users(t) /\ Queued' = Queued
  BY <1>1 DEF Users, Queued, Pool!Contents, Pool!SlotOf
<1>7. ASSUME NEW t \in Sockets, t # s PROVE Owners(t)' = Owners(t) /\ conn'[t] = conn[t]
  <2>1. \A o : o \in Owners(t)' <=> o \in Owners(t)
    BY <1>1, <1>5, <1>6, <1>7, OwnerCases, OwnerCasesNext, ServerAssumption
  <2>2. QED
    BY <1>1, <1>7, <2>1 DEF IInv, TypeOK
<1>8. Owners(s)' = {<<"main", 0>>} /\ conn'[s] = "open"
  <2>1. \A o : o \notin Owners(s)
    BY <1>1 DEF IInv, OneOwner
  <2>2. \A o : o \in Owners(s)' <=> o = <<"main", 0>>
    BY <1>1, <1>6, <2>1, OwnerCases, OwnerCasesNext
  <2>3. QED
    BY <1>1, <2>2 DEF IInv, TypeOK
<1>9. OneOwner'
  BY <1>7, <1>8 DEF IInv, OneOwner
<1>10. QED
  BY <1>2, <1>3, <1>4, <1>9 DEF IInv

\* What any step inside the pool does to the server's own variables, if it hands no
\* socket on: nothing.
LEMMA InsidePoolStep ==
  ASSUME IInv, Pool!Next,
         UNCHANGED <<pool, mainSocket, held, serverVars>>,
         \A w \in Workers : workerAt'[w] = "busy" <=> workerAt[w] = "busy",
         MainInStep'
  PROVE  IInv'
<1>1. Pool!IInv'
  BY PoolKeepsInvariant DEF IInv
<1>2. TypeOK' /\ ActiveIsServed' /\ WorkersInStep'
  BY <1>1 DEF IInv, TypeOK, Pool!IInv, ActiveIsServed, WorkersInStep, serverVars
<1>3. \A s \in Sockets : Owners(s)' = Owners(s)
  BY DEF Owners, Users, Queued, Pool!Contents, Pool!SlotOf, serverVars
<1>4. OneOwner'
  BY <1>3, OwnersStay DEF serverVars
<1>5. QED
  BY <1>1, <1>2, <1>4 DEF IInv

\* main's socket goes to the end of the queue.
LEMMA PutStep ==
  ASSUME IInv, Submit, Pool!SubmitPuts
  PROVE  IInv'
<1>1. /\ mainAt = "submit" /\ mainAt' = "running" /\ mainSocket' = NoSocket
      /\ UNCHANGED <<held, serverVars>>
      /\ Pool!SignalNotEmpty
  BY DEF Submit, Pool!SubmitPuts
<1>2. Pool!IInv'
  BY PoolKeepsInvariant DEF IInv, Submit, Pool!Next
<1>3. /\ Queued \in Seq(Sockets) /\ Len(Queued) = pool.count /\ pool.count \in Nat
      /\ mainSocket \in Sockets /\ Queued' = Append(Queued, mainSocket)
      /\ pool'.count = pool.count + 1
  BY QueuedType, PutAppends DEF IInv
<1>4. \A w \in Workers : workerAt'[w] = "busy" <=> workerAt[w] = "busy"
  BY <1>1 DEF IInv, TypeOK, Pool!TypeOK, Pool!SignalNotEmpty, Pool!WorkersIn
<1>5. TypeOK' /\ WorkersInStep' /\ ActiveIsServed'
  BY <1>1, <1>2, <1>4 DEF IInv, TypeOK, Pool!IInv, WorkersInStep, ActiveIsServed, serverVars
<1>6. MainInStep'
  BY <1>1 DEF IInv, MainInStep, ListeningSteps, serverVars
<1>7. /\ Queued'[pool.count + 1] = mainSocket
      /\ \A k \in 1 .. pool.count : Queued'[k] = Queued[k]
  BY <1>3
<1>8. \A t : Users(t)' = Users(t)
  BY <1>1 DEF Users, serverVars
<1>9. ASSUME NEW t \in Sockets, t # mainSocket PROVE Owners(t)' = Owners(t)
  <2>1. \A k \in 1 .. pool'.count : Queued'[k] = t <=> k \in 1 .. pool.count /\ Queued[k] = t
    BY <1>3, <1>7, <1>9
  <2>2. 1 .. pool.count \subseteq 1 .. pool'.count
    BY <1>3, <1>7
  <2>3. \A o : o \in Owners(t)' <=> o \in Owners(t)
    BY <1>1, <1>8, <1>9, <2>1, <2>2, OwnerCases, OwnerCasesNext, ServerAssumption
  <2>4. QED
    BY <2>3
<1>10. ASSUME NEW t \in Sockets, t = mainSocket
       PROVE  conn[t] # "closed" /\ Owners(t)' = {<<"queue", pool.count + 1>>}
  <2>1. <<"main", 0>> \in Owners(t)
    BY <1>10, OwnerCases
  <2>2. conn[t] # "closed" /\ Owners(t) = {<<"main", 0>>}
    BY <2>1 DEF IInv, OneOwner
  <2>3. /\ \A w \in Users(t) : <<"main", 0>> = <<"worker", w>>
        /\ \A k \in 1 .. pool.count : Queued[k] = t => <<"main", 0>> = <<"queue", k>>
    BY <2>2, OwnedElsewhere
  <2>4. Users(t) = {} /\ \A k \in 1 .. pool.count : Queued[k] # t
    BY <2>3
  <2>5. \A k \in 1 .. pool'.count : Queued'[k] = t <=> k = pool.count + 1
    BY <1>3, <1>7, <1>10, <2>4
  <2>6. pool.count + 1 \in 1 .. pool'.count /\ mainSocket' # t
    BY <1>1, <1>3, <1>10, ServerAssumption
  <2>7. \A o : o \in Owners(t)' <=> o = <<"queue", pool.count + 1>>
    BY <1>8, <2>4, <2>5, <2>6, OwnerCasesNext
  <2>8. QED
    BY <2>2, <2>7
<1>11. OneOwner'
  <2> SUFFICES ASSUME NEW t \in Sockets
               PROVE  IF conn'[t] = "closed" THEN Owners(t)' = {}
                      ELSE \E o \in Owners(t)' : Owners(t)' = {o}
    BY DEF OneOwner
  <2>1. conn' = conn
    BY <1>1 DEF serverVars
  <2>2. CASE t = mainSocket
    BY <1>10, <2>1, <2>2
  <2>3. CASE t # mainSocket
    BY <1>9, <2>1, <2>3 DEF IInv, OneOwner
  <2>4. QED
    BY <2>2, <2>3
<1>12. QED
  BY <1>2, <1>5, <1>6, <1>11 DEF IInv

\* Going to sleep in pool_submit, waking up, and the call of pool_shutdown.
LEMMA PoolCallStep ==
  ASSUME IInv, (Submit /\ Pool!SubmitWaits) \/ Spurious
  PROVE  IInv'
<1>1. /\ Pool!Next /\ UNCHANGED <<pool, mainSocket, held, serverVars>>
      /\ \A w \in Workers : workerAt'[w] = "busy" <=> workerAt[w] = "busy"
  BY DEF Submit, Pool!SubmitWaits, Spurious, Pool!SpuriousWakeup, Pool!Next, Pool!WorkersIn,
         IInv, TypeOK, Pool!TypeOK
<1>2. \/ mainAt = "submit" /\ mainAt' = "wait_not_full" /\ UNCHANGED workerAt
      \/ mainAt = "wait_not_full" /\ mainAt' = "submit" /\ UNCHANGED workerAt
      \/ /\ UNCHANGED mainAt
         /\ \E w \in Workers : workerAt[w] = "wait_not_empty"
         /\ \A w \in Workers : workerAt[w] = "exited" => workerAt'[w] = "exited"
  BY DEF Submit, Pool!SubmitWaits, Spurious, Pool!SpuriousWakeup, Pool!WorkersIn,
         IInv, TypeOK, Pool!TypeOK
<1>3. MainInStep'
  BY <1>1, <1>2 DEF IInv, MainInStep, ListeningSteps, serverVars, Pool!AllExited
<1>4. QED
  BY <1>1, <1>3, InsidePoolStep

\* pool_shutdown wakes the sleepers and moves main on.
LEMMA PoolShutdownStep ==
  ASSUME IInv, PoolShutdown
  PROVE  IInv'
<1>1. /\ mainStep = "pool_shutdown" /\ mainStep' = "persistence_shutdown"
      /\ mainAt = "running" /\ mainAt' = "stopped"
      /\ UNCHANGED <<pool, mainSocket, held, keep_running, active_sockets, conn, workerStep>>
      /\ \A w \in Workers : workerAt'[w] = "busy" <=> workerAt[w] = "busy"
  BY DEF PoolShutdown, Pool!pool_shutdown, Pool!BroadcastNotEmpty
<1>2. Pool!IInv'
  BY PoolKeepsInvariant DEF IInv, PoolShutdown, Pool!Next
<1>3. TypeOK' /\ ActiveIsServed' /\ WorkersInStep'
  BY <1>1, <1>2 DEF IInv, TypeOK, Pool!IInv, ActiveIsServed, WorkersInStep, ShutdownSteps
<1>4. MainInStep'
  BY <1>1 DEF MainInStep, ListeningSteps
<1>5. \A s \in Sockets : Owners(s)' = Owners(s)
  BY <1>1 DEF Owners, Users, Queued, Pool!Contents, Pool!SlotOf
<1>6. OneOwner'
  BY <1>1, <1>5, OwnersStay
<1>7. QED
  BY <1>2, <1>3, <1>4, <1>6 DEF IInv

-------------------------------------------------------------------------------
(* Steps of the workers. *)

\* A worker that finds the queue empty sleeps or leaves.
LEMMA FetchNothingStep ==
  ASSUME IInv, NEW w \in Workers, Fetch(w), Pool!FetchWaits(w) \/ Pool!FetchQuits(w)
  PROVE  IInv'
<1>1. /\ UNCHANGED <<pool, shutdown, mainAt, mainSocket, held>>
      /\ UNCHANGED <<keep_running, active_sockets, conn, mainStep>>
      /\ workerAt[w] = "fetch" /\ workerAt'[w] \in {"wait_not_empty", "exited"}
      /\ \A v \in Workers : v # w => workerAt'[v] = workerAt[v]
      /\ workerStep' = [workerStep EXCEPT ![w] = IF workerAt'[w] = "busy" THEN "register" ELSE "none"]
  BY DEF Fetch, Pool!FetchWaits, Pool!FetchQuits, IInv, TypeOK, Pool!TypeOK
<1>2. workerStep' = workerStep
  <2>1. workerStep[w] = "none"
    BY <1>1 DEF IInv, WorkersInStep
  <2>2. QED
    BY <1>1, <2>1 DEF IInv, TypeOK
<1>3. MainInStep'
  BY <1>1 DEF IInv, MainInStep, Pool!AllExited, ListeningSteps
<1>4. Pool!Next
  BY DEF Fetch, Pool!Next
<1>5. QED
  BY <1>1, <1>2, <1>3, <1>4, InsidePoolStep DEF serverVars

\* A worker takes over the first descriptor of the queue.
LEMMA FetchTakesStep ==
  ASSUME IInv, NEW w \in Workers, Fetch(w), Pool!FetchTakes(w)
  PROVE  IInv'
<1>1. /\ workerAt[w] = "fetch" /\ workerAt' = [workerAt EXCEPT ![w] = "busy"]
      /\ UNCHANGED <<shutdown, mainSocket, keep_running, active_sockets, conn, mainStep>>
      /\ mainAt' = IF mainAt = "wait_not_full" THEN "submit" ELSE mainAt
      /\ \A v \in Workers : v # w => held'[v] = held[v]
  BY DEF Fetch, Pool!FetchTakes, Pool!SignalNotFull, IInv, TypeOK, Pool!TypeOK
<1>2. workerStep' = [workerStep EXCEPT ![w] = "register"] /\ workerStep[w] = "none"
  BY <1>1 DEF Fetch, IInv, TypeOK, Pool!TypeOK, WorkersInStep
<1>3. Pool!IInv'
  BY PoolKeepsInvariant DEF IInv, Fetch, Pool!Next
<1>4. TypeOK' /\ WorkersInStep' /\ ActiveIsServed'
  BY <1>1, <1>2, <1>3
  DEF IInv, TypeOK, Pool!TypeOK, Pool!IInv, WorkersInStep, ActiveIsServed, WorkerSteps
<1>5. MainInStep'
  BY <1>1 DEF IInv, MainInStep, ListeningSteps, Pool!AllExited
<1>6. /\ Queued \in Seq(Sockets) /\ Len(Queued) = pool.count /\ pool.count \in Nat
      /\ Queued' = Tail(Queued) /\ pool.count > 0 /\ pool'.count = pool.count - 1
      /\ held'[w] = Queued[1]
  BY QueuedType, TakeIsTail DEF IInv
<1>7. \A k \in 1 .. pool'.count : Queued'[k] = Queued[k + 1]
  BY <1>6
<1>8. ASSUME NEW t \in Sockets, t # Queued[1]
      PROVE  /\ Owners(t) = {} => Owners(t)' = {}
             /\ (\E o \in Owners(t) : Owners(t) = {o})
                  => (\E o \in Owners(t)' : Owners(t)' = {o})
  <2>1. Users(t)' = Users(t)
    BY <1>1, <1>2, <1>6, <1>8 DEF Users, IInv, TypeOK
  <2>2. \A k \in 1 .. pool.count : Queued[k] = t => k - 1 \in 1 .. pool'.count /\ Queued'[k - 1] = t
    BY <1>6, <1>7, <1>8
  <2>3. \A k \in 1 .. pool'.count : Queued'[k] = t => k + 1 \in 1 .. pool.count /\ Queued[k + 1] = t
    BY <1>6, <1>7
  <2>4. ASSUME Owners(t) = {} PROVE Owners(t)' = {}
    <3>1. /\ mainSocket # t /\ Users(t) = {}
          /\ \A k \in 1 .. pool.count : Queued[k] # t
      BY <2>4 DEF Owners
    <3>2. \A o : o \notin Owners(t)'
      BY <1>1, <2>1, <2>3, <3>1, OwnerCasesNext
    <3>3. QED
      BY <3>2
  <2>5. ASSUME NEW o \in Owners(t), Owners(t) = {o}
        PROVE  \E p \in Owners(t)' : Owners(t)' = {p}
    <3>1. /\ mainSocket = t => o = <<"main", 0>>
          /\ \A k \in 1 .. pool.count : Queued[k] = t => o = <<"queue", k>>
          /\ \A v \in Users(t) : o = <<"worker", v>>
      BY <2>5, OwnedElsewhere
    <3>2. CASE mainSocket = t
      <4>1. \A p : p \in Owners(t)' <=> p = <<"main", 0>>
        BY <1>1, <2>1, <2>3, <3>1, <3>2, OwnerCasesNext
      <4>2. Owners(t)' = {<<"main", 0>>}
        BY <4>1
      <4>3. QED
        BY <4>2
    <3>3. ASSUME NEW k \in 1 .. pool.count, Queued[k] = t
          PROVE  \E p \in Owners(t)' : Owners(t)' = {p}
      <4>1. \A j \in 1 .. pool'.count : Queued'[j] = t <=> j = k - 1
        BY <1>6, <1>7, <2>2, <2>3, <3>1, <3>3
      <4>2. Users(t) = {} /\ mainSocket # t
        BY <3>1, <3>3
      <4>3. \A p : p \in Owners(t)' <=> p = <<"queue", k - 1>>
        BY <1>1, <2>1, <2>2, <3>3, <4>1, <4>2, OwnerCasesNext
      <4>4. Owners(t)' = {<<"queue", k - 1>>}
        BY <4>3
      <4>5. QED
        BY <4>4
    <3>4. ASSUME NEW v \in Users(t)
          PROVE  \E p \in Owners(t)' : Owners(t)' = {p}
      <4>1. \A p : p \in Owners(t)' <=> p = <<"worker", v>>
        BY <1>1, <2>1, <2>3, <3>1, <3>4, OwnerCasesNext
      <4>2. Owners(t)' = {<<"worker", v>>}
        BY <4>1
      <4>3. QED
        BY <4>2
    <3>5. QED
      BY <2>5, <3>2, <3>3, <3>4, OwnerCases
  <2>6. QED
    BY <2>4, <2>5
<1>9. ASSUME NEW t \in Sockets, t = Queued[1]
      PROVE  conn[t] # "closed" /\ Owners(t)' = {<<"worker", w>>}
  <2>1. <<"queue", 1>> \in Owners(t)
    BY <1>6, <1>9, OwnerCases
  <2>2. conn[t] # "closed" /\ Owners(t) = {<<"queue", 1>>}
    BY <2>1 DEF IInv, OneOwner
  <2>3. /\ mainSocket = t => <<"queue", 1>> = <<"main", 0>>
        /\ \A v \in Users(t) : <<"queue", 1>> = <<"worker", v>>
        /\ \A k \in 1 .. pool.count : Queued[k] = t => <<"queue", 1>> = <<"queue", k>>
    BY <2>2, OwnedElsewhere
  <2>4. mainSocket # t /\ Users(t) = {} /\ \A k \in 1 .. pool.count : Queued[k] = t => k = 1
    BY <2>3
  <2>5. \A k \in 1 .. pool'.count : Queued'[k] # t
    BY <1>6, <1>7, <2>4
  <2>6. Users(t)' = {w}
    BY <1>1, <1>2, <1>6, <1>9, <2>4 DEF Users, IInv, TypeOK
  <2>7. \A o : o \in Owners(t)' <=> o = <<"worker", w>>
    BY <1>1, <2>4, <2>5, <2>6, OwnerCasesNext
  <2>8. QED
    BY <2>2, <2>7
<1>10. OneOwner'
  <2> SUFFICES ASSUME NEW t \in Sockets
               PROVE  IF conn'[t] = "closed" THEN Owners(t)' = {}
                      ELSE \E o \in Owners(t)' : Owners(t)' = {o}
    BY DEF OneOwner
  <2>1. CASE t = Queued[1]
    BY <1>1, <1>9, <2>1
  <2>2. CASE t # Queued[1]
    BY <1>1, <1>8, <2>2 DEF IInv, OneOwner
  <2>3. QED
    BY <2>1, <2>2
<1>11. QED
  BY <1>3, <1>4, <1>5, <1>10 DEF IInv

\* A worker notes the descriptor it owns in active_sockets, and goes on owning it.
LEMMA RegisterStep ==
  ASSUME IInv, NEW w \in Workers, Register(w)
  PROVE  IInv'
<1>1. /\ workerStep[w] = "register" /\ workerStep' = [workerStep EXCEPT ![w] = "serving"]
      /\ active_sockets' = [active_sockets EXCEPT ![w] = held[w]]
      /\ UNCHANGED <<poolVars, keep_running, conn, mainStep>>
  BY DEF Register, SetActive
<1>2. Pool!IInv'
  BY <1>1, PoolKeepsInvariant DEF IInv, poolVars, Pool!poolVars
<1>3. TypeOK'
  BY <1>1, <1>2 DEF IInv, TypeOK, Pool!TypeOK, Pool!IInv, WorkerSteps, poolVars
<1>4. MainInStep' /\ WorkersInStep' /\ ActiveIsServed'
  BY <1>1 DEF IInv, TypeOK, MainInStep, WorkersInStep, ActiveIsServed, Pool!AllExited, poolVars
<1>5. \A s : Users(s)' = Users(s)
  BY <1>1 DEF Users, IInv, TypeOK, poolVars
<1>6. \A s \in Sockets : Owners(s)' = Owners(s)
  BY <1>1, <1>5 DEF Owners, Queued, Pool!Contents, Pool!SlotOf, poolVars
<1>7. OneOwner'
  BY <1>1, <1>6, OwnersStay
<1>8. QED
  BY <1>2, <1>3, <1>4, <1>7 DEF IInv

\* The owner of a descriptor closes it, and nobody else has it.
LEMMA CloseStep ==
  ASSUME IInv, NEW w \in Workers, handle_client(w)
  PROVE  IInv'
<1>1. /\ workerStep[w] = "serving" /\ workerStep' = [workerStep EXCEPT ![w] = "clear"]
      /\ conn' = [conn EXCEPT ![held[w]] = "closed"]
      /\ UNCHANGED <<poolVars, keep_running, active_sockets, mainStep>>
  BY DEF handle_client, close
<1>2. Pool!IInv'
  BY <1>1, PoolKeepsInvariant DEF IInv, poolVars, Pool!poolVars
<1>3. TypeOK'
  BY <1>1, <1>2 DEF IInv, TypeOK, Pool!IInv, WorkerSteps, ConnStates, poolVars
<1>4. MainInStep' /\ WorkersInStep' /\ ActiveIsServed'
  BY <1>1 DEF IInv, TypeOK, MainInStep, WorkersInStep, ActiveIsServed, Pool!AllExited, poolVars
<1>5. held[w] \in Sockets
  BY <1>1 DEF IInv, Pool!IInv, Pool!TypeOK, Pool!HandOff, WorkersInStep
<1>6. ASSUME NEW s \in Sockets, s # held[w] PROVE Owners(s)' = Owners(s) /\ conn'[s] = conn[s]
  <2>1. Users(s)' = Users(s)
    BY <1>1, <1>6 DEF Users, IInv, TypeOK, poolVars
  <2>2. QED
    BY <1>1, <1>6, <2>1 DEF Owners, Queued, Pool!Contents, Pool!SlotOf, poolVars, IInv, TypeOK
<1>7. ASSUME NEW s \in Sockets, s = held[w] PROVE Owners(s)' = {} /\ conn'[s] = "closed"
  <2>1. <<"worker", w>> \in Owners(s)
    <3>1. w \in Users(s)
      BY <1>1, <1>7 DEF Users
    <3>2. QED
      BY <3>1, OwnerCases
  <2>2. Owners(s) = {<<"worker", w>>}
    BY <2>1 DEF IInv, OneOwner
  <2>3. /\ mainSocket = s => <<"worker", w>> = <<"main", 0>>
        /\ \A k \in 1 .. pool.count : Queued[k] = s => <<"worker", w>> = <<"queue", k>>
        /\ \A v \in Users(s) : <<"worker", w>> = <<"worker", v>>
    BY <2>2, OwnedElsewhere
  <2>4. /\ mainSocket # s /\ \A k \in 1 .. pool.count : Queued[k] # s
        /\ \A v \in Users(s) : v = w
    BY <2>3
  <2>5. Users(s)' = {}
    BY <1>1, <2>4 DEF Users, IInv, TypeOK, poolVars
  <2>6. UNCHANGED <<pool, mainSocket, Queued>>
    BY <1>1 DEF poolVars, Queued, Pool!Contents, Pool!SlotOf
  <2>7. \A o : o \notin Owners(s)'
    BY <2>4, <2>5, <2>6, OwnerCasesNext
  <2>8. QED
    BY <1>1, <1>7, <2>7 DEF IInv, TypeOK
<1>8. OneOwner'
  BY <1>6, <1>7 DEF IInv, OneOwner
<1>9. QED
  BY <1>2, <1>3, <1>4, <1>8 DEF IInv

\* Back to pool_fetch, with a descriptor that is closed already.
LEMMA ClearStep ==
  ASSUME IInv, NEW w \in Workers, Clear(w)
  PROVE  IInv'
<1>1. /\ workerStep[w] = "clear" /\ workerStep' = [workerStep EXCEPT ![w] = "none"]
      /\ active_sockets' = [active_sockets EXCEPT ![w] = NoSocket]
      /\ workerAt' = [workerAt EXCEPT ![w] = "fetch"] /\ workerAt[w] = "busy"
      /\ held' = [held EXCEPT ![w] = NoSocket]
      /\ UNCHANGED <<pool, shutdown, mainAt, mainSocket, keep_running, conn, mainStep>>
  BY DEF Clear, SetActive, Pool!Release
<1>2. Pool!IInv'
  BY PoolKeepsInvariant DEF IInv, Clear, Pool!Next
<1>3. TypeOK'
  BY <1>1, <1>2 DEF IInv, TypeOK, Pool!IInv, WorkerSteps
<1>4. MainInStep' /\ WorkersInStep' /\ ActiveIsServed'
  BY <1>1
  DEF IInv, TypeOK, Pool!TypeOK, MainInStep, WorkersInStep, ActiveIsServed, Pool!AllExited
<1>5. \A s \in Sockets : Users(s)' = Users(s)
  BY <1>1 DEF Users, IInv, TypeOK, Pool!TypeOK
<1>6. \A s \in Sockets : Owners(s)' = Owners(s)
  BY <1>1, <1>5 DEF Owners, Queued, Pool!Contents, Pool!SlotOf
<1>7. OneOwner'
  BY <1>1, <1>6, OwnersStay
<1>8. QED
  BY <1>2, <1>3, <1>4, <1>7 DEF IInv

-------------------------------------------------------------------------------
\* Every step keeps the inductive invariant, action by action.
LEMMA StepInv == IInv /\ [Next]_vars => IInv'
<1> SUFFICES ASSUME IInv, [Next]_vars PROVE IInv'
  OBVIOUS
<1>1. CASE UNCHANGED vars
  <2>1. UNCHANGED <<poolVars, active_sockets, workerStep, keep_running, conn, mainStep>>
    BY <1>1 DEF vars, serverVars
  <2>2. MainInStep'
    BY <2>1 DEF IInv, MainInStep, Pool!AllExited, poolVars
  <2>3. QED
    BY <2>1, <2>2, QuietStep DEF IInv, TypeOK
<1>2. CASE \/ handle_signal \/ AcceptFails \/ LoopTest \/ CallAccept \/ Sweep
           \/ PersistenceShutdown \/ JoinWorkers
           \/ \E s \in Sockets : ClientLeaves(s)
  BY <1>2, OutsideStep
<1>3. CASE \E s \in Sockets : AcceptReturns(s)
  BY <1>3, AcceptStep
<1>4. CASE Submit \/ Spurious
  BY <1>4, PutStep, PoolCallStep DEF Submit, Pool!pool_submit
<1>5. CASE PoolShutdown
  BY <1>5, PoolShutdownStep
<1>6. ASSUME NEW w \in Workers, Fetch(w) PROVE IInv'
  BY <1>6, FetchNothingStep, FetchTakesStep DEF Fetch, Pool!pool_fetch
<1>7. ASSUME NEW w \in Workers, Register(w) \/ handle_client(w) \/ Clear(w) PROVE IInv'
  BY <1>7, RegisterStep, CloseStep, ClearStep
<1>8. CASE Ended
  BY <1>1, <1>8 DEF Ended
<1>9. QED
  BY <1>1, <1>2, <1>3, <1>4, <1>5, <1>6, <1>7, <1>8 DEF Next, MainThread, WorkerThread

\* The inductive invariant of the server around its pool.
THEOREM ServerInvariant == Spec => []IInv
<1>1. QED
  BY InitInv, StepInv, PTL DEF Spec

\* Types: every thread of the server is in a place the code has, and active_sockets
\* holds descriptors or nothing.
THEOREM TypesAreKept == Spec => []TypeOK
<1>1. IInv => TypeOK
  BY DEF IInv
<1>2. QED
  BY <1>1, ServerInvariant, PTL

\* Every descriptor that is connected has one owner and a closed one has none,
\* although accept gives out the same numbers again and again.
THEOREM DescriptorsHaveOneOwner == Spec => []OneOwner
<1>1. IInv => OneOwner
  BY DEF IInv
<1>2. QED
  BY <1>1, ServerInvariant, PTL

\* A worker inside handle_client is where the sweep of the shutdown finds it.
THEOREM SweepFindsServing == Spec => []ActiveIsServed
<1>1. IInv => ActiveIsServed
  BY DEF IInv
<1>2. QED
  BY <1>1, ServerInvariant, PTL

\* When main has returned there is no thread, no queued socket and no open connection.
THEOREM NothingIsLeft == Spec => []NothingLeftAtExit
<1>1. IInv => NothingLeftAtExit
  <2> SUFFICES ASSUME IInv, mainStep = "returned"
               PROVE  /\ Pool!AllExited /\ pool.count = 0
                      /\ \A s \in Sockets : conn[s] = "closed"
    BY DEF NothingLeftAtExit
  <2>1. Pool!AllExited /\ mainAt = "stopped"
    BY DEF IInv, MainInStep, ListeningSteps, Pool!IInv, Pool!TypeOK
  <2>2. pool.count = 0
    BY <2>1, ServerAssumption
    DEF Pool!AllExited, IInv, Pool!IInv, Pool!ShutdownWakesAll, Pool!WorkersIn
  <2>3. mainSocket = NoSocket /\ \A s : Users(s) = {}
    BY <2>1 DEF Pool!AllExited, IInv, Pool!IInv, Pool!HandOff, WorkersInStep, Users
  <2>4. ASSUME NEW s \in Sockets PROVE conn[s] = "closed"
    <3>1. \A o : o \notin Owners(s)
      BY <2>2, <2>3, OwnerCases, ServerAssumption
    <3>2. QED
      BY <3>1 DEF IInv, OneOwner
  <2>5. QED
    BY <2>1, <2>2, <2>4
<1>2. QED
  BY <1>1, ServerInvariant, PTL
===============================================================================
