--------------------------- MODULE ThreadPoolProofs ---------------------------
(***************************************************************************)
(* The safety of ThreadPool for every queue length, every finite set of    *)
(* workers and every set of sockets.                                       *)
(***************************************************************************)
EXTENDS ThreadPool, RingProofs, FiniteSetTheorems

\* The workers in any one state are finitely many, so that they can be counted.
LEMMA WorkersAreFinite ==
  ASSUME NEW state
  PROVE  /\ IsFiniteSet(WorkersIn(state))
         /\ Cardinality(WorkersIn(state)) \in Nat
<1>1. WorkersIn(state) \in SUBSET Workers
  BY DEF WorkersIn
<1>2. QED
  BY <1>1, PoolAssumption, FS_Subset, FS_CardinalityType

\* The queue as the lemmas on rings see it.
LEMMA PoolFields ==
  ASSUME RingIsSound
  PROVE  pool.count \in Nat /\ pool.count <= QueueSize
BY PoolAssumption, Fields DEF RingIsSound

\* pool_init leaves a pool that satisfies the inductive invariant.
LEMMA InitInv == Init => IInv
<1> SUFFICES ASSUME Init PROVE IInv
  OBVIOUS
<1> USE DEF Init, pool_init
<1>1. RingIsSound
  BY PoolAssumption, EmptyIsSound DEF RingIsSound
<1>2. TypeOK
  BY <1>1 DEF TypeOK, MainStates, WorkerStates, RingIsSound, SoundRing
<1>3. WorkersIn("wait_not_empty") = {} /\ WorkersIn("exited") = {}
  BY DEF WorkersIn
<1>4. NoSleeperOwedWork /\ MainSleepsOnlyIfFull /\ ShutdownWakesAll
  BY <1>3 DEF NoSleeperOwedWork, MainSleepsOnlyIfFull, ShutdownWakesAll
<1>5. HandOff
  BY DEF HandOff
<1>6. QED
  BY <1>1, <1>2, <1>4, <1>5 DEF IInv

-------------------------------------------------------------------------------
(* How a step moves the workers between WorkersIn("fetch") and the rest. *)

\* A worker put to "fetch" from elsewhere: one more on its way to the queue.
LEMMA OneMoreFetching ==
  ASSUME TypeOK, NEW w \in Workers, workerAt[w] # "fetch",
         workerAt' = [workerAt EXCEPT ![w] = "fetch"]
  PROVE  Cardinality(WorkersIn("fetch")') = Cardinality(WorkersIn("fetch")) + 1
<1>1. WorkersIn("fetch")' = WorkersIn("fetch") \cup {w} /\ w \notin WorkersIn("fetch")
  BY DEF WorkersIn, TypeOK
<1>2. QED
  BY <1>1, WorkersAreFinite, FS_AddElement

\* A worker taken from "fetch": one fewer.
LEMMA OneLessFetching ==
  ASSUME TypeOK, NEW w \in Workers, workerAt[w] = "fetch", NEW state, state # "fetch",
         workerAt' = [workerAt EXCEPT ![w] = state]
  PROVE  Cardinality(WorkersIn("fetch")') = Cardinality(WorkersIn("fetch")) - 1
<1>1. WorkersIn("fetch")' = WorkersIn("fetch") \ {w} /\ w \in WorkersIn("fetch")
  BY DEF WorkersIn, TypeOK
<1>2. QED
  BY <1>1, WorkersAreFinite, FS_RemoveElement

\* pthread_cond_signal(&not_empty) and a spurious wakeup do the same to a sleeper.
LEMMA WakeOne ==
  ASSUME IInv, NEW w \in WorkersIn("wait_not_empty"),
         workerAt' = [workerAt EXCEPT ![w] = "fetch"]
  PROVE  /\ workerAt' \in [Workers -> WorkerStates]
         /\ Cardinality(WorkersIn("fetch")') = Cardinality(WorkersIn("fetch")) + 1
         /\ WorkersIn("exited")' = WorkersIn("exited")
         /\ WorkersIn("wait_not_empty")' \subseteq WorkersIn("wait_not_empty")
         /\ \A v \in Workers : workerAt'[v] = "busy" <=> workerAt[v] = "busy"
<1>1. w \in Workers /\ workerAt[w] = "wait_not_empty" /\ TypeOK
  BY DEF WorkersIn, IInv
<1>2. workerAt' \in [Workers -> WorkerStates]
  BY <1>1 DEF TypeOK, WorkerStates
<1>3. \A v \in Workers : workerAt'[v] = IF v = w THEN "fetch" ELSE workerAt[v]
  BY <1>1 DEF TypeOK
<1>4. QED
  BY <1>1, <1>2, <1>3, OneMoreFetching DEF WorkersIn

-------------------------------------------------------------------------------
(* Each action keeps the invariant. *)

\* CallSubmit and SubmitWaits move main only.
LEMMA MainStep ==
  ASSUME IInv, (\E s \in Sockets : CallSubmit(s)) \/ SubmitWaits
  PROVE  IInv'
<1>1. /\ UNCHANGED <<pool, shutdown, workerAt, held>>
      /\ mainAt # "stopped"
      /\ \/ mainAt' = "submit" /\ mainSocket' \in Sockets
         \/ /\ mainAt' = "wait_not_full" /\ mainAt = "submit"
            /\ mainSocket' = mainSocket /\ IsFull(pool, QueueSize)
  BY DEF CallSubmit, SubmitWaits
<1>2. TypeOK'
  BY <1>1 DEF IInv, TypeOK, MainStates
<1>3. RingIsSound' /\ NoSleeperOwedWork' /\ ShutdownWakesAll'
  BY <1>1 DEF IInv, RingIsSound, NoSleeperOwedWork, ShutdownWakesAll, WorkersIn
<1>4. MainSleepsOnlyIfFull'
  BY <1>1 DEF MainSleepsOnlyIfFull
<1>5. HandOff'
  BY <1>1, PoolAssumption DEF IInv, HandOff
<1>6. QED
  BY <1>2, <1>3, <1>4, <1>5 DEF IInv

\* SubmitPuts adds a socket and wakes a worker for it, if one sleeps.
LEMMA SubmitPutsStep ==
  ASSUME IInv, SubmitPuts
  PROVE  IInv'
<1>1. /\ mainAt = "submit" /\ ~IsFull(pool, QueueSize) /\ mainSocket \in Sockets
      /\ pool' = Enqueue(pool, QueueSize, mainSocket)
      /\ mainAt' = "running" /\ mainSocket' = NoSocket
      /\ SignalNotEmpty /\ UNCHANGED <<shutdown, held>>
  BY DEF SubmitPuts, IInv, HandOff, TypeOK
<1>2. ~shutdown /\ WorkersIn("exited") = {}
  BY <1>1 DEF IInv, ShutdownWakesAll
<1>3. RingIsSound'
  BY <1>1, PoolAssumption, EnqueueAppends DEF RingIsSound, IInv
<1>4. pool'.count = pool.count + 1 /\ pool.count \in Nat
  BY <1>1, PoolFields DEF Enqueue, IInv
<1>5. /\ workerAt' \in [Workers -> WorkerStates]
      /\ WorkersIn("exited")' = {}
      /\ \A v \in Workers : workerAt'[v] = "busy" <=> workerAt[v] = "busy"
      /\ \/ WorkersIn("wait_not_empty")' = {}
         \/ /\ WorkersIn("wait_not_empty") # {}
            /\ Cardinality(WorkersIn("fetch")') = Cardinality(WorkersIn("fetch")) + 1
  <2>1. CASE WorkersIn("wait_not_empty") = {} /\ UNCHANGED workerAt
    BY <1>2, <2>1 DEF WorkersIn, IInv, TypeOK
  <2>2. CASE \E w \in WorkersIn("wait_not_empty") : workerAt' = [workerAt EXCEPT ![w] = "fetch"]
    BY <1>2, <2>2, WakeOne
  <2>3. QED
    BY <1>1, <2>1, <2>2 DEF SignalNotEmpty
<1>6. TypeOK'
  BY <1>1, <1>3, <1>5 DEF IInv, TypeOK, MainStates, RingIsSound, SoundRing
<1>7. NoSleeperOwedWork'
  BY <1>4, <1>5, WorkersAreFinite DEF IInv, NoSleeperOwedWork
<1>8. MainSleepsOnlyIfFull' /\ ShutdownWakesAll'
  BY <1>1, <1>2, <1>5 DEF MainSleepsOnlyIfFull, ShutdownWakesAll
<1>9. HandOff'
  BY <1>1, <1>5 DEF IInv, HandOff
<1>10. QED
  BY <1>3, <1>6, <1>7, <1>8, <1>9 DEF IInv

\* pool_shutdown leaves nobody asleep.
LEMMA ShutdownStep ==
  ASSUME IInv, pool_shutdown
  PROVE  IInv'
<1>1. /\ mainAt = "running" /\ mainAt' = "stopped" /\ shutdown' = TRUE
      /\ UNCHANGED <<pool, mainSocket, held>>
      /\ workerAt' = [w \in Workers |->
                        IF workerAt[w] = "wait_not_empty" THEN "fetch" ELSE workerAt[w]]
  BY DEF pool_shutdown, BroadcastNotEmpty
<1>2. TypeOK'
  BY <1>1 DEF IInv, TypeOK, MainStates, WorkerStates
<1>3. WorkersIn("wait_not_empty")' = {} /\ WorkersIn("exited")' = WorkersIn("exited")
  BY <1>1 DEF WorkersIn
<1>4. RingIsSound' /\ NoSleeperOwedWork' /\ MainSleepsOnlyIfFull' /\ ShutdownWakesAll'
  BY <1>1, <1>3
  DEF IInv, RingIsSound, NoSleeperOwedWork, MainSleepsOnlyIfFull, ShutdownWakesAll
<1>5. HandOff'
  BY <1>1 DEF IInv, HandOff
<1>6. QED
  BY <1>2, <1>4, <1>5 DEF IInv

\* FetchWaits and FetchQuits happen on an empty queue and move one worker.
LEMMA FetchLeavesStep ==
  ASSUME IInv, NEW w \in Workers, FetchWaits(w) \/ FetchQuits(w)
  PROVE  IInv'
<1>1. /\ workerAt[w] = "fetch" /\ pool.count = 0
      /\ UNCHANGED <<pool, shutdown, mainAt, mainSocket, held>>
      /\ \/ ~shutdown /\ workerAt' = [workerAt EXCEPT ![w] = "wait_not_empty"]
         \/ shutdown /\ workerAt' = [workerAt EXCEPT ![w] = "exited"]
  BY DEF FetchWaits, FetchQuits, Finished
<1>2. TypeOK'
  BY <1>1 DEF IInv, TypeOK, WorkerStates
<1>3. RingIsSound' /\ MainSleepsOnlyIfFull'
  BY <1>1 DEF IInv, RingIsSound, MainSleepsOnlyIfFull
<1>4. pool'.count = 0
  BY <1>1
<1>5. NoSleeperOwedWork'
  <2>1. Cardinality(WorkersIn("fetch")') \in Nat
    <3>1. WorkersIn("fetch")' \in SUBSET Workers
      BY DEF WorkersIn
    <3>2. QED
      BY <3>1, PoolAssumption, FS_Subset, FS_CardinalityType
  <2>2. QED
    BY <1>4, <2>1 DEF NoSleeperOwedWork
<1>6. ShutdownWakesAll'
  <2>1. ~shutdown => WorkersIn("exited")' = WorkersIn("exited")
    BY <1>1 DEF IInv, TypeOK, WorkersIn
  <2>2. shutdown => WorkersIn("wait_not_empty")' = WorkersIn("wait_not_empty")
    BY <1>1 DEF IInv, TypeOK, WorkersIn
  <2>3. QED
    BY <1>1, <1>4, <2>1, <2>2 DEF IInv, ShutdownWakesAll
<1>7. HandOff'
  BY <1>1 DEF IInv, TypeOK, HandOff
<1>8. QED
  BY <1>2, <1>3, <1>5, <1>6, <1>7 DEF IInv

\* FetchTakes removes one socket and one of the workers on their way to it.
LEMMA FetchTakesStep ==
  ASSUME IInv, NEW w \in Workers, FetchTakes(w)
  PROVE  IInv'
<1>1. /\ workerAt[w] = "fetch" /\ pool.count > 0
      /\ held' = [held EXCEPT ![w] = Front(pool)]
      /\ pool' = Dequeue(pool, QueueSize)
      /\ workerAt' = [workerAt EXCEPT ![w] = "busy"]
      /\ mainAt' = IF mainAt = "wait_not_full" THEN "submit" ELSE mainAt
      /\ UNCHANGED <<shutdown, mainSocket>>
  BY DEF FetchTakes, SignalNotFull
<1>2. RingIsSound' /\ Front(pool) \in Sockets
  BY <1>1, PoolAssumption, DequeueIsTail DEF RingIsSound, IInv
<1>3. pool'.count = pool.count - 1 /\ pool.count \in Nat
  BY <1>1, PoolFields DEF Dequeue, IInv
<1>4. TypeOK'
  BY <1>1, <1>2 DEF IInv, TypeOK, MainStates, WorkerStates, RingIsSound, SoundRing
<1>5. /\ WorkersIn("wait_not_empty")' = WorkersIn("wait_not_empty")
      /\ WorkersIn("exited")' = WorkersIn("exited")
  BY <1>1 DEF WorkersIn, IInv, TypeOK
<1>6. NoSleeperOwedWork'
  <2>1. Cardinality(WorkersIn("fetch")') = Cardinality(WorkersIn("fetch")) - 1
    BY <1>1, OneLessFetching DEF IInv
  <2>2. QED
    BY <1>3, <1>5, <2>1, WorkersAreFinite DEF IInv, NoSleeperOwedWork
<1>7. MainSleepsOnlyIfFull'
  BY <1>1 DEF MainSleepsOnlyIfFull
<1>8. WorkersIn("exited") = {}
  BY <1>1 DEF IInv, ShutdownWakesAll
<1>9. ShutdownWakesAll'
  BY <1>1, <1>5, <1>8 DEF IInv, ShutdownWakesAll
<1>10. HandOff'
  BY <1>1, <1>2, PoolAssumption DEF IInv, TypeOK, HandOff
<1>11. QED
  BY <1>2, <1>4, <1>6, <1>7, <1>9, <1>10 DEF IInv

\* Release sends one more worker to the queue.
LEMMA ReleaseStep ==
  ASSUME IInv, NEW w \in Workers, Release(w)
  PROVE  IInv'
<1>1. /\ workerAt[w] = "busy"
      /\ workerAt' = [workerAt EXCEPT ![w] = "fetch"]
      /\ held' = [held EXCEPT ![w] = NoSocket]
      /\ UNCHANGED <<pool, shutdown, mainAt, mainSocket>>
  BY DEF Release
<1>2. TypeOK'
  BY <1>1 DEF IInv, TypeOK, WorkerStates
<1>3. RingIsSound' /\ MainSleepsOnlyIfFull'
  BY <1>1 DEF IInv, RingIsSound, MainSleepsOnlyIfFull
<1>4. /\ WorkersIn("wait_not_empty")' = WorkersIn("wait_not_empty")
      /\ WorkersIn("exited")' = WorkersIn("exited")
  BY <1>1 DEF WorkersIn, IInv, TypeOK
<1>5. NoSleeperOwedWork'
  <2>1. Cardinality(WorkersIn("fetch")') = Cardinality(WorkersIn("fetch")) + 1
    BY <1>1, OneMoreFetching DEF IInv
  <2>2. QED
    BY <1>1, <1>4, <2>1, WorkersAreFinite, PoolFields DEF IInv, NoSleeperOwedWork
<1>6. ShutdownWakesAll'
  BY <1>1, <1>4 DEF IInv, ShutdownWakesAll
<1>7. HandOff'
  BY <1>1 DEF IInv, TypeOK, HandOff
<1>8. QED
  BY <1>2, <1>3, <1>5, <1>6, <1>7 DEF IInv

\* A thread that wakes for no reason goes back to where it would have been.
LEMMA SpuriousStep ==
  ASSUME IInv, SpuriousWakeup
  PROVE  IInv'
<1>1. CASE /\ mainAt = "wait_not_full"
           /\ mainAt' = "submit"
           /\ UNCHANGED <<pool, shutdown, mainSocket, workerAt, held>>
  <2>1. TypeOK' /\ HandOff'
    BY <1>1 DEF IInv, TypeOK, MainStates, HandOff
  <2>2. RingIsSound' /\ NoSleeperOwedWork' /\ MainSleepsOnlyIfFull' /\ ShutdownWakesAll'
    BY <1>1 DEF IInv, RingIsSound, NoSleeperOwedWork, MainSleepsOnlyIfFull,
                ShutdownWakesAll, WorkersIn
  <2>3. QED
    BY <2>1, <2>2 DEF IInv
<1>2. ASSUME NEW w \in WorkersIn("wait_not_empty"),
             workerAt' = [workerAt EXCEPT ![w] = "fetch"],
             UNCHANGED <<pool, shutdown, mainAt, mainSocket, held>>
      PROVE  IInv'
  <2>1. TypeOK' /\ HandOff'
    BY <1>2, WakeOne DEF IInv, TypeOK, HandOff
  <2>2. RingIsSound' /\ MainSleepsOnlyIfFull' /\ ShutdownWakesAll'
    BY <1>2, WakeOne DEF IInv, RingIsSound, MainSleepsOnlyIfFull, ShutdownWakesAll
  <2>3. NoSleeperOwedWork'
    <3>1. WorkersIn("wait_not_empty") # {} /\ pool' = pool
      BY <1>2
    <3>2. Cardinality(WorkersIn("fetch")') = Cardinality(WorkersIn("fetch")) + 1
      BY <1>2, WakeOne
    <3>3. QED
      BY <3>1, <3>2, WorkersAreFinite, PoolFields DEF IInv, NoSleeperOwedWork
  <2>4. QED
    BY <2>1, <2>2, <2>3 DEF IInv
<1>3. QED
  BY <1>1, <1>2 DEF SpuriousWakeup

\* Every step keeps the inductive invariant, action by action.
LEMMA StepInv == IInv /\ [Next]_poolVars => IInv'
<1> SUFFICES ASSUME IInv, [Next]_poolVars PROVE IInv'
  OBVIOUS
<1>1. CASE UNCHANGED poolVars
  BY <1>1 DEF poolVars, IInv, TypeOK, RingIsSound, NoSleeperOwedWork, MainSleepsOnlyIfFull,
              ShutdownWakesAll, HandOff, WorkersIn
<1>2. CASE \E s \in Sockets : CallSubmit(s)
  BY <1>2, MainStep
<1>3. CASE pool_submit
  BY <1>3, MainStep, SubmitPutsStep DEF pool_submit
<1>4. CASE pool_shutdown
  BY <1>4, ShutdownStep
<1>5. CASE \E w \in Workers : pool_fetch(w)
  BY <1>5, FetchLeavesStep, FetchTakesStep DEF pool_fetch
<1>6. CASE \E w \in Workers : Release(w)
  BY <1>6, ReleaseStep
<1>7. CASE SpuriousWakeup
  BY <1>7, SpuriousStep
<1>8. CASE Ended
  BY <1>1, <1>8 DEF Ended
<1>9. QED
  BY <1>1, <1>2, <1>3, <1>4, <1>5, <1>6, <1>7, <1>8 DEF Next

\* The inductive invariant: every state of every execution of the pool satisfies
\* the type invariant, the soundness of the ring and both no-lost-wakeup facts.
THEOREM PoolInvariant == Spec => []IInv
<1>1. QED
  BY InitInv, StepInv, PTL DEF Spec

\* Types: head, tail and count stay inside the array, every thread is in a place the code has.
THEOREM TypesAreKept == Spec => []TypeOK
<1>1. IInv => TypeOK
  BY DEF IInv
<1>2. QED
  BY <1>1, PoolInvariant, PTL

\* The circular array never loses or overwrites a waiting socket.
THEOREM RingStaysSound == Spec => []RingIsSound
<1>1. IInv => RingIsSound
  BY DEF IInv
<1>2. QED
  BY <1>1, PoolInvariant, PTL

\* No wakeup is lost: neither a worker nor main sleeps through its condition.
THEOREM NoLostWakeup == Spec => [](NoSleeperOwedWork /\ MainSleepsOnlyIfFull)
<1>1. IInv => NoSleeperOwedWork /\ MainSleepsOnlyIfFull
  BY DEF IInv
<1>2. QED
  BY <1>1, PoolInvariant, PTL

\* After pool_shutdown no worker sleeps, and none leaves a socket in the queue.
THEOREM ShutdownLeavesNoOneAsleep == Spec => []ShutdownWakesAll
<1>1. IInv => ShutdownWakesAll
  BY DEF IInv
<1>2. QED
  BY <1>1, PoolInvariant, PTL

-------------------------------------------------------------------------------
(* The pool implements TaskQueue. *)

\* pool_init gives the empty queue.
LEMMA InitImplements == Init => PoolAsQueue!Init
<1> SUFFICES ASSUME Init PROVE PoolAsQueue!Init
  OBVIOUS
<1>1. Contents(pool, QueueSize) = <<>>
  BY PoolAssumption, EmptyIsSound DEF Init, pool_init
<1>2. WorkersIn("exited") = {}
  BY DEF Init, WorkersIn
<1>3. QED
  BY <1>1, <1>2 DEF Init, pool_init, PoolAsQueue!Init

\* A step that leaves queue, shutdown flag, held sockets and departed workers
\* alone is a stutter of the queue.
LEMMA StutterImplements ==
  ASSUME UNCHANGED <<pool, shutdown, held>>, WorkersIn("exited")' = WorkersIn("exited")
  PROVE  UNCHANGED PoolAsQueue!tqVars
BY DEF PoolAsQueue!tqVars, Contents, SlotOf

\* Waking workers, by a signal or for no reason, moves none to "exited".
LEMMA WakingRetiresNobody ==
  ASSUME IInv,
         \/ UNCHANGED workerAt
         \/ \E w \in WorkersIn("wait_not_empty") : workerAt' = [workerAt EXCEPT ![w] = "fetch"]
  PROVE  WorkersIn("exited")' = WorkersIn("exited")
BY WakeOne DEF WorkersIn

\* SubmitPuts is Put.
LEMMA SubmitImplements ==
  ASSUME IInv, SubmitPuts
  PROVE  \E x \in Sockets : PoolAsQueue!Put(x)
<1>1. mainSocket \in Sockets /\ ~shutdown
  BY DEF SubmitPuts, IInv, HandOff, TypeOK, ShutdownWakesAll
<1>2. /\ Contents(pool', QueueSize) = Append(Contents(pool, QueueSize), mainSocket)
      /\ Len(Contents(pool, QueueSize)) = pool.count
  BY <1>1, PoolAssumption, EnqueueAppends, ContentsType DEF SubmitPuts, IInv, RingIsSound
<1>3. pool.count < QueueSize
  BY PoolFields, PoolAssumption DEF SubmitPuts, IsFull, IInv
<1>4. WorkersIn("exited")' = WorkersIn("exited") /\ UNCHANGED <<shutdown, held>>
  BY WakingRetiresNobody DEF SubmitPuts, SignalNotEmpty
<1>5. PoolAsQueue!Put(mainSocket)
  BY <1>1, <1>2, <1>3, <1>4 DEF PoolAsQueue!Put
<1>6. QED
  BY <1>1, <1>5

\* FetchTakes is Take: the socket handed out is the oldest.
LEMMA FetchImplements ==
  ASSUME IInv, NEW w \in Workers, FetchTakes(w)
  PROVE  PoolAsQueue!Take(w)
<1>1. /\ Contents(pool', QueueSize) = Tail(Contents(pool, QueueSize))
      /\ Front(pool) = Head(Contents(pool, QueueSize))
      /\ Len(Contents(pool, QueueSize)) = pool.count
  BY PoolAssumption, DequeueIsTail, ContentsType DEF FetchTakes, IInv, RingIsSound
<1>2. Contents(pool, QueueSize) # <<>>
  BY <1>1 DEF FetchTakes
<1>3. WorkersIn("exited")' = WorkersIn("exited")
  BY DEF FetchTakes, WorkersIn, IInv, TypeOK
<1>4. held[w] = NoSocket /\ w \notin WorkersIn("exited")
  BY DEF FetchTakes, WorkersIn, IInv, TypeOK, HandOff
<1>5. QED
  BY <1>1, <1>2, <1>3, <1>4 DEF FetchTakes, PoolAsQueue!Take, PoolAsQueue!Idle

\* FetchQuits is Retire: a worker leaves only a closed and empty queue.
LEMMA QuitImplements ==
  ASSUME IInv, NEW w \in Workers, FetchQuits(w)
  PROVE  PoolAsQueue!Retire(w)
<1>1. Contents(pool, QueueSize) = <<>> /\ UNCHANGED Contents(pool, QueueSize)
  <2>1. 1 .. 0 = {}
    OBVIOUS
  <2>2. QED
    BY <2>1 DEF FetchQuits, Finished, Contents, SlotOf
<1>2. WorkersIn("exited")' = WorkersIn("exited") \cup {w}
  BY DEF FetchQuits, Finished, WorkersIn, IInv, TypeOK
<1>3. held[w] = NoSocket /\ w \notin WorkersIn("exited")
  BY DEF FetchQuits, Finished, WorkersIn, IInv, TypeOK, HandOff
<1>4. QED
  BY <1>1, <1>2, <1>3 DEF FetchQuits, Finished, PoolAsQueue!Retire, PoolAsQueue!Idle

\* Every step of the pool is a step of the bounded FIFO, or none.
LEMMA StepImplements == IInv /\ [Next]_poolVars => [PoolAsQueue!Next]_(PoolAsQueue!tqVars)
<1> SUFFICES ASSUME IInv, [Next]_poolVars
             PROVE  PoolAsQueue!Next \/ UNCHANGED PoolAsQueue!tqVars
  OBVIOUS
<1>1. CASE UNCHANGED poolVars
  BY <1>1, StutterImplements DEF poolVars, WorkersIn
<1>2. CASE (\E s \in Sockets : CallSubmit(s)) \/ SubmitWaits
  BY <1>2, StutterImplements DEF CallSubmit, SubmitWaits, WorkersIn
<1>3. CASE SubmitPuts
  BY <1>3, SubmitImplements DEF PoolAsQueue!Next
<1>4. CASE pool_shutdown
  <2>1. WorkersIn("exited")' = WorkersIn("exited")
    BY <1>4 DEF pool_shutdown, BroadcastNotEmpty, WorkersIn
  <2>2. UNCHANGED Contents(pool, QueueSize)
    BY <1>4 DEF pool_shutdown, BroadcastNotEmpty, Contents, SlotOf
  <2>3. ~shutdown
    BY <1>4 DEF pool_shutdown, BroadcastNotEmpty, IInv, ShutdownWakesAll
  <2>4. PoolAsQueue!Close
    BY <1>4, <2>1, <2>2, <2>3 DEF pool_shutdown, BroadcastNotEmpty, PoolAsQueue!Close
  <2>5. QED
    BY <2>4 DEF PoolAsQueue!Next
<1>5. ASSUME NEW w \in Workers, FetchWaits(w)
      PROVE  UNCHANGED PoolAsQueue!tqVars
  <2>1. WorkersIn("exited")' = WorkersIn("exited")
    BY <1>5 DEF FetchWaits, WorkersIn, IInv, TypeOK
  <2>2. QED
    BY <1>5, <2>1, StutterImplements DEF FetchWaits
<1>6. ASSUME NEW w \in Workers, FetchQuits(w)
      PROVE  PoolAsQueue!Next
  BY <1>6, QuitImplements DEF PoolAsQueue!Next
<1>7. ASSUME NEW w \in Workers, FetchTakes(w)
      PROVE  PoolAsQueue!Next
  BY <1>7, FetchImplements DEF PoolAsQueue!Next
<1>8. ASSUME NEW w \in Workers, Release(w)
      PROVE  PoolAsQueue!Next
  <2>1. held[w] # NoSocket /\ WorkersIn("exited")' = WorkersIn("exited")
    BY <1>8 DEF Release, WorkersIn, IInv, TypeOK, HandOff
  <2>2. UNCHANGED Contents(pool, QueueSize)
    BY <1>8 DEF Release, Contents, SlotOf
  <2>3. PoolAsQueue!Finish(w)
    BY <1>8, <2>1, <2>2 DEF Release, PoolAsQueue!Finish
  <2>4. QED
    BY <2>3 DEF PoolAsQueue!Next
<1>9. CASE SpuriousWakeup
  <2>1. WorkersIn("exited")' = WorkersIn("exited") /\ UNCHANGED <<pool, shutdown, held>>
    BY <1>9, WakingRetiresNobody DEF SpuriousWakeup
  <2>2. QED
    BY <2>1, StutterImplements
<1>10. CASE Ended
  BY <1>1, <1>10 DEF Ended
<1>11. QED
  BY <1>1, <1>2, <1>3, <1>4, <1>5, <1>6, <1>7, <1>8, <1>9, <1>10
  DEF Next, pool_submit, pool_fetch

\* threadpool.c implements the bounded FIFO that TaskQueue describes: no socket
\* is lost, duplicated or reordered between pool_submit and pool_fetch.
THEOREM PoolImplementsTaskQueue == Spec => ImplementsTaskQueue
<1>1. QED
  BY InitImplements, StepImplements, PoolInvariant, PTL
  DEF Spec, ImplementsTaskQueue, PoolAsQueue!Spec
===============================================================================
