---------------------------- MODULE UserStoreProofs ----------------------------
(***************************************************************************)
(* The safety of UserStore for every queue length, every set of workers,   *)
(* every size of the cache and every set of accounts: first the accounts   *)
(* on their way to the file, then the names and the file, then the file as *)
(* the log that UserLog promises.                                          *)
(***************************************************************************)
EXTENDS UserStore, RingProofs, FiniteSetTheorems

\* The write queue as the lemmas on rings see it.
LEMMA QueueFields ==
  ASSUME QueueIsSound
  PROVE  /\ queue.count \in Nat /\ queue.count <= WriteQueueSize
         /\ Waiting \in Seq(Account) /\ Len(Waiting) = queue.count
         /\ queue \in RingType(WriteQueueSize, Account \cup {NoUser})
<1>1. WriteQueueSize \in Nat \ {0}
  BY UserAssumption
<1>2. SoundRing(queue, WriteQueueSize, Account, NoUser)
  BY DEF QueueIsSound
<1>3. /\ queue.count \in Nat /\ queue.count <= WriteQueueSize
      /\ Waiting \in Seq(Account) /\ Len(Waiting) = queue.count
  BY <1>1, <1>2, Fields, ContentsType DEF Waiting
<1>4. queue \in RingType(WriteQueueSize, Account \cup {NoUser})
  BY <1>2 DEF SoundRing
<1>5. QED
  BY <1>3, <1>4

\* A client's request is an account, and NoUser is none.
LEMMA RequestFacts == Requests \subseteq Account /\ NoUser \notin Account
BY UserAssumption DEF Account

\* Where an account is held, place by place.
LEMMA HolderCases ==
  ASSUME NEW u, NEW h
  PROVE  h \in Holders(u) <=>
           \/ \E w \in Workers : arg[w] = u /\ h = <<"worker", w>>
           \/ \E k \in 1 .. queue.count : Waiting[k] = u /\ h = <<"queue", k>>
           \/ new_user = u /\ h = <<"thread", 0>>
           \/ u \in dropped /\ h = <<"console", 0>>
BY DEF Holders

\* The same after a step.
LEMMA HolderCasesNext ==
  ASSUME NEW u, NEW h
  PROVE  h \in Holders(u)' <=>
           \/ \E w \in Workers : arg'[w] = u /\ h = <<"worker", w>>
           \/ \E k \in 1 .. queue'.count : Waiting'[k] = u /\ h = <<"queue", k>>
           \/ new_user' = u /\ h = <<"thread", 0>>
           \/ u \in dropped' /\ h = <<"console", 0>>
BY DEF Holders

\* An account that is held at all was registered in this run, so it is held once.
LEMMA HeldIsHeldOnce ==
  ASSUME IInv, NEW u \in Account, NEW h \in Holders(u)
  PROVE  Holders(u) = {h}
BY DEF IInv, HeldIsRegistered, EveryAccountIsSomewhere, HeldOnce

\* An account with one holder is nowhere else.
LEMMA HeldElsewhere ==
  ASSUME NEW u, NEW h, Holders(u) = {h}
  PROVE  /\ \A x \in Workers : arg[x] = u => h = <<"worker", x>>
         /\ \A k \in 1 .. queue.count : Waiting[k] = u => h = <<"queue", k>>
         /\ new_user = u => h = <<"thread", 0>>
         /\ u \in dropped => h = <<"console", 0>>
<1>1. \A g : g \in Holders(u) => g = h
  OBVIOUS
<1>2. ASSUME NEW x \in Workers, arg[x] = u PROVE h = <<"worker", x>>
  <2>1. <<"worker", x>> \in Holders(u)
    BY <1>2, HolderCases
  <2>2. QED
    BY <1>1, <2>1
<1>3. ASSUME NEW k \in 1 .. queue.count, Waiting[k] = u PROVE h = <<"queue", k>>
  <2>1. <<"queue", k>> \in Holders(u)
    BY <1>3, HolderCases
  <2>2. QED
    BY <1>1, <2>1
<1>4. new_user = u => <<"thread", 0>> \in Holders(u)
  BY HolderCases
<1>5. u \in dropped => <<"console", 0>> \in Holders(u)
  BY HolderCases
<1>6. QED
  BY <1>1, <1>2, <1>3, <1>4, <1>5

\* A step gives no account a holder that nobody held.
NoNewHolders == \A v \in Account : Holders(v) = {} => Holders(v)' = {}

\* A step takes from no account its last holder.
NobodyLetsGo == \A v \in Account : Holders(v)' = {} => Holders(v) = {}

\* A store with nothing in memory and nothing in its file, as before the first start
\* and just after it.
NothingYet ==
  /\ proc \in {"down", "up"}
  /\ cache = <<>> /\ loaded = 0
  /\ queue = EmptyRing(WriteQueueSize, NoUser)
  /\ running = TRUE
  /\ arg = [w \in Workers |-> NoUser]
  /\ ioAt = "test" /\ new_user = NoUser
  /\ file = <<>>
  /\ dropped = {}
  /\ sound = TRUE

LEMMA InitIsNothingYet == Init => NothingYet
BY DEF Init, NothingYet

\* There nobody holds anything.
LEMMA InitInv == NothingYet => IInv
<1> SUFFICES ASSUME NothingYet PROVE IInv
  OBVIOUS
<1> USE DEF NothingYet
<1>1. QueueIsSound
  BY UserAssumption, EmptyIsSound DEF QueueIsSound
<1>2. TypeOK
  <2>1. queue \in RingType(WriteQueueSize, Account \cup {NoUser})
    BY <1>1, QueueFields
  <2>2. cache \in Seq(Account) /\ Len(cache) <= MaxUsers /\ file \in Seq(Words)
    BY UserAssumption
  <2>3. QED
    BY <2>1, <2>2 DEF TypeOK
<1>3. IoSleepsOnlyIfIdle /\ EveryAccountIsSomewhere /\ RegisteredApart /\ ThreadHolds
  BY DEF IoSleepsOnlyIfIdle, EveryAccountIsSomewhere, Registered, RegisteredApart, ThreadHolds
<1>4. queue.count = 0
  BY DEF EmptyRing
<1>5. HeldIsRegistered
  BY <1>4, HolderCases, RequestFacts DEF HeldIsRegistered
<1>6. OnlyUpHolds
  BY <1>4 DEF OnlyUpHolds
<1>7. QED
  BY <1>1, <1>2, <1>3, <1>5, <1>6 DEF IInv

-------------------------------------------------------------------------------
(* Steps that leave the cache alone and move accounts along. *)

\* It is enough that an account nobody holds stays so, that one held once is then
\* held once or in the file, and that the file loses nothing.
LEMMA MoveStep ==
  ASSUME IInv, UNCHANGED <<cache, loaded>>,
         \A v \in Account : InFile(v) => InFile(v)',
         NoNewHolders,
         \A v \in Account : HeldOnce(v) => HeldOnce(v)' \/ (Holders(v)' = {} /\ InFile(v)')
  PROVE  EveryAccountIsSomewhere' /\ HeldIsRegistered' /\ RegisteredApart'
<1>1. Registered' = Registered /\ Registered \subseteq Account
  BY DEF IInv, TypeOK, Registered
<1>2. EveryAccountIsSomewhere'
  BY <1>1 DEF IInv, EveryAccountIsSomewhere, NoNewHolders
<1>3. HeldIsRegistered'
  BY <1>1 DEF IInv, HeldIsRegistered, NoNewHolders
<1>4. RegisteredApart'
  BY DEF IInv, RegisteredApart
<1>5. QED
  BY <1>2, <1>3, <1>4

\* Steps that move nothing: shutdown, waking and sleeping, the end of the thread.
LEMMA StayStep ==
  ASSUME IInv, UNCHANGED <<cache, loaded, queue, arg, new_user, dropped, file>>
  PROVE  /\ EveryAccountIsSomewhere' /\ HeldIsRegistered' /\ RegisteredApart' /\ QueueIsSound'
         /\ NoNewHolders /\ NobodyLetsGo
<1>1. \A v : Holders(v)' = Holders(v) /\ (InFile(v)' <=> InFile(v))
  BY DEF Holders, InFile, Waiting
<1>2. \A v : HeldOnce(v)' <=> HeldOnce(v)
  BY <1>1 DEF HeldOnce
<1>3. QueueIsSound'
  BY DEF IInv, QueueIsSound
<1>4. NoNewHolders /\ NobodyLetsGo
  BY <1>1 DEF NoNewHolders, NobodyLetsGo
<1>5. QED
  BY <1>1, <1>2, <1>3, <1>4, MoveStep

\* register_user's first hold: a new name, held by its worker alone.
LEMMA AddStep ==
  ASSUME IInv, NEW w \in Workers, NEW u \in Requests, AddToCache(w, u)
  PROVE  IInv'
<1> USE DEF AddToCache, NameIsFree
<1>1. u \in Account /\ u # NoUser
  BY RequestFacts
<1>2. /\ cache' \in Seq(Account) /\ Len(cache') = Len(cache) + 1
      /\ cache'[Len(cache) + 1] = u
      /\ \A k \in 1 .. Len(cache) : cache'[k] = cache[k]
      /\ Len(cache) \in Nat /\ loaded \in Nat /\ loaded <= Len(cache)
  BY <1>1 DEF IInv, TypeOK
<1>3. TypeOK'
  BY <1>1, <1>2, UserAssumption DEF IInv, TypeOK
<1>4. QueueIsSound' /\ IoSleepsOnlyIfIdle' /\ ThreadHolds' /\ OnlyUpHolds'
  BY DEF IInv, QueueIsSound, IoSleepsOnlyIfIdle, ThreadHolds, OnlyUpHolds
<1>5. \A v \in Account : v # u => Holders(v)' = Holders(v)
  <2> SUFFICES ASSUME NEW v \in Account, v # u PROVE Holders(v)' = Holders(v)
    OBVIOUS
  <2>1. \A x \in Workers : arg'[x] = v <=> arg[x] = v
    BY RequestFacts DEF IInv, TypeOK
  <2>2. Waiting' = Waiting
    BY DEF Waiting
  <2>3. QED
    BY <2>1, <2>2 DEF Holders
<1>6. Holders(u) = {}
  <2>1. \A k \in 1 .. Len(cache) : cache[k] # u
    OBVIOUS
  <2>2. QED
    BY <1>1, <1>2, <2>1 DEF IInv, HeldIsRegistered, Registered
<1>7. Holders(u)' = {<<"worker", w>>}
  <2>1. Waiting' = Waiting
    BY DEF Waiting
  <2>2. \A x \in Workers : arg'[x] = u <=> x = w
    BY <1>6, HolderCases DEF IInv, TypeOK
  <2>3. (\A k \in 1 .. queue.count : Waiting[k] # u) /\ new_user # u /\ u \notin dropped
    BY <1>6, HolderCases
  <2>4. \A h : h \in Holders(u)' <=> h = <<"worker", w>>
    BY <2>1, <2>2, <2>3, HolderCasesNext
  <2>5. QED
    BY <2>4
<1>8. \A v : InFile(v)' <=> InFile(v)
  BY DEF InFile
<1>9. Registered' = Registered \cup {u} /\ Registered \subseteq Account
  BY <1>2 DEF IInv, TypeOK, Registered
<1>10. EveryAccountIsSomewhere' /\ HeldIsRegistered'
  <2>1. HeldOnce(u)'
    BY <1>7 DEF HeldOnce
  <2>2. \A v \in Registered : v # u => HeldOnce(v)' \/ (Holders(v)' = {} /\ InFile(v)')
    BY <1>5, <1>8, <1>9 DEF IInv, EveryAccountIsSomewhere, HeldOnce
  <2>3. EveryAccountIsSomewhere'
    BY <1>9, <2>1, <2>2 DEF EveryAccountIsSomewhere
  <2>4. HeldIsRegistered'
    BY <1>5, <1>9 DEF IInv, HeldIsRegistered
  <2>5. QED
    BY <2>3, <2>4
<1>11. RegisteredApart'
  BY <1>2 DEF IInv, RegisteredApart
<1>12. QED
  BY <1>3, <1>4, <1>10, <1>11 DEF IInv

\* register_user's second hold: from the worker to the end of the queue, or to the
\* console.
LEMMA QueueStep ==
  ASSUME IInv, NEW w \in Workers, QueueWrite(w)
  PROVE  IInv' /\ NoNewHolders /\ NobodyLetsGo
<1> USE DEF QueueWrite, WakeIo
<1>1. PICK u \in Account : u = arg[w] /\ u # NoUser
  BY DEF IInv, TypeOK
<1>2. Holders(u) = {<<"worker", w>>}
  BY <1>1, HolderCases, HeldIsHeldOnce
<1>3. \A v \in Account : v # u => \A x \in Workers : arg'[x] = v <=> arg[x] = v
  BY <1>1, RequestFacts DEF IInv, TypeOK
<1>4. \A x \in Workers : arg'[x] # u
  <2>1. \A x \in Workers : arg[x] = u => <<"worker", x>> = <<"worker", w>>
    BY <1>2, HolderCases
  <2>2. QED
    BY <1>1, <2>1 DEF IInv, TypeOK
<1>5. \A v : InFile(v)' <=> InFile(v)
  BY DEF InFile
<1>6. /\ QueueIsSound' /\ TypeOK' /\ IoSleepsOnlyIfIdle'
      /\ \A v \in Account : v # u => Holders(v)' = Holders(v)
      /\ \E h : Holders(u)' = {h}
  <2>1. CASE IsFull(queue, WriteQueueSize)
    <3>1. Waiting' = Waiting /\ UNCHANGED <<queue, ioAt, new_user>> /\ dropped' = dropped \cup {u}
      BY <1>1, <2>1 DEF Waiting
    <3>2. \A h : h \in Holders(u)' <=> h = <<"console", 0>>
      BY <1>2, <1>4, <3>1, HolderCases, HolderCasesNext
    <3>3. \A v \in Account : v # u => Holders(v)' = Holders(v)
      BY <1>3, <3>1 DEF Holders
    <3>4. QueueIsSound' /\ IoSleepsOnlyIfIdle' /\ TypeOK'
      BY <1>1, <3>1 DEF IInv, QueueIsSound, IoSleepsOnlyIfIdle, TypeOK
    <3>5. Holders(u)' = {<<"console", 0>>}
      BY <3>2
    <3>6. QED
      BY <3>3, <3>4, <3>5
  <2>2. CASE ~IsFull(queue, WriteQueueSize)
    <3>1. /\ queue' = Enqueue(queue, WriteQueueSize, u) /\ UNCHANGED <<dropped, new_user>>
          /\ ioAt' = IF ioAt = "asleep" THEN "test" ELSE ioAt
      BY <1>1, <2>2
    <3>2. QueueIsSound' /\ Waiting' = Append(Waiting, u)
      BY <1>1, <2>2, <3>1, UserAssumption, EnqueueAppends DEF IInv, QueueIsSound, Waiting
    <3>3. /\ queue'.count = queue.count + 1 /\ queue.count \in Nat
          /\ Waiting \in Seq(Account) /\ Len(Waiting) = queue.count
          /\ queue' \in RingType(WriteQueueSize, Account \cup {NoUser})
      BY <3>1, <3>2, QueueFields DEF IInv, Enqueue, QueueIsSound, SoundRing
    <3>4. /\ \A k \in 1 .. queue.count : Waiting'[k] = Waiting[k]
          /\ Waiting'[queue.count + 1] = u
      BY <1>1, <3>2, <3>3
    <3>5. \A h : h \in Holders(u)' <=> h = <<"queue", queue.count + 1>>
      BY <1>2, <1>4, <3>1, <3>3, <3>4, HolderCases, HolderCasesNext
    <3>6. \A v \in Account : v # u => Holders(v)' = Holders(v)
      <4> SUFFICES ASSUME NEW v \in Account, v # u, NEW h
                   PROVE  h \in Holders(v)' <=> h \in Holders(v)
        OBVIOUS
      <4>1. \A k \in 1 .. queue'.count : Waiting'[k] = v <=> k \in 1 .. queue.count /\ Waiting[k] = v
        BY <3>3, <3>4
      <4>2. 1 .. queue.count \subseteq 1 .. queue'.count
        BY <3>3
      <4>3. QED
        BY <1>3, <3>1, <4>1, <4>2, HolderCases, HolderCasesNext
    <3>7. TypeOK'
      BY <1>1, <3>1, <3>3 DEF IInv, TypeOK
    <3>8. IoSleepsOnlyIfIdle'
      BY <3>1 DEF IoSleepsOnlyIfIdle
    <3>9. Holders(u)' = {<<"queue", queue.count + 1>>}
      BY <3>5
    <3>10. QED
      BY <3>2, <3>6, <3>7, <3>8, <3>9
  <2>3. QED
    BY <2>1, <2>2
<1>7. NoNewHolders /\ NobodyLetsGo
  BY <1>2, <1>6 DEF NoNewHolders, NobodyLetsGo
<1>8. \A v \in Account : HeldOnce(v) => HeldOnce(v)'
  BY <1>6 DEF HeldOnce
<1>9. EveryAccountIsSomewhere' /\ HeldIsRegistered' /\ RegisteredApart'
  BY <1>5, <1>7, <1>8, MoveStep
<1>10. ThreadHolds' /\ OnlyUpHolds'
  BY DEF IInv, ThreadHolds, OnlyUpHolds
<1>11. QED
  BY <1>6, <1>7, <1>9, <1>10 DEF IInv

\* persistence_shutdown and a wakeup without a signal: flags and places only.
LEMMA WakeStep ==
  ASSUME IInv, persistence_shutdown \/ IoWakes
  PROVE  IInv' /\ NoNewHolders /\ NobodyLetsGo
<1>1. /\ UNCHANGED <<proc, cache, loaded, queue, arg, new_user, dropped, file, sound>>
      /\ proc = "up" /\ running' \in BOOLEAN
      /\ ioAt' = IF ioAt = "asleep" THEN "test" ELSE ioAt
  BY DEF persistence_shutdown, WakeIo, IoWakes, IInv, TypeOK
<1>2. TypeOK'
  BY <1>1 DEF IInv, TypeOK
<1>3. IoSleepsOnlyIfIdle' /\ ThreadHolds' /\ OnlyUpHolds'
  BY <1>1 DEF IInv, IoSleepsOnlyIfIdle, ThreadHolds, OnlyUpHolds
<1>4. QED
  BY <1>1, <1>2, <1>3, StayStep DEF IInv

\* The oldest account in the queue moves to the thread, the others one place on.
LEMMA TakeStep ==
  ASSUME IInv, proc = "up", ioAt = "test", queue.count > 0,
         new_user' = Front(queue), queue' = Dequeue(queue, WriteQueueSize), ioAt' = "append",
         UNCHANGED <<proc, cache, loaded, running, arg, file, dropped, sound>>
  PROVE  IInv' /\ NoNewHolders /\ NobodyLetsGo
<1>1. /\ QueueIsSound' /\ Front(queue) \in Account
      /\ Front(queue) = Head(Waiting) /\ Waiting' = Tail(Waiting)
  BY UserAssumption, DequeueIsTail DEF IInv, QueueIsSound, Waiting
<1>2. /\ queue'.count = queue.count - 1 /\ queue.count \in Nat
      /\ Waiting \in Seq(Account) /\ Len(Waiting) = queue.count
      /\ queue' \in RingType(WriteQueueSize, Account \cup {NoUser})
  BY <1>1, QueueFields DEF IInv, Dequeue, QueueIsSound, SoundRing
<1>3. /\ \A k \in 1 .. queue'.count : k + 1 \in 1 .. queue.count /\ Waiting'[k] = Waiting[k + 1]
      /\ \A k \in 2 .. queue.count : k - 1 \in 1 .. queue'.count /\ Waiting'[k - 1] = Waiting[k]
  BY <1>1, <1>2
<1>4. PICK u \in Account : u = Waiting[1] /\ u = new_user'
  BY <1>1, <1>2
<1>5. Holders(u) = {<<"queue", 1>>}
  <2>1. 1 \in 1 .. queue.count /\ Waiting[1] = u
    BY <1>2, <1>4
  <2>2. <<"queue", 1>> \in Holders(u)
    BY <2>1, HolderCases
  <2>3. QED
    BY <2>2, HeldIsHeldOnce
<1>6. new_user = NoUser
  BY DEF IInv, ThreadHolds
<1>7. Holders(u)' = {<<"thread", 0>>}
  <2>1. (\A x \in Workers : arg[x] # u) /\ u \notin dropped
    <3>1. /\ \A x \in Workers : arg[x] = u => <<"queue", 1>> = <<"worker", x>>
          /\ u \in dropped => <<"queue", 1>> = <<"console", 0>>
      BY <1>5, HeldElsewhere
    <3>2. QED
      BY <3>1
  <2>2. \A k \in 2 .. queue.count : Waiting[k] # u
    <3>1. \A k \in 1 .. queue.count : Waiting[k] = u => <<"queue", 1>> = <<"queue", k>>
      BY <1>5, HeldElsewhere
    <3>2. QED
      BY <1>2, <3>1
  <2>3. \A k \in 1 .. queue'.count : Waiting'[k] # u
    BY <1>2, <1>3, <2>2
  <2>4. \A h : h \in Holders(u)' <=> h = <<"thread", 0>>
    BY <1>4, <2>1, <2>3, HolderCasesNext
  <2>5. QED
    BY <2>4
<1>8. ASSUME NEW v \in Account, v # u
      PROVE  /\ Holders(v) = {} <=> Holders(v)' = {}
             /\ HeldOnce(v) => HeldOnce(v)'
  <2>1. v # new_user' /\ v # new_user /\ v # Waiting[1]
    BY <1>4, <1>6, <1>8, RequestFacts
  <2>2. CASE \E k \in 1 .. queue.count : Waiting[k] = v
    <3>1. PICK k \in 2 .. queue.count : Waiting[k] = v
      BY <1>2, <2>1, <2>2
    <3>2. <<"queue", k>> \in Holders(v)
      BY <1>2, <3>1, HolderCases
    <3>3. Holders(v) = {<<"queue", k>>}
      BY <3>2, HeldIsHeldOnce
    <3>4. (\A x \in Workers : arg[x] # v) /\ v \notin dropped
      <4>1. /\ \A x \in Workers : arg[x] = v => <<"queue", k>> = <<"worker", x>>
            /\ v \in dropped => <<"queue", k>> = <<"console", 0>>
        BY <3>3, HeldElsewhere
      <4>2. QED
        BY <4>1
    <3>5. \A j \in 1 .. queue'.count : Waiting'[j] = v <=> j = k - 1
      <4>1. \A j \in 1 .. queue.count : Waiting[j] = v => <<"queue", j>> = <<"queue", k>>
        BY <3>3, HeldElsewhere
      <4>2. \A j \in 1 .. queue.count : Waiting[j] = v => j = k
        BY <4>1
      <4>3. QED
        BY <1>2, <1>3, <3>1, <4>2
    <3>6. \A h : h \in Holders(v)' <=> h = <<"queue", k - 1>>
      BY <1>3, <2>1, <3>1, <3>4, <3>5, HolderCasesNext
    <3>7. Holders(v)' = {<<"queue", k - 1>>}
      BY <3>6
    <3>8. QED
      BY <3>2, <3>7 DEF HeldOnce
  <2>3. CASE \A k \in 1 .. queue.count : Waiting[k] # v
    <3>1. \A k \in 1 .. queue'.count : Waiting'[k] # v
      BY <1>3, <2>3
    <3>2. \A h : h \in Holders(v)' <=> h \in Holders(v)
      BY <2>1, <2>3, <3>1, HolderCases, HolderCasesNext
    <3>3. Holders(v)' = Holders(v)
      BY <3>2
    <3>4. QED
      BY <3>3 DEF HeldOnce
  <2>4. QED
    BY <2>2, <2>3
<1>9. HeldOnce(u)' /\ Holders(u) # {}
  BY <1>5, <1>7 DEF HeldOnce
<1>10. \A v : InFile(v)' <=> InFile(v)
  BY DEF InFile
<1>11. NoNewHolders /\ NobodyLetsGo
  BY <1>7, <1>8, <1>9 DEF NoNewHolders, NobodyLetsGo
<1>12. EveryAccountIsSomewhere' /\ HeldIsRegistered' /\ RegisteredApart'
  BY <1>8, <1>9, <1>10, <1>11, MoveStep
<1>13. TypeOK'
  BY <1>1, <1>2 DEF IInv, TypeOK
<1>14. IoSleepsOnlyIfIdle' /\ ThreadHolds' /\ OnlyUpHolds'
  BY <1>1, RequestFacts DEF IoSleepsOnlyIfIdle, ThreadHolds, OnlyUpHolds
<1>15. QED
  BY <1>1, <1>11, <1>12, <1>13, <1>14 DEF IInv

\* user_file_thr at the queue: it sleeps or ends on an empty one.
LEMMA IoTakesStep ==
  ASSUME IInv, IoTakes
  PROVE  IInv' /\ NoNewHolders /\ NobodyLetsGo
<1> USE DEF IoTakes, Finished
<1>1. CASE queue.count = 0
  <2>1. /\ UNCHANGED <<proc, cache, loaded, queue, running, arg, new_user, dropped, file, sound>>
        /\ proc = "up" /\ ioAt = "test"
        /\ ioAt' = IF running THEN "asleep" ELSE "exited"
    BY <1>1 DEF IInv, TypeOK
  <2>2. TypeOK'
    BY <2>1 DEF IInv, TypeOK
  <2>3. IoSleepsOnlyIfIdle' /\ ThreadHolds' /\ OnlyUpHolds'
    BY <1>1, <2>1 DEF IInv, IoSleepsOnlyIfIdle, ThreadHolds, OnlyUpHolds
  <2>4. QED
    BY <2>1, <2>2, <2>3, StayStep DEF IInv
<1>2. CASE queue.count # 0
  BY <1>2, TakeStep
<1>3. QED
  BY <1>1, <1>2

\* The words of an account written at the end of the file are there from then on.
LEMMA FileGrows ==
  ASSUME file \in Seq(Words), NEW words \in Seq(Words), file' = file \o words
  PROVE  /\ \A v \in Account : InFile(v) => InFile(v)'
         /\ \A v \in Account : words = Line(v) => InFile(v)'
<1>1. /\ file' \in Seq(Words) /\ Len(file') = Len(file) + Len(words)
      /\ \A i \in 1 .. Len(file) : file'[i] = file[i]
      /\ \A i \in 1 .. Len(words) : file'[Len(file) + i] = words[i]
      /\ Len(file) \in Nat /\ Len(words) \in Nat
  OBVIOUS
<1>2. \A v \in Account : Line(v) \in Seq(Words) /\ Len(Line(v)) \in Nat
  BY DEF Account, Line
<1>3. ASSUME NEW v \in Account, InFile(v) PROVE InFile(v)'
  <2>1. PICK i \in 0 .. Len(file) - Len(Line(v)) :
          \A j \in 1 .. Len(Line(v)) : file[i + j] = Line(v)[j]
    BY <1>3 DEF InFile
  <2>2. i \in 0 .. Len(file') - Len(Line(v))
    BY <1>1, <1>2
  <2>3. \A j \in 1 .. Len(Line(v)) : file'[i + j] = Line(v)[j]
    BY <1>1, <1>2, <2>1
  <2>4. QED
    BY <2>2, <2>3 DEF InFile
<1>4. ASSUME NEW v \in Account, words = Line(v) PROVE InFile(v)'
  <2>1. Len(file) \in 0 .. Len(file') - Len(Line(v))
    BY <1>1, <1>4
  <2>2. \A j \in 1 .. Len(Line(v)) : file'[Len(file) + j] = Line(v)[j]
    BY <1>1, <1>4
  <2>3. QED
    BY <2>1, <2>2 DEF InFile
<1>5. QED
  BY <1>3, <1>4

\* From the thread to the file, or to the console with a part of the line in the file.
LEMMA IoAppendsStep ==
  ASSUME IInv, IoAppends
  PROVE  /\ IInv' /\ NoNewHolders
         /\ AppendSucceeds => \A v \in Account : v = new_user => Holders(v)' = {}
         /\ ~AppendSucceeds => NobodyLetsGo
         /\ \A v \in Account : v # new_user => Holders(v)' = Holders(v)
<1> USE DEF IoAppends
<1>1. PICK u \in Account : u = new_user /\ u # NoUser
  BY DEF IInv, TypeOK, ThreadHolds
<1>2. PICK words \in Seq(Words) :
        /\ file' = file \o words
        /\ \/ words = Line(u) /\ dropped' = dropped
           \/ dropped' = dropped \cup {u}
  <2>1. Line(u) \in Seq(Words)
    BY DEF Account, Line
  <2>2. \A n \in 0 .. Len(Line(u)) - 1 : SubSeq(Line(u), 1, n) \in Seq(Words)
    BY <2>1
  <2>3. QED
    BY <1>1, <2>1, <2>2 DEF AppendSucceeds, AppendFails, Written
<1>3. file \in Seq(Words) /\ file' \in Seq(Words)
  BY <1>2 DEF IInv, TypeOK
<1>4. /\ \A v \in Account : InFile(v) => InFile(v)'
      /\ words = Line(u) => InFile(u)'
  BY <1>2, <1>3, FileGrows
<1>5. Holders(u) = {<<"thread", 0>>}
  <2>1. <<"thread", 0>> \in Holders(u)
    BY <1>1, HolderCases
  <2>2. QED
    BY <2>1, HeldIsHeldOnce
<1>6. UNCHANGED <<queue, arg, Waiting>> /\ new_user' = NoUser
  BY DEF Waiting
<1>7. /\ \A x \in Workers : arg[x] # u
      /\ \A k \in 1 .. queue.count : Waiting[k] # u
      /\ u \notin dropped
  <2>1. /\ \A x \in Workers : arg[x] = u => <<"thread", 0>> = <<"worker", x>>
        /\ \A k \in 1 .. queue.count : Waiting[k] = u => <<"thread", 0>> = <<"queue", k>>
        /\ u \in dropped => <<"thread", 0>> = <<"console", 0>>
    BY <1>5, HeldElsewhere
  <2>2. QED
    BY <2>1
<1>8. /\ HeldOnce(u)' \/ (Holders(u)' = {} /\ InFile(u)')
      /\ dropped' = dropped <=> Holders(u)' = {}
  <2>1. dropped' = dropped => \A h : h \notin Holders(u)'
    BY <1>1, <1>6, <1>7, HolderCasesNext
  <2>2. CASE dropped' = dropped \cup {u}
    <3>1. \A h : h \in Holders(u)' <=> h = <<"console", 0>>
      BY <1>1, <1>6, <1>7, <2>2, HolderCasesNext
    <3>2. Holders(u)' = {<<"console", 0>>}
      BY <3>1
    <3>3. dropped' # dropped
      BY <1>7, <2>2
    <3>4. QED
      BY <3>2, <3>3 DEF HeldOnce
  <2>3. QED
    BY <1>2, <1>4, <2>1, <2>2
<1>9. ASSUME NEW v \in Account, v # u
      PROVE  Holders(v)' = Holders(v)
  <2>1. v # new_user /\ v # new_user'
    BY <1>1, <1>6, <1>9, RequestFacts
  <2>2. v \in dropped' <=> v \in dropped
    BY <1>2, <1>9
  <2>3. \A h : h \in Holders(v)' <=> h \in Holders(v)
    BY <1>6, <2>1, <2>2, HolderCases, HolderCasesNext
  <2>4. QED
    BY <2>3
<1>10. Holders(u) # {}
  BY <1>5
<1>11. /\ EveryAccountIsSomewhere' /\ HeldIsRegistered' /\ RegisteredApart'
       /\ NoNewHolders
  <2>1. NoNewHolders
    BY <1>9, <1>10 DEF NoNewHolders
  <2>2. \A v \in Account : HeldOnce(v) => HeldOnce(v)' \/ (Holders(v)' = {} /\ InFile(v)')
    BY <1>8, <1>9 DEF HeldOnce
  <2>3. QED
    BY <1>4, <2>1, <2>2, MoveStep
<1>12. QueueIsSound'
  BY DEF IInv, QueueIsSound
<1>13. sound' \in BOOLEAN
  BY DEF AppendSucceeds, AppendFails, Written
<1>14. TypeOK'
  BY <1>1, <1>2, <1>3, <1>13 DEF IInv, TypeOK
<1>15. IoSleepsOnlyIfIdle' /\ ThreadHolds' /\ OnlyUpHolds'
  BY DEF IoSleepsOnlyIfIdle, ThreadHolds, OnlyUpHolds
<1>16. AppendSucceeds => \A v \in Account : v = new_user => Holders(v)' = {}
  BY <1>1, <1>8 DEF AppendSucceeds
<1>17. ~AppendSucceeds => NobodyLetsGo
  <2> SUFFICES ASSUME ~AppendSucceeds PROVE NobodyLetsGo
    OBVIOUS
  <2>1. dropped' = dropped \cup {u}
    BY <1>1 DEF AppendFails
  <2>2. Holders(u)' # {}
    BY <1>7, <1>8, <2>1
  <2>3. QED
    BY <1>9, <2>2 DEF NobodyLetsGo
<1>18. \A v \in Account : v # new_user => Holders(v)' = Holders(v)
  BY <1>1, <1>9
<1>19. QED
  BY <1>11, <1>12, <1>14, <1>15, <1>16, <1>17, <1>18 DEF IInv
-------------------------------------------------------------------------------
(* The end of the process and the next start. *)

\* Nothing in memory is left, so there is nothing to keep an account of.
LEMMA EndStep ==
  ASSUME IInv, ProcessEnds
  PROVE  IInv'
<1> USE DEF ProcessEnds
<1>1. QueueIsSound'
  BY UserAssumption, EmptyIsSound DEF QueueIsSound
<1>2. queue' \in RingType(WriteQueueSize, Account \cup {NoUser})
  BY <1>1 DEF QueueIsSound, SoundRing
<1>3. queue'.count = 0
  BY DEF EmptyRing
<1>4. TypeOK'
  <2>1. cache' \in Seq(Account) /\ Len(cache') = 0 /\ 0 <= MaxUsers
    BY UserAssumption
  <2>2. QED
    BY <1>2, <2>1 DEF IInv, TypeOK
<1>5. IoSleepsOnlyIfIdle' /\ ThreadHolds' /\ OnlyUpHolds'
  BY <1>3 DEF IoSleepsOnlyIfIdle, ThreadHolds, OnlyUpHolds
<1>6. EveryAccountIsSomewhere' /\ RegisteredApart'
  BY DEF EveryAccountIsSomewhere, Registered, RegisteredApart
<1>7. HeldIsRegistered'
  <2>1. \A v \in Account : \A h : h \notin Holders(v)'
    BY <1>3, RequestFacts, HolderCasesNext
  <2>2. QED
    BY <2>1 DEF HeldIsRegistered
<1>8. QED
  BY <1>1, <1>4, <1>5, <1>6, <1>7 DEF IInv

\* What is read from a file is accounts, and fits in the cache.
LEMMA LoadType ==
  ASSUME NEW words \in Seq(Words), NEW n \in 0 .. Len(words)
  PROVE  /\ Load(words, n, MaxUsers) \in Seq(Account)
         /\ Len(Load(words, n, MaxUsers)) <= MaxUsers
<1> DEFINE part == SubSeq(words, 1, n)
           all == Accounts(part)
           m == IF Len(all) < MaxUsers THEN Len(all) ELSE MaxUsers
<1>1. part \in Seq(Words) /\ Len(part) \in Nat
  OBVIOUS
<1>2. \A k \in 1 .. Len(part) \div 2 : 2 * k - 1 \in 1 .. Len(part) /\ 2 * k \in 1 .. Len(part)
  BY <1>1
<1>3. Len(part) \div 2 \in Nat
  BY <1>1
<1>4. \A k \in 1 .. Len(part) \div 2 :
        [name |-> <<part[2 * k - 1]>>, password |-> <<part[2 * k]>>] \in Account
  BY <1>1, <1>2 DEF Account
<1>5. all \in Seq(Account)
  BY <1>3, <1>4 DEF Accounts
<1>6. m \in 0 .. Len(all) /\ m <= MaxUsers
  BY <1>5, UserAssumption
<1>7. SubSeq(all, 1, m) \in Seq(Account) /\ Len(SubSeq(all, 1, m)) = m
  BY <1>5, <1>6
<1>8. QED
  BY <1>6, <1>7 DEF Load

\* persistence_init: all that is in the cache was read, and nobody holds anything.
LEMMA LoadStep ==
  ASSUME IInv, persistence_init
  PROVE  IInv'
<1> USE DEF persistence_init
<1>1. /\ cache' \in Seq(Account) /\ Len(cache') <= MaxUsers
      /\ loaded' = Len(cache') /\ sound' \in BOOLEAN
  BY LoadType DEF IInv, TypeOK
<1>2. TypeOK'
  BY <1>1 DEF IInv, TypeOK
<1>3. /\ proc' = "up" /\ ioAt' = "test" /\ queue'.count = 0 /\ dropped' = {}
      /\ \A w \in Workers : arg'[w] = NoUser
  BY DEF IInv, OnlyUpHolds
<1>4. QueueIsSound' /\ IoSleepsOnlyIfIdle' /\ ThreadHolds' /\ OnlyUpHolds'
  BY <1>3 DEF IInv, QueueIsSound, IoSleepsOnlyIfIdle, ThreadHolds, OnlyUpHolds
<1>5. EveryAccountIsSomewhere' /\ RegisteredApart'
  <2>1. loaded' + 1 .. Len(cache') = {}
    BY <1>1
  <2>2. QED
    BY <2>1 DEF EveryAccountIsSomewhere, Registered, RegisteredApart
<1>6. HeldIsRegistered'
  <2>1. new_user' = NoUser
    BY <1>3, <1>4 DEF ThreadHolds
  <2>2. \A v \in Account : \A h : h \notin Holders(v)'
    BY <1>3, <2>1, RequestFacts, HolderCasesNext
  <2>3. QED
    BY <2>2 DEF HeldIsRegistered
<1>7. QED
  BY <1>2, <1>4, <1>5, <1>6 DEF IInv

-------------------------------------------------------------------------------
(* The results. *)

\* Every step keeps the invariant.
LEMMA StepInv == IInv /\ [Next]_vars => IInv'
<1> SUFFICES ASSUME IInv, [Next]_vars PROVE IInv'
  OBVIOUS
<1>1. ASSUME NEW w \in Workers, QueueWrite(w) PROVE IInv'
  BY <1>1, QueueStep
<1>2. ASSUME NEW w \in Workers, NEW u \in Requests, AddToCache(w, u) PROVE IInv'
  BY <1>2, AddStep
<1>3. CASE persistence_shutdown \/ IoWakes
  BY <1>3, WakeStep
<1>4. CASE IoTakes
  BY <1>4, IoTakesStep
<1>5. CASE IoAppends
  BY <1>5, IoAppendsStep
<1>6. CASE ProcessEnds
  BY <1>6, EndStep
<1>7. CASE persistence_init
  BY <1>7, LoadStep
<1>8. CASE UNCHANGED vars
  <2>1. /\ UNCHANGED <<proc, cache, loaded, queue, running, arg, ioAt>>
        /\ UNCHANGED <<new_user, file, dropped, sound>>
    BY <1>8 DEF vars, memory
  <2>2. TypeOK' /\ IoSleepsOnlyIfIdle' /\ ThreadHolds' /\ OnlyUpHolds'
    BY <2>1 DEF IInv, TypeOK, IoSleepsOnlyIfIdle, ThreadHolds, OnlyUpHolds
  <2>3. QED
    BY <2>1, <2>2, StayStep DEF IInv
<1>9. QED
  BY <1>1, <1>2, <1>3, <1>4, <1>5, <1>6, <1>7, <1>8 DEF Next, IoThread

\* The inductive invariant holds in every state of the store: the types of its
\* variables, and all that the theorems below say.
THEOREM UserInvariant == Spec => []IInv
<1>1. QED
  BY InitIsNothingYet, InitInv, StepInv, PTL DEF Spec

\* Types: user_cache and user_queue never hold more than they have room for.
THEOREM TypesAreKept == Spec => []TypeOK
<1>1. IInv => TypeOK
  BY DEF IInv
<1>2. QED
  BY <1>1, UserInvariant, PTL

\* user_queue is a ring in every state: its indices are where its count says, and
\* it holds accounts there and nowhere else.
THEOREM QueueStaysSound == Spec => []QueueIsSound
<1>1. IInv => QueueIsSound
  BY DEF IInv
<1>2. QED
  BY <1>1, UserInvariant, PTL

\* user_file_thr waits on its condition only when its queue is empty and the server
\* is not shutting down: no signal is lost.
THEOREM IoNeverSleepsThrough == Spec => []IoSleepsOnlyIfIdle
<1>1. IInv => IoSleepsOnlyIfIdle
  BY DEF IInv
<1>2. QED
  BY <1>1, UserInvariant, PTL

\* Every account register_user accepted is, until the process ends, in one worker's
\* hands, in the queue once, in the thread's hands, reported lost, or in the file.
THEOREM AccountsAreKept == Spec => []EveryAccountIsSomewhere
<1>1. IInv => EveryAccountIsSomewhere
  BY DEF IInv
<1>2. QED
  BY <1>1, UserInvariant, PTL

-------------------------------------------------------------------------------
(* Accounts and the words of a file. *)

\* A file of so many words holds half as many accounts, two words each.
LEMMA AccountsFacts ==
  ASSUME NEW words \in Seq(Words)
  PROVE  /\ Len(words) \div 2 \in Nat
         /\ Accounts(words) \in Seq(Account)
         /\ Len(Accounts(words)) = Len(words) \div 2
         /\ \A i \in 1 .. Len(words) \div 2 :
              Accounts(words)[i] = [name |-> <<words[2 * i - 1]>>, password |-> <<words[2 * i]>>]
<1>1. Len(words) \in Nat /\ Len(words) \div 2 \in Nat
  OBVIOUS
<1>2. \A i \in 1 .. Len(words) \div 2 : 2 * i - 1 \in 1 .. Len(words) /\ 2 * i \in 1 .. Len(words)
  BY <1>1
<1>3. \A i \in 1 .. Len(words) \div 2 :
        [name |-> <<words[2 * i - 1]>>, password |-> <<words[2 * i]>>] \in Account
  BY <1>2 DEF Account
<1>4. QED
  BY <1>1, <1>3 DEF Accounts

\* A plain account is read back from its line.
LEMMA PlainLine ==
  ASSUME NEW u \in Account, Plain(u)
  PROVE  /\ Line(u) \in Seq(Words) /\ Len(Line(u)) = 2
         /\ u = [name |-> <<Line(u)[1]>>, password |-> <<Line(u)[2]>>]
<1>1. /\ u.name \in Seq(Words) /\ Len(u.name) = 1
      /\ u.password \in Seq(Words) /\ Len(u.password) = 1
      /\ u = [name |-> u.name, password |-> u.password]
  BY DEF Account, Plain
<1>2. u.name = <<u.name[1]>> /\ u.password = <<u.password[1]>>
  BY <1>1
<1>3. /\ Line(u) \in Seq(Words) /\ Len(Line(u)) = 2
      /\ Line(u)[1] = u.name[1] /\ Line(u)[2] = u.password[1]
  BY <1>1 DEF Line
<1>4. QED
  BY <1>1, <1>2, <1>3

\* Half of an even length, and two words more.
LEMMA Halves ==
  ASSUME NEW l \in Nat, l % 2 = 0
  PROVE  /\ l \div 2 \in Nat /\ l = 2 * (l \div 2)
         /\ (l + 2) \div 2 = l \div 2 + 1 /\ (l + 2) % 2 = 0
OBVIOUS

\* Two words behind others.
LEMMA TwoMore ==
  ASSUME NEW words \in Seq(Words), NEW two \in Seq(Words), Len(two) = 2
  PROVE  /\ words \o two \in Seq(Words) /\ Len(words \o two) = Len(words) + 2
         /\ Len(words) \in Nat
         /\ \A i \in 1 .. Len(words) : (words \o two)[i] = words[i]
         /\ (words \o two)[Len(words) + 1] = two[1] /\ (words \o two)[Len(words) + 2] = two[2]
<1>1. Len(words) \in Nat
  OBVIOUS
<1>2. /\ words \o two \in Seq(Words)
      /\ Len(words \o two) = Len(words) + Len(two)
      /\ \A i \in 1 .. Len(words) + Len(two) :
           (words \o two)[i] = IF i <= Len(words) THEN words[i] ELSE two[i - Len(words)]
  BY ConcatProperties, Zenon
<1>3. QED
  BY <1>1, <1>2

\* The line of a plain account after whole lines is one more account.
LEMMA PlainAppends ==
  ASSUME NEW words \in Seq(Words), Len(words) % 2 = 0,
         NEW u \in Account, Plain(u), NEW more, more = words \o Line(u)
  PROVE  /\ more \in Seq(Words) /\ Len(more) % 2 = 0
         /\ Len(more) \div 2 = Len(words) \div 2 + 1
         /\ \A i \in 1 .. Len(words) \div 2 : Accounts(more)[i] = Accounts(words)[i]
         /\ Accounts(more)[Len(words) \div 2 + 1] = u
<1>1. Line(u) \in Seq(Words) /\ Len(Line(u)) = 2
  BY PlainLine
<1>2. /\ more \in Seq(Words) /\ Len(more) = Len(words) + 2 /\ Len(words) \in Nat
      /\ \A i \in 1 .. Len(words) : more[i] = words[i]
      /\ more[Len(words) + 1] = Line(u)[1] /\ more[Len(words) + 2] = Line(u)[2]
  BY <1>1, TwoMore
<1>3. PICK n \in Nat : n = Len(words) \div 2
  BY <1>2, Halves
<1>4. Len(words) = 2 * n /\ Len(more) \div 2 = n + 1 /\ Len(more) % 2 = 0
  BY <1>2, <1>3, Halves
<1>5. ASSUME NEW i \in 1 .. n PROVE Accounts(more)[i] = Accounts(words)[i]
  <2>1. 2 * i - 1 \in 1 .. Len(words) /\ 2 * i \in 1 .. Len(words) /\ i \in 1 .. n + 1
    BY <1>4
  <2>2. more[2 * i - 1] = words[2 * i - 1] /\ more[2 * i] = words[2 * i]
    BY <1>2, <2>1
  <2>3. Accounts(words)[i] = [name |-> <<words[2 * i - 1]>>, password |-> <<words[2 * i]>>]
    BY <1>3, AccountsFacts
  <2>4. Accounts(more)[i] = [name |-> <<more[2 * i - 1]>>, password |-> <<more[2 * i]>>]
    BY <1>2, <1>4, <2>1, AccountsFacts
  <2>5. QED
    BY <2>2, <2>3, <2>4
<1>6. Accounts(more)[n + 1] = u
  <2>1. n + 1 \in 1 .. n + 1 /\ 2 * (n + 1) - 1 = Len(words) + 1 /\ 2 * (n + 1) = Len(words) + 2
    BY <1>4
  <2>2. Accounts(more)[n + 1] =
          [name |-> <<more[2 * (n + 1) - 1]>>, password |-> <<more[2 * (n + 1)]>>]
    BY <1>2, <1>4, <2>1, AccountsFacts
  <2>3. QED
    BY <1>2, <2>1, <2>2, PlainLine
<1>7. QED
  BY <1>2, <1>3, <1>4, <1>5, <1>6

\* All of a file that fits is loaded.
LEMMA LoadsAll ==
  ASSUME NEW words \in Seq(Words), Len(words) \div 2 <= MaxUsers
  PROVE  Load(words, Len(words), MaxUsers) = Accounts(words)
<1>1. SubSeq(words, 1, Len(words)) = words
  OBVIOUS
<1>2. /\ Accounts(words) \in Seq(Account) /\ Len(Accounts(words)) <= MaxUsers
      /\ Len(Accounts(words)) \in Nat
  BY AccountsFacts
<1>3. SubSeq(Accounts(words), 1, Len(Accounts(words))) = Accounts(words)
  BY <1>2
<1>4. (IF Len(Accounts(words)) < MaxUsers THEN Len(Accounts(words)) ELSE MaxUsers)
        = Len(Accounts(words))
  BY <1>2, UserAssumption
<1>5. QED
  BY <1>1, <1>3, <1>4 DEF Load

\* Accounts of different names that are all in the cache are not more than it has.
LEMMA FitsInCache ==
  ASSUME NEW all \in Seq(Account), NEW known \in Seq(Account), DistinctNames(all),
         \A i \in 1 .. Len(all) : \E k \in 1 .. Len(known) : known[k] = all[i]
  PROVE  Len(all) <= Len(known)
<1> DEFINE place == [i \in 1 .. Len(all) |-> CHOOSE k \in 1 .. Len(known) : known[k] = all[i]]
<1>1. Len(all) \in Nat /\ Len(known) \in Nat
  OBVIOUS
<1>2. \A i \in 1 .. Len(all) : place[i] \in 1 .. Len(known) /\ known[place[i]] = all[i]
  OBVIOUS
<1>3. \A i, j \in 1 .. Len(all) : place[i] = place[j] => i = j
  <2> SUFFICES ASSUME NEW i \in 1 .. Len(all), NEW j \in 1 .. Len(all), place[i] = place[j]
               PROVE  i = j
    OBVIOUS
  <2>1. all[i] = all[j]
    BY <1>2
  <2>2. QED
    BY <2>1 DEF DistinctNames
<1>4. place \in Injection(1 .. Len(all), 1 .. Len(known))
  BY <1>2, <1>3 DEF Injection, IsInjective
<1>5. IsFiniteSet(1 .. Len(known))
  BY <1>1, FS_Interval
<1>6. Cardinality(1 .. Len(all)) <= Cardinality(1 .. Len(known))
  BY <1>4, <1>5, FS_Injection
<1>7. \A n \in Nat : Cardinality(1 .. n) = n
  <2> SUFFICES ASSUME NEW n \in Nat PROVE Cardinality(1 .. n) = n
    OBVIOUS
  <2>1. n \in Int /\ 1 \in Int
    OBVIOUS
  <2>2. Cardinality(1 .. n) = IF 1 > n THEN 0 ELSE n - 1 + 1
    BY <2>1, FS_Interval
  <2>3. QED
    BY <2>2
<1>8. QED
  BY <1>1, <1>6, <1>7

-------------------------------------------------------------------------------
(* Names *)

\* There is no file and no cache yet.
LEMMA InitNames == NothingYet => NamesInv
<1> SUFFICES ASSUME NothingYet PROVE NamesInv
  OBVIOUS
<1> USE DEF NothingYet
<1>1. IInv
  BY InitInv
<1>2. file = <<>> /\ cache = <<>> /\ loaded = 0 /\ Len(file) = 0 /\ Len(cache) = 0
  OBVIOUS
<1>3. Accounts(file) \in Seq(Account) /\ Len(Accounts(file)) = 0
  <2>1. file \in Seq(Words) /\ Len(file) \div 2 = 0
    BY <1>2
  <2>2. QED
    BY <2>1, AccountsFacts
<1>4. FileIsPaired
  <2>1. Len(file) % 2 = 0 /\ Len(file) \div 2 = 0
    BY <1>2
  <2>2. QED
    BY <2>1, UserAssumption DEF FileIsPaired
<1>5. NameIsTakenOnce
  BY <1>2, <1>3 DEF NameIsTakenOnce, DistinctNames
<1>6. RegisteredOnRequest /\ SettledIsSaved
  BY <1>2 DEF RegisteredOnRequest, SettledIsSaved, Registered
<1>7. QED
  BY <1>1, <1>4, <1>5, <1>6 DEF NamesInv

\* A step that leaves cache and file alone, and gives nothing to hold anew nor lets it go.
LEMMA NamesStay ==
  ASSUME NamesInv, IInv', NoNewHolders, NobodyLetsGo, UNCHANGED <<proc, cache, loaded, file, sound>>
  PROVE  NamesInv'
<1>1. FileIsPaired'
  BY DEF NamesInv, FileIsPaired, NoNewHolders
<1>2. NameIsTakenOnce'
  BY DEF NamesInv, NameIsTakenOnce, DistinctNames
<1>3. RegisteredOnRequest'
  BY DEF NamesInv, RegisteredOnRequest, Registered
<1>4. SettledIsSaved'
  <2>1. Registered' = Registered /\ Registered \subseteq Account
    BY DEF NamesInv, IInv, TypeOK, Registered
  <2>2. QED
    BY <2>1 DEF NamesInv, SettledIsSaved, NobodyLetsGo
<1>5. QED
  BY <1>1, <1>2, <1>3, <1>4 DEF NamesInv

\* The new account has a name that nobody has in the cache, hence nobody in the file.
LEMMA NamesAdd ==
  ASSUME NamesInv, NEW w \in Workers, NEW u \in Requests, AddToCache(w, u)
  PROVE  NamesInv'
<1> USE DEF AddToCache, NameIsFree
<1>1. IInv /\ IInv'
  BY AddStep DEF NamesInv
<1>2. u \in Account
  BY RequestFacts
<1>3. /\ cache \in Seq(Account) /\ cache' \in Seq(Account) /\ Len(cache') = Len(cache) + 1
      /\ cache'[Len(cache) + 1] = u
      /\ \A k \in 1 .. Len(cache) : cache'[k] = cache[k]
      /\ Len(cache) \in Nat /\ loaded \in Nat
  BY <1>1, <1>2 DEF IInv, TypeOK
<1>4. \A v \in Account : v # u => Holders(v)' = Holders(v)
  <2> SUFFICES ASSUME NEW v \in Account, v # u PROVE Holders(v)' = Holders(v)
    OBVIOUS
  <2>1. \A x \in Workers : arg'[x] = v <=> arg[x] = v
    BY <1>1, RequestFacts DEF IInv, TypeOK
  <2>2. Waiting' = Waiting
    BY DEF Waiting
  <2>3. QED
    BY <2>1, <2>2 DEF Holders
<1>5. sound => \A i \in 1 .. Len(file) \div 2 : Accounts(file)[i] # u
  BY DEF NamesInv, NameIsTakenOnce
<1>6. FileIsPaired'
  BY <1>4, <1>5 DEF NamesInv, FileIsPaired
<1>7. DistinctNames(cache) => DistinctNames(cache)'
  BY <1>3 DEF DistinctNames
<1>8. (\A i \in 1 .. Len(file) \div 2 : \E k \in 1 .. Len(cache) : cache[k] = Accounts(file)[i])
        => \A i \in 1 .. Len(file) \div 2 : \E k \in 1 .. Len(cache') : cache'[k] = Accounts(file)[i]
  <2>1. \A k \in 1 .. Len(cache) : k \in 1 .. Len(cache') /\ cache'[k] = cache[k]
    BY <1>3
  <2>2. QED
    BY <2>1
<1>9. NameIsTakenOnce'
  BY <1>7, <1>8 DEF NamesInv, NameIsTakenOnce, DistinctNames
<1>10. RegisteredOnRequest'
  BY <1>3 DEF NamesInv, RegisteredOnRequest, Registered
<1>11. SettledIsSaved'
  <2>1. Registered' = Registered \cup {u} /\ Registered \subseteq Account
    BY <1>1, <1>3 DEF IInv, TypeOK, Registered
  <2>2. <<"worker", w>> \in Holders(u)'
    <3>1. arg'[w] = u
      BY <1>1 DEF IInv, TypeOK
    <3>2. QED
      BY <3>1, HolderCasesNext
  <2>3. QED
    BY <1>4, <2>1, <2>2 DEF NamesInv, SettledIsSaved
<1>12. QED
  BY <1>1, <1>6, <1>9, <1>10, <1>11 DEF NamesInv

\* The line of a plain account goes behind whole lines of other names; the account is
\* in the cache, so the file still fits there.
LEMMA NamesAppend ==
  ASSUME NamesInv, IoAppends
  PROVE  NamesInv'
<1> USE DEF IoAppends
<1>1. IInv /\ IInv' /\ NoNewHolders
  BY IoAppendsStep DEF NamesInv
<1>2. PICK u \in Account : u = new_user
  BY <1>1 DEF IInv, TypeOK, ThreadHolds
<1>3. file \in Seq(Words) /\ cache \in Seq(Account) /\ Len(cache) <= MaxUsers
  BY <1>1 DEF IInv, TypeOK
<1>4. RegisteredOnRequest'
  BY DEF NamesInv, RegisteredOnRequest, Registered
<1>5. CASE sound' /\ AppendSucceeds
  <2> DEFINE n == Len(file) \div 2
  <2>1. sound /\ Plain(u) /\ file' = file \o Line(u)
    BY <1>2, <1>5 DEF AppendSucceeds, Written
  <2>2. Len(file) % 2 = 0 /\ n \in Nat /\ n = Len(Accounts(file))
    BY <1>3, <2>1, AccountsFacts DEF NamesInv, FileIsPaired
  <2>3. /\ file' \in Seq(Words) /\ Len(file') % 2 = 0 /\ Len(file') \div 2 = n + 1
        /\ \A i \in 1 .. n : Accounts(file')[i] = Accounts(file)[i]
        /\ Accounts(file')[n + 1] = u
    <3>1. file \in Seq(Words) /\ Len(file) % 2 = 0 /\ Plain(u) /\ file' = file \o Line(u)
      BY <1>3, <2>1, <2>2
    <3>2. \A more : more = file \o Line(u) =>
            /\ more \in Seq(Words) /\ Len(more) % 2 = 0
            /\ Len(more) \div 2 = Len(file) \div 2 + 1
            /\ \A i \in 1 .. Len(file) \div 2 : Accounts(more)[i] = Accounts(file)[i]
            /\ Accounts(more)[Len(file) \div 2 + 1] = u
      BY <3>1, PlainAppends, Zenon
    <3>3. QED
      BY <3>1, <3>2, Zenon
  <2>4. Holders(u) # {} /\ (Holders(u)' = {})
    <3>1. <<"thread", 0>> \in Holders(u)
      BY <1>2, HolderCases
    <3>2. \A v \in Account : v = new_user => Holders(v)' = {}
      BY <1>1, <1>5, IoAppendsStep
    <3>3. QED
      BY <1>2, <3>1, <3>2
  <2>5. \A i \in 1 .. n : Accounts(file)[i] # u
    BY <2>1, <2>4 DEF NamesInv, FileIsPaired
  <2>6. PICK m \in 1 .. Len(cache) : cache[m] = u
    BY <1>1, <2>4, <1>3 DEF IInv, TypeOK, HeldIsRegistered, Registered
  <2>7. /\ DistinctNames(cache) /\ DistinctNames(Accounts(file))
        /\ \A i \in 1 .. n : \E k \in 1 .. Len(cache) : cache[k] = Accounts(file)[i]
    BY <2>1 DEF NamesInv, NameIsTakenOnce
  <2>8. Accounts(file') \in Seq(Account) /\ Len(Accounts(file')) = n + 1
    BY <2>3, AccountsFacts
  <2>9. \A i \in 1 .. n : Accounts(file)[i].name # u.name
    <3> SUFFICES ASSUME NEW i \in 1 .. n, Accounts(file)[i].name = u.name PROVE FALSE
      OBVIOUS
    <3>1. PICK k \in 1 .. Len(cache) : cache[k] = Accounts(file)[i]
      BY <2>7
    <3>2. k = m
      BY <2>6, <2>7, <3>1 DEF DistinctNames
    <3>3. QED
      BY <2>5, <2>6, <3>1, <3>2
  <2>10. DistinctNames(Accounts(file'))
    <3>1. \A i, j \in 1 .. n : Accounts(file)[i].name = Accounts(file)[j].name => i = j
      BY <2>2, <2>7 DEF DistinctNames
    <3>2. \A i \in 1 .. n + 1 : i \in 1 .. n \/ i = n + 1
      BY <2>2
    <3>3. \A i, j \in 1 .. n + 1 : Accounts(file')[i].name = Accounts(file')[j].name => i = j
      BY <2>3, <2>9, <3>1, <3>2
    <3>4. QED
      BY <2>8, <3>3 DEF DistinctNames
  <2>11. \A i \in 1 .. n + 1 : \E k \in 1 .. Len(cache) : cache[k] = Accounts(file')[i]
    <3>1. \A i \in 1 .. n + 1 : i \in 1 .. n \/ i = n + 1
      BY <2>2
    <3>2. QED
      BY <2>3, <2>6, <2>7, <3>1
  <2>12. n + 1 <= MaxUsers
    <3>1. Len(Accounts(file')) <= Len(cache)
      BY <1>3, <2>8, <2>10, <2>11, FitsInCache
    <3>2. QED
      BY <1>3, <2>2, <2>8, <3>1, UserAssumption
  <2>13. \A v \in Account : Holders(v)' # {} =>
           \A i \in 1 .. n + 1 : Accounts(file')[i] # v
    <3> SUFFICES ASSUME NEW v \in Account, Holders(v)' # {}, NEW i \in 1 .. n + 1
                 PROVE  Accounts(file')[i] # v
      OBVIOUS
    <3>1. v # u /\ Holders(v) # {}
      BY <1>1, <2>4 DEF NoNewHolders
    <3>2. \A j \in 1 .. n : Accounts(file)[j] # v
      BY <2>1, <3>1 DEF NamesInv, FileIsPaired
    <3>3. i \in 1 .. n \/ i = n + 1
      BY <2>2
    <3>4. QED
      BY <2>3, <3>1, <3>2, <3>3
  <2>14. FileIsPaired'
    BY <2>3, <2>12, <2>13 DEF FileIsPaired
  <2>15. NameIsTakenOnce'
    BY <2>3, <2>7, <2>10, <2>11 DEF NameIsTakenOnce, DistinctNames
  <2>16. SettledIsSaved'
    <3>1. Registered' = Registered /\ Registered \subseteq Account
      BY <1>1, <1>3 DEF IInv, TypeOK, Registered
    <3>2. \A v \in Account : v # u => Holders(v)' = Holders(v)
      BY <1>2, IoAppendsStep, <1>1
    <3>3. ASSUME NEW v \in Registered, Holders(v)' = {}
          PROVE  \E i \in 1 .. n + 1 : Accounts(file')[i] = v
      <4>1. CASE v = u
        <5>1. n + 1 \in 1 .. n + 1
          BY <2>2
        <5>2. QED
          BY <2>3, <4>1, <5>1
      <4>2. CASE v # u
        <5>1. PICK i \in 1 .. n : Accounts(file)[i] = v
          BY <2>1, <3>1, <3>2, <3>3, <4>2 DEF NamesInv, SettledIsSaved
        <5>2. i \in 1 .. n + 1
          BY <2>2
        <5>3. QED
          BY <2>3, <5>1, <5>2
      <4>3. QED
        BY <4>1, <4>2
    <3>4. QED
      BY <2>3, <3>1, <3>3 DEF SettledIsSaved
  <2>17. QED
    BY <1>1, <1>4, <2>14, <2>15, <2>16 DEF NamesInv
<1>6. CASE sound' /\ ~AppendSucceeds
  <2>1. /\ sound /\ file' = Written(SubSeq(Line(new_user), 1, 0))
    BY <1>6 DEF AppendFails
  <2>2. SubSeq(Line(u), 1, 0) = <<>>
    <3>1. Line(u) \in Seq(Words)
      BY DEF Line, Account
    <3>2. QED
      BY <3>1
  <2>3. file' = file
    BY <1>2, <1>3, <2>1, <2>2 DEF Written
  <2>4. UNCHANGED <<proc, cache, loaded, file, sound>>
    BY <1>6, <2>1, <2>3
  <2>5. NobodyLetsGo
    BY <1>1, <1>6, IoAppendsStep
  <2>6. QED
    BY <1>1, <2>4, <2>5, NamesStay
<1>7. CASE ~sound'
  BY <1>1, <1>4, <1>7 DEF NamesInv, FileIsPaired, NameIsTakenOnce, SettledIsSaved
<1>8. QED
  BY <1>5, <1>6, <1>7

\* The file survives the process.
LEMMA NamesEnd ==
  ASSUME NamesInv, ProcessEnds
  PROVE  NamesInv'
<1> USE DEF ProcessEnds
<1>1. IInv'
  BY EndStep DEF NamesInv
<1>2. \A v \in Account : \A h : h \notin Holders(v)'
  <2>1. queue'.count = 0
    BY DEF EmptyRing
  <2>2. QED
    BY <2>1, RequestFacts, HolderCasesNext
<1>3. FileIsPaired'
  BY <1>2 DEF NamesInv, FileIsPaired
<1>4. NameIsTakenOnce'
  BY DEF NamesInv, NameIsTakenOnce, DistinctNames
<1>5. RegisteredOnRequest' /\ SettledIsSaved'
  BY DEF RegisteredOnRequest, SettledIsSaved, Registered
<1>6. QED
  BY <1>1, <1>3, <1>4, <1>5 DEF NamesInv

\* A sound file that is read to its end is the cache.
LEMMA NamesLoad ==
  ASSUME NamesInv, persistence_init
  PROVE  NamesInv'
<1> USE DEF persistence_init
<1>1. IInv /\ IInv'
  BY LoadStep DEF NamesInv
<1>2. file \in Seq(Words) /\ cache' \in Seq(Account) /\ loaded' = Len(cache')
  BY <1>1 DEF IInv, TypeOK
<1>3. /\ \A w \in Workers : arg'[w] = NoUser
      /\ new_user' = NoUser /\ queue'.count = 0 /\ dropped' = {}
  BY <1>1 DEF IInv, OnlyUpHolds, ThreadHolds
<1>4. \A v \in Account : \A h : h \notin Holders(v)'
  BY <1>3, RequestFacts, HolderCasesNext
<1>5. FileIsPaired'
  BY <1>4 DEF NamesInv, FileIsPaired
<1>6. ASSUME sound' PROVE cache' = Accounts(file) /\ sound
  BY <1>2, <1>6, LoadsAll DEF NamesInv, FileIsPaired
<1>7. NameIsTakenOnce'
  <2> SUFFICES ASSUME sound'
               PROVE  /\ DistinctNames(cache') /\ DistinctNames(Accounts(file'))
                      /\ \A i \in 1 .. Len(file') \div 2 :
                           \E k \in 1 .. Len(cache') : cache'[k] = Accounts(file')[i]
    BY DEF NameIsTakenOnce, DistinctNames
  <2>1. cache' = Accounts(file) /\ DistinctNames(Accounts(file))
    BY <1>6 DEF NamesInv, NameIsTakenOnce
  <2>2. Len(cache') = Len(file) \div 2
    BY <1>2, <2>1, AccountsFacts
  <2>3. QED
    BY <2>1, <2>2
<1>8. RegisteredOnRequest' /\ SettledIsSaved'
  BY <1>2 DEF RegisteredOnRequest, SettledIsSaved, Registered
<1>9. QED
  BY <1>1, <1>5, <1>7, <1>8 DEF NamesInv

\* Every step keeps the names apart.
LEMMA StepNames == NamesInv /\ [Next]_vars => NamesInv'
<1> SUFFICES ASSUME NamesInv, [Next]_vars PROVE NamesInv'
  OBVIOUS
<1>1. IInv
  BY DEF NamesInv
<1>2. ASSUME NEW w \in Workers, QueueWrite(w) PROVE NamesInv'
  BY <1>1, <1>2, QueueStep, NamesStay DEF QueueWrite
<1>3. ASSUME NEW w \in Workers, NEW u \in Requests, AddToCache(w, u) PROVE NamesInv'
  BY <1>3, NamesAdd
<1>4. CASE persistence_shutdown \/ IoWakes
  BY <1>1, <1>4, WakeStep, NamesStay DEF persistence_shutdown, IoWakes
<1>5. CASE IoTakes
  BY <1>1, <1>5, IoTakesStep, NamesStay DEF IoTakes
<1>6. CASE IoAppends
  BY <1>6, NamesAppend
<1>7. CASE ProcessEnds
  BY <1>7, NamesEnd
<1>8. CASE persistence_init
  BY <1>8, NamesLoad
<1>9. CASE UNCHANGED vars
  <2>1. /\ UNCHANGED <<proc, cache, loaded, queue, running, arg, ioAt>>
        /\ UNCHANGED <<new_user, file, dropped, sound>>
    BY <1>9 DEF vars, memory
  <2>2. IInv'
    BY <1>1, <1>9, StepInv
  <2>3. QED
    BY <1>1, <2>1, <2>2, StayStep, NamesStay
<1>10. QED
  BY <1>2, <1>3, <1>4, <1>5, <1>6, <1>7, <1>8, <1>9 DEF Next, IoThread

\* In memory and in the file, across any number of crashes and restarts, a name is
\* taken once, and what the file has memory has, as long as only plain accounts were
\* written and every read came to the end of the file.
THEOREM NamesAreTakenOnce == Spec => []NameIsTakenOnce
<1>1. Spec => []NamesInv
  BY InitIsNothingYet, InitNames, StepNames, PTL DEF Spec
<1>2. NamesInv => NameIsTakenOnce
  BY DEF NamesInv
<1>3. QED
  BY <1>1, <1>2, PTL

\* Nothing is reported as done that is not: as long as only plain accounts were written
\* and the file was read to its end, every account registered in this run that nobody
\* holds any more, and that was not given up, can be read back from the file.
THEOREM SettledAccountsAreSaved == Spec => []SettledIsSaved
<1>1. Spec => []NamesInv
  BY InitIsNothingYet, InitNames, StepNames, PTL DEF Spec
<1>2. NamesInv => SettledIsSaved
  BY DEF NamesInv
<1>3. QED
  BY <1>1, <1>2, PTL

-------------------------------------------------------------------------------
(* The file as a log. *)

\* The accounts on their way to the file: pending in the log.
Pending ==
  ({arg[w] : w \in Workers} \cup {new_user} \cup {Waiting[k] : k \in 1 .. queue.count}) \ {NoUser}

\* Where an account can be on its way.
LEMMA PendingCases ==
  ASSUME NEW v
  PROVE  v \in Pending <=>
           /\ v # NoUser
           /\ \/ \E w \in Workers : arg[w] = v
              \/ new_user = v
              \/ \E k \in 1 .. queue.count : Waiting[k] = v
BY DEF Pending

LEMMA PendingCasesNext ==
  ASSUME NEW v
  PROVE  v \in Pending' <=>
           /\ v # NoUser
           /\ \/ \E w \in Workers : arg'[w] = v
              \/ new_user' = v
              \/ \E k \in 1 .. queue'.count : Waiting'[k] = v
BY DEF Pending

\* Who is on his way was asked for by a client.
LEMMA PendingIsRequested ==
  ASSUME NamesInv, NEW v \in Account, v \in Pending
  PROVE  v \in Requests
<1>1. Holders(v) # {}
  BY PendingCases, HolderCases
<1>2. QED
  BY <1>1 DEF NamesInv, IInv, HeldIsRegistered, RegisteredOnRequest

\* What is reported lost is not on its way.
LEMMA DroppedIsNotPending == IInv => dropped \cap Pending = {}
<1> SUFFICES ASSUME IInv, NEW v \in dropped PROVE v \notin Pending
  OBVIOUS
<1>1. v \in Account /\ <<"console", 0>> \in Holders(v)
  BY HolderCases DEF IInv, TypeOK
<1>2. Holders(v) = {<<"console", 0>>}
  BY <1>1, HeldIsHeldOnce
<1>3. /\ \A x \in Workers : arg[x] = v => <<"console", 0>> = <<"worker", x>>
      /\ \A k \in 1 .. queue.count : Waiting[k] = v => <<"console", 0>> = <<"queue", k>>
      /\ new_user = v => <<"console", 0>> = <<"thread", 0>>
  BY <1>2, HeldElsewhere
<1>4. QED
  BY <1>3, PendingCases

\* The first hold of register_user accepts an account that is not on its way.
LEMMA AddAccepts ==
  ASSUME NamesInv, NEW w \in Workers, NEW u \in Requests, AddToCache(w, u)
  PROVE  LogOfStore!Accept(u)
<1> USE DEF AddToCache, NameIsFree
<1>1. IInv /\ u \in Account /\ u # NoUser
  BY RequestFacts DEF NamesInv
<1>2. Holders(u) = {}
  <2>1. \A k \in 1 .. Len(cache) : cache[k] # u
    OBVIOUS
  <2>2. loaded \in Nat /\ Len(cache) \in Nat
    BY <1>1 DEF IInv, TypeOK
  <2>3. QED
    BY <1>1, <2>1, <2>2 DEF IInv, HeldIsRegistered, Registered
<1>3. u \notin Pending
  BY <1>2, PendingCases, HolderCases
<1>4. UNCHANGED <<Waiting, queue, new_user>>
  BY DEF Waiting
<1>5. \A v : v \in Pending' <=> v \in Pending \/ v = u
  <2>1. /\ \A x \in Workers : arg'[x] = IF x = w THEN u ELSE arg[x]
        /\ arg[w] = NoUser
    BY <1>1 DEF IInv, TypeOK
  <2>2. QED
    BY <1>1, <1>4, <2>1, PendingCases, PendingCasesNext
<1>6. Pending' = Pending \cup {u}
  BY <1>5
<1>7. QED
  BY <1>3, <1>6 DEF LogOfStore!Accept, Pending

\* The second one leaves it on its way, or gives it up.
LEMMA QueueGivesUp ==
  ASSUME NamesInv, NEW w \in Workers, QueueWrite(w)
  PROVE  \/ \E u \in Requests : LogOfStore!GiveUp(u)
         \/ UNCHANGED LogOfStore!logVars
<1> USE DEF QueueWrite
<1>1. IInv /\ IInv'
  BY QueueStep DEF NamesInv
<1>2. PICK u \in Account : u = arg[w] /\ u # NoUser
  BY <1>1 DEF IInv, TypeOK
<1>3. u \in Pending /\ u \in Requests
  BY <1>2, PendingCases, PendingIsRequested
<1>4. \A x \in Workers : arg'[x] = IF x = w THEN NoUser ELSE arg[x]
  BY <1>1 DEF IInv, TypeOK
<1>5. CASE IsFull(queue, WriteQueueSize)
  <2>1. UNCHANGED <<Waiting, queue, new_user>> /\ u \in dropped'
    BY <1>2, <1>5 DEF Waiting
  <2>2. u \notin Pending'
    <3>1. (IInv => dropped \cap Pending = {})'
      BY DroppedIsNotPending, PTL
    <3>2. QED
      BY <1>1, <2>1, <3>1
  <2>3. \A v : v \in Pending' <=> v \in Pending /\ v # u
    BY <1>2, <1>4, <2>1, <2>2, PendingCases, PendingCasesNext
  <2>4. Pending' = Pending \ {u}
    BY <2>3
  <2>5. LogOfStore!GiveUp(u)
    BY <1>3, <2>4 DEF LogOfStore!GiveUp, Pending
  <2>6. QED
    BY <1>3, <2>5
<1>6. CASE ~IsFull(queue, WriteQueueSize)
  <2>1. queue' = Enqueue(queue, WriteQueueSize, u) /\ UNCHANGED new_user
    BY <1>2, <1>6
  <2>2. Waiting' = Append(Waiting, u)
    BY <1>1, <1>2, <1>6, <2>1, UserAssumption, EnqueueAppends DEF IInv, QueueIsSound, Waiting
  <2>3. /\ queue'.count = queue.count + 1 /\ queue.count \in Nat
        /\ Waiting \in Seq(Account) /\ Len(Waiting) = queue.count
    BY <1>1, <2>1, QueueFields DEF IInv, Enqueue
  <2>4. /\ \A k \in 1 .. queue.count : Waiting'[k] = Waiting[k]
        /\ Waiting'[queue.count + 1] = u
    BY <2>2, <2>3
  <2>5. \A v : (\E k \in 1 .. queue'.count : Waiting'[k] = v)
                 <=> v = u \/ \E k \in 1 .. queue.count : Waiting[k] = v
    <3>1. \A k : k \in 1 .. queue'.count <=> k \in 1 .. queue.count \/ k = queue.count + 1
      BY <2>3
    <3>2. QED
      BY <2>4, <3>1
  <2>6. \A v : v \in Pending' <=> v \in Pending
    BY <1>2, <1>4, <2>1, <2>5, PendingCases, PendingCasesNext
  <2>7. Pending' = Pending
    BY <2>6
  <2>8. QED
    BY <2>7 DEF LogOfStore!logVars, Pending
<1>7. QED
  BY <1>5, <1>6

\* The thread takes an account out of the queue and has it in its hands.
LEMMA TakingStutters ==
  ASSUME NamesInv, IoTakes
  PROVE  UNCHANGED LogOfStore!logVars
<1> USE DEF IoTakes
<1>1. IInv
  BY DEF NamesInv
<1>2. CASE queue.count = 0
  <2>1. UNCHANGED <<proc, file, arg, new_user, queue>>
    BY <1>2
  <2>2. QED
    BY <2>1 DEF LogOfStore!logVars, Waiting
<1>3. CASE queue.count # 0
  <2>1. /\ new_user' = Front(queue) /\ queue' = Dequeue(queue, WriteQueueSize)
        /\ UNCHANGED <<proc, file, arg>> /\ ioAt = "test" /\ queue.count > 0
    BY <1>1, <1>3 DEF Finished, IInv, TypeOK
  <2>2. Front(queue) = Head(Waiting) /\ Waiting' = Tail(Waiting)
    BY <1>1, <2>1, UserAssumption, DequeueIsTail DEF IInv, QueueIsSound, Waiting
  <2>3. /\ queue'.count = queue.count - 1 /\ queue.count \in Nat
        /\ Waiting \in Seq(Account) /\ Len(Waiting) = queue.count
    BY <1>1, <2>1, QueueFields DEF IInv, Dequeue
  <2>4. /\ new_user' = Waiting[1] /\ 1 \in 1 .. queue.count
        /\ \A k \in 1 .. queue'.count : k + 1 \in 1 .. queue.count /\ Waiting'[k] = Waiting[k + 1]
        /\ \A k \in 2 .. queue.count : k - 1 \in 1 .. queue'.count /\ Waiting'[k - 1] = Waiting[k]
        /\ \A k \in 1 .. queue.count : k = 1 \/ k \in 2 .. queue.count
    BY <2>1, <2>2, <2>3
  <2>5. \A v : (\E k \in 1 .. queue.count : Waiting[k] = v)
                 <=> v = new_user' \/ \E k \in 1 .. queue'.count : Waiting'[k] = v
    BY <2>4
  <2>6. new_user = NoUser
    BY <1>1, <2>1 DEF IInv, ThreadHolds
  <2>7. \A v : v \in Pending' <=> v \in Pending
    BY <2>1, <2>5, <2>6, PendingCases, PendingCasesNext
  <2>8. Pending' = Pending
    BY <2>7
  <2>9. QED
    BY <2>1, <2>8 DEF LogOfStore!logVars, Pending
<1>4. QED
  BY <1>2, <1>3

\* What the thread has in its hands goes to the end of the log, whole, or is given up.
LEMMA AppendWrites ==
  ASSUME NamesInv, IoAppends
  PROVE  \E u \in Requests : LogOfStore!Write(u) \/ LogOfStore!GiveUp(u)
<1> USE DEF IoAppends
<1>1. IInv
  BY DEF NamesInv
<1>2. PICK u \in Account : u = new_user /\ u # NoUser
  BY <1>1 DEF IInv, TypeOK, ThreadHolds
<1>3. u \in Pending /\ u \in Requests
  BY <1>2, PendingCases, PendingIsRequested
<1>4. /\ \A x \in Workers : arg[x] # u
      /\ \A k \in 1 .. queue.count : Waiting[k] # u
  <2>1. <<"thread", 0>> \in Holders(u)
    BY <1>2, HolderCases
  <2>2. Holders(u) = {<<"thread", 0>>}
    BY <1>1, <2>1, HeldIsHeldOnce
  <2>3. /\ \A x \in Workers : arg[x] = u => <<"thread", 0>> = <<"worker", x>>
        /\ \A k \in 1 .. queue.count : Waiting[k] = u => <<"thread", 0>> = <<"queue", k>>
    BY <2>2, HeldElsewhere
  <2>4. QED
    BY <2>3
<1>5. UNCHANGED <<Waiting, queue, arg>> /\ new_user' = NoUser
  BY DEF Waiting
<1>6. \A v : v \in Pending' <=> v \in Pending /\ v # u
  BY <1>2, <1>4, <1>5, PendingCases, PendingCasesNext
<1>7. Pending' = Pending \ {u}
  BY <1>6
<1>8. CASE AppendSucceeds
  <2>1. file' = file \o LogOfStore!Line(u)
    BY <1>2, <1>8 DEF AppendSucceeds, Written, Line, LogOfStore!Line
  <2>2. LogOfStore!Write(u)
    BY <1>3, <1>7, <2>1 DEF LogOfStore!Write, Pending
  <2>3. QED
    BY <1>3, <2>2
<1>9. ASSUME NEW n \in 0 .. Len(Line(new_user)) - 1, AppendFails(n)
      PROVE  \E v \in Requests : LogOfStore!Write(v) \/ LogOfStore!GiveUp(v)
  <2>1. file' = file \o SubSeq(Line(u), 1, n)
    BY <1>2, <1>9 DEF AppendFails, Written
  <2>2. Line(u) \in Seq(Words) /\ Len(Line(u)) \in Nat /\ file \in Seq(Words)
    BY <1>1 DEF Line, Account, IInv, TypeOK
  <2>3. n = 0 => file' = file
    <3>1. SubSeq(Line(u), 1, 0) = <<>>
      BY <2>2
    <3>2. QED
      BY <2>1, <2>2, <3>1
  <2>4. n # 0 => n \in 1 .. Len(Line(u)) - 1
    BY <1>2, <2>2
  <2>5. file' = file \/ \E m \in 1 .. Len(Line(u)) - 1 : file' = file \o SubSeq(Line(u), 1, m)
    BY <2>1, <2>3, <2>4
  <2>6. LogOfStore!Line(u) = Line(u)
    BY DEF Line, LogOfStore!Line
  <2>7. LogOfStore!GiveUp(u)
    BY <1>3, <1>7, <2>5, <2>6 DEF LogOfStore!GiveUp, Pending
  <2>8. QED
    BY <1>3, <2>7
<1>10. QED
  BY <1>8, <1>9

\* The process ends with nothing pending.
LEMMA EndStops ==
  ASSUME ProcessEnds
  PROVE  LogOfStore!Stop
<1> USE DEF ProcessEnds
<1>1. queue'.count = 0 /\ new_user' = NoUser /\ \A w \in Workers : arg'[w] = NoUser
  BY DEF EmptyRing
<1>2. \A v : v \notin Pending'
  BY <1>1, PendingCasesNext
<1>3. Pending' = {}
  BY <1>2
<1>4. QED
  BY <1>3 DEF LogOfStore!Stop, Pending

\* Every step of the store is a step of the log or none.
LEMMA StepLogs == NamesInv /\ [Next]_vars => [LogOfStore!Next]_(LogOfStore!logVars)
<1> SUFFICES ASSUME NamesInv, [Next]_vars PROVE [LogOfStore!Next]_(LogOfStore!logVars)
  OBVIOUS
<1>1. ASSUME NEW w \in Workers, QueueWrite(w) PROVE [LogOfStore!Next]_(LogOfStore!logVars)
  BY <1>1, QueueGivesUp DEF LogOfStore!Next
<1>2. ASSUME NEW w \in Workers, NEW u \in Requests, AddToCache(w, u) PROVE LogOfStore!Next
  BY <1>2, AddAccepts DEF LogOfStore!Next
<1>3. CASE persistence_shutdown \/ IoWakes \/ UNCHANGED vars
  <2>1. UNCHANGED <<proc, file, arg, new_user, queue>>
    BY <1>3 DEF persistence_shutdown, IoWakes, vars, memory
  <2>2. QED
    BY <2>1 DEF LogOfStore!logVars, Waiting
<1>4. CASE IoTakes
  BY <1>4, TakingStutters
<1>5. CASE IoAppends
  BY <1>5, AppendWrites DEF LogOfStore!Next
<1>6. CASE ProcessEnds
  BY <1>6, EndStops DEF LogOfStore!Next
<1>7. CASE persistence_init
  <2>1. LogOfStore!Start
    BY <1>7 DEF persistence_init, LogOfStore!Start, Waiting
  <2>2. QED
    BY <2>1 DEF LogOfStore!Next
<1>8. QED
  BY <1>1, <1>2, <1>3, <1>4, <1>5, <1>6, <1>7 DEF Next, IoThread

\* The user store implements the log of UserLog: the file grows by whole lines of
\* accounts that were accepted since the last start, each at most once, and by part
\* of a line only when a write fails.
THEOREM StoreImplementsLog == Spec => ImplementsLog
<1>1. Init => LogOfStore!Init
  <2> SUFFICES ASSUME Init PROVE LogOfStore!Init
    OBVIOUS
  <2>1. queue.count = 0 /\ new_user = NoUser /\ \A w \in Workers : arg[w] = NoUser
    BY DEF Init, EmptyRing
  <2>2. \A v : v \notin Pending
    BY <2>1, PendingCases
  <2>3. Pending = {}
    BY <2>2
  <2>4. QED
    BY <2>3 DEF Init, LogOfStore!Init, Pending
<1>2. Spec => []NamesInv
  BY InitIsNothingYet, InitNames, StepNames, PTL DEF Spec
<1>3. Spec => LogOfStore!Spec
  BY <1>1, <1>2, StepLogs, PTL DEF Spec, LogOfStore!Spec
<1>4. QED
  BY <1>3 DEF ImplementsLog

-------------------------------------------------------------------------------
(* The store has the safety of Writer; that the thread gets round to what it is asked *)
(* for is liveness, and left to model checking. *)

\* Every step of the store is one of Writer's, or nothing that Writer speaks of.
LEMMA StepOfWriter ==
  IInv /\ [Next]_vars => [WriterOfStore!Next]_(WriterOfStore!writerVars)
<1> SUFFICES ASSUME IInv, [Next]_vars
             PROVE  WriterOfStore!Next \/ UNCHANGED WriterOfStore!writerVars
  OBVIOUS
<1>1. queue.count \in Nat /\ queue.count <= WriteQueueSize /\ WriteQueueSize \in Nat
  <2>1. queue.count \in 0 .. WriteQueueSize
    BY DEF IInv, TypeOK, RingType
  <2>2. QED
    BY <2>1, UserAssumption
<1>2. UNCHANGED <<proc, running, queue, ioAt>> => UNCHANGED WriterOfStore!writerVars
  BY DEF WriterOfStore!writerVars, WriterOfStore!thread
<1>3. ASSUME NEW w \in Workers, QueueWrite(w)
      PROVE  WriterOfStore!Next \/ UNCHANGED WriterOfStore!writerVars
  <2>1. CASE UNCHANGED <<queue, ioAt>>
    BY <1>2, <1>3, <2>1 DEF QueueWrite
  <2>2. CASE /\ ~IsFull(queue, WriteQueueSize) /\ WakeIo
             /\ queue' = Enqueue(queue, WriteQueueSize, arg[w])
    <3>1. proc = "up" /\ UNCHANGED <<proc, running>>
      BY <1>3 DEF QueueWrite
    <3>2. queue'.count = queue.count + 1 /\ queue.count < WriteQueueSize
      BY <1>1, <2>2 DEF Enqueue, IsFull
    <3>3. WriterOfStore!Ask
      BY <2>2, <3>1, <3>2 DEF WakeIo, WriterOfStore!Ask
    <3>4. QED
      BY <3>3 DEF WriterOfStore!Next
  <2>3. QED
    BY <1>3, <2>1, <2>2 DEF QueueWrite
<1>4. CASE persistence_shutdown
  BY <1>4 DEF persistence_shutdown, WakeIo, WriterOfStore!Next, WriterOfStore!TellToEnd,
              WriterOfStore!thread
<1>5. CASE IoTakes
  <2>1. proc = "up" /\ ioAt = "test" /\ UNCHANGED <<proc, running>>
    BY <1>5 DEF IoTakes
  <2>2. CASE ioAt' = "asleep" /\ UNCHANGED queue
    BY <2>1, <2>2 DEF WriterOfStore!writerVars, WriterOfStore!thread
  <2>3. CASE Finished /\ ioAt' = "exited" /\ UNCHANGED queue
    BY <2>1, <2>3 DEF Finished, WriterOfStore!Next, WriterOfStore!End
  <2>4. CASE queue.count > 0 /\ queue' = Dequeue(queue, WriteQueueSize) /\ ioAt' = "append"
    <3>1. queue'.count = queue.count - 1
      BY <2>4 DEF Dequeue
    <3>2. WriterOfStore!Take
      BY <2>1, <2>4, <3>1 DEF WriterOfStore!Take
    <3>3. QED
      BY <3>2 DEF WriterOfStore!Next
  <2>5. QED
    BY <1>5, <2>2, <2>3, <2>4 DEF IoTakes
<1>6. CASE IoAppends
  BY <1>6 DEF IoAppends, WriterOfStore!Next, WriterOfStore!Finish
<1>7. CASE IoWakes
  BY <1>7 DEF IoWakes, WriterOfStore!writerVars, WriterOfStore!thread
<1>8. CASE ProcessEnds
  <2>1. queue'.count = 0
    BY <1>8 DEF ProcessEnds, EmptyRing
  <2>2. QED
    BY <1>8, <2>1 DEF ProcessEnds, WriterOfStore!Next, WriterOfStore!Stop, WriterOfStore!Fresh
<1>9. CASE persistence_init
  BY <1>9 DEF persistence_init, WriterOfStore!Next, WriterOfStore!Start, WriterOfStore!thread
<1>10. QED
  BY <1>2, <1>3, <1>4, <1>5, <1>6, <1>7, <1>8, <1>9 DEF Next, AddToCache, IoThread, vars, memory

\* user_file_thr never appends unasked, never takes an account after it has ended and ends
\* only when told to and with an empty queue; and the queue never holds more than it can.
THEOREM StoreIsAWriter ==
  Spec => WriterOfStore!Init /\ [][WriterOfStore!Next]_(WriterOfStore!writerVars)
<1>1. Init => WriterOfStore!Init
  BY DEF Init, EmptyRing, WriterOfStore!Init, WriterOfStore!Fresh
<1>2. QED
  BY <1>1, StepOfWriter, UserInvariant, PTL DEF Spec
===============================================================================
