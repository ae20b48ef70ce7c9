------------------------------- MODULE UserStore ------------------------------
(***************************************************************************)
(* The user half of persistence.c: user_cache under cache_mutex, the ring  *)
(* user_queue under uq_mutex, the thread user_file_thr that appends what   *)
(* it takes from the ring to utenti.txt, and the user parts of             *)
(* persistence_init and persistence_shutdown.                              *)
(*                                                                         *)
(* A step is the hold of a mutex or one append; register_user makes two of *)
(* them, and other threads run in between.  The process may end at any     *)
(* moment and be started again.  An append may fail, and then leaves no    *)
(* words or some of them; a read of the file may fail.                     *)
(***************************************************************************)
EXTENDS UserFile, Ring, FiniteSets

CONSTANTS
  Workers,         \* the threads that call register_user
  Words,           \* what names and passwords are made of, see UserFile
  Requests,        \* the accounts clients register
  NoUser,          \* no account
  MaxUsers,        \* MAX_USERS
  WriteQueueSize,  \* WRITE_QUEUE_SIZE
  MaxWords         \* a bound for model checking: nobody registers once the file has as many

ASSUME UserAssumption ==
  /\ MaxUsers \in Nat \ {0}
  /\ WriteQueueSize \in Nat \ {0}
  /\ MaxWords \in Nat
  /\ Requests \subseteq [name : Seq(Words), password : Seq(Words)]
  /\ NoUser \notin [name : Seq(Words), password : Seq(Words)]

VARIABLES
  proc,      \* "down" or "up"
  cache,     \* user_cache[0 .. user_count - 1]
  loaded,    \* history: how many entries of the cache persistence_init read
  queue,     \* user_queue with uq_head, uq_tail and uq_count
  running,   \* persistence_running
  arg,       \* the account a worker has put in the cache and not yet in the queue
  ioAt,      \* where user_file_thr is
  new_user,  \* its local variable
  file,      \* utenti.txt
  dropped,   \* history: the accounts of this run that were not queued or not written
  sound      \* history: nothing but whole plain accounts was ever written or read

memory == <<cache, loaded, queue, running, arg, ioAt, new_user, dropped>>
vars == <<proc, memory, file, sound>>

Account == [name : Seq(Words), password : Seq(Words)]

TypeOK ==
  /\ proc \in {"down", "up"}
  /\ cache \in Seq(Account) /\ Len(cache) <= MaxUsers
  /\ loaded \in 0 .. Len(cache)
  /\ queue \in RingType(WriteQueueSize, Account \cup {NoUser})
  /\ running \in BOOLEAN
  /\ arg \in [Workers -> Account \cup {NoUser}]
  /\ ioAt \in {"test", "asleep", "append", "exited"}
  /\ new_user \in Account \cup {NoUser}
  /\ file \in Seq(Words)
  /\ dropped \subseteq Account
  /\ sound \in BOOLEAN

Init ==
  /\ proc = "down"
  /\ cache = <<>> /\ loaded = 0
  /\ queue = EmptyRing(WriteQueueSize, NoUser)
  /\ running = TRUE
  /\ arg = [w \in Workers |-> NoUser]
  /\ ioAt = "test" /\ new_user = NoUser
  /\ file = <<>>
  /\ dropped = {}
  /\ sound = TRUE

-------------------------------------------------------------------------------
(* The worker threads. *)

NameIsFree_IfNotWithPassword(u) == \A k \in 1 .. Len(cache) : cache[k] # u

NameIsFree(u) == \A k \in 1 .. Len(cache) : cache[k].name # u.name

\* The first hold of register_user.  A full cache, or a name it has already,
\* makes it return 0 and change nothing.
AddToCache(w, u) ==
  /\ proc = "up" /\ arg[w] = NoUser
  /\ Len(cache) < MaxUsers
  /\ NameIsFree(u)
  /\ Len(file) < MaxWords
  /\ cache' = Append(cache, u)
  /\ arg' = [arg EXCEPT ![w] = u]
  /\ UNCHANGED <<proc, loaded, queue, running, ioAt, new_user, file, dropped, sound>>

WakeIo_Never == UNCHANGED ioAt

\* pthread_cond_signal(&uq_not_empty), for which only user_file_thr waits.
WakeIo == ioAt' = IF ioAt = "asleep" THEN "test" ELSE ioAt

\* The second hold: into the queue, or, when the queue is full, nowhere.
QueueWrite(w) ==
  /\ proc = "up" /\ arg[w] # NoUser
  /\ arg' = [arg EXCEPT ![w] = NoUser]
  /\ \/ /\ IsFull(queue, WriteQueueSize)
        /\ dropped' = dropped \cup {arg[w]}
        /\ UNCHANGED <<queue, ioAt>>
     \/ /\ ~IsFull(queue, WriteQueueSize)
        /\ queue' = Enqueue(queue, WriteQueueSize, arg[w])
        /\ WakeIo
        /\ UNCHANGED dropped
  /\ UNCHANGED <<proc, cache, loaded, running, new_user, file, sound>>

\* main: the flag is cleared under both mutexes and the thread signalled.
persistence_shutdown ==
  /\ proc = "up" /\ running
  /\ running' = FALSE
  /\ WakeIo
  /\ UNCHANGED <<proc, cache, loaded, queue, arg, new_user, file, dropped, sound>>

-------------------------------------------------------------------------------
(* user_file_thr. *)

Finished_WhenTold == ~running

Finished == queue.count = 0 /\ ~running

IoTakes ==
  /\ proc = "up" /\ ioAt = "test"
  /\ \/ /\ queue.count = 0 /\ running
        /\ ioAt' = "asleep"
        /\ UNCHANGED <<queue, new_user>>
     \/ /\ Finished
        /\ ioAt' = "exited"
        /\ UNCHANGED <<queue, new_user>>
     \/ /\ queue.count > 0
        /\ new_user' = Front(queue)
        /\ queue' = Dequeue(queue, WriteQueueSize)
        /\ ioAt' = "append"
  /\ UNCHANGED <<proc, cache, loaded, running, arg, file, dropped, sound>>

\* pthread_cond_wait may return without a signal.
IoWakes ==
  /\ proc = "up" /\ ioAt = "asleep"
  /\ ioAt' = "test"
  /\ UNCHANGED <<proc, cache, loaded, queue, running, arg, new_user, file, dropped, sound>>

Written_FromTheStart(words) == words

\* fopen "a": at the end of the file.
Written(words) == file \o words

\* fopen "a", fprintf, fclose.  After a failure the thread goes on with the next
\* account; of this one the file has no words, or the first n.
AppendFails(n) ==
  /\ file' = Written(SubSeq(Line(new_user), 1, n))
  /\ dropped' = dropped \cup {new_user}
  /\ sound' = (sound /\ n = 0)

AppendSucceeds ==
  /\ file' = Written(Line(new_user))
  /\ sound' = (sound /\ Plain(new_user))
  /\ UNCHANGED dropped

IoAppends ==
  /\ proc = "up" /\ ioAt = "append"
  /\ AppendSucceeds \/ \E n \in 0 .. Len(Line(new_user)) - 1 : AppendFails(n)
  /\ ioAt' = "test"
  /\ new_user' = NoUser
  /\ UNCHANGED <<proc, cache, loaded, queue, running, arg>>

IoThread == IoTakes \/ IoAppends

-------------------------------------------------------------------------------
(* The end of the process and the next start. *)

ProcessEnds ==
  /\ proc = "up"
  /\ proc' = "down"
  /\ cache' = <<>> /\ loaded' = 0
  /\ queue' = EmptyRing(WriteQueueSize, NoUser)
  /\ running' = TRUE
  /\ arg' = [w \in Workers |-> NoUser]
  /\ ioAt' = "test" /\ new_user' = NoUser
  /\ dropped' = {}
  /\ UNCHANGED <<file, sound>>

\* persistence_init, which no other thread sees: the file is read to the end, or to
\* a word that cannot be read.
persistence_init ==
  /\ proc = "down"
  /\ proc' = "up"
  /\ \E n \in 0 .. Len(file) :
       /\ cache' = Load(file, n, MaxUsers)
       /\ loaded' = Len(cache')
       /\ sound' = (sound /\ n = Len(file))
  /\ UNCHANGED <<queue, running, arg, ioAt, new_user, file, dropped>>

-------------------------------------------------------------------------------
Next ==
  \/ \E w \in Workers : QueueWrite(w) \/ \E u \in Requests : AddToCache(w, u)
  \/ persistence_shutdown
  \/ IoThread
  \/ IoWakes
  \/ ProcessEnds
  \/ persistence_init

\* Threads that can run are scheduled.
Fairness ==
  /\ WF_vars(IoThread)
  /\ \A w \in Workers : WF_vars(QueueWrite(w))

Spec == Init /\ [][Next]_vars /\ Fairness

-------------------------------------------------------------------------------
(* Properties *)

\* The circular queue is consistent across wrap-around.
QueueIsSound == SoundRing(queue, WriteQueueSize, Account, NoUser)

\* The thread does not sleep through an account or through the shutdown.
IoSleepsOnlyIfIdle == ioAt = "asleep" => queue.count = 0 /\ running

\* The accounts registered in this run.
Registered == {cache[k] : k \in loaded + 1 .. Len(cache)}

\* The places that hold account u on its way to the file, and the console on which
\* its loss was reported.
Waiting == Contents(queue, WriteQueueSize)

Holders(u) ==
  {<<"worker", w>> : w \in {v \in Workers : arg[v] = u}}
    \cup {<<"queue", k>> : k \in {j \in 1 .. queue.count : Waiting[j] = u}}
    \cup {<<"thread", k>> : k \in {j \in {0} : new_user = u}}
    \cup {<<"console", k>> : k \in {j \in {0} : u \in dropped}}

HeldOnce(u) == \E h \in Holders(u) : Holders(u) = {h}

InFile(u) ==
  \E i \in 0 .. Len(file) - Len(Line(u)) :
    \A j \in 1 .. Len(Line(u)) : file[i + j] = Line(u)[j]

\* Every account registered in this run is in exactly one place on its way to the
\* file (a worker's hands, the queue, the thread's hands), or was given up with a
\* message on the console, or its line is in the file: none vanishes or is written
\* twice, however workers and the thread interleave.
EveryAccountIsSomewhere ==
  \A u \in Registered : HeldOnce(u) \/ (Holders(u) = {} /\ InFile(u))

DistinctNames(accounts) ==
  \A i, j \in 1 .. Len(accounts) : accounts[i].name = accounts[j].name => i = j

\* A name is taken once, in memory and in the file and across any number of crashes,
\* as long as only plain accounts were written and the file was read in full; and
\* then all that is in the file is in memory.
NameIsTakenOnce ==
  sound =>
    /\ DistinctNames(cache)
    /\ DistinctNames(Accounts(file))
    /\ proc = "up" =>
         \A i \in 1 .. Len(file) \div 2 : \E k \in 1 .. Len(cache) : cache[k] = Accounts(file)[i]

\* What the proof of these needs besides them: whatever is held was registered in
\* this run, under a name nobody else has, and a variable is set where it is used.
HeldIsRegistered == \A u \in Account : Holders(u) # {} => u \in Registered

RegisteredApart ==
  \A k \in loaded + 1 .. Len(cache) :
    \A j \in 1 .. Len(cache) : cache[j].name = cache[k].name => j = k

ThreadHolds == ioAt = "append" <=> new_user # NoUser

OnlyUpHolds ==
  proc = "down" =>
    /\ cache = <<>> /\ loaded = 0 /\ ioAt = "test" /\ queue.count = 0
    /\ dropped = {} /\ running
    /\ \A w \in Workers : arg[w] = NoUser

IInv ==
  /\ TypeOK
  /\ QueueIsSound
  /\ IoSleepsOnlyIfIdle
  /\ EveryAccountIsSomewhere
  /\ HeldIsRegistered
  /\ RegisteredApart
  /\ ThreadHolds
  /\ OnlyUpHolds

\* And for the names and the log: accounts and lines pair up in a sound file, which
\* has room in the cache, nothing in it that is still held, and of this run all that
\* is not held any more.
FileIsPaired ==
  sound =>
    /\ Len(file) % 2 = 0
    /\ Len(file) \div 2 <= MaxUsers
    /\ \A u \in Account : Holders(u) # {} =>
         \A i \in 1 .. Len(file) \div 2 : Accounts(file)[i] # u

SettledIsSaved ==
  sound =>
    \A u \in Registered :
      Holders(u) = {} => \E i \in 1 .. Len(file) \div 2 : Accounts(file)[i] = u

RegisteredOnRequest == Registered \subseteq Requests

NamesInv == IInv /\ FileIsPaired /\ NameIsTakenOnce /\ SettledIsSaved /\ RegisteredOnRequest

\* The file is an append-only log of accepted accounts, each written at most once.
LogOfStore ==
  INSTANCE UserLog WITH
    up <- proc = "up",
    pending <- ({arg[w] : w \in Workers} \cup {new_user}
                 \cup {Waiting[k] : k \in 1 .. queue.count}) \ {NoUser},
    log <- file

ImplementsLog == LogOfStore!Spec

\* For the workers and for main, user_file_thr is a thread that does what it is asked
\* for: every account in the queue is taken out of it, however the sleeps and wakeups
\* fall, and after persistence_shutdown the thread ends, if registrations do.
WriterOfStore ==
  INSTANCE Writer WITH
    Limit <- WriteQueueSize,
    up <- proc = "up",
    asked <- queue.count,
    busy <- ioAt = "append",
    ended <- ioAt = "exited"

ImplementsWriter == WriterOfStore!Spec
===============================================================================
