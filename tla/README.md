# Dakty in TLA+

Dakty is a bulletin board: a C server (`src/src/server.c`, `threadpool.c`,
`server_handler.c`, `persistence.c`, `net_utils.c`) that keeps accounts and messages in
memory and in two text files, and a terminal client (`client.c`, `client_controller.c`).
This directory holds TLA+ models of both, the TLC runs that check them on small
instances, and TLAPS proofs of the main invariants for instances of every size.

## 1. Inventory of the system

### Components, their state and operations

**Thread pool** (`threadpool.c`). State: the circular array `client_sockets` with `head`,
`tail` and `count`, the flag `shutdown`, one mutex and the condition variables
`not_empty` and `not_full`. Operations: `pool_init`, `pool_submit` (main; blocks while
the array is full), `pool_fetch` (workers; blocks while it is empty, returns -1 once it
is empty and shut down), `pool_shutdown` (broadcast). Correct when no socket is lost,
handed out twice or out of order, nobody sleeps through a condition that holds, and
every worker ends after the shutdown.

**Server main thread, workers and signal handler** (`server.c`). State: `keep_running`,
`active_sockets` (under its own mutex), the listening descriptor, the connections. main
accepts and submits until a signal has cleared `keep_running`, then closes the listening
socket, shuts down the connections in `active_sockets`, calls `pool_shutdown` and
`persistence_shutdown`, joins the workers and returns. A worker fetches a socket,
registers it, serves it in `handle_client`, clears its entry and fetches again. Correct
when each connection has exactly one owner (descriptors are reused as soon as they are
closed), all are served, and the shutdown ends with nothing left over.

**Message store** (message half of `persistence.c`). State: `message_cache`,
`message_count` and `next_message_id` under `msg_mutex`; `msg_needs_flush` under
`mq_mutex`; `persistence_running` (written under both queue mutexes); the file
`messaggi.txt`. `save_message` and `delete_message` change the cache and then ask for a
flush; the thread `message_file_thr` copies the cache and replaces the file through a
temporary file and `rename`. Correct when numbers are unique, no change is forgotten, and
the file is always some whole state of the board.

**User store** (user half of `persistence.c`). State: `user_cache` under `cache_mutex`;
the circular `user_queue` under `uq_mutex`; the file `utenti.txt`. `register_user`
adds to the cache in one critical section and queues the write in another; the thread
`user_file_thr` appends the queued accounts to the file. Correct when a name is taken
once and an accepted account reaches the file.

**Session handler** (`server_handler.c`). State, per connection: `is_logged` and `user`.
One operation per request: login, register, logout, post, read, delete. Correct when only
a logged-in user posts, reads and deletes, only his own messages are deleted, and request
and reply stay in step.

**Socket helpers** (`net_utils.c`): `recv_all`, `send_all`, and `safe_accept`, which
nobody calls. `recv_all` returns fewer bytes than asked for when the connection ends.

**Client** (`client_controller.c`, `client.c`). State: the socket, the menu it is in, the
user name typed last. Each call of the controller sends a header, a payload if the
operation has one, and blocks for the reply. Correct when every reply is to the request
just sent, and client and server agree on who is logged in.

**Wire format** (`protocol.h`): packed structures.

### Interactions

main and the workers meet in the pool, and in `active_sockets`. Workers call the two
stores; main starts and stops them. Each store has one I/O thread, woken through a
condition variable and stopped by `persistence_shutdown`, which joins it. Clients meet the
server only through their connections.

### What is hard

- Lost wakeups and lost items in three hand-made queues and flags with condition variables.
- The shutdown, which crosses every component: a signal at any point of the accept loop,
  sockets in every stage of their life, and I/O threads that end before the workers do.
- Two mutexes per operation in each store, with other threads in between.
- Failing I/O, crashes and restarts, with text files that do not escape their fields.
- A shutdown that stops the I/O threads while workers still change both stores.
- Connections that end between any two bytes, in the middle of a request or of a reply,
  and requests that are refused before their payload has been read.
- Descriptors that are closed by a worker and reused by accept while `active_sockets`
  still names them.

The full list is `hazards` in `PROJECT.json`, each at its line, with the properties that
answer it.

## 2. Modules

| Module | Models | Remarks |
|---|---|---|
| `Ring` | the circular array of `threadpool.c`, used again in `persistence.c` | operators only |
| `TaskQueue` | (abstract) a bounded FIFO with workers | what the pool promises |
| `ThreadPool` | `threadpool.c` | one action per critical section |
| `Server` | `server.c`, around an `INSTANCE` of `ThreadPool` | uses the pool's own actions |
| `Writer` | (abstract) a background thread that does what it is asked for and ends when told | what either I/O thread promises workers and main |
| `MessageFile` | lines of `messaggi.txt`: writing and `strtok` | operators only |
| `Board` | (abstract) a board and a saved copy replaced as a whole | what the message store promises |
| `MessageStore` | message half of `persistence.c` | crashes, restarts, failing I/O |
| `MessageNumbers` | `MessageStore` and a history of the numbers given | for one question |
| `UserFile` | the words of `utenti.txt`: writing and `fscanf` | operators only |
| `UserLog` | (abstract) an append-only log of accepted accounts | what the user store promises |
| `UserStore` | user half of `persistence.c` | crashes, restarts, failing appends |
| `Session` | `server_handler.c`, with `recv_all`, over connections of any well-formed client | uses the caches of both stores |
| `Dakty` | the whole server up to the end of its shutdown, around `INSTANCE`s of `Server`, `UserStore` and `MessageStore` | uses their own actions |
| `Protocol` | `client.c`, `client_controller.c`, around an `INSTANCE` of `Session` | uses the session's own actions |
| `MC*` | small instances, with their `.cfg` files | |
| `RingProofs`, `ThreadPoolProofs`, `ServerProofs`, `MessageStoreProofs`, `UserStoreProofs`, `SessionProofs`, `ProtocolProofs`, `DaktyProofs` | proofs | section 4 |

`PROJECT.json` maps every definition to the lines it stands for. The correspondence in
short:

**Atomicity.** A step is what a thread does between two points where others can notice:
a critical section, or one operation on a file or socket. A mutex therefore needs no
variable. A thread in `pthread_cond_wait` is in a state of its own (`wait_not_empty`,
`asleep`); a signal or a spurious wakeup moves it back to the state in which it takes
the lock and tests its condition again, which is what the `while` loops of the code do.

**ThreadPool.** `pool` is the record of the four fields; `mainAt` and `workerAt` are the
threads' places in `pool_submit` and `pool_fetch`; `held` and `mainSocket` are their
local variables. `SignalNotEmpty` wakes any one sleeper, as POSIX allows.

**Server.** `conn[s]` is what descriptor `s` is: `closed` (free for accept), `open` (recv
would block) or `ended` (the peer has closed, or `shutdown()` was called, so recv
returns). The variables of `ThreadPool` are variables here, and every pool call is the
pool's own action. `handle_signal` interrupts a main that sleeps in accept and no other:
the signal reaches the main thread, as Linux delivers it when that thread does not block
it.

**MessageStore and UserStore.** `proc` says whether the process is down, loading or up;
`ProcessEnds` (a crash, or the exit of main) may happen at any moment, forgets all memory
and keeps the file. `persistence_init` reads the file back, to its end or to an error. A
field of a message is a sequence of the pieces between its `|`; a name or password is a
sequence of the words between its blanks: that is all the two formats tell apart. An
append that fails may leave some of the words. `diskState`, `dropped`, `loaded` and
`sound` are histories that no action's guard reads.

**Session.** `in[c]` is what the client has sent and `recv_all` has not yet taken, header
or payload; `out[c]` the replies on their way back. A worker takes a header in one step
and decides; if the operation has a payload, `at[c]` names it and the payload is another
step, with the cache operation and the reply. In between other sessions run and the
connection may end. `ConnectionEnds` keeps any part of what was on its way; a payload that
has lost its end is a `Part`, and `recv_all` makes of it any value the structure can
have, because that is what the stack may hold in the rest. A reply to a read that is cut
counts as whole when a byte of its last message has come (`torn`), or when the count in
its header is missing and happens to be 0; cut anywhere else it is no reply (`CutShort`). A cache operation is one step,
as it is under one mutex; which thread then writes what to which file is the matter of
`MessageStore` and `UserStore`, and a session starts here with empty caches.
`Client` is any program that announces a payload and then sends it. It may send requests
that need a login without one, of unknown types, or with a length that is wrong in one of
the two ways in which the byte stream stays in step: 0 instead of a structure, and more
than 0, up to the 1024 bytes the code skips, on a request to read.

**Protocol.** A call of the controller is three steps: `Request` (header), `SendRest`
(payload) and the step with the function's own name, which takes the reply or finds the
connection ended, and says what the menu does next. `seen` is a history: the board that
the last successful read of any client returned. The user may leave at any point, and so
may the client be killed, at a prompt or in a call (`Exit`).

**Dakty.** The variables are those of the three modules, under the names of the code;
`persistence_running` is one variable of both stores. A worker that is `serving` makes the
store operations its client asks for, each in its two critical sections, and leaves
`handle_client` only between two of them (`Between`); it goes on after its connection has
`ended`, because what was in the socket by then is still received. main's
`PersistenceShutdown` of `Server` becomes two steps: `StopIoThreads`, which is the
`persistence_shutdown` of both stores at once, and the return of the two joins
(`IoThreadsJoined`). `IoSpurious` are wakeups of the I/O threads without a signal. `changing`
and `answered` are histories; `answered.accounts` are all accounts whose `register_user` had
returned 1 by then, those lost on a full write queue included. Nothing is loaded, the disk
does not fail and nothing crashes here: the stores' modules have that.

**Operators with an underscore and a mistake in the name** (`Swept_NotTheFirst`,
`SignalNotEmpty_Nobody`, ...) are wrong on purpose. No specification uses them; put in the
place of the operator they precede, each makes the property that `mutants` in
`PROJECT.json` pairs it with fail, which shows that the property can.

## 3. What TLC checks

| Run | Question | Instance | Result |
|---|---|---|---|
| `pool` | Does the pool lose wakeups or sockets? Does it end? Is it a FIFO? | 3 workers, queue of 3, 2 sockets | holds |
| `server` | Does every connection have one owner, is it served, does a signal end the server? | 2 workers, queue of 1, 4 descriptors | holds |
| `server_shutdown` | Does the shutdown free every worker by itself? | 2 workers, 2 descriptors | refuted |
| `server_signal` | Does a signal always interrupt accept? | same | refuted |
| `messages` | Unique numbers, no forgotten flush, whole files, a thread that does what it is asked? | 2 workers, board of 2, 3 numbers | holds |
| `message_numbers` | Is a number given only once, with clean stops? | 1 worker, board of 2, 3 numbers | refuted |
| `users` | Is every accepted account somewhere, is a name taken once, does the thread do what it is asked? | 2 workers, queue of 2, 3 accounts in memory, 3 words in the file before the last registration | holds |
| `session` | Are bytes taken for what they are, posts by accounts, deletions by senders, does a session end? | 1 connection, used again and again, 2 names, board of 2, 3 numbers | holds |
| `session_cut` | Is every message saved as it was written? | same | refuted |
| `protocol` | Do client and server stay in step, do numbers keep their meaning? | 2 clients, 1 account, board of 1, 2 numbers | holds |
| `dakty` | Which of what was answered before it does the shutdown write, and does it end? | 1 worker, 1 descriptor, 2 accounts and a write queue of 1, board of 1, 2 numbers | all but what found the queue full; it ends |
| `dakty_loss` | Does the shutdown write everything? | 1 worker, 1 descriptor, 1 account, 1 number | refuted |

### The properties

*pool.* `RingIsSound`, `NoSleeperOwedWork`, `ShutdownWakesAll`
are parts of the invariant; `ImplementsTaskQueue` is the refinement. `SubmitReturns`
and `WorkersTerminate` assume that no client keeps its worker for ever, which is the
only thing the pool cannot see to itself.

*server.* `ImplementsPool` shows that `server.c` uses the pool as `ThreadPool` assumes
(fairness included), so what holds of the pool holds in the server. `OneOwner` says that
a connected descriptor is in main's hands, in one place of the queue or with one worker,
and a closed one nowhere. `ActiveIsServed` is
what the sweep relies on. `SweepFreesServing` needs no help from clients; `AcceptedIsServed`
and `SignalEndsServer` assume that every client goes away sooner or later, and
`server_shutdown` shows that the assumption cannot be dropped. `SignalEndsServer` starts
at the signal, also one that comes while main sleeps in `pool_submit`; the two places of
main it leaves out are those that `server_signal` refutes.

*messages.* `NoLostFlush` relates memory, file, flag and copy; `ImplementsBoard` says the
file only ever changes to a whole former board. A failed flush is not retried by the code:
`diskState = "failed"` records it, and `QuietSaves` says the file catches up otherwise.
`ImplementsWriter` hides flag, sleep and wakeups: what is asked for is done, and the thread
ends when told to and done.

*users.* `EveryAccountIsSomewhere` follows an account from the cache to the file.
`NameIsTakenOnce` relates cache and file across restarts, on the condition `sound` that
no line with more or fewer than two words was written and no read failed: without it the
pairing of `fscanf` breaks it, which is a hazard listed in `PROJECT.json`.
`ImplementsWriter` is the same promise as for messages, with a queue in place of a flag.

*session.* `FramesInStep` relates what the server reads next to everything in flight and
to what the client still owes: it fails as soon as some path through the handlers leaves a
payload unread or skips one too many. `SenderHasAccount` relates the sessions, the
accounts and the board; `DeletedByItsSender` ties a message that
goes to the session and to the number in the request it goes for. `SessionEnds` is the liveness of
the handlers: wherever a connection is cut, its worker comes back to `pool_fetch`.

*protocol.* `OneAnswerDue` counts the answer of a call wherever it is (request on its way,
request being served, reply on its way): one during a call, none outside. It is what
makes it right that the client never looks which request a reply is to, and it means
that a client blocked in `recv_all` waits only for the server, or for the end of the
connection. `ViewsAgree` relates the client's menu and name to the session's
`is_logged` and `user`, after refused logins and registrations too. `SeenKeepsItsNumber`
spans two clients: one reads, the other deletes and posts, the first deletes by number.

*dakty.* `AnsweredIsSaved` is what the shutdown does keep, seen from clients: what was
answered before `persistence_shutdown` is in the files when it returns, although workers
still serve: the message, or nothing if it was deleted since; and the line of the account,
read back as that account by the next start if every line is of two words (`sound`). The
exception is in the property: an account that finds the write queue full is answered with
success (`register_user` prints "Salvataggio perso" and returns 1) and is not in the file.
The property says that nothing else is missing, and that nothing is missing while no more
accounts are registered than the queue has slots; in this run, with two accounts and a queue
of one, such losses happen. `dakty_loss` shows what else the shutdown does not keep: what is
answered after the I/O threads have ended. Both are against the "zero perdite di dati" of the
repository's README.
`ShutdownEnds` needs every thread of the server to end in the right order, and that clients
leave, for two reasons: a connection the sweep missed holds its worker, and one that goes on
posting and deleting can keep `message_file_thr` from its exit.

### Bounds

Three workers let one sleep, one be on its way and one be busy. A queue of three wraps
around, and fills while a worker sleeps; a queue of one, with four descriptors for two
workers, makes main block in `pool_submit`. Two messages and three numbers fill the board,
delete from it, post again and restart from an older file. Three accounts for a queue of
two fill it. One connection in `session` is enough for what concerns the byte stream, as
connections share nothing but the caches; two in `protocol` interfere through these. There,
one of the two (`Lasting`) stays connected while the other comes and goes; both at once
would only repeat this. A board of one and two numbers let a message be replaced by
another; two texts tell them apart. In `dakty` two accounts and a write queue of one let
an account be lost before the shutdown, and another be saved; two numbers let a message be
replaced while the thread is busy with the first. Its one descriptor can be queued, served or
free when the sweep passes; more descriptors and workers are in `server`, more workers in the
stores in `messages` and `users`.

Four bounds are not constants of the code. `MaxId` (guard of `save_message`, and in `Session`
of `SendHeader`, where a connection also has at most one post under way) and `MaxWords`
(guard of `AddToCache`) stop counters that the code lets grow; the real limits are 2^32
numbers and the size of the disk. `MaxInFlight` (guard of `SendHeader`) stops a client from
sending more requests while as many items are on their way: a client may ask again before it
has read the reply, and with 2 a request can be behind another or behind an unread reply,
with its payload behind it. `Lasting` is the one above.

### Fairness

Weak fairness of each thread's own steps: a thread that is not asleep or blocked gets the
processor and, in the end, the mutex it asks for (critical sections are short and
contain no blocking call). In `Session` this is a worker that can receive. `Protocol` states
safety only and assumes none. No fairness is given to clients, signals, spurious wakeups,
failures, crashes or restarts.

### What is refuted

Five statements of documentation and comments do not hold of the code: `findings` in
`PROJECT.json` quotes each with its line. In short: the sweep misses connections that are
queued or not yet registered; a signal between the loop test and accept interrupts
nothing; a message number is given again after a restart; the I/O threads are stopped
before the workers, and what is accepted in between is lost; a post cut short by the end of
its connection is saved with an arbitrary rest. The loss of an account on a full write queue is
no run of its own: `AnsweredIsSaved` names it as the exception it is.

## 4. What is proved

TLAPS proves, for every value of the constants under the named assumptions:

- `RingProofs`: `EnqueueAppends` and `DequeueIsTail`, that the circular array behaves as
  `Append` and `Tail` on its contents, with the lemmas on `%` they rest on.
- `ThreadPoolProofs` (`PoolAssumption`: the queue has a positive size, the workers are
  finitely many): `PoolInvariant`, `TypesAreKept`, `RingStaysSound`, `NoLostWakeup`,
  `ShutdownLeavesNoOneAsleep`, and `PoolImplementsTaskQueue`. The inductive invariant is
  `IInv`: the four safety properties together with the types and `HandOff`, which ties
  the threads' places to their local variables. `NoSleeperOwedWork` is inductive because
  it counts: while somebody sleeps, there are at most as many sockets as workers on their
  way; a submit adds one of each, or nobody sleeps; a fetch removes one of each.
- `ServerProofs` (`ServerAssumption`: some workers, finitely many, a queue of positive
  size, and no descriptor that means none): `ServerRunsPool`, `ServerInvariant`,
  `TypesAreKept`, `DescriptorsHaveOneOwner`, `SweepFindsServing`, `NothingIsLeft`.
  `ThreadPoolProofs` is instantiated, not repeated: every step of the server is one of the
  pool's or leaves the pool alone, so the pool's own theorems hold of it. `MainInStep` and
  `WorkersInStep` tie a thread's place in `server.c` to its place in `threadpool.c`. The
  argument for one owner: each step passes a descriptor from its one owner to the next,
  and a descriptor that accept gives out was closed, so it had none.
- `MessageStoreProofs` (`StoreAssumption`): `StoreInvariant`, `TypesAreKept`,
  `IdsStayUnique`, `IoNeverSleepsThrough`, `NoFlushIsLost`, `StoreImplementsBoard`,
  `StoreIsAWriter`. Besides the checked properties `IInv` needs `LoadingInOrder` (the lines
  still to be loaded have higher numbers than those loaded), `CopyIsCurrent` (a copy that a
  change has overtaken has the next flush due) and `OnlyUpMoves`. For the refinement of
  `Board` the invariant is `LoadedSoFar`: the cache is what loading the lines before
  `readPos` gives. What that is, `Loads` says without recursion: each entry comes from a
  line of its own, in the lines' order, and every line that can be read has one. One more
  line keeps this, read or skipped; whenever the loading stops, it is the start of `Board`.
- `UserStoreProofs` (`UserAssumption`): `UserInvariant`, `TypesAreKept`,
  `QueueStaysSound`, `IoNeverSleepsThrough`, `AccountsAreKept`. The last is why the invariant has more parts:
  an account that moves on must have been in one place only, so whatever is held must have
  been registered in this run (`HeldIsRegistered`), and a new account must find no older
  one of its name in the cache (`RegisteredApart`); `ThreadHolds` and `OnlyUpHolds` say
  when a variable is in use. The argument goes holder by holder: a step takes the one
  holder of one account away and gives the account another, or the file.
  On top of these, `NamesAreTakenOnce`, `SettledAccountsAreSaved`, `StoreImplementsLog` and
  `StoreIsAWriter`. The invariant `NamesInv` adds `FileIsPaired`: a sound file has whole
  lines, as many as the cache has room for, and none of an account that is still held. An
  account that is appended is therefore not in the file yet; its name is not either, because
  all that is in the file is in the cache, where its name is its own; and the file still
  fits in the cache because it has no more names than the cache (a pigeonhole argument), so
  the next start reads all of it. `SettledIsSaved` is the other direction: what was accepted
  and is held nowhere any more is in the file. For the log, the accounts with a holder other
  than the console are its `pending` ones.
- The two theorems `StoreIsAWriter` are the safety half of `ImplementsWriter`: neither thread
  takes a step that a `Writer` may not take, whether it is asked through a queue or a flag.
- `SessionProofs` (`SessionAssumption`): `SessionInvariant`, `StreamsStayInStep`,
  `SendersHaveAccounts`, `DeletionsAreTheSenders`, `TypesAreKept`. `IInv` has types without
  bounds (`Types`), `FramesInStep` and `SenderHasAccount`. `FramesInStep` is inductive by
  itself: what is in a stream is headers, each followed by the payload it announces, and the
  handlers take them in that order or skip the same number of bytes. The bounds come on top
  of it (`TypeInv`): a number up to `MaxId` is left for every post that is under way
  (`NumbersSuffice`), for which each connection must have at most one, in the stream or in
  its handler (`PostsInTurn`), and a handler that has taken what it was to receive must be
  through with its own, which `FramesInStep` says; hence the finitely many connections.
- `ProtocolProofs` (`ProtocolAssumption`): `ClientsAreClients`, `ViewsAlwaysAgree`,
  `OneAnswerAlwaysDue`, `ReadNumbersLast`. `SessionProofs` is instantiated: every step of the
  protocol is one of the sessions' or leaves them alone. `TalkInv` says of each connection
  that lasts how far its call has got: `Between` calls, `Sending` (the payload is still to
  be sent), `Underway` (all is sent, none answered) or `Answered` (one reply on its way, and
  what it says `Fits` what the session has become). A step changes this for one connection
  only. In each of the four, only one handler can run, or none. Agreement and the count of
  answers follow from it. For the numbers, `Honest` is the set of messages whose number has
  been given and names no other message; replies and what clients have read are made of
  honest messages only (`NumbersInv`), as each number on the board was given once
  (`Numbered`), and a step of the board, a new number or a gap, leaves honest messages honest.
- `DaktyProofs` (`DaktyAssumption`): `PartsRunTogether`, `DaktyInvariant`, `TypesAreKept`,
  `WhatIsAnsweredIsSaved`. The proofs of the three parts are instantiated (the lemmas named
  `Same...` identify those instances with the ones `Dakty` is made of): every step of the
  whole is a step of each part or leaves it alone, so the parts keep their invariants. On
  top of these, `IInv` follows what is answered. For messages, `ToBeSaved` and `ToBeGone`
  are the numbers the next file must and must not have, all that is answered as long as the
  threads run, and what was answered by the shutdown afterwards; a board that `ShowsAnswered`
  has the first and none of the second. The cache always does, the copy and the file do
  unless a flush is due (`BoardReachesFile`), and the thread does not exit with one due. A
  change that a worker has made but not yet asked the flush for is not answered
  (`ChangesInStep`), which is why it may be missing. For accounts, what is answered is out of
  the workers' hands (`AnsweredIsPast`), so when `user_file_thr` exits with an empty queue
  nobody holds it, and `EveryAccountIsSomewhere` and `SettledIsSaved` leave only the file
  (`AccountsReachFile`), unless the account is one of those `dropped`. Of these there are none
  unless more accounts were registered than the queue has slots (`LossNeedsFullQueue`): a full
  queue and the worker that finds it so hold that many different accounts, all of them in the
  cache (an injection, hence the count). What workers change after that adds to either file nothing and
  takes nothing away, because the threads have ended (`ThreadsInStep`).

The inductive invariants were checked by TLC before they were proved.

Every invariant that a run checks is also proved, and so are the action property and the
safety refinements. Only model-checked: liveness, as fairness and ENABLED are out of the
prover's reach. These are `SubmitReturns`, `WorkersTerminate`, `SweepFreesServing`,
`AcceptedIsServed`, `SignalEndsServer`, `QuietSaves`, `SessionEnds`, `ShutdownEnds`, and the
fairness in `ImplementsPool` and `ImplementsWriter`, whose safety halves are proved
(`ServerRunsPool`, `StoreIsAWriter`). What a recursive definition computes is out of its
reach as well; no module here declares one.

## 5. What is not modelled

- Headers that arrive in part: the first byte is the type, so to the server such a header
  is one of that type with some length, after which nothing comes; the handlers then do
  what they do after a whole header with nothing behind it, or send an error in vain.
- Lengths that are neither right, nor 0, nor skipped: what a foreign client that sends
  them makes the server read next is not the protocol any more.
- Prompts and screens of the client, and its choice of what to type.
- The 32-bit wrap of `next_message_id`; fields cut to their buffers; line breaks inside a
  field, which the client cannot send.
- An `fprintf` that fails with EINTR and is called again (`persistence.c:68` and `129`): it
  could repeat part of a line. A write is one step here, with whole words of one line at most.
- Part of a word left by a failing append (whole words are), and `fclose` called again
  after it failed with EINTR, which is undefined behaviour.
- Errors in `main` before the accept loop: they end the process at once.
- A worker blocked in `send` because its client does not receive: replies are taken to fit
  the socket's buffer.
- A crash of both stores at once, after which a message can name a sender whose account is
  not in the other file: each store has its own crashes.

## 6. Plan

Done: all modules of section 2, and the proofs of section 4.

Left, in this order:

1. A common crash and restart of both stores, as an extension of `Dakty`.
2. Liveness of `Protocol`: a blocked call returns, given that the server's threads run.
   `OneAnswerDue` is the safety part of it and `SessionEnds` the server's share; the rest
   needs an instance smaller than the one that interference between clients asks for.
3. That the caches of `Session` are those of the stores: every step that changes the memory
   of `MessageStore` or `UserStore` while the process is up is one of the cache operations
   that `Session` takes for one step.
