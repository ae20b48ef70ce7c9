----------------------------- MODULE MessageStore -----------------------------
(***************************************************************************)
(* The message half of persistence.c: message_cache, shared by the worker  *)
(* threads under msg_mutex; the flag msg_needs_flush, under mq_mutex; the  *)
(* thread message_file_thr, which copies the cache and replaces the file   *)
(* through a temporary one; persistence_init and persistence_shutdown.     *)
(*                                                                         *)
(* A step is what a thread does between two points where another thread or *)
(* a crash can be noticed: the hold of a mutex, or one operation on a      *)
(* file.  The process may end at any moment and be started again; memory   *)
(* is lost, files are not.  Every operation on a file may fail.            *)
(***************************************************************************)
EXTENDS MessageFile, FiniteSets

CONSTANTS
  Workers,      \* the threads that call save_message and delete_message
  Pieces,       \* what fields are made of, see MessageFile
  Drafts,       \* the messages they post
  MaxMessages,  \* MAX_MESSAGGES
  MaxId         \* a bound on next_message_id: uint32_t does not wrap here

ASSUME StoreAssumption ==
  /\ MaxMessages \in Nat \ {0}
  /\ MaxId \in Nat \ {0}
  /\ Drafts \subseteq [sender : Seq(Pieces), subject : Seq(Pieces), body : Seq(Pieces)]

VARIABLES
  proc,        \* whether the process is "down", in persistence_init ("loading") or "up"
  cache,       \* message_cache[0 .. message_count - 1]
  nextId,      \* next_message_id
  needsFlush,  \* msg_needs_flush
  running,     \* persistence_running
  workerAt,    \* "trigger": about to call trigger_message_flush
  readPos,     \* persistence_init: the line fgets reads next
  maxId,       \* persistence_init: max_id
  ioAt,        \* where message_file_thr is
  dump,        \* its local_dump
  written,     \* the loop index of fprintf: the lines of dump in messaggi.txt.tmp
  file,        \* messaggi.txt
  diskState    \* history: "loaded" since the start, "changed", or "failed" at the last flush

memory == <<cache, nextId, needsFlush, running, workerAt, readPos, maxId, ioAt, dump, written, diskState>>
vars == <<proc, memory, file>>

IoStates == {"test", "asleep", "snapshot", "write", "exited"}

Message == [id : 1 .. MaxId, sender : Seq(Pieces), subject : Seq(Pieces), body : Seq(Pieces)]

TypeOK ==
  /\ proc \in {"down", "loading", "up"}
  /\ nextId \in 1 .. MaxId + 1
  /\ needsFlush \in BOOLEAN
  /\ running \in BOOLEAN
  /\ workerAt \in [Workers -> {"idle", "trigger"}]
  /\ readPos \in Nat \ {0}
  /\ written \in 0 .. Len(dump)
  /\ maxId \in 0 .. MaxId
  /\ ioAt \in IoStates
  /\ diskState \in {"loaded", "changed", "failed"}
  /\ cache \in Seq(Message) /\ Len(cache) <= MaxMessages
  /\ dump \in Seq(Message) /\ Len(dump) <= MaxMessages
  /\ file \in Seq(Message) /\ Len(file) <= MaxMessages

Init ==
  /\ proc = "down"
  /\ cache = <<>>
  /\ nextId = 1
  /\ needsFlush = FALSE
  /\ running = TRUE
  /\ workerAt = [w \in Workers |-> "idle"]
  /\ readPos = 1
  /\ maxId = 0
  /\ ioAt = "test"
  /\ dump = <<>>
  /\ written = 0
  /\ file = <<>>
  /\ diskState = "loaded"

-------------------------------------------------------------------------------
(* The worker threads. *)

Idle(w) == proc = "up" /\ workerAt[w] = "idle"

\* The two operations change the cache under msg_mutex and set the flag later,
\* under mq_mutex.
ChangeCache(w, new) ==
  /\ cache' = new
  /\ workerAt' = [workerAt EXCEPT ![w] = "trigger"]
  /\ diskState' = "changed"
  /\ UNCHANGED <<proc, needsFlush, running, readPos, maxId, ioAt, dump, written, file>>

HasRoom_ForOneMore == Len(cache) <= MaxMessages

HasRoom == Len(cache) < MaxMessages

\* A full cache makes save_message return -1 and change nothing.
save_message(w, d) ==
  /\ Idle(w)
  /\ HasRoom
  /\ nextId <= MaxId
  /\ ChangeCache(w, Append(cache, [id |-> nextId, sender |-> d.sender,
                                   subject |-> d.subject, body |-> d.body]))
  /\ nextId' = nextId + 1

\* The first entry with that id and that sender; without one, nothing changes.
delete_message(w, id, user) ==
  /\ Idle(w)
  /\ \E i \in 1 .. Len(cache) :
       /\ cache[i].id = id /\ cache[i].sender = user
       /\ \A j \in 1 .. i - 1 : ~(cache[j].id = id /\ cache[j].sender = user)
       /\ ChangeCache(w, Without(cache, i))
  /\ UNCHANGED nextId

WakeIo_Never == UNCHANGED ioAt

\* pthread_cond_signal(&mq_flush_needed), for which only message_file_thr waits.
WakeIo == ioAt' = IF ioAt = "asleep" THEN "test" ELSE ioAt

SetFlag_UnlessWriting == needsFlush' = (needsFlush \/ ioAt # "write")

SetFlag == needsFlush' = TRUE

trigger_message_flush(w) ==
  /\ proc = "up"
  /\ workerAt[w] = "trigger"
  /\ SetFlag
  /\ WakeIo
  /\ workerAt' = [workerAt EXCEPT ![w] = "idle"]
  /\ UNCHANGED <<proc, cache, nextId, running, readPos, maxId, dump, written, diskState, file>>

\* main calls persistence_shutdown, which clears the flag under both mutexes and
\* signals.  The join that follows waits for ioAt = "exited".
persistence_shutdown ==
  /\ proc = "up"
  /\ running
  /\ running' = FALSE
  /\ WakeIo
  /\ UNCHANGED <<proc, cache, nextId, needsFlush, workerAt, readPos, maxId, dump, written, diskState, file>>

-------------------------------------------------------------------------------
(* message_file_thr. *)

IoAtStep(step) == proc = "up" /\ ioAt = step

\* A flush that fails is given up; nothing sets the flag again.  What is left of
\* the temporary file is never read: the next fopen truncates it.
FlushOver(state) ==
  /\ ioAt' = "test"
  /\ dump' = <<>>
  /\ written' = 0
  /\ diskState' = state

GiveUp == FlushOver("failed") /\ UNCHANGED file

IoTests ==
  /\ IoAtStep("test")
  /\ \/ needsFlush /\ needsFlush' = FALSE /\ ioAt' = "snapshot"
     \/ ~needsFlush /\ running /\ ioAt' = "asleep" /\ UNCHANGED needsFlush
     \/ ~needsFlush /\ ~running /\ ioAt' = "exited" /\ UNCHANGED needsFlush
  /\ UNCHANGED <<proc, cache, nextId, running, workerAt, readPos, maxId, dump, written, diskState, file>>

\* pthread_cond_wait may return without a signal.
IoWakes ==
  /\ IoAtStep("asleep")
  /\ ioAt' = "test"
  /\ UNCHANGED <<proc, cache, nextId, needsFlush, running, workerAt, readPos, maxId, dump, written, diskState, file>>

\* The copy under msg_mutex, after which fopen creates or truncates the temporary
\* file, which no one else touches.  malloc or fopen may fail.
IoCopies ==
  /\ IoAtStep("snapshot")
  /\ \/ dump' = cache /\ written' = 0 /\ ioAt' = "write" /\ UNCHANGED <<diskState, file>>
     \/ GiveUp
  /\ UNCHANGED <<proc, cache, nextId, needsFlush, running, workerAt, readPos, maxId>>

\* One fprintf.  After an error the temporary file is closed and removed.
IoWrites ==
  /\ IoAtStep("write")
  /\ written < Len(dump)
  /\ \/ written' = written + 1 /\ UNCHANGED <<ioAt, dump, diskState, file>>
     \/ GiveUp
  /\ UNCHANGED <<proc, cache, nextId, needsFlush, running, workerAt, readPos, maxId>>

FullyWritten_OrPartly == written <= Len(dump)

FullyWritten == written = Len(dump)

\* fclose and, if it reports no error, rename, which may fail too.
IoReplaces ==
  /\ IoAtStep("write")
  /\ FullyWritten
  /\ \/ file' = SubSeq(dump, 1, written) /\ FlushOver("changed")
     \/ GiveUp
  /\ UNCHANGED <<proc, cache, nextId, needsFlush, running, workerAt, readPos, maxId>>

IoThread == IoTests \/ IoCopies \/ IoWrites \/ IoReplaces

-------------------------------------------------------------------------------
(* The end of the process and the next start. *)

\* A crash, or the exit of main.
ProcessEnds ==
  /\ proc # "down"
  /\ proc' = "down"
  /\ needsFlush' = FALSE
  /\ running' = TRUE
  /\ workerAt' = [w \in Workers |-> "idle"]
  /\ readPos' = 1
  /\ maxId' = 0
  /\ ioAt' = "test"
  /\ dump' = <<>>
  /\ written' = 0
  /\ diskState' = "loaded"
  /\ cache' = <<>>
  /\ nextId' = 1
  /\ UNCHANGED file

\* persistence_init begins.
ProcessStarts ==
  /\ proc = "down"
  /\ proc' = "loading"
  /\ UNCHANGED <<cache, nextId, needsFlush, running, workerAt, readPos, maxId, ioAt, dump, written, diskState, file>>

HighestWith_TheFirst(id) == IF maxId = 0 THEN id ELSE maxId

HighestWith(id) == IF id > maxId THEN id ELSE maxId

\* One turn of the loop around fgets.
LoadLine ==
  /\ proc = "loading"
  /\ HasRoom
  /\ readPos <= Len(file)
  /\ readPos' = readPos + 1
  /\ LET line == file[readPos]
     IN  IF Readable(line)
         THEN /\ cache' = Append(cache, ReadBack(line))
              /\ maxId' = HighestWith(line.id)
         ELSE UNCHANGED <<cache, maxId>>
  /\ UNCHANGED <<proc, nextId, needsFlush, running, workerAt, ioAt, dump, written, diskState, file>>

\* The file is at its end, or cannot be opened or read further.  The threads start.
Serve ==
  /\ proc' = "up"
  /\ nextId' = maxId + 1
  /\ readPos' = 1
  /\ maxId' = 0
  /\ UNCHANGED <<cache, needsFlush, running, workerAt, ioAt, dump, written, diskState, file>>

LoadEnds ==
  /\ proc = "loading"
  /\ readPos > Len(file) \/ Len(cache) = MaxMessages
  /\ Serve

LoadFails ==
  /\ proc = "loading"
  /\ readPos <= Len(file)
  /\ Serve

persistence_init == ProcessStarts \/ LoadLine \/ LoadEnds \/ LoadFails

-------------------------------------------------------------------------------
Next ==
  \/ \E w \in Workers, d \in Drafts : save_message(w, d)
  \/ \E w \in Workers, id \in 1 .. MaxId, d \in Drafts : delete_message(w, id, d.sender)
  \/ \E w \in Workers : trigger_message_flush(w)
  \/ persistence_shutdown
  \/ IoThread
  \/ IoWakes
  \/ ProcessEnds
  \/ persistence_init

\* Threads that can run are scheduled.
Fairness ==
  /\ WF_vars(IoThread)
  /\ \A w \in Workers : WF_vars(trigger_message_flush(w))

Spec == Init /\ [][Next]_vars /\ Fairness

-------------------------------------------------------------------------------
(* Properties *)

\* No two messages on the board, or in the file, have the same number, and they
\* stand in the order of their numbers: delete_message finds the one it is asked for.
UniqueIds ==
  /\ Ascending(cache)
  /\ Ascending(file)
  /\ proc = "up" => \A k \in 1 .. Len(cache) : cache[k].id < nextId

TriggerDue == \E w \in Workers : workerAt[w] = "trigger"

\* No change is forgotten: if memory and file differ and no flush has failed since
\* the last change, then a flush is asked for, about to be asked for, about to
\* copy the cache, or under way with this very cache.
NoLostFlush ==
  proc = "up" /\ diskState = "changed" /\ cache # file =>
    \/ needsFlush
    \/ TriggerDue
    \/ ioAt = "snapshot"
    \/ ioAt = "write" /\ dump = cache

\* The thread does not sleep through a request or through the shutdown.
IoSleepsOnlyIfIdle == ioAt = "asleep" => ~needsFlush /\ running

\* What the proof of the three above needs besides them.  While the file is being
\* loaded, the lines still to come have higher numbers than those in the cache; a
\* copy that has been overtaken by a change has the next flush due; and nothing
\* moves while the process is down or loading.
LoadingInOrder ==
  proc = "loading" =>
    \A k \in 1 .. Len(cache) :
      /\ cache[k].id <= maxId
      /\ \A j \in readPos .. Len(file) : cache[k].id < file[j].id

CopyIsCurrent ==
  /\ Ascending(dump)
  /\ ioAt = "write" => dump = cache \/ needsFlush \/ TriggerDue

OnlyUpMoves ==
  /\ proc # "up" => ioAt = "test" /\ diskState = "loaded"
  /\ proc = "down" => cache = <<>>

\* What the proof that the store implements Board needs besides IInv: the lines before
\* readPos have been loaded, all of them and in their order.
LoadedSoFar ==
  /\ proc = "down" => readPos = 1
  /\ proc = "loading" => readPos <= Len(file) + 1 /\ Loads(cache, file, readPos - 1)

IInv ==
  /\ TypeOK
  /\ UniqueIds
  /\ NoLostFlush
  /\ IoSleepsOnlyIfIdle
  /\ LoadingInOrder
  /\ CopyIsCurrent
  /\ OnlyUpMoves

\* The file is only ever replaced as a whole by a state the board was in,
\* whatever fails and wherever the process dies.
BoardOfStore ==
  INSTANCE Board WITH
    Capacity <- MaxMessages,
    Ids <- 1 .. MaxId,
    up <- proc = "up",
    board <- IF proc = "up" THEN cache ELSE <<>>,
    copy <- IF proc = "up" /\ ioAt = "write" THEN dump ELSE <<>>,
    saved <- file

ImplementsBoard == BoardOfStore!Spec

\* For the workers and for main, message_file_thr is a thread that does what it is
\* asked for: every change is followed by a dump begun after it, however the flag, the
\* sleep and the wakeups fall, and after persistence_shutdown it ends, if changes do.
WriterOfStore ==
  INSTANCE Writer WITH
    Limit <- 1,
    up <- proc = "up",
    asked <- IF needsFlush THEN 1 ELSE 0,
    busy <- ioAt \in {"snapshot", "write"},
    ended <- ioAt = "exited"

ImplementsWriter == WriterOfStore!Spec

Quiet == \A w \in Workers : workerAt[w] = "idle"

\* Once nobody writes any more to a store that is not shut down, the file catches
\* up with the board, unless the last flush failed.
QuietSaves ==
  <>[](proc = "up" /\ running /\ Quiet) =>
    <>[](diskState = "failed" \/ diskState = "loaded" \/ file = cache)
===============================================================================
