-------------------------- MODULE MessageStoreProofs --------------------------
(***************************************************************************)
(* The invariants of MessageStore for any number of writers, any messages  *)
(* and any size of the board.                                              *)
(***************************************************************************)
EXTENDS MessageStore, SequenceTheorems, TLAPS

(* Lemmas on the operators of MessageFile. *)

\* A message numbered above all others keeps the order when appended.
LEMMA AppendAscends ==
  ASSUME NEW seq \in Seq(Message), NEW m \in Message, Ascending(seq),
         \A k \in 1 .. Len(seq) : seq[k].id < m.id
  PROVE  Ascending(Append(seq, m))
<1> DEFINE new == Append(seq, m)
<1>1. /\ Len(new) = Len(seq) + 1 /\ Len(seq) \in Nat
      /\ \A k \in 1 .. Len(seq) : new[k] = seq[k]
      /\ new[Len(seq) + 1] = m
  BY AppendProperties, LenProperties
<1> HIDE DEF new
<1>2. SUFFICES ASSUME NEW i \in 1 .. Len(new), NEW j \in 1 .. Len(new), i < j
               PROVE  new[i].id < new[j].id
  BY DEF Ascending, new
<1>3. i \in 1 .. Len(seq)
  BY <1>1, <1>2
<1>4. CASE j \in 1 .. Len(seq)
  BY <1>1, <1>2, <1>3, <1>4 DEF Ascending
<1>5. CASE j = Len(seq) + 1
  BY <1>1, <1>3, <1>5
<1>6. QED
  BY <1>1, <1>4, <1>5

\* What delete_message leaves: every other entry, one place nearer the front if
\* it stood behind.
LEMMA WithoutFacts ==
  ASSUME NEW S, NEW seq \in Seq(S), NEW i \in 1 .. Len(seq)
  PROVE  /\ Without(seq, i) \in Seq(S)
         /\ Len(Without(seq, i)) = Len(seq) - 1
         /\ \A k \in 1 .. Len(seq) - 1 :
              Without(seq, i)[k] = IF k < i THEN seq[k] ELSE seq[k + 1]
<1>1. Len(seq) \in Nat /\ Len(seq) >= 1
  BY LenProperties
<1>2. \A k \in 1 .. Len(seq) - 1 : (IF k < i THEN seq[k] ELSE seq[k + 1]) \in S
  BY <1>1, ElementOfSeq
<1>3. QED
  BY <1>1, <1>2 DEF Without

\* The order survives a deletion.
LEMMA WithoutAscends ==
  ASSUME NEW seq \in Seq(Message), NEW i \in 1 .. Len(seq), Ascending(seq)
  PROVE  Ascending(Without(seq, i))
<1> DEFINE new == Without(seq, i)
           Old(k) == IF k < i THEN k ELSE k + 1
<1>1. Len(seq) \in Nat /\ Len(new) = Len(seq) - 1
  BY WithoutFacts, LenProperties
<1>2. \A k \in 1 .. Len(new) : new[k] = seq[Old(k)] /\ Old(k) \in 1 .. Len(seq)
  <2> TAKE k \in 1 .. Len(new)
  <2>1. k \in 1 .. Len(seq) - 1
    BY <1>1
  <2>2. new[k] = IF k < i THEN seq[k] ELSE seq[k + 1]
    BY <2>1, WithoutFacts
  <2>3. Old(k) \in 1 .. Len(seq)
    BY <1>1, <2>1
  <2>4. QED
    BY <2>2, <2>3
<1>3. \A j, k \in 1 .. Len(new) : j < k => Old(j) < Old(k)
  BY <1>1
<1> HIDE DEF new, Old
<1>4. ASSUME NEW j \in 1 .. Len(new), NEW k \in 1 .. Len(new), j < k
      PROVE  new[j].id < new[k].id
  BY <1>2, <1>3, <1>4 DEF Ascending
<1>5. QED
  BY <1>4 DEF Ascending, new

\* A line that is loaded gives a message with the number it had.
LEMMA ReadBackType ==
  ASSUME NEW m \in Message, Readable(m)
  PROVE  ReadBack(m) \in Message /\ ReadBack(m).id = m.id
<1>1. m.sender \in Seq(Pieces) /\ m.subject \in Seq(Pieces) /\ m.body \in Seq(Pieces)
  BY DEF Message
<1>2. Tokens(m) \in Seq(Pieces)
  BY <1>1, ConcatProperties DEF Tokens
<1>3. Tokens(m)[1] \in Pieces /\ Tokens(m)[2] \in Pieces /\ Tokens(m)[3] \in Pieces
  <2>1. Len(Tokens(m)) \in Nat /\ Len(Tokens(m)) >= 3
    BY <1>2, LenProperties DEF Readable
  <2>2. 1 \in 1 .. Len(Tokens(m)) /\ 2 \in 1 .. Len(Tokens(m)) /\ 3 \in 1 .. Len(Tokens(m))
    BY <2>1
  <2>3. QED
    BY <1>2, <2>2, ElementOfSeq
<1>4. <<Tokens(m)[1]>> \in Seq(Pieces) /\ <<Tokens(m)[2]>> \in Seq(Pieces) /\ <<Tokens(m)[3]>> \in Seq(Pieces)
  BY <1>3
<1>5. QED
  BY <1>4 DEF ReadBack, Message

-------------------------------------------------------------------------------
\* A store with nothing on the board and nothing in its file, as before the first start
\* and just after it.
NothingYet ==
  /\ proc \in {"down", "up"}
  /\ cache = <<>> /\ nextId = 1
  /\ needsFlush = FALSE /\ running = TRUE
  /\ workerAt = [w \in Workers |-> "idle"]
  /\ readPos = 1 /\ maxId = 0
  /\ ioAt = "test" /\ dump = <<>> /\ written = 0
  /\ file = <<>> /\ diskState = "loaded"

LEMMA InitIsNothingYet == Init => NothingYet
BY DEF Init, NothingYet

\* There nothing is to be done.
LEMMA InitInv == NothingYet => IInv
<1> SUFFICES ASSUME NothingYet PROVE IInv
  OBVIOUS
<1> USE DEF NothingYet
<1>1. TypeOK
  <2>1. <<>> \in Seq(Message) /\ Len(<<>>) = 0
    BY EmptySeq
  <2>2. /\ nextId \in 1 .. MaxId + 1 /\ maxId \in 0 .. MaxId
        /\ readPos \in Nat \ {0} /\ 0 <= MaxMessages /\ 0 \in 0 .. 0
    BY StoreAssumption
  <2>3. QED
    BY <2>1, <2>2, Zenon DEF TypeOK, IoStates
<1>2. UniqueIds /\ CopyIsCurrent
  BY DEF UniqueIds, CopyIsCurrent, Ascending
<1>3. NoLostFlush /\ IoSleepsOnlyIfIdle /\ LoadingInOrder /\ OnlyUpMoves
  BY DEF NoLostFlush, IoSleepsOnlyIfIdle, LoadingInOrder, OnlyUpMoves
<1>4. QED
  BY <1>1, <1>2, <1>3 DEF IInv

-------------------------------------------------------------------------------
(* The worker threads. *)

\* A change of the cache that keeps it in order leaves a trigger due.
LEMMA ChangeStep ==
  ASSUME IInv, NEW w \in Workers, Idle(w), NEW new \in Seq(Message),
         ChangeCache(w, new), Len(new) <= MaxMessages, Ascending(new),
         nextId' \in 1 .. MaxId + 1, \A k \in 1 .. Len(new) : new[k].id < nextId'
  PROVE  IInv'
<1>1. /\ proc = "up" /\ cache' = new /\ diskState' = "changed"
      /\ workerAt' = [workerAt EXCEPT ![w] = "trigger"]
      /\ UNCHANGED <<proc, needsFlush, running, readPos, maxId, ioAt, dump, written, file>>
  BY DEF ChangeCache, Idle
<1>2. TypeOK'
  BY <1>1 DEF IInv, TypeOK
<1>3. TriggerDue'
  BY <1>1 DEF IInv, TypeOK, TriggerDue
<1>4. UniqueIds'
  BY <1>1 DEF IInv, UniqueIds, Ascending
<1>5. NoLostFlush'
  BY <1>3 DEF NoLostFlush
<1>6. IoSleepsOnlyIfIdle' /\ LoadingInOrder' /\ OnlyUpMoves'
  BY <1>1 DEF IInv, IoSleepsOnlyIfIdle, LoadingInOrder, OnlyUpMoves
<1>7. CopyIsCurrent'
  BY <1>1, <1>3 DEF IInv, CopyIsCurrent, Ascending
<1>8. QED
  BY <1>2, <1>4, <1>5, <1>6, <1>7 DEF IInv

\* save_message numbers the new entry above all others.
LEMMA SaveStep ==
  ASSUME IInv, NEW w \in Workers, NEW d \in Drafts, save_message(w, d)
  PROVE  IInv'
<1> DEFINE m == [id |-> nextId, sender |-> d.sender, subject |-> d.subject, body |-> d.body]
           new == Append(cache, m)
<1>1. /\ Idle(w) /\ Len(cache) < MaxMessages /\ nextId <= MaxId
      /\ ChangeCache(w, new) /\ nextId' = nextId + 1
  BY DEF save_message, HasRoom
<1>2. /\ cache \in Seq(Message) /\ Len(cache) \in Nat
      /\ nextId \in 1 .. MaxId /\ MaxId \in Nat /\ MaxMessages \in Nat
  BY <1>1, StoreAssumption, LenProperties DEF IInv, TypeOK
<1>3. m \in Message
  BY <1>2, StoreAssumption DEF Message
<1>4. \A k \in 1 .. Len(cache) : cache[k].id < nextId
  BY <1>1 DEF IInv, UniqueIds, Idle
<1>5. /\ new \in Seq(Message) /\ Len(new) = Len(cache) + 1
      /\ \A k \in 1 .. Len(cache) : new[k] = cache[k]
      /\ new[Len(cache) + 1] = m
  BY <1>2, <1>3, AppendProperties
<1>6. Ascending(new)
  BY <1>2, <1>3, <1>4, AppendAscends DEF IInv, UniqueIds
<1>7. \A k \in 1 .. Len(new) : new[k].id < nextId'
  <2> TAKE k \in 1 .. Len(new)
  <2>1. CASE k \in 1 .. Len(cache)
    <3>1. cache[k] \in Message
      BY <1>2, <2>1, ElementOfSeq
    <3>2. cache[k].id \in Nat /\ nextId \in Nat
      BY <1>2, <3>1 DEF Message
    <3>3. QED
      BY <1>1, <1>4, <1>5, <2>1, <3>2
  <2>2. CASE k = Len(cache) + 1
    BY <1>1, <1>2, <1>5, <2>2
  <2>3. QED
    BY <1>2, <1>5, <2>1, <2>2
<1>8. nextId' \in 1 .. MaxId + 1 /\ Len(new) <= MaxMessages
  BY <1>1, <1>2, <1>5
<1> HIDE DEF new
<1>9. QED
  BY <1>1, <1>5, <1>6, <1>7, <1>8, ChangeStep

\* delete_message closes the gap and keeps the order.
LEMMA DeleteStep ==
  ASSUME IInv, NEW w \in Workers, NEW id, NEW user, delete_message(w, id, user)
  PROVE  IInv'
<1>1. PICK i \in 1 .. Len(cache) : ChangeCache(w, Without(cache, i))
  BY DEF delete_message
<1> DEFINE new == Without(cache, i)
<1>2. Idle(w) /\ nextId' = nextId
  BY DEF delete_message
<1>3. cache \in Seq(Message) /\ Len(cache) \in Nat /\ Len(cache) <= MaxMessages /\ MaxMessages \in Nat
  BY StoreAssumption, LenProperties DEF IInv, TypeOK
<1>4. /\ new \in Seq(Message) /\ Len(new) = Len(cache) - 1
      /\ \A k \in 1 .. Len(cache) - 1 : new[k] = IF k < i THEN cache[k] ELSE cache[k + 1]
  BY <1>3, WithoutFacts
<1>5. Ascending(new)
  BY <1>3, WithoutAscends DEF IInv, UniqueIds
<1>6. \A k \in 1 .. Len(cache) : cache[k].id < nextId
  BY <1>2 DEF IInv, UniqueIds, Idle
<1> HIDE DEF new
<1>7. \A k \in 1 .. Len(new) : new[k].id < nextId'
  <2> TAKE k \in 1 .. Len(new)
  <2>1. k \in 1 .. Len(cache) /\ k + 1 \in 1 .. Len(cache) /\ k \in 1 .. Len(cache) - 1
    BY <1>3, <1>4
  <2>2. new[k] = cache[k] \/ new[k] = cache[k + 1]
    BY <1>4, <2>1
  <2>3. QED
    BY <1>2, <1>6, <2>1, <2>2
<1>8. nextId' \in 1 .. MaxId + 1 /\ Len(new) <= MaxMessages
  BY <1>2, <1>3, <1>4 DEF IInv, TypeOK
<1>9. QED
  BY <1>1, <1>2, <1>4, <1>5, <1>7, <1>8, ChangeStep DEF new

\* trigger_message_flush turns the trigger that was due into the flag, and
\* persistence_shutdown clears running; both wake the thread.
LEMMA WakeStep ==
  ASSUME IInv, (\E w \in Workers : trigger_message_flush(w)) \/ persistence_shutdown
  PROVE  IInv'
<1>1. /\ proc = "up"
      /\ ioAt' = IF ioAt = "asleep" THEN "test" ELSE ioAt
      /\ UNCHANGED <<proc, cache, nextId, readPos, maxId, dump, written, diskState, file>>
      /\ running' \in BOOLEAN
      /\ workerAt' \in [Workers -> {"idle", "trigger"}]
      /\ \/ needsFlush' = TRUE
         \/ needsFlush' = needsFlush /\ workerAt' = workerAt
  BY DEF trigger_message_flush, SetFlag, persistence_shutdown, WakeIo, IInv, TypeOK
<1>2. TypeOK'
  BY <1>1 DEF IInv, TypeOK, IoStates
<1>3. UniqueIds' /\ LoadingInOrder' /\ OnlyUpMoves'
  BY <1>1 DEF IInv, UniqueIds, LoadingInOrder, OnlyUpMoves, Ascending
<1>4. NoLostFlush'
  BY <1>1 DEF IInv, NoLostFlush, TriggerDue
<1>5. IoSleepsOnlyIfIdle'
  BY <1>1 DEF IoSleepsOnlyIfIdle
<1>6. CopyIsCurrent'
  BY <1>1 DEF IInv, CopyIsCurrent, TriggerDue, Ascending
<1>7. QED
  BY <1>2, <1>3, <1>4, <1>5, <1>6 DEF IInv

-------------------------------------------------------------------------------
(* message_file_thr. *)

\* The test of the flag: taking the flag down leads to "snapshot", and without it
\* the thread sleeps or ends.
LEMMA TestStep ==
  ASSUME IInv, IoTests \/ IoWakes
  PROVE  IInv'
<1>1. /\ proc = "up" /\ ioAt # "snapshot" /\ ioAt # "write"
      /\ UNCHANGED <<proc, cache, nextId, running, workerAt, readPos, maxId, dump, written, diskState, file>>
      /\ \/ needsFlush' = FALSE /\ ioAt' = "snapshot"
         \/ ~needsFlush /\ running /\ needsFlush' = needsFlush /\ ioAt' = "asleep"
         \/ needsFlush' = needsFlush /\ ioAt' \in {"exited", "test"}
  BY DEF IoTests, IoWakes, IoAtStep
<1>2. TypeOK'
  BY <1>1 DEF IInv, TypeOK, IoStates
<1>3. UniqueIds' /\ LoadingInOrder' /\ OnlyUpMoves'
  BY <1>1 DEF IInv, UniqueIds, LoadingInOrder, OnlyUpMoves, Ascending
<1>4. NoLostFlush'
  BY <1>1 DEF IInv, NoLostFlush, TriggerDue
<1>5. IoSleepsOnlyIfIdle'
  BY <1>1 DEF IoSleepsOnlyIfIdle
<1>6. CopyIsCurrent'
  BY <1>1 DEF IInv, CopyIsCurrent, Ascending
<1>7. QED
  BY <1>2, <1>3, <1>4, <1>5, <1>6 DEF IInv

\* The end of a flush leaves an empty copy and, if it failed, nothing to show.
LEMMA FlushOverStep ==
  ASSUME IInv, proc = "up", NEW state \in {"changed", "failed"}, FlushOver(state),
         UNCHANGED <<proc, cache, nextId, needsFlush, running, workerAt, readPos, maxId>>,
         file' \in Seq(Message), Len(file') <= MaxMessages, Ascending(file'),
         \/ state = "failed"
         \/ file' = cache \/ needsFlush \/ TriggerDue
  PROVE  IInv'
<1>1. ioAt' = "test" /\ dump' = <<>> /\ written' = 0 /\ diskState' = state
  BY DEF FlushOver
<1>2. dump' \in Seq(Message) /\ Len(dump') = 0
  BY <1>1, EmptySeq
<1>3. TypeOK'
  <2>1. written' \in 0 .. Len(dump') /\ Len(dump') <= MaxMessages
    BY <1>1, <1>2, StoreAssumption
  <2>2. QED
    BY <1>1, <1>2, <2>1 DEF IInv, TypeOK, IoStates
<1>4. UniqueIds' /\ LoadingInOrder' /\ OnlyUpMoves' /\ IoSleepsOnlyIfIdle'
  BY <1>1 DEF IInv, UniqueIds, LoadingInOrder, OnlyUpMoves, IoSleepsOnlyIfIdle, Ascending
<1>5. NoLostFlush'
  BY <1>1 DEF NoLostFlush, TriggerDue
<1>6. CopyIsCurrent'
  BY <1>1, <1>2 DEF CopyIsCurrent, Ascending
<1>7. QED
  BY <1>3, <1>4, <1>5, <1>6 DEF IInv

\* A flush that fails leaves the file as it was and says so in diskState.
LEMMA GiveUpStep ==
  ASSUME IInv, proc = "up", GiveUp,
         UNCHANGED <<proc, cache, nextId, needsFlush, running, workerAt, readPos, maxId>>
  PROVE  IInv'
<1>1. file' = file /\ FlushOver("failed")
  BY DEF GiveUp
<1>2. file' \in Seq(Message) /\ Len(file') <= MaxMessages /\ Ascending(file')
  BY <1>1 DEF IInv, TypeOK, UniqueIds
<1>3. QED
  BY <1>1, <1>2, FlushOverStep

\* The copy of the cache is current when it is made.
LEMMA CopyStep ==
  ASSUME IInv, IoCopies
  PROVE  IInv'
<1>1. /\ proc = "up" /\ ioAt = "snapshot"
      /\ UNCHANGED <<proc, cache, nextId, needsFlush, running, workerAt, readPos, maxId>>
  BY DEF IoCopies, IoAtStep
<1>2. CASE dump' = cache /\ written' = 0 /\ ioAt' = "write" /\ UNCHANGED <<diskState, file>>
  <2>1. written' \in 0 .. Len(dump')
    BY <1>2, LenProperties DEF IInv, TypeOK
  <2>2. TypeOK'
    BY <1>1, <1>2, <2>1 DEF IInv, TypeOK, IoStates
  <2>3. UniqueIds' /\ LoadingInOrder' /\ OnlyUpMoves' /\ IoSleepsOnlyIfIdle' /\ NoLostFlush'
    BY <1>1, <1>2 DEF IInv, UniqueIds, LoadingInOrder, OnlyUpMoves, IoSleepsOnlyIfIdle,
                      NoLostFlush, Ascending
  <2>4. CopyIsCurrent'
    BY <1>1, <1>2 DEF IInv, UniqueIds, CopyIsCurrent, Ascending
  <2>5. QED
    BY <2>2, <2>3, <2>4 DEF IInv
<1>3. CASE GiveUp
  BY <1>1, <1>3, GiveUpStep
<1>4. QED
  BY <1>2, <1>3 DEF IoCopies

\* A line written to the temporary file disturbs nothing the invariant speaks of.
LEMMA WriteStep ==
  ASSUME IInv, IoWrites
  PROVE  IInv'
<1>1. /\ proc = "up" /\ written < Len(dump)
      /\ UNCHANGED <<proc, cache, nextId, needsFlush, running, workerAt, readPos, maxId>>
  BY DEF IoWrites, IoAtStep
<1>2. CASE written' = written + 1 /\ UNCHANGED <<ioAt, dump, diskState, file>>
  <2>1. written' \in 0 .. Len(dump)
    BY <1>1, <1>2, LenProperties DEF IInv, TypeOK
  <2>2. TypeOK'
    BY <1>1, <1>2, <2>1 DEF IInv, TypeOK
  <2>3. UniqueIds' /\ LoadingInOrder' /\ OnlyUpMoves' /\ IoSleepsOnlyIfIdle'
    BY <1>1, <1>2 DEF IInv, UniqueIds, LoadingInOrder, OnlyUpMoves, IoSleepsOnlyIfIdle, Ascending
  <2>4. NoLostFlush' /\ CopyIsCurrent'
    BY <1>1, <1>2 DEF IInv, NoLostFlush, CopyIsCurrent, TriggerDue, Ascending
  <2>5. QED
    BY <2>2, <2>3, <2>4 DEF IInv
<1>3. CASE GiveUp
  BY <1>1, <1>3, GiveUpStep
<1>4. QED
  BY <1>2, <1>3 DEF IoWrites

\* rename puts the whole copy in place; if the cache has moved on meanwhile, the
\* next flush is due already.
LEMMA ReplaceStep ==
  ASSUME IInv, IoReplaces
  PROVE  IInv'
<1>1. /\ proc = "up" /\ ioAt = "write" /\ written = Len(dump)
      /\ UNCHANGED <<proc, cache, nextId, needsFlush, running, workerAt, readPos, maxId>>
  BY DEF IoReplaces, IoAtStep, FullyWritten
<1>2. CASE file' = SubSeq(dump, 1, written) /\ FlushOver("changed")
  <2>1. file' = dump
    BY <1>1, <1>2, SubSeqFull DEF IInv, TypeOK
  <2>2. file' \in Seq(Message) /\ Len(file') <= MaxMessages /\ Ascending(file')
    BY <2>1 DEF IInv, TypeOK, CopyIsCurrent
  <2>3. file' = cache \/ needsFlush \/ TriggerDue
    BY <1>1, <2>1 DEF IInv, CopyIsCurrent
  <2>4. QED
    BY <1>1, <1>2, <2>2, <2>3, FlushOverStep
<1>3. CASE GiveUp
  BY <1>1, <1>3, GiveUpStep
<1>4. QED
  BY <1>2, <1>3 DEF IoReplaces

-------------------------------------------------------------------------------
(* The end of the process and the next start. *)

\* A crash leaves the file as it is, and it is in order.
LEMMA EndStep ==
  ASSUME IInv, ProcessEnds
  PROVE  IInv'
<1>1. /\ proc' = "down" /\ needsFlush' = FALSE /\ running' = TRUE
      /\ workerAt' = [v \in Workers |-> "idle"]
      /\ readPos' = 1 /\ maxId' = 0 /\ ioAt' = "test" /\ dump' = <<>> /\ written' = 0
      /\ diskState' = "loaded" /\ cache' = <<>> /\ nextId' = 1 /\ file' = file
  BY DEF ProcessEnds
<1>2. <<>> \in Seq(Message) /\ Len(<<>>) = 0
  BY EmptySeq
<1>3. TypeOK'
  <2>1. /\ nextId' \in 1 .. MaxId + 1 /\ maxId' \in 0 .. MaxId
        /\ readPos' \in Nat \ {0} /\ 0 <= MaxMessages /\ 0 \in 0 .. 0
    BY <1>1, StoreAssumption
  <2>2. QED
    BY <1>1, <1>2, <2>1, Zenon DEF IInv, TypeOK, IoStates
<1>4. UniqueIds' /\ CopyIsCurrent'
  BY <1>1, <1>2 DEF IInv, UniqueIds, CopyIsCurrent, Ascending
<1>5. NoLostFlush' /\ IoSleepsOnlyIfIdle' /\ LoadingInOrder' /\ OnlyUpMoves'
  BY <1>1 DEF NoLostFlush, IoSleepsOnlyIfIdle, LoadingInOrder, OnlyUpMoves
<1>6. QED
  BY <1>3, <1>4, <1>5 DEF IInv

\* persistence_init begins with an empty cache.
LEMMA StartStep ==
  ASSUME IInv, ProcessStarts
  PROVE  IInv'
<1>1. /\ proc = "down" /\ proc' = "loading" /\ cache = <<>>
      /\ UNCHANGED <<memory, file>>
  BY DEF ProcessStarts, memory, IInv, OnlyUpMoves
<1>2. TypeOK'
  BY <1>1 DEF memory, IInv, TypeOK
<1>3. LoadingInOrder'
  BY <1>1, EmptySeq DEF memory, LoadingInOrder
<1>4. UniqueIds' /\ NoLostFlush' /\ IoSleepsOnlyIfIdle' /\ CopyIsCurrent' /\ OnlyUpMoves'
  BY <1>1 DEF memory, IInv, UniqueIds, NoLostFlush, IoSleepsOnlyIfIdle, CopyIsCurrent,
              OnlyUpMoves, TriggerDue, Ascending
<1>5. QED
  BY <1>2, <1>3, <1>4 DEF IInv

\* A line is loaded after all those numbered below it.
LEMMA LoadLineStep ==
  ASSUME IInv, LoadLine
  PROVE  IInv'
<1> DEFINE line == file[readPos]
<1>1. /\ proc = "loading" /\ Len(cache) < MaxMessages /\ readPos' = readPos + 1
      /\ readPos \in 1 .. Len(file)
      /\ UNCHANGED <<proc, nextId, needsFlush, running, workerAt, ioAt, dump, written, diskState, file>>
  BY LenProperties DEF LoadLine, HasRoom, HighestWith, IInv, TypeOK
<1>2. /\ cache \in Seq(Message) /\ file \in Seq(Message) /\ line \in Message
      /\ Len(cache) \in Nat /\ Len(file) \in Nat /\ MaxMessages \in Nat /\ MaxId \in Nat
      /\ maxId \in 0 .. MaxId
  BY <1>1, StoreAssumption, ElementOfSeq, LenProperties DEF IInv, TypeOK
<1>3. line.id \in 1 .. MaxId
  BY <1>2 DEF Message
<1>4. \A k \in 1 .. Len(cache) :
        /\ cache[k].id <= maxId
        /\ \A j \in readPos .. Len(file) : cache[k].id < file[j].id
  BY <1>1 DEF IInv, LoadingInOrder
<1>5. ASSUME NEW k \in 1 .. Len(cache)
      PROVE  cache[k].id \in Nat
  <2>1. cache[k] \in Message
    BY <1>2, ElementOfSeq
  <2>2. QED
    BY <2>1 DEF Message
<1>6. /\ cache' \in Seq(Message) /\ Len(cache') <= MaxMessages /\ maxId' \in 0 .. MaxId
      /\ Ascending(cache')
      /\ \A k \in 1 .. Len(cache') :
           /\ cache'[k].id <= maxId'
           /\ \A j \in readPos' .. Len(file) : cache'[k].id < file[j].id
  <2>1. CASE ~Readable(line)
    <3>1. cache' = cache /\ maxId' = maxId
      BY <2>1 DEF LoadLine, HighestWith
    <3>2. \A j \in readPos' .. Len(file) : j \in readPos .. Len(file)
      BY <1>1, <1>2
    <3>3. QED
      BY <1>1, <1>2, <1>4, <3>1, <3>2 DEF IInv, UniqueIds
  <2>2. CASE Readable(line)
    <3> DEFINE m == ReadBack(line)
    <3>1. /\ cache' = Append(cache, m)
          /\ maxId' = IF line.id > maxId THEN line.id ELSE maxId
      BY <2>2 DEF LoadLine, HighestWith
    <3>2. m \in Message /\ m.id = line.id
      BY <1>2, <2>2, ReadBackType
    <3> HIDE DEF m
    <3>3. /\ cache' \in Seq(Message) /\ Len(cache') = Len(cache) + 1
          /\ \A k \in 1 .. Len(cache) : cache'[k] = cache[k]
          /\ cache'[Len(cache) + 1] = m
      BY <1>2, <3>1, <3>2, AppendProperties
    <3>4. \A k \in 1 .. Len(cache) : cache[k].id < m.id
      BY <1>1, <1>4, <3>2
    <3>5. Ascending(cache')
      BY <1>2, <3>1, <3>2, <3>4, AppendAscends DEF IInv, UniqueIds
    <3>6. \A j \in readPos' .. Len(file) : j \in readPos .. Len(file) /\ m.id < file[j].id
      <4> TAKE j \in readPos' .. Len(file)
      <4>1. j \in 1 .. Len(file) /\ readPos < j /\ j \in readPos .. Len(file)
        BY <1>1, <1>2
      <4>2. QED
        BY <1>1, <3>2, <4>1 DEF IInv, UniqueIds, Ascending
    <3>7. maxId' \in 0 .. MaxId /\ m.id <= maxId' /\ maxId <= maxId'
      BY <1>2, <1>3, <3>1, <3>2
    <3>8. ASSUME NEW k \in 1 .. Len(cache')
          PROVE  /\ cache'[k].id <= maxId'
                 /\ \A j \in readPos' .. Len(file) : cache'[k].id < file[j].id
      <4>1. CASE k \in 1 .. Len(cache)
        <5>1. cache'[k] = cache[k] /\ cache[k].id \in Nat /\ cache[k].id <= maxId
          BY <1>4, <1>5, <3>3, <4>1
        <5>2. cache'[k].id <= maxId'
          BY <1>2, <3>7, <5>1
        <5>3. QED
          BY <1>4, <3>6, <4>1, <5>1, <5>2
      <4>2. CASE k = Len(cache) + 1
        BY <3>3, <3>6, <3>7, <4>2
      <4>3. QED
        BY <1>2, <3>3, <4>1, <4>2
    <3>9. QED
      BY <1>1, <1>2, <3>3, <3>5, <3>7, <3>8
  <2>3. QED
    BY <2>1, <2>2
<1>7. TypeOK'
  BY <1>1, <1>2, <1>6 DEF IInv, TypeOK
<1>8. UniqueIds' /\ LoadingInOrder'
  BY <1>1, <1>6 DEF IInv, UniqueIds, LoadingInOrder, Ascending
<1>9. NoLostFlush' /\ IoSleepsOnlyIfIdle' /\ CopyIsCurrent' /\ OnlyUpMoves'
  BY <1>1 DEF IInv, NoLostFlush, IoSleepsOnlyIfIdle, CopyIsCurrent, OnlyUpMoves, Ascending
<1>10. QED
  BY <1>7, <1>8, <1>9 DEF IInv

\* next_message_id = max_id + 1 is above every number loaded.
LEMMA ServeStep ==
  ASSUME IInv, LoadEnds \/ LoadFails
  PROVE  IInv'
<1>1. /\ proc = "loading" /\ proc' = "up" /\ nextId' = maxId + 1 /\ readPos' = 1 /\ maxId' = 0
      /\ UNCHANGED <<cache, needsFlush, running, workerAt, ioAt, dump, written, diskState, file>>
  BY DEF LoadEnds, LoadFails, Serve
<1>2. ioAt = "test" /\ diskState = "loaded"
  BY <1>1 DEF IInv, OnlyUpMoves
<1>3. maxId \in 0 .. MaxId /\ MaxId \in Nat /\ cache \in Seq(Message)
  BY StoreAssumption DEF IInv, TypeOK
<1>4. TypeOK'
  <2>1. nextId' \in 1 .. MaxId + 1 /\ maxId' \in 0 .. MaxId /\ readPos' \in Nat \ {0}
    BY <1>1, <1>3
  <2>2. QED
    BY <1>1, <2>1 DEF IInv, TypeOK
<1>5. \A k \in 1 .. Len(cache) : cache[k].id < nextId'
  <2> TAKE k \in 1 .. Len(cache)
  <2>1. cache[k].id <= maxId
    BY <1>1 DEF IInv, LoadingInOrder
  <2>2. cache[k].id \in Nat
    <3>1. cache[k] \in Message
      BY <1>3, ElementOfSeq
    <3>2. QED
      BY <3>1 DEF Message
  <2>3. QED
    BY <1>1, <1>3, <2>1, <2>2
<1>6. UniqueIds'
  BY <1>1, <1>5 DEF IInv, UniqueIds, Ascending
<1>7. NoLostFlush' /\ IoSleepsOnlyIfIdle' /\ LoadingInOrder' /\ CopyIsCurrent' /\ OnlyUpMoves'
  BY <1>1, <1>2 DEF IInv, NoLostFlush, IoSleepsOnlyIfIdle, LoadingInOrder, CopyIsCurrent,
                    OnlyUpMoves, Ascending
<1>8. QED
  BY <1>4, <1>6, <1>7 DEF IInv

-------------------------------------------------------------------------------
\* Every step keeps the inductive invariant, action by action.
LEMMA StepInv == IInv /\ [Next]_vars => IInv'
<1> SUFFICES ASSUME IInv, [Next]_vars PROVE IInv'
  OBVIOUS
<1>1. CASE UNCHANGED vars
  BY <1>1 DEF vars, memory, IInv, TypeOK, UniqueIds, NoLostFlush, IoSleepsOnlyIfIdle,
              LoadingInOrder, CopyIsCurrent, OnlyUpMoves, TriggerDue, Ascending
<1>2. CASE \E w \in Workers, d \in Drafts : save_message(w, d)
  BY <1>2, SaveStep
<1>3. CASE \E w \in Workers, id \in 1 .. MaxId, d \in Drafts : delete_message(w, id, d.sender)
  BY <1>3, DeleteStep
<1>4. CASE (\E w \in Workers : trigger_message_flush(w)) \/ persistence_shutdown
  BY <1>4, WakeStep
<1>5. CASE IoThread \/ IoWakes
  BY <1>5, TestStep, CopyStep, WriteStep, ReplaceStep DEF IoThread
<1>6. CASE ProcessEnds
  BY <1>6, EndStep
<1>7. CASE persistence_init
  BY <1>7, StartStep, LoadLineStep, ServeStep DEF persistence_init
<1>8. QED
  BY <1>1, <1>2, <1>3, <1>4, <1>5, <1>6, <1>7 DEF Next

\* The inductive invariant of the message store.
THEOREM StoreInvariant == Spec => []IInv
<1>1. QED
  BY InitIsNothingYet, InitInv, StepInv, PTL DEF Spec

\* Types: the board never outgrows message_cache, nor the numbers their bound.
THEOREM TypesAreKept == Spec => []TypeOK
<1>1. IInv => TypeOK
  BY DEF IInv
<1>2. QED
  BY <1>1, StoreInvariant, PTL

\* No two messages on the board or in the file ever have the same number.
THEOREM IdsStayUnique == Spec => []UniqueIds
<1>1. IInv => UniqueIds
  BY DEF IInv
<1>2. QED
  BY <1>1, StoreInvariant, PTL

\* message_file_thr sleeps through neither a request nor the shutdown.
THEOREM IoNeverSleepsThrough == Spec => []IoSleepsOnlyIfIdle
<1>1. IInv => IoSleepsOnlyIfIdle
  BY DEF IInv
<1>2. QED
  BY <1>1, StoreInvariant, PTL

\* No change to the board is forgotten by the flushing thread.
THEOREM NoFlushIsLost == Spec => []NoLostFlush
<1>1. IInv => NoLostFlush
  BY DEF IInv
<1>2. QED
  BY <1>1, StoreInvariant, PTL

-------------------------------------------------------------------------------
(* The store implements Board. *)

\* Reading one more line adds it to the board if it is readable.
LEMMA OneMoreLine ==
  ASSUME NEW board \in Seq(Message), NEW lines \in Seq(Message), NEW n \in 1 .. Len(lines),
         Loads(board, lines, n - 1)
  PROVE  Loads(IF Readable(lines[n]) THEN Append(board, ReadBack(lines[n])) ELSE board, lines, n)
<1>1. PICK at \in [1 .. Len(board) -> 1 .. n - 1] :
        /\ \A i, k \in 1 .. Len(board) : i < k => at[i] < at[k]
        /\ {at[k] : k \in 1 .. Len(board)} = {j \in 1 .. n - 1 : Readable(lines[j])}
        /\ board = [k \in 1 .. Len(board) |-> ReadBack(lines[at[k]])]
  BY DEF Loads
<1>2. /\ Len(board) \in Nat /\ n \in Nat /\ \A j \in 1 .. n : j \in 1 .. n - 1 \/ j = n
      /\ \A k \in 1 .. Len(board) : at[k] \in 1 .. n - 1 /\ at[k] \in 1 .. n /\ at[k] < n
  BY LenProperties
<1>3. CASE ~Readable(lines[n])
  <2>1. at \in [1 .. Len(board) -> 1 .. n]
    BY <1>2
  <2>2. {j \in 1 .. n : Readable(lines[j])} = {j \in 1 .. n - 1 : Readable(lines[j])}
    BY <1>2, <1>3
  <2>3. QED
    BY <1>1, <1>3, <2>1, <2>2 DEF Loads
<1>4. CASE Readable(lines[n])
  <2> DEFINE size == Len(board) + 1
             new == Append(board, ReadBack(lines[n]))
             now == [k \in 1 .. size |-> IF k = size THEN n ELSE at[k]]
  <2>1. /\ Len(new) = size /\ new = [k \in 1 .. size |-> new[k]] /\ new[size] = ReadBack(lines[n])
        /\ \A k \in 1 .. Len(board) : new[k] = board[k]
    <3>1. lines[n] \in Message
      BY ElementOfSeq
    <3>2. new \in Seq(Message) /\ Len(new) = size
      BY <1>4, <3>1, ReadBackType, AppendProperties
    <3>3. new = [k \in 1 .. size |-> new[k]]
      BY <3>2
    <3>4. QED
      BY <1>4, <3>1, <3>2, <3>3, ReadBackType, AppendProperties
  <2>2. size \in Nat /\ \A k \in 1 .. size : k = size \/ k \in 1 .. Len(board)
    BY <1>2
  <2>3. \A k \in 1 .. Len(board) : k \in 1 .. size /\ k # size
    BY <1>2
  <2>4. now \in [1 .. size -> 1 .. n]
    BY <1>2, <2>2
  <2>5. /\ \A k \in 1 .. Len(board) : now[k] = at[k]
        /\ now[size] = n /\ size \in 1 .. size
    BY <1>2, <2>2, <2>3
  <2> HIDE DEF new, now, size
  <2>6. \A i, k \in 1 .. size : i < k => now[i] < now[k]
    <3> SUFFICES ASSUME NEW i \in 1 .. size, NEW k \in 1 .. size, i < k PROVE now[i] < now[k]
      OBVIOUS
    <3>1. i # size
      BY <2>2
    <3>2. QED
      BY <1>1, <1>2, <2>2, <2>5, <3>1
  <2>7. {now[k] : k \in 1 .. size} = {j \in 1 .. n : Readable(lines[j])}
    <3>1. ASSUME NEW k \in 1 .. size PROVE now[k] \in 1 .. n /\ Readable(lines[now[k]])
      <4>1. CASE k = size
        BY <1>4, <2>4, <2>5, <4>1
      <4>2. CASE k \in 1 .. Len(board)
        <5>1. at[k] \in {j \in 1 .. n - 1 : Readable(lines[j])}
          BY <1>1, <4>2
        <5>2. QED
          BY <1>2, <2>5, <4>2, <5>1
      <4>3. QED
        BY <2>2, <4>1, <4>2
    <3>2. ASSUME NEW j \in 1 .. n, Readable(lines[j]) PROVE \E k \in 1 .. size : now[k] = j
      <4>1. CASE j = n
        BY <2>5, <4>1
      <4>2. CASE j \in 1 .. n - 1
        <5>1. PICK k \in 1 .. Len(board) : at[k] = j
          BY <1>1, <3>2, <4>2
        <5>2. k \in 1 .. size /\ now[k] = j
          BY <2>3, <2>5, <5>1
        <5>3. QED
          BY <5>2
      <4>3. QED
        BY <1>2, <4>1, <4>2
    <3>3. QED
      BY <3>1, <3>2
  <2>8. new = [k \in 1 .. size |-> ReadBack(lines[now[k]])]
    <3>1. ASSUME NEW k \in 1 .. size PROVE new[k] = ReadBack(lines[now[k]])
      <4>1. CASE k = size
        BY <2>1, <2>5, <4>1
      <4>2. CASE k \in 1 .. Len(board)
        <5>1. board[k] = ReadBack(lines[at[k]])
          BY <1>1, <4>2
        <5>2. QED
          BY <2>1, <2>5, <4>2, <5>1
      <4>3. QED
        BY <2>2, <4>1, <4>2
    <3>2. QED
      BY <2>1, <3>1
  <2>9. Loads(new, lines, n)
    BY <2>1, <2>4, <2>6, <2>7, <2>8 DEF Loads
  <2>10. QED
    BY <1>4, <2>9 DEF new
<1>5. QED
  BY <1>3, <1>4

\* persistence_init loads the readable lines of the file in their order.
LEMMA StepLoaded == IInv /\ LoadedSoFar /\ [Next]_vars => LoadedSoFar'
<1> SUFFICES ASSUME IInv, LoadedSoFar, [Next]_vars
             PROVE  /\ proc' = "down" => readPos' = 1
                    /\ proc' = "loading" =>
                         readPos' <= Len(file') + 1 /\ Loads(cache', file', readPos' - 1)
  BY DEF LoadedSoFar
<1>1. /\ file \in Seq(Message) /\ Len(file) \in Nat /\ cache \in Seq(Message)
      /\ readPos \in Nat \ {0}
  BY LenProperties DEF IInv, TypeOK
<1>2. CASE ProcessStarts
  <2>1. cache' = <<>> /\ readPos' = 1 /\ file' = file
    <3>1. proc = "down" /\ UNCHANGED <<cache, file, readPos>>
      BY <1>2 DEF ProcessStarts
    <3>2. QED
      BY <3>1 DEF IInv, OnlyUpMoves, LoadedSoFar
  <2>2. Loads(<<>>, file, 0)
    <3>1. Len(<<>>) = 0 /\ 1 .. 0 = {}
      BY EmptySeq
    <3>2. <<>> \in [1 .. 0 -> 1 .. 0] /\ <<>> = [k \in 1 .. 0 |-> ReadBack(file[<<>>[k]])]
      OBVIOUS
    <3>3. QED
      BY <3>1, <3>2 DEF Loads
  <2>3. QED
    BY <1>1, <1>2, <2>1, <2>2 DEF ProcessStarts
<1>3. CASE LoadLine
  <2>1. /\ proc = "loading" /\ proc' = proc /\ readPos \in 1 .. Len(file) /\ readPos' = readPos + 1
        /\ file' = file
        /\ cache' = IF Readable(file[readPos]) THEN Append(cache, ReadBack(file[readPos]))
                                               ELSE cache
    BY <1>1, <1>3 DEF LoadLine
  <2>2. Loads(cache, file, readPos - 1)
    BY <2>1 DEF LoadedSoFar
  <2>3. Loads(cache', file, readPos)
    BY <1>1, <2>1, <2>2, OneMoreLine
  <2>4. QED
    BY <1>1, <2>1, <2>3
<1>4. CASE UNCHANGED <<proc, readPos, file, cache>>
  BY <1>4 DEF LoadedSoFar
<1>5. CASE ProcessEnds \/ proc' = "up"
  BY <1>5 DEF ProcessEnds
<1>6. \/ ProcessStarts \/ LoadLine \/ ProcessEnds \/ proc' = "up"
      \/ UNCHANGED <<proc, readPos, file, cache>>
  <2>1. Next => ProcessStarts \/ LoadLine \/ ProcessEnds \/ proc' = "up"
    BY DEF Next, save_message, delete_message, ChangeCache, Idle, trigger_message_flush,
           persistence_shutdown, IoThread, IoTests, IoWakes, IoCopies, IoWrites, IoReplaces,
           IoAtStep, persistence_init, LoadEnds, LoadFails, Serve
  <2>2. QED
    BY <2>1 DEF vars, memory
<1>7. QED
  BY <1>2, <1>3, <1>4, <1>5, <1>6

\* At the start the board and its file are empty.
LEMMA InitOfBoard == Init => BoardOfStore!Init
BY DEF Init, BoardOfStore!Init

\* A message is posted behind all others and with a higher number.
LEMMA PostOfBoard ==
  ASSUME IInv, NEW w \in Workers, NEW d \in Drafts, save_message(w, d)
  PROVE  BoardOfStore!Post(d, nextId) /\ nextId \in 1 .. MaxId
<1>1. /\ proc = "up" /\ nextId <= MaxId /\ Len(cache) < MaxMessages
      /\ cache' = Append(cache, [id |-> nextId, sender |-> d.sender,
                                 subject |-> d.subject, body |-> d.body])
      /\ UNCHANGED <<proc, ioAt, dump, file>>
  BY DEF save_message, ChangeCache, Idle, HasRoom
<1>2. \A k \in 1 .. Len(cache) : cache[k].id < nextId
  BY <1>1 DEF IInv, UniqueIds
<1>3. nextId \in 1 .. MaxId
  BY <1>1, StoreAssumption DEF IInv, TypeOK
<1>4. QED
  BY <1>1, <1>2, <1>3 DEF BoardOfStore!Post

\* Every step of the store is one of Board's, or nothing that Board speaks of.
LEMMA StepOfBoard ==
  IInv /\ LoadedSoFar /\ [Next]_vars => [BoardOfStore!Next]_(BoardOfStore!boardVars)
<1> SUFFICES ASSUME IInv, LoadedSoFar, [Next]_vars
             PROVE  BoardOfStore!Next \/ UNCHANGED BoardOfStore!boardVars
  OBVIOUS
<1>1. UNCHANGED <<proc, cache, ioAt, dump, file>> => UNCHANGED BoardOfStore!boardVars
  BY DEF BoardOfStore!boardVars
<1>2. ASSUME NEW w \in Workers, NEW d \in Drafts, save_message(w, d) PROVE BoardOfStore!Next
  BY <1>2, PostOfBoard DEF BoardOfStore!Next
<1>3. ASSUME NEW w \in Workers, NEW id, NEW user, delete_message(w, id, user)
      PROVE  BoardOfStore!Next
  <2>1. PICK i \in 1 .. Len(cache) : cache' = Without(cache, i)
    BY <1>3 DEF delete_message, ChangeCache
  <2>2. proc = "up" /\ UNCHANGED <<proc, ioAt, dump, file>>
    BY <1>3 DEF delete_message, ChangeCache, Idle
  <2>3. BoardOfStore!Delete(i)
    BY <2>1, <2>2 DEF BoardOfStore!Delete, BoardOfStore!Without, Without
  <2>4. QED
    BY <2>1, <2>2, <2>3 DEF BoardOfStore!Next
<1>4. CASE (\E w \in Workers : trigger_message_flush(w)) \/ persistence_shutdown \/ IoTests \/ IoWakes
  <2>1. /\ UNCHANGED <<proc, cache, dump, file>>
        /\ (ioAt # "write" /\ ioAt' # "write") \/ ioAt' = ioAt
    BY <1>4 DEF trigger_message_flush, persistence_shutdown, WakeIo, IoTests, IoWakes, IoAtStep
  <2>2. QED
    BY <2>1 DEF BoardOfStore!boardVars
<1>5. CASE IoCopies
  <2>1. proc = "up" /\ ioAt = "snapshot" /\ UNCHANGED <<proc, cache, file>>
    BY <1>5 DEF IoCopies, IoAtStep, GiveUp
  <2>2. \/ dump' = cache /\ ioAt' = "write"
        \/ ioAt' = "test"
    BY <1>5 DEF IoCopies, GiveUp, FlushOver
  <2>3. CASE dump' = cache /\ ioAt' = "write"
    BY <2>1, <2>3 DEF BoardOfStore!Next, BoardOfStore!Copy
  <2>4. CASE ioAt' = "test"
    BY <2>1, <2>4 DEF BoardOfStore!boardVars
  <2>5. QED
    BY <2>2, <2>3, <2>4
<1>6. ASSUME proc = "up", ioAt = "write", GiveUp, UNCHANGED <<proc, cache>>
      PROVE  BoardOfStore!Next
  <2>1. ioAt' = "test" /\ file' = file
    BY <1>6 DEF GiveUp, FlushOver
  <2>2. QED
    BY <1>6, <2>1 DEF BoardOfStore!Next, BoardOfStore!Abandon
<1>7. CASE IoWrites
  <2>1. /\ proc = "up" /\ ioAt = "write" /\ UNCHANGED <<proc, cache>>
        /\ UNCHANGED <<ioAt, dump, file>> \/ GiveUp
    BY <1>7 DEF IoWrites, IoAtStep
  <2>2. QED
    BY <1>1, <1>6, <2>1
<1>8. CASE IoReplaces
  <2>1. /\ proc = "up" /\ ioAt = "write" /\ UNCHANGED <<proc, cache>> /\ written = Len(dump)
        /\ (file' = SubSeq(dump, 1, written) /\ FlushOver("changed")) \/ GiveUp
    BY <1>8 DEF IoReplaces, IoAtStep, FullyWritten
  <2>2. CASE file' = SubSeq(dump, 1, written) /\ FlushOver("changed")
    <3>1. file' = dump /\ ioAt' = "test"
      BY <2>1, <2>2, SubSeqFull DEF FlushOver, IInv, TypeOK
    <3>2. QED
      BY <2>1, <3>1 DEF BoardOfStore!Next, BoardOfStore!Save
  <2>3. QED
    BY <1>6, <2>1, <2>2
<1>9. CASE ProcessEnds
  <2>1. proc' = "down" /\ file' = file
    BY <1>9 DEF ProcessEnds
  <2>2. QED
    BY <2>1 DEF BoardOfStore!Next, BoardOfStore!Stop
<1>10. CASE ProcessStarts \/ LoadLine
  <2>1. proc # "up" /\ proc' # "up" /\ file' = file
    BY <1>10 DEF ProcessStarts, LoadLine
  <2>2. QED
    BY <2>1 DEF BoardOfStore!boardVars
<1>11. CASE LoadEnds \/ LoadFails
  <2>1. /\ proc = "loading" /\ proc' = "up" /\ UNCHANGED <<cache, ioAt, dump, file>>
        /\ ioAt = "test"
    BY <1>11 DEF LoadEnds, LoadFails, Serve, IInv, OnlyUpMoves
  <2>2. /\ Loads(cache, file, readPos - 1)
        /\ readPos - 1 \in 0 .. Len(file)
    BY <2>1, LenProperties DEF LoadedSoFar, IInv, TypeOK
  <2>3. BoardOfStore!Loads(cache, file, readPos - 1)
    BY <2>2 DEF Loads, BoardOfStore!Loads, Readable, BoardOfStore!Readable, ReadBack,
                BoardOfStore!ReadBack, Tokens, BoardOfStore!Tokens
  <2>4. BoardOfStore!Start
    BY <2>1, <2>2, <2>3 DEF BoardOfStore!Start
  <2>5. QED
    BY <2>4 DEF BoardOfStore!Next
<1>12. QED
  BY <1>1, <1>2, <1>3, <1>4, <1>5, <1>7, <1>8, <1>9, <1>10, <1>11
  DEF Next, IoThread, persistence_init, vars, memory

\* The file is only ever replaced as a whole, by a state the board was in, whatever fails and
\* wherever the process dies; and every start reads such a state back.
THEOREM StoreImplementsBoard == Spec => ImplementsBoard
<1>1. Init => LoadedSoFar
  BY DEF Init, LoadedSoFar
<1>2. Spec => []LoadedSoFar
  BY <1>1, StepLoaded, StoreInvariant, PTL DEF Spec
<1>3. QED
  BY <1>2, StoreInvariant, InitOfBoard, StepOfBoard, PTL
  DEF Spec, ImplementsBoard, BoardOfStore!Spec

-------------------------------------------------------------------------------
(* The store has the safety of Writer; that the thread gets round to what it is asked *)
(* for is liveness, and left to model checking. *)

\* Every step of the store is one of Writer's, or nothing that Writer speaks of.
LEMMA StepOfWriter ==
  IInv /\ [Next]_vars => [WriterOfStore!Next]_(WriterOfStore!writerVars)
<1> SUFFICES ASSUME IInv, [Next]_vars
             PROVE  WriterOfStore!Next \/ UNCHANGED WriterOfStore!writerVars
  OBVIOUS
<1>1. needsFlush \in BOOLEAN
  BY DEF IInv, TypeOK
<1>2. UNCHANGED <<proc, running, needsFlush, ioAt>> => UNCHANGED WriterOfStore!writerVars
  BY DEF WriterOfStore!writerVars, WriterOfStore!thread
<1>3. ASSUME NEW w \in Workers, NEW new, ChangeCache(w, new)
      PROVE  UNCHANGED WriterOfStore!writerVars
  BY <1>2, <1>3 DEF ChangeCache
<1>4. ASSUME NEW w \in Workers, trigger_message_flush(w)
      PROVE  WriterOfStore!Next \/ UNCHANGED WriterOfStore!writerVars
  <2>1. /\ proc = "up" /\ needsFlush' = TRUE /\ UNCHANGED <<proc, running>>
        /\ ioAt' = IF ioAt = "asleep" THEN "test" ELSE ioAt
    BY <1>4 DEF trigger_message_flush, SetFlag, WakeIo
  <2>2. CASE needsFlush
    BY <2>1, <2>2 DEF WriterOfStore!writerVars, WriterOfStore!thread
  <2>3. CASE ~needsFlush
    BY <2>1, <2>3 DEF WriterOfStore!Next, WriterOfStore!Ask
  <2>4. QED
    BY <2>2, <2>3
<1>5. CASE persistence_shutdown
  BY <1>5 DEF persistence_shutdown, WakeIo, WriterOfStore!Next, WriterOfStore!TellToEnd,
              WriterOfStore!thread
<1>6. CASE IoTests
  <2>1. proc = "up" /\ ioAt = "test" /\ UNCHANGED <<proc, running>>
    BY <1>6 DEF IoTests, IoAtStep
  <2>2. CASE needsFlush /\ needsFlush' = FALSE /\ ioAt' = "snapshot"
    BY <2>1, <2>2 DEF WriterOfStore!Next, WriterOfStore!Take
  <2>3. CASE ioAt' = "asleep" /\ UNCHANGED needsFlush
    BY <2>1, <2>3 DEF WriterOfStore!writerVars, WriterOfStore!thread
  <2>4. CASE ~needsFlush /\ ~running /\ ioAt' = "exited" /\ UNCHANGED needsFlush
    BY <2>1, <2>4 DEF WriterOfStore!Next, WriterOfStore!End
  <2>5. QED
    BY <1>6, <2>2, <2>3, <2>4 DEF IoTests
<1>7. CASE IoWakes
  BY <1>7 DEF IoWakes, IoAtStep, WriterOfStore!writerVars, WriterOfStore!thread
<1>8. CASE IoCopies \/ IoWrites \/ IoReplaces
  <2>1. /\ proc = "up" /\ ioAt \in {"snapshot", "write"} /\ ioAt' \in {"write", "test", ioAt}
        /\ UNCHANGED <<proc, running, needsFlush>>
    BY <1>8 DEF IoCopies, IoWrites, IoReplaces, IoAtStep, GiveUp, FlushOver
  <2>2. CASE ioAt' = "test"
    BY <2>1, <2>2 DEF WriterOfStore!Next, WriterOfStore!Finish
  <2>3. CASE ioAt' # "test"
    BY <2>1, <2>3 DEF WriterOfStore!writerVars, WriterOfStore!thread
  <2>4. QED
    BY <2>2, <2>3
<1>9. CASE ProcessEnds
  BY <1>9 DEF ProcessEnds, WriterOfStore!Next, WriterOfStore!Stop, WriterOfStore!Fresh
<1>10. CASE ProcessStarts \/ LoadLine
  BY <1>10 DEF ProcessStarts, LoadLine, WriterOfStore!writerVars, WriterOfStore!thread
<1>11. CASE LoadEnds \/ LoadFails
  BY <1>11 DEF LoadEnds, LoadFails, Serve, WriterOfStore!Next, WriterOfStore!Start,
               WriterOfStore!thread
<1>12. QED
  BY <1>2, <1>3, <1>4, <1>5, <1>6, <1>7, <1>8, <1>9, <1>10, <1>11
  DEF Next, save_message, delete_message, IoThread, persistence_init, vars, memory

\* message_file_thr never flushes unasked, never takes up work after it has ended and ends
\* only when told to and with nothing to do.
THEOREM StoreIsAWriter ==
  Spec => WriterOfStore!Init /\ [][WriterOfStore!Next]_(WriterOfStore!writerVars)
<1>1. Init => WriterOfStore!Init
  BY DEF Init, WriterOfStore!Init, WriterOfStore!Fresh
<1>2. QED
  BY <1>1, StepOfWriter, StoreInvariant, PTL DEF Spec
===============================================================================
