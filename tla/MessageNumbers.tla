---------------------------- MODULE MessageNumbers ----------------------------
(***************************************************************************)
(* MessageStore with a history of the numbers save_message has given, for  *)
(* a server that is only ever stopped cleanly: persistence_shutdown has    *)
(* flushed everything and no flush has failed.                             *)
(***************************************************************************)
EXTENDS MessageStore

VARIABLE given  \* the numbers given since the very first start

CleanlyStopped ==
  /\ ioAt = "exited"
  /\ Quiet
  /\ diskState # "failed"
  /\ file = cache

HistoryInit == Init /\ given = {}

HistoryNext ==
  /\ Next
  /\ ProcessEnds => CleanlyStopped
  /\ given' = IF Len(cache') > Len(cache) /\ proc = "up" THEN given \cup {nextId} ELSE given

HistorySpec == HistoryInit /\ [][HistoryNext]_<<vars, given>>

\* protocol.h: message_id is the unique id of the message.  The code gives the
\* number of a deleted newest message to another one after a restart.
NumbersAreGivenOnce ==
  [][\A w \in Workers, d \in Drafts : save_message(w, d) => nextId \notin given]_<<vars, given>>
===============================================================================
