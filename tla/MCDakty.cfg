\* One worker, and one descriptor that can be queued, served or free when the sweep passes;
\* two accounts for a write queue of one, so that one can be lost; two message numbers, so
\* that one message can be replaced by another while the thread is still busy with the first.
\* Several workers at once are in MCMessageStore.cfg, MCUserStore.cfg and MCServer.cfg.
CONSTANTS
  Sockets = {s1}
  Workers = {w1}
  QueueSize = 1
  NoSocket = NoSocket
  Words <- MCWords
  Requests <- MCRequests
  NoUser = NoUser
  MaxUsers = 2
  WriteQueueSize = 1
  MaxWords = 3
  Pieces <- MCPieces
  Drafts <- MCDrafts
  MaxMessages = 1
  MaxId = 2
SPECIFICATION Spec
INVARIANTS
  TypeOK
  AnsweredIsSaved
PROPERTIES
  ShutdownEnds
