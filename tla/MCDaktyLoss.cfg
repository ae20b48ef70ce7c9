\* Refuted: workers go on serving after the I/O threads have ended.
CONSTANTS
  Sockets = {s1}
  Workers = {w1}
  QueueSize = 1
  NoSocket = NoSocket
  Words <- MCWords
  Requests <- MCOneRequest
  NoUser = NoUser
  MaxUsers = 1
  WriteQueueSize = 1
  MaxWords = 1
  Pieces <- MCPieces
  Drafts <- MCDrafts
  MaxMessages = 1
  MaxId = 1
SPECIFICATION Spec
INVARIANT ShutdownSavesAll
