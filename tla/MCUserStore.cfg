\* Two workers and a write queue of two: the three names can fill it before the thread
\* takes one, and the third account is then dropped. The file holds no more words than
\* three when the last accounts are registered, so there are restarts from a file that
\* is empty, whole, or cut in the middle of a line.
CONSTANTS
  Workers = {w1, w2}
  Words <- MCWords
  Requests <- MCRequests
  NoUser = NoUser
  MaxUsers = 3
  WriteQueueSize = 2
  MaxWords = 3
SPECIFICATION Spec
INVARIANTS
  TypeOK
  QueueIsSound
  IoSleepsOnlyIfIdle
  EveryAccountIsSomewhere
  NameIsTakenOnce
PROPERTIES
  ImplementsLog
  ImplementsWriter
