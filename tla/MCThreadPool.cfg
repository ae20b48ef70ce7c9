\* Three workers and a queue of three, so that main can block on a full queue while
\* a worker sleeps, and the queue wraps. Sockets may be submitted again.
CONSTANTS
  Sockets = {s1, s2}
  Workers = {w1, w2, w3}
  QueueSize = 3
  NoSocket = NoSocket
SPECIFICATION Spec
INVARIANTS
  TypeOK
  RingIsSound
  NoSleeperOwedWork
  ShutdownWakesAll
PROPERTIES
  ImplementsTaskQueue
  SubmitReturns
  WorkersTerminate
