\* Refuted: a client queued, or not yet registered, when the sweep passes holds up the exit.
CONSTANTS
  Sockets = {s1, s2}
  Workers = {w1, w2}
  QueueSize = 1
  NoSocket = NoSocket
SPECIFICATION Spec
PROPERTIES
  ShutdownEndsUnaided
