\* Refuted: a signal between the test of keep_running and accept interrupts nothing.
CONSTANTS
  Sockets = {s1, s2}
  Workers = {w1, w2}
  QueueSize = 1
  NoSocket = NoSocket
SPECIFICATION Spec
PROPERTIES
  SignalInterruptsAccept
