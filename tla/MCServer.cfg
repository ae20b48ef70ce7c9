\* Two workers and a queue of one: with four descriptors main can hold one socket
\* more than fit, so pool_submit blocks for as long as both workers are serving.
CONSTANTS
  Sockets = {s1, s2, s3, s4}
  Workers = {w1, w2}
  QueueSize = 1
  NoSocket = NoSocket
SPECIFICATION Spec
INVARIANTS
  TypeOK
  OneOwner
  ActiveIsServed
  NothingLeftAtExit
PROPERTIES
  ImplementsPool
  SweepFreesServing
  AcceptedIsServed
  SignalEndsServer
