\* One connection, used by one client after the other: the sessions' steps touch the
\* shared caches one at a time, and MCProtocol.cfg has two connections at once.  Two
\* accounts, so that a message can be another's, and a board of two messages, whose texts do
\* not matter here. A request may be sent behind another, or before the reply is read.
CONSTANTS
  Conns = {c1}
  Usernames = {ann, bob}
  Passwords = {pw}
  Texts = {text}
  Written = {text}
  NoName = NoName
  MaxUsers = 2
  MaxMessages = 2
  MaxId = 3
  MaxInFlight = 2
SPECIFICATION Spec
INVARIANTS
  TypeOK
  FramesInStep
  SenderHasAccount
PROPERTIES
  DeletedByItsSender
  SessionEnds
