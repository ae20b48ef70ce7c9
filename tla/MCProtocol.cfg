\* Two clients; one comes, goes and loses its connection at any point, the other stays.
\* One account, which both may use, and two names to try; two texts, so that a number
\* given twice would show.
CONSTANTS
  Conns = {c1, c2}
  Usernames = {ann, bob}
  Passwords = {pw}
  Texts = {t, u}
  Written = {t, u}
  NoName = NoName
  MaxUsers = 1
  MaxMessages = 1
  MaxId = 2
  MaxInFlight = 2
  Lasting = {c2}
SPECIFICATION Spec
INVARIANTS
  OneAnswerDue
  ViewsAgree
  SeenKeepsItsNumber
