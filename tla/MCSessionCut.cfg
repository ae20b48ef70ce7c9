CONSTANTS
  Conns = {c1}
  Usernames = {ann, bob}
  Passwords = {pw}
  Texts = {text, torn}
  Written = {text}
  NoName = NoName
  MaxUsers = 2
  MaxMessages = 2
  MaxId = 3
  MaxInFlight = 2
SPECIFICATION Spec
INVARIANT SavedWhole
