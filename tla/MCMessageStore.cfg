\* Two writers, a board of two and three numbers: enough to fill the board, close a
\* gap and post again, and to restart from a file that lacks the last change.
CONSTANTS
  Workers = {w1, w2}
  Pieces <- MCPieces
  Drafts <- MCDrafts
  MaxMessages = 2
  MaxId = 3
SPECIFICATION Spec
INVARIANTS
  TypeOK
  UniqueIds
  NoLostFlush
PROPERTIES
  ImplementsBoard
  QuietSaves
  ImplementsWriter
