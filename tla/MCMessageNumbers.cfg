\* Refuted: persistence_init numbers on from the messages left, not from those given.
CONSTANTS
  Workers = {w1}
  Pieces <- MCPieces
  Drafts <- MCDrafts
  MaxMessages = 2
  MaxId = 3
SPECIFICATION HistorySpec
PROPERTIES
  NumbersAreGivenOnce
