\* Bootstrap is started twice and stopped at will; one decision is made, handed on and recorded.
SPECIFICATION StateSpec
CONSTANTS
  None = None
  Empty = Empty
  Statements <- MCStatements
  MaxStarts = 2
  MaxReaders = 1
  Messages <- MCMessages
  MaxMessages = 3
  MaxOfKind = 1
INVARIANTS BootstrapConverges ReceiptIsTrue SnapshotIsPast
