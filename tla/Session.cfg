SPECIFICATION FairSpec
CONSTANTS
  MaxSize = 3
  MaxSend = 7
  OutLen = 2
  TxRoom = 3
INVARIANTS
  StreamIntact
  LinesMatchAnswers
  CallbackOnce
PROPERTIES
  PairAnswered
