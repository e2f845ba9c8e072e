\* The parts that several nodes would share, one of them in each behaviour.
CONSTANTS
  None = None
  Untaken = Untaken
  MaxTime = 3
  Nodes = {"n1", "n2"}
  TTLs = {1, 2}
  MaxEpoch = 3
  GuardTTL = 1
  GuardKey = 5
  Members = {"n1", "n2", "n3"}
  Weights = {0, 2}
  VNodes = 1
  Position <- MCPosition
  HashSize = 12
  Keys = {1, 5, 9, 11}
  KeyHash <- MCKeyHash
  Replicas = 2
  MaxRebuilds = 2
  Ledgers = {"la", "lb"}
  Writers = {"w1", "w2", "w3", "w4"}
  Method <- MCMethod
  Through <- MCThrough
  Counter <- MCCounter
  Delta <- MCDelta
  Ceiling = 3
  MaxBuffer = 1
  MaxLedgerTime = 1
  TokenIds = {"t"}
  Amounts = {0, 2}
  Costs <- MCCosts
  Epochs = {1, 2}
  TokenTTL = 1
  MaxGiven = 4
  MaxConsumed = 1
  MaxCorrections = 1
  HotKeys = {"h"}
  Observations = {0, 1, 8, 33}
  MaxCount = 34
  Threshold = 8
  MaxPartitions = 6
SPECIFICATION PlaneSpec
INVARIANTS PlaneTypeOK FencedOut Exclusive AnswersFenced LocateNearest BooksBalance SwapsKeepCeiling EventsOrdered SpentWithinGrants
PROPERTIES ImplementsFencing KeysStay PartitionsFollow
\* Every write has been made and the clock and the epochs are at their bounds.
CHECK_DEADLOCK FALSE
