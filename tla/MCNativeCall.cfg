SPECIFICATION Spec
CONSTANTS
  Limits <- MCLimits
  MAX_BYTES = 2
  CHUNK_BYTES = 2
  Expansion = 2
  Envelope = 1
  Digits <- MCDigits
  ReceiptBase = 1
  ExitWidth = 1
  KillWidth = 3
  SpawnWidth = 2
  Lengths = {0, 1, 2, 3}
  PipeBound = 3
  Plans <- MCPlans
CHECK_DEADLOCK FALSE
INVARIANTS
  TypeOK
  WithinLimits
  EveryCallRecorded
  ReceiptIsHonest
PROPERTIES
  CallEnds
  ImplementsLedger
