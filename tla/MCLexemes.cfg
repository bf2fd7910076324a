SPECIFICATION LexemeSpec
CONSTANTS
  MAX_SAFE_DIGITS <- MCMaxSafeDigits
  I64_MAX = 19
  USIZE_MAX = 15
  Finite <- MCFinite
  Texts <- MCTexts
  Profiles <- MCProfiles
  RawBound = 5
  Literals <- MCLiterals
  LiteralProfiles <- MCLiteralProfiles
  FragmentBound = 3
  MAX_SUPPORTED_DEPTH = 3
  DEFAULT_MAX_DEPTH = 2
  DEFAULT_MAX_BYTES = 6
  NoCap = NoCap
CHECK_DEADLOCK FALSE
INVARIANTS
  ScanIsMaximal
  VerdictIsExact
  LiteralIsExact
  OffsetNamesFault
