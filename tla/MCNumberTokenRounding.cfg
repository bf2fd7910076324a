SPECIFICATION Spec
CONSTANTS
  MAX_SAFE_DIGITS <- MCMaxSafeDigits
  I64_MAX = 19
  USIZE_MAX = 15
  Finite <- MCFinite
  Texts <- MCTexts
  Profiles <- MCIjson
  RawBound = 5
  MAX_SUPPORTED_DEPTH = 3
  DEFAULT_MAX_DEPTH = 2
  DEFAULT_MAX_BYTES = 6
  NoCap = NoCap
CHECK_DEADLOCK FALSE
INVARIANT CanonicalReadmitted
