SPECIFICATION Spec
CONSTANTS
  MAX_SUPPORTED_DEPTH = 3
  DEFAULT_MAX_DEPTH = 2
  DEFAULT_MAX_BYTES = 16
  NoCap = NoCap
  Names <- MCNames
  Spellings <- MCSpellings
  Documents <- MCDocuments
  Flags <- MCFlags
  Responses <- MCResponses
  Serialized <- Canonical
  Atoms <- MCAtoms
  SentenceBound = 9
  EditBound = 4
CHECK_DEADLOCK FALSE
INVARIANTS
  WritersAgree
  OnlyAgreedBytes
  NeverTruncated
  AcceptedIsDenoted
PROPERTY AlwaysAnswers
