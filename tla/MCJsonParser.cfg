SPECIFICATION MCSpec
CONSTANTS
  MAX_SUPPORTED_DEPTH = 3
  DEFAULT_MAX_DEPTH = 2
  DEFAULT_MAX_BYTES = 6
  NoCap = NoCap
  Names <- MCNames
  Spellings <- MCSpellings
  Inputs <- MCInputs
  Requests <- MCRequests
  StructureBound = 9
  ProfileBound = 7
  StructureEdits = 4
  ProfileEdits = 3
  FreeBound = 3
CHECK_DEADLOCK FALSE
INVARIANTS
  TypeOK
  StackBounded
  AdmittedNesting
  MembersDistinct
  RefusedAtFirstFault
PROPERTY ImplementsAdmission
