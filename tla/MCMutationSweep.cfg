SPECIFICATION Spec
CONSTANTS
  Cases <- MCCases
  NoOccurrence <- MCNoOccurrence
  MaxSweeps = 2
  MaxKills = 1
  MaxSaves = 1
CHECK_DEADLOCK FALSE
INVARIANTS
  VerdictIsOfEdit
  FinishedIsRestored
  InterruptedIsRecoverable
PROPERTY SweepEnds
