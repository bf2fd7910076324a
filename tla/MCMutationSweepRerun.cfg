SPECIFICATION Spec
CONSTANTS
  Cases <- MCCases
  NoOccurrence <- MCNoOccurrence
  MaxSweeps = 2
  MaxKills = 0
  MaxSaves = 0
CHECK_DEADLOCK FALSE
INVARIANT EditsArePristine
