SPECIFICATION AnySpec
CONSTANTS
  Limits <- MCLimits
  MAX_BYTES = 4
  Expected <- MCExpected
  ReceiptReserve = 2
  Lengths = {}
  Contents <- MCContents
  Size <- MCSize
  Gone = Gone
  Replacements = 1
  NotRead = NotRead
  a1 = a1
  a2 = a2
  s1 = s1
  s2 = s2
  r1 = r1
  r2 = r2
  BadRoot = BadRoot
  Files <- MCFiles
  Results <- MCResults
  Sessions = {s1, s2}
  Agents = {a1, a2}
  MaxResults = 2
  Nobody = Nobody
  Control = a2
  Refreshed = a1
CHECK_DEADLOCK FALSE
INVARIANTS
  AcceptedIsBound
  InputBudgetHeld
  EntriesSuffice
  CallsSuffice
  InspectionDecides
  RowIsOneHistory
  RefreshIsOfTheSubject
