SPECIFICATION Spec
CONSTANTS
  i1 = i1
  i2 = i2
  i3 = i3
  t1 = t1
  t2 = t2
  Nil = Nil
  Ids = {i1, i2}
  Tabs = {t1}
  Origins = {"a"}
  Calls <- CrashCalls
  MaxGrants = 1
  PromptShown = {TRUE}
  IoOutcomes = {"done", "refused", "torn"}
  MaxNavigations = 0
  MaxClosed = 0
  MaxContent = 0
  MaxRepublished = 1
  MaxStops = 0
  MaxCrashes = 1
SYMMETRY IdSymmetry
INVARIANTS
  AtMostOnceEffect
  ReceiptIsArchived
PROPERTIES
  PromiseKept
CHECK_DEADLOCK FALSE
