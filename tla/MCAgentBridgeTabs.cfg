SPECIFICATION Spec
CONSTANTS
  i1 = i1
  i2 = i2
  i3 = i3
  t1 = t1
  t2 = t2
  Nil = Nil
  Ids = {i1, i2}
  Tabs = {t1, t2}
  Origins = {"a"}
  Calls <- TabCalls
  MaxGrants = 2
  PromptShown = {TRUE, FALSE}
  IoOutcomes = {"done"}
  MaxNavigations = 1
  MaxClosed = 1
  MaxContent = 0
  MaxRepublished = 0
  MaxStops = 0
  MaxCrashes = 0
SYMMETRY IdSymmetry
INVARIANTS
  ConsentHeld
CHECK_DEADLOCK FALSE
