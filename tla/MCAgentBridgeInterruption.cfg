SPECIFICATION Spec
CONSTANTS
  i1 = i1
  i2 = i2
  i3 = i3
  t1 = t1
  t2 = t2
  Nil = Nil
  Ids = {i1, i2}
  Tabs = {t1}
  Origins = {"a", "b"}
  Calls <- NavigationCalls
  MaxGrants = 1
  PromptShown = {TRUE}
  IoOutcomes = {"done"}
  MaxNavigations = 1
  MaxClosed = 1
  MaxContent = 0
  MaxRepublished = 0
  MaxStops = 0
  MaxCrashes = 0
SYMMETRY IdSymmetry
PROPERTIES
  InterruptionPreserved
CHECK_DEADLOCK FALSE
