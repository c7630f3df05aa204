SPECIFICATION Spec
CONSTANTS
  i1 = i1
  i2 = i2
  i3 = i3
  t1 = t1
  t2 = t2
  Nil = Nil
  Ids = {i1, i2, i3}
  Tabs = {t1}
  Origins = {"a"}
  Calls <- FenceCalls
  MaxGrants = 1
  PromptShown = {TRUE}
  IoOutcomes = {"done"}
  MaxNavigations = 0
  MaxClosed = 0
  MaxContent = 0
  MaxRepublished = 0
  MaxStops = 1
  MaxCrashes = 1
SYMMETRY IdSymmetry
INVARIANTS
  OneMutationInFlight
PROPERTIES
  StopRefusesRequests
CHECK_DEADLOCK FALSE
