SPECIFICATION WaitSpec
CONSTANTS
  i1 = i1
  i2 = i2
  i3 = i3
  t1 = t1
  t2 = t2
  Nil = Nil
  Ids = {i1, i2}
  Tabs = {t1}
  Origins = {"a"}
  Calls <- WaitCalls
  MaxGrants = 1
  PromptShown = {TRUE}
  IoOutcomes = {"done"}
  MaxNavigations = 0
  MaxClosed = 0
  MaxContent = 1
  MaxRepublished = 0
  MaxStops = 0
  MaxCrashes = 0
PROPERTIES
  WaitWakes
CHECK_DEADLOCK FALSE
