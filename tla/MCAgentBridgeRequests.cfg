SPECIFICATION Spec
CONSTANTS
  i1 = i1
  i2 = i2
  i3 = i3
  t1 = t1
  t2 = t2
  Nil = Nil
  Ids = {i1, i2}
  Tabs = {t1}
  Origins = {"a", "b"}
  MaxGrants = 1
  PromptShown = {TRUE}
  IoOutcomes = {"done"}
  MaxNavigations = 1
  MaxClosed = 0
  MaxContent = 0
  MaxRepublished = 0
  MaxStops = 0
  MaxCrashes = 0
  Calls <- RequestCalls
SYMMETRY IdSymmetry
INVARIANTS
  TypeOK
  ControlOK
  SettledMeansQuiescent
  HonestFailure
  RulesCoverPage
  BaselineIsCurrent
  
PROPERTIES
  AuthorizedDispatch
  StopIsPermanent
CHECK_DEADLOCK FALSE
