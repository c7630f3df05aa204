SPECIFICATION ContentSpec
CONSTANTS
  None = None
  Nothing = Nothing
  Urls = {u1, u2}
  Texts = {good, bad}
  GoodTexts = {good}
  Bundled = bundled
  Bytes <- MCBytes
  MaxSubscriptions = 1
  MaxTotalBytes = 1
  Interval = 2
  Retry = 1
  ClockShift = 1
  Checks = {c1}
  Kept = {u1}
  Installed <- MCInstalled
  MaxMutations = 1
  MaxFaults = 2
  MaxRestarts = 1
  MaxDamages = 2
  MaxShifts = 1
  MaxCloses = 1
  Limit <- MCLimit
  Budget = 2
  plain = plain
  dirty = dirty
  swapped = swapped
  banned = banned
  other = other
  Addresses = {plain, dirty, swapped, banned, other}
  Hosts <- MCHosts
  Host <- MCHost
  Origin <- MCHost
  Rule <- MCRule
  Rewrite <- MCRewrite
  TopSite <- site
  MaxBlockedDomains = 1
  MaxRedirects = 2
  MaxChanges = 2
  Elements = {e1, e2}
  Names = {n1, n2}
  Root = Root
  MaxWork = 2
  MaxSteps = 2
  MaxBatch = 1
  MaxSeen = 1
  MaxDocuments = 2
  MaxPageSteps = 3
  Calls <- MCCalls
  Budgets <- MCBudgets
INVARIANTS
  ContentTypeOK
  NoDangling
  ToldIsSaved
  UpdatesGoOn
  StoryIsTold
  NamesAreExamined
  ShownIsSaved
  PageKeepsItsWord
PROPERTIES
  ImplementsPromise
  FetchIsRight
