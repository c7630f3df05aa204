SPECIFICATION ListsSpec
CONSTANTS
  None = None
  Urls = {u1}
  Texts = {good, bad}
  GoodTexts = {good}
  Bundled = bundled
  Bytes <- MCBytes
  MaxSubscriptions = 1
  MaxTotalBytes = 1
  Interval = 2
  Retry = 1
  ClockShift = 0
  Checks = {c1}
  Kept = {u1}
  Installed <- MCInstalled
  MaxMutations = 0
  MaxFaults = 1
  MaxRestarts = 1
  MaxDamages = 0
  MaxShifts = 0
  MaxCloses = 1
  Limit <- MCLimit
  Budget = 2
PROPERTY RetryIsDue
