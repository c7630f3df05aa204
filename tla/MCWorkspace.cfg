SPECIFICATION WorkspaceSpec
CONSTANTS
  None = None
  Nil = Nil
  home = home
  work = work
  third = third
  x = x
  y = y
  u = u
  NoColor = NoColor
  Between = Between
  Asked = Asked
  ProjectIds = {home, work, third}
  PageIds = {x, y}
  Urls = {u}
  Foreign = Foreign
  Stored <- MCStored
  Tabs = {t1, t2}
  Windows = {w1, w2}
  MaxEvents = 6
  Clients = {c1, c2}
  Ids = {i1, i2, i3}
  Colors = {red, blue}
  MaxTabEvents = 2
  NotYet = NotYet
  MaxExtensionTurns = 3
SYMMETRY Symmetric
\* Every part but the client's ends with what it may do or meet.
CHECK_DEADLOCK FALSE
INVARIANTS
  WorkspaceTypeOK
  OneTabPerPage
  BoundIsKnown
  FenceCovers
  ReportIsArchived
  RestIsRight
  TabIsSettled
  ExtensionsAreShown
PROPERTIES
  MoveIsConfirmed
  CommittedWasViewed
  SamplingWanes
