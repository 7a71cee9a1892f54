CONSTANTS
  MaxPushes = 1
  MaxCollects = 3
  Expect <- MCExpect
  DeclaredDone <- MCDeclaredDone
SPECIFICATION FairDashboard
INVARIANTS SnapshotsAreChained HiddenIsReleased ListIsNotOlder CountsMatchRows
PROPERTY SiteNeverGoesBack SiteCatchesUp
CHECK_DEADLOCK FALSE
