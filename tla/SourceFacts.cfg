\* Three versions (one of them a prerelease), three commits, three collects.
CONSTANTS
  MaxVersion = 3
  MaxCommits = 3
  MaxCollects = 3
SPECIFICATION Spec
INVARIANTS TagBelongsToManifest CountReachesTheCommit
PROPERTY TagGoesBackOnlyWhenCut
CHECK_DEADLOCK FALSE
