\* Four issues in pages of one, three pages at most, two events: a listing may end,
\* fail, lose its metadata, repeat a cursor or exceed its pages.
CONSTANTS
  Issue = {a, b, c, d}
  PageSize = 1
  MaxPages = 3
  MaxClock = 6
SPECIFICATION FairSentry
INVARIANTS CountIsWhole TalliesOverlapByChanges
PROPERTY CollectEnds
CHECK_DEADLOCK FALSE
