\* Up to four items in pages of two, one of them a pull request.
CONSTANTS
  PageSize = 2
  MaxItems = 4
  Quota = 2
  PullRequests = {2}
SPECIFICATION FairSpec
INVARIANTS LossIsBoundedByRemovals PullRequestsAreOffByChanges
PROPERTY CallEnds
CHECK_DEADLOCK FALSE
