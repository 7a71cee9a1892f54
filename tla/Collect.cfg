SPECIFICATION FairSpec
CONSTANTS
  Signals = {"visits", "sentry"}
  SilentSignals = {"visits"}
  Targets = {"pypi"}
  Numbers <- MCNumbers
  NumbersOf <- MCNumbersOf
  UndatedNumbers = {"90d"}
  Verdicts = {"green", "stale", "unknown"}
  MaxCollects = 3
  MaxCrashes = 1
INVARIANT HonestDating
PROPERTIES RefreshKeepsSignals RefreshKeepsDownloads TornFileIsReplaced Refines
CHECK_DEADLOCK FALSE
