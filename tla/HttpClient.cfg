\* Two processes share a cache whose entries live one tick; two attempts a call.
CONSTANTS
  Clients = {"collect", "admin-collect"}
  Uses <- MCUses
  MaxRetries = 1
  TTL = 1
  MaxTime = 2
SPECIFICATION FairSpec
INVARIANTS ErrorTellsTheTruth HeadersMatchBody
PROPERTIES ResultIsRecent CallsReturn
CHECK_DEADLOCK FALSE
