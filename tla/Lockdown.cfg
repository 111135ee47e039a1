SPECIFICATION FairSpec
CONSTANTS
  Versions = {"old", "new"}
  Classes = {"phone", "watch"}
  MaxCalls = 3
  MaxPair = 3
CHECK_DEADLOCK FALSE
INVARIANTS Inv RecordTrusted CacheRight
PROPERTY CallReturns
