SPECIFICATION StrongFairSpec
CONSTANTS
  None = None
  NoName = NoName
  ProxyDeath = ProxyDeath
  Junk = Junk
  Threads = {t1}
  Names = {"a"}
  MaxReg = 2
  MaxMsg = 1
  MaxBatch = 0
  CallbackPosts = FALSE
CHECK_DEADLOCK FALSE
PROPERTIES
  PreviousCallbackRemoved
