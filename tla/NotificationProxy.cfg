SPECIFICATION FairSpec
CONSTANTS
  None = None
  NoName = NoName
  ProxyDeath = ProxyDeath
  Junk = Junk
  Threads = {t1, t2}
  Names = {"a", "b"}
  MaxReg = 2
  MaxMsg = 2
  MaxBatch = 1
  CallbackPosts = TRUE
CHECK_DEADLOCK FALSE
INVARIANTS IInv NoUseAfterFree NothingLost
PROPERTIES ImplementsNotifyCallback FreeReturns
