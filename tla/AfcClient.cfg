SPECIFICATION FairSpec
CONSTANTS
  Threads = {t1, t2}
  Ops = {"afc_file_write", "afc_truncate"}
  Replies <- MostReplies
  PathLens = {1036}
  PayloadLen = 100
  Word = 65536
  Ssl = {FALSE, TRUE}
  None = None
  MaxCalls = 3
INVARIANTS Inv ReplyIsOwn
PROPERTIES ImplementsRequestReply CallReturns
