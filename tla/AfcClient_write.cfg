SPECIFICATION Spec
CONSTANTS
  Threads = {t1}
  Ops = {"afc_file_write", "afc_file_read"}
  Replies <- MostReplies
  PathLens = {1036}
  PayloadLen = 100
  Word = 65536
  Ssl = {FALSE}
  None = None
  MaxCalls = 1
INVARIANT WriteReported
