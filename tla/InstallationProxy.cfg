SPECIFICATION FairSpec
CONSTANTS
  Threads = {t1}
  None = None
  Kinds = {"Progress", "Note", "Complete", "Failed", "Junk"}
  MaxCmd = 3
  MaxMsg = 3
INVARIANTS Inv StatusToOwnCommand
PROPERTY FreeReturns
