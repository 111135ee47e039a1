SPECIFICATION Spec
CONSTANTS
  Tools = {"backup"}
  Commands = {"run", "kill", "detach"}
  Handlers = {1, 2, 3}
  Udids = {"a", "n"}
  Networked = {"n"}
  Relayed = {"a"}
  None = "none"
  ModeUdids = {"a", "b", "n"}
  MaxPlugs = 3
  Reports = {"r", "r.synced", "t"}
  Size = 2
  Items = {"a", "b"}
  Blocks = 2
  Depth = 3
  MaxCommands = 3
  Unused = Unused
  Files = {"file", "Status"}
  StatusFile = "Status"
  FileSize = 3
  HunkMax = 2
  MaxAsks = 3
  Cmds = {"backup", "restore", "encryptOn"}
  Hashed = {"file"}
  Apps = 1
  MaxRuns = 2
  LockAttempts = 1
INVARIANT StatusSays
CHECK_DEADLOCK FALSE
