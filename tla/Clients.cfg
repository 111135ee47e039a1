SPECIFICATION Spec
CONSTANTS
  Names = {"diagnostics_relay", "sbservices", "misagent", "mobileactivation", "house_arrest",
           "file_relay", "heartbeat", "restore", "lockdown"}
  Threads = {1, 2}
  MaxCalls = 4
  Clients = {"companion_proxy", "preboard"}
  Listeners = {1, 2, 3}
  MaxAsked = 3
  Versions = {"afc", "upload", "personal"}
  Commands = {"mount", "list", "unmount", "devmodestatus"}
  Blocks = 2
  Attempts = 3
  MaxUnits = 2
  MaxOut = 2
  MaxLen = 2
  Chunk = 2
  MaxLength = 5
  MaxMessages = 2
  Conns = {1, 2}
  Fds = {1, 2}
  MaxSess = 2
  MaxItems = 3
  Unused = Unused
INVARIANTS OwnAnswer ListenerKnown MountTrue KeyAgreed StreamTrue UseSafe RelayFaithful
PROPERTIES ListenerStops FreeReturns
CHECK_DEADLOCK FALSE
