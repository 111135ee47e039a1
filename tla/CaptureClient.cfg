SPECIFICATION FairSpec
CONSTANTS
  Services = {"syslog_relay", "bt_packet_logger", "ostrace"}
  MaxStart = 2
  MaxReq = 2
  MaxMsg = 4
  MaxChunk = 1
INVARIANTS Inv
PROPERTIES CaptureCorrect StopReturns
