SPECIFICATION Spec
CONSTANTS
  Services = {"mobilesync", "mobilebackup", "mobilebackup2", "screenshotr"}
  DataClasses = {"Contacts", "Calendars"}
  ClientVersion <- MCClientVersion
  DeviceVersions <- MCDeviceVersions
  MaxCalls = 6
  MaxUnread = 3
CHECK_DEADLOCK FALSE
INVARIANTS Inv AnswerOwn ChangesAsked
