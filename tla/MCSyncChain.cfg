CONSTANTS
  Devices <- MCDevices
  HaEnabled = TRUE
  PtpOrder <- MCPtpOrder
  GnssOrder <- MCGnssOrder
  Phc2sys = "phc2sys"
  PtpDevices <- MCPtpDevices
  GnssDevices <- MCGnssDevices
  SynceInstances = {"synce1"}
  GenericTs2phc = {}
  Env <- MCEnv
  Conf <- MCConf
  DefaultHoldover = 3
  LockedClasses = {"6", "7", "135"}
  MaxAge = 5
  Delays = {1, 4}
  Ql <- MCQl
  PtpReadings <- MCPtpReadings
  OsReadings <- MCOsReadings
SPECIFICATION FairSpec
INVARIANTS
  TypeOK
  ToldIsCurrent
  OverallIsBacked
  OverallEndsWithOs
  HoldoverIsTimed
PROPERTIES
  ClocksKeepPromise
  OverallSettles
CHECK_DEADLOCK FALSE
