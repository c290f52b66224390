SPECIFICATION Spec
CONSTANTS
  Session = {"o", "n"}
  OgSession = {"o"}
  MaxReq = 2
  MaxAll = 2
  Hangup = {"o"}
  MaxConn = 2
  MaxSlow = 1
  MaxIdle = 1
  MaxFault = 2
  HostsFile = {"NG", "OG"}
  Wish <- MCWish
  Leases <- MCAnyLeases
INVARIANTS Registered HostsComplete
CHECK_DEADLOCK FALSE
