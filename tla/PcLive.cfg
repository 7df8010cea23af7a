SPECIFICATION FairSpec
CONSTANTS
  wlan0 = wlan0
  wlan1 = wlan1
  a1 = a1
  a2 = a2
  normal = normal
  left = left
  Iface = {wlan0}
  Addr = {a1}
  Orient = {normal, left}
  Output = "DP1"
  DefaultOutput = "HDMI1"
  MaxIncidents = 3
  MaxCmds = 1
  MayFail = {"netlink"}
PROPERTIES
  JoinReturns
  NoticedChangeEndsSession
  HealsItself
CHECK_DEADLOCK FALSE
