SPECIFICATION Spec
CONSTANTS
  wlan0 = wlan0
  wlan1 = wlan1
  a1 = a1
  a2 = a2
  normal = normal
  left = left
  Iface = {wlan0}
  Addr = {a1, a2}
  Orient = {normal, left}
  Output = "DP1"
  DefaultOutput = "HDMI1"
  MaxIncidents = 0
  MaxCmds = 0
  MayFail = {"netlink"}
INVARIANT EndsOnlyAtLogout
CHECK_DEADLOCK FALSE
