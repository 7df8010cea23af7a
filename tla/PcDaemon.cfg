SPECIFICATION Spec
CONSTANTS
  wlan0 = wlan0
  wlan1 = wlan1
  a1 = a1
  a2 = a2
  normal = normal
  left = left
  Iface = {wlan0, wlan1}
  Addr = {a1, a2}
  Orient = {normal, left}
  Output = "DP1"
  DefaultOutput = "HDMI1"
  MaxIncidents = 2
  MaxCmds = 2
  MayFail = {"pthread", "fork", "netlink", "xrandr_killed"}
SYMMETRY Symmetry
INVARIANTS
  TypeOK
  OneWatcher
  LastOrientIsOnScreen
  FlagConcernsSession
  NeverUnwatched
CHECK_DEADLOCK FALSE
