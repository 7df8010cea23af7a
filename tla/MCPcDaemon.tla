---- MODULE MCPcDaemon ----
(* Model values and symmetry for checking PcDaemon with TLC. *)
EXTENDS PcDaemon, TLC

CONSTANTS wlan0, wlan1, a1, a2, normal, left

Symmetry ==
  Permutations({wlan0, wlan1}) \cup Permutations({a1, a2}) \cup Permutations({normal, left})

====
