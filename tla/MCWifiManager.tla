---- MODULE MCWifiManager ----
(* Model values and symmetry for checking WifiManager with TLC. *)
EXTENDS WifiManager, TLC

CONSTANTS c1, c2

CredsSymmetry == Permutations({c1, c2})

====
