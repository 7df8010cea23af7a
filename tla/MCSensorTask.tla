---- MODULE MCSensorTask ----
(* Model values for checking SensorTask with TLC. *)
EXTENDS SensorTask

CONSTANTS p0, p90, flat, invalid

====
