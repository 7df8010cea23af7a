---- MODULE Detectors ----
(***************************************************************************)
(* What sensor.c needs of the BMA400 driver, and what SensorTask takes for *)
(* granted: a start that succeeds leaves both detectors off, arming or     *)
(* disarming one is a single step that leaves the other one alone, and a   *)
(* call that fails did what it was asked or nothing.                       *)
(***************************************************************************)
VARIABLES ready, armed

Gen == {"gen1", "gen2"}

Init == ready = FALSE /\ armed \in SUBSET Gen

(* Before the sensor has started nothing is promised of the detectors.       *)
Unready == ~ready /\ ready' = FALSE /\ armed' \in SUBSET Gen
Started == ~ready /\ ready' = TRUE /\ armed' = {}

Switched(d) == armed' \in {armed \cup {d}, armed \ {d}}
Switch(d) == ready /\ ready' = TRUE /\ Switched(d)
GiveUp == ready /\ ready' = FALSE /\ (armed' = armed \/ \E d \in Gen : Switched(d))

Next == Unready \/ Started \/ GiveUp \/ \E d \in Gen : Switch(d)

Spec == Init /\ [][Next]_<<ready, armed>>
====
