---- MODULE MCApProvision ----
(* Model values for checking ApProvision with TLC. *)
EXTENDS ApProvision

CONSTANTS k1, k2

====
