---- MODULE MCOrientLink ----
(* Model values for checking OrientLink with TLC. *)
EXTENDS OrientLink

CONSTANTS o0, o90

====
