---- MODULE Samples ----
(***************************************************************************)
(* From acceleration samples to an orientation: the driver decodes each    *)
(* axis, sensor.c adds up the samples that could be read, divides by their *)
(* number and picks the axis gravity is on.  The worker does it when the   *)
(* board settles, the Wi-Fi manager when it is asked for a reading.        *)
(***************************************************************************)
EXTENDS Integers

CONSTANTS
  RawValues,      (* the readings of an axis, of the 12-bit ones            *)
  SettleCount,    (* SETTLE_SAMPLE_COUNT (10)                               *)
  ImmediateCount  (* IMMEDIATE_SAMPLE_COUNT (4)                             *)

ASSUME SamplesAssumption ==
  /\ RawValues \subseteq 0 .. 4095
  /\ SettleCount \in Nat \ {0} /\ ImmediateCount \in Nat \ {0}

VARIABLES
  batch,        (* the sums, the samples read, the samples still to take    *)
  last_orient,  (* gs.last_orient                                           *)
  derived,      (* what the last batch came to                              *)
  seen          (* history: where the samples read so far point             *)

samples_vars == <<batch, last_orient, derived, seen>>

Orientations == {"ORIENT_0", "ORIENT_90", "ORIENT_180", "ORIENT_270"}

(* 12 bits, two's complement.                                                *)
Signed(raw) == IF raw > 2047 THEN raw - 4096 ELSE raw

Abs(n) == IF n < 0 THEN -n ELSE n
Quotient(n, d) == IF n < 0 THEN -((-n) \div d) ELSE n \div d

(* A board that lies flat keeps the orientation it had.                      *)
_derive_orientation_(g, last) ==
  CASE Abs(g.z) >= Abs(g.x) /\ Abs(g.z) >= Abs(g.y) -> last
    [] Abs(g.z) < Abs(g.x) /\ Abs(g.x) >= Abs(g.y)  -> IF g.x > 0 THEN "ORIENT_0" ELSE "ORIENT_180"
    [] OTHER                                        -> IF g.y > 0 THEN "ORIENT_90" ELSE "ORIENT_270"

(* Mutant: the sums are divided by the samples asked for.                    *)
MeanOfAll(b) ==
  [x |-> Quotient(b.x, b.count), y |-> Quotient(b.y, b.count), z |-> Quotient(b.z, b.count)]

Mean(b) == [x |-> Quotient(b.x, b.recvd), y |-> Quotient(b.y, b.recvd), z |-> Quotient(b.z, b.recvd)]

NoBatch == [by |-> "none", count |-> 0, left |-> 0, recvd |-> 0, x |-> 0, y |-> 0, z |-> 0]

Begins(who, count) ==
  /\ batch = NoBatch
  /\ batch' = [NoBatch EXCEPT !.by = who, !.count = count, !.left = count]
  /\ seen' = {} /\ derived' = "none" /\ UNCHANGED last_orient

(* bma400_get_accel_data, and the sums.                                      *)
Taken ==
  /\ batch.left > 0
  /\ \E x, y, z \in RawValues :
       LET g == [x |-> Signed(x), y |-> Signed(y), z |-> Signed(z)]
       IN /\ batch' = [batch EXCEPT !.left = @ - 1, !.recvd = @ + 1,
                                    !.x = @ + g.x, !.y = @ + g.y, !.z = @ + g.z]
          /\ seen' = seen \cup {_derive_orientation_(g, "flat")}
  /\ UNCHANGED <<last_orient, derived>>

NotRead ==
  /\ batch.left > 0 /\ batch' = [batch EXCEPT !.left = @ - 1]
  /\ UNCHANGED <<last_orient, derived, seen>>

(* The worker remembers what it sent; a batch with nothing read sends        *)
(* nothing.  The immediate reading only returns it.                          *)
Ends ==
  /\ batch.by # "none" /\ batch.left = 0 /\ batch' = NoBatch
  /\ IF batch.recvd = 0
     THEN derived' = "none" /\ UNCHANGED last_orient
     ELSE /\ derived' = _derive_orientation_(Mean(batch), last_orient)
          /\ last_orient' = IF batch.by = "worker" THEN derived' ELSE last_orient
  /\ UNCHANGED seen

SamplesInit ==
  /\ batch = NoBatch /\ derived = "none" /\ seen = {} /\ last_orient = "ORIENT_INVALID"

SamplesNext ==
  \/ Begins("worker", SettleCount) \/ Begins("manager", ImmediateCount)
  \/ Taken \/ NotRead \/ Ends

SamplesSpec == SamplesInit /\ [][SamplesNext]_samples_vars

----------------------------------------------------------------------------
(* When every sample that could be read points the same way, the batch does  *)
(* too, for every number of samples lost and in spite of the division, and   *)
(* the orientation known before has no say in it.                            *)
UnanimousBatch ==
  derived # "none" => \A o \in Orientations : seen = {o} => derived = o
====
