---- MODULE MCDrivers ----
(* The four small modules below the tasks, one of them moving in a behaviour *)
(* and the others parked.                                                    *)
EXTENDS Lcd, Bma400, Samples, WireChecksum

VARIABLE focus

Parked == driver = "off" /\ regs = Default /\ todo = <<>> /\ chip_failures = 0 /\ reboots = 0

DriversInit ==
  /\ focus \in {"lcd", "chip", "samples", "wire"}
  /\ LcdInit /\ SamplesInit /\ WireInit
  /\ IF focus = "chip" THEN ChipInit ELSE Parked

DriversNext ==
  /\ UNCHANGED focus
  /\ \/ focus = "lcd"     /\ LcdNext     /\ UNCHANGED <<chip_vars, samples_vars, wire_vars>>
     \/ focus = "chip"    /\ ChipNext    /\ UNCHANGED <<lcd_vars, samples_vars, wire_vars>>
     \/ focus = "samples" /\ SamplesNext /\ UNCHANGED <<lcd_vars, chip_vars, wire_vars>>
     \/ focus = "wire"    /\ WireNext    /\ UNCHANGED <<lcd_vars, chip_vars, samples_vars>>

DriversSpec == DriversInit /\ [][DriversNext]_<<focus, lcd_vars, chip_vars, samples_vars, wire_vars>>
====
