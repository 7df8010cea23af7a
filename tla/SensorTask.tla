---- MODULE SensorTask ----
(***************************************************************************)
(* The orientation sensor (BMA400_SensorAPI/sensor.c) and the application  *)
(* that supervises it (mcu/main/main.c).                                   *)
(*                                                                         *)
(* Three tasks meet here: sensor_task (the worker), which turns the chip's *)
(* two detectors into orientations; app_main, which starts the sensor and  *)
(* is to restart what reports its death; and the Wi-Fi manager's task,     *)
(* which asks for a reading whenever a PC connects and deletes the worker  *)
(* if there is none.  They share the module's static gs and the SPI mutex. *)
(*                                                                         *)
(* A driver call of the worker or of the manager is two steps: the mutex   *)
(* is taken, and the transfer ends and gives it back, so that other tasks  *)
(* come in between.  Several transfers of one call, and the samples of one *)
(* reading, are one.  A NULL mutex, a freed task or queue is undefined     *)
(* behaviour: the board resets ("panicked") or nothing shows.              *)
(***************************************************************************)
EXTENDS Naturals, FiniteSets

CONSTANTS
  Pose,          (* the four upright poses                                  *)
  Flat,          (* the board lies on its back or face                      *)
  Invalid,       (* ORIENT_INVALID                                          *)
  MovesEarly,    (* the board may be moved before the interrupt is attached *)
  MayFail,       (* the driver calls that may fail, of Calls                *)
  MaxFailures,   (* bound: failing calls                                    *)
  MaxTurns,      (* bound: times the board is turned                        *)
  MaxReadings    (* bound: PCs that connect                                 *)

Calls == {"init", "arm", "status", "sample"}

ASSUME ConstantsAssumption ==
  /\ Flat \notin Pose /\ Invalid \notin Pose \cup {Flat}
  /\ MovesEarly \in BOOLEAN /\ MayFail \subseteq Calls
  /\ MaxFailures \in Nat /\ MaxTurns \in Nat /\ MaxReadings \in Nat

VARIABLES
  \* gs: the driver's hooks and the SPI device are set; the worker's handle
  \* ("null", "worker"); app_main's handle is known; the bit a death sets;
  \* the last orientation reported; the callback is set; the mutex.
  dev, spidev, handle, caller_handle, die_bit, last_orient, send_orient, spi_mutex,
  \* The worker: where it is, its notification, the batch it has sampled.
  wpc, notified, batch,
  \* app_main: where it is, the notification bits set and those it handles.
  app, bits, woken,
  \* The manager's task, and the batch it has sampled.
  wifi, sampled,
  \* The chip: detectors armed, interrupts latched, asleep; the GPIO handler.
  armed, stat, asleep, isr,
  \* The board: its pose, being moved; it has been reset by a fault.
  pose, moving, panicked,
  \* Bounds' counters.
  failures, turns, readings

gsvars == <<dev, spidev, handle, caller_handle, die_bit, last_orient, send_orient>>
worker == <<wpc, notified, batch>>
appvars == <<app, bits, woken>>
manager == <<wifi, sampled>>
chip   == <<armed, stat, asleep, isr>>
world  == <<pose, moving, turns, readings>>
vars   == <<gsvars, spi_mutex, worker, appvars, manager, chip, world, panicked, failures>>

Orient == Pose \cup {Invalid}
Deaths == {"wifi", "sensor"}           \* NOTIFY_WIFI_MGR_DIED_BIT, NOTIFY_SENSOR_DIED_BIT
Tasks  == {"worker", "wifi"}

(* The INT1 line is high while an interrupt is latched.                      *)
Line == stat # {}

(* Where the worker and the manager use the bus.                             *)
Transfers == {"arm", "status", "disarmActivity", "armInactivity", "sample",
              "disarmInactivity", "armActivity"}

Init ==
  /\ dev = TRUE /\ spidev = FALSE /\ handle = "null" /\ caller_handle = FALSE
  /\ die_bit = "wifi" /\ last_orient = Invalid /\ send_orient = FALSE
  /\ spi_mutex = "null"
  /\ wpc = "none" /\ notified = FALSE /\ batch = Invalid
  /\ app = "open" /\ bits = {} /\ woken = {}
  /\ wifi = "idle" /\ sampled = Invalid
  /\ armed = {} /\ stat = {} /\ asleep = TRUE /\ isr = FALSE
  /\ pose \in Pose \cup {Flat} /\ moving = FALSE /\ panicked = FALSE
  /\ failures = 0 /\ turns = 0 /\ readings = 0

(* What a call comes to: with the hooks zeroed null_ptr_check refuses it, and *)
(* without a device the transfer fails.                                      *)
Fails(call) == call \in MayFail /\ failures < MaxFailures
Failed(call) ==
  \/ ~(dev /\ spidev) /\ UNCHANGED failures
  \/ dev /\ spidev /\ Fails(call) /\ failures' = failures + 1
Succeeded == dev /\ spidev /\ UNCHANGED failures

----------------------------------------------------------------------------
(* The SPI hooks: bma400_spi_read and bma400_spi_write *)

(* xSemaphoreTake waits for ever: the mutex must be free.                    *)
Take(t) == dev /\ spi_mutex = "free" /\ spi_mutex' = t

(* A transfer ends with the mutex given back; with zeroed hooks there is none. *)
Holds(t) == spi_mutex = t \/ ~dev
Give(t)  == spi_mutex' = IF spi_mutex = t THEN "free" ELSE spi_mutex

----------------------------------------------------------------------------
(* app_main: sensor_init *)

InitOpen ==
  /\ app = "open"
  /\ send_orient' = TRUE /\ spi_mutex' = "free"
  /\ \/ Fails("init") /\ failures' = failures + 1 /\ app' = "wait" /\ UNCHANGED spidev
     \/ spidev' = TRUE /\ app' = "probe" /\ UNCHANGED failures
  /\ UNCHANGED <<dev, handle, caller_handle, die_bit, last_orient, worker, bits, woken,
                 manager, chip, world, panicked>>

(* A step on the bus: its failure is a return code of sensor_init, which      *)
(* leaves everything as it is.                                               *)
InitStep(at, next, wipes, sleeps) ==
  /\ app = at /\ spi_mutex = "free"
  /\ \/ Failed("init") /\ app' = "wait" /\ UNCHANGED <<armed, stat, asleep>>
     \/ /\ Succeeded /\ app' = next
        /\ armed' = armed \ wipes /\ stat' = stat \ wipes /\ asleep' = sleeps
  /\ UNCHANGED <<gsvars, spi_mutex, worker, bits, woken, manager, isr, world, panicked>>

Detectors == {"GEN1", "GEN2"}

InitProbe      == InitStep("probe", "reset", {}, asleep)
InitReset      == InitStep("reset", "power", Detectors, TRUE)
InitPower      == InitStep("power", "accel", {}, FALSE)
InitAccel      == InitStep("accel", "activity", {}, asleep)
InitActivity   == InitStep("activity", "inactivity", {}, asleep)
InitInactivity == InitStep("inactivity", "map", {}, asleep)
InitMap        == InitStep("map", "quiet", {}, asleep)
InitQuiet      == InitStep("quiet", "create", Detectors, asleep)

Starting == {"open", "probe", "reset", "power", "accel", "activity", "inactivity", "map",
             "quiet", "create", "attach"}

InitCreate ==
  /\ app = "create"
  /\ caller_handle' = TRUE /\ die_bit' = "sensor"
  /\ \/ Fails("init") /\ failures' = failures + 1 /\ app' = "wait" /\ UNCHANGED <<handle, wpc>>
     \/ handle' = "worker" /\ wpc' = "arm" /\ app' = "attach" /\ UNCHANGED failures
  /\ UNCHANGED <<dev, spidev, last_orient, send_orient, spi_mutex, notified, batch, bits, woken,
                 manager, chip, world, panicked>>

(* The handler is attached to the edge, and an edge gone by is not seen.     *)
InitAttach ==
  /\ app = "attach" /\ app' = "wait"
  /\ \/ Fails("init") /\ failures' = failures + 1 /\ UNCHANGED isr
     \/ isr' = TRUE /\ UNCHANGED failures
  /\ UNCHANGED <<gsvars, spi_mutex, worker, bits, woken, manager, armed, stat, asleep,
                 world, panicked>>

SensorInit ==
  \/ InitOpen \/ InitProbe \/ InitReset \/ InitPower \/ InitAccel \/ InitActivity
  \/ InitInactivity \/ InitMap \/ InitQuiet \/ InitCreate \/ InitAttach

----------------------------------------------------------------------------
(* app_main: the supervisor loop *)

(* xTaskNotifyWait takes all bits at once; the manager's is looked at first. *)
Wake ==
  /\ app = "wait" /\ bits # {}
  /\ woken' = bits /\ bits' = {}
  /\ app' = IF "wifi" \in bits THEN "wifiDown" ELSE "detach"
  /\ UNCHANGED <<gsvars, spi_mutex, worker, manager, chip, world, panicked, failures>>

(* wifi_mgr_deinit deletes the queue; a manager that lives still waits on it. *)
WifiDown ==
  /\ app = "wifiDown" /\ app' = "wifiUp"
  /\ panicked' \in IF wifi \in {"gone", "deleted"} THEN {FALSE} ELSE BOOLEAN
  /\ UNCHANGED <<gsvars, spi_mutex, worker, bits, woken, manager, chip, world, failures>>

WifiUp ==
  /\ app = "wifiUp"
  /\ wifi' = "idle" /\ sampled' = Invalid
  /\ app' = IF "sensor" \in woken THEN "detach" ELSE "wait"
  /\ UNCHANGED <<gsvars, spi_mutex, worker, bits, woken, chip, world, panicked, failures>>

(* sensor_deinit: the handler removed, the chip put to sleep (its result is  *)
(* ignored), then everything that sensor_init is to set up again, and the    *)
(* driver's hooks, which only the static initializer sets.                   *)
DeinitDetach ==
  /\ app = "detach" /\ app' = "sleep" /\ isr' = FALSE
  /\ UNCHANGED <<gsvars, spi_mutex, worker, bits, woken, manager, armed, stat, asleep,
                 world, panicked, failures>>

DeinitSleep ==
  /\ app = "sleep" /\ (dev => spi_mutex = "free") /\ app' = "free"
  /\ asleep' = (asleep \/ (dev /\ spidev))
  /\ UNCHANGED <<gsvars, spi_mutex, worker, bits, woken, manager, armed, stat, isr,
                 world, panicked, failures>>

Zeroed == FALSE                        \* memset(&gs.dev, 0, ...)

(* A task is inside a call of the driver that went past its null check.      *)
InDriver == dev /\ (wifi = "reading" \/ wpc \in Transfers)

DeinitFree ==
  /\ app = "free" /\ app' = "open"
  /\ dev' = Zeroed /\ spidev' = FALSE /\ handle' = "null" /\ caller_handle' = FALSE
  /\ die_bit' = "wifi" /\ last_orient' = Invalid /\ send_orient' = FALSE
  /\ spi_mutex' = "null"
  /\ panicked' \in IF InDriver THEN BOOLEAN ELSE {FALSE}
  /\ UNCHANGED <<worker, bits, woken, manager, chip, world, failures>>

Supervise == Wake \/ WifiDown \/ WifiUp \/ DeinitDetach \/ DeinitSleep \/ DeinitFree

----------------------------------------------------------------------------
(* sensor_task *)

WorkerTakes ==
  /\ wpc \in Transfers /\ Take("worker")
  /\ UNCHANGED <<gsvars, worker, appvars, manager, chip, world, panicked, failures>>

(* One of the four arm and disarm helpers: any failure is the error path.    *)
Arming(at, detectors, next) ==
  /\ wpc = at /\ Holds("worker") /\ Give("worker")
  /\ \/ Failed("arm") /\ wpc' = "err" /\ UNCHANGED armed
     \/ Succeeded /\ wpc' = next /\ armed' = detectors
  /\ UNCHANGED <<gsvars, notified, batch, appvars, manager, stat, asleep, isr,
                 world, panicked>>

(* Mutant.  Motion arms inactivity and leaves activity armed.                *)
DisarmActivityDropped == Arming("disarmActivity", armed, "armInactivity")

(* Mutant.  Edges that came while the detectors were switched are dropped.   *)
ArmInactivityDrains ==
  /\ wpc = "armInactivity" /\ Holds("worker") /\ Give("worker")
  /\ Succeeded /\ wpc' = "wait" /\ armed' = armed \cup {"GEN2"} /\ notified' = FALSE
  /\ UNCHANGED <<gsvars, batch, appvars, manager, stat, asleep, isr, world, panicked>>

ArmFirst         == Arming("arm", armed \cup {"GEN1"}, "wait")
DisarmActivity   == Arming("disarmActivity", armed \ {"GEN1"}, "armInactivity")
ArmInactivity    == Arming("armInactivity", armed \cup {"GEN2"}, "wait")
DisarmInactivity == Arming("disarmInactivity", armed \ {"GEN2"}, "armActivity")
ArmActivity      == Arming("armActivity", armed \cup {"GEN1"}, "wait")

NotifyTake ==
  /\ wpc = "wait" /\ notified
  /\ notified' = FALSE /\ wpc' = "status"
  /\ UNCHANGED <<gsvars, spi_mutex, batch, appvars, manager, chip, world, panicked, failures>>

(* What the worker does about the interrupts it has read.                    *)
Handles(interrupts) ==
  IF "GEN1" \in interrupts THEN "disarmActivity"
  ELSE IF "GEN2" \in interrupts THEN "sample" ELSE "wait"

(* Reading the status clears the latch.  The result is not looked at: after  *)
(* a failure the interrupts are whatever the buffer held.                    *)
ReadStatus ==
  /\ wpc = "status" /\ Holds("worker") /\ Give("worker")
  /\ \/ /\ Failed("status")
        /\ \E garbage \in SUBSET Detectors : wpc' = Handles(garbage)
        /\ UNCHANGED stat
     \/ Succeeded /\ wpc' = Handles(stat) /\ stat' = {}
  /\ UNCHANGED <<gsvars, notified, batch, appvars, manager, armed, asleep, isr, world, panicked>>

Sample ==
  /\ wpc = "sample" /\ Holds("worker") /\ Give("worker")
  /\ \/ Failed("sample") /\ wpc' = "disarmInactivity" /\ UNCHANGED batch
     \/ Succeeded /\ wpc' = "report" /\ batch' = pose
  /\ UNCHANGED <<gsvars, notified, appvars, manager, chip, world, panicked>>

(* Mutant.  A flat board's pose is reported as it is.                        *)
DerivedRaw(p) == p

(* _derive_orientation_: flat keeps the last orientation.                    *)
Derived(p) == IF p = Flat THEN last_orient ELSE p

(* Mutant.  The batch counts only when the board was flat before.            *)
ReportOnce ==
  /\ wpc = "report" /\ wpc' = "disarmInactivity" /\ batch' = Invalid
  /\ last_orient' = IF last_orient = Invalid THEN Derived(batch) ELSE last_orient
  /\ UNCHANGED <<dev, spidev, handle, caller_handle, die_bit, send_orient, spi_mutex, notified,
                 appvars, manager, chip, world, panicked, failures>>

(* The callback is called for a change only, and was cleared by a deinit.    *)
Report ==
  /\ wpc = "report" /\ wpc' = "disarmInactivity" /\ batch' = Invalid
  /\ last_orient' = Derived(batch)
  /\ panicked' = (Derived(batch) # last_orient /\ ~send_orient)
  /\ UNCHANGED <<dev, spidev, handle, caller_handle, die_bit, send_orient, spi_mutex, notified,
                 appvars, manager, chip, world, failures>>

(* Mutant.  The error path ends the task without telling anybody.            *)
DieQuietly ==
  /\ wpc = "err" /\ wpc' = "dead"
  /\ UNCHANGED <<gsvars, spi_mutex, notified, batch, appvars, manager, chip, world,
                 panicked, failures>>

(* The error path: the death bit is read now, from gs.                       *)
Die ==
  /\ wpc = "err" /\ wpc' = "dead"
  /\ bits' = bits \cup {die_bit}
  /\ UNCHANGED <<gsvars, spi_mutex, notified, batch, app, woken, manager, chip, world,
                 panicked, failures>>

Worker ==
  \/ WorkerTakes \/ ArmFirst \/ DisarmActivity \/ ArmInactivity \/ DisarmInactivity
  \/ ArmActivity \/ NotifyTake \/ ReadStatus \/ Sample \/ Report \/ Die

----------------------------------------------------------------------------
(* sensor_get_immediate_orientation, called by the manager's task *)

(* A PC connects, which takes seconds from the boot: the first sensor_init,  *)
(* which ends with the hooks still set, is over.                             *)
GotConn ==
  /\ wifi = "idle" /\ readings < MaxReadings
  /\ dev => app \notin Starting
  /\ wifi' = "reading" /\ readings' = readings + 1
  /\ UNCHANGED <<gsvars, spi_mutex, worker, appvars, sampled, chip, pose, moving, turns,
                 panicked, failures>>

WifiTakes ==
  /\ wifi = "reading" /\ Take("wifi")
  /\ UNCHANGED <<gsvars, worker, appvars, manager, chip, world, panicked, failures>>

WifiSample ==
  /\ wifi = "reading" /\ Holds("wifi") /\ Give("wifi")
  /\ \/ Failed("sample") /\ wifi' = "faulty" /\ UNCHANGED sampled
     \/ Succeeded /\ wifi' = "derive" /\ sampled' = pose
  /\ UNCHANGED <<gsvars, worker, appvars, chip, world, panicked>>

(* An invalid orientation is the end of the manager, which notifies a task   *)
(* at the address of its handle instead of app_main.                         *)
WifiDerive ==
  /\ wifi = "derive" /\ sampled' = Invalid
  /\ wifi' = IF Derived(sampled) = Invalid THEN "exit" ELSE "idle"
  /\ UNCHANGED <<gsvars, spi_mutex, worker, appvars, chip, world, panicked, failures>>

WifiExit ==
  /\ wifi = "exit" /\ wifi' = "gone" /\ panicked' \in BOOLEAN
  /\ UNCHANGED <<gsvars, spi_mutex, worker, appvars, sampled, chip, world, failures>>

(* No sample: app_main is told and then the worker is deleted.               *)
TellCaller ==
  /\ wifi = "faulty" /\ wifi' = "deleting"
  /\ bits' = IF caller_handle THEN bits \cup {die_bit} ELSE bits
  /\ UNCHANGED <<gsvars, spi_mutex, worker, app, woken, sampled, chip, world, panicked, failures>>

(* vTaskDelete: of the worker, of one already deleted, or with NULL of the   *)
(* calling task itself.                                                      *)
DeleteWorker ==
  /\ wifi = "deleting"
  /\ \/ /\ handle = "worker" /\ wpc # "dead"
        /\ wpc' = "dead" /\ wifi' = "exit" /\ UNCHANGED panicked
     \/ /\ handle = "worker" /\ wpc = "dead"
        /\ panicked' \in BOOLEAN /\ wifi' = "exit" /\ UNCHANGED wpc
     \/ /\ handle = "null"
        /\ wifi' = "deleted" /\ UNCHANGED <<wpc, panicked>>
  /\ UNCHANGED <<gsvars, spi_mutex, notified, batch, appvars, sampled, chip, world, failures>>

Manager == WifiTakes \/ WifiSample \/ WifiDerive \/ WifiExit \/ TellCaller \/ DeleteWorker

----------------------------------------------------------------------------
(* The chip, the interrupt and the board *)

Sees(g) == IF g = "GEN1" THEN moving ELSE ~moving

(* The ISR notifies the worker on a rising edge; the handle it was given     *)
(* stays in it when the worker is gone.                                      *)
Detect(g) ==
  /\ ~asleep /\ g \in armed \ stat /\ Sees(g)
  /\ stat' = stat \cup {g}
  /\ notified' = (notified \/ (~Line /\ isr /\ wpc # "dead"))
  /\ panicked' \in IF ~Line /\ isr /\ wpc = "dead" THEN BOOLEAN ELSE {FALSE}
  /\ UNCHANGED <<gsvars, spi_mutex, wpc, batch, appvars, manager, armed, asleep, isr,
                 world, failures>>

Turn ==
  /\ turns < MaxTurns /\ (MovesEarly \/ isr \/ wpc = "dead")
  /\ moving' = TRUE /\ pose' \in (Pose \cup {Flat}) \ {pose} /\ turns' = turns + 1
  /\ UNCHANGED <<gsvars, spi_mutex, worker, appvars, manager, chip, readings, panicked, failures>>

(* A turn takes longer than the worker needs from one wait to the next, and  *)
(* longer than an armed detector needs to see it.                            *)
Settle ==
  /\ moving /\ moving' = FALSE
  /\ wpc \notin Transfers \cup {"report"} /\ ~notified
  /\ "GEN1" \in armed \ stat => asleep
  /\ UNCHANGED <<gsvars, spi_mutex, worker, appvars, manager, chip, pose, turns, readings,
                 panicked, failures>>

Chip  == \E g \in Detectors : Detect(g)
World == Turn \/ Settle

Next == ~panicked /\ (SensorInit \/ Supervise \/ Worker \/ Manager \/ GotConn \/ Chip \/ World)

Spec == Init /\ [][Next]_vars

(* FreeRTOS runs a task that is ready, and the chip samples at 100 Hz.       *)
Fairness ==
  /\ WF_vars(~panicked /\ (SensorInit \/ Supervise)) /\ WF_vars(~panicked /\ Worker)
  /\ WF_vars(~panicked /\ Manager) /\ WF_vars(~panicked /\ Chip) /\ WF_vars(~panicked /\ Settle)

FairSpec == Spec /\ Fairness

----------------------------------------------------------------------------
(* Properties *)

GsOK ==
  /\ dev \in BOOLEAN /\ spidev \in BOOLEAN /\ handle \in {"null", "worker"}
  /\ caller_handle \in BOOLEAN /\ die_bit \in Deaths /\ last_orient \in Orient
  /\ send_orient \in BOOLEAN /\ spi_mutex \in {"null", "free"} \cup Tasks
TasksOK ==
  /\ wpc \in {"none", "wait", "report", "err", "dead"} \cup Transfers
  /\ notified \in BOOLEAN /\ batch \in Orient \cup {Flat}
  /\ app \in Starting \cup {"wait", "wifiDown", "wifiUp", "detach", "sleep", "free"}
  /\ bits \in SUBSET Deaths /\ woken \in SUBSET Deaths
  /\ wifi \in {"idle", "reading", "derive", "faulty", "deleting", "exit", "gone", "deleted"}
  /\ sampled \in Orient \cup {Flat}
ChipOK ==
  /\ armed \in SUBSET Detectors /\ stat \in SUBSET Detectors
  /\ asleep \in BOOLEAN /\ isr \in BOOLEAN
WorldOK ==
  /\ pose \in Pose \cup {Flat} /\ moving \in BOOLEAN /\ panicked \in BOOLEAN
  /\ failures \in Nat /\ turns \in Nat /\ readings \in Nat
(* What each variable holds; flat is a pose and never an orientation.        *)
TypeOK == GsOK /\ TasksOK /\ ChipOK /\ WorldOK

(* No edge is lost: while no call has failed, a worker that waits with the   *)
(* line high has been notified.  Nothing else would ever wake it, since only *)
(* its reading the status lets the line fall, and only a rising line         *)
(* notifies it.                                                              *)
LineIsHeard == failures = 0 /\ wpc = "wait" /\ Line => notified

(* Whatever fails, the worker waits with exactly one of the two detectors    *)
(* armed: with none it would never wake, with both motion and rest would     *)
(* both be reported by a line that rises once.                               *)
WaitsForOneDetector ==
  /\ armed # Detectors
  /\ wpc = "wait" => armed # {}

(* A worker that is gone is known to be: while its handle is kept, app_main  *)
(* has been notified and has not gone back to waiting, whoever ended it.     *)
DeathIsKnown ==
  wpc = "dead" /\ handle = "worker" /\ app = "wait" => "sensor" \in bits

(* A board that was turned and is left alone is reported in the pose it has, *)
(* while no call fails.                                                      *)
TurnedPoseIsReported ==
  <>[](turns > 0 /\ ~moving /\ failures = 0)
    => <>[](panicked \/ pose \in {Flat, last_orient})

(* What the documentation says of the code, and the code does not do.        *)

(* sensor_deinit frees the bus "so a later sensor_init can re-initialise     *)
(* it", and app_main restarts the sensor when its task has died.             *)
SensorRestarts == wpc = "dead" ~> wpc # "dead"

====
