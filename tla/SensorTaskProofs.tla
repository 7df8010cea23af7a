---- MODULE SensorTaskProofs ----
(* Theorems about SensorTask, for every value of its constants.             *)
EXTENDS SensorTask, TLAPS

----------------------------------------------------------------------------
(* Type correctness *)

THEOREM TypeInit == Init => TypeOK
<1>. SUFFICES ASSUME Init PROVE TypeOK
  OBVIOUS
<1>. QED  BY DEF Init, TypeOK, GsOK, TasksOK, ChipOK, WorldOK, Orient, Deaths, Starting

LEMMA AppType == TypeOK /\ (SensorInit \/ Supervise) => TypeOK'
<1>. SUFFICES ASSUME TypeOK, SensorInit \/ Supervise PROVE TypeOK'
  OBVIOUS
<1>. USE DEF TypeOK, gsvars, worker, appvars, manager, chip, world
<1>1. CASE InitOpen
  <2>1. GsOK'
    BY <1>1 DEF InitOpen, Fails, GsOK, Orient, Deaths, Tasks
  <2>2. TasksOK'
    BY <1>1 DEF InitOpen, Fails, GsOK, TasksOK, Orient, Deaths, Starting, Transfers
  <2>3. ChipOK'
    BY <1>1 DEF InitOpen, Fails, ChipOK, Detectors
  <2>4. WorldOK'
    BY <1>1 DEF InitOpen, Fails, WorldOK
  <2>. QED  BY <2>1, <2>2, <2>3, <2>4
<1>2. ASSUME NEW at \in Starting, NEW next \in Starting, NEW wipes \in SUBSET Detectors,
             NEW sleeps \in BOOLEAN, InitStep(at, next, wipes, sleeps)
      PROVE  TypeOK'
  <2>1. GsOK'
    BY <1>2 DEF InitStep, Failed, Fails, Succeeded, GsOK, Orient, Deaths, Tasks
  <2>2. TasksOK'
    BY <1>2 DEF InitStep, Failed, Fails, Succeeded, GsOK, TasksOK,
       Orient, Deaths, Starting, Transfers
  <2>3. ChipOK'
    BY <1>2 DEF InitStep, Failed, Fails, Succeeded, ChipOK, Detectors
  <2>4. WorldOK'
    BY <1>2 DEF InitStep, Failed, Fails, Succeeded, WorldOK
  <2>. QED  BY <2>1, <2>2, <2>3, <2>4
<1>3. CASE InitCreate
  <2>1. GsOK'
    BY <1>3 DEF InitCreate, Fails, GsOK, Orient, Deaths, Tasks
  <2>2. TasksOK'
    BY <1>3 DEF InitCreate, Fails, GsOK, TasksOK, Orient, Deaths, Starting, Transfers
  <2>3. ChipOK'
    BY <1>3 DEF InitCreate, Fails, ChipOK, Detectors
  <2>4. WorldOK'
    BY <1>3 DEF InitCreate, Fails, WorldOK
  <2>. QED  BY <2>1, <2>2, <2>3, <2>4
<1>4. CASE InitAttach
  <2>1. GsOK'
    BY <1>4 DEF InitAttach, Fails, GsOK, Orient, Deaths, Tasks
  <2>2. TasksOK'
    BY <1>4 DEF InitAttach, Fails, GsOK, TasksOK, Orient, Deaths, Starting, Transfers
  <2>3. ChipOK'
    BY <1>4 DEF InitAttach, Fails, ChipOK, Detectors
  <2>4. WorldOK'
    BY <1>4 DEF InitAttach, Fails, WorldOK
  <2>. QED  BY <2>1, <2>2, <2>3, <2>4
<1>5. CASE Wake
  <2>1. GsOK'
    BY <1>5 DEF Wake, GsOK, Orient, Deaths, Tasks
  <2>2. TasksOK'
    BY <1>5 DEF Wake, GsOK, TasksOK, Orient, Deaths, Starting, Transfers
  <2>3. ChipOK'
    BY <1>5 DEF Wake, ChipOK, Detectors
  <2>4. WorldOK'
    BY <1>5 DEF Wake, WorldOK
  <2>. QED  BY <2>1, <2>2, <2>3, <2>4
<1>6. CASE WifiDown
  <2>1. GsOK'
    BY <1>6 DEF WifiDown, GsOK, Orient, Deaths, Tasks
  <2>2. TasksOK'
    BY <1>6 DEF WifiDown, GsOK, TasksOK, Orient, Deaths, Starting, Transfers
  <2>3. ChipOK'
    BY <1>6 DEF WifiDown, ChipOK, Detectors
  <2>4. WorldOK'
    BY <1>6 DEF WifiDown, WorldOK
  <2>. QED  BY <2>1, <2>2, <2>3, <2>4
<1>7. CASE WifiUp
  <2>1. GsOK'
    BY <1>7 DEF WifiUp, GsOK, Orient, Deaths, Tasks
  <2>2. TasksOK'
    BY <1>7 DEF WifiUp, GsOK, TasksOK, Orient, Deaths, Starting, Transfers
  <2>3. ChipOK'
    BY <1>7 DEF WifiUp, ChipOK, Detectors
  <2>4. WorldOK'
    BY <1>7 DEF WifiUp, WorldOK
  <2>. QED  BY <2>1, <2>2, <2>3, <2>4
<1>8. CASE DeinitDetach
  <2>1. GsOK'
    BY <1>8 DEF DeinitDetach, GsOK, Orient, Deaths, Tasks
  <2>2. TasksOK'
    BY <1>8 DEF DeinitDetach, GsOK, TasksOK, Orient, Deaths, Starting, Transfers
  <2>3. ChipOK'
    BY <1>8 DEF DeinitDetach, ChipOK, Detectors
  <2>4. WorldOK'
    BY <1>8 DEF DeinitDetach, WorldOK
  <2>. QED  BY <2>1, <2>2, <2>3, <2>4
<1>9. CASE DeinitSleep
  <2>1. GsOK'
    BY <1>9 DEF DeinitSleep, GsOK, Orient, Deaths, Tasks
  <2>2. TasksOK'
    BY <1>9 DEF DeinitSleep, GsOK, TasksOK, Orient, Deaths, Starting, Transfers
  <2>3. ChipOK'
    BY <1>9 DEF DeinitSleep, ChipOK, Detectors
  <2>4. WorldOK'
    BY <1>9 DEF DeinitSleep, WorldOK
  <2>. QED  BY <2>1, <2>2, <2>3, <2>4
<1>10. CASE DeinitFree
  <2>1. GsOK'
    BY <1>10 DEF DeinitFree, Zeroed, GsOK, Orient, Deaths, Tasks
  <2>2. TasksOK'
    BY <1>10 DEF DeinitFree, Zeroed, GsOK, TasksOK, Orient, Deaths, Starting, Transfers
  <2>3. ChipOK'
    BY <1>10 DEF DeinitFree, Zeroed, ChipOK, Detectors
  <2>4. WorldOK'
    BY <1>10 DEF DeinitFree, Zeroed, WorldOK
  <2>. QED  BY <2>1, <2>2, <2>3, <2>4
<1>11. CASE InitProbe \/ InitReset \/ InitPower \/ InitAccel \/ InitActivity \/ InitInactivity
           \/ InitMap \/ InitQuiet
  <2>1. asleep \in BOOLEAN
    BY DEF ChipOK
  <2>. QED  BY <1>11, <2>1, <1>2 DEF InitProbe, InitReset, InitPower, InitAccel, InitActivity,
                InitInactivity, InitMap, InitQuiet, Starting, Detectors
<1>. QED  BY <1>1, <1>2, <1>3, <1>4, <1>5, <1>6, <1>7, <1>8, <1>9, <1>10, <1>11 DEF SensorInit, Supervise

LEMMA WorkerType == TypeOK /\ (Worker) => TypeOK'
<1>. SUFFICES ASSUME TypeOK, Worker PROVE TypeOK'
  OBVIOUS
<1>. USE DEF TypeOK, gsvars, worker, appvars, manager, chip, world
<1>1. CASE WorkerTakes
  <2>1. GsOK'
    BY <1>1 DEF WorkerTakes, Take, GsOK, Orient, Deaths, Tasks
  <2>2. TasksOK'
    BY <1>1 DEF WorkerTakes, Take, GsOK, TasksOK, Orient, Deaths, Starting, Transfers
  <2>3. ChipOK'
    BY <1>1 DEF WorkerTakes, Take, ChipOK, Detectors
  <2>4. WorldOK'
    BY <1>1 DEF WorkerTakes, Take, WorldOK
  <2>. QED  BY <2>1, <2>2, <2>3, <2>4
<1>2. ASSUME NEW at \in Transfers, NEW ds \in SUBSET Detectors,
             NEW next \in Transfers \cup {"wait"}, Arming(at, ds, next)
      PROVE  TypeOK'
  <2>1. GsOK'
    BY <1>2 DEF Arming, Give, Failed, Fails, Succeeded, GsOK, Orient, Deaths, Tasks
  <2>2. TasksOK'
    BY <1>2 DEF Arming, Give, Failed, Fails, Succeeded, GsOK, TasksOK,
       Orient, Deaths, Starting, Transfers
  <2>3. ChipOK'
    BY <1>2 DEF Arming, Give, Failed, Fails, Succeeded, ChipOK, Detectors
  <2>4. WorldOK'
    BY <1>2 DEF Arming, Give, Failed, Fails, Succeeded, WorldOK
  <2>. QED  BY <2>1, <2>2, <2>3, <2>4
<1>3. CASE NotifyTake
  <2>1. GsOK'
    BY <1>3 DEF NotifyTake, GsOK, Orient, Deaths, Tasks
  <2>2. TasksOK'
    BY <1>3 DEF NotifyTake, GsOK, TasksOK, Orient, Deaths, Starting, Transfers
  <2>3. ChipOK'
    BY <1>3 DEF NotifyTake, ChipOK, Detectors
  <2>4. WorldOK'
    BY <1>3 DEF NotifyTake, WorldOK
  <2>. QED  BY <2>1, <2>2, <2>3, <2>4
<1>4. CASE ReadStatus
  <2>1. GsOK'
    BY <1>4 DEF ReadStatus, Give, Failed, Fails, Succeeded, Handles, GsOK, Orient, Deaths, Tasks
  <2>2. TasksOK'
    BY <1>4 DEF ReadStatus, Give, Failed, Fails, Succeeded, Handles, GsOK, TasksOK, Orient, Deaths, Starting, Transfers
  <2>3. ChipOK'
    BY <1>4 DEF ReadStatus, Give, Failed, Fails, Succeeded, Handles, ChipOK, Detectors
  <2>4. WorldOK'
    BY <1>4 DEF ReadStatus, Give, Failed, Fails, Succeeded, Handles, WorldOK
  <2>. QED  BY <2>1, <2>2, <2>3, <2>4
<1>5. CASE Sample
  <2>1. GsOK'
    BY <1>5 DEF Sample, Give, Failed, Fails, Succeeded, GsOK, Orient, Deaths, Tasks
  <2>2. TasksOK'
    BY <1>5 DEF Sample, Give, Failed, Fails, Succeeded, GsOK, TasksOK, WorldOK,
        Orient, Deaths, Starting, Transfers
  <2>3. ChipOK'
    BY <1>5 DEF Sample, Give, Failed, Fails, Succeeded, ChipOK, Detectors
  <2>4. WorldOK'
    BY <1>5 DEF Sample, Give, Failed, Fails, Succeeded, WorldOK
  <2>. QED  BY <2>1, <2>2, <2>3, <2>4
<1>6. CASE Report
  <2>1. GsOK'
    BY <1>6 DEF Report, Derived, GsOK, TasksOK, Orient, Deaths, Tasks
  <2>2. TasksOK'
    BY <1>6 DEF Report, Derived, GsOK, TasksOK, Orient, Deaths, Starting, Transfers
  <2>3. ChipOK'
    BY <1>6 DEF Report, Derived, ChipOK, Detectors
  <2>4. WorldOK'
    BY <1>6 DEF Report, Derived, WorldOK
  <2>. QED  BY <2>1, <2>2, <2>3, <2>4
<1>7. CASE Die
  <2>1. GsOK'
    BY <1>7 DEF Die, GsOK, Orient, Deaths, Tasks
  <2>2. TasksOK'
    BY <1>7 DEF Die, GsOK, TasksOK, Orient, Deaths, Starting, Transfers
  <2>3. ChipOK'
    BY <1>7 DEF Die, ChipOK, Detectors
  <2>4. WorldOK'
    BY <1>7 DEF Die, WorldOK
  <2>. QED  BY <2>1, <2>2, <2>3, <2>4
<1>8. CASE ArmFirst \/ DisarmActivity \/ ArmInactivity \/ DisarmInactivity \/ ArmActivity
  <2>1. armed \in SUBSET Detectors
    BY DEF ChipOK
  <2>. QED  BY <1>8, <2>1, <1>2 DEF ArmFirst, DisarmActivity, ArmInactivity, DisarmInactivity,
                ArmActivity, Transfers, Detectors
<1>. QED  BY <1>1, <1>2, <1>3, <1>4, <1>5, <1>6, <1>7, <1>8 DEF Worker

LEMMA OthersType == TypeOK /\ (Manager \/ GotConn \/ Chip \/ World) => TypeOK'
<1>. SUFFICES ASSUME TypeOK, Manager \/ GotConn \/ Chip \/ World PROVE TypeOK'
  OBVIOUS
<1>. USE DEF TypeOK, gsvars, worker, appvars, manager, chip, world
<1>1. CASE GotConn
  <2>1. GsOK'
    BY <1>1 DEF GotConn, GsOK, Orient, Deaths, Tasks
  <2>2. TasksOK'
    BY <1>1 DEF GotConn, GsOK, TasksOK, Orient, Deaths, Starting, Transfers
  <2>3. ChipOK'
    BY <1>1 DEF GotConn, ChipOK, Detectors
  <2>4. WorldOK'
    BY <1>1 DEF GotConn, WorldOK
  <2>. QED  BY <2>1, <2>2, <2>3, <2>4
<1>2. CASE WifiTakes
  <2>1. GsOK'
    BY <1>2 DEF WifiTakes, Take, GsOK, Orient, Deaths, Tasks
  <2>2. TasksOK'
    BY <1>2 DEF WifiTakes, Take, GsOK, TasksOK, Orient, Deaths, Starting, Transfers
  <2>3. ChipOK'
    BY <1>2 DEF WifiTakes, Take, ChipOK, Detectors
  <2>4. WorldOK'
    BY <1>2 DEF WifiTakes, Take, WorldOK
  <2>. QED  BY <2>1, <2>2, <2>3, <2>4
<1>3. CASE WifiSample
  <2>1. GsOK'
    BY <1>3 DEF WifiSample, Give, Failed, Fails, Succeeded, GsOK, Orient, Deaths, Tasks
  <2>2. TasksOK'
    BY <1>3 DEF WifiSample, Give, Failed, Fails, Succeeded, GsOK, TasksOK, WorldOK,
        Orient, Deaths, Starting, Transfers
  <2>3. ChipOK'
    BY <1>3 DEF WifiSample, Give, Failed, Fails, Succeeded, ChipOK, Detectors
  <2>4. WorldOK'
    BY <1>3 DEF WifiSample, Give, Failed, Fails, Succeeded, WorldOK
  <2>. QED  BY <2>1, <2>2, <2>3, <2>4
<1>4. CASE WifiDerive
  <2>1. GsOK'
    BY <1>4 DEF WifiDerive, Derived, GsOK, Orient, Deaths, Tasks
  <2>2. TasksOK'
    BY <1>4 DEF WifiDerive, Derived, GsOK, TasksOK, Orient, Deaths, Starting, Transfers
  <2>3. ChipOK'
    BY <1>4 DEF WifiDerive, Derived, ChipOK, Detectors
  <2>4. WorldOK'
    BY <1>4 DEF WifiDerive, Derived, WorldOK
  <2>. QED  BY <2>1, <2>2, <2>3, <2>4
<1>5. CASE WifiExit
  <2>1. GsOK'
    BY <1>5 DEF WifiExit, GsOK, Orient, Deaths, Tasks
  <2>2. TasksOK'
    BY <1>5 DEF WifiExit, GsOK, TasksOK, Orient, Deaths, Starting, Transfers
  <2>3. ChipOK'
    BY <1>5 DEF WifiExit, ChipOK, Detectors
  <2>4. WorldOK'
    BY <1>5 DEF WifiExit, WorldOK
  <2>. QED  BY <2>1, <2>2, <2>3, <2>4
<1>6. CASE TellCaller
  <2>1. GsOK'
    BY <1>6 DEF TellCaller, GsOK, Orient, Deaths, Tasks
  <2>2. TasksOK'
    BY <1>6 DEF TellCaller, GsOK, TasksOK, Orient, Deaths, Starting, Transfers
  <2>3. ChipOK'
    BY <1>6 DEF TellCaller, ChipOK, Detectors
  <2>4. WorldOK'
    BY <1>6 DEF TellCaller, WorldOK
  <2>. QED  BY <2>1, <2>2, <2>3, <2>4
<1>7. CASE DeleteWorker
  <2>1. GsOK'
    BY <1>7 DEF DeleteWorker, GsOK, Orient, Deaths, Tasks
  <2>2. TasksOK'
    BY <1>7 DEF DeleteWorker, GsOK, TasksOK, Orient, Deaths, Starting, Transfers
  <2>3. ChipOK'
    BY <1>7 DEF DeleteWorker, ChipOK, Detectors
  <2>4. WorldOK'
    BY <1>7 DEF DeleteWorker, WorldOK
  <2>. QED  BY <2>1, <2>2, <2>3, <2>4
<1>8. CASE Chip
  <2>1. GsOK'
    BY <1>8 DEF Chip, Detect, GsOK, Orient, Deaths, Tasks
  <2>2. TasksOK'
    BY <1>8 DEF Chip, Detect, GsOK, TasksOK, Orient, Deaths, Starting, Transfers
  <2>3. ChipOK'
    BY <1>8 DEF Chip, Detect, ChipOK, Detectors
  <2>4. WorldOK'
    BY <1>8 DEF Chip, Detect, WorldOK
  <2>. QED  BY <2>1, <2>2, <2>3, <2>4
<1>9. CASE Turn
  <2>1. GsOK'
    BY <1>9 DEF Turn, GsOK, Orient, Deaths, Tasks
  <2>2. TasksOK'
    BY <1>9 DEF Turn, GsOK, TasksOK, Orient, Deaths, Starting, Transfers
  <2>3. ChipOK'
    BY <1>9 DEF Turn, ChipOK, Detectors
  <2>4. WorldOK'
    BY <1>9 DEF Turn, WorldOK
  <2>. QED  BY <2>1, <2>2, <2>3, <2>4
<1>10. CASE Settle
  <2>1. GsOK'
    BY <1>10 DEF Settle, GsOK, Orient, Deaths, Tasks
  <2>2. TasksOK'
    BY <1>10 DEF Settle, GsOK, TasksOK, Orient, Deaths, Starting, Transfers
  <2>3. ChipOK'
    BY <1>10 DEF Settle, ChipOK, Detectors
  <2>4. WorldOK'
    BY <1>10 DEF Settle, WorldOK
  <2>. QED  BY <2>1, <2>2, <2>3, <2>4
<1>. QED  BY <1>1, <1>2, <1>3, <1>4, <1>5, <1>6, <1>7, <1>8, <1>9, <1>10 DEF Manager, World


(* Every variable keeps to its values, whatever fails and whoever moves.     *)
THEOREM TypeCorrect == Spec => []TypeOK
<1>1. TypeOK /\ [Next]_vars => TypeOK'
  <2>. SUFFICES ASSUME TypeOK, [Next]_vars PROVE TypeOK'
    OBVIOUS
  <2>1. CASE Next
    BY <2>1, AppType, WorkerType, OthersType DEF Next
  <2>2. CASE UNCHANGED vars
    BY <2>2 DEF vars, gsvars, worker, appvars, manager, chip, world, TypeOK, GsOK, TasksOK,
       ChipOK, WorldOK
  <2>. QED  BY <2>1, <2>2
<1>. QED  BY <1>1, TypeInit, PTL DEF Spec

----------------------------------------------------------------------------
(* One detector *)

(* While sensor_init runs there is no worker, and with the hooks zeroed it   *)
(* gets no further than the probe.                                           *)
Start ==
  /\ app \in Starting \ {"open", "probe"} => dev
  /\ dev /\ app \in Starting \ {"attach"} => wpc = "none"
  /\ wpc = "none" => handle = "null"
  /\ app = "create" => armed = {}

(* Which detectors are armed follows from where the worker is: it takes the  *)
(* armed one down before it puts the other up, whatever it read.             *)
Phase ==
  /\ armed # Detectors
  /\ wpc \in {"wait", "status", "sample", "report", "disarmActivity", "disarmInactivity"} => armed # {}
  /\ wpc = "armInactivity" => armed \subseteq {"GEN2"}
  /\ wpc \in {"arm", "armActivity"} => armed \subseteq {"GEN1"}

(* app_main knows of a death: it is told, or is at the teardown, or will be. *)
Known ==
  \/ "sensor" \in bits
  \/ app \in {"detach", "sleep", "free"}
  \/ app \in {"wifiDown", "wifiUp"} /\ "sensor" \in woken

Dying ==
  /\ handle = "worker" => dev /\ die_bit = "sensor" /\ caller_handle
  /\ wifi # "idle" /\ dev => app \notin Starting
  /\ (wifi = "deleting" \/ wpc = "dead") /\ handle = "worker" => Known

(* What holds until a call fails.                                            *)
Sound ==
  /\ dev /\ app \in Starting \cup {"wait"} /\ (app # "open" => spidev)
  /\ bits = {} /\ wpc \notin {"err", "dead"}
  /\ wifi \notin {"faulty", "deleting", "deleted"}
  /\ isr <=> app = "wait"

(* Before the interrupt is attached the board has not moved.                 *)
Still == ~notified /\ ~moving /\ stat = {} /\ armed \subseteq {"GEN1"} /\ wpc \in {"none", "arm", "wait"}

Heard ==
  failures = 0 =>
    /\ Sound
    /\ ~isr => Still
    /\ Line /\ wpc # "status" => notified

(* Every step keeps Start.                                                   *)
LEMMA StartStep ==
  ASSUME TypeOK, Start, Next
  PROVE  Start'
<1>. USE DEF Start, Starting, TypeOK, ChipOK, gsvars, worker, appvars, manager, chip, world
<1>1. CASE InitOpen
  BY <1>1 DEF InitOpen
<1>2. CASE InitProbe \/ InitReset \/ InitPower \/ InitAccel \/ InitActivity \/ InitInactivity
           \/ InitMap \/ InitQuiet
  BY <1>2 DEF InitProbe, InitReset, InitPower, InitAccel, InitActivity, InitInactivity,
     InitMap, InitQuiet, InitStep, Failed, Fails, Succeeded, Starting, Detectors
<1>3. CASE InitCreate
  BY <1>3 DEF InitCreate
<1>4. CASE InitAttach
  BY <1>4 DEF InitAttach
<1>5. CASE Wake
  BY <1>5 DEF Wake
<1>6. CASE WifiDown
  BY <1>6 DEF WifiDown
<1>7. CASE WifiUp
  BY <1>7 DEF WifiUp
<1>8. CASE DeinitDetach
  BY <1>8 DEF DeinitDetach
<1>9. CASE DeinitSleep
  BY <1>9 DEF DeinitSleep
<1>10. CASE DeinitFree
  BY <1>10 DEF DeinitFree, Zeroed
<1>11. CASE WorkerTakes
  BY <1>11 DEF WorkerTakes, Take, Transfers
<1>12. CASE ArmFirst
  BY <1>12 DEF ArmFirst, Arming, Failed, Fails, Succeeded, Detectors, Transfers
<1>13. CASE DisarmActivity
  BY <1>13 DEF DisarmActivity, Arming, Failed, Fails, Succeeded, Detectors, Transfers
<1>14. CASE ArmInactivity
  BY <1>14 DEF ArmInactivity, Arming, Failed, Fails, Succeeded, Detectors, Transfers
<1>15. CASE DisarmInactivity
  BY <1>15 DEF DisarmInactivity, Arming, Failed, Fails, Succeeded, Detectors, Transfers
<1>16. CASE ArmActivity
  BY <1>16 DEF ArmActivity, Arming, Failed, Fails, Succeeded, Detectors, Transfers
<1>17. CASE NotifyTake
  BY <1>17 DEF NotifyTake
<1>18. CASE ReadStatus
  BY <1>18 DEF ReadStatus, Failed, Fails, Succeeded, Handles
<1>19. CASE Sample
  BY <1>19 DEF Sample, Failed, Fails, Succeeded
<1>20. CASE Report
  BY <1>20 DEF Report
<1>21. CASE Die
  BY <1>21 DEF Die
<1>22. CASE GotConn
  BY <1>22 DEF GotConn
<1>23. CASE WifiTakes
  BY <1>23 DEF WifiTakes
<1>24. CASE WifiSample
  BY <1>24 DEF WifiSample, Failed, Fails, Succeeded
<1>25. CASE WifiDerive
  BY <1>25 DEF WifiDerive
<1>26. CASE WifiExit
  BY <1>26 DEF WifiExit
<1>27. CASE TellCaller
  BY <1>27 DEF TellCaller
<1>28. CASE DeleteWorker
  BY <1>28 DEF DeleteWorker
<1>29. CASE Chip
  BY <1>29 DEF Chip, Detect
<1>30. CASE Turn
  BY <1>30 DEF Turn
<1>31. CASE Settle
  BY <1>31 DEF Settle
<1>. QED
  BY <1>1, <1>2, <1>3, <1>4, <1>5, <1>6, <1>7, <1>8, <1>9, <1>10, <1>11, <1>12, <1>13,
     <1>14, <1>15, <1>16, <1>17, <1>18, <1>19, <1>20, <1>21, <1>22, <1>23, <1>24, <1>25,
     <1>26, <1>27, <1>28, <1>29, <1>30, <1>31 DEF Next, SensorInit, Supervise, Worker,
     Manager, World

LEMMA PhaseStep ==
  ASSUME TypeOK, Start, Phase, Next
  PROVE  Phase'
<1>. USE DEF Start, Phase, Starting, Detectors, TypeOK, ChipOK, gsvars, worker, appvars, manager, chip, world
<1>1. CASE InitOpen
  BY <1>1 DEF InitOpen
<1>2. CASE InitProbe \/ InitReset \/ InitPower \/ InitAccel \/ InitActivity \/ InitInactivity
           \/ InitMap \/ InitQuiet
  BY <1>2 DEF InitProbe, InitReset, InitPower, InitAccel, InitActivity, InitInactivity,
     InitMap, InitQuiet, InitStep, Failed, Fails, Succeeded, Starting, Detectors
<1>3. CASE InitCreate
  BY <1>3 DEF InitCreate
<1>4. CASE InitAttach
  BY <1>4 DEF InitAttach
<1>5. CASE Wake
  BY <1>5 DEF Wake
<1>6. CASE WifiDown
  BY <1>6 DEF WifiDown
<1>7. CASE WifiUp
  BY <1>7 DEF WifiUp
<1>8. CASE DeinitDetach
  BY <1>8 DEF DeinitDetach
<1>9. CASE DeinitSleep
  BY <1>9 DEF DeinitSleep
<1>10. CASE DeinitFree
  BY <1>10 DEF DeinitFree, Zeroed
<1>11. CASE WorkerTakes
  BY <1>11 DEF WorkerTakes, Take, Transfers
<1>12. CASE ArmFirst
  BY <1>12 DEF ArmFirst, Arming, Failed, Fails, Succeeded, Detectors, Transfers
<1>13. CASE DisarmActivity
  BY <1>13 DEF DisarmActivity, Arming, Failed, Fails, Succeeded, Detectors, Transfers
<1>14. CASE ArmInactivity
  BY <1>14 DEF ArmInactivity, Arming, Failed, Fails, Succeeded, Detectors, Transfers
<1>15. CASE DisarmInactivity
  BY <1>15 DEF DisarmInactivity, Arming, Failed, Fails, Succeeded, Detectors, Transfers
<1>16. CASE ArmActivity
  BY <1>16 DEF ArmActivity, Arming, Failed, Fails, Succeeded, Detectors, Transfers
<1>17. CASE NotifyTake
  BY <1>17 DEF NotifyTake
<1>18. CASE ReadStatus
  BY <1>18 DEF ReadStatus, Failed, Fails, Succeeded, Handles
<1>19. CASE Sample
  BY <1>19 DEF Sample, Failed, Fails, Succeeded
<1>20. CASE Report
  BY <1>20 DEF Report
<1>21. CASE Die
  BY <1>21 DEF Die
<1>22. CASE GotConn
  BY <1>22 DEF GotConn
<1>23. CASE WifiTakes
  BY <1>23 DEF WifiTakes
<1>24. CASE WifiSample
  BY <1>24 DEF WifiSample, Failed, Fails, Succeeded
<1>25. CASE WifiDerive
  BY <1>25 DEF WifiDerive
<1>26. CASE WifiExit
  BY <1>26 DEF WifiExit
<1>27. CASE TellCaller
  BY <1>27 DEF TellCaller
<1>28. CASE DeleteWorker
  BY <1>28 DEF DeleteWorker
<1>29. CASE Chip
  BY <1>29 DEF Chip, Detect
<1>30. CASE Turn
  BY <1>30 DEF Turn
<1>31. CASE Settle
  BY <1>31 DEF Settle
<1>. QED
  BY <1>1, <1>2, <1>3, <1>4, <1>5, <1>6, <1>7, <1>8, <1>9, <1>10, <1>11, <1>12, <1>13,
     <1>14, <1>15, <1>16, <1>17, <1>18, <1>19, <1>20, <1>21, <1>22, <1>23, <1>24, <1>25,
     <1>26, <1>27, <1>28, <1>29, <1>30, <1>31 DEF Next, SensorInit, Supervise, Worker,
     Manager, World

LEMMA DyingStep ==
  ASSUME TypeOK, Start, Dying, Next
  PROVE  Dying'
<1>. USE DEF Start, Dying, Known, Starting, gsvars, worker, appvars, manager, chip, world
<1>1. CASE InitOpen
  BY <1>1 DEF InitOpen
<1>2. CASE InitProbe \/ InitReset \/ InitPower \/ InitAccel \/ InitActivity \/ InitInactivity
           \/ InitMap \/ InitQuiet
  BY <1>2 DEF InitProbe, InitReset, InitPower, InitAccel, InitActivity, InitInactivity,
     InitMap, InitQuiet, InitStep, Failed, Fails, Succeeded, Starting, Detectors
<1>3. CASE InitCreate
  BY <1>3 DEF InitCreate
<1>4. CASE InitAttach
  BY <1>4 DEF InitAttach
<1>5. CASE Wake
  BY <1>5 DEF Wake
<1>6. CASE WifiDown
  BY <1>6 DEF WifiDown
<1>7. CASE WifiUp
  BY <1>7 DEF WifiUp
<1>8. CASE DeinitDetach
  BY <1>8 DEF DeinitDetach
<1>9. CASE DeinitSleep
  BY <1>9 DEF DeinitSleep
<1>10. CASE DeinitFree
  BY <1>10 DEF DeinitFree, Zeroed
<1>11. CASE WorkerTakes
  BY <1>11 DEF WorkerTakes, Take, Transfers
<1>12. CASE ArmFirst
  BY <1>12 DEF ArmFirst, Arming, Failed, Fails, Succeeded, Detectors, Transfers
<1>13. CASE DisarmActivity
  BY <1>13 DEF DisarmActivity, Arming, Failed, Fails, Succeeded, Detectors, Transfers
<1>14. CASE ArmInactivity
  BY <1>14 DEF ArmInactivity, Arming, Failed, Fails, Succeeded, Detectors, Transfers
<1>15. CASE DisarmInactivity
  BY <1>15 DEF DisarmInactivity, Arming, Failed, Fails, Succeeded, Detectors, Transfers
<1>16. CASE ArmActivity
  BY <1>16 DEF ArmActivity, Arming, Failed, Fails, Succeeded, Detectors, Transfers
<1>17. CASE NotifyTake
  BY <1>17 DEF NotifyTake
<1>18. CASE ReadStatus
  BY <1>18 DEF ReadStatus, Failed, Fails, Succeeded, Handles
<1>19. CASE Sample
  BY <1>19 DEF Sample, Failed, Fails, Succeeded
<1>20. CASE Report
  BY <1>20 DEF Report
<1>21. CASE Die
  BY <1>21 DEF Die
<1>22. CASE GotConn
  BY <1>22 DEF GotConn
<1>23. CASE WifiTakes
  BY <1>23 DEF WifiTakes
<1>24. CASE WifiSample
  BY <1>24 DEF WifiSample, Failed, Fails, Succeeded
<1>25. CASE WifiDerive
  BY <1>25 DEF WifiDerive
<1>26. CASE WifiExit
  BY <1>26 DEF WifiExit
<1>27. CASE TellCaller
  BY <1>27 DEF TellCaller
<1>28. CASE DeleteWorker
  BY <1>28 DEF DeleteWorker
<1>29. CASE Chip
  BY <1>29 DEF Chip, Detect
<1>30. CASE Turn
  BY <1>30 DEF Turn
<1>31. CASE Settle
  BY <1>31 DEF Settle
<1>. QED
  BY <1>1, <1>2, <1>3, <1>4, <1>5, <1>6, <1>7, <1>8, <1>9, <1>10, <1>11, <1>12, <1>13,
     <1>14, <1>15, <1>16, <1>17, <1>18, <1>19, <1>20, <1>21, <1>22, <1>23, <1>24, <1>25,
     <1>26, <1>27, <1>28, <1>29, <1>30, <1>31 DEF Next, SensorInit, Supervise, Worker,
     Manager, World

LEMMA HeardStep ==
  ASSUME TypeOK, Start, Phase, Dying, Heard, ~MovesEarly, Next
  PROVE  Heard'
<1>. USE DEF Start, Phase, Dying, Heard, Sound, Still, Line, Starting, Detectors, Transfers,
         TypeOK, ChipOK, WorldOK, gsvars, worker, appvars, manager, chip, world
<1>1. CASE InitOpen
  BY <1>1 DEF InitOpen
<1>2. CASE InitProbe \/ InitReset \/ InitPower \/ InitAccel \/ InitActivity \/ InitInactivity
           \/ InitMap \/ InitQuiet
  <2>1. ASSUME NEW at \in Starting \ {"open"}, NEW next \in Starting \ {"open"},
               NEW wipes, NEW sleeps, InitStep(at, next, wipes, sleeps)
        PROVE  Heard'
    <3>1. /\ app = at
          /\ \/ Failed("init") /\ app' = "wait"
             \/ Succeeded /\ app' = next /\ armed' = armed \ wipes /\ stat' = stat \ wipes
          /\ UNCHANGED <<gsvars, wpc, notified, bits, wifi, isr, moving>>
      BY <2>1 DEF InitStep
    <3>2. CASE failures' # 0
      BY <3>2
    <3>3. CASE failures' = 0
      <4>1. failures = 0 /\ Succeeded
        BY <2>1, <3>1, <3>3 DEF Failed, Fails, Succeeded
      <4>2. app' = next /\ armed' = armed \ wipes /\ stat' = stat \ wipes
        BY <2>1, <3>1, <4>1 DEF Failed, Succeeded
      <4>3. ~isr /\ Still
        BY <2>1, <3>1, <4>1
      <4>4. stat' = {} /\ armed' \subseteq {"GEN1"}
        BY <4>2, <4>3
      <4>. QED  BY <2>1, <3>1, <4>1, <4>2, <4>3, <4>4
    <3>. QED  BY <3>2, <3>3
  <2>. QED  BY <1>2, <2>1 DEF InitProbe, InitReset, InitPower, InitAccel, InitActivity,
                InitInactivity, InitMap, InitQuiet
<1>3. CASE InitCreate
  BY <1>3 DEF InitCreate
<1>4. CASE InitAttach
  BY <1>4 DEF InitAttach
<1>5. CASE Wake
  BY <1>5 DEF Wake
<1>6. CASE WifiDown
  BY <1>6 DEF WifiDown
<1>7. CASE WifiUp
  BY <1>7 DEF WifiUp
<1>8. CASE DeinitDetach
  BY <1>8 DEF DeinitDetach
<1>9. CASE DeinitSleep
  BY <1>9 DEF DeinitSleep
<1>10. CASE DeinitFree
  BY <1>10 DEF DeinitFree, Zeroed
<1>11. CASE WorkerTakes
  BY <1>11 DEF WorkerTakes, Take, Transfers
<1>12. CASE ArmFirst
  <2>1. failures' = 0 => failures = 0 /\ wpc' = "wait" /\ armed' = armed \cup {"GEN1"}
    BY <1>12 DEF ArmFirst, Arming, Failed, Fails, Succeeded
  <2>2. failures' = 0 => Sound'
    BY <1>12, <2>1 DEF ArmFirst, Arming
  <2>3. failures' = 0 => (~isr => Still)' /\ (Line /\ wpc # "status" => notified)'
    BY <1>12, <2>1 DEF ArmFirst, Arming
  <2>. QED  BY <2>2, <2>3
<1>13. CASE DisarmActivity
  BY <1>13 DEF DisarmActivity, Arming, Failed, Fails, Succeeded, Detectors, Transfers
<1>14. CASE ArmInactivity
  BY <1>14 DEF ArmInactivity, Arming, Failed, Fails, Succeeded, Detectors, Transfers
<1>15. CASE DisarmInactivity
  BY <1>15 DEF DisarmInactivity, Arming, Failed, Fails, Succeeded, Detectors, Transfers
<1>16. CASE ArmActivity
  BY <1>16 DEF ArmActivity, Arming, Failed, Fails, Succeeded, Detectors, Transfers
<1>17. CASE NotifyTake
  BY <1>17 DEF NotifyTake
<1>18. CASE ReadStatus
  BY <1>18 DEF ReadStatus, Failed, Fails, Succeeded, Handles
<1>19. CASE Sample
  BY <1>19 DEF Sample, Failed, Fails, Succeeded
<1>20. CASE Report
  BY <1>20 DEF Report
<1>21. CASE Die
  BY <1>21 DEF Die
<1>22. CASE GotConn
  BY <1>22 DEF GotConn
<1>23. CASE WifiTakes
  BY <1>23 DEF WifiTakes
<1>24. CASE WifiSample
  BY <1>24 DEF WifiSample, Failed, Fails, Succeeded
<1>25. CASE WifiDerive
  BY <1>25 DEF WifiDerive
<1>26. CASE WifiExit
  BY <1>26 DEF WifiExit
<1>27. CASE TellCaller
  BY <1>27 DEF TellCaller
<1>28. CASE DeleteWorker
  BY <1>28 DEF DeleteWorker
<1>29. CASE Chip
  <2>1. PICK g \in Detectors : Detect(g)
    BY <1>29 DEF Chip
  <2>2. failures' = failures /\ isr' = isr /\ wpc' = wpc
    BY <2>1 DEF Detect
  <2>3. failures = 0 => Sound'
    BY <2>1 DEF Detect
  <2>4. failures = 0 => isr
    BY <2>1 DEF Detect, Sees
  <2>5. failures = 0 => (Line /\ wpc # "status" => notified)'
    BY <2>1, <2>4 DEF Detect
  <2>. QED  BY <2>2, <2>3, <2>4, <2>5
<1>30. CASE Turn
  BY <1>30 DEF Turn
<1>31. CASE Settle
  BY <1>31 DEF Settle
<1>. QED
  BY <1>1, <1>2, <1>3, <1>4, <1>5, <1>6, <1>7, <1>8, <1>9, <1>10, <1>11, <1>12, <1>13,
     <1>14, <1>15, <1>16, <1>17, <1>18, <1>19, <1>20, <1>21, <1>22, <1>23, <1>24, <1>25,
     <1>26, <1>27, <1>28, <1>29, <1>30, <1>31 DEF Next, SensorInit, Supervise, Worker,
     Manager, World

----------------------------------------------------------------------------
(* The theorems *)

LEMMA Stutters ==
  ASSUME UNCHANGED vars
  PROVE  /\ Start => Start'
         /\ Phase => Phase'
         /\ Dying => Dying'
         /\ Heard => Heard'
BY DEF vars, gsvars, worker, appvars, manager, chip, world, Start, Phase, Dying, Known, Heard,
   Sound, Still, Line

LEMMA StartAlways == Spec => [](TypeOK /\ Start)
<1>1. Init => Start
  BY DEF Init, Start, Starting
<1>2. TypeOK /\ Start /\ [Next]_vars => Start'
  <2>. SUFFICES ASSUME TypeOK, Start, [Next]_vars PROVE Start'
    OBVIOUS
  <2>1. CASE Next
    BY <2>1, StartStep
  <2>2. CASE UNCHANGED vars
    BY <2>2, Stutters
  <2>. QED  BY <2>1, <2>2
<1>. QED  BY <1>1, <1>2, TypeCorrect, PTL DEF Spec

(* The worker never waits with no detector armed, nor are both ever armed:   *)
(* sensor_task's arming calls may fail anywhere, its reading of the status   *)
(* return anything, and the sensor be torn down meanwhile.                   *)
THEOREM OneDetectorAlways == Spec => []WaitsForOneDetector
<1>1. Init => Phase
  BY DEF Init, Phase, Detectors
<1>2. TypeOK /\ Start /\ Phase /\ [Next]_vars => Phase'
  <2>. SUFFICES ASSUME TypeOK, Start, Phase, [Next]_vars PROVE Phase'
    OBVIOUS
  <2>1. CASE Next
    BY <2>1, PhaseStep
  <2>2. CASE UNCHANGED vars
    BY <2>2, Stutters
  <2>. QED  BY <2>1, <2>2
<1>3. Phase => WaitsForOneDetector
  BY DEF Phase, WaitsForOneDetector
<1>. QED  BY <1>1, <1>2, <1>3, StartAlways, PTL DEF Spec

(* A worker that is gone is known to app_main, whether it ended itself in    *)
(* sensor_task or was deleted by sensor_get_immediate_orientation.           *)
THEOREM DeathAlwaysKnown == Spec => []DeathIsKnown
<1>1. Init => Dying
  BY DEF Init, Dying, Known
<1>2. TypeOK /\ Start /\ Dying /\ [Next]_vars => Dying'
  <2>. SUFFICES ASSUME TypeOK, Start, Dying, [Next]_vars PROVE Dying'
    OBVIOUS
  <2>1. CASE Next
    BY <2>1, DyingStep
  <2>2. CASE UNCHANGED vars
    BY <2>2, Stutters
  <2>. QED  BY <2>1, <2>2
<1>3. Dying => DeathIsKnown
  BY DEF Dying, Known, DeathIsKnown
<1>. QED  BY <1>1, <1>2, <1>3, StartAlways, PTL DEF Spec

(* Until a call fails, every rising edge of INT1 is a notification the       *)
(* worker still has to take, wherever sensor_task is when it comes, provided *)
(* the board lies still until the interrupt is attached.                     *)
THEOREM EdgesAlwaysHeard ==
  ASSUME ~MovesEarly
  PROVE  Spec => []LineIsHeard
<1>1. Init => Phase /\ Dying /\ Heard
  BY DEF Init, Phase, Detectors, Dying, Known, Heard, Sound, Still, Line, Starting
<1>2. TypeOK /\ Start /\ Phase /\ Dying /\ Heard /\ [Next]_vars => Phase' /\ Dying' /\ Heard'
  <2>. SUFFICES ASSUME TypeOK, Start, Phase, Dying, Heard, [Next]_vars PROVE Phase' /\ Dying' /\ Heard'
    OBVIOUS
  <2>1. CASE Next
    BY <2>1, PhaseStep, DyingStep, HeardStep
  <2>2. CASE UNCHANGED vars
    BY <2>2, Stutters
  <2>. QED  BY <2>1, <2>2
<1>3. Heard => LineIsHeard
  BY DEF Heard, LineIsHeard
<1>. QED  BY <1>1, <1>2, <1>3, StartAlways, PTL DEF Spec

====
