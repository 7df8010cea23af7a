# esp32-display-orientation in TLA+

An ESP32 board with an accelerometer is fixed to a monitor. When the board is
turned it tells a PC over Wi-Fi, and a daemon on the PC turns the screen with
`xrandr`. This directory holds TLA+ models of the program, the TLC runs that
check them on small instances, and TLAPS proofs for every instance.

Paths below are relative to the repository. `wifi_mgr.c` is
`mcu/components/wifi_manager/wifi_mgr.c`; `sensor.c` and `bma400.c` are in
`mcu/components/BMA400_SensorAPI/`, `lcd.c` in `mcu/components/HD44780_LCD_I2C/`;
`main.c`, `netlink_monitor.c` and `ap_provision.c` are in `client/source/`.

Contents: [the system](#the-system) ·
[modules](#the-modules) · [runs](#the-runs) · [fairness](#fairness) ·
[refinement](#refinement) · [proofs](#the-proofs) ·
[findings](#where-the-code-and-its-documents-part) ·
[not modelled](#what-is-not-modelled) · [use](#how-to-run)

## The system

```
 BOARD                                                  PC
 sensor ISR -> sensor task --orientation--+     wrapper (shell) -- starts --> daemon main
   (sensor.c)      ^                      v                                      |   ^
                   |               [queue of 10] <-- event handler               |   | ip_changed
                   +--- immediate --- dispatcher        (ESP event task)         v   | (atomic)
                        reading      (wifi_task)  <====== TCP ======>  session loop | watcher thread
 app_main: starts both, restarts     |    ^                            | fork       +-- netlink socket
           what says it died         v    |                            xrandr
                                    LCD   +== TCP, access point ==== ap_provision == nmcli, ap_prov.creds
```

| component | state | operations | interacts through |
|---|---|---|---|
| Wi-Fi manager (`wifi_mgr.c`) | link flags, three descriptors, staged credentials, retry budgets | 12 messages of one dispatcher; driver events | queue (`xQueueSend` without waiting), `self_disconnect`, lwIP, esp_wifi, NVS |
| sensor (`sensor.c`) | the static `gs`, the worker task, last orientation reported | init, worker loop, immediate reading, deinit | ISR notification, callback into the queue, SPI mutex |
| application (`mcu/main/main.c`) | death bits | start, wait for a death bit, restart | task notifications |
| BMA400 driver (`bma400.c`) | the chip's registers | read, change a field, write back | SPI |
| LCD wrapper (`lcd.c`) | cursor, pinned rows, mutex | print, pin, clear | calls of the manager |
| PC daemon (`main.c`) | interface list, the board's interface, orientation wanted and shown | enumerate, discover, session loop, rotate, heal | UDP, TCP, `fork`, the watcher's flags |
| netlink watcher (`netlink_monitor.c`) | one-shot thread, quit request | bind, poll, parse, raise | `ip_changed`, `quit_netlink`, SIGTERM |
| session wrapper (`service/autostart/esp_daemon-session`) | child pid, exit status | spawn, wait, restart, trap | signals |
| wire protocol (`common/`) | none | checksum, packets | -- |
| provisioning tool (`ap_provision.c`) | credential file, terminal, saved network | set, reset key, clear, provision | nmcli, TCP to the board's access point |

**What is hard.** The board's dispatcher and the driver's event task share a
queue that loses what does not fit, and one flag. A step of a reconnection is
always a message somebody posted, so a lost or missing post stops the manager
for good. lwIP hands descriptors out again, so a stale number names another's
socket. Credentials take effect at a later message than the one that brought
them, with power cycles in between. The sensor's interrupt is an edge of a
latched line: an edge nobody takes is the last one there is. Three tasks use
its state, and two of them delete or zero it. On the PC the watcher is a thread
that runs once per session and shares two flags with it; discovery resets both.
On the connection, a command is repeated every second while the PC may still be
busy with the first copy, and TCP may hand several answers to one `recv`. The
provisioning tool holds a secret prompt, a half-written file and a PC taken off
its network at different moments, and may fail or be killed in each.

**What makes it correct.** Manager: it always has something to do or to wait
for, its sockets are those of its role, retries end, flash holds accepted
credentials only, a lost network is acted on. Sensor: no edge is lost, one
detector is armed, a board at rest has been reported as it lies, a dead worker
is known. Daemon: one watcher, no session unwatched, a session ends for its own
interface's changes, what is recorded as shown is shown, a failed rotation is
made good. Link: a command ends, a manager at rest has been heard, the screen
comes to the last orientation sent. Tool: the network and password sent are
those stored, success means that the board took them, echo and network come back.
Drivers: what is read back was written, a screen shows what was put on it.

## The modules

| module | models | state to code |
|---|---|---|
| `LwipSockets` | lwIP descriptors (external) | lowest free number, `close` of any number |
| `WifiManager` | `wifi_mgr.c` | `ws`, `ds`, `wehss` and the handler's statics under their own names; `out[t]` are posts a task has still to make |
| `SensorTask` | `sensor.c`, `mcu/main/main.c` | the fields of `gs`; `wpc`, `app`, `wifi` say where the worker, app_main and the manager are; `armed`, `stat`, `isr` are the chip and the line |
| `OrientLink` | sensor task, `wifi_mgr_send_command`, GOT_CONN, session loop | the manager's queue and stamps, the two directions of one TCP connection, the PC's two orientations |
| `PcDaemon` | `main.c`, `netlink_monitor.c`, the wrapper | `gs`, main's locals; `mpc`, `npc`, `shell` say where the three processes are |
| `ApProvision` | `ap_provision.c`, `wifi_mgr_get_router_creds` | `at` is the next step of a run; file, echo, the PC's network and the board outlive it |
| `Bma400` | `bma400.c` as `sensor.c` calls it | `regs`: the chip's registers, a byte as the set of its bits |
| `Detectors` | -- | what `SensorTask` takes for granted of the driver |
| `Samples` | decoding, sums, mean, axis | `batch`: the sums of one batch |
| `Lcd` | `lcd.c`, the HD44780 calls under it | `lcd_dev` and the display's memory and cursor |
| `WireChecksum` | `common/common.c` | the bytes of one packet |
| `*Proofs`, `Induction` | -- | theorems; `DriverProofs` is about `Bma400` and `Lcd`, `ArithmeticProofs` about `Samples` and `WireChecksum` |
| `MC*` | -- | model values for TLC; `MCDrivers` puts the four small modules side by side |

`WifiManager` has one action per message of `wifi_task`'s switch and one for
`wifi_event_handler`. A message is handled in one step up to its posts, and the
posts leave one `xQueueSend` at a time, so that the event task and commands come
in between; while a case blocks it shares nothing else with other tasks, and
what they do meanwhile may as well come before it. Every call that can fail is
a branch, enabled by its layer in `MayFail`. Deriving keys and decrypting is
one outcome: accepted, rejected, or the peer gone.

`SensorTask` takes two steps for a transfer of the worker or the manager: the
SPI mutex is taken, and the transfer ends and gives it back. What app_main does
on the bus is one step that needs the mutex free. Where the code
uses a NULL mutex, a deleted task or a freed queue, the board may reset
(`panicked`) or nothing shows.

`OrientLink` joins board and PC over a connection. The board's chain of messages
from the discovery socket to accept is one message, `"connect"`, because the
station stays on its network here; `WifiManager` has the chain itself. A stamp
is the least number that nothing of this boot still carries, which is all that
matters of `esp_timer_get_time`.

`PcDaemon` has one action per step of main between two blocking or shared
operations. Reading the flag is an atomic exchange in the code (`Check`) and
one step here. The rotation is a state of its own, since the network and X
change while `xrandr` runs. X (`x`) runs an `xrandr`, refuses it or keeps it
waiting: `waitpid` at `main.c:595` has no timeout, so a main that rotates, or
looks for the display, while X hangs does not go on before X does. When the
daemon dies over an `xrandr`, the child turns the display at once, later or
never; `Die` decides which at the death. The only death there is to a rotation
is SIGTERM, after which the wrapper starts no daemon that could see the
difference. The board, its address and packets do not appear.

`ApProvision` runs the tool again and again. A field is its length, a key a
model value, and a file opens under the key it was written with or not at all.
An attempt takes the stored blob apart by the lengths of its fields, and steps
over the password wrongly: what it reads for the BSSID's flag stands somewhere
in the SSID or the password (`ap_provision.c:1485`). `chance` is what these
fields have there -- nothing that reads as a flag, a flag that no address
follows, or a flag and an address -- and `Chances` which of these their lengths
allow. `Unpacked` is what goes into the packet: the file's BSSID never, an
address found by chance if there is one; `Unpack` refuses credentials with a
flag alone.
The board keeps the connections in the order it will serve them: one from an
earlier attempt, whose packets the tool has given up on, may still be answered
and even accepted while the present one waits.

`Bma400` and `Lcd` write byte by byte and character by character; a transfer
that fails ends the call where it is. `Stored` and `Transfer` are the chip and
the display as their data sheets and the drivers' use of them have it.

History variables record what properties speak of and no action reads: in
`WifiManager` `dropped`, `missed`, `acked`; in `PcDaemon` `moved`, `killed`; in
`OrientLink` `posted`, `delivered`; in `ApProvision` `last`, `accepted`, `owed`,
`strayed`; in `Samples` `seen`; in `WireChecksum` `changed`.

## The runs

| run | question | states |
|---|---|---|
| `wifi_network` | power cycles, disconnects or address changes in any order: `NeverStranded`, `RoleMatchesSockets`, `NeverLeftOffline`, `OnNetworkLeadsToReachable` | 901,413 |
| `wifi_failures` | any call fails, commands in the queue, two credentials: also `TypeOK` (budgets), `OnlyAckedCredsPersist` | 216,842 |
| `sensor_task` | turns, brief movements, readings by the manager, two failing calls: `LineIsHeard`, `WaitsForOneDetector`, `DeathIsKnown`, `TurnedPoseIsReported` | 240,918 |
| `orient_link` | resends, late and coalesced answers, reboots, broken sessions, hanging rotations: `RestMeansDelivered`, `CommandResolves`, `ScreenComesRight` | 504,040 |
| `pc_daemon` | two interfaces, every failure: `OneWatcher`, `NeverUnwatched`, `FlagConcernsSession`, `LastOrientIsOnScreen` | 3,848,953 |
| `pc_live` | an interface lost and found, an X that refuses or hangs: `JoinReturns`, `NoticedChangeEndsSession`, `HealsItself` | 159,638 |
| `provisioning` | two runs of any verb, a failing call and a kill or a board restart anywhere: `EchoComesBack`, `FinishedStoreIsReadable`, `SendsWhatWasStored`, `SuccessMeansDelivered`, `SuccessRestores`, `RestoredAfterSession`, `AttemptsEnd` | 1,457,125 |
| `drivers` | the four modules below the tasks: `ScreenIsRight`, `CursorIsKnown`, `RunsAsConfigured`, `GenConfReadsBack`, `ImplementsDetectors`, `UnanimousBatch`, `OneChangeIsNoticed` | 468,267 |
| `wifi_swallowed`, `sensor_restart`, `pc_supervised`, `ap_bssid` | one statement of a comment each, which the code does not keep | counterexamples |

Every property of a passing run has a mutant in its module, marked as such: a
definition changed as a plausible bug would, under which TLC finds the property
violated. The mutants are used by no specification.

**Bounds, and why they are enough.** All are constants, named where they are
declared.

- Retry caps of the manager 1 (5, 2 or 10 in the code). Every cap is tested by
  `==` and reset on some paths; one turn below, at and past the cap is what
  distinguishes the paths. The tool's resends and attempts are 2 (50 and 10),
  so that an attempt follows one that failed after a resend. The proofs hold for
  every cap.
- Queues of 4 (10 in the code; 2 for the link): full and not full both occur,
  and the largest reply of one case (two posts) meets the largest of the other
  task. Three descriptors: one each for discovery, listener and peer; a leak
  then shows at once.
- Incidents 1 to 3: two disconnects around one stop, or an address change
  during the rediscovery an earlier one started, are the interactions of the
  event task with the dispatcher; the third lets them meet a power cycle.
  Failures and three incidents together are too large, hence two runs.
- Two addresses and two interfaces: one that found the board, one that did not.
  In `pc_live` one interface with one address, lost and got again, which is
  the change that ends a session, and three incidents: X hangs during a
  rotation, the address goes, X lets go. Two orientations: equal to the last or
  not. Two commands: a second one behind a failed first.
- `MaxStamps` 5: at most the command in hand, its copies and answers, an older
  command's copies, and the stamp the PC echoed last are about at once.
- One resend of a command (`SEND_COUNTER_MAX` is 4): with it a late answer to
  the first copy and the answer to the second are both under way when the next
  command goes.
- Sensor: two turns, so that a board turns back before the first turn is
  reported; two readings, so that the second meets what the first deleted; two
  failures, so that the second comes after a restart.
- Tool: two runs, one to write the file and one to use it or to find it half
  written; two keys, one of them wrong; a password of 14 and an SSID of 14 or of none,
  one that is accepted and one that is refused. With the first the flag is looked for at
  the start of the password, and every `chance` occurs.
- Display: two columns, four of memory, so that a text fills a row, wraps and
  overflows. Accelerometer: starts from the power-on registers and from
  registers with every bit set. Samples: zero, the extremes and the signs around
  them, with batches of three and two. Packets: payloads of up to three bytes
  with a 0, a 1 and a 255.

Deadlock is not checked: a manager that has exited, a daemon after logout or a
world out of incidents does stop.

Symmetry is used for interfaces, addresses, orientations and credentials in
runs with invariants only.

## Fairness

`WifiManager`: weak fairness of the dispatcher's handling, the event task's
handling, and each task's next post; FreeRTOS runs a task that has work.
`SensorTask`: weak fairness of app_main, worker and manager for the same reason,
of the chip, which samples at 100 Hz, and of a movement's end. `PcDaemon`: weak
fairness of main, watcher and wrapper, because the kernel runs processes that
are not blocked, and both receives have a timeout. The wait for `xrandr` has
none: `Rotate` and `Detect` are not enabled while X hangs, fairness
does not end them, and `NoticedChangeEndsSession` has the premise that X does
not hang for good (`<>[](x # "hangs")`). Without it the property is false: a
change noticed during a rotation that never returns ends nothing. `OrientLink`: weak fairness
of the sensor task, the dispatcher and the daemon. `ApProvision`: weak fairness
of the steps of an attempt, each of which has a timeout. Nothing is assumed of
the network, the router, the peer, X, power or the user: no action of theirs has
fairness.

A failing call is a branch of a fair action, and fairness of the action must
not force the failure: `pc_live` leaves the failure of `pthread_join` out,
since a join that is waiting could otherwise only "make progress" by failing,
and would hide a watcher that never returns. An `xrandr` that hangs is not fair
in `OrientLink`; `CommandResolves` holds nevertheless.

`SensorTask` has one assumption of timing, in `Settle`: a movement lasts until
the worker waits again and the armed detector has seen it. Without it a board
could come to rest before the inactivity detector is armed, and nothing would
be promised. With `MovesEarly = FALSE` the board lies still until the interrupt
handler is attached; see the early edge below.

## Refinement

`Detectors` says what `sensor.c` needs of the driver, and what `SensorTask`
assumes: a start that succeeds leaves both detectors off, arming or disarming
one is a single step that leaves the other alone, and a call that fails did what
it was asked or nothing. `Bma400` writes registers byte by byte, over whatever
they held, and reads two registers to change one bit; `ImplementsDetectors` is
`Detectors!Spec` under the mapping `armed <- {the enable bits set in INT_CONF}`,
`ready <- driver = "running"`. `drivers` checks it on two contents of the
registers, and `DriverImplementsDetectors` proves it for all.

## The proofs

TLAPS proves, for every value of the constants, of `Spec` of each module:

| theorem | states | rests on |
|---|---|---|
| `TypeCorrect` | types, queue length, retry caps of `WifiManager` | one lemma per case of the dispatcher |
| `RolesCorrect` | `RoleMatchesSockets` | `TypeOK`; inductive as it stands, through `RoleKept`, `RoleGivenUp`, `RoleOpened` |
| `CredsCorrect` | `OnlyAckedCredsPersist` | `CredsInv`: what is staged was acknowledged too |
| `ThreadAlwaysHeld` | `NeverStranded` | `Thread` |
| `TypeCorrect` (`SensorTaskProofs`) | types of `SensorTask` | one lemma per task |
| `OneDetectorAlways`, `DeathAlwaysKnown` | `WaitsForOneDetector`, `DeathIsKnown` | `Start`, `Phase`, `Known`, `Dying` |
| `EdgesAlwaysHeard` | `LineIsHeard` unless `MovesEarly` | `Sound`, `Heard` |
| `UnanimousAlways` | `UnanimousBatch` | the lead of a sum |
| `ChangeAlwaysNoticed` | `OneChangeIsNoticed` | sums of bytes by induction |
| `StartedInOrder`, `AlwaysAsConfigured` | `StartInv`, `RunsAsConfigured` | `StartInv`: `SetUp` after each call of the start |
| `SettingsTakeEffect` | a whole `bma400_set_sensor_conf` of a generic interrupt: settings as `get_gen1_int` and `get_gen2_int` read them, routing added or taken away, nothing else touched | `GenCall`, `RoutesApart` |
| `SettingsAlwaysReadBack` | `GenConfReadsBack` | `SettingsReadBack`: the eleven bytes of one interrupt |
| `DriverImplementsDetectors` | `ImplementsDetectors` | `StartInv`; every action is a step of `Detectors` or a stutter |
| `LcdInvariant`, `ScreenAlwaysRight` | `LcdInv`, `ScreenIsRight` | `LcdInv`: `Progress` of the calls of a screen |
| `CursorAlwaysKnown` | `CursorIsKnown` | `LcdInv`, and what each call leaves |
| `PcTypeCorrect` | types | `Turning`: a rotation has a real target |
| `PcOneWatcher`, `PcNeverUnwatched` | the watcher's life | `Watched` = `Joined`, `Known`, `Clean` |
| `PcFlagConcernsSession` | a session ends for its own interface | `Watched` and `Moves` = `Listed`, `Held`, `Reported` |
| `PcScreenRecorded` | `LastOrientIsOnScreen` | inductive as it stands |
| `LinkTypeCorrect` | types, resends | `Turning`, `Sending` |
| `LinkRestMeansDelivered` | `RestMeansDelivered` | `Delivery` |
| `ApTypeCorrect` | types, the counters of prompts, resends and attempts | `Typed`, `Route` |
| `EchoAlwaysBack` | `EchoComesBack` | `Echoing` |
| `StoreAlwaysReadable`, `StoredIsSent` | `FinishedStoreIsReadable`, `SendsWhatWasStored` | `Stored`, `Route` |
| `SuccessIsDelivery` | `SuccessMeansDelivered` | `Delivered` = `Held`, `Accepting` |
| `SuccessAlwaysRestores` | `SuccessRestores` | `Homeward` |
| `SessionAlwaysRestores` | `RestoredAfterSession` | `Route` |

*Thread.* `NeverStranded` speaks of a manager with an empty queue. `Held` says of
every state that something which must be answered is under way -- a message in
the queue, a post still to be made, an event the handler answers, a connection
attempt of the driver, or a PC being served. A stop would end that; `Ordered`
says that behind every stop, in the queue or among its sender's posts, there is
a start. The theorem assumes no lost post and no disconnect taken for the
manager's own (`dropped`, `missed`): the second is a finding.

*Sensor.* `Phase` ties the detectors armed to the worker's place in its
loop, `Start` to app_main's place in `sensor_init`; together they give one
detector per wait. `Known` and `Dying` follow a death from the worker's end, or
its deletion by the manager, to the notification. `Heard` says that a line which
is high is a notification not yet taken or a status not yet read, and
`Still` what holds before the interrupt handler is attached. `EdgesAlwaysHeard`
has `~MovesEarly` as a hypothesis; with early movement the statement is false.

*Samples.* If all samples read point the same way, each has a strict lead of the
axis it points along over the two others, at least one per sample. The
sum of n leads is at least n, and survives a division by n that truncates
towards zero.

*Induction.* A call of a driver sends its bytes one after the other, and a
checksum adds them so; the models say this with functions that recur on the
number of steps made (`Stages`, `Ran`, `Sums`). The library's theorem of
induction takes an operator, which the provers here cannot supply. Its
first-order half will do: a set of naturals has a least member (`WFMin`,
`NatLessThanWellFounded`). `RangeInduction` takes from it that a set with 0 in
it, and with k + 1 for every k it has below n, has all of `0 .. n`. It is used
twice for each function: the set of lengths up to which the recursion has a
solution gives the equation of the function, and the set of steps at which an
assertion holds gives what a whole call does.

*The sensor's start.* `RunsAsConfigured` says what thirteen calls have left.
`StartInv` says it of a start under way: if n calls are made, what is still to
call is `Left(n)` and `SetUp(regs, n)` holds, a conjunct for every call from the
one that sets its registers. Each call is shown to set its own conjunct from
whatever the registers held, and by the frame lemmas (a write leaves
other registers alone, `SetBits` other fields) to undo none before it. A start
that fails leaves `"dead"`, of which nothing is said. While the driver runs, the
two calls that arm or disarm change INT_CONF only, and of that one bit; this is
also the simulation of `Detectors`: the last call of the start is `Started`, a
call of the worker that succeeds is `Switch`, one that fails is `GiveUp`,
and what happens outside `"running"` is `Unready`.

*A setting.* `SettingsTakeEffect` joins what one call does to two places: the
interrupt's own eleven registers and the three that route all of them.
`SettingsReadBack` is about the first, `RoutesApart` says that no two interrupts
share a bit of the second, and the frame lemmas keep the two apart. It is about
the registers: `bma400_get_sensor_conf` decodes the channel into a local variable
(`bma400.c:1641`) and hands its caller the settings only.

*A screen.* `ScreenIsRight` speaks of a finished screen. `Progress(k)` is what
the next of the four calls counts on when k are left: after the clear no row is
pinned and the position is home; after the title the title stands in row 0;
after the pin row 0 is pinned and both cursors are at the start of row 1, so
that the line cannot overwrite the title. `LcdInv` adds that a display that is
off is at home, and that the position is one of the display's. A text's loop is followed
character by character: until it has filled the row, what is on it is what was
there with the characters so far laid over. `Progress` is claimed for a screen in
which no transfer failed, as is `ScreenIsRight`.

*Watched.* `NeverUnwatched` alone is not inductive: main could be in a session
with a quit request left from the last one. `Joined` says that no thread exists
before main starts one, `Known` that main knows whether it does, and `Clean` that
the quit request is down from the reset to the end of the session, and the flag
from the reset to its start.

*Moves.* A raised flag must concern this session. `Listed` and `Held` follow an
address from the enumeration to the session: it is still the interface's, or the
interface moved. `Reported` says the same of every notification that would raise
the flag.

*Delivery.* `RestMeansDelivered` says nothing while a command is in hand. Then
(`InHand`) nothing follows a copy of the command in the stream but other copies;
once an answer to it is under way, or the PC has taken one copy, its orientation
is the last one taken and only copies are left. A new command has a stamp on
nothing that is under way, so it starts with no answer; whatever older answers
arrive do not carry its stamp. After the answer what is left in the stream says
the same orientation again (`Rested`). `LastIs` ties the queue to `posted`, and
`Phases` shows that `"connect"` is not queued during a connection, so that the
immediate reading is never the one message a full queue refuses while the queue
holds no orientation.

*The tool.* `Route` says which verb passes through which step and that nothing
is written but from the start of the file; with it `Stored` -- whatever opens
holds the credentials stored last -- is inductive. `Held` says that all the
connections but the newest have been given up, that the tool has sent nothing but
its present credentials on that one, and that it has answers in its buffer only
while it holds it; `Accepting` that an acceptance, from the buffer to
the exit status, means that these credentials were accepted and no connection
is left at the board that could be served after them. `Homeward` says that the
PC is on the board's network only while a restore is still to come, and that
nothing but the user's network was ever saved. What is on the connection is the
entry unpacked: `StoredIsSent` and `SuccessIsDelivery` are about the network and
the password, since the BSSID that goes is not the file's.

Assumptions on constants (`ConstantsAssumption`, `NumSockAssumption` and their
like): numbers are naturals, a queue has at least one place, there is at least
one descriptor, one try and one attempt, sentinels are not members of the sets
they stand outside of, readings have 12 bits.

Every invariant and every action property of the runs is a theorem, and so is
the refinement.

**Only model-checked.** Liveness under fairness and `ENABLED` are beyond the
prover: `NeverLeftOffline`, `OnNetworkLeadsToReachable`, `JoinReturns`,
`NoticedChangeEndsSession`, `HealsItself`, `CommandResolves`, `ScreenComesRight`,
`TurnedPoseIsReported`, `AttemptsEnd`. `LineIsHeard` is proved for a board that
lies still until its interrupt handler is attached. The refutations are runs.

## Where the code and its documents part

Each has a run that finds it.

- `wifi_swallowed`: STA_STOP sets `self_disconnect` for a station that is off
  the network and raises no event; the next real disconnect is ignored, and the
  manager waits for ever (`wifi_mgr.c:1661`, against 1980-1983).
- `sensor_restart`: `sensor_deinit` zeroes the driver's hooks, which only a
  static initializer sets; the `sensor_init` that app_main calls next fails, and
  its result is ignored (`sensor.c:780`, against 759-760 and `mcu/main/main.c:14-15`).
- `pc_supervised`: after a netlink error the daemon ends itself with SIGTERM "so
  that the supervisor restarts it", and the wrapper takes 143 for a logout.
- `ap_bssid`: the second step through the stored blob sets the position where it
  should add to it, so that a stored BSSID is never sent; by what the SSID or
  the password have at the place looked at, well-formed credentials may be refused
  as "malformed BSSID in credentials file" or go with another address
  (`ap_provision.c:1485`, against 1434-1436).

Seen while modelling, without a run of their own:

Wi-Fi manager

- `wifi_mgr.c:1113`: a second GOT_IP starts a second chain of messages; `accept`
  overwrites the descriptor of the connection the first chain made.
- `wifi_mgr.c:1050-1052`: a connection the PC has left is noticed only when the
  board is turned; until then the board does not answer a new discovery.
- `wifi_mgr.c:1371`: when the provisioning answer cannot be sent the staged
  credentials are wiped and the pending-write flag is not; a later
  CREATE_UDP_SOCKET can write blanks over the stored network. Blanks are
  no network to join, which is why `OnlyAckedCredsPersist` allows them.
- `wifi_mgr.c:1921`: the orientation cached in `goc` is never read, although
  1912-1915 and `wifi_mgr.h:39-42` say it is replayed; a fresh reading at the next
  connection does the work.
- `wifi_mgr.c:1859`: a board that lies flat from boot has no orientation; at the
  first connection the manager takes that for a dead sensor and shuts down.
- `wifi_mgr.c:2112`: the dying manager notifies the address of
  `gs.caller_handle` instead of the handle, so app_main never learns of it.
- `wifi_mgr.c:699`: `driver_deinit` clears the interface handles before it would
  destroy them.
- `is_sta_up` is true while the radio is still connecting, and may be true
  together with `is_ap_up`; pending credentials may be written by a
  CREATE_UDP_SOCKET left over from an earlier connection.

Sensor and application

- `sensor.c:743`: the worker arms the activity detector before the interrupt
  handler is attached. An edge in between is seen by nobody, the latched line
  stays high, and no further edge can come.
- `sensor.c:913`: the result of reading the status is not looked at; when the
  read fails the latch stays, with the same effect.
- `sensor.c:946`: the reading sent at a new connection is not recorded as
  reported; a board turned and turned back meanwhile leaves the PC with the pose
  half way. A full queue has the same effect, since what it refuses is recorded
  as sent.
- `sensor.c:878`: the manager deletes the worker wherever it is. If it holds the
  SPI mutex, app_main's `sensor_deinit` waits for it for ever; with no worker the
  NULL handle deletes the manager itself.
- `sensor.c:971`: the death bit is read when the worker dies. After a teardown
  it is bit 0, the manager's, and app_main restarts a manager that lives.
- The interrupt handler keeps the handle of a deleted worker.
- `sensor_init` leaves everything allocated when it fails.

PC daemon

- `main.c:595`: an `xrandr` that hangs holds the session for as long as it does;
  neither a change of address nor the next command is looked at meanwhile.
- `main.c:596`: an `xrandr` ended by a signal counts as a rotation made.
  `LastOrientIsOnScreen` sets this outcome apart.
- `main.c:989`: the output's name is resolved once; if X was not up it stays
  `HDMI1` and every rotation of a display of another name fails.
- The PC answers a command whether or not the screen turned
  (`common.h:224` says it answers when it has applied it); its healer makes this good
  while the daemon lives.
- The watcher is bound after discovery; a change in between is left to TCP
  keepalive.
- `esp_daemon-session:101`: a SIGTERM between the spawn and the note of the
  child's pid leaves the child running.

Provisioning tool

- `ap_provision.c:1547-1551`: a join of the board's access point that fails may
  have taken the PC off its network, and is not followed by a restore, although
  1398 has one "on every exit path out of provisioning". `RestoredAfterSession`
  says it of every way out that comes after the join.
- `wifi_mgr.c:1332`: an SSID of 32 or a password of 64 characters fills its
  array and is always refused as malformed.
- `ap_provision.c:1911-1929`: `--set_creds` asks for the key of a populated file
  and does not check it against the file.
- `ap_provision.c:1812-1845`: a good flag on the last try reads as a failure, and
  three bad ones as none, after which the blob goes without a flag.
- `ap_provision.c:2039`: `--reset_key` truncates before the new key is read and
  confirmed; a mistyped confirmation loses the credentials.
- After a failed restore the next attempt saves the board's own access point as
  the user's network; a restore that fails after an acceptance provisions again,
  as it does after a refusal that cannot change.
- A kill leaves the echo off and the PC where it is.

Display and drivers

- A text that fills row 0 goes on in row 1, pinned or not; unpinning or moving
  the cursor may put it into a pinned row, and `lcd_clear_row` writes its spaces
  from wherever the display's cursor is. `ScreenIsRight` is about the screens the
  manager writes, which do neither.
- A half-sent byte leaves the display out of step until it is initialised again.
- A second `lcd_init` deletes the mutex in use; one that fails leaves a
  deleted mutex behind, which the manager then takes (app_main goes on).
- `bma400_map_int_pin` only adds channels; `get_sensor_conf` sets `int_chan` in
  a copy; `get_orient_int` masks the wrong byte (2384, 2386).
- The checksum is a sum: it does not notice bytes that changed places.

## What is not modelled

- Key derivation and encryption: which key opens what, and one outcome on the
  board. Discovery packets, malformed packets, partial reads of a packet (each is
  a turn of a loop the models have); an acknowledgement split over two
  receives more than fifteen seconds apart.
- BMA400 calls without a caller: FIFO, taps, step counter, orientation change,
  auto wake-up and low power, temperature, self-test. HD44780 calls without
  one: cursor shapes, backlight, scrolling, custom characters. The unused half
  of either is vendored register access of the same kind.
- The prerequisites of app_main (NVS, network interface, buses), which abort
  the boot when they fail.
- Logging, which is output; the install scripts, which are file operations of
  one user, run once.
- The whole system in one state space: `SensorTask` has the manager's reading,
  `OrientLink` the way from a reported pose to the screen, `WifiManager` the
  connection's life, `PcDaemon` the other end of it. Their interfaces are the
  posted orientation, `"connect"`, and the session; each module leaves the other
  side of its interface free, within what the other may do.

## How to run

```
tlasany WifiManager.tla
tlc -workers 2 -config WifiNetwork.cfg MCWifiManager
tlc -workers 2 -config SensorTask.cfg  MCSensorTask
tlc -workers 2 -config OrientLink.cfg  MCOrientLink
tlc -workers 2 -config PcDaemon.cfg    MCPcDaemon
tlc -workers 2 -config ApProvision.cfg MCApProvision
tlc -workers 2 -config Drivers.cfg     MCDrivers
tlapm WifiManagerProofs.tla
tlapm DriverProofs.tla
```

`PROJECT.json` lists the runs with their modules, the mutants, the hazards with the properties
that would catch them, the theorems, and for every definition the lines it models.
