---- MODULE Bma400 ----
(***************************************************************************)
(* The register driver of the accelerometer (bma400.c) as sensor.c uses    *)
(* it: a call reads registers, changes fields of them and writes them      *)
(* back, byte by byte.  A transfer that fails ends the call, with the      *)
(* bytes before it written.  The chip keeps its registers through a        *)
(* restart of the board.                                                   *)
(*                                                                         *)
(* A byte is the set of its bits that are 1.                               *)
(***************************************************************************)
EXTENDS Naturals, Sequences

CONSTANTS
  MaxChipFailures,  (* bound: failing calls                                 *)
  MaxReboots        (* bound: restarts of the board                         *)

ASSUME Bma400Assumption == MaxChipFailures \in Nat /\ MaxReboots \in Nat

VARIABLES
  regs,    (* what the chip holds                                           *)
  driver,  (* "boot", "running", "dead": sensor.c's use of it               *)
  todo,    (* calls sensor_init still has to make                           *)
  chip_failures, reboots

chip_vars == <<regs, driver, todo, chip_failures, reboots>>

Weight == <<1, 2, 4, 8, 16, 32, 64, 128>>
Bits(n) == {k \in 0 .. 7 : (n \div Weight[k + 1]) % 2 = 1}
Number(byte) ==
  LET v(k) == IF k \in byte THEN Weight[k + 1] ELSE 0
  IN v(0) + v(1) + v(2) + v(3) + v(4) + v(5) + v(6) + v(7)

(* A field is the run of bits lo .. hi: BMA400_SET_BITS, BMA400_GET_BITS,    *)
(* BMA400_SET_BIT_VAL_0.                                                     *)
SetBits(byte, f, n) == (byte \ (f[1] .. f[2])) \cup {f[1] + k : k \in {j \in Bits(n) : f[1] + j <= f[2]}}
GetBits(byte, f) == Number({k - f[1] : k \in byte \cap (f[1] .. f[2])})
Bit(k) == <<k, k>>

(* Addresses and fields of the registers sensor.c's calls touch.             *)
ACCEL_CONFIG == 25
INT_CONF     == 31
INT_MAP      == 33
INT_12_IO    == 36
GEN1_CONFIG  == 63
GEN2_CONFIG  == 74
COMMAND      == 126
Addr == (25 .. 27) \cup {31, 32} \cup (33 .. 35) \cup {36} \cup (63 .. 73) \cup (74 .. 84)

POWER_MODE == <<0, 1>>
FILT_1_BW == <<7, 7>>
OSR_LP == <<5, 6>>
RANGE == <<6, 7>>
OSR == <<4, 5>>
ODR == <<0, 3>>
DATA_FILTER == <<2, 3>>
AXES_EN == <<5, 7>>
DATA_SRC == <<4, 4>>
REFU == <<2, 3>>
HYST == <<0, 1>>
CRITERION == <<1, 1>>
COMB == <<0, 0>>
PIN1_CONF == <<1, 2>>
MANUAL == 0

(* The values of power-on and of a soft reset.                               *)
Default == [a \in Addr |-> CASE a = 26 -> Bits(73) [] a = 36 -> Bits(34) [] OTHER -> {}]

----------------------------------------------------------------------------
(* Transfers *)

Stored(r, w) ==
  IF w[1] = COMMAND THEN (IF w[2] = Bits(182) THEN Default ELSE r)
                    ELSE [r EXCEPT ![w[1]] = w[2]]

(* The registers after the first k writes.                                   *)
Stages(r, writes) ==
  LET after[k \in 0 .. Len(writes)] == IF k = 0 THEN r ELSE Stored(after[k - 1], writes[k])
  IN after

Written(r, writes) == Stages(r, writes)[Len(writes)]

Read(a, n) == [i \in 1 .. n |-> regs[a + i - 1]]

(* bma400_set_regs: one transfer per byte.                                   *)
set_regs(a, bytes) == [i \in DOMAIN bytes |-> <<a + i - 1, bytes[i]>>]

----------------------------------------------------------------------------
(* Routing: the bits that route an interrupt to the pins, of the three       *)
(* registers from INT_MAP on *)

Interrupts == {"drdy", "fifo_wm", "fifo_full", "overrun", "gen2", "gen1", "orient_ch",
               "wakeup", "act_ch", "tap", "step"}
Channels == {"unmap", "channel_1", "channel_2", "both"}

Own == [drdy |-> 7, fifo_wm |-> 6, fifo_full |-> 5, overrun |-> 4, gen2 |-> 3, gen1 |-> 2,
        orient_ch |-> 1, wakeup |-> 0]
Shared == [act_ch |-> <<3, 7>>, tap |-> <<2, 6>>, step |-> <<0, 4>>]

Route(int) == IF int \in DOMAIN Own THEN <<<<1, Own[int]>>, <<2, Own[int]>>>>
                                    ELSE <<<<3, Shared[int][1]>>, <<3, Shared[int][2]>>>>

Wanted(chan) == CASE chan = "channel_1" -> {1} [] chan = "channel_2" -> {2}
                  [] chan = "both" -> {1, 2}   [] chan = "unmap" -> {}

(* Mutant: whatever routes another interrupt is lost.                        *)
map_int_pin_anew(data, int, chan) ==
  [b \in 1 .. 3 |-> {Route(int)[pin][2] : pin \in {p \in Wanted(chan) : Route(int)[p][1] = b}}]

(* A channel that is asked for is added to those there are; only "unmap"     *)
(* takes any away.                                                           *)
map_int_pin(data, int, chan) ==
  [b \in 1 .. 3 |->
     LET bits(pins) == {Route(int)[pin][2] : pin \in {p \in pins : Route(int)[p][1] = b}}
     IN IF chan = "unmap" THEN data[b] \ bits({1, 2}) ELSE data[b] \cup bits(Wanted(chan))]

get_int_pin_map(data, int) ==
  CHOOSE chan \in Channels :
    Wanted(chan) = {pin \in {1, 2} : Route(int)[pin][2] \in data[Route(int)[pin][1]]}

----------------------------------------------------------------------------
(* The calls: what each writes, in order *)

soft_reset == <<<<COMMAND, Bits(182)>>>>
set_power_mode(mode) == set_regs(ACCEL_CONFIG, <<SetBits(regs[ACCEL_CONFIG], POWER_MODE, mode)>>)

(* bma400_set_sensor_conf reads the routing, writes the settings, and writes *)
(* the routing last.                                                         *)
set_sensor_conf(settings, int, chan) ==
  settings \o set_regs(INT_MAP, map_int_pin(Read(INT_MAP, 3), int, chan))

set_accel_conf(c) ==
  LET d == Read(ACCEL_CONFIG, 3)
  IN set_regs(ACCEL_CONFIG,
       << SetBits(SetBits(d[1], FILT_1_BW, c.filt1_bw), OSR_LP, c.osr_lp),
          SetBits(SetBits(SetBits(d[2], RANGE, c.range), OSR, c.osr), ODR, c.odr),
          SetBits(d[3], DATA_FILTER, c.data_src) >>)

Lsb(n) == Bits(n % 256)
Msb(n) == Bits(n \div 256)

(* set_gen1_int, set_gen2_int: the references only where they are manual.    *)
set_gen_int(a, c) ==
  set_regs(a,
    << SetBits(SetBits(SetBits(SetBits({}, AXES_EN, c.axes_sel), DATA_SRC, c.data_src),
               REFU, c.ref_update), HYST, c.hysteresis),
       SetBits(SetBits({}, CRITERION, c.criterion_sel), COMB, c.evaluate_axes),
       Bits(c.thres), Msb(c.dur), Lsb(c.dur) >>
    \o IF c.ref_update = MANUAL
       THEN << Lsb(c.ref[1]), Msb(c.ref[1]), Lsb(c.ref[2]), Msb(c.ref[2]), Lsb(c.ref[3]), Msb(c.ref[3]) >>
       ELSE <<>>)

(* Mutant: the duration's bytes are taken in the order of the references'.   *)
get_gen_int_swapped(r, a) ==
  LET ref(i) == Number(r[a + i]) + 256 * GetBits(r[a + i + 1], <<0, 3>>)
  IN [axes_sel |-> GetBits(r[a], AXES_EN), data_src |-> GetBits(r[a], DATA_SRC),
      ref_update |-> GetBits(r[a], REFU), hysteresis |-> GetBits(r[a], HYST),
      criterion_sel |-> GetBits(r[a + 1], CRITERION), evaluate_axes |-> GetBits(r[a + 1], COMB),
      thres |-> Number(r[a + 2]), dur |-> 256 * Number(r[a + 4]) + Number(r[a + 3]),
      ref |-> <<ref(5), ref(7), ref(9)>>]

(* get_gen1_int, get_gen2_int: the references have 12 bits.                  *)
get_gen_int(r, a) ==
  LET ref(i) == Number(r[a + i]) + 256 * GetBits(r[a + i + 1], <<0, 3>>)
  IN [axes_sel |-> GetBits(r[a], AXES_EN), data_src |-> GetBits(r[a], DATA_SRC),
      ref_update |-> GetBits(r[a], REFU), hysteresis |-> GetBits(r[a], HYST),
      criterion_sel |-> GetBits(r[a + 1], CRITERION), evaluate_axes |-> GetBits(r[a + 1], COMB),
      thres |-> Number(r[a + 2]), dur |-> 256 * Number(r[a + 3]) + Number(r[a + 4]),
      ref |-> <<ref(5), ref(7), ref(9)>>]

set_int_pin_conf(conf) ==
  set_regs(INT_12_IO, <<SetBits(regs[INT_12_IO], PIN1_CONF, conf)>>)
  \o set_regs(INT_MAP, Read(INT_MAP, 3))

EnableBit == [drdy |-> <<1, 7>>, fifo_wm |-> <<1, 6>>, fifo_full |-> <<1, 5>>, gen2 |-> <<1, 3>>,
              gen1 |-> <<1, 2>>, orient_ch |-> <<1, 1>>, latch |-> <<2, 7>>, actch |-> <<2, 4>>,
              d_tap |-> <<2, 3>>, s_tap |-> <<2, 2>>, step |-> <<2, 0>>]

(* Mutant: the register is written with nothing but the bit asked for.       *)
enable_interrupt_alone(int, conf) ==
  LET e == EnableBit[int]
  IN set_regs(INT_CONF, [b \in 1 .. 2 |-> IF b = e[1] THEN SetBits({}, Bit(e[2]), conf) ELSE regs[INT_CONF + b - 1]])

enable_interrupt(int, conf) ==
  LET e == EnableBit[int]
      d == Read(INT_CONF, 2)
  IN set_regs(INT_CONF, [d EXCEPT ![e[1]] = SetBits(@, Bit(e[2]), conf)])

----------------------------------------------------------------------------
(* sensor.c *)

Accel == [filt1_bw |-> 0, osr_lp |-> 3, range |-> 0, osr |-> 3, odr |-> 8, data_src |-> 0]
Activity == [axes_sel |-> 7, data_src |-> 0, ref_update |-> 2, hysteresis |-> 2,
             criterion_sel |-> 1, evaluate_axes |-> 0, thres |-> 8, dur |-> 1, ref |-> <<0, 0, 0>>]
Inactivity == [Activity EXCEPT !.criterion_sel = 0, !.evaluate_axes = 1, !.dur = 8]
NORMAL == 2
SLEEP  == 0

Start == << "probe", "reset", "normal", "accel", "get_activity", "activity", "get_inactivity",
            "inactivity", "pin", "latch", "gen2_off", "gen1_off", "worker" >>

Writes(call) ==
  CASE call = "reset"      -> soft_reset
    [] call = "normal"     -> set_power_mode(NORMAL)
    [] call = "accel"      -> set_sensor_conf(set_accel_conf(Accel), "drdy", "unmap")
    [] call = "activity"   -> set_sensor_conf(set_gen_int(GEN1_CONFIG, Activity), "gen1", "channel_1")
    [] call = "inactivity" -> set_sensor_conf(set_gen_int(GEN2_CONFIG, Inactivity), "gen2", "channel_1")
    [] call = "pin"        -> set_int_pin_conf(1)
    [] call = "latch"      -> enable_interrupt("latch", 1)
    [] call = "gen1_on"    -> enable_interrupt("gen1", 1)
    [] call = "gen1_off"   -> enable_interrupt("gen1", 0)
    [] call = "gen2_on"    -> enable_interrupt("gen2", 1)
    [] call = "gen2_off"   -> enable_interrupt("gen2", 0)
    [] call = "sleep"      -> set_power_mode(SLEEP)
    [] OTHER               -> <<>>

Done(call) == regs' = Written(regs, Writes(call)) /\ UNCHANGED chip_failures

(* A byte that fails may have been taken or not, and ends the call; so does  *)
(* a failing read, which leaves all as it was.                               *)
Breaks(call) ==
  /\ chip_failures < MaxChipFailures /\ chip_failures' = chip_failures + 1
  /\ \E k \in 0 .. Len(Writes(call)) : regs' = Stages(regs, Writes(call))[k]
  /\ driver' = "dead" /\ todo' = <<>>

sensor_init ==
  /\ driver = "boot" /\ todo # <<>>
  /\ \/ /\ Done(Head(todo)) /\ todo' = Tail(todo)
        /\ driver' = IF Len(todo) = 1 THEN "running" ELSE "boot"
     \/ Breaks(Head(todo))
  /\ UNCHANGED reboots

(* The worker arms and disarms, one detector at a time; an error ends it.    *)
sensor_task(call) ==
  /\ driver = "running"
  /\ \/ Done(call) /\ UNCHANGED <<driver, todo>>
     \/ Breaks(call)
  /\ UNCHANGED reboots

(* The chip is put to sleep; what the driver needs to talk to it again is    *)
(* zeroed with gs.dev.                                                       *)
sensor_deinit ==
  /\ driver = "dead" /\ driver' = "off"
  /\ Done("sleep") \/ (regs' = regs /\ chip_failures < MaxChipFailures
                       /\ chip_failures' = chip_failures + 1)
  /\ UNCHANGED <<todo, reboots>>

Reboot ==
  /\ reboots < MaxReboots /\ reboots' = reboots + 1
  /\ driver' = "boot" /\ todo' = Start /\ UNCHANGED <<regs, chip_failures>>

(* After power-on the chip holds its defaults, after a restart of the board  *)
(* whatever the firmware before left.                                        *)
ChipInit ==
  /\ regs \in {Default, [a \in Addr |-> 0 .. 7]}
  /\ driver = "boot" /\ todo = Start /\ chip_failures = 0 /\ reboots = 0

ChipNext ==
  \/ sensor_init \/ sensor_deinit \/ Reboot
  \/ \E call \in {"gen1_on", "gen1_off", "gen2_on", "gen2_off"} : sensor_task(call)

ChipSpec == ChipInit /\ [][ChipNext]_chip_vars

----------------------------------------------------------------------------
Armed == {g \in {"gen1", "gen2"} : EnableBit[g][2] \in regs[INT_CONF]}

(* What sensor.c's own comments say the chip is set up to do: +-2 g at       *)
(* 100 Hz, awake; activity on any axis and rest on all axes, both on INT1    *)
(* and nothing on INT2; a latched, active-high, push-pull pin.               *)
ConfiguredAsMeant ==
  /\ GetBits(regs[25], POWER_MODE) = NORMAL
  /\ GetBits(regs[26], RANGE) = 0 /\ GetBits(regs[26], ODR) = 8 /\ GetBits(regs[27], DATA_FILTER) = 0
  /\ [get_gen_int(regs, GEN1_CONFIG) EXCEPT !.ref = <<0, 0, 0>>] = Activity
  /\ [get_gen_int(regs, GEN2_CONFIG) EXCEPT !.ref = <<0, 0, 0>>] = Inactivity
  /\ \A int \in Interrupts : get_int_pin_map(Read(INT_MAP, 3), int)
                               = IF int \in {"gen1", "gen2"} THEN "channel_1" ELSE "unmap"
  /\ regs[INT_CONF] \subseteq {2, 3} /\ regs[INT_CONF + 1] = {7}
  /\ GetBits(regs[INT_12_IO], PIN1_CONF) = 1

(* A sensor that has started is set up as meant and stays so, whatever the   *)
(* chip held at boot, and whatever call of an earlier start failed halfway.  *)
RunsAsConfigured == driver = "running" => ConfiguredAsMeant

(* From sensor_init to sensor_deinit, settings as get_gen1_int and           *)
(* get_gen2_int read them are those set_gen1_int and set_gen2_int wrote: all *)
(* of them with manual references, all but the references, which stay,       *)
(* otherwise.  The pin's channel is not among them: bma400_get_sensor_conf   *)
(* decodes it into a local variable (bma400.c:1641).                         *)
GenConfs ==
  [axes_sel : {5, 7}, data_src : {1}, ref_update : {0, 2}, hysteresis : {2}, criterion_sel : {0, 1},
   evaluate_axes : {1}, thres : {8, 255}, dur : {1, 770}, ref : {<<0, 257, 4095>>}]

GenConfReadsBack ==
  driver # "off" => \A c \in GenConfs, a \in {GEN1_CONFIG, GEN2_CONFIG} :
    get_gen_int(Written(regs, set_gen_int(a, c)), a)
      = IF c.ref_update = MANUAL THEN c ELSE [c EXCEPT !.ref = get_gen_int(regs, a).ref]

(* The driver is what SensorTask takes it for.                               *)
AsDetectors == INSTANCE Detectors WITH ready <- driver = "running", armed <- Armed
ImplementsDetectors == AsDetectors!Spec
====
