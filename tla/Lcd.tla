---- MODULE Lcd ----
(***************************************************************************)
(* The two-row display: the wrapper (lcd.c), the HD44780 driver under it,  *)
(* the controller at the end of the bus, and the Wi-Fi manager, which      *)
(* writes a screen per role and looks at no result.                        *)
(*                                                                         *)
(* A call is a sequence of steps: transfers, and assignments to lcd_dev    *)
(* between them.  A transfer that fails ends the call where it is, with    *)
(* the byte not sent, sent, or half sent.  An HD44780 that got half a byte *)
(* is out of step with its driver until it is initialised again; what it   *)
(* shows until then is left open.                                          *)
(***************************************************************************)
EXTENDS Naturals, Sequences

CONSTANTS
  Cols,        (* LCD_COL_CNT (16)                                          *)
  Ram,         (* columns of a row in the display's memory (40)             *)
  MaxCalls,    (* bound: calls of the API outside the manager's screens     *)
  MaxLcdFailures  (* bound: failing transfers                               *)

ASSUME LcdAssumption ==
  /\ Cols \in Nat \ {0} /\ Ram \in Nat /\ Ram >= 2 * Cols
  /\ MaxCalls \in Nat /\ MaxLcdFailures \in Nat

VARIABLES
  chip,    (* the HD44780: ram, cursor, in step with its driver             *)
  lcd_dev, (* lcd_init_state, lcd_mutex, lcd_row_pinning and the cursor     *)
  writer,  (* the screen the manager is writing and the calls it has left   *)
  result,  (* of the last call                                              *)
  calls, lcd_failures

lcd_vars == <<chip, lcd_dev, writer, result, calls, lcd_failures>>

Row   == {0, 1}
Blank == <<"blank", 0>>
Text(id, len) == [i \in 1 .. len |-> <<id, i>>]
Cleared == [r \in Row |-> [c \in 0 .. Ram - 1 |-> Blank]]

----------------------------------------------------------------------------
(* The display *)

(* A written character moves the cursor on, from the end of one row's memory *)
(* to the other row.                                                         *)
Put(c, ch) ==
  LET r == c.cursor[1]
      k == c.cursor[2]
  IN [c EXCEPT !.ram[r][k] = ch,
               !.cursor = IF k + 1 < Ram THEN <<r, k + 1>> ELSE <<1 - r, 0>>]

Transfer(c, b) ==
  IF ~c.in_step THEN c
  ELSE CASE b.cmd = "clear"  -> [c EXCEPT !.ram = Cleared, !.cursor = <<0, 0>>]
         [] b.cmd = "gotoxy" -> [c EXCEPT !.cursor = b.at]
         [] b.cmd = "putc"   -> Put(c, b.ch)

----------------------------------------------------------------------------
(* The calls, as steps *)

ClearDisplay    == [cmd |-> "clear"]
GoTo(row, col)  == [cmd |-> "gotoxy", at |-> <<row, col>>]
PutChar(ch)     == [cmd |-> "putc", ch |-> ch]
SetPos(at)      == [cmd |-> "pos", at |-> at]
SetPins(pins)   == [cmd |-> "pins", pins |-> pins]
IsTransfer(b)   == b.cmd \in {"clear", "gotoxy", "putc"}

lcd_clear == <<SetPos(<<0, 0>>), SetPins({}), ClearDisplay>>

(* Spaces from wherever the display's cursor is, then the start of the row   *)
(* that is not pinned.                                                       *)
lcd_clear_row ==
  LET spaces == [i \in 1 .. Cols |-> PutChar(Blank)]
  IN CASE lcd_dev.pins = {}  -> lcd_clear
       [] lcd_dev.pins = {0} -> Append(spaces, GoTo(1, 0))
       [] lcd_dev.pins = {1} -> Append(spaces, GoTo(0, 0))

(* After the last column of a row the text goes on in row 1, pinned or not.  *)
Characters(text) ==
  LET put == [i \in 1 .. Len(text) |-> PutChar(text[i])]
  IN IF Len(text) < Cols THEN put
     ELSE SubSeq(put, 1, Cols) \o <<GoTo(1, 0)>> \o SubSeq(put, Cols + 1, Len(text))

(* Mutant: the position is not put back after lcd_clear zeroed it.           *)
lcd_printf_home(text) ==
  LET old == lcd_dev.pos
  IN (IF lcd_dev.pins # {} THEN lcd_clear_row
                           ELSE Append(lcd_clear, GoTo(old[1], old[2])))
     \o Characters(text) \o <<GoTo(old[1], old[2])>>

lcd_printf(text) ==
  LET old == lcd_dev.pos
  IN (IF lcd_dev.pins # {} THEN lcd_clear_row
                           ELSE Append(lcd_clear, GoTo(old[1], old[2])))
     \o Characters(text) \o <<SetPos(old), GoTo(old[1], old[2])>>

(* Mutant: the cursor stays in the row that was pinned.                      *)
lcd_row_pin_stays(row) ==
  LET pins == lcd_dev.pins \cup {row}
      at   == IF pins = Row THEN <<1, Cols - 1>> ELSE <<row, 0>>
  IN <<SetPins(pins), SetPos(at), GoTo(at[1], at[2])>>

lcd_row_pin(row) ==
  LET pins == lcd_dev.pins \cup {row}
      at   == IF pins = Row THEN <<1, Cols - 1>> ELSE <<1 - row, 0>>
  IN <<SetPins(pins), SetPos(at), GoTo(at[1], at[2])>>

lcd_row_unpin(row) ==
  <<SetPins(lcd_dev.pins \ {row}), SetPos(<<0, 0>>), GoTo(0, 0)>>

lcd_set_cursor(row, col) == <<SetPos(<<row, col>>), GoTo(row, col)>>

----------------------------------------------------------------------------
(* Running a call *)

Step(d, b) ==
  CASE b.cmd = "pos"  -> [d EXCEPT !.dev.pos = b.at]
    [] b.cmd = "pins" -> [d EXCEPT !.dev.pins = b.pins]
    [] OTHER          -> [d EXCEPT !.chip = Transfer(@, b)]

(* The display and lcd_dev after the first k steps.                          *)
Ran(steps) ==
  LET run[k \in 0 .. Len(steps)] ==
        IF k = 0 THEN [chip |-> chip, dev |-> lcd_dev] ELSE Step(run[k - 1], steps[k])
  IN run

(* The mutex of a display that did not start was deleted and lcd_dev still   *)
(* names it: taking it may hold the caller for ever, or do nothing.          *)
Locked == lcd_dev.mutex = "live"

Succeeds(steps) ==
  /\ LET d == Ran(steps)[Len(steps)] IN chip' = d.chip /\ lcd_dev' = d.dev
  /\ result' = "OK" /\ UNCHANGED lcd_failures

FailsMidway(steps) ==
  /\ lcd_failures < MaxLcdFailures /\ lcd_failures' = lcd_failures + 1
  /\ \E k \in DOMAIN steps :
       /\ IsTransfer(steps[k])
       /\ \/ LET d == Ran(steps)[k - 1] IN
               /\ lcd_dev' = d.dev
               /\ chip' \in {d.chip, [d.chip EXCEPT !.in_step = FALSE]}
          \/ LET d == Ran(steps)[k] IN lcd_dev' = d.dev /\ chip' = d.chip
  /\ result' = "error"

Refused(code) == result' = code /\ UNCHANGED <<chip, lcd_dev, lcd_failures>>

(* lcd_ops_lock, the test of lcd_init_state, and the call.                   *)
Call(steps) ==
  /\ Locked \/ lcd_dev.mutex = "deleted"
  /\ IF lcd_dev.on THEN Succeeds(steps) \/ FailsMidway(steps) ELSE Refused("invalid_state")

Printf(text) ==
  IF lcd_dev.on /\ lcd_dev.pins = Row THEN Locked /\ Refused("both_pinned")
                                      ELSE Call(lcd_printf(text))
ClearRow ==
  IF lcd_dev.on /\ lcd_dev.pins = Row THEN Locked /\ Refused("nothing_to_clear")
                                      ELSE Call(lcd_clear_row)

(* A mutex that was deleted holds the caller, one that is NULL panics.       *)
Stuck == ~Locked /\ result' = "stuck" /\ UNCHANGED <<chip, lcd_dev, lcd_failures>>

----------------------------------------------------------------------------
(* lcd_init, lcd_deinit *)

Started == [ram |-> Cleared, cursor |-> <<0, 0>>, in_step |-> TRUE]
Off     == [on |-> FALSE, mutex |-> "none", pins |-> {}, pos |-> <<0, 0>>]

(* A second lcd_init makes a new mutex and deletes it again.                 *)
Initialise ==
  \/ /\ ~lcd_dev.on
     /\ chip' = Started /\ lcd_dev' = [lcd_dev EXCEPT !.on = TRUE, !.mutex = "live"]
     /\ result' = "OK" /\ UNCHANGED lcd_failures
  \/ /\ ~lcd_dev.on /\ lcd_failures < MaxLcdFailures /\ lcd_failures' = lcd_failures + 1
     /\ chip' \in {chip, Started, [chip EXCEPT !.in_step = FALSE]}
     /\ lcd_dev' = [lcd_dev EXCEPT !.mutex = "deleted"] /\ result' = "error"
  \/ /\ lcd_dev.on /\ lcd_dev' = [lcd_dev EXCEPT !.mutex = "deleted"]
     /\ result' = "invalid_state" /\ UNCHANGED <<chip, lcd_failures>>

Deinitialise ==
  /\ Locked /\ lcd_dev.on
  /\ lcd_dev' = Off /\ result' = "OK" /\ UNCHANGED <<chip, lcd_failures>>

----------------------------------------------------------------------------
(* Who calls *)

NoScreen == [screen |-> "none", title |-> <<>>, line |-> <<>>, todo |-> <<>>, clean |-> TRUE]

(* The manager's two screens: title pinned in row 0, an address under it.    *)
Screen(name, n, m) ==
  [screen |-> name, title |-> Text(name, n), line |-> Text("address", m),
   todo |-> <<"clear", "title", "pin", "line">>, clean |-> TRUE]

Free == result # "stuck"

Begin(name) ==
  /\ Free /\ writer.todo = <<>>
  /\ \E n, m \in 1 .. Cols : writer' = Screen(name, n, m)
  /\ UNCHANGED <<chip, lcd_dev, result, calls, lcd_failures>>

Write ==
  /\ Free /\ writer.todo # <<>>
  /\ \/ CASE Head(writer.todo) = "clear" -> Call(lcd_clear)
          [] Head(writer.todo) = "title" -> Printf(writer.title)
          [] Head(writer.todo) = "pin"   -> Call(lcd_row_pin(0))
          [] Head(writer.todo) = "line"  -> Printf(writer.line)
     \/ Stuck
  /\ writer' = [writer EXCEPT !.todo = Tail(@), !.clean = @ /\ result' = "OK"]
  /\ UNCHANGED calls

(* Whatever else the API offers, called by anyone in any order; an access    *)
(* point that did not start has its address printed all the same.            *)
Otherwise ==
  /\ Free /\ writer.todo = <<>> /\ calls < MaxCalls /\ calls' = calls + 1
  /\ writer' = NoScreen
  /\ \/ Initialise \/ Deinitialise \/ Call(lcd_clear) \/ Stuck
     \/ \E n \in 0 .. 2 * Cols : Printf(Text("text", n))
     \/ \E r \in Row : Call(lcd_row_pin(r)) \/ Call(lcd_row_unpin(r))
     \/ \E r \in Row, c \in 0 .. Cols - 1 : Call(lcd_set_cursor(r, c))

ClearOtherRow ==
  /\ Free /\ writer.todo = <<>> /\ calls < MaxCalls /\ calls' = calls + 1
  /\ writer' = NoScreen /\ ClearRow

(* app_main goes on when lcd_init fails.                                     *)
Boot ==
  /\ result = "boot" /\ Initialise /\ UNCHANGED <<writer, calls>>

LcdInit ==
  /\ chip = [Started EXCEPT !.in_step = FALSE]
  /\ lcd_dev = Off /\ writer = NoScreen /\ result = "boot"
  /\ calls = 0 /\ lcd_failures = 0

LcdNext ==
  \/ Boot
  \/ /\ result # "boot"
     /\ \/ Begin("pairing_code") \/ Begin("station_IP")
        \/ Write \/ Otherwise \/ ClearOtherRow

LcdSpec == LcdInit /\ [][LcdNext]_lcd_vars

----------------------------------------------------------------------------
Shown(r) == [c \in 1 .. Cols |-> chip.ram[r][c - 1]]
Padded(text) == [c \in 1 .. Cols |-> IF c <= Len(text) THEN text[c] ELSE Blank]

(* Whatever was pinned, written, half written or failed before, a screen the *)
(* manager writes without a failure shows its title and its address, and     *)
(* nothing of what was there.                                                *)
ScreenIsRight ==
  writer.screen # "none" /\ writer.todo = <<>> /\ writer.clean /\ chip.in_step
    => Shown(0) = Padded(writer.title) /\ Shown(1) = Padded(writer.line)

(* After a call that succeeds the display's cursor is where lcd_dev has it,  *)
(* also after calls that failed halfway.  lcd_clear_row is the exception: it *)
(* moves the display's cursor and not lcd_dev's.                             *)
CursorIsKnown ==
  [][Write \/ Otherwise =>
       (result' = "OK" /\ chip'.in_step /\ lcd_dev'.on => chip'.cursor = lcd_dev'.pos)]_lcd_vars
====
