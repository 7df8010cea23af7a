---- MODULE OrientLink ----
(***************************************************************************)
(* How a turn of the board reaches the screen: the sensor task             *)
(* (BMA400_SensorAPI/sensor.c), the manager's SEND_COMMAND and GOT_CONN    *)
(* (wifi_manager/wifi_mgr.c) and the PC's session loop                     *)
(* (client/source/main.c), over a TCP connection.                          *)
(*                                                                         *)
(* The board sends a command, waits a second at a time for the answer that *)
(* carries its sequence number and sends the same packet again; the PC     *)
(* answers whether or not the screen turned, and turns it later.  TCP      *)
(* keeps the order and loses nothing while a connection lasts, but answers *)
(* come late, several at once, and a recv may read several answers of      *)
(* which only the first is looked at.                                      *)
(*                                                                         *)
(* The station stays on its network here (WifiManager has that part), and  *)
(* "connect" in the queue stands for its chain from CREATE_UDP_SOCKET to   *)
(* ACCEPT_PC_CONN, of which one message is in the queue at a time.         *)
(***************************************************************************)
EXTENDS Integers, Sequences, FiniteSets

CONSTANTS
  Orient,      (* the upright poses                                        *)
  QueueLen,    (* WIFI_QUEUE_LEN                                           *)
  SendMax,     (* SEND_COUNTER_MAX                                         *)
  MaxStamps,   (* bound: stamps of one boot in use at a time               *)
  MaxMoves,    (* bound: turns of the board                                *)
  MaxIncidents,(* bound: reboots, broken sessions and changes of X         *)
  MayFail      (* what may fail, of Layers                                 *)

Layers == {"samples"}

ASSUME ConstantsAssumption ==
  /\ QueueLen \in Nat \ {0} /\ SendMax \in Nat
  /\ MaxStamps \in Nat /\ MaxMoves \in Nat /\ MaxIncidents \in Nat
  /\ {"flat", "invalid", "connect"} \cap Orient = {}
  /\ MayFail \subseteq Layers

VARIABLES
  \* The board's pose; the sensor's state machine and what it reported last.
  pose, moving, reported,
  \* The manager: its queue, where the dispatcher is, the command in hand, its
  \* resends, the boot it counts its stamps in.
  queue, mgr, cmd, send_counter, boot_epoch,
  \* The connection: each end, and what is on its way.
  pc_sock_fd, tcp_sock_fd, down, up,
  \* The PC: where it is, where a rotation returns, the stamp it will echo.
  ppc, ret, rx, desired_orient, last_orient, screen, x,
  \* History: the last orientation queued, the last one a PC took.
  posted, delivered,
  \* Bounds' counters.
  moves, incidents

sensor  == <<pose, moving, reported>>
manager == <<queue, mgr, cmd, send_counter, boot_epoch, posted>>
tcp     == <<pc_sock_fd, tcp_sock_fd, down, up>>
pc      == <<ppc, ret, rx, desired_orient, last_orient, delivered>>
bounds  == <<moves, incidents>>
vars    == <<sensor, manager, tcp, pc, screen, x, bounds>>

Msg   == Orient \cup {"connect"}
Stamp == [seq_us : 0 .. MaxStamps, boot_epoch : Nat]
Cmd   == [seq : Stamp, orient : Orient]
NoCmd == [seq |-> [seq_us |-> 0, boot_epoch |-> 0], orient |-> "invalid"]
Fails(layer) == layer \in MayFail

Init ==
  /\ pose \in Orient \cup {"flat"} /\ moving = FALSE /\ reported = "invalid"
  /\ queue = <<"connect">> /\ mgr = "idle"
  /\ cmd = NoCmd /\ send_counter = 0 /\ boot_epoch = 1
  /\ pc_sock_fd = FALSE /\ tcp_sock_fd = FALSE /\ down = <<>> /\ up = <<>>
  /\ ppc = "away" /\ ret = "recv" /\ rx = NoCmd.seq
  /\ desired_orient = "invalid" /\ last_orient = "invalid" /\ screen \in Orient
  /\ x = "ok" /\ posted = "invalid" /\ delivered = "invalid"
  /\ moves = 0 /\ incidents = 0

(* xQueueSend(..., 0): a full queue loses the message, and nobody is told.   *)
Room(q) == Len(q) < QueueLen
Post(q, m) == queue' = IF Room(q) THEN Append(q, m) ELSE q

(* An orientation is queued.                                                 *)
PostOrient(q, o) ==
  Post(q, o) /\ posted' = IF Room(q) THEN o ELSE posted

----------------------------------------------------------------------------
(* The sensor *)

(* A board lying flat has the orientation it last reported.                  *)
Derived == IF pose = "flat" THEN reported ELSE pose

(* The board settles: its orientation is sent on unless it was reported last. *)
(* Without one good sample nothing is; the sensor waits for the next move.   *)
Settle ==
  /\ moving /\ moving' = FALSE
  /\ \/ /\ Derived # reported
        /\ reported' = Derived /\ PostOrient(queue, Derived)
     \/ Derived = reported /\ UNCHANGED <<reported, queue, posted>>
     \/ Fails("samples") /\ UNCHANGED <<reported, queue, posted>>
  /\ UNCHANGED <<pose, mgr, cmd, send_counter, boot_epoch, tcp, pc, screen, x,
                 bounds>>

----------------------------------------------------------------------------
(* The manager's dispatcher *)

(* SEND_COMMAND without a connection: NOT_READY, the orientation is dropped. *)
NotReady ==
  /\ mgr = "idle" /\ queue # <<>> /\ Head(queue) # "connect" /\ ~pc_sock_fd
  /\ queue' = Tail(queue)
  /\ UNCHANGED <<mgr, cmd, send_counter, boot_epoch, posted, sensor, tcp, pc,
                 screen, x, bounds>>

(* PEER_GONE: the connection is closed and another one waited for.           *)
PeerGone(q) ==
  /\ pc_sock_fd' = FALSE /\ mgr' = "idle" /\ Post(q, "connect")

(* esp_timer_get_time: a new stamp differs from every one of this boot that  *)
(* is still about.  Only that matters of the time, so the least one will do. *)
InUse == {cmd.seq, rx} \cup {down[k].seq : k \in DOMAIN down} \cup {up[k] : k \in DOMAIN up}
Fresh(n) == [seq_us |-> n, boot_epoch |-> boot_epoch] \notin InUse
Now(n) == Fresh(n) /\ \A k \in 0 .. n - 1 : ~Fresh(k)

(* The first send of wifi_mgr_send_command.                                  *)
SendCommand ==
  /\ mgr = "idle" /\ queue # <<>> /\ Head(queue) # "connect" /\ pc_sock_fd
  /\ \/ /\ mgr' = "await" /\ queue' = Tail(queue) /\ send_counter' = 0
        /\ \E n \in 0 .. MaxStamps :
             /\ Now(n)
             /\ cmd' = [seq |-> [seq_us |-> n, boot_epoch |-> boot_epoch],
                        orient |-> Head(queue)]
        /\ down' = IF tcp_sock_fd THEN Append(down, cmd') ELSE down
        /\ UNCHANGED pc_sock_fd
     \/ /\ ~tcp_sock_fd /\ PeerGone(Tail(queue))
        /\ UNCHANGED <<send_counter, cmd, down>>
  /\ UNCHANGED <<boot_epoch, posted, sensor, tcp_sock_fd, up, pc, screen, x, bounds>>

(* Mutant: any answer will do.                                               *)
AnyAnswer(s) == s \in Stamp

(* The answer to the command in hand carries both parts of its stamp.        *)
Answers(s) == s = cmd.seq

(* A recv takes one answer or several at once, and looks at the first.       *)
RecvAck ==
  /\ mgr = "await" /\ up # <<>>
  /\ \E k \in 1 .. Len(up) : up' = SubSeq(up, k + 1, Len(up))
  /\ mgr' = IF Answers(Head(up)) THEN "idle" ELSE "await"
  /\ UNCHANGED <<queue, cmd, send_counter, boot_epoch, posted, sensor,
                 pc_sock_fd, tcp_sock_fd, down, pc, screen, x, bounds>>

(* Mutant: one resend too many.                                              *)
TimeOutLate ==
  /\ mgr = "await"
  /\ \/ /\ send_counter > SendMax /\ PeerGone(queue) /\ UNCHANGED <<send_counter, down>>
     \/ /\ send_counter <= SendMax /\ send_counter' = send_counter + 1
        /\ down' = IF tcp_sock_fd THEN Append(down, cmd) ELSE down
        /\ UNCHANGED <<mgr, queue, pc_sock_fd>>
  /\ UNCHANGED <<cmd, boot_epoch, posted, sensor, tcp_sock_fd, up, pc, screen,
                 x, bounds>>

(* Mutant: the same packet is sent again without end.                        *)
TimeOutForever ==
  /\ mgr = "await"
  /\ down' = IF tcp_sock_fd /\ Len(down) <= SendMax THEN Append(down, cmd) ELSE down
  /\ UNCHANGED <<mgr, queue, pc_sock_fd, send_counter>>
  /\ UNCHANGED <<cmd, boot_epoch, posted, sensor, tcp_sock_fd, up, pc, screen,
                 x, bounds>>

(* A second without an answer -- one may be on its way: the same packet is   *)
(* sent again, SEND_COUNTER_MAX times.                                       *)
TimeOut ==
  /\ mgr = "await"
  /\ \/ /\ send_counter >= SendMax /\ PeerGone(queue) /\ UNCHANGED <<send_counter, down>>
     \/ /\ send_counter < SendMax /\ send_counter' = send_counter + 1
        /\ down' = IF tcp_sock_fd THEN Append(down, cmd) ELSE down
        /\ UNCHANGED <<mgr, queue, pc_sock_fd>>
  /\ UNCHANGED <<cmd, boot_epoch, posted, sensor, tcp_sock_fd, up, pc, screen,
                 x, bounds>>

(* recv finds the connection closed, or send or recv finds it broken.        *)
LosePeer ==
  /\ mgr = "await" /\ ~tcp_sock_fd
  /\ PeerGone(queue)
  /\ UNCHANGED <<cmd, send_counter, boot_epoch, posted, sensor, tcp_sock_fd,
                 down, up, pc, screen, x, bounds>>

TakeConnect ==
  /\ mgr = "idle" /\ queue # <<>> /\ Head(queue) = "connect"
  /\ mgr' = "accept" /\ queue' = Tail(queue)
  /\ UNCHANGED <<cmd, send_counter, boot_epoch, posted, sensor, tcp, pc, screen,
                 x, bounds>>

(* No PC yet: the chain goes on with its next message.                       *)
AcceptAgain ==
  /\ mgr = "accept" /\ mgr' = "idle" /\ Post(queue, "connect")
  /\ UNCHANGED <<cmd, send_counter, boot_epoch, posted, sensor, tcp, pc, screen,
                 x, bounds>>

(* A PC that looks for the board finds it.                                   *)
GotConn ==
  /\ mgr = "accept" /\ ppc = "away"
  /\ pc_sock_fd' = TRUE /\ tcp_sock_fd' = TRUE /\ down' = <<>> /\ up' = <<>>
  /\ ppc' = "heal"
  /\ mgr' = "got_conn"
  /\ UNCHANGED <<queue, cmd, send_counter, boot_epoch, posted, sensor,
                 ret, rx, desired_orient, last_orient, delivered, screen, x, bounds>>

(* Mutant: what was queued while nobody was connected is left to be sent.    *)
PostNothing ==
  /\ mgr = "got_conn" /\ Derived # "invalid"
  /\ mgr' = "idle"
  /\ UNCHANGED <<queue, posted>>
  /\ UNCHANGED <<cmd, send_counter, boot_epoch, sensor, tcp, pc, screen, x, bounds>>

(* The board's orientation is read, settled or not, and queued behind what   *)
(* the sensor has queued; the sensor does not learn of it.  (Four samples    *)
(* take 40 ms and a settling 180: a read that the sensor overtakes has the   *)
(* sensor's value.)                                                          *)
PostImmediate ==
  /\ mgr = "got_conn" /\ Derived # "invalid"
  /\ mgr' = "idle"
  /\ PostOrient(queue, Derived)
  /\ UNCHANGED <<cmd, send_counter, boot_epoch, sensor, tcp, pc, screen, x, bounds>>

(* No orientation is taken for a dead sensor, and the manager shuts down.    *)
SensorFault ==
  /\ mgr = "got_conn" /\ (Derived = "invalid" \/ Fails("samples"))
  /\ mgr' = "stopped" /\ queue' = <<>> /\ pc_sock_fd' = FALSE
  /\ UNCHANGED <<cmd, send_counter, boot_epoch, posted, sensor, tcp_sock_fd,
                 down, up, pc, screen, x, bounds>>

----------------------------------------------------------------------------
(* The PC *)

Heal ==
  /\ ppc = "heal"
  /\ IF desired_orient \in {last_orient, "invalid"}
     THEN ppc' = "recv" /\ UNCHANGED ret
     ELSE ppc' = "rotating" /\ ret' = "recv"
  /\ UNCHANGED <<rx, desired_orient, last_orient, delivered, sensor, manager, tcp, screen, x,
                 bounds>>

(* A command, first copy or not; nothing yet; or the end of the connection,  *)
(* before or after what is still in the stream.                              *)
Recv ==
  /\ ppc = "recv"
  /\ \/ /\ down # <<>> /\ down' = Tail(down)
        /\ rx' = Head(down).seq /\ desired_orient' = Head(down).orient
        /\ delivered' = desired_orient'
        /\ IF desired_orient' = last_orient
           THEN ppc' = "ack" /\ UNCHANGED ret
           ELSE ppc' = "rotating" /\ ret' = "ack"
        /\ UNCHANGED tcp_sock_fd
     \/ /\ down = <<>> /\ ppc' = "heal"
        /\ UNCHANGED <<down, rx, desired_orient, delivered, ret, tcp_sock_fd>>
     \/ /\ ~pc_sock_fd /\ ppc' = "away" /\ tcp_sock_fd' = FALSE /\ down' = <<>>
        /\ UNCHANGED <<rx, desired_orient, delivered, ret>>
  /\ UNCHANGED <<last_orient, sensor, manager, pc_sock_fd, up, screen, x, bounds>>

(* An xrandr that hangs keeps the session with it.                           *)
Rotate ==
  /\ ppc = "rotating" /\ x # "hangs"
  /\ ppc' = ret
  /\ IF x = "ok"
     THEN screen' = desired_orient /\ last_orient' = desired_orient
     ELSE UNCHANGED <<screen, last_orient>>
  /\ UNCHANGED <<ret, rx, desired_orient, delivered, sensor, manager, tcp, x, bounds>>

(* The answer echoes the stamp, whatever became of the rotation.             *)
Ack ==
  /\ ppc = "ack"
  /\ \/ ppc' = "heal" /\ UNCHANGED <<tcp_sock_fd, down>>
        /\ up' = IF pc_sock_fd THEN Append(up, rx) ELSE up
     \/ ~pc_sock_fd /\ ppc' = "away" /\ tcp_sock_fd' = FALSE /\ down' = <<>> /\ UNCHANGED up
  /\ UNCHANGED <<ret, rx, desired_orient, last_orient, delivered, sensor, manager,
                 pc_sock_fd, screen, x, bounds>>

----------------------------------------------------------------------------
(* What happens to them *)

Incident == incidents < MaxIncidents /\ incidents' = incidents + 1

Move ==
  /\ moves < MaxMoves /\ moves' = moves + 1
  /\ moving' = TRUE /\ \E p \in (Orient \cup {"flat"}) \ {pose} : pose' = p
  /\ UNCHANGED <<reported, manager, tcp, pc, screen, x, incidents>>

(* The board starts anew, and its connection is gone without a word.         *)
Reboot ==
  /\ Incident
  /\ reported' = "invalid" /\ moving' \in {FALSE, moving}
  /\ queue' = <<"connect">> /\ mgr' = "idle"
  /\ cmd' = NoCmd /\ send_counter' = 0 /\ boot_epoch' = boot_epoch + 1
  /\ posted' = "invalid" /\ pc_sock_fd' = FALSE /\ up' = <<>>
  /\ UNCHANGED <<pose, tcp_sock_fd, down, pc, screen, x, moves>>

(* The PC's session breaks, or the daemon is started again and has forgotten *)
(* what it showed.                                                           *)
SessionBreaks ==
  /\ Incident /\ tcp_sock_fd
  /\ tcp_sock_fd' = FALSE /\ down' = <<>> /\ ppc' = "away"
  /\ \/ ppc # "rotating" /\ UNCHANGED <<desired_orient, last_orient>>
     \/ desired_orient' = "invalid" /\ last_orient' = "invalid"
  /\ UNCHANGED <<ret, rx, delivered, sensor, manager, pc_sock_fd, up, screen, x, moves>>

XChanges ==
  /\ Incident /\ x' \in {"ok", "fails", "hangs"} \ {x}
  /\ UNCHANGED <<sensor, manager, tcp, pc, screen, moves>>

----------------------------------------------------------------------------
(* The system *)

Dispatcher == \/ NotReady \/ SendCommand \/ RecvAck \/ TimeOut \/ LosePeer
              \/ TakeConnect \/ AcceptAgain \/ GotConn \/ PostImmediate \/ SensorFault
Daemon     == Heal \/ Recv \/ Rotate \/ Ack
World      == Move \/ Reboot \/ SessionBreaks \/ XChanges

Next == Settle \/ Dispatcher \/ Daemon \/ World

Spec == Init /\ [][Next]_vars

(* Both tasks of the board and the daemon run whenever they can; a hanging   *)
(* xrandr, and whether a PC is found, are nobody's promise.                  *)
Fairness == WF_vars(Settle) /\ WF_vars(Dispatcher) /\ WF_vars(Daemon)

FairSpec == Spec /\ Fairness

----------------------------------------------------------------------------
(* Properties *)

(* Every variable has its type; the queue and the resends keep their limits. *)
SensorOK ==
  /\ pose \in Orient \cup {"flat"} /\ moving \in BOOLEAN
  /\ reported \in Orient \cup {"invalid"}
ManagerOK ==
  /\ queue \in Seq(Msg) /\ Len(queue) <= QueueLen
  /\ mgr \in {"idle", "accept", "got_conn", "await", "stopped"}
  /\ cmd \in Cmd \cup {NoCmd}
  /\ send_counter \in 0 .. SendMax /\ boot_epoch \in Nat
  /\ posted \in Orient \cup {"invalid"}
TcpOK ==
  /\ pc_sock_fd \in BOOLEAN /\ tcp_sock_fd \in BOOLEAN
  /\ down \in Seq(Cmd) /\ up \in Seq(Stamp)
PcOK ==
  /\ ppc \in {"away", "heal", "recv", "rotating", "ack"} /\ ret \in {"recv", "ack"}
  /\ rx \in Stamp /\ delivered \in Orient \cup {"invalid"}
  /\ desired_orient \in Orient \cup {"invalid"}
  /\ last_orient \in Orient \cup {"invalid"}
  /\ screen \in Orient /\ x \in {"ok", "fails", "hangs"}
TypeOK == SensorOK /\ ManagerOK /\ TcpOK /\ PcOK /\ moves \in Nat /\ incidents \in Nat

(* A manager at rest on its connection has had the last orientation it was   *)
(* given taken by a PC: late answers, answers read together, resends, broken *)
(* sessions and reboots never make it believe so of another one.             *)
AtRest == mgr = "idle" /\ queue = <<>> /\ pc_sock_fd
RestMeansDelivered == AtRest => delivered = posted

(* A command ends, answered or given up, even if the PC hangs with it: the   *)
(* one task that runs the whole manager is never held for good.              *)
CommandResolves == mgr = "await" ~> mgr # "await"

(* While a connection lasts and X answers, the screen comes to the last      *)
(* orientation the board queued, whatever happened before.                   *)
Linked == pc_sock_fd /\ tcp_sock_fd /\ x = "ok"
ScreenComesRight == <>[]Linked => <>[](screen = posted)

====
