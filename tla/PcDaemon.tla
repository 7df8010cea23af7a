---- MODULE PcDaemon ----
(***************************************************************************)
(* The PC daemon (client/source/main.c), its netlink watcher thread        *)
(* (client/source/netlink_monitor.c) and the session wrapper that runs it  *)
(* (service/autostart/esp_daemon-session).                                 *)
(*                                                                         *)
(* Three processes: the main thread, which discovers the board, serves a   *)
(* session and starts over when it breaks; the one-shot watcher, started   *)
(* after discovery, which raises ip_changed when the interface that found  *)
(* the board moves; and the shell that starts the daemon, waits for it and *)
(* looks at its exit status.  Main and watcher share ip_changed and        *)
(* quit_netlink, both atomics.  xrandr runs as a child the main thread     *)
(* waits for, so the network and X change under a rotation.                *)
(*                                                                         *)
(* The board's address, sockets and packets do not appear: no property     *)
(* depends on them.  A malformed packet is one more turn of the receive    *)
(* loop.  x is what X does with an xrandr: runs it, refuses it (no server, *)
(* no such display), or keeps it waiting, and with it the main thread, as  *)
(* long as it likes.  Nobody but the daemon rotates the screen.            *)
(***************************************************************************)
EXTENDS Integers, Sequences, FiniteSets

CONSTANTS
  Iface,          (* the PC's Wi-Fi interfaces                              *)
  Addr,           (* the addresses they may be given                        *)
  Orient,         (* the orientations the board may ask for                 *)
  Output,         (* the name X knows the external display by               *)
  DefaultOutput,  (* "HDMI1", taken when none can be resolved at start      *)
  MaxIncidents,   (* bound: changes of the network and of X                 *)
  MaxCmds,        (* bound: commands the board sends                        *)
  MayFail         (* the calls that may fail, of Layers                     *)

Layers == {"pthread", "fork", "netlink", "xrandr_killed"}

ASSUME ConstantsAssumption ==
  /\ MaxIncidents \in Nat /\ MaxCmds \in Nat
  /\ "down" \notin Addr /\ "invalid" \notin Orient
  /\ MayFail \subseteq Layers

VARIABLES
  \* The wrapper: where it is, the process $child names, a SIGTERM received.
  shell, child, term,
  \* The main thread: where it is, where a rotation returns, its exit status.
  mpc, ret, status,
  \* struct global_state and the locals of main and discover_esp.
  monitor_ext, iface_arr, old_info, last_orient, desired_orient,
  is_netlink_running, quit_netlink, ip_changed,
  \* The watcher: where it is, and the notifications in its socket.
  npc, nlq,
  \* Outside: each interface's address, X, the screen, commands in the stream.
  net, x, screen, cmds,
  \* Bounds' counters; history: interfaces that moved since the enumeration,
  \* and whether a signal ended an xrandr.
  incidents, sent, moved, killed

wrapper == <<shell, child, term>>
control == <<mpc, ret, status>>
found   == <<monitor_ext, iface_arr, old_info>>
orients == <<last_orient, desired_orient, killed>>
thread  == <<is_netlink_running, quit_netlink, ip_changed, npc, nlq>>
outside == <<net, x, screen, cmds, incidents, sent, moved>>
vars    == <<wrapper, control, found, orients, thread, outside>>

NoInfo  == [iface |-> "none", ip |-> "down"]
Note    == [iface : Iface, ip : Addr \cup {"down"}]   \* what the kernel reports
Fails(layer) == layer \in MayFail

(* The main thread is inside start_tcp_client, a command may interrupt it.   *)
Connected == {"check", "heal", "recv", "rotating", "ack"}
Session   == Connected \cup {"connect"}

Watching  == {"watch", "recv"}         \* the watcher's socket is bound

----------------------------------------------------------------------------
(* The process begins and ends *)

(* What a fresh process has, its static initializers run.                    *)
Boot ==
  /\ mpc' = "boot" /\ ret' = "check" /\ status' = 0
  /\ monitor_ext' = DefaultOutput /\ iface_arr' = <<>> /\ old_info' = NoInfo
  /\ last_orient' = "invalid" /\ desired_orient' = "invalid" /\ killed' = FALSE
  /\ is_netlink_running' = FALSE /\ quit_netlink' = FALSE /\ ip_changed' = FALSE
  /\ npc' = "none" /\ nlq' = <<>>

(* xrandr turns the display if X answers and knows it by the name it is given. *)
XStates == {"ok", "fails", "hangs"}
Applies == x = "ok" /\ monitor_ext = Output

(* An exit or a signal ends every thread and closes every socket; an xrandr  *)
(* under way is on its own, and turns the display now, later or never: only  *)
(* status 143 ends a rotation, and no daemon is started after that.          *)
Die(s) ==
  /\ mpc' = "dead" /\ status' = s
  /\ npc' = "none" /\ nlq' = <<>> /\ cmds' = <<>>
  /\ screen' \in {screen} \cup {o \in {desired_orient} : mpc = "rotating" /\ monitor_ext = Output}

Init ==
  /\ shell = "spawn" /\ child = "none" /\ term = FALSE
  /\ mpc = "dead" /\ ret = "check" /\ status = 0
  /\ monitor_ext = DefaultOutput /\ iface_arr = <<>> /\ old_info = NoInfo
  /\ last_orient = "invalid" /\ desired_orient = "invalid"
  /\ is_netlink_running = FALSE /\ quit_netlink = FALSE /\ ip_changed = FALSE
  /\ npc = "none" /\ nlq = <<>>
  /\ net \in [Iface -> Addr \cup {"down"}] /\ x \in XStates
  /\ screen \in Orient /\ cmds = <<>>
  /\ incidents = 0 /\ sent = 0 /\ moved = {} /\ killed = FALSE

----------------------------------------------------------------------------
(* esp_daemon-session *)

(* "$DAEMON" & -- and only the next command remembers whom it started.       *)
Spawn ==
  /\ shell = "spawn" /\ ~term
  /\ shell' = "forked"
  /\ Boot
  /\ UNCHANGED <<child, term, outside>>

NoteChild ==
  /\ shell = "forked" /\ ~term
  /\ shell' = "wait" /\ child' = "live"
  /\ UNCHANGED <<term, control, found, orients, thread, outside>>

(* wait returns: 143 is read as a request to stop, anything else as a crash. *)
WaitReturns ==
  /\ shell = "wait" /\ mpc = "dead" /\ ~term
  /\ shell' = IF status = 143 THEN "ended" ELSE "sleep"
  /\ child' = "stale"
  /\ UNCHANGED <<term, control, found, orients, thread, outside>>

Wake ==
  /\ shell = "sleep"
  /\ shell' = "spawn"
  /\ UNCHANGED <<child, term, control, found, orients, thread, outside>>

(* The trap runs between two commands or interrupts wait; sleep is a         *)
(* foreground child, and delays it.                                          *)
OnTerm ==
  /\ term /\ shell \in {"spawn", "forked", "wait"}
  /\ shell' = "ended" /\ UNCHANGED <<child, term>>
  /\ IF child = "live" /\ mpc # "dead"
     THEN Die(143) /\ UNCHANGED <<ret, found, orients, is_netlink_running, quit_netlink,
                                  ip_changed, net, x, incidents, sent, moved>>
     ELSE UNCHANGED <<control, found, orients, thread, outside>>

----------------------------------------------------------------------------
(* main *)

(* detect_external_output, once, from what xrandr prints before it exits:    *)
(* what it cannot list is called HDMI1.                                      *)
Detect ==
  /\ mpc = "boot" /\ mpc' = "join"
  /\ \/ x = "ok" /\ monitor_ext' = Output
     \/ (x = "fails" \/ Fails("fork")) /\ monitor_ext' = DefaultOutput
  /\ UNCHANGED <<wrapper, ret, status, iface_arr, old_info, orients, thread, outside>>

(* Mutant: the next round starts while the watcher may still run.            *)
JoinNoWait ==
  /\ mpc = "join" /\ mpc' = "reset" /\ is_netlink_running' = FALSE
  /\ UNCHANGED <<wrapper, ret, status, found, orients, quit_netlink, ip_changed, npc, nlq,
                 outside>>

(* pthread_join blocks until the watcher has returned.                       *)
Join ==
  /\ mpc = "join"
  /\ \/ /\ is_netlink_running => npc = "done"
        /\ mpc' = "reset" /\ npc' = "none" /\ nlq' = <<>> /\ is_netlink_running' = FALSE
        /\ UNCHANGED <<status, cmds, screen>>
     \/ /\ Fails("pthread") /\ is_netlink_running
        /\ Die(1) /\ UNCHANGED is_netlink_running
  /\ UNCHANGED <<wrapper, ret, found, orients, quit_netlink, ip_changed,
                 net, x, incidents, sent, moved>>

(* Mutant: the flag the last session left behind survives.                   *)
ResetQuitOnly ==
  /\ mpc = "reset" /\ mpc' = "enumerate"
  /\ quit_netlink' = FALSE
  /\ UNCHANGED <<wrapper, ret, status, found, orients, is_netlink_running, ip_changed,
                 npc, nlq, outside>>

Reset ==
  /\ mpc = "reset" /\ mpc' = "enumerate"
  /\ quit_netlink' = FALSE /\ ip_changed' = FALSE
  /\ UNCHANGED <<wrapper, ret, status, found, orients, is_netlink_running, npc, nlq, outside>>

(* Mutant: interfaces that have no address are listed too.                   *)
EnumerateAll ==
  /\ mpc = "enumerate" /\ mpc' = "discover"
  /\ iface_arr' = [i \in Iface |-> net[i]]
  /\ moved' = {}
  /\ UNCHANGED <<wrapper, ret, status, monitor_ext, old_info, orients, thread,
                 net, x, screen, cmds, incidents, sent>>

(* __get_wifi_interfaces__ copies each interface's address.                  *)
Enumerate ==
  /\ mpc = "enumerate" /\ mpc' = "discover"
  /\ iface_arr' = [i \in {j \in Iface : net[j] # "down"} |-> net[i]]
  /\ moved' = {}
  /\ UNCHANGED <<wrapper, ret, status, monitor_ext, old_info, orients, thread,
                 net, x, screen, cmds, incidents, sent>>

(* Interfaces are tried in turn until the board answers on one; broadcasts   *)
(* and answers may be lost on each.  A sweep without an answer starts over.  *)
Discover ==
  /\ mpc = "discover" /\ iface_arr' = <<>>
  /\ \/ \E i \in DOMAIN iface_arr :
          /\ net[i] # "down"
          /\ old_info' = [iface |-> i, ip |-> iface_arr[i]]
          /\ mpc' = "start_netlink"
     \/ mpc' = "join" /\ UNCHANGED old_info
  /\ UNCHANGED <<wrapper, ret, status, monitor_ext, orients, thread, outside>>

StartNetlink ==
  /\ mpc = "start_netlink"
  /\ \/ mpc' = "connect" /\ npc' = "open" /\ is_netlink_running' = TRUE
        /\ UNCHANGED <<status, nlq, cmds, screen>>
     \/ Fails("pthread") /\ Die(2) /\ UNCHANGED is_netlink_running
  /\ UNCHANGED <<wrapper, ret, found, orients, quit_netlink, ip_changed,
                 net, x, incidents, sent, moved>>

----------------------------------------------------------------------------
(* start_tcp_client *)

(* Mutant: nobody asks the watcher to stop.                                  *)
EndSessionQuietly ==
  mpc' = "join" /\ cmds' = <<>> /\ UNCHANGED quit_netlink

(* Whatever breaks a session, main asks the watcher to stop and goes round;  *)
(* commands still in the stream are lost with the socket.                    *)
EndSession ==
  mpc' = "join" /\ cmds' = <<>> /\ quit_netlink' = TRUE

Connect ==
  /\ mpc = "connect"
  /\ \/ mpc' = "check" /\ UNCHANGED <<cmds, quit_netlink>>
     \/ EndSession
  /\ UNCHANGED <<wrapper, ret, status, found, orients, is_netlink_running, ip_changed,
                 npc, nlq, net, x, screen, incidents, sent, moved>>

(* netlink_ip_changed, an atomic exchange: a change ends the session.        *)
Check ==
  /\ mpc = "check" /\ ip_changed' = FALSE
  /\ IF ip_changed THEN EndSession
     ELSE mpc' = "heal" /\ UNCHANGED <<cmds, quit_netlink>>
  /\ UNCHANGED <<wrapper, ret, status, found, orients, is_netlink_running,
                 npc, nlq, net, x, screen, incidents, sent, moved>>

(* Mutant: a failed rotation is not tried again.                             *)
HealNothing ==
  /\ mpc = "heal" /\ mpc' = "recv"
  /\ UNCHANGED <<wrapper, ret, status, found, orients, thread, outside>>

(* __heal_orientation__, before every recv.                                  *)
Heal ==
  /\ mpc = "heal"
  /\ IF desired_orient \in {last_orient, "invalid"}
     THEN mpc' = "recv" /\ UNCHANGED ret
     ELSE mpc' = "rotating" /\ ret' = "recv"
  /\ UNCHANGED <<wrapper, status, found, orients, thread, outside>>

(* A whole command, a timeout (half a command and a malformed one turn the   *)
(* loop alike), or the end of the connection.                                *)
Recv ==
  /\ mpc = "recv"
  /\ \/ /\ cmds # <<>>
        /\ desired_orient' = Head(cmds) /\ cmds' = Tail(cmds)
        /\ IF Head(cmds) = last_orient
           THEN mpc' = "ack" /\ UNCHANGED ret
           ELSE mpc' = "rotating" /\ ret' = "ack"
        /\ UNCHANGED quit_netlink
     \/ /\ cmds = <<>> /\ mpc' = "check"
        /\ UNCHANGED <<ret, desired_orient, cmds, quit_netlink>>
     \/ EndSession /\ UNCHANGED <<ret, desired_orient>>
  /\ UNCHANGED <<wrapper, status, found, last_orient, killed, is_netlink_running,
                 ip_changed, npc, nlq, net, x, screen, incidents, sent, moved>>

(* Mutant: a change seen before the answer is noted and the session goes on. *)
AckAnyway ==
  /\ mpc = "ack" /\ ip_changed' = FALSE
  /\ mpc' = "check" /\ UNCHANGED <<cmds, quit_netlink>>
  /\ UNCHANGED <<wrapper, ret, status, found, orients, is_netlink_running,
                 npc, nlq, net, x, screen, incidents, sent, moved>>

(* The flag may have been raised while xrandr ran, and is looked at again.   *)
Ack ==
  /\ mpc = "ack" /\ ip_changed' = FALSE
  /\ \/ ~ip_changed /\ mpc' = "check" /\ UNCHANGED <<cmds, quit_netlink>>
     \/ EndSession
  /\ UNCHANGED <<wrapper, ret, status, found, orients, is_netlink_running,
                 npc, nlq, net, x, screen, incidents, sent, moved>>

----------------------------------------------------------------------------
(* __rotate_display__ *)

(* Mutant: what xrandr returned is not looked at.                            *)
RotateTrusting ==
  /\ mpc = "rotating" /\ mpc' = ret /\ x # "hangs"
  /\ screen' = IF Applies THEN desired_orient ELSE screen
  /\ last_orient' = desired_orient
  /\ UNCHANGED <<wrapper, ret, status, found, desired_orient, killed, thread, net, x, cmds,
                 incidents, sent, moved>>

(* waitpid has no timeout: while X hangs, so does the session.  Only an exit *)
(* status other than 0 is a failure: a child that a signal ended has none,   *)
(* and counts as done.                                                       *)
Rotate ==
  /\ mpc = "rotating" /\ mpc' = ret
  /\ \/ /\ Applies /\ screen' = desired_orient /\ last_orient' = desired_orient
        /\ UNCHANGED killed
     \/ /\ (x # "hangs" /\ ~Applies) \/ Fails("fork")
        /\ UNCHANGED <<screen, last_orient, killed>>
     \/ /\ Fails("xrandr_killed") /\ killed' = TRUE
        /\ screen' \in {screen, desired_orient} /\ last_orient' = desired_orient
  /\ UNCHANGED <<wrapper, ret, status, found, desired_orient, thread, net, x, cmds,
                 incidents, sent, moved>>

----------------------------------------------------------------------------
(* netlink_monitor *)

(* An unrecoverable error of the netlink socket takes the process down.      *)
RaiseSigterm ==
  /\ Fails("netlink") /\ Die(143)
  /\ UNCHANGED <<is_netlink_running, quit_netlink, ip_changed>>

Open ==
  /\ npc = "open"
  /\ \/ npc' = "watch" /\ nlq' = <<>>
        /\ UNCHANGED <<mpc, status, cmds, screen, is_netlink_running, quit_netlink, ip_changed>>
     \/ RaiseSigterm
  /\ UNCHANGED <<wrapper, ret, found, orients, net, x, incidents, sent, moved>>

(* The quit request is looked at before each recv, not while it waits.       *)
PollQuit ==
  /\ npc = "watch"
  /\ npc' = IF quit_netlink THEN "done" ELSE "recv"
  /\ nlq' = IF quit_netlink THEN <<>> ELSE nlq
  /\ UNCHANGED <<wrapper, control, found, orients, is_netlink_running, quit_netlink,
                 ip_changed, outside>>

(* Mutant: a link that goes down is not looked at.                           *)
ConcernsAddressOnly(n) == n.iface = old_info.iface /\ n.ip \notin {old_info.ip, "down"}

(* RTM_NEWADDR with another address, or RTM_NEWLINK not running, on the      *)
(* interface that found the board.                                           *)
Concerns(n) == n.iface = old_info.iface /\ n.ip # old_info.ip

Notified ==
  /\ npc = "recv"
  /\ \/ /\ nlq = <<>> /\ npc' = "watch"
        /\ UNCHANGED <<mpc, status, cmds, screen, is_netlink_running, quit_netlink,
                       ip_changed, nlq>>
     \/ /\ nlq # <<>> /\ Concerns(Head(nlq))
        /\ ip_changed' = TRUE /\ npc' = "done" /\ nlq' = <<>>
        /\ UNCHANGED <<mpc, status, cmds, screen, is_netlink_running, quit_netlink>>
     \/ /\ nlq # <<>> /\ ~Concerns(Head(nlq))
        /\ npc' = "watch" /\ nlq' = Tail(nlq)
        /\ UNCHANGED <<mpc, status, cmds, screen, is_netlink_running, quit_netlink,
                       ip_changed>>
     \/ RaiseSigterm
  /\ UNCHANGED <<wrapper, ret, found, orients, net, x, incidents, sent, moved>>

----------------------------------------------------------------------------
(* Outside the program *)

Incident == incidents < MaxIncidents /\ incidents' = incidents + 1

(* The kernel tells a bound watcher of every interface it knows.             *)
Notify(i, ip) ==
  nlq' = IF npc \in Watching THEN Append(nlq, [iface |-> i, ip |-> ip]) ELSE nlq

(* A new address or a lost link is announced; an address withdrawn while the *)
(* link stays up is RTM_DELADDR, and the watcher passes over it.             *)
Move(i) ==
  /\ Incident
  /\ \E ip \in (Addr \cup {"down"}) \ {net[i]} :
       /\ net' = [net EXCEPT ![i] = ip]
       /\ \/ Notify(i, ip)
          \/ ip = "down" /\ UNCHANGED nlq
  /\ moved' = moved \cup {i}
  /\ UNCHANGED <<wrapper, control, found, orients, is_netlink_running, quit_netlink,
                 ip_changed, npc, x, screen, cmds, sent>>

(* A lease renewed: the address is announced again.                          *)
Renew(i) ==
  /\ Incident /\ net[i] # "down" /\ npc \in Watching
  /\ Notify(i, net[i])
  /\ UNCHANGED <<wrapper, control, found, orients, is_netlink_running, quit_netlink,
                 ip_changed, npc, net, x, screen, cmds, sent, moved>>

XChanges ==
  /\ Incident /\ x' \in XStates \ {x}
  /\ UNCHANGED <<wrapper, control, found, orients, thread, net, screen, cmds, sent, moved>>

(* The board sends a command on the open connection.                         *)
SendCmd ==
  /\ mpc \in Connected /\ sent < MaxCmds /\ sent' = sent + 1
  /\ \E o \in Orient : cmds' = Append(cmds, o)
  /\ UNCHANGED <<wrapper, control, found, orients, thread, net, x, screen, incidents,
                 moved>>

(* The session ends: the signal reaches the wrapper, and perhaps the daemon. *)
Logout ==
  /\ shell # "ended" /\ ~term /\ term' = TRUE
  /\ \/ UNCHANGED <<mpc, status, npc, nlq, cmds, screen>>
     \/ mpc # "dead" /\ Die(143)
  /\ UNCHANGED <<shell, child, ret, found, orients, is_netlink_running, quit_netlink,
                 ip_changed, net, x, incidents, sent, moved>>

----------------------------------------------------------------------------
(* The system *)

Wrapper == Spawn \/ NoteChild \/ WaitReturns \/ Wake \/ OnTerm
Main    == \/ Detect \/ Join \/ Reset \/ Enumerate \/ Discover \/ StartNetlink
           \/ Connect \/ Check \/ Heal \/ Recv \/ Ack \/ Rotate
Watcher == Open \/ PollQuit \/ Notified
World   == \/ \E i \in Iface : Move(i) \/ Renew(i)
           \/ XChanges \/ SendCmd \/ Logout

Next == Wrapper \/ Main \/ Watcher \/ World

Spec == Init /\ [][Next]_vars

(* The kernel runs every process that is not blocked, and both receives are  *)
(* bounded by a timeout; the wait for xrandr is not, and ends only when X    *)
(* lets it.  Nothing is assumed of the network, X or the board.              *)
Fairness == WF_vars(Wrapper) /\ WF_vars(Main) /\ WF_vars(Watcher)

FairSpec == Spec /\ Fairness

----------------------------------------------------------------------------
(* Properties *)

(* Every variable has its type; an interface is listed, and remembered as    *)
(* the board's, only with an address.                                        *)
NoWatcherYet == {"dead", "boot", "reset", "enumerate", "discover", "start_netlink"}
WrapperOK ==
  /\ shell \in {"spawn", "forked", "wait", "sleep", "ended"}
  /\ child \in {"none", "live", "stale"} /\ term \in BOOLEAN
MainOK ==
  /\ mpc \in NoWatcherYet \cup {"join"} \cup Session
  /\ ret \in {"check", "recv", "ack"} /\ status \in {0, 1, 2, 143}
  /\ monitor_ext \in {Output, DefaultOutput}
  /\ \E known \in SUBSET Iface : iface_arr \in [known -> Addr]
  /\ old_info \in [iface : Iface, ip : Addr] \cup {NoInfo}
OrientOK ==
  /\ last_orient \in Orient \cup {"invalid"}
  /\ desired_orient \in Orient \cup {"invalid"}
  /\ screen \in Orient /\ cmds \in Seq(Orient) /\ killed \in BOOLEAN
ThreadOK ==
  /\ is_netlink_running \in BOOLEAN
  /\ quit_netlink \in BOOLEAN /\ ip_changed \in BOOLEAN
  /\ npc \in {"none", "open", "watch", "recv", "done"}
  /\ nlq \in Seq(Note)
OutsideOK ==
  /\ net \in [Iface -> Addr \cup {"down"}] /\ x \in XStates
  /\ incidents \in Nat /\ sent \in Nat /\ moved \in SUBSET Iface
TypeOK == WrapperOK /\ MainOK /\ OrientOK /\ ThreadOK /\ OutsideOK

(* There is never a second watcher: the last one has returned and was joined *)
(* before main resets what they share and discovers again.                   *)
OneWatcher == mpc \in NoWatcherYet => npc = "none"

(* last_orient is what is on the screen, whatever failed and whoever died:   *)
(* the duplicate filter and the healer both compare with it, so a rotation   *)
(* recorded and not made is never made.  An xrandr ended by a signal, which  *)
(* counts as one that succeeded, is set apart.                               *)
Recorded == mpc # "dead" /\ last_orient # "invalid"
LastOrientIsOnScreen == Recorded /\ ~killed => screen = last_orient

(* A session is ended for an address change only if the interface that found *)
(* the board did move since the discovery listed it: neither a flag left by  *)
(* an earlier session nor a change elsewhere tears a new session down.       *)
FlagConcernsSession ==
  mpc \in Session /\ ip_changed => old_info.iface \in moved

(* The watcher is one-shot: while a session runs, either somebody watches    *)
(* its interface or the change that ended the watch is still to be acted on. *)
NeverUnwatched ==
  mpc \in Session => npc \in {"open"} \cup Watching \/ ip_changed

(* The join before a rediscovery returns, whatever the watcher is doing.     *)
JoinReturns == mpc = "join" ~> mpc # "join"

(* A change of its interface that reaches the watcher ends the session, also *)
(* one that came during a rotation, unless X hangs for good: the flag is not *)
(* looked at while main waits for xrandr.                                    *)
NoticedChange ==
  mpc \in Session /\ \E k \in DOMAIN nlq : nlq[k].iface = old_info.iface
                                           /\ nlq[k].ip # old_info.ip
NoticedChangeEndsSession ==
  <>[](x # "hangs") => (NoticedChange ~> mpc \notin Session)

(* If a session lasts, X is there and the display was resolved, the screen   *)
(* comes to what the board asked for last, whatever failed before.           *)
ScreenFollows == desired_orient \in {"invalid", screen}
HealsItself ==
  <>[](mpc \in Session /\ Applies) => <>[]ScreenFollows

(* What the documentation says of the code, and the code does not do.        *)

(* "the supervisor (systemd et al.) restarts it clean": the wrapper gives up *)
(* for a logout alone.                                                       *)
EndsOnlyAtLogout == shell = "ended" => term

====
