---- MODULE WifiManager ----
(***************************************************************************)
(* The ESP32 firmware's Wi-Fi connection manager                           *)
(* (mcu/components/wifi_manager/wifi_mgr.c): one dispatcher task that      *)
(* drains one bounded queue, an event handler that runs in the ESP-IDF     *)
(* event task and only posts to that queue, and any other task that posts  *)
(* an orientation command.  xQueueSend never waits, so a post to a full    *)
(* queue is lost, whatever the message was.                                *)
(*                                                                         *)
(* One step takes a message off the queue and runs its case up to its      *)
(* posts.  What a case posts leaves through out[Dispatcher] one xQueueSend *)
(* at a time, and the event handler's posts through out[EventTask], so     *)
(* that the two interleave with each other and with commands.  A case      *)
(* shares only the queue and self_disconnect with the event task, so what  *)
(* that task does while a case blocks in a recv (up to 40 s) may as well   *)
(* come before it or between its posts: the orders are the same.           *)
(*                                                                         *)
(* Two things the code stores and never reads are left out: curr_mode, and *)
(* goc, the cached orientation nothing replays.                            *)
(***************************************************************************)
EXTENDS LwipSockets, Sequences, FiniteSets

CONSTANTS
  Creds,          (* the credentials a PC may deliver                       *)
  QueueLen,       (* WIFI_QUEUE_LEN (10)                                    *)
  UdpCreateMax,   (* UDP_CREATE_MAX (5)                                     *)
  TcpCreateMax,   (* TCP_CREATE_MAX (5)                                     *)
  AcceptMax,      (* ACCEPT_COUNTER_MAX (2)                                 *)
  NoApMax,        (* NO_AP_CONN_RETRIES_MAX (10)                            *)
  RouterGoneMax,  (* ROUTER_GONE_CONN_RETRIES_MAX (10)                      *)
  MaxEvents,      (* bound: driver events awaiting the event task           *)
  MaxCmds,        (* bound: orientation commands in the queue               *)
  MaxIncidents,   (* bound: power cycles, disconnects and address changes   *)
  MayFail         (* the layers whose calls may fail, of Layers             *)

Layers == {"esp_wifi", "lwip", "nvs", "sensor"}

ASSUME ConstantsAssumption ==
  /\ QueueLen \in Nat \ {0}
  /\ \A c \in {UdpCreateMax, TcpCreateMax, AcceptMax, NoApMax, RouterGoneMax,
               MaxEvents, MaxCmds, MaxIncidents} : c \in Nat
  /\ {"none", "blank", "torn"} \cap Creds = {}
  /\ MayFail \subseteq Layers

VARIABLES
  \* FreeRTOS: the task, its queue, the message in hand, posts still to make.
  alive, queue, out,
  \* struct wifi_state: what the dispatcher knows of the link and its sockets.
  is_sta_up, is_ap_up, sock_fd_udp, sock_fd_tcp, pc_sock_fd,
  cfg_staged, sta_wcfg, write_pending,
  \* struct dispatcher_state: rebuild attempts.
  udp_create_counter, tcp_create_counter, accept_counter,
  \* The event handler's state; self_disconnect is shared with the dispatcher.
  self_disconnect, router_gone, no_ap_conn_retries, router_gone_conn_retries,
  \* Outside the program: lwIP's sockets, the Wi-Fi driver, flash, power.
  sock, radio, events, nvs, incidents,
  \* History variables: a post of a control message was lost, a disconnect the
  \* manager did not cause was taken for its own, credentials whose acceptance
  \* was sent to a PC.
  dropped, missed, acked

Dispatcher == "dispatcher"
EventTask  == "event_task"

MsgId == {"DRIVER_INIT", "DRIVER_DEINIT", "STA_START", "STA_STOP", "AP_START",
          "AP_STOP", "CREATE_UDP_SOCKET", "DISCOVER_PC", "START_TCP_SERVER",
          "ACCEPT_PC_CONN", "GET_ROUTER_CREDS", "SEND_COMMAND"}
Role  == {"STA", "AP", "ANY"}
Msg   == [id : MsgId, role : Role]

Do(id)       == [id |-> id, role |-> "ANY"]
DoAs(id, r)  == [id |-> id, role |-> r]
Restart(r)   == IF r = "STA" THEN <<Do("STA_STOP"), Do("STA_START")>>
                             ELSE <<Do("AP_STOP"), Do("AP_START")>>

(* Stored or staged credentials: none, one a PC delivered, an empty string   *)
(* written over the old one, or the mix an interrupted write leaves behind. *)
Stored == Creds \cup {"none", "blank", "torn"}
Usable == Creds \cup {"torn"}

Reason == {"NO_AP_FOUND", "AUTH_FAIL", "OTHER", "LEAVE"}
Event  == [id : {"CONNECTED", "GOT_IP"}] \cup [id : {"DISCONNECTED"}, reason : Reason]
Disconnected(r) == [id |-> "DISCONNECTED", reason |-> r]

rtos    == <<alive, queue, out>>
flags   == <<is_sta_up, is_ap_up>>
fds     == <<sock_fd_udp, sock_fd_tcp, pc_sock_fd, sock>>
creds   == <<cfg_staged, sta_wcfg, write_pending, nvs>>
retries == <<udp_create_counter, tcp_create_counter, accept_counter>>
handler == <<router_gone, no_ap_conn_retries, router_gone_conn_retries>>
driver  == <<radio, events>>
history == <<dropped, missed, acked>>
vars    == <<rtos, flags, fds, creds, retries, self_disconnect, handler, driver,
             incidents, history>>

----------------------------------------------------------------------------
(* Boot *)

(* wifi_mgr_init creates the queue and the task; the task's first statement  *)
(* posts DRIVER_INIT.  Everything but flash starts from its initializer.     *)
FirstPost == [t \in {Dispatcher, EventTask} |->
                IF t = Dispatcher THEN <<Do("DRIVER_INIT")>> ELSE <<>>]
NoSockets == [fd \in Fd |-> "free"]

Init ==
  /\ alive = TRUE /\ queue = <<>> /\ out = FirstPost
  /\ is_sta_up = FALSE /\ is_ap_up = FALSE
  /\ sock_fd_udp = Closed /\ sock_fd_tcp = Closed /\ pc_sock_fd = Closed
  /\ sock = NoSockets
  /\ cfg_staged = FALSE /\ sta_wcfg = "none" /\ write_pending = FALSE
  /\ udp_create_counter = 0 /\ tcp_create_counter = 0 /\ accept_counter = 0
  /\ self_disconnect = FALSE /\ router_gone = FALSE
  /\ no_ap_conn_retries = 0 /\ router_gone_conn_retries = 0
  /\ radio = "uninit" /\ events = <<>>
  /\ nvs \in Creds \cup {"none"}
  /\ acked = {nvs} \cap Creds
  /\ incidents = 0 /\ dropped = FALSE /\ missed = FALSE

(* The dispatcher, its last posts made, takes the message at the head.       *)
cur       == Head(queue)
Takes(id) == alive /\ out[Dispatcher] = <<>> /\ queue # <<>> /\ cur.id = id

(* What a write of the staged credentials leaves in flash when it stops      *)
(* after some of its keys: the old value, a mix when both were usable, or    *)
(* (stopped before the commit, every key set) already the new one.           *)
Interrupted(old, new) ==
  {old, new} \cup (IF {old, new} \subseteq Usable /\ new # old THEN {"torn"} ELSE {})

Written(c) == IF c \in Usable THEN c ELSE "blank"

Fails(layer) == layer \in MayFail
Incident     == incidents < MaxIncidents /\ incidents' = incidents + 1

(* Power is lost, perhaps in the middle of the credential write, and the     *)
(* board starts again.                                                       *)
PowerCycle ==
  /\ Incident
  /\ alive' = TRUE /\ queue' = <<>> /\ out' = FirstPost
  /\ is_sta_up' = FALSE /\ is_ap_up' = FALSE
  /\ sock_fd_udp' = Closed /\ sock_fd_tcp' = Closed /\ pc_sock_fd' = Closed
  /\ sock' = NoSockets
  /\ cfg_staged' = FALSE /\ sta_wcfg' = "none" /\ write_pending' = FALSE
  /\ udp_create_counter' = 0 /\ tcp_create_counter' = 0 /\ accept_counter' = 0
  /\ self_disconnect' = FALSE /\ router_gone' = FALSE
  /\ no_ap_conn_retries' = 0 /\ router_gone_conn_retries' = 0
  /\ radio' = "uninit" /\ events' = <<>>
  /\ IF Takes("CREATE_UDP_SOCKET") /\ write_pending
     THEN nvs' \in Interrupted(nvs, Written(sta_wcfg))
     ELSE nvs' = nvs
  /\ UNCHANGED acked
  /\ dropped' = FALSE /\ missed' = FALSE

----------------------------------------------------------------------------
(* Queue operations *)

(* One xQueueSend(.., 0) of task t: the message is queued, or lost.          *)
Post(t) ==
  /\ out[t] # <<>>
  /\ out' = [out EXCEPT ![t] = Tail(@)]
  /\ IF Len(queue) < QueueLen
     THEN queue' = Append(queue, Head(out[t])) /\ UNCHANGED history
     ELSE dropped' = TRUE /\ UNCHANGED <<queue, missed, acked>>
  /\ UNCHANGED <<alive, flags, fds, creds, retries, self_disconnect, handler,
                 driver, incidents>>

(* wifi_mgr_send_cmd, called by the sensor task.                             *)
SendCmd ==
  /\ Cardinality({i \in DOMAIN queue : queue[i] = Do("SEND_COMMAND")}) < MaxCmds
  /\ queue' = IF Len(queue) < QueueLen THEN Append(queue, Do("SEND_COMMAND")) ELSE queue
  /\ UNCHANGED <<alive, out, flags, fds, creds, retries, self_disconnect,
                 handler, driver, incidents, history>>

(* The message in hand is dealt with; msgs is what its case posts.           *)
Reply(msgs) ==
  /\ queue' = Tail(queue) /\ out' = [out EXCEPT ![Dispatcher] = msgs]
  /\ UNCHANGED alive

(* ds.exit_task: the loop breaks and the task deletes itself.                *)
ExitTask ==
  /\ alive' = FALSE /\ queue' = Tail(queue)
  /\ UNCHANGED out

----------------------------------------------------------------------------
(* The Wi-Fi driver (external).  Any esp_wifi call may fail; the outcome a   *)
(* handler calls FATAL leaves the driver where the failing call found it.    *)

Joining == {"connecting", "assoc", "ip"}

(* The peer is reached over the router in STA and over the board's own       *)
(* access point in AP, where the provisioning tool joins it.                 *)
PeerIn(role) == radio = IF role = "STA" THEN "ip" ELSE "ap"

(* Leaving a network the station is on, or is joining, raises DISCONNECTED.  *)
Leave == IF radio \in Joining THEN Append(events, Disconnected("LEAVE")) ELSE events

TurnOff == radio' = "stopped" /\ events' = Leave

Raise(next, e) ==
  /\ Len(events) < MaxEvents
  /\ radio' = next /\ events' = Append(events, e)
  /\ UNCHANGED <<rtos, flags, fds, creds, retries, self_disconnect, handler, history>>

Associate ==
  radio = "connecting" /\ Raise("assoc", [id |-> "CONNECTED"]) /\ UNCHANGED incidents
GotIp ==
  radio = "assoc" /\ Raise("ip", [id |-> "GOT_IP"]) /\ UNCHANGED incidents
IpChanged ==
  radio = "ip" /\ Raise("ip", [id |-> "GOT_IP"]) /\ Incident
ConnectFail ==
  /\ radio = "connecting"
  /\ \E r \in Reason \ {"LEAVE"} : Raise("idle", Disconnected(r))
  /\ Incident
LinkLost ==
  radio \in {"assoc", "ip"} /\ Raise("idle", Disconnected("OTHER")) /\ Incident

----------------------------------------------------------------------------
(* Driver up and down *)

DriverInit ==
  /\ Takes("DRIVER_INIT")
  /\ sta_wcfg' = "none"
  /\ \/ radio' = "stopped" /\ Reply(<<Do("STA_START")>>)
     \/ /\ Fails("esp_wifi") \/ Fails("nvs")
        /\ radio' \in {radio, "stopped"} /\ ExitTask
  /\ UNCHANGED <<flags, fds, cfg_staged, write_pending, nvs, retries,
                 self_disconnect, handler, events, incidents, history>>

(* memset(&ws, 0) and the three sentinels: nothing is closed.                *)
ResetState ==
  /\ is_sta_up' = FALSE /\ is_ap_up' = FALSE
  /\ sock_fd_udp' = Closed /\ sock_fd_tcp' = Closed /\ pc_sock_fd' = Closed
  /\ cfg_staged' = FALSE /\ sta_wcfg' = "none" /\ write_pending' = FALSE
  /\ UNCHANGED <<sock, nvs>>

(* The task exits whether or not the teardown went through; the event        *)
(* handler is unregistered before the driver is asked to go.                 *)
DriverDeinit ==
  /\ Takes("DRIVER_DEINIT")
  /\ \/ ResetState /\ radio' = "uninit" /\ events' = <<>>
     \/ /\ Fails("esp_wifi") /\ UNCHANGED <<flags, fds, creds, radio>>
        /\ events' \in {events, <<>>}
  /\ ExitTask
  /\ UNCHANGED <<retries, self_disconnect, handler, incidents, history>>

(* _retrieve_sta_creds_ runs only while nothing is staged.                   *)
ConfigInUse == IF cfg_staged THEN sta_wcfg ELSE nvs

(* esp_wifi_set_mode(STA) comes first and takes a running access point down. *)
AsStation == radio' = (IF radio = "ap" THEN "idle" ELSE radio) /\ events' = events

StaStart ==
  /\ Takes("STA_START")
  /\ \/ /\ ConfigInUse \in Usable
        /\ sta_wcfg' = ConfigInUse
        /\ radio' = IF radio \in Joining THEN radio ELSE "connecting"
        /\ events' = events
        /\ Reply(<<>>)
     \/ /\ ~cfg_staged /\ nvs \notin Usable
        /\ sta_wcfg' = "none" /\ AsStation
        /\ Reply(<<Do("AP_START")>>)
     \/ /\ Fails("esp_wifi") \/ (cfg_staged /\ sta_wcfg = "none")
        /\ sta_wcfg' \in {sta_wcfg, "none", ConfigInUse} \cap (Usable \cup {"none"})
        /\ cfg_staged => sta_wcfg' = sta_wcfg
        /\ TurnOff \/ AsStation \/ UNCHANGED driver
        /\ Reply(<<Do("DRIVER_DEINIT")>>)
  /\ UNCHANGED <<flags, fds, cfg_staged, write_pending, nvs, retries,
                 self_disconnect, handler, incidents, history>>

(* Mutant: a PC connection is not among the sockets a lost link takes down.  *)
RouterGoneKeepsPeer ==
  /\ is_sta_up' = FALSE
  /\ sock' = CloseFds(sock, {sock_fd_udp, sock_fd_tcp})
  /\ sock_fd_udp' = Closed /\ sock_fd_tcp' = Closed /\ UNCHANGED pc_sock_fd

(* _wifi_mgr_router_gone_: is_sta_up and every socket go, in either mode.    *)
RouterGone ==
  /\ is_sta_up' = FALSE
  /\ sock' = CloseFds(sock, {sock_fd_udp, sock_fd_tcp, pc_sock_fd})
  /\ sock_fd_udp' = Closed /\ sock_fd_tcp' = Closed /\ pc_sock_fd' = Closed

StaStop ==
  /\ Takes("STA_STOP")
  /\ self_disconnect' = TRUE
  /\ RouterGone
  /\ \/ radio # "stopped" /\ TurnOff /\ Reply(<<>>)
     \/ /\ Fails("esp_wifi") \/ radio = "stopped"
        /\ UNCHANGED driver /\ Reply(<<Do("DRIVER_DEINIT")>>)
     \/ /\ Fails("esp_wifi") /\ radio \in Joining /\ radio' = "idle" /\ events' = Leave
        /\ Reply(<<Do("DRIVER_DEINIT")>>)
  /\ UNCHANGED <<is_ap_up, creds, retries, handler, incidents, history>>

ApStart ==
  /\ Takes("AP_START")
  /\ \/ /\ is_ap_up' = TRUE /\ radio' = "ap" /\ events' = Leave
        /\ Reply(<<DoAs("START_TCP_SERVER", "AP")>>)
     \/ /\ Fails("esp_wifi") /\ UNCHANGED is_ap_up /\ (TurnOff \/ UNCHANGED driver)
        /\ Reply(<<Do("DRIVER_DEINIT")>>)
  /\ UNCHANGED <<is_sta_up, fds, creds, retries, self_disconnect, handler, incidents,
                 history>>

ApStop ==
  /\ Takes("AP_STOP")
  /\ RouterGone
  /\ \/ is_ap_up' = FALSE /\ TurnOff /\ Reply(<<>>)
     \/ Fails("esp_wifi") /\ UNCHANGED <<is_ap_up, driver>> /\ Reply(<<Do("DRIVER_DEINIT")>>)
  /\ UNCHANGED <<creds, retries, self_disconnect, handler, incidents, history>>

----------------------------------------------------------------------------
(* Station: discovery *)

(* The write is deferred to here: the first GOT_IP after the credentials     *)
(* were accepted is taken as the proof that they work.                       *)
FlushCreds ==
  /\ nvs' = IF write_pending THEN Written(sta_wcfg) ELSE nvs
  /\ write_pending' = FALSE

CreateUdpFatal ==
  /\ Fails("nvs") /\ write_pending /\ nvs' \in Interrupted(nvs, Written(sta_wcfg))
  /\ Reply(<<Do("STA_STOP"), Do("DRIVER_DEINIT")>>)
  /\ UNCHANGED <<flags, fds, write_pending, udp_create_counter>>

CreateUdpDead ==
  /\ Fails("lwip") \/ FreeFds(CloseFds(sock, {sock_fd_udp, sock_fd_tcp, pc_sock_fd})) = {}
  /\ sock' = CloseFds(sock, {sock_fd_udp, sock_fd_tcp, pc_sock_fd})
  /\ sock_fd_udp' = Closed
  /\ IF udp_create_counter = UdpCreateMax
     THEN /\ udp_create_counter' = 0
          /\ Reply(<<Do("STA_STOP"), Do("DRIVER_DEINIT")>>)
     ELSE /\ udp_create_counter' = udp_create_counter + 1
          /\ Reply(<<Do("CREATE_UDP_SOCKET")>>)

CreateUdpOk ==
  LET closed == CloseFds(sock, {sock_fd_udp, sock_fd_tcp, pc_sock_fd})
  IN  \E fd \in LowestFree(closed) :
        /\ sock' = [closed EXCEPT ![fd] = "udp"]
        /\ sock_fd_udp' = fd
        /\ udp_create_counter' = 0
        /\ Reply(<<Do("DISCOVER_PC")>>)

CreateUdp ==
  /\ Takes("CREATE_UDP_SOCKET")
  /\ \/ CreateUdpFatal
     \/ /\ FlushCreds
        /\ is_sta_up' = TRUE
        /\ sock_fd_tcp' = Closed /\ pc_sock_fd' = Closed
        /\ CreateUdpDead \/ CreateUdpOk
        /\ UNCHANGED is_ap_up
  /\ UNCHANGED <<cfg_staged, sta_wcfg, tcp_create_counter, accept_counter,
                 self_disconnect, handler, driver, incidents, history>>

(* FOUND_PC closes the socket but leaves its number in sock_fd_udp.          *)
DiscoverPc ==
  /\ Takes("DISCOVER_PC")
  /\ \/ /\ ~is_sta_up
        /\ Reply(Restart("STA")) /\ UNCHANGED <<sock_fd_udp, sock>>
     \/ /\ is_sta_up /\ OpenAs(sock, sock_fd_udp) \in {"udp", "conn_STA", "conn_AP"}
        /\ Reply(<<Do("DISCOVER_PC")>>) /\ UNCHANGED <<sock_fd_udp, sock>>
     \/ /\ is_sta_up /\ OpenAs(sock, sock_fd_udp) = "udp" /\ PeerIn("STA")
        /\ sock' = CloseFds(sock, {sock_fd_udp}) /\ UNCHANGED sock_fd_udp
        /\ Reply(<<DoAs("START_TCP_SERVER", "STA")>>)
     \/ /\ is_sta_up /\ (Fails("lwip") \/ OpenAs(sock, sock_fd_udp) # "udp")
        /\ sock' = CloseFds(sock, {sock_fd_udp}) /\ sock_fd_udp' = Closed
        /\ Reply(<<Do("CREATE_UDP_SOCKET")>>)
  /\ UNCHANGED <<flags, sock_fd_tcp, pc_sock_fd, creds, retries, self_disconnect,
                 handler, driver, incidents, history>>

----------------------------------------------------------------------------
(* Either mode: the TCP server and its one peer *)

CurrentRole == IF is_sta_up THEN "STA" ELSE "AP"
IsUp(role)  == IF role = "STA" THEN is_sta_up ELSE is_ap_up

(* Mutant: the cap is tested one attempt too late.                           *)
ListenerDeadLate ==
  IF tcp_create_counter > TcpCreateMax
  THEN /\ Reply(Restart(cur.role)) /\ UNCHANGED tcp_create_counter
  ELSE /\ tcp_create_counter' = tcp_create_counter + 1 /\ Reply(<<cur>>)

(* The counter is not reset when the mode is rebuilt instead.                *)
ListenerDead ==
  IF tcp_create_counter = TcpCreateMax
  THEN /\ Reply(Restart(cur.role)) /\ UNCHANGED tcp_create_counter
  ELSE /\ tcp_create_counter' = tcp_create_counter + 1 /\ Reply(<<cur>>)

StartTcpServer ==
  LET closed == CloseFds(sock, {sock_fd_tcp})
  IN
  /\ Takes("START_TCP_SERVER")
  /\ \/ /\ ~IsUp(cur.role)
        /\ sock' = closed /\ sock_fd_tcp' = Closed
        /\ Reply(Restart(cur.role)) /\ UNCHANGED tcp_create_counter
     \/ /\ IsUp(cur.role) /\ (Fails("lwip") \/ FreeFds(closed) = {})
        /\ sock' = closed /\ sock_fd_tcp' = Closed
        /\ ListenerDead
     \/ /\ IsUp(cur.role)
        /\ \E fd \in LowestFree(closed) :
             /\ sock' = [closed EXCEPT ![fd] = Listener(CurrentRole)]
             /\ sock_fd_tcp' = fd
        /\ tcp_create_counter' = 0
        /\ Reply(<<DoAs("ACCEPT_PC_CONN", cur.role)>>)
  /\ UNCHANGED <<flags, sock_fd_udp, pc_sock_fd, creds, udp_create_counter,
                 accept_counter, self_disconnect, handler, driver, incidents, history>>

HasListener == OpenAs(sock, sock_fd_tcp) \in {"listener_STA", "listener_AP"}
HasPeer     == OpenAs(sock, pc_sock_fd) \in {"conn_STA", "conn_AP"}

(* accept() overwrites pc_sock_fd whatever it held.  A timeout, and a        *)
(* connection dropped because its receive timeout could not be set, end      *)
(* alike: no connection.                                                     *)
AcceptAgain ==
  /\ HasListener /\ pc_sock_fd' = Closed
  /\ UNCHANGED <<sock_fd_tcp, sock>>
  /\ IF cur.role = "AP"
     THEN Reply(<<cur>>) /\ UNCHANGED accept_counter
     ELSE IF accept_counter = AcceptMax
     THEN accept_counter' = 0 /\ Reply(<<Do("CREATE_UDP_SOCKET")>>)
     ELSE accept_counter' = accept_counter + 1 /\ Reply(<<cur>>)

(* The listener is missing, or accept() fails outright on its number.        *)
AcceptDead ==
  /\ ~HasListener \/ Fails("lwip") \/ FreeFds(sock) = {}
  /\ sock' = CloseFds(sock, {sock_fd_tcp}) /\ sock_fd_tcp' = Closed
  /\ pc_sock_fd' = IF sock_fd_tcp = Closed THEN pc_sock_fd ELSE Closed
  /\ Reply(<<DoAs("START_TCP_SERVER", cur.role)>>) /\ UNCHANGED accept_counter

(* A fresh STA connection is sent the orientation the sensor reports now;    *)
(* a sensor that cannot tell (it failed, or the board has lain flat since    *)
(* boot) ends the manager.                                                   *)
GotConn ==
  /\ HasListener /\ PeerIn(cur.role)
  /\ \E fd \in LowestFree(sock) :
       sock' = [sock EXCEPT ![fd] = Conn(CurrentRole)] /\ pc_sock_fd' = fd
  /\ accept_counter' = 0 /\ UNCHANGED sock_fd_tcp
  /\ IF cur.role = "AP" THEN Reply(<<Do("GET_ROUTER_CREDS")>>)
     ELSE \/ Reply(<<Do("SEND_COMMAND")>>)
          \/ Fails("sensor") /\ Reply(<<Do("STA_STOP"), Do("DRIVER_DEINIT")>>)

AcceptPcConn ==
  /\ Takes("ACCEPT_PC_CONN")
  /\ \/ /\ ~IsUp(cur.role) /\ Reply(Restart(cur.role))
        /\ UNCHANGED <<sock_fd_tcp, pc_sock_fd, sock, accept_counter>>
     \/ IsUp(cur.role) /\ (AcceptAgain \/ AcceptDead \/ GotConn)
  /\ UNCHANGED <<flags, sock_fd_udp, creds, udp_create_counter, tcp_create_counter,
                 self_disconnect, handler, driver, incidents, history>>

----------------------------------------------------------------------------
(* Access point: provisioning *)

ClosePeer == sock' = CloseFds(sock, {pc_sock_fd}) /\ pc_sock_fd' = Closed

CredsBadState ==
  /\ ~is_ap_up \/ pc_sock_fd = Closed
  /\ IF is_ap_up THEN UNCHANGED <<sock_fd_tcp, pc_sock_fd, sock>>
     ELSE /\ sock' = CloseFds(sock, {sock_fd_tcp, pc_sock_fd})
          /\ sock_fd_tcp' = Closed /\ pc_sock_fd' = Closed
  /\ sta_wcfg' = "none" /\ UNCHANGED <<cfg_staged, write_pending, acked>>
  /\ Reply(Restart("AP"))

(* Mutant: a lost peer is not followed by another accept.                    *)
CredsPeerGoneForgets ==
  /\ is_ap_up /\ pc_sock_fd # Closed
  /\ ClosePeer /\ UNCHANGED <<sock_fd_tcp, cfg_staged, write_pending, acked>>
  /\ sta_wcfg' = "none"
  /\ Reply(<<>>)

(* Nothing usable arrived and the connection is closed: a dead peer, a wrong *)
(* pairing code, malformed credentials, or an answer that would not leave.   *)
(* In the last case the credentials had been staged: they are wiped, the     *)
(* pending write is not.                                                     *)
CredsPeerGone ==
  /\ is_ap_up /\ pc_sock_fd # Closed
  /\ ClosePeer /\ UNCHANGED sock_fd_tcp
  /\ sta_wcfg' = "none"
  /\ \/ UNCHANGED <<cfg_staged, write_pending>>
     \/ /\ HasPeer /\ PeerIn("AP")
        /\ cfg_staged' = FALSE /\ write_pending' = TRUE
  /\ UNCHANGED acked
  /\ Reply(<<DoAs("ACCEPT_PC_CONN", "AP")>>)

(* A corrupt or unknown packet: told so, the PC sends again on this socket.  *)
CredsRejected ==
  /\ is_ap_up /\ HasPeer /\ PeerIn("AP")
  /\ UNCHANGED <<sock_fd_tcp, pc_sock_fd, sock>>
  /\ sta_wcfg' = "none" /\ UNCHANGED <<cfg_staged, write_pending, acked>>
  /\ Reply(<<Do("GET_ROUTER_CREDS")>>)

(* Mutant: the result of sending the answer is not looked at.                *)
CredsAcceptedUnsent ==
  /\ is_ap_up /\ HasPeer /\ PeerIn("AP")
  /\ \E c \in Creds : sta_wcfg' = c /\ acked' \in {acked, acked \cup {c}}
  /\ cfg_staged' = TRUE /\ write_pending' = TRUE
  /\ sock' = CloseFds(sock, {sock_fd_tcp, pc_sock_fd})
  /\ sock_fd_tcp' = Closed /\ pc_sock_fd' = Closed
  /\ Reply(<<Do("AP_STOP"), Do("STA_START")>>)

(* The answer left: the PC has been told, and the access point comes down.   *)
CredsAccepted ==
  /\ is_ap_up /\ HasPeer /\ PeerIn("AP")
  /\ \E c \in Creds : sta_wcfg' = c /\ acked' = acked \cup {c}
  /\ cfg_staged' = TRUE /\ write_pending' = TRUE
  /\ sock' = CloseFds(sock, {sock_fd_tcp, pc_sock_fd})
  /\ sock_fd_tcp' = Closed /\ pc_sock_fd' = Closed
  /\ Reply(<<Do("AP_STOP"), Do("STA_START")>>)

GetRouterCreds ==
  /\ Takes("GET_ROUTER_CREDS")
  /\ CredsBadState \/ CredsPeerGone \/ CredsRejected \/ CredsAccepted
  /\ UNCHANGED <<flags, sock_fd_udp, nvs, retries, self_disconnect, handler, driver,
                 incidents, dropped, missed>>

----------------------------------------------------------------------------
(* Station: commands *)

SendCommand ==
  /\ Takes("SEND_COMMAND")
  /\ \/ /\ ~is_sta_up \/ pc_sock_fd = Closed
        /\ Reply(<<>>) /\ UNCHANGED <<pc_sock_fd, sock>>
     \/ /\ is_sta_up /\ HasPeer /\ PeerIn("STA")
        /\ Reply(<<>>) /\ UNCHANGED <<pc_sock_fd, sock>>
     \/ /\ is_sta_up /\ pc_sock_fd # Closed
        /\ ClosePeer /\ Reply(<<DoAs("ACCEPT_PC_CONN", "STA")>>)
  /\ UNCHANGED <<flags, sock_fd_udp, sock_fd_tcp, creds, retries, self_disconnect,
                 handler, driver, incidents, history>>

----------------------------------------------------------------------------
(* wifi_event_handler *)

FallBack == <<Do("STA_STOP"), Do("AP_START")>>

(* Two retry budgets share one decision: try the router again, or provision. *)
NoApFound ==
  /\ IF router_gone
     THEN IF router_gone_conn_retries < RouterGoneMax
          THEN /\ router_gone_conn_retries' = router_gone_conn_retries + 1
               /\ out' = [out EXCEPT ![EventTask] = Restart("STA")]
               /\ UNCHANGED router_gone
          ELSE /\ router_gone_conn_retries' = 0 /\ router_gone' = FALSE
               /\ out' = [out EXCEPT ![EventTask] = FallBack]
     ELSE UNCHANGED <<router_gone, router_gone_conn_retries>>
  /\ IF router_gone THEN UNCHANGED no_ap_conn_retries
     ELSE IF no_ap_conn_retries < NoApMax
          THEN /\ no_ap_conn_retries' = no_ap_conn_retries + 1
               /\ out' = [out EXCEPT ![EventTask] = Restart("STA")]
          ELSE /\ no_ap_conn_retries' = 0
               /\ out' = [out EXCEPT ![EventTask] = FallBack]
  /\ UNCHANGED <<self_disconnect, missed>>

(* Mutants: a lost router stops the station for good, or is not acted on.    *)
AnswerStopsOnly(reason) == IF reason = "AUTH_FAIL" THEN FallBack ELSE <<Do("STA_STOP")>>
AnswerIgnores(reason)   == IF reason = "AUTH_FAIL" THEN FallBack ELSE <<>>

Answer(reason) == IF reason = "AUTH_FAIL" THEN FallBack ELSE Restart("STA")

(* Any other reason is first tested against the flag STA_STOP sets.          *)
OtherReason(reason) ==
  /\ UNCHANGED <<no_ap_conn_retries, router_gone_conn_retries>>
  /\ IF self_disconnect
     THEN /\ self_disconnect' = FALSE /\ missed' = (missed \/ reason # "LEAVE")
          /\ UNCHANGED <<out, router_gone>>
     ELSE /\ UNCHANGED <<self_disconnect, missed>>
          /\ router_gone' = (router_gone \/ reason # "AUTH_FAIL")
          /\ out' = [out EXCEPT ![EventTask] = Answer(reason)]

(* Mutant: an address clears the budgets and starts nothing.                 *)
GotIpForgets ==
  /\ no_ap_conn_retries' = 0 /\ router_gone_conn_retries' = 0
  /\ UNCHANGED <<out, self_disconnect, missed, router_gone>>

GotIpEvent ==
  /\ no_ap_conn_retries' = 0 /\ router_gone_conn_retries' = 0
  /\ out' = [out EXCEPT ![EventTask] = <<Do("CREATE_UDP_SOCKET")>>]
  /\ UNCHANGED <<self_disconnect, missed, router_gone>>

HandleEvent ==
  /\ out[EventTask] = <<>> /\ events # <<>>
  /\ events' = Tail(events)
  /\ LET e == Head(events)
     IN \/ /\ e.id = "CONNECTED" /\ router_gone' = FALSE
           /\ UNCHANGED <<out, self_disconnect, missed, no_ap_conn_retries,
                          router_gone_conn_retries>>
        \/ e.id = "GOT_IP" /\ GotIpEvent
        \/ e.id = "DISCONNECTED" /\ e.reason = "NO_AP_FOUND" /\ NoApFound
        \/ e.id = "DISCONNECTED" /\ e.reason # "NO_AP_FOUND" /\ OtherReason(e.reason)
  /\ UNCHANGED <<alive, queue, flags, fds, creds, retries, radio, incidents, dropped,
                 acked>>

----------------------------------------------------------------------------
(* The system *)

Handle ==
  \/ DriverInit \/ DriverDeinit
  \/ StaStart \/ StaStop \/ ApStart \/ ApStop
  \/ CreateUdp \/ DiscoverPc \/ StartTcpServer \/ AcceptPcConn
  \/ GetRouterCreds \/ SendCommand

Network == Associate \/ GotIp \/ IpChanged \/ ConnectFail \/ LinkLost

Next ==
  \/ Handle \/ HandleEvent \/ \E t \in {Dispatcher, EventTask} : Post(t)
  \/ SendCmd \/ Network \/ PowerCycle

Spec == Init /\ [][Next]_vars

(* The FreeRTOS scheduler runs the dispatcher and the event task whenever    *)
(* they have work.  Nothing is assumed of the network, the peer or power.    *)
Fairness ==
  /\ WF_vars(Handle) /\ WF_vars(HandleEvent)
  /\ \A t \in {Dispatcher, EventTask} : WF_vars(Post(t))

FairSpec == Spec /\ Fairness

----------------------------------------------------------------------------
(* Properties *)

(* Every variable has its type, the queue never exceeds its length, and no   *)
(* retry counter passes the cap its case tests with "==": a counter one past *)
(* its cap would never meet it again and the retries would never end.        *)
RtosOK ==
  /\ alive \in BOOLEAN
  /\ queue \in Seq(Msg) /\ Len(queue) <= QueueLen
  /\ out \in [{Dispatcher, EventTask} -> Seq(Msg)]
SocketsOK ==
  /\ is_sta_up \in BOOLEAN /\ is_ap_up \in BOOLEAN
  /\ sock_fd_udp \in Fd \cup {Closed}
  /\ sock_fd_tcp \in Fd \cup {Closed}
  /\ pc_sock_fd \in Fd \cup {Closed}
  /\ sock \in [Fd -> Kind]
CredsOK ==
  /\ cfg_staged \in BOOLEAN /\ write_pending \in BOOLEAN
  /\ sta_wcfg \in Usable \cup {"none"} /\ nvs \in Stored
  /\ acked \in SUBSET Creds
RetriesOK ==
  /\ udp_create_counter \in 0 .. UdpCreateMax
  /\ tcp_create_counter \in 0 .. TcpCreateMax
  /\ accept_counter \in 0 .. AcceptMax
  /\ no_ap_conn_retries \in 0 .. NoApMax
  /\ router_gone_conn_retries \in 0 .. RouterGoneMax
OutsideOK ==
  /\ self_disconnect \in BOOLEAN /\ router_gone \in BOOLEAN
  /\ radio \in {"uninit", "stopped", "idle", "ap"} \cup Joining
  /\ events \in Seq(Event) /\ incidents \in Nat
  /\ dropped \in BOOLEAN /\ missed \in BOOLEAN
TypeOK == RtosOK /\ SocketsOK /\ CredsOK /\ RetriesOK /\ OutsideOK

(* A listener is bound to the port of the role the manager has now, and a    *)
(* connection has that role's receive timeout: whatever order events and     *)
(* rebuilds come in, is_sta_up never changes under sockets set up for the    *)
(* other role, not even when a descriptor is a stale number that lwIP has    *)
(* handed out again.                                                         *)
RoleMatchesSockets ==
  \A fd \in {sock_fd_tcp, pc_sock_fd} \cap Fd :
    sock[fd] \in {"free", "udp", Listener(CurrentRole), Conn(CurrentRole)}

(* The manager never has nothing to do and nothing to wait for: when no      *)
(* message, post or event is left anywhere, a network is being joined (the   *)
(* driver will report) or a connected PC is being served over one.  The two  *)
(* ways the code does lose its thread are set apart: a control message lost  *)
(* to a full queue, and a disconnect the event handler took for the          *)
(* manager's own (DisconnectsAreActedOn).                                    *)
Quiet == queue = <<>> /\ events = <<>> /\ \A t \in DOMAIN out : out[t] = <<>>
Waiting == radio \in {"connecting", "assoc"}
Serving == radio = "ip" /\ is_sta_up /\ HasPeer
NeverStranded == alive /\ Quiet /\ ~dropped /\ ~missed => Waiting \/ Serving

(* Flash only ever holds credentials whose acceptance was sent to the        *)
(* provisioning PC, or the remains of some: nothing refused, and nothing     *)
(* whose answer never left, survives a restart as a network to join.         *)
OnlyAckedCredsPersist == nvs \in acked \cup {"none", "blank", "torn"}

(* A station that finds itself off the network does not stay there: it joins *)
(* again, turns to provisioning or ends, whichever its budgets and the       *)
(* failures decide, short of the two losses NeverStranded sets apart.        *)
NeverLeftOffline ==
  radio = "idle" ~> radio # "idle" \/ ~alive \/ dropped \/ missed

(* A station on the network makes itself findable or reachable: it opens a   *)
(* socket, be it that of discovery, the listener or the peer's (one it lost  *)
(* track of counts as well), or it is no longer there.                       *)
Reachable == \E fd \in Fd : sock[fd] # "free"
OnNetworkLeadsToReachable ==
  radio = "ip" ~> Reachable \/ radio # "ip" \/ ~alive \/ dropped \/ missed

(* What the documentation says of the code, and the code does not do.        *)

(* "anything else is treated as a router-gone drop that stops and restarts   *)
(* STA" and a self-disconnect alone "is ignored once and cleared": a         *)
(* disconnect the manager did not cause leaves it something to do.  A        *)
(* station that is off the network when it is stopped raises no event, the   *)
(* flag stays set, and the next real disconnect is the one ignored.          *)
DisconnectsAreActedOn == alive /\ Quiet /\ ~dropped => Waiting \/ Serving

====
