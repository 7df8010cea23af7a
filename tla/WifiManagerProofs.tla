---- MODULE WifiManagerProofs ----
(* Theorems about WifiManager, for every value of its constants.            *)
EXTENDS WifiManager, TLAPS

----------------------------------------------------------------------------
(* Facts the proofs of type correctness share *)

(* The messages the program posts are messages.                             *)
LEMMA MsgType ==
  /\ \A id \in MsgId : Do(id) \in Msg
  /\ \A id \in MsgId, r \in Role : DoAs(id, r) \in Msg
  /\ \A r : Restart(r) \in Seq(Msg)
  /\ FallBack \in Seq(Msg)
<1>1. \A id \in MsgId, r \in Role : DoAs(id, r) \in Msg
  BY DEF DoAs, Msg
<1>2. \A id \in MsgId : Do(id) \in Msg
  BY DEF Do, Msg, Role
<1>3. {"STA_STOP", "STA_START", "AP_STOP", "AP_START"} \subseteq MsgId
  BY DEF MsgId
<1>4. \A r : Restart(r) \in Seq(Msg)
  BY <1>2, <1>3 DEF Restart
<1>5. FallBack \in Seq(Msg)
  BY <1>2, <1>3 DEF FallBack
<1>. QED  BY <1>1, <1>2, <1>4, <1>5

(* Taking the message in hand leaves the queue typed and no longer.         *)
LEMMA TailType ==
  ASSUME TypeOK, queue # <<>>
  PROVE  /\ cur \in Msg
         /\ Tail(queue) \in Seq(Msg) /\ Len(Tail(queue)) <= QueueLen
<1>1. queue \in Seq(Msg) /\ Len(queue) <= QueueLen
  BY DEF TypeOK, RtosOK
<1>2. cur \in Msg
  BY <1>1 DEF cur
<1>3. Tail(queue) \in Seq(Msg) /\ Len(Tail(queue)) = Len(queue) - 1
  BY <1>1
<1>. QED  BY <1>1, <1>2, <1>3, ConstantsAssumption

(* Reply leaves the queue and the posts typed, and so does the task's end.  *)
LEMMA ReplyType ==
  ASSUME TypeOK, queue # <<>>, NEW msgs \in Seq(Msg), Reply(msgs)
  PROVE  RtosOK'
BY TailType DEF Reply, TypeOK, RtosOK

(* The task's end (ExitTask) leaves every variable typed.                   *)
LEMMA ExitType ==
  ASSUME TypeOK, queue # <<>>, ExitTask
  PROVE  RtosOK'
BY TailType DEF ExitTask, TypeOK, RtosOK

(* Leaving a network adds at most one event.                                *)
LEMMA LeaveType ==
  ASSUME TypeOK
  PROVE  Leave \in Seq(Event)
<1>1. Disconnected("LEAVE") \in Event
  BY DEF Disconnected, Event, Reason
<1>. QED  BY <1>1 DEF Leave, TypeOK, OutsideOK

(* Closing descriptors keeps the table a table, and opens nothing.          *)
LEMMA CloseFdsType ==
  ASSUME NEW s \in [Fd -> Kind], NEW fs
  PROVE  /\ CloseFds(s, fs) \in [Fd -> Kind]
         /\ \A fd \in Fd : CloseFds(s, fs)[fd] \in {"free", s[fd]}
BY DEF CloseFds, Kind

(* A descriptor in use has a kind of socket, one not in use is closed.      *)
LEMMA KindType ==
  \A r : Listener(r) \in Kind /\ Conn(r) \in Kind
BY DEF Listener, Conn, Kind

----------------------------------------------------------------------------
(* Type correctness *)

(* The state the image boots in is typed.                                   *)
LEMMA InitType == Init => TypeOK
<1>. SUFFICES ASSUME Init PROVE TypeOK
  OBVIOUS
<1>1. RtosOK
  <2>1. Do("DRIVER_INIT") \in Msg
    BY MsgType DEF MsgId
  <2>2. FirstPost \in [{Dispatcher, EventTask} -> Seq(Msg)]
    BY <2>1 DEF FirstPost
  <2>. QED  BY <2>2, ConstantsAssumption DEF Init, RtosOK
<1>2. SocketsOK
  BY DEF Init, SocketsOK, NoSockets, Kind
<1>3. CredsOK
  BY DEF Init, CredsOK, Stored, Usable
<1>4. RetriesOK
  BY ConstantsAssumption DEF Init, RetriesOK
<1>5. OutsideOK
  <2>1. <<>> \in Seq(Event)
    OBVIOUS
  <2>. QED  BY <2>1 DEF Init, OutsideOK
<1>. QED  BY <1>1, <1>2, <1>3, <1>4, <1>5 DEF TypeOK

(* The cases that start and stop the driver, the station and the access     *)
(* point keep the types.                                                    *)
LEMMA DriverType ==
  ASSUME TypeOK, DriverInit \/ DriverDeinit \/ StaStart \/ StaStop \/ ApStart \/ ApStop
  PROVE  TypeOK'
<1>0. queue # <<>>
  BY DEF DriverInit, DriverDeinit, StaStart, StaStop, ApStart, ApStop, Takes
<1>a. /\ <<Do("STA_START")>> \in Seq(Msg) /\ <<Do("DRIVER_DEINIT")>> \in Seq(Msg)
      /\ <<Do("AP_START")>> \in Seq(Msg) /\ <<>> \in Seq(Msg)
      /\ <<DoAs("START_TCP_SERVER", "AP")>> \in Seq(Msg)
  BY MsgType DEF MsgId, Role
<1>1. CASE DriverInit
  <2>1. RtosOK'
    BY <1>0, <1>a, <1>1, ReplyType, ExitType DEF DriverInit
  <2>2. SocketsOK' /\ CredsOK' /\ RetriesOK' /\ OutsideOK'
    BY <1>1 DEF DriverInit, TypeOK, SocketsOK, CredsOK, RetriesOK, OutsideOK, flags,
       fds, retries, handler, history
  <2>. QED  BY <2>1, <2>2 DEF TypeOK
<1>2. CASE DriverDeinit
  <2>1. RtosOK'
    BY <1>0, <1>2, ExitType DEF DriverDeinit
  <2>2. SocketsOK' /\ CredsOK' /\ RetriesOK'
    BY <1>2 DEF DriverDeinit, ResetState, TypeOK, SocketsOK, CredsOK, RetriesOK,
       flags, fds, creds, retries, handler, history
  <2>3. OutsideOK'
    <3>1. <<>> \in Seq(Event)
      OBVIOUS
    <3>. QED  BY <1>2, <3>1 DEF DriverDeinit, TypeOK, OutsideOK, driver, handler, history
  <2>. QED  BY <2>1, <2>2, <2>3 DEF TypeOK
<1>3. CASE StaStart
  <2>1. RtosOK'
    BY <1>0, <1>a, <1>3, ReplyType DEF StaStart
  <2>2. SocketsOK' /\ RetriesOK' /\ OutsideOK'
    BY <1>3, LeaveType DEF StaStart, TurnOff, AsStation, TypeOK, SocketsOK, RetriesOK, OutsideOK,
       flags, fds, driver, retries, handler, history, Joining
  <2>3. CredsOK'
    BY <1>3 DEF StaStart, ConfigInUse, TypeOK, CredsOK, Usable, Stored, history
  <2>. QED  BY <2>1, <2>2, <2>3 DEF TypeOK
<1>4. CASE StaStop
  <2>1. RtosOK'
    BY <1>0, <1>a, <1>4, ReplyType DEF StaStop
  <2>2. SocketsOK'
    BY <1>4, CloseFdsType DEF StaStop, RouterGone, TypeOK, SocketsOK
  <2>3. CredsOK' /\ RetriesOK' /\ OutsideOK'
    BY <1>4, LeaveType DEF StaStop, TurnOff, TypeOK, CredsOK, RetriesOK, OutsideOK,
       creds, driver, retries, handler, history
  <2>. QED  BY <2>1, <2>2, <2>3 DEF TypeOK
<1>5. CASE ApStart
  <2>1. RtosOK'
    BY <1>0, <1>a, <1>5, ReplyType DEF ApStart
  <2>2. SocketsOK' /\ CredsOK' /\ RetriesOK'
    BY <1>5 DEF ApStart, TypeOK, SocketsOK, CredsOK, RetriesOK, fds, creds, retries,
       handler, history
  <2>3. OutsideOK'
    BY <1>5, LeaveType DEF ApStart, TurnOff, TypeOK, OutsideOK, driver, handler, history
  <2>. QED  BY <2>1, <2>2, <2>3 DEF TypeOK
<1>6. CASE ApStop
  <2>1. RtosOK'
    BY <1>0, <1>a, <1>6, ReplyType DEF ApStop
  <2>2. SocketsOK'
    BY <1>6, CloseFdsType DEF ApStop, RouterGone, TypeOK, SocketsOK
  <2>3. CredsOK' /\ RetriesOK' /\ OutsideOK'
    BY <1>6, LeaveType DEF ApStop, TurnOff, TypeOK, CredsOK, RetriesOK, OutsideOK,
       creds, driver, retries, handler, history
  <2>. QED  BY <2>1, <2>2, <2>3 DEF TypeOK
<1>. QED  BY <1>1, <1>2, <1>3, <1>4, <1>5, <1>6

(* The messages the socket cases post.                                      *)
LEMMA SocketMsgType ==
  ASSUME TypeOK, queue # <<>>
  PROVE  /\ <<>> \in Seq(Msg) /\ <<cur>> \in Seq(Msg)
         /\ \A id \in MsgId : <<Do(id)>> \in Seq(Msg)
         /\ \A id, jd \in MsgId : <<Do(id), Do(jd)>> \in Seq(Msg)
         /\ \A id \in MsgId, r \in Role : <<DoAs(id, r)>> \in Seq(Msg)
         /\ cur.role \in Role
<1>1. cur \in Msg
  BY TailType
<1>2. cur.role \in Role
  BY <1>1 DEF Msg
<1>. QED  BY <1>1, <1>2, MsgType

(* What a case opens is typed, and so is the descriptor it is handed.       *)
LEMMA OpenType ==
  ASSUME NEW s \in [Fd -> Kind], NEW fd \in LowestFree(s), NEW k \in Kind
  PROVE  fd \in Fd /\ [s EXCEPT ![fd] = k] \in [Fd -> Kind]
BY DEF LowestFree, FreeFds

(* CREATE_UDP_SOCKET keeps the types, and its rebuild counter its cap.      *)
LEMMA CreateUdpType ==
  ASSUME TypeOK, CreateUdp
  PROVE  TypeOK'
<1>0. queue # <<>>
  BY DEF CreateUdp, Takes
<1>a. {"STA_STOP", "DRIVER_DEINIT", "CREATE_UDP_SOCKET", "DISCOVER_PC"} \subseteq MsgId
  BY DEF MsgId
<1>1. RtosOK'
  BY <1>0, <1>a, SocketMsgType, ReplyType
     DEF CreateUdp, CreateUdpFatal, CreateUdpDead, CreateUdpOk
<1>2. SocketsOK'
  <2>1. CASE CreateUdpFatal
    BY <2>1, CloseFdsType DEF CreateUdp, CreateUdpFatal, RouterGone, TypeOK, SocketsOK, flags, fds
  <2>2. CASE CreateUdpDead /\ ~CreateUdpFatal
    BY <2>2, CloseFdsType DEF CreateUdp, CreateUdpDead, TypeOK, SocketsOK
  <2>3. CASE CreateUdpOk /\ ~CreateUdpFatal
    <3>. DEFINE closed == CloseFds(sock, {sock_fd_udp, sock_fd_tcp, pc_sock_fd})
    <3>1. closed \in [Fd -> Kind] /\ "udp" \in Kind
      BY CloseFdsType DEF TypeOK, SocketsOK, Kind
    <3>2. PICK fd \in LowestFree(closed) :
            sock' = [closed EXCEPT ![fd] = "udp"] /\ sock_fd_udp' = fd
      BY <2>3 DEF CreateUdpOk
    <3>3. fd \in Fd /\ sock' \in [Fd -> Kind]
      BY <3>1, <3>2, OpenType
    <3>. QED  BY <2>3, <3>2, <3>3 DEF CreateUdp, TypeOK, SocketsOK
  <2>. QED  BY <2>1, <2>2, <2>3 DEF CreateUdp
<1>3. CredsOK'
  BY DEF CreateUdp, CreateUdpFatal, FlushCreds, Interrupted, Written, TypeOK, CredsOK,
     Stored, Usable, creds, history
<1>4. RetriesOK'
  BY ConstantsAssumption DEF CreateUdp, CreateUdpFatal, CreateUdpDead, CreateUdpOk,
     TypeOK, RetriesOK, handler, retries
<1>5. OutsideOK'
  BY DEF CreateUdp, TypeOK, OutsideOK, handler, driver, history
<1>. QED  BY <1>1, <1>2, <1>3, <1>4, <1>5 DEF TypeOK

(* DISCOVER_PC keeps the types.                                             *)
LEMMA DiscoverPcType ==
  ASSUME TypeOK, DiscoverPc
  PROVE  TypeOK'
<1>0. queue # <<>>
  BY DEF DiscoverPc, Takes
<1>a. {"DISCOVER_PC", "CREATE_UDP_SOCKET", "START_TCP_SERVER"} \subseteq MsgId /\ "STA" \in Role
  BY DEF MsgId, Role
<1>1. RtosOK'
  BY <1>0, <1>a, SocketMsgType, MsgType, ReplyType DEF DiscoverPc
<1>2. SocketsOK'
  BY CloseFdsType DEF DiscoverPc, TypeOK, SocketsOK, flags, fds
<1>3. CredsOK' /\ RetriesOK' /\ OutsideOK'
  BY DEF DiscoverPc, TypeOK, CredsOK, RetriesOK, OutsideOK, creds, retries, handler,
     driver, history
<1>. QED  BY <1>1, <1>2, <1>3 DEF TypeOK

(* START_TCP_SERVER keeps the types, and its rebuild counter its cap.       *)
LEMMA StartTcpServerType ==
  ASSUME TypeOK, StartTcpServer
  PROVE  TypeOK'
<1>0. queue # <<>>
  BY DEF StartTcpServer, Takes
<1>. DEFINE closed == CloseFds(sock, {sock_fd_tcp})
<1>a. "ACCEPT_PC_CONN" \in MsgId
  BY DEF MsgId
<1>b. closed \in [Fd -> Kind]
  BY CloseFdsType DEF TypeOK, SocketsOK
<1>1. RtosOK'
  BY <1>0, <1>a, SocketMsgType, MsgType, ReplyType DEF StartTcpServer, ListenerDead
<1>2. SocketsOK'
  <2>1. CASE sock' = closed /\ sock_fd_tcp' = Closed
    BY <1>b, <2>1 DEF StartTcpServer, TypeOK, SocketsOK, flags
  <2>2. CASE \E fd \in LowestFree(closed) :
               /\ sock' = [closed EXCEPT ![fd] = Listener(CurrentRole)]
               /\ sock_fd_tcp' = fd
    <3>1. PICK fd \in LowestFree(closed) :
            sock' = [closed EXCEPT ![fd] = Listener(CurrentRole)] /\ sock_fd_tcp' = fd
      BY <2>2
    <3>2. fd \in Fd /\ sock' \in [Fd -> Kind]
      BY <1>b, <3>1, OpenType, KindType
    <3>. QED  BY <3>1, <3>2 DEF StartTcpServer, TypeOK, SocketsOK, flags
  <2>. QED  BY <2>1, <2>2 DEF StartTcpServer
<1>3. CredsOK' /\ OutsideOK'
  BY DEF StartTcpServer, TypeOK, CredsOK, OutsideOK, creds, handler, driver, history
<1>4. RetriesOK'
  BY ConstantsAssumption DEF StartTcpServer, ListenerDead, TypeOK, RetriesOK, handler
<1>. QED  BY <1>1, <1>2, <1>3, <1>4 DEF TypeOK

(* ACCEPT_PC_CONN keeps the types, and its retry counter its cap.           *)
LEMMA AcceptPcConnType ==
  ASSUME TypeOK, AcceptPcConn
  PROVE  TypeOK'
<1>0. queue # <<>>
  BY DEF AcceptPcConn, Takes
<1>a. {"CREATE_UDP_SOCKET", "START_TCP_SERVER", "GET_ROUTER_CREDS", "SEND_COMMAND",
       "STA_STOP", "DRIVER_DEINIT"} \subseteq MsgId
  BY DEF MsgId
<1>1. RtosOK'
  BY <1>0, <1>a, SocketMsgType, MsgType, ReplyType
     DEF AcceptPcConn, AcceptAgain, AcceptDead, GotConn
<1>2. SocketsOK'
  <2>1. CASE GotConn
    <3>1. PICK fd \in LowestFree(sock) :
            sock' = [sock EXCEPT ![fd] = Conn(CurrentRole)] /\ pc_sock_fd' = fd
      BY <2>1 DEF GotConn
    <3>2. fd \in Fd /\ sock' \in [Fd -> Kind]
      BY <3>1, OpenType, KindType DEF TypeOK, SocketsOK
    <3>. QED  BY <2>1, <3>1, <3>2 DEF GotConn, AcceptPcConn, TypeOK, SocketsOK, flags
  <2>2. CASE AcceptDead
    BY <2>2, CloseFdsType DEF AcceptDead, AcceptPcConn, TypeOK, SocketsOK, flags
  <2>3. CASE AcceptAgain
    BY <2>3 DEF AcceptAgain, AcceptPcConn, TypeOK, SocketsOK, flags
  <2>4. CASE UNCHANGED <<sock_fd_tcp, pc_sock_fd, sock>>
    BY <2>4 DEF AcceptPcConn, TypeOK, SocketsOK, flags
  <2>. QED  BY <2>1, <2>2, <2>3, <2>4 DEF AcceptPcConn
<1>3. CredsOK' /\ OutsideOK'
  BY DEF AcceptPcConn, TypeOK, CredsOK, OutsideOK, creds, handler, driver, history
<1>4. RetriesOK'
  BY ConstantsAssumption DEF AcceptPcConn, AcceptAgain, AcceptDead, GotConn, TypeOK,
     RetriesOK, handler
<1>. QED  BY <1>1, <1>2, <1>3, <1>4 DEF TypeOK

(* GET_ROUTER_CREDS keeps the types, whatever the peer sent.                *)
LEMMA GetRouterCredsType ==
  ASSUME TypeOK, GetRouterCreds
  PROVE  TypeOK'
<1>0. queue # <<>>
  BY DEF GetRouterCreds, Takes
<1>a. {"GET_ROUTER_CREDS", "ACCEPT_PC_CONN", "AP_STOP", "STA_START"} \subseteq MsgId
      /\ "AP" \in Role
  BY DEF MsgId, Role
<1>1. RtosOK'
  BY <1>0, <1>a, SocketMsgType, MsgType, ReplyType
     DEF GetRouterCreds, CredsBadState, CredsPeerGone, CredsRejected, CredsAccepted
<1>2. SocketsOK'
  BY CloseFdsType DEF GetRouterCreds, CredsBadState, CredsPeerGone, CredsRejected,
     CredsAccepted, ClosePeer, TypeOK, SocketsOK, flags
<1>3. CredsOK'
  BY DEF GetRouterCreds, CredsBadState, CredsPeerGone, CredsRejected, CredsAccepted,
     TypeOK, CredsOK, Usable
<1>4. RetriesOK' /\ OutsideOK'
  BY DEF GetRouterCreds, TypeOK, RetriesOK, OutsideOK, retries, handler, driver
<1>. QED  BY <1>1, <1>2, <1>3, <1>4 DEF TypeOK

(* SEND_COMMAND keeps the types.                                            *)
LEMMA SendCommandType ==
  ASSUME TypeOK, SendCommand
  PROVE  TypeOK'
<1>0. queue # <<>>
  BY DEF SendCommand, Takes
<1>a. "ACCEPT_PC_CONN" \in MsgId /\ "STA" \in Role
  BY DEF MsgId, Role
<1>1. RtosOK'
  BY <1>0, <1>a, SocketMsgType, ReplyType DEF SendCommand
<1>2. SocketsOK'
  BY CloseFdsType DEF SendCommand, ClosePeer, TypeOK, SocketsOK, flags
<1>3. CredsOK' /\ RetriesOK' /\ OutsideOK'
  BY DEF SendCommand, TypeOK, CredsOK, RetriesOK, OutsideOK, creds, retries, handler,
     driver, history
<1>. QED  BY <1>1, <1>2, <1>3 DEF TypeOK

(* The event handler keeps the types, and both its retry counters their caps.*)
LEMMA HandleEventType ==
  ASSUME TypeOK, HandleEvent
  PROVE  TypeOK'
<1>a. EventTask \in {Dispatcher, EventTask}
  OBVIOUS
<1>b. <<Do("CREATE_UDP_SOCKET")>> \in Seq(Msg)
  BY MsgType DEF MsgId
<1>c. \A r : Answer(r) \in Seq(Msg)
  BY MsgType DEF Answer
<1>d. Tail(events) \in Seq(Event)
  BY DEF HandleEvent, TypeOK, OutsideOK
<1>1. RtosOK'
  <2>1. out' \in [{Dispatcher, EventTask} -> Seq(Msg)]
    BY <1>a, <1>b, <1>c, MsgType
       DEF HandleEvent, NoApFound, OtherReason, GotIpEvent, TypeOK, RtosOK
  <2>. QED  BY <2>1 DEF HandleEvent, TypeOK, RtosOK
<1>2. SocketsOK' /\ CredsOK'
  BY DEF HandleEvent, TypeOK, SocketsOK, CredsOK, flags, fds, creds
<1>3. RetriesOK'
  BY ConstantsAssumption DEF HandleEvent, NoApFound, OtherReason, GotIpEvent, TypeOK,
     RetriesOK, retries
<1>4. OutsideOK'
  BY <1>d DEF HandleEvent, NoApFound, OtherReason, GotIpEvent, TypeOK, OutsideOK
<1>. QED  BY <1>1, <1>2, <1>3, <1>4 DEF TypeOK

(* A dispatcher step, whatever the message in hand, keeps the types.        *)
LEMMA QueueType ==
  ASSUME TypeOK, SendCmd \/ \E t \in {Dispatcher, EventTask} : Post(t)
  PROVE  TypeOK'
<1>a. Do("SEND_COMMAND") \in Msg
  BY MsgType DEF MsgId
<1>1. CASE SendCmd
  <2>1. RtosOK'
    BY <1>1, <1>a, ConstantsAssumption DEF SendCmd, TypeOK, RtosOK
  <2>. QED  BY <1>1, <2>1 DEF SendCmd, TypeOK, SocketsOK, CredsOK, RetriesOK, OutsideOK,
            flags, fds, creds, retries, handler, driver, history
<1>2. ASSUME NEW t \in {Dispatcher, EventTask}, Post(t)
      PROVE  TypeOK'
  <2>1. out[t] \in Seq(Msg) /\ out[t] # <<>>
    BY <1>2 DEF Post, TypeOK, RtosOK
  <2>2. Head(out[t]) \in Msg /\ Tail(out[t]) \in Seq(Msg)
    BY <2>1
  <2>3. RtosOK'
    <3>1. out' \in [{Dispatcher, EventTask} -> Seq(Msg)]
      BY <1>2, <2>2 DEF Post, TypeOK, RtosOK
    <3>2. \/ queue' = queue
          \/ Len(queue) < QueueLen /\ queue' = Append(queue, Head(out[t]))
      BY <1>2 DEF Post
    <3>3. queue \in Seq(Msg) /\ Len(queue) <= QueueLen /\ QueueLen \in Nat
      BY ConstantsAssumption DEF TypeOK, RtosOK
    <3>4. queue' \in Seq(Msg) /\ Len(queue') <= QueueLen
      BY <2>2, <3>2, <3>3
    <3>. QED  BY <1>2, <3>1, <3>4 DEF Post, TypeOK, RtosOK
  <2>4. SocketsOK' /\ RetriesOK'
    BY <1>2 DEF Post, TypeOK, SocketsOK, RetriesOK, flags, fds, retries, handler
  <2>5. dropped' \in BOOLEAN /\ missed' = missed /\ acked' = acked
    BY <1>2 DEF Post, history, TypeOK, OutsideOK
  <2>6. CredsOK' /\ OutsideOK'
    BY <1>2, <2>5 DEF Post, TypeOK, CredsOK, OutsideOK, creds, handler, driver
  <2>. QED  BY <2>3, <2>4, <2>6 DEF TypeOK
<1>. QED  BY <1>1, <1>2

(* What the network and the driver raise keeps the types.                   *)
LEMMA NetworkType ==
  ASSUME TypeOK, Network
  PROVE  TypeOK'
<1>1. PICK next \in {"assoc", "ip", "idle"}, e \in Event : Raise(next, e)
  <2>1. \A r \in Reason : Disconnected(r) \in Event
    BY DEF Disconnected, Event
  <2>2. [id |-> "CONNECTED"] \in Event /\ [id |-> "GOT_IP"] \in Event
    BY DEF Event
  <2>3. "OTHER" \in Reason
    BY DEF Reason
  <2>. QED  BY <2>1, <2>2, <2>3 DEF Network, Associate, GotIp, IpChanged, ConnectFail, LinkLost
<1>2. incidents' \in Nat
  BY DEF Network, Associate, GotIp, IpChanged, ConnectFail, LinkLost, Incident, TypeOK,
     OutsideOK
<1>3. events' \in Seq(Event)
  BY <1>1 DEF Raise, TypeOK, OutsideOK
<1>. QED  BY <1>1, <1>2, <1>3 DEF Raise, TypeOK, RtosOK, SocketsOK, CredsOK, RetriesOK,
          OutsideOK, Joining, rtos, flags, fds, creds, retries, handler, history

(* A power cycle keeps the types, credentials in flash included.            *)
LEMMA PowerCycleType ==
  ASSUME TypeOK, PowerCycle
  PROVE  TypeOK'
<1>1. RtosOK'
  <2>1. Do("DRIVER_INIT") \in Msg
    BY MsgType DEF MsgId
  <2>2. FirstPost \in [{Dispatcher, EventTask} -> Seq(Msg)]
    BY <2>1 DEF FirstPost
  <2>. QED  BY <2>2, ConstantsAssumption DEF PowerCycle, RtosOK
<1>2. SocketsOK'
  BY DEF PowerCycle, SocketsOK, NoSockets, Kind
<1>3. CredsOK'
  BY DEF PowerCycle, Interrupted, Written, TypeOK, CredsOK, Stored, Usable
<1>4. RetriesOK'
  BY ConstantsAssumption DEF PowerCycle, RetriesOK
<1>5. OutsideOK'
  <2>1. <<>> \in Seq(Event)
    OBVIOUS
  <2>2. incidents' \in Nat
    BY DEF PowerCycle, Incident, TypeOK, OutsideOK
  <2>3. /\ self_disconnect' = FALSE /\ router_gone' = FALSE
        /\ radio' = "uninit" /\ events' = <<>> /\ dropped' = FALSE /\ missed' = FALSE
    BY DEF PowerCycle
  <2>. QED  BY <2>1, <2>2, <2>3 DEF OutsideOK
<1>. QED  BY <1>1, <1>2, <1>3, <1>4, <1>5 DEF TypeOK

(* So does a step that changes nothing.                                     *)
LEMMA StutterType == TypeOK /\ UNCHANGED vars => TypeOK'
BY DEF TypeOK, RtosOK, SocketsOK, CredsOK, RetriesOK, OutsideOK, vars, rtos, flags, fds,
   creds, retries, handler, driver, history

(* TypeOK is inductive: no case of the dispatcher, no event, no post and no  *)
(* power cycle takes a variable out of its range, and no retry counter past  *)
(* the cap its case compares it with by "==".                                *)
THEOREM TypeCorrect == Spec => []TypeOK
<1>1. TypeOK /\ [Next]_vars => TypeOK'
  BY DriverType, CreateUdpType, DiscoverPcType, StartTcpServerType, AcceptPcConnType,
     GetRouterCredsType, SendCommandType, HandleEventType, QueueType, NetworkType,
     PowerCycleType, StutterType DEF Next, Handle
<1>. QED  BY <1>1, InitType, PTL DEF Spec

----------------------------------------------------------------------------
(* Sockets and roles *)

(* A case that leaves the role and the descriptors alone, and may close      *)
(* sockets, keeps them matched; so does one that gives both descriptors up.  *)
LEMMA RoleKept ==
  ASSUME TypeOK, RoleMatchesSockets, UNCHANGED is_sta_up,
         sock_fd_tcp' \in {sock_fd_tcp, Closed}, pc_sock_fd' \in {pc_sock_fd, Closed},
         \A fd \in Fd : sock'[fd] \in {"free", sock[fd]}
  PROVE  RoleMatchesSockets'
BY DEF RoleMatchesSockets, CurrentRole, Closed, Fd

(* Giving both descriptors up keeps role and sockets matched.               *)
LEMMA RoleGivenUp ==
  ASSUME sock_fd_tcp' = Closed, pc_sock_fd' = Closed
  PROVE  RoleMatchesSockets'
<1>1. Closed \notin Fd
  BY NumSockAssumption DEF Closed, Fd
<1>. QED  BY <1>1 DEF RoleMatchesSockets

(* A socket opened for the role the manager has now keeps them matched.      *)
LEMMA RoleOpened ==
  ASSUME TypeOK, RoleMatchesSockets, UNCHANGED is_sta_up,
         NEW s \in [Fd -> Kind], \A fd \in Fd : s[fd] \in {"free", sock[fd]},
         NEW new \in Fd, NEW k \in {Listener(CurrentRole), Conn(CurrentRole)},
         sock' = [s EXCEPT ![new] = k],
         sock_fd_tcp' \in {sock_fd_tcp, new}, pc_sock_fd' \in {pc_sock_fd, new}
  PROVE  RoleMatchesSockets'
<1>1. CurrentRole' = CurrentRole
  BY DEF CurrentRole
<1>2. SUFFICES ASSUME NEW fd \in Fd, fd \in {sock_fd_tcp', pc_sock_fd'}
               PROVE  sock'[fd] \in {"free", "udp", Listener(CurrentRole), Conn(CurrentRole)}
  BY <1>1 DEF RoleMatchesSockets
<1>3. CASE fd = new
  BY <1>3
<1>4. CASE fd # new
  BY <1>2, <1>4 DEF RoleMatchesSockets
<1>. QED  BY <1>3, <1>4

(* Whatever the order of events, rebuilds and role changes, the listener and *)
(* the connection the manager holds are those of the role it has.            *)
THEOREM RolesCorrect == Spec => []RoleMatchesSockets
<1>1. Init => RoleMatchesSockets
  BY NumSockAssumption DEF Init, RoleMatchesSockets, Closed, Fd
<1>2. TypeOK /\ RoleMatchesSockets /\ [Next]_vars => RoleMatchesSockets'
  <2>. SUFFICES ASSUME TypeOK, RoleMatchesSockets, [Next]_vars
                PROVE  RoleMatchesSockets'
    OBVIOUS
  <2>a. sock \in [Fd -> Kind]
    BY DEF TypeOK, SocketsOK
  <2>1. CASE /\ UNCHANGED <<is_sta_up, fds>>
    BY <2>1, RoleKept DEF fds
  <2>2. CASE StaStop \/ ApStop
    BY <2>2, RoleGivenUp DEF StaStop, ApStop, RouterGone
  <2>3. CASE DriverDeinit
    BY <2>1, <2>3, RoleGivenUp DEF DriverDeinit, ResetState, flags
  <2>4. CASE CreateUdp
    BY <2>1, <2>4, RoleGivenUp DEF CreateUdp, CreateUdpFatal, flags
  <2>5. CASE DiscoverPc
    BY <2>a, <2>5, RoleKept, CloseFdsType DEF DiscoverPc, flags
  <2>6. CASE StartTcpServer
    <3>. DEFINE closed == CloseFds(sock, {sock_fd_tcp})
    <3>1. closed \in [Fd -> Kind] /\ \A fd \in Fd : closed[fd] \in {"free", sock[fd]}
      BY <2>a, CloseFdsType
    <3>2. CASE sock' = closed /\ sock_fd_tcp' = Closed
      BY <2>6, <3>1, <3>2, RoleKept DEF StartTcpServer, flags
    <3>3. CASE \E fd \in LowestFree(closed) :
                 /\ sock' = [closed EXCEPT ![fd] = Listener(CurrentRole)]
                 /\ sock_fd_tcp' = fd
      <4>1. PICK fd \in Fd : /\ sock' = [closed EXCEPT ![fd] = Listener(CurrentRole)]
                             /\ sock_fd_tcp' = fd
        BY <3>3 DEF LowestFree, FreeFds
      <4>. QED  BY <2>6, <3>1, <4>1, RoleOpened DEF StartTcpServer, flags
    <3>. QED  BY <2>6, <3>2, <3>3 DEF StartTcpServer
  <2>7. CASE AcceptPcConn
    <3>1. CASE GotConn
      <4>1. PICK fd \in Fd : sock' = [sock EXCEPT ![fd] = Conn(CurrentRole)] /\ pc_sock_fd' = fd
        BY <3>1 DEF GotConn, LowestFree, FreeFds
      <4>. QED  BY <2>7, <2>a, <3>1, <4>1, RoleOpened DEF AcceptPcConn, GotConn, flags
    <3>2. CASE AcceptDead
      BY <2>7, <2>a, <3>2, RoleKept, CloseFdsType DEF AcceptPcConn, AcceptDead, flags
    <3>3. CASE AcceptAgain
      BY <2>7, <3>3, RoleKept DEF AcceptPcConn, AcceptAgain, flags
    <3>4. CASE UNCHANGED <<sock_fd_tcp, pc_sock_fd, sock>>
      BY <2>7, <3>4, RoleKept DEF AcceptPcConn, flags
    <3>. QED  BY <2>7, <3>1, <3>2, <3>3, <3>4 DEF AcceptPcConn
  <2>8. CASE GetRouterCreds
    BY <2>a, <2>8, RoleKept, CloseFdsType DEF GetRouterCreds, CredsBadState, CredsPeerGone,
       CredsRejected, CredsAccepted, ClosePeer, flags
  <2>9. CASE SendCommand
    BY <2>a, <2>9, RoleKept, CloseFdsType DEF SendCommand, ClosePeer, flags
  <2>10. CASE DriverInit \/ StaStart \/ ApStart \/ HandleEvent \/ SendCmd
              \/ \E t \in {Dispatcher, EventTask} : Post(t)
    BY <2>1, <2>10 DEF DriverInit, StaStart, ApStart, HandleEvent, SendCmd, Post, flags
  <2>11. CASE Network
    BY <2>1, <2>11 DEF Network, Associate, GotIp, IpChanged, ConnectFail, LinkLost, Raise, flags
  <2>12. CASE PowerCycle
    BY <2>12, RoleGivenUp DEF PowerCycle
  <2>13. CASE UNCHANGED vars
    BY <2>1, <2>13 DEF vars, flags
  <2>. QED  BY <2>2, <2>3, <2>4, <2>5, <2>6, <2>7, <2>8, <2>9, <2>10, <2>11, <2>12, <2>13
            DEF Next, Handle
<1>. QED  BY <1>1, <1>2, TypeCorrect, PTL DEF Spec

----------------------------------------------------------------------------
(* What flash can hold *)

(* OnlyAckedCredsPersist is not inductive: what is written is what is        *)
(* staged, so the staged credentials must be accounted for as well.          *)
CredsInv ==
  /\ OnlyAckedCredsPersist
  /\ sta_wcfg \in acked \cup {"none", "torn"}

(* Flash only ever holds credentials whose acceptance was sent to a PC, or   *)
(* what is left of them, through failed writes and power cycles.             *)
THEOREM CredsCorrect == Spec => []OnlyAckedCredsPersist
<1>1. Init => CredsInv
  BY DEF Init, CredsInv, OnlyAckedCredsPersist
<1>2. TypeOK /\ CredsInv /\ [Next]_vars => CredsInv'
  <2>. SUFFICES ASSUME TypeOK, CredsInv, [Next]_vars
                PROVE  CredsInv'
    OBVIOUS
  <2>1. CASE UNCHANGED <<creds, acked>>
    BY <2>1 DEF creds, CredsInv, OnlyAckedCredsPersist
  <2>2. CASE DriverInit
    BY <2>2 DEF DriverInit, CredsInv, OnlyAckedCredsPersist, history
  <2>3. CASE DriverDeinit
    BY <2>3 DEF DriverDeinit, ResetState, CredsInv, OnlyAckedCredsPersist, creds, history
  <2>4. CASE StaStart
    <3>1. UNCHANGED <<nvs, acked>>
      BY <2>4 DEF StaStart, history
    <3>2. sta_wcfg' \in {sta_wcfg, "none", nvs} \cap (Usable \cup {"none"})
      BY <2>4 DEF StaStart, ConfigInUse, TypeOK, CredsOK
    <3>3. "blank" \notin Usable
      BY ConstantsAssumption DEF Usable
    <3>. QED  BY <3>1, <3>2, <3>3 DEF CredsInv, OnlyAckedCredsPersist
  <2>5. CASE CreateUdp
    BY <2>5 DEF CreateUdp, CreateUdpFatal, FlushCreds, Interrupted, Written, CredsInv,
       OnlyAckedCredsPersist, creds, history
  <2>6. CASE GetRouterCreds
    BY <2>6 DEF GetRouterCreds, CredsBadState, CredsPeerGone, CredsRejected, CredsAccepted,
       CredsInv, OnlyAckedCredsPersist
  <2>7. CASE PowerCycle
    BY <2>7 DEF PowerCycle, Interrupted, Written, CredsInv, OnlyAckedCredsPersist
  <2>8. CASE \/ StaStop \/ ApStart \/ ApStop \/ DiscoverPc \/ StartTcpServer
             \/ AcceptPcConn \/ SendCommand
    BY <2>1, <2>8 DEF StaStop, ApStart, ApStop, DiscoverPc, StartTcpServer, AcceptPcConn,
       SendCommand, history
  <2>9. CASE HandleEvent \/ SendCmd \/ \E t \in {Dispatcher, EventTask} : Post(t)
    BY <2>1, <2>9 DEF HandleEvent, SendCmd, Post, history
  <2>10. CASE Network
    BY <2>1, <2>10 DEF Network, Associate, GotIp, IpChanged, ConnectFail, LinkLost, Raise,
       history
  <2>11. CASE UNCHANGED vars
    BY <2>1, <2>11 DEF vars, history
  <2>. QED  BY <2>2, <2>3, <2>4, <2>5, <2>6, <2>7, <2>8, <2>9, <2>10, <2>11 DEF Next, Handle
<1>3. CredsInv => OnlyAckedCredsPersist
  BY DEF CredsInv
<1>. QED  BY <1>1, <1>2, <1>3, TypeCorrect, PTL DEF Spec

----------------------------------------------------------------------------
(* The Wi-Fi manager never loses its thread, for every length of its       *)
(* queue, every retry budget and every combination of failing calls.       *)
(*                                                                         *)
(* The dispatcher has no timer and no loop of its own: it lives on each    *)
(* case posting the next message.  NeverStranded says so of the states     *)
(* where nothing is under way.  What makes it inductive is what is said of *)
(* all the others: a message that has to be answered with another, or an   *)
(* event that will be, is always somewhere, and a stop is always followed  *)
(* by what starts the manager again.                                       *)

Tasks    == {Dispatcher, EventTask}
Stops    == {"STA_STOP", "AP_STOP"}
Starters == {"STA_START", "AP_START", "DRIVER_DEINIT"}
Answered == MsgId \ {"SEND_COMMAND", "STA_START"}
HasRole  == {"START_TCP_SERVER", "ACCEPT_PC_CONN"}

Has(s, ids) == \E i \in 1 .. Len(s) : s[i].id \in ids
StopsFollowed(s) ==
  \A k \in 1 .. Len(s) : s[k].id \in Stops => \E j \in k + 1 .. Len(s) : s[j].id \in Starters
Roled(s) == \A k \in 1 .. Len(s) : s[k].id \in HasRole => s[k].role \in {"STA", "AP"}

(* Somewhere in the queue, or among the posts a task still has to make.      *)
Coming(ids) == Has(queue, ids) \/ \E t \in Tasks : Has(out[t], ids)

QueueFollowed ==
  \A k \in 1 .. Len(queue) : queue[k].id \in Stops =>
    \/ \E j \in k + 1 .. Len(queue) : queue[j].id \in Starters
    \/ \E t \in Tasks : Has(out[t], Starters)

(* Each task's posts come in pairs a stop cannot be left over from.          *)
Ordered ==
  /\ QueueFollowed /\ Roled(queue)
  /\ \A t \in Tasks : StopsFollowed(out[t]) /\ Roled(out[t])

(* An event the handler answers with a message, unless it takes it for the   *)
(* manager's own.                                                            *)
Answers(e) == e.id = "GOT_IP" \/ (e.id = "DISCONNECTED" /\ e.reason # "LEAVE")
Promised   == \E i \in 1 .. Len(events) : Answers(events[i])

(* STA_START on a network already joined posts nothing and joins nothing.    *)
Held ==
  \/ Coming(Answered) \/ Promised \/ Serving
  \/ radio # "ip" /\ (Waiting \/ Coming({"STA_START"}))

NoLoss == alive /\ ~dropped /\ ~missed
Thread == NoLoss => Ordered /\ Held

----------------------------------------------------------------------------
(* Sequences of messages *)

LEMMA InTail ==
  ASSUME NEW S, NEW s \in Seq(S), s # <<>>, NEW ids, Has(s, ids), Head(s).id \notin ids
  PROVE  Has(Tail(s), ids)
<1>1. PICK i \in 1 .. Len(s) : s[i].id \in ids
  BY DEF Has
<1>2. i # 1
  BY <1>1
<1>3. i - 1 \in 1 .. Len(Tail(s)) /\ Tail(s)[i - 1] = s[i]
  BY <1>1, <1>2
<1>. QED  BY <1>1, <1>3 DEF Has

LEMMA OfTail ==
  ASSUME NEW S, NEW s \in Seq(S), s # <<>>
  PROVE  /\ Len(Tail(s)) = Len(s) - 1
         /\ \A k \in 1 .. Len(Tail(s)) : k + 1 \in 1 .. Len(s) /\ Tail(s)[k] = s[k + 1]
OBVIOUS

LEMMA TailRoled ==
  ASSUME NEW S, NEW s \in Seq(S), s # <<>>, Roled(s)
  PROVE  Roled(Tail(s))
BY OfTail DEF Roled

LEMMA TailFollowed ==
  ASSUME NEW S, NEW s \in Seq(S), s # <<>>, StopsFollowed(s)
  PROVE  /\ StopsFollowed(Tail(s))
         /\ Head(s).id \in Stops => Has(Tail(s), Starters)
<1>1. Head(s) = s[1] /\ 1 \in 1 .. Len(s)
  OBVIOUS
<1>2. ASSUME Head(s).id \in Stops PROVE Has(Tail(s), Starters)
  <2>1. PICK j \in 2 .. Len(s) : s[j].id \in Starters
    BY <1>1, <1>2 DEF StopsFollowed
  <2>2. j - 1 \in 1 .. Len(Tail(s)) /\ Tail(s)[j - 1] = s[j]
    BY <2>1
  <2>. QED  BY <2>1, <2>2 DEF Has
<1>3. ASSUME NEW k \in 1 .. Len(Tail(s)), Tail(s)[k].id \in Stops
      PROVE  \E j \in k + 1 .. Len(Tail(s)) : Tail(s)[j].id \in Starters
  <2>1. k + 1 \in 1 .. Len(s) /\ s[k + 1].id \in Stops
    BY <1>3, OfTail
  <2>2. PICK j \in k + 2 .. Len(s) : s[j].id \in Starters
    BY <2>1 DEF StopsFollowed
  <2>3. j - 1 \in k + 1 .. Len(Tail(s)) /\ Tail(s)[j - 1] = s[j]
    BY <2>2
  <2>. QED  BY <2>2, <2>3
<1>. QED  BY <1>2, <1>3 DEF StopsFollowed

LEMMA InAppend ==
  ASSUME NEW S, NEW s \in Seq(S), NEW m \in S, NEW ids
  PROVE  Has(Append(s, m), ids) <=> Has(s, ids) \/ m.id \in ids
<1>1. /\ Len(Append(s, m)) = Len(s) + 1 /\ Append(s, m)[Len(s) + 1] = m
      /\ \A i \in 1 .. Len(s) : Append(s, m)[i] = s[i]
  OBVIOUS
<1>. QED  BY <1>1 DEF Has

LEMMA AppendRoled ==
  ASSUME NEW S, NEW s \in Seq(S), NEW m \in S, Roled(s),
         m.id \in HasRole => m.role \in {"STA", "AP"}
  PROVE  Roled(Append(s, m))
BY DEF Roled

LEMMA InEmpty == \A ids : ~Has(<<>>, ids)
BY DEF Has

----------------------------------------------------------------------------
(* What taking a message, and posting one, does to what is coming *)

LEMMA Sequences ==
  ASSUME TypeOK
  PROVE  /\ queue \in Seq(Msg)
         /\ \A t \in Tasks : out[t] \in Seq(Msg)
         /\ events \in Seq(Event)
BY DEF TypeOK, RtosOK, OutsideOK, Tasks

LEMMA Replied ==
  ASSUME TypeOK, Ordered, out[Dispatcher] = <<>>, queue # <<>>,
         NEW msgs \in Seq(Msg), StopsFollowed(msgs), Roled(msgs), Reply(msgs)
  PROVE  /\ Ordered'
         /\ cur.id \in Stops => Coming(Starters)'
         /\ \A ids : Has(msgs, ids) => Coming(ids)'
         /\ \A ids : cur.id \notin ids /\ Coming(ids) => Coming(ids)'
<1>1. /\ queue' = Tail(queue) /\ queue \in Seq(Msg)
      /\ out'[Dispatcher] = msgs /\ out'[EventTask] = out[EventTask]
  BY Sequences DEF Reply, TypeOK, RtosOK, Dispatcher, EventTask
<1>2. \A ids : Coming(ids) <=> Has(queue, ids) \/ Has(out[EventTask], ids)
  BY InEmpty DEF Coming, Tasks
<1>3. \A ids : Coming(ids)' <=> Has(Tail(queue), ids) \/ Has(msgs, ids) \/ Has(out[EventTask], ids)
  BY <1>1 DEF Coming, Tasks, Has
<1>4. ASSUME NEW ids, cur.id \notin ids, Coming(ids)
      PROVE  Coming(ids)'
  <2>1. Has(queue, ids) => Has(Tail(queue), ids)
    BY <1>1, <1>4, InTail DEF cur
  <2>. QED  BY <1>2, <1>3, <1>4, <2>1
<1>5. ASSUME cur.id \in Stops
      PROVE  Coming(Starters)'
  <2>1. 1 \in 1 .. Len(queue) /\ queue[1].id \in Stops
    BY <1>1, <1>5 DEF cur
  <2>2. CASE \E j \in 2 .. Len(queue) : queue[j].id \in Starters
    <3>1. PICK j \in 2 .. Len(queue) : queue[j].id \in Starters
      BY <2>2
    <3>2. j - 1 \in 1 .. Len(Tail(queue)) /\ Tail(queue)[j - 1] = queue[j]
      BY <1>1, <3>1
    <3>. QED  BY <1>3, <3>1, <3>2 DEF Has
  <2>3. CASE \E t \in Tasks : Has(out[t], Starters)
    BY <1>3, <2>3, InEmpty DEF Tasks
  <2>. QED  BY <2>1, <2>2, <2>3 DEF Ordered, QueueFollowed
<1>6. QueueFollowed'
  <2>. SUFFICES ASSUME NEW k \in 1 .. Len(Tail(queue)), Tail(queue)[k].id \in Stops
                PROVE  \/ \E j \in k + 1 .. Len(Tail(queue)) : Tail(queue)[j].id \in Starters
                       \/ Has(out[EventTask], Starters)
    BY <1>1 DEF QueueFollowed, Has, Tasks
  <2>1. k + 1 \in 1 .. Len(queue) /\ queue[k + 1].id \in Stops
    BY <1>1, OfTail
  <2>2. CASE \E j \in k + 2 .. Len(queue) : queue[j].id \in Starters
    <3>1. PICK j \in k + 2 .. Len(queue) : queue[j].id \in Starters
      BY <2>2
    <3>2. j - 1 \in k + 1 .. Len(Tail(queue)) /\ Tail(queue)[j - 1] = queue[j]
      BY <1>1, <3>1
    <3>. QED  BY <3>1, <3>2
  <2>3. CASE \E t \in Tasks : Has(out[t], Starters)
    BY <2>3, InEmpty DEF Tasks
  <2>. QED  BY <2>1, <2>2, <2>3 DEF Ordered, QueueFollowed
<1>7. Roled(queue)' /\ \A t \in Tasks : StopsFollowed(out[t])' /\ Roled(out[t])'
  <2>1. Roled(Tail(queue))
    BY <1>1, TailRoled DEF Ordered
  <2>2. StopsFollowed(out[EventTask]) /\ Roled(out[EventTask])
    BY DEF Ordered, Tasks
  <2>. QED  BY <1>1, <2>1, <2>2 DEF Tasks, StopsFollowed, Roled
<1>. QED  BY <1>3, <1>4, <1>5, <1>6, <1>7 DEF Ordered

(* A post that is not lost moves a message, and with it what it starts.      *)
LEMMA Posted ==
  ASSUME TypeOK, Ordered, NEW t \in Tasks, Post(t), ~dropped'
  PROVE  Ordered' /\ \A ids : Coming(ids) => Coming(ids)'
<1> DEFINE m == Head(out[t])
<1>1. out[t] # <<>> /\ out[t] \in Seq(Msg) /\ queue \in Seq(Msg) /\ m \in Msg
  BY Sequences DEF Post
<1>2. queue' = Append(queue, m)
  BY DEF Post
<1>3. out'[t] = Tail(out[t]) /\ \A u \in Tasks \ {t} : out'[u] = out[u]
  BY DEF Post, TypeOK, RtosOK, Tasks
<1>4. \A ids : Has(out[t], ids) => m.id \in ids \/ Has(Tail(out[t]), ids)
  BY <1>1, InTail
<1>5. \A ids : Has(Append(queue, m), ids) <=> Has(queue, ids) \/ m.id \in ids
  BY <1>1, InAppend
<1>6. \A ids : Coming(ids) => Coming(ids)'
  BY <1>2, <1>3, <1>4, <1>5 DEF Coming, Has
<1>7. m.id \in HasRole => m.role \in {"STA", "AP"}
  BY <1>1 DEF Ordered, Roled
<1>8. Roled(queue)'
  BY <1>1, <1>2, <1>7, AppendRoled DEF Ordered, Roled
<1>9. \A u \in Tasks : StopsFollowed(out[u])' /\ Roled(out[u])'
  <2>1. StopsFollowed(Tail(out[t])) /\ Roled(Tail(out[t]))
    BY <1>1, TailFollowed, TailRoled DEF Ordered
  <2>. QED  BY <1>3, <2>1 DEF Ordered, StopsFollowed, Roled
<1>10. QueueFollowed'
  <2>1. /\ Len(Append(queue, m)) = Len(queue) + 1 /\ Append(queue, m)[Len(queue) + 1] = m
        /\ \A i \in 1 .. Len(queue) : Append(queue, m)[i] = queue[i]
    BY <1>1
  <2>. SUFFICES ASSUME NEW k \in 1 .. Len(queue) + 1, Append(queue, m)[k].id \in Stops
                PROVE  \/ \E j \in k + 1 .. Len(queue) + 1 : Append(queue, m)[j].id \in Starters
                       \/ \E u \in Tasks : Has(out'[u], Starters)
    BY <1>2, <2>1 DEF QueueFollowed, Has
  <2>2. CASE k = Len(queue) + 1
    <3>1. Has(Tail(out[t]), Starters)
      BY <1>1, <2>1, <2>2, TailFollowed DEF Ordered
    <3>. QED  BY <1>3, <3>1
  <2>3. CASE k \in 1 .. Len(queue)
    <3>1. queue[k].id \in Stops
      BY <2>1, <2>3
    <3>2. CASE \E j \in k + 1 .. Len(queue) : queue[j].id \in Starters
      <4>1. PICK j \in k + 1 .. Len(queue) : queue[j].id \in Starters
        BY <3>2
      <4>2. j \in k + 1 .. Len(queue) + 1 /\ Append(queue, m)[j] = queue[j]
        BY <1>1, <2>1, <2>3, <4>1
      <4>. QED  BY <4>1, <4>2
    <3>3. CASE \E u \in Tasks : Has(out[u], Starters)
      <4>1. CASE m.id \in Starters
        <5>1. Len(queue) + 1 \in k + 1 .. Len(queue) + 1
          BY <1>1, <2>3
        <5>. QED  BY <2>1, <4>1, <5>1
      <4>2. CASE m.id \notin Starters
        BY <1>3, <1>4, <3>3, <4>2
      <4>. QED  BY <4>1, <4>2
    <3>. QED  BY <2>3, <3>1, <3>2, <3>3 DEF Ordered, QueueFollowed
  <2>. QED  BY <1>1, <2>2, <2>3
<1>. QED  BY <1>6, <1>8, <1>9, <1>10 DEF Ordered

----------------------------------------------------------------------------
(* What the cases post *)

Fit(msgs) == msgs \in Seq(Msg) /\ StopsFollowed(msgs) /\ Roled(msgs)

LEMMA OneFits ==
  ASSUME NEW m \in Msg, m.id \notin Stops, m.id \in HasRole => m.role \in {"STA", "AP"}
  PROVE  /\ Fit(<<m>>)
         /\ m.id \in Answered => Has(<<m>>, Answered)
BY DEF Fit, StopsFollowed, Roled, Has

LEMMA TwoFit ==
  ASSUME NEW stop \in Stops, NEW start \in Starters
  PROVE  Fit(<<Do(stop), Do(start)>>) /\ Has(<<Do(stop), Do(start)>>, Answered)
<1>1. Do(stop) \in Msg /\ Do(start) \in Msg
  BY MsgType DEF Stops, Starters, MsgId
<1>2. Do(stop).id = stop /\ Do(start).id = start
  BY DEF Do
<1>3. /\ stop \in Answered /\ stop \notin HasRole
      /\ start \notin HasRole /\ start \notin Stops
  BY DEF Answered, HasRole, Stops, Starters, MsgId
<1> DEFINE s == <<Do(stop), Do(start)>>
<1>4. s \in Seq(Msg) /\ Len(s) = 2 /\ s[1].id = stop /\ s[2].id = start
  BY <1>1, <1>2
<1> HIDE DEF s
<1>5. \A k \in 1 .. Len(s) : k = 1 \/ k = 2
  BY <1>4
<1>6. StopsFollowed(s)
  <2>1. 2 \in 1 + 1 .. Len(s)
    BY <1>4
  <2>. QED  BY <1>3, <1>4, <1>5, <2>1 DEF StopsFollowed
<1>7. Roled(s)
  BY <1>3, <1>4, <1>5 DEF Roled
<1>8. Has(s, Answered)
  <2>1. 1 \in 1 .. Len(s)
    BY <1>4
  <2>. QED  BY <1>3, <1>4, <2>1 DEF Has
<1>. QED  BY <1>4, <1>6, <1>7, <1>8 DEF Fit, s

LEMMA Fits ==
  /\ Fit(<<>>)
  /\ Fit(<<Do("SEND_COMMAND")>>) /\ Fit(<<Do("STA_START")>>)
  /\ \A id \in Answered \ (Stops \cup HasRole) :
       Fit(<<Do(id)>>) /\ Has(<<Do(id)>>, Answered)
  /\ \A id \in HasRole, r \in {"STA", "AP"} :
       Fit(<<DoAs(id, r)>>) /\ Has(<<DoAs(id, r)>>, Answered)
  /\ \A r : Fit(Restart(r)) /\ Has(Restart(r), Answered)
  /\ Fit(FallBack) /\ Has(FallBack, Answered)
<1>1. Fit(<<>>)
  BY DEF Fit, StopsFollowed, Roled
<1>2. \A id \in MsgId : Do(id) \in Msg /\ Do(id).id = id
  BY MsgType DEF Do
<1>3. \A id \in MsgId, r \in Role : DoAs(id, r) \in Msg /\ DoAs(id, r).id = id /\ DoAs(id, r).role = r
  BY MsgType DEF DoAs
<1>4. Fit(<<Do("SEND_COMMAND")>>) /\ Fit(<<Do("STA_START")>>)
  BY <1>2, OneFits DEF MsgId, Stops, HasRole
<1>5. \A id \in Answered \ (Stops \cup HasRole) : Fit(<<Do(id)>>) /\ Has(<<Do(id)>>, Answered)
  BY <1>2, OneFits DEF Answered
<1>6. \A id \in HasRole, r \in {"STA", "AP"} : Fit(<<DoAs(id, r)>>) /\ Has(<<DoAs(id, r)>>, Answered)
  BY <1>3, OneFits DEF Answered, HasRole, Stops, MsgId, Role
<1>7. \A r : Fit(Restart(r)) /\ Has(Restart(r), Answered)
  BY TwoFit DEF Restart, Stops, Starters
<1>8. Fit(FallBack) /\ Has(FallBack, Answered)
  BY TwoFit DEF FallBack, Stops, Starters
<1>. QED  BY <1>1, <1>4, <1>5, <1>6, <1>7, <1>8

(* Replied, for a case that posts what fits.                                 *)
LEMMA Answering ==
  ASSUME TypeOK, Ordered, out[Dispatcher] = <<>>, queue # <<>>,
         NEW msgs, Fit(msgs), Has(msgs, Answered), Reply(msgs)
  PROVE  Ordered' /\ Held'
<1>1. Ordered' /\ Coming(Answered)'
  BY Replied DEF Fit
<1>. QED  BY <1>1 DEF Held

(* The message in hand keeps the role it was posted with.                    *)
LEMMA CurRole ==
  ASSUME TypeOK, Ordered, queue # <<>>
  PROVE  cur \in Msg /\ (cur.id \in HasRole => cur.role \in {"STA", "AP"})
<1>1. queue \in Seq(Msg) /\ cur = queue[1] /\ 1 \in 1 .. Len(queue)
  BY Sequences DEF cur
<1>. QED  BY <1>1 DEF Ordered, Roled

(* Posting the message in hand again.                                        *)
LEMMA Again ==
  ASSUME TypeOK, Ordered, queue # <<>>, cur.id \in Answered \ Stops
  PROVE  Fit(<<cur>>) /\ Has(<<cur>>, Answered)
BY CurRole, OneFits

----------------------------------------------------------------------------
(* The dispatcher's cases *)

LEMMA StarterComes == Coming(Starters)' => Coming(Answered)' \/ Coming({"STA_START"})'
BY DEF Coming, Has, Starters, Answered, MsgId

LEMMA DriverThread ==
  ASSUME TypeOK, Ordered, Held, alive',
         DriverInit \/ DriverDeinit \/ StaStart \/ StaStop \/ ApStart \/ ApStop
  PROVE  Ordered' /\ Held'
<1>0. queue # <<>> /\ out[Dispatcher] = <<>>
  BY DEF DriverInit, DriverDeinit, StaStart, StaStop, ApStart, ApStop, Takes
<1>d. ASSUME Reply(<<Do("DRIVER_DEINIT")>>)
      PROVE  Ordered' /\ Held'
  BY <1>0, <1>d, Fits, Answering DEF Answered, MsgId, Stops, HasRole
<1>n. ASSUME Reply(<<>>), radio' = "stopped", cur.id \in Stops
      PROVE  Ordered' /\ Held'
  <2>1. Ordered' /\ Coming(Starters)'
    BY <1>0, <1>n, Fits, Replied DEF Fit
  <2>. QED  BY <1>n, <2>1, StarterComes DEF Held
<1>1. CASE DriverInit
  <2>1. Reply(<<Do("STA_START")>>) /\ radio' = "stopped"
    BY <1>1 DEF DriverInit, ExitTask
  <2>2. Has(<<Do("STA_START")>>, {"STA_START"})
    BY DEF Has, Do
  <2>3. Ordered' /\ Coming({"STA_START"})'
    BY <1>0, <2>1, <2>2, Fits, Replied DEF Fit
  <2>. QED  BY <2>1, <2>3 DEF Held
<1>2. CASE DriverDeinit
  BY <1>2 DEF DriverDeinit, ExitTask
<1>3. CASE StaStart
  <2>1. CASE /\ radio' = IF radio \in Joining THEN radio ELSE "connecting"
             /\ events' = events /\ Reply(<<>>)
    <3>1. cur.id = "STA_START" /\ UNCHANGED <<is_sta_up, pc_sock_fd, sock>>
      BY <1>3 DEF StaStart, Takes, flags, fds
    <3>2. Ordered' /\ (Coming(Answered) => Coming(Answered)')
      BY <1>0, <2>1, <3>1, Fits, Replied DEF Fit, Answered
    <3>3. Promised => Promised'
      BY <2>1 DEF Promised
    <3>4. Serving => Serving'
      BY <2>1, <3>1 DEF Serving, HasPeer, Joining
    <3>5. radio # "ip" => radio' # "ip" /\ Waiting'
      BY <2>1 DEF Waiting, Joining
    <3>. QED  BY <3>2, <3>3, <3>4, <3>5 DEF Held
  <2>2. CASE Reply(<<Do("AP_START")>>)
    BY <1>0, <2>2, Fits, Answering DEF Answered, MsgId, Stops, HasRole
  <2>3. CASE Reply(<<Do("DRIVER_DEINIT")>>)
    BY <1>d, <2>3
  <2>. QED  BY <1>3, <2>1, <2>2, <2>3 DEF StaStart
<1>4. CASE StaStop
  <2>1. cur.id \in Stops
    BY <1>4 DEF StaStop, Takes, Stops
  <2>. QED  BY <1>4, <1>d, <1>n, <2>1 DEF StaStop, TurnOff
<1>5. CASE ApStart
  <2>1. CASE Reply(<<DoAs("START_TCP_SERVER", "AP")>>)
    BY <1>0, <2>1, Fits, Answering DEF HasRole
  <2>. QED  BY <1>5, <1>d, <2>1 DEF ApStart
<1>6. CASE ApStop
  <2>1. cur.id \in Stops
    BY <1>6 DEF ApStop, Takes, Stops
  <2>. QED  BY <1>6, <1>d, <1>n, <2>1 DEF ApStop, TurnOff
<1>. QED  BY <1>1, <1>2, <1>3, <1>4, <1>5, <1>6

LEMMA SocketThread ==
  ASSUME TypeOK, Ordered, CreateUdp \/ DiscoverPc \/ StartTcpServer \/ GetRouterCreds
  PROVE  Ordered' /\ Held'
<1>0. queue # <<>> /\ out[Dispatcher] = <<>>
  BY DEF CreateUdp, DiscoverPc, StartTcpServer, GetRouterCreds, Takes
<1>1. CASE CreateUdp
  <2>1. \/ Reply(<<Do("STA_STOP"), Do("DRIVER_DEINIT")>>)
        \/ Reply(<<Do("CREATE_UDP_SOCKET")>>) \/ Reply(<<Do("DISCOVER_PC")>>)
    BY <1>1 DEF CreateUdp, CreateUdpFatal, CreateUdpDead, CreateUdpOk
  <2>2. Reply(<<Do("STA_STOP"), Do("DRIVER_DEINIT")>>) => Ordered' /\ Held'
    BY <1>0, TwoFit, Answering DEF Stops, Starters
  <2>3. Reply(<<Do("CREATE_UDP_SOCKET")>>) \/ Reply(<<Do("DISCOVER_PC")>>) => Ordered' /\ Held'
    BY <1>0, Fits, Answering DEF Answered, MsgId, Stops, HasRole
  <2>. QED  BY <2>1, <2>2, <2>3
<1>2. CASE DiscoverPc
  <2>1. \/ Reply(Restart("STA")) \/ Reply(<<DoAs("START_TCP_SERVER", "STA")>>)
        \/ Reply(<<Do("CREATE_UDP_SOCKET")>>) \/ Reply(<<Do("DISCOVER_PC")>>)
    BY <1>2 DEF DiscoverPc
  <2>2. Reply(Restart("STA")) \/ Reply(<<DoAs("START_TCP_SERVER", "STA")>>) => Ordered' /\ Held'
    BY <1>0, Fits, Answering DEF HasRole
  <2>3. Reply(<<Do("CREATE_UDP_SOCKET")>>) \/ Reply(<<Do("DISCOVER_PC")>>) => Ordered' /\ Held'
    BY <1>0, Fits, Answering DEF Answered, MsgId, Stops, HasRole
  <2>. QED  BY <2>1, <2>2, <2>3
<1>3. CASE StartTcpServer
  <2>1. cur.id = "START_TCP_SERVER"
    BY <1>3 DEF StartTcpServer, Takes
  <2>2. cur.role \in {"STA", "AP"} /\ Fit(<<cur>>) /\ Has(<<cur>>, Answered)
    BY <1>0, <2>1, CurRole, Again DEF HasRole, Answered, MsgId, Stops
  <2>3. \/ Reply(Restart(cur.role)) \/ Reply(<<cur>>)
        \/ Reply(<<DoAs("ACCEPT_PC_CONN", cur.role)>>)
    BY <1>3 DEF StartTcpServer, ListenerDead
  <2>. QED  BY <1>0, <2>2, <2>3, Fits, Answering DEF HasRole
<1>4. CASE GetRouterCreds
  <2>1. \/ Reply(Restart("AP")) \/ Reply(<<DoAs("ACCEPT_PC_CONN", "AP")>>)
        \/ Reply(<<Do("GET_ROUTER_CREDS")>>) \/ Reply(<<Do("AP_STOP"), Do("STA_START")>>)
    BY <1>4 DEF GetRouterCreds, CredsBadState, CredsPeerGone, CredsRejected, CredsAccepted
  <2>2. Reply(Restart("AP")) \/ Reply(<<DoAs("ACCEPT_PC_CONN", "AP")>>) => Ordered' /\ Held'
    BY <1>0, Fits, Answering DEF HasRole
  <2>3. Reply(<<Do("GET_ROUTER_CREDS")>>) => Ordered' /\ Held'
    BY <1>0, Fits, Answering DEF Answered, MsgId, Stops, HasRole
  <2>4. Reply(<<Do("AP_STOP"), Do("STA_START")>>) => Ordered' /\ Held'
    BY <1>0, TwoFit, Answering DEF Stops, Starters
  <2>. QED  BY <2>1, <2>2, <2>3, <2>4
<1>. QED  BY <1>1, <1>2, <1>3, <1>4

(* A PC that is connected in STA mode is served; the orientation it is sent  *)
(* first is answered by nothing.                                             *)
LEMMA AcceptThread ==
  ASSUME TypeOK, Ordered, AcceptPcConn
  PROVE  Ordered' /\ Held'
<1>0. queue # <<>> /\ out[Dispatcher] = <<>> /\ cur.id = "ACCEPT_PC_CONN"
  BY DEF AcceptPcConn, Takes
<1>1. cur.role \in {"STA", "AP"} /\ Fit(<<cur>>) /\ Has(<<cur>>, Answered)
  BY <1>0, CurRole, Again DEF HasRole, Answered, MsgId, Stops
<1>2. \/ Reply(Restart(cur.role)) \/ Reply(<<cur>>) \/ Reply(<<Do("CREATE_UDP_SOCKET")>>)
      \/ Reply(<<DoAs("START_TCP_SERVER", cur.role)>>)
      \/ IsUp(cur.role) /\ GotConn
  BY DEF AcceptPcConn, AcceptAgain, AcceptDead
<1>3. CASE \/ Reply(Restart(cur.role)) \/ Reply(<<cur>>)
           \/ Reply(<<DoAs("START_TCP_SERVER", cur.role)>>)
  BY <1>0, <1>1, <1>3, Fits, Answering DEF HasRole
<1>4. CASE Reply(<<Do("CREATE_UDP_SOCKET")>>)
  BY <1>0, <1>4, Fits, Answering DEF Answered, MsgId, Stops, HasRole
<1>5. CASE IsUp(cur.role) /\ GotConn
  <2>1. CASE Reply(<<Do("GET_ROUTER_CREDS")>>)
    BY <1>0, <2>1, Fits, Answering DEF Answered, MsgId, Stops, HasRole
  <2>2. CASE Reply(<<Do("STA_STOP"), Do("DRIVER_DEINIT")>>)
    BY <1>0, <2>2, TwoFit, Answering DEF Stops, Starters
  <2>3. CASE cur.role = "STA" /\ Reply(<<Do("SEND_COMMAND")>>)
    <3>1. Ordered'
      BY <1>0, <2>3, Fits, Replied DEF Fit
    <3>2. is_sta_up /\ radio = "ip"
      BY <1>5, <2>3 DEF IsUp, GotConn, PeerIn
    <3>3. PICK fd \in Fd : sock' = [sock EXCEPT ![fd] = Conn(CurrentRole)] /\ pc_sock_fd' = fd
      BY <1>5 DEF GotConn, LowestFree, FreeFds
    <3>4. sock \in [Fd -> Kind] /\ Conn(CurrentRole) = "conn_STA"
      BY <3>2 DEF TypeOK, SocketsOK, CurrentRole, Conn
    <3>5. UNCHANGED <<is_sta_up, radio>>
      BY DEF AcceptPcConn, flags, driver
    <3>6. HasPeer'
      BY <3>3, <3>4 DEF HasPeer, OpenAs
    <3>. QED  BY <3>1, <3>2, <3>5, <3>6 DEF Held, Serving
  <2>. QED  BY <1>1, <1>5, <2>1, <2>2, <2>3 DEF GotConn
<1>. QED  BY <1>2, <1>3, <1>4, <1>5

LEMMA CommandThread ==
  ASSUME TypeOK, Ordered, Held, SendCommand
  PROVE  Ordered' /\ Held'
<1>0. queue # <<>> /\ out[Dispatcher] = <<>> /\ cur.id = "SEND_COMMAND"
  BY DEF SendCommand, Takes
<1>1. CASE Reply(<<DoAs("ACCEPT_PC_CONN", "STA")>>)
  BY <1>0, <1>1, Fits, Answering DEF HasRole
<1>2. CASE Reply(<<>>) /\ UNCHANGED <<pc_sock_fd, sock>>
  <2>1. UNCHANGED <<is_sta_up, radio, events>>
    BY DEF SendCommand, flags, driver
  <2>2. /\ Ordered'
        /\ Coming(Answered) => Coming(Answered)'
        /\ Coming({"STA_START"}) => Coming({"STA_START"})'
    BY <1>0, <1>2, Fits, Replied DEF Fit, Answered
  <2>. QED  BY <1>2, <2>1, <2>2 DEF Held, Promised, Serving, HasPeer, Waiting
<1>. QED  BY <1>1, <1>2 DEF SendCommand

----------------------------------------------------------------------------
(* The event task, and everything outside *)

(* What the handler answers an event with, or that it leaves things alone.   *)
LEMMA EventAnswer ==
  ASSUME HandleEvent, ~missed'
  PROVE  \/ /\ ~Answers(Head(events)) /\ out' = out
         \/ \E msgs : Fit(msgs) /\ Has(msgs, Answered) /\ out' = [out EXCEPT ![EventTask] = msgs]
<1> DEFINE e == Head(events)
           Posts == \E msgs : Fit(msgs) /\ Has(msgs, Answered)
                                /\ out' = [out EXCEPT ![EventTask] = msgs]
<1>1. CASE e.id = "CONNECTED" /\ out' = out
  BY <1>1 DEF Answers
<1>2. CASE GotIpEvent
  <2>1. "CREATE_UDP_SOCKET" \in Answered \ (Stops \cup HasRole)
    BY DEF Answered, MsgId, Stops, HasRole
  <2>. QED  BY <1>2, <2>1, Fits DEF GotIpEvent
<1>3. CASE NoApFound
  <2>1. \E msgs \in {Restart("STA"), FallBack} : out' = [out EXCEPT ![EventTask] = msgs]
    BY <1>3 DEF NoApFound
  <2>. QED  BY <2>1, Fits
<1>4. CASE e.id = "DISCONNECTED" /\ OtherReason(e.reason)
  <2>1. CASE self_disconnect
    <3>1. out' = out /\ e.reason = "LEAVE"
      BY <1>4, <2>1 DEF OtherReason
    <3>. QED  BY <1>4, <3>1 DEF Answers
  <2>2. CASE ~self_disconnect
    <3>1. \E msgs \in {Restart("STA"), FallBack} : out' = [out EXCEPT ![EventTask] = msgs]
      BY <1>4, <2>2 DEF OtherReason, Answer
    <3>. QED  BY <3>1, Fits
  <2>. QED  BY <2>1, <2>2
<1>. QED  BY <1>1, <1>2, <1>3, <1>4 DEF HandleEvent

LEMMA EventThread ==
  ASSUME TypeOK, Ordered, Held, HandleEvent, ~missed'
  PROVE  Ordered' /\ Held'
<1>1. /\ events \in Seq(Event) /\ events # <<>> /\ events' = Tail(events)
      /\ out[EventTask] = <<>> /\ UNCHANGED <<queue, radio, is_sta_up, pc_sock_fd, sock>>
  BY Sequences DEF HandleEvent, flags, fds
<1>2. CASE ~Answers(Head(events)) /\ out' = out
  <2>1. Promised => Promised'
    <3>1. SUFFICES ASSUME NEW i \in 1 .. Len(events), Answers(events[i])
                   PROVE  Promised'
      BY DEF Promised
    <3>2. i # 1
      BY <1>1, <1>2, <3>1
    <3>3. i - 1 \in 1 .. Len(Tail(events)) /\ Tail(events)[i - 1] = events[i]
      BY <1>1, <3>2
    <3>. QED  BY <1>1, <3>1, <3>3 DEF Promised
  <2>. QED  BY <1>1, <1>2, <2>1 DEF Ordered, QueueFollowed, StopsFollowed, Roled, Has, Held,
            Coming, Serving, HasPeer, Waiting
<1>3. CASE \E msgs : Fit(msgs) /\ Has(msgs, Answered) /\ out' = [out EXCEPT ![EventTask] = msgs]
  <2>1. PICK msgs : Fit(msgs) /\ Has(msgs, Answered) /\ out' = [out EXCEPT ![EventTask] = msgs]
    BY <1>3
  <2>2. out'[EventTask] = msgs /\ out'[Dispatcher] = out[Dispatcher]
    BY <2>1 DEF TypeOK, RtosOK, Dispatcher, EventTask
  <2>3. QueueFollowed'
    <3>1. \A t \in Tasks : Has(out[t], Starters) => Has(out'[t], Starters)
      BY <1>1, <2>2, InEmpty DEF Tasks
    <3>. QED  BY <1>1, <3>1 DEF Ordered, QueueFollowed, Has
  <2>4. Roled(queue)' /\ \A t \in Tasks : StopsFollowed(out[t])' /\ Roled(out[t])'
    BY <1>1, <2>1, <2>2 DEF Ordered, Fit, Tasks, StopsFollowed, Roled
  <2>5. Coming(Answered)'
    BY <2>1, <2>2 DEF Coming, Tasks, Has
  <2>. QED  BY <2>3, <2>4, <2>5 DEF Ordered, Held
<1>. QED  BY <1>2, <1>3, EventAnswer

(* What leaves queue and posts alone leaves what is coming alone.            *)
LEMMA SameMessages ==
  ASSUME UNCHANGED <<queue, out>>
  PROVE  /\ Ordered => Ordered'
         /\ Coming(Answered) => Coming(Answered)'
         /\ Coming({"STA_START"}) => Coming({"STA_START"})'
BY DEF Ordered, QueueFollowed, StopsFollowed, Roled, Coming, Has

(* The network takes a peer away only with an event that will be answered.   *)
LEMMA NetworkThread ==
  ASSUME TypeOK, Ordered, Held, Network
  PROVE  Ordered' /\ Held'
<1>1. UNCHANGED <<queue, out>>
  BY DEF Network, Associate, GotIp, IpChanged, ConnectFail, LinkLost, Raise, rtos
<1>2. events \in Seq(Event)
  BY Sequences
<1>3. CASE Associate
  <2>1. radio = "connecting" /\ radio' = "assoc"
    BY <1>3 DEF Associate, Raise
  <2>. QED  BY <1>1, <2>1, SameMessages DEF Held, Waiting
<1>4. ASSUME NEW e \in Event, Answers(e), events' = Append(events, e)
      PROVE  Promised'
  <2>1. Len(events) + 1 \in 1 .. Len(events') /\ events'[Len(events) + 1] = e
    BY <1>2, <1>4
  <2>. QED  BY <1>4, <2>1 DEF Promised
<1>5. CASE GotIp \/ IpChanged
  <2>1. events' = Append(events, [id |-> "GOT_IP"])
    BY <1>5 DEF GotIp, IpChanged, Raise
  <2>2. [id |-> "GOT_IP"] \in Event
    BY DEF Event
  <2>. QED  BY <1>1, <1>4, <2>1, <2>2, SameMessages DEF Held, Answers
<1>6. CASE ConnectFail \/ LinkLost
  <2>1. PICK r \in Reason \ {"LEAVE"} : events' = Append(events, Disconnected(r))
    BY <1>6 DEF ConnectFail, LinkLost, Raise, Reason
  <2>2. Disconnected(r) \in Event /\ Answers(Disconnected(r))
    BY <2>1 DEF Disconnected, Event, Answers
  <2>. QED  BY <1>1, <1>4, <2>1, <2>2, SameMessages DEF Held
<1>. QED  BY <1>3, <1>5, <1>6 DEF Network

LEMMA QueueThread ==
  ASSUME TypeOK, Ordered, Held, SendCmd \/ (\E t \in Tasks : Post(t)), ~dropped'
  PROVE  Ordered' /\ Held'
<1>1. UNCHANGED <<radio, events, is_sta_up, pc_sock_fd, sock>>
  BY DEF SendCmd, Post, flags, fds, driver
<1>2. ASSUME Ordered', \A ids : Coming(ids) => Coming(ids)'
      PROVE  Ordered' /\ Held'
  BY <1>1, <1>2 DEF Held, Promised, Serving, HasPeer, Waiting
<1>3. CASE \E t \in Tasks : Post(t)
  BY <1>2, <1>3, Posted
<1>4. CASE SendCmd
  <2> DEFINE m == Do("SEND_COMMAND")
  <2>1. CASE queue' = queue
    BY <1>2, <1>4, <2>1 DEF SendCmd, Ordered, QueueFollowed, StopsFollowed, Roled, Coming, Has
  <2>2. CASE queue' = Append(queue, m)
    <3>1. queue \in Seq(Msg) /\ m \in Msg /\ out' = out
      BY <1>4, Sequences, MsgType DEF SendCmd, MsgId
    <3>2. \A ids : Has(queue, ids) => Has(Append(queue, m), ids)
      BY <3>1, InAppend
    <3>3. \A ids : Coming(ids) => Coming(ids)'
      BY <2>2, <3>1, <3>2 DEF Coming, Has
    <3>4. Roled(queue)'
      BY <2>2, <3>1, AppendRoled DEF Ordered, Roled, Do, HasRole
    <3>5. QueueFollowed'
      <4>1. /\ Len(queue') = Len(queue) + 1 /\ queue'[Len(queue) + 1].id \notin Stops
            /\ \A i \in 1 .. Len(queue) : queue'[i] = queue[i]
        BY <2>2, <3>1 DEF Do, Stops
      <4>. SUFFICES ASSUME NEW k \in 1 .. Len(queue) + 1, queue'[k].id \in Stops
                    PROVE  \/ \E j \in k + 1 .. Len(queue) + 1 : queue'[j].id \in Starters
                           \/ \E u \in Tasks : Has(out[u], Starters)
        BY <3>1, <4>1 DEF QueueFollowed, Has
      <4>2. k \in 1 .. Len(queue) /\ queue[k].id \in Stops
        BY <3>1, <4>1
      <4>3. CASE \E j \in k + 1 .. Len(queue) : queue[j].id \in Starters
        <5>1. PICK j \in k + 1 .. Len(queue) : queue[j].id \in Starters
          BY <4>3
        <5>2. j \in k + 1 .. Len(queue) + 1 /\ queue'[j] = queue[j]
          BY <3>1, <4>1, <4>2, <5>1
        <5>. QED  BY <5>1, <5>2
      <4>. QED  BY <4>2, <4>3 DEF Ordered, QueueFollowed
    <3>6. Ordered'
      BY <3>1, <3>4, <3>5 DEF Ordered, StopsFollowed, Roled
    <3>. QED  BY <1>2, <3>3, <3>6
  <2>. QED  BY <1>4, <2>1, <2>2 DEF SendCmd
<1>. QED  BY <1>3, <1>4

(* A board that starts has its first message to post.                        *)
LEMMA BootThread == queue = <<>> /\ out = FirstPost => Ordered /\ Held
<1>. SUFFICES ASSUME queue = <<>>, out = FirstPost PROVE Ordered /\ Held
  OBVIOUS
<1>1. "DRIVER_INIT" \in Answered \ (Stops \cup HasRole)
  BY DEF Answered, MsgId, Stops, HasRole
<1>2. out[Dispatcher] = <<Do("DRIVER_INIT")>> /\ out[EventTask] = <<>>
  BY DEF FirstPost, Dispatcher, EventTask
<1>3. /\ Fit(<<Do("DRIVER_INIT")>>) /\ Has(<<Do("DRIVER_INIT")>>, Answered) /\ Fit(<<>>)
  BY <1>1, Fits
<1>4. QueueFollowed /\ Roled(queue)
  BY DEF QueueFollowed, Roled
<1>. QED  BY <1>2, <1>3, <1>4 DEF Ordered, Held, Coming, Tasks, Fit

----------------------------------------------------------------------------
LEMMA ThreadStep ==
  ASSUME TypeOK, Thread, [Next]_vars
  PROVE  Thread'
<1>. SUFFICES ASSUME alive', ~dropped', ~missed' PROVE Ordered' /\ Held'
  BY DEF Thread, NoLoss
<1>1. CASE PowerCycle
  <2>1. queue' = <<>> /\ out' = FirstPost
    BY <1>1 DEF PowerCycle
  <2>2. (queue = <<>> /\ out = FirstPost => Ordered /\ Held)'
    BY BootThread, PTL
  <2>. QED  BY <2>1, <2>2 DEF FirstPost, Do
<1>2. CASE Handle
  <2>1. NoLoss
    BY <1>2 DEF NoLoss, Handle, DriverInit, DriverDeinit, StaStart, StaStop, ApStart, ApStop,
       CreateUdp, DiscoverPc, StartTcpServer, AcceptPcConn, GetRouterCreds, SendCommand, Takes,
       history
  <2>. QED  BY <1>2, <2>1, DriverThread, SocketThread, AcceptThread, CommandThread
            DEF Thread, Handle
<1>3. CASE HandleEvent
  <2>1. NoLoss
    BY <1>3 DEF NoLoss, HandleEvent, GotIpEvent, NoApFound, OtherReason
  <2>. QED  BY <1>3, <2>1, EventThread DEF Thread
<1>4. CASE SendCmd \/ \E t \in Tasks : Post(t)
  <2>1. NoLoss
    BY <1>4 DEF NoLoss, SendCmd, Post, history
  <2>. QED  BY <1>4, <2>1, QueueThread DEF Thread
<1>5. CASE Network
  <2>1. UNCHANGED <<rtos, history>>
    BY <1>5 DEF Network, Associate, GotIp, IpChanged, ConnectFail, LinkLost, Raise
  <2>2. NoLoss
    BY <2>1 DEF NoLoss, rtos, history
  <2>. QED  BY <1>5, <2>2, NetworkThread DEF Thread
<1>6. CASE UNCHANGED vars
  BY <1>6, SameMessages DEF vars, rtos, flags, fds, driver, history, Thread, NoLoss, Held,
     Promised, Serving, HasPeer, Waiting
<1>. QED  BY <1>1, <1>2, <1>3, <1>4, <1>5, <1>6 DEF Next, Tasks

(* wifi_mgr.c's dispatcher never runs out of messages with nothing to wait   *)
(* for: whenever its queue, its posts and the driver's events are all used   *)
(* up, a network is being joined or a PC is being served, unless a post was  *)
(* lost to a full queue or a disconnect taken for its own.                   *)
THEOREM ThreadAlwaysHeld == Spec => []NeverStranded
<1>1. Init => Thread
  BY BootThread DEF Init, Thread
<1>2. TypeOK /\ Thread /\ [Next]_vars => Thread'
  BY ThreadStep
<1>3. TypeOK /\ Thread => NeverStranded
  <2>. SUFFICES ASSUME TypeOK, Thread, alive, Quiet, ~dropped, ~missed PROVE Waiting \/ Serving
    BY DEF NeverStranded
  <2>1. Held
    BY DEF Thread, NoLoss
  <2>2. queue = <<>> /\ events = <<>> /\ \A t \in DOMAIN out : out[t] = <<>>
    BY DEF Quiet
  <2>3. \A t \in Tasks : out[t] = <<>>
    BY <2>2 DEF TypeOK, RtosOK, Tasks
  <2>4. \A ids : ~Coming(ids)
    BY <2>2, <2>3, InEmpty DEF Coming
  <2>5. ~Promised
    BY <2>2 DEF Promised
  <2>. QED  BY <2>1, <2>4, <2>5 DEF Held
<1>. QED  BY <1>1, <1>2, <1>3, TypeCorrect, PTL DEF Spec

====
