---- MODULE OrientLinkProofs ----
(***************************************************************************)
(* Proofs about OrientLink for any queue length, number of resends, poses  *)
(* and bounds: its types, and that a manager at rest on its connection has *)
(* had the last orientation it was given taken by a PC.                    *)
(***************************************************************************)
EXTENDS OrientLink, TLAPS

----------------------------------------------------------------------------
(* Types *)

(* A rotation turns the screen to a real orientation, and the command in     *)
(* hand while an answer is awaited is a real one.                            *)
Turning == ppc = "rotating" => desired_orient \in Orient
Sending == mgr = "await" => cmd \in Cmd
Typed   == TypeOK /\ Turning /\ Sending

(* A post keeps the queue's type and length, whether it finds room or not.   *)
LEMMA PostType ==
  ASSUME NEW q \in Seq(Msg), Len(q) <= QueueLen, NEW m \in Msg, Post(q, m)
  PROVE  queue' \in Seq(Msg) /\ Len(queue') <= QueueLen
BY ConstantsAssumption DEF Post, Room

(* So does taking a message, which is an orientation or "connect".           *)
LEMMA TakeType ==
  ASSUME NEW q \in Seq(Msg), Len(q) <= QueueLen, q # <<>>
  PROVE  Tail(q) \in Seq(Msg) /\ Len(Tail(q)) <= QueueLen /\ Head(q) \in Msg
BY ConstantsAssumption

(* The stamp of no command, and the empty streams.                           *)
LEMMA NothingSent ==
  NoCmd.seq \in Stamp /\ <<>> \in Seq(Cmd) /\ <<>> \in Seq(Stamp) /\ <<>> \in Seq(Msg)
BY ConstantsAssumption DEF NoCmd, Stamp

(* A start of the board leaves one message in its queue.                     *)
LEMMA FirstQueue == <<"connect">> \in Seq(Msg) /\ Len(<<"connect">>) <= QueueLen
BY ConstantsAssumption DEF Msg

(* The sensor keeps the types.                                               *)
LEMMA SettleType ==
  ASSUME Typed, Settle
  PROVE  Typed'
<1>1. Derived # reported => Derived \in Orient
  BY DEF Derived, Typed, TypeOK, SensorOK
<1>2. \A o \in Orient : o \in Msg
  BY DEF Msg
<1>3. queue' \in Seq(Msg) /\ Len(queue') <= QueueLen
  BY <1>1, <1>2, PostType DEF Settle, PostOrient, Typed, TypeOK, ManagerOK
<1>4. posted' \in Orient \cup {"invalid"}
  BY <1>1 DEF Settle, PostOrient, Typed, TypeOK, ManagerOK
<1>5. ManagerOK'
  BY <1>3, <1>4 DEF Settle, Typed, TypeOK, ManagerOK
<1>6. SensorOK'
  BY <1>1 DEF Settle, Typed, TypeOK, SensorOK
<1>. QED
  BY <1>5, <1>6 DEF Settle, Typed, Turning, Sending, TypeOK, TcpOK, PcOK, tcp, pc, bounds

(* The dispatcher's steps that leave the connection alone keep the types.    *)
LEMMA QueueType ==
  ASSUME Typed, NotReady \/ TakeConnect \/ AcceptAgain \/ PostImmediate \/ SensorFault
  PROVE  Typed'
<1>1. queue # <<>> => Tail(queue) \in Seq(Msg) /\ Len(Tail(queue)) <= QueueLen
  BY TakeType DEF Typed, TypeOK, ManagerOK
<1>2. Derived # "invalid" => Derived \in Orient
  BY DEF Derived, Typed, TypeOK, SensorOK
<1>3. ASSUME NEW m \in Msg, Post(queue, m)
      PROVE  queue' \in Seq(Msg) /\ Len(queue') <= QueueLen
  BY <1>3, PostType DEF Typed, TypeOK, ManagerOK
<1>4. "connect" \in Msg /\ \A o \in Orient : o \in Msg
  BY DEF Msg
<1>5. queue' \in Seq(Msg) /\ Len(queue') <= QueueLen
  <2>1. CASE NotReady \/ TakeConnect
    BY <1>1, <2>1 DEF NotReady, TakeConnect
  <2>2. CASE AcceptAgain
    BY <1>3, <1>4, <2>2 DEF AcceptAgain
  <2>3. CASE PostImmediate
    BY <1>2, <1>3, <1>4, <2>3 DEF PostImmediate, PostOrient
  <2>4. CASE SensorFault
    BY <2>4, NothingSent, ConstantsAssumption DEF SensorFault
  <2>. QED  BY <2>1, <2>2, <2>3, <2>4
<1>6. ManagerOK'
  BY <1>2, <1>5 DEF NotReady, TakeConnect, AcceptAgain, PostImmediate, PostOrient, SensorFault,
     Typed, TypeOK, ManagerOK
<1>7. SensorOK' /\ PcOK' /\ Turning'
  BY DEF NotReady, TakeConnect, AcceptAgain, PostImmediate, SensorFault, Typed, Turning, TypeOK,
     SensorOK, PcOK, sensor, pc
<1>8. TcpOK' /\ moves' \in Nat /\ incidents' \in Nat
  BY DEF NotReady, TakeConnect, AcceptAgain, PostImmediate, SensorFault, Typed, TypeOK, TcpOK,
     tcp, bounds
<1>9. Sending'
  BY DEF NotReady, TakeConnect, AcceptAgain, PostImmediate, SensorFault, Sending
<1>. QED  BY <1>6, <1>7, <1>8, <1>9 DEF Typed, TypeOK

(* Those that send, wait and connect do too.                                 *)
LEMMA SendType ==
  ASSUME Typed, SendCommand \/ RecvAck \/ TimeOut \/ LosePeer \/ GotConn
  PROVE  Typed'
<1>1. queue # <<>> => /\ Tail(queue) \in Seq(Msg) /\ Len(Tail(queue)) <= QueueLen
                      /\ Head(queue) \in Msg
  BY TakeType DEF Typed, TypeOK, ManagerOK
<1>2. ASSUME NEW q \in {queue, Tail(queue)}, queue = q \/ queue # <<>>, PeerGone(q)
      PROVE  queue' \in Seq(Msg) /\ Len(queue') <= QueueLen
  BY <1>1, <1>2, PostType DEF PeerGone, Msg, Typed, TypeOK, ManagerOK
<1>3. queue' \in Seq(Msg) /\ Len(queue') <= QueueLen
  BY <1>1, <1>2 DEF SendCommand, RecvAck, TimeOut, LosePeer, GotConn, Typed, TypeOK, ManagerOK
<1>4. cmd' \in Cmd \cup {NoCmd} /\ (SendCommand /\ mgr' = "await" => cmd' \in Cmd)
  BY <1>1 DEF SendCommand, RecvAck, TimeOut, LosePeer, GotConn, PeerGone, Typed, TypeOK,
     ManagerOK, Cmd, Stamp, Msg
<1>5. send_counter' \in 0 .. SendMax
  BY ConstantsAssumption DEF SendCommand, RecvAck, TimeOut, LosePeer, GotConn, Typed, TypeOK,
     ManagerOK
<1>6. ManagerOK'
  BY <1>3, <1>4, <1>5 DEF SendCommand, RecvAck, TimeOut, LosePeer, GotConn, PeerGone, Typed,
     TypeOK, ManagerOK
<1>7. SensorOK' /\ PcOK' /\ Turning'
  BY DEF SendCommand, RecvAck, TimeOut, LosePeer, GotConn, Typed, Turning, TypeOK,
     SensorOK, PcOK, sensor, pc
<1>8. \A k \in 1 .. Len(up) : SubSeq(up, k + 1, Len(up)) \in Seq(Stamp)
  BY DEF Typed, TypeOK, TcpOK
<1>9. up' \in Seq(Stamp)
  BY <1>8, NothingSent DEF SendCommand, RecvAck, TimeOut, LosePeer, GotConn, Typed, TypeOK,
     TcpOK, tcp
<1>10. down' \in Seq(Cmd)
  <2>1. \A c \in Cmd : Append(down, c) \in Seq(Cmd)
    BY DEF Typed, TypeOK, TcpOK
  <2>2. CASE SendCommand
    BY <1>4, <2>1, <2>2 DEF SendCommand, Typed, TypeOK, TcpOK
  <2>3. CASE TimeOut
    BY <2>1, <2>3 DEF TimeOut, Typed, Sending, TypeOK, TcpOK
  <2>4. CASE RecvAck \/ LosePeer \/ GotConn
    BY <2>4, NothingSent DEF RecvAck, LosePeer, GotConn, Typed, TypeOK, TcpOK
  <2>. QED  BY <2>2, <2>3, <2>4
<1>11. TcpOK' /\ moves' \in Nat /\ incidents' \in Nat
  BY <1>9, <1>10 DEF SendCommand, RecvAck, TimeOut, LosePeer, GotConn, PeerGone, Typed, TypeOK,
     TcpOK, tcp, bounds
<1>12. Sending'
  BY <1>4 DEF SendCommand, RecvAck, TimeOut, LosePeer, GotConn, PeerGone, Typed, Sending
<1>. QED  BY <1>6, <1>7, <1>11, <1>12 DEF Typed, TypeOK

(* So do the PC's steps.                                                     *)
LEMMA PcType ==
  ASSUME Typed, Daemon
  PROVE  Typed'
<1>1. down # <<>> => Tail(down) \in Seq(Cmd) /\ Head(down) \in Cmd
  BY DEF Typed, TypeOK, TcpOK
<1>2. \A st \in Stamp : Append(up, st) \in Seq(Stamp)
  BY DEF Typed, TypeOK, TcpOK
<1>3. down' \in Seq(Cmd)
  BY <1>1, NothingSent DEF Daemon, Heal, Recv, Rotate, Ack, Typed, TypeOK, TcpOK, tcp
<1>4. up' \in Seq(Stamp)
  BY <1>2 DEF Daemon, Heal, Recv, Rotate, Ack, Typed, TypeOK, TcpOK, PcOK, tcp
<1>5. TcpOK'
  BY <1>3, <1>4 DEF Daemon, Heal, Recv, Rotate, Ack, Typed, TypeOK, TcpOK, tcp
<1>6. PcOK' /\ Turning'
  <2>1. CASE Recv
    BY <1>1, <2>1 DEF Recv, Cmd, Typed, Turning, TypeOK, PcOK
  <2>2. CASE Heal
    BY <2>2 DEF Heal, Typed, Turning, TypeOK, PcOK
  <2>3. CASE Rotate \/ Ack
    BY <2>3 DEF Rotate, Ack, Typed, Turning, TypeOK, PcOK
  <2>. QED  BY <2>1, <2>2, <2>3 DEF Daemon
<1>7. SensorOK' /\ ManagerOK' /\ Sending'
  BY DEF Daemon, Heal, Recv, Rotate, Ack, Typed, Sending, TypeOK, SensorOK, ManagerOK, sensor,
     manager
<1>. QED
  BY <1>5, <1>6, <1>7 DEF Daemon, Heal, Recv, Rotate, Ack, Typed, TypeOK, bounds

(* And so does what happens to the board, the session and X.                 *)
LEMMA WorldType ==
  ASSUME Typed, World
  PROVE  Typed'
<1>1. SensorOK'
  BY DEF World, Move, XChanges, Reboot, SessionBreaks, Typed, TypeOK, SensorOK, sensor
<1>2. ManagerOK' /\ Sending'
  <2>1. CASE Reboot
    <3>1. boot_epoch' \in Nat /\ send_counter' \in 0 .. SendMax
      BY <2>1, ConstantsAssumption DEF Reboot, Typed, TypeOK, ManagerOK
    <3>. QED  BY <2>1, <3>1, FirstQueue DEF Reboot, Sending, ManagerOK
  <2>2. CASE Move \/ XChanges \/ SessionBreaks
    BY <2>2 DEF Move, XChanges, SessionBreaks, Typed, Sending, TypeOK, ManagerOK, manager
  <2>. QED  BY <2>1, <2>2 DEF World
<1>3. TcpOK'
  BY NothingSent DEF World, Move, XChanges, Reboot, SessionBreaks, Typed, TypeOK, TcpOK, tcp
<1>4. PcOK' /\ Turning'
  BY DEF World, Move, XChanges, Reboot, SessionBreaks, Typed, Turning, TypeOK, PcOK, pc
<1>5. moves' \in Nat /\ incidents' \in Nat
  <2>1. moves \in Nat /\ incidents \in Nat
    BY DEF Typed, TypeOK
  <2>2. CASE Move
    BY <2>1, <2>2 DEF Move
  <2>3. CASE XChanges \/ Reboot \/ SessionBreaks
    <3>1. Incident /\ moves' = moves
      BY <2>3 DEF XChanges, Reboot, SessionBreaks
    <3>. QED  BY <2>1, <3>1 DEF Incident
  <2>. QED  BY <2>2, <2>3 DEF World
<1>. QED  BY <1>1, <1>2, <1>3, <1>4, <1>5 DEF Typed, TypeOK

(* The types hold at the start.                                              *)
LEMMA LinkInitType ==
  ASSUME Init
  PROVE  Typed
<1>1. SensorOK /\ Turning /\ Sending
  BY DEF Init, SensorOK, Turning, Sending
<1>2. ManagerOK
  BY FirstQueue, ConstantsAssumption DEF Init, ManagerOK
<1>3. TcpOK /\ PcOK
  BY NothingSent DEF Init, TcpOK, PcOK
<1>. QED  BY <1>1, <1>2, <1>3 DEF Init, Typed, TypeOK

(* Every step keeps them.                                                    *)
LEMMA LinkStepType ==
  ASSUME Typed, [Next]_vars
  PROVE  Typed'
<1>1. CASE UNCHANGED vars
  BY <1>1 DEF vars, sensor, manager, tcp, pc, bounds, Typed, Turning, Sending, TypeOK,
     SensorOK, ManagerOK, TcpOK, PcOK
<1>2. CASE Next
  BY <1>2, SettleType, QueueType, SendType, PcType, WorldType DEF Next, Dispatcher
<1>. QED  BY <1>1, <1>2

(* Whatever the constants, every variable keeps its type, the queue its      *)
(* length and the resends their limit.                                       *)
THEOREM LinkTypeCorrect == Spec => []TypeOK
<1>1. Init => Typed
  BY LinkInitType
<1>2. Typed /\ [Next]_vars => Typed'
  BY LinkStepType
<1>3. Typed => TypeOK
  BY DEF Typed
<1>. QED  BY <1>1, <1>2, <1>3, PTL DEF Spec

----------------------------------------------------------------------------
(* Delivery *)

(* Where the dispatcher is tells whether it has a connection; "connect" is   *)
(* in the queue once, and not while there is a connection or one is being    *)
(* waited for.                                                               *)
OnlyOrients(q) == \A k \in DOMAIN q : q[k] \in Orient
OneConnect(q) == \A j, k \in DOMAIN q : q[j] = "connect" /\ q[k] = "connect" => j = k
Phases ==
  /\ mgr \in {"got_conn", "await"} => pc_sock_fd
  /\ mgr \in {"accept", "stopped"} => ~pc_sock_fd
  /\ pc_sock_fd \/ mgr = "accept" => OnlyOrients(queue)
  /\ OneConnect(queue)

(* The last orientation in a queue is o.                                     *)
LastIs(q, o) ==
  \A k \in DOMAIN q :
    q[k] \in Orient /\ (\A j \in DOMAIN q : j > k => q[j] \notin Orient) => q[k] = o

(* In the stream to the PC nothing follows a copy of the command in hand but *)
(* other copies of it; and once one is answered, or taken, its orientation   *)
(* is the last the PC took and only copies are left.                         *)
Taken == rx = cmd.seq \/ \E k \in DOMAIN up : up[k] = cmd.seq
Copies == \A k \in DOMAIN down : down[k] = cmd
InHand ==
  /\ queue = <<>> => cmd.orient = posted
  /\ \A i \in DOMAIN down : down[i].seq = cmd.seq =>
       \A j \in DOMAIN down : j >= i => down[j] = cmd
  /\ Taken => delivered = cmd.orient /\ Copies

(* At rest, what the PC may still take is the same orientation again.        *)
Rested == delivered = posted /\ \A k \in DOMAIN down : down[k].orient = posted

Delivery ==
  /\ Phases
  /\ LastIs(queue, posted)
  /\ mgr = "await" => InHand
  /\ AtRest => Rested

(* "connect" is no orientation.                                              *)
LEMMA NoPose == "connect" \notin Orient
BY ConstantsAssumption

(* Taking a message leaves the last orientation the last, if one is left,    *)
(* and takes the only "connect" there was if it takes one.                   *)
LEMMA Taking ==
  ASSUME NEW q \in Seq(Msg), q # <<>>, NEW o
  PROVE  /\ LastIs(q, o) => LastIs(Tail(q), o)
         /\ LastIs(q, o) /\ Head(q) \in Orient /\ Tail(q) = <<>> => Head(q) = o
         /\ OneConnect(q) => OneConnect(Tail(q))
         /\ OneConnect(q) /\ Head(q) = "connect" => OnlyOrients(Tail(q))
         /\ OnlyOrients(q) => OnlyOrients(Tail(q)) /\ Head(q) \in Orient
<1>1. /\ Len(q) \in Nat \ {0} /\ DOMAIN q = 1 .. Len(q)
      /\ Tail(q) \in Seq(Msg) /\ Len(Tail(q)) = Len(q) - 1
      /\ DOMAIN Tail(q) = 1 .. Len(q) - 1
      /\ \A k \in 1 .. Len(q) - 1 : Tail(q)[k] = q[k + 1]
      /\ Head(q) = q[1] /\ \A k \in 1 .. Len(q) : q[k] \in Msg
  OBVIOUS
<1>2. ASSUME LastIs(q, o) PROVE LastIs(Tail(q), o)
  <2>. SUFFICES ASSUME NEW k \in DOMAIN Tail(q), Tail(q)[k] \in Orient,
                       \A j \in DOMAIN Tail(q) : j > k => Tail(q)[j] \notin Orient
                PROVE  Tail(q)[k] = o
    BY DEF LastIs
  <2>1. k + 1 \in DOMAIN q /\ q[k + 1] \in Orient
    BY <1>1
  <2>2. ASSUME NEW j \in DOMAIN q, j > k + 1 PROVE q[j] \notin Orient
    <3>1. j - 1 \in DOMAIN Tail(q) /\ j - 1 > k /\ Tail(q)[j - 1] = q[j]
      BY <1>1, <2>2
    <3>. QED  BY <3>1
  <2>3. q[k + 1] = o
    BY <1>2, <2>1, <2>2 DEF LastIs
  <2>. QED  BY <1>1, <2>3
<1>3. LastIs(q, o) /\ Head(q) \in Orient /\ Tail(q) = <<>> => Head(q) = o
  <2>. SUFFICES ASSUME LastIs(q, o), Head(q) \in Orient, Tail(q) = <<>> PROVE Head(q) = o
    OBVIOUS
  <2>1. Len(Tail(q)) = 0
    <3>1. Len(<<>>) = 0
      OBVIOUS
    <3>. QED  BY <3>1, Zenon
  <2>2. Len(q) = 1
    <3>1. \A m \in Nat : m - 1 = 0 => m = 1
      OBVIOUS
    <3>2. Len(q) \in Nat /\ Len(q) - 1 = 0
      BY <1>1, <2>1
    <3>. QED  BY <3>1, <3>2, Zenon
  <2>3. DOMAIN q = 1 .. 1 /\ Head(q) = q[1]
    BY <1>1, <2>2, Zenon
  <2>4. q[1] \in Orient /\ (\A j \in 1 .. 1 : j > 1 => q[j] \notin Orient) => q[1] = o
    BY <2>3 DEF LastIs
  <2>. QED  BY <2>3, <2>4
<1>4. OneConnect(q) => OneConnect(Tail(q))
  <2>. SUFFICES ASSUME OneConnect(q), NEW j \in DOMAIN Tail(q), NEW k \in DOMAIN Tail(q),
                       Tail(q)[j] = "connect", Tail(q)[k] = "connect"
                PROVE  j = k
    BY DEF OneConnect
  <2>1. /\ j + 1 \in DOMAIN q /\ k + 1 \in DOMAIN q
        /\ q[j + 1] = "connect" /\ q[k + 1] = "connect"
    BY <1>1
  <2>2. j + 1 = k + 1
    BY <2>1 DEF OneConnect
  <2>. QED  BY <1>1, <2>2
<1>5. OneConnect(q) /\ Head(q) = "connect" => OnlyOrients(Tail(q))
  <2>. SUFFICES ASSUME OneConnect(q), Head(q) = "connect", NEW k \in DOMAIN Tail(q)
                PROVE  Tail(q)[k] \in Orient
    BY DEF OnlyOrients
  <2>1. k + 1 \in DOMAIN q /\ k + 1 # 1 /\ 1 \in DOMAIN q /\ q[1] = "connect"
    BY <1>1
  <2>2. q[k + 1] # "connect"
    BY <2>1 DEF OneConnect
  <2>. QED  BY <1>1, <2>1, <2>2 DEF Msg
<1>6. OnlyOrients(q) => OnlyOrients(Tail(q)) /\ Head(q) \in Orient
  BY <1>1 DEF OnlyOrients
<1>. QED  BY <1>2, <1>3, <1>4, <1>5, <1>6

(* A post puts an orientation last, or "connect" where there is none; on a   *)
(* full queue it changes nothing, and the queue is not empty.                *)
LEMMA Posting ==
  ASSUME NEW q \in Seq(Msg), NEW m \in Msg, Post(q, m), NEW o
  PROVE  /\ OneConnect(q) /\ m \in Orient => OneConnect(queue')
         /\ OnlyOrients(q) => OneConnect(queue')
         /\ OnlyOrients(q) /\ m \in Orient => OnlyOrients(queue')
         /\ LastIs(q, o) /\ m \notin Orient => LastIs(queue', o)
         /\ queue' # <<>>
<1>1. CASE ~Room(q)
  <2>1. queue' = q /\ q # <<>>
    BY <1>1, ConstantsAssumption DEF Post, Room
  <2>2. OnlyOrients(q) => OneConnect(q)
    BY NoPose DEF OnlyOrients, OneConnect
  <2>. QED  BY <2>1, <2>2
<1>2. CASE Room(q)
  <2>1. /\ Len(q) \in Nat /\ DOMAIN q = 1 .. Len(q)
        /\ queue' = Append(q, m) /\ DOMAIN queue' = 1 .. Len(q) + 1
        /\ \A k \in DOMAIN q : queue'[k] = q[k]
        /\ queue'[Len(q) + 1] = m /\ queue' # <<>>
    BY <1>2 DEF Post
  <2>2. OneConnect(q) /\ m \in Orient => OneConnect(queue')
    BY <2>1, NoPose DEF OneConnect
  <2>3. OnlyOrients(q) => OneConnect(queue')
    BY <2>1, NoPose DEF OneConnect, OnlyOrients
  <2>4. OnlyOrients(q) /\ m \in Orient => OnlyOrients(queue')
    BY <2>1 DEF OnlyOrients
  <2>5. LastIs(q, o) /\ m \notin Orient => LastIs(queue', o)
    <3>. SUFFICES ASSUME LastIs(q, o), m \notin Orient, NEW k \in DOMAIN queue',
                         queue'[k] \in Orient,
                         \A j \in DOMAIN queue' : j > k => queue'[j] \notin Orient
                  PROVE  queue'[k] = o
      BY DEF LastIs
    <3>1. k \in DOMAIN q /\ queue'[k] = q[k]
      BY <2>1
    <3>2. \A j \in DOMAIN q : j > k => q[j] \notin Orient
      BY <2>1
    <3>. QED  BY <3>1, <3>2 DEF LastIs
  <2>. QED  BY <2>1, <2>2, <2>3, <2>4, <2>5
<1>. QED  BY <1>1, <1>2

(* An orientation that is queued is the last one, and posted says so.        *)
LEMMA PostingOrient ==
  ASSUME NEW q \in Seq(Msg), NEW p \in Orient, LastIs(q, posted), PostOrient(q, p)
  PROVE  LastIs(queue', posted')
<1>1. CASE ~Room(q)
  BY <1>1 DEF PostOrient, Post
<1>2. CASE Room(q)
  <2>1. /\ Len(q) \in Nat /\ DOMAIN queue' = 1 .. Len(q) + 1
        /\ queue'[Len(q) + 1] = p /\ posted' = p
    BY <1>2 DEF PostOrient, Post, Msg
  <2>. QED  BY <2>1 DEF LastIs
<1>. QED  BY <1>1, <1>2

(* What does not touch queue, connection, command or streams keeps it.       *)
LEMMA Undisturbed ==
  ASSUME Delivery, UNCHANGED <<queue, mgr, cmd, posted, pc_sock_fd, down, up, rx, delivered>>
  PROVE  Delivery'
BY DEF Delivery, Phases, OnlyOrients, OneConnect, LastIs, InHand, Taken, Copies, AtRest, Rested

(* Nor does it matter what a stream holds when there is no connection.       *)
LEMMA Disconnected ==
  ASSUME ~pc_sock_fd', mgr' \in {"idle", "accept", "stopped"}, OneConnect(queue'),
         mgr' = "accept" => OnlyOrients(queue'), LastIs(queue', posted')
  PROVE  Delivery'
BY DEF Delivery, Phases, AtRest

(* The sensor's orientation is the last one, and not delivered yet.          *)
LEMMA SettleDelivery ==
  ASSUME Typed, Delivery, Settle
  PROVE  Delivery'
<1>. USE DEF Settle
<1>1. queue \in Seq(Msg) /\ LastIs(queue, posted) /\ OneConnect(queue)
  BY DEF Typed, TypeOK, ManagerOK, Delivery, Phases
<1>2. UNCHANGED <<mgr, cmd, pc_sock_fd, down, up, rx, delivered>>
  BY DEF tcp, pc
<1>3. CASE UNCHANGED <<queue, posted>>
  BY <1>2, <1>3, Undisturbed
<1>4. CASE Derived # reported /\ PostOrient(queue, Derived)
  <2>1. Derived \in Orient /\ Derived \in Msg
    BY <1>4 DEF Derived, Typed, TypeOK, SensorOK, Msg
  <2>2. Post(queue, Derived)
    BY <1>4 DEF PostOrient
  <2>3. /\ OneConnect(queue') /\ queue' # <<>>
        /\ OnlyOrients(queue) => OnlyOrients(queue')
    BY <1>1, <2>1, <2>2, Posting
  <2>4. LastIs(queue', posted')
    BY <1>1, <1>4, <2>1, PostingOrient
  <2>5. Phases'
    BY <1>2, <2>3 DEF Delivery, Phases
  <2>6. mgr' = "await" => InHand'
    BY <1>2, <2>3 DEF Delivery, InHand, Taken, Copies
  <2>. QED  BY <2>3, <2>4, <2>5, <2>6 DEF Delivery, AtRest
<1>. QED  BY <1>3, <1>4

(* The dispatcher without a connection.                                      *)
LEMMA UnconnectedDelivery ==
  ASSUME Typed, Delivery, NotReady \/ TakeConnect \/ AcceptAgain \/ SensorFault
  PROVE  Delivery'
<1>1. /\ queue \in Seq(Msg) /\ LastIs(queue, posted) /\ OneConnect(queue)
      /\ "connect" \in Msg /\ "connect" \notin Orient
  BY NoPose DEF Typed, TypeOK, ManagerOK, Delivery, Phases, Msg
<1>2. CASE NotReady
  BY <1>1, <1>2, Taking, Disconnected DEF NotReady, tcp
<1>3. CASE TakeConnect
  <2>1. ~pc_sock_fd
    <3>1. 1 \in DOMAIN queue /\ queue[1] = "connect"
      BY <1>1, <1>3 DEF TakeConnect
    <3>. QED  BY <1>1, <3>1 DEF Delivery, Phases, OnlyOrients
  <2>. QED  BY <1>1, <1>3, <2>1, Taking, Disconnected DEF TakeConnect, tcp
<1>4. CASE AcceptAgain
  <2>1. ~pc_sock_fd /\ OnlyOrients(queue)
    BY <1>4 DEF AcceptAgain, Delivery, Phases
  <2>2. OneConnect(queue') /\ LastIs(queue', posted)
    BY <1>1, <1>4, <2>1, Posting DEF AcceptAgain
  <2>. QED  BY <1>4, <2>1, <2>2, Disconnected DEF AcceptAgain, tcp
<1>5. CASE SensorFault
  BY <1>5, Disconnected DEF SensorFault, OneConnect, LastIs
<1>. QED  BY <1>2, <1>3, <1>4, <1>5

(* The connection is given up: "connect" joins a queue that had none.        *)
LEMMA GivenUp ==
  ASSUME Typed, Delivery, pc_sock_fd, NEW q \in Seq(Msg), OnlyOrients(q), LastIs(q, posted),
         PeerGone(q), posted' = posted
  PROVE  Delivery'
<1>1. "connect" \in Msg /\ "connect" \notin Orient
  BY NoPose DEF Msg
<1>2. OneConnect(queue') /\ LastIs(queue', posted)
  BY <1>1, Posting DEF PeerGone
<1>. QED  BY <1>2, Disconnected DEF PeerGone

(* A new connection, and the orientation that is read then.                  *)
LEMMA ConnectDelivery ==
  ASSUME Typed, Delivery, GotConn \/ PostImmediate
  PROVE  Delivery'
<1>1. queue \in Seq(Msg) /\ LastIs(queue, posted) /\ OneConnect(queue)
  BY DEF Typed, TypeOK, ManagerOK, Delivery, Phases
<1>2. CASE GotConn
  BY <1>1, <1>2 DEF GotConn, Delivery, Phases, AtRest
<1>3. CASE PostImmediate
  <2>1. Derived \in Orient /\ Derived \in Msg
    BY <1>3 DEF PostImmediate, Derived, Typed, TypeOK, SensorOK, Msg
  <2>2. pc_sock_fd /\ pc_sock_fd' = pc_sock_fd /\ mgr' = "idle" /\ OnlyOrients(queue)
    BY <1>3 DEF PostImmediate, tcp, Delivery, Phases
  <2>3. Post(queue, Derived)
    BY <1>3 DEF PostImmediate, PostOrient
  <2>4. OneConnect(queue') /\ OnlyOrients(queue') /\ queue' # <<>>
    BY <1>1, <2>1, <2>2, <2>3, Posting
  <2>5. LastIs(queue', posted')
    BY <1>1, <1>3, <2>1, PostingOrient DEF PostImmediate
  <2>. QED  BY <2>2, <2>4, <2>5 DEF Delivery, Phases, AtRest
<1>. QED  BY <1>2, <1>3

(* A new command's stamp is on nothing that is on its way: the stream holds  *)
(* no copy of it yet but the one just sent, and no answer to it.             *)
LEMMA SendDelivery ==
  ASSUME Typed, Delivery, SendCommand
  PROVE  Delivery'
<1>. USE DEF SendCommand
<1>1. /\ queue \in Seq(Msg) /\ queue # <<>> /\ pc_sock_fd
      /\ LastIs(queue, posted) /\ OneConnect(queue) /\ OnlyOrients(queue)
      /\ posted' = posted
  BY DEF Typed, TypeOK, ManagerOK, Delivery, Phases
<1>2. /\ Tail(queue) \in Seq(Msg) /\ LastIs(Tail(queue), posted)
      /\ OneConnect(Tail(queue)) /\ OnlyOrients(Tail(queue)) /\ Head(queue) \in Orient
      /\ Tail(queue) = <<>> => Head(queue) = posted
  BY <1>1, Taking
<1>3. CASE PeerGone(Tail(queue))
  BY <1>1, <1>2, <1>3, GivenUp
<1>4. CASE /\ mgr' = "await" /\ queue' = Tail(queue) /\ UNCHANGED pc_sock_fd
           /\ \E n \in 0 .. MaxStamps :
                /\ Now(n)
                /\ cmd' = [seq |-> [seq_us |-> n, boot_epoch |-> boot_epoch],
                           orient |-> Head(queue)]
           /\ down' = IF tcp_sock_fd THEN Append(down, cmd') ELSE down
  <2>1. cmd'.seq \notin InUse /\ cmd'.orient = Head(queue)
    BY <1>4 DEF Now, Fresh
  <2>2. /\ cmd'.seq # rx /\ \A k \in DOMAIN up : up[k] # cmd'.seq
        /\ \A k \in DOMAIN down : down[k].seq # cmd'.seq
    BY <2>1 DEF InUse
  <2>3. rx' = rx /\ up' = up
    BY DEF pc
  <2>4. ~Taken'
    BY <2>2, <2>3 DEF Taken
  <2>5. down \in Seq(Cmd) /\ \A j \in DOMAIN down : down[j].seq # cmd'.seq
    BY <2>2 DEF Typed, TypeOK, TcpOK
  <2>6. \A a \in DOMAIN down' : down'[a].seq = cmd'.seq =>
          \A j \in DOMAIN down' : j >= a => down'[j] = cmd'
    <3>1. CASE ~tcp_sock_fd
      BY <1>4, <2>5, <3>1
    <3>2. CASE tcp_sock_fd
      <4>1. /\ Len(down) \in Nat /\ DOMAIN down' = 1 .. Len(down) + 1
            /\ \A k \in 1 .. Len(down) : down'[k] = down[k] /\ k \in DOMAIN down
            /\ down'[Len(down) + 1] = cmd'
        BY <1>4, <2>5, <3>2
      <4>. QED  BY <2>5, <4>1
    <3>. QED  BY <3>1, <3>2
  <2>7. InHand'
    BY <1>2, <1>4, <2>1, <2>4, <2>6 DEF InHand
  <2>8. Phases'
    BY <1>1, <1>2, <1>4 DEF Phases
  <2>. QED  BY <1>1, <1>2, <1>4, <2>7, <2>8 DEF Delivery, AtRest
<1>. QED  BY <1>3, <1>4

(* An answer to the command in hand means that its orientation was taken and *)
(* that only copies of it are left; a resend adds one more copy.             *)
LEMMA AwaitDelivery ==
  ASSUME Typed, Delivery, RecvAck \/ TimeOut \/ LosePeer
  PROVE  Delivery'
<1>1. /\ mgr = "await" /\ pc_sock_fd /\ InHand /\ posted' = posted
      /\ queue \in Seq(Msg) /\ LastIs(queue, posted) /\ OnlyOrients(queue) /\ OneConnect(queue)
      /\ up \in Seq(Stamp) /\ down \in Seq(Cmd)
  BY DEF RecvAck, TimeOut, LosePeer, Delivery, Phases, Typed, TypeOK, ManagerOK, TcpOK
<1>2. CASE PeerGone(queue)
  BY <1>1, <1>2, GivenUp
<1>3. CASE RecvAck
  <2>. USE <1>3 DEF RecvAck
  <2>1. UNCHANGED <<queue, cmd, posted, pc_sock_fd, down, rx, delivered>>
    BY DEF pc
  <2>2. Head(up) = up[1] /\ 1 \in DOMAIN up
    BY <1>1
  <2>3. PICK k \in 1 .. Len(up) : up' = SubSeq(up, k + 1, Len(up))
    OBVIOUS
  <2>4. \A j \in DOMAIN up' : j + k \in DOMAIN up /\ up'[j] = up[j + k]
    BY <1>1, <2>3
  <2>5. Taken' => Taken
    BY <2>1, <2>4 DEF Taken
  <2>6. Phases' /\ LastIs(queue', posted')
    BY <1>1, <2>1 DEF Phases
  <2>7. CASE Answers(Head(up))
    <3>1. Taken
      BY <2>2, <2>7 DEF Taken, Answers
    <3>2. queue = <<>> => Rested
      BY <1>1, <3>1 DEF InHand, Copies, Rested
    <3>. QED  BY <2>1, <2>6, <2>7, <3>2 DEF Delivery, AtRest, Rested
  <2>8. CASE ~Answers(Head(up))
    <3>1. InHand'
      BY <1>1, <2>1, <2>5 DEF InHand, Copies
    <3>. QED  BY <2>6, <2>8, <3>1 DEF Delivery, AtRest
  <2>. QED  BY <2>7, <2>8
<1>4. CASE TimeOut /\ ~PeerGone(queue)
  <2>1. /\ UNCHANGED <<queue, mgr, cmd, posted, pc_sock_fd, up, rx, delivered>>
        /\ down' = IF tcp_sock_fd THEN Append(down, cmd) ELSE down
    BY <1>4 DEF TimeOut, pc
  <2>2. cmd \in Cmd
    BY <1>1 DEF Typed, Sending
  <2>3. CASE ~tcp_sock_fd
    BY <2>1, <2>3, Undisturbed
  <2>4. CASE tcp_sock_fd
    <3>1. /\ Len(down) \in Nat /\ DOMAIN down = 1 .. Len(down)
          /\ DOMAIN down' = 1 .. Len(down) + 1
          /\ \A k \in 1 .. Len(down) : down'[k] = down[k]
          /\ down'[Len(down) + 1] = cmd
      BY <1>1, <2>1, <2>2, <2>4
    <3>2. \A a \in DOMAIN down' : down'[a].seq = cmd.seq =>
            \A j \in DOMAIN down' : j >= a => down'[j] = cmd
      BY <1>1, <3>1 DEF InHand
    <3>3. Copies => Copies'
      BY <2>1, <3>1 DEF Copies
    <3>4. InHand'
      BY <1>1, <2>1, <3>2, <3>3 DEF InHand, Taken
    <3>5. Phases' /\ LastIs(queue', posted')
      BY <1>1, <2>1 DEF Phases
    <3>. QED  BY <1>1, <2>1, <3>4, <3>5 DEF Delivery, AtRest
  <2>. QED  BY <2>3, <2>4
<1>. QED  BY <1>2, <1>3, <1>4 DEF LosePeer

(* What the PC takes off the stream is a copy of the command in hand, with   *)
(* nothing but copies behind it, or an older command that no answer to the   *)
(* one in hand can have overtaken.                                           *)
LEMMA RecvDelivery ==
  ASSUME Typed, Delivery, Recv
  PROVE  Delivery'
<1>. USE DEF Recv
<1>1. UNCHANGED <<queue, mgr, cmd, posted, pc_sock_fd, up>> /\ down \in Seq(Cmd)
  BY DEF manager, Typed, TypeOK, TcpOK
<1>2. CASE down = <<>> /\ UNCHANGED <<down, rx, delivered>>
  BY <1>1, <1>2, Undisturbed
<1>3. CASE ~pc_sock_fd
  <2>1. mgr \in {"idle", "accept", "stopped"}
    BY <1>3 DEF Delivery, Phases, Typed, TypeOK, ManagerOK
  <2>. QED  BY <1>1, <1>3, <2>1, Disconnected DEF Delivery, Phases
<1>4. CASE /\ down # <<>> /\ down' = Tail(down)
           /\ rx' = Head(down).seq /\ delivered' = Head(down).orient
  <2>1. /\ 1 \in DOMAIN down /\ Head(down) = down[1]
        /\ \A k \in DOMAIN down' : k + 1 \in DOMAIN down /\ down'[k] = down[k + 1]
        /\ \A k \in DOMAIN down : k >= 1
        /\ DOMAIN down' \subseteq Nat
    BY <1>1, <1>4
  <2>2. mgr = "await" => InHand'
    <3>. SUFFICES ASSUME InHand PROVE InHand'
      BY DEF Delivery
    <3>1. \A a \in DOMAIN down' : down'[a].seq = cmd.seq =>
            \A j \in DOMAIN down' : j >= a => down'[j] = cmd
      <4>. SUFFICES ASSUME NEW a \in DOMAIN down', down'[a].seq = cmd.seq,
                           NEW j \in DOMAIN down', j >= a
                    PROVE  down'[j] = cmd
        OBVIOUS
      <4>1. /\ a + 1 \in DOMAIN down /\ down[a + 1].seq = cmd.seq
            /\ j + 1 \in DOMAIN down /\ j + 1 >= a + 1
        BY <2>1
      <4>. QED  BY <2>1, <4>1 DEF InHand
    <3>2. CASE Head(down).seq = cmd.seq
      <4>1. Copies /\ Head(down) = cmd
        BY <2>1, <3>2 DEF InHand, Copies
      <4>2. Copies' /\ delivered' = cmd.orient
        BY <1>1, <1>4, <2>1, <4>1 DEF Copies
      <4>. QED  BY <1>1, <3>1, <4>2 DEF InHand
    <3>3. CASE Head(down).seq # cmd.seq
      <4>1. ~Taken
        BY <2>1, <3>3 DEF InHand, Copies
      <4>2. ~Taken'
        BY <1>1, <1>4, <3>3, <4>1 DEF Taken
      <4>. QED  BY <1>1, <3>1, <4>2 DEF InHand
    <3>. QED  BY <3>2, <3>3
  <2>3. AtRest => Rested'
    BY <1>1, <1>4, <2>1 DEF Delivery, Rested
  <2>. QED  BY <1>1, <2>2, <2>3 DEF Delivery, Phases, AtRest
<1>. QED  BY <1>2, <1>3, <1>4

(* The PC answers with the stamp of what it took last.                       *)
LEMMA AckDelivery ==
  ASSUME Typed, Delivery, Ack
  PROVE  Delivery'
<1>. USE DEF Ack
<1>1. UNCHANGED <<queue, mgr, cmd, posted, pc_sock_fd, rx, delivered>>
  BY DEF manager
<1>2. CASE ~pc_sock_fd
  <2>1. mgr \in {"idle", "accept", "stopped"}
    BY <1>2 DEF Delivery, Phases, Typed, TypeOK, ManagerOK
  <2>. QED  BY <1>1, <1>2, <2>1, Disconnected DEF Delivery, Phases
<1>3. CASE pc_sock_fd
  <2>1. up' = Append(up, rx) /\ down' = down /\ up \in Seq(Stamp) /\ rx \in Stamp
    BY <1>3 DEF Typed, TypeOK, TcpOK, PcOK
  <2>2. /\ Len(up) \in Nat /\ DOMAIN up = 1 .. Len(up) /\ DOMAIN up' = 1 .. Len(up) + 1
        /\ \A k \in 1 .. Len(up) : up'[k] = up[k]
        /\ up'[Len(up) + 1] = rx
    BY <2>1
  <2>3. Taken' => Taken
    BY <1>1, <2>2 DEF Taken
  <2>4. InHand => InHand'
    BY <1>1, <2>1, <2>3 DEF InHand, Copies
  <2>. QED  BY <1>1, <2>1, <2>4 DEF Delivery, Phases, AtRest, Rested
<1>. QED  BY <1>2, <1>3

(* A board that starts again has forgotten its connection; a session that    *)
(* breaks loses what was on its way to the PC, and no answer.                *)
LEMMA WorldDelivery ==
  ASSUME Typed, Delivery, World
  PROVE  Delivery'
<1>1. CASE Move \/ XChanges
  BY <1>1, Undisturbed DEF Move, XChanges, manager, tcp, pc
<1>2. CASE Reboot
  <2>1. queue' = <<"connect">> /\ mgr' = "idle" /\ ~pc_sock_fd'
    BY <1>2 DEF Reboot
  <2>2. OneConnect(queue') /\ LastIs(queue', posted')
    BY <2>1, NoPose DEF OneConnect, LastIs
  <2>. QED  BY <2>1, <2>2, Disconnected
<1>3. CASE SessionBreaks
  <2>1. down' = <<>> /\ UNCHANGED <<queue, mgr, cmd, posted, pc_sock_fd, up, rx, delivered>>
    BY <1>3 DEF SessionBreaks, manager
  <2>2. DOMAIN down' = {}
    BY <2>1
  <2>3. InHand => InHand'
    BY <2>1, <2>2 DEF InHand, Taken, Copies
  <2>. QED  BY <2>1, <2>2, <2>3 DEF Delivery, Phases, AtRest, Rested
<1>. QED  BY <1>1, <1>2, <1>3 DEF World

(* Whatever the constants: a manager at rest on its connection has had the   *)
(* last orientation it was given taken by a PC.                              *)
THEOREM LinkRestMeansDelivered == Spec => []RestMeansDelivered
<1>1. Init => Typed /\ Delivery
  <2>1. Init => Typed
    BY LinkInitType
  <2>2. Init => Delivery
    BY NoPose DEF Init, Delivery, Phases, OnlyOrients, OneConnect, LastIs, AtRest
  <2>. QED  BY <2>1, <2>2
<1>2. Typed /\ Delivery /\ [Next]_vars => (Typed /\ Delivery)'
  <2>. SUFFICES ASSUME Typed, Delivery, [Next]_vars PROVE Typed' /\ Delivery'
    OBVIOUS
  <2>1. Typed'
    BY LinkStepType
  <2>. SUFFICES Delivery'
    BY <2>1
  <2>2. CASE UNCHANGED vars
    BY <2>2, Undisturbed DEF vars, manager, tcp, pc
  <2>3. CASE Heal \/ Rotate
    BY <2>3, Undisturbed DEF Heal, Rotate, manager, tcp
  <2>4. CASE Settle \/ Dispatcher
    BY <2>4, SettleDelivery, UnconnectedDelivery, ConnectDelivery, SendDelivery, AwaitDelivery
       DEF Dispatcher
  <2>5. CASE Recv \/ Ack \/ World
    BY <2>5, RecvDelivery, AckDelivery, WorldDelivery
  <2>6. Next => Settle \/ Dispatcher \/ Heal \/ Rotate \/ Recv \/ Ack \/ World
    BY DEF Next, Daemon
  <2>. QED  BY <2>2, <2>3, <2>4, <2>5, <2>6
<1>3. Delivery => RestMeansDelivered
  BY DEF Delivery, RestMeansDelivered, Rested
<1>. QED  BY <1>1, <1>2, <1>3, PTL DEF Spec

====
