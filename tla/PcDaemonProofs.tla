---- MODULE PcDaemonProofs ----
(* Theorems about PcDaemon, for every value of its constants.               *)
EXTENDS PcDaemon, TLAPS

----------------------------------------------------------------------------
(* Type correctness *)

(* A rotation under way has something to turn to; TypeOK alone does not know *)
(* that what an orphaned xrandr puts on the screen is an orientation.        *)
Turning == mpc = "rotating" => desired_orient # "invalid"

TypeInv == TypeOK /\ Turning

(* The empty queue and the empty stream are typed.                          *)
LEMMA NothingQueued == <<>> \in Seq(Note) /\ <<>> \in Seq(Orient)
OBVIOUS

(* A process that dies leaves everything typed.                              *)
LEMMA DieType ==
  ASSUME TypeInv, NEW s \in {1, 2, 143}, Die(s)
  PROVE  /\ mpc' = "dead" /\ status' \in {0, 1, 2, 143}
         /\ npc' = "none" /\ nlq' = <<>> /\ cmds' = <<>>
         /\ screen' \in Orient
<1>1. mpc = "rotating" => desired_orient \in Orient
  BY DEF TypeInv, TypeOK, OrientOK, Turning
<1>. QED  BY <1>1 DEF Die, TypeInv, TypeOK, OrientOK

(* A fresh process is typed.                                                 *)
LEMMA BootType ==
  ASSUME Boot
  PROVE  /\ MainOK'
         /\ ThreadOK'
         /\ last_orient' = "invalid" /\ desired_orient' = "invalid" /\ killed' = FALSE
         /\ Turning'
<1>1. iface_arr' \in [{} -> Addr]
  BY DEF Boot
<1>2. MainOK'
  BY <1>1 DEF Boot, MainOK, NoWatcherYet
<1>3. ThreadOK'
  BY NothingQueued DEF Boot, ThreadOK
<1>4. Turning'
  BY DEF Boot, Turning
<1>. QED  BY <1>2, <1>3, <1>4 DEF Boot

(* The wrapper's steps keep the types.                                       *)
LEMMA WrapperType ==
  ASSUME TypeInv, Wrapper
  PROVE  TypeInv'
<1>1. CASE Spawn
  BY <1>1, BootType DEF Spawn, TypeInv, TypeOK, WrapperOK, OrientOK, OutsideOK, outside
<1>2. CASE NoteChild \/ WaitReturns \/ Wake
  <2>1. WrapperOK'
    BY <1>2 DEF NoteChild, WaitReturns, Wake, TypeInv, TypeOK, WrapperOK
  <2>2. UNCHANGED <<control, found, orients, thread, outside>>
    BY <1>2 DEF NoteChild, WaitReturns, Wake
  <2>. QED  BY <2>1, <2>2 DEF TypeInv, TypeOK, MainOK, OrientOK, ThreadOK, OutsideOK, Turning,
                 control, found, orients, thread, outside
<1>3. CASE OnTerm
  <2>1. WrapperOK'
    BY <1>3 DEF OnTerm, TypeInv, TypeOK, WrapperOK
  <2>2. CASE UNCHANGED <<control, found, orients, thread, outside>>
    BY <2>1, <2>2 DEF TypeInv, TypeOK, MainOK, OrientOK, ThreadOK, OutsideOK, Turning,
       control, found, orients, thread, outside
  <2>3. CASE Die(143) /\ UNCHANGED <<ret, found, orients, is_netlink_running, quit_netlink,
                                     ip_changed, net, x, incidents, sent, moved>>
    <3>1. MainOK'
      BY <2>3, DieType, NothingQueued DEF TypeInv, TypeOK, MainOK, found, NoWatcherYet
    <3>2. OrientOK'
      BY <2>3, DieType, NothingQueued DEF TypeInv, TypeOK, OrientOK, orients
    <3>3. ThreadOK'
      BY <2>3, DieType, NothingQueued DEF TypeInv, TypeOK, ThreadOK
    <3>4. OutsideOK' /\ Turning'
      BY <2>3, DieType, NothingQueued DEF TypeInv, TypeOK, OutsideOK, Turning
    <3>. QED  BY <2>1, <3>1, <3>2, <3>3, <3>4 DEF TypeInv, TypeOK
  <2>. QED  BY <1>3, <2>2, <2>3 DEF OnTerm
<1>. QED  BY <1>1, <1>2, <1>3 DEF Wrapper

(* main's steps up to a session keep the types.                              *)
LEMMA StartType ==
  ASSUME TypeInv, Detect \/ Join \/ Reset \/ Enumerate \/ Discover \/ StartNetlink
  PROVE  TypeInv'
<1>1. CASE Detect
  BY <1>1 DEF Detect, TypeInv, TypeOK, WrapperOK, MainOK, OrientOK, ThreadOK, OutsideOK,
     Turning, wrapper, orients, thread, outside
<1>2. CASE Join
  <2>1. WrapperOK' /\ MainOK' /\ Turning'
    BY <1>2, DieType DEF Join, TypeInv, TypeOK, WrapperOK, MainOK, Turning, NoWatcherYet,
       wrapper, found
  <2>2. OrientOK'
    BY <1>2, DieType, NothingQueued DEF Join, TypeInv, TypeOK, OrientOK, orients
  <2>3. ThreadOK' /\ OutsideOK'
    BY <1>2, DieType, NothingQueued DEF Join, TypeInv, TypeOK, ThreadOK, OutsideOK
  <2>. QED  BY <2>1, <2>2, <2>3 DEF TypeInv, TypeOK
<1>3. CASE Reset
  <2>1. MainOK' /\ Turning'
    BY <1>3 DEF Reset, TypeInv, TypeOK, MainOK, Turning, NoWatcherYet, found, orients
  <2>2. ThreadOK'
    BY <1>3 DEF Reset, TypeInv, TypeOK, ThreadOK
  <2>. QED  BY <1>3, <2>1, <2>2 DEF Reset, TypeInv, TypeOK, WrapperOK, OrientOK, OutsideOK,
                 wrapper, orients, outside
<1>4. CASE Enumerate
  <2>1. iface_arr' \in [{j \in Iface : net[j] # "down"} -> Addr]
    BY <1>4 DEF Enumerate, TypeInv, TypeOK, OutsideOK
  <2>2. MainOK'
    BY <1>4, <2>1 DEF Enumerate, TypeInv, TypeOK, MainOK, NoWatcherYet
  <2>. QED  BY <1>4, <2>2 DEF Enumerate, TypeInv, TypeOK, WrapperOK, OrientOK, ThreadOK,
                 OutsideOK, Turning, wrapper, orients, thread
<1>5. CASE Discover
  <2>1. PICK known \in SUBSET Iface : iface_arr \in [known -> Addr]
    BY DEF TypeInv, TypeOK, MainOK
  <2>2. old_info' \in [iface : Iface, ip : Addr] \cup {NoInfo}
    BY <1>5, <2>1 DEF Discover, TypeInv, TypeOK, MainOK
  <2>3. iface_arr' \in [{} -> Addr]
    BY <1>5 DEF Discover
  <2>4. MainOK'
    BY <1>5, <2>2, <2>3 DEF Discover, TypeInv, TypeOK, MainOK, NoWatcherYet
  <2>. QED  BY <1>5, <2>4 DEF Discover, TypeInv, TypeOK, WrapperOK, OrientOK, ThreadOK,
                 OutsideOK, Turning, wrapper, orients, thread, outside
<1>6. CASE StartNetlink
  <2>1. WrapperOK' /\ MainOK' /\ Turning'
    BY <1>6, DieType DEF StartNetlink, TypeInv, TypeOK, WrapperOK, MainOK, Turning,
       NoWatcherYet, Session, wrapper, found
  <2>2. OrientOK'
    BY <1>6, DieType, NothingQueued DEF StartNetlink, TypeInv, TypeOK, OrientOK, orients
  <2>3. ThreadOK' /\ OutsideOK'
    BY <1>6, DieType, NothingQueued DEF StartNetlink, TypeInv, TypeOK, ThreadOK, OutsideOK
  <2>. QED  BY <2>1, <2>2, <2>3 DEF TypeInv, TypeOK
<1>. QED  BY <1>1, <1>2, <1>3, <1>4, <1>5, <1>6

(* The steps of a session keep the types.                                    *)
LEMMA SessionType ==
  ASSUME TypeInv, Connect \/ Check \/ Heal \/ Recv \/ Ack \/ Rotate
  PROVE  TypeInv'
<1>. USE DEF Session, Connected
<1>1. CASE Connect \/ Check \/ Ack
  <2>1. cmds' \in Seq(Orient)
    BY <1>1, NothingQueued DEF Connect, Check, Ack, EndSession, TypeInv, TypeOK, OrientOK
  <2>2. MainOK' /\ Turning'
    BY <1>1 DEF Connect, Check, Ack, EndSession, TypeInv, TypeOK, MainOK, Turning, found
  <2>3. ThreadOK'
    BY <1>1 DEF Connect, Check, Ack, EndSession, TypeInv, TypeOK, ThreadOK
  <2>4. OrientOK'
    BY <1>1, <2>1 DEF Connect, Check, Ack, TypeInv, TypeOK, OrientOK, orients
  <2>5. WrapperOK' /\ OutsideOK'
    BY <1>1 DEF Connect, Check, Ack, TypeInv, TypeOK, WrapperOK, OutsideOK, wrapper
  <2>. QED  BY <2>2, <2>3, <2>4, <2>5 DEF TypeInv, TypeOK
<1>2. CASE Heal
  <2>1. MainOK' /\ Turning'
    BY <1>2 DEF Heal, TypeInv, TypeOK, MainOK, Turning, found, orients
  <2>. QED  BY <1>2, <2>1 DEF Heal, TypeInv, TypeOK, WrapperOK, OrientOK, ThreadOK, OutsideOK,
                 wrapper, orients, thread, outside
<1>3. CASE Recv
  <2>0. cmds # <<>> => Head(cmds) \in Orient /\ Tail(cmds) \in Seq(Orient)
    BY DEF TypeInv, TypeOK, OrientOK
  <2>1. cmds' \in Seq(Orient) /\ desired_orient' \in Orient \cup {"invalid"}
    BY <1>3, <2>0, NothingQueued DEF Recv, EndSession, TypeInv, TypeOK, OrientOK
  <2>2. MainOK' /\ Turning'
    BY <1>3, <2>0, ConstantsAssumption DEF Recv, EndSession, TypeInv, TypeOK, MainOK, Turning,
       found
  <2>3. ThreadOK'
    BY <1>3 DEF Recv, EndSession, TypeInv, TypeOK, ThreadOK
  <2>4. OrientOK' /\ WrapperOK' /\ OutsideOK'
    BY <1>3, <2>1 DEF Recv, TypeInv, TypeOK, OrientOK, WrapperOK, OutsideOK, wrapper
  <2>. QED  BY <2>2, <2>3, <2>4 DEF TypeInv, TypeOK
<1>4. CASE Rotate
  <2>1. desired_orient \in Orient
    BY <1>4 DEF Rotate, TypeInv, TypeOK, OrientOK, Turning
  <2>2. OrientOK'
    BY <1>4, <2>1 DEF Rotate, TypeInv, TypeOK, OrientOK
  <2>3. MainOK' /\ Turning'
    BY <1>4 DEF Rotate, TypeInv, TypeOK, MainOK, Turning, found
  <2>. QED  BY <1>4, <2>2, <2>3 DEF Rotate, TypeInv, TypeOK, WrapperOK, ThreadOK, OutsideOK,
                 wrapper, thread
<1>. QED  BY <1>1, <1>2, <1>3, <1>4

(* So do the watcher's.                                                      *)
LEMMA WatcherType ==
  ASSUME TypeInv, Watcher
  PROVE  TypeInv'
<1>1. CASE Open \/ Notified
  <2>0. nlq # <<>> => Tail(nlq) \in Seq(Note)
    BY DEF TypeInv, TypeOK, ThreadOK
  <2>1. nlq' \in Seq(Note) /\ cmds' \in Seq(Orient) /\ screen' \in Orient
    BY <1>1, <2>0, DieType, NothingQueued
       DEF Open, Notified, RaiseSigterm, TypeInv, TypeOK, OrientOK, ThreadOK
  <2>2. MainOK' /\ Turning'
    BY <1>1, DieType DEF Open, Notified, RaiseSigterm, TypeInv, TypeOK, MainOK, Turning, found,
       orients, NoWatcherYet
  <2>3. ThreadOK'
    BY <1>1, <2>1, DieType DEF Open, Notified, RaiseSigterm, TypeInv, TypeOK, ThreadOK
  <2>4. OrientOK' /\ WrapperOK' /\ OutsideOK'
    BY <1>1, <2>1 DEF Open, Notified, TypeInv, TypeOK, OrientOK, WrapperOK, OutsideOK, wrapper,
       orients
  <2>. QED  BY <2>2, <2>3, <2>4 DEF TypeInv, TypeOK
<1>2. CASE PollQuit
  <2>1. ThreadOK'
    BY <1>2, NothingQueued DEF PollQuit, TypeInv, TypeOK, ThreadOK
  <2>. QED  BY <1>2, <2>1 DEF PollQuit, TypeInv, TypeOK, WrapperOK, MainOK, OrientOK, OutsideOK,
                 Turning, wrapper, control, found, orients, outside
<1>. QED  BY <1>1, <1>2 DEF Watcher

(* And what happens outside.                                                 *)
LEMMA WorldType ==
  ASSUME TypeInv, World
  PROVE  TypeInv'
<1>1. CASE \E i \in Iface : Move(i) \/ Renew(i)
  <2>1. PICK i \in Iface : Move(i) \/ Renew(i)
    BY <1>1
  <2>2. /\ \A ip \in Addr \cup {"down"} : [iface |-> i, ip |-> ip] \in Note
        /\ net[i] \in Addr \cup {"down"}
    BY DEF Note, TypeInv, TypeOK, OutsideOK
  <2>3. \A n \in Note : Append(nlq, n) \in Seq(Note)
    BY DEF TypeInv, TypeOK, ThreadOK
  <2>4. nlq' \in Seq(Note)
    BY <2>1, <2>2, <2>3 DEF Move, Renew, Notify, TypeInv, TypeOK, ThreadOK
  <2>5. ThreadOK'
    BY <2>1, <2>4 DEF Move, Renew, TypeInv, TypeOK, ThreadOK
  <2>6. OutsideOK'
    BY <2>1 DEF Move, Renew, Incident, TypeInv, TypeOK, OutsideOK
  <2>. QED  BY <2>1, <2>5, <2>6 DEF Move, Renew, TypeInv, TypeOK, WrapperOK, MainOK, OrientOK,
                 Turning, wrapper, control, found, orients
<1>2. CASE XChanges
  BY <1>2 DEF XChanges, Incident, TypeInv, TypeOK, WrapperOK, MainOK, OrientOK, ThreadOK,
     OutsideOK, Turning, wrapper, control, found, orients, thread
<1>3. CASE SendCmd
  BY <1>3 DEF SendCmd, TypeInv, TypeOK, WrapperOK, MainOK, OrientOK, ThreadOK,
     OutsideOK, Turning, wrapper, control, found, orients, thread
<1>4. CASE Logout
  <2>1. nlq' \in Seq(Note) /\ cmds' \in Seq(Orient) /\ screen' \in Orient
    BY <1>4, DieType, NothingQueued DEF Logout, TypeInv, TypeOK, OrientOK, ThreadOK
  <2>2. MainOK' /\ Turning'
    BY <1>4, DieType DEF Logout, TypeInv, TypeOK, MainOK, Turning, found, orients, NoWatcherYet
  <2>3. ThreadOK'
    BY <1>4, <2>1, DieType DEF Logout, TypeInv, TypeOK, ThreadOK
  <2>4. OrientOK' /\ WrapperOK' /\ OutsideOK'
    BY <1>4, <2>1 DEF Logout, TypeInv, TypeOK, OrientOK, WrapperOK, OutsideOK, orients
  <2>. QED  BY <2>2, <2>3, <2>4 DEF TypeInv, TypeOK
<1>. QED  BY <1>1, <1>2, <1>3, <1>4 DEF World

(* Whatever the constants, every variable keeps its type: the watcher's      *)
(* queue, the commands in the stream, and what each interface is given.      *)
THEOREM PcTypeCorrect == Spec => []TypeOK
<1>1. Init => TypeInv
  <2>. SUFFICES ASSUME Init PROVE TypeInv
    OBVIOUS
  <2>1. iface_arr \in [{} -> Addr]
    BY DEF Init
  <2>2. MainOK
    BY <2>1 DEF Init, MainOK, NoWatcherYet
  <2>3. ThreadOK
    BY NothingQueued DEF Init, ThreadOK
  <2>4. OrientOK
    BY NothingQueued DEF Init, OrientOK
  <2>. QED  BY <2>2, <2>3, <2>4 DEF Init, TypeInv, TypeOK, WrapperOK, OutsideOK, Turning
<1>2. TypeInv /\ [Next]_vars => TypeInv'
  <2>1. ASSUME TypeInv, UNCHANGED vars PROVE TypeInv'
    BY <2>1 DEF TypeInv, TypeOK, WrapperOK, MainOK, OrientOK, ThreadOK, OutsideOK, Turning,
       vars, wrapper, control, found, orients, thread, outside
  <2>. QED  BY <2>1, WrapperType, StartType, SessionType, WatcherType, WorldType
            DEF Next, Main
<1>. QED  BY <1>1, <1>2, PTL DEF Spec, TypeInv

----------------------------------------------------------------------------
(* The watcher's life *)

(* Who may run where: OneWatcher and NeverUnwatched, with what makes them    *)
(* hold.  A watcher exists exactly from its start to its join, and main      *)
(* knows it; while it watches a session nobody has asked it to quit, and     *)
(* what it shares with main is clean when it starts.                         *)
Rediscovering == {"enumerate", "discover", "start_netlink"}
Joined  == mpc \in NoWatcherYet => npc = "none" /\ nlq = <<>>
Known   == /\ mpc \in NoWatcherYet \ {"dead"} => ~is_netlink_running
           /\ mpc \in Session => is_netlink_running /\ npc # "none"
           /\ mpc = "join" => (is_netlink_running <=> npc # "none")
Clean   == /\ mpc \in Session \cup Rediscovering => ~quit_netlink
           /\ mpc \in Rediscovering => ~ip_changed
Watched == Joined /\ Known /\ Clean /\ NeverUnwatched

(* Before the wrapper has started anything there is no watcher.             *)
LEMMA WatchedInit == Init => Watched
BY DEF Init, Watched, Joined, Known, Clean, NeverUnwatched, Session, Connected, Rediscovering

(* Every step keeps a session watched, and a watcher alone.                 *)
LEMMA WatchedStep == TypeOK /\ Watched /\ [Next]_vars => Watched'
<1>. SUFFICES ASSUME TypeOK, Watched, [Next]_vars PROVE Watched'
  OBVIOUS
<1>. USE DEF Watched, Joined, Known, Clean, NeverUnwatched, NoWatcherYet, Session, Connected,
             Rediscovering, Watching
<1>1. CASE UNCHANGED vars
  BY <1>1 DEF vars, control, thread
<1>2. CASE Wrapper
  BY <1>2 DEF Wrapper, Spawn, Boot, NoteChild, WaitReturns, Wake, OnTerm, Die, control, thread
<1>3. CASE Detect \/ Join \/ Reset \/ Enumerate \/ Discover \/ StartNetlink
  BY <1>3 DEF Detect, Join, Reset, Enumerate, Discover, StartNetlink, Die, thread
<1>4. CASE Connect \/ Check \/ Ack
  BY <1>4 DEF Connect, Check, Ack, EndSession, thread
<1>5. CASE Heal \/ Recv
  BY <1>5 DEF Heal, Recv, EndSession, thread
<1>6. CASE Rotate
  BY <1>6 DEF Rotate, thread, TypeOK, MainOK
<1>7. CASE Watcher
  BY <1>7 DEF Watcher, Open, PollQuit, Notified, RaiseSigterm, Die, control
<1>8. CASE World
  <2>1. CASE \E i \in Iface : Move(i) \/ Renew(i)
    <3>1. PICK i \in Iface : Move(i) \/ Renew(i)
      BY <2>1
    <3>2. UNCHANGED <<control, is_netlink_running, quit_netlink, ip_changed, npc>>
      BY <3>1 DEF Move, Renew
    <3>3. npc = "none" => nlq' = nlq
      BY <3>1 DEF Move, Renew, Notify
    <3>. QED  BY <3>2, <3>3 DEF control
  <2>2. CASE XChanges \/ SendCmd
    BY <2>2 DEF XChanges, SendCmd, control, thread
  <2>3. CASE Logout
    BY <2>3 DEF Logout, Die
  <2>. QED  BY <1>8, <2>1, <2>2, <2>3 DEF World
<1>. QED  BY <1>1, <1>2, <1>3, <1>4, <1>5, <1>6, <1>7, <1>8 DEF Next, Main

(* Whatever the constants, the last watcher has returned and is joined       *)
(* before the next round begins.                                             *)
THEOREM PcOneWatcher == Spec => []OneWatcher
<1>1. TypeOK /\ Watched => OneWatcher
  BY DEF Watched, Joined, OneWatcher
<1>. QED  BY <1>1, WatchedInit, WatchedStep, PcTypeCorrect, PTL DEF Spec

(* Whatever the constants, no session runs unwatched unless its end is due.  *)
THEOREM PcNeverUnwatched == Spec => []NeverUnwatched
<1>1. Watched => NeverUnwatched
  BY DEF Watched
<1>. QED  BY <1>1, WatchedInit, WatchedStep, PcTypeCorrect, PTL DEF Spec

----------------------------------------------------------------------------
(* What a session is ended for *)

(* FlagConcernsSession, with what makes it hold: an address listed, then     *)
(* remembered as the board's, is the interface's address unless it moved     *)
(* since, and what the kernel reports of it is such a move.                  *)
Listed   == mpc = "discover" =>
              \A i \in DOMAIN iface_arr : i \in Iface /\ (net[i] = iface_arr[i] \/ i \in moved)
Held     == mpc \in {"start_netlink"} \cup Session =>
              /\ old_info.iface \in Iface
              /\ net[old_info.iface] = old_info.ip \/ old_info.iface \in moved
Reported == mpc \in Session =>
              \A k \in 1 .. Len(nlq) : Concerns(nlq[k]) => old_info.iface \in moved
Moves    == Listed /\ Held /\ Reported /\ FlagConcernsSession

(* Before the wrapper has started anything nothing is listed or reported.   *)
LEMMA MovesInit == Init => Moves
BY DEF Init, Moves, Listed, Held, Reported, FlagConcernsSession, Session, Connected

(* main's steps: the list is made, one interface of it is kept, and the      *)
(* watcher starts with nothing reported and no flag.                         *)
LEMMA MovesMain ==
  ASSUME TypeOK, Watched, Moves, Main
  PROVE  Moves'
<1>. USE DEF Moves, Listed, Held, Reported, FlagConcernsSession, Session, Connected, Concerns
<1>1. CASE Detect \/ Join \/ Reset
  BY <1>1 DEF Detect, Join, Reset, Die
<1>2. CASE Enumerate
  BY <1>2 DEF Enumerate
<1>3. CASE Discover
  BY <1>3 DEF Discover, outside, thread
<1>4. CASE StartNetlink
  <2>1. nlq = <<>> /\ ~ip_changed
    BY <1>4 DEF StartNetlink, Watched, Joined, Clean, NoWatcherYet, Rediscovering
  <2>. QED  BY <1>4, <2>1 DEF StartNetlink, Die, found
<1>5. CASE Connect \/ Check \/ Ack \/ Heal \/ Recv
  BY <1>5 DEF Connect, Check, Ack, Heal, Recv, EndSession, found, thread, outside
<1>6. CASE Rotate
  BY <1>6 DEF Rotate, found, thread, TypeOK, MainOK
<1>. QED  BY <1>1, <1>2, <1>3, <1>4, <1>5, <1>6 DEF Main

(* The watcher's steps: it raises the flag for a report that concerns the    *)
(* session, and each report it passes over leaves the others.                *)
LEMMA MovesWatcher ==
  ASSUME TypeOK, Watched, Moves, Watcher
  PROVE  Moves'
<1>. USE DEF Moves, Listed, Held, Reported, FlagConcernsSession, Session, Connected, Concerns
<1>1. nlq \in Seq(Note)
  BY DEF TypeOK, ThreadOK
<1>2. CASE Open \/ PollQuit
  BY <1>2 DEF Open, PollQuit, RaiseSigterm, Die, control, found, outside
<1>3. CASE Notified
  <2>1. UNCHANGED <<found, net, moved>>
    BY <1>3 DEF Notified
  <2>2. CASE nlq # <<>> /\ Concerns(Head(nlq)) /\ ip_changed' = TRUE /\ nlq' = <<>>
             /\ UNCHANGED mpc
    BY <1>1, <2>1, <2>2 DEF found
  <2>3. CASE nlq # <<>> /\ nlq' = Tail(nlq) /\ UNCHANGED <<mpc, ip_changed>>
    BY <1>1, <2>1, <2>3 DEF found
  <2>4. CASE UNCHANGED <<mpc, nlq, ip_changed>>
    BY <2>1, <2>4 DEF found
  <2>5. CASE mpc' = "dead"
    BY <2>5
  <2>. QED  BY <1>3, <2>2, <2>3, <2>4, <2>5 DEF Notified, RaiseSigterm, Die
<1>. QED  BY <1>2, <1>3 DEF Watcher

(* The network's steps: what moves is noted, and what has not moved since it *)
(* was listed is announced with the address it was listed with.              *)
LEMMA MovesWorld ==
  ASSUME TypeOK, Watched, Moves, World
  PROVE  Moves'
<1>. USE DEF Moves, Listed, Held, Reported, FlagConcernsSession, Session, Connected, Concerns
<1>1. nlq \in Seq(Note) /\ net \in [Iface -> Addr \cup {"down"}]
  BY DEF TypeOK, ThreadOK, OutsideOK
<1>2. ASSUME NEW i \in Iface, Move(i) PROVE Moves'
  <2>1. PICK ip \in Addr \cup {"down"} :
          net' = [net EXCEPT ![i] = ip] /\ (Notify(i, ip) \/ UNCHANGED nlq)
    BY <1>2 DEF Move
  <2>2. moved' = moved \cup {i} /\ UNCHANGED <<control, found, ip_changed>>
    BY <1>2 DEF Move
  <2>3. \A j \in Iface : net'[j] = net[j] \/ j \in moved'
    BY <1>1, <2>1, <2>2
  <2>4. \A k \in 1 .. Len(nlq') : nlq'[k].iface = i \/ (k \in 1 .. Len(nlq) /\ nlq'[k] = nlq[k])
    <3>. DEFINE n == [iface |-> i, ip |-> ip]
    <3>1. n \in Note /\ n.iface = i
      BY <2>1 DEF Note
    <3>2. nlq' = nlq \/ nlq' = Append(nlq, n)
      BY <2>1 DEF Notify
    <3>. HIDE DEF n
    <3>3. \A k \in 1 .. Len(nlq') : nlq'[k] = n \/ (k \in 1 .. Len(nlq) /\ nlq'[k] = nlq[k])
      BY <1>1, <3>1, <3>2
    <3>. QED  BY <3>1, <3>3
  <2>. QED  BY <2>2, <2>3, <2>4 DEF control, found
<1>3. ASSUME NEW i \in Iface, Renew(i) PROVE Moves'
  <2>1. UNCHANGED <<control, found, ip_changed, net, moved>>
    BY <1>3 DEF Renew
  <2>2. \A k \in 1 .. Len(nlq') : \/ nlq'[k] = [iface |-> i, ip |-> net[i]]
                                  \/ (k \in 1 .. Len(nlq) /\ nlq'[k] = nlq[k])
    BY <1>1, <1>3 DEF Renew, Notify, Note
  <2>. QED  BY <2>1, <2>2 DEF control, found
<1>4. CASE XChanges \/ SendCmd
  BY <1>4 DEF XChanges, SendCmd, control, found, thread
<1>5. CASE Logout
  BY <1>5 DEF Logout, Die, found
<1>. QED  BY <1>2, <1>3, <1>4, <1>5 DEF World

(* Whatever the constants, a session ends for a change of its own interface  *)
(* alone.                                                                    *)
THEOREM PcFlagConcernsSession == Spec => []FlagConcernsSession
<1>1. TypeOK /\ Watched /\ Moves /\ [Next]_vars => Moves'
  <2>. SUFFICES ASSUME TypeOK, Watched, Moves, [Next]_vars PROVE Moves'
    OBVIOUS
  <2>1. CASE Wrapper \/ UNCHANGED vars
    BY <2>1 DEF Wrapper, Spawn, Boot, NoteChild, WaitReturns, Wake, OnTerm, Die, vars, control,
       found, thread, outside, Moves, Listed, Held, Reported, FlagConcernsSession, Session,
       Connected, Concerns
  <2>. QED  BY <2>1, MovesMain, MovesWatcher, MovesWorld DEF Next
<1>2. Moves => FlagConcernsSession
  BY DEF Moves
<1>. QED  BY <1>1, <1>2, MovesInit, WatchedInit, WatchedStep, PcTypeCorrect, PTL DEF Spec

----------------------------------------------------------------------------
(* What is on the screen *)

(* Whatever the constants, and whatever fails or dies short of an xrandr     *)
(* ended by a signal, the orientation recorded is the one on the screen.     *)
THEOREM PcScreenRecorded == Spec => []LastOrientIsOnScreen
<1>. USE DEF LastOrientIsOnScreen, Recorded
<1>1. Init => LastOrientIsOnScreen
  BY DEF Init
<1>2. LastOrientIsOnScreen /\ [Next]_vars => LastOrientIsOnScreen'
  <2>. SUFFICES ASSUME LastOrientIsOnScreen, [Next]_vars PROVE LastOrientIsOnScreen'
    OBVIOUS
  <2>1. CASE Wrapper \/ UNCHANGED vars
    BY <2>1 DEF Wrapper, Spawn, Boot, NoteChild, WaitReturns, Wake, OnTerm, Die, vars, control,
       orients, outside
  <2>2. CASE Detect \/ Join \/ Reset \/ Enumerate \/ Discover \/ StartNetlink
    BY <2>2 DEF Detect, Join, Reset, Enumerate, Discover, StartNetlink, Die, orients, outside
  <2>3. CASE Connect \/ Check \/ Ack \/ Heal \/ Recv
    BY <2>3 DEF Connect, Check, Ack, Heal, Recv, EndSession, orients, outside
  <2>4. CASE Rotate
    BY <2>4 DEF Rotate
  <2>5. CASE Watcher
    BY <2>5 DEF Watcher, Open, PollQuit, Notified, RaiseSigterm, Die, control, orients, outside
  <2>6. CASE World
    BY <2>6 DEF World, Move, Renew, XChanges, SendCmd, Logout, Die, control, orients
  <2>. QED  BY <2>1, <2>2, <2>3, <2>4, <2>5, <2>6 DEF Next, Main
<1>. QED  BY <1>1, <1>2, PTL DEF Spec

====
