---- MODULE LwipSockets ----
(***************************************************************************)
(* The part of lwIP's socket layer the Wi-Fi manager depends on (external: *)
(* the library is not in the repository).  A descriptor is a small number, *)
(* socket() and accept() hand out the lowest one that is free, and close() *)
(* acts on the number it is given, whoever opened it last.                 *)
(***************************************************************************)
EXTENDS Integers

CONSTANT NumSock   (* CONFIG_LWIP_MAX_SOCKETS *)

ASSUME NumSockAssumption == NumSock \in Nat \ {0}

Fd     == 0 .. NumSock - 1
Closed == -1                       \* the manager's "no socket" sentinel

(* What a descriptor is open as.  A listener and an accepted connection     *)
(* remember the role the manager had when it set them up: a listener's      *)
(* port (6000 in STA, 8000 in AP) and a connection's receive timeout (1 s   *)
(* in STA, 200 ms in AP) both depend on it.                                 *)
Kind == {"free", "udp", "listener_STA", "listener_AP", "conn_STA", "conn_AP"}

Listener(role) == IF role = "STA" THEN "listener_STA" ELSE "listener_AP"
Conn(role)     == IF role = "STA" THEN "conn_STA" ELSE "conn_AP"

FreeFds(s)      == {fd \in Fd : s[fd] = "free"}
LowestFree(s)   == {fd \in FreeFds(s) : \A g \in FreeFds(s) : fd <= g}
OpenAs(s, fd)   == IF fd \in Fd THEN s[fd] ELSE "free"

(* close(fd): EBADF, and no effect, on a number that is not open.           *)
CloseFds(s, fs) == [fd \in Fd |-> IF fd \in fs THEN "free" ELSE s[fd]]

====
