---- MODULE ApProvision ----
(***************************************************************************)
(* The provisioning tool (client/source/ap_provision.c), run again and     *)
(* again by one user, and the part of the firmware it talks to             *)
(* (wifi_mgr_get_router_creds in wifi_mgr.c).                              *)
(*                                                                         *)
(* Four things outlive a run of the tool: the credential file, the         *)
(* terminal's echo, the network NetworkManager has the PC on, and the      *)
(* board.  A run may be killed between any two steps.  A run is a sequence *)
(* of steps named by at: prompts, file operations, and the steps of a      *)
(* provisioning attempt, each of which may fail.                           *)
(*                                                                         *)
(* Field contents are their lengths, with what the SSID and the password   *)
(* happen to say at the place where an attempt looks for the flag of the   *)
(* BSSID; a key is a model value, encryption is the key it was done with.  *)
(* The 9 bytes of an acknowledgement come in one segment: whole, or not    *)
(* before the timeout.                                                     *)
(***************************************************************************)
EXTENDS Naturals, Sequences

CONSTANTS
  Keys,          (* the user keys                                           *)
  SsidLengths,   (* the lengths of an SSID a user types                     *)
  PassLengths,   (* the lengths of a password a user types                  *)
  SsidSize,      (* sizeof(sta.ssid) (32)                                   *)
  PassSize,      (* sizeof(sta.password) (64)                               *)
  Reread,        (* MAX_CRED_REREAD (3)                                     *)
  ResendMax,     (* RESEND_COUNTER_MAX (50)                                 *)
  ProvisionMax,  (* PROVISION_COUNTER_MAX (10)                              *)
  Ops,           (* the option verbs the user may give                      *)
  MayFail,       (* the layers whose calls may fail, of Layers              *)
  MaxFailures,   (* bound: failing calls                                    *)
  MaxRuns,       (* bound: runs of the tool                                 *)
  MaxIncidents   (* bound: kills of the tool and restarts of the board      *)

Layers == {"tty", "input", "file", "crypto", "nmcli", "socket", "wire"}

ASSUME ConstantsAssumption ==
  /\ SsidLengths \subseteq 0 .. SsidSize /\ PassLengths \subseteq 0 .. PassSize
  /\ \A c \in {SsidSize, PassSize, Reread, ResendMax, ProvisionMax} : c \in Nat \ {0}
  /\ \A c \in {MaxFailures, MaxRuns, MaxIncidents} : c \in Nat
  /\ Ops \subseteq {"set", "reset", "clear", "pair"}
  /\ MayFail \subseteq Layers

VARIABLES
  \* The run: its verb, its next step, its exit, and the tries a prompt has left.
  op, at, result, tries,
  \* Its memory: credentials typed or loaded, the user key, the offset of cred_fd.
  entry, user_key, offset,
  \* The provisioning loop: attempts and resends made, the outcome it restores
  \* for, the network it saved.
  attempt, resend_counter, after, wfs,
  \* What outlives it: the file, the echo, the PC's network.
  file, echo, net,
  \* The board: its access point, whether the code given is the one it shows,
  \* the TCP connections in the order it will serve them, and its answers.
  ap, code_ok, conns, to_pc,
  \* History: the credentials last stored whole, those the board accepted since
  \* the run began, the PC left its network and no restore was tried since, a
  \* restore failed or a run was killed.
  last, accepted, owed, strayed,
  \* Bounds' counters.
  runs, failures, incidents

memory  == <<entry, user_key, offset>>
loop    == <<attempt, resend_counter, after, wfs>>
board   == <<ap, code_ok, conns, to_pc>>
history == <<last, accepted, owed, strayed>>
bounds  == <<runs, failures, incidents>>
vars    == <<op, at, result, tries, memory, loop, file, echo, net, board, history, bounds>>

(* The file's BSSID, and what SSID and password have at the place where an  *)
(* attempt looks for it: no '1', a '1' that no address follows, a '1' and    *)
(* an address two characters on.                                             *)
Chance == {"no_flag", "flag", "address"}
Creds  == [ssid : 0 .. SsidSize, password : 0 .. PassSize, chance : Chance, bssid : {"unset", "set"}]
NoCreds == [ssid |-> 0, password |-> 0, chance |-> "no_flag", bssid |-> "unset"]

(* The code steps over the SSID only once, so that place is where the flag   *)
(* would be in a blob that begins with the password: a character of the      *)
(* SSID, its terminator, or a character of the password.  An address has     *)
(* eleven characters at least and ends with the field it starts in.          *)
Chances(ssid, password) ==
  IF ssid = 0 \/ ssid = password + 1 THEN {"no_flag"}
  ELSE IF (IF ssid >= password + 3 THEN ssid >= password + 14 ELSE ssid >= 13)
       THEN Chance ELSE {"no_flag", "flag"}

Formed == {c \in [ssid : SsidLengths, password : PassLengths, chance : Chance, bssid : {"unset", "set"}] :
             c.chance \in Chances(c.ssid, c.password)}

(* sta: the packet has an address where one was found, and it is not the     *)
(* file's.                                                                   *)
Unpacked(c) == [ssid |-> c.ssid, password |-> c.password,
                bssid |-> IF c.chance = "address" THEN "other" ELSE "unset"]

(* ap_prov.creds: header and ciphertext, part of them, nothing.              *)
NoKey == "no key"
Blob(k, c) == [kind |-> "blob", key |-> k, creds |-> c]
Torn       == [kind |-> "torn", key |-> NoKey, creds |-> NoCreds]
Empty      == [kind |-> "empty", key |-> NoKey, creds |-> NoCreds]
Absent     == [kind |-> "absent", key |-> NoKey, creds |-> NoCreds]

Protected == {"password", "key", "new_key", "confirm"}
Prompts   == Protected \cup {"ssid", "bssid"}
Attempt   == {"unpack", "save", "scan", "join", "connect", "send", "recv", "restore"}
Steps     == Prompts \cup Attempt \cup {"flag", "load", "truncate", "encrypt", "header", "body"}

Init ==
  /\ op = "none" /\ at = "exited" /\ result = "none" /\ tries = 0
  /\ entry = NoCreds /\ user_key = NoKey /\ offset = "start"
  /\ attempt = 0 /\ resend_counter = 0 /\ after = "none"
  /\ wfs = [ssid |-> "none", uuid |-> "none"]
  /\ file \in {Absent} \cup {Blob(k, c) : k \in Keys, c \in Formed}
  /\ echo = TRUE /\ net = "home"
  /\ ap \in {"up", "down"} /\ code_ok = FALSE /\ conns = <<>> /\ to_pc = <<>>
  /\ last = file.creds /\ accepted = Unpacked(NoCreds) /\ owed = FALSE /\ strayed = FALSE
  /\ runs = 0 /\ failures = 0 /\ incidents = 0

Fails(layer) == layer \in MayFail /\ failures < MaxFailures
Fault(layer) == Fails(layer) /\ failures' = failures + 1
Incident     == incidents < MaxIncidents /\ incidents' = incidents + 1
Bounded      == UNCHANGED <<runs, incidents>>

Go(step) == at' = step /\ UNCHANGED result
Quit(r)  == at' = "exited" /\ result' = r

----------------------------------------------------------------------------
(* main: the file is made if there is none, and the verb dispatched *)

Ask(p) == Go(p) /\ tries' = Reread

(* A populated file is unlocked with its key; a new one gets a confirmed key. *)
AskKey == Ask(IF file.kind = "empty" THEN "new_key" ELSE "key")

First(o) ==
  CASE o = "set"   -> Ask("ssid")
    [] o = "reset" -> IF file'.kind = "empty" THEN Quit("CRED_FILE_EMPTY") /\ UNCHANGED tries
                                              ELSE Ask("key")
    [] o = "clear" -> Go("truncate") /\ UNCHANGED tries
    [] o = "pair"  -> \/ Ask("key")
                      \/ Quit("PAIRING_FORMAT") /\ UNCHANGED tries

Fresh ==
  /\ entry' = NoCreds /\ user_key' = NoKey /\ offset' = "start"
  /\ attempt' = 0 /\ resend_counter' = 0 /\ after' = "none"
  /\ wfs' = [ssid |-> "none", uuid |-> "none"]

(* The user's shell puts the echo back; the process starts from its          *)
(* initializers, and the code given is the one on the display or is not.     *)
Invoke(o) ==
  /\ at = "exited" /\ runs < MaxRuns /\ runs' = runs + 1
  /\ op' = o /\ echo' = TRUE
  /\ Fresh
  /\ code_ok' \in (IF o = "pair" THEN BOOLEAN ELSE {FALSE}) /\ accepted' = Unpacked(NoCreds)
  /\ \/ /\ file' = IF file.kind = "absent" THEN Empty ELSE file
        /\ First(o) /\ UNCHANGED failures
     \/ Fault("file") /\ Quit("OPEN") /\ UNCHANGED <<file, tries>>
  /\ UNCHANGED <<net, ap, conns, to_pc, last, owed, strayed, incidents>>

(* Ctrl-C, a closed terminal, a power cut: the kernel closes what is open.   *)
Mine   == conns # <<>> /\ ~conns[Len(conns)].left
HangUp == conns' = IF Mine THEN [conns EXCEPT ![Len(conns)].left = TRUE] ELSE conns

Kill ==
  /\ at # "exited" /\ Incident
  /\ Quit("killed") /\ HangUp /\ to_pc' = <<>> /\ strayed' = TRUE
  /\ Fresh /\ UNCHANGED <<op, tries, file, echo, net, ap, code_ok, last,
                           accepted, owed, runs, failures>>

----------------------------------------------------------------------------
(* Prompts *)

prompting == <<op, offset, loop, file, net, board, history>>

(* tcgetattr and tcsetattr, before a protected string is read.               *)
HideInput ==
  /\ at \in Protected /\ echo
  /\ \/ echo' = FALSE /\ UNCHANGED <<at, result, failures>>
     \/ Fault("tty") /\ Quit("TERMIOS") /\ UNCHANGED echo
  /\ Bounded /\ UNCHANGED <<prompting, tries, entry, user_key>>

Reading == at \in Prompts /\ (at \in Protected => ~echo)

(* Mutant: the failing read returns without tcsetattr.                       *)
ReadFailsInTheDark ==
  /\ Reading /\ Fault("input") /\ Quit("READ_INPUT")
  /\ Bounded /\ UNCHANGED <<prompting, tries, entry, user_key, echo>>

(* fgets fails, every line was over-long, or the echo cannot be put back.    *)
ReadFails ==
  /\ Reading /\ Fault("input") /\ Quit("READ_INPUT") /\ echo' = TRUE
  /\ Bounded /\ UNCHANGED <<prompting, tries, entry, user_key>>

(* Mutant: one more try than there are.                                      *)
TooLongOnceMore ==
  /\ Reading /\ tries' = tries - 1
  /\ IF tries >= 0 THEN UNCHANGED <<at, result, echo>>
                   ELSE Quit("INPUT_TOO_LONG") /\ echo' = TRUE
  /\ Bounded /\ UNCHANGED <<prompting, entry, user_key, failures>>

TooLong ==
  /\ Reading /\ tries' = tries - 1
  /\ IF tries > 1 THEN UNCHANGED <<at, result, echo>>
                  ELSE Quit("INPUT_TOO_LONG") /\ echo' = TRUE
  /\ Bounded /\ UNCHANGED <<prompting, entry, user_key, failures>>

EchoStuck ==
  /\ Reading /\ at \in Protected /\ Fault("tty") /\ Quit("TERMIOS")
  /\ Bounded /\ UNCHANGED <<prompting, tries, entry, user_key, echo>>

Answers(p) == Reading /\ at = p /\ echo' = TRUE /\ Bounded /\ UNCHANGED prompting

TypeSsid(n) ==
  /\ Answers("ssid") /\ entry' = [entry EXCEPT !.ssid = n] /\ Ask("password")
  /\ UNCHANGED <<user_key, failures>>

TypePassword(n) ==
  /\ Answers("password") /\ Ask("flag")
  /\ \E c \in Chances(entry.ssid, n) : entry' = [entry EXCEPT !.password = n, !.chance = c]
  /\ UNCHANGED <<user_key, failures>>

(* fgetc, one character a try.  A good flag on the last try leaves the       *)
(* counter at 0, which reads as a failure; a bad one takes it past 0, which  *)
(* does not, and the blob goes without a flag.                               *)
TypeFlag(c) ==
  /\ at = "flag"
  /\ \/ /\ c \in {"0", "1"} /\ tries = 1
        /\ Quit("READ_INPUT") /\ UNCHANGED tries
     \/ /\ c \in {"0", "1"} /\ tries > 1
        /\ IF c = "1" THEN Ask("bssid") ELSE AskKey
     \/ /\ c \notin {"0", "1"}
        /\ IF tries > 1 THEN tries' = tries - 1 /\ UNCHANGED <<at, result>> ELSE AskKey
  /\ Bounded /\ UNCHANGED <<prompting, entry, user_key, echo, failures>>

(* Five colons in place will do.                                             *)
TypeBssid(b) ==
  /\ Answers("bssid")
  /\ IF b = "malformed" THEN Quit("BSSID_FORMAT") /\ UNCHANGED <<tries, entry>>
                        ELSE AskKey /\ entry' = [entry EXCEPT !.bssid = "set"]
  /\ UNCHANGED <<user_key, failures>>

TypeKey(k) ==
  /\ Answers("key") /\ user_key' = k /\ tries' = 0
  /\ Go(IF op = "set" THEN "truncate" ELSE "load")
  /\ UNCHANGED <<entry, failures>>

TypeNewKey(k) ==
  /\ Answers("new_key") /\ user_key' = k /\ Ask("confirm")
  /\ UNCHANGED <<entry, failures>>

ConfirmKey(k) ==
  /\ Answers("confirm") /\ tries' = 0
  /\ IF k = user_key THEN Go("encrypt") ELSE Quit("KEY_MISMATCH")
  /\ UNCHANGED <<entry, user_key, failures>>

----------------------------------------------------------------------------
(* The credential file *)

filing == <<op, tries, loop, echo, net, board, accepted, owed, strayed>>

(* Mutant: a short read of the ciphertext goes unnoticed.                    *)
LoadsShortFile ==
  IF file.kind \in {"absent", "empty"} THEN "FILE_IO"
  ELSE IF file.kind = "blob" /\ file.key # user_key THEN "DECRYPT" ELSE "OK"

(* A file cut short ends a read; GCM refuses any key but the one it was      *)
(* written under.                                                            *)
LoadResult ==
  IF file.kind # "blob" THEN "FILE_IO"
  ELSE IF file.key # user_key THEN "DECRYPT" ELSE "OK"

LoadCreds ==
  /\ at = "load"
  /\ \/ /\ LoadResult = "OK" /\ entry' = file.creds /\ offset' = "end"
        /\ Go(IF op = "reset" THEN "truncate" ELSE "unpack") /\ UNCHANGED failures
     \/ LoadResult # "OK" /\ Quit(LoadResult) /\ UNCHANGED <<entry, offset, failures>>
     \/ (Fault("file") \/ Fault("crypto")) /\ Quit("FILE_IO") /\ UNCHANGED <<entry, offset>>
  /\ user_key' = NoKey
  /\ Bounded /\ UNCHANGED <<filing, file, last>>

(* Mutant: --reset_key does not rewind the descriptor.                       *)
TruncateInPlace ==
  /\ at = "truncate"
  /\ \/ /\ file' = Empty /\ UNCHANGED <<offset, failures>>
        /\ CASE op = "clear" -> Quit("OK") /\ UNCHANGED tries
             [] op = "set"   -> Go("encrypt") /\ UNCHANGED tries
             [] op = "reset" -> Ask("new_key")
     \/ /\ Fault("file") /\ file' \in {file, Empty}
        /\ Quit("FTRUNCATE") /\ UNCHANGED <<offset, tries>>
  /\ Bounded
  /\ UNCHANGED <<op, user_key, loop, echo, net, board, accepted, owed, strayed, entry, last>>

(* _reset_file_ for --clear_creds and before --set_creds opens the file      *)
(* again, ftruncate and lseek on the open descriptor in --reset_key.         *)
Truncate ==
  /\ at = "truncate"
  /\ \/ /\ file' = Empty /\ offset' = "start" /\ UNCHANGED failures
        /\ CASE op = "clear" -> Quit("OK") /\ UNCHANGED tries
             [] op = "set"   -> Go("encrypt") /\ UNCHANGED tries
             [] op = "reset" -> Ask("new_key")
     \/ /\ Fault("file") /\ file' \in {file, Empty}
        /\ Quit("FTRUNCATE") /\ UNCHANGED <<offset, tries>>
  /\ Bounded
  /\ UNCHANGED <<op, user_key, loop, echo, net, board, accepted, owed, strayed, entry, last>>

(* _encrypt_and_store_creds_: nothing is written before the tag is known,    *)
(* then the header, then the ciphertext.                                     *)
Encrypt ==
  /\ at = "encrypt"
  /\ \/ Go("header") /\ UNCHANGED failures
     \/ (Fault("crypto") \/ Fault("file")) /\ Quit("ENCRYPT")
  /\ Bounded /\ UNCHANGED <<filing, user_key, entry, offset, file, last>>

WriteHeader ==
  /\ at = "header"
  /\ \/ Go("body") /\ file' = Torn /\ UNCHANGED failures
     \/ Fault("file") /\ Quit("FILE_IO") /\ file' \in {file, Torn}
  /\ Bounded /\ UNCHANGED <<filing, user_key, entry, offset, last>>

(* Written at the end of the old contents, the blob would follow a hole.     *)
WriteBody ==
  /\ at = "body"
  /\ \/ /\ file' = IF offset = "start" THEN Blob(user_key, entry) ELSE Torn
        /\ last' = entry /\ Quit("OK") /\ UNCHANGED failures
     \/ Fault("file") /\ Quit("FILE_IO") /\ UNCHANGED <<file, last>>
  /\ Bounded /\ UNCHANGED <<filing, user_key, entry, offset>>

----------------------------------------------------------------------------
(* One attempt of __provision__: _do_provision_ *)

attempting == <<op, tries, memory, file, echo, runs, incidents>>
Terminal   == {"OK", "BSSID_FORMAT", "REJECTED_CRYPTO", "REJECTED_FORMAT"}

(* Mutant: the attempts are not counted.                                     *)
AttemptAgain(r) ==
  /\ resend_counter' = 0 /\ UNCHANGED attempt
  /\ IF r \in Terminal THEN Quit(r) ELSE Go("unpack")

AttemptEnds(r) ==
  /\ resend_counter' = 0
  /\ IF r \in Terminal \/ attempt + 1 = ProvisionMax
     THEN Quit(r) /\ UNCHANGED attempt
     ELSE Go("unpack") /\ attempt' = attempt + 1

(* The second step through the blob starts over instead of going on: what is *)
(* read for the flag is a character of the SSID or the password.             *)
Unpack ==
  /\ at = "unpack"
  /\ \/ entry.chance = "flag" /\ AttemptEnds("BSSID_FORMAT") /\ UNCHANGED failures
     \/ Fault("crypto") /\ AttemptEnds("ENCRYPT")
     \/ entry.chance # "flag" /\ Go("save") /\ UNCHANGED <<attempt, resend_counter, failures>>
  /\ UNCHANGED <<attempting, after, wfs, net, board, history>>

(* wfs is never cleared: what an earlier attempt saved stays where this one  *)
(* finds nothing.                                                            *)
SaveCurrentWifi ==
  /\ at = "save"
  /\ \/ /\ wfs' = [ssid |-> IF net = "none" THEN wfs.ssid ELSE net,
                   uuid |-> IF net = "none" THEN wfs.uuid ELSE net]
        /\ wfs'.ssid # "none" /\ Go("scan") /\ UNCHANGED <<attempt, resend_counter, failures>>
     \/ /\ Fault("nmcli")                              \* the UUID lookup
        /\ wfs' = [wfs EXCEPT !.ssid = IF net = "none" THEN @ ELSE net]
        /\ wfs'.ssid # "none" /\ Go("scan") /\ UNCHANGED <<attempt, resend_counter>>
     \/ net = "none" /\ wfs.ssid = "none" /\ AttemptEnds("NMCLI_SAVE") /\ UNCHANGED <<wfs, failures>>
     \/ /\ Fault("nmcli") /\ AttemptEnds("NMCLI_SAVE")   \* either popen
        /\ wfs' \in {wfs, [wfs EXCEPT !.ssid = IF net = "none" THEN @ ELSE net]}
  /\ UNCHANGED <<attempting, after, net, board, history>>

(* Rescan, and look for the board among what the scan found.                 *)
FindAp ==
  /\ at = "scan"
  /\ \/ ap # "down" /\ Go("join") /\ UNCHANGED <<attempt, resend_counter, failures>>
     \/ ap = "down" /\ AttemptEnds("NMCLI_AP_NOT_FOUND") /\ UNCHANGED failures
     \/ Fault("nmcli") /\ AttemptEnds("NMCLI_SCAN")
  /\ UNCHANGED <<attempting, after, wfs, net, board, history>>

(* A join that fails may still have taken the PC off its network.            *)
ConnectToEspAp ==
  /\ at = "join"
  /\ \/ /\ ap # "down" /\ net' = "esp" /\ owed' = TRUE
        /\ Go("connect") /\ UNCHANGED <<attempt, resend_counter, failures>>
     \/ /\ \/ ap = "down" /\ UNCHANGED failures
           \/ Fault("nmcli")
        /\ net' \in {net, "none"} /\ owed' = (owed \/ net' # net)
        /\ AttemptEnds("NMCLI_CONNECT")
  /\ UNCHANGED <<attempting, after, wfs, board, last, accepted, strayed>>

(* Every other way out closes the socket and restores the network first.     *)
Restoring(r) == Go("restore") /\ after' = r /\ HangUp /\ to_pc' = <<>>

CreateTcpClient ==
  /\ at = "connect"
  /\ \/ /\ net = "esp" /\ ap = "up" /\ Go("send")
        /\ conns' = Append(conns, [pkts |-> <<>>, left |-> FALSE])
        /\ to_pc' = <<>> /\ UNCHANGED <<after, failures>>
     \/ ~(net = "esp" /\ ap = "up") /\ Restoring("CONNECT") /\ UNCHANGED failures
     \/ Fault("socket") /\ Restoring("CONNECT")
  /\ UNCHANGED <<attempting, attempt, resend_counter, wfs, net, ap, code_ok, history>>

(* A send to a peer that is gone fails, or only the next receive will tell.  *)
Linked == Mine /\ net = "esp"

Send ==
  /\ at = "send"
  /\ \/ resend_counter = ResendMax /\ Restoring("PROV_RETRIES_EXHAUSTED") /\ UNCHANGED failures
     \/ /\ resend_counter < ResendMax /\ Go("recv")
        /\ conns' = IF Linked THEN [conns EXCEPT ![Len(conns)].pkts = Append(@, Unpacked(entry))] ELSE conns
        /\ UNCHANGED <<after, to_pc, failures>>
     \/ /\ resend_counter < ResendMax /\ ~Linked
        /\ Restoring("SEND") /\ UNCHANGED failures
  /\ UNCHANGED <<attempting, attempt, resend_counter, wfs, net, ap, code_ok, history>>

(* Mutant: the early return of a failed receive skips the restore.           *)
RecvFailsAway ==
  /\ at = "recv"
  /\ \/ to_pc = <<>> /\ ~Linked /\ UNCHANGED failures
     \/ Fault("socket")
  /\ AttemptEnds("RECV") /\ HangUp /\ to_pc' = <<>>
  /\ UNCHANGED <<attempting, after, wfs, net, ap, code_ok, history>>

(* __recv_exact__ ends without an acknowledgement: the peer closed, or a run *)
(* of timeouts that asks for a resend.                                       *)
RecvFails ==
  /\ at = "recv"
  /\ \/ to_pc = <<>> /\ ~Linked /\ UNCHANGED failures
     \/ Fault("socket")
  /\ Restoring("RECV")
  /\ UNCHANGED <<attempting, attempt, resend_counter, wfs, net, ap, code_ok, history>>

RecvTimeout ==
  /\ at = "recv" /\ resend_counter' = resend_counter + 1 /\ Go("send")
  /\ UNCHANGED <<attempting, attempt, after, wfs, net, board, history, failures>>

(* Mutant: whatever is not a refusal counts as acceptance.                   *)
VerdictLax(status) ==
  CASE status = "BAD_CRYPTO" -> Restoring("REJECTED_CRYPTO") /\ UNCHANGED resend_counter
    [] status = "BAD_FORMAT" -> Restoring("REJECTED_FORMAT") /\ UNCHANGED resend_counter
    [] OTHER -> Restoring("OK") /\ UNCHANGED resend_counter

Verdict(status) ==
  CASE status = "ACCEPTED"   -> Restoring("OK") /\ UNCHANGED resend_counter
    [] status = "BAD_CRYPTO" -> Restoring("REJECTED_CRYPTO") /\ UNCHANGED resend_counter
    [] status = "BAD_FORMAT" -> Restoring("REJECTED_FORMAT") /\ UNCHANGED resend_counter
    [] OTHER -> /\ resend_counter' = resend_counter + 1 /\ Go("send")
                /\ to_pc' = Tail(to_pc) /\ UNCHANGED <<after, conns>>

RecvAck ==
  /\ at = "recv" /\ to_pc # <<>>
  /\ Verdict(Head(to_pc))
  /\ UNCHANGED <<attempting, attempt, wfs, net, ap, code_ok, history, failures>>

(* nmcli brings up the saved profile.  Where the socket could not be made or *)
(* the resends ran out, whether it did is not looked at.                     *)
Unchecked == {"CONNECT", "PROV_RETRIES_EXHAUSTED"}
Target    == IF wfs.uuid # "none" THEN wfs.uuid ELSE wfs.ssid

RestoreWifi ==
  /\ at = "restore" /\ owed' = FALSE
  /\ \/ /\ (Target = "esp" => ap # "down") /\ net' = Target
        /\ AttemptEnds(after) /\ UNCHANGED <<failures, strayed>>
     \/ /\ \/ Target = "esp" /\ ap = "down" /\ UNCHANGED failures
           \/ Fault("nmcli")
        /\ net' \in {net, "none"} /\ strayed' = TRUE
        /\ AttemptEnds(IF after \in Unchecked THEN after ELSE "NMCLI_RESTORE")
  /\ UNCHANGED <<attempting, after, wfs, board, last, accepted>>

----------------------------------------------------------------------------
(* The board: wifi_mgr_get_router_creds, on the connection it serves *)

tool == <<op, at, result, tries, memory, loop, file, echo>>

(* A field that fills its array has no terminator, and is refused as an      *)
(* empty one is.                                                             *)
Fits(n, size) == n > 0 /\ n < size
Judge(p) == IF ~code_ok THEN "BAD_CRYPTO"
            ELSE IF Fits(p.ssid, SsidSize) /\ Fits(p.password, PassSize) THEN "ACCEPTED" ELSE "BAD_FORMAT"

Acked(status) == to_pc' = IF Head(conns).left THEN to_pc ELSE Append(to_pc, status)

(* A packet that fails its checksum is answered and another one awaited; any *)
(* other verdict ends the connection, and accepted credentials end the       *)
(* listener too.  An answer that cannot be sent takes the acceptance back.   *)
GetRouterCreds ==
  /\ ap = "up" /\ conns # <<>> /\ Head(conns).pkts # <<>>
  /\ LET p == Head(Head(conns).pkts) IN
     \/ /\ Fault("wire") /\ Acked("CORRUPT_PKT")
        /\ conns' = [conns EXCEPT ![1].pkts = Tail(@)]
        /\ UNCHANGED <<ap, accepted>>
     \/ /\ Fault("socket") /\ conns' = Tail(conns) /\ UNCHANGED <<to_pc, ap, accepted>>
     \/ /\ Judge(p) # "ACCEPTED" /\ Acked(Judge(p)) /\ conns' = Tail(conns)
        /\ UNCHANGED <<ap, accepted, failures>>
     \/ /\ Judge(p) = "ACCEPTED" /\ Acked("ACCEPTED") /\ conns' = <<>>
        /\ accepted' = p /\ ap' = "leaving" /\ UNCHANGED failures
  /\ Bounded /\ UNCHANGED <<tool, net, code_ok, last, owed, strayed>>

(* The peer closed, or its 50 receive timeouts passed.                       *)
PeerGone ==
  /\ ap = "up" /\ conns # <<>> /\ Head(conns).pkts = <<>>
  /\ conns' = Tail(conns)
  /\ UNCHANGED <<tool, net, ap, code_ok, to_pc, history, bounds>>

(* The access point goes, and with it whoever is on it.                      *)
LoseAp == net' = (IF net = "esp" THEN "none" ELSE net) /\ to_pc' = <<>> /\ conns' = <<>>

ApStop ==
  /\ ap = "leaving" /\ ap' = "down" /\ LoseAp
  /\ UNCHANGED <<tool, code_ok, history, bounds>>

(* A power cycle, or credentials that did not work: a new code is shown.     *)
ApRestart ==
  /\ Incident /\ ap' = "up" /\ code_ok' = FALSE /\ LoseAp
  /\ UNCHANGED <<tool, history, runs, failures>>

(* NetworkManager finds the user's network again by itself.                  *)
AutoConnect ==
  /\ net = "none" /\ net' = "home"
  /\ UNCHANGED <<tool, board, history, bounds>>

----------------------------------------------------------------------------
UserTypes ==
  \/ \E n \in SsidLengths : TypeSsid(n)
  \/ \E n \in PassLengths : TypePassword(n)
  \/ \E c \in {"0", "1", "other"} : TypeFlag(c)
  \/ \E b \in {"colons", "malformed"} : TypeBssid(b)
  \/ \E k \in Keys : TypeKey(k) \/ TypeNewKey(k) \/ ConfirmKey(k)

Provisioning ==
  \/ Unpack \/ SaveCurrentWifi \/ FindAp \/ ConnectToEspAp \/ CreateTcpClient
  \/ Send \/ RecvFails \/ RecvTimeout \/ RecvAck \/ RestoreWifi

Next ==
  \/ \E o \in Ops : Invoke(o)
  \/ Kill
  \/ HideInput \/ ReadFails \/ TooLong \/ EchoStuck \/ UserTypes
  \/ LoadCreds \/ Truncate \/ Encrypt \/ WriteHeader \/ WriteBody
  \/ Provisioning
  \/ GetRouterCreds \/ PeerGone \/ ApStop \/ ApRestart \/ AutoConnect

Spec == Init /\ [][Next]_vars

(* The tool runs on while it waits for nobody: every receive of an attempt   *)
(* times out, and so does every nmcli call.                                  *)
FairSpec == Spec /\ WF_vars(Provisioning)

----------------------------------------------------------------------------
TypeOK ==
  /\ op \in Ops \cup {"none"} /\ at \in Steps \cup {"exited"} /\ tries \in 0 .. Reread
  /\ entry \in Creds /\ user_key \in Keys \cup {NoKey} /\ offset \in {"start", "end"}
  /\ attempt \in 0 .. ProvisionMax - 1 /\ resend_counter \in 0 .. ResendMax
  /\ wfs \in [ssid : {"none", "home", "esp"}, uuid : {"none", "home", "esp"}]
  /\ file.kind \in {"absent", "empty", "torn", "blob"} /\ file.creds \in Creds
  /\ echo \in BOOLEAN /\ net \in {"home", "esp", "none"}
  /\ ap \in {"up", "leaving", "down"} /\ code_ok \in BOOLEAN
  /\ \A i \in DOMAIN conns : conns[i].left \in BOOLEAN

(* However a prompt ends, the shell gets its echo back: only a terminal that *)
(* refuses, or a kill, leaves it off (_read_protected_string_).              *)
EchoComesBack ==
  at = "exited" /\ result \notin {"TERMIOS", "killed"} => echo

(* --set_creds and --reset_key that end well leave a file that opens, with   *)
(* the key just given, to the credentials typed or kept.                     *)
FinishedStoreIsReadable ==
  at = "exited" /\ op \in {"set", "reset"} /\ result = "OK"
    => file = Blob(user_key, entry) /\ entry = last

(* Whatever writes were cut short and keys mistyped since, what an attempt   *)
(* has put on its connection is the network and the password last stored     *)
(* whole.                                                                    *)
SameNetwork(p, c) == p.ssid = c.ssid /\ p.password = c.password
Sending == IF Mine THEN conns[Len(conns)].pkts ELSE <<>>
SendsWhatWasStored == \A i \in DOMAIN Sending : SameNetwork(Sending[i], last)

(* A run that reports success has had the board accept the network and the   *)
(* password it loaded, over whatever resends, late answers and earlier       *)
(* connections.                                                              *)
SuccessMeansDelivered ==
  at = "exited" /\ op = "pair" /\ result = "OK" => SameNetwork(accepted, entry)

(* A run that reports success leaves the PC on the network it was on, also   *)
(* after failed attempts, as long as nmcli did not fail to restore it.       *)
SuccessRestores ==
  at = "exited" /\ op = "pair" /\ result = "OK" /\ ~strayed => net = "home"

(* A run that had joined the board's access point has tried to restore the   *)
(* network before it exits, however the session went (__restore_wifi__,      *)
(* "every exit path"; a join that fails is not followed by a restore).       *)
Sessions == {"OK", "REJECTED_CRYPTO", "REJECTED_FORMAT", "CONNECT", "SEND", "RECV",
             "PROV_RETRIES_EXHAUSTED", "NMCLI_RESTORE"}
RestoredAfterSession == at = "exited" /\ op = "pair" /\ result \in Sessions => ~owed

(* A provisioning run ends by itself, whatever the board and nmcli do.       *)
AttemptsEnd == at \in Attempt ~> at = "exited"

----------------------------------------------------------------------------
(* "SSID \0 password \0 bssid_set \0 [ BSSID \0 ]": the address that was      *)
(* stored is the one that is sent.  It never is.                             *)
SendsStoredBssid == \A i \in DOMAIN Sending : Sending[i].bssid = last.bssid
====
