---- MODULE ApProvisionProofs ----
(***************************************************************************)
(* Theorems about ApProvision, for every set of keys and lengths, every    *)
(* retry budget, any number of runs, failing calls, kills and restarts of  *)
(* the board.                                                              *)
(***************************************************************************)
EXTENDS ApProvision, TLAPS

Packet     == [ssid : 0 .. SsidSize, password : 0 .. PassSize, bssid : {"unset", "other"}]
Connection == [pkts : Seq(Packet), left : BOOLEAN]
Status     == {"ACCEPTED", "BAD_CRYPTO", "BAD_FORMAT", "CORRUPT_PKT"}
File       == [kind : {"absent", "empty", "torn", "blob"}, key : Keys \cup {NoKey}, creds : Creds]

(* TypeOK says enough of the counters for a reader; that a prompt is never   *)
(* asked without a try left, and nothing is received once the resends are    *)
(* used up, is what keeps them in their ranges.                              *)
Typed ==
  /\ TypeOK
  /\ file \in File /\ conns \in Seq(Connection) /\ to_pc \in Seq(Status)
  /\ at \in Prompts \cup {"flag"} => tries > 0
  /\ at = "recv" => resend_counter < ResendMax

----------------------------------------------------------------------------
(* Which verb takes a run through which step *)

(* A verb goes its own way through the steps, and writes only from the start *)
(* of the file: a load leaves its descriptor at the end, and what truncates  *)
(* the file rewinds it.                                                      *)
Route ==
  /\ at \in {"ssid", "password", "flag", "bssid"} => op = "set"
  /\ at = "key" => op \in {"set", "reset", "pair"}
  /\ at \in {"new_key", "confirm", "encrypt", "header", "body"} => op \in {"set", "reset"}
  /\ at = "load" => op \in {"reset", "pair"}
  /\ at = "truncate" => op \in {"set", "reset", "clear"}
  /\ at \in Attempt => op = "pair"
  /\ at \notin {"truncate", "exited"} \cup Attempt => offset = "start"

LEMMA AttemptEnding ==
  \A r : AttemptEnds(r) => (at' = "exited" /\ result' = r) \/ at' = "unpack"
BY DEF AttemptEnds, Quit, Go

(* An attempt's step leads to another, or to the end of the run, and leaves  *)
(* the verb and the tool's memory alone.                                     *)
LEMMA AttemptStays ==
  ASSUME Provisioning
  PROVE  /\ at \in Attempt /\ at' \in Attempt \cup {"exited"}
         /\ UNCHANGED <<op, tries, memory, file, echo, last, accepted>>
<1>1. UNCHANGED <<op, tries, memory, file, echo, last, accepted>>
  BY DEF Provisioning, Unpack, SaveCurrentWifi, FindAp, ConnectToEspAp, CreateTcpClient, Send,
     RecvFails, RecvTimeout, RecvAck, RestoreWifi, attempting, history
<1>2. CASE Unpack \/ SaveCurrentWifi \/ FindAp \/ ConnectToEspAp
  BY <1>1, <1>2, AttemptEnding DEF Unpack, SaveCurrentWifi, FindAp, ConnectToEspAp, Go, Attempt
<1>3. CASE CreateTcpClient \/ Send \/ RecvFails \/ RecvTimeout
  BY <1>1, <1>3 DEF CreateTcpClient, Send, RecvFails, RecvTimeout, Restoring, Go, Attempt
<1>4. CASE RecvAck
  BY <1>1, <1>4 DEF RecvAck, Verdict, Restoring, Go, Attempt
<1>5. CASE RestoreWifi
  BY <1>1, <1>5, AttemptEnding DEF RestoreWifi, Attempt
<1>. QED  BY <1>1, <1>2, <1>3, <1>4, <1>5 DEF Provisioning

LEMMA BoardStays ==
  ASSUME GetRouterCreds \/ PeerGone \/ ApStop \/ ApRestart \/ AutoConnect
  PROVE  UNCHANGED <<tool, last>>
BY DEF GetRouterCreds, PeerGone, ApStop, ApRestart, AutoConnect, history

LEMMA Invoked ==
  ASSUME NEW o \in Ops, Invoke(o)
  PROVE  /\ op' = o /\ echo' = TRUE /\ Fresh
         /\ \/ at' = "exited" /\ result' # "OK" /\ UNCHANGED tries
            \/ at' = "truncate" /\ o = "clear" /\ UNCHANGED <<tries, result>>
            \/ at' = "ssid" /\ o = "set" /\ tries' = Reread /\ UNCHANGED result
            \/ at' = "key" /\ o \in {"reset", "pair"} /\ tries' = Reread /\ UNCHANGED result
<1>1. (First(o) \/ (Quit("OPEN") /\ UNCHANGED tries)) /\ o \in {"set", "reset", "clear", "pair"}
  BY ConstantsAssumption DEF Invoke
<1>2. CASE o = "set"
  BY <1>1, <1>2 DEF Invoke, First, Ask, Go, Quit
<1>3. CASE o = "reset"
  BY <1>1, <1>3 DEF Invoke, First, Ask, Go, Quit
<1>4. CASE o = "clear"
  BY <1>1, <1>4 DEF Invoke, First, Ask, Go, Quit
<1>5. CASE o = "pair"
  BY <1>1, <1>5 DEF Invoke, First, Ask, Go, Quit
<1>. QED  BY <1>1, <1>2, <1>3, <1>4, <1>5

(* Where what the user types leads.                                          *)
LEMMA Typing ==
  ASSUME UserTypes
  PROVE  \/ at \in Prompts \cup {"flag"} /\ at' = "exited" /\ result' # "OK" /\ tries' \in {0, tries}
         \/ at = "flag" /\ at' = "flag" /\ tries > 1 /\ tries' = tries - 1
         \/ at = "ssid" /\ at' = "password" /\ tries' = Reread
         \/ at = "password" /\ at' = "flag" /\ tries' = Reread
         \/ at \in {"flag", "bssid"} /\ at' \in {"bssid", "key", "new_key"} /\ tries' = Reread
         \/ at = "key" /\ op = "set" /\ at' = "truncate" /\ tries' = 0
         \/ at = "key" /\ op # "set" /\ at' = "load" /\ tries' = 0
         \/ at = "new_key" /\ at' = "confirm" /\ tries' = Reread
         \/ at = "confirm" /\ at' = "encrypt" /\ tries' = 0
<1>1. \A p : Ask(p) => at' = p /\ tries' = Reread
  BY DEF Ask, Go
<1>2. AskKey => at' \in {"new_key", "key"} /\ tries' = Reread
  BY <1>1 DEF AskKey
<1>3. CASE (\E n \in SsidLengths : TypeSsid(n)) \/ (\E n \in PassLengths : TypePassword(n))
  BY <1>1, <1>3 DEF TypeSsid, TypePassword, Answers
<1>4. CASE \E c \in {"0", "1", "other"} : TypeFlag(c)
  BY <1>1, <1>2, <1>4 DEF TypeFlag, Quit
<1>5. CASE \E b \in {"colons", "malformed"} : TypeBssid(b)
  BY <1>2, <1>5 DEF TypeBssid, Answers, Quit, Prompts
<1>6. CASE \E k \in Keys : TypeKey(k) \/ TypeNewKey(k) \/ ConfirmKey(k)
  BY <1>1, <1>6 DEF TypeKey, TypeNewKey, ConfirmKey, Answers, Go, Quit, Prompts, Protected
<1>. QED  BY <1>3, <1>4, <1>5, <1>6 DEF UserTypes

LEMMA RouteStep ==
  ASSUME Route, [Next]_vars
  PROVE  Route'
<1>1. CASE \E o \in Ops : Invoke(o)
  BY <1>1, Invoked DEF Route, Fresh, Attempt
<1>2. CASE Kill
  BY <1>2 DEF Kill, Quit, Route, Attempt
<1>3. CASE HideInput \/ ReadFails \/ TooLong \/ EchoStuck
  BY <1>3 DEF HideInput, ReadFails, TooLong, EchoStuck, prompting, Quit, Route, Attempt
<1>4. CASE UserTypes
  <2>1. UNCHANGED <<op, offset>>
    BY <1>4 DEF UserTypes, TypeSsid, TypePassword, TypeFlag, TypeBssid, TypeKey, TypeNewKey,
       ConfirmKey, Answers, prompting
  <2>. QED  BY <1>4, <2>1, Typing DEF Route, Attempt
<1>5. CASE LoadCreds
  BY <1>5 DEF LoadCreds, filing, Go, Quit, Route, Attempt
<1>6. CASE Truncate
  BY <1>6 DEF Truncate, Ask, Go, Quit, Route, Attempt
<1>7. CASE Encrypt \/ WriteHeader \/ WriteBody
  BY <1>7 DEF Encrypt, WriteHeader, WriteBody, filing, Go, Quit, Route, Attempt
<1>8. CASE Provisioning
  BY <1>8, AttemptStays DEF Route, memory, Attempt
<1>9. CASE GetRouterCreds \/ PeerGone \/ ApStop \/ ApRestart \/ AutoConnect
  BY <1>9, BoardStays DEF tool, memory, Route
<1>10. CASE UNCHANGED vars
  BY <1>10 DEF vars, memory, Route
<1>. QED  BY <1>1, <1>2, <1>3, <1>4, <1>5, <1>6, <1>7, <1>8, <1>9, <1>10 DEF Next

----------------------------------------------------------------------------
(* Type correctness *)

LEMMA Contents ==
  /\ NoCreds \in Creds /\ Formed \subseteq Creds
  /\ \A c \in Creds : Unpacked(c) \in Packet
  /\ {Absent, Empty, Torn} \subseteq File
  /\ \A k \in Keys \cup {NoKey}, c \in Creds : Blob(k, c) \in File
  /\ Reread \in Nat /\ Reread > 0 /\ ProvisionMax \in Nat /\ ProvisionMax > 0
  /\ ResendMax \in Nat /\ ResendMax > 0
<1>1. \A c \in {SsidSize, PassSize, Reread, ResendMax, ProvisionMax} : c \in Nat /\ c > 0
  BY ConstantsAssumption
<1>2. NoCreds \in Creds
  BY <1>1 DEF NoCreds, Creds, Chance
<1>3. Formed \subseteq Creds
  BY ConstantsAssumption DEF Creds, Formed
<1>4. \A c \in Creds : Unpacked(c) \in Packet
  BY DEF Creds, Unpacked, Packet
<1>. QED  BY <1>1, <1>2, <1>3, <1>4 DEF Absent, Empty, Torn, Blob, File

LEMMA ConnsOK ==
  ASSUME NEW s \in Seq(Connection)
  PROVE  /\ \A i \in DOMAIN s : s[i].left \in BOOLEAN /\ s[i].pkts \in Seq(Packet)
         /\ s # <<>> => Len(s) \in DOMAIN s /\ 1 \in DOMAIN s
<1>1. \A i \in DOMAIN s : s[i] \in Connection
  OBVIOUS
<1>. QED  BY <1>1 DEF Connection

LEMMA HangUpType ==
  ASSUME conns \in Seq(Connection), HangUp
  PROVE  conns' \in Seq(Connection)
<1>1. CASE Mine
  <2>1. Len(conns) \in DOMAIN conns /\ conns[Len(conns)] \in Connection
    BY <1>1, ConnsOK DEF Mine
  <2>2. [conns[Len(conns)] EXCEPT !.left = TRUE] \in Connection
    BY <2>1 DEF Connection
  <2>3. conns' = [conns EXCEPT ![Len(conns)] = [conns[Len(conns)] EXCEPT !.left = TRUE]]
    BY <1>1 DEF HangUp
  <2>. QED  BY <2>1, <2>2, <2>3
<1>2. CASE ~Mine
  BY <1>2 DEF HangUp
<1>. QED  BY <1>1, <1>2

LEMMA InitTyped == Init => Typed
<1>. SUFFICES ASSUME Init PROVE Typed
  OBVIOUS
<1>1. file \in File
  BY Contents DEF Init
<1>2. conns \in Seq(Connection) /\ to_pc \in Seq(Status)
  BY DEF Init
<1>3. file.kind \in {"absent", "empty", "torn", "blob"} /\ file.creds \in Creds
  BY <1>1 DEF File
<1>4. \A i \in DOMAIN conns : conns[i].left \in BOOLEAN
  BY DEF Init
<1>5. attempt \in 0 .. ProvisionMax - 1 /\ resend_counter \in 0 .. ResendMax /\ tries \in 0 .. Reread
  BY Contents DEF Init
<1>6. /\ op = "none" /\ at = "exited" /\ entry = NoCreds /\ user_key = NoKey /\ offset = "start"
      /\ echo = TRUE /\ net = "home" /\ ap \in {"up", "down"} /\ code_ok = FALSE
  BY DEF Init
<1>7. wfs \in [ssid : {"none", "home", "esp"}, uuid : {"none", "home", "esp"}]
  BY DEF Init
<1>. QED  BY <1>1, <1>2, <1>3, <1>4, <1>5, <1>6, <1>7, Contents DEF Typed, TypeOK, Prompts, Protected

LEMMA RunTyped ==
  ASSUME Typed, (\E o \in Ops : Invoke(o)) \/ Kill
  PROVE  Typed'
<1>1. Fresh => /\ entry' \in Creds /\ user_key' \in Keys \cup {NoKey} /\ offset' = "start"
               /\ attempt' \in 0 .. ProvisionMax - 1 /\ resend_counter' \in 0 .. ResendMax
               /\ resend_counter' < ResendMax
               /\ wfs' \in [ssid : {"none", "home", "esp"}, uuid : {"none", "home", "esp"}]
  BY Contents DEF Fresh
<1>2. CASE \E o \in Ops : Invoke(o)
  <2>1. PICK o \in Ops : Invoke(o)
    BY <1>2
  <2>2. file' \in File
    BY <2>1, Contents DEF Invoke, Typed
  <2>3. /\ at' \in {"ssid", "key", "truncate", "exited"}
        /\ tries' \in 0 .. Reread
        /\ at' \in {"ssid", "key"} => tries' > 0
    <3>1. tries \in 0 .. Reread /\ Reread \in Nat /\ Reread > 0
      BY Contents DEF Typed, TypeOK
    <3>2. \/ at' \in {"truncate", "exited"} /\ tries' = tries
          \/ at' \in {"ssid", "key"} /\ tries' = Reread
      BY <2>1, Invoked
    <3>. QED  BY <3>1, <3>2
  <2>4. /\ UNCHANGED <<net, ap, conns, to_pc>> /\ op' = o /\ echo' = TRUE /\ code_ok' \in BOOLEAN
        /\ Fresh
    BY <2>1 DEF Invoke
  <2>. QED  BY <1>1, <2>2, <2>3, <2>4 DEF Typed, TypeOK, File, Steps, Prompts, Protected
<1>3. CASE Kill
  <2>1. conns' \in Seq(Connection) /\ to_pc' \in Seq(Status) /\ Fresh /\ at' = "exited"
    BY <1>3, HangUpType DEF Kill, Quit, Typed
  <2>2. UNCHANGED <<op, tries, file, echo, net, ap, code_ok>>
    BY <1>3 DEF Kill
  <2>. QED  BY <1>1, <2>1, <2>2, ConnsOK DEF Typed, TypeOK, Prompts, Protected
<1>. QED  BY <1>2, <1>3

LEMMA PromptTyped ==
  ASSUME Typed, HideInput \/ ReadFails \/ TooLong \/ EchoStuck \/ UserTypes
  PROVE  Typed'
<1>1. UNCHANGED <<op, offset, attempt, resend_counter, wfs, file, net, ap, code_ok, conns, to_pc>>
  BY DEF HideInput, ReadFails, TooLong, EchoStuck, UserTypes, TypeSsid, TypePassword, TypeFlag,
     TypeBssid, TypeKey, TypeNewKey, ConfirmKey, Answers, prompting, loop, board
<1>2. at \in Prompts \cup {"flag"} /\ tries \in 1 .. Reread /\ Reread \in Nat \ {0}
  <2>1. at \in Prompts \cup {"flag"}
    BY DEF HideInput, ReadFails, TooLong, EchoStuck, UserTypes, TypeSsid, TypePassword, TypeFlag,
       TypeBssid, TypeKey, TypeNewKey, ConfirmKey, Answers, Reading, Prompts
  <2>. QED  BY <2>1, Contents DEF Typed, TypeOK
<1>5. /\ at' \in Steps \cup {"exited"} /\ at' # "recv" /\ tries' \in 0 .. Reread
      /\ at' \in Prompts \cup {"flag"} => tries' > 0
  <2>1. CASE HideInput \/ ReadFails \/ EchoStuck
    BY <1>2, <2>1 DEF HideInput, ReadFails, EchoStuck, Reading, Go, Quit, Steps, Prompts, Protected
  <2>2. CASE TooLong
    BY <1>2, <2>2 DEF TooLong, Go, Quit, Steps, Prompts, Protected
  <2>3. CASE UserTypes
    BY <1>2, <2>3, Typing DEF Steps, Prompts, Protected
  <2>. QED  BY <2>1, <2>2, <2>3
<1>6. entry' \in Creds /\ user_key' \in Keys \cup {NoKey} /\ echo' \in BOOLEAN
  <2>1. entry \in Creds /\ user_key \in Keys \cup {NoKey} /\ echo \in BOOLEAN
    BY DEF Typed, TypeOK
  <2>2. /\ \A n \in SsidLengths : [entry EXCEPT !.ssid = n] \in Creds
        /\ \A n \in PassLengths : \A c \in Chances(entry.ssid, n) :
             [entry EXCEPT !.password = n, !.chance = c] \in Creds
        /\ [entry EXCEPT !.bssid = "set"] \in Creds
    <3>1. \A n : Chances(entry.ssid, n) \subseteq Chance
      BY DEF Chances, Chance
    <3>. QED  BY <2>1, <3>1, ConstantsAssumption DEF Creds
  <2>3. CASE HideInput \/ ReadFails \/ TooLong \/ EchoStuck
    BY <2>1, <2>3 DEF HideInput, ReadFails, TooLong, EchoStuck
  <2>4. CASE UserTypes
    <3>1. CASE \/ \E n \in SsidLengths : TypeSsid(n)
               \/ \E n \in PassLengths : TypePassword(n)
      BY <2>1, <2>2, <3>1 DEF TypeSsid, TypePassword, Answers
    <3>2. CASE \E c \in {"0", "1", "other"} : TypeFlag(c)
      <4>1. UNCHANGED <<entry, user_key, echo>>
        BY <3>2 DEF TypeFlag
      <4>. QED  BY <2>1, <4>1
    <3>3. CASE \E b \in {"colons", "malformed"} : TypeBssid(b)
      <4>1. /\ entry' = entry \/ entry' = [entry EXCEPT !.bssid = "set"]
            /\ user_key' = user_key /\ echo' = TRUE
        BY <3>3 DEF TypeBssid, Answers
      <4>. QED  BY <2>1, <2>2, <4>1
    <3>4. CASE \E k \in Keys : TypeKey(k) \/ TypeNewKey(k) \/ ConfirmKey(k)
      BY <2>1, <3>4 DEF TypeKey, TypeNewKey, ConfirmKey, Answers
    <3>. QED  BY <2>4, <3>1, <3>2, <3>3, <3>4 DEF UserTypes
  <2>. QED  BY <2>3, <2>4
<1>. QED  BY <1>1, <1>5, <1>6 DEF Typed, TypeOK

LEMMA FileTyped ==
  ASSUME Typed, Route, LoadCreds \/ Truncate \/ Encrypt \/ WriteHeader \/ WriteBody
  PROVE  Typed'
<1>1. UNCHANGED <<op, attempt, resend_counter, wfs, echo, net, ap, code_ok, conns, to_pc>>
  BY DEF LoadCreds, Truncate, Encrypt, WriteHeader, WriteBody, filing, loop, board
<1>2. /\ file \in File /\ file.creds \in Creds /\ entry \in Creds /\ user_key \in Keys \cup {NoKey}
      /\ tries \in 0 .. Reread /\ Reread \in Nat \ {0}
  BY Contents DEF Typed, TypeOK, File
<1>3. file' \in File
  BY <1>2, Contents DEF LoadCreds, Truncate, Encrypt, WriteHeader, WriteBody, filing
<1>4. entry' \in Creds /\ user_key' \in Keys \cup {NoKey} /\ offset' \in {"start", "end"}
  BY <1>2 DEF LoadCreds, Truncate, Encrypt, WriteHeader, WriteBody, Typed, TypeOK
<1>5. \/ at' \in {"exited", "truncate", "unpack", "encrypt", "header", "body"} /\ tries' = tries
      \/ at' = "new_key" /\ tries' = Reread
  <2>1. CASE LoadCreds
    BY <2>1 DEF LoadCreds, Go, Quit, filing
  <2>2. CASE Truncate
    BY <2>2 DEF Truncate, Ask, Go, Quit, Route
  <2>3. CASE Encrypt \/ WriteHeader \/ WriteBody
    BY <2>3 DEF Encrypt, WriteHeader, WriteBody, Go, Quit, filing
  <2>. QED  BY <2>1, <2>2, <2>3
<1>6. /\ at' \in Steps \cup {"exited"} /\ at' # "recv" /\ tries' \in 0 .. Reread
      /\ at' \in Prompts \cup {"flag"} => tries' > 0
  BY <1>2, <1>5 DEF Steps, Prompts, Protected, Attempt
<1>. QED  BY <1>1, <1>3, <1>4, <1>6 DEF Typed, TypeOK, File

LEMMA EndsTyped ==
  ASSUME Typed
  PROVE  \A r : AttemptEnds(r) => attempt' \in 0 .. ProvisionMax - 1 /\ resend_counter' = 0
<1>1. attempt \in 0 .. ProvisionMax - 1 /\ ProvisionMax \in Nat
  BY Contents DEF Typed, TypeOK
<1>. QED  BY <1>1 DEF AttemptEnds

LEMMA SentType ==
  ASSUME conns \in Seq(Connection), conns # <<>>, NEW i \in DOMAIN conns,
         NEW ps \in Seq(Packet)
  PROVE  [conns EXCEPT ![i].pkts = ps] \in Seq(Connection)
<1>1. conns[i] \in Connection
  OBVIOUS
<1>2. [conns[i] EXCEPT !.pkts = ps] \in Connection
  BY <1>1 DEF Connection
<1>. QED  BY <1>2

LEMMA EmptyType == <<>> \in Seq(Connection) /\ <<>> \in Seq(Status)
OBVIOUS

Networks == {"none", "home", "esp"}

LEMMA AttemptTyped ==
  ASSUME Typed, Provisioning
  PROVE  Typed'
<1>1. /\ UNCHANGED <<op, tries, entry, user_key, offset, file, echo>>
      /\ at' \in Steps \cup {"exited"} /\ at' \notin Prompts \cup {"flag"}
  BY AttemptStays DEF memory, Steps, Attempt, Prompts, Protected
<1>2. /\ attempt \in 0 .. ProvisionMax - 1 /\ resend_counter \in 0 .. ResendMax
      /\ ResendMax \in Nat \ {0} /\ entry \in Creds
      /\ wfs \in [ssid : Networks, uuid : Networks] /\ net \in Networks
      /\ conns \in Seq(Connection) /\ to_pc \in Seq(Status) /\ ap \in {"up", "leaving", "down"}
      /\ code_ok \in BOOLEAN
  BY Contents DEF Typed, TypeOK, Networks
<1>3. SUFFICES /\ attempt' \in 0 .. ProvisionMax - 1 /\ resend_counter' \in 0 .. ResendMax
               /\ wfs' \in [ssid : Networks, uuid : Networks] /\ net' \in Networks
               /\ conns' \in Seq(Connection) /\ to_pc' \in Seq(Status)
               /\ ap' = ap /\ code_ok' = code_ok
               /\ at' = "recv" => resend_counter' < ResendMax
  BY <1>1, <1>2, ConnsOK DEF Typed, TypeOK, Networks
<1>4. \A r : AttemptEnds(r) =>
        attempt' \in 0 .. ProvisionMax - 1 /\ resend_counter' = 0 /\ at' # "recv"
  BY EndsTyped, AttemptEnding
<1>5. \A r : Restoring(r) => conns' \in Seq(Connection) /\ to_pc' \in Seq(Status) /\ at' # "recv"
  BY <1>2, HangUpType DEF Restoring, Go
<1>6. CASE Unpack
  BY <1>2, <1>4, <1>6 DEF Unpack, Go, board
<1>7. CASE SaveCurrentWifi
  <2>1. wfs' \in [ssid : Networks, uuid : Networks]
    BY <1>2, <1>7 DEF SaveCurrentWifi
  <2>. QED  BY <1>2, <1>4, <1>7, <2>1 DEF SaveCurrentWifi, Go, board
<1>8. CASE FindAp
  BY <1>2, <1>4, <1>8 DEF FindAp, Go, board
<1>9. CASE ConnectToEspAp
  <2>1. net' \in Networks
    BY <1>2, <1>9 DEF ConnectToEspAp, Networks
  <2>. QED  BY <1>2, <1>4, <1>9, <2>1 DEF ConnectToEspAp, Go, board
<1>10. CASE CreateTcpClient
  <2>1. [pkts |-> <<>>, left |-> FALSE] \in Connection
    BY DEF Connection
  <2>2. Append(conns, [pkts |-> <<>>, left |-> FALSE]) \in Seq(Connection)
    BY <1>2, <2>1
  <2>3. UNCHANGED <<attempt, resend_counter, wfs, net, ap, code_ok>>
    BY <1>10 DEF CreateTcpClient
  <2>4. \/ /\ conns' = Append(conns, [pkts |-> <<>>, left |-> FALSE])
           /\ to_pc' = <<>> /\ at' = "send"
        \/ Restoring("CONNECT")
    BY <1>10 DEF CreateTcpClient, Go
  <2>5. conns' \in Seq(Connection) /\ to_pc' \in Seq(Status) /\ at' # "recv"
    BY <1>5, <2>2, <2>4, EmptyType
  <2>. QED  BY <1>2, <2>3, <2>5
<1>11. CASE Send
  <2>1. ASSUME Linked
        PROVE  [conns EXCEPT ![Len(conns)].pkts = Append(@, Unpacked(entry))] \in Seq(Connection)
    <3>1. conns # <<>> /\ Len(conns) \in DOMAIN conns
      BY <1>2, <2>1, ConnsOK DEF Linked, Mine
    <3>2. conns[Len(conns)].pkts \in Seq(Packet)
      BY <1>2, <3>1, ConnsOK
    <3>3. Append(conns[Len(conns)].pkts, Unpacked(entry)) \in Seq(Packet)
      BY <1>2, <3>2, Contents
    <3>4. [conns EXCEPT ![Len(conns)].pkts = Append(conns[Len(conns)].pkts, Unpacked(entry))]
            \in Seq(Connection)
      BY <1>2, <3>1, <3>3, SentType
    <3>. QED  BY <3>4
  <2>2. UNCHANGED <<attempt, resend_counter, wfs, net, ap, code_ok>>
    BY <1>11 DEF Send
  <2>3. \/ Restoring("PROV_RETRIES_EXHAUSTED") \/ Restoring("SEND")
        \/ /\ resend_counter < ResendMax /\ to_pc' = to_pc
           /\ \/ conns' = conns
              \/ Linked /\ conns' = [conns EXCEPT ![Len(conns)].pkts = Append(@, Unpacked(entry))]
    BY <1>11 DEF Send
  <2>4. conns' \in Seq(Connection) /\ to_pc' \in Seq(Status)
    BY <1>2, <1>5, <2>1, <2>3
  <2>5. at' = "recv" => resend_counter < ResendMax
    BY <1>5, <2>3
  <2>. QED  BY <1>2, <2>2, <2>4, <2>5
<1>12. CASE RecvFails
  BY <1>2, <1>5, <1>12 DEF RecvFails
<1>13. CASE RecvTimeout
  <2>1. resend_counter < ResendMax
    BY <1>13 DEF RecvTimeout, Typed
  <2>. QED  BY <1>2, <1>13, <2>1 DEF RecvTimeout, Go, board
<1>14. CASE RecvAck
  <2>1. resend_counter < ResendMax
    BY <1>14 DEF RecvAck, Typed
  <2>2. Tail(to_pc) \in Seq(Status)
    BY <1>2, <1>14 DEF RecvAck
  <2>3. \/ conns' \in Seq(Connection) /\ to_pc' \in Seq(Status) /\ UNCHANGED resend_counter
        \/ conns' = conns /\ to_pc' = Tail(to_pc) /\ resend_counter' = resend_counter + 1
    BY <1>5, <1>14 DEF RecvAck, Verdict
  <2>4. at' # "recv" /\ UNCHANGED <<attempt, wfs, net, ap, code_ok>>
    BY <1>5, <1>14 DEF RecvAck, Verdict, Go
  <2>5. conns' \in Seq(Connection) /\ to_pc' \in Seq(Status)
    BY <1>2, <2>2, <2>3
  <2>6. resend_counter' \in 0 .. ResendMax
    BY <1>2, <2>1, <2>3
  <2>. QED  BY <1>2, <2>4, <2>5, <2>6
<1>15. CASE RestoreWifi
  <2>1. net' \in Networks
    BY <1>2, <1>15 DEF RestoreWifi, Target, Networks
  <2>. QED  BY <1>2, <1>4, <1>15, <2>1 DEF RestoreWifi, board
<1>. QED  BY <1>6, <1>7, <1>8, <1>9, <1>10, <1>11, <1>12, <1>13, <1>14, <1>15 DEF Provisioning

LEMMA BoardTyped ==
  ASSUME Typed, GetRouterCreds \/ PeerGone \/ ApStop \/ ApRestart \/ AutoConnect
  PROVE  Typed'
<1>1. UNCHANGED <<op, at, tries, entry, user_key, offset, attempt, resend_counter, wfs, file, echo>>
  BY BoardStays DEF tool, memory, loop
<1>2. /\ conns \in Seq(Connection) /\ to_pc \in Seq(Status) /\ net \in Networks
      /\ ap \in {"up", "leaving", "down"} /\ code_ok \in BOOLEAN
  BY DEF Typed, TypeOK, Networks
<1>3. SUFFICES /\ conns' \in Seq(Connection) /\ to_pc' \in Seq(Status) /\ net' \in Networks
               /\ ap' \in {"up", "leaving", "down"} /\ code_ok' \in BOOLEAN
  BY <1>1, ConnsOK DEF Typed, TypeOK, Networks
<1>4. CASE GetRouterCreds
  <2>1. conns # <<>> /\ 1 \in DOMAIN conns /\ conns[1].pkts \in Seq(Packet) /\ conns[1].pkts # <<>>
    BY <1>2, <1>4, ConnsOK DEF GetRouterCreds
  <2>2. Tail(conns) \in Seq(Connection)
    BY <1>2, <2>1
  <2>3. [conns EXCEPT ![1].pkts = Tail(@)] \in Seq(Connection)
    <3>1. Tail(conns[1].pkts) \in Seq(Packet)
      BY <2>1
    <3>2. [conns EXCEPT ![1].pkts = Tail(conns[1].pkts)] \in Seq(Connection)
      BY <1>2, <2>1, <3>1, SentType
    <3>. QED  BY <3>2
  <2>4. \A status \in Status : Acked(status) => to_pc' \in Seq(Status)
    BY <1>2 DEF Acked
  <2>5. \A p : Judge(p) \in Status
    BY DEF Judge, Status
  <2>6. {"ACCEPTED", "CORRUPT_PKT"} \subseteq Status
    BY DEF Status
  <2>7. conns' \in {<<>>, Tail(conns), [conns EXCEPT ![1].pkts = Tail(@)]}
    BY <1>4 DEF GetRouterCreds
  <2>8. to_pc' = to_pc \/ \E status \in Status : Acked(status)
    BY <1>4, <2>5, <2>6 DEF GetRouterCreds
  <2>9. ap' \in {ap, "leaving"} /\ UNCHANGED <<net, code_ok>>
    BY <1>4 DEF GetRouterCreds
  <2>10. conns' \in Seq(Connection) /\ to_pc' \in Seq(Status)
    <3>1. conns' \in Seq(Connection)
      BY <2>2, <2>3, <2>7, EmptyType
    <3>. QED  BY <1>2, <2>4, <2>8, <3>1
  <2>. QED  BY <1>2, <2>9, <2>10
<1>5. CASE PeerGone
  <2>1. conns' = Tail(conns) /\ conns # <<>> /\ UNCHANGED <<to_pc, net, ap, code_ok>>
    BY <1>5 DEF PeerGone
  <2>2. conns' \in Seq(Connection)
    BY <1>2, <2>1
  <2>. QED  BY <1>2, <2>1, <2>2
<1>6. CASE ApStop \/ ApRestart
  <2>1. conns' = <<>> /\ to_pc' = <<>> /\ ap' \in {"up", "down"} /\ code_ok' \in {code_ok, FALSE}
    BY <1>6 DEF ApStop, ApRestart, LoseAp
  <2>2. net' \in Networks
    BY <1>2, <1>6 DEF ApStop, ApRestart, LoseAp, Networks
  <2>3. conns' \in Seq(Connection) /\ to_pc' \in Seq(Status)
    BY <2>1, EmptyType
  <2>. QED  BY <1>2, <2>1, <2>2, <2>3
<1>7. CASE AutoConnect
  BY <1>2, <1>7 DEF AutoConnect, board, Networks
<1>. QED  BY <1>4, <1>5, <1>6, <1>7

LEMMA TypedStep ==
  ASSUME Typed, Route, [Next]_vars
  PROVE  Typed'
<1>1. CASE UNCHANGED vars
  BY <1>1 DEF vars, memory, loop, board, Typed, TypeOK
<1>. QED  BY <1>1, RunTyped, PromptTyped, FileTyped, AttemptTyped, BoardTyped DEF Next

LEMMA RouteAlways == Spec => [](Typed /\ Route)
<1>1. Init => Typed /\ Route
  BY InitTyped DEF Init, Route, Attempt
<1>2. Typed /\ Route /\ [Next]_vars => Typed' /\ Route'
  BY TypedStep, RouteStep
<1>. QED  BY <1>1, <1>2, PTL DEF Spec

(* Every variable keeps its type and every counter its range, through        *)
(* prompts, file operations, attempts and whatever the board does meanwhile. *)
THEOREM ApTypeCorrect == Spec => []TypeOK
<1>1. Typed => TypeOK
  BY DEF Typed
<1>. QED  BY <1>1, RouteAlways, PTL

----------------------------------------------------------------------------
(* The terminal's echo *)

(* Off only while a protected string is read, and where a refusal or a kill  *)
(* ended the run there.                                                      *)
Echoing ==
  echo \/ at \in Protected \/ (at = "exited" /\ result \in {"TERMIOS", "killed"})

LEMMA EchoStep ==
  ASSUME Echoing, [Next]_vars
  PROVE  Echoing'
<1>1. CASE \E o \in Ops : Invoke(o)
  BY <1>1 DEF Invoke, Echoing
<1>2. CASE Kill
  BY <1>2 DEF Kill, Quit, Echoing
<1>3. CASE HideInput \/ EchoStuck
  BY <1>3 DEF HideInput, EchoStuck, Reading, Quit, Echoing
<1>4. CASE ReadFails \/ TooLong
  BY <1>4 DEF ReadFails, TooLong, Reading, Quit, Echoing
<1>5. CASE UserTypes
  <2>1. CASE \E c \in {"0", "1", "other"} : TypeFlag(c)
    <3>1. at = "flag" /\ echo' = echo
      BY <2>1 DEF TypeFlag
    <3>. QED  BY <3>1 DEF Echoing, Protected
  <2>2. CASE ~ \E c \in {"0", "1", "other"} : TypeFlag(c)
    BY <1>5, <2>2 DEF UserTypes, TypeSsid, TypePassword, TypeBssid, TypeKey, TypeNewKey,
       ConfirmKey, Answers, Echoing
  <2>. QED  BY <2>1, <2>2
<1>6. CASE LoadCreds \/ Truncate \/ Encrypt \/ WriteHeader \/ WriteBody
  <2>1. at \in {"load", "truncate", "encrypt", "header", "body"} /\ echo' = echo
    BY <1>6 DEF LoadCreds, Truncate, Encrypt, WriteHeader, WriteBody, filing
  <2>. QED  BY <2>1 DEF Echoing, Protected
<1>7. CASE Provisioning
  BY <1>7, AttemptStays DEF Echoing, Protected, Attempt
<1>8. CASE GetRouterCreds \/ PeerGone \/ ApStop \/ ApRestart \/ AutoConnect
  BY <1>8, BoardStays DEF tool, Echoing
<1>9. CASE UNCHANGED vars
  BY <1>9 DEF vars, Echoing
<1>. QED  BY <1>1, <1>2, <1>3, <1>4, <1>5, <1>6, <1>7, <1>8, <1>9 DEF Next

(* Whichever prompt fails, and however, the shell gets its echo back unless  *)
(* the terminal refused or the run was killed (_read_protected_string_).     *)
THEOREM EchoAlwaysBack == Spec => []EchoComesBack
<1>1. Init => Echoing
  BY DEF Init, Echoing
<1>2. Echoing => EchoComesBack
  BY DEF Echoing, EchoComesBack, Protected
<1>. QED  BY <1>1, <1>2, EchoStep, PTL DEF Spec

----------------------------------------------------------------------------
(* The credential file *)

(* Whatever opens holds the credentials stored last, an attempt has loaded   *)
(* them, and a store that ends well has just written them.                   *)
Stored ==
  /\ file.kind = "blob" => file.creds = last
  /\ at \in Attempt => entry = last
  /\ FinishedStoreIsReadable

LEMMA StoredStep ==
  ASSUME Stored, Route, [Next]_vars
  PROVE  Stored'
<1>1. ASSUME at' \notin Attempt, ~(at' = "exited" /\ result' = "OK" /\ op' \in {"set", "reset"}),
             file'.kind = "blob" => file'.creds = last'
      PROVE  Stored'
  BY <1>1 DEF Stored, FinishedStoreIsReadable
<1>2. CASE \E o \in Ops : Invoke(o)
  <2>1. at' \notin Attempt /\ ~(at' = "exited" /\ result' = "OK")
    BY <1>2, Invoked DEF Attempt
  <2>2. last' = last /\ file' \in {file, Empty}
    BY <1>2 DEF Invoke
  <2>. QED  BY <1>1, <2>1, <2>2 DEF Stored, Empty
<1>3. CASE Kill
  BY <1>1, <1>3 DEF Kill, Quit, Stored, Attempt
<1>4. CASE HideInput \/ ReadFails \/ TooLong \/ EchoStuck \/ UserTypes
  <2>1. UNCHANGED <<file, last>>
    BY <1>4 DEF HideInput, ReadFails, TooLong, EchoStuck, UserTypes, TypeSsid, TypePassword,
       TypeFlag, TypeBssid, TypeKey, TypeNewKey, ConfirmKey, Answers, prompting, history
  <2>2. CASE HideInput \/ ReadFails \/ TooLong \/ EchoStuck
    <3>1. (at' = at /\ at \in Prompts) \/ (at' = "exited" /\ result' # "OK")
      BY <2>2 DEF HideInput, ReadFails, TooLong, EchoStuck, Reading, Quit, Prompts
    <3>. QED  BY <1>1, <2>1, <3>1 DEF Stored, Attempt, Prompts, Protected
  <2>3. CASE UserTypes
    <3>1. at' \notin Attempt /\ ~(at' = "exited" /\ result' = "OK")
      BY <2>3, Typing DEF Attempt
    <3>. QED  BY <1>1, <2>1, <3>1 DEF Stored
  <2>. QED  BY <1>4, <2>2, <2>3
<1>5. CASE LoadCreds
  <2>1. UNCHANGED <<file, last>>
    BY <1>5 DEF LoadCreds
  <2>2. \/ LoadResult = "OK" /\ entry' = file.creds /\ at' # "exited"
        \/ at' = "exited" /\ result' # "OK"
    BY <1>5 DEF LoadCreds, Go, Quit
  <2>3. LoadResult = "OK" => file.kind = "blob"
    BY DEF LoadResult
  <2>4. at' \in Attempt => entry' = last'
    BY <2>1, <2>2, <2>3 DEF Stored, Attempt
  <2>. QED  BY <2>1, <2>2, <2>4 DEF Stored, FinishedStoreIsReadable
<1>6. CASE Truncate
  <2>1. last' = last /\ file' \in {file, Empty} /\ op' = op
    BY <1>6 DEF Truncate
  <2>2. at' \notin Attempt /\ (at' = "exited" /\ result' = "OK" => op = "clear")
    BY <1>6 DEF Truncate, Route, Ask, Go, Quit, Attempt
  <2>. QED  BY <1>1, <2>1, <2>2 DEF Stored, Empty
<1>7. CASE Encrypt \/ WriteHeader
  <2>1. last' = last /\ file' \in {file, Torn}
    BY <1>7 DEF Encrypt, WriteHeader
  <2>2. at' \notin Attempt /\ ~(at' = "exited" /\ result' = "OK")
    BY <1>7 DEF Encrypt, WriteHeader, Go, Quit, Attempt
  <2>. QED  BY <1>1, <2>1, <2>2 DEF Stored, Torn
<1>8. CASE WriteBody
  <2>1. offset = "start" /\ at' = "exited" /\ UNCHANGED <<user_key, entry>>
    BY <1>8 DEF WriteBody, Quit, Route, Attempt
  <2>2. CASE file' = Blob(user_key, entry) /\ last' = entry
    BY <2>1, <2>2 DEF Stored, FinishedStoreIsReadable, Blob, Attempt
  <2>3. CASE UNCHANGED <<file, last>> /\ result' = "FILE_IO"
    BY <1>1, <2>1, <2>3 DEF Stored, Attempt
  <2>. QED  BY <1>8, <2>1, <2>2, <2>3 DEF WriteBody, Quit
<1>9. CASE Provisioning
  BY <1>9, AttemptStays DEF Stored, FinishedStoreIsReadable, Route, memory
<1>10. CASE GetRouterCreds \/ PeerGone \/ ApStop \/ ApRestart \/ AutoConnect
  BY <1>10, BoardStays DEF tool, memory, Stored, FinishedStoreIsReadable
<1>11. CASE UNCHANGED vars
  BY <1>11 DEF vars, memory, history, Stored, FinishedStoreIsReadable
<1>. QED  BY <1>2, <1>3, <1>4, <1>5, <1>6, <1>7, <1>8, <1>9, <1>10, <1>11 DEF Next

LEMMA StoredAlways == Spec => []Stored
<1>1. Init => Stored
  BY DEF Init, Stored, FinishedStoreIsReadable, Attempt
<1>. QED  BY <1>1, StoredStep, RouteAlways, PTL DEF Spec

(* --set_creds and --reset_key that end well leave a file that opens, with   *)
(* the key just given, to the credentials typed or kept, over any earlier    *)
(* run that was cut short.                                                   *)
THEOREM StoreAlwaysReadable == Spec => []FinishedStoreIsReadable
<1>1. Stored => FinishedStoreIsReadable
  BY DEF Stored
<1>. QED  BY <1>1, StoredAlways, PTL

----------------------------------------------------------------------------
(* The PC's network *)

(* Until a restore fails or a run is killed, the PC is on the board's access *)
(* point only while there is a restore to come, and nothing but the user's   *)
(* network is ever saved.                                                    *)
Homeward ==
  strayed \/
  /\ at \notin {"connect", "send", "recv", "restore"} => net # "esp"
  /\ wfs.ssid \in {"none", "home"} /\ wfs.uuid \in {"none", "home"}
  /\ at \in {"scan", "join", "connect", "send", "recv", "restore"} => wfs.ssid = "home"
  /\ SuccessRestores

LEMMA HomewardAttempt ==
  ASSUME Typed, Homeward, ~strayed, Provisioning
  PROVE  Homeward'
<1>1. /\ net \in {"home", "none", "esp"} /\ op' = op
      /\ wfs.ssid \in {"none", "home"} /\ wfs.uuid \in {"none", "home"}
      /\ wfs = [ssid |-> wfs.ssid, uuid |-> wfs.uuid]
  BY AttemptStays DEF Homeward, Typed, TypeOK
<1>2. CASE Unpack
  BY <1>1, <1>2, AttemptEnding DEF Unpack, board, Go, Homeward, SuccessRestores, AttemptEnds, Quit, Terminal
<1>3. CASE SaveCurrentWifi
  <2>1. net \in {"home", "none"} /\ net' = net
    BY <1>1, <1>3 DEF SaveCurrentWifi, Homeward
  <2>2. wfs'.ssid \in {"none", "home"} /\ wfs'.uuid \in {"none", "home"}
    BY <1>1, <1>3, <2>1 DEF SaveCurrentWifi
  <2>3. \/ at' = "scan" /\ wfs'.ssid = "home"
        \/ at' = "unpack"
        \/ at' = "exited" /\ result' # "OK"
    BY <1>1, <1>3, <2>1, <2>2, AttemptEnding DEF SaveCurrentWifi, Go
  <2>. QED  BY <2>1, <2>2, <2>3 DEF Homeward, SuccessRestores
<1>4. CASE FindAp \/ ConnectToEspAp
  <2>1. wfs' = wfs /\ wfs.ssid = "home" /\ net # "esp"
    BY <1>4 DEF FindAp, ConnectToEspAp, Homeward
  <2>2. \/ at' = "join" /\ net' = net
        \/ at' = "connect"
        \/ at' = "unpack" /\ net' # "esp"
        \/ at' = "exited" /\ result' # "OK" /\ net' # "esp"
    BY <1>4, <2>1, AttemptEnding DEF FindAp, ConnectToEspAp, Go
  <2>. QED  BY <1>1, <2>1, <2>2 DEF Homeward, SuccessRestores
<1>5. CASE CreateTcpClient \/ Send \/ RecvFails \/ RecvTimeout \/ RecvAck
  <2>1. wfs' = wfs /\ wfs.ssid = "home"
    BY <1>5 DEF CreateTcpClient, Send, RecvFails, RecvTimeout, RecvAck, Homeward
  <2>2. at' \in {"send", "recv", "restore"}
    <3>1. CASE RecvAck
      BY <3>1 DEF RecvAck, Verdict, Restoring, Go
    <3>. QED  BY <1>5, <3>1 DEF CreateTcpClient, Send, RecvFails, RecvTimeout, Restoring, Go
  <2>. QED  BY <1>1, <2>1, <2>2 DEF Homeward, SuccessRestores
<1>6. CASE RestoreWifi
  <2>1. wfs' = wfs /\ Target = "home"
    BY <1>1, <1>6 DEF RestoreWifi, Target, Homeward
  <2>2. strayed' \/ net' = "home"
    BY <1>6, <2>1 DEF RestoreWifi
  <2>3. at' \in {"unpack", "exited"}
    BY <1>6, AttemptEnding DEF RestoreWifi
  <2>. QED  BY <1>1, <2>1, <2>2, <2>3 DEF Homeward, SuccessRestores
<1>. QED  BY <1>2, <1>3, <1>4, <1>5, <1>6 DEF Provisioning

LEMMA HomewardStep ==
  ASSUME Typed, Route, Homeward, [Next]_vars
  PROVE  Homeward'
<1>1. CASE strayed
  <2>1. strayed'
    BY <1>1 DEF Next, Invoke, Kill, HideInput, ReadFails, TooLong, EchoStuck, UserTypes, TypeSsid,
       TypePassword, TypeFlag, TypeBssid, TypeKey, TypeNewKey, ConfirmKey, Answers, prompting,
       LoadCreds, Truncate, Encrypt, WriteHeader, WriteBody, filing, Provisioning, Unpack,
       SaveCurrentWifi, FindAp, ConnectToEspAp, CreateTcpClient, Send, RecvFails, RecvTimeout,
       RecvAck, RestoreWifi, GetRouterCreds, PeerGone, ApStop, ApRestart, AutoConnect, history, vars
  <2>. QED  BY <2>1 DEF Homeward
<1>2. CASE ~strayed
  <2>1. ASSUME op' = op \/ at' # "exited" \/ result' # "OK", net' = net, wfs' = wfs,
               at' \notin Attempt, at \notin Attempt,
               at' = "exited" => result' # "OK" \/ op' # "pair"
        PROVE  Homeward'
    BY <1>2, <2>1 DEF Homeward, SuccessRestores, Attempt
  <2>2. CASE \E o \in Ops : Invoke(o)
    <3>1. at = "exited" /\ net' = net /\ wfs' = [ssid |-> "none", uuid |-> "none"]
      BY <2>2 DEF Invoke, Fresh
    <3>2. at' \notin Attempt /\ ~(at' = "exited" /\ result' = "OK")
      BY <2>2, Invoked DEF Attempt
    <3>. QED  BY <1>2, <3>1, <3>2 DEF Homeward, SuccessRestores, Attempt
  <2>3. CASE Kill
    BY <2>3 DEF Kill, Homeward
  <2>4. CASE HideInput \/ ReadFails \/ TooLong \/ EchoStuck
    BY <2>1, <2>4 DEF HideInput, ReadFails, TooLong, EchoStuck, Reading, prompting, loop, Quit,
       Attempt, Prompts, Protected
  <2>5. CASE UserTypes
    <3>1. UNCHANGED <<op, net, wfs>>
      BY <2>5 DEF UserTypes, TypeSsid, TypePassword, TypeFlag, TypeBssid, TypeKey, TypeNewKey,
         ConfirmKey, Answers, prompting, loop
    <3>. QED  BY <2>1, <2>5, <3>1, Typing DEF Attempt, Prompts, Protected
  <2>6. CASE LoadCreds
    <3>1. UNCHANGED <<op, net, wfs>> /\ at = "load"
      BY <2>6 DEF LoadCreds, filing, loop
    <3>2. at' \in {"truncate", "unpack"} \/ (at' = "exited" /\ result' # "OK")
      BY <2>6 DEF LoadCreds, Go, Quit
    <3>. QED  BY <1>2, <3>1, <3>2 DEF Homeward, SuccessRestores
  <2>7. CASE Truncate \/ Encrypt \/ WriteHeader \/ WriteBody
    <3>1. UNCHANGED <<op, net, wfs>> /\ at \in {"truncate", "encrypt", "header", "body"}
      BY <2>7 DEF Truncate, Encrypt, WriteHeader, WriteBody, filing, loop
    <3>2. op # "pair" /\ at' \notin Attempt
      BY <2>7, <3>1 DEF Truncate, Encrypt, WriteHeader, WriteBody, Ask, Go, Quit, Route, Attempt
    <3>. QED  BY <2>1, <3>1, <3>2 DEF Attempt
  <2>8. CASE Provisioning
    BY <1>2, <2>8, HomewardAttempt
  <2>9. CASE GetRouterCreds \/ PeerGone \/ ApStop \/ ApRestart \/ AutoConnect
    <3>1. UNCHANGED <<op, at, result, wfs>>
      BY <2>9, BoardStays DEF tool, loop
    <3>2. net' = net \/ (net = "esp" /\ net' = "none") \/ net' = "home"
      BY <2>9 DEF GetRouterCreds, PeerGone, ApStop, ApRestart, AutoConnect, LoseAp
    <3>. QED  BY <1>2, <3>1, <3>2 DEF Homeward, SuccessRestores
  <2>10. CASE UNCHANGED vars
    BY <2>10 DEF vars, loop, board, history, Homeward, SuccessRestores
  <2>. QED  BY <2>2, <2>3, <2>4, <2>5, <2>6, <2>7, <2>8, <2>9, <2>10 DEF Next
<1>. QED  BY <1>1, <1>2

(* A run that reports success leaves the PC on the network it was on, over   *)
(* any number of failed attempts (__restore_wifi__), as long as nmcli did    *)
(* not fail to restore it and no run was killed.                             *)
THEOREM SuccessAlwaysRestores == Spec => []SuccessRestores
<1>1. Init => Homeward
  BY DEF Init, Homeward, SuccessRestores
<1>2. Homeward => SuccessRestores
  BY DEF Homeward, SuccessRestores
<1>. QED  BY <1>1, <1>2, HomewardStep, RouteAlways, PTL DEF Spec

----------------------------------------------------------------------------
(* What an acceptance is worth *)

(* The tool holds the newest connection or none, has sent nothing but its    *)
(* present credentials on it, and gets answers to nothing else; an           *)
(* acceptance means that these credentials were the ones accepted, and that  *)
(* no connection is left that could be served after them.                    *)
Held ==
  /\ \A i \in DOMAIN conns : i < Len(conns) => conns[i].left
  /\ Mine => /\ at \in {"send", "recv"}
             /\ \A j \in DOMAIN conns[Len(conns)].pkts : conns[Len(conns)].pkts[j] = Unpacked(entry)
  /\ to_pc # <<>> => at \in {"send", "recv"}

Won == accepted = Unpacked(entry) /\ conns = <<>>

Accepting ==
  /\ \A j \in DOMAIN to_pc : to_pc[j] = "ACCEPTED" => Won
  /\ at = "restore" /\ after = "OK" => Won
  /\ at = "exited" /\ op = "pair" /\ result = "OK" => Won

Delivered == Held /\ Accepting

(* Once hung up, the tool holds none, whatever it held.                      *)
LEMMA HungUp ==
  ASSUME conns \in Seq(Connection), Held, HangUp
  PROVE  /\ ~Mine'
         /\ \A i \in DOMAIN conns' : i < Len(conns') => conns'[i].left
         /\ conns = <<>> => conns' = <<>>
<1>1. CASE Mine
  <2>1. conns' = [conns EXCEPT ![Len(conns)].left = TRUE] /\ conns # <<>>
    BY <1>1 DEF HangUp, Mine
  <2>2. Len(conns) \in DOMAIN conns /\ conns[Len(conns)] \in Connection
    BY <2>1, ConnsOK
  <2>3. Len(conns') = Len(conns) /\ conns'[Len(conns)].left
    BY <2>1, <2>2 DEF Connection
  <2>4. \A i \in DOMAIN conns' : i < Len(conns') => i \in DOMAIN conns /\ conns'[i] = conns[i]
    BY <2>1, <2>2, <2>3
  <2>. QED  BY <2>1, <2>3, <2>4 DEF Held, Mine
<1>2. CASE ~Mine
  BY <1>2 DEF HangUp, Held, Mine
<1>. QED  BY <1>1, <1>2

(* Away from the wire the connections hold nothing to answer, and stay so.   *)
LEMMA QuietStep ==
  ASSUME Delivered, at \notin {"send", "recv"}, UNCHANGED <<conns, to_pc>>,
         at' = "restore" /\ after' = "OK" => Won',
         at' = "exited" /\ op' = "pair" /\ result' = "OK" => Won'
  PROVE  Delivered'
<1>1. ~Mine /\ to_pc = <<>>
  BY DEF Delivered, Held
<1>2. ~Mine' /\ to_pc' = <<>>
  BY <1>1 DEF Mine
<1>3. Held'
  BY <1>2 DEF Delivered, Held
<1>4. Accepting'
  BY <1>2 DEF Accepting
<1>. QED  BY <1>3, <1>4 DEF Delivered

(* A step that hangs up and drops what was not read yet.                     *)
LEMMA RestoringStep ==
  ASSUME Typed, Delivered, HangUp, to_pc' = <<>>,
         at' = "restore" /\ after' = "OK" => Won',
         at' = "exited" /\ op' = "pair" /\ result' = "OK" => Won'
  PROVE  Delivered'
<1>1. ~Mine' /\ \A i \in DOMAIN conns' : i < Len(conns') => conns'[i].left
  BY HungUp DEF Typed, Delivered
<1>2. Held'
  BY <1>1 DEF Held
<1>3. Accepting'
  BY DEF Accepting
<1>. QED  BY <1>2, <1>3 DEF Delivered

LEMMA DeliveredWire ==
  ASSUME Typed, Delivered, CreateTcpClient \/ Send \/ RecvFails \/ RecvTimeout \/ RecvAck
  PROVE  Delivered'
<1>1. conns \in Seq(Connection) /\ to_pc \in Seq(Status) /\ UNCHANGED <<entry, accepted>>
  BY AttemptStays DEF Typed, memory, Provisioning
<1>2. ASSUME NEW r, r # "OK", Restoring(r)
      PROVE  Delivered'
  <2>1. at' = "restore" /\ after' = r /\ HangUp /\ to_pc' = <<>>
    BY <1>2 DEF Restoring, Go
  <2>. QED  BY <1>2, <2>1, RestoringStep
<1>3. CASE CreateTcpClient
  <2>1. CASE Restoring("CONNECT")
    BY <1>2, <2>1
  <2>2. CASE /\ at = "connect" /\ at' = "send" /\ to_pc' = <<>>
             /\ conns' = Append(conns, [pkts |-> <<>>, left |-> FALSE])
    <3>1. ~Mine
      BY <2>2 DEF Delivered, Held
    <3>2. \A i \in DOMAIN conns : conns[i].left
      BY <1>1, <3>1 DEF Delivered, Held, Mine
    <3>3. /\ Len(conns') = Len(conns) + 1 /\ conns'[Len(conns')] = [pkts |-> <<>>, left |-> FALSE]
          /\ \A i \in DOMAIN conns' : i < Len(conns') => i \in DOMAIN conns /\ conns'[i] = conns[i]
      BY <1>1, <2>2
    <3>4. conns'[Len(conns')].pkts = <<>>
      BY <3>3
    <3>5. Held'
      BY <2>2, <3>2, <3>3, <3>4 DEF Held
    <3>6. Accepting'
      BY <2>2 DEF Accepting
    <3>. QED  BY <3>5, <3>6 DEF Delivered
  <2>. QED  BY <1>3, <2>1, <2>2 DEF CreateTcpClient, Go
<1>4. CASE Send
  <2>1. CASE Restoring("PROV_RETRIES_EXHAUSTED") \/ Restoring("SEND")
    BY <1>2, <2>1
  <2>2. CASE at = "send" /\ at' = "recv" /\ ~Linked /\ UNCHANGED <<conns, to_pc>>
    BY <1>1, <2>2 DEF Delivered, Held, Accepting, Won, Mine
  <2>3. CASE /\ at = "send" /\ at' = "recv" /\ Linked /\ to_pc' = to_pc
             /\ conns' = [conns EXCEPT ![Len(conns)].pkts = Append(@, Unpacked(entry))]
    <3>1. /\ Mine /\ conns # <<>> /\ Len(conns) \in DOMAIN conns
          /\ conns[Len(conns)].pkts \in Seq(Packet) /\ conns[Len(conns)] \in Connection
      BY <1>1, <2>3, ConnsOK DEF Linked, Mine
    <3>2. /\ Len(conns') = Len(conns)
          /\ conns'[Len(conns)].pkts = Append(conns[Len(conns)].pkts, Unpacked(entry))
          /\ \A i \in DOMAIN conns' : i < Len(conns') => i \in DOMAIN conns /\ conns'[i] = conns[i]
      BY <1>1, <2>3, <3>1 DEF Connection
    <3>3. \A j \in DOMAIN conns[Len(conns)].pkts : conns[Len(conns)].pkts[j] = Unpacked(entry)
      BY <3>1 DEF Delivered, Held
    <3>4. \A j \in DOMAIN Append(conns[Len(conns)].pkts, Unpacked(entry)) :
            Append(conns[Len(conns)].pkts, Unpacked(entry))[j] = Unpacked(entry)
      BY <1>1, <3>1, <3>3
    <3>5. Held'
      BY <1>1, <2>3, <3>2, <3>4 DEF Delivered, Held
    <3>6. Accepting'
      BY <1>1, <2>3, <3>1 DEF Delivered, Accepting, Won
    <3>. QED  BY <3>5, <3>6 DEF Delivered
  <2>. QED  BY <1>4, <2>1, <2>2, <2>3 DEF Send, Go
<1>5. CASE RecvFails
  BY <1>2, <1>5 DEF RecvFails
<1>6. CASE RecvTimeout
  BY <1>1, <1>6 DEF RecvTimeout, Go, board, Delivered, Held, Accepting, Won, Mine
<1>7. CASE RecvAck
  <2>1. to_pc # <<>> /\ at = "recv"
    BY <1>7 DEF RecvAck
  <2>2. CASE Head(to_pc) = "ACCEPTED"
    <3>1. Won
      BY <1>1, <2>1, <2>2 DEF Delivered, Accepting
    <3>2. at' = "restore" /\ HangUp /\ to_pc' = <<>>
      BY <1>7, <2>2 DEF RecvAck, Verdict, Restoring, Go
    <3>3. conns' = <<>>
      BY <1>1, <3>1, <3>2, HungUp DEF Delivered, Won
    <3>. QED  BY <1>1, <3>1, <3>2, <3>3, RestoringStep DEF Won
  <2>3. CASE Head(to_pc) \in {"BAD_CRYPTO", "BAD_FORMAT"}
    BY <1>2, <1>7, <2>3 DEF RecvAck, Verdict
  <2>4. CASE Head(to_pc) \notin {"ACCEPTED", "BAD_CRYPTO", "BAD_FORMAT"}
    <3>1. at' = "send" /\ to_pc' = Tail(to_pc) /\ conns' = conns
      BY <1>7, <2>4 DEF RecvAck, Verdict, Go
    <3>2. \A j \in DOMAIN to_pc' : j + 1 \in DOMAIN to_pc /\ to_pc'[j] = to_pc[j + 1]
      BY <1>1, <2>1, <3>1
    <3>3. Held'
      BY <1>1, <2>1, <3>1 DEF Delivered, Held, Mine
    <3>4. Accepting'
      BY <1>1, <3>1, <3>2 DEF Delivered, Accepting, Won
    <3>. QED  BY <3>3, <3>4 DEF Delivered
  <2>. QED  BY <2>2, <2>3, <2>4
<1>. QED  BY <1>3, <1>4, <1>5, <1>6, <1>7

LEMMA LeastLength == \A n \in Nat : n >= 1 /\ ~(1 < n) => n = 1
OBVIOUS

(* An answer goes to the tool only from the connection it holds.             *)
LEMMA DeliveredServe ==
  ASSUME Typed, Delivered, GetRouterCreds
  PROVE  Delivered'
<1>1. /\ conns \in Seq(Connection) /\ to_pc \in Seq(Status) /\ conns # <<>>
      /\ 1 \in DOMAIN conns /\ Len(conns) \in DOMAIN conns /\ conns[1] \in Connection
      /\ conns[1].pkts \in Seq(Packet) /\ conns[1].pkts # <<>>
      /\ Head(conns) = conns[1] /\ Head(conns).pkts = conns[1].pkts
  <2>1. conns \in Seq(Connection) /\ to_pc \in Seq(Status) /\ conns # <<>> /\ Head(conns).pkts # <<>>
    BY DEF GetRouterCreds, Typed
  <2>2. 1 \in DOMAIN conns /\ Len(conns) \in DOMAIN conns /\ Head(conns) = conns[1]
    BY <2>1
  <2>. QED  BY <2>1, <2>2, ConnsOK
<1>2. UNCHANGED <<op, at, result, after, entry>>
  BY BoardStays DEF tool, memory, loop
<1>3. ~Won
  BY <1>1 DEF Won
<1>4. /\ \A j \in DOMAIN to_pc : to_pc[j] # "ACCEPTED"
      /\ ~(at = "restore" /\ after = "OK")
      /\ ~(at = "exited" /\ op = "pair" /\ result = "OK")
  BY <1>3 DEF Delivered, Accepting
<1>5. ~conns[1].left => Len(conns) = 1 /\ Mine /\ at \in {"send", "recv"}
  <2>1. ~conns[1].left => ~(1 < Len(conns))
    BY <1>1 DEF Delivered, Held
  <2>2. Len(conns) \in Nat /\ Len(conns) >= 1
    BY <1>1
  <2>3. ~(1 < Len(conns)) => Len(conns) = 1
    BY <2>2, LeastLength
  <2>. QED  BY <1>1, <2>1, <2>3 DEF Mine, Delivered, Held
<1>6. ASSUME NEW status, Acked(status)
      PROVE  /\ to_pc' # <<>> => at \in {"send", "recv"}
             /\ to_pc' = to_pc \/ (~conns[1].left /\ to_pc' = Append(to_pc, status))
  BY <1>1, <1>5, <1>6 DEF Acked, Delivered, Held
<1>7. ASSUME NEW status \in Status, status # "ACCEPTED", to_pc' = Append(to_pc, status) \/ to_pc' = to_pc
      PROVE  \A j \in DOMAIN to_pc' : to_pc'[j] # "ACCEPTED"
  <2>1. CASE to_pc' = Append(to_pc, status)
    <3>1. \A j \in DOMAIN to_pc' :
            (j \in DOMAIN to_pc /\ to_pc'[j] = to_pc[j]) \/ to_pc'[j] = status
      BY <1>1, <2>1
    <3>. QED  BY <1>4, <1>7, <3>1
  <2>2. CASE to_pc' = to_pc
    BY <1>4, <2>2
  <2>. QED  BY <1>7, <2>1, <2>2
<1>8. ASSUME Tail(conns) = conns'
      PROVE  /\ \A i \in DOMAIN conns' : i < Len(conns') => conns'[i].left
             /\ Mine' => at \in {"send", "recv"} /\ Len(conns') = Len(conns) - 1 /\ Mine
                         /\ conns'[Len(conns')] = conns[Len(conns)]
  <2>1. /\ Len(conns') = Len(conns) - 1
        /\ \A i \in DOMAIN conns' : i + 1 \in DOMAIN conns /\ conns'[i] = conns[i + 1]
    BY <1>1, <1>8
  <2>2. \A i \in DOMAIN conns' : i < Len(conns') => conns'[i].left
    BY <1>1, <2>1 DEF Delivered, Held
  <2>3. Mine' => Len(conns') \in DOMAIN conns' /\ Len(conns') + 1 = Len(conns)
    BY <1>1, <1>8, <2>1 DEF Mine
  <2>4. Mine' => conns'[Len(conns')] = conns[Len(conns)] /\ Mine
    BY <1>1, <2>1, <2>3 DEF Mine
  <2>. QED  BY <2>1, <2>2, <2>4 DEF Delivered, Held
<1>9. ASSUME conns' = Tail(conns), to_pc' # <<>> => at \in {"send", "recv"},
             \A j \in DOMAIN to_pc' : to_pc'[j] # "ACCEPTED"
      PROVE  Delivered'
  <2>1. Mine' => \A j \in DOMAIN conns'[Len(conns')].pkts : conns'[Len(conns')].pkts[j] = Unpacked(entry)
    BY <1>8, <1>9 DEF Delivered, Held
  <2>2. Held'
    BY <1>2, <1>8, <1>9, <2>1 DEF Held
  <2>. QED  BY <1>2, <1>4, <1>9, <2>2 DEF Delivered, Accepting
<1>10. CASE Acked("CORRUPT_PKT") /\ conns' = [conns EXCEPT ![1].pkts = Tail(@)]
  <2>1. /\ Len(conns') = Len(conns) /\ DOMAIN conns' = DOMAIN conns
        /\ conns'[1] = [conns[1] EXCEPT !.pkts = Tail(conns[1].pkts)]
        /\ \A i \in DOMAIN conns : i # 1 => conns'[i] = conns[i]
    BY <1>1, <1>10
  <2>2. conns'[1].left = conns[1].left /\ conns'[1].pkts = Tail(conns[1].pkts)
    BY <1>1, <2>1 DEF Connection
  <2>3. \A i \in DOMAIN conns' : i < Len(conns') => conns'[i].left
    BY <1>1, <2>1, <2>2 DEF Delivered, Held
  <2>4. Mine' <=> Mine
    <3>1. conns' # <<>>
      BY <1>1, <2>1
    <3>2. conns'[Len(conns')].left = conns[Len(conns)].left
      <4>1. CASE Len(conns) = 1
        BY <2>1, <2>2, <4>1
      <4>2. CASE Len(conns) # 1
        BY <1>1, <2>1, <4>2
      <4>. QED  BY <4>1, <4>2
    <3>. QED  BY <1>1, <3>1, <3>2 DEF Mine
  <2>5. \A j \in DOMAIN Tail(conns[1].pkts) :
          j + 1 \in DOMAIN conns[1].pkts /\ Tail(conns[1].pkts)[j] = conns[1].pkts[j + 1]
    BY <1>1
  <2>6. Mine' => \A j \in DOMAIN conns'[Len(conns')].pkts : conns'[Len(conns')].pkts[j] = Unpacked(entry)
    <3>1. CASE Len(conns) = 1
      <4>1. conns'[Len(conns')].pkts = Tail(conns[1].pkts) /\ conns[Len(conns)] = conns[1]
        BY <2>1, <2>2, <3>1
      <4>2. Mine => \A j \in DOMAIN conns[1].pkts : conns[1].pkts[j] = Unpacked(entry)
        BY <4>1 DEF Delivered, Held
      <4>. QED  BY <2>4, <2>5, <4>1, <4>2
    <3>2. CASE Len(conns) # 1
      BY <1>1, <2>1, <2>4, <3>2 DEF Delivered, Held
    <3>. QED  BY <3>1, <3>2
  <2>7. Mine' => at \in {"send", "recv"}
    BY <2>4 DEF Delivered, Held
  <2>8. Held'
    BY <1>2, <1>6, <1>10, <2>3, <2>6, <2>7 DEF Held
  <2>9. \A j \in DOMAIN to_pc' : to_pc'[j] # "ACCEPTED"
    BY <1>6, <1>7, <1>10 DEF Status
  <2>. QED  BY <1>2, <1>4, <2>8, <2>9 DEF Delivered, Accepting
<1>11. CASE conns' = Tail(conns) /\ to_pc' = to_pc
  BY <1>4, <1>9, <1>11 DEF Delivered, Held
<1>12. ASSUME NEW status \in Status \ {"ACCEPTED"}, Acked(status), conns' = Tail(conns)
       PROVE  Delivered'
  <2>1. \A j \in DOMAIN to_pc' : to_pc'[j] # "ACCEPTED"
    BY <1>6, <1>7, <1>12
  <2>. QED  BY <1>6, <1>9, <1>12, <2>1
<1>13. CASE /\ Acked("ACCEPTED") /\ conns' = <<>> /\ accepted' = Head(conns[1].pkts)
  <2>1. ~Mine' /\ Held'
    BY <1>2, <1>6, <1>13 DEF Held, Mine
  <2>2. CASE to_pc' = to_pc
    BY <1>2, <1>4, <2>1, <2>2 DEF Delivered, Accepting
  <2>3. CASE ~conns[1].left
    <3>1. Head(conns[1].pkts) = conns[1].pkts[1] /\ 1 \in DOMAIN conns[1].pkts
      BY <1>1
    <3>2. Won'
      BY <1>2, <1>5, <1>13, <2>3, <3>1 DEF Won, Delivered, Held
    <3>. QED  BY <2>1, <3>2 DEF Delivered, Accepting
  <2>. QED  BY <1>6, <1>13, <2>2, <2>3
<1>14. \A p : Judge(p) # "ACCEPTED" => Judge(p) \in Status \ {"ACCEPTED"}
  BY DEF Judge, Status
<1>. QED  BY <1>1, <1>10, <1>11, <1>12, <1>13, <1>14 DEF GetRouterCreds

LEMMA DeliveredBoard ==
  ASSUME Typed, Delivered, PeerGone \/ ApStop \/ ApRestart \/ AutoConnect
  PROVE  Delivered'
<1>1. UNCHANGED <<op, at, result, after, entry, accepted>>
  BY DEF PeerGone, ApStop, ApRestart, AutoConnect, tool, memory, loop, history
<1>2. CASE PeerGone
  <2>1. /\ conns \in Seq(Connection) /\ conns # <<>> /\ conns' = Tail(conns) /\ to_pc' = to_pc
    BY <1>2 DEF PeerGone, Typed
  <2>2. /\ Len(conns') = Len(conns) - 1
        /\ \A i \in DOMAIN conns' : i + 1 \in DOMAIN conns /\ conns'[i] = conns[i + 1]
    BY <2>1
  <2>3. \A i \in DOMAIN conns' : i < Len(conns') => conns'[i].left
    BY <2>1, <2>2 DEF Delivered, Held
  <2>4. Mine' => Len(conns') \in DOMAIN conns' /\ Len(conns') + 1 = Len(conns)
    BY <2>1, <2>2 DEF Mine
  <2>5. Mine' => conns'[Len(conns')] = conns[Len(conns)] /\ Mine
    BY <2>1, <2>2, <2>4 DEF Mine
  <2>6. Held'
    BY <1>1, <2>1, <2>3, <2>5 DEF Delivered, Held
  <2>7. ~Won
    BY <2>1 DEF Won
  <2>. QED  BY <1>1, <2>1, <2>6, <2>7 DEF Delivered, Accepting
<1>3. CASE ApStop \/ ApRestart
  <2>1. conns' = <<>> /\ to_pc' = <<>>
    BY <1>3 DEF ApStop, ApRestart, LoseAp
  <2>2. ~Mine' /\ Held'
    BY <1>1, <2>1 DEF Held, Mine
  <2>. QED  BY <1>1, <2>1, <2>2 DEF Delivered, Accepting, Won
<1>4. CASE AutoConnect
  BY <1>1, <1>4 DEF AutoConnect, board, Delivered, Held, Accepting, Won, Mine
<1>. QED  BY <1>2, <1>3, <1>4

LEMMA DeliveredStep ==
  ASSUME Typed, Route, Delivered, [Next]_vars
  PROVE  Delivered'
<1>1. CASE \E o \in Ops : Invoke(o)
  <2>1. at = "exited" /\ UNCHANGED <<conns, to_pc>>
    BY <1>1 DEF Invoke
  <2>2. at' # "restore" /\ ~(at' = "exited" /\ result' = "OK")
    BY <1>1, Invoked
  <2>. QED  BY <2>1, <2>2, QuietStep
<1>2. CASE Kill
  <2>1. HangUp /\ to_pc' = <<>> /\ at' = "exited" /\ result' = "killed"
    BY <1>2 DEF Kill, Quit
  <2>. QED  BY <2>1, RestoringStep
<1>3. CASE HideInput \/ ReadFails \/ TooLong \/ EchoStuck
  <2>1. /\ UNCHANGED <<conns, to_pc>> /\ at \in Prompts
        /\ at' = at \/ (at' = "exited" /\ result' # "OK")
    BY <1>3 DEF HideInput, ReadFails, TooLong, EchoStuck, Reading, prompting, board, Quit, Prompts
  <2>. QED  BY <2>1, QuietStep DEF Prompts, Protected
<1>4. CASE UserTypes
  <2>1. UNCHANGED <<conns, to_pc>>
    BY <1>4 DEF UserTypes, TypeSsid, TypePassword, TypeFlag, TypeBssid, TypeKey, TypeNewKey,
       ConfirmKey, Answers, prompting, board
  <2>. QED  BY <1>4, <2>1, Typing, QuietStep DEF Prompts, Protected
<1>5. CASE LoadCreds
  <2>1. at = "load" /\ UNCHANGED <<conns, to_pc>>
    BY <1>5 DEF LoadCreds, filing, board
  <2>2. at' # "restore" /\ (at' = "exited" => result' # "OK")
    BY <1>5 DEF LoadCreds, Go, Quit
  <2>. QED  BY <2>1, <2>2, QuietStep
<1>6. CASE Truncate \/ Encrypt \/ WriteHeader \/ WriteBody
  <2>1. /\ at \in {"truncate", "encrypt", "header", "body"} /\ UNCHANGED <<op, conns, to_pc>>
    BY <1>6 DEF Truncate, Encrypt, WriteHeader, WriteBody, filing, board
  <2>2. op # "pair" /\ at' # "restore"
    BY <1>6, <2>1 DEF Truncate, Encrypt, WriteHeader, WriteBody, Ask, Go, Quit, Route
  <2>. QED  BY <2>1, <2>2, QuietStep
<1>7. CASE Unpack \/ SaveCurrentWifi \/ FindAp \/ ConnectToEspAp
  <2>1. at \in {"unpack", "save", "scan", "join"} /\ UNCHANGED <<conns, to_pc>>
    BY <1>7 DEF Unpack, SaveCurrentWifi, FindAp, ConnectToEspAp, board
  <2>2. at' # "restore" /\ (at' = "exited" => result' # "OK")
    BY <1>7, AttemptEnding DEF Unpack, SaveCurrentWifi, FindAp, ConnectToEspAp, Go
  <2>. QED  BY <2>1, <2>2, QuietStep
<1>8. CASE CreateTcpClient \/ Send \/ RecvFails \/ RecvTimeout \/ RecvAck
  BY <1>8, DeliveredWire
<1>9. CASE RestoreWifi
  <2>1. /\ at = "restore" /\ UNCHANGED <<op, after, entry, accepted, conns, to_pc>>
        /\ at' # "restore"
    BY <1>9, AttemptEnding DEF RestoreWifi, attempting, memory, board
  <2>2. at' = "exited" /\ result' = "OK" => after = "OK"
    BY <1>9, AttemptEnding DEF RestoreWifi, Unchecked
  <2>3. at' = "exited" /\ result' = "OK" => Won'
    BY <2>1, <2>2 DEF Delivered, Accepting, Won
  <2>. QED  BY <2>1, <2>3, QuietStep
<1>10. CASE GetRouterCreds
  BY <1>10, DeliveredServe
<1>11. CASE PeerGone \/ ApStop \/ ApRestart \/ AutoConnect
  BY <1>11, DeliveredBoard
<1>12. CASE UNCHANGED vars
  BY <1>12 DEF vars, memory, loop, board, history, Delivered, Held, Accepting, Won, Mine
<1>. QED  BY <1>1, <1>2, <1>3, <1>4, <1>5, <1>6, <1>7, <1>8, <1>9, <1>10, <1>11, <1>12
          DEF Next, Provisioning

LEMMA DeliveredAlways == Spec => []Delivered
<1>1. Init => Delivered
  BY DEF Init, Delivered, Held, Accepting, Mine
<1>. QED  BY <1>1, DeliveredStep, RouteAlways, PTL DEF Spec

(* Unpacking keeps the SSID and the password; of the address it says nothing. *)
LEMMA Unpacking == \A c : SameNetwork(Unpacked(c), c)
BY DEF SameNetwork, Unpacked

(* Whatever an attempt has put on its connection carries the SSID and the    *)
(* password last stored whole, over any number of torn writes, wrong keys    *)
(* and kills (_load_and_decrypt_creds_, _do_provision_).  The address that   *)
(* was stored with them is not sent (SendsStoredBssid).                      *)
THEOREM StoredIsSent == Spec => []SendsWhatWasStored
<1>1. Stored /\ Delivered => SendsWhatWasStored
  <2>. SUFFICES ASSUME Stored, Delivered, Mine, NEW i \in DOMAIN conns[Len(conns)].pkts
                PROVE  SameNetwork(conns[Len(conns)].pkts[i], last)
    BY DEF SendsWhatWasStored, Sending
  <2>1. entry = last
    BY DEF Stored, Delivered, Held, Attempt
  <2>2. conns[Len(conns)].pkts[i] = Unpacked(entry)
    BY DEF Delivered, Held
  <2>. QED  BY <2>1, <2>2, Unpacking
<1>. QED  BY <1>1, StoredAlways, DeliveredAlways, PTL

(* A run that reports success has had the board accept the SSID and the      *)
(* password it loaded, over whatever resends, late answers, earlier          *)
(* connections and earlier runs (_do_provision_,                             *)
(* wifi_mgr_get_router_creds).                                               *)
THEOREM SuccessIsDelivery == Spec => []SuccessMeansDelivered
<1>1. Delivered => SuccessMeansDelivered
  BY Unpacking DEF Delivered, Accepting, Won, SuccessMeansDelivered
<1>. QED  BY <1>1, DeliveredAlways, PTL

----------------------------------------------------------------------------
(* The way home *)

(* A run ends with the outcome of a session in its restore, and nowhere else; *)
(* what the other steps of an attempt end with is no session's outcome.      *)
LEMMA SessionStep ==
  ASSUME RestoredAfterSession, Route, [Next]_vars
  PROVE  RestoredAfterSession'
<1>1. ASSUME at' # "exited" \/ op' # "pair" \/ result' \notin Sessions
      PROVE  RestoredAfterSession'
  BY <1>1 DEF RestoredAfterSession
<1>2. CASE \E o \in Ops : Invoke(o)
  BY <1>1, <1>2 DEF Invoke, First, Ask, Go, Quit, Sessions
<1>3. CASE Kill
  BY <1>1, <1>3 DEF Kill, Quit, Sessions
<1>4. CASE HideInput \/ ReadFails \/ TooLong \/ EchoStuck
  BY <1>1, <1>4 DEF HideInput, ReadFails, TooLong, EchoStuck, Reading, Quit, Prompts, Protected, Sessions
<1>5. CASE UserTypes
  BY <1>1, <1>5 DEF UserTypes, TypeSsid, TypePassword, TypeFlag, TypeBssid, TypeKey, TypeNewKey,
     ConfirmKey, Answers, AskKey, Ask, Go, Quit, Sessions
<1>6. CASE LoadCreds \/ Encrypt \/ WriteHeader
  BY <1>1, <1>6 DEF LoadCreds, LoadResult, Encrypt, WriteHeader, Go, Quit, Sessions
<1>7. CASE Truncate \/ WriteBody
  <2>1. op' # "pair"
    BY <1>7 DEF Truncate, WriteBody, filing, Route
  <2>. QED  BY <1>1, <2>1
<1>8. CASE Provisioning /\ ~RestoreWifi
  <2>1. at' # "exited" \/ result' \notin Sessions
    <3>1. \A r : AttemptEnds(r) => (at' = "exited" /\ result' = r) \/ at' = "unpack"
      BY AttemptEnding
    <3>2. CASE Unpack \/ SaveCurrentWifi \/ FindAp \/ ConnectToEspAp
      BY <3>1, <3>2 DEF Unpack, SaveCurrentWifi, FindAp, ConnectToEspAp, Go, Sessions
    <3>3. CASE CreateTcpClient \/ Send \/ RecvFails \/ RecvTimeout \/ RecvAck
      BY <3>3 DEF CreateTcpClient, Send, RecvFails, RecvTimeout, RecvAck, Verdict, Restoring, Go
    <3>. QED  BY <1>8, <3>2, <3>3 DEF Provisioning
  <2>. QED  BY <1>1, <2>1
<1>9. CASE RestoreWifi
  BY <1>9 DEF RestoreWifi, RestoredAfterSession
<1>10. CASE GetRouterCreds \/ PeerGone \/ ApStop \/ ApRestart \/ AutoConnect
  <2>1. UNCHANGED <<op, at, result, owed>>
    BY <1>10 DEF GetRouterCreds, PeerGone, ApStop, ApRestart, AutoConnect, tool, history
  <2>. QED  BY <2>1 DEF RestoredAfterSession
<1>11. CASE UNCHANGED vars
  BY <1>11 DEF vars, history, RestoredAfterSession
<1>. QED  BY <1>2, <1>3, <1>4, <1>5, <1>6, <1>7, <1>8, <1>9, <1>10, <1>11 DEF Next

(* However a session with the board went, whatever failed in it and however  *)
(* often, the run does not exit without having tried to put the PC back on   *)
(* its network (__restore_wifi__).                                           *)
THEOREM SessionAlwaysRestores == Spec => []RestoredAfterSession
<1>1. Init => RestoredAfterSession
  BY DEF Init, RestoredAfterSession
<1>. QED  BY <1>1, SessionStep, RouteAlways, PTL DEF Spec
====
