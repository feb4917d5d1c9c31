--------------------------- MODULE Network_proofs ----------------------------
(***************************************************************************)
(* What the network services of the client promise, for every value of the *)
(* constants: power save is put back after a stream, ports that were       *)
(* forwarded are closed again, and answers of the host arrive whole; and   *)
(* what the software path promises: whole pictures, whole replays.         *)
(***************************************************************************)
EXTENDS WifiSession, PortMapping, HttpsFetch, SoftwareDecoder, SafetyBuffer, SequenceTheorems, FiniteSetTheorems, FunctionTheorems, WellFoundedInduction, TLAPS

(***************************************************************************)
(* Wi-Fi: who may change power save, and what it is to be put back to.     *)
(***************************************************************************)

\* The ping thread, which changes power save when Wi-Fi is lost and when it is back, only exists
\* between network_me_init and network_me_shutdown.
PingInStream == screen \notin {"stream", "ending"} => pc["ping"] = "none"

\* What is to be put back after the stream, and at the exit.
StreamSaved == screen \in {"stream", "ending", "joined"} => g_orig_wlan_powersave = found.stream
LaunchSaved ==
    /\ screen = "boot" => g_launch_wlan_ps_saved = "unset" /\ powersave = found.launch
    /\ screen \notin {"boot", "exited"} => g_launch_wlan_ps_saved = found.launch

WifiIInv ==
    /\ WifiTypeOK /\ found \in [launch : PowerSaves, stream : PowerSaves]
    /\ PingInStream /\ StreamSaved /\ LaunchSaved /\ PowerSaveRestored

LEMMA WifiInitInv == WifiInit => WifiIInv
<1> SUFFICES ASSUME WifiInit PROVE WifiIInv
  OBVIOUS
<1>1. pc \in [Threads -> {"none", "top", "check", "enter", "resumed", "tail", "ended"} \cup Reconnect] /\ pc["ping"] = "none"
  BY DEF WifiInit, Threads
<1>2. found \in [launch : PowerSaves, stream : PowerSaves] /\ found.launch = powersave /\ found.stream = powersave
  BY DEF WifiInit
<1>3. WifiTypeOK
  BY <1>1, <1>2 DEF WifiInit, WifiTypeOK
<1> QED BY <1>1, <1>2, <1>3 DEF WifiInit, WifiIInv, PingInStream, StreamSaved, LaunchSaved, PowerSaveRestored

\* A thread goes on somewhere in its own code.
Places == {"none", "top", "check", "enter", "resumed", "tail", "ended"} \cup Reconnect
LEMMA GotoType ==
  ASSUME WifiTypeOK, NEW t \in Threads, NEW where \in Places, Goto(t, where)
  PROVE  /\ pc' \in [Threads -> Places]
         /\ \A u \in Threads : pc'[u] = IF u = t THEN where ELSE pc[u]
BY DEF WifiTypeOK, Goto, Places

\* A step of the radio or of an attempt to reconnect changes nothing about power save; the thread
\* that takes it exists.
LEMMA SavingAlone ==
  ASSUME WifiIInv, UNCHANGED <<screen, saving>>, pc' \in [Threads -> Places],
         pc["ping"] = "none" => pc'["ping"] = "none"
  PROVE  /\ PingInStream' /\ StreamSaved' /\ LaunchSaved' /\ PowerSaveRestored'
         /\ found' \in [launch : PowerSaves, stream : PowerSaves]
BY DEF WifiIInv, PingInStream, StreamSaved, LaunchSaved, PowerSaveRestored, saving

LEMMA AttemptStep ==
  ASSUME WifiIInv, NEW t \in Threads, Attempt(t)
  PROVE  WifiIInv'
<1> USE DEF flags, radio, resume, running, saving
<1>0. WifiTypeOK
  BY DEF WifiIInv
<1>1. PICK where \in Places : Goto(t, where)
  <2>1. \A ok \in BOOLEAN : Returned(t, ok) \in Places
    BY DEF Returned, Places
  <2> QED BY <2>1 DEF Attempt, TooSoon, Begin, IsOff, WaitGivesUp, Connect, ReinitConnect, ConnectFails, Connected,
             PollGivesUp, Give, Places, Reconnect
<1>2. pc[t] # "none" /\ UNCHANGED <<screen, saving, resume, running, stack, range>>
  BY DEF Attempt, TooSoon, Begin, IsOff, WaitGivesUp, Connect, ReinitConnect, ConnectFails, Connected, PollGivesUp
<1>3. pc' \in [Threads -> Places] /\ \A u \in Threads : pc'[u] = IF u = t THEN where ELSE pc[u]
  BY <1>0, <1>1, GotoType
<1>4. ap' \in {"off", "leaving", "joining", "up"} /\ {g_wifi_reconnecting, cooldown}' \subseteq BOOLEAN
  BY <1>0 DEF Attempt, TooSoon, Begin, IsOff, WaitGivesUp, Connect, ReinitConnect, ConnectFails, Connected, PollGivesUp,
     Give, WifiTypeOK
<1>5. WifiTypeOK'
  BY <1>0, <1>2, <1>3, <1>4 DEF WifiTypeOK, Places
<1>6. pc["ping"] = "none" => pc'["ping"] = "none"
  BY <1>2, <1>3 DEF Threads
<1> QED BY <1>2, <1>3, <1>5, <1>6, SavingAlone DEF WifiIInv

\* The ping thread: a loss turns power save on, a recovery off.
LEMMA PingStep ==
  ASSUME WifiIInv, PingThread
  PROVE  WifiIInv'
<1> USE DEF flags, radio, resume, running, saving
<1>0. WifiTypeOK /\ "ping" \in Threads
  BY DEF WifiIInv, Threads
<1>1. CASE Attempt("ping")
  BY <1>0, <1>1, AttemptStep
<1>2. CASE PingTop \/ (\E bad \in BOOLEAN : PingCheck(bad)) \/ PingResumes \/ PingTail
  <2>1. PICK where \in Places : Goto("ping", where)
    BY <1>2 DEF PingTop, PingCheck, PingResumes, PingTail, Places
  <2>2. pc' \in [Threads -> Places]
    BY <1>0, <2>1, GotoType
  <2>3. pc["ping"] # "none" /\ UNCHANGED <<screen, stack, ap, range, g_launch_wlan_ps_saved, g_orig_wlan_powersave, found>>
    BY <1>2 DEF PingTop, PingCheck, PingResumes, PingTail
  <2>4. screen \in {"stream", "ending"}
    BY <2>3 DEF WifiIInv, PingInStream
  <2>5. powersave' \in PowerSaves
    BY <1>0, <1>2, PowerSavesAssumption DEF PingTop, PingCheck, PingResumes, PingTail, WifiTypeOK
  <2>6. s_session_state' \in {"ACTIVE", "WIFI_LOST", "RECONNECTING"}
    BY <1>0, <1>2 DEF PingTop, PingCheck, PingResumes, PingTail, WifiTypeOK
  <2>7. {g_wifi_reconnecting, cooldown, late, g_keepalive_running, stack}' \subseteq BOOLEAN
    BY <1>0, <1>2 DEF PingTop, PingCheck, PingResumes, PingTail, WifiTypeOK
  <2>8. ping_running' \in BOOLEAN /\ g_stream_status' \in BOOLEAN
    <3>1. CASE PingTail
      <4>1. PICK over \in BOOLEAN : g_stream_status' = (g_stream_status \/ over) /\ ping_running' = (ping_running /\ ~over)
        BY <3>1 DEF PingTail
      <4> QED BY <1>0, <4>1 DEF WifiTypeOK
    <3>2. CASE ~PingTail
      BY <1>0, <1>2, <3>2 DEF PingTop, PingCheck, PingResumes, WifiTypeOK
    <3> QED BY <3>1, <3>2
  <2>9. WifiTypeOK'
    BY <1>0, <2>2, <2>3, <2>5, <2>6, <2>7, <2>8 DEF WifiTypeOK, Places, WifiIInv
  <2>10. PingInStream' /\ StreamSaved' /\ LaunchSaved' /\ PowerSaveRestored'
    BY <2>3, <2>4 DEF WifiIInv, PingInStream, StreamSaved, LaunchSaved, PowerSaveRestored
  <2> QED BY <2>3, <2>9, <2>10 DEF WifiIInv
<1> QED BY <1>1, <1>2 DEF PingThread

LEMMA KeepaliveStep ==
  ASSUME WifiIInv, KeepaliveThread
  PROVE  WifiIInv'
<1> USE DEF flags, radio, resume, running, saving
<1>0. WifiTypeOK /\ "keepalive" \in Threads /\ "ping" \in Threads
  BY DEF WifiIInv, Threads
<1>1. CASE Attempt("keepalive")
  BY <1>0, <1>1, AttemptStep
<1>2. CASE KeepaliveCheck \/ KeepaliveSleep
  <2>1. PICK where \in Places : Goto("keepalive", where)
    BY <1>2 DEF KeepaliveCheck, KeepaliveSleep, Places
  <2>2. pc' \in [Threads -> Places] /\ pc'["ping"] = pc["ping"]
    BY <1>0, <2>1, GotoType
  <2>3. UNCHANGED <<radio, flags, resume, running, screen, stack, saving>>
    BY <1>2 DEF KeepaliveCheck, KeepaliveSleep
  <2>4. WifiTypeOK'
    BY <1>0, <2>2, <2>3 DEF WifiTypeOK, Places
  <2> QED BY <2>2, <2>3, <2>4, SavingAlone DEF WifiIInv
<1> QED BY <1>1, <1>2 DEF KeepaliveThread

LEMMA RadioStep ==
  ASSUME WifiIInv, Radio
  PROVE  WifiIInv'
<1> USE DEF flags, radio, resume, running, saving
<1>0. WifiTypeOK
  BY DEF WifiIInv
<1>1. UNCHANGED <<pc, screen, saving, stack, running, s_session_state, g_stream_status, g_wifi_reconnecting>>
  BY DEF Radio, ApLeaves, ApJoins, ApMoves, CooldownOver, TenSeconds
<1>2. ap' \in {"off", "leaving", "joining", "up"} /\ range' \in BOOLEAN /\ {cooldown, late}' \subseteq BOOLEAN
  BY <1>0 DEF Radio, ApLeaves, ApJoins, ApMoves, CooldownOver, TenSeconds, WifiTypeOK
<1>3. WifiTypeOK'
  BY <1>0, <1>1, <1>2 DEF WifiTypeOK
<1>4. pc' \in [Threads -> Places]
  BY <1>3 DEF WifiTypeOK, Places
<1> QED BY <1>1, <1>3, <1>4, SavingAlone DEF WifiIInv

\* The main thread, one step at a time.
LEMMA MainStep ==
  ASSUME WifiIInv, WifiMain
  PROVE  WifiIInv'
<1> USE DEF flags, radio, resume, running, saving
<1>0. WifiTypeOK /\ "keepalive" \in Threads /\ "ping" \in Threads /\ found \in [launch : PowerSaves, stream : PowerSaves]
  BY DEF WifiIInv, Threads
<1>a. ASSUME KeepaliveStart
      PROVE  pc' \in [Threads -> Places] /\ pc'["ping"] = pc["ping"] /\ g_keepalive_running' \in BOOLEAN
  <2>1. CASE pc["keepalive"] = "none"
    <3>1. Goto("keepalive", "top") /\ "top" \in Places /\ g_keepalive_running' = TRUE
      BY <1>a, <2>1 DEF KeepaliveStart, Places
    <3> QED BY <1>0, <3>1, GotoType
  <2>2. CASE pc["keepalive"] # "none"
    BY <1>0, <1>a, <2>2 DEF KeepaliveStart, WifiTypeOK, Places
  <2> QED BY <2>1, <2>2
<1>b. \A t \in Threads, where \in Places :
         Goto(t, where) => pc' \in [Threads -> Places] /\ (\A u \in Threads : pc'[u] = IF u = t THEN where ELSE pc[u])
  BY <1>0, GotoType
<1>c. {"top", "none"} \subseteq Places
  BY DEF Places
<1> USE DEF WifiIInv, WifiTypeOK, PingInStream, StreamSaved, LaunchSaved, PowerSaveRestored
<1>1. CASE NetconfConnects
  <2>1. pc' \in [Threads -> Places] /\ pc'["ping"] = pc["ping"] /\ g_keepalive_running' \in BOOLEAN
    BY <1>1, <1>a DEF NetconfConnects
  <2>2. /\ screen = "boot" /\ screen' = "menu" /\ stack' = TRUE /\ ap' = "up"
        /\ g_launch_wlan_ps_saved' = powersave /\ powersave' = "off"
        /\ found' = [found EXCEPT !.launch = powersave]
        /\ UNCHANGED <<range, flags, resume, ping_running, g_orig_wlan_powersave>>
    BY <1>1 DEF NetconfConnects, wifi_launch_disable_power_save
  <2>3. found' \in [launch : PowerSaves, stream : PowerSaves] /\ found'.launch = powersave
    BY <2>2
  <2>4. WifiTypeOK'
    BY <2>1, <2>2, <2>3, PowerSavesAssumption DEF Places
  <2> QED BY <2>1, <2>2, <2>3, <2>4
<1>2. CASE NetconfFails
  BY <1>2 DEF NetconfFails
<1>3. CASE BackNavigation
  <2>1. pc' \in [Threads -> Places] /\ pc'["ping"] = pc["ping"] /\ g_keepalive_running' \in BOOLEAN
    BY <1>3, <1>a DEF BackNavigation
  <2>2. /\ screen = "menu" /\ powersave' = "off" /\ g_launch_wlan_ps_saved' = g_launch_wlan_ps_saved
        /\ UNCHANGED <<radio, flags, resume, ping_running, screen, stack, g_orig_wlan_powersave, found>>
    BY <1>3, PowerSavesAssumption DEF BackNavigation, wifi_launch_disable_power_save
  <2>3. WifiTypeOK'
    BY <2>1, <2>2, PowerSavesAssumption DEF Places
  <2> QED BY <2>1, <2>2, <2>3
<1>4. CASE StartStream
  <2>1. pc' \in [Threads -> Places]
    BY <1>4, <1>0, <1>b, <1>c DEF StartStream
  <2>2. /\ screen = "menu" /\ screen' = "stream" /\ g_orig_wlan_powersave' = powersave /\ powersave' = "off"
        /\ found' = [found EXCEPT !.stream = powersave] /\ ping_running' = TRUE
        /\ UNCHANGED <<radio, flags, resume, g_keepalive_running, stack, g_launch_wlan_ps_saved>>
    BY <1>4 DEF StartStream
  <2>3. /\ found' \in [launch : PowerSaves, stream : PowerSaves]
        /\ found'.launch = found.launch /\ found'.stream = powersave
    BY <2>2, <1>0
  <2>4. WifiTypeOK'
    BY <2>1, <2>2, <2>3, PowerSavesAssumption DEF Places
  <2> QED BY <2>2, <2>3, <2>4
<1>5. CASE EndStream
  BY <1>5 DEF EndStream
<1>6. CASE ShutdownPing
  <2>1. pc' \in [Threads -> Places] /\ pc'["ping"] = "none"
    BY <1>6, <1>0, <1>b, <1>c DEF ShutdownPing
  <2> QED BY <1>6, <2>1 DEF ShutdownPing, Places
<1>7. CASE RestorePowerSave
  <2>1. powersave' = found.stream
    BY <1>7, <1>0, PowerSavesAssumption DEF RestorePowerSave
  <2> QED BY <1>7, <1>0, <2>1 DEF RestorePowerSave
<1>8. CASE RestartKeepalive
  <2>1. pc' \in [Threads -> Places] /\ pc'["ping"] = pc["ping"]
    BY <1>8, <1>0, <1>b, <1>c DEF RestartKeepalive
  <2> QED BY <1>8, <2>1 DEF RestartKeepalive, Places
<1>9. CASE ExitBegins
  BY <1>9 DEF ExitBegins
<1>10. CASE wifi_disconnect
  <2>1. pc' \in [Threads -> Places] /\ pc'["ping"] = pc["ping"]
    BY <1>10, <1>0, <1>b, <1>c DEF wifi_disconnect
  <2>2. powersave' = found.launch
    BY <1>10, <1>0, PowerSavesAssumption DEF wifi_disconnect
  <2>3. WifiTypeOK'
    BY <1>10, <1>0, <2>1, <2>2 DEF wifi_disconnect, Places
  <2> QED BY <1>10, <2>1, <2>2, <2>3 DEF wifi_disconnect
<1>11. CASE Exited
  BY <1>11 DEF Exited, wifiVars
<1> QED BY <1>1, <1>2, <1>3, <1>4, <1>5, <1>6, <1>7, <1>8, <1>9, <1>10, <1>11 DEF WifiMain, Teardown

LEMMA WifiStep == WifiIInv /\ [WifiNext]_wifiVars => WifiIInv'
<1>1. CASE UNCHANGED wifiVars
  BY <1>1 DEF wifiVars, radio, flags, resume, running, saving, WifiIInv, WifiTypeOK, PingInStream, StreamSaved, LaunchSaved,
     PowerSaveRestored
<1> QED BY <1>1, RadioStep, PingStep, KeepaliveStep, MainStep DEF WifiNext

(***************************************************************************)
(* Whatever the ping thread did to power save when Wi-Fi was lost and came *)
(* back, in however many streams and visits to the menus, network_me_      *)
(* shutdown and wifi_disconnect put back what they found.                  *)
(***************************************************************************)
THEOREM PowerSaveIsRestored == WifiSpec => []PowerSaveRestored
<1>1. WifiIInv => PowerSaveRestored
  BY DEF WifiIInv
<1> QED BY <1>1, WifiInitInv, WifiStep, PTL DEF WifiSpec

(***************************************************************************)
(* The port mappings.  Every port that is forwarded to this client and     *)
(* whose requests were answered is recorded, and records only exist with   *)
(* an endpoint to delete them at.                                          *)
(***************************************************************************)
PortTypes ==
    /\ uStep \in {"idle", "remove", "find", "add"} /\ {uPreparing, uRetried, s_have_control_endpoint} \subseteq BOOLEAN
    /\ uTodo \in Seq(PortSet) /\ s_mapped_ports \in Seq(PortSet)
    /\ uGateway \in [PortSet -> {"free", "other", "ours"}] /\ uLost \subseteq PortSet

InRecord == {s_mapped_ports[i] : i \in DOMAIN s_mapped_ports}
OursRecorded == \A p \in PortSet \ uLost : uGateway[p] = "ours" => p \in InRecord

\* The ports still to be requested fit the table, which is empty while no endpoint is known.
RoomForAll ==
    /\ s_mapped_ports # <<>> => s_have_control_endpoint
    /\ uStep = "find" => s_mapped_ports = <<>>
    /\ uStep = "add" => s_have_control_endpoint /\ Len(s_mapped_ports) + Len(uTodo) <= MaxMapped

PortIInv == PortTypes /\ OursRecorded /\ RoomForAll

LEMMA PortInitInv == PortInit => PortIInv
<1> SUFFICES ASSUME PortInit PROVE PortIInv
  OBVIOUS
<1>1. <<>> \in Seq(PortSet)
  OBVIOUS
<1>2. uGateway \in [PortSet -> {"free", "other", "ours"}] /\ \A p \in PortSet : uGateway[p] # "ours"
  BY DEF PortInit
<1>3. PortTypes
  BY <1>1, <1>2 DEF PortInit, PortTypes
<1>4. OursRecorded
  BY <1>2 DEF OursRecorded
<1>5. RoomForAll
  BY DEF PortInit, RoomForAll
<1> QED BY <1>3, <1>4, <1>5 DEF PortIInv

\* Taking the last record away leaves the others.
LEMMA DropLast ==
  ASSUME NEW S, NEW s \in Seq(S), s # <<>>
  PROVE  /\ SubSeq(s, 1, Len(s) - 1) \in Seq(S) /\ Len(SubSeq(s, 1, Len(s) - 1)) = Len(s) - 1
         /\ \A i \in DOMAIN s : i # Len(s) => \E j \in DOMAIN SubSeq(s, 1, Len(s) - 1) : SubSeq(s, 1, Len(s) - 1)[j] = s[i]
         /\ s[Len(s)] \in S
<1>1. Len(s) \in Nat /\ Len(s) >= 1 /\ DOMAIN s = 1 .. Len(s)
  BY EmptySeq
<1> DEFINE t == SubSeq(s, 1, Len(s) - 1)
<1>2. t \in Seq(S) /\ Len(t) = Len(s) - 1 /\ \A i \in 1 .. Len(s) - 1 : t[i] = s[i]
  BY <1>1
<1>3. DOMAIN t = 1 .. Len(s) - 1
  BY <1>2
<1>4. s[Len(s)] \in S
  BY <1>1
<1> HIDE DEF t
<1>5. \A i \in DOMAIN s : i # Len(s) => i \in DOMAIN t /\ t[i] = s[i]
  BY <1>1, <1>2, <1>3
<1>6. \A i \in DOMAIN s : i # Len(s) => \E j \in DOMAIN t : t[j] = s[i]
  BY <1>5
<1> QED BY <1>2, <1>4, <1>6 DEF t

\* A record more keeps the others.
LEMMA OneMore ==
  ASSUME NEW S, NEW s \in Seq(S), NEW x \in S
  PROVE  /\ Append(s, x) \in Seq(S) /\ Len(Append(s, x)) = Len(s) + 1 /\ Append(s, x) # <<>>
         /\ \A i \in DOMAIN s : \E j \in DOMAIN Append(s, x) : Append(s, x)[j] = s[i]
         /\ \E j \in DOMAIN Append(s, x) : Append(s, x)[j] = x
<1> DEFINE t == Append(s, x)
<1>1. t \in Seq(S) /\ Len(t) = Len(s) + 1 /\ Len(s) \in Nat /\ DOMAIN s = 1 .. Len(s)
  OBVIOUS
<1>2. DOMAIN t = 1 .. Len(s) + 1 /\ t[Len(s) + 1] = x /\ \A i \in 1 .. Len(s) : t[i] = s[i]
  BY <1>1
<1> HIDE DEF t
<1>3. t # <<>>
  BY <1>1
<1>4. Len(s) + 1 \in DOMAIN t /\ \A i \in DOMAIN s : i \in DOMAIN t
  BY <1>1, <1>2
<1>5. \A i \in DOMAIN s : \E j \in DOMAIN t : t[j] = s[i]
  BY <1>1, <1>2, <1>4
<1>6. \E j \in DOMAIN t : t[j] = x
  BY <1>2, <1>4
<1> QED BY <1>1, <1>3, <1>5, <1>6 DEF t

\* Ports is a sequence of ports.
LEMMA PortsType == Ports \in Seq(PortSet) /\ Len(Ports) <= MaxMapped /\ MaxMapped \in Nat /\ Len(Ports) \in Nat
<1>1. Ports \in Seq(Nat) /\ MaxMapped \in Nat /\ Len(Ports) \in 1 .. MaxMapped
  BY PortAssumption
<1>2. DOMAIN Ports = 1 .. Len(Ports) /\ \A i \in 1 .. Len(Ports) : Ports[i] \in PortSet
  BY <1>1 DEF PortSet
<1>3. Ports \in [1 .. Len(Ports) -> PortSet]
  BY <1>1, <1>2
<1>4. Ports \in Seq(PortSet)
  BY <1>1, <1>3
<1> QED BY <1>1, <1>4

\* Nothing recorded yet, no records lost, and the gateway forwards no more than before.
LEMMA SameRecords ==
  ASSUME PortIInv, UNCHANGED <<s_mapped_ports, uLost>>,
         \A p \in PortSet : uGateway'[p] = "ours" => uGateway[p] = "ours"
  PROVE  OursRecorded'
BY DEF PortIInv, OursRecorded, InRecord

LEMMA RecordType ==
  ASSUME PortTypes, NEW p \in PortSet
  PROVE  /\ Record(p) \in Seq(PortSet) /\ Len(Record(p)) <= Len(s_mapped_ports) + 1 /\ Len(Record(p)) \in Nat
         /\ \A i \in DOMAIN s_mapped_ports : \E j \in DOMAIN Record(p) : Record(p)[j] = s_mapped_ports[i]
         /\ Len(s_mapped_ports) < MaxMapped => \E j \in DOMAIN Record(p) : Record(p)[j] = p
<1>1. CASE Len(s_mapped_ports) < MaxMapped
  <2>1. Record(p) = Append(s_mapped_ports, p)
    BY <1>1 DEF Record
  <2>2. s_mapped_ports \in Seq(PortSet) /\ Len(s_mapped_ports) \in Nat
    BY DEF PortTypes
  <2> QED BY <2>1, <2>2, OneMore
<1>2. CASE ~(Len(s_mapped_ports) < MaxMapped)
  <2>1. Record(p) = s_mapped_ports
    BY <1>2 DEF Record
  <2>2. s_mapped_ports \in Seq(PortSet) /\ Len(s_mapped_ports) \in Nat
    BY DEF PortTypes
  <2> QED BY <1>2, <2>1, <2>2
<1> QED BY <1>1, <1>2

\* The next port to be requested.
LEMMA TodoType ==
  ASSUME PortTypes, uTodo # <<>>
  PROVE  Head(uTodo) \in PortSet /\ Tail(uTodo) \in Seq(PortSet) /\ Len(Tail(uTodo)) = Len(uTodo) - 1 /\ Len(uTodo) \in Nat
BY DEF PortTypes

\* A request for the next port, whatever becomes of it.
LEMMA RequestStep ==
  ASSUME PortIInv, uStep = "add", uTodo # <<>>, uTodo' = Tail(uTodo),
         s_mapped_ports' \in {Record(Head(uTodo)), s_mapped_ports},
         uGateway' \in {uGateway, [uGateway EXCEPT ![Head(uTodo)] = "ours"]},
         uLost' \in {uLost, uLost \cup {Head(uTodo)}},
         s_mapped_ports' = Record(Head(uTodo)) \/ Head(uTodo) \in uLost',
         UNCHANGED <<uStep, uPreparing, uRetried, s_have_control_endpoint>>
  PROVE  PortIInv'
<1> DEFINE p == Head(uTodo)
<1>0. PortTypes /\ p \in PortSet /\ Tail(uTodo) \in Seq(PortSet) /\ Len(Tail(uTodo)) = Len(uTodo) - 1
      /\ Len(uTodo) \in Nat /\ Len(s_mapped_ports) \in Nat /\ Len(uTodo) > 0
  BY TodoType, EmptySeq DEF PortIInv, PortTypes
<1>1. /\ Record(p) \in Seq(PortSet) /\ Len(Record(p)) <= Len(s_mapped_ports) + 1 /\ Len(Record(p)) \in Nat
      /\ \A i \in DOMAIN s_mapped_ports : \E j \in DOMAIN Record(p) : Record(p)[j] = s_mapped_ports[i]
      /\ Len(s_mapped_ports) < MaxMapped => \E j \in DOMAIN Record(p) : Record(p)[j] = p
  BY <1>0, RecordType
<1>2. s_have_control_endpoint /\ Len(s_mapped_ports) + Len(uTodo) <= MaxMapped /\ Len(s_mapped_ports) < MaxMapped
  BY <1>0, PortsType DEF PortIInv, RoomForAll
<1>3. /\ s_mapped_ports' \in Seq(PortSet) /\ Len(s_mapped_ports') <= Len(s_mapped_ports) + 1 /\ Len(s_mapped_ports') \in Nat
      /\ \A i \in DOMAIN s_mapped_ports : \E j \in DOMAIN s_mapped_ports' : s_mapped_ports'[j] = s_mapped_ports[i]
  BY <1>0, <1>1 DEF PortTypes
<1>4. InRecord \subseteq InRecord'
  BY <1>3 DEF InRecord
<1>5. p \in InRecord' \/ p \in uLost'
  BY <1>1, <1>2 DEF InRecord
<1>6. \A q \in PortSet : uGateway'[q] = "ours" => uGateway[q] = "ours" \/ q = p
  BY <1>0 DEF PortTypes
<1>7. OursRecorded'
  BY <1>4, <1>5, <1>6 DEF OursRecorded, PortIInv
<1>8. uGateway' \in [PortSet -> {"free", "other", "ours"}] /\ uLost' \subseteq PortSet
  BY <1>0 DEF PortTypes
<1>9. PortTypes'
  BY <1>0, <1>3, <1>8 DEF PortTypes
<1>10. RoomForAll'
  BY <1>0, <1>2, <1>3, PortsType DEF RoomForAll
<1> QED BY <1>7, <1>9, <1>10 DEF PortIInv

LEMMA PortStep == PortIInv /\ [PortNext]_portVars => PortIInv'
<1> SUFFICES ASSUME PortIInv, [PortNext]_portVars PROVE PortIInv'
  OBVIOUS
<1>0. PortTypes /\ <<>> \in Seq(PortSet) /\ Len(<<>>) = 0
  BY DEF PortIInv
<1>1. ASSUME NEW preparing \in BOOLEAN, StartRemoval(preparing) PROVE PortIInv'
  BY <1>1 DEF StartRemoval, PortIInv, PortTypes, OursRecorded, InRecord, RoomForAll
<1>2. ASSUME NEW done \in BOOLEAN, DeleteUdpMapping(done) PROVE PortIInv'
  <2> DEFINE port == s_mapped_ports[Len(s_mapped_ports)]
             rest == SubSeq(s_mapped_ports, 1, Len(s_mapped_ports) - 1)
  <2>1. /\ uStep = "remove" /\ s_mapped_ports # <<>> /\ s_have_control_endpoint
        /\ s_mapped_ports' = rest
        /\ uGateway' = IF done THEN [uGateway EXCEPT ![port] = "free"] ELSE uGateway
        /\ uLost' = IF done THEN uLost \ {port} ELSE uLost \cup {port}
        /\ UNCHANGED <<uStep, uPreparing, uRetried, uTodo, s_have_control_endpoint>>
    BY <1>2 DEF DeleteUdpMapping
  <2>2. /\ rest \in Seq(PortSet) /\ port \in PortSet
        /\ \A i \in DOMAIN s_mapped_ports : i # Len(s_mapped_ports) => \E j \in DOMAIN rest : rest[j] = s_mapped_ports[i]
    BY <1>0, <2>1, DropLast DEF PortTypes
  <2> HIDE DEF port, rest
  <2>3. \A q \in InRecord : q = port \/ q \in InRecord'
    BY <2>1, <2>2 DEF InRecord, port
  <2>4. uGateway' \in [PortSet -> {"free", "other", "ours"}] /\ uLost' \subseteq PortSet
    BY <1>0, <2>1, <2>2 DEF PortTypes
  <2>5. PortTypes'
    BY <1>0, <2>1, <2>2, <2>4 DEF PortTypes
  <2>6. \A q \in PortSet \ uLost' : uGateway'[q] = "ours" => uGateway[q] = "ours" /\ q # port /\ q \notin uLost
    BY <1>0, <2>1, <2>2 DEF PortTypes
  <2>7. OursRecorded'
    BY <2>3, <2>6 DEF OursRecorded, PortIInv
  <2>8. RoomForAll'
    BY <2>1 DEF RoomForAll
  <2> QED BY <2>5, <2>7, <2>8 DEF PortIInv
<1>3. ASSUME NEW done \in BOOLEAN, NEW recorded \in BOOLEAN, AddUdpMappingFails(done, recorded) PROVE PortIInv'
  BY <1>3, RequestStep DEF AddUdpMappingFails
<1>4. CASE AddUdpMapping
  BY <1>4, RequestStep DEF AddUdpMapping
<1>5. CASE RemovalEnds
  <2>1. s_mapped_ports = <<>>
    BY <1>5 DEF RemovalEnds, PortIInv, RoomForAll
  <2>2. UNCHANGED <<s_mapped_ports, s_have_control_endpoint, uGateway, uLost>>
    BY <1>5, <2>1 DEF RemovalEnds
  <2>3. OursRecorded'
    BY <2>2, SameRecords
  <2>4. PortTypes' /\ RoomForAll'
    BY <1>0, <1>5, <2>1, <2>2 DEF RemovalEnds, Idle, PortTypes, RoomForAll
  <2> QED BY <2>3, <2>4 DEF PortIInv
<1>6. CASE NothingToMap \/ MappingEnds
  <2>1. UNCHANGED <<s_mapped_ports, s_have_control_endpoint, uGateway, uLost>> /\ Idle
    BY <1>6 DEF NothingToMap, MappingEnds
  <2>2. OursRecorded'
    BY <2>1, SameRecords
  <2>3. PortTypes' /\ RoomForAll'
    BY <1>0, <2>1 DEF Idle, PortTypes, RoomForAll, PortIInv
  <2> QED BY <2>2, <2>3 DEF PortIInv
<1>7. CASE EndpointFound
  <2>1. s_mapped_ports = <<>>
    BY <1>7 DEF EndpointFound, PortIInv, RoomForAll
  <2>2. OursRecorded'
    BY <1>7, SameRecords DEF EndpointFound
  <2>3. PortTypes'
    BY <1>0, <1>7, PortsType DEF EndpointFound, PortTypes
  <2>4. RoomForAll'
    BY <1>0, <1>7, <2>1, PortsType DEF EndpointFound, RoomForAll
  <2> QED BY <2>2, <2>3, <2>4 DEF PortIInv
<1>8. CASE Rediscover
  <2>1. OursRecorded'
    BY <1>8, SameRecords DEF Rediscover
  <2>2. PortTypes' /\ RoomForAll'
    BY <1>0, <1>8 DEF Rediscover, PortTypes, RoomForAll
  <2> QED BY <2>1, <2>2 DEF PortIInv
<1>9. CASE GatewayRestarts
  <2>1. uGateway' \in [PortSet -> {"free", "other", "ours"}] /\ \A p \in PortSet : uGateway'[p] # "ours"
    BY <1>0, <1>9 DEF GatewayRestarts, PortTypes
  <2>2. OursRecorded'
    BY <2>1 DEF OursRecorded
  <2>3. PortTypes' /\ RoomForAll'
    BY <1>0, <1>9, <2>1 DEF GatewayRestarts, PortTypes, RoomForAll, PortIInv
  <2> QED BY <2>2, <2>3 DEF PortIInv
<1>10. CASE UNCHANGED portVars
  BY <1>10 DEF portVars, PortIInv, PortTypes, OursRecorded, InRecord, RoomForAll
<1> QED BY <1>1, <1>2, <1>3, <1>4, <1>5, <1>6, <1>7, <1>8, <1>9, <1>10 DEF PortNext

(***************************************************************************)
(* However requests fail and endpoints change, for any number of ports     *)
(* that fits the table, upnp_remove_stream_mappings leaves no forwarding   *)
(* behind whose requests the gateway answered.                             *)
(***************************************************************************)
THEOREM MappingsAreRemoved == PortInit /\ [][PortNext]_portVars => []MappingsRemoved
<1>1. PortIInv => MappingsRemoved
  <2> SUFFICES ASSUME PortIInv PROVE MappingsRemoved
    OBVIOUS
  <2>1. s_mapped_ports = <<>> => InRecord = {}
    BY DEF InRecord
  <2> QED BY <2>1 DEF PortIInv, OursRecorded, RoomForAll, MappingsRemoved
<1> QED BY <1>1, PortInitInv, PortStep, PTL

(***************************************************************************)
(* Answers over HTTPS.  While the header of box art is gathered nothing    *)
(* was handed over and its delimiter was not seen; afterwards the caller   *)
(* has the first bytes of the body, and the bytes read so far are past the *)
(* header.                                                                 *)
(***************************************************************************)
Bytes(from, n) == [i \in 1 .. n |-> from + i]

Gathered ==
    /\ fetch.at = "open" => fetch.read = 0 /\ fetch.header_len = 0 /\ ~fetch.header_done /\ fetch.resp = <<>>
    /\ fetch.at = "reading" /\ fetch.kind = "art" =>
          IF fetch.header_done
          THEN /\ fetch.header > 0 /\ fetch.header <= fetch.read
               /\ fetch.resp = Bytes(fetch.header, Smaller(ArtSize, fetch.read - fetch.header))
          ELSE /\ fetch.header > 0 => fetch.read < fetch.header
               /\ fetch.header_len = fetch.read /\ fetch.resp = <<>>

FetchIInv == FetchTypeOK /\ Gathered /\ FetchedExact

LEMMA SmallerType ==
  ASSUME NEW a \in Nat, NEW b \in Nat
  PROVE  /\ Smaller(a, b) \in Nat /\ Smaller(a, b) <= a /\ Smaller(a, b) <= b
         /\ a <= b => Smaller(a, b) = a
         /\ b <= a => Smaller(a, b) = b
BY DEF Smaller

\* The first n bytes after a place are a sequence, of that length.
LEMMA BytesType ==
  ASSUME NEW from \in Nat, NEW n \in Nat
  PROVE  Bytes(from, n) \in Seq(Nat) /\ Len(Bytes(from, n)) = n /\ DOMAIN Bytes(from, n) = 1 .. n
<1>1. \A i \in 1 .. n : from + i \in Nat
  OBVIOUS
<1>2. Bytes(from, n) \in [1 .. n -> Nat]
  BY <1>1 DEF Bytes
<1> QED BY <1>2

\* Bytes that follow each other.
LEMMA BytesJoin ==
  ASSUME NEW from \in Nat, NEW n \in Nat, NEW k \in Nat
  PROVE  Bytes(from, n) \o Bytes(from + n, k) = Bytes(from, n + k)
<1> DEFINE s == Bytes(from, n)
           t == Bytes(from + n, k)
           u == Bytes(from, n + k)
<1>0. from + n \in Nat /\ n + k \in Nat
  OBVIOUS
<1>1. /\ s \in Seq(Nat) /\ Len(s) = n /\ t \in Seq(Nat) /\ Len(t) = k
      /\ u \in Seq(Nat) /\ Len(u) = n + k /\ DOMAIN u = 1 .. n + k
      /\ DOMAIN s = 1 .. n /\ DOMAIN t = 1 .. k
  BY <1>0, BytesType
<1>2. \A i \in 1 .. n + k : u[i] = from + i
  BY DEF Bytes
<1>3. /\ \A i \in 1 .. n : s[i] = from + i
      /\ \A i \in 1 .. k : t[i] = from + n + i
  BY DEF Bytes
<1> HIDE DEF s, t, u
<1>4. s \o t \in Seq(Nat) /\ Len(s \o t) = n + k
  BY <1>1, ConcatProperties
<1>5. \A i \in 1 .. n + k : (s \o t)[i] = IF i <= n THEN s[i] ELSE t[i - n]
  BY <1>1, ConcatProperties
<1>6. ASSUME NEW i \in 1 .. n + k PROVE (s \o t)[i] = u[i]
  <2>0. u[i] = from + i /\ (s \o t)[i] = IF i <= n THEN s[i] ELSE t[i - n]
    BY <1>2, <1>5
  <2>1. CASE i <= n
    <3>1. i \in 1 .. n
      BY <2>1
    <3>2. s[i] = from + i
      BY <3>1, <1>3
    <3> QED BY <2>0, <2>1, <3>2
  <2>2. CASE ~(i <= n)
    <3>1. PICK j \in 1 .. k : j = i - n
      BY <2>2
    <3>2. t[j] = from + n + j /\ from + n + j = from + i
      BY <3>1, <1>3
    <3>3. (s \o t)[i] = t[i - n]
      BY <2>0, <2>2
    <3> QED BY <2>0, <3>1, <3>2, <3>3
  <2> QED BY <2>1, <2>2
<1> QED BY <1>1, <1>4, <1>6, SeqEqual DEF s, t, u

\* What the code copies out of the bytes that came.
LEMMA CopiedIs ==
  ASSUME NEW from \in Nat, NEW to \in Nat, NEW n \in Nat
  PROVE  Copied(from, to, n) = Bytes(from, Smaller(n, to - from))
BY Zenon DEF Copied, Bytes

\* What FetchedExact and Gathered say of an answer f.
Typed(f) ==
    f \in [kind : {"text", "art"}, header : Headers, body : ContentLengths, read : Nat, header_len : Nat,
           header_done : BOOLEAN, resp : Seq(Nat), at : {"open", "reading", "done"}, ret : Int]
Buffer(f) == IF f.kind = "text" THEN TextSize - 1 ELSE ArtSize
Exact(f) ==
    f.at = "done" /\ f.header > 0 /\ f.read >= f.header =>
        f.resp = IF f.ret = -1 THEN <<>> ELSE Bytes(f.header, Smaller(Buffer(f), f.read - f.header))
InHand(f) ==
    IF f.header_done
    THEN /\ f.header > 0 /\ f.header <= f.read
         /\ f.resp = Bytes(f.header, Smaller(ArtSize, f.read - f.header))
    ELSE /\ f.header > 0 => f.read < f.header
         /\ f.header_len = f.read /\ f.resp = <<>>
Fresh(f) == f.read = 0 /\ f.header_len = 0 /\ ~f.header_done /\ f.resp = <<>>
Sound(f) ==
    /\ Typed(f) /\ Exact(f)
    /\ f.at = "open" => Fresh(f)
    /\ f.at = "reading" /\ f.kind = "art" => InHand(f)

LEMMA SoundIs == (FetchIInv <=> Sound(fetch)) /\ (Sound(fetch) => FetchedExact)
BY DEF FetchIInv, FetchTypeOK, Gathered, FetchedExact, Sound, Typed, Exact, Buffer, InHand, Fresh, Bytes

LEMMA FetchConstants ==
  /\ \A h \in Headers : h \in Nat /\ (h > 0 => h >= 4)
  /\ TextSize - 1 \in Nat /\ ArtSize \in Nat /\ ArtSize > 0 /\ HeaderSize \in Nat /\ RawSize \in Nat
  /\ ContentLengths \subseteq Nat /\ ReadSize \in Nat
BY FetchAssumption

\* The end of a text answer.
LEMMA TypedFields ==
  ASSUME NEW f, Typed(f)
  PROVE  /\ f.kind \in {"text", "art"} /\ f.header \in Headers /\ f.header \in Nat
         /\ f.header > 0 => f.header >= 4
         /\ f.read \in Nat /\ f.header_len \in Nat /\ f.header_done \in BOOLEAN /\ f.resp \in Seq(Nat) /\ f.ret \in Int
<1>1. /\ f.kind \in {"text", "art"} /\ f.header \in Headers /\ f.read \in Nat /\ f.header_len \in Nat
      /\ f.header_done \in BOOLEAN /\ f.resp \in Seq(Nat) /\ f.ret \in Int
  BY DEF Typed
<1> QED BY <1>1, FetchConstants

\* What the actions change of an answer keeps its types.
LEMMA TypedEnded ==
  ASSUME NEW f, Typed(f), NEW at \in {"open", "reading", "done"}, NEW ret \in Int
  PROVE  Typed([f EXCEPT !.at = at, !.ret = ret])
BY DEF Typed

LEMMA TypedReading ==
  ASSUME NEW f, Typed(f), NEW read \in Nat, NEW resp \in Seq(Nat)
  PROVE  Typed([f EXCEPT !.read = read, !.resp = resp]) /\ Typed([f EXCEPT !.read = read])
BY DEF Typed

LEMMA TextEndsSound ==
  ASSUME NEW f, Typed(f), f.kind = "text", f.header = fetch.header
  PROVE  Sound(TextEnds(f))
<1> DEFINE from == DelimiterIn(0, f.read)
           start == IF from = -1 THEN 0 ELSE from
           e == TextEnds(f)
<1>1. /\ f.header \in Nat /\ f.read \in Nat
      /\ f.header > 0 => f.header >= 4
      /\ TextSize - 1 \in Nat
  BY FetchConstants, TypedFields
<1>2. from = IF f.header > 0 /\ f.header <= f.read THEN f.header ELSE -1
  BY <1>1 DEF DelimiterIn
<1>3. start \in Nat /\ start <= f.read /\ (f.header > 0 /\ f.header <= f.read => start = f.header)
  BY <1>1, <1>2
<1>4. /\ e.at = "done" /\ e.kind = "text" /\ e.header = f.header /\ e.read = f.read
      /\ e.ret = IF f.read > 0 THEN 0 ELSE -1
      /\ e.resp = Copied(start, f.read, TextSize - 1)
  BY DEF TextEnds, Typed
<1> HIDE DEF start, from
<1>5. Smaller(TextSize - 1, f.read - start) \in Nat
  <2>1. f.read - start \in Nat
    BY <1>1, <1>3
  <2> QED BY <2>1, <1>1 DEF Smaller
<1>6. e.resp = Bytes(start, Smaller(TextSize - 1, f.read - start)) /\ e.resp \in Seq(Nat)
  <2>1. Copied(start, f.read, TextSize - 1) = Bytes(start, Smaller(TextSize - 1, f.read - start))
    BY <1>1, <1>3, CopiedIs, Zenon
  <2>2. Bytes(start, Smaller(TextSize - 1, f.read - start)) \in Seq(Nat)
    BY <1>3, <1>5, BytesType, Zenon
  <2> QED BY <2>1, <2>2, <1>4
<1>7. Typed(e)
  <2>1. e = [f EXCEPT !.at = "done", !.ret = e.ret, !.resp = e.resp]
    BY DEF TextEnds, Typed
  <2>2. e.ret \in Int
    BY <1>4
  <2> HIDE DEF e
  <2> QED BY <2>1, <2>2, <1>6 DEF Typed
<1>8. Exact(e)
  BY <1>1, <1>3, <1>4, <1>6 DEF Exact, Buffer
<1> HIDE DEF e
<1> QED BY <1>4, <1>7, <1>8 DEF Sound, e

\* The end of box art: what was gathered is returned.
LEMMA ArtEndsSound ==
  ASSUME NEW f, Typed(f), f.kind = "art", InHand(f)
  PROVE  Sound(ArtEnds(f))
<1> DEFINE kept == IF f.header_done THEN f.resp ELSE Copied(0, f.header_len, ArtSize)
           e == ArtEnds(f)
<1>1. f.header \in Nat /\ f.read \in Nat /\ f.header_len \in Nat /\ f.resp \in Seq(Nat) /\ ArtSize \in Nat
  BY FetchConstants, TypedFields
<1>2. Copied(0, f.header_len, ArtSize) \in Seq(Nat)
  <2>0. 0 \in Nat /\ f.header_len - 0 \in Nat
    BY <1>1
  <2>1. Smaller(ArtSize, f.header_len - 0) \in Nat
    BY <1>1, <2>0 DEF Smaller
  <2>2. Copied(0, f.header_len, ArtSize) = Bytes(0, Smaller(ArtSize, f.header_len - 0))
    BY <1>1, <2>0, CopiedIs, Zenon
  <2>3. Bytes(0, Smaller(ArtSize, f.header_len - 0)) \in Seq(Nat)
    BY <2>0, <2>1, BytesType, Zenon
  <2> QED BY <2>2, <2>3
<1>3. kept \in Seq(Nat) /\ Len(kept) \in Nat
  BY <1>1, <1>2
<1>4. /\ e.at = "done" /\ e.kind = "art" /\ e.header = f.header /\ e.read = f.read
      /\ e.ret = Len(kept) /\ e.resp = kept
      /\ e = [f EXCEPT !.at = "done", !.ret = Len(kept), !.resp = kept]
  BY DEF ArtEnds, Typed
<1> HIDE DEF e, kept
<1>5. Typed(e)
  <2>1. e = [f EXCEPT !.at = "done", !.ret = e.ret, !.resp = e.resp]
    BY <1>4
  <2>2. e.ret \in Int /\ e.resp \in Seq(Nat)
    BY <1>3, <1>4
  <2> QED BY <2>1, <2>2 DEF Typed
<1>6. Exact(e)
  <2> SUFFICES ASSUME f.header > 0, f.read >= f.header
               PROVE  e.resp = Bytes(f.header, Smaller(ArtSize, f.read - f.header))
    BY <1>3, <1>4 DEF Exact, Buffer
  <2>1. f.header_done
    BY <1>1 DEF InHand
  <2> QED BY <2>1, <1>4 DEF InHand, kept
<1> QED BY <1>4, <1>5, <1>6 DEF Sound, e

LEMMA FetchInitInv == FetchInit => FetchIInv
<1> SUFFICES ASSUME FetchInit PROVE Sound(fetch)
  BY SoundIs
<1>1. PICK kind \in {"text", "art"}, header \in Headers, body \in ContentLengths :
        fetch = [kind |-> kind, header |-> header, body |-> body, read |-> 0, header_len |-> 0,
                 header_done |-> FALSE, resp |-> <<>>, at |-> "open", ret |-> -1]
  BY DEF FetchInit
<1>2. <<>> \in Seq(Nat)
  OBVIOUS
<1> QED BY <1>1, <1>2 DEF Sound, Typed, Exact, Fresh

LEMMA ReadHeaderSound ==
  ASSUME Sound(fetch), NEW n \in Nat \ {0}, ReadHeader(n)
  PROVE  Sound(fetch')
<1> DEFINE seen == fetch.header_len + n
           from == DelimiterIn(SearchStart(fetch.header_len), seen)
           f == [fetch EXCEPT !.read = @ + n, !.header_len = seen, !.header_done = from # -1,
                              !.resp = IF from = -1 THEN @ ELSE Copied(from, seen, ArtSize)]
<1>1. /\ fetch.at = "reading" /\ fetch.kind = "art" /\ ~fetch.header_done
      /\ fetch' = IF seen > HeaderSize - 1 THEN [fetch EXCEPT !.at = "done", !.ret = -1]
                  ELSE IF f.header_done /\ Len(f.resp) = ArtSize THEN ArtEnds(f) ELSE f
  BY DEF ReadHeader
<1>2. Typed(fetch) /\ InHand(fetch)
  BY <1>1 DEF Sound
<1>3. /\ fetch.header \in Nat /\ fetch.read \in Nat /\ fetch.header_len = fetch.read /\ fetch.resp = <<>>
      /\ fetch.header > 0 => fetch.header >= 4 /\ fetch.read < fetch.header
      /\ ArtSize \in Nat /\ seen \in Nat
  BY <1>1, <1>2, FetchConstants DEF InHand, Typed
<1>4. from = IF fetch.header > 0 /\ fetch.header <= seen THEN fetch.header ELSE -1
  <2>1. SearchStart(fetch.header_len) \in Nat
        /\ (fetch.header > 0 => SearchStart(fetch.header_len) <= fetch.header - 4)
    BY <1>3 DEF SearchStart
  <2> QED BY <2>1, <1>3 DEF DelimiterIn
<1>5. /\ f.at = "reading" /\ f.kind = "art" /\ f.header = fetch.header /\ f.read = seen /\ f.header_len = seen
      /\ f.header_done = (from # -1)
      /\ f.resp = IF from = -1 THEN <<>> ELSE Copied(from, seen, ArtSize)
  BY <1>1, <1>2, <1>3 DEF Typed
<1>5a. f = [fetch EXCEPT !.read = seen, !.header_len = seen, !.header_done = f.header_done, !.resp = f.resp]
  BY <1>2, <1>3 DEF Typed
<1>5b. f.header_done \in BOOLEAN
  BY <1>5
<1> HIDE DEF from, f
<1>6. f.header_done => /\ f.header > 0 /\ f.header <= f.read
                       /\ Smaller(ArtSize, f.read - f.header) \in Nat
                       /\ f.resp = Bytes(f.header, Smaller(ArtSize, f.read - f.header))
  <2> SUFFICES ASSUME from # -1
               PROVE  /\ f.header > 0 /\ f.header <= f.read
                      /\ Smaller(ArtSize, f.read - f.header) \in Nat
                      /\ f.resp = Bytes(f.header, Smaller(ArtSize, f.read - f.header))
    BY <1>5
  <2>1. fetch.header > 0 /\ fetch.header <= seen /\ from = fetch.header
    BY <1>4
  <2>2. Smaller(ArtSize, seen - fetch.header) \in Nat
    BY <2>1, <1>3 DEF Smaller
  <2>3. Copied(fetch.header, seen, ArtSize) = Bytes(fetch.header, Smaller(ArtSize, seen - fetch.header))
    BY <1>3, CopiedIs, Zenon
  <2> QED BY <2>1, <2>2, <2>3, <1>5
<1>7. f.resp \in Seq(Nat)
  <2>1. CASE from = -1
    BY <2>1, <1>5
  <2>2. CASE from # -1
    <3>1. f.header_done /\ f.header \in Nat
      BY <2>2, <1>5, <1>3
    <3>2. Bytes(f.header, Smaller(ArtSize, f.read - f.header)) \in Seq(Nat)
      BY <3>1, <1>6, BytesType, Zenon
    <3> QED BY <3>1, <3>2, <1>6
  <2> QED BY <2>1, <2>2
<1>8. Typed(f)
  <2> HIDE DEF seen
  <2> QED BY <1>2, <1>3, <1>5a, <1>5b, <1>7 DEF Typed
<1>9. InHand(f)
  <2>1. CASE from = -1
    <3>1. ~f.header_done /\ f.header_len = f.read /\ f.resp = <<>> /\ f.header = fetch.header /\ f.read = seen
      BY <2>1, <1>5
    <3>2. fetch.header > 0 => seen < fetch.header
      BY <2>1, <1>3, <1>4
    <3> QED BY <3>1, <3>2 DEF InHand
  <2>2. CASE from # -1
    BY <2>2, <1>5, <1>6 DEF InHand
  <2> QED BY <2>1, <2>2
<1>10. CASE seen > HeaderSize - 1
  <2>1. fetch' = [fetch EXCEPT !.at = "done", !.ret = -1]
    BY <1>1, <1>10
  <2>2. /\ fetch'.at = "done" /\ fetch'.ret = -1 /\ fetch'.header = fetch.header /\ fetch'.read = fetch.read
        /\ fetch'.resp = <<>>
    BY <2>1, <1>2, <1>3 DEF Typed
  <2>3. Typed(fetch')
    <3>1. -1 \in Int /\ "done" \in {"open", "reading", "done"}
      OBVIOUS
    <3> QED BY <2>1, <1>2, <3>1, TypedEnded, Zenon
  <2> QED BY <2>2, <2>3 DEF Sound, Exact
<1>11. CASE ~(seen > HeaderSize - 1) /\ f.header_done /\ Len(f.resp) = ArtSize
  BY <1>1, <1>5, <1>8, <1>9, <1>11, ArtEndsSound
<1>12. CASE ~(seen > HeaderSize - 1) /\ ~(f.header_done /\ Len(f.resp) = ArtSize)
  <2>1. fetch' = f
    BY <1>1, <1>12
  <2>2. f.at = "reading" /\ f.kind = "art"
    BY <1>5
  <2>3. Sound(f)
    BY <2>2, <1>8, <1>9 DEF Sound, Exact
  <2> QED BY <2>1, <2>3
<1> QED BY <1>1, <1>10, <1>11, <1>12

LEMMA ReadBodySound ==
  ASSUME Sound(fetch), NEW n \in Nat \ {0}, ReadBody(n)
  PROVE  Sound(fetch')
<1> DEFINE f == [fetch EXCEPT !.read = @ + n,
                              !.resp = @ \o Copied(fetch.read, fetch.read + n, ArtSize - Len(@))]
           h == fetch.header
           a == Smaller(ArtSize, fetch.read - h)
           b == Smaller(ArtSize - a, n)
<1>1. /\ fetch.at = "reading" /\ fetch.kind = "art" /\ fetch.header_done
      /\ fetch' = IF Len(f.resp) = ArtSize THEN ArtEnds(f) ELSE f
  BY DEF ReadBody
<1>2. Typed(fetch) /\ InHand(fetch)
  BY <1>1 DEF Sound
<1>3. /\ h \in Nat /\ fetch.read \in Nat /\ h > 0 /\ h <= fetch.read /\ ArtSize \in Nat
      /\ fetch.resp = Bytes(h, a)
  BY <1>1, <1>2, FetchConstants DEF InHand, Typed
<1>4. a \in Nat /\ a <= ArtSize /\ ArtSize - a \in Nat /\ Len(fetch.resp) = a
  <2>1. a \in Nat /\ a <= ArtSize
    BY <1>3 DEF Smaller
  <2>2. Len(Bytes(h, a)) = a
    BY <2>1, <1>3, BytesType, Zenon
  <2> QED BY <2>1, <2>2, <1>3
<1>5. b \in Nat
  BY <1>4 DEF Smaller
<1>6. Copied(fetch.read, fetch.read + n, ArtSize - a) = Bytes(fetch.read, b)
  <2>1. fetch.read + n \in Nat /\ (fetch.read + n) - fetch.read = n
    BY <1>3
  <2>2. Copied(fetch.read, fetch.read + n, ArtSize - a)
          = Bytes(fetch.read, Smaller(ArtSize - a, (fetch.read + n) - fetch.read))
    BY <2>1, <1>3, <1>4, CopiedIs, Zenon
  <2> QED BY <2>1, <2>2, Zenon
<1>7. Bytes(h, a) \o Bytes(fetch.read, b) = Bytes(h, Smaller(ArtSize, (fetch.read + n) - h))
  <2>1. CASE fetch.read - h <= ArtSize
    <3>1. a = fetch.read - h /\ h + a = fetch.read
      BY <2>1, <1>3 DEF Smaller
    <3>2. Smaller(ArtSize, (fetch.read + n) - h) = a + b
      BY <3>1, <1>3, <1>4 DEF Smaller
    <3>3. Bytes(h, a) \o Bytes(h + a, b) = Bytes(h, a + b)
      <4>1. h \in Nat /\ a \in Nat /\ b \in Nat
        BY <1>3, <1>4, <1>5
      <4>2. \A x, y, z \in Nat : Bytes(x, y) \o Bytes(x + y, z) = Bytes(x, y + z)
        BY BytesJoin
      <4> HIDE DEF a, b, h
      <4> QED BY <4>1, <4>2, Zenon
    <3> HIDE DEF a, b
    <3> QED BY <3>1, <3>2, <3>3, Zenon
  <2>2. CASE fetch.read - h > ArtSize
    <3>1. a = ArtSize /\ b = 0 /\ Smaller(ArtSize, (fetch.read + n) - h) = ArtSize
      BY <2>2, <1>3 DEF Smaller
    <3>2. Bytes(fetch.read, b) = <<>>
      <4>1. Bytes(fetch.read, b) \in Seq(Nat) /\ Len(Bytes(fetch.read, b)) = b
        BY <1>3, <1>5, BytesType, Zenon
      <4> HIDE DEF b
      <4> QED BY <4>1, <3>1, EmptySeq
    <3>3. Bytes(h, a) \in Seq(Nat)
      BY <1>3, <1>4, BytesType, Zenon
    <3>4. Bytes(h, a) \o <<>> = Bytes(h, a)
      BY <3>3, ConcatEmptySeq, Zenon
    <3> HIDE DEF a, b
    <3> QED BY <3>1, <3>2, <3>4, Zenon
  <2> QED BY <2>1, <2>2, <1>3
<1>8. /\ f.at = "reading" /\ f.kind = "art" /\ f.header = h /\ f.read = fetch.read + n /\ f.header_done
      /\ f.resp = Bytes(h, Smaller(ArtSize, f.read - h))
      /\ f = [fetch EXCEPT !.read = fetch.read + n, !.resp = f.resp]
  <2>1. /\ f.at = "reading" /\ f.kind = "art" /\ f.header = h /\ f.read = fetch.read + n /\ f.header_done
        /\ f.resp = fetch.resp \o Copied(fetch.read, fetch.read + n, ArtSize - Len(fetch.resp))
        /\ f = [fetch EXCEPT !.read = fetch.read + n, !.resp = f.resp]
    BY <1>1, <1>2 DEF Typed
  <2> HIDE DEF f, a, b
  <2>2. f.resp = Bytes(h, Smaller(ArtSize, (fetch.read + n) - h))
    BY <2>1, <1>3, <1>4, <1>6, <1>7, Zenon
  <2> QED BY <2>1, <2>2, Zenon
<1> HIDE DEF f, a, b
<1>9. f.resp \in Seq(Nat)
  <2>1. Smaller(ArtSize, f.read - h) \in Nat
    BY <1>3, <1>8 DEF Smaller
  <2>2. Bytes(h, Smaller(ArtSize, f.read - h)) \in Seq(Nat)
    BY <2>1, <1>3, BytesType, Zenon
  <2> QED BY <2>2, <1>8
<1>10. Typed(f)
  <2>1. fetch.read + n \in Nat
    BY <1>3
  <2>2. \A read \in Nat, resp \in Seq(Nat) : Typed([fetch EXCEPT !.read = read, !.resp = resp])
    BY <1>2, TypedReading
  <2> QED BY <1>8, <1>9, <2>1, <2>2
<1>11. InHand(f)
  BY <1>3, <1>8 DEF InHand
<1>12. CASE Len(f.resp) = ArtSize
  BY <1>1, <1>8, <1>10, <1>11, <1>12, ArtEndsSound
<1>13. CASE Len(f.resp) # ArtSize
  <2>1. Sound(f)
    BY <1>8, <1>10, <1>11 DEF Sound, Exact
  <2> QED BY <1>1, <1>13, <2>1
<1> QED BY <1>12, <1>13

LEMMA FetchStep == FetchIInv /\ [FetchNext]_fetch => FetchIInv'
<1> SUFFICES ASSUME Sound(fetch), [FetchNext]_fetch PROVE Sound(fetch')
  <2>1. FetchIInv' <=> Sound(fetch')
    BY DEF FetchIInv, FetchTypeOK, Gathered, FetchedExact, Sound, Typed, Exact, Buffer, InHand, Fresh, Bytes
  <2> QED BY <2>1, SoundIs
<1>0. Typed(fetch) /\ fetch.header \in Nat /\ fetch.read \in Nat
  BY FetchConstants DEF Sound, Typed
<1>1. CASE FetchOpens
  <2>1. CASE fetch' = [fetch EXCEPT !.at = "reading"]
    BY <1>0, <1>1, <2>1 DEF FetchOpens, Sound, Typed, Exact, Fresh, InHand
  <2>2. ASSUME NEW ret \in {-1, 0}, fetch' = [fetch EXCEPT !.at = "done", !.ret = ret]
        PROVE  Sound(fetch')
    <3>1. fetch.read = 0
      BY <1>1 DEF FetchOpens, Sound, Fresh
    <3>2. ret \in Int
      OBVIOUS
    <3>3. Typed(fetch')
      BY <1>0, <2>2, <3>2, TypedEnded
    <3>4. fetch'.at = "done" /\ fetch'.read = 0 /\ fetch'.header = fetch.header
      BY <1>0, <2>2, <3>1 DEF Typed
    <3>5. Exact(fetch')
      BY <1>0, <3>4 DEF Exact
    <3> QED BY <3>3, <3>4, <3>5 DEF Sound
  <2> QED BY <1>1, <2>1, <2>2 DEF FetchOpens
<1>2. ASSUME NEW n \in 1 .. Smaller(ReadSize, Left), ReadText(n) \/ ReadHeader(n) \/ ReadBody(n)
      PROVE  Sound(fetch')
  <2>0. n \in Nat \ {0}
    <3>1. Smaller(ReadSize, Left) \in Int
      <4>1. fetch.body \in ContentLengths
        BY <1>0 DEF Typed
      <4>2. ReadSize \in Int /\ Left \in Int
        <5>1. fetch.body \in Nat /\ ReadSize \in Nat
          BY <4>1, FetchConstants
        <5> QED BY <1>0, <5>1 DEF Left
      <4> QED BY <4>2 DEF Smaller
    <3> QED BY <3>1
  <2>1. CASE ReadText(n)
    <3> DEFINE f == [fetch EXCEPT !.read = @ + n]
    <3>1. /\ Typed(f) /\ f.kind = "text" /\ f.header = fetch.header /\ f.at = "reading"
      <4>1. fetch.read + n \in Nat
        BY <1>0, <2>0
      <4>2. Typed(f)
        <5>1. \A read \in Nat : Typed([fetch EXCEPT !.read = read])
          <6>1. <<>> \in Seq(Nat)
            OBVIOUS
          <6> QED BY <1>0, <6>1, TypedReading
        <5> QED BY <4>1, <5>1
      <4>3. f.kind = fetch.kind /\ f.header = fetch.header /\ f.at = fetch.at
        BY <1>0 DEF Typed
      <4> HIDE DEF f
      <4> QED BY <2>1, <4>2, <4>3 DEF ReadText
    <3>2. fetch' = IF f.read = RawSize - 1 THEN TextEnds(f) ELSE f
      BY <2>1 DEF ReadText
    <3> HIDE DEF f
    <3>3. CASE f.read = RawSize - 1
      BY <3>1, <3>2, <3>3, TextEndsSound
    <3>4. CASE f.read # RawSize - 1
      BY <3>1, <3>2, <3>4 DEF Sound, Exact
    <3> QED BY <3>3, <3>4
  <2>2. CASE ReadHeader(n)
    BY <2>0, <2>2, ReadHeaderSound
  <2>3. CASE ReadBody(n)
    BY <2>0, <2>3, ReadBodySound
  <2> QED BY <1>2, <2>1, <2>2, <2>3
<1>3. CASE FetchEnds
  <2>1. CASE fetch.kind = "text"
    BY <1>0, <1>3, <2>1, TextEndsSound DEF FetchEnds
  <2>2. CASE fetch.kind = "art"
    BY <1>0, <1>3, <2>2, ArtEndsSound DEF FetchEnds, Sound
  <2> QED BY <2>1, <2>2, <1>0 DEF Typed
<1>4. CASE UNCHANGED fetch
  BY <1>4
<1> QED BY <1>1, <1>2, <1>3, <1>4 DEF FetchNext

(***************************************************************************)
(* For buffers, headers and answers of any length, however the host's      *)
(* record layer cuts an answer into reads, https_launch_get and            *)
(* https_launch_get_binary hand over the body's first bytes in order.      *)
(***************************************************************************)
THEOREM FetchIsExact == FetchInit /\ [][FetchNext]_fetch => []FetchedExact
<1>1. FetchIInv => FetchedExact
  BY DEF FetchIInv
<1> QED BY <1>1, FetchInitInv, FetchStep, PTL

(***************************************************************************)
(* The software decoder and the Media Engine's pictures.                   *)
(***************************************************************************)
Slots == RgbaIndex \cup {NoSlot}
MeRecords == [pixels : [RgbaIndex -> {"blank", "writing", "torn", "whole"}], idx : RgbaIndex, avail : BOOLEAN,
              job : Slots, pending : Slots, last : Slots, newest : Slots]
DecRecords == [codec : BOOLEAN, refs : {"none", "whole", "broken"},
               saw : BOOLEAN, full : BOOLEAN, corrupt : BOOLEAN, lgf : BOOLEAN, fec : BOOLEAN,
               wait : 0 .. WaitPeriod, streak : 0 .. Longest, resetPending : BOOLEAN, pausing : BOOLEAN,
               key : BOOLEAN, rewind : BOOLEAN]

\* The picture that is converted is the pending one; what is pending and converted, and what was last,
\* is whole.  An engine that is gone leaves nothing pending, nor does the mode without delay.
Pixels(m) ==
    /\ m.job # NoSlot => m.job = m.pending /\ m.pixels[m.job] = "writing"
    /\ m.pending # NoSlot => m.avail /\ ~ ZeroDelay
    /\ m.pending # NoSlot /\ m.job = NoSlot => m.pixels[m.pending] = "whole"
    /\ m.last # NoSlot => m.pixels[m.last] = "whole"

\* The slot the next picture goes to is neither the pending one's nor, when nothing is pending, the
\* last one's.
Apart(m) ==
    /\ m.pending # NoSlot => m.pending # m.idx
    /\ m.pending = NoSlot /\ m.last # NoSlot => m.last # m.idx

\* What may be asked of the host is one of three.
Requests == {"nothing", "rfi", "idr"}

\* What is pictured in m is so in n too.
Spared(m, n) == \A s \in RgbaIndex : m.pixels[s] = "whole" => n.pixels[s] = "whole"

DecoderTypes ==
    /\ me \in MeRecords /\ dec \in DecRecords
    /\ thread \in {"running", "hung", "offline"} /\ asked \in {"nothing", "rfi", "idr"}
    /\ gate \in {"none", "paused", "dialog"} /\ restarts \in 0 .. HangRestarts /\ faults \in 0 .. Faults
    /\ event \in Events

DecoderIInv ==
    /\ DecoderTypes
    /\ Pixels(me) /\ (dec.codec => Apart(me))
    /\ HandedOutWhole

\* What can be stored in a record of the Media Engine.
LEMMA MeFields ==
  ASSUME NEW m \in MeRecords
  PROVE  /\ \A s \in Slots : /\ [m EXCEPT !.job = s] \in MeRecords /\ [m EXCEPT !.pending = s] \in MeRecords
                             /\ [m EXCEPT !.last = s] \in MeRecords /\ [m EXCEPT !.newest = s] \in MeRecords
         /\ \A s \in RgbaIndex : [m EXCEPT !.idx = s] \in MeRecords
BY DEF MeRecords

\* The Media Engine finishing keeps what is whole.
LEMMA FinishedKeeps ==
  ASSUME NEW m \in MeRecords, Pixels(m)
  PROVE  /\ Finished(m) \in MeRecords /\ Pixels(Finished(m)) /\ Spared(m, Finished(m))
         /\ Finished(m).job = NoSlot /\ Finished(m).pending = m.pending /\ Finished(m).last = m.last
         /\ Finished(m).idx = m.idx /\ Finished(m).avail = m.avail /\ Finished(m).newest = m.newest
<1>1. CASE m.job = NoSlot
  BY <1>1 DEF Finished, Spared
<1>2. CASE m.job # NoSlot
  <2>1. m.job \in RgbaIndex /\ NoSlot \in Slots
    BY <1>2 DEF MeRecords, Slots
  <2>2. Finished(m) = [m EXCEPT !.pixels[m.job] = "whole", !.job = NoSlot]
    BY <1>2 DEF Finished
  <2>3. /\ Finished(m) \in MeRecords /\ Finished(m).pixels = [m.pixels EXCEPT ![m.job] = "whole"]
        /\ Finished(m).job = NoSlot /\ Finished(m).pending = m.pending /\ Finished(m).last = m.last
        /\ Finished(m).idx = m.idx /\ Finished(m).avail = m.avail /\ Finished(m).newest = m.newest
    <3> DEFINE p == [m.pixels EXCEPT ![m.job] = "whole"]
    <3>1. p \in [RgbaIndex -> {"blank", "writing", "torn", "whole"}]
      BY <2>1 DEF MeRecords
    <3>2. Finished(m) = [m EXCEPT !.pixels = p, !.job = NoSlot]
      BY <2>2
    <3> HIDE DEF p
    <3>3. /\ Finished(m) \in MeRecords /\ Finished(m).pixels = p
          /\ Finished(m).job = NoSlot /\ Finished(m).pending = m.pending /\ Finished(m).last = m.last
          /\ Finished(m).idx = m.idx /\ Finished(m).avail = m.avail /\ Finished(m).newest = m.newest
      BY <2>1, <3>1, <3>2 DEF MeRecords
    <3> QED BY <3>3 DEF p
  <2>4. \A s \in RgbaIndex : Finished(m).pixels[s] = IF s = m.job THEN "whole" ELSE m.pixels[s]
    BY <2>1, <2>3 DEF MeRecords
  <2>5. m.pending \in Slots /\ m.last \in Slots
    BY DEF MeRecords
  <2> QED BY <1>2, <2>1, <2>3, <2>4, <2>5 DEF Pixels, Spared, Slots
<1> QED BY <1>1, <1>2

\* The slot after a slot is another one.
LEMMA NextSlot ==
  ASSUME NEW s \in RgbaIndex
  PROVE  (s % RgbaSlots) + 1 \in RgbaIndex /\ (s % RgbaSlots) + 1 # s /\ s \in Slots /\ s # NoSlot /\ NoSlot \in Slots
<1>1. CASE RgbaSlots = 2
  BY <1>1 DEF RgbaIndex, Slots, NoSlot
<1>2. CASE RgbaSlots = 3
  BY <1>2 DEF RgbaIndex, Slots, NoSlot
<1> QED BY <1>1, <1>2, SoftwareDecoderAssumption DEF SoftwareDecoderAssumption

\* A finished picture becomes the last one.
LEMMA TakenKeeps ==
  ASSUME NEW m \in MeRecords, Pixels(m), m.pending # NoSlot, m.job = NoSlot
  PROVE  /\ Taken(m) \in MeRecords /\ Pixels(Taken(m)) /\ Taken(m).pixels = m.pixels
         /\ Taken(m).last = m.pending /\ Taken(m).pending = NoSlot /\ Taken(m).job = NoSlot
         /\ Taken(m).idx = m.idx /\ Taken(m).avail = m.avail /\ Taken(m).newest = m.newest
<1>1. m.pending \in Slots /\ NoSlot \in Slots
  BY DEF MeRecords, Slots
<1>2. /\ Taken(m) \in MeRecords /\ Taken(m).pixels = m.pixels
      /\ Taken(m).last = m.pending /\ Taken(m).pending = NoSlot /\ Taken(m).job = NoSlot
      /\ Taken(m).idx = m.idx /\ Taken(m).avail = m.avail /\ Taken(m).newest = m.newest
  BY <1>1 DEF MeRecords, Taken
<1> QED BY <1>2 DEF Pixels

\* What the engine's record is after a collection that waits.
AfterWait(m, hangs, back) == collect_pending_me_frame(m, TRUE, hangs, back).m

\* Collecting with a wait that does not run out leaves no conversion under way.
LEMMA CollectWaits ==
  ASSUME NEW m \in MeRecords, NEW hangs, ~ hangs, NEW back, Pixels(m), NEW c, c = AfterWait(m, hangs, back)
  PROVE  /\ c \in MeRecords /\ Pixels(c) /\ Spared(m, c) /\ c.job = NoSlot /\ c.pending = NoSlot
         /\ c.last = IF m.pending = NoSlot THEN m.last ELSE m.pending
         /\ c.idx = m.idx /\ c.avail = m.avail /\ c.newest = m.newest
<1>1. CASE m.pending = NoSlot
  BY <1>1 DEF AfterWait, collect_pending_me_frame, Pixels, Spared
<1>2. CASE m.pending # NoSlot
  <2>1. m.avail
    BY <1>2 DEF Pixels
  <2>2. CASE m.job = NoSlot
    <3>1. c = Taken(m)
      BY <1>2, <2>1, <2>2 DEF AfterWait, collect_pending_me_frame
    <3> QED BY <1>2, <2>2, <3>1, TakenKeeps DEF Spared
  <2>3. CASE m.job # NoSlot
    <3>1. c = Taken(Finished(m))
      BY <1>2, <2>1, <2>3 DEF AfterWait, collect_pending_me_frame
    <3>2. /\ Finished(m) \in MeRecords /\ Pixels(Finished(m)) /\ Spared(m, Finished(m))
          /\ Finished(m).job = NoSlot /\ Finished(m).pending = m.pending /\ Finished(m).last = m.last
          /\ Finished(m).idx = m.idx /\ Finished(m).avail = m.avail /\ Finished(m).newest = m.newest
      BY FinishedKeeps
    <3> DEFINE f == Finished(m)
    <3> HIDE DEF f
    <3>3. /\ Taken(f) \in MeRecords /\ Pixels(Taken(f)) /\ Taken(f).pixels = f.pixels
          /\ Taken(f).last = f.pending /\ Taken(f).pending = NoSlot /\ Taken(f).job = NoSlot
          /\ Taken(f).idx = f.idx /\ Taken(f).avail = f.avail /\ Taken(f).newest = f.newest
      BY <1>2, <3>2, TakenKeeps DEF f
    <3> QED BY <1>2, <3>1, <3>2, <3>3 DEF f, Spared
  <2> QED BY <2>2, <2>3
<1> QED BY <1>1, <1>2

\* The picture that is handed out is whole and in another slot than the one being written.
LEMMA ConvertKeeps ==
  ASSUME NEW m \in MeRecords, NEW hangs, ~ hangs, NEW back, Pixels(m), Apart(m), NEW g, g = ConvertPicture(m, hangs, back)
  PROVE  /\ g.m \in MeRecords /\ Pixels(g.m) /\ Apart(g.m)
         /\ g.out \in RgbaIndex /\ g.m.pixels[g.out] = "whole"
<1> DEFINE slot == m.idx
           next == [m EXCEPT !.idx = (slot % RgbaSlots) + 1]
           coll == IF ZeroDelay THEN next ELSE AfterWait(next, hangs, back)
<1>1. /\ slot \in RgbaIndex /\ slot \in Slots /\ slot # NoSlot /\ NoSlot \in Slots
      /\ (slot % RgbaSlots) + 1 \in RgbaIndex /\ (slot % RgbaSlots) + 1 # slot
  BY NextSlot DEF MeRecords
<1>2. /\ next \in MeRecords /\ next.pixels = m.pixels /\ next.job = m.job /\ next.pending = m.pending
      /\ next.last = m.last /\ next.avail = m.avail /\ next.idx \in RgbaIndex /\ next.idx # slot
  BY <1>1 DEF MeRecords
<1>3. Pixels(next)
  BY <1>2 DEF Pixels
<1> HIDE DEF next, slot
<1>4. CASE ~ m.avail
  <2> DEFINE p == [next.pixels EXCEPT ![slot] = "whole"]
  <2>1. g.out = slot /\ g.m = [next EXCEPT !.pixels = p, !.last = slot]
    BY <1>4 DEF ConvertPicture, next, slot
  <2>2. p \in [RgbaIndex -> {"blank", "writing", "torn", "whole"}] /\ p[slot] = "whole"
    BY <1>1, <1>2 DEF MeRecords
  <2> HIDE DEF p
  <2>3. /\ g.m \in MeRecords /\ g.m.pixels = p /\ g.m.last = slot /\ g.m.pending = m.pending /\ g.m.job = m.job
        /\ g.m.idx = next.idx
    BY <1>1, <1>2, <2>1, <2>2 DEF MeRecords
  <2>4. m.pending = NoSlot /\ m.job = NoSlot
    BY <1>4 DEF Pixels
  <2> QED BY <1>1, <1>2, <2>1, <2>2, <2>3, <2>4 DEF Pixels, Apart
<1>5. CASE m.avail
  <2>1. /\ coll \in MeRecords /\ Pixels(coll) /\ coll.job = NoSlot /\ coll.pending = NoSlot
        /\ coll.idx = next.idx /\ coll.avail
        /\ ~ ZeroDelay /\ coll.last # NoSlot => coll.last # slot
    <3>1. CASE ZeroDelay
      <4>1. m.pending = NoSlot /\ m.job = NoSlot
        BY <3>1 DEF Pixels
      <4> QED BY <1>2, <1>3, <1>5, <3>1, <4>1
    <3>2. CASE ~ ZeroDelay
      <4> DEFINE c == AfterWait(next, hangs, back)
      <4>1. /\ c \in MeRecords /\ Pixels(c) /\ c.job = NoSlot /\ c.pending = NoSlot
            /\ c.last = IF next.pending = NoSlot THEN next.last ELSE next.pending
            /\ c.idx = next.idx /\ c.avail = next.avail
        <5>1. c = AfterWait(next, hangs, back)
          OBVIOUS
        <5> HIDE DEF c
        <5> QED BY <1>2, <1>3, <5>1, CollectWaits
      <4>2. coll = c
        BY <3>2
      <4> HIDE DEF c, coll
      <4>3. c.last # NoSlot => c.last # slot
        BY <1>2, <4>1 DEF Apart, slot
      <4> QED BY <1>2, <1>5, <4>1, <4>2, <4>3
    <3> QED BY <3>1, <3>2
  <2> DEFINE p == [coll.pixels EXCEPT ![slot] = "writing"]
             begun == [coll EXCEPT !.job = slot, !.pending = slot, !.pixels = p]
  <2>2. /\ ~ ZeroDelay /\ coll.last # NoSlot => g = [m |-> begun, out |-> coll.last]
        /\ ~ (~ ZeroDelay /\ coll.last # NoSlot) => g = Waited(begun, slot, hangs)
    <3>1. coll.job = NoSlot
      BY <2>1
    <3>2. begun = IF coll.job # NoSlot THEN [coll EXCEPT !.pending = slot]
                  ELSE [coll EXCEPT !.job = slot, !.pending = slot, !.pixels[slot] = "writing"]
      BY <3>1
    <3>3. g = IF ~ m.avail
                THEN [m |-> [next EXCEPT !.pixels[slot] = "whole", !.last = slot], out |-> slot]
              ELSE IF ~ ZeroDelay /\ coll.last # NoSlot
                THEN [m |-> begun, out |-> coll.last]
              ELSE Waited(begun, slot, hangs)
      <4> HIDE DEF begun
      <4> QED BY ONLY <3>2, g = ConvertPicture(m, hangs, back) DEF ConvertPicture, AfterWait, next, slot, coll
    <3> HIDE DEF begun, coll
    <3> QED BY <1>5, <3>3
  <2> HIDE DEF coll
  <2>3. p \in [RgbaIndex -> {"blank", "writing", "torn", "whole"}] /\ p[slot] = "writing"
        /\ \A s \in RgbaIndex : s # slot => p[s] = coll.pixels[s]
    BY <1>1, <2>1 DEF MeRecords
  <2> HIDE DEF p
  <2>4. /\ begun \in MeRecords /\ begun.pixels = p /\ begun.job = slot /\ begun.pending = slot
        /\ begun.last = coll.last /\ begun.idx = next.idx /\ begun.avail
    BY <1>1, <2>1, <2>3 DEF MeRecords
  <2> HIDE DEF begun
  <2>5. coll.last \in Slots
    BY <2>1 DEF MeRecords
  <2>6. CASE ~ ZeroDelay /\ coll.last # NoSlot
    <3>1. g.m = begun /\ g.out = coll.last
      BY <2>2, <2>6
    <3>2. coll.last \in RgbaIndex /\ p[coll.last] = "whole"
      BY <2>1, <2>3, <2>5, <2>6 DEF Pixels, Slots
    <3> QED BY <1>1, <1>2, <2>3, <2>4, <2>6, <3>1, <3>2 DEF Pixels, Apart
  <2>7. CASE ~ (~ ZeroDelay /\ coll.last # NoSlot)
    <3> DEFINE w == Finished(begun)
    <3>1. g.m = [w EXCEPT !.last = slot, !.pending = NoSlot] /\ g.out = slot
      BY <2>2, <2>7 DEF Waited
    <3>2. w = [begun EXCEPT !.pixels[slot] = "whole", !.job = NoSlot]
      BY <1>1, <2>4 DEF Finished
    <3> DEFINE q == [p EXCEPT ![slot] = "whole"]
    <3>3. q \in [RgbaIndex -> {"blank", "writing", "torn", "whole"}] /\ q[slot] = "whole"
      BY <1>1, <2>3
    <3>4. w = [begun EXCEPT !.pixels = q, !.job = NoSlot]
      BY <2>4, <3>2
    <3> HIDE DEF w, q
    <3>5. w \in MeRecords /\ w.pixels = q /\ w.job = NoSlot /\ w.idx = begun.idx
      BY <1>1, <2>4, <3>3, <3>4 DEF MeRecords
    <3>6. /\ g.m \in MeRecords /\ g.m.pixels = q /\ g.m.job = NoSlot /\ g.m.idx = next.idx
          /\ g.m.pending = NoSlot /\ g.m.last = slot
      BY <1>1, <2>4, <3>1, <3>5 DEF MeRecords
    <3> QED BY <1>1, <1>2, <3>1, <3>3, <3>6 DEF Pixels, Apart
  <2> QED BY <2>6, <2>7
<1> QED BY <1>4, <1>5

\* A frame the library does not get changes no flag but what it has of the references.
LEMMA MissedKeeps ==
  ASSUME NEW d \in DecRecords
  PROVE  Missed(d) \in DecRecords /\ Missed(d).codec = d.codec
BY DEF DecRecords, Missed

\* What the pipeline collects before it decodes.
Early(m) == IF ZeroDelay THEN [m |-> m, got |-> FALSE] ELSE collect_pending_me_frame(m, FALSE, FALSE, TRUE)

\* ... is nothing or the pending picture, whole.
LEMMA EarlyKeeps ==
  ASSUME NEW m \in MeRecords, Pixels(m), NEW codec \in BOOLEAN, (codec => Apart(m)), NEW e, e = Early(m)
  PROVE  /\ e.m \in MeRecords /\ Pixels(e.m) /\ (codec => Apart(e.m)) /\ Spared(m, e.m) /\ e.got \in BOOLEAN /\ e.m.newest = m.newest
         /\ e.got => e.m.last \in RgbaIndex /\ e.m.pixels[e.m.last] = "whole"
<1>1. CASE e = [m |-> m, got |-> FALSE]
  BY <1>1 DEF Spared
<1>2. CASE e = [m |-> Taken(m), got |-> TRUE] /\ m.pending # NoSlot /\ m.job = NoSlot
  <2>1. m.pending \in RgbaIndex /\ m.pixels[m.pending] = "whole"
    BY <1>2 DEF Pixels, MeRecords, Slots
  <2>2. e.m = Taken(m) /\ e.got = TRUE
    BY <1>2
  <2>3. /\ Taken(m) \in MeRecords /\ Pixels(Taken(m)) /\ Taken(m).pixels = m.pixels
        /\ Taken(m).last = m.pending /\ Taken(m).pending = NoSlot /\ Taken(m).idx = m.idx /\ Taken(m).newest = m.newest
    BY <1>2, TakenKeeps
  <2> QED BY <1>2, <2>1, <2>2, <2>3 DEF Apart, Spared
<1>3. \/ e = [m |-> m, got |-> FALSE]
      \/ e = [m |-> Taken(m), got |-> TRUE] /\ m.pending # NoSlot /\ m.job = NoSlot
  <2>1. CASE ZeroDelay
    BY <2>1 DEF Early
  <2>2. CASE ~ ZeroDelay
    <3>1. e = IF m.pending = NoSlot \/ ~ m.avail THEN [m |-> m, got |-> FALSE]
              ELSE IF m.job = NoSlot THEN [m |-> Taken(m), got |-> TRUE]
              ELSE [m |-> m, got |-> FALSE]
      BY <2>2 DEF Early, collect_pending_me_frame
    <3> QED BY <3>1
  <2> QED BY <2>1, <2>2
<1> QED BY <1>1, <1>2, <1>3

\* What can become of a frame in the library.
Results == {"picture", "refLost", "error", "concealed", "pending"}

\* The pipeline returns a whole picture or none, and without one leaves what was shown as it is.
Decoded(d, m, r) ==
    /\ r.d \in DecRecords /\ r.d.codec = d.codec /\ r.m \in MeRecords /\ Pixels(r.m) /\ (d.codec => Apart(r.m))
    /\ r.out \in Slots /\ (r.out # NoSlot => r.m.pixels[r.out] = "whole")
    /\ (r.out = NoSlot => Spared(m, r.m) /\ r.m.newest = m.newest)
    /\ r.ret \in {"picture", "pending", "waiting", "refLost", "error"} /\ r.req \in Requests

\* Whatever becomes of a frame, the pipeline hands out a whole picture or none.
LEMMA DecodeKeeps ==
  ASSUME NEW d \in DecRecords, NEW m \in MeRecords, Pixels(m), d.codec => Apart(m),
         NEW kind, NEW o \in Results, NEW hangs, ~ hangs, NEW back
  PROVE  Decoded(d, m, oh264_pipeline_decode_frame(d, m, kind, o, hangs, back))
<1> DEFINE r == oh264_pipeline_decode_frame(d, m, kind, o, hangs, back)
<1> SUFFICES Decoded(d, m, r)
  OBVIOUS
<1> DEFINE e == Early(m)
           bad == [Missed(d) EXCEPT !.corrupt = TRUE, !.full = FALSE]
           got == IF Decodable(d, kind) THEN [d EXCEPT !.refs = "whole"] ELSE Missed(d)
           seen == [d EXCEPT !.refs = "whole", !.saw = TRUE, !.full = TRUE, !.corrupt = FALSE]
           good == ConvertPicture(e.m, hangs, back)
           Shown(dd, ret, req) == [d |-> dd, m |-> e.m, out |-> IF e.got THEN e.m.last ELSE NoSlot,
                                   ret |-> IF e.got THEN "picture" ELSE ret, req |-> req]
<1>1. /\ bad \in DecRecords /\ bad.codec = d.codec /\ got \in DecRecords /\ got.codec = d.codec
      /\ seen \in DecRecords /\ seen.codec = d.codec /\ d.codec \in BOOLEAN
      /\ Missed(d) \in DecRecords /\ Missed(d).codec = d.codec
  BY MissedKeeps DEF DecRecords
<1>2. \/ r = [d |-> d, m |-> m, out |-> NoSlot, ret |-> "error", req |-> "nothing"]
      \/ r = Shown(bad, "waiting", "idr")
      \/ r = [d |-> Missed(d), m |-> e.m, out |-> NoSlot, ret |-> "refLost", req |-> "nothing"]
      \/ r = Shown(bad, "error", IF d.refs = "none" THEN "idr" ELSE "nothing")
      \/ r = Shown(got, "pending", "nothing")
      \/ d.codec /\ r = [d |-> seen, m |-> good.m, out |-> good.out, ret |-> "picture", req |-> "nothing"]
  <2>0. o \in {"picture", "refLost", "error", "concealed", "pending"}
    BY DEF Results
  <2>1. r = CASE ~ d.codec -> [d |-> d, m |-> m, out |-> NoSlot, ret |-> "error", req |-> "nothing"]
              [] d.codec /\ o = "concealed" -> Shown(bad, "waiting", "idr")
              [] d.codec /\ o = "refLost" ->
                    [d |-> Missed(d), m |-> e.m, out |-> NoSlot, ret |-> "refLost", req |-> "nothing"]
              [] d.codec /\ o = "error" -> Shown(bad, "error", IF d.refs = "none" THEN "idr" ELSE "nothing")
              [] d.codec /\ o = "pending" -> Shown(got, "pending", "nothing")
              [] d.codec /\ o = "picture" ->
                    [d |-> seen, m |-> good.m, out |-> good.out, ret |-> "picture", req |-> "nothing"]
    BY Zenon DEF oh264_pipeline_decode_frame, Early, Results
  <2> HIDE DEF e, bad, got, seen, good, Shown
  <2>2. CASE ~ d.codec
    BY <2>1, <2>2
  <2>3. ASSUME d.codec, o = "concealed" PROVE r = Shown(bad, "waiting", "idr")
    BY <2>1, <2>3
  <2>4. ASSUME d.codec, o = "refLost"
        PROVE  r = [d |-> Missed(d), m |-> e.m, out |-> NoSlot, ret |-> "refLost", req |-> "nothing"]
    BY <2>1, <2>4
  <2>5. ASSUME d.codec, o = "error"
        PROVE  r = Shown(bad, "error", IF d.refs = "none" THEN "idr" ELSE "nothing")
    BY <2>1, <2>5
  <2>6. ASSUME d.codec, o = "pending" PROVE r = Shown(got, "pending", "nothing")
    BY <2>1, <2>6
  <2>7. ASSUME d.codec, o = "picture"
        PROVE  r = [d |-> seen, m |-> good.m, out |-> good.out, ret |-> "picture", req |-> "nothing"]
    BY <2>1, <2>7
  <2> QED BY <2>0, <2>2, <2>3, <2>4, <2>5, <2>6, <2>7
<1>3. /\ e.m \in MeRecords /\ Pixels(e.m) /\ (d.codec => Apart(e.m)) /\ Spared(m, e.m) /\ e.got \in BOOLEAN /\ e.m.newest = m.newest
      /\ e.got => e.m.last \in RgbaIndex /\ e.m.pixels[e.m.last] = "whole"
  <2>1. e = Early(m)
    OBVIOUS
  <2> HIDE DEF e
  <2> QED BY <1>1, <2>1, EarlyKeeps
<1> HIDE DEF e, bad, got, seen, r
<1>4. ASSUME NEW dd \in DecRecords, dd.codec = d.codec, NEW ret \in {"pending", "waiting", "error"}, NEW req \in Requests,
             r = Shown(dd, ret, req)
      PROVE  Decoded(d, m, r)
  BY <1>3, <1>4 DEF Decoded, Slots
<1>5. ASSUME d.codec, r = [d |-> seen, m |-> good.m, out |-> good.out, ret |-> "picture", req |-> "nothing"]
      PROVE  Decoded(d, m, r)
  <2>1. Apart(e.m)
    BY <1>3, <1>5 DEF Apart
  <2>2. good = ConvertPicture(e.m, hangs, back)
    OBVIOUS
  <2> HIDE DEF good
  <2>3. /\ good.m \in MeRecords /\ Pixels(good.m) /\ Apart(good.m)
        /\ good.out \in RgbaIndex /\ good.m.pixels[good.out] = "whole"
    BY <1>3, <2>1, <2>2, ConvertKeeps
  <2>4. good.out # NoSlot
    BY <2>3, NextSlot
  <2>5. r.d = seen /\ r.m = good.m /\ r.out = good.out /\ r.ret = "picture" /\ r.req = "nothing"
    BY <1>5
  <2>6. (d.codec => Apart(r.m))
    BY <1>5, <2>3, <2>5 DEF Apart
  <2> QED BY <1>1, <2>3, <2>4, <2>5, <2>6 DEF Decoded, Slots, Requests
<1>6. CASE r = [d |-> d, m |-> m, out |-> NoSlot, ret |-> "error", req |-> "nothing"]
  BY <1>6 DEF Decoded, Slots, Spared, Requests
<1>7. CASE r = [d |-> Missed(d), m |-> e.m, out |-> NoSlot, ret |-> "refLost", req |-> "nothing"]
  BY <1>1, <1>3, <1>7 DEF Decoded, Slots, Requests
<1> HIDE DEF Shown
<1>8. "nothing" \in Requests /\ "idr" \in Requests
  BY DEF Requests
<1> QED BY <1>1, <1>2, <1>8, <1>4, <1>5, <1>6, <1>7

\* A codec that is created again shows nothing of before; one that is not is none.
LEMMA ResetKeeps ==
  ASSUME NEW d \in DecRecords, NEW m \in MeRecords, Pixels(m), NEW ok \in BOOLEAN
  PROVE  /\ ResetCodec(d, ok) \in DecRecords /\ ResetCodec(d, ok).codec = ok
         /\ ResetMe(m, ok) \in MeRecords /\ Pixels(ResetMe(m, ok)) /\ (ok => Apart(ResetMe(m, ok)))
         /\ Spared(m, ResetMe(m, ok)) /\ ResetMe(m, ok).newest = m.newest
<1>1. ResetCodec(d, ok) \in DecRecords /\ ResetCodec(d, ok).codec = ok
  BY DEF ResetCodec, DecRecords
<1> DEFINE f == Finished(m)
           q == [f EXCEPT !.pending = NoSlot]
<1>2. f \in MeRecords /\ Pixels(f) /\ Spared(m, f) /\ f.job = NoSlot /\ f.newest = m.newest
  BY FinishedKeeps
<1>3. ResetMe(m, ok) = IF ok THEN [q EXCEPT !.last = NoSlot] ELSE q
  BY DEF ResetMe
<1> HIDE DEF f
<1>4. NoSlot \in Slots
  BY DEF Slots
<1>5. q \in MeRecords /\ q.pixels = f.pixels /\ q.job = NoSlot /\ q.pending = NoSlot /\ q.last = f.last /\ q.newest = m.newest
  BY <1>2, <1>4 DEF MeRecords
<1> HIDE DEF q
<1>6. CASE ok
  <2>1. ResetMe(m, ok) = [q EXCEPT !.last = NoSlot]
    BY <1>3, <1>6
  <2> DEFINE n == ResetMe(m, ok)
  <2>2. /\ n \in MeRecords /\ n.pixels = f.pixels /\ n.job = NoSlot /\ n.pending = NoSlot /\ n.last = NoSlot
        /\ n.newest = m.newest
    BY <1>4, <1>5, <2>1 DEF MeRecords
  <2> QED BY <1>1, <1>2, <2>2 DEF Pixels, Apart, Spared
<1>7. CASE ~ ok
  <2>1. ResetMe(m, ok) = q
    BY <1>3, <1>7
  <2> QED BY <1>1, <1>2, <1>5, <1>7, <2>1 DEF Pixels, Apart, Spared
<1> QED BY <1>6, <1>7

\* No flag that the answers of the callback set spoils the record.
LEMMA StreakKeeps ==
  ASSUME NEW d \in DecRecords
  PROVE  Streak(d) \in DecRecords /\ Streak(d).codec = d.codec
<1>1. Longest \in Nat /\ Longest > 0
  BY SoftwareDecoderAssumption DEF SoftwareDecoderAssumption, Longest
<1>2. d.streak \in 0 .. Longest
  BY DEF DecRecords
<1>3. (IF d.streak < Longest THEN d.streak + 1 ELSE d.streak) \in 0 .. Longest
  BY <1>1, <1>2
<1>4. \A n \in 0 .. Longest : [d EXCEPT !.streak = n] \in DecRecords /\ [d EXCEPT !.streak = n].codec = d.codec
  BY DEF DecRecords
<1> QED BY <1>3, <1>4 DEF Streak

\* Asking for a reference leaves the codec as it is.
LEMMA RecoveryKeeps ==
  ASSUME NEW d \in DecRecords
  PROVE  /\ request_reference_recovery(d).d \in DecRecords /\ request_reference_recovery(d).d.codec = d.codec
         /\ request_reference_recovery(d).req \in Requests
<1> DEFINE x == [d EXCEPT !.corrupt = TRUE, !.full = FALSE]
<1>1. x \in DecRecords /\ x.codec = d.codec
  BY DEF DecRecords
<1>2. request_reference_recovery(d) \in {[d |-> d, req |-> "idr"], [d |-> x, req |-> "idr"]}
  BY DEF request_reference_recovery
<1> HIDE DEF x
<1> QED BY <1>1, <1>2 DEF Requests

\* What an answer of the callback leaves of the pictures, and what it asks for.
Replied(m, x) ==
    /\ x.d \in DecRecords /\ x.m \in MeRecords /\ Pixels(x.m) /\ (x.d.codec => Apart(x.m))
    /\ Spared(m, x.m) /\ x.m.newest = m.newest /\ x.req \in Requests

\* Every answer keeps what is whole.
LEMMA AnswerKeeps ==
  ASSUME NEW d \in DecRecords, NEW m \in MeRecords, Pixels(m), d.codec => Apart(m),
         NEW ret \in {"picture", "pending", "waiting", "refLost", "error"}, NEW far, NEW ok \in BOOLEAN
  PROVE  Replied(m, Answer(d, m, ret, far, ok))
<1> DEFINE s == Streak(d)
           a == Answer(d, m, ret, far, ok)
<1>1. s \in DecRecords /\ s.codec = d.codec
  BY StreakKeeps
<1>2. /\ 0 \in 0 .. WaitPeriod /\ 1 \in 0 .. WaitPeriod /\ 0 \in 0 .. Longest /\ WaitPeriod \in Nat
      /\ d.wait \in 0 .. WaitPeriod
  BY SoftwareDecoderAssumption DEF SoftwareDecoderAssumption, Longest, DecRecords
\* An answer that leaves the engine and the codec alone.
<1>3. ASSUME NEW x \in DecRecords, x.codec = d.codec, NEW req \in Requests PROVE Replied(m, Keeping(x, m, req))
  BY <1>3 DEF Replied, Keeping, Apart, Spared
\* ... and one that resets both.
<1>4. ASSUME NEW x \in DecRecords, x.codec = ok, NEW req \in Requests PROVE Replied(m, Keeping(x, ResetMe(m, ok), req))
  BY <1>4, ResetKeeps DEF Replied, Keeping
<1> HIDE DEF s
<1>5. Replied(m, AfterPicture(d, m))
  <2> DEFINE x == [d EXCEPT !.wait = 0, !.streak = 0, !.lgf = @ \/ (d.full /\ ~ d.corrupt)]
  <2>1. x \in DecRecords /\ x.codec = d.codec
    BY <1>2 DEF DecRecords
  <2>2. AfterPicture(d, m) = Keeping(x, m, "nothing")
    BY DEF AfterPicture
  <2> HIDE DEF x
  <2> QED BY <1>3, <2>1, <2>2 DEF Requests
<1>6. Replied(m, AfterPending(d, m))
  <2> DEFINE x == [s EXCEPT !.streak = 0]
             r == request_reference_recovery(s)
             y == [r.d EXCEPT !.streak = 0]
  <2>1. r.d \in DecRecords /\ r.d.codec = d.codec /\ r.req \in Requests
    BY <1>1, RecoveryKeeps
  <2> HIDE DEF r
  <2>2. x \in DecRecords /\ x.codec = d.codec /\ y \in DecRecords /\ y.codec = d.codec
    BY <1>1, <1>2, <2>1 DEF DecRecords
  <2>3. AfterPending(d, m) \in {Keeping(s, m, "nothing"), Keeping(x, m, "idr"), Keeping(y, m, r.req)}
    BY DEF AfterPending, s, r
  <2> HIDE DEF x, y
  <2> QED BY <1>1, <1>3, <2>1, <2>2, <2>3 DEF Requests
<1>7. Replied(m, AfterWaiting(d, m, ok))
  <2> DEFINE w == IF d.wait < WaitPeriod THEN d.wait + 1 ELSE 1
             x == [s EXCEPT !.wait = w]
             y == [ResetCodec(x, ok) EXCEPT !.lgf = FALSE, !.wait = 0, !.streak = 0]
             req == IF w = 1 THEN "idr" ELSE "nothing"
  <2>1. w \in 0 .. WaitPeriod
    BY <1>2
  <2>2. AfterWaiting(d, m, ok) \in {Keeping(y, ResetMe(m, ok), "idr"), Keeping(x, m, req)}
    BY DEF AfterWaiting, s
  <2>3. req \in Requests
    BY DEF Requests
  <2> HIDE DEF w, req
  <2>4. x \in DecRecords /\ x.codec = d.codec
    BY <1>1, <2>1 DEF DecRecords
  <2> HIDE DEF x
  <2>5. ResetCodec(x, ok) \in DecRecords /\ ResetCodec(x, ok).codec = ok
    BY <2>4, ResetKeeps
  <2>6. y \in DecRecords /\ y.codec = ok
    BY <1>2, <2>5 DEF DecRecords
  <2> HIDE DEF y
  <2> QED BY <1>3, <1>4, <2>2, <2>3, <2>4, <2>6 DEF Requests
<1>8. Replied(m, AfterRefLost(d, m, far))
  <2> DEFINE x == [s EXCEPT !.corrupt = TRUE, !.full = FALSE]
             y == [x EXCEPT !.fec = FALSE, !.wait = 0, !.key = FALSE, !.rewind = FALSE]
             z == [s EXCEPT !.wait = 0]
             Hard(v) == [v EXCEPT !.corrupt = TRUE, !.full = FALSE, !.streak = 0]
  <2>1. x \in DecRecords /\ x.codec = d.codec
    BY <1>1 DEF DecRecords
  <2>2. z \in DecRecords /\ z.codec = d.codec
    BY <1>1, <1>2 DEF DecRecords
  <2>3. \A v \in DecRecords : Hard(v) \in DecRecords /\ Hard(v).codec = v.codec
    BY <1>2 DEF DecRecords
  <2>4. AfterRefLost(d, m, far) \in
          {Keeping(x, m, "idr"), Keeping(y, m, "idr"), Keeping(z, m, "rfi"),
           Keeping(Hard(x), m, "idr"), Keeping(Hard(y), m, "idr"), Keeping(Hard(z), m, "idr")}
    BY DEF AfterRefLost, s, Keeping
  <2> HIDE DEF x, z
  <2>5. y \in DecRecords /\ y.codec = d.codec
    BY <1>2, <2>1 DEF DecRecords
  <2> HIDE DEF y, Hard
  <2> QED BY <1>3, <2>1, <2>2, <2>3, <2>4, <2>5 DEF Requests
<1>9. Replied(m, AfterError(d, m, ok))
  <2> DEFINE hard == s.streak >= FailHard
             y == [ResetCodec(s, ok) EXCEPT !.lgf = FALSE, !.fec = FALSE, !.wait = 0, !.streak = 0,
                                            !.key = FALSE, !.rewind = FALSE]
             Given(v) == [v EXCEPT !.fec = FALSE]
             r == request_reference_recovery(s)
             t == request_reference_recovery(y)
  <2>1. /\ hard => AfterError(d, m, ok) \in {Keeping(Given(t.d), ResetMe(m, ok), "idr"), Keeping(Given(y), ResetMe(m, ok), "idr")}
        /\ ~ hard => AfterError(d, m, ok) \in {Keeping(Given(r.d), m, r.req), Keeping(Given(s), m, "nothing")}
    BY DEF AfterError, s
  <2>2. ResetCodec(s, ok) \in DecRecords /\ ResetCodec(s, ok).codec = ok
    BY <1>1, ResetKeeps
  <2>3. y \in DecRecords /\ y.codec = ok
    BY <1>2, <2>2 DEF DecRecords
  <2>4. r.d \in DecRecords /\ r.d.codec = d.codec /\ r.req \in Requests
    BY <1>1, RecoveryKeeps
  <2> HIDE DEF y, r, hard
  <2>5. t.d \in DecRecords /\ t.d.codec = ok
    BY <2>3, RecoveryKeeps
  <2> HIDE DEF t
  <2>6. \A v \in DecRecords : Given(v) \in DecRecords /\ Given(v).codec = v.codec
    BY DEF DecRecords
  <2> HIDE DEF Given
  <2> QED BY <1>1, <1>3, <1>4, <2>1, <2>3, <2>4, <2>5, <2>6 DEF Requests
<1>10. \/ a = AfterPicture(d, m) \/ a = AfterPending(d, m) \/ a = AfterWaiting(d, m, ok)
       \/ a = AfterRefLost(d, m, far) \/ a = AfterError(d, m, ok)
  BY Zenon DEF Answer
<1> QED BY <1>5, <1>6, <1>7, <1>8, <1>9, <1>10

\* A kept picture that was handed out still is one.
LEMMA StillWhole ==
  ASSUME NEW m \in MeRecords, NEW n \in MeRecords, Spared(m, n), m.newest # NoSlot => m.pixels[m.newest] = "whole",
         n.newest = m.newest
  PROVE  n.newest # NoSlot => n.pixels[n.newest] = "whole"
<1>1. m.newest \in RgbaIndex \cup {NoSlot}
  BY DEF MeRecords, Slots
<1> QED BY <1>1 DEF Spared

\* The flags the callback sets when it begins.
LEMMA EntryKeeps ==
  ASSUME NEW d \in DecRecords
  PROVE  /\ Resumed(Entry(d)) \in DecRecords /\ Resumed(Entry(d)).codec = d.codec
         /\ Entry(d) \in DecRecords /\ Entry(d).codec = d.codec
<1>1. 0 \in 0 .. WaitPeriod /\ 0 \in 0 .. Longest
  BY SoftwareDecoderAssumption DEF SoftwareDecoderAssumption, Longest
<1>2. Entry(d) \in DecRecords /\ Entry(d).codec = d.codec
  BY <1>1 DEF Entry, DecRecords
<1> DEFINE e == Entry(d)
<1> HIDE DEF e
<1>3. e \in DecRecords => Resumed(e) \in DecRecords /\ Resumed(e).codec = e.codec
  BY <1>1 DEF Resumed, DecRecords
<1> QED BY <1>2, <1>3 DEF e

\* A request is one of three.
LEMMA AskKeeps ==
  ASSUME NEW p \in Requests, NEW q \in Requests
  PROVE  Ask(p, q) \in Requests
BY DEF Ask, Requests

\* A call of the callback that reaches the library keeps the invariant.
LEMMA CallbackKeeps ==
  ASSUME ~ MeMayHang, DecoderIInv, NEW kind \in FrameKinds, NEW rewinds \in BOOLEAN, NEW far \in BOOLEAN,
         NEW trouble \in Troubles, Callback(kind, rewinds, far, trouble)
  PROVE  DecoderIInv'
<1> DEFINE stored == [dec EXCEPT !.key = @ \/ kind = "idr", !.rewind = @ /\ ~ rewinds]
           fed == IF rewinds THEN "idr" ELSE kind
           d == Resumed(Entry(stored))
           resumes == IF dec.pausing THEN "idr" ELSE "nothing"
           hangs == trouble \in {"meHangs", "meGone"}
           back == trouble # "meGone"
           ok == trouble # "resetFails"
<1>1. me \in MeRecords /\ dec \in DecRecords /\ Pixels(me) /\ (dec.codec => Apart(me)) /\ HandedOutWhole
  BY DEF DecoderIInv, DecoderTypes
<1>2. ~ hangs /\ ok \in BOOLEAN
  BY DEF Troubles
<1>3. d \in DecRecords /\ d.codec = dec.codec
  <2>1. stored \in DecRecords /\ stored.codec = dec.codec
    BY <1>1 DEF DecRecords
  <2> HIDE DEF stored
  <2> QED BY <2>1, EntryKeeps
<1>4. resumes \in Requests
  BY DEF Requests
<1> HIDE DEF hangs, back, ok
<1>5. PICK o \in (IF trouble = "pending" THEN {"pending"} ELSE Outcomes(d, fed)) :
        LET r == oh264_pipeline_decode_frame(d, me, fed, o, hangs, back)
            x == IF rewinds /\ kind # "idr" THEN Missed(r.d) ELSE r.d
            a == Answer(x, r.m, r.ret, far, ok)
            wanted == IF trouble = "unheard" THEN "nothing" ELSE Ask(Ask(resumes, r.req), a.req)
        IN  /\ dec' = a.d
            /\ me' = IF r.out = NoSlot THEN a.m ELSE [a.m EXCEPT !.newest = r.out]
            /\ event' = Arrived(kind, r.out # NoSlot)
            /\ asked' = Ask(Answered(asked, kind), wanted)
            /\ restarts' \in IF r.out # NoSlot THEN {restarts} \cup ({restarts - 1} \cap Nat) ELSE {restarts}
  BY Zenon DEF Callback, hangs, back, ok
<1>6. o \in Results
  BY <1>5 DEF Outcomes, Results
<1> DEFINE r == oh264_pipeline_decode_frame(d, me, fed, o, hangs, back)
           x == IF rewinds /\ kind # "idr" THEN Missed(r.d) ELSE r.d
           a == Answer(x, r.m, r.ret, far, ok)
           wanted == IF trouble = "unheard" THEN "nothing" ELSE Ask(Ask(resumes, r.req), a.req)
<1>7. /\ dec' = a.d
      /\ me' = IF r.out = NoSlot THEN a.m ELSE [a.m EXCEPT !.newest = r.out]
      /\ event' = Arrived(kind, r.out # NoSlot)
      /\ asked' = Ask(Answered(asked, kind), wanted)
      /\ restarts' \in IF r.out # NoSlot THEN {restarts} \cup ({restarts - 1} \cap Nat) ELSE {restarts}
  BY <1>5
<1> HIDE DEF d, fed
<1>8. Decoded(d, me, r)
  <2>1. d.codec => Apart(me)
    BY <1>1, <1>3
  <2> QED BY <1>1, <1>2, <1>3, <1>6, <2>1, DecodeKeeps
<1> HIDE DEF r, resumes
<1>9. x \in DecRecords /\ x.codec = d.codec
  BY <1>8, MissedKeeps DEF Decoded
<1> HIDE DEF x
<1>10. Replied(r.m, a)
  <2>1. r.m \in MeRecords /\ Pixels(r.m) /\ (x.codec => Apart(r.m))
    BY <1>8, <1>9 DEF Decoded
  <2>2. r.ret \in {"picture", "pending", "waiting", "refLost", "error"}
    BY <1>8 DEF Decoded
  <2> QED BY <1>2, <1>9, <2>1, <2>2, AnswerKeeps
<1> HIDE DEF a
<1>11. /\ me' \in MeRecords /\ me'.pixels = a.m.pixels /\ me'.job = a.m.job /\ me'.pending = a.m.pending
       /\ me'.last = a.m.last /\ me'.idx = a.m.idx /\ me'.avail = a.m.avail
       /\ me'.newest = IF r.out = NoSlot THEN a.m.newest ELSE r.out
  <2>1. CASE r.out = NoSlot
    BY <1>7, <1>10, <2>1 DEF Replied
  <2>2. CASE r.out # NoSlot
    <3>1. me' = [a.m EXCEPT !.newest = r.out]
      BY <1>7, <2>2
    <3> DEFINE n == a.m
               out == r.out
    <3>2. n \in MeRecords /\ out \in Slots
      BY <1>8, <1>10 DEF Decoded, Replied
    <3> HIDE DEF n, out
    <3>3. me' = [n EXCEPT !.newest = out]
      BY <3>1 DEF n, out
    <3>4. /\ me' \in MeRecords /\ me'.pixels = n.pixels /\ me'.job = n.job /\ me'.pending = n.pending
          /\ me'.last = n.last /\ me'.idx = n.idx /\ me'.avail = n.avail /\ me'.newest = out
      BY <3>2, <3>3 DEF MeRecords
    <3> QED BY <2>2, <3>4 DEF n, out
  <2> QED BY <2>1, <2>2
<1>12. Pixels(me)' /\ (dec.codec => Apart(me))'
  BY <1>7, <1>10, <1>11 DEF Pixels, Apart, Replied
<1>13. HandedOutWhole'
  <2>1. CASE r.out = NoSlot
    <3>1. Spared(me, me') /\ me'.newest = me.newest
      BY <1>8, <1>10, <1>11, <2>1 DEF Spared, Decoded, Replied
    <3> QED BY <1>1, <1>11, <3>1, StillWhole DEF HandedOutWhole
  <2>2. CASE r.out # NoSlot
    BY <1>8, <1>10, <1>11, <2>2 DEF HandedOutWhole, Spared, Slots, Decoded, Replied
  <2> QED BY <2>1, <2>2
<1>14. asked' \in Requests
  <2>1. Answered(asked, kind) \in Requests
    BY DEF DecoderIInv, DecoderTypes, Answered, Requests
  <2>2. wanted \in Requests
    <3> QED BY <1>4, <1>8, <1>10, AskKeeps DEF Requests, Decoded, Replied
  <2> QED BY <1>7, <2>1, <2>2, AskKeeps
<1>15. event' \in Events /\ restarts' \in 0 .. HangRestarts /\ faults' \in 0 .. Faults
  <2>1. event' \in Events
    BY <1>7 DEF DecoderIInv, DecoderTypes, Events, Arrived
  <2>2. restarts' \in 0 .. HangRestarts
    BY <1>7, SoftwareDecoderAssumption DEF DecoderIInv, DecoderTypes, SoftwareDecoderAssumption
  <2>3. faults' \in 0 .. Faults
    BY SoftwareDecoderAssumption DEF Callback, Spend, DecoderIInv, DecoderTypes, SoftwareDecoderAssumption
  <2> QED BY <2>1, <2>2, <2>3
<1>16. thread' = thread /\ gate' = gate
  BY DEF Callback
<1> QED BY <1>7, <1>10, <1>11, <1>12, <1>13, <1>14, <1>15, <1>16 DEF DecoderIInv, DecoderTypes, Requests, Replied

\* A frame that does not reach the library changes no picture.
LEMMA SkipKeeps ==
  ASSUME DecoderIInv, NEW kind \in FrameKinds, NEW overloaded \in BOOLEAN, SkipFrame(kind, overloaded)
  PROVE  DecoderIInv'
<1> DEFINE entered == [dec EXCEPT !.key = @ \/ kind = "idr"]
           stored == Entry(entered)
           d == IF gate = "paused" THEN [stored EXCEPT !.pausing = TRUE] ELSE Resumed(stored)
<1>1. dec \in DecRecords
  BY DEF DecoderIInv, DecoderTypes
<1>2. entered \in DecRecords /\ entered.codec = dec.codec
  BY <1>1 DEF DecRecords
<1>3. dec' = Missed(d)
  BY DEF SkipFrame
<1> HIDE DEF entered
<1>4. /\ stored \in DecRecords /\ stored.codec = dec.codec
      /\ Resumed(stored) \in DecRecords /\ Resumed(stored).codec = dec.codec
  BY <1>2, EntryKeeps
<1>5. asked' \in Requests
  <2>1. Answered(asked, kind) \in Requests
    BY DEF DecoderIInv, DecoderTypes, Answered, Requests
  <2>2. \/ asked' = Ask(Answered(asked, kind), "idr")
        \/ asked' = Ask(Answered(asked, kind), "nothing")
    BY Zenon DEF SkipFrame
  <2>3. PICK q \in Requests : asked' = Ask(Answered(asked, kind), q)
    BY <2>2 DEF Requests
  <2> QED BY <2>1, <2>3, AskKeeps
<1> HIDE DEF stored
<1>6. d \in DecRecords /\ d.codec = dec.codec
  <2>1. [stored EXCEPT !.pausing = TRUE] \in DecRecords /\ [stored EXCEPT !.pausing = TRUE].codec = dec.codec
    BY <1>4 DEF DecRecords
  <2>2. d = [stored EXCEPT !.pausing = TRUE] \/ d = Resumed(stored)
    OBVIOUS
  <2> HIDE DEF d
  <2> QED BY <1>4, <2>1, <2>2
<1> HIDE DEF d
<1>7. dec' \in DecRecords /\ dec'.codec = dec.codec
  BY <1>3, <1>6, MissedKeeps
<1>8. event' \in Events /\ faults' \in 0 .. Faults
  <2>1. event' = Arrived(kind, FALSE)
    BY DEF SkipFrame
  <2>2. event' \in Events
    BY <2>1 DEF DecoderIInv, DecoderTypes, Events, Arrived
  <2>3. faults' \in 0 .. Faults
    BY SoftwareDecoderAssumption DEF SkipFrame, Spend, DecoderIInv, DecoderTypes, SoftwareDecoderAssumption
  <2> QED BY <2>2, <2>3
<1>9. me' = me /\ thread' = thread /\ gate' = gate /\ restarts' = restarts
  BY DEF SkipFrame
<1> QED BY <1>5, <1>7, <1>8, <1>9 DEF DecoderIInv, DecoderTypes, HandedOutWhole, Requests

\* Nor does a frame that is lost on its way.
LEMMA LoseKeeps ==
  ASSUME DecoderIInv, NEW kind \in FrameKinds, NEW fec \in BOOLEAN, LoseFrame(kind, fec)
  PROVE  DecoderIInv'
<1> DEFINE d == Missed(dec)
<1>1. d \in DecRecords /\ d.codec = dec.codec
  BY MissedKeeps DEF DecoderIInv, DecoderTypes
<1>2. dec' = [d EXCEPT !.rewind = TRUE, !.fec = @ \/ fec]
  BY DEF LoseFrame
<1> HIDE DEF d
<1>3. dec' \in DecRecords /\ dec'.codec = dec.codec
  BY <1>1, <1>2 DEF DecRecords
<1>4. asked' \in Requests
  <2>1. Answered(asked, kind) \in Requests
    BY DEF DecoderIInv, DecoderTypes, Answered, Requests
  <2>2. PICK q \in Requests : asked' = Ask(Answered(asked, kind), q)
    BY DEF LoseFrame, Requests
  <2> QED BY <2>1, <2>2, AskKeeps
<1>5. event' \in Events /\ faults' \in 0 .. Faults
  <2>1. event' = Other
    BY DEF LoseFrame
  <2>2. event' \in Events
    BY <2>1 DEF Other, Events, DecoderIInv, DecoderTypes
  <2>3. faults' \in 0 .. Faults
    BY SoftwareDecoderAssumption DEF LoseFrame, Spend, DecoderIInv, DecoderTypes, SoftwareDecoderAssumption
  <2> QED BY <2>2, <2>3
<1>6. me' = me /\ thread' = thread /\ gate' = gate /\ restarts' = restarts
  BY DEF LoseFrame
<1> QED BY <1>3, <1>4, <1>5, <1>6 DEF DecoderIInv, DecoderTypes, HandedOutWhole, Requests

\* A restart begins afresh, or leaves a decoder that has nothing.
LEMMA WatchdogKeeps ==
  ASSUME DecoderIInv, NEW ok \in BOOLEAN, Watchdog(ok)
  PROVE  DecoderIInv'
<1>0. FreshDec \in DecRecords /\ me \in MeRecords /\ dec \in DecRecords
  <2>1. 0 \in 0 .. WaitPeriod /\ 0 \in 0 .. Longest
    BY SoftwareDecoderAssumption DEF SoftwareDecoderAssumption, Longest
  <2> QED BY <2>1 DEF FreshDec, DecRecords, DecoderIInv, DecoderTypes
<1>1. /\ restarts' \in 0 .. HangRestarts /\ faults' \in 0 .. Faults /\ thread' \in {"running", "offline"}
      /\ asked' = "idr" /\ gate' = gate /\ event' \in Events
  <2>1. restarts' \in 0 .. HangRestarts
    <3>1. restarts < 0 \/ restarts < HangRestarts \/ restarts < MaxRestarts
      BY DEF Watchdog
    <3> QED BY <3>1, SoftwareDecoderAssumption DEF Watchdog, DecoderIInv, DecoderTypes, SoftwareDecoderAssumption
  <2>2. faults' \in 0 .. Faults /\ asked' = "idr" /\ gate' = gate
    BY SoftwareDecoderAssumption DEF Watchdog, Spend, DecoderIInv, DecoderTypes, SoftwareDecoderAssumption
  <2>3. thread' \in {"running", "offline"}
    BY DEF Watchdog, ForceRestart
  <2>4. event' \in Events
    BY DEF Watchdog, Other, Events, DecoderIInv, DecoderTypes
  <2> QED BY <2>1, <2>2, <2>3, <2>4
<1>2. CASE ok
  <2>1. me' = FreshMe /\ dec' = [FreshDec EXCEPT !.resetPending = TRUE]
    BY <1>2 DEF Watchdog, ForceRestart
  <2>2. dec' \in DecRecords
    BY <1>0, <2>1 DEF DecRecords
  <2>3. 1 \in RgbaIndex
    BY SoftwareDecoderAssumption DEF SoftwareDecoderAssumption, RgbaIndex
  <2>4. /\ me' \in MeRecords /\ me'.job = NoSlot /\ me'.pending = NoSlot /\ me'.last = NoSlot
        /\ me'.newest = NoSlot
    BY <2>1, <2>3 DEF FreshMe, MeRecords, Slots
  <2> QED BY <1>1, <2>2, <2>4 DEF DecoderIInv, DecoderTypes, Pixels, Apart, HandedOutWhole
<1>3. CASE ~ ok
  <2> DEFINE p == IF me.job = NoSlot THEN me.pixels ELSE [me.pixels EXCEPT ![me.job] = "torn"]
             k == [me EXCEPT !.pixels = p, !.job = NoSlot, !.avail = FALSE]
  <2>1. /\ me' = [k EXCEPT !.pending = NoSlot, !.last = NoSlot, !.idx = 1]
        /\ dec' = [FreshDec EXCEPT !.codec = FALSE, !.corrupt = TRUE, !.lgf = dec.lgf, !.fec = dec.fec]
    BY <1>3 DEF Watchdog, ForceRestart, Killed
  <2>2. dec.lgf \in BOOLEAN /\ dec.fec \in BOOLEAN
    BY <1>0 DEF DecRecords
  <2>3. dec' \in DecRecords /\ dec'.codec = FALSE
    BY <1>0, <2>1, <2>2 DEF DecRecords
  <2>4. p \in [RgbaIndex -> {"blank", "writing", "torn", "whole"}] /\ me.job \in Slots
        /\ \A s \in RgbaIndex : s # me.job => p[s] = me.pixels[s]
    BY <1>0 DEF MeRecords, Slots
  <2> HIDE DEF p
  <2>5. k \in MeRecords /\ k.pixels = p /\ k.job = NoSlot /\ k.newest = me.newest
    BY <1>0, <2>4 DEF MeRecords, Slots
  <2> HIDE DEF k
  <2>6. 1 \in RgbaIndex /\ NoSlot \in Slots
    BY SoftwareDecoderAssumption DEF SoftwareDecoderAssumption, RgbaIndex, Slots
  <2>7. /\ me' \in MeRecords /\ me'.pixels = p /\ me'.job = NoSlot /\ me'.pending = NoSlot
        /\ me'.last = NoSlot /\ me'.newest = me.newest
    BY <2>1, <2>5, <2>6 DEF MeRecords
  <2>8. me.newest \in Slots /\ (me.newest # NoSlot => me.newest # me.job /\ me.pixels[me.newest] = "whole")
    BY <1>0 DEF DecoderIInv, Pixels, HandedOutWhole, MeRecords
  <2>9. HandedOutWhole'
    BY <2>4, <2>7, <2>8 DEF HandedOutWhole, Slots
  <2> QED BY <1>1, <2>3, <2>7, <2>9 DEF DecoderIInv, DecoderTypes, Pixels
<1> QED BY <1>2, <1>3

\* Every step keeps the invariant.
LEMMA DecoderStep ==
  ASSUME ~ MeMayHang, DecoderIInv, [DecoderNext]_decoderVars
  PROVE  DecoderIInv'
<1>1. ASSUME NEW kind \in FrameKinds, Frame(kind) PROVE DecoderIInv'
  BY <1>1, CallbackKeeps, SkipKeeps DEF Frame
<1>2. ASSUME NEW kind \in FrameKinds, NEW fec \in BOOLEAN, LoseFrame(kind, fec) PROVE DecoderIInv'
  BY <1>2, LoseKeeps
<1>3. CASE MeFinishes
  <2>1. me' = Finished(me) /\ me \in MeRecords /\ Pixels(me) /\ HandedOutWhole
    BY <1>3 DEF MeFinishes, DecoderIInv, DecoderTypes
  <2>2. /\ me' \in MeRecords /\ Pixels(me') /\ Spared(me, me')
        /\ me'.pending = me.pending /\ me'.last = me.last /\ me'.idx = me.idx /\ me'.newest = me.newest
    BY <2>1, FinishedKeeps
  <2>3. HandedOutWhole'
    BY <2>1, <2>2, StillWhole DEF HandedOutWhole
  <2>4. event' \in Events
    BY <1>3 DEF MeFinishes, Other, Events, DecoderIInv, DecoderTypes
  <2> QED BY <1>3, <2>2, <2>3, <2>4 DEF MeFinishes, DecoderIInv, DecoderTypes, Apart, Pixels
<1>4. CASE DecodeHangs \/ Ungate \/ \E g \in {"paused", "dialog"} : Gate(g)
  <2>1. event' = Other /\ dec' = dec /\ me' = me /\ asked' = asked /\ restarts' = restarts
    BY <1>4 DEF DecodeHangs, Ungate, Gate
  <2>2. event' \in Events
    BY <2>1 DEF Other, Events, DecoderIInv, DecoderTypes
  <2>3. faults' \in 0 .. Faults
    BY <1>4, SoftwareDecoderAssumption
       DEF DecodeHangs, Ungate, Gate, Spend, DecoderIInv, DecoderTypes, SoftwareDecoderAssumption
  <2>4. thread' \in {"running", "hung", "offline"} /\ gate' \in {"none", "paused", "dialog"}
    BY <1>4 DEF DecodeHangs, Ungate, Gate, DecoderIInv, DecoderTypes
  <2> QED BY <2>1, <2>2, <2>3, <2>4 DEF DecoderIInv, DecoderTypes, HandedOutWhole
<1>5. CASE LiveFlush
  <2> DEFINE d == Missed(dec)
  <2>1. d \in DecRecords /\ d.codec = dec.codec
    BY MissedKeeps DEF DecoderIInv, DecoderTypes
  <2>2. dec' = [d EXCEPT !.lgf = FALSE, !.corrupt = TRUE, !.full = FALSE]
    BY <1>5 DEF LiveFlush
  <2> HIDE DEF d
  <2>3. dec' \in DecRecords /\ dec'.codec = dec.codec
    BY <2>1, <2>2 DEF DecRecords
  <2>4. event' = Other /\ asked' = "idr"
    BY <1>5 DEF LiveFlush
  <2>5. event' \in Events
    BY <2>4 DEF Other, Events, DecoderIInv, DecoderTypes
  <2>6. faults' \in 0 .. Faults
    BY <1>5, SoftwareDecoderAssumption DEF LiveFlush, Spend, DecoderIInv, DecoderTypes, SoftwareDecoderAssumption
  <2> QED BY <1>5, <2>4, <2>5, <2>6, <2>3, <2>4 DEF LiveFlush, DecoderIInv, DecoderTypes, HandedOutWhole
<1>6. CASE UNCHANGED decoderVars
  BY <1>6 DEF decoderVars, DecoderIInv, DecoderTypes, HandedOutWhole
<1>7. ASSUME NEW ok \in BOOLEAN, Watchdog(ok) PROVE DecoderIInv'
  BY <1>7, WatchdogKeeps
<1> QED BY <1>1, <1>2, <1>3, <1>4, <1>5, <1>6, <1>7 DEF DecoderNext, GivenUp

\* The display never gets a picture the Media Engine is writing, nor a torn one, whatever is lost,
\* refused, reset or restarted, as long as the engine keeps to its waits; with two output slots or three,
\* with and without the frame of delay (oh264_pipeline_decode_frame, collect_pending_me_frame).
THEOREM HandsOutWhole == ASSUME ~ MeMayHang PROVE DecoderSpec => []HandedOutWhole
<1>1. DecoderInit => DecoderIInv
  <2> SUFFICES ASSUME DecoderInit PROVE DecoderIInv
    OBVIOUS
  <2>1. 0 \in 0 .. WaitPeriod /\ 0 \in 0 .. Longest /\ 1 \in RgbaIndex /\ 0 \in 0 .. Faults /\ 0 \in 0 .. HangRestarts
    BY SoftwareDecoderAssumption DEF SoftwareDecoderAssumption, Longest, RgbaIndex
  <2>2. dec \in DecRecords
    BY <2>1 DEF DecoderInit, FreshDec, DecRecords
  <2>3. /\ me \in MeRecords /\ me.job = NoSlot /\ me.pending = NoSlot /\ me.last = NoSlot /\ me.newest = NoSlot
    BY <2>1 DEF DecoderInit, FreshMe, MeRecords, Slots
  <2>4. event \in Events
    BY DEF DecoderInit, Events
  <2> QED BY <2>1, <2>2, <2>3, <2>4 DEF DecoderInit, DecoderIInv, DecoderTypes, Pixels, Apart, HandedOutWhole
<1>2. DecoderIInv /\ [DecoderNext]_decoderVars => DecoderIInv'
  BY DecoderStep
<1>3. DecoderIInv => HandedOutWhole
  BY DEF DecoderIInv
<1> QED BY <1>1, <1>2, <1>3, PTL DEF DecoderSpec

(***************************************************************************)
(* The safety buffer.                                                      *)
(***************************************************************************)
Ring == 0 .. RingSlots - 1
Pool == 1 .. PoolCells
Numbers == Serials \cup {NoUnit}
SlotRecords == [unit : Numbers, at : 0 .. PoolCells, cells : Nat, key : BOOLEAN, age : 0 .. Window + 1]
QueueRecords == [unit : [0 .. QueueSlots - 1 -> Numbers], head : 0 .. QueueSlots - 1, tail : 0 .. QueueSlots - 1,
                 full : 0 .. QueueSlots]

\* A slot that points into the pool points below what is taken of it, and finds its own unit there.
Whole(slot, cs, used) ==
    slot.at # 0 => /\ slot.cells # 0 /\ slot.at + slot.cells - 1 <= used
                   /\ \A c \in slot.at .. slot.at + slot.cells - 1 : cs[c] = slot.unit

\* So do all of them.
Intact(s, cs, used) == \A i \in Ring : Whole(s[i], cs, used)

BufferTypes ==
    /\ slots \in [Ring -> SlotRecords] /\ head \in Ring /\ tail \in Ring
    /\ cells \in [Pool -> Numbers] /\ ram_pool_used \in 0 .. PoolCells

SpillTypes ==
    /\ queue \in QueueRecords
    /\ writer \in [pc : {"off", "wait", "drain", "payload", "close"}, unit : Numbers]

PhaseTypes ==
    /\ fd \in {"none", "open", "stale"} /\ mutex \in {"free", "clearing", "lost", "gone"}
    /\ life \in {"off", "up", "stopping", "joined", "bare"}

\* The entry whose header is written is still in the queue.
EntryHeld == writer.pc = "payload" => queue.head # queue.tail /\ queue.unit[queue.tail] = writer.unit

ReplayWhole == replay.unit # NoUnit => replay.key /\ replay.found = {replay.unit}

SafetyInv ==
    /\ BufferTypes /\ SpillTypes /\ PhaseTypes
    /\ Intact(slots, cells, ram_pool_used)
    /\ EntryHeld /\ ReplayWhole

\* Of natural distances one is the least.
LEMMA LeastExists ==
  ASSUME NEW T, T # {}, NEW d \in [T -> Nat]
  PROVE  \E i \in T : \A j \in T : d[i] <= d[j]
<1> DEFINE less == {ss \in Nat \X Nat : ss[1] < ss[2]}
           far == {d[j] : j \in T}
<1>1. IsWellFoundedOn(less, Nat)
  BY NatLessThanWellFounded DEF OpToRel
<1>2. \A x, y \in Nat : <<x, y>> \in less <=> x < y
  OBVIOUS
<1> HIDE DEF less
<1>3. PICK m \in far : \A y \in far : ~(<<y, m>> \in less)
  <2>1. far \subseteq Nat /\ far # {}
    OBVIOUS
  <2> HIDE DEF far
  <2> QED BY <1>1, <2>1, WFMin
<1>4. PICK i \in T : d[i] = m
  BY <1>3
<1>5. ASSUME NEW j \in T PROVE d[i] <= d[j]
  <2>1. d[j] \in Nat /\ d[j] \in far /\ m \in Nat
    BY <1>4
  <2>2. ~ (d[j] < m)
    BY <1>2, <1>3, <2>1
  <2> QED BY <1>4, <2>1, <2>2
<1> QED BY <1>5

\* An interval of numbers from zero or one is as large as it looks.
LEMMA IntervalSize ==
  ASSUME NEW n \in Nat
  PROVE  /\ IsFiniteSet(1 .. n) /\ Cardinality(1 .. n) = n
         /\ IsFiniteSet(0 .. n - 1) /\ Cardinality(0 .. n - 1) = n
<1> DEFINE m == n - 1
<1>1. m \in Int /\ 0 \in Int /\ 1 \in Int /\ n \in Int
  OBVIOUS
<1>2. IsFiniteSet(1 .. n) /\ Cardinality(1 .. n) = IF 1 > n THEN 0 ELSE n - 1 + 1
  BY <1>1, FS_Interval
<1> HIDE DEF m
<1>3. IsFiniteSet(0 .. m) /\ Cardinality(0 .. m) = IF 0 > m THEN 0 ELSE m - 0 + 1
  BY <1>1, FS_Interval
<1> QED BY <1>2, <1>3 DEF m

\* Fewer numbers are in use than there are, so that one is always left for the next unit.
LEMMA SerialLeft ==
  ASSUME slots \in [Ring -> SlotRecords], queue \in QueueRecords
  PROVE  serial \in Serials
<1> USE SafetyBufferAssumption DEF SafetyBufferAssumption
<1> DEFINE R == RingSlots
           Q == QueueSlots
           inSlots == {slots[i].unit : i \in Ring}
           inQueue == {queue.unit[i] : i \in 0 .. Q - 1}
<1>0. R \in Nat /\ Q \in Nat
  OBVIOUS
<1>1. DOMAIN slots = Ring /\ DOMAIN queue.unit = 0 .. Q - 1
  BY DEF QueueRecords
<1>2. IsFiniteSet(inSlots) /\ Cardinality(inSlots) \in Nat /\ Cardinality(inSlots) <= R
  <2> DEFINE f == [i \in Ring |-> slots[i].unit]
  <2>1. IsFiniteSet(Ring) /\ Cardinality(Ring) = R
    BY IntervalSize DEF Ring
  <2>2. f \in Surjection(Ring, inSlots)
    BY DEF Surjection
  <2> HIDE DEF f, inSlots
  <2>3. IsFiniteSet(inSlots) /\ Cardinality(inSlots) <= R
    BY <2>1, <2>2, FS_Surjection
  <2> QED BY <2>3, FS_CardinalityType
<1>3. IsFiniteSet(inQueue) /\ Cardinality(inQueue) \in Nat /\ Cardinality(inQueue) <= Q
  <2> DEFINE f == [i \in 0 .. Q - 1 |-> queue.unit[i]]
  <2>1. IsFiniteSet(0 .. Q - 1) /\ Cardinality(0 .. Q - 1) = Q
    BY IntervalSize
  <2>2. f \in Surjection(0 .. Q - 1, inQueue)
    BY DEF Surjection
  <2> HIDE DEF f, inQueue
  <2>3. IsFiniteSet(inQueue) /\ Cardinality(inQueue) <= Q
    BY <2>1, <2>2, FS_Surjection
  <2> QED BY <2>3, FS_CardinalityType
<1>4. InUse = (inSlots \cup inQueue) \cup {writer.unit}
  BY <1>1 DEF InUse
<1>5. IsFiniteSet(Serials) /\ Cardinality(Serials) = R + Q + 2
  <2>1. R + Q + 2 \in Nat
    BY <1>0
  <2> QED BY <2>1, IntervalSize DEF Serials
<1> HIDE DEF inSlots, inQueue
<1>6. IsFiniteSet(InUse) /\ Cardinality(InUse) \in Nat /\ Cardinality(InUse) <= R + Q + 1
  <2>1. IsFiniteSet(inSlots \cup inQueue) /\ Cardinality(inSlots \cup inQueue) <= R + Q
        /\ Cardinality(inSlots \cup inQueue) \in Nat
    <3>1. /\ IsFiniteSet(inSlots \cup inQueue) /\ IsFiniteSet(inSlots \cap inQueue)
          /\ Cardinality(inSlots \cup inQueue)
               = Cardinality(inSlots) + Cardinality(inQueue) - Cardinality(inSlots \cap inQueue)
      BY <1>2, <1>3, FS_Union, FS_Subset
    <3>2. Cardinality(inSlots \cup inQueue) \in Nat /\ Cardinality(inSlots \cap inQueue) \in Nat
      BY <3>1, FS_CardinalityType
    <3> QED BY <1>0, <1>2, <1>3, <3>1, <3>2
  <2> DEFINE both == inSlots \cup inQueue
  <2> HIDE DEF both
  <2>2. /\ IsFiniteSet(both \cup {writer.unit})
        /\ Cardinality(both \cup {writer.unit})
             = IF writer.unit \in both THEN Cardinality(both) ELSE Cardinality(both) + 1
    BY <2>1, FS_AddElement DEF both
  <2> QED BY <1>0, <1>4, <2>1, <2>2 DEF both
<1>7. Serials \ InUse # {}
  <2> SUFFICES ASSUME Serials \subseteq InUse PROVE FALSE
    OBVIOUS
  <2>1. Cardinality(Serials) <= Cardinality(InUse)
    BY <1>6, FS_Subset
  <2> QED BY <1>0, <1>5, <1>6, <2>1
<1>8. \E n \in Serials \ InUse : \A m \in Serials \ InUse : n <= m
  <2> DEFINE T == Serials \ InUse
             d == [n \in T |-> n]
  <2>1. d \in [T -> Nat] /\ T # {}
    BY <1>7 DEF Serials
  <2> HIDE DEF T
  <2>2. \E i \in T : \A j \in T : d[i] <= d[j]
    BY <2>1, LeastExists
  <2> QED BY <2>2 DEF T
<1> QED BY <1>8 DEF serial

\* The eviction ends at a slot of the ring ...
LEMMA KeptTyped ==
  ASSUME NEW s \in [Ring -> SlotRecords], NEW from \in Ring, NEW end \in Ring
  PROVE  Kept(s, from, end) \in Ring
<1> USE SafetyBufferAssumption DEF SafetyBufferAssumption
<1> DEFINE live == Between(from, end)
           young == {i \in live : s[i].age <= Window}
           d == [i \in young |-> (i - from) % RingSlots]
           before(i) == Between(from, i)
<1>1. CASE live = {} \/ \A i \in live : s[i].age > Window
  BY <1>1 DEF Kept
<1>2. CASE ~ (live = {} \/ \A i \in live : s[i].age > Window)
  <2>1. live \subseteq Ring
    BY DEF Between, Ring
  <2>2. \A i \in Ring : s[i].age \in Nat /\ Window \in Nat
    BY DEF SlotRecords
  <2>3. young # {}
    BY <1>2, <2>1, <2>2
  <2>4. d \in [young -> Nat]
    BY <2>1 DEF Ring
  <2>5. PICK i \in young : \A j \in young : d[i] <= d[j]
    <3> HIDE DEF young, d
    <3> QED BY <2>3, <2>4, LeastExists
  <2>6. ASSUME NEW j \in before(i) PROVE s[j].age > Window
    <3>1. j \in Ring /\ (j - from) % RingSlots < (i - from) % RingSlots
      BY DEF Between, Ring
    <3>2. i \in live /\ i \in Ring
      BY <2>1, <2>5
    <3>3. (i - from) % RingSlots < (end - from) % RingSlots
      BY <3>2 DEF Between
    <3>4. /\ (i - from) % RingSlots \in Int /\ (j - from) % RingSlots \in Int
          /\ (end - from) % RingSlots \in Int
      BY <3>1, <3>2 DEF Ring
    <3>5. j \in live
      BY <3>1, <3>3, <3>4 DEF Between, Ring
    <3>6. j \notin young
      <4> SUFFICES ASSUME j \in young PROVE FALSE
        OBVIOUS
      <4>1. (i - from) % RingSlots <= (j - from) % RingSlots
        BY <2>5
      <4> QED BY <3>1, <3>4, <4>1
    <3> QED BY <2>2, <3>1, <3>5, <3>6
  <2>7. \E k \in live : s[k].age <= Window /\ \A j \in before(k) : s[j].age > Window
    BY <2>5, <2>6
  <2>8. Kept(s, from, end) = CHOOSE k \in live : s[k].age <= Window /\ \A j \in before(k) : s[j].age > Window
    BY <1>2 DEF Kept
  <2>9. Kept(s, from, end) \in live
    <3> HIDE DEF live, before
    <3> QED BY <2>7, <2>8
  <2> QED BY <2>1, <2>9
<1> QED BY <1>1, <1>2

\* ... and what is outside the ring after it is empty.
LEMMA NothingBetween ==
  ASSUME NEW s \in [Ring -> SlotRecords], NEW end \in Ring, NEW i \in Ring
  PROVE  Within(s, end, end)[i] = EmptySlot
<1>1. (end - end) % RingSlots = 0 /\ (i - end) % RingSlots \in Nat
  BY SafetyBufferAssumption DEF SafetyBufferAssumption, Ring
<1>2. i \notin Between(end, end)
  BY <1>1 DEF Between
<1> QED BY <1>2 DEF Within, Ring

LEMMA EmptySlotTyped == EmptySlot \in SlotRecords
BY SafetyBufferAssumption DEF SafetyBufferAssumption, EmptySlot, SlotRecords, Numbers

\* What leaves the ring is emptied; a cell is kept while a slot of the ring points to it.
LEMMA WithinKeeps ==
  ASSUME NEW s \in [Ring -> SlotRecords], NEW cs \in [Pool -> Numbers], NEW used \in 0 .. PoolCells,
         Intact(s, cs, used), NEW from, NEW end
  PROVE  /\ Within(s, from, end) \in [Ring -> SlotRecords]
         /\ Pointed(cs, Within(s, from, end)) \in [Pool -> Numbers]
         /\ Intact(Within(s, from, end), Pointed(cs, Within(s, from, end)), used)
<1> DEFINE w == Within(s, from, end)
<1>1. \A i \in Ring : w[i] = s[i] \/ w[i] = EmptySlot
  BY DEF Within, Ring
<1>2. w \in [Ring -> SlotRecords]
  BY <1>1, EmptySlotTyped DEF Within, Ring
<1> HIDE DEF w
<1>3. Pointed(cs, w) \in [Pool -> Numbers]
  BY DEF Pointed, Pool, Numbers
<1>4. ASSUME NEW i \in Ring PROVE Whole(w[i], Pointed(cs, w), used)
  <2> SUFFICES ASSUME w[i].at # 0
               PROVE  /\ w[i].cells # 0 /\ w[i].at + w[i].cells - 1 <= used
                      /\ \A c \in w[i].at .. w[i].at + w[i].cells - 1 : Pointed(cs, w)[c] = w[i].unit
    BY DEF Whole
  <2>1. w[i] = s[i]
    BY <1>1 DEF EmptySlot
  <2>2. /\ w[i].cells # 0 /\ w[i].at + w[i].cells - 1 <= used
        /\ \A c \in w[i].at .. w[i].at + w[i].cells - 1 : cs[c] = w[i].unit
    BY <2>1 DEF Intact, Whole
  <2>3. w[i].at \in 1 .. PoolCells /\ w[i].cells \in Nat
    BY <1>2, SafetyBufferAssumption DEF SlotRecords, SafetyBufferAssumption
  <2>4. ASSUME NEW c \in w[i].at .. w[i].at + w[i].cells - 1 PROVE Pointed(cs, w)[c] = cs[c]
    <3>1. c \in Pool
      BY <2>2, <2>3, SafetyBufferAssumption DEF Pool, SafetyBufferAssumption
    <3>2. i \in DOMAIN w
      BY <1>2
    <3> QED BY <3>1, <3>2 DEF Pointed, Pool
  <2> QED BY <2>2, <2>4
<1> QED BY <1>2, <1>3, <1>4 DEF Intact, w

\* An empty buffer is intact whatever its pool holds.
LEMMA NothingBroken ==
  ASSUME NEW cs, NEW used
  PROVE  /\ [i \in 0 .. RingSlots - 1 |-> EmptySlot] \in [Ring -> SlotRecords]
         /\ [c \in 1 .. PoolCells |-> NoUnit] \in [Pool -> Numbers]
         /\ Intact([i \in 0 .. RingSlots - 1 |-> EmptySlot], cs, used)
         /\ 0 \in Ring /\ 0 \in 0 .. PoolCells
<1>1. 0 \in Ring /\ 0 \in 0 .. PoolCells
  BY SafetyBufferAssumption DEF SafetyBufferAssumption, Ring
<1>2. \A i \in Ring : [j \in 0 .. RingSlots - 1 |-> EmptySlot][i].at = 0
  BY DEF EmptySlot, Ring
<1> QED BY <1>1, <1>2, EmptySlotTyped DEF Ring, Pool, Numbers, Intact, Whole

\* A store keeps the ring and the pool intact: a unit is copied behind all that is taken, and the pool
\* is only given back with no slot left.
LEMMA RecordedKeeps ==
  ASSUME SafetyInv, NEW u \in Units, NEW elapsed \in {0, 1}, NEW at \in 0 .. PoolCells, NEW from \in Ring,
         NEW taken \in 0 .. PoolCells,
         \/ at = ram_pool_used + 1 /\ taken = ram_pool_used + u.cells
         \/ at = 0 /\ taken = ram_pool_used,
         Recorded(u, at, elapsed, from, taken)
  PROVE  BufferTypes' /\ Intact(slots, cells, ram_pool_used)'
<1> USE SafetyBufferAssumption DEF SafetyBufferAssumption
<1> DEFINE aged == [i \in 0 .. RingSlots - 1 |->
                      [slots[i] EXCEPT !.age = IF @ + elapsed > Window + 1 THEN Window + 1 ELSE @ + elapsed]]
           new == [unit |-> IF at = 0 THEN NoUnit ELSE serial, at |-> at,
                   cells |-> IF at = 0 THEN 0 ELSE u.cells, key |-> u.key, age |-> 0]
           s == [aged EXCEPT ![head] = new]
           end == AfterSlot(head)
           e == evict_old_entries(s, from, end, taken)
           kept == Within(s, e.tail, end)
           copied == [c \in 1 .. PoolCells |-> IF at # 0 /\ c \in at .. at + u.cells - 1 THEN serial ELSE cells[c]]
<1>1. /\ slots' = kept /\ cells' = Pointed(copied, kept)
      /\ head' = end /\ tail' = e.tail /\ ram_pool_used' = e.used
  BY DEF Recorded
<1>2. serial \in Serials /\ serial \in Numbers /\ NoUnit \in Numbers
  BY SerialLeft DEF SafetyInv, BufferTypes, SpillTypes, Numbers
<1>3. u.cells \in Nat \ {0} /\ u.key \in BOOLEAN
  OBVIOUS
<1>4. new \in SlotRecords /\ new.unit = (IF at = 0 THEN NoUnit ELSE serial) /\ new.at = at
      /\ new.cells = IF at = 0 THEN 0 ELSE u.cells
  BY <1>2, <1>3 DEF SlotRecords
<1> HIDE DEF new
<1>5. ASSUME NEW i \in Ring
      PROVE  aged[i] \in SlotRecords /\ aged[i].unit = slots[i].unit /\ aged[i].at = slots[i].at
             /\ aged[i].cells = slots[i].cells
  <2>1. slots[i] \in SlotRecords
    BY DEF SafetyInv, BufferTypes
  <2>2. aged[i] = [slots[i] EXCEPT !.age = IF @ + elapsed > Window + 1 THEN Window + 1 ELSE @ + elapsed]
    BY DEF Ring
  <2> HIDE DEF aged
  <2> QED BY <2>1, <2>2 DEF SlotRecords
<1>6. aged \in [Ring -> SlotRecords]
  <2>1. aged = [i \in Ring |-> aged[i]]
    BY DEF Ring
  <2> HIDE DEF aged
  <2> QED BY <1>5, <2>1
<1> HIDE DEF aged
<1>7. head \in Ring /\ end \in Ring
  BY DEF SafetyInv, BufferTypes, AfterSlot, Ring
<1>8. s \in [Ring -> SlotRecords] /\ \A i \in Ring : s[i] = IF i = head THEN new ELSE aged[i]
  BY <1>4, <1>6, <1>7
<1> HIDE DEF s
<1>9. copied \in [Pool -> Numbers]
  BY <1>2 DEF SafetyInv, BufferTypes, Pool
<1>10. Intact(s, copied, taken)
  <2> SUFFICES ASSUME NEW i \in Ring, s[i].at # 0
               PROVE  /\ s[i].cells # 0 /\ s[i].at + s[i].cells - 1 <= taken
                      /\ \A c \in s[i].at .. s[i].at + s[i].cells - 1 : copied[c] = s[i].unit
    BY DEF Intact, Whole
  <2>1. ram_pool_used \in 0 .. PoolCells
    BY DEF SafetyInv, BufferTypes
  <2>2. CASE i = head
    <3>1. at # 0 /\ s[i].at = at /\ s[i].cells = u.cells /\ s[i].unit = serial
      BY <1>4, <1>8, <2>2
    <3>2. at = ram_pool_used + 1 /\ taken = ram_pool_used + u.cells
      BY <3>1
    <3>3. ASSUME NEW c \in at .. at + u.cells - 1 PROVE copied[c] = serial
      <4>1. c \in 1 .. PoolCells
        BY <1>3, <2>1, <3>2
      <4> QED BY <3>1, <4>1
    <3> HIDE DEF copied
    <3> QED BY <1>3, <2>1, <3>1, <3>2, <3>3
  <2>3. CASE i # head
    <3>1. /\ s[i].at = slots[i].at /\ s[i].cells = slots[i].cells /\ s[i].unit = slots[i].unit
          /\ slots[i].at \in 0 .. PoolCells /\ slots[i].cells \in Nat
      BY <1>5, <1>8, <2>3 DEF SafetyInv, BufferTypes, SlotRecords
    <3>2. /\ slots[i].cells # 0 /\ slots[i].at + slots[i].cells - 1 <= ram_pool_used
          /\ \A c \in slots[i].at .. slots[i].at + slots[i].cells - 1 : cells[c] = slots[i].unit
      BY <3>1 DEF SafetyInv, Intact, Whole
    <3>3. ASSUME NEW c \in s[i].at .. s[i].at + s[i].cells - 1 PROVE copied[c] = s[i].unit
      <4>1. c \in 1 .. PoolCells /\ c <= ram_pool_used
        BY <2>1, <3>1, <3>2
      <4>2. ~ (at # 0 /\ c \in at .. at + u.cells - 1)
        BY <2>1, <4>1
      <4> QED BY <3>1, <3>2, <4>1, <4>2
    <3>4. s[i].at + s[i].cells - 1 <= taken
      BY <1>3, <2>1, <3>1, <3>2
    <3> QED BY <3>1, <3>2, <3>3, <3>4
  <2> QED BY <2>2, <2>3
<1> HIDE DEF copied
<1>11. e.tail = Kept(s, from, end) /\ e.used = IF e.tail = end THEN 0 ELSE taken
  BY DEF evict_old_entries
<1>12. e.tail \in Ring /\ e.used \in 0 .. PoolCells
  <2> HIDE DEF end
  <2> QED BY <1>7, <1>8, <1>11, KeptTyped
<1> HIDE DEF e, end
<1>13. kept \in [Ring -> SlotRecords] /\ Pointed(copied, kept) \in [Pool -> Numbers] /\ Intact(kept, Pointed(copied, kept), taken)
  BY <1>8, <1>9, <1>10, WithinKeeps
<1>14. Intact(kept, Pointed(copied, kept), e.used)
  <2>1. CASE e.tail = end
    <3>1. \A i \in Ring : kept[i] = EmptySlot
      BY <1>7, <1>8, <2>1, NothingBetween
    <3> HIDE DEF kept
    <3> QED BY <3>1 DEF Intact, Whole, EmptySlot
  <2>2. CASE e.tail # end
    BY <1>11, <1>13, <2>2
  <2> QED BY <2>1, <2>2
<1> HIDE DEF kept
<1> QED BY <1>1, <1>7, <1>12, <1>13, <1>14 DEF BufferTypes

\* The producer never writes to the entry the writer is at.
LEMMA SpillKeeps ==
  ASSUME SafetyInv, NEW u \in Units
  PROVE  LET q == write_to_fallback(u).q
         IN  /\ q \in QueueRecords /\ q.tail = queue.tail
             /\ queue.head # queue.tail => q.head # q.tail /\ q.unit[queue.tail] = queue.unit[queue.tail]
<1> USE SafetyBufferAssumption DEF SafetyBufferAssumption
<1> DEFINE next == (queue.head + 1) % QueueSlots
           full == IF queue.full < QueueSlots THEN queue.full + 1 ELSE queue.full
           q == write_to_fallback(u).q
           units == [queue.unit EXCEPT ![queue.head] = serial]
<1>1. serial \in Numbers
  BY SerialLeft DEF SafetyInv, BufferTypes, SpillTypes, Numbers
<1>2. queue \in QueueRecords
  BY DEF SafetyInv, SpillTypes
<1>3. next \in 0 .. QueueSlots - 1 /\ full \in 0 .. QueueSlots /\ queue.head \in 0 .. QueueSlots - 1
      /\ queue.tail \in 0 .. QueueSlots - 1
  BY <1>2 DEF QueueRecords
<1>4. \/ q = queue \/ q = [queue EXCEPT !.full = full]
      \/ next # queue.tail /\ q = [queue EXCEPT !.unit = units, !.head = next, !.full = 0]
  BY DEF write_to_fallback
<1>5. units \in [0 .. QueueSlots - 1 -> Numbers]
      /\ (queue.head # queue.tail => units[queue.tail] = queue.unit[queue.tail])
  BY <1>1, <1>2, <1>3 DEF QueueRecords
<1> HIDE DEF next, full, units, q
<1>6. CASE q = queue
  BY <1>2, <1>6 DEF q
<1>7. CASE q = [queue EXCEPT !.full = full]
  <2>1. q \in QueueRecords
    BY <1>2, <1>3, <1>7 DEF QueueRecords
  <2>2. q.unit = queue.unit /\ q.head = queue.head /\ q.tail = queue.tail
    BY <1>2, <1>7 DEF QueueRecords
  <2> QED BY <2>1, <2>2 DEF q
<1>8. CASE next # queue.tail /\ q = [queue EXCEPT !.unit = units, !.head = next, !.full = 0]
  <2>1. q \in QueueRecords
    <3>1. q = [unit |-> units, head |-> next, tail |-> queue.tail, full |-> 0]
      BY <1>2, <1>8 DEF QueueRecords
    <3>2. 0 \in 0 .. QueueSlots
      OBVIOUS
    <3> QED BY <1>3, <1>5, <3>1, <3>2 DEF QueueRecords
  <2>2. q.unit = units /\ q.head = next /\ q.tail = queue.tail
    BY <1>2, <1>8 DEF QueueRecords
  <2> QED BY <1>5, <1>8, <2>1, <2>2 DEF q
<1> QED BY <1>4, <1>6, <1>7, <1>8

\* safety_buffer_store_nal.
LEMMA StoreKeeps ==
  ASSUME SafetyInv, NEW u \in Units, NEW elapsed \in {0, 1}, NEW opens \in BOOLEAN, StoreNal(u, elapsed, opens)
  PROVE  SafetyInv'
<1> USE SafetyBufferAssumption DEF SafetyBufferAssumption
<1> DEFINE from == IF AfterSlot(head) = tail THEN AfterSlot(tail) ELSE tail
           q == write_to_fallback(u).q
<1>1. /\ head \in Ring /\ tail \in Ring /\ from \in Ring /\ ram_pool_used \in 0 .. PoolCells
      /\ slots \in [Ring -> SlotRecords] /\ cells \in [Pool -> Numbers]
      /\ u.cells \in Nat \ {0}
  BY DEF SafetyInv, BufferTypes, AfterSlot, Ring
<1>2. /\ q \in QueueRecords /\ q.tail = queue.tail
      /\ queue.head # queue.tail => q.head # q.tail /\ q.unit[queue.tail] = queue.unit[queue.tail]
  BY SpillKeeps
<1>3. replay' = NoReplay /\ writer' = writer /\ life' = life /\ mutex' = mutex
  BY DEF StoreNal
<1>4. ASSUME tail' = from, slots' = Within(slots, from, head), cells' = Pointed(cells, Within(slots, from, head)),
             head' = head, ram_pool_used' = ram_pool_used
      PROVE  BufferTypes' /\ Intact(slots, cells, ram_pool_used)'
  <2> HIDE DEF from
  <2>1. /\ Within(slots, from, head) \in [Ring -> SlotRecords]
        /\ Pointed(cells, Within(slots, from, head)) \in [Pool -> Numbers]
        /\ Intact(Within(slots, from, head), Pointed(cells, Within(slots, from, head)), ram_pool_used)
    BY <1>1, WithinKeeps DEF SafetyInv
  <2> QED BY <1>1, <1>4, <2>1 DEF BufferTypes
<1>5. BufferTypes' /\ Intact(slots, cells, ram_pool_used)' /\ queue' \in {queue, q} /\ fd' \in {"none", "open", "stale"}
  <2>1. CASE /\ ~ using_fallback /\ ram_pool_used + u.cells <= PoolCells
             /\ Recorded(u, ram_pool_used + 1, elapsed, from, ram_pool_used + u.cells)
             /\ UNCHANGED <<using_fallback, fd, queue, g_storage_fault>>
    <3>1. ram_pool_used + 1 \in 0 .. PoolCells /\ ram_pool_used + u.cells \in 0 .. PoolCells
      BY <1>1, <2>1
    <3> HIDE DEF from
    <3>2. BufferTypes' /\ Intact(slots, cells, ram_pool_used)'
      BY <1>1, <2>1, <3>1, RecordedKeeps
    <3> QED BY <2>1, <3>2 DEF SafetyInv, PhaseTypes
  <2>2. CASE /\ fd' = (IF opens THEN "open" ELSE "none")
             /\ queue' = (IF opens THEN q ELSE queue)
             /\ tail' = from /\ slots' = Within(slots, from, head)
             /\ cells' = Pointed(cells, Within(slots, from, head))
             /\ UNCHANGED <<head, ram_pool_used>>
    <3> HIDE DEF from, q
    <3> QED BY <1>4, <2>2
  <2>3. CASE /\ using_fallback
             /\ IF fd # "none" THEN queue' = q ELSE queue' = queue
             /\ IF fd # "none" /\ write_to_fallback(u).ok
                  THEN Recorded(u, 0, elapsed, from, ram_pool_used)
                  ELSE /\ tail' = from /\ slots' = Within(slots, from, head)
                       /\ cells' = Pointed(cells, Within(slots, from, head))
                       /\ UNCHANGED <<head, ram_pool_used>>
             /\ UNCHANGED <<using_fallback, fd>>
    <3>1. 0 \in 0 .. PoolCells
      OBVIOUS
    <3> HIDE DEF from, q
    <3>2. BufferTypes' /\ Intact(slots, cells, ram_pool_used)'
      BY <1>1, <1>4, <2>3, <3>1, RecordedKeeps
    <3> QED BY <2>3, <3>2 DEF SafetyInv, PhaseTypes
  <2> QED BY <2>1, <2>2, <2>3, Zenon DEF StoreNal
<1> HIDE DEF from, q
<1>6. queue' \in QueueRecords /\ EntryHeld'
  BY <1>2, <1>3, <1>5 DEF SafetyInv, SpillTypes, EntryHeld
<1> QED BY <1>3, <1>5, <1>6 DEF SafetyInv, SpillTypes, PhaseTypes, ReplayWhole, NoReplay

\* A rewind finds the newest key frame that is left, and finds it whole.
LEMMA RewindKeeps == ASSUME SafetyInv, Rewind PROVE SafetyInv'
<1> USE SafetyBufferAssumption DEF SafetyBufferAssumption
<1> DEFINE k == find_last_keyframe
           d == [i \in KeySlots |-> (head - i) % RingSlots]
<1>1. KeySlots \subseteq Ring /\ KeySlots # {} /\ head \in Ring
  BY DEF KeySlots, Searched, Ring, Rewind, safety_buffer_can_rewind, SafetyInv, BufferTypes
<1>2. \E i \in KeySlots : \A j \in KeySlots : (head - i) % RingSlots <= (head - j) % RingSlots
  <2>1. d \in [KeySlots -> Nat]
    BY <1>1 DEF Ring
  <2>2. \E i \in KeySlots : \A j \in KeySlots : d[i] <= d[j]
    BY <1>1, <2>1, LeastExists
  <2> QED BY <2>2
<1>3. k \in KeySlots
  BY <1>2 DEF find_last_keyframe
<1>4. /\ replay' = [unit |-> slots[k].unit, key |-> slots[k].key,
                    found |-> {cells[c] : c \in slots[k].at .. slots[k].at + slots[k].cells - 1}]
      /\ head' = AfterSlot(k) /\ slots' = Within(slots, tail, AfterSlot(k))
      /\ cells' = Pointed(cells, Within(slots, tail, AfterSlot(k)))
      /\ UNCHANGED <<tail, ram_pool_used, spillVars, writer, life, mutex>>
  BY DEF Rewind
<1> HIDE DEF k
<1>5. k \in Ring /\ slots[k].at # 0 /\ slots[k].key /\ slots[k] \in SlotRecords
  BY <1>1, <1>3 DEF KeySlots, SafetyInv, BufferTypes
<1>6. BufferTypes' /\ Intact(slots, cells, ram_pool_used)'
  <2>1. AfterSlot(k) \in Ring
    BY <1>5 DEF AfterSlot, Ring
  <2>2. /\ Within(slots, tail, AfterSlot(k)) \in [Ring -> SlotRecords]
        /\ Pointed(cells, Within(slots, tail, AfterSlot(k))) \in [Pool -> Numbers]
        /\ Intact(Within(slots, tail, AfterSlot(k)), Pointed(cells, Within(slots, tail, AfterSlot(k))), ram_pool_used)
    BY WithinKeeps DEF SafetyInv, BufferTypes
  <2> QED BY <1>4, <2>1, <2>2 DEF BufferTypes, SafetyInv
<1>7. ReplayWhole'
  <2>1. /\ slots[k].cells # 0
        /\ \A c \in slots[k].at .. slots[k].at + slots[k].cells - 1 : cells[c] = slots[k].unit
    BY <1>5 DEF SafetyInv, Intact, Whole
  <2>2. slots[k].at \in slots[k].at .. slots[k].at + slots[k].cells - 1
    BY <1>5, <2>1 DEF SlotRecords
  <2>3. {cells[c] : c \in slots[k].at .. slots[k].at + slots[k].cells - 1} = {slots[k].unit}
    BY <2>1, <2>2
  <2> QED BY <1>4, <1>5, <2>3 DEF ReplayWhole
<1> QED BY <1>4, <1>6, <1>7 DEF SafetyInv, SpillTypes, PhaseTypes, EntryHeld, spillVars

\* Starting, emptying and stopping the buffer.
LEMMA EmptyKeeps ==
  ASSUME SafetyInv, InitBuffer \/ Clear \/ KilledInside
  PROVE  SafetyInv'
<1>1. BufferTypes' /\ Intact(slots, cells, ram_pool_used)'
  <2>1. /\ slots' = [i \in 0 .. RingSlots - 1 |-> EmptySlot] /\ cells' = [c \in 1 .. PoolCells |-> NoUnit]
        /\ head' = 0 /\ tail' = 0 /\ ram_pool_used' = 0
    BY DEF InitBuffer, Clear, KilledInside
  <2> QED BY <2>1, NothingBroken DEF BufferTypes
<1>2. ReplayWhole'
  BY DEF InitBuffer, Clear, KilledInside, ReplayWhole, NoReplay
<1>3. CASE InitBuffer
  <2>1. EmptyQueue \in QueueRecords /\ NoUnit \in Numbers
    BY SafetyBufferAssumption DEF SafetyBufferAssumption, EmptyQueue, QueueRecords, Numbers
  <2>2. [EmptyQueue EXCEPT !.full = queue.full] \in QueueRecords
    BY <2>1 DEF QueueRecords, SafetyInv, SpillTypes
  <2> QED BY <1>1, <1>2, <1>3, <2>1, <2>2 DEF InitBuffer, SafetyInv, SpillTypes, PhaseTypes, EntryHeld
<1>4. CASE Clear
  BY <1>1, <1>2, <1>4 DEF Clear, SafetyInv, SpillTypes, PhaseTypes, EntryHeld
<1>5. CASE KilledInside
  BY <1>1, <1>2, <1>5 DEF KilledInside, SafetyInv, SpillTypes, PhaseTypes, EntryHeld, spillVars
<1> QED BY <1>3, <1>4, <1>5

\* What the writer thread does to the queue.
LEMMA WriterKeeps == ASSUME SafetyInv, Writer PROVE SafetyInv'
<1>1. Consumed \in QueueRecords
  <2> DEFINE units == [queue.unit EXCEPT ![queue.tail] = NoUnit]
             after == (queue.tail + 1) % QueueSlots
  <2>1. queue \in QueueRecords
    BY DEF SafetyInv, SpillTypes
  <2>2. units \in [0 .. QueueSlots - 1 -> Numbers] /\ after \in 0 .. QueueSlots - 1
    BY <2>1, SafetyBufferAssumption DEF SafetyBufferAssumption, QueueRecords, Numbers
  <2>3. Consumed = [queue EXCEPT !.unit = units, !.tail = after]
    BY DEF Consumed
  <2> HIDE DEF units, after
  <2> QED BY <2>1, <2>2, <2>3 DEF QueueRecords
<1>2. UNCHANGED <<bufferVars, life, mutex, replay>>
  BY DEF Writer, WriterWakes, WriterForgets, WriterDrained, WriterHeader, WriterPayload, spillVars
<1>3. queue' \in {queue, Consumed} /\ fd' \in {fd, "none", "stale"}
  BY DEF Writer, WriterWakes, WriterForgets, WriterDrained, WriterHeader, WriterPayload, spillVars
<1>4. queue \in QueueRecords /\ writer \in [pc : {"off", "wait", "drain", "payload", "close"}, unit : Numbers]
  BY DEF SafetyInv, SpillTypes
<1>5. queue.unit[queue.tail] \in Numbers /\ NoUnit \in Numbers
  BY <1>4 DEF QueueRecords, Numbers
<1>6. writer' \in [pc : {"off", "wait", "drain", "payload", "close"}, unit : Numbers] /\ EntryHeld'
  <2>1. CASE WriterWakes
    BY <1>4, <2>1 DEF WriterWakes, EntryHeld
  <2>2. CASE WriterForgets
    BY <1>4, <2>2 DEF WriterForgets, EntryHeld
  <2>3. CASE WriterDrained
    BY <1>4, <2>3 DEF WriterDrained, EntryHeld
  <2>4. ASSUME NEW ok \in BOOLEAN, WriterHeader(ok) PROVE writer' \in [pc : {"off", "wait", "drain", "payload", "close"}, unit : Numbers] /\ EntryHeld'
    <3>1. \/ writer' = writer /\ writer.pc = "drain"
          \/ writer' = [pc |-> "payload", unit |-> queue.unit[queue.tail]] /\ queue' = queue /\ queue.head # queue.tail
          \/ writer' = [writer EXCEPT !.pc = "close"]
      BY <2>4 DEF WriterHeader
    <3> QED BY <1>4, <1>5, <3>1 DEF EntryHeld
  <2>5. ASSUME NEW ok \in BOOLEAN, WriterPayload(ok) PROVE writer' \in [pc : {"off", "wait", "drain", "payload", "close"}, unit : Numbers] /\ EntryHeld'
    <3>1. writer' = [pc |-> "drain", unit |-> NoUnit] \/ writer' = [pc |-> "close", unit |-> NoUnit]
      BY <2>5 DEF WriterPayload
    <3> QED BY <1>5, <3>1 DEF EntryHeld
  <2> QED BY <2>1, <2>2, <2>3, <2>4, <2>5 DEF Writer
<1> QED BY <1>1, <1>2, <1>3, <1>4, <1>6 DEF SafetyInv, BufferTypes, SpillTypes, PhaseTypes, ReplayWhole, bufferVars

\* Each step keeps what is kept whole.
LEMMA SafetyStep == ASSUME SafetyInv, [SafetyNext]_safetyVars PROVE SafetyInv'
<1>1. CASE Rewind \/ Writer \/ InitBuffer \/ Clear \/ KilledInside
  BY <1>1, RewindKeeps, WriterKeeps, EmptyKeeps
<1>2. ASSUME NEW u \in Units, NEW elapsed \in {0, 1}, NEW opens \in BOOLEAN, StoreNal(u, elapsed, opens)
      PROVE  SafetyInv'
  BY <1>2, StoreKeeps
<1>3. CASE HandlePacketLoss
  BY <1>3 DEF HandlePacketLoss, SafetyInv, BufferTypes, SpillTypes, PhaseTypes, EntryHeld, ReplayWhole, NoReplay, spillVars
<1>4. CASE StopWriter \/ Stopping \/ \E opens \in BOOLEAN : ClearReopens(opens)
  BY <1>4 DEF StopWriter, Stopping, JoinWriter, DropPool, ShutdownDone, ClearReopens,
              SafetyInv, BufferTypes, SpillTypes, PhaseTypes, EntryHeld, ReplayWhole, bufferVars, spillVars
<1>5. CASE UNCHANGED safetyVars
  BY <1>5 DEF safetyVars, SafetyInv, BufferTypes, SpillTypes, PhaseTypes, EntryHeld, ReplayWhole, bufferVars, spillVars
<1> QED BY <1>1, <1>2, <1>3, <1>4, <1>5 DEF SafetyNext

\* What holds at first and is kept.
LEMMA SafetyInvariant == SafetySpec => []SafetyInv
<1>1. SafetyInit => SafetyInv
  <2> SUFFICES ASSUME SafetyInit PROVE SafetyInv
    OBVIOUS
  <2>1. EmptyQueue \in QueueRecords /\ NoUnit \in Numbers
    BY SafetyBufferAssumption DEF SafetyBufferAssumption, EmptyQueue, QueueRecords, Numbers
  <2>2. BufferTypes /\ Intact(slots, cells, ram_pool_used)
    BY NothingBroken DEF SafetyInit, BufferTypes
  <2> QED BY <2>1, <2>2 DEF SafetyInit, SafetyInv, SpillTypes, PhaseTypes, EntryHeld, ReplayWhole, NoReplay
<1> QED BY <1>1, SafetyStep, PTL DEF SafetySpec

\* Types of the ring, the pool and the queue (safety_buffer.c).
THEOREM SafetyTypes == SafetySpec => []SafetyTypeOK
<1>1. SafetyInv => SafetyTypeOK
  BY DEF SafetyInv, BufferTypes, SpillTypes, PhaseTypes, SafetyTypeOK, Ring, Pool, Numbers
<1> QED BY <1>1, SafetyInvariant, PTL

\* A rewind hands the decoder a whole key frame, and an entry of the file has the length its header says,
\* for every size of the ring, the pool and the queue (safety_buffer_rewind, writer_thread).
THEOREM KeepsWhole == SafetySpec => []KeptWhole
<1>1. SafetyInv => KeptWhole
  BY DEF SafetyInv, EntryHeld, ReplayWhole, KeptWhole
<1> QED BY <1>1, SafetyInvariant, PTL
==============================================================================
