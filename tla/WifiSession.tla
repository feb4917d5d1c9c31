---------------------------- MODULE WifiSession -----------------------------
(***************************************************************************)
(* Wi-Fi from the connection dialog to the exit: the access point          *)
(* controller (external), the ping thread of a stream and the keepalive    *)
(* thread of the menus, which both reconnect a lost access point, the      *)
(* session's resume state with its ten-second limit, and the radio's       *)
(* power-save setting, which the launch, the stream and the recovery all   *)
(* change and must leave as they found it (network_me.c, netconf_ui.c,     *)
(* network_connect.c).                                                     *)
(*                                                                         *)
(* Time is three flags: cooldown is the 500 ms after an attempt began,     *)
(* late the ten seconds since the loss, and every bounded wait may run     *)
(* out.  A thread is preempted between its steps.                          *)
(***************************************************************************)
EXTENDS Naturals

CONSTANT PowerSaves     \* the values WLAN_POWERSAVE can have; "off" is one

ASSUME PowerSavesAssumption == {"on", "off"} \subseteq PowerSaves /\ "unset" \notin PowerSaves    \* -1

VARIABLES
    ap, range,                              \* external: the controller's state; is the access point near
    pc,                                     \* where the ping and the keepalive thread are
    g_wifi_reconnecting, cooldown,          \* cooldown: g_last_reconnect_time
    s_session_state, late,                  \* late: s_wifi_lost_time_us is ten seconds old
    ping_running, g_keepalive_running, g_stream_status,     \* ping_running: me_running
    screen, stack,                          \* the main thread; are the network libraries up
    powersave, g_launch_wlan_ps_saved, g_orig_wlan_powersave,
    found                                   \* history: power save at launch, and before the stream

radio == <<ap, range>>
flags == <<g_wifi_reconnecting, cooldown>>
resume == <<s_session_state, late, g_stream_status>>
running == <<ping_running, g_keepalive_running>>
saving == <<powersave, g_launch_wlan_ps_saved, g_orig_wlan_powersave, found>>
wifiVars == <<radio, pc, flags, resume, running, screen, stack, saving>>

Threads == {"ping", "keepalive"}
Reconnect == {"waitoff", "settle", "poll"}
NoThread == {"none", "ended"}

WifiTypeOK ==
    /\ ap \in {"off", "leaving", "joining", "up"} /\ range \in BOOLEAN
    /\ pc \in [Threads -> {"none", "top", "check", "enter", "resumed", "tail", "ended"} \cup Reconnect]
    /\ {g_wifi_reconnecting, cooldown, late, ping_running, g_keepalive_running, g_stream_status, stack} \subseteq BOOLEAN
    /\ s_session_state \in {"ACTIVE", "WIFI_LOST", "RECONNECTING"}
    /\ screen \in {"boot", "menu", "stream", "ending", "joined", "restart", "exiting", "exited"}
    /\ {powersave, found.launch, found.stream} \subseteq PowerSaves
    /\ {g_launch_wlan_ps_saved, g_orig_wlan_powersave} \subseteq PowerSaves \cup {"unset"}

WifiInit ==
    /\ ap = "off" /\ range \in BOOLEAN
    /\ pc = [t \in Threads |-> "none"]
    /\ g_wifi_reconnecting = FALSE /\ cooldown = FALSE
    /\ s_session_state = "ACTIVE" /\ late = FALSE /\ g_stream_status = FALSE
    /\ ping_running = FALSE /\ g_keepalive_running = FALSE
    /\ screen = "boot" /\ stack = FALSE
    /\ powersave \in PowerSaves
    /\ g_launch_wlan_ps_saved = "unset" /\ g_orig_wlan_powersave = "unset"
    /\ found = [launch |-> powersave, stream |-> powersave]

Goto(t, where) == pc' = [pc EXCEPT ![t] = where]

----------------------------------------------------------------------------
(***************************************************************************)
(* The access point controller (external), and time.                       *)
(***************************************************************************)
ApLeaves ==
    /\ ap = "leaving" /\ ap' = "off"
    /\ UNCHANGED <<range, pc, flags, resume, running, screen, stack, saving>>
ApJoins ==
    /\ ap = "joining" /\ ap' = IF range THEN "up" ELSE "off"
    /\ UNCHANGED <<range, pc, flags, resume, running, screen, stack, saving>>
ApMoves ==
    /\ range' = ~range /\ ap' = IF range /\ ap = "up" THEN "off" ELSE ap
    /\ UNCHANGED <<pc, flags, resume, running, screen, stack, saving>>
CooldownOver ==
    /\ cooldown /\ cooldown' = FALSE
    /\ UNCHANGED <<radio, pc, g_wifi_reconnecting, resume, running, screen, stack, saving>>
TenSeconds ==
    /\ s_session_state # "ACTIVE" /\ ~late /\ late' = TRUE
    /\ UNCHANGED <<radio, pc, flags, s_session_state, g_stream_status, running, screen, stack, saving>>

----------------------------------------------------------------------------
(***************************************************************************)
(* wifi_try_reconnect, by either thread.  Returned(t) is where its caller  *)
(* goes on, with what it returned.                                         *)
(***************************************************************************)
Returned(t, ok) == IF t = "keepalive" THEN "tail" ELSE IF ok THEN "resumed" ELSE "tail"
Give(t, ok) == g_wifi_reconnecting' = FALSE /\ Goto(t, Returned(t, ok))
Wanted == ping_running \/ g_keepalive_running

\* Within the cooldown nothing is done.
TooSoon(t) ==
    /\ pc[t] = "enter" /\ cooldown /\ Goto(t, Returned(t, FALSE))
    /\ UNCHANGED <<radio, flags, resume, running, screen, stack, saving>>

\* Otherwise the attempt is marked and the controller told to disconnect; it does so later.
\* Without a session there is nothing to wait for.
Begin(t) ==
    /\ pc[t] = "enter" /\ ~cooldown /\ g_wifi_reconnecting' = TRUE /\ cooldown' = TRUE
    /\ ap' = IF ap = "off" THEN "off" ELSE "leaving"
    /\ Goto(t, "waitoff")
    /\ UNCHANGED <<range, resume, running, screen, stack, saving>>

\* Down, and someone still wants Wi-Fi; down but nobody does; or the wait ended with a session
\* still there.
IsOff(t) ==
    /\ pc[t] = "waitoff" /\ ap = "off" /\ Wanted /\ Goto(t, "settle")
    /\ UNCHANGED <<radio, flags, resume, running, screen, stack, saving>>
WaitGivesUp(t) ==
    /\ pc[t] = "waitoff" /\ (ap # "off" \/ ~Wanted) /\ Give(t, FALSE)
    /\ UNCHANGED <<radio, cooldown, resume, running, screen, stack, saving>>

\* After the settling time connect; once more after reinitialising the controller; then give up.
Connect(t) ==
    /\ pc[t] = "settle" /\ ap = "off" /\ ap' = "joining" /\ Goto(t, "poll")
    /\ UNCHANGED <<range, flags, resume, running, screen, stack, saving>>
ReinitConnect(t) ==
    /\ pc[t] = "settle" /\ ap' = "joining" /\ Goto(t, "poll")
    /\ UNCHANGED <<range, flags, resume, running, screen, stack, saving>>
ConnectFails(t) ==
    /\ pc[t] = "settle" /\ ap' = "off" /\ Give(t, FALSE)
    /\ UNCHANGED <<range, cooldown, resume, running, screen, stack, saving>>

\* Connected; or fifteen seconds, an unreadable state or the end of both users without.
Connected(t) ==
    /\ pc[t] = "poll" /\ Wanted /\ ap = "up" /\ Give(t, TRUE)
    /\ UNCHANGED <<radio, cooldown, resume, running, screen, stack, saving>>
PollGivesUp(t) ==
    /\ pc[t] = "poll" /\ Give(t, FALSE)
    /\ UNCHANGED <<radio, cooldown, resume, running, screen, stack, saving>>

----------------------------------------------------------------------------
(***************************************************************************)
(* network_ping_thread: one turn is top, check, [reconnect, resumed], tail.*)
(***************************************************************************)

\* A ping is sent; every second one, and the twentieth failure in a row, checks Wi-Fi.
PingTop ==
    /\ pc["ping"] = "top"
    /\ \/ ping_running /\ Goto("ping", "check")
       \/ ping_running /\ Goto("ping", "tail")
       \/ ~ping_running /\ Goto("ping", "ended")
    /\ UNCHANGED <<radio, flags, resume, running, screen, stack, saving>>

\* A loss: no connection, an unreadable state, or twenty failed sends.
PingCheck(bad) ==
    /\ pc["ping"] = "check" /\ (ap # "up" => bad)
    /\ IF bad /\ s_session_state = "ACTIVE" THEN late' = FALSE /\ powersave' = "on" ELSE UNCHANGED <<late, powersave>>
    /\ s_session_state' =
            IF ~bad THEN s_session_state
            ELSE IF ~g_wifi_reconnecting THEN "RECONNECTING"
            ELSE IF s_session_state = "ACTIVE" THEN "WIFI_LOST" ELSE s_session_state
    /\ Goto("ping", IF bad /\ ~g_wifi_reconnecting THEN "enter" ELSE "tail")
    /\ UNCHANGED <<radio, flags, g_stream_status, running, screen, stack, g_launch_wlan_ps_saved, g_orig_wlan_powersave, found>>

\* Reconnected: power save off, a burst of pings, an IDR, and the session is active again.
PingResumes ==
    /\ pc["ping"] = "resumed" /\ Goto("ping", "tail")
    /\ powersave' = "off" /\ s_session_state' = "ACTIVE" /\ late' = FALSE
    /\ UNCHANGED <<radio, flags, g_stream_status, running, screen, stack, g_launch_wlan_ps_saved, g_orig_wlan_powersave, found>>

\* A mutant of PingTail: only a loss nobody works on is timed.
PingTailWhenLost ==
    /\ pc["ping"] = "tail" /\ Goto("ping", "top")
    /\ LET over == s_session_state = "WIFI_LOST" /\ late
       IN  g_stream_status' = (g_stream_status \/ over) /\ ping_running' = (ping_running /\ ~over)
    /\ UNCHANGED <<radio, flags, s_session_state, late, g_keepalive_running, screen, stack, saving>>
\* The end of the turn: ten seconds after the loss the stream is given up.
PingTail ==
    /\ pc["ping"] = "tail" /\ Goto("ping", "top")
    /\ LET over == s_session_state # "ACTIVE" /\ late
       IN  g_stream_status' = (g_stream_status \/ over) /\ ping_running' = (ping_running /\ ~over)
    /\ UNCHANGED <<radio, flags, s_session_state, late, g_keepalive_running, screen, stack, saving>>

(***************************************************************************)
(* wifi_keepalive_thread: it only acts on a controller that is fully down. *)
(***************************************************************************)
KeepaliveCheck ==
    /\ pc["keepalive"] = "top"
    /\ Goto("keepalive", IF ~g_keepalive_running THEN "ended"
                         ELSE IF ap = "off" /\ ~g_wifi_reconnecting THEN "enter" ELSE "tail")
    /\ UNCHANGED <<radio, flags, resume, running, screen, stack, saving>>
KeepaliveSleep ==
    /\ pc["keepalive"] = "tail" /\ Goto("keepalive", "top")
    /\ UNCHANGED <<radio, flags, resume, running, screen, stack, saving>>

----------------------------------------------------------------------------
(***************************************************************************)
(* The main thread.                                                        *)
(***************************************************************************)

\* A mutant of wifi_launch_disable_power_save: the second visit saves what the first one set.
LaunchSavesAgain == g_launch_wlan_ps_saved' = powersave /\ powersave' = "off"
wifi_launch_disable_power_save ==
    /\ g_launch_wlan_ps_saved' = IF g_launch_wlan_ps_saved = "unset" THEN powersave ELSE g_launch_wlan_ps_saved
    /\ powersave' = "off"

\* wifi_keepalive_start: nothing when the thread runs already.
KeepaliveStart ==
    IF pc["keepalive"] = "none"
    THEN g_keepalive_running' = TRUE /\ Goto("keepalive", "top")
    ELSE UNCHANGED <<g_keepalive_running, pc>>

\* netconf_ui_run: the libraries are brought up and the dialog run; when the user cancels or no
\* address comes the libraries are taken down again and the program halts.
NetconfConnects ==
    /\ screen = "boot" /\ range /\ screen' = "menu" /\ stack' = TRUE /\ ap' = "up"
    /\ wifi_launch_disable_power_save /\ KeepaliveStart
    /\ found' = [found EXCEPT !.launch = powersave]
    /\ UNCHANGED <<range, flags, resume, ping_running, g_orig_wlan_powersave>>
NetconfFails ==
    /\ screen = "boot" /\ screen' = "exited"
    /\ UNCHANGED <<radio, pc, flags, resume, running, stack, saving>>

\* Back to the settings and on again: with Wi-Fi up the dialog is skipped.
BackNavigation ==
    /\ screen = "menu" /\ ap = "up"
    /\ wifi_launch_disable_power_save /\ KeepaliveStart
    /\ UNCHANGED <<radio, flags, resume, ping_running, screen, stack, g_orig_wlan_powersave, found>>

\* network_me_init: power save is noted and turned off, the ping thread started.
StartStream ==
    /\ screen = "menu" /\ screen' = "stream"
    /\ g_orig_wlan_powersave' = powersave /\ powersave' = "off" /\ found' = [found EXCEPT !.stream = powersave]
    /\ ping_running' = TRUE /\ Goto("ping", "top")
    /\ UNCHANGED <<radio, flags, resume, g_keepalive_running, stack, g_launch_wlan_ps_saved>>

\* The user, the host or the resume limit ends the stream.
EndStream ==
    /\ screen = "stream" /\ screen' = "ending" /\ ping_running' = FALSE /\ g_stream_status' = FALSE
    /\ UNCHANGED <<radio, pc, flags, s_session_state, late, g_keepalive_running, stack, saving>>

\* network_me_shutdown: the ping thread has 350 ms to end, then it is killed where it is.
ShutdownPing ==
    /\ screen = "ending" /\ screen' = "joined" /\ Goto("ping", "none")
    /\ UNCHANGED <<radio, flags, resume, running, stack, saving>>
RestorePowerSave ==
    /\ screen = "joined" /\ screen' = "restart"
    /\ powersave' = IF g_orig_wlan_powersave = "unset" THEN powersave ELSE g_orig_wlan_powersave
    /\ g_orig_wlan_powersave' = "unset" /\ g_keepalive_running' = FALSE
    /\ UNCHANGED <<radio, pc, flags, resume, ping_running, stack, g_launch_wlan_ps_saved, found>>

\* The host list stops the keepalive thread (joined: its sleeps end within the six seconds),
\* reopens the decoder and starts it again.
RestartKeepalive ==
    /\ screen = "restart" /\ pc["keepalive"] \in NoThread /\ screen' = "menu"
    /\ g_keepalive_running' = TRUE /\ Goto("keepalive", "top")
    /\ UNCHANGED <<radio, flags, resume, ping_running, stack, saving>>

\* moonlight_prepare_process_exit: the keepalive thread is stopped, then wifi_disconnect puts
\* power save back and takes the network down.
ExitBegins ==
    /\ screen = "menu" /\ screen' = "exiting" /\ g_keepalive_running' = FALSE
    /\ UNCHANGED <<radio, pc, flags, resume, ping_running, stack, saving>>
wifi_disconnect ==
    /\ screen = "exiting" /\ pc["keepalive"] \in NoThread /\ screen' = "exited" /\ Goto("keepalive", "none")
    /\ powersave' = IF g_launch_wlan_ps_saved = "unset" THEN powersave ELSE g_launch_wlan_ps_saved
    /\ g_launch_wlan_ps_saved' = "unset"
    /\ ap' = "off" /\ stack' = FALSE
    /\ UNCHANGED <<range, flags, resume, running, g_orig_wlan_powersave, found>>

Exited == screen = "exited" /\ UNCHANGED wifiVars

----------------------------------------------------------------------------
Attempt(t) ==
    \/ TooSoon(t) \/ Begin(t) \/ IsOff(t) \/ WaitGivesUp(t)
    \/ Connect(t) \/ ReinitConnect(t) \/ ConnectFails(t) \/ Connected(t) \/ PollGivesUp(t)
PingThread == PingTop \/ (\E bad \in BOOLEAN : PingCheck(bad)) \/ PingResumes \/ PingTail \/ Attempt("ping")
KeepaliveThread == KeepaliveCheck \/ KeepaliveSleep \/ Attempt("keepalive")
Teardown == ShutdownPing \/ RestorePowerSave \/ RestartKeepalive \/ wifi_disconnect
WifiMain ==
    \/ NetconfConnects \/ NetconfFails \/ BackNavigation \/ StartStream \/ EndStream
    \/ Teardown \/ ExitBegins \/ Exited
Radio == ApLeaves \/ ApJoins \/ ApMoves \/ CooldownOver \/ TenSeconds
WifiNext == Radio \/ PingThread \/ KeepaliveThread \/ WifiMain

\* Threads are scheduled, teardown goes on, a stream that was given up is ended by the main
\* loop, time passes; a connection attempt in range comes through when it is made often enough.
WifiSpec ==
    /\ WifiInit /\ [][WifiNext]_wifiVars
    /\ WF_wifiVars(PingThread) /\ WF_wifiVars(KeepaliveThread) /\ WF_wifiVars(Teardown) /\ WF_wifiVars(g_stream_status /\ EndStream)
    /\ WF_wifiVars(ApLeaves) /\ WF_wifiVars(CooldownOver) /\ WF_wifiVars(TenSeconds)
    /\ SF_wifiVars(range /\ ApJoins) /\ SF_wifiVars(IsOff("keepalive"))
    /\ SF_wifiVars(Begin("keepalive")) /\ SF_wifiVars(ReinitConnect("keepalive"))

----------------------------------------------------------------------------
(***************************************************************************)
(* Properties.                                                             *)
(***************************************************************************)

\* A Wi-Fi outage does not last in a stream: the session is active again or the stream ends,
\* whatever the two threads do to each other's attempts and even if one was killed in the
\* middle of an earlier one.
OutageEnds == (screen = "stream" /\ s_session_state # "ACTIVE") ~> (s_session_state = "ACTIVE" \/ screen # "stream")

\* Power save is left as it was found: after a stream as before it, whether or not the
\* recovery turned it on, and after the program as before, however often it was launched.
PowerSaveRestored ==
    /\ screen = "restart" => powersave = found.stream
    /\ screen = "exited" => powersave = found.launch
=============================================================================
