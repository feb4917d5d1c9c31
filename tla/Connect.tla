------------------------------ MODULE Connect ------------------------------
(***************************************************************************)
(* From the host list to a stream and back: network_connect_all (pairing,  *)
(* choice of the application, launch or resume, RTSP) with the retries of  *)
(* main around it, the teardown of a stream, and the worker that sends the *)
(* authenticated /cancel while the user may already pick the next host.    *)
(***************************************************************************)
EXTENDS RtspSession

CONSTANT SlowCancel     \* whether the /cancel worker may outlast the 7 s wait

ASSUME CancelAssumption ==
    SlowCancel \in BOOLEAN /\ MaxKey > Cardinality(Hosts)

VARIABLES
    launch_try,     \* first or second sunshine_launch_session
    rtsp_try,       \* attempts of rtsp_session on one launch
    connect_try,    \* attempts of network_connect_all in main
    resp,           \* the response buffer of sunshine_launch_session
    retry_host,     \* host of s_retry_appid, NoHost when none is kept
    drawing,        \* the connect screen's render thread runs
    worker,         \* the /cancel worker: g_cancel_tid and how far it is
    worker_addr,    \* the address it resolved
    since           \* history: hosts launched or resumed on while it exists

mainVars == <<launch_try, rtsp_try, connect_try, resp, retry_host, drawing>>
workerVars == <<worker, worker_addr, since>>
vars == <<hostVars, target, pc, pairVars, rtspVars, mainVars, workerVars>>

MaxLaunch == 2
MaxRtsp == 3
MaxConnect == 3

Places == {"menu", "wait", "verify", "pair", "pin", "stopped", "joined", "grid",
           "info", "infohttp", "prompt", "resume", "quit", "launch",
           "rtsp0", "rtsp", "rtspfail", "rtspdead", "rtspcancel",
           "failed", "fatal", "playing", "starting", "streaming", "ended", "teardown"}

TypeOK ==
    /\ HostTypeOK /\ PairTypeOK /\ RtspTypeOK
    /\ pc \in Places
    /\ launch_try \in 1..MaxLaunch
    /\ rtsp_try \in 1..MaxRtsp
    /\ connect_try \in 1..MaxConnect
    /\ resp \in Bodies
    /\ retry_host \in Hosts \cup {NoHost}
    /\ drawing \in BOOLEAN
    /\ worker \in {"none", "created", "handshake", "gone"}
    /\ worker_addr \in Hosts \cup {NoHost}
    /\ since \subseteq Hosts

Init ==
    /\ host \in [Hosts -> {[paired |-> p, session |-> NoSession] : p \in BOOLEAN}]
    /\ pins = [h \in Hosts |-> NoPin]
    /\ faults = 0
    /\ target = NoHost /\ pc = "menu"
    /\ saved = {h \in Hosts : host[h].paired}
    /\ ever = saved
    /\ last_paired \in saved \cup {NoHost}
    /\ is_paired = (last_paired # NoHost)
    /\ thread = "none" /\ cancel = FALSE
    /\ cmd = "options" /\ try = 1 /\ res = {}
    /\ audio_ok = FALSE /\ video_port = FALSE /\ session_id = FALSE
    /\ ri_key = 0
    /\ launch_try = 1 /\ rtsp_try = 1 /\ connect_try = 1
    /\ resp = "none" /\ retry_host = NoHost /\ drawing = FALSE
    /\ worker = "none" /\ worker_addr = NoHost /\ since = {}

(***************************************************************************)
(* network_connect_all up to the launch.                                   *)
(***************************************************************************)
(* The host list: the address becomes the target, and the pairing flag is  *)
(* the answer of the last discovery probe, which may be out of date.       *)
SelectHost(h, probed) ==
    /\ pc = "menu"
    /\ target' = h
    /\ is_paired' = probed
    /\ connect_try' = 1
    /\ pc' = "wait"
    /\ UNCHANGED <<hostVars, last_paired, saved, thread, cancel, ever, rtspVars,
                   launch_try, rtsp_try, resp, retry_host, drawing, workerVars>>

WaitForCancelNot(ok) == ok /\ worker' = IF worker = "gone" THEN "none" ELSE worker

(* network_wait_for_cancel_thread: a worker that is gone is forgotten, one *)
(* that outlasts the wait is kept.                                         *)
WaitForCancel(ok) ==
    \/ worker \in {"none", "gone"} /\ ok /\ worker' = "none"
    \/ worker \in {"created", "handshake"} /\ SlowCancel /\ ~ok /\ UNCHANGED worker

AwaitOldCancel ==
    /\ pc = "wait"
    /\ \E ok \in BOOLEAN :
          /\ WaitForCancel(ok)
          /\ pc' = IF ~ok THEN "failed" ELSE IF is_paired THEN "verify" ELSE "pair"
    /\ UNCHANGED <<hostVars, target, pairVars, rtspVars, mainVars, worker_addr, since>>

(* Cached pairing is checked over HTTPS: refused means pair again, no      *)
(* answer means give up.                                                   *)
VerifyPairing ==
    /\ pc = "verify"
    /\ \E o \in HttpsOutcomes(target, target, "serverinfo", 0) :
          /\ https_launch_get(target, target, "serverinfo", 0, o)
          /\ LET denied == o.ret = 0 /\ o.body = "denied"
             IN  /\ is_paired' = ~denied
                 /\ last_paired' = IF denied THEN NoHost ELSE last_paired
                 /\ pc' = IF denied THEN "pair"
                          ELSE IF o.ret = 0 /\ StatusCode(o.body) = 200 THEN "grid" ELSE "fatal"
    /\ UNCHANGED <<target, saved, thread, cancel, ever, rtspVars, mainVars, workerVars>>

(* The application: the one kept from a failed attempt on the same host,   *)
(* or the choice in the game grid, which may be left or come back empty.   *)
ChooseApp ==
    /\ pc = "grid"
    /\ \/ /\ retry_host' = target
          /\ pc' = "info" /\ launch_try' = 1 /\ try' = 1
          /\ drawing' = TRUE
          /\ UNCHANGED <<is_paired, last_paired, faults>>
       \/ /\ retry_host # target
          /\ retry_host' = NoHost
          /\ pc' = "fatal"
          /\ \/ UNCHANGED <<is_paired, last_paired, faults>>
             \/ /\ faults < MaxFaults /\ faults' = faults + 1
                /\ is_paired' = FALSE /\ last_paired' = NoHost
          /\ UNCHANGED <<launch_try, try, drawing>>
    /\ UNCHANGED <<host, pins, target, saved, thread, cancel, ever, cmd, res, audio_ok,
                   video_port, session_id, ri_key, rtsp_try, connect_try, resp, workerVars>>

(***************************************************************************)
(* sunshine_launch_session.                                                *)
(***************************************************************************)
OutsideLaunch == <<target, last_paired, saved, thread, cancel, ever, cmd, res, audio_ok,
                   video_port, session_id, connect_try, worker, worker_addr>>

(* History: the host has given the client a session while the worker runs. *)
NoteLaunch(body) ==
    since' = IF worker \in {"created", "handshake"} /\ body = "session"
             THEN since \cup {target} ELSE since

LaunchFailedUncounted ==
    UNCHANGED launch_try /\ pc' = "info" /\ try' = 1 /\ drawing' = TRUE

(* It failed: network_connect_all runs it once more, then returns -3.      *)
LaunchFailed ==
    IF launch_try < MaxLaunch
    THEN launch_try' = launch_try + 1 /\ pc' = "info" /\ try' = 1 /\ drawing' = TRUE
    ELSE pc' = "failed" /\ drawing' = FALSE /\ UNCHANGED <<launch_try, try>>

(* A request that is sent a second time when the first try got no answer.  *)
Retried(o) == o.ret < 0 /\ try = 1

(* A random key: one that no host has a session under.                     *)
FreshKey == CHOOSE k \in 1..MaxKey : k \notin {host[h].session : h \in Hosts}

(* The serverinfo answered: a key is drawn for this session.               *)
InfoKnown(body) ==
    /\ ri_key' = FreshKey
    /\ resp' = body
    /\ pc' = IF body = "busy" THEN "prompt" ELSE "launch"
    /\ drawing' = (body # "busy")
    /\ try' = 1
    /\ UNCHANGED launch_try

ServerInfo ==
    /\ pc = "info"
    /\ \E o \in HttpsOutcomes(target, target, "serverinfo", 0) :
          /\ https_launch_get(target, target, "serverinfo", 0, o)
          /\ IF o.ret = 0 /\ StatusCode(o.body) = 200
             THEN InfoKnown(o.body)
             ELSE /\ IF try = 1 THEN try' = 2 /\ UNCHANGED pc ELSE pc' = "infohttp" /\ try' = 1
                  /\ resp' = IF o.body = "keep" THEN "none" ELSE o.body
                  /\ UNCHANGED <<ri_key, drawing, launch_try>>
    /\ UNCHANGED <<OutsideLaunch, since, is_paired, rtsp_try, retry_host>>

(* The plain fallback answers anybody; two failures end the attempt.       *)
ServerInfoPlain ==
    /\ pc = "infohttp"
    /\ \/ /\ InfoKnown(IF host[target].session = NoSession THEN "idle" ELSE "busy")
          /\ UNCHANGED faults
       \/ /\ faults < MaxFaults /\ faults' = faults + 1
          /\ LaunchFailed
          /\ UNCHANGED <<ri_key, resp>>
    /\ UNCHANGED <<OutsideLaunch, since, host, pins, is_paired, rtsp_try, retry_host>>

(* prompt_existing_session_action, with the render thread stopped.         *)
Prompt ==
    /\ pc = "prompt"
    /\ \/ LaunchFailed
       \/ /\ pc' \in {"resume", "quit"}
          /\ drawing' = TRUE /\ try' = 1
          /\ UNCHANGED launch_try
    /\ UNCHANGED <<OutsideLaunch, since, hostVars, is_paired, ri_key, resp, rtsp_try, retry_host>>

EnterRtspUnchecked(body) ==
    pc' = "rtsp0" /\ rtsp_try' = 1 /\ try' = 1 /\ UNCHANGED <<drawing, launch_try>>

(* Step E: the response must name the session's URL.                       *)
EnterRtsp(body) ==
    IF body = "session"
    THEN pc' = "rtsp0" /\ rtsp_try' = 1 /\ try' = 1 /\ UNCHANGED <<drawing, launch_try>>
    ELSE LaunchFailed /\ UNCHANGED rtsp_try

Resume ==
    /\ pc = "resume"
    /\ \E o \in HttpsOutcomes(target, target, "resume", ri_key) :
          /\ https_launch_get(target, target, "resume", ri_key, o)
          /\ NoteLaunch(o.body)
          /\ resp' = IF o.body = "keep" THEN resp ELSE o.body
          /\ \/ /\ Retried(o)
                /\ try' = 2
                /\ UNCHANGED <<pc, drawing, launch_try, rtsp_try>>
             \/ /\ ~Retried(o)
                /\ IF o.ret = 0 /\ StatusCode(resp') = 200
                   THEN EnterRtsp(resp')
                   ELSE pc' = "quit" /\ try' = 1 /\ UNCHANGED <<drawing, launch_try, rtsp_try>>
    /\ UNCHANGED <<OutsideLaunch, is_paired, ri_key, retry_host>>

(* /cancel of the running session; whatever comes of it, launch follows    *)
(* after six seconds.  It is sent again when the first try failed; a try   *)
(* that fails has changed nothing.  Its own response buffer is empty, so   *)
(* that the test for status 401 never succeeds.                            *)
QuitRunning ==
    /\ pc = "quit"
    /\ \E o \in HttpsOutcomes(target, target, "cancel", 0) :
          https_launch_get(target, target, "cancel", 0, o)
    /\ pc' = "launch" /\ try' = 1
    /\ UNCHANGED <<OutsideLaunch, since, is_paired, ri_key, resp, launch_try, drawing, rtsp_try, retry_host>>

Launch ==
    /\ pc = "launch"
    /\ \E o \in HttpsOutcomes(target, target, "launch", ri_key) :
          /\ https_launch_get(target, target, "launch", ri_key, o)
          /\ NoteLaunch(o.body)
          /\ resp' = IF o.body = "keep" THEN resp ELSE o.body
          /\ \/ /\ Retried(o)
                /\ try' = 2
                /\ UNCHANGED <<pc, drawing, launch_try, rtsp_try, is_paired, last_paired, saved, retry_host>>
             \/ /\ ~Retried(o)
                /\ o.ret = 0 /\ resp' = "denied"       \* 401: forget the pairing
                /\ is_paired' = FALSE /\ last_paired' = NoHost
                /\ saved' = saved \ {target}
                /\ retry_host' = NoHost
                /\ pc' = "fatal" /\ drawing' = FALSE
                /\ UNCHANGED <<try, launch_try, rtsp_try>>
             \/ /\ ~Retried(o)
                /\ ~(o.ret = 0 /\ resp' = "denied")
                /\ IF o.ret = 0 /\ StatusCode(resp') = 200
                   THEN EnterRtsp(resp')
                   ELSE LaunchFailed /\ UNCHANGED rtsp_try
                /\ UNCHANGED <<is_paired, last_paired, saved, retry_host>>
    /\ UNCHANGED <<target, thread, cancel, ever, cmd, res, audio_ok, video_port, session_id,
                   connect_try, worker, worker_addr, ri_key>>

(***************************************************************************)
(* RTSP on the launched session, and what main makes of the result.        *)
(***************************************************************************)
Rtsp == RtspStep /\ UNCHANGED <<mainVars, workerVars>>
Pair == (ThreadStep \/ PairMain) /\ UNCHANGED <<rtspVars, mainVars, workerVars>>

(* Three attempts on one launch, then /cancel.                             *)
RtspRetry ==
    /\ pc = "rtspdead"
    /\ IF rtsp_try < MaxRtsp
       THEN rtsp_try' = rtsp_try + 1 /\ pc' = "rtsp0"
       ELSE pc' = "rtspcancel" /\ UNCHANGED rtsp_try
    /\ UNCHANGED <<hostVars, target, pairVars, rtspVars, launch_try, connect_try, resp,
                   retry_host, drawing, workerVars>>

RtspCancel ==
    /\ pc = "rtspcancel"
    /\ \E o \in HttpsOutcomes(target, target, "cancel", 0) :
          https_launch_get(target, target, "cancel", 0, o)
    /\ pc' = "failed" /\ drawing' = FALSE
    /\ UNCHANGED <<target, pairVars, rtspVars, launch_try, rtsp_try, connect_try, resp,
                   retry_host, workerVars>>

(* What network_me_shutdown, control_stream_stop, audio_thread_shutdown    *)
(* and rtsp_session_close release together.                                *)
Released == {"videoSock", "receiver", "controlStream", "mappings"} \cup AudioRes

(* config_add_paired_host of the host network_get_paired_host names.       *)
Persist == saved' = IF is_paired /\ last_paired # NoHost THEN saved \cup {last_paired} ELSE saved

(* The counters and buffers of network_connect_all are locals.             *)
LocalsGone == cmd' = "options" /\ try' = 1 /\ launch_try' = 1 /\ rtsp_try' = 1 /\ resp' = "none"

(* Globals the next session writes before it reads them are forgotten.     *)
DeadGlobals == ri_key' = 0 /\ audio_ok' = FALSE /\ video_port' = FALSE

(* -3 is tried again, up to three times; any other failure, and the third, *)
(* returns to the host list.                                               *)
ConnectFailed ==
    /\ pc \in {"failed", "fatal"}
    /\ res' = res \ Released
    /\ session_id' = FALSE
    /\ \/ /\ pc = "failed" /\ connect_try < MaxConnect
          /\ connect_try' = connect_try + 1
          /\ pc' = "wait"
          /\ UNCHANGED <<saved, retry_host>>
       \/ /\ ~(pc = "failed" /\ connect_try < MaxConnect)
          /\ Persist
          /\ retry_host' = NoHost
          /\ connect_try' = 1
          /\ pc' = "menu"
    /\ LocalsGone /\ DeadGlobals
    /\ UNCHANGED <<hostVars, target, is_paired, last_paired, thread, cancel, ever,
                   drawing, workerVars>>

Connected ==
    /\ pc = "playing"
    /\ drawing' = FALSE
    /\ retry_host' = NoHost
    /\ Persist
    /\ connect_try' = 1 /\ LocalsGone
    /\ pc' = "starting"
    /\ UNCHANGED <<hostVars, target, is_paired, last_paired, thread, cancel, ever, res,
                   audio_ok, video_port, session_id, ri_key, workerVars>>

(* The decoder, the receive thread and the control stream are started; a   *)
(* control stream that does not start ends the stream.                     *)
StartStream ==
    /\ pc = "starting"
    /\ \/ /\ res' = res \cup {"decoder", "receiver", "controlStream"}
          /\ pc' = "streaming"
          /\ UNCHANGED faults
       \/ /\ faults < MaxFaults /\ faults' = faults + 1
          /\ res' = res \cup {"decoder", "receiver"}
          /\ pc' = "ended"
    /\ UNCHANGED <<host, pins, target, pairVars, cmd, try, audio_ok, video_port, session_id, ri_key,
                   mainVars, workerVars>>

(* The user leaves the stream, the host ends it, or a watchdog does.       *)
EndStream ==
    /\ pc = "streaming"
    /\ pc' = "ended"
    /\ UNCHANGED <<hostVars, target, pairVars, rtspVars, mainVars, workerVars>>

(* abort_stream_to_menu: everything is released; with a session id and no  *)
(* RTSP connection left, rtsp_session_close cannot confirm a TEARDOWN and  *)
(* network_cancel_stream_session starts the worker, unless one exists.     *)
Teardown ==
    /\ pc = "ended"
    /\ res' = {}
    /\ session_id' = FALSE
    /\ worker' = IF session_id /\ worker = "none" THEN "created" ELSE worker
    /\ pc' = "teardown"
    /\ DeadGlobals
    /\ UNCHANGED <<hostVars, target, pairVars, cmd, try, mainVars, worker_addr, since>>

TeardownWait ==
    /\ pc = "teardown"
    /\ \E ok \in BOOLEAN : WaitForCancel(ok)
    /\ pc' = "menu"
    /\ UNCHANGED <<hostVars, target, pairVars, rtspVars, mainVars, worker_addr, since>>

(***************************************************************************)
(* cancel_thread_func.  It is handed a pointer to g_sunshine_host: the     *)
(* address is resolved when it connects, the name for the pin is read      *)
(* after the handshake.                                                    *)
(***************************************************************************)
WorkerConnect ==
    /\ worker = "created"
    /\ worker_addr' = target
    /\ worker' = "handshake"
    /\ UNCHANGED <<hostVars, target, pc, pairVars, rtspVars, mainVars, since>>

WorkerSend ==
    /\ worker = "handshake"
    /\ \E o \in HttpsOutcomes(worker_addr, target, "cancel", 0) :
          https_launch_get(worker_addr, target, "cancel", 0, o)
    /\ worker' = "gone"
    /\ worker_addr' = NoHost /\ since' = {}
    /\ UNCHANGED <<target, pc, pairVars, rtspVars, mainVars>>

Environment ==
    /\ \E h \in Hosts : HostStep(h)
    /\ UNCHANGED <<target, pc, pairVars, rtspVars, mainVars, workerVars>>

MainStep ==
    \/ AwaitOldCancel \/ VerifyPairing \/ ChooseApp
    \/ ServerInfo \/ ServerInfoPlain \/ Prompt \/ Resume \/ QuitRunning \/ Launch
    \/ Rtsp \/ RtspRetry \/ RtspCancel \/ ConnectFailed \/ Connected
    \/ StartStream \/ Teardown \/ TeardownWait

Worker == WorkerConnect \/ WorkerSend

Next ==
    \/ \E h \in Hosts, probed \in BOOLEAN : SelectHost(h, probed)
    \/ MainStep \/ Pair \/ EndStream \/ Worker \/ Environment

(* Every wait of the main thread and of the workers is bounded by a        *)
(* timeout in the code or ends with a key press; the user is assumed to    *)
(* answer.  Nobody has to select a host or end a stream.                   *)
Fairness == WF_vars(MainStep) /\ WF_vars(Pair) /\ WF_vars(Worker)

Spec == Init /\ [][Next]_vars /\ Fairness

(***************************************************************************)
(* Properties.                                                             *)
(***************************************************************************)
(* During RTSP and while the stream runs, a session of ours on the target  *)
(* has the key the client encrypts with: whichever of launch and resume    *)
(* was answered, lost, sent twice or taken for a stale response, the       *)
(* handshake never continues on a session the host keeps under an older    *)
(* key (sunshine_launch_session).                                          *)
SessionKeyAgreed ==
    pc \in {"rtsp0", "rtsp", "rtspfail", "rtspdead", "playing", "starting", "streaming"}
        /\ host[target].session \in 1..MaxKey
    => host[target].session = ri_key

(* Back at the host list nothing of a failed or ended stream is left, and  *)
(* a new RTSP attempt starts with at most the audio socket an optional     *)
(* SETUP has reserved (rtsp_fail, the clean-up in main, teardown).         *)
StreamResourcesReleased ==
    /\ pc \in {"menu", "wait", "grid", "info"} => res = {}
    /\ pc = "rtsp0" => res \subseteq {"audioSock"}
    /\ pc = "menu" => thread = "none" /\ ~session_id

(* The saved list and the last paired host only ever name hosts that had   *)
(* registered the certificate, also when the pairing worker is killed      *)
(* between the flag it sets first and the name it copies next.             *)
PairingEarned == saved \cup ({last_paired} \ {NoHost}) \subseteq ever

(* The /cancel of an ended stream never ends a session launched after it   *)
(* was started: "must never race a newly selected stream"                  *)
(* (network_connect_all).                                                  *)
OldCancelSparesNewSession ==
    [][\A h \in Hosts :
          worker = "handshake" /\ worker' = "gone"
             /\ host[h].session # NoSession /\ host'[h].session = NoSession
          => h \notin since]_vars

(* A connect attempt ends, in a stream or at the host list, whatever fails *)
(* on the way: the retries of main, of the launch and of RTSP are bounded. *)
ConnectEnds == pc = "wait" ~> pc \in {"menu", "streaming"}
=============================================================================
