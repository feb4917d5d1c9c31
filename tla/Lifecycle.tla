----------------------------- MODULE Lifecycle -----------------------------
(***************************************************************************)
(* The life of the process: main from the settings screen to the host list *)
(* and through the stream loop with its watchdogs, the teardown            *)
(* abort_stream_to_menu, the clean-up before the process ends, and the     *)
(* worker threads that end a stream by writing the flags the loop reads.   *)
(* The connect phase is the module Connect; here it succeeds or fails.     *)
(***************************************************************************)
EXTENDS Integers, FiniteSets

CONSTANTS
    MaxStreams,     \* streams one process starts
    IdleLimit,      \* loops without a picture before watchdog B acts (600)
    Restarts,       \* budget of decoder resets of watchdog A (5)
    MaxHostSteps    \* bound on changes of what the host sends

ASSUME LifecycleAssumption ==
    /\ MaxStreams \in Nat \ {0} /\ IdleLimit \in Nat \ {0}
    /\ Restarts \in Nat /\ MaxHostSteps \in Nat

StreamWorkers == {"decoder", "receiver", "control", "audio", "tools"}
Workers == StreamWorkers \cup {"keepalive", "avc"}

VARIABLES
    at,             \* where the main thread is
    link,           \* where abort_stream_to_menu returns to
    me_running,
    status,         \* g_stream_status: 0, 1 stopped, 2 paused
    workers,        \* threads and sessions that exist
    exit_request,   \* g_remote_exit_request
    torn,           \* s_stream_teardown_complete
    ready,          \* g_stream_ready_flag
    seen,           \* s_video_seen_this_session
    video_started,  \* the static local of the loop
    phase,          \* s_mode_d_phase
    soft,           \* s_mode_b_soft_count
    stuck,          \* s_force_restart_no_progress >= 1
    restarts,       \* s_watchdog_restarts
    idle,           \* s_idle_count, up to IdleLimit
    waited,         \* seconds since the loop began: 0, 10, 15 or 20
    recent,         \* a picture was decoded in the last four seconds
    silent,         \* network_me_video_idle_ms() >= 10000
    video,          \* what the host sends: nothing, undecodable or good pictures
    stream,         \* streams started so far
    steps           \* changes of the host so far

flagVars == <<me_running, status, exit_request>>
tearVars == <<torn, link>>
loopVars == <<ready, seen, video_started, phase, soft, stuck, restarts, idle>>
clockVars == <<waited, recent, silent>>
streamVars == <<video, stream, steps>>
vars == <<at, workers, flagVars, tearVars, loopVars, clockVars, streamVars>>

InLoop == at \in {"top", "frame", "bottom"}
Live == InLoop /\ me_running

Places == {"settings", "wifi", "hosts", "connect", "start", "top", "frame", "bottom",
           "abort", "abort1", "abort2", "abort3", "abort4",
           "prepare", "decide", "rest", "finish", "handoff", "gone"}

TypeOK ==
    /\ at \in Places /\ link \in {"hosts", "decide"}
    /\ {me_running, exit_request, torn, ready, seen, video_started, stuck, recent, silent} \subseteq BOOLEAN
    /\ status \in 0..2 /\ workers \subseteq Workers
    /\ phase \in 0..2 /\ soft \in 0..2 /\ restarts \in 0..Restarts
    /\ idle \in 0..(IdleLimit - 1) /\ waited \in {0, 10, 15, 20}
    /\ video \in {"none", "broken", "good"}
    /\ stream \in 0..MaxStreams /\ steps \in 0..MaxHostSteps

Init ==
    /\ at = "settings" /\ link = "hosts"
    /\ me_running = FALSE /\ status = 0 /\ exit_request = FALSE
    /\ workers = {"avc"} /\ torn = FALSE
    /\ ready = FALSE /\ seen = FALSE /\ video_started = FALSE
    /\ phase = 0 /\ soft = 0 /\ stuck = FALSE /\ restarts = 0 /\ idle = 0
    /\ waited = 0 /\ recent = FALSE /\ silent = FALSE
    /\ video = "none" /\ stream = 0 /\ steps = 0

AbortTo(back) == at' = "abort" /\ link' = back

(***************************************************************************)
(* Before the stream.  A fatal error ends in the process exit.             *)
(***************************************************************************)
Settings ==
    /\ at = "settings"
    /\ at' \in {"wifi", "prepare"}
    /\ UNCHANGED <<workers, flagVars, tearVars, loopVars, clockVars, streamVars>>

Wifi ==
    /\ at = "wifi"
    /\ \/ at' = "hosts" /\ workers' = workers \cup {"keepalive"}
       \/ at' = "prepare" /\ UNCHANGED workers
    /\ UNCHANGED <<flagVars, tearVars, loopVars, clockVars, streamVars>>

(* host_select_loop: a session the last stream has closed is opened again, *)
(* with the keepalive thread stopped meanwhile, or cannot be opened; then  *)
(* the user goes on, back or out.                                          *)
HostList ==
    /\ at = "hosts"
    /\ \/ /\ workers' = workers \cup {"avc", "keepalive"}
          /\ at' \in {"settings", "prepare"} \cup IF stream < MaxStreams THEN {"connect"} ELSE {}
       \/ /\ "avc" \notin workers
          /\ workers' = workers \cup {"keepalive"}
          /\ at' = "prepare"
    /\ UNCHANGED <<flagVars, tearVars, loopVars, clockVars, streamVars>>

(* network_connect_all returns with the audio threads running, if audio is *)
(* on, or fails with everything released.                                  *)
ConnectAll ==
    /\ at = "connect"
    /\ ready' = FALSE
    /\ \/ at' = "hosts" /\ UNCHANGED <<workers, stream>>
       \/ /\ at' = "start"
          /\ workers' \in {workers, workers \cup {"audio"}}
          /\ stream' = stream + 1
    /\ UNCHANGED <<flagVars, tearVars, seen, video_started, phase, soft, stuck, restarts, idle,
                   clockVars, video, steps>>

(* The decoder, the receive thread, the control stream, then the tools     *)
(* (safety buffer, HUD, signal monitor, power handler, input); the first   *)
(* and the third may fail.  The counters of the watchdogs are reset, the   *)
(* static locals of the loop are not.                                      *)
StartStream ==
    /\ at = "start"
    /\ \/ /\ at' = "top" /\ UNCHANGED link
          /\ me_running' \in BOOLEAN         \* false when a receive thread is not created
          /\ workers' = workers \cup {"decoder", "receiver", "control", "tools"}
          /\ seen' = FALSE /\ soft' = 0 /\ stuck' = FALSE
       \/ /\ AbortTo("hosts")                \* control_stream_start failed
          /\ me_running' = TRUE
          /\ workers' = workers \cup {"decoder", "receiver"}
          /\ UNCHANGED <<seen, soft, stuck>>
       \/ /\ at' = "prepare"                 \* sw_decoder_thread_init failed
          /\ UNCHANGED <<me_running, workers, link, seen, soft, stuck>>
    /\ waited' = 0 /\ recent' = FALSE /\ silent' = FALSE /\ video' = "none"
    /\ UNCHANGED <<status, exit_request, torn, ready, video_started, phase, restarts, idle,
                   stream, steps>>

(***************************************************************************)
(* The stream loop.                                                        *)
(***************************************************************************)
(* The top of the loop: no RTP for ten seconds after the first picture, a  *)
(* stream a worker has ended and a pending request to leave are torn down. *)
(* The profile switch of the decoder is made next; when it fails it leaves *)
(* a request that the bottom of the loop answers.                          *)
LoopTop ==
    /\ at = "top"
    /\ LET lost == me_running /\ ready /\ silent
       IN  \/ /\ lost
              /\ status' = 1 /\ me_running' = FALSE
              /\ AbortTo("hosts")
              /\ UNCHANGED exit_request
           \/ /\ ~me_running /\ status = 1
              /\ AbortTo("hosts")
              /\ UNCHANGED <<status, me_running, exit_request>>
           \/ /\ me_running /\ ~lost
              /\ \/ exit_request /\ exit_request' = FALSE /\ AbortTo("hosts")
                 \/ ~exit_request /\ exit_request' \in BOOLEAN /\ at' = "frame" /\ UNCHANGED link
              /\ UNCHANGED <<status, me_running>>
    /\ UNCHANGED <<workers, torn, loopVars, clockVars, streamVars>>

(* The screen of a stopped or paused stream, left with a key.              *)
StoppedScreen ==
    /\ at = "top"
    /\ ~me_running /\ status # 1
    /\ status' = 0
    /\ AbortTo("hosts")
    /\ UNCHANGED <<me_running, exit_request, workers, torn, loopVars, clockVars, streamVars>>

Decodes == video = "good"

(* A picture is shown; after enough of them a restart credit is restored.  *)
ShowPicture ==
    /\ at = "frame"
    /\ Decodes
    /\ ready' = (ready \/ ~video_started)
    /\ seen' = TRUE /\ video_started' = TRUE /\ idle' = 0 /\ recent' = TRUE
    /\ \/ UNCHANGED <<restarts, soft>>
       \/ restarts > 0 /\ restarts' = restarts - 1 /\ soft' = 0
    /\ at' = "bottom"
    /\ UNCHANGED <<workers, flagVars, tearVars, phase, stuck, waited, silent, streamVars>>

(* No picture although video had started, in this stream or in an earlier  *)
(* one.  Watchdog A resets a decoder that hangs; watchdog B asks for an    *)
(* IDR each time IdleLimit is reached, gives up after the third, and then  *)
(* ends a stream that has shown a picture.                                 *)
WatchdogBNeverStuck ==
    IF recent
    THEN soft' = 0 /\ stuck' = FALSE /\ UNCHANGED exit_request
    ELSE soft' = (soft + 1) % 3 /\ UNCHANGED <<stuck, exit_request>>

WatchdogB ==
    IF recent
    THEN soft' = 0 /\ stuck' = FALSE /\ UNCHANGED exit_request
    ELSE /\ soft' = (soft + 1) % 3
         /\ stuck' = (stuck \/ soft = 2)
         /\ exit_request' = (exit_request \/ (seen /\ stuck'))

NoPicture ==
    /\ at = "frame"
    /\ ~Decodes /\ video_started
    /\ \/ /\ video = "broken" /\ restarts < Restarts
          /\ restarts' = restarts + 1 /\ idle' = 0
          /\ UNCHANGED <<soft, stuck, exit_request>>
       \/ /\ idle < IdleLimit - 1
          /\ idle' = idle + 1
          /\ UNCHANGED <<soft, stuck, exit_request, restarts>>
       \/ /\ idle = IdleLimit - 1
          /\ idle' = 0
          /\ WatchdogB
          /\ UNCHANGED restarts
    /\ at' = "bottom"
    /\ UNCHANGED <<workers, me_running, status, tearVars, ready, seen, video_started, phase,
                   clockVars, streamVars>>

(* No picture ever: watchdog D asks for an IDR after 10 s, resets the      *)
(* decoder after 15 s and ends the stream after 20 s.                      *)
WatchdogD ==
    /\ at = "frame"
    /\ ~Decodes /\ ~video_started
    /\ \/ /\ waited = 20
          /\ phase' = 0
          /\ AbortTo("hosts")
       \/ /\ waited < 20
          /\ phase' = IF waited = 15 THEN 2 ELSE IF waited = 10 /\ phase = 0 THEN 1 ELSE phase
          /\ at' = "bottom" /\ UNCHANGED link
    /\ UNCHANGED <<workers, flagVars, torn, ready, seen, video_started, soft, stuck, restarts, idle,
                   clockVars, streamVars>>

LoopBottom ==
    /\ at = "bottom"
    /\ \/ exit_request /\ exit_request' = FALSE /\ AbortTo("hosts")
       \/ ~exit_request /\ at' = "top" /\ UNCHANGED <<exit_request, link>>
    /\ UNCHANGED <<workers, me_running, status, torn, loopVars, clockVars, streamVars>>

(* The exit combination, the HUD's quit and its pause.                     *)
UserLeaves ==
    /\ at = "bottom" /\ ~exit_request
    /\ \/ AbortTo("hosts") /\ UNCHANGED <<me_running, status>>
       \/ status' = 2 /\ me_running' = FALSE /\ at' = "top" /\ UNCHANGED link
    /\ UNCHANGED <<workers, exit_request, torn, loopVars, clockVars, streamVars>>

(***************************************************************************)
(* abort_stream_to_menu.  Control first, while its socket lives; receive   *)
(* and audio; the decoder and its session; HUD, signal and power last.     *)
(* Nothing reads the clocks of this stream from here on.                   *)
(***************************************************************************)
AbortBegin ==
    /\ at = "abort"
    /\ torn' = FALSE /\ me_running' = FALSE
    /\ at' = "abort1"
    /\ waited' = 0 /\ recent' = FALSE /\ silent' = FALSE /\ video' = "none"
    /\ UNCHANGED <<workers, status, exit_request, link, loopVars, stream, steps>>

AbortStepForgetsReceiver ==
    /\ at \in {"abort1", "abort2", "abort3"}
    /\ workers' = workers \ CASE at = "abort1" -> {"control"}
                              [] at = "abort2" -> {"audio"}
                              [] at = "abort3" -> {"decoder", "avc"}
    /\ at' = CASE at = "abort1" -> "abort2" [] at = "abort2" -> "abort3" [] at = "abort3" -> "abort4"
    /\ me_running' = FALSE
    /\ UNCHANGED <<status, exit_request, tearVars, loopVars, clockVars, streamVars>>

AbortStep ==
    /\ at \in {"abort1", "abort2", "abort3"}
    /\ workers' = workers \ CASE at = "abort1" -> {"control"}
                              [] at = "abort2" -> {"receiver", "audio"}
                              [] at = "abort3" -> {"decoder", "avc"}
    /\ at' = CASE at = "abort1" -> "abort2" [] at = "abort2" -> "abort3" [] at = "abort3" -> "abort4"
    /\ me_running' = FALSE
    /\ UNCHANGED <<status, exit_request, tearVars, loopVars, clockVars, streamVars>>

AbortEnd ==
    /\ at = "abort4"
    /\ workers' = workers \ {"tools"}
    /\ status' = 0 /\ me_running' = FALSE /\ torn' = TRUE
    /\ at' = link
    /\ UNCHANGED <<exit_request, link, loopVars, clockVars, streamVars>>

Abort == AbortBegin \/ AbortStep \/ AbortEnd

(***************************************************************************)
(* moonlight_prepare_process_exit and what follows it.                     *)
(***************************************************************************)
Prepare ==
    /\ at = "prepare"
    /\ IF me_running \/ status # 0 THEN AbortTo("decide") ELSE at' = "decide" /\ UNCHANGED link
    /\ UNCHANGED <<workers, flagVars, torn, loopVars, clockVars, streamVars>>

(* torn says that the subsystems are down; it may be left from an earlier  *)
(* stream.                                                                 *)
Decide ==
    /\ at = "decide"
    /\ at' = IF me_running \/ status # 0 THEN "gone" ELSE IF torn THEN "finish" ELSE "rest"
    /\ UNCHANGED <<workers, flagVars, tearVars, loopVars, clockVars, streamVars>>

Rest ==
    /\ at = "rest"
    /\ workers' = workers \ {"tools", "receiver", "control", "audio"}
    /\ at' = "finish"
    /\ UNCHANGED <<flagVars, tearVars, loopVars, clockVars, streamVars>>

(* The /cancel worker may still be active, or the player may refuse to be  *)
(* destroyed: main returns without the hand-off.                           *)
Finish ==
    /\ at = "finish"
    /\ \/ /\ workers' = workers \ {"decoder", "avc", "keepalive"}
          /\ at' = "handoff"
       \/ at' = "gone" /\ UNCHANGED workers
    /\ UNCHANGED <<flagVars, tearVars, loopVars, clockVars, streamVars>>

Handoff ==
    /\ at = "handoff"
    /\ at' = "gone"
    /\ UNCHANGED <<workers, flagVars, tearVars, loopVars, clockVars, streamVars>>

(***************************************************************************)
(* The other threads, the host and the clock.                              *)
(***************************************************************************)
(* The control stream ends or pauses the stream (TERMINATION, the drain    *)
(* after a DISCONNECT, undeliverable input); the ping thread does when the *)
(* Wi-Fi stays lost.                                                       *)
WorkerEndsStream ==
    /\ "control" \in workers \/ "receiver" \in workers
    /\ me_running
    /\ status' \in IF "control" \in workers THEN {1, 2} ELSE {1}
    /\ me_running' = FALSE
    /\ UNCHANGED <<at, workers, exit_request, tearVars, loopVars, clockVars, streamVars>>

(* Both leave their loops when me_running is cleared.                      *)
WorkerLeaves ==
    /\ ~me_running
    /\ \E w \in {"control", "receiver"} \cap workers : workers' = workers \ {w}
    /\ UNCHANGED <<at, flagVars, tearVars, loopVars, clockVars, streamVars>>

HostSends(v) ==
    /\ InLoop /\ steps < MaxHostSteps
    /\ v # video
    /\ video' = v /\ steps' = steps + 1
    /\ silent' = (silent /\ v = "none")
    /\ UNCHANGED <<at, workers, flagVars, tearVars, loopVars, waited, recent, stream>>

Later(w) == CASE w = 0 -> 10 [] w = 10 -> 15 [] OTHER -> 20

TimePasses ==
    /\ Live
    /\ waited' = Later(waited)
    /\ recent' = (recent /\ Decodes)
    /\ silent' = (video = "none" /\ steps > 0)
    /\ UNCHANGED <<at, workers, flagVars, tearVars, loopVars, streamVars>>

MainStep ==
    \/ Settings \/ Wifi \/ HostList \/ ConnectAll \/ StartStream
    \/ LoopTop \/ StoppedScreen \/ ShowPicture \/ NoPicture \/ WatchdogD \/ LoopBottom \/ UserLeaves
    \/ Abort \/ Prepare \/ Decide \/ Rest \/ Finish \/ Handoff

Next ==
    \/ MainStep \/ WorkerEndsStream \/ WorkerLeaves \/ TimePasses
    \/ \E v \in {"none", "broken", "good"} : HostSends(v)

(* The loop and the teardown never wait for anything but time; the user    *)
(* and the host owe nothing.                                               *)
Loop == LoopTop \/ ShowPicture \/ NoPicture \/ WatchdogD \/ LoopBottom \/ Abort
Fairness == WF_vars(Loop) /\ WF_vars(TimePasses)

Spec == Init /\ [][Next]_vars /\ Fairness

(***************************************************************************)
(* Properties.                                                             *)
(***************************************************************************)
(* At the host list nothing of the last stream is left: no worker thread,  *)
(* and the flags its workers write are back at their start values, however *)
(* the end was requested and whichever worker asked for it last            *)
(* (abort_stream_to_menu).                                                 *)
HostListQuiet ==
    at \in {"hosts", "connect"} => workers \cap StreamWorkers = {} /\ ~me_running /\ status = 0

(* A stream that has shown a picture and then gets no more ends, instead   *)
(* of "holding the last frame indefinitely" (watchdog B).                  *)
StallEnds == Live /\ seen /\ ~Decodes ~> Decodes \/ ~Live

=============================================================================
