---------------------------- MODULE RtspSession ----------------------------
(***************************************************************************)
(* rtsp_session: the RTSP handshake that turns a launched session into a   *)
(* stream, one TCP connection per command, and the sockets, threads, port  *)
(* mappings and keys it acquires on the way.                               *)
(***************************************************************************)
EXTENDS Pairing

CONSTANT AudioEnabled       \* g_psp_config.audioEnabled

ASSUME AudioAssumption == AudioEnabled \in BOOLEAN

Commands == {"options", "describe", "audio", "video", "control", "announce", "play"}
AudioRes == {"audioSock", "audioPing", "audioThreads"}
Resources == AudioRes \cup {"videoSock", "mappings", "crypto", "decoder", "receiver", "controlStream"}

VARIABLES
    cmd,            \* the RTSP command being sent
    try,            \* first or second try of the current request
    res,            \* what the client holds
    audio_ok,       \* g_audio_rtsp_ok
    video_port,     \* g_video_client_port > 0
    session_id,     \* g_rtsp_session_id is set
    ri_key          \* g_remote_input_key

rtspVars == <<cmd, try, res, audio_ok, video_port, session_id, ri_key>>

RtspTypeOK ==
    /\ cmd \in Commands
    /\ try \in 1..2
    /\ res \subseteq Resources
    /\ audio_ok \in BOOLEAN /\ video_port \in BOOLEAN /\ session_id \in BOOLEAN
    /\ ri_key \in 0..MaxKey

(* What the handshake leaves alone.                                        *)
OutsideRtsp == <<host, pins, target, is_paired, last_paired, saved, thread, cancel, ever>>

(* A host answers RTSP for whatever session a client of this identity has  *)
(* launched or resumed on it, whichever key that session was given.        *)
Granted == host[target].session \in 1..MaxKey

(* The sockets a SETUP binds before it is sent.                            *)
Reserve(c) == CASE c = "audio" -> {"audioSock"} [] c = "video" -> {"videoSock"} [] OTHER -> {}

(* rtsp_session on entry.                                                  *)
RtspEnter ==
    /\ pc = "rtsp0"
    /\ session_id' = FALSE
    /\ video_port' = FALSE
    /\ cmd' = "options" /\ try' = 1
    /\ pc' = "rtsp"
    /\ UNCHANGED <<OutsideRtsp, faults, res, audio_ok, ri_key>>

After(c) == CASE c = "options" -> "describe" [] c = "describe" -> "audio"
              [] c = "audio" -> "video" [] c = "video" -> "control"
              [] c = "control" -> "announce" [] c = "announce" -> "play"
              [] c = "play" -> "play"

(* What a successful command acquires: a ping thread after the audio       *)
(* SETUP; port mappings after the control SETUP, for public hosts; the     *)
(* session key and the audio threads once ANNOUNCE is accepted.            *)
Acquired(c, mapped) ==
    CASE c = "audio" -> {"audioPing"}
      [] c = "control" -> IF mapped THEN {"mappings"} ELSE {}
      [] c = "announce" -> {"crypto"} \cup IF audio_ok /\ AudioEnabled THEN {"audioThreads"} ELSE {}
      [] OTHER -> {}

RtspOk ==
    /\ pc = "rtsp"
    /\ Granted
    /\ \E mapped \in BOOLEAN :
          /\ mapped => cmd = "control"
          /\ res' = res \cup Reserve(cmd) \cup Acquired(cmd, mapped)
    /\ audio_ok' = IF cmd = "describe" THEN FALSE ELSE IF cmd = "audio" THEN TRUE ELSE audio_ok
    /\ video_port' = (video_port \/ cmd = "video")
    /\ session_id' = (session_id \/ cmd \in {"audio", "video", "control"})
    /\ cmd' = After(cmd) /\ try' = 1
    /\ pc' = IF cmd = "play" THEN "playing" ELSE "rtsp"
    /\ UNCHANGED <<OutsideRtsp, faults, ri_key>>

(* A command that fails: the first time it is sent again on a new          *)
(* connection, except PLAY, for which any failure ends the session.  A     *)
(* SETUP also fails when its socket cannot be bound.  Audio is then given  *)
(* up for good; anything else runs rtsp_fail.                              *)
RtspFailed ==
    /\ pc = "rtsp"
    /\ \/ ~Granted /\ UNCHANGED faults
       \/ Granted /\ faults < MaxFaults /\ faults' = faults + 1
    /\ \E bound \in BOOLEAN :
          /\ ~bound => cmd \in {"audio", "video"}
          /\ res' = IF bound THEN res \cup Reserve(cmd) ELSE res
          /\ video_port' = (video_port \/ (cmd = "video" /\ bound))
    /\ \/ /\ cmd # "play" /\ try = 1
          /\ try' = 2
          /\ UNCHANGED <<pc, cmd>>
       \/ /\ cmd = "audio" /\ try = 2
          /\ cmd' = "video" /\ try' = 1
          /\ UNCHANGED pc
       \/ /\ cmd # "audio" /\ (cmd = "play" \/ try = 2)
          /\ pc' = "rtspfail"
          /\ UNCHANGED <<cmd, try>>
    /\ UNCHANGED <<OutsideRtsp, audio_ok, session_id, ri_key>>

(* No connection for the command.  For OPTIONS, the first time, rtsp_session *)
(* returns at once; audio is given up; anything else runs rtsp_fail.       *)
RtspUnreachable ==
    /\ pc = "rtsp"
    /\ faults < MaxFaults
    /\ faults' = faults + 1
    /\ \/ /\ cmd = "audio"
          /\ cmd' = "video" /\ try' = 1
          /\ UNCHANGED pc
       \/ /\ cmd # "audio"
          /\ pc' = IF cmd = "options" /\ try = 1 THEN "rtspdead" ELSE "rtspfail"
          /\ UNCHANGED <<cmd, try>>
    /\ UNCHANGED <<OutsideRtsp, res, audio_ok, video_port, session_id, ri_key>>

(* stream_crypto_init or audio_thread_init fails before PLAY.              *)
RtspPrepareFailed ==
    /\ pc = "rtsp" /\ cmd = "play" /\ try = 1
    /\ faults < MaxFaults
    /\ faults' = faults + 1
    /\ pc' = "rtspfail"
    /\ UNCHANGED <<OutsideRtsp, cmd, try, res, audio_ok, video_port, session_id, ri_key>>

(* The rtsp_fail label.                                                    *)
RtspCleanupSkipsAudio ==
    /\ pc = "rtspfail"
    /\ res' = (res \ {"mappings", "crypto"}) \ IF video_port THEN {"videoSock"} ELSE {}
    /\ audio_ok' = FALSE /\ video_port' = FALSE
    /\ pc' = "rtspdead"
    /\ UNCHANGED <<OutsideRtsp, faults, cmd, try, session_id, ri_key>>

RtspCleanup ==
    /\ pc = "rtspfail"
    /\ res' = ((res \ {"mappings", "crypto"}) \ IF audio_ok THEN AudioRes ELSE {})
                 \ IF video_port THEN {"videoSock"} ELSE {}
    /\ audio_ok' = FALSE /\ video_port' = FALSE
    /\ pc' = "rtspdead"
    /\ UNCHANGED <<OutsideRtsp, faults, cmd, try, session_id, ri_key>>

RtspStep ==
    \/ RtspEnter \/ RtspOk \/ RtspFailed \/ RtspUnreachable
    \/ RtspPrepareFailed \/ RtspCleanup
=============================================================================
