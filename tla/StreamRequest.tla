---------------------------- MODULE StreamRequest ----------------------------
(***************************************************************************)
(* What the client asks the host for, and what it prepares itself for: the *)
(* mode in the /launch request, the SDP of ANNOUNCE, the bitrate controller*)
(* and the size the AVC session expects are each computed from the         *)
(* settings by code of their own, at different moments.  Settings that are *)
(* copied without a rule (CABAC, audio, packet size, encryption) are       *)
(* chosen when a stream is started.                                        *)
(***************************************************************************)
EXTENDS Settings, SignalStrength

CONSTANT StreamOptions  \* the settings that are only copied, and what the host's SDP says

Features == {"control", "video", "audio"}   \* SS_ENC_CONTROL_V2, _VIDEO and _AUDIO

ASSUME StreamRequestAssumption ==
    StreamOptions \subseteq [cabac : BOOLEAN, audio : BOOLEAN, packet : Nat, disable : BOOLEAN,
                             supported : SUBSET Features, requested : SUBSET Features]

VARIABLES
    expected,   \* backend.expected_width and _height
    sent,       \* the requests of the running stream, NoStream when there is none
    moved       \* history: the Custom row was retyped and not saved when a stream was started

requestVars == <<settingsVars, expected, sent, moved>>

NoStream == [on |-> FALSE]
SizeOf(c) == <<c.w, c.h>>

(* RESOLUTION_WIDTHS and _HEIGHTS: row Custom is written by the keypad.    *)
Row(i) == IF i = Custom THEN customSlot ELSE PresetSizes[i]

(* Step D of the launch: the index is that of the first row with the size, *)
(* and only a size no row has gives way to the row.                        *)
LaunchFixup(c) ==
    LET rows == {i \in 0..Custom : Row(i) = SizeOf(c)}
    IN  IF rows # {} THEN [c EXCEPT !.res = CHOOSE i \in rows : \A j \in rows : i <= j]
        ELSE [c EXCEPT !.w = Row(c.res)[1], !.h = Row(c.res)[2]]

network_video_slices_per_frame(o, size, fps) ==
    IF o.cabac /\ ~o.audio /\ size[1] <= 320 /\ size[2] <= 180 /\ fps >= 30 THEN 2 ELSE 1

(* The mode of /launch, from the size of the settings.                     *)
LaunchMode(c, o) ==
    [size |-> SizeOf(c), fps |-> c.fps, slices |-> network_video_slices_per_frame(o, SizeOf(c), c.fps)]

(* The bitrate of the launch, which the slowest CABAC mode caps.           *)
SurvivalCap(c, o, size) ==
    LET rate == LaunchBitrate(c.bitrate)
    IN  IF o.cabac /\ o.audio /\ size = <<480, 272>> /\ c.fps <= 10 THEN AtMost(rate, 192) ELSE rate

(* enc_to_use: control encryption whenever the host has it, the media only *)
(* when it asks for it as well and the settings allow it.                  *)
EncToUse(o) ==
    (o.supported \cap {"control"}) \cup
    IF o.disable THEN {}
    ELSE o.supported \cap o.requested \cap ({"video"} \cup IF o.audio THEN {"audio"} ELSE {})

MIN_STREAM_PACKET_SIZE == 512
MAX_STREAM_PACKET_SIZE == 1392
PacketSize(o) ==
    LET rounded == AtMost(AtLeast(o.packet - (o.packet % 16), MIN_STREAM_PACKET_SIZE), MAX_STREAM_PACKET_SIZE)
    IN  IF "video" \in EncToUse(o) THEN rounded - 32 ELSE rounded

(* rtsp_announce, from the row of the index.  The branches for pictures of *)
(* at most 256x144 are out of reach: no row is below 300x170.  The build   *)
(* fixes FEC (35 %, at least one packet) and the duration of audio packets.*)
Announced(c, o) ==
    LET size == Row(c.res)
        rate == SurvivalCap(c, o, size)
    IN  [size |-> size, fps |-> c.fps, refresh |-> 100 * c.fps,
         bitrate |-> rate, minimum |-> AdaptiveFloor(rate),
         packet |-> PacketSize(o), encryption |-> EncToUse(o), audio |-> o.audio,
         slices |-> network_video_slices_per_frame(o, size, c.fps),
         profile |-> IF o.cabac THEN 77 ELSE 66, entropy |-> IF o.cabac THEN 1 ELSE 0]

(* The base of signal_strength_init when the stream has been set up.       *)
SignalBase(c, o) == LaunchBitrate(SurvivalCap(c, o, Row(c.res)))

RequestInit == SettingsInit /\ expected = <<480, 272>> /\ sent = NoStream /\ moved = FALSE

(* Mutant: only the session of the entry is retargeted.                   *)
RetargetOnce(c) ==
    /\ expected' = IF expected = <<480, 272>> THEN SizeOf(c) ELSE expected
    /\ moved' = FALSE

(* psp_avc_prepare_before_rtsp: the open session adopts the size.          *)
Retarget(c) == expected' = SizeOf(c) /\ moved' = FALSE

(* The settings menu.  On leaving it main retargets the session; after a   *)
(* power failure the entry primes it at the size of the panel.             *)
Configure ==
    /\ ~sent.on /\ SettingsNext /\ UNCHANGED sent
    /\ \/ sAt' = "menu" /\ UNCHANGED <<expected, moved>>
       \/ sAt' = "away" /\ Retarget(g_psp_config')
       \/ sAt' = "boot" /\ expected' = <<480, 272>> /\ moved' = FALSE

(* sunshine_launch_session and rtsp_session.  A resumed session skips the  *)
(* launch and its fixup.  When a later step fails the client is back at    *)
(* the list of hosts, with the session as it was.                          *)
RequestStream(o, resumes, plays) ==
    LET c == IF resumes THEN g_psp_config ELSE LaunchFixup(g_psp_config) IN
    /\ sAt = "away" /\ ~sent.on
    /\ g_psp_config' = c /\ sKept' = (sKept /\ c = g_psp_config)
    /\ moved' = (moved \/ (g_psp_config.res = Custom /\ customSlot # SizeOf(g_psp_config)))
    /\ sent' = IF plays THEN [on |-> TRUE, resumed |-> resumes, mode |-> LaunchMode(c, o),
                              sdp |-> Announced(c, o), signal |-> SignalBase(c, o)]
               ELSE NoStream
    /\ UNCHANGED <<sAt, sFile, g_menu_state, customSlot, sEdits, expected>>

(* The stream closed the session; before the list of hosts it is opened    *)
(* again.                                                                  *)
StreamOver ==
    /\ sent.on /\ sent' = NoStream
    /\ Retarget(g_psp_config)
    /\ UNCHANGED settingsVars

RequestNext ==
    \/ Configure
    \/ \E o \in StreamOptions, resumes, plays \in BOOLEAN : RequestStream(o, resumes, plays)
    \/ StreamOver

(***************************************************************************)
(* Everyone is told the same: the host in /launch and in the SDP (size,    *)
(* rate, slices, which the code computes from the size of the settings in  *)
(* one place and from the row of the index in the other), the bitrate      *)
(* controller (its base is the announced bitrate, the announced minimum    *)
(* its floor), the host's packetiser (whole 16-byte chunks that leave room *)
(* for the header of encrypted video, which must be there exactly if the   *)
(* host encrypts it), and the AVC session, which refuses every other size, *)
(* unless a size was typed into the Custom row and not saved               *)
(* (sunshine_launch_session, rtsp_announce, psp_avc_prepare_before_rtsp).  *)
(***************************************************************************)
AnnouncedAgrees ==
    sent.on =>
        /\ ~sent.resumed => \A f \in DOMAIN sent.mode : sent.mode[f] = sent.sdp[f]
        /\ sent.sdp.bitrate = sent.signal /\ sent.sdp.minimum = AdaptiveFloor(sent.signal)
        /\ sent.sdp.minimum <= sent.sdp.bitrate
        /\ sent.sdp.packet % 16 = 0
        /\ sent.sdp.packet + (IF "video" \in sent.sdp.encryption THEN 32 ELSE 0)
              \in MIN_STREAM_PACKET_SIZE .. MAX_STREAM_PACKET_SIZE
        /\ "audio" \in sent.sdp.encryption => sent.sdp.audio
        /\ ~moved => sent.sdp.size = expected

(***************************************************************************)
(* What a stream is started with can be streamed and is what the next boot *)
(* reads back, and while it runs everyone was told the same                *)
(* (update_config_from_menu, sunshine_launch_session, rtsp_announce).      *)
(***************************************************************************)
StreamAsConfigured == LaunchUsable /\ AnnouncedAgrees
=============================================================================
