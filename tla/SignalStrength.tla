---------------------------- MODULE SignalStrength ----------------------------
(***************************************************************************)
(* signal_strength: the controller that lowers the advertised bitrate when *)
(* frames are lost and earns it back.  The decoder thread reports frames   *)
(* as they complete or fail, the ping thread judges the link once a second *)
(* (control_stream, update_connection_quality), the UI thread updates the  *)
(* bitrate once a second.  What the link is judged by outlives the stream. *)
(* The trend is what the histories of signal and jitter give, any of the   *)
(* three.  Time is in updates.                                             *)
(***************************************************************************)
EXTENDS Integers

CONSTANTS
    ConfiguredRates,    \* bitrates the settings can hold, 0 for none
    Percents,           \* strengths of the signal
    Windows,            \* what a second may bring: [repaired, failed, dropped, attempts, frames, quiet]
    MaxWindows,         \* bound: seconds that are judged
    ADAPT_DROP_COOLDOWN, ADAPT_GREEN_HOLDOFF,   \* in updates
    MaxUpdates

ASSUME SignalAssumption ==
    /\ ConfiguredRates \subseteq Nat /\ Percents \subseteq 0..100 /\ MaxWindows \in Nat
    /\ \A w \in Windows : {w.repaired, w.failed, w.dropped, w.attempts, w.frames} \subseteq Nat /\ w.quiet \in BOOLEAN
    /\ ADAPT_DROP_COOLDOWN \in Nat \ {0} /\ ADAPT_GREEN_HOLDOFF \in Nat \ {0} /\ MaxUpdates \in Nat

BITRATE_MIN_KBPS == 32
PID_SCALE == 1000
PID_INTEGRAL_MAX == 500 * PID_SCALE
PID_MAX_DELTA_KBPS == 150
ADAPT_FAST_DROP_THRESHOLD == 3
ADAPT_SLOW_RECOVER_KBPS == 12
ADAPT_CEILING_MAX_KBPS == 4000
ADAPT_CEILING_QUALITY_MULT == 50
ADAPT_STREAM_FLOOR_KBPS == 96
SIGNAL_GOOD == 60
TargetQuality == 75

EXCELLENT == 0
GOOD == 1
FAIR == 2
POOR == 3
CRITICAL == 4

VARIABLES
    base_bitrate, current_bitrate,  \* base 0: not initialised
    pid_integral, pid_error_prev,
    adapt_consecutive_drops, adapt_drop_events,
    coolLeft, adapt_cooldown_cap,   \* updates left of the cooldown, and its cap
    greenFor,                       \* updates since the link became green, -1: it is not
    updates,                        \* bounded by MaxUpdates
    beforeDrop,                     \* history: the bitrate before the last burst was handled
    s_conn_quality,                 \* [quality, loss, repair] that the link was last judged
    hysteresis,                     \* s_pending_quality and s_consecutive_at_pending
    decodedFrames, prevDecoded,     \* g_frames_decoded, and what it was at the last judgement
    windows                         \* bounded by MaxWindows

linkVars == <<s_conn_quality, hysteresis, decodedFrames, prevDecoded, windows>>
signalVars == <<base_bitrate, current_bitrate, pid_integral, pid_error_prev, adapt_consecutive_drops,
                adapt_drop_events, coolLeft, adapt_cooldown_cap, greenFor, updates, beforeDrop, linkVars>>

AtLeast(x, low) == IF x < low THEN low ELSE x
AtMost(x, high) == IF x > high THEN high ELSE x
(* Division as in C: towards zero.                                         *)
Quotient(x, d) == IF x < 0 THEN -((-x) \div d) ELSE x \div d

(* How far the encoder may be throttled, from the bitrate of the launch.   *)
AdaptiveFloor(base) ==
    LET floor == IF base <= 256 THEN 96
                 ELSE IF base <= 320 THEN 128
                 ELSE IF base <= 384 THEN 160
                 ELSE IF base <= 512 THEN 192
                 ELSE AtLeast((base * 2) \div 5, 224)
    IN  IF base <= 0 THEN BITRATE_MIN_KBPS
        ELSE AtLeast(AtMost(AtLeast(floor, ADAPT_STREAM_FLOOR_KBPS), base), BITRATE_MIN_KBPS)

LaunchBitrate(configured) == AtLeast(IF configured > 0 THEN configured ELSE 1600, BITRATE_MIN_KBPS)

SignalInit ==
    /\ base_bitrate = 0 /\ current_bitrate = 0 /\ pid_integral = 0 /\ pid_error_prev = 0
    /\ adapt_consecutive_drops = 0 /\ adapt_drop_events = 0
    /\ coolLeft = 0 /\ adapt_cooldown_cap = 0 /\ greenFor = -1 /\ updates = 0 /\ beforeDrop = 0
    /\ s_conn_quality = [quality |-> FAIR, loss |-> 0, repair |-> 0]
    /\ hysteresis = [pending |-> FAIR, consecutive |-> 0]
    /\ decodedFrames = 0 /\ prevDecoded = 0 /\ windows = 0

(* signal_strength_init, when a stream starts with a new decoder           *)
Signal_init(configured) ==
    /\ base_bitrate = 0
    /\ base_bitrate' = LaunchBitrate(configured) /\ current_bitrate' = base_bitrate'
    /\ adapt_cooldown_cap' = base_bitrate'
    /\ decodedFrames' = 0
    /\ UNCHANGED <<pid_integral, pid_error_prev, adapt_consecutive_drops, adapt_drop_events,
                   coolLeft, greenFor, updates, beforeDrop, s_conn_quality, hysteresis, prevDecoded, windows>>

(* signal_strength_shutdown, when it ends                                  *)
Signal_shutdown ==
    /\ base_bitrate # 0
    /\ base_bitrate' = 0 /\ current_bitrate' = 0 /\ pid_integral' = 0 /\ pid_error_prev' = 0
    /\ adapt_consecutive_drops' = 0 /\ adapt_drop_events' = 0
    /\ coolLeft' = 0 /\ adapt_cooldown_cap' = 0 /\ greenFor' = -1 /\ beforeDrop' = 0
    /\ UNCHANGED <<updates, linkVars>>

(* A frame could not be repaired.  More than three change nothing more.    *)
ReportFrameDrop ==
    /\ base_bitrate # 0 /\ updates < MaxUpdates
    /\ adapt_consecutive_drops' = AtMost(adapt_consecutive_drops + 1, 3)
    /\ adapt_drop_events' = AtMost(adapt_drop_events + 1, 3)
    /\ UNCHANGED <<base_bitrate, current_bitrate, pid_integral, pid_error_prev, coolLeft,
                   adapt_cooldown_cap, greenFor, updates, beforeDrop, linkVars>>

ReportFrameOk ==
    /\ base_bitrate # 0 /\ adapt_consecutive_drops > 0
    /\ adapt_consecutive_drops' = 0
    /\ UNCHANGED <<base_bitrate, current_bitrate, pid_integral, pid_error_prev, adapt_drop_events,
                   coolLeft, adapt_cooldown_cap, greenFor, updates, beforeDrop, linkVars>>

(* One step of the controller: the quality's distance from its target, its *)
(* sum and its change, limited to 150 kbps.                                *)
PidDelta(error, sum) ==
    AtLeast(AtMost(Quotient(300 * error + Quotient(100 * sum, PID_SCALE) + 50 * (error - pid_error_prev),
                            PID_SCALE),
                   PID_MAX_DELTA_KBPS), -PID_MAX_DELTA_KBPS)

FastDrop(rate, floor) ==
    IF adapt_consecutive_drops >= ADAPT_FAST_DROP_THRESHOLD
    THEN AtMost(AtLeast(rate \div 2, floor), rate) ELSE rate

(* Two lost frames within an update take an eighth off, three a quarter.   *)
DropWindow(rate, floor) ==
    IF adapt_drop_events >= 2
    THEN AtLeast(rate - AtLeast(rate \div (IF adapt_drop_events >= 3 THEN 4 ELSE 8), 32), floor)
    ELSE rate

Burst == adapt_consecutive_drops >= ADAPT_FAST_DROP_THRESHOLD \/ adapt_drop_events >= 2

(* Mutant: the cap is only applied in the update that saw the burst.       *)
HoldCapOnce(rate, cap, left) == IF left = ADAPT_DROP_COOLDOWN THEN AtMost(rate, cap) ELSE rate

(* Within the cooldown the bitrate does not exceed what the burst left.    *)
HoldCap(rate, cap, left) == IF left > 0 THEN AtMost(rate, cap) ELSE rate

Recover(rate, green, ceiling) ==
    IF green >= ADAPT_GREEN_HOLDOFF
    THEN AtMost(AtMost(rate + ADAPT_SLOW_RECOVER_KBPS, ceiling), base_bitrate) ELSE rate

(* Losses on a link that gets worse take another tenth off.                *)
AvoidIdr(rate, losing) ==
    IF losing THEN rate - AtLeast(rate \div 10, 25) ELSE rate

FinalClamp(rate, floor, ceiling) == AtMost(AtMost(AtLeast(rate, floor), ceiling), base_bitrate)

(***************************************************************************)
(* What a second of the stream says of the link: the share of packets that *)
(* stayed lost and the share of repairs that worked, made worse by frames  *)
(* that were dropped if there was anything to repair.  The difference of   *)
(* frames wraps when the decoder was started again since.                  *)
(***************************************************************************)
Parts(w) == w.repaired + w.failed
Silent(w) == w.quiet /\ Parts(w) + w.attempts + w.dropped + w.frames = 0 /\ decodedFrames = prevDecoded
Wrapped(w) == decodedFrames + w.frames < prevDecoded

Measured(w) ==
    LET packets  == IF Parts(w) = 0 THEN 0 ELSE (w.failed * 1000) \div Parts(w)
        repaired == IF w.attempts = 0 THEN 100 ELSE (AtLeast(w.attempts - w.dropped, 0) * 100) \div w.attempts
        events   == w.frames + w.dropped
        seen     == Parts(w) + w.attempts > 0
    IN  IF Silent(w) THEN IF decodedFrames = 0 THEN [loss |-> 0, repair |-> 100] ELSE [loss |-> 1000, repair |-> 0]
        ELSE IF seen /\ Wrapped(w) THEN [loss |-> packets, repair |-> 0]
        ELSE IF seen /\ events > 0
        THEN [loss |-> AtLeast(packets, (w.dropped * 1000) \div events),
              repair |-> AtMost(repaired, (w.frames * 100) \div events)]
        ELSE [loss |-> packets, repair |-> repaired]

Judged(w, m) ==
    LET rated == IF Silent(w) /\ decodedFrames = 0 THEN FAIR
                 ELSE IF m.loss < 10 /\ m.repair >= 99 THEN EXCELLENT
                 ELSE IF m.loss < 30 /\ m.repair >= 97 THEN GOOD
                 ELSE IF m.loss < 80 /\ m.repair >= 90 THEN FAIR
                 ELSE IF m.loss < 150 /\ m.repair >= 75 THEN POOR
                 ELSE CRITICAL
    IN  IF w.dropped >= 3 /\ Parts(w) > 0 THEN CRITICAL
        ELSE IF w.dropped > 0 /\ Parts(w) > 0 THEN AtLeast(rated, POOR) ELSE rated

(***************************************************************************)
(* update_connection_quality.  Three windows of one judgement improve the  *)
(* link, two make it worse, one is enough if nothing arrived or two frames *)
(* were dropped.  Judgements and updates come once a second each: the      *)
(* judgements are at most one ahead.                                       *)
(***************************************************************************)
JudgeLink(w) ==
    LET m    == Measured(w)
        q    == Judged(w, m)
        runs == IF q = hysteresis.pending THEN AtMost(hysteresis.consecutive + 1, 3) ELSE 1
        need == IF q <= s_conn_quality.quality THEN 3
                ELSE IF (Silent(w) /\ decodedFrames # 0) \/ w.dropped >= 2 THEN 1 ELSE 2
    IN  /\ base_bitrate # 0 /\ windows < MaxWindows /\ windows <= updates
        /\ windows' = windows + 1
        /\ hysteresis' = [pending |-> q, consecutive |-> runs]
        /\ s_conn_quality' = [quality |-> IF runs >= need THEN q ELSE s_conn_quality.quality, loss |-> m.loss, repair |-> m.repair]
        /\ decodedFrames' = decodedFrames + w.frames /\ prevDecoded' = decodedFrames'
        /\ UNCHANGED <<base_bitrate, current_bitrate, pid_integral, pid_error_prev, adapt_consecutive_drops,
                       adapt_drop_events, coolLeft, adapt_cooldown_cap, greenFor, updates, beforeDrop>>

(* The weighted percentage of signal, link and repair rate.                *)
Composite(percent) ==
    (percent * 20 + (100 - 25 * s_conn_quality.quality) * 45 + s_conn_quality.repair * 35) \div 100

(***************************************************************************)
(* signal_strength_update, once a second.  degrading is the trend, a loss  *)
(* of 8 per cent or more of the packets is heavy.                          *)
(***************************************************************************)
Signal_update(percent, degrading) ==
    LET quality == Composite(percent)
        heavy   == s_conn_quality.loss >= 80
        error   == quality - TargetQuality
        sum     == AtLeast(AtMost(pid_integral + error, PID_INTEGRAL_MAX), -PID_INTEGRAL_MAX)
        floor   == AdaptiveFloor(base_bitrate)
        ceiling == AtLeast(AtMost(quality * ADAPT_CEILING_QUALITY_MULT, ADAPT_CEILING_MAX_KBPS), floor)
        pid     == AtMost(AtLeast(current_bitrate + PidDelta(error, sum), BITRATE_MIN_KBPS), base_bitrate)
        dropped == DropWindow(FastDrop(pid, floor), floor)
        fast    == adapt_consecutive_drops >= ADAPT_FAST_DROP_THRESHOLD
        drops   == IF fast THEN 0 ELSE adapt_consecutive_drops
        left    == IF Burst THEN ADAPT_DROP_COOLDOWN ELSE AtLeast(coolLeft - 1, 0)
        cap     == IF Burst THEN dropped ELSE adapt_cooldown_cap
        held    == HoldCap(dropped, cap, left)
        isGreen == left = 0 /\ quality >= SIGNAL_GOOD /\ drops = 0
        green   == IF ~isGreen THEN -1
                   ELSE IF Burst \/ greenFor = -1 THEN 0 ELSE AtMost(greenFor + 1, ADAPT_GREEN_HOLDOFF)
    IN  /\ base_bitrate # 0 /\ updates < MaxUpdates
        /\ updates' = updates + 1
        /\ pid_integral' = sum /\ pid_error_prev' = error
        /\ adapt_consecutive_drops' = drops /\ adapt_drop_events' = 0
        /\ coolLeft' = left /\ adapt_cooldown_cap' = cap /\ greenFor' = green
        /\ current_bitrate' = FinalClamp(AvoidIdr(Recover(held, green, ceiling),
                                                  degrading /\ (adapt_drop_events > 0 \/ heavy)),
                                         floor, ceiling)
        /\ beforeDrop' = IF Burst THEN current_bitrate ELSE IF left = 0 THEN 0 ELSE beforeDrop
        /\ UNCHANGED <<base_bitrate, linkVars>>

SignalNext ==
    \/ \E rate \in ConfiguredRates : Signal_init(rate)
    \/ Signal_shutdown
    \/ ReportFrameDrop
    \/ ReportFrameOk
    \/ \E w \in Windows : JudgeLink(w)
    \/ \E percent \in Percents, degrading \in BOOLEAN : Signal_update(percent, degrading)

(***************************************************************************)
(* The bitrate that is advertised stays between the floor that lets small  *)
(* recovery frames through and the bitrate the stream was launched with,   *)
(* whatever the controller, the drops and the recovery add up to.  After a *)
(* burst of lost frames it is lower than before it, or at the floor, and   *)
(* stays so for the whole cooldown, however good the link looks: neither   *)
(* the controller nor the recovery raises it above                         *)
(* (signal_strength_update, ADAPT_DROP_COOLDOWN_US).  This is so within two*)
(* hours of a stream; the sum of the errors may grow until the controller  *)
(* gives back in one update what a small burst takes, since                *)
(* PID_INTEGRAL_MAX allows it 50 kbps and the burst may take only 32.      *)
(***************************************************************************)
BurstHolds ==
    base_bitrate # 0 =>
        /\ current_bitrate \in AdaptiveFloor(base_bitrate)..base_bitrate
        /\ coolLeft > 0 => \/ current_bitrate < beforeDrop
                           \/ current_bitrate = AdaptiveFloor(base_bitrate)
=============================================================================
