-------------------------- MODULE SoftwareDecoder --------------------------
(***************************************************************************)
(* The software build's decoder: the frame callback of decoder_thread.c    *)
(* below its hardware branch, the OpenH264 pipeline with the Media Engine  *)
(* that converts its pictures (legacy/software), and the watchdog that     *)
(* terminates and restarts the thread.                                     *)
(*                                                                         *)
(* The OpenH264 library is external.  What it has of the stream is refs:   *)
(* nothing, the pictures the next P-frame needs ("whole"), or others       *)
(* ("broken": some frame was lost, skipped or failed since).  An IDR makes *)
(* it whole; so does the host's answer to a request for reference frame    *)
(* invalidation, unless the library holds nothing at all.  Frame numbers   *)
(* are abstracted to whether there is a last good frame, and whether the   *)
(* span since is too long to invalidate.                                   *)
(*                                                                         *)
(* A call of the callback is a step; where it calls the library it may     *)
(* hang.  The safety buffer is seen through what SafetyBuffer promises:    *)
(* after a packet loss a call may decode an old key frame in the place of  *)
(* its own frame.                                                          *)
(***************************************************************************)
EXTENDS Integers, FiniteSets

CONSTANTS
    RgbaSlots,       \* g_rgba_count (2 or 3)
    ZeroDelay,       \* g_zero_delay_mode
    MeMayHang,       \* the Media Engine may miss the waits for it
    LongPending,     \* callbacks without output before a request: 60 and 120
    WaitPeriod,      \* P-frames without a reference between two requests: 10, then 30
    StartupReset,    \* and before the codec is reset while starting: 24
    RefLostMax,      \* lost references in a row before an IDR instead of an RFI: 3
    RefLostHard,     \* and before the hard resync: 40, then every 80
    FailHard,        \* failures in a row before the codec is reset: 18, then every 60
    HangRestarts,    \* restarts the watchdog may spend on a hung decoder: 5
    MaxRestarts,     \* and on a dead one: 3
    Faults           \* bound: lost frames and requests, hangs, failed calls

ASSUME SoftwareDecoderAssumption ==
    /\ RgbaSlots \in {2, 3} /\ {ZeroDelay, MeMayHang} \subseteq BOOLEAN
    /\ {LongPending, WaitPeriod, StartupReset, RefLostMax, RefLostHard, FailHard} \subseteq Nat \ {0}
    /\ MaxRestarts \in Nat /\ HangRestarts \in Nat /\ MaxRestarts <= HangRestarts /\ Faults \in Nat

VARIABLES
    dec,      \* the decoder's flags and the callback's statics
    me,       \* the output slots and the Media Engine
    thread,   \* "running", "hung" inside the library, or "offline"
    asked,    \* what the host has been asked for: "nothing", "rfi" or "idr"
    gate,     \* g_decode_paused, g_cabac_dialog_active or neither
    restarts, \* s_watchdog_restarts
    faults,   \* faults so far
    event     \* the last step: a "frame" or an "answer" of the host (even or odd), was a picture shown

decoderVars == <<dec, me, thread, asked, gate, restarts, faults, event>>

Events == [host : {"frame", "answer", "other"}, shown : BOOLEAN, parity : BOOLEAN]
RgbaIndex == 1 .. RgbaSlots
NoSlot == 0
FreshDec ==
    [codec |-> TRUE, refs |-> "none",
     saw |-> FALSE, full |-> FALSE, corrupt |-> FALSE, lgf |-> FALSE, fec |-> FALSE,
     wait |-> 0, streak |-> 0, resetPending |-> FALSE, pausing |-> FALSE,
     key |-> FALSE, rewind |-> FALSE]
FreshMe ==
    [pixels |-> [s \in RgbaIndex |-> "blank"], idx |-> 1, avail |-> TRUE,
     job |-> NoSlot, pending |-> NoSlot, last |-> NoSlot, newest |-> NoSlot]
Longest == LongPending + FailHard + RefLostHard + StartupReset

DecoderTypeOK ==
    /\ dec.refs \in {"none", "whole", "broken"} /\ dec.wait \in 0 .. WaitPeriod /\ dec.streak \in 0 .. Longest
    /\ me.pixels \in [RgbaIndex -> {"blank", "writing", "torn", "whole"}]
    /\ me.idx \in RgbaIndex /\ {me.job, me.pending, me.last, me.newest} \subseteq RgbaIndex \cup {NoSlot}
    /\ thread \in {"running", "hung", "offline"} /\ asked \in {"nothing", "rfi", "idr"}
    /\ gate \in {"none", "paused", "dialog"} /\ restarts \in 0 .. HangRestarts /\ faults \in 0 .. Faults
    /\ event \in Events
-----------------------------------------------------------------------------
(* Requests to the host (control_stream.c is modelled in ControlStream):   *)
(* an IDR outranks an invalidation.                                        *)
Ask(a, req) == IF req = "idr" \/ a = "idr" THEN "idr" ELSE IF req = "rfi" THEN "rfi" ELSE a

(* A frame the library does not get leaves it without a reference. *)
Missed(d) == [d EXCEPT !.refs = IF @ = "whole" THEN "broken" ELSE @]
-----------------------------------------------------------------------------
(* The Media Engine finishes its conversion (me_yuv420_to_rgba_entry). *)
Finished(m) == IF m.job = NoSlot THEN m ELSE [m EXCEPT !.pixels[m.job] = "whole", !.job = NoSlot]

(* KillME and InitME after a wait that ran out. *)
Killed(m, back) == [m EXCEPT !.pixels = IF m.job = NoSlot THEN @ ELSE [@ EXCEPT ![m.job] = "torn"],
                             !.job = NoSlot, !.avail = back]

(* collect_pending_me_frame: without blocking it takes a finished picture; *)
(* blocking it waits, and gives the picture up when the wait runs out.     *)
Taken(m) == [m EXCEPT !.last = m.pending, !.pending = NoSlot]
collect_pending_me_frame(m, block, hangs, back) ==
    IF m.pending = NoSlot \/ ~ m.avail THEN [m |-> m, got |-> FALSE]
    ELSE IF m.job = NoSlot THEN [m |-> Taken(m), got |-> TRUE]
    ELSE IF ~ block THEN [m |-> m, got |-> FALSE]
    ELSE IF hangs THEN [m |-> [Killed(m, back) EXCEPT !.pending = NoSlot], got |-> FALSE]
    ELSE [m |-> Taken(Finished(m)), got |-> TRUE]

(* The wait for the current picture: in zero-delay mode, and for the first *)
(* picture of the pipeline.  When it runs out the slot is handed out as it *)
(* is, and the next BeginME finds the engine busy.                         *)
Waited(m, slot, hangs) ==
    LET w == IF hangs THEN m ELSE Finished(m)
    IN  [m |-> [w EXCEPT !.last = slot, !.pending = NoSlot], out |-> slot]

ConvertWithoutCollecting(m, hangs, back) ==
    LET slot == m.idx
        begun == [m EXCEPT !.idx = (slot % RgbaSlots) + 1, !.job = slot, !.pending = slot, !.pixels[slot] = "writing"]
    IN  IF m.last # NoSlot THEN [m |-> begun, out |-> m.last] ELSE Waited(begun, slot, hangs)

(* The end of oh264_pipeline_decode_frame: the next output slot, the       *)
(* previous conversion collected, this one begun, and the picture to show. *)
ConvertPicture(m, hangs, back) ==
    LET slot == m.idx
        next == [m EXCEPT !.idx = (slot % RgbaSlots) + 1]
        coll == IF ZeroDelay THEN next ELSE collect_pending_me_frame(next, TRUE, hangs, back).m
        begun == IF coll.job # NoSlot THEN [coll EXCEPT !.pending = slot]
                 ELSE [coll EXCEPT !.job = slot, !.pending = slot, !.pixels[slot] = "writing"]
    IN  IF ~ m.avail
          THEN [m |-> [next EXCEPT !.pixels[slot] = "whole", !.last = slot], out |-> slot]
        ELSE IF ~ ZeroDelay /\ coll.last # NoSlot
          THEN [m |-> begun, out |-> coll.last]
        ELSE Waited(begun, slot, hangs)
-----------------------------------------------------------------------------
(* What the library can make of an access unit (external).  A P-frame      *)
(* whose references it lacks never comes out clean.                        *)
Decodable(d, kind) == kind = "idr" \/ (kind = "rfi" /\ d.refs # "none") \/ (kind = "p" /\ d.refs = "whole")
Outcomes(d, kind) == IF Decodable(d, kind) THEN {"picture"} ELSE {"refLost", "error", "concealed"}

(* oh264_pipeline_decode_frame: [d, m, out, ret, req].  collected: a       *)
(* conversion finished in time to be shown although this frame gives none. *)
oh264_pipeline_decode_frame(d, m0, kind, o, hangs, back) ==
    LET early == IF ZeroDelay THEN [m |-> m0, got |-> FALSE] ELSE collect_pending_me_frame(m0, FALSE, FALSE, TRUE)
        m == early.m
        bad == [Missed(d) EXCEPT !.corrupt = TRUE, !.full = FALSE]
        Shown(dd, ret, req) == [d |-> dd, m |-> m, out |-> IF early.got THEN m.last ELSE NoSlot,
                                ret |-> IF early.got THEN "picture" ELSE ret, req |-> req]
        good == ConvertPicture(m, hangs, back)
    IN
    CASE ~ d.codec -> [d |-> d, m |-> m0, out |-> NoSlot, ret |-> "error", req |-> "nothing"]
      [] d.codec /\ o = "concealed" -> Shown(bad, "waiting", "idr")
      [] d.codec /\ o = "refLost" -> [d |-> Missed(d), m |-> m, out |-> NoSlot, ret |-> "refLost", req |-> "nothing"]
      [] d.codec /\ o = "error" -> Shown(bad, "error", IF d.refs = "none" THEN "idr" ELSE "nothing")
      [] d.codec /\ o = "pending" -> Shown(IF Decodable(d, kind) THEN [d EXCEPT !.refs = "whole"] ELSE Missed(d), "pending", "nothing")
      [] d.codec /\ o = "picture" ->
            [d |-> [d EXCEPT !.refs = "whole", !.saw = TRUE, !.full = TRUE, !.corrupt = FALSE],
             m |-> good.m, out |-> good.out, ret |-> "picture", req |-> "nothing"]

(* oh264_pipeline_reset_codec, or only a flush when the library cannot be  *)
(* created again.                                                          *)
ResetCodec(d, ok) ==
    [d EXCEPT !.codec = ok, !.refs = "none", !.saw = FALSE, !.full = FALSE, !.corrupt = IF ok THEN TRUE ELSE @]
ResetMe(m, ok) ==
    LET q == [Finished(m) EXCEPT !.pending = NoSlot] IN IF ok THEN [q EXCEPT !.last = NoSlot] ELSE q
-----------------------------------------------------------------------------
(* request_reference_recovery(60): the span is over every limit. *)
request_reference_recovery(d) ==
    IF d.corrupt \/ ~ d.full THEN [d |-> d, req |-> "idr"]
    ELSE IF d.saw /\ d.lgf THEN [d |-> [d EXCEPT !.corrupt = TRUE, !.full = FALSE], req |-> "idr"]
    ELSE [d |-> d, req |-> "idr"]

Keeping(d, m, req) == [d |-> d, m |-> m, req |-> req]
Streak(d) == [d EXCEPT !.streak = IF @ < Longest THEN @ + 1 ELSE @]

(* The answer of the callback to each result of the pipeline. *)
AfterPicture(d, m) ==
    Keeping([d EXCEPT !.wait = 0, !.streak = 0, !.lgf = @ \/ (d.full /\ ~ d.corrupt)], m, "nothing")

AfterPending(d0, m) ==
    LET d == Streak(d0) IN
    IF d.streak < LongPending THEN Keeping(d, m, "nothing")
    ELSE IF ~ d.saw THEN Keeping([d EXCEPT !.streak = 0], m, "idr")
    ELSE IF d.lgf THEN LET r == request_reference_recovery(d) IN Keeping([r.d EXCEPT !.streak = 0], m, r.req)
    ELSE Keeping(d, m, "nothing")

AfterWaiting(d0, m, ok) ==
    LET w == IF d0.wait < WaitPeriod THEN d0.wait + 1 ELSE 1
        d == [Streak(d0) EXCEPT !.wait = w]
        asks == w = 1
    IN  IF ~ d.saw /\ d.streak >= StartupReset
          THEN Keeping([ResetCodec(d, ok) EXCEPT !.lgf = FALSE, !.wait = 0, !.streak = 0], ResetMe(m, ok), "idr")
          ELSE Keeping(d, m, IF asks THEN "idr" ELSE "nothing")

AfterRefLost(d0, m, far) ==
    LET d == Streak(d0)
        lost == [d EXCEPT !.corrupt = TRUE, !.full = FALSE]
        answer == IF ~ (d.saw /\ d.lgf) THEN Keeping(lost, m, "idr")
                  ELSE IF far \/ d.streak >= RefLostMax
                    THEN Keeping([lost EXCEPT !.fec = FALSE, !.wait = 0, !.key = FALSE, !.rewind = FALSE], m, "idr")
                  ELSE Keeping([d EXCEPT !.wait = 0], m, "rfi")
    IN  IF d.streak < RefLostHard THEN answer
        ELSE Keeping([answer.d EXCEPT !.corrupt = TRUE, !.full = FALSE, !.streak = 0], m, "idr")

AfterErrorGivesUp(d0, m, ok) ==
    LET d == Streak(d0)
        r == request_reference_recovery(d)
        asks == ~ d.fec /\ d.streak = 1
    IN  Keeping([(IF asks THEN r.d ELSE d) EXCEPT !.fec = FALSE], m, IF asks THEN r.req ELSE "nothing")

AfterError(d0, m, ok) ==
    LET d == Streak(d0)
        hard == d.streak >= FailHard
        e == IF hard THEN [ResetCodec(d, ok) EXCEPT !.lgf = FALSE, !.fec = FALSE, !.wait = 0, !.streak = 0,
                                                    !.key = FALSE, !.rewind = FALSE]
             ELSE d
        r == request_reference_recovery(e)
        asks == ~ e.fec /\ e.streak <= 2
    IN  Keeping([(IF asks THEN r.d ELSE e) EXCEPT !.fec = FALSE],
             IF hard THEN ResetMe(m, ok) ELSE m,
             IF hard THEN "idr" ELSE IF asks THEN r.req ELSE "nothing")

Answer(d, m, ret, far, ok) ==
    CASE ret = "picture" -> AfterPicture(d, m)
      [] ret = "pending" -> AfterPending(d, m)
      [] ret = "waiting" -> AfterWaiting(d, m, ok)
      [] ret = "refLost" -> AfterRefLost(d, m, far)
      [] ret = "error" -> AfterError(d, m, ok)
-----------------------------------------------------------------------------
(* The frame the host sends next: what it was asked for, or the next       *)
(* P-frame before the request has arrived.                                 *)
Next1(a) == IF a = "nothing" THEN {"p"} ELSE IF a = "rfi" THEN {"p", "rfi"} ELSE {"p", "idr"}
Answered(a, kind) == IF kind = "p" THEN a ELSE "nothing"
Arrived(kind, picture) == [host |-> IF kind = "p" THEN "frame" ELSE "answer", shown |-> picture,
                           parity |-> ~ event.parity]
Other == [event EXCEPT !.host = "other", !.shown = FALSE]
Spend(n) == /\ faults + n <= Faults /\ faults' = faults + n

(* The statics a watchdog restart left to the next callback to clear. *)
Entry(d) == IF d.resetPending THEN [d EXCEPT !.wait = 0, !.streak = 0, !.resetPending = FALSE] ELSE d

(* The end of a pause: the ring, the reassembly and the codec's output are *)
(* flushed.                                                                *)
Resumed(d) == IF d.pausing THEN [d EXCEPT !.pausing = FALSE, !.lgf = FALSE, !.wait = 0, !.streak = 0] ELSE d

(* What can go wrong in a call: no output yet, the Media Engine misses its *)
(* wait and comes back or not, the library cannot be created again, the    *)
(* request to the host is lost.                                            *)
Troubles == {"none", "pending", "resetFails", "unheard"} \cup (IF MeMayHang THEN {"meHangs", "meGone"} ELSE {})

(* rtp_frame_complete_callback: a call that reaches the library.  replay:  *)
(* the safety buffer puts an old key frame in the place of this frame.     *)
Callback(kind, replay, far, trouble) ==
    LET fed == IF replay THEN "idr" ELSE kind IN
    /\ thread = "running" /\ gate = "none"
    /\ kind \in Next1(asked)
    /\ replay => dec.rewind /\ dec.key
    /\ dec.saw \/ fed = "idr"
    /\ IF trouble = "none" THEN UNCHANGED faults ELSE Spend(1)
    /\ LET stored == [dec EXCEPT !.key = @ \/ kind = "idr", !.rewind = @ /\ ~ replay]
           d == Resumed(Entry(stored))
           resumes == IF dec.pausing THEN "idr" ELSE "nothing"
       IN
       \E o \in (IF trouble = "pending" THEN {"pending"} ELSE Outcomes(d, fed)) :
       LET r == oh264_pipeline_decode_frame(d, me, fed, o, trouble \in {"meHangs", "meGone"}, trouble # "meGone")
           x == IF replay /\ kind # "idr" THEN Missed(r.d) ELSE r.d
           a == Answer(x, r.m, r.ret, far, trouble # "resetFails")
           wanted == IF trouble = "unheard" THEN "nothing" ELSE Ask(Ask(resumes, r.req), a.req)
       IN  /\ dec' = a.d
           /\ me' = IF r.out = NoSlot THEN a.m ELSE [a.m EXCEPT !.newest = r.out]
           /\ event' = Arrived(kind, r.out # NoSlot)
           /\ asked' = Ask(Answered(asked, kind), wanted)
           /\ restarts' \in IF r.out # NoSlot THEN {restarts} \cup ({restarts - 1} \cap Nat) ELSE {restarts}
    /\ UNCHANGED <<thread, gate>>

(* A call that returns early: paused, the CABAC dialog on the screen, the  *)
(* ring overloaded, or no IDR seen yet.  Only the last asks for one (every *)
(* tenth time; the request is repeated while it is not answered).          *)
SkipFrame(kind, overloaded) ==
    LET stored == Entry([dec EXCEPT !.key = @ \/ kind = "idr"])
        d == IF gate = "paused" THEN [stored EXCEPT !.pausing = TRUE] ELSE Resumed(stored)
        startup == gate # "paused" /\ ~ overloaded /\ ~ d.saw /\ kind # "idr"
    IN
    /\ thread = "running" /\ kind \in Next1(asked)
    /\ gate # "none" \/ overloaded \/ startup
    /\ overloaded => gate = "none" /\ kind # "idr"
    /\ IF overloaded THEN Spend(1) ELSE UNCHANGED faults
    /\ dec' = Missed(d)
    /\ asked' = Ask(Answered(asked, kind), IF startup \/ (stored.pausing /\ gate # "paused") THEN "idr" ELSE "nothing")
    /\ event' = Arrived(kind, FALSE)
    /\ UNCHANGED <<me, thread, gate, restarts>>

(* A frame lost on the way; the reassembly reports the loss, and the FEC   *)
(* may have asked for an IDR itself.                                       *)
LoseFrame(kind, fec) ==
    /\ thread = "running" /\ kind \in Next1(asked) /\ Spend(1)
    /\ dec' = [Missed(dec) EXCEPT !.rewind = TRUE, !.fec = @ \/ fec]
    /\ asked' = Ask(Answered(asked, kind), IF fec THEN "idr" ELSE "nothing")
    /\ event' = Other
    /\ UNCHANGED <<me, thread, gate, restarts>>

(* The Media Engine, beside the decoder thread. *)
MeFinishes ==
    /\ me.job # NoSlot
    /\ me' = Finished(me) /\ event' = Other
    /\ UNCHANGED <<dec, thread, asked, gate, restarts, faults>>

(* The library does not come back. *)
DecodeHangs ==
    /\ thread = "running" /\ gate = "none" /\ dec.saw /\ Spend(1)
    /\ thread' = "hung" /\ event' = Other
    /\ UNCHANGED <<dec, me, asked, gate, restarts>>

(* sw_decoder_thread_force_restart: the thread is terminated, the pipeline *)
(* abandoned and created again; when that fails the decoder is offline.    *)
ForceRestart(ok) ==
    /\ me' = IF ok THEN FreshMe
             ELSE [Killed(me, FALSE) EXCEPT !.pending = NoSlot, !.last = NoSlot, !.idx = 1]
    /\ thread' = IF ok THEN "running" ELSE "offline"
    /\ dec' = IF ok THEN [FreshDec EXCEPT !.resetPending = TRUE]
              ELSE [FreshDec EXCEPT !.codec = FALSE, !.corrupt = TRUE, !.lgf = dec.lgf, !.fec = dec.fec]

(* WATCHDOG-A (main.c:1464): hung for its time-out, and still after the    *)
(* flush.  WATCHDOG-C (main.c:1598): offline.  Both spend the same credits,*)
(* which long displaying gives back, and C may only spend the first few.   *)
Watchdog(ok) ==
    /\ restarts < (CASE thread = "running" -> 0 [] thread = "hung" -> HangRestarts [] OTHER -> MaxRestarts)
    /\ restarts' = restarts + 1
    /\ ForceRestart(ok)
    /\ IF ok THEN UNCHANGED faults ELSE Spend(1)
    /\ asked' = "idr" /\ event' = Other
    /\ UNCHANGED gate

(* decoder_force_live_latency_flush: the decoder loop drops its backlog. *)
LiveFlush ==
    /\ thread = "running" /\ Spend(1)
    /\ dec' = [Missed(dec) EXCEPT !.lgf = FALSE, !.corrupt = TRUE, !.full = FALSE]
    /\ asked' = "idr" /\ event' = Other
    /\ UNCHANGED <<me, thread, gate, restarts>>

\* g_decode_paused is set and cleared from outside; the dialog is raised by a CABAC stream.
Gate(g) ==
    /\ gate = "none" /\ g # "none" /\ Spend(1)
    /\ gate' = g /\ event' = Other
    /\ UNCHANGED <<dec, me, thread, asked, restarts>>
Ungate ==
    /\ gate # "none"
    /\ gate' = "none" /\ event' = Other
    /\ UNCHANGED <<dec, me, thread, asked, restarts, faults>>
-----------------------------------------------------------------------------
DecoderInit ==
    /\ dec = FreshDec /\ me = FreshMe /\ thread = "running" /\ asked = "nothing"
    /\ gate = "none" /\ restarts = 0 /\ faults = 0
    /\ event = [host |-> "other", shown |-> FALSE, parity |-> FALSE]

(* The watchdog has no restart left for a decoder that needs one; nothing  *)
(* more is shown until the stream ends.                                    *)
UsedUp == \/ thread = "offline" /\ restarts >= MaxRestarts
          \/ thread = "hung" /\ restarts >= HangRestarts
GivenUp == UsedUp /\ UNCHANGED decoderVars

FrameKinds == {"p", "rfi", "idr"}
Frame(kind) ==
    \/ \E replay, far \in BOOLEAN, trouble \in Troubles : Callback(kind, replay, far, trouble)
    \/ \E overloaded \in BOOLEAN : SkipFrame(kind, overloaded)

DecoderNext ==
    \/ \E kind \in FrameKinds : Frame(kind) \/ \E fec \in BOOLEAN : LoseFrame(kind, fec)
    \/ MeFinishes \/ DecodeHangs \/ LiveFlush \/ Ungate \/ GivenUp
    \/ \E ok \in BOOLEAN : Watchdog(ok)
    \/ \E g \in {"paused", "dialog"} : Gate(g)

(* Frames keep coming to a running decoder, the host answers a request     *)
(* that reaches it, the Media Engine and the main thread run, and a pause  *)
(* and the dialog end.  The first two are said of event: Frame(kind) is    *)
(* enabled whenever they are.                                              *)
FrameArrives == thread = "running" /\ event' \in {e \in Events : e.host # "other" /\ e.parity # event.parity}
HostAnswers == /\ thread = "running" /\ asked # "nothing"
               /\ event' \in {e \in Events : e.host = "answer" /\ e.parity # event.parity}
DecoderFairness ==
    /\ WF_event(FrameArrives) /\ SF_event(HostAnswers)
    /\ WF_decoderVars(MeFinishes) /\ WF_decoderVars(Ungate) /\ WF_decoderVars(\E ok \in BOOLEAN : Watchdog(ok))

DecoderSpec == DecoderInit /\ [][DecoderNext]_decoderVars /\ DecoderFairness
-----------------------------------------------------------------------------
(* The newest picture given to the display is complete and the Media       *)
(* Engine is not writing it: with two output slots, the previous frame is  *)
(* shown "while ME processes the current frame" into the other one, across *)
(* failed frames, codec resets and restarts.                               *)
HandedOutWhole == me.newest # NoSlot => me.pixels[me.newest] = "whole"

(* Whatever was lost, skipped, refused or hung, pictures come back, unless *)
(* the watchdog's restarts are used up: every way the callback drops a     *)
(* frame also asks, sooner or later, for the frame that mends it.          *)
PictureReturns == (event.host # "other" \/ thread # "running") ~> (event.shown \/ UsedUp)
=============================================================================
