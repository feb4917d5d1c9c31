------------------------------- MODULE Audio -------------------------------
(***************************************************************************)
(* The threads of audio_thread.c.  The receive thread stages chunks of PCM *)
(* (module AudioReceive says which) and pushes them into a ring without a  *)
(* lock, the play thread takes them out and feeds the output; a ping       *)
(* thread keeps the socket alive until the receive thread takes over; the  *)
(* UI thread starts and stops them.                                        *)
(***************************************************************************)
EXTENDS Integers

CONSTANTS
    RingSlots,      \* AUDIO_RING_SLOTS (96)
    StageMax,       \* chunks the staging buffer holds (AUDIO_STAGE_CAPACITY)
    LowWater,       \* AUDIO_PLC_LOW_WATER_CHUNKS (3)
    Prebuffer,      \* AUDIO_PREBUFFER_TARGET_CHUNKS (8)
    Target,         \* AUDIO_DRIFT_TARGET_CHUNKS (6)
    HoldMax         \* AUDIO_EMPTY_HOLD_MAX_CHUNKS (12)

ASSUME AudioAssumption ==
    /\ {RingSlots, StageMax, Prebuffer} \subseteq Nat \ {0} /\ {LowWater, Target, HoldMax} \subseteq Nat
    /\ Prebuffer <= RingSlots

VARIABLES
    ui,             \* where the UI thread is in the life of the audio stream
    res,            \* what is held: the sync semaphore, decoder, output channel, sockets
    s_running, s_ping_running, s_teardown_started,
    ping,           \* the ping thread: off, on, ended (not yet joined)
    rx,             \* the receive thread's locals
    pcm,            \* s_pcm_stage_count, in chunks
    ring, head, tail,       \* s_ring; head and tail count modulo 2 * RingSlots, a slot holds the
                            \* number of the push that filled it
    play,           \* the play thread's locals
    clock,          \* s_rtp_anchor_valid, s_rtp_timestamp_scale # 0, s_audio_timeline_samples
    started         \* s_audio_playback_started

uiVars == <<ui, res, s_running, s_ping_running, s_teardown_started>>
rxVars == <<rx, pcm>>
ringVars == <<ring, head, tail>>
vars == <<uiVars, ping, rxVars, ringVars, play, clock, started>>

Wrap(n) == n % (2 * RingSlots)
Pushes == 0 .. 2 * RingSlots - 1
Queued == Wrap(head - tail)

Resources == {"sem", "opus", "chan", "sock"}
RxIdle == [pc |-> "off", copied |-> FALSE, have |-> FALSE]
PlayIdle == [pc |-> "off", buf |-> 0, idle |-> FALSE, have |-> FALSE, holds |-> 0]
ClockIdle == [anchor |-> FALSE, scale |-> FALSE, timeline |-> 0]

RxPcs == {"off", "takeover", "joining", "loop", "more", "append", "flush", "ended"}
PlayPcs == {"off", "prebuffer", "top", "trim", "discard", "skip", "pop", "again", "take", "out", "ended"}

TypeOK ==
    /\ ui \in {"idle", "pinging", "up", "failed", "begun", "stop", "closed", "silent"}
    /\ res \subseteq Resources /\ ping \in {"off", "on", "ended"}
    /\ {s_running, s_ping_running, s_teardown_started, started} \subseteq BOOLEAN
    /\ pcm \in 0 .. StageMax
    /\ ring \in [0 .. RingSlots - 1 -> Pushes] /\ head \in Pushes /\ tail \in Pushes
    /\ rx \in [pc : RxPcs, copied : BOOLEAN, have : BOOLEAN]
    /\ play \in [pc : PlayPcs, buf : Pushes, idle : BOOLEAN, have : BOOLEAN, holds : 0 .. HoldMax]
    /\ clock \in [anchor : BOOLEAN, scale : BOOLEAN, timeline : Pushes]

Init ==
    /\ ui = "idle" /\ res = {} /\ ping = "off"
    /\ s_running = FALSE /\ s_ping_running = FALSE /\ s_teardown_started = FALSE /\ started = FALSE
    /\ rx = RxIdle /\ pcm = 0
    /\ ring = [i \in 0 .. RingSlots - 1 |-> 0] /\ head = 0 /\ tail = 0
    /\ play = PlayIdle /\ clock = ClockIdle

----------------------------------------------------------------------------
(***************************************************************************)
(* The UI thread.                                                          *)
(***************************************************************************)

\* audio_thread_set_packet_duration_ms and audio_thread_start_ping_only, while RTSP runs.
StartPing ==
    /\ ui = "idle" /\ ui' = "pinging"
    /\ \E bound, on \in BOOLEAN :
        /\ on => bound
        /\ res' = IF bound THEN res \cup {"sock"} ELSE res
        /\ s_ping_running' = on /\ ping' = IF on THEN "on" ELSE ping
    /\ UNCHANGED <<s_running, s_teardown_started, rxVars, ringVars, play, clock, started>>

\* What audio_thread_init has set up when it returns, by where it fails.
HeldAfter(outcome) ==
    CASE outcome = "ok" -> Resources
      [] outcome = "no_sem" -> res
      [] outcome = "no_decoder" -> {"sem"} \cup res
      [] outcome = "no_channel" -> {"sem", "sock"}
      [] outcome \in {"no_socket", "no_thread"} -> {"sem"}

InitResets ==
    /\ s_teardown_started' = FALSE /\ started' = FALSE
    /\ pcm' = 0
    /\ ring' = [i \in 0 .. RingSlots - 1 |-> 0] /\ head' = 0 /\ tail' = 0
    /\ clock' = ClockIdle

\* The play thread may fail to start; the receive thread then fills the ring all the same.
AudioInit ==
    /\ ui = "pinging" /\ ~s_running
    /\ \E outcome \in {"ok", "no_sem", "no_decoder", "no_socket", "no_channel", "no_thread"}, playing \in BOOLEAN :
        /\ outcome = "no_socket" => "sock" \notin res
        /\ playing => outcome = "ok"
        /\ res' = HeldAfter(outcome)
        /\ s_running' = (outcome = "ok")
        /\ IF outcome \in {"ok", "no_channel"} THEN \* start_audio_ping_thread, which may fail
             \/ ping = "off" /\ s_ping_running' = TRUE /\ ping' = "on"
             \/ UNCHANGED <<s_ping_running, ping>>
           ELSE IF outcome = "no_thread" THEN s_ping_running' = FALSE /\ ping' = "off"
           ELSE UNCHANGED <<s_ping_running, ping>>
        /\ ui' = IF outcome = "ok" THEN "up" ELSE "failed"
        /\ rx' = [RxIdle EXCEPT !.pc = IF outcome = "ok" THEN "takeover" ELSE "off"]
        /\ play' = [PlayIdle EXCEPT !.pc = IF playing THEN "prebuffer" ELSE "off"]
    /\ InitResets

BeginShutdown ==
    /\ ui = "up" /\ ui' = "begun"
    /\ s_teardown_started' = TRUE /\ s_running' = FALSE /\ s_ping_running' = FALSE
    /\ UNCHANGED <<res, ping, rxVars, ringVars, play, clock, started>>

\* audio_thread_shutdown, up to its first wait.
Shutdown ==
    /\ ui \in {"begun", "up", "failed", "pinging"} /\ ui' = "stop"
    /\ s_teardown_started' = TRUE /\ s_running' = FALSE /\ s_ping_running' = FALSE /\ started' = FALSE
    /\ UNCHANGED <<res, ping, rxVars, ringVars, play, clock>>

\* stop_audio_ping_thread waits for the thread; then the sockets are closed.
JoinPing ==
    /\ ui = "stop" /\ ping # "on" /\ ui' = "closed"
    /\ ping' = "off" /\ res' = res \ {"sock"}
    /\ UNCHANGED <<s_running, s_ping_running, s_teardown_started, rxVars, ringVars, play, clock, started>>

JoinReceive ==
    /\ ui = "closed" /\ rx.pc \in {"off", "ended"} /\ ui' = "silent"
    /\ rx' = RxIdle
    /\ UNCHANGED <<res, s_running, s_ping_running, s_teardown_started, ping, pcm,
                   ringVars, play, clock, started>>

\* Waits for the play thread, gives the channel, the semaphore and the decoder back.
ShutdownEnds ==
    /\ ui = "silent" /\ play.pc \in {"off", "ended"} /\ ui' = "idle"
    /\ play' = PlayIdle /\ res' = {} /\ clock' = ClockIdle
    /\ UNCHANGED <<s_running, s_ping_running, s_teardown_started, ping, rxVars, ringVars, started>>

\* The ping thread sends every 500 ms and looks at its flag in between.
PingEnds ==
    /\ ping = "on" /\ ~s_ping_running /\ ping' = "ended"
    /\ UNCHANGED <<uiVars, rxVars, ringVars, play, clock, started>>

----------------------------------------------------------------------------
(***************************************************************************)
(* The ring, and the receive thread's way into it: a chunk is staged, then *)
(* pushed as long as there is room.  Push copies, then publishes.          *)
(***************************************************************************)
ring_full_OffByOne == Queued > RingSlots
ring_full == Queued >= RingSlots
ring_empty == head = tail

RxGoto(pc) == [rx EXCEPT !.pc = pc]
RxOnly == UNCHANGED <<uiVars, ping, play, tail, started>>

PushCopy ==
    /\ \/ rx.pc = "flush"
       \/ rx.pc = "append" /\ pcm = StageMax
       \/ rx.pc = "loop" /\ s_running
    /\ ~rx.copied /\ pcm > 0 /\ ~ring_full
    /\ ring' = [ring EXCEPT ![head % RingSlots] = head]
    /\ rx' = [rx EXCEPT !.copied = TRUE]
    /\ RxOnly /\ UNCHANGED <<pcm, head, clock>>

PushPublish ==
    /\ rx.copied /\ rx' = [rx EXCEPT !.copied = FALSE]
    /\ head' = Wrap(head + 1) /\ pcm' = pcm - 1
    /\ RxOnly /\ UNCHANGED <<ring, clock>>

\* audio_stage_append_and_flush copies into the staging buffer ...
Stage ==
    /\ rx.pc = "append" /\ ~rx.copied /\ pcm < StageMax
    /\ pcm' = pcm + 1 /\ rx' = RxGoto("flush")
    /\ RxOnly /\ UNCHANGED <<ring, head, clock>>

\* ... or gives up after 24 waits for room.
StageGivesUp ==
    /\ rx.pc = "append" /\ ~rx.copied /\ pcm = StageMax /\ ring_full
    /\ rx' = RxGoto("more")
    /\ RxOnly /\ UNCHANGED <<pcm, ring, head, clock>>

Flushed ==
    /\ rx.pc = "flush" /\ ~rx.copied /\ (pcm = 0 \/ ring_full)
    /\ rx' = RxGoto("more")
    /\ RxOnly /\ UNCHANGED <<pcm, ring, head, clock>>

----------------------------------------------------------------------------
(***************************************************************************)
(* The receive thread.                                                     *)
(***************************************************************************)
TakeOverPings ==
    /\ rx.pc = "takeover" /\ rx' = RxGoto("joining") /\ s_ping_running' = FALSE
    /\ UNCHANGED <<ui, res, s_running, s_teardown_started, ping, pcm, ringVars, play, clock, started>>

PingsTaken ==
    /\ rx.pc = "joining" /\ ping # "on" /\ ping' = "off" /\ rx' = RxGoto("loop")
    /\ UNCHANGED <<uiVars, pcm, ringVars, play, clock, started>>

\* A turn that yields chunks: a data packet (the first one anchors the clock, a later one may
\* tell its unit), or a frame made up for lack of packets.  An earlier turn's chunks go first.
ReceiveTurn ==
    /\ rx.pc = "loop" /\ ~rx.copied /\ s_running /\ pcm = 0
    /\ rx' = [rx EXCEPT !.pc = "append", !.have = TRUE]
    /\ clock' \in IF ~clock.anchor THEN {[clock EXCEPT !.anchor = TRUE, !.timeline = 0]}
                  ELSE {clock, [clock EXCEPT !.scale = TRUE]}
    /\ RxOnly /\ UNCHANGED <<pcm, ring, head>>

\* Frames repaired or concealed make more than one chunk of a packet.
TurnGoesOn ==
    /\ rx.pc = "more" /\ rx' = RxGoto("append")
    /\ RxOnly /\ UNCHANGED <<pcm, ring, head, clock>>

TurnEnds ==
    /\ rx.pc = "more" /\ rx' = RxGoto("loop")
    /\ RxOnly /\ UNCHANGED <<pcm, ring, head, clock>>

ReceiveEnds ==
    /\ rx.pc = "loop" /\ ~rx.copied /\ ~s_running /\ rx' = [RxIdle EXCEPT !.pc = "ended"]
    /\ RxOnly /\ UNCHANGED <<pcm, ring, head, clock>>

----------------------------------------------------------------------------
(***************************************************************************)
(* The play thread.  Pop copies, then moves tail; the content clock moves  *)
(* after that (audio_advance_consumed_chunk).                              *)
(***************************************************************************)
PlayOnly == UNCHANGED <<uiVars, ping, rxVars, ring, head>>
PlayGoto(pc) == [play EXCEPT !.pc = pc]

PrebufferedWhenFull ==
    /\ play.pc = "prebuffer" /\ Queued >= Prebuffer
    /\ play' = PlayGoto("top") /\ started' = TRUE
    /\ PlayOnly /\ UNCHANGED <<tail, clock>>

Prebuffered ==
    /\ play.pc = "prebuffer" /\ (~s_running \/ Queued >= Prebuffer)
    /\ play' = PlayGoto("top") /\ started' = TRUE
    /\ PlayOnly /\ UNCHANGED <<tail, clock>>

\* A turn: is the source idle, and does the queue have to be trimmed?
PlayTop ==
    /\ play.pc = "top" /\ s_running
    /\ \E idle \in BOOLEAN, correct \in BOOLEAN :
        /\ idle => rx.have
        /\ correct => ~idle /\ clock.anchor /\ clock.scale
        /\ play' = [play EXCEPT !.idle = idle, !.pc = IF correct /\ Queued > Target + 1 THEN "trim" ELSE "pop"]
    /\ PlayOnly /\ UNCHANGED <<tail, clock, started>>

\* The clock says output is far ahead and little is queued: the last chunk is played again.
DriftHold ==
    /\ play.pc = "top" /\ s_running /\ clock.anchor /\ clock.scale
    /\ play.have /\ Queued <= LowWater /\ Queued <= Target + 1
    /\ PlayOnly /\ UNCHANGED <<play, tail, clock, started>>

PopCopy(from, to) ==
    /\ play.pc = from /\ ~ring_empty
    /\ play' = [play EXCEPT !.pc = to, !.buf = ring[tail % RingSlots]]
    /\ PlayOnly /\ UNCHANGED <<tail, clock, started>>

PopTake(from, to) ==
    /\ play.pc = from /\ play' = PlayGoto(to)
    /\ tail' = Wrap(tail + 1)
    /\ PlayOnly /\ UNCHANGED <<clock, started>>

Advanced == [clock EXCEPT !.timeline = Wrap(@ + 1)]

TrimCopy == PopCopy("trim", "discard")
TrimTake == PopTake("discard", "skip")
TrimAdvance ==
    /\ play.pc = "skip" /\ play' = PlayGoto("pop") /\ clock' = Advanced
    /\ PlayOnly /\ UNCHANGED <<tail, started>>

\* An empty ring is looked at twice before the last chunk is repeated.
Pop == \E from \in {"pop", "again"} : PopCopy(from, "take")
PopEmpty ==
    /\ play.pc = "pop" /\ ring_empty /\ ~play.idle /\ play.have /\ play' = PlayGoto("again")
    /\ PlayOnly /\ UNCHANGED <<tail, clock, started>>
Take == PopTake("take", "out")

Output ==
    /\ play.pc = "out" /\ clock' = Advanced
    /\ play' = [play EXCEPT !.pc = "top", !.buf = 0, !.have = TRUE, !.holds = 0]
    /\ PlayOnly /\ UNCHANGED <<tail, started>>

\* A faded repeat of the last chunk at most HoldMax times, or silence.
OutputNothing ==
    /\ ring_empty
    /\ play.pc = "again" \/ (play.pc = "pop" /\ (play.idle \/ ~play.have))
    /\ play' = [play EXCEPT !.pc = "top",
                            !.holds = IF play.idle THEN 0 ELSE IF @ < HoldMax THEN @ + 1 ELSE @]
    /\ PlayOnly /\ UNCHANGED <<tail, clock, started>>

PlayEnds ==
    /\ play.pc = "top" /\ ~s_running /\ play' = PlayGoto("ended")
    /\ PlayOnly /\ UNCHANGED <<tail, clock, started>>

----------------------------------------------------------------------------
UI == StartPing \/ AudioInit \/ BeginShutdown \/ Shutdown \/ JoinPing \/ JoinReceive \/ ShutdownEnds
Receiver ==
    \/ PushCopy \/ PushPublish \/ Stage \/ StageGivesUp \/ Flushed
    \/ TakeOverPings \/ PingsTaken \/ ReceiveTurn \/ TurnGoesOn \/ TurnEnds \/ ReceiveEnds
Player ==
    \/ Prebuffered \/ PlayTop \/ DriftHold \/ TrimCopy \/ TrimTake \/ TrimAdvance
    \/ Pop \/ PopEmpty \/ Take \/ Output \/ OutputNothing \/ PlayEnds

Next == UI \/ PingEnds \/ Receiver \/ Player

\* Every thread that can run is scheduled; a packet yields finitely many chunks; a shutdown
\* that was begun goes on.
Fairness ==
    /\ WF_vars(JoinPing \/ JoinReceive \/ ShutdownEnds) /\ WF_vars(PingEnds)
    /\ WF_vars(Receiver) /\ SF_vars(TurnEnds) /\ WF_vars(Player)

Spec == Init /\ [][Next]_vars /\ Fairness

----------------------------------------------------------------------------
(***************************************************************************)
(* Properties.                                                             *)
(***************************************************************************)

\* What the play thread copies out of the ring (ring_pop_pcm) is the oldest chunk that
\* ring_push_pcm published, whole: neither thread ever works on the other's slot.  And
\* s_audio_timeline_samples counts exactly the chunks taken from the ring, trimmed ones
\* included, so the drift correction compares the host's clock with what was consumed.
PlayedIntact ==
    /\ play.pc \in {"discard", "take"} => play.buf = tail
    /\ play.pc \notin {"off", "ended"} =>
          clock.timeline = IF play.pc \in {"skip", "out"} THEN Wrap(tail - 1) ELSE tail

\* audio_thread_shutdown returns: each thread it waits for, in whatever state the flags find
\* it (prebuffering, pushing into a full ring, taking over the pings), comes to its end.
ShutdownReturns == ui = "stop" ~> ui = "idle"
============================================================================
