---------------------------- MODULE AudioReceive ----------------------------
(***************************************************************************)
(* The receive thread of audio_thread.c as a machine from packets to       *)
(* chunks: losses are found from sequence numbers and timestamps, repaired *)
(* from parity or concealed, and every frame is appended to the output     *)
(* (module Audio has the threads and the ring; here an append may succeed  *)
(* or give up).                                                            *)
(*                                                                         *)
(* One Opus frame is one chunk.  The host numbers data and parity packets  *)
(* in one sequence and advances the timestamp by one frame per data        *)
(* packet, as the thread's comments say; the network loses packets and     *)
(* keeps their order.                                                      *)
(***************************************************************************)
EXTENDS AudioFec

CONSTANTS
    MaxBurst,       \* the most data packets lost in a row
    PendingMax,     \* AUDIO_PENDING_PACKETS (8)
    MaxDrains,      \* AUDIO_REORDER_MAX_DRAINS (8)
    MaxConceal,     \* the longest gap that is concealed (10 frames)
    MaxTimePlc      \* AUDIO_TIME_PLC_MAX_CONSEC_FRAMES (6)

ASSUME AudioReceiveAssumption ==
    /\ {PendingMax, MaxConceal} \subseteq Nat \ {0}
    /\ {MaxBurst, MaxDrains, MaxTimePlc} \subseteq Nat

(* The most sequence numbers from one data packet that arrives to the next. *)
(* What the thread keeps, blocks and packets put aside, is much less than   *)
(* one round of the sequence numbers, and a block needs a data packet to be *)
(* repaired.                                                                *)
Reach == MaxBurst + 1 + Parity * (MaxBurst \div Data + 1)
ASSUME WrapAssumption ==
    /\ CacheBlocks * (Reach + Data) <= SeqWrap /\ (PendingMax + 2) * Reach + Data <= SeqWrap
    /\ MaxBurst + 1 < MediaMod /\ Parity < Data

VARIABLES
    host,           \* the packet of the host that is next, and how many data packets were just lost
    short,          \* s_audio_packet_duration_ms < 40
    s_teardown_started,
    pc, then,       \* where the thread is, and where it goes on after an append
    cur,            \* the data packet of this turn
    chunk,          \* the chunk being appended
    last,           \* have_last_audio_seq, last_audio_seq, last_audio_rtp_ts
    clock,          \* s_rtp_anchor_valid, s_rtp_timestamp_scale # 0
    parity,         \* fec_between_audio
    gap, missing,   \* audio_gap still open, and the sequence number it starts with
    drained, fec_pending, consec_plc,
    fec,            \* s_audio_fec_blocks
    pending,        \* s_audio_pending
    due,            \* history: the media time the next chunk stands for, or Lost
    ahead           \* history: a drain counted parity that was sent after a packet it put aside

turn == <<cur, chunk, then, gap, missing, drained>>
seen == <<last, clock, parity>>
store == <<fec, pending>>
receiveVars == <<host, short, s_teardown_started, pc, turn, seen, store, fec_pending, consec_plc, due, ahead>>

Filler == MediaMod          \* a chunk made up by the decoder (PLC, or Opus in-band FEC)
Lost == -1                  \* media time is no longer accounted for

IsData(seq) == seq % (Data + Parity) < Data
Packet(seq) ==
    LET pos == seq % (Data + Parity)
        origin == (seq \div (Data + Parity)) * Data
    IN  [seq |-> seq, data |-> IsData(seq), media |-> IF IsData(seq) THEN origin + pos ELSE origin,
         shard |-> IF IsData(seq) THEN 0 ELSE pos - Data]
NoPacket == Packet(0)

ReceiveTypeOK ==
    /\ host \in [seq : Seqs, lost : 0 .. MaxBurst]
    /\ pc \in {"loop", "drain", "recover", "conceal", "decode", "append", "ended"}
    /\ then \in {"loop", "recover", "conceal", "decode"}
    /\ {short, s_teardown_started, fec_pending} \subseteq BOOLEAN
    /\ last \in [have : BOOLEAN, seq : Seqs, ts : Media] /\ clock \in [anchor : BOOLEAN, scale : BOOLEAN]
    /\ chunk \in Media \cup {Filler} /\ gap \in 0 .. MediaMod /\ missing \in Seqs
    /\ parity \in 0 .. (MaxBurst + 2) * Parity /\ drained \in 0 .. MaxDrains /\ consec_plc \in 0 .. MaxTimePlc
    /\ Len(fec) <= CacheBlocks /\ \A i \in DOMAIN fec : IsBlock(fec[i])
    /\ Len(pending) <= PendingMax /\ \A i \in DOMAIN pending : pending[i].data
    /\ due \in Media \cup {Lost} /\ ahead \in BOOLEAN

TurnIdle ==
    /\ cur = NoPacket /\ chunk = Filler /\ then = "loop" /\ gap = 0 /\ missing = 0 /\ drained = 0

\* audio_thread_init resets what is shared, the rest are locals of the thread.
ReceiveInit ==
    /\ host = [seq |-> 0, lost |-> 0] /\ short \in BOOLEAN /\ s_teardown_started = FALSE
    /\ pc = "loop" /\ TurnIdle
    /\ last = [have |-> FALSE, seq |-> 0, ts |-> 0] /\ clock = [anchor |-> FALSE, scale |-> FALSE]
    /\ parity = 0 /\ fec_pending = FALSE /\ consec_plc = 0
    /\ fec = <<>> /\ pending = <<>> /\ due = Lost /\ ahead = FALSE

----------------------------------------------------------------------------
(***************************************************************************)
(* The host sends blocks of Data data packets and their Parity parity      *)
(* packets.  The network is looked at when a packet is received: it is the *)
(* host's next, after the ones that are lost.                              *)
(***************************************************************************)
Losses == 0 .. MaxBurst + Parity
Received(lost) == Packet((host.seq + lost) % SeqWrap)
Arrives(lost) ==
    LET gone == host.lost + Cardinality({i \in 0 .. lost - 1 : IsData((host.seq + i) % SeqWrap)})
    IN  /\ gone <= MaxBurst
        /\ host' = [seq |-> (host.seq + lost + 1) % SeqWrap, lost |-> IF Received(lost).data THEN 0 ELSE gone]

Cached(p) ==
    IF p.data THEN audio_rtp_fec_cache_data(fec, p.seq, p.media)
    ELSE audio_rtp_fec_cache_parity(fec, p.seq - Data - p.shard, p.shard, p.media)

----------------------------------------------------------------------------
(***************************************************************************)
(* The end of a turn: its own values are dead.                             *)
(***************************************************************************)
EndTurn ==
    /\ pc' = "loop" /\ cur' = NoPacket /\ chunk' = Filler /\ then' = "loop"
    /\ gap' = 0 /\ missing' = 0 /\ drained' = 0

\* Hand a chunk to audio_stage_append_and_flush and go on at `next`.
AppendThen(c, next) == pc' = "append" /\ chunk' = c /\ then' = next

\* The chunk is staged ...
Staged ==
    /\ pc = "append"
    /\ due' = IF due = Lost THEN Lost ELSE (due + 1) % MediaMod
    /\ IF then = "loop" THEN EndTurn ELSE pc' = then /\ chunk' = Filler /\ UNCHANGED <<cur, then, gap, missing, drained>>
    /\ UNCHANGED <<host, short, s_teardown_started, seen, store, fec_pending, consec_plc, ahead>>

\* ... or given up after 24 waits for room; a repaired frame is then concealed instead.
StageGivesUp ==
    /\ pc = "append" /\ due' = Lost
    /\ IF then = "loop" THEN EndTurn
       ELSE IF then = "recover" THEN pc' = "conceal" /\ gap' = gap + 1 /\ chunk' = Filler /\ UNCHANGED <<cur, then, missing, drained>>
       ELSE pc' = then /\ chunk' = Filler /\ UNCHANGED <<cur, then, gap, missing, drained>>
    /\ UNCHANGED <<host, short, s_teardown_started, seen, store, fec_pending, consec_plc, ahead>>

----------------------------------------------------------------------------
Polling == pc = "loop" /\ ~s_teardown_started

\* No packet for a while and little left to play: a frame is made up, for short packets.
TimePlc ==
    /\ Polling /\ pending = <<>> /\ short /\ last.have /\ consec_plc < MaxTimePlc
    /\ AppendThen(Filler, "loop") /\ consec_plc' = consec_plc + 1 /\ due' = Lost
    /\ UNCHANGED <<host, short, s_teardown_started, cur, gap, missing, drained, seen, store, fec_pending, ahead>>

ReceiveParity ==
    /\ Polling /\ pending = <<>>
    /\ \E lost \in Losses : Arrives(lost) /\ ~Received(lost).data /\ fec' = Cached(Received(lost))
    /\ parity' = parity + 1 /\ consec_plc' = 0
    /\ UNCHANGED <<short, s_teardown_started, pc, turn, last, clock, pending, fec_pending, due, ahead>>

\* The packet of the turn: one put aside by an earlier drain, else the next of the socket.
Dequeue(p) ==
    IF pending # <<>> THEN p = Head(pending) /\ pending' = Tail(pending) /\ UNCHANGED <<host, fec>>
    ELSE /\ \E lost \in Losses : Arrives(lost) /\ p = Received(lost)
         /\ p.data /\ fec' = Cached(p) /\ UNCHANGED pending

Step(p) == (p.media - last.ts) % MediaMod

\* The first packet anchors the clock; a later one tells its unit, unless it is too far away.
\* (A source that was idle moves the anchor, which tells nothing new.)
MaxStep == 4
ClockAfter(p) ==
    IF ~clock.anchor THEN [clock EXCEPT !.anchor = TRUE]
    ELSE [clock EXCEPT !.scale = @ \/ (last.have /\ Step(p) \in 1 .. MaxStep)]

\* Sequence numbers between the last data packet and p that no parity packet accounts for.
MediaGap(p) ==
    LET total_gap == (p.seq - last.seq - 1) % SeqWrap
    IN  IF total_gap > parity THEN total_gap - parity ELSE 0

\* Frames lost before p: what the timestamps say, but no more than MediaGap.
AudioGap(p) ==
    IF ~last.have \/ ~clock'.scale \/ Step(p) <= 1 THEN 0
    ELSE IF Step(p) - 1 < MediaGap(p) THEN Step(p) - 1 ELSE MediaGap(p)

ReceiveData ==
    /\ Polling
    /\ \E p \in {Packet(seq) : seq \in Seqs} :
        /\ Dequeue(p) /\ cur' = p
        /\ clock' = ClockAfter(p)
        /\ gap' = AudioGap(p)
        /\ missing' = IF gap' > 0 THEN (p.seq - MediaGap(p)) % SeqWrap ELSE 0
        /\ pc' = IF gap' = 0 THEN "decode" ELSE IF gap' <= Parity THEN "drain" ELSE "recover"
        /\ last' = [have |-> TRUE, seq |-> p.seq, ts |-> p.media] /\ parity' = 0 /\ consec_plc' = 0
        /\ due' = IF ~last.have THEN p.media
                  ELSE IF ~clock'.scale /\ Step(p) # 1 THEN Lost ELSE due
    /\ UNCHANGED <<short, s_teardown_started, then, chunk, drained, fec_pending, ahead>>

----------------------------------------------------------------------------
\* audio_reorder_drain_for_fec: whatever comes within 4 ms is cached; parity is counted and
\* data put aside for the next turns.
Drain ==
    /\ pc = "drain" /\ drained < MaxDrains /\ drained' = drained + 1
    /\ \E lost \in Losses :
        LET p == Received(lost)
            full == p.data /\ Len(pending) = PendingMax
        IN  /\ Arrives(lost) /\ fec' = Cached(p)
            /\ pending' = IF p.data /\ ~full THEN Append(pending, p) ELSE pending
            /\ parity' = IF p.data THEN parity ELSE parity + 1
            /\ ahead' = (ahead \/ (~p.data /\ pending # <<>>))
            /\ pc' = IF full THEN "recover" ELSE "drain"
            /\ due' = IF full THEN Lost ELSE due
    /\ UNCHANGED <<short, s_teardown_started, cur, chunk, then, gap, missing, last, clock, fec_pending, consec_plc>>

DrainEnds ==
    /\ pc = "drain" /\ pc' = "recover"
    /\ UNCHANGED <<host, short, s_teardown_started, turn, seen, store, fec_pending, consec_plc, due, ahead>>

\* A mutant of Recover: a repaired frame is still counted as lost and concealed as well.
RecoverKeepsGap ==
    /\ pc = "recover" /\ ~s_teardown_started /\ gap > 0 /\ Recoverable(fec, missing)
    /\ LET r == audio_rtp_fec_recover_payload(fec, missing)
       IN  fec' = r.cache /\ AppendThen(r.media, "recover")
    /\ missing' = (missing + 1) % SeqWrap
    /\ UNCHANGED <<host, short, s_teardown_started, cur, gap, drained, seen, pending, fec_pending, consec_plc, due, ahead>>

\* Lost frames are repaired one after the other ...
Recover ==
    /\ pc = "recover" /\ ~s_teardown_started /\ gap > 0 /\ Recoverable(fec, missing)
    /\ LET r == audio_rtp_fec_recover_payload(fec, missing)
       IN  fec' = r.cache /\ AppendThen(r.media, "recover")
    /\ gap' = gap - 1 /\ missing' = (missing + 1) % SeqWrap
    /\ UNCHANGED <<host, short, s_teardown_started, cur, drained, seen, pending, fec_pending, consec_plc, due, ahead>>

\* ... until one cannot be, or does not decrypt or decode.  A long rest is left alone.
RecoverEnds ==
    /\ pc = "recover" /\ pc' = "conceal"
    /\ LET left == gap > MaxConceal \/ s_teardown_started
       IN  gap' = (IF left THEN 0 ELSE gap) /\ due' = (IF left /\ gap > 0 THEN Lost ELSE due)
    /\ UNCHANGED <<host, short, s_teardown_started, cur, chunk, then, missing, drained, seen, store, fec_pending, consec_plc, ahead>>

\* All lost frames but the last are made up here, the last from the packet at hand.
Conceal ==
    /\ pc = "conceal"
    /\ IF gap > 1 THEN AppendThen(Filler, "conceal") /\ gap' = gap - 1 /\ UNCHANGED fec_pending
       ELSE pc' = "decode" /\ gap' = 0 /\ fec_pending' = (fec_pending \/ gap = 1) /\ UNCHANGED <<chunk, then>>
    /\ UNCHANGED <<host, short, s_teardown_started, cur, missing, drained, seen, store, consec_plc, due, ahead>>

\* An empty or misaligned payload, or no PCM at all: nothing is appended, fec_pending stays.
DecodeSkips ==
    /\ pc = "decode" /\ EndTurn /\ due' = Lost
    /\ UNCHANGED <<host, short, s_teardown_started, seen, store, fec_pending, consec_plc, ahead>>

\* The payload does not decrypt or decode: it is made up, and so is no frame before it.
DecodeFails ==
    /\ pc = "decode" /\ AppendThen(Filler, "loop") /\ fec_pending' = FALSE
    /\ due' = IF fec_pending THEN Lost ELSE due
    /\ UNCHANGED <<host, short, s_teardown_started, cur, gap, missing, drained, seen, store, consec_plc, ahead>>

\* Opus in-band FEC for the last lost frame, then the frame itself.
DecodeFec ==
    /\ pc = "decode" /\ fec_pending /\ fec_pending' = FALSE /\ AppendThen(Filler, "decode")
    /\ UNCHANGED <<host, short, s_teardown_started, cur, gap, missing, drained, seen, store, consec_plc, due, ahead>>

DecodeChunk ==
    /\ pc = "decode" /\ ~fec_pending /\ AppendThen(cur.media, "loop")
    /\ UNCHANGED <<host, short, s_teardown_started, cur, gap, missing, drained, seen, store, fec_pending, consec_plc, due, ahead>>

----------------------------------------------------------------------------
\* audio_thread_begin_shutdown; the thread stops at the top of its loop.
BeginShutdown ==
    /\ ~s_teardown_started /\ s_teardown_started' = TRUE
    /\ UNCHANGED <<host, short, pc, turn, seen, store, fec_pending, consec_plc, due, ahead>>

ReceiveEnds ==
    /\ pc = "loop" /\ s_teardown_started /\ pc' = "ended"
    /\ last' = [have |-> FALSE, seq |-> 0, ts |-> 0] /\ clock' = [anchor |-> FALSE, scale |-> FALSE]
    /\ parity' = 0 /\ fec_pending' = FALSE /\ consec_plc' = 0 /\ due' = Lost /\ ahead' = FALSE /\ host' = [seq |-> 0, lost |-> 0]
    /\ UNCHANGED <<short, s_teardown_started, turn, store>>

\* The next stream: audio_thread_init.
AudioInit ==
    /\ pc = "ended" /\ pc' = "loop" /\ s_teardown_started' = FALSE /\ short' \in BOOLEAN
    /\ fec' = <<>> /\ pending' = <<>>
    /\ UNCHANGED <<host, turn, seen, fec_pending, consec_plc, due, ahead>>

ReceiveNext ==
    \/ Staged \/ StageGivesUp \/ TimePlc \/ ReceiveParity \/ ReceiveData
    \/ Drain \/ DrainEnds \/ Recover \/ RecoverEnds \/ Conceal
    \/ DecodeSkips \/ DecodeFails \/ DecodeFec \/ DecodeChunk
    \/ BeginShutdown \/ ReceiveEnds \/ AudioInit
ReceiveSpec == ReceiveInit /\ [][ReceiveNext]_receiveVars

----------------------------------------------------------------------------
(***************************************************************************)
(* Properties.                                                             *)
(***************************************************************************)

\* Every media time yields one chunk: a frame that is decoded or repaired is appended where it
\* belongs, after one chunk for each frame before it, lost ones included, so sound neither
\* gains nor loses time against the picture.  That is given up only when a chunk or a packet
\* put aside found no room, a payload was unusable, a gap was too long or came before the clock's unit was
\* known, or a frame was made up for lack of packets (TimePlc).
AccurateGaps == pc = "append" /\ due # Lost /\ chunk # Filler => chunk = due

\* The same, as long as audio_reorder_drain_for_fec has not counted parity that was sent after
\* a data packet it put aside.
InMediaOrder == ~ahead => AccurateGaps
============================================================================
