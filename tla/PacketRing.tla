----------------------------- MODULE PacketRing -----------------------------
(***************************************************************************)
(* The packet ring between the receive thread (network_me.c) and the       *)
(* decoder thread (decoder_thread.c), with the main thread that starts and *)
(* stops both around a stream.  Nothing locks the ring: the producer owns  *)
(* head, the consumer owns tail, and one slot stays free.                  *)
(*                                                                         *)
(* A packet is the number of its publication, modulo two laps of the ring, *)
(* and what the admission control and the trim tell apart.  published and  *)
(* taken are history: how many packets were made visible, and the number   *)
(* of the next one the decoder should see.  A slot that is free again is   *)
(* shown as Stale: nothing reads it before it is written.                  *)
(***************************************************************************)
EXTENDS Integers, FiniteSets

CONSTANTS
    Slots,          \* RING_BUFFER_SLOTS (512)
    ParityMark,     \* more queued than this (90 %): parity is refused
    BodyMark,       \* more queued than this (95 %): only starts of frames and IDRs are taken
    TrimMark,       \* PACKET_BACKLOG_TRIM_* and the flush threshold
    EmergencyDrops  \* refused packets before the producer may flush (2000)

ASSUME PacketRingAssumption ==
    /\ Slots \in Nat /\ {ParityMark, BodyMark, TrimMark} \subseteq 1 .. (Slots - 2)
    /\ ParityMark <= BodyMark /\ EmergencyDrops \in Nat \ {0}

VARIABLES
    head, tail, slots,          \* g_shared.packet_ring
    rpc, direct, pkt,           \* the receive thread: where it is, recv_direct, what it holds
    s_drop_count,
    dpc, queued,                \* the decoder thread, and the backlog it measured
    ui, me_running, g_dec_running, g_decoder_ready,
    published, taken, raced     \* history

ring == <<head, tail, slots>>
receiver == <<rpc, direct, pkt, s_drop_count>>
decoder == <<dpc, queued>>
main == <<ui, me_running, g_dec_running, g_decoder_ready>>
ringVars == <<ring, receiver, decoder, main, published, taken, raced>>

Index == 0 .. Slots - 1
Numbers == 0 .. 2 * Slots - 1
Kinds == {"audio", "parity", "body", "start", "idr"}
Priority == [audio |-> 0, parity |-> 0, body |-> 1, start |-> 2, idr |-> 3]
Nothing == [n |-> 0, kind |-> "body"]
Stale == [n |-> 0, start |-> FALSE, len |-> FALSE]
IsStart(kind) == kind \in {"start", "idr"}

\* (head + RING_BUFFER_SLOTS - tail) % RING_BUFFER_SLOTS
Used == (head - tail) % Slots
Succ(i) == (i + 1) % Slots

RingTypeOK ==
    /\ head \in Index /\ tail \in Index
    /\ slots \in [Index -> [n : Numbers, start : BOOLEAN, len : BOOLEAN]]
    /\ rpc \in {"off", "loop", "held", "ended"} /\ direct \in BOOLEAN /\ pkt \in [n : Numbers, kind : Kinds]
    /\ s_drop_count \in 0 .. EmergencyDrops
    /\ dpc \in {"off", "drain", "process", "backlog", "trim", "sleep", "ended"} /\ queued \in 0 .. Slots
    /\ ui \in {"menu", "starting", "control", "failed", "stream", "stopping", "joined"}
    /\ {me_running, g_dec_running, g_decoder_ready, raced} \subseteq BOOLEAN
    /\ published \in Numbers /\ taken \in Numbers

RingInit ==
    /\ head = 0 /\ tail = 0 /\ slots = [i \in Index |-> Stale]
    /\ rpc = "off" /\ direct = FALSE /\ pkt = Nothing /\ s_drop_count = 0
    /\ dpc = "off" /\ queued = 0
    /\ ui = "menu" /\ me_running = FALSE /\ g_dec_running = FALSE /\ g_decoder_ready = FALSE
    /\ published = 0 /\ taken = 0 /\ raced = FALSE

----------------------------------------------------------------------------
(***************************************************************************)
(* The main thread.                                                        *)
(***************************************************************************)

\* The shared memory is zeroed and the decoder thread started.
StartDecoder ==
    /\ ui = "menu" /\ ui' = "starting"
    /\ head' = 0 /\ tail' = 0 /\ slots' = [i \in Index |-> Stale] /\ published' = 0 /\ taken' = 0 /\ raced' = FALSE
    /\ dpc' = "drain" /\ g_dec_running' = TRUE /\ g_decoder_ready' = TRUE /\ me_running' = TRUE
    /\ UNCHANGED <<receiver, queued>>

\* network_me_init zeroes the ring again and starts the receive thread; without a socket or
\* a thread the stream goes on with none.
StartReceiver(ok) ==
    /\ ui = "starting" /\ ui' = "control"
    /\ head' = 0 /\ tail' = 0 /\ slots' = [i \in Index |-> Stale]
    /\ rpc' = IF ok THEN "loop" ELSE "off"
    /\ me_running' \in (IF ok THEN {TRUE} ELSE {me_running, FALSE})
    /\ direct' = FALSE /\ pkt' = Nothing /\ g_decoder_ready' = TRUE
    /\ UNCHANGED <<s_drop_count, decoder, g_dec_running, published, taken, raced>>

\* control_stream_start comes through, or the session is torn down with both threads running.
ControlStarts ==
    /\ ui = "control" /\ ui' = "stream"
    /\ UNCHANGED <<ring, receiver, decoder, me_running, g_dec_running, g_decoder_ready, published, taken, raced>>
ControlFails ==
    /\ ui = "control" /\ ui' = "failed" /\ g_decoder_ready' = FALSE
    /\ UNCHANGED <<ring, receiver, decoder, me_running, g_dec_running, published, taken, raced>>

\* abort_stream_to_menu up to network_me_shutdown, which joins or kills the receive thread.
StreamEnds ==
    /\ ui \in {"stream", "failed"} /\ ui' = "stopping" /\ me_running' = FALSE
    /\ UNCHANGED <<ring, receiver, decoder, g_dec_running, g_decoder_ready, published, taken, raced>>
JoinReceiver ==
    /\ ui = "stopping" /\ ui' = "joined" /\ me_running' = FALSE
    /\ rpc' = "off" /\ direct' = FALSE /\ pkt' = Nothing
    /\ UNCHANGED <<ring, s_drop_count, decoder, g_dec_running, g_decoder_ready, published, taken, raced>>

\* sw_decoder_thread_shutdown asks the thread to end and joins it.
StopDecoder ==
    /\ ui = "joined" /\ g_dec_running /\ g_dec_running' = FALSE /\ g_decoder_ready' = FALSE
    /\ UNCHANGED <<ring, receiver, decoder, ui, me_running, published, taken, raced>>
JoinDecoder ==
    /\ ui = "joined" /\ ~g_dec_running /\ dpc = "ended" /\ dpc' = "off" /\ ui' = "menu"
    /\ queued' = 0
    /\ UNCHANGED <<ring, receiver, me_running, g_dec_running, g_decoder_ready, published, taken, raced>>

----------------------------------------------------------------------------
(***************************************************************************)
(* network_recv_thread.                                                    *)
(***************************************************************************)

\* A packet is received straight into the free slot at head, or into a scratch buffer when
\* the ring is full.
RecvDirect == Succ(head) # tail
Receive ==
    /\ rpc = "loop" /\ me_running
    /\ \E kind \in Kinds :
        /\ pkt' = [n |-> published, kind |-> kind]
        /\ direct' = RecvDirect
        /\ slots' = IF RecvDirect
                    THEN [slots EXCEPT ![head] = [n |-> published, start |-> IsStart(kind), len |-> FALSE]]
                    ELSE slots
    /\ rpc' = "held"
    /\ UNCHANGED <<head, tail, s_drop_count, decoder, main, published, taken, raced>>

ReceiveEnds ==
    /\ rpc = "loop" /\ ~me_running /\ rpc' = "ended"
    /\ UNCHANGED <<ring, direct, pkt, s_drop_count, decoder, main, published, taken, raced>>

Admitted(p) ==
    /\ p.kind # "audio"
    /\ ~(Used > ParityMark /\ Priority[p.kind] <= 0)
    /\ ~(Used > BodyMark /\ Priority[p.kind] <= 1)

\* The end of the turn: the packet is in the ring or gone.
TurnOver == rpc' = "loop" /\ direct' = FALSE /\ pkt' = Nothing

\* Misrouted audio, and whatever the admission control refuses, is dropped ...
Refuse ==
    /\ rpc = "held" /\ ~Admitted(pkt) /\ TurnOver
    /\ slots' = [slots EXCEPT ![head] = Stale]
    /\ UNCHANGED <<head, tail, s_drop_count, decoder, main, published, taken, raced>>

\* ... and so is a packet for which there is no slot, unless the decoder is believed dead.
Drop ==
    LET drops == IF s_drop_count < EmergencyDrops THEN s_drop_count + 1 ELSE s_drop_count
        flush == drops >= EmergencyDrops /\ ~g_decoder_ready
    IN  /\ rpc = "held" /\ Admitted(pkt) /\ Succ(head) = tail /\ TurnOver
        /\ s_drop_count' = IF flush THEN 0 ELSE drops
        /\ tail' = IF flush THEN head ELSE tail
        /\ taken' = IF flush THEN published ELSE taken
        /\ slots' = [i \in Index |-> IF flush \/ i = head THEN Stale ELSE slots[i]]
        /\ raced' = (raced \/ (flush /\ dpc \in {"process", "trim"}))
    /\ UNCHANGED <<head, decoder, main, published>>

\* A mutant of Publish: the packet becomes visible before its length is written.
PublishEarly ==
    /\ rpc = "held" /\ Admitted(pkt) /\ Succ(head) # tail /\ TurnOver
    /\ slots' = IF direct THEN slots ELSE [slots EXCEPT ![head] = [n |-> pkt.n, start |-> IsStart(pkt.kind), len |-> FALSE]]
    /\ head' = Succ(head) /\ published' = (published + 1) % (2 * Slots)
    /\ UNCHANGED <<tail, s_drop_count, decoder, main, taken, raced>>

\* The length is written, then the packet is made visible and the decoder woken.
Publish ==
    /\ rpc = "held" /\ Admitted(pkt) /\ Succ(head) # tail /\ TurnOver
    /\ slots' = [slots EXCEPT ![head] = [n |-> IF direct THEN @.n ELSE pkt.n,
                                         start |-> IF direct THEN @.start ELSE IsStart(pkt.kind), len |-> TRUE]]
    /\ head' = Succ(head) /\ published' = (published + 1) % (2 * Slots)
    /\ UNCHANGED <<tail, s_drop_count, decoder, main, taken, raced>>

----------------------------------------------------------------------------
(***************************************************************************)
(* sw_decoder_thread.                                                      *)
(***************************************************************************)

\* The slot at tail is handed to FEC and reassembly, which read it for a while ...
TakePacket ==
    /\ dpc = "drain" /\ g_dec_running /\ tail # head /\ dpc' = "process"
    /\ UNCHANGED <<ring, receiver, queued, main, published, taken, raced>>

\* ... and then freed.
FreePacket ==
    /\ dpc = "process" /\ dpc' \in {"drain", "backlog"}
    /\ tail' = Succ(tail) /\ taken' = (taken + 1) % (2 * Slots)
    /\ slots' = [slots EXCEPT ![tail] = Stale]
    /\ UNCHANGED <<head, receiver, queued, main, published, raced>>

\* After a batch the backlog is measured ...
Measure ==
    /\ dpc = "backlog" /\ dpc' = (IF Used > TrimMark THEN "trim" ELSE "drain")
    /\ queued' = IF Used > TrimMark THEN Used ELSE 0
    /\ UNCHANGED <<ring, receiver, main, published, taken, raced>>

\* ... and cut: to a start of frame, to the newest `keep` packets, or to nothing.  head is
\* read again, so packets may have come in since.
KeepsFor(q) ==
    {keep \in 1 .. q - 1 : slots[(head - keep) % Slots].start} \cup {q \div 2, 0}
Trim ==
    /\ dpc = "trim" /\ dpc' = "drain" /\ queued' = 0
    /\ \E keep \in KeepsFor(queued) \cup {Used} :
        /\ tail' = (head - keep) % Slots
        /\ taken' = (published - keep) % (2 * Slots)
        /\ slots' = [i \in Index |-> IF (head - i) % Slots \in 1 .. keep \/ i = head THEN slots[i] ELSE Stale]
    /\ UNCHANGED <<head, receiver, main, published, raced>>

\* Nothing queued: wait for the semaphore, for at most 500 ms.
Sleep ==
    /\ dpc = "drain" /\ g_dec_running /\ tail = head /\ dpc' = "sleep"
    /\ UNCHANGED <<ring, receiver, queued, main, published, taken, raced>>
\* A mutant of Wake: only the shutdown wakes the thread.
WakeToStop ==
    /\ dpc = "sleep" /\ ~g_dec_running /\ dpc' = "drain"
    /\ UNCHANGED <<ring, receiver, queued, main, published, taken, raced>>
Wake ==
    /\ dpc = "sleep" /\ dpc' = "drain"
    /\ UNCHANGED <<ring, receiver, queued, main, published, taken, raced>>

DecoderEnds ==
    /\ dpc = "drain" /\ ~g_dec_running /\ dpc' = "ended"
    /\ UNCHANGED <<ring, receiver, queued, main, published, taken, raced>>

----------------------------------------------------------------------------
Main ==
    \/ StartDecoder \/ \E ok \in BOOLEAN : StartReceiver(ok)
    \/ ControlStarts \/ ControlFails \/ StreamEnds \/ JoinReceiver \/ StopDecoder \/ JoinDecoder
Receiver == Receive \/ ReceiveEnds \/ Refuse \/ Drop \/ Publish
Decoder == TakePacket \/ FreePacket \/ Measure \/ Trim \/ Sleep \/ Wake \/ DecoderEnds
RingNext == Main \/ Receiver \/ Decoder

\* The threads are scheduled; a user may stay in a stream or in the menu.
RingSpec ==
    /\ RingInit /\ [][RingNext]_ringVars
    /\ WF_ringVars(Decoder) /\ WF_ringVars(JoinReceiver \/ StopDecoder \/ JoinDecoder)
    /\ WF_ringVars(Publish) /\ WF_ringVars(Drop) /\ WF_ringVars(Refuse)

----------------------------------------------------------------------------
(***************************************************************************)
(* Properties.                                                             *)
(***************************************************************************)

\* The packets between tail and head are the ones published and not yet taken, each complete
\* and in its place, and the slot the decoder is reading is the oldest of them: neither a
\* direct receive nor a trim nor a restart of the stream disturbs what is queued.
RingIntact ==
    /\ Used = (published - taken) % (2 * Slots)
    /\ \A k \in 0 .. Used - 1 :
        LET s == slots[(tail + k) % Slots] IN s.n = (taken + k) % (2 * Slots) /\ s.len
    /\ dpc = "process" => Used > 0

\* The ring is intact as long as the emergency flush of the receive thread has not moved tail
\* under a decoder that was reading (the flush takes g_decoder_ready for "no decoder").
OneTailWriter == ~raced => RingIntact

\* A full ring is not for ever: the decoder frees a slot or the stream ends.
RingMoves == (Succ(head) = tail) ~> (Succ(head) # tail \/ ui = "menu")
============================================================================
