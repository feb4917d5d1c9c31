------------------------------ MODULE RtpVideo ------------------------------
(***************************************************************************)
(* The video path from the host to the decoder: the host's frames, a        *)
(* network that loses, repeats and reorders packets, the decoder thread     *)
(* with its backlog handling (src/decoder_thread.c) around FEC and          *)
(* reassembly, the watchdogs of the control and UI threads, and the start   *)
(* of another stream.                                                       *)
(***************************************************************************)
EXTENDS RtpFec

CONSTANTS
  MaxFrames,     \* bound: frames sent in one stream
  MaxStreams,    \* bound: streams
  Sizes,         \* bound: data packets of a frame
  Skips,         \* bound: frame numbers the host leaves out
  MaxStalls,     \* bound: stalls of the picture that a watchdog notices
  FirstSeq,      \* sequence number of a stream's first packet
  TrimSpanMax    \* LIVE_TRIM_FRAME_SPAN_MAX

ASSUME VideoAssumption ==
  /\ {MaxFrames, MaxStreams, MaxStalls, TrimSpanMax} \subseteq Nat
  /\ Sizes \subseteq Nat \ {0} /\ Skips \subseteq Nat
  /\ FirstSeq \in 0..65535

VARIABLES
  sent,      \* the frames of the stream, in order; any packet may arrive any time
  streams,   \* how many streams were started
  stalls,    \* how many stalls were noticed
  torn       \* history: a watchdog cleared the decode flag in the middle of the
             \* submission of a frame, since the packet in hand was taken

videoVars == <<asm, fec, callVars, sent, streams, stalls, torn>>

Sent == {sent[k] : k \in 1..Len(sent)}

VideoInit ==
  /\ InitFec
  /\ sent = <<>> /\ streams = 1 /\ stalls = 0 /\ torn = FALSE

-----------------------------------------------------------------------------
(* The host and the network.  A stream starts with an IDR.                  *)

SendFrame(type, n, skip) ==
  LET last == sent[Len(sent)]
      frame == IF sent = <<>>
               THEN [id |-> 1, prev |-> 0, type |-> type, n |-> n, seq |-> FirstSeq]
               ELSE [id |-> last.id + 1 + skip, prev |-> last.id, type |-> type,
                     n |-> n, seq |-> SeqAdd(last.seq, Total(last))]
  IN /\ pc = "idle" /\ Len(sent) < MaxFrames
     /\ sent = <<>> => type = "idr" /\ skip = 0
     /\ sent' = Append(sent, frame)
     /\ UNCHANGED <<asm, fec, callVars, streams, stalls, torn>>

\* The packets of a frame, data and parity.
Packets(f) == {Packet(f, i) : i \in 0..(Total(f) - 1)}

\* The decoder thread takes a packet from the ring.
ReceivePacket ==
  /\ \E f \in Sent : \E p \in Packets(f) : AddPacket(p)
  /\ torn' = FALSE
  /\ UNCHANGED <<sent, streams, stalls>>

FecRuns == FecStep /\ UNCHANGED <<sent, streams, stalls, torn>>

-----------------------------------------------------------------------------
(* Backlog of the packet ring, after the drain loop.                        *)

\* decoder_trim_live_queue: go on with the newest start of frame in the ring.
\* That packet is the next one taken.
TrimLive(f) ==
  LET cleared == [ResetReassembly(asm) EXCEPT !.fec_clean = FALSE, !.out = <<>>,
                                              !.verdict = "none"]
  IN /\ pc = "idle" /\ (Cabac \/ Performance)
     /\ asm.saw_first_idr /\ asm.last_good_frame # 0
     /\ f.id - asm.last_good_frame \in 1..TrimSpanMax
     /\ fec' = EmptyFec
     /\ asm' = IF f.id - asm.last_good_frame > 1
               THEN NoteFrameLoss(cleared, asm.last_good_frame + 1, f.id - 1)
               ELSE cleared
     /\ pkt' = Packet(f, 0) /\ rep' = NoPacket
     /\ IF Protected THEN pc' = "drain" ELSE pc' = "reassemble"
     /\ drain_ret' = "inner" /\ torn' = FALSE
     /\ UNCHANGED <<next, rec_ret, sent, streams, stalls>>

\* decoder_force_live_latency_flush: no usable start of frame in the ring.
LiveFlush ==
  /\ pc = "idle" /\ (Cabac \/ Performance)
  /\ fec' = EmptyFec
  /\ asm' = [LoseReferences(ResetReassembly(asm))
               EXCEPT !.fec_clean = FALSE, !.last_good_frame = 0,
                      !.frame_is_corrupt = FALSE]
  /\ UNCHANGED <<callVars, sent, streams, stalls, torn>>

\* A CAVLC stream drops old packets and keeps its references, or starts over.
DropBacklog ==
  /\ pc = "idle" /\ ~ Cabac /\ ~ Performance
  /\ fec' = EmptyFec
  /\ LET cleared == [ResetReassembly(asm) EXCEPT !.fec_clean = FALSE]
     IN asm' = IF asm.saw_first_idr /\ asm.last_good_frame # 0 THEN cleared
               ELSE [LoseReferences(cleared) EXCEPT !.last_good_frame = 0]
  /\ UNCHANGED <<callVars, sent, streams, stalls, torn>>

-----------------------------------------------------------------------------
(* Other threads.                                                           *)

\* sw_decoder_thread_force_restart on the UI thread.
WatchdogReset ==
  /\ ~ asm.hw_reset_needed
  /\ asm' = [asm EXCEPT !.hw_reset_needed = TRUE]
  /\ UNCHANGED <<fec, callVars, sent, streams, stalls, torn>>

\* The stall watch of the control thread and mode B of the UI thread's.
StallClearsIdr ==
  /\ asm.idr_fully_decoded /\ stalls < MaxStalls
  /\ asm' = ClearIdr(asm)
  /\ stalls' = stalls + 1 /\ torn' = (torn \/ pc = "submit")
  /\ UNCHANGED <<fec, callVars, sent, streams>>

\* Shutdown, and the start of the next stream: FEC is reset, the player opened
\* again, and the control stream forgets the last good frame.
RestartStream ==
  /\ pc = "idle" /\ sent # <<>> /\ streams < MaxStreams
  /\ fec' = EmptyFec
  /\ asm' = [asm EXCEPT !.saw_first_idr = FALSE, !.idr_fully_decoded = FALSE,
               !.hw_reset_needed = FALSE, !.need_idr = TRUE, !.fec_clean = FALSE,
               !.last_good_frame = 0,
               !.out = <<>>, !.verdict = "none", !.last_in = 0]
  /\ sent' = <<>> /\ streams' = streams + 1 /\ torn' = FALSE
  /\ UNCHANGED <<callVars, stalls>>

VideoNext ==
  \/ \E type \in FrameTypes, n \in Sizes, skip \in Skips : SendFrame(type, n, skip)
  \/ ReceivePacket
  \/ FecRuns
  \/ \E f \in Sent : TrimLive(f)
  \/ LiveFlush
  \/ DropBacklog
  \/ WatchdogReset
  \/ StallClearsIdr
  \/ RestartStream

VideoSpec == VideoInit /\ [][VideoNext]_videoVars

-----------------------------------------------------------------------------
(* Properties.                                                              *)

FrameOf(id) == CHOOSE f \in Sent : f.id = id

\* The frame collected and the packets in hand are of the stream, the slots, the
\* deferral window and the assembly buffer are never overrun, and the call is
\* where it can be.
VideoTypeOK ==
  /\ fec.cur \in Sent \cup {NoCurrent}
  /\ IF fec.cur = NoCurrent THEN fec.recv = {}
                            ELSE fec.recv \subseteq 0..(Total(fec.cur) - 1)
  /\ Len(fec.deferred) <= DeferLimit
  /\ pc \in {"idle", "reassemble", "drain", "inner", "transition", "recover",
             "begin", "store", "submit"}
  /\ {pkt, rep} \subseteq (UNION {Packets(f) : f \in Sent}) \cup {NoPacket}
  /\ pc # "idle" => pkt # NoPacket
  /\ asm.verdict \in {"none", "refused", "corrupt", "paused", "failed", "accepted"}
  /\ Len(asm.assembly) <= MaxAssembly

\* What the frame callback is given is one whole frame of the host, in order
\* and without repetition, however its packets were lost, repeated, reordered,
\* deferred or rebuilt: "the reassembled data IS complete", rtp_reassembly.c says
\* of a frame that FEC vouches for.
DeliveredWhole == asm.out = <<>> \/ \E f \in Sent : asm.out = WholeFrame(f)

\* So it is whenever no watchdog clears the decode flag in the middle of a frame.
\* Where one does, the test for frames already decoded, which the frame's first
\* packet has just made pass by repairing the references, skips the packets before
\* the clearing and not the ones after it.
UntornWhole == Protected /\ ~ torn => DeliveredWhole

Accepts == asm'.last_in # asm.last_in /\ asm'.last_in # 0

\* While the references count as good, a predicted frame is only decoded if the
\* frame it follows was decoded: FEC or the reassembler notices every lost frame.
NoOrphan ==
  [][Accepts /\ asm.idr_fully_decoded =>
       LET f == FrameOf(asm'.last_in)
       IN f.type = "pred" => f.prev = asm.last_in]_videoVars

=============================================================================
