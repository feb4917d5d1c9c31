---------------------------- MODULE RtpReassembly ----------------------------
(***************************************************************************)
(* The reassembler (src/rtp_reassembly.c) and what it shares with the frame *)
(* callback of src/decoder_thread.c: packets of a frame are appended to an  *)
(* assembly buffer, a whole frame is handed to the decoder, and after a     *)
(* loss frames are discarded until one arrives that repairs the references. *)
(*                                                                         *)
(* Everything the functions read and write is one record r, and a function  *)
(* is the set of the records it can leave: the clock and the firmware are   *)
(* not under its control.  Requests to the host (control_stream_request_idr, ...)  *)
(* leave nothing behind that these functions read, and are left out.        *)
(***************************************************************************)
EXTENDS Integers, Sequences

CONSTANTS
  Cabac,          \* rtp_is_cabac_mode
  Performance,    \* the mode's performance variant (320x180 or less, 30 fps)
  RfiSpanMax,     \* rtp_rfi_wait_ref_span_max
  RfiMaxDrops,    \* rtp_rfi_wait_max_drops
  MassiveJump,    \* 100 frame numbers
  ContigSkipMax,  \* CABAC_PERF_CONTIG_FRAME_SKIP_MAX
  GapFrames,      \* consecutive gapped frames that condemn the references
  MaxAssembly     \* MAX_ASSEMBLY_SIZE, in packets

ASSUME ReassemblyAssumption ==
  /\ Cabac \in BOOLEAN /\ Performance \in BOOLEAN
  /\ {RfiSpanMax, RfiMaxDrops, MassiveJump, ContigSkipMax, GapFrames} \subseteq Nat
  /\ MaxAssembly \in Nat \ {0}

\* 0xFFFFFFFF: no frame yet.  Frame numbers start at 1.
NoFrame == -1

\* RTP sequence numbers are 16 bits wide.
SeqAdd(s, n) == (s + n) % 65536

(***************************************************************************)
(* A frame as the host sends it: its number, the number of the frame sent   *)
(* before it, whether it is an IDR, a frame that avoids invalidated         *)
(* references (types 4 and 5 of the header) or an ordinary predicted frame, *)
(* its number of data packets and the sequence number of the first one.     *)
(***************************************************************************)
FrameTypes == {"idr", "recovery", "pred"}

Packet(f, i) == [frame |-> f, index |-> i]
Seq16(p) == SeqAdd(p.frame.seq, p.index)
IsSof(p) == p.index = 0
IsEof(p) == p.index + 1 = p.frame.n
IsSync(p) == p.frame.type = "idr"
IsRefRecovery(p) == p.frame.type \in {"idr", "recovery"}

\* All data packets of a frame, in order: what the decoder must be given.
WholeFrame(f) == [j \in 1..f.n |-> Packet(f, j - 1)]

(***************************************************************************)
(* The file's variables, the shared decode flags, and the history of what   *)
(* the decoder was given: `out`, the buffer of the last callback, `verdict`,*)
(* what the callback did with it, and `last_in`, the number of the last     *)
(* frame the firmware accepted.                                             *)
(***************************************************************************)
ResetReassembly(r) ==
  [r EXCEPT !.assembly = <<>>, !.current_frame_id = NoFrame,
            !.last_seen_frame_id = NoFrame, !.expected_seq = 0,
            !.reassembling = FALSE, !.had_gaps = FALSE, !.overflow = FALSE,
            !.saw_first_sof = FALSE, !.consec_gap_frames = 0,
            !.waiting_rfi = FALSE, !.inval_start = 0, !.inval_end = 0,
            !.rfi_drops = 0, !.waiting_idr = FALSE, !.idr_recovery = FALSE]

InitReassembly ==
  [assembly |-> <<>>, current_frame_id |-> NoFrame,
   last_seen_frame_id |-> NoFrame, expected_seq |-> 0,
   reassembling |-> FALSE, had_gaps |-> FALSE, overflow |-> FALSE,
   saw_first_sof |-> FALSE, consec_gap_frames |-> 0,
   waiting_rfi |-> FALSE, inval_start |-> 0, inval_end |-> 0, rfi_drops |-> 0,
   waiting_idr |-> FALSE, idr_recovery |-> FALSE,
   refs_corrupted |-> FALSE, idr_fully_decoded |-> FALSE,
   frame_is_corrupt |-> FALSE, fec_clean |-> FALSE, last_good_frame |-> 0,
   saw_first_idr |-> FALSE, hw_reset_needed |-> FALSE, need_idr |-> TRUE,
   out |-> <<>>, verdict |-> "none", last_in |-> 0]

------------------------------------------------------------------------------
(* Waits: rtp_mark_waiting_for_ref_inval, rtp_start_idr_wait and their      *)
(* clearing.  The lost range of an IDR wait is only logged.                 *)

ClearRfiWait(r) ==
  [r EXCEPT !.waiting_rfi = FALSE, !.inval_start = 0, !.inval_end = 0,
            !.rfi_drops = 0]

StartIdrWait(r) ==
  [ClearRfiWait(r) EXCEPT !.waiting_idr = TRUE, !.refs_corrupted = TRUE,
                          !.idr_fully_decoded = FALSE]

Least(a, b) == IF a < b THEN a ELSE b
Greatest(a, b) == IF a > b THEN a ELSE b

\* rtp_rfi_span_exceeds_window
SpanExceeds(from, to) ==
  /\ Cabac \/ ~ Performance
  /\ to - from + 1 > RfiSpanMax

MarkWaitingForRefInval(r, start, end) ==
  LET from == IF end < start THEN end ELSE start
      lo == IF r.waiting_rfi THEN Least(from, r.inval_start) ELSE from
      hi == IF r.waiting_rfi THEN Greatest(end, r.inval_end) ELSE end
  IN IF (SpanExceeds(from, end) \/ SpanExceeds(lo, hi)) /\ r.last_good_frame # 0
     THEN StartIdrWait(r)
     ELSE [r EXCEPT !.waiting_rfi = TRUE, !.inval_start = lo, !.inval_end = hi,
                    !.rfi_drops = IF r.waiting_rfi THEN @ ELSE 0]

\* rtp_reassembly_note_frame_loss
NoteFrameLoss(r, start, end) ==
  IF r.waiting_idr THEN r
  ELSE IF (r.refs_corrupted \/ ~ r.idr_fully_decoded) /\ r.last_good_frame = 0
  THEN StartIdrWait(r)
  ELSE MarkWaitingForRefInval(r, start, end)

------------------------------------------------------------------------------
(* The frame callback (decoder_thread.c) for the frame in the buffer, and   *)
(* rtp_advance_decoded_frame.  The firmware may fail any call; it is        *)
(* modelled in detail in AvcPlayer.                                         *)

Accept(r, f) ==
  LET d == [r EXCEPT !.last_in = f.id, !.verdict = "accepted",
                     !.need_idr = FALSE,
                     !.saw_first_idr = @ \/ f.type = "idr",
                     !.idr_fully_decoded = @ \/ f.type = "idr"]
  IN IF d.idr_fully_decoded /\ ~ d.frame_is_corrupt /\ d.last_good_frame < f.id
     THEN [d EXCEPT !.last_good_frame = f.id] ELSE d

\* References are lost; the next IDR restores them.
LoseReferences(r) ==
  [r EXCEPT !.refs_corrupted = TRUE, !.saw_first_idr = FALSE,
            !.idr_fully_decoded = FALSE]

\* psp_avc_player_decode and the handling of its result: a failure; an IDR is
\* wanted; accepted; or the first IDR asks for another profile, which opens
\* the session again.
SubmitToFirmware(r, f) ==
  {[r EXCEPT !.hw_reset_needed = TRUE, !.verdict = "failed"]}
  \cup IF r.need_idr /\ f.type # "idr" THEN {r}
       ELSE {Accept(r, f)}
            \cup IF f.type = "idr" /\ r.last_in = 0
                 THEN {[LoseReferences(r) EXCEPT !.need_idr = TRUE]} ELSE {}

\* g_decode_paused is set by the UI thread at any time.
FrameCallback(r, f) ==
  LET fresh == IF r.refs_corrupted
               THEN [r EXCEPT !.refs_corrupted = FALSE, !.saw_first_idr = FALSE,
                              !.idr_fully_decoded = FALSE]
               ELSE r
      reopened == [fresh EXCEPT !.hw_reset_needed = FALSE, !.need_idr = TRUE,
                                !.refs_corrupted = FALSE,
                                !.idr_fully_decoded = FALSE]
      paused == [r EXCEPT !.hw_reset_needed = TRUE, !.verdict = "paused"]
  IN IF r.frame_is_corrupt THEN {[LoseReferences(r) EXCEPT !.verdict = "corrupt"]}
     ELSE {paused} \cup
          IF (r.refs_corrupted \/ r.hw_reset_needed) /\ f.type # "idr" THEN {r}
          ELSE IF r.hw_reset_needed
          THEN {[fresh EXCEPT !.verdict = "failed"]} \cup SubmitToFirmware(reopened, f)
          ELSE SubmitToFirmware(fresh, f)

------------------------------------------------------------------------------
(* rtp_reassembly_process_packet, in the order of the code.                 *)

\* A frame at or before the newest decoded one, once an IDR is decoded.
IsDuplicate(r, id) ==
  r.idr_fully_decoded /\ r.last_good_frame # 0 /\ id <= r.last_good_frame

\* How far the frame number moved, and whether packets are missing before it.
FrameDelta(r, id) ==
  IF r.last_seen_frame_id = NoFrame THEN 0 ELSE id - r.last_seen_frame_id

SeqGapAtBoundary(r, p) ==
  /\ r.current_frame_id \notin {p.frame.id, NoFrame}
  /\ Seq16(p) # r.expected_seq

Waiting(r) == r.waiting_idr \/ r.waiting_rfi

\* Everything before the start-of-frame test: the jump, the switch to
\* another frame (a partial one is dropped) and the sequence test.
ArrivePacket(r, p) ==
  LET id == p.frame.id
      jumped == IF /\ FrameDelta(r, id) > MassiveJump
                   /\ SeqGapAtBoundary(r, p) /\ ~ Waiting(r)
                THEN MarkWaitingForRefInval(r, r.last_seen_frame_id + 1, id)
                ELSE r
      seen == [jumped EXCEPT !.last_seen_frame_id = Greatest(id, @)]
      switched == IF id = r.current_frame_id THEN seen
                  ELSE [seen EXCEPT !.assembly = <<>>, !.current_frame_id = id,
                                    !.reassembling = FALSE, !.had_gaps = FALSE,
                                    !.overflow = FALSE, !.saw_first_sof = FALSE,
                                    !.expected_seq = Seq16(p)]
  IN [switched EXCEPT !.had_gaps = @ \/ Seq16(p) # switched.expected_seq,
                      !.expected_seq = SeqAdd(Seq16(p), 1)]

\* Mutant: a skipped number is taken for pacing without looking at the sequence.
HandleFrameGapTrusting(r, p, delta, seqGap, prev) ==
  IF \/ delta <= 1 \/ Waiting(r) \/ ~ r.idr_fully_decoded \/ r.last_good_frame = 0
     \/ IsRefRecovery(p) \/ (Performance /\ delta - 1 <= ContigSkipMax)
  THEN r ELSE MarkWaitingForRefInval(r, prev + 1, p.frame.id - 1)

\* A jump of the frame number found at a frame's first packet.
HandleFrameGap(r, p, delta, seqGap, prev) ==
  LET wait == MarkWaitingForRefInval(r, prev + 1, p.frame.id - 1)
  IN IF delta <= 1 \/ Waiting(r) \/ ~ r.idr_fully_decoded \/ r.last_good_frame = 0
     THEN r
     ELSE IF Cabac /\ Performance /\ ~ seqGap /\ delta - 1 <= ContigSkipMax THEN r
     ELSE IF Cabac /\ ~ IsRefRecovery(p) THEN wait
     ELSE IF ~ seqGap \/ IsRefRecovery(p) THEN r
     ELSE wait

\* The frame is not wanted: nothing of it is kept.
Discard(r) ==
  [r EXCEPT !.reassembling = FALSE, !.assembly = <<>>, !.saw_first_sof = FALSE,
            !.fec_clean = FALSE]

\* While waiting for a frame that avoids the lost references.  The wait is
\* given up after RfiMaxDrops frames, once enough time has passed; the count
\* is only compared with that bound and saturates there.
AwaitRecoveryFrame(r, p) ==
  LET d == [r EXCEPT !.rfi_drops = Least(@ + 1, RfiMaxDrops),
                     !.inval_end = Greatest(p.frame.id, @)]
      repaired == [ClearRfiWait(r) EXCEPT !.refs_corrupted = FALSE,
                                          !.idr_fully_decoded = TRUE]
  IN IF IsRefRecovery(p) THEN {repaired}
     ELSE IF SpanExceeds(d.inval_start, d.inval_end)
     THEN {Discard(StartIdrWait(d))}
     ELSE {Discard(d)}
          \cup IF d.rfi_drops < RfiMaxDrops THEN {}
               ELSE IF Cabac THEN {Discard(StartIdrWait(d))}
               ELSE {repaired}

\* The first packet of a frame: may its frame be decoded at all?
StartFrame(r, p, delta, seqGap, prev) ==
  LET begun == [r EXCEPT !.reassembling = TRUE, !.assembly = <<>>,
                         !.saw_first_sof = TRUE, !.overflow = FALSE,
                         !.idr_recovery = FALSE]
      gap == HandleFrameGap(begun, p, delta, seqGap, prev)
      s == IF gap.refs_corrupted /\ ~ gap.waiting_idr THEN StartIdrWait(gap) ELSE gap
  IN IF s.waiting_idr
     THEN IF IsSync(p)
          THEN {[s EXCEPT !.waiting_idr = FALSE, !.idr_recovery = TRUE]}
          ELSE {Discard(s)}
     ELSE IF s.waiting_rfi THEN AwaitRecoveryFrame(s, p)
     ELSE {s}

\* A frame with holes is dropped before the decoder sees it.
DropGappedFrame(r, f) ==
  LET g == [r EXCEPT !.consec_gap_frames = Least(@ + 1, GapFrames),
                     !.frame_is_corrupt = FALSE]
      w == MarkWaitingForRefInval(g, g.last_good_frame + 1, f.id)
  IN IF g.last_good_frame = 0 THEN [g EXCEPT !.idr_fully_decoded = FALSE]
     ELSE IF g.idr_recovery THEN StartIdrWait(g)
     ELSE IF g.consec_gap_frames >= GapFrames
     THEN [w EXCEPT !.refs_corrupted = TRUE, !.idr_fully_decoded = FALSE]
     ELSE w

\* The last packet of a frame arrived.
CompleteFrame(r, f) ==
  LET done(s) == [s EXCEPT !.reassembling = FALSE, !.assembly = <<>>,
                           !.overflow = FALSE, !.fec_clean = FALSE]
      clean == [r EXCEPT !.consec_gap_frames = 0, !.idr_recovery = FALSE,
                         !.frame_is_corrupt = @ /\ ~ r.had_gaps,
                         !.fec_clean = FALSE, !.out = r.assembly,
                         !.verdict = "refused"]
  IN IF r.overflow
     THEN {[done(r) EXCEPT !.refs_corrupted = TRUE, !.frame_is_corrupt = TRUE,
                           !.idr_fully_decoded = FALSE, !.consec_gap_frames = 0]}
     ELSE IF r.had_gaps /\ ~ r.fec_clean
     THEN {[done(DropGappedFrame(r, f)) EXCEPT !.idr_recovery = FALSE]}
     ELSE {done(s) : s \in FrameCallback(clean, f)}

\* append_to_frame, and delivery at the end of the frame.
AppendPacket(r, p) ==
  LET a == IF Len(r.assembly) >= MaxAssembly THEN [r EXCEPT !.overflow = TRUE]
           ELSE [r EXCEPT !.assembly = Append(@, p)]
  IN IF ~ r.reassembling THEN {r}
     ELSE IF IsEof(p) THEN CompleteFrame(a, p.frame)
     ELSE {a}

ProcessPacket(r, p) ==
  LET a == ArrivePacket(r, p)
      delta == FrameDelta(r, p.frame.id)
      seqGap == SeqGapAtBoundary(r, p)
  IN IF IsDuplicate(r, p.frame.id) THEN {r}
     ELSE IF ~ IsSof(p) THEN AppendPacket(a, p)
     ELSE IF a.saw_first_sof THEN {a}
     ELSE UNION {AppendPacket(s, p) :
                 s \in StartFrame(a, p, delta, seqGap, r.last_seen_frame_id)}

------------------------------------------------------------------------------
(* What the FEC layer calls around a frame it submits.                      *)

\* rtp_reassembly_prepare_fec_frame
PrepareFecFrame(r, id) ==
  IF r.current_frame_id # id THEN r
  ELSE [r EXCEPT !.assembly = <<>>, !.reassembling = FALSE, !.had_gaps = FALSE,
                 !.overflow = FALSE, !.saw_first_sof = FALSE, !.expected_seq = 0]

\* rtp_reassembly_note_fec_frame_complete
NoteFecFrameComplete(r, seq) == [r EXCEPT !.expected_seq = seq]
=============================================================================
