------------------------------- MODULE RtpFec -------------------------------
(***************************************************************************)
(* Forward error correction (src/rtp_fec.c): the packets of one frame are   *)
(* collected, lost data packets are rebuilt from parity, and a frame that   *)
(* is complete is submitted to the reassembler packet by packet.  A CABAC   *)
(* stream does not give an incomplete frame up at the first packet of the   *)
(* next one: that packet is deferred and replayed later.                    *)
(*                                                                         *)
(* rtp_fec_add_packet and what it calls are one thread; pc is where it is.  *)
(* The watchdogs of other threads write some of the reassembler's flags     *)
(* between two steps (RtpVideo).  Frames have one FEC block.  The           *)
(* Reed-Solomon arithmetic of rs.c is abstract: as many packets as data     *)
(* packets rebuild the frame, or the library or the validation of what it   *)
(* rebuilt refuses.                                                         *)
(***************************************************************************)
EXTENDS RtpReassembly, FiniteSets

CONSTANTS
  Protected,      \* packets carry FEC information; a raw stream bypasses FEC
  Parity,         \* parity packets per frame
  DeferLimit,     \* CABAC_DEFERRED_PACKET_LIMIT
  JunkJump,       \* 1000 frame numbers
  UnrecLimit,     \* UNRECOVERABLE_IDR_THRESHOLD
  Catastrophe,    \* CATASTROPHIC_LOSS_THRESHOLD * 2
  DropLimit,      \* CONSECUTIVE_DROP_IDR_LIMIT
  RsMayFail       \* does reconstruction or its validation ever fail?

ASSUME FecAssumption ==
  /\ Protected \in BOOLEAN /\ RsMayFail \in BOOLEAN
  /\ {Parity, DeferLimit, JunkJump} \subseteq Nat
  /\ Protected \/ Parity = 0
  /\ {UnrecLimit, Catastrophe, DropLimit} \subseteq Nat \ {0}

VARIABLES
  asm,         \* the reassembler's record (RtpReassembly)
  fec,         \* the frame being collected, and what is deferred
  pc,          \* where rtp_fec_add_packet is
  pkt,         \* its packet
  rep,         \* the deferred packet being replayed, or NoPacket
  next,        \* the next data packet to submit
  drain_ret,   \* where drain_deferred_cabac_packets returns to
  rec_ret      \* where attempt_recovery_and_submit returns to

callVars == <<pc, pkt, rep, next, drain_ret, rec_ret>>

NoPacket == [none |-> TRUE]
NoCurrent == [id |-> NoFrame]

\* rtp_fec_reset
EmptyFec == [cur |-> NoCurrent, recv |-> {}, submitted |-> FALSE,
             deferred |-> <<>>, unrec |-> 0, drops |-> 0]

InitFec ==
  /\ asm = InitReassembly /\ fec = EmptyFec
  /\ pc = "idle" /\ pkt = NoPacket /\ rep = NoPacket /\ next = 0
  /\ drain_ret = "end" /\ rec_ret = "return"

Total(f) == f.n + Parity
DataOf(f) == 0..(f.n - 1)
Missing == DataOf(fec.cur) \ fec.recv

\* The packet that the running rtp_fec_add_packet_inner works on; a replayed
\* one is not deferred again.
Cur == IF rep = NoPacket THEN pkt ELSE rep
AllowDefer == rep = NoPacket

\* A return from rtp_fec_add_packet_inner goes on draining.
Return ==
  /\ pc' = "drain" /\ rep' = NoPacket
  /\ drain_ret' = IF rep = NoPacket THEN "end" ELSE drain_ret

-----------------------------------------------------------------------------
(* rtp_fec_add_packet, and the decoder thread's fallback for what FEC does  *)
(* not consume.                                                             *)

AddPacket(p) ==
  /\ pc = "idle"
  /\ pkt' = p /\ rep' = NoPacket
  /\ asm' = [asm EXCEPT !.out = <<>>, !.verdict = "none"]
  /\ IF Protected THEN pc' = "drain" ELSE pc' = "reassemble"
  /\ drain_ret' = "inner"
  /\ UNCHANGED <<fec, next, rec_ret>>

\* A packet without FEC information is not consumed.
ReassembleRaw ==
  /\ pc = "reassemble"
  /\ asm' \in ProcessPacket(asm, pkt)
  /\ pc' = "idle" /\ pkt' = NoPacket
  /\ UNCHANGED <<fec, rep, next, drain_ret, rec_ret>>

\* drain_deferred_cabac_packets: packets of a frame that is already submitted
\* are dropped; the others are replayed once the frame before them is done.
DropSubmittedDeferred ==
  /\ pc = "drain" /\ fec.deferred # <<>>
  /\ fec.submitted /\ Head(fec.deferred).frame = fec.cur
  /\ fec' = [fec EXCEPT !.deferred = Tail(@)]
  /\ UNCHANGED <<asm, callVars>>

CanReplay ==
  /\ fec.deferred # <<>>
  /\ fec.cur = NoCurrent \/ fec.submitted \/ Head(fec.deferred).frame = fec.cur

ReplayDeferred ==
  /\ pc = "drain" /\ CanReplay
  /\ ~ (fec.submitted /\ Head(fec.deferred).frame = fec.cur)
  /\ rep' = Head(fec.deferred)
  /\ fec' = [fec EXCEPT !.deferred = Tail(@)]
  /\ pc' = "inner"
  /\ UNCHANGED <<asm, pkt, next, drain_ret, rec_ret>>

EndDrain ==
  /\ pc = "drain" /\ ~ CanReplay
  /\ IF drain_ret = "end" THEN pc' = "idle" /\ pkt' = NoPacket
                          ELSE pc' = drain_ret /\ UNCHANGED pkt
  /\ UNCHANGED <<asm, fec, rep, next, drain_ret, rec_ret>>

-----------------------------------------------------------------------------
(* rtp_fec_add_packet_inner.                                                *)

\* Packets of earlier frames, and wild frame numbers, are consumed.
IsStale(p) ==
  /\ fec.cur # NoCurrent
  /\ \/ p.frame.id < fec.cur.id
     \/ p.frame.id - fec.cur.id > JunkJump

ConsumeStale ==
  /\ pc = "inner" /\ IsStale(Cur)
  /\ Return
  /\ UNCHANGED <<asm, fec, pkt, next, rec_ret>>

\* The frame transition; it is repeated after the deferred packets are drained.
AtTransition == pc = "transition" \/ (pc = "inner" /\ ~ IsStale(Cur))

\* current_frame_needs_cabac_defer
NeedsDefer ==
  /\ Cabac /\ fec.cur # NoCurrent /\ ~ fec.submitted /\ fec.recv # {}
  /\ Missing # {}
  /\ \/ Cardinality(fec.recv) < fec.cur.n
     \/ Cardinality(fec.recv \ DataOf(fec.cur)) < Cardinality(Missing)

\* defer_cabac_newer_packet
MayDefer(p) ==
  /\ p.frame.id - fec.cur.id = 1
  /\ Len(fec.deferred) < DeferLimit

SameFrame ==
  /\ AtTransition /\ Cur.frame = fec.cur
  /\ pc' = "store"
  /\ UNCHANGED <<asm, fec, pkt, rep, next, drain_ret, rec_ret>>

DeferNewer ==
  /\ AtTransition /\ AllowDefer /\ Cur.frame.id > fec.cur.id
  /\ NeedsDefer /\ MayDefer(Cur)
  /\ fec' = [fec EXCEPT !.deferred = Append(@, Cur)]
  /\ Return
  /\ UNCHANGED <<asm, pkt, next, rec_ret>>

\* The window is full: the old frame is finished, the deferred packets are
\* replayed, and the packet is looked at again.
DeferRefused ==
  /\ AtTransition /\ AllowDefer /\ Cur.frame.id > fec.cur.id
  /\ NeedsDefer /\ ~ MayDefer(Cur)
  /\ pc' = "recover" /\ rec_ret' = "redrain"
  /\ UNCHANGED <<asm, fec, pkt, rep, next, drain_ret>>

LeaveFrame ==
  /\ AtTransition /\ Cur.frame # fec.cur /\ ~ (AllowDefer /\ NeedsDefer)
  /\ IF fec.cur # NoCurrent /\ ~ fec.submitted /\ fec.recv # {}
     THEN pc' = "recover" /\ rec_ret' = "begin"
     ELSE pc' = "begin" /\ UNCHANGED rec_ret
  /\ UNCHANGED <<asm, fec, pkt, rep, next, drain_ret>>

BeginFrame ==
  /\ pc = "begin"
  /\ fec' = [fec EXCEPT !.cur = Cur.frame, !.recv = {}, !.submitted = FALSE]
  /\ pc' = "store"
  /\ UNCHANGED <<asm, pkt, rep, next, drain_ret, rec_ret>>

\* Early submission only when the data side is complete.
StorePacket ==
  /\ pc = "store"
  /\ fec' = [fec EXCEPT !.recv = @ \cup {Cur.index}]
  /\ IF ~ fec.submitted /\ DataOf(fec.cur) \subseteq fec'.recv
     THEN /\ pc' = "recover" /\ rec_ret' = "return"
          /\ UNCHANGED <<rep, drain_ret>>
     ELSE Return /\ UNCHANGED rec_ret
  /\ UNCHANGED <<asm, pkt, next>>

-----------------------------------------------------------------------------
(* attempt_recovery_and_submit and submit_frame_packets.                    *)

AfterRecovery ==
  IF rec_ret = "return" THEN Return
  ELSE IF rec_ret = "begin" THEN pc' = "begin" /\ UNCHANGED <<rep, drain_ret>>
  ELSE pc' = "drain" /\ drain_ret' = "transition" /\ UNCHANGED rep

\* note_current_frame_drop_for_recovery
NoteDrop(r) ==
  IF r.last_good_frame = 0 THEN r ELSE NoteFrameLoss(r, fec.cur.id, fec.cur.id)

ClearIdr(r) == [r EXCEPT !.idr_fully_decoded = FALSE]

StartSubmit ==
  /\ asm' = PrepareFecFrame([asm EXCEPT !.fec_clean = TRUE], fec.cur.id)
  /\ pc' = "submit" /\ next' = 0
  /\ UNCHANGED <<pkt, rep, drain_ret, rec_ret>>

SubmitComplete ==
  /\ pc = "recover" /\ Missing = {}
  /\ fec' = [fec EXCEPT !.unrec = 0, !.drops = 0]
  /\ StartSubmit

\* Too few packets: the frame is dropped.  After several such frames in a
\* row, or one with many holes, the references are given up.
DropUnrecoverable ==
  LET unrec == fec.unrec + 1
      drops == fec.drops + 1
      noted == NoteDrop(asm)
      hopeless == unrec >= UnrecLimit \/ Cardinality(Missing) >= Catastrophe
      After(u, d) == fec' = [fec EXCEPT !.unrec = u, !.drops = d, !.submitted = TRUE]
  IN /\ pc = "recover" /\ Missing # {} /\ Cardinality(fec.recv) < fec.cur.n
     /\ \/ /\ noted.last_good_frame = 0
           /\ asm' = ClearIdr(noted) /\ After(0, drops)
        \/ /\ noted.last_good_frame # 0 /\ noted.refs_corrupted
           /\ IF hopeless THEN asm' = ClearIdr(noted) /\ After(0, drops)
                          ELSE asm' = noted /\ After(unrec, drops)
        \/ /\ noted.last_good_frame # 0 /\ ~ noted.refs_corrupted
           /\ IF drops >= DropLimit THEN asm' = ClearIdr(noted) /\ After(0, 0)
              ELSE /\ After(unrec, drops)
                   /\ asm' = IF hopeless
                             THEN NoteFrameLoss([noted EXCEPT !.refs_corrupted = TRUE,
                                                   !.idr_fully_decoded = FALSE],
                                                noted.last_good_frame + 1, fec.cur.id)
                             ELSE noted
     /\ AfterRecovery
     /\ UNCHANGED <<pkt, next, rec_ret>>

\* Mutant: the rebuilt packets are not put into their slots.
RebuildFrameKeepsHoles ==
  /\ pc = "recover" /\ Missing # {} /\ Cardinality(fec.recv) >= fec.cur.n
  /\ fec' = [fec EXCEPT !.unrec = 0, !.drops = 0]
  /\ StartSubmit

RebuildFrame ==
  /\ pc = "recover" /\ Missing # {} /\ Cardinality(fec.recv) >= fec.cur.n
  /\ fec' = [fec EXCEPT !.unrec = 0, !.drops = 0, !.recv = @ \cup DataOf(fec.cur)]
  /\ StartSubmit

\* The library fails, which condemns the references, or a rebuilt packet is
\* not plausible; then drop_current_frame_strict.
DropStrict ==
  LET corrupt == [asm EXCEPT !.refs_corrupted = TRUE, !.frame_is_corrupt = TRUE,
                             !.idr_fully_decoded = FALSE]
  IN /\ RsMayFail
     /\ pc = "recover" /\ Missing # {} /\ Cardinality(fec.recv) >= fec.cur.n
     /\ \E r \in {asm, corrupt} :
          LET noted == NoteDrop([r EXCEPT !.fec_clean = FALSE])
          IN asm' = IF noted.last_good_frame = 0 \/ noted.refs_corrupted \/ 1 >= DropLimit
                    THEN ClearIdr(noted) ELSE noted
     /\ fec' = [fec EXCEPT !.unrec = 0, !.drops = 1 % DropLimit, !.submitted = TRUE]
     /\ AfterRecovery
     /\ UNCHANGED <<pkt, next, rec_ret>>

\* Slot `next` of the frame; an empty one is skipped.
SubmitSlot ==
  IF next \in fec.recv THEN ProcessPacket(asm, Packet(fec.cur, next)) ELSE {asm}

SubmitPacket ==
  /\ pc = "submit" /\ next + 1 < fec.cur.n
  /\ asm' \in SubmitSlot
  /\ next' = next + 1
  /\ UNCHANGED <<fec, pc, pkt, rep, drain_ret, rec_ret>>

SubmitLastPacket ==
  /\ pc = "submit" /\ next + 1 = fec.cur.n
  /\ \E r \in SubmitSlot :
       asm' = NoteFecFrameComplete(r, SeqAdd(fec.cur.seq, Total(fec.cur)))
  /\ fec' = [fec EXCEPT !.submitted = TRUE]
  /\ next' = 0
  /\ AfterRecovery
  /\ UNCHANGED <<pkt, rec_ret>>

FecStep ==
  \/ ReassembleRaw
  \/ DropSubmittedDeferred \/ ReplayDeferred \/ EndDrain
  \/ ConsumeStale
  \/ SameFrame \/ DeferNewer \/ DeferRefused \/ LeaveFrame
  \/ BeginFrame \/ StorePacket
  \/ SubmitComplete \/ DropUnrecoverable \/ RebuildFrame \/ DropStrict
  \/ SubmitPacket \/ SubmitLastPacket
=============================================================================
