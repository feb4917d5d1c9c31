------------------------------ MODULE AvcPlayer ------------------------------
(***************************************************************************)
(* The hardware AVC player and the two threads that share it.               *)
(*                                                                         *)
(* The decoder thread (src/decoder_thread.c) drains packets; each packet    *)
(* may complete several access units, and each of those runs                *)
(* rtp_frame_complete_callback, which resets or feeds the player            *)
(* (src/psp_avc_player.c).  The UI thread (src/main.c, src/display_gpu.c)   *)
(* takes the newest picture, draws it, keeps the one on screen, switches    *)
(* the firmware profile, and opens and closes the player around a stream.   *)
(*                                                                         *)
(* A step is what happens between two points at which the other thread can  *)
(* see a difference: one critical section of the player's semaphore, one    *)
(* write of a volatile flag, or the return of a firmware call.              *)
(*                                                                         *)
(* pixels, last_seq and frame_seq are history: which picture the memory of  *)
(* a slot holds (0: partly written), and the sequence number under which    *)
(* the presenter took the slot it shows or is about to show.                *)
(***************************************************************************)
EXTENDS AvcFrameSlots, AvcBackend

CONSTANTS MaxSeq,     \* bound on output_sequence, a u32 in the code
          MaxBurst,   \* access units one packet may complete
          FlushFails  \* may sceMpegFlushAllStream return an error?

ASSUME BoundsAssumption == MaxSeq \in Nat /\ MaxBurst \in Nat \ {0}
ASSUME FlushAssumption == FlushFails \in BOOLEAN

VARIABLES
  backend, sema, pool, output_sequence,                       \* the player
  profile_change_pending, profile_change_target, profile_decode_active,
  dpc, burst, au, reserved, result, count,                    \* decoder thread
  refs_corrupted, reset_needed,
  mpc, frame, previous, owned, last_frame,                    \* UI thread
  pixels, frame_seq, last_seq, delivered                      \* history

playerVars == <<backend, sema, pool, output_sequence, profile_change_pending,
                profile_change_target, profile_decode_active>>
decoderVars == <<dpc, burst, au, reserved, result, count,
                 refs_corrupted, reset_needed>>
presenterVars == <<frame, previous, owned, last_frame, frame_seq, last_seq>>
vars == <<slotVars, playerVars, decoderVars, presenterVars, mpc, pixels, delivered>>

COPY == -2     \* s_last_frame_copy, the HUD's own texture

DecoderStates == {"off", "drain", "burst", "resetting", "reset", "enter",
                  "reserving", "reserved", "decoding", "decoded", "published"}
MainStates == {"menu", "reclose", "reopen", "loop", "taken", "shown", "prevdone",
               "switching", "stopping", "release", "closing", "exiting",
               "halted", "exited"}

\* States of the decoder in which the three reserved slots belong to it.
Writing == {"reserved", "decoding", "decoded"}

TypeOK ==
  /\ SlotsTypeOK
  /\ backend \in Backends
  /\ sema \in BOOLEAN /\ pool \in BOOLEAN
  /\ output_sequence \in 0..MaxSeq
  /\ profile_change_pending \in BOOLEAN
  /\ profile_change_target \in Profiles
  /\ profile_decode_active \in BOOLEAN
  /\ dpc \in DecoderStates
  /\ burst \in 0..MaxBurst
  /\ au \in AccessUnits
  /\ reserved \in Triple
  /\ result \in Results
  /\ count \in 0..3
  /\ refs_corrupted \in BOOLEAN /\ reset_needed \in BOOLEAN
  /\ mpc \in MainStates
  /\ frame \in Slots \cup {NoSlot}
  /\ previous \in Slots \cup {NoSlot}
  /\ owned \in Slots \cup {NoSlot}
  /\ last_frame \in Slots \cup {NoSlot, COPY}
  /\ pixels \in [Slots -> 0..MaxSeq]
  /\ frame_seq \in Nat /\ last_seq \in Nat /\ delivered \in Nat

NoAu == [valid |-> FALSE, slice |-> "none", par |-> "none"]
NoTriple == [i \in 1..3 |-> 0]

Init ==
  /\ SlotsInit
  /\ backend = Closed /\ sema = FALSE /\ pool = FALSE /\ output_sequence = 0
  /\ profile_change_pending = FALSE /\ profile_change_target = "base"
  /\ profile_decode_active = FALSE
  /\ dpc = "off" /\ burst = 0 /\ au = NoAu /\ reserved = NoTriple
  /\ result = OK /\ count = 0
  /\ refs_corrupted = FALSE /\ reset_needed = FALSE
  /\ mpc = "menu" /\ frame = NoSlot /\ previous = NoSlot /\ owned = NoSlot
  /\ last_frame = NoSlot
  /\ pixels = [s \in Slots |-> 0]
  /\ frame_seq = 0 /\ last_seq = 0 /\ delivered = 0

FramesIdle == sema => FreeSlots = Slots
IsReady == sema /\ pool /\ backend.avcc /\ ~ backend.failed /\ backend.ready
BackendOwns == backend.avcc \/ backend.res
IsOpen == sema \/ pool \/ BackendOwns

-----------------------------------------------------------------------------
(***************************************************************************)
(* The decoder thread.                                                      *)
(***************************************************************************)
Streaming == mpc \in {"loop", "taken", "shown", "prevdone", "switching"}

\* The drain loop hands one packet to the FEC layer; it yields while a
\* profile change is pending, and leaves when g_dec_running is 0.
DrainPacket ==
  /\ dpc = "drain" /\ Streaming /\ ~ profile_change_pending
  /\ \E n \in 1..MaxBurst : burst' = n
  /\ dpc' = "burst"
  /\ UNCHANGED <<slotVars, playerVars, presenterVars, mpc, pixels, delivered, au,
                 reserved, result, count, refs_corrupted, reset_needed>>

\* Mutant: the yield for a profile change does not look at g_dec_running.
DecoderExitNotWhilePending ==
  /\ dpc = "drain" /\ ~ Streaming /\ ~ profile_change_pending
  /\ dpc' = "off"
  /\ UNCHANGED <<slotVars, playerVars, presenterVars, mpc, pixels, delivered, burst,
                 au, reserved, result, count, refs_corrupted, reset_needed>>

DecoderExit ==
  /\ dpc = "drain" /\ ~ Streaming
  /\ dpc' = "off"
  /\ UNCHANGED <<slotVars, playerVars, presenterVars, mpc, pixels, delivered, burst,
                 au, reserved, result, count, refs_corrupted, reset_needed>>

PacketDone ==
  /\ dpc = "burst" /\ burst = 0
  /\ dpc' = "drain"
  /\ UNCHANGED <<slotVars, playerVars, presenterVars, mpc, pixels, delivered, burst,
                 au, reserved, result, count, refs_corrupted, reset_needed>>

\* While a packet is handled the RTP layers write g_refs_corrupted too: set
\* after a gap, cleared when a frame the host recovered is accepted.
AssemblerWritesRefs ==
  /\ dpc = "burst"
  /\ refs_corrupted' = ~ refs_corrupted
  /\ UNCHANGED <<slotVars, playerVars, presenterVars, mpc, pixels, delivered, dpc,
                 burst, au, reserved, result, count, reset_needed>>

\* rtp_frame_complete_callback on a frame the assembler marked corrupt.
CallbackCorrupt ==
  /\ dpc = "burst" /\ burst > 0
  /\ burst' = burst - 1
  /\ refs_corrupted' = TRUE
  /\ UNCHANGED <<slotVars, playerVars, presenterVars, mpc, pixels, delivered, dpc,
                 au, reserved, result, count, reset_needed>>

\* Without an IDR the access unit is dropped while references are corrupt or
\* a reset is due.
CallbackDrop ==
  /\ dpc = "burst" /\ burst > 0 /\ (refs_corrupted \/ reset_needed)
  /\ burst' = burst - 1
  /\ UNCHANGED <<slotVars, playerVars, presenterVars, mpc, pixels, delivered, dpc,
                 au, reserved, result, count, refs_corrupted, reset_needed>>

\* Otherwise it reaches the player, after a reset if one is due.
CallbackAccept ==
  /\ dpc = "burst" /\ burst > 0
  /\ \E a \in AccessUnits :
       /\ HasIdr(a) \/ ~ (refs_corrupted \/ reset_needed)
       /\ au' = a
  /\ refs_corrupted' = FALSE
  /\ dpc' = IF reset_needed THEN "resetting" ELSE "enter"
  /\ UNCHANGED <<slotVars, playerVars, presenterVars, mpc, pixels, delivered, burst,
                 reserved, result, count, reset_needed>>

\* psp_avc_player_reset: the firmware session is closed and reopened ...
ResetBackend ==
  /\ dpc = "resetting"
  /\ \E o \in psp_avc_backend_reset(backend) : backend' = o.b /\ result' = o.r
  /\ dpc' = "reset"
  /\ UNCHANGED <<slotVars, presenterVars, mpc, pixels, delivered, sema, pool,
                 output_sequence, profile_change_pending, profile_change_target,
                 profile_decode_active, burst, au, reserved, count,
                 refs_corrupted, reset_needed>>

\* ... then the queued picture is dropped, never the presenter's, and the
\* callback goes on to decode only when the player is ready again.
ResetDropQueued ==
  /\ dpc = "reset"
  /\ DropQueued
  /\ IF result = OK /\ IsReady
     THEN /\ dpc' = "enter" /\ reset_needed' = FALSE /\ result' = OK
          /\ UNCHANGED <<burst, au>>
     ELSE /\ dpc' = "burst" /\ reset_needed' = TRUE /\ result' = OK
          /\ burst' = burst - 1 /\ au' = NoAu
  /\ UNCHANGED <<playerVars, presenterVars, mpc, pixels, delivered, reserved,
                 count, refs_corrupted>>

\* What the callback does with the result of psp_avc_player_decode; the
\* locals of the call go out of scope.
DecodeReturns(r) ==
  /\ dpc' = "burst" /\ burst' = burst - 1
  /\ au' = NoAu /\ reserved' = NoTriple /\ result' = OK /\ count' = 0
  /\ refs_corrupted' = (refs_corrupted \/ r = PROFILE_CHANGE_REQUIRED)
  /\ reset_needed' = (reset_needed \/ r < 0)

\* psp_avc_player_decode refuses input while a profile change is pending.
DecodeEnter ==
  /\ dpc = "enter"
  /\ IF profile_change_pending
     THEN DecodeReturns(PROFILE_CHANGE_REQUIRED)
     ELSE /\ dpc' = "reserving"
          /\ UNCHANGED <<burst, au, reserved, result, count, refs_corrupted, reset_needed>>
  /\ UNCHANGED <<slotVars, playerVars, presenterVars, mpc, pixels, delivered>>

\* The first critical section: three slots, or -3 and the input is lost.
DecodeReserve ==
  /\ dpc = "reserving"
  /\ IF CanReserve
     THEN /\ \E r \in Triple : avc_frame_slots_reserve(r) /\ reserved' = r
          /\ dpc' = "reserved"
          /\ UNCHANGED <<burst, au, result, count, refs_corrupted, reset_needed>>
     ELSE DecodeReturns(NO_SLOTS) /\ UNCHANGED slotVars
  /\ UNCHANGED <<playerVars, presenterVars, mpc, pixels, delivered>>

\* The firmware starts to convert into the three slots.
DecodeSubmit ==
  /\ dpc = "reserved"
  /\ profile_decode_active' = TRUE
  /\ pixels' = [s \in Slots |-> IF s \in Members(reserved) THEN 0 ELSE pixels[s]]
  /\ dpc' = "decoding"
  /\ UNCHANGED <<slotVars, presenterVars, mpc, delivered, backend, sema, pool,
                 output_sequence, profile_change_pending, profile_change_target,
                 burst, au, reserved, result, count, refs_corrupted, reset_needed>>

\* The firmware call returns; each picture gets the next sequence number.
DecodeComplete ==
  /\ dpc = "decoding"
  /\ \E o \in psp_avc_backend_decode(backend, au) :
       /\ output_sequence + o.count <= MaxSeq
       /\ backend' = o.b /\ result' = o.r /\ count' = o.count
       /\ output_sequence' = output_sequence + o.count
       /\ pixels' = [s \in Slots |->
                       IF \E i \in 1..o.count : s = reserved[i]
                       THEN output_sequence + (CHOOSE i \in 1..o.count : s = reserved[i])
                       ELSE pixels[s]]
       /\ IF o.r = PROFILE_CHANGE_REQUIRED
          THEN profile_change_target' = o.b.req /\ profile_change_pending' = TRUE
          ELSE UNCHANGED <<profile_change_target, profile_change_pending>>
  /\ dpc' = "decoded"
  /\ UNCHANGED <<slotVars, presenterVars, mpc, delivered, sema, pool,
                 profile_decode_active, burst, au, reserved, refs_corrupted,
                 reset_needed>>

\* The second critical section.
DecodePublish ==
  /\ dpc = "decoded"
  /\ avc_frame_slots_publish(reserved, count, output_sequence)
  /\ result' = IF ~ CanPublish(reserved) THEN FAILED
               ELSE IF result = OK /\ count = 0 THEN NO_OUTPUT ELSE result
  /\ dpc' = "published"
  /\ UNCHANGED <<playerVars, presenterVars, mpc, pixels, delivered, burst, au,
                 reserved, count, refs_corrupted, reset_needed>>

\* Mutant: profile_decode_active is not cleared on the way out.
DecodeEndStaysActive ==
  /\ dpc = "published"
  /\ DecodeReturns(result)
  /\ UNCHANGED <<slotVars, playerVars, presenterVars, mpc, pixels, delivered>>

DecodeEnd ==
  /\ dpc = "published"
  /\ profile_decode_active' = FALSE
  /\ DecodeReturns(result)
  /\ UNCHANGED <<slotVars, presenterVars, mpc, pixels, delivered, backend, sema,
                 pool, output_sequence, profile_change_pending,
                 profile_change_target>>

Decoder == \/ DrainPacket \/ DecoderExit \/ PacketDone \/ AssemblerWritesRefs
           \/ CallbackCorrupt \/ CallbackDrop \/ CallbackAccept
           \/ ResetBackend \/ ResetDropQueued
           \/ DecodeEnter \/ DecodeReserve \/ DecodeSubmit
           \/ DecodeComplete \/ DecodePublish \/ DecodeEnd

-----------------------------------------------------------------------------
(***************************************************************************)
(* The UI thread during a stream.                                           *)
(***************************************************************************)
\* psp_avc_player_take.
MainTake ==
  /\ mpc = "loop"
  /\ avc_frame_slots_take
  /\ frame' = queued /\ frame_seq' = frame_id[queued]
  /\ delivered' = frame_id[queued]
  /\ mpc' = "taken"
  /\ UNCHANGED <<playerVars, decoderVars, pixels, previous, owned, last_frame, last_seq>>

\* display_avc_frame: draw the slot; with the HUD open the pixels are copied
\* first and the slot is not kept.
MainDisplay ==
  /\ mpc = "taken"
  /\ last_frame' \in {frame, COPY}
  /\ last_seq' = frame_seq
  /\ previous' = owned
  /\ owned' = IF last_frame' = frame THEN frame ELSE NoSlot
  /\ mpc' = "shown"
  /\ UNCHANGED <<slotVars, playerVars, decoderVars, pixels, delivered, frame, frame_seq>>

MainReleasePrevious ==
  /\ mpc = "shown"
  /\ IF previous # NoSlot /\ previous # frame
     THEN avc_frame_slots_release(previous) ELSE UNCHANGED slotVars
  /\ previous' = NoSlot
  /\ mpc' = "prevdone"
  /\ UNCHANGED <<playerVars, decoderVars, pixels, delivered, frame, owned,
                 last_frame, frame_seq, last_seq>>

\* Mutant: the picture just shown is released although it stays on screen.
MainReleaseFrameAlways ==
  /\ mpc = "prevdone"
  /\ avc_frame_slots_release(frame)
  /\ frame' = NoSlot /\ frame_seq' = 0
  /\ mpc' = "loop"
  /\ UNCHANGED <<playerVars, decoderVars, pixels, delivered, previous, owned,
                 last_frame, last_seq>>

MainReleaseFrame ==
  /\ mpc = "prevdone"
  /\ IF last_frame # frame THEN avc_frame_slots_release(frame) ELSE UNCHANGED slotVars
  /\ frame' = NoSlot /\ frame_seq' = 0
  /\ mpc' = "loop"
  /\ UNCHANGED <<playerVars, decoderVars, pixels, delivered, previous, owned,
                 last_frame, last_seq>>

\* display_frame_repeat with the HUD open: the slot on screen is copied, and
\* the copy is what is shown from now on; the slot stays owned.
MainRepeat ==
  /\ mpc = "loop" /\ last_frame \in Slots
  /\ last_frame' = COPY
  /\ UNCHANGED <<slotVars, playerVars, decoderVars, mpc, pixels, delivered, frame,
                 previous, owned, frame_seq, last_seq>>

\* sw_decoder_thread_force_restart: the watchdogs only ask for a reset.
MainForceRestart ==
  /\ mpc = "loop"
  /\ reset_needed' = TRUE
  /\ UNCHANGED <<slotVars, playerVars, presenterVars, mpc, pixels, delivered, dpc,
                 burst, au, reserved, result, count, refs_corrupted>>

ProfileChangeReady == profile_change_pending /\ ~ profile_decode_active /\ FramesIdle

\* psp_avc_player_apply_profile_change: the firmware call begins ...
MainSwitchBegin ==
  /\ mpc = "loop" /\ ProfileChangeReady
  /\ mpc' = "switching"
  /\ UNCHANGED <<slotVars, playerVars, decoderVars, presenterVars, pixels, delivered>>

\* ... and returns; a failure ends the stream.
MainSwitchEnd ==
  /\ mpc = "switching"
  /\ \E o \in psp_avc_backend_switch_profile(backend, profile_change_target) :
       /\ backend' = o.b
       /\ IF o.r = OK THEN profile_change_pending' = FALSE /\ mpc' = "loop"
          ELSE UNCHANGED profile_change_pending /\ mpc' = "stopping"
  /\ UNCHANGED <<slotVars, decoderVars, presenterVars, pixels, delivered, sema, pool,
                 output_sequence, profile_change_target, profile_decode_active>>

\* Every way out of the stream loop runs abort_stream_to_menu, which clears
\* g_dec_running and waits for the decoder to leave.
MainStop ==
  /\ mpc = "loop"
  /\ mpc' = "stopping"
  /\ UNCHANGED <<slotVars, playerVars, decoderVars, presenterVars, pixels, delivered>>

\* Mutant: the join times out and teardown goes on.
MainJoinTimesOut ==
  /\ mpc = "stopping"
  /\ mpc' = "release"
  /\ UNCHANGED <<slotVars, playerVars, decoderVars, presenterVars, pixels, delivered>>

MainJoin ==
  /\ mpc = "stopping" /\ dpc = "off"
  /\ mpc' = "release"
  /\ UNCHANGED <<slotVars, playerVars, decoderVars, presenterVars, pixels, delivered>>

\* display_avc_release_frame.
MainReleaseOwned ==
  /\ mpc = "release"
  /\ IF owned # NoSlot THEN avc_frame_slots_release(owned) ELSE UNCHANGED slotVars
  /\ owned' = NoSlot /\ last_frame' = NoSlot /\ last_seq' = 0
  /\ mpc' = "closing"
  /\ UNCHANGED <<playerVars, decoderVars, pixels, delivered, frame, previous, frame_seq>>

-----------------------------------------------------------------------------
(***************************************************************************)
(* Opening and closing, on the UI thread with the decoder gone.             *)
(***************************************************************************)
\* The possible results of psp_avc_player_close: the backend and the frame
\* pool it leaves, and the result code.  Without the semaphore it is
\* close_backend_for_reopen and the release of the pool; with it, nothing is
\* closed while a slot is held or written.
CloseOutcome(b, r, p) == [b |-> b, r |-> r, pool |-> p]

Closable == pool /\ \A s \in Slots : state[s] \notin {"HELD", "WRITING"}

psp_avc_player_close ==
  IF ~ sema
  THEN {CloseOutcome(o.b, o.r, pool) : o \in {k \in psp_avc_backend_close(backend) : k.r # OK}}
       \cup {CloseOutcome(Closed, OK, FALSE)}
       \cup (IF pool THEN {CloseOutcome(Closed, FAILED, TRUE)} ELSE {})
  ELSE IF ~ Closable THEN {CloseOutcome(backend, FAILED, pool)}
  ELSE {CloseOutcome(o.b, o.r, TRUE) : o \in psp_avc_backend_close(backend)}
       \cup (IF backend.ready      \* psp_avc_drain fails
             THEN {CloseOutcome([backend EXCEPT !.ready = FALSE], FAILED, TRUE)} ELSE {})
       \cup (IF backend.res /\ FlushFails
             THEN {CloseOutcome(backend, FAILED, TRUE)} ELSE {})

\* psp_avc_drain takes what the firmware still holds into slots 0, 1 and 2,
\* also when one of them is the queued one.
DrainWrites ==
  IF sema /\ Closable /\ backend.ready
  THEN pixels' \in {pixels, [s \in Slots |-> IF s <= 2 THEN 0 ELSE pixels[s]]}
  ELSE UNCHANGED pixels

\* close_backend_for_reopen also clears the profile flags.
CloseBackend(o) ==
  /\ DrainWrites
  /\ backend' = o.b
  /\ profile_change_pending' = (profile_change_pending /\ sema)
  /\ profile_decode_active' = (profile_decode_active /\ sema)
  /\ UNCHANGED profile_change_target

ClosePlayer(o) ==
  /\ CloseBackend(o)
  /\ pool' = o.pool
  /\ IF sema /\ o.r = OK
     THEN avc_frame_slots_init /\ output_sequence' = 0 /\ delivered' = 0
     ELSE UNCHANGED <<slotVars, output_sequence, delivered>>

\* The end of sw_decoder_thread_shutdown; a failed close keeps everything.
MainClose ==
  /\ mpc = "closing"
  /\ \E o \in psp_avc_player_close : ClosePlayer(o)
  /\ mpc' = "menu"
  /\ UNCHANGED <<decoderVars, presenterVars, sema>>

\* psp_avc_player_open_profile: a ready session of the same profile is used
\* again as it is; otherwise what is left of an old one is closed first.
Reusable(p) ==
  sema /\ backend.avcc /\ ~ backend.failed /\ backend.ready /\ backend.main = p

CloseForReopen ==
  IF sema \/ BackendOwns THEN psp_avc_backend_close(backend) ELSE {Outcome(backend, OK)}

\* close_backend_for_reopen on the way out of a failed open.
OpenFails(b, target) ==
  /\ backend' = b
  /\ profile_change_pending' = FALSE /\ profile_decode_active' = FALSE
  /\ profile_change_target' = target
  /\ UNCHANGED <<slotVars, sema, pool, output_sequence, delivered>>

OpenSucceeds(b, p) ==
  /\ backend' = b /\ sema' = TRUE /\ pool' = TRUE
  /\ profile_change_pending' = FALSE /\ profile_change_target' = p
  /\ profile_decode_active' = (profile_decode_active /\ ~ (sema \/ BackendOwns))
  /\ avc_frame_slots_init /\ output_sequence' = 0 /\ delivered' = 0

\* Neither the semaphore can be created nor the frame pool given back.
OpenKeepsPool(b, p) ==
  /\ backend' = b /\ pool' = TRUE
  /\ profile_change_pending' = FALSE /\ profile_change_target' = p
  /\ UNCHANGED <<slotVars, sema, output_sequence, profile_decode_active, delivered>>

OpenAnew(p, r) ==
  \E c \in CloseForReopen :
    \/ c.r # OK /\ r = FAILED /\ OpenFails(c.b, profile_change_target)
    \/ /\ c.r = OK
       /\ \E o \in psp_avc_backend_open(c.b, p) :
            \/ o.r = OK /\ r = OK /\ OpenSucceeds(o.b, p)
            \/ \* no firmware session
               /\ o.r # OK /\ r = FAILED
               /\ \E k \in psp_avc_backend_close(o.b) : OpenFails(k.b, profile_change_target)
            \/ \* no frame pool, or no semaphore
               /\ o.r = OK /\ ~ sema /\ r = FAILED
               /\ \E k \in psp_avc_backend_close(o.b) : OpenFails(k.b, p)
            \/ o.r = OK /\ ~ sema /\ r = FAILED /\ OpenKeepsPool(o.b, p)

psp_avc_player_open_profile(p, r) ==
  \/ /\ sema # pool \/ (sema /\ ~ Reusable(p) /\ ~ FramesIdle)
     /\ r = FAILED /\ UNCHANGED <<slotVars, playerVars, delivered>>
  \/ /\ sema = pool /\ Reusable(p)
     /\ r = OK /\ UNCHANGED <<slotVars, playerVars, delivered>>
  \/ sema = pool /\ ~ Reusable(p) /\ FramesIdle /\ OpenAnew(p, r)

\* psp_avc_prepare_before_rtsp: one retry after closing what is still open,
\* and only for the result -1; any other error halts.
MainOpen ==
  /\ mpc = "menu"
  /\ \/ psp_avc_player_open_profile("main", OK) /\ mpc' = "menu"
     \/ psp_avc_player_open_profile("main", FAILED) /\ mpc' \in {"reclose", "halted"}
  /\ UNCHANGED <<decoderVars, presenterVars, pixels>>

MainReclose ==
  /\ mpc = "reclose"
  /\ IF IsOpen
     THEN \E o \in psp_avc_player_close :
            ClosePlayer(o) /\ mpc' = IF o.r = OK THEN "reopen" ELSE "halted"
     ELSE mpc' = "halted" /\ UNCHANGED <<slotVars, backend, pool, output_sequence,
                                         profile_change_pending, profile_change_target,
                                         profile_decode_active, delivered, pixels>>
  /\ UNCHANGED <<decoderVars, presenterVars, sema>>

MainReopen ==
  /\ mpc = "reopen"
  /\ \/ psp_avc_player_open_profile("main", OK) /\ mpc' = "menu"
     \/ psp_avc_player_open_profile("main", FAILED) /\ mpc' = "halted"
  /\ UNCHANGED <<decoderVars, presenterVars, pixels>>

\* sw_decoder_thread_init: refused unless the player is ready.
MainStart ==
  /\ mpc = "menu" /\ IsReady
  /\ dpc' = "drain" /\ reset_needed' = FALSE /\ burst' = 0
  /\ mpc' = "loop"
  /\ UNCHANGED <<slotVars, playerVars, presenterVars, pixels, delivered, au,
                 reserved, result, count, refs_corrupted>>

\* Its semaphore or its thread cannot be created: the player is closed.
MainStartFails ==
  /\ mpc = "menu" /\ IsReady
  /\ \E o \in psp_avc_player_close : ClosePlayer(o)
  /\ reset_needed' = FALSE
  /\ mpc' = "halted"
  /\ UNCHANGED <<presenterVars, sema, dpc, burst, au, reserved, result,
                 count, refs_corrupted>>

\* moonlight_prepare_process_exit: close, then psp_avc_player_destroy.
MainExitClose ==
  /\ mpc = "menu" /\ IsOpen
  /\ \E o \in psp_avc_player_close : ClosePlayer(o)
  /\ mpc' = "exiting"
  /\ UNCHANGED <<decoderVars, presenterVars, sema>>

MainExitDestroy ==
  /\ mpc = "exiting"
  /\ \E o \in psp_avc_player_close :
       \/ o.r # OK /\ ClosePlayer(o) /\ mpc' = "menu" /\ UNCHANGED sema
       \/ \* sceKernelDeleteSema or the pool's release fails
          /\ o.r = OK /\ o.pool /\ ClosePlayer(o) /\ sema' \in {sema, FALSE}
          /\ mpc' = "menu"
       \/ /\ o.r = OK /\ CloseBackend(o) /\ pool' = FALSE /\ sema' = FALSE
          /\ avc_frame_slots_init
          /\ IF sema THEN output_sequence' = 0 /\ delivered' = 0
             ELSE UNCHANGED <<output_sequence, delivered>>
          /\ mpc' = "exited"
  /\ UNCHANGED <<decoderVars, presenterVars>>

Terminated == mpc \in {"halted", "exited"} /\ UNCHANGED vars

Main == \/ MainTake \/ MainDisplay \/ MainReleasePrevious \/ MainReleaseFrame
        \/ MainRepeat \/ MainForceRestart
        \/ MainSwitchBegin \/ MainSwitchEnd
        \/ MainStop \/ MainJoin \/ MainReleaseOwned \/ MainClose
        \/ MainOpen \/ MainReclose \/ MainReopen \/ MainStart \/ MainStartFails
        \/ MainExitClose \/ MainExitDestroy \/ Terminated

Next == Decoder \/ Main

Spec == Init /\ [][Next]_vars

-----------------------------------------------------------------------------
(***************************************************************************)
(* Properties.                                                              *)
(***************************************************************************)
Held == {owned, previous, frame} \ {NoSlot}

(***************************************************************************)
(* Every slot has exactly the owner its state names: the decoder between    *)
(* its two critical sections, the queue, or the presenter's three pointers. *)
(* So no slot leaks, none is freed under a reader, and publish and release  *)
(* are never refused.                                                       *)
(***************************************************************************)
SlotOwnership ==
  \A s \in Slots :
    /\ state[s] = "WRITING" <=> (dpc \in Writing /\ s \in Members(reserved))
    /\ state[s] = "QUEUED" <=> s = queued
    /\ state[s] = "HELD" <=> s \in Held

(***************************************************************************)
(* psp_avc_player_decode never returns -3: with at most one queued picture  *)
(* and two with the presenter, three of the six slots are free whenever the *)
(* decoder asks.  The callback cannot retry an access unit, so an           *)
(* exhaustion would cost a session reset.                                   *)
(***************************************************************************)
NoSlotExhaustion == dpc = "reserving" => CanReserve

(***************************************************************************)
(* What the presenter draws, or may draw again for the HUD, is the whole    *)
(* picture it took: the decoder has not written into that slot since.       *)
(***************************************************************************)
PresentedPixelsIntact ==
  /\ last_frame \in Slots => pixels[last_frame] = last_seq
  /\ frame # NoSlot => pixels[frame] = frame_seq

(***************************************************************************)
(* A profile change is only asked for while no picture is queued or held,   *)
(* so the all-slots-free test in psp_avc_player_profile_change_ready cannot *)
(* be blocked for ever by the picture the presenter keeps on screen.        *)
(***************************************************************************)
PendingChangeOwnsNoPicture ==
  profile_change_pending => queued = NoSlot /\ Held = {}

(***************************************************************************)
(* The firmware is never entered by both threads: neither the UI thread's   *)
(* mode switch nor the close of the session overlaps a decode or a reset.   *)
(***************************************************************************)
NoConcurrentFirmware ==
  mpc \in {"switching", "closing", "reclose", "reopen", "menu", "exiting"}
    => dpc \notin {"decoding", "resetting"}

(***************************************************************************)
(* The pool implements the newest-wins mailbox: pictures reach the          *)
(* presenter in decode order, at most once, and never an older one after a  *)
(* newer one was published.                                                 *)
(***************************************************************************)
Mailbox == INSTANCE FrameMailbox WITH
  box <- IF queued = NoSlot THEN 0 ELSE frame_id[queued],
  newest <- IF dpc = "decoded" THEN output_sequence - count ELSE output_sequence,
  taken <- delivered

MailboxSpec == Mailbox!Spec

-----------------------------------------------------------------------------
(***************************************************************************)
(* Fairness: a thread that can run does, and firmware calls return.  The    *)
(* arrival of packets, the user and the watchdogs are not fair.             *)
(***************************************************************************)
DecoderRuns == \/ DecoderExit \/ PacketDone
               \/ CallbackCorrupt \/ CallbackDrop \/ CallbackAccept
               \/ ResetBackend \/ ResetDropQueued
               \/ DecodeEnter \/ DecodeReserve \/ DecodeSubmit
               \/ DecodeComplete \/ DecodePublish \/ DecodeEnd

MainRuns == \/ MainDisplay \/ MainReleasePrevious \/ MainReleaseFrame
            \/ MainSwitchBegin \/ MainSwitchEnd
            \/ MainJoin \/ MainReleaseOwned \/ MainClose

LiveSpec == Spec /\ WF_vars(DecoderRuns) /\ WF_vars(MainRuns)

(***************************************************************************)
(* A profile change the backend asked for is carried out, or the stream     *)
(* ends: the decoder, which yields until then, does not wait for ever.      *)
(***************************************************************************)
ProfileChangeResolved ==
  (profile_change_pending /\ Streaming) ~> (~ profile_change_pending \/ ~ Streaming)

(***************************************************************************)
(* Teardown ends: the join without a timeout returns and the UI is back in  *)
(* the menu.                                                                *)
(***************************************************************************)
TeardownCompletes == mpc = "stopping" ~> mpc = "menu"
=============================================================================
