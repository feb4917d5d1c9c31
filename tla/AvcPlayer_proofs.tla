--------------------------- MODULE AvcPlayer_proofs ---------------------------
(***************************************************************************)
(* Machine-checked safety of the AVC player for every number of slots from  *)
(* six up, every bound on the sequence numbers and every burst length.      *)
(*                                                                         *)
(* None of the invariants the runs check is inductive alone.  IInv adds     *)
(* where the two threads are when they hold a slot (Control), how pictures  *)
(* are numbered (PictureHistory), and how the backend's flags relate to a   *)
(* profile change (ProfileState).  PixelHistory, which picture is in a      *)
(* slot's memory, and YieldInv are inductive relative to IInv.              *)
(***************************************************************************)
EXTENDS AvcPlayer, FiniteSetTheorems, TLAPS

InCallback == dpc \in {"resetting", "reset", "enter", "reserving", "reserved",
                       "decoding", "decoded", "published"}
MainOnSlot == mpc \in {"taken", "shown", "prevdone"}
Idle == mpc \in {"closing", "menu", "reclose", "reopen", "exiting", "halted", "exited"}

(***************************************************************************)
(* Where the threads are: the callback is working on an access unit of its  *)
(* packet, the decoder has left before the UI thread closes anything, and   *)
(* which of the presenter's three pointers are set.                         *)
(***************************************************************************)
Control ==
  /\ InCallback => burst > 0
  /\ mpc \in {"release"} \/ Idle => dpc = "off"
  /\ frame # NoSlot <=> MainOnSlot
  /\ previous # NoSlot => mpc = "shown" /\ previous # frame
  /\ mpc = "taken" => owned # frame
  /\ mpc \in {"shown", "prevdone"} =>
       \/ owned = frame /\ last_frame = frame
       \/ owned = NoSlot /\ last_frame = COPY
  /\ last_frame \in Slots => owned = last_frame
  /\ Idle => owned = NoSlot /\ last_frame = NoSlot
  /\ dpc \in Writing => reserved[1] < reserved[2] /\ reserved[2] < reserved[3]
  /\ ~ sema => queued = NoSlot
  /\ dpc # "off" => sema

(***************************************************************************)
(* Pictures are numbered from 1, and counted before they are published.     *)
(***************************************************************************)
PictureHistory ==
  /\ queued # NoSlot => frame_id[queued] > 0
  /\ dpc = "decoded" => output_sequence >= count

(***************************************************************************)
(* A picture outside the free slots proves that an IDR was submitted; a     *)
(* pending change proves that none was.                                     *)
(***************************************************************************)
ProfileState ==
  /\ queued # NoSlot \/ Held # {} \/ (dpc = "decoded" /\ count > 0) => backend.first_idr
  /\ profile_change_pending => ~ backend.first_idr
  /\ dpc \in {"reserving", "reserved", "decoding"} => ~ profile_change_pending
  /\ backend.avcc /\ ~ backend.failed /\ ~ backend.need_idr /\ ~ backend.first_idr
       => profile_change_pending

IInv == TypeOK /\ SlotOwnership /\ Control /\ PictureHistory /\ ProfileState

(***************************************************************************)
(* The memory of a queued or shown slot holds the picture its owner thinks. *)
(* The one exception is a close that failed after psp_avc_drain wrote into  *)
(* the pool: then the session is not ready and no stream can start on it.   *)
(***************************************************************************)
PixelHistory ==
  /\ queued # NoSlot =>
       pixels[queued] = frame_id[queued] \/ (Idle /\ ~ backend.ready)
  /\ dpc = "decoded" /\ count > 0 => pixels[reserved[count]] = output_sequence
  /\ PresentedPixelsIntact

-----------------------------------------------------------------------------
(***************************************************************************)
(* Types of the backend's outcomes.                                         *)
(***************************************************************************)
Outcomes == [b : Backends, r : Results, count : 0..3]

\* The result codes are pairwise different integers of Results.
LEMMA ResultCodes ==
  /\ {OK, PARAMETERS, NEED_IDR, NO_OUTPUT, PROFILE_CHANGE_REQUIRED, FAILED,
      PARAMETER_CHANGE, NO_SLOTS} \subseteq Results
  /\ PROFILE_CHANGE_REQUIRED \notin {OK, PARAMETERS, NEED_IDR, FAILED, PARAMETER_CHANGE}
  /\ OK \notin {PARAMETERS, NEED_IDR, FAILED, PARAMETER_CHANGE}
BY DEF OK, PARAMETERS, NEED_IDR, NO_OUTPUT, PROFILE_CHANGE_REQUIRED, FAILED,
       PARAMETER_CHANGE, NO_SLOTS, Results

\* memset leaves a well-formed backend.
LEMMA ClosedType == Closed \in Backends
BY DEF Closed, Backends, Profiles

\* Building an outcome record.
LEMMA OutcomeType ==
  ASSUME NEW b \in Backends, NEW r \in Results
  PROVE  /\ Outcome(b, r) \in Outcomes
         /\ Outcome(b, r).b = b /\ Outcome(b, r).r = r /\ Outcome(b, r).count = 0
BY DEF Outcome, Outcomes

LEMMA FailType ==
  ASSUME NEW b \in Backends, NEW r \in Results
  PROVE  /\ Fail(b, r) \in Outcomes
         /\ Fail(b, r).b = [b EXCEPT !.failed = TRUE]
         /\ Fail(b, r).r = r /\ Fail(b, r).count = 0
<1>1. [b EXCEPT !.failed = TRUE] \in Backends
  BY DEF Backends
<1> QED BY <1>1, OutcomeType DEF Fail

\* avc_stream_input_prepare only changes need_idr and the cached parameters.
LEMMA PrepareType ==
  ASSUME NEW b \in Backends, NEW a \in AccessUnits
  PROVE  /\ avc_stream_input_prepare(b, a) \in Outcomes
         /\ avc_stream_input_prepare(b, a).count = 0
         /\ avc_stream_input_prepare(b, a).r # PROFILE_CHANGE_REQUIRED
         /\ avc_stream_input_prepare(b, a).r = OK =>
              avc_stream_input_prepare(b, a).b.par \in Profiles
<1> DEFINE c == CachedPar(b, a)
<1>0. c \in Profiles \cup {"none"}
  BY DEF CachedPar, Backends, AccessUnits
<1> HIDE DEF c
<1>1. [b EXCEPT !.need_idr = TRUE] \in Backends
  BY DEF Backends
<1>2. [b EXCEPT !.par = c] \in Backends
  BY <1>0 DEF Backends
<1>3. [b EXCEPT !.need_idr = TRUE, !.par = c] \in Backends
  BY <1>0 DEF Backends
<1>4. /\ [b EXCEPT !.need_idr = FALSE, !.par = c] \in Backends
      /\ [b EXCEPT !.need_idr = FALSE, !.par = c].par = c
  BY <1>0 DEF Backends
<1>6. CASE ~ a.valid
  BY <1>6, <1>1, ResultCodes, OutcomeType DEF avc_stream_input_prepare
<1>7. CASE a.valid /\ ParameterChange(b, a)
  BY <1>7, <1>1, ResultCodes, OutcomeType DEF avc_stream_input_prepare
<1>8. CASE a.valid /\ ~ ParameterChange(b, a) /\ a.slice = "none"
  BY <1>8, <1>2, ResultCodes, OutcomeType DEF avc_stream_input_prepare, c
<1>9. CASE /\ a.valid /\ ~ ParameterChange(b, a) /\ a.slice # "none"
           /\ CachedPar(b, a) = "none" \/ (b.need_idr /\ ~ HasIdr(a))
  BY <1>9, <1>3, ResultCodes, OutcomeType DEF avc_stream_input_prepare, c
<1>10. CASE /\ a.valid /\ ~ ParameterChange(b, a) /\ a.slice # "none"
            /\ ~ (CachedPar(b, a) = "none" \/ (b.need_idr /\ ~ HasIdr(a)))
  <2> DEFINE d == [b EXCEPT !.need_idr = FALSE, !.par = c]
  <2>1. avc_stream_input_prepare(b, a) = Outcome(d, OK)
    BY <1>10 DEF avc_stream_input_prepare, c
  <2>2. d \in Backends /\ d.par \in Profiles
    BY <1>10, <1>0, <1>4 DEF c
  <2> HIDE DEF d
  <2>3. /\ Outcome(d, OK) \in Outcomes /\ Outcome(d, OK).b = d
        /\ Outcome(d, OK).r = OK /\ Outcome(d, OK).count = 0
    BY <2>2, ResultCodes, OutcomeType
  <2> QED BY <2>1, <2>2, <2>3, ResultCodes
<1> QED BY <1>6, <1>7, <1>8, <1>9, <1>10 DEF AccessUnits

\* psp_avc_backend_decode returns a well-formed backend, result and count.
LEMMA DecodeType ==
  ASSUME NEW b \in Backends, NEW a \in AccessUnits,
         NEW o \in psp_avc_backend_decode(b, a)
  PROVE  o \in Outcomes
<1> DEFINE in == avc_stream_input_prepare(b, a)
<1>1. in \in Outcomes /\ (in.r = OK => in.b.par \in Profiles)
  BY PrepareType
<1> HIDE DEF in
<1>5. in.b \in Backends /\ in.r \in Results
  BY <1>1 DEF Outcomes
<1>3. ASSUME NEW c \in Backends, c.par \in Profiles PROVE AskForProfile(c) \in Outcomes
  <2>1. [c EXCEPT !.change = TRUE, !.req = c.par] \in Backends
    BY <1>3 DEF Backends
  <2> QED BY <2>1, OutcomeType, FailType, ResultCodes DEF AskForProfile
<1>4. ASSUME NEW c \in Backends PROVE psp_avc_submit(c, a) \subseteq Outcomes
  <2> DEFINE d == [c EXCEPT !.first_idr = c.first_idr \/ HasIdr(a)]
             e == [c EXCEPT !.ready = FALSE]
  <2>1. psp_avc_submit(c, a) = {[b |-> d, r |-> OK, count |-> n] : n \in 0..3}
                               \cup {Fail(c, FAILED), Fail(e, FAILED)}
    BY DEF psp_avc_submit
  <2>2. d \in Backends /\ e \in Backends
    BY DEF Backends, HasIdr
  <2> HIDE DEF d, e
  <2>3. \A n \in 0..3 : [b |-> d, r |-> OK, count |-> n] \in Outcomes
    BY <2>2, ResultCodes DEF Outcomes
  <2>4. Fail(c, FAILED) \in Outcomes /\ Fail(e, FAILED) \in Outcomes
    BY <2>2, FailType, ResultCodes
  <2> QED BY <2>1, <2>3, <2>4
<1>6. \/ o = Outcome(b, FAILED)
      \/ o = Fail(in.b, in.r)
      \/ o = in
      \/ o = Fail(in.b, FAILED)
      \/ in.r = OK /\ o = AskForProfile(in.b)
      \/ o \in psp_avc_submit(in.b, a)
  BY <1>5 DEF psp_avc_backend_decode, in, Results, OK
<1>7. /\ Outcome(b, FAILED) \in Outcomes
      /\ Fail(in.b, in.r) \in Outcomes /\ Fail(in.b, FAILED) \in Outcomes
  BY <1>5, OutcomeType, FailType, ResultCodes
<1> QED BY <1>1, <1>3, <1>4, <1>5, <1>6, <1>7

\* So do open, close, reset and the profile switch.
LEMMA SessionTypes ==
  ASSUME NEW b \in Backends, NEW p \in Profiles
  PROVE  /\ psp_avc_backend_open(b, p) \subseteq Outcomes
         /\ psp_avc_backend_close(b) \subseteq Outcomes
         /\ psp_avc_backend_reset(b) \subseteq Outcomes
         /\ psp_avc_backend_switch_profile(b, p) \subseteq Outcomes
<1>0. FAILED \in Results /\ OK \in Results
  BY ResultCodes
<1>1. psp_avc_backend_open(b, p) \subseteq Outcomes
  <2> DEFINE fresh == [b EXCEPT !.main = p, !.failed = FALSE, !.first_idr = FALSE,
                         !.change = FALSE, !.req = p, !.need_idr = TRUE, !.par = "none"]
  <2>1. fresh \in Backends
    BY DEF Backends
  <2>2. psp_avc_backend_open(b, p) =
          {Outcome([fresh EXCEPT !.avcc = TRUE, !.res = TRUE, !.ready = TRUE], OK),
           Outcome(fresh, FAILED), Outcome([fresh EXCEPT !.res = TRUE], FAILED),
           Outcome(Closed, FAILED)}
    BY DEF psp_avc_backend_open
  <2> HIDE DEF fresh
  <2>3. /\ [fresh EXCEPT !.avcc = TRUE, !.res = TRUE, !.ready = TRUE] \in Backends
        /\ [fresh EXCEPT !.res = TRUE] \in Backends
    BY <2>1 DEF Backends
  <2> QED BY <2>1, <2>2, <2>3, <1>0, ClosedType, OutcomeType
<1>2. psp_avc_backend_close(b) \subseteq Outcomes
  <2> DEFINE shut == [b EXCEPT !.failed = TRUE, !.ready = FALSE]
  <2>1. shut \in Backends
    BY DEF Backends
  <2>2. psp_avc_backend_close(b) \subseteq
          {Outcome(Closed, OK), Outcome(shut, FAILED), Outcome([shut EXCEPT !.res = FALSE], FAILED)}
    BY DEF psp_avc_backend_close
  <2> HIDE DEF shut
  <2>3. [shut EXCEPT !.res = FALSE] \in Backends
    BY <2>1 DEF Backends
  <2> QED BY <2>1, <2>2, <2>3, <1>0, ClosedType, OutcomeType
<1>3. psp_avc_backend_reset(b) \subseteq Outcomes
  <2> DEFINE shut == [b EXCEPT !.failed = TRUE, !.ready = FALSE]
             idle == [shut EXCEPT !.need_idr = TRUE, !.res = FALSE]
             open == [idle EXCEPT !.res = TRUE, !.ready = TRUE, !.failed = FALSE]
             kept == [idle EXCEPT !.res = TRUE]
  <2>1. psp_avc_backend_reset(b) \subseteq
          {Outcome(b, FAILED), Outcome(open, OK), Outcome(idle, FAILED),
           Outcome(kept, FAILED), Outcome(shut, FAILED)}
    BY DEF psp_avc_backend_reset
  <2>2. shut \in Backends
    BY DEF Backends
  <2> HIDE DEF shut
  <2>3. idle \in Backends
    BY <2>2 DEF Backends
  <2> HIDE DEF idle
  <2>4. open \in Backends /\ kept \in Backends
    BY <2>3 DEF Backends
  <2> HIDE DEF open, kept
  <2> QED BY <2>1, <2>2, <2>3, <2>4, <1>0, OutcomeType
<1>4. psp_avc_backend_switch_profile(b, p) \subseteq Outcomes
  <2> DEFINE down == [b EXCEPT !.failed = TRUE, !.ready = FALSE]
             done == [b EXCEPT !.main = p, !.change = FALSE, !.need_idr = TRUE,
                               !.res = TRUE, !.ready = TRUE]
  <2>1. psp_avc_backend_switch_profile(b, p) \subseteq
          {Outcome(b, FAILED), Outcome(done, OK), Outcome([down EXCEPT !.res = TRUE], FAILED),
           Outcome([down EXCEPT !.res = FALSE], FAILED)}
    BY DEF psp_avc_backend_switch_profile
  <2>2. down \in Backends /\ done \in Backends
    BY DEF Backends
  <2> HIDE DEF down, done
  <2>3. [down EXCEPT !.res = TRUE] \in Backends /\ [down EXCEPT !.res = FALSE] \in Backends
    BY <2>2 DEF Backends
  <2> QED BY <2>1, <2>2, <2>3, <1>0, OutcomeType
<1> QED BY <1>1, <1>2, <1>3, <1>4

-----------------------------------------------------------------------------
(***************************************************************************)
(* Every step keeps the types.  Control is needed because the callback      *)
(* counts its packet's access units down.                                   *)
(***************************************************************************)
LEMMA DecoderTypes ==
  ASSUME TypeOK, Control, Decoder
  PROVE  TypeOK'
<1> USE BoundsAssumption, SlotsAssumption
<1> USE DEF TypeOK, SlotsTypeOK, slotVars, playerVars, presenterVars
<1>1. CASE DrainPacket \/ DecoderExit \/ PacketDone
  BY <1>1 DEF DrainPacket, DecoderExit, PacketDone, DecoderStates
<1>11. CASE AssemblerWritesRefs
  <2>1. refs_corrupted' \in BOOLEAN
    BY <1>11, Zenon DEF AssemblerWritesRefs
  <2> QED BY <1>11, <2>1 DEF AssemblerWritesRefs
<1>2. CASE CallbackCorrupt \/ CallbackDrop
  <2>1. burst' \in 0..MaxBurst
    BY <1>2 DEF CallbackCorrupt, CallbackDrop
  <2>2. CASE CallbackCorrupt
    BY <2>1, <2>2 DEF CallbackCorrupt
  <2>3. CASE CallbackDrop
    BY <2>1, <2>3 DEF CallbackDrop
  <2> QED BY <1>2, <2>2, <2>3
<1>12. CASE CallbackAccept
  BY <1>12 DEF CallbackAccept, DecoderStates
<1>3. CASE ResetBackend
  <2>1. PICK o \in psp_avc_backend_reset(backend) : backend' = o.b /\ result' = o.r
    BY <1>3 DEF ResetBackend
  <2>2. o.b \in Backends /\ o.r \in Results
    BY SessionTypes, "base" \in Profiles DEF Outcomes, Profiles
  <2> QED BY <1>3, <2>1, <2>2 DEF ResetBackend, DecoderStates
<1>13. ASSUME NEW r \in Results, DecodeReturns(r), InCallback
       PROVE  /\ dpc' \in DecoderStates /\ burst' \in 0..MaxBurst
              /\ au' \in AccessUnits /\ reserved' \in Triple
              /\ result' \in Results /\ count' \in 0..3
              /\ refs_corrupted' \in BOOLEAN /\ reset_needed' \in BOOLEAN
  <2>1. burst' \in 0..MaxBurst
    BY <1>13 DEF DecodeReturns, Control
  <2>2. refs_corrupted' \in BOOLEAN /\ reset_needed' \in BOOLEAN
    BY <1>13, Zenon DEF DecodeReturns
  <2>3. au' \in AccessUnits /\ dpc' \in DecoderStates
    BY <1>13 DEF DecodeReturns, NoAu, AccessUnits, DecoderStates
  <2>4. reserved' \in Triple /\ count' \in 0..3
    BY <1>13 DEF DecodeReturns, NoTriple, Triple, Slots
  <2> QED BY <1>13, <2>1, <2>2, <2>3, <2>4, ResultCodes DEF DecodeReturns
<1>4. CASE ResetDropQueued
  <2>1. burst' \in 0..MaxBurst
    BY <1>4 DEF ResetDropQueued, Control, InCallback
  <2>0. NoAu \in AccessUnits
    BY DEF NoAu, AccessUnits
  <2>2. au' \in AccessUnits
    BY <1>4, <2>0 DEF ResetDropQueued
  <2>3. state' \in [Slots -> SlotStates] /\ queued' \in Slots \cup {NoSlot}
    BY <1>4 DEF ResetDropQueued, DropQueued, SlotStates
  <2> QED BY <1>4, <2>1, <2>2, <2>3, ResultCodes DEF ResetDropQueued, DropQueued, DecoderStates
<1>5. CASE DecodeEnter
  <2>1. CASE profile_change_pending
    BY <1>5, <2>1, <1>13, ResultCodes DEF DecodeEnter, InCallback
  <2>2. CASE ~ profile_change_pending
    BY <1>5, <2>2 DEF DecodeEnter, DecoderStates
  <2> QED BY <2>1, <2>2
<1>6. CASE DecodeReserve
  <2>1. CASE CanReserve
    BY <1>6, <2>1 DEF DecodeReserve, avc_frame_slots_reserve, DecoderStates, SlotStates
  <2>2. CASE ~ CanReserve
    BY <1>6, <2>2, <1>13, ResultCodes DEF DecodeReserve, InCallback
  <2> QED BY <2>1, <2>2
<1>7. CASE DecodeSubmit
  BY <1>7 DEF DecodeSubmit, DecoderStates
<1>8. CASE DecodeComplete
  <2>1. PICK o \in psp_avc_backend_decode(backend, au) :
          /\ output_sequence + o.count <= MaxSeq
          /\ backend' = o.b /\ result' = o.r /\ count' = o.count
          /\ output_sequence' = output_sequence + o.count
          /\ pixels' = [s \in Slots |->
                          IF \E i \in 1..o.count : s = reserved[i]
                          THEN output_sequence + (CHOOSE i \in 1..o.count : s = reserved[i])
                          ELSE pixels[s]]
          /\ IF o.r = PROFILE_CHANGE_REQUIRED
             THEN profile_change_target' = o.b.req /\ profile_change_pending' = TRUE
             ELSE UNCHANGED <<profile_change_target, profile_change_pending>>
    BY <1>8 DEF DecodeComplete
  <2>2. o \in Outcomes
    BY DecodeType
  <2>3. o.b \in Backends /\ o.r \in Results /\ o.count \in 0..3 /\ o.b.req \in Profiles
    BY <2>2 DEF Outcomes, Backends
  <2>4. output_sequence' \in 0..MaxSeq
    BY <2>1, <2>3
  <2>5. pixels' \in [Slots -> 0..MaxSeq]
    <3> SUFFICES ASSUME NEW s \in Slots PROVE pixels'[s] \in 0..MaxSeq
      BY <2>1
    <3> DEFINE P(i) == s = reserved[i]
    <3>1. CASE \E i \in 1..o.count : P(i)
      <4>1. (CHOOSE i \in 1..o.count : P(i)) \in 1..o.count
        BY <3>1
      <4>2. pixels'[s] = output_sequence + (CHOOSE i \in 1..o.count : P(i))
        BY <2>1, <3>1
      <4> QED BY <4>1, <4>2, <2>1, <2>3
    <3>2. CASE ~ \E i \in 1..o.count : P(i)
      BY <3>2, <2>1
    <3> QED BY <3>1, <3>2
  <2>6. /\ dpc' = "decoded"
        /\ UNCHANGED <<slotVars, presenterVars, mpc, delivered, sema, pool,
                       profile_decode_active, burst, au, reserved, refs_corrupted,
                       reset_needed>>
    BY <1>8 DEF DecodeComplete
  <2>7. profile_change_target' \in Profiles /\ profile_change_pending' \in BOOLEAN
    BY <2>1, <2>3
  <2>8. backend' \in Backends /\ result' \in Results /\ count' \in 0..3
    BY <2>1, <2>3
  <2> QED BY <2>4, <2>5, <2>6, <2>7, <2>8 DEF DecoderStates
<1>9. CASE DecodePublish
  BY <1>9, ResultCodes DEF DecodePublish, avc_frame_slots_publish, DecoderStates, SlotStates, Triple
<1>10. CASE DecodeEnd
  BY <1>10, <1>13 DEF DecodeEnd, InCallback
<1> QED BY <1>1, <1>2, <1>3, <1>4, <1>5, <1>6, <1>7, <1>8, <1>9, <1>10, <1>11, <1>12 DEF Decoder

\* The outcomes of psp_avc_player_close: the backend is closed, closed in
\* part, not ready any more, or as it was.
LEMMA CloseForms ==
  ASSUME NEW o \in psp_avc_player_close
  PROVE  /\ \/ \E k \in psp_avc_backend_close(backend) : o.b = k.b /\ o.r = k.r
            \/ ~ sema /\ o.b = Closed
            \/ sema /\ o.r = FAILED /\ o.b = backend /\ (FlushFails \/ ~ Closable)
            \/ sema /\ o.r = FAILED /\ o.b = [backend EXCEPT !.ready = FALSE]
         /\ o.pool = pool \/ o.pool = TRUE \/ o.pool = FALSE
         /\ o.r = OK /\ o.pool => sema
<1>1. CASE ~ sema
  <2>1. \/ \E k \in psp_avc_backend_close(backend) : k.r # OK /\ o = CloseOutcome(k.b, k.r, pool)
        \/ o = CloseOutcome(Closed, OK, FALSE)
        \/ o = CloseOutcome(Closed, FAILED, TRUE)
    BY <1>1 DEF psp_avc_player_close
  <2> QED BY <1>1, <2>1, ResultCodes DEF CloseOutcome
<1>2. CASE sema
  <2>1. \/ o = CloseOutcome(backend, FAILED, pool) /\ ~ Closable
        \/ \E k \in psp_avc_backend_close(backend) : o = CloseOutcome(k.b, k.r, TRUE)
        \/ o = CloseOutcome([backend EXCEPT !.ready = FALSE], FAILED, TRUE)
        \/ o = CloseOutcome(backend, FAILED, TRUE) /\ FlushFails
    BY <1>2 DEF psp_avc_player_close
  <2> DEFINE d == [backend EXCEPT !.ready = FALSE]
  <2>0. \/ o = CloseOutcome(backend, FAILED, pool) /\ ~ Closable
        \/ \E k \in psp_avc_backend_close(backend) : o = CloseOutcome(k.b, k.r, TRUE)
        \/ o = CloseOutcome(d, FAILED, TRUE)
        \/ o = CloseOutcome(backend, FAILED, TRUE) /\ FlushFails
    BY <2>1, Zenon
  <2> HIDE DEF d
  <2>2. /\ \/ \E k \in psp_avc_backend_close(backend) : o.b = k.b /\ o.r = k.r
           \/ o.r = FAILED /\ o.b = backend /\ (FlushFails \/ ~ Closable)
           \/ o.r = FAILED /\ o.b = d
        /\ o.pool = pool \/ o.pool = TRUE
    BY <2>0 DEF CloseOutcome
  <2> QED BY <1>2, <2>2, Zenon DEF d
<1> QED BY <1>1, <1>2

\* Their types.
LEMMA CloseType ==
  ASSUME TypeOK, NEW o \in psp_avc_player_close
  PROVE  o.b \in Backends /\ o.pool \in BOOLEAN
<1>1. backend \in Backends /\ pool \in BOOLEAN
  BY DEF TypeOK
<1>2. \A k \in psp_avc_backend_close(backend) : k.b \in Backends /\ k.r \in Results
  BY <1>1, SessionTypes DEF Outcomes, Profiles
<1>3. [backend EXCEPT !.ready = FALSE] \in Backends
  BY <1>1 DEF Backends
<1> QED BY <1>1, <1>2, <1>3, ClosedType, CloseForms

\* A close, whichever its outcome, keeps the types of what it changes.
LEMMA ClosePlayerType ==
  ASSUME TypeOK, NEW o \in psp_avc_player_close,
         (CloseBackend(o) /\ avc_frame_slots_init) \/ ClosePlayer(o)
  PROVE  /\ SlotsTypeOK' /\ backend' \in Backends /\ pixels' \in [Slots -> 0..MaxSeq]
         /\ profile_change_pending' \in BOOLEAN /\ profile_decode_active' \in BOOLEAN
         /\ profile_change_target' \in Profiles
         /\ ClosePlayer(o) => /\ pool' \in BOOLEAN
                              /\ output_sequence' \in 0..MaxSeq /\ delivered' \in Nat
<1>1. CloseBackend(o)
  BY DEF ClosePlayer
<1>2. profile_change_pending' \in BOOLEAN /\ profile_decode_active' \in BOOLEAN
  BY <1>1, Zenon DEF CloseBackend
<1>3. SlotsTypeOK'
  BY DEF ClosePlayer, TypeOK, SlotsTypeOK, avc_frame_slots_init, slotVars, SlotStates
<1>4. ClosePlayer(o) => output_sequence' \in 0..MaxSeq /\ delivered' \in Nat
  BY BoundsAssumption DEF ClosePlayer, TypeOK
<1>5. pixels' \in [Slots -> 0..MaxSeq]
  BY <1>1, BoundsAssumption DEF CloseBackend, DrainWrites, TypeOK
<1> QED BY <1>1, <1>2, <1>3, <1>4, <1>5, CloseType DEF CloseBackend, ClosePlayer, TypeOK

\* psp_avc_player_open_profile keeps the types of what it changes.
LEMMA OpenType ==
  ASSUME TypeOK, NEW p \in Profiles, NEW r, psp_avc_player_open_profile(p, r)
  PROVE  /\ SlotsTypeOK' /\ backend' \in Backends /\ sema' \in BOOLEAN /\ pool' \in BOOLEAN
         /\ output_sequence' \in 0..MaxSeq /\ delivered' \in Nat
         /\ profile_change_pending' \in BOOLEAN /\ profile_decode_active' \in BOOLEAN
         /\ profile_change_target' \in Profiles
<1> DEFINE Goal ==
         /\ SlotsTypeOK' /\ backend' \in Backends /\ sema' \in BOOLEAN /\ pool' \in BOOLEAN
         /\ output_sequence' \in 0..MaxSeq /\ delivered' \in Nat
         /\ profile_change_pending' \in BOOLEAN /\ profile_decode_active' \in BOOLEAN
         /\ profile_change_target' \in Profiles
<1>1. CASE UNCHANGED <<slotVars, playerVars, delivered>>
  BY <1>1 DEF TypeOK, SlotsTypeOK, slotVars, playerVars
<1>2. ASSUME NEW b \in Backends, NEW t \in Profiles,
             OpenFails(b, t) \/ OpenSucceeds(b, t) \/ OpenKeepsPool(b, t)
      PROVE  Goal
  <2>1. CASE OpenFails(b, t)
    BY <2>1 DEF OpenFails, TypeOK, SlotsTypeOK, slotVars
  <2>2. CASE OpenSucceeds(b, t)
    <3>1. profile_decode_active' \in BOOLEAN
      BY <2>2, Zenon DEF OpenSucceeds
    <3>2. SlotsTypeOK'
      BY <2>2 DEF OpenSucceeds, SlotsTypeOK, avc_frame_slots_init, SlotStates
    <3>3. output_sequence' \in 0..MaxSeq /\ delivered' \in Nat
      BY <2>2, BoundsAssumption DEF OpenSucceeds
    <3> QED BY <2>2, <3>1, <3>2, <3>3, Zenon DEF OpenSucceeds
  <2>3. CASE OpenKeepsPool(b, t)
    BY <2>3 DEF OpenKeepsPool, TypeOK, SlotsTypeOK, slotVars
  <2> QED BY <1>2, <2>1, <2>2, <2>3
<1>3. CASE OpenAnew(p, r)
  <2>1. PICK c \in CloseForReopen :
          \/ OpenFails(c.b, profile_change_target)
          \/ \E o \in psp_avc_backend_open(c.b, p) :
               \/ OpenSucceeds(o.b, p)
               \/ \E k \in psp_avc_backend_close(o.b) :
                    OpenFails(k.b, profile_change_target) \/ OpenFails(k.b, p)
               \/ OpenKeepsPool(o.b, p)
    BY <1>3 DEF OpenAnew
  <2>2. c.b \in Backends
    BY SessionTypes, OutcomeType, ResultCodes DEF CloseForReopen, Outcomes, TypeOK
  <2>3. \A o \in psp_avc_backend_open(c.b, p) : o.b \in Backends
    BY <2>2, SessionTypes DEF Outcomes
  <2>4. \A o \in psp_avc_backend_open(c.b, p) :
          \A k \in psp_avc_backend_close(o.b) : k.b \in Backends
    BY <2>3, SessionTypes DEF Outcomes
  <2>5. profile_change_target \in Profiles
    BY DEF TypeOK
  <2> QED BY <1>2, <2>1, <2>2, <2>3, <2>4, <2>5
<1> QED BY <1>1, <1>3 DEF psp_avc_player_open_profile

\* The UI thread's steps.
LEMMA MainTypes ==
  ASSUME TypeOK, Control, Main
  PROVE  TypeOK'
<1> USE DEF decoderVars, presenterVars
<1>1. CASE MainTake
  <2>1. SlotsTypeOK' /\ queued \in Slots
    BY <1>1 DEF MainTake, avc_frame_slots_take, TypeOK, SlotsTypeOK, SlotStates
  <2>2. frame_id[queued] \in Nat
    BY <2>1 DEF TypeOK, SlotsTypeOK
  <2> QED BY <1>1, <2>1, <2>2 DEF MainTake, playerVars, TypeOK, MainStates
<1>2. CASE MainDisplay
  BY <1>2 DEF MainDisplay, playerVars, slotVars, TypeOK, SlotsTypeOK, MainStates
<1>3. CASE MainReleasePrevious
  <2>1. SlotsTypeOK'
    BY <1>3 DEF MainReleasePrevious, avc_frame_slots_release, slotVars,
                TypeOK, SlotsTypeOK, SlotStates
  <2> QED BY <1>3, <2>1 DEF MainReleasePrevious, playerVars, TypeOK, MainStates
<1>4. CASE MainReleaseFrame
  <2>1. SlotsTypeOK'
    BY <1>4 DEF MainReleaseFrame, avc_frame_slots_release, slotVars,
                TypeOK, SlotsTypeOK, SlotStates
  <2> QED BY <1>4, <2>1 DEF MainReleaseFrame, playerVars, TypeOK, MainStates
<1>5. CASE MainRepeat
  BY <1>5 DEF MainRepeat, playerVars, slotVars, TypeOK, SlotsTypeOK
<1>6. CASE MainForceRestart
  BY <1>6 DEF MainForceRestart, playerVars, slotVars, TypeOK, SlotsTypeOK
<1>7. CASE MainSwitchBegin \/ MainStop \/ MainJoin
  BY <1>7 DEF MainSwitchBegin, MainStop, MainJoin, playerVars, slotVars, TypeOK,
              SlotsTypeOK, MainStates
<1>8. CASE MainSwitchEnd
  <2>1. PICK o \in psp_avc_backend_switch_profile(backend, profile_change_target) :
          /\ backend' = o.b
          /\ profile_change_pending' \in {FALSE, profile_change_pending}
          /\ mpc' \in {"loop", "stopping"}
    BY <1>8 DEF MainSwitchEnd
  <2>2. o.b \in Backends
    BY SessionTypes DEF Outcomes, TypeOK
  <2>3. /\ UNCHANGED slotVars
        /\ UNCHANGED <<decoderVars, presenterVars, pixels, delivered, sema, pool,
                       output_sequence, profile_change_target, profile_decode_active>>
    BY <1>8 DEF MainSwitchEnd
  <2>4. mpc' \in MainStates /\ profile_change_pending' \in BOOLEAN /\ backend' \in Backends
    BY <2>1, <2>2 DEF TypeOK, MainStates
  <2>5. SlotsTypeOK'
    BY <2>3 DEF slotVars, TypeOK, SlotsTypeOK
  <2> QED BY <2>3, <2>4, <2>5 DEF TypeOK
<1>9. CASE MainReleaseOwned
  <2>1. SlotsTypeOK'
    BY <1>9 DEF MainReleaseOwned, avc_frame_slots_release, slotVars,
                TypeOK, SlotsTypeOK, SlotStates
  <2> QED BY <1>9, <2>1 DEF MainReleaseOwned, playerVars, TypeOK, MainStates
<1>10. ASSUME UNCHANGED presenterVars, mpc' \in MainStates, pixels' \in [Slots -> 0..MaxSeq],
              \/ UNCHANGED decoderVars
              \/ /\ reset_needed' = FALSE
                 /\ UNCHANGED <<dpc, burst, au, reserved, result, count, refs_corrupted>>,
              /\ SlotsTypeOK' /\ backend' \in Backends /\ sema' \in BOOLEAN /\ pool' \in BOOLEAN
              /\ output_sequence' \in 0..MaxSeq /\ delivered' \in Nat
              /\ profile_change_pending' \in BOOLEAN /\ profile_decode_active' \in BOOLEAN
              /\ profile_change_target' \in Profiles
       PROVE  TypeOK'
  BY <1>10 DEF TypeOK
<1>11. CASE MainOpen \/ MainReopen
  <2>1. \E r \in {OK, FAILED} : psp_avc_player_open_profile("main", r)
    BY <1>11 DEF MainOpen, MainReopen
  <2>2. UNCHANGED <<presenterVars, pixels>> /\ UNCHANGED decoderVars
    BY <1>11 DEF MainOpen, MainReopen
  <2>3. mpc' \in MainStates /\ pixels' \in [Slots -> 0..MaxSeq]
    BY <1>11, <2>2 DEF MainOpen, MainReopen, MainStates, TypeOK
  <2> QED BY <2>1, <2>2, <2>3, <1>10, OpenType, "main" \in Profiles DEF Profiles
<1>12. CASE MainClose \/ MainExitClose \/ MainStartFails \/ (MainReclose /\ IsOpen)
  <2>1. PICK o \in psp_avc_player_close : ClosePlayer(o)
    BY <1>12 DEF MainClose, MainExitClose, MainStartFails, MainReclose
  <2>2. UNCHANGED presenterVars /\ UNCHANGED sema
    BY <1>12 DEF MainClose, MainExitClose, MainStartFails, MainReclose
  <2>3. mpc' \in MainStates
    BY <1>12 DEF MainClose, MainExitClose, MainStartFails, MainReclose, MainStates
  <2>4. \/ UNCHANGED decoderVars
        \/ /\ reset_needed' = FALSE
           /\ UNCHANGED <<dpc, burst, au, reserved, result, count, refs_corrupted>>
    BY <1>12 DEF MainClose, MainExitClose, MainStartFails, MainReclose
  <2>5. sema' \in BOOLEAN
    BY <2>2 DEF TypeOK
  <2> HIDE DEF decoderVars, presenterVars
  <2> QED BY <2>1, <2>2, <2>3, <2>4, <2>5, <1>10, ClosePlayerType
<1>13. CASE MainReclose /\ ~ IsOpen
  BY <1>13 DEF MainReclose, slotVars, TypeOK, SlotsTypeOK, MainStates
<1>14. CASE MainStart
  <2>1. mpc' \in MainStates /\ dpc' \in DecoderStates /\ reset_needed' \in BOOLEAN
    BY <1>14 DEF MainStart, MainStates, DecoderStates
  <2>2. burst' \in 0..MaxBurst
    BY <1>14, BoundsAssumption DEF MainStart
  <2>3. /\ UNCHANGED <<slotVars, playerVars, presenterVars, pixels, delivered, au,
                       reserved, result, count, refs_corrupted>>
    BY <1>14 DEF MainStart
  <2> QED BY <2>1, <2>2, <2>3 DEF playerVars, slotVars, TypeOK, SlotsTypeOK
<1>15. CASE MainExitDestroy
  <2>1. PICK o \in psp_avc_player_close :
          \/ ClosePlayer(o) /\ sema' \in {sema, FALSE} /\ mpc' = "menu"
          \/ /\ CloseBackend(o) /\ pool' = FALSE /\ sema' = FALSE
             /\ avc_frame_slots_init
             /\ IF sema THEN output_sequence' = 0 /\ delivered' = 0
                ELSE UNCHANGED <<output_sequence, delivered>>
             /\ mpc' = "exited"
    BY <1>15 DEF MainExitDestroy
  <2>2. UNCHANGED presenterVars /\ UNCHANGED decoderVars
    BY <1>15 DEF MainExitDestroy
  <2>3. mpc' \in MainStates /\ sema' \in BOOLEAN
    BY <2>1 DEF MainStates, TypeOK
  <2>4. pool' \in BOOLEAN /\ output_sequence' \in 0..MaxSeq /\ delivered' \in Nat
    <3>1. CASE ClosePlayer(o)
      BY <3>1, ClosePlayerType
    <3>2. CASE ~ ClosePlayer(o)
      <4>1. /\ pool' = FALSE
            /\ IF sema THEN output_sequence' = 0 /\ delivered' = 0
               ELSE output_sequence' = output_sequence /\ delivered' = delivered
        BY <2>1, <3>2, Zenon
      <4>2. output_sequence \in 0..MaxSeq /\ delivered \in Nat /\ 0 \in 0..MaxSeq
        BY BoundsAssumption DEF TypeOK
      <4>3. pool' \in BOOLEAN
        BY <4>1, Zenon
      <4>4. output_sequence' \in 0..MaxSeq /\ delivered' \in Nat
        <5>1. output_sequence' \in {0, output_sequence} /\ delivered' \in {0, delivered}
          BY <4>1, Zenon
        <5> QED BY <5>1, <4>2
      <4> QED BY <4>3, <4>4
    <3> QED BY <3>1, <3>2
  <2> QED BY <2>1, <2>2, <2>3, <2>4, <1>10, ClosePlayerType
<1>16. CASE Terminated
  BY <1>16 DEF Terminated, vars, slotVars, playerVars, TypeOK, SlotsTypeOK
<1> QED BY <1>1, <1>2, <1>3, <1>4, <1>5, <1>6, <1>7, <1>8, <1>9, <1>11, <1>12, <1>13,
           <1>14, <1>15, <1>16 DEF Main

-----------------------------------------------------------------------------
(***************************************************************************)
(* Slot ownership.                                                          *)
(***************************************************************************)
\* A step that touches neither the pool nor the presenter's pointers, and
\* does not move the decoder between its two critical sections.
LEMMA OwnershipFrame ==
  ASSUME SlotOwnership, UNCHANGED <<state, queued, owned, previous, frame>>,
         \/ dpc \notin Writing /\ dpc' \notin Writing
         \/ dpc \in Writing /\ dpc' \in Writing /\ reserved' = reserved
  PROVE  SlotOwnership'
BY DEF SlotOwnership, Held, Members

\* The reserved slots are three, so publish is never refused.
LEMMA Publishable ==
  ASSUME TypeOK, SlotOwnership, Control, dpc \in Writing
  PROVE  CanPublish(reserved)
<1>1. /\ reserved[1] \in Int /\ reserved[2] \in Int /\ reserved[3] \in Int
      /\ reserved[1] < reserved[2] /\ reserved[2] < reserved[3]
      /\ Members(reserved) \subseteq Slots
  BY DEF TypeOK, Control, Triple, Members, Slots
<1>2. reserved[1] # reserved[2] /\ reserved[2] # reserved[3] /\ reserved[1] # reserved[3]
  BY <1>1
<1>3. Cardinality({reserved[1]}) = 1 /\ IsFiniteSet({reserved[1]})
  BY FS_Singleton
<1>4. {reserved[1], reserved[2]} = {reserved[1]} \cup {reserved[2]}
  OBVIOUS
<1>5. /\ IsFiniteSet({reserved[1], reserved[2]})
      /\ Cardinality({reserved[1], reserved[2]}) = 2
  BY <1>2, <1>3, <1>4, FS_AddElement
<1>6. Members(reserved) = {reserved[1], reserved[2]} \cup {reserved[3]}
  BY DEF Members
<1>7. Cardinality(Members(reserved)) = 3
  <2> DEFINE S == {reserved[1], reserved[2]}
  <2>1. IsFiniteSet(S) /\ Cardinality(S) = 2 /\ reserved[3] \notin S
    BY <1>2, <1>5
  <2>2. Members(reserved) = S \cup {reserved[3]}
    BY <1>6
  <2> HIDE DEF S
  <2> QED BY <2>1, <2>2, FS_AddElement
<1> QED BY <1>1, <1>7 DEF CanPublish, SlotOwnership

LEMMA DecoderOwnership ==
  ASSUME TypeOK, SlotOwnership, Control, Decoder
  PROVE  SlotOwnership'
<1> USE DEF slotVars, presenterVars, Writing
<1>1. CASE \/ DrainPacket \/ DecoderExit \/ PacketDone \/ AssemblerWritesRefs
           \/ CallbackCorrupt \/ CallbackDrop \/ CallbackAccept \/ ResetBackend
  BY <1>1, OwnershipFrame DEF DrainPacket, DecoderExit, PacketDone, AssemblerWritesRefs,
     CallbackCorrupt, CallbackDrop, CallbackAccept, ResetBackend
<1>2. CASE DecodeEnter \/ DecodeEnd
  BY <1>2, OwnershipFrame DEF DecodeEnter, DecodeEnd, DecodeReturns
<1>3. CASE DecodeSubmit \/ DecodeComplete
  BY <1>3, OwnershipFrame DEF DecodeSubmit, DecodeComplete
<1>4. CASE ResetDropQueued
  <2>1. dpc \notin Writing /\ dpc' \notin Writing
    BY <1>4 DEF ResetDropQueued
  <2>2. DropQueued /\ UNCHANGED <<owned, previous, frame>>
    BY <1>4 DEF ResetDropQueued
  <2> QED BY <2>1, <2>2 DEF DropQueued, SlotOwnership, Held, NoSlot, Slots,
                            TypeOK, SlotsTypeOK
<1>5. CASE DecodeReserve
  <2>1. CASE CanReserve
    <3>1. PICK r \in Triple : avc_frame_slots_reserve(r) /\ reserved' = r
      BY <1>5, <2>1 DEF DecodeReserve
    <3>2. dpc = "reserving" /\ dpc' = "reserved" /\ UNCHANGED <<owned, previous, frame>>
      BY <1>5, <2>1 DEF DecodeReserve
    <3>3. /\ \A s \in Members(r) : state[s] = "FREE"
          /\ state' = [s \in Slots |-> IF s \in Members(r) THEN "WRITING" ELSE state[s]]
          /\ queued' = queued
      BY <3>1 DEF avc_frame_slots_reserve, IsLowestFree, FreeSlots
    <3>4. Members(reserved)' = Members(r) /\ Held' = Held
      BY <3>1, <3>2 DEF Members, Held
    <3> QED BY <3>2, <3>3, <3>4 DEF SlotOwnership
  <2>2. CASE ~ CanReserve
    BY <1>5, <2>2, OwnershipFrame DEF DecodeReserve, DecodeReturns
  <2> QED BY <2>1, <2>2
<1>6. CASE DecodePublish
  <2>1. CanPublish(reserved) /\ dpc = "decoded" /\ dpc' = "published"
    BY <1>6, Publishable DEF DecodePublish
  <2>2. Held' = Held /\ avc_frame_slots_publish(reserved, count, output_sequence)
    BY <1>6 DEF DecodePublish, Held
  <2>3. Members(reserved) \subseteq Slots
    BY DEF TypeOK, Triple, Members
  <2>4. CASE count = 0
    BY <2>1, <2>2, <2>3, <2>4 DEF avc_frame_slots_publish, SlotOwnership
  <2>5. CASE count # 0
    <3>1. reserved[count] \in Members(reserved)
      BY <2>5 DEF TypeOK, Members
    <3>2. /\ state' = [s \in Slots |-> IF s = reserved[count] THEN "QUEUED"
                                    ELSE IF s \in Members(reserved) \cup {queued}
                                         THEN "FREE" ELSE state[s]]
          /\ queued' = reserved[count]
      BY <2>1, <2>2, <2>5 DEF avc_frame_slots_publish
    <3> QED BY <2>1, <2>2, <2>3, <3>1, <3>2 DEF SlotOwnership
  <2> QED BY <2>4, <2>5
<1> QED BY <1>1, <1>2, <1>3, <1>4, <1>5, <1>6 DEF Decoder

\* Idle: nothing is written or held, so an empty pool is as good as the old.
LEMMA IdleOwnership ==
  ASSUME TypeOK, SlotOwnership, Control, Idle, UNCHANGED presenterVars,
         dpc' = "off", UNCHANGED slotVars \/ avc_frame_slots_init
  PROVE  SlotOwnership'
<1>1. dpc = "off" /\ owned = NoSlot /\ previous = NoSlot /\ frame = NoSlot
  BY DEF Idle, Control, MainOnSlot
<1>2. Held = {} /\ Held' = {}
  BY <1>1 DEF Held, presenterVars
<1>3. CASE UNCHANGED slotVars
  BY <1>1, <1>3, OwnershipFrame DEF slotVars, presenterVars, Writing
<1>4. CASE avc_frame_slots_init
  BY <1>2, <1>4 DEF avc_frame_slots_init, SlotOwnership, Writing, NoSlot, Slots
<1> QED BY <1>3, <1>4

\* What the steps of an idle UI thread do to the pool.
LEMMA IdleSteps ==
  ASSUME \/ MainClose \/ MainOpen \/ MainReclose \/ MainReopen \/ MainStartFails
         \/ MainExitClose \/ MainExitDestroy
  PROVE  /\ Idle /\ Idle' /\ UNCHANGED presenterVars
         /\ UNCHANGED <<dpc, burst, au, reserved, result, count, refs_corrupted>>
         /\ UNCHANGED slotVars \/ avc_frame_slots_init
<1>1. Idle /\ Idle'
  BY DEF MainClose, MainOpen, MainReclose, MainReopen, MainStartFails, MainExitClose,
         MainExitDestroy, Idle
<1>2. /\ UNCHANGED presenterVars
      /\ UNCHANGED <<dpc, burst, au, reserved, result, count, refs_corrupted>>
  BY DEF MainClose, MainOpen, MainReclose, MainReopen, MainStartFails, MainExitClose,
         MainExitDestroy, decoderVars
<1>3. ASSUME NEW o, ClosePlayer(o) PROVE UNCHANGED slotVars \/ avc_frame_slots_init
  BY <1>3 DEF ClosePlayer
<1>4. ASSUME NEW p, NEW r, psp_avc_player_open_profile(p, r)
      PROVE  UNCHANGED slotVars \/ avc_frame_slots_init
  BY <1>4 DEF psp_avc_player_open_profile, OpenAnew, OpenFails, OpenSucceeds, OpenKeepsPool
<1>5. UNCHANGED slotVars \/ avc_frame_slots_init
  BY <1>3, <1>4 DEF MainClose, MainOpen, MainReclose, MainReopen, MainStartFails,
     MainExitClose, MainExitDestroy
<1> QED BY <1>1, <1>2, <1>5

LEMMA MainOwnership ==
  ASSUME TypeOK, SlotOwnership, Control, Main
  PROVE  SlotOwnership'
<1> USE DEF slotVars, presenterVars, decoderVars
<1>1. CASE \/ MainRepeat \/ MainForceRestart \/ MainSwitchBegin \/ MainSwitchEnd
           \/ MainStop \/ MainJoin
  BY <1>1, OwnershipFrame DEF MainRepeat, MainForceRestart, MainSwitchBegin,
     MainSwitchEnd, MainStop, MainJoin
<1>2. CASE MainTake
  <2>1. /\ frame = NoSlot /\ queued # NoSlot /\ queued \in Slots
        /\ state' = [state EXCEPT ![queued] = "HELD"]
        /\ queued' = NoSlot /\ frame' = queued
        /\ UNCHANGED <<dpc, reserved, owned, previous>>
    BY <1>2 DEF MainTake, avc_frame_slots_take, Control, MainOnSlot, TypeOK, SlotsTypeOK
  <2>2. Held' = Held \cup {queued} /\ Members(reserved)' = Members(reserved)
    BY <2>1 DEF Held, Members
  <2> QED BY <2>1, <2>2 DEF SlotOwnership, TypeOK, SlotsTypeOK, NoSlot, Slots
<1>3. CASE MainDisplay
  <2>1. previous = NoSlot /\ previous' = owned /\ frame' = frame /\ owned' \in {frame, NoSlot}
    BY <1>3 DEF MainDisplay, Control
  <2>2. Held' = Held
    BY <2>1 DEF Held
  <2>3. UNCHANGED <<state, queued, dpc, reserved>>
    BY <1>3 DEF MainDisplay
  <2> QED BY <2>2, <2>3 DEF SlotOwnership, Members
<1>4. CASE MainReleasePrevious
  <2>1. mpc = "shown" /\ previous' = NoSlot /\ UNCHANGED <<queued, dpc, reserved, owned, frame>>
    BY <1>4 DEF MainReleasePrevious, avc_frame_slots_release
  <2>2. CASE previous = NoSlot
    <3>1. state' = state
      BY <1>4, <2>2 DEF MainReleasePrevious
    <3> QED BY <2>1, <2>2, <3>1, OwnershipFrame
  <2>3. CASE previous # NoSlot
    <3>1. previous \in Slots /\ previous # frame /\ previous # owned
      BY <2>1, <2>3 DEF TypeOK, Control, MainOnSlot, NoSlot, Slots
    <3>2. previous \in Held
      BY <3>1, <2>3 DEF Held
    <3>3. state[previous] = "HELD"
      BY <3>1, <3>2 DEF SlotOwnership
    <3>4. state' = [state EXCEPT ![previous] = "FREE"]
      BY <1>4, <2>3, <3>1, <3>3 DEF MainReleasePrevious, avc_frame_slots_release
    <3>5. Held' = Held \ {previous} /\ Members(reserved)' = Members(reserved)
      BY <2>1, <3>1 DEF Held, Members
    <3> QED BY <2>1, <3>1, <3>3, <3>4, <3>5 DEF SlotOwnership, TypeOK, SlotsTypeOK
  <2> QED BY <2>2, <2>3
<1>5. CASE MainReleaseFrame
  <2>1. /\ mpc = "prevdone" /\ frame' = NoSlot
        /\ UNCHANGED <<queued, dpc, reserved, owned, previous>>
    BY <1>5 DEF MainReleaseFrame, avc_frame_slots_release
  <2>2. previous = NoSlot /\ frame # NoSlot /\ frame \in Slots
    BY <2>1 DEF Control, MainOnSlot, TypeOK
  <2>3. CASE last_frame = frame
    <3>1. state' = state
      BY <1>5, <2>3 DEF MainReleaseFrame
    <3>2. owned = frame
      BY <2>1, <2>2, <2>3 DEF Control
    <3>3. Held' = Held /\ Members(reserved)' = Members(reserved)
      BY <2>1, <2>2, <3>2 DEF Held, Members
    <3> QED BY <2>1, <3>1, <3>3 DEF SlotOwnership
  <2>4. CASE last_frame # frame
    <3>1. owned = NoSlot
      BY <2>1, <2>4 DEF Control
    <3>2. Held = {frame} /\ Held' = {} /\ Members(reserved)' = Members(reserved)
      BY <2>1, <2>2, <3>1 DEF Held, Members
    <3>3. state[frame] = "HELD"
      BY <2>2, <3>2 DEF SlotOwnership
    <3>4. state' = [state EXCEPT ![frame] = "FREE"]
      BY <1>5, <2>2, <2>4, <3>3 DEF MainReleaseFrame, avc_frame_slots_release
    <3> QED BY <2>1, <2>2, <3>2, <3>3, <3>4 DEF SlotOwnership, TypeOK, SlotsTypeOK
  <2> QED BY <2>3, <2>4
<1>6. CASE MainReleaseOwned
  <2>1. /\ mpc = "release" /\ owned' = NoSlot
        /\ UNCHANGED <<queued, dpc, reserved, frame, previous>>
    BY <1>6 DEF MainReleaseOwned, avc_frame_slots_release
  <2>2. previous = NoSlot /\ frame = NoSlot
    BY <2>1 DEF Control, MainOnSlot
  <2>3. CASE owned = NoSlot
    <3>1. state' = state
      BY <1>6, <2>3 DEF MainReleaseOwned
    <3> QED BY <2>1, <2>3, <3>1, OwnershipFrame
  <2>4. CASE owned # NoSlot
    <3>1. Held = {owned} /\ Held' = {} /\ Members(reserved)' = Members(reserved)
      BY <2>1, <2>2, <2>4 DEF Held, Members
    <3>2. owned \in Slots /\ state[owned] = "HELD"
      BY <2>4, <3>1 DEF SlotOwnership, TypeOK
    <3>3. state' = [state EXCEPT ![owned] = "FREE"]
      BY <1>6, <2>4, <3>2 DEF MainReleaseOwned, avc_frame_slots_release
    <3> QED BY <2>1, <3>1, <3>2, <3>3 DEF SlotOwnership, TypeOK, SlotsTypeOK
  <2> QED BY <2>3, <2>4
<1>7. CASE \/ MainClose \/ MainOpen \/ MainReclose \/ MainReopen \/ MainStartFails
           \/ MainExitClose \/ MainExitDestroy
  <2>1. Idle /\ dpc = "off"
    BY <1>7, IdleSteps DEF Control
  <2> QED BY <1>7, <2>1, IdleSteps, IdleOwnership
<1>8. CASE MainStart
  <2>1. Idle /\ dpc = "off"
    BY <1>8 DEF MainStart, Idle, Control
  <2> QED BY <1>8, <2>1, OwnershipFrame DEF MainStart, Writing
<1>9. CASE Terminated
  BY <1>9, OwnershipFrame DEF Terminated, vars
<1> QED BY <1>1, <1>2, <1>3, <1>4, <1>5, <1>6, <1>7, <1>8, <1>9 DEF Main

-----------------------------------------------------------------------------
(***************************************************************************)
(* The control invariant.                                                   *)
(***************************************************************************)
LEMMA DecoderControl ==
  ASSUME TypeOK, Control, Decoder
  PROVE  Control'
<1> USE DEF presenterVars, slotVars, playerVars
<1>1. dpc # "off" /\ UNCHANGED <<mpc, frame, previous, owned, last_frame, sema>>
  BY DEF Decoder, DrainPacket, DecoderExit, PacketDone, AssemblerWritesRefs, CallbackCorrupt,
     CallbackDrop, CallbackAccept, ResetBackend, ResetDropQueued, DecodeEnter, DecodeReserve,
     DecodeSubmit, DecodeComplete, DecodePublish, DecodeEnd
<1>2. sema /\ ~ (mpc \in {"release"} \/ Idle)
  BY <1>1 DEF Control
<1>3. (InCallback => burst > 0)'
  <2>1. CASE CallbackAccept \/ ResetBackend \/ DecodeSubmit \/ DecodeComplete \/ DecodePublish
    BY <2>1 DEF CallbackAccept, ResetBackend, DecodeSubmit, DecodeComplete, DecodePublish,
       Control, InCallback
  <2>2. CASE ResetDropQueued \/ DecodeEnter \/ DecodeReserve \/ DecodeEnd
    BY <2>2 DEF ResetDropQueued, DecodeEnter, DecodeReserve, DecodeEnd, DecodeReturns,
       Control, InCallback
  <2>3. CASE \/ DrainPacket \/ DecoderExit \/ PacketDone \/ AssemblerWritesRefs
             \/ CallbackCorrupt \/ CallbackDrop
    BY <2>3 DEF DrainPacket, DecoderExit, PacketDone, AssemblerWritesRefs, CallbackCorrupt,
       CallbackDrop, InCallback
  <2> QED BY <2>1, <2>2, <2>3 DEF Decoder
<1>4. (dpc \in Writing => reserved[1] < reserved[2] /\ reserved[2] < reserved[3])'
  <2>1. CASE DecodeReserve
    <3>1. CASE CanReserve
      BY <2>1, <3>1 DEF DecodeReserve, avc_frame_slots_reserve, IsLowestFree
    <3>2. CASE ~ CanReserve
      BY <2>1, <3>2 DEF DecodeReserve, DecodeReturns, Writing
    <3> QED BY <3>1, <3>2
  <2>2. CASE ~ DecodeReserve
    <3>1. dpc' \in Writing => dpc \in Writing /\ reserved' = reserved
      BY <2>2 DEF Decoder, DrainPacket, DecoderExit, PacketDone, AssemblerWritesRefs,
         CallbackCorrupt, CallbackDrop, CallbackAccept, ResetBackend, ResetDropQueued,
         DecodeEnter, DecodeSubmit, DecodeComplete, DecodePublish, DecodeEnd,
         DecodeReturns, Writing
    <3> QED BY <3>1 DEF Control
  <2> QED BY <2>1, <2>2
<1> QED BY <1>1, <1>2, <1>3, <1>4 DEF Control, MainOnSlot, Idle

\* A closed player has an empty queue.
LEMMA CloseEmpties ==
  ASSUME TypeOK, Control, NEW o \in psp_avc_player_close, ClosePlayer(o), o.r = OK
  PROVE  queued' = NoSlot
BY DEF ClosePlayer, avc_frame_slots_init, Control, slotVars

LEMMA MainControl ==
  ASSUME TypeOK, SlotOwnership, Control, Main
  PROVE  Control'
<1> USE DEF slotVars, presenterVars, decoderVars, playerVars
<1>1. ASSUME UNCHANGED <<dpc, burst, reserved, sema>>, queued' \in {queued, NoSlot}
      PROVE  /\ (InCallback => burst > 0)'
             /\ (dpc \in Writing => reserved[1] < reserved[2] /\ reserved[2] < reserved[3])'
             /\ (~ sema => queued = NoSlot)'
             /\ (dpc # "off" => sema)'
  BY <1>1 DEF Control, InCallback
<1>2. CASE MainTake
  <2>1. queued \in Slots /\ state[queued] = "QUEUED" /\ frame = NoSlot
    BY <1>2 DEF MainTake, avc_frame_slots_take, SlotOwnership, TypeOK, SlotsTypeOK,
       Control, MainOnSlot
  <2>2. owned # queued
    BY <2>1 DEF SlotOwnership, Held, NoSlot, Slots
  <2>3. /\ mpc = "loop" /\ mpc' = "taken" /\ frame' = queued /\ queued' = NoSlot
        /\ UNCHANGED <<dpc, burst, reserved, sema, previous, owned, last_frame>>
    BY <1>2 DEF MainTake, avc_frame_slots_take
  <2>4. frame' # NoSlot
    BY <2>1, <2>3 DEF NoSlot, Slots
  <2> QED BY <2>2, <2>3, <2>4, <1>1 DEF Control, MainOnSlot, Idle
<1>3. CASE MainDisplay
  <2>1. /\ mpc = "taken" /\ mpc' = "shown" /\ frame' = frame /\ previous' = owned
        /\ UNCHANGED <<dpc, burst, reserved, sema, queued>>
        /\ \/ last_frame' = frame /\ owned' = frame
           \/ last_frame' = COPY /\ owned' \in {frame, NoSlot}
    BY <1>3 DEF MainDisplay
  <2>2. frame \in Slots /\ frame # NoSlot /\ frame # COPY /\ owned # frame /\ COPY \notin Slots
    BY <2>1 DEF Control, MainOnSlot, TypeOK, Slots, COPY
  <2>3. \/ last_frame' = frame /\ owned' = frame
        \/ last_frame' = COPY /\ owned' = NoSlot
    BY <1>3, <2>2 DEF MainDisplay
  <2> QED BY <2>1, <2>2, <2>3, <1>1 DEF Control, MainOnSlot, Idle
<1>4. CASE MainReleasePrevious
  <2>1. /\ mpc = "shown" /\ mpc' = "prevdone" /\ previous' = NoSlot
        /\ UNCHANGED <<dpc, burst, reserved, sema, queued, frame, owned, last_frame>>
    BY <1>4 DEF MainReleasePrevious, avc_frame_slots_release
  <2> QED BY <2>1, <1>1 DEF Control, MainOnSlot, Idle
<1>5. CASE MainReleaseFrame
  <2>1. /\ mpc = "prevdone" /\ mpc' = "loop" /\ frame' = NoSlot
        /\ UNCHANGED <<dpc, burst, reserved, sema, queued, previous, owned, last_frame>>
    BY <1>5 DEF MainReleaseFrame, avc_frame_slots_release
  <2> QED BY <2>1, <1>1 DEF Control, MainOnSlot, Idle
<1>6. CASE MainRepeat
  <2>1. /\ mpc = "loop" /\ mpc' = mpc /\ last_frame' = COPY
        /\ UNCHANGED <<dpc, burst, reserved, sema, queued, previous, owned, frame>>
    BY <1>6 DEF MainRepeat
  <2>2. COPY \notin Slots
    BY SlotsAssumption DEF COPY, Slots
  <2> QED BY <2>1, <2>2, <1>1 DEF Control, MainOnSlot, Idle
<1>7. CASE \/ MainForceRestart \/ MainSwitchBegin \/ MainSwitchEnd \/ MainStop
  <2>1. /\ mpc \in {"loop", "switching"} /\ mpc' \in {"loop", "switching", "stopping"}
        /\ UNCHANGED <<dpc, burst, reserved, sema, queued, previous, owned, frame, last_frame>>
    BY <1>7 DEF MainForceRestart, MainSwitchBegin, MainSwitchEnd, MainStop
  <2> QED BY <2>1, <1>1 DEF Control, MainOnSlot, Idle
<1>8. CASE MainJoin
  <2>1. /\ mpc = "stopping" /\ mpc' = "release" /\ dpc = "off"
        /\ UNCHANGED <<dpc, burst, reserved, sema, queued, previous, owned, frame, last_frame>>
    BY <1>8 DEF MainJoin
  <2> QED BY <2>1, <1>1 DEF Control, MainOnSlot, Idle
<1>9. CASE MainReleaseOwned
  <2>1. /\ mpc = "release" /\ mpc' = "closing" /\ owned' = NoSlot /\ last_frame' = NoSlot
        /\ UNCHANGED <<dpc, burst, reserved, sema, queued, previous, frame>>
    BY <1>9 DEF MainReleaseOwned, avc_frame_slots_release
  <2>2. NoSlot \notin Slots
    BY SlotsAssumption DEF NoSlot, Slots
  <2> QED BY <2>1, <2>2, <1>1 DEF Control, MainOnSlot, Idle
<1>10. ASSUME \/ MainClose \/ MainOpen \/ MainReclose \/ MainReopen \/ MainStartFails
              \/ MainExitClose \/ MainExitDestroy,
              (~ sema => queued = NoSlot)'
       PROVE  Control'
  <2>1. /\ Idle /\ Idle' /\ dpc = "off"
        /\ UNCHANGED <<dpc, burst, reserved, previous, owned, frame, last_frame>>
    BY <1>10, IdleSteps DEF Control
  <2>2. frame = NoSlot /\ previous = NoSlot /\ owned = NoSlot /\ last_frame = NoSlot
    BY <2>1 DEF Control, Idle, MainOnSlot
  <2>3. NoSlot \notin Slots
    BY SlotsAssumption DEF NoSlot, Slots
  <2>4. mpc' \notin {"taken", "shown", "prevdone"}
    BY <2>1 DEF Idle
  <2> QED BY <1>10, <2>1, <2>2, <2>3, <2>4 DEF Control, InCallback, Writing, MainOnSlot
<1>11. CASE MainClose \/ MainReclose \/ MainStartFails \/ MainExitClose
  <2>1. sema' = sema
    BY <1>11 DEF MainClose, MainReclose, MainStartFails, MainExitClose
  <2>2. queued' \in {queued, NoSlot}
    BY <1>11, IdleSteps DEF avc_frame_slots_init
  <2> QED BY <1>10, <1>11, <2>1, <2>2 DEF Control
<1>12. CASE MainOpen \/ MainReopen
  <2>1. sema' = sema \/ sema' = TRUE
    BY <1>12 DEF MainOpen, MainReopen, psp_avc_player_open_profile, OpenAnew, OpenFails,
       OpenSucceeds, OpenKeepsPool
  <2>2. queued' \in {queued, NoSlot}
    BY <1>12, IdleSteps DEF avc_frame_slots_init
  <2> QED BY <1>10, <1>12, <2>1, <2>2 DEF Control
<1>13. CASE MainExitDestroy
  <2>1. PICK o \in psp_avc_player_close :
       \/ ClosePlayer(o) /\ UNCHANGED sema
       \/ o.r = OK /\ ClosePlayer(o)
       \/ avc_frame_slots_init
    BY <1>13 DEF MainExitDestroy
  <2>2. (~ sema => queued = NoSlot)'
    <3>1. CASE ClosePlayer(o) /\ UNCHANGED sema
      BY <3>1 DEF ClosePlayer, avc_frame_slots_init, Control
    <3>2. CASE o.r = OK /\ ClosePlayer(o)
      BY <3>2, CloseEmpties
    <3>3. CASE avc_frame_slots_init
      BY <3>3 DEF avc_frame_slots_init
    <3> QED BY <2>1, <3>1, <3>2, <3>3
  <2> QED BY <1>10, <1>13, <2>2
<1>14. CASE MainStart
  <2>1. /\ mpc = "menu" /\ mpc' = "loop" /\ dpc' = "drain" /\ sema
        /\ UNCHANGED <<sema, queued, previous, owned, frame, last_frame>>
    BY <1>14 DEF MainStart, IsReady
  <2> QED BY <2>1 DEF Control, MainOnSlot, Idle, InCallback, Writing
<1>15. CASE Terminated
  BY <1>15 DEF Terminated, vars, Control, MainOnSlot, Idle, InCallback
<1> QED BY <1>2, <1>3, <1>4, <1>5, <1>6, <1>7, <1>8, <1>9, <1>11, <1>12, <1>13, <1>14, <1>15
        DEF Main

-----------------------------------------------------------------------------
(***************************************************************************)
(* How pictures are numbered.                                               *)
(***************************************************************************)
\* The slot of the queue and the presenter's slots are not the decoder's.
LEMMA DecoderWritesElsewhere ==
  ASSUME TypeOK, SlotOwnership, Control, dpc \in Writing
  PROVE  /\ queued \notin Members(reserved)
         /\ last_frame \in Slots => last_frame \notin Members(reserved)
         /\ frame # NoSlot => frame \notin Members(reserved)
<1>1. Members(reserved) \subseteq Slots
  BY DEF TypeOK, Triple, Members
<1>2. \A s \in Members(reserved) : s # queued /\ s \notin Held
  BY <1>1 DEF SlotOwnership
<1>3. last_frame \in Slots => last_frame \in Held
  BY DEF Control, Held, NoSlot, Slots
<1>4. frame # NoSlot => frame \in Held
  BY DEF Held
<1> QED BY <1>2, <1>3, <1>4

\* Sequence numbers, kept by every step of the decoder ...
LEMMA DecoderPictures ==
  ASSUME TypeOK, SlotOwnership, Control, PictureHistory, Decoder
  PROVE  PictureHistory'
<1> USE DEF slotVars, presenterVars, playerVars
<1>1. CASE DecodePublish
  <2>1. /\ dpc = "decoded" /\ dpc \in Writing /\ dpc' # "decoded"
        /\ avc_frame_slots_publish(reserved, count, output_sequence)
    BY <1>1 DEF DecodePublish, Writing
  <2>2. CASE count = 0
    BY <2>1, <2>2 DEF avc_frame_slots_publish, PictureHistory
  <2>3. CASE count # 0
    <3>1. reserved[count] \in Slots /\ output_sequence > 0
      BY <2>1, <2>3 DEF TypeOK, Triple, PictureHistory
    <3>2. /\ queued' = reserved[count]
          /\ frame_id' = [frame_id EXCEPT ![reserved[count]] = output_sequence]
      BY <2>1, <2>3, Publishable DEF avc_frame_slots_publish
    <3>3. frame_id'[queued'] = output_sequence
      BY <3>1, <3>2 DEF TypeOK, SlotsTypeOK
    <3> QED BY <2>1, <3>1, <3>2, <3>3 DEF PictureHistory
  <2> QED BY <2>2, <2>3
<1>2. CASE DecodeComplete
  <2>1. PICK o \in psp_avc_backend_decode(backend, au) :
          count' = o.count /\ output_sequence' = output_sequence + o.count
    BY <1>2 DEF DecodeComplete
  <2>2. o.count \in 0..3
    BY DecodeType DEF TypeOK, Outcomes
  <2>3. output_sequence' >= count' /\ UNCHANGED <<queued, frame_id>>
    BY <1>2, <2>1, <2>2 DEF TypeOK, DecodeComplete
  <2> QED BY <2>3 DEF PictureHistory
<1>3. CASE ~ DecodePublish /\ ~ DecodeComplete
  <2>1. dpc' # "decoded" /\ queued' \in {queued, NoSlot} /\ frame_id' = frame_id
    BY <1>3 DEF Decoder, DrainPacket, DecoderExit, PacketDone, AssemblerWritesRefs,
       CallbackCorrupt, CallbackDrop, CallbackAccept, ResetBackend, ResetDropQueued,
       DropQueued, DecodeEnter, DecodeReserve, DecodeSubmit, DecodeEnd, DecodeReturns,
       avc_frame_slots_reserve
  <2> QED BY <2>1 DEF PictureHistory
<1> QED BY <1>1, <1>2, <1>3

\* ... and of the UI thread.
LEMMA MainPictures ==
  ASSUME TypeOK, Control, PictureHistory, Main
  PROVE  PictureHistory'
<1> USE DEF slotVars, presenterVars, decoderVars, playerVars
<1>1. CASE \/ MainClose \/ MainOpen \/ MainReclose \/ MainReopen \/ MainStartFails
           \/ MainExitClose \/ MainExitDestroy
  <2>1. dpc' = "off" /\ (queued' = NoSlot \/ UNCHANGED <<queued, frame_id>>)
    BY <1>1, IdleSteps DEF Control, avc_frame_slots_init
  <2> QED BY <2>1 DEF PictureHistory
<1>2. CASE MainStart
  BY <1>2 DEF MainStart, PictureHistory
<1>3. CASE \/ MainTake \/ MainDisplay \/ MainReleasePrevious \/ MainReleaseFrame \/ MainRepeat
           \/ MainForceRestart \/ MainSwitchBegin \/ MainSwitchEnd \/ MainStop \/ MainJoin
           \/ MainReleaseOwned \/ Terminated
  <2>1. /\ UNCHANGED <<frame_id, dpc, output_sequence, count>>
        /\ queued' \in {queued, NoSlot}
    BY <1>3 DEF MainTake, MainDisplay, MainReleasePrevious, MainReleaseFrame, MainRepeat,
       MainForceRestart, MainSwitchBegin, MainSwitchEnd, MainStop, MainJoin,
       MainReleaseOwned, Terminated, vars, avc_frame_slots_take, avc_frame_slots_release
  <2> QED BY <2>1 DEF PictureHistory
<1> QED BY <1>1, <1>2, <1>3 DEF Main

-----------------------------------------------------------------------------
(***************************************************************************)
(* Profile changes and pictures exclude each other.                         *)
(***************************************************************************)
\* An input state that would accept a predicted frame, in a working backend
\* that never saw an IDR: only a backend waiting for its profile is in it.
Unseeded(b) == b.avcc /\ ~ b.failed /\ ~ b.need_idr /\ ~ b.first_idr

\* What avc_stream_input_prepare does to the flags.
LEMMA PrepareFlags ==
  ASSUME NEW b \in Backends, NEW a \in AccessUnits
  PROVE  LET in == avc_stream_input_prepare(b, a)
         IN  /\ in.b.avcc = b.avcc /\ in.b.failed = b.failed
             /\ in.b.first_idr = b.first_idr
             /\ in.r = OK => ~ b.need_idr \/ HasIdr(a)
             /\ in.r # OK => (b.need_idr => in.b.need_idr)
<1> DEFINE in == avc_stream_input_prepare(b, a)
           c == CachedPar(b, a)
           B1 == [b EXCEPT !.need_idr = TRUE]
           B2 == [b EXCEPT !.par = c]
           B3 == [b EXCEPT !.need_idr = TRUE, !.par = c]
           B4 == [b EXCEPT !.need_idr = FALSE, !.par = c]
<1>1. \/ in = Outcome(B1, FAILED)
      \/ in = Outcome(B1, PARAMETER_CHANGE)
      \/ in = Outcome(B2, PARAMETERS)
      \/ in = Outcome(B3, NEED_IDR)
      \/ in = Outcome(B4, OK) /\ (~ b.need_idr \/ HasIdr(a))
  BY DEF avc_stream_input_prepare
<1>2. c \in Profiles \cup {"none"}
  BY DEF CachedPar, Backends, AccessUnits
<1> HIDE DEF c, in
<1>3. /\ B1 \in Backends /\ B1.avcc = b.avcc /\ B1.failed = b.failed
      /\ B1.first_idr = b.first_idr /\ B1.need_idr = TRUE
  BY DEF Backends
<1>4. /\ B2 \in Backends /\ B2.avcc = b.avcc /\ B2.failed = b.failed
      /\ B2.first_idr = b.first_idr /\ B2.need_idr = b.need_idr
  BY <1>2 DEF Backends
<1>5. /\ B3 \in Backends /\ B3.avcc = b.avcc /\ B3.failed = b.failed
      /\ B3.first_idr = b.first_idr /\ B3.need_idr = TRUE
  BY <1>2 DEF Backends
<1>6. /\ B4 \in Backends /\ B4.avcc = b.avcc /\ B4.failed = b.failed
      /\ B4.first_idr = b.first_idr
  BY <1>2 DEF Backends
<1> HIDE DEF B1, B2, B3, B4
<1>7. CASE in = Outcome(B1, FAILED) \/ in = Outcome(B1, PARAMETER_CHANGE)
  <2>1. in.b = B1 /\ in.r # OK
    BY <1>3, <1>7, OutcomeType, ResultCodes
  <2> QED BY <2>1, <1>3 DEF in
<1>8. CASE in = Outcome(B2, PARAMETERS)
  <2>1. in.b = B2 /\ in.r # OK
    BY <1>4, <1>8, OutcomeType, ResultCodes
  <2> QED BY <2>1, <1>4 DEF in
<1>9. CASE in = Outcome(B3, NEED_IDR)
  <2>1. in.b = B3 /\ in.r # OK
    BY <1>5, <1>9, OutcomeType, ResultCodes
  <2> QED BY <2>1, <1>5 DEF in
<1>10. CASE in = Outcome(B4, OK) /\ (~ b.need_idr \/ HasIdr(a))
  <2>1. in.b = B4 /\ in.r = OK
    BY <1>6, <1>10, OutcomeType, ResultCodes
  <2> QED BY <2>1, <1>6, <1>10 DEF in
<1> QED BY <1>1, <1>7, <1>8, <1>9, <1>10

\* psp_avc_backend_decode on a backend that is not unseeded.
LEMMA DecodeFlags ==
  ASSUME NEW b \in Backends, NEW a \in AccessUnits,
         NEW o \in psp_avc_backend_decode(b, a), ~ Unseeded(b)
  PROVE  /\ o.count > 0 => o.b.first_idr
         /\ b.first_idr => o.b.first_idr
         /\ o.r = PROFILE_CHANGE_REQUIRED => ~ o.b.first_idr
         /\ Unseeded(o.b) => o.r = PROFILE_CHANGE_REQUIRED
<1> DEFINE in == avc_stream_input_prepare(b, a)
           Goal == /\ o.count > 0 => o.b.first_idr
                   /\ b.first_idr => o.b.first_idr
                   /\ o.r = PROFILE_CHANGE_REQUIRED => ~ o.b.first_idr
                   /\ Unseeded(o.b) => o.r = PROFILE_CHANGE_REQUIRED
<1>1. /\ in \in Outcomes /\ in.count = 0 /\ in.r # PROFILE_CHANGE_REQUIRED
      /\ in.r = OK => in.b.par \in Profiles
  BY PrepareType
<1>2. /\ in.b.avcc = b.avcc /\ in.b.failed = b.failed /\ in.b.first_idr = b.first_idr
      /\ in.r = OK => ~ b.need_idr \/ HasIdr(a)
      /\ in.r # OK => (b.need_idr => in.b.need_idr)
  BY PrepareFlags
<1>3. \/ (~ b.avcc \/ b.failed) /\ o = Outcome(b, FAILED)
      \/ in.r # OK /\ o = Fail(in.b, in.r)
      \/ in.r # OK /\ o = in
      \/ o = Fail(in.b, FAILED)
      \/ in.r = OK /\ o = AskForProfile(in.b)
      \/ in.r = OK /\ b.avcc /\ ~ b.failed /\ o \in psp_avc_submit(in.b, a)
  BY <1>1 DEF psp_avc_backend_decode, Outcomes, Results, OK
<1> HIDE DEF in
<1>4. in.b \in Backends /\ in.r \in Results
  BY <1>1 DEF Outcomes
<1>5. CASE (~ b.avcc \/ b.failed) /\ o = Outcome(b, FAILED)
  <2>1. o.b = b /\ o.r = FAILED /\ o.count = 0
    BY <1>5, OutcomeType, ResultCodes
  <2> QED BY <1>5, <2>1, ResultCodes DEF Unseeded
<1>6. ASSUME NEW c \in Backends, NEW r \in Results, r # PROFILE_CHANGE_REQUIRED,
             c.first_idr = b.first_idr, o = Fail(c, r)
      PROVE  Goal
  <2>1. /\ o.b = [c EXCEPT !.failed = TRUE] /\ o.r = r /\ o.count = 0
    BY <1>6, FailType
  <2>2. o.b.failed /\ o.b.first_idr = b.first_idr
    BY <1>6, <2>1 DEF Backends
  <2> QED BY <1>6, <2>1, <2>2 DEF Unseeded
<1>7. CASE in.r # OK /\ o = Fail(in.b, in.r)
  BY <1>1, <1>2, <1>4, <1>6, <1>7
<1>8. CASE o = Fail(in.b, FAILED)
  BY <1>2, <1>4, <1>6, <1>8, ResultCodes
<1>9. CASE in.r # OK /\ o = in
  <2>1. o.count = 0 /\ o.r # PROFILE_CHANGE_REQUIRED
    BY <1>1, <1>9
  <2>2. o.b.first_idr = b.first_idr /\ (b.need_idr => o.b.need_idr)
    BY <1>2, <1>9
  <2>3. o.b.avcc = b.avcc /\ o.b.failed = b.failed
    BY <1>2, <1>9
  <2> QED BY <2>1, <2>2, <2>3 DEF Unseeded
<1>10. CASE in.r = OK /\ o = AskForProfile(in.b)
  <2> DEFINE d == [in.b EXCEPT !.change = TRUE, !.req = in.b.par]
  <2>1. CASE in.b.first_idr
    BY <1>2, <1>4, <1>6, <1>10, <2>1, ResultCodes DEF AskForProfile
  <2>2. CASE ~ in.b.first_idr
    <3>1. d \in Backends /\ d.first_idr = in.b.first_idr
      BY <1>1, <1>4, <1>10 DEF Backends
    <3>2. o = Outcome(d, PROFILE_CHANGE_REQUIRED)
      BY <1>10, <2>2 DEF AskForProfile
    <3> HIDE DEF d
    <3>3. o.b = d /\ o.r = PROFILE_CHANGE_REQUIRED /\ o.count = 0
      BY <3>1, <3>2, OutcomeType, ResultCodes
    <3> QED BY <1>2, <2>2, <3>1, <3>3
  <2> QED BY <2>1, <2>2
<1>11. CASE in.r = OK /\ b.avcc /\ ~ b.failed /\ o \in psp_avc_submit(in.b, a)
  <2> DEFINE d == [in.b EXCEPT !.first_idr = in.b.first_idr \/ HasIdr(a)]
             e == [in.b EXCEPT !.ready = FALSE]
  <2>1. \/ \E n \in 0..3 : o = [b |-> d, r |-> OK, count |-> n]
        \/ o = Fail(in.b, FAILED)
        \/ o = Fail(e, FAILED)
    BY <1>11 DEF psp_avc_submit
  <2>2. d.first_idr = (in.b.first_idr \/ HasIdr(a))
    BY <1>4 DEF Backends
  <2>3. e \in Backends /\ e.first_idr = in.b.first_idr
    BY <1>4 DEF Backends
  <2>4. b.first_idr \/ HasIdr(a)
    BY <1>2, <1>11 DEF Unseeded
  <2>5. d.first_idr
    BY <1>2, <2>2, <2>4
  <2> HIDE DEF d, e
  <2>6. CASE \E n \in 0..3 : o = [b |-> d, r |-> OK, count |-> n]
    <3>1. o.b = d /\ o.r = OK
      BY <2>6
    <3> QED BY <2>5, <3>1, ResultCodes DEF Unseeded
  <2>7. CASE o = Fail(in.b, FAILED)
    BY <1>8, <2>7
  <2>8. CASE o = Fail(e, FAILED)
    BY <1>2, <1>6, <2>3, <2>8, ResultCodes
  <2> QED BY <2>1, <2>6, <2>7, <2>8
<1> QED BY <1>3, <1>5, <1>7, <1>8, <1>9, <1>10, <1>11

\* psp_avc_backend_reset keeps first_idr and leaves no unseeded backend.
LEMMA ResetFlags ==
  ASSUME NEW b \in Backends, NEW o \in psp_avc_backend_reset(b)
  PROVE  o.b.first_idr = b.first_idr /\ (Unseeded(o.b) => o.b = b)
<1> DEFINE shut == [b EXCEPT !.failed = TRUE, !.ready = FALSE]
           idle == [shut EXCEPT !.need_idr = TRUE, !.res = FALSE]
           open == [idle EXCEPT !.res = TRUE, !.ready = TRUE, !.failed = FALSE]
           kept == [idle EXCEPT !.res = TRUE]
<1>1. \/ o = Outcome(b, FAILED) \/ o = Outcome(open, OK) \/ o = Outcome(idle, FAILED)
      \/ o = Outcome(kept, FAILED) \/ o = Outcome(shut, FAILED)
  BY DEF psp_avc_backend_reset
<1>2. shut \in Backends /\ shut.first_idr = b.first_idr /\ shut.failed
  BY DEF Backends
<1> HIDE DEF shut
<1>3. idle \in Backends /\ idle.first_idr = b.first_idr /\ idle.need_idr
  BY <1>2 DEF Backends
<1> HIDE DEF idle
<1>4. /\ open \in Backends /\ open.first_idr = b.first_idr /\ open.need_idr
      /\ kept \in Backends /\ kept.first_idr = b.first_idr /\ kept.need_idr
  BY <1>3 DEF Backends
<1> HIDE DEF open, kept
<1>5. o.b \in {b, open, idle, kept, shut}
  BY <1>1, <1>2, <1>3, <1>4, OutcomeType, ResultCodes
<1> QED BY <1>2, <1>3, <1>4, <1>5 DEF Unseeded

\* psp_avc_backend_close leaves a closed backend, or a failed one that
\* remembers whether it saw an IDR.
LEMMA CloseFlags ==
  ASSUME NEW b \in Backends, NEW o \in psp_avc_backend_close(b)
  PROVE  /\ ~ Unseeded(o.b) /\ ~ o.b.ready
         /\ \/ o.r = OK /\ ~ o.b.first_idr
            \/ o.r = FAILED /\ o.b.first_idr = b.first_idr
<1> DEFINE shut == [b EXCEPT !.failed = TRUE, !.ready = FALSE]
           arena == [shut EXCEPT !.res = FALSE]
<1>1. o = Outcome(Closed, OK) \/ o = Outcome(shut, FAILED) \/ o = Outcome(arena, FAILED)
  BY DEF psp_avc_backend_close
<1>2. shut \in Backends /\ shut.first_idr = b.first_idr /\ shut.failed /\ ~ shut.ready
  BY DEF Backends
<1> HIDE DEF shut
<1>3. arena \in Backends /\ arena.first_idr = b.first_idr /\ arena.failed /\ ~ arena.ready
  BY <1>2 DEF Backends
<1> HIDE DEF arena
<1>4. \/ o.b = Closed /\ o.r = OK
      \/ o.b = shut /\ o.r = FAILED
      \/ o.b = arena /\ o.r = FAILED
  BY <1>1, <1>2, <1>3, ClosedType, OutcomeType, ResultCodes
<1>5. ~ Closed.avcc /\ ~ Closed.first_idr /\ ~ Closed.ready
  BY DEF Closed
<1> QED BY <1>2, <1>3, <1>4, <1>5 DEF Unseeded

\* psp_avc_backend_open leaves no unseeded backend.
LEMMA OpenFlags ==
  ASSUME NEW b \in Backends, NEW p \in Profiles, NEW o \in psp_avc_backend_open(b, p)
  PROVE  ~ Unseeded(o.b) /\ ~ o.b.first_idr
<1> DEFINE fresh == [b EXCEPT !.main = p, !.failed = FALSE, !.first_idr = FALSE,
                         !.change = FALSE, !.req = p, !.need_idr = TRUE, !.par = "none"]
           done == [fresh EXCEPT !.avcc = TRUE, !.res = TRUE, !.ready = TRUE]
           kept == [fresh EXCEPT !.res = TRUE]
<1>1. \/ o = Outcome(done, OK) \/ o = Outcome(fresh, FAILED) \/ o = Outcome(kept, FAILED)
      \/ o = Outcome(Closed, FAILED)
  BY DEF psp_avc_backend_open
<1>2. fresh \in Backends /\ ~ fresh.first_idr /\ fresh.need_idr
  BY DEF Backends
<1> HIDE DEF fresh
<1>3. /\ done \in Backends /\ ~ done.first_idr /\ done.need_idr
      /\ kept \in Backends /\ ~ kept.first_idr /\ kept.need_idr
  BY <1>2 DEF Backends
<1> HIDE DEF done, kept
<1>4. o.b \in {done, fresh, kept, Closed}
  BY <1>1, <1>2, <1>3, ClosedType, OutcomeType, ResultCodes
<1>5. ~ Closed.avcc /\ ~ Closed.first_idr
  BY DEF Closed
<1> QED BY <1>2, <1>3, <1>4, <1>5 DEF Unseeded

\* psp_avc_backend_switch_profile keeps first_idr; after a success or a
\* failed reopen the backend is not unseeded.
LEMMA SwitchFlags ==
  ASSUME NEW b \in Backends, NEW p \in Profiles,
         NEW o \in psp_avc_backend_switch_profile(b, p)
  PROVE  o.b.first_idr = b.first_idr /\ (Unseeded(o.b) => o.b = b /\ o.r # OK)
<1> DEFINE down == [b EXCEPT !.failed = TRUE, !.ready = FALSE]
           done == [b EXCEPT !.main = p, !.change = FALSE, !.need_idr = TRUE,
                             !.res = TRUE, !.ready = TRUE]
           d1 == [down EXCEPT !.res = TRUE]
           d2 == [down EXCEPT !.res = FALSE]
<1>1. \/ o = Outcome(b, FAILED) \/ o = Outcome(done, OK)
      \/ o = Outcome(d1, FAILED) \/ o = Outcome(d2, FAILED)
  BY DEF psp_avc_backend_switch_profile
<1>2. down \in Backends /\ down.first_idr = b.first_idr /\ down.failed
  BY DEF Backends
<1>3. done \in Backends /\ done.first_idr = b.first_idr /\ done.need_idr
  BY DEF Backends
<1> HIDE DEF down, done
<1>4. /\ d1 \in Backends /\ d1.first_idr = b.first_idr /\ d1.failed
      /\ d2 \in Backends /\ d2.first_idr = b.first_idr /\ d2.failed
  BY <1>2 DEF Backends
<1> HIDE DEF d1, d2
<1>5. o.b \in {done, d1, d2} \/ (o.b = b /\ o.r = FAILED)
  BY <1>1, <1>3, <1>4, OutcomeType, ResultCodes
<1> QED BY <1>3, <1>4, <1>5, ResultCodes DEF Unseeded

\* A step that leaves the backend's flags, the pictures and the pending flag.
LEMMA ProfileFrame ==
  ASSUME ProfileState, UNCHANGED <<backend, profile_change_pending>>,
         queued' \in {queued, NoSlot},
         queued # NoSlot \/ Held # {} \/ Held' = {},
         dpc' = "decoded" => dpc = "decoded" /\ count' = count,
         dpc' \in {"reserving", "reserved", "decoding"} =>
            dpc \in {"reserving", "reserved", "decoding"} \/ ~ profile_change_pending
  PROVE  ProfileState'
<1>1. (queued # NoSlot \/ Held # {} \/ (dpc = "decoded" /\ count > 0))' => backend'.first_idr
  BY DEF ProfileState
<1>2. (dpc \in {"reserving", "reserved", "decoding"} => ~ profile_change_pending)'
  BY DEF ProfileState
<1> QED BY <1>1, <1>2 DEF ProfileState

LEMMA DecoderProfile ==
  ASSUME TypeOK, SlotOwnership, Control, ProfileState, Decoder
  PROVE  ProfileState'
<1> USE DEF slotVars, presenterVars, playerVars
<1>0. Held' = Held
  BY DEF Held, Decoder, DrainPacket, DecoderExit, PacketDone, AssemblerWritesRefs,
     CallbackCorrupt, CallbackDrop, CallbackAccept, ResetBackend, ResetDropQueued,
     DecodeEnter, DecodeReserve, DecodeSubmit, DecodeComplete, DecodePublish, DecodeEnd
<1>1. CASE \/ DrainPacket \/ DecoderExit \/ PacketDone \/ AssemblerWritesRefs
           \/ CallbackCorrupt \/ CallbackDrop \/ CallbackAccept
  BY <1>0, <1>1, ProfileFrame DEF DrainPacket, DecoderExit, PacketDone, AssemblerWritesRefs,
     CallbackCorrupt, CallbackDrop, CallbackAccept
<1>2. CASE ResetDropQueued \/ DecodeEnter \/ DecodeEnd \/ DecodeSubmit
  BY <1>0, <1>2, ProfileFrame DEF ResetDropQueued, DropQueued, DecodeEnter, DecodeEnd,
     DecodeSubmit, DecodeReturns
<1>3. CASE DecodeReserve
  <2>1. /\ UNCHANGED <<queued, backend, profile_change_pending>>
        /\ dpc = "reserving" /\ dpc' # "decoded"
    BY <1>3 DEF DecodeReserve, DecodeReturns, avc_frame_slots_reserve
  <2> QED BY <1>0, <2>1, ProfileFrame
<1>4. CASE ResetBackend
  <2>1. PICK o \in psp_avc_backend_reset(backend) : backend' = o.b
    BY <1>4 DEF ResetBackend
  <2>2. /\ backend'.first_idr = backend.first_idr
        /\ Unseeded(backend)' => backend' = backend
    BY <2>1, ResetFlags DEF TypeOK, Unseeded
  <2>3. dpc' = "reset" /\ UNCHANGED <<queued, profile_change_pending>>
    BY <1>4 DEF ResetBackend
  <2> QED BY <1>0, <2>2, <2>3 DEF ProfileState, Unseeded
<1>5. CASE DecodeComplete
  <2>1. PICK o \in psp_avc_backend_decode(backend, au) :
          /\ backend' = o.b /\ count' = o.count
          /\ IF o.r = PROFILE_CHANGE_REQUIRED
             THEN profile_change_pending' = TRUE
             ELSE UNCHANGED profile_change_pending
    BY <1>5 DEF DecodeComplete
  <2>2. dpc = "decoding" /\ dpc' = "decoded" /\ UNCHANGED queued
    BY <1>5 DEF DecodeComplete
  <2>3. ~ profile_change_pending /\ ~ Unseeded(backend)
    BY <2>2 DEF ProfileState, Unseeded
  <2>4. /\ count' > 0 => backend'.first_idr
        /\ backend.first_idr => backend'.first_idr
        /\ o.r = PROFILE_CHANGE_REQUIRED => ~ backend'.first_idr
        /\ Unseeded(o.b) => o.r = PROFILE_CHANGE_REQUIRED
    BY <2>1, <2>3, DecodeFlags DEF TypeOK
  <2>5. o.r = PROFILE_CHANGE_REQUIRED <=> profile_change_pending'
    BY <2>1, <2>3
  <2>6. (queued # NoSlot \/ Held # {} \/ (dpc = "decoded" /\ count > 0))' => backend'.first_idr
    BY <1>0, <2>2, <2>4 DEF ProfileState
  <2>7. Unseeded(o.b) => profile_change_pending'
    BY <2>4, <2>5
  <2> QED BY <2>1, <2>2, <2>4, <2>5, <2>6, <2>7 DEF ProfileState, Unseeded
<1>6. CASE DecodePublish
  <2>1. /\ dpc = "decoded" /\ dpc' = "published"
        /\ UNCHANGED <<backend, profile_change_pending>>
        /\ avc_frame_slots_publish(reserved, count, output_sequence)
    BY <1>6 DEF DecodePublish
  <2>2. queued' = queued \/ count > 0
    BY <2>1 DEF avc_frame_slots_publish, TypeOK
  <2> QED BY <1>0, <2>1, <2>2 DEF ProfileState
<1> QED BY <1>1, <1>2, <1>3, <1>4, <1>5, <1>6 DEF Decoder

\* Closing the backend, with an empty queue when it succeeds.
LEMMA CloseProfile ==
  ASSUME TypeOK, Control, ProfileState, NEW o \in psp_avc_player_close, CloseBackend(o),
         queued' \in {queued, NoSlot}, sema /\ o.r = OK => queued' = NoSlot,
         Held' = {}, dpc' = "off"
  PROVE  ProfileState'
<1>0. /\ backend' = o.b /\ backend \in Backends
      /\ profile_change_pending' = (profile_change_pending /\ sema)
  BY DEF CloseBackend, TypeOK
<1> DEFINE d == [backend EXCEPT !.ready = FALSE]
<1>1. /\ d.first_idr = backend.first_idr /\ d.avcc = backend.avcc
      /\ d.failed = backend.failed /\ d.need_idr = backend.need_idr
  BY <1>0 DEF Backends
<1>2. /\ Unseeded(d) <=> Unseeded(backend)
      /\ ~ Unseeded(Closed) /\ ~ Closed.first_idr
  BY <1>1 DEF Unseeded, Closed
<1>3. \/ \E k \in psp_avc_backend_close(backend) : o.b = k.b /\ o.r = k.r
      \/ ~ sema /\ o.b = Closed
      \/ sema /\ o.r = FAILED /\ o.b = backend
      \/ sema /\ o.r = FAILED /\ o.b = d
  BY CloseForms
<1> HIDE DEF d
<1>4. /\ \/ o.r = OK /\ ~ o.b.first_idr
         \/ o.b.first_idr = backend.first_idr
         \/ ~ sema /\ ~ o.b.first_idr
      /\ Unseeded(o.b) => sema /\ Unseeded(backend)
  <2>1. CASE \E k \in psp_avc_backend_close(backend) : o.b = k.b /\ o.r = k.r
    BY <1>0, <2>1, CloseFlags
  <2>2. CASE ~ sema /\ o.b = Closed
    BY <1>2, <2>2
  <2>3. CASE sema /\ o.b = backend
    BY <2>3
  <2>4. CASE sema /\ o.b = d
    BY <1>1, <1>2, <2>4
  <2> QED BY <1>3, <2>1, <2>2, <2>3, <2>4
<1>5. queued' # NoSlot => backend'.first_idr
  BY <1>0, <1>4 DEF Control, ProfileState
<1>6. profile_change_pending' => ~ backend'.first_idr
  BY <1>0, <1>4 DEF ProfileState
<1>7. Unseeded(o.b) => profile_change_pending'
  BY <1>0, <1>4 DEF ProfileState, Unseeded
<1> QED BY <1>0, <1>5, <1>6, <1>7 DEF ProfileState, Unseeded

\* Opening the player when every slot is free.
LEMMA OpenProfile ==
  ASSUME TypeOK, SlotOwnership, Control, ProfileState, Idle, dpc = "off", dpc' = "off",
         Held' = {}, NEW p \in Profiles, NEW r, psp_avc_player_open_profile(p, r)
  PROVE  ProfileState'
<1>1. CASE UNCHANGED <<slotVars, playerVars, delivered>>
  BY <1>1, ProfileFrame DEF slotVars, playerVars
<1>2. CASE FramesIdle /\ OpenAnew(p, r)
  <2>1. queued = NoSlot
    BY <1>2 DEF FramesIdle, FreeSlots, SlotOwnership, Control, TypeOK, SlotsTypeOK
  <2>2. ASSUME NEW b, NEW t, ~ Unseeded(b),
               OpenFails(b, t) \/ OpenSucceeds(b, t) \/ OpenKeepsPool(b, t)
        PROVE  ProfileState'
    <3>1. /\ backend' = b /\ profile_change_pending' = FALSE /\ queued' = NoSlot
      BY <2>1, <2>2 DEF OpenFails, OpenSucceeds, OpenKeepsPool, slotVars, avc_frame_slots_init
    <3> QED BY <2>2, <3>1 DEF ProfileState, Unseeded
  <2>3. PICK c \in CloseForReopen :
          \/ c.r # OK /\ OpenFails(c.b, profile_change_target)
          \/ \E o \in psp_avc_backend_open(c.b, p) :
               \/ OpenSucceeds(o.b, p)
               \/ \E k \in psp_avc_backend_close(o.b) :
                    OpenFails(k.b, profile_change_target) \/ OpenFails(k.b, p)
               \/ OpenKeepsPool(o.b, p)
    BY <1>2 DEF OpenAnew
  <2>4. c.b \in Backends
    BY SessionTypes, OutcomeType, ResultCodes DEF CloseForReopen, Outcomes, TypeOK
  <2>5. c.r # OK => ~ Unseeded(c.b)
    BY CloseFlags, OutcomeType, ResultCodes DEF CloseForReopen, TypeOK
  <2>6. \A o \in psp_avc_backend_open(c.b, p) : o.b \in Backends /\ ~ Unseeded(o.b)
    BY <2>4, SessionTypes, OpenFlags DEF Outcomes
  <2>7. \A o \in psp_avc_backend_open(c.b, p) :
          \A k \in psp_avc_backend_close(o.b) : ~ Unseeded(k.b)
    BY <2>6, CloseFlags
  <2> QED BY <2>2, <2>3, <2>5, <2>6, <2>7
<1> QED BY <1>1, <1>2 DEF psp_avc_player_open_profile

LEMMA MainProfile ==
  ASSUME TypeOK, SlotOwnership, Control, ProfileState, Main
  PROVE  ProfileState'
<1> USE DEF slotVars, presenterVars, playerVars, decoderVars
<1>1. CASE \/ MainForceRestart \/ MainSwitchBegin \/ MainStop \/ MainJoin \/ MainStart
           \/ MainRepeat \/ Terminated
  <2>1. Held' = Held
    BY <1>1 DEF MainForceRestart, MainSwitchBegin, MainStop, MainJoin, MainStart, MainRepeat,
       Terminated, vars, Held
  <2> QED BY <1>1, <2>1, ProfileFrame DEF MainForceRestart, MainSwitchBegin, MainStop,
       MainJoin, MainStart, MainRepeat, Terminated, vars
<1>2. CASE MainTake
  <2>1. queued # NoSlot /\ UNCHANGED <<backend, profile_change_pending, dpc, count>>
    BY <1>2 DEF MainTake, avc_frame_slots_take
  <2>2. queued' = NoSlot
    BY <1>2 DEF MainTake, avc_frame_slots_take
  <2> QED BY <2>1, <2>2, ProfileFrame
<1>3. CASE MainDisplay \/ MainReleasePrevious \/ MainReleaseFrame
  <2>1. frame # NoSlot
    BY <1>3 DEF MainDisplay, MainReleasePrevious, MainReleaseFrame, Control, MainOnSlot
  <2>2. UNCHANGED <<queued, backend, profile_change_pending, dpc, count>>
    BY <1>3 DEF MainDisplay, MainReleasePrevious, MainReleaseFrame, avc_frame_slots_release
  <2>3. Held # {}
    BY <2>1 DEF Held
  <2> QED BY <2>2, <2>3, ProfileFrame
<1>4. CASE MainReleaseOwned
  <2>1. UNCHANGED <<queued, backend, profile_change_pending, dpc, count, frame, previous>>
    BY <1>4 DEF MainReleaseOwned, avc_frame_slots_release
  <2>2. Held' = {}
    BY <1>4, <2>1 DEF MainReleaseOwned, Held, Control, MainOnSlot
  <2> QED BY <2>1, <2>2, ProfileFrame
<1>5. CASE MainSwitchEnd
  <2>1. PICK o \in psp_avc_backend_switch_profile(backend, profile_change_target) :
          /\ backend' = o.b
          /\ IF o.r = OK THEN profile_change_pending' = FALSE
             ELSE UNCHANGED profile_change_pending
    BY <1>5 DEF MainSwitchEnd
  <2>2. UNCHANGED <<queued, dpc, count>> /\ Held' = Held
    BY <1>5 DEF MainSwitchEnd, Held
  <2>3. /\ o.b.first_idr = backend.first_idr
        /\ Unseeded(o.b) => o.b = backend /\ o.r # OK
    BY SwitchFlags DEF TypeOK
  <2>4. profile_change_pending' => profile_change_pending
    BY <2>1
  <2>5. Unseeded(o.b) => profile_change_pending'
    BY <2>1, <2>3 DEF ProfileState, Unseeded
  <2> QED BY <2>1, <2>2, <2>3, <2>4, <2>5 DEF ProfileState, Unseeded
<1>6. ASSUME \/ MainClose \/ MainOpen \/ MainReclose \/ MainReopen \/ MainStartFails
             \/ MainExitClose \/ MainExitDestroy
      PROVE  /\ Idle /\ dpc = "off" /\ dpc' = "off" /\ Held' = {} /\ count' = count
             /\ queued' \in {queued, NoSlot}
  <2>1. Idle /\ dpc = "off" /\ dpc' = "off" /\ count' = count
    BY <1>6, IdleSteps DEF Control
  <2>2. Held' = {}
    BY <1>6, <2>1, IdleSteps DEF Control, Idle, MainOnSlot, Held
  <2>3. queued' \in {queued, NoSlot}
    BY <1>6, IdleSteps DEF avc_frame_slots_init
  <2> QED BY <2>1, <2>2, <2>3
<1>7. CASE MainOpen \/ MainReopen
  <2>1. \E r \in {OK, FAILED} : psp_avc_player_open_profile("main", r)
    BY <1>7 DEF MainOpen, MainReopen
  <2> QED BY <1>6, <1>7, <2>1, OpenProfile, "main" \in Profiles DEF Profiles
<1>8. CASE MainClose \/ MainExitClose \/ MainStartFails \/ (MainReclose /\ IsOpen)
  <2>1. PICK o \in psp_avc_player_close : ClosePlayer(o)
    BY <1>8 DEF MainClose, MainExitClose, MainStartFails, MainReclose
  <2>2. CloseBackend(o) /\ (o.r = OK => queued' = NoSlot)
    BY <2>1, CloseEmpties DEF ClosePlayer
  <2> QED BY <1>6, <1>8, <2>2, CloseProfile
<1>9. CASE MainReclose /\ ~ IsOpen
  <2>1. UNCHANGED <<queued, backend, profile_change_pending>>
    BY <1>9 DEF MainReclose
  <2> QED BY <1>6, <1>9, <2>1, ProfileFrame
<1>10. CASE MainExitDestroy
  <2>1. PICK o \in psp_avc_player_close :
          ClosePlayer(o) \/ (CloseBackend(o) /\ avc_frame_slots_init)
    BY <1>10 DEF MainExitDestroy
  <2>2. CloseBackend(o) /\ (o.r = OK => queued' = NoSlot)
    BY <2>1, CloseEmpties DEF ClosePlayer, avc_frame_slots_init
  <2> QED BY <1>6, <1>10, <2>2, CloseProfile
<1> QED BY <1>1, <1>2, <1>3, <1>4, <1>5, <1>7, <1>8, <1>9, <1>10 DEF Main

-----------------------------------------------------------------------------
(***************************************************************************)
(* The theorems.                                                            *)
(***************************************************************************)
\* The first state.
LEMMA InitIInv == Init => IInv
<1> SUFFICES ASSUME Init PROVE IInv
  OBVIOUS
<1> USE SlotsAssumption, BoundsAssumption
<1>1. NoSlot \notin Slots /\ Held = {}
  BY DEF Init, Held, NoSlot, Slots
<1>2. SlotsTypeOK
  BY DEF Init, SlotsInit, SlotsTypeOK, SlotStates
<1>3. backend \in Backends
  BY ClosedType DEF Init
<1>4. au \in AccessUnits /\ reserved \in Triple /\ profile_change_target \in Profiles
  BY DEF Init, NoAu, AccessUnits, NoTriple, Triple, Slots, Profiles
<1>10. /\ sema \in BOOLEAN /\ pool \in BOOLEAN /\ profile_change_pending \in BOOLEAN
       /\ profile_decode_active \in BOOLEAN /\ refs_corrupted \in BOOLEAN
       /\ reset_needed \in BOOLEAN /\ dpc \in DecoderStates /\ mpc \in MainStates
  BY DEF Init, DecoderStates, MainStates
<1>11. /\ output_sequence \in 0..MaxSeq /\ burst \in 0..MaxBurst /\ count \in 0..3
       /\ pixels \in [Slots -> 0..MaxSeq]
       /\ frame_seq \in Nat /\ last_seq \in Nat /\ delivered \in Nat
  BY DEF Init
<1>12. /\ result \in Results
       /\ frame \in Slots \cup {NoSlot} /\ previous \in Slots \cup {NoSlot}
       /\ owned \in Slots \cup {NoSlot} /\ last_frame \in Slots \cup {NoSlot, COPY}
  BY ResultCodes DEF Init
<1>5. TypeOK
  BY <1>2, <1>3, <1>4, <1>10, <1>11, <1>12 DEF TypeOK
<1>6. SlotOwnership
  BY <1>1 DEF Init, SlotsInit, SlotOwnership, Writing
<1>7. Control
  BY <1>1 DEF Init, SlotsInit, Control, InCallback, Idle, MainOnSlot, Writing
<1>8. PictureHistory
  BY DEF Init, SlotsInit, PictureHistory
<1>9. ProfileState
  BY <1>1 DEF Init, SlotsInit, ProfileState, Closed
<1> QED BY <1>5, <1>6, <1>7, <1>8, <1>9 DEF IInv

\* Every step, and stuttering, keeps the invariant.
LEMMA NextIInv == IInv /\ [Next]_vars => IInv'
<1> SUFFICES ASSUME IInv, [Next]_vars PROVE IInv'
  OBVIOUS
<1>1. CASE Decoder
  BY <1>1, DecoderTypes, DecoderOwnership, DecoderControl, DecoderPictures, DecoderProfile
     DEF IInv
<1>2. CASE Main
  BY <1>2, MainTypes, MainOwnership, MainControl, MainPictures, MainProfile DEF IInv
<1>3. CASE UNCHANGED vars
  <2> USE <1>3 DEF vars, slotVars, playerVars, decoderVars, presenterVars
  <2>1. TypeOK'
    BY DEF IInv, TypeOK, SlotsTypeOK
  <2>2. SlotOwnership' /\ Control'
    BY DEF IInv, SlotOwnership, Control, Held, Members, InCallback, Idle, MainOnSlot
  <2>3. PictureHistory'
    BY DEF IInv, PictureHistory
  <2>4. ProfileState'
    BY DEF IInv, ProfileState, Held
  <2> QED BY <2>1, <2>2, <2>3, <2>4 DEF IInv
<1> QED BY <1>1, <1>2, <1>3 DEF Next

\* The inductive invariant holds in every reachable state.
THEOREM Invariance == Spec => []IInv
BY InitIInv, NextIInv, PTL DEF Spec

\* The variables of both threads and of the player keep their types.
THEOREM TypeCorrect == Spec => []TypeOK
<1>1. IInv => TypeOK
  BY DEF IInv
<1> QED BY Invariance, <1>1, PTL

\* Every slot of the pool has exactly the owner its state names.
THEOREM OwnershipCorrect == Spec => []SlotOwnership
<1>1. IInv => SlotOwnership
  BY DEF IInv
<1> QED BY Invariance, <1>1, PTL

\* A pending profile change finds no picture queued or held.
THEOREM PendingCorrect == Spec => []PendingChangeOwnsNoPicture
<1>1. IInv => PendingChangeOwnsNoPicture
  BY DEF IInv, ProfileState, PendingChangeOwnsNoPicture
<1> QED BY Invariance, <1>1, PTL

\* Outside a decode at most three slots are not free.
LEMMA EnoughSlots == IInv => NoSlotExhaustion
<1> SUFFICES ASSUME IInv, dpc = "reserving" PROVE Cardinality(FreeSlots) >= 3
  BY DEF NoSlotExhaustion, CanReserve
<1>1. \E x, y : Held \subseteq {x, y}
  <2>1. CASE previous = NoSlot
    BY <2>1 DEF Held
  <2>2. CASE previous # NoSlot
    <3>1. owned = frame \/ owned = NoSlot
      BY <2>2 DEF IInv, Control
    <3> QED BY <3>1 DEF Held
  <2> QED BY <2>1, <2>2
<1>2. PICK x, y : Held \subseteq {x, y}
  BY <1>1
<1> DEFINE S1 == Slots \ {queued}
           S2 == S1 \ {x}
           S3 == S2 \ {y}
<1>3. S3 \subseteq FreeSlots
  BY <1>2 DEF IInv, SlotOwnership, FreeSlots, Writing, TypeOK, SlotsTypeOK, SlotStates
<1>4. IsFiniteSet(Slots) /\ Cardinality(Slots) \in Nat /\ Cardinality(Slots) >= 6
  <2>1. 0 \in Int /\ AVC_FRAME_SLOTS - 1 \in Int /\ ~ (0 > AVC_FRAME_SLOTS - 1)
    BY SlotsAssumption
  <2>2. IsFiniteSet(Slots) /\ Cardinality(Slots) = AVC_FRAME_SLOTS - 1 - 0 + 1
    BY <2>1, FS_Interval DEF Slots
  <2> QED BY <2>2, SlotsAssumption
<1>5. IsFiniteSet(S1) /\ Cardinality(S1) \in Nat /\ Cardinality(S1) >= 5
  BY <1>4, FS_RemoveElement
<1> HIDE DEF S1
<1>6. IsFiniteSet(S2) /\ Cardinality(S2) \in Nat /\ Cardinality(S2) >= 4
  BY <1>5, FS_RemoveElement
<1> HIDE DEF S2
<1>7. IsFiniteSet(S3) /\ Cardinality(S3) \in Nat /\ Cardinality(S3) >= 3
  BY <1>6, FS_RemoveElement
<1> HIDE DEF S3
<1>8. IsFiniteSet(FreeSlots)
  BY <1>4, FS_Subset DEF FreeSlots
<1>9. Cardinality(FreeSlots) \in Nat /\ Cardinality(S3) <= Cardinality(FreeSlots)
  BY <1>3, <1>8, FS_Subset, FS_CardinalityType
<1> QED BY <1>7, <1>9

\* Whenever the decoder asks for three slots, it gets them.
THEOREM ExhaustionNever == Spec => []NoSlotExhaustion
BY Invariance, EnoughSlots, PTL

-----------------------------------------------------------------------------
(***************************************************************************)
(* Which picture a slot's memory holds, when flushes do not fail.           *)
(***************************************************************************)
\* A step that writes no slot and moves no pointer.
LEMMA PixelFrame ==
  ASSUME PixelHistory, ~ (Idle /\ ~ backend.ready),
         UNCHANGED <<queued, frame_id, pixels, frame, frame_seq, last_frame, last_seq>>,
         \/ dpc' # "decoded"
         \/ dpc' = dpc /\ UNCHANGED <<reserved, count, output_sequence>>
  PROVE  PixelHistory'
BY DEF PixelHistory, PresentedPixelsIntact

LEMMA DecoderPixels ==
  ASSUME IInv, PixelHistory, Decoder
  PROVE  PixelHistory'
<1> USE DEF slotVars, presenterVars, playerVars
<1>a. TypeOK /\ SlotOwnership /\ Control /\ PictureHistory
  BY DEF IInv
<1>b. ~ Idle
  <2>1. dpc # "off"
    BY DEF Decoder, DrainPacket, DecoderExit, PacketDone, AssemblerWritesRefs,
       CallbackCorrupt, CallbackDrop, CallbackAccept, ResetBackend, ResetDropQueued,
       DecodeEnter, DecodeReserve, DecodeSubmit, DecodeComplete, DecodePublish, DecodeEnd
  <2> QED BY <1>a, <2>1 DEF Control
<1>c. /\ PresentedPixelsIntact
      /\ queued # NoSlot => pixels[queued] = frame_id[queued]
  BY <1>b DEF PixelHistory
<1>1. CASE \/ DrainPacket \/ DecoderExit \/ PacketDone \/ AssemblerWritesRefs
           \/ CallbackCorrupt \/ CallbackDrop \/ CallbackAccept \/ ResetBackend
  BY <1>1, <1>b, PixelFrame DEF DrainPacket, DecoderExit, PacketDone, AssemblerWritesRefs,
     CallbackCorrupt, CallbackDrop, CallbackAccept, ResetBackend
<1>2. CASE DecodeEnter \/ DecodeEnd
  BY <1>2, <1>b, PixelFrame DEF DecodeEnter, DecodeEnd, DecodeReturns
<1>3. CASE DecodeReserve
  <2>1. /\ UNCHANGED <<queued, frame_id, pixels, frame, frame_seq, last_frame, last_seq>>
        /\ dpc' # "decoded"
    BY <1>3 DEF DecodeReserve, DecodeReturns, avc_frame_slots_reserve
  <2> QED BY <2>1, <1>b, PixelFrame
<1>4. CASE ResetDropQueued
  <2>1. /\ queued' = NoSlot /\ dpc' # "decoded"
        /\ UNCHANGED <<frame_id, pixels, frame, frame_seq, last_frame, last_seq>>
    BY <1>4 DEF ResetDropQueued, DropQueued
  <2> QED BY <2>1 DEF PixelHistory, PresentedPixelsIntact
<1>d. /\ queued # NoSlot => queued \in Slots
      /\ frame # NoSlot => frame \in Slots
  BY <1>a DEF TypeOK, SlotsTypeOK
<1>5. CASE DecodeSubmit
  <2>1. /\ dpc \in Writing /\ dpc' # "decoded"
        /\ pixels' = [s \in Slots |-> IF s \in Members(reserved) THEN 0 ELSE pixels[s]]
        /\ UNCHANGED <<queued, frame_id, frame, frame_seq, last_frame, last_seq>>
    BY <1>5 DEF DecodeSubmit, Writing
  <2> QED BY <2>1, <1>a, <1>c, <1>d, DecoderWritesElsewhere
          DEF PixelHistory, PresentedPixelsIntact
<1>6. CASE DecodeComplete
  <2>1. PICK o \in psp_avc_backend_decode(backend, au) :
          /\ count' = o.count
          /\ output_sequence' = output_sequence + o.count
          /\ pixels' = [s \in Slots |->
                          IF \E i \in 1..o.count : s = reserved[i]
                          THEN output_sequence + (CHOOSE i \in 1..o.count : s = reserved[i])
                          ELSE pixels[s]]
    BY <1>6 DEF DecodeComplete
  <2>2. o.count \in 0..3
    BY <1>a, DecodeType DEF TypeOK, Outcomes
  <2>3. /\ dpc \in Writing /\ dpc' = "decoded" /\ reserved' = reserved
        /\ UNCHANGED <<queued, frame_id, frame, frame_seq, last_frame, last_seq>>
    BY <1>6 DEF DecodeComplete, Writing
  <2>4. \A s \in Slots : s \notin Members(reserved) => pixels'[s] = pixels[s]
    <3> SUFFICES ASSUME NEW s \in Slots, s \notin Members(reserved)
                 PROVE  pixels'[s] = pixels[s]
      OBVIOUS
    <3>1. ~ \E i \in 1..o.count : s = reserved[i]
      BY <2>2 DEF Members
    <3> QED BY <2>1, <3>1
  <2>6. PresentedPixelsIntact'
    BY <2>3, <2>4, <1>a, <1>c, <1>d, DecoderWritesElsewhere DEF PresentedPixelsIntact
  <2>7. (queued # NoSlot => pixels[queued] = frame_id[queued])'
    BY <2>3, <2>4, <1>a, <1>c, <1>d, DecoderWritesElsewhere
  <2>9. ASSUME count' > 0 PROVE pixels'[reserved[count']] = output_sequence'
    <3> DEFINE n == o.count
               t == reserved[n]
    <3>1. n \in 1..3 /\ n \in 1..n /\ t \in Slots
      BY <1>a, <2>1, <2>2, <2>9 DEF TypeOK, Triple
    <3>2. \A i \in 1..n : t = reserved[i] => i = n
      <4>1. /\ reserved[1] < reserved[2] /\ reserved[2] < reserved[3]
            /\ reserved[1] \in Int /\ reserved[2] \in Int /\ reserved[3] \in Int
        BY <1>a, <2>3 DEF Control, TypeOK, Triple, Slots
      <4>2. reserved[1] # reserved[2] /\ reserved[2] # reserved[3] /\ reserved[1] # reserved[3]
        BY <4>1
      <4>3. SUFFICES ASSUME NEW i \in 1..n, t = reserved[i] PROVE i = n
        OBVIOUS
      <4>4. i \in {1, 2, 3} /\ n \in {1, 2, 3}
        BY <3>1
      <4> HIDE DEF n
      <4> QED BY <4>2, <4>3, <4>4
    <3>3. (CHOOSE i \in 1..n : t = reserved[i]) = n
      BY <3>1, <3>2
    <3>4. pixels'[t] = output_sequence + (CHOOSE i \in 1..n : t = reserved[i])
      BY <2>1, <3>1
    <3> QED BY <2>1, <2>3, <3>3, <3>4
  <2> QED BY <2>3, <2>6, <2>7, <2>9 DEF PixelHistory
<1>7. CASE DecodePublish
  <2>1. /\ dpc = "decoded" /\ dpc \in Writing /\ dpc' # "decoded"
        /\ UNCHANGED <<pixels, frame, frame_seq, last_frame, last_seq>>
        /\ avc_frame_slots_publish(reserved, count, output_sequence)
    BY <1>7 DEF DecodePublish, Writing
  <2>2. PresentedPixelsIntact'
    BY <1>c, <2>1 DEF PresentedPixelsIntact
  <2>3. CASE count = 0
    BY <1>b, <2>1, <2>3, PixelFrame DEF avc_frame_slots_publish
  <2>4. CASE count # 0
    <3>1. count \in 1..3 /\ reserved[count] \in Slots
      BY <1>a, <2>4 DEF TypeOK, Triple
    <3>2. pixels[reserved[count]] = output_sequence
      BY <2>1, <3>1 DEF PixelHistory
    <3>3. /\ queued' = reserved[count]
          /\ frame_id' = [frame_id EXCEPT ![reserved[count]] = output_sequence]
      BY <1>a, <2>1, <2>4, Publishable DEF avc_frame_slots_publish
    <3>4. frame_id'[queued'] = output_sequence
      BY <1>a, <3>1, <3>3 DEF TypeOK, SlotsTypeOK
    <3> QED BY <2>1, <2>2, <3>2, <3>3, <3>4 DEF PixelHistory
  <2> QED BY <2>3, <2>4
<1> QED BY <1>1, <1>2, <1>3, <1>4, <1>5, <1>6, <1>7 DEF Decoder

\* A close leaves a session that is not ready, an empty queue, or the pool
\* as it was.
LEMMA ClosePixels ==
  ASSUME ~ FlushFails, IInv, NEW o \in psp_avc_player_close, ClosePlayer(o)
  PROVE  \/ queued' = NoSlot
         \/ ~ backend'.ready /\ UNCHANGED <<queued, frame_id>>
         \/ UNCHANGED <<queued, frame_id, pixels, backend>>
<1>1. TypeOK /\ Control /\ backend \in Backends
  BY DEF IInv, TypeOK
<1>2. CASE o.r = OK \/ ~ sema
  BY <1>1, <1>2, CloseEmpties DEF ClosePlayer, Control, slotVars
<1>3. CASE o.r # OK /\ sema
  <2>1. UNCHANGED <<queued, frame_id>> /\ backend' = o.b /\ DrainWrites
    BY <1>3 DEF ClosePlayer, CloseBackend, slotVars
  <2>2. CASE \E k \in psp_avc_backend_close(backend) : o.b = k.b /\ o.r = k.r
    <3>1. ~ o.b.ready
      BY <1>1, <1>3, <2>2, CloseFlags
    <3> QED BY <2>1, <3>1
  <2>3. CASE o.b = backend /\ ~ Closable
    BY <2>1, <2>3 DEF DrainWrites
  <2>4. CASE o.b = [backend EXCEPT !.ready = FALSE]
    <3>1. ~ o.b.ready
      BY <1>1, <2>4 DEF Backends
    <3> QED BY <2>1, <3>1
  <2> QED BY <1>3, <2>2, <2>3, <2>4, CloseForms
<1> QED BY <1>2, <1>3

\* An open reuses the session as it is, or starts with an empty queue.
LEMMA OpenPixels ==
  ASSUME IInv, NEW p, NEW r, psp_avc_player_open_profile(p, r)
  PROVE  queued' = NoSlot \/ UNCHANGED <<queued, frame_id, backend>>
<1> USE DEF slotVars, playerVars
<1>1. CASE UNCHANGED <<slotVars, playerVars, delivered>>
  BY <1>1
<1>2. CASE FramesIdle /\ OpenAnew(p, r)
  <2>1. queued = NoSlot
    <3>1. CASE sema
      BY <1>2, <3>1 DEF FramesIdle, FreeSlots, IInv, SlotOwnership, TypeOK, SlotsTypeOK
    <3>2. CASE ~ sema
      BY <3>2 DEF IInv, Control
    <3> QED BY <3>1, <3>2
  <2>2. UNCHANGED slotVars \/ avc_frame_slots_init
    BY <1>2 DEF OpenAnew, OpenFails, OpenSucceeds, OpenKeepsPool
  <2> QED BY <2>1, <2>2 DEF avc_frame_slots_init
<1> QED BY <1>1, <1>2 DEF psp_avc_player_open_profile

LEMMA MainPixels ==
  ASSUME ~ FlushFails, IInv, PixelHistory, Main
  PROVE  PixelHistory'
<1> USE DEF slotVars, presenterVars, decoderVars, playerVars
<1>a. TypeOK /\ Control /\ NoSlot \notin Slots /\ COPY \notin Slots
  BY SlotsAssumption DEF IInv, NoSlot, COPY, Slots
<1>1. CASE \/ MainForceRestart \/ MainSwitchBegin \/ MainSwitchEnd
           \/ MainStop \/ MainJoin
  <2>1. ~ Idle
    BY <1>1 DEF MainForceRestart, MainSwitchBegin, MainSwitchEnd, MainStop, MainJoin, Idle
  <2> QED BY <1>1, <2>1, PixelFrame DEF MainForceRestart, MainSwitchBegin, MainSwitchEnd,
          MainStop, MainJoin
<1>s. CASE MainStart
  BY <1>s, PixelFrame DEF MainStart, IsReady
<1>t. CASE Terminated
  BY <1>t DEF Terminated, vars, PixelHistory, PresentedPixelsIntact, Idle
<1>2. CASE MainTake
  <2>1. /\ queued # NoSlot /\ queued' = NoSlot
        /\ frame' = queued /\ frame_seq' = frame_id[queued]
        /\ UNCHANGED <<pixels, last_frame, last_seq, dpc, reserved, count, output_sequence>>
    BY <1>2 DEF MainTake, avc_frame_slots_take
  <2>2. pixels[queued] = frame_id[queued]
    BY <1>2, <2>1 DEF MainTake, Idle, PixelHistory
  <2> QED BY <2>1, <2>2 DEF PixelHistory, PresentedPixelsIntact
<1>b. ASSUME ~ Idle PROVE queued # NoSlot => pixels[queued] = frame_id[queued]
  BY <1>b DEF PixelHistory
<1>3. CASE MainDisplay
  <2>1. /\ last_frame' \in {frame, COPY} /\ last_seq' = frame_seq /\ frame # NoSlot
        /\ UNCHANGED <<pixels, frame, frame_seq, queued, frame_id, dpc, reserved, count,
                       output_sequence>>
        /\ ~ Idle
    BY <1>3, <1>a DEF MainDisplay, Control, MainOnSlot, Idle
  <2> QED BY <1>a, <1>b, <2>1 DEF PixelHistory, PresentedPixelsIntact
<1>4. CASE MainReleasePrevious
  <2>1. ~ Idle
    BY <1>4 DEF MainReleasePrevious, Idle
  <2> QED BY <1>4, <2>1, PixelFrame DEF MainReleasePrevious, avc_frame_slots_release
<1>5. CASE MainReleaseFrame
  <2>1. /\ frame' = NoSlot /\ ~ Idle
        /\ UNCHANGED <<pixels, queued, frame_id, last_frame, last_seq, dpc, reserved, count,
                       output_sequence>>
    BY <1>5 DEF MainReleaseFrame, avc_frame_slots_release, Idle
  <2> QED BY <1>b, <2>1 DEF PixelHistory, PresentedPixelsIntact
<1>6. CASE MainRepeat \/ MainReleaseOwned
  <2>1. /\ last_frame' \in {COPY, NoSlot} /\ ~ Idle
        /\ UNCHANGED <<pixels, queued, frame_id, frame, frame_seq, dpc, reserved, count,
                       output_sequence>>
    BY <1>6 DEF MainRepeat, MainReleaseOwned, avc_frame_slots_release, Idle
  <2> QED BY <1>a, <1>b, <2>1 DEF PixelHistory, PresentedPixelsIntact
<1>7. CASE \/ MainClose \/ MainOpen \/ MainReclose \/ MainReopen \/ MainStartFails
           \/ MainExitClose \/ MainExitDestroy
  <2>1. /\ Idle' /\ dpc' = "off" /\ frame' = NoSlot /\ last_frame' = NoSlot
    BY <1>a, <1>7, IdleSteps DEF Control, Idle, MainOnSlot
  <2>2. \/ queued' = NoSlot
        \/ ~ backend'.ready /\ UNCHANGED <<queued, frame_id>>
        \/ UNCHANGED <<queued, frame_id, pixels, backend>>
    <3>1. CASE MainClose \/ MainStartFails \/ MainExitClose
      BY <3>1, ClosePixels DEF MainClose, MainStartFails, MainExitClose
    <3>2. CASE MainOpen \/ MainReopen
      BY <3>2, OpenPixels DEF MainOpen, MainReopen
    <3>3. CASE MainReclose
      BY <3>3, ClosePixels DEF MainReclose
    <3>4. CASE MainExitDestroy
      BY <3>4, ClosePixels DEF MainExitDestroy, avc_frame_slots_init
    <3> QED BY <1>7, <3>1, <3>2, <3>3, <3>4
  <2>3. queued' # NoSlot => pixels'[queued'] = frame_id'[queued'] \/ ~ backend'.ready
    BY <2>2 DEF PixelHistory
  <2> QED BY <1>a, <2>1, <2>3 DEF PixelHistory, PresentedPixelsIntact
<1> QED BY <1>1, <1>s, <1>t, <1>2, <1>3, <1>4, <1>5, <1>6, <1>7 DEF Main

\* As long as a flush of the firmware's stream does not fail, the presenter
\* never draws a slot that was written into after it was published.
THEOREM PresentationCorrect == ~ FlushFails => (Spec => []PresentedPixelsIntact)
<1> SUFFICES ASSUME ~ FlushFails PROVE Spec => []PresentedPixelsIntact
  OBVIOUS
<1>1. Init => PixelHistory
  <2>1. NoSlot \notin Slots
    BY SlotsAssumption DEF NoSlot, Slots
  <2> QED BY <2>1 DEF Init, SlotsInit, PixelHistory, PresentedPixelsIntact
<1>2. IInv /\ PixelHistory /\ [Next]_vars => PixelHistory'
  <2>1. CASE UNCHANGED vars
    BY <2>1 DEF PixelHistory, PresentedPixelsIntact, Idle, vars, slotVars, playerVars,
       decoderVars, presenterVars
  <2> QED BY <2>1, DecoderPixels, MainPixels DEF Next
<1>3. PixelHistory => PresentedPixelsIntact
  BY DEF PixelHistory
<1> QED BY Invariance, <1>1, <1>2, <1>3, PTL DEF Spec

-----------------------------------------------------------------------------
(***************************************************************************)
(* The pool implements the newest-wins mailbox.                             *)
(***************************************************************************)
\* Steps that neither publish nor take, nor start a session.
LEMMA MailboxStutter ==
  ASSUME UNCHANGED <<queued, frame_id, delivered, output_sequence>>,
         dpc = "decoded" <=> dpc' = "decoded", dpc = "decoded" => count' = count
  PROVE  UNCHANGED Mailbox!vars
BY DEF Mailbox!vars

LEMMA DecoderMailbox ==
  ASSUME IInv, Decoder
  PROVE  [Mailbox!Next]_(Mailbox!vars)
<1> USE DEF slotVars, presenterVars, playerVars
<1>1. CASE \/ DrainPacket \/ DecoderExit \/ PacketDone \/ AssemblerWritesRefs
           \/ CallbackCorrupt \/ CallbackDrop \/ CallbackAccept \/ ResetBackend
  BY <1>1, MailboxStutter DEF DrainPacket, DecoderExit, PacketDone, AssemblerWritesRefs,
     CallbackCorrupt, CallbackDrop, CallbackAccept, ResetBackend
<1>2. CASE DecodeEnter \/ DecodeEnd \/ DecodeSubmit
  BY <1>2, MailboxStutter DEF DecodeEnter, DecodeEnd, DecodeSubmit, DecodeReturns
<1>3. CASE DecodeReserve
  <2>1. /\ UNCHANGED <<queued, frame_id, delivered, output_sequence>>
        /\ dpc # "decoded" /\ dpc' # "decoded"
    BY <1>3 DEF DecodeReserve, DecodeReturns, avc_frame_slots_reserve
  <2> QED BY <2>1, MailboxStutter
<1>4. CASE ResetDropQueued
  <2>1. /\ queued' = NoSlot /\ dpc # "decoded" /\ dpc' # "decoded"
        /\ UNCHANGED <<frame_id, delivered, output_sequence>>
    BY <1>4 DEF ResetDropQueued, DropQueued
  <2>2. CASE queued = NoSlot
    BY <2>1, <2>2, MailboxStutter
  <2>3. CASE queued # NoSlot
    <3>1. frame_id[queued] # 0
      BY <2>3 DEF IInv, PictureHistory
    <3>2. Mailbox!Discard
      BY <2>1, <2>3, <3>1 DEF Mailbox!Discard
    <3> QED BY <3>2 DEF Mailbox!Next
  <2> QED BY <2>2, <2>3
<1>5. CASE DecodeComplete
  <2>1. /\ dpc # "decoded" /\ dpc' = "decoded"
        /\ UNCHANGED <<queued, frame_id, delivered>>
    BY <1>5 DEF DecodeComplete
  <2>2. PICK o \in psp_avc_backend_decode(backend, au) :
          count' = o.count /\ output_sequence' = output_sequence + o.count
    BY <1>5 DEF DecodeComplete
  <2>3. o.count \in 0..3 /\ output_sequence \in Nat
    BY DecodeType DEF IInv, TypeOK, Outcomes
  <2>4. output_sequence' - count' = output_sequence
    BY <2>2, <2>3
  <2> QED BY <2>1, <2>4 DEF Mailbox!vars
<1>6. CASE DecodePublish
  <2>1. /\ dpc = "decoded" /\ dpc' = "published"
        /\ UNCHANGED <<delivered, output_sequence, count>>
        /\ avc_frame_slots_publish(reserved, count, output_sequence)
        /\ CanPublish(reserved)
    BY <1>6, Publishable DEF DecodePublish, IInv, Writing
  <2>2. output_sequence \in Nat /\ count \in 0..3 /\ output_sequence >= count
    BY <2>1 DEF IInv, TypeOK, PictureHistory
  <2>3. CASE count = 0
    <3>1. UNCHANGED <<queued, frame_id>> /\ output_sequence - count = output_sequence
      BY <2>1, <2>2, <2>3 DEF avc_frame_slots_publish
    <3> QED BY <2>1, <3>1 DEF Mailbox!vars
  <2>4. CASE count # 0
    <3>1. reserved[count] \in Slots /\ reserved[count] # NoSlot
      BY <2>2, <2>4 DEF IInv, TypeOK, Triple, Slots, NoSlot
    <3>2. /\ queued' = reserved[count]
          /\ frame_id' = [frame_id EXCEPT ![reserved[count]] = output_sequence]
      BY <2>1, <2>4 DEF avc_frame_slots_publish
    <3>3. queued' # NoSlot /\ frame_id'[queued'] = output_sequence
      BY <3>1, <3>2 DEF IInv, TypeOK, SlotsTypeOK
    <3>4. output_sequence > output_sequence - count
      BY <2>2, <2>4
    <3>5. Mailbox!Put
      BY <2>1, <3>3, <3>4 DEF Mailbox!Put
    <3> QED BY <3>5 DEF Mailbox!Next
  <2> QED BY <2>3, <2>4
<1> QED BY <1>1, <1>2, <1>3, <1>4, <1>5, <1>6 DEF Decoder

LEMMA MainMailbox ==
  ASSUME IInv, Main
  PROVE  [Mailbox!Next]_(Mailbox!vars)
<1> USE DEF slotVars, presenterVars, playerVars, decoderVars
<1>1. CASE \/ MainForceRestart \/ MainSwitchBegin \/ MainSwitchEnd \/ MainStop \/ MainJoin
           \/ MainRepeat \/ Terminated \/ MainDisplay
  BY <1>1, MailboxStutter DEF MainForceRestart, MainSwitchBegin, MainSwitchEnd, MainStop,
     MainJoin, MainRepeat, Terminated, vars, MainDisplay
<1>2. CASE MainReleasePrevious \/ MainReleaseFrame \/ MainReleaseOwned
  BY <1>2, MailboxStutter DEF MainReleasePrevious, MainReleaseFrame, MainReleaseOwned,
     avc_frame_slots_release
<1>3. CASE MainStart
  BY <1>3, MailboxStutter DEF MainStart, IInv, Control, Idle
<1>4. CASE MainTake
  <2>1. /\ queued # NoSlot /\ queued' = NoSlot /\ delivered' = frame_id[queued]
        /\ UNCHANGED <<frame_id, dpc, count, output_sequence>>
    BY <1>4 DEF MainTake, avc_frame_slots_take
  <2>2. frame_id[queued] # 0
    BY <2>1 DEF IInv, PictureHistory
  <2>3. Mailbox!Take
    BY <2>1, <2>2 DEF Mailbox!Take
  <2> QED BY <2>3 DEF Mailbox!Next
<1>5. CASE \/ MainClose \/ MainOpen \/ MainReclose \/ MainReopen \/ MainStartFails
           \/ MainExitClose \/ MainExitDestroy
  <2>1. dpc = "off" /\ dpc' = "off"
    BY <1>5, IdleSteps DEF IInv, Control
  <2>2. \/ UNCHANGED <<slotVars, output_sequence, delivered>>
        \/ avc_frame_slots_init /\ output_sequence' = 0 /\ delivered' = 0
        \/ ~ sema /\ avc_frame_slots_init /\ UNCHANGED <<output_sequence, delivered>>
    <3>1. ASSUME NEW o, ClosePlayer(o)
          PROVE  \/ UNCHANGED <<slotVars, output_sequence, delivered>>
                 \/ avc_frame_slots_init /\ output_sequence' = 0 /\ delivered' = 0
      BY <3>1 DEF ClosePlayer
    <3>2. ASSUME NEW p, NEW r, psp_avc_player_open_profile(p, r)
          PROVE  \/ UNCHANGED <<slotVars, output_sequence, delivered>>
                 \/ avc_frame_slots_init /\ output_sequence' = 0 /\ delivered' = 0
      BY <3>2 DEF psp_avc_player_open_profile, OpenAnew, OpenFails, OpenSucceeds, OpenKeepsPool
    <3>3. CASE MainOpen \/ MainReopen
      BY <3>2, <3>3 DEF MainOpen, MainReopen
    <3>4. CASE MainClose \/ MainReclose \/ MainStartFails \/ MainExitClose
      BY <3>1, <3>4 DEF MainClose, MainReclose, MainStartFails, MainExitClose
    <3>5. CASE MainExitDestroy
      BY <3>1, <3>5 DEF MainExitDestroy
    <3> QED BY <1>5, <3>3, <3>4, <3>5
  <2>3. CASE UNCHANGED <<slotVars, output_sequence, delivered>>
    BY <2>1, <2>3, MailboxStutter
  <2>4. CASE avc_frame_slots_init /\ output_sequence' = 0 /\ delivered' = 0
    <3>1. Mailbox!Restart
      BY <2>1, <2>4 DEF Mailbox!Restart, avc_frame_slots_init
    <3> QED BY <3>1 DEF Mailbox!Next
  <2>5. CASE ~ sema /\ avc_frame_slots_init /\ UNCHANGED <<output_sequence, delivered>>
    <3>1. queued = NoSlot /\ queued' = NoSlot
      BY <2>5 DEF IInv, Control, avc_frame_slots_init
    <3> QED BY <2>1, <2>5, <3>1 DEF Mailbox!vars
  <2> QED BY <2>2, <2>3, <2>4, <2>5
<1> QED BY <1>1, <1>2, <1>3, <1>4, <1>5 DEF Main

\* Pictures reach the presenter in decode order, at most once, and never an
\* older one after a newer one was published.
THEOREM MailboxCorrect == Spec => MailboxSpec
<1>1. Init => Mailbox!Init
  BY DEF Init, SlotsInit, Mailbox!Init
<1>2. IInv /\ [Next]_vars => [Mailbox!Next]_(Mailbox!vars)
  <2>1. CASE UNCHANGED vars
    BY <2>1, MailboxStutter DEF vars, slotVars, playerVars, decoderVars
  <2> QED BY <2>1, DecoderMailbox, MainMailbox DEF Next
<1> QED BY Invariance, <1>1, <1>2, PTL DEF Spec, MailboxSpec, Mailbox!Spec

-----------------------------------------------------------------------------
(***************************************************************************)
(* With one access unit per packet the yield between packets keeps the      *)
(* decoder away from the firmware while the UI thread switches its mode.    *)
(* With two it does not: see the run of MCAvcPlayerBurst.cfg.               *)
(***************************************************************************)
YieldInv ==
  /\ mpc = "switching" => profile_change_pending
  /\ profile_change_pending =>
       \/ dpc \in {"off", "drain", "decoded", "published"}
       \/ dpc = "burst" /\ burst = 0

LEMMA DecoderYields ==
  ASSUME MaxBurst = 1, IInv, YieldInv, Decoder
  PROVE  YieldInv'
<1> USE DEF slotVars, presenterVars, playerVars
<1>0. mpc' = mpc
  BY DEF Decoder, DrainPacket, DecoderExit, PacketDone, AssemblerWritesRefs, CallbackCorrupt,
     CallbackDrop, CallbackAccept, ResetBackend, ResetDropQueued, DecodeEnter, DecodeReserve,
     DecodeSubmit, DecodeComplete, DecodePublish, DecodeEnd
<1>1. CASE \/ DrainPacket \/ DecoderExit \/ PacketDone \/ AssemblerWritesRefs
           \/ CallbackCorrupt \/ CallbackDrop \/ CallbackAccept
  BY <1>0, <1>1 DEF YieldInv, DrainPacket, DecoderExit, PacketDone, AssemblerWritesRefs,
     CallbackCorrupt, CallbackDrop, CallbackAccept
<1>2. CASE \/ ResetBackend \/ ResetDropQueued \/ DecodeEnter \/ DecodeReserve \/ DecodeSubmit
  <2>1. ~ profile_change_pending /\ profile_change_pending' = profile_change_pending
    BY <1>2 DEF YieldInv, ResetBackend, ResetDropQueued, DecodeEnter, DecodeReserve,
       DecodeSubmit
  <2> QED BY <1>0, <2>1 DEF YieldInv
<1>3. CASE DecodeComplete
  <2>1. ~ profile_change_pending /\ dpc' = "decoded"
    BY <1>3 DEF YieldInv, DecodeComplete
  <2> QED BY <1>0, <2>1 DEF YieldInv
<1>4. CASE DecodePublish
  BY <1>0, <1>4 DEF YieldInv, DecodePublish
<1>5. CASE DecodeEnd
  <2>1. burst = 1
    BY <1>5 DEF DecodeEnd, IInv, TypeOK, Control, InCallback
  <2>2. /\ dpc' = "burst" /\ burst' = burst - 1
        /\ profile_change_pending' = profile_change_pending
    BY <1>5 DEF DecodeEnd, DecodeReturns
  <2> QED BY <1>0, <2>1, <2>2 DEF YieldInv
<1> QED BY <1>1, <1>2, <1>3, <1>4, <1>5 DEF Decoder

LEMMA MainYields ==
  ASSUME IInv, YieldInv, Main
  PROVE  YieldInv'
<1> USE DEF slotVars, presenterVars, playerVars, decoderVars
<1>1. CASE MainTake \/ MainDisplay \/ MainReleasePrevious \/ MainReleaseFrame \/ MainRepeat
  BY <1>1 DEF YieldInv, MainTake, MainDisplay, MainReleasePrevious, MainReleaseFrame,
     MainRepeat, avc_frame_slots_take
<1>2. CASE MainForceRestart \/ MainSwitchBegin \/ MainStop \/ MainJoin \/ MainReleaseOwned
  BY <1>2 DEF YieldInv, MainForceRestart, MainSwitchBegin, MainStop, MainJoin,
     MainReleaseOwned, ProfileChangeReady
<1>3. CASE MainSwitchEnd
  <2>1. /\ profile_change_pending' = FALSE \/ profile_change_pending' = profile_change_pending
        /\ mpc' # "switching" /\ UNCHANGED <<dpc, burst>>
    BY <1>3 DEF MainSwitchEnd
  <2> QED BY <2>1 DEF YieldInv
<1>4. CASE MainStart
  BY <1>4 DEF YieldInv, MainStart
<1>5. CASE \/ MainClose \/ MainOpen \/ MainReclose \/ MainReopen \/ MainStartFails
           \/ MainExitClose \/ MainExitDestroy
  <2>1. dpc' = "off" /\ mpc' # "switching"
    BY <1>5, IdleSteps DEF IInv, Control, Idle
  <2> QED BY <2>1 DEF YieldInv
<1>6. CASE Terminated
  BY <1>6 DEF YieldInv, Terminated, vars
<1> QED BY <1>1, <1>2, <1>3, <1>4, <1>5, <1>6 DEF Main

\* No decode or reset overlaps a mode switch or a close of the session when
\* a packet completes at most one access unit.
THEOREM SingleBurstExclusion == MaxBurst = 1 => (Spec => []NoConcurrentFirmware)
<1> SUFFICES ASSUME MaxBurst = 1 PROVE Spec => []NoConcurrentFirmware
  OBVIOUS
<1>1. Init => YieldInv
  BY DEF Init, YieldInv
<1>2. IInv /\ YieldInv /\ [Next]_vars => YieldInv'
  <2>1. CASE UNCHANGED vars
    BY <2>1 DEF YieldInv, vars, playerVars, decoderVars
  <2> QED BY <2>1, DecoderYields, MainYields DEF Next
<1>3. IInv /\ YieldInv => NoConcurrentFirmware
  BY DEF IInv, Control, Idle, YieldInv, NoConcurrentFirmware
<1> QED BY Invariance, <1>1, <1>2, <1>3, PTL DEF Spec
=============================================================================
