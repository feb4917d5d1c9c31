----------------------------- MODULE AvcBackend -----------------------------
(***************************************************************************)
(* The Sony AVC backend (src/psp_avc_backend.c with src/avc_stream_input.c  *)
(* and src/psp_avc_submit.c): what one access unit does to the decoder's    *)
(* state and which result code it returns.  Each operation is the set of    *)
(* its possible outcomes, because the firmware may refuse any call.         *)
(*                                                                         *)
(* The resource ladder of the firmware session is one Boolean here (res)    *)
(* and a module of its own, AvcSession.                                     *)
(***************************************************************************)
EXTENDS Integers

\* Results of psp_avc_backend_decode and psp_avc_player_decode.
OK == 0
PARAMETERS == 1
NEED_IDR == 2
NO_OUTPUT == 3
PROFILE_CHANGE_REQUIRED == 4
FAILED == -1
PARAMETER_CHANGE == -2
NO_SLOTS == -3
Results == -3 .. 4

\* A stream's parameter sets need Sony's Main mode or its Baseline mode.
Profiles == {"base", "main"}

(***************************************************************************)
(* An access unit: does avc_packetize accept it, which slices it carries    *)
(* and which parameter sets ("none" when it carries none).                  *)
(***************************************************************************)
AccessUnits == [valid : BOOLEAN, slice : {"none", "pred", "idr"},
                par : Profiles \cup {"none"}]

HasIdr(au) == au.slice = "idr"

(***************************************************************************)
(* PspAvcBackend: avcc (input arena), res (some session resource is owned), *)
(* ready (session.ready), failed, first_idr (first_idr_submitted), main     *)
(* (main_profile), need_idr and par (AvcStreamInput), change (the backend's *)
(* profile_change_pending) and req (requested_main_profile).                *)
(***************************************************************************)
Backends == [avcc : BOOLEAN, res : BOOLEAN, ready : BOOLEAN, failed : BOOLEAN,
             first_idr : BOOLEAN, main : Profiles, need_idr : BOOLEAN,
             par : Profiles \cup {"none"}, change : BOOLEAN, req : Profiles]

\* memset(b, 0, sizeof *b)
Closed == [avcc |-> FALSE, res |-> FALSE, ready |-> FALSE, failed |-> FALSE,
           first_idr |-> FALSE, main |-> "base", need_idr |-> FALSE,
           par |-> "none", change |-> FALSE, req |-> "base"]

Outcome(b, r) == [b |-> b, r |-> r, count |-> 0]
Fail(b, r) == Outcome([b EXCEPT !.failed = TRUE], r)

(***************************************************************************)
(* avc_stream_input_prepare: the backend with its input state after the AU, *)
(* and the result.  A changed parameter set is refused even after a loss.   *)
(***************************************************************************)
ParameterChange(b, au) == b.par # "none" /\ au.par # "none" /\ b.par # au.par

CachedPar(b, au) == IF au.par = "none" THEN b.par ELSE au.par

avc_stream_input_prepare(b, au) ==
  IF ~ au.valid THEN Outcome([b EXCEPT !.need_idr = TRUE], FAILED)
  ELSE IF ParameterChange(b, au)
  THEN Outcome([b EXCEPT !.need_idr = TRUE], PARAMETER_CHANGE)
  ELSE IF au.slice = "none"
  THEN Outcome([b EXCEPT !.par = CachedPar(b, au)], PARAMETERS)
  ELSE IF CachedPar(b, au) = "none" \/ (b.need_idr /\ ~ HasIdr(au))
  THEN Outcome([b EXCEPT !.need_idr = TRUE, !.par = CachedPar(b, au)], NEED_IDR)
  ELSE Outcome([b EXCEPT !.need_idr = FALSE, !.par = CachedPar(b, au)], OK)

(***************************************************************************)
(* psp_avc_submit: the firmware decodes the AU and delivers 0 to 3          *)
(* pictures; or a preflight test refuses the AU; or any firmware stage      *)
(* fails and the session is no longer ready.                                *)
(***************************************************************************)
psp_avc_submit(b, au) ==
  {[b |-> [b EXCEPT !.first_idr = b.first_idr \/ HasIdr(au)],
    r |-> OK, count |-> n] : n \in 0..3}
  \cup {Fail(b, FAILED), Fail([b EXCEPT !.ready = FALSE], FAILED)}

(***************************************************************************)
(* psp_avc_backend_decode.  The parameter sets may be unusable (syntax,     *)
(* dimensions, size): then the AU is refused before the profile is looked   *)
(* at.  A profile other than the session's is only accepted before the      *)
(* first IDR was submitted.                                                 *)
(***************************************************************************)
AskForProfile(b) ==
  IF b.first_idr THEN Fail(b, FAILED)
  ELSE Outcome([b EXCEPT !.change = TRUE, !.req = b.par], PROFILE_CHANGE_REQUIRED)

psp_avc_backend_decode(b, au) ==
  LET in == avc_stream_input_prepare(b, au)
  IN IF ~ b.avcc \/ b.failed THEN {Outcome(b, FAILED)}
     ELSE IF in.r < 0 THEN {Fail(in.b, in.r)}
     ELSE IF in.r > 0 THEN {in}
     ELSE {Fail(in.b, FAILED)}
          \cup IF in.b.par # b.main THEN {AskForProfile(in.b)}
               ELSE IF b.ready THEN psp_avc_submit(in.b, au) ELSE {}

(***************************************************************************)
(* psp_avc_backend_open on a backend that owns nothing: the firmware        *)
(* session may fail to open, cleanly or with resources retained, and the    *)
(* input arena may fail to be allocated.                                    *)
(***************************************************************************)
psp_avc_backend_open(b, p) ==
  LET fresh == [b EXCEPT !.main = p, !.failed = FALSE, !.first_idr = FALSE,
                         !.change = FALSE, !.req = p, !.need_idr = TRUE,
                         !.par = "none"]
  IN {Outcome([fresh EXCEPT !.avcc = TRUE, !.res = TRUE, !.ready = TRUE], OK),
      Outcome(fresh, FAILED),
      Outcome([fresh EXCEPT !.res = TRUE], FAILED),
      Outcome(Closed, FAILED)}

(***************************************************************************)
(* psp_avc_backend_close: the session's release can stop half way, and so   *)
(* can the arena's; what is still owned stays recorded.                     *)
(***************************************************************************)
psp_avc_backend_close(b) ==
  LET shut == [b EXCEPT !.failed = TRUE, !.ready = FALSE]
  IN {Outcome(Closed, OK)}
     \cup (IF b.res THEN {Outcome(shut, FAILED)} ELSE {})
     \cup (IF b.avcc THEN {Outcome([shut EXCEPT !.res = FALSE], FAILED)} ELSE {})

(***************************************************************************)
(* psp_avc_backend_reset: close and reopen the session under the same       *)
(* profile.  first_idr_submitted and the cached parameter sets survive.     *)
(***************************************************************************)
psp_avc_backend_reset(b) ==
  LET shut == [b EXCEPT !.failed = TRUE, !.ready = FALSE]
      idle == [shut EXCEPT !.need_idr = TRUE, !.res = FALSE]
  IN IF ~ b.avcc THEN {Outcome(b, FAILED)}
     ELSE {Outcome([idle EXCEPT !.res = TRUE, !.ready = TRUE, !.failed = FALSE], OK),
           Outcome(idle, FAILED),
           Outcome([idle EXCEPT !.res = TRUE], FAILED)}
          \cup (IF b.res THEN {Outcome(shut, FAILED)} ELSE {})

(***************************************************************************)
(* psp_avc_backend_switch_profile, called on the UI thread.                 *)
(***************************************************************************)
psp_avc_backend_switch_profile(b, p) ==
  LET down == [b EXCEPT !.failed = TRUE, !.ready = FALSE]
  IN IF ~ b.avcc \/ ~ b.change \/ b.first_idr \/ p # b.req
     THEN {Outcome(b, FAILED)}
     ELSE {Outcome([b EXCEPT !.main = p, !.change = FALSE, !.need_idr = TRUE,
                             !.res = TRUE, !.ready = TRUE], OK),
           Outcome([down EXCEPT !.res = TRUE], FAILED),
           Outcome([down EXCEPT !.res = FALSE], FAILED)}
=============================================================================
