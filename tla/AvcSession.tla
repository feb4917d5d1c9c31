----------------------------- MODULE AvcSession -----------------------------
(***************************************************************************)
(* The ladder of firmware resources behind one AVC session                  *)
(* (src/psp_avc_session.c): open climbs it, close descends it, and every    *)
(* rung can fail.  A failed open runs close; a failed close keeps the flags *)
(* of what it could not release, and a later close goes on from there.      *)
(*                                                                         *)
(* One step is one firmware call with the assignments that follow it.  The  *)
(* calls are serialized by contract, so the caller is one process.  The     *)
(* helper module of other builds is never loaded in the hardware build, and *)
(* the firmware version is one of the two the code accepts.                 *)
(***************************************************************************)
EXTENDS Integers

Resources == {"avcodec", "vsh_loaded", "vsh_started", "initialized", "ddr",
              "context", "created"}

VARIABLES
  flags,             \* the resources whose flag or pointer is set in the structure
  ready, baseline_booted, main_profile,   \* its other fields
  st, op, profile, restore_mode, result,  \* the call in progress
  held,              \* how often each resource is really held
  mode               \* the Media Engine's boot mode: 3 (Main) or 4 (Baseline)

structVars == <<flags, ready, baseline_booted, main_profile>>
callVars == <<op, profile, restore_mode>>
vars == <<structVars, callVars, st, result, held, mode>>

MAIN == 3
BASELINE == 4

OpenSteps == {"avcodec", "vsh_load", "vsh_start", "fixup", "boot", "mpeg_init",
              "ddr", "context", "create", "init_au"}
CloseSteps == {"delete", "restore", "vsh_stop", "vsh_unload", "avcodec_unload",
               "context_free", "clear"}

TypeOK ==
  /\ flags \subseteq Resources
  /\ ready \in BOOLEAN /\ baseline_booted \in BOOLEAN /\ main_profile \in BOOLEAN
  /\ st \in {"idle"} \cup OpenSteps \cup CloseSteps
  /\ op \in {"none", "open", "close", "switch"}
  /\ profile \in {MAIN, BASELINE}
  /\ restore_mode \in BOOLEAN
  /\ result \in {"ok", "failed", "refused"}
  /\ held \in [Resources -> Nat]
  /\ mode \in {MAIN, BASELINE}

Init ==
  /\ flags = {} /\ ready = FALSE /\ baseline_booted = FALSE /\ main_profile = FALSE
  /\ st = "idle" /\ op = "none" /\ profile = MAIN /\ restore_mode = TRUE
  /\ result = "ok"
  /\ held = [r \in Resources |-> 0]
  /\ mode = MAIN

-----------------------------------------------------------------------------
(***************************************************************************)
(* The caller.                                                              *)
(***************************************************************************)
\* vsh_started is the one flag that open does not test.
Occupied == \/ flags \ {"vsh_started"} # {}
            \/ ready \/ baseline_booted \/ main_profile

CallOpen ==
  /\ st = "idle"
  /\ op' = "open" /\ profile' \in {MAIN, BASELINE} /\ restore_mode' = TRUE
  /\ IF Occupied THEN st' = "idle" /\ result' = "refused"
                 ELSE st' = "avcodec" /\ result' = "ok"
  /\ UNCHANGED <<structVars, held, mode>>

CallClose ==
  /\ st = "idle"
  /\ op' = "close" /\ restore_mode' = TRUE
  /\ ready' = FALSE
  /\ st' = "delete" /\ result' = "ok"
  /\ UNCHANGED <<flags, baseline_booted, main_profile, profile, held, mode>>

\* psp_avc_session_switch_profile closes without restoring the mode.
CallSwitch ==
  /\ st = "idle"
  /\ op' = "switch" /\ profile' \in {MAIN, BASELINE} /\ restore_mode' = FALSE
  /\ ready' = FALSE
  /\ st' = "delete" /\ result' = "ok"
  /\ UNCHANGED <<flags, baseline_booted, main_profile, held, mode>>

-----------------------------------------------------------------------------
(***************************************************************************)
(* psp_avc_session_open.                                                    *)
(***************************************************************************)
\* goto fail: psp_avc_session_close, which also restores the mode.
OpenFails ==
  /\ st' = "delete" /\ result' = "failed" /\ restore_mode' = TRUE
  /\ UNCHANGED <<structVars, op, profile, held, mode>>

Gain(r) ==
  /\ flags' = flags \cup {r}
  /\ held' = [held EXCEPT ![r] = @ + 1]

Acquire(from, r, to) ==
  /\ st = from
  /\ \/ /\ Gain(r) /\ st' = to
        /\ UNCHANGED <<ready, baseline_booted, main_profile, callVars, result, mode>>
     \/ OpenFails

\* The first failure returns at once: nothing is owned yet.
LoadAvcodec ==
  /\ st = "avcodec"
  /\ \/ Gain("avcodec") /\ st' = "vsh_load" /\ UNCHANGED result
     \/ st' = "idle" /\ result' = "failed" /\ UNCHANGED <<flags, held>>
  /\ UNCHANGED <<ready, baseline_booted, main_profile, callVars, mode>>

LoadVsh == Acquire("vsh_load", "vsh_loaded", "vsh_start")

\* Mutant: the flag is only set after the status was tested.
StartVshChecksFirst ==
  /\ st = "vsh_start"
  /\ \/ Acquire("vsh_start", "vsh_started", "fixup")
     \/ /\ held' = [held EXCEPT !["vsh_started"] = @ + 1]
        /\ st' = "delete" /\ result' = "failed" /\ restore_mode' = TRUE
        /\ UNCHANGED <<structVars, op, profile, mode>>

\* The module may start and still report a bad status.
StartVsh ==
  \/ Acquire("vsh_start", "vsh_started", "fixup")
  \/ /\ st = "vsh_start" /\ Gain("vsh_started")
     /\ st' = "delete" /\ result' = "failed" /\ restore_mode' = TRUE
     /\ UNCHANGED <<ready, baseline_booted, main_profile, op, profile, mode>>

FixupImports ==
  /\ st = "fixup"
  /\ \/ st' = "boot" /\ UNCHANGED <<structVars, callVars, result, held, mode>>
     \/ OpenFails

\* BootAvcMode at priority 33: it may fail, or succeed while the caller's
\* priority cannot be restored, which counts as a failure too.
SwitchMode ==
  /\ st = "boot"
  /\ \/ /\ mode' = profile
        /\ baseline_booted' = (profile = BASELINE)
        /\ main_profile' = (profile = MAIN)
        /\ st' = "mpeg_init"
        /\ UNCHANGED <<flags, ready, callVars, result, held>>
     \/ /\ mode' = profile
        /\ st' = "delete" /\ result' = "failed" /\ restore_mode' = TRUE
        /\ UNCHANGED <<structVars, op, profile, held>>
     \/ OpenFails

MpegInit == Acquire("mpeg_init", "initialized", "ddr")
AllocateDdr == Acquire("ddr", "ddr", "context")
AllocateContext == Acquire("context", "context", "create")
MpegCreate == Acquire("create", "created", "init_au")

InitAu ==
  /\ st = "init_au"
  /\ \/ /\ ready' = TRUE /\ st' = "idle"
        /\ UNCHANGED <<flags, baseline_booted, main_profile, callVars, result, held, mode>>
     \/ OpenFails

-----------------------------------------------------------------------------
(***************************************************************************)
(* psp_avc_session_close_internal.  A release the firmware refuses ends the *)
(* call with everything that is left still flagged.                         *)
(***************************************************************************)
CloseStops ==
  /\ st' = "idle" /\ result' = "failed"
  /\ UNCHANGED <<structVars, callVars, held, mode>>

Lose(rs) ==
  /\ flags' = flags \ rs
  /\ held' = [r \in Resources |-> IF r \in rs \cap flags THEN held[r] - 1 ELSE held[r]]

Release(from, r, to) ==
  /\ st = from
  /\ \/ /\ Lose({r}) /\ st' = to
        /\ UNCHANGED <<ready, baseline_booted, main_profile, callVars, result, mode>>
     \/ r \in flags /\ CloseStops

\* sceMpegDelete and sceMpegFinish return nothing the code looks at.
MpegDelete ==
  /\ st = "delete"
  /\ Lose({"created", "initialized"})
  /\ ready' = FALSE /\ st' = "restore"
  /\ UNCHANGED <<baseline_booted, main_profile, callVars, result, mode>>

RestoreMode ==
  /\ st = "restore"
  /\ IF restore_mode /\ baseline_booted
     THEN \/ /\ mode' = MAIN /\ baseline_booted' = FALSE /\ st' = "vsh_stop"
             /\ UNCHANGED <<flags, ready, main_profile, callVars, result, held>>
          \/ CloseStops
     ELSE /\ st' = "vsh_stop"
          /\ UNCHANGED <<structVars, callVars, result, held, mode>>

StopVsh == Release("vsh_stop", "vsh_started", "vsh_unload")
UnloadVsh == Release("vsh_unload", "vsh_loaded", "avcodec_unload")
UnloadAvcodec == Release("avcodec_unload", "avcodec", "context_free")
FreeContext == Release("context_free", "context", "clear")

\* Mutant: a switch goes on with open whatever happened before.
ClearContextReopens ==
  /\ st = "clear"
  /\ Lose({"ddr"})
  /\ ready' = FALSE /\ baseline_booted' = FALSE /\ main_profile' = FALSE
  /\ st' = IF op = "switch" THEN "avcodec" ELSE "idle"
  /\ UNCHANGED <<callVars, result, mode>>

\* free(ddr) and memset; a switch goes on with open, a failed open returns
\* its own error.
ClearContext ==
  /\ st = "clear"
  /\ Lose({"ddr"})
  /\ ready' = FALSE /\ baseline_booted' = FALSE /\ main_profile' = FALSE
  /\ st' = IF op = "switch" /\ result = "ok" THEN "avcodec" ELSE "idle"
  /\ UNCHANGED <<callVars, result, mode>>

-----------------------------------------------------------------------------
Open == \/ LoadAvcodec \/ LoadVsh \/ StartVsh \/ FixupImports \/ SwitchMode
        \/ MpegInit \/ AllocateDdr \/ AllocateContext \/ MpegCreate \/ InitAu

Close == \/ MpegDelete \/ RestoreMode \/ StopVsh \/ UnloadVsh \/ UnloadAvcodec
         \/ FreeContext \/ ClearContext

Next == CallOpen \/ CallClose \/ CallSwitch \/ Open \/ Close

Spec == Init /\ [][Next]_vars /\ WF_vars(Open \/ Close)

-----------------------------------------------------------------------------
(***************************************************************************)
(* The structure always tells what is held: nothing leaks when a rung of    *)
(* open or close fails, nothing is acquired over itself, and a repeated     *)
(* close does not release anything a second time.                           *)
(***************************************************************************)
FlagsTellTheTruth ==
  \A r \in Resources : held[r] = IF r \in flags THEN 1 ELSE 0

(***************************************************************************)
(* A ready session holds the whole ladder, in the boot mode of the profile  *)
(* it was opened for; psp_avc_submit relies on both.                        *)
(***************************************************************************)
ReadyIsComplete ==
  ready => /\ flags = Resources
           /\ baseline_booted = (mode = BASELINE)
           /\ main_profile = (mode = MAIN)

(***************************************************************************)
(* What the backend reads off a result: success of open and switch is a     *)
(* ready session, success of close an empty one, and a failure, unlike a    *)
(* refusal, leaves a session on which a close can be tried again.           *)
(***************************************************************************)
ResultTellsState ==
  st = "idle" =>
    /\ op \in {"open", "switch"} /\ result = "ok" => ready
    /\ op = "close" /\ result = "ok" => ~ Occupied
    /\ result = "failed" => ~ ready

=============================================================================
