------------------------------ MODULE Settings ------------------------------
(***************************************************************************)
(* The settings menu and the scalar part of config.ini: what the user      *)
(* selects, what is written, what the next start of the menu reads, and    *)
(* what a stream is launched with.  Settings that are copied without any   *)
(* rule of their own (audio, packet size, control mode, theme) are left    *)
(* out.  The file is written one line at a time, and the power may fail    *)
(* between two lines.                                                      *)
(***************************************************************************)
EXTENDS Integers, Sequences, FiniteSets

CONSTANTS
    BITRATE_PRESETS,    \* the ladder of the bitrate row, ascending
    EnteredSizes,       \* the sizes <<w, h>> the user may type
    EnteredFps,         \* the frame rates the user may type
    EditedFiles,        \* sizes and indices of files edited by hand
    MaxEdits            \* bound: presses left or right in one behaviour

MIN_BITRATE == 192
MAX_BITRATE == 2760

ASSUME SettingsAssumption ==
    /\ BITRATE_PRESETS \in Seq(MIN_BITRATE..MAX_BITRATE) /\ BITRATE_PRESETS # <<>>
    /\ EnteredSizes \subseteq Nat \X Nat /\ EnteredFps \subseteq Nat
    /\ EditedFiles \subseteq [w : Int, h : Int, res : Int, fpsIdx : 0..4]
    /\ MaxEdits \in Nat

VARIABLES
    sAt,            \* boot, menu, or away: the menu was left and a stream may be launched
    sFile,          \* config.ini: [lines |-> how many of Keys it has, c |-> their values]
    g_psp_config,
    g_menu_state,   \* the menu's rows; fps is customFpsValue, which outlives a visit
    customSlot,     \* RESOLUTION_WIDTHS and _HEIGHTS of the Custom entry
    sKept,          \* history: the last save was not lost
    sEdits

settingsVars == <<sAt, sFile, g_psp_config, g_menu_state, customSlot, sKept, sEdits>>

Keys == <<"width", "height", "resolutionIndex", "presetIndex", "fps", "fpsIndex", "bitrate">>
Custom == 3             \* RESOLUTION_CUSTOM_INDEX
FPS_CUSTOM_INDEX == 5
FPS_VALUES == [i \in 0..4 |-> <<10, 15, 20, 30, 60>>[i + 1]]
PresetSizes == [i \in 0..2 |-> <<<<480, 272>>, <<360, 204>>, <<300, 170>>>>[i + 1]]
PresetFps == [i \in 0..2 |-> <<1, 2, 3>>[i + 1]]
PresetBitrate == [i \in 0..2 |-> <<576, 480, 384>>[i + 1]]

Abs(n) == IF n < 0 THEN -n ELSE n
Clamp(n, lo, hi) == IF n < lo THEN lo ELSE IF n > hi THEN hi ELSE n
Even(n) == n + (n % 2)

(* The first of S at the least distance, as the search loops find it.      *)
Nearest(S, dist(_)) == CHOOSE i \in S : \A j \in S : dist(i) < dist(j) \/ (dist(i) = dist(j) /\ i <= j)

(***************************************************************************)
(* stream_resolution_normalize: the nearest even multiple of 30:17 between *)
(* 300x170 and 480x272                                                     *)
(***************************************************************************)
Normalize(w, h) ==
    LET fromW == ((IF w > 0 THEN w ELSE 480) + 15) \div 30
        fromH == ((IF h > 0 THEN h ELSE 272) + 8) \div 17
        scale == Clamp(Even((fromW + fromH + 1) \div 2), 10, 16)
    IN  <<30 * scale, 17 * scale>>

NearestPreset(w, h) ==
    Nearest(0..2, LAMBDA i : Abs(PresetSizes[i][1] - w) + Abs(PresetSizes[i][2] - h))

(***************************************************************************)
(* loadConfig and saveConfig                                               *)
(***************************************************************************)
Defaults == [preset |-> 1, res |-> 1, w |-> 360, h |-> 204, fpsIdx |-> 2, fps |-> 20, bitrate |-> 480]

FpsIndexOf(fps) ==
    IF \E i \in 0..4 : FPS_VALUES[i] = fps THEN CHOOSE i \in 0..4 : FPS_VALUES[i] = fps
    ELSE FPS_CUSTOM_INDEX

Has(file, key) == \E n \in 1..file.lines : Keys[n] = key

(* The fps line sets the index too; the fpsIndex line, which follows it,   *)
(* overrides the index and, unless it is Custom, the rate.                 *)
LoadFps(file) ==
    IF Has(file, "fpsIndex")
    THEN [fpsIdx |-> file.c.fpsIdx,
          fps |-> IF file.c.fpsIdx \in 0..4 THEN FPS_VALUES[file.c.fpsIdx] ELSE file.c.fps]
    ELSE IF Has(file, "fps") THEN [fpsIdx |-> FpsIndexOf(file.c.fps), fps |-> file.c.fps]
    ELSE [fpsIdx |-> Defaults.fpsIdx, fps |-> Defaults.fps]

(* The size follows the index when that is Custom, and the index the size  *)
(* when it is not.                                                         *)
LoadSize(file) ==
    LET w == IF Has(file, "width") THEN file.c.w ELSE Defaults.w
        h == IF Has(file, "height") THEN file.c.h ELSE Defaults.h
        read == IF Has(file, "resolutionIndex") THEN file.c.res ELSE Defaults.res
        res == IF read = Custom THEN Custom ELSE NearestPreset(w, h)
        size == IF res = Custom THEN Normalize(w, h) ELSE PresetSizes[res]
    IN  [res |-> res, w |-> size[1], h |-> size[2]]

loadConfig(file) ==
    LET size == LoadSize(file)
        fps == LoadFps(file)
    IN  [preset |-> IF ~Has(file, "presetIndex") THEN size.res
                    ELSE IF file.c.preset \in 0..3 THEN file.c.preset ELSE Defaults.preset,
         res |-> size.res, w |-> size.w, h |-> size.h,
         fpsIdx |-> fps.fpsIdx, fps |-> fps.fps,
         bitrate |-> IF Has(file, "bitrate") THEN Clamp(file.c.bitrate, MIN_BITRATE, MAX_BITRATE)
                     ELSE Defaults.bitrate]

Written(c, lines) == [lines |-> lines, c |-> c]
Edited(e) == Written([Defaults EXCEPT !.w = e.w, !.h = e.h, !.res = e.res,
                             !.fpsIdx = e.fpsIdx], Len(Keys))

SettingsInit ==
    /\ sAt = "boot" /\ sFile \in {Written(Defaults, 0)} \cup {Edited(e) : e \in EditedFiles}
    /\ g_psp_config = Defaults /\ customSlot = <<480, 272>>
    /\ g_menu_state = [preset |-> 0, res |-> 0, fpsIdx |-> 0, fps |-> 0, bitrate |-> 0]
    /\ sKept = TRUE /\ sEdits = 0

(* settings_menu_init: on the way to the first stream and whenever the     *)
(* user comes back from the list of hosts.                                 *)
OpenMenu ==
    /\ sAt # "menu" /\ sAt' = "menu"
    /\ LET c == loadConfig(sFile) IN
          /\ g_psp_config' = c
          /\ customSlot' = IF c.res = Custom THEN <<c.w, c.h>> ELSE customSlot
          /\ g_menu_state' = [preset |-> c.preset, res |-> c.res, fpsIdx |-> c.fpsIdx,
                              fps |-> IF c.fpsIdx = FPS_CUSTOM_INDEX THEN c.fps ELSE g_menu_state.fps,
                              bitrate |-> c.bitrate]
    /\ sKept' = TRUE
    /\ UNCHANGED <<sFile, sEdits>>

(***************************************************************************)
(* settings_menu_run: d is -1 for left and 1 for right                     *)
(***************************************************************************)
Press ==
    /\ sAt = "menu" /\ sEdits < MaxEdits /\ sEdits' = sEdits + 1
    /\ UNCHANGED <<sAt, sFile, g_psp_config, customSlot, sKept>>

StepPreset(d) ==
    /\ Press
    /\ LET i == (g_menu_state.preset + d) % 4 IN
          g_menu_state' = IF i = Custom THEN [g_menu_state EXCEPT !.preset = i, !.res = i]
                          ELSE [preset |-> i, res |-> i, fpsIdx |-> PresetFps[i], fps |-> 0,
                                bitrate |-> PresetBitrate[i]]

StepResolution(d) ==
    /\ Press
    /\ g_menu_state' = [g_menu_state EXCEPT !.res = (@ + d) % 4]

StepFps(d) ==
    /\ Press
    /\ LET i == (g_menu_state.fpsIdx + d) % 6 IN
          g_menu_state' = [g_menu_state EXCEPT !.fpsIdx = i,
                              !.fps = IF i = FPS_CUSTOM_INDEX /\ @ = 0 THEN 24 ELSE @]

StepBitrate(d) ==
    /\ Press
    /\ LET i == Nearest(DOMAIN BITRATE_PRESETS, LAMBDA j : Abs(BITRATE_PRESETS[j] - g_menu_state.bitrate)) IN
          g_menu_state' = [g_menu_state EXCEPT !.bitrate = BITRATE_PRESETS[Clamp(i + d, 1, Len(BITRATE_PRESETS))]]

(* osk_get_resolution_input: a size that normalising would change is       *)
(* refused, and the keypad stays until it is corrected or cancelled.       *)
EnterSize(size) ==
    /\ sAt = "menu"
    /\ g_menu_state.res = Custom /\ Normalize(size[1], size[2]) = size
    /\ customSlot' = size
    /\ UNCHANGED <<sAt, sFile, g_psp_config, g_menu_state, sKept, sEdits>>

EnterFps(fps) ==
    /\ sAt = "menu"
    /\ g_menu_state.fpsIdx = FPS_CUSTOM_INDEX /\ fps \in 1..144
    /\ g_menu_state' = [g_menu_state EXCEPT !.fps = fps]
    /\ UNCHANGED <<sAt, sFile, g_psp_config, customSlot, sKept, sEdits>>

(* update_config_from_menu                                                 *)
FromMenu ==
    LET size == IF g_menu_state.res = Custom THEN customSlot ELSE PresetSizes[g_menu_state.res]
    IN  [preset |-> g_menu_state.preset, res |-> g_menu_state.res, w |-> size[1], h |-> size[2],
         fpsIdx |-> g_menu_state.fpsIdx,
         fps |-> IF g_menu_state.fpsIdx = FPS_CUSTOM_INDEX THEN g_menu_state.fps
                 ELSE FPS_VALUES[g_menu_state.fpsIdx],
         bitrate |-> g_menu_state.bitrate]

(* A save that cannot open the file is not noticed: the stream uses the    *)
(* settings, the file keeps the old ones.                                  *)
SaveAndLeave(opened) ==
    /\ sAt = "menu" /\ sAt' = "away"
    /\ g_psp_config' = FromMenu
    /\ sFile' = IF opened THEN Written(FromMenu, Len(Keys)) ELSE sFile
    /\ sKept' = opened
    /\ UNCHANGED <<g_menu_state, customSlot, sEdits>>

(* The power fails after the file was truncated and some lines written.    *)
SaveLosesPower(lines) ==
    /\ sAt = "menu" /\ sAt' = "boot"
    /\ sFile' = Written(FromMenu, lines)
    /\ g_menu_state' = [g_menu_state EXCEPT !.fps = 0] /\ customSlot' = <<480, 272>>
    /\ UNCHANGED <<g_psp_config, sKept, sEdits>>

LeaveMenu ==
    /\ sAt = "menu" /\ sAt' = "away"
    /\ UNCHANGED <<sFile, g_psp_config, g_menu_state, customSlot, sKept, sEdits>>

SettingsNext ==
    \/ OpenMenu \/ LeaveMenu
    \/ \E d \in {-1, 1} : StepPreset(d) \/ StepResolution(d) \/ StepFps(d) \/ StepBitrate(d)
    \/ \E size \in EnteredSizes : EnterSize(size)
    \/ \E fps \in EnteredFps : EnterFps(fps)
    \/ \E opened \in BOOLEAN : SaveAndLeave(opened)
    \/ \E lines \in 0..(Len(Keys) - 1) : SaveLosesPower(lines)

(***************************************************************************)
(* Properties                                                              *)
(***************************************************************************)
(* What a stream is launched with can be streamed, whatever file was       *)
(* found, half written or edited by hand, and whatever was pressed: an     *)
(* even size of exactly 30:17 within the panel, a rate of at least one     *)
(* frame per second that the index agrees with, and a bitrate in bounds    *)
(* (loadConfig, settings_menu_init, update_config_from_menu).  And it is   *)
(* what the next visit to the menu, or the next boot, reads back, for      *)
(* every combination of preset, resolution and custom values: saveConfig   *)
(* and loadConfig are inverse on what the menu produces.                   *)
LaunchUsable ==
    sAt = "away" =>
        /\ \E s \in {10, 12, 14, 16} : g_psp_config.w = 30 * s /\ g_psp_config.h = 17 * s
        /\ g_psp_config.fps \in 1..144
        /\ g_psp_config.fpsIdx # FPS_CUSTOM_INDEX => g_psp_config.fps = FPS_VALUES[g_psp_config.fpsIdx]
        /\ g_psp_config.bitrate \in MIN_BITRATE..MAX_BITRATE
        /\ sKept => loadConfig(sFile) = g_psp_config
=============================================================================
