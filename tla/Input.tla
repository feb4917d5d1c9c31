-------------------------------- MODULE Input --------------------------------
(***************************************************************************)
(* What the stream loop does with the pad: the poll that sends controller  *)
(* state to the host, then the overlay (HUD) that takes some of the input  *)
(* for itself.  Each reads the pad for itself, so the pad may change in    *)
(* between.  Messages to the host are reliable (module ControlStream).     *)
(***************************************************************************)
EXTENDS InputMapping

CONSTANTS
    Pads,           \* the sets of buttons the user may hold; "Stick" is a deflected analog stick
    Mappings,       \* the mappings load_mapping may find
    Cooldown        \* frames without input after the overlay is toggled (4)

ASSUME InputAssumption ==
    /\ Pads \subseteq SUBSET DOMAIN Xbox /\ {} \in Pads
    /\ Cooldown \in Nat

VARIABLES
    pc,             \* idle, or the part of the loop that is next: poll, hud
    video_started,  \* a frame was shown; nothing is sent before
    mode,           \* g_psp_config.controlMode of the stream
    mapping,        \* g_mapping
    pad,            \* the buttons held when the pad was last read
    g_prev,         \* what the poll last sent
    recent,         \* s_last_send_tick is less than 33 ms ago
    mouse,          \* g_mouse_l_down, g_mouse_r_down: the mouse buttons held down
    host,           \* the controls the host holds down
    visible, cooldown, consumed, g_prev_buttons,    \* of the overlay
    exit_combo,     \* s_combo_start_us # 0
    local           \* history: held buttons that were pressed while the overlay was visible

pollVars == <<mode, mapping, g_prev, recent, mouse, host>>
hudVars == <<visible, cooldown, consumed, g_prev_buttons, exit_combo>>
vars == <<pc, video_started, pad, local, pollVars, hudVars>>

Mouse == {"MB_LEFT", "MB_RIGHT"}
Controls == {Xbox[b] : b \in DOMAIN Xbox} \cup Virtual \cup {"RSTICK"} \cup Mouse

TypeOK ==
    /\ pc \in {"idle", "poll", "hud"} /\ mode \in {"xbox", "browser"} /\ mapping \in Mappings
    /\ {pad, g_prev} \subseteq Pads /\ {consumed, g_prev_buttons} \subseteq SUBSET PspButtons /\ local \subseteq pad
    /\ mouse \subseteq Mouse /\ host \subseteq Controls
    /\ {recent, visible, exit_combo, video_started} \subseteq BOOLEAN /\ cooldown \in 0..Cooldown

Init ==
    /\ pc = "idle" /\ video_started = FALSE /\ mode = "xbox" /\ mapping \in Mappings
    /\ pad = {} /\ g_prev = {} /\ recent = FALSE /\ mouse = {} /\ host = {}
    /\ visible = FALSE /\ cooldown = 0 /\ consumed = {} /\ g_prev_buttons = {}
    /\ exit_combo = FALSE /\ local = {}

Read(p) ==
    /\ pad' = p
    /\ local' = (local \cap p) \cup (IF visible THEN p \ pad ELSE {})

Buttons(p) == p \cap PspButtons
HudCombo(p) == {"R", "Up"} \subseteq p
ExitCombo(p) == {"Start", "Select"} \subseteq p

(***************************************************************************)
(* A stream starts and ends.  hud_init and input_init leave the cooldown   *)
(* and the memory of the mouse buttons of the last stream as they are; the *)
(* host releases everything with the session.                              *)
(***************************************************************************)
StartStream(p) ==
    /\ pc = "idle"
    /\ pc' = "poll"
    /\ mode' \in {"xbox", "browser"} /\ mapping' \in Mappings
    /\ pad' = p /\ g_prev' = p /\ local' = {}
    /\ UNCHANGED <<video_started, recent, mouse, host, hudVars>>

EndStream ==
    /\ pc' = "idle" /\ video_started' = FALSE /\ pad' = {} /\ local' = {} /\ host' = {} /\ g_prev' = {}
    /\ visible' = FALSE /\ consumed' = {} /\ g_prev_buttons' = {}
    /\ mode' = "xbox" /\ UNCHANGED <<mapping, recent, mouse, cooldown>>

(* The stream ends for a reason of its own, between two turns of the loop. *)
StreamStops == pc = "poll" /\ EndStream /\ UNCHANGED exit_combo

(***************************************************************************)
(* input_poll_and_send                                                     *)
(***************************************************************************)
hud_is_visible == visible \/ cooldown > 0 \/ consumed # {}

PollSkipped ==
    /\ pc = "poll" /\ (hud_is_visible \/ ~video_started)
    /\ video_started' \in {video_started, TRUE}
    /\ pc' = "hud"
    /\ UNCHANGED <<pad, local, pollVars, hudVars>>

(* The combinations of the application itself are kept from the host.      *)
PollSuppressed(p) ==
    /\ pc = "poll" /\ video_started /\ ~hud_is_visible
    /\ HudCombo(p) \/ ExitCombo(p)
    /\ Read(p) /\ pc' = "hud"
    /\ UNCHANGED <<video_started, pollVars, hudVars>>

Changed(p) == p # g_prev \/ (mode = "browser" /\ "Stick" \in p)
Throttled(p) == Buttons(p) = Buttons(g_prev) /\ recent

PollThrottledForgets(p) ==
    /\ pc = "poll" /\ video_started /\ ~hud_is_visible /\ ~HudCombo(p) /\ ~ExitCombo(p)
    /\ ~Changed(p) \/ Throttled(p)
    /\ recent' = FALSE /\ g_prev' = p
    /\ Read(p) /\ pc' = "hud"
    /\ UNCHANGED <<video_started, mode, mapping, mouse, host, hudVars>>

(* Nothing to send, or only the stick moved and the last message is recent *)
(* (33 ms: at 60 Hz it is so for one poll).                                *)
PollThrottled(p) ==
    /\ pc = "poll" /\ video_started /\ ~hud_is_visible /\ ~HudCombo(p) /\ ~ExitCombo(p)
    /\ ~Changed(p) \/ Throttled(p)
    /\ recent' = FALSE
    /\ Read(p) /\ pc' = "hud"
    /\ UNCHANGED <<video_started, mode, mapping, g_prev, mouse, host, hudVars>>

(* Xbox mode sends the whole state.  Browser mode sends the edges of the   *)
(* two mouse buttons; its keys, wheel steps and stick motions are over as  *)
(* soon as they are sent.                                                  *)
MouseDown(p) ==
    (IF "L" \in p /\ {"Up", "Down"} \cap p = {} THEN {"MB_LEFT"} ELSE {})
        \cup (IF "R" \in p /\ "Triangle" \notin p THEN {"MB_RIGHT"} ELSE {})

PollSends(p) ==
    /\ pc = "poll" /\ video_started /\ ~hud_is_visible /\ ~HudCombo(p) /\ ~ExitCombo(p)
    /\ Changed(p) /\ ~Throttled(p)
    /\ recent' = TRUE /\ g_prev' = p
    /\ \/ /\ mode = "xbox"
          /\ host' = Report(mapping, p)
          /\ UNCHANGED mouse
       \/ /\ mode = "browser"
          /\ mouse' = MouseDown(p)
          /\ host' = (host \cup (mouse' \ mouse)) \ (mouse \ mouse')
    /\ Read(p) /\ pc' = "hud"
    /\ UNCHANGED <<video_started, mode, mapping, hudVars>>

(***************************************************************************)
(* The rest of the turn: the exit combination, then hud_handle_input.      *)
(***************************************************************************)
(* Start and Select held for 500 ms                                        *)
ExitHeld(p) ==
    /\ pc = "hud" /\ ExitCombo(p) /\ exit_combo
    /\ exit_combo' = FALSE
    /\ EndStream

(* What every pass of hud_handle_input does                                *)
Hud(p) ==
    /\ pc = "hud" /\ pc' = "poll"
    /\ exit_combo' = ExitCombo(p)
    /\ g_prev_buttons' = Buttons(p)
    /\ Read(p)
    /\ UNCHANGED <<video_started, pollVars>>

HudCooldown(p) ==
    /\ Hud(p)
    /\ cooldown > 0 /\ cooldown' = cooldown - 1
    /\ consumed' = consumed \cap p
    /\ UNCHANGED visible

HudConsumes(p) ==
    /\ Hud(p)
    /\ cooldown = 0 /\ consumed \cap p # {}
    /\ consumed' = consumed \cap p
    /\ UNCHANGED <<visible, cooldown>>

Ready(p) == cooldown = 0 /\ consumed \cap p = {}
Pressed(p, b) == b \in p /\ b \notin g_prev_buttons
Toggled(p) == HudCombo(p) /\ ~HudCombo(g_prev_buttons)

HudToggle(p) ==
    /\ Hud(p)
    /\ Ready(p) /\ Toggled(p)
    /\ visible' = ~visible
    /\ cooldown' = Cooldown
    /\ consumed' = IF visible THEN Buttons(p) ELSE {}

HudCloseKeepsNothing(p) ==
    /\ Hud(p)
    /\ Ready(p) /\ ~Toggled(p) /\ visible /\ Pressed(p, "Circle")
    /\ visible' = FALSE /\ consumed' = {}
    /\ UNCHANGED cooldown

HudClose(p) ==
    /\ Hud(p)
    /\ Ready(p) /\ ~Toggled(p) /\ visible /\ Pressed(p, "Circle")
    /\ visible' = FALSE /\ consumed' = Buttons(p)
    /\ UNCHANGED cooldown

(* Cross takes the selected item; pause and quit both end the stream.      *)
(* Circle in the same frame overrides it.                                  *)
HudSelect(p) ==
    /\ pc = "hud"
    /\ Ready(p) /\ ~Toggled(p) /\ visible /\ Pressed(p, "Cross") /\ ~Pressed(p, "Circle")
    /\ exit_combo' = ExitCombo(p)
    /\ EndStream

(* Nothing for the overlay, or the selection moves.                        *)
HudIdle(p) ==
    /\ Hud(p)
    /\ Ready(p) /\ ~Toggled(p) /\ (visible => ~Pressed(p, "Cross") /\ ~Pressed(p, "Circle"))
    /\ consumed' = {}
    /\ UNCHANGED <<visible, cooldown>>

Next ==
    \/ StreamStops \/ PollSkipped
    \/ \E p \in Pads :
          \/ StartStream(p) \/ PollSuppressed(p) \/ PollThrottled(p) \/ PollSends(p)
          \/ ExitHeld(p) \/ HudCooldown(p) \/ HudConsumes(p) \/ HudToggle(p) \/ HudClose(p)
          \/ HudSelect(p) \/ HudIdle(p)

(* The loop turns for as long as there is a stream.                        *)
Loop == PollSkipped \/ \E p \in Pads :
    \/ PollSuppressed(p) \/ PollThrottled(p) \/ PollSends(p) \/ HudCooldown(p) \/ HudConsumes(p)
    \/ HudToggle(p) \/ HudClose(p) \/ HudIdle(p)

Spec == Init /\ [][Next]_vars /\ WF_vars(Loop)

(***************************************************************************)
(* Properties                                                              *)
(***************************************************************************)
(* A button pressed while the overlay was on the screen is never sent      *)
(* to the host, however long the button is held and whichever way the      *)
(* overlay was closed (g_hud_consumed_buttons, hud_is_visible).            *)
NoMenuLeak == [][pc # "idle" => Buttons(g_prev' \ g_prev) \cap local' = {}]_vars

(* Nothing stays held down at the host: once the user holds nothing and    *)
(* the overlay is closed, every control is released, although polls were   *)
(* skipped, suppressed or throttled while the buttons went up              *)
(* (input_poll_and_send, state_changed).                                   *)
NoStuckInput == (<>[](pc # "idle" /\ pad = {} /\ ~visible)) => (<>[](host = {}))
=============================================================================
