---------------------------- MODULE InputMapping ----------------------------
(***************************************************************************)
(* The button mapper: which Xbox controls a set of held PSP buttons stands *)
(* for, and how a stored mapping is made usable.                           *)
(***************************************************************************)
EXTENDS Naturals

RightStick == {"RS_UP", "RS_DOWN", "RS_LEFT", "RS_RIGHT"}
Virtual == RightStick \cup {"LT", "RT", "L3", "R3"}
None == "none"

(* translate_buttons, with the analog stick as one more button             *)
Xbox == [Cross |-> "A", Circle |-> "B", Square |-> "X", Triangle |-> "Y", Start |-> "START",
         Select |-> "BACK", L |-> "LB", R |-> "RB", Up |-> "DPAD_UP", Down |-> "DPAD_DOWN",
         Left |-> "DPAD_LEFT", Right |-> "DPAD_RIGHT", Stick |-> "LSTICK"]
PspButtons == (DOMAIN Xbox) \ {"Stick"}

DefaultAssign ==
    [LT |-> "Left", RT |-> "Right", RS_UP |-> "Triangle", RS_DOWN |-> "Cross", RS_LEFT |-> "Square",
     RS_RIGHT |-> "Circle", L3 |-> "Down", R3 |-> "Up"]
DefaultMapping == [modifier |-> "L", nub |-> FALSE, assign |-> DefaultAssign]

(* apply_button_mapper_v2: with the modifier held, the mapped buttons act  *)
(* as the virtual controls and neither they nor the modifier are reported. *)
Report(m, pad) ==
    LET held == m.modifier # None /\ m.modifier \in pad
        nub == held /\ m.nub /\ "Stick" \in pad
        active == IF held THEN {v \in Virtual : m.assign[v] \in pad /\ ~(m.nub /\ v \in RightStick)} ELSE {}
        taken == {m.assign[v] : v \in active} \cup (IF nub THEN {"Stick"} ELSE {})
                    \cup (IF active # {} \/ nub THEN {m.modifier} ELSE {})
    IN  {Xbox[b] : b \in pad \ taken} \cup active \cup (IF nub THEN {"RSTICK"} ELSE {})
=============================================================================
