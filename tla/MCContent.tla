------------------------------ MODULE MCContent ------------------------------
(***************************************************************************)
(* What becomes of the bytes of a stream: audio packets on their way       *)
(* through losses, parity and concealment, the Reed-Solomon arithmetic     *)
(* under both kinds of parity, the parameter sets that are read and        *)
(* rewritten on their way to the decoders, the firmware session that       *)
(* decodes, where every call may fail, the safety buffer that keeps and    *)
(* spills access units, and the answers read over HTTPS.  They share no    *)
(* variable, so one run checks each of them from its initial state; part   *)
(* says which.                                                             *)
(***************************************************************************)
EXTENDS AudioReceive, ReedSolomon, AvcParameterSets, SafetyBuffer, HttpsFetch, AvcSession

VARIABLE part

MCShapes == {<<3, 2>>, <<2, 1>>}

(* Sequence parameter sets that differ from a usual one in one or two      *)
(* fields, each with the values the code tells apart.                      *)
Vui(p, t, h, r, o, d) == [present |-> p, timing |-> t, hrd |-> h, restricted |-> r, reorder |-> o, dpb |-> d]
Alternatives == [
    profile |-> <<66, 77, 100, 88>>, constraints |-> <<192, 0, 3>>, level |-> <<30, 13>>, id |-> <<0, 1>>,
    chroma |-> <<1, 2>>, depth |-> <<0, 2>>, bypass |-> <<0, 1>>, scaling |-> <<0, 1>>,
    poc |-> <<2, 0, 1>>, cycle |-> <<0, 2>>, refs |-> <<1, 0, 2, 4, 5>>,
    width |-> <<30, 23>>, height |-> <<17, 18>>, interlaced |-> <<FALSE, TRUE>>,
    crop |-> <<<<0, 0, 0, 1>>, <<0, 0, 0, 0>>, <<0, 0, 1, 0>>>>,
    vui |-> <<Vui(TRUE, TRUE, FALSE, TRUE, 0, 1), Vui(TRUE, TRUE, TRUE, TRUE, 2, 4),
              Vui(FALSE, FALSE, FALSE, FALSE, 0, 0),
              Vui(TRUE, FALSE, FALSE, TRUE, 0, 5)>>]
Fields == DOMAIN Alternatives
SpsBase == [f \in Fields |-> Alternatives[f][1]]
Varied ==
    {SpsBase} \cup UNION {{[SpsBase EXCEPT ![f] = Alternatives[f][i], ![g] = Alternatives[g][j]] :
        i \in DOMAIN Alternatives[f], j \in DOMAIN Alternatives[g]} : <<f, g>> \in Fields \X Fields}

(* Picture parameter sets: one deviation at a time.                        *)
PpsBase == [id |-> 0, sps_id |-> 0, entropy |-> 0, groups |-> 0, extended |-> FALSE]
PpsSet ==
    {PpsBase, [PpsBase EXCEPT !.entropy = 1], [PpsBase EXCEPT !.groups = 1],
     [PpsBase EXCEPT !.extended = TRUE], [PpsBase EXCEPT !.sps_id = 1, !.id = 3]}
MCStreams ==
    [sps : Varied, pps : {PpsBase}]
        \cup [sps : {SpsBase, [SpsBase EXCEPT !.id = 1, !.profile = 100]}, pps : PpsSet]
MCExpected == <<480, 270>>

(* A unit of one cell, a key frame of two, and one that is too large for a *)
(* slot of the write queue.                                                *)
MCUnits ==
    {[key |-> FALSE, cells |-> 1, queued |-> TRUE],
     [key |-> TRUE, cells |-> 2, queued |-> TRUE],
     [key |-> TRUE, cells |-> 2, queued |-> FALSE]}

ContentInit ==
    /\ part \in {"audio", "matrix", "sets", "session", "safety", "fetch"}
    /\ ReceiveInit /\ RsInit /\ ParameterSetsInit /\ SafetyInit /\ FetchInit /\ Init
    /\ part # "audio" => short
    /\ part # "fetch" => fetch.kind = "art" /\ fetch.header = 0 /\ fetch.body = 0
    /\ part # "sets" => hardware /\ backend = ClosedBackend(TRUE)

ContentNext ==
    /\ UNCHANGED part
    /\ \/ part = "audio" /\ ReceiveNext /\ UNCHANGED <<rsVars, psVars, safetyVars, fetch, vars>>
       \/ part = "matrix" /\ RsNext /\ UNCHANGED <<receiveVars, psVars, safetyVars, fetch, vars>>
       \/ part = "sets" /\ ParameterSetsNext /\ UNCHANGED <<receiveVars, rsVars, safetyVars, fetch, vars>>
       \/ part = "session" /\ Next /\ UNCHANGED <<receiveVars, rsVars, psVars, safetyVars, fetch>>
       \/ part = "safety" /\ SafetyNext /\ UNCHANGED <<receiveVars, rsVars, psVars, fetch, vars>>
       \/ part = "fetch" /\ FetchNext /\ UNCHANGED <<receiveVars, rsVars, psVars, safetyVars, vars>>

ContentSpec == ContentInit /\ [][ContentNext]_<<part, receiveVars, rsVars, psVars, safetyVars, fetch, vars>>
=============================================================================
