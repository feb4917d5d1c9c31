------------------------------ MODULE MCNetwork ------------------------------
(***************************************************************************)
(* Two parts of a running stream that recover by themselves: the software  *)
(* decoder with its Media Engine and its watchdog, and the two threads     *)
(* that watch over the Wi-Fi connection.  They share no variable, so one   *)
(* run checks each of them from its initial state; part says which.        *)
(***************************************************************************)
EXTENDS SoftwareDecoder, WifiSession

VARIABLE part

NetworkInit ==
    /\ part \in {"software", "wifi"}
    /\ DecoderInit /\ WifiInit
    /\ part # "wifi" => range /\ powersave = "off"

NetworkNext ==
    /\ UNCHANGED part
    /\ \/ part = "software" /\ DecoderNext /\ UNCHANGED wifiVars
       \/ part = "wifi" /\ WifiNext /\ UNCHANGED decoderVars

(* An action of one part is enabled in states of the others too, where it  *)
(* is never taken: fairness asks for it only in its own part.              *)
SoftwareFairness ==
    /\ WF_event(part = "software" /\ FrameArrives) /\ SF_event(part = "software" /\ HostAnswers)
    /\ WF_decoderVars(part = "software" /\ MeFinishes) /\ WF_decoderVars(part = "software" /\ Ungate)
    /\ WF_decoderVars(part = "software" /\ \E ok \in BOOLEAN : Watchdog(ok))

WifiFairness ==
    /\ WF_wifiVars(part = "wifi" /\ PingThread) /\ WF_wifiVars(part = "wifi" /\ KeepaliveThread)
    /\ WF_wifiVars(part = "wifi" /\ Teardown) /\ WF_wifiVars(part = "wifi" /\ g_stream_status /\ EndStream)
    /\ WF_wifiVars(part = "wifi" /\ ApLeaves)
    /\ WF_wifiVars(part = "wifi" /\ CooldownOver) /\ WF_wifiVars(part = "wifi" /\ TenSeconds)
    /\ SF_wifiVars(part = "wifi" /\ range /\ ApJoins) /\ SF_wifiVars(part = "wifi" /\ IsOff("keepalive"))
    /\ SF_wifiVars(part = "wifi" /\ Begin("keepalive")) /\ SF_wifiVars(part = "wifi" /\ ReinitConnect("keepalive"))

NetworkSpec ==
    /\ NetworkInit /\ [][NetworkNext]_<<part, decoderVars, wifiVars>>
    /\ SoftwareFairness /\ WifiFairness
=============================================================================
