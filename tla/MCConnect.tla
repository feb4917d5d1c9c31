----------------------------- MODULE MCConnect ------------------------------
(***************************************************************************)
(* The way into a stream and its first station: the connection with its    *)
(* pairing, launch and RTSP, and the ring the packets of the running       *)
(* stream wait in (four slots, the smallest ring in which the two marks of *)
(* the admission control, a trim and a full ring are all different).  They *)
(* share no variable, so one run checks each of them from its initial      *)
(* state; part says which.                                                 *)
(***************************************************************************)
EXTENDS Connect, PacketRing

VARIABLE part

WayInit ==
    /\ part \in {"connect", "ring"}
    /\ Init /\ RingInit
    /\ part = "ring" => last_paired = NoHost /\ saved = {}

WayNext ==
    /\ UNCHANGED part
    /\ \/ part = "connect" /\ Next /\ UNCHANGED ringVars
       \/ part = "ring" /\ RingNext /\ UNCHANGED vars

(* As in Spec of Connect and in RingSpec; in the states of one part no     *)
(* action of the other is taken and none is asked for.                     *)
WaySpec ==
    /\ WayInit /\ [][WayNext]_<<part, vars, ringVars>>
    /\ WF_vars(part = "connect" /\ MainStep) /\ WF_vars(part = "connect" /\ Pair)
    /\ WF_vars(part = "connect" /\ Worker)
    /\ WF_ringVars(part = "ring" /\ Decoder)
    /\ WF_ringVars(part = "ring" /\ (JoinReceiver \/ StopDecoder \/ JoinDecoder))
    /\ WF_ringVars(part = "ring" /\ Publish)
    /\ WF_ringVars(part = "ring" /\ Drop) /\ WF_ringVars(part = "ring" /\ Refuse)
=============================================================================
