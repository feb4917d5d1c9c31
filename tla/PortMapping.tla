----------------------------- MODULE PortMapping -----------------------------
(***************************************************************************)
(* upnp_client: the UDP ports a stream from outside the local network asks *)
(* the gateway to forward, and the clean-up when the stream ends.  Every   *)
(* request to the gateway may be refused, and its answer may be lost.      *)
(* Discovery and the texts of requests and answers are left out.           *)
(***************************************************************************)
EXTENDS Integers, Sequences, FiniteSets

CONSTANTS
    Ports,          \* the requested ports, in the order they are requested
    MaxMapped       \* UPNP_MAX_MAPPED_PORTS

ASSUME PortAssumption == Ports \in Seq(Nat) /\ MaxMapped \in Nat /\ Len(Ports) \in 1 .. MaxMapped

VARIABLES
    uStep,          \* idle, remove, find, add: what the client is about to do
    uPreparing,     \* within upnp_prepare_stream_mappings
    uRetried,       \* the endpoint was looked for a second time
    uTodo,          \* ports still to be requested
    s_have_control_endpoint, s_mapped_ports,
    uGateway,       \* per port: free, ours or other (mapped for another device)
    uLost           \* history: ports with a refused or unanswered request since they were last free

portVars == <<uStep, uPreparing, uRetried, uTodo, s_have_control_endpoint, s_mapped_ports, uGateway, uLost>>
PortSet == {Ports[i] : i \in DOMAIN Ports}

PortInit ==
    /\ uStep = "idle" /\ uPreparing = FALSE /\ uRetried = FALSE /\ uTodo = <<>>
    /\ s_have_control_endpoint = FALSE /\ s_mapped_ports = <<>>
    /\ uGateway \in [PortSet -> {"free", "other"}] /\ uLost = {}

Idle ==
    /\ uStep' = "idle" /\ uPreparing' = FALSE /\ uRetried' = FALSE /\ uTodo' = <<>>

(***************************************************************************)
(* upnp_remove_stream_mappings, for itself when a stream ends, and at the  *)
(* start of upnp_prepare_stream_mappings.                                  *)
(***************************************************************************)
StartRemoval(preparing) ==
    /\ uStep = "idle" /\ (preparing \/ s_mapped_ports # <<>>)
    /\ uStep' = "remove" /\ uPreparing' = preparing
    /\ UNCHANGED <<uRetried, uTodo, s_have_control_endpoint, s_mapped_ports, uGateway, uLost>>

(* The last recorded port is deleted, whatever becomes of the request.     *)
DeleteUdpMapping(done) ==
    LET port == s_mapped_ports[Len(s_mapped_ports)] IN
    /\ uStep = "remove" /\ s_mapped_ports # <<>> /\ s_have_control_endpoint
    /\ s_mapped_ports' = SubSeq(s_mapped_ports, 1, Len(s_mapped_ports) - 1)
    /\ uGateway' = IF done THEN [uGateway EXCEPT ![port] = "free"] ELSE uGateway
    /\ uLost' = IF done THEN uLost \ {port} ELSE uLost \cup {port}
    /\ UNCHANGED <<uStep, uPreparing, uRetried, uTodo, s_have_control_endpoint>>

(* Without an endpoint the entries are forgotten.                          *)
RemovalEnds ==
    /\ uStep = "remove" /\ (s_mapped_ports = <<>> \/ ~s_have_control_endpoint)
    /\ s_mapped_ports' = <<>>
    /\ IF uPreparing THEN uStep' = "find" /\ UNCHANGED <<uPreparing, uRetried, uTodo>> ELSE Idle
    /\ UNCHANGED <<s_have_control_endpoint, uGateway, uLost>>

(***************************************************************************)
(* upnp_prepare_stream_mappings                                            *)
(***************************************************************************)
(* A target in the local network, no address, or no gateway                *)
NothingToMap ==
    /\ uStep = "find" /\ (~s_have_control_endpoint \/ ~uRetried)
    /\ Idle
    /\ UNCHANGED <<s_have_control_endpoint, s_mapped_ports, uGateway, uLost>>

(* discover_control_endpoint: the cached one, or one that answers          *)
EndpointFound ==
    /\ uStep = "find"
    /\ s_have_control_endpoint' = TRUE
    /\ uStep' = "add" /\ uTodo' = Ports
    /\ UNCHANGED <<uPreparing, uRetried, s_mapped_ports, uGateway, uLost>>

Record(port) == IF Len(s_mapped_ports) < MaxMapped THEN Append(s_mapped_ports, port) ELSE s_mapped_ports

(* The mapping is made and acknowledged, or the gateway says that there is *)
(* one (718), which need not be ours.                                      *)
AddUdpMapping ==
    /\ uStep = "add" /\ uTodo # <<>>
    /\ s_mapped_ports' = Record(Head(uTodo)) /\ uTodo' = Tail(uTodo)
    /\ uGateway' = IF uGateway[Head(uTodo)] = "other" THEN uGateway
                   ELSE [uGateway EXCEPT ![Head(uTodo)] = "ours"]
    /\ UNCHANGED <<uStep, uPreparing, uRetried, s_have_control_endpoint, uLost>>

(* The request fails or its answer is lost.  What the response buffer then *)
(* holds was never written, and is searched for 718 all the same.          *)
AddUdpMappingFails(done, recorded) ==
    /\ uStep = "add" /\ uTodo # <<>>
    /\ s_mapped_ports' = IF recorded THEN Record(Head(uTodo)) ELSE s_mapped_ports
    /\ uTodo' = Tail(uTodo)
    /\ uGateway' = IF done /\ uGateway[Head(uTodo)] = "free"
                   THEN [uGateway EXCEPT ![Head(uTodo)] = "ours"] ELSE uGateway
    /\ uLost' = uLost \cup {Head(uTodo)}
    /\ UNCHANGED <<uStep, uPreparing, uRetried, s_have_control_endpoint>>

(* Some mapping was made, or none at the second endpoint either.           *)
MappingEnds ==
    /\ uStep = "add" /\ uTodo = <<>> /\ (s_mapped_ports # <<>> \/ uRetried)
    /\ Idle
    /\ UNCHANGED <<s_have_control_endpoint, s_mapped_ports, uGateway, uLost>>

RediscoverOnAnyFailure ==
    /\ uStep = "add" /\ uTodo = <<>> /\ Len(s_mapped_ports) < Len(Ports) /\ ~uRetried
    /\ s_have_control_endpoint' = FALSE
    /\ uStep' = "find" /\ uRetried' = TRUE
    /\ UNCHANGED <<uPreparing, uTodo, s_mapped_ports, uGateway, uLost>>

(* None at all: the endpoint is forgotten and looked for once more.        *)
Rediscover ==
    /\ uStep = "add" /\ uTodo = <<>> /\ s_mapped_ports = <<>> /\ ~uRetried
    /\ s_have_control_endpoint' = FALSE
    /\ uStep' = "find" /\ uRetried' = TRUE
    /\ UNCHANGED <<uPreparing, uTodo, s_mapped_ports, uGateway, uLost>>

(* The gateway restarts; mappings are not permanent for every gateway.     *)
GatewayRestarts ==
    /\ \E p \in PortSet : uGateway[p] = "ours"
    /\ uGateway' = [p \in PortSet |-> IF uGateway[p] = "ours" THEN "free" ELSE uGateway[p]]
    /\ UNCHANGED <<uStep, uPreparing, uRetried, uTodo, s_have_control_endpoint, s_mapped_ports, uLost>>

PortNext ==
    \/ \E preparing \in BOOLEAN : StartRemoval(preparing)
    \/ \E done \in BOOLEAN : DeleteUdpMapping(done)
    \/ \E done, recorded \in BOOLEAN : AddUdpMappingFails(done, recorded)
    \/ RemovalEnds \/ NothingToMap \/ EndpointFound \/ AddUdpMapping \/ MappingEnds \/ Rediscover \/ GatewayRestarts

(***************************************************************************)
(* Properties                                                              *)
(***************************************************************************)
(* No mapping stays behind: whenever the client has nothing recorded and   *)
(* is idle, the gateway forwards no port to it, except a port whose        *)
(* request was refused or never answered; in particular the branch that    *)
(* forgets entries for want of an endpoint never forgets a mapping         *)
(* (upnp_remove_stream_mappings, clear_control_endpoint_cache).            *)
MappingsRemoved ==
    /\ uStep = "idle" /\ s_mapped_ports = <<>> => \A p \in PortSet \ uLost : uGateway[p] # "ours"
    /\ s_mapped_ports # <<>> => s_have_control_endpoint
=============================================================================
