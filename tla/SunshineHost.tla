--------------------------- MODULE SunshineHost ---------------------------
(***************************************************************************)
(* The streaming hosts as the client meets them over HTTPS, and the        *)
(* client's side of that channel: https_launch_get with its first-use      *)
(* certificate pins.  What a host does with a request is external; it is   *)
(* modelled from how network_connect.c reads the replies.                  *)
(***************************************************************************)
EXTENDS Integers, FiniteSets

CONSTANTS
    Hosts,          \* hosts the user may select
    MaxKey,         \* the remote-input keys are 1..MaxKey; an unused one is drawn again
    MaxFaults       \* bound on failed exchanges and on steps of the hosts' own

ASSUME HostAssumption ==
    /\ IsFiniteSet(Hosts) /\ Hosts # {}
    /\ MaxKey \in Nat \ {0} /\ MaxFaults \in Nat

NoHost == "nohost"
NoSession == 0
Foreign == -1       \* a session another client started

(* A pin file holds the certificate of a host, is absent, or can no longer *)
(* match: its write was torn, or the host has renewed its certificate.     *)
NoPin == "nopin"
StalePin == "stale"
Pins == {NoPin, StalePin} \cup Hosts
Sessions == {NoSession, Foreign} \cup 1..MaxKey
HostRecords == [paired : BOOLEAN, session : Sessions]

(* The body left in the response buffer; StatusCode is what                *)
(* xml_get_status_code_attr finds in it.                                   *)
Bodies == {"none", "idle", "busy", "denied", "refused", "session"}
StatusCode(body) == CASE body \in {"idle", "busy", "session"} -> 200
                      [] body = "denied" -> 401
                      [] body = "refused" -> 400
                      [] OTHER -> -1

VARIABLES
    host,           \* host[h]: has it registered our certificate, its session
    pins,           \* pins[h]: the pin file of host h
    faults          \* failed exchanges and host steps so far

hostVars == <<host, pins, faults>>

HostTypeOK ==
    /\ host \in [Hosts -> HostRecords]
    /\ pins \in [Hosts -> Pins]
    /\ faults \in 0..MaxFaults

(* What a host answers to a request of this client, and its state after.   *)
Serve(hr, req, key) ==
    CASE ~hr.paired -> {[hr |-> hr, body |-> "denied"]}
      [] hr.paired /\ req = "serverinfo" ->
            {[hr |-> hr, body |-> b] :
                b \in IF hr.session = NoSession THEN {"idle"} ELSE {"busy", "idle"}}
      [] hr.paired /\ req = "launch" ->
            {IF hr.session = NoSession
             THEN [hr |-> [hr EXCEPT !.session = key], body |-> "session"]
             ELSE [hr |-> hr, body |-> "refused"]}
      [] hr.paired /\ req = "resume" ->
            {IF hr.session # NoSession
             THEN [hr |-> [hr EXCEPT !.session = key], body |-> "session"]
             ELSE [hr |-> hr, body |-> "refused"]}
      [] hr.paired /\ req = "cancel" ->
            {[hr |-> [hr EXCEPT !.session = NoSession], body |-> "none"]}
      [] OTHER -> {[hr |-> hr, body |-> "none"]}

(* tls_verify_or_store_pin: the outcomes for a peer certificate and the    *)
(* pin file of the name the request was made under.  A failed save may     *)
(* leave a torn file.                                                      *)
tls_verify_or_store_pin(pin, cert) ==
    IF pin = NoPin
    THEN {[ok |-> TRUE, pin |-> cert, fault |-> 0]} \cup
         {[ok |-> FALSE, pin |-> p, fault |-> 1] : p \in {NoPin, StalePin}}
    ELSE {[ok |-> pin = cert, pin |-> pin, fault |-> 0]}

(* https_launch_get to address h under the name n: ret is its return       *)
(* value, body what it leaves in the response buffer ("keep" when it       *)
(* writes nothing).  A refused pin jumps to the cleanup with ret still 0   *)
(* from the handshake.  A /cancel returns once it is written.              *)
HttpsOutcomes(h, n, req, key) ==
    LET hr   == host[h]
        gave(ret, x, pin, body, f) ==
            [ret |-> ret, hr |-> x, pin |-> pin, body |-> body, fault |-> f]
    IN  {gave(-1, hr, pins[n], "keep", 1)} \cup
        UNION {IF ~v.ok THEN {gave(0, hr, v.pin, "keep", v.fault)}
               ELSE {gave(-1, hr, v.pin, "keep", 1)} \cup
                    UNION {IF req = "cancel" THEN {gave(0, s.hr, v.pin, "keep", 0)}
                           ELSE {gave(0, s.hr, v.pin, s.body, 0),
                                 gave(-1, s.hr, v.pin, "keep", 1)} :
                           s \in Serve(hr, req, key)} :
               v \in tls_verify_or_store_pin(pins[n], h)}

https_launch_get(h, n, req, key, o) ==
    /\ o \in HttpsOutcomes(h, n, req, key)
    /\ faults + o.fault <= MaxFaults
    /\ host' = [host EXCEPT ![h] = o.hr]
    /\ pins' = [pins EXCEPT ![n] = o.pin]
    /\ faults' = faults + o.fault

(* Steps of the hosts' own: a session ends, another client starts one, the *)
(* registration of the client is removed, the certificate is renewed.      *)
HostStep(h) ==
    /\ faults < MaxFaults
    /\ faults' = faults + 1
    /\ \/ /\ host[h].session # NoSession
          /\ host' = [host EXCEPT ![h].session = NoSession]
          /\ UNCHANGED pins
       \/ /\ host[h].session = NoSession
          /\ host' = [host EXCEPT ![h].session = Foreign]
          /\ UNCHANGED pins
       \/ /\ host[h].paired
          /\ host' = [host EXCEPT ![h].paired = FALSE]
          /\ UNCHANGED pins
       \/ /\ pins[h] = h
          /\ pins' = [pins EXCEPT ![h] = StalePin]
          /\ UNCHANGED host
=============================================================================
