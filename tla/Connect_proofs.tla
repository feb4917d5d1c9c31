--------------------------- MODULE Connect_proofs ---------------------------
(***************************************************************************)
(* The connection keeps its promises for any number of hosts and keys.     *)
(* The inductive invariant IInv has one part per phase of an attempt: who  *)
(* the target is, what the pairing worker may have done, what is held, what*)
(* the response buffer can contain, and that no /cancel worker exists once *)
(* the request of a new attempt is made.                                   *)
(***************************************************************************)
EXTENDS Connect, FiniteSetTheorems, TLAPS

(***************************************************************************)
(* The parts of the inductive invariant.                                   *)
(***************************************************************************)

\* Outside the host list there is a target, and the worker of a /cancel has one too.
Targeted ==
    /\ pc # "menu" \/ worker # "none" => target \in Hosts
    /\ worker = "handshake" => worker_addr \in Hosts

\* The pairing worker only exists around the PIN screen; what it sets it sets for a host that
\* registered the certificate.
PairingPhases ==
    /\ pc \notin {"pin", "stopped", "joined"} => thread = "none"
    /\ pc = "pair" => ~is_paired
    /\ thread \in {"mark", "persist", "s5"} \/ pc = "joined" \/ (pc = "pin" /\ is_paired) => target \in ever

\* What is held grows along the handshake and is given back before the next attempt.
BeforeRtsp == {"menu", "wait", "verify", "pair", "pin", "stopped", "joined", "grid",
               "info", "infohttp", "prompt", "resume", "quit", "launch", "teardown"}
Held ==
    /\ pc \in BeforeRtsp => res = {}
    /\ pc \in {"rtsp0", "rtspdead", "rtspcancel", "failed", "fatal"} => res \subseteq {"audioSock"}
    /\ pc = "rtsp" /\ cmd \in {"options", "describe", "audio"} => res \subseteq {"audioSock"}
    /\ pc \in {"rtsp", "rtspfail"} =>
          /\ res \cap {"decoder", "receiver", "controlStream"} = {}
          /\ "audioPing" \in res \/ "audioThreads" \in res => audio_ok
          /\ "videoSock" \in res => video_port
    /\ pc \in {"menu", "teardown"} => ~session_id

\* No answer of an earlier launch is left in the buffer when the next is awaited.
NothingStale == pc \in {"prompt", "resume", "quit", "launch"} => resp # "session"

\* A connection is only made while no /cancel is on its way.
NoCancelMeanwhile ==
    /\ pc \notin {"menu", "wait", "failed", "fatal", "teardown"} => worker \in {"none", "gone"}
    /\ since = {}

Safe == Targeted /\ PairingPhases /\ PairingEarned /\ Held /\ NothingStale /\ SessionKeyAgreed /\ NoCancelMeanwhile
IInv == TypeOK /\ Safe

-----------------------------------------------------------------------------
(***************************************************************************)
(* Requests.                                                               *)
(***************************************************************************)
\* There is always a key no host has a session under.
LEMMA FreshKeyType ==
  ASSUME HostTypeOK
  PROVE  FreshKey \in 1 .. MaxKey
<1>1. \E k \in 1 .. MaxKey : k \notin {host[h].session : h \in Hosts}
  <2> SUFFICES ASSUME \A k \in 1 .. MaxKey : \E h \in Hosts : host[h].session = k
               PROVE  FALSE
    OBVIOUS
  <2> DEFINE f == [k \in 1 .. MaxKey |-> CHOOSE h \in Hosts : host[h].session = k]
  <2>1. \A k \in 1 .. MaxKey : f[k] \in Hosts /\ host[f[k]].session = k
    OBVIOUS
  <2>2. f \in [1 .. MaxKey -> Hosts]
    BY <2>1
  <2>3. IsFiniteSet(1 .. MaxKey) /\ Cardinality(1 .. MaxKey) = MaxKey
    BY HostAssumption, FS_Interval
  <2>4. IsFiniteSet(Hosts) /\ Cardinality(Hosts) < MaxKey
    <3>1. Cardinality(Hosts) \in Nat
      BY HostAssumption, FS_CardinalityType
    <3> QED BY <3>1, HostAssumption, CancelAssumption
  <2> HIDE DEF f
  <2>5. PICK x, y \in 1 .. MaxKey : x # y /\ f[x] = f[y]
    <3>1. \A g \in [1 .. MaxKey -> Hosts] : \E x, y \in 1 .. MaxKey : x # y /\ g[x] = g[y]
      <4>1. Cardinality(Hosts) < Cardinality(1 .. MaxKey)
        BY <2>3, <2>4
      <4> DEFINE S == 1 .. MaxKey
      <4>2. IsFiniteSet(S) /\ IsFiniteSet(Hosts) /\ Cardinality(Hosts) < Cardinality(S)
        BY <2>3, <2>4, <4>1
      <4> HIDE DEF S
      <4>3. \A g \in [S -> Hosts] : \E x, y \in S : x # y /\ g[x] = g[y]
        <5> SUFFICES ASSUME NEW g \in [S -> Hosts] PROVE \E x, y \in S : x # y /\ g[x] = g[y]
          OBVIOUS
        <5> QED BY <4>2, FS_PigeonHole
      <4> QED BY <4>3 DEF S
    <3> QED BY <2>2, <3>1
  <2> QED BY <2>1, <2>5
<1> QED BY <1>1 DEF FreshKey

\* The requests the client makes.
Requests == {"serverinfo", "launch", "resume", "cancel", "pairchallenge"}

\* What a host makes of a request.
LEMMA ServeIs ==
  ASSUME NEW hr \in HostRecords, NEW req \in Requests, NEW key \in Sessions, NEW s \in Serve(hr, req, key)
  PROVE  /\ s.hr \in HostRecords /\ s.body \in Bodies
         /\ s.hr.session \in {hr.session, key, NoSession} /\ s.hr.paired = hr.paired
         /\ req = "cancel" => s.hr.session \in {hr.session, NoSession}
         /\ req \in {"serverinfo", "pairchallenge"} => s.hr = hr
         /\ s.body = "session" => req \in {"launch", "resume"} /\ s.hr.session = key
<1>0. hr.paired \in BOOLEAN /\ NoSession \in Sessions /\ hr.session \in Sessions
  BY DEF HostRecords, Sessions
<1>1. CASE ~hr.paired
  <2>1. s = [hr |-> hr, body |-> "denied"]
    BY <1>1 DEF Serve
  <2> QED BY <2>1 DEF Bodies
<1>2. CASE hr.paired /\ req = "serverinfo"
  <2>1. PICK b \in {"idle", "busy"} : s = [hr |-> hr, body |-> b]
    BY <1>2 DEF Serve
  <2> QED BY <1>2, <2>1 DEF Bodies
<1>3. CASE hr.paired /\ req = "launch"
  <2>1. s = IF hr.session = NoSession THEN [hr |-> [hr EXCEPT !.session = key], body |-> "session"]
            ELSE [hr |-> hr, body |-> "refused"]
    BY <1>3 DEF Serve
  <2>2. CASE hr.session = NoSession
    BY <1>0, <1>3, <2>1, <2>2 DEF Bodies, HostRecords
  <2>3. CASE hr.session # NoSession
    BY <1>0, <1>3, <2>1, <2>3 DEF Bodies, HostRecords
  <2> QED BY <2>2, <2>3
<1>4. CASE hr.paired /\ req = "resume"
  <2>1. s = IF hr.session # NoSession THEN [hr |-> [hr EXCEPT !.session = key], body |-> "session"]
            ELSE [hr |-> hr, body |-> "refused"]
    BY <1>4 DEF Serve
  <2>2. CASE hr.session = NoSession
    BY <1>0, <1>4, <2>1, <2>2 DEF Bodies, HostRecords
  <2>3. CASE hr.session # NoSession
    BY <1>0, <1>4, <2>1, <2>3 DEF Bodies, HostRecords
  <2> QED BY <2>2, <2>3
<1>5. CASE hr.paired /\ req = "cancel"
  <2>1. s = [hr |-> [hr EXCEPT !.session = NoSession], body |-> "none"]
    BY <1>5 DEF Serve
  <2> QED BY <1>0, <1>5, <2>1 DEF Bodies, HostRecords
<1>6. CASE hr.paired /\ req = "pairchallenge"
  <2>1. s = [hr |-> hr, body |-> "none"]
    BY <1>6 DEF Serve
  <2> QED BY <1>6, <2>1 DEF Bodies
<1> QED BY <1>0, <1>1, <1>2, <1>3, <1>4, <1>5, <1>6 DEF Requests

\* The outcomes of the first-use certificate check.
LEMMA PinIs ==
  ASSUME NEW pin \in Pins, NEW cert \in Hosts, NEW v \in tls_verify_or_store_pin(pin, cert)
  PROVE  v.pin \in Pins /\ v.fault \in {0, 1} /\ v.ok \in BOOLEAN
<1>1. CASE pin = NoPin
  <2>1. \/ v = [ok |-> TRUE, pin |-> cert, fault |-> 0]
        \/ \E p \in {NoPin, StalePin} : v = [ok |-> FALSE, pin |-> p, fault |-> 1]
    BY <1>1 DEF tls_verify_or_store_pin
  <2>2. CASE v = [ok |-> TRUE, pin |-> cert, fault |-> 0]
    BY <2>2 DEF Pins
  <2>3. CASE \E p \in {NoPin, StalePin} : v = [ok |-> FALSE, pin |-> p, fault |-> 1]
    BY <2>3 DEF Pins
  <2> QED BY <2>1, <2>2, <2>3
<1>2. CASE pin # NoPin
  <2>1. v = [ok |-> pin = cert, pin |-> pin, fault |-> 0]
    BY <1>2 DEF tls_verify_or_store_pin
  <2> QED BY <2>1
<1> QED BY <1>1, <1>2

\* What a request may come to: the host is unchanged, or served it; an answer that is not lost
\* is in the buffer.
LEMMA OutcomeIs ==
  ASSUME HostTypeOK, NEW h \in Hosts, NEW n \in Hosts, NEW req \in Requests, NEW key \in Sessions,
         NEW o \in HttpsOutcomes(h, n, req, key)
  PROVE  /\ o.ret \in {-1, 0} /\ o.pin \in Pins /\ o.fault \in {0, 1}
         /\ o.hr \in HostRecords /\ o.body \in Bodies \cup {"keep"}
         /\ o.hr.session \in {host[h].session, key, NoSession} /\ o.hr.paired = host[h].paired
         /\ req = "cancel" => o.hr.session \in {host[h].session, NoSession}
         /\ req \in {"serverinfo", "pairchallenge"} => o.hr = host[h]
         /\ o.ret = -1 => o.body = "keep"
         /\ o.body = "session" => req \in {"launch", "resume"} /\ o.hr.session = key
<1> DEFINE hr == host[h]
           gave(ret, x, pin, body, f) == [ret |-> ret, hr |-> x, pin |-> pin, body |-> body, fault |-> f]
<1>0. hr \in HostRecords /\ pins[n] \in Pins
  BY DEF HostTypeOK
<1>1. \/ o = gave(-1, hr, pins[n], "keep", 1)
      \/ \E v \in tls_verify_or_store_pin(pins[n], h) :
           \/ ~v.ok /\ o = gave(0, hr, v.pin, "keep", v.fault)
           \/ o = gave(-1, hr, v.pin, "keep", 1)
           \/ \E s \in Serve(hr, req, key) :
                \/ req = "cancel" /\ o = gave(0, s.hr, v.pin, "keep", 0)
                \/ req # "cancel" /\ o = gave(0, s.hr, v.pin, s.body, 0)
                \/ req # "cancel" /\ o = gave(-1, s.hr, v.pin, "keep", 1)
  BY DEF HttpsOutcomes
<1> HIDE DEF hr
<1>2. CASE o = gave(-1, hr, pins[n], "keep", 1)
  BY <1>0, <1>2 DEF hr
<1>3. ASSUME NEW v \in tls_verify_or_store_pin(pins[n], h),
             (~v.ok /\ o = gave(0, hr, v.pin, "keep", v.fault)) \/ o = gave(-1, hr, v.pin, "keep", 1)
      PROVE  /\ o = gave(o.ret, hr, o.pin, "keep", o.fault)
             /\ o.ret \in {-1, 0} /\ o.pin \in Pins /\ o.fault \in {0, 1}
  BY <1>0, <1>3, PinIs
<1>4. ASSUME NEW v \in tls_verify_or_store_pin(pins[n], h), NEW s \in Serve(hr, req, key),
             \/ req = "cancel" /\ o = gave(0, s.hr, v.pin, "keep", 0)
             \/ req # "cancel" /\ o = gave(0, s.hr, v.pin, s.body, 0)
             \/ req # "cancel" /\ o = gave(-1, s.hr, v.pin, "keep", 1)
      PROVE  /\ o.hr = s.hr /\ o.ret \in {-1, 0} /\ o.pin \in Pins /\ o.fault \in {0, 1}
             /\ o.body = "keep" \/ (o.body = s.body /\ o.ret = 0)
  BY <1>0, <1>4, PinIs
<1>5. CASE \E v \in tls_verify_or_store_pin(pins[n], h) :
             (~v.ok /\ o = gave(0, hr, v.pin, "keep", v.fault)) \/ o = gave(-1, hr, v.pin, "keep", 1)
  <2>1. o = gave(o.ret, hr, o.pin, "keep", o.fault) /\ o.ret \in {-1, 0} /\ o.pin \in Pins /\ o.fault \in {0, 1}
    BY <1>3, <1>5
  <2> QED BY <1>0, <2>1 DEF hr
<1>6. CASE \E v \in tls_verify_or_store_pin(pins[n], h), s \in Serve(hr, req, key) :
             \/ req = "cancel" /\ o = gave(0, s.hr, v.pin, "keep", 0)
             \/ req # "cancel" /\ o = gave(0, s.hr, v.pin, s.body, 0)
             \/ req # "cancel" /\ o = gave(-1, s.hr, v.pin, "keep", 1)
  <2>1. PICK s \in Serve(hr, req, key) :
             /\ o.hr = s.hr /\ o.ret \in {-1, 0} /\ o.pin \in Pins /\ o.fault \in {0, 1}
             /\ o.body = "keep" \/ (o.body = s.body /\ o.ret = 0)
    BY <1>4, <1>6
  <2>2. /\ s.hr \in HostRecords /\ s.body \in Bodies
        /\ s.hr.session \in {hr.session, key, NoSession} /\ s.hr.paired = hr.paired
        /\ req = "cancel" => s.hr.session \in {hr.session, NoSession}
        /\ req \in {"serverinfo", "pairchallenge"} => s.hr = hr
        /\ s.body = "session" => req \in {"launch", "resume"} /\ s.hr.session = key
    BY <1>0, ServeIs
  <2>3. "keep" # "session" /\ 0 # -1
    OBVIOUS
  <2> QED BY <2>1, <2>2, <2>3 DEF hr
<1> QED BY <1>1, <1>2, <1>5, <1>6

\* A request keeps the types of the hosts and changes only the host it is sent to.
LEMMA Requested ==
  ASSUME HostTypeOK, NEW h \in Hosts, NEW n \in Hosts, NEW req \in Requests, NEW key \in Sessions,
         NEW o, https_launch_get(h, n, req, key, o)
  PROVE  /\ HostTypeOK'
         /\ host'[h] = o.hr /\ \A g \in Hosts \ {h} : host'[g] = host[g]
         /\ o.ret \in {-1, 0} /\ o.body \in Bodies \cup {"keep"}
         /\ o.hr.session \in {host[h].session, key, NoSession} /\ o.hr.paired = host[h].paired
         /\ req = "cancel" => o.hr.session \in {host[h].session, NoSession}
         /\ req \in {"serverinfo", "pairchallenge"} => host' = host
         /\ o.ret = -1 => o.body = "keep"
         /\ o.body = "session" => req \in {"launch", "resume"} /\ o.hr.session = key
<1>1. /\ o \in HttpsOutcomes(h, n, req, key)
      /\ faults + o.fault <= MaxFaults
      /\ host' = [host EXCEPT ![h] = o.hr]
      /\ pins' = [pins EXCEPT ![n] = o.pin]
      /\ faults' = faults + o.fault
  BY DEF https_launch_get
<1>2. /\ o.ret \in {-1, 0} /\ o.pin \in Pins /\ o.fault \in {0, 1}
      /\ o.hr \in HostRecords /\ o.body \in Bodies \cup {"keep"}
      /\ o.hr.session \in {host[h].session, key, NoSession} /\ o.hr.paired = host[h].paired
      /\ req = "cancel" => o.hr.session \in {host[h].session, NoSession}
      /\ req \in {"serverinfo", "pairchallenge"} => o.hr = host[h]
      /\ o.ret = -1 => o.body = "keep"
      /\ o.body = "session" => req \in {"launch", "resume"} /\ o.hr.session = key
  BY <1>1, OutcomeIs
<1>3. HostTypeOK'
  BY <1>1, <1>2, HostAssumption DEF HostTypeOK
<1>4. host'[h] = o.hr /\ \A g \in Hosts \ {h} : host'[g] = host[g]
  BY <1>1 DEF HostTypeOK
<1>5. o.hr = host[h] => host' = host
  BY <1>1 DEF HostTypeOK
<1> QED BY <1>2, <1>3, <1>4, <1>5

-----------------------------------------------------------------------------
\* A step of one host keeps the types.
LEMMA HostUpdates ==
  ASSUME HostTypeOK, NEW h \in Hosts
  PROVE  /\ \A s \in Sessions : [host EXCEPT ![h].session = s] \in [Hosts -> HostRecords]
         /\ \A p \in BOOLEAN : [host EXCEPT ![h].paired = p] \in [Hosts -> HostRecords]
<1>1. ASSUME NEW r \in HostRecords
      PROVE  [host EXCEPT ![h] = r] \in [Hosts -> HostRecords]
  BY DEF HostTypeOK
<1>2. host[h] \in HostRecords
  BY DEF HostTypeOK
<1>3. ASSUME NEW s \in Sessions
      PROVE  [host EXCEPT ![h].session = s] \in [Hosts -> HostRecords]
  <2>1. [host[h] EXCEPT !.session = s] \in HostRecords
    BY <1>2 DEF HostRecords
  <2> QED BY <1>1, <2>1
<1>4. ASSUME NEW p \in BOOLEAN
      PROVE  [host EXCEPT ![h].paired = p] \in [Hosts -> HostRecords]
  <2>1. [host[h] EXCEPT !.paired = p] \in HostRecords
    BY <1>2 DEF HostRecords
  <2> QED BY <1>1, <2>1
<1> QED BY <1>3, <1>4

-----------------------------------------------------------------------------
\* The start of the program satisfies the invariant.
LEMMA InitInv == Init => IInv
<1> SUFFICES ASSUME Init PROVE IInv
  OBVIOUS
<1>1. HostTypeOK
  BY HostAssumption DEF Init, HostTypeOK, HostRecords, Sessions, Pins
<1>2. PairTypeOK /\ RtspTypeOK
  <2>1. PairTypeOK
    <3>1. saved \subseteq Hosts /\ ever \subseteq Hosts /\ last_paired \in Hosts \cup {NoHost}
      BY DEF Init
    <3>2. {is_paired, cancel} \subseteq BOOLEAN
      BY DEF Init
    <3> QED BY <3>1, <3>2 DEF Init, PairTypeOK, ThreadSteps
  <2>2. RtspTypeOK
    <3>1. audio_ok \in BOOLEAN /\ video_port \in BOOLEAN /\ session_id \in BOOLEAN
      BY DEF Init
    <3>2. cmd = "options" /\ try = 1 /\ res = {} /\ ri_key = 0
      BY DEF Init
    <3>3. cmd \in Commands /\ try \in 1 .. 2 /\ res \subseteq Resources /\ ri_key \in 0 .. MaxKey
      BY <3>2, HostAssumption DEF Commands
    <3> QED BY <3>1, <3>3 DEF RtspTypeOK
  <2> QED BY <2>1, <2>2
<1>3. TypeOK
  <2>1. drawing \in BOOLEAN
    BY DEF Init
  <2>2. /\ pc = "menu" /\ launch_try = 1 /\ rtsp_try = 1 /\ connect_try = 1 /\ resp = "none"
        /\ retry_host = NoHost /\ worker = "none" /\ worker_addr = NoHost /\ since = {}
    BY DEF Init
  <2>3. /\ pc \in Places /\ launch_try \in 1 .. MaxLaunch /\ rtsp_try \in 1 .. MaxRtsp
        /\ connect_try \in 1 .. MaxConnect /\ resp \in Bodies
        /\ retry_host \in Hosts \cup {NoHost} /\ worker \in {"none", "created", "handshake", "gone"}
        /\ worker_addr \in Hosts \cup {NoHost} /\ since \subseteq Hosts
    BY <2>2 DEF Places, MaxLaunch, MaxRtsp, MaxConnect, Bodies
  <2> QED BY <1>1, <1>2, <2>1, <2>3 DEF TypeOK
<1>4. Safe
  BY DEF Init, Safe, Targeted, PairingPhases, PairingEarned, Held, NothingStale, SessionKeyAgreed,
         NoCancelMeanwhile
<1> QED BY <1>3, <1>4 DEF IInv

-----------------------------------------------------------------------------
(***************************************************************************)
(* The actions without a request, one lemma each.                          *)
(***************************************************************************)
\* Picking a host from the list keeps the invariant.
LEMMA SelectHostKeeps ==
  ASSUME IInv, NEW h \in Hosts, NEW probed \in BOOLEAN, SelectHost(h, probed)
  PROVE  IInv'
<1> USE DEF IInv, Safe
<1>1. HostTypeOK' /\ PairTypeOK'
  BY DEF SelectHost, hostVars, TypeOK, HostTypeOK, PairTypeOK, HostRecords, Sessions, Pins, ThreadSteps
<1>2. RtspTypeOK'
  BY DEF SelectHost, rtspVars, TypeOK, RtspTypeOK, Commands, Resources, AudioRes
<1>3. TypeOK'
  BY <1>1, <1>2 DEF SelectHost, workerVars, TypeOK, Places, MaxLaunch, MaxRtsp, MaxConnect, Bodies
<1>4. (Targeted /\ PairingPhases /\ PairingEarned)'
  BY DEF SelectHost, workerVars, TypeOK, PairTypeOK, Targeted, PairingPhases, PairingEarned
<1>5. Held'
  BY DEF SelectHost, rtspVars, TypeOK, RtspTypeOK, Resources, AudioRes, Held, BeforeRtsp
<1>6. (NothingStale /\ SessionKeyAgreed /\ NoCancelMeanwhile)'
  BY DEF SelectHost, hostVars, rtspVars, workerVars, TypeOK, HostTypeOK, NothingStale, SessionKeyAgreed,
         NoCancelMeanwhile
<1> QED BY <1>3, <1>4, <1>5, <1>6

\* Waiting for the worker of an earlier /cancel keeps the invariant: no attempt goes on beside one.
LEMMA AwaitOldCancelKeeps ==
  ASSUME IInv, AwaitOldCancel
  PROVE  IInv'
<1> USE DEF IInv, Safe
<1>1. HostTypeOK' /\ PairTypeOK'
  BY DEF AwaitOldCancel, WaitForCancel, hostVars, pairVars, TypeOK, HostTypeOK, PairTypeOK, HostRecords,
         Sessions, Pins, ThreadSteps
<1>2. RtspTypeOK'
  BY DEF AwaitOldCancel, WaitForCancel, rtspVars, TypeOK, RtspTypeOK, Commands, Resources, AudioRes
<1>3. TypeOK'
  BY <1>1, <1>2 DEF AwaitOldCancel, WaitForCancel, pairVars, mainVars, TypeOK, Places, MaxLaunch, MaxRtsp,
                    MaxConnect, Bodies
<1>4. (Targeted /\ PairingPhases /\ PairingEarned)'
  BY DEF AwaitOldCancel, WaitForCancel, pairVars, TypeOK, PairTypeOK, Targeted, PairingPhases, PairingEarned
<1>5. Held'
  BY DEF AwaitOldCancel, WaitForCancel, rtspVars, TypeOK, RtspTypeOK, Resources, AudioRes, Held, BeforeRtsp
<1>6. (NothingStale /\ SessionKeyAgreed /\ NoCancelMeanwhile)'
  BY DEF AwaitOldCancel, WaitForCancel, hostVars, rtspVars, mainVars, TypeOK, HostTypeOK, NothingStale,
         SessionKeyAgreed, NoCancelMeanwhile
<1> QED BY <1>3, <1>4, <1>5, <1>6

\* The choice of the application keeps the invariant.
LEMMA ChooseAppKeeps ==
  ASSUME IInv, ChooseApp
  PROVE  IInv'
<1> USE DEF IInv, Safe
<1>1. HostTypeOK' /\ PairTypeOK'
  <2>1. faults' \in 0 .. MaxFaults
    BY HostAssumption DEF ChooseApp, TypeOK, HostTypeOK
  <2>2. host' \in [Hosts -> HostRecords] /\ pins' \in [Hosts -> Pins]
    BY DEF ChooseApp, TypeOK, HostTypeOK, PairTypeOK, HostRecords, Sessions, Pins
  <2>3. PairTypeOK'
    BY DEF ChooseApp, TypeOK, PairTypeOK, ThreadSteps
  <2> QED BY <2>1, <2>2, <2>3 DEF HostTypeOK
<1>2. RtspTypeOK'
  BY DEF ChooseApp, TypeOK, RtspTypeOK, Commands, Resources, AudioRes
<1>3. TypeOK'
  <2>1. drawing' \in BOOLEAN
    BY DEF ChooseApp, workerVars, TypeOK
  <2>2. /\ pc' \in Places /\ worker' \in {"none", "created", "handshake", "gone"}
        /\ worker_addr' \in Hosts \cup {NoHost} /\ since' \subseteq Hosts
    BY DEF ChooseApp, workerVars, TypeOK, PairTypeOK, Places
  <2>3. /\ launch_try' \in 1 .. MaxLaunch /\ rtsp_try' \in 1 .. MaxRtsp /\ connect_try' \in 1 .. MaxConnect
        /\ resp' \in Bodies /\ retry_host' \in Hosts \cup {NoHost}
    BY DEF ChooseApp, workerVars, TypeOK, PairTypeOK, MaxLaunch, MaxRtsp, MaxConnect, Bodies
  <2> QED BY <1>1, <1>2, <2>1, <2>2, <2>3 DEF TypeOK
<1>4. (Targeted /\ PairingPhases /\ PairingEarned)'
  BY DEF ChooseApp, workerVars, TypeOK, PairTypeOK, Targeted, PairingPhases, PairingEarned
<1>5. Held'
  BY DEF ChooseApp, TypeOK, RtspTypeOK, Resources, AudioRes, Held, BeforeRtsp
<1>6. (NothingStale /\ SessionKeyAgreed /\ NoCancelMeanwhile)'
  BY DEF ChooseApp, workerVars, TypeOK, HostTypeOK, NothingStale, SessionKeyAgreed, NoCancelMeanwhile
<1> QED BY <1>3, <1>4, <1>5, <1>6

\* The plain serverinfo fallback keeps the invariant; the key it draws is unused.
LEMMA ServerInfoPlainKeeps ==
  ASSUME IInv, ServerInfoPlain
  PROVE  IInv'
<1> USE DEF IInv, Safe
<1>1. HostTypeOK' /\ PairTypeOK'
  <2>1. faults' \in 0 .. MaxFaults
    BY HostAssumption DEF ServerInfoPlain, InfoKnown, LaunchFailed, OutsideLaunch, TypeOK, HostTypeOK
  <2>2. host' \in [Hosts -> HostRecords] /\ pins' \in [Hosts -> Pins]
    BY DEF ServerInfoPlain, InfoKnown, LaunchFailed, OutsideLaunch, TypeOK, HostTypeOK, PairTypeOK,
           HostRecords, Sessions, Pins
  <2>3. PairTypeOK'
    BY DEF ServerInfoPlain, InfoKnown, LaunchFailed, OutsideLaunch, TypeOK, PairTypeOK, ThreadSteps
  <2> QED BY <2>1, <2>2, <2>3 DEF HostTypeOK
<1>2. RtspTypeOK'
  <2>1. FreshKey \in 0 .. MaxKey
    BY FreshKeyType, HostAssumption DEF TypeOK
  <2>2. ri_key' \in 0 .. MaxKey
    <3>1. ri_key' \in {ri_key, FreshKey}
      BY DEF ServerInfoPlain, InfoKnown
    <3> QED BY <2>1, <3>1 DEF TypeOK, RtspTypeOK
  <2>3. try' \in 1 .. 2 /\ UNCHANGED <<cmd, res, audio_ok, video_port, session_id>>
    BY DEF ServerInfoPlain, InfoKnown, LaunchFailed, OutsideLaunch, TypeOK, RtspTypeOK
  <2> QED BY <2>2, <2>3 DEF TypeOK, RtspTypeOK
<1>3. TypeOK'
  <2>1. drawing' \in BOOLEAN
    BY DEF ServerInfoPlain, InfoKnown, LaunchFailed, OutsideLaunch, TypeOK
  <2>2. /\ pc' \in Places /\ worker' \in {"none", "created", "handshake", "gone"}
        /\ worker_addr' \in Hosts \cup {NoHost} /\ since' \subseteq Hosts
    BY DEF ServerInfoPlain, InfoKnown, LaunchFailed, OutsideLaunch, TypeOK, PairTypeOK, Places
  <2>3. /\ launch_try' \in 1 .. MaxLaunch /\ rtsp_try' \in 1 .. MaxRtsp /\ connect_try' \in 1 .. MaxConnect
        /\ resp' \in Bodies /\ retry_host' \in Hosts \cup {NoHost}
    BY DEF ServerInfoPlain, InfoKnown, LaunchFailed, OutsideLaunch, TypeOK, PairTypeOK, MaxLaunch, MaxRtsp,
           MaxConnect, Bodies
  <2> QED BY <1>1, <1>2, <2>1, <2>2, <2>3 DEF TypeOK
<1>4. (Targeted /\ PairingPhases /\ PairingEarned)'
  BY DEF ServerInfoPlain, InfoKnown, LaunchFailed, OutsideLaunch, TypeOK, PairTypeOK, Targeted,
         PairingPhases, PairingEarned
<1>5. Held'
  BY DEF ServerInfoPlain, InfoKnown, LaunchFailed, OutsideLaunch, TypeOK, RtspTypeOK, Resources, AudioRes,
         Held, BeforeRtsp
<1>6. (NothingStale /\ SessionKeyAgreed /\ NoCancelMeanwhile)'
  BY DEF ServerInfoPlain, InfoKnown, LaunchFailed, OutsideLaunch, TypeOK, HostTypeOK, NothingStale,
         SessionKeyAgreed, NoCancelMeanwhile
<1> QED BY <1>3, <1>4, <1>5, <1>6

\* The question about a running session keeps the invariant.
LEMMA PromptKeeps ==
  ASSUME IInv, Prompt
  PROVE  IInv'
<1> USE DEF IInv, Safe
<1>1. HostTypeOK' /\ PairTypeOK'
  BY DEF Prompt, LaunchFailed, OutsideLaunch, hostVars, TypeOK, HostTypeOK, PairTypeOK, HostRecords,
         Sessions, Pins, ThreadSteps
<1>2. RtspTypeOK'
  BY DEF Prompt, LaunchFailed, OutsideLaunch, TypeOK, RtspTypeOK, Commands, Resources, AudioRes
<1>3. TypeOK'
  <2>1. drawing' \in BOOLEAN
    BY DEF Prompt, LaunchFailed, OutsideLaunch, TypeOK
  <2>2. /\ pc' \in Places /\ worker' \in {"none", "created", "handshake", "gone"}
        /\ worker_addr' \in Hosts \cup {NoHost} /\ since' \subseteq Hosts
    BY DEF Prompt, LaunchFailed, OutsideLaunch, TypeOK, PairTypeOK, Places
  <2>3. /\ launch_try' \in 1 .. MaxLaunch /\ rtsp_try' \in 1 .. MaxRtsp /\ connect_try' \in 1 .. MaxConnect
        /\ resp' \in Bodies /\ retry_host' \in Hosts \cup {NoHost}
    BY DEF Prompt, LaunchFailed, OutsideLaunch, TypeOK, PairTypeOK, MaxLaunch, MaxRtsp, MaxConnect, Bodies
  <2> QED BY <1>1, <1>2, <2>1, <2>2, <2>3 DEF TypeOK
<1>4. (Targeted /\ PairingPhases /\ PairingEarned)'
  BY DEF Prompt, LaunchFailed, OutsideLaunch, TypeOK, PairTypeOK, Targeted, PairingPhases, PairingEarned
<1>5. Held'
  BY DEF Prompt, LaunchFailed, OutsideLaunch, TypeOK, RtspTypeOK, Resources, AudioRes, Held, BeforeRtsp
<1>6. (NothingStale /\ SessionKeyAgreed /\ NoCancelMeanwhile)'
  BY DEF Prompt, LaunchFailed, OutsideLaunch, hostVars, TypeOK, HostTypeOK, NothingStale, SessionKeyAgreed,
         NoCancelMeanwhile
<1> QED BY <1>3, <1>4, <1>5, <1>6

\* The retry of the handshake keeps the invariant.
LEMMA RtspRetryKeeps ==
  ASSUME IInv, RtspRetry
  PROVE  IInv'
<1> USE DEF IInv, Safe
<1>1. HostTypeOK' /\ PairTypeOK'
  BY DEF RtspRetry, hostVars, pairVars, TypeOK, HostTypeOK, PairTypeOK, HostRecords, Sessions, Pins,
         ThreadSteps
<1>2. RtspTypeOK'
  BY DEF RtspRetry, rtspVars, TypeOK, RtspTypeOK, Commands, Resources, AudioRes
<1>3. TypeOK'
  BY <1>1, <1>2 DEF RtspRetry, pairVars, workerVars, TypeOK, Places, MaxLaunch, MaxRtsp, MaxConnect, Bodies
<1>4. (Targeted /\ PairingPhases /\ PairingEarned)'
  BY DEF RtspRetry, pairVars, workerVars, TypeOK, PairTypeOK, Targeted, PairingPhases, PairingEarned
<1>5. Held'
  BY DEF RtspRetry, rtspVars, TypeOK, RtspTypeOK, Resources, AudioRes, Held, BeforeRtsp
<1>6. (NothingStale /\ SessionKeyAgreed /\ NoCancelMeanwhile)'
  BY DEF RtspRetry, hostVars, rtspVars, workerVars, TypeOK, HostTypeOK, NothingStale, SessionKeyAgreed,
         NoCancelMeanwhile
<1> QED BY <1>3, <1>4, <1>5, <1>6

\* The clean-up in main after a failed attempt keeps the invariant: it gives everything back.
LEMMA ConnectFailedKeeps ==
  ASSUME IInv, ConnectFailed
  PROVE  IInv'
<1> USE DEF IInv, Safe
<1>1. HostTypeOK' /\ PairTypeOK'
  BY DEF ConnectFailed, Released, Persist, LocalsGone, DeadGlobals, hostVars, TypeOK, HostTypeOK,
         PairTypeOK, HostRecords, Sessions, Pins, ThreadSteps
<1>2. RtspTypeOK'
  <2>1. cmd' \in Commands /\ try' \in 1 .. 2 /\ res' \subseteq Resources /\ ri_key' \in 0 .. MaxKey
    BY HostAssumption DEF ConnectFailed, Released, Persist, LocalsGone, DeadGlobals, TypeOK, RtspTypeOK,
                          Commands, Resources, AudioRes
  <2>2. audio_ok' \in BOOLEAN /\ video_port' \in BOOLEAN /\ session_id' \in BOOLEAN
    BY DEF ConnectFailed, Released, Persist, LocalsGone, DeadGlobals, TypeOK, RtspTypeOK
  <2> QED BY <2>1, <2>2 DEF RtspTypeOK
<1>3. TypeOK'
  BY <1>1, <1>2 DEF ConnectFailed, Released, Persist, LocalsGone, DeadGlobals, workerVars, TypeOK, Places,
                    MaxLaunch, MaxRtsp, MaxConnect, Bodies
<1>4. (Targeted /\ PairingPhases /\ PairingEarned)'
  BY DEF ConnectFailed, Released, Persist, LocalsGone, DeadGlobals, workerVars, TypeOK, PairTypeOK,
         Targeted, PairingPhases, PairingEarned
<1>5. Held'
  BY DEF ConnectFailed, Released, Persist, LocalsGone, DeadGlobals, TypeOK, RtspTypeOK, Resources,
         AudioRes, Held, BeforeRtsp
<1>6. (NothingStale /\ SessionKeyAgreed /\ NoCancelMeanwhile)'
  BY DEF ConnectFailed, Released, Persist, LocalsGone, DeadGlobals, hostVars, workerVars, TypeOK,
         HostTypeOK, NothingStale, SessionKeyAgreed, NoCancelMeanwhile
<1> QED BY <1>3, <1>4, <1>5, <1>6

\* The end of a successful attempt keeps the invariant.
LEMMA ConnectedKeeps ==
  ASSUME IInv, Connected
  PROVE  IInv'
<1> USE DEF IInv, Safe
<1>1. HostTypeOK' /\ PairTypeOK'
  BY DEF Connected, Persist, LocalsGone, hostVars, TypeOK, HostTypeOK, PairTypeOK, HostRecords, Sessions,
         Pins, ThreadSteps
<1>2. RtspTypeOK'
  BY DEF Connected, Persist, LocalsGone, TypeOK, RtspTypeOK, Commands, Resources, AudioRes
<1>3. TypeOK'
  <2>1. drawing' \in BOOLEAN
    BY DEF Connected, Persist, LocalsGone, workerVars, TypeOK
  <2>2. /\ pc' \in Places /\ worker' \in {"none", "created", "handshake", "gone"}
        /\ worker_addr' \in Hosts \cup {NoHost} /\ since' \subseteq Hosts
    BY DEF Connected, Persist, LocalsGone, workerVars, TypeOK, PairTypeOK, Places
  <2>3. /\ launch_try' \in 1 .. MaxLaunch /\ rtsp_try' \in 1 .. MaxRtsp /\ connect_try' \in 1 .. MaxConnect
        /\ resp' \in Bodies /\ retry_host' \in Hosts \cup {NoHost}
    BY DEF Connected, Persist, LocalsGone, workerVars, TypeOK, PairTypeOK, MaxLaunch, MaxRtsp, MaxConnect,
           Bodies
  <2> QED BY <1>1, <1>2, <2>1, <2>2, <2>3 DEF TypeOK
<1>4. (Targeted /\ PairingPhases /\ PairingEarned)'
  BY DEF Connected, Persist, LocalsGone, workerVars, TypeOK, PairTypeOK, Targeted, PairingPhases,
         PairingEarned
<1>5. Held'
  BY DEF Connected, Persist, LocalsGone, TypeOK, RtspTypeOK, Resources, AudioRes, Held, BeforeRtsp
<1>6. (NothingStale /\ SessionKeyAgreed /\ NoCancelMeanwhile)'
  BY DEF Connected, Persist, LocalsGone, hostVars, workerVars, TypeOK, HostTypeOK, NothingStale,
         SessionKeyAgreed, NoCancelMeanwhile
<1> QED BY <1>3, <1>4, <1>5, <1>6

\* Starting the threads of a stream keeps the invariant.
LEMMA StartStreamKeeps ==
  ASSUME IInv, StartStream
  PROVE  IInv'
<1> USE DEF IInv, Safe
<1>1. HostTypeOK' /\ PairTypeOK'
  <2>1. faults' \in 0 .. MaxFaults
    BY HostAssumption DEF StartStream, pairVars, TypeOK, HostTypeOK
  <2>2. host' \in [Hosts -> HostRecords] /\ pins' \in [Hosts -> Pins]
    BY DEF StartStream, pairVars, TypeOK, HostTypeOK, PairTypeOK, HostRecords, Sessions, Pins
  <2>3. PairTypeOK'
    BY DEF StartStream, pairVars, TypeOK, PairTypeOK, ThreadSteps
  <2> QED BY <2>1, <2>2, <2>3 DEF HostTypeOK
<1>2. RtspTypeOK'
  BY DEF StartStream, TypeOK, RtspTypeOK, Commands, Resources, AudioRes
<1>3. TypeOK'
  BY <1>1, <1>2 DEF StartStream, pairVars, mainVars, workerVars, TypeOK, Places, MaxLaunch, MaxRtsp,
                    MaxConnect, Bodies
<1>4. (Targeted /\ PairingPhases /\ PairingEarned)'
  BY DEF StartStream, pairVars, workerVars, TypeOK, PairTypeOK, Targeted, PairingPhases, PairingEarned
<1>5. Held'
  BY DEF StartStream, TypeOK, RtspTypeOK, Resources, AudioRes, Held, BeforeRtsp
<1>6. (NothingStale /\ SessionKeyAgreed /\ NoCancelMeanwhile)'
  BY DEF StartStream, mainVars, workerVars, TypeOK, HostTypeOK, NothingStale, SessionKeyAgreed,
         NoCancelMeanwhile
<1> QED BY <1>3, <1>4, <1>5, <1>6

\* The end of a stream keeps the invariant.
LEMMA EndStreamKeeps ==
  ASSUME IInv, EndStream
  PROVE  IInv'
<1> USE DEF IInv, Safe
<1>1. HostTypeOK' /\ PairTypeOK'
  BY DEF EndStream, hostVars, pairVars, TypeOK, HostTypeOK, PairTypeOK, HostRecords, Sessions, Pins,
         ThreadSteps
<1>2. RtspTypeOK'
  BY DEF EndStream, rtspVars, TypeOK, RtspTypeOK, Commands, Resources, AudioRes
<1>3. TypeOK'
  BY <1>1, <1>2 DEF EndStream, pairVars, mainVars, workerVars, TypeOK, Places, MaxLaunch, MaxRtsp,
                    MaxConnect, Bodies
<1>4. (Targeted /\ PairingPhases /\ PairingEarned)'
  BY DEF EndStream, pairVars, workerVars, TypeOK, PairTypeOK, Targeted, PairingPhases, PairingEarned
<1>5. Held'
  BY DEF EndStream, rtspVars, TypeOK, RtspTypeOK, Resources, AudioRes, Held, BeforeRtsp
<1>6. (NothingStale /\ SessionKeyAgreed /\ NoCancelMeanwhile)'
  BY DEF EndStream, hostVars, rtspVars, mainVars, workerVars, TypeOK, HostTypeOK, NothingStale,
         SessionKeyAgreed, NoCancelMeanwhile
<1> QED BY <1>3, <1>4, <1>5, <1>6

\* abort_stream_to_menu keeps the invariant: everything is released.
LEMMA TeardownKeeps ==
  ASSUME IInv, Teardown
  PROVE  IInv'
<1> USE DEF IInv, Safe
<1>1. HostTypeOK' /\ PairTypeOK'
  BY DEF Teardown, DeadGlobals, hostVars, pairVars, TypeOK, HostTypeOK, PairTypeOK, HostRecords, Sessions,
         Pins, ThreadSteps
<1>2. RtspTypeOK'
  <2>1. cmd' \in Commands /\ try' \in 1 .. 2 /\ res' \subseteq Resources /\ ri_key' \in 0 .. MaxKey
    BY HostAssumption DEF Teardown, DeadGlobals, TypeOK, RtspTypeOK, Commands, Resources, AudioRes
  <2>2. audio_ok' \in BOOLEAN /\ video_port' \in BOOLEAN /\ session_id' \in BOOLEAN
    BY DEF Teardown, DeadGlobals, TypeOK, RtspTypeOK
  <2> QED BY <2>1, <2>2 DEF RtspTypeOK
<1>3. TypeOK'
  BY <1>1, <1>2 DEF Teardown, DeadGlobals, pairVars, mainVars, TypeOK, Places, MaxLaunch, MaxRtsp,
                    MaxConnect, Bodies
<1>4. (Targeted /\ PairingPhases /\ PairingEarned)'
  BY DEF Teardown, DeadGlobals, pairVars, TypeOK, PairTypeOK, Targeted, PairingPhases, PairingEarned
<1>5. Held'
  BY DEF Teardown, DeadGlobals, TypeOK, RtspTypeOK, Resources, AudioRes, Held, BeforeRtsp
<1>6. (NothingStale /\ SessionKeyAgreed /\ NoCancelMeanwhile)'
  BY DEF Teardown, DeadGlobals, hostVars, mainVars, TypeOK, HostTypeOK, NothingStale, SessionKeyAgreed,
         NoCancelMeanwhile
<1> QED BY <1>3, <1>4, <1>5, <1>6

\* The return to the host list keeps the invariant.
LEMMA TeardownWaitKeeps ==
  ASSUME IInv, TeardownWait
  PROVE  IInv'
<1> USE DEF IInv, Safe
<1>1. HostTypeOK' /\ PairTypeOK'
  BY DEF TeardownWait, WaitForCancel, hostVars, pairVars, TypeOK, HostTypeOK, PairTypeOK, HostRecords,
         Sessions, Pins, ThreadSteps
<1>2. RtspTypeOK'
  BY DEF TeardownWait, WaitForCancel, rtspVars, TypeOK, RtspTypeOK, Commands, Resources, AudioRes
<1>3. TypeOK'
  BY <1>1, <1>2 DEF TeardownWait, WaitForCancel, pairVars, mainVars, TypeOK, Places, MaxLaunch, MaxRtsp,
                    MaxConnect, Bodies
<1>4. (Targeted /\ PairingPhases /\ PairingEarned)'
  BY DEF TeardownWait, WaitForCancel, pairVars, TypeOK, PairTypeOK, Targeted, PairingPhases, PairingEarned
<1>5. Held'
  BY DEF TeardownWait, WaitForCancel, rtspVars, TypeOK, RtspTypeOK, Resources, AudioRes, Held, BeforeRtsp
<1>6. (NothingStale /\ SessionKeyAgreed /\ NoCancelMeanwhile)'
  BY DEF TeardownWait, WaitForCancel, hostVars, rtspVars, mainVars, TypeOK, HostTypeOK, NothingStale,
         SessionKeyAgreed, NoCancelMeanwhile
<1> QED BY <1>3, <1>4, <1>5, <1>6

\* The /cancel worker resolving its address keeps the invariant.
LEMMA WorkerConnectKeeps ==
  ASSUME IInv, WorkerConnect
  PROVE  IInv'
<1> USE DEF IInv, Safe
<1>1. HostTypeOK' /\ PairTypeOK'
  BY DEF WorkerConnect, hostVars, pairVars, TypeOK, HostTypeOK, PairTypeOK, HostRecords, Sessions, Pins,
         ThreadSteps
<1>2. RtspTypeOK'
  BY DEF WorkerConnect, rtspVars, TypeOK, RtspTypeOK, Commands, Resources, AudioRes
<1>3. TypeOK'
  <2>1. drawing' \in BOOLEAN
    BY DEF WorkerConnect, pairVars, mainVars, TypeOK
  <2>2. /\ pc' \in Places /\ worker' \in {"none", "created", "handshake", "gone"}
        /\ worker_addr' \in Hosts \cup {NoHost} /\ since' \subseteq Hosts
    BY DEF WorkerConnect, pairVars, mainVars, TypeOK, PairTypeOK, Places
  <2>3. /\ launch_try' \in 1 .. MaxLaunch /\ rtsp_try' \in 1 .. MaxRtsp /\ connect_try' \in 1 .. MaxConnect
        /\ resp' \in Bodies /\ retry_host' \in Hosts \cup {NoHost}
    BY DEF WorkerConnect, pairVars, mainVars, TypeOK, PairTypeOK, MaxLaunch, MaxRtsp, MaxConnect, Bodies
  <2> QED BY <1>1, <1>2, <2>1, <2>2, <2>3 DEF TypeOK
<1>4. (Targeted /\ PairingPhases /\ PairingEarned)'
  BY DEF WorkerConnect, pairVars, TypeOK, PairTypeOK, Targeted, PairingPhases, PairingEarned
<1>5. Held'
  BY DEF WorkerConnect, rtspVars, TypeOK, RtspTypeOK, Resources, AudioRes, Held, BeforeRtsp
<1>6. (NothingStale /\ SessionKeyAgreed /\ NoCancelMeanwhile)'
  BY DEF WorkerConnect, hostVars, rtspVars, mainVars, TypeOK, HostTypeOK, NothingStale, SessionKeyAgreed,
         NoCancelMeanwhile
<1> QED BY <1>3, <1>4, <1>5, <1>6

\* Steps of the hosts keep the invariant: they never give a host one of our keys.
LEMMA EnvironmentKeeps ==
  ASSUME IInv, Environment
  PROVE  IInv'
<1> USE DEF IInv, Safe
<1>1. HostTypeOK' /\ PairTypeOK'
  <2>1. faults' \in 0 .. MaxFaults
    BY HostAssumption DEF Environment, HostStep, pairVars, TypeOK, HostTypeOK
  <2>2. host' \in [Hosts -> HostRecords] /\ pins' \in [Hosts -> Pins]
    <3>1. PICK h \in Hosts : HostStep(h)
      BY DEF Environment
    <3>2. HostTypeOK /\ NoSession \in Sessions /\ Foreign \in Sessions
      BY DEF TypeOK, Sessions
    <3>3. /\ [host EXCEPT ![h].session = NoSession] \in [Hosts -> HostRecords]
          /\ [host EXCEPT ![h].session = Foreign] \in [Hosts -> HostRecords]
      BY <3>2, HostUpdates
    <3>4. [host EXCEPT ![h].paired = FALSE] \in [Hosts -> HostRecords]
      BY <3>2, HostUpdates
    <3> QED BY <3>1, <3>2, <3>3, <3>4 DEF HostStep, HostTypeOK, Pins
  <2>3. PairTypeOK'
    BY DEF Environment, HostStep, pairVars, TypeOK, PairTypeOK, ThreadSteps
  <2> QED BY <2>1, <2>2, <2>3 DEF HostTypeOK
<1>2. RtspTypeOK'
  BY DEF Environment, HostStep, rtspVars, TypeOK, RtspTypeOK, Commands, Resources, AudioRes
<1>3. TypeOK'
  BY <1>1, <1>2 DEF Environment, HostStep, pairVars, mainVars, workerVars, TypeOK, Places, MaxLaunch,
                    MaxRtsp, MaxConnect, Bodies
<1>4. (Targeted /\ PairingPhases /\ PairingEarned)'
  BY DEF Environment, HostStep, pairVars, workerVars, TypeOK, PairTypeOK, Targeted, PairingPhases,
         PairingEarned
<1>5. Held'
  BY DEF Environment, HostStep, rtspVars, TypeOK, RtspTypeOK, Resources, AudioRes, Held, BeforeRtsp
<1>6. (NothingStale /\ SessionKeyAgreed /\ NoCancelMeanwhile)'
  <2>1. PICK h \in Hosts : HostStep(h)
    BY DEF Environment
  <2>2. \A g \in Hosts : host'[g].session \in {host[g].session, NoSession, Foreign}
    BY <2>1 DEF HostStep, TypeOK, HostTypeOK, HostRecords, Sessions
  <2>3. UNCHANGED <<target, pc, pairVars, rtspVars, mainVars, workerVars>>
    BY DEF Environment
  <2> QED BY <2>2, <2>3 DEF rtspVars, mainVars, workerVars, TypeOK, PairTypeOK, NothingStale, 
                            SessionKeyAgreed, NoCancelMeanwhile, Targeted, NoSession, Foreign
<1> QED BY <1>3, <1>4, <1>5, <1>6

\* Steps 1 to 3 of the pairing worker keep the invariant.
LEMMA ThreadChallengeKeeps ==
  ASSUME IInv, ThreadChallenge, UNCHANGED <<rtspVars, mainVars, workerVars>>
  PROVE  IInv'
<1> USE DEF IInv, Safe
<1>1. HostTypeOK' /\ PairTypeOK'
  <2>1. faults' \in 0 .. MaxFaults
    BY HostAssumption DEF ThreadChallenge, NextStep, TypeOK, HostTypeOK
  <2>2. host' \in [Hosts -> HostRecords] /\ pins' \in [Hosts -> Pins]
    BY DEF ThreadChallenge, NextStep, TypeOK, HostTypeOK, PairTypeOK, HostRecords, Sessions, Pins
  <2>3. PairTypeOK'
    BY DEF ThreadChallenge, NextStep, TypeOK, PairTypeOK, ThreadSteps
  <2> QED BY <2>1, <2>2, <2>3 DEF HostTypeOK
<1>2. RtspTypeOK'
  BY DEF ThreadChallenge, NextStep, rtspVars, TypeOK, RtspTypeOK, Commands, Resources, AudioRes
<1>3. TypeOK'
  BY <1>1, <1>2 DEF ThreadChallenge, NextStep, mainVars, workerVars, TypeOK, Places, MaxLaunch, MaxRtsp,
                    MaxConnect, Bodies
<1>4. (Targeted /\ PairingPhases /\ PairingEarned)'
  BY DEF ThreadChallenge, NextStep, workerVars, TypeOK, PairTypeOK, Targeted, PairingPhases, PairingEarned
<1>5. Held'
  BY DEF ThreadChallenge, NextStep, rtspVars, TypeOK, RtspTypeOK, Resources, AudioRes, Held, BeforeRtsp
<1>6. (NothingStale /\ SessionKeyAgreed /\ NoCancelMeanwhile)'
  BY DEF ThreadChallenge, NextStep, rtspVars, mainVars, workerVars, TypeOK, HostTypeOK, NothingStale,
         SessionKeyAgreed, NoCancelMeanwhile
<1> QED BY <1>3, <1>4, <1>5, <1>6

\* Step 4 of the pairing worker keeps the invariant: the host is registered before the flag is set.
LEMMA ThreadSecretKeeps ==
  ASSUME IInv, ThreadSecret, UNCHANGED <<rtspVars, mainVars, workerVars>>
  PROVE  IInv'
<1> USE DEF IInv, Safe
<1>1. HostTypeOK' /\ PairTypeOK'
  <2>1. faults' \in 0 .. MaxFaults
    BY HostAssumption DEF ThreadSecret, TypeOK, HostTypeOK
  <2>0. target \in Hosts
    BY DEF ThreadSecret, Targeted, PairingPhases
  <2>2. host' \in [Hosts -> HostRecords] /\ pins' \in [Hosts -> Pins]
    <3>1. HostTypeOK
      BY DEF TypeOK
    <3>2. [host EXCEPT ![target].paired = TRUE] \in [Hosts -> HostRecords]
      BY <2>0, <3>1, HostUpdates
    <3> QED BY <3>1, <3>2 DEF ThreadSecret, HostTypeOK
  <2>3. PairTypeOK'
    BY <2>0 DEF ThreadSecret, TypeOK, PairTypeOK, ThreadSteps
  <2> QED BY <2>1, <2>2, <2>3 DEF HostTypeOK
<1>2. RtspTypeOK'
  BY DEF ThreadSecret, rtspVars, TypeOK, RtspTypeOK, Commands, Resources, AudioRes
<1>3. TypeOK'
  BY <1>1, <1>2 DEF ThreadSecret, mainVars, workerVars, TypeOK, Places, MaxLaunch, MaxRtsp, MaxConnect,
                    Bodies
<1>4. (Targeted /\ PairingPhases /\ PairingEarned)'
  BY DEF ThreadSecret, workerVars, TypeOK, PairTypeOK, Targeted, PairingPhases, PairingEarned
<1>5. Held'
  BY DEF ThreadSecret, rtspVars, TypeOK, RtspTypeOK, Resources, AudioRes, Held, BeforeRtsp
<1>6. (NothingStale /\ SessionKeyAgreed /\ NoCancelMeanwhile)'
  <2>1. pc \in {"pin", "stopped", "joined"} /\ UNCHANGED <<pc, resp, worker, since>>
    BY DEF ThreadSecret, PairingPhases, mainVars, workerVars
  <2> QED BY <2>1 DEF NothingStale, SessionKeyAgreed, NoCancelMeanwhile
<1> QED BY <1>3, <1>4, <1>5, <1>6

\* Setting the paired flag keeps the invariant.
LEMMA ThreadMarkKeeps ==
  ASSUME IInv, ThreadMark, UNCHANGED <<rtspVars, mainVars, workerVars>>
  PROVE  IInv'
<1> USE DEF IInv, Safe
<1>1. HostTypeOK' /\ PairTypeOK'
  BY DEF ThreadMark, hostVars, TypeOK, HostTypeOK, PairTypeOK, HostRecords, Sessions, Pins, ThreadSteps
<1>2. RtspTypeOK'
  BY DEF ThreadMark, rtspVars, TypeOK, RtspTypeOK, Commands, Resources, AudioRes
<1>3. TypeOK'
  BY <1>1, <1>2 DEF ThreadMark, mainVars, workerVars, TypeOK, Places, MaxLaunch, MaxRtsp, MaxConnect, Bodies
<1>4. (Targeted /\ PairingPhases /\ PairingEarned)'
  BY DEF ThreadMark, workerVars, TypeOK, PairTypeOK, Targeted, PairingPhases, PairingEarned
<1>5. Held'
  BY DEF ThreadMark, rtspVars, TypeOK, RtspTypeOK, Resources, AudioRes, Held, BeforeRtsp
<1>6. (NothingStale /\ SessionKeyAgreed /\ NoCancelMeanwhile)'
  BY DEF ThreadMark, hostVars, rtspVars, mainVars, workerVars, TypeOK, HostTypeOK, NothingStale,
         SessionKeyAgreed, NoCancelMeanwhile
<1> QED BY <1>3, <1>4, <1>5, <1>6

\* Remembering the host keeps the invariant: it has registered the certificate.
LEMMA ThreadPersistKeeps ==
  ASSUME IInv, ThreadPersist, UNCHANGED <<rtspVars, mainVars, workerVars>>
  PROVE  IInv'
<1> USE DEF IInv, Safe
<1>1. HostTypeOK' /\ PairTypeOK'
  <2>1. faults' \in 0 .. MaxFaults
    BY HostAssumption DEF ThreadPersist, hostVars, TypeOK, HostTypeOK
  <2>0. target \in Hosts
    BY DEF ThreadPersist, Targeted, PairingPhases
  <2>2. host' \in [Hosts -> HostRecords] /\ pins' \in [Hosts -> Pins]
    BY DEF ThreadPersist, hostVars, TypeOK, HostTypeOK
  <2>3. PairTypeOK'
    BY <2>0 DEF ThreadPersist, hostVars, TypeOK, PairTypeOK, ThreadSteps
  <2> QED BY <2>1, <2>2, <2>3 DEF HostTypeOK
<1>2. RtspTypeOK'
  BY DEF ThreadPersist, rtspVars, TypeOK, RtspTypeOK, Commands, Resources, AudioRes
<1>3. TypeOK'
  BY <1>1, <1>2 DEF ThreadPersist, mainVars, workerVars, TypeOK, Places, MaxLaunch, MaxRtsp, MaxConnect,
                    Bodies
<1>4. (Targeted /\ PairingPhases /\ PairingEarned)'
  BY DEF ThreadPersist, workerVars, TypeOK, PairTypeOK, Targeted, PairingPhases, PairingEarned
<1>5. Held'
  BY DEF ThreadPersist, rtspVars, TypeOK, RtspTypeOK, Resources, AudioRes, Held, BeforeRtsp
<1>6. (NothingStale /\ SessionKeyAgreed /\ NoCancelMeanwhile)'
  BY DEF ThreadPersist, hostVars, rtspVars, mainVars, workerVars, TypeOK, HostTypeOK, NothingStale,
         SessionKeyAgreed, NoCancelMeanwhile
<1> QED BY <1>3, <1>4, <1>5, <1>6

\* The unpairing of a failed worker keeps the invariant.
LEMMA ThreadUnpairKeeps ==
  ASSUME IInv, ThreadUnpair, UNCHANGED <<rtspVars, mainVars, workerVars>>
  PROVE  IInv'
<1> USE DEF IInv, Safe
<1>1. HostTypeOK' /\ PairTypeOK'
  <2>1. faults' \in 0 .. MaxFaults
    BY HostAssumption DEF ThreadUnpair, TypeOK, HostTypeOK
  <2>0. target \in Hosts
    BY DEF ThreadUnpair, Targeted, PairingPhases
  <2>2. host' \in [Hosts -> HostRecords] /\ pins' \in [Hosts -> Pins]
    <3>1. HostTypeOK
      BY DEF TypeOK
    <3>2. [host EXCEPT ![target].paired = FALSE] \in [Hosts -> HostRecords]
      BY <2>0, <3>1, HostUpdates
    <3> QED BY <3>1, <3>2 DEF ThreadUnpair, HostTypeOK
  <2>3. PairTypeOK'
    BY <2>0 DEF ThreadUnpair, TypeOK, PairTypeOK, ThreadSteps
  <2> QED BY <2>1, <2>2, <2>3 DEF HostTypeOK
<1>2. RtspTypeOK'
  BY DEF ThreadUnpair, rtspVars, TypeOK, RtspTypeOK, Commands, Resources, AudioRes
<1>3. TypeOK'
  BY <1>1, <1>2 DEF ThreadUnpair, mainVars, workerVars, TypeOK, Places, MaxLaunch, MaxRtsp, MaxConnect,
                    Bodies
<1>4. (Targeted /\ PairingPhases /\ PairingEarned)'
  BY DEF ThreadUnpair, workerVars, TypeOK, PairTypeOK, Targeted, PairingPhases, PairingEarned
<1>5. Held'
  BY DEF ThreadUnpair, rtspVars, TypeOK, RtspTypeOK, Resources, AudioRes, Held, BeforeRtsp
<1>6. (NothingStale /\ SessionKeyAgreed /\ NoCancelMeanwhile)'
  <2>1. pc \in {"pin", "stopped", "joined"} /\ UNCHANGED <<pc, resp, worker, since>>
    BY DEF ThreadUnpair, PairingPhases, mainVars, workerVars
  <2> QED BY <2>1 DEF NothingStale, SessionKeyAgreed, NoCancelMeanwhile
<1> QED BY <1>3, <1>4, <1>5, <1>6

\* Starting the pairing worker keeps the invariant.
LEMMA PairStartKeeps ==
  ASSUME IInv, PairStart, UNCHANGED <<rtspVars, mainVars, workerVars>>
  PROVE  IInv'
<1> USE DEF IInv, Safe
<1>1. HostTypeOK' /\ PairTypeOK'
  <2>1. faults' \in 0 .. MaxFaults
    BY HostAssumption DEF PairStart, TypeOK, HostTypeOK
  <2>2. host' \in [Hosts -> HostRecords] /\ pins' \in [Hosts -> Pins]
    BY DEF PairStart, TypeOK, HostTypeOK, PairTypeOK, HostRecords, Sessions, Pins
  <2>3. PairTypeOK'
    BY DEF PairStart, TypeOK, PairTypeOK, ThreadSteps
  <2> QED BY <2>1, <2>2, <2>3 DEF HostTypeOK
<1>2. RtspTypeOK'
  BY DEF PairStart, rtspVars, TypeOK, RtspTypeOK, Commands, Resources, AudioRes
<1>3. TypeOK'
  BY <1>1, <1>2 DEF PairStart, mainVars, workerVars, TypeOK, Places, MaxLaunch, MaxRtsp, MaxConnect, Bodies
<1>4. (Targeted /\ PairingPhases /\ PairingEarned)'
  BY DEF PairStart, workerVars, TypeOK, PairTypeOK, Targeted, PairingPhases, PairingEarned
<1>5. Held'
  BY DEF PairStart, rtspVars, TypeOK, RtspTypeOK, Resources, AudioRes, Held, BeforeRtsp
<1>6. (NothingStale /\ SessionKeyAgreed /\ NoCancelMeanwhile)'
  BY DEF PairStart, rtspVars, mainVars, workerVars, TypeOK, HostTypeOK, NothingStale, SessionKeyAgreed,
         NoCancelMeanwhile
<1> QED BY <1>3, <1>4, <1>5, <1>6

\* The PIN screen keeps the invariant: it sees the flag only of a registered host.
LEMMA PinScreenKeeps ==
  ASSUME IInv, PinScreen, UNCHANGED <<rtspVars, mainVars, workerVars>>
  PROVE  IInv'
<1> USE DEF IInv, Safe
<1>1. HostTypeOK' /\ PairTypeOK'
  BY DEF PinScreen, hostVars, TypeOK, HostTypeOK, PairTypeOK, HostRecords, Sessions, Pins, ThreadSteps
<1>2. RtspTypeOK'
  BY DEF PinScreen, rtspVars, TypeOK, RtspTypeOK, Commands, Resources, AudioRes
<1>3. TypeOK'
  BY <1>1, <1>2 DEF PinScreen, mainVars, workerVars, TypeOK, Places, MaxLaunch, MaxRtsp, MaxConnect, Bodies
<1>4. (Targeted /\ PairingPhases /\ PairingEarned)'
  BY DEF PinScreen, workerVars, TypeOK, PairTypeOK, Targeted, PairingPhases, PairingEarned
<1>5. Held'
  BY DEF PinScreen, rtspVars, TypeOK, RtspTypeOK, Resources, AudioRes, Held, BeforeRtsp
<1>6. (NothingStale /\ SessionKeyAgreed /\ NoCancelMeanwhile)'
  BY DEF PinScreen, hostVars, rtspVars, mainVars, workerVars, TypeOK, HostTypeOK, NothingStale,
         SessionKeyAgreed, NoCancelMeanwhile
<1> QED BY <1>3, <1>4, <1>5, <1>6

\* The end of a cancelled worker keeps the invariant.
LEMMA PairStoppedKeeps ==
  ASSUME IInv, PairStopped, UNCHANGED <<rtspVars, mainVars, workerVars>>
  PROVE  IInv'
<1> USE DEF IInv, Safe
<1>1. HostTypeOK' /\ PairTypeOK'
  <2>1. faults' \in 0 .. MaxFaults
    BY HostAssumption DEF PairStopped, TypeOK, HostTypeOK
  <2>2. host' \in [Hosts -> HostRecords] /\ pins' \in [Hosts -> Pins]
    BY DEF PairStopped, TypeOK, HostTypeOK, PairTypeOK, HostRecords, Sessions, Pins
  <2>3. PairTypeOK'
    BY DEF PairStopped, TypeOK, PairTypeOK, ThreadSteps
  <2> QED BY <2>1, <2>2, <2>3 DEF HostTypeOK
<1>2. RtspTypeOK'
  BY DEF PairStopped, rtspVars, TypeOK, RtspTypeOK, Commands, Resources, AudioRes
<1>3. TypeOK'
  BY <1>1, <1>2 DEF PairStopped, mainVars, workerVars, TypeOK, Places, MaxLaunch, MaxRtsp, MaxConnect,
                    Bodies
<1>4. (Targeted /\ PairingPhases /\ PairingEarned)'
  BY DEF PairStopped, workerVars, TypeOK, PairTypeOK, Targeted, PairingPhases, PairingEarned
<1>5. Held'
  BY DEF PairStopped, rtspVars, TypeOK, RtspTypeOK, Resources, AudioRes, Held, BeforeRtsp
<1>6. (NothingStale /\ SessionKeyAgreed /\ NoCancelMeanwhile)'
  BY DEF PairStopped, rtspVars, mainVars, workerVars, TypeOK, HostTypeOK, NothingStale, SessionKeyAgreed,
         NoCancelMeanwhile
<1> QED BY <1>3, <1>4, <1>5, <1>6

\* The end of a successful worker keeps the invariant.
LEMMA PairJoinKeeps ==
  ASSUME IInv, PairJoin, UNCHANGED <<rtspVars, mainVars, workerVars>>
  PROVE  IInv'
<1> USE DEF IInv, Safe
<1>1. HostTypeOK' /\ PairTypeOK'
  BY DEF PairJoin, hostVars, TypeOK, HostTypeOK, PairTypeOK, HostRecords, Sessions, Pins, ThreadSteps
<1>2. RtspTypeOK'
  BY DEF PairJoin, rtspVars, TypeOK, RtspTypeOK, Commands, Resources, AudioRes
<1>3. TypeOK'
  BY <1>1, <1>2 DEF PairJoin, mainVars, workerVars, TypeOK, Places, MaxLaunch, MaxRtsp, MaxConnect, Bodies
<1>4. (Targeted /\ PairingPhases /\ PairingEarned)'
  BY DEF PairJoin, workerVars, TypeOK, PairTypeOK, Targeted, PairingPhases, PairingEarned
<1>5. Held'
  BY DEF PairJoin, rtspVars, TypeOK, RtspTypeOK, Resources, AudioRes, Held, BeforeRtsp
<1>6. (NothingStale /\ SessionKeyAgreed /\ NoCancelMeanwhile)'
  BY DEF PairJoin, hostVars, rtspVars, mainVars, workerVars, TypeOK, HostTypeOK, NothingStale,
         SessionKeyAgreed, NoCancelMeanwhile
<1> QED BY <1>3, <1>4, <1>5, <1>6

\* The entry of rtsp_session keeps the invariant.
LEMMA RtspEnterKeeps ==
  ASSUME IInv, RtspEnter, UNCHANGED <<mainVars, workerVars>>
  PROVE  IInv'
<1> USE DEF IInv, Safe
<1>1. HostTypeOK' /\ PairTypeOK'
  BY DEF RtspEnter, OutsideRtsp, TypeOK, HostTypeOK, PairTypeOK, HostRecords, Sessions, Pins, ThreadSteps
<1>2. RtspTypeOK'
  <2>1. cmd' \in Commands /\ try' \in 1 .. 2 /\ res' \subseteq Resources /\ ri_key' \in 0 .. MaxKey
    BY HostAssumption DEF RtspEnter, OutsideRtsp, TypeOK, RtspTypeOK, Commands, Resources, AudioRes
  <2>2. audio_ok' \in BOOLEAN /\ video_port' \in BOOLEAN /\ session_id' \in BOOLEAN
    BY DEF RtspEnter, OutsideRtsp, TypeOK, RtspTypeOK
  <2> QED BY <2>1, <2>2 DEF RtspTypeOK
<1>3. TypeOK'
  BY <1>1, <1>2 DEF RtspEnter, OutsideRtsp, mainVars, workerVars, TypeOK, Places, MaxLaunch, MaxRtsp,
                    MaxConnect, Bodies
<1>4. (Targeted /\ PairingPhases /\ PairingEarned)'
  BY DEF RtspEnter, OutsideRtsp, workerVars, TypeOK, PairTypeOK, Targeted, PairingPhases, PairingEarned
<1>5. Held'
  BY DEF RtspEnter, OutsideRtsp, TypeOK, RtspTypeOK, Resources, AudioRes, Held, BeforeRtsp
<1>6. (NothingStale /\ SessionKeyAgreed /\ NoCancelMeanwhile)'
  BY DEF RtspEnter, OutsideRtsp, mainVars, workerVars, TypeOK, HostTypeOK, NothingStale, SessionKeyAgreed,
         NoCancelMeanwhile
<1> QED BY <1>3, <1>4, <1>5, <1>6

\* An RTSP command that succeeds keeps the invariant, whichever it is.
LEMMA RtspOkKeeps ==
  ASSUME IInv, RtspOk, UNCHANGED <<mainVars, workerVars>>
  PROVE  IInv'
<1> USE DEF IInv, Safe
<1>1. HostTypeOK' /\ PairTypeOK'
  BY DEF RtspOk, OutsideRtsp, Reserve, Acquired, After, Granted, TypeOK, HostTypeOK, PairTypeOK,
         HostRecords, Sessions, Pins, ThreadSteps
<1>2. RtspTypeOK'
  <2>1. cmd' \in Commands /\ try' \in 1 .. 2 /\ res' \subseteq Resources /\ ri_key' \in 0 .. MaxKey
    BY HostAssumption DEF RtspOk, OutsideRtsp, Reserve, Acquired, After, Granted, TypeOK, RtspTypeOK,
                          Commands, Resources, AudioRes
  <2>2. audio_ok' \in BOOLEAN /\ video_port' \in BOOLEAN /\ session_id' \in BOOLEAN
    BY DEF RtspOk, OutsideRtsp, Reserve, Acquired, After, Granted, TypeOK, RtspTypeOK
  <2> QED BY <2>1, <2>2 DEF RtspTypeOK
<1>3. TypeOK'
  BY <1>1, <1>2 DEF RtspOk, OutsideRtsp, Reserve, Acquired, After, Granted, mainVars, workerVars, TypeOK,
                    Places, MaxLaunch, MaxRtsp, MaxConnect, Bodies
<1>4. (Targeted /\ PairingPhases /\ PairingEarned)'
  BY DEF RtspOk, OutsideRtsp, Reserve, Acquired, After, Granted, workerVars, TypeOK, PairTypeOK, Targeted,
         PairingPhases, PairingEarned
<1>5. Held'
  <2>1. /\ pc = "rtsp" /\ pc' \in {"rtsp", "playing"} /\ (cmd = "play" => pc' = "playing")
        /\ audio_ok' = (IF cmd = "describe" THEN FALSE ELSE IF cmd = "audio" THEN TRUE ELSE audio_ok)
        /\ video_port' = (video_port \/ cmd = "video")
        /\ cmd' = After(cmd)
    BY DEF RtspOk
  <2>2. PICK mapped \in BOOLEAN : res' = res \cup Reserve(cmd) \cup Acquired(cmd, mapped)
    BY DEF RtspOk
  <2>3. /\ cmd \in {"options", "describe", "audio"} => res \subseteq {"audioSock"}
        /\ res \cap {"decoder", "receiver", "controlStream"} = {}
        /\ "audioPing" \in res \/ "audioThreads" \in res => audio_ok
        /\ "videoSock" \in res => video_port
    BY <2>1 DEF Held
  <2>4. CASE cmd \in {"options", "describe"}
    <3>1. res' = res /\ cmd' \in {"describe", "audio"}
      BY <2>1, <2>2, <2>4 DEF Reserve, Acquired, After
    <3> QED BY <2>1, <2>3, <2>4, <3>1 DEF Held, BeforeRtsp
  <2>5. CASE cmd = "audio"
    <3>1. res' = res \cup {"audioSock", "audioPing"} /\ cmd' = "video" /\ audio_ok'
      BY <2>1, <2>2, <2>5 DEF Reserve, Acquired, After
    <3> QED BY <2>1, <2>3, <2>5, <3>1 DEF Held, BeforeRtsp
  <2>6. CASE cmd = "video"
    <3>1. res' = res \cup {"videoSock"} /\ cmd' = "control" /\ video_port'
      BY <2>1, <2>2, <2>6 DEF Reserve, Acquired, After
    <3> QED BY <2>1, <2>3, <2>6, <3>1 DEF Held, BeforeRtsp
  <2>7. CASE cmd = "control"
    <3>1. res' \subseteq res \cup {"mappings"} /\ cmd' = "announce"
      BY <2>1, <2>2, <2>7 DEF Reserve, Acquired, After
    <3> QED BY <2>1, <2>3, <2>7, <3>1 DEF Held, BeforeRtsp
  <2>8. CASE cmd = "announce"
    <3>1. /\ res' \subseteq res \cup {"crypto", "audioThreads"} /\ cmd' = "play"
          /\ ("audioThreads" \in res' => audio_ok \/ "audioThreads" \in res)
      BY <2>1, <2>2, <2>8 DEF Reserve, Acquired, After
    <3> QED BY <2>1, <2>3, <2>8, <3>1 DEF Held, BeforeRtsp
  <2>9. CASE cmd = "play"
    BY <2>1, <2>9 DEF Held, BeforeRtsp
  <2> QED BY <2>4, <2>5, <2>6, <2>7, <2>8, <2>9 DEF TypeOK, RtspTypeOK, Commands
<1>6. (NothingStale /\ SessionKeyAgreed /\ NoCancelMeanwhile)'
  BY DEF RtspOk, OutsideRtsp, Reserve, Acquired, After, Granted, mainVars, workerVars, TypeOK, HostTypeOK,
         NothingStale, SessionKeyAgreed, NoCancelMeanwhile
<1> QED BY <1>3, <1>4, <1>5, <1>6

\* An RTSP command that fails keeps the invariant.
LEMMA RtspFailedKeeps ==
  ASSUME IInv, RtspFailed, UNCHANGED <<mainVars, workerVars>>
  PROVE  IInv'
<1> USE DEF IInv, Safe
<1>1. HostTypeOK' /\ PairTypeOK'
  <2>1. faults' \in 0 .. MaxFaults
    BY HostAssumption DEF RtspFailed, OutsideRtsp, Reserve, Granted, TypeOK, HostTypeOK
  <2>2. host' \in [Hosts -> HostRecords] /\ pins' \in [Hosts -> Pins]
    BY DEF RtspFailed, OutsideRtsp, Reserve, Granted, TypeOK, HostTypeOK, PairTypeOK, HostRecords,
           Sessions, Pins
  <2>3. PairTypeOK'
    BY DEF RtspFailed, OutsideRtsp, Reserve, Granted, TypeOK, PairTypeOK, ThreadSteps
  <2> QED BY <2>1, <2>2, <2>3 DEF HostTypeOK
<1>2. RtspTypeOK'
  BY DEF RtspFailed, OutsideRtsp, Reserve, Granted, TypeOK, RtspTypeOK, Commands, Resources, AudioRes
<1>3. TypeOK'
  BY <1>1, <1>2 DEF RtspFailed, OutsideRtsp, Reserve, Granted, mainVars, workerVars, TypeOK, Places,
                    MaxLaunch, MaxRtsp, MaxConnect, Bodies
<1>4. (Targeted /\ PairingPhases /\ PairingEarned)'
  BY DEF RtspFailed, OutsideRtsp, Reserve, Granted, workerVars, TypeOK, PairTypeOK, Targeted,
         PairingPhases, PairingEarned
<1>5. Held'
  BY DEF RtspFailed, OutsideRtsp, Reserve, Granted, TypeOK, RtspTypeOK, Resources, AudioRes, Held,
         BeforeRtsp
<1>6. (NothingStale /\ SessionKeyAgreed /\ NoCancelMeanwhile)'
  BY DEF RtspFailed, OutsideRtsp, Reserve, Granted, mainVars, workerVars, TypeOK, HostTypeOK, NothingStale,
         SessionKeyAgreed, NoCancelMeanwhile
<1> QED BY <1>3, <1>4, <1>5, <1>6

\* A host that cannot be reached keeps the invariant.
LEMMA RtspUnreachableKeeps ==
  ASSUME IInv, RtspUnreachable, UNCHANGED <<mainVars, workerVars>>
  PROVE  IInv'
<1> USE DEF IInv, Safe
<1>1. HostTypeOK' /\ PairTypeOK'
  <2>1. faults' \in 0 .. MaxFaults
    BY HostAssumption DEF RtspUnreachable, OutsideRtsp, TypeOK, HostTypeOK
  <2>2. host' \in [Hosts -> HostRecords] /\ pins' \in [Hosts -> Pins]
    BY DEF RtspUnreachable, OutsideRtsp, TypeOK, HostTypeOK, PairTypeOK, HostRecords, Sessions, Pins
  <2>3. PairTypeOK'
    BY DEF RtspUnreachable, OutsideRtsp, TypeOK, PairTypeOK, ThreadSteps
  <2> QED BY <2>1, <2>2, <2>3 DEF HostTypeOK
<1>2. RtspTypeOK'
  BY DEF RtspUnreachable, OutsideRtsp, TypeOK, RtspTypeOK, Commands, Resources, AudioRes
<1>3. TypeOK'
  BY <1>1, <1>2 DEF RtspUnreachable, OutsideRtsp, mainVars, workerVars, TypeOK, Places, MaxLaunch, MaxRtsp,
                    MaxConnect, Bodies
<1>4. (Targeted /\ PairingPhases /\ PairingEarned)'
  BY DEF RtspUnreachable, OutsideRtsp, workerVars, TypeOK, PairTypeOK, Targeted, PairingPhases,
         PairingEarned
<1>5. Held'
  BY DEF RtspUnreachable, OutsideRtsp, TypeOK, RtspTypeOK, Resources, AudioRes, Held, BeforeRtsp
<1>6. (NothingStale /\ SessionKeyAgreed /\ NoCancelMeanwhile)'
  BY DEF RtspUnreachable, OutsideRtsp, mainVars, workerVars, TypeOK, HostTypeOK, NothingStale,
         SessionKeyAgreed, NoCancelMeanwhile
<1> QED BY <1>3, <1>4, <1>5, <1>6

\* A failure between ANNOUNCE and PLAY keeps the invariant.
LEMMA RtspPrepareFailedKeeps ==
  ASSUME IInv, RtspPrepareFailed, UNCHANGED <<mainVars, workerVars>>
  PROVE  IInv'
<1> USE DEF IInv, Safe
<1>1. HostTypeOK' /\ PairTypeOK'
  <2>1. faults' \in 0 .. MaxFaults
    BY HostAssumption DEF RtspPrepareFailed, OutsideRtsp, TypeOK, HostTypeOK
  <2>2. host' \in [Hosts -> HostRecords] /\ pins' \in [Hosts -> Pins]
    BY DEF RtspPrepareFailed, OutsideRtsp, TypeOK, HostTypeOK, PairTypeOK, HostRecords, Sessions, Pins
  <2>3. PairTypeOK'
    BY DEF RtspPrepareFailed, OutsideRtsp, TypeOK, PairTypeOK, ThreadSteps
  <2> QED BY <2>1, <2>2, <2>3 DEF HostTypeOK
<1>2. RtspTypeOK'
  BY DEF RtspPrepareFailed, OutsideRtsp, TypeOK, RtspTypeOK, Commands, Resources, AudioRes
<1>3. TypeOK'
  BY <1>1, <1>2 DEF RtspPrepareFailed, OutsideRtsp, mainVars, workerVars, TypeOK, Places, MaxLaunch,
                    MaxRtsp, MaxConnect, Bodies
<1>4. (Targeted /\ PairingPhases /\ PairingEarned)'
  BY DEF RtspPrepareFailed, OutsideRtsp, workerVars, TypeOK, PairTypeOK, Targeted, PairingPhases,
         PairingEarned
<1>5. Held'
  BY DEF RtspPrepareFailed, OutsideRtsp, TypeOK, RtspTypeOK, Resources, AudioRes, Held, BeforeRtsp
<1>6. (NothingStale /\ SessionKeyAgreed /\ NoCancelMeanwhile)'
  BY DEF RtspPrepareFailed, OutsideRtsp, mainVars, workerVars, TypeOK, HostTypeOK, NothingStale,
         SessionKeyAgreed, NoCancelMeanwhile
<1> QED BY <1>3, <1>4, <1>5, <1>6

\* rtsp_fail keeps the invariant: at most the audio socket of a failed SETUP stays.
LEMMA RtspCleanupKeeps ==
  ASSUME IInv, RtspCleanup, UNCHANGED <<mainVars, workerVars>>
  PROVE  IInv'
<1> USE DEF IInv, Safe
<1>1. HostTypeOK' /\ PairTypeOK'
  BY DEF RtspCleanup, OutsideRtsp, TypeOK, HostTypeOK, PairTypeOK, HostRecords, Sessions, Pins, ThreadSteps
<1>2. RtspTypeOK'
  BY DEF RtspCleanup, OutsideRtsp, TypeOK, RtspTypeOK, Commands, Resources, AudioRes
<1>3. TypeOK'
  BY <1>1, <1>2 DEF RtspCleanup, OutsideRtsp, mainVars, workerVars, TypeOK, Places, MaxLaunch, MaxRtsp,
                    MaxConnect, Bodies
<1>4. (Targeted /\ PairingPhases /\ PairingEarned)'
  BY DEF RtspCleanup, OutsideRtsp, workerVars, TypeOK, PairTypeOK, Targeted, PairingPhases, PairingEarned
<1>5. Held'
  BY DEF RtspCleanup, OutsideRtsp, TypeOK, RtspTypeOK, Resources, AudioRes, Held, BeforeRtsp
<1>6. (NothingStale /\ SessionKeyAgreed /\ NoCancelMeanwhile)'
  BY DEF RtspCleanup, OutsideRtsp, mainVars, workerVars, TypeOK, HostTypeOK, NothingStale,
         SessionKeyAgreed, NoCancelMeanwhile
<1> QED BY <1>3, <1>4, <1>5, <1>6

-----------------------------------------------------------------------------
(***************************************************************************)
(* The actions with a request.                                             *)
(***************************************************************************)
\* The check of a cached pairing keeps the invariant: a refusal clears the flag before pairing starts.
LEMMA VerifyPairingKeeps ==
  ASSUME IInv, VerifyPairing
  PROVE  IInv'
<1> USE DEF IInv, Safe
<1>1. target \in Hosts /\ HostTypeOK /\ "serverinfo" \in Requests /\ 0 \in Sessions
  BY DEF VerifyPairing, Targeted, TypeOK, Requests, Sessions, NoSession
<1>2. PICK o \in HttpsOutcomes(target, target, "serverinfo", 0) :
        /\ https_launch_get(target, target, "serverinfo", 0, o)
        /\ LET denied == o.ret = 0 /\ o.body = "denied"
           IN  /\ is_paired' = ~denied
               /\ last_paired' = IF denied THEN NoHost ELSE last_paired
               /\ pc' = IF denied THEN "pair"
                        ELSE IF o.ret = 0 /\ StatusCode(o.body) = 200 THEN "grid" ELSE "fatal"
  BY DEF VerifyPairing
<1>3. HostTypeOK' /\ host' = host
  BY <1>1, <1>2, Requested
<1>4. /\ last_paired' \in {last_paired, NoHost} /\ pc' \in {"pair", "grid", "fatal"} /\ pc = "verify"
      /\ pc' = "pair" => ~is_paired'
      /\ is_paired' \in BOOLEAN
      /\ UNCHANGED <<target, saved, thread, cancel, ever, rtspVars, mainVars, workerVars>>
  BY <1>2 DEF VerifyPairing
<1>5. PairTypeOK' /\ RtspTypeOK'
  BY <1>4 DEF TypeOK, PairTypeOK, RtspTypeOK, rtspVars
<1>6. TypeOK'
  BY <1>3, <1>4, <1>5 DEF TypeOK, mainVars, workerVars, Places
<1>7. (Targeted /\ PairingPhases /\ PairingEarned)'
  BY <1>1, <1>4 DEF Targeted, PairingPhases, PairingEarned, workerVars
<1>8. Held'
  BY <1>4 DEF Held, BeforeRtsp, rtspVars
<1>9. (NothingStale /\ SessionKeyAgreed /\ NoCancelMeanwhile)'
  BY <1>4 DEF NothingStale, SessionKeyAgreed, NoCancelMeanwhile, mainVars, workerVars
<1> QED BY <1>6, <1>7, <1>8, <1>9

\* The serverinfo request of a launch keeps the invariant: it leaves no session in the buffer.
LEMMA ServerInfoKeeps ==
  ASSUME IInv, ServerInfo
  PROVE  IInv'
<1> USE DEF IInv, Safe
<1>1. /\ target \in Hosts /\ HostTypeOK /\ "serverinfo" \in Requests /\ 0 \in Sessions
      /\ PairTypeOK /\ RtspTypeOK /\ pc = "info"
  BY DEF ServerInfo, Targeted, TypeOK, Requests, Sessions, NoSession
<1>2. PICK o \in HttpsOutcomes(target, target, "serverinfo", 0) :
        /\ https_launch_get(target, target, "serverinfo", 0, o)
        /\ IF o.ret = 0 /\ StatusCode(o.body) = 200
           THEN InfoKnown(o.body)
           ELSE /\ IF try = 1 THEN try' = 2 /\ UNCHANGED pc ELSE pc' = "infohttp" /\ try' = 1
                /\ resp' = IF o.body = "keep" THEN "none" ELSE o.body
                /\ UNCHANGED <<ri_key, drawing, launch_try>>
  BY DEF ServerInfo
<1>3. HostTypeOK' /\ host' = host /\ o.body \in Bodies \cup {"keep"} /\ o.body # "session"
  BY <1>1, <1>2, Requested DEF Requests
<1>4. FreshKey \in 0 .. MaxKey
  BY <1>1, FreshKeyType, HostAssumption
<1>5. /\ pc' \in {"info", "infohttp", "prompt", "launch"} /\ resp' \in Bodies \ {"session"} /\ try' \in 1 .. 2
      /\ ri_key' \in {ri_key, FreshKey} /\ drawing' \in BOOLEAN /\ launch_try' = launch_try
  <2>1. CASE o.ret = 0 /\ StatusCode(o.body) = 200
    <3>1. InfoKnown(o.body) /\ o.body # "keep"
      BY <1>2, <2>1 DEF StatusCode
    <3>2. drawing' \in BOOLEAN
      BY <3>1 DEF InfoKnown
    <3> QED BY <1>3, <3>1, <3>2 DEF InfoKnown
  <2>2. CASE ~(o.ret = 0 /\ StatusCode(o.body) = 200)
    <3>1. /\ IF try = 1 THEN try' = 2 /\ UNCHANGED pc ELSE pc' = "infohttp" /\ try' = 1
          /\ resp' = IF o.body = "keep" THEN "none" ELSE o.body
          /\ UNCHANGED <<ri_key, drawing, launch_try>>
      BY <1>2, <2>2
    <3>2. drawing' \in BOOLEAN
      BY <3>1 DEF TypeOK
    <3> QED BY <1>1, <1>3, <3>1, <3>2 DEF Bodies
  <2> QED BY <2>1, <2>2
<1>6. UNCHANGED <<OutsideLaunch, since, is_paired, rtsp_try, retry_host>>
  BY DEF ServerInfo
<1>7. PairTypeOK' /\ RtspTypeOK'
  BY <1>1, <1>4, <1>5, <1>6 DEF OutsideLaunch, PairTypeOK, RtspTypeOK
<1>8. TypeOK'
  BY <1>3, <1>5, <1>6, <1>7 DEF OutsideLaunch, TypeOK, Places
<1>9. (Targeted /\ PairingPhases /\ PairingEarned)'
  BY <1>1, <1>5, <1>6 DEF OutsideLaunch, Targeted, PairingPhases, PairingEarned
<1>10. Held'
  BY <1>1, <1>5, <1>6 DEF OutsideLaunch, Held, BeforeRtsp
<1>11. (NothingStale /\ SessionKeyAgreed /\ NoCancelMeanwhile)'
  BY <1>1, <1>5, <1>6 DEF OutsideLaunch, NothingStale, SessionKeyAgreed, NoCancelMeanwhile
<1> QED BY <1>8, <1>9, <1>10, <1>11

\* A resume keeps the invariant, answered, lost or sent twice: RTSP is entered only with the answer to it.
LEMMA ResumeKeeps ==
  ASSUME IInv, Resume
  PROVE  IInv'
<1> USE DEF IInv, Safe
<1>1. /\ target \in Hosts /\ HostTypeOK /\ "resume" \in Requests /\ ri_key \in Sessions
      /\ PairTypeOK /\ RtspTypeOK /\ pc = "resume" /\ worker \in {"none", "gone"} /\ resp # "session" /\ res = {}
  BY DEF Resume, Targeted, TypeOK, RtspTypeOK, Requests, Sessions, NoSession, NothingStale,
         NoCancelMeanwhile, Held, BeforeRtsp
<1>2. PICK o \in HttpsOutcomes(target, target, "resume", ri_key) :
        /\ https_launch_get(target, target, "resume", ri_key, o)
        /\ NoteLaunch(o.body)
        /\ resp' = IF o.body = "keep" THEN resp ELSE o.body
        /\ \/ /\ Retried(o)
              /\ try' = 2
              /\ UNCHANGED <<pc, drawing, launch_try, rtsp_try>>
           \/ /\ ~Retried(o)
              /\ IF o.ret = 0 /\ StatusCode(resp') = 200
                 THEN EnterRtsp(resp')
                 ELSE pc' = "quit" /\ try' = 1 /\ UNCHANGED <<drawing, launch_try, rtsp_try>>
  BY DEF Resume
<1>3. /\ HostTypeOK' /\ host'[target] = o.hr /\ o.body \in Bodies \cup {"keep"} /\ o.ret \in {-1, 0}
      /\ o.ret = -1 => o.body = "keep"
      /\ o.body = "session" => o.hr.session = ri_key
  BY <1>1, <1>2, Requested
<1>4. resp' \in Bodies /\ (resp' = "session" => o.ret = 0 /\ host'[target].session = ri_key)
  BY <1>1, <1>2, <1>3 DEF TypeOK
<1>5. /\ pc' \in {"resume", "rtsp0", "info", "failed", "quit"} /\ try' \in 1 .. 2
      /\ launch_try' \in 1 .. MaxLaunch /\ rtsp_try' \in 1 .. MaxRtsp
      /\ pc' = "rtsp0" => resp' = "session"
      /\ pc' \in {"resume", "quit"} => resp' # "session"
  <2>1. CASE Retried(o)
    <3>1. try' = 2 /\ UNCHANGED <<pc, launch_try, rtsp_try>> /\ o.ret = -1
      BY <1>2, <1>3, <2>1 DEF Retried
    <3> QED BY <1>1, <1>4, <3>1 DEF TypeOK
  <2>2. CASE ~Retried(o) /\ o.ret = 0 /\ StatusCode(resp') = 200
    <3>1. EnterRtsp(resp')
      BY <1>2, <2>2
    <3> QED BY <1>1, <3>1 DEF EnterRtsp, LaunchFailed, TypeOK, RtspTypeOK, MaxRtsp, MaxLaunch
  <2>3. CASE ~Retried(o) /\ ~(o.ret = 0 /\ StatusCode(resp') = 200)
    <3>1. pc' = "quit" /\ try' = 1 /\ UNCHANGED <<launch_try, rtsp_try>>
      BY <1>2, <2>3
    <3>2. resp' # "session"
      BY <1>4, <2>3 DEF StatusCode
    <3> QED BY <3>1, <3>2 DEF TypeOK
  <2> QED BY <2>1, <2>2, <2>3
<1>6. drawing' \in BOOLEAN
  <2>1. drawing' = drawing \/ drawing' = TRUE \/ drawing' = FALSE
    BY <1>2 DEF EnterRtsp, LaunchFailed
  <2> QED BY <2>1 DEF TypeOK
<1>7. UNCHANGED <<OutsideLaunch, is_paired, ri_key, retry_host>> /\ UNCHANGED since
  BY <1>1, <1>2 DEF Resume, NoteLaunch
<1>8. PairTypeOK' /\ RtspTypeOK'
  BY <1>1, <1>5, <1>7 DEF OutsideLaunch, PairTypeOK, RtspTypeOK
<1>9. TypeOK'
  BY <1>3, <1>4, <1>5, <1>6, <1>7, <1>8 DEF OutsideLaunch, TypeOK, Places
<1>10. (Targeted /\ PairingPhases /\ PairingEarned)'
  BY <1>1, <1>5, <1>7 DEF OutsideLaunch, Targeted, PairingPhases, PairingEarned
<1>11. Held'
  BY <1>1, <1>5, <1>7 DEF OutsideLaunch, Held, BeforeRtsp
<1>12. (NothingStale /\ SessionKeyAgreed /\ NoCancelMeanwhile)'
  BY <1>1, <1>4, <1>5, <1>7 DEF OutsideLaunch, NothingStale, SessionKeyAgreed, NoCancelMeanwhile
<1> QED BY <1>9, <1>10, <1>11, <1>12

\* A launch keeps the invariant in the same way; a 401 forgets the pairing.
LEMMA LaunchKeeps ==
  ASSUME IInv, Launch
  PROVE  IInv'
<1> USE DEF IInv, Safe
<1>1. /\ target \in Hosts /\ HostTypeOK /\ "launch" \in Requests /\ ri_key \in Sessions
      /\ PairTypeOK /\ RtspTypeOK /\ pc = "launch" /\ worker \in {"none", "gone"} /\ resp # "session" /\ res = {}
      /\ thread = "none"
  BY DEF Launch, Targeted, TypeOK, RtspTypeOK, Requests, Sessions, NoSession, NothingStale,
         NoCancelMeanwhile, Held,
         BeforeRtsp, PairingPhases
<1>2. PICK o \in HttpsOutcomes(target, target, "launch", ri_key) :
        /\ https_launch_get(target, target, "launch", ri_key, o)
        /\ NoteLaunch(o.body)
        /\ resp' = IF o.body = "keep" THEN resp ELSE o.body
        /\ \/ /\ Retried(o)
              /\ try' = 2
              /\ UNCHANGED <<pc, drawing, launch_try, rtsp_try, is_paired, last_paired, saved, retry_host>>
           \/ /\ ~Retried(o)
              /\ o.ret = 0 /\ resp' = "denied"
              /\ is_paired' = FALSE /\ last_paired' = NoHost
              /\ saved' = saved \ {target}
              /\ retry_host' = NoHost
              /\ pc' = "fatal" /\ drawing' = FALSE
              /\ UNCHANGED <<try, launch_try, rtsp_try>>
           \/ /\ ~Retried(o)
              /\ ~(o.ret = 0 /\ resp' = "denied")
              /\ IF o.ret = 0 /\ StatusCode(resp') = 200
                 THEN EnterRtsp(resp')
                 ELSE LaunchFailed /\ UNCHANGED rtsp_try
              /\ UNCHANGED <<is_paired, last_paired, saved, retry_host>>
  BY DEF Launch
<1>3. /\ HostTypeOK' /\ host'[target] = o.hr /\ o.body \in Bodies \cup {"keep"} /\ o.ret \in {-1, 0}
      /\ o.ret = -1 => o.body = "keep"
      /\ o.body = "session" => o.hr.session = ri_key
  BY <1>1, <1>2, Requested
<1>4. resp' \in Bodies /\ (resp' = "session" => o.ret = 0 /\ host'[target].session = ri_key)
  BY <1>1, <1>2, <1>3 DEF TypeOK
<1>5. /\ pc' \in {"launch", "rtsp0", "info", "failed", "fatal"} /\ try' \in 1 .. 2
      /\ launch_try' \in 1 .. MaxLaunch /\ rtsp_try' \in 1 .. MaxRtsp
      /\ pc' = "rtsp0" => resp' = "session"
      /\ pc' = "launch" => resp' # "session"
      /\ saved' \subseteq saved /\ last_paired' \in {last_paired, NoHost} /\ retry_host' \in {retry_host, NoHost}
  <2>1. CASE Retried(o)
    <3>1. try' = 2 /\ UNCHANGED <<pc, launch_try, rtsp_try, last_paired, saved, retry_host>> /\ o.ret = -1
      BY <1>2, <1>3, <2>1 DEF Retried
    <3> QED BY <1>1, <1>4, <3>1 DEF TypeOK
  <2>2. CASE ~Retried(o) /\ o.ret = 0 /\ resp' = "denied"
    <3>1. /\ saved' = saved \ {target} /\ last_paired' = NoHost /\ retry_host' = NoHost /\ pc' = "fatal"
          /\ UNCHANGED <<try, launch_try, rtsp_try>>
      BY <1>2, <2>2
    <3> QED BY <1>1, <3>1 DEF TypeOK, RtspTypeOK
  <2>3. CASE ~Retried(o) /\ ~(o.ret = 0 /\ resp' = "denied")
    <3>1. /\ EnterRtsp(resp') \/ (LaunchFailed /\ UNCHANGED rtsp_try)
          /\ UNCHANGED <<last_paired, saved, retry_host>>
      BY <1>2, <2>3
    <3>2. CASE EnterRtsp(resp')
      BY <1>1, <3>1, <3>2 DEF EnterRtsp, LaunchFailed, TypeOK, RtspTypeOK, MaxRtsp, MaxLaunch
    <3>3. CASE LaunchFailed /\ UNCHANGED rtsp_try
      BY <1>1, <3>1, <3>3 DEF LaunchFailed, TypeOK, RtspTypeOK, MaxRtsp, MaxLaunch
    <3> QED BY <3>1, <3>2, <3>3
  <2> QED BY <2>1, <2>2, <2>3
<1>6. drawing' \in BOOLEAN /\ is_paired' \in BOOLEAN
  <2>1. drawing' = drawing \/ drawing' = TRUE \/ drawing' = FALSE
    BY <1>2 DEF EnterRtsp, LaunchFailed
  <2>2. is_paired' = is_paired \/ is_paired' = FALSE
    BY <1>2
  <2> QED BY <1>1, <2>1, <2>2 DEF TypeOK, PairTypeOK
<1>7. UNCHANGED <<target, thread, cancel, ever, cmd, res, audio_ok, video_port, session_id,
                  connect_try, worker, worker_addr, ri_key, since>>
  BY <1>1, <1>2 DEF Launch, NoteLaunch
<1>8. PairTypeOK' /\ RtspTypeOK'
  BY <1>1, <1>5, <1>6, <1>7 DEF PairTypeOK, RtspTypeOK
<1>9. TypeOK'
  BY <1>3, <1>4, <1>5, <1>6, <1>7, <1>8 DEF TypeOK, Places
<1>10. (Targeted /\ PairingPhases /\ PairingEarned)'
  BY <1>1, <1>5, <1>7 DEF Targeted, PairingPhases, PairingEarned
<1>11. Held'
  BY <1>1, <1>5, <1>7 DEF Held, BeforeRtsp
<1>12. (NothingStale /\ SessionKeyAgreed /\ NoCancelMeanwhile)'
  BY <1>1, <1>4, <1>5, <1>7 DEF NothingStale, SessionKeyAgreed, NoCancelMeanwhile
<1> QED BY <1>9, <1>10, <1>11, <1>12

\* The /cancel of a running session keeps the invariant.
LEMMA QuitRunningKeeps ==
  ASSUME IInv, QuitRunning
  PROVE  IInv'
<1> USE DEF IInv, Safe
<1>1. target \in Hosts /\ HostTypeOK /\ "cancel" \in Requests /\ 0 \in Sessions
  BY DEF QuitRunning, Targeted, TypeOK, Requests, Sessions, NoSession
<1>2. PICK o : https_launch_get(target, target, "cancel", 0, o)
  BY DEF QuitRunning
<1>3. HostTypeOK'
  BY <1>1, <1>2, Requested
<1>4. /\ pc = "quit" /\ pc' = "launch" /\ try' = 1
      /\ UNCHANGED <<OutsideLaunch, since, is_paired, ri_key, resp, launch_try, drawing, rtsp_try, retry_host>>
  BY DEF QuitRunning
<1>5. PairTypeOK' /\ RtspTypeOK'
  BY <1>4 DEF OutsideLaunch, TypeOK, PairTypeOK, RtspTypeOK
<1>6. TypeOK'
  BY <1>3, <1>4, <1>5 DEF OutsideLaunch, TypeOK, Places
<1>7. (Targeted /\ PairingPhases /\ PairingEarned)'
  BY <1>1, <1>4 DEF OutsideLaunch, Targeted, PairingPhases, PairingEarned
<1>8. Held'
  BY <1>4 DEF OutsideLaunch, Held, BeforeRtsp
<1>9. (NothingStale /\ SessionKeyAgreed /\ NoCancelMeanwhile)'
  BY <1>4 DEF OutsideLaunch, NothingStale, SessionKeyAgreed, NoCancelMeanwhile
<1> QED BY <1>6, <1>7, <1>8, <1>9

\* The /cancel after a failed handshake keeps the invariant.
LEMMA RtspCancelKeeps ==
  ASSUME IInv, RtspCancel
  PROVE  IInv'
<1> USE DEF IInv, Safe
<1>1. target \in Hosts /\ HostTypeOK /\ "cancel" \in Requests /\ 0 \in Sessions
  BY DEF RtspCancel, Targeted, TypeOK, Requests, Sessions, NoSession
<1>2. PICK o : https_launch_get(target, target, "cancel", 0, o)
  BY DEF RtspCancel
<1>3. HostTypeOK'
  BY <1>1, <1>2, Requested
<1>4. /\ pc = "rtspcancel" /\ pc' = "failed" /\ drawing' = FALSE
      /\ UNCHANGED <<target, pairVars, rtspVars, launch_try, rtsp_try, connect_try, resp, retry_host, workerVars>>
  BY DEF RtspCancel
<1>5. PairTypeOK' /\ RtspTypeOK'
  BY <1>4 DEF pairVars, rtspVars, TypeOK, PairTypeOK, RtspTypeOK
<1>6. TypeOK'
  BY <1>3, <1>4, <1>5 DEF workerVars, TypeOK, Places
<1>7. (Targeted /\ PairingPhases /\ PairingEarned)'
  BY <1>1, <1>4 DEF pairVars, workerVars, Targeted, PairingPhases, PairingEarned
<1>8. Held'
  BY <1>4 DEF rtspVars, Held, BeforeRtsp
<1>9. (NothingStale /\ SessionKeyAgreed /\ NoCancelMeanwhile)'
  BY <1>4 DEF workerVars, NothingStale, SessionKeyAgreed, NoCancelMeanwhile
<1> QED BY <1>6, <1>7, <1>8, <1>9

\* Step 5 of the pairing worker keeps the invariant.
LEMMA ThreadConfirmKeeps ==
  ASSUME IInv, ThreadConfirm, UNCHANGED <<rtspVars, mainVars, workerVars>>
  PROVE  IInv'
<1> USE DEF IInv, Safe
<1>1. /\ target \in Hosts /\ HostTypeOK /\ "pairchallenge" \in Requests /\ 0 \in Sessions
      /\ pc \in {"pin", "stopped", "joined"}
  BY DEF ThreadConfirm, PairingPhases, Targeted, TypeOK, Requests, Sessions, NoSession
<1>2. PICK o : https_launch_get(target, target, "pairchallenge", 0, o)
  BY DEF ThreadConfirm
<1>3. HostTypeOK'
  BY <1>1, <1>2, Requested
<1>4. thread = "s5" /\ thread' = "done" /\ UNCHANGED <<target, pc, is_paired, last_paired, saved, cancel, ever>>
  BY DEF ThreadConfirm
<1>5. PairTypeOK' /\ RtspTypeOK'
  BY <1>4 DEF rtspVars, TypeOK, PairTypeOK, RtspTypeOK, ThreadSteps
<1>6. TypeOK'
  BY <1>3, <1>4, <1>5 DEF mainVars, workerVars, TypeOK, Places
<1>7. (Targeted /\ PairingPhases /\ PairingEarned)'
  BY <1>1, <1>4 DEF workerVars, Targeted, PairingPhases, PairingEarned
<1>8. Held'
  BY <1>4 DEF rtspVars, Held, BeforeRtsp
<1>9. (NothingStale /\ SessionKeyAgreed /\ NoCancelMeanwhile)'
  BY <1>1, <1>4 DEF mainVars, workerVars, NothingStale, SessionKeyAgreed, NoCancelMeanwhile
<1> QED BY <1>6, <1>7, <1>8, <1>9

\* The /cancel of the worker keeps the invariant: nothing is launched or running beside it.
LEMMA WorkerSendKeeps ==
  ASSUME IInv, WorkerSend
  PROVE  IInv'
<1> USE DEF IInv, Safe
<1>1. /\ target \in Hosts /\ worker_addr \in Hosts /\ HostTypeOK /\ "cancel" \in Requests /\ 0 \in Sessions
      /\ pc \in {"menu", "wait", "failed", "fatal", "teardown"}
  BY DEF WorkerSend, Targeted, NoCancelMeanwhile, TypeOK, Requests, Sessions, NoSession
<1>2. PICK o : https_launch_get(worker_addr, target, "cancel", 0, o)
  BY DEF WorkerSend
<1>3. HostTypeOK'
  BY <1>1, <1>2, Requested
<1>4. /\ worker = "handshake" /\ worker' = "gone" /\ worker_addr' = NoHost /\ since' = {}
      /\ UNCHANGED <<target, pc, pairVars, rtspVars, mainVars>>
  BY DEF WorkerSend
<1>5. PairTypeOK' /\ RtspTypeOK'
  BY <1>4 DEF pairVars, rtspVars, TypeOK, PairTypeOK, RtspTypeOK
<1>6. TypeOK'
  BY <1>3, <1>4, <1>5 DEF mainVars, TypeOK
<1>7. (Targeted /\ PairingPhases /\ PairingEarned)'
  BY <1>1, <1>4 DEF pairVars, Targeted, PairingPhases, PairingEarned
<1>8. Held'
  BY <1>4 DEF rtspVars, Held, BeforeRtsp
<1>9. (NothingStale /\ SessionKeyAgreed /\ NoCancelMeanwhile)'
  BY <1>1, <1>4 DEF mainVars, NothingStale, SessionKeyAgreed, NoCancelMeanwhile
<1> QED BY <1>6, <1>7, <1>8, <1>9

-----------------------------------------------------------------------------
(***************************************************************************)
(* The invariant and the theorems.                                         *)
(***************************************************************************)
\* Every step keeps the invariant.
LEMMA Step == IInv /\ [Next]_vars => IInv'
<1> SUFFICES ASSUME IInv, [Next]_vars PROVE IInv'
  OBVIOUS
<1>1. ASSUME NEW h \in Hosts, NEW probed \in BOOLEAN, SelectHost(h, probed) PROVE IInv'
  BY <1>1, SelectHostKeeps
<1>2. CASE MainStep
  <2>1. CASE Rtsp
    <3>1. UNCHANGED <<mainVars, workerVars>> /\ RtspStep
      BY <2>1 DEF Rtsp
    <3>2. CASE RtspEnter
      BY <3>1, <3>2, RtspEnterKeeps
    <3>3. CASE RtspOk
      BY <3>1, <3>3, RtspOkKeeps
    <3>4. CASE RtspFailed
      BY <3>1, <3>4, RtspFailedKeeps
    <3>5. CASE RtspUnreachable
      BY <3>1, <3>5, RtspUnreachableKeeps
    <3>6. CASE RtspPrepareFailed
      BY <3>1, <3>6, RtspPrepareFailedKeeps
    <3>7. CASE RtspCleanup
      BY <3>1, <3>7, RtspCleanupKeeps
    <3> QED BY <3>1, <3>2, <3>3, <3>4, <3>5, <3>6, <3>7 DEF RtspStep
  <2>2. CASE AwaitOldCancel
    BY <2>2, AwaitOldCancelKeeps
  <2>3. CASE VerifyPairing
    BY <2>3, VerifyPairingKeeps
  <2>4. CASE ChooseApp
    BY <2>4, ChooseAppKeeps
  <2>5. CASE ServerInfo
    BY <2>5, ServerInfoKeeps
  <2>6. CASE ServerInfoPlain
    BY <2>6, ServerInfoPlainKeeps
  <2>7. CASE Prompt
    BY <2>7, PromptKeeps
  <2>8. CASE Resume
    BY <2>8, ResumeKeeps
  <2>9. CASE QuitRunning
    BY <2>9, QuitRunningKeeps
  <2>10. CASE Launch
    BY <2>10, LaunchKeeps
  <2>11. CASE RtspRetry
    BY <2>11, RtspRetryKeeps
  <2>12. CASE RtspCancel
    BY <2>12, RtspCancelKeeps
  <2>13. CASE ConnectFailed
    BY <2>13, ConnectFailedKeeps
  <2>14. CASE Connected
    BY <2>14, ConnectedKeeps
  <2>15. CASE StartStream
    BY <2>15, StartStreamKeeps
  <2>16. CASE Teardown
    BY <2>16, TeardownKeeps
  <2>17. CASE TeardownWait
    BY <2>17, TeardownWaitKeeps
  <2> QED BY <1>2, <2>1, <2>2, <2>3, <2>4, <2>5, <2>6, <2>7, <2>8, <2>9, <2>10, <2>11, <2>12, <2>13, <2>14,
             <2>15,
             <2>16, <2>17 DEF MainStep
<1>3. CASE Pair
  <2>1. (ThreadStep \/ PairMain) /\ UNCHANGED <<rtspVars, mainVars, workerVars>>
    BY <1>3 DEF Pair
  <2>2. CASE ThreadStep
    <3>1. CASE ThreadChallenge
      BY <2>1, <3>1, ThreadChallengeKeeps
    <3>2. CASE ThreadSecret
      BY <2>1, <3>2, ThreadSecretKeeps
    <3>3. CASE ThreadMark
      BY <2>1, <3>3, ThreadMarkKeeps
    <3>4. CASE ThreadPersist
      BY <2>1, <3>4, ThreadPersistKeeps
    <3>5. CASE ThreadConfirm
      BY <2>1, <3>5, ThreadConfirmKeeps
    <3>6. CASE ThreadUnpair
      BY <2>1, <3>6, ThreadUnpairKeeps
    <3> QED BY <2>2, <3>1, <3>2, <3>3, <3>4, <3>5, <3>6 DEF ThreadStep
  <2>3. CASE PairMain
    <3>1. CASE PairStart
      BY <2>1, <3>1, PairStartKeeps
    <3>2. CASE PinScreen
      BY <2>1, <3>2, PinScreenKeeps
    <3>3. CASE PairStopped
      BY <2>1, <3>3, PairStoppedKeeps
    <3>4. CASE PairJoin
      BY <2>1, <3>4, PairJoinKeeps
    <3> QED BY <2>3, <3>1, <3>2, <3>3, <3>4 DEF PairMain
  <2> QED BY <2>1, <2>2, <2>3
<1>4. CASE EndStream
  BY <1>4, EndStreamKeeps
<1>5. CASE Worker
  BY <1>5, WorkerConnectKeeps, WorkerSendKeeps DEF Worker
<1>6. CASE Environment
  BY <1>6, EnvironmentKeeps
<1>7. CASE UNCHANGED vars
  <2>1. UNCHANGED <<hostVars, target, pc, pairVars, rtspVars, mainVars, workerVars>>
    BY <1>7 DEF vars
  <2>2. TypeOK'
    BY <2>1 DEF IInv, TypeOK, HostTypeOK, PairTypeOK, RtspTypeOK, hostVars, pairVars, rtspVars, mainVars,
                workerVars
  <2>3. Safe'
    BY <2>1 DEF IInv, Safe, Targeted, PairingPhases, PairingEarned, Held, NothingStale, SessionKeyAgreed,
                NoCancelMeanwhile, hostVars, pairVars, rtspVars, mainVars, workerVars
  <2> QED BY <2>2, <2>3 DEF IInv
<1> QED BY <1>1, <1>2, <1>3, <1>4, <1>5, <1>6, <1>7 DEF Next

\* The inductive invariant of a connection (network_connect_all, the pairing worker, rtsp_session,
\* cancel_thread_func): the parts above hold in every reachable state, whatever request is lost.
THEOREM ConnectInvariant == Spec => []IInv
  BY InitInv, Step, PTL DEF Spec

\* Every variable of the connection stays within its type, in particular the keys within 1..MaxKey.
THEOREM ConnectTypes == Spec => []TypeOK
<1>1. IInv => TypeOK
  BY DEF IInv
<1> QED BY <1>1, ConnectInvariant, PTL

\* The handshake only runs on a session that has the key the client encrypts with
\* (sunshine_launch_session, Step E), for any number of hosts, keys and failures.
THEOREM KeysAgree == Spec => []SessionKeyAgreed
<1>1. IInv => SessionKeyAgreed
  BY DEF IInv, Safe
<1> QED BY <1>1, ConnectInvariant, PTL

\* Nothing of a failed or ended stream survives to the host list or to the next attempt
\* (rtsp_fail, the clean-up in main, abort_stream_to_menu).
THEOREM ResourcesAreReleased == Spec => []StreamResourcesReleased
<1>1. IInv => StreamResourcesReleased
  BY DEF IInv, Safe, Held, BeforeRtsp, PairingPhases, StreamResourcesReleased
<1> QED BY <1>1, ConnectInvariant, PTL

\* Only hosts that registered the certificate are remembered as paired, also when the pairing
\* worker is terminated between its two writes (pairing_thread_func, pairing_pin_ui_run).
THEOREM PairingIsEarned == Spec => []PairingEarned
<1>1. IInv => PairingEarned
  BY DEF IInv, Safe
<1> QED BY <1>1, ConnectInvariant, PTL

\* The /cancel of an ended stream never ends a session launched after it was started: no launch is
\* answered while the worker exists (network_wait_for_cancel_thread, cancel_thread_func).
THEOREM OldCancelIsHarmless == Spec => OldCancelSparesNewSession
<1>1. IInv /\ [Next]_vars => [\A h \in Hosts :
          worker = "handshake" /\ worker' = "gone"
             /\ host[h].session # NoSession /\ host'[h].session = NoSession
          => h \notin since]_vars
  BY DEF IInv, Safe, NoCancelMeanwhile
<1> QED BY <1>1, ConnectInvariant, PTL DEF Spec, OldCancelSparesNewSession
=============================================================================
