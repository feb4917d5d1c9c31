--------------------------- MODULE ClientIdentity ---------------------------
(***************************************************************************)
(* client_identity_ensure: the certificate, the private key and the unique *)
(* id by which hosts know this client.  They are made once, written to     *)
(* three files in this order, and read back at every start.  Power may     *)
(* fail at any moment, and a write may fail.  Contents are numbered by the *)
(* run of generate_cert_and_key that made them.                            *)
(***************************************************************************)
EXTENDS Integers

CONSTANT MaxRuns    \* bound: runs of generate_cert_and_key in one behaviour

ASSUME IdentityAssumption == MaxRuns \in Nat

VARIABLES
    iStep,          \* off, cert, key, uid, load, ready, or halted (main stops)
    iCert, iKey, iUid,      \* the files
    s_uid,          \* the id in memory
    iRuns,
    iFirst,         \* history: certificate, key and id of the first start that was ready
    iUidLost        \* history: the id could not be written once

identityVars == <<iStep, iCert, iKey, iUid, s_uid, iRuns, iFirst, iUidLost>>
fileVars == <<iCert, iKey, iUid>>

Missing == -1
Truncated == -2         \* the file exists and is empty
LEGACY_UID_VALUE == 0   \* the fixed id of old versions
NotReady == <<Missing, Missing, Missing>>

IdentityInit ==
    /\ iStep = "off" /\ iCert = Missing /\ iKey = Missing /\ iUid = Missing
    /\ s_uid = Missing /\ iRuns = 0 /\ iFirst = NotReady /\ iUidLost = FALSE

ValidUid == iUid \notin {Missing, Truncated}

(* Both files exist: only the id may be missing, and becomes the old one.  *)
BootWithFiles ==
    /\ iStep = "off" /\ Missing \notin {iCert, iKey}
    /\ IF ValidUid
       THEN s_uid' = iUid /\ UNCHANGED <<iUid, iUidLost>>
       ELSE /\ s_uid' = LEGACY_UID_VALUE
            /\ iUid' \in {LEGACY_UID_VALUE, iUid}
            /\ iUidLost' = (iUidLost \/ iUid' # LEGACY_UID_VALUE)
    /\ iStep' = "load"
    /\ UNCHANGED <<iCert, iKey, iRuns, iFirst>>

BootOnlyMissing ==
    /\ iStep = "off" /\ Missing \in {iCert, iKey} /\ iRuns < MaxRuns
    /\ iRuns' = iRuns + 1
    /\ s_uid' = IF ValidUid THEN iUid ELSE iRuns'
    /\ iStep' = IF iCert = Missing THEN "cert" ELSE "key"
    /\ UNCHANGED <<fileVars, iFirst, iUidLost>>

(* One is missing: both are made anew, for the id on file if there is one. *)
BootGenerates ==
    /\ iStep = "off" /\ Missing \in {iCert, iKey} /\ iRuns < MaxRuns
    /\ iRuns' = iRuns + 1
    /\ s_uid' = IF ValidUid THEN iUid ELSE iRuns'
    /\ iStep' = "cert"
    /\ UNCHANGED <<fileVars, iFirst, iUidLost>>

WriteCert ==
    /\ iStep = "cert"
    /\ iCert' = iRuns /\ iStep' = "key"
    /\ UNCHANGED <<iKey, iUid, s_uid, iRuns, iFirst, iUidLost>>

WriteKey ==
    /\ iStep = "key"
    /\ iKey' = iRuns /\ iStep' = "uid"
    /\ UNCHANGED <<iCert, iUid, s_uid, iRuns, iFirst, iUidLost>>

(* A file that cannot be opened or not be written halts the program.       *)
WriteFails ==
    /\ \/ iStep = "cert" /\ iCert' \in {iCert, Truncated} /\ UNCHANGED iKey
       \/ iStep = "key" /\ iKey' \in {iKey, Truncated} /\ UNCHANGED iCert
    /\ iStep' = "halted"
    /\ UNCHANGED <<iUid, s_uid, iRuns, iFirst, iUidLost>>

(* Whether the id was written is not looked at.                            *)
WriteUid(written) ==
    /\ iStep = "uid" /\ iStep' = "load"
    /\ iUid' \in IF written THEN {s_uid} ELSE {iUid, Truncated}
    /\ iUidLost' = (iUidLost \/ ~written)
    /\ UNCHANGED <<iCert, iKey, s_uid, iRuns, iFirst>>

(* An empty file is not an identity, and is not replaced either.           *)
Load ==
    /\ iStep = "load"
    /\ iStep' = IF Truncated \in {iCert, iKey} THEN "halted" ELSE "ready"
    /\ iFirst' = IF iStep' = "ready" /\ iFirst = NotReady THEN <<iCert, iKey, s_uid>> ELSE iFirst
    /\ UNCHANGED <<fileVars, s_uid, iRuns, iUidLost>>

(* The program ends or the power fails, while a file is written perhaps.   *)
EndOfPower ==
    /\ iStep # "off" /\ iStep' = "off" /\ s_uid' = Missing
    /\ iCert' \in {iCert} \cup IF iStep = "cert" THEN {Truncated} ELSE {}
    /\ iKey' \in {iKey} \cup IF iStep = "key" THEN {Truncated} ELSE {}
    /\ iUid' \in {iUid} \cup IF iStep = "uid" THEN {Truncated} ELSE {}
    /\ UNCHANGED <<iRuns, iFirst, iUidLost>>

(* The bound is reached (no step of the program).                          *)
NoMoreRuns == iStep = "off" /\ Missing \in {iCert, iKey} /\ iRuns = MaxRuns /\ UNCHANGED identityVars

IdentityNext ==
    \/ BootWithFiles \/ BootGenerates \/ WriteCert \/ WriteKey \/ WriteFails \/ Load \/ EndOfPower \/ NoMoreRuns
    \/ \E written \in BOOLEAN : WriteUid(written)

(***************************************************************************)
(* Properties                                                              *)
(***************************************************************************)
(* A client that is ready has a certificate and a key made together, and   *)
(* they are those of every earlier start, wherever the power failed; so is *)
(* the id unless it could not be written.  Hosts that paired with it once  *)
(* keep recognising it (client_identity_ensure, generate_cert_and_key).    *)
IdentityStable ==
    iStep = "ready" =>
        /\ iCert = iKey
        /\ iFirst[1] = iCert /\ iFirst[2] = iKey
        /\ iUidLost \/ iFirst[3] = s_uid
=============================================================================
