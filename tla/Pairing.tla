------------------------------ MODULE Pairing ------------------------------
(***************************************************************************)
(* Pairing with a host: the worker pairing_thread_func, the PIN screen the *)
(* main thread shows meanwhile, and the pairing state both write.          *)
(***************************************************************************)
EXTENDS SunshineHost

VARIABLES
    target,         \* g_sunshine_host
    pc,             \* where the main thread is
    is_paired,      \* g_is_paired
    last_paired,    \* g_last_paired_host
    saved,          \* hosts in the paired list of g_psp_config, as saved
    thread,         \* step of the pairing worker; "none" when it does not exist
    cancel,         \* PairingThreadArgs.cancel
    ever            \* history: hosts that have registered this client's certificate

pairVars == <<is_paired, last_paired, saved, thread, cancel, ever>>

ThreadSteps == {"none", "s1", "s2", "s3", "s4", "mark", "persist", "s5", "unpair", "done"}

PairTypeOK ==
    /\ target \in Hosts \cup {NoHost}
    /\ is_paired \in BOOLEAN
    /\ last_paired \in Hosts \cup {NoHost}
    /\ saved \subseteq Hosts
    /\ thread \in ThreadSteps
    /\ cancel \in BOOLEAN
    /\ ever \subseteq Hosts

NextStepSkipsSecret(s) == CASE s = "s1" -> "s2" [] s = "s2" -> "s3" [] s = "s3" -> "mark"

(* Steps 1 to 3 change nothing the client can see: the exchange succeeds,  *)
(* or fails or is rejected (a wrong PIN) and the worker cleans up.  Every  *)
(* step first looks at cancel.                                             *)
NextStep(s) == CASE s = "s1" -> "s2" [] s = "s2" -> "s3" [] s = "s3" -> "s4"

ThreadChallenge ==
    /\ thread \in {"s1", "s2", "s3"}
    /\ \/ /\ ~cancel
          /\ thread' = NextStep(thread)
          /\ UNCHANGED faults
       \/ /\ ~cancel /\ faults < MaxFaults
          /\ faults' = faults + 1
          /\ thread' = "unpair"
       \/ /\ cancel
          /\ thread' = "unpair"
          /\ UNCHANGED faults
    /\ UNCHANGED <<host, pins, target, pc, is_paired, last_paired, saved, cancel, ever>>

(* Step 4: the host registers the certificate; its answer may be lost.     *)
ThreadSecret ==
    /\ thread = "s4"
    /\ \/ /\ cancel
          /\ thread' = "unpair"
          /\ UNCHANGED <<host, faults, ever>>
       \/ /\ ~cancel
          /\ host' = [host EXCEPT ![target].paired = TRUE]
          /\ ever' = ever \cup {target}
          /\ \/ thread' = "mark" /\ UNCHANGED faults
             \/ faults < MaxFaults /\ faults' = faults + 1 /\ thread' = "unpair"
       \/ /\ ~cancel /\ faults < MaxFaults
          /\ faults' = faults + 1
          /\ thread' = "unpair"
          /\ UNCHANGED <<host, ever>>
    /\ UNCHANGED <<pins, target, pc, is_paired, last_paired, saved, cancel>>

(* *(ta->is_paired) = 1 is visible to the PIN screen before the host name  *)
(* is copied and saved.                                                    *)
ThreadMark ==
    /\ thread = "mark"
    /\ is_paired' = TRUE
    /\ thread' = "persist"
    /\ UNCHANGED <<hostVars, target, pc, last_paired, saved, cancel, ever>>

(* The copy of the name and config_add_paired_host.                        *)
ThreadPersist ==
    /\ thread = "persist"
    /\ last_paired' = target
    /\ saved' = saved \cup {target}
    /\ thread' = IF cancel THEN "done" ELSE "s5"
    /\ UNCHANGED <<hostVars, target, pc, is_paired, cancel, ever>>

(* Step 5 over HTTPS stores the first-use pin; its failure is not fatal.   *)
ThreadConfirm ==
    /\ thread = "s5"
    /\ \E o \in HttpsOutcomes(target, target, "pairchallenge", 0) :
          https_launch_get(target, target, "pairchallenge", 0, o)
    /\ thread' = "done"
    /\ UNCHANGED <<target, pc, is_paired, last_paired, saved, cancel, ever>>

(* pairing_unpair_best_effort, then thread_done.                           *)
ThreadUnpair ==
    /\ thread = "unpair"
    /\ \/ /\ host' = [host EXCEPT ![target].paired = FALSE]
          /\ UNCHANGED faults
       \/ /\ faults < MaxFaults
          /\ faults' = faults + 1
          /\ UNCHANGED host
    /\ thread' = "done"
    /\ UNCHANGED <<pins, target, pc, is_paired, last_paired, saved, cancel, ever>>

ThreadStep ==
    \/ ThreadChallenge \/ ThreadSecret \/ ThreadMark
    \/ ThreadPersist \/ ThreadConfirm \/ ThreadUnpair

(***************************************************************************)
(* The main thread's side.                                                 *)
(***************************************************************************)
(* Create and start the worker, then the PIN screen; either can fail.      *)
PairStart ==
    /\ pc = "pair"
    /\ thread = "none"
    /\ \/ /\ thread' = "s1"
          /\ cancel' = FALSE
          /\ pc' = "pin"
          /\ UNCHANGED faults
       \/ /\ faults < MaxFaults
          /\ faults' = faults + 1
          /\ pc' = "fatal"
          /\ UNCHANGED <<thread, cancel>>
    /\ UNCHANGED <<host, pins, target, is_paired, last_paired, saved, ever>>

(* pairing_pin_ui_run returns PAIRED as soon as is_paired is seen, and     *)
(* CANCELLED when the worker ended without it or the user pressed a key.   *)
PinScreen ==
    /\ pc = "pin"
    /\ \/ /\ is_paired
          /\ pc' = "joined"
          /\ UNCHANGED cancel
       \/ /\ cancel' = TRUE
          /\ pc' = "stopped"
    /\ UNCHANGED <<hostVars, target, is_paired, last_paired, saved, thread, ever>>

(* A cancelled worker is given two seconds and then terminated wherever it *)
(* is; the connect attempt fails either way.                               *)
PairStopped ==
    /\ pc = "stopped"
    /\ \/ thread = "done" /\ UNCHANGED faults
       \/ /\ thread # "done" /\ faults < MaxFaults
          /\ faults' = faults + 1
    /\ thread' = "none" /\ cancel' = FALSE
    /\ pc' = "fatal"
    /\ UNCHANGED <<host, pins, target, is_paired, last_paired, saved, ever>>

(* PAIRED: wait for the end of the worker, then remember the host.         *)
PairJoin ==
    /\ pc = "joined"
    /\ thread = "done"
    /\ thread' = "none"
    /\ last_paired' = target
    /\ pc' = "grid"
    /\ UNCHANGED <<hostVars, target, is_paired, saved, cancel, ever>>

PairMain == PairStart \/ PinScreen \/ PairStopped \/ PairJoin
=============================================================================
