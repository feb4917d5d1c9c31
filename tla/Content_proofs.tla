--------------------------- MODULE Content_proofs ----------------------------
(***************************************************************************)
(* Safety of what run content checks from scratch: the ladder of resources  *)
(* behind an AVC session, and the order in which audio_thread.c appends     *)
(* what it decodes, repairs and conceals.                                   *)
(*                                                                         *)
(* The session: the inductive invariant says which rungs are held at each   *)
(* call of open and which are gone at each call of close.                   *)
(***************************************************************************)
EXTENDS AvcSession, AudioReceive, SequenceTheorems, FiniteSetTheorems, FunctionTheorems, TLAPS

\* What an open holds when it makes the call named by st.
Climbed ==
  /\ st = "avcodec" => flags = {}
  /\ st = "vsh_load" => flags = {"avcodec"}
  /\ st = "vsh_start" => flags = {"avcodec", "vsh_loaded"}
  /\ st \in {"fixup", "boot", "mpeg_init"} =>
       flags = {"avcodec", "vsh_loaded", "vsh_started"}
  /\ st = "ddr" => flags = Resources \ {"ddr", "context", "created"}
  /\ st = "context" => flags = Resources \ {"context", "created"}
  /\ st = "create" => flags = Resources \ {"created"}
  /\ st = "init_au" => flags = Resources

\* What a close no longer holds.
Descended ==
  /\ st \in CloseSteps \ {"delete"} => flags \cap {"created", "initialized"} = {}
  /\ st \in {"vsh_unload", "avcodec_unload", "context_free", "clear"} =>
       "vsh_started" \notin flags
  /\ st \in {"avcodec_unload", "context_free", "clear"} => "vsh_loaded" \notin flags
  /\ st \in {"context_free", "clear"} => "avcodec" \notin flags
  /\ st = "clear" => "context" \notin flags

\* The call in progress, and the mode it has set.
Calling ==
  /\ st # "idle" => ~ ready
  /\ st \in OpenSteps => op \in {"open", "switch"} /\ result = "ok"
  /\ st \in {"avcodec", "vsh_load", "vsh_start", "fixup", "boot"} =>
       ~ baseline_booted /\ ~ main_profile
  /\ st \in {"mpeg_init", "ddr", "context", "create", "init_au"} =>
       /\ mode = profile
       /\ baseline_booted = (profile = BASELINE)
       /\ main_profile = (profile = MAIN)
  /\ st \in CloseSteps => /\ op # "none" /\ result # "refused"
                          /\ op = "open" => result = "failed"

\* open does not test vsh_started: it need not.
StartedIsLoaded == "vsh_started" \in flags => "vsh_loaded" \in flags

IInv == /\ TypeOK /\ FlagsTellTheTruth /\ ReadyIsComplete /\ ResultTellsState
        /\ Climbed /\ Descended /\ Calling /\ StartedIsLoaded

-----------------------------------------------------------------------------
\* Acquiring what is not flagged, and releasing what may be, keep the books.
LEMMA GainKeepsBooks ==
  ASSUME TypeOK, FlagsTellTheTruth, NEW r \in Resources, r \notin flags, Gain(r)
  PROVE  FlagsTellTheTruth' /\ held' \in [Resources -> Nat] /\ flags' \subseteq Resources
BY DEF TypeOK, FlagsTellTheTruth, Gain

LEMMA LoseKeepsBooks ==
  ASSUME TypeOK, FlagsTellTheTruth, NEW rs, Lose(rs)
  PROVE  FlagsTellTheTruth' /\ held' \in [Resources -> Nat] /\ flags' \subseteq Resources
BY DEF TypeOK, FlagsTellTheTruth, Lose

\* A step that leaves the ladder alone.
LEMMA SameBooks ==
  ASSUME TypeOK, FlagsTellTheTruth, UNCHANGED <<flags, held>>
  PROVE  FlagsTellTheTruth' /\ held' \in [Resources -> Nat] /\ flags' \subseteq Resources
BY DEF TypeOK, FlagsTellTheTruth

\* What is left of the invariant once the books are right.
Rest == /\ ReadyIsComplete /\ ResultTellsState
        /\ Climbed /\ Descended /\ Calling /\ StartedIsLoaded

Scalars == /\ ready \in BOOLEAN /\ baseline_booted \in BOOLEAN /\ main_profile \in BOOLEAN
           /\ st \in {"idle"} \cup OpenSteps \cup CloseSteps
           /\ op \in {"none", "open", "close", "switch"}
           /\ profile \in {MAIN, BASELINE} /\ restore_mode \in BOOLEAN
           /\ result \in {"ok", "failed", "refused"} /\ mode \in {MAIN, BASELINE}

LEMMA Assemble ==
  ASSUME FlagsTellTheTruth', held' \in [Resources -> Nat], flags' \subseteq Resources,
         Scalars', Rest'
  PROVE  IInv'
BY DEF IInv, TypeOK, Scalars, Rest

\* goto fail keeps the invariant from every call of open.
LEMMA FailKeeps ==
  ASSUME IInv, st \in OpenSteps, OpenFails
  PROVE  IInv'
<1> USE DEF structVars, OpenSteps, CloseSteps
<1>1. FlagsTellTheTruth' /\ held' \in [Resources -> Nat] /\ flags' \subseteq Resources
  BY SameBooks DEF IInv, OpenFails
<1>2. Scalars'
  BY DEF IInv, TypeOK, OpenFails, Scalars
<1>3. Rest'
  BY DEF IInv, TypeOK, OpenFails, Rest, ReadyIsComplete, ResultTellsState, Climbed,
         Descended, Calling, StartedIsLoaded
<1> QED BY <1>1, <1>2, <1>3, Assemble

\* A release that is refused keeps it from every call of close.
LEMMA StopKeeps ==
  ASSUME IInv, st \in CloseSteps, CloseStops
  PROVE  IInv'
<1> USE DEF structVars, callVars, OpenSteps, CloseSteps
<1>1. FlagsTellTheTruth' /\ held' \in [Resources -> Nat] /\ flags' \subseteq Resources
  BY SameBooks DEF IInv, CloseStops
<1>2. Scalars'
  BY DEF IInv, TypeOK, CloseStops, Scalars
<1>3. Rest'
  BY DEF IInv, TypeOK, CloseStops, Rest, ReadyIsComplete, ResultTellsState, Climbed,
         Descended, Calling, StartedIsLoaded
<1> QED BY <1>1, <1>2, <1>3, Assemble

\* The calls of the backend.
LEMMA CallKeeps ==
  ASSUME IInv, CallOpen \/ CallClose \/ CallSwitch
  PROVE  IInv'
<1> USE DEF structVars, OpenSteps, CloseSteps
<1>1. FlagsTellTheTruth' /\ held' \in [Resources -> Nat] /\ flags' \subseteq Resources
  BY SameBooks DEF IInv, CallOpen, CallClose, CallSwitch
<1>2. Scalars'
  BY DEF IInv, TypeOK, CallOpen, CallClose, CallSwitch, Scalars
<1>3. CASE CallOpen
  <2>1. CASE Occupied
    <3>1. Rest'
      BY <1>3, <2>1 DEF IInv, TypeOK, CallOpen, Rest, ReadyIsComplete, ResultTellsState, Climbed,
         Descended, Calling, StartedIsLoaded
    <3> QED BY <1>1, <1>2, <3>1, Assemble
  <2>2. CASE ~ Occupied
    <3>1. flags = {} /\ ~ ready /\ ~ baseline_booted /\ ~ main_profile
      BY <2>2 DEF Occupied, IInv, TypeOK, StartedIsLoaded
    <3>2. Rest'
      BY <1>3, <2>2, <3>1 DEF CallOpen, Rest, ReadyIsComplete, ResultTellsState, Climbed,
         Descended, Calling, StartedIsLoaded
    <3> QED BY <1>1, <1>2, <3>2, Assemble
  <2> QED BY <2>1, <2>2
<1>4. CASE CallClose \/ CallSwitch
  <2>1. Rest'
    BY <1>4 DEF IInv, CallClose, CallSwitch, Rest, ReadyIsComplete, ResultTellsState,
       Climbed, Descended, Calling, StartedIsLoaded
  <2> QED BY <1>1, <1>2, <2>1, Assemble
<1> QED BY <1>3, <1>4

\* A rung of open, gained or not.
LEMMA AcquireKeeps ==
  ASSUME IInv,
         \/ Acquire("vsh_load", "vsh_loaded", "vsh_start")
         \/ Acquire("vsh_start", "vsh_started", "fixup")
         \/ Acquire("mpeg_init", "initialized", "ddr")
         \/ Acquire("ddr", "ddr", "context")
         \/ Acquire("context", "context", "create")
         \/ Acquire("create", "created", "init_au")
  PROVE  IInv'
<1> USE DEF structVars, callVars, OpenSteps, CloseSteps
<1>1. CASE OpenFails
  BY <1>1, FailKeeps DEF Acquire
<1>2. CASE ~ OpenFails
  <2>1. PICK r \in Resources :
          /\ r \notin flags /\ Gain(r)
          /\ UNCHANGED <<ready, baseline_booted, main_profile, op, profile, restore_mode,
                         result, mode>>
          /\ \/ st = "vsh_load" /\ r = "vsh_loaded" /\ st' = "vsh_start"
             \/ st = "vsh_start" /\ r = "vsh_started" /\ st' = "fixup"
             \/ st = "mpeg_init" /\ r = "initialized" /\ st' = "ddr"
             \/ st = "ddr" /\ r = "ddr" /\ st' = "context"
             \/ st = "context" /\ r = "context" /\ st' = "create"
             \/ st = "create" /\ r = "created" /\ st' = "init_au"
    BY <1>2 DEF Acquire, IInv, Climbed, Resources
  <2>2. FlagsTellTheTruth' /\ held' \in [Resources -> Nat] /\ flags' \subseteq Resources
    BY <2>1, GainKeepsBooks DEF IInv
  <2>3. Scalars'
    BY <2>1 DEF IInv, TypeOK, Scalars
  <2>4. flags' = flags \cup {r}
    BY <2>1 DEF Gain
  <2>5. Climbed'
    BY <2>1, <2>4 DEF IInv, Climbed, Resources
  <2>6. ReadyIsComplete' /\ ResultTellsState' /\ Descended' /\ Calling'
    BY <2>1 DEF IInv, ReadyIsComplete, ResultTellsState, Descended, Calling
  <2>7. StartedIsLoaded'
    BY <2>1, <2>4 DEF IInv, StartedIsLoaded, Climbed
  <2> QED BY <2>2, <2>3, <2>5, <2>6, <2>7, Assemble DEF Rest
<1> QED BY <1>1, <1>2

\* The other calls of open.
LEMMA OpenKeeps ==
  ASSUME IInv, Open
  PROVE  IInv'
<1> USE DEF structVars, callVars, OpenSteps, CloseSteps
<1>1. CASE LoadVsh \/ MpegInit \/ AllocateDdr \/ AllocateContext \/ MpegCreate
  BY <1>1, AcquireKeeps DEF LoadVsh, MpegInit, AllocateDdr, AllocateContext, MpegCreate
<1>2. CASE LoadAvcodec
  <2>1. /\ st = "avcodec" /\ "avcodec" \in Resources /\ "avcodec" \notin flags /\ flags = {}
        /\ UNCHANGED <<ready, baseline_booted, main_profile, op, profile, restore_mode, mode>>
        /\ \/ Gain("avcodec") /\ st' = "vsh_load" /\ UNCHANGED result
           \/ st' = "idle" /\ result' = "failed" /\ UNCHANGED <<flags, held>>
    BY <1>2 DEF LoadAvcodec, IInv, Climbed, Resources
  <2>2. FlagsTellTheTruth' /\ held' \in [Resources -> Nat] /\ flags' \subseteq Resources
    BY <2>1, GainKeepsBooks, SameBooks DEF IInv
  <2>3. Scalars'
    BY <2>1 DEF IInv, TypeOK, Scalars
  <2>4. Rest'
    BY <2>1 DEF IInv, Gain, Rest, ReadyIsComplete, ResultTellsState, Climbed, Descended,
       Calling, StartedIsLoaded
  <2> QED BY <2>2, <2>3, <2>4, Assemble
<1>3. CASE StartVsh
  <2>1. CASE Acquire("vsh_start", "vsh_started", "fixup")
    BY <2>1, AcquireKeeps
  <2>2. CASE ~ Acquire("vsh_start", "vsh_started", "fixup")
    <3>1. /\ st = "vsh_start" /\ "vsh_started" \in Resources /\ "vsh_started" \notin flags
          /\ flags = {"avcodec", "vsh_loaded"}
          /\ UNCHANGED <<ready, baseline_booted, main_profile, op, profile, mode>>
          /\ Gain("vsh_started") /\ st' = "delete" /\ result' = "failed" /\ restore_mode' = TRUE
      BY <1>3, <2>2 DEF StartVsh, IInv, Climbed, Resources
    <3>2. FlagsTellTheTruth' /\ held' \in [Resources -> Nat] /\ flags' \subseteq Resources
      BY <3>1, GainKeepsBooks DEF IInv
    <3>3. Scalars'
      BY <3>1 DEF IInv, TypeOK, Scalars
    <3>4. Rest'
      BY <3>1 DEF IInv, Gain, Rest, ReadyIsComplete, ResultTellsState, Climbed, Descended,
         Calling, StartedIsLoaded
    <3> QED BY <3>2, <3>3, <3>4, Assemble
  <2> QED BY <2>1, <2>2
<1>4. CASE FixupImports \/ SwitchMode \/ InitAu
  <2>1. CASE OpenFails
    BY <1>4, <2>1, FailKeeps DEF FixupImports, SwitchMode, InitAu
  <2>2. CASE ~ OpenFails
    <3>1. FlagsTellTheTruth' /\ held' \in [Resources -> Nat] /\ flags' \subseteq Resources
      BY <1>4, <2>2, SameBooks DEF IInv, FixupImports, SwitchMode, InitAu
    <3>2. CASE FixupImports
      <4>1. Scalars'
        BY <3>2, <2>2 DEF IInv, TypeOK, Scalars, FixupImports
      <4>2. Rest'
        BY <3>2, <2>2 DEF IInv, FixupImports, Rest, ReadyIsComplete, ResultTellsState, Climbed,
           Descended, Calling, StartedIsLoaded
      <4> QED BY <3>1, <4>1, <4>2, Assemble
    <3>3. CASE SwitchMode
      <4>1. /\ mode' = profile /\ profile' = profile /\ op' = op /\ flags' = flags
            /\ ready' = ready
            /\ \/ /\ st' = "mpeg_init" /\ result' = result /\ restore_mode' = restore_mode
                  /\ baseline_booted' = (profile = BASELINE) /\ main_profile' = (profile = MAIN)
               \/ /\ st' = "delete" /\ result' = "failed" /\ restore_mode' = TRUE
                  /\ UNCHANGED <<baseline_booted, main_profile>>
        BY <3>3, <2>2 DEF SwitchMode
      <4>2. baseline_booted' \in BOOLEAN /\ main_profile' \in BOOLEAN
        BY <4>1, Zenon DEF IInv, TypeOK
      <4>3. Scalars'
        BY <4>1, <4>2 DEF IInv, TypeOK, Scalars
      <4>4. st = "boot" /\ ~ ready
        BY <3>3 DEF SwitchMode, IInv, Calling
      <4>5. Rest'
        BY <4>1, <4>4 DEF IInv, Rest, ReadyIsComplete, ResultTellsState, Climbed,
           Descended, Calling, StartedIsLoaded
      <4> QED BY <3>1, <4>3, <4>5, Assemble
    <3>4. CASE InitAu
      <4>1. Scalars'
        BY <3>4, <2>2 DEF IInv, TypeOK, Scalars, InitAu
      <4>2. Rest'
        BY <3>4, <2>2 DEF IInv, InitAu, Rest, ReadyIsComplete, ResultTellsState, Climbed,
           Descended, Calling, StartedIsLoaded
      <4> QED BY <3>1, <4>1, <4>2, Assemble
    <3> QED BY <1>4, <3>2, <3>3, <3>4
  <2> QED BY <2>1, <2>2
<1> QED BY <1>1, <1>2, <1>3, <1>4 DEF Open

\* The calls of close.
LEMMA CloseKeeps ==
  ASSUME IInv, Close
  PROVE  IInv'
<1> USE DEF structVars, callVars, OpenSteps, CloseSteps
<1>1. CASE StopVsh \/ UnloadVsh \/ UnloadAvcodec \/ FreeContext
  <2>0. st \in CloseSteps
    BY <1>1 DEF StopVsh, UnloadVsh, UnloadAvcodec, FreeContext, Release
  <2>1. CASE CloseStops
    BY <2>0, <2>1, StopKeeps
  <2>2. CASE ~ CloseStops
    <3>1. PICK r \in Resources :
            /\ Lose({r})
            /\ UNCHANGED <<ready, baseline_booted, main_profile, op, profile, restore_mode,
                           result, mode>>
            /\ \/ st = "vsh_stop" /\ r = "vsh_started" /\ st' = "vsh_unload"
               \/ st = "vsh_unload" /\ r = "vsh_loaded" /\ st' = "avcodec_unload"
               \/ st = "avcodec_unload" /\ r = "avcodec" /\ st' = "context_free"
               \/ st = "context_free" /\ r = "context" /\ st' = "clear"
      BY <1>1, <2>2 DEF StopVsh, UnloadVsh, UnloadAvcodec, FreeContext, Release, Resources
    <3>2. FlagsTellTheTruth' /\ held' \in [Resources -> Nat] /\ flags' \subseteq Resources
      BY <3>1, LoseKeepsBooks DEF IInv
    <3>3. Scalars'
      BY <3>1 DEF IInv, TypeOK, Scalars
    <3>4. flags' = flags \ {r}
      BY <3>1 DEF Lose
    <3>5. Rest'
      BY <3>1, <3>4 DEF IInv, Rest, ReadyIsComplete, ResultTellsState, Climbed,
         Descended, Calling, StartedIsLoaded
    <3> QED BY <3>2, <3>3, <3>5, Assemble
  <2> QED BY <2>1, <2>2
<1>2. CASE MpegDelete
  <2>1. FlagsTellTheTruth' /\ held' \in [Resources -> Nat] /\ flags' \subseteq Resources
    BY <1>2, LoseKeepsBooks DEF IInv, MpegDelete
  <2>2. Scalars'
    BY <1>2 DEF IInv, TypeOK, Scalars, MpegDelete
  <2>3. Rest'
    BY <1>2 DEF IInv, MpegDelete, Lose, Rest, ReadyIsComplete, ResultTellsState, Climbed,
       Descended, Calling, StartedIsLoaded
  <2> QED BY <2>1, <2>2, <2>3, Assemble
<1>3. CASE RestoreMode
  <2>1. CASE CloseStops
    BY <1>3, <2>1, StopKeeps DEF RestoreMode
  <2>2. CASE ~ CloseStops
    <3>1. FlagsTellTheTruth' /\ held' \in [Resources -> Nat] /\ flags' \subseteq Resources
      BY <1>3, <2>2, SameBooks DEF IInv, RestoreMode
    <3>2. Scalars'
      BY <1>3, <2>2 DEF IInv, TypeOK, Scalars, RestoreMode
    <3>3. Rest'
      BY <1>3, <2>2 DEF IInv, RestoreMode, Rest, ReadyIsComplete, ResultTellsState, Climbed,
         Descended, Calling, StartedIsLoaded
    <3> QED BY <3>1, <3>2, <3>3, Assemble
  <2> QED BY <2>1, <2>2
<1>4. CASE ClearContext
  <2>1. FlagsTellTheTruth' /\ held' \in [Resources -> Nat] /\ flags' \subseteq Resources
    BY <1>4, LoseKeepsBooks DEF IInv, ClearContext
  <2>2. Scalars'
    BY <1>4 DEF IInv, TypeOK, Scalars, ClearContext
  <2>3. flags' = {}
    BY <1>4 DEF IInv, TypeOK, ClearContext, Lose, Descended, Resources
  <2>4. Rest'
    BY <1>4, <2>3 DEF IInv, TypeOK, ClearContext, Rest, ReadyIsComplete, ResultTellsState, Climbed,
       Descended, Calling, StartedIsLoaded, Occupied
  <2> QED BY <2>1, <2>2, <2>4, Assemble
<1> QED BY <1>1, <1>2, <1>3, <1>4 DEF Close

\* The inductive invariant holds in every reachable state.
THEOREM Invariance == Spec => []IInv
<1>1. Init => IInv
  <2> SUFFICES ASSUME Init PROVE IInv
    OBVIOUS
  <2>1. TypeOK
    BY DEF Init, TypeOK
  <2>2. FlagsTellTheTruth /\ ReadyIsComplete /\ ResultTellsState
    BY DEF Init, FlagsTellTheTruth, ReadyIsComplete, ResultTellsState
  <2>3. Climbed /\ Descended /\ Calling /\ StartedIsLoaded
    BY DEF Init, Climbed, Descended, Calling, StartedIsLoaded, OpenSteps, CloseSteps
  <2> QED BY <2>1, <2>2, <2>3 DEF IInv
<1>2. IInv /\ [Next]_vars => IInv'
  <2> SUFFICES ASSUME IInv, [Next]_vars PROVE IInv'
    OBVIOUS
  <2>1. CASE UNCHANGED vars
    BY <2>1 DEF vars, structVars, callVars, IInv, TypeOK, FlagsTellTheTruth, ReadyIsComplete,
       ResultTellsState, Occupied, Climbed, Descended, Calling, StartedIsLoaded
  <2> QED BY <2>1, CallKeeps, OpenKeeps, CloseKeeps DEF Next
<1> QED BY <1>1, <1>2, PTL DEF Spec

\* A session structure always tells which firmware resources are held, once
\* each, whichever call of open, close or switch failed.
THEOREM BooksCorrect == Spec => []FlagsTellTheTruth
<1>1. IInv => FlagsTellTheTruth
  BY DEF IInv
<1> QED BY Invariance, <1>1, PTL

\* A ready session is complete and in the mode of its profile.
THEOREM ReadyCorrect == Spec => []ReadyIsComplete
<1>1. IInv => ReadyIsComplete
  BY DEF IInv
<1> QED BY Invariance, <1>1, PTL

\* The result of a call tells the backend what it has.
THEOREM ResultCorrect == Spec => []ResultTellsState
<1>1. IInv => ResultTellsState
  BY DEF IInv
<1> QED BY Invariance, <1>1, PTL

-----------------------------------------------------------------------------
(***************************************************************************)
(* Sound in order.  Sequence numbers, media times and block numbers wrap;   *)
(* the proof gives every packet a number that does not.  What the thread    *)
(* keeps (the packets put aside, the cached blocks) lies within one round,  *)
(* so a wrapped number names one packet, and the wrapped differences the    *)
(* thread computes are the true ones.                                       *)
(***************************************************************************)

\* Multiplying keeps order.
LEMMA Products ==
  ASSUME NEW a \in Int, NEW b \in Int, NEW c \in Nat
  PROVE  /\ a <= b => c * a <= c * b
         /\ c > 0 /\ c * a < c * b => a < b
         /\ c * a \in Int
OBVIOUS

\* Division with remainder ...
LEMMA Divided ==
  ASSUME NEW a \in Int, NEW c \in Nat \ {0}
  PROVE  /\ a \div c \in Int /\ a % c \in 0 .. c - 1 /\ a = c * (a \div c) + (a % c)
         /\ a >= 0 => a \div c \in Nat
OBVIOUS

\* ... is unique.
LEMMA Quotient ==
  ASSUME NEW q \in Int, NEW c \in Nat \ {0}, NEW r \in 0 .. c - 1, NEW a \in Int, a = c * q + r
  PROVE  a \div c = q /\ a % c = r
OBVIOUS

Span == Data + Parity
Rounds == SeqWrap \div Span
Laps == SeqWrap \div Data

\* What the assumptions say of the constants.
LEMMA ReceiveConstants ==
  /\ Data \in Nat \ {0} /\ Parity \in Nat \ {0} /\ CacheBlocks \in Nat \ {0}
  /\ SeqWrap \in Nat \ {0} /\ MediaMod \in Nat \ {0} /\ PendingMax \in Nat \ {0} /\ MaxBurst \in Nat
  /\ MaxConceal \in Nat \ {0} /\ Span \in Nat \ {0} /\ Data < Span /\ Parity < Data
BY AudioFecAssumption, AudioReceiveAssumption, WrapAssumption DEF Span

\* A factor other than 0 can be dropped.
LEMMA Cancel ==
  ASSUME NEW c \in Nat \ {0}, NEW a \in Int, NEW b \in Int, c * a = c * b
  PROVE  a = b
BY Products

\* A round of sequence numbers is a whole number of blocks, of the host and of the cache.
LEMMA WrapIs ==
  /\ Rounds \in Nat \ {0} /\ SeqWrap = Span * Rounds /\ MediaMod = Data * Rounds
  /\ Laps \in Nat \ {0} /\ SeqWrap = Data * Laps
  /\ SeqWrap % Span = 0 /\ SeqWrap % Data = 0
<1> DEFINE c == Data * Span
           q == SeqWrap \div c
<1>1. c \in Nat \ {0} /\ SeqWrap % c = 0 /\ MediaMod * Span = SeqWrap * Data
  <2>1. Data * Span \in Nat /\ Data * Span # 0
    BY ReceiveConstants
  <2> QED BY <2>1, AudioFecAssumption DEF Span
<1>2. q \in Int /\ SeqWrap = c * q
  <2> HIDE DEF c
  <2> QED BY <1>1, Divided, ReceiveConstants
<1>3. SeqWrap = Span * (Data * q) /\ SeqWrap = Data * (Span * q) /\ Data * q \in Int /\ Span * q \in Int
  <2> HIDE DEF q
  <2> QED BY <1>2, ReceiveConstants
<1> HIDE DEF q, c
<1>4. SeqWrap \div Span = Data * q /\ SeqWrap \div Data = Span * q
  <2>1. PICK u \in Int, v \in Int : u = Data * q /\ v = Span * q
    BY <1>3
  <2>2. SeqWrap = Span * u + 0 /\ SeqWrap = Data * v + 0
    BY <1>3, <2>1, ReceiveConstants
  <2>3. SeqWrap \div Span = u
    BY <2>1, <2>2, Quotient, ReceiveConstants
  <2>4. SeqWrap \div Data = v
    BY <2>1, <2>2, Quotient, ReceiveConstants
  <2> QED BY <2>1, <2>3, <2>4
<1>5. SeqWrap = Span * Rounds /\ SeqWrap = Data * Laps /\ Rounds \in Int /\ Laps \in Int
  BY <1>3, <1>4 DEF Rounds, Laps
<1>6. Rounds > 0 /\ Laps > 0
  <2>1. Rounds <= 0 => Span * Rounds <= 0
    BY <1>5, ReceiveConstants, Products
  <2>2. Laps <= 0 => Data * Laps <= 0
    BY <1>5, ReceiveConstants, Products
  <2> QED BY <2>1, <2>2, <1>5, ReceiveConstants
<1>7. Span * MediaMod = Span * (Data * Rounds)
  <2>1. Span * MediaMod = SeqWrap * Data
    BY <1>1, ReceiveConstants
  <2> QED BY <2>1, <1>5, ReceiveConstants
<1>8. MediaMod = Data * Rounds
  BY <1>7, <1>5, ReceiveConstants, Cancel
<1>9. SeqWrap % Span = 0 /\ SeqWrap % Data = 0
  <2>1. SeqWrap = Span * Rounds + 0 /\ SeqWrap = Data * Laps + 0
    BY <1>5, ReceiveConstants
  <2>2. SeqWrap % Span = 0
    BY <2>1, <1>5, Quotient, ReceiveConstants
  <2>3. SeqWrap % Data = 0
    <3>1. 0 \in 0 .. Data - 1 /\ Laps \in Int /\ SeqWrap \in Int /\ Data \in Nat \ {0}
      BY <1>5, ReceiveConstants
    <3>2. SeqWrap = Data * Laps + 0
      BY <2>1
    <3> QED BY <3>1, <3>2, Quotient
  <2> QED BY <2>2, <2>3
<1> QED BY <1>5, <1>6, <1>8, <1>9

\* Taking the remainder by a product first changes neither the remainder by a factor nor ...
LEMMA Nested ==
  ASSUME NEW n \in Nat, NEW c \in Nat \ {0}, NEW s \in Nat \ {0}, s % c = 0
  PROVE  /\ (n % s) % c = n % c
         /\ (n % s) \div c = (n \div c) % (s \div c)
<1>0. PICK k \in Nat \ {0} : s = c * k /\ s \div c = k
  <2>1. s \div c \in Nat /\ s = c * (s \div c)
    BY Divided
  <2>2. s \div c # 0
    BY <2>1
  <2> QED BY <2>1, <2>2
<1> DEFINE t == n \div s
           u == n % s
           b == u \div c
           r == u % c
<1>1. t \in Nat /\ u \in 0 .. s - 1 /\ n = s * t + u
  OBVIOUS
<1>2. b \in Nat /\ r \in 0 .. c - 1 /\ u = c * b + r
  <2>1. u \in Nat
    BY <1>1
  <2> HIDE DEF u
  <2> QED BY <2>1
<1> HIDE DEF t, u, b, r
<1>3. b < k
  BY <1>0, <1>1, <1>2, Products
<1>4. n = c * (k * t + b) + r
  BY <1>0, <1>1, <1>2
<1>5. n \div c = k * t + b /\ n % c = r
  <2>1. PICK m \in Int : m = k * t + b
    BY <1>1, <1>2
  <2>2. n = c * m + r
    BY <2>1, <1>4
  <2>3. n \div c = m /\ n % c = r
    BY <2>2, <1>2, Quotient
  <2> QED BY <2>1, <2>3
<1>6. (n \div c) % k = b
  <2>1. PICK m \in Int : m = k * t + b
    BY <1>1, <1>2
  <2>2. m % k = b
    <3>1. t \in Int /\ b \in 0 .. k - 1
      BY <1>1, <1>2, <1>3
    <3> QED BY <2>1, <3>1, Quotient
  <2> QED BY <2>1, <2>2, <1>5
<1> QED BY <1>0, <1>5, <1>6 DEF u, b, r

DataBefore(n) == (n \div Span) * Data + (IF n % Span < Data THEN n % Span ELSE Data)
ParityBefore(n) == n - DataBefore(n)
Time(n) == DataBefore(n) % MediaMod
IsSound(n) == n % Span < Data

\* A number is a block and a place in it.
LEMMA Place ==
  ASSUME NEW n \in Nat
  PROVE  \E b \in Nat, r \in 0 .. Span - 1 :
            /\ n = Span * b + r /\ n \div Span = b /\ n % Span = r
            /\ DataBefore(n) = Data * b + (IF r < Data THEN r ELSE Data)
<1> DEFINE b == n \div Span
           r == n % Span
<1>1. b \in Nat /\ r \in 0 .. Span - 1 /\ n = Span * b + r
  <2>1. PICK s \in Nat \ {0} : s = Span
    BY ReceiveConstants
  <2> QED BY <2>1
<1>2. DataBefore(n) = Data * b + (IF r < Data THEN r ELSE Data)
  <2>1. b * Data = Data * b
    <3> HIDE DEF b
    <3> QED BY <1>1, ReceiveConstants
  <2> QED BY <2>1 DEF DataBefore
<1> QED BY <1>1, <1>2

\* The converse: a block and a place make a number.
LEMMA PlaceIs ==
  ASSUME NEW b \in Nat, NEW r \in 0 .. Span - 1, NEW n \in Nat, n = Span * b + r
  PROVE  /\ n \div Span = b /\ n % Span = r
         /\ DataBefore(n) = Data * b + (IF r < Data THEN r ELSE Data)
<1>1. PICK bb \in Nat, rr \in 0 .. Span - 1 :
            /\ n = Span * bb + rr /\ n \div Span = bb /\ n % Span = rr
            /\ DataBefore(n) = Data * bb + (IF rr < Data THEN rr ELSE Data)
  BY Place
<1>2. n \div Span = b /\ n % Span = r
  BY Quotient, ReceiveConstants
<1> QED BY <1>1, <1>2

\* Among the numbers of an interval there are as many data packets as DataBefore says.
LEMMA Counting ==
  ASSUME NEW a \in Nat, NEW b \in Nat, a <= b
  PROVE  /\ DataBefore(a) \in Nat /\ DataBefore(b) \in Nat
         /\ DataBefore(a) <= DataBefore(b) /\ DataBefore(b) - DataBefore(a) <= b - a
<1>1. PICK q \in Nat, r \in 0 .. Span - 1 :
            a = Span * q + r /\ DataBefore(a) = Data * q + (IF r < Data THEN r ELSE Data)
  BY Place
<1>2. PICK u \in Nat, v \in 0 .. Span - 1 :
            b = Span * u + v /\ DataBefore(b) = Data * u + (IF v < Data THEN v ELSE Data)
  BY Place
<1>3. Data \in Nat /\ Data > 0 /\ Parity \in Nat /\ Span = Data + Parity
  BY ReceiveConstants DEF Span
<1>4. q <= u
  <2>1. SUFFICES ASSUME u < q PROVE FALSE
    BY <1>1, <1>2
  <2>2. Span * (u + 1) <= Span * q
    BY <2>1, <1>3, Products
  <2>3. Span * (u + 1) = Span * u + Span
    BY <1>3
  <2> QED BY <2>2, <2>3, <1>1, <1>2, <1>3
<1>5. Data * q \in Nat /\ Data * u \in Nat /\ Parity * q \in Nat /\ Parity * u \in Nat
      /\ Span * q = Data * q + Parity * q /\ Span * u = Data * u + Parity * u
  BY <1>3
<1>6. CASE q = u
  BY <1>1, <1>2, <1>3, <1>5, <1>6
<1>7. CASE q < u
  <2>1. Data * (q + 1) <= Data * u /\ Parity * (q + 1) <= Parity * u
    BY <1>3, <1>7, Products
  <2>2. Data * (q + 1) = Data * q + Data /\ Parity * (q + 1) = Parity * q + Parity
    BY <1>3
  <2> QED BY <1>1, <1>2, <1>3, <1>5, <2>1, <2>2
<1> QED BY <1>4, <1>6, <1>7

\* A count is a number.
LEMMA CountType ==
  ASSUME NEW n \in Nat
  PROVE  DataBefore(n) \in Nat
<1>1. n <= n
  OBVIOUS
<1> QED BY <1>1, Counting

\* One more number counts one more data packet, or none.
LEMMA CountNext ==
  ASSUME NEW n \in Nat
  PROVE  DataBefore(n + 1) = DataBefore(n) + (IF IsSound(n) THEN 1 ELSE 0)
<1>1. PICK q \in Nat, r \in 0 .. Span - 1 :
            /\ n = Span * q + r /\ n % Span = r
            /\ DataBefore(n) = Data * q + (IF r < Data THEN r ELSE Data)
  BY Place
<1>2. Data \in Nat /\ Data > 0 /\ Parity \in Nat /\ Parity > 0 /\ Span = Data + Parity
  BY ReceiveConstants DEF Span
<1>3. CASE r < Span - 1
  <2>1. r + 1 \in 0 .. Span - 1 /\ n + 1 \in Nat /\ n + 1 = Span * q + (r + 1)
    BY <1>1, <1>2, <1>3
  <2>2. PICK v \in 0 .. Span - 1 : v = r + 1
    BY <2>1
  <2>3. PICK m \in Nat : m = n + 1
    BY <2>1
  <2>4. DataBefore(m) = Data * q + (IF v < Data THEN v ELSE Data)
    BY <2>1, <2>2, <2>3, PlaceIs
  <2> QED BY <1>1, <1>2, <1>3, <2>2, <2>3, <2>4 DEF IsSound
<1>4. CASE r = Span - 1
  <2>1. n + 1 \in Nat /\ n + 1 = Span * (q + 1) + 0 /\ Data * (q + 1) = Data * q + Data
    BY <1>1, <1>2, <1>4
  <2>2. PICK m \in Nat : m = n + 1
    BY <2>1
  <2>3. PICK u \in Nat : u = q + 1
    BY <1>1
  <2>4. m = Span * u + 0 /\ 0 \in 0 .. Span - 1
    BY <2>1, <2>2, <2>3, <1>2
  <2>5. DataBefore(m) = Data * u + (IF 0 < Data THEN 0 ELSE Data)
    BY <2>4, PlaceIs
  <2> QED BY <1>1, <1>2, <1>4, <2>1, <2>2, <2>3, <2>5 DEF IsSound
<1> QED BY <1>1, <1>2, <1>3, <1>4

\* Places of one block.
LEMMA InBlock ==
  ASSUME NEW a \in Nat, a % Span = 0, NEW j \in 0 .. Span - 1
  PROVE  /\ (a + j) % Span = j
         /\ DataBefore(a + j) = DataBefore(a) + (IF j < Data THEN j ELSE Data)
<1>1. PICK q \in Nat, r \in 0 .. Span - 1 :
            /\ a = Span * q + r /\ a % Span = r
            /\ DataBefore(a) = Data * q + (IF r < Data THEN r ELSE Data)
  BY Place
<1>2. Data \in Nat /\ Data > 0 /\ Span \in Nat
  BY ReceiveConstants
<1>3. PICK m \in Nat : m = a + j
  BY <1>2
<1>4. m = Span * q + j
  BY <1>1, <1>2, <1>3
<1>5. m % Span = j /\ DataBefore(m) = Data * q + (IF j < Data THEN j ELSE Data)
  BY <1>4, PlaceIs
<1> QED BY <1>1, <1>2, <1>3, <1>5

\* Start of the block of n, and what Reach bounds.
Start(n) == n - (n % Span)
Base(n) == n - (n % Data)

\* The start of the host's block ...
LEMMA StartIs ==
  ASSUME NEW n \in Nat
  PROVE  /\ Start(n) \in Nat /\ Start(n) % Span = 0 /\ n % Span \in 0 .. Span - 1
         /\ n = Start(n) + (n % Span) /\ Start(n) <= n
<1>1. PICK q \in Nat, r \in 0 .. Span - 1 : n = Span * q + r /\ n % Span = r
  BY Place
<1>2. Span * q \in Nat
  BY ReceiveConstants
<1>3. PICK m \in Nat : m = Span * q
  BY <1>2
<1>4. m = Span * q + 0 /\ 0 \in 0 .. Span - 1
  BY <1>3, ReceiveConstants
<1>5. m % Span = 0
  BY <1>4, PlaceIs
<1>6. Start(n) = m
  BY <1>1, <1>3 DEF Start
<1> QED BY <1>1, <1>3, <1>5, <1>6

\* ... and of the cache's block of n.
LEMMA BaseIs ==
  ASSUME NEW n \in Nat
  PROVE  /\ Base(n) \in Nat /\ Base(n) % Data = 0 /\ n % Data \in 0 .. Data - 1
         /\ n = Base(n) + (n % Data) /\ Base(n) <= n /\ n < Base(n) + Data
<1> DEFINE q == n \div Data
           r == n % Data
<1>1. q \in Nat /\ r \in 0 .. Data - 1 /\ n = Data * q + r
  <2>1. PICK s \in Nat \ {0} : s = Data
    BY ReceiveConstants
  <2> QED BY <2>1
<1> HIDE DEF q, r
<1>2. Data * q \in Nat
  BY <1>1, ReceiveConstants
<1>3. PICK m \in Nat : m = Data * q
  BY <1>2
<1>4. m % Data = 0
  <2>1. 0 \in 0 .. Data - 1 /\ m = Data * q + 0
    BY <1>3, ReceiveConstants
  <2> QED BY <2>1, <1>1, Quotient, ReceiveConstants
<1>5. Base(n) = m /\ n % Data = r
  BY <1>1, <1>3 DEF Base, r
<1>6. m = Base(n) /\ r = n % Data /\ n = m + r /\ r \in Nat /\ r <= Data - 1 /\ Data \in Nat
  BY <1>1, <1>3, <1>5, ReceiveConstants
<1> QED BY <1>1, <1>3, <1>4, <1>6

\* Reach is a number that bounds what follows.
LEMMA ReachIs ==
  /\ MaxBurst \div Data + 1 \in Nat \ {0} /\ MaxBurst < Data * (MaxBurst \div Data + 1)
  /\ Reach \in Nat \ {0} /\ Reach = MaxBurst + 1 + Parity * (MaxBurst \div Data + 1)
<1> DEFINE u == MaxBurst \div Data
<1>1. u \in Nat /\ MaxBurst < Data * u + Data
  <2>1. PICK s \in Nat \ {0} : s = Data
    BY ReceiveConstants
  <2>2. PICK k \in Nat : k = MaxBurst
    BY ReceiveConstants
  <2> QED BY <2>1, <2>2
<1>2. Reach = MaxBurst + 1 + Parity * (u + 1)
  BY DEF Reach
<1> HIDE DEF u
<1>3. Data * (u + 1) = Data * u + Data /\ u + 1 \in Nat /\ Parity * (u + 1) \in Nat
  BY <1>1, ReceiveConstants
<1> QED BY <1>1, <1>2, <1>3, ReceiveConstants DEF u

\* A data packet and a number after it with at most MaxBurst data packets between them.
LEMMA WithinReach ==
  ASSUME NEW f \in Nat, NEW n \in Nat, IsSound(f), f <= n, DataBefore(n) - DataBefore(f) <= MaxBurst + 1
  PROVE  n - f <= Reach
<1> DEFINE U == MaxBurst \div Data + 1
<1>0. /\ Data \in Nat /\ Data > 0 /\ Parity \in Nat /\ Parity > 0 /\ Span = Data + Parity /\ MaxBurst \in Nat
      /\ U \in Nat /\ MaxBurst < Data * U /\ Reach = MaxBurst + 1 + Parity * U
  BY ReceiveConstants, ReachIs DEF Span
<1> HIDE DEF U
<1>1. PICK q \in Nat, r \in 0 .. Span - 1 :
            f = Span * q + r /\ f % Span = r /\ DataBefore(f) = Data * q + (IF r < Data THEN r ELSE Data)
  BY Place
<1>2. PICK u \in Nat, v \in 0 .. Span - 1 :
            n = Span * u + v /\ n % Span = v /\ DataBefore(n) = Data * u + (IF v < Data THEN v ELSE Data)
  BY Place
<1>3. r < Data
  BY <1>1 DEF IsSound
<1>4. Data * q \in Nat /\ Data * u \in Nat /\ Parity * q \in Nat /\ Parity * u \in Nat /\ Data * U \in Nat
      /\ Parity * U \in Nat /\ Span * q = Data * q + Parity * q /\ Span * u = Data * u + Parity * u
  BY <1>0
<1>5. CASE v <= Data
  <2>1. Data * u < Data * q + Data * U + Data
    BY <1>0, <1>1, <1>2, <1>3, <1>4, <1>5
  <2>2. Data * q + Data * U + Data = Data * (q + U + 1)
    BY <1>0
  <2>3. u < q + U + 1
    BY <2>1, <2>2, <1>0, Products
  <2>4. Parity * u <= Parity * (q + U)
    BY <2>3, <1>0, Products
  <2>5. Parity * (q + U) = Parity * q + Parity * U
    BY <1>0
  <2> QED BY <1>0, <1>1, <1>2, <1>3, <1>4, <1>5, <2>4, <2>5
<1>6. CASE v > Data
  <2>1. Data * u < Data * q + Data * U
    BY <1>0, <1>1, <1>2, <1>3, <1>4, <1>6
  <2>2. Data * q + Data * U = Data * (q + U)
    BY <1>0
  <2>3. u < q + U
    BY <2>1, <2>2, <1>0, Products
  <2>4. Parity * (u + 1) <= Parity * (q + U)
    BY <2>3, <1>0, Products
  <2>5. Parity * (q + U) = Parity * q + Parity * U /\ Parity * (u + 1) = Parity * u + Parity
    BY <1>0
  <2> QED BY <1>0, <1>1, <1>2, <1>3, <1>4, <1>6, <2>4, <2>5
<1> QED BY <1>0, <1>2, <1>5, <1>6

-----------------------------------------------------------------------------
\* Numbers on the wire.
LEMMA OnWire ==
  ASSUME NEW n \in Nat
  PROVE  /\ n % SeqWrap \in Seqs /\ n % SeqWrap \in Nat
         /\ (n % SeqWrap) % Span = n % Span /\ (n % SeqWrap) % Data = n % Data
         /\ (n % SeqWrap) \div Span = (n \div Span) % Rounds
         /\ (n % SeqWrap) - (n % Span) = Start(n) % SeqWrap
         /\ (n % SeqWrap) - (n % Data) = Base(n) % SeqWrap
<1>0. /\ SeqWrap \in Nat \ {0} /\ Span \in Nat \ {0} /\ Data \in Nat \ {0} /\ Rounds \in Nat \ {0}
      /\ Laps \in Nat \ {0} /\ SeqWrap = Span * Rounds /\ SeqWrap = Data * Laps
  BY ReceiveConstants, WrapIs
<1> DEFINE t == n \div SeqWrap
           u == n % SeqWrap
<1>1. t \in Nat /\ u \in 0 .. SeqWrap - 1 /\ n = SeqWrap * t + u
  <2>1. PICK s \in Nat \ {0} : s = SeqWrap
    BY <1>0
  <2> QED BY <2>1
<1>2. u % Span = n % Span /\ u \div Span = (n \div Span) % Rounds /\ u % Data = n % Data
  <2>1. SeqWrap % Span = 0 /\ SeqWrap % Data = 0
    BY WrapIs
  <2>2. (n % SeqWrap) % Span = n % Span /\ (n % SeqWrap) \div Span = (n \div Span) % (SeqWrap \div Span)
    BY <2>1, <1>0, Nested
  <2>3. (n % SeqWrap) % Data = n % Data
    BY <2>1, <1>0, Nested
  <2> QED BY <2>2, <2>3 DEF Rounds
<1> HIDE DEF t, u
<1>3. u \in Nat
  BY <1>1
<1>4. PICK a \in Nat, b \in Nat, r \in Nat, q \in Nat :
         /\ a = Start(u) /\ b = Base(u) /\ r = n % Span /\ q = n % Data
         /\ a <= u /\ b <= u /\ a = u - r /\ b = u - q
  BY <1>2, <1>3, StartIs, BaseIs DEF Start, Base
<1>5. PICK c \in Nat, d \in Nat : c = Start(n) /\ d = Base(n) /\ c = n - r /\ d = n - q
  BY <1>4, StartIs, BaseIs DEF Start, Base
<1>6. c % SeqWrap = a /\ d % SeqWrap = b
  <2>1. SeqWrap * t \in Nat
    BY <1>0, <1>1
  <2>2. c = SeqWrap * t + a /\ d = SeqWrap * t + b
    BY <2>1, <1>1, <1>3, <1>4, <1>5
  <2>3. a \in 0 .. SeqWrap - 1 /\ b \in 0 .. SeqWrap - 1 /\ t \in Int /\ c \in Int /\ d \in Int
    BY <1>0, <1>1, <1>3, <1>4
  <2>4. c % SeqWrap = a
    BY <2>2, <2>3, <1>0, Quotient
  <2>5. d % SeqWrap = b
    BY <2>2, <2>3, <1>0, Quotient
  <2> QED BY <2>4, <2>5
<1>7. u - (n % Span) = Start(n) % SeqWrap /\ u - (n % Data) = Base(n) % SeqWrap
  BY <1>4, <1>5, <1>6
<1> QED BY <1>1, <1>2, <1>3, <1>7 DEF u, Seqs

\* Two numbers less than a round apart that are one on the wire are one.
LEMMA SameNumber ==
  ASSUME NEW a \in Nat, NEW b \in Nat, a % SeqWrap = b % SeqWrap, a - b < SeqWrap, b - a < SeqWrap
  PROVE  a = b
<1>0. SeqWrap \in Nat \ {0}
  BY ReceiveConstants
<1> DEFINE t == a \div SeqWrap
           v == b \div SeqWrap
           u == a % SeqWrap
<1>1. t \in Nat /\ v \in Nat /\ u \in 0 .. SeqWrap - 1 /\ a = SeqWrap * t + u /\ b = SeqWrap * v + u
  <2>1. PICK s \in Nat \ {0} : s = SeqWrap
    BY <1>0
  <2> QED BY <2>1
<1> HIDE DEF t, u, v
<1>2. t < v => SeqWrap * (t + 1) <= SeqWrap * v
  BY <1>0, <1>1, Products
<1>3. v < t => SeqWrap * (v + 1) <= SeqWrap * t
  BY <1>0, <1>1, Products
<1>4. SeqWrap * (t + 1) = SeqWrap * t + SeqWrap /\ SeqWrap * (v + 1) = SeqWrap * v + SeqWrap
      /\ SeqWrap * t \in Nat /\ SeqWrap * v \in Nat
  BY <1>0, <1>1
<1>5. t = v
  BY <1>0, <1>1, <1>2, <1>3, <1>4
<1> QED BY <1>1, <1>5

\* Advancing on the wire, and how far two numbers are apart there.
LEMMA Advance ==
  ASSUME NEW m \in Nat \ {0}, NEW a \in Nat, NEW k \in Nat
  PROVE  /\ ((a % m) + k) % m = (a + k) % m
         /\ k < m => (((a + k) % m) - (a % m)) % m = k
         /\ 0 < k /\ k <= m => (((a + k) % m) - (a % m) - 1) % m = k - 1
         /\ k < m => (((a + k) % m) - k) % m = a % m
<1> DEFINE t == a \div m
           u == a % m
           c == a + k
           v == c \div m
           w == c % m
<1>1. t \in Nat /\ u \in 0 .. m - 1 /\ a = m * t + u
  OBVIOUS
<1>2. v \in Nat /\ w \in 0 .. m - 1 /\ c = m * v + w
  <2>1. c \in Nat
    OBVIOUS
  <2> HIDE DEF c
  <2> QED BY <2>1
<1>3. c = a + k /\ c \in Nat
  OBVIOUS
<1> HIDE DEF t, u, c, v, w
<1>4. m * t \in Nat /\ m * v \in Nat /\ m * (v - t) = m * v - m * t /\ m * (t - v) = m * t - m * v /\ v - t \in Int /\ t - v \in Int
  BY <1>1, <1>2
<1>5. (u + k) % m = w
  <2>1. PICK i \in Int : i = u + k
    BY <1>1
  <2>2. i = m * (v - t) + w
    BY <2>1, <1>1, <1>2, <1>3, <1>4
  <2>3. i % m = w
    BY <2>2, <1>2, <1>4, Quotient
  <2> QED BY <2>1, <2>3
<1>6. k < m => (w - u) % m = k
  <2>1. PICK i \in Int : i = w - u
    BY <1>1, <1>2
  <2>2. i = m * (t - v) + k
    BY <2>1, <1>1, <1>2, <1>3, <1>4
  <2>3. k < m => i % m = k
    BY <2>2, <1>2, <1>4, Quotient
  <2> QED BY <2>1, <2>3
<1>7. 0 < k /\ k <= m => (w - u - 1) % m = k - 1
  <2>1. PICK i \in Int : i = w - u - 1
    BY <1>1, <1>2
  <2>2. i = m * (t - v) + (k - 1)
    BY <2>1, <1>1, <1>2, <1>3, <1>4
  <2>3. 0 < k /\ k <= m => i % m = k - 1
    <3>1. SUFFICES ASSUME 0 < k, k <= m PROVE i % m = k - 1
      OBVIOUS
    <3>2. PICK j \in 0 .. m - 1 : j = k - 1
      BY <3>1
    <3>3. i = m * (t - v) + j
      BY <2>2, <3>2
    <3>5. PICK e \in Int : e = t - v
      BY <1>4
    <3>6. i = m * e + j
      BY <3>3, <3>5
    <3>4. i % m = j
      BY <3>6, Quotient
    <3> QED BY <3>2, <3>4
  <2> QED BY <2>1, <2>3
<1>8. k < m => (w - k) % m = u
  <2>1. PICK i \in Int : i = w - k
    BY <1>1, <1>2
  <2>2. i = m * (t - v) + u
    BY <2>1, <1>1, <1>2, <1>3, <1>4
  <2>3. i % m = u
    BY <2>2, <1>1, <1>4, Quotient
  <2> QED BY <2>1, <2>3
<1> QED BY <1>3, <1>5, <1>6, <1>7, <1>8 DEF u, w

\* The media time of a data packet, from its block and place.
LEMMA OnClock ==
  ASSUME NEW n \in Nat, NEW b \in Nat, NEW r \in 0 .. Data - 1, DataBefore(n) = Data * b + r
  PROVE  Time(n) = (b % Rounds) * Data + r /\ Time(n) \in Media
<1>0. Data \in Nat \ {0} /\ Rounds \in Nat \ {0} /\ MediaMod = Data * Rounds /\ MediaMod \in Nat \ {0}
  BY ReceiveConstants, WrapIs
<1> DEFINE t == b \div Rounds
           u == b % Rounds
<1>1. t \in Nat /\ u \in 0 .. Rounds - 1 /\ b = Rounds * t + u
  <2>1. PICK s \in Nat \ {0} : s = Rounds
    BY <1>0
  <2> QED BY <2>1
<1> HIDE DEF t, u
<1>2. PICK m \in Nat, v \in Nat : m = Data * b + r /\ v = Data * u + r
  BY <1>0, <1>1
<1>3. m = MediaMod * t + v
  BY <1>0, <1>1, <1>2
<1>4. v < MediaMod
  <2>1. Data * (u + 1) <= Data * Rounds
    BY <1>0, <1>1, Products
  <2>2. Data * (u + 1) = Data * u + Data
    BY <1>0, <1>1
  <2> QED BY <2>1, <2>2, <1>0, <1>1, <1>2
<1>5. m % MediaMod = v
  <2>1. PICK d \in Nat \ {0} : d = MediaMod
    BY <1>0
  <2>2. v \in 0 .. d - 1 /\ t \in Int /\ m \in Int /\ m = d * t + v
    BY <1>0, <1>1, <1>2, <1>3, <1>4, <2>1
  <2>3. m % d = v
    BY <2>2, Quotient
  <2> QED BY <2>1, <2>3
<1>6. Time(n) = v
  BY <1>2, <1>5 DEF Time
<1>7. v = u * Data + r /\ v \in Media
  BY <1>0, <1>1, <1>2, <1>4 DEF Media
<1> QED BY <1>6, <1>7 DEF u

\* What a data packet carries ...
LEMMA SoundPacket ==
  ASSUME NEW n \in Nat, IsSound(n)
  PROVE  /\ IsData(n % SeqWrap) /\ Packet(n % SeqWrap).data = TRUE
         /\ Packet(n % SeqWrap).seq = n % SeqWrap /\ Packet(n % SeqWrap).media = Time(n)
         /\ Time(n) \in Media
<1>1. PICK b \in Nat, r \in 0 .. Span - 1 :
            /\ n \div Span = b /\ n % Span = r
            /\ DataBefore(n) = Data * b + (IF r < Data THEN r ELSE Data)
  BY Place
<1>2. r \in 0 .. Data - 1 /\ DataBefore(n) = Data * b + r
  BY <1>1, ReceiveConstants DEF IsSound
<1>3. Time(n) = (b % Rounds) * Data + r /\ Time(n) \in Media
  BY <1>2, OnClock
<1>4. (n % SeqWrap) % Span = r /\ (n % SeqWrap) \div Span = b % Rounds
  BY <1>1, OnWire
<1>5. IsData(n % SeqWrap)
  BY <1>2, <1>4, ReceiveConstants DEF IsData, Span
<1> QED BY <1>3, <1>4, <1>5 DEF Packet, Span

\* ... and what a parity packet carries.
LEMMA ParityPacket ==
  ASSUME NEW n \in Nat, ~IsSound(n)
  PROVE  /\ ~IsData(n % SeqWrap) /\ Packet(n % SeqWrap).data = FALSE
         /\ Packet(n % SeqWrap).media = Time(Start(n)) /\ Time(Start(n)) \in Media
         /\ Packet(n % SeqWrap).shard \in 0 .. Parity - 1
         /\ Packet(n % SeqWrap).seq - Data - Packet(n % SeqWrap).shard = Start(n) % SeqWrap
         /\ Start(n) + Data <= n /\ n < Start(n) + Span
<1>0. Data \in Nat /\ Data > 0 /\ Parity \in Nat /\ Span = Data + Parity
  BY ReceiveConstants DEF Span
<1>1. PICK b \in Nat, r \in 0 .. Span - 1 :
            /\ n = Span * b + r /\ n \div Span = b /\ n % Span = r
            /\ DataBefore(n) = Data * b + (IF r < Data THEN r ELSE Data)
  BY Place
<1>2. r >= Data /\ r \in Int
  BY <1>0, <1>1 DEF IsSound
<1>3. PICK s \in Nat : s = Start(n)
  BY StartIs
<1>4. s = Span * b + 0 /\ n = s + r
  <2>1. Span * b \in Nat
    BY <1>0
  <2> QED BY <2>1, <1>0, <1>1, <1>3 DEF Start
<1>5. DataBefore(s) = Data * b + 0
  <2>1. 0 \in 0 .. Span - 1
    BY <1>0
  <2> QED BY <2>1, <1>0, <1>4, PlaceIs
<1>6. Time(s) = (b % Rounds) * Data + 0 /\ Time(s) \in Media
  <2>1. 0 \in 0 .. Data - 1
    BY <1>0
  <2> QED BY <2>1, <1>5, OnClock
<1>7. (b % Rounds) * Data + 0 = (b % Rounds) * Data
  <2>1. b % Rounds \in Nat
    BY WrapIs
  <2> QED BY <2>1, <1>0
<1>8. (n % SeqWrap) % Span = r /\ (n % SeqWrap) \div Span = b % Rounds /\ n % SeqWrap \in Nat
      /\ (n % SeqWrap) - r = s % SeqWrap
  BY <1>1, <1>3, OnWire
<1>9. ~IsData(n % SeqWrap)
  BY <1>0, <1>2, <1>8 DEF IsData, Span
<1>10. PICK p : p = Packet(n % SeqWrap)
  OBVIOUS
<1>11. p.data = FALSE /\ p.media = (b % Rounds) * Data /\ p.shard = r - Data /\ p.seq = n % SeqWrap
  BY <1>8, <1>9, <1>10 DEF Packet, Span
<1>12. p.shard \in 0 .. Parity - 1 /\ p.seq - Data - p.shard = s % SeqWrap
  BY <1>0, <1>1, <1>2, <1>8, <1>11
<1>13. s + Data <= n /\ n < s + Span
  BY <1>0, <1>2, <1>4
<1> QED BY <1>3, <1>6, <1>7, <1>9, <1>10, <1>11, <1>12, <1>13

\* As many data packets are lost as DataBefore says.
LEMMA Sandwiched ==
  ASSUME NEW n \in Nat, NEW k \in Nat
  PROVE  Cardinality({i \in 0 .. k - 1 : IsSound(n + i)}) = DataBefore(n + k) - DataBefore(n)
<1> DEFINE A == {i \in 0 .. k - 1 : IsSound(n + i)}
           lo == DataBefore(n)
           hi == DataBefore(n + k)
           B == lo .. hi - 1
           f == [i \in A |-> DataBefore(n + i)]
<1>1. lo \in Nat /\ hi \in Nat /\ lo <= hi
  BY Counting
<1>2. \A i \in A : /\ DataBefore(n + i) \in Nat /\ lo <= DataBefore(n + i)
                   /\ DataBefore(n + i + 1) = DataBefore(n + i) + 1
                   /\ DataBefore(n + i + 1) <= hi
  <2>1. TAKE i \in A
  <2>2. PICK a \in Nat, b \in Nat, c \in Nat : a = n + i /\ b = n + i + 1 /\ c = n + k
    OBVIOUS
  <2>3. n <= a /\ b <= c /\ b = a + 1 /\ IsSound(a)
    BY <2>2
  <2>4. DataBefore(a) \in Nat /\ lo <= DataBefore(a) /\ DataBefore(b) <= DataBefore(c)
    BY <2>3, Counting
  <2>5. DataBefore(b) = DataBefore(a) + 1
    BY <2>3, CountNext
  <2> QED BY <2>2, <2>4, <2>5
<1>3. f \in [A -> B]
  BY <1>1, <1>2
<1>4. \A i \in A, j \in A : i < j => DataBefore(n + i) < DataBefore(n + j)
  <2>1. TAKE i \in A, j \in A
  <2>2. SUFFICES ASSUME i < j PROVE DataBefore(n + i) < DataBefore(n + j)
    OBVIOUS
  <2>3. PICK a \in Nat, b \in Nat, c \in Nat : a = n + i /\ b = n + i + 1 /\ c = n + j
    OBVIOUS
  <2>4. DataBefore(b) <= DataBefore(c)
    BY <2>2, <2>3, Counting
  <2>5. DataBefore(b) = DataBefore(a) + 1 /\ DataBefore(a) \in Nat
    BY <1>2, <2>3
  <2>6. DataBefore(a) < DataBefore(c)
    BY <2>3, <2>4, <2>5, Counting
  <2> QED BY <2>3, <2>6
<1>5. f \in Injection(A, B)
  <2>1. \A i \in A, j \in A : f[i] = f[j] => i = j
    BY <1>2, <1>4
  <2> QED BY <1>3, <2>1, Fun_IsInj
<1>6. \A v \in B : \E i \in A : f[i] = v
  <2>1. TAKE v \in B
  <2>2. v \in Nat /\ lo <= v /\ v < hi
    BY <1>1
  <2> HIDE DEF lo, hi
  <2>3. PICK b \in Nat, r \in 0 .. Data - 1 : v = Data * b + r
    <3>1. PICK s \in Nat \ {0} : s = Data
      BY ReceiveConstants
    <3>2. v = s * (v \div s) + (v % s) /\ v \div s \in Nat /\ v % s \in 0 .. s - 1
      BY <2>2
    <3> QED BY <3>1, <3>2
  <2>4. r \in 0 .. Span - 1 /\ r < Data /\ Span * b \in Nat
    BY <2>3, ReceiveConstants
  <2>5. PICK m \in Nat : m = Span * b + r
    BY <2>3, <2>4
  <2>6. m % Span = r /\ DataBefore(m) = v
    BY <2>3, <2>4, <2>5, PlaceIs
  <2>7. IsSound(m) /\ DataBefore(m + 1) = v + 1
    BY <2>4, <2>6, CountNext DEF IsSound
  <2>8. n <= m
    <3>1. SUFFICES ASSUME m + 1 <= n PROVE FALSE
      BY <2>5
    <3>2. PICK c \in Nat : c = m + 1
      BY <2>5
    <3>3. DataBefore(c) <= DataBefore(n)
      BY <3>1, <3>2, Counting
    <3> QED BY <1>1, <3>2, <3>3, <2>2, <2>7 DEF lo
  <2>9. m < n + k
    <3>1. SUFFICES ASSUME n + k <= m PROVE FALSE
      BY <2>5
    <3>2. PICK c \in Nat : c = n + k
      OBVIOUS
    <3>3. DataBefore(c) <= DataBefore(m)
      BY <3>1, <3>2, Counting
    <3> QED BY <1>1, <3>2, <3>3, <2>2, <2>6 DEF hi
  <2>10. PICK i \in 0 .. k - 1 : n + i = m
    <3>1. m - n \in 0 .. k - 1 /\ n + (m - n) = m
      BY <2>8, <2>9
    <3> QED BY <3>1
  <2>11. i \in A /\ f[i] = v
    BY <2>6, <2>7, <2>10
  <2> QED BY <2>11
<1>7. f \in Surjection(A, B)
  BY <1>3, <1>6, Fun_IsSurj
<1>8. IsFiniteSet(B) /\ Cardinality(B) = hi - lo
  <2> HIDE DEF lo, hi
  <2>1. PICK u \in Int : u = hi - 1
    BY <1>1
  <2>2. IsFiniteSet(lo .. u) /\ Cardinality(lo .. u) = IF lo > u THEN 0 ELSE u - lo + 1
    BY <1>1, FS_Interval
  <2> QED BY <1>1, <2>1, <2>2
<1>9. Cardinality(A) = Cardinality(B)
  <2> HIDE DEF f, A, B
  <2> QED BY <1>5, <1>7, <1>8, FS_Injection
<1> QED BY <1>8, <1>9

-----------------------------------------------------------------------------
Shards == [base : Seqs, data : [0 .. Data - 1 -> Media \cup {Missing}], fec : [0 .. Parity - 1 -> Media \cup {Missing}]]
Apart == Reach + Data

Spread(x, d) ==
  \A i, j \in 1 .. Len(x) : i < j => x[i] < x[j] /\ x[j] - x[i] <= (j - i) * d

\* Numbers that are close to one another stay so when one is added ...
LEMMA SpreadAppend ==
  ASSUME NEW d \in Nat, NEW x \in Seq(Nat), Spread(x, d), NEW a \in Nat,
         Len(x) > 0 => x[Len(x)] < a /\ a - x[Len(x)] <= d
  PROVE  Append(x, a) \in Seq(Nat) /\ Spread(Append(x, a), d)
<1> DEFINE y == Append(x, a)
<1>1. PICK m \in Nat : m = Len(x)
  OBVIOUS
<1>2. y \in Seq(Nat) /\ Len(y) = m + 1 /\ y[m + 1] = a /\ \A i \in 1 .. m : y[i] = x[i] /\ x[i] \in Nat
  BY <1>1
<1> HIDE DEF y
<1>3. SUFFICES ASSUME NEW i \in 1 .. m + 1, NEW j \in 1 .. m + 1, i < j
               PROVE  y[i] < y[j] /\ y[j] - y[i] <= (j - i) * d
  BY <1>2 DEF Spread, y
<1>4. CASE j <= m
  <2>1. i \in 1 .. m /\ j \in 1 .. m
    BY <1>3, <1>4
  <2> QED BY <2>1, <1>1, <1>2, <1>3 DEF Spread
<1>5. CASE j = m + 1
  <2>1. i \in 1 .. m /\ m \in 1 .. m /\ x[i] \in Nat /\ x[m] \in Nat /\ y[i] = x[i] /\ y[j] = a
    BY <1>2, <1>3, <1>5
  <2>2. i < m => x[i] < x[m] /\ x[m] - x[i] <= (m - i) * d
    BY <2>1, <1>1 DEF Spread
  <2>3. PICK e \in Nat : e = m - i
    BY <2>1
  <2>4. (j - i) * d = e * d + d /\ e * d \in Nat
    <3>1. j - i = e + 1
      BY <1>5, <2>1, <2>3
    <3>2. (e + 1) * d = e * d + d /\ e * d \in Nat
      OBVIOUS
    <3> QED BY <3>1, <3>2
  <2>5. x[m] < a /\ a - x[m] <= d
    BY <1>1, <2>1
  <2>6. PICK u \in Nat, v \in Nat : u = e * d /\ v = (j - i) * d /\ v = u + d
    BY <2>4
  <2>7. x[i] <= x[m] /\ x[m] - x[i] <= u
    <3>1. CASE i < m
      <4>1. (m - i) * d = u
        BY <2>3, <2>6
      <4> QED BY <3>1, <4>1, <2>1, <2>2, SMTT(60)
    <3>2. CASE i = m
      BY <3>2, <2>1, <2>6
    <3> QED BY <3>1, <3>2, <2>1
  <2>8. x[i] < a /\ a - x[i] <= v
    <3>1. v = u + d
      BY <2>6
    <3>2. PICK p \in Nat, q \in Nat : p = x[i] /\ q = x[m]
      BY <2>1
    <3>3. p <= q /\ q - p <= u
      BY <3>2, <2>7
    <3>4. q < a /\ a - q <= d
      BY <3>2, <2>5
    <3>5. p < a /\ a - p <= v
      BY <3>1, <3>3, <3>4
    <3> QED BY <3>2, <3>5
  <2> QED BY <2>1, <2>6, <2>8
<1> QED BY <1>3, <1>4, <1>5

\* ... or the first is dropped.
LEMMA SpreadTail ==
  ASSUME NEW d \in Nat, NEW x \in Seq(Nat), Spread(x, d), Len(x) > 0
  PROVE  Tail(x) \in Seq(Nat) /\ Spread(Tail(x), d)
<1> DEFINE y == Tail(x)
<1>1. PICK m \in Nat : m = Len(x) - 1
  OBVIOUS
<1>2. y \in Seq(Nat) /\ Len(y) = m /\ \A i \in 1 .. m : y[i] = x[i + 1]
  BY <1>1
<1> HIDE DEF y
<1>3. SUFFICES ASSUME NEW i \in 1 .. m, NEW j \in 1 .. m, i < j
               PROVE  y[i] < y[j] /\ y[j] - y[i] <= (j - i) * d
  BY <1>2 DEF Spread, y
<1>4. PICK ii \in 1 .. Len(x), jj \in 1 .. Len(x) : ii = i + 1 /\ jj = j + 1 /\ ii < jj /\ jj - ii = j - i
  BY <1>1, <1>3
<1>5. x[ii] < x[jj] /\ x[jj] - x[ii] <= (jj - ii) * d
  BY <1>4 DEF Spread
<1> QED BY <1>2, <1>4, <1>5

Numbered(c, x) ==
  /\ c \in Seq(Shards) /\ x \in Seq(Nat) /\ Len(x) = Len(c) /\ Len(c) <= CacheBlocks /\ Spread(x, Apart)
  /\ \A i \in 1 .. Len(c) : x[i] % Data = 0 /\ c[i].base = x[i] % SeqWrap

\* The bound between the starts of two cached blocks.
LEMMA ApartIs ==
  /\ Apart \in Nat \ {0} /\ Reach \in Nat \ {0} /\ Apart = Reach + Data
  /\ CacheBlocks * Apart <= SeqWrap /\ (PendingMax + 2) * Reach + Data <= SeqWrap
BY ReachIs, ReceiveConstants, WrapAssumption DEF Apart

\* A new block is a block.
LEMMA EmptyBlock ==
  ASSUME NEW a \in Seqs
  PROVE  NoShards(a) \in Shards /\ NoShards(a).base = a
BY ReceiveConstants DEF NoShards, Shards, Missing

\* Nothing in the cache is as far as a round of sequence numbers behind a.
LEMMA Recent ==
  ASSUME NEW c, NEW x, Numbered(c, x), NEW a \in Nat,
         Len(c) > 0 => x[Len(c)] <= a /\ a - x[Len(c)] < Apart,
         NEW i \in 1 .. Len(c)
  PROVE  /\ x[i] \in Nat /\ x[i] <= a /\ a - x[i] < SeqWrap
         /\ c[i].base = a % SeqWrap <=> x[i] = a
         /\ i < Len(c) => x[i] < a
<1> DEFINE L == Len(c)
<1>1. L \in Nat /\ L > 0 /\ x[i] \in Nat /\ x[L] \in Nat /\ L <= CacheBlocks /\ i \in Nat /\ i <= L
  BY DEF Numbered
<1>2. i < L => x[i] < x[L] /\ x[L] - x[i] <= (L - i) * Apart
  <2>1. i \in 1 .. Len(x) /\ L \in 1 .. Len(x) /\ Spread(x, Apart)
    BY <1>1 DEF Numbered
  <2> QED BY <2>1 DEF Spread
<1>3. x[L] <= a /\ a - x[L] < Apart
  BY <1>1
<1> HIDE DEF L
<1>4. (L - i) * Apart + Apart <= SeqWrap
  <2>1. L - i + 1 \in Int /\ L - i + 1 <= CacheBlocks
    BY <1>1, ReceiveConstants
  <2>2. PICK k \in Int : k = L - i + 1
    BY <2>1
  <2>3. Apart * k <= Apart * CacheBlocks
    BY <2>1, <2>2, ApartIs, ReceiveConstants, Products
  <2>4. Apart * k = (L - i) * Apart + Apart /\ Apart * CacheBlocks = CacheBlocks * Apart
    BY <2>2, <1>1, ApartIs, ReceiveConstants
  <2> QED BY <2>3, <2>4, <1>1, <2>2, ApartIs, ReceiveConstants
<1>5. x[i] <= a /\ a - x[i] < SeqWrap /\ (i < L => x[i] < a)
  <2>1. CASE i = L
    BY <2>1, <1>1, <1>3, <1>4, ApartIs, ReceiveConstants
  <2>2. CASE i < L
    <3>1. (L - i) * Apart \in Int
      BY <1>1, ApartIs
    <3> QED BY <2>2, <3>1, <1>1, <1>2, <1>3, <1>4, ApartIs, ReceiveConstants, SMTT(60)
  <2> QED BY <2>1, <2>2, <1>1
<1>6. c[i].base = x[i] % SeqWrap
  BY DEF Numbered
<1>7. x[i] % SeqWrap = a % SeqWrap => x[i] = a
  <2>1. x[i] - a < SeqWrap
    BY <1>1, <1>5, ReceiveConstants
  <2> QED BY <2>1, <1>1, <1>5, SameNumber
<1> QED BY <1>1, <1>5, <1>6, <1>7 DEF L

\* What get_block hands out for the base a: the block of a, last, after the others.
LEMMA GetBlock ==
  ASSUME NEW c, NEW x, Numbered(c, x), NEW a \in Nat, a % Data = 0,
         Len(c) > 0 => x[Len(c)] <= a /\ a - x[Len(c)] < Apart
  PROVE  \E y \in Seq(Nat) :
           LET g == audio_rtp_fec_get_block(c, a % SeqWrap)
               end == Len(g)
           IN  /\ Numbered(g, y) /\ end > 0 /\ y[end] = a
               /\ \A i \in 1 .. end : i < end => \E j \in 1 .. Len(c) : g[i] = c[j] /\ y[i] = x[j]
               /\ \/ \E j \in 1 .. Len(c) : x[j] = a /\ g[end] = c[j]
                  \/ g[end] = NoShards(a % SeqWrap)
<1> DEFINE L == Len(c)
           s == a % SeqWrap
           g == audio_rtp_fec_get_block(c, s)
           found == {i \in DOMAIN c : c[i].base = s}
           room == IF L = CacheBlocks THEN Tail(c) ELSE c
           rx == IF L = CacheBlocks THEN Tail(x) ELSE x
           Done(y) ==
             /\ Numbered(g, y) /\ Len(g) > 0 /\ y[Len(g)] = a
             /\ \A i \in 1 .. Len(g) : i < Len(g) => \E j \in 1 .. Len(c) : g[i] = c[j] /\ y[i] = x[j]
             /\ \/ \E j \in 1 .. Len(c) : x[j] = a /\ g[Len(g)] = c[j]
                \/ g[Len(g)] = NoShards(s)
<1>1. /\ c \in Seq(Shards) /\ x \in Seq(Nat) /\ Len(x) = L /\ L \in Nat /\ L <= CacheBlocks /\ DOMAIN c = 1 .. L
      /\ Spread(x, Apart) /\ CacheBlocks \in Nat \ {0}
  BY ReceiveConstants DEF Numbered
<1>2. \A i \in 1 .. L : /\ x[i] \in Nat /\ x[i] <= a /\ (c[i].base = s <=> x[i] = a) /\ (i < L => x[i] < a)
                        /\ c[i] \in Shards /\ x[i] % Data = 0 /\ c[i].base = x[i] % SeqWrap
  BY <1>1, Recent DEF Numbered
<1>3. s \in Seqs
  BY OnWire
<1>4. CASE found # {}
  <2>1. found = {L} /\ L > 0 /\ x[L] = a
    <3>1. \A i \in found : i \in 1 .. L /\ x[i] = a /\ i = L
      <4>1. TAKE i \in found
      <4>2. i \in 1 .. L /\ x[i] = a
        BY <1>1, <1>2
      <4>3. ~(i < L)
        BY <4>2, <1>2
      <4> QED BY <4>2, <4>3, <1>1
    <3> QED BY <1>4, <3>1
  <2>2. g = SubSeq(c, 1, L - 1) \o SubSeq(c, L + 1, L) \o <<c[L]>>
    <3>1. (CHOOSE j \in found : TRUE) = L
      BY <2>1
    <3> QED BY <1>4, <3>1 DEF audio_rtp_fec_get_block
  <2>3. g = c
    <3> DEFINE p == SubSeq(c, 1, L - 1)
               q == SubSeq(c, L + 1, L)
    <3>1. p \in Seq(Shards) /\ Len(p) = L - 1 /\ \A i \in 1 .. L - 1 : p[i] = c[i]
      BY <1>1, <2>1
    <3>2. q = <<>>
      BY <1>1, <2>1
    <3> HIDE DEF p
    <3>3. p \o q = p
      BY <3>1, <3>2
    <3>4. p \o <<c[L]>> = c
      <4>1. Len(p \o <<c[L]>>) = L /\ \A i \in 1 .. L : (p \o <<c[L]>>)[i] = c[i]
        BY <1>1, <2>1, <3>1
      <4>2. p \o <<c[L]>> \in Seq(Shards)
        BY <1>1, <1>2, <2>1, <3>1
      <4>3. Len(p \o <<c[L]>>) = Len(c)
        BY <4>1
      <4> QED BY <4>1, <4>2, <4>3, <1>1, SeqEqual
    <3> QED BY <2>2, <3>3, <3>4 DEF p
  <2>4. Done(x)
    <3> HIDE DEF g
    <3> QED BY <1>1, <2>1, <2>3
  <2> HIDE DEF g
  <2> QED BY <1>1, <2>4 DEF g
<1>5. CASE found = {}
  <2>1. \A i \in 1 .. L : x[i] < a
    <3>1. TAKE i \in 1 .. L
    <3>2. c[i].base # s
      BY <1>1, <1>5
    <3> HIDE DEF s, L
    <3>3. x[i] \in Nat /\ x[i] <= a /\ x[i] # a
      BY <1>2, <3>2
    <3> QED BY <3>3
  <2>2. g = Append(room, NoShards(s))
    BY <1>5 DEF audio_rtp_fec_get_block
  <2>3. PICK d \in {0, 1} : /\ room \in Seq(Shards) /\ rx \in Seq(Nat) /\ Len(room) = L - d /\ Len(rx) = L - d /\ L - d < CacheBlocks
                            /\ L - d \in Nat
                            /\ \A i \in 1 .. L - d : room[i] = c[i + d] /\ rx[i] = x[i + d] /\ i + d \in 1 .. L
    <3>1. CASE L = CacheBlocks
      BY <3>1, <1>1
    <3>2. CASE L # CacheBlocks
      BY <3>2, <1>1
    <3> QED BY <3>1, <3>2
  <2> HIDE DEF room, rx
  <2> DEFINE y == Append(rx, a)
             k == L - d + 1
  <2>4. /\ g \in Seq(Shards) /\ y \in Seq(Nat) /\ Len(g) = k /\ Len(y) = k /\ k \in Nat /\ k > 0 /\ k <= CacheBlocks
        /\ g[k] = NoShards(s) /\ y[k] = a
        /\ \A i \in 1 .. k : i < k => g[i] = c[i + d] /\ y[i] = x[i + d] /\ i + d \in 1 .. L
    <3> HIDE DEF g
    <3>1. NoShards(s) \in Shards
      BY <1>3, EmptyBlock
    <3>2. PICK m \in Nat, b \in Shards : m = L - d /\ b = NoShards(s)
      BY <2>3, <3>1
    <3>3. /\ Append(room, b) \in Seq(Shards) /\ Len(Append(room, b)) = m + 1 /\ Append(room, b)[m + 1] = b
          /\ \A i \in 1 .. m : Append(room, b)[i] = room[i]
      BY <2>3, <3>2
    <3>4. /\ y \in Seq(Nat) /\ Len(y) = m + 1 /\ y[m + 1] = a
          /\ \A i \in 1 .. m : y[i] = rx[i]
      BY <2>3, <3>2
    <3>5. k = m + 1 /\ g = Append(room, b) /\ k \in Nat /\ k > 0 /\ k <= CacheBlocks
      BY <2>2, <2>3, <3>2, <1>1
    <3> HIDE DEF y, k
    <3>6. \A i \in 1 .. k : i < k => i \in 1 .. m
      BY <3>5
    <3>7. \A i \in 1 .. k : i < k => g[i] = c[i + d] /\ y[i] = x[i + d] /\ i + d \in 1 .. L
      BY <2>3, <3>2, <3>3, <3>4, <3>5, <3>6
    <3> QED BY <3>2, <3>3, <3>4, <3>5, <3>7
  <2> HIDE DEF g, y, k
  <2>5. Spread(y, Apart)
    <3>1. Spread(rx, Apart)
      <4>1. rx = x \/ (L > 0 /\ rx = Tail(x))
        BY <1>1 DEF rx
      <4> QED BY <4>1, <1>1, ApartIs, SpreadTail
    <3>2. Len(rx) > 0 => rx[Len(rx)] < a /\ a - rx[Len(rx)] <= Apart
      <4>1. SUFFICES ASSUME Len(rx) > 0 PROVE rx[Len(rx)] < a /\ a - rx[Len(rx)] <= Apart
        OBVIOUS
      <4>2. Len(rx) = L - d /\ Len(rx) \in 1 .. L - d /\ L > 0 /\ L \in 1 .. L
        BY <4>1, <2>3, <1>1, SMTT(60)
      <4>3. rx[Len(rx)] = x[Len(rx) + d] /\ Len(rx) + d = L
        BY <4>2, <2>3, <1>1
      <4>4. x[L] < a /\ a - x[L] < Apart /\ x[L] \in Nat
        BY <4>2, <2>1, <1>2
      <4> QED BY <4>3, <4>4, ApartIs
    <3> QED BY <3>1, <3>2, <2>3, ApartIs, SpreadAppend DEF y
  <2>6. \A i \in 1 .. k : y[i] % Data = 0 /\ g[i].base = y[i] % SeqWrap
    <3>1. TAKE i \in 1 .. k
    <3>2. CASE i < k
      BY <3>2, <2>4, <1>2
    <3>3. CASE i = k
      <4>1. g[i] = NoShards(s) /\ y[i] = a
        BY <3>3, <2>4
      <4> QED BY <4>1, <1>3, EmptyBlock
    <3>4. i < k \/ i = k
      BY <2>4
    <3> QED BY <3>2, <3>3, <3>4
  <2>7. Numbered(g, y)
    BY <2>4, <2>5, <2>6 DEF Numbered
  <2>8. Done(y)
    BY <2>4, <2>7
  <2> QED BY <2>4, <2>8 DEF g
<1> QED BY <1>4, <1>5

-----------------------------------------------------------------------------
\* w: the last data packet and the ones put aside, all that are not older.
\* In the block of a no data packet of place c or later has come.
NoneFrom(a, c, w) == w[1] < a + c /\ \A k \in 2 .. Len(w) : w[k] < a + c \/ a + Data <= w[k]

Holds(b, a, n) ==
    /\ \A j \in 0 .. Data - 1 : b.data[j] # Missing => IsSound(a + j) /\ b.data[j] = Time(a + j)
    /\ \A j \in 0 .. Parity - 1 : b.fec[j] # Missing => a % Span = 0 /\ b.fec[j] = Time(a) /\ a + Data < n

Frontier(b, a, w) ==
    a % Span = 0 =>
      \A c \in 0 .. Data, j \in 0 .. Data - 1 :
        NoneFrom(a, c, w) /\ c <= j /\ b.data[j] # Missing => Data <= c + Cardinality(Present(b.fec))

ParityKnown(b, a, w, k) ==
    a % Span = 0 =>
      /\ Len(w) > 1 /\ w[2] < a + Data => Present(b.fec) = {}
      /\ a <= w[1] /\ w[1] < a + Data => Cardinality(Present(b.fec)) <= k

Good(b, a, n, w, k) == Holds(b, a, n) /\ Frontier(b, a, w) /\ ParityKnown(b, a, w, k)

Positions == {w \in Seq(Nat) : Len(w) > 0 /\ \A i, j \in 1 .. Len(w) : i < j => w[i] < w[j]}

\* The shards of a block are finitely many.
LEMMA PresentIs ==
  ASSUME NEW b \in Shards
  PROVE  /\ Present(b.fec) \subseteq 0 .. Parity - 1 /\ IsFiniteSet(Present(b.fec))
         /\ Cardinality(Present(b.fec)) \in Nat /\ Cardinality(Present(b.fec)) <= Parity
         /\ Present(b.data) \subseteq 0 .. Data - 1 /\ IsFiniteSet(Present(b.data))
         /\ Cardinality(Present(b.data)) \in Nat /\ Cardinality(Present(b.data)) <= Data
         /\ DOMAIN b.data = 0 .. Data - 1 /\ DOMAIN b.fec = 0 .. Parity - 1
<1>0. DOMAIN b.data = 0 .. Data - 1 /\ DOMAIN b.fec = 0 .. Parity - 1
  BY DEF Shards
<1>1. Present(b.fec) \subseteq 0 .. Parity - 1 /\ Present(b.data) \subseteq 0 .. Data - 1
  BY <1>0 DEF Present
<1>2. Parity - 1 \in Int /\ Data - 1 \in Int /\ 0 \in Int /\ 0 <= Parity - 1 /\ 0 <= Data - 1
  BY ReceiveConstants
<1>3. /\ IsFiniteSet(0 .. Parity - 1) /\ Cardinality(0 .. Parity - 1) = Parity
      /\ IsFiniteSet(0 .. Data - 1) /\ Cardinality(0 .. Data - 1) = Data
  BY <1>2, FS_Interval, ReceiveConstants
<1>4. Present(b.fec) \in SUBSET (0 .. Parity - 1) /\ Present(b.data) \in SUBSET (0 .. Data - 1)
  BY <1>1
<1>5. IsFiniteSet(Present(b.fec)) /\ Cardinality(Present(b.fec)) <= Cardinality(0 .. Parity - 1)
  BY <1>3, <1>4, FS_Subset
<1>6. IsFiniteSet(Present(b.data)) /\ Cardinality(Present(b.data)) <= Cardinality(0 .. Data - 1)
  BY <1>3, <1>4, FS_Subset
<1>7. Cardinality(Present(b.fec)) \in Nat /\ Cardinality(Present(b.data)) \in Nat
  BY <1>5, <1>6, FS_CardinalityType
<1> QED BY <1>0, <1>1, <1>3, <1>5, <1>6, <1>7

\* A block nobody has put anything into.
LEMMA EmptyGood ==
  ASSUME NEW s \in Seqs, NEW a \in Nat, NEW n \in Nat, NEW w, NEW k \in Nat
  PROVE  Good(NoShards(s), a, n, w, k)
<1>1. Present(NoShards(s).fec) = {}
  BY DEF Present, NoShards
<1>2. Cardinality({}) = 0
  BY FS_EmptySet
<1>3. \A j \in 0 .. Data - 1 : NoShards(s).data[j] = Missing
  BY DEF NoShards
<1>4. \A j \in 0 .. Parity - 1 : NoShards(s).fec[j] = Missing
  BY DEF NoShards
<1> HIDE DEF NoShards
<1> QED BY <1>1, <1>2, <1>3, <1>4 DEF Good, Holds, Frontier, ParityKnown

\* Time passes for a block: a parity packet is counted, ...
LEMMA GoodAfterParity ==
  ASSUME NEW b \in Shards, NEW a \in Nat, NEW n \in Nat, NEW m \in Nat, n <= m, NEW w \in Positions, NEW k \in Nat,
         Good(b, a, n, w, k)
  PROVE  Good(b, a, m, w, k) /\ Good(b, a, m, w, k + 1)
<1>1. Holds(b, a, m)
  BY ReceiveConstants DEF Good, Holds
<1>2. ParityKnown(b, a, w, k + 1)
  BY PresentIs DEF Good, ParityKnown
<1> QED BY <1>1, <1>2 DEF Good

\* ... a data packet is put aside, ...
LEMMA GoodAside ==
  ASSUME NEW b \in Shards, NEW a \in Nat, NEW n \in Nat, NEW y \in Nat, n <= y, NEW w \in Positions, NEW k \in Nat,
         \A i \in 1 .. Len(w) : w[i] < y, Good(b, a, n, w, k)
  PROVE  Good(b, a, y + 1, Append(w, y), k)
<1> DEFINE v == Append(w, y)
           L == Len(w)
<1>1. /\ w \in Seq(Nat) /\ L \in Nat /\ L > 0 /\ Len(v) = L + 1 /\ v[L + 1] = y /\ \A i \in 1 .. L : v[i] = w[i]
      /\ v[1] = w[1] /\ w[1] \in Nat
  BY DEF Positions
<1> HIDE DEF v
<1>2. Holds(b, a, y + 1)
  BY ReceiveConstants DEF Good, Holds
<1>3. \A c \in 0 .. Data : NoneFrom(a, c, v) => NoneFrom(a, c, w)
  <2>1. \A i \in 2 .. L : i \in 2 .. Len(v) /\ v[i] = w[i]
    BY <1>1
  <2> QED BY <1>1, <2>1 DEF NoneFrom
<1>4. Frontier(b, a, v)
  BY <1>3 DEF Good, Frontier
<1>5. ParityKnown(b, a, v, k)
  <2>1. SUFFICES ASSUME a % Span = 0 PROVE /\ v[2] < a + Data => Present(b.fec) = {}
                                           /\ a <= w[1] /\ w[1] < a + Data => Cardinality(Present(b.fec)) <= k
    BY <1>1 DEF ParityKnown
  <2>2. CASE L > 1
    BY <1>1, <2>1, <2>2 DEF Good, ParityKnown
  <2>3. CASE L = 1
    <3>1. v[2] = y
      BY <1>1, <2>3
    <3>2. y < a + Data => \A j \in 0 .. Parity - 1 : b.fec[j] = Missing
      BY ReceiveConstants DEF Good, Holds
    <3>3. y < a + Data => Present(b.fec) = {}
      BY <3>2, PresentIs DEF Present
    <3> QED BY <2>1, <3>1, <3>3 DEF Good, ParityKnown
  <2>4. L > 1 \/ L = 1
    <3>1. L \in Nat /\ L > 0
      BY <1>1
    <3> HIDE DEF L
    <3> QED BY <3>1
  <2> QED BY <2>2, <2>3, <2>4
<1> QED BY <1>2, <1>4, <1>5 DEF Good, v

\* ... is the next one of the turn, ...
LEMMA GoodNext ==
  ASSUME NEW b \in Shards, NEW a \in Nat, NEW n \in Nat, NEW y \in Nat, n <= y, NEW w \in Positions, NEW k \in Nat,
         Len(w) = 1, w[1] < y, Good(b, a, n, w, k)
  PROVE  Good(b, a, y + 1, <<y>>, 0)
<1>1. Holds(b, a, y + 1)
  BY ReceiveConstants DEF Good, Holds
<1>2. Frontier(b, a, <<y>>)
  <2>1. \A c \in 0 .. Data : NoneFrom(a, c, <<y>>) => NoneFrom(a, c, w)
    BY DEF NoneFrom, Positions
  <2> QED BY <2>1 DEF Good, Frontier
<1>3. ParityKnown(b, a, <<y>>, 0)
  <2>1. y < a + Data => \A j \in 0 .. Parity - 1 : b.fec[j] = Missing
    BY ReceiveConstants DEF Good, Holds
  <2>2. y < a + Data => Present(b.fec) = {}
    BY <2>1, PresentIs DEF Present
  <2>3. Len(<<y>>) = 1 /\ <<y>>[1] = y /\ Cardinality({}) = 0
    BY FS_EmptySet
  <2>4. y < a + Data => Cardinality(Present(b.fec)) <= 0
    BY <2>2, <2>3
  <2> QED BY <2>3, <2>4 DEF ParityKnown
<1> QED BY <1>1, <1>2, <1>3 DEF Good

\* ... or one put aside is.
LEMMA GoodResumed ==
  ASSUME NEW b \in Shards, NEW a \in Nat, NEW n \in Nat, NEW w \in Positions, NEW k \in Nat,
         Len(w) > 1, Good(b, a, n, w, k)
  PROVE  Good(b, a, n, Tail(w), 0)
<1> DEFINE v == Tail(w)
           L == Len(w)
<1>1. /\ w \in Seq(Nat) /\ L \in Nat /\ L > 1 /\ v \in Seq(Nat) /\ Len(v) = L - 1 /\ \A i \in 1 .. L - 1 : v[i] = w[i + 1]
      /\ v[1] = w[2] /\ w[1] \in Nat /\ w[2] \in Nat /\ w[1] < w[2]
  BY DEF Positions
<1> HIDE DEF v
<1>2. \A c \in 0 .. Data : NoneFrom(a, c, v) => NoneFrom(a, c, w)
  <2>1. SUFFICES ASSUME NEW c \in 0 .. Data, NoneFrom(a, c, v) PROVE NoneFrom(a, c, w)
    OBVIOUS
  <2>2. w[2] < a + c
    BY <1>1, <2>1 DEF NoneFrom
  <2>3. \A i \in 3 .. L : w[i] < a + c \/ a + Data <= w[i]
    <3>1. TAKE i \in 3 .. L
    <3>2. PICK j \in 2 .. L - 1 : i = j + 1
      <4>1. i - 1 \in 2 .. L - 1 /\ i = (i - 1) + 1
        BY <1>1
      <4> QED BY <4>1
    <3>3. v[j] = w[i] /\ j \in 2 .. Len(v)
      BY <1>1, <3>2
    <3> QED BY <2>1, <3>3 DEF NoneFrom
  <2>4. w[1] < a + c
    BY <1>1, <2>2
  <2> QED BY <1>1, <2>2, <2>3, <2>4 DEF NoneFrom
<1>3. Frontier(b, a, v)
  BY <1>2 DEF Good, Frontier
<1>4. ParityKnown(b, a, v, 0)
  <2>1. SUFFICES ASSUME a % Span = 0 PROVE /\ Len(v) > 1 /\ v[2] < a + Data => Present(b.fec) = {}
                                           /\ a <= v[1] /\ v[1] < a + Data => Cardinality(Present(b.fec)) <= 0
    BY DEF ParityKnown
  <2>2. w[2] < a + Data => Present(b.fec) = {}
    BY <1>1, <2>1 DEF Good, ParityKnown
  <2>3. Len(v) > 1 => v[2] = w[3] /\ w[2] < w[3] /\ w[3] \in Nat
    <3>1. SUFFICES ASSUME L > 2 PROVE v[2] = w[3] /\ w[2] < w[3] /\ w[3] \in Nat
      BY <1>1
    <3>2. 2 \in 1 .. L /\ 3 \in 1 .. L /\ 2 \in 1 .. L - 1
      BY <1>1, <3>1, SMTT(60)
    <3>3. v[2] = w[2 + 1] /\ 2 + 1 = 3
      BY <1>1, <3>2
    <3>4. w[2] < w[3]
      BY <3>2 DEF Positions
    <3>5. w[3] \in Nat
      BY <1>1, <3>2, SMTT(60)
    <3> QED BY <3>3, <3>4, <3>5
  <2>4. Cardinality({}) = 0
    BY FS_EmptySet
  <2>5. a + Data \in Nat
    BY ReceiveConstants
  <2>6. v[1] < a + Data => Cardinality(Present(b.fec)) <= 0
    <3>1. v[1] = w[2]
      BY <1>1
    <3>2. SUFFICES ASSUME v[1] < a + Data PROVE Cardinality(Present(b.fec)) <= 0
      OBVIOUS
    <3>3. Present(b.fec) = {}
      BY <3>1, <3>2, <2>2
    <3>4. Cardinality(Present(b.fec)) = 0
      BY <3>3, <2>4
    <3> QED BY <3>4
  <2>7. Len(v) > 1 /\ v[2] < a + Data => Present(b.fec) = {}
    <3>1. SUFFICES ASSUME Len(v) > 1, v[2] < a + Data PROVE w[2] < a + Data
      BY <2>2
    <3>2. v[2] = w[3] /\ w[2] < w[3] /\ w[3] \in Nat /\ w[2] \in Nat
      BY <1>1, <2>3, <3>1
    <3> QED BY <2>5, <3>1, <3>2
  <2> QED BY <2>6, <2>7
<1> QED BY <1>3, <1>4 DEF Good, v

\* What the packet of y puts into a block: a data shard, ...
LEMMA GoodData ==
  ASSUME NEW b \in Shards, NEW a \in Nat, NEW y \in Nat, IsSound(y), a = Base(y), NEW k \in Nat,
         NEW w \in Positions, w[Len(w)] = y,
         Good(b, a, y + 1, w, k),
         NEW f, f = [b EXCEPT !.data[y % Data] = IF @ = Missing THEN Time(y) ELSE @]
  PROVE  f \in Shards /\ f.base = b.base /\ Good(f, a, y + 1, w, k)
<1>1. PICK t \in 0 .. Data - 1 : t = y % Data /\ y = a + t
  BY BaseIs
<1>2. Time(y) \in Media
  BY SoundPacket
<1>3. /\ f \in Shards /\ f.base = b.base /\ f.fec = b.fec
      /\ \A j \in 0 .. Data - 1 : j # t => f.data[j] = b.data[j]
      /\ f.data[t] = IF b.data[t] = Missing THEN Time(y) ELSE b.data[t]
  BY <1>1, <1>2 DEF Shards
<1>4. Holds(f, a, y + 1)
  BY <1>1, <1>3 DEF Good, Holds
<1>5. Frontier(f, a, w)
  <2>1. SUFFICES ASSUME a % Span = 0, NEW c \in 0 .. Data, NEW j \in 0 .. Data - 1, NoneFrom(a, c, w), c <= j, f.data[j] # Missing
                 PROVE  Data <= c + Cardinality(Present(f.fec))
    BY DEF Frontier
  <2>2. j # t
    <3>1. SUFFICES ASSUME c <= t PROVE FALSE
      BY <2>1
    <3>2. PICK m \in Nat : m = Len(w) /\ m > 0
      BY DEF Positions
    <3>3. m = 1 \/ m \in 2 .. m
      BY <3>2
    <3>4. y < a + c \/ a + Data <= y
      BY <2>1, <3>2, <3>3 DEF NoneFrom
    <3>5. t \in Nat /\ c \in Nat /\ t < Data /\ Data \in Nat
      BY ReceiveConstants
    <3>6. y = a + t
      BY <1>1
    <3> QED BY <3>1, <3>4, <3>5, <3>6
  <2>3. b.data[j] # Missing
    BY <1>3, <2>1, <2>2
  <2> QED BY <1>3, <2>1, <2>3 DEF Good, Frontier
<1>6. ParityKnown(f, a, w, k)
  BY <1>3 DEF Good, ParityKnown
<1> QED BY <1>3, <1>4, <1>5, <1>6 DEF Good

\* ... or a parity shard.
LEMMA GoodShard ==
  ASSUME NEW b \in Shards, NEW y \in Nat, ~IsSound(y), NEW a \in Nat, a = Start(y), NEW k \in Nat,
         NEW w \in Positions, Len(w) = 1, NEW s \in 0 .. Parity - 1,
         Good(b, a, y + 1, w, k),
         NEW f, f = [b EXCEPT !.fec[s] = IF @ = Missing THEN Time(a) ELSE @]
  PROVE  f \in Shards /\ f.base = b.base /\ Good(f, a, y + 1, w, k + 1)
<1>1. Time(a) \in Media /\ a % Span = 0 /\ a + Data < y + 1
  <2>1. Time(Start(y)) \in Media /\ Start(y) + Data <= y
    BY ParityPacket
  <2>2. Start(y) % Span = 0
    BY StartIs
  <2> QED BY <2>1, <2>2, ReceiveConstants
<1>2. /\ f \in Shards /\ f.base = b.base /\ f.data = b.data
      /\ \A j \in 0 .. Parity - 1 : j # s => f.fec[j] = b.fec[j]
      /\ f.fec[s] = IF b.fec[s] = Missing THEN Time(a) ELSE b.fec[s]
  BY <1>1 DEF Shards
<1>3. Holds(f, a, y + 1)
  BY <1>1, <1>2 DEF Good, Holds
<1>4. Present(f.fec) = Present(b.fec) \/ Present(f.fec) = Present(b.fec) \cup {s}
  <2>1. DOMAIN b.fec = 0 .. Parity - 1 /\ DOMAIN f.fec = 0 .. Parity - 1
    BY <1>2, PresentIs
  <2>2. \A j \in 0 .. Parity - 1 : j # s => (j \in Present(f.fec) <=> j \in Present(b.fec))
    BY <1>2, <2>1 DEF Present
  <2>3. s \in Present(b.fec) => s \in Present(f.fec)
    BY <1>2, <2>1 DEF Present
  <2>4. Present(b.fec) \subseteq 0 .. Parity - 1 /\ Present(f.fec) \subseteq 0 .. Parity - 1
    BY <1>2, PresentIs
  <2>5. CASE s \in Present(f.fec)
    <3>1. \A j : j \in Present(f.fec) <=> j \in Present(b.fec) \cup {s}
      BY <2>2, <2>3, <2>4, <2>5
    <3> QED BY <3>1
  <2>6. CASE s \notin Present(f.fec)
    <3>1. \A j : j \in Present(f.fec) <=> j \in Present(b.fec)
      BY <2>2, <2>3, <2>4, <2>6
    <3> QED BY <3>1
  <2> QED BY <2>5, <2>6
<1>5. /\ Cardinality(Present(b.fec)) \in Nat /\ Cardinality(Present(f.fec)) \in Nat
      /\ Cardinality(Present(b.fec)) <= Cardinality(Present(f.fec))
      /\ Cardinality(Present(f.fec)) <= Cardinality(Present(b.fec)) + 1
  <2>1. IsFiniteSet(Present(b.fec)) /\ Cardinality(Present(b.fec)) \in Nat
    BY PresentIs
  <2>2. Cardinality(Present(b.fec) \cup {s}) =
          IF s \in Present(b.fec) THEN Cardinality(Present(b.fec)) ELSE Cardinality(Present(b.fec)) + 1
    BY <2>1, FS_AddElement
  <2>3. CASE Present(f.fec) = Present(b.fec)
    BY <2>1, <2>3
  <2>4. CASE Present(f.fec) = Present(b.fec) \cup {s}
    BY <2>1, <2>2, <2>4
  <2> QED BY <1>4, <2>3, <2>4
<1>6. Frontier(f, a, w)
  <2>1. SUFFICES ASSUME a % Span = 0, NEW c \in 0 .. Data, NEW j \in 0 .. Data - 1, NoneFrom(a, c, w), c <= j, f.data[j] # Missing
                 PROVE  Data <= c + Cardinality(Present(f.fec))
    BY DEF Frontier
  <2>2. Data <= c + Cardinality(Present(b.fec))
    BY <1>2, <2>1 DEF Good, Frontier
  <2> QED BY <1>5, <2>2, ReceiveConstants
<1>7. ParityKnown(f, a, w, k + 1)
  BY <1>1, <1>5 DEF Good, ParityKnown
<1> QED BY <1>2, <1>3, <1>6, <1>7 DEF Good

\* Reed-Solomon reconstruction: the frames it fills in are the ones of their places.
LEMMA GoodComplete ==
  ASSUME NEW b \in Shards, NEW a \in Nat, NEW n \in Nat, NEW w, NEW k \in Nat,
         Good(b, a, n, w, k), Complete(b), NEW f, f = audio_rtp_fec_complete(b)
  PROVE  /\ f \in Shards /\ f.base = b.base /\ Good(f, a, n, w, k)
         /\ \A j \in 0 .. Data - 1 : IsSound(a + j) /\ f.data[j] = Time(a + j)
<1> DEFINE origin == b.fec[CHOOSE i \in Present(b.fec) : TRUE]
<1>1. /\ DOMAIN b.data = 0 .. Data - 1 /\ b.fec \in [0 .. Parity - 1 -> Media \cup {Missing}]
      /\ b.data \in [0 .. Data - 1 -> Media \cup {Missing}] /\ b.base \in Seqs
  BY DEF Shards
<1>2. f = [b EXCEPT !.data = [i \in 0 .. Data - 1 |-> IF b.data[i] # Missing THEN b.data[i] ELSE (origin + i) % MediaMod]]
  BY <1>1 DEF audio_rtp_fec_complete
<1>3. /\ f.base = b.base /\ f.fec = b.fec
      /\ f = [base |-> b.base, data |-> f.data, fec |-> b.fec] /\ f.data = [i \in 0 .. Data - 1 |-> f.data[i]]
      /\ \A j \in 0 .. Data - 1 : f.data[j] = IF b.data[j] # Missing THEN b.data[j] ELSE (origin + j) % MediaMod
  <2> HIDE DEF origin
  <2> QED BY <1>2 DEF Shards
<1>4. Present(b.data) = 0 .. Data - 1 \/ (a % Span = 0 /\ origin = Time(a))
  <2>1. SUFFICES ASSUME Present(b.data) # 0 .. Data - 1 PROVE a % Span = 0 /\ origin = Time(a)
    OBVIOUS
  <2>2. Data <= Cardinality(Present(b.data)) + Cardinality(Present(b.fec))
    BY <1>1, <2>1 DEF Complete
  <2>3. Present(b.fec) # {}
    <3>1. SUFFICES ASSUME Present(b.fec) = {} PROVE FALSE
      OBVIOUS
    <3>2. Cardinality(Present(b.fec)) = 0
      BY <3>1, FS_EmptySet
    <3>3. Cardinality(Present(b.data)) = Data
      BY <2>2, <3>2, PresentIs, ReceiveConstants
    <3>4. IsFiniteSet(0 .. Data - 1) /\ Cardinality(0 .. Data - 1) = Data
      <4>1. 0 \in Int /\ Data - 1 \in Int /\ ~(0 > Data - 1) /\ Data - 1 - 0 + 1 = Data
        BY ReceiveConstants
      <4> QED BY <4>1, FS_Interval
    <3>5. Present(b.data) \in SUBSET (0 .. Data - 1)
      BY PresentIs
    <3>6. Present(b.data) = 0 .. Data - 1
      BY <3>3, <3>4, <3>5, FS_Subset
    <3> QED BY <3>6, <2>1
  <2>4. PICK i \in Present(b.fec) : origin = b.fec[i]
    BY <2>3
  <2>5. i \in 0 .. Parity - 1 /\ b.fec[i] # Missing
    BY <2>4, PresentIs DEF Present
  <2> QED BY <2>4, <2>5 DEF Good, Holds
<1> HIDE DEF origin
<1>5. \A j \in 0 .. Data - 1 : IsSound(a + j) /\ f.data[j] = Time(a + j)
  <2>1. TAKE j \in 0 .. Data - 1
  <2>2. CASE b.data[j] # Missing
    BY <1>3, <2>2 DEF Good, Holds
  <2>3. CASE b.data[j] = Missing
    <3>1. j \notin Present(b.data)
      BY <2>3 DEF Present
    <3>2. a % Span = 0 /\ origin = Time(a)
      BY <1>4, <3>1
    <3>3. j \in 0 .. Span - 1 /\ j < Data
      BY ReceiveConstants
    <3>4. IsSound(a + j) /\ DataBefore(a + j) = DataBefore(a) + j
      BY <3>2, <3>3, InBlock DEF IsSound
    <3>5. DataBefore(a) \in Nat
      BY Counting
    <3>6. ((DataBefore(a) % MediaMod) + j) % MediaMod = (DataBefore(a) + j) % MediaMod
      <4>1. PICK d \in Nat, e \in Nat : d = DataBefore(a) /\ e = j
        BY <3>5
      <4>2. MediaMod \in Nat \ {0}
        BY ReceiveConstants
      <4>3. ((d % MediaMod) + e) % MediaMod = (d + e) % MediaMod
        BY <4>2, Advance
      <4> QED BY <4>1, <4>3
    <3> QED BY <1>3, <2>3, <3>2, <3>4, <3>6 DEF Time
  <2> QED BY <2>2, <2>3
<1>6. \A j \in 0 .. Data - 1 : f.data[j] \in Media
  <2>1. TAKE j \in 0 .. Data - 1
  <2>2. PICK m \in Nat : m = a + j
    OBVIOUS
  <2>3. Time(m) \in Media
    BY <1>5, <2>2, SoundPacket
  <2> QED BY <1>5, <2>2, <2>3
<1>7. f \in Shards
  <2>1. f.data \in [0 .. Data - 1 -> Media \cup {Missing}]
    BY <1>3, <1>6
  <2> QED BY <1>1, <1>3, <2>1 DEF Shards
<1>8. Holds(f, a, n)
  BY <1>3, <1>5 DEF Good, Holds
<1>9. Frontier(f, a, w)
  <2>1. SUFFICES ASSUME a % Span = 0, NEW c \in 0 .. Data, NEW j \in 0 .. Data - 1, NoneFrom(a, c, w), c <= j
                 PROVE  Data <= c + Cardinality(Present(b.fec))
    BY <1>3 DEF Frontier
  <2>2. CASE \E i \in 0 .. Data - 1 : c <= i /\ b.data[i] # Missing
    BY <2>1, <2>2 DEF Good, Frontier
  <2>3. CASE \A i \in 0 .. Data - 1 : c <= i => b.data[i] = Missing
    <3>1. j \notin Present(b.data)
      BY <2>1, <2>3 DEF Present
    <3>2. Data <= Cardinality(Present(b.data)) + Cardinality(Present(b.fec))
      BY <1>1, <3>1 DEF Complete
    <3>3. Cardinality(Present(b.data)) <= c
      <4>1. Present(b.data) \in SUBSET (0 .. c - 1)
        <5>1. \A i \in Present(b.data) : i \in 0 .. Data - 1 /\ b.data[i] # Missing
          BY PresentIs DEF Present
        <5>2. \A i \in Present(b.data) : ~(c <= i) /\ i \in Int /\ 0 <= i
          BY <2>3, <5>1
        <5> QED BY <5>2
      <4>2. IsFiniteSet(0 .. c - 1) /\ Cardinality(0 .. c - 1) = c
        <5>1. 0 \in Int /\ c - 1 \in Int /\ (0 > c - 1 => c = 0) /\ c - 1 - 0 + 1 = c
          OBVIOUS
        <5> QED BY <5>1, FS_Interval
      <4> QED BY <4>1, <4>2, FS_Subset
    <3> QED BY <3>2, <3>3, PresentIs, ReceiveConstants
  <2> QED BY <2>2, <2>3
<1>10. ParityKnown(f, a, w, k)
  BY <1>3 DEF Good, ParityKnown
<1> QED BY <1>3, <1>5, <1>7, <1>8, <1>9, <1>10 DEF Good

-----------------------------------------------------------------------------
\* n: the number of the host's next packet.
Line(n, w) ==
  /\ n \in Nat /\ w \in Positions /\ Spread(w, Reach)
  /\ \A i \in 1 .. Len(w) : w[i] < n /\ IsSound(w[i])
  /\ \A i \in 2 .. Len(w) : DataBefore(w[i]) - DataBefore(w[i - 1]) <= MaxBurst + 1
  /\ DataBefore(n) - DataBefore(w[Len(w)]) <= MaxBurst + 1

\* x: the numbers the blocks of the cache c start with.
Edge(c, x, n, w) ==
  Len(c) > 0 => /\ x[Len(c)] < n /\ w[Len(w)] < x[Len(c)] + Data
                /\ x[Len(c)] <= w[Len(w)] \/ x[Len(c)] % Span = 0
Cache(c, x, n, w, k) ==
  Numbered(c, x) /\ Edge(c, x, n, w) /\ \A i \in 1 .. Len(c) : Good(c[i], x[i], n, w, k)

\* Of the blocks other than a's, none is new or changed.
Kept(d, u, c, x, a) ==
  \A i \in 1 .. Len(d) : u[i] # a => \E j \in 1 .. Len(c) : d[i] = c[j] /\ u[i] = x[j]

\* The thread's last packet is sound and comes before the host's next.
LEMMA LastIs ==
  ASSUME NEW n, NEW w, Line(n, w)
  PROVE  /\ Len(w) \in Nat /\ Len(w) > 0 /\ w[1] \in Nat /\ w[Len(w)] \in Nat /\ n \in Nat
         /\ w[Len(w)] < n /\ IsSound(w[Len(w)]) /\ IsSound(w[1]) /\ w[1] <= w[Len(w)] /\ w[1] < n
         /\ \A i \in 1 .. Len(w) : w[i] <= w[Len(w)] /\ w[i] \in Nat
<1>1. w \in Seq(Nat) /\ n \in Nat
  BY DEF Line, Positions
<1>2. PICK m \in Nat : m = Len(w) /\ m > 0
  BY DEF Line, Positions
<1>3. 1 \in 1 .. m /\ m \in 1 .. m
  BY <1>2
<1>4. w[1] \in Nat /\ w[m] \in Nat /\ w[m] < n /\ IsSound(w[m]) /\ IsSound(w[1]) /\ w[1] < n
  BY <1>1, <1>2, <1>3 DEF Line
<1>5. \A i \in 1 .. m : w[i] <= w[m] /\ w[i] \in Nat
  <2>1. TAKE i \in 1 .. m
  <2>2. i < m => w[i] < w[m]
    BY <1>2, <1>3 DEF Line, Positions
  <2>3. w[i] \in Nat /\ (i < m \/ i = m)
    BY <1>1, <1>2
  <2> QED BY <1>4, <2>2, <2>3
<1> QED BY <1>1, <1>2, <1>3, <1>4, <1>5

\* A multiple below the end of a block is not after its start.
LEMMA Multiples ==
  ASSUME NEW s \in Nat \ {0}, NEW f \in Nat, NEW a \in Nat, f % s = 0, a % s = 0, f < a + s
  PROVE  f <= a
<1> DEFINE q == f \div s
           p == a \div s
<1>1. q \in Nat /\ f = s * q /\ p \in Nat /\ a = s * p
  OBVIOUS
<1> HIDE DEF p, q
<1>2. SUFFICES ASSUME a < f PROVE FALSE
  BY <1>1
<1>3. p < q
  BY <1>1, <1>2, Products
<1>4. s * (p + 1) <= s * q /\ s * (p + 1) = s * p + s
  BY <1>1, <1>3, Products
<1>5. a + s <= f
  <2>1. PICK i \in Int, j \in Int : i = s * p /\ j = s * q /\ i + s <= j
    BY <1>1, <1>4
  <2> QED BY <2>1, <1>1
<1> QED BY <1>5

\* A data packet arrives: it is put into its block.
LEMMA CacheData ==
  ASSUME NEW n, NEW w, Line(n, w), NEW c, NEW x, NEW k0, Cache(c, x, n, w, k0),
         NEW y \in Nat, n <= y, IsSound(y), DataBefore(y) - DataBefore(w[Len(w)]) <= MaxBurst + 1,
         NEW v \in Positions, v[Len(v)] = y, NEW k \in Nat,
         \A i \in 1 .. Len(c) : Good(c[i], x[i], y + 1, v, k)
  PROVE  \E u \in Seq(Nat) :
            LET d == audio_rtp_fec_cache_data(c, y % SeqWrap, Time(y))
            IN  Cache(d, u, y + 1, v, k) /\ Kept(d, u, c, x, Base(y))
<1>1. PICK a \in Nat, l \in Nat, t \in 0 .. Data - 1 :
         a = Base(y) /\ l = w[Len(w)] /\ t = y % Data /\ a % Data = 0 /\ y = a + t /\ a <= y /\ y < a + Data
  BY BaseIs, LastIs
<1>1a. y < a + Data /\ a <= y
  BY <1>1
<1>2. y - l <= Reach
  <2>1. IsSound(l) /\ l < n /\ n \in Nat
    BY <1>1, LastIs
  <2>2. l <= y /\ DataBefore(y) - DataBefore(l) <= MaxBurst + 1
    BY <1>1, <2>1
  <2> QED BY <2>1, <2>2, WithinReach
<1>3. (y % SeqWrap) % Data = t /\ audio_fec_base_seq(y % SeqWrap) = a % SeqWrap
  BY <1>1, OnWire DEF audio_fec_base_seq
<1>4. Numbered(c, x) /\ Len(c) \in Nat /\ (Len(c) > 0 => x[Len(c)] \in Nat /\ x[Len(c)] < n /\ l < x[Len(c)] + Data /\ x[Len(c)] % Data = 0)
  <2>1. Numbered(c, x) /\ Edge(c, x, n, w)
    BY DEF Cache
  <2>2. Len(c) \in Nat /\ x \in Seq(Nat) /\ Len(x) = Len(c) /\ \A i \in 1 .. Len(c) : x[i] % Data = 0
    BY <2>1 DEF Numbered
  <2>3. Len(c) > 0 => x[Len(c)] \in Nat /\ x[Len(c)] % Data = 0
    <3>1. PICK m \in Nat : m = Len(c)
      BY <2>2
    <3>2. m > 0 => m \in 1 .. m
      BY <3>1
    <3> QED BY <2>2, <3>1, <3>2
  <2> QED BY <1>1, <2>1, <2>2, <2>3 DEF Edge
<1>5. Len(c) > 0 => x[Len(c)] <= a /\ a - x[Len(c)] < Apart
  <2>1. SUFFICES ASSUME Len(c) > 0 PROVE x[Len(c)] <= a /\ a - x[Len(c)] < Apart
    OBVIOUS
  <2>2. PICK f \in Nat : f = x[Len(c)] /\ f < n /\ l < f + Data /\ f % Data = 0
    BY <1>4, <2>1
  <2>3. n \in Nat
    BY LastIs
  <2>4. f <= a
    <3>1. f < a + Data
      <4>1. f < n
        BY <2>2
      <4>2. a + Data \in Nat
        BY ReceiveConstants
      <4> QED BY <1>1a, <2>3, <4>1, <4>2
    <3> QED BY <1>1, <2>2, <3>1, Multiples, ReceiveConstants
  <2>5. a - f < Apart
    <3>1. Reach \in Nat /\ Data \in Nat /\ Apart = Reach + Data
      BY ApartIs, ReceiveConstants
    <3>2. a <= y /\ y - l <= Reach /\ l < f + Data
      BY <1>1, <1>2, <2>2
    <3> QED BY <2>2, <3>1, <3>2
  <2> QED BY <2>2, <2>4, <2>5
<1> DEFINE g == audio_rtp_fec_get_block(c, a % SeqWrap)
           m == Len(g)
<1>6. PICK u \in Seq(Nat) :
         /\ Numbered(g, u) /\ m > 0 /\ u[m] = a
         /\ \A i \in 1 .. m : i < m => \E j \in 1 .. Len(c) : g[i] = c[j] /\ u[i] = x[j]
         /\ \/ \E j \in 1 .. Len(c) : x[j] = a /\ g[m] = c[j]
            \/ g[m] = NoShards(a % SeqWrap)
  <2>1. a % Data = 0 /\ Numbered(c, x)
    BY <1>1, <1>4
  <2> QED BY <2>1, <1>5, GetBlock
<1> DEFINE d == audio_rtp_fec_cache_data(c, y % SeqWrap, Time(y))
           f == [g[m] EXCEPT !.data[y % Data] = IF @ = Missing THEN Time(y) ELSE @]
<1>7. d = [g EXCEPT ![m] = f]
  <2>1. d = [g EXCEPT ![m].data[t] = IF @ = Missing THEN Time(y) ELSE @]
    BY <1>3 DEF audio_rtp_fec_cache_data
  <2> QED BY <1>1, <2>1
<1> HIDE DEF g, d
<1>8. g \in Seq(Shards) /\ Len(g) \in Nat /\ m \in 1 .. Len(g) /\ Len(u) = m /\ g[m] \in Shards
  <2>1. g \in Seq(Shards) /\ Len(g) \in Nat /\ Len(u) = Len(g)
    BY <1>6 DEF Numbered
  <2>2. m \in 1 .. Len(g)
    BY <1>6, <2>1
  <2> QED BY <2>1, <2>2
<1> HIDE DEF m
<1>9. Good(g[m], a, y + 1, v, k)
  <2>1. a % SeqWrap \in Seqs
    BY OnWire
  <2>2. CASE g[m] = NoShards(a % SeqWrap)
    BY <2>1, <2>2, EmptyGood
  <2>3. CASE \E j \in 1 .. Len(c) : x[j] = a /\ g[m] = c[j]
    BY <2>3
  <2> QED BY <1>6, <2>2, <2>3
<1>10. f \in Shards /\ f.base = g[m].base /\ Good(f, a, y + 1, v, k)
  BY <1>1, <1>8, <1>9, GoodData, SMTT(60)
<1> HIDE DEF f
<1>11. d \in Seq(Shards) /\ Len(d) = m /\ d[m] = f /\ \A i \in 1 .. m : i # m => d[i] = g[i]
  BY <1>7, <1>8, <1>10 DEF m
<1>12. m = Len(g) /\ m \in Nat /\ m > 0
  BY <1>8 DEF m
<1>13. Numbered(d, u)
  <2>1. \A i \in 1 .. m : d[i].base = g[i].base
    BY <1>10, <1>11
  <2> QED BY <1>6, <1>11, <1>12, <2>1 DEF Numbered
<1>14. \A i \in 1 .. m : i < m => \E j \in 1 .. Len(c) : d[i] = c[j] /\ u[i] = x[j]
  BY <1>6, <1>11, <1>12
<1>15. \A i \in 1 .. m : i # m => i < m
  BY <1>12
<1>16. \A i \in 1 .. Len(d) : Good(d[i], u[i], y + 1, v, k)
  BY <1>6, <1>10, <1>11, <1>14, <1>15
<1>17. Edge(d, u, y + 1, v)
  <2>1. Len(d) = m /\ u[m] = a /\ v[Len(v)] = y
    BY <1>6, <1>11, <1>12
  <2>2. a < y + 1 /\ y < a + Data /\ a <= y
    BY <1>1a
  <2> QED BY <2>1, <2>2 DEF Edge
<1>18. Kept(d, u, c, x, Base(y))
  BY <1>1, <1>6, <1>11, <1>14, <1>15 DEF Kept
<1>19. Cache(d, u, y + 1, v, k)
  BY <1>13, <1>16, <1>17 DEF Cache
<1> QED BY <1>18, <1>19 DEF d

\* A data packet before a parity packet lies before the parity of its block.
LEMMA SoundBefore ==
  ASSUME NEW y \in Nat, ~IsSound(y), NEW l \in Nat, IsSound(l), l < y
  PROVE  l < Start(y) + Data
<1>1. PICK a \in Nat : a = Start(y) /\ a % Span = 0 /\ a <= y
  BY StartIs
<1>2. y < a + Span /\ Span \in Nat /\ Data \in Nat
  BY <1>1, ParityPacket, ReceiveConstants
<1>3. CASE l < a
  BY <1>1, <1>2, <1>3
<1>4. CASE a <= l
  <2>1. PICK j \in 0 .. Span - 1 : l = a + j
    <3>1. l - a \in 0 .. Span - 1 /\ l = a + (l - a)
      BY <1>2, <1>4
    <3> QED BY <3>1
  <2>2. l % Span = j
    BY <1>1, <2>1, InBlock
  <2>3. j < Data
    BY <2>2 DEF IsSound
  <2>4. a + j < a + Data
    BY <1>2, <2>1, <2>3
  <2> QED BY <1>1, <2>1, <2>4
<1> QED BY <1>3, <1>4

\* A parity packet arrives: it is put into the block it is about, unless the base of that
\* block is none of the cache's.
LEMMA CacheParity ==
  ASSUME NEW n, NEW w, Line(n, w), Len(w) = 1, NEW c, NEW x, NEW k \in Nat, Cache(c, x, n, w, k),
         NEW y \in Nat, n <= y, ~IsSound(y), DataBefore(y) - DataBefore(w[1]) <= MaxBurst + 1,
         NEW s \in 0 .. Parity - 1
  PROVE  \E u \in Seq(Nat) :
            LET d == audio_rtp_fec_cache_parity(c, Start(y) % SeqWrap, s, Time(Start(y)))
            IN  Cache(d, u, y + 1, w, k + 1) /\ Kept(d, u, c, x, Start(y))
<1>1. PICK a \in Nat, l \in Nat :
         a = Start(y) /\ l = w[1] /\ a <= y /\ y < a + Span /\ l < y /\ l < n /\ n \in Nat /\ IsSound(l)
  <2>1. y < Start(y) + Span /\ Start(y) \in Nat /\ Start(y) <= y
    BY ParityPacket, StartIs
  <2>2. w[1] \in Nat /\ w[1] < n /\ n \in Nat /\ IsSound(w[1])
    BY LastIs
  <2> QED BY <2>1, <2>2
<1>2. y - l <= Reach /\ l < a + Data
  BY <1>1, WithinReach, SoundBefore
<1>3. a % Span = 0 /\ (a % SeqWrap) % Data = a % Data /\ w \in Positions
  BY <1>1, StartIs, OnWire DEF Line
<1>4. /\ Numbered(c, x) /\ Len(c) \in Nat /\ x \in Seq(Nat) /\ Len(x) = Len(c) /\ c \in Seq(Shards)
      /\ \A i \in 1 .. Len(c) : c[i] \in Shards /\ x[i] \in Nat /\ Good(c[i], x[i], n, w, k)
  <2>1. Numbered(c, x)
    BY DEF Cache
  <2>2. Len(c) \in Nat /\ x \in Seq(Nat) /\ Len(x) = Len(c) /\ c \in Seq(Shards)
    BY <2>1 DEF Numbered
  <2>3. \A i \in 1 .. Len(c) : c[i] \in Shards /\ x[i] \in Nat
    BY <2>2
  <2> QED BY <2>1, <2>2, <2>3 DEF Cache
<1>5. \A i \in 1 .. Len(c) : Good(c[i], x[i], y + 1, w, k) /\ Good(c[i], x[i], y + 1, w, k + 1)
  <2>1. PICK m \in Nat : m = y + 1 /\ n <= m
    BY <1>1
  <2> QED BY <1>1, <1>3, <1>4, <2>1, GoodAfterParity
<1>6. Len(c) > 0 => /\ x[Len(c)] \in Nat /\ x[Len(c)] < n /\ l < x[Len(c)] + Data /\ x[Len(c)] % Data = 0
                    /\ x[Len(c)] <= l \/ x[Len(c)] % Span = 0
  <2>1. PICK m \in Nat : m = Len(c)
    BY <1>4
  <2>2. m > 0 => m \in 1 .. m
    BY <2>1
  <2>3. m > 0 => x[m] % Data = 0
    BY <1>4, <2>1, <2>2 DEF Numbered
  <2>4. Edge(c, x, n, w)
    BY DEF Cache
  <2> QED BY <1>1, <1>4, <2>1, <2>2, <2>3, <2>4 DEF Edge
<1> DEFINE d == audio_rtp_fec_cache_parity(c, a % SeqWrap, s, Time(a))
<1>7. CASE a % Data # 0
  <2>1. d = c
    BY <1>3, <1>7 DEF audio_rtp_fec_cache_parity
  <2>2. Edge(c, x, y + 1, w)
    <3>1. \A f \in Nat : f < n => f < y + 1
      BY <1>1
    <3> QED BY <1>1, <1>6, <3>1 DEF Edge, Cache
  <2>3. Cache(c, x, y + 1, w, k + 1)
    BY <1>4, <1>5, <2>2 DEF Cache
  <2>4. Kept(c, x, c, x, a)
    BY DEF Kept
  <2> HIDE DEF d
  <2>5. Cache(d, x, y + 1, w, k + 1) /\ Kept(d, x, c, x, a)
    BY <2>1, <2>3, <2>4
  <2> QED BY <1>1, <1>4, <2>5 DEF d
<1>8. CASE a % Data = 0
  <2>1. Len(c) > 0 => x[Len(c)] <= a /\ a - x[Len(c)] < Apart
    <3>1. SUFFICES ASSUME Len(c) > 0 PROVE x[Len(c)] <= a /\ a - x[Len(c)] < Apart
      OBVIOUS
    <3>2. PICK f \in Nat : f = x[Len(c)] /\ f < n /\ l < f + Data /\ f % Data = 0 /\ (f <= l \/ f % Span = 0)
      BY <1>6, <3>1
    <3>3. f < a + Span
      BY <1>1, <3>2, ReceiveConstants
    <3>4. f <= a
      <4>1. CASE f <= l
        <5>1. f < a + Data
          BY <1>1, <1>2, <3>2, <4>1, ReceiveConstants, SMTT(60)
        <5> QED BY <1>8, <3>2, <5>1, Multiples, ReceiveConstants
      <4>2. CASE f % Span = 0
        BY <1>3, <3>3, <4>2, Multiples, ReceiveConstants
      <4> QED BY <3>2, <4>1, <4>2
    <3>5. a - f < Apart
      <4>1. Reach \in Nat /\ Data \in Nat /\ Apart = Reach + Data
        BY ApartIs, ReceiveConstants
      <4>2. l < f + Data
        BY <3>2
      <4> QED BY <1>1, <1>2, <4>1, <4>2
    <3> QED BY <3>2, <3>4, <3>5
  <2> DEFINE g == audio_rtp_fec_get_block(c, a % SeqWrap)
             m == Len(g)
  <2>2. PICK u \in Seq(Nat) :
           /\ Numbered(g, u) /\ m > 0 /\ u[m] = a
           /\ \A i \in 1 .. m : i < m => \E j \in 1 .. Len(c) : g[i] = c[j] /\ u[i] = x[j]
           /\ \/ \E j \in 1 .. Len(c) : x[j] = a /\ g[m] = c[j]
              \/ g[m] = NoShards(a % SeqWrap)
    <3>1. a % Data = 0 /\ Numbered(c, x)
      BY <1>4, <1>8
    <3> QED BY <3>1, <2>1, GetBlock
  <2> DEFINE f == [g[m] EXCEPT !.fec[s] = IF @ = Missing THEN Time(a) ELSE @]
  <2>3. d = [g EXCEPT ![m] = f]
    BY <1>3, <1>8 DEF audio_rtp_fec_cache_parity
  <2> HIDE DEF g, d
  <2>4. g \in Seq(Shards) /\ Len(g) \in Nat /\ m \in 1 .. Len(g) /\ Len(u) = m /\ g[m] \in Shards
    <3>1. g \in Seq(Shards) /\ Len(g) \in Nat /\ Len(u) = Len(g)
      BY <2>2 DEF Numbered
    <3>2. m \in 1 .. Len(g)
      BY <2>2, <3>1
    <3> QED BY <3>1, <3>2
  <2> HIDE DEF m
  <2>5. Good(g[m], a, y + 1, w, k)
    <3>1. a % SeqWrap \in Seqs /\ y + 1 \in Nat
      BY OnWire
    <3>2. CASE g[m] = NoShards(a % SeqWrap)
      BY <3>1, <3>2, EmptyGood
    <3>3. CASE \E j \in 1 .. Len(c) : x[j] = a /\ g[m] = c[j]
      BY <1>5, <3>3
    <3> QED BY <2>2, <3>2, <3>3
  <2>6. f \in Shards /\ f.base = g[m].base /\ Good(f, a, y + 1, w, k + 1)
    BY <1>1, <1>3, <2>4, <2>5, GoodShard
  <2> HIDE DEF f
  <2>7. d \in Seq(Shards) /\ Len(d) = m /\ d[m] = f /\ \A i \in 1 .. m : i # m => d[i] = g[i]
    BY <2>3, <2>4, <2>6 DEF m
  <2>8. m = Len(g) /\ m \in Nat /\ m > 0
    BY <2>4 DEF m
  <2>9. Numbered(d, u)
    <3>1. \A i \in 1 .. m : d[i].base = g[i].base
      BY <2>6, <2>7
    <3> QED BY <2>2, <2>7, <2>8, <3>1 DEF Numbered
  <2>10. \A i \in 1 .. m : i < m => \E j \in 1 .. Len(c) : d[i] = c[j] /\ u[i] = x[j]
    BY <2>2, <2>7, <2>8
  <2>11. \A i \in 1 .. m : i # m => i < m
    BY <2>8
  <2>12. \A i \in 1 .. Len(d) : Good(d[i], u[i], y + 1, w, k + 1)
    BY <1>5, <2>2, <2>6, <2>7, <2>10, <2>11
  <2>13. Edge(d, u, y + 1, w)
    <3>1. Len(d) = m /\ u[m] = a /\ w[Len(w)] = l
      BY <1>1, <2>2, <2>7
    <3> QED BY <3>1, <1>1, <1>2, <1>3 DEF Edge
  <2>14. Kept(d, u, c, x, a)
    BY <2>2, <2>7, <2>10, <2>11 DEF Kept
  <2>15. Cache(d, u, y + 1, w, k + 1)
    BY <2>9, <2>12, <2>13 DEF Cache
  <2> QED BY <1>1, <2>14, <2>15 DEF d
<1> QED BY <1>7, <1>8

-----------------------------------------------------------------------------
\* The host's next packet is y, after the ones that are lost.
LEMMA Arrival ==
  ASSUME NEW n, NEW w, Line(n, w),
         host = [seq |-> n % SeqWrap, lost |-> DataBefore(n) - DataBefore(w[Len(w)]) - 1],
         NEW lost \in Losses, Arrives(lost)
  PROVE  \E y \in Nat : /\ n <= y /\ Received(lost) = Packet(y % SeqWrap)
                        /\ DataBefore(y) - DataBefore(w[Len(w)]) <= MaxBurst + 1
                        /\ host' = [seq |-> (y + 1) % SeqWrap,
                                    lost |-> IF IsSound(y) THEN 0 ELSE DataBefore(y + 1) - DataBefore(w[Len(w)]) - 1]
<1>1. PICK m \in Nat, l \in Nat, k \in Nat : m = n /\ l = w[Len(w)] /\ k = lost /\ SeqWrap \in Nat \ {0}
  BY LastIs, ReceiveConstants DEF Losses
<1>2. PICK y \in Nat : y = m + k
  OBVIOUS
<1>3. \A i \in Nat : (host.seq + i) % SeqWrap = (m + i) % SeqWrap
  BY <1>1, Advance, ZenonT(90)
<1>4. \A i \in Nat : IsData((host.seq + i) % SeqWrap) <=> IsSound(m + i)
  <2>1. TAKE i \in Nat
  <2>2. PICK j \in Nat : j = m + i
    OBVIOUS
  <2>3. (j % SeqWrap) % Span = j % Span
    BY OnWire
  <2> QED BY <1>3, <2>2, <2>3 DEF IsData, IsSound, Span
<1>5. {i \in 0 .. lost - 1 : IsData((host.seq + i) % SeqWrap)} = {i \in 0 .. k - 1 : IsSound(m + i)}
  <2>1. \A i \in 0 .. k - 1 : IsData((host.seq + i) % SeqWrap) <=> IsSound(m + i)
    BY <1>4
  <2>2. {i \in 0 .. k - 1 : IsData((host.seq + i) % SeqWrap)} = {i \in 0 .. k - 1 : IsSound(m + i)}
    BY <2>1
  <2> QED BY <1>1, <2>2
<1>6. Cardinality({i \in 0 .. lost - 1 : IsData((host.seq + i) % SeqWrap)}) = DataBefore(y) - DataBefore(m)
  BY <1>2, <1>5, Sandwiched
<1>7. PICK a \in Nat, b \in Nat, e \in Nat : a = DataBefore(l) /\ b = DataBefore(m) /\ e = DataBefore(y)
  BY CountType
<1>8. Received(lost) = Packet(y % SeqWrap)
  BY <1>1, <1>2, <1>3 DEF Received
<1>9. host.lost + Cardinality({i \in 0 .. lost - 1 : IsData((host.seq + i) % SeqWrap)}) = e - a - 1
  BY <1>1, <1>6, <1>7
<1>10. /\ e - a - 1 <= MaxBurst
       /\ host' = [seq |-> (host.seq + lost + 1) % SeqWrap, lost |-> IF Received(lost).data THEN 0 ELSE e - a - 1]
  BY <1>9 DEF Arrives
<1>11. (host.seq + lost + 1) % SeqWrap = (y + 1) % SeqWrap
  <2>1. host.seq + lost + 1 = host.seq + (k + 1) /\ y + 1 = m + (k + 1) /\ k + 1 \in Nat
    <3>1. host.seq \in Nat
      BY <1>1, OnWire
    <3> QED BY <3>1, <1>1, <1>2
  <2> QED BY <1>3, <2>1
<1>12. /\ IsSound(y) => Received(lost).data = TRUE
       /\ ~IsSound(y) => Received(lost).data = FALSE
  BY <1>8, SoundPacket, ParityPacket
<1>13. ~IsSound(y) => DataBefore(y + 1) = e
  BY <1>7, CountNext
<1>14. /\ n <= y /\ e - a <= MaxBurst + 1
       /\ host' = [seq |-> (y + 1) % SeqWrap, lost |-> IF IsSound(y) THEN 0 ELSE DataBefore(y + 1) - a - 1]
  <2>1. n <= y /\ e - a <= MaxBurst + 1
    BY <1>1, <1>2, <1>7, <1>10, ReceiveConstants, SMTT(60)
  <2>2. CASE IsSound(y)
    BY <1>10, <1>11, <1>12, <2>1, <2>2
  <2>3. CASE ~IsSound(y)
    BY <1>10, <1>11, <1>12, <1>13, <2>1, <2>3
  <2> QED BY <2>2, <2>3
<1> QED BY <1>1, <1>7, <1>8, <1>14

\* The line of packets goes on after a parity packet, ...
LEMMA LineOn ==
  ASSUME NEW n, NEW w, Line(n, w), NEW y \in Nat, n <= y, ~IsSound(y), DataBefore(y) - DataBefore(w[Len(w)]) <= MaxBurst + 1
  PROVE  Line(y + 1, w)
<1>1. DataBefore(y + 1) = DataBefore(y)
  <2>1. DataBefore(y) \in Nat
    BY Counting
  <2> QED BY <2>1, CountNext
<1>2. \A i \in 1 .. Len(w) : w[i] < y + 1
  <2>1. TAKE i \in 1 .. Len(w)
  <2>2. w[i] < n /\ w[i] \in Nat /\ n \in Nat
    BY LastIs DEF Line
  <2> QED BY <2>2
<1> QED BY <1>1, <1>2 DEF Line

\* ... after a data packet that is put aside or is the next of the turn, ...
LEMMA LineAside ==
  ASSUME NEW n, NEW w, Line(n, w), NEW y \in Nat, n <= y, IsSound(y), DataBefore(y) - DataBefore(w[Len(w)]) <= MaxBurst + 1
  PROVE  /\ Line(y + 1, Append(w, y)) /\ Line(y + 1, <<y>>)
         /\ \A i \in 1 .. Len(w) : w[i] < y
         /\ DataBefore(y + 1) - DataBefore(y) - 1 = 0
<1>1. PICK m \in Nat : m = Len(w) /\ m > 0
  BY LastIs
<1>2. w \in Seq(Nat) /\ (\A i \in 1 .. m : w[i] \in Nat /\ w[i] < y) /\ m \in 1 .. m
  <2>1. \A i \in 1 .. m : w[i] \in Nat /\ w[i] < n /\ n \in Nat
    BY <1>1, LastIs DEF Line
  <2>2. \A i \in 1 .. m : w[i] < y
    BY <2>1
  <2> QED BY <1>1, <2>1, <2>2 DEF Line, Positions
<1>3. DataBefore(y + 1) = DataBefore(y) + 1 /\ DataBefore(y) \in Nat
  BY CountNext, Counting
<1>4. y - w[m] <= Reach /\ Reach \in Nat
  <2>1. PICK l \in Nat : l = w[m] /\ IsSound(l) /\ l <= y
    BY <1>1, <1>2, LastIs
  <2> QED BY <1>1, <2>1, WithinReach, ReachIs
<1> DEFINE v == Append(w, y)
<1>5. v \in Seq(Nat) /\ Len(v) = m + 1 /\ v[m + 1] = y /\ \A i \in 1 .. m : v[i] = w[i]
  BY <1>1, <1>2
<1>6. Spread(v, Reach)
  <2>1. Len(w) > 0 => w[Len(w)] < y /\ y - w[Len(w)] <= Reach
    BY <1>1, <1>2, <1>4
  <2>2. Spread(w, Reach)
    BY DEF Line
  <2> QED BY <1>2, <1>4, <2>1, <2>2, SpreadAppend
<1> HIDE DEF v
<1>7. \A i \in 1 .. m + 1 : i \in 1 .. m \/ i = m + 1
  OBVIOUS
<1>8. \A i \in 1 .. m + 1 : v[i] < y + 1 /\ IsSound(v[i])
  <2>1. TAKE i \in 1 .. m + 1
  <2>2. CASE i \in 1 .. m
    <3>1. v[i] = w[i] /\ w[i] < y /\ w[i] \in Nat /\ IsSound(w[i])
      BY <1>1, <1>2, <1>5, <2>2 DEF Line
    <3> QED BY <3>1
  <2>3. CASE i = m + 1
    BY <1>5, <2>3
  <2> QED BY <1>7, <2>2, <2>3
<1>9. v \in Positions
  <2>1. \A i, j \in 1 .. Len(v) : i < j => v[i] < v[j]
    BY <1>6 DEF Spread
  <2>2. Len(v) > 0
    BY <1>5
  <2> QED BY <1>5, <2>1, <2>2 DEF Positions
<1>10. \A i \in 2 .. m + 1 : DataBefore(v[i]) - DataBefore(v[i - 1]) <= MaxBurst + 1
  <2>1. TAKE i \in 2 .. m + 1
  <2>2. CASE i \in 2 .. m
    <3>1. i \in 1 .. m /\ i - 1 \in 1 .. m
      BY <2>2
    <3> QED BY <1>1, <1>5, <2>2, <3>1 DEF Line
  <2>3. CASE i = m + 1
    <3>1. i - 1 = m /\ v[m] = w[m] /\ v[i] = y
      BY <1>2, <1>5, <2>3
    <3> QED BY <1>1, <3>1
  <2> QED BY <2>2, <2>3
<1>11. DataBefore(y + 1) - DataBefore(y) <= MaxBurst + 1
  BY <1>3, ReceiveConstants
<1>12. Line(y + 1, v)
  <2>1. v[Len(v)] = y
    BY <1>5
  <2> QED BY <1>5, <1>6, <1>8, <1>9, <1>10, <1>11, <2>1 DEF Line
<1>13. Line(y + 1, <<y>>)
  <2>1. <<y>> \in Seq(Nat) /\ Len(<<y>>) = 1 /\ <<y>>[1] = y /\ y < y + 1
    OBVIOUS
  <2>2. \A i, j \in 1 .. 1 : ~(i < j)
    OBVIOUS
  <2>3. \A i \in 1 .. 1 : i = 1
    OBVIOUS
  <2>4. 2 .. 1 = {}
    OBVIOUS
  <2>5. <<y>> \in Positions /\ Spread(<<y>>, Reach)
    BY <2>1, <2>2 DEF Positions, Spread
  <2>6. (\A i \in 1 .. 1 : <<y>>[i] < y + 1 /\ IsSound(<<y>>[i])) /\ y + 1 \in Nat
    BY <2>1, <2>3
  <2> QED BY <1>11, <2>1, <2>4, <2>5, <2>6 DEF Line
<1> QED BY <1>1, <1>2, <1>3, <1>12, <1>13 DEF v

\* ... and when the first packet put aside becomes the one of the turn.
LEMMA LineResumed ==
  ASSUME NEW n, NEW w, Line(n, w), Len(w) > 1
  PROVE  /\ Line(n, Tail(w)) /\ Len(Tail(w)) = Len(w) - 1 /\ Tail(w)[Len(w) - 1] = w[Len(w)] /\ Tail(w)[1] = w[2]
         /\ \A i \in 1 .. Len(w) - 1 : Tail(w)[i] = w[i + 1]
         /\ w[2] \in Nat /\ w[1] < w[2] /\ IsSound(w[2]) /\ w[2] < n /\ DataBefore(w[2]) - DataBefore(w[1]) <= MaxBurst + 1
<1>1. PICK m \in Nat : m = Len(w) - 1 /\ m > 0 /\ Len(w) = m + 1
  <2>1. Len(w) \in Nat
    BY LastIs
  <2>2. Len(w) - 1 \in Nat /\ Len(w) - 1 > 0 /\ Len(w) = (Len(w) - 1) + 1
    BY <2>1
  <2> QED BY <2>2
<1>2. w \in Seq(Nat) /\ \A i \in 1 .. m + 1 : w[i] \in Nat /\ w[i] < n /\ IsSound(w[i])
  BY <1>1, LastIs DEF Line, Positions
<1> DEFINE v == Tail(w)
<1>3. v \in Seq(Nat) /\ Len(v) = m /\ \A i \in 1 .. m : v[i] = w[i + 1]
  BY <1>1, <1>2
<1>4. Spread(v, Reach)
  BY <1>1, <1>2, ReachIs, SpreadTail DEF Line
<1> HIDE DEF v
<1>5. \A i \in 1 .. m : i + 1 \in 1 .. m + 1
  OBVIOUS
<1>6. \A i \in 1 .. m : v[i] < n /\ IsSound(v[i])
  BY <1>2, <1>3, <1>5
<1>7. v \in Positions
  <2>1. \A i, j \in 1 .. Len(v) : i < j => v[i] < v[j]
    BY <1>4 DEF Spread
  <2>2. Len(v) > 0
    BY <1>1, <1>3
  <2> QED BY <1>3, <2>1, <2>2 DEF Positions
<1>8. \A i \in 2 .. m : DataBefore(v[i]) - DataBefore(v[i - 1]) <= MaxBurst + 1
  <2>1. TAKE i \in 2 .. m
  <2>2. PICK j \in 2 .. m + 1 : j = i + 1 /\ j - 1 = i
    <3>1. i + 1 \in 2 .. m + 1 /\ (i + 1) - 1 = i
      OBVIOUS
    <3> QED BY <3>1
  <2>3. i \in 1 .. m /\ i - 1 \in 1 .. m /\ (i - 1) + 1 = i
    OBVIOUS
  <2>4. v[i] = w[j] /\ v[i - 1] = w[j - 1]
    BY <1>3, <2>2, <2>3
  <2>5. DataBefore(w[j]) - DataBefore(w[j - 1]) <= MaxBurst + 1
    BY <1>1, <2>2 DEF Line
  <2> QED BY <2>4, <2>5
<1>9. v[m] = w[m + 1] /\ v[1] = w[2]
  BY <1>1, <1>3
<1>10. Line(n, v)
  BY <1>1, <1>3, <1>4, <1>6, <1>7, <1>8, <1>9 DEF Line
<1>11. w[1] < w[2] /\ DataBefore(w[2]) - DataBefore(w[1]) <= MaxBurst + 1 /\ w[2] \in Nat /\ IsSound(w[2]) /\ w[2] < n
  <2>1. 1 \in 1 .. m + 1 /\ 2 \in 1 .. m + 1 /\ 2 \in 2 .. m + 1 /\ 2 - 1 = 1
    BY <1>1
  <2>2. w[1] < w[2]
    BY <1>1, <2>1 DEF Line, Positions
  <2>3. DataBefore(w[2]) - DataBefore(w[2 - 1]) <= MaxBurst + 1
    BY <1>1, <2>1 DEF Line
  <2> QED BY <1>2, <2>1, <2>2, <2>3
<1> QED BY <1>1, <1>3, <1>9, <1>10, <1>11 DEF v

-----------------------------------------------------------------------------
\* l and y: two data packets that follow one another, k: parity packets counted between them.
LEMMA GapIs ==
  ASSUME NEW l \in Nat, NEW y \in Nat, IsSound(l), IsSound(y), l < y, DataBefore(y) - DataBefore(l) <= MaxBurst + 1,
         NEW k \in Nat, k <= ParityBefore(y) - ParityBefore(l)
  PROVE  \E D \in Nat, z \in Nat, g \in Nat :
            /\ D > 0 /\ z = l + 1 + k /\ z <= y /\ g = y - z /\ D - 1 <= g /\ g < Reach /\ z + (D - 1) <= y
            /\ (Time(y) - Time(l)) % MediaMod = D
            /\ ((y % SeqWrap) - (l % SeqWrap) - 1) % SeqWrap = g + k
            /\ ((y % SeqWrap) - g) % SeqWrap = z % SeqWrap
            /\ (((Time(l) + 1) % MediaMod) + (D - 1)) % MediaMod = Time(y)
            /\ (Time(l) + 1) % MediaMod \in Media /\ (D = 1 => (Time(l) + 1) % MediaMod = Time(y))
<1>1. PICK a \in Nat, e \in Nat : a = DataBefore(l) /\ e = DataBefore(y)
  BY CountType
<1>2. a < e /\ e - a <= y - l
  <2>1. PICK m \in Nat : m = l + 1
    OBVIOUS
  <2>2. DataBefore(m) = a + 1 /\ m <= y
    BY <1>1, <2>1, CountNext
  <2>3. DataBefore(m) <= e
    BY <1>1, <2>2, Counting
  <2>4. e - a <= y - l
    BY <1>1, Counting
  <2> QED BY <1>1, <2>2, <2>3, <2>4
<1>3. PICK D \in Nat : D = e - a /\ D > 0 /\ e = a + D
  <2>1. e - a \in Nat /\ e - a > 0 /\ e = a + (e - a)
    BY <1>2
  <2> QED BY <2>1
<1>4. PICK z \in Nat : z = l + 1 + k
  OBVIOUS
<1>5. z + (D - 1) <= y
  <2>1. k <= (y - e) - (l - a)
    BY <1>1 DEF ParityBefore
  <2> QED BY <1>3, <1>4, <2>1
<1>6. PICK g \in Nat : g = y - z /\ D - 1 <= g
  <2>1. y - z \in Nat /\ D - 1 <= y - z
    BY <1>3, <1>5
  <2> QED BY <2>1
<1>7. y - l <= Reach /\ Reach \in Nat /\ Reach + 1 < SeqWrap + 1 /\ SeqWrap \in Nat \ {0} /\ Reach < SeqWrap
  <2>1. y - l <= Reach
    BY WithinReach
  <2>2. PICK p \in Nat, q \in Nat : p = PendingMax /\ q = Reach
    BY ReachIs, ReceiveConstants
  <2>3. (p + 2) * q = p * q + 2 * q /\ p * q \in Nat
    OBVIOUS
  <2>4. (p + 2) * q + Data <= SeqWrap /\ Data > 0 /\ Data \in Nat /\ SeqWrap \in Nat \ {0}
    BY <2>2, ApartIs, ReceiveConstants
  <2> QED BY <2>1, <2>2, <2>3, <2>4
<1>8. g < Reach
  BY <1>4, <1>6, <1>7
<1>9. ((y % SeqWrap) - (l % SeqWrap) - 1) % SeqWrap = g + k
  <2>1. PICK j \in Nat : j = y - l /\ 0 < j /\ j <= SeqWrap /\ l + j = y /\ j - 1 = g + k
    <3>1. y - l \in Nat /\ 0 < y - l /\ y - l <= SeqWrap /\ l + (y - l) = y /\ (y - l) - 1 = g + k
      BY <1>4, <1>6, <1>7
    <3> QED BY <3>1
  <2>2. (((l + j) % SeqWrap) - (l % SeqWrap) - 1) % SeqWrap = j - 1
    <3>1. PICK m \in Nat \ {0} : m = SeqWrap
      BY <1>7
    <3>2. 0 < j /\ j <= m
      BY <2>1, <3>1
    <3>3. (((l + j) % m) - (l % m) - 1) % m = j - 1
      BY <3>2, Advance, ZenonT(90)
    <3> QED BY <3>1, <3>3
  <2> QED BY <2>1, <2>2
<1>10. ((y % SeqWrap) - g) % SeqWrap = z % SeqWrap
  <2>1. g < SeqWrap /\ z + g = y
    BY <1>6, <1>7, <1>8
  <2>2. (((z + g) % SeqWrap) - g) % SeqWrap = z % SeqWrap
    BY <1>7, <2>1, Advance
  <2> QED BY <2>1, <2>2
<1>11. (Time(y) - Time(l)) % MediaMod = D
  <2>1. D < MediaMod /\ MediaMod \in Nat \ {0}
    BY <1>1, <1>3, WrapAssumption, ReceiveConstants
  <2>2. (((a + D) % MediaMod) - (a % MediaMod)) % MediaMod = D
    BY <2>1, Advance
  <2> QED BY <1>1, <1>3, <2>2 DEF Time
<1>12. /\ (((Time(l) + 1) % MediaMod) + (D - 1)) % MediaMod = Time(y)
       /\ (Time(l) + 1) % MediaMod \in Media /\ (Time(l) + 1) % MediaMod = (a + 1) % MediaMod
  <2>1. MediaMod \in Nat \ {0} /\ 1 \in Nat
    BY ReceiveConstants
  <2>2. ((a % MediaMod) + 1) % MediaMod = (a + 1) % MediaMod
    BY <2>1, Advance, ZenonT(90)
  <2>3. PICK b \in Nat, i \in Nat : b = a + 1 /\ i = D - 1 /\ b + i = e
    <3>1. a + 1 \in Nat /\ D - 1 \in Nat /\ (a + 1) + (D - 1) = e
      BY <1>3
    <3> QED BY <3>1
  <2>4. ((b % MediaMod) + i) % MediaMod = e % MediaMod
    <3>1. PICK m \in Nat \ {0} : m = MediaMod
      BY <2>1
    <3>2. ((b % m) + i) % m = (b + i) % m
      BY Advance, ZenonT(90)
    <3> QED BY <2>3, <3>1, <3>2
  <2>5. b % MediaMod \in Media
    BY <2>1 DEF Media
  <2> QED BY <1>1, <2>2, <2>3, <2>4, <2>5 DEF Time
<1>13. D = 1 => (Time(l) + 1) % MediaMod = Time(y)
  BY <1>1, <1>3, <1>12 DEF Time
<1>14. z <= y
  BY <1>3, <1>5
<1> QED BY <1>3, <1>4, <1>5, <1>6, <1>8, <1>9, <1>10, <1>11, <1>12, <1>13, <1>14

\* A block that has too few shards.
LEMMA Incomplete ==
  ASSUME NEW b \in Shards, NEW a \in Nat, a % Span = 0, NEW w, NEW c \in 0 .. Data - 1,
         NoneFrom(a, c, w), Frontier(b, a, w), c + Cardinality(Present(b.fec)) < Data
  PROVE  ~Complete(b)
<1>1. c \in 0 .. Data /\ c \in Nat /\ Data \in Nat /\ c < Data
  BY ReceiveConstants
<1>2. \A j \in 0 .. Data - 1 : c <= j => b.data[j] = Missing
  <2>1. TAKE j \in 0 .. Data - 1
  <2>2. c <= j /\ b.data[j] # Missing => Data <= c + Cardinality(Present(b.fec))
    BY <1>1 DEF Frontier
  <2>3. Cardinality(Present(b.fec)) \in Nat
    BY PresentIs
  <2> QED BY <1>1, <2>2, <2>3
<1>3. Present(b.data) \in SUBSET (0 .. c - 1)
  <2>1. \A i \in Present(b.data) : i \in 0 .. Data - 1 /\ b.data[i] # Missing
    BY PresentIs DEF Present
  <2>2. \A i \in Present(b.data) : ~(c <= i) /\ i \in Int /\ 0 <= i
    BY <1>2, <2>1
  <2> QED BY <1>1, <2>2
<1>4. Cardinality(Present(b.data)) <= c
  <2>1. IsFiniteSet(0 .. c - 1) /\ Cardinality(0 .. c - 1) = c
    <3>1. 0 \in Int /\ c - 1 \in Int /\ (0 > c - 1 => c = 0) /\ c - 1 - 0 + 1 = c
      BY <1>1
    <3> QED BY <3>1, FS_Interval
  <2> QED BY <1>3, <2>1, FS_Subset
<1>5. Present(b.data) # DOMAIN b.data
  <2>1. c \in DOMAIN b.data /\ c \notin Present(b.data)
    BY <1>1, <1>3, PresentIs
  <2> QED BY <2>1
<1>6. ~(Cardinality(Present(b.data)) + Cardinality(Present(b.fec)) >= Data)
  <2>1. Cardinality(Present(b.data)) \in Nat /\ Cardinality(Present(b.fec)) \in Nat
    BY PresentIs
  <2> QED BY <1>1, <1>4, <2>1
<1> QED BY <1>5, <1>6 DEF Complete

\* A block that starts amid the packets of another is never complete.
LEMMA Unaligned ==
  ASSUME NEW b \in Shards, NEW a \in Nat, a % Span # 0, NEW n, Holds(b, a, n)
  PROVE  ~Complete(b)
<1>1. PICK s \in Nat, r \in 0 .. Span - 1 : s = Start(a) /\ r = a % Span /\ a = s + r /\ s % Span = 0
  BY StartIs
<1>2. Data \in Nat /\ Data > 0 /\ Parity \in Nat /\ Parity > 0 /\ Span = Data + Parity /\ r \in Nat /\ r > 0
  BY <1>1, ReceiveConstants DEF Span
<1>3. PICK j \in 0 .. Data - 1 : ~IsSound(a + j)
  <2>1. CASE r >= Data
    <3>1. 0 \in 0 .. Data - 1 /\ a + 0 = a
      BY <1>2
    <3>2. ~IsSound(a)
      BY <1>1, <1>2, <2>1 DEF IsSound
    <3> QED BY <3>1, <3>2
  <2>2. CASE r < Data
    <3>1. PICK i \in 0 .. Data - 1 : i = Data - r /\ a + i = s + Data
      <4>1. Data - r \in 0 .. Data - 1 /\ a + (Data - r) = s + Data
        BY <1>1, <1>2, <2>2
      <4> QED BY <4>1
    <3>2. Data \in 0 .. Span - 1
      BY <1>2
    <3>3. (s + Data) % Span = Data
      BY <1>1, <3>2, InBlock
    <3>4. ~IsSound(a + i)
      BY <1>2, <3>1, <3>3 DEF IsSound
    <3> QED BY <3>4
  <2> QED BY <1>2, <2>1, <2>2
<1>4. j \in DOMAIN b.data /\ j \notin Present(b.data)
  BY <1>3, PresentIs DEF Holds, Present
<1>5. Present(b.fec) = {} /\ Cardinality(Present(b.fec)) = 0
  <2>1. \A i \in 0 .. Parity - 1 : b.fec[i] = Missing
    BY DEF Holds
  <2>2. Present(b.fec) = {}
    BY <2>1, PresentIs DEF Present
  <2> QED BY <2>2, FS_EmptySet
<1>6. Cardinality(Present(b.data)) # Data
  <2>1. SUFFICES ASSUME Cardinality(Present(b.data)) = Data PROVE FALSE
    OBVIOUS
  <2>2. IsFiniteSet(0 .. Data - 1) /\ Cardinality(0 .. Data - 1) = Data
    <3>1. 0 \in Int /\ Data - 1 \in Int /\ ~(0 > Data - 1) /\ Data - 1 - 0 + 1 = Data
      BY <1>2
    <3> QED BY <3>1, FS_Interval
  <2>3. Present(b.data) \in SUBSET (0 .. Data - 1) /\ DOMAIN b.data = 0 .. Data - 1
    BY PresentIs
  <2>4. Present(b.data) = 0 .. Data - 1
    BY <2>1, <2>2, <2>3, FS_Subset
  <2> QED BY <1>4, <2>3, <2>4
<1>7. Cardinality(Present(b.data)) \in Nat /\ Cardinality(Present(b.data)) <= Data
  BY PresentIs
<1> QED BY <1>2, <1>4, <1>5, <1>6, <1>7 DEF Complete

-----------------------------------------------------------------------------
\* The block of z is one from which nothing is repaired: whole blocks lie between its start
\* and l, and it is short of shards.
Unfit(z, c, x, l) ==
  Base(z) % Span = 0 =>
    Base(z) + Span <= l /\ \A i \in 1 .. Len(c) : x[i] = Base(z) => ~Complete(c[i])

\* A block no packet reaches stays short of shards.
LEMMA UnfitKept ==
  ASSUME NEW z \in Nat, NEW c, NEW x, NEW l \in Nat, Unfit(z, c, x, l), NEW d, NEW u, NEW a, Kept(d, u, c, x, a),
         Base(z) + Span <= l => a # Base(z)
  PROVE  Unfit(z, d, u, l)
BY DEF Unfit, Kept

\* The block of what arrives after l is another.
LEMMA Elsewhere ==
  ASSUME NEW z \in Nat, NEW l \in Nat, NEW y \in Nat, l <= y, Base(z) + Span <= l
  PROVE  Base(y) # Base(z) /\ Start(y) # Base(z)
<1>1. PICK a \in Nat, b \in Nat, s \in Nat : a = Base(z) /\ b = Base(y) /\ s = Start(y)
  BY BaseIs, StartIs
<1>2. y < b + Data /\ y < s + Span
  <2>1. y < b + Data
    BY <1>1, BaseIs
  <2>2. PICK r \in 0 .. Span - 1 : y = s + r
    BY <1>1, StartIs
  <2>3. Span \in Nat
    BY ReceiveConstants
  <2> QED BY <2>1, <2>2, <2>3
<1>3. Data \in Nat /\ Span \in Nat /\ Data < Span
  BY ReceiveConstants
<1> QED BY <1>1, <1>2, <1>3

\* z: the number taken for the first lost.  It is the one after l, counting data packets
\* only, or nothing is repaired from its block.
LEMMA FirstLost ==
  ASSUME NEW n, NEW w, Line(n, w), NEW k \in Nat, NEW y \in Nat, w[1] < y, IsSound(y),
         \A i \in 2 .. Len(w) : y <= w[i],
         k <= ParityBefore(y) - ParityBefore(w[1]),
         NEW c, NEW x, Cache(c, x, n, w, k), NEW z \in Nat, z = w[1] + 1 + k, z <= y, IsSound(z)
  PROVE  Time(z) = (Time(w[1]) + 1) % MediaMod \/ Unfit(z, c, x, y)
<1>1. PICK l \in Nat, a \in Nat, j \in 0 .. Data - 1 :
         l = w[1] /\ IsSound(l) /\ a = Base(z) /\ z = a + j /\ l < y /\ z = l + 1 + k
  <2>1. w[1] \in Nat /\ IsSound(w[1]) /\ Base(z) \in Nat /\ z % Data \in 0 .. Data - 1 /\ z = Base(z) + (z % Data)
    BY LastIs, BaseIs
  <2> QED BY <2>1
<1>2. /\ Data \in Nat /\ Data > 0 /\ Parity \in Nat /\ Parity > 0 /\ Span = Data + Parity /\ Parity < Data
      /\ Span \in Nat /\ MediaMod \in Nat \ {0}
  BY ReceiveConstants DEF Span
<1>1a. a <= z /\ z <= y /\ a <= y /\ z = a + j /\ z = l + 1 + k /\ l < y /\ j < Data
  <2>1. z = a + j /\ z = l + 1 + k /\ l < y /\ z <= y
    BY <1>1
  <2> QED BY <2>1, <1>2
<1>3. CASE a % Span # 0
  BY <1>1, <1>3 DEF Unfit
<1>4. CASE a % Span = 0 /\ DataBefore(z) = DataBefore(l) + 1
  <2>1. PICK d \in Nat, m \in Nat \ {0} : d = DataBefore(l) /\ m = MediaMod
    BY <1>2, CountType
  <2>2. ((d % m) + 1) % m = (d + 1) % m
    <3>1. 1 \in Nat
      OBVIOUS
    <3> QED BY <3>1, Advance, ZenonT(90)
  <2> QED BY <1>1, <1>4, <2>1, <2>2 DEF Time
<1>5. CASE a % Span = 0 /\ y < a + Span
  <2>1. PICK r \in 0 .. Span - 1 : y = a + r
    <3>1. y < a + Span
      BY <1>5
    <3>2. y - a \in 0 .. Span - 1 /\ y = a + (y - a)
      BY <1>1a, <1>2, <3>1
    <3> QED BY <3>2
  <2>2. r < Data /\ DataBefore(y) = DataBefore(a) + r
    <3>1. y % Span = r /\ DataBefore(y) = DataBefore(a) + (IF r < Data THEN r ELSE Data)
      BY <1>5, <2>1, InBlock
    <3> QED BY <3>1 DEF IsSound
  <2>3. DataBefore(z) = DataBefore(a) + j
    <3>1. j \in 0 .. Span - 1 /\ j < Data
      BY <1>2
    <3> QED BY <1>1, <1>5, <3>1, InBlock
  <2>4. PICK dl \in Nat, da \in Nat, dy \in Nat, dz \in Nat :
           /\ dl = DataBefore(l) /\ da = DataBefore(a) /\ dy = DataBefore(y) /\ dz = DataBefore(z)
           /\ dy = da + r /\ dz = da + j
    BY <2>2, <2>3, CountType
  <2>5. k <= (y - dy) - (l - dl)
    BY <1>1, <2>4 DEF ParityBefore
  <2>6. CASE a <= l
    <3>1. PICK i \in 0 .. Span - 1 : l = a + i /\ i < r
      <4>1. l - a \in 0 .. Span - 1 /\ l = a + (l - a) /\ l - a < r
        BY <1>1a, <1>2, <2>1, <2>6
      <4> QED BY <4>1
    <3>2. i < Data
      BY <2>2, <3>1, <1>2
    <3>3. dl = da + i
      BY <1>5, <2>4, <3>1, <3>2, InBlock
    <3>4. k <= 0
      <4>1. dy = da + r
        BY <2>4
      <4> QED BY <2>1, <2>5, <3>1, <3>3, <4>1
    <3>5. dz = dl + 1
      <4>1. dz = da + j
        BY <2>4
      <4> QED BY <1>1a, <3>1, <3>3, <3>4, <4>1
    <3> QED BY <1>4, <1>5, <2>4, <3>5
  <2>7. CASE l < a
    <3>1. dl + 1 <= da /\ da - (dl + 1) <= a - (l + 1)
      <4>1. PICK m \in Nat : m = l + 1 /\ m <= a
        BY <2>7
      <4>2. DataBefore(m) = dl + 1
        BY <1>1, <2>4, <4>1, CountNext
      <4>3. DataBefore(m) <= DataBefore(a) /\ DataBefore(a) - DataBefore(m) <= a - m
        BY <4>1, Counting
      <4> QED BY <2>4, <4>1, <4>2, <4>3
    <3>2. z = a /\ da = dl + 1
      <4>1. dy = da + r
        BY <2>4
      <4> QED BY <1>1a, <2>1, <2>5, <2>7, <3>1, <4>1
    <3> QED BY <1>4, <1>5, <2>4, <3>2
  <2> QED BY <1>1, <2>6, <2>7
<1>6. CASE a % Span = 0 /\ a + Span <= y
  <2>1. \A i \in 1 .. Len(c) : x[i] = a => ~Complete(c[i])
    <3>1. SUFFICES ASSUME NEW i \in 1 .. Len(c), x[i] = a PROVE ~Complete(c[i])
      OBVIOUS
    <3>2. c[i] \in Shards /\ Frontier(c[i], a, w) /\ ParityKnown(c[i], a, w, k)
      BY <3>1 DEF Cache, Numbered, Good
    <3>3. PICK b \in Shards, q \in Nat : b = c[i] /\ q = Cardinality(Present(b.fec)) /\ q <= Parity
      BY <3>2, PresentIs
    <3>4. \A e \in Nat : e <= Data /\ l < a + e => NoneFrom(a, e, w)
      <4>1. TAKE e \in Nat
      <4>2. \A h \in 2 .. Len(w) : a + Data <= w[h]
        <5>1. TAKE h \in 2 .. Len(w)
        <5>2. y <= w[h] /\ w[h] \in Nat
          <6>1. h \in 1 .. Len(w)
            BY LastIs
          <6> QED BY <6>1, LastIs
        <5> QED BY <1>2, <1>6, <5>2
      <4> QED BY <1>1, <4>2 DEF NoneFrom
    <3>5. CASE l < a
      <4>1. NoneFrom(a, 0, w) /\ 0 \in 0 .. Data - 1 /\ 0 + q < Data
        BY <1>2, <3>3, <3>4, <3>5
      <4> QED BY <1>6, <3>2, <3>3, <4>1, Incomplete
    <3>6. CASE a <= l
      <4>1. PICK e \in 0 .. Data - 1 : e = l - a + 1 /\ l < a + e /\ e + k < Data
        <5>1. l - a + 1 \in 0 .. Data - 1 /\ l < a + (l - a + 1) /\ (l - a + 1) + k < Data
          BY <1>1a, <1>2, <3>6
        <5> QED BY <5>1
      <4>2. NoneFrom(a, e, w)
        BY <1>2, <3>4, <4>1
      <4>3. q <= k
        <5>1. a <= w[1] /\ w[1] < a + Data
          <6>1. l = w[1] /\ l < a + Data
            BY <1>1, <1>1a, <1>2, SMTT(60)
          <6> QED BY <3>6, <6>1
        <5> QED BY <1>6, <3>2, <3>3, <5>1 DEF ParityKnown
      <4>4. e + q < Data
        BY <1>2, <3>3, <4>1, <4>3
      <4> QED BY <1>6, <3>2, <3>3, <4>2, <4>4, Incomplete
    <3> QED BY <1>1, <3>5, <3>6
  <2> QED BY <1>1, <1>6, <2>1 DEF Unfit
<1> QED BY <1>1, <1>2, <1>3, <1>5, <1>6

\* All that is kept lies within one round.
LEMMA SpreadWidth ==
  ASSUME NEW d \in Nat, NEW x \in Seq(Nat), Spread(x, d), NEW B \in Nat, Len(x) <= B, NEW i \in 1 .. Len(x)
  PROVE  x[i] \in Nat /\ x[Len(x)] \in Nat /\ x[i] <= x[Len(x)] /\ x[Len(x)] - x[i] + d <= B * d
<1>1. PICK m \in Nat : m = Len(x) /\ m > 0 /\ i <= m /\ i > 0 /\ m \in 1 .. m
  OBVIOUS
<1>2. x[i] \in Nat /\ x[m] \in Nat
  BY <1>1
<1>3. PICK e \in Nat : e = m - i /\ e + 1 <= B
  <2>1. m - i \in Nat /\ (m - i) + 1 <= B
    BY <1>1
  <2> QED BY <2>1
<1>2a. PICK f \in Nat, g \in Nat : f = x[i] /\ g = x[m]
  BY <1>2
<1>4. f <= g /\ g - f <= e * d
  <2>1. CASE i = m
    <3>1. e = 0 /\ 0 * d = 0
      BY <1>1, <1>3, <2>1
    <3> QED BY <1>2a, <2>1, <3>1
  <2>2. CASE i < m
    <3>1. x[i] < x[m] /\ x[m] - x[i] <= (m - i) * d
      BY <1>1, <2>2 DEF Spread
    <3>2. (m - i) * d = e * d
      BY <1>3
    <3>3. f < g /\ g - f <= e * d
      BY <1>2a, <3>1, <3>2
    <3> QED BY <3>3
  <2> QED BY <1>1, <2>1, <2>2
<1>5. d * (e + 1) <= d * B
  BY <1>3, Products
<1>6. d * (e + 1) = e * d + d /\ d * B = B * d
  OBVIOUS
<1>7. PICK u \in Nat, v \in Nat : u = e * d /\ v = B * d /\ u + d <= v
  BY <1>5, <1>6
<1>8. f <= g /\ g - f + d <= v
  <2>1. f <= g /\ g - f <= u /\ u + d <= v
    BY <1>4, <1>7
  <2> QED BY <2>1
<1> QED BY <1>1, <1>2, <1>2a, <1>7, <1>8

\* The cache has no other block than z's under the number on the wire of z's base.
LEMMA Found ==
  ASSUME NEW n, NEW w, Line(n, w), Len(w) <= PendingMax + 1, NEW c, NEW x, NEW k, Cache(c, x, n, w, k),
         NEW z \in Nat, z <= w[1], w[1] - z < Reach,
         NEW i \in 1 .. Len(c), c[i].base = Base(z) % SeqWrap
  PROVE  x[i] = Base(z) /\ c[i] \in Shards
<1>1. PICK m \in Nat : m = Len(w) /\ m > 0 /\ 1 \in 1 .. m
  BY LastIs
<1>2. PICK q \in Nat : q = PendingMax * Reach
  BY ReachIs, ReceiveConstants
<1>3. w[m] \in Nat /\ w[1] \in Nat /\ w[1] <= w[m] /\ w[m] - w[1] <= q
  <2>1. PICK d \in Nat, B \in Nat, p \in Nat : d = Reach /\ B = PendingMax + 1 /\ p = PendingMax
    BY ReachIs, ReceiveConstants
  <2>2. w \in Seq(Nat) /\ Spread(w, d) /\ Len(w) <= B /\ 1 \in 1 .. Len(w)
    BY <1>1, <2>1 DEF Line, Positions
  <2>3. w[1] \in Nat /\ w[Len(w)] \in Nat /\ w[1] <= w[Len(w)] /\ w[Len(w)] - w[1] + d <= B * d
    BY <2>2, SpreadWidth
  <2>4. B * d = q + d
    <3>1. B = p + 1 /\ q = p * d
      BY <1>2, <2>1
    <3>2. (p + 1) * d = p * d + d
      OBVIOUS
    <3> QED BY <3>1, <3>2
  <2> QED BY <1>1, <2>3, <2>4
<1>4. n - w[m] <= Reach /\ w[m] < n /\ n \in Nat
  <2>1. w[m] \in Nat /\ IsSound(w[m]) /\ w[m] < n /\ n \in Nat /\ DataBefore(n) - DataBefore(w[m]) <= MaxBurst + 1
    BY <1>1, LastIs DEF Line
  <2>2. w[m] <= n
    BY <2>1
  <2> QED BY <2>1, <2>2, WithinReach
<1>5. PICK L \in Nat : L = Len(c) /\ Len(x) = L /\ i \in 1 .. Len(x) /\ x \in Seq(Nat) /\ Spread(x, Apart) /\ L <= CacheBlocks /\ L \in 1 .. L
  <2>1. Numbered(c, x)
    BY DEF Cache
  <2>2. Len(c) \in Nat /\ Len(x) = Len(c) /\ x \in Seq(Nat) /\ Spread(x, Apart) /\ Len(c) <= CacheBlocks
    BY <2>1 DEF Numbered
  <2>3. Len(c) \in 1 .. Len(c)
    BY <2>2
  <2> QED BY <2>2, <2>3
<1>6. x[i] \in Nat /\ x[L] \in Nat /\ x[i] <= x[L] /\ x[L] - x[i] + Apart <= SeqWrap
  <2>1. PICK d \in Nat, B \in Nat : d = Apart /\ B = CacheBlocks
    BY ApartIs, ReceiveConstants
  <2>2. x[i] \in Nat /\ x[Len(x)] \in Nat /\ x[i] <= x[Len(x)] /\ x[Len(x)] - x[i] + d <= B * d
    BY <1>5, <2>1, SpreadWidth
  <2>3. PICK v \in Int, s \in Nat : v = B * d /\ s = SeqWrap /\ v <= s
    BY <2>1, ApartIs, ReceiveConstants
  <2> QED BY <1>5, <2>1, <2>2, <2>3
<1>7. x[L] < n /\ w[m] < x[L] + Data
  BY <1>1, <1>5 DEF Cache, Edge
<1>8. PICK a \in Nat : a = Base(z) /\ a <= z /\ z < a + Data
  BY BaseIs
<1>9. /\ Reach \in Nat /\ Data \in Nat /\ Data > 0 /\ Apart = Reach + Data /\ SeqWrap \in Nat
      /\ q + 2 * Reach + Data <= SeqWrap
  <2>1. PICK p \in Nat, d \in Nat : p = PendingMax /\ d = Reach
    BY ReachIs, ReceiveConstants
  <2>2. (p + 2) * d = p * d + 2 * d
    OBVIOUS
  <2>3. (p + 2) * d + Data <= SeqWrap
    BY <2>1, ApartIs
  <2> QED BY <1>2, <2>1, <2>2, <2>3, ApartIs, ReceiveConstants
<1>10. x[i] - a < SeqWrap /\ a - x[i] < SeqWrap
  <2>1. PICK xi \in Nat, xl \in Nat, wm \in Nat, wo \in Nat, R \in Nat, D \in Nat, A \in Nat, S \in Nat, nn \in Nat :
           xi = x[i] /\ xl = x[L] /\ wm = w[m] /\ wo = w[1] /\ R = Reach /\ D = Data /\ A = Apart /\ S = SeqWrap /\ nn = n
    BY <1>3, <1>4, <1>6, <1>9, ApartIs
  <2>2. xi <= xl /\ xl < nn /\ nn - wm <= R /\ wm - wo <= q /\ wo - z < R /\ z < a + D
    BY <1>3, <1>4, <1>6, <1>7, <1>8, <2>1
  <2>3. q + 2 * R + D <= S /\ A = R + D /\ D > 0
    BY <1>9, <2>1
  <2>4. xl - xi + A <= S /\ wm < xl + D /\ a <= z /\ z <= wo /\ wo <= wm
    BY <1>3, <1>6, <1>7, <1>8, <2>1
  <2>5. xi - a < S
    BY <2>2, <2>3
  <2>6. a - xi < S
    BY <2>3, <2>4
  <2> QED BY <2>1, <2>5, <2>6
<1>11. c[i].base = x[i] % SeqWrap /\ c[i] \in Shards
  BY DEF Cache, Numbered
<1> QED BY <1>6, <1>8, <1>10, <1>11, SameNumber

\* What recover_payload answers is the frame of z.
LEMMA Repaired ==
  ASSUME NEW n, NEW w, Line(n, w), Len(w) <= PendingMax + 1, NEW c, NEW x, NEW k, Cache(c, x, n, w, k), k \in Nat,
         NEW z \in Nat, z <= w[1], w[1] - z < Reach,
         Recoverable(c, z % SeqWrap), NEW r, r = audio_rtp_fec_recover_payload(c, z % SeqWrap)
  PROVE  IsSound(z) /\ ~Unfit(z, c, x, w[1]) /\ r.media = Time(z) /\ Cache(r.cache, x, n, w, k)
<1>1. PICK a \in Nat, j \in 0 .. Data - 1 : a = Base(z) /\ j = z % Data /\ z = a + j
  BY BaseIs
<1>2. (z % SeqWrap) % Data = j /\ audio_fec_base_seq(z % SeqWrap) = a % SeqWrap
  BY <1>1, OnWire DEF audio_fec_base_seq
<1>3. Numbered(c, x) /\ c \in Seq(Shards) /\ Len(c) \in Nat /\ DOMAIN c = 1 .. Len(c)
  <2>1. Numbered(c, x)
    BY DEF Cache
  <2> QED BY <2>1 DEF Numbered
<1>4. PICK i \in 1 .. Len(c) : i = CHOOSE h \in DOMAIN c : c[h].base = audio_fec_base_seq(z % SeqWrap)
  BY <1>3 DEF Recoverable
<1>5. c[i].base = a % SeqWrap
  BY <1>2, <1>3, <1>4 DEF Recoverable
<1>6. x[i] = a /\ c[i] \in Shards
  BY <1>1, <1>5, Found
<1>7. Complete(c[i])
  <2>1. PICK h \in 1 .. Len(c) : c[h].base = a % SeqWrap /\ Complete(c[h])
    BY <1>2, <1>3 DEF Recoverable
  <2>2. x[h] = a
    BY <1>1, <2>1, Found
  <2>3. h = i
    <3>1. \A p, q \in 1 .. Len(c) : p < q => x[p] < x[q]
      BY <1>3 DEF Numbered, Spread
    <3>2. ~(h < i) /\ ~(i < h)
      BY <1>6, <2>2, <3>1
    <3> QED BY <1>3, <3>2
  <2> QED BY <2>1, <2>3
<1>8. PICK b : b = c[i] /\ b \in Shards /\ Good(b, a, n, w, k) /\ Complete(b)
  BY <1>6, <1>7 DEF Cache
<1> DEFINE f == audio_rtp_fec_complete(b)
<1>9. PICK nn \in Nat, kk \in Nat : nn = n /\ kk = k
  BY LastIs
<1>10. /\ f \in Shards /\ f.base = b.base /\ Good(f, a, n, w, k)
       /\ \A h \in 0 .. Data - 1 : IsSound(a + h) /\ f.data[h] = Time(a + h)
  BY <1>8, <1>9, GoodComplete
<1> HIDE DEF f
<1>11. IsSound(z) /\ f.data[j] = Time(z)
  BY <1>1, <1>10
<1>12. ~Unfit(z, c, x, w[1])
  <2>1. SUFFICES ASSUME Unfit(z, c, x, w[1]) PROVE FALSE
    OBVIOUS
  <2>2. CASE a % Span = 0
    BY <1>1, <1>6, <1>7, <2>1, <2>2 DEF Unfit
  <2>3. CASE a % Span # 0
    BY <1>8, <2>3, Unaligned DEF Good
  <2> QED BY <2>2, <2>3
<1> DEFINE d == [c EXCEPT ![i] = f]
<1>13. r.media = f.data[j] /\ r.cache = d
  BY <1>2, <1>4, <1>8 DEF audio_rtp_fec_recover_payload, f
<1>14. d \in Seq(Shards) /\ Len(d) = Len(c) /\ d[i] = f /\ \A h \in 1 .. Len(c) : h # i => d[h] = c[h]
  BY <1>3, <1>10
<1> HIDE DEF d
<1>15. Numbered(d, x)
  <2>1. \A h \in 1 .. Len(c) : d[h].base = c[h].base
    BY <1>8, <1>10, <1>14
  <2> QED BY <1>3, <1>14, <2>1 DEF Numbered
<1>16. Edge(d, x, n, w)
  BY <1>14 DEF Cache, Edge
<1>17. \A h \in 1 .. Len(d) : Good(d[h], x[h], n, w, k)
  <2>1. TAKE h \in 1 .. Len(d)
  <2>2. CASE h = i
    BY <1>6, <1>10, <1>14, <2>2
  <2>3. CASE h # i
    BY <1>14, <2>3 DEF Cache
  <2> QED BY <2>2, <2>3
<1>18. Cache(d, x, n, w, k)
  BY <1>15, <1>16, <1>17 DEF Cache
<1> QED BY <1>11, <1>12, <1>13, <1>18

-----------------------------------------------------------------------------
(* The invariant.  Every packet has a number that does not wrap: n is the  *)
(* host's next, w holds the last data packet of the thread and those put   *)
(* aside, x the starts of the cached blocks, z is the missing packet.      *)
Packets == {Packet(seq) : seq \in Seqs}
Arrivals(n, w) ==
  /\ Line(n, w) /\ host = [seq |-> n % SeqWrap, lost |-> DataBefore(n) - DataBefore(w[Len(w)]) - 1]
  /\ pending \in Seq(Packets) /\ Len(w) = Len(pending) + 1 /\ Len(pending) <= PendingMax
  /\ \A i \in 1 .. Len(pending) : pending[i] = Packet(w[i + 1] % SeqWrap)
  /\ last.have \in BOOLEAN /\ (~last.have => pending = <<>>)
  /\ last.have => last.seq = w[1] % SeqWrap /\ last.ts = Time(w[1])

\* No more parity packets are counted than were sent since the last data packet.
CountedParity(n, w) ==
  parity \in Nat /\ parity <= ParityBefore(IF Len(w) = 1 THEN n ELSE w[2]) - ParityBefore(w[1])

Known(n, w, x) == Arrivals(n, w) /\ CountedParity(n, w) /\ Cache(fec, x, n, w, parity)

\* k more chunks and the one of the turn's packet is due.
Owes(k, w) == (due + k) % MediaMod = Time(w[1])
Turn(w) ==
  /\ pc \in {"loop", "drain", "recover", "conceal", "decode", "append"}
  /\ last.have => due \in Media
  /\ pc # "loop" => last.have /\ cur = Packet(w[1] % SeqWrap)
  /\ pc = "loop" => fec_pending = FALSE /\ (last.have => due = (Time(w[1]) + 1) % MediaMod)
  /\ pc \in {"drain", "recover", "conceal"} => fec_pending = FALSE /\ gap \in Nat /\ Owes(gap, w)
  /\ pc = "decode" => fec_pending \in BOOLEAN /\ Owes(IF fec_pending THEN 1 ELSE 0, w)
  /\ pc = "append" =>
       /\ fec_pending = FALSE /\ then \in {"loop", "recover", "conceal", "decode"} /\ chunk \in {Filler, due}
       /\ then = "loop" => Owes(0, w)
       /\ then \in {"recover", "conceal"} => gap \in Nat /\ Owes(gap + 1, w)
       /\ then = "decode" => Owes(1, w)

Repairing == pc \in {"drain", "recover"} \/ (pc = "append" /\ then = "recover")
Owed == IF pc = "append" THEN (due + 1) % MediaMod ELSE due
Mark(w, x, z) ==
  Repairing =>
    /\ z \in Nat /\ missing = z % SeqWrap /\ w[1] - z < Reach /\ z + gap <= w[1]
    /\ IsSound(z) => Time(z) = Owed \/ Unfit(z, fec, x, w[1])

\* Sound is on time.
Fresh == ~ahead /\ (due # Lost \/ ~last.have)
Idle ==
  /\ host = [seq |-> 0, lost |-> 0] /\ last.have = FALSE /\ due = Lost /\ ahead = FALSE
  /\ fec_pending = FALSE /\ parity = 0
OrderInvariant ==
  /\ then # "ended"
  /\ IF pc = "ended" THEN Idle ELSE Fresh => \E n, w, x, z : Known(n, w, x) /\ Turn(w) /\ Mark(w, x, z)

\* The invariant gives the property.
LEMMA OrderHolds ==
  ASSUME OrderInvariant
  PROVE  InMediaOrder
<1>1. SUFFICES ASSUME ~ahead, pc = "append", due # Lost, chunk # Filler PROVE chunk = due
  BY DEF InMediaOrder, AccurateGaps
<1>2. PICK w : Turn(w)
  BY <1>1 DEF OrderInvariant, Fresh
<1> QED BY <1>1, <1>2 DEF Turn

\* It holds at the start of a stream: the packet before the first is made up, one block before the wrap.
LEMMA Beginning ==
  Idle /\ fec = <<>> /\ pending = <<>> /\ pc = "loop" /\ then # "ended" => OrderInvariant
<1> SUFFICES ASSUME Idle, fec = <<>>, pending = <<>>, pc = "loop", then # "ended" PROVE OrderInvariant
  OBVIOUS
<1> DEFINE l == SeqWrap - Parity - 1
           w == <<l>>
           n == SeqWrap
<1>1. PICK q \in Nat, r \in 0 .. Span - 1, m \in Nat :
         /\ q = Rounds - 1 /\ r = Data - 1 /\ m = l /\ m = Span * q + r /\ m < n /\ n \in Nat /\ n = Span * Rounds
         /\ Rounds \in Nat /\ Rounds = q + 1
  <2>1. Rounds \in Nat \ {0} /\ SeqWrap = Span * Rounds /\ Span \in Nat \ {0} /\ Span = Data + Parity
        /\ Data \in Nat \ {0} /\ Parity \in Nat \ {0} /\ SeqWrap \in Nat
    BY WrapIs, ReceiveConstants DEF Span
  <2>2. PICK q \in Nat, r \in 0 .. Span - 1 : q = Rounds - 1 /\ r = Data - 1
    <3>1. Rounds - 1 \in Nat /\ Data - 1 \in 0 .. Span - 1
      BY <2>1
    <3> QED BY <3>1
  <2>3. Span * Rounds = Span * q + Span /\ Span * q \in Nat
    <3>1. Rounds = q + 1
      BY <2>1, <2>2
    <3>2. Span * (q + 1) = Span * q + Span /\ Span * q \in Nat
      BY <2>1
    <3> QED BY <3>1, <3>2
  <2>4. l = Span * q + r /\ l \in Nat /\ l < n
    BY <2>1, <2>2, <2>3
  <2> QED BY <2>1, <2>2, <2>4
<1>2. m % Span = r /\ DataBefore(m) = Data * q + r
  <2>1. m % Span = r /\ DataBefore(m) = Data * q + (IF r < Data THEN r ELSE Data)
    BY <1>1, PlaceIs
  <2>2. r < Data
    BY <1>1, ReceiveConstants
  <2> QED BY <2>1, <2>2
<1>3. DataBefore(n) = Data * Rounds + 0 /\ n % Span = 0
  <2>1. n = Span * Rounds + 0 /\ 0 \in 0 .. Span - 1 /\ 0 < Data
    BY <1>1, ReceiveConstants
  <2>2. DataBefore(n) = Data * Rounds + (IF 0 < Data THEN 0 ELSE Data)
    BY <1>1, <2>1, PlaceIs
  <2> QED BY <2>1, <2>2, WrapIs
<1>4. DataBefore(n) - DataBefore(m) = 1
  <2>1. Data * (q + 1) = Data * q + Data /\ Data * q \in Nat /\ Data \in Nat
    BY ReceiveConstants
  <2> QED BY <1>1, <1>2, <1>3, <2>1
<1>5. IsSound(m)
  BY <1>1, <1>2, ReceiveConstants DEF IsSound
<1>6. w \in Seq(Nat) /\ Len(w) = 1 /\ w[1] = m
  BY <1>1
<1> HIDE DEF w, l
<1>7. Line(n, w)
  <2>1. \A i \in 1 .. 1 : i = 1
    OBVIOUS
  <2>2. 2 .. 1 = {}
    OBVIOUS
  <2>3. \A i, j \in 1 .. 1 : ~(i < j)
    OBVIOUS
  <2>4. w \in Positions /\ Spread(w, Reach)
    <3>1. Len(w) > 0 /\ \A i, j \in 1 .. Len(w) : ~(i < j)
      BY <1>6, <2>3
    <3> QED BY <1>6, <3>1 DEF Positions, Spread
  <2>5. \A i \in 1 .. Len(w) : w[i] < n /\ IsSound(w[i])
    BY <1>1, <1>5, <1>6, <2>1
  <2> QED BY <1>1, <1>4, <1>6, <2>2, <2>4, <2>5, ReceiveConstants DEF Line
<1>8. Arrivals(n, w)
  <2>1. <<>> \in Seq(Packets) /\ Len(<<>>) = 0 /\ 0 + 1 = 1 /\ 1 .. 0 = {}
    OBVIOUS
  <2>2. n % SeqWrap = 0 /\ 0 <= PendingMax
    BY ReceiveConstants
  <2>3. DataBefore(n) - DataBefore(w[Len(w)]) - 1 = 0
    BY <1>4, <1>6
  <2>4. host = [seq |-> n % SeqWrap, lost |-> DataBefore(n) - DataBefore(w[Len(w)]) - 1]
    BY <2>2, <2>3 DEF Idle
  <2>5. pending \in Seq(Packets) /\ Len(w) = Len(pending) + 1 /\ Len(pending) <= PendingMax /\ 1 .. Len(pending) = {}
    BY <1>6, <2>1, <2>2
  <2> QED BY <1>7, <2>4, <2>5 DEF Arrivals, Idle
<1>9. CountedParity(n, w)
  <2>1. DataBefore(n) \in Nat /\ DataBefore(m) \in Nat
    BY <1>1, CountType
  <2>2. ParityBefore(n) - ParityBefore(w[1]) >= 0
    BY <1>1, <1>4, <1>6, <2>1 DEF ParityBefore
  <2> QED BY <1>6, <2>2 DEF CountedParity, Idle
<1>10. Cache(fec, <<>>, n, w, parity)
  <2>1. <<>> \in Seq(Shards) /\ <<>> \in Seq(Nat) /\ Len(<<>>) = 0 /\ 1 .. 0 = {} /\ 0 <= CacheBlocks
    BY ReceiveConstants
  <2>2. Spread(<<>>, Apart)
    BY <2>1 DEF Spread
  <2>3. Numbered(<<>>, <<>>)
    BY <2>1, <2>2 DEF Numbered
  <2> QED BY <2>1, <2>3 DEF Cache, Edge
<1>11. Turn(w) /\ Mark(w, <<>>, 0)
  BY DEF Turn, Mark, Repairing, Idle
<1> QED BY <1>8, <1>9, <1>10, <1>11 DEF OrderInvariant, Known

-----------------------------------------------------------------------------
\* Nothing is learnt or forgotten without a packet.
LEMMA Still ==
  ASSUME NEW n, NEW w, NEW x, Known(n, w, x), UNCHANGED <<host, seen, store>>
  PROVE  Known(n, w, x)'
<1>1. host' = host /\ last' = last /\ parity' = parity /\ fec' = fec /\ pending' = pending
  BY DEF seen, store
<1>2. Arrivals(n, w)'
  BY <1>1 DEF Known, Arrivals
<1>3. CountedParity(n, w)'
  BY <1>1 DEF Known, CountedParity
<1>4. Cache(fec, x, n, w, parity)'
  BY <1>1 DEF Known
<1> QED BY <1>2, <1>3, <1>4 DEF Known

\* A step that takes no packet and leaves the cache alone.
LEMMA QuietStep ==
  ASSUME OrderInvariant, pc # "ended", pc' # "ended", then' # "ended", UNCHANGED <<host, seen, store, ahead>>,
         due = Lost /\ last.have => due' = Lost,
         Fresh' => \A w, x, z : Turn(w) /\ Mark(w, x, z) => (Turn(w) /\ Mark(w, x, z))'
  PROVE  OrderInvariant'
<1>1. SUFFICES ASSUME Fresh' PROVE \E n, w, x, z : (Known(n, w, x) /\ Turn(w) /\ Mark(w, x, z))'
  BY DEF OrderInvariant
<1>2. Fresh
  BY <1>1 DEF Fresh, seen
<1>3. PICK n, w, x, z : Known(n, w, x) /\ Turn(w) /\ Mark(w, x, z)
  BY <1>2 DEF OrderInvariant
<1>4. Known(n, w, x)'
  BY <1>3, Still
<1>5. (Turn(w) /\ Mark(w, x, z))'
  BY <1>1, <1>3
<1> QED BY <1>4, <1>5

\* Media time modulo MediaMod.
LEMMA Counted ==
  ASSUME NEW d \in Media
  PROVE  /\ (d + 0) % MediaMod = d /\ (d + 1) % MediaMod \in Media /\ d \in Int /\ d # Lost
         /\ \A k \in Nat : (((d + 1) % MediaMod) + k) % MediaMod = (d + (k + 1)) % MediaMod
         /\ (((d + 1) % MediaMod) + 0) % MediaMod = (d + 1) % MediaMod
<1>1. PICK m \in Nat \ {0} : m = MediaMod /\ d \in 0 .. m - 1
  BY ReceiveConstants DEF Media
<1>2. d = m * 0 + d /\ 0 \in Int
  BY <1>1
<1>3. d % m = d
  BY <1>1, <1>2, Quotient
<1>4. (d + 1) % m \in 0 .. m - 1
  BY <1>1
<1>5. \A k \in Nat : (((d + 1) % m) + k) % m = (d + (k + 1)) % m
  <2>1. TAKE k \in Nat
  <2>2. PICK a \in Nat : a = d + 1 /\ a + k = d + (k + 1)
    BY <1>1
  <2>3. ((a % m) + k) % m = (a + k) % m
    BY Advance, ZenonT(30)
  <2> QED BY <2>2, <2>3
<1>6. d + 0 = d /\ d # Lost /\ d \in Int
  BY <1>1 DEF Lost
<1>7. (((d + 1) % m) + 0) % m = (d + 1) % m
  <2>1. (((d + 1) % m) + 0) % m = (d + (0 + 1)) % m
    BY <1>5
  <2>2. d + (0 + 1) = d + 1
    BY <1>1
  <2> QED BY <2>1, <2>2
<1> QED BY <1>1, <1>3, <1>4, <1>5, <1>6, <1>7 DEF Media

\* The actions, one by one.
LEMMA StagedKeeps ==
  ASSUME OrderInvariant, Staged
  PROVE  OrderInvariant'
<1>1. pc = "append" /\ UNCHANGED <<host, seen, store, fec_pending, ahead>>
      /\ due' = IF due = Lost THEN Lost ELSE (due + 1) % MediaMod
  BY DEF Staged
<1>2. /\ then = "loop" => pc' = "loop" /\ then' = "loop"
      /\ then # "loop" => pc' = then /\ UNCHANGED <<cur, then, gap, missing>>
  BY DEF Staged, EndTurn
<1>3. ASSUME Fresh', NEW w, NEW x, NEW z, Turn(w), Mark(w, x, z) PROVE (Turn(w) /\ Mark(w, x, z))'
  <2>1. last' = last /\ fec' = fec /\ fec_pending' = FALSE /\ last.have /\ due \in Media /\ fec_pending = FALSE
        /\ then \in {"loop", "recover", "conceal", "decode"} /\ cur = Packet(w[1] % SeqWrap)
    BY <1>1, <1>3 DEF Turn, seen, store
  <2>2. due' = (due + 1) % MediaMod /\ due' \in Media
    BY <1>1, <2>1, Counted
  <2>3. CASE then = "loop"
    <3>1. due = Time(w[1])
      BY <1>1, <1>3, <2>1, <2>3, Counted DEF Turn, Owes
    <3>2. Turn(w)'
      BY <1>2, <2>1, <2>2, <2>3, <3>1 DEF Turn
    <3> QED BY <1>2, <2>3, <3>2 DEF Mark, Repairing
  <2>4. CASE then \in {"recover", "conceal"}
    <3>1. gap \in Nat /\ Owes(gap + 1, w) /\ gap' = gap /\ cur' = cur /\ pc' = then /\ missing' = missing
      BY <1>1, <1>2, <1>3, <2>4 DEF Turn
    <3>2. Owes(gap, w)'
      BY <2>1, <2>2, <3>1, Counted DEF Owes
    <3>3. Turn(w)'
      BY <2>1, <2>2, <2>4, <3>1, <3>2 DEF Turn
    <3>4. Mark(w, x, z)'
      BY <1>1, <1>3, <2>1, <2>2, <2>4, <3>1 DEF Mark, Repairing, Owed
    <3> QED BY <3>3, <3>4
  <2>5. CASE then = "decode"
    <3>1. Owes(1, w) /\ cur' = cur /\ pc' = "decode"
      BY <1>1, <1>2, <1>3, <2>5 DEF Turn
    <3>2. Owes(0, w)'
      BY <2>1, <2>2, <3>1, Counted DEF Owes
    <3>3. Turn(w)'
      BY <2>1, <2>2, <3>1, <3>2 DEF Turn
    <3> QED BY <3>1, <3>3 DEF Mark, Repairing
  <2> QED BY <2>1, <2>3, <2>4, <2>5
<1>4. pc' # "ended" /\ then' # "ended" /\ (due = Lost /\ last.have => due' = Lost)
  BY <1>1, <1>2 DEF OrderInvariant
<1> QED BY <1>1, <1>3, <1>4, QuietStep

LEMMA StageGivesUpKeeps ==
  ASSUME OrderInvariant, StageGivesUp
  PROVE  OrderInvariant'
<1>1. pc = "append" /\ UNCHANGED <<host, seen, store, ahead>> /\ due' = Lost
      /\ pc' \in {"loop", "conceal", then} /\ then' \in {"loop", then}
  BY DEF StageGivesUp, EndTurn
<1>2. ASSUME Fresh', NEW w, NEW x, NEW z, Turn(w), Mark(w, x, z) PROVE (Turn(w) /\ Mark(w, x, z))'
  BY <1>1, <1>2 DEF Turn, Fresh, seen
<1>3. pc' # "ended" /\ then' # "ended"
  BY <1>1 DEF OrderInvariant
<1> QED BY <1>1, <1>2, <1>3, QuietStep

LEMMA TimePlcKeeps ==
  ASSUME OrderInvariant, TimePlc
  PROVE  OrderInvariant'
<1>1. pc = "loop" /\ UNCHANGED <<host, seen, store, ahead>> /\ due' = Lost /\ pc' = "append" /\ then' = "loop" /\ last.have
  BY DEF TimePlc, Polling, AppendThen
<1>2. ASSUME Fresh' PROVE FALSE
  BY <1>1, <1>2 DEF Fresh, seen
<1> QED BY <1>1, <1>2, QuietStep

LEMMA DrainEndsKeeps ==
  ASSUME OrderInvariant, DrainEnds
  PROVE  OrderInvariant'
<1>1. pc = "drain" /\ UNCHANGED <<host, turn, seen, store, fec_pending, due, ahead>> /\ pc' = "recover"
  BY DEF DrainEnds
<1>2. cur' = cur /\ then' = then /\ gap' = gap /\ missing' = missing /\ last' = last /\ fec' = fec
  BY <1>1 DEF turn, seen, store
<1>3. ASSUME NEW w, NEW x, NEW z, Turn(w), Mark(w, x, z) PROVE (Turn(w) /\ Mark(w, x, z))'
  <2>1. Turn(w)'
    BY <1>1, <1>2, <1>3 DEF Turn, Owes
  <2>2. Mark(w, x, z)'
    BY <1>1, <1>2, <1>3 DEF Mark, Repairing, Owed
  <2> QED BY <2>1, <2>2
<1>4. then' # "ended"
  BY <1>2 DEF OrderInvariant
<1> QED BY <1>1, <1>3, <1>4, QuietStep

LEMMA RecoverEndsKeeps ==
  ASSUME OrderInvariant, RecoverEnds
  PROVE  OrderInvariant'
<1>1. /\ pc = "recover" /\ UNCHANGED <<host, cur, then, seen, store, fec_pending, ahead>> /\ pc' = "conceal"
      /\ (due = Lost => due' = Lost) /\ due' \in {due, Lost}
      /\ due' = due => gap' = gap \/ (gap' = 0 /\ ~(gap > 0)) \/ due = Lost
  <2> DEFINE left == gap > MaxConceal \/ s_teardown_started
  <2>1. gap' = (IF left THEN 0 ELSE gap) /\ due' = (IF left /\ gap > 0 THEN Lost ELSE due)
    BY DEF RecoverEnds
  <2> HIDE DEF left
  <2>2. (due = Lost => due' = Lost) /\ due' \in {due, Lost}
    BY <2>1
  <2>3. due' = due => gap' = gap \/ (gap' = 0 /\ ~(gap > 0)) \/ due = Lost
    BY <2>1
  <2> QED BY <2>2, <2>3 DEF RecoverEnds
<1>2. last' = last /\ fec' = fec
  BY <1>1 DEF seen, store
<1>3. ASSUME Fresh', NEW w, NEW x, NEW z, Turn(w), Mark(w, x, z) PROVE (Turn(w) /\ Mark(w, x, z))'
  <2>1. last.have /\ due \in Media /\ gap \in Nat /\ Owes(gap, w) /\ fec_pending = FALSE /\ cur = Packet(w[1] % SeqWrap)
    BY <1>1, <1>3 DEF Turn
  <2>2. due' = due /\ due # Lost
    BY <1>1, <1>2, <1>3, <2>1, Counted DEF Fresh
  <2>3. gap' = gap
    BY <1>1, <2>1, <2>2
  <2>4. Turn(w)'
    BY <1>1, <1>2, <2>1, <2>2, <2>3 DEF Turn, Owes
  <2> QED BY <1>1, <2>4 DEF Mark, Repairing
<1>4. then' # "ended"
  BY <1>1 DEF OrderInvariant
<1> QED BY <1>1, <1>3, <1>4, QuietStep

LEMMA ConcealKeeps ==
  ASSUME OrderInvariant, Conceal
  PROVE  OrderInvariant'
<1>1. pc = "conceal" /\ UNCHANGED <<host, cur, missing, seen, store, due, ahead>>
  BY DEF Conceal
<1>2. last' = last /\ fec' = fec
  BY <1>1 DEF seen, store
<1>3. \/ gap > 1 /\ pc' = "append" /\ chunk' = Filler /\ then' = "conceal" /\ gap' = gap - 1 /\ UNCHANGED fec_pending
      \/ ~(gap > 1) /\ pc' = "decode" /\ fec_pending' = (fec_pending \/ gap = 1) /\ then' = then
  BY DEF Conceal, AppendThen
<1>4. ASSUME Fresh', NEW w, NEW x, NEW z, Turn(w), Mark(w, x, z) PROVE (Turn(w) /\ Mark(w, x, z))'
  <2>1. last.have /\ due \in Media /\ gap \in Nat /\ Owes(gap, w) /\ fec_pending = FALSE /\ cur = Packet(w[1] % SeqWrap)
    BY <1>1, <1>4 DEF Turn
  <2>2. CASE gap > 1 /\ pc' = "append" /\ chunk' = Filler /\ then' = "conceal" /\ gap' = gap - 1 /\ UNCHANGED fec_pending
    <3>1. gap' \in Nat /\ gap' + 1 = gap
      BY <2>1, <2>2
    <3>2. Owes(gap + 1, w)'
      BY <1>1, <2>1, <3>1 DEF Owes
    <3>3. Turn(w)'
      BY <1>1, <1>2, <2>1, <2>2, <3>1, <3>2 DEF Turn
    <3> QED BY <2>2, <3>3 DEF Mark, Repairing
  <2>3. CASE ~(gap > 1) /\ pc' = "decode" /\ fec_pending' = (fec_pending \/ gap = 1) /\ then' = then
    <3>1. gap = 0 \/ gap = 1
      BY <2>1, <2>3
    <3>2. fec_pending' \in BOOLEAN /\ (fec_pending' <=> gap = 1)
      BY <2>1, <2>3
    <3>3. Owes(IF fec_pending THEN 1 ELSE 0, w)'
      BY <1>1, <2>1, <3>1, <3>2 DEF Owes
    <3>4. Turn(w)'
      BY <1>1, <1>2, <2>1, <2>3, <3>2, <3>3 DEF Turn
    <3> QED BY <2>3, <3>4 DEF Mark, Repairing
  <2> QED BY <1>3, <2>2, <2>3
<1>5. pc' # "ended" /\ then' # "ended"
  BY <1>3 DEF OrderInvariant
<1> QED BY <1>1, <1>4, <1>5, QuietStep

LEMMA DecodeSkipsKeeps ==
  ASSUME OrderInvariant, DecodeSkips
  PROVE  OrderInvariant'
<1>1. pc = "decode" /\ UNCHANGED <<host, seen, store, ahead>> /\ due' = Lost /\ pc' = "loop" /\ then' = "loop"
  BY DEF DecodeSkips, EndTurn
<1>2. ASSUME Fresh', NEW w, NEW x, NEW z, Turn(w), Mark(w, x, z) PROVE (Turn(w) /\ Mark(w, x, z))'
  BY <1>1, <1>2 DEF Turn, Fresh, seen
<1> QED BY <1>1, <1>2, QuietStep

LEMMA DecodeFailsKeeps ==
  ASSUME OrderInvariant, DecodeFails
  PROVE  OrderInvariant'
<1>1. pc = "decode" /\ UNCHANGED <<host, cur, seen, store, ahead>> /\ pc' = "append" /\ then' = "loop" /\ chunk' = Filler
      /\ fec_pending' = FALSE /\ due' = (IF fec_pending THEN Lost ELSE due)
  BY DEF DecodeFails, AppendThen
<1>2. ASSUME Fresh', NEW w, NEW x, NEW z, Turn(w), Mark(w, x, z) PROVE (Turn(w) /\ Mark(w, x, z))'
  <2>1. last' = last /\ last.have /\ due \in Media /\ cur = Packet(w[1] % SeqWrap)
    BY <1>1, <1>2 DEF Turn, seen
  <2>2. ~fec_pending /\ due' = due
    BY <1>1, <1>2, <2>1 DEF Fresh
  <2>3. Owes(0, w)'
    BY <1>1, <1>2, <2>2 DEF Turn, Owes
  <2>4. Turn(w)'
    BY <1>1, <2>1, <2>2, <2>3 DEF Turn
  <2> QED BY <1>1, <2>4 DEF Mark, Repairing
<1>3. due = Lost => due' = Lost
  BY <1>1
<1> QED BY <1>1, <1>2, <1>3, QuietStep

LEMMA DecodeFecKeeps ==
  ASSUME OrderInvariant, DecodeFec
  PROVE  OrderInvariant'
<1>1. pc = "decode" /\ UNCHANGED <<host, cur, seen, store, due, ahead>> /\ pc' = "append" /\ then' = "decode" /\ chunk' = Filler
      /\ fec_pending /\ fec_pending' = FALSE
  BY DEF DecodeFec, AppendThen
<1>2. ASSUME NEW w, NEW x, NEW z, Turn(w), Mark(w, x, z) PROVE (Turn(w) /\ Mark(w, x, z))'
  <2>1. last' = last /\ last.have /\ due \in Media /\ cur = Packet(w[1] % SeqWrap)
    BY <1>1, <1>2 DEF Turn, seen
  <2>2. Owes(1, w)'
    BY <1>1, <1>2 DEF Turn, Owes
  <2>3. Turn(w)'
    BY <1>1, <2>1, <2>2 DEF Turn
  <2> QED BY <1>1, <2>3 DEF Mark, Repairing
<1> QED BY <1>1, <1>2, QuietStep

LEMMA DecodeChunkKeeps ==
  ASSUME OrderInvariant, DecodeChunk
  PROVE  OrderInvariant'
<1>1. pc = "decode" /\ UNCHANGED <<host, cur, seen, store, due, ahead>> /\ pc' = "append" /\ then' = "loop" /\ chunk' = cur.media
      /\ ~fec_pending /\ fec_pending' = fec_pending
  BY DEF DecodeChunk, AppendThen
<1>2. \A n, w, x : Known(n, w, x) => w[1] \in Nat /\ IsSound(w[1])
  BY LastIs DEF Known, Arrivals
<1>3. CASE ~Fresh
  <2>1. ~Fresh'
    BY <1>1, <1>3 DEF Fresh, seen
  <2> QED BY <1>1, <2>1 DEF OrderInvariant
<1>4. CASE Fresh
  <2>1. PICK n, w, x, z : Known(n, w, x) /\ Turn(w) /\ Mark(w, x, z)
    BY <1>1, <1>4 DEF OrderInvariant
  <2>2. Known(n, w, x)'
    BY <1>1, <2>1, Still
  <2>3. last' = last /\ last.have /\ due \in Media /\ cur = Packet(w[1] % SeqWrap) /\ fec_pending = FALSE
    BY <1>1, <2>1 DEF Turn, seen
  <2>4. due = Time(w[1])
    BY <1>1, <2>1, <2>3, Counted DEF Turn, Owes
  <2>5. cur.media = Time(w[1])
    BY <1>2, <2>1, <2>3, SoundPacket
  <2>6. Owes(0, w)'
    BY <1>1, <2>1 DEF Turn, Owes
  <2>7. Turn(w)'
    BY <1>1, <2>3, <2>4, <2>5, <2>6 DEF Turn
  <2>8. Mark(w, x, z)'
    BY <1>1 DEF Mark, Repairing
  <2> QED BY <1>1, <2>2, <2>7, <2>8 DEF OrderInvariant
<1> QED BY <1>3, <1>4

LEMMA BeginShutdownKeeps ==
  ASSUME OrderInvariant, BeginShutdown
  PROVE  OrderInvariant'
<1>1. UNCHANGED <<host, pc, turn, seen, store, fec_pending, due, ahead>>
  BY DEF BeginShutdown
<1>2. cur' = cur /\ chunk' = chunk /\ then' = then /\ gap' = gap /\ missing' = missing /\ last' = last /\ fec' = fec /\ parity' = parity
  BY <1>1 DEF turn, seen, store
<1>3. CASE pc = "ended"
  BY <1>1, <1>2, <1>3 DEF OrderInvariant, Idle
<1>4. CASE pc # "ended"
  <2>1. ASSUME NEW w, NEW x, NEW z, Turn(w), Mark(w, x, z) PROVE (Turn(w) /\ Mark(w, x, z))'
    <3>1. Turn(w)'
      BY <1>1, <1>2, <2>1 DEF Turn, Owes
    <3>2. Mark(w, x, z)'
      BY <1>1, <1>2, <2>1 DEF Mark, Repairing, Owed
    <3> QED BY <3>1, <3>2
  <2>2. pc' # "ended" /\ then' # "ended"
    BY <1>1, <1>2, <1>4 DEF OrderInvariant
  <2> QED BY <1>1, <1>4, <2>1, <2>2, QuietStep
<1> QED BY <1>3, <1>4

LEMMA ReceiveEndsKeeps ==
  ASSUME OrderInvariant, ReceiveEnds
  PROVE  OrderInvariant'
BY DEF OrderInvariant, ReceiveEnds, Idle, turn

LEMMA AudioInitKeeps ==
  ASSUME OrderInvariant, AudioInit
  PROVE  OrderInvariant'
<1>1. pc = "ended" /\ UNCHANGED <<host, turn, seen, fec_pending, due, ahead>> /\ pc' = "loop" /\ fec' = <<>> /\ pending' = <<>>
  BY DEF AudioInit
<1>2. Idle' /\ then' # "ended"
  BY <1>1 DEF OrderInvariant, Idle, turn, seen
<1>3. (Idle /\ fec = <<>> /\ pending = <<>> /\ pc = "loop" /\ then # "ended" => OrderInvariant)'
  BY Beginning, PTL
<1> QED BY <1>1, <1>2, <1>3

\* A repaired frame is the one that is due.
LEMMA RecoverKeeps ==
  ASSUME OrderInvariant, Recover
  PROVE  OrderInvariant'
<1>1. /\ pc = "recover" /\ gap > 0 /\ Recoverable(fec, missing) /\ pc' = "append" /\ then' = "recover"
      /\ gap' = gap - 1 /\ missing' = (missing + 1) % SeqWrap
      /\ UNCHANGED <<host, cur, seen, pending, fec_pending, due, ahead>>
  BY DEF Recover, AppendThen
<1>2. PICK r : r = audio_rtp_fec_recover_payload(fec, missing) /\ fec' = r.cache /\ chunk' = r.media
  BY DEF Recover, AppendThen
<1>3. last' = last /\ parity' = parity
  BY <1>1 DEF seen
<1>4. CASE ~Fresh
  <2>1. ~Fresh'
    BY <1>1, <1>3, <1>4 DEF Fresh
  <2> QED BY <1>1, <2>1 DEF OrderInvariant
<1>5. CASE Fresh
  <2>1. PICK n, w, x, z : Known(n, w, x) /\ Turn(w) /\ Mark(w, x, z)
    BY <1>1, <1>5 DEF OrderInvariant
  <2>2. /\ last.have /\ due \in Media /\ cur = Packet(w[1] % SeqWrap) /\ fec_pending = FALSE
        /\ gap \in Nat /\ Owes(gap, w)
    BY <1>1, <2>1 DEF Turn
  <2>3. /\ z \in Nat /\ missing = z % SeqWrap /\ w[1] - z < Reach /\ z + gap <= w[1]
        /\ IsSound(z) => Time(z) = due \/ Unfit(z, fec, x, w[1])
    BY <1>1, <2>1 DEF Mark, Repairing, Owed
  <2>4. Line(n, w) /\ Len(w) <= PendingMax + 1 /\ Cache(fec, x, n, w, parity) /\ parity \in Nat /\ w[1] \in Nat
    <3>1. Line(n, w) /\ Len(w) = Len(pending) + 1 /\ Len(pending) <= PendingMax /\ pending \in Seq(Packets)
      BY <2>1 DEF Known, Arrivals
    <3>2. Len(w) <= PendingMax + 1
      BY <3>1, ReceiveConstants
    <3> QED BY <2>1, <3>1, <3>2, LastIs DEF Known, CountedParity
  <2>5. z <= w[1]
    BY <2>2, <2>3, <2>4
  <2>6. IsSound(z) /\ Time(z) = due /\ r.media = due /\ Cache(r.cache, x, n, w, parity)
    <3>1. Recoverable(fec, z % SeqWrap) /\ r = audio_rtp_fec_recover_payload(fec, z % SeqWrap)
      BY <1>1, <1>2, <2>3
    <3>2. PICK k \in Nat : k = parity
      BY <2>4
    <3>3. Cache(fec, x, n, w, k)
      BY <2>4, <3>2
    <3>4. z <= w[1] /\ w[1] - z < Reach /\ z \in Nat
      BY <2>3, <2>5
    <3>5. IsSound(z) /\ ~Unfit(z, fec, x, w[1]) /\ r.media = Time(z) /\ Cache(r.cache, x, n, w, k)
      BY <2>4, <3>1, <3>3, <3>4, Repaired
    <3> QED BY <2>3, <3>2, <3>5
  <2>7. Known(n, w, x)'
    <3>1. Arrivals(n, w)'
      BY <1>1, <1>3, <2>1 DEF Known, Arrivals
    <3>2. CountedParity(n, w)'
      BY <1>3, <2>1 DEF Known, CountedParity
    <3>3. Cache(fec, x, n, w, parity)'
      BY <1>2, <1>3, <2>6
    <3> QED BY <3>1, <3>2, <3>3 DEF Known
  <2>8. gap' \in Nat /\ gap' + 1 = gap
    BY <1>1, <2>2
  <2>9. Turn(w)'
    <3>1. Owes(gap + 1, w)'
      BY <1>1, <2>2, <2>8 DEF Owes
    <3> QED BY <1>1, <1>2, <1>3, <2>2, <2>6, <2>8, <3>1 DEF Turn
  <2>10. Mark(w, x, z + 1)'
    <3>1. z + 1 \in Nat /\ w[1] - (z + 1) < Reach /\ (z + 1) + gap' <= w[1]
      <4>1. PICK l \in Nat, R \in Nat : l = w[1] /\ R = Reach
        BY <2>4, ReachIs
      <4>2. l - z < R /\ z + gap <= l
        BY <2>3, <4>1
      <4> QED BY <2>3, <2>8, <4>1, <4>2
    <3>2. missing' = (z + 1) % SeqWrap
      <4>1. SeqWrap \in Nat \ {0} /\ 1 \in Nat
        BY ReceiveConstants
      <4>2. ((z % SeqWrap) + 1) % SeqWrap = (z + 1) % SeqWrap
        BY <2>3, <4>1, Advance
      <4> QED BY <1>1, <2>3, <4>2
    <3>3. Time(z + 1) = (due + 1) % MediaMod
      <4>1. DataBefore(z + 1) = DataBefore(z) + 1
        BY <2>3, <2>6, CountNext
      <4>2. PICK d \in Nat, m \in Nat \ {0} : d = DataBefore(z) /\ m = MediaMod
        BY <2>3, CountType, ReceiveConstants
      <4>3. ((d % m) + 1) % m = (d + 1) % m
        <5>1. 1 \in Nat
          OBVIOUS
        <5> QED BY <5>1, Advance, ZenonT(30)
      <4> QED BY <2>6, <4>1, <4>2, <4>3 DEF Time
    <3>4. Owed' = (due + 1) % MediaMod
      BY <1>1 DEF Owed
    <3> QED BY <3>1, <3>2, <3>3, <3>4 DEF Mark
  <2> QED BY <1>1, <2>7, <2>9, <2>10 DEF OrderInvariant
<1> QED BY <1>4, <1>5

\* A parity packet comes while no packet is put aside: it is counted.
LEMMA ParityArrives ==
  ASSUME NEW n, NEW w, NEW x, Known(n, w, x), pending = <<>>,
         NEW lost \in Losses, Arrives(lost), ~Received(lost).data, fec' = Cached(Received(lost)),
         parity' = parity + 1, UNCHANGED <<last, pending>>
  PROVE  \E m, u, a : /\ Known(m, w, u)' /\ Kept(fec', u, fec, x, a)
                      /\ \A z \in Nat : Base(z) + Span <= w[1] => a # Base(z)
<1>1. /\ Line(n, w) /\ Len(w) = 1 /\ Cache(fec, x, n, w, parity) /\ parity \in Nat
      /\ host = [seq |-> n % SeqWrap, lost |-> DataBefore(n) - DataBefore(w[Len(w)]) - 1]
      /\ parity <= ParityBefore(n) - ParityBefore(w[1])
  BY DEF Known, Arrivals, CountedParity
<1>2. PICK y \in Nat : /\ n <= y /\ Received(lost) = Packet(y % SeqWrap) /\ DataBefore(y) - DataBefore(w[Len(w)]) <= MaxBurst + 1
                       /\ host' = [seq |-> (y + 1) % SeqWrap,
                                   lost |-> IF IsSound(y) THEN 0 ELSE DataBefore(y + 1) - DataBefore(w[Len(w)]) - 1]
  BY <1>1, Arrival
<1>3. ~IsSound(y)
  BY <1>2, SoundPacket
<1>4. PICK s \in 0 .. Parity - 1 : fec' = audio_rtp_fec_cache_parity(fec, Start(y) % SeqWrap, s, Time(Start(y)))
  <2>1. PICK p : p = Received(lost)
    OBVIOUS
  <2>2. p.data = FALSE /\ p.media = Time(Start(y)) /\ p.shard \in 0 .. Parity - 1 /\ p.seq - Data - p.shard = Start(y) % SeqWrap
    BY <1>2, <1>3, <2>1, ParityPacket
  <2> QED BY <2>1, <2>2 DEF Cached
<1>5. PICK u \in Seq(Nat) : Cache(fec', u, y + 1, w, parity + 1) /\ Kept(fec', u, fec, x, Start(y))
  BY <1>1, <1>2, <1>3, <1>4, CacheParity
<1>6. Line(y + 1, w)
  BY <1>1, <1>2, <1>3, LineOn
<1>7. Arrivals(y + 1, w)'
  BY <1>1, <1>2, <1>3, <1>6 DEF Known, Arrivals
<1>8. CountedParity(y + 1, w)'
  <2>1. PICK a \in Nat, b \in Nat, m \in Nat : a = DataBefore(n) /\ b = DataBefore(y) /\ m = n /\ b - a <= y - m /\ m <= y
    BY <1>1, <1>2, LastIs, Counting
  <2>2. DataBefore(y + 1) = b
    BY <1>3, <2>1, CountNext
  <2>3. ParityBefore(y + 1) >= ParityBefore(n) + 1 /\ ParityBefore(y + 1) \in Int /\ ParityBefore(n) \in Int
    BY <2>1, <2>2, SMTT(60) DEF ParityBefore
  <2>4. ParityBefore(w[1]) \in Int
    <3>1. w[1] \in Nat /\ DataBefore(w[1]) \in Nat
      BY <1>1, LastIs, CountType
    <3> QED BY <3>1 DEF ParityBefore
  <2>5. parity + 1 \in Nat /\ parity + 1 <= ParityBefore(y + 1) - ParityBefore(w[1])
    BY <1>1, <2>3, <2>4
  <2> QED BY <1>1, <2>5 DEF CountedParity
<1>9. Known(y + 1, w, u)'
  BY <1>5, <1>7, <1>8 DEF Known
<1>10. \A z \in Nat : Base(z) + Span <= w[1] => Start(y) # Base(z)
  <2>1. w[1] \in Nat /\ w[1] <= y
    <3>1. w[1] \in Nat /\ w[1] < n /\ n \in Nat
      BY <1>1, LastIs
    <3> QED BY <1>2, <3>1
  <2> QED BY <2>1, Elsewhere
<1> QED BY <1>5, <1>9, <1>10

\* Parity between two turns.
LEMMA ReceiveParityKeeps ==
  ASSUME OrderInvariant, ReceiveParity
  PROVE  OrderInvariant'
<1>1. pc = "loop" /\ pending = <<>> /\ parity' = parity + 1 /\ UNCHANGED <<pc, turn, last, pending, fec_pending, due, ahead>>
  BY DEF ReceiveParity, Polling
<1>2. PICK lost \in Losses : Arrives(lost) /\ ~Received(lost).data /\ fec' = Cached(Received(lost))
  BY DEF ReceiveParity
<1>3. cur' = cur /\ then' = then /\ pc' = pc /\ last' = last /\ due' = due /\ ahead' = ahead /\ fec_pending' = fec_pending /\ pending' = pending
  BY <1>1 DEF turn
<1>4. SUFFICES ASSUME Fresh' PROVE \E n, w, x, z : (Known(n, w, x) /\ Turn(w) /\ Mark(w, x, z))'
  BY <1>1, <1>3 DEF OrderInvariant
<1>5. PICK n, w, x, z : Known(n, w, x) /\ Turn(w) /\ Mark(w, x, z)
  BY <1>1, <1>3, <1>4 DEF OrderInvariant, Fresh
<1>6. PICK m, u : Known(m, w, u)'
  BY <1>1, <1>2, <1>5, ParityArrives
<1>7. Turn(w)'
  BY <1>1, <1>3, <1>5 DEF Turn
<1>8. Mark(w, u, 0)'
  BY <1>1, <1>3 DEF Mark, Repairing
<1> QED BY <1>6, <1>7, <1>8

\* A data packet comes and is put aside.
LEMMA DataArrives ==
  ASSUME NEW n, NEW w, NEW x, Known(n, w, x), Len(pending) < PendingMax, last.have,
         NEW lost \in Losses, Arrives(lost), Received(lost).data, fec' = Cached(Received(lost)),
         pending' = Append(pending, Received(lost)), UNCHANGED <<last, parity>>
  PROVE  \E m, v, u, a : /\ Known(m, v, u)' /\ v[1] = w[1] /\ Kept(fec', u, fec, x, a)
                         /\ \A z \in Nat : Base(z) + Span <= w[1] => a # Base(z)
<1>1. /\ Line(n, w) /\ Cache(fec, x, n, w, parity) /\ parity \in Nat
      /\ host = [seq |-> n % SeqWrap, lost |-> DataBefore(n) - DataBefore(w[Len(w)]) - 1]
      /\ pending \in Seq(Packets) /\ Len(w) = Len(pending) + 1
      /\ \A i \in 1 .. Len(pending) : pending[i] = Packet(w[i + 1] % SeqWrap)
      /\ last.seq = w[1] % SeqWrap /\ last.ts = Time(w[1])
  BY DEF Known, Arrivals, CountedParity
<1>2. PICK y \in Nat : /\ n <= y /\ Received(lost) = Packet(y % SeqWrap) /\ DataBefore(y) - DataBefore(w[Len(w)]) <= MaxBurst + 1
                       /\ host' = [seq |-> (y + 1) % SeqWrap,
                                   lost |-> IF IsSound(y) THEN 0 ELSE DataBefore(y + 1) - DataBefore(w[Len(w)]) - 1]
  BY <1>1, Arrival
<1>3. IsSound(y)
  <2>1. ~IsSound(y) => Received(lost).data = FALSE
    BY <1>2, ParityPacket
  <2> QED BY <2>1
<1>4. fec' = audio_rtp_fec_cache_data(fec, y % SeqWrap, Time(y))
  <2>1. PICK p : p = Received(lost)
    OBVIOUS
  <2>2. p.data = TRUE /\ p.seq = y % SeqWrap /\ p.media = Time(y)
    BY <1>2, <1>3, <2>1, SoundPacket
  <2> QED BY <2>1, <2>2 DEF Cached
<1>5. PICK k \in Nat : k = parity
  BY <1>1
<1>6. PICK v : v = Append(w, y)
  OBVIOUS
<1>7. /\ Line(y + 1, v) /\ (\A i \in 1 .. Len(w) : w[i] < y) /\ DataBefore(y + 1) - DataBefore(y) - 1 = 0
      /\ w \in Positions /\ v \in Positions /\ n \in Nat
  <2>1. Line(y + 1, v) /\ (\A i \in 1 .. Len(w) : w[i] < y) /\ DataBefore(y + 1) - DataBefore(y) - 1 = 0
    BY <1>1, <1>2, <1>3, <1>6, LineAside
  <2> QED BY <1>1, <2>1 DEF Line
<1>8. PICK h \in Nat : h = Len(pending) /\ Len(w) = h + 1 /\ h < PendingMax
  BY <1>1
<1>9. /\ Len(v) = h + 2 /\ v[h + 2] = y /\ (\A i \in 1 .. h + 1 : v[i] = w[i]) /\ v[1] = w[1]
  <2>1. w \in Seq(Nat)
    BY <1>7 DEF Positions
  <2> QED BY <1>6, <1>8, <2>1
<1>10. \A i \in 1 .. Len(fec) : Good(fec[i], x[i], y + 1, v, k)
  <2>1. TAKE i \in 1 .. Len(fec)
  <2>2. fec[i] \in Shards /\ x[i] \in Nat /\ Good(fec[i], x[i], n, w, k)
    BY <1>1, <1>5 DEF Cache, Numbered
  <2> QED BY <1>2, <1>6, <1>7, <2>2, GoodAside
<1>11. PICK u \in Seq(Nat) : Cache(fec', u, y + 1, v, k) /\ Kept(fec', u, fec, x, Base(y))
  <2>1. v[Len(v)] = y
    BY <1>9
  <2>2. PICK k0 : k0 = k /\ Cache(fec, x, n, w, k0)
    BY <1>1, <1>5
  <2>3. Line(n, w) /\ n <= y /\ IsSound(y) /\ DataBefore(y) - DataBefore(w[Len(w)]) <= MaxBurst + 1 /\ v \in Positions
    BY <1>1, <1>2, <1>3, <1>7
  <2>4. \E u \in Seq(Nat) : LET d == audio_rtp_fec_cache_data(fec, y % SeqWrap, Time(y))
                             IN  Cache(d, u, y + 1, v, k) /\ Kept(d, u, fec, x, Base(y))
    BY <1>10, <2>1, <2>2, <2>3, CacheData
  <2> QED BY <1>4, <2>4
<1>12. Arrivals(y + 1, v)'
  <2>1. host' = [seq |-> (y + 1) % SeqWrap, lost |-> DataBefore(y + 1) - DataBefore(v[Len(v)]) - 1]
    BY <1>2, <1>3, <1>7, <1>9
  <2>2. Packet(y % SeqWrap) \in Packets
    BY OnWire DEF Packets
  <2>3. pending' \in Seq(Packets) /\ Len(pending') = h + 1 /\ pending'[h + 1] = Packet(y % SeqWrap)
        /\ \A i \in 1 .. h : pending'[i] = pending[i]
    BY <1>1, <1>2, <1>8, <2>2
  <2>4. \A i \in 1 .. h + 1 : pending'[i] = Packet(v[i + 1] % SeqWrap)
    <3>1. TAKE i \in 1 .. h + 1
    <3>2. CASE i = h + 1
      <4>1. i + 1 = h + 2
        BY <3>2
      <4> QED BY <1>9, <2>3, <3>2, <4>1
    <3>3. CASE i \in 1 .. h
      <4>1. i + 1 \in 1 .. h + 1
        BY <3>3
      <4>2. v[i + 1] = w[i + 1] /\ pending'[i] = pending[i]
        BY <1>9, <2>3, <3>3, <4>1
      <4>3. pending[i] = Packet(w[i + 1] % SeqWrap)
        BY <1>1, <1>8, <3>3
      <4> QED BY <4>2, <4>3
    <3>4. i = h + 1 \/ i \in 1 .. h
      OBVIOUS
    <3> QED BY <3>2, <3>3, <3>4
  <2>5. Len(v) = Len(pending') + 1 /\ Len(pending') <= PendingMax
    BY <1>8, <1>9, <2>3, ReceiveConstants
  <2>6. last' = last /\ last.have \in BOOLEAN
    BY DEF Known, Arrivals
  <2> QED BY <1>1, <1>7, <1>9, <2>1, <2>3, <2>4, <2>5, <2>6 DEF Arrivals
<1>13. CountedParity(y + 1, v)'
  <2>1. CASE h = 0
    <3>1. v[2] = y /\ Len(v) # 1 /\ Len(w) = 1
      BY <1>8, <1>9, <2>1
    <3>2. PICK l \in Nat : l = w[1]
      BY <1>1, LastIs
    <3>3. PICK a \in Nat, b \in Nat, m \in Nat, e \in Nat :
            a = DataBefore(n) /\ b = DataBefore(y) /\ m = n /\ b - a <= y - m /\ m <= y /\ e = DataBefore(l)
      BY <1>1, <1>2, <3>2, LastIs, Counting, CountType
    <3>4. k <= (m - a) - (l - e)
      BY <1>5, <3>1, <3>2, <3>3 DEF Known, CountedParity, ParityBefore
    <3>5. k <= (y - b) - (l - e)
      <4>1. b - a <= y - m
        BY <3>3
      <4> QED BY <3>4, <4>1
    <3>6. k <= ParityBefore(v[2]) - ParityBefore(v[1])
      BY <1>9, <3>1, <3>2, <3>3, <3>5 DEF ParityBefore
    <3> QED BY <1>5, <3>1, <3>6 DEF CountedParity
  <2>2. CASE h > 0
    <3>1. v[2] = w[2] /\ Len(v) # 1 /\ Len(w) # 1
      BY <1>8, <1>9, <2>2
    <3> QED BY <1>9, <3>1 DEF Known, CountedParity
  <2>3. h = 0 \/ h > 0
    OBVIOUS
  <2> QED BY <2>1, <2>2, <2>3
<1>14. Known(y + 1, v, u)'
  <2>1. Cache(fec, u, y + 1, v, parity)'
    BY <1>5, <1>11
  <2> QED BY <1>12, <1>13, <2>1 DEF Known
<1>15. \A z \in Nat : Base(z) + Span <= w[1] => Base(y) # Base(z)
  <2>1. w[1] \in Nat /\ w[1] <= y
    <3>1. w[1] \in Nat /\ w[1] < n /\ n \in Nat
      BY <1>1, LastIs
    <3> QED BY <1>2, <3>1
  <2> QED BY <2>1, Elsewhere
<1> QED BY <1>9, <1>11, <1>14, <1>15

\* Draining: data is put aside, parity counted, a full queue gives the order up.
LEMMA DrainKeeps ==
  ASSUME OrderInvariant, Drain
  PROVE  OrderInvariant'
<1>1. pc = "drain" /\ UNCHANGED <<cur, chunk, then, gap, missing, last, fec_pending>>
  BY DEF Drain
<1>2. PICK lost \in Losses :
        LET p == Received(lost)
            full == p.data /\ Len(pending) = PendingMax
        IN  /\ Arrives(lost) /\ fec' = Cached(p)
            /\ pending' = IF p.data /\ ~full THEN Append(pending, p) ELSE pending
            /\ parity' = IF p.data THEN parity ELSE parity + 1
            /\ ahead' = (ahead \/ (~p.data /\ pending # <<>>))
            /\ pc' = IF full THEN "recover" ELSE "drain"
            /\ due' = IF full THEN Lost ELSE due
  BY DEF Drain
<1>3. then' # "ended" /\ pc' # "ended"
  BY <1>1, <1>2 DEF OrderInvariant
<1>4. SUFFICES ASSUME Fresh' PROVE \E n, w, x, z : (Known(n, w, x) /\ Turn(w) /\ Mark(w, x, z))'
  BY <1>3 DEF OrderInvariant
<1>5. ~ahead /\ ~ahead' /\ last' = last /\ (due' # Lost \/ ~last.have)
  BY <1>1, <1>2, <1>4 DEF Fresh
<1>6. Fresh
  BY <1>2, <1>5 DEF Fresh
<1>7. PICK n, w, x, z : Known(n, w, x) /\ Turn(w) /\ Mark(w, x, z)
  BY <1>1, <1>6 DEF OrderInvariant
<1>8. /\ last.have /\ due \in Media /\ cur = Packet(w[1] % SeqWrap) /\ fec_pending = FALSE /\ gap \in Nat /\ Owes(gap, w)
      /\ pending \in Seq(Packets) /\ Len(pending) <= PendingMax
  BY <1>1, <1>7 DEF Turn, Known, Arrivals
<1>9. /\ z \in Nat /\ missing = z % SeqWrap /\ w[1] - z < Reach /\ z + gap <= w[1]
      /\ IsSound(z) => Time(z) = due \/ Unfit(z, fec, x, w[1])
  BY <1>1, <1>7 DEF Mark, Repairing, Owed
<1>10. PICK p : p = Received(lost)
  OBVIOUS
<1>11. ~(p.data /\ Len(pending) = PendingMax) /\ pc' = "drain" /\ due' = due
  BY <1>2, <1>5, <1>8, <1>10
<1>12. \E m, v, u, a : /\ Known(m, v, u)' /\ v[1] = w[1] /\ Kept(fec', u, fec, x, a)
                       /\ \A q \in Nat : Base(q) + Span <= w[1] => a # Base(q)
  <2>1. CASE p.data
    <3>1. pending' = Append(pending, p) /\ parity' = parity /\ Arrives(lost) /\ fec' = Cached(p)
      BY <1>2, <1>10, <1>11, <2>1
    <3>2. Len(pending) < PendingMax
      <4>1. PICK h \in Nat, m \in Nat : h = Len(pending) /\ m = PendingMax
        BY <1>8, ReceiveConstants
      <4>2. h <= m /\ h # m
        BY <1>8, <1>11, <2>1, <4>1
      <4> QED BY <4>1, <4>2
    <3> QED BY <1>5, <1>7, <1>8, <1>10, <2>1, <3>1, <3>2, DataArrives
  <2>2. CASE ~p.data
    <3>1. pending = <<>> /\ pending' = pending /\ parity' = parity + 1 /\ Arrives(lost) /\ fec' = Cached(p)
      BY <1>2, <1>5, <1>10, <2>2
    <3>2. \E m, u, a : /\ Known(m, w, u)' /\ Kept(fec', u, fec, x, a)
                       /\ \A q \in Nat : Base(q) + Span <= w[1] => a # Base(q)
      BY <1>5, <1>7, <1>10, <2>2, <3>1, ParityArrives
    <3> QED BY <3>2
  <2> QED BY <2>1, <2>2
<1>13. PICK m, v, u, a : /\ Known(m, v, u)' /\ v[1] = w[1] /\ Kept(fec', u, fec, x, a)
                         /\ \A q \in Nat : Base(q) + Span <= w[1] => a # Base(q)
  BY <1>12
<1>14. Turn(v)'
  <2>1. Owes(gap, v)'
    BY <1>1, <1>8, <1>11, <1>13 DEF Owes
  <2> QED BY <1>1, <1>5, <1>8, <1>11, <1>13, <2>1 DEF Turn
<1>15. Mark(v, u, z)'
  <2>1. IsSound(z) => Time(z) = due \/ Unfit(z, fec', u, w[1])
    <3>1. SUFFICES ASSUME Unfit(z, fec, x, w[1]) PROVE Unfit(z, fec', u, w[1])
      BY <1>9
    <3>2. Base(z) + Span <= w[1] => a # Base(z)
      BY <1>9, <1>13
    <3>3. w[1] \in Nat
      BY <1>7, LastIs DEF Known, Arrivals
    <3> QED BY <1>9, <1>13, <3>1, <3>2, <3>3, UnfitKept
  <2> QED BY <1>1, <1>9, <1>11, <1>13, <2>1 DEF Mark, Owed
<1> QED BY <1>13, <1>14, <1>15

\* The packet of a turn: its number y, and what is known then.
Taken(y, m, v, u, x, w) ==
  /\ IsSound(y) /\ w[1] < y /\ DataBefore(y) - DataBefore(w[1]) <= MaxBurst + 1
  /\ parity <= ParityBefore(y) - ParityBefore(w[1]) /\ \A i \in 2 .. Len(w) : y <= w[i]
  /\ v[1] = y /\ Line(m, v) /\ Cache(fec', u, m, v, 0) /\ Kept(fec', u, fec, x, Base(y))
  /\ host' = [seq |-> m % SeqWrap, lost |-> DataBefore(m) - DataBefore(v[Len(v)]) - 1]
  /\ pending' \in Seq(Packets) /\ Len(v) = Len(pending') + 1 /\ Len(pending') <= PendingMax
  /\ \A i \in 1 .. Len(pending') : pending'[i] = Packet(v[i + 1] % SeqWrap)

\* It was put aside ...
LEMMA TakenAside ==
  ASSUME NEW n, NEW w, NEW x, Known(n, w, x), pending # <<>>, NEW p, Dequeue(p)
  PROVE  \E y \in Nat : \E m, v, u : p = Packet(y % SeqWrap) /\ Taken(y, m, v, u, x, w)
<1>1. /\ Line(n, w) /\ Cache(fec, x, n, w, parity) /\ parity \in Nat
      /\ host = [seq |-> n % SeqWrap, lost |-> DataBefore(n) - DataBefore(w[Len(w)]) - 1]
      /\ pending \in Seq(Packets) /\ Len(w) = Len(pending) + 1 /\ Len(pending) <= PendingMax
      /\ \A i \in 1 .. Len(pending) : pending[i] = Packet(w[i + 1] % SeqWrap)
  BY DEF Known, Arrivals, CountedParity
<1>2. p = Head(pending) /\ pending' = Tail(pending) /\ host' = host /\ fec' = fec
  BY DEF Dequeue
<1>3. PICK h \in Nat, H \in Nat : h = Len(pending) /\ h > 0 /\ Len(w) = h + 1 /\ H = PendingMax /\ h <= H
  BY <1>1, ReceiveConstants
<1>4. PICK v, y : v = Tail(w) /\ y = w[2]
  OBVIOUS
<1>5. /\ Line(n, v) /\ Len(v) = h /\ v[h] = w[h + 1] /\ v[1] = y /\ (\A i \in 1 .. h : v[i] = w[i + 1])
      /\ y \in Nat /\ w[1] < y /\ IsSound(y) /\ DataBefore(y) - DataBefore(w[1]) <= MaxBurst + 1
  <2>1. Len(w) > 1 /\ Len(w) - 1 = h
    BY <1>3
  <2> QED BY <1>1, <1>3, <1>4, <2>1, LineResumed
<1>6. p = Packet(y % SeqWrap)
  <2>1. Head(pending) = pending[1] /\ 1 \in 1 .. Len(pending) /\ 1 + 1 = 2
    BY <1>1, <1>3
  <2> QED BY <1>1, <1>2, <1>4, <2>1
<1>7. parity <= ParityBefore(y) - ParityBefore(w[1])
  <2>1. Len(w) # 1
    BY <1>3
  <2> QED BY <1>4, <2>1 DEF Known, CountedParity
<1>8. \A i \in 2 .. Len(w) : y <= w[i]
  <2>1. TAKE i \in 2 .. Len(w)
  <2>2. w[i] \in Nat /\ (2 < i => w[2] < w[i])
    <3>1. i \in 1 .. Len(w) /\ 2 \in 1 .. Len(w)
      BY <1>3
    <3>2. w \in Seq(Nat)
      BY <1>1 DEF Line, Positions
    <3> QED BY <1>1, <3>1, <3>2 DEF Line, Positions
  <2> QED BY <1>4, <1>5, <2>2
<1>9. Cache(fec', x, n, v, 0)
  <2>1. Edge(fec, x, n, v)
    <3>1. v[Len(v)] = w[Len(w)]
      BY <1>3, <1>5
    <3> QED BY <1>1, <3>1 DEF Cache, Edge
  <2>2. \A i \in 1 .. Len(fec) : Good(fec[i], x[i], n, v, 0)
    <3>1. TAKE i \in 1 .. Len(fec)
    <3>2. PICK k \in Nat : k = parity
      BY <1>1
    <3>3. fec[i] \in Shards /\ x[i] \in Nat /\ Good(fec[i], x[i], n, w, k)
      BY <1>1, <3>2 DEF Cache, Numbered
    <3>4. n \in Nat /\ w \in Positions /\ Len(w) > 1
      BY <1>1, <1>3 DEF Line
    <3> QED BY <1>4, <3>3, <3>4, GoodResumed
  <2> QED BY <1>1, <1>2, <2>1, <2>2 DEF Cache
<1>10. Kept(fec', x, fec, x, Base(y))
  BY <1>2 DEF Kept
<1>11. host' = [seq |-> n % SeqWrap, lost |-> DataBefore(n) - DataBefore(v[Len(v)]) - 1]
  BY <1>1, <1>2, <1>3, <1>5
<1>12. /\ pending' \in Seq(Packets) /\ Len(v) = Len(pending') + 1 /\ Len(pending') <= PendingMax
       /\ \A i \in 1 .. Len(pending') : pending'[i] = Packet(v[i + 1] % SeqWrap)
  <2>1. pending' \in Seq(Packets) /\ Len(pending') = h - 1 /\ \A i \in 1 .. h - 1 : pending'[i] = pending[i + 1]
    BY <1>1, <1>2, <1>3
  <2>2. h - 1 <= H /\ h = (h - 1) + 1
    BY <1>3
  <2>3. \A i \in 1 .. h - 1 : pending'[i] = Packet(v[i + 1] % SeqWrap)
    <3>1. TAKE i \in 1 .. h - 1
    <3>2. PICK j \in 1 .. h : j = i + 1
      BY <1>3
    <3>3. pending[j] = Packet(w[j + 1] % SeqWrap) /\ v[j] = w[j + 1]
      BY <1>1, <1>3, <1>5, <3>2
    <3> QED BY <2>1, <3>2, <3>3
  <2> QED BY <1>3, <1>5, <2>1, <2>2, <2>3
<1>13. Taken(y, n, v, x, x, w)
  BY <1>5, <1>7, <1>8, <1>9, <1>10, <1>11, <1>12 DEF Taken
<1> QED BY <1>5, <1>6, <1>13

\* ... or comes now.
LEMMA TakenNow ==
  ASSUME NEW n, NEW w, NEW x, Known(n, w, x), pending = <<>>, NEW p, Dequeue(p)
  PROVE  \E y \in Nat : \E m, v, u : p = Packet(y % SeqWrap) /\ Taken(y, m, v, u, x, w)
<1>1. /\ Line(n, w) /\ Cache(fec, x, n, w, parity) /\ parity \in Nat /\ Len(w) = 1
      /\ host = [seq |-> n % SeqWrap, lost |-> DataBefore(n) - DataBefore(w[Len(w)]) - 1]
      /\ parity <= ParityBefore(n) - ParityBefore(w[1])
  BY DEF Known, Arrivals, CountedParity
<1>2. PICK lost \in Losses : Arrives(lost) /\ p = Received(lost)
  BY DEF Dequeue
<1>3. p.data /\ fec' = Cached(p) /\ pending' = pending
  BY DEF Dequeue
<1>4. PICK y \in Nat : /\ n <= y /\ Received(lost) = Packet(y % SeqWrap) /\ DataBefore(y) - DataBefore(w[Len(w)]) <= MaxBurst + 1
                       /\ host' = [seq |-> (y + 1) % SeqWrap,
                                   lost |-> IF IsSound(y) THEN 0 ELSE DataBefore(y + 1) - DataBefore(w[Len(w)]) - 1]
  BY <1>1, <1>2, Arrival
<1>5. IsSound(y)
  <2>1. ~IsSound(y) => p.data = FALSE
    BY <1>2, <1>4, ParityPacket
  <2> QED BY <1>3, <2>1
<1>6. fec' = audio_rtp_fec_cache_data(fec, y % SeqWrap, Time(y))
  <2>1. p.data = TRUE /\ p.seq = y % SeqWrap /\ p.media = Time(y)
    BY <1>2, <1>4, <1>5, SoundPacket
  <2> QED BY <1>3, <2>1 DEF Cached
<1>7a. PICK k \in Nat : k = parity
  BY <1>1
<1>7. PICK v : v = <<y>> /\ k = parity
  BY <1>7a
<1>8. /\ Line(y + 1, v) /\ w[1] < y /\ DataBefore(y + 1) - DataBefore(y) - 1 = 0
      /\ w \in Positions /\ v \in Positions /\ n \in Nat /\ w[1] \in Nat
  <2>1. Line(y + 1, v) /\ (\A i \in 1 .. Len(w) : w[i] < y) /\ DataBefore(y + 1) - DataBefore(y) - 1 = 0
    BY <1>1, <1>4, <1>5, <1>7, LineAside
  <2>2. w[1] \in Nat
    BY <1>1, LastIs
  <2> QED BY <1>1, <2>1, <2>2 DEF Line
<1>9. Len(v) = 1 /\ v[1] = y
  BY <1>7
<1>10. \A i \in 1 .. Len(fec) : Good(fec[i], x[i], y + 1, v, 0)
  <2>1. TAKE i \in 1 .. Len(fec)
  <2>2. fec[i] \in Shards /\ x[i] \in Nat /\ Good(fec[i], x[i], n, w, k)
    BY <1>1, <1>7 DEF Cache, Numbered
  <2> QED BY <1>1, <1>4, <1>7, <1>8, <2>2, GoodNext
<1>11. PICK u \in Seq(Nat) : Cache(fec', u, y + 1, v, 0) /\ Kept(fec', u, fec, x, Base(y))
  <2>1. v[Len(v)] = y
    BY <1>9
  <2>2. PICK k0 : k0 = k /\ Cache(fec, x, n, w, k0)
    BY <1>1, <1>7
  <2>3. Line(n, w) /\ n <= y /\ IsSound(y) /\ DataBefore(y) - DataBefore(w[Len(w)]) <= MaxBurst + 1 /\ v \in Positions
    BY <1>1, <1>4, <1>5, <1>8
  <2>4. \E u \in Seq(Nat) : LET d == audio_rtp_fec_cache_data(fec, y % SeqWrap, Time(y))
                             IN  Cache(d, u, y + 1, v, 0) /\ Kept(d, u, fec, x, Base(y))
    <3>1. PICK zero \in Nat : zero = 0
      OBVIOUS
    <3> QED BY <1>10, <2>1, <2>2, <2>3, <3>1, CacheData
  <2> QED BY <1>6, <2>4
<1>12. k <= ParityBefore(y) - ParityBefore(w[1])
  <2>1. PICK l \in Nat : l = w[1]
    BY <1>8
  <2>2. PICK a \in Nat, b \in Nat, m \in Nat, e \in Nat :
          a = DataBefore(n) /\ b = DataBefore(y) /\ m = n /\ b - a <= y - m /\ m <= y /\ e = DataBefore(l)
    BY <1>4, <1>8, Counting, CountType
  <2>3. k <= (m - a) - (l - e)
    BY <1>1, <1>7, <2>1, <2>2 DEF ParityBefore
  <2>4. k <= (y - b) - (l - e)
    <3>1. b - a <= y - m
      BY <2>2
    <3> QED BY <2>3, <3>1
  <2> QED BY <2>1, <2>2, <2>4 DEF ParityBefore
<1>13. host' = [seq |-> (y + 1) % SeqWrap, lost |-> DataBefore(y + 1) - DataBefore(v[Len(v)]) - 1]
  BY <1>4, <1>5, <1>8, <1>9
<1>14. /\ pending' \in Seq(Packets) /\ Len(v) = Len(pending') + 1 /\ Len(pending') <= PendingMax
       /\ \A i \in 1 .. Len(pending') : pending'[i] = Packet(v[i + 1] % SeqWrap)
  BY <1>3, <1>9, ReceiveConstants
<1>15. \A i \in 2 .. Len(w) : y <= w[i]
  BY <1>1
<1>16. DataBefore(y) - DataBefore(w[1]) <= MaxBurst + 1
  BY <1>1, <1>4
<1>17. Taken(y, y + 1, v, u, x, w)
  BY <1>5, <1>7, <1>8, <1>9, <1>11, <1>12, <1>13, <1>14, <1>15, <1>16 DEF Taken
<1> QED BY <1>2, <1>4, <1>17

\* What is known after the packet of a turn is taken.
LEMMA TakenKnown ==
  ASSUME NEW y \in Nat, NEW m, NEW v, NEW u, NEW x, NEW w, Taken(y, m, v, u, x, w),
         parity' = 0, last' = [have |-> TRUE, seq |-> y % SeqWrap, ts |-> Time(y)]
  PROVE  Known(m, v, u)'
<1>1. /\ Line(m, v) /\ v[1] = y /\ Cache(fec', u, m, v, 0)
      /\ host' = [seq |-> m % SeqWrap, lost |-> DataBefore(m) - DataBefore(v[Len(v)]) - 1]
      /\ pending' \in Seq(Packets) /\ Len(v) = Len(pending') + 1 /\ Len(pending') <= PendingMax
      /\ \A i \in 1 .. Len(pending') : pending'[i] = Packet(v[i + 1] % SeqWrap)
  BY DEF Taken
<1>2. Arrivals(m, v)'
  BY <1>1 DEF Arrivals
<1>3. CountedParity(m, v)'
  <2>1. PICK q : q = IF Len(v) = 1 THEN m ELSE v[2]
    OBVIOUS
  <2>2. q \in Nat /\ y <= q
    <3>1. CASE Len(v) = 1
      <4>1. q = m /\ v[1] = y
        BY <1>1, <2>1, <3>1
      <4>2. m \in Nat /\ v[1] < m
        BY <1>1, LastIs
      <4> QED BY <4>1, <4>2
    <3>2. CASE Len(v) # 1
      <4>1. Len(v) \in Nat /\ Len(v) > 0
        BY <1>1, LastIs
      <4>2. v \in Seq(Nat) /\ 1 \in 1 .. Len(v) /\ 2 \in 1 .. Len(v)
        BY <1>1, <3>2, <4>1 DEF Line, Positions
      <4>3. v[1] < v[2] /\ v[2] \in Nat
        BY <1>1, <4>2 DEF Line, Positions
      <4> QED BY <1>1, <2>1, <3>2, <4>3
    <3> QED BY <3>1, <3>2
  <2>3. PICK qq \in Nat, a \in Nat, b \in Nat : qq = q /\ a = DataBefore(y) /\ b = DataBefore(qq) /\ y <= qq /\ b - a <= qq - y
    BY <2>2, Counting
  <2>4. 0 <= ParityBefore(qq) - ParityBefore(y)
    <3>1. b - a <= qq - y
      BY <2>3
    <3>2. 0 <= (qq - b) - (y - a)
      BY <3>1
    <3> QED BY <2>3, <3>2 DEF ParityBefore
  <2> QED BY <1>1, <2>1, <2>3, <2>4 DEF CountedParity
<1> QED BY <1>1, <1>2, <1>3 DEF Known

\* A turn begins: what is owed is the gap the timestamps tell, and the first lost packet is known.
LEMMA ReceiveDataKeeps ==
  ASSUME OrderInvariant, ReceiveData
  PROVE  OrderInvariant'
<1>1. pc = "loop" /\ then' = then /\ fec_pending' = fec_pending /\ ahead' = ahead
  BY DEF ReceiveData, Polling
<1>2. PICK p : /\ Dequeue(p) /\ cur' = p
               /\ clock' = ClockAfter(p)
               /\ gap' = AudioGap(p)
               /\ missing' = IF gap' > 0 THEN (p.seq - MediaGap(p)) % SeqWrap ELSE 0
               /\ pc' = IF gap' = 0 THEN "decode" ELSE IF gap' <= Parity THEN "drain" ELSE "recover"
               /\ last' = [have |-> TRUE, seq |-> p.seq, ts |-> p.media] /\ parity' = 0
               /\ due' = IF ~last.have THEN p.media
                         ELSE IF ~clock'.scale /\ Step(p) # 1 THEN Lost ELSE due
  BY DEF ReceiveData
<1>3. then' # "ended" /\ pc' # "ended"
  BY <1>1, <1>2 DEF OrderInvariant
<1>4. SUFFICES ASSUME Fresh' PROVE \E n, w, x, z : (Known(n, w, x) /\ Turn(w) /\ Mark(w, x, z))'
  BY <1>3 DEF OrderInvariant
<1>5. ~ahead /\ due' # Lost /\ last'.have
  BY <1>1, <1>2, <1>4 DEF Fresh
<1>6. Fresh
  BY <1>2, <1>5 DEF Fresh
<1>7. PICK n, w, x, z0 : Known(n, w, x) /\ Turn(w) /\ Mark(w, x, z0)
  BY <1>1, <1>6 DEF OrderInvariant
<1>7a. PICK y \in Nat : \E m, v, u : p = Packet(y % SeqWrap) /\ Taken(y, m, v, u, x, w)
  BY <1>2, <1>7, TakenAside, TakenNow
<1>8. PICK m, v, u : p = Packet(y % SeqWrap) /\ Taken(y, m, v, u, x, w)
  BY <1>7a
<1>9. p.seq = y % SeqWrap /\ p.media = Time(y) /\ Time(y) \in Media /\ IsSound(y)
  BY <1>8, SoundPacket DEF Taken
<1>10. Known(m, v, u)'
  BY <1>2, <1>8, <1>9, TakenKnown
<1>11. /\ IsSound(y) /\ w[1] < y /\ DataBefore(y) - DataBefore(w[1]) <= MaxBurst + 1
       /\ parity <= ParityBefore(y) - ParityBefore(w[1]) /\ (\A i \in 2 .. Len(w) : y <= w[i])
       /\ v[1] = y /\ Kept(fec', u, fec, x, Base(y))
  BY <1>8 DEF Taken
<1>12. Line(n, w) /\ Cache(fec, x, n, w, parity) /\ parity \in Nat /\ fec_pending' = FALSE
       /\ w[1] \in Nat /\ IsSound(w[1])
  BY <1>1, <1>7, LastIs DEF Known, Arrivals, CountedParity, Turn
<1>13. cur' = Packet(v[1] % SeqWrap)
  BY <1>2, <1>8, <1>11
<1>14. CASE ~last.have
  <2>1. gap' = 0 /\ pc' = "decode" /\ due' = Time(y)
    BY <1>2, <1>9, <1>14 DEF AudioGap
  <2>2. Owes(0, v)'
    BY <1>9, <1>11, <2>1, Counted DEF Owes
  <2>3. Turn(v)'
    BY <1>5, <1>9, <1>12, <1>13, <2>1, <2>2 DEF Turn
  <2>4. Mark(v, u, 0)'
    BY <2>1 DEF Mark, Repairing
  <2> QED BY <1>10, <2>3, <2>4
<1>15. CASE last.have
  <2>1. /\ due' = due /\ due \in Media /\ (~clock'.scale => Step(p) = 1) /\ due = (Time(w[1]) + 1) % MediaMod
        /\ last.seq = w[1] % SeqWrap /\ last.ts = Time(w[1])
    BY <1>1, <1>2, <1>5, <1>7, <1>15 DEF Turn, Known, Arrivals
  <2>2. PICK l \in Nat, k \in Nat : l = w[1] /\ k = parity
    BY <1>12
  <2>3. PICK D \in Nat, z \in Nat, g \in Nat :
            /\ D > 0 /\ z = l + 1 + k /\ z <= y /\ g = y - z /\ D - 1 <= g /\ g < Reach /\ z + (D - 1) <= y
            /\ (Time(y) - Time(l)) % MediaMod = D
            /\ ((y % SeqWrap) - (l % SeqWrap) - 1) % SeqWrap = g + k
            /\ ((y % SeqWrap) - g) % SeqWrap = z % SeqWrap
            /\ (((Time(l) + 1) % MediaMod) + (D - 1)) % MediaMod = Time(y)
            /\ (D = 1 => (Time(l) + 1) % MediaMod = Time(y))
    <3>1. IsSound(l) /\ l < y /\ DataBefore(y) - DataBefore(l) <= MaxBurst + 1 /\ k <= ParityBefore(y) - ParityBefore(l)
      BY <1>11, <1>12, <2>2
    <3> QED BY <1>11, <3>1, GapIs
  <2>4. Step(p) = D
    BY <1>9, <2>1, <2>2, <2>3 DEF Step
  <2>5. MediaGap(p) = g
    <3>1. (p.seq - last.seq - 1) % SeqWrap = g + k
      BY <1>9, <2>1, <2>2, <2>3
    <3>2. MediaGap(p) = IF g + k > k THEN g + k - k ELSE 0
      BY <2>2, <3>1 DEF MediaGap
    <3> QED BY <3>2
  <2>6. CASE D = 1
    <3>1. gap' = 0 /\ pc' = "decode"
      BY <1>2, <2>4, <2>6 DEF AudioGap
    <3>2. due' = Time(y)
      BY <2>1, <2>2, <2>3, <2>6
    <3>3. Owes(0, v)'
      BY <1>9, <1>11, <3>2, Counted DEF Owes
    <3>4. Turn(v)'
      BY <1>5, <1>9, <1>12, <1>13, <3>1, <3>2, <3>3 DEF Turn
    <3>5. Mark(v, u, 0)'
      BY <3>1 DEF Mark, Repairing
    <3> QED BY <1>10, <3>4, <3>5
  <2>7. CASE D # 1
    <3>1. PICK e \in Nat : e = D - 1 /\ e > 0 /\ e <= g /\ D > 1
      <4>1. D > 0 /\ D - 1 <= g
        BY <2>3
      <4> QED BY <2>7, <4>1
    <3>2. gap' = e
      <4>1. AudioGap(p) = IF e < g THEN e ELSE g
        <5>1. last.have /\ clock'.scale /\ ~(Step(p) <= 1)
          BY <1>15, <2>1, <2>4, <2>7, <3>1
        <5> QED BY <2>4, <2>5, <3>1, <5>1 DEF AudioGap
      <4> QED BY <1>2, <3>1, <4>1
    <3>3. missing' = z % SeqWrap
      <4>1. gap' > 0
        BY <3>1, <3>2
      <4> QED BY <1>2, <1>9, <2>3, <2>5, <4>1
    <3>4. pc' \in {"drain", "recover"}
      BY <1>2, <3>1, <3>2
    <3>5. Owes(gap, v)'
      BY <1>11, <2>1, <2>2, <2>3, <3>1, <3>2 DEF Owes
    <3>6. Turn(v)'
      BY <1>5, <1>12, <1>13, <2>1, <3>2, <3>4, <3>5 DEF Turn
    <3>7. IsSound(z) => Time(z) = due \/ Unfit(z, fec', u, y)
      <4>1. SUFFICES ASSUME IsSound(z) PROVE Time(z) = due \/ Unfit(z, fec', u, y)
        OBVIOUS
      <4>2. Cache(fec, x, n, w, k) /\ k <= ParityBefore(y) - ParityBefore(w[1]) /\ z = w[1] + 1 + k /\ z <= y
        BY <1>11, <1>12, <2>2, <2>3
      <4>3. Time(z) = (Time(w[1]) + 1) % MediaMod \/ Unfit(z, fec, x, y)
        BY <1>11, <1>12, <4>1, <4>2, FirstLost
      <4>4. Base(z) + Span <= y => Base(y) # Base(z)
        <5>1. y <= y
          OBVIOUS
        <5> QED BY <5>1, Elsewhere
      <4>5. Unfit(z, fec, x, y) => Unfit(z, fec', u, y)
        BY <1>11, <4>4, UnfitKept
      <4> QED BY <2>1, <4>3, <4>5
    <3>8. Mark(v, u, z)'
      <4>1. v[1] - z < Reach /\ z + gap' <= v[1]
        BY <1>11, <2>3, <3>1, <3>2
      <4>2. Owed' = due
        BY <2>1, <3>4 DEF Owed
      <4> QED BY <1>11, <3>3, <3>7, <4>1, <4>2 DEF Mark
    <3> QED BY <1>10, <3>6, <3>8
  <2> QED BY <2>6, <2>7
<1> QED BY <1>14, <1>15

\* Nothing happens.
LEMMA StutterKeeps ==
  ASSUME OrderInvariant, UNCHANGED receiveVars
  PROVE  OrderInvariant'
<1>1. UNCHANGED <<host, pc, turn, seen, store, fec_pending, due, ahead>>
  BY DEF receiveVars
<1>2. UNCHANGED <<cur, chunk, then, gap, missing, last, parity, fec, pending>>
  BY <1>1 DEF turn, seen, store
<1>3. CASE pc = "ended"
  BY <1>1, <1>2, <1>3 DEF OrderInvariant, Idle
<1>4. CASE pc # "ended"
  <2>1. ASSUME NEW w, NEW x, NEW z, Turn(w), Mark(w, x, z) PROVE (Turn(w) /\ Mark(w, x, z))'
    <3>1. Turn(w)'
      BY <1>1, <1>2, <2>1 DEF Turn, Owes
    <3>2. Mark(w, x, z)'
      BY <1>1, <1>2, <2>1 DEF Mark, Repairing, Owed
    <3> QED BY <3>1, <3>2
  <2>2. pc' # "ended" /\ then' # "ended"
    BY <1>1, <1>2, <1>4 DEF OrderInvariant
  <2> QED BY <1>1, <1>4, <2>1, <2>2, QuietStep
<1> QED BY <1>3, <1>4

\* Every step keeps the invariant.
LEMMA OrderInvariantKeeps ==
  ASSUME OrderInvariant, [ReceiveNext]_receiveVars
  PROVE  OrderInvariant'
BY StagedKeeps, StageGivesUpKeeps, TimePlcKeeps, ReceiveParityKeeps, ReceiveDataKeeps,
   DrainKeeps, DrainEndsKeeps, RecoverKeeps, RecoverEndsKeeps, ConcealKeeps,
   DecodeSkipsKeeps, DecodeFailsKeeps, DecodeFecKeeps, DecodeChunkKeeps,
   BeginShutdownKeeps, ReceiveEndsKeeps, AudioInitKeeps, StutterKeeps DEF ReceiveNext

\* A frame that is decoded or repaired is appended where it belongs, after one chunk for every
\* frame before it, lost ones included, unless the drain counted parity sent after a packet it
\* put aside: audio_thread.c finds the first lost packet and its place from sequence numbers
\* and timestamps alone, for every block size, wrap, burst and queue.
THEOREM SoundInOrder == ReceiveSpec => []InMediaOrder
<1>1. ReceiveInit => OrderInvariant
  <2>1. ReceiveInit => Idle /\ fec = <<>> /\ pending = <<>> /\ pc = "loop" /\ then # "ended"
    BY DEF ReceiveInit, TurnIdle, Idle
  <2> QED BY <2>1, Beginning
<1>2. OrderInvariant /\ [ReceiveNext]_receiveVars => OrderInvariant'
  BY OrderInvariantKeeps
<1>3. OrderInvariant => InMediaOrder
  BY OrderHolds
<1> QED BY <1>1, <1>2, <1>3, PTL DEF ReceiveSpec
==============================================================================
