----------------------- MODULE ControlStream_proofs -----------------------
(***************************************************************************)
(* Inputs of the control stream are never lost, for rings of any size.     *)
(* The channel an overwritten or dropped entry closes is the channel the   *)
(* entry has, so the invariant says which channels each ring retains: the  *)
(* control ring, which overwrites and drops, never an input (RingsApart).  *)
(***************************************************************************)
EXTENDS ControlStream, TLAPS

\* The control ring only retains messages of the generic and the urgent channel, and the input
\* ring only those of the input channel: what either gives up is known by the ring.
RingsApart ==
    /\ \A s \in 1..Slots : ring[s] # Free => ring[s].ch \in {"generic", "urgent"}
    /\ \A s \in 1..InputSlots : inring[s] # Free => inring[s].ch = "input"

\* No number of the input channel is ever given up.
InputOpen == {"input"} \cap Watched \subseteq open

IInv == TypeOK /\ RingsApart /\ InputOpen

\* The control ring, its head and the channels it may close.
RingOK ==
    /\ ring \in [1..Slots -> Entries(MaxTries) \cup {Free}] /\ head \in 1..Slots
    /\ \A s \in 1..Slots : ring[s] # Free => ring[s].ch \in {"generic", "urgent"}
    /\ open \subseteq Watched /\ {"input"} \cap Watched \subseteq open

InringOK ==
    /\ inring \in [1..InputSlots -> Entries(InputTries) \cup {Free}]
    /\ \A s \in 1..InputSlots : inring[s] # Free => inring[s].ch = "input"

IdrOK == count \in 0..2 /\ backoff \in 1..MaxBackoff /\ age \in 0..MaxBackoff /\ prev \in BOOLEAN

FlagsOK == {me_running, disconnect, decoded, started} \subseteq BOOLEAN

PlaceOK ==
    /\ phase \in Phases /\ res \subseteq Resources /\ attempts \in 0..Attempts
    /\ hello \in {"no", "assist", "seen"} /\ drain \in 0..DrainTicks

\* The invariant in the parts the actions change.
LEMMA Parts == IInv <=> RingOK /\ InringOK /\ IdrOK /\ FlagsOK /\ PlaceOK
  BY DEF IInv, TypeOK, RingsApart, InputOpen, RingOK, InringOK, IdrOK, FlagsOK, PlaceOK

\* What the proofs use of the bounds.
LEMMA Bounds ==
  /\ Slots \in Nat \ {0} /\ InputSlots \in Nat \ {0} /\ Attempts \in Nat \ {0}
  /\ DrainTicks \in Nat \ {0} /\ MaxBackoff \in Nat \ {0} /\ MaxTries \in Nat /\ InputTries \in Nat
  BY ControlAssumption

\* A message just sent is an entry of either ring.
LEMMA MessageType ==
  ASSUME NEW c \in Channels, NEW g \in BOOLEAN, NEW max \in Nat
  PROVE  Message(c, g) \in Entries(max) /\ Message(c, g) # Free /\ Message(c, g).ch = c
<1>1. 0 \in 0 .. max
  OBVIOUS
<1>2. Message(c, g) \in Entries(max) /\ Message(c, g).ch = c
  BY <1>1 DEF Message, Entries
<1>3. Free.ch = "none" /\ c # "none"
  BY DEF Free, Channels
<1> QED BY <1>2, <1>3

\* A reliable message on the generic or the urgent channel, sent or refused, leaves the input
\* channel alone: what it overwrites in the control ring is never an input.
LEMMA SendKeeps ==
  ASSUME RingOK, NEW c \in {"generic", "urgent"}, SendReliable(c)
  PROVE  RingOK'
<1>1. ASSUME NEW g \in BOOLEAN, retx_store(c, g)
      PROVE  RingOK'
  <2>1. /\ ring' = [ring EXCEPT ![head] = Message(c, g)]
        /\ head' = (head % Slots) + 1
        /\ open' = open \ LostWith(ring[head])
    BY <1>1 DEF retx_store
  <2>2. Message(c, g) \in Entries(MaxTries) /\ Message(c, g).ch = c
    BY MessageType, Bounds DEF Channels
  <2> DEFINE msg == Message(c, g)
             es == Entries(MaxTries) \cup {Free}
  <2>3. msg \in es /\ msg.ch \in {"generic", "urgent"} /\ ring' = [ring EXCEPT ![head] = msg]
    BY <2>1, <2>2
  <2>4. ring \in [1 .. Slots -> es] /\ head \in 1 .. Slots
    BY DEF RingOK
  <2> HIDE DEF msg, es
  <2>5. ring' \in [1 .. Slots -> es]
    BY <2>3, <2>4
  <2>6. \A s \in 1 .. Slots : ring'[s] # Free => ring'[s].ch \in {"generic", "urgent"}
    BY <2>3, <2>4 DEF RingOK
  <2>7. head' \in 1 .. Slots
    BY <2>1, <2>4, Bounds
  <2>8. LostWith(ring[head]) \subseteq {"generic", "urgent"}
    BY <2>4 DEF RingOK, LostWith
  <2> QED BY <2>1, <2>5, <2>6, <2>7, <2>8 DEF RingOK, es
<1>2. CASE open' = open \ {c} /\ UNCHANGED <<ring, head>>
  BY <1>2 DEF RingOK
<1> QED BY <1>1, <1>2 DEF SendReliable

\* A request for an IDR picture keeps its pauses within the longest one.
LEMMA RequestKeeps ==
  ASSUME RingOK, IdrOK, NEW c \in 0 .. 2, NEW b \in 1 .. MaxBackoff, NEW d \in BOOLEAN, RequestIdr(c, b, d)
  PROVE  RingOK' /\ IdrOK'
<1> DEFINE startup == ~d /\ ~started
           relaxed == IF d /\ ~prev /\ b > 1 THEN b \div 2 ELSE b
           wait == IF startup THEN 1 ELSE relaxed
<1>1. relaxed \in 1 .. MaxBackoff
  BY Bounds
<1>2. wait \in 1 .. MaxBackoff
  BY <1>1, Bounds
<1>3. /\ prev' = d
      /\ \/ /\ c >= 1 /\ age < wait
            /\ count' = c /\ backoff' = wait
            /\ UNCHANGED <<age, ringVars>>
         \/ /\ c = 0 \/ age >= wait
            /\ count' = IF c = 0 THEN 1 ELSE 2
            /\ backoff' = IF startup \/ c = 0 THEN wait
                          ELSE IF 2 * wait > MaxBackoff THEN MaxBackoff ELSE 2 * wait
            /\ age' = 0
            /\ SendReliable("urgent")
  BY DEF RequestIdr
<1> HIDE DEF wait, relaxed, startup
<1>4. RingOK'
  BY <1>3, SendKeeps DEF ringVars, RingOK
<1>5. count' \in 0 .. 2 /\ age' \in 0 .. MaxBackoff
  BY <1>3, Bounds DEF IdrOK
<1>6. backoff' \in 1 .. MaxBackoff
  BY <1>2, <1>3, Bounds
<1> QED BY <1>3, <1>4, <1>5, <1>6 DEF IdrOK

\* So do the callers of control_stream_request_idr.
LEMMA RequestsKeep ==
  ASSUME RingOK, IdrOK, decoded \in BOOLEAN, request_idr \/ request_idr_force \/ request_idr_recovery_fast
  PROVE  RingOK' /\ IdrOK'
<1>1. MaxBackoff \in 1 .. MaxBackoff /\ 1 \in 1 .. MaxBackoff /\ 0 \in 0 .. 2 /\ count \in 0 .. 2 /\ backoff \in 1 .. MaxBackoff
  BY Bounds DEF IdrOK
<1>2. Coalesced \/ RequestIdr(count, backoff, decoded) \/ RequestIdr(count, MaxBackoff, decoded) \/ RequestIdr(0, 1, decoded)
  BY DEF request_idr, request_idr_force, request_idr_recovery_fast
<1>3. CASE Coalesced
  BY <1>3 DEF Coalesced, ringVars, idrVars, RingOK, IdrOK
<1> QED BY <1>1, <1>2, <1>3, RequestKeeps

\* What a start and an end clear is in order.
LEMMA ClearedIsOK ==
  ASSUME SessionCleared
  PROVE  RingOK' /\ InringOK' /\ hello' = "no" /\ disconnect' = FALSE /\ decoded' = FALSE /\ started' = FALSE
  BY Bounds DEF SessionCleared, RingOK, InringOK

\* A retry of messages that were not tried often enough changes neither the channel of an entry nor
\* which slots are free.
RetriedWell(n, max, r, due, arrived) ==
  (\A s \in due : r[s] # Free /\ r[s].tries < max) =>
     /\ Retried(r, due, arrived) \in [1 .. n -> Entries(max) \cup {Free}]
     /\ \A s \in 1 .. n : Retried(r, due, arrived)[s] # Free =>
           r[s] # Free /\ Retried(r, due, arrived)[s].ch = r[s].ch

LEMMA RetriedType ==
  ASSUME NEW n \in Nat, NEW max \in Nat, NEW r \in [1 .. n -> Entries(max) \cup {Free}],
         NEW due \in SUBSET (1 .. n), NEW arrived
  PROVE  RetriedWell(n, max, r, due, arrived)
<1> SUFFICES ASSUME \A s \in due : r[s] # Free /\ r[s].tries < max
             PROVE  /\ Retried(r, due, arrived) \in [1 .. n -> Entries(max) \cup {Free}]
                    /\ \A s \in 1 .. n : Retried(r, due, arrived)[s] # Free =>
                          r[s] # Free /\ Retried(r, due, arrived)[s].ch = r[s].ch
  BY DEF RetriedWell
<1> DEFINE S == 1 .. n
<1> DEFINE new(s) == [r[s] EXCEPT !.tries = @ + 1, !.got = @ \/ s \in arrived]
<1>1. ASSUME NEW s \in due
      PROVE  new(s) \in Entries(max) /\ new(s).ch = r[s].ch
  <2>1. r[s] \in Entries(max) /\ r[s].tries < max
    BY <1>1
  <2>2. r[s].tries \in 0 .. max /\ r[s].got \in BOOLEAN /\ r[s].ch \in Channels
    BY <2>1 DEF Entries
  <2>3. r[s].tries + 1 \in 0 .. max
    BY <2>1, <2>2
  <2>4. (r[s].got \/ s \in arrived) \in BOOLEAN
    BY <2>2
  <2>5. \A x \in Entries(max), k \in 0 .. max, g \in BOOLEAN :
          [x EXCEPT !.tries = k, !.got = g] \in Entries(max) /\ [x EXCEPT !.tries = k, !.got = g].ch = x.ch
    BY DEF Entries
  <2> QED BY <2>1, <2>3, <2>4, <2>5
<1> HIDE DEF new
<1>2. Retried(r, due, arrived) = [s \in S |-> IF s \in due THEN new(s) ELSE r[s]]
  BY DEF Retried, new
<1> QED BY <1>1, <1>2

-----------------------------------------------------------------------------
\* The start of the program satisfies the invariant.
LEMMA InitInv == Init => IInv
<1> SUFFICES ASSUME Init PROVE IInv
  OBVIOUS
<1>1. RingOK /\ InringOK
  BY Bounds DEF Init, RingOK, InringOK
<1>2. IdrOK
  <2>1. prev \in BOOLEAN
    BY DEF Init
  <2>2. count \in 0 .. 2 /\ backoff \in 1 .. MaxBackoff /\ age \in 0 .. MaxBackoff
    BY Bounds DEF Init
  <2> QED BY <2>1, <2>2 DEF IdrOK
<1>3. FlagsOK
  BY DEF Init, FlagsOK
<1>4. PlaceOK
  BY Bounds DEF Init, PlaceOK, Phases
<1> QED BY <1>1, <1>2, <1>3, <1>4, Parts

\* Every step keeps the invariant.
LEMMA Step == IInv /\ [Next]_vars => IInv'
<1> SUFFICES ASSUME RingOK, InringOK, IdrOK, FlagsOK, PlaceOK, [Next]_vars
             PROVE  RingOK' /\ InringOK' /\ IdrOK' /\ FlagsOK' /\ PlaceOK'
  <2>1. RingOK' /\ InringOK' /\ IdrOK' /\ FlagsOK' /\ PlaceOK' => IInv'
    BY DEF IInv, TypeOK, RingsApart, InputOpen, RingOK, InringOK, IdrOK, FlagsOK, PlaceOK
  <2> QED BY <2>1, Parts
<1>0. me_running \in BOOLEAN /\ disconnect \in BOOLEAN /\ decoded \in BOOLEAN /\ started \in BOOLEAN
  BY DEF FlagsOK
<1>1. CASE Start
  <2>1. RingOK'
    BY <1>1, ClearedIsOK DEF Start
  <2>2. InringOK'
    BY <1>1, ClearedIsOK DEF Start
  <2>3. IdrOK'
    BY <1>1, Bounds DEF Start, idrVars, IdrOK
  <2>4. FlagsOK'
    BY <1>1, ClearedIsOK DEF Start, FlagsOK
  <2>5. PlaceOK'
    <3>1. hello' \in {"no", "assist", "seen"} /\ drain' = drain
      BY <1>1, ClearedIsOK DEF Start, PlaceOK
    <3>2. phase' \in Phases /\ res' \subseteq Resources
      BY <1>1 DEF Start, PlaceOK, Phases, Resources
    <3>3. attempts' \in 0 .. Attempts
      BY <1>1, Bounds DEF Start, PlaceOK
    <3> QED BY <3>1, <3>2, <3>3 DEF PlaceOK
  <2> QED BY <2>1, <2>2, <2>3, <2>4, <2>5
<1>2. CASE Verify
  <2>1. RingOK'
    BY <1>2, ClearedIsOK DEF Verify, StartFails, sessionVars, ringVars, picVars, RingOK
  <2>2. InringOK'
    BY <1>2, ClearedIsOK DEF Verify, StartFails, sessionVars, ringVars, picVars, InringOK
  <2>3. IdrOK'
    BY <1>2, Bounds DEF Verify, StartFails, ringVars, idrVars, picVars, sessionVars, IdrOK
  <2>4. FlagsOK'
    BY <1>0, <1>2, ClearedIsOK DEF Verify, StartFails, sessionVars, ringVars, picVars, FlagsOK
  <2>5. PlaceOK'
    <3>1. hello' \in {"no", "assist", "seen"} /\ drain' = drain
      BY <1>2, ClearedIsOK DEF Verify, StartFails, sessionVars, ringVars, picVars, PlaceOK
    <3>2. phase' \in Phases /\ res' \subseteq Resources
      BY <1>2 DEF Verify, StartFails, sessionVars, ringVars, picVars, PlaceOK, Phases, Resources
    <3>3. attempts' \in 0 .. Attempts
      BY <1>2, Bounds DEF Verify, StartFails, sessionVars, ringVars, picVars, PlaceOK
    <3> QED BY <3>1, <3>2, <3>3 DEF PlaceOK
  <2> QED BY <2>1, <2>2, <2>3, <2>4, <2>5
<1>3. CASE SendStart
  <2>1. RingOK'
    BY <1>3, ClearedIsOK, SendKeeps DEF SendStart, StartFails
  <2>2. InringOK'
    BY <1>3, ClearedIsOK DEF SendStart, StartFails, picVars, InringOK
  <2>3. IdrOK'
    BY <1>3, Bounds DEF SendStart, StartFails, idrVars, picVars, IdrOK
  <2>4. FlagsOK'
    BY <1>0, <1>3, ClearedIsOK DEF SendStart, StartFails, picVars, FlagsOK
  <2>5. PlaceOK'
    <3>1. hello' \in {"no", "assist", "seen"} /\ drain' = drain
      BY <1>3, ClearedIsOK DEF SendStart, StartFails, picVars, PlaceOK
    <3>2. phase' \in Phases /\ res' \subseteq Resources
      BY <1>3 DEF SendStart, StartFails, picVars, PlaceOK, Phases, Resources
    <3>3. attempts' \in 0 .. Attempts
      BY <1>3, Bounds DEF SendStart, StartFails, picVars, PlaceOK
    <3> QED BY <3>1, <3>2, <3>3 DEF PlaceOK
  <2> QED BY <2>1, <2>2, <2>3, <2>4, <2>5
<1>4. CASE StartRecv
  <2>1. RingOK'
    BY <1>4, ClearedIsOK DEF StartRecv, StartFails, sessionVars, ringVars, picVars, RingOK
  <2>2. InringOK'
    BY <1>4, ClearedIsOK DEF StartRecv, StartFails, sessionVars, ringVars, picVars, InringOK
  <2>3. IdrOK'
    BY <1>4, Bounds DEF StartRecv, StartFails, ringVars, idrVars, picVars, sessionVars, IdrOK
  <2>4. FlagsOK'
    BY <1>0, <1>4, ClearedIsOK DEF StartRecv, StartFails, sessionVars, ringVars, picVars, FlagsOK
  <2>5. PlaceOK'
    <3>1. hello' \in {"no", "assist", "seen"} /\ drain' = drain
      BY <1>4, ClearedIsOK DEF StartRecv, StartFails, sessionVars, ringVars, picVars, PlaceOK
    <3>2. phase' \in Phases /\ res' \subseteq Resources
      BY <1>4 DEF StartRecv, StartFails, sessionVars, ringVars, picVars, PlaceOK, Phases, Resources
    <3>3. attempts' \in 0 .. Attempts
      BY <1>4, Bounds DEF StartRecv, StartFails, sessionVars, ringVars, picVars, PlaceOK
    <3> QED BY <3>1, <3>2, <3>3 DEF PlaceOK
  <2> QED BY <2>1, <2>2, <2>3, <2>4, <2>5
<1>5. CASE StartPing
  <2>1. RingOK'
    BY <1>5, ClearedIsOK DEF StartPing, sessionVars, ringVars, picVars, RingOK
  <2>2. InringOK'
    BY <1>5, ClearedIsOK DEF StartPing, sessionVars, ringVars, picVars, InringOK
  <2>3. IdrOK'
    BY <1>5, Bounds DEF StartPing, ringVars, idrVars, picVars, sessionVars, IdrOK
  <2>4. FlagsOK'
    BY <1>0, <1>5, ClearedIsOK DEF StartPing, sessionVars, ringVars, picVars, FlagsOK
  <2>5. PlaceOK'
    <3>1. hello' \in {"no", "assist", "seen"} /\ drain' = drain
      BY <1>5, ClearedIsOK DEF StartPing, sessionVars, ringVars, picVars, PlaceOK
    <3>2. phase' \in Phases /\ res' \subseteq Resources
      BY <1>5 DEF StartPing, sessionVars, ringVars, picVars, PlaceOK, Phases, Resources
    <3>3. attempts' \in 0 .. Attempts
      BY <1>5, Bounds DEF StartPing, sessionVars, ringVars, picVars, PlaceOK
    <3> QED BY <3>1, <3>2, <3>3 DEF PlaceOK
  <2> QED BY <2>1, <2>2, <2>3, <2>4, <2>5
<1>6. CASE Abort
  <2>1. RingOK'
    BY <1>6, ClearedIsOK DEF Abort, RingOK
  <2>2. InringOK'
    BY <1>6, ClearedIsOK DEF Abort, InringOK
  <2>3. IdrOK'
    BY <1>6, Bounds DEF Abort, idrVars, IdrOK
  <2>4. FlagsOK'
    BY <1>0, <1>6, ClearedIsOK DEF Abort, FlagsOK
  <2>5. PlaceOK'
    <3>1. hello' \in {"no", "assist", "seen"} /\ drain' = drain
      BY <1>6, ClearedIsOK DEF Abort, PlaceOK
    <3>2. phase' \in Phases /\ res' \subseteq Resources
      BY <1>6 DEF Abort, PlaceOK, Phases, Resources
    <3>3. attempts' \in 0 .. Attempts
      BY <1>6, Bounds DEF Abort, PlaceOK
    <3> QED BY <3>1, <3>2, <3>3 DEF PlaceOK
  <2> QED BY <2>1, <2>2, <2>3, <2>4, <2>5
<1>7. CASE Stop
  <2>1. RingOK'
    BY <1>7, ClearedIsOK DEF Stop, RingOK
  <2>2. InringOK'
    BY <1>7, ClearedIsOK DEF Stop, InringOK
  <2>3. IdrOK'
    BY <1>7, Bounds DEF Stop, idrVars, IdrOK
  <2>4. FlagsOK'
    BY <1>0, <1>7, ClearedIsOK DEF Stop, FlagsOK
  <2>5. PlaceOK'
    <3>1. hello' \in {"no", "assist", "seen"} /\ drain' = drain
      BY <1>7, ClearedIsOK DEF Stop, PlaceOK
    <3>2. phase' \in Phases /\ res' \subseteq Resources
      BY <1>7 DEF Stop, PlaceOK, Phases, Resources
    <3>3. attempts' \in 0 .. Attempts
      BY <1>7, Bounds DEF Stop, PlaceOK
    <3> QED BY <3>1, <3>2, <3>3 DEF PlaceOK
  <2> QED BY <2>1, <2>2, <2>3, <2>4, <2>5
<1>8. CASE StopJoined
  <2>1. RingOK'
    BY <1>8 DEF StopJoined, ringVars, idrVars, picVars, discVars, RingOK
  <2>2. InringOK'
    BY <1>8 DEF StopJoined, ringVars, idrVars, picVars, discVars, InringOK
  <2>3. IdrOK'
    BY <1>8, Bounds DEF StopJoined, ringVars, idrVars, picVars, discVars, IdrOK
  <2>4. FlagsOK'
    BY <1>0, <1>8 DEF StopJoined, ringVars, idrVars, picVars, discVars, FlagsOK
  <2>5. PlaceOK'
    BY <1>8, Bounds DEF StopJoined, ringVars, idrVars, picVars, discVars, PlaceOK, Phases, Resources
  <2> QED BY <2>1, <2>2, <2>3, <2>4, <2>5
<1>9. ASSUME NEW t \in {"recv", "ping"}, ThreadLeaves(t)
      PROVE  RingOK' /\ InringOK' /\ IdrOK' /\ FlagsOK' /\ PlaceOK'
  <2>1. RingOK'
    BY <1>9 DEF ThreadLeaves, ringVars, idrVars, picVars, discVars, RingOK
  <2>2. InringOK'
    BY <1>9 DEF ThreadLeaves, ringVars, idrVars, picVars, discVars, InringOK
  <2>3. IdrOK'
    BY <1>9, Bounds DEF ThreadLeaves, ringVars, idrVars, picVars, discVars, IdrOK
  <2>4. FlagsOK'
    BY <1>0, <1>9 DEF ThreadLeaves, ringVars, idrVars, picVars, discVars, FlagsOK
  <2>5. PlaceOK'
    BY <1>9, Bounds DEF ThreadLeaves, ringVars, idrVars, picVars, discVars, PlaceOK, Phases, Resources
  <2> QED BY <2>1, <2>2, <2>3, <2>4, <2>5
<1>10. CASE SendInput
  <2>1. RingOK'
    BY <1>10 DEF SendInput, input_delivery_failed, connVars, ringVars, idrVars, picVars, discVars, RingOK
  <2>2. InringOK'
    <3>1. CASE me_running' = FALSE /\ UNCHANGED inring
      BY <3>1 DEF InringOK
    <3>2. ASSUME NEW s \in 1 .. InputSlots, NEW g \in BOOLEAN, inring' = [inring EXCEPT ![s] = Message("input", g)]
          PROVE  InringOK'
      <4>1. /\ Message("input", g) \in Entries(InputTries) \cup {Free} /\ Message("input", g).ch = "input"
        BY MessageType, Bounds DEF Channels
      <4> QED BY <3>2, <4>1 DEF InringOK
    <3> QED BY <1>10, <3>1, <3>2 DEF SendInput, input_delivery_failed
  <2>3. IdrOK'
    BY <1>10, Bounds DEF SendInput, input_delivery_failed, connVars, ringVars, idrVars, picVars, discVars,
                         IdrOK
  <2>4. FlagsOK'
    BY <1>0, <1>10 DEF SendInput, input_delivery_failed, connVars, ringVars, idrVars, picVars, discVars,
                       FlagsOK
  <2>5. PlaceOK'
    BY <1>10, Bounds DEF SendInput, input_delivery_failed, connVars, ringVars, idrVars, picVars, discVars,
                         PlaceOK, Phases, Resources
  <2> QED BY <2>1, <2>2, <2>3, <2>4, <2>5
<1>11. CASE Recovery
  <2>1. RingOK'
    BY <1>0, <1>11, RequestsKeep DEF Recovery
  <2>2. InringOK'
    BY <1>11 DEF Recovery, connVars, picVars, discVars, InringOK
  <2>3. IdrOK'
    BY <1>0, <1>11, RequestsKeep DEF Recovery
  <2>4. FlagsOK'
    BY <1>0, <1>11 DEF Recovery, connVars, picVars, discVars, FlagsOK
  <2>5. PlaceOK'
    BY <1>11, Bounds DEF Recovery, connVars, picVars, discVars, PlaceOK, Phases, Resources
  <2> QED BY <2>1, <2>2, <2>3, <2>4, <2>5
<1>12. CASE Tick
  <2>1. RingOK'
    BY <1>12 DEF Tick, connVars, ringVars, picVars, discVars, RingOK
  <2>2. InringOK'
    BY <1>12 DEF Tick, connVars, ringVars, picVars, discVars, InringOK
  <2>3. IdrOK'
    BY <1>12, Bounds DEF Tick, connVars, ringVars, picVars, discVars, IdrOK
  <2>4. FlagsOK'
    BY <1>0, <1>12 DEF Tick, connVars, ringVars, picVars, discVars, FlagsOK
  <2>5. PlaceOK'
    BY <1>12, Bounds DEF Tick, connVars, ringVars, picVars, discVars, PlaceOK, Phases, Resources
  <2> QED BY <2>1, <2>2, <2>3, <2>4, <2>5
<1>13. CASE PictureDecoded
  <2>1. RingOK'
    BY <1>13 DEF PictureDecoded, connVars, ringVars, idrVars, discVars, RingOK
  <2>2. InringOK'
    BY <1>13 DEF PictureDecoded, connVars, ringVars, idrVars, discVars, InringOK
  <2>3. IdrOK'
    BY <1>13, Bounds DEF PictureDecoded, connVars, ringVars, idrVars, discVars, IdrOK
  <2>4. FlagsOK'
    BY <1>0, <1>13 DEF PictureDecoded, connVars, ringVars, idrVars, discVars, FlagsOK
  <2>5. PlaceOK'
    BY <1>13, Bounds DEF PictureDecoded, connVars, ringVars, idrVars, discVars, PlaceOK, Phases, Resources
  <2> QED BY <2>1, <2>2, <2>3, <2>4, <2>5
<1>14. CASE PictureLost
  <2>1. RingOK'
    BY <1>14 DEF PictureLost, connVars, ringVars, idrVars, discVars, RingOK
  <2>2. InringOK'
    BY <1>14 DEF PictureLost, connVars, ringVars, idrVars, discVars, InringOK
  <2>3. IdrOK'
    BY <1>14, Bounds DEF PictureLost, connVars, ringVars, idrVars, discVars, IdrOK
  <2>4. FlagsOK'
    BY <1>0, <1>14 DEF PictureLost, connVars, ringVars, idrVars, discVars, FlagsOK
  <2>5. PlaceOK'
    BY <1>14, Bounds DEF PictureLost, connVars, ringVars, idrVars, discVars, PlaceOK, Phases, Resources
  <2> QED BY <2>1, <2>2, <2>3, <2>4, <2>5
<1>15. CASE Ping
  <2>1. RingOK'
    BY <1>15, SendKeeps DEF Ping
  <2>2. InringOK'
    BY <1>15 DEF Ping, connVars, idrVars, picVars, discVars, InringOK
  <2>3. IdrOK'
    BY <1>15, Bounds DEF Ping, connVars, idrVars, picVars, discVars, IdrOK
  <2>4. FlagsOK'
    BY <1>0, <1>15 DEF Ping, connVars, idrVars, picVars, discVars, FlagsOK
  <2>5. PlaceOK'
    BY <1>15, Bounds DEF Ping, connVars, idrVars, picVars, discVars, PlaceOK, Phases, Resources
  <2> QED BY <2>1, <2>2, <2>3, <2>4, <2>5
<1>16. CASE StartupAssist
  <2>1. RingOK'
    BY <1>0, <1>16, RequestsKeep DEF StartupAssist
  <2>2. InringOK'
    BY <1>16 DEF StartupAssist, connVars, picVars, discVars, InringOK
  <2>3. IdrOK'
    BY <1>0, <1>16, RequestsKeep DEF StartupAssist
  <2>4. FlagsOK'
    BY <1>0, <1>16 DEF StartupAssist, connVars, picVars, discVars, FlagsOK
  <2>5. PlaceOK'
    BY <1>16, Bounds DEF StartupAssist, connVars, picVars, discVars, PlaceOK, Phases, Resources
  <2> QED BY <2>1, <2>2, <2>3, <2>4, <2>5
<1>17. CASE StallAssist
  <2>1. RingOK'
    BY <1>0, <1>17, RequestKeeps DEF StallAssist, IdrOK
  <2>2. InringOK'
    BY <1>17 DEF StallAssist, connVars, discVars, InringOK
  <2>3. IdrOK'
    BY <1>0, <1>17, RequestKeeps DEF StallAssist, IdrOK
  <2>4. FlagsOK'
    BY <1>0, <1>17 DEF StallAssist, connVars, discVars, FlagsOK
  <2>5. PlaceOK'
    BY <1>17, Bounds DEF StallAssist, connVars, discVars, PlaceOK, Phases, Resources
  <2> QED BY <2>1, <2>2, <2>3, <2>4, <2>5
<1>18. CASE DrainTick
  <2>1. RingOK'
    BY <1>18 DEF DrainTick, connVars, ringVars, idrVars, picVars, RingOK
  <2>2. InringOK'
    BY <1>18 DEF DrainTick, connVars, ringVars, idrVars, picVars, InringOK
  <2>3. IdrOK'
    BY <1>18, Bounds DEF DrainTick, connVars, ringVars, idrVars, picVars, IdrOK
  <2>4. FlagsOK'
    BY <1>0, <1>18 DEF DrainTick, connVars, ringVars, idrVars, picVars, FlagsOK
  <2>5. PlaceOK'
    BY <1>18, Bounds DEF DrainTick, connVars, ringVars, idrVars, picVars, PlaceOK, Phases, Resources
  <2> QED BY <2>1, <2>2, <2>3, <2>4, <2>5
<1>19. ASSUME NEW due \in SUBSET (1 .. InputSlots), InputScan(due)
      PROVE  RingOK' /\ InringOK' /\ IdrOK' /\ FlagsOK' /\ PlaceOK'
  <2>1. RingOK'
    BY <1>19 DEF InputScan, input_delivery_failed, connVars, ringVars, idrVars, picVars, discVars, RingOK
  <2>2. InringOK'
    <3>1. CASE UNCHANGED inring
      BY <3>1 DEF InringOK
    <3>2. ASSUME \A s \in due : inring[s].tries < InputTries, NEW arrived \in SUBSET due, inring' = Retried(inring, due, arrived)
          PROVE  InringOK'
      <4>1. \A s \in due : inring[s] # Free /\ inring[s].tries < InputTries
        BY <1>19, <3>2 DEF InputScan
      <4>2. inring \in [1 .. InputSlots -> Entries(InputTries) \cup {Free}]
        BY DEF InringOK
      <4>3. /\ Retried(inring, due, arrived) \in [1 .. InputSlots -> Entries(InputTries) \cup {Free}]
            /\ \A s \in 1 .. InputSlots : Retried(inring, due, arrived)[s] # Free =>
                  inring[s] # Free /\ Retried(inring, due, arrived)[s].ch = inring[s].ch
        <5>1. InputSlots \in Nat /\ InputTries \in Nat
          BY Bounds
        <5>2. RetriedWell(InputSlots, InputTries, inring, due, arrived)
          BY <4>2, <5>1, RetriedType
        <5> QED BY <4>1, <5>2 DEF RetriedWell
      <4> QED BY <3>2, <4>3 DEF InringOK
    <3> QED BY <1>19, <3>1, <3>2 DEF InputScan
  <2>3. IdrOK'
    BY <1>19, Bounds DEF InputScan, input_delivery_failed, connVars, ringVars, idrVars, picVars, discVars,
                         IdrOK
  <2>4. FlagsOK'
    BY <1>0, <1>19 DEF InputScan, input_delivery_failed, connVars, ringVars, idrVars, picVars, discVars,
                       FlagsOK
  <2>5. PlaceOK'
    BY <1>19, Bounds DEF InputScan, input_delivery_failed, connVars, ringVars, idrVars, picVars, discVars,
                         PlaceOK, Phases, Resources
  <2> QED BY <2>1, <2>2, <2>3, <2>4, <2>5
<1>20. ASSUME NEW s \in 1 .. Slots, RetxScan(s)
      PROVE  RingOK' /\ InringOK' /\ IdrOK' /\ FlagsOK' /\ PlaceOK'
  <2>1. RingOK'
    <3>1. CASE ring' = [ring EXCEPT ![s] = Free] /\ open' = open \ LostWith(ring[s]) /\ head' = head
      <4>1. ring[s] # Free /\ LostWith(ring[s]) \subseteq {"generic", "urgent"}
        BY <1>20 DEF RetxScan, RingOK, LostWith
      <4> QED BY <3>1, <4>1 DEF RingOK
    <3>2. ASSUME ring[s].tries < MaxTries, NEW arrived \in SUBSET {s}, ring' = Retried(ring, {s}, arrived), UNCHANGED <<open, head>>
          PROVE  RingOK'
      <4>1. ring[s] # Free
        BY <1>20 DEF RetxScan
      <4>2. ring \in [1 .. Slots -> Entries(MaxTries) \cup {Free}]
        BY DEF RingOK
      <4>3. /\ Retried(ring, {s}, arrived) \in [1 .. Slots -> Entries(MaxTries) \cup {Free}]
            /\ \A x \in 1 .. Slots : Retried(ring, {s}, arrived)[x] # Free =>
                  ring[x] # Free /\ Retried(ring, {s}, arrived)[x].ch = ring[x].ch
        <5>1. {s} \in SUBSET (1 .. Slots) /\ \A x \in {s} : ring[x] # Free /\ ring[x].tries < MaxTries
          BY <3>2, <4>1
        <5>2. Slots \in Nat /\ MaxTries \in Nat
          BY Bounds
        <5>3. RetriedWell(Slots, MaxTries, ring, {s}, arrived)
          BY <4>2, <5>1, <5>2, RetriedType
        <5> QED BY <5>1, <5>3 DEF RetriedWell
      <4> QED BY <3>2, <4>3 DEF RingOK
    <3> QED BY <1>20, <3>1, <3>2 DEF RetxScan
  <2>2. InringOK'
    BY <1>20 DEF RetxScan, connVars, idrVars, picVars, discVars, InringOK
  <2>3. IdrOK'
    BY <1>20, Bounds DEF RetxScan, connVars, idrVars, picVars, discVars, IdrOK
  <2>4. FlagsOK'
    BY <1>0, <1>20 DEF RetxScan, connVars, idrVars, picVars, discVars, FlagsOK
  <2>5. PlaceOK'
    BY <1>20, Bounds DEF RetxScan, connVars, idrVars, picVars, discVars, PlaceOK, Phases, Resources
  <2> QED BY <2>1, <2>2, <2>3, <2>4, <2>5
<1>21. ASSUME NEW s \in 1 .. Slots, ReceiveAck(s)
      PROVE  RingOK' /\ InringOK' /\ IdrOK' /\ FlagsOK' /\ PlaceOK'
  <2>1. RingOK'
    BY <1>21 DEF ReceiveAck, connVars, idrVars, picVars, discVars, RingOK
  <2>2. InringOK'
    BY <1>21 DEF ReceiveAck, connVars, idrVars, picVars, discVars, InringOK
  <2>3. IdrOK'
    BY <1>21, Bounds DEF ReceiveAck, connVars, idrVars, picVars, discVars, IdrOK
  <2>4. FlagsOK'
    BY <1>0, <1>21 DEF ReceiveAck, connVars, idrVars, picVars, discVars, FlagsOK
  <2>5. PlaceOK'
    BY <1>21, Bounds DEF ReceiveAck, connVars, idrVars, picVars, discVars, PlaceOK, Phases, Resources
  <2> QED BY <2>1, <2>2, <2>3, <2>4, <2>5
<1>22. ASSUME NEW s \in 1 .. InputSlots, ReceiveInputAck(s)
      PROVE  RingOK' /\ InringOK' /\ IdrOK' /\ FlagsOK' /\ PlaceOK'
  <2>1. RingOK'
    BY <1>22 DEF ReceiveInputAck, connVars, ringVars, idrVars, picVars, discVars, RingOK
  <2>2. InringOK'
    BY <1>22 DEF ReceiveInputAck, connVars, ringVars, idrVars, picVars, discVars, InringOK
  <2>3. IdrOK'
    BY <1>22, Bounds DEF ReceiveInputAck, connVars, ringVars, idrVars, picVars, discVars, IdrOK
  <2>4. FlagsOK'
    BY <1>0, <1>22 DEF ReceiveInputAck, connVars, ringVars, idrVars, picVars, discVars, FlagsOK
  <2>5. PlaceOK'
    BY <1>22, Bounds DEF ReceiveInputAck, connVars, ringVars, idrVars, picVars, discVars, PlaceOK, Phases,
                         Resources
  <2> QED BY <2>1, <2>2, <2>3, <2>4, <2>5
<1>23. CASE ReceiveHello
  <2>1. RingOK'
    BY <1>23, SendKeeps DEF ReceiveHello
  <2>2. InringOK'
    BY <1>23 DEF ReceiveHello, connVars, idrVars, picVars, InringOK
  <2>3. IdrOK'
    BY <1>23, Bounds DEF ReceiveHello, connVars, idrVars, picVars, IdrOK
  <2>4. FlagsOK'
    BY <1>0, <1>23 DEF ReceiveHello, connVars, idrVars, picVars, FlagsOK
  <2>5. PlaceOK'
    BY <1>23, Bounds DEF ReceiveHello, connVars, idrVars, picVars, PlaceOK, Phases, Resources
  <2> QED BY <2>1, <2>2, <2>3, <2>4, <2>5
<1>24. CASE HelloAssist
  <2>1. RingOK'
    <3>1. 0 \in 0 .. 2 /\ 1 \in 1 .. MaxBackoff /\ MaxBackoff \in 0 .. MaxBackoff
      BY Bounds
    <3> QED BY <1>0, <1>24, <3>1, RequestKeeps DEF HelloAssist, ringVars, RingOK, IdrOK
  <2>2. InringOK'
    BY <1>24 DEF HelloAssist, connVars, ringVars, picVars, InringOK
  <2>3. IdrOK'
    <3>1. 0 \in 0 .. 2 /\ 1 \in 1 .. MaxBackoff /\ MaxBackoff \in 0 .. MaxBackoff
      BY Bounds
    <3> QED BY <1>0, <1>24, <3>1, RequestKeeps DEF HelloAssist, ringVars, RingOK, IdrOK
  <2>4. FlagsOK'
    BY <1>0, <1>24 DEF HelloAssist, connVars, ringVars, picVars, FlagsOK
  <2>5. PlaceOK'
    BY <1>24, Bounds DEF HelloAssist, connVars, ringVars, picVars, PlaceOK, Phases, Resources
  <2> QED BY <2>1, <2>2, <2>3, <2>4, <2>5
<1>25. CASE ReceiveDisconnect
  <2>1. RingOK'
    BY <1>25 DEF ReceiveDisconnect, connVars, ringVars, idrVars, picVars, RingOK
  <2>2. InringOK'
    BY <1>25 DEF ReceiveDisconnect, connVars, ringVars, idrVars, picVars, InringOK
  <2>3. IdrOK'
    BY <1>25, Bounds DEF ReceiveDisconnect, connVars, ringVars, idrVars, picVars, IdrOK
  <2>4. FlagsOK'
    BY <1>0, <1>25 DEF ReceiveDisconnect, connVars, ringVars, idrVars, picVars, FlagsOK
  <2>5. PlaceOK'
    BY <1>25, Bounds DEF ReceiveDisconnect, connVars, ringVars, idrVars, picVars, PlaceOK, Phases, Resources
  <2> QED BY <2>1, <2>2, <2>3, <2>4, <2>5
<1>26. CASE ReceiveTermination
  <2>1. RingOK'
    BY <1>26 DEF ReceiveTermination, connVars, ringVars, idrVars, picVars, discVars, RingOK
  <2>2. InringOK'
    BY <1>26 DEF ReceiveTermination, connVars, ringVars, idrVars, picVars, discVars, InringOK
  <2>3. IdrOK'
    BY <1>26, Bounds DEF ReceiveTermination, connVars, ringVars, idrVars, picVars, discVars, IdrOK
  <2>4. FlagsOK'
    BY <1>0, <1>26 DEF ReceiveTermination, connVars, ringVars, idrVars, picVars, discVars, FlagsOK
  <2>5. PlaceOK'
    BY <1>26, Bounds DEF ReceiveTermination, connVars, ringVars, idrVars, picVars, discVars, PlaceOK,
                         Phases, Resources
  <2> QED BY <2>1, <2>2, <2>3, <2>4, <2>5
<1>27. CASE UNCHANGED vars
  <2>1. UNCHANGED <<connVars, me_running, ringVars, inring, idrVars, picVars, discVars>>
    BY <1>27 DEF vars
  <2>2. RingOK' /\ InringOK' /\ IdrOK'
    BY <2>1 DEF ringVars, idrVars, RingOK, InringOK, IdrOK
  <2>3. FlagsOK' /\ PlaceOK'
    BY <2>1 DEF connVars, picVars, discVars, FlagsOK, PlaceOK
  <2> QED BY <2>2, <2>3
<1> QED BY <1>1, <1>2, <1>3, <1>4, <1>5, <1>6, <1>7, <1>8, <1>9, <1>10, <1>11, <1>12, <1>13, <1>14, <1>15, <1>16, <1>17, <1>18, <1>19, <1>20, <1>21, <1>22, <1>23, <1>24, <1>25, <1>26, <1>27 DEF Next

\* The inductive invariant of the control connection.
THEOREM ControlInvariant == Spec => []IInv
  BY InitInv, Step, PTL DEF Spec

\* Every variable of the control connection stays within its type, in particular the slots of both
\* rings, the retries of what they retain and the pauses between requests (retx_store,
\* input_retx_scan, control_stream_request_idr).
THEOREM ControlTypes == Spec => []TypeOK
<1>1. IInv => TypeOK
  BY DEF IInv
<1> QED BY <1>1, ControlInvariant, PTL

\* An input that took a number of its channel is at the host or still retained, with rings of any
\* size and any number of retries (control_stream_send_input, input_retx_scan).
THEOREM InputIsNeverLost == Spec => []InputNeverLost
<1>1. IInv => InputNeverLost
  BY DEF IInv, InputOpen, InputNeverLost
<1> QED BY <1>1, ControlInvariant, PTL
=============================================================================
