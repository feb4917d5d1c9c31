---------------------------- MODULE Media_proofs ----------------------------
(***************************************************************************)
(* Machine-checked safety of the two media of a stream: the audio threads, *)
(* for a ring of any size and counters of any width that is a multiple of it,*)
(* and the video path from the packets to the frame callback, for every mode,*)
(* window and limit.                                                       *)
(*                                                                         *)
(* PlayedIntact (Audio) is not inductive.  It needs that every queued push is*)
(* in its slot (QueueHeld), that a chunk copied and not yet published is in*)
(* the slot after the queue (PushUnderWay), that a chunk copied and not yet*)
(* taken is still the oldest (PopUnderWay), and in which phases of a stream*)
(* the threads exist (Phases).                                             *)
(*                                                                         *)
(* UntornWhole (RtpVideo) needs to know, packet by packet, what is in the  *)
(* assembly buffer while FEC submits a frame (InSubmission), which needs that*)
(* the slots hold every data packet then (Collected) and where the call is *)
(* (CallPhases).                                                           *)
(***************************************************************************)
EXTENDS Audio, RtpVideo, TLAPS

(***************************************************************************)
(* The threads exist between audio_thread_init and the joins of            *)
(* audio_thread_shutdown.                                                  *)
(***************************************************************************)
Phases == ui \in {"idle", "pinging", "failed", "silent"} => rx.pc = "off"

\* How far a push is ahead of another, its slot, and the ones after and before it.
Gap(h, t) == Wrap(h - t)
Slot(p) == p % RingSlots
After(p) == Wrap(p + 1)
Before(p) == Wrap(p - 1)

\* Every queued push is in its slot.
QueueHeld ==
    /\ Gap(head, tail) <= RingSlots
    /\ \A p \in Pushes : Gap(p, tail) < Gap(head, tail) => ring[Slot(p)] = p

\* A chunk copied and not yet published is in the slot after the queue.
PushUnderWay == rx.copied => pcm > 0 /\ Gap(head, tail) < RingSlots /\ ring[Slot(head)] = head

\* A chunk copied and not yet taken is still the oldest of the queue.
PopUnderWay == play.pc \in {"discard", "take"} => head # tail /\ play.buf = tail

ClockFollows ==
    play.pc \notin {"off", "ended"} =>
        clock.timeline = IF play.pc \in {"skip", "out"} THEN Before(tail) ELSE tail

\* Before the first packet nothing was staged, pushed or taken.
Unanchored ==
    ~clock.anchor /\ (rx.pc # "off" \/ play.pc # "off") =>
        /\ head = 0 /\ tail = 0 /\ pcm = 0 /\ clock.timeline = 0
        /\ rx.pc \notin {"append", "flush", "more"} /\ play.pc \notin {"skip", "out"}

IInv == TypeOK /\ Phases /\ QueueHeld /\ PushUnderWay /\ PopUnderWay /\ ClockFollows /\ Unanchored

-----------------------------------------------------------------------------
(***************************************************************************)
(* Arithmetic of the indices.                                              *)
(***************************************************************************)

\* A remainder one lap around.
LEMMA ModCases ==
  ASSUME NEW m \in Nat \ {0}, NEW x \in Int, -m <= x, x < 2 * m
  PROVE  x % m = IF x < 0 THEN x + m ELSE IF x < m THEN x ELSE x - m
<1>1. CASE x < 0
  BY <1>1
<1>2. CASE x >= 0 /\ x < m
  BY <1>2
<1>3. CASE x >= m
  BY <1>3
<1> QED BY <1>1, <1>2, <1>3

LEMMA AudioConstants ==
  /\ RingSlots \in Nat /\ RingSlots > 0 /\ StageMax \in Nat /\ StageMax > 0
  /\ Prebuffer \in Nat /\ LowWater \in Nat /\ Target \in Nat /\ HoldMax \in Nat
BY AudioAssumption

LEMMA GapIs ==
  ASSUME NEW h \in Pushes, NEW t \in Pushes
  PROVE  Gap(h, t) = (IF t <= h THEN h - t ELSE h - t + 2 * RingSlots) /\ Gap(h, t) \in Pushes
<1> DEFINE m == 2 * RingSlots
           r == (h - t) % m
<1>0. Pushes = 0 .. m - 1 /\ m \in Nat \ {0}
  BY AudioConstants DEF Pushes
<1> HIDE DEF m
<1>1. h - t \in Int /\ -m <= h - t /\ h - t < m /\ h - t < 2 * m
  BY <1>0
<1>2. r = IF h - t < 0 THEN h - t + m ELSE IF h - t < m THEN h - t ELSE h - t - m
  BY <1>0, <1>1, ModCases
<1> HIDE DEF r
<1>3. r = (IF t <= h THEN h - t ELSE h - t + m) /\ r \in Pushes
  BY <1>0, <1>1, <1>2
<1> QED BY <1>3 DEF r, Gap, Wrap, m

LEMMA SlotIs ==
  ASSUME NEW p \in Pushes
  PROVE  Slot(p) = (IF p < RingSlots THEN p ELSE p - RingSlots) /\ Slot(p) \in 0 .. RingSlots - 1
<1>1. p \in Int /\ RingSlots \in Nat \ {0} /\ 0 <= p /\ -RingSlots <= p /\ p < 2 * RingSlots
  BY AudioConstants DEF Pushes
<1>2. p % RingSlots = IF p < 0 THEN p + RingSlots ELSE IF p < RingSlots THEN p ELSE p - RingSlots
  BY <1>1, ModCases
<1> QED BY <1>1, <1>2 DEF Slot

LEMMA AfterIs ==
  ASSUME NEW p \in Pushes
  PROVE  After(p) = (IF p + 1 < 2 * RingSlots THEN p + 1 ELSE 0) /\ After(p) \in Pushes
<1> DEFINE m == 2 * RingSlots
           r == (p + 1) % m
<1>0. Pushes = 0 .. m - 1 /\ m \in Nat \ {0}
  BY AudioConstants DEF Pushes
<1> HIDE DEF m
<1>1. -m <= p + 1 /\ p + 1 < 2 * m /\ p + 1 \in Int
  BY <1>0
<1>2. PICK x \in Int : x = p + 1
  BY <1>1
<1>3. x % m = IF x < 0 THEN x + m ELSE IF x < m THEN x ELSE x - m
  BY <1>0, <1>1, <1>2, ModCases
<1>4. r = IF x < m THEN x ELSE x - m
  BY <1>0, <1>2, <1>3
<1> HIDE DEF r
<1>5. r = (IF p + 1 < m THEN p + 1 ELSE 0) /\ r \in Pushes
  BY <1>0, <1>2, <1>4
<1> QED BY <1>5 DEF r, After, Wrap, m

LEMMA BeforeIs ==
  ASSUME NEW p \in Pushes
  PROVE  Before(p) = (IF p = 0 THEN 2 * RingSlots - 1 ELSE p - 1) /\ Before(p) \in Pushes
<1> DEFINE m == 2 * RingSlots
           r == (p - 1) % m
<1>0. Pushes = 0 .. m - 1 /\ m \in Nat \ {0}
  BY AudioConstants DEF Pushes
<1> HIDE DEF m
<1>1. -m <= p - 1 /\ p - 1 < 2 * m /\ p - 1 \in Int
  BY <1>0
<1>2. PICK x \in Int : x = p - 1
  BY <1>1
<1>3. x % m = IF x < 0 THEN x + m ELSE IF x < m THEN x ELSE x - m
  BY <1>0, <1>1, <1>2, ModCases
<1>4. r = IF x < 0 THEN x + m ELSE x
  BY <1>0, <1>2, <1>3
<1> HIDE DEF r
<1>5. r = (IF p = 0 THEN m - 1 ELSE p - 1) /\ r \in Pushes
  BY <1>0, <1>2, <1>4
<1> QED BY <1>5 DEF r, Before, Wrap, m

\* The one before the one after is itself, and the one after the one before.
LEMMA ThereAndBack ==
  ASSUME NEW p \in Pushes
  PROVE  Before(After(p)) = p /\ After(Before(p)) = p
<1>1. PICK a \in Pushes : a = After(p)
  BY AfterIs
<1>2. PICK b \in Pushes : b = Before(p)
  BY BeforeIs
<1>3. a = (IF p + 1 < 2 * RingSlots THEN p + 1 ELSE 0) /\ b = (IF p = 0 THEN 2 * RingSlots - 1 ELSE p - 1)
  BY <1>1, <1>2, AfterIs, BeforeIs
<1>4. Before(a) = (IF a = 0 THEN 2 * RingSlots - 1 ELSE a - 1) /\ After(b) = (IF b + 1 < 2 * RingSlots THEN b + 1 ELSE 0)
  BY AfterIs, BeforeIs
<1>5. Before(a) = p /\ After(b) = p
  BY <1>3, <1>4, AudioConstants DEF Pushes
<1> QED BY <1>1, <1>2, <1>5

\* The slots of a queue with room, and of the push after it, are different.
LEMMA SlotFree ==
  ASSUME NEW h \in Pushes, NEW t \in Pushes, NEW p \in Pushes, Gap(h, t) < RingSlots, Gap(p, t) < Gap(h, t)
  PROVE  Slot(p) # Slot(h)
<1>1. /\ Gap(h, t) = IF t <= h THEN h - t ELSE h - t + 2 * RingSlots
      /\ Gap(p, t) = IF t <= p THEN p - t ELSE p - t + 2 * RingSlots
      /\ Slot(p) = IF p < RingSlots THEN p ELSE p - RingSlots
      /\ Slot(h) = IF h < RingSlots THEN h ELSE h - RingSlots
  BY GapIs, SlotIs
<1>2. p \in Int /\ h \in Int /\ t \in Int /\ p < 2 * RingSlots /\ h < 2 * RingSlots /\ t < 2 * RingSlots
      /\ p >= 0 /\ h >= 0 /\ t >= 0 /\ RingSlots \in Int /\ RingSlots > 0
  BY AudioConstants DEF Pushes
<1>3. CASE t <= h /\ t <= p
  BY <1>1, <1>2, <1>3
<1>4. CASE t <= h /\ t > p
  BY <1>1, <1>2, <1>4
<1>5. CASE t > h /\ t <= p
  BY <1>1, <1>2, <1>5
<1>6. CASE t > h /\ t > p
  BY <1>1, <1>2, <1>6
<1> QED BY <1>2, <1>3, <1>4, <1>5, <1>6

\* One more at the head.
LEMMA GapGrows ==
  ASSUME NEW h \in Pushes, NEW t \in Pushes, Gap(h, t) < RingSlots
  PROVE  /\ Gap(After(h), t) = Gap(h, t) + 1
         /\ \A p \in Pushes : Gap(p, t) < Gap(h, t) + 1 => p = h \/ Gap(p, t) < Gap(h, t)
<1>1. PICK a \in Pushes : a = After(h)
  BY AfterIs
<1>2. /\ a = (IF h + 1 < 2 * RingSlots THEN h + 1 ELSE 0)
      /\ Gap(a, t) = IF t <= a THEN a - t ELSE a - t + 2 * RingSlots
      /\ Gap(h, t) = IF t <= h THEN h - t ELSE h - t + 2 * RingSlots
  BY <1>1, AfterIs, GapIs
<1>3. h \in Int /\ t \in Int /\ h < 2 * RingSlots /\ t < 2 * RingSlots /\ h >= 0 /\ t >= 0
      /\ RingSlots \in Int /\ RingSlots > 0
  BY AudioConstants DEF Pushes
<1>4. Gap(a, t) = Gap(h, t) + 1
  <2>1. CASE h + 1 < 2 * RingSlots
    BY <1>2, <1>3, <2>1
  <2>2. CASE h + 1 >= 2 * RingSlots
    BY <1>2, <1>3, <2>2
  <2> QED BY <1>3, <2>1, <2>2
<1>5. ASSUME NEW p \in Pushes, Gap(p, t) < Gap(h, t) + 1, ~(Gap(p, t) < Gap(h, t)) PROVE p = h
  <2>1. Gap(p, t) = IF t <= p THEN p - t ELSE p - t + 2 * RingSlots
    BY GapIs
  <2>2. p \in Int /\ p >= 0 /\ p < 2 * RingSlots
    BY AudioConstants DEF Pushes
  <2>3. Gap(p, t) = Gap(h, t)
    BY <1>2, <1>3, <1>5, <2>1, <2>2
  <2> QED BY <1>2, <1>3, <2>1, <2>2, <2>3
<1> QED BY <1>1, <1>4, <1>5

\* One less at the tail.
LEMMA GapShrinks ==
  ASSUME NEW h \in Pushes, NEW t \in Pushes, h # t
  PROVE  /\ Gap(h, After(t)) = Gap(h, t) - 1
         /\ \A p \in Pushes : Gap(p, After(t)) < Gap(h, t) - 1 => Gap(p, t) < Gap(h, t)
<1>1. PICK a \in Pushes : a = After(t)
  BY AfterIs
<1>2. /\ a = (IF t + 1 < 2 * RingSlots THEN t + 1 ELSE 0)
      /\ Gap(h, a) = IF a <= h THEN h - a ELSE h - a + 2 * RingSlots
      /\ Gap(h, t) = IF t <= h THEN h - t ELSE h - t + 2 * RingSlots
  BY <1>1, AfterIs, GapIs
<1>3. h \in Int /\ t \in Int /\ h < 2 * RingSlots /\ t < 2 * RingSlots /\ h >= 0 /\ t >= 0
      /\ RingSlots \in Int /\ RingSlots > 0
  BY AudioConstants DEF Pushes
<1>4. Gap(h, a) = Gap(h, t) - 1
  <2>1. CASE t + 1 < 2 * RingSlots
    BY <1>2, <1>3, <2>1
  <2>2. CASE t + 1 >= 2 * RingSlots
    BY <1>2, <1>3, <2>2
  <2> QED BY <1>3, <2>1, <2>2
<1>5. ASSUME NEW p \in Pushes, Gap(p, a) < Gap(h, t) - 1 PROVE Gap(p, t) < Gap(h, t)
  <2>1. /\ Gap(p, t) = IF t <= p THEN p - t ELSE p - t + 2 * RingSlots
        /\ Gap(p, a) = IF a <= p THEN p - a ELSE p - a + 2 * RingSlots
    BY GapIs
  <2>2. p \in Int /\ p >= 0 /\ p < 2 * RingSlots
    BY AudioConstants DEF Pushes
  <2>3. CASE t + 1 < 2 * RingSlots
    BY <1>2, <1>3, <1>5, <2>1, <2>2, <2>3
  <2>4. CASE t + 1 >= 2 * RingSlots
    BY <1>2, <1>3, <1>5, <2>1, <2>2, <2>4
  <2> QED BY <1>3, <2>3, <2>4
<1> QED BY <1>1, <1>4, <1>5

-----------------------------------------------------------------------------
LEMMA AudioInitInv == Init => IInv
<1> SUFFICES ASSUME Init PROVE IInv
  OBVIOUS
<1>1. RxIdle \in [pc : RxPcs, copied : BOOLEAN, have : BOOLEAN]
  BY DEF RxIdle, RxPcs
<1>2. 0 \in Pushes /\ 0 \in 0 .. StageMax
  BY AudioConstants DEF Pushes
<1>3. PlayIdle \in [pc : PlayPcs, buf : Pushes, idle : BOOLEAN, have : BOOLEAN, holds : 0 .. HoldMax]
  BY <1>2, AudioConstants DEF PlayIdle, PlayPcs
<1>4. ClockIdle \in [anchor : BOOLEAN, scale : BOOLEAN, timeline : Pushes]
  BY <1>2 DEF ClockIdle
<1>5. TypeOK
  BY <1>1, <1>2, <1>3, <1>4 DEF Init, TypeOK
<1>6. Gap(0, 0) = 0
  BY <1>2, GapIs
<1>7. QueueHeld
  <2>1. ASSUME NEW p \in Pushes PROVE ~(Gap(p, 0) < 0)
    <3>1. Gap(p, 0) \in Pushes
      BY <1>2, GapIs
    <3> QED BY <3>1 DEF Pushes
  <2> QED BY <1>6, <2>1, AudioConstants DEF QueueHeld, Init
<1> QED BY <1>5, <1>7 DEF IInv, Init, Phases, PushUnderWay, PopUnderWay, ClockFollows, Unanchored,
                         RxIdle, PlayIdle, ClockIdle

\* The empty ring holds its queue.
LEMMA EmptyHeld ==
  ASSUME head' = 0, tail' = 0
  PROVE  QueueHeld' /\ Gap(head, tail)' = 0
<1>2. 0 \in Pushes
  BY AudioConstants DEF Pushes
<1>6. Gap(0, 0) = 0
  BY <1>2, GapIs
<1>7. ASSUME NEW p \in Pushes PROVE ~(Gap(p, 0) < 0)
  <2>1. Gap(p, 0) \in Pushes
    BY <1>2, GapIs
  <2> QED BY <2>1 DEF Pushes
<1> QED BY <1>6, <1>7, AudioConstants DEF QueueHeld

LEMMA SameRing ==
  ASSUME QueueHeld, UNCHANGED ringVars
  PROVE  QueueHeld' /\ Gap(head, tail)' = Gap(head, tail)
BY DEF QueueHeld, ringVars

LEMMA UIStep ==
  ASSUME IInv, UI \/ PingEnds
  PROVE  IInv'
<1> USE DEF IInv
<1>1. CASE StartPing
  BY <1>1, SameRing DEF StartPing, rxVars, TypeOK, Phases, PushUnderWay, PopUnderWay, ClockFollows, Unanchored,
     ringVars, Resources
<1>2. CASE AudioInit
  <2>1. PICK outcome \in {"ok", "no_sem", "no_decoder", "no_socket", "no_channel", "no_thread"}, playing \in BOOLEAN :
          /\ outcome = "no_socket" => "sock" \notin res
          /\ playing => outcome = "ok"
          /\ res' = HeldAfter(outcome)
          /\ s_running' = (outcome = "ok")
          /\ IF outcome \in {"ok", "no_channel"} THEN
               \/ ping = "off" /\ s_ping_running' = TRUE /\ ping' = "on"
               \/ UNCHANGED <<s_ping_running, ping>>
             ELSE IF outcome = "no_thread" THEN s_ping_running' = FALSE /\ ping' = "off"
             ELSE UNCHANGED <<s_ping_running, ping>>
          /\ ui' = IF outcome = "ok" THEN "up" ELSE "failed"
          /\ rx' = [RxIdle EXCEPT !.pc = IF outcome = "ok" THEN "takeover" ELSE "off"]
          /\ play' = [PlayIdle EXCEPT !.pc = IF playing THEN "prebuffer" ELSE "off"]
    BY <1>2 DEF AudioInit
  <2>2. /\ s_teardown_started' = FALSE /\ started' = FALSE /\ pcm' = 0
        /\ ring' = [i \in 0 .. RingSlots - 1 |-> 0] /\ head' = 0 /\ tail' = 0 /\ clock' = ClockIdle
    BY <1>2 DEF AudioInit, InitResets
  <2>3. QueueHeld'
    BY <2>2, EmptyHeld
  <2>4. 0 \in Pushes /\ 0 \in 0 .. StageMax /\ 0 \in 0 .. HoldMax
    BY AudioConstants DEF Pushes
  <2>5. rx' = [pc |-> IF outcome = "ok" THEN "takeover" ELSE "off", copied |-> FALSE, have |-> FALSE]
    BY <2>1 DEF RxIdle
  <2>6. play' = [pc |-> IF playing THEN "prebuffer" ELSE "off", buf |-> 0, idle |-> FALSE, have |-> FALSE, holds |-> 0]
    BY <2>1 DEF PlayIdle
  <2>7. clock' = [anchor |-> FALSE, scale |-> FALSE, timeline |-> 0]
    BY <2>2 DEF ClockIdle
  <2>8. res' \subseteq Resources
    BY <2>1 DEF HeldAfter, TypeOK, Resources
  <2>9. ping' \in {"off", "on", "ended"} /\ s_ping_running' \in BOOLEAN /\ s_running' \in BOOLEAN
    BY <2>1 DEF TypeOK
  <2>10. TypeOK'
    <3>1. rx' \in [pc : RxPcs, copied : BOOLEAN, have : BOOLEAN]
      BY <2>5 DEF RxPcs
    <3>2. play' \in [pc : PlayPcs, buf : Pushes, idle : BOOLEAN, have : BOOLEAN, holds : 0 .. HoldMax]
      BY <2>4, <2>6 DEF PlayPcs
    <3>3. clock' \in [anchor : BOOLEAN, scale : BOOLEAN, timeline : Pushes]
      BY <2>4, <2>7
    <3>4. ring' \in [0 .. RingSlots - 1 -> Pushes]
      BY <2>2, <2>4
    <3>5. ui' \in {"up", "failed"}
      BY <2>1
    <3> QED BY <2>2, <2>4, <2>8, <2>9, <3>1, <3>2, <3>3, <3>4, <3>5 DEF TypeOK
  <2>11. Phases'
    BY <2>1, <2>5 DEF Phases
  <2> QED BY <2>2, <2>3, <2>5, <2>6, <2>7, <2>10, <2>11 DEF PushUnderWay, PopUnderWay, ClockFollows, Unanchored
<1>3. CASE BeginShutdown
  <2>1. {s_running', s_ping_running', s_teardown_started', started'} \subseteq BOOLEAN
    BY <1>3 DEF BeginShutdown, TypeOK
  <2>2. TypeOK'
    BY <1>3, <2>1 DEF BeginShutdown, TypeOK, rxVars, ringVars
  <2> QED BY <1>3, <2>2, SameRing DEF BeginShutdown, rxVars, Phases, PushUnderWay, PopUnderWay, ClockFollows, Unanchored, ringVars
<1>4. CASE Shutdown
  <2>1. {s_running', s_ping_running', s_teardown_started', started'} \subseteq BOOLEAN
    BY <1>4 DEF Shutdown, TypeOK
  <2>2. TypeOK'
    BY <1>4, <2>1 DEF Shutdown, TypeOK, rxVars, ringVars
  <2> QED BY <1>4, <2>2, SameRing DEF Shutdown, rxVars, Phases, PushUnderWay, PopUnderWay, ClockFollows, Unanchored, ringVars
<1>5. CASE JoinPing
  BY <1>5, SameRing DEF JoinPing, rxVars, TypeOK, Phases, PushUnderWay, PopUnderWay, ClockFollows, Unanchored, ringVars
<1>6. CASE JoinReceive
  <2>1. rx' = [pc |-> "off", copied |-> FALSE, have |-> FALSE]
    BY <1>6 DEF JoinReceive, RxIdle
  <2>2. rx' \in [pc : RxPcs, copied : BOOLEAN, have : BOOLEAN]
    BY <2>1 DEF RxPcs
  <2> QED BY <1>6, <2>1, <2>2, SameRing
          DEF JoinReceive, TypeOK, Phases, PushUnderWay, PopUnderWay, ClockFollows, Unanchored, ringVars
<1>7. CASE ShutdownEnds
  <2>1. play' = [pc |-> "off", buf |-> 0, idle |-> FALSE, have |-> FALSE, holds |-> 0]
    BY <1>7 DEF ShutdownEnds, PlayIdle
  <2>2. clock' = [anchor |-> FALSE, scale |-> FALSE, timeline |-> 0]
    BY <1>7 DEF ShutdownEnds, ClockIdle
  <2>3. 0 \in Pushes /\ 0 \in 0 .. HoldMax
    BY AudioConstants DEF Pushes
  <2>4. play' \in [pc : PlayPcs, buf : Pushes, idle : BOOLEAN, have : BOOLEAN, holds : 0 .. HoldMax]
    BY <2>1, <2>3 DEF PlayPcs
  <2>5. clock' \in [anchor : BOOLEAN, scale : BOOLEAN, timeline : Pushes]
    BY <2>2, <2>3
  <2>6. ui = "silent" /\ rx.pc = "off"
    BY <1>7 DEF ShutdownEnds, Phases
  <2> QED BY <1>7, <2>1, <2>2, <2>4, <2>5, <2>6, SameRing
          DEF ShutdownEnds, rxVars, TypeOK, Phases, PushUnderWay, PopUnderWay, ClockFollows, Unanchored, ringVars
<1>8. CASE PingEnds
  BY <1>8, SameRing DEF PingEnds, uiVars, rxVars, TypeOK, Phases, PushUnderWay, PopUnderWay, ClockFollows, Unanchored, ringVars
<1> QED BY <1>1, <1>2, <1>3, <1>4, <1>5, <1>6, <1>7, <1>8 DEF UI

\* A gap is empty exactly where both ends meet.
LEMMA GapEmpty ==
  ASSUME NEW h \in Pushes, NEW t \in Pushes
  PROVE  (Gap(h, t) = 0 <=> h = t) /\ Gap(h, t) \in Nat
<1>1. Gap(h, t) = (IF t <= h THEN h - t ELSE h - t + 2 * RingSlots) /\ Gap(h, t) \in Pushes
  BY GapIs
<1> QED BY <1>1, AudioConstants DEF Pushes

LEMMA ReceiverStep ==
  ASSUME IInv, Receiver
  PROVE  IInv'
<1> USE DEF IInv
<1>0. head \in Pushes /\ tail \in Pushes /\ Queued = Gap(head, tail) /\ Gap(head, tail) \in Nat
  BY GapEmpty DEF TypeOK, Queued, Gap
<1>1. CASE PushCopy
  <2>1. /\ ~rx.copied /\ pcm > 0 /\ Gap(head, tail) < RingSlots /\ rx.pc \in {"flush", "append", "loop"}
        /\ ring' = [ring EXCEPT ![Slot(head)] = head] /\ rx' = [rx EXCEPT !.copied = TRUE]
        /\ UNCHANGED <<uiVars, ping, play, tail, started, pcm, head, clock>>
    BY <1>0, <1>1, AudioConstants DEF PushCopy, RxOnly, ring_full, Slot
  <2>2. Slot(head) \in 0 .. RingSlots - 1 /\ \A p \in Pushes : Slot(p) \in 0 .. RingSlots - 1
    BY <1>0, SlotIs
  <2>3. ring'[Slot(head)] = head /\ \A i \in 0 .. RingSlots - 1 : i # Slot(head) => ring'[i] = ring[i]
    BY <2>1, <2>2 DEF TypeOK
  <2>4. TypeOK'
    <3>1. ring' \in [0 .. RingSlots - 1 -> Pushes]
      BY <1>0, <2>1 DEF TypeOK
    <3>2. rx' \in [pc : RxPcs, copied : BOOLEAN, have : BOOLEAN]
      BY <2>1 DEF TypeOK
    <3> QED BY <2>1, <3>1, <3>2 DEF TypeOK, uiVars
  <2>5. rx'.copied /\ rx'.pc = rx.pc
    BY <2>1 DEF TypeOK
  <2>6. ASSUME NEW p \in Pushes, Gap(p, tail) < Gap(head, tail)
        PROVE  ring'[Slot(p)] = p
    <3>1. Slot(p) # Slot(head)
      BY <1>0, <2>1, <2>6, SlotFree
    <3>2. ring[Slot(p)] = p
      BY <2>6 DEF QueueHeld
    <3> QED BY <2>2, <2>3, <3>1, <3>2
  <2>7. QueueHeld'
    BY <2>1, <2>6 DEF QueueHeld
  <2> QED BY <2>1, <2>3, <2>4, <2>5, <2>7 DEF uiVars, Phases, PushUnderWay, PopUnderWay, ClockFollows, Unanchored
<1>2. CASE PushPublish
  <2>1. /\ rx.copied /\ rx' = [rx EXCEPT !.copied = FALSE] /\ head' = After(head) /\ pcm' = pcm - 1
        /\ UNCHANGED <<uiVars, ping, play, tail, started, ring, clock>>
    BY <1>2 DEF PushPublish, RxOnly, After
  <2>2. pcm > 0 /\ Gap(head, tail) < RingSlots /\ ring[Slot(head)] = head
    BY <2>1 DEF PushUnderWay
  <2>3. rx'.copied = FALSE /\ rx'.pc = rx.pc /\ rx' \in [pc : RxPcs, copied : BOOLEAN, have : BOOLEAN]
    BY <2>1 DEF TypeOK
  <2>4. head' \in Pushes
    BY <1>0, <2>1, AfterIs
  <2>5. pcm' \in 0 .. StageMax
    BY <2>1, <2>2, AudioConstants DEF TypeOK
  <2>6. TypeOK'
    BY <2>1, <2>3, <2>4, <2>5 DEF TypeOK, uiVars
  <2>7. /\ Gap(head', tail) = Gap(head, tail) + 1
        /\ \A p \in Pushes : Gap(p, tail) < Gap(head, tail) + 1 => p = head \/ Gap(p, tail) < Gap(head, tail)
    BY <1>0, <2>1, <2>2, GapGrows
  <2>8. QueueHeld'
    <3>1. Gap(head', tail) <= RingSlots
      BY <1>0, <2>2, <2>7, AudioConstants
    <3>2. \A p \in Pushes : Gap(p, tail) < Gap(head', tail) => ring[Slot(p)] = p
      BY <2>2, <2>7 DEF QueueHeld
    <3> QED BY <2>1, <3>1, <3>2 DEF QueueHeld
  <2>9. head' # tail
    <3>1. Gap(head', tail) # 0
      BY <1>0, <2>7
    <3> QED BY <1>0, <2>4, <3>1, GapEmpty
  <2> QED BY <2>1, <2>2, <2>3, <2>6, <2>8, <2>9 DEF uiVars, Phases, PushUnderWay, PopUnderWay, ClockFollows, Unanchored
<1>3. CASE Stage
  <2>1. rx' \in [pc : RxPcs, copied : BOOLEAN, have : BOOLEAN]
    BY <1>3 DEF Stage, RxGoto, RxPcs, TypeOK
  <2>2. pcm' \in 0 .. StageMax
    BY <1>3, AudioConstants DEF Stage, TypeOK
  <2>3. TypeOK'
    BY <1>3, <2>1, <2>2 DEF Stage, RxOnly, uiVars, TypeOK
  <2> QED BY <1>3, <2>3, SameRing
          DEF Stage, RxOnly, uiVars, ringVars, RxGoto, TypeOK, Phases, PushUnderWay, PopUnderWay, ClockFollows, Unanchored
<1>4. CASE StageGivesUp
  <2>1. rx' \in [pc : RxPcs, copied : BOOLEAN, have : BOOLEAN]
    BY <1>4 DEF StageGivesUp, RxGoto, RxPcs, RxIdle, TypeOK
  <2>2. TypeOK'
    BY <1>4, <2>1, AudioConstants DEF StageGivesUp, RxOnly, uiVars, ringVars, rxVars, TypeOK
  <2> QED BY <1>4, <2>2, SameRing
          DEF StageGivesUp, RxOnly, uiVars, ringVars, rxVars, RxGoto, RxIdle, TypeOK, Phases, PushUnderWay, PopUnderWay, ClockFollows, Unanchored
<1>5. CASE Flushed
  <2>1. rx' \in [pc : RxPcs, copied : BOOLEAN, have : BOOLEAN]
    BY <1>5 DEF Flushed, RxGoto, RxPcs, RxIdle, TypeOK
  <2>2. TypeOK'
    BY <1>5, <2>1, AudioConstants DEF Flushed, RxOnly, uiVars, ringVars, rxVars, TypeOK
  <2> QED BY <1>5, <2>2, SameRing
          DEF Flushed, RxOnly, uiVars, ringVars, rxVars, RxGoto, RxIdle, TypeOK, Phases, PushUnderWay, PopUnderWay, ClockFollows, Unanchored
<1>6. CASE TakeOverPings
  <2>1. rx' \in [pc : RxPcs, copied : BOOLEAN, have : BOOLEAN]
    BY <1>6 DEF TakeOverPings, RxGoto, RxPcs, RxIdle, TypeOK
  <2>2. TypeOK'
    BY <1>6, <2>1, AudioConstants DEF TakeOverPings, RxOnly, uiVars, ringVars, rxVars, TypeOK
  <2> QED BY <1>6, <2>2, SameRing
          DEF TakeOverPings, RxOnly, uiVars, ringVars, rxVars, RxGoto, RxIdle, TypeOK, Phases, PushUnderWay, PopUnderWay, ClockFollows, Unanchored
<1>7. CASE PingsTaken
  <2>1. rx' \in [pc : RxPcs, copied : BOOLEAN, have : BOOLEAN]
    BY <1>7 DEF PingsTaken, RxGoto, RxPcs, RxIdle, TypeOK
  <2>2. TypeOK'
    BY <1>7, <2>1, AudioConstants DEF PingsTaken, RxOnly, uiVars, ringVars, rxVars, TypeOK
  <2> QED BY <1>7, <2>2, SameRing
          DEF PingsTaken, RxOnly, uiVars, ringVars, rxVars, RxGoto, RxIdle, TypeOK, Phases, PushUnderWay, PopUnderWay, ClockFollows, Unanchored
<1>8. CASE ReceiveTurn
  <2>1. /\ rx.pc = "loop" /\ ~rx.copied /\ rx' = [rx EXCEPT !.pc = "append", !.have = TRUE]
        /\ UNCHANGED <<uiVars, ping, play, tail, started, pcm, ring, head>>
    BY <1>8 DEF ReceiveTurn, RxOnly
  <2>2. /\ rx' \in [pc : RxPcs, copied : BOOLEAN, have : BOOLEAN] /\ rx'.pc = "append" /\ ~rx'.copied
    BY <2>1 DEF TypeOK, RxPcs
  <2>3. 0 \in Pushes
    BY AudioConstants DEF Pushes
  <2>4. /\ clock'.anchor /\ clock' \in [anchor : BOOLEAN, scale : BOOLEAN, timeline : Pushes]
        /\ clock'.timeline = IF clock.anchor THEN clock.timeline ELSE 0
    <3>1. CASE ~clock.anchor
      <4>1. clock' = [clock EXCEPT !.anchor = TRUE, !.timeline = 0]
        BY <1>8, <3>1 DEF ReceiveTurn
      <4> QED BY <2>3, <3>1, <4>1 DEF TypeOK
    <3>2. CASE clock.anchor
      <4>1. clock' = clock \/ clock' = [clock EXCEPT !.scale = TRUE]
        BY <1>8, <3>2 DEF ReceiveTurn
      <4> QED BY <3>2, <4>1 DEF TypeOK
    <3> QED BY <3>1, <3>2 DEF TypeOK
  <2>5. ~clock.anchor => tail = 0 /\ play.pc \notin {"skip", "out"}
    BY <2>1 DEF Unanchored
  <2>6. TypeOK'
    BY <2>1, <2>2, <2>4 DEF TypeOK, uiVars
  <2>7. QueueHeld' /\ Phases' /\ PopUnderWay'
    BY <2>1, <2>2, SameRing DEF ringVars, uiVars, Phases, PopUnderWay
  <2>8. ClockFollows'
    BY <2>1, <2>4, <2>5 DEF ClockFollows
  <2> QED BY <2>2, <2>4, <2>6, <2>7, <2>8 DEF PushUnderWay, Unanchored
<1>9. CASE TurnGoesOn
  <2>1. rx' \in [pc : RxPcs, copied : BOOLEAN, have : BOOLEAN]
    BY <1>9 DEF TurnGoesOn, RxGoto, RxPcs, RxIdle, TypeOK
  <2>2. TypeOK'
    BY <1>9, <2>1, AudioConstants DEF TurnGoesOn, RxOnly, uiVars, ringVars, rxVars, TypeOK
  <2> QED BY <1>9, <2>2, SameRing
          DEF TurnGoesOn, RxOnly, uiVars, ringVars, rxVars, RxGoto, RxIdle, TypeOK, Phases, PushUnderWay, PopUnderWay, ClockFollows, Unanchored
<1>10. CASE TurnEnds
  <2>1. rx' \in [pc : RxPcs, copied : BOOLEAN, have : BOOLEAN]
    BY <1>10 DEF TurnEnds, RxGoto, RxPcs, RxIdle, TypeOK
  <2>2. TypeOK'
    BY <1>10, <2>1, AudioConstants DEF TurnEnds, RxOnly, uiVars, ringVars, rxVars, TypeOK
  <2> QED BY <1>10, <2>2, SameRing
          DEF TurnEnds, RxOnly, uiVars, ringVars, rxVars, RxGoto, RxIdle, TypeOK, Phases, PushUnderWay, PopUnderWay, ClockFollows, Unanchored
<1>11. CASE ReceiveEnds
  <2>1. rx' \in [pc : RxPcs, copied : BOOLEAN, have : BOOLEAN]
    BY <1>11 DEF ReceiveEnds, RxGoto, RxPcs, RxIdle, TypeOK
  <2>2. TypeOK'
    BY <1>11, <2>1, AudioConstants DEF ReceiveEnds, RxOnly, uiVars, ringVars, rxVars, TypeOK
  <2> QED BY <1>11, <2>2, SameRing
          DEF ReceiveEnds, RxOnly, uiVars, ringVars, rxVars, RxGoto, RxIdle, TypeOK, Phases, PushUnderWay, PopUnderWay, ClockFollows, Unanchored
<1> QED BY <1>1, <1>2, <1>3, <1>4, <1>5, <1>6, <1>7, <1>8, <1>9, <1>10, <1>11 DEF Receiver

\* The two halves of ring_pop_pcm, wherever they stand.
LEMMA PopCopyStep ==
  ASSUME IInv, NEW from, NEW to \in {"discard", "take"}, from \notin {"off", "ended", "skip", "out"}, PopCopy(from, to)
  PROVE  IInv'
<1> USE DEF IInv
<1>0. head \in Pushes /\ tail \in Pushes
  BY DEF TypeOK
<1>1. /\ play.pc = from /\ head # tail /\ play' = [play EXCEPT !.pc = to, !.buf = ring[Slot(tail)]]
      /\ UNCHANGED <<uiVars, ping, rxVars, ringVars, clock, started>>
  BY DEF PopCopy, PlayOnly, ring_empty, Slot, ringVars
<1>2. ring[Slot(tail)] = tail
  <2>1. Gap(head, tail) # 0 /\ Gap(head, tail) \in Nat /\ Gap(tail, tail) = 0
    BY <1>0, <1>1, GapEmpty
  <2>2. Gap(tail, tail) < Gap(head, tail)
    BY <2>1
  <2> QED BY <1>0, <2>2 DEF QueueHeld
<1>3. play'.pc = to /\ play'.buf = tail /\ play' \in [pc : PlayPcs, buf : Pushes, idle : BOOLEAN, have : BOOLEAN, holds : 0 .. HoldMax]
  BY <1>0, <1>1, <1>2 DEF TypeOK, PlayPcs
<1>4. TypeOK'
  BY <1>1, <1>3 DEF TypeOK, uiVars, rxVars, ringVars
<1>5. QueueHeld'
  BY <1>1, SameRing
<1> QED BY <1>1, <1>3, <1>4, <1>5 DEF uiVars, rxVars, ringVars, Phases, PushUnderWay, PopUnderWay, ClockFollows, Unanchored

LEMMA PopTakeStep ==
  ASSUME IInv, NEW from \in {"discard", "take"}, NEW to \in {"skip", "out"}, PopTake(from, to)
  PROVE  IInv'
<1> USE DEF IInv
<1>0. head \in Pushes /\ tail \in Pushes
  BY DEF TypeOK
<1>1. /\ play.pc = from /\ play' = [play EXCEPT !.pc = to] /\ tail' = After(tail)
      /\ UNCHANGED <<uiVars, ping, rxVars, ring, head, clock, started>>
  BY DEF PopTake, PlayOnly, PlayGoto, After
<1>2. head # tail /\ play.pc \in {"discard", "take"}
  BY <1>1 DEF PopUnderWay
<1>3. tail' \in Pushes /\ Before(tail') = tail
  BY <1>0, <1>1, AfterIs, ThereAndBack
<1>4. play'.pc = to /\ play' \in [pc : PlayPcs, buf : Pushes, idle : BOOLEAN, have : BOOLEAN, holds : 0 .. HoldMax]
  BY <1>1 DEF TypeOK, PlayPcs
<1>5. TypeOK'
  BY <1>1, <1>3, <1>4 DEF TypeOK, uiVars, rxVars
<1>6. /\ Gap(head, tail') = Gap(head, tail) - 1 /\ Gap(head, tail) \in Nat
      /\ \A p \in Pushes : Gap(p, tail') < Gap(head, tail) - 1 => Gap(p, tail) < Gap(head, tail)
  BY <1>0, <1>1, <1>2, GapShrinks, GapEmpty
<1>7. QueueHeld'
  BY <1>1, <1>6, AudioConstants DEF QueueHeld
<1>8. clock.timeline = tail
  BY <1>2 DEF ClockFollows
<1>9. PushUnderWay'
  BY <1>1, <1>6, AudioConstants DEF PushUnderWay, rxVars
<1>10. Unanchored'
  <2>1. clock.anchor
    <3>1. play.pc # "off"
      BY <1>2
    <3> QED BY <1>2, <3>1 DEF Unanchored
  <2> QED BY <1>1, <2>1 DEF Unanchored
<1> QED BY <1>1, <1>3, <1>4, <1>5, <1>7, <1>8, <1>9, <1>10 DEF uiVars, rxVars, Phases, PopUnderWay, ClockFollows

\* audio_advance_consumed_chunk, after the take.
LEMMA AdvanceStep ==
  ASSUME IInv, play.pc \in {"skip", "out"}, clock' = Advanced,
         UNCHANGED <<uiVars, ping, rxVars, ringVars, started>>,
         play'.pc \in {"pop", "top"}, play' \in [pc : PlayPcs, buf : Pushes, idle : BOOLEAN, have : BOOLEAN, holds : 0 .. HoldMax]
  PROVE  IInv'
<1> USE DEF IInv
<1>1. tail \in Pushes /\ clock.timeline = Before(tail) /\ clock.anchor
  BY DEF TypeOK, ClockFollows, Unanchored
<1>2. After(clock.timeline) = tail
  BY <1>1, ThereAndBack
<1>3. clock'.timeline = tail /\ clock'.anchor = clock.anchor /\ clock' \in [anchor : BOOLEAN, scale : BOOLEAN, timeline : Pushes]
  BY <1>1, <1>2 DEF Advanced, After, TypeOK
<1>4. TypeOK'
  BY <1>3 DEF TypeOK, uiVars, rxVars, ringVars
<1>5. QueueHeld'
  BY SameRing
<1> QED BY <1>1, <1>3, <1>4, <1>5 DEF uiVars, rxVars, ringVars, Phases, PushUnderWay, PopUnderWay, ClockFollows, Unanchored

LEMMA PlayerStep ==
  ASSUME IInv, Player
  PROVE  IInv'
<1> USE DEF IInv
<1>1. CASE Prebuffered
  <2>1. play' \in [pc : PlayPcs, buf : Pushes, idle : BOOLEAN, have : BOOLEAN, holds : 0 .. HoldMax]
    BY <1>1, AudioConstants DEF Prebuffered, PlayOnly, PlayGoto, PlayPcs, TypeOK
  <2>2. TypeOK'
    BY <1>1, <2>1 DEF Prebuffered, PlayOnly, uiVars, ringVars, rxVars, TypeOK
  <2> QED BY <1>1, <2>2, SameRing
          DEF Prebuffered, PlayOnly, uiVars, ringVars, rxVars, PlayGoto, TypeOK, Phases, PushUnderWay, PopUnderWay, ClockFollows, Unanchored
<1>2. CASE PlayTop
  <2>1. PICK idle \in BOOLEAN, correct \in BOOLEAN :
          play' = [play EXCEPT !.idle = idle, !.pc = IF correct /\ Queued > Target + 1 THEN "trim" ELSE "pop"]
    BY <1>2 DEF PlayTop
  <2>2. PICK at \in {"trim", "pop"} : play' = [play EXCEPT !.idle = idle, !.pc = at]
    BY <2>1
  <2>3. play' \in [pc : PlayPcs, buf : Pushes, idle : BOOLEAN, have : BOOLEAN, holds : 0 .. HoldMax] /\ play'.pc = at
    BY <2>2 DEF PlayPcs, TypeOK
  <2>4. play.pc = "top" /\ UNCHANGED <<uiVars, ping, rxVars, ringVars, clock, started>>
    BY <1>2 DEF PlayTop, PlayOnly, ringVars
  <2>5. TypeOK'
    BY <2>3, <2>4 DEF uiVars, ringVars, rxVars, TypeOK
  <2> QED BY <2>3, <2>4, <2>5, SameRing
          DEF uiVars, ringVars, rxVars, Phases, PushUnderWay, PopUnderWay, ClockFollows, Unanchored
<1>3. CASE DriftHold
  BY <1>3, SameRing DEF DriftHold, PlayOnly, uiVars, ringVars, rxVars, TypeOK, Phases, PushUnderWay, PopUnderWay,
     ClockFollows, Unanchored
<1>4. CASE TrimCopy
  BY <1>4, PopCopyStep DEF TrimCopy
<1>5. CASE TrimTake
  BY <1>5, PopTakeStep DEF TrimTake
<1>6. CASE TrimAdvance
  <2>1. play'.pc = "pop" /\ play' \in [pc : PlayPcs, buf : Pushes, idle : BOOLEAN, have : BOOLEAN, holds : 0 .. HoldMax]
    BY <1>6 DEF TrimAdvance, PlayGoto, PlayPcs, TypeOK
  <2> QED BY <1>6, <2>1, AdvanceStep DEF TrimAdvance, PlayOnly, ringVars
<1>7. CASE Pop
  BY <1>7, PopCopyStep DEF Pop
<1>8. CASE PopEmpty
  <2>1. play' \in [pc : PlayPcs, buf : Pushes, idle : BOOLEAN, have : BOOLEAN, holds : 0 .. HoldMax]
    BY <1>8, AudioConstants DEF PopEmpty, PlayOnly, PlayGoto, PlayPcs, TypeOK
  <2>2. TypeOK'
    BY <1>8, <2>1 DEF PopEmpty, PlayOnly, uiVars, ringVars, rxVars, TypeOK
  <2> QED BY <1>8, <2>2, SameRing
          DEF PopEmpty, PlayOnly, uiVars, ringVars, rxVars, PlayGoto, TypeOK, Phases, PushUnderWay, PopUnderWay, ClockFollows, Unanchored
<1>9. CASE Take
  BY <1>9, PopTakeStep DEF Take
<1>10. CASE Output
  <2>1. 0 \in Pushes /\ 0 \in 0 .. HoldMax
    BY AudioConstants DEF Pushes
  <2>2. play'.pc = "top" /\ play' \in [pc : PlayPcs, buf : Pushes, idle : BOOLEAN, have : BOOLEAN, holds : 0 .. HoldMax]
    BY <1>10, <2>1 DEF Output, PlayPcs, TypeOK
  <2> QED BY <1>10, <2>2, AdvanceStep DEF Output, PlayOnly, ringVars
<1>11. CASE OutputNothing
  <2>1. play.pc \in {"again", "pop"} /\ UNCHANGED <<uiVars, ping, rxVars, ringVars, clock, started>>
    BY <1>11 DEF OutputNothing, PlayOnly, ringVars
  <2>2. PICK h : play' = [play EXCEPT !.pc = "top", !.holds = h]
                 /\ h = IF play.idle THEN 0 ELSE IF play.holds < HoldMax THEN play.holds + 1 ELSE play.holds
    BY <1>11 DEF OutputNothing
  <2>3. h \in 0 .. HoldMax
    <3>1. play.holds \in 0 .. HoldMax
      BY DEF TypeOK
    <3>2. CASE play.idle
      BY <2>2, <3>2, AudioConstants
    <3>3. CASE ~play.idle
      <4>1. h = IF play.holds < HoldMax THEN play.holds + 1 ELSE play.holds
        BY <2>2, <3>3
      <4> QED BY <3>1, <4>1, AudioConstants
    <3> QED BY <3>2, <3>3
  <2>4. play'.pc = "top" /\ play' \in [pc : PlayPcs, buf : Pushes, idle : BOOLEAN, have : BOOLEAN, holds : 0 .. HoldMax]
    BY <2>2, <2>3 DEF PlayPcs, TypeOK
  <2>5. TypeOK'
    BY <2>1, <2>4 DEF uiVars, ringVars, rxVars, TypeOK
  <2> QED BY <2>1, <2>4, <2>5, SameRing
          DEF uiVars, ringVars, rxVars, Phases, PushUnderWay, PopUnderWay, ClockFollows, Unanchored
<1>12. CASE PlayEnds
  <2>1. play' \in [pc : PlayPcs, buf : Pushes, idle : BOOLEAN, have : BOOLEAN, holds : 0 .. HoldMax]
    BY <1>12, AudioConstants DEF PlayEnds, PlayOnly, PlayGoto, PlayPcs, TypeOK
  <2>2. TypeOK'
    BY <1>12, <2>1 DEF PlayEnds, PlayOnly, uiVars, ringVars, rxVars, TypeOK
  <2> QED BY <1>12, <2>2, SameRing
          DEF PlayEnds, PlayOnly, uiVars, ringVars, rxVars, PlayGoto, TypeOK, Phases, PushUnderWay, PopUnderWay, ClockFollows, Unanchored
<1> QED BY <1>1, <1>2, <1>3, <1>4, <1>5, <1>6, <1>7, <1>8, <1>9, <1>10, <1>11, <1>12 DEF Player

LEMMA AudioStep == IInv /\ [Next]_vars => IInv'
<1> SUFFICES ASSUME IInv, [Next]_vars PROVE IInv'
  OBVIOUS
<1>1. CASE UNCHANGED vars
  BY <1>1, SameRing DEF vars, uiVars, rxVars, ringVars, IInv, TypeOK, Phases, PushUnderWay, PopUnderWay, ClockFollows, Unanchored
<1>2. CASE Next
  BY <1>2, UIStep, ReceiverStep, PlayerStep DEF Next
<1> QED BY <1>1, <1>2

(***************************************************************************)
(* The inductive invariant of the audio threads, for a ring of any size.   *)
(***************************************************************************)
THEOREM AudioInvariant == Spec => []IInv
BY AudioInitInv, AudioStep, PTL DEF Spec

(***************************************************************************)
(* Every field of the threads, the ring and the clock stays in its range   *)
(* (audio_thread.c).                                                       *)
(***************************************************************************)
THEOREM AudioTypes == Spec => []TypeOK
<1>1. IInv => TypeOK
  BY DEF IInv
<1> QED BY <1>1, AudioInvariant, PTL

(***************************************************************************)
(* ring_pop_pcm hands out the oldest chunk ring_push_pcm published, whole, *)
(* and s_audio_timeline_samples counts the chunks taken, however the two   *)
(* threads and the start and end of streams interleave.                    *)
(***************************************************************************)
THEOREM PlaysIntact == Spec => []PlayedIntact
<1>1. IInv => PlayedIntact
  BY DEF IInv, PopUnderWay, ClockFollows, PlayedIntact, Before
<1> QED BY <1>1, AudioInvariant, PTL

-----------------------------------------------------------------------------
(***************************************************************************)
(* The video path: functions of the reassembler.  Most of them only move   *)
(* flags; Same says so.                                                    *)
(***************************************************************************)

\* The fields of the reassembler's record.
AsmFields == {"assembly", "current_frame_id", "last_seen_frame_id", "expected_seq", "reassembling",
  "had_gaps", "overflow", "saw_first_sof", "consec_gap_frames", "waiting_rfi", "inval_start",
  "inval_end", "rfi_drops", "waiting_idr", "idr_recovery", "refs_corrupted", "idr_fully_decoded",
  "frame_is_corrupt", "fec_clean", "last_good_frame", "saw_first_idr", "hw_reset_needed",
  "need_idr", "out", "verdict", "last_in"}

IsAsm(r) == r = [x \in AsmFields |-> r[x]]
Verdicts == {"none", "refused", "corrupt", "paused", "failed", "accepted"}

\* A change of flags: what was delivered and the frame collected stay.
Kept(r, s) ==
  /\ IsAsm(s) /\ s.out = r.out /\ s.current_frame_id = r.current_frame_id
  /\ r.verdict \in Verdicts => s.verdict \in Verdicts

\* ... and so does what is collected of it.
Same(r, s) ==
  /\ Kept(r, s)
  /\ s.assembly = r.assembly /\ s.reassembling = r.reassembling /\ s.overflow = r.overflow

\* Two such changes are one.
LEMMA SameSame == ASSUME NEW r, NEW s, NEW t, Same(r, s), Same(s, t) PROVE Same(r, t)
BY DEF Same, Kept

\* The waits for a recovery frame or an IDR only move flags.
LEMMA ClearRfiWaitSame == ASSUME NEW r, IsAsm(r) PROVE Same(r, ClearRfiWait(r))
BY DEF ClearRfiWait, IsAsm, Same, Kept, AsmFields

LEMMA StartIdrWaitSame == ASSUME NEW r, IsAsm(r) PROVE Same(r, StartIdrWait(r))
BY DEF StartIdrWait, ClearRfiWait, IsAsm, Same, Kept, AsmFields

\* rtp_mark_waiting_for_ref_inval widens or replaces the wait, and nothing else.
LEMMA MarkSame ==
  ASSUME NEW r, NEW start, NEW end, IsAsm(r)
  PROVE  Same(r, MarkWaitingForRefInval(r, start, end))
<1> DEFINE from == IF end < start THEN end ELSE start
           lo == IF r.waiting_rfi THEN Least(from, r.inval_start) ELSE from
           hi == IF r.waiting_rfi THEN Greatest(end, r.inval_end) ELSE end
<1>1. MarkWaitingForRefInval(r, start, end) =
        IF (SpanExceeds(from, end) \/ SpanExceeds(lo, hi)) /\ r.last_good_frame # 0
        THEN StartIdrWait(r)
        ELSE [r EXCEPT !.waiting_rfi = TRUE, !.inval_start = lo, !.inval_end = hi,
                       !.rfi_drops = IF r.waiting_rfi THEN @ ELSE 0]
  BY DEF MarkWaitingForRefInval
<1> HIDE DEF lo, hi, from
<1>2. Same(r, [r EXCEPT !.waiting_rfi = TRUE, !.inval_start = lo, !.inval_end = hi,
                        !.rfi_drops = IF r.waiting_rfi THEN @ ELSE 0])
  BY DEF IsAsm, Same, Kept, AsmFields
<1> QED BY <1>1, <1>2, StartIdrWaitSame

\* rtp_reassembly_note_frame_loss leaves what is being assembled alone.
LEMMA NoteFrameLossSame ==
  ASSUME NEW r, NEW start, NEW end, IsAsm(r)
  PROVE  Same(r, NoteFrameLoss(r, start, end))
<1>1. Same(r, r)
  BY DEF Same, Kept
<1> QED BY <1>1, MarkSame, StartIdrWaitSame DEF NoteFrameLoss

\* Giving the references up leaves what is being assembled alone.
LEMMA LoseReferencesSame == ASSUME NEW r, IsAsm(r) PROVE Same(r, LoseReferences(r))
BY DEF LoseReferences, IsAsm, Same, Kept, AsmFields

\* A frame the firmware accepts moves the decode flags and last_good_frame.
LEMMA AcceptSame == ASSUME NEW r, NEW f, IsAsm(r) PROVE Same(r, Accept(r, f))
<1> DEFINE d == [r EXCEPT !.last_in = f.id, !.verdict = "accepted",
                     !.need_idr = FALSE,
                     !.saw_first_idr = @ \/ f.type = "idr",
                     !.idr_fully_decoded = @ \/ f.type = "idr"]
<1>1. Same(r, d)
  BY DEF IsAsm, Same, Kept, AsmFields, Verdicts
<1>2. Accept(r, f) = IF d.idr_fully_decoded /\ ~ d.frame_is_corrupt /\ d.last_good_frame < f.id
                     THEN [d EXCEPT !.last_good_frame = f.id] ELSE d
  BY DEF Accept
<1> HIDE DEF d
<1>3. Same(d, [d EXCEPT !.last_good_frame = f.id])
  BY <1>1 DEF IsAsm, Same, Kept, AsmFields
<1> QED BY <1>1, <1>2, <1>3, SameSame

\* So does every other answer of the firmware.
LEMMA SubmitToFirmwareSame ==
  ASSUME NEW r, NEW f, IsAsm(r), NEW s \in SubmitToFirmware(r, f)
  PROVE  Same(r, s)
<1>1. Same(r, r) /\ Same(r, [r EXCEPT !.hw_reset_needed = TRUE, !.verdict = "failed"])
  BY DEF IsAsm, Same, Kept, AsmFields, Verdicts
<1>2. Same(r, [LoseReferences(r) EXCEPT !.need_idr = TRUE])
  BY LoseReferencesSame DEF IsAsm, Same, Kept, AsmFields
<1> QED BY <1>1, <1>2, AcceptSame DEF SubmitToFirmware

\* The frame callback never touches the assembly buffer it is given.
LEMMA FrameCallbackSame ==
  ASSUME NEW r, NEW f, IsAsm(r), NEW s \in FrameCallback(r, f)
  PROVE  Same(r, s)
<1> DEFINE fresh == IF r.refs_corrupted
               THEN [r EXCEPT !.refs_corrupted = FALSE, !.saw_first_idr = FALSE,
                              !.idr_fully_decoded = FALSE]
               ELSE r
           reopened == [fresh EXCEPT !.hw_reset_needed = FALSE, !.need_idr = TRUE,
                                !.refs_corrupted = FALSE,
                                !.idr_fully_decoded = FALSE]
           paused == [r EXCEPT !.hw_reset_needed = TRUE, !.verdict = "paused"]
           corrupt == [LoseReferences(r) EXCEPT !.verdict = "corrupt"]
           failed == [fresh EXCEPT !.verdict = "failed"]
<1>1. Same(r, r) /\ Same(r, paused)
  BY DEF IsAsm, Same, Kept, AsmFields, Verdicts
<1>2. Same(r, corrupt)
  BY LoseReferencesSame DEF IsAsm, Same, Kept, AsmFields, Verdicts
<1>3. Same(r, fresh)
  BY <1>1 DEF IsAsm, Same, Kept, AsmFields, Verdicts
<1>4. s \in {corrupt, paused, r, failed} \cup SubmitToFirmware(reopened, f)
            \cup SubmitToFirmware(fresh, f)
  BY DEF FrameCallback
<1> HIDE DEF fresh
<1>5. Same(fresh, reopened) /\ Same(fresh, failed)
  BY <1>3 DEF IsAsm, Same, Kept, AsmFields, Verdicts
<1> HIDE DEF reopened, paused, corrupt, failed
<1>6. Same(r, reopened) /\ Same(r, failed)
  BY <1>3, <1>5, SameSame
<1>7. ASSUME s \in SubmitToFirmware(reopened, f) \cup SubmitToFirmware(fresh, f)
      PROVE  Same(r, s)
  <2>1. Same(reopened, s) \/ Same(fresh, s)
    BY <1>3, <1>6, <1>7, SubmitToFirmwareSame DEF Same, Kept
  <2> QED BY <2>1, <1>3, <1>6, SameSame
<1> QED BY <1>1, <1>2, <1>4, <1>6, <1>7

\* After the switch to the packet's frame: what was collected of it, or nothing.
Arrived(r, p, a) ==
  /\ IsAsm(a) /\ a.out = r.out
  /\ r.verdict \in Verdicts => a.verdict \in Verdicts
  /\ a.current_frame_id = p.frame.id
  /\ IF p.frame.id = r.current_frame_id
     THEN Same(r, a)
     ELSE a.assembly = <<>> /\ a.reassembling = FALSE /\ a.overflow = FALSE

\* The switch of frames in rtp_reassembly_process_packet: a packet of the frame
\* collected leaves the buffer alone, one of another frame empties it.
LEMMA ArriveKeeps ==
  ASSUME NEW r, NEW p, IsAsm(r)
  PROVE  Arrived(r, p, ArrivePacket(r, p))
<1> DEFINE id == p.frame.id
           mark == MarkWaitingForRefInval(r, r.last_seen_frame_id + 1, id)
           jumped == IF /\ FrameDelta(r, id) > MassiveJump
                        /\ SeqGapAtBoundary(r, p) /\ ~ Waiting(r)
                     THEN mark ELSE r
           seen == [jumped EXCEPT !.last_seen_frame_id = Greatest(id, @)]
           fresh == [seen EXCEPT !.assembly = <<>>, !.current_frame_id = id,
                                 !.reassembling = FALSE, !.had_gaps = FALSE,
                                 !.overflow = FALSE, !.saw_first_sof = FALSE,
                                 !.expected_seq = Seq16(p)]
           switched == IF id = r.current_frame_id THEN seen ELSE fresh
           a == ArrivePacket(r, p)
<1>1. a = [switched EXCEPT !.had_gaps = @ \/ Seq16(p) # switched.expected_seq,
                           !.expected_seq = SeqAdd(Seq16(p), 1)]
  BY DEF ArrivePacket
<1> HIDE DEF a
<1>2. Same(r, r) /\ Same(r, mark)
  BY MarkSame DEF Same, Kept
<1>3. Same(r, jumped)
  BY <1>2
<1> HIDE DEF jumped
<1>4. Same(jumped, seen)
  BY <1>3 DEF IsAsm, Same, Kept, AsmFields
<1>5. Same(r, seen)
  BY <1>3, <1>4, SameSame
<1> HIDE DEF seen
<1>6. /\ Kept([r EXCEPT !.current_frame_id = id], fresh)
      /\ fresh.current_frame_id = id
      /\ fresh.assembly = <<>> /\ fresh.reassembling = FALSE /\ fresh.overflow = FALSE
      /\ fresh.out = r.out
  BY <1>5 DEF IsAsm, Same, Kept, AsmFields
<1> HIDE DEF fresh
<1>7. IsAsm(switched)
  BY <1>5, <1>6 DEF Same, Kept
<1> SUFFICES Arrived(r, p, a)
  BY DEF a
<1>8. CASE id = r.current_frame_id
  BY <1>1, <1>5, <1>7, <1>8 DEF Arrived, IsAsm, Same, Kept, AsmFields
<1>9. CASE id # r.current_frame_id
  BY <1>1, <1>6, <1>7, <1>9 DEF Arrived, IsAsm, Kept, AsmFields
<1> QED BY <1>8, <1>9

\* A jump of the frame number starts a wait, or nothing.
LEMMA HandleFrameGapSame ==
  ASSUME NEW r, NEW p, NEW delta, NEW seqGap, NEW prev, IsAsm(r)
  PROVE  Same(r, HandleFrameGap(r, p, delta, seqGap, prev))
<1>1. Same(r, r)
  BY DEF Same, Kept
<1> QED BY <1>1, MarkSame DEF HandleFrameGap

\* The frame collected is not wanted: its buffer is emptied.
Discarded(r, s) == Kept(r, s) /\ s.reassembling = FALSE /\ s.assembly = <<>> /\ s.overflow = r.overflow

\* A discard on top of a change of flags.
LEMMA DiscardEmpties ==
  ASSUME NEW r, NEW s, Same(r, s)
  PROVE  Discarded(r, Discard(s))
BY DEF Discard, Discarded, IsAsm, Same, Kept, AsmFields

\* While a recovery frame is awaited, a frame is kept whole or discarded whole.
LEMMA AwaitSameOrEmpty ==
  ASSUME NEW r, NEW p, IsAsm(r), NEW s \in AwaitRecoveryFrame(r, p)
  PROVE  Same(r, s) \/ Discarded(r, s)
<1> DEFINE d == [r EXCEPT !.rfi_drops = Least(@ + 1, RfiMaxDrops),
                          !.inval_end = Greatest(p.frame.id, @)]
           c == ClearRfiWait(r)
           repaired == [c EXCEPT !.refs_corrupted = FALSE, !.idr_fully_decoded = TRUE]
<1>1. s \in {repaired, Discard(d), Discard(StartIdrWait(d))}
  BY DEF AwaitRecoveryFrame
<1>2. Same(r, d)
  BY DEF IsAsm, Same, Kept, AsmFields
<1>3. Same(r, c)
  BY ClearRfiWaitSame
<1> HIDE DEF c, d
<1>4. Same(c, repaired)
  BY <1>3 DEF IsAsm, Same, Kept, AsmFields
<1> HIDE DEF repaired
<1>5. Same(r, StartIdrWait(d))
  BY <1>2, StartIdrWaitSame, SameSame DEF Same, Kept
<1> QED BY <1>1, <1>2, <1>3, <1>4, <1>5, SameSame, DiscardEmpties

\* At the first packet of a frame the buffer is empty, whatever becomes of the frame.
LEMMA StartFrameEmpty ==
  ASSUME NEW r, NEW p, NEW delta, NEW seqGap, NEW prev, IsAsm(r),
         NEW s \in StartFrame(r, p, delta, seqGap, prev)
  PROVE  Kept(r, s) /\ s.assembly = <<>> /\ s.overflow = FALSE
<1> DEFINE begun == [r EXCEPT !.reassembling = TRUE, !.assembly = <<>>,
                         !.saw_first_sof = TRUE, !.overflow = FALSE,
                         !.idr_recovery = FALSE]
           gap == HandleFrameGap(begun, p, delta, seqGap, prev)
           w == IF gap.refs_corrupted /\ ~ gap.waiting_idr THEN StartIdrWait(gap) ELSE gap
           synced == [w EXCEPT !.waiting_idr = FALSE, !.idr_recovery = TRUE]
<1>1. s \in {synced, Discard(w), w} \cup AwaitRecoveryFrame(w, p)
  BY DEF StartFrame
<1>2. Kept(r, begun) /\ begun.assembly = <<>> /\ begun.overflow = FALSE
  BY DEF IsAsm, Kept, AsmFields
<1> HIDE DEF begun
<1>3. Same(begun, gap)
  BY <1>2, HandleFrameGapSame DEF Kept
<1> HIDE DEF gap
<1>4. Same(gap, gap) /\ Same(gap, StartIdrWait(gap))
  BY <1>3, StartIdrWaitSame DEF Same, Kept
<1>5. Same(begun, w)
  BY <1>3, <1>4, SameSame
<1> HIDE DEF w
<1>6. Same(w, w) /\ Same(w, synced)
  BY <1>5 DEF IsAsm, Same, Kept, AsmFields
<1> HIDE DEF synced
<1>7. Same(w, s) \/ Discarded(w, s)
  BY <1>1, <1>5, <1>6, AwaitSameOrEmpty, DiscardEmpties DEF Same, Kept
<1> QED BY <1>2, <1>5, <1>7 DEF Same, Discarded, Kept

\* A frame dropped for its gaps leaves a wait behind.
LEMMA DropGappedSame ==
  ASSUME NEW r, NEW f, IsAsm(r)
  PROVE  Same(r, DropGappedFrame(r, f))
<1> DEFINE g == [r EXCEPT !.consec_gap_frames = Least(@ + 1, GapFrames),
                          !.frame_is_corrupt = FALSE]
           w == MarkWaitingForRefInval(g, g.last_good_frame + 1, f.id)
           lost == [g EXCEPT !.idr_fully_decoded = FALSE]
           condemned == [w EXCEPT !.refs_corrupted = TRUE, !.idr_fully_decoded = FALSE]
<1>1. DropGappedFrame(r, f) \in {lost, StartIdrWait(g), condemned, w}
  BY DEF DropGappedFrame
<1>2. Same(r, g)
  BY DEF IsAsm, Same, Kept, AsmFields
<1> HIDE DEF g
<1>3. Same(g, w) /\ Same(g, StartIdrWait(g))
  BY <1>2, MarkSame, StartIdrWaitSame DEF Same, Kept
<1> HIDE DEF w
<1>4. Same(w, condemned) /\ Same(g, lost)
  BY <1>2, <1>3 DEF IsAsm, Same, Kept, AsmFields
<1> HIDE DEF condemned, lost
<1> QED BY <1>1, <1>2, <1>3, <1>4, SameSame

\* What is delivered is what was assembled, and never after an overflow.
LEMMA CompleteDelivers ==
  ASSUME NEW r, NEW f, IsAsm(r), NEW s \in CompleteFrame(r, f)
  PROVE  /\ IsAsm(s) /\ s.reassembling = FALSE /\ s.assembly = <<>>
         /\ s.current_frame_id = r.current_frame_id
         /\ r.verdict \in Verdicts => s.verdict \in Verdicts
         /\ \/ s.out = r.out
            \/ r.overflow # TRUE /\ s.out = r.assembly
<1> DEFINE done(x) == [x EXCEPT !.reassembling = FALSE, !.assembly = <<>>,
                           !.overflow = FALSE, !.fec_clean = FALSE]
           clean == [r EXCEPT !.consec_gap_frames = 0, !.idr_recovery = FALSE,
                         !.frame_is_corrupt = @ /\ ~ r.had_gaps,
                         !.fec_clean = FALSE, !.out = r.assembly,
                         !.verdict = "refused"]
           over == [done(r) EXCEPT !.refs_corrupted = TRUE, !.frame_is_corrupt = TRUE,
                           !.idr_fully_decoded = FALSE, !.consec_gap_frames = 0]
           gapped == [done(DropGappedFrame(r, f)) EXCEPT !.idr_recovery = FALSE]
<1>1. CompleteFrame(r, f) = IF r.overflow THEN {over}
                            ELSE IF r.had_gaps /\ ~ r.fec_clean THEN {gapped}
                            ELSE {done(x) : x \in FrameCallback(clean, f)}
  BY DEF CompleteFrame
<1>2. ASSUME NEW x, IsAsm(x)
      PROVE  Kept(x, done(x)) /\ done(x).reassembling = FALSE /\ done(x).assembly = <<>>
  BY <1>2 DEF IsAsm, Kept, AsmFields
<1> HIDE DEF done
<1>3. CASE s = over
  <2>1. Kept(r, over) /\ over.reassembling = FALSE /\ over.assembly = <<>>
    BY <1>2 DEF IsAsm, Kept, AsmFields
  <2> QED BY <2>1, <1>3 DEF Kept
<1>4. CASE s = gapped
  <2> DEFINE g == DropGappedFrame(r, f)
  <2>1. Same(r, g)
    BY DropGappedSame
  <2> HIDE DEF g
  <2>2. Kept(g, gapped) /\ gapped.reassembling = FALSE /\ gapped.assembly = <<>>
    <3>1. Kept(g, done(g)) /\ done(g).reassembling = FALSE /\ done(g).assembly = <<>>
      BY <1>2, <2>1 DEF Same, Kept
    <3>2. gapped = [done(g) EXCEPT !.idr_recovery = FALSE]
      BY DEF g
    <3> QED BY <3>1, <3>2 DEF IsAsm, Kept, AsmFields
  <2> QED BY <2>1, <2>2, <1>4 DEF Kept, Same
<1>5. CASE ~ r.overflow /\ \E x \in FrameCallback(clean, f) : s = done(x)
  <2>1. PICK x \in FrameCallback(clean, f) : s = done(x)
    BY <1>5
  <2>2. /\ IsAsm(clean) /\ clean.out = r.assembly /\ clean.verdict \in Verdicts
        /\ clean.current_frame_id = r.current_frame_id
    BY DEF IsAsm, AsmFields, Verdicts
  <2> HIDE DEF clean
  <2>3. Same(clean, x)
    BY <2>1, <2>2, FrameCallbackSame
  <2>4. Kept(x, s) /\ s.reassembling = FALSE /\ s.assembly = <<>>
    BY <2>1, <2>3, <1>2 DEF Same, Kept
  <2> QED BY <2>2, <2>3, <2>4, <1>5 DEF Same, Kept
<1> HIDE DEF over, gapped
<1> QED BY <1>1, <1>3, <1>4, <1>5

-----------------------------------------------------------------------------
Frames == [id : Nat, prev : Nat, type : FrameTypes, n : Nat \ {0}, seq : Nat]
AnyPacket == [frame : Frames, index : Nat]

\* The record of the reassembler, with its buffer never overrun.
Typed(r) ==
  /\ IsAsm(r) /\ r.verdict \in Verdicts
  /\ r.assembly \in Seq(AnyPacket) /\ Len(r.assembly) <= MaxAssembly

\* The first k packets of a frame.
PartOf(f, k) == [j \in 1..k |-> Packet(f, j - 1)]

\* What is collected of the frame that is being submitted, before packet k.
Building(r, f, k) ==
  r.reassembling /\ r.current_frame_id = f.id =>
    k > 0 /\ (r.overflow \/ r.assembly = PartOf(f, k) \/ IsDuplicate(r, f.id))

\* The parts of a frame grow packet by packet from nothing to the whole frame.
LEMMA PartGrows ==
  ASSUME NEW f \in Frames, NEW k \in Nat
  PROVE  /\ PartOf(f, 0) = <<>>
         /\ PartOf(f, k) \in Seq(AnyPacket) /\ Len(PartOf(f, k)) = k
         /\ Append(PartOf(f, k), Packet(f, k)) = PartOf(f, k + 1)
         /\ PartOf(f, f.n) = WholeFrame(f)
<1>1. \A j \in 1..k : Packet(f, j - 1) \in AnyPacket
  BY DEF Packet, AnyPacket
<1>2. PartOf(f, k) \in Seq(AnyPacket) /\ Len(PartOf(f, k)) = k
  BY <1>1 DEF PartOf
<1>3. Append(PartOf(f, k), Packet(f, k)) = PartOf(f, k + 1)
  BY <1>2 DEF PartOf
<1>4. PartOf(f, 0) = <<>>
  BY DEF PartOf
<1> QED BY <1>2, <1>3, <1>4 DEF PartOf, WholeFrame

\* append_to_frame: one packet more, and delivery at the end of the frame.
LEMMA AppendBuilds ==
  ASSUME NEW r, Typed(r), NEW f \in Frames, NEW k \in 0..(f.n - 1),
         NEW s \in AppendPacket(r, Packet(f, k))
  PROVE  /\ Typed(s) /\ s.current_frame_id = r.current_frame_id
         /\ ~ r.reassembling => s = r
         /\ r.overflow \/ r.assembly = PartOf(f, k) =>
              /\ s.out = r.out \/ s.out = WholeFrame(f)
              /\ s.reassembling => s.overflow \/ s.assembly = PartOf(f, k + 1)
<1> DEFINE p == Packet(f, k)
           a == IF Len(r.assembly) >= MaxAssembly THEN [r EXCEPT !.overflow = TRUE]
                ELSE [r EXCEPT !.assembly = Append(@, p)]
<1>1. p \in AnyPacket /\ p.frame = f /\ p.index = k
  BY DEF Packet, AnyPacket
<1>2. (IsEof(p) <=> k + 1 = f.n) /\ k \in Nat /\ f.n \in Nat
  BY <1>1 DEF IsEof, Frames
<1>3. s \in IF ~ r.reassembling THEN {r}
            ELSE IF IsEof(p) THEN CompleteFrame(a, f) ELSE {a}
  BY <1>1 DEF AppendPacket
<1>4. Append(PartOf(f, k), p) = PartOf(f, k + 1) /\ PartOf(f, f.n) = WholeFrame(f)
  BY <1>2, PartGrows
<1> HIDE DEF p
<1>5. /\ Typed(a) /\ a.out = r.out /\ a.current_frame_id = r.current_frame_id
      /\ r.overflow \/ r.assembly = PartOf(f, k) => a.overflow \/ a.assembly = PartOf(f, k + 1)
  <2>1. MaxAssembly \in Nat
    BY ReassemblyAssumption
  <2>2. CASE Len(r.assembly) >= MaxAssembly
    BY <2>2 DEF Typed, IsAsm, AsmFields
  <2>3. CASE ~ (Len(r.assembly) >= MaxAssembly)
    <3> DEFINE q == Append(r.assembly, p)
    <3>1. q \in Seq(AnyPacket) /\ Len(q) = Len(r.assembly) + 1 /\ Len(r.assembly) \in Nat
      BY <1>1 DEF Typed
    <3>2. r.assembly = PartOf(f, k) => q = PartOf(f, k + 1)
      BY <1>4
    <3>3. a = [r EXCEPT !.assembly = q]
      BY <2>3
    <3> HIDE DEF q, a
    <3>4. Len(q) <= MaxAssembly
      BY <2>1, <2>3, <3>1
    <3> QED BY <3>1, <3>2, <3>3, <3>4 DEF Typed, IsAsm, AsmFields
  <2> QED BY <2>2, <2>3
<1> HIDE DEF a
<1>6. CASE ~ r.reassembling
  BY <1>3, <1>6
<1>7. CASE r.reassembling /\ ~ IsEof(p)
  BY <1>3, <1>5, <1>7
<1>8. CASE r.reassembling /\ IsEof(p)
  <2>1. s \in CompleteFrame(a, f)
    BY <1>3, <1>8
  <2>2. /\ IsAsm(s) /\ s.reassembling = FALSE /\ s.assembly = <<>>
        /\ s.current_frame_id = a.current_frame_id
        /\ a.verdict \in Verdicts => s.verdict \in Verdicts
        /\ s.out = a.out \/ (a.overflow # TRUE /\ s.out = a.assembly)
    BY <2>1, <1>5, CompleteDelivers DEF Typed
  <2>3. Typed(s)
    BY <2>2, <1>5, ReassemblyAssumption DEF Typed
  <2>4. PartOf(f, k + 1) = WholeFrame(f)
    BY <1>2, <1>4, <1>8
  <2>5. ASSUME r.overflow \/ r.assembly = PartOf(f, k)
        PROVE  s.out = r.out \/ s.out = WholeFrame(f)
    BY <1>5, <2>2, <2>4, <2>5
  <2> QED BY <1>5, <1>8, <2>2, <2>3, <2>5
<1> QED BY <1>6, <1>7, <1>8

\* rtp_reassembly_process_packet on packet k of a frame submitted in order.
LEMMA ProcessBuilds ==
  ASSUME NEW r, Typed(r), NEW f \in Frames, NEW k \in 0..(f.n - 1),
         NEW s \in ProcessPacket(r, Packet(f, k))
  PROVE  /\ Typed(s)
         /\ Building(r, f, k) => /\ Building(s, f, k + 1)
                                 /\ s.out = r.out \/ s.out = WholeFrame(f)
<1> DEFINE p == Packet(f, k)
           a == ArrivePacket(r, p)
           delta == FrameDelta(r, p.frame.id)
           seqGap == SeqGapAtBoundary(r, p)
           prev == r.last_seen_frame_id
<1>1. p.frame = f /\ p.index = k /\ (IsSof(p) <=> k = 0) /\ k \in Nat
  BY DEF Packet, IsSof, Frames
<1>2. \/ IsDuplicate(r, f.id) /\ s = r
      \/ /\ ~ IsDuplicate(r, f.id)
         /\ \/ k # 0 /\ s \in AppendPacket(a, p)
            \/ k = 0 /\ a.saw_first_sof /\ s = a
            \/ k = 0 /\ \E t \in StartFrame(a, p, delta, seqGap, prev) : s \in AppendPacket(t, p)
  BY <1>1 DEF ProcessPacket
<1>3. /\ IsAsm(a) /\ a.out = r.out /\ a.verdict \in Verdicts
      /\ a.current_frame_id = f.id
      /\ IF f.id = r.current_frame_id THEN Same(r, a)
         ELSE a.assembly = <<>> /\ a.reassembling = FALSE /\ a.overflow = FALSE
  <2>1. IsAsm(r) /\ r.verdict \in Verdicts
    BY DEF Typed
  <2> HIDE DEF a, p
  <2>2. /\ IsAsm(a) /\ a.out = r.out
        /\ r.verdict \in Verdicts => a.verdict \in Verdicts
        /\ a.current_frame_id = p.frame.id
        /\ IF p.frame.id = r.current_frame_id
           THEN Same(r, a)
           ELSE a.assembly = <<>> /\ a.reassembling = FALSE /\ a.overflow = FALSE
    <3>1. Arrived(r, p, a)
      BY <2>1, ArriveKeeps DEF a
    <3> QED BY <3>1 DEF Arrived
  <2> QED BY <1>1, <2>1, <2>2
<1>4. MaxAssembly \in Nat /\ 0 <= MaxAssembly /\ <<>> \in Seq(AnyPacket) /\ Len(<<>>) = 0
  BY ReassemblyAssumption
<1> HIDE DEF p, a, delta, seqGap, prev
<1>5. Typed(a)
  BY <1>3, <1>4 DEF Typed, Same
<1>6. CASE IsDuplicate(r, f.id) /\ s = r
  <2>1. k + 1 > 0
    BY <1>1
  <2>2. Building(s, f, k + 1)
    BY <1>6, <2>1 DEF Building
  <2> QED BY <1>6, <2>2
<1>7. CASE ~ IsDuplicate(r, f.id) /\ k # 0 /\ s \in AppendPacket(a, p)
  <2>1. /\ Typed(s) /\ s.current_frame_id = a.current_frame_id
        /\ ~ a.reassembling => s = a
        /\ a.overflow \/ a.assembly = PartOf(f, k) =>
             /\ s.out = a.out \/ s.out = WholeFrame(f)
             /\ s.reassembling => s.overflow \/ s.assembly = PartOf(f, k + 1)
    BY <1>5, <1>7, AppendBuilds DEF p
  <2>2. Building(r, f, k) => ~ a.reassembling \/ a.overflow \/ a.assembly = PartOf(f, k)
    BY <1>3, <1>7 DEF Building, Same
  <2> QED BY <1>1, <1>3, <2>1, <2>2 DEF Building
<1>8. CASE ~ IsDuplicate(r, f.id) /\ k = 0 /\ s = a
  BY <1>1, <1>3, <1>5, <1>8 DEF Building, Same
<1>9. CASE k = 0 /\ \E t \in StartFrame(a, p, delta, seqGap, prev) : s \in AppendPacket(t, p)
  <2>1. PICK t \in StartFrame(a, p, delta, seqGap, prev) : s \in AppendPacket(t, p)
    BY <1>9
  <2>2. Kept(a, t) /\ t.assembly = <<>> /\ t.overflow = FALSE
    BY <1>3, <2>1, StartFrameEmpty
  <2>3. Typed(t)
    BY <1>3, <1>4, <2>2 DEF Typed, Kept
  <2>4. t.assembly = PartOf(f, k)
    BY <1>9, <2>2, PartGrows
  <2>5. /\ Typed(s) /\ s.current_frame_id = t.current_frame_id
        /\ s.out = t.out \/ s.out = WholeFrame(f)
        /\ s.reassembling => s.overflow \/ s.assembly = PartOf(f, k + 1)
    BY <2>1, <2>3, <2>4, AppendBuilds DEF p
  <2> QED BY <1>1, <1>3, <2>2, <2>5 DEF Building, Kept
<1> QED BY <1>2, <1>6, <1>7, <1>8, <1>9

\* rtp_reassembly_prepare_fec_frame leaves nothing of the frame behind.
LEMMA PrepareBuilds ==
  ASSUME NEW r, Typed(r), NEW f \in Frames
  PROVE  LET s == PrepareFecFrame([r EXCEPT !.fec_clean = TRUE], f.id)
         IN Typed(s) /\ Building(s, f, 0) /\ s.out = r.out
<1> DEFINE c == [r EXCEPT !.fec_clean = TRUE]
           e == [c EXCEPT !.assembly = <<>>, !.reassembling = FALSE, !.had_gaps = FALSE,
                 !.overflow = FALSE, !.saw_first_sof = FALSE, !.expected_seq = 0]
<1>1. Typed(c) /\ c.out = r.out
  BY DEF Typed, IsAsm, AsmFields
<1>2. PrepareFecFrame(c, f.id) = IF c.current_frame_id # f.id THEN c ELSE e
  BY DEF PrepareFecFrame
<1> HIDE DEF c
<1>3. IsAsm(e) /\ e.verdict = c.verdict /\ e.assembly = <<>> /\ e.reassembling = FALSE /\ e.out = c.out
  BY <1>1 DEF Typed, IsAsm, AsmFields
<1>4. Typed(e)
  BY <1>1, <1>3, ReassemblyAssumption DEF Typed
<1> HIDE DEF e
<1> SUFFICES LET s == PrepareFecFrame(c, f.id)
             IN Typed(s) /\ Building(s, f, 0) /\ s.out = r.out
  BY DEF c
<1> QED BY <1>1, <1>2, <1>3, <1>4 DEF Building

-----------------------------------------------------------------------------
(***************************************************************************)
(* The inductive invariant: the frames of the host, what FEC has collected,*)
(* where the call is, and, during a submission that no watchdog has torn,  *)
(* that the assembly buffer holds exactly the packets already submitted -  *)
(* or the frame was discarded, overran the buffer or counts as decoded.    *)
(***************************************************************************)
Wire == UNION {Packets(f) : f \in Sent}
FecFields == {"cur", "recv", "submitted", "deferred", "unrec", "drops"}

HostFrames == sent \in Seq(Frames)

Collected ==
  /\ fec = [x \in FecFields |-> fec[x]]
  /\ fec.cur \in Sent \cup {NoCurrent}
  /\ fec.cur = NoCurrent => fec.recv = {}
  /\ fec.cur # NoCurrent => fec.recv \subseteq 0..(Total(fec.cur) - 1)
  /\ fec.deferred \in Seq(Wire) /\ Len(fec.deferred) <= DeferLimit

CallPhases ==
  /\ pc \in {"idle", "reassemble", "drain", "inner", "transition", "recover",
             "begin", "store", "submit"}
  /\ drain_ret \in {"end", "inner", "transition"}
  /\ rec_ret \in {"return", "begin", "redrain"}
  /\ pkt \in Wire \cup {NoPacket} /\ rep \in Wire \cup {NoPacket}
  /\ pc = "idle" <=> pkt = NoPacket
  /\ pc \in {"idle", "reassemble", "drain"} => rep = NoPacket
  /\ pc \in {"recover", "submit"} /\ rec_ret = "redrain" => rep = NoPacket
  /\ pc = "reassemble" => ~ Protected
  /\ pc \in {"store", "recover", "submit"} => fec.cur \in Sent
  /\ pc = "store" => Cur.frame = fec.cur

InSubmission ==
  pc = "submit" =>
    /\ DataOf(fec.cur) \subseteq fec.recv /\ next \in 0..(fec.cur.n - 1)
    /\ ~ torn => Building(asm, fec.cur, next)

VideoInv ==
  /\ HostFrames /\ Collected /\ CallPhases /\ InSubmission
  /\ Typed(asm) /\ torn \in BOOLEAN /\ UntornWhole

\* rtp_fec_reset leaves a record with all fields, nothing collected, nothing deferred.
LEMMA EmptyFecFields ==
  /\ EmptyFec = [x \in FecFields |-> EmptyFec[x]]
  /\ EmptyFec.cur = NoCurrent /\ EmptyFec.recv = {} /\ EmptyFec.deferred = <<>>
BY DEF EmptyFec, FecFields

\* rtp_fec_reset leaves nothing collected and nothing deferred.
LEMMA EmptyCollected == ASSUME fec = EmptyFec PROVE Collected
<1>1. fec = [x \in FecFields |-> fec[x]]
  BY EmptyFecFields
<1>2. fec.cur = NoCurrent /\ fec.recv = {} /\ fec.deferred = <<>>
  BY EmptyFecFields
<1>3. <<>> \in Seq(Wire) /\ Len(<<>>) = 0 /\ DeferLimit \in Nat
  BY FecAssumption
<1>4. fec.deferred \in Seq(Wire) /\ Len(fec.deferred) <= DeferLimit
  BY <1>2, <1>3
<1>5. fec.cur \in Sent \cup {NoCurrent}
  BY <1>2
<1> QED BY Zenon, <1>1, <1>2, <1>4, <1>5 DEF Collected

LEMMA EmptyCollectedNext == ASSUME fec' = EmptyFec PROVE Collected'
<1>1. fec' = [x \in FecFields |-> fec'[x]]
  BY EmptyFecFields
<1>2. fec'.cur = NoCurrent /\ fec'.recv = {} /\ fec'.deferred = <<>>
  BY EmptyFecFields
<1>3. <<>> \in Seq(Wire') /\ Len(<<>>) = 0 /\ DeferLimit \in Nat
  BY FecAssumption
<1> QED BY <1>1, <1>2, <1>3 DEF Collected

\* What is on the wire are packets of the frames sent, each with its number.
LEMMA SentFacts ==
  ASSUME HostFrames
  PROVE  /\ \A f \in Sent : /\ f \in Frames /\ f # NoCurrent /\ f.n \in Nat \ {0}
                             /\ Total(f) \in Nat /\ f.n <= Total(f)
         /\ \A p \in Wire : /\ p.frame \in Sent /\ p.index \in 0..(Total(p.frame) - 1)
                             /\ p = Packet(p.frame, p.index) /\ p # NoPacket
<1>1. ASSUME NEW f \in Sent
      PROVE  f \in Frames /\ f # NoCurrent /\ f.n \in Nat \ {0} /\ Total(f) \in Nat /\ f.n <= Total(f)
  <2>1. f \in Frames
    <3>1. PICK k \in 1..Len(sent) : f = sent[k]
      BY DEF Sent
    <3> QED BY <3>1 DEF HostFrames
  <2>2. f.id \in Nat /\ f.n \in Nat \ {0} /\ Parity \in Nat
    BY <2>1, FecAssumption DEF Frames
  <2>3. f # NoCurrent
    <3>1. NoCurrent.id = -1
      BY DEF NoCurrent, NoFrame
    <3> QED BY <2>2, <3>1
  <2> QED BY <2>1, <2>2, <2>3 DEF Total
<1>2. ASSUME NEW p \in Wire
      PROVE  /\ p.frame \in Sent /\ p.index \in 0..(Total(p.frame) - 1)
             /\ p = Packet(p.frame, p.index) /\ p # NoPacket
  <2>0. PICK f \in Sent : p \in Packets(f)
    BY DEF Wire
  <2>1. PICK i \in 0..(Total(f) - 1) : p = Packet(f, i)
    BY <2>0 DEF Packets
  <2>2. p.frame = f /\ p.index = i
    BY <2>1 DEF Packet
  <2>3. DOMAIN p = {"frame", "index"} /\ DOMAIN NoPacket = {"none"}
    BY <2>1 DEF Packet, NoPacket
  <2>4. p # NoPacket
    BY <2>3
  <2> QED BY <2>1, <2>2, <2>4
<1> QED BY <1>1, <1>2

\* A change of flags keeps the types and what was delivered.
LEMMA SameTyped ==
  ASSUME NEW r, NEW s, Typed(r), Same(r, s)
  PROVE  Typed(s) /\ s.out = r.out
BY DEF Typed, Same, Kept

\* The deferred packets without the first.
LEMMA Shorter ==
  ASSUME NEW S, NEW q \in Seq(S), q # <<>>
  PROVE  Head(q) \in S /\ Tail(q) \in Seq(S) /\ Len(Tail(q)) <= Len(q)
OBVIOUS

\* While the call runs, the packet it works on is one of the stream.
LEMMA CurOnWire ==
  ASSUME VideoInv, pc # "idle"
  PROVE  Cur \in Wire
BY DEF VideoInv, CallPhases, Cur

-----------------------------------------------------------------------------
(* The steps of the call that leave the reassembler alone.                  *)

\* Deferral, the frame transition and the slots: the reassembler is not called.
LEMMA CallStep ==
  ASSUME VideoInv, FecRuns,
         \/ DropSubmittedDeferred \/ ReplayDeferred \/ EndDrain \/ ConsumeStale
         \/ SameFrame \/ DeferNewer \/ DeferRefused \/ LeaveFrame
         \/ BeginFrame \/ StorePacket
  PROVE  VideoInv'
<1>1. /\ sent' = sent /\ asm' = asm /\ torn' = torn /\ next' = next
      /\ pc # "idle" /\ pc # "submit" /\ pc' # "submit"
  BY DEF VideoInv, CallPhases, FecRuns, DropSubmittedDeferred, ReplayDeferred, EndDrain, ConsumeStale,
         SameFrame, DeferNewer, DeferRefused, LeaveFrame, BeginFrame, StorePacket, callVars,
         Return, AtTransition
<1>2. Sent' = Sent /\ Wire' = Wire
  BY <1>1 DEF Sent, Wire, Packets
<1>3. HostFrames' /\ Typed(asm)' /\ (torn \in BOOLEAN)' /\ UntornWhole' /\ InSubmission'
  BY <1>1, <1>2 DEF VideoInv, HostFrames, UntornWhole, DeliveredWhole, InSubmission
<1>4. Cur \in Wire /\ Cur # NoPacket /\ Cur.frame \in Sent /\ Cur.frame # NoCurrent
  BY <1>1, CurOnWire, SentFacts DEF VideoInv
<1>5. fec = [x \in FecFields |-> fec[x]] /\ fec.deferred \in Seq(Wire)
  BY DEF VideoInv, Collected
<1>6. CASE DropSubmittedDeferred
  <2>1. fec.deferred # <<>>
    BY <1>6 DEF DropSubmittedDeferred
  <2> DEFINE q == Tail(fec.deferred)
  <2>2. q \in Seq(Wire) /\ Len(q) <= DeferLimit
    BY <1>5, <2>1, Shorter, FecAssumption DEF VideoInv, Collected
  <2>3. fec' = [fec EXCEPT !.deferred = q]
    BY <1>6 DEF DropSubmittedDeferred
  <2> HIDE DEF q
  <2>4. Collected'
    BY <1>2, <1>5, <2>2, <2>3 DEF VideoInv, Collected, FecFields
  <2>5. CallPhases'
    BY <1>1, <1>2, <1>5, <1>6, <2>3 DEF VideoInv, CallPhases, DropSubmittedDeferred, callVars, Cur, FecFields
  <2> QED BY <1>3, <2>4, <2>5 DEF VideoInv
<1>7. CASE ReplayDeferred
  <2>1. fec.deferred # <<>>
    BY <1>7 DEF ReplayDeferred, CanReplay
  <2> DEFINE q == Tail(fec.deferred)
             h == Head(fec.deferred)
  <2>2. h \in Wire /\ q \in Seq(Wire) /\ Len(q) <= DeferLimit
    BY <1>5, <2>1, Shorter, FecAssumption DEF VideoInv, Collected
  <2>3. fec' = [fec EXCEPT !.deferred = q] /\ rep' = h
    BY <1>7 DEF ReplayDeferred
  <2> HIDE DEF q, h
  <2>4. Collected'
    BY <1>2, <1>5, <2>2, <2>3 DEF VideoInv, Collected, FecFields
  <2>5. CallPhases'
    BY <1>1, <1>2, <1>7, <2>2, <2>3 DEF VideoInv, CallPhases, ReplayDeferred
  <2> QED BY <1>3, <2>4, <2>5 DEF VideoInv
<1>8. CASE EndDrain
  BY <1>1, <1>2, <1>3, <1>8 DEF VideoInv, Collected, CallPhases, EndDrain, Cur
<1>9. CASE ConsumeStale
  BY <1>1, <1>2, <1>3, <1>9 DEF VideoInv, Collected, CallPhases, ConsumeStale, Return, Cur
<1>10. CASE SameFrame
  BY <1>1, <1>2, <1>3, <1>4, <1>10 DEF VideoInv, Collected, CallPhases, SameFrame, AtTransition, Cur
<1>11. CASE DeferNewer
  <2>1. Append(fec.deferred, Cur) \in Seq(Wire) /\ Len(Append(fec.deferred, Cur)) <= DeferLimit
    BY <1>4, <1>5, <1>11, FecAssumption DEF DeferNewer, MayDefer
  <2> QED BY <1>1, <1>2, <1>3, <1>5, <1>11, <2>1
          DEF VideoInv, Collected, CallPhases, DeferNewer, Return, FecFields, Cur
<1>12. CASE DeferRefused
  BY <1>1, <1>2, <1>3, <1>12 DEF VideoInv, Collected, CallPhases, DeferRefused, NeedsDefer, AllowDefer, Cur
<1>13. CASE LeaveFrame
  BY <1>1, <1>2, <1>3, <1>13 DEF VideoInv, Collected, CallPhases, LeaveFrame, Cur
<1>14. CASE BeginFrame
  BY <1>1, <1>2, <1>3, <1>4, <1>5, <1>14 DEF VideoInv, Collected, CallPhases, BeginFrame, FecFields, Cur
<1>15. CASE StorePacket
  <2>1. /\ fec.cur = Cur.frame /\ Cur.index \in 0..(Total(fec.cur) - 1)
        /\ fec.recv \subseteq 0..(Total(fec.cur) - 1)
    BY <1>4, <1>15, SentFacts DEF VideoInv, Collected, CallPhases, StorePacket
  <2>2. fec' = [fec EXCEPT !.recv = @ \cup {Cur.index}]
    BY <1>15 DEF StorePacket
  <2>3. /\ fec'.cur = fec.cur /\ fec'.deferred = fec.deferred
        /\ fec' = [x \in FecFields |-> fec'[x]] /\ fec'.recv = fec.recv \cup {Cur.index}
    BY <1>5, <2>2 DEF FecFields
  <2>4. Collected'
    BY <1>2, <1>4, <2>1, <2>3 DEF VideoInv, Collected, Total
  <2>5. CallPhases'
    BY <1>1, <1>2, <1>4, <1>15, <2>1, <2>3 DEF VideoInv, CallPhases, StorePacket, Return, Cur
  <2> QED BY <1>3, <2>4, <2>5 DEF VideoInv
<1> QED BY <1>6, <1>7, <1>8, <1>9, <1>10, <1>11, <1>12, <1>13, <1>14, <1>15

-----------------------------------------------------------------------------
(* Recovery and submission.                                                 *)

\* The return from attempt_recovery_and_submit.
LEMMA AfterRecoveryCall ==
  ASSUME VideoInv, pc \in {"recover", "submit"}, AfterRecovery,
         pkt' = pkt, rec_ret' = rec_ret, sent' = sent, fec'.cur = fec.cur
  PROVE  CallPhases' /\ pc' # "submit"
<1>1. Sent' = Sent /\ Wire' = Wire
  BY DEF Sent, Wire, Packets
<1> QED BY <1>1 DEF VideoInv, CallPhases, AfterRecovery, Return, Cur

\* A step that gives the frame up.
LEMMA DropStep ==
  ASSUME VideoInv, pc = "recover", AfterRecovery, Same(asm, asm'),
         pkt' = pkt, rec_ret' = rec_ret, sent' = sent, torn' = torn,
         fec' = [x \in FecFields |-> fec'[x]],
         fec'.cur = fec.cur, fec'.recv = fec.recv, fec'.deferred = fec.deferred
  PROVE  VideoInv'
<1>1. Sent' = Sent /\ Wire' = Wire
  BY DEF Sent, Wire, Packets
<1>2. CallPhases' /\ pc' # "submit"
  BY AfterRecoveryCall
<1>3. Typed(asm') /\ asm'.out = asm.out
  BY SameTyped DEF VideoInv
<1>4. Collected'
  BY <1>1 DEF VideoInv, Collected
<1>5. UntornWhole' /\ HostFrames' /\ (torn \in BOOLEAN)'
  BY <1>1, <1>3 DEF VideoInv, HostFrames, UntornWhole, DeliveredWhole
<1> QED BY <1>2, <1>3, <1>4, <1>5 DEF VideoInv, InSubmission

\* note_current_frame_drop_for_recovery and the clearing of the decode flag move
\* flags only.
LEMMA NoteDropSame ==
  ASSUME NEW r, IsAsm(r)
  PROVE  Same(r, NoteDrop(r))
BY NoteFrameLossSame DEF NoteDrop, Same, Kept

LEMMA ClearIdrSame ==
  ASSUME NEW r, IsAsm(r)
  PROVE  Same(r, ClearIdr(r))
BY DEF ClearIdr, IsAsm, Same, Kept, AsmFields

\* A frame with too few packets is given up and noted as lost.
LEMMA UnrecoverableStep ==
  ASSUME VideoInv, FecRuns, DropUnrecoverable
  PROVE  VideoInv'
<1> DEFINE noted == NoteDrop(asm)
           given == [noted EXCEPT !.refs_corrupted = TRUE, !.idr_fully_decoded = FALSE]
           lost == NoteFrameLoss(given, noted.last_good_frame + 1, fec.cur.id)
<1>1. IsAsm(asm)
  BY DEF VideoInv, Typed
<1>2. Same(asm, noted)
  BY <1>1, NoteDropSame
<1>3. asm' \in {noted, ClearIdr(noted), lost}
  BY DEF DropUnrecoverable
<1>4. fec = [x \in FecFields |-> fec[x]]
  BY DEF VideoInv, Collected
<1>5. \E u, d : fec' = [fec EXCEPT !.unrec = u, !.drops = d, !.submitted = TRUE]
  BY DEF DropUnrecoverable
<1>6. /\ pc = "recover" /\ AfterRecovery /\ pkt' = pkt /\ rec_ret' = rec_ret
      /\ sent' = sent /\ torn' = torn
  BY DEF DropUnrecoverable, FecRuns
<1>7. /\ fec' = [x \in FecFields |-> fec'[x]]
      /\ fec'.cur = fec.cur /\ fec'.recv = fec.recv /\ fec'.deferred = fec.deferred
  BY <1>4, <1>5 DEF FecFields
<1> HIDE DEF noted
<1>8. Same(noted, given) /\ Same(noted, ClearIdr(noted))
  BY <1>2, ClearIdrSame DEF IsAsm, Same, Kept, AsmFields
<1> HIDE DEF given
<1>9. Same(given, lost)
  BY <1>8, NoteFrameLossSame DEF Same, Kept
<1> HIDE DEF lost
<1>10. Same(asm, asm')
  BY <1>2, <1>3, <1>8, <1>9, SameSame
<1> QED BY <1>6, <1>7, <1>10, DropStep

\* drop_current_frame_strict, after the library or the validation refused.
LEMMA StrictStep ==
  ASSUME VideoInv, FecRuns, DropStrict
  PROVE  VideoInv'
<1> DEFINE corrupt == [asm EXCEPT !.refs_corrupted = TRUE, !.frame_is_corrupt = TRUE,
                             !.idr_fully_decoded = FALSE]
<1>1. IsAsm(asm)
  BY DEF VideoInv, Typed
<1>2. Same(asm, asm) /\ Same(asm, corrupt)
  BY <1>1 DEF IsAsm, Same, Kept, AsmFields
<1>3. PICK r \in {asm, corrupt} :
        LET noted == NoteDrop([r EXCEPT !.fec_clean = FALSE])
        IN asm' \in {noted, ClearIdr(noted)}
  BY DEF DropStrict
<1> HIDE DEF corrupt
<1> DEFINE c == [r EXCEPT !.fec_clean = FALSE]
           noted == NoteDrop(c)
<1>4. Same(asm, r)
  BY <1>2
<1>5. Same(r, c)
  BY <1>4 DEF IsAsm, Same, Kept, AsmFields
<1>6. asm' \in {noted, ClearIdr(noted)}
  BY <1>3
<1> HIDE DEF c
<1>7. Same(c, noted)
  BY <1>5, NoteDropSame DEF Same, Kept
<1> HIDE DEF noted
<1>8. Same(noted, ClearIdr(noted))
  BY <1>7, ClearIdrSame DEF Same, Kept
<1>9. Same(asm, asm')
  BY <1>4, <1>5, <1>6, <1>7, <1>8, SameSame
<1>10. fec = [x \in FecFields |-> fec[x]]
  BY DEF VideoInv, Collected
<1>11. fec' = [fec EXCEPT !.unrec = 0, !.drops = 1 % DropLimit, !.submitted = TRUE]
  BY DEF DropStrict
<1>12. /\ pc = "recover" /\ AfterRecovery /\ pkt' = pkt /\ rec_ret' = rec_ret
       /\ sent' = sent /\ torn' = torn
  BY DEF DropStrict, FecRuns
<1>13. /\ fec' = [x \in FecFields |-> fec'[x]]
       /\ fec'.cur = fec.cur /\ fec'.recv = fec.recv /\ fec'.deferred = fec.deferred
  BY <1>10, <1>11 DEF FecFields
<1> QED BY <1>9, <1>12, <1>13, DropStep

\* The frame is complete, or rebuilt, and its submission begins.
LEMMA SubmissionBegins ==
  ASSUME VideoInv, FecRuns, SubmitComplete \/ RebuildFrame
  PROVE  VideoInv'
<1> DEFINE f == fec.cur
           s == PrepareFecFrame([asm EXCEPT !.fec_clean = TRUE], f.id)
<1>1. /\ pc = "recover" /\ pc' = "submit" /\ next' = 0 /\ asm' = s
      /\ pkt' = pkt /\ rep' = rep /\ drain_ret' = drain_ret /\ rec_ret' = rec_ret
      /\ sent' = sent /\ torn' = torn
  BY DEF SubmitComplete, RebuildFrame, StartSubmit, FecRuns
<1>2. Sent' = Sent /\ Wire' = Wire
  BY <1>1 DEF Sent, Wire, Packets
<1>3. f \in Sent /\ f \in Frames /\ f.n \in Nat \ {0} /\ f # NoCurrent /\ Total(f) \in Nat /\ f.n <= Total(f)
  BY <1>1, SentFacts DEF VideoInv, CallPhases
<1>4. Typed(s) /\ Building(s, f, 0) /\ s.out = asm.out
  BY <1>3, PrepareBuilds DEF VideoInv
<1> HIDE DEF s
<1>5. fec = [x \in FecFields |-> fec[x]]
  BY DEF VideoInv, Collected
<1>6. /\ fec' = [x \in FecFields |-> fec'[x]]
      /\ fec'.cur = fec.cur /\ fec'.deferred = fec.deferred
      /\ DataOf(f) \subseteq fec'.recv /\ fec'.recv \subseteq fec.recv \cup DataOf(f)
  <2>1. CASE SubmitComplete
    BY <2>1, <1>5 DEF SubmitComplete, FecFields, Missing
  <2>2. CASE RebuildFrame
    BY <2>2, <1>5 DEF RebuildFrame, FecFields
  <2> QED BY <2>1, <2>2
<1>7. DataOf(f) \subseteq 0..(Total(f) - 1)
  BY <1>3 DEF DataOf
<1>8. Collected'
  BY <1>2, <1>3, <1>6, <1>7 DEF VideoInv, Collected, Total
<1>9. CallPhases'
  BY <1>1, <1>2, <1>3, <1>6 DEF VideoInv, CallPhases
<1>10. InSubmission'
  BY <1>1, <1>3, <1>4, <1>6 DEF InSubmission, DataOf
<1>11. UntornWhole' /\ HostFrames' /\ (torn \in BOOLEAN)'
  BY <1>1, <1>2, <1>4 DEF VideoInv, HostFrames, UntornWhole, DeliveredWhole
<1> QED BY <1>1, <1>4, <1>8, <1>9, <1>10, <1>11 DEF VideoInv

\* Packet `next` of the frame is handed over; nothing else touches what it builds.
LEMMA SubmitStep ==
  ASSUME VideoInv, FecRuns, SubmitPacket \/ SubmitLastPacket
  PROVE  VideoInv'
<1> DEFINE f == fec.cur
           e == SeqAdd(f.seq, Total(f))
<1>1. pc = "submit" /\ sent' = sent /\ torn' = torn /\ pkt' = pkt /\ rec_ret' = rec_ret
  BY DEF SubmitPacket, SubmitLastPacket, FecRuns
<1>2. Sent' = Sent /\ Wire' = Wire
  BY <1>1 DEF Sent, Wire, Packets
<1>3. f \in Sent /\ f \in Frames /\ f.n \in Nat \ {0} /\ next \in 0..(f.n - 1) /\ next \in fec.recv
  BY <1>1, SentFacts DEF VideoInv, CallPhases, InSubmission, DataOf
<1>4. PICK r \in ProcessPacket(asm, Packet(f, next)) :
        \/ SubmitPacket /\ asm' = r
        \/ SubmitLastPacket /\ asm' = NoteFecFrameComplete(r, e)
  BY <1>3 DEF SubmitPacket, SubmitLastPacket, SubmitSlot
<1>5. /\ Typed(r)
      /\ Building(asm, f, next) => Building(r, f, next + 1) /\ (r.out = asm.out \/ r.out = WholeFrame(f))
  BY <1>3, ProcessBuilds DEF VideoInv
<1>6. Typed(asm') /\ asm'.out = r.out
  BY <1>4, <1>5 DEF NoteFecFrameComplete, Typed, IsAsm, AsmFields
<1>7. UntornWhole'
  BY <1>1, <1>2, <1>3, <1>5, <1>6 DEF VideoInv, InSubmission, UntornWhole, DeliveredWhole
<1>8. HostFrames' /\ (torn \in BOOLEAN)'
  BY <1>1 DEF VideoInv, HostFrames
<1>9. CASE SubmitPacket
  <2>1. fec' = fec /\ next' = next + 1 /\ next' \in 0..(f.n - 1) /\ pc' = pc /\ asm' = r
        /\ rep' = rep /\ drain_ret' = drain_ret
    BY <1>3, <1>4, <1>9 DEF SubmitPacket, SubmitLastPacket
  <2>2. Collected' /\ CallPhases'
    BY <1>1, <1>2, <2>1 DEF VideoInv, Collected, CallPhases, Cur
  <2>3. InSubmission'
    BY <1>1, <1>5, <2>1 DEF VideoInv, InSubmission
  <2> QED BY <1>6, <1>7, <1>8, <2>2, <2>3 DEF VideoInv
<1>10. CASE SubmitLastPacket
  <2>1. fec = [x \in FecFields |-> fec[x]] /\ fec' = [fec EXCEPT !.submitted = TRUE] /\ AfterRecovery
    BY <1>10 DEF VideoInv, Collected, SubmitLastPacket
  <2>2. /\ fec' = [x \in FecFields |-> fec'[x]]
        /\ fec'.cur = fec.cur /\ fec'.recv = fec.recv /\ fec'.deferred = fec.deferred
    BY <2>1 DEF FecFields
  <2>3. CallPhases' /\ pc' # "submit"
    BY <1>1, <2>1, <2>2, AfterRecoveryCall
  <2>4. Collected'
    BY <1>2, <2>2 DEF VideoInv, Collected
  <2> QED BY <1>6, <1>7, <1>8, <2>3, <2>4 DEF VideoInv, InSubmission
<1> QED BY <1>9, <1>10

-----------------------------------------------------------------------------
(* The other actions.                                                       *)

\* A packet of a raw stream is always a data packet.
LEMMA RawStep ==
  ASSUME VideoInv, FecRuns, ReassembleRaw
  PROVE  VideoInv'
<1>1. /\ pc = "reassemble" /\ pc' = "idle" /\ pkt' = NoPacket /\ rep' = rep
      /\ drain_ret' = drain_ret /\ rec_ret' = rec_ret /\ fec' = fec
      /\ sent' = sent /\ torn' = torn /\ asm' \in ProcessPacket(asm, pkt)
  BY DEF ReassembleRaw, FecRuns
<1>2. Sent' = Sent /\ Wire' = Wire
  BY <1>1 DEF Sent, Wire, Packets
<1>3. ~ Protected /\ pkt \in Wire /\ rep = NoPacket
  BY <1>1 DEF VideoInv, CallPhases
<1>4. pkt.frame \in Frames /\ pkt.index \in 0..(pkt.frame.n - 1) /\ pkt = Packet(pkt.frame, pkt.index)
  <2>1. Parity = 0
    BY <1>3, FecAssumption
  <2>2. /\ pkt.frame \in Frames /\ pkt.frame.n \in Nat
        /\ pkt.index \in 0..(Total(pkt.frame) - 1) /\ pkt = Packet(pkt.frame, pkt.index)
    BY <1>3, SentFacts DEF VideoInv
  <2> QED BY <2>1, <2>2 DEF Total
<1>5. Typed(asm')
  BY <1>1, <1>4, ProcessBuilds DEF VideoInv
<1>6. Collected' /\ CallPhases' /\ InSubmission'
  BY <1>1, <1>2, <1>3 DEF VideoInv, Collected, CallPhases, InSubmission, Cur
<1>7. HostFrames' /\ (torn \in BOOLEAN)' /\ UntornWhole'
  BY <1>1, <1>3 DEF VideoInv, HostFrames, UntornWhole
<1> QED BY <1>5, <1>6, <1>7 DEF VideoInv

\* Every step of rtp_fec_add_packet, and the raw path, keeps the invariant.
LEMMA FecStepKeeps ==
  ASSUME VideoInv, FecRuns
  PROVE  VideoInv'
BY CallStep, RawStep, UnrecoverableStep, StrictStep, SubmissionBegins, SubmitStep
   DEF FecRuns, FecStep

\* The constants of the host.
LEMMA HostBounds ==
  Sizes \subseteq Nat \ {0} /\ Skips \subseteq Nat /\ FirstSeq \in Nat /\ Parity \in Nat
<1>1. Sizes \subseteq Nat \ {0} /\ Skips \subseteq Nat
  BY VideoAssumption
<1>2. FirstSeq \in Nat
  BY VideoAssumption
<1>3. Parity \in Nat
  BY FecAssumption
<1> QED BY <1>1, <1>2, <1>3

\* The host's next frame: what was delivered is still a frame of the stream.
LEMMA SendStep ==
  ASSUME VideoInv, NEW type \in FrameTypes, NEW n \in Sizes, NEW skip \in Skips,
         SendFrame(type, n, skip)
  PROVE  VideoInv'
<1> DEFINE last == sent[Len(sent)]
           frame == IF sent = <<>>
                    THEN [id |-> 1, prev |-> 0, type |-> type, n |-> n, seq |-> FirstSeq]
                    ELSE [id |-> last.id + 1 + skip, prev |-> last.id, type |-> type,
                          n |-> n, seq |-> SeqAdd(last.seq, Total(last))]
<1>1. /\ pc = "idle" /\ sent' = Append(sent, frame) /\ asm' = asm /\ fec' = fec
      /\ pc' = pc /\ pkt' = pkt /\ rep' = rep /\ next' = next
      /\ drain_ret' = drain_ret /\ rec_ret' = rec_ret /\ torn' = torn
  BY DEF SendFrame, callVars
<1>2. sent \in Seq(Frames) /\ n \in Nat \ {0} /\ skip \in Nat /\ FirstSeq \in Nat /\ Parity \in Nat
  BY HostBounds DEF VideoInv, HostFrames
<1>3. frame \in Frames
  <2>1. CASE sent = <<>>
    BY <1>2, <2>1 DEF Frames
  <2>2. CASE sent # <<>>
    <3>1. last \in Frames
      BY <1>2, <2>2
    <3> HIDE DEF last
    <3>2. last.id \in Nat /\ last.seq \in Nat /\ Total(last) \in Nat
      BY <1>2, <3>1 DEF Frames, Total
    <3>3. SeqAdd(last.seq, Total(last)) \in Nat
      BY <3>2 DEF SeqAdd
    <3>4. last.id + 1 + skip \in Nat
      BY <1>2, <3>2
    <3> QED BY <1>2, <2>2, <3>2, <3>3, <3>4 DEF Frames
  <2> QED BY <2>1, <2>2
<1> HIDE DEF frame
<1>4. Sent \subseteq Sent' /\ HostFrames'
  <2>1. Append(sent, frame) \in Seq(Frames)
    BY <1>2, <1>3
  <2>2. ASSUME NEW k \in 1..Len(sent)
        PROVE  k \in 1..Len(sent') /\ sent'[k] = sent[k]
    BY <1>1, <1>2, <1>3
  <2> QED BY <1>1, <2>1, <2>2 DEF Sent, HostFrames
<1>5. Wire \subseteq Wire'
  BY <1>4 DEF Wire, Packets
<1>6. Collected'
  <2>1. fec'.deferred \in Seq(Wire')
    <3>1. fec.deferred \in Seq(Wire)
      BY DEF VideoInv, Collected
    <3> QED BY <1>1, <1>5, <3>1
  <2> QED BY <1>1, <1>4, <2>1 DEF VideoInv, Collected
<1>7. CallPhases' /\ InSubmission'
  BY <1>1, <1>4, <1>5 DEF VideoInv, CallPhases, InSubmission
<1>8. UntornWhole' /\ (torn \in BOOLEAN)' /\ Typed(asm)'
  BY <1>1, <1>4 DEF VideoInv, UntornWhole, DeliveredWhole
<1> QED BY <1>4, <1>6, <1>7, <1>8 DEF VideoInv

\* A step outside the call that gives it a packet, or none, and forgets what was
\* delivered, or does not touch it.
LEMMA OutsideCall ==
  ASSUME VideoInv, pc = "idle", sent' = sent, Typed(asm'),
         fec' \in {fec, EmptyFec}, torn' \in {torn, FALSE},
         \/ /\ pc' = "idle" /\ pkt' = pkt /\ rep' = rep /\ drain_ret' = drain_ret
            /\ torn' = torn /\ asm'.out = asm.out
         \/ /\ pc' = (IF Protected THEN "drain" ELSE "reassemble")
            /\ pkt' \in Wire /\ rep' = NoPacket /\ drain_ret' = "inner"
            /\ asm'.out = <<>>,
         rec_ret' = rec_ret
  PROVE  VideoInv'
<1>1. Sent' = Sent /\ Wire' = Wire
  BY DEF Sent, Wire, Packets
<1>2. \A p \in Wire : p # NoPacket
  BY SentFacts DEF VideoInv
<1>3. Collected'
  <2>1. CASE fec' = fec
    BY <1>1, <2>1 DEF VideoInv, Collected
  <2>2. CASE fec' = EmptyFec
    BY <2>2, EmptyCollectedNext
  <2> QED BY <2>1, <2>2
<1>4. CallPhases' /\ InSubmission'
  BY <1>1, <1>2 DEF VideoInv, CallPhases, InSubmission
<1>5. UntornWhole' /\ HostFrames'
  BY <1>1 DEF VideoInv, HostFrames, UntornWhole, DeliveredWhole
<1>6. (torn \in BOOLEAN)'
  BY DEF VideoInv
<1> QED BY <1>3, <1>4, <1>5, <1>6 DEF VideoInv

\* Every frame has a first packet.
LEMMA FirstOnWire ==
  ASSUME HostFrames, NEW f \in Sent
  PROVE  Packet(f, 0) \in Wire
<1>1. Total(f) \in Nat \ {0}
  BY SentFacts
<1>2. 0 \in 0..(Total(f) - 1)
  BY <1>1
<1> QED BY <1>2 DEF Wire, Packets

\* The decoder thread takes a packet from the ring.
LEMMA ReceiveStep ==
  ASSUME VideoInv, ReceivePacket
  PROVE  VideoInv'
<1>1. PICK f \in Sent : \E p \in Packets(f) : AddPacket(p)
  BY DEF ReceivePacket
<1>2. PICK p \in Packets(f) : AddPacket(p)
  BY <1>1
<1>3. p \in Wire
  BY <1>1, <1>2 DEF Wire
<1>4. asm' = [asm EXCEPT !.out = <<>>, !.verdict = "none"]
  BY <1>2 DEF AddPacket
<1>5. Typed(asm') /\ asm'.out = <<>>
  BY <1>4 DEF VideoInv, Typed, IsAsm, AsmFields, Verdicts
<1>6. /\ pc = "idle" /\ sent' = sent /\ fec' = fec /\ torn' = FALSE /\ rec_ret' = rec_ret
      /\ pc' = (IF Protected THEN "drain" ELSE "reassemble")
      /\ pkt' = p /\ rep' = NoPacket /\ drain_ret' = "inner"
  BY <1>2, FecAssumption DEF AddPacket, ReceivePacket
<1> QED BY <1>3, <1>5, <1>6, OutsideCall

\* rtp_reassembly_reset empties the buffer; what was delivered stays.
LEMMA ResetTyped ==
  ASSUME NEW r, Typed(r)
  PROVE  Typed(ResetReassembly(r)) /\ ResetReassembly(r).out = r.out
<1> DEFINE c == [r EXCEPT !.assembly = <<>>, !.current_frame_id = NoFrame,
                     !.last_seen_frame_id = NoFrame, !.expected_seq = 0,
                     !.reassembling = FALSE, !.had_gaps = FALSE, !.overflow = FALSE,
                     !.saw_first_sof = FALSE]
           s == [c EXCEPT !.consec_gap_frames = 0,
                     !.waiting_rfi = FALSE, !.inval_start = 0, !.inval_end = 0,
                     !.rfi_drops = 0, !.waiting_idr = FALSE, !.idr_recovery = FALSE]
<1>1. ResetReassembly(r) = s
  BY DEF ResetReassembly
<1>2. IsAsm(c) /\ c.assembly = <<>> /\ c.verdict = r.verdict /\ c.out = r.out
  BY DEF Typed, IsAsm, AsmFields
<1> HIDE DEF c
<1>3. IsAsm(s) /\ s.assembly = <<>> /\ s.verdict = r.verdict /\ s.out = r.out
  BY <1>2 DEF IsAsm, AsmFields
<1> HIDE DEF s
<1>4. 0 <= MaxAssembly /\ <<>> \in Seq(AnyPacket) /\ Len(<<>>) = 0
  BY ReassemblyAssumption
<1>5. Typed(s)
  BY <1>3, <1>4 DEF Typed
<1> QED BY <1>1, <1>3, <1>5

\* decoder_trim_live_queue: everything is reset and the newest start of frame is taken.
LEMMA TrimStep ==
  ASSUME VideoInv, NEW f \in Sent, TrimLive(f)
  PROVE  VideoInv'
<1> DEFINE r == ResetReassembly(asm)
           cleared == [r EXCEPT !.fec_clean = FALSE, !.out = <<>>, !.verdict = "none"]
           lost == NoteFrameLoss(cleared, asm.last_good_frame + 1, f.id - 1)
<1>1. Typed(r)
  BY ResetTyped DEF VideoInv
<1>2. asm' \in {cleared, lost}
  BY DEF TrimLive
<1> HIDE DEF r
<1>3. Typed(cleared) /\ cleared.out = <<>>
  BY <1>1 DEF Typed, IsAsm, AsmFields, Verdicts
<1> HIDE DEF cleared
<1>4. Same(cleared, lost)
  BY <1>3, NoteFrameLossSame DEF Typed
<1> HIDE DEF lost
<1>5. Typed(asm') /\ asm'.out = <<>>
  BY <1>2, <1>3, <1>4, SameTyped
<1>6. /\ pc = "idle" /\ sent' = sent /\ fec' = EmptyFec /\ torn' = FALSE /\ rec_ret' = rec_ret
      /\ pc' = (IF Protected THEN "drain" ELSE "reassemble")
      /\ pkt' = Packet(f, 0) /\ rep' = NoPacket /\ drain_ret' = "inner"
  BY FecAssumption DEF TrimLive
<1>7. Packet(f, 0) \in Wire
  BY FirstOnWire DEF VideoInv
<1> QED BY <1>5, <1>6, <1>7, OutsideCall

\* The other two ways to drop a backlog, between two packets.
LEMMA FlushStep ==
  ASSUME VideoInv, LiveFlush \/ DropBacklog
  PROVE  VideoInv'
<1> DEFINE r == ResetReassembly(asm)
           flushed == [LoseReferences(r) EXCEPT !.fec_clean = FALSE, !.last_good_frame = 0,
                                                !.frame_is_corrupt = FALSE]
           cleared == [r EXCEPT !.fec_clean = FALSE]
           anew == [LoseReferences(cleared) EXCEPT !.last_good_frame = 0]
<1>1. Typed(r) /\ r.out = asm.out
  BY ResetTyped DEF VideoInv
<1>2. asm' \in {flushed, cleared, anew}
  BY DEF LiveFlush, DropBacklog
<1> HIDE DEF r
<1>3. Same(r, cleared)
  BY <1>1 DEF Typed, IsAsm, Same, Kept, AsmFields
<1>4. Same(r, LoseReferences(r)) /\ Same(cleared, LoseReferences(cleared))
  BY <1>1, <1>3, LoseReferencesSame DEF Typed, Same, Kept
<1> HIDE DEF cleared
<1>5. Same(LoseReferences(r), flushed) /\ Same(LoseReferences(cleared), anew)
  BY <1>4 DEF IsAsm, Same, Kept, AsmFields
<1> HIDE DEF flushed, anew
<1>6. Same(r, asm')
  BY <1>2, <1>3, <1>4, <1>5, SameSame
<1>7. Typed(asm') /\ asm'.out = asm.out
  BY <1>1, <1>6, SameTyped
<1>8. /\ pc = "idle" /\ sent' = sent /\ fec' = EmptyFec /\ torn' = torn /\ rec_ret' = rec_ret
      /\ pc' = pc /\ pkt' = pkt /\ rep' = rep /\ drain_ret' = drain_ret
  BY DEF LiveFlush, DropBacklog, callVars
<1> QED BY <1>7, <1>8, OutsideCall

\* The flags that other threads write, at any moment of the call.  A watchdog
\* that clears the decode flag during a submission is what `torn` records.
LEMMA WatchStep ==
  ASSUME VideoInv, WatchdogReset \/ StallClearsIdr
  PROVE  VideoInv'
<1>1. /\ sent' = sent /\ fec' = fec /\ pc' = pc /\ pkt' = pkt /\ rep' = rep /\ next' = next
      /\ drain_ret' = drain_ret /\ rec_ret' = rec_ret
  BY DEF WatchdogReset, StallClearsIdr, callVars
<1>2. Sent' = Sent /\ Wire' = Wire
  BY <1>1 DEF Sent, Wire, Packets
<1>3. IsAsm(asm)
  BY DEF VideoInv, Typed
<1>4. Same(asm, asm')
  BY <1>3 DEF WatchdogReset, StallClearsIdr, ClearIdr, IsAsm, Same, Kept, AsmFields
<1>5. Typed(asm') /\ asm'.out = asm.out
  BY <1>4, SameTyped DEF VideoInv
<1>6. HostFrames' /\ Collected' /\ CallPhases'
  BY <1>1, <1>2 DEF VideoInv, HostFrames, Collected, CallPhases, Cur
<1>7. CASE WatchdogReset
  <2>1. torn' = torn
    BY <1>7 DEF WatchdogReset
  <2>2. asm' = [asm EXCEPT !.hw_reset_needed = TRUE]
    BY <1>7 DEF WatchdogReset
  <2>3. \A id, k : Building(asm, fec.cur, k) => Building(asm', fec.cur, k)
    BY <1>3, <2>2 DEF Building, IsDuplicate, IsAsm, AsmFields
  <2>4. InSubmission'
    BY <1>1, <2>1, <2>3 DEF VideoInv, InSubmission
  <2> QED BY <1>2, <1>5, <1>6, <2>1, <2>4 DEF VideoInv, UntornWhole, DeliveredWhole
<1>8. CASE StallClearsIdr
  <2>1. torn' = (torn \/ pc = "submit")
    BY <1>8 DEF StallClearsIdr
  <2>2. torn' \in BOOLEAN
    BY <2>1 DEF VideoInv
  <2>3. torn => torn'
    BY <2>1
  <2>4. pc = "submit" => torn'
    BY <2>1
  <2>5. InSubmission'
    BY <1>1, <2>4 DEF VideoInv, InSubmission
  <2>6. UntornWhole'
    BY <1>2, <1>5, <2>3 DEF VideoInv, UntornWhole, DeliveredWhole
  <2> QED BY <1>5, <1>6, <2>2, <2>5, <2>6 DEF VideoInv
<1> QED BY <1>7, <1>8

\* The next stream: FEC is reset and the decoder opened again, between two packets.
\* The reassembler is not reset, so a part of an old frame may stay in its buffer;
\* rtp_reassembly_prepare_fec_frame clears it before a frame is submitted.
LEMMA RestartStep ==
  ASSUME VideoInv, RestartStream
  PROVE  VideoInv'
<1>1. /\ pc = "idle" /\ sent' = <<>> /\ fec' = EmptyFec /\ torn' = FALSE
      /\ pc' = pc /\ pkt' = pkt /\ rep' = rep /\ next' = next
      /\ drain_ret' = drain_ret /\ rec_ret' = rec_ret
  BY DEF RestartStream, callVars
<1>2. asm' = [asm EXCEPT !.saw_first_idr = FALSE, !.idr_fully_decoded = FALSE,
               !.hw_reset_needed = FALSE, !.need_idr = TRUE, !.fec_clean = FALSE,
               !.last_good_frame = 0,
               !.out = <<>>, !.verdict = "none", !.last_in = 0]
  BY DEF RestartStream
<1>3. Typed(asm') /\ asm'.out = <<>>
  BY <1>2 DEF VideoInv, Typed, IsAsm, AsmFields, Verdicts
<1>4. pkt = NoPacket /\ rep = NoPacket
  BY <1>1 DEF VideoInv, CallPhases
<1>5. HostFrames'
  BY <1>1 DEF HostFrames
<1>6. Collected'
  BY <1>1, EmptyCollectedNext
<1>7. CallPhases' /\ InSubmission'
  BY <1>1, <1>4 DEF VideoInv, CallPhases, InSubmission
<1>8. UntornWhole' /\ (torn \in BOOLEAN)'
  BY <1>1, <1>3 DEF UntornWhole, DeliveredWhole
<1> QED BY <1>3, <1>5, <1>6, <1>7, <1>8 DEF VideoInv

\* Before the first stream nothing is collected.
LEMMA VideoInitInv == VideoInit => VideoInv
<1> SUFFICES ASSUME VideoInit PROVE VideoInv
  OBVIOUS
<1>1. /\ asm = InitReassembly /\ fec = EmptyFec /\ pc = "idle" /\ pkt = NoPacket /\ rep = NoPacket
      /\ drain_ret = "end" /\ rec_ret = "return" /\ sent = <<>> /\ torn = FALSE
  BY DEF VideoInit, InitFec
<1>2. IsAsm(asm) /\ asm.assembly = <<>> /\ asm.verdict = "none" /\ asm.out = <<>>
  BY <1>1 DEF InitReassembly, IsAsm, AsmFields
<1>3. Typed(asm)
  BY <1>2, ReassemblyAssumption DEF Typed, Verdicts
<1>4. HostFrames
  BY <1>1 DEF HostFrames
<1>5. Collected
  BY <1>1, EmptyCollected
<1>6. CallPhases /\ InSubmission
  BY <1>1 DEF CallPhases, InSubmission
<1>7. UntornWhole /\ torn \in BOOLEAN
  BY <1>1, <1>2 DEF UntornWhole, DeliveredWhole
<1> QED BY <1>3, <1>4, <1>5, <1>6, <1>7 DEF VideoInv

\* Every step of the video path keeps the invariant.
LEMMA VideoStep ==
  ASSUME VideoInv, [VideoNext]_videoVars
  PROVE  VideoInv'
<1>1. CASE UNCHANGED videoVars
  <2>1. /\ sent' = sent /\ asm' = asm /\ fec' = fec /\ pc' = pc /\ pkt' = pkt /\ rep' = rep
        /\ next' = next /\ drain_ret' = drain_ret /\ rec_ret' = rec_ret /\ torn' = torn
    BY <1>1 DEF videoVars, callVars
  <2>2. Sent' = Sent /\ Wire' = Wire
    BY <2>1 DEF Sent, Wire, Packets
  <2>3. HostFrames' /\ Collected' /\ CallPhases' /\ InSubmission'
    BY <2>1, <2>2 DEF VideoInv, HostFrames, Collected, CallPhases, InSubmission, Cur
  <2> QED BY <2>1, <2>2, <2>3 DEF VideoInv, UntornWhole, DeliveredWhole
<1>2. CASE VideoNext
  BY <1>2, SendStep, ReceiveStep, FecStepKeeps, TrimStep, FlushStep, WatchStep, RestartStep
     DEF VideoNext
<1> QED BY <1>1, <1>2

(***************************************************************************)
(* The inductive invariant of the video path, for every mode, window, limit*)
(* and number of parity packets, any frames and any order of packets.      *)
(***************************************************************************)
THEOREM VideoInvariant == VideoSpec => []VideoInv
<1>1. VideoInv /\ [VideoNext]_videoVars => VideoInv'
  BY VideoStep
<1> QED BY VideoInitInv, <1>1, PTL DEF VideoSpec

\* The invariant has the types the runs check.
LEMMA VideoInvTypes == VideoInv => VideoTypeOK
<1> SUFFICES ASSUME VideoInv PROVE VideoTypeOK
  OBVIOUS
<1>1. Wire = UNION {Packets(f) : f \in Sent}
  BY DEF Wire
<1>2. \A p \in Wire : p # NoPacket
  BY SentFacts DEF VideoInv
<1>3. NoCurrent \notin Sent
  BY SentFacts DEF VideoInv
<1> QED BY <1>1, <1>2, <1>3
        DEF VideoInv, Collected, CallPhases, Typed, Verdicts, VideoTypeOK

(***************************************************************************)
(* What FEC has collected and the packets in hand are of the stream, and   *)
(* the packet slots, the window of deferred packets and the assembly buffer*)
(* are never overrun (rtp_fec.c, rtp_reassembly.c).                        *)
(***************************************************************************)
THEOREM VideoTypes == VideoSpec => []VideoTypeOK
BY VideoInvariant, VideoInvTypes, PTL

(***************************************************************************)
(* Whatever is lost, repeated, reordered, deferred or rebuilt, and whenever*)
(* a backlog is dropped or a stream is started: what reaches the frame     *)
(* callback of a protected stream is one whole frame of the host, in order,*)
(* unless a watchdog of another thread cleared the decode flag while that  *)
(* frame was being submitted (submit_frame_packets, rtp_fec.c).            *)
(***************************************************************************)
THEOREM FramesUntorn == VideoSpec => []UntornWhole
<1>1. VideoInv => UntornWhole
  BY DEF VideoInv
<1> QED BY VideoInvariant, <1>1, PTL
=============================================================================
