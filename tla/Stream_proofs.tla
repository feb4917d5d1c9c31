---------------------------- MODULE Stream_proofs ----------------------------
(***************************************************************************)
(* What a running stream promises, for every value of the constants: the   *)
(* packets queued for the decoder stay whole and in order, and the buttons *)
(* that go out to the host are not those the overlay took.                 *)
(*                                                                         *)
(* OneTailWriter is not inductive.  It needs which threads run in which    *)
(* phase of a stream (Phases: the ring is only zeroed while no packet is   *)
(* in it), what the receive thread knows of the slot it is filling         *)
(* (Holding), and that the backlog the decoder measured is still queued    *)
(* when it trims (Backlog).  NoMenuLeak needs that the overlay remembers   *)
(* all that was pressed under it and is still held (Withheld).             *)
(***************************************************************************)
EXTENDS PacketRing, Input, TLAPS

(***************************************************************************)
(* The receive thread exists between StartReceiver and JoinReceiver, the   *)
(* decoder thread between StartDecoder and JoinDecoder.                    *)
(***************************************************************************)
Phases ==
    /\ ui \in {"menu", "starting", "joined"} => rpc = "off" /\ ~direct
    /\ ui = "starting" => /\ head = 0 /\ tail = 0 /\ published = 0 /\ taken = 0
                          /\ dpc \in {"drain", "sleep"} /\ g_dec_running

\* The packet in hand is the next to be published; one received directly is in its slot.
Holding ==
    rpc = "held" => /\ pkt.n = published
                    /\ direct /\ ~raced => slots[head].n = pkt.n /\ slots[head].start = IsStart(pkt.kind)

\* What the decoder is about to cut is still in the ring.
Backlog == dpc = "trim" /\ ~raced => queued \in 1 .. Used

RingIInv == RingTypeOK /\ Phases /\ Holding /\ Backlog /\ OneTailWriter

-----------------------------------------------------------------------------
(***************************************************************************)
(* Arithmetic of the indices.                                              *)
(***************************************************************************)

\* A remainder one lap around.
LEMMA ModCases ==
  ASSUME NEW m \in Nat \ {0}, NEW x \in Int, -m <= x, x < 2 * m
  PROVE  x % m = IF x < 0 THEN x + m ELSE IF x < m THEN x ELSE x - m
<1>1. CASE x < 0
  BY <1>1
<1>2. CASE x >= 0 /\ x < m
  BY <1>2
<1>3. CASE x >= m
  BY <1>3
<1> QED BY <1>1, <1>2, <1>3

\* The ring has room for two packets at least.
LEMMA SlotsType == Slots \in Nat /\ Slots > 2 /\ ParityMark \in Nat /\ BodyMark \in Nat
                   /\ TrimMark \in Nat /\ TrimMark > 0 /\ EmergencyDrops \in Nat /\ EmergencyDrops > 0
BY PacketRingAssumption

\* How far h is ahead of t, the k-th slot from t, and the same of the numbers of packets.
Gap(h, t) == (h - t) % Slots
Slot(t, k) == (t + k) % Slots
Count(p, c) == (p - c) % (2 * Slots)
Number(c, k) == (c + k) % (2 * Slots)

\* Each of the four, without the remainder.
LEMMA GapIs ==
  ASSUME NEW h \in Index, NEW t \in Index
  PROVE  Gap(h, t) = (IF t <= h THEN h - t ELSE h - t + Slots) /\ Gap(h, t) \in Index
<1>1. h - t \in Int /\ Slots \in Nat \ {0} /\ -Slots <= h - t /\ h - t < Slots /\ h - t < 2 * Slots
  BY SlotsType DEF Index
<1> DEFINE r == (h - t) % Slots
<1>2. r = IF h - t < 0 THEN h - t + Slots ELSE IF h - t < Slots THEN h - t ELSE h - t - Slots
  BY <1>1, ModCases
<1> HIDE DEF r
<1>3. r = (IF t <= h THEN h - t ELSE h - t + Slots) /\ r \in Index
  BY <1>1, <1>2 DEF Index
<1> QED BY <1>3 DEF r, Gap

LEMMA SlotIs ==
  ASSUME NEW t \in Index, NEW k \in Index
  PROVE  Slot(t, k) = (IF t + k < Slots THEN t + k ELSE t + k - Slots) /\ Slot(t, k) \in Index
<1>1. t + k \in Int /\ Slots \in Nat \ {0} /\ 0 <= t + k /\ -Slots <= t + k /\ t + k < 2 * Slots
  BY SlotsType DEF Index
<1> DEFINE r == (t + k) % Slots
<1>2. PICK x \in Int : x = t + k
  BY <1>1
<1>3. x % Slots = IF x < 0 THEN x + Slots ELSE IF x < Slots THEN x ELSE x - Slots
  BY <1>1, <1>2, ModCases
<1>4. r = IF x < Slots THEN x ELSE x - Slots
  BY <1>1, <1>2, <1>3
<1> HIDE DEF r
<1>5. r = (IF t + k < Slots THEN t + k ELSE t + k - Slots) /\ r \in Index
  BY <1>1, <1>2, <1>4 DEF Index
<1> QED BY <1>5 DEF r, Slot

LEMMA CountIs ==
  ASSUME NEW p \in Numbers, NEW c \in Numbers
  PROVE  Count(p, c) = (IF c <= p THEN p - c ELSE p - c + 2 * Slots) /\ Count(p, c) \in Numbers
<1> DEFINE m == 2 * Slots
           r == (p - c) % m
<1>0. Numbers = 0 .. m - 1 /\ m \in Nat \ {0}
  BY SlotsType DEF Numbers
<1> HIDE DEF m
<1>1. p - c \in Int /\ -m <= p - c /\ p - c < m /\ p - c < 2 * m
  BY <1>0
<1>2. r = IF p - c < 0 THEN p - c + m ELSE IF p - c < m THEN p - c ELSE p - c - m
  BY <1>0, <1>1, ModCases
<1> HIDE DEF r
<1>3. r = (IF c <= p THEN p - c ELSE p - c + m) /\ r \in Numbers
  BY <1>0, <1>1, <1>2
<1> QED BY <1>3 DEF r, Count, m

LEMMA NumberIs ==
  ASSUME NEW c \in Numbers, NEW k \in Numbers
  PROVE  Number(c, k) = (IF c + k < 2 * Slots THEN c + k ELSE c + k - 2 * Slots) /\ Number(c, k) \in Numbers
<1> DEFINE m == 2 * Slots
           r == (c + k) % m
<1>0. Numbers = 0 .. m - 1 /\ m \in Nat \ {0}
  BY SlotsType DEF Numbers
<1> HIDE DEF m
<1>1. c + k \in Int /\ -m <= c + k /\ 0 <= c + k /\ c + k < 2 * m
  BY <1>0
<1>2. PICK x \in Int : x = c + k
  BY <1>1
<1>3. x % m = IF x < 0 THEN x + m ELSE IF x < m THEN x ELSE x - m
  BY <1>0, <1>1, <1>2, ModCases
<1>4. r = IF x < m THEN x ELSE x - m
  BY <1>0, <1>1, <1>2, <1>3
<1> HIDE DEF r
<1>5. r = (IF c + k < m THEN c + k ELSE c + k - m) /\ r \in Numbers
  BY <1>0, <1>1, <1>2, <1>4
<1> QED BY <1>5 DEF r, Number, m

\* The slot after one, and the number after one.
LEMMA SuccIs ==
  ASSUME NEW h \in Index
  PROVE  Succ(h) = Slot(h, 1) /\ Succ(h) = (IF h = Slots - 1 THEN 0 ELSE h + 1) /\ Succ(h) \in Index
<1>1. 1 \in Index
  BY SlotsType DEF Index
<1>2. Succ(h) = Slot(h, 1)
  BY DEF Succ, Slot
<1>3. Slot(h, 1) = (IF h + 1 < Slots THEN h + 1 ELSE h + 1 - Slots) /\ Slot(h, 1) \in Index
  BY <1>1, SlotIs
<1> QED BY <1>2, <1>3, SlotsType DEF Index

\* A position is a number.
LEMMA IndexNumbers == Index \subseteq Numbers /\ 0 \in Index /\ 1 \in Index
BY SlotsType DEF Index, Numbers

-----------------------------------------------------------------------------
(***************************************************************************)
(* What the steps do to the packets in the ring, apart from the threads.   *)
(***************************************************************************)

\* A ring from t to h holds the packets numbered from c to p.
Holds(h, t, s, p, c) ==
    /\ Gap(h, t) = Count(p, c)
    /\ \A k \in 0 .. Gap(h, t) - 1 : s[Slot(t, k)].n = Number(c, k) /\ s[Slot(t, k)].len

RingOf == [Index -> [n : Numbers, start : BOOLEAN, len : BOOLEAN]]

\* RingIntact is about the contents of the ring and the reader of its oldest slot.
LEMMA IntactIs == RingIntact <=> Holds(head, tail, slots, published, taken) /\ (dpc = "process" => Used > 0)
BY DEF RingIntact, Holds, Used, Gap, Count, Slot, Number

\* The slot at head is outside the queue: what is written there disturbs nothing.
LEMMA WriteAtHead ==
  ASSUME NEW h \in Index, NEW t \in Index, NEW s \in RingOf, NEW z \in RingOf, NEW p \in Numbers, NEW c \in Numbers,
         Holds(h, t, s, p, c), \A i \in Index \ {h} : z[i] = s[i]
  PROVE  Holds(h, t, z, p, c)
<1> SUFFICES ASSUME NEW k \in 0 .. Gap(h, t) - 1
             PROVE  z[Slot(t, k)] = s[Slot(t, k)]
  BY DEF Holds
<1>1. Gap(h, t) = (IF t <= h THEN h - t ELSE h - t + Slots) /\ Gap(h, t) \in Index
  BY GapIs
<1>2. k \in Index /\ k < Gap(h, t)
  BY <1>1, SlotsType DEF Index
<1>3. Slot(t, k) = (IF t + k < Slots THEN t + k ELSE t + k - Slots) /\ Slot(t, k) \in Index
  BY <1>2, SlotIs
<1>4. Slot(t, k) # h
  BY <1>1, <1>2, <1>3, SlotsType DEF Index
<1> QED BY <1>3, <1>4

\* Publishing the slot at head adds the packet p.
LEMMA PublishAtHead ==
  ASSUME NEW h \in Index, NEW t \in Index, NEW s \in RingOf, NEW p \in Numbers, NEW c \in Numbers,
         Holds(h, t, s, p, c), Succ(h) # t, s[h].n = p, s[h].len
  PROVE  /\ Holds(Succ(h), t, s, Number(p, 1), c)
         /\ Gap(Succ(h), t) = Gap(h, t) + 1
<1> DEFINE U == Gap(h, t)
<1>0. /\ U = (IF t <= h THEN h - t ELSE h - t + Slots) /\ U \in Index
      /\ Succ(h) = (IF h = Slots - 1 THEN 0 ELSE h + 1) /\ Succ(h) \in Index
      /\ Number(p, 1) = (IF p + 1 < 2 * Slots THEN p + 1 ELSE p + 1 - 2 * Slots) /\ Number(p, 1) \in Numbers
  BY GapIs, SuccIs, NumberIs, IndexNumbers
<1>1. /\ Gap(Succ(h), t) = (IF t <= Succ(h) THEN Succ(h) - t ELSE Succ(h) - t + Slots)
      /\ Count(Number(p, 1), c) = (IF c <= Number(p, 1) THEN Number(p, 1) - c ELSE Number(p, 1) - c + 2 * Slots)
      /\ Count(p, c) = (IF c <= p THEN p - c ELSE p - c + 2 * Slots) /\ Count(p, c) \in Numbers
      /\ Slot(t, U) = (IF t + U < Slots THEN t + U ELSE t + U - Slots)
      /\ Number(c, U) = (IF c + U < 2 * Slots THEN c + U ELSE c + U - 2 * Slots)
  BY <1>0, GapIs, CountIs, SlotIs, NumberIs, IndexNumbers
<1>2. U = Count(p, c)
  BY DEF Holds
<1> HIDE DEF U
<1>3. Gap(Succ(h), t) = U + 1
  BY <1>0, <1>1, SlotsType DEF Index
<1>5. Count(Number(p, 1), c) = U + 1
  BY <1>0, <1>1, <1>2, SlotsType DEF Index, Numbers
<1>6. Slot(t, U) = h
  BY <1>0, <1>1, SlotsType DEF Index
<1>7. Number(c, U) = p
  BY <1>0, <1>1, <1>2, SlotsType DEF Index, Numbers
<1>8. ASSUME NEW k \in 0 .. U
      PROVE  s[Slot(t, k)].n = Number(c, k) /\ s[Slot(t, k)].len
  <2>1. CASE k = U
    BY <2>1, <1>6, <1>7
  <2>2. CASE k # U
    <3>1. k \in 0 .. U - 1
      BY <2>2, <1>0 DEF Index
    <3> QED BY <3>1 DEF Holds, U
  <2> QED BY <2>1, <2>2
<1>9. 0 .. Gap(Succ(h), t) - 1 = 0 .. U
  BY <1>0, <1>3 DEF Index
<1> QED BY <1>3, <1>5, <1>8, <1>9 DEF Holds, U

\* Freeing the slot at tail takes the packet c.
LEMMA FreeAtTail ==
  ASSUME NEW h \in Index, NEW t \in Index, NEW s \in RingOf, NEW z \in RingOf, NEW p \in Numbers, NEW c \in Numbers,
         Holds(h, t, s, p, c), Gap(h, t) > 0, \A i \in Index \ {t} : z[i] = s[i]
  PROVE  Holds(h, Succ(t), z, p, Number(c, 1))
<1> DEFINE U == Gap(h, t)
           u == Succ(t)
           d == Number(c, 1)
<1>0. /\ U = (IF t <= h THEN h - t ELSE h - t + Slots) /\ U \in Index
      /\ u = (IF t = Slots - 1 THEN 0 ELSE t + 1) /\ u \in Index
      /\ d = (IF c + 1 < 2 * Slots THEN c + 1 ELSE c + 1 - 2 * Slots) /\ d \in Numbers
  BY GapIs, SuccIs, NumberIs, IndexNumbers
<1>1. /\ Gap(h, u) = (IF u <= h THEN h - u ELSE h - u + Slots)
      /\ Count(p, d) = (IF d <= p THEN p - d ELSE p - d + 2 * Slots)
      /\ Count(p, c) = (IF c <= p THEN p - c ELSE p - c + 2 * Slots)
  BY <1>0, GapIs, CountIs
<1>2. U = Count(p, c) /\ U > 0
  BY DEF Holds
<1> HIDE DEF U, u, d
<1>3. Gap(h, u) = U - 1
  BY <1>0, <1>1, <1>2, SlotsType DEF Index
<1>4. Count(p, d) = U - 1
  BY <1>0, <1>1, <1>2, SlotsType DEF Index, Numbers
<1>5. ASSUME NEW k \in 0 .. Gap(h, u) - 1
      PROVE  z[Slot(u, k)].n = Number(d, k) /\ z[Slot(u, k)].len
  <2> DEFINE j == k + 1
  <2>1. k \in Index /\ k \in Numbers /\ j \in Index /\ j \in Numbers /\ j \in 0 .. U - 1 /\ j = k + 1
    BY <1>0, <1>3, IndexNumbers, SlotsType DEF Index
  <2> HIDE DEF j
  <2>2. /\ Slot(u, k) = (IF u + k < Slots THEN u + k ELSE u + k - Slots)
        /\ Slot(t, j) = (IF t + j < Slots THEN t + j ELSE t + j - Slots) /\ Slot(t, j) \in Index
        /\ Number(d, k) = (IF d + k < 2 * Slots THEN d + k ELSE d + k - 2 * Slots)
        /\ Number(c, j) = (IF c + j < 2 * Slots THEN c + j ELSE c + j - 2 * Slots)
    BY <1>0, <2>1, SlotIs, NumberIs
  <2>3. Slot(u, k) = Slot(t, j) /\ Slot(t, j) # t
    BY <1>0, <2>1, <2>2, SlotsType DEF Index
  <2>4. Number(d, k) = Number(c, j)
    BY <1>0, <2>1, <2>2, SlotsType DEF Index, Numbers
  <2> QED BY <2>1, <2>2, <2>3, <2>4 DEF Holds, U
<1> QED BY <1>3, <1>4, <1>5 DEF Holds, u, d

\* Cutting the queue down to its newest packets leaves those.
LEMMA CutToNewest ==
  ASSUME NEW h \in Index, NEW t \in Index, NEW s \in RingOf, NEW z \in RingOf, NEW p \in Numbers, NEW c \in Numbers,
         Holds(h, t, s, p, c), NEW keep \in 0 .. Gap(h, t),
         \A i \in Index : Gap(h, i) \in 1 .. keep => z[i] = s[i]
  PROVE  /\ Holds(h, Gap(h, keep), z, p, Count(p, keep))
         /\ Gap(h, Gap(h, keep)) = keep
<1> DEFINE U == Gap(h, t)
           u == Gap(h, keep)
           d == Count(p, keep)
<1>0. U = (IF t <= h THEN h - t ELSE h - t + Slots) /\ U \in Index
  BY GapIs
<1>1. keep \in Index /\ keep <= U /\ keep \in Numbers
  BY <1>0, IndexNumbers, SlotsType DEF Index
<1>2. /\ u = (IF keep <= h THEN h - keep ELSE h - keep + Slots) /\ u \in Index
      /\ d = (IF keep <= p THEN p - keep ELSE p - keep + 2 * Slots) /\ d \in Numbers
      /\ Count(p, c) = (IF c <= p THEN p - c ELSE p - c + 2 * Slots)
  BY <1>1, GapIs, CountIs
<1>3. U = Count(p, c)
  BY DEF Holds
<1> HIDE DEF U, u, d
<1>4. Gap(h, u) = (IF u <= h THEN h - u ELSE h - u + Slots)
  BY <1>2, GapIs
<1>5. Count(p, d) = (IF d <= p THEN p - d ELSE p - d + 2 * Slots)
  BY <1>2, CountIs
<1>6. Gap(h, u) = keep
  BY <1>1, <1>2, <1>4, SlotsType DEF Index
<1>7. Count(p, d) = keep
  BY <1>1, <1>2, <1>5, SlotsType DEF Index, Numbers
<1>8. ASSUME NEW k \in 0 .. keep - 1
      PROVE  z[Slot(u, k)].n = Number(d, k) /\ z[Slot(u, k)].len
  <2> DEFINE j == U - keep + k
  <2>1. k \in Index /\ k < keep /\ k \in Numbers
    BY <1>0, <1>1, IndexNumbers, SlotsType DEF Index
  <2>2. j \in 0 .. U - 1 /\ j \in Index /\ j \in Numbers /\ j = U - keep + k
    BY <1>0, <1>1, <2>1, IndexNumbers, SlotsType DEF Index
  <2> HIDE DEF j
  <2>3. /\ Slot(u, k) = (IF u + k < Slots THEN u + k ELSE u + k - Slots) /\ Slot(u, k) \in Index
        /\ Slot(t, j) = (IF t + j < Slots THEN t + j ELSE t + j - Slots) /\ Slot(t, j) \in Index
        /\ Number(d, k) = (IF d + k < 2 * Slots THEN d + k ELSE d + k - 2 * Slots)
        /\ Number(c, j) = (IF c + j < 2 * Slots THEN c + j ELSE c + j - 2 * Slots)
    BY <1>2, <2>1, <2>2, SlotIs, NumberIs
  <2>4. Gap(h, Slot(t, j)) = (IF Slot(t, j) <= h THEN h - Slot(t, j) ELSE h - Slot(t, j) + Slots)
    BY <2>3, GapIs
  <2>5. Slot(u, k) = Slot(t, j)
    <3>1. CASE t <= h /\ keep <= h
      BY <3>1, <1>0, <1>1, <1>2, <2>1, <2>2, <2>3, SlotsType DEF Index
    <3>2. CASE t <= h /\ keep > h
      BY <3>2, <1>0, <1>1, <1>2, <2>1, <2>2, <2>3, SlotsType DEF Index
    <3>3. CASE t > h /\ keep <= h
      BY <3>3, <1>0, <1>1, <1>2, <2>1, <2>2, <2>3, SlotsType DEF Index
    <3>4. CASE t > h /\ keep > h
      BY <3>4, <1>0, <1>1, <1>2, <2>1, <2>2, <2>3, SlotsType DEF Index
    <3> QED BY <3>1, <3>2, <3>3, <3>4, <1>1 DEF Index
  <2>6. Number(d, k) = Number(c, j)
    <3>1. CASE keep <= p
      BY <3>1, <1>0, <1>1, <1>2, <1>3, <2>1, <2>2, <2>3, SlotsType DEF Index, Numbers
    <3>2. CASE keep > p
      BY <3>2, <1>0, <1>1, <1>2, <1>3, <2>1, <2>2, <2>3, SlotsType DEF Index, Numbers
    <3> QED BY <3>1, <3>2, <1>1 DEF Index, Numbers
  <2>7. Gap(h, Slot(t, j)) \in 1 .. keep
    BY <1>0, <1>1, <2>1, <2>2, <2>3, <2>4, SlotsType DEF Index
  <2>8. z[Slot(t, j)] = s[Slot(t, j)]
    BY <2>3, <2>7
  <2> QED BY <2>2, <2>5, <2>6, <2>8 DEF Holds, U
<1> QED BY <1>6, <1>7, <1>8 DEF Holds, u, d

-----------------------------------------------------------------------------
(***************************************************************************)
(* The initial states, and types.                                          *)
(***************************************************************************)

\* A freed slot, and no packet in hand.
LEMMA StaleType ==
  /\ Stale \in [n : Numbers, start : BOOLEAN, len : BOOLEAN]
  /\ [i \in Index |-> Stale] \in RingOf
  /\ Nothing \in [n : Numbers, kind : Kinds]
BY IndexNumbers DEF Stale, RingOf, Nothing, Kinds

LEMMA RingInitInv == RingInit => RingIInv
<1> SUFFICES ASSUME RingInit PROVE RingIInv
  OBVIOUS
<1>1. RingTypeOK
  <2>1. 0 \in 0 .. EmergencyDrops /\ 0 \in 0 .. Slots
    BY SlotsType
  <2> QED BY <2>1, IndexNumbers, StaleType DEF RingInit, RingTypeOK, RingOf
<1>2. Phases /\ Holding /\ Backlog
  BY DEF RingInit, Phases, Holding, Backlog
<1>3. Gap(0, 0) = 0 /\ Count(0, 0) = 0
  BY IndexNumbers, GapIs, CountIs
<1>4. Holds(head, tail, slots, published, taken)
  BY <1>3 DEF RingInit, Holds
<1>5. OneTailWriter
  BY <1>4, IntactIs DEF RingInit, OneTailWriter
<1> QED BY <1>1, <1>2, <1>5 DEF RingIInv

\* The backlog is a number of slots.
LEMMA UsedType == RingTypeOK => Used = Gap(head, tail) /\ Used \in Index
BY GapIs DEF RingTypeOK, Used, Gap

\* Positions and numbers stay in their ranges whatever is subtracted.
LEMMA Wrapped ==
  ASSUME NEW x \in Int
  PROVE  x % Slots \in Index /\ x % (2 * Slots) \in Numbers
<1>1. \A m \in Nat \ {0} : x % m \in 0 .. m - 1
  OBVIOUS
<1> DEFINE m == 2 * Slots
<1>2. Slots \in Nat \ {0} /\ m \in Nat \ {0}
  BY SlotsType
<1> HIDE DEF m
<1>3. x % Slots \in 0 .. Slots - 1 /\ x % m \in 0 .. m - 1
  BY <1>1, <1>2
<1> QED BY <1>3 DEF Index, Numbers, m

\* Every cut the decoder may choose is a number.
LEMMA KeepsType ==
  ASSUME RingTypeOK, NEW keep \in KeepsFor(queued) \cup {Used}
  PROVE  keep \in Int /\ (queued \in 1 .. Used => keep \in 0 .. Used)
<1>1. queued \in Nat /\ Used \in Nat
  BY UsedType, SlotsType DEF RingTypeOK, Index
<1>2. queued \div 2 \in Nat /\ queued \div 2 <= queued
  BY <1>1
<1> QED BY <1>1, <1>2 DEF KeepsFor

LEMMA RingTypeStep == RingTypeOK /\ [RingNext]_ringVars => RingTypeOK'
<1> SUFFICES ASSUME RingTypeOK, [RingNext]_ringVars PROVE RingTypeOK'
  OBVIOUS
<1> USE DEF RingTypeOK, ring, receiver, decoder, main
<1>1. CASE StartDecoder
  BY <1>1, StaleType, IndexNumbers DEF StartDecoder, RingOf
<1>2. ASSUME NEW ok \in BOOLEAN, StartReceiver(ok) PROVE RingTypeOK'
  BY <1>2, StaleType, IndexNumbers DEF StartReceiver, RingOf
<1>3. CASE ControlStarts \/ ControlFails \/ StreamEnds \/ StopDecoder
  BY <1>3 DEF ControlStarts, ControlFails, StreamEnds, StopDecoder
<1>4. CASE JoinReceiver
  BY <1>4, StaleType DEF JoinReceiver
<1>5. CASE JoinDecoder
  BY <1>5, SlotsType DEF JoinDecoder
<1>6. CASE Receive
  BY <1>6 DEF Receive, IsStart, RecvDirect
<1>7. CASE ReceiveEnds
  BY <1>7 DEF ReceiveEnds
<1>8. CASE Refuse
  BY <1>8, StaleType DEF Refuse, TurnOver
<1>9. CASE Drop
  <2>1. s_drop_count' \in 0 .. EmergencyDrops
    BY <1>9, SlotsType DEF Drop
  <2>2. slots' \in RingOf
    BY <1>9, StaleType DEF Drop, RingOf
  <2> QED BY <1>9, <2>1, <2>2, StaleType DEF Drop, TurnOver, RingOf
<1>10. CASE Publish
  <2>1. head' \in Index /\ published' \in Numbers
    <3>1. published + 1 \in Int
      BY SlotsType DEF Numbers
    <3> QED BY <1>10, <3>1, Wrapped, SuccIs DEF Publish
  <2>2. slots' \in RingOf
    <3>1. PICK e \in [n : Numbers, start : BOOLEAN, len : BOOLEAN] : slots' = [slots EXCEPT ![head] = e]
      <4>1. CASE direct
        <5>1. slots' = [slots EXCEPT ![head] = [n |-> slots[head].n, start |-> slots[head].start, len |-> TRUE]]
          BY <1>10, <4>1 DEF Publish
        <5> QED BY <5>1
      <4>2. CASE ~direct
        <5>1. slots' = [slots EXCEPT ![head] = [n |-> pkt.n, start |-> IsStart(pkt.kind), len |-> TRUE]]
          BY <1>10, <4>2 DEF Publish
        <5>2. [n |-> pkt.n, start |-> IsStart(pkt.kind), len |-> TRUE] \in [n : Numbers, start : BOOLEAN, len : BOOLEAN]
          <6>1. IsStart(pkt.kind) \in BOOLEAN
            <7>1. CASE pkt.kind \in {"start", "idr"}
              BY <7>1 DEF IsStart
            <7>2. CASE pkt.kind \notin {"start", "idr"}
              BY <7>2 DEF IsStart
            <7> QED BY <7>1, <7>2
          <6> QED BY <6>1
        <5> QED BY <5>1, <5>2
      <4> QED BY <4>1, <4>2
    <3> QED BY <3>1 DEF RingOf
  <2> QED BY <1>10, <2>1, <2>2, StaleType DEF Publish, TurnOver, RingOf
<1>11. CASE TakePacket \/ Sleep \/ Wake \/ DecoderEnds
  BY <1>11 DEF TakePacket, Sleep, Wake, DecoderEnds
<1>12. CASE FreePacket
  <2>1. tail' \in Index /\ taken' \in Numbers
    <3>1. taken + 1 \in Int
      BY SlotsType DEF Numbers
    <3> QED BY <1>12, <3>1, Wrapped, SuccIs DEF FreePacket
  <2> QED BY <1>12, <2>1, StaleType DEF FreePacket
<1>13. CASE Measure
  BY <1>13, UsedType, SlotsType DEF Measure, Index
<1>14. CASE Trim
  <2>1. PICK keep \in KeepsFor(queued) \cup {Used} :
          /\ tail' = (head - keep) % Slots
          /\ taken' = (published - keep) % (2 * Slots)
          /\ slots' = [i \in Index |-> IF (head - i) % Slots \in 1 .. keep \/ i = head THEN slots[i] ELSE Stale]
    BY <1>14 DEF Trim
  <2>2. keep \in Int /\ head - keep \in Int /\ published - keep \in Int
    BY KeepsType, SlotsType DEF Index, Numbers
  <2>3. tail' \in Index /\ taken' \in Numbers
    BY <2>1, <2>2, Wrapped
  <2>4. slots' \in RingOf
    BY <2>1, StaleType DEF RingOf
  <2> QED BY <1>14, <2>3, <2>4, SlotsType DEF Trim, RingOf
<1>15. CASE UNCHANGED ringVars
  BY <1>15 DEF ringVars
<1> QED BY <1>1, <1>2, <1>3, <1>4, <1>5, <1>6, <1>7, <1>8, <1>9, <1>10, <1>11, <1>12, <1>13, <1>14, <1>15
        DEF RingNext, Main, Receiver, Decoder

-----------------------------------------------------------------------------
(***************************************************************************)
(* The invariant, one part at a time.                                      *)
(***************************************************************************)

\* The threads run in the phases of a stream they are started and joined for.
LEMMA PhasesStep == RingIInv /\ [RingNext]_ringVars => Phases'
<1> SUFFICES ASSUME RingIInv, [RingNext]_ringVars PROVE Phases'
  OBVIOUS
<1> USE DEF RingIInv, Phases, ring, receiver, decoder, main
<1>1. CASE StartDecoder
  BY <1>1 DEF StartDecoder
<1>2. ASSUME NEW ok \in BOOLEAN, StartReceiver(ok) PROVE Phases'
  BY <1>2 DEF StartReceiver
<1>3. CASE ControlStarts \/ ControlFails \/ StreamEnds \/ JoinReceiver
  BY <1>3 DEF ControlStarts, ControlFails, StreamEnds, JoinReceiver
<1>4. CASE StopDecoder \/ JoinDecoder
  BY <1>4 DEF StopDecoder, JoinDecoder
<1>5. CASE Receive \/ ReceiveEnds
  BY <1>5 DEF Receive, ReceiveEnds
<1>6. CASE Refuse \/ Drop \/ Publish
  BY <1>6 DEF Refuse, Drop, Publish, TurnOver
<1>7. CASE TakePacket \/ Sleep \/ Wake \/ DecoderEnds
  BY <1>7 DEF TakePacket, Sleep, Wake, DecoderEnds
<1>8. CASE FreePacket \/ Measure \/ Trim
  BY <1>8 DEF FreePacket, Measure, Trim
<1>9. CASE UNCHANGED ringVars
  BY <1>9 DEF ringVars
<1> QED BY <1>1, <1>2, <1>3, <1>4, <1>5, <1>6, <1>7, <1>8, <1>9 DEF RingNext, Main, Receiver, Decoder

\* Only the receive thread itself writes the slot it receives into.
LEMMA HoldingStep == RingIInv /\ [RingNext]_ringVars => Holding'
<1> SUFFICES ASSUME RingIInv, [RingNext]_ringVars PROVE Holding'
  OBVIOUS
<1> USE DEF RingIInv, Holding, ring, receiver, decoder, main
<1>1. CASE StartDecoder
  BY <1>1 DEF StartDecoder, Phases
<1>2. ASSUME NEW ok \in BOOLEAN, StartReceiver(ok) PROVE Holding'
  BY <1>2 DEF StartReceiver
<1>3. CASE ControlStarts \/ ControlFails \/ StreamEnds \/ JoinReceiver
  BY <1>3 DEF ControlStarts, ControlFails, StreamEnds, JoinReceiver
<1>4. CASE StopDecoder \/ JoinDecoder
  BY <1>4 DEF StopDecoder, JoinDecoder
<1>5. CASE Receive
  BY <1>5 DEF Receive, RingTypeOK
<1>6. CASE ReceiveEnds \/ Refuse \/ Drop \/ Publish
  BY <1>6 DEF ReceiveEnds, Refuse, Drop, Publish, TurnOver
<1>7. CASE TakePacket \/ Sleep \/ Wake \/ DecoderEnds \/ Measure
  BY <1>7 DEF TakePacket, Sleep, Wake, DecoderEnds, Measure
<1>8. CASE FreePacket
  <2>1. ~raced => head # tail
    <3>1. ~raced => Used > 0
      BY <1>8 DEF FreePacket, OneTailWriter, RingIntact
    <3>2. Used = Gap(head, tail)
      BY UsedType
    <3>3. Gap(head, tail) = (IF tail <= head THEN head - tail ELSE head - tail + Slots)
      BY GapIs DEF RingTypeOK
    <3> QED BY <3>1, <3>2, <3>3, SlotsType DEF RingTypeOK, Index
  <2> QED BY <1>8, <2>1 DEF FreePacket, RingTypeOK
<1>9. CASE Trim
  <2>1. slots'[head] = slots[head]
    BY <1>9 DEF Trim, RingTypeOK
  <2> QED BY <1>9, <2>1 DEF Trim
<1>10. CASE UNCHANGED ringVars
  BY <1>10 DEF ringVars
<1> QED BY <1>1, <1>2, <1>3, <1>4, <1>5, <1>6, <1>7, <1>8, <1>9, <1>10 DEF RingNext, Main, Receiver, Decoder

\* A step that leaves the ring alone.
LEMMA RingAlone ==
  ASSUME RingIInv, UNCHANGED <<ring, published, taken, raced>>,
         dpc' = "process" => dpc = "process" \/ Used > 0
  PROVE  OneTailWriter' /\ Used' = Used
BY DEF RingIInv, OneTailWriter, RingIntact, Used, Succ, ring

\* A step that writes the slot at head and nothing else of the ring.
LEMMA HeadWritten ==
  ASSUME RingIInv, RingTypeOK', UNCHANGED <<head, tail, published, taken, raced>>, dpc' = dpc,
         \A i \in Index \ {head} : slots'[i] = slots[i]
  PROVE  OneTailWriter' /\ Used' = Used
<1>1. Used' = Used
  BY DEF Used
<1>2. ASSUME ~raced' PROVE RingIntact'
  <2>1. Holds(head, tail, slots, published, taken) /\ (dpc = "process" => Used > 0)
    BY <1>2, IntactIs DEF RingIInv, OneTailWriter
  <2>2. slots \in RingOf /\ slots' \in RingOf
    BY DEF RingIInv, RingTypeOK, RingOf
  <2>3. Holds(head, tail, slots', published, taken)
    BY <2>1, <2>2, WriteAtHead DEF RingIInv, RingTypeOK
  <2> QED BY <1>1, <2>1, <2>3 DEF RingIntact, Holds, Used, Gap, Count, Slot, Number
<1> QED BY <1>1, <1>2 DEF OneTailWriter

\* The two parts about the queued packets go together: what a step does to them, and what is
\* left of the backlog the decoder measured.
LEMMA QueueStep == RingIInv /\ [RingNext]_ringVars => Backlog' /\ OneTailWriter'
<1> SUFFICES ASSUME RingIInv, [RingNext]_ringVars PROVE Backlog' /\ OneTailWriter'
  OBVIOUS
<1> USE DEF ring, receiver, decoder, main
<1>0. /\ RingTypeOK /\ RingTypeOK' /\ Used = Gap(head, tail) /\ Used \in Index
      /\ head \in Index /\ tail \in Index /\ published \in Numbers /\ taken \in Numbers
      /\ slots \in RingOf /\ slots' \in RingOf
  BY RingTypeStep, UsedType DEF RingIInv, RingTypeOK, RingOf
<1>a. Gap(0, 0) = 0 /\ Count(0, 0) = 0
  BY IndexNumbers, GapIs, CountIs
<1>1. CASE StartDecoder
  <2>1. /\ head' = 0 /\ tail' = 0 /\ published' = 0 /\ taken' = 0 /\ dpc' = "drain"
    BY <1>1 DEF StartDecoder
  <2>2. RingIntact'
    BY <2>1, <1>a DEF RingIntact, Used, Gap, Count
  <2> QED BY <2>1, <2>2 DEF Backlog, OneTailWriter
<1>2. ASSUME NEW ok \in BOOLEAN, StartReceiver(ok) PROVE Backlog' /\ OneTailWriter'
  <2>1. /\ head' = 0 /\ tail' = 0 /\ published' = 0 /\ taken' = 0 /\ dpc' \in {"drain", "sleep"}
    BY <1>2 DEF StartReceiver, RingIInv, Phases
  <2>2. RingIntact'
    BY <2>1, <1>a DEF RingIntact, Used, Gap, Count
  <2> QED BY <2>1, <2>2 DEF Backlog, OneTailWriter
<1>3. CASE ControlStarts \/ ControlFails \/ StreamEnds \/ JoinReceiver \/ StopDecoder \/ ReceiveEnds
  <2>1. UNCHANGED <<ring, dpc, queued, published, taken, raced>>
    BY <1>3 DEF ControlStarts, ControlFails, StreamEnds, JoinReceiver, StopDecoder, ReceiveEnds
  <2>2. OneTailWriter' /\ Used' = Used
    BY <2>1, RingAlone
  <2> QED BY <2>1, <2>2 DEF Backlog, RingIInv
<1>4. CASE JoinDecoder \/ Sleep \/ Wake \/ DecoderEnds \/ TakePacket
  <2>1. UNCHANGED <<ring, published, taken, raced>> /\ dpc' # "trim" /\ (dpc' = "process" => head # tail)
    BY <1>4 DEF JoinDecoder, Sleep, Wake, DecoderEnds, TakePacket
  <2>2. dpc' = "process" => Used > 0
    <3>1. Gap(head, tail) = (IF tail <= head THEN head - tail ELSE head - tail + Slots)
      BY <1>0, GapIs
    <3> QED BY <2>1, <3>1, <1>0, SlotsType DEF Index
  <2>3. OneTailWriter'
    BY <2>1, <2>2, RingAlone
  <2> QED BY <2>1, <2>3 DEF Backlog
<1>5. CASE Measure
  <2>1. UNCHANGED <<ring, published, taken, raced>> /\ dpc' # "process"
    BY <1>5 DEF Measure
  <2>2. OneTailWriter' /\ Used' = Used
    BY <2>1, RingAlone
  <2>3. dpc' = "trim" => queued' = Used /\ Used > TrimMark
    BY <1>5 DEF Measure
  <2>4. dpc' = "trim" => Used' \in Index /\ Used' > 0 /\ queued' = Used'
    BY <2>2, <2>3, <1>0, SlotsType DEF Index
  <2> QED BY <2>2, <2>4 DEF Backlog, Index
<1>6. CASE Receive \/ Refuse
  <2>1. /\ UNCHANGED <<head, tail, published, taken, raced, dpc, queued>>
        /\ \A i \in Index \ {head} : slots'[i] = slots[i]
    BY <1>6, <1>0 DEF Receive, Refuse, RingOf
  <2>2. OneTailWriter' /\ Used' = Used
    BY <2>1, <1>0, HeadWritten
  <2> QED BY <2>1, <2>2 DEF Backlog, RingIInv
<1>7. CASE Drop
  <2> DEFINE drops == IF s_drop_count < EmergencyDrops THEN s_drop_count + 1 ELSE s_drop_count
             flush == drops >= EmergencyDrops /\ ~g_decoder_ready
  <2>0. /\ tail' = IF flush THEN head ELSE tail
        /\ taken' = IF flush THEN published ELSE taken
        /\ slots' = [i \in Index |-> IF flush \/ i = head THEN Stale ELSE slots[i]]
        /\ raced' = (raced \/ (flush /\ dpc \in {"process", "trim"}))
        /\ UNCHANGED <<head, dpc, queued, published>>
    BY <1>7 DEF Drop
  <2> HIDE DEF flush, drops
  <2>1. CASE flush
    <3>1. tail' = head /\ taken' = published /\ head' = head /\ published' = published /\ dpc' = dpc
      BY <2>0, <2>1
    <3>2. Gap(head, head) = 0 /\ Count(published, published) = 0
      BY <1>0, GapIs, CountIs, SlotsType DEF Index, Numbers
    <3>3. ~raced' => dpc \notin {"process", "trim"}
      BY <2>0, <2>1
    <3>4. dpc' # "process" => RingIntact'
      BY <3>1, <3>2 DEF RingIntact, Used, Gap, Count
    <3> QED BY <3>1, <3>3, <3>4 DEF Backlog, OneTailWriter
  <2>2. CASE ~flush
    <3>1. /\ UNCHANGED <<head, tail, published, taken, dpc, queued>> /\ (raced' <=> raced)
          /\ \A i \in Index \ {head} : slots'[i] = slots[i]
      BY <2>0, <2>2
    <3>2. raced' = raced
      BY <3>1, <1>0 DEF RingTypeOK
    <3>3. OneTailWriter' /\ Used' = Used
      BY <3>1, <3>2, <1>0, HeadWritten
    <3> QED BY <3>1, <3>3 DEF Backlog, RingIInv
  <2> QED BY <2>1, <2>2
<1>8. CASE Publish
  <2>1. /\ head' = Succ(head) /\ published' = (published + 1) % (2 * Slots) /\ Succ(head) # tail
        /\ UNCHANGED <<tail, taken, raced, dpc, queued>> /\ rpc = "held"
        /\ \A i \in Index \ {head} : slots'[i] = slots[i]
        /\ slots'[head].n = (IF direct THEN slots[head].n ELSE pkt.n) /\ slots'[head].len
    BY <1>8, <1>0 DEF Publish, RingOf
  <2>2. ASSUME ~raced
        PROVE  RingIntact' /\ Used' = Used + 1
    <3>1. Holds(head, tail, slots, published, taken) /\ (dpc = "process" => Used > 0)
      BY <2>2, IntactIs DEF RingIInv, OneTailWriter
    <3>2. Holds(head, tail, slots', published, taken)
      BY <3>1, <2>1, <1>0, WriteAtHead
    <3>3. slots'[head].n = published
      BY <2>1, <2>2 DEF RingIInv, Holding
    <3>4. /\ Holds(Succ(head), tail, slots', Number(published, 1), taken)
          /\ Gap(Succ(head), tail) = Gap(head, tail) + 1
      BY <3>2, <3>3, <2>1, <1>0, PublishAtHead
    <3>5. Holds(head', tail', slots', published', taken') /\ Used' = Used + 1
      BY <3>4, <2>1, <1>0 DEF Number, Used, Gap
    <3>6. dpc' = "process" => Used' > 0
      BY <3>1, <3>5, <2>1, <1>0, SlotsType DEF Index
    <3> QED BY <3>5, <3>6 DEF RingIntact, Holds, Used, Gap, Count, Slot, Number
  <2>3. Backlog'
    <3> SUFFICES ASSUME dpc' = "trim", ~raced' PROVE queued' \in 1 .. Used'
      BY DEF Backlog
    <3>1. queued \in 1 .. Used
      BY <2>1 DEF Backlog, RingIInv
    <3> QED BY <3>1, <2>1, <2>2, <1>0, SlotsType DEF Index
  <2> QED BY <2>1, <2>2, <2>3 DEF OneTailWriter
<1>9. CASE FreePacket
  <2>1. /\ tail' = Succ(tail) /\ taken' = (taken + 1) % (2 * Slots) /\ dpc = "process"
        /\ UNCHANGED <<head, published, raced>> /\ dpc' \in {"drain", "backlog"}
        /\ \A i \in Index \ {tail} : slots'[i] = slots[i]
    BY <1>9, <1>0 DEF FreePacket, RingOf
  <2>2. ASSUME ~raced
        PROVE  RingIntact'
    <3>1. Holds(head, tail, slots, published, taken) /\ Used > 0
      BY <2>2, <2>1, IntactIs DEF RingIInv, OneTailWriter
    <3>2. Holds(head, Succ(tail), slots', published, Number(taken, 1))
      BY <3>1, <2>1, <1>0, FreeAtTail
    <3> QED BY <3>2, <2>1 DEF RingIntact, Holds, Used, Gap, Count, Slot, Number
  <2> QED BY <2>1, <2>2 DEF Backlog, OneTailWriter
<1>10. CASE Trim
  <2>1. PICK keep \in KeepsFor(queued) \cup {Used} :
          /\ tail' = (head - keep) % Slots
          /\ taken' = (published - keep) % (2 * Slots)
          /\ slots' = [i \in Index |-> IF (head - i) % Slots \in 1 .. keep \/ i = head THEN slots[i] ELSE Stale]
    BY <1>10 DEF Trim
  <2>2. UNCHANGED <<head, published, raced>> /\ dpc = "trim" /\ dpc' = "drain"
    BY <1>10 DEF Trim
  <2>3. ASSUME ~raced
        PROVE  RingIntact'
    <3>1. Holds(head, tail, slots, published, taken)
      BY <2>3, IntactIs DEF RingIInv, OneTailWriter
    <3>2. keep \in 0 .. Gap(head, tail)
      BY <2>2, <2>3, <1>0, KeepsType DEF RingIInv, Backlog
    <3>3. \A i \in Index : Gap(head, i) \in 1 .. keep => slots'[i] = slots[i]
      BY <2>1 DEF Gap
    <3>4. Holds(head, Gap(head, keep), slots', published, Count(published, keep))
      BY <3>1, <3>2, <3>3, <1>0, CutToNewest
    <3> QED BY <3>4, <2>1, <2>2 DEF RingIntact, Holds, Used, Gap, Count, Slot, Number
  <2> QED BY <2>2, <2>3 DEF Backlog, OneTailWriter
<1>11. CASE UNCHANGED ringVars
  <2>1. UNCHANGED <<ring, dpc, queued, published, taken, raced>>
    BY <1>11 DEF ringVars
  <2>2. OneTailWriter' /\ Used' = Used
    BY <2>1, RingAlone
  <2> QED BY <2>1, <2>2 DEF Backlog, RingIInv
<1> QED BY <1>1, <1>2, <1>3, <1>4, <1>5, <1>6, <1>7, <1>8, <1>9, <1>10, <1>11 DEF RingNext, Main, Receiver, Decoder

-----------------------------------------------------------------------------
(***************************************************************************)
(* The invariant holds in every reachable state ...                        *)
(***************************************************************************)
THEOREM RingInvariant == RingSpec => []RingIInv
<1>1. RingIInv /\ [RingNext]_ringVars => RingIInv'
  BY RingTypeStep, PhasesStep, HoldingStep, QueueStep DEF RingIInv
<1> QED BY <1>1, RingInitInv, PTL DEF RingSpec

(***************************************************************************)
(* ... so the producer and the consumer, which share the ring without a    *)
(* lock, never lose, repeat or tear a packet, in a ring of any size: only  *)
(* the emergency flush of the receive thread can, by moving the tail under *)
(* a decoder that is reading (decoder_thread.c, network_me.c).             *)
(***************************************************************************)
THEOREM RingSafe == RingSpec => []OneTailWriter
<1>1. RingIInv => OneTailWriter
  BY DEF RingIInv
<1> QED BY <1>1, RingInvariant, PTL

(***************************************************************************)
(* Input: what the overlay keeps to itself                                 *)
(***************************************************************************)
(* With the overlay closed, every button that was pressed while it was     *)
(* open and is still held is one the overlay remembers                     *)
(* (g_hud_consumed_buttons).                                               *)
Withheld == visible \/ local \cap PspButtons \subseteq consumed

(* What a read of the pad does to the presses of the overlay: those still  *)
(* held stay, and with the overlay closed none is added.                   *)
LEMMA ReadKeeps ==
    ASSUME NEW p, Read(p)
    PROVE  local' \subseteq p /\ (~visible => local' \subseteq local)
  BY DEF Read

(* A poll leaves the overlay as it is, and sends nothing of its buttons    *)
(* (input_poll_and_send).                                                  *)
LEMMA PollWithholds ==
    ASSUME Withheld, NEW p \in Pads, PollSuppressed(p) \/ PollThrottled(p) \/ PollSends(p)
    PROVE  Withheld' /\ Buttons(g_prev' \ g_prev) \cap local' = {}
  <1>1. Read(p) /\ ~visible /\ UNCHANGED hudVars
    BY DEF PollSuppressed, PollThrottled, PollSends, hud_is_visible
  <1>2. local' \subseteq local /\ consumed' = consumed
    BY <1>1, ReadKeeps DEF hudVars
  <1>3. local \cap PspButtons \subseteq consumed
    BY <1>1 DEF Withheld
  <1>4. Withheld'
    BY <1>2, <1>3 DEF Withheld
  <1>5. CASE PollSends(p)
    <2>1. consumed = {}
      BY <1>5 DEF PollSends, hud_is_visible
    <2>2. local' \cap PspButtons = {}
      BY <2>1, <1>2, <1>3
    <2> QED
      BY <1>4, <2>2 DEF Buttons
  <1>6. CASE PollSuppressed(p) \/ PollThrottled(p)
    <2>1. g_prev' = g_prev
      BY <1>6 DEF PollSuppressed, PollThrottled, pollVars
    <2> QED
      BY <1>4, <2>1 DEF Buttons
  <1> QED
    BY <1>5, <1>6

(* A pass of the overlay sends nothing.  Whichever way it closes, it       *)
(* remembers all that is held, and it forgets only what was let go         *)
(* (hud_handle_input).                                                     *)
LEMMA HudWithholds ==
    ASSUME Withheld, NEW p \in Pads,
           \/ HudCooldown(p) \/ HudConsumes(p) \/ HudToggle(p) \/ HudClose(p) \/ HudIdle(p)
    PROVE  Withheld' /\ g_prev' = g_prev
  <1>1. Hud(p)
    BY DEF HudCooldown, HudConsumes, HudToggle, HudClose, HudIdle
  <1>2. Read(p) /\ g_prev' = g_prev
    BY <1>1 DEF Hud, pollVars
  <1>3. local' \subseteq p /\ (~visible => local' \subseteq local)
    BY <1>2, ReadKeeps
  <1>4. ~visible => local' \cap PspButtons \subseteq consumed \cap p
    BY <1>3 DEF Withheld
  <1>5. CASE HudCooldown(p) \/ HudConsumes(p)
    <2>1. visible' = visible /\ consumed' = consumed \cap p
      BY <1>5 DEF HudCooldown, HudConsumes
    <2> QED
      BY <1>2, <1>4, <2>1 DEF Withheld
  <1>6. CASE HudToggle(p)
    <2>1. visible' = ~visible /\ (visible => consumed' = p \cap PspButtons)
      BY <1>6 DEF HudToggle, Buttons
    <2>2. CASE visible
      BY <1>2, <1>3, <2>1, <2>2 DEF Withheld
    <2>3. CASE ~visible
      BY <1>2, <2>1, <2>3 DEF Withheld
    <2> QED
      BY <2>2, <2>3
  <1>7. CASE HudClose(p)
    <2>1. consumed' = p \cap PspButtons
      BY <1>7 DEF HudClose, Buttons
    <2> QED
      BY <1>2, <1>3, <2>1 DEF Withheld
  <1>8. CASE HudIdle(p)
    <2>1. visible' = visible /\ consumed' = {} /\ consumed \cap p = {}
      BY <1>8 DEF HudIdle, Ready
    <2> QED
      BY <1>2, <1>4, <2>1 DEF Withheld
  <1> QED
    BY <1>5, <1>6, <1>7, <1>8

(* Nothing of the overlay is held when there is no stream.                 *)
LEMMA EndWithholds ==
    ASSUME EndStream
    PROVE  Withheld' /\ Buttons(g_prev' \ g_prev) \cap local' = {}
  BY DEF EndStream, Withheld

LEMMA InputStep ==
    ASSUME Withheld, [Next]_vars
    PROVE  Withheld' /\ (pc # "idle" => Buttons(g_prev' \ g_prev) \cap local' = {})
  <1>1. CASE StreamStops
    BY <1>1, EndWithholds DEF StreamStops
  <1>2. CASE PollSkipped \/ UNCHANGED vars
    <2>1. UNCHANGED <<local, visible, consumed, g_prev>>
      BY <1>2 DEF PollSkipped, vars, pollVars, hudVars
    <2> QED
      BY <2>1 DEF Withheld, Buttons
  <1>3. ASSUME NEW p \in Pads, StartStream(p)
        PROVE  Withheld' /\ pc = "idle"
    BY <1>3 DEF StartStream, Withheld
  <1>4. ASSUME NEW p \in Pads, PollSuppressed(p) \/ PollThrottled(p) \/ PollSends(p)
        PROVE  Withheld' /\ Buttons(g_prev' \ g_prev) \cap local' = {}
    BY <1>4, PollWithholds
  <1>5. ASSUME NEW p \in Pads,
               \/ HudCooldown(p) \/ HudConsumes(p) \/ HudToggle(p) \/ HudClose(p) \/ HudIdle(p)
        PROVE  Withheld' /\ Buttons(g_prev' \ g_prev) \cap local' = {}
    <2>1. Withheld' /\ g_prev' = g_prev
      BY <1>5, HudWithholds
    <2> QED
      BY <2>1 DEF Buttons
  <1>6. ASSUME NEW p \in Pads, ExitHeld(p) \/ HudSelect(p)
        PROVE  Withheld' /\ Buttons(g_prev' \ g_prev) \cap local' = {}
    BY <1>6, EndWithholds DEF ExitHeld, HudSelect
  <1> QED
    BY <1>1, <1>2, <1>3, <1>4, <1>5, <1>6 DEF Next

(* A button pressed while the overlay was on the screen is never sent to   *)
(* the host, for any pads, mappings and cooldown, however long it is held  *)
(* and whichever way the overlay was closed (g_hud_consumed_buttons,       *)
(* hud_is_visible).                                                        *)
THEOREM MenuKeysStayLocal == Spec => NoMenuLeak
  <1>1. Init => Withheld
    BY DEF Init, Withheld
  <1>2. Withheld /\ [Next]_vars => Withheld'
    BY InputStep
  <1>3. Withheld /\ [Next]_vars =>
            [pc # "idle" => Buttons(g_prev' \ g_prev) \cap local' = {}]_vars
    BY InputStep
  <1> QED
    BY <1>1, <1>2, <1>3, PTL DEF Spec, NoMenuLeak
==============================================================================
