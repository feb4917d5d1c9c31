--------------------------- MODULE AvcFrameSlots ---------------------------
(***************************************************************************)
(* The six-slot output pool of the Sony AVC player (src/avc_frame_slots.c). *)
(* A slot is FREE, being WRITTEN by the decoder, QUEUED (at most one: the   *)
(* newest picture nobody has taken) or HELD by the presenter.  Every        *)
(* operation runs under the player's semaphore, so each is one step.        *)
(*                                                                         *)
(* decoded_at_us travels with frame_id and is left out.                     *)
(***************************************************************************)
EXTENDS Integers, FiniteSets

CONSTANT AVC_FRAME_SLOTS      \* 6 in avc_frame_slots.h

\* Three slots to write, one queued, two with the presenter.
ASSUME SlotsAssumption == AVC_FRAME_SLOTS \in Nat /\ AVC_FRAME_SLOTS >= 6

VARIABLES state,              \* s->state[]
          queued,             \* s->queued: a slot or -1
          frame_id            \* s->frame_id[]

slotVars == <<state, queued, frame_id>>

Slots == 0 .. AVC_FRAME_SLOTS - 1
NoSlot == -1
SlotStates == {"FREE", "WRITING", "QUEUED", "HELD"}
FreeSlots == {s \in Slots : state[s] = "FREE"}

SlotsTypeOK ==
  /\ state \in [Slots -> SlotStates]
  /\ queued \in Slots \cup {NoSlot}
  /\ frame_id \in [Slots -> Nat]

SlotsInit ==
  /\ state = [s \in Slots |-> "FREE"]
  /\ queued = NoSlot
  /\ frame_id = [s \in Slots |-> 0]

(***************************************************************************)
(* avc_frame_slots_init: memset and queued = -1.                            *)
(***************************************************************************)
avc_frame_slots_init ==
  /\ state' = [s \in Slots |-> "FREE"]
  /\ queued' = NoSlot
  /\ frame_id' = [s \in Slots |-> 0]

Triple == [1..3 -> Slots]
Members(r) == {r[1], r[2], r[3]}

(***************************************************************************)
(* The scan of avc_frame_slots_reserve picks the three lowest free slots.   *)
(***************************************************************************)
IsLowestFree(r) ==
  /\ r[1] < r[2] /\ r[2] < r[3]
  /\ Members(r) \subseteq FreeSlots
  /\ \A s \in FreeSlots : s < r[3] => s \in Members(r)

CanReserve == Cardinality(FreeSlots) >= 3

avc_frame_slots_reserve(r) ==
  /\ IsLowestFree(r)
  /\ state' = [s \in Slots |-> IF s \in Members(r) THEN "WRITING" ELSE state[s]]
  /\ UNCHANGED <<queued, frame_id>>

(***************************************************************************)
(* avc_frame_slots_publish: -1 and no change unless the three slots are     *)
(* distinct and WRITING; otherwise all three are freed and, when count > 0, *)
(* the last picture replaces the queued one (newest wins).  ids[i] is       *)
(* first + i - 1 in psp_avc_player_decode, so the last one is passed.       *)
(***************************************************************************)
CanPublish(r) ==
  /\ Cardinality(Members(r)) = 3
  /\ \A s \in Members(r) : state[s] = "WRITING"

\* Mutant: the picture that was queued is not freed.
PublishLeaksQueued(r, count, last_id) ==
  IF ~ CanPublish(r) THEN UNCHANGED slotVars
  ELSE IF count = 0
  THEN /\ state' = [s \in Slots |-> IF s \in Members(r) THEN "FREE" ELSE state[s]]
       /\ UNCHANGED <<queued, frame_id>>
  ELSE /\ state' = [s \in Slots |-> IF s = r[count] THEN "QUEUED"
                                    ELSE IF s \in Members(r) THEN "FREE" ELSE state[s]]
       /\ queued' = r[count]
       /\ frame_id' = [frame_id EXCEPT ![r[count]] = last_id]

\* Mutant: a waiting picture is not replaced (oldest wins).
PublishKeepsOldest(r, count, last_id) ==
  IF ~ CanPublish(r) THEN UNCHANGED slotVars
  ELSE IF count = 0 \/ queued # NoSlot
  THEN /\ state' = [s \in Slots |-> IF s \in Members(r) THEN "FREE" ELSE state[s]]
       /\ UNCHANGED <<queued, frame_id>>
  ELSE /\ state' = [s \in Slots |-> IF s = r[count] THEN "QUEUED"
                                    ELSE IF s \in Members(r) THEN "FREE" ELSE state[s]]
       /\ queued' = r[count]
       /\ frame_id' = [frame_id EXCEPT ![r[count]] = last_id]

avc_frame_slots_publish(r, count, last_id) ==
  IF ~ CanPublish(r) THEN UNCHANGED slotVars
  ELSE IF count = 0
  THEN /\ state' = [s \in Slots |-> IF s \in Members(r) THEN "FREE" ELSE state[s]]
       /\ UNCHANGED <<queued, frame_id>>
  ELSE /\ state' = [s \in Slots |-> IF s = r[count] THEN "QUEUED"
                                    ELSE IF s \in Members(r) \cup {queued}
                                         THEN "FREE" ELSE state[s]]
       /\ queued' = r[count]
       /\ frame_id' = [frame_id EXCEPT ![r[count]] = last_id]

(***************************************************************************)
(* avc_frame_slots_take, called with a picture queued.                      *)
(***************************************************************************)
avc_frame_slots_take ==
  /\ queued # NoSlot
  /\ state' = [state EXCEPT ![queued] = "HELD"]
  /\ queued' = NoSlot
  /\ UNCHANGED frame_id

(***************************************************************************)
(* avc_frame_slots_release: -1 and no change unless the slot is HELD.       *)
(***************************************************************************)
avc_frame_slots_release(s) ==
  /\ state' = IF s \in Slots /\ state[s] = "HELD"
              THEN [state EXCEPT ![s] = "FREE"] ELSE state
  /\ UNCHANGED <<queued, frame_id>>

(***************************************************************************)
(* The locked tail of psp_avc_player_reset: drop the queued picture only.   *)
(***************************************************************************)
DropQueued ==
  /\ state' = IF queued = NoSlot THEN state ELSE [state EXCEPT ![queued] = "FREE"]
  /\ queued' = NoSlot
  /\ UNCHANGED frame_id
=============================================================================
