---------------------------- MODULE SafetyBuffer ----------------------------
(***************************************************************************)
(* The safety buffer (safety_buffer.c): the last two seconds of access     *)
(* units, kept by the decoder thread so that a packet loss can be bridged  *)
(* by decoding the last key frame again.  Access units are copied into a   *)
(* pool that is only ever filled from its start; when it is full they go   *)
(* through a lock-free queue to a writer thread and a file.                *)
(*                                                                         *)
(* An access unit is a number no unit still in the buffer has; a cell of   *)
(* the pool holds the number of the unit copied into it.  What nothing can *)
(* read any more (a slot outside the ring, a cell no slot points to, all   *)
(* of it once the mutex is lost) is shown empty.  Times are ages, counted  *)
(* from the newest unit.  The decoder thread runs above the writer *)
(* and above the main thread, so its calls are steps, except where they    *)
(* wait for the memory stick.  What the state of the buffer decides is     *)
(* whether to rewind: buffering and idle are one here, as they are for the *)
(* only reader, decoder_thread.c:657.                                      *)
(***************************************************************************)
EXTENDS Integers, FiniteSets

CONSTANTS
    RingSlots,   \* SAFETY_BUFFER_SLOTS (128)
    PoolCells,   \* SAFETY_BUFFER_SIZE_BYTES, in units of the smallest access unit
    Window,      \* SAFETY_BUFFER_DURATION_MS: older units are evicted
    QueueSlots,  \* WRITE_QUEUE_SLOTS (12)
    Units        \* the access units: [key, cells, queued (fits a slot of the queue)]

ASSUME SafetyBufferAssumption ==
    /\ {RingSlots, PoolCells, Window, QueueSlots} \subseteq Nat \ {0}
    /\ RingSlots > 1 /\ QueueSlots > 1
    /\ Units \subseteq [key : BOOLEAN, cells : Nat \ {0}, queued : BOOLEAN]

VARIABLES
    slots, head, tail,       \* g_safety_buffer.slots, write_head, read_tail
    cells, ram_pool_used,    \* the pool and how much of it is taken
    rewinding,               \* state = SAFETY_BUFFER_REWIND
    using_fallback, fd,      \* fallback_fd: "none", "open", or "stale" once closed
    queue,                   \* s_wq_slots, s_wq_head, s_wq_tail and s_queue_full_consec
    g_storage_fault,
    writer,                  \* the writer thread: where it is, and the unit whose header it wrote
    life,                    \* how far main is with starting and stopping the buffer
    mutex,                   \* "free", "clearing" (a clear waits for the file), "lost", "gone"
    replay                   \* what a rewind returned, until the decoder's next call

bufferVars == <<slots, head, tail, cells, ram_pool_used, rewinding>>
spillVars == <<using_fallback, fd, queue, g_storage_fault>>
safetyVars == <<bufferVars, spillVars, writer, life, mutex, replay>>

NoUnit == 0
EmptySlot == [unit |-> NoUnit, at |-> 0, cells |-> 0, key |-> FALSE, age |-> 0]
NoReplay == [unit |-> NoUnit, found |-> {}, key |-> TRUE]
EmptyQueue == [unit |-> [i \in 0 .. QueueSlots - 1 |-> NoUnit], head |-> 0, tail |-> 0, full |-> 0]
AfterSlot(i) == (i + 1) % RingSlots

\* The number of the next access unit.
Serials == 1 .. RingSlots + QueueSlots + 2
InUse == {slots[i].unit : i \in DOMAIN slots} \cup {queue.unit[i] : i \in DOMAIN queue.unit} \cup {writer.unit}
serial == CHOOSE n \in Serials \ InUse : \A m \in Serials \ InUse : n <= m

\* Slots from read_tail up to, and without, end.
Between(from, end) == {i \in 0 .. RingSlots - 1 : (i - from) % RingSlots < (end - from) % RingSlots}

Within(s, from, end) == [i \in 0 .. RingSlots - 1 |-> IF i \in Between(from, end) THEN s[i] ELSE EmptySlot]

Pointed(cs, s) == [c \in 1 .. PoolCells |->
    IF \E i \in DOMAIN s : s[i].at # 0 /\ c \in s[i].at .. s[i].at + s[i].cells - 1 THEN cs[c] ELSE NoUnit]

SafetyTypeOK ==
    /\ head \in 0 .. RingSlots - 1 /\ tail \in 0 .. RingSlots - 1
    /\ cells \in [1 .. PoolCells -> Serials \cup {NoUnit}] /\ ram_pool_used \in 0 .. PoolCells
    /\ fd \in {"none", "open", "stale"} /\ mutex \in {"free", "clearing", "lost", "gone"}
    /\ life \in {"off", "up", "stopping", "joined", "bare"}
    /\ writer.pc \in {"off", "wait", "drain", "payload", "close"}
-----------------------------------------------------------------------------
(* safety_buffer_init; the storage fault of an earlier stream stays. *)
InitBuffer ==
    /\ life = "off"
    /\ life' = "up" /\ mutex' = "free"
    /\ slots' = [i \in 0 .. RingSlots - 1 |-> EmptySlot] /\ head' = 0 /\ tail' = 0
    /\ cells' = [c \in 1 .. PoolCells |-> NoUnit] /\ ram_pool_used' = 0 /\ rewinding' = FALSE
    /\ using_fallback' = FALSE /\ fd' = "none"
    /\ queue' = [EmptyQueue EXCEPT !.full = queue.full]
    /\ writer' = [pc |-> "wait", unit |-> NoUnit]
    /\ replay' = NoReplay
    /\ UNCHANGED g_storage_fault

(* acquire_mutex: a thread that was killed inside leaves the semaphore     *)
(* taken, and every later call gives up after its time-out.                *)
Entered == life \in {"up", "stopping", "joined"} /\ mutex = "free"
-----------------------------------------------------------------------------
EnqueueWhenFull(u) ==
    [q |-> [queue EXCEPT !.unit[queue.head] = serial, !.head = (@ + 1) % QueueSlots],
     ok |-> TRUE, fault |-> FALSE]

(* write_to_fallback: what becomes of the queue and of the fault. *)
write_to_fallback(u) ==
    LET next == (queue.head + 1) % QueueSlots
        full == IF queue.full < QueueSlots THEN queue.full + 1 ELSE queue.full
    IN
    IF ~ u.queued THEN [q |-> queue, ok |-> FALSE, fault |-> FALSE]
    ELSE IF next = queue.tail
      THEN [q |-> [queue EXCEPT !.full = full], ok |-> FALSE, fault |-> full >= QueueSlots]
    ELSE [q |-> [queue EXCEPT !.unit[queue.head] = serial, !.head = next, !.full = 0],
          ok |-> TRUE, fault |-> FALSE]

(* evict_old_entries: the oldest slots beyond the window go; the newest    *)
(* one has age 0, so the ring is not empty after it and the pool is not    *)
(* given back here.                                                        *)
Kept(s, from, end) ==
    LET live == Between(from, end) IN
    IF live = {} \/ \A i \in live : s[i].age > Window THEN end
    ELSE CHOOSE i \in live : s[i].age <= Window /\ \A j \in Between(from, i) : s[j].age > Window

evict_old_entries(s, from, end, taken) ==
    [tail |-> Kept(s, from, end), used |-> IF Kept(s, from, end) = end THEN 0 ELSE taken]

(* The slot, the indices and the eviction at the end of a store. *)
Recorded(u, at, elapsed, from, taken) ==
    LET aged == [i \in 0 .. RingSlots - 1 |->
                    [slots[i] EXCEPT !.age = IF @ + elapsed > Window + 1 THEN Window + 1 ELSE @ + elapsed]]
        s == [aged EXCEPT ![head] = [unit |-> IF at = 0 THEN NoUnit ELSE serial, at |-> at,
                                     cells |-> IF at = 0 THEN 0 ELSE u.cells, key |-> u.key, age |-> 0]]
        e == evict_old_entries(s, from, AfterSlot(head), taken)
        kept == Within(s, e.tail, AfterSlot(head))
        copied == [c \in 1 .. PoolCells |-> IF at # 0 /\ c \in at .. at + u.cells - 1 THEN serial ELSE cells[c]]
    IN  /\ slots' = kept /\ cells' = Pointed(copied, kept)
        /\ head' = AfterSlot(head) /\ tail' = e.tail /\ ram_pool_used' = e.used

(* safety_buffer_store_nal.  A full ring gives up its oldest unit even     *)
(* when the new one is then refused.                                       *)
StoreNal(u, elapsed, opens) ==
    LET from == IF AfterSlot(head) = tail THEN AfterSlot(tail) ELSE tail
        fits == ram_pool_used + u.cells <= PoolCells
    IN
    /\ Entered
    /\ \/ /\ ~ using_fallback /\ fits
          /\ Recorded(u, ram_pool_used + 1, elapsed, from, ram_pool_used + u.cells)
          /\ UNCHANGED <<using_fallback, fd, queue, g_storage_fault>>
       \/ /\ ~ using_fallback /\ ~ fits
          /\ using_fallback' = opens /\ fd' = IF opens THEN "open" ELSE "none"
          /\ queue' = IF opens THEN write_to_fallback(u).q ELSE queue
          /\ g_storage_fault' = (g_storage_fault \/ (opens /\ write_to_fallback(u).fault))
          /\ tail' = from /\ slots' = Within(slots, from, head)
          /\ cells' = Pointed(cells, Within(slots, from, head))
          /\ UNCHANGED <<head, ram_pool_used>>
       \/ /\ using_fallback
          /\ IF fd # "none" THEN /\ queue' = write_to_fallback(u).q
                                 /\ g_storage_fault' = (g_storage_fault \/ write_to_fallback(u).fault)
                            ELSE UNCHANGED <<queue, g_storage_fault>>
          /\ IF fd # "none" /\ write_to_fallback(u).ok
               THEN Recorded(u, 0, elapsed, from, ram_pool_used)
               ELSE /\ tail' = from /\ slots' = Within(slots, from, head)
                    /\ cells' = Pointed(cells, Within(slots, from, head))
                    /\ UNCHANGED <<head, ram_pool_used>>
          /\ UNCHANGED <<using_fallback, fd>>
    /\ replay' = NoReplay
    /\ UNCHANGED <<rewinding, writer, life, mutex>>

(* safety_buffer_handle_packet_loss *)
HandlePacketLoss ==
    /\ Entered /\ ~ rewinding
    /\ rewinding' = TRUE /\ replay' = NoReplay
    /\ UNCHANGED <<slots, head, tail, cells, ram_pool_used, spillVars, writer, life, mutex>>

(* find_last_keyframe: backwards from write_head down to, and without,     *)
(* read_tail.  With head = tail that is every slot but one.                *)
Searched == {i \in 0 .. RingSlots - 1 : i # tail /\ (head # tail => i \in Between(tail, head))}
KeySlots == {i \in Searched : slots[i].at # 0 /\ slots[i].key}
find_last_keyframe == CHOOSE i \in KeySlots : \A j \in KeySlots : (head - i) % RingSlots <= (head - j) % RingSlots

safety_buffer_can_rewind == head # tail /\ KeySlots # {}

(* The decoder's test (decoder_thread.c:657) and safety_buffer_rewind. *)
Rewind ==
    LET k == find_last_keyframe IN
    /\ Entered /\ rewinding /\ safety_buffer_can_rewind
    /\ replay' = [unit |-> slots[k].unit, key |-> slots[k].key,
                  found |-> {cells[c] : c \in slots[k].at .. slots[k].at + slots[k].cells - 1}]
    /\ head' = AfterSlot(k) /\ slots' = Within(slots, tail, AfterSlot(k)) /\ rewinding' = FALSE
    /\ cells' = Pointed(cells, Within(slots, tail, AfterSlot(k)))
    /\ UNCHANGED <<tail, ram_pool_used, spillVars, writer, life, mutex>>

(* safety_buffer_clear: the buffer and, when it spilled, the file; closing *)
(* and opening the file lets the writer run in between.                    *)
Clear ==
    /\ Entered
    /\ slots' = [i \in 0 .. RingSlots - 1 |-> EmptySlot] /\ head' = 0 /\ tail' = 0
    /\ cells' = [c \in 1 .. PoolCells |-> NoUnit] /\ ram_pool_used' = 0
    /\ rewinding' = FALSE /\ replay' = NoReplay
    /\ LET reopens == using_fallback /\ fd # "none" IN
       /\ fd' = IF reopens THEN "stale" ELSE fd
       /\ mutex' = IF reopens THEN "clearing" ELSE mutex
    /\ UNCHANGED <<using_fallback, queue, g_storage_fault, writer, life>>

ClearReopens(opens) ==
    /\ mutex = "clearing"
    /\ mutex' = "free" /\ fd' = IF opens THEN "open" ELSE "none"
    /\ UNCHANGED <<bufferVars, using_fallback, queue, g_storage_fault, writer, life, replay>>

(* The watchdog terminates the decoder thread (decoder_thread.c:1536)      *)
(* while it is inside; its own clear then gives up like every later call.  *)
KilledInside ==
    /\ Entered /\ life = "up"
    /\ mutex' = "lost"
    /\ slots' = [i \in 0 .. RingSlots - 1 |-> EmptySlot] /\ head' = 0 /\ tail' = 0
    /\ cells' = [c \in 1 .. PoolCells |-> NoUnit] /\ ram_pool_used' = 0
    /\ rewinding' = FALSE /\ replay' = NoReplay
    /\ UNCHANGED <<spillVars, writer, life>>
-----------------------------------------------------------------------------
(* writer_thread.  The wait has a time-out, so it also ends with nothing   *)
(* to write.                                                               *)
WriterWakes ==
    /\ writer.pc = "wait" /\ (queue.head # queue.tail \/ life = "stopping")
    /\ writer' = [writer EXCEPT !.pc = "drain"]
    /\ UNCHANGED <<bufferVars, spillVars, life, mutex, replay>>

Consumed == [queue EXCEPT !.unit[queue.tail] = NoUnit, !.tail = (queue.tail + 1) % QueueSlots]

\* The header of the next entry; without a file, or after a fault, it is only consumed.
WriterHeader(ok) ==
    /\ writer.pc = "drain" /\ queue.head # queue.tail
    /\ LET writes == fd # "none" /\ ~ g_storage_fault
           works == ok /\ fd = "open" IN
       /\ writer' = IF ~ writes THEN writer
                    ELSE IF works THEN [pc |-> "payload", unit |-> queue.unit[queue.tail]]
                    ELSE [writer EXCEPT !.pc = "close"]
       /\ queue' = IF writes THEN queue ELSE Consumed
       /\ g_storage_fault' = (g_storage_fault \/ (writes /\ ~ works))
       /\ fd' = IF writes /\ ~ works THEN "stale" ELSE fd
    /\ UNCHANGED <<bufferVars, using_fallback, life, mutex, replay>>

WriterPayload(ok) ==
    /\ writer.pc = "payload"
    /\ LET works == ok /\ fd = "open" IN
       /\ writer' = IF works THEN [pc |-> "drain", unit |-> NoUnit] ELSE [pc |-> "close", unit |-> NoUnit]
       /\ queue' = IF works THEN Consumed ELSE queue
       /\ g_storage_fault' = (g_storage_fault \/ ~ works)
       /\ fd' = IF works THEN fd ELSE "stale"
    /\ UNCHANGED <<bufferVars, using_fallback, life, mutex, replay>>

\* fallback_fd = -1 after the close, whatever the decoder put there meanwhile.
WriterForgets ==
    /\ writer.pc = "close"
    /\ fd' = "none" /\ queue' = Consumed /\ writer' = [writer EXCEPT !.pc = "drain"]
    /\ UNCHANGED <<bufferVars, using_fallback, g_storage_fault, life, mutex, replay>>

WriterDrained ==
    /\ writer.pc = "drain" /\ queue.head = queue.tail
    /\ writer' = [writer EXCEPT !.pc = IF life = "stopping" THEN "off" ELSE "wait"]
    /\ UNCHANGED <<bufferVars, spillVars, life, mutex, replay>>
-----------------------------------------------------------------------------
(* safety_buffer_shutdown: stop and join the writer, close the file, give  *)
(* up the pool and the mutex, and only then take back g_initialized.       *)
StopWriter ==
    /\ life = "up" /\ life' = "stopping"
    /\ UNCHANGED <<bufferVars, spillVars, writer, mutex, replay>>

JoinWriter ==
    /\ life = "stopping" /\ writer.pc = "off"
    /\ life' = "joined" /\ fd' = "none"
    /\ UNCHANGED <<bufferVars, using_fallback, queue, g_storage_fault, writer, mutex, replay>>

DropPool ==
    /\ life = "joined" /\ mutex # "clearing"
    /\ life' = "bare" /\ mutex' = "gone"
    /\ UNCHANGED <<bufferVars, spillVars, writer, replay>>

ShutdownDone ==
    /\ life = "bare" /\ life' = "off"
    /\ UNCHANGED <<bufferVars, spillVars, writer, mutex, replay>>
-----------------------------------------------------------------------------
SafetyInit ==
    /\ slots = [i \in 0 .. RingSlots - 1 |-> EmptySlot] /\ head = 0 /\ tail = 0
    /\ cells = [c \in 1 .. PoolCells |-> NoUnit] /\ ram_pool_used = 0 /\ rewinding = FALSE
    /\ using_fallback = FALSE /\ fd = "none" /\ queue = EmptyQueue /\ g_storage_fault = FALSE
    /\ writer = [pc |-> "off", unit |-> NoUnit] /\ life = "off" /\ mutex = "gone"
    /\ replay = NoReplay

Writer == WriterWakes \/ WriterForgets \/ WriterDrained
          \/ \E ok \in BOOLEAN : WriterHeader(ok) \/ WriterPayload(ok)
Stopping == JoinWriter \/ DropPool \/ ShutdownDone

SafetyNext ==
    \/ InitBuffer \/ HandlePacketLoss \/ Rewind \/ Clear \/ KilledInside \/ StopWriter
    \/ \E u \in Units, elapsed \in {0, 1}, opens \in BOOLEAN : StoreNal(u, elapsed, opens)
    \/ \E opens \in BOOLEAN : ClearReopens(opens)
    \/ Writer \/ Stopping

SafetySpec == SafetyInit /\ [][SafetyNext]_safetyVars
-----------------------------------------------------------------------------
(* What a rewind hands to the decoder (decoder_thread.c:660) is a key      *)
(* frame, whole and as it was stored: the pool that is filled from its     *)
(* start is never given back while a slot the search can reach still       *)
(* points into it.  And what the writer thread puts in the file belongs to *)
(* the length it wrote before it: between the two writes of an entry the   *)
(* producer, which takes no lock, never reuses that slot of the queue, at  *)
(* any fill level.                                                         *)
KeptWhole ==
    /\ replay.unit # NoUnit => replay.key /\ replay.found = {replay.unit}
    /\ writer.pc = "payload" => queue.unit[queue.tail] = writer.unit
=============================================================================
