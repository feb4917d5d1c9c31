--------------------------- MODULE ControlStream ---------------------------
(***************************************************************************)
(* The control connection of a stream: the ENet handshake, the ping and    *)
(* receive threads, reliable messages on three channels with their two     *)
(* rings for retransmission, the throttled requests for an IDR picture,    *)
(* and the end of the connection.  The host keeps ENet's rule: messages of *)
(* one channel are dispatched in the order of their numbers.  A number is  *)
(* abstracted to whether the host has it: open holds the channels of which *)
(* every number is at the host or still retained here.                     *)
(***************************************************************************)
EXTENDS Integers, FiniteSets

CONSTANTS
    Slots,          \* RETX_SLOTS: slots of the control ring (32)
    InputSlots,     \* slots of the input ring (32)
    MaxTries,       \* RETX_MAX_TRIES (5)
    InputTries,     \* INPUT_RETX_MAX_TRIES (8)
    Attempts,       \* CONNECT packets sent by control_stream_start (5)
    DrainTicks,     \* ticks of the drain window after a DISCONNECT (50)
    MaxBackoff,     \* longest pause between requests for an IDR, in steps of 500 ms (4)
    Watched         \* the channels whose numbers are followed

Channels == {"generic", "urgent", "input"}

ASSUME ControlAssumption ==
    /\ {Slots, InputSlots, Attempts, DrainTicks, MaxBackoff} \subseteq Nat \ {0}
    /\ {MaxTries, InputTries} \subseteq Nat
    /\ Watched \subseteq Channels

VARIABLES
    phase,          \* off; verify, start_a, start_b, recv, ping of control_stream_start; on; closing
    res,            \* what control_stream_start has created
    attempts,       \* CONNECT packets sent
    me_running,
    ring,           \* retx_ring: what each slot retains
    head,           \* retx_head
    inring,         \* input_retx_ring
    open,           \* watched channels without a lost number
    hello,          \* no, assist (echoed, startup request due), seen
    disconnect,     \* g_received_disconnect
    drain,          \* drain_ticks
    count, backoff, age,    \* of the requests for an IDR, in steps of 500 ms
    prev, decoded, started  \* s_idr_prev_decoded, g_idr_fully_decoded, g_last_good_frame # 0

connVars == <<phase, res, attempts>>
ringVars == <<ring, head, open>>
idrVars == <<count, backoff, age, prev>>
picVars == <<decoded, started>>
discVars == <<hello, disconnect, drain>>
sessionVars == <<ringVars, inring, hello, disconnect, picVars>>
vars == <<connVars, me_running, ringVars, inring, idrVars, picVars, discVars>>

(* A retained message: its channel, whether the host has it, its retries.  *)
Entries(max) == [ch : Channels, got : BOOLEAN, tries : 0..max]
Free == [ch |-> "none"]
Resources == {"gcm", "sems", "socket", "recv", "ping"}
Phases == {"off", "verify", "start_a", "start_b", "recv", "ping", "on", "closing"}

TypeOK ==
    /\ phase \in Phases
    /\ res \subseteq Resources /\ attempts \in 0..Attempts
    /\ me_running \in BOOLEAN
    /\ ring \in [1..Slots -> Entries(MaxTries) \cup {Free}] /\ head \in 1..Slots
    /\ inring \in [1..InputSlots -> Entries(InputTries) \cup {Free}]
    /\ open \subseteq Watched
    /\ hello \in {"no", "assist", "seen"}
    /\ {disconnect, prev, decoded, started} \subseteq BOOLEAN
    /\ drain \in 0..DrainTicks
    /\ count \in 0..2 /\ backoff \in 1..MaxBackoff /\ age \in 0..MaxBackoff

Init ==
    /\ phase = "off" /\ res = {} /\ attempts = 0
    /\ me_running = TRUE
    /\ ring = [s \in 1..Slots |-> Free] /\ head = 1
    /\ inring = [s \in 1..InputSlots |-> Free] /\ open = Watched
    /\ hello = "no" /\ disconnect = FALSE /\ drain = 0
    /\ count = 0 /\ backoff = 1 /\ age = MaxBackoff /\ prev = FALSE
    /\ decoded = FALSE /\ started = FALSE

(* ctrl_running is set until control_stream_abort or control_stream_stop,  *)
(* which both close the socket.                                            *)
CtrlRunning == phase = "on" /\ "socket" \in res
On == CtrlRunning /\ me_running

(***************************************************************************)
(* Sending.  A send takes the next number of its channel and then reaches  *)
(* the host, is lost, or is refused by the socket or the cipher; only what *)
(* the socket took is stored, in the slot at the head, over what was       *)
(* there.  The host answers every copy it receives, so the acknowledgement *)
(* of a received message may arrive at any later time or never.            *)
(***************************************************************************)
Message(c, g) == [ch |-> c, got |-> g, tries |-> 0]

(* The channel of a message that is given up before the host has it.       *)
LostWith(e) == IF e = Free \/ (e # Free /\ e.got) THEN {} ELSE {e.ch}

retx_store(c, g) ==
    /\ ring' = [ring EXCEPT ![head] = Message(c, g)]
    /\ head' = (head % Slots) + 1
    /\ open' = open \ LostWith(ring[head])

SendReliable(c) ==
    \/ \E g \in BOOLEAN : retx_store(c, g)
    \/ open' = open \ {c} /\ UNCHANGED <<ring, head>>

input_delivery_failed == me_running' = FALSE

(* control_stream_send_input: a free slot is found before a number is      *)
(* taken, and the message is retained before it is sent.  A full ring, a   *)
(* lock that is not granted or a failed build ends the stream.             *)
SendInput ==
    /\ CtrlRunning
    /\ \/ /\ \E s \in 1..InputSlots, g \in BOOLEAN :
                /\ inring[s] = Free
                /\ inring' = [inring EXCEPT ![s] = Message("input", g)]
          /\ UNCHANGED me_running
       \/ /\ input_delivery_failed
          /\ UNCHANGED inring
    /\ UNCHANGED <<connVars, ringVars, idrVars, picVars, discVars>>

(***************************************************************************)
(* control_stream_start, control_stream_abort and control_stream_stop.     *)
(***************************************************************************)
(* What a start clears.  Nothing reads it between the end of a connection  *)
(* and the next start, so that it is cleared at the end as well.           *)
SessionCleared ==
    /\ ring' = [s \in 1..Slots |-> Free] /\ head' = 1 /\ open' = Watched
    /\ inring' = [s \in 1..InputSlots |-> Free]
    /\ hello' = "no" /\ disconnect' = FALSE
    /\ decoded' = FALSE /\ started' = FALSE

(* The cipher, the semaphores, the socket; each failure releases the ones  *)
(* before it.                                                              *)
Start ==
    /\ phase = "off"
    /\ \/ phase' = "verify" /\ res' = {"gcm", "sems", "socket"}
       \/ UNCHANGED <<phase, res>>
    /\ me_running' = TRUE /\ attempts' = 0
    /\ SessionCleared
    /\ UNCHANGED <<drain, idrVars>>

StartFails == phase' = "off" /\ res' = {} /\ attempts' = 0 /\ SessionCleared

(* CONNECT is sent again until VERIFY_CONNECT with our number comes back.  *)
Verify ==
    /\ phase = "verify"
    /\ \/ phase' = "start_a" /\ attempts' = 0 /\ UNCHANGED <<res, sessionVars>>
       \/ attempts < Attempts - 1 /\ attempts' = attempts + 1 /\ UNCHANGED <<phase, res, sessionVars>>
       \/ attempts = Attempts - 1 /\ StartFails
    /\ UNCHANGED <<me_running, drain, idrVars>>

(* START_A and START_B; a message that cannot be built ends the attempt.   *)
SendStart ==
    /\ phase \in {"start_a", "start_b"}
    /\ \/ /\ SendReliable("generic")
          /\ phase' = IF phase = "start_a" THEN "start_b" ELSE "recv"
          /\ UNCHANGED <<attempts, res, inring, hello, disconnect, picVars>>
       \/ StartFails
    /\ UNCHANGED <<me_running, drain, idrVars>>

(* The receive thread, then the ping thread; when the second cannot be     *)
(* started the socket is closed and the first one joined.                  *)
StartRecv ==
    /\ phase = "recv"
    /\ \/ phase' = "ping" /\ res' = res \cup {"recv"} /\ UNCHANGED <<attempts, sessionVars>>
       \/ StartFails
    /\ UNCHANGED <<me_running, drain, idrVars>>

StartPing ==
    /\ phase = "ping"
    /\ \/ phase' = "on" /\ res' = res \cup {"ping"} /\ UNCHANGED sessionVars
       \/ phase' = "closing" /\ res' = res \ {"socket"} /\ SessionCleared
    /\ UNCHANGED <<attempts, me_running, drain, idrVars>>

(* control_stream_abort, called after me_running was cleared               *)
Abort ==
    /\ CtrlRunning /\ ~me_running
    /\ res' = res \ {"socket"}
    /\ SessionCleared
    /\ UNCHANGED <<phase, attempts, me_running, drain, idrVars>>

(* DISCONNECT is sent once; the socket is closed; both threads are joined. *)
Stop ==
    /\ phase = "on"
    /\ phase' = "closing" /\ me_running' = FALSE
    /\ res' = res \ {"socket"}
    /\ SessionCleared
    /\ UNCHANGED <<attempts, drain, idrVars>>

StopJoined ==
    /\ phase = "closing"
    /\ {"recv", "ping"} \cap res = {}
    /\ phase' = "off" /\ res' = {}
    /\ UNCHANGED <<attempts, me_running, ringVars, inring, idrVars, picVars, discVars>>

(* A thread whose loop condition is false does nothing until it is joined. *)
ThreadLeaves(t) ==
    /\ t \in res /\ phase = "closing"
    /\ res' = res \ {t}
    /\ UNCHANGED <<phase, attempts, me_running, ringVars, inring, idrVars, picVars, discVars>>

(***************************************************************************)
(* Requests for an IDR picture.  The host's intra refresh may suppress a   *)
(* request after the start-up; that changes no state.                      *)
(***************************************************************************)
StartupWait == ~decoded /\ ~started

(* control_stream_request_idr, entered with count c, backoff b and         *)
(* g_idr_fully_decoded d: throttled, or the next message of the urgent     *)
(* channel.                                                                *)
RequestIdr(c, b, d) ==
    LET startup == ~d /\ ~started
        relaxed == IF d /\ ~prev /\ b > 1 THEN b \div 2 ELSE b
        wait == IF startup THEN 1 ELSE relaxed
    IN  /\ prev' = d
        /\ \/ /\ c >= 1 /\ age < wait
              /\ count' = c /\ backoff' = wait
              /\ UNCHANGED <<age, ringVars>>
           \/ /\ c = 0 \/ age >= wait
              /\ count' = IF c = 0 THEN 1 ELSE 2
              /\ backoff' = IF startup \/ c = 0 THEN wait
                            ELSE IF 2 * wait > MaxBackoff THEN MaxBackoff ELSE 2 * wait
              /\ age' = 0
              /\ SendReliable("urgent")

Coalesced == UNCHANGED <<idrVars, ringVars>>

request_idr == RequestIdr(count, backoff, decoded)

request_idr_force ==
    \/ ~StartupWait /\ age < MaxBackoff /\ Coalesced
    \/ ~StartupWait /\ age = MaxBackoff /\ RequestIdr(count, MaxBackoff, decoded)
    \/ StartupWait /\ age < 1 /\ Coalesced
    \/ StartupWait /\ age >= 1 /\ RequestIdr(0, 1, decoded)

(* Also what control_stream_request_rfi falls back to on this hardware.    *)
request_idr_recovery_fast ==
    \/ age < 1 /\ Coalesced
    \/ age >= 1 /\ RequestIdr(0, 1, decoded)

(* Callers on the decoder, receive and main threads.                       *)
Recovery ==
    /\ CtrlRunning
    /\ request_idr \/ request_idr_force \/ request_idr_recovery_fast
    /\ UNCHANGED <<connVars, me_running, inring, picVars, discVars>>

(* 500 ms pass.                                                            *)
Tick ==
    /\ age < MaxBackoff /\ age' = age + 1
    /\ UNCHANGED <<connVars, me_running, ringVars, inring, count, backoff, prev, picVars, discVars>>

(* The decoder finished an IDR picture; a loss or a reset clears the flag. *)
PictureDecoded ==
    /\ On
    /\ decoded' = TRUE /\ started' = TRUE
    /\ UNCHANGED <<connVars, me_running, ringVars, inring, idrVars, discVars>>

PictureLost ==
    /\ On /\ decoded
    /\ decoded' = FALSE
    /\ UNCHANGED <<started, connVars, me_running, ringVars, inring, idrVars, discVars>>

(***************************************************************************)
(* The ping thread: a reliable ping, the assists, the scan of both rings   *)
(* and, after a DISCONNECT of the host, the drain window.                  *)
(***************************************************************************)
Pinging == On /\ "ping" \in res

Ping ==
    /\ Pinging
    /\ SendReliable("generic")
    /\ UNCHANGED <<connVars, me_running, inring, idrVars, picVars, discVars>>

(* Every 500 ms before the first picture.                                  *)
StartupAssist ==
    /\ Pinging /\ StartupWait
    /\ request_idr_force
    /\ UNCHANGED <<connVars, me_running, inring, picVars, discVars>>

(* No new picture for 8 or 16 s: the flag is cleared and an IDR requested; *)
(* without the flag every 5 s for the first 120 frames.                    *)
StallAssist ==
    /\ Pinging /\ started
    /\ decoded' = FALSE
    /\ RequestIdr(count, backoff, FALSE)
    /\ UNCHANGED <<started, connVars, me_running, inring, discVars>>

(* input_retx_scan: the messages that are due are sent again; one that was *)
(* tried often enough ends the stream.  due are the slots.                 *)
Retried(r, due, arrived) ==
    [s \in DOMAIN r |-> IF s \in due THEN [r[s] EXCEPT !.tries = @ + 1, !.got = @ \/ s \in arrived]
                       ELSE r[s]]

InputScanGivesUp(due) ==
    /\ Pinging
    /\ due # {} /\ \A s \in due : inring[s] # Free
    /\ LET spent == {s \in due : inring[s].tries >= InputTries}
       IN  /\ \E arrived \in SUBSET due :
                 inring' = [s \in 1..InputSlots |-> IF s \in spent THEN Free
                                                  ELSE Retried(inring, due \ spent, arrived)[s]]
           /\ open' = open \ UNION {LostWith(inring[s]) : s \in spent}
    /\ UNCHANGED <<me_running, connVars, ring, head, idrVars, picVars, discVars>>

InputScanResends(due) ==
    /\ Pinging
    /\ due # {} /\ \A s \in due : inring[s] # Free
    /\ \E arrived \in SUBSET due :
          inring' = [s \in 1..InputSlots |-> IF s \in arrived THEN [inring[s] EXCEPT !.got = TRUE] ELSE inring[s]]
    /\ UNCHANGED <<me_running, connVars, ringVars, idrVars, picVars, discVars>>

InputScan(due) ==
    /\ Pinging
    /\ due # {} /\ \A s \in due : inring[s] # Free
    /\ \/ /\ \E s \in due : inring[s].tries >= InputTries
          /\ input_delivery_failed
          /\ UNCHANGED inring
       \/ /\ \A s \in due : inring[s].tries < InputTries
          /\ \E arrived \in SUBSET due : inring' = Retried(inring, due, arrived)
          /\ UNCHANGED me_running
    /\ UNCHANGED <<connVars, ringVars, idrVars, picVars, discVars>>

Pending == {s \in 1..InputSlots : inring[s] # Free}

(* retx_scan: the same for the control ring, but a message that was tried  *)
(* often enough is dropped.                                                *)
RetxScan(s) ==
    /\ Pinging
    /\ ring[s] # Free
    /\ \/ /\ ring[s].tries >= MaxTries
          /\ ring' = [ring EXCEPT ![s] = Free]
          /\ open' = open \ LostWith(ring[s])
       \/ /\ ring[s].tries < MaxTries
          /\ \E arrived \in SUBSET {s} : ring' = Retried(ring, {s}, arrived)
          /\ UNCHANGED open
    /\ UNCHANGED <<connVars, me_running, head, inring, idrVars, picVars, discVars>>

(* drain_ticks is a static of the thread's function: no stream resets it.  *)
DrainTickWraps ==
    /\ Pinging /\ disconnect
    /\ drain' = (drain + 1) % DrainTicks
    /\ UNCHANGED <<me_running, connVars, ringVars, inring, idrVars, picVars, hello, disconnect>>

DrainTick ==
    /\ Pinging /\ disconnect
    /\ \/ /\ drain + 1 >= DrainTicks
          /\ drain' = DrainTicks
          /\ me_running' = FALSE
       \/ /\ drain + 1 < DrainTicks
          /\ drain' = drain + 1
          /\ UNCHANGED me_running
    /\ UNCHANGED <<connVars, ringVars, inring, idrVars, picVars, hello, disconnect>>

(***************************************************************************)
(* The receive thread.  Between the echo of the hello and the request it   *)
(* makes, the other threads run.                                           *)
(***************************************************************************)
Receiving == On /\ "recv" \in res /\ hello # "assist"

(* retx_ack and input_retx_ack                                             *)
ReceiveAck(s) ==
    /\ Receiving
    /\ ring[s] # Free /\ ring[s].got
    /\ ring' = [ring EXCEPT ![s] = Free]
    /\ UNCHANGED <<connVars, me_running, head, open, inring, idrVars, picVars, discVars>>

ReceiveInputAck(s) ==
    /\ Receiving
    /\ inring[s] # Free /\ inring[s].got
    /\ inring' = [inring EXCEPT ![s] = Free]
    /\ UNCHANGED <<connVars, me_running, ringVars, idrVars, picVars, discVars>>

(* 0x010E                                                                  *)
ReceiveHello ==
    /\ Receiving
    /\ SendReliable("generic")
    /\ hello' = IF hello = "no" /\ StartupWait THEN "assist" ELSE "seen"
    /\ UNCHANGED <<connVars, me_running, inring, idrVars, picVars, disconnect, drain>>

HelloAssist ==
    /\ On /\ "recv" \in res /\ hello = "assist"
    /\ hello' = "seen"
    /\ \/ StartupWait /\ RequestIdr(0, 1, decoded)
       \/ ~StartupWait /\ count' = 0 /\ backoff' = 1 /\ age' = MaxBackoff /\ UNCHANGED <<prev, ringVars>>
    /\ UNCHANGED <<connVars, me_running, inring, picVars, disconnect, drain>>

ReceiveDisconnect ==
    /\ Receiving /\ ~disconnect
    /\ disconnect' = TRUE
    /\ UNCHANGED <<connVars, me_running, ringVars, inring, idrVars, picVars, hello, drain>>

(* 0x0109 (paused) and 0x0100 (ended)                                      *)
ReceiveTermination ==
    /\ Receiving
    /\ me_running' = FALSE
    /\ UNCHANGED <<connVars, ringVars, inring, idrVars, picVars, discVars>>

Next ==
    \/ Start \/ Verify \/ SendStart \/ StartRecv \/ StartPing \/ Abort \/ Stop \/ StopJoined
    \/ \E t \in {"recv", "ping"} : ThreadLeaves(t)
    \/ SendInput \/ Recovery \/ Tick \/ PictureDecoded \/ PictureLost
    \/ Ping \/ StartupAssist \/ StallAssist \/ DrainTick
    \/ \E due \in SUBSET (1..InputSlots) : InputScan(due)
    \/ \E s \in 1..Slots : RetxScan(s) \/ ReceiveAck(s)
    \/ \E s \in 1..InputSlots : ReceiveInputAck(s)
    \/ ReceiveHello \/ HelloAssist \/ ReceiveDisconnect \/ ReceiveTermination

(* The threads run: every pass of the ping thread scans the input ring,    *)
(* and an entry is due within a second, so a scan that finds all of them   *)
(* due comes again and again; both threads and the join make progress.     *)
Fairness ==
    /\ WF_vars(InputScan(Pending))
    /\ WF_vars(DrainTick)
    /\ WF_vars(Tick) /\ WF_vars(StartupAssist)
    /\ \A t \in {"recv", "ping"} : WF_vars(ThreadLeaves(t))

Spec == Init /\ [][Next]_vars /\ Fairness

(***************************************************************************)
(* Properties                                                              *)
(***************************************************************************)
(* A button or key transition that took a number of its channel has        *)
(* reached the host or is still retained for retransmission, for as long   *)
(* as the stream runs: the input channel is never left with a gap that     *)
(* nobody fills (control_stream_send_input, input_retx_scan).              *)
InputNeverLost == On => {"input"} \cap Watched \subseteq open

(* A retained input does not stay pending for ever: it is acknowledged, or *)
(* its retries run out and the stream ends (input_retx_scan).              *)
InputResolved ==
    \A s \in 1..InputSlots : (On /\ inring[s] # Free) ~> (~On \/ inring[s] = Free)

(* After a DISCONNECT of the host the stream ends when the drain window is *)
(* over, whatever else is going on (ctrl_ping_thread).                     *)
DisconnectEnds == (disconnect /\ On) ~> ~On

=============================================================================
