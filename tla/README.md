# Moonlight PSP: verification project

TLA+ models of Moonlight PSP, a game-streaming client for Sony's handheld. The
host sends H.264 over RTP, Opus audio over RTP and an ENet control channel; the
client receives on two threads, decodes video on the console's Media Engine
through Sony's AVC firmware, and draws on the UI thread.

The modelled build is the default of the Makefile: `PSP_HARDWARE_AVC=1`,
`RETAIL_BUILD=1`, `UNIFIED_MAIN_MODE=1`, `PPA_STACK_PRELOADED=0`,
`BOOT_MODE_BRIDGE=0`, `LOW_DDR=0`. Two modules, `SoftwareDecoder` and
`SafetyBuffer` (and the software half of `AvcParameterSets`), are about the
branch that `PSP_HARDWARE_AVC=0` compiles instead.

## 1. The system

| Part | Source (`src/src/`) | State it keeps | Operations | What makes it correct |
| --- | --- | --- | --- | --- |
| Output pool | `avc_frame_slots.c` | six slots FREE/WRITING/QUEUED/HELD, the queued slot | reserve, publish, take, release | one owner per slot; newest picture wins |
| Backend | `psp_avc_backend.c`, `avc_stream_input.c`, `psp_avc_submit.c`, `avc_packetizer.c` | session flags, cached SPS/PPS, waiting for an IDR, requested profile | open, decode, switch, reset, close | one thread in the firmware; parameter sets say what the host's said |
| Session | `psp_avc_session.c` | the ladder of firmware resources, the Media Engine's mode | open, close, switch | nothing leaks or is released twice whatever call fails |
| Player, presenter | `psp_avc_player.c`, `display_gpu.c`, `main.c` | pool, profile-change flags, slot on screen, HUD copy | decode, take, show, release, apply change | what is shown is whole; nobody waits for ever |
| Decoder thread | `decoder_thread.c` | ring tail, reset and reference flags | drain, trim, callback, restart | |
| Packet ring | `network_me.c`, `decoder_thread.c` | 512 slots, head, tail | admit, publish, take, trim, flush | one writer of each index; a full ring moves |
| FEC | `rtp_fec.c`, `rs.c` | the block under collection, deferred packets, one Reed-Solomon context | add, defer, recover, submit | recovered bytes are the bytes that were sent |
| Reassembly | `rtp_reassembly.c` | frame under assembly, waits for an IDR or a recovered reference | add packet, complete, drop | only whole frames, and only on references that are there |
| Control stream | `control_stream.c`, `net_send.c` | two rings of unacknowledged messages, timers, the link's statistics | handshake, send, acknowledge, retransmit, request IDR, end | input is neither lost nor stuck; a disconnect ends the stream |
| Audio | `audio_thread.c` | cache of shards, PCM ring, clocks | receive, repair, conceal, play, drain | sound in media order; shutdown returns |
| Wi-Fi watch | `network_me.c`, `netconf_ui.c` | reconnect mark, resume state, power save | ping, keepalive, reconnect | an outage ends; the radio's setting is restored |
| Connection | `network_connect.c`, `pairing_pin_ui.cpp` | pins, pairing flags, session key, sockets | pair, serverinfo, launch, resume, quit, RTSP, cancel | both ends have one key; a failed attempt leaves nothing |
| Stream session | `main.c`, `stream_session.c`, `app_startup.c` | which threads run, the flags workers write | start, loop, watchdogs, abort to menu, exit | a stall ends; the host list is quiet |
| Settings | `config.c`, `settings_menu.c`, `osk_input.c`, `stream_resolution.c` | config.ini, menu rows | load, edit, save | what is streamed is what was saved |
| Hosts | `host_discovery.c`, `main.c`, `config.c` | manual, paired and found hosts | scan, add, remove, pair | no host or pairing is undone by an older copy |
| Games | `game_list_parser.c`, `icon_cache.c`, `game_grid_ui.cpp` | tiles, icon buffers, cached art | fetch, refresh | every tile shows its own picture |
| Identity | `client_identity.c` | three files | ensure | one identity over all power failures |
| Port mapping | `upnp_client.c` | endpoint, mapped ports | map, remove | no mapping stays behind |
| Bitrate control | `signal_strength.c`, `control_stream.c` | histories, cap, cooldown | judge, drop, recover | a burst of losses is answered and held |
| Input | `input.c`, `hud.c`, `button_mapping_ui.cpp` | last report, consumed buttons | poll, map, send, overlay | nothing stuck, nothing leaked from the overlay |
| Safety buffer | `safety_buffer.c` | ring, pool, write queue | push, evict, rewind, clear, spill | a rewind is whole |
| Software decoder | `decoder_thread.c`, `legacy/software/` | references, slots, Media Engine, watchdog | frame, lose, reset, restart | pictures come back |

The threads of a stream: the receive thread writes packets into a ring; the
decoder thread drains it through FEC and reassembly, and runs
`rtp_frame_complete_callback` for every access unit; the callback feeds the
player; the UI thread takes the newest picture, draws it, applies profile
changes and watches for stalls; audio has a receive, a play and a ping thread,
control a receive and a ping thread; the network ping thread watches the access
point in a stream and the keepalive thread in the menus. They share the player's
pool under one semaphore, the Reed-Solomon context under a lock, and dozens of
`volatile` flags and single-producer rings without one.

What is hard: flags of one thread read by another between two of its steps;
firmware calls that fail half way through open and close; packets that are lost,
reordered and repeated, with two layers that each keep their own idea of which
references are good; requests whose answers are lost and that are sent again;
worker threads that outlive a bounded wait, or are terminated; state that
survives from one stream into the next; files written without a journal on a
console that loses power at any time. `PROJECT.json` lists these hazards at
their lines, each with the properties that watch it.

## 2. Modules

| Module | Models | Checked in run |
| --- | --- | --- |
| `AvcFrameSlots`, `AvcBackend`, `AvcPlayer` | pool, backend, and the player with both its threads | `player` |
| `FrameMailbox` | what the pool promises: a one-place, newest-wins mailbox | `player` (refined by `AvcPlayer`) |
| `AvcPlayer_proofs`, `Content_proofs` (`AvcSession`, `AudioReceive`), `Stream_proofs` (`PacketRing`, `Input`), `Media_proofs` (`Audio`, `RtpVideo`), `ControlStream_proofs`, `Connect_proofs`, `Network_proofs` (`WifiSession`, `PortMapping`, `HttpsFetch`, `SoftwareDecoder`, `SafetyBuffer`), `Client_proofs` (`ClientIdentity`, `GameLibrary`, `SignalStrength`, `StreamRequest`, `HostList`, `Lifecycle`) | theorems, section 5 | tlapm |
| `AvcSession` | the ladder of firmware resources | `content` |
| `PacketRing` | the ring between receive and decoder thread | `connect` |
| `RtpReassembly`, `RtpFec`, `RtpVideo` | frame assembly, recovery, the frame callback, backlog handling | `rtp_cabac`, `rtp_cavlc`, `rtp_torn` |
| `SunshineHost`, `Pairing`, `RtspSession`, `Connect` | the host's side, pairing, the handshake, and the way from the host list to a stream and back | `connect` |
| `Lifecycle` | main from settings to exit | `lifecycle` |
| `ControlStream` | the ENet control connection | `control` |
| `Audio` | the audio threads | `audio` |
| `AudioFec`, `AudioReceive` | repair and the receive thread as a machine from packets to chunks | `content` |
| `ReedSolomon` | the code and its shared context | `content`, `rs_shared` |
| `AvcParameterSets` | SPS and PPS, bit by bit, on both paths | `content` |
| `SafetyBuffer` | ring, pool, queue and writer thread | `content` |
| `HttpsFetch` | how an answer is read | `content` |
| `SoftwareDecoder` | the OpenH264 pipeline, Media Engine and watchdog | `network` |
| `WifiSession` | ping, keepalive and power save | `network` |
| `Settings`, `StreamRequest` | settings menu and file; what /launch, ANNOUNCE, the AVC session and the bitrate control are given | `client` |
| `SignalStrength` | bitrate control and link quality | `client` |
| `HostList`, `GameLibrary`, `ClientIdentity`, `PortMapping` | lists, art, files and gateway | `client` |
| `InputMapping`, `Input` | button mapper, poll and overlay | `client` |

A run whose instance needs no definitions of its own is a `.cfg` of the component's
module (`AvcPlayer.cfg`, `RtpVideo.cfg`, `RtpVideoCavlc.cfg`, `RtpVideoTorn.cfg`,
`Lifecycle.cfg`, `ControlStream.cfg`, `Audio.cfg`); the others have an MC module.

Four runs (`connect`, `network`, `content`, `client`) check several parts that
share no variable. Their MC module has a variable `part`: a behaviour moves one
part only, from its initial state, and the others stand still. The states of
such a run are the sum of its parts, and a property of one part is neither
weakened nor helped by the others. Everything that does interact is composed by
EXTENDS in the modules themselves (for instance `SunshineHost`, `Pairing`,
`RtspSession` and `Connect`, or `Settings`, `SignalStrength` and
`StreamRequest`).

### The video path

*AvcFrameSlots.* `state`, `queued` and `frame_id` are the C structure's fields.
Each function is one action formula, because the player calls it with the
semaphore held. The scan of `avc_frame_slots_reserve` for the first three free
slots is the predicate `IsLowestFree`. A refused call (`-1`) leaves the pool
unchanged, as in the code. Decode times travel with the picture number and are
left out.

*AvcBackend.* An access unit is abstracted to what the code branches on: whether
`avc_packetize` accepts it, whether it carries an IDR, a predicted slice or no
slice, and which parameter sets it carries. A function is the set of records
`[b, r, count]` it can return: the backend afterwards, the result code, and the
number of pictures. Every firmware failure the C code tests for is an element of
that set. The session's resource ladder is reduced to `res` (something is owned)
and `ready`.

*AvcPlayer.* `dpc` is the decoder thread's program counter, from the drain loop
(`drain`) through a packet (`burst`) and the callback (`resetting` ...
`published`); `mpc` is the UI thread's, from the menu through the stream loop and
its teardown. A step ends where the other thread can observe the difference: at
the end of a critical section, at a write of a `volatile` flag, at the return of a
firmware call. `pixels`, `frame_seq`, `last_seq` and `delivered` are history
variables: a picture's memory is 0 while the firmware writes into the slot and
the picture's sequence number afterwards. The UI thread's calls are sequential
code with the decoder joined, so `psp_avc_player_open_profile` and
`psp_avc_player_close` are one step each; all their early returns are kept,
because what a failed open or close leaves behind is what the next one finds. The
RTP layers are the nondeterminism of `DrainPacket` and `AssemblerWritesRefs`.

*AvcSession.* One action per firmware call of `psp_avc_session_open` and of the
cleanup, each of which may fail. `flag` is what the C structure says, `held` what
the firmware really has; the two are written at the lines where the code writes
them. `mode` is the Media Engine's mode, external to the code. Calls arrive in any
order with any profile, as the backend may make them.

*AvcParameterSets.* A stream is a record of the values of its syntax elements;
`SpsBits` and `PpsBits` spell it as H.264 does (external: the encoder). The parser
and the writer of `avc_sps_fixup.c` and the parsers of `decoder_thread.c` are
functions over bits, with Exp-Golomb codes, emulation prevention and trailing bits.

*PacketRing.* One action per step at which the other thread could observe head,
tail or a slot. Decoder, receiver and main thread have program counters. The
emergency flush of the receive thread needs `g_decoder_ready` cleared, as in the
code.

*RtpReassembly.* The static variables of `rtp_reassembly.c`, with the decoder
thread's flags that they meet, are the fields of one record `asm`.
`rtp_reassembly_process_packet` and what it calls are operators from a record to a
record; where the code depends on the firmware or on the clock an operator gives
the set of possible records. `FrameCallback` is the guard part of
`rtp_frame_complete_callback`; the player behind it is reduced to whether the
access unit was accepted, failed or refused for a pending profile change. `out`,
`verdict` and `last_in` are history. Frame numbers are not wrapped; the 16-bit
sequence numbers are, and `FirstSeq` 65534 makes them wrap inside the first frames.

*RtpFec.* `pc` is the place in `rtp_fec_add_packet`: `drain` is the loop over
deferred packets before the new one, `inner` is `rtp_fec_add_packet_inner`,
`transition` the change to another frame, `recover` is
`attempt_recovery_and_submit`, and `submit` hands one packet of the frame at a time
to the reassembler. The call is cut there because other threads write the flags
that it reads again for each packet. Here a frame has one FEC block, and with
enough packets it is rebuilt or the reported failure is handled; `ReedSolomon` has
the arithmetic and frames of several blocks.

*RtpVideo.* The host is external: it sends frames in order, a stream begins with
an IDR, and numbers may be skipped. A packet of a sent frame may reach the ring at
any time, any number of times or never, which covers loss, duplication and
reordering. Watchdogs of other threads run between any two steps. `RestartStream`
is the shutdown and the next start; what the code does not reset is left as it is.

*ReedSolomon.* An element of GF(256) is the set of its bits. Both sides hold the
lock from configuring the context to the end of the reconstruction, so each is one
step; what can go wrong is what one leaves in the context for the other.

*SoftwareDecoder.* A call of the callback is a step; the library may hang inside.
`refs` is what OpenH264 has of the stream. The Media Engine converts into one of
the output slots while the previous one is on screen. Dead loops, hangs, failing
resets and the watchdog's restarts are bounded by `Faults` and `MaxRestarts`.

*SafetyBuffer.* The pool is a row of cells filled from its start; `clear` gives it
back. The writer thread writes an entry's length and its bytes in two steps. A
storage fault, an unreadable file and a killed thread are modelled.

### Connection and life of the process

*SunshineHost, Pairing, RtspSession, Connect.* A host is a record of what it
knows of this client: registered certificate, running session and its key. A
request is one step, whose answer may be lost after the host acted (one fault per
behaviour, `MaxFaults`). `https_launch_get` keeps the older body of its buffer on a
failure, so a stale answer is one the next test may read. Pairing and the PIN
screen are two threads over two flags. `Connect` has one action per early return of
`network_connect_all` and of the retries around it, and the /cancel worker, which
may outlast its 7 s wait (`SlowCancel`).

*Lifecycle.* Each worker that can end a stream is an element of `workers`, whose
writes to the shared flags may fall between any two steps of the loop. Watchdogs A
(no first picture), B (frozen picture) and D (decoder dead) are steps of the loop;
time is counted in units of their limits.

*ControlStream.* A number of a channel is abstracted to whether the host has it
(`open`): with ENet's in-order dispatch a lost number blocks its channel until it is
sent again. Datagrams and acknowledgements may be lost, sends refused. The two
retransmission rings, their give-up limits and the drain window are the code's.

*Audio, AudioFec, AudioReceive.* `Audio` has the threads with the ring as far as
scheduling can tell its states apart; `AudioReceive` the content: media time counts
Opus frames, packets are lost in order, `SeqWrap` makes sequence numbers wrap.

*WifiSession.* Both reconnecting threads run the same `Attempt` with their own
program counter; time is the 500 ms cooldown and the ten seconds.

*HttpsFetch.* A byte of an answer is its place in it; the record layer hands over
any number at a time, stops or closes.

### Settings, lists, files

*Settings, StreamRequest.* Rows of the menu, the on-screen keyboard, and the file
written line by line with power failing between two lines. `StreamRequest` keeps
what was launched, announced, prepared for the AVC session and given to the bitrate
control, each computed where the code computes it.

*SignalStrength.* Windows of one second feed the judgement of the link; updates feed
the controller; the trend is free.

*HostList.* The two in-memory copies of the pairings and the file.

*GameLibrary.* Art is a version of a picture, named by its URL (assumptions about the
host: other art has another URL, and an application is listed once); buffers, files and index survive refreshes, changes of host and power losses.

*ClientIdentity, PortMapping.* Contents are numbered by the run that made them; the
gateway may refuse, and its answer may be lost after it acted.

*Input, InputMapping.* The poll and the overlay each read the pad, which may change
in between.

## 3. Runs

| Run | Instance | Distinct states | Shows |
| --- | --- | --- | --- |
| `player` | 6 slots, `MaxSeq` 2, `MaxBurst` 1, flush does not fail; fair | 114 083 | pool, firmware and picture stay sound; switch and teardown end |
| `rtp_cabac` | CABAC performance mode, 3 frames of 2+1 packets, skips of 0 or 1, one deferral | 3 358 294 | references |
| `rtp_cavlc` | CAVLC, 2 streams of 2 frames of 3+1, skips of 0 or 6, failing rebuild, two stalls | 4 425 045 | whole frames |
| `connect` | 2 hosts, 3 keys, one fault; ring of 4 with marks 1 and 2; fair | 835 863 | way to a stream and back, and the packets' way to the decoder |
| `lifecycle` | 2 streams, one decoder restart, 3 host steps; fair | 560 815 | flags and watchdogs |
| `control` | rings of 1+1, one retry each, 2 handshake attempts; fair | 105 678 | reliable input, end of the connection |
| `audio` | ring of 3; fair | 94 614 | ring and shutdown |
| `network` | 2 output slots, one restart, 2 faults, power save on or off; fair | 77 881 | software decoder, Wi-Fi |
| `content` | 4+2 audio blocks, video shapes 3+2 and 2+1, 337 SPS, pool of 3 cells; the session has no constants | 256 221 | bytes, sound, firmware ladder |
| `client` | 3 addresses, 3 applications, 3 ports, 13 pad states; fair input | 828 205 | UI thread's parts |
| `rs_shared` | one video block of 4+2 | violation | the shared matrix, section 4 |
| `rtp_torn` | CAVLC, one stream of 2 frames of 3, two stalls | violation | a torn frame, section 4 |

### What the properties say

Video. `SlotOwnership`: every slot has exactly the owner its state names.
`PresentedPixelsIntact`: what is on screen was not written into. `MailboxSpec`:
`AvcPlayer` implements `FrameMailbox`. `NoConcurrentFirmware`: one thread in the
firmware at a time. `ProfileChangeResolved`, `TeardownCompletes`: nobody waits for
ever. `FlagsTellTheTruth`: whatever call fails, the session structure records
exactly the resources held. `OneTailWriter`: the ring holds the published packets
in order, whole, unless the emergency flush raced. `RingMoves`: a full ring does not
stay full. `NoOrphan`: while the references count as good, a predicted frame is
decoded only after the frame it follows (claimed for CABAC, as CAVLC conceals on
purpose, and for one stream: `sw_decoder_thread_init`, `decoder_thread.c` 1274, never
calls the `rtp_reassembly_reset` that `rtp_reassembly.h` 8 and 40 ask for, and with a
second stream TLC finds it violated). `UntornWhole`: as long as no submission is torn by
the stall watch, the callback of a protected stream gets the packets of one frame, all,
in order and once; `DeliveredWhole` says so without the condition and is what `rtp_torn`
refutes. `torn` is history. The streams are protected (`Protected`, or a parity
packet): an unprotected one that is restarted finds the old frame in the reassembler. `RecoveredExact`, `ParameterSetsExact`, `KeptWhole`: bytes rebuilt,
rewritten or kept are the bytes the host sent, and nothing usable is refused.
`HandedOutWhole`, `PictureReturns`: the software path shows whole pictures and comes
back after every fault.

Control, audio, Wi-Fi. `InputNeverLost`, `InputResolved`, `DisconnectEnds`;
`PlayedIntact`, `ShutdownReturns`, `InMediaOrder` (a frame is appended after one chunk
for each frame before it); `OutageEnds`, `PowerSaveRestored`.

Session. `SessionKeyAgreed`: RTSP and the stream never go on under a key the host's
session does not have. `StreamResourcesReleased`: a failed or ended attempt leaves
nothing. `PairingEarned`: only hosts that registered the certificate are remembered.
`OldCancelSparesNewSession`: the late /cancel does not end a newer session.
`ConnectEnds`; `HostListQuiet`; `StallEnds`. `FetchedExact`: an answer is handed over
exactly, however it is cut into reads.

UI. `StreamAsConfigured`: a launched stream is one the host can encode, is what the
next boot reads back, and everyone was told the same. `TilesSound`, `IdentityStable`,
`HostsKept`: what the memory stick keeps is consistent across power failures and
older copies. `MappingsRemoved`: the gateway keeps no mapping of ours. `BurstHolds`:
after a burst of losses the bitrate stays down for the cooldown. `NoMenuLeak`,
`NoStuckInput`: buttons of the overlay do not reach the game, and releases do.

### Bounds and why they are enough

*player.* `MaxSeq` 2 is a picture on screen and one that replaces it; `MaxBurst`
1 is the number for which the exclusion holds; streams are unbounded. *connect, the ring.*
Four slots are the fewest in which both admission marks, a trim and a full ring are
all different; packets are numbered modulo two laps, streams are unbounded. *RTP.*
Three frames are the fewest in which one is lost, one is deferred and a later one
overtakes it. The performance mode is the harder one for `NoOrphan`: it takes a jump of the
frame number for a skip when the sequence numbers are contiguous. Two data packets
and one of parity give complete, recoverable and unrecoverable frames; three give a
middle. `Skips` of 6 exceeds `JunkJump` (1000 in the code). `RfiSpanMax`,
`RfiMaxDrops`, `MassiveJump`, `GapFrames`, `UnrecLimit`, `Catastrophe`, `DropLimit`
are scaled so that each is met and exceeded. Deadlock is not checked there: the
bound on frames ends a stream. *connect.* Two hosts let a stale answer or a late
/cancel of one meet the other; one fault is what the code's retries are written
for. A launch makes a fresh key: three keys are a launch, its retry, and the next
stream. Deadlock is not checked because keys run out. *lifecycle.* Two streams: what
the first leaves, the second finds; the process may exit, so deadlock is not checked. *control.* Rings of one entry are always at
their limit; streams are unbounded. *audio.* Three chunks give the ring an empty, a
partial and a full state with a reserved slot. *network.* `Faults` 2 with thresholds
of 2 and 3: a second fault meets the recovery of the first. *content.* 4+2 is the
shape of the host's audio blocks; sequence numbers wrap after 24; every parameter set that
differs from a usual one in one or two fields; a unit that fits, one that does not
and one too large for the queue; bodies around every buffer's size, reads of up to
5 bytes. `MaxLost`, `MaxDrains`, `MaxConceal` and `MaxTimePlc` count losses and
guesses in one behaviour, and behaviours end (an answer is read once, blocks run out). *client.* Three addresses for two places; three
applications for two icon slots; three ports; a cooldown of two updates.

### Fairness

A step is fair where a thread takes it in every turn of a loop that nothing blocks,
or where a call returns by its own timeout.

- `AvcPlayer`: `DecoderRuns` (the thread is scheduled, a firmware call returns) and
  `MainRuns` (the UI loop's steps). Packets, watchdogs and the user are not fair.
- `Connect`: the main thread, the pairing and /cancel workers: every wait has a
  timeout or ends with a key. Nobody has to select a host or leave a stream.
- `Lifecycle`: the loop and time. Workers and host owe nothing.
- `ControlStream`: the scans of the ping thread, whose entries are due within a
  second, its ticks, and both threads leaving when told to.
- `Audio`: all threads; strong fairness of `TurnEnds` says that a packet yields
  finitely many chunks.
- `PacketRing`: the decoder's loop, the end of the receiver's step, the joins.
- `SoftwareDecoder`: frames keep coming to a running decoder, the host answers a
  request that is asked again and again, the Media Engine and watchdog run.
- `WifiSession`: threads, time, teardown; strong fairness says that in range an
  association made often enough succeeds: a keepalive thread that tries again and
  again is the only other way out.
- `Input`: the stream loop turns.

The RTP runs, `content` and `client`'s other parts state safety only.

## 4. Where code and documents disagree

`rs_shared` (finding): the static Reed-Solomon context is reused by pointer and
shape, but audio overwrites the parity matrix inside it. A video frame of four
packets at the usual repair rate has the same shape as audio's blocks; it is decoded
with the audio matrix and reported as recovered, contrary to the comments in `rtp_fec.c`
(1211, 1634). `content` uses shapes that differ from audio's and holds.

`rtp_torn` (finding): `g_idr_fully_decoded` is read for each packet
(`rtp_reassembly.c` 519) and cleared by another thread. Two stalls around the submission of
one frame let its first and last packet through and not its middle; the frame is marked
as recovered, so the hole is ignored, contrary to the comment at 970, and delivered as
clean. With one stall it cannot happen, and `UntornWhole` holds for any number.

The following were met while modelling. Where a module takes them in, the condition
under which its property is claimed says so.

- *Firmware exclusion.* A packet that completes two access units (`MaxBurst` 2) lets
  the second one's reset run while the UI thread switches the profile: the yield is
  tested per packet (`decoder_thread.c` 1145). With one it cannot (theorem
  `SingleBurstExclusion`).
- *Failed flush.* `psp_avc_player_close` drains into slots 0 to 2 though one may be
  queued; if the flush then fails (`FlushFails`), the next stream shows it. Without
  that failure it cannot (theorem `PresentationCorrect`).
- *Deferral.* Packets held for frame k+1 are replayed after frame k+2 was begun when
  late parity recovers k; a frame that arrived is lost.
- *Overflow.* An overflow marks the current frame corrupt and nothing clears the mark
  for the IDR sent to recover from it.
- *Restart.* `rtp_reassembly.h` asks for a reset at the start of a stream and the
  hardware build has none; until the new numbers pass the old ones a lost frame is
  not noticed.
- *Emergency flush.* `control_stream_start` can fail and clear `g_decoder_ready`
  (`main.c` 1117) while both threads run; the receive thread then moves `tail` under
  the decoder (`network_me.c` 2003), against the comment at 1981. `raced` excludes it.
- *Wi-Fi.* A ping thread killed inside `wifi_try_reconnect` leaves
  `g_wifi_reconnecting` set for ever; the check and the set of that mark are not
  atomic, so both threads can be inside; `s_session_state` survives into the next
  stream, and when the keepalive thread restores the link it stays WIFI_LOST, and the
  ping thread aborts a healthy stream after ten seconds.
- *Audio.* `audio_reorder_drain_for_fec` counts parity that was sent after a packet it
  put aside (`ahead` excludes it).
- *Announced size.* A custom size entered and not saved is announced to the host while
  the AVC session expects the saved one; the fix-up at launch changes the configuration
  but not the session, and a resume skips it (`network_connect.c` 1890, 3255). The
  property excepts a size that was typed and not saved, and the mode of a resume.
- *Pairing.* `config_add_paired_host` is given `g_last_paired_host`, not the host in
  use (`main.c` 1051).
- *Configuration.* Saving truncates first, so a power loss can lose hosts and pairings;
  an empty file is loaded without remembering it. A custom rate leaves its label stale.
  `append_digit` of the on-screen keyboard takes more digits than its buffer holds.
- *Identity.* A truncated certificate or key file is never made again, so that every
  start fails; the result of writing the id is ignored.
- *Icons.* The index is written although the picture's file was not; the cache is keyed
  by application only, so a URL that changes and changes back around a power loss shows
  the art in between.
- *Answers.* `https_launch_get` reads into 4608 bytes and returns success for a longer
  answer, cut; both readers return success for an answer cut by a timeout. A refused
  pin reads as an empty picture. Header and first part of the body over 4095 bytes
  together are refused.
- *Link quality.* Its statistics survive into the next stream, and after a decoder
  restart the difference of decoded frames wraps; hysteresis needs equal consecutive
  classes, so that a link between POOR and CRITICAL never commits to either; the cap
  after a loss may be raised by the controller right after the cooldown, against the
  comment that only slow recovery raises it.
- *Control receive* dispatches a reliable command again when the host repeats it.
- *Parameter sets.* The low-latency contract reads only the first 32 offsets of a cycle;
  a bad first SPS stays cached and a good one is then refused until close.
- *Safety buffer.* Eviction never empties the ring, so the pool is given back only by
  a clear: after 500 KB every unit is spilled. `using_fallback` and
  `g_storage_fault` are never cleared. A thread killed while it holds the mutex takes
  the buffer with it. The rewind state outlives its key frame, and an old IDR is later decoded
  in the place of a P-frame.
- *Software decoder.* If the Media Engine may hang (`MeMayHang`), the "previous frame"
  returned after its timeout is the slot it is still writing, contrary to the comment
  near `openh264_decode.cpp` 1128. A picture that stays pending may never ask for
  anything.
- *Reset of FEC* releases the shared context without the lock.

## 5. Proofs

A theorem of the table holds for every value of the constants that the named
assumptions of the module allow; TLC checks the same property on the instance of
section 3. Each proof is an inductive invariant, one lemma per action that does
something to it, and a last step that combines them.

| Module of the theorems | Property | For every | Needed besides the property |
| --- | --- | --- | --- |
| `AvcPlayer_proofs` | `SlotOwnership`, `PresentedPixelsIntact`, `MailboxSpec` and four more | number of slots from six up, `MaxSeq`, `MaxBurst` | `Control`, `PictureHistory`, `ProfileState` |
| `Content_proofs` | `FlagsTellTheTruth`, readiness, result codes | (no constants) | `Climbed`, `Descended`, `Calling`, `StartedIsLoaded` |
| | `InMediaOrder` | block of data and parity, cache, queue, burst, round of sequence numbers | `Line`, `Cache` (`Good`), `Turn`, `Mark` |
| `Stream_proofs` | `OneTailWriter` | ring size, admission mark | `Phases`, `Holding`, `Backlog` |
| | `NoMenuLeak` | sets of held buttons, mappings, cooldown | `Withheld` |
| `Media_proofs` | `PlayedIntact` | ring size, counters of any width that is a multiple of it | `Phases`, `QueueHeld`, `PushUnderWay`, `PopUnderWay`, `ClockFollows`, `Unanchored` |
| | `UntornWhole` | frames of any size, parity, windows, limits of deferral and drops, both entropy modes, streams, stalls | `HostFrames`, `Collected`, `CallPhases`, `InSubmission` |
| `ControlStream_proofs` | `InputNeverLost` | size of both rings, number of retries | `RingsApart` |
| `Connect_proofs` | `SessionKeyAgreed`, `StreamResourcesReleased`, `PairingEarned`, `OldCancelSparesNewSession` | number of hosts, keys and faults | one part per phase of an attempt |
| `Network_proofs` | `PowerSaveRestored` | set of power-save modes | what each thread saved, and where it is |
| | `MappingsRemoved` | list of ports | `OursRecorded`, `RoomForAll` |
| | `FetchedExact` | length of buffers, headers, bodies and reads | `Gathered` |
| | `HandedOutWhole` | two or three output slots, with and without delay, every limit and number of faults; if the Media Engine keeps to its waits | `Pixels`, `Apart` |
| | `KeptWhole` | size of ring, pool, window, queue and units | `Intact`, `EntryHeld` |
| `Client_proofs` | `IdentityStable` | number of runs and power failures | `KeyFollowsCert`, `FilesMade`, `IdentityKept` |
| | `TilesSound` | hosts, lists, buffers and faults | `Assigning`, `IndexHonest` |
| | `BurstHolds` | settings, windows of the link, cooldowns; two hours of updates | `RateTypes`, `Summed` |
| | `StreamAsConfigured` | ladder of bitrates, typed sizes, edited files, options of the host | `Usable`, `MenuUsable`, `AnnouncedAgrees` |
| | `HostsKept` | number of hosts, slots and faults | `hLast = hDisk.paired`, `SelectionIn` |
| | `HostListQuiet` | number of streams, restarts and host steps, every limit of the loop | `Released`, `FlagsDown`, `OneMore` |

*Player.* `AvcPlayer_proofs` proves `TypeCorrect`, `OwnershipCorrect`,
`ExhaustionNever` (the decoder always finds three free slots), `PendingCorrect` (a
pending change is not blocked by a picture), `MailboxCorrect` (the refinement),
`PresentationCorrect` (if flushes do not fail) and `SingleBurstExclusion` (if
`MaxBurst` is 1). None is inductive. `Control` says where each thread is when it
holds a slot: without it a release could free a slot nobody holds. `PictureHistory`
numbers pictures before they are published. `ProfileState` says that a picture
outside the free slots proves that an IDR was submitted, a pending change that none
was; its fourth conjunct (a working backend that accepts predicted frames without
having seen an IDR is one with a change pending) makes it inductive. `PixelHistory`
and `YieldInv` are inductive relative to `IInv`; the former has an exception for a
close that failed after the drain: the session is then not ready, so no stream
starts on it.

*Session.* A flag alone does not say how far a call has come: the invariant adds what
is held at each call of open and gone at each call of the cleanup.

*Packet ring.* The ring is only zeroed in phases in which no packet is in it; the
receiver knows the slot it is filling; the backlog the decoder measured is still
queued when it trims.

*Audio.* Every queued push is in its slot, and a chunk that is copied and not yet
published is in the slot behind the queue. The index arithmetic (a difference modulo
the width, taken modulo the ring) is a set of lemmas about remainders that holds
because the width is a multiple of the ring's size.

*Video.* What FEC has collected is of the host's frame it names, with the host's
places (`HostFrames`, `Collected`), however packets are lost, repeated or deferred; a
frame is only submitted complete. `CallPhases` says where the call is that submits it,
and `InSubmission` that the assembly buffer then holds exactly the packets submitted
so far: nothing resets or trims it in between, except what marks the submission torn.

*Sound in order.* Sequence numbers and media times wrap, so nothing about earlier and
later can be said of them. The invariant says that there are numbers that do not wrap:
`n` for the host's next packet, `w` for the last data packet of the thread and those
put aside, `x` for the starts of the cached blocks, `z` for the first missing packet.
They increase by `Reach` at most from one to the next, so that everything the thread
keeps lies within one round (`WrapAssumption`; with the code's cache of 8 blocks and queue
of 8 packets that is a burst of several thousand packets), a wrapped number names one
packet, and a wrapped difference is the true one. `Turn` says at each place of the
thread how many chunks are still owed before the packet at hand. The delicate part is
repair. The thread takes for the first lost packet the one after the last and the
parity counted since, which is wrong when parity came after the loss. `Mark` says that
this is the frame that is due, or that the block of that packet is one from which
nothing is repaired: a block whose start is no start of the host's holds too few shards
for ever (`Unaligned`), and one of an aligned block that is past has lost more than its
parity can restore (`Incomplete`, `FirstLost`), which is why `Good` counts what was not
received before each data packet that was, and why parity has to be counted in order:
`ahead` breaks that. Fewer parity packets than data packets are assumed (2 and 4 in the
code). The assumption that a round of sequence numbers ends with a block, for the host
and for the cache, is not met by 65536: what happens to repair in the blocks around that
wrap is not modelled.

*Control.* What an overwritten or dropped entry closes is its channel; the control
ring, which overwrites and drops, never holds an input. The proof of `ControlTypes`
corrected the model: doubling the pause between requests is capped by the minimum of
twice the pause and the limit (control_stream.c:1851), and the former definition,
which stopped doubling, agreed with it for limits that are powers of two only.

*Connection.* The parts of the invariant say, per phase, who the target is, what the
pairing worker may have done, what is held, what the response buffer can contain
(`https_launch_get` keeps an older body), and that no /cancel worker exists beside
the request of a new attempt. `ConnectAssumption` asks for more keys than hosts, so
that a host can always draw one that no session uses: random keys do not repeat.

*Network.* `PowerSaves` excludes the sentinel of "nothing saved" (-1 in
network_me.c:124). `Ports` holds at least one port and at most `MaxMapped`, as
upnp_client.c:998 asks for up to six and has room for eight: with a longer list a
port that has no room in the record would stay forwarded.

*Software decoder.* A picture that is converted is the pending one (`Pixels`), and the
slot the next conversion writes is neither the pending slot nor, when nothing is
pending, the last one shown (`Apart`, which a decoder that could not be created again
does not need: it converts nothing). With two slots that is all there is to choose
from. `HandsOutWhole` assumes `~MeMayHang`; without it the property is false, as the
end of section 4 says.

*Safety buffer.* A slot points below what is taken of the pool and finds its unit there
(`Intact`); a new unit is copied behind all of that, and the pool is given back only
with an empty ring. The writer's entry is still in the queue, and the producer writes
only to an entry that is not (`EntryHeld`). The search for a key frame and for the end
of the eviction have a result because distances in the ring are natural numbers, and a
number for the next unit is left because fewer are in use than there are.

*Input.* What keeps a button of the overlay from the host is that the poll is skipped
while the overlay remembers one: with the overlay closed, every button that was pressed
under it and is still held is in `consumed` (`Withheld`). Each way of closing it, the
cooldown and each release preserve that; what the poll last sent plays no part.

*Host list.* While the process runs, `g_last_loaded_config` holds the pairings of the
file, so that saving the manual hosts with it takes no pairing back. Removing is taking
the first occurrence out (config.c:715, network_connect.c:1991), adding moves to the
front. The property is one of steps: each names what it takes away.

*Lifecycle.* What may exist is said place by place: nothing of a stream before `start`,
at most the audio threads there (`network_connect_all` has started them), and after each abort one part
less.

*Client.* A key on the card belongs to the certificate beside it and is never there
without one. The index names the art that is in the file, except for applications
whose art or entry could not be written. The host is assumed to list an application
once; two entries with different art would share one file. For the bitrate the
controller must not give back in one update what a burst takes. A burst of two lost
frames takes 32 kbps at least, the controller adds `7.5 + sum / 10000 + 5` kbps
at most, and `sum` grows by 25 per update at most: 7200 updates (`WindupUpdates`)
leave the sum below 180 000. The theorem has this bound because the property is
false without it: `PID_INTEGRAL_MAX` is 500 000, and after some five hours of an
undisturbed stream at 256 kbps a second burst within the cooldown leaves the bitrate
where it was. The limit against windup is too high to take effect in time. For the format of a
stream: whatever `loadConfig` reads is a configuration that can be streamed and is
what the rows of the menu say, whatever rows are stepped and sizes typed lead to such
a configuration again, and one that is written in full is what the next boot reads.
The search for the nearest preset finds one because distances are natural numbers.

Only model-checked are: every liveness property (fairness and ENABLED are out of
the prover's reach); what the recursive definitions of `ReedSolomon` and
`AvcParameterSets` compute, that is `RecoveredExact` and `ParameterSetsExact` (induction over
data); and `NoOrphan` of the RTP modules, which holds for one stream only and
relates every verdict of the reference tracker to the frame before.

## 6. Plan

Done: all modules of section 2 with their runs; theorems about the player, the
session, the packet ring, the frames handed to the decoder, both halves of audio, the
control stream, the connection, the network services, the software decoder, the safety buffer,
the input, the identity, the games, the bitrate, the format of a stream, the hosts and
the life of the process. Left:

1. `NoOrphan` by an invariant of the reference tracker for one stream; for
   several, once the hardware build resets the reassembler between streams.
2. Audio repair across the wrap at 65536.

## 7. Not modelled

- Failed waits on the player's semaphore and a failed join of the decoder thread, which
  need a kernel failure; the pointers `psp_avc_player_close` (274) writes out of
  range, which concern the C stack.
- The power handler: its callback is registered from a thread that never waits with
  callbacks enabled, so suspend, resume and quick reconnect are never reached.
- Unloading by PSPLink (`module_stop`), the test harness's remote pokes and pre-play
  pings, the kernel helper, builds with preloaded stack or bridge.
- Code that nothing calls: the scaler of resolutions, `network_media_periodic_tick` and
  the inline ping, `wifi_connect`, `wifi_keepalive_abort`, `client_identity_reset`,
  `icon_cache_clear_all`, and three helpers of `rs.c`; branches the constants
  exclude (sizes up to 256x144 in ANNOUNCE, the SPS rewrite whose flags are all 0).
- `fallback_icons.h` and `btn_icons.h`, which are data (15 000 of the repository's lines).
- Drawing, layout, texts, XML, logs and telemetry.
- Encryption and certificate arithmetic, the RTT estimate, FEC status and bandwidth
  reports, RTCP; audio samples, volume and the route over the video socket; colour
  conversion; pacing of presentation; ENet datagrams of several commands (they are as
  many actions as commands).
- Wake-up packets, which leave no state, and mDNS and SSDP texts.
- OpenH264, mbedTLS, Opus and older decoders in `legacy/`.
