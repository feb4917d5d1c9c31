-------------------------- MODULE AvcParameterSets --------------------------
(***************************************************************************)
(* The parameter sets of the stream, bit by bit.  The hardware path        *)
(* (psp_avc_backend.c with avc_sps_fixup.c and avc_stream_format.c) parses *)
(* the host's SPS, spells a High one as Main, limits it to one reference   *)
(* frame, and validates the PPS before anything reaches the firmware.  The *)
(* software path (decoder_thread.c) reads them with parsers of its own to  *)
(* check the low-latency contract and the entropy coder.                   *)
(*                                                                         *)
(* The host's encoder is external: a stream is a record of the values of   *)
(* its syntax elements, and SpsBits and PpsBits spell it as H.264 does.    *)
(***************************************************************************)
EXTENDS Integers, Sequences, FiniteSets, SequencesExt, TLC

CONSTANTS
    Streams,        \* pairs of an SPS and a PPS a host may send
    Expected        \* the size the decoder was opened for, in macroblocks

ASSUME ParameterSetsAssumption ==
    \A s \in Streams : s.sps.refs \in Nat /\ s.pps.entropy \in {0, 1}

VARIABLES
    hardware,       \* the build: PSP_HARDWARE_AVC
    input,          \* AvcStreamInput: the cached SPS and PPS
    backend,        \* PspAvcBackend: what it keeps of the parameter sets
    submitted,      \* what the firmware was given with the last access unit
    soft            \* the software path's flags

psVars == <<hardware, input, backend, submitted, soft>>

----------------------------------------------------------------------------
(* Bits, bytes and the network abstraction layer.                           *)

\* A loop over a sequence.
Through(items, start, step(_, _)) ==
    LET after[i \in 0 .. Len(items)] == IF i = 0 THEN start ELSE step(after[i - 1], items[i])
    IN  after[Len(items)]

Bits(n, v) == [i \in 1 .. n |-> IF n - i > 30 THEN 0 ELSE (v \div 2 ^ (n - i)) % 2]
Value(bits) == Through(bits, 0, LAMBDA acc, b : 2 * acc + b)
ue(v) == LET n == CHOOSE k \in 1 .. 17 : 2 ^ (k - 1) <= v + 1 /\ v + 1 < 2 ^ k
         IN  Bits(2 * n - 1, v + 1)

\* The stop bit and the alignment that end a raw byte sequence.
Trailing(bits) == bits \o <<1>> \o [i \in 1 .. (7 - Len(bits)) % 8 |-> 0]
Bytes(bits) == [i \in 1 .. Len(bits) \div 8 |-> Value(SubSeq(bits, 8 * i - 7, 8 * i))]
BitsOf(bytes) == FlattenSeq([i \in DOMAIN bytes |-> Bits(8, bytes[i])])

\* One byte with its emulation prevention.
Escape(acc, byte) ==
    IF acc.zeros = 2 /\ byte <= 3
    THEN [out |-> acc.out \o <<3, byte>>, zeros |-> IF byte = 0 THEN 1 ELSE 0]
    ELSE [out |-> Append(acc.out, byte), zeros |-> IF byte = 0 THEN acc.zeros + 1 ELSE 0]

write_nal(header, rbsp) ==
    Through(rbsp, [out |-> <<header>>, zeros |-> 0], Escape).out

\* The strict reader of the hardware path: a start code inside, or an escape that escapes
\* nothing, is refused.
Unescape(nal, acc, i) ==
    LET byte == nal[i]
        escape == acc.zeros = 2 /\ byte = 3
    IN  [out |-> IF escape THEN acc.out ELSE Append(acc.out, byte),
         zeros |-> IF byte = 0 THEN acc.zeros + 1 ELSE 0,
         ok |-> /\ acc.ok
                /\ escape => (i < Len(nal) /\ nal[i + 1] <= 3)
                /\ ~ (acc.zeros = 2 /\ byte < 3)]

load_rbsp(nal, type) ==
    LET read == Through([i \in 1 .. Len(nal) - 1 |-> i + 1], [out |-> <<>>, zeros |-> 0, ok |-> TRUE],
                        LAMBDA acc, i : Unescape(nal, acc, i))
    IN  [bits |-> BitsOf(read.out), ok |-> read.ok /\ Len(nal) >= 2 /\ nal[1] % 32 = type /\ nal[1] < 128]

\* The lax one of the software path.
nal_payload_to_rbsp(payload) ==
    Through(payload, [out |-> <<>>, zeros |-> 0],
            LAMBDA acc, byte :
                IF acc.zeros >= 2 /\ byte = 3 THEN [acc EXCEPT !.zeros = 0]
                ELSE [out |-> Append(acc.out, byte), zeros |-> IF byte = 0 THEN acc.zeros + 1 ELSE 0]).out

LastOne(bits) == Max({0} \cup {i \in DOMAIN bits : bits[i] = 1})

----------------------------------------------------------------------------
(* Reading syntax elements.  A field is a name and a width, 0 for Exp-Golomb *)
(* codes, or these with the name of an earlier field and the values of that *)
(* one with which this field is there.  A failed read leaves bad, reads 0   *)
(* from then on and has no place in at.                                     *)

Start(bits, maxZeros) == [bits |-> bits, pos |-> 0, bad |-> FALSE, maxZeros |-> maxZeros, at |-> <<>>, val |-> <<>>]

Took(p, name, n, v) == [p EXCEPT !.pos = @ + n, !.val = (name :> v) @@ @, !.at = (name :> p.pos) @@ @]
Bad(p, name) == [p EXCEPT !.bad = TRUE, !.val = (name :> 0) @@ @]

read_bits(p, name, n) ==
    IF p.bad \/ p.pos + n > Len(p.bits) THEN Bad(p, name)
    ELSE Took(p, name, n, Value(SubSeq(p.bits, p.pos + 1, p.pos + n)))

\* With the number of zeros before the first one, or -1.
ReadCode(p, name, z) ==
    IF p.bad \/ z = -1 \/ p.pos + 2 * z + 1 > Len(p.bits) THEN Bad(p, name)
    ELSE Took(p, name, 2 * z + 1, Value(SubSeq(p.bits, p.pos + 1 + z, p.pos + 1 + 2 * z)) - 1)

read_ue(p, name) ==
    LET ones == {k \in 0 .. Min({p.maxZeros, Len(p.bits) - p.pos - 1}) : p.bits[p.pos + 1 + k] = 1}
    IN  ReadCode(p, name, IF ones = {} THEN -1 ELSE Min(ones))

There(p, f) == Len(f) = 2 \/ (f[3] \in DOMAIN p.val /\ p.val[f[3]] \in f[4])

Read(p, fields) ==
    Through(fields, p, LAMBDA q, f :
        IF ~ There(q, f) THEN q ELSE IF f[2] = 0 THEN read_ue(q, f[1]) ELSE read_bits(q, f[1], f[2]))
Skip(p, widths) == Read(p, [i \in DOMAIN widths |-> <<"skipped", widths[i]>>])
Good(p, name) == name \in DOMAIN p.at
Refuse(p) == [p EXCEPT !.bad = TRUE]

HeaderFields == <<<<"profile", 8>>, <<"constraints", 8>>, <<"level", 8>>, <<"id", 0>>>>

\* The fields from log2_max_frame_num to max_num_ref_frames; more offsets than maxCycle are
\* refused, or only so many of them read.
CycleFields ==
    <<<<"log2_frame_num", 0>>, <<"poc", 0>>, <<"log2_poc", 0, "poc", {0}>>,
      <<"skipped", 1, "poc", {1}>>, <<"skipped", 0, "poc", {1}>>, <<"skipped", 0, "poc", {1}>>,
      <<"cycle", 0, "poc", {1}>>>>

ReadOffsets(p, maxCycle, lenient) ==
    IF p.val.poc # 1 THEN p
    ELSE IF p.val.cycle > maxCycle /\ ~ lenient THEN Refuse(p)
    ELSE Skip(p, [i \in 1 .. Min({p.val.cycle, maxCycle}) |-> 0])

ReadToRefs(p, maxCycle, lenient) ==
    Read(ReadOffsets(Read(p, CycleFields), maxCycle, lenient), <<<<"refs", 0>>>>)

----------------------------------------------------------------------------
(* The host's encoder.                                                      *)

VuiBits(v) ==
    <<0, 0, 0, 0>>
    \o (IF v.timing THEN <<1>> \o Bits(32, 1) \o Bits(32, 60) \o <<1>> ELSE <<0>>)
    \o (IF v.hrd THEN <<1>> \o ue(0) \o Bits(8, 0) \o ue(7) \o ue(7) \o <<1>> \o Bits(20, 0) \o <<0, 0>> ELSE <<0, 0>>)
    \o <<0>>
    \o (IF v.restricted THEN <<1, 1>> \o ue(2) \o ue(1) \o ue(16) \o ue(16) \o ue(v.reorder) \o ue(v.dpb)
        ELSE <<0>>)

High(s) == ue(s.chroma) \o ue(s.depth) \o ue(0) \o <<s.bypass, s.scaling>>

SpsBits(s) ==
    Bits(8, s.profile) \o Bits(8, s.constraints) \o Bits(8, s.level) \o ue(s.id)
    \o (IF s.profile = 100 THEN High(s) ELSE <<>>)
    \o ue(0) \o ue(s.poc)
    \o (CASE s.poc = 0 -> ue(2)
          [] s.poc = 1 -> <<0>> \o ue(0) \o ue(0) \o ue(s.cycle) \o FlattenSeq([i \in 1 .. s.cycle |-> ue(9)])
          [] OTHER -> <<>>)
    \o ue(s.refs) \o <<0>> \o ue(s.width - 1) \o ue(s.height - 1)
    \o (IF s.interlaced THEN <<0, 0>> ELSE <<1>>) \o <<1>>
    \o (IF s.crop # <<0, 0, 0, 0>> THEN <<1>> \o FlattenSeq([i \in 1 .. 4 |-> ue(s.crop[i])]) ELSE <<0>>)
    \o (IF s.vui.present THEN <<1>> \o VuiBits(s.vui) ELSE <<0>>)

PpsBits(p) ==
    ue(p.id) \o ue(p.sps_id) \o <<p.entropy, 0>> \o ue(p.groups) \o (IF p.groups > 0 THEN ue(1) ELSE <<>>)
    \o ue(0) \o ue(0) \o <<0, 0, 0>> \o ue(0) \o ue(0) \o ue(4) \o <<1, 0, 0>>
    \o (IF p.extended THEN <<1, 0>> \o ue(4) ELSE <<>>)

SpsNal(s) == write_nal(103, Bytes(Trailing(SpsBits(s))))
PpsNal(p) == write_nal(104, Bytes(Trailing(PpsBits(p))))

----------------------------------------------------------------------------
(* avc_stream_format.c and avc_sps_fixup.c.                                 *)

Rejected == [ok |-> FALSE, sps |-> <<>>]

SizeFields ==
    <<<<"gaps", 1>>, <<"width", 0>>, <<"height", 0>>, <<"progressive", 1>>, <<"direct8x8", 1>>, <<"cropped", 1>>,
      <<"left", 0, "cropped", {1}>>, <<"right", 0, "cropped", {1}>>,
      <<"top", 0, "cropped", {1}>>, <<"bottom", 0, "cropped", {1}>>, <<"vui", 1>>>>

Crop(v) == IF v.cropped = 1 THEN <<v.left, v.right, v.top, v.bottom>> ELSE <<0, 0, 0, 0>>

FormatOf(v, crop) ==
    IF /\ v.constraints % 4 = 0 /\ v.profile \in {66, 77} /\ v.id <= 31
       /\ v.poc <= 2 /\ v.log2_frame_num <= 12
       /\ v.poc = 0 => v.log2_poc <= 12
       /\ v.width < 30 /\ v.height < 17 /\ v.refs <= 4 /\ v.progressive = 1
       /\ \A j \in 1 .. 4 : crop[j] <= 240
       /\ 2 * (crop[1] + crop[2]) < 16 * (v.width + 1) /\ 2 * (crop[3] + crop[4]) < 16 * (v.height + 1)
    THEN [ok |-> TRUE, profile |-> v.profile, level |-> v.level, id |-> v.id, refs |-> v.refs,
          coded |-> <<v.width + 1, v.height + 1>>, crop |-> crop]
    ELSE [ok |-> FALSE]

\* What the decoder needs to know of a Baseline or Main SPS.
avc_stream_format(nal) ==
    LET loaded == load_rbsp(nal, 7)
        p == Read(ReadToRefs(Read(Start(loaded.bits, 30), HeaderFields), 255, FALSE), SizeFields)
    IN  IF loaded.ok /\ Len(nal) \in 5 .. 1024 /\ ~ p.bad THEN FormatOf(p.val, Crop(p.val)) ELSE [ok |-> FALSE]

Same(a, b) == \A f \in {"profile", "level", "id", "coded", "crop"} : a[f] = b[f]

HighFields == <<<<"chroma", 0>>, <<"luma", 0>>, <<"chromadepth", 0>>, <<"bypass", 1>>, <<"scaling", 1>>>>

\* A High SPS that uses none of High's tools.
Plain(x) ==
    /\ ~ x.bad /\ x.val.chroma = 1 /\ x.val.constraints % 4 = 0
    /\ \A f \in {"luma", "chromadepth", "bypass", "scaling"} : x.val[f] = 0
    /\ x.pos < Len(x.bits)

AsMain(header, x) ==
    write_nal(header, Bytes(Trailing(
        Bits(8, 77) \o Bits(8, 0) \o Bits(8, x.val.level)
        \o SubSeq(x.bits, 25, x.at["chroma"]) \o SubSeq(x.bits, x.pos + 1, Len(x.bits)))))

AcceptMain(sps, format, x) ==
    IF ~ format.ok THEN Rejected
    ELSE [ok |-> format.id = x.val.id /\ format.level = x.val.level, sps |-> sps]

Normalized(nal, x) ==
    IF ~ Good(x, "id") \/ x.val.id > 31 THEN Rejected
    ELSE IF x.val.profile \in {66, 77} THEN [ok |-> TRUE, sps |-> nal]
    ELSE IF x.val.profile # 100 \/ ~ Plain(x) THEN Rejected
    ELSE AcceptMain(AsMain(nal[1], x), avc_stream_format(AsMain(nal[1], x)), x)

\* High spelled as Main; Baseline and Main as they are.
avc_sps_normalize_main(nal) ==
    LET loaded == load_rbsp(nal, 7)
        stop == LastOne(loaded.bits) - 1
    IN  IF ~ loaded.ok \/ stop < 0 THEN Rejected
        ELSE Normalized(nal, Read(Start(SubSeq(loaded.bits, 1, stop), 30), HeaderFields \o HighFields))

\* The SPS with one reference frame, up to the bit stop.
OneReference(header, r, stop) ==
    write_nal(header, Bytes(Trailing(
        SubSeq(r.bits, 1, r.at["refs"]) \o <<0, 1, 0>> \o SubSeq(r.bits, r.pos + 1, stop))))

ReadSps(nal) == ReadToRefs(Read(Start(load_rbsp(nal, 7).bits, 30), HeaderFields), 255, FALSE)

\* Mutant: the old alignment is copied with the payload.
LimitRefsCopiesAlignment(nal) ==
    [ok |-> TRUE, sps |-> OneReference(nal[1], ReadSps(nal), Len(ReadSps(nal).bits))]

AcceptLimited(sps, before, after) ==
    IF ~ after.ok THEN Rejected ELSE [ok |-> after.refs = 1 /\ Same(before, after), sps |-> sps]

Limited(nal, before, sps) ==
    IF ~ before.ok THEN Rejected
    ELSE IF before.refs <= 1 THEN [ok |-> TRUE, sps |-> nal]
    ELSE AcceptLimited(sps, before, avc_stream_format(sps))

\* The SPS with one reference frame; what else it says must read the same.
avc_sps_limit_refs(nal) ==
    LET r == ReadSps(nal)
    IN  Limited(nal, avc_stream_format(nal), OneReference(nal[1], r, LastOne(r.bits) - 1))

PpsFields ==
    <<<<"id", 0>>, <<"sps", 0>>, <<"entropy", 1>>, <<"order", 1>>, <<"groups", 0>>>>
    \o [i \in 1 .. 10 |-> <<"skipped", <<0, 0, 1, 2, 0, 0, 0, 1, 1, 1>>[i]>>]

ValidPps(p, expectedSps) ==
    /\ ~ p.bad /\ p.val.id <= 255 /\ p.val.sps = expectedSps /\ p.val.groups = 0 /\ p.pos = Len(p.bits)

avc_pps_validate_main(nal, expectedSps) ==
    LET loaded == load_rbsp(nal, 8)
        stop == LastOne(loaded.bits) - 1
        p == Read(Start(SubSeq(loaded.bits, 1, stop), 30), PpsFields)
    IN  [ok |-> loaded.ok /\ stop >= 0 /\ ValidPps(p, expectedSps), entropy |-> p.val.entropy]

----------------------------------------------------------------------------
(* The parsers of the software path: Exp-Golomb codes of at most 16 zeros.  *)

HighProfiles == {100, 110, 122, 244, 44, 83, 86, 118, 128, 138, 144}

ExtensionFields ==
    <<<<"chroma", 0, "profile", HighProfiles>>, <<"skipped", 1, "chroma", {3}>>,
      <<"skipped", 0, "profile", HighProfiles>>, <<"skipped", 0, "profile", HighProfiles>>,
      <<"skipped", 1, "profile", HighProfiles>>, <<"scaling", 1, "profile", HighProfiles>>>>

Scaled(p) == Good(p, "scaling") /\ p.val.scaling = 1

HrdTail(p) ==
    Skip(p, FlattenSeq([i \in 1 .. Min({p.val.cpb + 1, 32}) |-> <<0, 0, 1>>]) \o <<5, 5, 5, 5>>)

\* If the flag before it says that it is there.
nal_skip_hrd_parameters(p, flag) ==
    IF p.bad \/ p.val[flag] = 0 THEN p ELSE HrdTail(Read(p, <<<<"cpb", 0>>, <<"skipped", 4>>, <<"skipped", 4>>>>))

VuiFields ==
    <<<<"aspect", 1>>, <<"ratio", 8, "aspect", {1}>>,
      <<"skipped", 16, "ratio", {255}>>, <<"skipped", 16, "ratio", {255}>>,
      <<"overscan", 1>>, <<"skipped", 1, "overscan", {1}>>,
      <<"signal", 1>>, <<"format", 3, "signal", {1}>>, <<"range", 1, "signal", {1}>>, <<"colour", 1, "signal", {1}>>,
      <<"skipped", 24, "colour", {1}>>,
      <<"chromaloc", 1>>, <<"skipped", 0, "chromaloc", {1}>>, <<"skipped", 0, "chromaloc", {1}>>,
      <<"timing", 1>>, <<"skipped", 32, "timing", {1}>>, <<"skipped", 32, "timing", {1}>>,
      <<"skipped", 1, "timing", {1}>>, <<"nalhrd", 1>>>>

\* A VUI with an HRD has one more bit.
LowDelay(p) == Read(p, <<<<"low_delay", 1, IF p.val.nalhrd = 1 THEN "nalhrd" ELSE "vclhrd", {1}>>>>)

RestrictionFields ==
    <<<<"skipped", 1>>, <<"restricted", 1>>,
      <<"skipped", 1>>, <<"skipped", 0>>, <<"skipped", 0>>, <<"skipped", 0>>, <<"skipped", 0>>,
      <<"reorder", 0>>, <<"dpb", 0>>>>

\* The reordering and buffering the VUI promises, -1 where it does not say.
Promises(p) ==
    LET said(f) == IF p.val.restricted = 1 /\ Good(p, f) THEN p.val[f] ELSE -1
    IN  [reorder |-> said("reorder"), dpb |-> said("dpb")]

sps_parse_vui(p) ==
    Promises(Read(LowDelay(
        nal_skip_hrd_parameters(
            Read(nal_skip_hrd_parameters(Read(p, VuiFields), "nalhrd"), <<<<"vclhrd", 1>>>>), "vclhrd")),
        RestrictionFields))

Silent == [reorder |-> -1, dpb |-> -1]

TailFields ==
    <<<<"skipped", 1>>, <<"skipped", 0>>, <<"skipped", 0>>,
      <<"progressive", 1>>, <<"skipped", 1, "progressive", {0}>>, <<"direct8x8", 1>>, <<"cropped", 1>>>>
    \o [i \in 1 .. 4 |-> <<"skipped", 0, "cropped", {1}>>] \o <<<<"vui", 1>>>>

LowLatency(p, vui) ==
    IF ~ Good(p, "refs") \/ Scaled(p) THEN [ok |-> FALSE]
    ELSE [ok |-> TRUE, profile |-> p.val.profile, refs |-> p.val.refs, reorder |-> vui.reorder, dpb |-> vui.dpb]

WithVui(p) == LowLatency(p, IF p.bad \/ p.val.vui = 0 THEN Silent ELSE sps_parse_vui(p))

ReadSoftSps(bits, lenient) ==
    ReadToRefs(Read(Start(bits, 16), HeaderFields \o ExtensionFields), 32, lenient)

sps_parse_low_latency_fields(bits) == WithVui(Read(ReadSoftSps(bits, FALSE), TailFields))

\* Where start codes stand in a frame, and the payload of the first NAL unit of a type.
StartCode(frame, i) ==
    IF i + 2 <= Len(frame) /\ SubSeq(frame, i, i + 2) = <<0, 0, 1>> THEN 3
    ELSE IF i + 3 <= Len(frame) /\ SubSeq(frame, i, i + 3) = <<0, 0, 0, 1>> THEN 4 ELSE 0

nal_find_payload(frame, type) ==
    LET starts == {i \in 1 .. Len(frame) - 5 : /\ StartCode(frame, i) > 0
                                               /\ frame[i + StartCode(frame, i)] % 32 = type}
        first == Min(starts) + StartCode(frame, Min(starts)) + 1
        ends == {j \in first .. Len(frame) - 3 : StartCode(frame, j) > 0}
    IN  IF starts = {} THEN <<>>
        ELSE SubSeq(frame, first, IF ends = {} THEN Len(frame) ELSE Min(ends) - 1)

\* What the first SPS says of the stream: unknown if there is none.  An SPS the parser
\* refuses is judged by its profile and by what a shorter parse makes of its references.
Judged(p) ==
    IF ~ Good(p, "id") THEN "unreadable"
    ELSE IF Scaled(p) \/ p.val.profile # 66 \/ (Good(p, "refs") /\ p.val.refs > 4) THEN "broken" ELSE "kept"

Contract(info, bits) ==
    IF info.ok
    THEN IF info.refs > 4 \/ info.profile # 66 \/ info.reorder > 0 \/ info.dpb > 4 THEN "broken" ELSE "kept"
    ELSE IF Len(bits) < 32 THEN "unreadable" ELSE Judged(ReadSoftSps(bits, TRUE))

FirstBits(frame, type) == BitsOf(nal_payload_to_rbsp(nal_find_payload(frame, type)))

Verdict(frame) ==
    LET bits == FirstBits(frame, 7)
    IN  IF bits = <<>> THEN "unknown"
        ELSE Contract(sps_parse_low_latency_fields(SubSeq(bits, 1, LastOne(bits))), bits)

\* The entropy coder of the first PPS: -1 if there is none to read.
EntropyOf(bits, p) == IF Len(bits) < 10 \/ p.bad THEN -1 ELSE p.val.entropy

Entropy(frame) ==
    EntropyOf(FirstBits(frame, 8),
              Read(Start(FirstBits(frame, 8), 16), <<<<"id", 0>>, <<"sps", 0>>, <<"entropy", 1>>, <<"order", 1>>>>))

----------------------------------------------------------------------------
(* The hardware path: psp_avc_backend_decode up to the submission.          *)

None == [none |-> TRUE]

ClosedBackend(main) ==
    [source |-> None, firmware |-> <<>>, format |-> None, pps |-> None, entropy |-> -1,
     main |-> main, first |-> FALSE, failed |-> "no", request |-> "none"]

ParameterSetsInit ==
    /\ hardware \in BOOLEAN
    /\ input = [sps |-> None, pps |-> None, need_idr |-> TRUE]
    /\ backend \in {ClosedBackend(main) : main \in IF hardware THEN BOOLEAN ELSE {TRUE}}
    /\ submitted = None
    /\ soft = [sps_checked |-> FALSE, verdict |-> "unknown", entropy |-> -1, scans |-> 0, sent |-> None]

\* The pixels an SPS shows.
Display(f) == <<16 * f.coded[1] - 2 * (f.crop[1] + f.crop[2]), 16 * f.coded[2] - 2 * (f.crop[3] + f.crop[4])>>

\* The new SPS of a stream: parsed, normalized and limited; kept only if all of it succeeds.
Fits(format) ==
    format.ok /\ Display(format) = Expected /\ format.crop[1] = 0 /\ format.crop[3] = 0

KeepSps(b, sps, format, one) ==
    IF one.ok THEN [b EXCEPT !.source = sps, !.firmware = one.sps, !.format = format]
    ELSE [b EXCEPT !.failed = "parameters"]

AcceptSps(b, sps, main, format) ==
    IF ~ Fits(format) THEN [b EXCEPT !.failed = "parameters"]
    ELSE KeepSps(b, sps, format, IF format.refs > 1 THEN avc_sps_limit_refs(main) ELSE [ok |-> TRUE, sps |-> main])

ParseSps(b, sps, main) ==
    IF main.ok THEN AcceptSps(b, sps, main.sps, avc_stream_format(main.sps))
    ELSE [b EXCEPT !.failed = "parameters"]

TakeSps(b, sps) == IF b.source = sps THEN b ELSE ParseSps(b, sps, avc_sps_normalize_main(SpsNal(sps)))

\* The new PPS, against the SPS in force.
TakePps(b, pps) ==
    LET valid == avc_pps_validate_main(PpsNal(pps), b.format.id)
    IN  IF b.failed # "no" \/ b.pps = pps THEN b
        ELSE IF ~ valid.ok THEN [b EXCEPT !.failed = "parameters"]
        ELSE [b EXCEPT !.pps = pps, !.entropy = valid.entropy]

\* The firmware mode the stream needs.
NeedsMain(b) == b.format.profile # 66 \/ b.entropy = 1

\* The backend b has taken the parameter sets of the access unit: submitted under the mode
\* they need, or a switch of modes is asked for.
Submit(b, idr) ==
    LET suits == b.failed = "no" /\ NeedsMain(b) = b.main
    IN  /\ submitted' = IF suits THEN [sps |-> b.firmware, main |-> b.main] ELSE None
        /\ backend' = CASE suits -> [b EXCEPT !.first = @ \/ idr]
                        [] b.failed # "no" -> b
                        [] OTHER -> IF b.first THEN [b EXCEPT !.failed = "profile"]
                                    ELSE [b EXCEPT !.request = IF NeedsMain(b) THEN "main" ELSE "base"]

\* An access unit: an IDR with its parameter sets or, with None, a predicted picture.
psp_avc_backend_decode(stream) ==
    LET idr == stream # None
        changed == idr /\ (\/ input.sps # None /\ input.sps # stream.sps
                           \/ input.pps # None /\ input.pps # stream.pps)
        sps == IF idr THEN stream.sps ELSE input.sps
        pps == IF idr THEN stream.pps ELSE input.pps
    IN  /\ hardware /\ backend.failed = "no" /\ backend.request = "none"
        /\ IF changed \/ (~ idr /\ input.need_idr)
           THEN /\ input' = [input EXCEPT !.need_idr = @ \/ changed]
                /\ backend' = [backend EXCEPT !.failed = IF changed THEN "change" ELSE @]
                /\ submitted' = None
           ELSE /\ input' = [sps |-> sps, pps |-> pps, need_idr |-> FALSE]
                /\ Submit(TakePps(TakeSps(backend, sps), pps), idr)
        /\ UNCHANGED <<hardware, soft>>

psp_avc_backend_switch_profile ==
    /\ backend.request # "none"
    /\ backend' = [backend EXCEPT !.main = backend.request = "main", !.request = "none", !.first = FALSE]
    /\ input' = [input EXCEPT !.need_idr = TRUE]
    /\ UNCHANGED <<hardware, submitted, soft>>

\* The cached parameter sets survive a reset.
psp_avc_backend_reset ==
    /\ backend.failed # "no"
    /\ backend' = [backend EXCEPT !.failed = "no"]
    /\ input' = [input EXCEPT !.need_idr = TRUE]
    /\ submitted' = None /\ UNCHANGED <<hardware, soft>>

\* Closed and opened again for the next stream.
Reopen(main) ==
    /\ input.sps # None
    /\ backend' = ClosedBackend(main) /\ submitted' = None
    /\ input' = [sps |-> None, pps |-> None, need_idr |-> TRUE]
    /\ UNCHANGED <<hardware, soft>>

----------------------------------------------------------------------------
(* The software path: the callback scans frames until it has seen both sets *)

Slice(type) == <<0, 0, 1, type, 136, 132, 0, 33>>
FrameOf(stream) ==
    IF stream = None THEN Slice(97)
    ELSE <<0, 0, 0, 1>> \o SpsNal(stream.sps) \o <<0, 0, 0, 1>> \o PpsNal(stream.pps) \o Slice(101)

CONSTANT PpsScans       \* frames that are scanned for a PPS (10)

rtp_frame_complete_callback(stream) ==
    LET frame == FrameOf(stream)
        verdict == IF soft.sps_checked THEN soft.verdict ELSE Verdict(frame)
        scan == soft.entropy # 1 /\ soft.scans < PpsScans
    IN  /\ ~ hardware /\ (~ soft.sps_checked \/ scan)
        /\ soft' = [sps_checked |-> verdict # "unknown", verdict |-> verdict,
                    entropy |-> IF scan /\ soft.entropy = -1 THEN Entropy(frame) ELSE soft.entropy,
                    scans |-> IF scan THEN soft.scans + 1 ELSE soft.scans,
                    sent |-> IF soft.sent = None THEN stream ELSE soft.sent]
        /\ UNCHANGED <<hardware, input, backend, submitted>>

\* sw_decoder_thread_init for a new stream.
SoftRestart ==
    /\ soft.sent # None
    /\ soft' = [sps_checked |-> FALSE, verdict |-> "unknown", entropy |-> -1, scans |-> 0, sent |-> None]
    /\ UNCHANGED <<hardware, input, backend, submitted>>

ParameterSetsNext ==
    \/ \E stream \in Streams \cup {None} : psp_avc_backend_decode(stream)
    \/ psp_avc_backend_switch_profile \/ psp_avc_backend_reset
    \/ \E main \in BOOLEAN : Reopen(main)
    \/ \E stream \in (IF soft.sent = None THEN Streams \cup {None} ELSE {soft.sent, None}) :
          rtp_frame_complete_callback(stream)
    \/ SoftRestart

ParameterSetsSpec == ParameterSetsInit /\ [][ParameterSetsNext]_psVars

----------------------------------------------------------------------------
(* What the parameter sets mean.                                            *)

\* A stream the firmware's Main mode can decode at the expected size.
Compatible(s) ==
    /\ s.sps.profile \in {66, 77, 100} /\ s.sps.constraints % 4 = 0
    /\ s.sps.profile = 100 => s.sps.chroma = 1 /\ s.sps.depth = 0 /\ s.sps.bypass = 0 /\ s.sps.scaling = 0
    /\ s.sps.refs <= 4 /\ ~ s.sps.interlaced /\ s.sps.crop[1] = 0 /\ s.sps.crop[3] = 0
    /\ s.sps.width <= 30 /\ s.sps.height <= 17
    /\ Display([coded |-> <<s.sps.width, s.sps.height>>, crop |-> s.sps.crop]) = Expected
    /\ s.pps.sps_id = s.sps.id /\ s.pps.groups = 0 /\ ~ s.pps.extended

Intended(sps) ==
    [sps EXCEPT !.profile = IF @ = 100 THEN 77 ELSE @, !.constraints = IF sps.profile = 100 THEN 0 ELSE @,
                !.refs = IF @ > 1 THEN 1 ELSE @]

\* The payload of a NAL unit by the standard's rule, and the rule itself.
Payload(nal) ==
    LET escape(i) == i > 3 /\ nal[i] = 3 /\ nal[i - 1] = 0 /\ nal[i - 2] = 0
    IN  Through([k \in 1 .. Len(nal) - 1 |-> k + 1], <<>>,
                LAMBDA acc, i : IF escape(i) THEN acc ELSE Append(acc, nal[i]))
HoldsStartCode(nal) == \E i \in 2 .. Len(nal) - 2 : nal[i] = 0 /\ nal[i + 1] = 0 /\ nal[i + 2] <= 2

\* What reaches the firmware is the host's SPS to the last bit, but for High spelled as
\* Main and the references limited to one, in a well-formed NAL unit and under the mode
\* its entropy coder needs; a stream is refused for its parameter sets only if the
\* firmware's Main profile or the announced size rule it out (psp_avc_backend_decode).
\* The software path's own parsers judge the stream by what its parameter sets really say:
\* the contract (Baseline, four references, no reordering, four buffered frames) and the
\* entropy coder, with emulation prevention, timing and HRD fields in the way.
ParameterSetsExact ==
    /\ submitted # None =>
         LET sps == Intended(input.sps)
         IN  /\ ~ HoldsStartCode(submitted.sps)
             /\ BitsOf(Payload(submitted.sps)) = Trailing(SpsBits(sps))
             /\ submitted.main = (sps.profile # 66 \/ input.pps.entropy = 1)
             /\ Compatible(input)
    /\ backend.failed = "parameters" => ~ Compatible(input)
    /\ soft.sps_checked =>
         LET sps == soft.sent.sps
             promised == sps.vui.present /\ sps.vui.restricted
         IN  /\ (soft.verdict = "kept") <=> (/\ sps.profile = 66 /\ sps.refs <= 4
                                             /\ promised => sps.vui.reorder = 0 /\ sps.vui.dpb <= 4)
             /\ soft.scans > 0 /\ soft.entropy # -1 => soft.entropy = soft.sent.pps.entropy
============================================================================
