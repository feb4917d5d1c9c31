---------------------------- MODULE ReedSolomon ----------------------------
(***************************************************************************)
(* The Reed-Solomon code (rs.c) and its one static context, which the      *)
(* video side (rtp_fec.c) and the audio side (audio_thread.c) configure in *)
(* turn.  Both hold the global lock from the configuration to the end of   *)
(* the reconstruction, so that each is one step here.                      *)
(*                                                                         *)
(* An element of GF(256) is the set of its bits: addition is the symmetric *)
(* difference.  The code treats every byte of a shard alike, so a shard is *)
(* one byte.                                                               *)
(***************************************************************************)
EXTENDS Integers, Sequences, FiniteSets, SequencesExt, TLC

CONSTANTS
    VideoShapes,    \* <<data, parity>> of the blocks of video frames
    MaxBlocks,      \* FEC blocks of a frame; the code's limit is 4
    MaxLost,        \* shards a block loses
    Seeds           \* each seed is one content of the data shards

ASSUME RsAssumption ==
    /\ \A s \in VideoShapes : s[1] \in 1 .. 64 /\ s[2] \in 1 .. 64
    /\ MaxBlocks \in 1 .. 4 /\ MaxLost \in Nat /\ Seeds \subseteq Nat

VARIABLES
    ctx,        \* s_rs_ctx: its shape and parity matrix; the matrix is <<>> once released
    cached,     \* s_cached_data and s_cached_parity, <<>> while s_cached_rs is NULL
    outcome     \* what the last recovery made of what was sent

rsVars == <<ctx, cached, outcome>>

\* A loop over a sequence.
Repeated(step(_, _), start, items) ==
    LET after[i \in 0 .. Len(items)] == IF i = 0 THEN start ELSE step(after[i - 1], items[i])
    IN  after[Len(items)]

----------------------------------------------------------------------------
(* The field: generate_gf and init_mul_table.                               *)

Byte(n) == {k \in 0 .. 7 : (n \div 2 ^ k) % 2 = 1}
Plus(a, b) == (a \ b) \cup (b \ a)
GF_PP == {0, 2, 3, 4}               \* alpha^8, from "101110001"
TimesAlpha(a) == Plus({k + 1 : k \in a \ {7}}, IF 7 \in a THEN GF_PP ELSE {})

gf_exp == Repeated(LAMBDA powers, i : Append(powers, TimesAlpha(Last(powers))),
                   <<{0}>>, [i \in 1 .. 254 |-> i])
gf_log == [a \in SUBSET (0 .. 7) \ {{}} |-> CHOOSE i \in 0 .. 254 : gf_exp[i + 1] = a]

gf_mul(a, b) == IF {} \in {a, b} THEN {} ELSE gf_exp[((gf_log[a] + gf_log[b]) % 255) + 1]
inverse == [a \in SUBSET (0 .. 7) |-> IF a = {} THEN {} ELSE gf_exp[((255 - gf_log[a]) % 255) + 1]]

----------------------------------------------------------------------------
(* Encoding and decoding with a parity matrix of `parity` rows.             *)

\* reed_solomon_new: the matrix the host uses for video.
ParityMatrix(shape) ==
    [j \in 0 .. shape[2] - 1 |-> [i \in 0 .. shape[1] - 1 |->
        inverse[Plus(Byte(shape[2] + i), Byte(j))]]]

\* The matrix the host uses for audio.
AudioShape == <<4, 2>>
AudioMatrix ==
    (0 :> (0 :> Byte(119) @@ 1 :> Byte(64) @@ 2 :> Byte(56) @@ 3 :> Byte(14)))
    @@ (1 :> (0 :> Byte(199) @@ 1 :> Byte(167) @@ 2 :> Byte(13) @@ 3 :> Byte(108)))

Combine(row, bytes, over) == Repeated(LAMBDA acc, i : Plus(acc, gf_mul(row[i], bytes[i])), {},
                                      SetToSortSeq(over, <))

\* reed_solomon_encode: the host's side.
Encode(matrix, data) == [j \in DOMAIN matrix |-> Combine(matrix[j], data, DOMAIN data)]

\* Mutant: the rows below the pivot keep what they had.
EliminateOnlyScales(s, x) ==
    LET u == inverse[s.work[x][x]]
    IN  [ok |-> s.ok /\ s.work[x][x] # {},
         work |-> [s.work EXCEPT ![x] = [c \in DOMAIN @ |-> gf_mul(u, @[c])]],
         value |-> [s.value EXCEPT ![x] = gf_mul(u, @)]]

\* The forward pass of nanors_invert_mat at pivot x: there is no search for a pivot.
Eliminate(s, x) ==
    LET u == inverse[s.work[x][x]]
        row == [c \in DOMAIN s.work |-> gf_mul(u, s.work[x][c])]
        value == gf_mul(u, s.value[x])
        Below(r, old, by) == IF r > x THEN Plus(old, gf_mul(s.work[r][x], by)) ELSE old
    IN  [ok |-> s.ok /\ s.work[x][x] # {},
         work |-> [r \in DOMAIN s.work |-> IF r = x THEN row
                     ELSE [c \in DOMAIN s.work |-> Below(r, s.work[r][c], row[c])]],
         value |-> [r \in DOMAIN s.value |-> IF r = x THEN value ELSE Below(r, s.value[r], value)]]

\* The backward pass from row x.
Substitute(work, value, x) ==
    [r \in DOMAIN value |-> IF r < x THEN Plus(value[r], gf_mul(work[r][x], value[x])) ELSE value[r]]

Upward(n) == [i \in 1 .. n |-> i - 1]

\* After the forward pass: the data, with column col[x] as the x-th value.
Solved(done, data, col) ==
    LET value == Repeated(LAMBDA v, x : Substitute(done.work, v, x), done.value,
                          Reverse(Upward(Cardinality(DOMAIN col))))
    IN  [ok |-> done.ok,
         data |-> [i \in DOMAIN data |->
             IF \E x \in DOMAIN col : col[x] = i THEN value[CHOOSE x \in DOMAIN col : col[x] = i] ELSE data[i]]]

\* nanors_decode_shards: the missing data shards from the first parity shards that came.
nanors_decode(matrix, got, missing, parityRows) ==
    LET n == Cardinality(missing)
        known == DOMAIN got.data \ missing
        col == [x \in 0 .. n - 1 |-> SetToSortSeq(missing, <)[x + 1]]
        row == [x \in 0 .. n - 1 |-> SetToSortSeq(parityRows, <)[x + 1]]
        start == [ok |-> TRUE,
                  work |-> [r \in 0 .. n - 1 |-> [c \in 0 .. n - 1 |-> matrix[row[r]][col[c]]]],
                  value |-> [r \in 0 .. n - 1 |->
                      Plus(got.fec[row[r]], Combine(matrix[row[r]], got.data, known))]]
    IN  Solved(Repeated(Eliminate, start, Upward(n)), got.data, col)

\* reed_solomon_reconstruct, with the shards in `lost` missing; it asks for one parity
\* shard for each missing data shard and takes the first of those that came.
reed_solomon_reconstruct(matrix, shape, sent, lost) ==
    LET missing == lost \cap (0 .. shape[1] - 1)
        came == {j \in 0 .. shape[2] - 1 : shape[1] + j \notin lost}
        first == {j \in came : Cardinality({k \in came : k < j}) < Cardinality(missing)}
    IN  IF Cardinality(first) = Cardinality(missing)
        THEN nanors_decode(matrix, sent, missing, first)
        ELSE [ok |-> FALSE, data |-> sent.data]

----------------------------------------------------------------------------
(* The static context.                                                      *)

Nothing == [kind |-> "none"]

RsInit ==
    /\ ctx = [shape |-> <<>>, matrix |-> <<>>]
    /\ cached = <<>> /\ outcome = Nothing

Content(shape, seed) == [i \in 0 .. shape[1] - 1 |-> Byte((seed * (2 * i + 1) + 37 * i) % 256)]
Sent(matrix, shape, seed) ==
    LET data == Content(shape, seed) IN [data |-> data, fec |-> Encode(matrix, data)]

\* The context of `shape`: the cached one if its shape and that of the static context fit,
\* else a new one.
ConfigureVideo(now, shape) ==
    IF now.cached = shape /\ now.ctx.shape = shape THEN now.ctx
    ELSE [shape |-> shape, matrix |-> ParityMatrix(shape)]

MissingData(b) == b.lost \cap (0 .. b.shape[1] - 1)
Enough(b) == b.shape[1] + b.shape[2] - Cardinality(b.lost) >= b.shape[1]

Rebuilt(now, context, b, res) ==
    [ctx |-> context, cached |-> b.shape, ok |-> now.ok /\ res.ok, got |-> Append(now.got, res.data)]

Rebuild(now, context, b) ==
    Rebuilt(now, context, b,
            reed_solomon_reconstruct(context.matrix, b.shape, Sent(ParityMatrix(b.shape), b.shape, b.seed), b.lost))

\* One FEC block of a frame: nothing is missing, too few shards came, or it is rebuilt.
RecoverBlock(now, b) ==
    IF MissingData(b) # {} /\ Enough(b) THEN Rebuild(now, ConfigureVideo(now, b.shape), b)
    ELSE [now EXCEPT !.ok = @ /\ MissingData(b) = {}, !.got = Append(@, Content(b.shape, b.seed))]

LostOf(shape) == {lost \in SUBSET (0 .. shape[1] + shape[2] - 1) : Cardinality(lost) <= MaxLost}
Blocks == UNION {[shape : {shape}, seed : Seeds, lost : LostOf(shape)] : shape \in VideoShapes}
Frames == UNION {[1 .. n -> Blocks] : n \in 1 .. MaxBlocks}

\* fec_validate_recovered_data_packet: a rebuilt packet must have the flags and the stream
\* packet index of its place.  The byte of a shard stands for that header too, so that a
\* wrong one is noticed, but only a frame of one block is examined.
HeadersValid(frame, got) == Len(frame) = 1 => got[1] = Content(frame[1].shape, frame[1].seed)

\* attempt_recovery_and_submit and attempt_multi_block_recovery_and_submit: every block
\* is tried even after one failed.
RecoverFrame(frame) ==
    /\ outcome = Nothing
    /\ \E done \in {Repeated(RecoverBlock, [ctx |-> ctx, cached |-> cached, ok |-> TRUE, got |-> <<>>], frame)} :
          /\ ctx' = done.ctx /\ cached' = done.cached
          /\ outcome' = [kind |-> "video", submitted |-> done.ok /\ HeadersValid(frame, done.got),
                         got |-> done.got,
                         sent |-> [i \in DOMAIN frame |-> Content(frame[i].shape, frame[i].seed)],
                         enough |-> \A i \in DOMAIN frame : MissingData(frame[i]) = {} \/ Enough(frame[i])]

\* audio_rtp_fec_complete: a context of that shape is kept, any
\* other replaced, and it gets the audio matrix.
RecoverAudio(seed, lost) ==
    /\ outcome = Nothing
    /\ lost \cap (0 .. 3) # {} /\ Cardinality(lost) <= 2
    /\ ctx' = [shape |-> AudioShape, matrix |-> AudioMatrix]
    /\ \E res \in {reed_solomon_reconstruct(AudioMatrix, AudioShape, Sent(AudioMatrix, AudioShape, seed), lost)} :
          outcome' = [kind |-> "audio", submitted |-> res.ok, got |-> <<res.data>>,
                      sent |-> <<Content(AudioShape, seed)>>, enough |-> TRUE]
    /\ UNCHANGED cached

\* rtp_fec_reset releases the context only if video cached it; the shape stays.
rtp_fec_reset ==
    /\ outcome = Nothing /\ cached # <<>>
    /\ ctx' = [ctx EXCEPT !.matrix = <<>>] /\ cached' = <<>>
    /\ UNCHANGED outcome

\* The frame, or the audio packet, goes on to its consumer.
HandOn == outcome # Nothing /\ outcome' = Nothing /\ UNCHANGED <<ctx, cached>>

RsNext ==
    \/ \E frame \in Frames : RecoverFrame(frame)
    \/ \E seed \in Seeds, lost \in LostOf(AudioShape) : RecoverAudio(seed, lost)
    \/ rtp_fec_reset \/ HandOn

RsSpec == RsInit /\ [][RsNext]_rsVars

----------------------------------------------------------------------------
\* What is handed on after a reconstruction is exactly what the host sent, and a frame is
\* handed on exactly if enough shards of each block came: the context may have been set up
\* for another frame shape or by the other stream in between.
RecoveredExact ==
    outcome.kind # "none" =>
        /\ outcome.submitted = outcome.enough
        /\ outcome.submitted => outcome.got = outcome.sent
============================================================================
