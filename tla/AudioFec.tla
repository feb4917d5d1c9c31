------------------------------ MODULE AudioFec ------------------------------
(***************************************************************************)
(* The cache of audio shards (audio_thread.c): the last blocks of data and *)
(* parity packets, from which a lost data packet is rebuilt.  Media time   *)
(* counts Opus frames; a shard holds the frame of one media time, a parity *)
(* shard everything needed to rebuild its block.  All shards of a block    *)
(* have the same size, source and payload type.                            *)
(***************************************************************************)
EXTENDS Integers, Sequences, FiniteSets

CONSTANTS
    Data,           \* AUDIO_RTP_FEC_DATA_SHARDS (4)
    Parity,         \* AUDIO_RTP_FEC_PARITY_SHARDS (2)
    SeqWrap,         \* sequence numbers are u16; here modulo SeqWrap
    MediaMod,       \* media times are counted modulo MediaMod
    CacheBlocks     \* AUDIO_RTP_FEC_CACHE_BLOCKS (8)

ASSUME AudioFecAssumption ==
    /\ {Data, Parity, CacheBlocks, SeqWrap, MediaMod} \subseteq Nat \ {0}
    /\ SeqWrap % (Data * (Data + Parity)) = 0 /\ MediaMod * (Data + Parity) = SeqWrap * Data

Seqs == 0 .. SeqWrap - 1
Media == 0 .. MediaMod - 1
Missing == -1                       \* marks[i] = 1
NoShards(b) ==
    [base |-> b, data |-> [i \in 0 .. Data - 1 |-> Missing], fec |-> [i \in 0 .. Parity - 1 |-> Missing]]

audio_fec_base_seq(seq) == seq - (seq % Data)

IsBlock(b) ==
    /\ b.base \in Seqs
    /\ b.data \in [0 .. Data - 1 -> Media \cup {Missing}]
    /\ b.fec \in [0 .. Parity - 1 -> Media \cup {Missing}]

(***************************************************************************)
(* The cache is the sequence of its valid blocks, least recently used      *)
(* first.  get_block moves the block to the end, or makes room for a new   *)
(* one by dropping the first.                                              *)
(***************************************************************************)
audio_rtp_fec_get_block(cache, base) ==
    LET found == {i \in DOMAIN cache : cache[i].base = base}
        i == CHOOSE j \in found : TRUE
        room == IF Len(cache) = CacheBlocks THEN Tail(cache) ELSE cache
    IN  IF found = {} THEN Append(room, NoShards(base))
        ELSE SubSeq(cache, 1, i - 1) \o SubSeq(cache, i + 1, Len(cache)) \o <<cache[i]>>

audio_rtp_fec_cache_data(cache, seq, media) ==
    LET c == audio_rtp_fec_get_block(cache, audio_fec_base_seq(seq))
    IN  [c EXCEPT ![Len(c)].data[seq % Data] = IF @ = Missing THEN media ELSE @]

\* base: the sequence number the parity header names; media: the time of that packet.
audio_rtp_fec_cache_parity(cache, base, shard, media) ==
    LET c == audio_rtp_fec_get_block(cache, base)
    IN  IF base % Data # 0 THEN cache
        ELSE [c EXCEPT ![Len(c)].fec[shard] = IF @ = Missing THEN media ELSE @]

Present(f) == {i \in DOMAIN f : f[i] # Missing}

\* Can every data shard of b be had: none is missing, or any Data of the shards are there?
Complete(b) ==
    \/ Present(b.data) = DOMAIN b.data
    \/ Cardinality(Present(b.data)) + Cardinality(Present(b.fec)) >= Data

\* reed_solomon_reconstruct fills in the data shards that are missing.
audio_rtp_fec_complete(b) ==
    LET origin == b.fec[CHOOSE i \in Present(b.fec) : TRUE]
    IN  [b EXCEPT !.data = [i \in DOMAIN b.data |->
            IF b.data[i] # Missing THEN b.data[i] ELSE (origin + i) % MediaMod]]

\* Can audio_rtp_fec_recover_payload answer for seq?  A block that is short of shards
\* answers for no packet, not even for one it holds.
Recoverable(cache, seq) ==
    \E i \in DOMAIN cache : cache[i].base = audio_fec_base_seq(seq) /\ Complete(cache[i])

audio_rtp_fec_recover_payload(cache, seq) ==
    LET i == CHOOSE j \in DOMAIN cache : cache[j].base = audio_fec_base_seq(seq)
        b == audio_rtp_fec_complete(cache[i])
    IN  [cache |-> [cache EXCEPT ![i] = b], media |-> b.data[seq % Data]]
============================================================================
