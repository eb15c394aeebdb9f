---------------------------- MODULE PrefixIndex ----------------------------
(***************************************************************************)
(* Simulated tokens, chained chunk hashes and storage keys of a KV cache   *)
(* (core/tokens.py).                                                       *)
(*                                                                         *)
(* A text is the sequence of its bytes.  Hashes are ideal: a token is the  *)
(* bytes it stands for (SHA-256 and the reduction to the vocabulary do not *)
(* collide), and the hash of a chunk is the sequence of the chunks it was  *)
(* chained from.  A storage key is the sequence of the parts that "@"      *)
(* joins; a model name that has an "@" in it has more than one part.       *)
(***************************************************************************)
EXTENDS Integers, Sequences, FiniteSets, Functions

CONSTANTS
    Texts,          \* texts that are asked for: sequences of bytes
    CharsPerToken,  \* chars_per_token, rounded
    ChunkSize,      \* tokens per chunk
    WorldSize,      \* workers (tensor parallelism)
    NumLayers,      \* layers of the model
    ModelNames      \* model names, each cut at its "@"

Byte == 0..255

ASSUME IndexAssumption ==
    /\ Texts # {}
    /\ Texts \subseteq Seq(Byte)
    /\ CharsPerToken \in Nat
    /\ {ChunkSize, WorldSize, NumLayers} \subseteq Nat \ {0}
    /\ \A model \in ModelNames : model \in Seq(STRING) /\ Len(model) > 0

VARIABLES
    cached,     \* hashes of the chunks the cache holds
    stored      \* history: token sequences up to the end of a chunk ever stored

indexVars == <<cached, stored>>

-----------------------------------------------------------------------------
(* Tokens and chunks *)

Least(a, b) == IF a <= b THEN a ELSE b

\* s cut into pieces of n; the last one may be shorter.
Pieces(s, n) ==
    [i \in 1..((Len(s) + n - 1) \div n) |-> SubSeq(s, (i - 1) * n + 1, Least(i * n, Len(s)))]

Granule == IF CharsPerToken < 1 THEN 1 ELSE CharsPerToken

\* A token per granule of the text, from the bytes of the granule alone.
Tokens(text) == Pieces(text, Granule)

ChunkTokens(tokens) == Pieces(tokens, ChunkSize)

\* Slip: a chunk's hash does not depend on what comes before it.
ComputeChunkHash_Unchained(chunk, parent) == <<chunk>>

\* The hash of a chunk, chained to that of the chunk before it.
ComputeChunkHash(chunk, parent) == Append(parent, chunk)

\* The hashes of the chunks of a token sequence, in order.
ChunkHashes(tokens) ==
    LET chunks == ChunkTokens(tokens)
        hash[i \in 1..Len(chunks)] ==
            ComputeChunkHash(chunks[i], IF i = 1 THEN <<>> ELSE hash[i - 1])
    IN  hash

\* Tokens of the leading chunks that are cached, up to the first miss.
FindPrefixMatch(tokens, hashes) ==
    LET own == ChunkHashes(tokens)
        matched == {k \in 1..Len(ChunkTokens(tokens)) : \A j \in 1..k : own[j] \in hashes}
    IN  Least(ChunkSize * Cardinality(matched), Len(tokens))

-----------------------------------------------------------------------------
(* Keys *)

\* The layer_end of a caller that leaves it out.
NoEnd == -1

\* A range without an end is its first layer alone.
LastLayer(layer_start, layer_end) == IF layer_end = NoEnd THEN layer_start ELSE layer_end

MakeKey(model, hash, worker, layer_start, layer_end, suffix) ==
    <<"lmcache">> \o model \o
        <<WorldSize, worker, <<layer_start, LastLayer(layer_start, layer_end)>>, hash, suffix>>

\* What is stored about a chunk: no layer range, another suffix.
MakeMetadataKey(model, hash, worker) == MakeKey(model, hash, worker, 0, NoEnd, "meta")

\* Slip: the last layer of a shard is the first one of the next.
MakeKeysForLayers_Overlapping(model, hash, worker, per_shard) ==
    {MakeKey(model, hash, worker, s, Least(s + per_shard, NumLayers - 1), "kv") :
        s \in {l \in 0..(NumLayers - 1) : l % per_shard = 0}}

\* One key per shard of per_shard layers; the last shard may be smaller.
MakeKeysForLayers(model, hash, worker, per_shard) ==
    {MakeKey(model, hash, worker, s, Least(s + per_shard - 1, NumLayers - 1), "kv") :
        s \in {l \in 0..(NumLayers - 1) : l % per_shard = 0}}

\* One key per worker for the same layers, (0, NoEnd) if the caller names none.
MakeKeysForAllWorkers(model, hash, layer_start, layer_end) ==
    {MakeKey(model, hash, w, layer_start, layer_end, "kv") : w \in 0..(WorldSize - 1)}

Malformed == [error |-> "ValueError"]

\* The parts of a key by their names, unless it has more or fewer than seven.
ParseKey(key) ==
    IF Len(key) # 7 THEN Malformed
    ELSE [suffix |-> key[7], model |-> key[2], world_size |-> key[3], worker_id |-> key[4],
          layer_start |-> key[5][1], layer_end |-> key[5][2], chunk_hash |-> key[6]]

\* Keys the shards of a chunk are stored under, per_shard layers each.
KeysOf(model, hash, per_shard) ==
    UNION {MakeKeysForLayers(model, hash, w, per_shard) : w \in 0..(WorldSize - 1)}

-----------------------------------------------------------------------------
(* A cache that is keyed this way *)

IndexInit == cached = {} /\ stored = {}

\* Store chunks first..last of a token sequence.
StoreChunks(tokens, first, last) ==
    LET own == ChunkHashes(tokens)
    IN  /\ cached' = cached \cup {own[i] : i \in first..last}
        /\ stored' = stored \cup
               {SubSeq(tokens, 1, Least(i * ChunkSize, Len(tokens))) : i \in first..last}

\* A caller stores the chunks of a text, the last one only if it is full or the
\* caller keeps partial ones (is_full tells them apart).
StoreText(text, partial) ==
    LET tokens == Tokens(text)
    IN  StoreChunks(tokens, 1,
            IF partial THEN Len(ChunkTokens(tokens)) ELSE Len(tokens) \div ChunkSize)

\* The cache drops a chunk.
Drop(hash) ==
    /\ hash \in cached
    /\ cached' = cached \ {hash}
    /\ UNCHANGED stored

-----------------------------------------------------------------------------
(* Properties *)

\* Bytes two texts begin with in common.
CommonBytes(t, u) ==
    Cardinality({n \in 1..Least(Len(t), Len(u)) : SubSeq(t, 1, n) = SubSeq(u, 1, n)})

\* A hit is never false: up to every chunk boundary the tokens that match are
\* ones that were stored after exactly the same tokens (the hashes are chained
\* to prevent "false cache hits on KV state that was computed under a different
\* context").  And none is missed: a text that is cached in full serves every
\* text that begins like it, with all the chunks that lie within the common
\* bytes (tokens are "Prefix-stable").
HitsAreExact ==
    \A t \in Texts :
        LET tokens == Tokens(t)
            hit == FindPrefixMatch(tokens, cached)
        IN  /\ \A n \in 1..hit :
                  n % ChunkSize = 0 \/ n = hit => SubSeq(tokens, 1, n) \in stored
            /\ hit = Len(tokens) =>
                  \A u \in Texts :
                      FindPrefixMatch(Tokens(u), cached) >=
                          ChunkSize * (CommonBytes(t, u) \div (Granule * ChunkSize))

\* The layers a parsed key covers.
LayersOf(parsed) == parsed.layer_start..parsed.layer_end

\* Keys tell shards apart: those of a cached chunk cover each layer of each
\* worker exactly once, whether they are made per worker or per shard; no other
\* chunk of any model and no other model shares one of them, whatever the size of
\* its shards, nor does what is stored about a chunk; and parse_key gives back what
\* make_key was given, or fails for every key if the model name has an "@".
KeysIdentifyShards ==
    \A model \in ModelNames, h \in cached, per_shard \in 1..NumLayers :
        LET keys == KeysOf(model, h, per_shard)
            range == Len(model) + 4
        IN  /\ keys = UNION {MakeKeysForAllWorkers(model, h, k[range][1], k[range][2]) : k \in keys}
            /\ \A other \in ModelNames, g \in cached :
                   /\ \A w \in 0..(WorldSize - 1) : MakeMetadataKey(other, g, w) \notin keys
                   /\ other # model \/ g # h =>
                          \A q \in 1..NumLayers : keys \cap KeysOf(other, g, q) = {}
            /\ \A k \in keys : ParseKey(k) = Malformed <=> Len(model) > 1
            /\ Len(model) = 1 =>
                   /\ \A k \in keys :
                          /\ ParseKey(k).chunk_hash = h
                          /\ ParseKey(k).model = model[1]
                          /\ ParseKey(k).world_size = WorldSize
                   /\ \A w \in 0..(WorldSize - 1), l \in 0..(NumLayers - 1) :
                          Cardinality({k \in keys : /\ ParseKey(k).worker_id = w
                                                    /\ l \in LayersOf(ParseKey(k))}) = 1

=============================================================================
