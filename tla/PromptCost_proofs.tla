-------------------------- MODULE PromptCost_proofs --------------------------
(***************************************************************************)
(* A hit saves its own work and no more (PromptCost!HitSavesItsWork), for  *)
(* every profile of a model and a GPU, every timing configuration, chunk   *)
(* size and cache.  The argument is that the cost of a prefill is additive *)
(* in the tokens it splits a prompt into (Latency), and that a request     *)
(* remembers the hit it was charged for.                                   *)
(*                                                                         *)
(* And a hit is exact (PrefixIndex!HitsAreExact): the hash of a chunk is   *)
(* the chunks up to it, the chunks up to one determine the tokens and the  *)
(* tokens the chunks, and the cache holds no hash of anything else.        *)
(*                                                                         *)
(* The sleeps of a request add up to the estimate (ServedIsEstimate): the  *)
(* recursion of the estimate has a solution, a running sum, and its steps  *)
(* are those of the server.                                                *)
(*                                                                         *)
(* Keys tell shards apart (KeysIdentifyShards): their parts stand behind   *)
(* those of the model name, and each layer is in one shard.                *)
(*                                                                         *)
(* The closest anchors decide (ClosestAnchorsDecide): an anchor that is    *)
(* less close than another one is in no tier up to the first that has one. *)
(* An exact one is reproduced (MeasurementReproduced): it is scored with   *)
(* the strategy that its scale is applied to.                              *)
(***************************************************************************)
EXTENDS PromptCost, FiniteSetTheorems, SequenceTheorems, WellFoundedInduction, TLAPS

-----------------------------------------------------------------------------
(* Arithmetic *)

\* Products are monotone and stay natural.
LEMMA ProductMonotone ==
    ASSUME NEW a \in Nat, NEW b \in Nat, NEW c \in Nat, a <= b
    PROVE  a * c \in Nat /\ b * c \in Nat /\ a * c <= b * c
<1>1. a * c \in Nat /\ b * c \in Nat /\ (b - a) * c \in Nat
  OBVIOUS
<1>2. b * c = a * c + (b - a) * c
  OBVIOUS
<1> QED
  BY <1>1, <1>2

\* n * n + n is even.
LEMMA TriangleEven ==
    ASSUME NEW n \in Nat
    PROVE  \E t \in Nat : n * n + n = 2 * t
<1> DEFINE k == n \div 2
<1>1. k \in Nat /\ (n = 2 * k \/ n = 2 * k + 1)
  OBVIOUS
<1>2. CASE n = 2 * k
  <2>1. k * (2 * k + 1) \in Nat
    BY <1>1
  <2>2. n * n + n = 2 * (k * (2 * k + 1))
    BY <1>1, <1>2
  <2> QED
    BY <2>1, <2>2
<1>3. CASE n = 2 * k + 1
  <2>1. (2 * k + 1) * (k + 1) \in Nat
    BY <1>1
  <2>2. n * n + n = 2 * ((2 * k + 1) * (k + 1))
    BY <1>1, <1>3
  <2> QED
    BY <2>1, <2>2
<1> QED
  BY <1>1, <1>2, <1>3

\* Causal pairs add up: those of the context, and those of the tokens after it.
LEMMA PairsAdd ==
    ASSUME NEW h \in Nat, NEW k \in Nat
    PROVE  /\ Pairs(h, k) \in Nat
           /\ Pairs(0, h) \in Nat
           /\ Pairs(0, h + k) = Pairs(0, h) + Pairs(h, k)
<1>1. PICK t \in Nat : h * h + h = 2 * t
  BY TriangleEven
<1>2. PICK n \in Nat : n = h + k
  OBVIOUS
<1>3. PICK u \in Nat : n * n + n = 2 * u
  BY TriangleEven
<1>4. t <= u
  <2>1. h <= n
    BY <1>2
  <2>2. h * h <= n * h /\ h * n <= n * n
    BY <2>1, ProductMonotone
  <2>3. h * n = n * h /\ h * h \in Nat /\ n * n \in Nat /\ n * h \in Nat
    OBVIOUS
  <2>4. h * h + h <= n * n + n
    BY <2>1, <2>2, <2>3
  <2> QED
    BY <1>1, <1>3, <2>4
<1>5. Pairs(h, k) = u - t
  <2>1. Pairs(h, k) = (n * n + n - h * h - h) \div 2
    BY <1>2 DEF Pairs
  <2>2. n * n + n - h * h - h = 2 * (u - t)
    <3>1. h * h \in Nat /\ n * n \in Nat
      OBVIOUS
    <3> QED
      BY <1>1, <1>3, <3>1
  <2>3. (2 * (u - t)) \div 2 = u - t
    BY <1>4
  <2> QED
    BY <2>1, <2>2, <2>3
<1>6. \A x \in Nat, y \in Nat : x * x + x = 2 * y => Pairs(0, x) = y
  <2> SUFFICES ASSUME NEW x \in Nat, NEW y \in Nat, x * x + x = 2 * y
               PROVE  Pairs(0, x) = y
    OBVIOUS
  <2>1. Pairs(0, x) = (x * x + x) \div 2
    BY DEF Pairs
  <2> QED
    BY <2>1
<1>7. Pairs(0, h) = t /\ Pairs(0, n) = u
  BY <1>1, <1>3, <1>6
<1> QED
  BY <1>2, <1>4, <1>5, <1>7

-----------------------------------------------------------------------------
(* The cost of a prefill *)

ModelType ==
    [layers : Nat \ {0}, hidden : Nat \ {0}, kv_heads : Nat \ {0},
     num_heads : Nat \ {0}, intermediate : Nat \ {0}, vocab_size : Nat,
     bytes_per_element : {1, 2}, kv_layers : Nat,
     head_dim_override : Nat, params_override : Nat]

\* What a model costs per pair, per token and for its weights is a number.
LEMMA ModelCosts ==
    ASSUME NEW m \in ModelType
    PROVE  /\ PairFlops(m) \in Nat
           /\ TokenFlops(m) \in Nat
           /\ WeightBytes(m) \in Nat
           /\ KVBytesPerToken(m) \in Nat
           /\ ActivationBytes(m) \in Nat
<1>1. /\ m.layers \in Nat /\ m.hidden \in Nat /\ m.kv_heads \in Nat
      /\ m.num_heads \in Nat \ {0} /\ m.intermediate \in Nat /\ m.vocab_size \in Nat
      /\ m.bytes_per_element \in Nat /\ m.kv_layers \in Nat
      /\ m.head_dim_override \in Nat /\ m.params_override \in Nat
  BY DEF ModelType
<1>2. HeadDim(m) \in Nat
  BY <1>1 DEF HeadDim
<1>3. KVLayers(m) \in Nat
  BY <1>1 DEF KVLayers
<1>4. Parameters(m) \in Nat
  BY <1>1, <1>2 DEF Parameters
<1>5. FFNFlops(m) \in Nat
  BY <1>1 DEF FFNFlops
<1>6. ProjectionFlops(m) \in Nat
  BY <1>1, <1>2 DEF ProjectionFlops
<1> QED
  BY <1>1, <1>2, <1>3, <1>4, <1>5, <1>6
     DEF PairFlops, TokenFlops, WeightBytes, KVBytesPerToken, ActivationBytes

\* The operations of a prompt are those of its beginning and of the rest.
LEMMA FlopsAdd ==
    ASSUME NEW m \in ModelType, NEW h \in Nat, NEW k \in Nat
    PROVE  /\ PrefillFlops(m, k, h) \in Nat
           /\ PrefillFlops(m, h, 0) \in Nat
           /\ PrefillFlops(m, k, h) + PrefillFlops(m, h, 0) = PrefillFlops(m, h + k, 0)
           /\ PrefillFlops(m, h + k, 0) \in Nat
           /\ PrefillFlops(m, k, h) <= PrefillFlops(m, h + k, 0)
<1> DEFINE P == PairFlops(m)
           T == TokenFlops(m)
           a == Pairs(h, k)
           b == Pairs(0, h)
<1>1. P \in Nat /\ T \in Nat /\ a \in Nat /\ b \in Nat
  BY ModelCosts, PairsAdd
<1>2. Pairs(0, h + k) = b + a
  BY PairsAdd
<1>3. /\ PrefillFlops(m, k, h) = P * a + T * k
      /\ PrefillFlops(m, h, 0) = P * b + T * h
      /\ PrefillFlops(m, h + k, 0) = P * (b + a) + T * (h + k)
  BY <1>2 DEF PrefillFlops, AttentionFlops
<1> HIDE DEF P, T, a, b
<1>4. P * (b + a) = P * b + P * a /\ T * (h + k) = T * h + T * k
  BY <1>1
<1>5. P * a \in Nat /\ P * b \in Nat /\ T * h \in Nat /\ T * k \in Nat
  BY <1>1
<1> QED
  BY <1>3, <1>4, <1>5

\* The bytes are, too, but for the activations of the beginning.
LEMMA BytesAdd ==
    ASSUME NEW m \in ModelType, NEW h \in Nat, NEW k \in Nat
    PROVE  /\ PrefillBytes(m, k, h) \in Nat
           /\ ActivationBytes(m) * h \in Nat
           /\ PrefillBytes(m, k, h) + ActivationBytes(m) * h = PrefillBytes(m, h + k, 0)
           /\ PrefillBytes(m, h + k, 0) \in Nat
           /\ PrefillBytes(m, k, h) <= PrefillBytes(m, h + k, 0)
<1> DEFINE W == WeightBytes(m)
           K == KVBytesPerToken(m)
           A == ActivationBytes(m)
<1>1. W \in Nat /\ K \in Nat /\ A \in Nat
  BY ModelCosts
<1>2. /\ PrefillBytes(m, k, h) = W + K * k + K * h + A * k
      /\ PrefillBytes(m, h + k, 0) = W + K * (h + k) + K * 0 + A * (h + k)
  BY DEF PrefillBytes, KVBytes
<1> HIDE DEF W, K, A
<1>3. K * (h + k) = K * h + K * k /\ A * (h + k) = A * h + A * k /\ K * 0 = 0
  BY <1>1
<1>4. K * h \in Nat /\ K * k \in Nat /\ A * h \in Nat /\ A * k \in Nat
  BY <1>1
<1>5. PrefillBytes(m, k, h) \in Nat
  BY <1>1, <1>2, <1>4
<1>6. PrefillBytes(m, k, h) + A * h = PrefillBytes(m, h + k, 0)
  BY <1>1, <1>2, <1>3, <1>4
<1>7. PrefillBytes(m, h + k, 0) \in Nat /\ PrefillBytes(m, k, h) <= PrefillBytes(m, h + k, 0)
  BY <1>4, <1>5, <1>6
<1> QED
  BY <1>4, <1>5, <1>6, <1>7 DEF A

-----------------------------------------------------------------------------
(* The time of a prefill *)

HardwareType ==
    [flops : Nat, bytes : Nat, tp : Nat, efficiency : Nat, whole : Nat, link : Nat]

\* The roofline is monotone in the operations and in the bytes.
LEMMA RooflineMonotone ==
    ASSUME NEW hw \in HardwareType,
           NEW f \in Nat, NEW g \in Nat, f <= g,
           NEW b \in Nat, NEW c \in Nat, b <= c
    PROVE  /\ Roofline(hw, f, b) \in Nat
           /\ Roofline(hw, g, c) \in Nat
           /\ Roofline(hw, f, b) <= Roofline(hw, g, c)
<1>1. hw.flops \in Nat /\ hw.bytes \in Nat /\ hw.whole \in Nat /\ hw.link \in Nat
  BY DEF HardwareType
<1>2. \A x \in Nat, y \in Nat, p \in Nat, q \in Nat, r \in Nat : x <= y =>
          /\ x * p * q * r \in Nat
          /\ y * p * q * r \in Nat
          /\ x * p * q * r <= y * p * q * r
  <2> SUFFICES ASSUME NEW x \in Nat, NEW y \in Nat, NEW p \in Nat, NEW q \in Nat, NEW r \in Nat,
                      x <= y
               PROVE  /\ x * p * q * r \in Nat
                      /\ y * p * q * r \in Nat
                      /\ x * p * q * r <= y * p * q * r
    OBVIOUS
  <2>1. x * p \in Nat /\ y * p \in Nat /\ x * p <= y * p
    BY ProductMonotone
  <2>2. PICK x1 \in Nat, y1 \in Nat : x1 = x * p /\ y1 = y * p /\ x1 <= y1
    BY <2>1
  <2>3. x1 * q \in Nat /\ y1 * q \in Nat /\ x1 * q <= y1 * q
    BY <2>2, ProductMonotone
  <2>4. PICK x2 \in Nat, y2 \in Nat : x2 = x1 * q /\ y2 = y1 * q /\ x2 <= y2
    BY <2>3
  <2>5. x2 * r \in Nat /\ y2 * r \in Nat /\ x2 * r <= y2 * r
    BY <2>4, ProductMonotone
  <2> QED
    BY <2>2, <2>4, <2>5
<1>3. /\ ComputeTime(hw, f) \in Nat /\ ComputeTime(hw, g) \in Nat
      /\ ComputeTime(hw, f) <= ComputeTime(hw, g)
  BY <1>1, <1>2 DEF ComputeTime
<1>4. /\ MemoryTime(hw, b) \in Nat /\ MemoryTime(hw, c) \in Nat
      /\ MemoryTime(hw, b) <= MemoryTime(hw, c)
  BY <1>1, <1>2 DEF MemoryTime
<1> QED
  BY <1>3, <1>4 DEF Roofline

\* What the assumptions say of the configuration in use.
LEMMA ConfigTyped ==
    ASSUME NEW c \in Configs
    PROVE  /\ Model(c) \in ModelType
           /\ Hardware(c) \in HardwareType
           /\ c.tp \in Nat /\ c.pp \in Nat /\ c.prefill_ms \in Nat
<1>1. /\ c.model \in DOMAIN ModelProfiles /\ c.gpu \in DOMAIN GPUProfiles
      /\ c.tp \in Nat /\ c.pp \in Nat /\ c.efficiency \in Nat /\ c.prefill_ms \in Nat
      /\ c.link \in Nat
  BY CostAssumption
<1>2. Model(c) \in ModelType
  BY <1>1, TimingAssumption DEF Model, ModelType
<1>3. GPUProfiles[c.gpu] \in [flops : Nat \ {0}, bytes : Nat \ {0}, nvlink : Nat]
  BY <1>1, TimingAssumption
<1>4. DefaultLink \in Nat
  BY TimingAssumption
<1>5. Hardware(c) \in HardwareType
  <2> DEFINE gpu == GPUProfiles[c.gpu]
             link == CASE c.link # 0 -> c.link
                       [] c.link = 0 /\ gpu.nvlink # 0 -> gpu.nvlink
                       [] OTHER -> DefaultLink
  <2>1. gpu.flops \in Nat /\ gpu.bytes \in Nat /\ gpu.nvlink \in Nat
    BY <1>3
  <2>2. link \in Nat
    <3>1. CASE c.link # 0
      BY <3>1, <1>1
    <3>2. CASE c.link = 0 /\ gpu.nvlink # 0
      BY <3>2, <2>1
    <3>3. CASE c.link = 0 /\ gpu.nvlink = 0
      BY <3>3, <1>4
    <3> QED
      BY <1>1, <3>1, <3>2, <3>3
  <2>3. (IF c.calibrated THEN 1 ELSE c.efficiency) \in Nat
    BY <1>1
  <2> QED
    BY <1>1, <2>1, <2>2, <2>3 DEF Hardware, HardwareType
<1> QED
  BY <1>1, <1>2, <1>5

\* More tokens are not communicated in less time.
LEMMA CommunicationMonotone ==
    ASSUME NEW c \in Configs, NEW a \in Nat, NEW b \in Nat, a <= b
    PROVE  /\ AllReduceTime(c, a) \in Nat /\ AllReduceTime(c, b) \in Nat
           /\ AllReduceTime(c, a) <= AllReduceTime(c, b)
           /\ PipelineTime(c, a) \in Nat /\ PipelineTime(c, b) \in Nat
           /\ PipelineTime(c, a) <= PipelineTime(c, b)
<1> DEFINE hw == Hardware(c)
           m == Model(c)
<1>1. /\ hw.flops \in Nat /\ hw.bytes \in Nat /\ hw.tp \in Nat /\ hw.efficiency \in Nat
      /\ hw.link \in Nat
      /\ m.hidden \in Nat /\ m.bytes_per_element \in Nat /\ m.layers \in Nat
      /\ c.tp \in Nat /\ c.pp \in Nat /\ LinkLatency \in Nat
  BY ConfigTyped, TimingAssumption DEF HardwareType, ModelType
<1> HIDE DEF hw, m
<1>2. PICK x \in Nat, y \in Nat : /\ x = MessageBytes(m, a)
                                  /\ y = MessageBytes(m, b)
                                  /\ x <= y
  <2>1. a * m.hidden \in Nat /\ b * m.hidden \in Nat /\ a * m.hidden <= b * m.hidden
    BY <1>1, ProductMonotone
  <2>2. PICK a1 \in Nat, b1 \in Nat : a1 = a * m.hidden /\ b1 = b * m.hidden /\ a1 <= b1
    BY <2>1
  <2>3. /\ a1 * m.bytes_per_element \in Nat /\ b1 * m.bytes_per_element \in Nat
        /\ a1 * m.bytes_per_element <= b1 * m.bytes_per_element
    BY <1>1, <2>2, ProductMonotone
  <2> QED
    BY <2>2, <2>3 DEF MessageBytes
<1>3. /\ AllReduceTime(c, a) \in Nat /\ AllReduceTime(c, b) \in Nat
      /\ AllReduceTime(c, a) <= AllReduceTime(c, b)
  <2>1. CASE ~c.allreduce \/ c.tp <= 1
    BY <2>1 DEF AllReduceTime
  <2>2. CASE c.allreduce /\ c.tp > 1
    <3>1. PICK t \in Nat : t = 2 * (c.tp - 1)
      BY <1>1, <2>2
    <3>2. PICK w \in Nat : w = hw.flops * hw.bytes * hw.efficiency
      BY <1>1
    <3>3. PICK l \in Nat : l = 2 * m.layers
      BY <1>1
    <3>4. /\ AllReduceTime(c, a) = l * (t * x) * hw.flops * hw.bytes * hw.efficiency
          /\ AllReduceTime(c, b) = l * (t * y) * hw.flops * hw.bytes * hw.efficiency
      <4>1. \A u : AllReduceTime(c, u) = (2 * m.layers) * (2 * (c.tp - 1) * MessageBytes(m, u))
                                            * hw.flops * hw.bytes * hw.efficiency
        BY <1>1, <2>2 DEF AllReduceTime, hw, m
      <4> QED
        BY <1>2, <3>1, <3>3, <4>1
    <3>5. PICK z \in Nat : z = l * t * w
      OBVIOUS
    <3>6. AllReduceTime(c, a) = x * z /\ AllReduceTime(c, b) = y * z
      <4>1. \A u \in Nat : l * (t * u) * hw.flops * hw.bytes * hw.efficiency = u * z
        BY <1>1, <3>2, <3>5
      <4> QED
        BY <3>4, <4>1
    <3> QED
      BY <1>2, <3>6, ProductMonotone
  <2> QED
    BY <1>1, <2>1, <2>2
<1>4. /\ PipelineTime(c, a) \in Nat /\ PipelineTime(c, b) \in Nat
      /\ PipelineTime(c, a) <= PipelineTime(c, b)
  <2>1. CASE ~c.pipeline \/ c.pp <= 1
    BY <2>1 DEF PipelineTime
  <2>2. CASE c.pipeline /\ c.pp > 1
    <3>1. PICK p \in Nat : p = c.pp - 1
      BY <1>1, <2>2
    <3>2. PICK o \in Nat : o = LinkLatency * hw.link
      BY <1>1
    <3>3. PICK z \in Nat : z = p * (hw.flops * hw.bytes * hw.tp * hw.efficiency)
      BY <1>1
    <3>4. /\ PipelineTime(c, a) = p * (o + x) * hw.flops * hw.bytes * hw.tp * hw.efficiency
          /\ PipelineTime(c, b) = p * (o + y) * hw.flops * hw.bytes * hw.tp * hw.efficiency
      <4>1. \A u : PipelineTime(c, u) = (c.pp - 1) * (LinkLatency * hw.link + MessageBytes(m, u))
                                           * hw.flops * hw.bytes * hw.tp * hw.efficiency
        BY <1>1, <2>2 DEF PipelineTime, hw, m
      <4> QED
        BY <1>2, <3>1, <3>2, <4>1
    <3>5. PipelineTime(c, a) = (o + x) * z /\ PipelineTime(c, b) = (o + y) * z
      <4>1. \A u \in Nat : p * u * hw.flops * hw.bytes * hw.tp * hw.efficiency = u * z
        BY <1>1, <3>3
      <4>2. o + x \in Nat /\ o + y \in Nat
        OBVIOUS
      <4> QED
        BY <3>4, <4>1, <4>2
    <3>6. o + x \in Nat /\ o + y \in Nat /\ o + x <= o + y
      BY <1>2
    <3> QED
      BY <3>5, <3>6, ProductMonotone
  <2> QED
    BY <1>1, <2>1, <2>2
<1> QED
  BY <1>3, <1>4

\* The rest of a prompt on top of a hit takes no longer than all of it.
LEMMA PrefillMonotone ==
    ASSUME NEW c \in Configs, NEW h \in Nat, NEW k \in Nat
    PROVE  PrefillLatency(c, k, h) <= PrefillLatency(c, h + k, 0)
<1> DEFINE m == Model(c)
           hw == Hardware(c)
<1>1. m \in ModelType /\ hw \in HardwareType /\ c.prefill_ms \in Nat
  BY ConfigTyped
<1>2. h + k \in Nat /\ k <= h + k
  OBVIOUS
<1>3. CASE Roof(c)
  <2>1. /\ PrefillFlops(m, k, h) \in Nat /\ PrefillFlops(m, h + k, 0) \in Nat
        /\ PrefillFlops(m, k, h) <= PrefillFlops(m, h + k, 0)
    <3> HIDE DEF m
    <3> QED
      BY <1>1, FlopsAdd
  <2>2. /\ PrefillBytes(m, k, h) \in Nat /\ PrefillBytes(m, h + k, 0) \in Nat
        /\ PrefillBytes(m, k, h) <= PrefillBytes(m, h + k, 0)
    <3> HIDE DEF m
    <3> QED
      BY <1>1, BytesAdd
  <2>3. /\ PrefillTime(hw, m, k, h) \in Nat /\ PrefillTime(hw, m, h + k, 0) \in Nat
        /\ PrefillTime(hw, m, k, h) <= PrefillTime(hw, m, h + k, 0)
    <3> HIDE DEF m, hw
    <3> QED
      BY <1>1, <2>1, <2>2, RooflineMonotone DEF PrefillTime
  <2>4. /\ AllReduceTime(c, k) \in Nat /\ AllReduceTime(c, h + k) \in Nat
        /\ AllReduceTime(c, k) <= AllReduceTime(c, h + k)
        /\ PipelineTime(c, k) \in Nat /\ PipelineTime(c, h + k) \in Nat
        /\ PipelineTime(c, k) <= PipelineTime(c, h + k)
    BY <1>2, CommunicationMonotone
  <2>5. /\ PrefillLatency(c, k, h) =
              PrefillTime(hw, m, k, h) + AllReduceTime(c, k) + PipelineTime(c, k)
        /\ PrefillLatency(c, h + k, 0) =
              PrefillTime(hw, m, h + k, 0) + AllReduceTime(c, h + k) + PipelineTime(c, h + k)
    BY <1>3 DEF PrefillLatency, RooflinePrefill
  <2> HIDE DEF m, hw
  <2> QED
    BY <2>3, <2>4, <2>5
<1>4. CASE ~Roof(c)
  <2>1. k * c.prefill_ms <= (h + k) * c.prefill_ms
    BY <1>1, <1>2, ProductMonotone
  <2>2. c.prefill_ms * k <= c.prefill_ms * (h + k)
    BY <1>1, <2>1
  <2> QED
    BY <1>4, <2>2 DEF PrefillLatency
<1> QED
  BY <1>3, <1>4

-----------------------------------------------------------------------------
(* The hit *)

\* A sequence is cut into a sequence of pieces.
LEMMA PiecesAreASequence ==
    ASSUME NEW S, NEW s \in Seq(S), NEW n \in Nat \ {0}
    PROVE  \E T : Pieces(s, n) \in Seq(T)
<1> DEFINE Piece(i) == SubSeq(s, (i - 1) * n + 1, Least(i * n, Len(s)))
           count == (Len(s) + n - 1) \div n
           T == {Piece(i) : i \in 1..count}
<1>1. Len(s) \in Nat
  BY LenProperties
<1>2. count \in Nat
  BY <1>1
<1>3. Pieces(s, n) = [i \in 1..count |-> Piece(i)]
  BY DEF Pieces
<1> HIDE DEF Piece, count
<1>4. Pieces(s, n) \in [1..count -> T]
  BY <1>3
<1>5. \A m \in Nat : \A U, f : f \in [1..m -> U] => f \in Seq(U)
  OBVIOUS
<1>6. Pieces(s, n) \in Seq(T)
  BY <1>2, <1>4, <1>5
<1> QED
  BY <1>6

\* The hit of a text is a number of its tokens, whatever is cached.
LEMMA HitBounded ==
    ASSUME NEW text \in Texts
    PROVE  /\ Len(Tokens(text)) \in Nat
           /\ FindPrefixMatch(Tokens(text), cached) \in 0..Len(Tokens(text))
<1> DEFINE tokens == Tokens(text)
<1>1. text \in Seq(Byte) /\ ChunkSize \in Nat \ {0}
  BY IndexAssumption
<1>2. Granule \in Nat \ {0}
  BY IndexAssumption DEF Granule
<1>3. PICK T : tokens \in Seq(T)
  BY <1>1, <1>2, PiecesAreASequence DEF Tokens
<1>4. Len(tokens) \in Nat
  BY <1>3, LenProperties
<1>5. PICK U : ChunkTokens(tokens) \in Seq(U)
  BY <1>1, <1>3, PiecesAreASequence DEF ChunkTokens
<1>6. Len(ChunkTokens(tokens)) \in Nat
  BY <1>5, LenProperties
<1> DEFINE matched == {k \in 1..Len(ChunkTokens(tokens)) :
                          \A j \in 1..k : ChunkHashes(tokens)[j] \in cached}
<1>7. Cardinality(matched) \in Nat
  <2>1. IsFiniteSet(1..Len(ChunkTokens(tokens)))
    BY <1>6, FS_Interval
  <2>2. matched \subseteq 1..Len(ChunkTokens(tokens))
    OBVIOUS
  <2> QED
    BY <2>1, <2>2, FS_Subset, FS_CardinalityType
<1>8. FindPrefixMatch(tokens, cached) = Least(ChunkSize * Cardinality(matched), Len(tokens))
  BY DEF FindPrefixMatch
<1> HIDE DEF tokens, matched
<1>9. ChunkSize * Cardinality(matched) \in Nat
  BY <1>1, <1>7
<1>10. FindPrefixMatch(tokens, cached) \in 0..Len(tokens)
  BY <1>4, <1>8, <1>9 DEF Least
<1> QED
  BY <1>4, <1>10 DEF tokens

-----------------------------------------------------------------------------
(* The specification *)

Fields == {"pc", "text", "hit", "flops", "bytes", "prefill", "decode", "generated"}

\* A request remembers what was charged for the hit it was charged with.
Charged ==
    LET n == Len(Tokens(req.text))
    IN  /\ req.text \in Texts
        /\ n \in Nat
        /\ req.hit \in 0..n
        /\ req.hit < n =>
               /\ req.flops = PrefillFlops(Model(cfg), n - req.hit, req.hit)
               /\ req.bytes = PrefillBytes(Model(cfg), n - req.hit, req.hit)
               /\ req.prefill = PrefillLatency(cfg, n - req.hit, req.hit)

\* The inductive invariant: the server keeps its configuration, too.
CostInv ==
    /\ cfg \in Configs
    /\ DOMAIN req = Fields
    /\ req.pc # "idle" => Charged

\* The steps that leave the charge of the request alone keep the invariant.
LEMMA ChargeKept ==
    ASSUME CostInv, req.pc # "idle", cfg' = cfg, DOMAIN req' = Fields,
           req'.text = req.text, req'.hit = req.hit,
           req'.flops = req.flops, req'.bytes = req.bytes, req'.prefill = req.prefill
    PROVE  CostInv'
  BY DEF CostInv, Charged

\* The invariant says that a hit saves its own work and no more.
LEMMA ChargeSaves == CostInv => HitSavesItsWork
<1> SUFFICES ASSUME CostInv, req.pc # "idle", req.hit < Prompt
             PROVE  /\ req.flops + PrefillFlops(Model(cfg), req.hit, 0)
                           = PrefillFlops(Model(cfg), Prompt, 0)
                    /\ req.bytes + ActivationBytes(Model(cfg)) * req.hit
                           = PrefillBytes(Model(cfg), Prompt, 0)
                    /\ req.prefill <= PrefillLatency(cfg, Prompt, 0)
  BY DEF HitSavesItsWork
<1>1. /\ Prompt \in Nat
      /\ req.hit \in 0..Prompt
      /\ req.flops = PrefillFlops(Model(cfg), Prompt - req.hit, req.hit)
      /\ req.bytes = PrefillBytes(Model(cfg), Prompt - req.hit, req.hit)
      /\ req.prefill = PrefillLatency(cfg, Prompt - req.hit, req.hit)
      /\ cfg \in Configs
  BY DEF CostInv, Charged, Prompt
<1>2. PICK h \in Nat, k \in Nat : h = req.hit /\ k = Prompt - req.hit
  BY <1>1
<1>3. h + k = Prompt
  BY <1>1, <1>2
<1>4. Model(cfg) \in ModelType
  BY <1>1, ConfigTyped
<1>5. PrefillFlops(Model(cfg), k, h) + PrefillFlops(Model(cfg), h, 0)
          = PrefillFlops(Model(cfg), h + k, 0)
  BY <1>4, FlopsAdd
<1>6. PrefillBytes(Model(cfg), k, h) + ActivationBytes(Model(cfg)) * h
          = PrefillBytes(Model(cfg), h + k, 0)
  BY <1>4, BytesAdd
<1>7. PrefillLatency(cfg, k, h) <= PrefillLatency(cfg, h + k, 0)
  BY <1>1, PrefillMonotone
<1> QED
  BY <1>1, <1>2, <1>3, <1>5, <1>6, <1>7

\* Initially there is no request.
LEMMA InitCharged == Init => CostInv
  BY DEF Init, CostInv, Idle, Fields

\* Every step keeps the invariant.
LEMMA NextCharged == CostInv /\ [Next]_vars => CostInv'
<1> SUFFICES ASSUME CostInv, [Next]_vars
             PROVE  CostInv'
  OBVIOUS
<1>1. ASSUME NEW text \in Texts, Lookup(text)
      PROVE  CostInv'
  <2> DEFINE n == Len(Tokens(text))
             hit == FindPrefixMatch(Tokens(text), cached)
  <2>1. n \in Nat /\ hit \in 0..n
    BY HitBounded
  <2>2. cfg' = cfg /\ cfg \in Configs
    BY <1>1 DEF Lookup, CostInv
  <2>3. CASE n - hit = 0
    <3>1. req' = [Idle EXCEPT !.pc = "decode", !.text = text, !.hit = hit]
      BY <1>1, <2>3 DEF Lookup
    <3>2. DOMAIN req' = Fields /\ req'.text = text /\ req'.hit = hit
      BY <3>1 DEF Idle, Fields
    <3>3. hit = n
      BY <2>1, <2>3
    <3>4. ~(hit < n)
      BY <2>1, <3>3
    <3> HIDE DEF n, hit
    <3>5. Charged'
      BY <2>1, <3>2, <3>4 DEF Charged, n
    <3> QED
      BY <2>2, <3>2, <3>5 DEF CostInv
  <2>4. CASE n - hit > 0
    <3>1. req' = [Idle EXCEPT
                     !.pc = "prefill",
                     !.text = text,
                     !.hit = hit,
                     !.flops = PrefillFlops(Model(cfg), n - hit, hit),
                     !.bytes = PrefillBytes(Model(cfg), n - hit, hit),
                     !.prefill = PrefillLatency(cfg, n - hit, hit)]
      BY <1>1, <2>4 DEF Lookup
    <3>2. /\ DOMAIN req' = Fields /\ req'.text = text /\ req'.hit = hit
          /\ req'.flops = PrefillFlops(Model(cfg), n - hit, hit)
          /\ req'.bytes = PrefillBytes(Model(cfg), n - hit, hit)
          /\ req'.prefill = PrefillLatency(cfg, n - hit, hit)
      BY <3>1 DEF Idle, Fields
    <3>3. Model(cfg)' = Model(cfg)
      BY <2>2 DEF Model
    <3>4. Charged'
      BY <2>1, <2>2, <3>2, <3>3 DEF Charged
    <3> QED
      BY <2>2, <3>2, <3>4 DEF CostInv
  <2> QED
    BY <1>1, <2>1, <2>3, <2>4 DEF Lookup
<1>2. CASE Store
  <2>1. req.pc # "idle" /\ cfg' = cfg /\ req' = [req EXCEPT !.pc = "decode"]
    BY <1>2 DEF Store
  <2> QED
    BY <2>1, ChargeKept DEF CostInv, Fields
<1>3. CASE Decode
  <2>1. /\ req.pc # "idle" /\ cfg' = cfg
        /\ req' = [req EXCEPT
               !.generated = @ + 1,
               !.decode = @ + DecodeLatency(cfg, Len(Tokens(req.text)) + req.generated)]
    BY <1>3 DEF Decode
  <2> QED
    BY <2>1, ChargeKept DEF CostInv, Fields
<1>4. CASE Reply
  BY <1>4 DEF Reply, CostInv, Idle, Fields
<1>5. CASE UNCHANGED <<cfg, req>>
  <2>1. Charged => Charged'
    BY <1>5 DEF Charged, Model
  <2> QED
    BY <1>5, <2>1 DEF CostInv
<1>6. CASE StoreElsewhere \/ Evict \/ UNCHANGED vars
  <2>1. UNCHANGED <<cfg, req>>
    BY <1>6 DEF StoreElsewhere, Evict, vars
  <2> QED
    BY <2>1, <1>5
<1> QED
  BY <1>1, <1>2, <1>3, <1>4, <1>6 DEF Next

\* A hit saves the work of the tokens it covers and no more, and never makes a
\* prompt slower (core/latency.py:256, servers/combined.py:205), for every model, GPU,
\* timing strategy, chunk size, set of prompts and history of the cache.
THEOREM HitSaves == Spec => []HitSavesItsWork
<1>1. Spec => []CostInv
  BY InitCharged, NextCharged, PTL DEF Spec
<1> QED
  BY <1>1, ChargeSaves, PTL

-----------------------------------------------------------------------------
(* Pieces *)

\* A set of numbers that is not empty has a least one.
LEMMA LeastExists ==
    ASSUME NEW S, S \subseteq Nat, S # {}
    PROVE  \E m \in S : \A k \in S : m <= k
<1>1. PICK x \in S : \A y \in S : ~(<<y, x>> \in OpToRel(<, Nat))
  BY NatLessThanWellFounded, WFMin, Zenon
<1>2. \A i, j \in Nat : i < j => <<i, j>> \in OpToRel(<, Nat)
  BY Zenon DEF OpToRel
<1>3. \A y \in S : ~(y < x)
  BY <1>1, <1>2, Zenon
<1>4. x \in Nat /\ \A y \in S : y \in Nat
  OBVIOUS
<1>5. \A y \in S : x <= y
  BY <1>3, <1>4
<1> QED
  BY <1>5

\* A set of numbers from 1 that has all before each of its own is an interval.
LEMMA Leading ==
    ASSUME NEW n \in Nat, NEW X, X \subseteq 1..n,
           \A k \in X : \A j \in 1..k : j \in X
    PROVE  /\ Cardinality(X) \in 0..n
           /\ X = 1..Cardinality(X)
<1> DEFINE out == {k \in 1..(n + 1) : k \notin X}
<1>1. n + 1 \in out /\ out \subseteq Nat
  OBVIOUS
<1>2. PICK b \in out : \A k \in out : b <= k
  BY <1>1, LeastExists
<1>3. b \in 1..(n + 1) /\ b \notin X
  BY <1>2
<1>4. b - 1 \in Nat /\ b - 1 \in 0..n
  BY <1>3
<1>5. X = 1..(b - 1)
  <2>1. ASSUME NEW k \in X PROVE k \in 1..(b - 1)
    <3>1. k \in 1..n
      OBVIOUS
    <3>2. CASE k >= b
      <4>1. b \in 1..k
        BY <1>3, <3>1, <3>2
      <4> QED
        BY <1>3, <4>1
    <3> QED
      BY <1>3, <3>1, <3>2
  <2>2. ASSUME NEW k \in 1..(b - 1) PROVE k \in X
    <3>1. k \in 1..(n + 1) /\ ~(b <= k)
      BY <1>3
    <3> QED
      BY <1>2, <3>1
  <2> QED
    BY <2>1, <2>2
<1>6. \A m \in Nat : Cardinality(1..m) = m
  <2>1. \A m \in Nat : Cardinality(1..m) = IF 1 > m THEN 0 ELSE m - 1 + 1
    BY FS_Interval
  <2>2. \A m \in Nat : (IF 1 > m THEN 0 ELSE m - 1 + 1) = m
    OBVIOUS
  <2> QED
    BY <2>1, <2>2, Zenon
<1>7. Cardinality(X) = b - 1
  BY <1>4, <1>5, <1>6, Zenon
<1> QED
  BY <1>4, <1>5, <1>7

\* How many pieces of n there are in l: the ones that begin within it.
LEMMA PieceCount ==
    ASSUME NEW l \in Nat, NEW n \in Nat \ {0}
    PROVE  /\ (l + n - 1) \div n \in Nat
           /\ \A i \in Nat \ {0} : /\ (i - 1) * n \in Nat
                                   /\ i * n = (i - 1) * n + n
                                   /\ i <= (l + n - 1) \div n <=> (i - 1) * n < l
<1> DEFINE count == (l + n - 1) \div n
           r == (l + n - 1) % n
<1>1. count \in Nat /\ r \in 0..(n - 1) /\ l + n - 1 = n * count + r
  OBVIOUS
<1> HIDE DEF count, r
<1>2. n * count = count * n /\ count * n \in Nat
  BY <1>1
<1>3. ASSUME NEW i \in Nat \ {0}
      PROVE  /\ (i - 1) * n \in Nat
             /\ i * n = (i - 1) * n + n
             /\ i <= count <=> (i - 1) * n < l
  <2>1. PICK k \in Nat : k = i - 1
    OBVIOUS
  <2>2. k * n \in Nat /\ i * n = k * n + n
    BY <2>1
  <2>3. CASE i <= count
    <3>1. i * n <= count * n
      BY <1>1, <2>3
    <3> QED
      BY <1>1, <1>2, <2>1, <2>2, <2>3, <3>1
  <2>4. CASE ~(i <= count)
    <3>1. count <= k
      BY <1>1, <2>1, <2>4
    <3>2. count * n <= k * n
      BY <1>1, <3>1
    <3> QED
      BY <1>1, <1>2, <2>1, <2>2, <2>4, <3>2
  <2> QED
    BY <2>3, <2>4
<1> QED
  BY <1>1, <1>3 DEF count

\* A sequence is cut into a sequence of sequences, the i-th of which has its
\* elements after the first i - 1 times n.
LEMMA PieceElements ==
    ASSUME NEW S, NEW s \in Seq(S), NEW n \in Nat \ {0}
    PROVE  /\ Len(s) \in Nat
           /\ Pieces(s, n) \in Seq(Seq(S))
           /\ Len(Pieces(s, n)) = (Len(s) + n - 1) \div n
           /\ \A i \in 1..Len(Pieces(s, n)) : \E first \in Nat, last \in Nat :
                  /\ first = (i - 1) * n /\ last = Least(i * n, Len(s))
                  /\ first < last /\ last <= Len(s)
                  /\ Len(Pieces(s, n)[i]) = last - first
                  /\ \A o \in 1..(last - first) : Pieces(s, n)[i][o] = s[first + o]
<1> DEFINE l == Len(s)
           count == (l + n - 1) \div n
           Piece(i) == SubSeq(s, (i - 1) * n + 1, Least(i * n, l))
<1>1. l \in Nat
  BY LenProperties
<1>2. count \in Nat
  BY <1>1, PieceCount
<1>3. Pieces(s, n) = [i \in 1..count |-> Piece(i)]
  BY DEF Pieces
<1>4. ASSUME NEW i \in 1..count
      PROVE  /\ Piece(i) \in Seq(S)
             /\ \E first \in Nat, last \in Nat :
                    /\ first = (i - 1) * n /\ last = Least(i * n, l)
                    /\ first < last /\ last <= l
                    /\ Len(Piece(i)) = last - first
                    /\ \A o \in 1..(last - first) : Piece(i)[o] = s[first + o]
  <2> DEFINE first == (i - 1) * n
             last == Least(i * n, l)
  <2>1. first \in Nat /\ i * n = first + n /\ first < l
    BY <1>1, <1>2, PieceCount
  <2>2. last \in Nat /\ first < last /\ last <= l
    BY <1>1, <2>1 DEF Least
  <2>3. Piece(i) = SubSeq(s, first + 1, last)
    OBVIOUS
  <2> HIDE DEF first, last, Piece
  <2>4. first + 1 \in 1..(Len(s) + 1) /\ last \in ((first + 1) - 1)..Len(s)
    BY <1>1, <2>1, <2>2
  <2>5. /\ SubSeq(s, first + 1, last) \in Seq(S)
        /\ Len(SubSeq(s, first + 1, last)) = IF first + 1 <= last THEN last - (first + 1) + 1 ELSE 0
        /\ \A o \in 1..(last - (first + 1) + 1) :
               SubSeq(s, first + 1, last)[o] = s[(first + 1) + o - 1]
    BY <2>4, SubSeqProperties
  <2>6. /\ (IF first + 1 <= last THEN last - (first + 1) + 1 ELSE 0) = last - first
        /\ last - (first + 1) + 1 = last - first
        /\ \A o \in 1..(last - first) : (first + 1) + o - 1 = first + o
    BY <2>1, <2>2
  <2>7. /\ Len(Piece(i)) = last - first
        /\ \A o \in 1..(last - first) : Piece(i)[o] = s[first + o]
    BY <2>3, <2>5, <2>6
  <2>8. first = (i - 1) * n /\ last = Least(i * n, l)
    BY DEF first, last
  <2>9. Piece(i) \in Seq(S)
    BY <2>3, <2>5
  <2> QED
    BY <2>1, <2>2, <2>7, <2>8, <2>9
<1> HIDE DEF count, Piece
<1>5. Pieces(s, n) \in Seq(Seq(S)) /\ Len(Pieces(s, n)) = count
  <2>1. \A i \in 1..count : Piece(i) \in Seq(S)
    BY <1>4
  <2>2. [i \in 1..count |-> Piece(i)] \in [1..count -> Seq(S)]
    BY <2>1
  <2>3. \A m \in Nat : \A U, f : f \in [1..m -> U] => f \in Seq(U) /\ Len(f) = m
    OBVIOUS
  <2> QED
    BY <1>2, <1>3, <2>2, <2>3
<1>6. \A i \in 1..count : Pieces(s, n)[i] = Piece(i)
  BY <1>3
<1>7. \A i \in 1..count : \E first \in Nat, last \in Nat :
          /\ first = (i - 1) * n /\ last = Least(i * n, Len(s))
          /\ first < last /\ last <= Len(s)
          /\ Len(Pieces(s, n)[i]) = last - first
          /\ \A o \in 1..(last - first) : Pieces(s, n)[i][o] = s[first + o]
  <2> SUFFICES ASSUME NEW i \in 1..count
               PROVE  \E first \in Nat, last \in Nat :
                          /\ first = (i - 1) * n /\ last = Least(i * n, Len(s))
                          /\ first < last /\ last <= Len(s)
                          /\ Len(Pieces(s, n)[i]) = last - first
                          /\ \A o \in 1..(last - first) : Pieces(s, n)[i][o] = s[first + o]
    OBVIOUS
  <2>1. Pieces(s, n)[i] = Piece(i)
    BY <1>6
  <2>2. PICK first \in Nat, last \in Nat :
            /\ first = (i - 1) * n /\ last = Least(i * n, l)
            /\ first < last /\ last <= l
            /\ Len(Piece(i)) = last - first
            /\ \A o \in 1..(last - first) : Piece(i)[o] = s[first + o]
    BY <1>4, Zenon
  <2>3. /\ Len(Pieces(s, n)[i]) = last - first
        /\ \A o \in 1..(last - first) : Pieces(s, n)[i][o] = s[first + o]
    BY <2>1, <2>2
  <2> QED
    BY <2>2, <2>3, Zenon DEF l
<1>8. Len(Pieces(s, n)) = (Len(s) + n - 1) \div n
  BY <1>5 DEF count, l
<1> QED
  BY <1>1, <1>5, <1>7, <1>8, Zenon DEF l

\* The i-th piece of a sequence.
LEMMA PieceAt ==
    ASSUME NEW S, NEW s \in Seq(S), NEW n \in Nat \ {0}, NEW i \in 1..Len(Pieces(s, n))
    PROVE  \E first \in Nat, last \in Nat :
               /\ first = (i - 1) * n /\ last = Least(i * n, Len(s))
               /\ first < last /\ last <= Len(s)
               /\ Len(Pieces(s, n)[i]) = last - first
               /\ \A o \in 1..(last - first) : Pieces(s, n)[i][o] = s[first + o]
  BY PieceElements, Zenon

\* An element of a sequence, found in the piece it is in.
LEMMA PieceElement ==
    ASSUME NEW S, NEW s \in Seq(S), NEW n \in Nat \ {0}
    PROVE  \A i \in 1..Len(Pieces(s, n)) : \A before \in Nat, o \in 1..n :
               (i - 1) * n = before /\ i * n = before + n /\ before + o <= Len(s)
               => Pieces(s, n)[i][o] = s[before + o]
<1> SUFFICES ASSUME NEW i \in 1..Len(Pieces(s, n))
             PROVE  \A before \in Nat, o \in 1..n :
                        (i - 1) * n = before /\ i * n = before + n /\ before + o <= Len(s)
                        => Pieces(s, n)[i][o] = s[before + o]
  OBVIOUS
<1>1. PICK first \in Nat, last \in Nat :
          /\ first = (i - 1) * n /\ last = Least(i * n, Len(s))
          /\ first < last /\ last <= Len(s)
          /\ Len(Pieces(s, n)[i]) = last - first
          /\ \A k \in 1..(last - first) : Pieces(s, n)[i][k] = s[first + k]
  BY PieceAt, Zenon
<1> TAKE before \in Nat, o \in 1..n
<1> HAVE (i - 1) * n = before /\ i * n = before + n /\ before + o <= Len(s)
<1>2. first = before /\ (last = before + n \/ last = Len(s))
  BY <1>1 DEF Least
<1>3. o \in 1..(last - first)
  BY <1>2
<1> QED
  BY <1>1, <1>2, <1>3

\* Sequences begin alike if and only if they have the same elements there.
LEMMA SamePrefix ==
    ASSUME NEW S, NEW s \in Seq(S), NEW u \in Seq(S),
           NEW e \in Nat, e <= Len(s), e <= Len(u)
    PROVE  SubSeq(s, 1, e) = SubSeq(u, 1, e) <=> \A p \in 1..e : s[p] = u[p]
<1>1. Len(s) \in Nat /\ Len(u) \in Nat
  BY LenProperties
<1>2. 1 \in 1..(Len(s) + 1) /\ e \in (1 - 1)..Len(s) /\ 1 \in 1..(Len(u) + 1) /\ e \in (1 - 1)..Len(u)
  BY <1>1
<1>3. /\ SubSeq(s, 1, e) \in Seq(S)
      /\ Len(SubSeq(s, 1, e)) = IF 1 <= e THEN e - 1 + 1 ELSE 0
      /\ \A p \in 1..(e - 1 + 1) : SubSeq(s, 1, e)[p] = s[1 + p - 1]
  BY <1>2, SubSeqProperties
<1>4. /\ SubSeq(u, 1, e) \in Seq(S)
      /\ Len(SubSeq(u, 1, e)) = IF 1 <= e THEN e - 1 + 1 ELSE 0
      /\ \A p \in 1..(e - 1 + 1) : SubSeq(u, 1, e)[p] = u[1 + p - 1]
  BY <1>2, SubSeqProperties
<1>5. /\ (IF 1 <= e THEN e - 1 + 1 ELSE 0) = e
      /\ e - 1 + 1 = e
      /\ \A p \in 1..e : 1 + p - 1 = p
  OBVIOUS
<1> DEFINE a == SubSeq(s, 1, e)
           b == SubSeq(u, 1, e)
<1>6. /\ a \in Seq(S) /\ Len(a) = e /\ \A p \in 1..e : a[p] = s[p]
      /\ b \in Seq(S) /\ Len(b) = e /\ \A p \in 1..e : b[p] = u[p]
  BY <1>3, <1>4, <1>5
<1> HIDE DEF a, b
<1>7. ASSUME \A p \in 1..e : s[p] = u[p]
      PROVE  a = b
  <2>1. \A p \in 1..Len(a) : a[p] = b[p]
    BY <1>6, <1>7
  <2> QED
    BY <1>6, <2>1, SeqEqual
<1>8. a = b => \A p \in 1..e : s[p] = u[p]
  BY <1>6
<1> QED
  BY <1>7, <1>8 DEF a, b

\* The first i pieces of a sequence determine it as far as they go.
LEMMA PiecesDetermine ==
    ASSUME NEW S, NEW s \in Seq(S), NEW u \in Seq(S), NEW n \in Nat \ {0},
           NEW i \in Nat \ {0}, i <= Len(Pieces(s, n)), i <= Len(Pieces(u, n)),
           SubSeq(Pieces(s, n), 1, i) = SubSeq(Pieces(u, n), 1, i)
    PROVE  SubSeq(s, 1, Least(i * n, Len(s))) = SubSeq(u, 1, Least(i * n, Len(u)))
<1>1. /\ Len(s) \in Nat /\ Len(u) \in Nat
      /\ Len(Pieces(s, n)) \in Nat /\ Len(Pieces(u, n)) \in Nat
      /\ Pieces(s, n) \in Seq(Seq(S)) /\ Pieces(u, n) \in Seq(Seq(S))
  BY PieceElements, PieceCount
<1> i \in Nat
  OBVIOUS
<1>2. \A j \in 1..i : Pieces(s, n)[j] = Pieces(u, n)[j]
  BY <1>1, SamePrefix
<1>3. i \in 1..Len(Pieces(s, n)) /\ i \in 1..Len(Pieces(u, n)) /\ i \in 1..i
  BY <1>1
<1>4. PICK first \in Nat, ends \in Nat :
          /\ first = (i - 1) * n /\ ends = Least(i * n, Len(s))
          /\ first < ends /\ ends <= Len(s)
          /\ Len(Pieces(s, n)[i]) = ends - first
          /\ \A o \in 1..(ends - first) : Pieces(s, n)[i][o] = s[first + o]
  BY <1>3, PieceAt, Zenon
<1>5. PICK firstu \in Nat, endu \in Nat :
          /\ firstu = (i - 1) * n /\ endu = Least(i * n, Len(u))
          /\ firstu < endu /\ endu <= Len(u)
          /\ Len(Pieces(u, n)[i]) = endu - firstu
          /\ \A o \in 1..(endu - firstu) : Pieces(u, n)[i][o] = u[firstu + o]
  BY <1>3, PieceAt, Zenon
<1>6. Pieces(s, n)[i] = Pieces(u, n)[i]
  BY <1>2, <1>3
<1>7. endu = ends
  BY <1>4, <1>5, <1>6
<1>8. PICK l \in Nat : l = i * n
  OBVIOUS
<1>9. ends <= l
  BY <1>1, <1>4, <1>8 DEF Least
<1>10. /\ \A j \in 1..Len(Pieces(s, n)) : \A before \in Nat, o \in 1..n :
              (j - 1) * n = before /\ j * n = before + n /\ before + o <= Len(s)
              => Pieces(s, n)[j][o] = s[before + o]
      /\ \A j \in 1..Len(Pieces(u, n)) : \A before \in Nat, o \in 1..n :
              (j - 1) * n = before /\ j * n = before + n /\ before + o <= Len(u)
              => Pieces(u, n)[j][o] = u[before + o]
  BY PieceElement, Zenon
<1>11. ASSUME NEW p \in 1..ends
      PROVE  s[p] = u[p]
  <2>1. p - 1 \in Nat /\ p \in Nat
    OBVIOUS
  <2>2. PICK q \in Nat, r \in 0..(n - 1) : p - 1 = n * q + r
    <3>1. PICK z \in Nat : z = p - 1
      BY <2>1
    <3>2. z \div n \in Nat /\ z % n \in 0..(n - 1) /\ z = n * (z \div n) + (z % n)
      BY Z3T(20)
    <3> QED
      BY <3>1, <3>2
  <2>3. PICK before \in Nat : before = q * n
    OBVIOUS
  <2>4. before = n * q /\ (q + 1) * n = before + n
    BY <2>3
  <2>5. p = before + (r + 1)
    BY <2>1, <2>2, <2>4
  <2>6. q < i
    <3>1. CASE i <= q
      <4>1. PICK x \in Nat : q = i + x
        BY <3>1
      <4>2. PICK y \in Nat : y = x * n
        OBVIOUS
      <4>3. before = l + y
        BY <1>8, <2>3, <4>1, <4>2
      <4> QED
        BY <1>9, <2>5, <4>3
    <3> QED
      BY <3>1
  <2>7. PICK j \in Nat : j = q + 1
    OBVIOUS
  <2>8. /\ j \in 1..i /\ j \in 1..Len(Pieces(s, n)) /\ j \in 1..Len(Pieces(u, n))
        /\ (j - 1) * n = before /\ j * n = before + n
    BY <1>1, <2>3, <2>4, <2>6, <2>7
  <2>9. r + 1 \in 1..n
    BY <2>2
  <2>10. before + (r + 1) <= Len(s) /\ before + (r + 1) <= Len(u)
    <3>1. ends <= Len(s) /\ ends <= Len(u)
      BY <1>4, <1>5, <1>7
    <3> QED
      BY <1>1, <2>5, <3>1
  <2>11. Pieces(s, n)[j][r + 1] = s[before + (r + 1)]
    BY <1>10, <2>8, <2>9, <2>10
  <2>12. Pieces(u, n)[j][r + 1] = u[before + (r + 1)]
    BY <1>10, <2>8, <2>9, <2>10
  <2>13. Pieces(s, n)[j] = Pieces(u, n)[j]
    BY <1>2, <2>8
  <2> QED
    BY <2>5, <2>11, <2>12, <2>13
<1>12. ends <= Len(u) /\ \A p \in 1..ends : s[p] = u[p]
  BY <1>5, <1>7, <1>11
<1>13. SubSeq(s, 1, ends) = SubSeq(u, 1, ends)
  BY <1>4, <1>12, SamePrefix
<1> QED
  BY <1>4, <1>5, <1>7, <1>13

\* Sequences that begin with the same k times n elements have the same first k
\* pieces, each whole.
LEMMA PiecesAgree ==
    ASSUME NEW S, NEW s \in Seq(S), NEW u \in Seq(S), NEW n \in Nat \ {0},
           NEW k \in Nat, NEW l \in Nat, l = k * n, l <= Len(s), l <= Len(u),
           SubSeq(s, 1, l) = SubSeq(u, 1, l)
    PROVE  /\ k <= Len(Pieces(s, n)) /\ k <= Len(Pieces(u, n))
           /\ SubSeq(Pieces(s, n), 1, k) = SubSeq(Pieces(u, n), 1, k)
<1>1. /\ Len(s) \in Nat /\ Len(u) \in Nat
      /\ Pieces(s, n) \in Seq(Seq(S)) /\ Pieces(u, n) \in Seq(Seq(S))
      /\ Len(Pieces(s, n)) = (Len(s) + n - 1) \div n
      /\ Len(Pieces(u, n)) = (Len(u) + n - 1) \div n
  BY PieceElements
<1>2. Len(Pieces(s, n)) \in Nat /\ Len(Pieces(u, n)) \in Nat
  BY <1>1, PieceCount
<1>3. \A p \in 1..l : s[p] = u[p]
  BY <1>1, SamePrefix
<1>4. ASSUME NEW j \in 1..k
      PROVE  \E first \in Nat :
                 /\ first = (j - 1) * n /\ j * n = first + n /\ first + n <= l
                 /\ j <= Len(Pieces(s, n)) /\ j <= Len(Pieces(u, n))
  <2>1. j \in Nat \ {0} /\ j <= k
    OBVIOUS
  <2>2. PICK first \in Nat : first = (j - 1) * n
    <3>1. j - 1 \in Nat
      BY <2>1
    <3> QED
      BY <3>1
  <2>3. j * n = first + n
    BY <2>1, <2>2
  <2>4. PICK x \in Nat : k = j + x
    <3>1. k - j \in Nat /\ k = j + (k - j)
      BY <2>1
    <3> QED
      BY <3>1
  <2>5. PICK y \in Nat : y = x * n
    OBVIOUS
  <2>6. l = first + n + y
    BY <1>3, <2>1, <2>3, <2>4, <2>5
  <2>7. first < Len(s) /\ first < Len(u)
    BY <1>1, <1>3, <2>6
  <2>8. /\ j <= (Len(s) + n - 1) \div n <=> (j - 1) * n < Len(s)
        /\ j <= (Len(u) + n - 1) \div n <=> (j - 1) * n < Len(u)
    BY <1>1, <2>1, PieceCount
  <2>9. (j - 1) * n < Len(s) /\ (j - 1) * n < Len(u)
    BY <2>2, <2>7
  <2>10. j <= Len(Pieces(s, n)) /\ j <= Len(Pieces(u, n))
    BY <1>1, <2>8, <2>9
  <2>11. first + n <= l
    BY <2>6
  <2> QED
    BY <2>2, <2>3, <2>10, <2>11
<1>5. k <= Len(Pieces(s, n)) /\ k <= Len(Pieces(u, n))
  <2>1. CASE k = 0
    BY <1>2, <2>1
  <2>2. CASE k # 0
    <3>1. k \in 1..k
      BY <2>2
    <3> QED
      BY <1>4, <3>1
  <2> QED
    BY <2>1, <2>2
<1>6. ASSUME NEW j \in 1..k
      PROVE  Pieces(s, n)[j] = Pieces(u, n)[j]
  <2> DEFINE a == Pieces(s, n)[j]
             b == Pieces(u, n)[j]
  <2>1. PICK first \in Nat :
            /\ first = (j - 1) * n /\ j * n = first + n /\ first + n <= l
            /\ j <= Len(Pieces(s, n)) /\ j <= Len(Pieces(u, n))
    BY <1>4
  <2>2. j \in 1..Len(Pieces(s, n)) /\ j \in 1..Len(Pieces(u, n))
    BY <1>2, <2>1
  <2>3. first + n <= Len(s) /\ first + n <= Len(u)
    <3>1. Len(s) \in Nat /\ Len(u) \in Nat
      BY <1>1
    <3>2. first + n <= l
      BY <2>1
    <3> HIDE DEF a, b
    <3> QED
      BY <3>1, <3>2
  <2>4. Least(j * n, Len(s)) = first + n /\ Least(j * n, Len(u)) = first + n
    BY <2>1, <2>3 DEF Least
  <2>5. PICK b1 \in Nat, lasts \in Nat :
            /\ b1 = (j - 1) * n /\ lasts = Least(j * n, Len(s))
            /\ b1 < lasts /\ lasts <= Len(s)
            /\ Len(Pieces(s, n)[j]) = lasts - b1
            /\ \A o \in 1..(lasts - b1) : Pieces(s, n)[j][o] = s[b1 + o]
    BY <2>2, PieceAt, Zenon
  <2>6. PICK b2 \in Nat, lastu \in Nat :
            /\ b2 = (j - 1) * n /\ lastu = Least(j * n, Len(u))
            /\ b2 < lastu /\ lastu <= Len(u)
            /\ Len(Pieces(u, n)[j]) = lastu - b2
            /\ \A o \in 1..(lastu - b2) : Pieces(u, n)[j][o] = u[b2 + o]
    BY <2>2, PieceAt, Zenon
  <2>7. b1 = first /\ b2 = first /\ lasts = first + n /\ lastu = first + n
    BY <2>1, <2>4, <2>5, <2>6
  <2>8. a \in Seq(S) /\ b \in Seq(S)
    BY <1>1, <2>2, ElementOfSeq
  <2>9. \A o \in 1..n : s[first + o] = u[first + o]
    <3>1. \A o \in 1..n : first + o \in 1..l
      BY <2>1
    <3> QED
      BY <1>3, <3>1
  <2> HIDE DEF a, b
  <2>10. Len(a) = n /\ Len(b) = n /\ \A o \in 1..n : (a[o] = s[first + o] /\ b[o] = u[first + o])
    <3>1. lasts - b1 = n /\ lastu - b2 = n
      BY <2>7
    <3> QED
      BY <2>5, <2>6, <2>7, <3>1 DEF a, b
  <2>11. \A o \in 1..Len(a) : a[o] = b[o]
    BY <2>9, <2>10
  <2>12. a = b
    BY <2>8, <2>10, <2>11, SeqEqual
  <2> QED
    BY <2>12 DEF a, b
<1>7. SubSeq(Pieces(s, n), 1, k) = SubSeq(Pieces(u, n), 1, k)
  BY <1>1, <1>5, <1>6, SamePrefix
<1> QED
  BY <1>5, <1>7

\* The same of texts, which are sequences of bytes.
LEMMA PiecesAgreeAll ==
    \A s, u \in Seq(Byte) : \A n \in Nat \ {0} : \A k \in Nat : \A l \in Nat :
        l = k * n /\ l <= Len(s) /\ l <= Len(u) /\ SubSeq(s, 1, l) = SubSeq(u, 1, l) =>
            /\ k <= Len(Pieces(s, n)) /\ k <= Len(Pieces(u, n))
            /\ SubSeq(Pieces(s, n), 1, k) = SubSeq(Pieces(u, n), 1, k)
  BY PiecesAgree

\* The hash of a chunk is the chunks up to it.
LEMMA HashIsPrefix ==
    ASSUME NEW tokens, NEW T, ChunkTokens(tokens) \in Seq(T)
    PROVE  \A i \in 1..Len(ChunkTokens(tokens)) :
               ChunkHashes(tokens)[i] = SubSeq(ChunkTokens(tokens), 1, i)
<1> DEFINE chunks == ChunkTokens(tokens)
           n == Len(chunks)
           Chained(f) == f = [i \in 1..n |-> Append(IF i = 1 THEN <<>> ELSE f[i - 1], chunks[i])]
           prefix == [i \in 1..n |-> SubSeq(chunks, 1, i)]
           hash == ChunkHashes(tokens)
<1>1. chunks \in Seq(T) /\ n \in Nat
  BY LenProperties
<1>2. ChunkHashes(tokens) = CHOOSE f : Chained(f)
  BY Zenon DEF ChunkHashes, ComputeChunkHash
<1> HIDE DEF chunks
<1>3. ASSUME NEW i \in 1..n
      PROVE  SubSeq(chunks, 1, i) = Append(IF i = 1 THEN <<>> ELSE SubSeq(chunks, 1, i - 1), chunks[i])
  <2>1. i \in Nat /\ i - 1 \in Nat /\ i <= n /\ 1 <= i
    BY <1>1
  <2>2. SubSeq(chunks, 1, i) = SubSeq(chunks, 1, i - 1) \o <<chunks[i]>>
    <3>1. 1 \in 1..(Len(chunks) + 1) /\ i \in 1..Len(chunks)
      BY <1>1
    <3> QED
      BY <1>1, <3>1, SubSeqRecursiveSecond
  <2>3. SubSeq(chunks, 1, i - 1) \in Seq(T) /\ chunks[i] \in T
    <3>1. 1 \in 1..(Len(chunks) + 1) /\ i - 1 \in (1 - 1)..Len(chunks)
      BY <1>1
    <3> QED
      BY <1>1, <3>1, SubSeqProperties, ElementOfSeq
  <2>4. SubSeq(chunks, 1, i) = Append(SubSeq(chunks, 1, i - 1), chunks[i])
    BY <2>2, <2>3, AppendIsConcat
  <2>5. i = 1 => SubSeq(chunks, 1, i - 1) = <<>>
    BY <1>1, SubSeqEmpty
  <2> QED
    BY <2>4, <2>5
<1>4. Chained(prefix)
  <2>1. \A i \in 1..n : i # 1 => i - 1 \in 1..n
    BY <1>1
  <2>2. \A i \in 1..n : SubSeq(chunks, 1, i)
                           = Append(IF i = 1 THEN <<>> ELSE prefix[i - 1], chunks[i])
    BY <1>3, <2>1
  <2> QED
    BY <2>2
<1>5. Chained(hash)
  BY <1>2, <1>4, Zenon
<1> HIDE DEF n, hash
<1>6. \A i \in 1..n : hash[i] = Append(IF i = 1 THEN <<>> ELSE hash[i - 1], chunks[i])
  BY <1>5
<1> DEFINE wrong == {i \in 1..n : hash[i] # SubSeq(chunks, 1, i)}
<1>7. wrong = {}
  <2> SUFFICES ASSUME wrong # {}
               PROVE  FALSE
    OBVIOUS
  <2>1. wrong \subseteq Nat
    OBVIOUS
  <2>2. PICK i \in wrong : \A k \in wrong : i <= k
    BY <2>1, LeastExists
  <2>3. i \in 1..n /\ hash[i] # SubSeq(chunks, 1, i)
    OBVIOUS
  <2>4. i # 1 => i - 1 \in 1..n /\ i - 1 \notin wrong
    BY <1>1, <2>2, <2>3
  <2>5. i # 1 => hash[i - 1] = SubSeq(chunks, 1, i - 1)
    BY <2>4
  <2>6. hash[i] = SubSeq(chunks, 1, i)
    BY <1>3, <1>6, <2>3, <2>5
  <2> QED
    BY <2>3, <2>6
<1> QED
  BY <1>7 DEF hash, n, chunks

-----------------------------------------------------------------------------
(* Texts *)

\* The tokens of texts, and their chunks, are sequences.
LEMMA TokensTyped ==
    ASSUME NEW t \in Texts
    PROVE  /\ t \in Seq(Byte)
           /\ Granule \in Nat \ {0} /\ ChunkSize \in Nat \ {0}
           /\ Tokens(t) \in Seq(Seq(Byte))
           /\ ChunkTokens(Tokens(t)) \in Seq(Seq(Seq(Byte)))
           /\ Len(t) \in Nat /\ Len(Tokens(t)) \in Nat
           /\ Len(ChunkTokens(Tokens(t))) \in Nat
<1>1. t \in Seq(Byte) /\ ChunkSize \in Nat \ {0}
  BY IndexAssumption
<1>2. Granule \in Nat \ {0}
  BY IndexAssumption DEF Granule
<1>3. Tokens(t) \in Seq(Seq(Byte))
  BY <1>1, <1>2, PieceElements DEF Tokens
<1>4. ChunkTokens(Tokens(t)) \in Seq(Seq(Seq(Byte)))
  BY <1>1, <1>3, PieceElements DEF ChunkTokens
<1> QED
  BY <1>1, <1>2, <1>3, <1>4, LenProperties

\* The chunks of a text that a lookup counts: the leading ones that are cached.
Matched(t) ==
    {k \in 1..Len(ChunkTokens(Tokens(t))) : \A j \in 1..k : ChunkHashes(Tokens(t))[j] \in cached}

\* They are the first ones, and their number makes the hit.
LEMMA MatchedLead ==
    ASSUME NEW t \in Texts
    PROVE  /\ Cardinality(Matched(t)) \in 0..Len(ChunkTokens(Tokens(t)))
           /\ Matched(t) = 1..Cardinality(Matched(t))
           /\ FindPrefixMatch(Tokens(t), cached)
                  = Least(ChunkSize * Cardinality(Matched(t)), Len(Tokens(t)))
<1> DEFINE n == Len(ChunkTokens(Tokens(t)))
<1>1. n \in Nat
  BY TokensTyped
<1>2. Matched(t) \subseteq 1..n
  BY DEF Matched
<1>3. \A k \in Matched(t) : \A j \in 1..k : j \in Matched(t)
  <2> SUFFICES ASSUME NEW k \in Matched(t), NEW j \in 1..k
               PROVE  j \in Matched(t)
    OBVIOUS
  <2>1. k \in 1..n /\ \A i \in 1..k : ChunkHashes(Tokens(t))[i] \in cached
    BY DEF Matched
  <2> HIDE DEF n
  <2>2. j \in 1..n /\ \A i \in 1..j : i \in 1..k
    BY <1>1, <2>1
  <2> QED
    BY <2>1, <2>2 DEF Matched, n
<1>4. FindPrefixMatch(Tokens(t), cached)
          = Least(ChunkSize * Cardinality(Matched(t)), Len(Tokens(t)))
  BY DEF FindPrefixMatch, Matched
<1> HIDE DEF n
<1>5. Cardinality(Matched(t)) \in 0..n /\ Matched(t) = 1..Cardinality(Matched(t))
  BY <1>1, <1>2, <1>3, Leading
<1> QED
  BY <1>4, <1>5 DEF n

-----------------------------------------------------------------------------
(* What is cached *)

\* Every chunk in the cache is one of a text that was stored up to its end.
HashInv ==
    \A h \in cached : \E t \in Texts : \E i \in 1..Len(ChunkTokens(Tokens(t))) :
        /\ h = ChunkHashes(Tokens(t))[i]
        /\ SubSeq(Tokens(t), 1, Least(i * ChunkSize, Len(Tokens(t)))) \in stored

\* Full chunks are some of the chunks.
LEMMA FullChunks ==
    ASSUME NEW l \in Nat, NEW n \in Nat \ {0}
    PROVE  /\ l \div n \in Nat
           /\ l \div n <= (l + n - 1) \div n
           /\ ((l \div n) * n) \div n = l \div n
<1>1. PICK q \in Nat : q = l \div n
  OBVIOUS
<1>2. l = n * q + (l % n) /\ l % n \in 0..(n - 1)
  BY <1>1
<1>3. PICK p \in Nat : p = q * n
  OBVIOUS
<1>4. p <= l
  <2>1. p = n * q
    BY <1>3
  <2> QED
    BY <1>2, <2>1
<1>5. p \div n = q
  BY <1>3
<1>6. q <= (l + n - 1) \div n
  <2>1. CASE q = 0
    BY <2>1, PieceCount
  <2>2. CASE q # 0
    <3>1. q \in Nat \ {0}
      BY <2>2
    <3>2. PICK x \in Nat : x = (q - 1) * n
      BY <3>1, PieceCount
    <3>3. p = x + n
      BY <1>3, <3>1, <3>2, PieceCount
    <3>4. x < l
      BY <1>4, <3>3
    <3>5. q <= (l + n - 1) \div n <=> (q - 1) * n < l
      BY <3>1, PieceCount
    <3> QED
      BY <3>2, <3>4, <3>5
  <2> QED
    BY <2>1, <2>2
<1> QED
  BY <1>1, <1>3, <1>5, <1>6

\* Storing chunks of a text keeps the invariant.
LEMMA StoringKeeps ==
    ASSUME HashInv, NEW t \in Texts, NEW first \in Nat \ {0}, NEW last \in Nat,
           last <= Len(ChunkTokens(Tokens(t))), StoreChunks(Tokens(t), first, last)
    PROVE  HashInv'
<1> DEFINE tokens == Tokens(t)
           own == ChunkHashes(tokens)
           End(i) == SubSeq(tokens, 1, Least(i * ChunkSize, Len(tokens)))
<1>1. /\ cached' = cached \cup {own[i] : i \in first..last}
      /\ stored' = stored \cup {End(i) : i \in first..last}
  BY DEF StoreChunks
<1> HIDE DEF own, End
<1>2. ASSUME NEW i \in first..last
      PROVE  i \in 1..Len(ChunkTokens(tokens)) /\ End(i) \in stored'
  <2>1. Len(ChunkTokens(tokens)) \in Nat
    BY TokensTyped
  <2> HIDE DEF tokens
  <2>2. i \in 1..Len(ChunkTokens(tokens))
    BY <2>1 DEF tokens
  <2> QED
    BY <1>1, <2>2
<1> SUFFICES ASSUME NEW h \in cached'
             PROVE  \E u \in Texts : \E i \in 1..Len(ChunkTokens(Tokens(u))) :
                        /\ h = ChunkHashes(Tokens(u))[i]
                        /\ SubSeq(Tokens(u), 1, Least(i * ChunkSize, Len(Tokens(u)))) \in stored'
  BY DEF HashInv
<1>3. CASE h \in cached
  <2>1. PICK u \in Texts : \E i \in 1..Len(ChunkTokens(Tokens(u))) :
            /\ h = ChunkHashes(Tokens(u))[i]
            /\ SubSeq(Tokens(u), 1, Least(i * ChunkSize, Len(Tokens(u)))) \in stored
    BY <1>3, Zenon DEF HashInv
  <2> QED
    BY <1>1, <2>1
<1>4. CASE h \notin cached
  <2>1. PICK i \in first..last : h = own[i]
    BY <1>1, <1>4
  <2> QED
    BY <1>2, <2>1, Zenon DEF own, End
<1> QED
  BY <1>3, <1>4

\* Every step keeps the invariant.
LEMMA HashStep == CostInv /\ HashInv /\ [Next]_vars => HashInv'
<1> SUFFICES ASSUME CostInv, HashInv, [Next]_vars
             PROVE  HashInv'
  OBVIOUS
<1>1. CASE Store
  <2> DEFINE l == Len(Tokens(req.text))
             end == (l \div ChunkSize) * ChunkSize
  <2>1. req.text \in Texts /\ l \in Nat /\ req.hit \in 0..l
    BY <1>1 DEF Store, CostInv, Charged
  <2>2. ChunkSize \in Nat \ {0} /\ Len(ChunkTokens(Tokens(req.text))) = (l + ChunkSize - 1) \div ChunkSize
    BY <2>1, TokensTyped, PieceElements DEF ChunkTokens
  <2> HIDE DEF l
  <2>3. end \div ChunkSize \in Nat /\ end \div ChunkSize <= Len(ChunkTokens(Tokens(req.text)))
    BY <2>1, <2>2, FullChunks
  <2>4. req.hit \div ChunkSize + 1 \in Nat \ {0}
    BY <2>1, <2>2
  <2>5. \/ StoreChunks(Tokens(req.text), req.hit \div ChunkSize + 1, end \div ChunkSize)
        \/ UNCHANGED indexVars
    BY <1>1, Zenon DEF Store, l
  <2> HIDE DEF end
  <2>6. CASE StoreChunks(Tokens(req.text), req.hit \div ChunkSize + 1, end \div ChunkSize)
    BY <2>1, <2>3, <2>4, <2>6, StoringKeeps
  <2>7. CASE UNCHANGED indexVars
    BY <2>7 DEF HashInv, indexVars
  <2> QED
    BY <2>5, <2>6, <2>7
<1>2. CASE StoreElsewhere
  <2>1. PICK t \in Texts, partial \in BOOLEAN : StoreText(t, partial)
    BY <1>2 DEF StoreElsewhere
  <2> DEFINE l == Len(Tokens(t))
             n == Len(ChunkTokens(Tokens(t)))
  <2>2. n \in Nat /\ l \in Nat /\ ChunkSize \in Nat \ {0} /\ n = (l + ChunkSize - 1) \div ChunkSize
    BY TokensTyped, PieceElements DEF ChunkTokens
  <2>3. StoreChunks(Tokens(t), 1, IF partial THEN n ELSE l \div ChunkSize)
    BY <2>1 DEF StoreText
  <2> HIDE DEF n, l
  <2>4. (IF partial THEN n ELSE l \div ChunkSize) \in 0..n
    <3>1. PICK q \in Nat : q = l \div ChunkSize /\ q <= n
      BY <2>2, FullChunks
    <3> QED
      BY <2>2, <3>1
  <2> DEFINE last == IF partial THEN n ELSE l \div ChunkSize
  <2>5. StoreChunks(Tokens(t), 1, last) /\ last \in Nat /\ last <= n
    BY <2>2, <2>3, <2>4
  <2> HIDE DEF last
  <2> QED
    BY <2>5, StoringKeeps DEF n
<1>3. CASE Evict
  <2>1. cached' \subseteq cached /\ stored' = stored
    BY <1>3 DEF Evict, Drop
  <2> QED
    BY <2>1 DEF HashInv
<1>4. CASE UNCHANGED <<cached, stored>>
  BY <1>4 DEF HashInv
<1>5. CASE (\E text \in Texts : Lookup(text)) \/ Decode \/ Reply \/ UNCHANGED vars
  <2>1. UNCHANGED <<cached, stored>>
    BY <1>5 DEF Lookup, Decode, Reply, vars
  <2> QED
    BY <2>1, <1>4
<1> QED
  BY <1>1, <1>2, <1>3, <1>5 DEF Next

\* The tokens up to the end of a chunk that matches were stored.
LEMMA MatchesAreStored ==
    ASSUME HashInv, NEW t \in Texts, NEW i \in Matched(t)
    PROVE  SubSeq(Tokens(t), 1, Least(i * ChunkSize, Len(Tokens(t)))) \in stored
<1> DEFINE chunks == ChunkTokens(Tokens(t))
<1>1. i \in 1..Len(chunks) /\ ChunkHashes(Tokens(t))[i] \in cached
  <2>1. i \in 1..Len(chunks) /\ \A j \in 1..i : ChunkHashes(Tokens(t))[j] \in cached
    BY DEF Matched
  <2>2. i \in 1..i
    BY <2>1
  <2> QED
    BY <2>1, <2>2
<1>2. PICK u \in Texts : \E k \in 1..Len(ChunkTokens(Tokens(u))) :
          /\ ChunkHashes(Tokens(t))[i] = ChunkHashes(Tokens(u))[k]
          /\ SubSeq(Tokens(u), 1, Least(k * ChunkSize, Len(Tokens(u)))) \in stored
  BY <1>1, Zenon DEF HashInv
<1>3. PICK k \in 1..Len(ChunkTokens(Tokens(u))) :
          /\ ChunkHashes(Tokens(t))[i] = ChunkHashes(Tokens(u))[k]
          /\ SubSeq(Tokens(u), 1, Least(k * ChunkSize, Len(Tokens(u)))) \in stored
  BY <1>2, Zenon
<1> DEFINE others == ChunkTokens(Tokens(u))
<1>4. /\ Tokens(t) \in Seq(Seq(Byte)) /\ Tokens(u) \in Seq(Seq(Byte))
      /\ chunks \in Seq(Seq(Seq(Byte))) /\ others \in Seq(Seq(Seq(Byte)))
      /\ Len(chunks) \in Nat /\ Len(others) \in Nat
      /\ ChunkSize \in Nat \ {0}
  BY TokensTyped
<1>5. SubSeq(chunks, 1, i) = SubSeq(others, 1, k)
  <2>1. ChunkHashes(Tokens(t))[i] = SubSeq(chunks, 1, i)
    BY <1>1, <1>4, HashIsPrefix
  <2>2. ChunkHashes(Tokens(u))[k] = SubSeq(others, 1, k)
    BY <1>3, <1>4, HashIsPrefix
  <2> QED
    BY <1>3, <2>1, <2>2
<1>6. i = k
  <2> HIDE DEF chunks, others
  <2>1. k \in 1..Len(others)
    BY <1>3 DEF others
  <2>2. /\ 1 \in 1..(Len(chunks) + 1) /\ i \in (1 - 1)..Len(chunks)
        /\ 1 \in 1..(Len(others) + 1) /\ k \in (1 - 1)..Len(others)
    BY <1>1, <1>4, <2>1
  <2>3. /\ Len(SubSeq(chunks, 1, i)) = IF 1 <= i THEN i - 1 + 1 ELSE 0
        /\ Len(SubSeq(others, 1, k)) = IF 1 <= k THEN k - 1 + 1 ELSE 0
    BY <1>4, <2>2, SubSeqProperties
  <2> QED
    BY <1>1, <1>4, <1>5, <2>1, <2>3
<1>7. SubSeq(Tokens(t), 1, Least(i * ChunkSize, Len(Tokens(t))))
          = SubSeq(Tokens(u), 1, Least(i * ChunkSize, Len(Tokens(u))))
  <2>1. i \in Nat \ {0} /\ i <= Len(chunks) /\ i <= Len(others)
    <3>1. i \in 1..Len(chunks) /\ i \in 1..Len(others)
      BY <1>1, <1>3, <1>6
    <3> HIDE DEF chunks, others
    <3> QED
      BY <1>4, <3>1
  <2>2. SubSeq(chunks, 1, i) = SubSeq(others, 1, i)
    BY <1>5, <1>6
  <2> QED
    BY <1>4, <2>1, <2>2, PiecesDetermine DEF ChunkTokens
<1> QED
  BY <1>3, <1>6, <1>7

\* A hit is never false: what it covers up to a chunk boundary was stored.
LEMMA HitsAreTrue ==
    ASSUME HashInv, NEW t \in Texts,
           NEW n \in 1..FindPrefixMatch(Tokens(t), cached),
           n % ChunkSize = 0 \/ n = FindPrefixMatch(Tokens(t), cached)
    PROVE  SubSeq(Tokens(t), 1, n) \in stored
<1> DEFINE hit == FindPrefixMatch(Tokens(t), cached)
           l == Len(Tokens(t))
           m == Cardinality(Matched(t))
<1>1. /\ ChunkSize \in Nat \ {0} /\ l \in Nat /\ m \in Nat
      /\ Matched(t) = 1..m
      /\ hit = Least(ChunkSize * m, l)
  BY TokensTyped, MatchedLead
<1>2. n \in 1..hit /\ (n % ChunkSize = 0 \/ n = hit)
  OBVIOUS
<1> HIDE DEF hit, l, m
<1>3. PICK p \in Nat : p = ChunkSize * m
  BY <1>1
<1>4. /\ hit \in Nat /\ hit <= p /\ hit <= l /\ (hit = p \/ hit = l)
      /\ n \in Nat /\ 1 <= n /\ n <= hit
  <2>1. hit \in Nat /\ hit <= p /\ hit <= l /\ (hit = p \/ hit = l)
    BY <1>1, <1>3 DEF Least
  <2> QED
    BY <1>2, <2>1
<1>5. CASE n % ChunkSize = 0
  <2>1. PICK i \in Nat : n = ChunkSize * i
    <3>1. PICK q \in Nat, r \in Nat :
              q = n \div ChunkSize /\ r = n % ChunkSize /\ n = ChunkSize * q + r
      <4>1. n = ChunkSize * (n \div ChunkSize) + (n % ChunkSize)
        BY <1>1, <1>4
      <4>2. n \div ChunkSize \in Nat /\ n % ChunkSize \in Nat
        BY <1>1, <1>4
      <4> QED
        BY <4>1, <4>2
    <3>2. r = 0
      BY <1>5, <3>1
    <3>3. n = ChunkSize * q
      BY <1>1, <3>1, <3>2
    <3> QED
      BY <3>3
  <2>2. i * ChunkSize = n
    BY <1>1, <2>1
  <2>3. i \in 1..m
    <3>1. i # 0
      BY <1>1, <1>4, <2>1
    <3>2. CASE i > m
      <4>1. PICK x \in Nat : i = m + 1 + x
        <5>1. i - m - 1 \in Nat /\ i = m + 1 + (i - m - 1)
          BY <1>1, <3>2
        <5> QED
          BY <5>1
      <4>2. PICK y \in Nat : y = ChunkSize * x
        BY <1>1
      <4>3. n = p + ChunkSize + y
        BY <1>1, <1>3, <2>1, <4>1, <4>2
      <4> QED
        BY <1>1, <1>4, <4>3
    <3> QED
      BY <1>1, <3>1, <3>2
  <2>4. SubSeq(Tokens(t), 1, Least(i * ChunkSize, l)) \in stored
    BY <1>1, <2>3, MatchesAreStored DEF l
  <2>5. Least(i * ChunkSize, l) = n
    BY <1>1, <1>4, <2>2 DEF Least
  <2> QED
    BY <2>4, <2>5
<1>6. CASE n = hit
  <2>1. m \in 1..m
    <3>1. m # 0
      BY <1>1, <1>3, <1>4
    <3> QED
      BY <1>1, <3>1
  <2>2. SubSeq(Tokens(t), 1, Least(m * ChunkSize, l)) \in stored
    BY <1>1, <2>1, MatchesAreStored DEF l
  <2>3. m * ChunkSize = p
    BY <1>1, <1>3
  <2>4. Least(m * ChunkSize, l) = n
    BY <1>1, <1>3, <1>6, <2>3
  <2> QED
    BY <2>2, <2>4
<1> QED
  BY <1>2, <1>5, <1>6

\* The bytes that two texts begin with in common are a prefix of both.
LEMMA CommonPrefix ==
    ASSUME NEW t \in Texts, NEW u \in Texts
    PROVE  /\ CommonBytes(t, u) \in Nat
           /\ CommonBytes(t, u) <= Len(t) /\ CommonBytes(t, u) <= Len(u)
           /\ \A n \in 0..CommonBytes(t, u) : SubSeq(t, 1, n) = SubSeq(u, 1, n)
<1> DEFINE l == Least(Len(t), Len(u))
           same == {n \in 1..l : SubSeq(t, 1, n) = SubSeq(u, 1, n)}
<1>1. /\ t \in Seq(Byte) /\ u \in Seq(Byte) /\ Len(t) \in Nat /\ Len(u) \in Nat
  BY TokensTyped
<1>2. l \in Nat /\ l <= Len(t) /\ l <= Len(u)
  BY <1>1 DEF Least
<1> HIDE DEF l
<1>3. \A n \in 0..l : SubSeq(t, 1, n) = SubSeq(u, 1, n) <=> \A p \in 1..n : t[p] = u[p]
  BY <1>1, <1>2, SamePrefix
<1>4. \A k \in same : \A j \in 1..k : j \in same
  <2> SUFFICES ASSUME NEW k \in same, NEW j \in 1..k
               PROVE  j \in same
    OBVIOUS
  <2>1. k \in 1..l /\ SubSeq(t, 1, k) = SubSeq(u, 1, k)
    OBVIOUS
  <2>2. \A p \in 1..k : t[p] = u[p]
    BY <1>2, <1>3, <2>1
  <2>3. j \in 1..l /\ \A p \in 1..j : t[p] = u[p]
    BY <1>2, <2>1, <2>2
  <2> QED
    BY <1>2, <1>3, <2>3
<1>5. same \subseteq 1..l
  OBVIOUS
<1>6. CommonBytes(t, u) = Cardinality(same)
  BY DEF CommonBytes, l
<1> DEFINE c == Cardinality(same)
<1>7. c \in 0..l /\ same = 1..c
  <2> HIDE DEF same
  <2> QED
    BY <1>2, <1>4, <1>5, Leading
<1>8. \A n \in 1..c : SubSeq(t, 1, n) = SubSeq(u, 1, n)
  BY <1>7
<1> HIDE DEF same, c
<1>9. 0 \in 0..l /\ SubSeq(t, 1, 0) = SubSeq(u, 1, 0)
  BY <1>2, <1>3
<1>10. \A n \in 0..c : SubSeq(t, 1, n) = SubSeq(u, 1, n)
  BY <1>2, <1>7, <1>8, <1>9
<1> QED
  BY <1>1, <1>2, <1>6, <1>7, <1>10 DEF c

\* Texts that begin with the same k granules have the same first k tokens.
LEMMA TokensAgree ==
    ASSUME NEW t \in Texts, NEW u \in Texts, NEW k \in Nat, NEW l \in Nat,
           l = k * Granule, l <= Len(t), l <= Len(u), SubSeq(t, 1, l) = SubSeq(u, 1, l)
    PROVE  /\ k <= Len(Tokens(t)) /\ k <= Len(Tokens(u))
           /\ SubSeq(Tokens(t), 1, k) = SubSeq(Tokens(u), 1, k)
<1>1. \A n \in Nat \ {0} : \A s, v \in Seq(Byte) :
          l = k * n /\ l <= Len(s) /\ l <= Len(v) /\ SubSeq(s, 1, l) = SubSeq(v, 1, l) =>
              /\ k <= Len(Pieces(s, n)) /\ k <= Len(Pieces(v, n))
              /\ SubSeq(Pieces(s, n), 1, k) = SubSeq(Pieces(v, n), 1, k)
  BY PiecesAgreeAll, Zenon
<1>2. t \in Seq(Byte) /\ u \in Seq(Byte) /\ Granule \in Nat \ {0}
  BY TokensTyped
<1> QED
  BY <1>1, <1>2, Zenon DEF Tokens

\* Texts that begin with the same q chunks of bytes have the same first q chunks.
LEMMA ChunksAgree ==
    ASSUME NEW t \in Texts, NEW u \in Texts, NEW q \in Nat,
           q * (Granule * ChunkSize) <= CommonBytes(t, u)
    PROVE  /\ q <= Len(ChunkTokens(Tokens(t))) /\ q <= Len(ChunkTokens(Tokens(u)))
           /\ q * ChunkSize \in Nat
           /\ q * ChunkSize <= Len(Tokens(t)) /\ q * ChunkSize <= Len(Tokens(u))
           /\ SubSeq(ChunkTokens(Tokens(t)), 1, q) = SubSeq(ChunkTokens(Tokens(u)), 1, q)
<1>1. /\ t \in Seq(Byte) /\ u \in Seq(Byte)
      /\ Tokens(t) \in Seq(Seq(Byte)) /\ Tokens(u) \in Seq(Seq(Byte))
      /\ Granule \in Nat \ {0} /\ ChunkSize \in Nat \ {0}
  BY TokensTyped
<1>2. PICK k \in Nat : k = q * ChunkSize
  BY <1>1
<1>3. PICK l \in Nat : l = k * Granule
  BY <1>1
<1>4. l <= CommonBytes(t, u)
  <2>1. l = q * (Granule * ChunkSize)
    BY <1>1, <1>2, <1>3
  <2> QED
    BY <2>1
<1>5. /\ CommonBytes(t, u) \in Nat
      /\ CommonBytes(t, u) <= Len(t) /\ CommonBytes(t, u) <= Len(u)
      /\ Len(t) \in Nat /\ Len(u) \in Nat
      /\ \A n \in 0..CommonBytes(t, u) : SubSeq(t, 1, n) = SubSeq(u, 1, n)
  BY CommonPrefix, TokensTyped
<1>6. l <= Len(t) /\ l <= Len(u) /\ SubSeq(t, 1, l) = SubSeq(u, 1, l)
  BY <1>4, <1>5
<1>7. /\ k <= Len(Tokens(t)) /\ k <= Len(Tokens(u))
      /\ SubSeq(Tokens(t), 1, k) = SubSeq(Tokens(u), 1, k)
  BY <1>3, <1>6, TokensAgree
<1>8. /\ q <= Len(ChunkTokens(Tokens(t))) /\ q <= Len(ChunkTokens(Tokens(u)))
      /\ SubSeq(ChunkTokens(Tokens(t)), 1, q) = SubSeq(ChunkTokens(Tokens(u)), 1, q)
  BY <1>1, <1>2, <1>7, PiecesAgree DEF ChunkTokens
<1> QED
  BY <1>2, <1>7, <1>8

\* None is missed: a text whose tokens are all cached serves those that begin
\* like it with every chunk of what they have in common.
LEMMA NoHitIsMissed ==
    ASSUME NEW t \in Texts, NEW u \in Texts,
           FindPrefixMatch(Tokens(t), cached) = Len(Tokens(t))
    PROVE  FindPrefixMatch(Tokens(u), cached)
               >= ChunkSize * (CommonBytes(t, u) \div (Granule * ChunkSize))
<1> DEFINE q == CommonBytes(t, u) \div (Granule * ChunkSize)
           n == Len(ChunkTokens(Tokens(t)))
           o == Len(ChunkTokens(Tokens(u)))
           m == Cardinality(Matched(t))
           w == Cardinality(Matched(u))
           l == Len(Tokens(t))
           k == Len(Tokens(u))
<1>1. /\ Granule \in Nat \ {0} /\ ChunkSize \in Nat \ {0} /\ CommonBytes(t, u) \in Nat
      /\ n \in Nat /\ o \in Nat /\ l \in Nat /\ k \in Nat
      /\ n = (l + ChunkSize - 1) \div ChunkSize
  BY TokensTyped, CommonPrefix, PieceElements DEF ChunkTokens
<1>2. q \in Nat /\ q * (Granule * ChunkSize) <= CommonBytes(t, u)
  <2>1. PICK g \in Nat \ {0} : g = Granule * ChunkSize
    BY <1>1
  <2>2. PICK c \in Nat : c = CommonBytes(t, u)
    BY <1>1
  <2>3. PICK d \in Nat : d = c \div g
    BY <2>1, <2>2
  <2>4. c = g * d + (c % g) /\ c % g \in 0..(g - 1)
    BY <2>3
  <2>5. d * g = g * d /\ g * d \in Nat
    BY <2>3
  <2>6. d * g <= c
    BY <2>4, <2>5
  <2> QED
    BY <2>1, <2>2, <2>3, <2>6
<1>3. /\ q <= n /\ q <= o /\ q * ChunkSize \in Nat /\ q * ChunkSize <= k
      /\ SubSeq(ChunkTokens(Tokens(t)), 1, q) = SubSeq(ChunkTokens(Tokens(u)), 1, q)
  BY <1>2, ChunksAgree
<1>4. /\ m \in 0..n /\ Matched(t) = 1..m /\ Least(ChunkSize * m, l) = l
      /\ w \in 0..o /\ Matched(u) = 1..w
      /\ FindPrefixMatch(Tokens(u), cached) = Least(ChunkSize * w, k)
  BY MatchedLead
<1> HIDE DEF q, m, w, l, k
<1>5. m = n
  <2> HIDE DEF n
  <2>1. m \in Nat
    BY <1>1, <1>4
  <2>2. PICK y \in Nat : y = m * ChunkSize
    BY <1>1, <2>1
  <2>3. ChunkSize * m = y
    BY <1>1, <2>1, <2>2
  <2>4. l <= y
    BY <1>1, <1>4, <2>3 DEF Least
  <2>5. (m + 1) - 1 = m /\ m + 1 \in Nat \ {0}
    BY <2>1
  <2>6. m + 1 <= (l + ChunkSize - 1) \div ChunkSize <=> ((m + 1) - 1) * ChunkSize < l
    BY <1>1, <2>5, PieceCount
  <2>7. ((m + 1) - 1) * ChunkSize = y
    BY <2>2, <2>5
  <2>8. ~(m + 1 <= n)
    BY <1>1, <2>4, <2>6, <2>7
  <2> QED
    BY <1>1, <1>4, <2>1, <2>8
<1>6. \A i \in 1..n : ChunkHashes(Tokens(t))[i] \in cached
  <2> SUFFICES ASSUME NEW i \in 1..n
               PROVE  ChunkHashes(Tokens(t))[i] \in cached
    OBVIOUS
  <2>1. i \in Matched(t)
    BY <1>4, <1>5
  <2>2. i \in Nat /\ i \in 1..i
    OBVIOUS
  <2> QED
    BY <2>1, <2>2 DEF Matched
<1>7. ASSUME NEW i \in 1..q
      PROVE  /\ i \in 1..o
             /\ ChunkHashes(Tokens(u))[i] \in cached
  <2> DEFINE a == ChunkTokens(Tokens(t))
             b == ChunkTokens(Tokens(u))
  <2>1. i \in 1..n /\ i \in 1..o /\ i \in Nat
    <3> HIDE DEF n, o
    <3> QED
      BY <1>1, <1>2, <1>3
  <2>2. a \in Seq(Seq(Seq(Byte))) /\ b \in Seq(Seq(Seq(Byte)))
    BY TokensTyped
  <2>3. ChunkHashes(Tokens(t))[i] = SubSeq(a, 1, i) /\ ChunkHashes(Tokens(u))[i] = SubSeq(b, 1, i)
    BY <2>1, <2>2, HashIsPrefix
  <2>4. SubSeq(a, 1, i) = SubSeq(b, 1, i)
    <3> HIDE DEF a, b
    <3>1. q <= Len(a) /\ q <= Len(b) /\ SubSeq(a, 1, q) = SubSeq(b, 1, q)
      BY <1>3 DEF a, b
    <3>2. \A p \in 1..q : a[p] = b[p]
      BY <1>2, <2>2, <3>1, SamePrefix
    <3>3. i <= Len(a) /\ i <= Len(b) /\ \A p \in 1..i : a[p] = b[p]
      <4>1. Len(a) \in Nat /\ Len(b) \in Nat
        BY <2>2, LenProperties
      <4> QED
        BY <1>2, <2>1, <3>1, <3>2, <4>1
    <3> QED
      BY <2>1, <2>2, <3>3, SamePrefix
  <2> HIDE DEF a, b
  <2>5. ChunkHashes(Tokens(u))[i] \in cached
    BY <1>6, <2>1, <2>3, <2>4
  <2> QED
    BY <2>1, <2>5
<1>8. q <= w
  <2>1. CASE q = 0
    BY <1>4, <2>1
  <2>2. CASE q # 0
    <3>1. q \in 1..q
      BY <1>2, <2>2
    <3>2. q \in 1..o /\ \A j \in 1..q : ChunkHashes(Tokens(u))[j] \in cached
      BY <1>7, <3>1
    <3>3. q \in Matched(u)
      BY <3>2 DEF Matched
    <3> QED
      BY <1>4, <3>3
  <2> QED
    BY <2>1, <2>2
<1> HIDE DEF n, o
<1>9. Least(ChunkSize * w, k) >= ChunkSize * q
  <2>1. w \in Nat
    BY <1>1, <1>4
  <2>2. q * ChunkSize <= w * ChunkSize /\ q * ChunkSize \in Nat /\ w * ChunkSize \in Nat
    BY <1>1, <1>2, <1>8, <2>1, ProductMonotone
  <2>3. ChunkSize * q = q * ChunkSize /\ ChunkSize * w = w * ChunkSize
    BY <1>1, <1>2, <2>1
  <2> QED
    BY <1>1, <1>3, <2>2, <2>3 DEF Least
<1> QED
  BY <1>4, <1>9 DEF q

\* A hit is never false and none is missed (core/tokens.py:170-216), for any texts,
\* chunk size and granularity of tokens and whatever was stored and evicted by whom.
THEOREM PrefixesAreExact == Spec => []HitsAreExact
<1>1. Spec => []CostInv
  BY InitCharged, NextCharged, PTL DEF Spec
<1>2. Init => HashInv
  BY DEF Init, IndexInit, HashInv
<1>3. HashInv => HitsAreExact
  <2> SUFFICES ASSUME HashInv, NEW t \in Texts
               PROVE  /\ \A n \in 1..FindPrefixMatch(Tokens(t), cached) :
                            n % ChunkSize = 0 \/ n = FindPrefixMatch(Tokens(t), cached)
                            => SubSeq(Tokens(t), 1, n) \in stored
                      /\ FindPrefixMatch(Tokens(t), cached) = Len(Tokens(t)) =>
                            \A u \in Texts :
                                FindPrefixMatch(Tokens(u), cached) >=
                                    ChunkSize * (CommonBytes(t, u) \div (Granule * ChunkSize))
    BY Zenon DEF HitsAreExact
  <2> QED
    BY HitsAreTrue, NoHitIsMissed, Zenon
<1> QED
  BY <1>1, <1>2, <1>3, HashStep, PTL DEF Spec

-----------------------------------------------------------------------------
(* Sums *)

\* The sums of the first n terms, up to some n.
Sums(g, n, d) ==
    /\ g \in [0..n -> Nat]
    /\ g[0] = 0
    /\ \A i \in 1..n : g[i] = g[i - 1] + d[i]

\* There are such sums, however many terms.
LEMMA SumsExist ==
    ASSUME NEW d \in [Nat -> Nat], NEW n \in Nat
    PROVE  \E g : Sums(g, n, d)
<1> DEFINE bad == {k \in Nat : ~\E g : Sums(g, k, d)}
<1>1. bad = {}
  <2> SUFFICES ASSUME bad # {}
               PROVE  FALSE
    OBVIOUS
  <2>1. bad \subseteq Nat
    OBVIOUS
  <2>2. PICK k \in bad : \A j \in bad : k <= j
    BY <2>1, LeastExists
  <2>3. k \in Nat /\ ~\E g : Sums(g, k, d)
    OBVIOUS
  <2>4. k # 0
    <3>1. Sums([i \in 0..0 |-> 0], 0, d)
      BY DEF Sums
    <3> QED
      BY <2>3, <3>1
  <2>5. k - 1 \in Nat /\ k - 1 \notin bad
    BY <2>2, <2>3, <2>4
  <2>6. PICK g : Sums(g, k - 1, d)
    BY <2>5
  <2> DEFINE h == [i \in 0..k |-> IF i = k THEN g[k - 1] + d[k] ELSE g[i]]
  <2>7. Sums(h, k, d)
    <3>1. /\ g \in [0..(k - 1) -> Nat] /\ g[0] = 0
          /\ \A i \in 1..(k - 1) : g[i] = g[i - 1] + d[i]
      BY <2>6 DEF Sums
    <3>2. \A i \in 0..k : i # k => i \in 0..(k - 1)
      BY <2>3
    <3>3. k - 1 \in 0..(k - 1) /\ g[k - 1] \in Nat /\ d[k] \in Nat
      BY <2>3, <2>5, <3>1
    <3>4. h \in [0..k -> Nat]
      <4>1. \A i \in 0..k : (IF i = k THEN g[k - 1] + d[k] ELSE g[i]) \in Nat
        <5> SUFFICES ASSUME NEW i \in 0..k
                     PROVE  (IF i = k THEN g[k - 1] + d[k] ELSE g[i]) \in Nat
          OBVIOUS
        <5>1. i # k => g[i] \in Nat
          BY <3>1, <3>2
        <5> QED
          BY <3>3, <5>1
      <4> QED
        BY <4>1
    <3>5. h[0] = 0
      BY <2>3, <2>4, <3>1
    <3>6. \A i \in 1..k : h[i] = h[i - 1] + d[i]
      <4> SUFFICES ASSUME NEW i \in 1..k
                   PROVE  h[i] = h[i - 1] + d[i]
        OBVIOUS
      <4>1. i \in 0..k /\ i - 1 \in 0..k /\ i - 1 # k
        BY <2>3
      <4>2. h[i - 1] = g[i - 1]
        BY <4>1
      <4>3. CASE i = k
        BY <4>1, <4>2, <4>3
      <4>4. CASE i # k
        <5>1. i \in 1..(k - 1) /\ h[i] = g[i]
          BY <2>3, <4>1, <4>4
        <5> QED
          BY <3>1, <4>2, <5>1
      <4> QED
        BY <4>3, <4>4
    <3> HIDE DEF h
    <3> QED
      BY <3>4, <3>5, <3>6 DEF Sums
  <2> QED
    BY <2>3, <2>7
<1> QED
  BY <1>1

\* There is one such sum.
LEMMA SumsAgree ==
    ASSUME NEW d \in [Nat -> Nat], NEW n \in Nat, NEW k \in Nat, k <= n,
           NEW g, NEW h, Sums(g, n, d), Sums(h, k, d)
    PROVE  g[k] = h[k]
<1> DEFINE bad == {i \in 0..k : g[i] # h[i]}
<1>1. bad = {}
  <2> SUFFICES ASSUME bad # {}
               PROVE  FALSE
    OBVIOUS
  <2>1. bad \subseteq Nat
    OBVIOUS
  <2>2. PICK i \in bad : \A j \in bad : i <= j
    BY <2>1, LeastExists
  <2>3. i \in 0..k /\ g[i] # h[i]
    OBVIOUS
  <2>4. i # 0
    BY <2>3 DEF Sums
  <2>5. i \in 1..k /\ i \in 1..n /\ i - 1 \in 0..k /\ i - 1 \notin bad
    BY <2>2, <2>3, <2>4
  <2>6. g[i - 1] = h[i - 1]
    BY <2>5
  <2>7. g[i] = g[i - 1] + d[i] /\ h[i] = h[i - 1] + d[i]
    BY <2>5 DEF Sums
  <2> QED
    BY <2>3, <2>6, <2>7
<1>2. k \in 0..k
  OBVIOUS
<1> QED
  BY <1>1, <1>2

\* A function that adds up a sequence of numbers exists: so the one that is
\* defined by this recursion does.
LEMMA RunningSum ==
    ASSUME NEW d \in [Nat -> Nat]
    PROVE  \E f \in [Nat -> Nat] : f = [i \in Nat |-> IF i = 0 THEN 0 ELSE f[i - 1] + d[i]]
<1> DEFINE G(n) == CHOOSE g : Sums(g, n, d)
           f == [n \in Nat |-> G(n)[n]]
<1>1. \A n \in Nat : Sums(G(n), n, d)
  BY SumsExist, Zenon
<1> HIDE DEF G
<1>2. \A n \in Nat : f[n] \in Nat
  <2> SUFFICES ASSUME NEW n \in Nat
               PROVE  G(n)[n] \in Nat
    OBVIOUS
  <2>1. G(n) \in [0..n -> Nat] /\ n \in 0..n
    BY <1>1 DEF Sums
  <2> QED
    BY <2>1
<1>3. f \in [Nat -> Nat]
  BY <1>2
<1>4. \A n \in Nat : f[n] = IF n = 0 THEN 0 ELSE f[n - 1] + d[n]
  <2> SUFFICES ASSUME NEW n \in Nat
               PROVE  G(n)[n] = IF n = 0 THEN 0 ELSE f[n - 1] + d[n]
    OBVIOUS
  <2>1. CASE n = 0
    BY <1>1, <2>1 DEF Sums
  <2>2. CASE n # 0
    <3>1. n - 1 \in Nat /\ n - 1 <= n /\ n \in 1..n
      BY <2>2
    <3>2. f[n - 1] = G(n - 1)[n - 1]
      BY <3>1
    <3>3. Sums(G(n), n, d) /\ Sums(G(n - 1), n - 1, d)
      BY <1>1, <3>1
    <3>4. G(n)[n - 1] = G(n - 1)[n - 1]
      BY <3>1, <3>3, SumsAgree
    <3>5. G(n)[n] = G(n)[n - 1] + d[n]
      BY <3>1, <3>3 DEF Sums
    <3> QED
      BY <2>2, <3>2, <3>4, <3>5
  <2> QED
    BY <2>1, <2>2
<1> HIDE DEF f
<1>5. f = [i \in Nat |-> IF i = 0 THEN 0 ELSE f[i - 1] + d[i]]
  BY <1>3, <1>4
<1> QED
  BY <1>3, <1>5

\* A decode step takes a number of ticks.
LEMMA DecodeTimed ==
    ASSUME NEW hw \in HardwareType, NEW m \in ModelType, NEW c \in Nat
    PROVE  DecodeTime(hw, m, c) \in Nat
<1>1. PairFlops(m) \in Nat /\ TokenFlops(m) \in Nat /\ WeightBytes(m) \in Nat /\ KVBytesPerToken(m) \in Nat
  BY ModelCosts
<1>2. DecodeFlops(m, c) \in Nat
  BY <1>1 DEF DecodeFlops, DecodeAttentionFlops
<1>3. DecodeBytes(m, c) \in Nat
  BY <1>1 DEF DecodeBytes, KVBytes
<1> QED
  BY <1>2, <1>3, RooflineMonotone DEF DecodeTime

\* The estimate of the decode grows by the step of the token before the last.
LEMMA EstimateGrows ==
    ASSUME NEW hw \in HardwareType, NEW m \in ModelType, NEW n \in Nat, NEW g \in Nat \ {0}
    PROVE  /\ EstimateDecode(hw, m, n, g) \in Nat
           /\ EstimateDecode(hw, m, n, 1) = 0
           /\ EstimateDecode(hw, m, n, g + 1)
                  = EstimateDecode(hw, m, n, g) + DecodeTime(hw, m, n + g)
<1> DEFINE d == [i \in Nat |-> DecodeTime(hw, m, n + i)]
           Rec(f) == f = [i \in Nat |-> IF i = 0 THEN 0 ELSE f[i - 1] + DecodeTime(hw, m, n + i)]
           steps == CHOOSE f : Rec(f)
<1>1. d \in [Nat -> Nat]
  <2>1. \A i \in Nat : DecodeTime(hw, m, n + i) \in Nat
    BY DecodeTimed
  <2> QED
    BY <2>1
<1>2. PICK f \in [Nat -> Nat] : f = [i \in Nat |-> IF i = 0 THEN 0 ELSE f[i - 1] + d[i]]
  BY <1>1, RunningSum
<1>3. Rec(f)
  <2>1. \A i \in Nat : d[i] = DecodeTime(hw, m, n + i)
    OBVIOUS
  <2> HIDE DEF d
  <2> QED
    BY <1>2, <2>1
<1>4. Rec(steps)
  BY <1>3, Zenon
<1>5. \A o \in Nat : EstimateDecode(hw, m, n, o) = IF o <= 1 THEN 0 ELSE steps[o - 1]
  BY DEF EstimateDecode
<1> HIDE DEF steps
<1>6. /\ steps[0] = 0
      /\ \A i \in Nat \ {0} : steps[i] = steps[i - 1] + DecodeTime(hw, m, n + i)
  BY <1>4
<1>7. \A i \in Nat : steps[i] \in Nat
  <2> DEFINE bad == {i \in Nat : steps[i] \notin Nat}
  <2>1. bad = {}
    <3> SUFFICES ASSUME bad # {}
                 PROVE  FALSE
      OBVIOUS
    <3>1. bad \subseteq Nat
      OBVIOUS
    <3>2. PICK i \in bad : \A j \in bad : i <= j
      BY <3>1, LeastExists
    <3>3. i \in Nat \ {0} /\ steps[i] \notin Nat
      BY <1>6
    <3>4. i - 1 \in Nat /\ steps[i - 1] \in Nat
      BY <3>2, <3>3
    <3>5. DecodeTime(hw, m, n + i) \in Nat
      BY <3>3, DecodeTimed
    <3> QED
      BY <1>6, <3>3, <3>4, <3>5
  <2> QED
    BY <2>1
<1>8. EstimateDecode(hw, m, n, g) = steps[g - 1]
  BY <1>5, <1>6
<1>9. EstimateDecode(hw, m, n, g + 1) = steps[g]
  BY <1>5
<1>10. g - 1 \in Nat
  OBVIOUS
<1> QED
  BY <1>5, <1>6, <1>7, <1>8, <1>9, <1>10

\* What the server slept for the tokens it has generated: a step for the first,
\* and what the calculator estimates for the others; and for the prefill.
SleepInv ==
    LET hw == Hardware(cfg)
        m == Model(cfg)
        n == Len(Tokens(req.text))
    IN  /\ req.generated \in Nat
        /\ req.pc = "idle" => req.generated = 0
        /\ req.pc # "idle" =>
              /\ req.hit = n => req.prefill = 0
              /\ Roof(cfg) /\ cfg.tp = 1 /\ cfg.pp = 1 =>
                     req.decode = IF req.generated = 0 THEN 0
                                  ELSE DecodeTime(hw, m, n)
                                           + EstimateDecode(hw, m, n, req.generated)

\* One GPU communicates with none: its latencies are the roofline alone.
LEMMA Alone ==
    ASSUME NEW c \in Configs, Roof(c), c.tp = 1, c.pp = 1
    PROVE  /\ \A k \in Nat, h \in Nat :
                  PrefillLatency(c, k, h) = PrefillTime(Hardware(c), Model(c), k, h)
           /\ \A n \in Nat : DecodeLatency(c, n) = DecodeTime(Hardware(c), Model(c), n)
<1>1. /\ \A k : AllReduceTime(c, k) = 0
      /\ \A k : PipelineTime(c, k) = 0
  BY DEF AllReduceTime, PipelineTime
<1>2. Model(c) \in ModelType /\ Hardware(c) \in HardwareType
  BY ConfigTyped
<1>3. \A n \in Nat : DecodeTime(Hardware(c), Model(c), n) \in Nat
  BY <1>2, DecodeTimed
<1>4. ASSUME NEW k \in Nat, NEW h \in Nat
      PROVE  PrefillTime(Hardware(c), Model(c), k, h) \in Nat
  <2>1. PrefillFlops(Model(c), k, h) \in Nat /\ PrefillBytes(Model(c), k, h) \in Nat
    BY <1>2, FlopsAdd, BytesAdd
  <2> QED
    BY <1>2, <2>1, RooflineMonotone DEF PrefillTime
<1>5. \A k \in Nat, h \in Nat :
          PrefillLatency(c, k, h) = PrefillTime(Hardware(c), Model(c), k, h)
  <2> SUFFICES ASSUME NEW k \in Nat, NEW h \in Nat
               PROVE  PrefillLatency(c, k, h) = PrefillTime(Hardware(c), Model(c), k, h)
    OBVIOUS
  <2>1. PrefillLatency(c, k, h) = PrefillTime(Hardware(c), Model(c), k, h) + 0 + 0
    BY <1>1 DEF PrefillLatency, RooflinePrefill
  <2> QED
    BY <1>4, <2>1
<1>6. \A n \in Nat : DecodeLatency(c, n) = DecodeTime(Hardware(c), Model(c), n)
  <2> SUFFICES ASSUME NEW n \in Nat
               PROVE  DecodeLatency(c, n) = DecodeTime(Hardware(c), Model(c), n)
    OBVIOUS
  <2>1. DecodeLatency(c, n) = DecodeTime(Hardware(c), Model(c), n) + 0 + 0
    BY <1>1 DEF DecodeLatency, RooflineDecode
  <2> QED
    BY <1>3, <2>1
<1> QED
  BY <1>5, <1>6

\* A step that leaves the request's sleeps alone keeps them accounted for.
LEMMA SleepKept ==
    ASSUME SleepInv, req.pc # "idle", req'.pc # "idle", cfg' = cfg,
           req'.text = req.text, req'.hit = req.hit, req'.prefill = req.prefill,
           req'.decode = req.decode, req'.generated = req.generated
    PROVE  SleepInv'
<1>1. Hardware(cfg)' = Hardware(cfg) /\ Model(cfg)' = Model(cfg) /\ Roof(cfg)' = Roof(cfg)
  BY DEF Hardware, Model, Roof
<1> QED
  BY <1>1 DEF SleepInv

\* Every step keeps the sleeps accounted for.
LEMMA SleepStep == CostInv /\ SleepInv /\ [Next]_vars => SleepInv'
<1> SUFFICES ASSUME CostInv, SleepInv, [Next]_vars
             PROVE  SleepInv'
  OBVIOUS
<1> DEFINE hw == Hardware(cfg)
           m == Model(cfg)
<1>1. cfg \in Configs /\ hw \in HardwareType /\ m \in ModelType
  BY ConfigTyped DEF CostInv
<1>2. ASSUME cfg' = cfg
      PROVE  Hardware(cfg)' = hw /\ Model(cfg)' = m /\ Roof(cfg)' = Roof(cfg)
  BY <1>2 DEF Hardware, Model, Roof
<1> HIDE DEF hw, m
<1>3. ASSUME NEW text \in Texts, Lookup(text)
      PROVE  SleepInv'
  <2> DEFINE n == Len(Tokens(text))
             hit == FindPrefixMatch(Tokens(text), cached)
  <2>1. n \in Nat /\ hit \in 0..n /\ cfg' = cfg
    BY <1>3, HitBounded DEF Lookup
  <2>2. CASE n - hit = 0
    <3>1. req' = [Idle EXCEPT !.pc = "decode", !.text = text, !.hit = hit]
      BY <1>3, <2>2 DEF Lookup
    <3>2. req'.pc # "idle" /\ req'.prefill = 0 /\ req'.decode = 0 /\ req'.generated = 0
      BY <3>1 DEF Idle
    <3> QED
      BY <3>2 DEF SleepInv
  <2>3. CASE n - hit > 0
    <3>1. req' = [Idle EXCEPT
                     !.pc = "prefill",
                     !.text = text,
                     !.hit = hit,
                     !.flops = PrefillFlops(Model(cfg), n - hit, hit),
                     !.bytes = PrefillBytes(Model(cfg), n - hit, hit),
                     !.prefill = PrefillLatency(cfg, n - hit, hit)]
      BY <1>3, <2>3 DEF Lookup
    <3>2. /\ req'.pc # "idle" /\ req'.text = text /\ req'.hit = hit
          /\ req'.decode = 0 /\ req'.generated = 0
      BY <3>1 DEF Idle
    <3>3. Len(Tokens(req'.text)) # req'.hit
      BY <2>1, <2>3, <3>2
    <3> QED
      BY <3>2, <3>3 DEF SleepInv
  <2> QED
    BY <1>3, <2>1, <2>2, <2>3 DEF Lookup
<1>4. CASE Store
  <2>1. req.pc # "idle" /\ cfg' = cfg /\ req' = [req EXCEPT !.pc = "decode"]
    BY <1>4 DEF Store
  <2> QED
    BY <2>1, SleepKept DEF CostInv, Fields
<1>5. CASE Decode
  <2> DEFINE n == Len(Tokens(req.text))
             g == req.generated
             slept == req.decode + DecodeLatency(cfg, n + g)
             more == req.generated + 1
  <2>1. /\ req.pc = "decode" /\ cfg' = cfg
        /\ req' = [req EXCEPT !.generated = more, !.decode = slept]
    BY <1>5 DEF Decode
  <2> HIDE DEF slept, more
  <2>2. /\ req'.pc = "decode" /\ req'.text = req.text /\ req'.hit = req.hit
        /\ req'.prefill = req.prefill /\ req'.generated = more /\ req'.decode = slept
    BY <2>1 DEF CostInv, Fields
  <2>3. n \in Nat /\ g \in Nat /\ more = g + 1 /\ more \in Nat /\ more # 0 /\ more = req.generated + 1
    BY <2>1 DEF CostInv, Charged, SleepInv, more
  <2>4. req.hit = n => req.prefill = 0
    BY <2>1 DEF SleepInv
  <2>5. ASSUME Roof(cfg), cfg.tp = 1, cfg.pp = 1
        PROVE  slept = DecodeTime(hw, m, n) + EstimateDecode(hw, m, n, more)
    <3>1. req.decode = IF g = 0 THEN 0
                       ELSE DecodeTime(hw, m, n) + EstimateDecode(hw, m, n, g)
      BY <2>1, <2>5, Zenon DEF SleepInv, hw, m
    <3>2. slept = req.decode + DecodeTime(hw, m, n + g)
      <4>1. DecodeLatency(cfg, n + g) = DecodeTime(hw, m, n + g)
        <5>1. n + g \in Nat
          BY <2>3
        <5> QED
          BY <1>1, <2>5, <5>1, Alone DEF hw, m
      <4> QED
        BY <4>1 DEF slept
    <3> HIDE DEF n, g
    <3>3. DecodeTime(hw, m, n) \in Nat /\ DecodeTime(hw, m, n + g) \in Nat
      BY <1>1, <2>3, DecodeTimed
    <3>4. CASE g = 0
      <4>1. EstimateDecode(hw, m, n, more) = 0
        <5>1. EstimateDecode(hw, m, n, 1) = 0
          BY <1>1, <2>3, EstimateGrows
        <5>2. more = 1
          BY <2>3, <3>4
        <5> QED
          BY <5>1, <5>2
      <4>2. slept = DecodeTime(hw, m, n)
        <5>1. n + g = n /\ req.decode = 0
          BY <2>3, <3>1, <3>4
        <5> QED
          BY <3>2, <3>3, <5>1
      <4> QED
        BY <3>3, <4>1, <4>2
    <3>5. CASE g # 0
      <4>1. /\ EstimateDecode(hw, m, n, g) \in Nat
            /\ EstimateDecode(hw, m, n, more)
                   = EstimateDecode(hw, m, n, g) + DecodeTime(hw, m, n + g)
        <5>1. g \in Nat \ {0} /\ n \in Nat
          BY <2>3, <3>5
        <5>2. /\ EstimateDecode(hw, m, n, g) \in Nat
              /\ EstimateDecode(hw, m, n, g + 1)
                     = EstimateDecode(hw, m, n, g) + DecodeTime(hw, m, n + g)
          BY <1>1, <5>1, EstimateGrows
        <5> QED
          BY <2>3, <5>2
      <4> QED
        BY <3>1, <3>2, <3>3, <3>5, <4>1
    <3> QED
      BY <3>4, <3>5
  <2>6. Hardware(cfg)' = hw /\ Model(cfg)' = m /\ Roof(cfg)' = Roof(cfg)
    BY <1>2, <2>1
  <2> HIDE DEF n, g
  <2>7. /\ Len(Tokens(req.text))' = n
        /\ req'.pc # "idle" /\ req'.generated \in Nat /\ req'.generated # 0
        /\ req'.hit = n => req'.prefill = 0
        /\ Roof(cfg) /\ cfg'.tp = 1 /\ cfg'.pp = 1
               => req'.decode = DecodeTime(hw, m, n) + EstimateDecode(hw, m, n, req'.generated)
    BY <2>1, <2>2, <2>3, <2>4, <2>5 DEF n
  <2> QED
    BY <2>6, <2>7 DEF SleepInv
<1>6. CASE Reply
  <2>1. req' = Idle
    BY <1>6 DEF Reply
  <2>2. req'.pc = "idle" /\ req'.generated = 0
    BY <2>1 DEF Idle
  <2> QED
    BY <2>2 DEF SleepInv
<1>7. CASE StoreElsewhere \/ Evict \/ UNCHANGED vars
  <2>1. req' = req /\ cfg' = cfg
    BY <1>7 DEF StoreElsewhere, Evict, vars
  <2>2. Hardware(cfg)' = Hardware(cfg) /\ Model(cfg)' = Model(cfg) /\ Roof(cfg)' = Roof(cfg)
    BY <2>1 DEF Hardware, Model, Roof
  <2> QED
    BY <2>1, <2>2 DEF SleepInv
<1> QED
  BY <1>3, <1>4, <1>5, <1>6, <1>7 DEF Next

\* What the server slept is what the calculator estimates.
LEMMA SleepsAddUp == CostInv /\ SleepInv => ServedIsEstimate
<1> DEFINE hw == Hardware(cfg)
           m == Model(cfg)
           g == req.generated
           h == req.hit
<1> SUFFICES ASSUME CostInv, SleepInv, Roof(cfg), cfg.tp = 1, cfg.pp = 1, g > 0
             PROVE  req.prefill + req.decode =
                        EstimateTotal(hw, m, Prompt, g, h)
                            + IF h < Prompt THEN DecodeTime(hw, m, Prompt) ELSE 0
  BY DEF ServedIsEstimate
<1>1. cfg \in Configs /\ hw \in HardwareType /\ m \in ModelType
  BY ConfigTyped DEF CostInv
<1>2. g \in Nat \ {0} /\ req.pc # "idle"
  BY DEF SleepInv
<1>3. Prompt \in Nat /\ h \in 0..Prompt
  BY <1>2 DEF CostInv, Charged, Prompt
<1>4. /\ h = Prompt => req.prefill = 0
      /\ req.decode = DecodeTime(hw, m, Prompt) + EstimateDecode(hw, m, Prompt, g)
  BY <1>2 DEF SleepInv, Prompt
<1>5. h < Prompt => req.prefill = PrefillLatency(cfg, Prompt - h, h)
  BY <1>2 DEF CostInv, Charged, Prompt
<1> HIDE DEF g, h
<1>6. h < Prompt => req.prefill = PrefillTime(hw, m, Prompt - h, h)
  <2> SUFFICES ASSUME h < Prompt
               PROVE  PrefillLatency(cfg, Prompt - h, h) = PrefillTime(hw, m, Prompt - h, h)
    BY <1>5
  <2>1. Prompt - h \in Nat /\ h \in Nat
    BY <1>3
  <2> QED
    BY <1>1, <2>1, Alone
<1> HIDE DEF hw, m
<1>7. DecodeTime(hw, m, Prompt) \in Nat /\ EstimateDecode(hw, m, Prompt, g) \in Nat
  BY <1>1, <1>2, <1>3, DecodeTimed, EstimateGrows
<1>8. CASE h < Prompt
  <2>1. EstimateTTFT(hw, m, Prompt, h) = PrefillTime(hw, m, Prompt - h, h)
    <3>1. Prompt - h > 0 /\ Prompt > h /\ Prompt - (Prompt - h) = h
      BY <1>3, <1>8
    <3> QED
      BY <3>1 DEF EstimateTTFT
  <2>2. PrefillTime(hw, m, Prompt - h, h) \in Nat
    <3>1. Prompt - h \in Nat /\ h \in Nat
      BY <1>3, <1>8
    <3>2. /\ PrefillFlops(m, Prompt - h, h) \in Nat
          /\ PrefillBytes(m, Prompt - h, h) \in Nat
      BY <1>1, <3>1, FlopsAdd, BytesAdd
    <3> QED
      BY <1>1, <3>2, RooflineMonotone DEF PrefillTime
  <2> QED
    BY <1>4, <1>6, <1>7, <1>8, <2>1, <2>2 DEF EstimateTotal
<1>9. CASE h = Prompt
  <2>1. EstimateTTFT(hw, m, Prompt, h) = DecodeTime(hw, m, Prompt)
    BY <1>3, <1>9 DEF EstimateTTFT
  <2>2. ~(h < Prompt)
    BY <1>3, <1>9
  <2> QED
    BY <1>4, <1>7, <1>9, <2>1, <2>2 DEF EstimateTotal
<1> QED
  BY <1>3, <1>8, <1>9

\* The server sleeps what the calculator estimates, and a decode step more for the
\* first token of a prompt it had to prefill (servers/combined.py:330,
\* core/latency.py:495), for every model, GPU, prompt, hit and number of tokens.
THEOREM ServesEstimate == Spec => []ServedIsEstimate
<1>1. Spec => []CostInv
  BY InitCharged, NextCharged, PTL DEF Spec
<1>2. Init => SleepInv
  BY DEF Init, Idle, SleepInv
<1> QED
  BY <1>1, <1>2, SleepStep, SleepsAddUp, PTL DEF Spec

-----------------------------------------------------------------------------
(* Keys *)

\* Where the parts of a key are: behind the model name's own parts.
LEMMA KeyParts ==
    ASSUME NEW model \in Seq(STRING), NEW hash, NEW worker, NEW first, NEW last, NEW suffix,
           NEW key, key = MakeKey(model, hash, worker, first, last, suffix)
    PROVE  /\ Len(key) = Len(model) + 6
           /\ \A i \in 1..Len(model) : key[i + 1] = model[i]
           /\ key[Len(model) + 2] = WorldSize
           /\ key[Len(model) + 3] = worker
           /\ key[Len(model) + 4] = <<first, LastLayer(first, last)>>
           /\ key[Len(model) + 5] = hash
           /\ key[Len(model) + 6] = suffix
<1> DEFINE tail == <<WorldSize, worker, <<first, LastLayer(first, last)>>, hash, suffix>>
           part == STRING \cup {"lmcache", WorldSize, worker, <<first, LastLayer(first, last)>>, hash, suffix}
           head == <<"lmcache">> \o model
           n == Len(model)
<1>1. /\ <<"lmcache">> \in Seq(part) /\ Len(<<"lmcache">>) = 1
      /\ tail \in Seq(part) /\ Len(tail) = 5
      /\ tail[1] = WorldSize /\ tail[2] = worker /\ tail[3] = <<first, LastLayer(first, last)>>
      /\ tail[4] = hash /\ tail[5] = suffix
  <2>1. /\ "lmcache" \in part
        /\ WorldSize \in part /\ worker \in part /\ <<first, LastLayer(first, last)>> \in part
        /\ hash \in part /\ suffix \in part
    BY Zenon
  <2> HIDE DEF part
  <2>2. <<"lmcache">> \in Seq(part) /\ Len(<<"lmcache">>) = 1
    BY <2>1
  <2> DEFINE range == <<first, LastLayer(first, last)>>
  <2>3. range \in part
    BY <2>1
  <2> HIDE DEF range
  <2>4. /\ <<WorldSize, worker, range, hash, suffix>> \in Seq(part)
        /\ Len(<<WorldSize, worker, range, hash, suffix>>) = 5
    BY <2>1, <2>3
  <2>5. /\ tail \in Seq(part) /\ Len(tail) = 5
    BY <2>4 DEF range
  <2>6. /\ tail[1] = WorldSize /\ tail[2] = worker /\ tail[3] = <<first, LastLayer(first, last)>>
        /\ tail[4] = hash /\ tail[5] = suffix
    OBVIOUS
  <2> QED
    BY <2>2, <2>5, <2>6
<1>2. model \in Seq(part) /\ n \in Nat
  <2>1. STRING \subseteq part
    OBVIOUS
  <2>2. \A i \in 1..n : model[i] \in part
    BY <2>1
  <2> HIDE DEF part
  <2> QED
    BY <2>2
<1>3. MakeKey(model, hash, worker, first, last, suffix) = head \o tail
  BY DEF MakeKey
<1> HIDE DEF part, tail
<1>4. /\ head \in Seq(part)
      /\ Len(head) = 1 + n
      /\ \A i \in 1..(1 + n) : head[i] = IF i <= 1 THEN <<"lmcache">>[i] ELSE model[i - 1]
  BY <1>1, <1>2, ConcatProperties
<1> HIDE DEF head
<1>5. /\ Len(head \o tail) = (1 + n) + 5
      /\ \A i \in 1..((1 + n) + 5) :
             (head \o tail)[i] = IF i <= 1 + n THEN head[i] ELSE tail[i - (1 + n)]
  <2>1. /\ Len(head \o tail) = Len(head) + Len(tail)
        /\ \A i \in 1..(Len(head) + Len(tail)) :
               (head \o tail)[i] = IF i <= Len(head) THEN head[i] ELSE tail[i - Len(head)]
    BY <1>1, <1>4, ConcatProperties, Zenon
  <2> QED
    BY <1>1, <1>4, <2>1, Zenon
<1>6. key = head \o tail
  BY <1>3
<1> HIDE DEF n
<1>7. Len(key) = n + 6
  BY <1>2, <1>5, <1>6
<1>8. ASSUME NEW i \in 1..n PROVE key[i + 1] = model[i]
  <2>1. /\ i + 1 \in 1..((1 + n) + 5) /\ i + 1 <= 1 + n /\ i + 1 \in 1..(1 + n)
        /\ ~(i + 1 <= 1) /\ (i + 1) - 1 = i
    BY <1>2
  <2>2. key[i + 1] = head[i + 1]
    BY <1>5, <1>6, <2>1
  <2> QED
    BY <1>4, <2>1, <2>2
<1>9. ASSUME NEW j \in 1..5 PROVE key[n + 1 + j] = tail[j]
  <2>1. /\ n + 1 + j \in 1..((1 + n) + 5) /\ ~(n + 1 + j <= 1 + n)
        /\ (n + 1 + j) - (1 + n) = j
    BY <1>2
  <2> QED
    BY <1>5, <1>6, <2>1
<1>10. /\ n + 1 + 1 = n + 2 /\ n + 1 + 2 = n + 3 /\ n + 1 + 3 = n + 4
       /\ n + 1 + 4 = n + 5 /\ n + 1 + 5 = n + 6
  BY <1>2
<1>11. /\ key[n + 2] = tail[1] /\ key[n + 3] = tail[2] /\ key[n + 4] = tail[3]
       /\ key[n + 5] = tail[4] /\ key[n + 6] = tail[5]
  BY <1>9, <1>10
<1>12. /\ Len(key) = n + 6
       /\ \A i \in 1..n : key[i + 1] = model[i]
       /\ key[n + 2] = WorldSize /\ key[n + 3] = worker /\ key[n + 4] = <<first, LastLayer(first, last)>>
       /\ key[n + 5] = hash /\ key[n + 6] = suffix
  BY <1>1, <1>7, <1>8, <1>11
<1> QED
  BY <1>12 DEF n

\* A quotient and a remainder are determined.
LEMMA QuotientUnique ==
    ASSUME NEW n \in Nat \ {0}, NEW a \in Nat, NEW b \in Nat,
           NEW d \in 0..(n - 1), NEW e \in 0..(n - 1), n * a + d = n * b + e
    PROVE  a = b /\ d = e
<1>1. ASSUME NEW x \in Nat, NEW y \in Nat, x < y
      PROVE  n * x \in Nat /\ n * y \in Nat /\ n * y >= n * x + n
  <2>1. (y - x) - 1 \in Nat
    BY <1>1
  <2>2. n * ((y - x) - 1) \in Nat
    BY <2>1
  <2>3. n * x \in Nat /\ n * y \in Nat
    OBVIOUS
  <2>4. n * y = n * ((y - x) - 1) + n * x + n
    OBVIOUS
  <2> QED
    BY <2>2, <2>3, <2>4
<1>2. n * a \in Nat /\ n * b \in Nat
  OBVIOUS
<1>3. ~(a < b) /\ ~(b < a)
  BY <1>1, <1>2
<1> QED
  BY <1>2, <1>3

\* A layer is in the shard that starts at the last multiple of its size, and in no other.
LEMMA ShardOfLayer ==
    ASSUME NEW p \in Nat \ {0}, NEW l \in Nat
    PROVE  \E s \in 0..l :
              /\ s % p = 0 /\ l <= s + p - 1
              /\ \A x \in 0..l : x % p = 0 /\ l <= x + p - 1 => x = s
<1>1. \A x \in Nat : \E q \in Nat, r \in 0..(p - 1) : x = p * q + r /\ r = x % p
  <2> TAKE x \in Nat
  <2>1. x \div p \in Nat /\ x % p \in 0..(p - 1) /\ x = p * (x \div p) + (x % p)
    OBVIOUS
  <2> QED
    BY <2>1
<1>2. PICK q \in Nat : \E r \in 0..(p - 1) : l = p * q + r
  BY <1>1
<1>3. PICK r \in 0..(p - 1) : l = p * q + r
  BY <1>2
<1>4. PICK s \in Nat : s = p * q
  OBVIOUS
<1>5. s \in 0..l /\ l <= s + p - 1
  BY <1>3, <1>4
<1>6. s % p = 0
  <2>1. PICK a \in Nat : \E d \in 0..(p - 1) : s = p * a + d /\ d = s % p
    BY <1>1
  <2>2. PICK d \in 0..(p - 1) : s = p * a + d /\ d = s % p
    BY <2>1
  <2>3. p * a + d = p * q + 0 /\ 0 \in 0..(p - 1)
    BY <1>4, <2>2
  <2> QED
    BY <2>2, <2>3, QuotientUnique
<1>7. ASSUME NEW x \in 0..l, x % p = 0, l <= x + p - 1 PROVE x = s
  <2> x \in Nat
    OBVIOUS
  <2>1. PICK a \in Nat : \E d \in 0..(p - 1) : x = p * a + d /\ d = x % p
    BY <1>1, Zenon
  <2>2. x = p * a
    BY <1>7, <2>1
  <2>3. p * a + (l - x) = p * q + r /\ l - x \in 0..(p - 1)
    <3>1. x + (l - x) = l /\ l - x \in 0..(p - 1)
      BY <1>7
    <3> QED
      BY <1>3, <2>2, <3>1
  <2>4. a = q
    BY <2>3, QuotientUnique
  <2> QED
    BY <1>4, <2>2, <2>4
<1> QED
  BY <1>5, <1>6, <1>7

\* The shards of per_shard layers, by their first layer, the last one, and the key.
Shards(p) == {l \in 0..(NumLayers - 1) : l % p = 0}
ShardEnd(s, p) == Least(s + p - 1, NumLayers - 1)
KV == "kv"
ShardKey(model, h, w, s, p) == MakeKey(model, h, w, s, ShardEnd(s, p), KV)

\* A shard has an end.
LEMMA ShardsEnd ==
    ASSUME NEW p \in 1..NumLayers, NEW s \in Shards(p)
    PROVE  LastLayer(s, ShardEnd(s, p)) = ShardEnd(s, p)
<1>1. NumLayers \in Nat \ {0} /\ s \in Nat /\ p \in Nat \ {0}
  BY IndexAssumption DEF Shards
<1>2. ShardEnd(s, p) \in Nat
  BY <1>1 DEF ShardEnd, Least
<1> QED
  BY <1>2 DEF LastLayer, NoEnd

\* The keys of a chunk are those of its workers and shards.
LEMMA KeysAre ==
    ASSUME NEW model, NEW h, NEW p
    PROVE  /\ \A k \in KeysOf(model, h, p) :
                  \E w \in 0..(WorldSize - 1), s \in Shards(p) : k = ShardKey(model, h, w, s, p)
           /\ \A w \in 0..(WorldSize - 1), s \in Shards(p) :
                  ShardKey(model, h, w, s, p) \in KeysOf(model, h, p)
<1>1. \A w : MakeKeysForLayers(model, h, w, p) = {ShardKey(model, h, w, s, p) : s \in Shards(p)}
  BY Zenon DEF MakeKeysForLayers, Shards, ShardKey, ShardEnd, KV
<1>2. ASSUME NEW k \in KeysOf(model, h, p)
      PROVE  \E w \in 0..(WorldSize - 1), s \in Shards(p) : k = ShardKey(model, h, w, s, p)
  <2>1. PICK w \in 0..(WorldSize - 1) : k \in MakeKeysForLayers(model, h, w, p)
    BY Zenon DEF KeysOf
  <2>2. k \in {ShardKey(model, h, w, s, p) : s \in Shards(p)}
    BY <1>1, <2>1, Zenon
  <2> QED
    BY <2>2, Zenon
<1>3. ASSUME NEW w \in 0..(WorldSize - 1), NEW s \in Shards(p)
      PROVE  ShardKey(model, h, w, s, p) \in KeysOf(model, h, p)
  <2>1. ShardKey(model, h, w, s, p) \in MakeKeysForLayers(model, h, w, p)
    BY <1>1, Zenon
  <2> QED
    BY <2>1, Zenon DEF KeysOf
<1> QED
  BY <1>2, <1>3, Zenon

\* Keys per worker and keys per shard are the same keys.
LEMMA KeysPerWorker ==
    ASSUME NEW model \in Seq(STRING), NEW h, NEW p \in 1..NumLayers
    PROVE  KeysOf(model, h, p) =
               UNION {MakeKeysForAllWorkers(model, h, k[Len(model) + 4][1], k[Len(model) + 4][2]) :
                          k \in KeysOf(model, h, p)}
<1> DEFINE keys == KeysOf(model, h, p)
           all(k) == MakeKeysForAllWorkers(model, h, k[Len(model) + 4][1], k[Len(model) + 4][2])
<1>1. ASSUME NEW w \in 0..(WorldSize - 1), NEW s \in Shards(p)
      PROVE  all(ShardKey(model, h, w, s, p)) =
                 {ShardKey(model, h, v, s, p) : v \in 0..(WorldSize - 1)}
  <2> DEFINE k == ShardKey(model, h, w, s, p)
  <2>1. k[Len(model) + 4] = <<s, ShardEnd(s, p)>>
    BY KeyParts, ShardsEnd DEF ShardKey
  <2>2. k[Len(model) + 4][1] = s /\ k[Len(model) + 4][2] = ShardEnd(s, p)
    BY <2>1
  <2> HIDE DEF k
  <2>3. all(k) = MakeKeysForAllWorkers(model, h, s, ShardEnd(s, p))
    BY <2>2, Zenon
  <2>4. all(k) = {ShardKey(model, h, v, s, p) : v \in 0..(WorldSize - 1)}
    BY <2>3, Zenon DEF MakeKeysForAllWorkers, ShardKey, KV
  <2> QED
    BY <2>4, Zenon DEF k
<1> HIDE DEF all
<1>2. ASSUME NEW k \in keys PROVE \E j \in keys : k \in all(j)
  <2>1. PICK w \in 0..(WorldSize - 1), s \in Shards(p) : k = ShardKey(model, h, w, s, p)
    BY KeysAre, Zenon
  <2>2. k \in all(k)
    BY <1>1, <2>1, Zenon
  <2> QED
    BY <2>2, Zenon
<1>3. ASSUME NEW j \in keys, NEW k \in all(j) PROVE k \in keys
  <2>1. PICK w \in 0..(WorldSize - 1), s \in Shards(p) : j = ShardKey(model, h, w, s, p)
    BY KeysAre, Zenon
  <2>2. PICK v \in 0..(WorldSize - 1) : k = ShardKey(model, h, v, s, p)
    BY <1>1, <2>1, Zenon
  <2> QED
    BY <2>2, KeysAre, Zenon
<1> HIDE DEF keys
<1>4. keys = UNION {all(k) : k \in keys}
  BY <1>2, <1>3, Zenon
<1> QED
  BY <1>4, Zenon DEF keys, all

\* A key has one model, one chunk and one suffix.
LEMMA KeyDetermines ==
    ASSUME NEW model \in Seq(STRING), NEW hash, NEW w, NEW first, NEW last, NEW suffix,
           NEW other \in Seq(STRING), NEW hash2, NEW w2, NEW first2, NEW last2, NEW suffix2,
           MakeKey(model, hash, w, first, last, suffix) =
               MakeKey(other, hash2, w2, first2, last2, suffix2)
    PROVE  model = other /\ hash = hash2 /\ suffix = suffix2
<1> DEFINE key == MakeKey(model, hash, w, first, last, suffix)
           n == Len(model)
<1>1. key = MakeKey(other, hash2, w2, first2, last2, suffix2)
  OBVIOUS
<1>2. /\ Len(key) = n + 6
      /\ \A i \in 1..n : key[i + 1] = model[i]
      /\ key[n + 5] = hash /\ key[n + 6] = suffix
  BY KeyParts
<1> HIDE DEF key
<1>3. /\ Len(key) = Len(other) + 6
      /\ \A i \in 1..Len(other) : key[i + 1] = other[i]
      /\ key[Len(other) + 5] = hash2 /\ key[Len(other) + 6] = suffix2
  BY <1>1, KeyParts
<1>4. n \in Nat /\ Len(other) \in Nat
  OBVIOUS
<1>5. Len(other) = n
  <2> HIDE DEF n
  <2> QED
    BY <1>2, <1>3, <1>4
<1>6. \A i \in 1..Len(model) : model[i] = other[i]
  BY <1>2, <1>3, <1>5, Zenon
<1>7. model = other
  BY <1>5, <1>6, SeqEqual
<1>8. hash = hash2 /\ suffix = suffix2
  BY <1>2, <1>3, <1>5, Zenon
<1> QED
  BY <1>7, <1>8

\* No key is that of another chunk, of another model or of metadata.
LEMMA KeysApart ==
    ASSUME NEW model \in Seq(STRING), NEW h, NEW p, NEW other \in Seq(STRING), NEW g
    PROVE  /\ \A w \in 0..(WorldSize - 1) : MakeMetadataKey(other, g, w) \notin KeysOf(model, h, p)
           /\ other # model \/ g # h =>
                  \A q \in 1..NumLayers : KeysOf(model, h, p) \cap KeysOf(other, g, q) = {}
<1>1. ASSUME NEW w, MakeMetadataKey(other, g, w) \in KeysOf(model, h, p)
      PROVE  FALSE
  <2> DEFINE meta == "meta"
  <2>1. PICK v \in 0..(WorldSize - 1), s \in Shards(p) :
            MakeMetadataKey(other, g, w) = ShardKey(model, h, v, s, p)
    BY <1>1, KeysAre, Zenon
  <2>2. MakeKey(other, g, w, 0, NoEnd, meta) = MakeKey(model, h, v, s, ShardEnd(s, p), KV)
    BY <2>1, Zenon DEF MakeMetadataKey, ShardKey
  <2>3. meta # KV
    BY DEF KV
  <2> HIDE DEF meta
  <2>4. meta = KV
    BY <2>2, KeyDetermines
  <2> QED
    BY <2>3, <2>4
<1>2. ASSUME NEW q \in 1..NumLayers, NEW k \in KeysOf(model, h, p), k \in KeysOf(other, g, q)
      PROVE  other = model /\ g = h
  <2>1. PICK v \in 0..(WorldSize - 1), s \in Shards(p) : k = ShardKey(model, h, v, s, p)
    BY KeysAre, Zenon
  <2>2. PICK w \in 0..(WorldSize - 1), x \in Shards(q) : k = ShardKey(other, g, w, x, q)
    BY <1>2, KeysAre, Zenon
  <2>3. MakeKey(other, g, w, x, ShardEnd(x, q), KV) = MakeKey(model, h, v, s, ShardEnd(s, p), KV)
    BY <2>1, <2>2, Zenon DEF ShardKey
  <2> QED
    BY <2>3, KeyDetermines
<1> QED
  BY <1>1, <1>2, Zenon

\* A parsed key gives back its parts, unless the model name has an "@".
LEMMA ParseBack ==
    ASSUME NEW model \in Seq(STRING), Len(model) > 0, NEW h, NEW w, NEW s, NEW e,
           NEW suffix, NEW k, k = MakeKey(model, h, w, s, e, suffix)
    PROVE  /\ ParseKey(k) = Malformed <=> Len(model) > 1
           /\ Len(model) = 1 =>
                 /\ ParseKey(k).chunk_hash = h
                 /\ ParseKey(k).model = model[1]
                 /\ ParseKey(k).world_size = WorldSize
                 /\ ParseKey(k).worker_id = w
                 /\ ParseKey(k).layer_start = s
                 /\ ParseKey(k).layer_end = LastLayer(s, e)
<1>1. Len(model) \in Nat
  OBVIOUS
<1>2. /\ Len(k) = Len(model) + 6
      /\ \A i \in 1..Len(model) : k[i + 1] = model[i]
      /\ k[Len(model) + 2] = WorldSize /\ k[Len(model) + 3] = w
      /\ k[Len(model) + 4] = <<s, LastLayer(s, e)>> /\ k[Len(model) + 5] = h
  BY KeyParts
<1>3. CASE Len(model) > 1
  <2>1. Len(k) # 7 /\ Len(model) # 1
    BY <1>1, <1>2, <1>3
  <2>2. ParseKey(k) = Malformed
    BY <2>1, Zenon DEF ParseKey
  <2> QED
    BY <1>3, <2>1, <2>2, Zenon
<1>4. CASE Len(model) = 1
  <2>1. /\ Len(k) = 7 /\ k[2] = model[1] /\ k[3] = WorldSize /\ k[4] = w
        /\ k[5] = <<s, LastLayer(s, e)>> /\ k[6] = h /\ ~(Len(model) > 1)
    BY <1>2, <1>4
  <2>2. k[5][1] = s /\ k[5][2] = LastLayer(s, e)
    BY <2>1
  <2>3. ParseKey(k) = [suffix |-> k[7], model |-> model[1], world_size |-> WorldSize,
                       worker_id |-> w, layer_start |-> s, layer_end |-> LastLayer(s, e), chunk_hash |-> h]
    BY <2>1, <2>2, Zenon DEF ParseKey
  <2>4. /\ ParseKey(k).chunk_hash = h /\ ParseKey(k).model = model[1]
        /\ ParseKey(k).world_size = WorldSize /\ ParseKey(k).worker_id = w
        /\ ParseKey(k).layer_start = s /\ ParseKey(k).layer_end = LastLayer(s, e)
    BY <2>3
  <2>5. DOMAIN ParseKey(k) # DOMAIN Malformed
    <3>1. DOMAIN Malformed = {"error"}
      BY DEF Malformed
    <3>2. "suffix" \in DOMAIN ParseKey(k)
      BY <2>3
    <3>3. "suffix" # "error"
      OBVIOUS
    <3> QED
      BY <3>1, <3>2, <3>3, Zenon
  <2>6. ParseKey(k) # Malformed
    BY <2>5, Zenon
  <2> QED
    BY <2>1, <2>4, <2>6, Zenon
<1>5. Len(model) > 1 \/ Len(model) = 1
  <2> DEFINE n == Len(model)
  <2>1. n \in Nat /\ n > 0
    BY <1>1, Zenon
  <2> HIDE DEF n
  <2>2. n > 1 \/ n = 1
    BY <2>1
  <2> QED
    BY <2>2 DEF n
<1> QED
  BY <1>3, <1>4, <1>5, Zenon

\* Of the keys of a chunk exactly one covers a layer of a worker.
LEMMA OneShardCovers ==
    ASSUME NEW model \in Seq(STRING), Len(model) = 1, NEW h, NEW p \in 1..NumLayers,
           NEW w \in 0..(WorldSize - 1), NEW l \in 0..(NumLayers - 1)
    PROVE  Cardinality({k \in KeysOf(model, h, p) : /\ ParseKey(k).worker_id = w
                                                   /\ l \in LayersOf(ParseKey(k))}) = 1
<1> DEFINE keys == KeysOf(model, h, p)
           covers == {k \in keys : /\ ParseKey(k).worker_id = w
                                   /\ l \in LayersOf(ParseKey(k))}
<1>1. p \in Nat \ {0} /\ l \in Nat /\ NumLayers \in Nat \ {0}
  BY IndexAssumption
<1>2. PICK s \in 0..l :
          /\ s % p = 0 /\ l <= s + p - 1
          /\ \A x \in 0..l : x % p = 0 /\ l <= x + p - 1 => x = s
  BY <1>1, ShardOfLayer
<1>3. s \in Shards(p)
  BY <1>1, <1>2 DEF Shards
<1>4. \A x \in Shards(p) : x \in Nat /\ x % p = 0
  BY <1>1 DEF Shards
<1>5. \A x \in Shards(p) : l \in x..ShardEnd(x, p) <=> x <= l /\ l <= x + p - 1
  BY <1>1, <1>4 DEF ShardEnd, Least
<1>6. \A x \in Shards(p) : l \in x..ShardEnd(x, p) <=> x = s
  <2> TAKE x \in Shards(p)
  <2>1. x <= l => x \in 0..l
    BY <1>1, <1>4
  <2> QED
    BY <1>2, <1>3, <1>4, <1>5, <2>1
<1>7. ASSUME NEW v \in 0..(WorldSize - 1), NEW x \in Shards(p)
      PROVE  /\ ParseKey(ShardKey(model, h, v, x, p)).worker_id = v
             /\ LayersOf(ParseKey(ShardKey(model, h, v, x, p))) = x..ShardEnd(x, p)
  <2>1. Len(model) > 0
    OBVIOUS
  <2>2. /\ ParseKey(ShardKey(model, h, v, x, p)).worker_id = v
        /\ ParseKey(ShardKey(model, h, v, x, p)).layer_start = x
        /\ ParseKey(ShardKey(model, h, v, x, p)).layer_end = ShardEnd(x, p)
    <3> DEFINE k == ShardKey(model, h, v, x, p)
    <3>1. k = MakeKey(model, h, v, x, ShardEnd(x, p), KV)
      BY Zenon DEF ShardKey
    <3> HIDE DEF k
    <3>2. /\ ParseKey(k).worker_id = v
          /\ ParseKey(k).layer_start = x
          /\ ParseKey(k).layer_end = LastLayer(x, ShardEnd(x, p))
      BY <2>1, <3>1, ParseBack
    <3>3. LastLayer(x, ShardEnd(x, p)) = ShardEnd(x, p)
      BY ShardsEnd
    <3> QED
      BY <3>2, <3>3, Zenon DEF k
  <2> QED
    BY <2>2, Zenon DEF LayersOf
<1> DEFINE key == ShardKey(model, h, w, s, p)
<1>8. key \in covers
  <2>1. key \in keys
    BY <1>3, KeysAre, Zenon
  <2>2. ParseKey(key).worker_id = w /\ l \in LayersOf(ParseKey(key))
    BY <1>3, <1>6, <1>7, Zenon
  <2> QED
    BY <2>1, <2>2, Zenon
<1>9. ASSUME NEW k \in covers PROVE k = key
  <2>1. k \in keys /\ ParseKey(k).worker_id = w /\ l \in LayersOf(ParseKey(k))
    BY Zenon
  <2>2. PICK v \in 0..(WorldSize - 1), x \in Shards(p) : k = ShardKey(model, h, v, x, p)
    BY <2>1, KeysAre, Zenon
  <2>3. v = w /\ x = s
    BY <1>6, <1>7, <2>1, <2>2, Zenon
  <2> QED
    BY <2>2, <2>3, Zenon
<1> HIDE DEF covers, key
<1>10. covers = {key}
  BY <1>8, <1>9, Zenon
<1>11. Cardinality(covers) = 1
  BY <1>10, FS_Singleton, Zenon
<1> QED
  BY <1>11, Zenon DEF covers

\* Two keys of the index, of whatever models and sizes of shards, are equal only for
\* the same chunk of the same model and never those of its metadata; the shards of a
\* chunk cover each layer of each worker once; and parse_key gives back what make_key
\* was given unless the model name has an "@" (core/tokens.py:312, 366, 382), for
\* every set of model names and every number of workers and layers.
THEOREM KeysAreApart == Spec => []KeysIdentifyShards
<1>1. KeysIdentifyShards
  <2> SUFFICES ASSUME NEW model \in ModelNames, NEW h \in cached, NEW p \in 1..NumLayers
               PROVE
        LET keys == KeysOf(model, h, p)
            range == Len(model) + 4
        IN  /\ keys = UNION {MakeKeysForAllWorkers(model, h, k[range][1], k[range][2]) : k \in keys}
            /\ \A other \in ModelNames, g \in cached :
                   /\ \A w \in 0..(WorldSize - 1) : MakeMetadataKey(other, g, w) \notin keys
                   /\ other # model \/ g # h =>
                          \A q \in 1..NumLayers : keys \cap KeysOf(other, g, q) = {}
            /\ \A k \in keys : ParseKey(k) = Malformed <=> Len(model) > 1
            /\ Len(model) = 1 =>
                   /\ \A k \in keys :
                          /\ ParseKey(k).chunk_hash = h
                          /\ ParseKey(k).model = model[1]
                          /\ ParseKey(k).world_size = WorldSize
                   /\ \A w \in 0..(WorldSize - 1), l \in 0..(NumLayers - 1) :
                          Cardinality({k \in keys : /\ ParseKey(k).worker_id = w
                                                    /\ l \in LayersOf(ParseKey(k))}) = 1
    BY Zenon DEF KeysIdentifyShards
  <2> DEFINE keys == KeysOf(model, h, p)
  <2>1. model \in Seq(STRING) /\ Len(model) > 0
    BY IndexAssumption, Zenon
  <2>2. \A k \in keys : /\ ParseKey(k) = Malformed <=> Len(model) > 1
                        /\ Len(model) = 1 =>
                              /\ ParseKey(k).chunk_hash = h
                              /\ ParseKey(k).model = model[1]
                              /\ ParseKey(k).world_size = WorldSize
    <3> SUFFICES ASSUME NEW k \in keys
                 PROVE  /\ ParseKey(k) = Malformed <=> Len(model) > 1
                        /\ Len(model) = 1 =>
                              /\ ParseKey(k).chunk_hash = h
                              /\ ParseKey(k).model = model[1]
                              /\ ParseKey(k).world_size = WorldSize
      OBVIOUS
    <3>1. PICK w \in 0..(WorldSize - 1), s \in Shards(p) : k = ShardKey(model, h, w, s, p)
      BY KeysAre, Zenon
    <3> QED
      BY <2>1, <3>1, ParseBack DEF ShardKey
  <2>3. \A w \in 0..(WorldSize - 1), l \in 0..(NumLayers - 1) : Len(model) = 1 =>
            Cardinality({k \in keys : /\ ParseKey(k).worker_id = w
                                      /\ l \in LayersOf(ParseKey(k))}) = 1
    BY <2>1, OneShardCovers
  <2>4. \A other \in ModelNames, g \in cached :
            /\ \A w \in 0..(WorldSize - 1) : MakeMetadataKey(other, g, w) \notin keys
            /\ other # model \/ g # h =>
                   \A q \in 1..NumLayers : keys \cap KeysOf(other, g, q) = {}
    <3> TAKE other \in ModelNames, g \in cached
    <3>1. other \in Seq(STRING)
      BY IndexAssumption, Zenon
    <3> QED
      BY <2>1, <3>1, KeysApart, Zenon
  <2> QED
    BY <2>1, <2>2, <2>3, <2>4, KeysPerWorker, Zenon
<1> QED
  BY <1>1, PTL

-----------------------------------------------------------------------------
(* Calibration *)

\* The usable anchors of a configuration, and a tier of them.
Pool(c, kind) == {i \in DOMAIN c.anchors : Usable(c.anchors[i], kind)}
Tier(c, kind, n) == Tiers(c, Pool(c, kind))[n]

\* What is in the tiers.
LEMMA TiersAre ==
    ASSUME NEW c, NEW kind
    PROVE  /\ Tier(c, kind, 1) = {i \in Pool(c, kind) : /\ c.anchors[i].gpu = c.gpu
                                                        /\ c.anchors[i].model = c.model}
           /\ Tier(c, kind, 2) = {i \in Pool(c, kind) : c.anchors[i].gpu = c.gpu}
           /\ Tier(c, kind, 3) = {i \in Pool(c, kind) : c.anchors[i].model = c.model}
           /\ Tier(c, kind, 4) = Pool(c, kind)
<1> DEFINE pool == Pool(c, kind)
           same_gpu == {i \in pool : c.anchors[i].gpu = c.gpu}
           same_model == {i \in pool : c.anchors[i].model = c.model}
<1>1. Tiers(c, pool) = <<same_gpu \cap same_model, same_gpu, same_model, pool>>
  BY Zenon DEF Tiers
<1>2. /\ Tier(c, kind, 1) = same_gpu \cap same_model
      /\ Tier(c, kind, 2) = same_gpu
      /\ Tier(c, kind, 3) = same_model
      /\ Tier(c, kind, 4) = pool
  <2> HIDE DEF same_gpu, same_model, pool
  <2>1. Tiers(c, Pool(c, kind)) = <<same_gpu \cap same_model, same_gpu, same_model, pool>>
    BY <1>1, Zenon DEF pool
  <2> QED
    BY <2>1 DEF Tier
<1>3. same_gpu \cap same_model =
          {i \in pool : c.anchors[i].gpu = c.gpu /\ c.anchors[i].model = c.model}
  BY Zenon
<1> QED
  BY <1>2, <1>3, Zenon

\* The first tier that has an anchor is the one that is used.
LEMMA FirstTierDecides ==
    ASSUME NEW c, NEW kind, NEW n \in 1..4, Tier(c, kind, n) # {},
           \A k \in 1..4 : k < n => Tier(c, kind, k) = {}
    PROVE  SelectScale(c, kind) = [i \in Tier(c, kind, n) |-> AnchorScale(c.anchors[i], kind)]
<1> DEFINE tiers == Tiers(c, Pool(c, kind))
           filled == {k \in 1..4 : tiers[k] # {}}
           first == CHOOSE k \in filled : \A l \in filled : k <= l
<1>1. \A k \in 1..4 : tiers[k] = Tier(c, kind, k)
  BY DEF Tier
<1> HIDE DEF tiers
<1>2. n \in filled /\ \A l \in filled : n <= l
  BY <1>1
<1>3. filled \subseteq Int
  OBVIOUS
<1> HIDE DEF filled
<1>4. first \in filled /\ \A l \in filled : first <= l
  BY <1>2, Zenon
<1>5. first = n
  <2>1. first <= n /\ n <= first /\ first \in Int
    BY <1>2, <1>3, <1>4, Zenon
  <2> HIDE DEF first
  <2> QED
    BY <2>1
<1>6. SelectScale(c, kind) = IF filled = {} THEN <<<<10, 7>>>>
                             ELSE [i \in tiers[first] |-> AnchorScale(c.anchors[i], kind)]
  BY Zenon DEF SelectScale, Pool, tiers, filled
<1> HIDE DEF first
<1>7. filled # {}
  BY <1>2, Zenon
<1>8. tiers[first] = Tier(c, kind, n)
  BY <1>1, <1>5, Zenon
<1> QED
  BY <1>6, <1>7, <1>8, Zenon

\* Without an anchor the default is used.
LEMMA NoTierDecides ==
    ASSUME NEW c, NEW kind, \A k \in 1..4 : Tier(c, kind, k) = {}
    PROVE  SelectScale(c, kind) = <<<<10, 7>>>>
<1> DEFINE tiers == Tiers(c, Pool(c, kind))
           filled == {k \in 1..4 : tiers[k] # {}}
           first == CHOOSE k \in filled : \A l \in filled : k <= l
<1>1. filled = {}
  BY Zenon DEF Tier
<1>2. SelectScale(c, kind) = IF filled = {} THEN <<<<10, 7>>>>
                             ELSE [i \in tiers[first] |-> AnchorScale(c.anchors[i], kind)]
  BY Zenon DEF SelectScale, Pool
<1> QED
  BY <1>1, <1>2, Zenon

\* Two configurations whose tiers agree up to one that has an anchor, or all, have
\* the same scale.
LEMMA TiersDecide ==
    ASSUME NEW c, NEW d, NEW kind, NEW m \in 1..4,
           m = 4 \/ Tier(c, kind, m) # {},
           \A k \in 1..m : Tier(d, kind, k) = Tier(c, kind, k),
           \A i \in DOMAIN d.anchors : d.anchors[i] = c.anchors[i]
    PROVE  SelectScale(d, kind) = SelectScale(c, kind)
<1>1. CASE \A k \in 1..4 : Tier(c, kind, k) = {}
  <2>1. m = 4
    BY <1>1
  <2>2. \A k \in 1..4 : Tier(d, kind, k) = {}
    BY <1>1, <2>1
  <2> QED
    BY <1>1, <2>2, NoTierDecides, Zenon
<1>2. ASSUME NEW n \in 1..4, Tier(c, kind, n) # {}, \A k \in 1..4 : k < n => Tier(c, kind, k) = {}
      PROVE  SelectScale(d, kind) = SelectScale(c, kind)
  <2>1. n <= m
    BY <1>2
  <2>2. /\ Tier(d, kind, n) = Tier(c, kind, n)
        /\ \A k \in 1..4 : k < n => Tier(d, kind, k) = {}
    BY <1>2, <2>1
  <2>3. SelectScale(c, kind) = [i \in Tier(c, kind, n) |-> AnchorScale(c.anchors[i], kind)]
    BY <1>2, FirstTierDecides
  <2>4. SelectScale(d, kind) = [i \in Tier(d, kind, n) |-> AnchorScale(d.anchors[i], kind)]
    BY <1>2, <2>2, FirstTierDecides
  <2>5. Tier(d, kind, n) \subseteq DOMAIN d.anchors
    <3>1. n = 1 \/ n = 2 \/ n = 3 \/ n = 4
      OBVIOUS
    <3>2. Pool(d, kind) \subseteq DOMAIN d.anchors
      BY Zenon DEF Pool
    <3>3. /\ Tier(d, kind, 1) \subseteq Pool(d, kind) /\ Tier(d, kind, 2) \subseteq Pool(d, kind)
          /\ Tier(d, kind, 3) \subseteq Pool(d, kind) /\ Tier(d, kind, 4) \subseteq Pool(d, kind)
      BY TiersAre
    <3> QED
      BY <3>1, <3>2, <3>3, Zenon
  <2>6. \A i \in Tier(d, kind, n) : AnchorScale(d.anchors[i], kind) = AnchorScale(c.anchors[i], kind)
    BY <2>5, Zenon
  <2> QED
    BY <2>2, <2>3, <2>4, <2>6, Zenon
<1>3. \/ \A k \in 1..4 : Tier(c, kind, k) = {}
      \/ \E n \in 1..4 : /\ Tier(c, kind, n) # {}
                        /\ \A k \in 1..4 : k < n => Tier(c, kind, k) = {}
  <2> DEFINE empty(k) == Tier(c, kind, k) = {}
  <2> HIDE DEF empty
  <2>1. \/ \A k \in 1..4 : empty(k)
        \/ \E n \in 1..4 : ~empty(n) /\ \A k \in 1..4 : k < n => empty(k)
    <3>1. CASE ~empty(1)
      BY <3>1
    <3>2. CASE empty(1) /\ ~empty(2)
      BY <3>2
    <3>3. CASE empty(1) /\ empty(2) /\ ~empty(3)
      BY <3>3
    <3>4. CASE empty(1) /\ empty(2) /\ empty(3)
      BY <3>4
    <3> QED
      BY <3>1, <3>2, <3>3, <3>4
  <2> QED
    BY <2>1, Zenon DEF empty
<1> QED
  BY <1>1, <1>2, <1>3, Zenon

\* d is c without an anchor.
Without(d, c, i) ==
    /\ d.gpu = c.gpu /\ d.model = c.model
    /\ d.anchors = Restrict(c.anchors, DOMAIN c.anchors \ {i})

\* Leaving out an anchor takes it out of every tier.
LEMMA DropAnchor ==
    ASSUME NEW c, NEW kind, NEW i, NEW d, Without(d, c, i), NEW n \in 1..4
    PROVE  Tier(d, kind, n) = Tier(c, kind, n) \ {i}
<1> DEFINE rest == Restrict(c.anchors, DOMAIN c.anchors \ {i})
<1>1. /\ DOMAIN rest = DOMAIN c.anchors \ {i}
      /\ \A j \in DOMAIN c.anchors \ {i} : rest[j] = c.anchors[j]
  BY Zenon DEF Restrict
<1>2. d.gpu = c.gpu /\ d.model = c.model /\ d.anchors = rest
  BY DEF Without
<1> HIDE DEF rest
<1>3. Pool(d, kind) = Pool(c, kind) \ {i}
  <2>1. \A j : j \in Pool(d, kind) <=> j \in DOMAIN c.anchors \ {i} /\ Usable(rest[j], kind)
    BY <1>1, <1>2, Zenon DEF Pool
  <2>2. \A j : j \in Pool(c, kind) <=> j \in DOMAIN c.anchors /\ Usable(c.anchors[j], kind)
    BY Zenon DEF Pool
  <2>3. \A j : j \in Pool(d, kind) <=> j \in Pool(c, kind) \ {i}
    BY <1>1, <2>1, <2>2, Zenon
  <2> QED
    BY <2>3, Zenon
<1>4. \A j \in Pool(d, kind) : d.anchors[j] = c.anchors[j]
  BY <1>1, <1>2, Zenon DEF Pool
<1>5. /\ Tier(d, kind, 1) = Tier(c, kind, 1) \ {i}
      /\ Tier(d, kind, 2) = Tier(c, kind, 2) \ {i}
      /\ Tier(d, kind, 3) = Tier(c, kind, 3) \ {i}
      /\ Tier(d, kind, 4) = Tier(c, kind, 4) \ {i}
  <2>1. /\ Tier(c, kind, 1) = {j \in Pool(c, kind) : c.anchors[j].gpu = c.gpu /\ c.anchors[j].model = c.model}
        /\ Tier(c, kind, 2) = {j \in Pool(c, kind) : c.anchors[j].gpu = c.gpu}
        /\ Tier(c, kind, 3) = {j \in Pool(c, kind) : c.anchors[j].model = c.model}
        /\ Tier(c, kind, 4) = Pool(c, kind)
    BY TiersAre, Zenon
  <2>2. /\ Tier(d, kind, 1) = {j \in Pool(d, kind) : d.anchors[j].gpu = d.gpu /\ d.anchors[j].model = d.model}
        /\ Tier(d, kind, 2) = {j \in Pool(d, kind) : d.anchors[j].gpu = d.gpu}
        /\ Tier(d, kind, 3) = {j \in Pool(d, kind) : d.anchors[j].model = d.model}
        /\ Tier(d, kind, 4) = Pool(d, kind)
    BY TiersAre, Zenon
  <2>3. Tier(d, kind, 1) = Tier(c, kind, 1) \ {i}
    BY <1>2, <1>3, <1>4, <2>1, <2>2, Zenon
  <2>4. Tier(d, kind, 2) = Tier(c, kind, 2) \ {i}
    BY <1>2, <1>3, <1>4, <2>1, <2>2, Zenon
  <2>5. Tier(d, kind, 3) = Tier(c, kind, 3) \ {i}
    BY <1>2, <1>3, <1>4, <2>1, <2>2, Zenon
  <2>6. Tier(d, kind, 4) = Tier(c, kind, 4) \ {i}
    BY <1>3, <2>1, <2>2, Zenon
  <2> QED
    BY <2>3, <2>4, <2>5, <2>6
<1>6. \A k \in 1..4 : k = 1 \/ k = 2 \/ k = 3 \/ k = 4
  OBVIOUS
<1> QED
  BY <1>5, <1>6, Zenon

\* Only the closest anchors decide.
LEMMA ClosestDecide == cfg \in Configs => ClosestAnchorsDecide
<1> SUFFICES ASSUME cfg \in Configs, cfg.calibrated,
                    NEW kind \in {"prefill", "decode"}, NEW i \in DOMAIN cfg.anchors,
                    \/ ~Known(cfg.anchors[i])
                    \/ \E j \in DOMAIN cfg.anchors :
                          /\ Usable(cfg.anchors[j], kind)
                          /\ Closeness(cfg.anchors[j]) > Closeness(cfg.anchors[i])
             PROVE  Scale([cfg EXCEPT !.anchors = Restrict(@, DOMAIN @ \ {i})], kind) =
                        Scale(cfg, kind)
  BY Zenon DEF ClosestAnchorsDecide
<1> DEFINE d == [cfg EXCEPT !.anchors = Restrict(@, DOMAIN @ \ {i})]
           tier(k) == Tier(cfg, kind, k)
<1>1. /\ d.calibrated = cfg.calibrated
      /\ \A j \in DOMAIN d.anchors : d.anchors[j] = cfg.anchors[j]
      /\ \A k \in 1..4 : Tier(d, kind, k) = Tier(cfg, kind, k) \ {i}
  <2>1. /\ d.calibrated = cfg.calibrated /\ d.gpu = cfg.gpu /\ d.model = cfg.model
        /\ d.anchors = Restrict(cfg.anchors, DOMAIN cfg.anchors \ {i})
    BY CostAssumption
  <2> HIDE DEF d
  <2> QED
    <3>1. Without(d, cfg, i)
      BY <2>1, Zenon DEF Without
    <3> QED
      <4>1. \A j \in DOMAIN d.anchors : d.anchors[j] = cfg.anchors[j]
        BY <2>1, Zenon DEF Restrict
      <4>2. \A k \in 1..4 : Tier(d, kind, k) = Tier(cfg, kind, k) \ {i}
        BY <3>1, DropAnchor
      <4> QED
        BY <2>1, <4>1, <4>2, Zenon
<1> HIDE DEF d
<1>2. /\ tier(1) = {j \in Pool(cfg, kind) : cfg.anchors[j].gpu = cfg.gpu /\ cfg.anchors[j].model = cfg.model}
      /\ tier(2) = {j \in Pool(cfg, kind) : cfg.anchors[j].gpu = cfg.gpu}
      /\ tier(3) = {j \in Pool(cfg, kind) : cfg.anchors[j].model = cfg.model}
      /\ tier(4) = Pool(cfg, kind)
  BY TiersAre, Zenon
<1>3. ASSUME NEW m \in 1..4, m = 4 \/ tier(m) # {}, \A k \in 1..m : i \notin tier(k)
      PROVE  SelectScale(d, kind) = SelectScale(cfg, kind)
  <2>1. \A k \in 1..m : k \in 1..4
    OBVIOUS
  <2>2. \A k \in 1..m : Tier(d, kind, k) = Tier(cfg, kind, k)
    BY <1>1, <1>3, <2>1, Zenon
  <2> QED
    BY <1>1, <1>3, <2>2, TiersDecide
<1>4. SelectScale(d, kind) = SelectScale(cfg, kind)
  <2>1. CASE ~Known(cfg.anchors[i])
    <3>1. i \notin Pool(cfg, kind)
      BY <2>1, Zenon DEF Pool, Usable
    <3>2. i \notin tier(1) /\ i \notin tier(2) /\ i \notin tier(3) /\ i \notin tier(4)
      BY <1>2, <3>1, Zenon
    <3>3. \A k \in 1..4 : k = 1 \/ k = 2 \/ k = 3 \/ k = 4
      OBVIOUS
    <3>4. \A k \in 1..4 : i \notin tier(k)
      BY <3>2, <3>3, Zenon
    <3> QED
      BY <1>3, <3>4
  <2>2. ASSUME NEW j \in DOMAIN cfg.anchors, Usable(cfg.anchors[j], kind),
               Closeness(cfg.anchors[j]) > Closeness(cfg.anchors[i])
        PROVE  SelectScale(d, kind) = SelectScale(cfg, kind)
    <3>1. j \in Pool(cfg, kind)
      BY <2>2, Zenon DEF Pool
    <3> DEFINE gpu(x) == cfg.anchors[x].gpu = cfg.gpu
               model(x) == cfg.anchors[x].model = cfg.model
    <3>2. /\ Closeness(cfg.anchors[j]) = (IF gpu(j) THEN 2 ELSE 0) + (IF model(j) THEN 1 ELSE 0)
          /\ Closeness(cfg.anchors[i]) = (IF gpu(i) THEN 2 ELSE 0) + (IF model(i) THEN 1 ELSE 0)
      BY Zenon DEF Closeness
    <3>3. /\ tier(1) = {x \in Pool(cfg, kind) : gpu(x) /\ model(x)}
          /\ tier(2) = {x \in Pool(cfg, kind) : gpu(x)}
          /\ tier(3) = {x \in Pool(cfg, kind) : model(x)}
      BY <1>2, Zenon
    <3> HIDE DEF gpu, model, tier
    <3>4. \/ gpu(j) /\ model(j) /\ ~(gpu(i) /\ model(i))
          \/ gpu(j) /\ ~gpu(i)
          \/ model(j) /\ ~gpu(i) /\ ~model(i)
      BY <2>2, <3>2
    <3>5. CASE gpu(j) /\ model(j) /\ ~(gpu(i) /\ model(i))
      <4>1. tier(1) # {} /\ i \notin tier(1)
        BY <3>1, <3>3, <3>5, Zenon
      <4>2. \A k \in 1..1 : i \notin tier(k)
        BY <4>1
      <4> QED
        BY <1>3, <4>1, <4>2
    <3>6. CASE gpu(j) /\ ~gpu(i)
      <4>1. tier(2) # {} /\ i \notin tier(1) /\ i \notin tier(2)
        BY <3>1, <3>3, <3>6, Zenon
      <4>2. \A k \in 1..2 : i \notin tier(k)
        <5>1. \A k \in 1..2 : k = 1 \/ k = 2
          OBVIOUS
        <5> QED
          BY <4>1, <5>1, Zenon
      <4> QED
        BY <1>3, <4>1, <4>2
    <3>7. CASE model(j) /\ ~gpu(i) /\ ~model(i)
      <4>1. tier(3) # {} /\ i \notin tier(1) /\ i \notin tier(2) /\ i \notin tier(3)
        BY <3>1, <3>3, <3>7, Zenon
      <4>2. \A k \in 1..3 : i \notin tier(k)
        <5>1. \A k \in 1..3 : k = 1 \/ k = 2 \/ k = 3
          OBVIOUS
        <5> QED
          BY <4>1, <5>1, Zenon
      <4> QED
        BY <1>3, <4>1, <4>2
    <3> QED
      BY <3>4, <3>5, <3>6, <3>7
  <2> QED
    BY <2>1, <2>2, Zenon
<1>5. Scale(d, kind) = Scale(cfg, kind)
  BY <1>1, <1>4, Zenon DEF Scale
<1> QED
  BY <1>5, Zenon DEF d

\* An anchor of the very configuration is scored with the strategy it is used with.
LEMMA BackboneIsOurs ==
    ASSUME NEW c \in Configs, NEW a \in TimingAnchor, c.calibrated,
           a.gpu = c.gpu, a.model = c.model, a.tp = c.tp, c.pp = 1, c.link = 0,
           c.allreduce \/ c.tp = 1
    PROVE  /\ Hardware(AnchorConfig(a)) = Hardware(c)
           /\ \A k, h : RooflinePrefill(AnchorConfig(a), k, h) = RooflinePrefill(c, k, h)
           /\ \A h : RooflineDecode(AnchorConfig(a), h) = RooflineDecode(c, h)
<1> DEFINE d == AnchorConfig(a)
<1>1. /\ d.calibrated = TRUE /\ d.gpu = c.gpu /\ d.model = c.model /\ d.tp = c.tp
      /\ d.pp = 1 /\ d.link = c.link /\ d.pipeline = FALSE /\ d.allreduce = (c.tp > 1)
  BY DEF AnchorConfig
<1>2. c.tp \in Nat \ {0}
  BY CostAssumption
<1> HIDE DEF d
<1>3. Model(d) = Model(c)
  BY <1>1, Zenon DEF Model
<1>4. Hardware(d) = Hardware(c)
  <2>1. Hardware(d) = [Hardware(c) EXCEPT !.flops = @]
    <3>1. (IF d.calibrated THEN 1 ELSE d.efficiency) = (IF c.calibrated THEN 1 ELSE c.efficiency)
      BY <1>1
    <3>2. (IF d.calibrated THEN 1 ELSE 10) = (IF c.calibrated THEN 1 ELSE 10)
      BY <1>1
    <3> QED
      BY <1>1, <3>1, <3>2 DEF Hardware
  <2>2. [Hardware(c) EXCEPT !.flops = @] = Hardware(c)
    BY DEF Hardware
  <2> QED
    BY <2>1, <2>2, Zenon
<1>5. \A k : AllReduceTime(d, k) = AllReduceTime(c, k)
  <2>1. CASE c.tp = 1
    <3>1. d.tp <= 1 /\ c.tp <= 1
      BY <1>1, <2>1
    <3> QED
      BY <3>1, Zenon DEF AllReduceTime
  <2>2. CASE c.tp # 1
    <3>1. c.tp > 1 /\ c.allreduce /\ ~(c.tp <= 1)
      BY <1>2, <2>2
    <3>2. d.allreduce /\ ~(d.tp <= 1)
      BY <1>1, <3>1
    <3> QED
      BY <1>1, <1>3, <1>4, <3>1, <3>2, Zenon DEF AllReduceTime
  <2> QED
    BY <2>1, <2>2, Zenon
<1>6. \A k : PipelineTime(d, k) = 0 /\ PipelineTime(c, k) = 0
  <2>1. d.pp <= 1 /\ c.pp <= 1
    BY <1>1
  <2> QED
    BY <2>1, Zenon DEF PipelineTime
<1>7. \A k, h : RooflinePrefill(d, k, h) = RooflinePrefill(c, k, h)
  BY <1>3, <1>4, <1>5, <1>6, Zenon DEF RooflinePrefill
<1>8. \A h : RooflineDecode(d, h) = RooflineDecode(c, h)
  BY <1>3, <1>4, <1>5, <1>6, Zenon DEF RooflineDecode
<1> QED
  BY <1>4, <1>7, <1>8 DEF d

\* What the roofline charges is a number of ticks, and so is its unit.
LEMMA RooflineTimed ==
    ASSUME NEW c \in Configs, NEW k \in Nat
    PROVE  /\ RooflinePrefill(c, k, 0) \in Nat
           /\ RooflineDecode(c, k) \in Nat
           /\ Unit(Hardware(c)) \in Nat
<1> DEFINE m == Model(c)
           hw == Hardware(c)
<1>1. m \in ModelType /\ hw \in HardwareType
  BY ConfigTyped
<1>2. /\ AllReduceTime(c, k) \in Nat /\ PipelineTime(c, k) \in Nat
      /\ AllReduceTime(c, 1) \in Nat /\ PipelineTime(c, 1) \in Nat
  <2>1. k <= k /\ 1 \in Nat /\ 1 <= 1
    OBVIOUS
  <2> QED
    BY <2>1, CommunicationMonotone
<1>3. Unit(hw) \in Nat
  <2>1. /\ hw.flops \in Nat /\ hw.bytes \in Nat /\ hw.link \in Nat /\ hw.tp \in Nat
        /\ hw.efficiency \in Nat
    BY <1>1 DEF HardwareType
  <2> HIDE DEF hw
  <2>2. PICK x \in Nat : x = hw.flops * hw.bytes
    BY <2>1
  <2>3. PICK y \in Nat : y = x * hw.link
    BY <2>1
  <2>4. PICK z \in Nat : z = y * hw.tp
    BY <2>1
  <2>5. z * hw.efficiency \in Nat
    BY <2>1
  <2> QED
    BY <2>2, <2>3, <2>4, <2>5 DEF Unit
<1>4. RooflinePrefill(c, k, 0) = PrefillTime(hw, m, k, 0) + AllReduceTime(c, k) + PipelineTime(c, k)
  BY Zenon DEF RooflinePrefill
<1>5. RooflineDecode(c, k) = DecodeTime(hw, m, k) + AllReduceTime(c, 1) + PipelineTime(c, 1)
  BY Zenon DEF RooflineDecode
<1>6. Unit(Hardware(c)) = Unit(hw)
  OBVIOUS
<1> HIDE DEF hw, m
<1>7. DecodeTime(hw, m, k) \in Nat
  BY <1>1, DecodeTimed
<1>8. PrefillTime(hw, m, k, 0) \in Nat
  <2>1. 0 \in Nat
    OBVIOUS
  <2>2. PrefillFlops(m, k, 0) \in Nat /\ PrefillBytes(m, k, 0) \in Nat
    BY <1>1, <2>1, FlopsAdd, BytesAdd
  <2> QED
    BY <1>1, <2>2, RooflineMonotone DEF PrefillTime
<1> QED
  BY <1>2, <1>3, <1>4, <1>5, <1>6, <1>7, <1>8

\* The only exact anchor, unless it is clamped, makes the strategy reproduce it.
LEMMA ExactReproduced == cfg \in Configs => MeasurementReproduced
<1> SUFFICES ASSUME cfg \in Configs, cfg.calibrated,
                    NEW kind \in {"prefill", "decode"}, NEW i \in DOMAIN cfg.anchors,
                    {j \in DOMAIN cfg.anchors :
                        Usable(cfg.anchors[j], kind) /\ Closeness(cfg.anchors[j]) = 3} = {i},
                    cfg.anchors[i].tp = cfg.tp, cfg.pp = 1, cfg.link = 0,
                    cfg.allreduce \/ cfg.tp = 1,
                    Scale(cfg, kind)[i] \notin {MinScale, MaxScale}
             PROVE  (IF kind = "prefill" THEN PrefillLatency(cfg, cfg.anchors[i].isl, 0)
                     ELSE DecodeLatency(cfg, cfg.anchors[i].isl)) * Scale(cfg, kind)[i][1]
                        = Measured(cfg.anchors[i], kind) * TimeUnit(cfg) * Scale(cfg, kind)[i][2]
  BY DEF MeasurementReproduced
<1> DEFINE a == cfg.anchors[i]
           pred == IF kind = "prefill" THEN RooflinePrefill(cfg, a.isl, 0)
                   ELSE RooflineDecode(cfg, a.isl)
           unit == Unit(Hardware(cfg))
           ratio == <<Measured(a, kind) * unit, pred>>
           latency == IF kind = "prefill" THEN PrefillLatency(cfg, a.isl, 0)
                      ELSE DecodeLatency(cfg, a.isl)
<1>1. a \in TimingAnchor
  BY CostAssumption
<1>2. /\ i \in DOMAIN cfg.anchors /\ Usable(a, kind) /\ Closeness(a) = 3
      /\ \A j \in DOMAIN cfg.anchors :
             Usable(cfg.anchors[j], kind) /\ Closeness(cfg.anchors[j]) = 3 => j = i
  BY Zenon
<1>3. \A x : Closeness(x) = 3 <=> x.gpu = cfg.gpu /\ x.model = cfg.model
  BY DEF Closeness
<1>4. Scale(cfg, kind)[i] = AnchorScale(a, kind)
  <2>1. Tier(cfg, kind, 1) = {i}
    <3>1. Tier(cfg, kind, 1) = {j \in Pool(cfg, kind) : /\ cfg.anchors[j].gpu = cfg.gpu
                                                       /\ cfg.anchors[j].model = cfg.model}
      BY TiersAre, Zenon
    <3>2. \A j : j \in Pool(cfg, kind) <=> j \in DOMAIN cfg.anchors /\ Usable(cfg.anchors[j], kind)
      BY Zenon DEF Pool
    <3>3. \A j : j \in Tier(cfg, kind, 1) <=> j = i
      BY <1>2, <1>3, <3>1, <3>2, Zenon
    <3> QED
      BY <3>3, Zenon
  <2>2. 1 \in 1..4 /\ \A k \in 1..4 : ~(k < 1)
    OBVIOUS
  <2>3. SelectScale(cfg, kind) = [j \in Tier(cfg, kind, 1) |-> AnchorScale(cfg.anchors[j], kind)]
    BY <2>1, <2>2, FirstTierDecides
  <2>4. SelectScale(cfg, kind)[i] = AnchorScale(a, kind)
    BY <2>1, <2>3, Zenon
  <2> QED
    BY <2>4, Zenon DEF Scale
<1>5. AnchorScale(a, kind) = Clamp(ratio)
  <2>1. a.gpu = cfg.gpu /\ a.model = cfg.model
    BY <1>2, <1>3, Zenon
  <2>2. /\ Hardware(AnchorConfig(a)) = Hardware(cfg)
        /\ \A k, h : RooflinePrefill(AnchorConfig(a), k, h) = RooflinePrefill(cfg, k, h)
        /\ \A h : RooflineDecode(AnchorConfig(a), h) = RooflineDecode(cfg, h)
    BY <1>1, <2>1, BackboneIsOurs, Zenon
  <2> QED
    BY <2>2, Zenon DEF AnchorScale
<1>6. Clamp(ratio) = ratio
  <2>1. Clamp(ratio) \notin {MinScale, MaxScale}
    BY <1>4, <1>5, Zenon
  <2> HIDE DEF ratio
  <2>2. Clamp(ratio) \in {MinScale, MaxScale, ratio}
    <3>1. CASE Below(ratio, MinScale)
      BY <3>1 DEF Clamp
    <3>2. CASE ~Below(ratio, MinScale) /\ Below(MaxScale, ratio)
      BY <3>2 DEF Clamp
    <3>3. CASE ~Below(ratio, MinScale) /\ ~Below(MaxScale, ratio)
      BY <3>3 DEF Clamp
    <3> QED
      BY <3>1, <3>2, <3>3
  <2> QED
    BY <2>1, <2>2, Zenon
<1>7. latency = pred /\ TimeUnit(cfg) = unit
  BY DEF PrefillLatency, DecodeLatency, TimeUnit, Roof
<1>8. pred \in Nat /\ unit \in Nat /\ Measured(a, kind) \in Nat
  <2>1. a.isl \in Nat /\ a.ttft \in Nat /\ a.tpot \in Nat
    BY <1>1 DEF TimingAnchor
  <2>2. Measured(a, kind) \in Nat
    BY <2>1 DEF Measured
  <2>3. /\ RooflinePrefill(cfg, a.isl, 0) \in Nat
        /\ RooflineDecode(cfg, a.isl) \in Nat
        /\ Unit(Hardware(cfg)) \in Nat
    BY <2>1, RooflineTimed
  <2> QED
    BY <2>2, <2>3
<1>9. Scale(cfg, kind)[i] = ratio
  BY <1>4, <1>5, <1>6, Zenon
<1>10. latency * Scale(cfg, kind)[i][1] = Measured(a, kind) * TimeUnit(cfg) * Scale(cfg, kind)[i][2]
  <2> DEFINE mea == Measured(a, kind)
             tu == TimeUnit(cfg)
             sc == Scale(cfg, kind)[i]
  <2>1. sc = <<mea * unit, pred>>
    BY <1>9
  <2>2. sc[1] = mea * unit /\ sc[2] = pred
    BY <2>1
  <2>3. latency = pred /\ tu = unit /\ pred \in Nat /\ unit \in Nat /\ mea \in Nat
    BY <1>7, <1>8
  <2> HIDE DEF mea, tu, sc, latency, pred, unit
  <2>4. PICK x \in Nat : x = mea * unit
    BY <2>3
  <2>5. pred * x = x * pred
    BY <2>3
  <2>6. latency * sc[1] = mea * tu * sc[2]
    BY <2>2, <2>3, <2>4, <2>5
  <2> QED
    BY <2>6 DEF mea, tu, sc
<1> QED
  BY <1>10 DEF latency, a

\* A usable anchor that is less close to the configuration than another one, and one
\* of an unknown profile, is not noticed (timing/calibration.py:272), for every file
\* of anchors.
THEOREM OnlyClosestDecide == Spec => []ClosestAnchorsDecide
<1>1. Spec => []CostInv
  BY InitCharged, NextCharged, PTL DEF Spec
<1>2. CostInv => ClosestAnchorsDecide
  BY ClosestDecide DEF CostInv
<1> QED
  BY <1>1, <1>2, PTL

\* What was measured is what is charged (timing/calibration.py:238, 285), for every
\* measurement of the very configuration that is not clamped.
THEOREM ExactAnchorReproduced == Spec => []MeasurementReproduced
<1>1. Spec => []CostInv
  BY InitCharged, NextCharged, PTL DEF Spec
<1>2. CostInv => MeasurementReproduced
  BY ExactReproduced DEF CostInv
<1> QED
  BY <1>1, <1>2, PTL

=============================================================================
