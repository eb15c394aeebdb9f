------------------------------ MODULE Latency ------------------------------
(***************************************************************************)
(* What LatencyCalculator (core/latency.py) charges for a forward pass: the *)
(* operations and the bytes of a prefill or a decode step of a model       *)
(* (core/models.py), and the roofline time they take on a GPU.             *)
(*                                                                         *)
(* A model is a record of the dimensions of a ModelProfile; a dimension    *)
(* that may be None is 0 when it is.  The batch size is 1 in every caller. *)
(* Times are exact: the code's floating-point milliseconds are integers in *)
(* a unit of the calculator, 1 / Unit(hw) of a tick, where a GPU does      *)
(* hw.flops operations and moves hw.bytes bytes per tick and the           *)
(* efficiency is the fraction hw.efficiency / hw.whole.                    *)
(***************************************************************************)
EXTENDS Integers

-----------------------------------------------------------------------------
(* A model profile *)

HeadDim(m) ==
    IF m.head_dim_override # 0 THEN m.head_dim_override ELSE m.hidden \div m.num_heads

\* Layers that keep KV cache: all of them unless the model is hybrid.
KVLayers(m) == IF m.kv_layers # 0 THEN m.kv_layers ELSE m.layers

\* K and V of a token in every layer that keeps them.
KVBytesPerToken(m) ==
    (2 * m.kv_heads * HeadDim(m) * m.bytes_per_element) * KVLayers(m)

KVBytes(m, tokens) == KVBytesPerToken(m) * tokens

\* Embedding, layers (QKV, output, FFN, norms), final norm and LM head.
Parameters(m) ==
    LET qkv == m.hidden * (m.num_heads + 2 * m.kv_heads) * HeadDim(m)
        layer == qkv + m.hidden * m.hidden + 3 * m.hidden * m.intermediate + 2 * m.hidden
    IN  IF m.params_override # 0 THEN m.params_override
        ELSE m.vocab_size * m.hidden + layer * m.layers + m.hidden + m.hidden * m.vocab_size

WeightBytes(m) == Parameters(m) * m.bytes_per_element

-----------------------------------------------------------------------------
(* Operations *)

\* Slip: the new tokens attend to each other and not to the cached ones.
Pairs_NoContext(context, num) == (num * num + num) \div 2

\* Query-key pairs of num tokens after context cached ones: the token at
\* position p attends to p + 1 keys.
Pairs(context, num) ==
    LET end == context + num
    IN  (end * end + end - context * context - context) \div 2

\* Q.K, softmax and attention.V of one pair, over all heads and layers.
PairFlops(m) == (2 * HeadDim(m) + 5 + 2 * HeadDim(m)) * m.num_heads * m.layers

AttentionFlops(m, context, num) == PairFlops(m) * Pairs(context, num)

\* A decode step: one query attends to the keys of its context.
DecodeAttentionFlops(m, context) == PairFlops(m) * context

\* Up, gate, their product and down, per token.
FFNFlops(m) == (6 * m.hidden * m.intermediate + m.intermediate) * m.layers

\* Q and output, K and V, per token.
ProjectionFlops(m) ==
    (4 * m.hidden * (m.num_heads * HeadDim(m)) + 4 * m.hidden * (m.kv_heads * HeadDim(m)))
        * m.layers

TokenFlops(m) == FFNFlops(m) + ProjectionFlops(m)

PrefillFlops(m, num, context) == AttentionFlops(m, context, num) + TokenFlops(m) * num

DecodeFlops(m, context) == DecodeAttentionFlops(m, context) + TokenFlops(m)

-----------------------------------------------------------------------------
(* Bytes *)

\* Activations of a token: two bytes per hidden dimension and layer.
ActivationBytes(m) == m.hidden * 2 * m.layers

\* The weights once, the KV cache that is written and the one that is read.
PrefillBytes(m, num, context) ==
    WeightBytes(m) + KVBytes(m, num) + KVBytes(m, context) + ActivationBytes(m) * num

DecodeBytes(m, context) == WeightBytes(m) + KVBytes(m, context) + KVBytesPerToken(m)

-----------------------------------------------------------------------------
(* Time on hw = [flops, bytes, link, tp, efficiency, whole] *)

Unit(hw) == hw.flops * hw.bytes * hw.link * hw.tp * hw.efficiency

ComputeTime(hw, flops) == flops * hw.whole * hw.bytes * hw.link
MemoryTime(hw, bytes) == bytes * hw.whole * hw.flops * hw.link

\* The roofline: whichever of the two takes longer.
Roofline(hw, flops, bytes) ==
    LET compute == ComputeTime(hw, flops)
        memory == MemoryTime(hw, bytes)
    IN  IF compute >= memory THEN compute ELSE memory

PrefillTime(hw, m, num, context) ==
    Roofline(hw, PrefillFlops(m, num, context), PrefillBytes(m, num, context))

DecodeTime(hw, m, context) == Roofline(hw, DecodeFlops(m, context), DecodeBytes(m, context))

-----------------------------------------------------------------------------
(* Estimates *)

\* Time to first token: the misses are prefilled on top of the hits; a prompt
\* that is cached as a whole takes one decode step.
EstimateTTFT(hw, m, input, hit) ==
    LET prefill == IF input > hit THEN input - hit ELSE 0
    IN  IF prefill > 0 THEN PrefillTime(hw, m, prefill, input - prefill)
        ELSE DecodeTime(hw, m, input)

\* Time of the decode steps of output tokens 2..output.
EstimateDecode(hw, m, input, output) ==
    LET steps[i \in Nat] == IF i = 0 THEN 0 ELSE steps[i - 1] + DecodeTime(hw, m, input + i)
    IN  IF output <= 1 THEN 0 ELSE steps[output - 1]

EstimateTotal(hw, m, input, output, hit) ==
    EstimateTTFT(hw, m, input, hit) + EstimateDecode(hw, m, input, output)

=============================================================================
