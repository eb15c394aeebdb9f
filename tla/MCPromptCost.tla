---------------------------- MODULE MCPromptCost ----------------------------
(* Instances of PromptCost.tla for TLC. *)
EXTENDS PromptCost

\* Byte strings that share whole chunks, part of one, and one chunk after
\* different beginnings; with two bytes per token and two tokens per chunk.
MCTexts == {<<>>, <<1, 1, 1, 1>>, <<1, 1, 1, 1, 1, 1>>, <<1, 1, 1, 1, 2, 2, 2, 2>>,
            <<2, 2, 2, 2, 1, 1, 1>>}

MCModelProfiles ==
    [dense |-> [layers |-> 2, hidden |-> 4, kv_heads |-> 1, num_heads |-> 2, intermediate |-> 2,
                vocab_size |-> 3, bytes_per_element |-> 2, kv_layers |-> 0,
                head_dim_override |-> 0, params_override |-> 0],
     hybrid |-> [layers |-> 3, hidden |-> 2, kv_heads |-> 1, num_heads |-> 1, intermediate |-> 1,
                 vocab_size |-> 2, bytes_per_element |-> 1, kv_layers |-> 1,
                 head_dim_override |-> 1, params_override |-> 7]]

\* The first is bound by compute, the second by memory.
MCGPUProfiles ==
    [slow |-> [flops |-> 1, bytes |-> 3, nvlink |-> 2],
     fast |-> [flops |-> 9, bytes |-> 1, nvlink |-> 0]]

Roofed == [calibrated |-> FALSE, simple |-> FALSE, gpu |-> "slow", model |-> "dense", tp |-> 1,
           pp |-> 1, efficiency |-> 7, allreduce |-> TRUE, pipeline |-> TRUE, link |-> 0,
           prefill_ms |-> 2, decode_ms |-> 3, anchors |-> <<>>]

Anchor(model, gpu, isl, tp, ttft, tpot) ==
    [model |-> model, gpu |-> gpu, isl |-> isl, tp |-> tp, ttft |-> ttft, tpot |-> tpot]

Measurements ==
    <<Anchor("dense", "slow", 3, 1, 2000, 0),
      Anchor("dense", "slow", 2, 1, 0, 900),
      Anchor("hybrid", "slow", 2, 1, 400, 500),
      Anchor("dense", "fast", 1, 2, 300, 90),
      Anchor("no-such-model", "slow", 1, 1, 5, 5)>>

Calibrated == [Roofed EXCEPT !.calibrated = TRUE, !.anchors = Measurements]

MCConfigs ==
    {Roofed,
     [Roofed EXCEPT !.model = "hybrid"],
     [Roofed EXCEPT !.gpu = "fast"],
     [Roofed EXCEPT !.gpu = "fast", !.model = "hybrid", !.tp = 2],
     [Roofed EXCEPT !.tp = 2, !.pp = 2, !.link = 5],
     [Roofed EXCEPT !.simple = TRUE],
     Calibrated,
     [Calibrated EXCEPT !.simple = TRUE, !.model = "hybrid"],
     [Calibrated EXCEPT !.gpu = "fast", !.tp = 2],
     [Calibrated EXCEPT !.gpu = "fast", !.model = "hybrid"],
     [Calibrated EXCEPT !.gpu = "fast", !.model = "hybrid",
                        !.anchors = SubSeq(Measurements, 1, 2)],
     [Calibrated EXCEPT !.anchors = <<>>]}

MCModelNames == {<<"model">>, <<"other">>, <<"model", "v2">>}

=============================================================================
