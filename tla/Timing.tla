------------------------------- MODULE Timing -------------------------------
(***************************************************************************)
(* The timing strategies (timing/): what a server charges for a prefill or *)
(* a decode step.  create_timing_strategy picks the calibrated strategy,   *)
(* the simple one or the roofline, in this order.                          *)
(*                                                                         *)
(* A configuration cfg has the fields calibrated and simple (booleans),    *)
(* gpu and model (names of profiles), tp and pp (sizes), efficiency (in    *)
(* tenths), allreduce and pipeline (booleans: is this communication        *)
(* charged), link (the bandwidth that overrides the GPU's, 0 for None),    *)
(* prefill_ms and decode_ms (of the simple mode) and anchors, the          *)
(* measurements by their places in the list.  A GPU is [flops, bytes,      *)
(* nvlink], nvlink 0 when its profile names none.                          *)
(*                                                                         *)
(* A scale of the calibrated strategy is the geometric mean of ratios      *)
(* <<numerator, denominator>>, and is left as the ratios by the places of  *)
(* their anchors.                                                          *)
(***************************************************************************)
EXTENDS Latency, Sequences

CONSTANTS
    ModelProfiles,  \* MODEL_PROFILES: profiles by name
    GPUProfiles,    \* GPU_PROFILES
    DefaultLink,    \* DEFAULT_INTERCONNECT_BANDWIDTH_GB_S
    LinkLatency     \* latency_overhead_us of a message

ASSUME TimingAssumption ==
    /\ \A m \in DOMAIN ModelProfiles :
           ModelProfiles[m] \in
               [layers : Nat \ {0}, hidden : Nat \ {0}, kv_heads : Nat \ {0},
                num_heads : Nat \ {0}, intermediate : Nat \ {0}, vocab_size : Nat,
                bytes_per_element : {1, 2}, kv_layers : Nat,
                head_dim_override : Nat, params_override : Nat]
    /\ \A g \in DOMAIN GPUProfiles :
           GPUProfiles[g] \in [flops : Nat \ {0}, bytes : Nat \ {0}, nvlink : Nat]
    /\ DefaultLink \in Nat \ {0}
    /\ LinkLatency \in Nat

-----------------------------------------------------------------------------
(* The roofline strategy *)

Model(cfg) == ModelProfiles[cfg.model]

\* The hardware the roofline runs on: the calibrated strategy wraps it at full
\* efficiency.
Hardware(cfg) ==
    LET gpu == GPUProfiles[cfg.gpu]
    IN  [flops |-> gpu.flops, bytes |-> gpu.bytes, tp |-> cfg.tp,
         efficiency |-> IF cfg.calibrated THEN 1 ELSE cfg.efficiency,
         whole |-> IF cfg.calibrated THEN 1 ELSE 10,
         link |-> CASE cfg.link # 0 -> cfg.link
                    [] cfg.link = 0 /\ gpu.nvlink # 0 -> gpu.nvlink
                    [] OTHER -> DefaultLink]

\* Hidden states of the tokens in flight: what an AllReduce reduces and what a
\* pipeline stage hands to the next.
MessageBytes(m, tokens) == tokens * m.hidden * m.bytes_per_element

\* Two ring AllReduces per layer, each of which moves 2 * (tp - 1) / tp of the
\* message.
AllReduceTime(cfg, tokens) ==
    LET hw == Hardware(cfg)
        m == Model(cfg)
    IN  IF ~cfg.allreduce \/ cfg.tp <= 1 THEN 0
        ELSE (2 * m.layers) * (2 * (cfg.tp - 1) * MessageBytes(m, tokens))
                 * hw.flops * hw.bytes * hw.efficiency

\* One message with its fixed latency at each of the pp - 1 stage boundaries.
PipelineTime(cfg, tokens) ==
    LET hw == Hardware(cfg)
    IN  IF ~cfg.pipeline \/ cfg.pp <= 1 THEN 0
        ELSE (cfg.pp - 1) * (LinkLatency * hw.link + MessageBytes(Model(cfg), tokens))
                 * hw.flops * hw.bytes * hw.tp * hw.efficiency

RooflinePrefill(cfg, num, context) ==
    PrefillTime(Hardware(cfg), Model(cfg), num, context)
        + AllReduceTime(cfg, num) + PipelineTime(cfg, num)

RooflineDecode(cfg, context) ==
    DecodeTime(Hardware(cfg), Model(cfg), context)
        + AllReduceTime(cfg, 1) + PipelineTime(cfg, 1)

-----------------------------------------------------------------------------
(* Calibration *)

\* A measurement; ttft and tpot are 0 when they are None.
TimingAnchor ==
    [model : STRING, gpu : STRING, isl : Nat, tp : Nat \ {0}, ttft : Nat, tpot : Nat]

\* MIN_SCALE and MAX_SCALE
MinScale == <<1, 20>>
MaxScale == <<500, 1>>

Below(p, q) == p[1] * q[2] < q[1] * p[2]

Clamp(ratio) ==
    CASE Below(ratio, MinScale) -> MinScale
      [] Below(MaxScale, ratio) -> MaxScale
      [] OTHER -> ratio

\* Slip: the backbone is derated as the plain roofline is.
AnchorConfig_Derated(a) ==
    [calibrated |-> FALSE, simple |-> FALSE, gpu |-> a.gpu, model |-> a.model,
     tp |-> a.tp, pp |-> 1, efficiency |-> 7, allreduce |-> a.tp > 1,
     pipeline |-> FALSE, link |-> 0]

\* The backbone an anchor is scored with: its own model, GPU and TP size.
AnchorConfig(a) ==
    [calibrated |-> TRUE, simple |-> FALSE, gpu |-> a.gpu, model |-> a.model,
     tp |-> a.tp, pp |-> 1, efficiency |-> 10, allreduce |-> a.tp > 1,
     pipeline |-> FALSE, link |-> 0]

\* An anchor whose profiles exist; the others are skipped.
Known(a) == a.model \in DOMAIN ModelProfiles /\ a.gpu \in DOMAIN GPUProfiles

Measured(a, kind) == IF kind = "prefill" THEN a.ttft ELSE a.tpot

Usable(a, kind) == Known(a) /\ Measured(a, kind) # 0

\* Measured over predicted, for the anchor's own prompt.
AnchorScale(a, kind) ==
    LET backbone == AnchorConfig(a)
        pred == IF kind = "prefill" THEN RooflinePrefill(backbone, a.isl, 0)
                ELSE RooflineDecode(backbone, a.isl)
    IN  Clamp(<<Measured(a, kind) * Unit(Hardware(backbone)), pred>>)

\* Slip: an anchor of the same model is preferred to one of the same GPU.
Tiers_ModelFirst(cfg, pool) ==
    LET same_gpu == {i \in pool : cfg.anchors[i].gpu = cfg.gpu}
        same_model == {i \in pool : cfg.anchors[i].model = cfg.model}
    IN  <<same_gpu \cap same_model, same_model, same_gpu, pool>>

\* Anchors by specificity: of this model and GPU, of this GPU, of this model, all.
Tiers(cfg, pool) ==
    LET same_gpu == {i \in pool : cfg.anchors[i].gpu = cfg.gpu}
        same_model == {i \in pool : cfg.anchors[i].model = cfg.model}
    IN  <<same_gpu \cap same_model, same_gpu, same_model, pool>>

\* The scale of the first tier that has an anchor; 1 / 0.7 when none has.
SelectScale(cfg, kind) ==
    LET tiers == Tiers(cfg, {i \in DOMAIN cfg.anchors : Usable(cfg.anchors[i], kind)})
        filled == {n \in 1..4 : tiers[n] # {}}
        first == CHOOSE n \in filled : \A k \in filled : n <= k
    IN  IF filled = {} THEN <<<<10, 7>>>>
        ELSE [i \in tiers[first] |-> AnchorScale(cfg.anchors[i], kind)]

-----------------------------------------------------------------------------
(* The strategy of a configuration *)

Roof(cfg) == cfg.calibrated \/ ~cfg.simple

\* Time in 1 / TimeUnit(cfg) of a tick, before the scale.
TimeUnit(cfg) == IF Roof(cfg) THEN Unit(Hardware(cfg)) ELSE 1

PrefillLatency(cfg, num, context) ==
    IF Roof(cfg) THEN RooflinePrefill(cfg, num, context) ELSE cfg.prefill_ms * num

DecodeLatency(cfg, context) ==
    IF Roof(cfg) THEN RooflineDecode(cfg, context) ELSE cfg.decode_ms

\* What a result is multiplied by.
Scale(cfg, kind) == IF cfg.calibrated THEN SelectScale(cfg, kind) ELSE <<>>

=============================================================================
