----------------------------- MODULE PromptCost -----------------------------
(***************************************************************************)
(* What a combined server charges for a prompt (servers/combined.py): it   *)
(* looks up how much of the prompt is cached, sleeps for the prefill of    *)
(* the rest on top of it, stores the new full chunks, and sleeps for one   *)
(* decode step per token.  Chunks are stored and evicted by others at any  *)
(* time, between these steps too.                                          *)
(*                                                                         *)
(* The cache is the prefix index of core/tokens.py, which hashes chunks as *)
(* LMCache does.  The strategy is one of the configurations in Configs.    *)
(***************************************************************************)
EXTENDS PrefixIndex, Timing

CONSTANTS
    Configs,        \* configurations of the timing strategy
    MaxTokens       \* bound: max_tokens of a request

ASSUME CostAssumption ==
    /\ Configs \subseteq
           [calibrated : BOOLEAN, simple : BOOLEAN, allreduce : BOOLEAN, pipeline : BOOLEAN,
            model : DOMAIN ModelProfiles, gpu : DOMAIN GPUProfiles, link : Nat,
            tp : Nat \ {0}, pp : Nat \ {0}, efficiency : Nat \ {0},
            prefill_ms : Nat \ {0}, decode_ms : Nat \ {0}, anchors : Seq(TimingAnchor)]
    /\ MaxTokens \in Nat \ {0}

VARIABLES
    cfg,    \* configuration the server was started with
    req     \* the request in progress

vars == <<cached, stored, cfg, req>>

Idle == [pc |-> "idle", text |-> <<>>, hit |-> 0, flops |-> 0, bytes |-> 0,
         prefill |-> 0, decode |-> 0, generated |-> 0]

Init == IndexInit /\ cfg \in Configs /\ req = Idle

-----------------------------------------------------------------------------
(* Steps of _process_prefill and of the decode loop *)

\* The prompt is looked up; if some of it is not cached, the server sleeps for
\* the prefill of the missing tokens, which attend to the cached ones.
Lookup(text) ==
    LET tokens == Tokens(text)
        hit == FindPrefixMatch(tokens, cached)
        miss == Len(tokens) - hit
    IN  /\ req.pc = "idle"
        /\ \/ /\ miss = 0
              /\ req' = [Idle EXCEPT !.pc = "decode", !.text = text, !.hit = hit]
           \/ /\ miss > 0
              /\ req' = [Idle EXCEPT
                     !.pc = "prefill",
                     !.text = text,
                     !.hit = hit,
                     !.flops = PrefillFlops(Model(cfg), miss, hit),
                     !.bytes = PrefillBytes(Model(cfg), miss, hit),
                     !.prefill = PrefillLatency(cfg, miss, hit)]
        /\ UNCHANGED <<cached, stored, cfg>>

\* After the sleep the full chunks beyond the hit are stored, if there are any.
Store ==
    LET tokens == Tokens(req.text)
        store_end == (Len(tokens) \div ChunkSize) * ChunkSize
    IN  /\ req.pc = "prefill"
        /\ req' = [req EXCEPT !.pc = "decode"]
        /\ IF store_end > req.hit
           THEN StoreChunks(tokens, req.hit \div ChunkSize + 1, store_end \div ChunkSize)
           ELSE UNCHANGED indexVars
        /\ UNCHANGED cfg

\* Slip: the context of a decode step does not grow.
Decode_FixedContext ==
    /\ req.pc = "decode"
    /\ req.generated < MaxTokens
    /\ req' = [req EXCEPT !.generated = @ + 1,
                          !.decode = @ + DecodeLatency(cfg, Len(Tokens(req.text)))]
    /\ UNCHANGED <<cached, stored, cfg>>

\* One token: its context is the prompt and the tokens before it.
Decode ==
    /\ req.pc = "decode"
    /\ req.generated < MaxTokens
    /\ req' = [req EXCEPT
           !.generated = @ + 1,
           !.decode = @ + DecodeLatency(cfg, Len(Tokens(req.text)) + req.generated)]
    /\ UNCHANGED <<cached, stored, cfg>>

\* The request has its tokens, however many it asked for.
Reply ==
    /\ req.pc = "decode"
    /\ req.generated > 0
    /\ req' = Idle
    /\ UNCHANGED <<cached, stored, cfg>>

\* Another request of this or of another server stores a prompt.
StoreElsewhere ==
    /\ \E text \in Texts, partial \in BOOLEAN : StoreText(text, partial)
    /\ UNCHANGED <<cfg, req>>

Evict ==
    /\ \E hash \in cached : Drop(hash)
    /\ UNCHANGED <<cfg, req>>

Next ==
    \/ \E text \in Texts : Lookup(text)
    \/ Store
    \/ Decode
    \/ Reply
    \/ StoreElsewhere
    \/ Evict

Spec == Init /\ [][Next]_vars

-----------------------------------------------------------------------------
(* Properties *)

Prompt == Len(Tokens(req.text))

\* A hit saves its own work and no more: what is charged for the rest of the
\* prompt, on top of what the prefill of the cached tokens would take, is the
\* work of the whole prompt; only the activations of the cached tokens are not
\* moved, and the time is no more than that of the cold prompt.
HitSavesItsWork ==
    req.pc # "idle" /\ req.hit < Prompt =>
        /\ req.flops + PrefillFlops(Model(cfg), req.hit, 0) = PrefillFlops(Model(cfg), Prompt, 0)
        /\ req.bytes + ActivationBytes(Model(cfg)) * req.hit = PrefillBytes(Model(cfg), Prompt, 0)
        /\ req.prefill <= PrefillLatency(cfg, Prompt, 0)

\* The server's sleeps add up to the estimate of the calculator, when nothing is
\* charged for communication and nothing is scaled: except that the first token,
\* which by the estimate comes from the prefill, takes a decode step as well.
ServedIsEstimate ==
    LET hw == Hardware(cfg)
        m == Model(cfg)
    IN  Roof(cfg) /\ cfg.tp = 1 /\ cfg.pp = 1 /\ req.generated > 0 =>
            req.prefill + req.decode =
                EstimateTotal(hw, m, Prompt, req.generated, req.hit)
                    + IF req.hit < Prompt THEN DecodeTime(hw, m, Prompt) ELSE 0

\* How close an anchor is to the configuration: same GPU counts more than same
\* model ("most-specific first").
Closeness(a) ==
    (IF a.gpu = cfg.gpu THEN 2 ELSE 0) + (IF a.model = cfg.model THEN 1 ELSE 0)

\* Only the closest measurements decide: a usable anchor that is less close than
\* another one of its kind can be left out of the file, and so can one of an
\* unknown profile.
ClosestAnchorsDecide ==
    \A kind \in {"prefill", "decode"}, i \in DOMAIN cfg.anchors :
        /\ cfg.calibrated
        /\ \/ ~Known(cfg.anchors[i])
           \/ \E j \in DOMAIN cfg.anchors :
                 /\ Usable(cfg.anchors[j], kind)
                 /\ Closeness(cfg.anchors[j]) > Closeness(cfg.anchors[i])
        => Scale([cfg EXCEPT !.anchors = Restrict(@, DOMAIN @ \ {i})], kind) = Scale(cfg, kind)

\* A measurement of this very configuration is reproduced: if it is the only
\* exact anchor and is not clamped, the latency of its own prompt is the measured
\* one (test_calibration.py, test_exact_anchor_scales_to_measurement).
MeasurementReproduced ==
    \A kind \in {"prefill", "decode"}, i \in DOMAIN cfg.anchors :
        LET a == cfg.anchors[i]
            exact == {j \in DOMAIN cfg.anchors :
                          Usable(cfg.anchors[j], kind) /\ Closeness(cfg.anchors[j]) = 3}
            scale == Scale(cfg, kind)[i]
            latency == IF kind = "prefill" THEN PrefillLatency(cfg, a.isl, 0)
                       ELSE DecodeLatency(cfg, a.isl)
        IN  /\ cfg.calibrated
            /\ exact = {i}
            /\ a.tp = cfg.tp /\ cfg.pp = 1 /\ cfg.link = 0
            /\ cfg.allreduce \/ cfg.tp = 1
            /\ scale \notin {MinScale, MaxScale}
            => latency * scale[1] = Measured(a, kind) * TimeUnit(cfg) * scale[2]

=============================================================================
