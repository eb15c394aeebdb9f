------------------------------ MODULE Serving -------------------------------
(***************************************************************************)
(* Chat completions at the combined, prefill and decode servers            *)
(* (servers/combined.py, prefill.py, decode.py) behind the routes of       *)
(* servers/app.py.  The servers share one KV store: a combined server has  *)
(* it for itself, prefill and decode servers meet in it.                   *)
(*                                                                         *)
(* A request is a coroutine.  An action is what happens between two of its *)
(* awaits: a KV call returns or raises, a simulated latency is over, an    *)
(* event has been sent.  Requests interleave at each of them.              *)
(***************************************************************************)
EXTENDS Integers, Sequences, FiniteSets, SequencesExt, FiniteSetsExt

CONSTANTS
    Requests,       \* requests, each sent once
    Offers,         \* what they ask: server, stream and prompt
    Contents,       \* what a chunk of a prompt may hold
    ChunkSize,      \* tokens per chunk of the KV stack
    MaxTokens,      \* max_tokens
    Faulty,         \* whether a KV call may raise
    Evicting,       \* whether the KV store may drop a chunk
    Disconnecting   \* whether a client may leave its stream

Servers == {"combined", "prefill", "decode"}

\* A prompt is the contents of its full chunks and the tokens that are left.
Prompts == [chunks: Seq(Contents), tail: 0..(ChunkSize - 1)]

ASSUME ServingAssumption ==
    /\ ChunkSize \in Nat \ {0}
    /\ MaxTokens \in Nat \ {0}
    /\ {Faulty, Evicting, Disconnecting} \subseteq BOOLEAN
    /\ Offers \subseteq [server: Servers, stream: BOOLEAN, prompt: Prompts]

VARIABLES
    req,       \* the coroutine of each request
    stats,     \* self.stats of each server
    cached,    \* chunks in the KV store
    evicted    \* history: chunks that were dropped

vars == <<req, stats, cached, evicted>>

None == -1

\* A chunk is known by all tokens up to its end (LMCache hashes the prefix).
Paths(p) == {SubSeq(p.chunks, 1, k) : k \in 1..Len(p.chunks)}

NumTokens(p) == Len(p.chunks) * ChunkSize + p.tail

\* Leading chunks of p that the KV store holds.
Hit(p) ==
    Max({k \in 0..Len(p.chunks) : \A j \in 1..k : SubSeq(p.chunks, 1, j) \in cached})

\* The chunks of a prompt the lookup did not find, the partial one included.
Misses(q) ==
    (NumTokens(q.prompt) - q.hit * ChunkSize + ChunkSize - 1) \div ChunkSize

InFlight(q) ==
    q.pc \in {"lookup", "retrieve", "compute", "store", "decode", "ending", "sent"}

NoStats == [total |-> 0, success |-> 0, failed |-> 0, prompt |-> 0,
            completion |-> 0, hits |-> 0, misses |-> 0]

Init ==
    /\ req = [r \in Requests |->
                [pc |-> "idle", server |-> "combined", stream |-> FALSE,
                 prompt |-> [chunks |-> <<>>, tail |-> 0], hit |-> None,
                 generated |-> 0, out |-> <<>>, warm |-> FALSE]]
    /\ stats = [s \in Servers |-> NoStats]
    /\ cached = {}
    /\ evicted = {}

-----------------------------------------------------------------------------

Events == {"role", "content", "end", "done", "error"}

\* An event of a stream.
Yield(q, event) == IF q.stream THEN [q EXCEPT !.out = Append(@, event)] ELSE q

Decoding(q) == Yield([q EXCEPT !.pc = "decode"], "role")

\* Some request has already put prompt p into the KV store.
Prefilled(p) ==
    \E r \in Requests : /\ req[r].prompt = p
                        /\ req[r].server # "decode"
                        /\ req[r].pc = "ok"

\* A prefill server answers a stream with an error and never sees it.
Arrive(r, o) ==
    LET q == [req[r] EXCEPT !.server = o.server, !.stream = o.stream,
                            !.prompt = o.prompt, !.warm = Prefilled(o.prompt)]
    IN  /\ req[r].pc = "idle"
        /\ \/ /\ o.server = "prefill"
              /\ o.stream
              /\ req' = [req EXCEPT ![r] = [q EXCEPT !.pc = "refused", !.out = <<"error">>]]
              /\ UNCHANGED stats
           \/ /\ ~(o.server = "prefill" /\ o.stream)
              /\ req' = [req EXCEPT ![r] =
                           IF o.server = "decode" /\ NumTokens(o.prompt) = 0
                           THEN Decoding(q) ELSE [q EXCEPT !.pc = "lookup"]]
              /\ stats' = [stats EXCEPT ![o.server].total = @ + 1]
        /\ UNCHANGED <<cached, evicted>>

\* The KV phase is over: a prefill server answers, the others decode.
Answering(q) == IF q.server = "prefill" THEN [q EXCEPT !.pc = "ok"] ELSE Decoding(q)

\* The statistics c of its server after the KV phase of q.
Counted(c, q) ==
    [c EXCEPT !.hits = @ + q.hit,
              !.misses = @ + Misses(q),
              !.prompt = @ + (IF q.server # "decode" THEN NumTokens(q.prompt) ELSE 0),
              !.success = @ + (IF q.server = "prefill" THEN 1 ELSE 0)]

Loaded(r, q) ==
    /\ req' = [req EXCEPT ![r] = Answering(q)]
    /\ stats' = [stats EXCEPT ![q.server] = Counted(@, q)]

\* What follows the lookup, or the retrieval of what it found.
Prefill(r, q) ==
    \/ /\ q.server = "decode" \/ Misses(q) = 0
       /\ Loaded(r, q)
    \/ /\ q.server # "decode"
       /\ Misses(q) > 0
       /\ req' = [req EXCEPT ![r] = [q EXCEPT !.pc = "compute"]]
       /\ UNCHANGED stats

LookupReturns(r) ==
    LET q == [req[r] EXCEPT !.hit = Hit(req[r].prompt)]
    IN  /\ req[r].pc = "lookup"
        /\ \/ /\ q.hit > 0
              /\ req' = [req EXCEPT ![r] = [q EXCEPT !.pc = "retrieve"]]
              /\ UNCHANGED stats
           \/ /\ q.hit = 0
              /\ Prefill(r, q)
        /\ UNCHANGED <<cached, evicted>>

\* How much it retrieved is not looked at.
RetrieveReturns(r) ==
    /\ req[r].pc = "retrieve"
    /\ Prefill(r, req[r])
    /\ UNCHANGED <<cached, evicted>>

\* Slip: a store is awaited though none was issued.
ComputeEnds_Awaits(r) ==
    /\ req[r].pc = "compute"
    /\ Len(req[r].prompt.chunks) > req[r].hit
    /\ req' = [req EXCEPT ![r].pc = "store"]
    /\ UNCHANGED <<stats, cached, evicted>>

\* Only full chunks are stored, and no store is issued when there is none left.
ComputeEnds(r) ==
    LET q == req[r]
    IN  /\ q.pc = "compute"
        /\ \/ /\ Len(q.prompt.chunks) > q.hit
              /\ req' = [req EXCEPT ![r].pc = "store"]
              /\ UNCHANGED stats
           \/ /\ Len(q.prompt.chunks) <= q.hit
              /\ Loaded(r, q)
        /\ UNCHANGED <<cached, evicted>>

\* Slip: one chunk too many is skipped.
Stored_Skip(q) == {SubSeq(q.prompt.chunks, 1, k) : k \in (q.hit + 2)..Len(q.prompt.chunks)}

\* Slip: the last full chunk is taken for a partial one.
Stored_Short(q) ==
    {SubSeq(q.prompt.chunks, 1, k) : k \in (q.hit + 1)..(Len(q.prompt.chunks) - 1)}

\* store(tokens[:store_end], skip_leading = hit_tokens)
Stored(q) == {SubSeq(q.prompt.chunks, 1, k) : k \in (q.hit + 1)..Len(q.prompt.chunks)}

StoreReturns(r) ==
    /\ req[r].pc = "store"
    /\ cached' = cached \cup Stored(req[r])
    /\ Loaded(r, req[r])
    /\ UNCHANGED evicted

\* Slip: the combined server lets the exception through, as a decode stream does.
Raises_Through(r) ==
    LET q == req[r]
    IN  /\ Faulty
        /\ q.pc \in {"lookup", "retrieve", "store"}
        /\ \/ /\ ~q.stream
              /\ req' = [req EXCEPT ![r].pc = "failed"]
              /\ stats' = [stats EXCEPT ![q.server].failed = @ + 1]
           \/ /\ q.stream
              /\ req' = [req EXCEPT ![r] = [Yield(q, "error") EXCEPT !.pc = "failed"]]
              /\ UNCHANGED stats
        /\ UNCHANGED <<cached, evicted>>

\* A KV call raises: the request fails, except that nothing catches the
\* exception of a decode server's stream.
Raises(r) ==
    LET q == req[r]
    IN  /\ Faulty
        /\ q.pc \in {"lookup", "retrieve", "store"}
        /\ \/ /\ ~(q.server = "decode" /\ q.stream)
              /\ req' = [req EXCEPT ![r] = [Yield(q, "error") EXCEPT !.pc = "failed"]]
              /\ stats' = [stats EXCEPT ![q.server].failed = @ + 1]
           \/ /\ q.server = "decode"
              /\ q.stream
              /\ req' = [req EXCEPT ![r].pc = "broken"]
              /\ UNCHANGED stats
        /\ UNCHANGED <<cached, evicted>>

\* Slip: one token more than asked for.
Token_OneMore(r) ==
    /\ req[r].pc = "decode"
    /\ req[r].generated <= MaxTokens
    /\ req' = [req EXCEPT ![r] = Yield([req[r] EXCEPT !.generated = @ + 1], "content")]
    /\ UNCHANGED <<stats, cached, evicted>>

Token(r) ==
    /\ req[r].pc = "decode"
    /\ req[r].generated < MaxTokens
    /\ req' = [req EXCEPT ![r] = Yield([req[r] EXCEPT !.generated = @ + 1], "content")]
    /\ UNCHANGED <<stats, cached, evicted>>

SendEnd(r) ==
    /\ req[r].stream
    /\ \/ /\ req[r].pc = "decode"
          /\ req[r].generated = MaxTokens
          /\ req' = [req EXCEPT ![r] = Yield([req[r] EXCEPT !.pc = "ending"], "end")]
       \/ /\ req[r].pc = "ending"
          /\ req' = [req EXCEPT ![r] = Yield([req[r] EXCEPT !.pc = "sent"], "done")]
    /\ UNCHANGED <<stats, cached, evicted>>

\* A stream is counted once [DONE] is sent, a plain response before it is.
Succeeds(r) ==
    /\ \/ req[r].pc = "sent"
       \/ ~req[r].stream /\ req[r].pc = "decode" /\ req[r].generated = MaxTokens
    /\ req' = [req EXCEPT ![r].pc = "ok"]
    /\ stats' = [stats EXCEPT ![req[r].server].success = @ + 1,
                              ![req[r].server].completion = @ + MaxTokens]
    /\ UNCHANGED <<cached, evicted>>

\* The client leaves: neither handler sees CancelledError or GeneratorExit.  The
\* thread of a store goes on unless the executor had not started it.
Disconnect(r) ==
    /\ Disconnecting
    /\ req[r].stream
    /\ InFlight(req[r])
    /\ \/ req' = [req EXCEPT ![r].pc = "gone"]
       \/ /\ req[r].pc = "store"
          /\ req' = [req EXCEPT ![r].pc = "detached"]
    /\ UNCHANGED <<stats, cached, evicted>>

DetachedStore(r) ==
    /\ req[r].pc = "detached"
    /\ req' = [req EXCEPT ![r].pc = "gone"]
    /\ cached' = cached \cup Stored(req[r])
    /\ UNCHANGED <<stats, evicted>>

Evict(k) ==
    /\ Evicting
    /\ cached' = cached \ {k}
    /\ evicted' = evicted \cup {k}
    /\ UNCHANGED <<req, stats>>

-----------------------------------------------------------------------------

Handle(r) ==
    \/ LookupReturns(r)
    \/ RetrieveReturns(r)
    \/ ComputeEnds(r)
    \/ StoreReturns(r)
    \/ Raises(r)
    \/ Token(r)
    \/ SendEnd(r)
    \/ Succeeds(r)

Next ==
    \/ \E r \in Requests :
          \/ \E o \in Offers : Arrive(r, o)
          \/ Handle(r)
          \/ Disconnect(r)
          \/ DetachedStore(r)
    \/ \E k \in cached : Evict(k)

Spec == Init /\ [][Next]_vars

\* KV calls return, simulated latencies are over and events are sent.
FairSpec == Spec /\ \A r \in Requests : WF_vars(Handle(r))

-----------------------------------------------------------------------------
(* Properties *)

RequestType ==
    [pc: {"idle", "lookup", "retrieve", "compute", "store", "decode", "ending", "sent",
          "ok", "failed", "broken", "refused", "gone", "detached"},
     server: Servers, stream: BOOLEAN, prompt: Prompts, hit: Nat \cup {None},
     generated: 0..MaxTokens, out: Seq(Events), warm: BOOLEAN]

StatsType == [total: Nat, success: Nat, failed: Nat, prompt: Nat, completion: Nat,
              hits: Nat, misses: Nat]

TypeOK ==
    /\ req \in [Requests -> RequestType]
    /\ \A r \in Requests : req[r].hit <= Len(req[r].prompt.chunks)
    /\ stats \in [Servers -> StatsType]
    /\ cached \cup evicted \subseteq Seq(Contents)

\* The requests of server s that its statistics count in the total only.
Uncounted(s) ==
    {r \in Requests : /\ req[r].server = s
                      /\ InFlight(req[r]) \/ req[r].pc \in {"gone", "detached", "broken"}}

\* Requests of s that got past their KV phase with a prompt.
Loads(s) ==
    {r \in Requests : /\ req[r].server = s
                      /\ req[r].hit # None
                      /\ \/ req[r].pc \in {"decode", "ending", "sent", "ok"}
                         \/ req[r].pc = "gone" /\ req[r].out # <<>>}

\* The chunks of a prompt, the partial one included.
Chunks(p) == Len(p.chunks) + (IF p.tail > 0 THEN 1 ELSE 0)

\* The chunks of all their prompts.
LoadedChunks(s) == UNION {{r} \X (1..Chunks(req[r].prompt)) : r \in Loads(s)}

\* Every request a server has counted is a success, a failure, still in flight,
\* abandoned by its client or a broken decode stream, each exactly once; hits and
\* misses together are the chunks of the prompts, whatever was cached, stored by
\* others or evicted while a request was on its way.
StatsAccounted ==
    \A s \in Servers :
        /\ stats[s].total = stats[s].success + stats[s].failed + Cardinality(Uncounted(s))
        /\ stats[s].hits + stats[s].misses = Cardinality(LoadedChunks(s))

\* No request leaves a hole: a chunk is stored without the one before it only
\* where that one has been evicted since a lookup found it (lines 221-223).
HolesAreEvicted ==
    \A k \in cached : \A j \in 1..Len(k) :
        SubSeq(k, 1, j) \in cached \/ SubSeq(k, 1, j) \in evicted

\* A request that arrives after its prompt was prefilled finds all full chunks,
\* at whichever server, unless some were evicted: the hand-off of prefill to
\* decode loses nothing.
PrefillIsFound ==
    \A r \in Requests :
        req[r].warm /\ req[r].hit # None =>
            \/ req[r].hit = Len(req[r].prompt.chunks)
            \/ Paths(req[r].prompt) \cap evicted # {}

\* requests_failed is the number of failed requests.
FailuresCounted ==
    \A s \in Servers :
        stats[s].failed = Cardinality({r \in Requests : /\ req[r].server = s
                                                        /\ req[r].pc \in {"failed", "broken"}})

\* Every request that arrived is answered or abandoned.
RequestsEnd == \A r \in Requests : InFlight(req[r]) ~> ~InFlight(req[r])

\* Every stream is one that ChatStream allows.
Streams == INSTANCE ChatStream
               WITH out <- [r \in Requests |-> req[r].out],
                    over <- [r \in Requests |-> req[r].pc # "idle" /\ ~InFlight(req[r])]

ImplementsChatStream == Streams!Spec

=============================================================================
