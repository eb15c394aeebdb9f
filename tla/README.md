# KV-Bench in TLA+

KV-Bench (`src/src/kvbench`) is a mock LLM server that drives a real KV-cache
stack (LMCache) so that its storage can be benchmarked. Requests are tokenized
and timed by a model, but every lookup, store and retrieve goes through LMCache.
This directory specifies the parts of it that keep state over time and the
algorithms the benchmark's numbers rest on, checks them with TLC on small
instances, and proves the most important facts with TLAPS.

## 1. Inventory

### Components

| Component | State it keeps | Operations | Module |
|---|---|---|---|
| Warmup controller, `servers/warmup.py` | status of the last run, its task, first sequence, nonce counter, store workers | `start`, `cancel`, `_run`, `_worker`, `_check_eviction` | `Warmup` |
| LMCache stack, `kv/lmcache_stack.py`, `kv/base.py` | list of rank engines, the first engine, trace recorder, statistics | `start`, `lookup`, `store`, `retrieve`, `close` | `LMCacheStack` |
| Combined, prefill and decode servers | statistics; one coroutine per request | `chat_completions`, `chat_completions_stream` | `Serving`; what they charge in `PromptCost` |
| HTTP application, `servers/app.py` | the server, the stack, the warmup controller, two histograms | routes, startup, shutdown, loading of the configuration | `Lifecycle`; its routes in `Serving` and `Warmup` |
| Disaggregated proxy, `servers/proxy.py` | endpoints with their connections, two round-robin counters, statistics, a health task | selection, two-phase requests, streams | `Proxy` |
| Trace recorder, `trace/recorder.py` | open file, counters, flush state | `record`, `flush`, `close` | `TraceRecorder` |
| Trace analysis and FIO, `trace/analyze.py`, `trace/fio.py` | none | summaries of a trace, FIO jobs | `TraceWorkload` |
| Token processing, `core/tokens.py` | none | tokenize, chunk, hash, match, keys | `PrefixIndex`; token counts in `Serving` |
| Timing, `timing/*`, `core/latency.py` | the selected calibration | prefill and decode latency | `Latency`, `Timing` |
| Profiles, `core/models.py`, `core/gpu_profiles.py` | none | tables and derived sizes | constants of `Timing`, the derived sizes in `Latency` |
| Configuration, command line, factories | none that changes; a temporary file | resolve, validate, write, load; `serve`, `warmup` | `Lifecycle` |
| OpenAI schemas, mock GPU connector, metrics collector, distributed package | none that others read | parse, draw, print | not modelled (section 5) |

### How they interact

All coroutines of a process share one event loop; what runs between two `await`s
is atomic. The KV stack hands each engine call to a thread with
`asyncio.to_thread`, one per tensor-parallel rank, and gathers them. Cancelling a
coroutine does not stop its thread. The application starts the stack, then the
server; a chat route calls the server, which calls the stack; the warmup routes
call the controller, whose workers call the stack as well. `kvbench serve`
resolves a configuration, hands it to its worker processes in a temporary file,
and may have several of them; `kvbench warmup` posts a run to one and polls. A
server asks its timing strategy how long to sleep, with the hit the lookup found.
The recorder wraps the storage backends inside the stack; the analysis reads its
file later. LMCache itself is external: its engines and its builder's registry are
modelled from how the code here uses them.

### What is hard

* A decision taken before an `await` and used after it: a worker's check of the
  byte target, the hit length of a prompt, the status that `cancel()` judges.
* Cancellation, which reaches a coroutine wherever it stands, and does not reach
  its thread.
* `asyncio.gather`, which raises the first exception and leaves the rest running.
* A failure of one rank, one worker or one KV call among several.
* Pairs of names or lists that must match: engine names at `start` and `close`,
  `_engines` and `_engine`, the events of a stream and the counters.
* Processes that find each other through a file and a port: a worker that loads
  the file while it is empty, one that is replaced, a poll that reaches another
  worker than the POST did.
* Arithmetic that must fit together: chained hashes, shards of layers, the prefill
  of the rest of a prompt on top of a hit, the ranking of measurements, a job file
  whose sizes are rounded.

`PROJECT.json` lists the hazards with their lines and the properties that watch
them. A hazard without a property has a note.

### What makes each part correct

* Warmup: the fill is bounded, concurrency is kept, the eviction verdict is about
  a sequence that was stored, the reported state is that of the run that is
  there, every run ends and every cancellation is answered.
* Stack: ranks agree; a store that returned is on all of them; a hit stays one;
  every call and every `close()` ends; `close()` releases all.
* Servers: every request and every chunk is accounted for; no store leaves a hole
  that eviction did not make; a decode server finds what was prefilled; every
  stream is well formed.
* Proxy: connection counts are exact and are given back, round robin is balanced,
  every request and every phase is accounted for.
* Trace: lines and counters agree, a kill loses a bounded part, the order of lines
  shows what caused what, the analysis does not invent parallelism, and the job
  made of a trace has the files the disk has, but for those written again and the
  removals that missed.
* Cost: hits are neither false nor missed, keys tell shards apart, a hit saves its
  own work and no more, the sleeps of a request add up to the estimate, and a
  calibration reproduces what was measured.
* Lifecycle: every worker serves what `serve` resolved, the stack outlives the server
  and the controller's run, a verdict is about the run that was asked for, everything
  ends.

## 2. Modules

```
WarmupRun  <- refinement - Warmup        <- MCWarmup,        Warmup_proofs
ChatStream <- refinement - Serving       <- MCServing,       Serving_proofs
ChatStream <- refinement - Proxy         <- MCProxy,         Proxy_proofs
                           LMCacheStack  <- MCLMCacheStack,  LMCacheStack_proofs
                           Lifecycle     <- MCLifecycle,     Lifecycle_proofs
TraceRecorder <- TraceWorkload           <- MCTraceRecorder, TraceWorkload_proofs
Latency <- Timing \
      PrefixIndex  <- PromptCost         <- MCPromptCost,    PromptCost_proofs
```

An arrow without a word is EXTENDS. The detailed modules each take the neighbour
they call as external state of their own: `Warmup` and `Serving` see the KV stack
as a set of stored sequences or chunks with calls that return or raise,
`LMCacheStack` sees its callers as coroutines that call it in any order, and
`Lifecycle` sees a warmup run as something that starts, ends and is cancelled.
`PromptCost` composes the prefix index, the timing strategies and the KV path of a
combined server. `Proxy` simulates its backends with sleeps, and so does its model.

### Warmup

`status` is `WarmupState` with the parameters later steps read, `task` is where
the coroutine of `_run` stands (created, at its `gather`, reaping cancelled
workers, looking up, sleeping, ended) with a pending cancellation, `worker` holds
the store workers of every run, so that those of an earlier run can outlive it.
`client` is a request that awaits the cancelled task, `threads` are the stores a
thread is executing and `cache` is what the stack holds, oldest first.

A step of the event loop is an action: `Start` and `Cancel` are the routes,
`CancelReturns` is the rest of `cancel()` after its `await` (line 159),
`RunStarts` ... `CheckInterrupted` are the steps of `_run` and `_check_eviction`,
`WorkerStarts` ... `WorkerCancelled` those of `_worker`. `Gathered` is
`asyncio.gather`: it settles with the first worker that raises or is cancelled, or
with the last one that returns. `Interrupt` is `task.cancel()` and has one
disjunct for each thing the task may be awaiting. `StoreEnds` and `LookupEnds` are
the stack.

Abstracted: the contents of a sequence (a nonce stands for it), the clock, the
store's TP ranks, `rate_mb_s`. Tiers evict their oldest sequence, as the tests'
`FakeKVStack` does. Percent stands for `fill_factor`.

`WarmupRun` is what a client of the API is told: idle or one run at a time, bytes
that start at zero and only grow while it runs or after it failed (the workers that
`gather` leaves), one final state.

### LMCacheStack

`deployment` is the number of ranks, a bound on starts, and whether the builder may
raise or an engine evict; `owner` is where `start()` or `close()` stands,
`registry` the external builder's engines by instance name, `opened` the engines
that run, `engines` and `engine` are `self._engines` and `self._engine`,
`recorders` the open trace files, `held` the chunks of each engine. `call` is the
last call of each caller, and `threads` the engine calls under way, awaited or
left behind.

`StartConfigures`, `StartRank` and `StartRaises` are `_start_engine` (lines
107-187) rank by rank, which may raise before an engine is in the list or after it,
where the trace is installed; `CloseBegins` ... `CloseEnds` are `close` and
`_close_sync`. `Name` is the instance name: `instance_id` with one rank,
`instance_id-r<rank>` with several (line 153), while `CloseDestroys` uses
`instance_id` (line 349). `Begin` issues the threads of a call, `ThreadReturns`
and `ThreadRaises` end one of them and, with the last one or the first exception,
the call; `CallCancelled` leaves them behind; `Rejected` is `_require_engine`.

Abstracted: a prompt is `DocLen` chunks, an engine a set of chunks that answers
with the longest prefix it holds. Tensors, masks and the connector are left out.

### Serving

`req` is the coroutine of each request: where it stands, what its lookup found,
the tokens generated, the events sent (`out`). `stats` is `self.stats` of each
server. `cached` is the set of chunks in the shared store; a chunk is the sequence
of `Contents` up to its end, as LMCache's keys are hashes of the prefix. `warm` and
`evicted` are history variables that no action reads.

The three servers differ by guards: a prefill server answers after its store, a
decode server never stores and skips the KV path for an empty prompt, and a
decode stream has no `try` (`Raises`, second disjunct). `LookupReturns`,
`RetrieveReturns`, `ComputeEnds`, `StoreReturns` are the awaits of
`_process_prefill` and `_load_context_kv`; `Token`, `SendEnd` and `Succeeds` the
rest of a response. The engine's answer and the coroutine's resumption are one
step here: between them only the request itself could act. `Disconnect` is a
client that leaves its stream: `CancelledError` and `GeneratorExit` pass
`except Exception`, and the thread of a store goes on (`DetachedStore`).

`ChatStream` is the promise to the client of a stream: one error event and
nothing else, or a prefix of role, content, finish reason, `[DONE]`.

Abstracted: texts, latencies (any delay; `PromptCost` has them),
`total_latency_ms`, the two histograms, and `max_tokens` above two. The error event
of a failed stream and the end of the response are one step.

### Proxy

`deployment` is the number of endpoints of each phase and the strategy, fixed at
start; `index`, `active`, `served` and `stats` are the round-robin counters,
`active_connections`, `total_requests` and `ProxyStats`. `req` is the coroutine of
each request. `Selectable` is what a strategy may answer: the endpoint whose turn
it is, the first of the least connected, or any.

A plain request goes through `Arrive`, `PrefillEnds`, `Token`s, `DecodeEnds`. A
stream stands at a sleep (`prefill`, `decode`) or at a yield (`refused`, `role`,
`content`, `end`, `done`), and the difference matters when its client leaves: at
a sleep `CancelledError` runs the `finally` that closes the connection, at the
yield of a token the inner generator stays suspended, connected, until the event
loop finalizes it (`Finalize`). A decode endpoint is selected before the role
event and connected to after it (`StreamOpens`).

Nothing in the program sets `healthy` to false, so `healthy_servers` is the whole
list, empty where a deployment has no endpoint of a phase. The simulated calls
do not raise and always report success, so the `except` branch and "Prefill
failed" are unreachable and left out. The health loop only writes timestamps that
nothing reads.

### TraceRecorder

`recorder` is the recorder of the process that runs, with the counters per
operation, `buffer` what its file object holds, `file` the lines on disk, `clock`
the process-relative time of `mono_ms`. `thread` is where each thread of the
backend stands in a wrapper: running the original, recording, or stamped and
waiting for the lock. `disk` is the set of files of the backend, so that a removal
finds its file or misses (`hit`, which of the other operations is kept as history), and `submitted` counts the writes a put has asked
for. `Begin` and `Returns` are the wrappers: a put is recorded and then submitted,
all others run first (`RecordedFirst`). `Stamp` is `record()` up to its lock,
`Record` the rest; what runs under the lock is one step, since nothing but
`_closed` and the counters is read without it. `Open` truncates the file and starts
the clock anew, `Exit` ends or kills the process.

The file object's own buffer of a megabyte is larger than what `FlushRecords` lines
take, so that only a flush writes. The rounding of times is finer than the time a
record takes.

### TraceWorkload

What is read off the lines. `MaxConcurrency` is the sweep over the sorted ends of
the intervals, `DominantSize` the most common file size (of two the first, as
`Counter.most_common` has it), `SteadyStateFiles` writes minus removals. `FmtBytes`
is `_fmt_bytes`: the size its text says, a whole number of a unit or one decimal of
it, rounded half to even; how FIO reads a decimal is not shown by this code and not
modelled. `GenerateFioJob` puts the parameters together. `Overwrites` and `Misses` are
the lines of writes over a file and of removals of none, by which the file set of a job
drifts from the disk.
Sizes are in tenths of a byte, since a decimal of a unit need not be a whole number
of bytes. The wording of the job file is left out.

### PrefixIndex, Latency, Timing

`PrefixIndex` is `core/tokens.py`: `Tokens` (a token per granule of the text),
`ChunkTokens`, `ChunkHashes` (chained), `FindPrefixMatch`, and the storage keys with
`MakeKeysForLayers`, `MakeKeysForAllWorkers` and `ParseKey`. `NoEnd` is a `layer_end`
that is left out, which makes it the first layer (`LastLayer`). Hashes are ideal: a
token is the bytes it stands for and a hash the chunks it was chained from. A key is
the sequence of its parts, and a model name with an `@` in it has two of them.

`Latency` is `core/latency.py`: the operations and bytes of a prefill and of a
decode step from the dimensions of a profile, and the roofline time. `Timing` is
`timing/*`: which strategy a configuration gets, what communication adds, and the
calibration: which measurements are usable, the four tiers from same model and GPU
to any, and the clamped scale. Times are exact: the code's floating-point
milliseconds are integers in a unit small enough for every division, so that
equalities can be stated. A geometric mean is left as its factors, each at the place
of its anchor in the file: two such scales are the same when their factors are.

### PromptCost

`cached` and `stored` are the cache and, as history, all it ever held; `cfg` the
configuration of the strategy; `req` the request in progress with what it was
charged. `Lookup`, `Store`, `Decode` are the steps of `_process_prefill` and of the
decode loop; `StoreElsewhere` and `Evict` are other requests and the tiers, which
go on between the steps.

### Lifecycle

`call` is how `serve` is called (flags, file, environment, workers, reload), `serve`
where it stands, `resolved` the configuration it arrived at, `file` the temporary
file, `worker` each worker process with its stack, its server and its warmup run,
`client` the `kvbench warmup` command.

`Resolve`, `CreateFile`, `WriteFile`, `Unlink` are `serve` (main.py:85-213).
`Load`, `StartKV`, `StartServer` are `get_app` and `_startup`; `Stop`, `StopStep`,
`Exit` are `_shutdown`, step by step in its order: warmup, server, stack. Either step
of a startup may fail, and then the process ends with what it has opened. `Kill`
ends a process at once. A supervisor, which exists with several workers or with
`--reload`, lets `Load` happen again. `StartRun` is the warmup route, used by the
command (`Post`) and by others (`OtherRun`), `CancelRun` the route that cancels; `Poll` is the command's loop, on the
connection it has or, when that was dropped, to any worker.

Two settings stand for all: the server type, which a flag can give, and the stack,
which cannot. Each source gives them, does not, or gives a value that validation
rejects.

## 3. Runs

| Run | Expect | What it asks |
|---|---|---|
| `warmup` | pass | one client, two runs of one or two workers, cancellations at any time, no faults; or one run of three workers, two cancelling clients, stores and lookups that raise: `TypeOK`, `OvershootBound`, `ConcurrencyKept`, `EvictionSeen`, `LiveRunReported`, `StateIsTrue`, `ImplementsWarmupRun` with its liveness, and `RunsAndCancelsEnd` |
| `warmup_cancel_race` | violation | two clients: a live run is reported cancelled (`LiveRunReported`) |
| `warmup_orphans` | violation | a failed run leaves workers that store along with the next one's (`ConcurrencyKept`) |
| `stack_ranks` | pass | two ranks with a builder that may fail, and one rank started twice with an engine that evicts; two callers, faults, cancellations, `close()` under calls: `OneRankReleases`, `StoreOkMeansStored`, `HitStaysHit`, `RanksAgree`, `CallsAndCloseEnd` |
| `stack_close_leak` | violation | two ranks: `close()` destroys none of the engines (`CloseReleases`) |
| `serving` | pass | two requests of any kind over one store with faults, evictions and disconnections: `TypeOK`, `StatsAccounted`, `HolesAreEvicted`, `PrefillIsFound`, `RequestsEnd`, `ImplementsChatStream` |
| `serving_uncounted` | violation | a decode stream that fails is not counted as failed (`FailuresCounted`) |
| `proxy` | pass | three requests through deployments of every strategy, with clients that leave at every await and yield: `ConnectionsCounted`, `RoundRobinBalanced`, `PhasesAccounted`, `ConnectionsReturned`, `ImplementsChatStream` |
| `trace` | pass | two threads through the wrappers while the recorder is closed, killed and reopened, and the job of every trace: `LinesAreCounted`, `PutsPrecedeWrites`, `PeakWithinThreads`, `JobCoversDisk` |
| `trace_job_size` | violation | the block and file size of a job is the size of no chunk (`JobWritesChunks`) |
| `prompt_cost` | pass | a request of any prompt under any strategy while others store and evict: `HitsAreExact`, `KeysIdentifyShards`, `HitSavesItsWork`, `ServedIsEstimate`, `ClosestAnchorsDecide`, `MeasurementReproduced` |
| `lifecycle` | pass | seven ways to call `serve`, workers that fail, are killed, reloaded and replaced, warmup runs of the command and of others, cancelled or not: `WorkersServeResolvedConfig`, `KvOutlivesItsUsers`, `VerdictIsFresh`, `StopCleansUp`, `ClientEnds` |

Deadlock is checked in `prompt_cost`. It is off elsewhere: clients may stop
sending, `serve` ends, and the bounds below end a behaviour.

### Bounds

* `Warmup`: `MaxRuns` = 2, since everything a run can do to a later one needs two.
  Faults and a second client come with one run (`MCNext`), since with two they break
  what `warmup_orphans` and `warmup_cancel_race` show broken; that run has three
  workers, so that one may raise, one return and one still be storing. Tiers hold one
  sequence, requests need one to three, so that fills at and above the capacity occur. `Attempts`
  (EVICTION_CHECK_ATTEMPTS, 5 in the code) = 1: the loop has one way to continue and
  one to give up, and the proofs hold for every value.
* `LMCacheStack`: the code tells apart one rank and several. One prompt of two
  chunks (`DocLen`) gives a full, a partial and no hit. `MaxCalls` = 3 with two
  callers allows a store, another store in between and the retrieve or lookup that
  tells. Two starts of one rank: what a second one adds to the lists of the first.
* `Serving`: two requests of nine kinds, prompts of two chunks, one chunk and a
  token, and nothing; `MaxTokens` = 2. A hole needs one request and an eviction, a
  hand-off two requests; a third adds interleavings of the same kind.
* `Proxy`: three requests, two to share or miss an endpoint, a third to arrive
  while they stand between selection and connection. Two endpoints per phase
  under round robin, one and two under the other strategies, none in one phase.
* `TraceRecorder`: two threads, `MaxOps` = 4 operations and `MaxTime` = 1 tick:
  two puts and two writes in any order, a flush by number (`FlushRecords` = 2) and
  by time (`FlushTicks` = 1), a thread that stands between its time and the lock
  while the other goes through a whole operation. Two keys with sizes 67 and 9 and
  a unit of 4 bytes: a size with a decimal and one without a unit. `MinFiles` = 3 (the
  floor of a file set) does not divide by two writers, so that a share loses a file.
  The number of processes is not bounded.
* `PromptCost`: texts with no, one, two full chunks and a partial one, of which two
  share a chunk after different beginnings; two bytes per token, two tokens per
  chunk, two workers, three layers in shards of one to three, two models with a plain
  name and one with an `@`. Twelve configurations
  reach every strategy, both sides of the roofline, both kinds of communication and
  every tier of anchors. `MaxTokens` = 2.
* `Lifecycle`: two workers, so that a poll can reach the wrong one; `MaxRuns` = 2, a
  run of the command and one of another client; `MaxStarts` = 3, two workers and a
  replacement. The seven scenarios have one worker, two, and `--reload`, and a value
  from each source, a bad one included.

### Fairness

The event loop runs every callback that is ready: weak fairness of the steps of a
task, a worker, a canceller, a request. Threads of the executor finish: weak
fairness of the ends of stores, lookups, engine calls and of the steps of `start`
and `close`. Generators that nothing refers to are finalized: asyncio's hooks
schedule their `aclose()`, a callback like others. In `Lifecycle`, `serve` and its
workers take their next step, uvicorn tells each worker to stop once `serve` is
stopping, runs end (`RunsAndCancelsEnd`), and the command polls.

Clients owe nothing: `Start`, `Cancel`, `Arrive`, `Disconnect`, `Post`,
`StartBegins`, `CloseBegins`, `Signal`, `Kill`, `Load`, runs of others and all
evictions have no fairness.

### Disagreements found

Each has a run whose counterexample TLC prints, and a quoted line in
`PROJECT.json`.

* `cancel()` looks at `self.status` after its `await`. Another request may have
  started a run in between, which is then marked cancelled while it goes on
  (warmup.py:159). The CLI stops polling it.
* `asyncio.gather` without `return_exceptions` leaves the other workers running
  when one store raises. They read the status of the next run and store along
  with its workers (warmup.py:199).
* With `tp_size` > 1 engines are created under names `close()` does not destroy
  (lmcache_stack.py:153, 349).
* A decode stream whose KV call raises is in no outcome counter (decode.py:280).
* The generated job says "bs = filesize = chunk size" (fio.py:118), but the text of a
  size keeps one decimal (fio.py:35): 17.15625 MiB becomes `17.2M`. `JobSizesAreNear`
  proves how far off it can be.

These were seen while modelling and have no run of their own:

* `make_key` takes a `layer_end` that is left out for `layer_start` (`LastLayer`;
  tokens.py:300, and a test says so), where its docstring says "meaning all layers"
  (line 294): default keys stand for the first layer.
* A second `start()` of one stack appends to the engine list of the first
  (lmcache_stack.py:176), which the application never does; `retrieve()` reports
  what the first rank found (line 246).
* The TTFT histogram observes the role event, the first of every stream
  (app.py:271), where prometheus.py:204 says content.
* The first token of a response is charged a decode step although the estimate
  takes it from the prefill; `ServedIsEstimate` says so.
* The calibration's documentation has "(and TP size, when it matches)": the TP size
  of an anchor is never compared with the server's. `MeasurementReproduced` asks for
  the same one.
* The environment is ignored when `--config` is given (main.py:96-109), and both
  KVBENCH_X and KVBENCH_X__Y set make `from_env` raise.
* An empty configuration file is the defaults (config.py:413-416); a `to_yaml` that
  raises leaves the temporary file, since the `try` begins after it.
* The CLI prints the simple timing even where the calibrated one wins (main.py:171).

## 4. Proofs

Seven modules prove, for every value of the constants that the named assumptions
allow, the theorems listed in `PROJECT.json`; an eighth, `ChatStream_proofs`, has
the lemmas about streams that two of them share. Every invariant the passing runs
check is among them, and both refinements of `ChatStream`. Each theorem goes through
an invariant that is inductive, `IInv` or a name of its own; the safety property is
a conjunct of it or follows.

`Warmup_proofs`, for any requests, workers, runs, chunk sizes and capacities:

| Theorem | States | Assumes |
|---|---|---|
| `TypeCorrect` | `TypeOK` | |
| `Overshoot` | `OvershootBound` | no faults |
| `Concurrency` | `ConcurrencyKept` | no faults |
| `EvictionIsSeen` | `EvictionSeen` | no faults |
| `LiveIsReported` | `LiveRunReported` | one control client |
| `StateReported` | `StateIsTrue` | one control client |
| `RefinesWarmupRun` | the safety part of `ImplementsWarmupRun` | one control client, no faults |

The assumptions are needed. On the instance of `warmup_cancel_race` TLC finds two
clients that break `LiveRunReported`, and `StateIsTrue` as well; on that of
`warmup_orphans` a fault leaves workers behind that break `ConcurrencyKept`, and
`OvershootBound` and `EvictionSeen` as well.

`Concurrency` needs to know why no worker of an earlier run is storing: `CrewInv`
says that only workers of the current run are alive, that they are alive only while
its task gathers or reaps, that their numbers are at most its concurrency, and that
a gather that has settled as `done` has no live worker. The theorem then counts: the
storing workers inject into `1..concurrency`. `Overshoot` needs the bytes that are
still on their way: `StoredInv` says that the stored bytes, together with one
sequence for each worker that passed the check, stay below the target plus
concurrency times the sequence size.

`EvictionIsSeen` has two halves. That a verdict is true (`EvictInv`) rests on nonces:
each is claimed once, a thread of a store has a worker that awaits it or was
cancelled, and a gather that is done has neither. So once the check runs, the first
sequence is on no thread, and no store brings it back. That one worker misses
nothing (`FillInv`) rests on the order of the stack: as long as the first sequence is
there, all the worker counted lies behind it (`BehindInv`), whatever threads of
cancelled runs add, so that a full hit means the target fits in the tiers. The
sums behind each place of the cache are a recursive function; what it computes is
shown with a least counterexample.

`LiveIsReported` and `StateReported` follow from `ReportInv`: with one client only
the current run is being cancelled, so that what `cancel()` finds after its `await` is
the status of the run it waited for; a run cancelled before its first step has a
canceller that will mark it; a run that reports its end has no worker left.
`RefinesWarmupRun` needs this and `CrewInv`, and maps every step to one of `WarmupRun`
or to none.

`LMCacheStack_proofs`, for any ranks, callers, prompts, faults and cancellations:

* `StoreReachesEveryRank`: `Spec => []StoreOkMeansStored`.
* `HitsStay`: `Spec => []HitStaysHit`.
* `OneRankIsReleased`: `Spec => []OneRankReleases`.
* `RanksHoldTheSame`: `Spec => []RanksAgree`.

A call that returned says something about threads that are gone, so `IInv` follows
them: `CallInv` ties each awaited thread to its call and to a rank the call is still
waiting for, `ThreadInv` says that the thread works on the engine of that rank, and
`ResultInv` that the ranks a store no longer waits for hold its chunks and that what
a lookup answered is still held. `BuiltInv` says which engines the lists name during
`start`. That the longest held prefix only grows with the chunks is `LeadingGrows`.
For one rank `Releasing` follows the engine, its name in the registry and the
recorder through each step of `close`. `RanksAgree` is about calls that all
succeeded, which a counter tells: `CountInv` keeps the calls that were issued at
least those that succeeded and those that run, and equal only if none failed;
`AgreeInv` then says that what one rank holds another holds too or a store that runs
still waits for it.

`Serving_proofs`, for any requests, prompts, chunk sizes, faults, evictions and
disconnections:

* `TypeCorrect`: `Spec => []TypeOK`.
* `NoHoles`: `Spec => []HolesAreEvicted`.
* `HandOff`: `Spec => []PrefillIsFound`.
* `StatsAreAccounted`: `Spec => []StatsAccounted`.
* `ImplementsStreams`: `Spec => ImplementsChatStream`.

Call a chunk *known* when it is held or was evicted: known chunks stay known
whatever happens, which is what makes the argument go through between the awaits of
a request. `ServingInv` says of each request that the chunks its lookup counted
are known (`LookedUp`), that past the KV phase of a server that stores, all its
chunks are (`Accounted`), and that this holds from the start of a request that
came after its prompt was prefilled, so that its lookup finds all of them unless
some were evicted (`Found`). A store then extends a known prefix without a gap,
and the lookup's maximum exists because the hit lengths are bounded by the prompt.
Sums over requests are stated as sizes of sets (`LoadedChunks` has an element for
each chunk of each loaded prompt), so that a step adds or removes what one request
contributes.

`Proxy_proofs`, for any finite set of requests and any endpoints:

* `ConnectionsAreExact`: `Spec => []ConnectionsCounted`.
* `RoundRobinIsEven`: `Spec => []RoundRobinBalanced`.
* `PhasesAreAccounted`: `Spec => []PhasesAccounted`.
* `ImplementsStreams`: `Spec => ImplementsChatStream`.

Each action moves one request, so that at most one endpoint gains it and one loses
it; `OneMoves` turns that into a step of the counts. `RoundRobinBalanced` alone is
not inductive: `TurnInv` gives each endpoint its exact count, the number of full
rounds, and one more for those whose turn came in the current round. `PlacedInv` says
that a request connected at an endpoint was assigned it.

Both refinements of `ChatStream` go the same way. `StreamInv` gives, for each place a
coroutine can stand at, how many events of a whole stream it has sent; every action
is then one of three kinds, which sends the next event, ends the stream where it is
or with the error event, or is not seen by the client (`Sends`, `Ends`, `Unseen`), and
`ChatStream_proofs` shows that each of them is a step of `ChatStream` or none.

`TraceWorkload_proofs`, for any threads, chunks, sizes, flush intervals and traces:

* `CountersAreLines`: `Spec => []LinesAreCounted`.
* `PutsComeFirst`: `Spec => []PutsPrecedeWrites`.
* `JobsCoverDisk`: `Spec => []JobCoversDisk`.
* `JobSizesAreNear`: `Spec => []JobSizeIsNear`.
* `JobsHaveThreads`: `Spec => []PeakWithinThreads`.

The lines of an operation are a set of places in the trace, so that appending one is
adding an element and no induction over the trace is needed. What a kill loses is
less than a flush since the lost lines are at most those not flushed (`CountInv`).
`OrderInv` balances for each chunk the puts recorded against the writes recorded, on
their way and still to be submitted. `DiskInv` does so for the files: every write made
one or found one, and every file that was made is there or was found by a removal,
those counted in whose thread has touched the disk and not yet the trace. `ApartInv` keeps the
intervals of one thread's lines apart, although the lines are not in time order; so
the intervals that are open at any point of the sweep belong to different threads.
`JobSizesAreNear` is about rounding: of a size that has a unit, the decimal that is
kept is within half a tenth of it, so that the size of a job is within 1/80 of a
chunk's; that it is not the chunk's own is the violation of `trace_job_size`.

`PromptCost_proofs`, for any text, chunk size, profile, anchors and configuration:

* `HitSaves`: `Spec => []HitSavesItsWork`.
* `PrefixesAreExact`: `Spec => []HitsAreExact`.
* `ServesEstimate`: `Spec => []ServedIsEstimate`.
* `KeysAreApart`: `Spec => []KeysIdentifyShards`.
* `OnlyClosestDecide`: `Spec => []ClosestAnchorsDecide`.
* `ExactAnchorReproduced`: `Spec => []MeasurementReproduced`.

`CostInv` says what a request was charged is the calculator's value for its hit and
its prompt, which no store or eviction of another request changes. The rest is
arithmetic: the triangular numbers of attended pairs add up, all terms are linear
or monotone in the tokens, and so is each strategy. Hits are exact because the hash
of a chunk is the chunks up to it, those determine the tokens and the tokens them,
and the cache holds no hash of anything else (`HashInv`). For the estimate,
`SleepInv` follows the sleeps token by token; the recursion of the estimate has a
solution, a running sum, and its steps are those of the server. Keys of one
length have names of one length, so that equal keys have the same model, chunk and
suffix (`KeyDetermines`), whatever shards they were made for; each layer is in the one
shard that its quotient names. The theorem is about servers that agree on the number of
workers and of layers: chunk hashes and keys of others are not compared. A less close anchor is in no tier up to the first that is not empty,
so that leaving it out changes nothing; an exact anchor's own prediction is the
roofline that its scale multiplies, and the two cancel.

`Lifecycle_proofs`, for any finite set of workers, any scenarios, runs and starts:

* `Configured`: `Spec => []WorkersServeResolvedConfig`.
* `StackOutlives`: `Spec => []KvOutlivesItsUsers`.
* `Fresh`: `Spec => []VerdictIsFresh`.

`ServeInv` says that the file holds the resolved configuration while `serve` serves or
stops, and that workers run only then and with that configuration; `StackInv` says
how far a worker is built or taken down and what its shutdown still has to do;
`RunInv` numbers the runs, so that the one a polling command sees on its connection
is its own or a later one.

Only model-checked, since they are about liveness, which TLAPS does not reason about
here: `RunsAndCancelsEnd`, `CallsAndCloseEnd`, `RequestsEnd`, `ConnectionsReturned`,
`StopCleansUp`, `ClientEnds`, and what `ImplementsWarmupRun` says of runs that end.

## 5. Not modelled

* Pure data and wording: OpenAI schemas, the printed summaries and tables of the CLI,
  percentiles, the text of a FIO file, the tables of profiles with their aliases.
* The mock GPU connector (random tensors behind a lock around one draw), the
  distributed package (empty), the metrics collector and the read-only routes, which
  change nothing.
* Single configuration fields and the conversion of environment variables; two
  settings stand for them.
* Code nothing calls: `flush()` of the recorder, `kv_transfer_latency`, batches above
  one. `capacity_info` and `usage_info` report what LMCache says.
* In timing: loading the anchors' file and the value of a geometric mean (its factors
  are kept).
* The health loop of the proxy, which writes timestamps nothing reads.
* Several processes on one trace file, whose writes land at positions of their own;
  the model has no bytes for that. The recorder's buffer of a megabyte never fills.
* The nonce of a warmup sequence as bytes in its first tokens; it is unique here.
* The death of a supervisor by SIGKILL, which leaves workers that nobody stops.
* What FIO makes of the job file, decimals of its sizes included.
* The races of the route that cancels a run are in `Warmup`; in `Lifecycle` a cancelled
  run ends at once.
* Rank engines have one capacity together in `Warmup`; with several ranks each has
  its own (warmup.py:127).

## 6. Plan

What would add most next.

1. `StateIsTrue` and the refinement of `WarmupRun` for several clients, with the
   races of `warmup_cancel_race` as the only exceptions.
2. What a run with faults still guarantees: a bound on the overshoot that counts
   the workers left behind.
3. `EvictionSeen` for several workers: the first sequence a run claims need not be
   the first it stores, so the bound has to allow for the others.
4. Byte positions in `TraceRecorder`, for several processes on one file.
