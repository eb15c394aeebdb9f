------------------------------- MODULE Warmup -------------------------------
(***************************************************************************)
(* WarmupController (servers/warmup.py): fills the KV stack with unique    *)
(* sequences until a byte target is reached, then looks for evictions.     *)
(*                                                                         *)
(* An action is what the event loop runs between two awaits: a handler of  *)
(* the control API, a step of the run task, a step of a store worker.  The *)
(* KV stack's calls run in threads, so a store and a lookup end in steps   *)
(* of their own, and the coroutine that awaits them resumes in another.    *)
(***************************************************************************)
EXTENDS Integers, Sequences, FiniteSets

CONSTANTS
    Clients,         \* control clients; one request of each is pending at most
    Requests,        \* the WarmupRequest bodies they send
    ChunkSize,       \* tokens per chunk of the stack
    BytesPerToken,
    CapacityBytes,   \* total_capacity_bytes of capacity_info(); 0: no tier
    Attempts,        \* EVICTION_CHECK_ATTEMPTS
    Faulty,          \* whether a call of the KV stack may raise
    MaxRuns,         \* bound: warmup runs started
    MaxConcurrency   \* bound: workers of a run

\* target = 0 stands for an unset target_gb; fill is fill_factor in percent.
ASSUME WarmupAssumption ==
    /\ ChunkSize \in Nat \ {0}
    /\ BytesPerToken \in Nat \ {0}
    /\ CapacityBytes \in Nat
    /\ Attempts \in Nat \ {0}
    /\ Faulty \in BOOLEAN
    /\ MaxRuns \in Nat
    /\ MaxConcurrency \in Nat
    /\ Requests \subseteq [target: Nat, fill: Nat, seq_tokens: Nat,
                           concurrency: 1..MaxConcurrency]

VARIABLES
    status,      \* self.status, with the run's params that later steps read
    task,        \* self._task: where the run's coroutine stands
    run,         \* number of the run self._task belongs to (0: none yet)
    first_seq,   \* self._first_seq, a nonce (0: None)
    seq_counter, \* self._seq_counter
    worker,      \* the store workers of every run
    client,      \* the run whose cancellation each client awaits (0: none)
    threads,     \* stores a thread of the KV stack is executing
    cache        \* sequences the KV stack holds, oldest first

vars == <<status, task, run, first_seq, seq_counter, worker, client, threads, cache>>

WorkerIds == (1..MaxRuns) \X (1..MaxConcurrency)

Terminal == {"done", "cancelled", "error"}

\* A worker that has ended, by how it ended.
Ended == {"done", "raised", "cancelled"}

Live(w) == worker[w].pc \in {"ready", "storing", "stored", "failed"}

\* The tasks the current run gathers.
Crew == {w \in WorkerIds : w[1] = run /\ worker[w].pc # "none"}

\* WarmupController.running
Running == task.pc \notin {"none", "ended"}

-----------------------------------------------------------------------------

Init ==
    /\ status = [state |-> "idle", target |-> 0, stored |-> 0, sequences |-> 0,
                 finished |-> FALSE, evicting |-> FALSE,
                 concurrency |-> 0, seq_bytes |-> 0]
    /\ task = [pc |-> "none", must_cancel |-> FALSE, gathered |-> "pending",
               hit |-> "none", attempt |-> 0]
    /\ run = 0
    /\ first_seq = 0
    /\ seq_counter = 0
    /\ worker = [w \in WorkerIds |->
                    [pc |-> "none", cancel |-> FALSE, nonce |-> 0, bytes |-> 0]]
    /\ client = [c \in Clients |-> 0]
    /\ threads = {}
    /\ cache = <<>>

-----------------------------------------------------------------------------
(* The control API: POST and DELETE /kvbench/warmup.                       *)

AlignedTokens(n) ==
    LET aligned == (n \div ChunkSize) * ChunkSize
    IN  IF aligned > ChunkSize THEN aligned ELSE ChunkSize

TargetBytes(q) ==
    IF q.target > 0 THEN q.target ELSE (CapacityBytes * q.fill) \div 100

\* A start that raises (already running, no target) changes nothing.
Start(c, q) ==
    /\ client[c] = 0
    /\ ~Running
    /\ q.target > 0 \/ CapacityBytes > 0
    /\ run < MaxRuns
    /\ status' = [state |-> "running", target |-> TargetBytes(q), stored |-> 0,
                  sequences |-> 0, finished |-> FALSE, evicting |-> FALSE,
                  concurrency |-> q.concurrency,
                  seq_bytes |-> AlignedTokens(q.seq_tokens) * BytesPerToken]
    /\ task' = [pc |-> "created", must_cancel |-> FALSE, gathered |-> "pending",
                hit |-> "none", attempt |-> 0]
    /\ run' = run + 1
    /\ first_seq' = 0
    /\ UNCHANGED <<seq_counter, worker, client, threads, cache>>

\* task.cancel() reaches whatever the coroutine awaits.  A gather that is
\* still pending, or whose result has not been delivered while a worker
\* lives, passes it on to the workers; otherwise the next step of the task
\* raises CancelledError.
Interrupt ==
    \/ /\ task.pc \in {"created", "lookup", "sleep"}
       /\ task' = [task EXCEPT !.must_cancel = TRUE]
       /\ UNCHANGED worker
    \/ /\ task.pc = "gather"
       /\ task.gathered # "pending"
       /\ task' = [task EXCEPT !.must_cancel = TRUE]
       /\ UNCHANGED worker
    \/ /\ task.pc = "gather"
       /\ \E w \in Crew : Live(w)
       /\ worker' = [w \in WorkerIds |->
                        IF w \in Crew /\ Live(w)
                        THEN [worker[w] EXCEPT !.cancel = TRUE] ELSE worker[w]]
       /\ UNCHANGED task
    \/ /\ task.pc = "reap"
       /\ UNCHANGED <<task, worker>>

Cancel(c) ==
    /\ client[c] = 0
    /\ Running
    /\ Interrupt
    /\ client' = [client EXCEPT ![c] = run]
    /\ UNCHANGED <<status, run, first_seq, seq_counter, threads, cache>>

\* Slip: the status of a run that never started is left as it was.
CancelReturns_NoMark(c) ==
    /\ client[c] # 0
    /\ client[c] < run \/ ~Running
    /\ client' = [client EXCEPT ![c] = 0]
    /\ UNCHANGED <<status, task, run, first_seq, seq_counter, worker, threads, cache>>

\* `await self._task` is over: the rest of cancel() looks at the status of
\* now, whichever run it belongs to.
CancelReturns(c) ==
    /\ client[c] # 0
    /\ client[c] < run \/ ~Running
    /\ client' = [client EXCEPT ![c] = 0]
    /\ status' = IF status.state = "running"
                 THEN [status EXCEPT !.state = "cancelled", !.finished = TRUE]
                 ELSE status
    /\ UNCHANGED <<task, run, first_seq, seq_counter, worker, threads, cache>>

-----------------------------------------------------------------------------
(* The run task: _run and _check_eviction.                                 *)

EndRun(state, evicting) ==
    /\ status' = [status EXCEPT !.state = state, !.finished = TRUE,
                                !.evicting = evicting]
    /\ task' = [task EXCEPT !.pc = "ended"]

\* A task cancelled before its first step ends without running any code.
RunNeverStarts ==
    /\ task.pc = "created"
    /\ task.must_cancel
    /\ task' = [task EXCEPT !.pc = "ended"]
    /\ UNCHANGED <<status, run, first_seq, seq_counter, worker, client, threads, cache>>

RunStarts ==
    /\ task.pc = "created"
    /\ ~task.must_cancel
    /\ worker' = [w \in WorkerIds |->
                     IF w[1] = run /\ w[2] <= status.concurrency
                     THEN [pc |-> "ready", cancel |-> FALSE, nonce |-> 0,
                           bytes |-> status.seq_bytes]
                     ELSE worker[w]]
    /\ task' = [task EXCEPT !.pc = "gather"]
    /\ UNCHANGED <<status, run, first_seq, seq_counter, client, threads, cache>>

\* gather raised a worker's exception: nobody cancels the other workers.
RunFails ==
    /\ task.pc = "gather"
    /\ task.gathered = "raised"
    /\ ~task.must_cancel
    /\ EndRun("error", status.evicting)
    /\ UNCHANGED <<run, first_seq, seq_counter, worker, client, threads, cache>>

RunInterrupted ==
    /\ task.pc = "gather"
    /\ task.gathered = "cancelled" \/ task.must_cancel
    /\ worker' = [w \in WorkerIds |->
                     IF w \in Crew /\ Live(w)
                     THEN [worker[w] EXCEPT !.cancel = TRUE] ELSE worker[w]]
    /\ task' = [task EXCEPT !.pc = "reap", !.must_cancel = FALSE]
    /\ UNCHANGED <<status, run, first_seq, seq_counter, client, threads, cache>>

\* Slip: the state goes back to idle before the workers are awaited.
RunReaped_Resets ==
    /\ task.pc = "reap"
    /\ \/ /\ status.state = "running"
          /\ status' = [status EXCEPT !.state = "idle"]
          /\ UNCHANGED task
       \/ /\ \A w \in Crew : ~Live(w)
          /\ EndRun("cancelled", status.evicting)
    /\ UNCHANGED <<run, first_seq, seq_counter, worker, client, threads, cache>>

\* Slip: the cancelled workers are not awaited.
RunReaped_NoWait ==
    /\ task.pc = "reap"
    /\ EndRun("cancelled", status.evicting)
    /\ UNCHANGED <<run, first_seq, seq_counter, worker, client, threads, cache>>

RunReaped ==
    /\ task.pc = "reap"
    /\ \A w \in Crew : ~Live(w)
    /\ EndRun("cancelled", status.evicting)
    /\ UNCHANGED <<run, first_seq, seq_counter, worker, client, threads, cache>>

\* All workers returned: done when nothing was stored, else look it up.
RunFilled ==
    /\ task.pc = "gather"
    /\ task.gathered = "done"
    /\ ~task.must_cancel
    /\ \/ /\ first_seq = 0
          /\ EndRun("done", status.evicting)
       \/ /\ first_seq # 0
          /\ task' = [task EXCEPT !.pc = "lookup", !.attempt = 1]
          /\ UNCHANGED status
    /\ UNCHANGED <<run, first_seq, seq_counter, worker, client, threads, cache>>

LookupEnds ==
    /\ task.pc = "lookup"
    /\ task.hit = "none"
    /\ \/ /\ \E i \in DOMAIN cache : cache[i].nonce = first_seq
          /\ task' = [task EXCEPT !.hit = "full"]
       \/ /\ ~\E i \in DOMAIN cache : cache[i].nonce = first_seq
          /\ task' = [task EXCEPT !.hit = "short"]
       \/ /\ Faulty
          /\ task' = [task EXCEPT !.hit = "raised"]
    /\ UNCHANGED <<status, run, first_seq, seq_counter, worker, client, threads, cache>>

\* The check resumes with the lookup's answer: it sleeps only on a full hit.
CheckResumes ==
    /\ task.pc = "lookup"
    /\ task.hit # "none"
    /\ ~task.must_cancel
    /\ \/ /\ task.hit = "full"
          /\ status' = [status EXCEPT !.evicting = FALSE]
          /\ task' = [task EXCEPT !.pc = "sleep"]
       \/ /\ task.hit = "short"
          /\ EndRun("done", TRUE)
       \/ /\ task.hit = "raised"
          /\ EndRun("done", status.evicting)
    /\ UNCHANGED <<run, first_seq, seq_counter, worker, client, threads, cache>>

\* Slip: one attempt too many.
CheckWakes_OneMore ==
    /\ task.pc = "sleep"
    /\ ~task.must_cancel
    /\ \/ /\ task.attempt <= Attempts
          /\ task' = [task EXCEPT !.pc = "lookup", !.hit = "none", !.attempt = @ + 1]
          /\ UNCHANGED status
       \/ /\ task.attempt > Attempts
          /\ EndRun("done", status.evicting)
    /\ UNCHANGED <<run, first_seq, seq_counter, worker, client, threads, cache>>

CheckWakes ==
    /\ task.pc = "sleep"
    /\ ~task.must_cancel
    /\ \/ /\ task.attempt < Attempts
          /\ task' = [task EXCEPT !.pc = "lookup", !.hit = "none", !.attempt = @ + 1]
          /\ UNCHANGED status
       \/ /\ task.attempt = Attempts
          /\ EndRun("done", status.evicting)
    /\ UNCHANGED <<run, first_seq, seq_counter, worker, client, threads, cache>>

CheckInterrupted ==
    /\ task.pc \in {"lookup", "sleep"}
    /\ task.must_cancel
    /\ EndRun("cancelled", status.evicting)
    /\ UNCHANGED <<run, first_seq, seq_counter, worker, client, threads, cache>>

-----------------------------------------------------------------------------
(* The store workers: _worker, and the KV stack that runs their stores.    *)

\* Slip: only a gather whose workers all return is ever over.
Gathered_OnlyDone(w, end) ==
    IF /\ task.pc = "gather"
       /\ task.gathered = "pending"
       /\ w[1] = run
       /\ end = "done"
       /\ \A v \in Crew \ {w} : worker[v].pc = "done"
    THEN "done"
    ELSE task.gathered

\* What the run's gather settles to when worker w ends: the first worker
\* that raised or was cancelled, or "done" with the last one to return.
Gathered(w, end) ==
    IF /\ task.pc = "gather"
       /\ task.gathered = "pending"
       /\ w[1] = run
       /\ end = "done" => \A v \in Crew \ {w} : worker[v].pc = "done"
    THEN end
    ELSE task.gathered

WorkerEnds(w, end) ==
    /\ worker' = [worker EXCEPT ![w].pc = end]
    /\ task' = [task EXCEPT !.gathered = Gathered(w, end)]
    /\ UNCHANGED <<first_seq, seq_counter>>

\* Slip: a store more once the target is reached exactly.
NextStore_AtTarget(w, stored) ==
    /\ stored <= status.target
    /\ seq_counter' = seq_counter + 1
    /\ first_seq' = IF first_seq = 0 THEN seq_counter' ELSE first_seq
    /\ worker' = [worker EXCEPT ![w].pc = "storing", ![w].nonce = seq_counter']
    /\ threads' = threads \cup {[nonce |-> seq_counter', bytes |-> worker[w].bytes]}
    /\ UNCHANGED task

\* Slip: the last sequence is remembered instead of the first.
NextStore_Last(w, stored) ==
    /\ stored < status.target
    /\ seq_counter' = seq_counter + 1
    /\ first_seq' = seq_counter'
    /\ worker' = [worker EXCEPT ![w].pc = "storing", ![w].nonce = seq_counter']
    /\ threads' = threads \cup {[nonce |-> seq_counter', bytes |-> worker[w].bytes]}
    /\ UNCHANGED task

\* The next round of the loop, which reads the status of now: that of a later
\* run when this worker has outlived its own.
NextStore(w, stored) ==
    /\ stored < status.target
    /\ seq_counter' = seq_counter + 1
    /\ first_seq' = IF first_seq = 0 THEN seq_counter' ELSE first_seq
    /\ worker' = [worker EXCEPT ![w].pc = "storing", ![w].nonce = seq_counter']
    /\ threads' = threads \cup {[nonce |-> seq_counter', bytes |-> worker[w].bytes]}
    /\ UNCHANGED task

LoopOrReturn(w, stored) ==
    \/ NextStore(w, stored)
    \/ /\ stored >= status.target
       /\ WorkerEnds(w, "done")
       /\ UNCHANGED threads

WorkerStarts(w) ==
    /\ worker[w].pc = "ready"
    /\ ~worker[w].cancel
    /\ LoopOrReturn(w, status.stored)
    /\ UNCHANGED <<status, run, client, cache>>

WorkerStored(w) ==
    /\ worker[w].pc = "stored"
    /\ ~worker[w].cancel
    /\ status' = [status EXCEPT !.stored = @ + worker[w].bytes, !.sequences = @ + 1]
    /\ LoopOrReturn(w, status.stored + worker[w].bytes)
    /\ UNCHANGED <<run, client, cache>>

WorkerFails(w) ==
    /\ worker[w].pc = "failed"
    /\ ~worker[w].cancel
    /\ WorkerEnds(w, "raised")
    /\ UNCHANGED <<status, run, client, threads, cache>>

\* CancelledError at the await.  The store's thread keeps running, unless the
\* executor had not started it.
WorkerCancelled(w) ==
    /\ Live(w)
    /\ worker[w].cancel
    /\ WorkerEnds(w, "cancelled")
    /\ \/ UNCHANGED threads
       \/ threads' = {t \in threads : t.nonce # worker[w].nonce}
    /\ UNCHANGED <<status, run, client, cache>>

\* Bytes of the first i sequences of s, for each i.
UpTo(s) ==
    LET sum[i \in 0..Len(s)] == IF i = 0 THEN 0 ELSE sum[i - 1] + s[i].bytes
    IN  sum

\* Bytes of s from its k-th sequence on.
BytesFrom(s, k) == UpTo(s)[Len(s)] - UpTo(s)[k - 1]

\* The stack evicts its oldest sequences, as few as make the rest fit.
Fitted(s) ==
    LET fitting == {k \in 1..(Len(s) + 1) : BytesFrom(s, k) <= CapacityBytes}
    IN  {SubSeq(s, k, Len(s)) : k \in {k \in fitting : \A j \in fitting : k <= j}}

\* The thread of a store returns, or raises with nothing stored.
StoreEnds(t) ==
    /\ threads' = threads \ {t}
    /\ \E end \in {"stored"} \cup (IF Faulty THEN {"failed"} ELSE {}) :
          /\ cache' \in IF end = "stored" THEN Fitted(Append(cache, t)) ELSE {cache}
          /\ worker' = [w \in WorkerIds |->
                           IF worker[w].pc = "storing" /\ worker[w].nonce = t.nonce
                           THEN [worker[w] EXCEPT !.pc = end] ELSE worker[w]]
    /\ UNCHANGED <<status, task, run, first_seq, seq_counter, client>>

-----------------------------------------------------------------------------

Control(c) ==
    \/ \E q \in Requests : Start(c, q)
    \/ Cancel(c)

RunStep ==
    \/ RunNeverStarts
    \/ RunStarts
    \/ RunFails
    \/ RunInterrupted
    \/ RunReaped
    \/ RunFilled
    \/ CheckResumes
    \/ CheckWakes
    \/ CheckInterrupted

WorkerStep(w) ==
    \/ WorkerStarts(w)
    \/ WorkerStored(w)
    \/ WorkerFails(w)
    \/ WorkerCancelled(w)

Next ==
    \/ \E c \in Clients : Control(c) \/ CancelReturns(c)
    \/ RunStep
    \/ LookupEnds
    \/ \E w \in WorkerIds : WorkerStep(w)
    \/ \E t \in threads : StoreEnds(t)

Spec == Init /\ [][Next]_vars

\* The event loop runs every ready callback and the stack's threads finish.
\* Nothing obliges a client to send a request.
Fairness ==
    /\ WF_vars(RunStep)
    /\ WF_vars(LookupEnds)
    /\ \A w \in WorkerIds : WF_vars(WorkerStep(w))
    /\ \A c \in Clients : WF_vars(CancelReturns(c))
    /\ WF_vars(\E t \in threads : StoreEnds(t))

FairSpec == Spec /\ Fairness

-----------------------------------------------------------------------------
(* Properties *)

StatusType ==
    [state: {"idle", "running"} \cup Terminal, target: Nat, stored: Nat,
     sequences: Nat, finished: BOOLEAN, evicting: BOOLEAN,
     concurrency: 0..MaxConcurrency, seq_bytes: Nat]

TaskType ==
    [pc: {"none", "created", "gather", "reap", "lookup", "sleep", "ended"},
     must_cancel: BOOLEAN, gathered: {"pending"} \cup Ended,
     hit: {"none", "full", "short", "raised"}, attempt: 0..Attempts]

WorkerType ==
    [pc: {"none", "ready", "storing", "stored", "failed"} \cup Ended,
     cancel: BOOLEAN, nonce: Nat, bytes: Nat]

StoreType == [nonce: Nat, bytes: Nat]

TypeOK ==
    /\ status \in StatusType
    /\ task \in TaskType
    /\ run \in 0..MaxRuns
    /\ first_seq \in Nat
    /\ seq_counter \in Nat
    /\ worker \in [WorkerIds -> WorkerType]
    /\ client \in [Clients -> 0..MaxRuns]
    /\ threads \subseteq StoreType
    /\ cache \in Seq(StoreType)

\* The fill overshoots its target by less than one sequence per worker: each
\* worker reads stored_bytes before its store and adds to it after (line 223).
OvershootBound ==
    status.stored > 0 =>
        status.stored < status.target + status.concurrency * status.seq_bytes

\* At most `concurrency` workers await a store (line 42), whatever runs came
\* before: a cancelled run has ended its workers when the next one starts.
ConcurrencyKept ==
    Cardinality({w \in WorkerIds : worker[w].pc = "storing"}) <= status.concurrency

\* A run says `evicting` of a sequence the stack did store and dropped since,
\* never of one whose store is still on its way (lines 225-227 and 242-243).
EvictedIsGone ==
    status.evicting => /\ first_seq # 0
                       /\ \A t \in threads : t.nonce # first_seq
                       /\ \A i \in DOMAIN cache : cache[i].nonce # first_seq

\* The verdict is true, and with one worker it is not missed: a run that filled
\* more than the tiers hold finds its first sequence gone (what
\* test_fills_to_target_and_detects_eviction expects).
EvictionSeen ==
    /\ EvictedIsGone
    /\ status.state = "done" /\ status.concurrency = 1 /\ status.target > CapacityBytes
          => status.evicting

\* A live run is reported "running": GET /kvbench/warmup and the CLI, which
\* stops polling on any other state, see the run that is there.
LiveRunReported == Running => status.state = "running"

\* "running" is reported of a live run, or of one that was cancelled before its
\* first step and whose canceller has yet to resume and record it (line 159).
\* A run reported cancelled has no worker left that could store (line 203).
StateIsTrue ==
    /\ status.state = "running" => Running \/ \E c \in Clients : client[c] = run
    /\ status.state = "cancelled" => \A w \in Crew : ~Live(w)

\* Every run ends: workers stop at the target, an exception or a cancellation,
\* and the eviction check gives up after its attempts.  So every DELETE of
\* /kvbench/warmup, which waits for its run, is answered.
RunsAndCancelsEnd ==
    /\ \A r \in 1..MaxRuns : (run = r /\ Running) ~> (run > r \/ ~Running)
    /\ \A c \in Clients : (client[c] # 0) ~> (client[c] = 0)

\* Seen from the control API, the controller is the one-run-at-a-time machine
\* of WarmupRun.
Abstract == INSTANCE WarmupRun
                WITH state <- status.state, stored <- status.stored, run <- run

ImplementsWarmupRun == Abstract!Spec

=============================================================================
