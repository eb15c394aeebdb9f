--------------------------- MODULE Warmup_proofs ----------------------------
(***************************************************************************)
(* Theorems about Warmup, for any number of runs and workers and any       *)
(* requests.  For any clients: type correctness and, when no call of the   *)
(* KV stack raises, the bounds on the overshoot and on the workers that    *)
(* store, that an eviction that is reported took place, and that a run     *)
(* with one worker misses none.  For one client: what is reported of a run *)
(* is true, whatever raises, and without faults the controller implements  *)
(* WarmupRun.                                                              *)
(***************************************************************************)
EXTENDS Warmup, FiniteSetTheorems, SequenceTheorems, WellFoundedInduction, TLAPS

USE WarmupAssumption

-----------------------------------------------------------------------------
(* Lemmas about the operators of the model.                                *)

\* The bytes of a sequence and the target of a request are naturals.
LEMMA RequestTypes ==
    ASSUME NEW q \in Requests
    PROVE  /\ AlignedTokens(q.seq_tokens) * BytesPerToken \in Nat
           /\ TargetBytes(q) \in Nat
           /\ q.concurrency \in 1..MaxConcurrency
  <1>1. q \in [target: Nat, fill: Nat, seq_tokens: Nat, concurrency: 1..MaxConcurrency]
    OBVIOUS
  <1>2. /\ q.target \in Nat /\ q.fill \in Nat /\ q.seq_tokens \in Nat
        /\ q.concurrency \in 1..MaxConcurrency
    BY <1>1
  <1>3. AlignedTokens(q.seq_tokens) \in Nat
    <2>1. q.seq_tokens \div ChunkSize \in Nat
      BY <1>2
    <2>2. (q.seq_tokens \div ChunkSize) * ChunkSize \in Nat
      BY <2>1
    <2>. QED BY <2>2 DEF AlignedTokens
  <1>4. AlignedTokens(q.seq_tokens) * BytesPerToken \in Nat
    BY <1>3
  <1>5. TargetBytes(q) \in Nat
    <2>1. CapacityBytes * q.fill \in Nat
      BY <1>2
    <2>. QED BY <1>2, <2>1 DEF TargetBytes
  <1>. QED BY <1>2, <1>4, <1>5

\* What the stack holds after an eviction is a part of what it held.
LEMMA FittedType ==
    ASSUME NEW S, NEW s \in Seq(S), NEW r \in Fitted(s)
    PROVE  r \in Seq(S)
  <1>1. PICK k \in 1..(Len(s) + 1) : r = SubSeq(s, k, Len(s))
    BY DEF Fitted
  <1>2. \A i \in k..Len(s) : s[i] \in S
    OBVIOUS
  <1>. QED BY <1>1, <1>2, SubSeqProperties

\* Marking some workers as cancelled keeps their type.
LEMMA CancelledWorkers ==
    ASSUME worker \in [WorkerIds -> WorkerType]
    PROVE  [w \in WorkerIds |->
               IF w \in Crew /\ Live(w)
               THEN [worker[w] EXCEPT !.cancel = TRUE]
               ELSE worker[w]] \in [WorkerIds -> WorkerType]
  <1>1. ASSUME NEW w \in WorkerIds
        PROVE  [worker[w] EXCEPT !.cancel = TRUE] \in WorkerType
    BY DEF WorkerType
  <1>. QED BY <1>1

-----------------------------------------------------------------------------
(* Type correctness.                                                       *)

\* Every reachable state has the type TypeOK gives it: the controller's
\* fields, the workers of every run and the stack's contents.
THEOREM TypeCorrect == Spec => []TypeOK
<1>1. Init => TypeOK
  BY DEF Init, TypeOK, StatusType, TaskType, WorkerType, StoreType
<1>2. TypeOK /\ [Next]_vars => TypeOK'
  <2> SUFFICES ASSUME TypeOK, [Next]_vars
               PROVE  TypeOK'
    OBVIOUS
  <2> USE DEF TypeOK
  <2>1. ASSUME NEW c \in Clients, NEW q \in Requests, Start(c, q)
        PROVE  TypeOK'
    <3>1. status' \in StatusType
      BY <2>1, RequestTypes DEF Start, StatusType
    <3>2. task' \in TaskType
      BY <2>1 DEF Start, TaskType
    <3>. QED BY <2>1, <3>1, <3>2 DEF Start
  <2>2. ASSUME NEW c \in Clients, Cancel(c)
        PROVE  TypeOK'
    <3>1. client' \in [Clients -> 0..MaxRuns]
      BY <2>2 DEF Cancel
    <3>2. task' \in TaskType
      BY <2>2 DEF Cancel, Interrupt, TaskType
    <3>3. worker' \in [WorkerIds -> WorkerType]
      <4>1. worker' = worker \/ worker' = [w \in WorkerIds |->
                        IF w \in Crew /\ Live(w)
                        THEN [worker[w] EXCEPT !.cancel = TRUE] ELSE worker[w]]
        BY <2>2 DEF Cancel, Interrupt
      <4>. QED BY <4>1, CancelledWorkers
    <3>. QED BY <2>2, <3>1, <3>2, <3>3 DEF Cancel
  <2>3. ASSUME NEW c \in Clients, CancelReturns(c)
        PROVE  TypeOK'
    <3>1. status' \in StatusType
      BY <2>3 DEF CancelReturns, StatusType, Terminal
    <3>. QED BY <2>3, <3>1 DEF CancelReturns
  <2>4. ASSUME RunStep
        PROVE  TypeOK'
    <3>1. CASE RunStarts
      <4>1. task' \in TaskType
        BY <3>1 DEF RunStarts, TaskType
      <4>2. ASSUME NEW w \in WorkerIds
            PROVE  worker'[w] \in WorkerType
        <5>1. status.seq_bytes \in Nat
          BY DEF StatusType
        <5>2. [pc |-> "ready", cancel |-> FALSE, nonce |-> 0,
               bytes |-> status.seq_bytes] \in WorkerType
          BY <5>1 DEF WorkerType
        <5>. QED BY <3>1, <5>2 DEF RunStarts
      <4>3. worker' \in [WorkerIds -> WorkerType]
        BY <3>1, <4>2 DEF RunStarts
      <4>. QED BY <3>1, <4>1, <4>3 DEF RunStarts
    <3>2. CASE RunInterrupted
      <4>1. task' \in TaskType
        BY <3>2 DEF RunInterrupted, TaskType
      <4>2. worker' \in [WorkerIds -> WorkerType]
        BY <3>2, CancelledWorkers DEF RunInterrupted
      <4>. QED BY <3>2, <4>1, <4>2 DEF RunInterrupted
    <3>3. ASSUME NEW state \in Terminal, NEW evicting \in BOOLEAN,
                 EndRun(state, evicting)
          PROVE  status' \in StatusType /\ task' \in TaskType
      BY <3>3 DEF EndRun, StatusType, TaskType
    <3>4. status.evicting \in BOOLEAN
      BY DEF StatusType
    <3>5. {"done", "cancelled", "error"} = Terminal
      BY DEF Terminal
    <3>6. CASE CheckWakes
      <4>1. CASE task.attempt < Attempts /\ UNCHANGED status /\
                 task' = [task EXCEPT !.pc = "lookup", !.hit = "none", !.attempt = @ + 1]
        <5>1. task.attempt + 1 \in 0..Attempts
          BY <4>1 DEF TaskType
        <5>2. task' \in TaskType
          BY <4>1, <5>1 DEF TaskType
        <5>. QED BY <3>6, <4>1, <5>2 DEF CheckWakes
      <4>2. CASE EndRun("done", status.evicting)
        BY <3>6, <4>2, <3>3, <3>4, <3>5 DEF CheckWakes
      <4>. QED BY <3>6, <4>1, <4>2 DEF CheckWakes
    <3>7. CASE RunNeverStarts
      BY <3>7 DEF RunNeverStarts, TaskType
    <3>8. CASE RunFails \/ RunReaped \/ CheckInterrupted
      BY <3>8, <3>3, <3>4, <3>5 DEF RunFails, RunReaped, CheckInterrupted
    <3>9. CASE RunFilled
      <4>0. 1 \in 0..Attempts
        OBVIOUS
      <4>1. [task EXCEPT !.pc = "lookup", !.attempt = 1] \in TaskType
        BY <4>0 DEF TaskType
      <4>. QED BY <3>9, <3>3, <3>4, <3>5, <4>1 DEF RunFilled
    <3>10. CASE CheckResumes
      <4>1. /\ [status EXCEPT !.evicting = FALSE] \in StatusType
            /\ [task EXCEPT !.pc = "sleep"] \in TaskType
        BY DEF StatusType, TaskType
      <4>. QED BY <3>10, <3>3, <3>4, <3>5, <4>1 DEF CheckResumes
    <3>. QED BY <2>4, <3>1, <3>2, <3>6, <3>7, <3>8, <3>9, <3>10 DEF RunStep
  <2>5. CASE LookupEnds
    <3>1. task' \in TaskType
      BY <2>5 DEF LookupEnds, TaskType
    <3>. QED BY <2>5, <3>1 DEF LookupEnds
  <2>6. ASSUME NEW w \in WorkerIds, WorkerStep(w)
        PROVE  TypeOK'
    <3>1. ASSUME NEW end \in Ended, WorkerEnds(w, end)
          PROVE  worker' \in [WorkerIds -> WorkerType] /\ task' \in TaskType
      <4>1. Gathered(w, end) \in {"pending"} \cup Ended
        BY DEF Gathered, TaskType
      <4>2. [worker[w] EXCEPT !.pc = end] \in WorkerType
        BY DEF WorkerType
      <4>3. worker' \in [WorkerIds -> WorkerType]
        BY <3>1, <4>2 DEF WorkerEnds
      <4>. QED BY <3>1, <4>1, <4>3 DEF WorkerEnds, TaskType
    <3>2. ASSUME NEW stored \in Nat, LoopOrReturn(w, stored)
          PROVE  /\ worker' \in [WorkerIds -> WorkerType]
                 /\ task' \in TaskType
                 /\ first_seq' \in Nat
                 /\ seq_counter' \in Nat
                 /\ threads' \subseteq StoreType
      <4>1. CASE NextStore(w, stored)
        <5>1. seq_counter' \in Nat /\ first_seq' \in Nat /\ task' \in TaskType
          BY <4>1 DEF NextStore
        <5>2. worker' \in [WorkerIds -> WorkerType]
          <6>1. [worker[w] EXCEPT !.pc = "storing", !.nonce = seq_counter'] \in WorkerType
            BY <5>1 DEF WorkerType
          <6>2. worker' = [worker EXCEPT ![w] =
                              [worker[w] EXCEPT !.pc = "storing", !.nonce = seq_counter']]
            BY <4>1 DEF NextStore
          <6>. QED BY <6>1, <6>2
        <5>3. worker[w].bytes \in Nat
          BY DEF WorkerType
        <5>4. [nonce |-> seq_counter', bytes |-> worker[w].bytes] \in StoreType
          BY <5>1, <5>3 DEF StoreType
        <5>. QED BY <4>1, <5>1, <5>2, <5>4 DEF NextStore
      <4>2. CASE WorkerEnds(w, "done") /\ UNCHANGED threads
        BY <4>2, <3>1 DEF WorkerEnds, Ended
      <4>. QED BY <3>2, <4>1, <4>2 DEF LoopOrReturn
    <3>3. CASE WorkerStarts(w)
      <4>1. status.stored \in Nat
        BY DEF StatusType
      <4>. QED BY <3>3, <3>2, <4>1 DEF WorkerStarts
    <3>4. CASE WorkerStored(w)
      <4>1. status.stored + worker[w].bytes \in Nat /\ status.sequences + 1 \in Nat
        BY DEF StatusType, WorkerType
      <4>2. status' = [status EXCEPT !.stored = status.stored + worker[w].bytes,
                                     !.sequences = status.sequences + 1]
        BY <3>4 DEF WorkerStored
      <4>3. status' \in StatusType
        BY <4>1, <4>2 DEF StatusType
      <4>. QED BY <3>4, <3>2, <4>1, <4>3 DEF WorkerStored
    <3>5. CASE WorkerFails(w) \/ WorkerCancelled(w)
      <4>1. threads' \subseteq StoreType
        BY <3>5 DEF WorkerFails, WorkerCancelled
      <4>. QED
        BY <3>5, <3>1, <4>1 DEF WorkerFails, WorkerCancelled, WorkerEnds, Ended
    <3>. QED BY <2>6, <3>3, <3>4, <3>5 DEF WorkerStep
  <2>7. ASSUME NEW t \in threads, StoreEnds(t)
        PROVE  TypeOK'
    <3>1. Append(cache, t) \in Seq(StoreType)
      OBVIOUS
    <3>2. cache' \in Seq(StoreType)
      BY <2>7, <3>1, FittedType DEF StoreEnds
    <3>3. PICK end \in {"stored", "failed"} :
             worker' = [w \in WorkerIds |->
                           IF worker[w].pc = "storing" /\ worker[w].nonce = t.nonce
                           THEN [worker[w] EXCEPT !.pc = end] ELSE worker[w]]
      BY <2>7 DEF StoreEnds
    <3>4. ASSUME NEW w \in WorkerIds
          PROVE  [worker[w] EXCEPT !.pc = end] \in WorkerType
      BY DEF WorkerType
    <3>5. worker' \in [WorkerIds -> WorkerType]
      BY <3>3, <3>4
    <3>. QED BY <2>7, <3>2, <3>5 DEF StoreEnds
  <2>8. CASE UNCHANGED vars
    BY <2>8 DEF vars
  <2>. QED
    BY <2>1, <2>2, <2>3, <2>4, <2>5, <2>6, <2>7, <2>8 DEF Next, Control
<1>. QED BY <1>1, <1>2, PTL DEF Spec

-----------------------------------------------------------------------------
(* Without faults: one crew at a time, and the overshoot.                  *)

\* Workers that have claimed a sequence and not yet counted it.
Pending == {w \in WorkerIds : worker[w].pc \in {"storing", "stored"}}

\* Only the current run has live workers, all its own size, and only while it
\* gathers or reaps them.
CrewInv ==
    /\ \A w \in WorkerIds : Live(w) =>
          /\ w[1] = run
          /\ w[2] <= status.concurrency
          /\ worker[w].bytes = status.seq_bytes
          /\ task.pc \in {"gather", "reap"}
          /\ task.pc = "gather" => task.gathered # "done"
    /\ \A w \in WorkerIds : worker[w].pc \notin {"failed", "raised"}
    /\ task.gathered # "raised"
    /\ task.pc = "created" => task.gathered = "pending"

\* What is stored and what is on its way stay below the target plus one
\* sequence per worker.
StoredInv ==
    \/ status.stored = 0 /\ Pending = {}
    \/ status.stored + status.seq_bytes * Cardinality(Pending)
          < status.target + status.concurrency * status.seq_bytes

\* CrewInv is inductive: a run reaps its workers before it ends, and its gather
\* is done only once all of them are.
LEMMA CrewStep ==
    ASSUME ~Faulty, TypeOK, CrewInv, [Next]_vars
    PROVE  CrewInv'
<1> USE DEF TypeOK, Live
<1>1. ASSUME NEW c \in Clients, NEW q \in Requests, Start(c, q)
      PROVE  CrewInv'
  <2>1. \A w \in WorkerIds : ~Live(w)
    BY <1>1 DEF Start, Running, CrewInv
  <2>. QED BY <1>1, <2>1 DEF Start, CrewInv
<1>2. ASSUME worker' = [w \in WorkerIds |->
                          IF w \in Crew /\ Live(w)
                          THEN [worker[w] EXCEPT !.cancel = TRUE] ELSE worker[w]]
      PROVE  \A w \in WorkerIds : /\ worker'[w].pc = worker[w].pc
                                  /\ worker'[w].bytes = worker[w].bytes
  BY <1>2 DEF WorkerType
<1>3. ASSUME NEW c \in Clients, Cancel(c)
      PROVE  CrewInv'
  <2>1. /\ task'.pc = task.pc /\ task'.gathered = task.gathered
        /\ UNCHANGED <<status, run>>
    BY <1>3 DEF Cancel, Interrupt, TaskType
  <2>2. \A w \in WorkerIds : /\ worker'[w].pc = worker[w].pc
                             /\ worker'[w].bytes = worker[w].bytes
    BY <1>3, <1>2 DEF Cancel, Interrupt
  <2>. QED BY <2>1, <2>2 DEF CrewInv
<1>4. ASSUME NEW c \in Clients, CancelReturns(c)
      PROVE  CrewInv'
  <2>1. /\ status'.concurrency = status.concurrency
        /\ status'.seq_bytes = status.seq_bytes
    BY <1>4 DEF CancelReturns, StatusType
  <2>. QED BY <1>4, <2>1 DEF CancelReturns, CrewInv
<1>5. ASSUME RunStep
      PROVE  CrewInv'
  <2>1. CASE RunStarts
    <3>1. \A w \in WorkerIds : ~Live(w)
      BY <2>1 DEF RunStarts, CrewInv
    <3>2. task'.gathered = "pending" /\ task'.pc = "gather"
      BY <2>1 DEF RunStarts, CrewInv, TaskType
    <3>3. ASSUME NEW w \in WorkerIds
          PROVE  IF w[1] = run /\ w[2] <= status.concurrency
                 THEN worker'[w].pc = "ready" /\ worker'[w].bytes = status.seq_bytes
                 ELSE worker'[w] = worker[w]
      BY <2>1 DEF RunStarts
    <3>4. ASSUME NEW w \in WorkerIds, Live(w)'
          PROVE  /\ w[1] = run
                 /\ w[2] <= status.concurrency
                 /\ worker'[w].bytes = status.seq_bytes
      BY <3>1, <3>3, <3>4
    <3>5. \A w \in WorkerIds : worker'[w].pc \notin {"failed", "raised"}
      BY <3>3 DEF CrewInv
    <3>. QED BY <2>1, <3>2, <3>4, <3>5 DEF RunStarts, CrewInv
  <2>2. CASE RunInterrupted
    <3>1. \A w \in WorkerIds : /\ worker'[w].pc = worker[w].pc
                               /\ worker'[w].bytes = worker[w].bytes
      BY <2>2, <1>2 DEF RunInterrupted
    <3>2. task'.pc = "reap" /\ task'.gathered = task.gathered
      BY <2>2 DEF RunInterrupted, TaskType
    <3>. QED BY <2>2, <3>1, <3>2 DEF RunInterrupted, CrewInv
  <2>3. ASSUME \A w \in WorkerIds : ~Live(w),
               UNCHANGED <<worker, run>>,
               task'.gathered = task.gathered,
               task'.pc # "created"
        PROVE  CrewInv'
    BY <2>3 DEF CrewInv
  <2>4. CASE RunNeverStarts
    <3>1. \A w \in WorkerIds : ~Live(w)
      BY <2>4 DEF RunNeverStarts, CrewInv
    <3>. QED BY <2>4, <3>1, <2>3 DEF RunNeverStarts, TaskType
  <2>5. CASE RunFails
    BY <2>5 DEF RunFails, CrewInv
  <2>6. CASE RunReaped
    <3>1. \A w \in WorkerIds : ~Live(w)
      BY <2>6 DEF RunReaped, CrewInv, Crew
    <3>. QED BY <2>6, <3>1, <2>3 DEF RunReaped, EndRun, TaskType
  <2>7. CASE RunFilled
    <3>1. \A w \in WorkerIds : ~Live(w)
      BY <2>7 DEF RunFilled, CrewInv
    <3>. QED BY <2>7, <3>1, <2>3 DEF RunFilled, EndRun, TaskType
  <2>8. CASE CheckResumes \/ CheckWakes \/ CheckInterrupted
    <3>1. \A w \in WorkerIds : ~Live(w)
      BY <2>8 DEF CheckResumes, CheckWakes, CheckInterrupted, CrewInv
    <3>2. /\ task'.pc # "created" /\ task'.gathered = task.gathered
          /\ UNCHANGED <<worker, run>>
      BY <2>8 DEF CheckResumes, CheckWakes, CheckInterrupted, EndRun, TaskType
    <3>. QED BY <3>1, <3>2, <2>3
  <2>. QED BY <1>5, <2>1, <2>2, <2>4, <2>5, <2>6, <2>7, <2>8 DEF RunStep
<1>6. CASE LookupEnds
  <2>1. task'.pc = task.pc /\ task'.gathered = task.gathered
    BY <1>6 DEF LookupEnds, TaskType
  <2>. QED BY <1>6, <2>1 DEF LookupEnds, CrewInv
<1>7. ASSUME NEW w \in WorkerIds, WorkerStep(w)
      PROVE  CrewInv'
  <2>1. /\ Live(w) /\ w[1] = run /\ w[2] <= status.concurrency
        /\ worker[w].bytes = status.seq_bytes
        /\ task.pc \in {"gather", "reap"}
        /\ task.pc = "gather" => task.gathered # "done"
    BY <1>7 DEF WorkerStep, WorkerStarts, WorkerStored, WorkerFails, WorkerCancelled,
                CrewInv
  <2>2. /\ UNCHANGED run
        /\ status'.concurrency = status.concurrency
        /\ status'.seq_bytes = status.seq_bytes
    BY <1>7 DEF WorkerStep, WorkerStarts, WorkerStored, WorkerFails, WorkerCancelled,
                StatusType
  <2>3. ASSUME NEW end \in {"done", "cancelled"}, WorkerEnds(w, end)
        PROVE  CrewInv'
    <3>1. \A v \in WorkerIds : IF v = w
             THEN worker'[v].pc = end ELSE worker'[v] = worker[v]
      BY <2>3 DEF WorkerEnds, WorkerType
    <3>2. task'.pc = task.pc /\ task'.gathered = Gathered(w, end)
      BY <2>3 DEF WorkerEnds, TaskType
    <3>3. ASSUME NEW v \in WorkerIds, Live(v)', task.pc = "gather"
          PROVE  Gathered(w, end) # "done"
      <4>1. v # w /\ Live(v)
        BY <3>1, <3>3
      <4>2. v \in Crew \ {w} /\ worker[v].pc # "done"
        BY <4>1 DEF Crew, CrewInv
      <4>. QED BY <2>1, <3>3, <4>2 DEF Gathered
    <3>4. Gathered(w, end) # "raised"
      BY DEF Gathered, CrewInv
    <3>. QED BY <2>1, <2>2, <3>1, <3>2, <3>3, <3>4 DEF CrewInv
  <2>4. ASSUME NEW stored \in Nat, NextStore(w, stored)
        PROVE  CrewInv'
    <3>1. \A v \in WorkerIds : IF v = w
             THEN worker'[v].pc = "storing" /\ worker'[v].bytes = worker[v].bytes
             ELSE worker'[v] = worker[v]
      BY <2>4 DEF NextStore, WorkerType
    <3>2. UNCHANGED task
      BY <2>4 DEF NextStore
    <3>. QED BY <2>1, <2>2, <3>1, <3>2 DEF CrewInv
  <2>5. ~WorkerFails(w)
    BY DEF WorkerFails, CrewInv
  <2>6. CASE WorkerStarts(w)
    <3>1. status.stored \in Nat
      BY DEF StatusType
    <3>. QED BY <2>6, <2>3, <2>4, <3>1 DEF WorkerStarts, LoopOrReturn
  <2>7. CASE WorkerStored(w)
    <3>1. status.stored + worker[w].bytes \in Nat
      BY DEF StatusType, WorkerType
    <3>. QED BY <2>7, <2>3, <2>4, <3>1 DEF WorkerStored, LoopOrReturn
  <2>8. CASE WorkerCancelled(w)
    BY <2>8, <2>3 DEF WorkerCancelled
  <2>. QED BY <1>7, <2>5, <2>6, <2>7, <2>8 DEF WorkerStep
<1>8. ASSUME NEW t \in threads, StoreEnds(t)
      PROVE  CrewInv'
  <2>1. \A w \in WorkerIds :
           \/ worker'[w] = worker[w]
           \/ /\ worker[w].pc = "storing"
              /\ worker'[w].pc = "stored"
              /\ worker'[w].bytes = worker[w].bytes
    BY <1>8 DEF StoreEnds, WorkerType
  <2>. QED BY <1>8, <2>1 DEF StoreEnds, CrewInv
<1>9. CASE UNCHANGED vars
  BY <1>9 DEF vars, CrewInv
<1>. QED
  BY <1>1, <1>3, <1>4, <1>5, <1>6, <1>7, <1>8, <1>9 DEF Next, Control

\* Workers with a store on its way are workers of the run, so no more than its
\* concurrency.
LEMMA PendingBound ==
    ASSUME TypeOK, CrewInv
    PROVE  /\ IsFiniteSet(Pending)
           /\ Cardinality(Pending) \in Nat
           /\ Cardinality(Pending) <= status.concurrency
<1>1. status.concurrency \in Nat /\ run \in Nat
  BY DEF TypeOK, StatusType
<1>2. /\ IsFiniteSet(1..status.concurrency)
      /\ Cardinality(1..status.concurrency) = status.concurrency
  BY <1>1, FS_Interval
<1>3. IsFiniteSet({run}) /\ Cardinality({run}) = 1
  BY FS_Singleton
<1>4. /\ IsFiniteSet({run} \X (1..status.concurrency))
      /\ Cardinality({run} \X (1..status.concurrency)) = status.concurrency
  <2>1. /\ IsFiniteSet({run} \X (1..status.concurrency))
        /\ Cardinality({run} \X (1..status.concurrency))
             = Cardinality({run}) * Cardinality(1..status.concurrency)
    BY <1>2, <1>3, FS_Product
  <2>. QED BY <1>1, <1>2, <1>3, <2>1
<1>5. Pending \subseteq {run} \X (1..status.concurrency)
  <2> SUFFICES ASSUME NEW w \in Pending
               PROVE  w \in {run} \X (1..status.concurrency)
    OBVIOUS
  <2>1. w \in WorkerIds /\ Live(w)
    BY DEF Pending, Live
  <2>2. w[1] = run /\ w[2] <= status.concurrency
    BY <2>1 DEF CrewInv
  <2>3. w = <<w[1], w[2]>> /\ w[2] \in 1..MaxConcurrency
    BY <2>1 DEF WorkerIds
  <2>. QED BY <1>1, <2>2, <2>3
<1>. QED BY <1>4, <1>5, FS_Subset, FS_CardinalityType

\* Multiplication is monotone in its second factor.
LEMMA ProductMonotone ==
    ASSUME NEW a \in Nat, NEW b \in Nat, NEW c \in Nat, b <= c
    PROVE  a * b <= a * c
<1>1. c - b \in Nat /\ c = b + (c - b)
  OBVIOUS
<1>2. PICK d \in Nat : c = b + d
  BY <1>1
<1>3. a * c = a * b + a * d /\ a * d \in Nat /\ a * b \in Nat
  BY <1>2
<1>. QED BY <1>3

\* A product by one less.
LEMMA ProductStep ==
    ASSUME NEW a \in Nat, NEW b \in Nat, NEW c \in Nat, b = c - 1
    PROVE  a * c = a * b + a
OBVIOUS

\* StoredInv is inductive: a store is claimed below the target, by one of at most
\* `concurrency` workers, and counting it moves its bytes from one summand to
\* the other.
LEMMA StoredStep ==
    ASSUME ~Faulty, TypeOK, TypeOK', CrewInv, CrewInv', StoredInv, [Next]_vars
    PROVE  StoredInv'
<1>1. /\ status.stored \in Nat /\ status.seq_bytes \in Nat
      /\ status.target \in Nat /\ status.concurrency \in Nat
  BY DEF TypeOK, StatusType
<1>2. /\ IsFiniteSet(Pending) /\ Cardinality(Pending) \in Nat
      /\ Cardinality(Pending) <= status.concurrency
  BY PendingBound
<1>3. /\ IsFiniteSet(Pending') /\ Cardinality(Pending') \in Nat
      /\ Cardinality(Pending') <= status'.concurrency
  <2>1. ASSUME TypeOK', CrewInv'
        PROVE  (/\ IsFiniteSet(Pending)
                /\ Cardinality(Pending) \in Nat
                /\ Cardinality(Pending) <= status.concurrency)'
    BY <2>1, PendingBound, PTL
  <2>. QED BY <2>1
<1>4. ASSUME NEW w \in WorkerIds, \A v \in WorkerIds \ {w} : worker'[v].pc = worker[v].pc,
             worker[w].pc \in {"storing", "stored"},
             worker'[w].pc \notin {"storing", "stored"}
      PROVE  Cardinality(Pending') = Cardinality(Pending) - 1 /\ Cardinality(Pending) > 0
  <2>1. Pending' = Pending \ {w} /\ w \in Pending
    BY <1>4 DEF Pending
  <2>2. Cardinality(Pending \ {w}) = Cardinality(Pending) - 1
    BY <1>2, <2>1, FS_RemoveElement
  <2>3. Pending # {}
    BY <2>1
  <2>. QED BY <1>2, <1>3, <2>1, <2>2, <2>3, FS_EmptySet
<1>5. ASSUME status'.stored = 0, Pending' = {}
      PROVE  StoredInv'
  BY <1>5 DEF StoredInv
<1>6. ASSUME status'.stored = status.stored,
             status'.target = status.target,
             status'.concurrency = status.concurrency,
             status'.seq_bytes = status.seq_bytes,
             Pending' \subseteq Pending
      PROVE  StoredInv'
  <2>1. Cardinality(Pending') <= Cardinality(Pending)
    BY <1>2, <1>6, FS_Subset
  <2>2. status.seq_bytes * Cardinality(Pending') <= status.seq_bytes * Cardinality(Pending)
    BY <1>1, <1>2, <1>3, <2>1, ProductMonotone
  <2>3. /\ status.seq_bytes * Cardinality(Pending') \in Nat
        /\ status.seq_bytes * Cardinality(Pending) \in Nat
        /\ status.concurrency * status.seq_bytes \in Nat
    BY <1>1, <1>2, <1>3
  <2>4. CASE status.stored = 0 /\ Pending = {}
    BY <1>6, <2>4, <1>5
  <2>5. CASE status.stored + status.seq_bytes * Cardinality(Pending)
               < status.target + status.concurrency * status.seq_bytes
    <3>1. status.stored + status.seq_bytes * Cardinality(Pending')
            < status.target + status.concurrency * status.seq_bytes
      BY <1>1, <2>2, <2>3, <2>5
    <3>. QED BY <1>6, <3>1 DEF StoredInv
  <2>. QED BY <2>4, <2>5 DEF StoredInv
<1>7. ASSUME status'.stored \in Nat,
             status'.stored < status'.target
      PROVE  StoredInv'
  <2>1. /\ status'.target \in Nat /\ status'.seq_bytes \in Nat
        /\ status'.concurrency \in Nat
    BY DEF TypeOK, StatusType
  <2>2. status'.seq_bytes * Cardinality(Pending')
          <= status'.seq_bytes * status'.concurrency
    BY <1>3, <2>1, ProductMonotone
  <2>3. /\ status'.seq_bytes * Cardinality(Pending') \in Nat
        /\ status'.seq_bytes * status'.concurrency \in Nat
        /\ status'.seq_bytes * status'.concurrency = status'.concurrency * status'.seq_bytes
    BY <1>3, <2>1
  <2>4. status'.stored + status'.seq_bytes * Cardinality(Pending')
          < status'.target + status'.concurrency * status'.seq_bytes
    BY <1>7, <2>1, <2>2, <2>3
  <2>. QED BY <2>4 DEF StoredInv
<1>8. ASSUME status'.stored = status.stored,
             status'.target = status.target,
             status'.concurrency = status.concurrency,
             status'.seq_bytes = status.seq_bytes,
             \A w \in WorkerIds : worker'[w].pc \in {"storing", "stored"}
                                     => worker[w].pc \in {"storing", "stored"}
      PROVE  StoredInv'
  BY <1>6, <1>8 DEF Pending
<1>9. ASSUME NEW c \in Clients, NEW q \in Requests, Start(c, q)
      PROVE  StoredInv'
  <2>1. \A w \in WorkerIds : ~Live(w)
    BY <1>9 DEF Start, Running, CrewInv
  <2>2. Pending' = {}
    BY <1>9, <2>1 DEF Start, Pending, Live
  <2>. QED BY <1>9, <2>2, <1>5 DEF Start
<1>10. ASSUME worker' = [w \in WorkerIds |->
                          IF w \in Crew /\ Live(w)
                          THEN [worker[w] EXCEPT !.cancel = TRUE] ELSE worker[w]]
       PROVE  \A w \in WorkerIds : worker'[w].pc = worker[w].pc
  BY <1>10 DEF TypeOK, WorkerType
<1>11. ASSUME NEW c \in Clients, Cancel(c)
       PROVE  StoredInv'
  <2>1. \A w \in WorkerIds : worker'[w].pc = worker[w].pc
    BY <1>11, <1>10 DEF Cancel, Interrupt
  <2>. QED BY <1>8, <1>11, <2>1 DEF Cancel
<1>12. ASSUME NEW c \in Clients, CancelReturns(c)
       PROVE  StoredInv'
  BY <1>8, <1>12 DEF CancelReturns, TypeOK, StatusType
<1>13. ASSUME RunStep
       PROVE  StoredInv'
  <2>1. CASE RunStarts
    <3>1. \A w \in WorkerIds : worker'[w].pc = "ready" \/ worker'[w] = worker[w]
      BY <2>1 DEF RunStarts
    <3>. QED BY <1>8, <2>1, <3>1 DEF RunStarts
  <2>2. CASE RunInterrupted
    <3>1. \A w \in WorkerIds : worker'[w].pc = worker[w].pc
      BY <2>2, <1>10 DEF RunInterrupted
    <3>. QED BY <1>8, <2>2, <3>1 DEF RunInterrupted
  <2>3. ASSUME UNCHANGED worker,
               status'.stored = status.stored,
               status'.target = status.target,
               status'.concurrency = status.concurrency,
               status'.seq_bytes = status.seq_bytes
        PROVE  StoredInv'
    BY <1>8, <2>3
  <2>4. CASE RunNeverStarts \/ RunFails \/ RunReaped \/ RunFilled
    BY <2>3, <2>4 DEF RunNeverStarts, RunFails, RunReaped, RunFilled, EndRun,
                      TypeOK, StatusType
  <2>5. CASE CheckResumes \/ CheckWakes \/ CheckInterrupted
    BY <2>3, <2>5 DEF CheckResumes, CheckWakes, CheckInterrupted, EndRun,
                      TypeOK, StatusType
  <2>. QED BY <1>13, <2>1, <2>2, <2>4, <2>5 DEF RunStep
<1>14. CASE LookupEnds
  BY <1>8, <1>14 DEF LookupEnds
<1>15. ASSUME NEW w \in WorkerIds, WorkerStep(w)
       PROVE  StoredInv'
  <2>1. ASSUME NEW end \in Ended, WorkerEnds(w, end)
        PROVE  \A v \in WorkerIds : IF v = w THEN worker'[v].pc = end
                                             ELSE worker'[v] = worker[v]
    BY <2>1 DEF WorkerEnds, TypeOK, WorkerType
  <2>2. CASE WorkerFails(w) \/ WorkerCancelled(w)
    BY <1>8, <2>1, <2>2 DEF WorkerFails, WorkerCancelled, Ended
  <2>3. CASE WorkerStarts(w)
    <3>1. CASE NextStore(w, status.stored)
      BY <1>1, <1>7, <2>3, <3>1 DEF WorkerStarts, NextStore
    <3>2. CASE WorkerEnds(w, "done")
      BY <1>8, <2>1, <2>3, <3>2 DEF WorkerStarts, Ended
    <3>. QED BY <2>3, <3>1, <3>2 DEF WorkerStarts, LoopOrReturn
  <2>4. CASE WorkerStored(w)
    <3>1. worker[w].bytes = status.seq_bytes /\ worker[w].pc = "stored"
      BY <2>4 DEF WorkerStored, CrewInv, Live
    <3>2. /\ status'.stored = status.stored + status.seq_bytes
          /\ status'.target = status.target
          /\ status'.concurrency = status.concurrency
          /\ status'.seq_bytes = status.seq_bytes
      BY <2>4, <3>1 DEF WorkerStored, TypeOK, StatusType
    <3>3. CASE NextStore(w, status.stored + worker[w].bytes)
      BY <1>1, <1>7, <3>1, <3>2, <3>3 DEF NextStore
    <3>4. CASE WorkerEnds(w, "done")
      <4>1. \A v \in WorkerIds : IF v = w THEN worker'[v].pc = "done"
                                          ELSE worker'[v] = worker[v]
        BY <2>1, <3>4 DEF Ended
      <4>2. Cardinality(Pending') = Cardinality(Pending) - 1 /\ Cardinality(Pending) > 0
        BY <1>4, <3>1, <4>1
      <4>3. Pending # {}
        BY <4>2, FS_EmptySet
      <4>4. status.stored + status.seq_bytes * Cardinality(Pending)
              < status.target + status.concurrency * status.seq_bytes
        BY <4>3 DEF StoredInv
      <4>5. status.seq_bytes * Cardinality(Pending)
              = status.seq_bytes * Cardinality(Pending') + status.seq_bytes
        BY <1>1, <1>2, <1>3, <4>2, ProductStep
      <4>6. /\ status.seq_bytes * Cardinality(Pending') \in Nat
            /\ status.seq_bytes * Cardinality(Pending) \in Nat
            /\ status.concurrency * status.seq_bytes \in Nat
        BY <1>1, <1>2, <1>3
      <4>7. (status.stored + status.seq_bytes) + status.seq_bytes * Cardinality(Pending')
              < status.target + status.concurrency * status.seq_bytes
        BY <1>1, <4>4, <4>5, <4>6
      <4>. QED BY <3>2, <4>7 DEF StoredInv
    <3>. QED BY <2>4, <3>3, <3>4 DEF WorkerStored, LoopOrReturn
  <2>. QED BY <1>15, <2>2, <2>3, <2>4 DEF WorkerStep
<1>16. ASSUME NEW t \in threads, StoreEnds(t)
       PROVE  StoredInv'
  <2>1. \A w \in WorkerIds : \/ worker'[w] = worker[w]
                             \/ worker[w].pc = "storing"
    BY <1>16 DEF StoreEnds
  <2>. QED BY <1>8, <1>16, <2>1 DEF StoreEnds
<1>17. CASE UNCHANGED vars
  BY <1>8, <1>17 DEF vars
<1>. QED
  BY <1>9, <1>11, <1>12, <1>13, <1>14, <1>15, <1>16, <1>17 DEF Next, Control

-----------------------------------------------------------------------------
(* The theorems.                                                           *)

\* The two inductive invariants hold of every behaviour without faults.
LEMMA CrewAndStored ==
    ASSUME ~Faulty
    PROVE  Spec => [](CrewInv /\ StoredInv)
<1>1. Init => CrewInv /\ StoredInv
  <2> SUFFICES ASSUME Init
               PROVE  CrewInv /\ StoredInv
    OBVIOUS
  <2>1. \A w \in WorkerIds : worker[w].pc = "none"
    BY DEF Init
  <2>2. CrewInv
    BY <2>1 DEF Init, CrewInv, Live
  <2>3. StoredInv
    BY <2>1 DEF Init, StoredInv, Pending
  <2>. QED BY <2>2, <2>3
<1>2. TypeOK /\ TypeOK' /\ CrewInv /\ StoredInv /\ [Next]_vars
        => CrewInv' /\ StoredInv'
  BY CrewStep, StoredStep
<1>. QED BY <1>1, <1>2, TypeCorrect, PTL DEF Spec

\* When no call of the stack raises, a run never stores as much as one sequence
\* per worker beyond its target (the check-then-add of _worker).
THEOREM Overshoot ==
    ASSUME ~Faulty
    PROVE  Spec => []OvershootBound
<1>1. TypeOK /\ CrewInv /\ StoredInv => OvershootBound
  <2> SUFFICES ASSUME TypeOK, CrewInv, StoredInv, status.stored > 0
               PROVE  status.stored
                        < status.target + status.concurrency * status.seq_bytes
    BY DEF OvershootBound
  <2>1. /\ status.stored \in Nat /\ status.seq_bytes \in Nat
        /\ status.target \in Nat /\ status.concurrency \in Nat
    BY DEF TypeOK, StatusType
  <2>2. status.seq_bytes * Cardinality(Pending) \in Nat
    BY <2>1, PendingBound
  <2>3. status.concurrency * status.seq_bytes \in Nat
    BY <2>1
  <2>. QED BY <2>1, <2>2, <2>3 DEF StoredInv
<1>. QED BY <1>1, TypeCorrect, CrewAndStored, PTL

\* When no call of the stack raises, no more workers await a store than the
\* current run asked for, also after any number of cancelled runs.
THEOREM Concurrency ==
    ASSUME ~Faulty
    PROVE  Spec => []ConcurrencyKept
<1>1. TypeOK /\ CrewInv => ConcurrencyKept
  <2> SUFFICES ASSUME TypeOK, CrewInv
               PROVE  ConcurrencyKept
    OBVIOUS
  <2> DEFINE Storing == {w \in WorkerIds : worker[w].pc = "storing"}
  <2>1. Storing \subseteq Pending
    BY DEF Pending
  <2>2. /\ IsFiniteSet(Pending) /\ Cardinality(Pending) \in Nat
        /\ Cardinality(Pending) <= status.concurrency
    BY PendingBound
  <2>3. /\ Cardinality(Storing) <= Cardinality(Pending)
        /\ Cardinality(Storing) \in Nat
    BY <2>1, <2>2, FS_Subset, FS_CardinalityType
  <2>4. status.concurrency \in Nat
    BY DEF TypeOK, StatusType
  <2>5. Cardinality(Storing) <= status.concurrency
    BY <2>2, <2>3, <2>4
  <2>. QED BY <2>5 DEF ConcurrencyKept
<1>. QED BY <1>1, TypeCorrect, CrewAndStored, PTL

-----------------------------------------------------------------------------
(* What the steps of a worker and an interruption do, for the proofs below. *)

\* A step of worker w claims a sequence and stores it, or ends the worker.
LEMMA WorkerMoves ==
    ASSUME TypeOK, NEW w \in WorkerIds, WorkerStep(w)
    PROVE  /\ Live(w)
           /\ UNCHANGED <<run, client, cache>>
           /\ \A v \in WorkerIds \ {w} : worker'[v] = worker[v]
           /\ \/ UNCHANGED status
              \/ /\ worker[w].pc = "stored"
                 /\ status' = [status EXCEPT !.stored = @ + worker[w].bytes, !.sequences = @ + 1]
           /\ \/ /\ worker'[w].pc = "storing"
                 /\ seq_counter' = seq_counter + 1
                 /\ worker'[w].nonce = seq_counter'
                 /\ first_seq' = IF first_seq = 0 THEN seq_counter' ELSE first_seq
                 /\ threads' = threads \cup {[nonce |-> seq_counter', bytes |-> worker[w].bytes]}
                 /\ UNCHANGED task
              \/ \E end \in Ended :
                    /\ worker'[w].pc = end
                    /\ worker'[w].nonce = worker[w].nonce
                    /\ task' = [task EXCEPT !.gathered = Gathered(w, end)]
                    /\ threads' \subseteq threads
                    /\ end = "cancelled" \/ UNCHANGED threads
                    /\ UNCHANGED <<first_seq, seq_counter>>
<1> USE DEF TypeOK, Live
<1>1. ASSUME NEW end \in Ended, WorkerEnds(w, end)
      PROVE  /\ worker'[w].pc = end
             /\ worker'[w].nonce = worker[w].nonce
             /\ \A v \in WorkerIds \ {w} : worker'[v] = worker[v]
             /\ task' = [task EXCEPT !.gathered = Gathered(w, end)]
             /\ UNCHANGED <<first_seq, seq_counter>>
  BY <1>1 DEF WorkerEnds, WorkerType
<1>2. ASSUME NEW stored \in Nat, NextStore(w, stored)
      PROVE  /\ worker'[w].pc = "storing"
             /\ seq_counter' = seq_counter + 1
             /\ worker'[w].nonce = seq_counter'
             /\ \A v \in WorkerIds \ {w} : worker'[v] = worker[v]
             /\ first_seq' = IF first_seq = 0 THEN seq_counter' ELSE first_seq
             /\ threads' = threads \cup {[nonce |-> seq_counter', bytes |-> worker[w].bytes]}
             /\ UNCHANGED task
  BY <1>2 DEF NextStore, WorkerType
<1>3. {"done", "raised", "cancelled"} = Ended
  BY DEF Ended
<1>4. status.stored \in Nat /\ status.stored + worker[w].bytes \in Nat
  BY DEF StatusType, WorkerType
<1>5. CASE WorkerStarts(w)
  BY <1>1, <1>2, <1>3, <1>4, <1>5 DEF WorkerStarts, LoopOrReturn
<1>6. CASE WorkerStored(w)
  BY <1>1, <1>2, <1>3, <1>4, <1>6 DEF WorkerStored, LoopOrReturn
<1>7. CASE WorkerFails(w)
  BY <1>1, <1>3, <1>7 DEF WorkerFails
<1>8. CASE WorkerCancelled(w)
  BY <1>1, <1>3, <1>8 DEF WorkerCancelled
<1>. QED BY <1>5, <1>6, <1>7, <1>8 DEF WorkerStep

\* Nobody but the worker itself and the thread of its store moves a worker, once
\* it is there: cancelling it only marks it.
LEMMA WorkersKept ==
    ASSUME TypeOK,
           \/ UNCHANGED worker
           \/ worker' = [w \in WorkerIds |->
                            IF w \in Crew /\ Live(w)
                            THEN [worker[w] EXCEPT !.cancel = TRUE] ELSE worker[w]]
    PROVE  \A w \in WorkerIds : /\ worker'[w].pc = worker[w].pc
                                /\ worker'[w].nonce = worker[w].nonce
                                /\ worker'[w].bytes = worker[w].bytes
  BY DEF TypeOK, WorkerType

\* The thread of a store moves only workers that await it, and keeps their nonces.
LEMMA StoreMoves ==
    ASSUME TypeOK, NEW t \in threads, StoreEnds(t)
    PROVE  /\ \A w \in WorkerIds :
                 \/ worker'[w] = worker[w]
                 \/ /\ worker[w].pc = "storing"
                    /\ worker[w].nonce = t.nonce
                    /\ worker'[w].pc \in {"stored", "failed"}
                    /\ worker'[w].nonce = worker[w].nonce
           /\ \A w \in WorkerIds :
                 worker[w].pc = "storing" /\ worker[w].nonce = t.nonce
                    => worker'[w].pc # "storing"
  BY DEF StoreEnds, TypeOK, WorkerType

-----------------------------------------------------------------------------
(* With one client: what is reported of a run is true.                     *)

NoLiveCrew == \A w \in WorkerIds : w[1] = run => ~Live(w)

\* Only the current run is being cancelled, workers come with their run, a run that
\* reports the end of its workers, or its own, has none left, and a run that was
\* cancelled before its first step has a canceller.
ReportInv ==
    /\ \A c \in Clients : client[c] # 0 => client[c] = run
    /\ \A w \in WorkerIds :
          w[1] > run \/ (w[1] = run /\ task.pc = "created") => worker[w].pc = "none"
    /\ task.pc = "created" => task.gathered = "pending"
    /\ task.gathered = "done" => NoLiveCrew
    /\ task.pc \in {"lookup", "sleep"} => task.gathered = "done"
    /\ task.pc = "created" /\ task.must_cancel => \E c \in Clients : client[c] = run
    /\ Running => status.state = "running"
    /\ status.state = "running" /\ ~Running =>
          NoLiveCrew /\ \E c \in Clients : client[c] = run
    /\ status.state = "cancelled" => NoLiveCrew

LEMMA ReportStep ==
    ASSUME \A c, d \in Clients : c = d, TypeOK, ReportInv, [Next]_vars
    PROVE  ReportInv'
<1> USE DEF TypeOK, Running
<1>0. run \in Nat /\ \A w \in WorkerIds : w[1] \in Nat
  BY DEF WorkerIds
<1>1. ASSUME NEW c \in Clients, NEW q \in Requests, Start(c, q)
      PROVE  ReportInv'
  <2>1. \A d \in Clients : client[d] = 0
    BY <1>1 DEF Start
  <2>2. \A w \in WorkerIds : w[1] >= run' => worker'[w].pc = "none"
    BY <1>0, <1>1 DEF Start, ReportInv
  <2>3. NoLiveCrew'
    BY <1>0, <1>1, <2>2 DEF Start, NoLiveCrew, Live
  <2>. QED BY <1>0, <1>1, <2>1, <2>2, <2>3 DEF Start, ReportInv
<1>2. ASSUME NEW c \in Clients, Cancel(c)
      PROVE  ReportInv'
  <2>1. \A w \in WorkerIds : worker'[w].pc = worker[w].pc
    BY <1>2, WorkersKept DEF Cancel, Interrupt
  <2>2. NoLiveCrew => NoLiveCrew'
    BY <1>2, <2>1 DEF Cancel, NoLiveCrew, Live
  <2>3. /\ task'.pc = task.pc /\ task'.gathered = task.gathered
        /\ UNCHANGED <<status, run>>
    BY <1>2 DEF Cancel, Interrupt, TaskType
  <2>4. client'[c] = run /\ \A d \in Clients \ {c} : client'[d] = client[d]
    BY <1>2 DEF Cancel
  <2>. QED BY <1>2, <2>1, <2>2, <2>3, <2>4 DEF ReportInv, Cancel
<1>3. ASSUME NEW c \in Clients, CancelReturns(c)
      PROVE  ReportInv'
  <2>1. client[c] = run /\ ~Running
    BY <1>0, <1>3 DEF CancelReturns, ReportInv
  <2>2. client'[c] = 0 /\ \A d \in Clients \ {c} : client'[d] = client[d]
    BY <1>3 DEF CancelReturns
  <2>3. status'.state = IF status.state = "running" THEN "cancelled" ELSE status.state
    BY <1>3 DEF CancelReturns, StatusType
  <2>4. NoLiveCrew' <=> NoLiveCrew
    BY <1>3 DEF CancelReturns, NoLiveCrew, Live
  <2>5. UNCHANGED <<task, run, worker>>
    BY <1>3 DEF CancelReturns
  <2>. QED BY <2>1, <2>2, <2>3, <2>4, <2>5 DEF ReportInv
<1>4. ASSUME NEW state \in Terminal, NEW evicting, EndRun(state, evicting),
             state = "cancelled" => NoLiveCrew, task.pc # "created",
             UNCHANGED <<run, worker, client>>
      PROVE  ReportInv'
  <2>1. status'.state = state /\ task'.pc = "ended" /\ task'.gathered = task.gathered
    BY <1>4 DEF EndRun, StatusType, TaskType
  <2>2. NoLiveCrew' <=> NoLiveCrew
    BY <1>4 DEF NoLiveCrew, Live
  <2>. QED BY <1>4, <2>1, <2>2 DEF ReportInv, Terminal
<1>5. {"done", "cancelled", "error"} = Terminal
  BY DEF Terminal
<1>6. ASSUME UNCHANGED <<status, run, client, worker>>,
             task'.gathered = task.gathered,
             task.pc \in {"gather", "lookup", "sleep"},
             task'.pc \in {"gather", "lookup", "sleep"},
             task'.pc \in {"lookup", "sleep"} => task.gathered = "done"
      PROVE  ReportInv'
  <2>1. NoLiveCrew' <=> NoLiveCrew
    BY <1>6 DEF NoLiveCrew, Live
  <2>. QED BY <1>6, <2>1 DEF ReportInv
<1>7. ASSUME RunStep
      PROVE  ReportInv'
  <2>1. CASE RunStarts
    <3>1. \A w \in WorkerIds : w[1] > run => worker'[w] = worker[w]
      BY <1>0, <2>1 DEF RunStarts
    <3>2. task'.pc = "gather" /\ task'.gathered = "pending"
      BY <2>1 DEF RunStarts, ReportInv, TaskType
    <3>3. status'.state = "running" /\ UNCHANGED <<run, client>>
      BY <2>1 DEF RunStarts, ReportInv
    <3>. QED BY <3>1, <3>2, <3>3 DEF ReportInv
  <2>2. CASE RunInterrupted
    <3>1. \A w \in WorkerIds : worker'[w].pc = worker[w].pc
      BY <2>2, WorkersKept DEF RunInterrupted
    <3>2. NoLiveCrew => NoLiveCrew'
      BY <2>2, <3>1 DEF RunInterrupted, NoLiveCrew, Live
    <3>3. /\ task'.pc = "reap" /\ task'.gathered = task.gathered
          /\ UNCHANGED <<status, run, client>>
      BY <2>2 DEF RunInterrupted, TaskType
    <3>4. status.state = "running"
      BY <2>2 DEF RunInterrupted, ReportInv
    <3>. QED BY <3>1, <3>2, <3>3, <3>4 DEF ReportInv
  <2>3. CASE RunNeverStarts
    <3>1. /\ task'.pc = "ended" /\ task'.gathered = task.gathered
          /\ UNCHANGED <<status, run, client, worker>>
      BY <2>3 DEF RunNeverStarts, TaskType
    <3>2. NoLiveCrew /\ NoLiveCrew'
      BY <2>3, <3>1 DEF RunNeverStarts, ReportInv, NoLiveCrew, Live
    <3>. QED BY <2>3, <3>1, <3>2 DEF RunNeverStarts, ReportInv
  <2>4. CASE RunFails
    BY <1>4, <1>5, <2>4 DEF RunFails
  <2>5. CASE RunReaped
    <3>1. NoLiveCrew
      BY <2>5 DEF RunReaped, Crew, NoLiveCrew, Live
    <3>. QED BY <1>4, <1>5, <2>5, <3>1 DEF RunReaped
  <2>6. CASE RunFilled
    <3>1. CASE EndRun("done", status.evicting)
      BY <1>4, <1>5, <2>6, <3>1 DEF RunFilled
    <3>2. CASE task' = [task EXCEPT !.pc = "lookup", !.attempt = 1] /\ UNCHANGED status
      BY <1>6, <2>6, <3>2 DEF RunFilled, TaskType
    <3>. QED BY <2>6, <3>1, <3>2 DEF RunFilled
  <2>7. CASE CheckResumes
    <3>1. CASE EndRun("done", TRUE) \/ EndRun("done", status.evicting)
      BY <1>4, <1>5, <2>7, <3>1 DEF CheckResumes
    <3>2. CASE /\ status' = [status EXCEPT !.evicting = FALSE]
               /\ task' = [task EXCEPT !.pc = "sleep"]
      <4>1. /\ status'.state = status.state
            /\ task'.pc = "sleep" /\ task'.gathered = task.gathered
        BY <3>2 DEF StatusType, TaskType
      <4>2. (NoLiveCrew' <=> NoLiveCrew) /\ UNCHANGED <<run, client, worker>>
        BY <2>7 DEF CheckResumes, NoLiveCrew, Live
      <4>. QED BY <2>7, <4>1, <4>2 DEF CheckResumes, ReportInv
    <3>. QED BY <2>7, <3>1, <3>2 DEF CheckResumes
  <2>8. CASE CheckWakes
    <3>1. CASE EndRun("done", status.evicting)
      BY <1>4, <1>5, <2>8, <3>1 DEF CheckWakes
    <3>2. CASE /\ task' = [task EXCEPT !.pc = "lookup", !.hit = "none", !.attempt = @ + 1]
               /\ UNCHANGED status
      BY <1>6, <2>8, <3>2 DEF CheckWakes, TaskType, ReportInv
    <3>. QED BY <2>8, <3>1, <3>2 DEF CheckWakes
  <2>9. CASE CheckInterrupted
    <3>1. NoLiveCrew
      BY <2>9 DEF CheckInterrupted, ReportInv
    <3>. QED BY <1>4, <1>5, <2>9, <3>1 DEF CheckInterrupted
  <2>. QED BY <1>7, <2>1, <2>2, <2>3, <2>4, <2>5, <2>6, <2>7, <2>8, <2>9 DEF RunStep
<1>8. CASE LookupEnds
  BY <1>6, <1>8 DEF LookupEnds, TaskType, ReportInv
<1>9. ASSUME NEW w \in WorkerIds, WorkerStep(w)
      PROVE  ReportInv'
  <2>1. /\ Live(w)
        /\ UNCHANGED <<run, client>>
        /\ status'.state = status.state
        /\ \A v \in WorkerIds \ {w} : worker'[v] = worker[v]
    BY <1>9, WorkerMoves DEF StatusType
  <2>2. \A v \in WorkerIds : Live(v)' => Live(v)
    BY <2>1 DEF Live
  <2>3. NoLiveCrew => NoLiveCrew'
    BY <2>1, <2>2 DEF NoLiveCrew
  <2>4. \A v \in WorkerIds : worker[v].pc = "none" => worker'[v].pc = "none"
    BY <2>1 DEF Live
  <2>5. CASE UNCHANGED task
    BY <2>1, <2>3, <2>4, <2>5 DEF ReportInv
  <2>6. ASSUME NEW end \in Ended, worker'[w].pc = end,
               task' = [task EXCEPT !.gathered = Gathered(w, end)]
        PROVE  ReportInv'
    <3>1. /\ task'.pc = task.pc /\ task'.must_cancel = task.must_cancel
          /\ task'.gathered = Gathered(w, end)
      BY <2>6 DEF TaskType
    <3>2. task.pc # "gather" => task'.gathered = task.gathered
      BY <3>1 DEF Gathered
    <3>3. task'.gathered = "done" => NoLiveCrew'
      <4>1. CASE task.gathered = "done"
        BY <2>3, <4>1 DEF ReportInv
      <4>2. CASE task.gathered # "done" /\ Gathered(w, end) = "done"
        <5>1. end = "done" /\ \A v \in Crew \ {w} : worker[v].pc = "done"
          BY <4>2 DEF Gathered
        <5>2. \A v \in WorkerIds : v[1] = run => ~Live(v)'
          BY <2>1, <2>6, <5>1 DEF Crew, Live
        <5>. QED BY <2>1, <5>2 DEF NoLiveCrew
      <4>. QED BY <3>1, <4>1, <4>2
    <3>4. task.gathered = "done" => task'.gathered = "done"
      BY <3>1 DEF Gathered
    <3>. QED BY <2>1, <2>3, <2>4, <3>1, <3>2, <3>3, <3>4 DEF ReportInv
  <2>. QED BY <1>9, <2>5, <2>6, WorkerMoves
<1>10. ASSUME NEW t \in threads, StoreEnds(t)
       PROVE  ReportInv'
  <2>1. \A v \in WorkerIds : (Live(v)' => Live(v)) /\
                             (worker[v].pc = "none" => worker'[v].pc = "none")
    BY <1>10, StoreMoves DEF Live
  <2>2. UNCHANGED <<status, task, run, client>>
    BY <1>10 DEF StoreEnds
  <2>3. NoLiveCrew => NoLiveCrew'
    BY <2>1, <2>2 DEF NoLiveCrew
  <2>. QED BY <2>1, <2>2, <2>3 DEF ReportInv
<1>11. CASE UNCHANGED vars
  BY <1>11 DEF vars, ReportInv, NoLiveCrew, Live
<1>. QED
  BY <1>1, <1>2, <1>3, <1>7, <1>8, <1>9, <1>10, <1>11 DEF Next, Control

\* With one client ReportInv holds of every behaviour, with faults as well.
LEMMA Reports ==
    ASSUME \A c, d \in Clients : c = d
    PROVE  Spec => []ReportInv
<1>1. Init => ReportInv
  BY DEF Init, ReportInv, NoLiveCrew, Live, Running
<1>2. TypeOK /\ ReportInv /\ [Next]_vars => ReportInv'
  BY ReportStep
<1>. QED BY <1>1, <1>2, TypeCorrect, PTL DEF Spec

\* One client at a time sees a run reported for what it is, whatever the stack's
\* calls raise: cancel() then judges the run it awaited (line 159).
THEOREM LiveIsReported ==
    ASSUME \A c, d \in Clients : c = d
    PROVE  Spec => []LiveRunReported
<1>1. ReportInv => LiveRunReported
  BY DEF ReportInv, LiveRunReported
<1>. QED BY <1>1, Reports, PTL

\* One client at a time is never told "running" of a run that ended by itself, nor
\* "cancelled" of one whose workers are still there.
THEOREM StateReported ==
    ASSUME \A c, d \in Clients : c = d
    PROVE  Spec => []StateIsTrue
<1>1. ReportInv => StateIsTrue
  BY DEF ReportInv, StateIsTrue, NoLiveCrew, Crew
<1>. QED BY <1>1, Reports, PTL

-----------------------------------------------------------------------------
(* With one client and without faults: the controller is WarmupRun.        *)

\* A run that is on has a number, and sequences of at least a byte.
BytesInv == status.state = "running" => run > 0 /\ status.seq_bytes > 0

\* A sequence has a chunk at least.
LEMMA SequenceBytes ==
    ASSUME NEW q \in Requests
    PROVE  AlignedTokens(q.seq_tokens) * BytesPerToken > 0
<1>1. q.seq_tokens \in Nat
  <2>1. q \in [target: Nat, fill: Nat, seq_tokens: Nat, concurrency: 1..MaxConcurrency]
    OBVIOUS
  <2>. QED BY <2>1
<1>2. (q.seq_tokens \div ChunkSize) * ChunkSize \in Nat
  <2>1. q.seq_tokens \div ChunkSize \in Nat
    BY <1>1
  <2>. QED BY <2>1
<1>3. AlignedTokens(q.seq_tokens) \in Nat /\ AlignedTokens(q.seq_tokens) > 0
  BY <1>2 DEF AlignedTokens
<1>4. PICK n \in Nat : AlignedTokens(q.seq_tokens) = n + 1
  <2>1. AlignedTokens(q.seq_tokens) - 1 \in Nat
    BY <1>3
  <2>. QED BY <2>1, <1>3
<1>5. (n + 1) * BytesPerToken = n * BytesPerToken + BytesPerToken /\ n * BytesPerToken \in Nat
  OBVIOUS
<1>. QED BY <1>4, <1>5

\* Every step of the controller is a step of WarmupRun or none, and the bytes of a
\* sequence stay positive while it runs.
LEMMA RunStepRefines ==
    ASSUME ~Faulty, \A c, d \in Clients : c = d,
           TypeOK, CrewInv, ReportInv, BytesInv, [Next]_vars
    PROVE  [Abstract!Next]_(Abstract!vars) /\ BytesInv'
<1> USE DEF TypeOK, Running
<1> DEFINE A == [Abstract!Next]_(Abstract!vars)
<1>0. run \in Nat
  OBVIOUS
<1>1. ASSUME UNCHANGED <<status, run>>
      PROVE  A /\ BytesInv'
  BY <1>1 DEF Abstract!vars, BytesInv
<1>2. ASSUME NEW state \in Terminal, status.state = "running",
             status'.state = state, status'.stored = status.stored,
             UNCHANGED run
      PROVE  A /\ BytesInv'
  <2>1. Abstract!Finish
    BY <1>2 DEF Abstract!Finish, Abstract!Outcomes, Terminal
  <2>. QED BY <1>2, <2>1 DEF Abstract!Next, BytesInv, Terminal
<1>3. {"done", "cancelled", "error"} = Terminal
  BY DEF Terminal
<1>4. ASSUME NEW c \in Clients, NEW q \in Requests, Start(c, q)
      PROVE  A /\ BytesInv'
  <2>1. status.state # "running"
    BY <1>0, <1>4 DEF Start, ReportInv, BytesInv
  <2>2. Abstract!Begin
    BY <1>4, <2>1 DEF Start, Abstract!Begin
  <2>. QED BY <1>0, <1>4, <2>2, SequenceBytes DEF Start, Abstract!Next, BytesInv
<1>5. ASSUME NEW c \in Clients, CancelReturns(c)
      PROVE  A /\ BytesInv'
  <2>1. CASE status.state = "running"
    BY <1>2, <1>3, <1>5, <2>1 DEF CancelReturns, StatusType
  <2>2. CASE status.state # "running"
    BY <1>1, <1>5, <2>2 DEF CancelReturns
  <2>. QED BY <2>1, <2>2
<1>6. ASSUME NEW state \in Terminal, NEW evicting, EndRun(state, evicting),
             task.pc \in {"created", "gather", "reap", "lookup", "sleep"}, UNCHANGED run
      PROVE  A /\ BytesInv'
  <2>1. status.state = "running"
    BY <1>6 DEF ReportInv
  <2>. QED BY <1>2, <1>6, <2>1 DEF EndRun, StatusType
<1>7. CASE RunStep
  <2>1. CASE RunStarts \/ RunInterrupted \/ RunNeverStarts
    BY <1>1, <2>1 DEF RunStarts, RunInterrupted, RunNeverStarts
  <2>2. CASE RunFails \/ RunReaped \/ CheckInterrupted
    BY <1>3, <1>6, <2>2 DEF RunFails, RunReaped, CheckInterrupted
  <2>3. CASE RunFilled \/ CheckWakes
    BY <1>1, <1>3, <1>6, <2>3 DEF RunFilled, CheckWakes
  <2>4. CASE CheckResumes
    <3>1. CASE EndRun("done", TRUE) \/ EndRun("done", status.evicting)
      BY <1>3, <1>6, <2>4, <3>1 DEF CheckResumes
    <3>2. CASE status' = [status EXCEPT !.evicting = FALSE]
      <4>1. /\ status'.state = status.state /\ status'.stored = status.stored
            /\ status'.seq_bytes = status.seq_bytes /\ UNCHANGED run
        BY <2>4, <3>2 DEF CheckResumes, StatusType
      <4>. QED BY <4>1 DEF Abstract!vars, BytesInv
    <3>. QED BY <2>4, <3>1, <3>2 DEF CheckResumes
  <2>. QED BY <1>7, <2>1, <2>2, <2>3, <2>4 DEF RunStep
<1>8. ASSUME NEW w \in WorkerIds, WorkerStep(w)
      PROVE  A /\ BytesInv'
  <2>1. /\ Live(w) /\ UNCHANGED run
        /\ \/ UNCHANGED status
           \/ status' = [status EXCEPT !.stored = @ + worker[w].bytes, !.sequences = @ + 1]
    BY <1>8, WorkerMoves
  <2>2. status.state = "running" /\ worker[w].bytes = status.seq_bytes
    BY <2>1 DEF CrewInv, ReportInv
  <2>3. CASE status' = [status EXCEPT !.stored = @ + worker[w].bytes, !.sequences = @ + 1]
    <3>1. /\ status'.state = status.state /\ status'.seq_bytes = status.seq_bytes
          /\ status'.stored = status.stored + status.seq_bytes
          /\ status.stored \in Nat /\ status.seq_bytes \in Nat
      BY <2>2, <2>3 DEF StatusType
    <3>2. status'.stored > status.stored
      BY <2>2, <3>1 DEF BytesInv
    <3>3. Abstract!Progress
      BY <2>1, <2>2, <3>1, <3>2 DEF Abstract!Progress
    <3>. QED BY <2>1, <3>1, <3>3 DEF Abstract!Next, BytesInv
  <2>. QED BY <1>1, <2>1, <2>3
<1>9. CASE \E c \in Clients : Cancel(c)
  BY <1>1, <1>9 DEF Cancel
<1>10. CASE LookupEnds
  BY <1>1, <1>10 DEF LookupEnds
<1>11. CASE \E t \in threads : StoreEnds(t)
  BY <1>1, <1>11 DEF StoreEnds
<1>12. CASE UNCHANGED vars
  BY <1>1, <1>12 DEF vars
<1>. QED
  BY <1>4, <1>5, <1>7, <1>8, <1>9, <1>10, <1>11, <1>12 DEF Next, Control

\* What one client sees of the controller, while no call of the stack raises, is
\* the abstract run: it begins when none is on, its bytes only grow, it ends once.
THEOREM RefinesWarmupRun ==
    ASSUME ~Faulty, \A c, d \in Clients : c = d
    PROVE  Spec => Abstract!Init /\ [][Abstract!Next]_(Abstract!vars)
<1>1. Init => Abstract!Init /\ BytesInv
  BY DEF Init, Abstract!Init, BytesInv
<1>2. TypeOK /\ CrewInv /\ ReportInv /\ BytesInv /\ [Next]_vars
        => [Abstract!Next]_(Abstract!vars) /\ BytesInv'
  BY RunStepRefines
<1>. QED BY <1>1, <1>2, TypeCorrect, CrewAndStored, Reports, PTL DEF Spec

-----------------------------------------------------------------------------
(* Without faults: the verdict of the eviction check.                      *)

\* Nonces are claimed once, by workers of a run that has started, and the first
\* sequence is one of the current run.
NonceInv ==
    /\ first_seq <= seq_counter
    /\ \A w \in WorkerIds : worker[w].nonce <= seq_counter
    /\ \A w \in WorkerIds : worker[w].pc = "none" => worker[w].nonce = 0
    /\ \A w \in WorkerIds : worker[w].pc = "storing" => worker[w].nonce # 0
    /\ \A v, w \in WorkerIds : worker[v].nonce = worker[w].nonce =>
          v = w \/ worker[v].nonce = 0
    /\ \A w \in WorkerIds :
          w[1] > run \/ (w[1] = run /\ task.pc = "created") => worker[w].pc = "none"
    /\ \A w \in WorkerIds : first_seq # 0 /\ worker[w].nonce = first_seq => w[1] = run

\* The thread of a store has a worker that awaits it or was cancelled.
Awaited(t) ==
    \E w \in WorkerIds : worker[w].nonce = t.nonce /\ worker[w].pc \in {"storing", "cancelled"}

ThreadInv ==
    /\ \A t \in threads : t.nonce \in 1..seq_counter /\ Awaited(t)
    /\ \A t, u \in threads : t.nonce = u.nonce => t = u

\* A gather that is done has no worker that was cancelled, and the verdict is about
\* a first sequence that is gone.
VerdictInv ==
    /\ task.gathered = "done" => \A w \in WorkerIds : w[1] = run => worker[w].pc \in {"none", "done"}
    /\ task.pc \in {"lookup", "sleep"} => task.gathered = "done" /\ first_seq # 0
    /\ task.hit = "short" \/ status.evicting =>
          /\ first_seq # 0
          /\ task.gathered = "done"
          /\ \A i \in DOMAIN cache : cache[i].nonce # first_seq

EvictInv == NonceInv /\ ThreadInv /\ VerdictInv

\* A first sequence that the run's workers are done with is not being stored.
LEMMA FirstIsStored ==
    ASSUME TypeOK, EvictInv, task.gathered = "done", first_seq # 0, NEW t \in threads
    PROVE  t.nonce # first_seq
<1>1. PICK w \in WorkerIds : worker[w].nonce = t.nonce /\ worker[w].pc \in {"storing", "cancelled"}
  BY DEF EvictInv, ThreadInv, Awaited
<1>2. w[1] = run => worker[w].pc \in {"none", "done"}
  BY DEF EvictInv, VerdictInv
<1>. QED BY <1>1, <1>2 DEF EvictInv, NonceInv

\* What an eviction leaves was there before.
LEMMA FittedKeeps ==
    ASSUME NEW s, s \in Seq(StoreType), NEW r \in Fitted(s), NEW i \in DOMAIN r
    PROVE  \E j \in DOMAIN s : r[i] = s[j]
<1>1. PICK k \in 1..(Len(s) + 1) : r = SubSeq(s, k, Len(s))
  BY DEF Fitted
<1>2. DOMAIN r = 1..(IF k <= Len(s) THEN Len(s) - k + 1 ELSE 0) /\ Len(s) \in Nat
  BY <1>1
<1>3. r[i] = s[k + i - 1] /\ k + i - 1 \in 1..Len(s)
  BY <1>1, <1>2
<1>. QED BY <1>3

\* A store does not bring a sequence back that the stack does not hold.
LEMMA StoreMisses ==
    ASSUME TypeOK, NEW t \in threads, StoreEnds(t), NEW x, t.nonce # x,
           \A i \in DOMAIN cache : cache[i].nonce # x
    PROVE  \A i \in DOMAIN cache' : cache'[i].nonce # x
<1>1. cache \in Seq(StoreType) /\ t \in StoreType
  BY DEF TypeOK
<1>2. PICK s : s = Append(cache, t)
  OBVIOUS
<1>3. s \in Seq(StoreType)
  BY <1>1, <1>2
<1>4. \A j \in DOMAIN s : s[j].nonce # x
  <2>1. DOMAIN s = 1..(Len(cache) + 1) /\ Len(cache) \in Nat /\ DOMAIN cache = 1..Len(cache)
    BY <1>1, <1>2
  <2>2. \A j \in 1..Len(cache) : s[j] = cache[j]
    BY <1>1, <1>2
  <2>3. s[Len(cache) + 1] = t
    BY <1>1, <1>2
  <2>. QED BY <2>1, <2>2, <2>3
<1>5. cache' \in Fitted(s) \/ cache' = cache
  BY <1>2 DEF StoreEnds
<1>6. CASE cache' \in Fitted(s)
  <2> SUFFICES ASSUME NEW r \in Fitted(s), NEW i \in DOMAIN r
               PROVE  r[i].nonce # x
    BY <1>6
  <2>. QED BY <1>3, <1>4, FittedKeeps
<1>. QED BY <1>5, <1>6

\* NonceInv does not look at the rest of a worker, nor at the rest of the task.
LEMMA NonceKept ==
    ASSUME NonceInv, run \in Nat, \A w \in WorkerIds : w[1] \in Nat,
           \A w \in WorkerIds : worker'[w].nonce = worker[w].nonce,
           \A w \in WorkerIds : worker'[w].pc = "none" => worker[w].pc = "none",
           \A w \in WorkerIds : worker[w].pc = "none" =>
              worker'[w].pc = "none" \/ (w[1] = run /\ task'.pc # "created"),
           \A w \in WorkerIds : worker'[w].pc = "storing" => worker[w].pc = "storing",
           UNCHANGED <<run, first_seq, seq_counter>>,
           task'.pc = "created" => task.pc = "created"
    PROVE  NonceInv'
<1>1. /\ first_seq' <= seq_counter'
      /\ \A w \in WorkerIds : worker'[w].nonce <= seq_counter'
  BY DEF NonceInv
<1>2. \A w \in WorkerIds : /\ worker'[w].pc = "none" => worker'[w].nonce = 0
                           /\ worker'[w].pc = "storing" => worker'[w].nonce # 0
  BY DEF NonceInv
<1>3. \A v, w \in WorkerIds : worker'[v].nonce = worker'[w].nonce =>
         v = w \/ worker'[v].nonce = 0
  BY DEF NonceInv
<1>4. \A w \in WorkerIds :
         w[1] > run' \/ (w[1] = run' /\ task'.pc = "created") => worker'[w].pc = "none"
  BY DEF NonceInv
<1>5. \A w \in WorkerIds : first_seq' # 0 /\ worker'[w].nonce = first_seq' => w[1] = run'
  BY DEF NonceInv
<1>. QED BY <1>1, <1>2, <1>3, <1>4, <1>5 DEF NonceInv

LEMMA EvictStep ==
    ASSUME ~Faulty, TypeOK, TypeOK', CrewInv, EvictInv, [Next]_vars
    PROVE  EvictInv'
<1> USE DEF TypeOK
<1>0. run \in Nat /\ \A w \in WorkerIds : w[1] \in Nat
  BY DEF WorkerIds
<1>1. ASSUME NEW c \in Clients, NEW q \in Requests, Start(c, q)
      PROVE  EvictInv'
  <2>1. \A w \in WorkerIds : w[1] >= run' => worker'[w].pc = "none"
    BY <1>0, <1>1 DEF Start, EvictInv, NonceInv, ThreadInv, VerdictInv
  <2>2. /\ run' = run + 1 /\ first_seq' = 0 /\ UNCHANGED <<seq_counter, worker, threads>>
        /\ task'.pc = "created" /\ task'.gathered = "pending" /\ task'.hit = "none"
        /\ ~status'.evicting
    BY <1>1 DEF Start
  <2>3. NonceInv'
    BY <1>0, <2>1, <2>2 DEF EvictInv, NonceInv
  <2>4. ThreadInv'
    BY <2>2 DEF EvictInv, ThreadInv, Awaited
  <2>5. VerdictInv'
    BY <2>2 DEF VerdictInv
  <2>. QED BY <2>3, <2>4, <2>5 DEF EvictInv
<1>2. ASSUME \A w \in WorkerIds : /\ worker'[w].pc = worker[w].pc
                                  /\ worker'[w].nonce = worker[w].nonce,
             UNCHANGED <<run, first_seq, seq_counter, threads, cache>>,
             task'.gathered = task.gathered,
             task'.pc = "created" => task.pc = "created",
             task'.pc \in {"lookup", "sleep"} => task.gathered = "done" /\ first_seq # 0,
             task'.hit = "short" \/ status'.evicting =>
                 \/ task.hit = "short" \/ status.evicting
                 \/ /\ first_seq # 0 /\ task.gathered = "done"
                    /\ \A i \in DOMAIN cache : cache[i].nonce # first_seq
      PROVE  EvictInv'
  <2>1. NonceInv'
    BY <1>0, <1>2, NonceKept DEF EvictInv
  <2>2. \A t \in threads : Awaited(t) => Awaited(t)'
    BY <1>2 DEF Awaited
  <2>3. ThreadInv'
    BY <1>2, <2>2 DEF EvictInv, ThreadInv
  <2>4. VerdictInv'
    BY <1>2 DEF EvictInv, VerdictInv
  <2>. QED BY <2>1, <2>3, <2>4 DEF EvictInv
<1>3. ASSUME NEW c \in Clients, Cancel(c)
      PROVE  EvictInv'
  <2>1. \A w \in WorkerIds : worker'[w].pc = worker[w].pc /\ worker'[w].nonce = worker[w].nonce
    BY <1>3, WorkersKept DEF Cancel, Interrupt
  <2>2. /\ task'.pc = task.pc /\ task'.gathered = task.gathered /\ task'.hit = task.hit
        /\ UNCHANGED status
    BY <1>3 DEF Cancel, Interrupt, TaskType
  <2>. QED BY <1>2, <1>3, <2>1, <2>2 DEF Cancel, EvictInv, NonceInv, ThreadInv, VerdictInv
<1>4. ASSUME NEW c \in Clients, CancelReturns(c)
      PROVE  EvictInv'
  <2>1. status'.evicting = status.evicting
    BY <1>4 DEF CancelReturns, StatusType
  <2>. QED BY <1>2, <1>4, <2>1 DEF CancelReturns, EvictInv, NonceInv, ThreadInv, VerdictInv
<1>5. ASSUME NEW state, NEW evicting, EndRun(state, evicting),
             evicting => status.evicting \/ task.hit = "short",
             UNCHANGED <<run, first_seq, seq_counter, worker, threads, cache>>
      PROVE  EvictInv'
  <2>1. /\ status'.evicting = evicting /\ task'.pc = "ended"
        /\ task'.gathered = task.gathered /\ task'.hit = task.hit
    BY <1>5 DEF EndRun, StatusType, TaskType
  <2>. QED BY <1>2, <1>5, <2>1
<1>6. CASE RunStep
  <2>1. CASE RunStarts
    <3>1. \A w \in WorkerIds : w[1] = run => worker[w].pc = "none" /\ worker[w].nonce = 0
      BY <2>1 DEF RunStarts, EvictInv, NonceInv
    <3>2. \A w \in WorkerIds : \/ worker'[w] = worker[w]
                               \/ w[1] = run /\ worker'[w].nonce = 0 /\ worker'[w].pc = "ready"
      BY <2>1 DEF RunStarts
    <3>3. /\ task'.pc = "gather" /\ task'.gathered = "pending" /\ task'.hit = task.hit
          /\ task.gathered = "pending"
      BY <2>1 DEF RunStarts, TaskType, CrewInv
    <3>4. UNCHANGED <<status, run, first_seq, seq_counter, threads, cache>>
      BY <2>1 DEF RunStarts
    <3>5. \A w \in WorkerIds : worker'[w].nonce = worker[w].nonce
      BY <3>1, <3>2
    <3>6. NonceInv'
      BY <1>0, <3>2, <3>3, <3>4, <3>5, NonceKept DEF EvictInv
    <3>7. \A t \in threads : Awaited(t) => Awaited(t)'
      BY <3>1, <3>2, <3>5 DEF Awaited
    <3>8. ThreadInv'
      BY <3>4, <3>7 DEF EvictInv, ThreadInv
    <3>9. VerdictInv'
      BY <3>3, <3>4 DEF EvictInv, VerdictInv
    <3>. QED BY <3>6, <3>8, <3>9 DEF EvictInv
  <2>2. CASE RunInterrupted
    <3>1. \A w \in WorkerIds : worker'[w].pc = worker[w].pc /\ worker'[w].nonce = worker[w].nonce
      BY <2>2, WorkersKept DEF RunInterrupted
    <3>2. /\ task'.pc = "reap" /\ task'.gathered = task.gathered /\ task'.hit = task.hit
          /\ UNCHANGED status
      BY <2>2 DEF RunInterrupted, TaskType
    <3>. QED BY <1>2, <2>2, <3>1, <3>2 DEF RunInterrupted
  <2>3. CASE RunNeverStarts
    <3>1. /\ task'.pc = "ended" /\ task'.gathered = task.gathered /\ task'.hit = task.hit
      BY <2>3 DEF RunNeverStarts, TaskType
    <3>. QED BY <1>2, <2>3, <3>1 DEF RunNeverStarts
  <2>4. CASE RunFails \/ RunReaped \/ CheckInterrupted
    BY <1>5, <2>4 DEF RunFails, RunReaped, CheckInterrupted
  <2>5. CASE RunFilled
    <3>1. CASE EndRun("done", status.evicting)
      BY <1>5, <2>5, <3>1 DEF RunFilled
    <3>2. CASE first_seq # 0 /\ task' = [task EXCEPT !.pc = "lookup", !.attempt = 1] /\ UNCHANGED status
      <4>1. task'.pc = "lookup" /\ task'.gathered = task.gathered /\ task'.hit = task.hit
        BY <3>2 DEF TaskType
      <4>. QED BY <1>2, <2>5, <3>2, <4>1 DEF RunFilled
    <3>. QED BY <2>5, <3>1, <3>2 DEF RunFilled
  <2>6. CASE CheckResumes
    <3>1. CASE task.hit = "short" /\ EndRun("done", TRUE)
      BY <1>5, <2>6, <3>1 DEF CheckResumes
    <3>2. CASE EndRun("done", status.evicting)
      BY <1>5, <2>6, <3>2 DEF CheckResumes
    <3>3. CASE /\ status' = [status EXCEPT !.evicting = FALSE]
               /\ task' = [task EXCEPT !.pc = "sleep"]
      <4>1. /\ task'.pc = "sleep" /\ task'.gathered = task.gathered /\ task'.hit = task.hit
            /\ status'.evicting = FALSE
        BY <3>3 DEF TaskType, StatusType
      <4>2. task.gathered = "done" /\ first_seq # 0
        BY <2>6 DEF CheckResumes, EvictInv, NonceInv, ThreadInv, VerdictInv
      <4>. QED BY <1>2, <2>6, <4>1, <4>2 DEF CheckResumes
    <3>. QED BY <2>6, <3>1, <3>2, <3>3 DEF CheckResumes
  <2>7. CASE CheckWakes
    <3>1. CASE EndRun("done", status.evicting)
      BY <1>5, <2>7, <3>1 DEF CheckWakes
    <3>2. CASE /\ task' = [task EXCEPT !.pc = "lookup", !.hit = "none", !.attempt = @ + 1]
               /\ UNCHANGED status
      <4>1. task'.pc = "lookup" /\ task'.gathered = task.gathered /\ task'.hit = "none"
        BY <3>2 DEF TaskType
      <4>2. task.gathered = "done" /\ first_seq # 0
        BY <2>7 DEF CheckWakes, EvictInv, NonceInv, ThreadInv, VerdictInv
      <4>. QED BY <1>2, <2>7, <3>2, <4>1, <4>2 DEF CheckWakes
    <3>. QED BY <2>7, <3>1, <3>2 DEF CheckWakes
  <2>. QED BY <1>6, <2>1, <2>2, <2>3, <2>4, <2>5, <2>6, <2>7 DEF RunStep
<1>7. CASE LookupEnds
  <2>1. task'.pc = task.pc /\ task'.gathered = task.gathered
    BY <1>7 DEF LookupEnds, TaskType
  <2>2. task.gathered = "done" /\ first_seq # 0
    BY <1>7 DEF LookupEnds, EvictInv, NonceInv, ThreadInv, VerdictInv
  <2>3. task'.hit = "short" => \A i \in DOMAIN cache : cache[i].nonce # first_seq
    BY <1>7 DEF LookupEnds, TaskType
  <2>4. UNCHANGED <<status, run, first_seq, seq_counter, worker, threads, cache>>
    BY <1>7 DEF LookupEnds
  <2>. QED BY <1>2, <1>7, <2>1, <2>2, <2>3, <2>4
<1>8. ASSUME NEW w \in WorkerIds, WorkerStep(w)
      PROVE  EvictInv'
  <2>1. /\ Live(w)
        /\ UNCHANGED <<run, cache>>
        /\ status'.evicting = status.evicting
        /\ \A v \in WorkerIds \ {w} : worker'[v] = worker[v]
    BY <1>8, WorkerMoves DEF StatusType
  <2>2. w[1] = run /\ task.pc \in {"gather", "reap"} /\ task.gathered # "done"
    BY <2>1 DEF CrewInv, EvictInv, NonceInv, ThreadInv, VerdictInv, Live
  <2>3. task.hit # "short" /\ ~status.evicting
    BY <2>2 DEF EvictInv, NonceInv, ThreadInv, VerdictInv
  <2>4. CASE /\ worker'[w].pc = "storing"
             /\ seq_counter' = seq_counter + 1
             /\ worker'[w].nonce = seq_counter'
             /\ first_seq' = IF first_seq = 0 THEN seq_counter' ELSE first_seq
             /\ threads' = threads \cup {[nonce |-> seq_counter', bytes |-> worker[w].bytes]}
             /\ UNCHANGED task
    <3> DEFINE new == [nonce |-> seq_counter', bytes |-> worker[w].bytes]
    <3>1. /\ seq_counter \in Nat /\ first_seq \in Nat
          /\ \A v \in WorkerIds : worker[v].nonce \in Nat /\ worker[v].nonce <= seq_counter
      BY DEF EvictInv, NonceInv, WorkerType
    <3>2. new.nonce = seq_counter + 1 /\ threads' = threads \cup {new}
      BY <2>4
    <3>3. \A t \in threads : t.nonce \in 1..seq_counter
      BY DEF EvictInv, ThreadInv
    <3>4. worker[w].pc \in {"ready", "stored"}
      BY <1>8, <2>4 DEF WorkerStep, WorkerStarts, WorkerStored, WorkerFails, WorkerCancelled,
                        WorkerEnds, CrewInv, WorkerType
    <3>5. worker'[w].nonce = seq_counter + 1 /\ seq_counter' = seq_counter + 1
      BY <2>4
    <3>6. NonceInv'
      <4>1. first_seq' <= seq_counter' /\ \A v \in WorkerIds : worker'[v].nonce <= seq_counter'
        <5>1. first_seq <= seq_counter
          BY DEF EvictInv, NonceInv
        <5>2. \A v \in WorkerIds \ {w} : worker'[v].nonce <= seq_counter'
          BY <2>1, <3>1, <3>5
        <5>. QED BY <2>4, <3>1, <3>5, <5>1, <5>2
      <4>2. \A v \in WorkerIds : /\ worker'[v].pc = "none" => worker'[v].nonce = 0
                                 /\ worker'[v].pc = "storing" => worker'[v].nonce # 0
        <5>1. \A v \in WorkerIds \ {w} : worker'[v] = worker[v]
          BY <2>1
        <5>2. worker'[w].pc = "storing" /\ worker'[w].nonce # 0
          BY <2>4, <3>1, <3>5
        <5>. QED BY <5>1, <5>2 DEF EvictInv, NonceInv
      <4>3. \A u, v \in WorkerIds : worker'[u].nonce = worker'[v].nonce =>
               u = v \/ worker'[u].nonce = 0
        <5>1. \A v \in WorkerIds \ {w} : worker'[v].nonce # worker'[w].nonce
          BY <2>1, <3>1, <3>5
        <5>. QED BY <2>1, <5>1 DEF EvictInv, NonceInv
      <4>4. \A v \in WorkerIds :
               v[1] > run' \/ (v[1] = run' /\ task'.pc = "created") => worker'[v].pc = "none"
        <5>1. run' = run /\ task'.pc = task.pc /\ task.pc # "created"
          BY <2>1, <2>2, <2>4
        <5>2. \A v \in WorkerIds : v[1] > run => worker[v].pc = "none"
          BY DEF EvictInv, NonceInv
        <5>. QED BY <1>0, <2>1, <2>2, <5>1, <5>2
      <4>5. \A v \in WorkerIds : first_seq' # 0 /\ worker'[v].nonce = first_seq' => v[1] = run'
        <5>1. CASE first_seq = 0
          <6>1. first_seq' = seq_counter + 1 /\ run' = run
            BY <2>1, <2>4, <3>5, <5>1
          <6>2. \A v \in WorkerIds \ {w} : worker'[v].nonce # seq_counter + 1
            BY <2>1, <3>1
          <6>. QED BY <2>2, <6>1, <6>2
        <5>2. CASE first_seq # 0
          BY <2>1, <2>2, <2>4, <5>2 DEF EvictInv, NonceInv
        <5>. QED BY <5>1, <5>2
      <4>. QED BY <4>1, <4>2, <4>3, <4>4, <4>5 DEF NonceInv
    <3>7. \A t \in threads : Awaited(t)'
      BY <2>1, <3>4 DEF EvictInv, ThreadInv, Awaited
    <3>8. \A t : t = new => Awaited(t)'
      BY <2>4, <3>2, <3>5 DEF Awaited
    <3>9. ThreadInv'
      <4>1. \A t \in threads : t.nonce \in 1..seq_counter' /\ t.nonce # new.nonce
        BY <3>1, <3>2, <3>3, <3>5
      <4>2. new.nonce \in 1..seq_counter'
        BY <3>1, <3>2, <3>5
      <4>3. \A t \in threads' : t.nonce \in 1..seq_counter' /\ Awaited(t)'
        BY <3>2, <3>7, <3>8, <4>1, <4>2
      <4>4. \A t, u \in threads' : t.nonce = u.nonce => t = u
        BY <3>2, <4>1 DEF EvictInv, ThreadInv
      <4>. QED BY <4>3, <4>4 DEF ThreadInv
    <3>10. VerdictInv'
      BY <2>1, <2>2, <2>3, <2>4 DEF EvictInv, VerdictInv
    <3>. QED BY <3>6, <3>9, <3>10 DEF EvictInv
  <2>5. ASSUME NEW end \in Ended,
               worker'[w].pc = end,
               worker'[w].nonce = worker[w].nonce,
               task' = [task EXCEPT !.gathered = Gathered(w, end)],
               threads' \subseteq threads,
               end = "cancelled" \/ UNCHANGED threads,
               UNCHANGED <<first_seq, seq_counter>>
        PROVE  EvictInv'
    <3>1. /\ task'.pc = task.pc /\ task'.hit = task.hit
          /\ task'.gathered = Gathered(w, end)
      BY <2>5 DEF TaskType
    <3>2. Gathered(w, end) = "done" =>
             \A v \in WorkerIds : v[1] = run => worker'[v].pc \in {"none", "done"}
      BY <2>1, <2>2, <2>5 DEF Gathered, Crew, Ended
    <3>3. \A v \in WorkerIds : worker'[v].nonce = worker[v].nonce
      BY <2>1, <2>5
    <3>4. \A v \in WorkerIds : v # w => worker'[v].pc = worker[v].pc
      BY <2>1
    <3>5. NonceInv'
      <4>1. worker'[w].pc \notin {"none", "storing"} /\ worker[w].pc # "none"
        BY <2>1, <2>5 DEF Ended, Live
      <4>. QED BY <1>0, <2>1, <2>5, <3>1, <3>3, <3>4, <4>1, NonceKept DEF EvictInv
    <3>6. ASSUME NEW t \in threads'
          PROVE  Awaited(t)'
      <4>1. PICK v \in WorkerIds :
               worker[v].nonce = t.nonce /\ worker[v].pc \in {"storing", "cancelled"}
        BY <2>5, <3>6 DEF EvictInv, ThreadInv, Awaited
      <4>2. CASE v # w
        BY <3>3, <3>4, <4>1, <4>2 DEF Awaited
      <4>3. CASE v = w /\ end = "cancelled"
        BY <2>5, <3>3, <4>1, <4>3 DEF Awaited
      <4>4. CASE v = w /\ end # "cancelled"
        BY <1>8, <2>1, <2>5, <4>1, <4>4
           DEF WorkerStep, WorkerStarts, WorkerStored, WorkerFails, WorkerCancelled,
               WorkerEnds, WorkerType
      <4>. QED BY <4>2, <4>3, <4>4
    <3>7. ThreadInv'
      BY <2>5, <3>6 DEF EvictInv, ThreadInv
    <3>8. VerdictInv'
      BY <2>1, <2>2, <2>3, <2>5, <3>1, <3>2 DEF EvictInv, VerdictInv
    <3>. QED BY <3>5, <3>7, <3>8 DEF EvictInv
  <2>. QED BY <1>8, <2>4, <2>5, WorkerMoves
<1>9. ASSUME NEW t \in threads, StoreEnds(t)
      PROVE  EvictInv'
  <2>1. UNCHANGED <<status, task, run, first_seq, seq_counter>> /\ threads' = threads \ {t}
    BY <1>9 DEF StoreEnds
  <2>2. \A w \in WorkerIds :
           \/ worker'[w] = worker[w]
           \/ /\ worker[w].pc = "storing" /\ worker[w].nonce = t.nonce
              /\ worker'[w].pc \in {"stored", "failed"}
              /\ worker'[w].nonce = worker[w].nonce
    BY <1>9, StoreMoves
  <2>3. ASSUME task.gathered = "done", first_seq # 0,
               \A i \in DOMAIN cache : cache[i].nonce # first_seq
        PROVE  \A i \in DOMAIN cache' : cache'[i].nonce # first_seq
    <3>1. t.nonce # first_seq
      BY <2>3, FirstIsStored
    <3>. QED BY <1>9, <2>3, <3>1, StoreMisses
  <2>4. \A w \in WorkerIds : worker'[w].nonce = worker[w].nonce
    BY <2>2
  <2>5. NonceInv'
    BY <1>0, <2>1, <2>2, <2>4, NonceKept DEF EvictInv
  <2>6. \A u \in threads' : Awaited(u)'
    <3> SUFFICES ASSUME NEW u \in threads'
                 PROVE  Awaited(u)'
      OBVIOUS
    <3>1. PICK w \in WorkerIds :
             worker[w].nonce = u.nonce /\ worker[w].pc \in {"storing", "cancelled"}
      BY <2>1 DEF EvictInv, ThreadInv, Awaited
    <3>2. u.nonce # t.nonce
      BY <2>1 DEF EvictInv, ThreadInv
    <3>3. worker'[w] = worker[w]
      BY <2>2, <3>1, <3>2
    <3>. QED BY <3>1, <3>3 DEF Awaited
  <2>7. ThreadInv'
    BY <2>1, <2>6 DEF EvictInv, ThreadInv
  <2>8. VerdictInv'
    <3>1. \A w \in WorkerIds : worker[w].pc \in {"none", "done"} => worker'[w] = worker[w]
      BY <2>2
    <3>. QED BY <2>1, <2>3, <3>1 DEF EvictInv, VerdictInv
  <2>. QED BY <2>5, <2>7, <2>8 DEF EvictInv
<1>10. CASE UNCHANGED vars
  BY <1>10 DEF vars, EvictInv, NonceInv, ThreadInv, VerdictInv, Awaited
<1>. QED
  BY <1>1, <1>3, <1>4, <1>6, <1>7, <1>8, <1>9, <1>10 DEF Next, Control

-----------------------------------------------------------------------------
(* What the tiers hold, by the bytes behind each sequence.                 *)

\* A set of numbers that is not empty has a least one.
LEMMA LeastExists ==
    ASSUME NEW S, S \subseteq Nat, S # {}
    PROVE  \E m \in S : \A k \in S : m <= k
<1>1. PICK x \in S : \A y \in S : ~(<<y, x>> \in OpToRel(<, Nat))
  BY NatLessThanWellFounded, WFMin, Zenon
<1>2. \A i, j \in Nat : i < j => <<i, j>> \in OpToRel(<, Nat)
  BY Zenon DEF OpToRel
<1>3. \A y \in S : ~(y < x)
  BY <1>1, <1>2, Zenon
<1>4. x \in Nat /\ \A y \in S : y \in Nat
  OBVIOUS
<1>5. \A y \in S : x <= y
  BY <1>3, <1>4
<1>. QED BY <1>5

\* g holds the bytes of the first i sequences of s, for i up to n.
Sums(g, n, s) ==
    /\ g \in [0..n -> Nat]
    /\ g[0] = 0
    /\ \A i \in 1..n : g[i] = g[i - 1] + s[i].bytes

LEMMA SumsExist ==
    ASSUME NEW s \in Seq(StoreType)
    PROVE  \E g : Sums(g, Len(s), s)
<1> DEFINE bad == {k \in 0..Len(s) : ~\E g : Sums(g, k, s)}
<1>0. Len(s) \in Nat /\ \A i \in 1..Len(s) : s[i].bytes \in Nat
  <2>1. \A i \in 1..Len(s) : s[i] \in StoreType
    OBVIOUS
  <2>. QED BY <2>1 DEF StoreType
<1>1. ASSUME bad # {}
      PROVE  FALSE
  <2>1. bad \subseteq Nat
    OBVIOUS
  <2>2. PICK k \in bad : \A j \in bad : k <= j
    BY <1>1, <2>1, LeastExists
  <2>3. k \in 0..Len(s) /\ ~\E g : Sums(g, k, s)
    OBVIOUS
  <2>4. k # 0
    <3>1. Sums([i \in 0..0 |-> 0], 0, s)
      BY DEF Sums
    <3>. QED BY <2>3, <3>1
  <2>5. k - 1 \in 0..Len(s) /\ k - 1 \notin bad /\ k \in 1..Len(s)
    <3>1. k - 1 \in 0..Len(s) /\ k \in 1..Len(s) /\ ~(k <= k - 1)
      BY <1>0, <2>3, <2>4
    <3>. QED BY <2>2, <3>1
  <2>6. PICK g : Sums(g, k - 1, s)
    BY <2>5
  <2>7. PICK x \in Nat : x = g[k - 1] + s[k].bytes
    BY <1>0, <2>5, <2>6 DEF Sums
  <2> DEFINE h == [i \in 0..k |-> IF i = k THEN x ELSE g[i]]
  <2>8. /\ g \in [0..(k - 1) -> Nat] /\ g[0] = 0
        /\ \A i \in 1..(k - 1) : g[i] = g[i - 1] + s[i].bytes
    BY <2>6 DEF Sums
  <2>9. \A i \in 0..k : i # k => i \in 0..(k - 1) /\ g[i] \in Nat
    BY <2>5, <2>8
  <2>10. h \in [0..k -> Nat]
    BY <2>7, <2>9
  <2>11. h[0] = 0
    BY <2>4, <2>5, <2>8
  <2>12. \A i \in 1..k : h[i] = h[i - 1] + s[i].bytes
    <3> SUFFICES ASSUME NEW i \in 1..k
                 PROVE  h[i] = h[i - 1] + s[i].bytes
      OBVIOUS
    <3>1. i - 1 \in 0..k /\ i - 1 # k /\ i \in 0..k
      BY <2>5
    <3>2. h[i - 1] = g[i - 1]
      BY <3>1
    <3>3. CASE i = k
      BY <2>7, <3>1, <3>2, <3>3
    <3>4. CASE i # k
      <4>1. i \in 1..(k - 1) /\ h[i] = g[i]
        BY <2>5, <3>1, <3>4
      <4>. QED BY <2>8, <3>2, <4>1
    <3>. QED BY <3>3, <3>4
  <2>13. Sums(h, k, s)
    BY <2>10, <2>11, <2>12 DEF Sums
  <2>. QED BY <2>3, <2>13
<1>2. Len(s) \notin bad
  BY <1>1
<1>. QED BY <1>0, <1>2

\* What UpTo adds up.
LEMMA UpToSums ==
    ASSUME NEW s \in Seq(StoreType)
    PROVE  Sums(UpTo(s), Len(s), s)
<1>1. PICK g : Sums(g, Len(s), s)
  BY SumsExist
<1>2. Len(s) \in Nat
  OBVIOUS
<1>3. g = [i \in 0..Len(s) |-> IF i = 0 THEN 0 ELSE g[i - 1] + s[i].bytes]
  <2>1. \A i \in 0..Len(s) : i # 0 => i \in 1..Len(s)
    BY <1>2
  <2>2. \A i \in 0..Len(s) : g[i] = IF i = 0 THEN 0 ELSE g[i - 1] + s[i].bytes
    BY <1>1, <2>1 DEF Sums
  <2>. QED BY <1>1, <2>2 DEF Sums
<1> DEFINE F(f) == f = [i \in 0..Len(s) |-> IF i = 0 THEN 0 ELSE f[i - 1] + s[i].bytes]
<1>4. F(g)
  BY <1>3
<1>5. UpTo(s) = CHOOSE f : F(f)
  BY DEF UpTo
<1> HIDE DEF F
<1>6. F(UpTo(s))
  BY <1>4, <1>5, Zenon
<1> USE DEF F
<1>7. \A i \in 0..Len(s) : UpTo(s)[i] = IF i = 0 THEN 0 ELSE UpTo(s)[i - 1] + s[i].bytes
  BY <1>6
<1>8. DOMAIN UpTo(s) = 0..Len(s)
  BY <1>6
<1>9. UpTo(s) = [i \in 0..Len(s) |-> UpTo(s)[i]]
  BY <1>6
<1> HIDE DEF F
<1> DEFINE bad == {i \in 0..Len(s) : UpTo(s)[i] # g[i]}
<1>10. ASSUME bad # {} PROVE FALSE
  <2>1. bad \subseteq Nat
    OBVIOUS
  <2>2. PICK i \in bad : \A j \in bad : i <= j
    BY <1>10, <2>1, LeastExists
  <2>3. i \in 0..Len(s) /\ UpTo(s)[i] # g[i]
    OBVIOUS
  <2>4. i # 0
    BY <1>1, <1>7, <2>3 DEF Sums
  <2>5. i \in 1..Len(s) /\ i - 1 \in 0..Len(s) /\ i - 1 \notin bad
    BY <1>2, <2>2, <2>3, <2>4
  <2>6. UpTo(s)[i - 1] = g[i - 1]
    BY <2>5
  <2>. QED BY <1>1, <1>7, <2>3, <2>4, <2>5, <2>6 DEF Sums
<1>11. \A i \in 0..Len(s) : UpTo(s)[i] = g[i]
  BY <1>10
<1>12. UpTo(s) = g
  <2>1. g = [i \in 0..Len(s) |-> g[i]]
    BY <1>1 DEF Sums
  <2>. QED BY <1>9, <1>11, <2>1
<1>. QED BY <1>1, <1>12

\* A part of s that starts after its first k sequences adds up to a difference.
LEMMA PartSums ==
    ASSUME NEW s \in Seq(StoreType), NEW r \in Seq(StoreType), NEW k \in Nat,
           k + Len(r) <= Len(s),
           \A i \in 1..Len(r) : r[i] = s[i + k],
           NEW n \in 0..Len(r)
    PROVE  UpTo(r)[n] = UpTo(s)[n + k] - UpTo(s)[k]
<1>0. Len(s) \in Nat /\ Len(r) \in Nat
  OBVIOUS
<1>1. Sums(UpTo(s), Len(s), s) /\ Sums(UpTo(r), Len(r), r)
  BY UpToSums
<1> DEFINE bad == {i \in 0..Len(r) : UpTo(r)[i] # UpTo(s)[i + k] - UpTo(s)[k]}
<1>2. \A i \in 0..Len(r) : i + k \in 0..Len(s) /\ UpTo(s)[i + k] \in Nat /\ UpTo(r)[i] \in Nat
  <2>1. UpTo(s) \in [0..Len(s) -> Nat] /\ UpTo(r) \in [0..Len(r) -> Nat]
    BY <1>1 DEF Sums
  <2>2. \A i \in 0..Len(r) : i + k \in 0..Len(s)
    BY <1>0
  <2>. QED BY <2>1, <2>2
<1>3. ASSUME bad # {} PROVE FALSE
  <2>1. bad \subseteq Nat
    OBVIOUS
  <2>2. PICK i \in bad : \A j \in bad : i <= j
    BY <1>3, <2>1, LeastExists
  <2>3. i \in 0..Len(r) /\ UpTo(r)[i] # UpTo(s)[i + k] - UpTo(s)[k]
    OBVIOUS
  <2>4. i # 0
    <3>1. 0 \in 0..Len(r) /\ 0 + k = k /\ UpTo(s)[k] \in Nat
      BY <1>0, <1>2
    <3>2. UpTo(r)[0] = 0
      BY <1>1 DEF Sums
    <3>. QED BY <2>3, <3>1, <3>2
  <2>5. i \in 1..Len(r) /\ i - 1 \in 0..Len(r) /\ i - 1 \notin bad
    BY <1>0, <2>2, <2>3, <2>4
  <2>6. UpTo(r)[i - 1] = UpTo(s)[(i - 1) + k] - UpTo(s)[k]
    BY <2>5
  <2>7. UpTo(r)[i] = UpTo(r)[i - 1] + r[i].bytes
    BY <1>1, <2>5 DEF Sums
  <2>8. UpTo(s)[i + k] = UpTo(s)[(i + k) - 1] + s[i + k].bytes
    <3>1. i + k \in 1..Len(s)
      BY <1>0, <2>5
    <3>. QED BY <1>1, <3>1 DEF Sums
  <2>9. (i + k) - 1 = (i - 1) + k
    BY <2>5
  <2>10. r[i] = s[i + k] /\ r[i].bytes \in Nat
    <3>1. r[i] \in StoreType
      BY <2>5
    <3>. QED BY <2>5, <3>1 DEF StoreType
  <2>11. UpTo(s)[(i - 1) + k] \in Nat /\ UpTo(s)[0 + k] \in Nat /\ 0 + k = k
    BY <1>0, <1>2, <2>5
  <2>. QED BY <2>3, <2>6, <2>7, <2>8, <2>9, <2>10, <2>11
<1>. QED BY <1>3

\* The bytes of a sequence's start grow with it.
LEMMA UpToGrows ==
    ASSUME NEW s \in Seq(StoreType), NEW j \in 0..Len(s), NEW n \in 0..Len(s), j <= n
    PROVE  UpTo(s)[j] <= UpTo(s)[n]
<1>0. Len(s) \in Nat
  OBVIOUS
<1>1. UpTo(s) \in [0..Len(s) -> Nat]
  BY UpToSums DEF Sums
<1> DEFINE bad == {i \in j..n : ~(UpTo(s)[j] <= UpTo(s)[i])}
<1>3. ASSUME bad # {} PROVE FALSE
  <2>1. bad \subseteq Nat
    OBVIOUS
  <2>2. PICK i \in bad : \A m \in bad : i <= m
    BY <1>3, <2>1, LeastExists
  <2>3. i \in j..n /\ ~(UpTo(s)[j] <= UpTo(s)[i])
    OBVIOUS
  <2>4. i # j
    BY <1>1, <2>3
  <2>5. i \in 1..Len(s) /\ i - 1 \in j..n /\ i - 1 \in 0..Len(s) /\ ~(i <= i - 1)
    BY <1>0, <2>3, <2>4
  <2>6. UpTo(s)[j] <= UpTo(s)[i - 1]
    BY <2>2, <2>5
  <2>7. UpTo(s)[i] = UpTo(s)[i - 1] + s[i].bytes
    BY <2>5, UpToSums DEF Sums
  <2>8. s[i].bytes \in Nat
    <3>1. s[i] \in StoreType
      BY <2>5
    <3>. QED BY <3>1 DEF StoreType
  <2>9. UpTo(s)[j] \in Nat /\ UpTo(s)[i - 1] \in Nat
    BY <1>1, <2>5
  <2>. QED BY <2>3, <2>6, <2>7, <2>8, <2>9
<1>. QED BY <1>3

\* The bytes from a sequence on are a natural, and no more than those of all.
LEMMA BytesFromType ==
    ASSUME NEW s \in Seq(StoreType), NEW i \in 1..(Len(s) + 1)
    PROVE  /\ BytesFrom(s, i) \in Nat
           /\ BytesFrom(s, i) <= BytesFrom(s, 1)
           /\ BytesFrom(s, 1) \in Nat
<1>0. Len(s) \in Nat /\ i - 1 \in 0..Len(s) /\ 0 \in 0..Len(s) /\ Len(s) \in 0..Len(s) /\ 1 - 1 = 0
  OBVIOUS
<1>1. UpTo(s) \in [0..Len(s) -> Nat] /\ UpTo(s)[0] = 0
  BY UpToSums DEF Sums
<1>2. UpTo(s)[i - 1] <= UpTo(s)[Len(s)]
  BY <1>0, UpToGrows
<1>3. UpTo(s)[i - 1] \in Nat /\ UpTo(s)[Len(s)] \in Nat
  BY <1>0, <1>1
<1>. QED BY <1>0, <1>1, <1>2, <1>3 DEF BytesFrom

\* An eviction leaves what fits.
LEMMA FittedFits ==
    ASSUME NEW s \in Seq(StoreType), NEW r \in Fitted(s)
    PROVE  /\ r \in Seq(StoreType)
           /\ BytesFrom(r, 1) <= CapacityBytes
           /\ \A i \in DOMAIN r : \E j \in DOMAIN s :
                 r[i] = s[j] /\ BytesFrom(r, i) = BytesFrom(s, j)
<1>1. PICK k \in 1..(Len(s) + 1) : r = SubSeq(s, k, Len(s)) /\ BytesFrom(s, k) <= CapacityBytes
  BY DEF Fitted
<1>2. r \in Seq(StoreType)
  BY FittedType
<1>3. PICK d \in Nat : d = k - 1
  OBVIOUS
<1>4. /\ Len(s) \in Nat /\ Len(r) \in Nat /\ d + Len(r) = Len(s)
      /\ \A i \in 1..Len(r) : r[i] = s[i + d]
  <2>1. DOMAIN r = 1..(IF k <= Len(s) THEN Len(s) - k + 1 ELSE 0) /\ Len(s) \in Nat
    BY <1>1
  <2>2. Len(r) = Len(s) - d
    BY <1>1, <1>3, <2>1
  <2>3. ASSUME NEW i \in 1..Len(r) PROVE r[i] = s[i + d]
    <3>1. r[i] = s[k + i - 1] /\ k + i - 1 = i + d
      BY <1>1, <1>3, <2>1, <2>2
    <3>. QED BY <3>1
  <2>. QED BY <1>3, <2>1, <2>2, <2>3
<1>5. UpTo(s) \in [0..Len(s) -> Nat] /\ UpTo(r) \in [0..Len(r) -> Nat]
  BY <1>2, UpToSums DEF Sums
<1>6. \A n \in 0..Len(r) : UpTo(r)[n] = UpTo(s)[n + d] - UpTo(s)[d]
  <2>1. d + Len(r) <= Len(s)
    BY <1>4
  <2>2. \A i \in 1..Len(r) : r[i] = s[i + d]
    BY <1>4
  <2>. QED BY <1>2, <1>3, <2>1, <2>2, PartSums, Zenon
<1>7. UpTo(r)[Len(r)] = UpTo(s)[Len(s)] - UpTo(s)[d]
  <2>1. Len(r) \in 0..Len(r) /\ Len(r) + d = Len(s)
    BY <1>3, <1>4
  <2>. QED BY <1>6, <2>1
<1>8. ASSUME NEW i \in 1..(Len(r) + 1)
      PROVE  BytesFrom(r, i) = BytesFrom(s, i + d)
  <2>1. i - 1 \in 0..Len(r) /\ (i - 1) + d = (i + d) - 1 /\ (i - 1) + d \in 0..Len(s)
        /\ d \in 0..Len(s) /\ Len(s) \in 0..Len(s)
    BY <1>3, <1>4
  <2>2. UpTo(r)[i - 1] = UpTo(s)[(i + d) - 1] - UpTo(s)[d]
    BY <1>6, <2>1
  <2>3. UpTo(s)[(i + d) - 1] \in Nat /\ UpTo(s)[d] \in Nat /\ UpTo(s)[Len(s)] \in Nat
    BY <1>5, <2>1
  <2>. QED BY <1>7, <2>2, <2>3 DEF BytesFrom
<1>9. BytesFrom(r, 1) <= CapacityBytes
  <2>1. 1 \in 1..(Len(r) + 1) /\ 1 + d = k
    BY <1>3, <1>4
  <2>. QED BY <1>1, <1>8, <2>1
<1>10. ASSUME NEW i \in DOMAIN r
       PROVE  \E j \in DOMAIN s : r[i] = s[j] /\ BytesFrom(r, i) = BytesFrom(s, j)
  <2>1. i \in 1..Len(r) /\ i + d \in 1..Len(s) /\ i \in 1..(Len(r) + 1) /\ DOMAIN s = 1..Len(s)
    BY <1>2, <1>3, <1>4
  <2>. QED BY <1>4, <1>8, <2>1
<1>. QED BY <1>2, <1>9, <1>10

\* What the stack held, with the sequence of a store behind it.
AppendOf(r, s, t) == r = Append(s, t)

\* A sequence that is stored adds its bytes behind those that are there.
LEMMA AppendBytes ==
    ASSUME NEW s \in Seq(StoreType), NEW t \in StoreType, NEW r, AppendOf(r, s, t),
           NEW i \in DOMAIN r
    PROVE  \/ i \in DOMAIN s /\ r[i] = s[i] /\ BytesFrom(r, i) = BytesFrom(s, i) + t.bytes
           \/ r[i] = t /\ BytesFrom(r, i) = t.bytes
<1>1. /\ r \in Seq(StoreType) /\ Len(s) \in Nat /\ Len(r) = Len(s) + 1
      /\ DOMAIN r = 1..(Len(s) + 1) /\ DOMAIN s = 1..Len(s)
      /\ r[Len(s) + 1] = t /\ \A j \in 1..Len(s) : r[j] = s[j]
  BY DEF AppendOf
<1>2. t.bytes \in Nat
  BY DEF StoreType
<1>3. Sums(UpTo(s), Len(s), s) /\ Sums(UpTo(r), Len(r), r)
  BY <1>1, UpToSums
<1>4. UpTo(r) \in [0..(Len(s) + 1) -> Nat] /\ UpTo(s) \in [0..Len(s) -> Nat] /\ UpTo(r)[0] = 0
  BY <1>1, <1>3 DEF Sums
<1>5. \A n \in 0..Len(s) : UpTo(s)[n] = UpTo(r)[n]
  <2>1. \A n \in 0..Len(s) : UpTo(s)[n] = UpTo(r)[n + 0] - UpTo(r)[0]
    <3>1. \A j \in 1..Len(s) : s[j] = r[j + 0]
      BY <1>1
    <3>2. 0 + Len(s) <= Len(r) /\ 0 \in Nat
      BY <1>1
    <3>. QED BY <1>1, <3>1, <3>2, PartSums
  <2>2. ASSUME NEW n \in 0..Len(s)
        PROVE  n + 0 = n /\ UpTo(r)[n] \in Nat
    <3>1. n \in 0..(Len(s) + 1) /\ n + 0 = n
      BY <1>1
    <3>. QED BY <1>4, <3>1
  <2>. QED BY <1>4, <2>1, <2>2
<1>6. UpTo(r)[Len(r)] = UpTo(s)[Len(s)] + t.bytes
  <2>1. Len(r) \in 1..Len(r) /\ Len(r) - 1 = Len(s) /\ Len(s) \in 0..Len(s)
    BY <1>1
  <2>2. UpTo(r)[Len(r)] = UpTo(r)[Len(r) - 1] + r[Len(r)].bytes
    BY <1>3, <2>1 DEF Sums
  <2>. QED BY <1>1, <1>5, <2>1, <2>2
<1>7. UpTo(s)[i - 1] \in Nat /\ UpTo(s)[Len(s)] \in Nat /\ UpTo(r)[i - 1] = UpTo(s)[i - 1]
  <2>1. i - 1 \in 0..Len(s) /\ Len(s) \in 0..Len(s)
    BY <1>1
  <2>. QED BY <1>4, <1>5, <2>1
<1>8. CASE i \in 1..Len(s)
  BY <1>1, <1>2, <1>6, <1>7, <1>8 DEF BytesFrom
<1>9. CASE i = Len(s) + 1
  <2>1. i - 1 = Len(s)
    BY <1>1, <1>9
  <2>. QED BY <1>1, <1>2, <1>6, <1>7, <1>9, <2>1 DEF BytesFrom
<1>. QED BY <1>1, <1>8, <1>9

\* What the stack holds after a store: it fits, and what it held before and
\* still holds has the bytes of the new sequence behind it.
LEMMA StoreKeeps ==
    ASSUME NEW s \in Seq(StoreType), NEW t \in StoreType, NEW r \in Fitted(Append(s, t))
    PROVE  /\ BytesFrom(r, 1) <= CapacityBytes
           /\ \A i \in DOMAIN r :
                 \/ r[i] = t /\ BytesFrom(r, i) = t.bytes
                 \/ \E j \in DOMAIN s :
                       r[i] = s[j] /\ BytesFrom(r, i) = BytesFrom(s, j) + t.bytes
<1>1. Append(s, t) \in Seq(StoreType)
  OBVIOUS
<1>2. ASSUME NEW q, AppendOf(q, s, t), NEW i \in DOMAIN r
      PROVE  \/ r[i] = t /\ BytesFrom(r, i) = t.bytes
             \/ \E j \in DOMAIN s :
                   r[i] = s[j] /\ BytesFrom(r, i) = BytesFrom(s, j) + t.bytes
  <2>1. PICK j \in DOMAIN q : r[i] = q[j] /\ BytesFrom(r, i) = BytesFrom(q, j)
    BY <1>1, <1>2, FittedFits DEF AppendOf
  <2>2. \/ j \in DOMAIN s /\ q[j] = s[j] /\ BytesFrom(q, j) = BytesFrom(s, j) + t.bytes
        \/ q[j] = t /\ BytesFrom(q, j) = t.bytes
    BY <1>2, AppendBytes
  <2>. QED BY <2>1, <2>2
<1>3. BytesFrom(r, 1) <= CapacityBytes
  BY <1>1, FittedFits
<1>4. \E q : AppendOf(q, s, t)
  BY DEF AppendOf
<1>. QED BY <1>2, <1>3, <1>4

-----------------------------------------------------------------------------
(* Without faults: no eviction is missed with one worker.                  *)

\* The tiers are never over their capacity; every sequence they hold was claimed.
CacheInv ==
    /\ BytesFrom(cache, 1) <= CapacityBytes
    /\ \A i \in DOMAIN cache : cache[i].nonce \in 1..seq_counter

\* A run has all its workers once it gathers them, and no others; a store is of the
\* bytes of its worker.
SizeInv ==
    /\ \A w \in WorkerIds : w[1] = run /\ w[2] > status.concurrency => worker[w].pc = "none"
    /\ task.pc \in {"gather", "lookup", "sleep"} =>
          \A w \in WorkerIds : w[1] = run /\ w[2] <= status.concurrency => worker[w].pc # "none"
    /\ \A t \in threads : \A w \in WorkerIds :
          worker[w].nonce = t.nonce => worker[w].bytes = t.bytes

\* The check sleeps after a full hit only, no lookup of it raises, and a run that is done has ended.
CheckInv ==
    /\ task.pc # "none" => run # 0
    /\ task.pc = "created" => first_seq = 0
    /\ task.hit # "raised"
    /\ task.pc = "sleep" => task.hit = "full"
    /\ status.state = "done" => task.pc = "ended"

\* What a run with one worker has counted is the first sequence and those behind it,
\* as long as the stack holds the first.
BehindInv ==
    /\ first_seq = 0 => status.stored = 0
    /\ \A i \in DOMAIN cache :
          cache[i].nonce = first_seq => BytesFrom(cache, i) >= status.stored
    /\ \A w \in WorkerIds : w[1] = run =>
          /\ worker[w].pc = "ready" => first_seq = 0
          /\ worker[w].pc \in {"storing", "stored"} => first_seq # 0
          /\ worker[w].pc \in {"storing", "stored", "cancelled"} =>
                first_seq = 0 \/ worker[w].nonce # first_seq \/ status.stored = 0
          /\ worker[w].pc = "done" => status.stored >= status.target
          /\ worker[w].pc = "stored" =>
                \A i \in DOMAIN cache : cache[i].nonce = first_seq =>
                    BytesFrom(cache, i) >= status.stored + worker[w].bytes

\* So a full hit of its first sequence says that the target fits in the tiers.
HitInv ==
    /\ task.hit = "full" => status.target <= CapacityBytes
    /\ status.state = "done" /\ status.target > CapacityBytes => status.evicting

FillInv ==
    /\ CacheInv
    /\ SizeInv
    /\ CheckInv
    /\ status.concurrency = 1 => BehindInv /\ HitInv

\* What a step of a worker does to what is counted.
LEMMA WorkerFills ==
    ASSUME TypeOK, CrewInv, NEW w \in WorkerIds, WorkerStep(w)
    PROVE  /\ \A v \in WorkerIds : worker'[v].bytes = worker[v].bytes
           /\ status'.target = status.target
           /\ status'.concurrency = status.concurrency
           /\ status'.state = status.state
           /\ status'.evicting = status.evicting
           /\ \/ /\ worker[w].pc = "ready" /\ worker'[w].pc \in {"storing", "done"}
                 /\ status'.stored = status.stored
              \/ /\ worker[w].pc = "stored" /\ worker'[w].pc \in {"storing", "done"}
                 /\ status'.stored = status.stored + worker[w].bytes
              \/ worker'[w].pc = "cancelled" /\ status' = status
           /\ worker'[w].pc = "done" => status'.stored >= status.target
<1> USE DEF TypeOK
<1>1. \A v \in WorkerIds : worker'[v].bytes = worker[v].bytes
  <2>1. ASSUME NEW end, WorkerEnds(w, end)
        PROVE  \A v \in WorkerIds : worker'[v].bytes = worker[v].bytes
    BY <2>1 DEF WorkerEnds, WorkerType
  <2>2. ASSUME NEW stored, NextStore(w, stored)
        PROVE  \A v \in WorkerIds : worker'[v].bytes = worker[v].bytes
    BY <2>2 DEF NextStore, WorkerType
  <2>3. ASSUME NEW stored, LoopOrReturn(w, stored)
        PROVE  \A v \in WorkerIds : worker'[v].bytes = worker[v].bytes
    BY <2>1, <2>2, <2>3 DEF LoopOrReturn
  <2>4. CASE WorkerStarts(w) \/ WorkerStored(w)
    BY <2>3, <2>4 DEF WorkerStarts, WorkerStored
  <2>5. CASE WorkerFails(w) \/ WorkerCancelled(w)
    BY <2>1, <2>5 DEF WorkerFails, WorkerCancelled
  <2>. QED BY <2>4, <2>5 DEF WorkerStep
<1>2. ASSUME NEW stored, LoopOrReturn(w, stored)
      PROVE  /\ worker'[w].pc \in {"storing", "done"}
             /\ worker'[w].pc = "done" => stored >= status.target
  BY <1>2 DEF LoopOrReturn, NextStore, WorkerEnds, WorkerType
<1>3. CASE WorkerStarts(w)
  BY <1>1, <1>2, <1>3 DEF WorkerStarts
<1>4. CASE WorkerStored(w)
  <2>1. /\ worker[w].pc = "stored"
        /\ status' = [status EXCEPT !.stored = @ + worker[w].bytes, !.sequences = @ + 1]
        /\ LoopOrReturn(w, status.stored + worker[w].bytes)
    BY <1>4 DEF WorkerStored
  <2>2. /\ status'.target = status.target /\ status'.concurrency = status.concurrency
        /\ status'.state = status.state /\ status'.evicting = status.evicting
        /\ status'.stored = status.stored + worker[w].bytes
    BY <2>1 DEF StatusType
  <2>. QED BY <1>1, <1>2, <2>1, <2>2
<1>5. CASE WorkerFails(w)
  BY <1>5 DEF WorkerFails, CrewInv
<1>6. CASE WorkerCancelled(w)
  BY <1>1, <1>6 DEF WorkerCancelled, WorkerEnds, WorkerType
<1>. QED BY <1>3, <1>4, <1>5, <1>6 DEF WorkerStep

\* What the end of a store does, when stores do not fail.
LEMMA StoreFills ==
    ASSUME ~Faulty, TypeOK, NEW t \in threads, StoreEnds(t)
    PROVE  /\ cache' \in Fitted(Append(cache, t))
           /\ threads' = threads \ {t}
           /\ UNCHANGED <<status, task, run, first_seq, seq_counter>>
           /\ \A w \in WorkerIds :
                 \/ worker'[w] = worker[w]
                 \/ /\ worker[w].pc = "storing"
                    /\ worker[w].nonce = t.nonce
                    /\ worker'[w].pc = "stored"
                    /\ worker'[w].nonce = worker[w].nonce
                    /\ worker'[w].bytes = worker[w].bytes
<1>1. PICK end \in {"stored"} :
         /\ cache' \in IF end = "stored" THEN Fitted(Append(cache, t)) ELSE {cache}
         /\ worker' = [w \in WorkerIds |->
                           IF worker[w].pc = "storing" /\ worker[w].nonce = t.nonce
                           THEN [worker[w] EXCEPT !.pc = end] ELSE worker[w]]
  BY DEF StoreEnds
<1>2. cache' \in Fitted(Append(cache, t))
  BY <1>1
<1>3. worker' = [w \in WorkerIds |->
                     IF worker[w].pc = "storing" /\ worker[w].nonce = t.nonce
                     THEN [worker[w] EXCEPT !.pc = "stored"] ELSE worker[w]]
  BY <1>1
<1>4. \A w \in WorkerIds : worker[w] \in WorkerType
  BY DEF TypeOK
<1>. QED BY <1>2, <1>3, <1>4 DEF StoreEnds, WorkerType

\* A run with one worker has at most one worker that is there.
LEMMA OneWorker ==
    ASSUME TypeOK, SizeInv, status.concurrency = 1, NEW v \in WorkerIds, NEW w \in WorkerIds,
           v[1] = run, w[1] = run, worker[v].pc # "none", worker[w].pc # "none"
    PROVE  v = w
<1>1. v[2] \in 1..MaxConcurrency /\ w[2] \in 1..MaxConcurrency
      /\ v = <<v[1], v[2]>> /\ w = <<w[1], w[2]>>
  BY DEF WorkerIds
<1>2. ~(v[2] > 1) /\ ~(w[2] > 1)
  BY DEF SizeInv
<1>3. v[2] = 1 /\ w[2] = 1
  BY <1>1, <1>2
<1>. QED BY <1>1, <1>3

\* Of a run with one worker, the first sequence is stored before any is counted.
LEMMA FirstUncounted ==
    ASSUME TypeOK, EvictInv, SizeInv, BehindInv, status.concurrency = 1,
           NEW t \in threads, t.nonce = first_seq
    PROVE  /\ status.stored = 0
           /\ \A w \in WorkerIds : w[1] = run => worker[w].pc # "stored"
<1>1. PICK v \in WorkerIds : worker[v].nonce = t.nonce /\ worker[v].pc \in {"storing", "cancelled"}
  BY DEF EvictInv, ThreadInv, Awaited
<1>2. first_seq # 0
  BY DEF EvictInv, ThreadInv
<1>3. v[1] = run
  BY <1>1, <1>2 DEF EvictInv, NonceInv
<1>4. status.stored = 0
  BY <1>1, <1>2, <1>3 DEF BehindInv
<1>5. ASSUME NEW w \in WorkerIds, w[1] = run, worker[w].pc = "stored"
      PROVE  FALSE
  <2>1. v = w
    BY <1>1, <1>3, <1>5, OneWorker
  <2>. QED BY <1>1, <1>5, <2>1
<1>. QED BY <1>4, <1>5

\* More bytes behind the first sequence are no fewer.
LEMMA MoreBytes ==
    ASSUME NEW x \in Nat, NEW stored \in Nat, NEW bytes \in Nat, NEW more \in Nat,
           x >= stored + bytes, NEW y, y = x + more
    PROVE  y >= stored + bytes
  OBVIOUS

\* FillInv is inductive: the stack appends what is stored and drops its oldest, so
\* every count of a worker has its bytes behind the first sequence.
LEMMA FillStep ==
    ASSUME ~Faulty, TypeOK, TypeOK', CrewInv, EvictInv, FillInv, [Next]_vars
    PROVE  FillInv'
<1> USE DEF TypeOK
<1>0. /\ run \in Nat /\ first_seq \in Nat /\ seq_counter \in Nat
      /\ \A w \in WorkerIds : w[1] \in Nat /\ w[2] \in Nat
      /\ status.concurrency \in Nat /\ status.stored \in Nat /\ status.target \in Nat
      /\ \A w \in WorkerIds : worker[w].bytes \in Nat /\ worker[w].nonce \in Nat
      /\ \A t \in threads : t.bytes \in Nat /\ t.nonce \in Nat
  <2>1. \A w \in WorkerIds : worker[w] \in WorkerType
    OBVIOUS
  <2>2. \A t \in threads : t \in StoreType
    OBVIOUS
  <2>3. /\ \A w \in WorkerIds : worker[w].bytes \in Nat /\ worker[w].nonce \in Nat
        /\ \A t \in threads : t.bytes \in Nat /\ t.nonce \in Nat
    BY <2>1, <2>2 DEF WorkerType, StoreType
  <2>4. \A w \in WorkerIds : w[1] \in Nat /\ w[2] \in Nat
    BY DEF WorkerIds
  <2>. QED BY <2>3, <2>4 DEF StatusType
<1>00. CacheInv /\ SizeInv /\ CheckInv /\ (status.concurrency = 1 => BehindInv /\ HitInv)
  BY DEF FillInv
\* Steps that leave the workers' stores and what is counted as they are.
<1>2. ASSUME \A w \in WorkerIds : /\ worker'[w].pc = worker[w].pc
                                  /\ worker'[w].nonce = worker[w].nonce
                                  /\ worker'[w].bytes = worker[w].bytes,
             UNCHANGED <<run, first_seq, seq_counter, threads, cache>>,
             status'.stored = status.stored,
             status'.target = status.target,
             status'.concurrency = status.concurrency,
             task.pc = "none" => task'.pc = "none",
             task'.pc = "created" => task.pc = "created",
             task'.pc \in {"gather", "lookup", "sleep"} => task.pc \in {"gather", "lookup", "sleep"},
             task'.hit # "raised",
             task'.pc = "sleep" => task'.hit = "full",
             status'.state = "done" => task'.pc = "ended",
             status.concurrency = 1 /\ BehindInv /\ HitInv => HitInv'
      PROVE  FillInv'
  <2>1. CacheInv'
    BY <1>00, <1>2 DEF CacheInv
  <2>2. SizeInv'
    <3>1. \A w \in WorkerIds :
             w[1] = run' /\ w[2] > status'.concurrency => worker'[w].pc = "none"
      BY <1>00, <1>2 DEF SizeInv
    <3>2. task'.pc \in {"gather", "lookup", "sleep"} =>
             \A w \in WorkerIds :
                w[1] = run' /\ w[2] <= status'.concurrency => worker'[w].pc # "none"
      BY <1>00, <1>2 DEF SizeInv
    <3>3. \A t \in threads' : \A w \in WorkerIds :
             worker'[w].nonce = t.nonce => worker'[w].bytes = t.bytes
      BY <1>00, <1>2 DEF SizeInv
    <3>. QED BY <3>1, <3>2, <3>3 DEF SizeInv
  <2>3. CheckInv'
    BY <1>00, <1>2 DEF CheckInv
  <2>4. BehindInv => BehindInv'
    BY <1>2 DEF BehindInv
  <2>. QED BY <1>00, <1>2, <2>1, <2>2, <2>3, <2>4 DEF FillInv
<1>1. ASSUME NEW c \in Clients, NEW q \in Requests, Start(c, q)
      PROVE  FillInv'
  <2>1. /\ run' = run + 1 /\ first_seq' = 0 /\ UNCHANGED <<seq_counter, worker, threads, cache>>
        /\ task'.pc = "created" /\ task'.hit = "none"
        /\ status'.state = "running" /\ status'.stored = 0
    BY <1>1 DEF Start
  <2>2. \A w \in WorkerIds : w[1] = run' => worker'[w].pc = "none"
    BY <1>0, <2>1 DEF EvictInv, NonceInv
  <2>3. CacheInv'
    BY <1>00, <2>1 DEF CacheInv
  <2>4. SizeInv'
    BY <1>00, <2>1, <2>2 DEF SizeInv
  <2>5. CheckInv'
    BY <1>0, <2>1 DEF CheckInv
  <2>6. BehindInv'
    <3>1. \A i \in DOMAIN cache : cache[i].nonce # 0
      BY <1>00 DEF CacheInv
    <3>. QED BY <2>1, <2>2, <3>1 DEF BehindInv
  <2>7. HitInv'
    BY <2>1 DEF HitInv
  <2>. QED BY <2>3, <2>4, <2>5, <2>6, <2>7 DEF FillInv
<1>3. ASSUME NEW c \in Clients, Cancel(c)
      PROVE  FillInv'
  <2>1. \A w \in WorkerIds : /\ worker'[w].pc = worker[w].pc
                             /\ worker'[w].nonce = worker[w].nonce
                             /\ worker'[w].bytes = worker[w].bytes
    BY <1>3, WorkersKept DEF Cancel, Interrupt
  <2>2. /\ task'.pc = task.pc /\ task'.hit = task.hit
        /\ UNCHANGED status
    BY <1>3 DEF Cancel, Interrupt, TaskType
  <2>3. UNCHANGED <<run, first_seq, seq_counter, threads, cache>>
    BY <1>3 DEF Cancel
  <2>. QED BY <1>00, <1>2, <2>1, <2>2, <2>3 DEF CheckInv, HitInv
<1>4. ASSUME NEW c \in Clients, CancelReturns(c)
      PROVE  FillInv'
  <2>1. /\ status'.stored = status.stored /\ status'.target = status.target
        /\ status'.concurrency = status.concurrency /\ status'.evicting = status.evicting
        /\ status'.state = "done" => status.state = "done"
    BY <1>4 DEF CancelReturns, StatusType
  <2>2. UNCHANGED <<task, worker, run, first_seq, seq_counter, threads, cache>>
    BY <1>4 DEF CancelReturns
  <2>. QED BY <1>00, <1>2, <2>1, <2>2 DEF CheckInv, HitInv
<1>5. ASSUME NEW state, NEW evicting, EndRun(state, evicting),
             task.pc # "none",
             state = "done" /\ status.concurrency = 1 /\ BehindInv /\ HitInv =>
                status.target <= CapacityBytes \/ evicting = TRUE,
             UNCHANGED <<run, first_seq, seq_counter, worker, threads, cache>>
      PROVE  FillInv'
  <2>1. /\ status'.state = state /\ status'.evicting = evicting
        /\ status'.stored = status.stored /\ status'.target = status.target
        /\ status'.concurrency = status.concurrency
        /\ task'.pc = "ended" /\ task'.hit = task.hit
    BY <1>5 DEF EndRun, StatusType, TaskType
  <2>2. status.concurrency = 1 /\ BehindInv /\ HitInv => HitInv'
    BY <1>0, <1>5, <2>1 DEF HitInv
  <2>3. task.hit # "raised"
    BY <1>00 DEF CheckInv
  <2>. QED BY <1>2, <1>5, <2>1, <2>2, <2>3
\* A run with one worker that gathered it has filled its target.
<1>6. ASSUME task.gathered = "done", task.pc \in {"gather", "lookup", "sleep"},
             status.concurrency = 1, BehindInv
      PROVE  status.target <= status.stored
  <2>1. run \in 1..MaxRuns /\ 1 \in 1..MaxConcurrency
    <3>1. run # 0 /\ run \in 0..MaxRuns
      BY <1>6, <1>00 DEF CheckInv
    <3>2. status.concurrency \in 0..MaxConcurrency
      BY DEF StatusType
    <3>. QED BY <1>6, <3>1, <3>2
  <2> DEFINE w == <<run, 1>>
  <2>2. w \in WorkerIds /\ w[1] = run /\ w[2] = 1
    BY <2>1 DEF WorkerIds
  <2> HIDE DEF w
  <2>3. worker[w].pc # "none"
    BY <1>6, <1>00, <2>2 DEF SizeInv
  <2>4. worker[w].pc = "done"
    BY <1>6, <2>2, <2>3 DEF EvictInv, VerdictInv
  <2>. QED BY <1>0, <1>6, <2>2, <2>4 DEF BehindInv
<1>7. CASE RunStep
  <2>1. CASE RunStarts
    <3>1. \A w \in WorkerIds : w[1] = run => worker[w].pc = "none" /\ worker[w].nonce = 0
      BY <2>1 DEF RunStarts, EvictInv, NonceInv
    <3>2. \A w \in WorkerIds :
             \/ worker'[w] = worker[w] /\ (w[1] = run => w[2] > status.concurrency)
             \/ /\ w[1] = run /\ w[2] <= status.concurrency
                /\ worker'[w].nonce = 0 /\ worker'[w].pc = "ready"
      BY <1>0, <2>1 DEF RunStarts
    <3>3. /\ task.pc = "created" /\ task'.pc = "gather" /\ task'.hit = task.hit
      BY <2>1 DEF RunStarts, TaskType
    <3>4. UNCHANGED <<status, run, first_seq, seq_counter, threads, cache>>
      BY <2>1 DEF RunStarts
    <3>5. CacheInv'
      BY <1>00, <3>4 DEF CacheInv
    <3>6. SizeInv'
      <4>1. \A t \in threads : t.nonce # 0
        BY <1>0 DEF EvictInv, ThreadInv
      <4>2. ASSUME NEW w \in WorkerIds, w[1] = run', w[2] > status'.concurrency
            PROVE  worker'[w].pc = "none"
        <5>1. w[2] \in Nat /\ status.concurrency \in Nat /\ status'.concurrency = status.concurrency
          BY <1>0, <3>4
        <5>2. worker[w].pc = "none" /\ w[1] = run
          BY <3>1, <3>4, <4>2
        <5>3. CASE worker'[w] = worker[w] /\ (w[1] = run => w[2] > status.concurrency)
          BY <4>2, <5>1, <5>2, <5>3
        <5>4. CASE w[2] <= status.concurrency /\ worker'[w].pc = "ready"
          BY <4>2, <5>1, <5>4
        <5>. QED BY <3>2, <5>3, <5>4
      <4>3. ASSUME NEW w \in WorkerIds, w[1] = run', w[2] <= status'.concurrency
            PROVE  worker'[w].pc # "none"
        <5>1. w[2] \in Nat /\ status.concurrency \in Nat /\ status'.concurrency = status.concurrency
          BY <1>0, <3>4
        <5>2. worker[w].pc = "none" /\ w[1] = run
          BY <3>1, <3>4, <4>3
        <5>3. CASE worker'[w] = worker[w] /\ (w[1] = run => w[2] > status.concurrency)
          BY <4>3, <5>1, <5>2, <5>3
        <5>4. CASE w[2] <= status.concurrency /\ worker'[w].pc = "ready"
          BY <4>3, <5>1, <5>4
        <5>. QED BY <3>2, <5>3, <5>4
      <4>4. \A t \in threads' : \A w \in WorkerIds :
               worker'[w].nonce = t.nonce => worker'[w].bytes = t.bytes
        BY <1>00, <3>2, <3>4, <4>1 DEF SizeInv
      <4>. QED BY <4>2, <4>3, <4>4 DEF SizeInv
    <3>7. CheckInv'
      BY <1>00, <3>3, <3>4 DEF CheckInv
    <3>8. BehindInv => BehindInv'
      <4>1. first_seq = 0
        BY <1>00, <3>3 DEF CheckInv
      <4>2. \A w \in WorkerIds : w[1] = run => worker'[w].pc \in {"none", "ready"}
        BY <3>1, <3>2
      <4>. QED BY <3>4, <4>1, <4>2 DEF BehindInv
    <3>9. HitInv => HitInv'
      <4>1. ASSUME HitInv, status.state = "done"
            PROVE  FALSE
        BY <1>00, <3>3, <4>1 DEF CheckInv
      <4>. QED BY <3>3, <3>4, <4>1 DEF HitInv
    <3>. QED BY <1>00, <3>4, <3>5, <3>6, <3>7, <3>8, <3>9 DEF FillInv
  <2>2. CASE RunInterrupted
    <3>1. \A w \in WorkerIds : /\ worker'[w].pc = worker[w].pc
                               /\ worker'[w].nonce = worker[w].nonce
                               /\ worker'[w].bytes = worker[w].bytes
      BY <2>2, WorkersKept DEF RunInterrupted
    <3>2. /\ task'.pc = "reap" /\ task'.hit = task.hit /\ UNCHANGED status
          /\ task.pc = "gather"
      BY <2>2 DEF RunInterrupted, TaskType
    <3>3. UNCHANGED <<run, first_seq, seq_counter, threads, cache>>
      BY <2>2 DEF RunInterrupted
    <3>. QED BY <1>00, <1>2, <3>1, <3>2, <3>3 DEF CheckInv, HitInv
  <2>3. CASE RunNeverStarts
    <3>1. /\ task'.pc = "ended" /\ task'.hit = task.hit /\ task.pc = "created"
          /\ UNCHANGED <<status, run, first_seq, seq_counter, worker, threads, cache>>
      BY <2>3 DEF RunNeverStarts, TaskType
    <3>. QED BY <1>00, <1>2, <3>1 DEF CheckInv, HitInv
  <2>4. CASE RunFails \/ RunReaped \/ CheckInterrupted
    <3>1. PICK state \in {"error", "cancelled"} : EndRun(state, status.evicting)
      BY <2>4 DEF RunFails, RunReaped, CheckInterrupted
    <3>2. /\ task.pc # "none"
          /\ UNCHANGED <<run, first_seq, seq_counter, worker, threads, cache>>
      BY <2>4 DEF RunFails, RunReaped, CheckInterrupted
    <3>. QED BY <1>5, <3>1, <3>2
  <2>5. CASE RunFilled
    <3>1. /\ task.pc = "gather" /\ task.gathered = "done"
          /\ UNCHANGED <<run, first_seq, seq_counter, worker, threads, cache>>
      BY <2>5 DEF RunFilled
    <3>2. CASE first_seq = 0 /\ EndRun("done", status.evicting)
      <4>1. ASSUME status.concurrency = 1, BehindInv
            PROVE  status.target <= CapacityBytes
        <5>1. status.stored = 0 /\ status.target <= status.stored
          BY <1>6, <3>1, <3>2, <4>1 DEF BehindInv
        <5>. QED BY <1>0, <5>1
      <4>. QED BY <1>5, <3>1, <3>2, <4>1
    <3>3. CASE task' = [task EXCEPT !.pc = "lookup", !.attempt = 1] /\ UNCHANGED status
      <4>1. task'.pc = "lookup" /\ task'.hit = task.hit
        BY <3>3 DEF TaskType
      <4>. QED BY <1>00, <1>2, <3>1, <3>3, <4>1 DEF CheckInv, HitInv
    <3>. QED BY <2>5, <3>2, <3>3 DEF RunFilled
  <2>6. CASE CheckResumes
    <3>1. /\ task.pc = "lookup"
          /\ UNCHANGED <<run, first_seq, seq_counter, worker, threads, cache>>
      BY <2>6 DEF CheckResumes
    <3>2. CASE EndRun("done", TRUE)
      BY <1>5, <3>1, <3>2
    <3>3. CASE task.hit = "raised"
      BY <1>00, <3>3 DEF CheckInv
    <3>4. CASE /\ task.hit = "full"
               /\ status' = [status EXCEPT !.evicting = FALSE]
               /\ task' = [task EXCEPT !.pc = "sleep"]
      <4>1. /\ task'.pc = "sleep" /\ task'.hit = task.hit
            /\ status'.stored = status.stored /\ status'.target = status.target
            /\ status'.concurrency = status.concurrency /\ status'.state = status.state
        BY <3>4 DEF TaskType, StatusType
      <4>2. status.state # "done"
        BY <1>00, <3>1 DEF CheckInv
      <4>. QED BY <1>00, <1>2, <3>1, <3>4, <4>1, <4>2 DEF HitInv
    <3>. QED BY <2>6, <3>2, <3>3, <3>4 DEF CheckResumes
  <2>7. CASE CheckWakes
    <3>1. /\ task.pc = "sleep" /\ task.hit = "full"
          /\ UNCHANGED <<run, first_seq, seq_counter, worker, threads, cache>>
      BY <1>00, <2>7 DEF CheckWakes, CheckInv
    <3>2. CASE EndRun("done", status.evicting)
      BY <1>5, <3>1, <3>2 DEF HitInv
    <3>3. CASE /\ task' = [task EXCEPT !.pc = "lookup", !.hit = "none", !.attempt = @ + 1]
               /\ UNCHANGED status
      <4>1. task'.pc = "lookup" /\ task'.hit = "none"
        BY <3>3 DEF TaskType
      <4>2. status.state # "done"
        BY <1>00, <3>1 DEF CheckInv
      <4>. QED BY <1>2, <3>1, <3>3, <4>1, <4>2 DEF HitInv
    <3>. QED BY <2>7, <3>2, <3>3 DEF CheckWakes
  <2>. QED BY <1>7, <2>1, <2>2, <2>3, <2>4, <2>5, <2>6, <2>7 DEF RunStep
<1>8. CASE LookupEnds
  <2>1. /\ task.pc = "lookup" /\ task'.pc = "lookup" /\ task'.hit \in {"full", "short"}
        /\ task'.hit = "full" => \E i \in DOMAIN cache : cache[i].nonce = first_seq
        /\ UNCHANGED <<status, run, first_seq, seq_counter, worker, threads, cache>>
    BY <1>8 DEF LookupEnds, TaskType
  <2>2. status.state # "done"
    BY <1>00, <2>1 DEF CheckInv
  <2>3. ASSUME status.concurrency = 1, BehindInv, task'.hit = "full"
        PROVE  status.target <= CapacityBytes
    <3>1. PICK i \in DOMAIN cache : cache[i].nonce = first_seq
      BY <2>1, <2>3
    <3>2. BytesFrom(cache, i) >= status.stored
      BY <2>3, <3>1 DEF BehindInv
    <3>3. i \in 1..(Len(cache) + 1)
      OBVIOUS
    <3>4. /\ BytesFrom(cache, i) \in Nat /\ BytesFrom(cache, 1) \in Nat
          /\ BytesFrom(cache, i) <= BytesFrom(cache, 1)
      BY <3>3, BytesFromType
    <3>5. BytesFrom(cache, 1) <= CapacityBytes
      BY <1>00 DEF CacheInv
    <3>6. status.target <= status.stored
      BY <1>6, <2>1, <2>3 DEF EvictInv, VerdictInv
    <3>. QED BY <1>0, <3>2, <3>4, <3>5, <3>6
  <2>. QED BY <1>2, <2>1, <2>2, <2>3 DEF HitInv
<1>9. ASSUME NEW w \in WorkerIds, WorkerStep(w)
      PROVE  FillInv'
  <2>1. /\ Live(w)
        /\ UNCHANGED <<run, cache>>
        /\ \A v \in WorkerIds \ {w} : worker'[v] = worker[v]
    BY <1>9, WorkerMoves
  <2>2. /\ worker[w].pc # "none" /\ w[1] = run /\ w[2] <= status.concurrency
        /\ task.pc \in {"gather", "reap"}
    BY <2>1 DEF CrewInv, Live
  <2>3. /\ \A v \in WorkerIds : worker'[v].bytes = worker[v].bytes
        /\ status'.target = status.target
        /\ status'.concurrency = status.concurrency
        /\ status'.state = status.state
        /\ status'.evicting = status.evicting
        /\ \/ /\ worker[w].pc = "ready" /\ worker'[w].pc \in {"storing", "done"}
              /\ status'.stored = status.stored
           \/ /\ worker[w].pc = "stored" /\ worker'[w].pc \in {"storing", "done"}
              /\ status'.stored = status.stored + worker[w].bytes
           \/ worker'[w].pc = "cancelled" /\ status' = status
        /\ worker'[w].pc = "done" => status'.stored >= status.target
    BY <1>9, WorkerFills
  <2>4. /\ task'.pc = task.pc /\ task'.hit = task.hit
        /\ \/ /\ worker'[w].pc = "storing"
              /\ seq_counter' = seq_counter + 1
              /\ worker'[w].nonce = seq_counter'
              /\ first_seq' = IF first_seq = 0 THEN seq_counter' ELSE first_seq
              /\ threads' = threads \cup {[nonce |-> seq_counter', bytes |-> worker[w].bytes]}
           \/ /\ worker'[w].pc \in Ended
              /\ worker'[w].nonce = worker[w].nonce
              /\ threads' \subseteq threads
              /\ UNCHANGED <<first_seq, seq_counter>>
    <3>1. CASE /\ worker'[w].pc = "storing"
               /\ seq_counter' = seq_counter + 1
               /\ worker'[w].nonce = seq_counter'
               /\ first_seq' = IF first_seq = 0 THEN seq_counter' ELSE first_seq
               /\ threads' = threads \cup {[nonce |-> seq_counter', bytes |-> worker[w].bytes]}
               /\ UNCHANGED task
      BY <3>1
    <3>2. ASSUME NEW end \in Ended,
                 worker'[w].pc = end,
                 worker'[w].nonce = worker[w].nonce,
                 task' = [task EXCEPT !.gathered = Gathered(w, end)],
                 threads' \subseteq threads,
                 UNCHANGED <<first_seq, seq_counter>>
          PROVE  /\ task'.pc = task.pc /\ task'.hit = task.hit
                 /\ worker'[w].pc \in Ended
      BY <3>2 DEF TaskType
    <3>. QED BY <1>9, <3>1, <3>2, WorkerMoves
  <2>5. /\ \A v \in WorkerIds : worker[v].nonce <= seq_counter
        /\ \A t \in threads : t.nonce <= seq_counter
        /\ first_seq <= seq_counter
    BY <1>0 DEF EvictInv, NonceInv, ThreadInv
  <2>6. CacheInv'
    <3>1. seq_counter' \in Nat /\ seq_counter <= seq_counter'
      BY <1>0, <2>4
    <3>. QED BY <1>0, <1>00, <2>1, <3>1 DEF CacheInv
  <2>7. SizeInv'
    <3>1. \A v \in WorkerIds : worker'[v].pc = "none" <=> worker[v].pc = "none"
      BY <2>1, <2>2, <2>4 DEF Ended
    <3>2. \A v \in WorkerIds :
             v[1] = run' /\ v[2] > status'.concurrency => worker'[v].pc = "none"
      BY <1>00, <2>1, <2>3, <3>1 DEF SizeInv
    <3>3. task'.pc \in {"gather", "lookup", "sleep"} =>
             \A v \in WorkerIds :
                v[1] = run' /\ v[2] <= status'.concurrency => worker'[v].pc # "none"
      BY <1>00, <2>1, <2>3, <2>4, <3>1 DEF SizeInv
    <3>4. ASSUME NEW t \in threads', NEW v \in WorkerIds, worker'[v].nonce = t.nonce
          PROVE  worker'[v].bytes = t.bytes
      <4>1. CASE t \in threads /\ worker'[v].nonce = worker[v].nonce
        BY <1>00, <2>3, <3>4, <4>1 DEF SizeInv
      <4>2. CASE t \notin threads
        <5>1. /\ t = [nonce |-> seq_counter', bytes |-> worker[w].bytes]
              /\ seq_counter' = seq_counter + 1
          BY <2>4, <3>4, <4>2
        <5>2. t.nonce = seq_counter + 1 /\ t.bytes = worker[w].bytes
          BY <5>1
        <5>3. v = w
          BY <1>0, <2>1, <2>5, <3>4, <5>2
        <5>. QED BY <2>3, <5>2, <5>3
      <4>3. CASE t \in threads /\ worker'[v].nonce # worker[v].nonce
        <5>1. v = w /\ worker'[w].nonce = seq_counter + 1
          BY <2>1, <2>4, <4>3
        <5>. QED BY <1>0, <2>5, <3>4, <4>3, <5>1
      <4>. QED BY <4>1, <4>2, <4>3
    <3>. QED BY <3>2, <3>3, <3>4 DEF SizeInv
  <2>8. CheckInv'
    BY <1>00, <2>1, <2>2, <2>3, <2>4 DEF CheckInv
  <2>9. ASSUME status.concurrency = 1, BehindInv
        PROVE  BehindInv'
    <3>1. \A v \in WorkerIds \ {w} : v[1] = run => worker'[v].pc = "none"
      BY <1>00, <2>1, <2>2, <2>9, OneWorker
    <3>2. status'.stored \in Nat /\ worker[w].bytes \in Nat
      BY <1>0 DEF StatusType
    <3>4. CASE worker[w].pc = "ready" /\ worker'[w].pc = "storing"
      <4>1. first_seq = 0 /\ status.stored = 0 /\ status'.stored = 0
        BY <2>2, <2>3, <2>9, <3>4 DEF BehindInv
      <4>2. first_seq' = seq_counter + 1 /\ first_seq' # 0
        BY <1>0, <2>4, <3>4, <4>1 DEF Ended
      <4>3. \A i \in DOMAIN cache' : cache'[i].nonce # first_seq'
        BY <1>0, <1>00, <2>1, <4>2 DEF CacheInv
      <4>. QED BY <2>1, <3>1, <3>4, <4>1, <4>2, <4>3 DEF BehindInv
    <3>5. CASE worker[w].pc = "stored" /\ worker'[w].pc \in {"storing", "done"}
      <4>1. first_seq # 0 /\ first_seq' = first_seq
        BY <2>2, <2>4, <2>9, <3>5 DEF BehindInv
      <4>2. status'.stored = status.stored + worker[w].bytes
        BY <2>3, <3>5
      <4>3. \A i \in DOMAIN cache' :
               cache'[i].nonce = first_seq' => BytesFrom(cache', i) >= status'.stored
        BY <2>1, <2>2, <2>9, <3>5, <4>1, <4>2 DEF BehindInv
      <4>4. worker'[w].pc = "storing" => worker'[w].nonce # first_seq'
        BY <1>0, <2>4, <2>5, <4>1 DEF Ended
      <4>5. worker'[w].pc = "done" => status'.stored >= status'.target
        BY <2>3
      <4>. QED BY <2>1, <3>1, <3>5, <4>1, <4>3, <4>4, <4>5 DEF BehindInv
    <3>6. CASE worker[w].pc = "ready" /\ worker'[w].pc = "done"
      <4>1. /\ status'.stored = status.stored /\ first_seq' = first_seq
            /\ status'.stored >= status'.target
        BY <2>3, <2>4, <3>6
      <4>. QED BY <2>1, <2>9, <3>1, <3>6, <4>1 DEF BehindInv
    <3>7. CASE worker'[w].pc = "cancelled" /\ status' = status
      <4>1. first_seq' = first_seq /\ worker'[w].nonce = worker[w].nonce
        BY <2>4, <3>7
      <4>2. first_seq = 0 \/ worker[w].nonce # first_seq \/ status.stored = 0
        BY <2>1, <2>2, <2>9 DEF BehindInv, Live, CrewInv
      <4>. QED BY <2>1, <2>9, <3>1, <3>7, <4>1, <4>2 DEF BehindInv
    <3>. QED BY <2>3, <3>4, <3>5, <3>6, <3>7
  <2>10. HitInv => HitInv'
    BY <2>3, <2>4 DEF HitInv
  <2>. QED BY <1>00, <2>3, <2>6, <2>7, <2>8, <2>9, <2>10 DEF FillInv
<1>10. ASSUME NEW t \in threads, StoreEnds(t)
       PROVE  FillInv'
  <2>1. /\ cache' \in Fitted(Append(cache, t))
        /\ threads' = threads \ {t}
        /\ UNCHANGED <<status, task, run, first_seq, seq_counter>>
        /\ \A w \in WorkerIds :
              \/ worker'[w] = worker[w]
              \/ /\ worker[w].pc = "storing"
                 /\ worker[w].nonce = t.nonce
                 /\ worker'[w].pc = "stored"
                 /\ worker'[w].nonce = worker[w].nonce
                 /\ worker'[w].bytes = worker[w].bytes
    BY <1>10, StoreFills
  <2>2. /\ BytesFrom(cache', 1) <= CapacityBytes
        /\ \A i \in DOMAIN cache' :
              \/ cache'[i] = t /\ BytesFrom(cache', i) = t.bytes
              \/ \E j \in DOMAIN cache :
                    cache'[i] = cache[j] /\ BytesFrom(cache', i) = BytesFrom(cache, j) + t.bytes
    <3>1. cache \in Seq(StoreType) /\ t \in StoreType
      OBVIOUS
    <3>. QED BY <2>1, <3>1, StoreKeeps
  <2>3. \A j \in DOMAIN cache : BytesFrom(cache, j) \in Nat
    <3>1. \A j \in DOMAIN cache : j \in 1..(Len(cache) + 1)
      OBVIOUS
    <3>. QED BY <3>1, BytesFromType
  <2>4. t.bytes \in Nat /\ t.nonce \in 1..seq_counter
    BY <1>0 DEF EvictInv, ThreadInv
  <2>5. CacheInv'
    BY <1>00, <2>1, <2>2, <2>4 DEF CacheInv
  <2>6. SizeInv'
    <3>1. \A w \in WorkerIds : /\ worker'[w].pc = "none" <=> worker[w].pc = "none"
                               /\ worker'[w].nonce = worker[w].nonce
                               /\ worker'[w].bytes = worker[w].bytes
      BY <2>1
    <3>. QED BY <1>00, <2>1, <3>1 DEF SizeInv
  <2>7. CheckInv'
    BY <1>00, <2>1 DEF CheckInv
  <2>8. ASSUME status.concurrency = 1, BehindInv
        PROVE  BehindInv'
    <3>1. t.nonce = first_seq =>
             /\ status.stored = 0
             /\ \A w \in WorkerIds : w[1] = run => worker[w].pc # "stored"
      BY <1>00, <2>8, FirstUncounted
    <3>2. \A i \in DOMAIN cache' :
             cache'[i].nonce = first_seq => BytesFrom(cache', i) >= status.stored
      <4> SUFFICES ASSUME NEW i \in DOMAIN cache', cache'[i].nonce = first_seq
                   PROVE  BytesFrom(cache', i) >= status.stored
        OBVIOUS
      <4>1. CASE cache'[i] = t /\ BytesFrom(cache', i) = t.bytes
        BY <2>4, <3>1, <4>1
      <4>2. ASSUME NEW j \in DOMAIN cache, cache'[i] = cache[j],
                   BytesFrom(cache', i) = BytesFrom(cache, j) + t.bytes
            PROVE  BytesFrom(cache', i) >= status.stored
        <5>1. BytesFrom(cache, j) >= status.stored
          BY <2>8, <4>2 DEF BehindInv
        <5>. QED BY <1>0, <2>3, <2>4, <4>2, <5>1
      <4>. QED BY <2>2, <4>1, <4>2
    <3>3. ASSUME NEW w \in WorkerIds, w[1] = run, worker'[w].pc = "stored",
                 NEW i \in DOMAIN cache', cache'[i].nonce = first_seq
          PROVE  BytesFrom(cache', i) >= status.stored + worker'[w].bytes
      <4>1. worker[w].bytes \in Nat /\ worker'[w].bytes = worker[w].bytes
        BY <1>0, <2>1
      <4>2. CASE worker[w].pc = "stored"
        <5>1. ~(cache'[i] = t)
          BY <3>1, <3>3, <4>2
        <5>2. PICK j \in DOMAIN cache :
                 cache'[i] = cache[j] /\ BytesFrom(cache', i) = BytesFrom(cache, j) + t.bytes
          BY <2>2, <5>1
        <5>3. BytesFrom(cache, j) >= status.stored + worker[w].bytes
          BY <2>8, <3>3, <4>2, <5>2 DEF BehindInv
        <5>4. BytesFrom(cache, j) \in Nat /\ BytesFrom(cache', i) = BytesFrom(cache, j) + t.bytes
          BY <2>3, <5>2
        <5>5. status.stored \in Nat /\ t.bytes \in Nat
          BY <1>0
        <5>. QED BY <4>1, <5>3, <5>4, <5>5, MoreBytes
      <4>3. CASE worker[w].pc # "stored"
        <5>1. worker[w].pc = "storing" /\ worker[w].nonce = t.nonce
          BY <2>1, <3>3, <4>3
        <5>2. worker[w].bytes = t.bytes
          BY <1>00, <5>1 DEF SizeInv
        <5>3. CASE cache'[i] = t /\ BytesFrom(cache', i) = t.bytes
          <6>1. status.stored = 0
            BY <3>1, <3>3, <5>3
          <6>. QED BY <2>4, <4>1, <5>2, <5>3, <6>1
        <5>4. ASSUME NEW j \in DOMAIN cache, cache'[i] = cache[j],
                     BytesFrom(cache', i) = BytesFrom(cache, j) + t.bytes
              PROVE  BytesFrom(cache', i) >= status.stored + worker'[w].bytes
          <6>1. BytesFrom(cache, j) >= status.stored
            BY <2>8, <3>3, <5>4 DEF BehindInv
          <6>. QED BY <1>0, <2>3, <2>4, <4>1, <5>2, <5>4, <6>1
        <5>. QED BY <2>2, <3>3, <5>3, <5>4
      <4>. QED BY <4>2, <4>3
    <3>4. \A w \in WorkerIds : w[1] = run =>
             /\ worker'[w].pc = "ready" => first_seq = 0
             /\ worker'[w].pc \in {"storing", "stored"} => first_seq # 0
             /\ worker'[w].pc \in {"storing", "stored", "cancelled"} =>
                   first_seq = 0 \/ worker'[w].nonce # first_seq \/ status.stored = 0
             /\ worker'[w].pc = "done" => status.stored >= status.target
      BY <2>1, <2>8 DEF BehindInv
    <3>5. first_seq = 0 => status.stored = 0
      BY <2>8 DEF BehindInv
    <3>. QED BY <2>1, <3>2, <3>3, <3>4, <3>5 DEF BehindInv
  <2>9. HitInv => HitInv'
    BY <2>1 DEF HitInv
  <2>. QED BY <1>00, <2>1, <2>5, <2>6, <2>7, <2>8, <2>9 DEF FillInv
<1>11. CASE UNCHANGED vars
  BY <1>11 DEF vars, FillInv, CacheInv, SizeInv, CheckInv, BehindInv, HitInv
<1>. QED
  BY <1>1, <1>3, <1>4, <1>7, <1>8, <1>9, <1>10, <1>11 DEF Next, Control

\* Without faults, a run with one worker that filled more than the tiers hold says
\* `evicting`, and a run that says it says it of a sequence that was stored and is
\* gone: no store of it is on its way (lines 225-227, 234-243).
THEOREM EvictionIsSeen ==
    ASSUME ~Faulty
    PROVE  Spec => []EvictionSeen
<1>1. Init => EvictInv /\ FillInv
  <2> SUFFICES ASSUME Init
               PROVE  EvictInv /\ FillInv
    OBVIOUS
  <2>1. EvictInv
    BY DEF Init, EvictInv, NonceInv, ThreadInv, VerdictInv
  <2>2. cache \in Seq(StoreType) /\ cache = <<>> /\ Len(cache) = 0
    BY DEF Init
  <2>3. BytesFrom(cache, 1) <= CapacityBytes
    <3>1. Sums(UpTo(cache), Len(cache), cache)
      BY <2>2, UpToSums
    <3>2. UpTo(cache)[0] = 0
      BY <3>1 DEF Sums
    <3>. QED BY <2>2, <3>2 DEF BytesFrom
  <2>4. \A w \in WorkerIds : worker[w].pc = "none" /\ worker[w].nonce = 0
    BY DEF Init
  <2>5. FillInv
    BY <2>2, <2>3, <2>4 DEF Init, FillInv, CacheInv, SizeInv, CheckInv
  <2>. QED BY <2>1, <2>5
<1>2. TypeOK /\ TypeOK' /\ CrewInv /\ EvictInv /\ FillInv /\ [Next]_vars => EvictInv' /\ FillInv'
  BY EvictStep, FillStep
<1>3. TypeOK /\ EvictInv /\ FillInv => EvictionSeen
  BY FirstIsStored DEF EvictInv, VerdictInv, EvictedIsGone, FillInv, HitInv, EvictionSeen
<1>. QED BY <1>1, <1>2, <1>3, TypeCorrect, CrewAndStored, PTL DEF Spec

=============================================================================
