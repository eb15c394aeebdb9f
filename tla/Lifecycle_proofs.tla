-------------------------- MODULE Lifecycle_proofs --------------------------
(***************************************************************************)
(* Proofs about Lifecycle.tla: the workers serve the configuration serve   *)
(* resolved, the KV stack outlives its users, and the verdict of the       *)
(* warmup command is about a run that is no older than its own.            *)
(*                                                                         *)
(* The invariant is made of types, of what the process of serve owes its   *)
(* workers (ServeInv), of the order in which a worker is built and taken   *)
(* down (StackInv), and of the runs a client can hear of (RunInv).         *)
(***************************************************************************)
EXTENDS Lifecycle, FiniteSetTheorems, SequenceTheorems, TLAPS

-----------------------------------------------------------------------------
(* The invariant *)

\* What is left of _shutdown.
Rests == {Shutdown, <<"server", "kv">>, <<"kv">>, <<>>}

WorkerState ==
    [pc : {"down", "starting", "up", "stopping"},
     config : Source \cup {None},
     kv : {"none", "open", "closed"},
     server : BOOLEAN,
     warmup : {"none", "idle", "running", "done", "error", "cancelled"},
     run : Nat,
     todo : Rests]

ClientState ==
    [pc : {"idle", "polling", "over"},
     conn : Worker \cup {None},
     dropped : BOOLEAN,
     run : Nat,
     seen : Nat,
     verdict : {None, "unreachable", "refused", "started",
                "none", "idle", "done", "error", "cancelled"}]

TypeInv ==
    /\ call \in Scenarios
    /\ serve \in {"resolving", "writing", "serving", "stopping", "done", "failed", "killed"}
    /\ resolved \in Source \cup {None}
    /\ file \in Source \cup {None, Empty}
    /\ worker \in [Worker -> WorkerState]
    /\ starts \in Nat
    /\ runs \in Nat
    /\ client \in ClientState

\* Workers run only while serve does, which has resolved a configuration and keeps
\* it in the file; a serve without a supervisor has no more than one.
ServeInv ==
    /\ serve = "writing" => resolved \in Source
    /\ serve \in {"serving", "stopping"} => resolved \in Source /\ file = resolved
    /\ \A w \in Worker : worker[w].pc # "down" =>
           /\ serve \in {"serving", "stopping"}
           /\ w \in Processes
           /\ worker[w].config = resolved

\* How far worker state s is built or taken down.
Stacked(s) ==
    /\ s.pc \in {"down", "starting"} => ~s.server /\ s.warmup # "running"
    /\ s.pc \in {"down", "starting"} => s.todo = <<>>
    /\ s.pc = "starting" => (s.warmup = "none" <=> s.kv = "none") /\ s.kv # "closed"
    /\ s.pc = "up" => s.config.server_type = "proxy" \/ s.kv = "open"
    /\ s.pc = "up" /\ s.warmup # "none" => s.kv = "open"
    /\ s.pc = "stopping" /\ s.todo # <<>> =>
           /\ s.server /\ s.config.server_type # "proxy" => s.kv = "open"
           /\ s.warmup = "running" => s.kv = "open"
    /\ s.pc = "stopping" /\ s.todo # Shutdown => s.warmup # "running"
    /\ s.pc = "stopping" /\ s.todo \in {<<"kv">>, <<>>} => ~s.server

StackInv == \A w \in Worker : Stacked(worker[w])

\* No run is younger than the last one, and the connection of a client that still
\* has the one it began with leads to a worker that has had its run.
RunInv ==
    /\ client.run <= runs
    /\ \A w \in Worker : worker[w].run <= runs
    /\ client.pc = "polling" => client.verdict = None
    /\ client.pc = "idle" => client.verdict = None
    /\ client.pc = "polling" /\ ~client.dropped =>
           /\ client.conn \in Worker
           /\ worker[client.conn].pc = "up"
           /\ worker[client.conn].run >= client.run

IInv == TypeInv /\ ServeInv /\ StackInv /\ RunInv /\ VerdictIsFresh

-----------------------------------------------------------------------------
(* Lemmas *)

\* Taking a step of _shutdown off what is left of it.
LEMMA RestsShrink ==
    ASSUME NEW todo \in Rests, todo # <<>>
    PROVE  /\ Tail(todo) \in Rests
           /\ Head(todo) = "warmup" => todo = Shutdown /\ Tail(todo) = <<"server", "kv">>
           /\ Head(todo) = "server" => todo = <<"server", "kv">> /\ Tail(todo) = <<"kv">>
           /\ Head(todo) = "kv" => todo = <<"kv">> /\ Tail(todo) = <<>>
           /\ Head(todo) \in {"warmup", "server", "kv"}
<1>1. CASE todo = Shutdown
  BY <1>1 DEF Rests, Shutdown
<1>2. CASE todo = <<"server", "kv">>
  BY <1>2 DEF Rests, Shutdown
<1>3. CASE todo = <<"kv">>
  BY <1>3 DEF Rests, Shutdown
<1>4. QED
  BY <1>1, <1>2, <1>3 DEF Rests

\* The rests tell each other apart.
LEMMA RestsDiffer ==
    /\ Shutdown # <<"server", "kv">> /\ Shutdown # <<"kv">> /\ Shutdown # <<>>
    /\ <<"server", "kv">> # <<"kv">> /\ <<"server", "kv">> # <<>>
    /\ <<"kv">> # <<>>
  BY DEF Shutdown

\* A source laid over another one is a source.
LEMMA OverIsSource ==
    ASSUME NEW s \in Source, NEW b \in Source
    PROVE  Over(s, b) \in Source
  BY DEF Over, Source

LEMMA DefaultsAreSource == Defaults \in Source
  BY DEF Defaults, Source, Settings

LEMMA BaseIsSource ==
    ASSUME NEW c \in Scenarios
    PROVE  Base(c) \in Source /\ Over(c.flags, Base(c)) \in Source
<1>1. c.flags \in Source /\ c.env \in Source /\ c.file \in Source \cup {None}
  BY LifecycleAssumption
<1>2. Base(c) \in Source
  BY <1>1, OverIsSource, DefaultsAreSource DEF Base
<1>3. QED
  BY <1>1, <1>2, OverIsSource

\* Without a supervisor there is one worker process at most.
LEMMA OneProcess ==
    ASSUME NEW c \in Scenarios, ~(Cardinality(c.workers) > 1 \/ c.reload)
    PROVE  \A u, v \in (IF c.reload THEN {CHOOSE w \in c.workers : TRUE} ELSE c.workers) : u = v
<1>1. c.workers \subseteq Worker /\ c.workers # {}
  BY LifecycleAssumption
<1>2. IsFiniteSet(c.workers)
  <2>1. IsFiniteSet(Worker) /\ c.workers \in SUBSET Worker
    BY <1>1, LifecycleAssumption
  <2>2. QED
    BY <2>1, FS_Subset
<1>3. Cardinality(c.workers) \in Nat /\ Cardinality(c.workers) # 0
  BY <1>1, <1>2, FS_CardinalityType, FS_EmptySet
<1>4. Cardinality(c.workers) = 1
  <2>1. Cardinality(c.workers) \in Nat /\ Cardinality(c.workers) # 0 /\ ~(Cardinality(c.workers) > 1)
    BY <1>3
  <2>2. QED
    BY <2>1
<1>5. PICK x : c.workers = {x}
  BY <1>2, <1>4, FS_Singleton
<1>6. QED
  BY <1>5

-----------------------------------------------------------------------------
(* The initial states *)

LEMMA InitEstablishes == Init => IInv
<1>1. SUFFICES ASSUME Init PROVE IInv
  OBVIOUS
<1>2. Down \in WorkerState /\ Away \in ClientState
  BY DEF Down, Away, WorkerState, ClientState, Rests
<1>3. TypeInv
  BY <1>1, <1>2 DEF Init, TypeInv
<1>4. ServeInv
  BY <1>1 DEF Init, ServeInv, Down
<1>5. StackInv
  BY <1>1, RestsDiffer DEF Init, StackInv, Stacked, Down
<1>6. RunInv /\ VerdictIsFresh
  BY <1>1, LifecycleAssumption DEF Init, RunInv, VerdictIsFresh, Down, Away
<1>7. QED
  BY <1>3, <1>4, <1>5, <1>6 DEF IInv

-----------------------------------------------------------------------------
(* Type correctness *)

LEMMA HangsUpTyped ==
    ASSUME TypeInv, NEW w \in Worker, HangsUp(w)
    PROVE  client' \in ClientState
  BY DEF TypeInv, HangsUp, ClientState

LEMMA EndsTyped ==
    ASSUME TypeInv, NEW w \in Worker, Ends(w)
    PROVE  /\ worker' \in [Worker -> WorkerState]
           /\ serve' \in {"resolving", "writing", "serving", "stopping", "done", "failed", "killed"}
           /\ UNCHANGED <<call, resolved, file>>
<1>1. Down \in WorkerState
  BY DEF Down, WorkerState, Rests
<1>2. QED
  BY <1>1 DEF TypeInv, Ends

LEMMA NextTyped ==
    ASSUME TypeInv, [Next]_vars
    PROVE  TypeInv'
<1> USE DEF TypeInv
<1>1. CASE Resolve
  <2>1. Over(call.flags, Base(call)) \in Source
    BY BaseIsSource
  <2>2. QED
    BY <1>1, <2>1 DEF Resolve
<1>2. CASE CreateFile
  BY <1>2 DEF CreateFile
<1>3. CASE WriteFile
  BY <1>3 DEF WriteFile
<1>4. CASE Signal
  BY <1>4 DEF Signal
<1>5. CASE Unlink
  BY <1>5 DEF Unlink
<1>6. ASSUME NEW w \in Worker, Load(w)
      PROVE  TypeInv'
  <2>1. CASE Ends(w)
    BY <1>6, <2>1, EndsTyped DEF Load
  <2>2. CASE file # None /\ ~Ends(w)
    <3>1. FromYaml(file) \in Source
      BY <2>2, DefaultsAreSource DEF FromYaml
    <3>2. [Down EXCEPT !.pc = "starting", !.config = FromYaml(file)] \in WorkerState
      BY <3>1 DEF Down, WorkerState, Rests
    <3>3. QED
      BY <1>6, <2>2, <3>2 DEF Load, serveVars
  <2>3. QED
    BY <1>6, <2>1, <2>2 DEF Load
<1>7. ASSUME NEW w \in Worker, StartKV(w)
      PROVE  TypeInv'
  <2>1. CASE Ends(w)
    BY <1>7, <2>1, EndsTyped DEF StartKV
  <2>2. CASE ~Ends(w)
    BY <1>7, <2>2 DEF StartKV, serveVars, WorkerState
  <2>3. QED
    BY <2>1, <2>2
<1>8. ASSUME NEW w \in Worker, StartServer(w)
      PROVE  TypeInv'
  <2>1. [worker[w] EXCEPT !.pc = "up", !.server = TRUE] \in WorkerState
    BY DEF WorkerState
  <2>2. CASE Ends(w)
    BY <1>8, <2>2, EndsTyped DEF StartServer
  <2>3. CASE ~Ends(w)
    <3>1. worker' = [worker EXCEPT ![w] = [worker[w] EXCEPT !.pc = "up", !.server = TRUE]]
      BY <1>8, <2>3 DEF StartServer
    <3>2. QED
      BY <1>8, <2>1, <2>3, <3>1 DEF StartServer, serveVars
  <2>4. QED
    BY <2>2, <2>3
<1>9. ASSUME NEW w \in Worker, Stop(w)
      PROVE  TypeInv'
  <2>1. worker' \in [Worker -> WorkerState]
    <3>1. [worker[w] EXCEPT !.pc = "stopping", !.todo = Shutdown] \in WorkerState
      BY DEF WorkerState, Rests
    <3>2. worker' = [worker EXCEPT ![w] = [worker[w] EXCEPT !.pc = "stopping", !.todo = Shutdown]]
      BY <1>9 DEF Stop
    <3>3. QED
      BY <3>1, <3>2
  <2>2. QED
    BY <1>9, <2>1, HangsUpTyped DEF Stop, serveVars
<1>10. ASSUME NEW w \in Worker, StopStep(w)
       PROVE  TypeInv'
  <2>1. worker[w] \in WorkerState /\ worker[w].todo \in Rests /\ worker[w].todo # <<>>
    BY <1>10 DEF StopStep, WorkerState
  <2>2. [worker[w] EXCEPT !.todo = Tail(@)] \in WorkerState
    BY <2>1, RestsShrink DEF WorkerState
  <2>3. Head(worker[w].todo) \in {"warmup", "server", "kv"}
    BY <2>1, RestsShrink
  <2>4. worker' \in [Worker -> WorkerState]
    BY <1>10, <2>2, <2>3 DEF StopStep, WorkerState
  <2>5. QED
    BY <1>10, <2>4 DEF StopStep, serveVars
<1>11. ASSUME NEW w \in Worker, Exit(w)
       PROVE  TypeInv'
  BY <1>11, EndsTyped DEF Exit
<1>12. ASSUME NEW w \in Worker, Kill(w)
       PROVE  TypeInv'
  <2>1. Down \in WorkerState
    BY DEF Down, WorkerState, Rests
  <2>2. QED
    BY <1>12, <2>1, HangsUpTyped DEF Kill
<1>13. ASSUME NEW w \in Worker, StartRun(w)
       PROVE  worker' \in [Worker -> WorkerState] /\ runs' \in Nat
  <2>1. [worker[w] EXCEPT !.warmup = "running", !.run = runs + 1] \in WorkerState
    <3>1. runs + 1 \in Nat
      OBVIOUS
    <3>2. worker[w] \in WorkerState
      OBVIOUS
    <3>3. QED
      BY <3>1, <3>2 DEF WorkerState
  <2>2. worker' = [worker EXCEPT ![w] = [worker[w] EXCEPT !.warmup = "running", !.run = runs + 1]]
    BY <1>13 DEF StartRun
  <2>3. QED
    BY <1>13, <2>1, <2>2 DEF StartRun
<1>14. ASSUME NEW w \in Worker, OtherRun(w)
       PROVE  TypeInv'
  BY <1>13, <1>14 DEF OtherRun, serveVars
<1>15. ASSUME NEW w \in Worker, RunEnds(w) \/ CancelRun(w)
       PROVE  TypeInv'
  BY <1>15 DEF RunEnds, CancelRun, serveVars, WorkerState
<1>16. CASE Post
  <2>1. client' \in ClientState
    <3>1. \A v \in {"unreachable", "refused", "started"} : Verdict(v) \in ClientState
      BY DEF Verdict, ClientState
    <3>2. \A w \in Worker :
              [client EXCEPT !.pc = "polling", !.conn = w, !.run = runs + 1] \in ClientState
      <4>1. runs + 1 \in Nat
        OBVIOUS
      <4>2. QED
        BY <4>1 DEF ClientState
    <3>3. QED
      BY <1>16, <3>1, <3>2 DEF Post
  <2>2. worker' \in [Worker -> WorkerState] /\ runs' \in Nat
    BY <1>13, <1>16 DEF Post
  <2>3. QED
    BY <1>16, <2>1, <2>2 DEF Post, serveVars
<1>17. CASE Disconnect
  BY <1>17 DEF Disconnect, serveVars, ClientState
<1>18. CASE Poll
  <2>1. client' \in ClientState
    <3>1. ASSUME NEW w \in Worker, worker[w].warmup # "running"
          PROVE  [Verdict(worker[w].warmup) EXCEPT !.conn = w, !.seen = worker[w].run]
                     \in ClientState
      BY <3>1 DEF Verdict, ClientState, WorkerState
    <3>2. \A w \in Worker : [client EXCEPT !.conn = w] \in ClientState
      BY DEF ClientState
    <3>3. Verdict("unreachable") \in ClientState
      BY DEF Verdict, ClientState
    <3>4. QED
      BY <1>18, <3>1, <3>2, <3>3 DEF Poll
  <2>2. QED
    BY <1>18, <2>1 DEF Poll, serveVars
<1>19. CASE UNCHANGED vars
  BY <1>19 DEF vars
<1>20. QED
  BY <1>1, <1>2, <1>3, <1>4, <1>5, <1>6, <1>7, <1>8, <1>9, <1>10, <1>11, <1>12, <1>14,
     <1>15, <1>16, <1>17, <1>18, <1>19 DEF Next, WorkerStep

-----------------------------------------------------------------------------
(* serve and its workers *)

\* What serve owes its workers holds when one of them ends, or is killed.
LEMMA EndsServes ==
    ASSUME TypeInv, ServeInv, NEW w \in Worker, worker[w].pc # "down",
           worker' = [worker EXCEPT ![w] = Down],
           UNCHANGED <<call, resolved, file>>,
           Supervised => serve' = serve,
           ~Supervised => serve' \in {"stopping", "killed"}
    PROVE  ServeInv'
<1>1. resolved \in Source /\ file = resolved /\ serve \in {"serving", "stopping"}
  BY DEF ServeInv
<1>2. worker'[w].pc = "down" /\ \A v \in Worker : v # w => worker'[v] = worker[v]
  BY DEF TypeInv, Down
<1>3. Processes' = Processes
  BY DEF Processes
<1>4. CASE Supervised
  BY <1>1, <1>2, <1>3, <1>4 DEF ServeInv
<1>5. CASE ~Supervised
  <2>1. \A u, v \in Processes : u = v
    BY <1>5, OneProcess DEF TypeInv, Supervised, Processes
  <2>2. \A v \in Worker : worker'[v].pc = "down"
    BY <1>2, <2>1 DEF ServeInv
  <2>3. QED
    BY <1>1, <1>5, <2>2 DEF ServeInv
<1>6. QED
  BY <1>4, <1>5

\* A worker that is not started and not ended by a step keeps what it serves.
LEMMA KeptServes ==
    ASSUME TypeInv, ServeInv, NEW w \in Worker, worker[w].pc # "down",
           \A v \in Worker : v # w => worker'[v] = worker[v],
           worker'[w].config = worker[w].config,
           UNCHANGED <<call, serve, resolved, file>>
    PROVE  ServeInv'
<1>1. Processes' = Processes
  BY DEF Processes
<1>2. QED
  BY <1>1 DEF ServeInv

LEMMA NextServes ==
    ASSUME TypeInv, TypeInv', ServeInv, [Next]_vars
    PROVE  ServeInv'
<1> USE DEF ServeInv, Processes
<1>1. CASE Resolve
  <2>1. Over(call.flags, Base(call)) \in Source
    BY BaseIsSource DEF TypeInv
  <2>2. QED
    BY <1>1, <2>1 DEF Resolve
<1>2. CASE CreateFile
  BY <1>2 DEF CreateFile
<1>3. CASE WriteFile
  BY <1>3 DEF WriteFile
<1>4. CASE Signal
  BY <1>4 DEF Signal
<1>5. CASE Unlink
  BY <1>5 DEF Unlink
<1>6. ASSUME NEW w \in Worker, Load(w)
      PROVE  ServeInv'
  <2>1. serve = "serving" /\ w \in Processes /\ worker[w].pc = "down"
    BY <1>6 DEF Load
  <2>2. resolved \in Source /\ file = resolved
    BY <2>1
  <2>3. CASE Ends(w)
    <3>1. \A v \in Worker : worker'[v].pc # "down" => worker'[v] = worker[v] /\ worker[v].pc # "down"
      BY <2>3 DEF Ends, TypeInv, Down
    <3>2. serve' \in {"serving", "stopping"} /\ UNCHANGED <<call, resolved, file>>
      BY <2>1, <2>3 DEF Ends
    <3>3. QED
      BY <2>2, <3>1, <3>2
  <2>4. CASE ~Ends(w)
    <3>1. FromYaml(file) = resolved
      BY <2>2, LifecycleAssumption DEF FromYaml
    <3>2. worker' = [worker EXCEPT ![w] = [Down EXCEPT !.pc = "starting", !.config = resolved]]
      BY <1>6, <2>4, <3>1 DEF Load
    <3>3. worker'[w].config = resolved /\ \A v \in Worker : v # w => worker'[v] = worker[v]
      BY <3>2 DEF TypeInv, Down
    <3>4. UNCHANGED <<call, serve, resolved, file>>
      BY <1>6, <2>4 DEF Load, serveVars
    <3>5. QED
      BY <2>1, <2>2, <3>3, <3>4
  <2>5. QED
    BY <2>3, <2>4
<1>7. ASSUME NEW w \in Worker, StartKV(w)
      PROVE  ServeInv'
  <2>1. CASE Ends(w)
    BY <1>7, <2>1, EndsServes DEF StartKV, Ends
  <2>2. CASE ~Ends(w)
    BY <1>7, <2>2, KeptServes DEF StartKV, serveVars, TypeInv, WorkerState
  <2>3. QED
    BY <2>1, <2>2
<1>8. ASSUME NEW w \in Worker, StartServer(w)
      PROVE  ServeInv'
  <2>1. CASE Ends(w)
    BY <1>8, <2>1, EndsServes DEF StartServer, Ends
  <2>2. CASE ~Ends(w)
    BY <1>8, <2>2, KeptServes DEF StartServer, serveVars, TypeInv, WorkerState
  <2>3. QED
    BY <2>1, <2>2
<1>9. ASSUME NEW w \in Worker, Stop(w)
      PROVE  ServeInv'
  BY <1>9, KeptServes DEF Stop, serveVars, TypeInv, WorkerState
<1>10. ASSUME NEW w \in Worker, StopStep(w)
       PROVE  ServeInv'
  <2>1. Head(worker[w].todo) \in {"warmup", "server", "kv"}
    BY <1>10, RestsShrink DEF StopStep, TypeInv, WorkerState
  <2>2. worker'[w].config = worker[w].config /\ \A v \in Worker : v # w => worker'[v] = worker[v]
    BY <1>10, <2>1 DEF StopStep, TypeInv, WorkerState
  <2>3. QED
    BY <1>10, <2>2, KeptServes DEF StopStep, serveVars
<1>11. ASSUME NEW w \in Worker, Exit(w)
       PROVE  ServeInv'
  BY <1>11, EndsServes DEF Exit, Ends
<1>12. ASSUME NEW w \in Worker, Kill(w)
       PROVE  ServeInv'
  BY <1>12, EndsServes DEF Kill
<1>13. ASSUME NEW w \in Worker, StartRun(w), UNCHANGED <<call, serve, resolved, file>>
       PROVE  ServeInv'
  BY <1>13, KeptServes DEF StartRun, TypeInv, WorkerState
<1>14. ASSUME NEW w \in Worker, OtherRun(w)
       PROVE  ServeInv'
  BY <1>13, <1>14 DEF OtherRun, serveVars
<1>15. ASSUME NEW w \in Worker, RunEnds(w) \/ CancelRun(w)
       PROVE  ServeInv'
  <2>1. worker'[w].pc = worker[w].pc /\ worker'[w].config = worker[w].config
        /\ \A v \in Worker : v # w => worker'[v] = worker[v]
    BY <1>15 DEF RunEnds, CancelRun, TypeInv, WorkerState
  <2>2. UNCHANGED <<call, serve, resolved, file>>
    BY <1>15 DEF RunEnds, CancelRun, serveVars
  <2>3. QED
    BY <2>1, <2>2
<1>16. CASE Post
  <2>1. CASE UNCHANGED worker
    BY <1>16, <2>1 DEF Post, serveVars
  <2>2. ASSUME NEW w \in Worker, StartRun(w)
        PROVE  ServeInv'
    BY <1>13, <1>16, <2>2 DEF Post, serveVars
  <2>3. QED
    BY <1>16, <2>1, <2>2 DEF Post
<1>17. CASE Disconnect
  BY <1>17 DEF Disconnect, serveVars
<1>18. CASE Poll
  BY <1>18 DEF Poll, serveVars
<1>19. CASE UNCHANGED vars
  BY <1>19 DEF vars
<1>20. QED
  BY <1>1, <1>2, <1>3, <1>4, <1>5, <1>6, <1>7, <1>8, <1>9, <1>10, <1>11, <1>12, <1>14,
     <1>15, <1>16, <1>17, <1>18, <1>19 DEF Next, WorkerStep

-----------------------------------------------------------------------------
(* A worker is built and taken down in order *)

LEMMA DownIsStacked == Stacked(Down)
  BY RestsDiffer DEF Stacked, Down

\* A step that leaves one worker as s, and the others as they are.
LEMMA OneStacked ==
    ASSUME TypeInv, StackInv, NEW w \in Worker, NEW s, Stacked(s),
           worker' = [worker EXCEPT ![w] = s]
    PROVE  StackInv'
  BY DEF TypeInv, StackInv

LEMMA NextStacks ==
    ASSUME TypeInv, StackInv, [Next]_vars
    PROVE  StackInv'
<1> DEFINE At(w) == worker[w] \in WorkerState /\ Stacked(worker[w])
<1>1. \A w \in Worker : At(w)
  BY DEF TypeInv, StackInv
<1>2. CASE UNCHANGED worker
  BY <1>2 DEF StackInv
<1>3. ASSUME NEW w \in Worker, Ends(w) \/ Kill(w)
      PROVE  StackInv'
  BY <1>3, DownIsStacked, OneStacked DEF Ends, Kill
<1>4. ASSUME NEW w \in Worker, Load(w)
      PROVE  StackInv'
  <2>1. ASSUME ~Ends(w)
        PROVE  StackInv'
    <3>1. worker' = [worker EXCEPT ![w] = [Down EXCEPT !.pc = "starting",
                                                     !.config = FromYaml(file)]]
      BY <1>4, <2>1 DEF Load
    <3>2. Stacked([Down EXCEPT !.pc = "starting", !.config = FromYaml(file)])
      BY RestsDiffer DEF Stacked, Down
    <3>3. QED
      BY <3>1, <3>2, OneStacked
  <2>2. QED
    BY <1>3, <2>1
<1>5. ASSUME NEW w \in Worker, StartKV(w)
      PROVE  StackInv'
  <2>1. ASSUME ~Ends(w)
        PROVE  StackInv'
    <3>1. worker' = [worker EXCEPT ![w] = [worker[w] EXCEPT !.kv = "open", !.warmup = "idle"]]
      BY <1>5, <2>1 DEF StartKV
    <3>2. Stacked([worker[w] EXCEPT !.kv = "open", !.warmup = "idle"])
      BY <1>1, <1>5 DEF StartKV, Stacked, WorkerState
    <3>3. QED
      BY <3>1, <3>2, OneStacked
  <2>2. QED
    BY <1>3, <2>1
<1>6. ASSUME NEW w \in Worker, StartServer(w)
      PROVE  StackInv'
  <2>1. ASSUME ~Ends(w)
        PROVE  StackInv'
    <3>1. worker' = [worker EXCEPT ![w] = [worker[w] EXCEPT !.pc = "up", !.server = TRUE]]
      BY <1>6, <2>1 DEF StartServer
    <3>2. Stacked([worker[w] EXCEPT !.pc = "up", !.server = TRUE])
      BY <1>1, <1>6 DEF StartServer, Stacked, WorkerState
    <3>3. QED
      BY <3>1, <3>2, OneStacked
  <2>2. QED
    BY <1>3, <2>1
<1>7. ASSUME NEW w \in Worker, Stop(w)
      PROVE  StackInv'
  <2>1. worker' = [worker EXCEPT ![w] = [worker[w] EXCEPT !.pc = "stopping", !.todo = Shutdown]]
    BY <1>7 DEF Stop
  <2>2. Stacked([worker[w] EXCEPT !.pc = "stopping", !.todo = Shutdown])
    BY <1>1, <1>7, RestsDiffer DEF Stop, Stacked, WorkerState
  <2>3. QED
    BY <2>1, <2>2, OneStacked
<1>8. ASSUME NEW w \in Worker, StopStep(w)
      PROVE  StackInv'
  <2> DEFINE s == worker[w]
             rest == [s EXCEPT !.todo = Tail(@)]
  <2>1. s \in WorkerState /\ Stacked(s) /\ s.pc = "stopping" /\ s.todo \in Rests /\ s.todo # <<>>
    BY <1>1, <1>8 DEF StopStep, WorkerState
  <2>2. CASE Head(s.todo) = "warmup"
    <3>1. s.todo = Shutdown /\ Tail(s.todo) = <<"server", "kv">>
      BY <2>1, <2>2, RestsShrink
    <3>2. worker' = [worker EXCEPT ![w] =
              [rest EXCEPT !.warmup = IF @ = "running" THEN "cancelled" ELSE @]]
      BY <1>8, <2>2 DEF StopStep
    <3>3. Stacked([rest EXCEPT !.warmup = IF @ = "running" THEN "cancelled" ELSE @])
      BY <2>1, <3>1, RestsDiffer DEF Stacked, WorkerState
    <3>4. QED
      BY <3>2, <3>3, OneStacked
  <2>3. CASE Head(s.todo) = "server"
    <3>1. s.todo = <<"server", "kv">> /\ Tail(s.todo) = <<"kv">>
      BY <2>1, <2>3, RestsShrink
    <3>2. worker' = [worker EXCEPT ![w] = [rest EXCEPT !.server = FALSE]]
      BY <1>8, <2>3 DEF StopStep
    <3>3. Stacked([rest EXCEPT !.server = FALSE])
      BY <2>1, <3>1, RestsDiffer DEF Stacked, WorkerState
    <3>4. QED
      BY <3>2, <3>3, OneStacked
  <2>4. CASE Head(s.todo) = "kv"
    <3>1. s.todo = <<"kv">> /\ Tail(s.todo) = <<>>
      BY <2>1, <2>4, RestsShrink
    <3>2. worker' = [worker EXCEPT ![w] =
              [rest EXCEPT !.kv = IF @ = "open" THEN "closed" ELSE @]]
      BY <1>8, <2>4 DEF StopStep
    <3>3. Stacked([rest EXCEPT !.kv = IF @ = "open" THEN "closed" ELSE @])
      BY <2>1, <3>1, RestsDiffer DEF Stacked, WorkerState
    <3>4. QED
      BY <3>2, <3>3, OneStacked
  <2>5. QED
    BY <2>1, <2>2, <2>3, <2>4, RestsShrink
<1>9. ASSUME NEW w \in Worker, StartRun(w)
      PROVE  StackInv'
  <2>1. worker' = [worker EXCEPT ![w] = [worker[w] EXCEPT !.warmup = "running", !.run = runs + 1]]
    BY <1>9 DEF StartRun
  <2>2. Stacked([worker[w] EXCEPT !.warmup = "running", !.run = runs + 1])
    BY <1>1, <1>9 DEF StartRun, Stacked, WorkerState
  <2>3. QED
    BY <2>1, <2>2, OneStacked
<1>10. ASSUME NEW w \in Worker, RunEnds(w) \/ CancelRun(w)
       PROVE  StackInv'
  <2>1. PICK o \in {"done", "error", "cancelled"} : worker' = [worker EXCEPT ![w] = [worker[w] EXCEPT !.warmup = o]]
    BY <1>10 DEF RunEnds, CancelRun
  <2>2. Stacked([worker[w] EXCEPT !.warmup = o])
    BY <1>1, <1>10 DEF RunEnds, CancelRun, Stacked, WorkerState
  <2>3. QED
    BY <2>1, <2>2, OneStacked
<1>11. CASE UNCHANGED vars
  BY <1>2, <1>11 DEF vars
<1>12. CASE Resolve \/ CreateFile \/ WriteFile \/ Signal \/ Unlink \/ Disconnect \/ Poll
  BY <1>2, <1>12 DEF Resolve, CreateFile, WriteFile, Signal, Unlink, Disconnect, Poll
<1>13. CASE Post
  BY <1>2, <1>9, <1>13 DEF Post
<1>14. ASSUME NEW w \in Worker, Exit(w) \/ OtherRun(w)
       PROVE  StackInv'
  BY <1>3, <1>9, <1>14 DEF Exit, OtherRun
<1>15. QED
  BY <1>3, <1>4, <1>5, <1>6, <1>7, <1>8, <1>10, <1>11, <1>12, <1>13, <1>14 DEF Next, WorkerStep

-----------------------------------------------------------------------------
(* Runs and the client *)

\* A step that neither starts a run nor touches the client or its worker, but for
\* hanging up.
LEMMA KeptRuns ==
    ASSUME TypeInv, RunInv, VerdictIsFresh, NEW w \in Worker,
           worker' \in [Worker -> WorkerState],
           \A v \in Worker : v # w => worker'[v] = worker[v],
           worker'[w].run <= runs,
           UNCHANGED runs,
           \/ UNCHANGED client /\ worker[w].pc # "up"
           \/ UNCHANGED client /\ worker'[w].pc = "up" /\ worker'[w].run = worker[w].run
           \/ HangsUp(w)
    PROVE  RunInv' /\ VerdictIsFresh'
<1>1. CASE UNCHANGED client /\ (worker[w].pc # "up" \/
                (worker'[w].pc = "up" /\ worker'[w].run = worker[w].run))
  <2>1. VerdictIsFresh'
    BY <1>1 DEF VerdictIsFresh
  <2>2. \A v \in Worker : worker'[v].run <= runs'
    BY DEF RunInv
  <2>3. ASSUME client.pc = "polling" /\ ~client.dropped
        PROVE  worker'[client.conn].pc = "up" /\ worker'[client.conn].run >= client.run
    BY <1>1, <2>3 DEF RunInv
  <2>4. QED
    BY <1>1, <2>1, <2>2, <2>3 DEF RunInv
<1>2. CASE HangsUp(w) /\ client.conn # w
  BY <1>2 DEF RunInv, VerdictIsFresh, HangsUp, TypeInv
<1>3. CASE HangsUp(w) /\ client.conn = w
  <2>1. client' = [client EXCEPT !.conn = None, !.dropped = TRUE]
    BY <1>3 DEF HangsUp
  <2>2. client'.dropped /\ client'.pc = client.pc /\ client'.run = client.run
        /\ client'.verdict = client.verdict
    BY <2>1 DEF TypeInv, ClientState
  <2>3. \A v \in Worker : worker'[v].run <= runs'
    BY DEF RunInv
  <2>4. QED
    BY <2>2, <2>3 DEF RunInv, VerdictIsFresh
<1>4. QED
  BY <1>1, <1>2, <1>3

\* A run that starts is younger than any before.
LEMMA StartedRuns ==
    ASSUME TypeInv, RunInv, NEW w \in Worker, StartRun(w)
    PROVE  /\ runs' = runs + 1
           /\ worker'[w].pc = "up" /\ worker'[w].run = runs + 1
           /\ \A v \in Worker : v # w => worker'[v] = worker[v]
           /\ \A v \in Worker : worker'[v].run <= runs'
<1>1. runs' = runs + 1 /\ runs \in Nat
  BY DEF StartRun, TypeInv
<1>2. worker'[w].pc = "up" /\ worker'[w].run = runs + 1
  BY DEF StartRun, TypeInv, WorkerState
<1>3. \A v \in Worker : v # w => worker'[v] = worker[v]
  BY DEF StartRun, TypeInv
<1>4. \A v \in Worker : worker[v].run \in Nat /\ worker[v].run <= runs
  BY DEF TypeInv, WorkerState, RunInv
<1>5. QED
  BY <1>1, <1>2, <1>3, <1>4

LEMMA NextRuns ==
    ASSUME TypeInv, TypeInv', RunInv, VerdictIsFresh, [Next]_vars
    PROVE  RunInv' /\ VerdictIsFresh'
<1>1. CASE UNCHANGED <<worker, runs, client>>
  BY <1>1 DEF RunInv, VerdictIsFresh
<1>2. CASE Resolve \/ CreateFile \/ WriteFile \/ Signal \/ Unlink \/ UNCHANGED vars
  BY <1>1, <1>2 DEF Resolve, CreateFile, WriteFile, Signal, Unlink, vars
<1>3. \A w \in Worker : worker[w].run \in Nat /\ worker[w].run <= runs /\ runs \in Nat
  BY DEF TypeInv, WorkerState, RunInv
<1>4. ASSUME NEW w \in Worker, Ends(w), worker[w].pc # "up", UNCHANGED <<runs, client>>
      PROVE  RunInv' /\ VerdictIsFresh'
  <2>1. worker'[w].run = 0 /\ \A v \in Worker : v # w => worker'[v] = worker[v]
    BY <1>4 DEF Ends, TypeInv, Down
  <2>2. worker'[w].run <= runs /\ worker' \in [Worker -> WorkerState]
    BY <1>3, <2>1 DEF TypeInv
  <2>3. QED
    BY <1>4, <2>1, <2>2, KeptRuns
<1>5. ASSUME NEW w \in Worker, Load(w)
      PROVE  RunInv' /\ VerdictIsFresh'
  <2>1. worker[w].pc = "down" /\ UNCHANGED <<runs, client>>
    BY <1>5 DEF Load
  <2>2. CASE Ends(w)
    BY <1>4, <2>1, <2>2
  <2>3. CASE ~Ends(w)
    <3>1. worker' = [worker EXCEPT ![w] = [Down EXCEPT !.pc = "starting",
                                                     !.config = FromYaml(file)]]
      BY <1>5, <2>3 DEF Load
    <3>2. worker'[w].run = 0 /\ \A v \in Worker : v # w => worker'[v] = worker[v]
      BY <3>1 DEF TypeInv, Down
    <3>3. worker'[w].run <= runs /\ worker' \in [Worker -> WorkerState]
      BY <1>3, <3>2 DEF TypeInv
    <3>4. QED
      BY <2>1, <3>2, <3>3, KeptRuns
  <2>4. QED
    BY <2>2, <2>3
<1>6. ASSUME NEW w \in Worker, StartKV(w)
      PROVE  RunInv' /\ VerdictIsFresh'
  <2>1. worker[w].pc = "starting" /\ UNCHANGED <<runs, client>>
    BY <1>6 DEF StartKV
  <2>2. CASE Ends(w)
    BY <1>4, <2>1, <2>2
  <2>3. CASE ~Ends(w)
    <3>1. worker'[w].run = worker[w].run /\ \A v \in Worker : v # w => worker'[v] = worker[v]
      BY <1>6, <2>3 DEF StartKV, TypeInv, WorkerState
    <3>2. worker'[w].run <= runs /\ worker' \in [Worker -> WorkerState]
      BY <1>3, <3>1 DEF TypeInv
    <3>3. QED
      BY <2>1, <3>1, <3>2, KeptRuns
  <2>4. QED
    BY <2>2, <2>3
<1>7. ASSUME NEW w \in Worker, StartServer(w)
      PROVE  RunInv' /\ VerdictIsFresh'
  <2>1. worker[w].pc = "starting" /\ UNCHANGED <<runs, client>>
    BY <1>7 DEF StartServer
  <2>2. CASE Ends(w)
    BY <1>4, <2>1, <2>2
  <2>3. CASE ~Ends(w)
    <3>1. worker'[w].run = worker[w].run /\ \A v \in Worker : v # w => worker'[v] = worker[v]
      BY <1>7, <2>3 DEF StartServer, TypeInv, WorkerState
    <3>2. worker'[w].run <= runs /\ worker' \in [Worker -> WorkerState]
      BY <1>3, <3>1 DEF TypeInv
    <3>3. QED
      BY <2>1, <3>1, <3>2, KeptRuns
  <2>4. QED
    BY <2>2, <2>3
<1>8. ASSUME NEW w \in Worker, Stop(w)
      PROVE  RunInv' /\ VerdictIsFresh'
  <2>1. HangsUp(w) /\ UNCHANGED runs
    BY <1>8 DEF Stop
  <2>2. worker'[w].run = worker[w].run /\ \A v \in Worker : v # w => worker'[v] = worker[v]
    BY <1>8 DEF Stop, TypeInv, WorkerState
  <2>3. worker'[w].run <= runs /\ worker' \in [Worker -> WorkerState]
    BY <1>3, <2>2 DEF TypeInv
  <2>4. QED
    BY <2>1, <2>2, <2>3, KeptRuns
<1>9. ASSUME NEW w \in Worker, StopStep(w)
      PROVE  RunInv' /\ VerdictIsFresh'
  <2>1. worker[w].pc = "stopping" /\ UNCHANGED <<runs, client>>
    BY <1>9 DEF StopStep
  <2>2. Head(worker[w].todo) \in {"warmup", "server", "kv"}
    BY <1>9, RestsShrink DEF StopStep, TypeInv, WorkerState
  <2>3. worker'[w].run = worker[w].run /\ \A v \in Worker : v # w => worker'[v] = worker[v]
    BY <1>9, <2>2 DEF StopStep, TypeInv, WorkerState
  <2>4. worker'[w].run <= runs /\ worker' \in [Worker -> WorkerState]
    BY <1>3, <2>3 DEF TypeInv
  <2>5. QED
    BY <2>1, <2>3, <2>4, KeptRuns
<1>10. ASSUME NEW w \in Worker, Exit(w)
       PROVE  RunInv' /\ VerdictIsFresh'
  BY <1>4, <1>10 DEF Exit
<1>11. ASSUME NEW w \in Worker, Kill(w)
       PROVE  RunInv' /\ VerdictIsFresh'
  <2>1. HangsUp(w) /\ UNCHANGED runs
    BY <1>11 DEF Kill
  <2>2. worker'[w].run = 0 /\ \A v \in Worker : v # w => worker'[v] = worker[v]
    BY <1>11 DEF Kill, TypeInv, Down
  <2>3. worker'[w].run <= runs /\ worker' \in [Worker -> WorkerState]
    BY <1>3, <2>2 DEF TypeInv
  <2>4. QED
    BY <2>1, <2>2, <2>3, KeptRuns
<1>12. ASSUME NEW w \in Worker, OtherRun(w)
       PROVE  RunInv' /\ VerdictIsFresh'
  <2>1. StartRun(w) /\ UNCHANGED client
    BY <1>12 DEF OtherRun
  <2>2. client.run \in Nat /\ client.run <= runs
    BY DEF TypeInv, ClientState, RunInv
  <2>3. QED
    BY <1>3, <2>1, <2>2, StartedRuns DEF RunInv, VerdictIsFresh
<1>13. ASSUME NEW w \in Worker, RunEnds(w) \/ CancelRun(w)
       PROVE  RunInv' /\ VerdictIsFresh'
  <2>1. worker'[w].pc = worker[w].pc /\ worker'[w].run = worker[w].run
        /\ \A v \in Worker : v # w => worker'[v] = worker[v]
    BY <1>13 DEF RunEnds, CancelRun, TypeInv, WorkerState
  <2>2. worker'[w].run <= runs /\ worker' \in [Worker -> WorkerState] /\ UNCHANGED <<runs, client>>
    BY <1>3, <1>13, <2>1 DEF TypeInv, RunEnds, CancelRun
  <2>3. QED
    BY <2>1, <2>2, KeptRuns
<1>14. CASE Post
  <2>1. client.pc = "idle" /\ client.verdict = None /\ client.run <= runs
    BY <1>14 DEF Post, RunInv
  <2>2. ASSUME NEW v \in {"unreachable", "refused", "started"}, client' = Verdict(v)
        PROVE  /\ client'.run = client.run /\ client'.pc = "over" /\ client'.verdict = v
               /\ VerdictIsFresh'
    BY <2>2 DEF Verdict, TypeInv, ClientState, VerdictIsFresh
  <2>3. CASE UNCHANGED <<worker, runs>> /\ client' \in {Verdict("unreachable"), Verdict("refused")}
    BY <2>1, <2>2, <2>3 DEF RunInv
  <2>4. ASSUME NEW w \in Worker, StartRun(w), client' = Verdict("started")
        PROVE  RunInv' /\ VerdictIsFresh'
    <3>1. client.run \in Nat
      BY DEF TypeInv, ClientState
    <3>2. QED
      BY <1>3, <2>1, <2>2, <2>4, <3>1, StartedRuns DEF RunInv
  <2>5. ASSUME NEW w \in Worker, StartRun(w),
               client' = [client EXCEPT !.pc = "polling", !.conn = w, !.run = runs + 1]
        PROVE  RunInv' /\ VerdictIsFresh'
    <3>1. client'.pc = "polling" /\ client'.conn = w /\ client'.run = runs + 1
          /\ client'.verdict = None
      BY <2>1, <2>5 DEF TypeInv, ClientState
    <3>2. runs' = runs + 1 /\ worker'[w].pc = "up" /\ worker'[w].run = runs + 1
          /\ \A v \in Worker : worker'[v].run <= runs'
      BY <2>5, StartedRuns
    <3>3. QED
      BY <1>3, <3>1, <3>2, LifecycleAssumption DEF RunInv, VerdictIsFresh
  <2>6. QED
    BY <1>14, <2>3, <2>4, <2>5 DEF Post
<1>15. CASE Disconnect
  <2>1. client' = [client EXCEPT !.conn = None, !.dropped = TRUE] /\ UNCHANGED <<worker, runs>>
    BY <1>15 DEF Disconnect
  <2>2. client'.dropped /\ client'.pc = client.pc /\ client'.run = client.run
        /\ client'.verdict = client.verdict
    BY <2>1 DEF TypeInv, ClientState
  <2>3. QED
    BY <2>1, <2>2 DEF RunInv, VerdictIsFresh
<1>16. CASE Poll
  <2>1. client.pc = "polling" /\ client.verdict = None /\ UNCHANGED <<worker, runs>>
        /\ client.run <= runs
    BY <1>16 DEF Poll, RunInv
  <2>2. CASE client' = Verdict("unreachable")
    BY <2>1, <2>2 DEF Verdict, RunInv, VerdictIsFresh, TypeInv, ClientState
  <2>3. ASSUME NEW w \in Worker, worker[w].pc = "up", client.conn \in {w, None},
               client' = [client EXCEPT !.conn = w]
        PROVE  RunInv' /\ VerdictIsFresh'
    <3>1. client'.conn = w /\ client'.pc = client.pc /\ client'.run = client.run
          /\ client'.verdict = client.verdict /\ client'.dropped = client.dropped
      BY <2>3 DEF TypeInv, ClientState
    <3>2. ~client.dropped => client.conn = w /\ worker[w].run >= client.run
      BY <2>1, <2>3, LifecycleAssumption DEF RunInv
    <3>3. QED
      BY <2>1, <2>3, <3>1, <3>2, LifecycleAssumption DEF RunInv, VerdictIsFresh
  <2>4. ASSUME NEW w \in Worker, worker[w].pc = "up", client.conn \in {w, None},
               client' = [Verdict(worker[w].warmup) EXCEPT !.conn = w, !.seen = worker[w].run]
        PROVE  RunInv' /\ VerdictIsFresh'
    <3>1. client'.pc = "over" /\ client'.run = client.run /\ client'.dropped = client.dropped
          /\ client'.seen = worker[w].run
      BY <2>4 DEF Verdict, TypeInv, ClientState
    <3>2. ~client.dropped => worker[w].run >= client.run
      BY <2>1, <2>4, LifecycleAssumption DEF RunInv
    <3>3. QED
      BY <2>1, <3>1, <3>2 DEF RunInv, VerdictIsFresh
  <2>5. QED
    BY <1>16, <2>2, <2>3, <2>4 DEF Poll
<1>17. QED
  BY <1>2, <1>5, <1>6, <1>7, <1>8, <1>9, <1>10, <1>11, <1>12, <1>13, <1>14, <1>15, <1>16
     DEF Next, WorkerStep

-----------------------------------------------------------------------------
(* Theorems *)

LEMMA Invariance == Spec => []IInv
<1>1. IInv /\ [Next]_vars => IInv'
  BY NextTyped, NextServes, NextStacks, NextRuns DEF IInv
<1>2. QED
  BY <1>1, InitEstablishes, PTL DEF Spec

\* Every worker of serve (cli/main.py), however often it is replaced, serves the
\* configuration that was resolved and finds it again, for any calls of serve.
THEOREM Configured == Spec => []WorkersServeResolvedConfig
<1>1. IInv => WorkersServeResolvedConfig
  BY DEF IInv, ServeInv, WorkersServeResolvedConfig
<1>2. QED
  BY <1>1, Invariance, PTL

\* No worker's server and no run of its warmup controller outlives its KV stack
\* (servers/app.py:100), for any number of workers and runs, faults and restarts.
THEOREM StackOutlives == Spec => []KvOutlivesItsUsers
<1>1. ASSUME IInv, NEW w \in Worker,
             \/ worker[w].server /\ worker[w].config.server_type # "proxy"
             \/ worker[w].warmup = "running"
      PROVE  worker[w].kv = "open"
  <2>1. worker[w] \in WorkerState /\ Stacked(worker[w])
    BY <1>1 DEF IInv, TypeInv, StackInv
  <2>2. QED
    BY <1>1, <2>1, RestsDiffer DEF Stacked, WorkerState, Rests
<1>2. IInv => KvOutlivesItsUsers
  BY <1>1 DEF KvOutlivesItsUsers
<1>3. QED
  BY <1>2, Invariance, PTL

\* `kvbench warmup` says "complete" of a run that is no older than its own, for
\* any number of workers, clients and runs.
THEOREM Fresh == Spec => []VerdictIsFresh
<1>1. IInv => VerdictIsFresh
  BY DEF IInv
<1>2. QED
  BY <1>1, Invariance, PTL

=============================================================================
