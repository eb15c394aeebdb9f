----------------------------- MODULE Lifecycle ------------------------------
(***************************************************************************)
(* `kvbench serve` and its worker processes, and `kvbench warmup` that     *)
(* talks to them (cli/main.py, core/config.py, servers/app.py).            *)
(*                                                                         *)
(* serve resolves the configuration, writes it to a temporary file, names  *)
(* the file in KVBENCH_CONFIG_FILE and runs uvicorn, whose workers load    *)
(* the file, start the KV stack and the server, and stop them in turn.     *)
(* With several workers, or with --reload, a supervisor replaces a worker  *)
(* that ended; otherwise the one worker is the process of serve itself.    *)
(* The file is removed when uvicorn returns.                               *)
(*                                                                         *)
(* Of a configuration two settings are kept: the server type, which a flag *)
(* can give, and the KV stack.  A source of settings maps each one to a    *)
(* value, to None if it does not give it, or to Bad if validation rejects  *)
(* the value.                                                              *)
(***************************************************************************)
EXTENDS Naturals, Sequences, FiniteSets

CONSTANTS
    Worker,     \* worker processes there can be
    Scenarios,  \* how serve is called: [flags, file, env, workers, reload]
    MaxRuns,    \* bound: warmup runs of all clients
    MaxStarts,  \* bound: workers started
    None, Bad,  \* setting not given, setting not valid
    Empty       \* content of a file nothing is written to

Settings == {"server_type", "stack"}
Source == [Settings -> {"combined", "proxy", "lmcache", "kvbm", None, Bad}]

ASSUME LifecycleAssumption ==
    /\ \A s \in Scenarios :
           /\ {s.flags, s.env} \subseteq Source
           /\ s.file \in Source \cup {None}
           /\ s.workers \in (SUBSET Worker) \ {{}}
           /\ s.reload \in BOOLEAN
    /\ IsFiniteSet(Worker)
    /\ None \notin Worker
    /\ None # "done"
    /\ Empty \notin Source
    /\ {MaxRuns, MaxStarts} \subseteq Nat

VARIABLES
    call,       \* the call of serve, one of Scenarios
    serve,      \* where serve is
    resolved,   \* configuration serve resolved
    file,       \* the temporary file: None, Empty or the configuration in it
    worker,     \* the worker processes
    starts,     \* workers started
    runs,       \* warmup runs started, by anyone
    client      \* kvbench warmup

serveVars == <<call, serve, resolved, file>>
vars == <<call, serve, resolved, file, worker, starts, runs, client>>

-----------------------------------------------------------------------------
(* Configuration *)

Defaults == [server_type |-> "combined", stack |-> "lmcache"]

Over(source, base) ==
    [s \in Settings |-> IF source[s] = None THEN base[s] ELSE source[s]]

Valid(config) == \A s \in Settings : config[s] # Bad

\* The file if one is given, else the environment; the rest are defaults.
Base(c) == IF c.file # None THEN Over(c.file, Defaults) ELSE Over(c.env, Defaults)

\* What a worker that loads the temporary file serves: an empty file is valid and
\* gives the defaults.
FromYaml(content) == IF content = Empty THEN Defaults ELSE content

-----------------------------------------------------------------------------
(* Processes *)

Down == [pc |-> "down", config |-> None, kv |-> "none", server |-> FALSE,
         warmup |-> "none", run |-> 0, todo |-> <<>>]

Away == [pc |-> "idle", conn |-> None, dropped |-> FALSE, run |-> 0, seen |-> 0,
         verdict |-> None]

Init ==
    /\ call \in Scenarios
    /\ serve = "resolving"
    /\ resolved = None
    /\ file = None
    /\ worker = [w \in Worker |-> Down]
    /\ starts = 0
    /\ runs = 0
    /\ client = Away

Supervised == Cardinality(call.workers) > 1 \/ call.reload

Processes == IF call.reload THEN {CHOOSE w \in call.workers : TRUE} ELSE call.workers

\* Worker w takes its connections with it: the command will need another one.
HangsUp(w) ==
    client' = IF client.conn = w THEN [client EXCEPT !.conn = None, !.dropped = TRUE] ELSE client

\* A worker whose process ended: the supervisor replaces it, or serve ends with it.
Ends(w) ==
    /\ worker' = [worker EXCEPT ![w] = Down]
    /\ serve' = IF Supervised THEN serve ELSE "stopping"
    /\ UNCHANGED <<call, resolved, file>>

-----------------------------------------------------------------------------
(* serve *)

\* The base configuration is validated on its own, and again with the flags.
Resolve ==
    LET config == Over(call.flags, Base(call))
    IN  /\ serve = "resolving"
        /\ \/ /\ ~(Valid(Base(call)) /\ Valid(config))
              /\ serve' = "failed"
              /\ UNCHANGED resolved
           \/ /\ Valid(Base(call)) /\ Valid(config)
              /\ serve' = "writing"
              /\ resolved' = config
        /\ UNCHANGED <<call, file, worker, starts, runs, client>>

CreateFile ==
    /\ serve = "writing"
    /\ file = None
    /\ file' = Empty
    /\ UNCHANGED <<call, serve, resolved, worker, starts, runs, client>>

\* Slip: workers are started before the file is written.
WriteFile_Late ==
    /\ serve = "writing"
    /\ file = Empty
    /\ serve' = "serving"
    /\ UNCHANGED <<call, resolved, file, worker, starts, runs, client>>

\* The configuration is dumped into the file; a failure leaves the file behind.
WriteFile ==
    /\ serve = "writing"
    /\ file = Empty
    /\ \/ file' = resolved /\ serve' = "serving"
       \/ file' = file /\ serve' = "failed"
    /\ UNCHANGED <<call, resolved, worker, starts, runs, client>>

\* Ctrl-C or SIGTERM.
Signal ==
    /\ serve = "serving"
    /\ serve' = "stopping"
    /\ UNCHANGED <<call, resolved, file, worker, starts, runs, client>>

\* Slip: the file is left where it is.
Unlink_Kept ==
    /\ serve = "stopping"
    /\ \A w \in Worker : worker[w].pc = "down"
    /\ serve' = "done"
    /\ UNCHANGED <<call, resolved, file, worker, starts, runs, client>>

\* uvicorn returns when its workers are down; then the file is removed.
Unlink ==
    /\ serve = "stopping"
    /\ \A w \in Worker : worker[w].pc = "down"
    /\ file' = None
    /\ serve' = "done"
    /\ UNCHANGED <<call, resolved, worker, starts, runs, client>>

-----------------------------------------------------------------------------
(* Workers *)

\* A worker starts: get_app loads the configuration the environment names, or
\* raises if something it points to is gone.
Load(w) ==
    /\ serve = "serving"
    /\ w \in Processes
    /\ worker[w].pc = "down"
    /\ starts < MaxStarts
    /\ starts' = starts + 1
    /\ \/ /\ file # None
          /\ worker' = [worker EXCEPT ![w] = [Down EXCEPT !.pc = "starting",
                                                          !.config = FromYaml(file)]]
          /\ UNCHANGED serveVars
       \/ Ends(w)
    /\ UNCHANGED <<runs, client>>

\* _startup: the KV stack, unless this is a proxy.  The stack "kvbm" is refused,
\* and starting the other one may fail; then nothing is shut down.
StartKV(w) ==
    /\ worker[w].pc = "starting"
    /\ worker[w].kv = "none"
    /\ worker[w].config.server_type # "proxy"
    /\ \/ /\ worker[w].config.stack = "lmcache"
          /\ worker' = [worker EXCEPT ![w].kv = "open", ![w].warmup = "idle"]
          /\ UNCHANGED serveVars
       \/ Ends(w)
    /\ UNCHANGED <<starts, runs, client>>

\* _startup: the server; the worker accepts requests from now on.  create_server
\* may raise (an anchors file that is not there); then the stack that is open is
\* not closed, the process just ends.
StartServer(w) ==
    /\ worker[w].pc = "starting"
    /\ worker[w].config.server_type = "proxy" \/ worker[w].kv = "open"
    /\ \/ /\ worker' = [worker EXCEPT ![w].pc = "up", ![w].server = TRUE]
          /\ UNCHANGED serveVars
       \/ Ends(w)
    /\ UNCHANGED <<starts, runs, client>>

\* Slip: the stack is closed first.
Shutdown_StackFirst == <<"kv", "warmup", "server">>

\* _shutdown, in this order.
Shutdown == <<"warmup", "server", "kv">>

\* A worker is told to stop, with serve or to be reloaded; it accepts no more
\* requests.
Stop(w) ==
    /\ worker[w].pc = "up"
    /\ serve = "stopping" \/ call.reload
    /\ worker' = [worker EXCEPT ![w].pc = "stopping", ![w].todo = Shutdown]
    /\ HangsUp(w)
    /\ UNCHANGED <<serveVars, starts, runs>>

\* The next step of _shutdown; after the last one the process ends.  Closing the
\* stack may raise, which ends it as well.
StopStep(w) ==
    LET step == Head(worker[w].todo)
        rest == [worker[w] EXCEPT !.todo = Tail(@)]
    IN  /\ worker[w].pc = "stopping"
        /\ worker[w].todo # <<>>
        /\ worker' = [worker EXCEPT ![w] =
               CASE step = "warmup" ->
                        [rest EXCEPT !.warmup = IF @ = "running" THEN "cancelled" ELSE @]
                 [] step = "server" -> [rest EXCEPT !.server = FALSE]
                 [] step = "kv" -> [rest EXCEPT !.kv = IF @ = "open" THEN "closed" ELSE @]]
        /\ UNCHANGED <<serveVars, starts, runs, client>>

Exit(w) ==
    /\ worker[w].pc = "stopping"
    /\ worker[w].todo \in {<<>>, <<"kv">>}
    /\ Ends(w)
    /\ UNCHANGED <<starts, runs, client>>

\* A process is killed; if there is no supervisor it is that of serve.
Kill(w) ==
    /\ worker[w].pc # "down"
    /\ worker' = [worker EXCEPT ![w] = Down]
    /\ serve' = IF Supervised THEN serve ELSE "killed"
    /\ HangsUp(w)
    /\ UNCHANGED <<call, resolved, file, starts, runs>>

-----------------------------------------------------------------------------
(* Warmup runs *)

\* Slip: the status of the last run stays until the task has begun.
StartRun_StaleStatus(w) ==
    /\ worker[w].pc = "up"
    /\ worker[w].warmup \notin {"none", "running"}
    /\ runs < MaxRuns
    /\ runs' = runs + 1
    /\ worker' = [worker EXCEPT ![w].warmup = IF @ = "idle" THEN "running" ELSE @]

\* WarmupController.start in worker w: the next run, if none is on.
StartRun(w) ==
    /\ worker[w].pc = "up"
    /\ worker[w].warmup \notin {"none", "running"}
    /\ runs < MaxRuns
    /\ runs' = runs + 1
    /\ worker' = [worker EXCEPT ![w].warmup = "running", ![w].run = runs + 1]

\* Another client starts a run.
OtherRun(w) ==
    /\ StartRun(w)
    /\ UNCHANGED <<serveVars, starts, client>>

RunEnds(w) ==
    /\ worker[w].warmup = "running"
    /\ \E outcome \in {"done", "error"} : worker' = [worker EXCEPT ![w].warmup = outcome]
    /\ UNCHANGED <<serveVars, starts, runs, client>>

\* DELETE /kvbench/warmup: a client cancels the run of worker w; it does nothing if
\* none is on.  (What happens while the cancellation is awaited is in Warmup.)
CancelRun(w) ==
    /\ worker[w].pc = "up"
    /\ worker[w].warmup = "running"
    /\ worker' = [worker EXCEPT ![w].warmup = "cancelled"]
    /\ UNCHANGED <<serveVars, starts, runs, client>>

-----------------------------------------------------------------------------
(* kvbench warmup *)

Verdict(verdict) == [client EXCEPT !.pc = "over", !.verdict = verdict]

\* The POST: no server, no stack (404) and a run that is on (409) end the command;
\* otherwise it has started a run, and waits for it unless --no-wait is given.
Post ==
    /\ client.pc = "idle"
    /\ \/ /\ \A w \in Worker : worker[w].pc # "up"
          /\ client' = Verdict("unreachable")
          /\ UNCHANGED <<worker, runs>>
       \/ \E w \in Worker :
              /\ worker[w].pc = "up"
              /\ \/ /\ worker[w].warmup \in {"none", "running"}
                    /\ client' = Verdict("refused")
                    /\ UNCHANGED <<worker, runs>>
                 \/ /\ StartRun(w)
                    /\ client' \in {[client EXCEPT !.pc = "polling", !.conn = w, !.run = runs + 1],
                                   Verdict("started")}
    /\ UNCHANGED <<serveVars, starts>>

\* The connection is kept alive between polls, unless it idles for too long or the
\* worker goes.
Disconnect ==
    /\ client.pc = "polling"
    /\ client.conn # None
    /\ client' = [client EXCEPT !.conn = None, !.dropped = TRUE]
    /\ UNCHANGED <<serveVars, worker, starts, runs>>

\* Slip: the command waits for "done".
Poll_UntilDone ==
    /\ client.pc = "polling"
    /\ \/ \E w \in Worker :
              /\ worker[w].pc = "up"
              /\ client.conn \in {w, None}
              /\ client' = IF worker[w].warmup # "done" THEN [client EXCEPT !.conn = w]
                           ELSE [Verdict("done") EXCEPT !.conn = w, !.seen = worker[w].run]
       \/ /\ \A w \in Worker : client.conn \in {w, None} => worker[w].pc # "up"
          /\ client' = Verdict("unreachable")
    /\ UNCHANGED <<serveVars, worker, starts, runs>>

\* A poll, on the connection if there is one and else to any worker: the command
\* ends with the first status that is not "running".
Poll ==
    /\ client.pc = "polling"
    /\ \/ \E w \in Worker :
              /\ worker[w].pc = "up"
              /\ client.conn \in {w, None}
              /\ client' = IF worker[w].warmup = "running" THEN [client EXCEPT !.conn = w]
                           ELSE [Verdict(worker[w].warmup) EXCEPT !.conn = w,
                                                                  !.seen = worker[w].run]
       \/ /\ \A w \in Worker : client.conn \in {w, None} => worker[w].pc # "up"
          /\ client' = Verdict("unreachable")
    /\ UNCHANGED <<serveVars, worker, starts, runs>>

-----------------------------------------------------------------------------

WorkerStep(w) ==
    StartKV(w) \/ StartServer(w) \/ StopStep(w) \/ Exit(w) \/ RunEnds(w)

Next ==
    \/ Resolve \/ CreateFile \/ WriteFile \/ Signal \/ Unlink
    \/ \E w \in Worker :
           \/ Load(w) \/ WorkerStep(w) \/ Stop(w) \/ Kill(w)
           \/ OtherRun(w) \/ CancelRun(w)
    \/ Post \/ Disconnect \/ Poll

\* serve and its workers go on, a worker whose serve is stopping is told so, runs
\* end, and the command polls as long as it waits.  Nothing makes anyone stop
\* serve, kill or start a process, start a run or cancel it.
Fairness ==
    /\ WF_vars(Resolve) /\ WF_vars(CreateFile) /\ WF_vars(WriteFile) /\ WF_vars(Unlink)
    /\ \A w \in Worker : WF_vars(WorkerStep(w)) /\ WF_vars(serve = "stopping" /\ Stop(w))
    /\ WF_vars(Poll)

Spec == Init /\ [][Next]_vars /\ Fairness

-----------------------------------------------------------------------------
(* Properties *)

\* Every worker, one that replaces another included, serves the configuration
\* that serve resolved, and finds it again whenever it is restarted: neither an
\* empty file, which would silently give the defaults, nor none.
WorkersServeResolvedConfig ==
    \A w \in Worker :
        worker[w].pc # "down" => worker[w].config = resolved /\ file = resolved

\* The server and the run of the warmup controller stop before the KV stack is
\* closed: while either is on, the stack of that worker is open.  (Store threads that
\* a cancelled run leaves behind, and workers that a failed one does, are not the
\* controller's any more and may outlive the stack: they are in LMCacheStack and in
\* Warmup.)
KvOutlivesItsUsers ==
    \A w \in Worker :
        \/ worker[w].server /\ worker[w].config.server_type # "proxy"
        \/ worker[w].warmup = "running"
        => worker[w].kv = "open"

\* "Warmup complete" is said of a run that is no older than the one the command
\* started, as long as its connection lasts (a later one may reach a worker with
\* a controller of its own).
VerdictIsFresh ==
    client.verdict = "done" /\ ~client.dropped => client.seen >= client.run

\* Once serve is told to stop, its workers go down in order and nothing of the
\* configuration file is left, unless the process is killed on the way.
StopCleansUp ==
    serve = "stopping" ~> serve = "killed" \/ (serve = "done" /\ file = None)

\* The warmup command does not wait for ever, whatever becomes of the workers, if
\* others do not keep starting runs.
ClientEnds == client.pc = "polling" ~> client.pc = "over"

=============================================================================
