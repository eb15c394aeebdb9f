------------------------------- MODULE Proxy --------------------------------
(***************************************************************************)
(* The disaggregated proxy (servers/proxy.py): every request is prefilled  *)
(* at one endpoint and decoded at another, each chosen by the strategy of  *)
(* the deployment.                                                         *)
(*                                                                         *)
(* A request is a coroutine, a stream two nested asynchronous generators.  *)
(* An action is what happens between two awaits or yields.  Nothing in the *)
(* program marks an endpoint unhealthy, so the healthy endpoints are those *)
(* of the deployment; the simulated calls do not raise.                    *)
(***************************************************************************)
EXTENDS Integers, Sequences, FiniteSets

CONSTANTS
    Requests,       \* requests, each sent once
    Deployments,    \* numbers of endpoints and strategies
    MaxTokens,      \* max_tokens
    Disconnecting   \* whether a client may leave its stream

Phases == {"prefill", "decode"}

Strategies == {"round_robin", "least_connections", "random"}

ASSUME ProxyAssumption ==
    /\ IsFiniteSet(Requests)
    /\ Deployments \subseteq [prefill: Nat, decode: Nat, strategy: Strategies]
    /\ MaxTokens \in Nat \ {0}
    /\ Disconnecting \in BOOLEAN

VARIABLES
    deployment,  \* endpoints of each phase and strategy: fixed at start
    index,       \* _prefill_index, _decode_index
    active,      \* active_connections of each endpoint
    served,      \* total_requests of each endpoint
    stats,       \* ProxyStats
    req          \* the coroutine of each request

vars == <<deployment, index, active, served, stats, req>>

\* An endpoint is its phase and its place in the list, from 1.
Endpoints == UNION {{p} \X (1..deployment[p]) : p \in Phases}

Init ==
    /\ deployment \in Deployments
    /\ index = [p \in Phases |-> 0]
    /\ active = [e \in Endpoints |-> 0]
    /\ served = [e \in Endpoints |-> 0]
    /\ stats = [total |-> 0, success |-> 0, failed |-> 0, prefill |-> 0, decode |-> 0]
    /\ req = [r \in Requests |-> [pc |-> "idle", stream |-> FALSE, prefill |-> 0,
                                  decode |-> 0, generated |-> 0, out |-> <<>>]]

-----------------------------------------------------------------------------
(* Selection and connections *)

\* Endpoints of phase p the strategy may select, none if there is none.
Selectable(p) ==
    {i \in 1..deployment[p] :
        /\ deployment.strategy = "round_robin" => i = (index[p] % deployment[p]) + 1
        /\ deployment.strategy = "least_connections" =>
              \A j \in 1..deployment[p] :
                 \/ active[<<p, i>>] < active[<<p, j>>]
                 \/ active[<<p, i>>] = active[<<p, j>>] /\ i <= j}

\* Slip: both phases count their turns with the same index.
Turn_Shared(p) ==
    index' = IF deployment.strategy = "round_robin"
             THEN [q \in Phases |-> index[q] + 1] ELSE index

Turn(p) ==
    index' = IF deployment.strategy = "round_robin"
             THEN [index EXCEPT ![p] = @ + 1] ELSE index

Opened(conns, p, i) == [conns EXCEPT ![<<p, i>>] = @ + 1]

Closed(conns, p, i) == [conns EXCEPT ![<<p, i>>] = @ - 1]

\* A stream sends an event.
Yield(q, event) == IF q.stream THEN [q EXCEPT !.out = Append(@, event)] ELSE q

-----------------------------------------------------------------------------
(* chat_completions and chat_completions_stream *)

\* The failure of a stream is counted when it resumes after the error event.
Refused(q) == IF q.stream THEN [Yield(q, "error") EXCEPT !.pc = "refused"]
              ELSE [q EXCEPT !.pc = "failed"]

\* Slip: the failure of a stream is counted before its error event, too.
Failures_Both(q) == 1

Failures(q) == IF q.stream THEN 0 ELSE 1

Arrive(r, stream) ==
    LET q == [req[r] EXCEPT !.stream = stream]
    IN  /\ req[r].pc = "idle"
        /\ \/ /\ Selectable("prefill") = {}
              /\ req' = [req EXCEPT ![r] = Refused(q)]
              /\ stats' = [stats EXCEPT !.total = @ + 1, !.failed = @ + Failures(q)]
              /\ UNCHANGED <<index, active>>
           \/ \E i \in Selectable("prefill") :
                 /\ Turn("prefill")
                 /\ active' = Opened(active, "prefill", i)
                 /\ req' = [req EXCEPT ![r] = [q EXCEPT !.pc = "prefill", !.prefill = i]]
                 /\ stats' = [stats EXCEPT !.total = @ + 1]
        /\ UNCHANGED <<deployment, served>>

\* The decode endpoint is selected at once.  A plain request connects to it, a
\* stream first sends the role event.
PrefillEnds(r) ==
    LET q == req[r]
        at == <<"prefill", q.prefill>>
        freed == Closed(active, "prefill", q.prefill)
    IN  /\ q.pc = "prefill"
        /\ served' = [served EXCEPT ![at] = @ + 1]
        /\ \/ /\ Selectable("decode") = {}
              /\ active' = freed
              /\ req' = [req EXCEPT ![r] = Refused(q)]
              /\ stats' = [stats EXCEPT !.prefill = @ + 1, !.failed = @ + Failures(q)]
              /\ UNCHANGED index
           \/ \E i \in Selectable("decode") :
                 /\ Turn("decode")
                 /\ active' = IF q.stream THEN freed ELSE Opened(freed, "decode", i)
                 /\ req' = [req EXCEPT ![r] =
                              [Yield(q, "role") EXCEPT !.pc = IF q.stream THEN "role" ELSE "decode",
                                                       !.decode = i]]
                 /\ stats' = [stats EXCEPT !.prefill = @ + 1]
        /\ UNCHANGED deployment

\* Slip: no return after the error event: the next line raises, and the handler
\* of exceptions sends an error of its own.
RefusalCounted_NoReturn(r) ==
    /\ req[r].pc = "refused"
    /\ req' = [req EXCEPT ![r] = [Yield(@, "error") EXCEPT !.pc = "failed"]]
    /\ stats' = [stats EXCEPT !.failed = @ + 2]
    /\ UNCHANGED <<deployment, index, active, served>>

RefusalCounted(r) ==
    /\ req[r].pc = "refused"
    /\ req' = [req EXCEPT ![r].pc = "failed"]
    /\ stats' = [stats EXCEPT !.failed = @ + 1]
    /\ UNCHANGED <<deployment, index, active, served>>

\* The client took the role event: the inner generator starts and connects.
StreamOpens(r) ==
    /\ req[r].pc = "role"
    /\ active' = Opened(active, "decode", req[r].decode)
    /\ req' = [req EXCEPT ![r].pc = "decode"]
    /\ UNCHANGED <<deployment, index, served, stats>>

\* A token's sleep is over: a stream yields it through both generators.
Token(r) ==
    LET q == req[r]
    IN  /\ q.pc = "decode"
        /\ q.generated < MaxTokens
        /\ req' = [req EXCEPT ![r] =
                     [Yield(q, "content") EXCEPT !.generated = q.generated + 1,
                                                 !.pc = IF q.stream THEN "content" ELSE "decode"]]
        /\ UNCHANGED <<deployment, index, active, served, stats>>

\* The stream resumes after a token that is not its last.
NextToken(r) ==
    /\ req[r].pc = "content"
    /\ req[r].generated < MaxTokens
    /\ req' = [req EXCEPT ![r].pc = "decode"]
    /\ UNCHANGED <<deployment, index, active, served, stats>>

\* Slip: the connection is closed where a plain request ends only.
DecodeEnds_Leaks(r) ==
    LET q == req[r]
    IN  /\ q.pc = IF q.stream THEN "content" ELSE "decode"
        /\ q.generated = MaxTokens
        /\ active' = IF q.stream THEN active ELSE Closed(active, "decode", q.decode)
        /\ served' = [served EXCEPT ![<<"decode", q.decode>>] = @ + 1]
        /\ req' = [req EXCEPT ![r] = [Yield(q, "end") EXCEPT !.pc = IF q.stream THEN "end" ELSE "ok"]]
        /\ stats' = [stats EXCEPT !.decode = @ + 1,
                                  !.success = @ + (IF q.stream THEN 0 ELSE 1)]
        /\ UNCHANGED <<deployment, index>>

\* Decoding is over: a plain request has succeeded, a stream sends its end.
DecodeEnds(r) ==
    LET q == req[r]
    IN  /\ q.pc = IF q.stream THEN "content" ELSE "decode"
        /\ q.generated = MaxTokens
        /\ active' = Closed(active, "decode", q.decode)
        /\ served' = [served EXCEPT ![<<"decode", q.decode>>] = @ + 1]
        /\ req' = [req EXCEPT ![r] = [Yield(q, "end") EXCEPT !.pc = IF q.stream THEN "end" ELSE "ok"]]
        /\ stats' = [stats EXCEPT !.decode = @ + 1,
                                  !.success = @ + (IF q.stream THEN 0 ELSE 1)]
        /\ UNCHANGED <<deployment, index>>

SendDone(r) ==
    /\ req[r].pc = "end"
    /\ req' = [req EXCEPT ![r] = [Yield(@, "done") EXCEPT !.pc = "done"]]
    /\ UNCHANGED <<deployment, index, active, served, stats>>

StreamSucceeds(r) ==
    /\ req[r].pc = "done"
    /\ req' = [req EXCEPT ![r].pc = "ok"]
    /\ stats' = [stats EXCEPT !.success = @ + 1]
    /\ UNCHANGED <<deployment, index, active, served>>

\* The client of a stream leaves.  CancelledError at a sleep runs the finally
\* that closes the connection; at the yield of a token the generators are left
\* suspended.  Nothing is counted.
Disconnect(r) ==
    LET q == req[r]
    IN  /\ Disconnecting
        /\ q.stream
        /\ \/ /\ q.pc \in Phases
              /\ active' = Closed(active, q.pc, q[q.pc])
              /\ req' = [req EXCEPT ![r].pc = "gone"]
           \/ /\ q.pc \in {"refused", "role", "end", "done"}
              /\ req' = [req EXCEPT ![r].pc = "gone"]
              /\ UNCHANGED active
           \/ /\ q.pc = "content"
              /\ req' = [req EXCEPT ![r].pc = "dropped"]
              /\ UNCHANGED active
        /\ UNCHANGED <<deployment, index, served, stats>>

\* Slip: the inner generator closes its connection after its loop, not in finally.
Finalize_NoFinally(r) ==
    /\ req[r].pc = "dropped"
    /\ req' = [req EXCEPT ![r].pc = "gone"]
    /\ UNCHANGED <<deployment, index, active, served, stats>>

\* The event loop closes generators nobody refers to (its asyncgen hooks): the
\* inner one gets GeneratorExit at its yield and runs its finally.
Finalize(r) ==
    /\ req[r].pc = "dropped"
    /\ active' = Closed(active, "decode", req[r].decode)
    /\ req' = [req EXCEPT ![r].pc = "gone"]
    /\ UNCHANGED <<deployment, index, served, stats>>

-----------------------------------------------------------------------------

Handle(r) ==
    \/ PrefillEnds(r)
    \/ RefusalCounted(r)
    \/ StreamOpens(r)
    \/ Token(r)
    \/ NextToken(r)
    \/ DecodeEnds(r)
    \/ SendDone(r)
    \/ StreamSucceeds(r)
    \/ Finalize(r)

Next ==
    \E r \in Requests :
        \/ \E stream \in BOOLEAN : Arrive(r, stream)
        \/ Handle(r)
        \/ Disconnect(r)

Spec == Init /\ [][Next]_vars

\* Sleeps end, events are sent and the loop finalizes dropped generators.
FairSpec == Spec /\ \A r \in Requests : WF_vars(Handle(r))

-----------------------------------------------------------------------------
(* Properties *)

Ended == {"ok", "failed", "gone"}

TypeOK ==
    /\ deployment \in Deployments
    /\ index \in [Phases -> Nat]
    /\ active \in [Endpoints -> Nat]
    /\ served \in [Endpoints -> Nat]
    /\ stats \in [{"total", "success", "failed", "prefill", "decode"} -> Nat]
    /\ \A r \in Requests :
          /\ req[r].pc \in {"idle", "prefill", "refused", "role", "decode", "content",
                            "end", "done", "dropped"} \cup Ended
          /\ req[r].stream \in BOOLEAN
          /\ \A p \in Phases : req[r][p] \in 0..deployment[p]
          /\ req[r].generated \in 0..MaxTokens

\* Requests connected to endpoint e.
Connected(e) ==
    {r \in Requests : /\ req[r].pc \in (IF e[1] = "prefill" THEN {"prefill"}
                                        ELSE {"decode", "content", "dropped"})
                      /\ req[r][e[1]] = e[2]}

\* active_connections is the number of requests at an endpoint, at every
\* moment: whichever way a request leaves, its connection is closed once.
ConnectionsCounted == \A e \in Endpoints : active[e] = Cardinality(Connected(e))

\* Requests for which endpoint e was selected.
Assigned(e) == {r \in Requests : req[r][e[1]] = e[2]}

\* Round robin spreads the requests evenly over the endpoints of each phase,
\* whatever their arrival, their duration and their clients do.
RoundRobinBalanced ==
    deployment.strategy = "round_robin" =>
        \A p \in Phases : \A i, j \in 1..deployment[p] :
            Cardinality(Assigned(<<p, i>>)) <= Cardinality(Assigned(<<p, j>>)) + 1

\* The requests served at the endpoints of phase p: one for each the endpoints count.
ServedBy(p) == UNION {{<<p, i>>} \X (1..served[<<p, i>>]) : i \in 1..deployment[p]}

\* Every request is counted once as a success or a failure, unless it is still
\* being handled or its client left it; the phases it went through are counted
\* at the proxy and at exactly one endpoint each.
PhasesAccounted ==
    /\ stats.total = stats.success + stats.failed +
          Cardinality({r \in Requests : req[r].pc \notin {"idle", "ok", "failed"}})
    /\ \A p \in Phases : stats[p] = Cardinality(ServedBy(p))
    /\ stats.success <= stats.decode
    /\ stats.decode <= stats.prefill

\* No connection is held for ever: once requests stop arriving none is left,
\* those of streams whose clients left included.
ConnectionsReturned ==
    (\E e \in Endpoints : active[e] > 0) ~> (\A e \in Endpoints : active[e] = 0)

\* Every stream is one that ChatStream allows.
Streams == INSTANCE ChatStream
               WITH out <- [r \in Requests |-> req[r].out],
                    over <- [r \in Requests |-> req[r].pc \in Ended \cup {"refused", "dropped"}]

ImplementsChatStream == Streams!Spec

=============================================================================
