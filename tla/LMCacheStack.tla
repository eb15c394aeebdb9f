---------------------------- MODULE LMCacheStack ----------------------------
(***************************************************************************)
(* LMCacheStack (kv/lmcache_stack.py): the KV stack built on LMCache, with *)
(* one engine per tensor-parallel rank.  The owner starts and closes it,   *)
(* callers look up, store and retrieve; every engine call runs in a thread *)
(* of its own and the stack gathers the threads of a call.                 *)
(*                                                                         *)
(* A document is a prompt of DocLen chunks.  An engine holds a set of      *)
(* chunks and hits on the longest prefix it holds (LMCache, external).     *)
(***************************************************************************)
EXTENDS Integers, Sequences, FiniteSets

CONSTANTS
    Callers,       \* coroutines that use the stack
    Docs,          \* prompts
    DocLen,        \* chunks of a prompt
    Deployments,   \* ranks, calls of start(), and what may go wrong there
    TraceFile,     \* whether a trace file is configured
    Faulty,        \* whether an engine call may raise
    Cancelling,    \* whether the coroutine of a call may be cancelled
    MaxCalls       \* bound: calls of lookup, store and retrieve

ASSUME StackAssumption ==
    /\ DocLen \in Nat \ {0}
    /\ MaxCalls \in Nat
    /\ {TraceFile, Faulty, Cancelling} \subseteq BOOLEAN
    /\ Deployments \subseteq [tp: Nat \ {0}, starts: Nat, start_fails: BOOLEAN, evicts: BOOLEAN]

VARIABLES
    deployment,  \* tp_size, a bound on calls of start(), whether the builder may raise,
                 \* whether an engine may drop a chunk: fixed
    owner,     \* where the owner's start() or close() stands
    registry,  \* LMCacheEngineBuilder: the engine of each instance name
    opened,    \* engines that are running
    created,   \* number of engines ever created
    engines,   \* self._engines
    engine,    \* self._engine (0: None)
    recorders, \* trace recorders with an open file; self._trace_recorder is the last
    held,      \* chunks in each engine
    call,      \* the last call of each caller
    threads,   \* engine calls being executed
    stats,     \* self.stats
    issued     \* calls issued so far

lifeVars == <<deployment, owner, registry, opened, created, engines, engine, recorders>>
callVars == <<call, threads, stats, issued>>
vars == <<lifeVars, held, callVars>>

tp == deployment.tp

EngineIds == 1..(deployment.starts * tp)

\* The instance name of a rank; 0 is the bare instance_id.
Name(rank) == IF tp = 1 THEN 0 ELSE rank

Chunks(d, skip) == {<<d, i>> : i \in (skip + 1)..DocLen}

\* How many leading chunks of d are in a set of chunks.
Leading(chunks, d) ==
    CHOOSE k \in 0..DocLen :
        /\ \A i \in 1..k : <<d, i>> \in chunks
        /\ k < DocLen => <<d, k + 1>> \notin chunks

\* The prefix of d, in chunks, that an engine holds.
Prefix(e, d) == Leading(held[e], d)

NoCall == [op |-> "none", doc |-> "none", skip |-> 0, pc |-> "idle",
           waiting |-> {}, result |-> 0]

Init ==
    /\ deployment \in Deployments
    /\ owner = [pc |-> "down", rank |-> 0, starts |-> 0]
    /\ registry = [n \in 0..tp |-> 0]
    /\ opened = {}
    /\ created = 0
    /\ engines = <<>>
    /\ engine = 0
    /\ recorders = 0
    /\ held = [e \in EngineIds |-> {}]
    /\ call = [c \in Callers |-> NoCall]
    /\ threads = {}
    /\ stats = [lookups |-> 0, lookup_chunks |-> 0, hit_chunks |-> 0,
                stores |-> 0, stored_chunks |-> 0,
                retrieves |-> 0, retrieved_chunks |-> 0, errors |-> 0]
    /\ issued = 0

-----------------------------------------------------------------------------
(* start() and close(), each in a thread while the event loop goes on.     *)

StartBegins ==
    /\ owner.pc \in {"down", "closed"}
    /\ engine = 0
    /\ owner.starts < deployment.starts
    /\ owner' = [pc |-> "starting", rank |-> 0, starts |-> owner.starts + 1]
    /\ UNCHANGED <<deployment, registry, opened, created, engines, engine, recorders, held, callVars>>

\* Configuration read, the trace file opened.
StartConfigures ==
    /\ owner.pc = "starting"
    /\ owner.rank = 0
    /\ owner' = [owner EXCEPT !.rank = 1]
    /\ recorders' = IF TraceFile THEN recorders + 1 ELSE recorders
    /\ UNCHANGED <<deployment, registry, opened, created, engines, engine, held, callVars>>

\* LMCacheEngineBuilder.get_or_create: the engine of that name, or a new one.
GetOrCreate(name) ==
    IF registry[name] # 0
    THEN UNCHANGED <<registry, opened, created>>
    ELSE /\ created' = created + 1
         /\ registry' = [registry EXCEPT ![name] = created + 1]
         /\ opened' = opened \cup {created + 1}

StartRank ==
    /\ owner.pc = "starting"
    /\ owner.rank \in 1..tp
    /\ GetOrCreate(Name(owner.rank))
    /\ engines' = Append(engines, registry'[Name(owner.rank)])
    /\ IF owner.rank < tp
       THEN /\ owner' = [owner EXCEPT !.rank = @ + 1]
            /\ UNCHANGED engine
       ELSE /\ owner' = [owner EXCEPT !.pc = "up", !.rank = 0]
            /\ engine' = engines'[1]
    /\ UNCHANGED <<deployment, recorders, held, callVars>>

\* The configuration, the builder or post_init() raises, or installing the trace in an
\* engine that is already in the list; what was built stays.
StartRaises ==
    /\ deployment.start_fails
    /\ owner.pc = "starting"
    /\ \/ UNCHANGED <<registry, opened, created, engines>>
       \/ /\ owner.rank > 0
          /\ GetOrCreate(Name(owner.rank))
          /\ \/ UNCHANGED engines
             \/ TraceFile /\ engines' = Append(engines, registry'[Name(owner.rank)])
    /\ owner' = [owner EXCEPT !.pc = "down", !.rank = 0]
    /\ UNCHANGED <<deployment, engine, recorders, held, callVars>>

\* Without an engine, close() returns at once.
CloseBegins ==
    /\ owner.pc \in {"up", "down"}
    /\ owner' = [owner EXCEPT !.pc = IF engine = 0 THEN "closed" ELSE "closing"]
    /\ UNCHANGED <<deployment, registry, opened, created, engines, engine, recorders, held, callVars>>

\* Slip: the engine is looked for under the rank's name, also with one rank.
CloseDestroys_Rank ==
    /\ owner.pc = "closing"
    /\ owner' = [owner EXCEPT !.pc = "destroyed"]
    /\ opened' = opened \ {registry[tp]}
    /\ registry' = [registry EXCEPT ![tp] = 0]
    /\ UNCHANGED <<deployment, created, engines, engine, recorders, held, callVars>>

\* LMCacheEngineBuilder.destroy(self.instance_id): the bare name.
CloseDestroys ==
    /\ owner.pc = "closing"
    /\ owner' = [owner EXCEPT !.pc = "destroyed"]
    /\ opened' = opened \ {registry[0]}
    /\ held' = [e \in EngineIds |-> IF e = registry[0] THEN {} ELSE held[e]]
    /\ registry' = [registry EXCEPT ![0] = 0]
    /\ UNCHANGED <<deployment, created, engines, engine, recorders, callVars>>

\* _engine, _connector and _chunk_size become None; _engines stays as it is.
CloseForgets ==
    /\ owner.pc = "destroyed"
    /\ owner' = [owner EXCEPT !.pc = "forgotten"]
    /\ engine' = 0
    /\ UNCHANGED <<deployment, registry, opened, created, engines, recorders, held, callVars>>

CloseEnds ==
    /\ owner.pc = "forgotten"
    /\ owner' = [owner EXCEPT !.pc = "closed"]
    /\ recorders' = IF recorders > 0 THEN recorders - 1 ELSE 0
    /\ UNCHANGED <<deployment, registry, opened, created, engines, engine, held, callVars>>

-----------------------------------------------------------------------------
(* lookup(), store() and retrieve().                                       *)

\* Slip: the last rank is left out.
Slots_AllButLast(op) ==
    IF op = "lookup" \/ Len(engines) = 1 THEN {1} ELSE 1..(Len(engines) - 1)

\* The engines a call goes to: lookup asks the first rank, the others all.
Slots(op) == IF op = "lookup" THEN {1} ELSE DOMAIN engines

\* A store skips what the caller's own lookup of the same prompt found.
Skips(c, op, d) ==
    {0} \cup {k \in 1..(DocLen - 1) :
                 /\ op = "store"
                 /\ call[c].op = "lookup" /\ call[c].pc = "ok" /\ call[c].doc = d
                 /\ call[c].result = k}

\* A call of a stack that is not started raises at once.
Rejected(c, op, d) ==
    /\ call[c].pc # "running"
    /\ issued < MaxCalls
    /\ engine = 0
    /\ call' = [call EXCEPT ![c] = [NoCall EXCEPT !.op = op, !.doc = d, !.pc = "raised"]]
    /\ issued' = issued + 1
    /\ UNCHANGED <<lifeVars, held, threads, stats>>

\* Slip: a lookup asks the last rank.
Begin_LastRank(c, op, d, skip) ==
    /\ call[c].pc # "running"
    /\ issued < MaxCalls
    /\ engine # 0
    /\ call' = [call EXCEPT ![c] = [NoCall EXCEPT !.op = op, !.doc = d, !.skip = skip,
                                                  !.pc = "running", !.waiting = Slots(op)]]
    /\ threads' = threads \cup
           {[caller |-> c, awaited |-> TRUE, slot |-> i, op |-> op, doc |-> d, skip |-> skip,
             engine |-> IF op = "lookup" THEN engines[Len(engines)] ELSE engines[i]] :
                 i \in Slots(op)}
    /\ issued' = issued + 1
    /\ UNCHANGED <<lifeVars, held, stats>>

Begin(c, op, d, skip) ==
    /\ call[c].pc # "running"
    /\ issued < MaxCalls
    /\ engine # 0
    /\ call' = [call EXCEPT ![c] = [NoCall EXCEPT !.op = op, !.doc = d, !.skip = skip,
                                                  !.pc = "running", !.waiting = Slots(op)]]
    /\ threads' = threads \cup
           {[caller |-> c, awaited |-> TRUE, slot |-> i, op |-> op, doc |-> d, skip |-> skip,
             engine |-> IF op = "lookup" THEN engine ELSE engines[i]] : i \in Slots(op)}
    /\ issued' = issued + 1
    /\ UNCHANGED <<lifeVars, held, stats>>

\* Threads whose coroutine has gone keep running.
Detached(c) ==
    {t \in threads : ~(t.awaited /\ t.caller = c)} \cup
    {[t EXCEPT !.awaited = FALSE] : t \in {t \in threads : t.awaited /\ t.caller = c}}

\* What a finished call adds to the statistics.
Counted(s, c, result) ==
    CASE call[c].op = "lookup" ->
            [s EXCEPT !.lookups = @ + 1, !.lookup_chunks = @ + DocLen,
                      !.hit_chunks = @ + result]
      [] call[c].op = "store" ->
            [s EXCEPT !.stores = @ + 1, !.stored_chunks = @ + DocLen - call[c].skip]
      [] OTHER ->
            [s EXCEPT !.retrieves = @ + 1, !.retrieved_chunks = @ + result]

\* Slip: the call returns with its first thread.
ThreadReturns_First(t) ==
    LET found == IF t.op = "store" THEN 0 ELSE Prefix(t.engine, t.doc)
        c == t.caller
    IN  /\ t.engine \in opened
        /\ held' = IF t.op = "store"
                   THEN [held EXCEPT ![t.engine] = @ \cup Chunks(t.doc, t.skip)]
                   ELSE held
        /\ IF t.awaited
           THEN /\ call' = [call EXCEPT ![c] = [@ EXCEPT !.waiting = {}, !.result = found,
                                                         !.pc = "ok"]]
                /\ stats' = Counted(stats, c, found)
                /\ threads' = Detached(c) \ {[t EXCEPT !.awaited = FALSE]}
           ELSE /\ threads' = threads \ {t}
                /\ UNCHANGED <<call, stats>>
        /\ UNCHANGED <<lifeVars, issued>>

\* The engine call of thread t returns; the call returns with the last one,
\* and its result is that of the first slot.
ThreadReturns(t) ==
    LET found == IF t.op = "store" THEN 0 ELSE Prefix(t.engine, t.doc)
        c == t.caller
        waiting == call[c].waiting \ {t.slot}
        result == IF t.slot = 1 THEN found ELSE call[c].result
    IN  /\ t.engine \in opened
        /\ held' = IF t.op = "store"
                   THEN [held EXCEPT ![t.engine] = @ \cup Chunks(t.doc, t.skip)]
                   ELSE held
        /\ threads' = threads \ {t}
        /\ IF t.awaited
           THEN /\ call' = [call EXCEPT ![c] =
                      [@ EXCEPT !.waiting = waiting, !.result = result,
                                !.pc = IF waiting = {} THEN "ok" ELSE "running"]]
                /\ stats' = IF waiting = {} THEN Counted(stats, c, result) ELSE stats
           ELSE UNCHANGED <<call, stats>>
        /\ UNCHANGED <<lifeVars, issued>>

\* Slip: a failed call is waited for, and waits for ever.
ThreadRaises_Lost(t) ==
    /\ Faulty \/ t.engine \notin opened
    /\ threads' = threads \ {t}
    /\ UNCHANGED <<lifeVars, held, call, stats, issued>>

\* The engine call of thread t raises: so does the call, at once, while the
\* threads of the other ranks go on.
ThreadRaises(t) ==
    /\ Faulty \/ t.engine \notin opened
    /\ IF t.awaited
       THEN /\ call' = [call EXCEPT ![t.caller].pc = "raised", ![t.caller].waiting = {}]
            /\ stats' = [stats EXCEPT !.errors = @ + 1]
            /\ threads' = Detached(t.caller) \ {[t EXCEPT !.awaited = FALSE]}
       ELSE /\ threads' = threads \ {t}
            /\ UNCHANGED <<call, stats>>
    /\ UNCHANGED <<lifeVars, held, issued>>

\* The coroutine of a call is cancelled (a warmup is, or the server stops):
\* the threads that the executor has not started never run.
CallCancelled(c) ==
    /\ Cancelling
    /\ call[c].pc = "running"
    /\ call' = [call EXCEPT ![c].pc = "cancelled", ![c].waiting = {}]
    /\ \E dropped \in SUBSET {t \in Detached(c) : ~t.awaited /\ t.caller = c} :
          threads' = Detached(c) \ dropped
    /\ UNCHANGED <<lifeVars, held, stats, issued>>

\* An engine drops a chunk to make room.
EngineEvicts(e) ==
    /\ deployment.evicts
    /\ \E x \in held[e] : held' = [held EXCEPT ![e] = @ \ {x}]
    /\ UNCHANGED <<lifeVars, callVars>>

-----------------------------------------------------------------------------

Owner ==
    \/ StartBegins
    \/ CloseBegins

OwnerThread ==
    \/ StartConfigures
    \/ StartRank
    \/ StartRaises
    \/ CloseDestroys
    \/ CloseForgets
    \/ CloseEnds

Caller(c) ==
    \E op \in {"lookup", "store", "retrieve"}, d \in Docs :
        \/ Rejected(c, op, d)
        \/ \E skip \in Skips(c, op, d) : Begin(c, op, d, skip)

ThreadEnds == \E t \in threads : ThreadReturns(t) \/ ThreadRaises(t)

Next ==
    \/ Owner
    \/ OwnerThread
    \/ \E c \in Callers : Caller(c) \/ CallCancelled(c)
    \/ ThreadEnds
    \/ \E e \in EngineIds : EngineEvicts(e)

Spec == Init /\ [][Next]_vars

\* Threads finish: those of start() and close(), and every engine call.
FairSpec == Spec /\ WF_vars(OwnerThread) /\ WF_vars(ThreadEnds)

-----------------------------------------------------------------------------
(* Properties *)

OwnerType ==
    [pc: {"down", "starting", "up", "closing", "destroyed", "forgotten", "closed"},
     rank: 0..tp, starts: 0..deployment.starts]

CallType ==
    [op: {"none", "lookup", "store", "retrieve"}, doc: Docs \cup {"none"},
     skip: 0..DocLen, pc: {"idle", "running", "ok", "raised", "cancelled"},
     waiting: SUBSET (1..(deployment.starts * tp)), result: 0..DocLen]

ThreadType ==
    [caller: Callers, awaited: BOOLEAN, slot: 1..(deployment.starts * tp),
     op: {"lookup", "store", "retrieve"}, doc: Docs, skip: 0..DocLen, engine: EngineIds]

StatsType ==
    [lookups: 0..MaxCalls, lookup_chunks: Nat, hit_chunks: Nat, stores: 0..MaxCalls,
     stored_chunks: Nat, retrieves: 0..MaxCalls, retrieved_chunks: Nat,
     errors: 0..MaxCalls]

TypeOK ==
    /\ deployment \in Deployments
    /\ owner \in OwnerType
    /\ registry \in [0..tp -> {0} \cup EngineIds]
    /\ opened \subseteq EngineIds
    /\ created \in {0} \cup EngineIds
    /\ engines \in Seq(EngineIds)
    /\ Len(engines) <= deployment.starts * tp
    /\ engine \in {0} \cup EngineIds
    /\ recorders \in 0..deployment.starts
    /\ held \in [EngineIds -> SUBSET (Docs \X (1..DocLen))]
    /\ call \in [Callers -> CallType]
    /\ threads \subseteq ThreadType
    /\ stats \in StatsType
    /\ issued \in 0..MaxCalls

\* After close() no engine of the stack runs and no trace file is open: close
\* releases the stack's resources.
CloseReleases == owner.pc = "closed" => opened = {} /\ recorders = 0

\* So it does where there is one rank and no start() fails, whatever goes on in the
\* engine meanwhile, and the stack can be started and closed again.
OneRankReleases == tp = 1 /\ ~deployment.start_fails => CloseReleases

\* The stack was started once, is up, and its engines keep what they have.
Steady == owner.pc = "up" /\ owner.starts = 1 /\ ~deployment.evicts

\* A store that returned is on every rank, while nothing evicts (lines 211-218).
\* The engines are those of one start.
StoreOkMeansStored ==
    \A c \in Callers :
        Steady /\ call[c].op = "store" /\ call[c].pc = "ok" =>
            \A r \in 1..tp : Chunks(call[c].doc, call[c].skip) \subseteq held[engines[r]]

\* While every call that was issued has succeeded, the ranks hold the same chunks,
\* so that what the first rank answers goes for all (a lookup asks only the
\* first, line 197), however the threads of two stores are interleaved.
RanksAgree ==
    Steady /\ issued = stats.lookups + stats.stores + stats.retrieves =>
        \A r \in 1..tp : held[engines[r]] = held[engines[1]]

\* What a caller looked up it can still retrieve, while nothing evicts: the
\* prefix another caller is storing only grows it.
HitStaysHit ==
    \A c \in Callers :
        Steady /\ call[c].op = "lookup" /\ call[c].pc = "ok" =>
            Prefix(engine, call[c].doc) >= call[c].result

\* Every call of the stack ends, whichever rank fails and also when the stack is
\* closed under it; so does a close() that began.
CallsAndCloseEnd ==
    /\ \A c \in Callers : (call[c].pc = "running") ~> (call[c].pc # "running")
    /\ (owner.pc = "closing") ~> (owner.pc = "closed")

=============================================================================
