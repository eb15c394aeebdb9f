--------------------------- MODULE Serving_proofs ---------------------------
(***************************************************************************)
(* Proofs about Serving: the types, that no store leaves a hole in the KV  *)
(* store, that what was prefilled is found, that the statistics account    *)
(* for every request and chunk, and that every stream is one ChatStream    *)
(* allows.                                                                 *)
(***************************************************************************)
EXTENDS Serving, FiniteSetTheorems, SequenceTheorems, WellFoundedInduction, TLAPS

\* A chunk of prompt p, known by its prefix.
Path(p, j) == SubSeq(p.chunks, 1, j)

\* The first n chunks of p have been stored, whatever became of them.
Held(p, n, known) == \A j \in 1..n : Path(p, j) \in known

\* What a request knows about its lookup where it stands.
LookedUp(q) ==
    /\ q.hit <= Len(q.prompt.chunks)
    /\ q.pc = "idle" => q.hit = None /\ ~q.warm
    /\ q.pc \in {"retrieve", "compute", "store", "detached"} => q.hit \in Nat

\* Chunks a request has found, or put where they were missing, are known.
Accounted(q, known) ==
    /\ Held(q.prompt, q.hit, known)
    /\ \/ q.pc \in {"decode", "ending", "sent", "ok"} /\ q.server # "decode"
       \/ q.warm
       => Held(q.prompt, Len(q.prompt.chunks), known)

\* PrefillIsFound of one request.
Found(q, lost) ==
    q.warm /\ q.hit # None =>
        \/ q.hit = Len(q.prompt.chunks)
        \/ Paths(q.prompt) \cap lost # {}

RequestInv(q, known, lost) ==
    /\ LookedUp(q)
    /\ Accounted(q, known)
    /\ Found(q, lost)

\* The inductive invariant.
ServingInv ==
    /\ TypeOK
    /\ HolesAreEvicted
    /\ \A r \in Requests : RequestInv(req[r], cached \cup evicted, evicted)

-----------------------------------------------------------------------------
(* Lemmas about chunks and counts *)

\* A set of numbers up to n that is not empty has a greatest one.
LEMMA MaxIsGreatest ==
    ASSUME NEW n \in Nat, NEW S, S \subseteq 0..n, S # {}
    PROVE  Max(S) \in S /\ \A k \in S : Max(S) >= k
<1> DEFINE T == {x \in 0..n : n - x \in S}
<1>1. T \subseteq Nat /\ T # {}
  <2>1. PICK k \in S : TRUE
    OBVIOUS
  <2>2. n - k \in T
    OBVIOUS
  <2>3. T \subseteq Nat
    OBVIOUS
  <2> HIDE DEF T
  <2> QED
    BY <2>2, <2>3
<1>2. PICK x \in T : \A y \in T : ~(<<y, x>> \in OpToRel(<, Nat))
  BY <1>1, NatLessThanWellFounded, WFMin, Zenon
<1>3. \A y \in T : x <= y
  <2>1. \A i, j \in Nat : i < j => <<i, j>> \in OpToRel(<, Nat)
    BY Zenon DEF OpToRel
  <2> HIDE DEF T
  <2>2. \A y \in T : ~(y < x)
    BY <1>1, <1>2, <2>1, Zenon
  <2>3. x \in Nat /\ \A y \in T : y \in Nat
    BY <1>1
  <2> QED
    BY <2>2, <2>3
<1>4. n - x \in S
  OBVIOUS
<1>5. ASSUME NEW k \in S PROVE n - x >= k
  <2>1. n - k \in T
    OBVIOUS
  <2> QED
    BY <1>3, <2>1
<1> QED
  BY <1>4, <1>5 DEF Max

\* What a lookup answers: everything up to the hit is cached, the next is not.
LEMMA HitIsLongest ==
    ASSUME NEW p \in Prompts
    PROVE  /\ Hit(p) \in 0..Len(p.chunks)
           /\ \A j \in 1..Hit(p) : Path(p, j) \in cached
           /\ Hit(p) < Len(p.chunks) => Path(p, Hit(p) + 1) \notin cached
<1> DEFINE n == Len(p.chunks)
           S == {k \in 0..n : \A j \in 1..k : SubSeq(p.chunks, 1, j) \in cached}
<1>1. n \in Nat
  BY DEF Prompts
<1>2. S \subseteq 0..n /\ 0 \in S
  BY <1>1
<1>3. Max(S) \in S /\ \A k \in S : Max(S) >= k
  BY <1>1, <1>2, MaxIsGreatest
<1>4. Hit(p) = Max(S)
  BY DEF Hit
<1>5. ASSUME Hit(p) < n, Path(p, Hit(p) + 1) \in cached
      PROVE  FALSE
  <2>1. Hit(p) + 1 \in 0..n
    BY <1>1, <1>3, <1>4, <1>5
  <2>2. \A j \in 1..(Hit(p) + 1) : SubSeq(p.chunks, 1, j) \in cached
    BY <1>1, <1>3, <1>4, <1>5 DEF Path
  <2>3. Hit(p) + 1 \in S
    BY <2>1, <2>2
  <2> QED
    BY <1>1, <1>3, <1>4, <2>1, <2>3
<1> QED
  BY <1>1, <1>3, <1>4, <1>5 DEF Path

\* Rounding up: n chunks and a part t of one more, h chunks taken away.
LEMMA RoundUp ==
    ASSUME NEW n \in Nat, NEW h \in 0..n, NEW c \in Nat \ {0}, NEW t \in 0..(c - 1)
    PROVE  /\ n * c + t \in Nat
           /\ ((n * c + t) - h * c + c - 1) \div c \in Nat
           /\ ((n * c + t) - h * c + c - 1) \div c = 0 => h = n
<1> DEFINE a == (n * c + t) - h * c + c - 1
<1>1. (n - h) * c \in Nat /\ (n - h > 0 => (n - h) * c >= c) /\ n * c \in Nat
  OBVIOUS
<1>2. n * c - h * c = (n - h) * c
  OBVIOUS
<1>3. a \in Nat /\ (n - h > 0 => a >= c)
  BY <1>1, <1>2
<1>4. ASSUME NEW x \in Nat PROVE x \div c \in Nat /\ (x >= c => x \div c >= 1)
  OBVIOUS
<1>5. a \div c \in Nat /\ (a \div c = 0 => h = n)
  <2> HIDE DEF a
  <2> QED
    BY <1>3, <1>4
<1>6. n * c + t \in Nat
  BY <1>1
<1> QED
  BY <1>5, <1>6

\* Misses are a number, and none only when all full chunks were found.
LEMMA MissesCount ==
    ASSUME NEW q \in RequestType, q.hit \in 0..Len(q.prompt.chunks)
    PROVE  /\ NumTokens(q.prompt) \in Nat
           /\ Misses(q) \in Nat
           /\ Misses(q) = 0 => q.hit = Len(q.prompt.chunks)
<1>1. /\ Len(q.prompt.chunks) \in Nat
      /\ ChunkSize \in Nat \ {0}
      /\ q.prompt.tail \in 0..(ChunkSize - 1)
  BY ServingAssumption DEF RequestType, Prompts
<1> QED
  BY <1>1, RoundUp, Zenon DEF Misses, NumTokens

\* The chunks of a chunk are chunks of its prompt.
LEMMA PathOfPath ==
    ASSUME NEW p \in Prompts, NEW k \in 1..Len(p.chunks)
    PROVE  /\ Path(p, k) \in Seq(Contents)
           /\ Len(Path(p, k)) = k
           /\ \A j \in 1..k : SubSeq(Path(p, k), 1, j) = Path(p, j)
<1>1. p.chunks \in Seq(Contents) /\ Len(p.chunks) \in Nat
  BY DEF Prompts
<1>2. \A i \in 1..k : p.chunks[i] \in Contents
  BY <1>1
<1>3. Path(p, k) \in Seq(Contents) /\ Len(Path(p, k)) = k
  BY <1>1, <1>2, SubSeqProperties DEF Path
<1>4. ASSUME NEW j \in 1..k
      PROVE  SubSeq(Path(p, k), 1, j) = Path(p, j)
  BY <1>1, SubSeqOfSubSeq DEF Path
<1> QED
  BY <1>3, <1>4

-----------------------------------------------------------------------------
(* How a step changes the invariant *)

\* What a request in its KV phase has found is part of its prompt.
LEMMA HitInPrompt ==
    ASSUME ServingInv,
           NEW r \in Requests, req[r].pc \in {"retrieve", "compute", "store", "detached"}
    PROVE  /\ req[r] \in RequestType
           /\ req[r].hit \in 0..Len(req[r].prompt.chunks)
           /\ RequestInv(req[r], cached \cup evicted, evicted)
<1>1. req[r] \in RequestType /\ RequestInv(req[r], cached \cup evicted, evicted)
  BY DEF ServingInv, TypeOK
<1>2. req[r].hit \in Nat /\ req[r].hit <= Len(req[r].prompt.chunks)
  BY <1>1 DEF RequestInv, LookedUp
<1>3. Len(req[r].prompt.chunks) \in Nat
  BY <1>1 DEF RequestType, Prompts
<1> QED
  BY <1>1, <1>2, <1>3

\* A request keeps its facts when more becomes known and more is lost.
LEMMA RequestInvMonotone ==
    ASSUME NEW q, NEW known, NEW known2, NEW lost, NEW lost2,
           RequestInv(q, known, lost), known \subseteq known2, lost \subseteq lost2
    PROVE  RequestInv(q, known2, lost2)
BY DEF RequestInv, Accounted, Held, Found

\* A step of request r that stores nothing the chunks before which are unknown.
LEMMA RequestSteps ==
    ASSUME ServingInv,
           NEW r \in Requests, NEW q \in RequestType,
           RequestInv(q, cached' \cup evicted', evicted'),
           req' = [req EXCEPT ![r] = q],
           stats' \in [Servers -> StatsType],
           cached \subseteq cached', cached' \subseteq Seq(Contents),
           UNCHANGED evicted,
           HolesAreEvicted'
    PROVE  ServingInv'
<1>1. cached \cup evicted \subseteq cached' \cup evicted'
  OBVIOUS
<1>2. TypeOK'
  <2>1. req' \in [Requests -> RequestType]
    BY DEF ServingInv, TypeOK
  <2>2. \A s \in Requests : req'[s].hit <= Len(req'[s].prompt.chunks)
    BY DEF ServingInv, TypeOK, RequestInv, LookedUp
  <2> QED
    BY <2>1, <2>2 DEF ServingInv, TypeOK
<1>3. ASSUME NEW s \in Requests
      PROVE  RequestInv(req'[s], cached' \cup evicted', evicted')
  <2>1. CASE s = r
    BY <2>1 DEF ServingInv, TypeOK
  <2>2. CASE s # r
    <3>1. req'[s] = req[s] /\ RequestInv(req[s], cached \cup evicted, evicted)
      BY <2>2 DEF ServingInv, TypeOK
    <3> QED
      BY <1>1, <3>1, RequestInvMonotone
  <2> QED
    BY <2>1, <2>2
<1> QED
  BY <1>2, <1>3 DEF ServingInv

\* A step of request r that leaves the store alone.
LEMMA RequestStepsAlone ==
    ASSUME ServingInv,
           NEW r \in Requests, NEW q \in RequestType,
           RequestInv(q, cached \cup evicted, evicted),
           req' = [req EXCEPT ![r] = q],
           stats' \in [Servers -> StatsType],
           UNCHANGED <<cached, evicted>>
    PROVE  ServingInv'
<1>1. HolesAreEvicted'
  BY DEF ServingInv, HolesAreEvicted
<1>2. cached \subseteq cached' /\ cached' \subseteq Seq(Contents) /\ UNCHANGED evicted
  BY DEF ServingInv, TypeOK
<1>3. RequestInv(q, cached' \cup evicted', evicted')
  OBVIOUS
<1> QED
  BY <1>1, <1>2, <1>3, RequestSteps

\* An event keeps a request typed.
LEMMA YieldTyped ==
    ASSUME NEW q \in RequestType, NEW e \in Events
    PROVE  Yield(q, e) \in RequestType
<1>1. Append(q.out, e) \in Seq(Events)
  BY DEF RequestType
<1> QED
  BY <1>1 DEF Yield, RequestType

\* What the KV phase leaves: a typed request and typed statistics.
LEMMA LoadedTyped ==
    ASSUME TypeOK,
           NEW r \in Requests, NEW q \in RequestType,
           q.hit \in 0..Len(q.prompt.chunks),
           Loaded(r, q)
    PROVE  /\ Answering(q) \in RequestType
           /\ req' = [req EXCEPT ![r] = Answering(q)]
           /\ stats' \in [Servers -> StatsType]
<1>1. Answering(q) \in RequestType
  <2>1. [q EXCEPT !.pc = "ok"] \in RequestType /\ [q EXCEPT !.pc = "decode"] \in RequestType
    BY DEF RequestType
  <2>2. Decoding(q) \in RequestType
    BY <2>1, YieldTyped DEF Decoding, Events
  <2> QED
    BY <2>1, <2>2 DEF Answering
<1>2. NumTokens(q.prompt) \in Nat /\ Misses(q) \in Nat
  BY MissesCount
<1>3. q.hit \in Nat /\ q.server \in Servers
  BY DEF RequestType
<1>4. stats' \in [Servers -> StatsType]
  <2>1. ASSUME NEW c \in StatsType PROVE Counted(c, q) \in StatsType
    <3>1. /\ c.hits + q.hit \in Nat
          /\ c.misses + Misses(q) \in Nat
          /\ c.prompt + (IF q.server # "decode" THEN NumTokens(q.prompt) ELSE 0) \in Nat
          /\ c.success + (IF q.server = "prefill" THEN 1 ELSE 0) \in Nat
      <4>1. c.hits \in Nat /\ c.misses \in Nat /\ c.prompt \in Nat /\ c.success \in Nat
        BY DEF StatsType
      <4>2. c.hits + q.hit \in Nat /\ c.misses + Misses(q) \in Nat
        BY <1>2, <1>3, <4>1
      <4>3. c.prompt + (IF q.server # "decode" THEN NumTokens(q.prompt) ELSE 0) \in Nat
        BY <1>2, <4>1
      <4>4. c.success + (IF q.server = "prefill" THEN 1 ELSE 0) \in Nat
        BY <4>1
      <4> QED
        BY <4>2, <4>3, <4>4
    <3>2. ASSUME NEW h \in Nat, NEW m \in Nat, NEW p \in Nat, NEW k \in Nat
          PROVE  [c EXCEPT !.hits = h, !.misses = m, !.prompt = p, !.success = k] \in StatsType
      BY DEF StatsType
    <3> QED
      BY <3>1, <3>2, Zenon DEF Counted
  <2> QED
    BY <1>3, <2>1 DEF Loaded, TypeOK
<1> QED
  BY <1>1, <1>4 DEF Loaded

\* And its facts, when all its chunks are known or it does not prefill.
LEMMA LoadedKnows ==
    ASSUME NEW q \in RequestType, NEW known, NEW lost,
           q.hit \in 0..Len(q.prompt.chunks),
           q.server # "decode" => Held(q.prompt, Len(q.prompt.chunks), known),
           RequestInv(q, known, lost)
    PROVE  RequestInv(Answering(q), known, lost)
<1>1. /\ Answering(q).prompt = q.prompt
      /\ Answering(q).hit = q.hit
      /\ Answering(q).warm = q.warm
      /\ Answering(q).server = q.server
      /\ Answering(q).pc \in {"ok", "decode"}
  BY DEF Answering, Decoding, Yield, RequestType
<1>2. LookedUp(Answering(q))
  BY <1>1 DEF RequestInv, LookedUp
<1>3. Accounted(Answering(q), known)
  BY <1>1 DEF RequestInv, Accounted
<1>4. Found(Answering(q), lost)
  BY <1>1 DEF RequestInv, Found
<1> QED
  BY <1>2, <1>3, <1>4 DEF RequestInv

\* A request that only moves on keeps its facts.
LEMMA MoveKnows ==
    ASSUME NEW q \in RequestType, NEW q2 \in RequestType, NEW known, NEW lost,
           RequestInv(q, known, lost),
           q2.prompt = q.prompt, q2.hit = q.hit, q2.warm = q.warm, q2.server = q.server,
           q2.pc # "idle",
           q2.pc \in {"retrieve", "compute", "store", "detached"} => q.hit \in Nat,
           q2.pc \in {"decode", "ending", "sent", "ok"} => q.pc \in {"decode", "ending", "sent", "ok"}
    PROVE  RequestInv(q2, known, lost)
<1>1. LookedUp(q2)
  BY DEF RequestInv, LookedUp
<1>2. Accounted(q2, known)
  BY DEF RequestInv, Accounted
<1>3. Found(q2, lost)
  BY DEF RequestInv, Found
<1> QED
  BY <1>1, <1>2, <1>3 DEF RequestInv

\* A store completes the chunks of its prompt and leaves no hole.
LEMMA StoreFills ==
    ASSUME ServingInv,
           NEW r \in Requests, req[r].pc \in {"store", "detached"},
           cached' = cached \cup Stored(req[r]),
           UNCHANGED evicted
    PROVE  /\ Held(req[r].prompt, Len(req[r].prompt.chunks), cached' \cup evicted')
           /\ cached' \subseteq Seq(Contents)
           /\ HolesAreEvicted'
<1> DEFINE p == req[r].prompt
           n == Len(p.chunks)
           h == req[r].hit
<1>1. p \in Prompts /\ n \in Nat /\ h \in 0..n
  BY HitInPrompt DEF RequestType, Prompts
<1>2. \A j \in 1..h : Path(p, j) \in cached \cup evicted
  BY DEF ServingInv, RequestInv, Accounted, Held
<1>3. Stored(req[r]) = {Path(p, k) : k \in (h + 1)..n}
  BY DEF Stored, Path
<1> HIDE DEF p, n, h
<1>4. Held(p, n, cached' \cup evicted')
  <2> SUFFICES ASSUME NEW j \in 1..n PROVE Path(p, j) \in cached' \cup evicted'
    BY DEF Held
  <2>1. j \in 1..h \/ j \in (h + 1)..n
    BY <1>1
  <2> QED
    BY <1>2, <1>3, <2>1
<1>5. ASSUME NEW k \in Stored(req[r])
      PROVE  /\ k \in Seq(Contents)
             /\ \A j \in 1..Len(k) : SubSeq(k, 1, j) \in cached' \cup evicted'
  <2>1. PICK m \in (h + 1)..n : k = Path(p, m)
    BY <1>3
  <2>2. m \in 1..Len(p.chunks)
    BY <1>1 DEF n
  <2>3. k \in Seq(Contents) /\ Len(k) = m /\ \A j \in 1..m : SubSeq(k, 1, j) = Path(p, j)
    BY <1>1, <2>1, <2>2, PathOfPath
  <2>4. \A j \in 1..m : j \in 1..n
    BY <1>1
  <2> QED
    BY <1>4, <2>3, <2>4 DEF Held
<1>6. cached' \subseteq Seq(Contents)
  BY <1>5 DEF ServingInv, TypeOK
<1>7. HolesAreEvicted'
  BY <1>5 DEF ServingInv, HolesAreEvicted
<1> QED
  BY <1>4, <1>6, <1>7 DEF p, n

\* A counter of a server goes up.
LEMMA CountTyped ==
    ASSUME stats \in [Servers -> StatsType], NEW s \in Servers
    PROVE  /\ [stats EXCEPT ![s].total = @ + 1] \in [Servers -> StatsType]
           /\ [stats EXCEPT ![s].failed = @ + 1] \in [Servers -> StatsType]
           /\ [stats EXCEPT ![s].success = @ + 1, ![s].completion = @ + MaxTokens]
                 \in [Servers -> StatsType]
<1>1. stats[s].total + 1 \in Nat
  BY DEF StatsType
<1>2. stats[s].failed + 1 \in Nat
  BY DEF StatsType
<1>3. stats[s].success + 1 \in Nat /\ stats[s].completion + MaxTokens \in Nat
  BY ServingAssumption DEF StatsType
<1> QED
  BY <1>1, <1>2, <1>3 DEF StatsType

-----------------------------------------------------------------------------
(* The actions *)

\* Initially nothing was asked, and the store is empty.
LEMMA InitEstablishes == Init => ServingInv
<1> SUFFICES ASSUME Init PROVE ServingInv
  OBVIOUS
<1> DEFINE q == [pc |-> "idle", server |-> "combined", stream |-> FALSE,
                 prompt |-> [chunks |-> <<>>, tail |-> 0], hit |-> None,
                 generated |-> 0, out |-> <<>>, warm |-> FALSE]
<1>1. q \in RequestType
  BY ServingAssumption DEF RequestType, Prompts, Servers
<1>2. req = [r \in Requests |-> q]
  BY DEF Init
<1>3. q.hit <= Len(q.prompt.chunks) /\ RequestInv(q, {}, {})
  BY DEF RequestInv, LookedUp, Accounted, Found, Held, None
<1> HIDE DEF q
<1>4. NoStats \in StatsType
  BY DEF NoStats, StatsType
<1>5. TypeOK
  BY <1>1, <1>2, <1>3, <1>4 DEF Init, TypeOK
<1>6. HolesAreEvicted
  BY DEF Init, HolesAreEvicted
<1>7. \A r \in Requests : RequestInv(req[r], cached \cup evicted, evicted)
  <2>1. cached \cup evicted = {} /\ evicted = {}
    BY DEF Init
  <2> QED
    BY <1>2, <1>3, <2>1
<1> QED
  BY <1>5, <1>6, <1>7 DEF ServingInv

\* A request arrives: what its twin has prefilled is known.
LEMMA ArrivePreserves ==
    ASSUME ServingInv, NEW r \in Requests, NEW o \in Offers, Arrive(r, o)
    PROVE  ServingInv'
<1> DEFINE known == cached \cup evicted
           q == [req[r] EXCEPT !.server = o.server, !.stream = o.stream,
                               !.prompt = o.prompt, !.warm = Prefilled(o.prompt)]
<1>1. /\ req[r] \in RequestType /\ req[r].pc = "idle" /\ req[r].hit = None
      /\ o.server \in Servers /\ o.stream \in BOOLEAN /\ o.prompt \in Prompts
  BY ServingAssumption DEF ServingInv, TypeOK, RequestInv, LookedUp, Arrive
<1>2. Prefilled(o.prompt) \in BOOLEAN
  BY DEF Prefilled
<1>3. q \in RequestType
  BY <1>1, <1>2 DEF RequestType
<1>4. Prefilled(o.prompt) => Held(o.prompt, Len(o.prompt.chunks), known)
  BY DEF Prefilled, ServingInv, RequestInv, Accounted
<1>5. /\ q.pc = "idle" /\ q.hit = None /\ q.prompt = o.prompt /\ q.out = req[r].out
      /\ q.server = o.server /\ q.warm = Prefilled(o.prompt)
  BY <1>1 DEF RequestType
<1> DEFINE lookup == [q EXCEPT !.pc = "lookup"]
           refused == [q EXCEPT !.pc = "refused", !.out = <<"error">>]
<1>6. /\ lookup \in RequestType /\ lookup.pc = "lookup" /\ lookup.hit = None
      /\ lookup.prompt = o.prompt /\ lookup.warm = Prefilled(o.prompt)
  BY <1>3, <1>5 DEF RequestType
<1>7. /\ refused \in RequestType /\ refused.pc = "refused" /\ refused.hit = None
      /\ refused.prompt = o.prompt /\ refused.warm = Prefilled(o.prompt)
  <2>1. <<"error">> \in Seq(Events)
    BY DEF Events
  <2>2. refused \in RequestType
    BY <1>3, <2>1 DEF RequestType
  <2> QED
    BY <1>3, <1>5, <2>2 DEF RequestType
<1>8. o.server = "decode" =>
         /\ Decoding(q) \in RequestType /\ Decoding(q).pc = "decode"
         /\ Decoding(q).hit = None /\ Decoding(q).prompt = o.prompt
         /\ Decoding(q).warm = Prefilled(o.prompt) /\ Decoding(q).server = "decode"
  <2>1. [q EXCEPT !.pc = "decode"] \in RequestType
    BY <1>3 DEF RequestType
  <2>2. Decoding(q) \in RequestType
    BY <2>1, YieldTyped DEF Decoding, Events
  <2> QED
    BY <1>3, <1>5, <2>2 DEF Decoding, Yield, RequestType
<1>9. /\ ServingInv
      /\ UNCHANGED <<cached, evicted>>
      /\ stats' \in [Servers -> StatsType]
  BY <1>1, CountTyped DEF Arrive, ServingInv, TypeOK
<1>10. \/ req' = [req EXCEPT ![r] = refused]
       \/ req' = [req EXCEPT ![r] = lookup]
       \/ o.server = "decode" /\ req' = [req EXCEPT ![r] = Decoding(q)]
  BY DEF Arrive
<1>11. Len(o.prompt.chunks) \in Nat
  BY <1>1 DEF Prompts
<1> HIDE DEF q, lookup, refused
<1>12. ASSUME NEW x \in RequestType,
              x.hit = None, x.prompt = o.prompt, x.warm = Prefilled(o.prompt),
              \/ x.pc \in {"lookup", "refused"}
              \/ x.pc = "decode" /\ x.server = "decode"
       PROVE  RequestInv(x, known, evicted)
  BY <1>4, <1>11, <1>12 DEF RequestInv, LookedUp, Accounted, Found, Held, None
<1>13. CASE req' = [req EXCEPT ![r] = refused]
  BY <1>7, <1>9, <1>12, <1>13, RequestStepsAlone
<1>14. CASE req' = [req EXCEPT ![r] = lookup]
  BY <1>6, <1>9, <1>12, <1>14, RequestStepsAlone
<1>15. CASE o.server = "decode" /\ req' = [req EXCEPT ![r] = Decoding(q)]
  BY <1>8, <1>9, <1>12, <1>15, RequestStepsAlone
<1> QED
  BY <1>10, <1>13, <1>14, <1>15

\* What both ways into the rest of the KV phase have in common.
LEMMA PrefillPreserves ==
    ASSUME ServingInv, NEW r \in Requests, NEW q \in RequestType,
           RequestInv(q, cached \cup evicted, evicted), q.hit \in Nat,
           Prefill(r, q), UNCHANGED <<cached, evicted>>
    PROVE  ServingInv'
<1>1. q.hit \in 0..Len(q.prompt.chunks)
  BY DEF RequestInv, LookedUp, RequestType, Prompts
<1>2. CASE (q.server = "decode" \/ Misses(q) = 0) /\ Loaded(r, q)
  <2>1. q.server # "decode" =>
           Held(q.prompt, Len(q.prompt.chunks), cached \cup evicted)
    BY <1>1, <1>2, MissesCount DEF RequestInv, Accounted
  <2>2. RequestInv(Answering(q), cached \cup evicted, evicted)
    BY <1>1, <2>1, LoadedKnows
  <2>3. TypeOK /\ Loaded(r, q)
    BY <1>2 DEF ServingInv
  <2>4. /\ Answering(q) \in RequestType
        /\ req' = [req EXCEPT ![r] = Answering(q)]
        /\ stats' \in [Servers -> StatsType]
    BY <1>1, <2>3, LoadedTyped
  <2> QED
    BY <2>2, <2>4, RequestStepsAlone
<1>3. CASE req' = [req EXCEPT ![r] = [q EXCEPT !.pc = "compute"]] /\ UNCHANGED stats
  <2> DEFINE q2 == [q EXCEPT !.pc = "compute"]
  <2>1. /\ q2 \in RequestType /\ q2.pc = "compute" /\ q2.prompt = q.prompt
        /\ q2.hit = q.hit /\ q2.warm = q.warm /\ q2.server = q.server
    BY DEF RequestType
  <2> HIDE DEF q2
  <2>2. RequestInv(q2, cached \cup evicted, evicted)
    BY <2>1, MoveKnows
  <2>3. req' = [req EXCEPT ![r] = q2] /\ stats' \in [Servers -> StatsType]
    BY <1>3 DEF q2, ServingInv, TypeOK
  <2> QED
    BY <2>1, <2>2, <2>3, RequestStepsAlone
<1> QED
  BY <1>2, <1>3 DEF Prefill

\* The lookup: everything up to the hit is in the store at this moment, and
\* what a warm request does not find has been evicted.
LEMMA LookupPreserves ==
    ASSUME ServingInv, NEW r \in Requests, LookupReturns(r)
    PROVE  ServingInv'
<1> DEFINE p == req[r].prompt
           q == [req[r] EXCEPT !.hit = Hit(p)]
           known == cached \cup evicted
<1>1. /\ req[r] \in RequestType /\ req[r].pc = "lookup"
      /\ RequestInv(req[r], known, evicted)
  BY DEF ServingInv, TypeOK, LookupReturns
<1>2. p \in Prompts /\ Len(p.chunks) \in Nat
  BY <1>1 DEF RequestType, Prompts
<1>3. /\ Hit(p) \in 0..Len(p.chunks)
      /\ \A j \in 1..Hit(p) : Path(p, j) \in cached
      /\ Hit(p) < Len(p.chunks) => Path(p, Hit(p) + 1) \notin cached
  BY <1>2, HitIsLongest
<1>4. Hit(p) \in Nat
  BY <1>3
<1>5. /\ q \in RequestType /\ q.pc = "lookup" /\ q.hit = Hit(p) /\ q.prompt = p
      /\ q.warm = req[r].warm /\ q.server = req[r].server
  BY <1>1, <1>4 DEF RequestType
<1>6. req[r].warm => Held(p, Len(p.chunks), known)
  BY <1>1 DEF RequestInv, Accounted
<1>7. ASSUME NEW x \in RequestType,
             x.hit = Hit(p), x.prompt = p, x.warm = req[r].warm, x.pc \in {"lookup", "retrieve"}
      PROVE  RequestInv(x, known, evicted)
  <2>1. LookedUp(x)
    BY <1>2, <1>3, <1>7 DEF LookedUp
  <2>2. Accounted(x, known)
    BY <1>3, <1>6, <1>7 DEF Accounted, Held
  <2>3. Found(x, evicted)
    <3> SUFFICES ASSUME x.warm, Hit(p) # Len(p.chunks)
                 PROVE  Paths(p) \cap evicted # {}
      BY <1>7 DEF Found
    <3>1. Hit(p) + 1 \in 1..Len(p.chunks) /\ Hit(p) < Len(p.chunks)
      BY <1>2, <1>3
    <3>2. Path(p, Hit(p) + 1) \in evicted
      BY <1>3, <1>6, <1>7, <3>1 DEF Held
    <3>3. Path(p, Hit(p) + 1) \in Paths(p)
      BY <3>1 DEF Path, Paths
    <3> QED
      BY <3>2, <3>3
  <2> QED
    BY <2>1, <2>2, <2>3 DEF RequestInv
<1> DEFINE q2 == [q EXCEPT !.pc = "retrieve"]
<1>8. /\ q2 \in RequestType /\ q2.hit = Hit(p) /\ q2.prompt = p /\ q2.warm = req[r].warm
      /\ q2.pc = "retrieve"
  BY <1>5 DEF RequestType
<1>9. UNCHANGED <<cached, evicted>> /\ stats \in [Servers -> StatsType]
  BY DEF LookupReturns, ServingInv, TypeOK
<1>10. \/ req' = [req EXCEPT ![r] = q2] /\ UNCHANGED stats
       \/ Prefill(r, q)
  BY DEF LookupReturns
<1> HIDE DEF q2, q, p
<1>11. RequestInv(q2, known, evicted) /\ RequestInv(q, known, evicted)
  BY <1>5, <1>7, <1>8
<1>12. CASE req' = [req EXCEPT ![r] = q2] /\ UNCHANGED stats
  BY <1>8, <1>9, <1>11, <1>12, RequestStepsAlone
<1>13. CASE Prefill(r, q)
  BY <1>4, <1>5, <1>9, <1>11, <1>13, PrefillPreserves
<1> QED
  BY <1>10, <1>12, <1>13

\* The retrieval is over.
LEMMA RetrievePreserves ==
    ASSUME ServingInv, NEW r \in Requests, RetrieveReturns(r)
    PROVE  ServingInv'
<1>1. /\ req[r] \in RequestType /\ req[r].hit \in Nat
      /\ RequestInv(req[r], cached \cup evicted, evicted)
  <2>1. req[r].pc \in {"retrieve", "compute", "store", "detached"}
    BY DEF RetrieveReturns
  <2>2. req[r].hit \in 0..Len(req[r].prompt.chunks)
    BY <2>1, HitInPrompt
  <2>3. req[r].hit \in Nat
    BY <2>2
  <2>4. req[r] \in RequestType /\ RequestInv(req[r], cached \cup evicted, evicted)
    BY DEF ServingInv, TypeOK
  <2> QED
    BY <2>3, <2>4
<1> QED
  BY <1>1, PrefillPreserves DEF RetrieveReturns

\* The prompt is computed: there is a store to do, or nothing was left to store.
LEMMA ComputePreserves ==
    ASSUME ServingInv, NEW r \in Requests, ComputeEnds(r)
    PROVE  ServingInv'
<1> DEFINE q == req[r]
           q2 == [q EXCEPT !.pc = "store"]
           known == cached \cup evicted
<1>1. /\ q \in RequestType /\ q.pc = "compute" /\ q.hit \in 0..Len(q.prompt.chunks)
      /\ RequestInv(q, known, evicted)
  BY HitInPrompt DEF ComputeEnds
<1>2. /\ q2 \in RequestType /\ q2.pc = "store" /\ q2.prompt = q.prompt
      /\ q2.hit = q.hit /\ q2.warm = q.warm /\ q2.server = q.server
  BY <1>1 DEF RequestType
<1>3. /\ UNCHANGED <<cached, evicted>> /\ stats \in [Servers -> StatsType] /\ TypeOK
      /\ \/ req' = [req EXCEPT ![r] = q2] /\ UNCHANGED stats
         \/ Len(q.prompt.chunks) <= q.hit /\ Loaded(r, q)
  BY DEF ComputeEnds, ServingInv, TypeOK
<1> HIDE DEF q, q2
<1>4. CASE req' = [req EXCEPT ![r] = q2] /\ UNCHANGED stats
  <2>1. RequestInv(q2, known, evicted)
    BY <1>1, <1>2, MoveKnows
  <2> QED
    BY <1>2, <1>3, <1>4, <2>1, RequestStepsAlone
<1>5. CASE Len(q.prompt.chunks) <= q.hit /\ Loaded(r, q)
  <2>1. q.hit = Len(q.prompt.chunks)
    BY <1>1, <1>5 DEF RequestType, Prompts
  <2>2. Held(q.prompt, Len(q.prompt.chunks), known)
    BY <1>1, <2>1 DEF RequestInv, Accounted
  <2>3. RequestInv(Answering(q), known, evicted)
    BY <1>1, <2>2, LoadedKnows
  <2>4. /\ Answering(q) \in RequestType
        /\ req' = [req EXCEPT ![r] = Answering(q)]
        /\ stats' \in [Servers -> StatsType]
    BY <1>1, <1>3, <1>5, LoadedTyped
  <2> QED
    BY <1>3, <2>3, <2>4, RequestStepsAlone
<1> QED
  BY <1>3, <1>4, <1>5

\* The store returns.
LEMMA StorePreserves ==
    ASSUME ServingInv, NEW r \in Requests, StoreReturns(r)
    PROVE  ServingInv'
<1> DEFINE q == req[r]
           known2 == cached' \cup evicted'
<1>1. /\ q \in RequestType /\ q.pc = "store" /\ q.hit \in 0..Len(q.prompt.chunks)
      /\ RequestInv(q, cached \cup evicted, evicted)
  BY HitInPrompt DEF StoreReturns
<1>2. /\ cached' = cached \cup Stored(q) /\ UNCHANGED evicted
      /\ Loaded(r, q) /\ TypeOK
  BY DEF StoreReturns, ServingInv
<1>3. /\ Held(q.prompt, Len(q.prompt.chunks), known2)
      /\ cached' \subseteq Seq(Contents)
      /\ HolesAreEvicted'
  BY <1>1, <1>2, StoreFills
<1> HIDE DEF q
<1>4. RequestInv(q, known2, evicted')
  <2>1. cached \cup evicted \subseteq known2 /\ evicted \subseteq evicted'
    BY <1>2
  <2> QED
    BY <1>1, <2>1, RequestInvMonotone
<1>5. RequestInv(Answering(q), known2, evicted')
  BY <1>1, <1>3, <1>4, LoadedKnows
<1>6. /\ Answering(q) \in RequestType
      /\ req' = [req EXCEPT ![r] = Answering(q)]
      /\ stats' \in [Servers -> StatsType]
  BY <1>1, <1>2, LoadedTyped
<1> QED
  BY <1>2, <1>3, <1>5, <1>6, RequestSteps

\* The store of a client that left returns.
LEMMA DetachedPreserves ==
    ASSUME ServingInv, NEW r \in Requests, DetachedStore(r)
    PROVE  ServingInv'
<1> DEFINE q == req[r]
           q2 == [q EXCEPT !.pc = "gone"]
           known2 == cached' \cup evicted'
<1>1. /\ q \in RequestType /\ q.pc = "detached"
      /\ RequestInv(q, cached \cup evicted, evicted)
  BY DEF ServingInv, TypeOK, DetachedStore
<1>2. /\ cached' = cached \cup Stored(q) /\ UNCHANGED evicted
      /\ req' = [req EXCEPT ![r] = q2] /\ stats' \in [Servers -> StatsType]
  BY DEF DetachedStore, ServingInv, TypeOK
<1>3. cached' \subseteq Seq(Contents) /\ HolesAreEvicted'
  BY <1>1, <1>2, StoreFills
<1>4. /\ q2 \in RequestType /\ q2.pc = "gone" /\ q2.prompt = q.prompt
      /\ q2.hit = q.hit /\ q2.warm = q.warm /\ q2.server = q.server
  BY <1>1 DEF RequestType
<1> HIDE DEF q, q2
<1>5. RequestInv(q2, known2, evicted')
  <2>1. cached \cup evicted \subseteq known2 /\ evicted \subseteq evicted'
    BY <1>2
  <2>2. RequestInv(q, known2, evicted')
    BY <1>1, <2>1, RequestInvMonotone
  <2> QED
    BY <1>1, <1>4, <2>2, MoveKnows
<1> QED
  BY <1>2, <1>3, <1>4, <1>5, RequestSteps

\* A request of which only the place, the events and the count of tokens change.
LEMMA MovePreserves ==
    ASSUME ServingInv, NEW r \in Requests, NEW q2 \in RequestType,
           req' = [req EXCEPT ![r] = q2],
           stats' \in [Servers -> StatsType], UNCHANGED <<cached, evicted>>,
           q2.prompt = req[r].prompt, q2.hit = req[r].hit,
           q2.warm = req[r].warm, q2.server = req[r].server,
           q2.pc # "idle",
           q2.pc \in {"retrieve", "compute", "store", "detached"} =>
              req[r].pc \in {"retrieve", "compute", "store", "detached"},
           q2.pc \in {"decode", "ending", "sent", "ok"} =>
              req[r].pc \in {"decode", "ending", "sent", "ok"}
    PROVE  ServingInv'
<1>1. req[r] \in RequestType /\ RequestInv(req[r], cached \cup evicted, evicted)
  BY DEF ServingInv, TypeOK
<1>2. q2.pc \in {"retrieve", "compute", "store", "detached"} => req[r].hit \in Nat
  BY <1>1 DEF RequestInv, LookedUp
<1>3. RequestInv(q2, cached \cup evicted, evicted)
  BY <1>1, <1>2, MoveKnows
<1> QED
  BY <1>3, RequestStepsAlone

\* An event changes the events of a request and what TTFT saw.
LEMMA YieldKeeps ==
    ASSUME NEW q \in RequestType, NEW e \in Events
    PROVE  /\ Yield(q, e) \in RequestType
           /\ Yield(q, e).pc = q.pc /\ Yield(q, e).prompt = q.prompt
           /\ Yield(q, e).hit = q.hit /\ Yield(q, e).warm = q.warm
           /\ Yield(q, e).server = q.server
<1>1. Yield(q, e) \in RequestType
  BY YieldTyped
<1> QED
  BY <1>1 DEF Yield, RequestType

\* A KV call raises.
LEMMA RaisesPreserves ==
    ASSUME ServingInv, NEW r \in Requests, Raises(r)
    PROVE  ServingInv'
<1> DEFINE q == req[r]
           y == Yield(q, "error")
           failed == [y EXCEPT !.pc = "failed"]
           broken == [q EXCEPT !.pc = "broken"]
<1>1. q \in RequestType /\ stats \in [Servers -> StatsType] /\ q.server \in Servers
  BY DEF ServingInv, TypeOK, RequestType
<1>2. /\ y \in RequestType /\ y.pc = q.pc /\ y.prompt = q.prompt
      /\ y.hit = q.hit /\ y.warm = q.warm /\ y.server = q.server
  BY <1>1, YieldKeeps DEF Events
<1>3. /\ UNCHANGED <<cached, evicted>>
      /\ \/ req' = [req EXCEPT ![r] = failed] /\ stats' = [stats EXCEPT ![q.server].failed = @ + 1]
         \/ req' = [req EXCEPT ![r] = broken] /\ UNCHANGED stats
  BY DEF Raises
<1>4. stats' \in [Servers -> StatsType]
  <2>1. stats' = [stats EXCEPT ![q.server].failed = @ + 1] \/ stats' = stats
    BY <1>3
  <2>2. [stats EXCEPT ![q.server].failed = @ + 1] \in [Servers -> StatsType]
    BY <1>1, CountTyped
  <2> QED
    BY <1>1, <2>1, <2>2
<1>5. /\ failed \in RequestType /\ failed.pc = "failed" /\ failed.prompt = q.prompt
      /\ failed.hit = q.hit /\ failed.warm = q.warm /\ failed.server = q.server
  <2> HIDE DEF y
  <2> QED
    BY <1>2 DEF RequestType
<1>6. /\ broken \in RequestType /\ broken.pc = "broken" /\ broken.prompt = q.prompt
      /\ broken.hit = q.hit /\ broken.warm = q.warm /\ broken.server = q.server
  BY <1>1 DEF RequestType
<1> HIDE DEF failed, broken, y
<1>7. CASE req' = [req EXCEPT ![r] = failed]
  BY <1>3, <1>4, <1>5, <1>7, MovePreserves
<1>8. CASE req' = [req EXCEPT ![r] = broken]
  BY <1>3, <1>4, <1>6, <1>8, MovePreserves
<1> QED
  BY <1>3, <1>7, <1>8

\* A token is decoded.
LEMMA TokenPreserves ==
    ASSUME ServingInv, NEW r \in Requests, Token(r)
    PROVE  ServingInv'
<1> DEFINE q == [req[r] EXCEPT !.generated = @ + 1]
           y == Yield(q, "content")
<1>1. req[r] \in RequestType /\ req[r].pc = "decode" /\ req[r].generated + 1 \in 0..MaxTokens
  BY ServingAssumption DEF ServingInv, TypeOK, Token, RequestType
<1>2. /\ q \in RequestType /\ q.pc = "decode" /\ q.prompt = req[r].prompt
      /\ q.hit = req[r].hit /\ q.warm = req[r].warm /\ q.server = req[r].server
  BY <1>1 DEF RequestType
<1>3. /\ req' = [req EXCEPT ![r] = y]
      /\ stats' \in [Servers -> StatsType] /\ UNCHANGED <<cached, evicted>>
  BY DEF Token, ServingInv, TypeOK
<1> HIDE DEF q
<1>4. /\ y \in RequestType /\ y.pc = q.pc /\ y.prompt = q.prompt
      /\ y.hit = q.hit /\ y.warm = q.warm /\ y.server = q.server
  BY <1>2, YieldKeeps DEF Events
<1> HIDE DEF y
<1> QED
  BY <1>1, <1>2, <1>3, <1>4, MovePreserves

\* A stream sends its finish reason and [DONE].
LEMMA SendEndPreserves ==
    ASSUME ServingInv, NEW r \in Requests, SendEnd(r)
    PROVE  ServingInv'
<1>1. req[r] \in RequestType /\ req[r].pc \in {"decode", "ending"}
  BY DEF ServingInv, TypeOK, SendEnd
<1>2. PICK pc \in {"ending", "sent"}, e \in {"end", "done"} :
         req' = [req EXCEPT ![r] = Yield([req[r] EXCEPT !.pc = pc], e)]
  BY DEF SendEnd
<1> DEFINE q == [req[r] EXCEPT !.pc = pc]
           y == Yield(q, e)
<1>3. /\ q \in RequestType /\ q.pc = pc /\ q.prompt = req[r].prompt
      /\ q.hit = req[r].hit /\ q.warm = req[r].warm /\ q.server = req[r].server
  BY <1>1 DEF RequestType
<1>4. /\ req' = [req EXCEPT ![r] = y]
      /\ stats' \in [Servers -> StatsType] /\ UNCHANGED <<cached, evicted>>
  BY <1>2 DEF SendEnd, ServingInv, TypeOK
<1> HIDE DEF q
<1>5. /\ y \in RequestType /\ y.pc = q.pc /\ y.prompt = q.prompt
      /\ y.hit = q.hit /\ y.warm = q.warm /\ y.server = q.server
  BY <1>3, YieldKeeps DEF Events
<1> HIDE DEF y
<1> QED
  BY <1>1, <1>3, <1>4, <1>5, MovePreserves

\* A response succeeds.
LEMMA SucceedsPreserves ==
    ASSUME ServingInv, NEW r \in Requests, Succeeds(r)
    PROVE  ServingInv'
<1> DEFINE q2 == [req[r] EXCEPT !.pc = "ok"]
<1>1. req[r] \in RequestType /\ req[r].pc \in {"decode", "sent"}
  BY DEF ServingInv, TypeOK, Succeeds
<1>2. /\ q2 \in RequestType /\ q2.pc = "ok" /\ q2.prompt = req[r].prompt
      /\ q2.hit = req[r].hit /\ q2.warm = req[r].warm /\ q2.server = req[r].server
  BY <1>1 DEF RequestType
<1>3. req' = [req EXCEPT ![r] = q2] /\ UNCHANGED <<cached, evicted>>
  BY DEF Succeeds
<1>4. stats' \in [Servers -> StatsType]
  <2>1. stats \in [Servers -> StatsType] /\ req[r].server \in Servers
    BY <1>1 DEF ServingInv, TypeOK, RequestType
  <2> QED
    BY <2>1, CountTyped DEF Succeeds
<1> HIDE DEF q2
<1> QED
  BY <1>1, <1>2, <1>3, <1>4, MovePreserves

\* A client leaves its stream.
LEMMA DisconnectPreserves ==
    ASSUME ServingInv, NEW r \in Requests, Disconnect(r)
    PROVE  ServingInv'
<1>1. req[r] \in RequestType
  BY DEF ServingInv, TypeOK
<1>2. PICK pc \in {"gone", "detached"} :
         /\ req' = [req EXCEPT ![r].pc = pc]
         /\ pc = "detached" => req[r].pc = "store"
  BY DEF Disconnect
<1> DEFINE q2 == [req[r] EXCEPT !.pc = pc]
<1>3. /\ q2 \in RequestType /\ q2.pc = pc /\ q2.prompt = req[r].prompt
      /\ q2.hit = req[r].hit /\ q2.warm = req[r].warm /\ q2.server = req[r].server
  BY <1>1 DEF RequestType
<1>4. /\ req' = [req EXCEPT ![r] = q2]
      /\ stats' \in [Servers -> StatsType] /\ UNCHANGED <<cached, evicted>>
  BY <1>2 DEF Disconnect, ServingInv, TypeOK
<1> HIDE DEF q2
<1> QED
  BY <1>2, <1>3, <1>4, MovePreserves

\* A chunk is evicted: it stays known.
LEMMA EvictPreserves ==
    ASSUME ServingInv, NEW k \in cached, Evict(k)
    PROVE  ServingInv'
<1>1. /\ cached' \cup evicted' = cached \cup evicted
      /\ evicted \subseteq evicted' /\ cached' \subseteq cached /\ UNCHANGED <<req, stats>>
  BY DEF Evict
<1>2. TypeOK'
  BY <1>1 DEF ServingInv, TypeOK
<1>3. HolesAreEvicted'
  <2>1. HolesAreEvicted
    BY DEF ServingInv
  <2>2. ASSUME NEW c \in cached', NEW j \in 1..Len(c)
        PROVE  SubSeq(c, 1, j) \in cached' \cup evicted'
    BY <1>1, <2>1 DEF HolesAreEvicted
  <2> QED
    BY <2>2 DEF HolesAreEvicted
<1>4. ASSUME NEW r \in Requests
      PROVE  RequestInv(req'[r], cached' \cup evicted', evicted')
  <2>1. RequestInv(req[r], cached \cup evicted, evicted)
    BY DEF ServingInv
  <2>2. RequestInv(req[r], cached' \cup evicted', evicted')
    BY <1>1, <2>1, RequestInvMonotone
  <2> QED
    BY <1>1, <2>2
<1> QED
  BY <1>2, <1>3, <1>4 DEF ServingInv

\* Nothing happens.
LEMMA StutterPreserves ==
    ASSUME ServingInv, UNCHANGED vars
    PROVE  ServingInv'
BY DEF ServingInv, TypeOK, HolesAreEvicted, vars

LEMMA NextPreserves == ServingInv /\ [Next]_vars => ServingInv'
<1> SUFFICES ASSUME ServingInv, [Next]_vars
             PROVE  ServingInv'
  OBVIOUS
<1>1. CASE \E r \in Requests : \E o \in Offers : Arrive(r, o)
  BY <1>1, ArrivePreserves
<1>2. CASE \E r \in Requests : Handle(r)
  <2>1. PICK r \in Requests : Handle(r)
    BY <1>2
  <2>2. CASE LookupReturns(r)
    BY <2>2, LookupPreserves
  <2>3. CASE RetrieveReturns(r)
    BY <2>3, RetrievePreserves
  <2>4. CASE ComputeEnds(r)
    BY <2>4, ComputePreserves
  <2>5. CASE StoreReturns(r)
    BY <2>5, StorePreserves
  <2>6. CASE Raises(r)
    BY <2>6, RaisesPreserves
  <2>7. CASE Token(r)
    BY <2>7, TokenPreserves
  <2>8. CASE SendEnd(r)
    BY <2>8, SendEndPreserves
  <2>9. CASE Succeeds(r)
    BY <2>9, SucceedsPreserves
  <2> QED
    BY <2>1, <2>2, <2>3, <2>4, <2>5, <2>6, <2>7, <2>8, <2>9 DEF Handle
<1>3. CASE \E r \in Requests : Disconnect(r)
  BY <1>3, DisconnectPreserves
<1>4. CASE \E r \in Requests : DetachedStore(r)
  BY <1>4, DetachedPreserves
<1>5. CASE \E k \in cached : Evict(k)
  BY <1>5, EvictPreserves
<1>6. CASE UNCHANGED vars
  BY <1>6, StutterPreserves
<1> QED
  BY <1>1, <1>2, <1>3, <1>4, <1>5, <1>6 DEF Next

-----------------------------------------------------------------------------
(* Theorems *)

LEMMA InvAlways == Spec => []ServingInv
BY InitEstablishes, NextPreserves, PTL DEF Spec

\* The requests, statistics and chunks keep their types: in particular no
\* lookup finds more than the prompt has, and no counter is negative.
THEOREM TypeCorrect == Spec => []TypeOK
<1>1. ServingInv => TypeOK
  BY DEF ServingInv
<1> QED
  BY <1>1, InvAlways, PTL

\* No request leaves a hole in the KV store: a chunk is without one before it
\* only where that one was evicted (combined.py:216-223, prefill.py:172-182).
THEOREM NoHoles == Spec => []HolesAreEvicted
<1>1. ServingInv => HolesAreEvicted
  BY DEF ServingInv
<1> QED
  BY <1>1, InvAlways, PTL

\* The hand-off of prefill to decode loses nothing: who asks again what has been
\* prefilled finds all of it, or some of it was evicted.
THEOREM HandOff == Spec => []PrefillIsFound
<1>1. ServingInv => PrefillIsFound
  BY DEF ServingInv, RequestInv, Found, PrefillIsFound
<1> QED
  BY <1>1, InvAlways, PTL

-----------------------------------------------------------------------------
(* A step of a request, as its client and as the statistics see it.        *)

\* The lemmas about streams, for those of the servers.
C == INSTANCE ChatStream_proofs
         WITH out <- [r \in Requests |-> req[r].out],
              over <- [r \in Requests |-> req[r].pc # "idle" /\ ~InFlight(req[r])]

Over(q) == q.pc # "idle" /\ ~InFlight(q)

\* The number of events a stream has sent.
Sent(q) ==
    IF q.pc = "sent" THEN MaxTokens + 3
    ELSE IF q.pc = "ending" THEN MaxTokens + 2 ELSE q.generated + 1

\* What a request has sent is the beginning of a whole stream.
StreamInv(q) ==
    /\ q.pc \in {"idle", "lookup", "retrieve", "compute", "store", "detached"} =>
          q.out = <<>> /\ q.generated = 0
    /\ q.stream /\ q.pc \in {"decode", "ending", "sent"} => C!Begins(q.out, Sent(q))

Sends(q, z) ==
    /\ ~Over(q)
    /\ ~Over(z)
    /\ \E n \in 0..(MaxTokens + 2) :
          C!Begins(q.out, n) /\ z.out = Append(q.out, C!Event(n + 1))

Ends(q, z) ==
    /\ ~Over(q)
    /\ Over(z)
    /\ z.out = q.out \/ (q.out = <<>> /\ z.out = <<"error">>)

Unseen(q, z) == z.out = q.out /\ (Over(q) <=> Over(z))

StreamStep(q, z) == StreamInv(z) /\ (Sends(q, z) \/ Ends(q, z) \/ Unseen(q, z))

\* Whether server s counts q in its total only, and whether it counts its chunks.
Pending(q, s) == q.server = s /\ (InFlight(q) \/ q.pc \in {"gone", "detached", "broken"})

Loading(q, s) ==
    /\ q.server = s
    /\ q.hit # None
    /\ \/ q.pc \in {"decode", "ending", "sent", "ok"}
       \/ q.pc = "gone" /\ q.out # <<>>

One(b) == IF b THEN 1 ELSE 0

\* The statistics of a server go from c to d with a request that goes from q to z.
Tallied(q, z, c, d, s) ==
    /\ d.total + One(Pending(q, s)) + c.success + c.failed
          = c.total + One(Pending(z, s)) + d.success + d.failed
    /\ \/ /\ Loading(q, s) <=> Loading(z, s)
          /\ Loading(q, s) => z.prompt = q.prompt
          /\ d.hits + d.misses = c.hits + c.misses
       \/ /\ ~Loading(q, s)
          /\ Loading(z, s)
          /\ d.hits + d.misses = c.hits + c.misses + Chunks(z.prompt)

\* A step of request r.
RequestStep(r) ==
    /\ \A x \in Requests \ {r} : req'[x] = req[x]
    /\ StreamStep(req[r], req'[r])
    /\ req[r].pc = "idle" \/ req[r].server = req'[r].server
    /\ \A s \in Servers \ {req'[r].server} : stats'[s] = stats[s]
    /\ LET s == req'[r].server IN Tallied(req[r], req'[r], stats[s], stats'[s], s)

\* What a step of r has to be, from where it leads.
LEMMA StepIs ==
    ASSUME TypeOK, NEW r \in Requests, NEW z, req' = [req EXCEPT ![r] = z],
           StreamStep(req[r], z), req[r].pc = "idle" \/ req[r].server = z.server,
           \A s \in Servers \ {z.server} : stats'[s] = stats[s],
           Tallied(req[r], z, stats[z.server], stats'[z.server], z.server)
    PROVE  RequestStep(r)
<1>1. req'[r] = z /\ \A x \in Requests \ {r} : req'[x] = req[x]
  BY DEF TypeOK
<1>. QED BY <1>1 DEF RequestStep

\* The events of a whole stream by what is sent when.
LEMMA EventIs ==
    /\ C!Event(1) = "role"
    /\ \A n \in 1..MaxTokens : C!Event(n + 1) = "content"
    /\ C!Event(MaxTokens + 2) = "end"
    /\ C!Event(MaxTokens + 3) = "done"
<1>1. MaxTokens \in Nat \ {0}
  BY ServingAssumption
<1>. QED BY <1>1 DEF C!Event

\* What sending the next event of a stream leads to.
LEMMA Sending ==
    ASSUME NEW q \in RequestType, NEW z \in RequestType,
           NEW n \in 0..(MaxTokens + 2), C!Begins(q.out, n), ~Over(q),
           z.pc \in {"decode", "ending", "sent"},
           NEW event, z.out = Append(q.out, event), event = C!Event(n + 1), Sent(z) = n + 1
    PROVE  StreamStep(q, z)
<1>1. MaxTokens \in Nat \ {0} /\ q.out \in Seq(C!Kinds)
  BY ServingAssumption DEF RequestType, Events, C!Kinds
<1>2. C!Begins(z.out, n + 1)
  BY <1>1, C!NextEvent
<1>3. ~Over(z)
  BY DEF Over, InFlight
<1>. QED BY <1>2, <1>3 DEF StreamStep, StreamInv, Sends

\* What the events of a request are after one more.
LEMMA YieldFields ==
    ASSUME NEW q \in RequestType, NEW e \in Events
    PROVE  /\ Yield(q, e) \in RequestType
           /\ Yield(q, e).pc = q.pc /\ Yield(q, e).stream = q.stream
           /\ Yield(q, e).generated = q.generated
           /\ Yield(q, e).prompt = q.prompt /\ Yield(q, e).hit = q.hit
           /\ Yield(q, e).server = q.server
           /\ Yield(q, e).out = IF q.stream THEN Append(q.out, e) ELSE q.out
<1>1. Yield(q, e) \in RequestType
  BY YieldTyped
<1>. QED BY <1>1 DEF Yield, RequestType

\* Rounding up, exactly.
LEMMA RoundUpIs ==
    ASSUME NEW m \in Nat, NEW c \in Nat \ {0}, NEW t \in 0..(c - 1)
    PROVE  (m * c + t + c - 1) \div c = m + (IF t > 0 THEN 1 ELSE 0)
<1>1. ASSUME NEW k \in Nat, NEW x \in 0..(c - 1) PROVE (k * c + x) \div c = k
  OBVIOUS
<1>2. CASE t = 0
  <2>1. m * c + t + c - 1 = m * c + (c - 1) /\ c - 1 \in 0..(c - 1)
    BY <1>2
  <2>. QED BY <1>1, <1>2, <2>1
<1>3. CASE t > 0
  <2>1. m * c + t + c - 1 = (m + 1) * c + (t - 1) /\ t - 1 \in 0..(c - 1) /\ m + 1 \in Nat
    BY <1>3
  <2>. QED BY <1>1, <1>3, <2>1
<1>. QED BY <1>2, <1>3

\* Hits and misses of a request are the chunks of its prompt.
LEMMA HitsAndMisses ==
    ASSUME NEW q \in RequestType, q.hit \in 0..Len(q.prompt.chunks)
    PROVE  q.hit + Misses(q) = Chunks(q.prompt) /\ Chunks(q.prompt) \in Nat /\ Misses(q) \in Nat
<1> DEFINE n == Len(q.prompt.chunks)
           h == q.hit
           t == q.prompt.tail
           m == n - h
<1>1. n \in Nat /\ h \in 0..n /\ t \in 0..(ChunkSize - 1) /\ ChunkSize \in Nat \ {0} /\ m \in Nat
  BY ServingAssumption DEF RequestType, Prompts
<1>2. Misses(q) = ((n * ChunkSize + t) - h * ChunkSize + ChunkSize - 1) \div ChunkSize
  BY DEF Misses, NumTokens
<1> HIDE DEF n, h, t
<1>3. n * ChunkSize - h * ChunkSize = m * ChunkSize
      /\ n * ChunkSize \in Nat /\ h * ChunkSize \in Nat /\ m * ChunkSize \in Nat
  BY <1>1
<1>4. (n * ChunkSize + t) - h * ChunkSize + ChunkSize - 1 = m * ChunkSize + t + ChunkSize - 1
  BY <1>1, <1>3
<1>5. (m * ChunkSize + t + ChunkSize - 1) \div ChunkSize = m + (IF t > 0 THEN 1 ELSE 0)
  <2> HIDE DEF m
  <2>. QED BY <1>1, RoundUpIs
<1>6. Misses(q) = m + (IF t > 0 THEN 1 ELSE 0)
  BY <1>2, <1>4, <1>5
<1>7. Chunks(q.prompt) = n + (IF t > 0 THEN 1 ELSE 0)
  BY DEF Chunks, n, t
<1>. QED BY <1>1, <1>6, <1>7 DEF h

\* A step that counts nothing.
LEMMA NotCounted ==
    ASSUME NEW q, NEW z, NEW c \in StatsType, NEW s,
           Pending(q, s) <=> Pending(z, s), Loading(q, s) <=> Loading(z, s),
           Loading(q, s) => z.prompt = q.prompt
    PROVE  Tallied(q, z, c, c, s)
<1>1. One(Pending(q, s)) = One(Pending(z, s)) /\ One(Pending(q, s)) \in Nat
  BY DEF One
<1>2. c.total \in Nat /\ c.success \in Nat /\ c.failed \in Nat
  BY DEF StatsType
<1>. QED BY <1>1, <1>2 DEF Tallied

\* What is known of the request a step is about.
LEMMA RequestKnown ==
    ASSUME ServingInv, NEW r \in Requests
    PROVE  /\ TypeOK /\ req[r] \in RequestType /\ req[r].server \in Servers
           /\ stats \in [Servers -> StatsType]
           /\ req[r].pc = "idle" => req[r].hit = None
           /\ MaxTokens \in Nat \ {0} /\ req[r].generated \in 0..MaxTokens
           /\ Len(req[r].prompt.chunks) \in Nat
<1>1. req[r] \in RequestType /\ TypeOK
  BY DEF ServingInv, TypeOK
<1>2. req[r].pc = "idle" => req[r].hit = None
  BY DEF ServingInv, RequestInv, LookedUp
<1>. QED BY <1>1, <1>2, ServingAssumption DEF TypeOK, RequestType, Prompts

\* A request moves on without an event and without being counted.
LEMMA Moving ==
    ASSUME ServingInv, NEW r \in Requests, StreamInv(req[r]),
           NEW z \in RequestType, req' = [req EXCEPT ![r] = z], UNCHANGED stats,
           z.out = req[r].out, z.server = req[r].server, z.prompt = req[r].prompt,
           \/ /\ req[r].pc \in {"lookup", "retrieve", "compute"}
              /\ z.pc \in {"retrieve", "compute", "store"}
              /\ z.generated = req[r].generated
           \/ /\ req[r].pc \in {"lookup", "retrieve", "store"}
              /\ z.pc = "broken"
           \/ /\ InFlight(req[r])
              /\ req[r].stream
              /\ z.hit = req[r].hit
              /\ z.pc = "gone" \/ (z.pc = "detached" /\ req[r].pc = "store")
              /\ z.generated = req[r].generated
           \/ req[r].pc = "detached" /\ z.pc = "gone"
    PROVE  RequestStep(r)
<1> DEFINE q == req[r]
<1>1. /\ TypeOK /\ q \in RequestType /\ q.server \in Servers /\ stats \in [Servers -> StatsType]
      /\ MaxTokens \in Nat \ {0} /\ q.generated \in 0..MaxTokens /\ stats[q.server] \in StatsType
  BY RequestKnown
<1>2. StreamInv(z)
  BY DEF StreamInv
<1>3. Ends(q, z) \/ Unseen(q, z)
  BY DEF Ends, Unseen, Over, InFlight
<1>4. Pending(q, q.server) <=> Pending(z, q.server)
  BY DEF Pending, InFlight
<1>5. Loading(q, q.server) <=> Loading(z, q.server)
  <2>1. CASE q.pc \in {"decode", "ending", "sent"} /\ q.stream
    <3>1. C!Begins(q.out, Sent(q)) /\ Sent(q) \in Nat \ {0} /\ q.out \in Seq(Events)
      BY <1>1, <2>1 DEF StreamInv, Sent, RequestType
    <3>2. Len(q.out) # 0
      BY <3>1 DEF C!Begins
    <3>3. q.out # <<>>
      BY <3>2
    <3>. QED BY <2>1, <3>3 DEF Loading
  <2>2. CASE q.pc \in {"lookup", "retrieve", "compute", "store", "detached"}
    <3>1. q.out = <<>>
      BY <2>2 DEF StreamInv
    <3>. QED BY <2>2, <3>1 DEF Loading
  <2>. QED BY <2>1, <2>2 DEF InFlight
<1>6. Tallied(q, z, stats[q.server], stats[q.server], q.server)
  BY <1>1, <1>4, <1>5, NotCounted
<1>. QED BY <1>1, <1>2, <1>3, <1>6, StepIs DEF StreamStep

\* The KV phase is over: what it counts, and the first event of a stream.
LEMMA KVPhaseEnds ==
    ASSUME ServingInv, NEW r \in Requests, StreamInv(req[r]),
           NEW q \in RequestType, q.hit \in 0..Len(q.prompt.chunks),
           req[r].pc \in {"lookup", "retrieve", "compute", "store"},
           q.out = req[r].out, q.stream = req[r].stream, q.server = req[r].server,
           q.generated = req[r].generated,
           Loaded(r, q)
    PROVE  RequestStep(r)
<1> DEFINE z == Answering(q)
           s == q.server
           c == stats[s]
           d == stats'[s]
<1>1. /\ TypeOK /\ req[r] \in RequestType /\ s \in Servers /\ stats \in [Servers -> StatsType]
      /\ MaxTokens \in Nat \ {0} /\ c \in StatsType
  BY RequestKnown
<1>2. q.out = <<>> /\ q.generated = 0
  BY DEF StreamInv
<1>3. z \in RequestType /\ req' = [req EXCEPT ![r] = z] /\ stats' \in [Servers -> StatsType]
  BY <1>1, LoadedTyped
<1> DEFINE x == [q EXCEPT !.pc = "decode"]
<1>4. /\ x \in RequestType /\ x.pc = "decode" /\ x.stream = q.stream /\ x.out = q.out
      /\ x.prompt = q.prompt /\ x.hit = q.hit /\ x.server = s /\ x.generated = q.generated
  BY DEF RequestType
<1>5. /\ z.server = s /\ z.prompt = q.prompt /\ z.hit = q.hit /\ z.generated = 0
      /\ z.stream = q.stream
      /\ s = "prefill" => z.pc = "ok" /\ z.out = <<>>
      /\ s # "prefill" => /\ z.pc = "decode"
                          /\ z.out = IF q.stream THEN Append(<<>>, "role") ELSE <<>>
  <2>1. CASE s = "prefill"
    BY <1>2, <2>1 DEF Answering, RequestType
  <2>2. CASE s # "prefill"
    <3>1. z = Yield(x, "role")
      BY <2>2 DEF Answering, Decoding
    <3> HIDE DEF x, z
    <3>2. /\ Yield(x, "role").pc = x.pc /\ Yield(x, "role").stream = x.stream
          /\ Yield(x, "role").generated = x.generated /\ Yield(x, "role").prompt = x.prompt
          /\ Yield(x, "role").hit = x.hit /\ Yield(x, "role").server = x.server
          /\ Yield(x, "role").out = IF x.stream THEN Append(x.out, "role") ELSE x.out
      BY <1>4, YieldFields DEF Events
    <3>. QED BY <1>2, <1>4, <2>2, <3>1, <3>2
  <2>. QED BY <2>1, <2>2
<1> HIDE DEF z, x
<1>6. StreamStep(req[r], z)
  <2>1. ~Over(req[r]) /\ req[r].out = <<>>
    BY <1>2 DEF Over, InFlight
  <2>2. CASE s = "prefill"
    BY <1>2, <1>5, <2>1, <2>2 DEF StreamStep, StreamInv, Ends, Over, InFlight
  <2>3. CASE s # "prefill" /\ ~q.stream
    BY <1>2, <1>5, <2>1, <2>3 DEF StreamStep, StreamInv, Unseen, Over, InFlight
  <2>4. CASE s # "prefill" /\ q.stream
    <3>1. C!Begins(req[r].out, 0) /\ Sent(z) = 0 + 1 /\ 0 \in 0..(MaxTokens + 2)
          /\ "role" = C!Event(0 + 1)
      BY <1>1, <1>5, <2>1, <2>4, EventIs DEF C!Begins, Sent
    <3>2. z.out = Append(req[r].out, "role") /\ z.pc \in {"decode", "ending", "sent"}
      BY <1>5, <2>1, <2>4
    <3>. QED BY <1>1, <1>3, <2>1, <3>1, <3>2, Sending
  <2>. QED BY <2>2, <2>3, <2>4
<1>7. /\ d.total = c.total /\ d.failed = c.failed
      /\ d.success = c.success + (IF s = "prefill" THEN 1 ELSE 0)
      /\ d.hits = c.hits + q.hit /\ d.misses = c.misses + Misses(q)
      /\ \A y \in Servers \ {s} : stats'[y] = stats[y]
  <2>1. d = Counted(c, q) /\ \A y \in Servers \ {s} : stats'[y] = stats[y]
    BY <1>1 DEF Loaded
  <2> HIDE DEF c, d, s
  <2>2. /\ d.hits = c.hits + q.hit /\ d.misses = c.misses + Misses(q)
        /\ d.total = c.total /\ d.failed = c.failed
        /\ d.success = c.success + (IF s = "prefill" THEN 1 ELSE 0)
    BY <1>1, <2>1 DEF Counted, StatsType, s
  <2>. QED BY <2>1, <2>2
<1>8. q.hit + Misses(q) = Chunks(q.prompt) /\ Chunks(q.prompt) \in Nat /\ Misses(q) \in Nat
      /\ q.hit \in Nat
  BY HitsAndMisses
<1>9. Tallied(req[r], z, c, d, s)
  <2>1. /\ c.total \in Nat /\ c.success \in Nat /\ c.failed \in Nat
        /\ c.hits \in Nat /\ c.misses \in Nat
    BY <1>1 DEF StatsType
  <2>2. Pending(req[r], s) /\ (Pending(z, s) <=> s # "prefill")
    BY <1>5 DEF Pending, InFlight
  <2>3. ~Loading(req[r], s) /\ Loading(z, s)
    BY <1>5, <1>8 DEF Loading, None
  <2> HIDE DEF c, d, s
  <2>4. One(Pending(req[r], s)) = 1 /\ One(Pending(z, s)) = IF s = "prefill" THEN 0 ELSE 1
    BY <2>2 DEF One
  <2>5. d.total + One(Pending(req[r], s)) + c.success + c.failed
           = c.total + One(Pending(z, s)) + d.success + d.failed
    <3>1. CASE s = "prefill"
      <4>1. d.success = c.success + 1 /\ One(Pending(z, s)) = 0
        BY <1>7, <2>4, <3>1
      <4>2. d.total = c.total /\ d.failed = c.failed /\ One(Pending(req[r], s)) = 1
        BY <1>7, <2>4
      <4>3. ASSUME NEW a \in Nat, NEW b \in Nat, NEW e \in Nat
            PROVE  a + 1 + b + e = a + 0 + (b + 1) + e
        OBVIOUS
      <4>4. c.total + 1 + c.success + c.failed = c.total + 0 + (c.success + 1) + c.failed
        BY <2>1, <4>3
      <4>. QED BY <4>1, <4>2, <4>4
    <3>2. CASE s # "prefill"
      <4>1. d.success = c.success /\ One(Pending(z, s)) = 1
        BY <1>7, <2>1, <2>4, <3>2
      <4>2. d.total = c.total /\ d.failed = c.failed /\ One(Pending(req[r], s)) = 1
        BY <1>7, <2>4
      <4>. QED BY <2>1, <4>1, <4>2
    <3>. QED BY <3>1, <3>2
  <2>6. d.hits + d.misses = c.hits + c.misses + Chunks(z.prompt)
    BY <1>5, <1>7, <1>8, <2>1
  <2>. QED BY <2>3, <2>5, <2>6 DEF Tallied
<1>. QED BY <1>1, <1>3, <1>5, <1>6, <1>7, <1>9, StepIs

\* A request arrives: a refused stream is not counted, any other is.
LEMMA ArriveIsStep ==
    ASSUME ServingInv, NEW r \in Requests, StreamInv(req[r]), NEW o \in Offers, Arrive(r, o)
    PROVE  RequestStep(r)
<1> DEFINE q == [req[r] EXCEPT !.server = o.server, !.stream = o.stream,
                               !.prompt = o.prompt, !.warm = Prefilled(o.prompt)]
           s == o.server
           c == stats[s]
<1>1. /\ TypeOK /\ req[r] \in RequestType /\ stats \in [Servers -> StatsType]
      /\ MaxTokens \in Nat \ {0} /\ req[r].pc = "idle" /\ req[r].hit = None
      /\ o.server \in Servers /\ o.stream \in BOOLEAN /\ o.prompt \in Prompts
      /\ c \in StatsType
  <2>1. TypeOK /\ req[r] \in RequestType /\ stats \in [Servers -> StatsType]
        /\ MaxTokens \in Nat \ {0} /\ req[r].pc = "idle" /\ req[r].hit = None
    BY RequestKnown DEF Arrive
  <2>2. o.server \in Servers /\ o.stream \in BOOLEAN /\ o.prompt \in Prompts
    BY ServingAssumption
  <2>. QED BY <2>1, <2>2
<1>2. Prefilled(o.prompt) \in BOOLEAN /\ req[r].out = <<>> /\ req[r].generated = 0 /\ ~Over(req[r])
  BY <1>1 DEF Prefilled, StreamInv, Over
<1>3. /\ q \in RequestType /\ q.pc = "idle" /\ q.hit = None /\ q.out = <<>> /\ q.generated = 0
      /\ q.server = s /\ q.stream = o.stream /\ q.prompt = o.prompt
  BY <1>1, <1>2 DEF RequestType
<1> HIDE DEF q
<1>4. ~Pending(req[r], s) /\ ~Loading(req[r], s)
  BY <1>1 DEF Pending, Loading, InFlight
<1>5. ASSUME NEW z, req' = [req EXCEPT ![r] = z], z.server = s, UNCHANGED stats,
             z.pc = "refused", z.out = <<"error">>
      PROVE  RequestStep(r)
  <2>1. StreamStep(req[r], z)
    BY <1>2, <1>5 DEF StreamStep, StreamInv, Ends, Over, InFlight
  <2>2. ~Pending(z, s) /\ ~Loading(z, s)
    BY <1>5 DEF Pending, Loading, InFlight
  <2>3. Tallied(req[r], z, c, c, s)
    BY <1>1, <1>4, <2>2, NotCounted
  <2>. QED BY <1>1, <1>5, <2>1, <2>3, StepIs
<1>6. ASSUME NEW z, req' = [req EXCEPT ![r] = z], z.server = s,
             stats' = [stats EXCEPT ![s].total = @ + 1],
             z.pc \in {"lookup", "decode"}, z.hit = None, StreamStep(req[r], z)
      PROVE  RequestStep(r)
  <2>1. Pending(z, s) /\ ~Loading(z, s)
    BY <1>6 DEF Pending, Loading, InFlight
  <2>2. One(Pending(req[r], s)) = 0 /\ One(Pending(z, s)) = 1
    BY <1>4, <2>1 DEF One
  <2>3. /\ stats'[s].total = c.total + 1 /\ stats'[s].success = c.success
        /\ stats'[s].failed = c.failed /\ stats'[s].hits = c.hits /\ stats'[s].misses = c.misses
        /\ \A x \in Servers \ {s} : stats'[x] = stats[x]
    <3>1. stats'[s] = [c EXCEPT !.total = @ + 1] /\ \A x \in Servers \ {s} : stats'[x] = stats[x]
      BY <1>1, <1>6
    <3>. QED BY <1>1, <3>1 DEF StatsType
  <2>4. c.total \in Nat /\ c.success \in Nat /\ c.failed \in Nat
    BY <1>1 DEF StatsType
  <2> HIDE DEF c
  <2>5. stats'[s].total + One(Pending(req[r], s)) + c.success + c.failed
           = c.total + One(Pending(z, s)) + stats'[s].success + stats'[s].failed
    BY <2>2, <2>3, <2>4
  <2>6. Tallied(req[r], z, c, stats'[s], s)
    BY <1>4, <2>1, <2>3, <2>5 DEF Tallied
  <2>. QED BY <1>1, <1>6, <2>3, <2>6, StepIs DEF c
<1>7. CASE req' = [req EXCEPT ![r] = [q EXCEPT !.pc = "refused", !.out = <<"error">>]] /\ UNCHANGED stats
  <2> DEFINE z == [q EXCEPT !.pc = "refused", !.out = <<"error">>]
  <2>1. z.server = s /\ z.pc = "refused" /\ z.out = <<"error">>
    BY <1>3 DEF RequestType
  <2> HIDE DEF z
  <2>2. req' = [req EXCEPT ![r] = z]
    BY <1>7 DEF z
  <2>. QED BY <1>5, <1>7, <2>1, <2>2
<1>8. CASE /\ req' = [req EXCEPT ![r] = [q EXCEPT !.pc = "lookup"]]
           /\ stats' = [stats EXCEPT ![o.server].total = @ + 1]
  <2> DEFINE z == [q EXCEPT !.pc = "lookup"]
  <2>1. z.server = s /\ z.pc = "lookup" /\ z.hit = None /\ z.out = <<>> /\ z.generated = 0
    BY <1>3 DEF RequestType
  <2>2. req' = [req EXCEPT ![r] = z]
    BY <1>8
  <2> HIDE DEF z
  <2>3. StreamStep(req[r], z)
    BY <1>2, <2>1 DEF StreamStep, StreamInv, Unseen, Over, InFlight
  <2>. QED BY <1>6, <1>8, <2>1, <2>2, <2>3
<1>9. CASE /\ req' = [req EXCEPT ![r] = Decoding(q)]
           /\ stats' = [stats EXCEPT ![o.server].total = @ + 1]
  <2> DEFINE x == [q EXCEPT !.pc = "decode"]
             z == Yield(x, "role")
  <2>1. /\ x \in RequestType /\ x.pc = "decode" /\ x.hit = None /\ x.out = <<>>
        /\ x.generated = 0 /\ x.server = s /\ x.stream = o.stream
    BY <1>3 DEF RequestType
  <2> HIDE DEF x
  <2>2. /\ z \in RequestType /\ z.pc = x.pc /\ z.stream = x.stream /\ z.generated = x.generated
        /\ z.hit = x.hit /\ z.server = x.server
        /\ z.out = IF x.stream THEN Append(x.out, "role") ELSE x.out
    BY <2>1, YieldFields DEF Events
  <2>3. req' = [req EXCEPT ![r] = z]
    BY <1>9 DEF Decoding, x
  <2> HIDE DEF z
  <2>4. CASE ~x.stream
    <3>1. StreamStep(req[r], z)
      BY <1>2, <2>1, <2>2, <2>4 DEF StreamStep, StreamInv, Unseen, Over, InFlight
    <3>. QED BY <1>6, <1>9, <2>1, <2>2, <2>3, <3>1
  <2>5. CASE x.stream
    <3>1. C!Begins(req[r].out, 0) /\ Sent(z) = 0 + 1 /\ 0 \in 0..(MaxTokens + 2)
          /\ "role" = C!Event(0 + 1)
      BY <1>1, <1>2, <2>1, <2>2, EventIs DEF C!Begins, Sent
    <3>2. z.out = Append(req[r].out, "role") /\ z.pc \in {"decode", "ending", "sent"}
      BY <1>2, <2>1, <2>2, <2>5
    <3>3. StreamStep(req[r], z)
      BY <1>1, <1>2, <2>2, <3>1, <3>2, Sending
    <3>. QED BY <1>6, <1>9, <2>1, <2>2, <2>3, <3>3
  <2>. QED BY <2>4, <2>5
<1>. QED BY <1>7, <1>8, <1>9 DEF Arrive, q

\* What follows the lookup and the retrieval.
LEMMA PrefillIsStep ==
    ASSUME ServingInv, NEW r \in Requests, StreamInv(req[r]),
           NEW q \in RequestType, q.hit \in 0..Len(q.prompt.chunks),
           req[r].pc \in {"lookup", "retrieve"},
           q.out = req[r].out, q.stream = req[r].stream, q.server = req[r].server,
           q.generated = req[r].generated, q.prompt = req[r].prompt,
           Prefill(r, q)
    PROVE  RequestStep(r)
<1>1. CASE Loaded(r, q)
  BY <1>1, KVPhaseEnds
<1>2. CASE req' = [req EXCEPT ![r] = [q EXCEPT !.pc = "compute"]] /\ UNCHANGED stats
  <2> DEFINE z == [q EXCEPT !.pc = "compute"]
  <2>1. /\ z \in RequestType /\ z.pc = "compute" /\ z.out = req[r].out /\ z.server = req[r].server
        /\ z.prompt = req[r].prompt /\ z.generated = req[r].generated
    BY DEF RequestType
  <2>2. req' = [req EXCEPT ![r] = z]
    BY <1>2
  <2> HIDE DEF z
  <2>. QED BY <1>2, <2>1, <2>2, Moving
<1>. QED BY <1>1, <1>2 DEF Prefill

\* The calls of the KV phase and the computation return.
LEMMA KVIsStep ==
    ASSUME ServingInv, NEW r \in Requests, StreamInv(req[r]),
           LookupReturns(r) \/ RetrieveReturns(r) \/ ComputeEnds(r) \/ StoreReturns(r)
    PROVE  RequestStep(r)
<1>1. req[r] \in RequestType /\ req[r].prompt \in Prompts
  BY RequestKnown DEF RequestType
<1>2. CASE LookupReturns(r)
  <2> DEFINE h == Hit(req[r].prompt)
             q == [req[r] EXCEPT !.hit = h]
             z == [q EXCEPT !.pc = "retrieve"]
  <2>1. h \in 0..Len(req[r].prompt.chunks)
    BY <1>1, HitIsLongest
  <2>2. h \in Nat
    BY <1>1, <2>1 DEF Prompts
  <2> HIDE DEF h
  <2>3. /\ q \in RequestType /\ q.hit = h /\ q.out = req[r].out /\ q.stream = req[r].stream
        /\ q.server = req[r].server /\ q.generated = req[r].generated
        /\ q.prompt = req[r].prompt
    BY <1>1, <2>2 DEF RequestType
  <2>4. /\ req[r].pc = "lookup"
        /\ \/ req' = [req EXCEPT ![r] = z] /\ UNCHANGED stats
           \/ Prefill(r, q)
    BY <1>2 DEF LookupReturns, h
  <2> HIDE DEF q
  <2>5. /\ z \in RequestType /\ z.pc = "retrieve" /\ z.out = q.out /\ z.server = q.server
        /\ z.prompt = q.prompt /\ z.generated = q.generated
    BY <2>3 DEF RequestType
  <2> HIDE DEF z
  <2>6. CASE req' = [req EXCEPT ![r] = z] /\ UNCHANGED stats
    BY <2>3, <2>4, <2>5, <2>6, Moving
  <2>7. CASE Prefill(r, q)
    <3>1. q.hit \in 0..Len(q.prompt.chunks)
      BY <2>1, <2>3
    <3>2. req[r].pc \in {"lookup", "retrieve"}
      BY <2>4
    <3>. QED BY <2>3, <2>7, <3>1, <3>2, PrefillIsStep
  <2>. QED BY <2>4, <2>6, <2>7
<1>3. CASE RetrieveReturns(r)
  <2>1. req[r].pc = "retrieve" /\ Prefill(r, req[r])
    BY <1>3 DEF RetrieveReturns
  <2>2. req[r].hit \in 0..Len(req[r].prompt.chunks)
    BY <2>1, HitInPrompt
  <2>. QED BY <1>1, <2>1, <2>2, PrefillIsStep
<1>4. CASE ComputeEnds(r)
  <2> DEFINE z == [req[r] EXCEPT !.pc = "store"]
  <2>1. /\ req[r].pc = "compute"
        /\ \/ req' = [req EXCEPT ![r] = z] /\ UNCHANGED stats
           \/ Loaded(r, req[r])
    BY <1>4 DEF ComputeEnds
  <2>2. req[r].hit \in 0..Len(req[r].prompt.chunks)
    BY <2>1, HitInPrompt
  <2>3. /\ z \in RequestType /\ z.pc = "store" /\ z.out = req[r].out /\ z.server = req[r].server
        /\ z.prompt = req[r].prompt /\ z.generated = req[r].generated
    BY <1>1 DEF RequestType
  <2> HIDE DEF z
  <2>4. CASE req' = [req EXCEPT ![r] = z] /\ UNCHANGED stats
    BY <2>1, <2>3, <2>4, Moving
  <2>5. CASE Loaded(r, req[r])
    BY <1>1, <2>1, <2>2, <2>5, KVPhaseEnds
  <2>. QED BY <2>1, <2>4, <2>5
<1>5. CASE StoreReturns(r)
  <2>1. req[r].pc = "store" /\ Loaded(r, req[r])
    BY <1>5 DEF StoreReturns
  <2>2. req[r].hit \in 0..Len(req[r].prompt.chunks)
    BY <2>1, HitInPrompt
  <2>. QED BY <1>1, <2>1, <2>2, KVPhaseEnds
<1>. QED BY <1>2, <1>3, <1>4, <1>5

\* A KV call raises.
LEMMA RaisesIsStep ==
    ASSUME ServingInv, NEW r \in Requests, StreamInv(req[r]), Raises(r)
    PROVE  RequestStep(r)
<1> DEFINE q == req[r]
           s == q.server
           c == stats[s]
           y == Yield(q, "error")
           failed == [y EXCEPT !.pc = "failed"]
           broken == [q EXCEPT !.pc = "broken"]
<1>1. /\ TypeOK /\ q \in RequestType /\ stats \in [Servers -> StatsType] /\ s \in Servers
      /\ c \in StatsType
  BY RequestKnown
<1>2. q.pc \in {"lookup", "retrieve", "store"} /\ q.out = <<>> /\ ~Over(q)
  BY DEF Raises, StreamInv, Over, InFlight
<1>3. \/ req' = [req EXCEPT ![r] = failed] /\ stats' = [stats EXCEPT ![s].failed = @ + 1]
      \/ req' = [req EXCEPT ![r] = broken] /\ UNCHANGED stats
  BY DEF Raises
<1>4. CASE req' = [req EXCEPT ![r] = failed] /\ stats' = [stats EXCEPT ![s].failed = @ + 1]
  <2>1. /\ y \in RequestType /\ y.server = s
        /\ y.out = IF q.stream THEN Append(q.out, "error") ELSE q.out
    BY <1>1, YieldFields DEF Events
  <2> HIDE DEF y
  <2>2. failed.pc = "failed" /\ failed.server = s /\ failed.out = y.out
    BY <2>1 DEF RequestType
  <2>3. req' = [req EXCEPT ![r] = failed]
    BY <1>4
  <2> HIDE DEF failed
  <2>4. Append(<<>>, "error") = <<"error">>
    OBVIOUS
  <2>5. StreamStep(q, failed)
    BY <1>2, <2>1, <2>2, <2>4 DEF StreamStep, StreamInv, Ends, Over, InFlight
  <2>6. One(Pending(q, s)) = 1 /\ One(Pending(failed, s)) = 0
    BY <1>2, <2>2 DEF Pending, InFlight, One
  <2>7. ~Loading(q, s) /\ ~Loading(failed, s)
    BY <1>2, <2>2 DEF Loading
  <2>8. /\ stats'[s].failed = c.failed + 1 /\ stats'[s].success = c.success
        /\ stats'[s].total = c.total /\ stats'[s].hits = c.hits /\ stats'[s].misses = c.misses
        /\ \A x \in Servers \ {s} : stats'[x] = stats[x]
    <3>1. stats'[s] = [c EXCEPT !.failed = @ + 1] /\ \A x \in Servers \ {s} : stats'[x] = stats[x]
      BY <1>1, <1>4
    <3>. QED BY <1>1, <3>1 DEF StatsType
  <2>9. c.total \in Nat /\ c.success \in Nat /\ c.failed \in Nat
    BY <1>1 DEF StatsType
  <2> HIDE DEF c
  <2>10. stats'[s].total + One(Pending(q, s)) + c.success + c.failed
           = c.total + One(Pending(failed, s)) + stats'[s].success + stats'[s].failed
    BY <2>6, <2>8, <2>9
  <2>11. Tallied(q, failed, c, stats'[s], s)
    BY <2>7, <2>8, <2>10 DEF Tallied
  <2>. QED BY <1>1, <2>2, <2>3, <2>5, <2>8, <2>11, StepIs DEF c
<1>5. CASE req' = [req EXCEPT ![r] = broken] /\ UNCHANGED stats
  <2>1. /\ broken \in RequestType /\ broken.pc = "broken" /\ broken.out = q.out
        /\ broken.server = s /\ broken.prompt = q.prompt
    BY <1>1 DEF RequestType
  <2> HIDE DEF broken
  <2>. QED BY <1>2, <1>5, <2>1, Moving
<1>. QED BY <1>3, <1>4, <1>5

\* An event of a response in its decode phase.
LEMMA EventIsStep ==
    ASSUME ServingInv, NEW r \in Requests, StreamInv(req[r]), Token(r) \/ SendEnd(r)
    PROVE  RequestStep(r)
<1> DEFINE q == req[r]
           s == q.server
<1>1. /\ TypeOK /\ q \in RequestType /\ stats \in [Servers -> StatsType] /\ s \in Servers
      /\ stats[s] \in StatsType /\ MaxTokens \in Nat \ {0} /\ q.generated \in 0..MaxTokens
  BY RequestKnown
<1>2. ASSUME NEW x \in RequestType, NEW e \in Events, req' = [req EXCEPT ![r] = Yield(x, e)],
             UNCHANGED stats, q.pc \in {"decode", "ending"}, x.pc \in {"decode", "ending", "sent"},
             x.server = s, x.hit = q.hit, x.prompt = q.prompt, x.out = q.out, x.stream = q.stream,
             NEW n \in 0..(MaxTokens + 2), q.stream => Sent(q) = n,
             Sent(x) = n + 1, e = C!Event(n + 1)
      PROVE  RequestStep(r)
  <2> DEFINE z == Yield(x, e)
  <2>1. /\ z \in RequestType /\ z.pc = x.pc /\ z.stream = x.stream /\ z.generated = x.generated
        /\ z.hit = x.hit /\ z.server = x.server /\ z.prompt = x.prompt
        /\ z.out = IF x.stream THEN Append(x.out, e) ELSE x.out
    BY <1>2, YieldFields
  <2>2. req' = [req EXCEPT ![r] = z]
    BY <1>2
  <2> HIDE DEF z
  <2>3. ~Over(q) /\ ~Over(z)
    BY <1>2, <2>1 DEF Over, InFlight
  <2>4. StreamStep(q, z)
    <3>1. CASE q.stream
      <4>1. C!Begins(q.out, n)
        BY <1>2, <3>1 DEF StreamInv
      <4>2. Sent(z) = n + 1 /\ z.out = Append(q.out, e) /\ z.pc \in {"decode", "ending", "sent"}
        BY <1>2, <2>1, <3>1 DEF Sent
      <4>. QED BY <1>1, <1>2, <2>1, <2>3, <4>1, <4>2, Sending
    <3>2. CASE ~q.stream
      BY <1>2, <2>1, <2>3, <3>2 DEF StreamStep, StreamInv, Unseen
    <3>. QED BY <3>1, <3>2
  <2>5. Tallied(q, z, stats[s], stats[s], s)
    <3>1. (Pending(q, s) <=> Pending(z, s)) /\ (Loading(q, s) <=> Loading(z, s))
      BY <1>2, <2>1 DEF Pending, Loading, InFlight
    <3>. QED BY <1>1, <1>2, <2>1, <3>1, NotCounted
  <2>. QED BY <1>1, <1>2, <2>1, <2>2, <2>4, <2>5, StepIs
<1>3. CASE Token(r)
  <2> DEFINE x == [q EXCEPT !.generated = @ + 1]
             n == q.generated + 1
  <2>1. q.pc = "decode" /\ q.generated < MaxTokens /\ UNCHANGED stats
        /\ req' = [req EXCEPT ![r] = Yield(x, "content")]
    BY <1>3 DEF Token
  <2>2. n \in 0..(MaxTokens + 2) /\ n \in 1..MaxTokens /\ n \in 0..MaxTokens
    BY <1>1, <2>1
  <2>3. /\ x \in RequestType /\ x.pc = "decode" /\ x.server = s /\ x.hit = q.hit
        /\ x.prompt = q.prompt /\ x.out = q.out /\ x.stream = q.stream /\ x.generated = n
    BY <1>1, <2>1, <2>2 DEF RequestType
  <2>4. Sent(q) = n /\ Sent(x) = n + 1 /\ "content" = C!Event(n + 1) /\ "content" \in Events
    BY <2>1, <2>2, <2>3, EventIs DEF Sent, Events
  <2> HIDE DEF x, n
  <2>. QED BY <1>2, <2>1, <2>2, <2>3, <2>4
<1>4. CASE SendEnd(r)
  <2>1. CASE /\ q.pc = "decode" /\ q.generated = MaxTokens
             /\ req' = [req EXCEPT ![r] = Yield([q EXCEPT !.pc = "ending"], "end")]
    <3> DEFINE x == [q EXCEPT !.pc = "ending"]
               n == MaxTokens + 1
    <3>1. /\ x \in RequestType /\ x.pc = "ending" /\ x.server = s /\ x.hit = q.hit
          /\ x.prompt = q.prompt /\ x.out = q.out /\ x.stream = q.stream
      BY <1>1, <2>1 DEF RequestType
    <3>2. Sent(q) = n /\ Sent(x) = n + 1 /\ "end" = C!Event(n + 1) /\ "end" \in Events
          /\ n \in 0..(MaxTokens + 2)
      <4>1. n + 1 = MaxTokens + 2 /\ n \in 0..(MaxTokens + 2)
        BY <1>1
      <4>2. Sent(q) = n /\ Sent(x) = MaxTokens + 2 /\ "end" \in Events
        BY <2>1, <3>1 DEF Sent, Events
      <4>. QED BY <4>1, <4>2, EventIs
    <3>3. req' = [req EXCEPT ![r] = Yield(x, "end")] /\ UNCHANGED stats
      BY <1>4, <2>1 DEF SendEnd
    <3> HIDE DEF x, n
    <3>. QED BY <1>2, <2>1, <3>1, <3>2, <3>3
  <2>2. CASE /\ q.pc = "ending"
             /\ req' = [req EXCEPT ![r] = Yield([q EXCEPT !.pc = "sent"], "done")]
    <3> DEFINE x == [q EXCEPT !.pc = "sent"]
               n == MaxTokens + 2
    <3>1. /\ x \in RequestType /\ x.pc = "sent" /\ x.server = s /\ x.hit = q.hit
          /\ x.prompt = q.prompt /\ x.out = q.out /\ x.stream = q.stream
      BY <1>1, <2>2 DEF RequestType
    <3>2. Sent(q) = n /\ Sent(x) = n + 1 /\ "done" = C!Event(n + 1) /\ "done" \in Events
          /\ n \in 0..(MaxTokens + 2)
      <4>1. n + 1 = MaxTokens + 3 /\ n \in 0..(MaxTokens + 2)
        BY <1>1
      <4>2. Sent(q) = n /\ Sent(x) = MaxTokens + 3 /\ "done" \in Events
        BY <2>2, <3>1 DEF Sent, Events
      <4>. QED BY <4>1, <4>2, EventIs
    <3>3. req' = [req EXCEPT ![r] = Yield(x, "done")] /\ UNCHANGED stats
      BY <1>4, <2>2 DEF SendEnd
    <3> HIDE DEF x, n
    <3>. QED BY <1>2, <2>2, <3>1, <3>2, <3>3
  <2>. QED BY <1>4, <2>1, <2>2 DEF SendEnd
<1>. QED BY <1>3, <1>4

\* A response succeeds.
LEMMA SucceedsIsStep ==
    ASSUME ServingInv, NEW r \in Requests, StreamInv(req[r]), Succeeds(r)
    PROVE  RequestStep(r)
<1> DEFINE q == req[r]
           s == q.server
           c == stats[s]
           z == [q EXCEPT !.pc = "ok"]
<1>1. /\ TypeOK /\ q \in RequestType /\ stats \in [Servers -> StatsType] /\ s \in Servers
      /\ c \in StatsType
  BY RequestKnown
<1>2. q.pc \in {"decode", "sent"} /\ req' = [req EXCEPT ![r] = z]
      /\ stats' = [stats EXCEPT ![s].success = @ + 1, ![s].completion = @ + MaxTokens]
  BY DEF Succeeds
<1>3. z.pc = "ok" /\ z.server = s /\ z.hit = q.hit /\ z.prompt = q.prompt /\ z.out = q.out
  BY <1>1 DEF RequestType
<1> HIDE DEF z
<1>4. StreamStep(q, z)
  BY <1>2, <1>3 DEF StreamStep, StreamInv, Ends, Over, InFlight
<1>5. One(Pending(q, s)) = 1 /\ One(Pending(z, s)) = 0 /\ (Loading(q, s) <=> Loading(z, s))
  BY <1>2, <1>3 DEF Pending, Loading, InFlight, One
<1>6. /\ stats'[s].failed = c.failed /\ stats'[s].success = c.success + 1
      /\ stats'[s].total = c.total /\ stats'[s].hits = c.hits /\ stats'[s].misses = c.misses
      /\ \A x \in Servers \ {s} : stats'[x] = stats[x]
  <2>1. stats'[s] = [c EXCEPT !.success = @ + 1, !.completion = @ + MaxTokens]
        /\ \A x \in Servers \ {s} : stats'[x] = stats[x]
    BY <1>1, <1>2
  <2>. QED BY <1>1, <2>1 DEF StatsType
<1>7. c.total \in Nat /\ c.success \in Nat /\ c.failed \in Nat
  BY <1>1 DEF StatsType
<1> HIDE DEF c
<1>8. stats'[s].total + One(Pending(q, s)) + c.success + c.failed
        = c.total + One(Pending(z, s)) + stats'[s].success + stats'[s].failed
  BY <1>5, <1>6, <1>7
<1>9. Tallied(q, z, c, stats'[s], s)
  BY <1>3, <1>5, <1>6, <1>8 DEF Tallied
<1>. QED BY <1>1, <1>2, <1>3, <1>4, <1>6, <1>9, StepIs DEF c

\* A client leaves, and what it left behind ends.
LEMMA LeavingIsStep ==
    ASSUME ServingInv, NEW r \in Requests, StreamInv(req[r]), Disconnect(r) \/ DetachedStore(r)
    PROVE  RequestStep(r)
<1> DEFINE q == req[r]
<1>1. q \in RequestType
  BY RequestKnown
<1>2. PICK pc \in {"gone", "detached"} :
         /\ req' = [req EXCEPT ![r].pc = pc] /\ UNCHANGED stats
         /\ \/ InFlight(q) /\ q.stream /\ (pc = "gone" \/ (pc = "detached" /\ q.pc = "store"))
            \/ q.pc = "detached" /\ pc = "gone"
  BY DEF Disconnect, DetachedStore
<1> DEFINE z == [q EXCEPT !.pc = pc]
<1>3. /\ z \in RequestType /\ z.pc = pc /\ z.out = q.out /\ z.server = q.server
      /\ z.prompt = q.prompt /\ z.hit = q.hit /\ z.generated = q.generated
  BY <1>1 DEF RequestType
<1>4. req' = [req EXCEPT ![r] = z]
  BY <1>2
<1> HIDE DEF z
<1>. QED BY <1>2, <1>3, <1>4, Moving

-----------------------------------------------------------------------------
(* The statistics account for every request and every chunk.               *)

PendingAt(s) == {r \in Requests : Pending(req[r], s)}

LoadingAt(s) == {r \in Requests : Loading(req[r], s)}

ChunksAt(s) == UNION {{r} \X (1..Chunks(req[r].prompt)) : r \in LoadingAt(s)}

StatsInv(s) ==
    /\ IsFiniteSet(PendingAt(s))
    /\ stats[s].total = stats[s].success + stats[s].failed + Cardinality(PendingAt(s))
    /\ IsFiniteSet(ChunksAt(s))
    /\ stats[s].hits + stats[s].misses = Cardinality(ChunksAt(s))

\* The chunks of a prompt are a number.
LEMMA ChunksNat ==
    ASSUME NEW p \in Prompts PROVE Chunks(p) \in Nat
<1> DEFINE n == Len(p.chunks)
           t == p.tail
<1>1. n \in Nat /\ t \in Int
  BY ServingAssumption DEF Prompts
<1>2. Chunks(p) = n + (IF t > 0 THEN 1 ELSE 0)
  BY DEF Chunks
<1> HIDE DEF n, t
<1>. QED BY <1>1, <1>2

\* A set with or without one element.
LEMMA OneMoves ==
    ASSUME NEW A, NEW B, NEW x, IsFiniteSet(A), A \ {x} = B \ {x}
    PROVE  /\ IsFiniteSet(B)
           /\ Cardinality(A) \in Nat /\ Cardinality(B) \in Nat
           /\ Cardinality(B) + One(x \in A) = Cardinality(A) + One(x \in B)
<1> DEFINE S == A \ {x}
<1>1. IsFiniteSet(S) /\ Cardinality(S) \in Nat /\ x \notin S
  BY FS_Difference, FS_Singleton, FS_CardinalityType
<1>2. IsFiniteSet(S \cup {x}) /\ Cardinality(S \cup {x}) = Cardinality(S) + 1
  BY <1>1, FS_AddElement
<1> HIDE DEF S
<1>3. ASSUME NEW T, T \ {x} = S
      PROVE  IsFiniteSet(T) /\ Cardinality(T) = Cardinality(S) + One(x \in T)
  <2>1. CASE x \in T
    <3>1. T = S \cup {x} /\ One(x \in T) = 1
      BY <1>3, <2>1 DEF One
    <3>. QED BY <1>2, <3>1
  <2>2. CASE x \notin T
    <3>1. T = S /\ One(x \in T) = 0
      BY <1>3, <2>2 DEF One
    <3>. QED BY <1>1, <3>1
  <2>. QED BY <2>1, <2>2
<1>4. /\ IsFiniteSet(B)
      /\ Cardinality(A) = Cardinality(S) + One(x \in A)
      /\ Cardinality(B) = Cardinality(S) + One(x \in B)
  BY <1>3 DEF S
<1>. QED BY <1>1, <1>4 DEF One

\* The chunks of r and those of the others.
LEMMA ChunksSplit ==
    ASSUME NEW r \in Requests, NEW s,
           \A x \in Requests \ {r} : req'[x] = req[x],
           Loading(req[r], s) => Loading(req'[r], s) /\ req'[r].prompt = req[r].prompt
    PROVE  ChunksAt(s)' = IF Loading(req'[r], s) /\ ~Loading(req[r], s)
                          THEN ChunksAt(s) \cup ({r} \X (1..Chunks(req'[r].prompt)))
                          ELSE ChunksAt(s)
<1> DEFINE Of(x) == {x} \X (1..Chunks(req[x].prompt))
<1>1. ChunksAt(s) = UNION {Of(x) : x \in LoadingAt(s)}
  BY DEF ChunksAt
<1>2. LoadingAt(s)' = {x \in Requests : Loading(req'[x], s)}
  BY DEF LoadingAt, Loading
<1>3. ChunksAt(s)' = UNION {{x} \X (1..Chunks(req'[x].prompt)) : x \in LoadingAt(s)'}
  BY DEF ChunksAt, Chunks
<1>4. \A x \in LoadingAt(s) : /\ x \in LoadingAt(s)'
                              /\ {x} \X (1..Chunks(req'[x].prompt)) = Of(x)
  BY <1>2 DEF LoadingAt, Chunks
<1>5. CASE Loading(req'[r], s) /\ ~Loading(req[r], s)
  <2>1. LoadingAt(s)' = LoadingAt(s) \cup {r}
    BY <1>2, <1>5 DEF LoadingAt
  <2>. QED BY <1>1, <1>3, <1>4, <1>5, <2>1
<1>6. CASE ~(Loading(req'[r], s) /\ ~Loading(req[r], s))
  <2>1. LoadingAt(s)' = LoadingAt(s)
    BY <1>2, <1>6 DEF LoadingAt
  <2>. QED BY <1>1, <1>3, <1>4, <1>6, <2>1
<1>. QED BY <1>5, <1>6

\* What a step of request r makes of the statistics of server s.
LEMMA StatsStep ==
    ASSUME ServingInv, ServingInv', NEW r \in Requests, RequestStep(r),
           NEW s \in Servers, StatsInv(s)
    PROVE  StatsInv(s)'
<1> DEFINE q == req[r]
           z == req'[r]
           c == stats[s]
           d == stats'[s]
<1>1. /\ q \in RequestType /\ c \in StatsType /\ (q.pc = "idle" => q.hit = None)
      /\ \A x \in Requests \ {r} : req'[x] = req[x]
      /\ q.pc = "idle" \/ q.server = z.server
  BY RequestKnown DEF RequestStep
<1>2. z \in RequestType /\ d \in StatsType
  BY DEF ServingInv, TypeOK
<1>3. Tallied(q, z, c, d, s)
  <2>1. CASE s = z.server
    BY <2>1 DEF RequestStep
  <2>2. CASE s # z.server
    <3>1. d = c
      BY <2>2 DEF RequestStep
    <3>2. ~Pending(z, s) /\ ~Loading(z, s)
      BY <2>2 DEF Pending, Loading
    <3>3. ~Pending(q, s) /\ ~Loading(q, s)
      BY <1>1, <2>2 DEF Pending, Loading, InFlight
    <3>. QED BY <1>1, <3>1, <3>2, <3>3, NotCounted
  <2>. QED BY <2>1, <2>2
<1>4. /\ c.total \in Nat /\ c.success \in Nat /\ c.failed \in Nat
      /\ c.hits \in Nat /\ c.misses \in Nat
      /\ d.total \in Nat /\ d.success \in Nat /\ d.failed \in Nat
      /\ d.hits \in Nat /\ d.misses \in Nat
  BY <1>1, <1>2 DEF StatsType
<1>5. /\ PendingAt(s)' = {x \in Requests : Pending(req'[x], s)}
      /\ PendingAt(s) \ {r} = PendingAt(s)' \ {r}
      /\ r \in PendingAt(s) <=> Pending(q, s)
      /\ r \in PendingAt(s)' <=> Pending(z, s)
  <2>1. PendingAt(s)' = {x \in Requests : Pending(req'[x], s)}
    BY DEF PendingAt, Pending, InFlight
  <2>. QED BY <1>1, <2>1 DEF PendingAt
<1>6. IsFiniteSet(PendingAt(s)) /\ IsFiniteSet(ChunksAt(s))
      /\ c.total = c.success + c.failed + Cardinality(PendingAt(s))
      /\ c.hits + c.misses = Cardinality(ChunksAt(s))
  BY DEF StatsInv
<1>7. /\ IsFiniteSet(PendingAt(s)')
      /\ Cardinality(PendingAt(s)) \in Nat /\ Cardinality(PendingAt(s)') \in Nat
      /\ Cardinality(PendingAt(s)') + One(Pending(q, s)) = Cardinality(PendingAt(s)) + One(Pending(z, s))
  <2>1. /\ IsFiniteSet(PendingAt(s)')
        /\ Cardinality(PendingAt(s)) \in Nat /\ Cardinality(PendingAt(s)') \in Nat
        /\ Cardinality(PendingAt(s)') + One(r \in PendingAt(s))
              = Cardinality(PendingAt(s)) + One(r \in PendingAt(s)')
    BY <1>5, <1>6, OneMoves
  <2>2. One(r \in PendingAt(s)) = One(Pending(q, s)) /\ One(r \in PendingAt(s)') = One(Pending(z, s))
    BY <1>5 DEF One
  <2>. QED BY <2>1, <2>2
<1>8. d.total = d.success + d.failed + Cardinality(PendingAt(s)')
  <2>1. d.total + One(Pending(q, s)) + c.success + c.failed
           = c.total + One(Pending(z, s)) + d.success + d.failed
    BY <1>3 DEF Tallied
  <2>2. One(Pending(q, s)) \in Nat /\ One(Pending(z, s)) \in Nat
    BY DEF One
  <2> HIDE DEF q, z, c, d
  <2>. QED BY <1>4, <1>6, <1>7, <2>1, <2>2
<1>9. Loading(q, s) => Loading(z, s) /\ z.prompt = q.prompt
  BY <1>3 DEF Tallied
<1>10. /\ IsFiniteSet(ChunksAt(s)')
       /\ d.hits + d.misses = Cardinality(ChunksAt(s)')
  <2>1. CASE Loading(z, s) /\ ~Loading(q, s)
    <3> DEFINE new == {r} \X (1..Chunks(z.prompt))
               n == Chunks(z.prompt)
    <3>1. ChunksAt(s)' = ChunksAt(s) \cup new
      BY <1>1, <1>9, <2>1, ChunksSplit
    <3>2. n \in Nat /\ d.hits + d.misses = c.hits + c.misses + n
      <4>1. d.hits + d.misses = c.hits + c.misses + n
        BY <1>3, <2>1 DEF Tallied
      <4>2. n \in Nat
        BY <1>2, ChunksNat DEF RequestType
      <4>. QED BY <4>1, <4>2
    <3>3. ChunksAt(s) \cap new = {}
      <4>1. \A p \in ChunksAt(s) : p[1] # r
        BY <2>1 DEF ChunksAt, LoadingAt
      <4>. QED BY <4>1
    <3> HIDE DEF n
    <3>4. IsFiniteSet(new) /\ Cardinality(new) = n
      <4>1. IsFiniteSet({r}) /\ Cardinality({r}) = 1
        BY FS_Singleton
      <4>2. IsFiniteSet(1..n) /\ Cardinality(1..n) = n
        BY <3>2, FS_Interval
      <4>3. IsFiniteSet({r} \X (1..n)) /\ Cardinality({r} \X (1..n)) = Cardinality({r}) * Cardinality(1..n)
        BY <4>1, <4>2, FS_Product
      <4>4. new = {r} \X (1..n)
        BY DEF n
      <4>5. 1 * n = n
        BY <3>2
      <4>. QED BY <4>1, <4>2, <4>3, <4>4, <4>5
    <3> HIDE DEF new
    <3>5. /\ IsFiniteSet(ChunksAt(s) \cup new)
          /\ Cardinality(ChunksAt(s) \cup new)
                = Cardinality(ChunksAt(s)) + Cardinality(new) - Cardinality(ChunksAt(s) \cap new)
      BY <1>6, <3>4, FS_Union
    <3>6. Cardinality(ChunksAt(s) \cap new) = 0
      BY <3>3, FS_EmptySet
    <3> HIDE DEF c, d
    <3>. QED BY <1>4, <1>6, <3>1, <3>2, <3>4, <3>5, <3>6
  <2>2. CASE ~(Loading(z, s) /\ ~Loading(q, s))
    <3>1. ChunksAt(s)' = ChunksAt(s)
      BY <1>1, <1>9, <2>2, ChunksSplit
    <3>2. d.hits + d.misses = c.hits + c.misses
      BY <1>3, <2>2 DEF Tallied
    <3>. QED BY <1>6, <3>1, <3>2
  <2>. QED BY <2>1, <2>2
<1>. QED BY <1>7, <1>8, <1>10 DEF StatsInv

\* A step of a request is a step of ChatStream, or one no client sees.
LEMMA StreamStepRefines ==
    ASSUME TypeOK, TypeOK', NEW r \in Requests, RequestStep(r)
    PROVE  [Streams!Next]_(Streams!vars)
<1>1. MaxTokens \in Nat \ {0} /\ C!StreamsType
  BY ServingAssumption DEF TypeOK, RequestType, Events, C!StreamsType, C!Kinds
<1>2. C!StreamsType'
  BY DEF TypeOK, RequestType, Events, C!StreamsType, C!Kinds
<1>0. \A x \in Requests \ {r} : req'[x] = req[x]
  BY DEF RequestStep
<1>3. C!OthersKept(r)
  BY <1>0 DEF C!OthersKept, InFlight
<1>4. CASE Sends(req[r], req'[r])
  <2>1. PICK n \in 0..(MaxTokens + 2) :
            C!Begins(req[r].out, n) /\ req'[r].out = Append(req[r].out, C!Event(n + 1))
    BY <1>4 DEF Sends
  <2>2. C!Next
    BY <1>1, <1>2, <1>3, <1>4, <2>1, C!SendsNext DEF Sends, Over, InFlight
  <2>. QED BY <2>2 DEF C!Next, Streams!Next, C!Emit, Streams!Emit, C!Error, Streams!Error,
                       C!Close, Streams!Close, C!IsPrefix, Streams!IsPrefix, C!Whole, Streams!Whole
<1>5. CASE Ends(req[r], req'[r])
  <2>1. C!Next
    BY <1>1, <1>2, <1>3, <1>5, C!EndsNext DEF Ends, Over, InFlight
  <2>. QED BY <2>1 DEF C!Next, Streams!Next, C!Emit, Streams!Emit, C!Error, Streams!Error,
                       C!Close, Streams!Close, C!IsPrefix, Streams!IsPrefix, C!Whole, Streams!Whole
<1>6. CASE Unseen(req[r], req'[r])
  <2>1. UNCHANGED C!vars
    BY <1>1, <1>2, <1>3, <1>6, C!UnseenStep DEF Unseen, Over, InFlight, C!OthersKept
  <2>. QED BY <2>1 DEF C!vars, Streams!vars
<1>. QED BY <1>4, <1>5, <1>6 DEF RequestStep, StreamStep

\* Every step is one of a request, or no request and no statistics see it.
LEMMA NextIsStep ==
    ASSUME ServingInv, \A r \in Requests : StreamInv(req[r]), [Next]_vars
    PROVE  (\E r \in Requests : RequestStep(r)) \/ UNCHANGED <<req, stats>>
<1>1. ASSUME NEW r \in Requests,
             (\E o \in Offers : Arrive(r, o)) \/ Handle(r) \/ Disconnect(r) \/ DetachedStore(r)
      PROVE  RequestStep(r)
  BY <1>1, ArriveIsStep, KVIsStep, RaisesIsStep, EventIsStep, SucceedsIsStep, LeavingIsStep DEF Handle
<1>2. ASSUME NEW k \in cached, Evict(k) PROVE UNCHANGED <<req, stats>>
  BY <1>2 DEF Evict
<1>. QED BY <1>1, <1>2 DEF Next, vars

\* What a step keeps: the events of each request and the accounts of each server.
AccountInv ==
    /\ \A r \in Requests : StreamInv(req[r])
    /\ \A s \in Servers : StatsInv(s)

\* Initially nothing is counted and nothing is sent.
LEMMA AccountInit == Init => AccountInv /\ Streams!Init
<1> SUFFICES ASSUME Init PROVE AccountInv /\ Streams!Init
  OBVIOUS
<1>1. \A r \in Requests : /\ req[r].pc = "idle" /\ req[r].out = <<>> /\ req[r].generated = 0
                          /\ req[r].hit = None
  BY DEF Init
<1>2. \A r \in Requests : StreamInv(req[r])
  BY <1>1 DEF StreamInv
<1>3. ASSUME NEW s \in Servers PROVE StatsInv(s)
  <2>1. PendingAt(s) = {} /\ LoadingAt(s) = {}
    BY <1>1 DEF PendingAt, LoadingAt, Pending, Loading, InFlight
  <2>2. ChunksAt(s) = {}
    BY <2>1 DEF ChunksAt
  <2>3. stats[s].total = 0 /\ stats[s].success = 0 /\ stats[s].failed = 0
        /\ stats[s].hits = 0 /\ stats[s].misses = 0
    BY DEF Init, NoStats
  <2>. QED BY <2>1, <2>2, <2>3, FS_EmptySet DEF StatsInv
<1>4. Streams!Init
  <2>1. \A r \in Requests : (req[r].pc # "idle" /\ ~InFlight(req[r])) = FALSE
    BY <1>1
  <2>. QED BY <1>1, <2>1 DEF Streams!Init
<1>. QED BY <1>2, <1>3, <1>4 DEF AccountInv

\* Every step keeps the accounts and is one of ChatStream, or unseen.
LEMMA AccountNext ==
    ServingInv /\ ServingInv' /\ AccountInv /\ [Next]_vars
        => AccountInv' /\ [Streams!Next]_(Streams!vars)
<1> SUFFICES ASSUME ServingInv, ServingInv', AccountInv, [Next]_vars
             PROVE  AccountInv' /\ [Streams!Next]_(Streams!vars)
  OBVIOUS
<1>1. CASE \E r \in Requests : RequestStep(r)
  <2>1. PICK r \in Requests : RequestStep(r)
    BY <1>1
  <2>2. \A x \in Requests : StreamInv(req'[x])
    BY <2>1 DEF RequestStep, StreamStep, AccountInv
  <2>3. (\A x \in Requests : StreamInv(req[x]))'
    BY <2>2 DEF StreamInv, Sent
  <2>4. ASSUME NEW s \in Servers PROVE StatsInv(s)'
    <3>1. StatsInv(s)
      BY DEF AccountInv
    <3>. QED BY <2>1, <3>1, StatsStep
  <2>5. [Streams!Next]_(Streams!vars)
    BY <2>1, StreamStepRefines DEF ServingInv
  <2>. QED BY <2>3, <2>4, <2>5 DEF AccountInv
<1>2. CASE UNCHANGED <<req, stats>>
  <2>1. UNCHANGED Streams!vars
    BY <1>2 DEF Streams!vars
  <2>2. \A s : PendingAt(s)' = PendingAt(s) /\ ChunksAt(s)' = ChunksAt(s)
    BY <1>2 DEF PendingAt, ChunksAt, LoadingAt
  <2>3. AccountInv'
    BY <1>2, <2>2 DEF AccountInv, StatsInv
  <2>. QED BY <2>1, <2>3
<1>. QED BY <1>1, <1>2, NextIsStep DEF AccountInv

\* Every request a server counts is a success, a failure, in flight, abandoned or
\* broken, once; every chunk of a prompt is a hit or a miss, once, whatever other
\* requests store and the store evicts meanwhile (combined.py:251, decode.py:281).
THEOREM StatsAreAccounted == Spec => []StatsAccounted
<1>1. AccountInv => StatsAccounted
  <2>1. ASSUME NEW s \in Servers
        PROVE  PendingAt(s) = Uncounted(s) /\ ChunksAt(s) = LoadedChunks(s)
    BY DEF PendingAt, Pending, Uncounted, ChunksAt, LoadingAt, Loading, LoadedChunks, Loads
  <2>. QED BY <2>1 DEF AccountInv, StatsInv, StatsAccounted
<1>. QED BY <1>1, InvAlways, AccountInit, AccountNext, PTL DEF Spec

\* Every stream of a server is one that ChatStream allows: one error event, or the
\* role, the tokens, the finish reason and [DONE] in this order, cut off or not,
\* also where the exception of a KV call ends it (combined.py:230-299,
\* decode.py:257-320).
THEOREM ImplementsStreams == Spec => ImplementsChatStream
  BY InvAlways, AccountInit, AccountNext, PTL DEF Spec, ImplementsChatStream, Streams!Spec

=============================================================================
