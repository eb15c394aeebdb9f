------------------------ MODULE LMCacheStack_proofs -------------------------
(***************************************************************************)
(* Proofs about LMCacheStack.tla, for any number of ranks, callers,        *)
(* prompts and calls: a store that returned is on every rank, what was     *)
(* looked up can still be retrieved, one rank is released by close(), and  *)
(* the ranks hold the same chunks until a call fails.                      *)
(*                                                                         *)
(* The invariant says what start() has built so far (BuiltInv), which      *)
(* threads a call waits for (CallInv) and where they work (ThreadInv), and *)
(* what a call has achieved on the ranks it no longer waits for            *)
(* (ResultInv).  CountInv and AgreeInv, at the end, are about all calls    *)
(* together: which have failed, and what one rank holds before another.    *)
(***************************************************************************)
EXTENDS LMCacheStack, NaturalsInduction, WellFoundedInduction, SequenceTheorems,
        FiniteSetTheorems, TLAPS

-----------------------------------------------------------------------------
(* The invariant *)

Operations == {"lookup", "store", "retrieve"}

CallState ==
    [op : Operations \cup {"none"}, doc : Docs \cup {"none"}, skip : Nat,
     pc : {"idle", "running", "ok", "raised", "cancelled"},
     waiting : SUBSET Nat, result : Nat]

ThreadState ==
    [caller : Callers, awaited : BOOLEAN, slot : Nat, op : Operations, doc : Docs,
     skip : Nat, engine : Nat]

TypeInv ==
    /\ deployment \in Deployments
    /\ owner \in [pc : {"down", "starting", "up", "closing", "destroyed", "forgotten", "closed"},
                  rank : Nat, starts : Nat]
    /\ owner.rank <= tp /\ owner.starts <= deployment.starts
    /\ registry \in [0..tp -> Nat]
    /\ created \in Nat
    /\ engines \in Seq(Nat)
    /\ engine \in Nat
    /\ recorders \in Nat
    /\ held \in [EngineIds -> SUBSET (Docs \X Nat)]
    /\ call \in [Callers -> CallState]
    /\ threads \subseteq ThreadState

\* Ranks that start() has an engine for.
Built == IF owner.rank = 0 THEN 0 ELSE owner.rank - 1

First == owner.starts = 1

\* The first start() builds its engines rank by rank, and each is new.
BuiltInv ==
    /\ owner.starts = 0 =>
           /\ owner.pc \in {"down", "closed"}
           /\ owner.rank = 0
           /\ created = 0 /\ engines = <<>> /\ engine = 0
           /\ \A n \in 0..tp : registry[n] = 0
    /\ First /\ owner.pc = "starting" =>
           /\ created <= Built /\ Len(engines) = Built /\ engine = 0
           /\ \A n \in 0..tp : registry[n] <= created
           /\ \A i \in 1..Len(engines) : engines[i] \in 1..tp
    /\ First /\ owner.pc = "up" =>
           /\ Len(engines) = tp /\ engine = engines[1]
           /\ \A i \in 1..tp : engines[i] \in 1..tp

\* Nothing was called before there was an engine; a call that runs waits for its
\* threads, and for each slot there is one.
CallInv ==
    /\ owner.starts = 0 \/ (First /\ owner.pc = "starting") =>
           /\ threads = {}
           /\ \A c \in Callers : call[c].pc \in {"idle", "raised"}
    /\ \A t \in threads : t.awaited =>
           /\ call[t.caller].pc = "running"
           /\ call[t.caller].op = t.op
           /\ call[t.caller].doc = t.doc
           /\ call[t.caller].skip = t.skip
           /\ t.slot \in call[t.caller].waiting
    /\ \A t, u \in threads :
           t.awaited /\ u.awaited /\ t.caller = u.caller /\ t.slot = u.slot => t = u
    /\ \A c \in Callers : call[c].pc = "ok" => call[c].waiting = {}

Up == First /\ owner.pc = "up"

\* A thread works in the engine of its rank, that of a lookup in the first.
ThreadInv ==
    Up => \A t \in threads :
              /\ t.slot \in 1..tp
              /\ t.op = "lookup" => t.slot = 1
              /\ t.engine = engines[t.slot]

\* A store is on the ranks it no longer waits for, and what a lookup found is there.
ResultInv ==
    Steady => \A c \in Callers :
        /\ call[c].op = "store" /\ call[c].pc \in {"running", "ok"} =>
               \A i \in (1..tp) \ call[c].waiting :
                   Chunks(call[c].doc, call[c].skip) \subseteq held[engines[i]]
        /\ call[c].op = "lookup" /\ call[c].pc = "ok" =>
               Prefix(engine, call[c].doc) >= call[c].result

IInv == TypeInv /\ BuiltInv /\ CallInv /\ ThreadInv /\ ResultInv

\* What the one engine of a stack with one rank, and the trace file, go through.
Releasing ==
    tp = 1 /\ ~deployment.start_fails =>
        /\ owner.pc = "down" => owner.starts = 0 /\ engine = 0
        /\ owner.pc \in {"down", "closed"} \/ (owner.pc = "starting" /\ owner.rank = 0) =>
               registry[0] = 0 /\ opened = {} /\ recorders = 0
        /\ owner.pc = "starting" /\ owner.rank # 0 =>
               registry[0] = 0 /\ opened = {} /\ recorders \in {0, 1}
        /\ owner.pc \in {"up", "closing"} =>
               opened = {registry[0]} /\ recorders \in {0, 1} /\ engine # 0
        /\ owner.pc \in {"destroyed", "forgotten"} =>
               registry[0] = 0 /\ opened = {} /\ recorders \in {0, 1}
        /\ \A i \in 1..Len(engines) : engines[i] # 0

-----------------------------------------------------------------------------
(* The prefix an engine holds *)

\* A set of numbers up to n that is not empty has a greatest one.
LEMMA GreatestExists ==
    ASSUME NEW n \in Nat, NEW S, S \subseteq 0..n, S # {}
    PROVE  \E m \in S : \A k \in S : m >= k
<1> DEFINE T == {x \in 0..n : n - x \in S}
<1>1. T \subseteq Nat /\ T # {}
  <2>1. PICK k \in S : TRUE
    OBVIOUS
  <2>2. n - k \in T
    OBVIOUS
  <2>3. T \subseteq Nat
    OBVIOUS
  <2> HIDE DEF T
  <2> QED
    BY <2>2, <2>3
<1>2. PICK x \in T : \A y \in T : ~(<<y, x>> \in OpToRel(<, Nat))
  BY <1>1, NatLessThanWellFounded, WFMin, Zenon
<1>3. \A y \in T : x <= y
  <2>1. \A i, j \in Nat : i < j => <<i, j>> \in OpToRel(<, Nat)
    BY Zenon DEF OpToRel
  <2> HIDE DEF T
  <2>2. \A y \in T : ~(y < x)
    BY <1>1, <1>2, <2>1, Zenon
  <2>3. x \in Nat /\ \A y \in T : y \in Nat
    BY <1>1
  <2> QED
    BY <2>2, <2>3
<1>4. n - x \in S
  OBVIOUS
<1>5. ASSUME NEW k \in S PROVE n - x >= k
  <2>1. n - k \in T
    OBVIOUS
  <2> QED
    BY <1>3, <2>1
<1> QED
  BY <1>4, <1>5

\* Whatever is held, there is a longest prefix of d in it.
LEMMA LeadingIsLongest ==
    ASSUME NEW H, NEW d
    PROVE  /\ Leading(H, d) \in 0..DocLen
           /\ \A i \in 1..Leading(H, d) : <<d, i>> \in H
           /\ Leading(H, d) < DocLen => <<d, Leading(H, d) + 1>> \notin H
<1> DEFINE S == {k \in 0..DocLen : \A i \in 1..k : <<d, i>> \in H}
<1>1. DocLen \in Nat
  BY StackAssumption
<1>2. 0 \in S
  BY <1>1
<1>3. PICK m \in S : \A k \in S : m >= k
  <2>1. S \subseteq 0..DocLen /\ S # {}
    BY <1>2
  <2> HIDE DEF S
  <2>2. QED
    BY <1>1, <2>1, GreatestExists
<1>4. ASSUME m < DocLen, <<d, m + 1>> \in H
      PROVE  FALSE
  <2>1. m \in 0..DocLen /\ \A i \in 1..m : <<d, i>> \in H
    OBVIOUS
  <2>2. \A i \in 1..(m + 1) : <<d, i>> \in H
    BY <1>4, <2>1
  <2>3. m + 1 \in S
    BY <1>1, <1>4, <2>1, <2>2
  <2>4. m + 1 \in Nat /\ m \in Nat /\ m >= m + 1
    BY <1>3, <2>1, <2>3
  <2>5. QED
    BY <2>4
<1>5. \E k \in 0..DocLen :
          /\ \A i \in 1..k : <<d, i>> \in H
          /\ k < DocLen => <<d, k + 1>> \notin H
  BY <1>4
<1>6. QED
  BY <1>5 DEF Leading

\* What only gets more keeps the prefixes it had.
LEMMA LeadingGrows ==
    ASSUME NEW H, NEW I, H \subseteq I, NEW d
    PROVE  Leading(I, d) >= Leading(H, d)
<1> DEFINE k == Leading(H, d)
           l == Leading(I, d)
<1>1. k \in 0..DocLen /\ \A i \in 1..k : <<d, i>> \in H
  BY LeadingIsLongest
<1>2. l \in 0..DocLen /\ (l < DocLen => <<d, l + 1>> \notin I)
  BY LeadingIsLongest
<1> HIDE DEF k, l
<1>3. DocLen \in Nat
  BY StackAssumption
<1>4. ASSUME l < k
      PROVE  FALSE
  <2>1. l + 1 \in 1..k /\ l < DocLen
    BY <1>1, <1>2, <1>3, <1>4
  <2>2. QED
    BY <1>1, <1>2, <2>1
<1>5. k <= l
  BY <1>1, <1>2, <1>3, <1>4
<1>6. QED
  BY <1>1, <1>2, <1>5 DEF k, l

-----------------------------------------------------------------------------
(* The initial states *)

LEMMA DeploymentType ==
    ASSUME deployment \in Deployments
    PROVE  /\ tp \in Nat \ {0} /\ deployment.starts \in Nat
           /\ UNCHANGED deployment => tp' = tp /\ EngineIds' = EngineIds
  BY StackAssumption DEF tp, EngineIds

LEMMA InitEstablishes == Init => IInv /\ Releasing
<1>1. SUFFICES ASSUME Init PROVE IInv /\ Releasing
  OBVIOUS
<1>2. tp \in Nat \ {0} /\ deployment.starts \in Nat
  BY <1>1, DeploymentType DEF Init
<1>3. NoCall \in CallState
  BY DEF NoCall, CallState
<1>4. TypeInv
  BY <1>1, <1>2, <1>3 DEF Init, TypeInv
<1>5. BuiltInv
  BY <1>1, <1>2 DEF Init, BuiltInv, First
<1>6. CallInv /\ ThreadInv
  BY <1>1 DEF Init, CallInv, ThreadInv, NoCall, Up, First
<1>7. ResultInv
  BY <1>1 DEF Init, ResultInv, Steady
<1>8. Releasing
  BY <1>1, <1>2 DEF Init, Releasing
<1>9. QED
  BY <1>4, <1>5, <1>6, <1>7, <1>8 DEF IInv

-----------------------------------------------------------------------------
(* Type correctness *)

\* What start() appends is an engine, that of its name or a new one.
LEMMA GetOrCreateTyped ==
    ASSUME TypeInv, NEW n \in 0..tp, GetOrCreate(n)
    PROVE  /\ registry' \in [0..tp -> Nat] /\ created' \in Nat
           /\ registry'[n] \in Nat \ {0}
           /\ registry[n] # 0 => UNCHANGED <<registry, opened, created>>
           /\ registry[n] = 0 => /\ created' = created + 1
                                 /\ registry' = [registry EXCEPT ![n] = created + 1]
                                 /\ opened' = opened \cup {created + 1}
<1>1. registry \in [0..tp -> Nat] /\ created \in Nat
  BY DEF TypeInv
<1>2. CASE registry[n] # 0
  BY <1>1, <1>2 DEF GetOrCreate
<1>3. CASE registry[n] = 0
  <2>1. created + 1 \in Nat \ {0}
    BY <1>1
  <2>2. /\ created' = created + 1
        /\ registry' = [registry EXCEPT ![n] = created + 1]
        /\ opened' = opened \cup {created + 1}
    BY <1>3 DEF GetOrCreate
  <2>3. registry' \in [0..tp -> Nat] /\ registry'[n] = created + 1
    BY <1>1, <2>1, <2>2
  <2>4. QED
    BY <1>3, <2>1, <2>2, <2>3
<1>4. QED
  BY <1>2, <1>3

LEMMA NameTyped ==
    ASSUME TypeInv, owner.rank \in 1..tp
    PROVE  Name(owner.rank) \in 0..tp
  BY DeploymentType DEF TypeInv, Name

LEMMA ChunksTyped ==
    ASSUME NEW d \in Docs, NEW skip \in Nat
    PROVE  Chunks(d, skip) \subseteq Docs \X Nat
  BY StackAssumption DEF Chunks

Phases == {"down", "starting", "up", "closing", "destroyed", "forgotten", "closed"}

\* What a step of the owner, or of its thread, may change.
LEMMA OwnerTypedBy ==
    ASSUME TypeInv, UNCHANGED <<deployment, callVars>>,
           owner' \in [pc : Phases, rank : Nat, starts : Nat],
           owner'.rank <= tp, owner'.starts <= deployment.starts,
           registry' \in [0..tp -> Nat], created' \in Nat,
           engines' \in Seq(Nat), engine' \in Nat, recorders' \in Nat,
           held' \in [EngineIds -> SUBSET (Docs \X Nat)]
    PROVE  TypeInv'
<1>1. tp' = tp /\ EngineIds' = EngineIds
  BY DeploymentType DEF TypeInv
<1>2. QED
  BY <1>1 DEF TypeInv, Phases, callVars

LEMMA OwnerTyped ==
    ASSUME TypeInv, Owner \/ OwnerThread
    PROVE  TypeInv'
<1>1. tp \in Nat \ {0} /\ deployment.starts \in Nat
  BY DeploymentType DEF TypeInv
<1>2. /\ owner \in [pc : Phases, rank : Nat, starts : Nat]
      /\ owner.rank <= tp /\ owner.starts <= deployment.starts
      /\ registry \in [0..tp -> Nat] /\ created \in Nat
      /\ engines \in Seq(Nat) /\ engine \in Nat /\ recorders \in Nat
      /\ held \in [EngineIds -> SUBSET (Docs \X Nat)]
  BY DEF TypeInv, Phases
<1>3. CASE StartBegins
  <2>1. owner' \in [pc : Phases, rank : Nat, starts : Nat]
    BY <1>2, <1>3 DEF StartBegins, Phases
  <2>2. owner'.rank <= tp /\ owner'.starts <= deployment.starts
    BY <1>1, <1>2, <1>3 DEF StartBegins
  <2>3. QED
    BY <1>2, <1>3, <2>1, <2>2, OwnerTypedBy DEF StartBegins
<1>4. CASE StartConfigures
  <2>1. owner' \in [pc : Phases, rank : Nat, starts : Nat]
    BY <1>2, <1>4 DEF StartConfigures
  <2>2. owner'.rank <= tp /\ owner'.starts <= deployment.starts
    BY <1>1, <1>2, <1>4 DEF StartConfigures
  <2>3. recorders' \in Nat
    BY <1>2, <1>4 DEF StartConfigures
  <2>4. QED
    BY <1>2, <1>4, <2>1, <2>2, <2>3, OwnerTypedBy DEF StartConfigures
<1>5. CASE StartRank
  <2>1. owner.rank \in 1..tp /\ Name(owner.rank) \in 0..tp
    BY <1>5, NameTyped DEF StartRank
  <2>2. registry' \in [0..tp -> Nat] /\ created' \in Nat /\ registry'[Name(owner.rank)] \in Nat
    BY <1>5, <2>1, GetOrCreateTyped DEF StartRank
  <2>3. engines' \in Seq(Nat) /\ Len(engines') = Len(engines) + 1
    BY <1>2, <1>5, <2>2 DEF StartRank
  <2>4. Len(engines) \in Nat
    BY <1>2
  <2>5. engines'[1] \in Nat
    BY <2>3, <2>4
  <2>6. engine' \in Nat
    BY <1>2, <1>5, <2>5 DEF StartRank
  <2>7. CASE owner.rank < tp
    <3>1. owner' = [owner EXCEPT !.rank = owner.rank + 1]
      BY <1>5, <2>7 DEF StartRank
    <3>2. owner.rank + 1 \in Nat /\ owner.rank + 1 <= tp
      BY <1>1, <2>1, <2>7
    <3>3. owner' \in [pc : Phases, rank : Nat, starts : Nat]
      BY <1>2, <3>1, <3>2
    <3>4. owner'.rank <= tp /\ owner'.starts <= deployment.starts
      BY <1>2, <3>1, <3>2
    <3>5. QED
      BY <1>2, <1>5, <2>2, <2>3, <2>6, <3>3, <3>4, OwnerTypedBy DEF StartRank
  <2>8. CASE ~(owner.rank < tp)
    <3>1. owner' = [owner EXCEPT !.pc = "up", !.rank = 0]
      BY <1>5, <2>8 DEF StartRank
    <3>2. owner' \in [pc : Phases, rank : Nat, starts : Nat]
      BY <1>2, <3>1 DEF Phases
    <3>3. owner'.rank <= tp /\ owner'.starts <= deployment.starts
      BY <1>1, <1>2, <3>1
    <3>4. QED
      BY <1>2, <1>5, <2>2, <2>3, <2>6, <3>2, <3>3, OwnerTypedBy DEF StartRank
  <2>9. QED
    BY <2>7, <2>8
<1>6. CASE StartRaises
  <2>1. registry' \in [0..tp -> Nat] /\ created' \in Nat /\ engines' \in Seq(Nat)
    <3>1. CASE /\ owner.rank > 0 /\ GetOrCreate(Name(owner.rank))
               /\ \/ UNCHANGED engines
                  \/ engines' = Append(engines, registry'[Name(owner.rank)])
      <4>1. owner.rank \in 1..tp
        BY <1>1, <1>2, <3>1
      <4>2. registry' \in [0..tp -> Nat] /\ created' \in Nat /\ registry'[Name(owner.rank)] \in Nat
        BY <3>1, <4>1, NameTyped, GetOrCreateTyped
      <4>3. engines' \in Seq(Nat)
        <5> DEFINE e == registry'[Name(owner.rank)]
        <5>1. engines \in Seq(Nat) /\ e \in Nat
          BY <1>2, <4>2
        <5>2. engines' = engines \/ engines' = Append(engines, e)
          BY <3>1
        <5> HIDE DEF e
        <5> QED
          BY <5>1, <5>2
      <4>4. QED
        BY <4>2, <4>3
    <3>2. CASE UNCHANGED <<registry, opened, created, engines>>
      BY <1>2, <3>2
    <3>3. QED
      BY <1>6, <3>1, <3>2 DEF StartRaises
  <2>2. owner' = [owner EXCEPT !.pc = "down", !.rank = 0]
    BY <1>6 DEF StartRaises
  <2>3. owner' \in [pc : Phases, rank : Nat, starts : Nat]
    BY <1>2, <2>2 DEF Phases
  <2>4. owner'.rank <= tp /\ owner'.starts <= deployment.starts
    BY <1>1, <1>2, <2>2
  <2>5. QED
    BY <1>2, <1>6, <2>1, <2>3, <2>4, OwnerTypedBy DEF StartRaises
<1>7. CASE CloseBegins
  <2>1. owner' = [owner EXCEPT !.pc = IF engine = 0 THEN "closed" ELSE "closing"]
    BY <1>7 DEF CloseBegins
  <2>2. /\ owner' \in [pc : Phases, rank : Nat, starts : Nat]
        /\ owner'.rank <= tp /\ owner'.starts <= deployment.starts
    BY <1>2, <2>1 DEF Phases
  <2>3. QED
    BY <1>2, <1>7, <2>2, OwnerTypedBy DEF CloseBegins
<1>8. CASE CloseDestroys
  <2>1. \A e \in EngineIds : (IF e = registry[0] THEN {} ELSE held[e]) \in SUBSET (Docs \X Nat)
    BY <1>2
  <2>2. held' \in [EngineIds -> SUBSET (Docs \X Nat)]
    BY <1>8, <2>1 DEF CloseDestroys
  <2>3. registry' \in [0..tp -> Nat]
    BY <1>2, <1>8 DEF CloseDestroys
  <2>4. /\ owner' \in [pc : Phases, rank : Nat, starts : Nat]
        /\ owner'.rank <= tp /\ owner'.starts <= deployment.starts
    BY <1>2, <1>8 DEF CloseDestroys, Phases
  <2>5. QED
    BY <1>2, <1>8, <2>2, <2>3, <2>4, OwnerTypedBy DEF CloseDestroys
<1>9. CASE CloseForgets
  <2>1. /\ owner' \in [pc : Phases, rank : Nat, starts : Nat]
        /\ owner'.rank <= tp /\ owner'.starts <= deployment.starts
    BY <1>2, <1>9 DEF CloseForgets, Phases
  <2>2. QED
    BY <1>2, <1>9, <2>1, OwnerTypedBy DEF CloseForgets
<1>10. CASE CloseEnds
  <2>1. /\ owner' \in [pc : Phases, rank : Nat, starts : Nat]
        /\ owner'.rank <= tp /\ owner'.starts <= deployment.starts
    BY <1>2, <1>10 DEF CloseEnds, Phases
  <2>2. recorders' \in Nat
    BY <1>2, <1>10 DEF CloseEnds
  <2>3. QED
    BY <1>2, <1>10, <2>1, <2>2, OwnerTypedBy DEF CloseEnds
<1>11. QED
  BY <1>3, <1>4, <1>5, <1>6, <1>7, <1>8, <1>9, <1>10 DEF Owner, OwnerThread

\* A step of a call leaves the owner's state alone.
LEMMA CallTyped ==
    ASSUME TypeInv, UNCHANGED lifeVars,
           held' \in [EngineIds -> SUBSET (Docs \X Nat)],
           call' \in [Callers -> CallState],
           threads' \subseteq ThreadState
    PROVE  TypeInv'
<1>1. UNCHANGED <<deployment, owner, registry, created, engines, engine, recorders>>
  BY DEF lifeVars
<1>2. tp' = tp /\ EngineIds' = EngineIds
  BY <1>1, DeploymentType DEF TypeInv
<1>3. QED
  BY <1>1, <1>2 DEF TypeInv

LEMMA DetachedTyped ==
    ASSUME TypeInv, NEW c
    PROVE  /\ Detached(c) \subseteq ThreadState
           /\ \A t \in Detached(c) : t.awaited => t \in threads /\ t.caller # c
           /\ \A t \in Detached(c) : \E u \in threads :
                  t.slot = u.slot /\ t.op = u.op /\ t.engine = u.engine
<1>1. \A t \in threads : /\ [t EXCEPT !.awaited = FALSE] \in ThreadState
                         /\ [t EXCEPT !.awaited = FALSE].awaited = FALSE
                         /\ [t EXCEPT !.awaited = FALSE].slot = t.slot
                         /\ [t EXCEPT !.awaited = FALSE].op = t.op
                         /\ [t EXCEPT !.awaited = FALSE].engine = t.engine
  BY DEF TypeInv, ThreadState
<1>2. ASSUME NEW t \in Detached(c)
      PROVE  \/ t \in threads /\ ~(t.awaited /\ t.caller = c)
             \/ \E u \in threads : t = [u EXCEPT !.awaited = FALSE]
  BY DEF Detached
<1>3. threads \subseteq ThreadState
  BY DEF TypeInv
<1>4. ASSUME NEW t \in Detached(c)
      PROVE  /\ t \in ThreadState
             /\ t.awaited => t \in threads /\ t.caller # c
             /\ \E u \in threads : t.slot = u.slot /\ t.op = u.op /\ t.engine = u.engine
  <2>1. CASE t \in threads /\ ~(t.awaited /\ t.caller = c)
    BY <1>3, <2>1
  <2>2. CASE \E u \in threads : t = [u EXCEPT !.awaited = FALSE]
    BY <1>1, <2>2
  <2>3. QED
    BY <1>2, <1>4, <2>1, <2>2
<1>5. QED
  BY <1>4

LEMMA BeginTyped ==
    ASSUME TypeInv, NEW c \in Callers, NEW op \in Operations, NEW d \in Docs,
           NEW skip \in Skips(c, op, d), Begin(c, op, d, skip)
    PROVE  /\ skip \in Nat
           /\ Slots(op) \subseteq Nat
           /\ TypeInv'
           /\ call'[c].op = op /\ call'[c].doc = d /\ call'[c].skip = skip
           /\ call'[c].pc = "running" /\ call'[c].waiting = Slots(op)
<1>1. skip \in Nat
  BY DEF Skips
<1>2. Slots(op) \subseteq Nat
  BY DEF Slots, TypeInv
<1>3. [NoCall EXCEPT !.op = op, !.doc = d, !.skip = skip, !.pc = "running",
                     !.waiting = Slots(op)] \in CallState
  BY <1>1, <1>2 DEF NoCall, CallState
<1>4. \A i \in Slots(op) :
          [caller |-> c, awaited |-> TRUE, slot |-> i, op |-> op, doc |-> d, skip |-> skip,
           engine |-> IF op = "lookup" THEN engine ELSE engines[i]] \in ThreadState
  <2>1. \A i \in Slots(op) : (IF op = "lookup" THEN engine ELSE engines[i]) \in Nat
    BY DEF Slots, TypeInv
  <2>2. QED
    BY <1>1, <1>2, <2>1 DEF ThreadState
<1>5. TypeInv'
  <2>1. call' \in [Callers -> CallState]
    BY <1>3 DEF Begin, TypeInv
  <2>2. threads' \subseteq ThreadState
    BY <1>4 DEF Begin, TypeInv
  <2>3. held' \in [EngineIds -> SUBSET (Docs \X Nat)] /\ UNCHANGED lifeVars
    BY DEF Begin, TypeInv
  <2>4. QED
    BY <2>1, <2>2, <2>3, CallTyped
<1>6. call'[c] = [NoCall EXCEPT !.op = op, !.doc = d, !.skip = skip, !.pc = "running",
                              !.waiting = Slots(op)]
  BY DEF Begin, TypeInv
<1>7. QED
  BY <1>1, <1>2, <1>5, <1>6 DEF NoCall

\* An engine call that returns.
LEMMA ReturnTyped ==
    ASSUME TypeInv, NEW t \in threads, ThreadReturns(t)
    PROVE  TypeInv'
<1>1. t \in ThreadState /\ UNCHANGED lifeVars
  BY DEF TypeInv, ThreadReturns
<1>2. /\ t.caller \in Callers /\ t.doc \in Docs /\ t.skip \in Nat /\ t.slot \in Nat
      /\ call[t.caller] \in CallState
      /\ call \in [Callers -> CallState]
      /\ held \in [EngineIds -> SUBSET (Docs \X Nat)]
  BY <1>1 DEF ThreadState, TypeInv
<1>3. (IF t.op = "store" THEN 0 ELSE Prefix(t.engine, t.doc)) \in Nat
  <2>1. Leading(held[t.engine], t.doc) \in 0..DocLen
    BY LeadingIsLongest
  <2>2. Prefix(t.engine, t.doc) \in Nat
    BY <2>1, StackAssumption DEF Prefix
  <2>3. QED
    BY <2>2
<1>4. held' \in [EngineIds -> SUBSET (Docs \X Nat)]
  <2>1. CASE t.op = "store"
    <3>1. held' = [held EXCEPT ![t.engine] = held[t.engine] \cup Chunks(t.doc, t.skip)]
      BY <2>1 DEF ThreadReturns
    <3>2. Chunks(t.doc, t.skip) \subseteq Docs \X Nat
      BY <1>2, ChunksTyped
    <3>3. QED
      BY <1>2, <3>1, <3>2
  <2>2. CASE t.op # "store"
    BY <1>2, <2>2 DEF ThreadReturns
  <2>3. QED
    BY <2>1, <2>2
<1>5. call' \in [Callers -> CallState]
  <2>1. CASE t.awaited
    <3> DEFINE W == call[t.caller].waiting \ {t.slot}
               R == IF t.slot = 1 THEN IF t.op = "store" THEN 0 ELSE Prefix(t.engine, t.doc)
                                  ELSE call[t.caller].result
               P == IF W = {} THEN "ok" ELSE "running"
    <3>1. call' = [call EXCEPT ![t.caller] =
                      [call[t.caller] EXCEPT !.waiting = W, !.result = R, !.pc = P]]
      BY <2>1, Zenon DEF ThreadReturns
    <3>2. W \in SUBSET Nat /\ R \in Nat /\ P \in {"ok", "running"}
      BY <1>2, <1>3 DEF CallState
    <3> HIDE DEF W, R, P
    <3>3. [call[t.caller] EXCEPT !.waiting = W, !.result = R, !.pc = P] \in CallState
      BY <1>2, <3>2 DEF CallState
    <3>4. QED
      BY <1>2, <3>1, <3>3
  <2>2. CASE ~t.awaited
    BY <1>2, <2>2 DEF ThreadReturns
  <2>3. QED
    BY <2>1, <2>2
<1>6. threads' \subseteq ThreadState
  BY DEF ThreadReturns, TypeInv
<1>7. QED
  BY <1>1, <1>4, <1>5, <1>6, CallTyped

LEMMA RaiseTyped ==
    ASSUME TypeInv, NEW t \in threads, ThreadRaises(t)
    PROVE  TypeInv'
<1>1. t \in ThreadState /\ t.caller \in Callers /\ UNCHANGED <<lifeVars, held>>
  BY DEF TypeInv, ThreadRaises, ThreadState
<1>2. call \in [Callers -> CallState] /\ call[t.caller] \in CallState
      /\ held \in [EngineIds -> SUBSET (Docs \X Nat)] /\ threads \subseteq ThreadState
  BY <1>1 DEF TypeInv
<1>3. CASE t.awaited
  <2>1. [call[t.caller] EXCEPT !.pc = "raised", !.waiting = {}] \in CallState
    BY <1>2 DEF CallState
  <2>2. call' = [call EXCEPT ![t.caller] = [call[t.caller] EXCEPT !.pc = "raised", !.waiting = {}]]
    BY <1>1, <1>2, <1>3 DEF ThreadRaises
  <2>3. call' \in [Callers -> CallState]
    BY <1>2, <2>1, <2>2
  <2>4. threads' \subseteq ThreadState
    BY <1>3, DetachedTyped DEF ThreadRaises
  <2>5. QED
    BY <1>1, <1>2, <2>3, <2>4, CallTyped
<1>4. CASE ~t.awaited
  BY <1>1, <1>2, <1>4, CallTyped DEF ThreadRaises
<1>5. QED
  BY <1>3, <1>4

LEMMA CancelTyped ==
    ASSUME TypeInv, NEW c \in Callers, CallCancelled(c)
    PROVE  TypeInv'
<1>1. call \in [Callers -> CallState] /\ call[c] \in CallState
      /\ held \in [EngineIds -> SUBSET (Docs \X Nat)]
  BY DEF TypeInv
<1>2. [call[c] EXCEPT !.pc = "cancelled", !.waiting = {}] \in CallState
  BY <1>1 DEF CallState
<1>3. call' = [call EXCEPT ![c] = [call[c] EXCEPT !.pc = "cancelled", !.waiting = {}]]
  BY <1>1 DEF CallCancelled
<1>4. call' \in [Callers -> CallState]
  BY <1>1, <1>2, <1>3
<1>5. threads' \subseteq Detached(c) /\ UNCHANGED <<lifeVars, held>>
  BY DEF CallCancelled
<1>6. QED
  BY <1>1, <1>4, <1>5, DetachedTyped, CallTyped

LEMMA RejectTyped ==
    ASSUME TypeInv, NEW c \in Callers, NEW op \in Operations, NEW d \in Docs, Rejected(c, op, d)
    PROVE  TypeInv'
<1>1. [NoCall EXCEPT !.op = op, !.doc = d, !.pc = "raised"] \in CallState
  BY DEF NoCall, CallState
<1>2. call' \in [Callers -> CallState]
  BY <1>1 DEF Rejected, TypeInv
<1>3. UNCHANGED <<lifeVars, held, threads>>
  BY DEF Rejected
<1>4. held' \in [EngineIds -> SUBSET (Docs \X Nat)] /\ threads' \subseteq ThreadState
  BY <1>3 DEF TypeInv
<1>5. QED
  BY <1>2, <1>3, <1>4, CallTyped

LEMMA EvictTyped ==
    ASSUME TypeInv, NEW e \in EngineIds, EngineEvicts(e)
    PROVE  TypeInv'
<1>1. held' \in [EngineIds -> SUBSET (Docs \X Nat)]
  BY DEF EngineEvicts, TypeInv
<1>2. UNCHANGED <<lifeVars, call, threads>>
  BY DEF EngineEvicts, callVars
<1>3. call' \in [Callers -> CallState] /\ threads' \subseteq ThreadState
  BY <1>2 DEF TypeInv
<1>4. QED
  BY <1>1, <1>2, <1>3, CallTyped

LEMMA StepTyped ==
    ASSUME TypeInv, Next
    PROVE  TypeInv'
<1>1. CASE Owner \/ OwnerThread
  BY <1>1, OwnerTyped
<1>2. ASSUME NEW c \in Callers, Caller(c)
      PROVE  TypeInv'
  <2>1. PICK op \in Operations, d \in Docs :
            Rejected(c, op, d) \/ \E skip \in Skips(c, op, d) : Begin(c, op, d, skip)
    BY <1>2 DEF Caller, Operations
  <2>2. QED
    BY <2>1, RejectTyped, BeginTyped
<1>3. ASSUME NEW c \in Callers, CallCancelled(c)
      PROVE  TypeInv'
  BY <1>3, CancelTyped
<1>4. CASE ThreadEnds
  BY <1>4, ReturnTyped, RaiseTyped DEF ThreadEnds
<1>5. ASSUME NEW e \in EngineIds, EngineEvicts(e)
      PROVE  TypeInv'
  BY <1>5, EvictTyped
<1>6. QED
  BY <1>1, <1>2, <1>3, <1>4, <1>5 DEF Next

-----------------------------------------------------------------------------
(* What start() has built *)

\* In the first start() a rank gets an engine of its own, among the first ones.
LEMMA RankBuilt ==
    ASSUME TypeInv, BuiltInv, StartRank, First
    PROVE  /\ created' <= owner.rank /\ Len(engines') = owner.rank
           /\ \A n \in 0..tp : registry'[n] <= created'
           /\ \A i \in 1..Len(engines') : engines'[i] \in 1..tp
<1> DEFINE n0 == Name(owner.rank)
<1>1. owner.pc = "starting" /\ owner.rank \in 1..tp /\ tp \in Nat /\ n0 \in 0..tp
  BY NameTyped, DeploymentType DEF StartRank, TypeInv
<1>2. GetOrCreate(n0) /\ engines' = Append(engines, registry'[n0])
  BY DEF StartRank
<1> HIDE DEF n0
<1>3. /\ created \in Nat /\ created <= owner.rank - 1
      /\ engines \in Seq(Nat) /\ Len(engines) = owner.rank - 1
      /\ registry \in [0..tp -> Nat]
      /\ \A n \in 0..tp : registry[n] <= created
      /\ \A i \in 1..Len(engines) : engines[i] \in 1..tp
  BY <1>1 DEF BuiltInv, TypeInv, Built
<1>4. created' \in Nat /\ created' <= owner.rank /\ \A n \in 0..tp : registry'[n] <= created'
  <2>1. CASE registry[n0] # 0
    BY <1>1, <1>2, <1>3, <2>1, GetOrCreateTyped
  <2>2. CASE registry[n0] = 0
    <3>1. created' = created + 1 /\ registry' = [registry EXCEPT ![n0] = created + 1]
      BY <1>1, <1>2, <2>2, GetOrCreateTyped
    <3>2. created' \in Nat /\ created' <= owner.rank
      BY <1>1, <1>3, <3>1
    <3>3. ASSUME NEW n \in 0..tp
          PROVE  registry'[n] <= created'
      <4>1. registry[n] <= created /\ registry[n] \in Nat
        BY <1>3
      <4>2. registry'[n] = IF n = n0 THEN created + 1 ELSE registry[n]
        BY <1>3, <3>1
      <4>3. QED
        BY <1>3, <3>1, <4>1, <4>2
    <3>4. QED
      BY <3>2, <3>3
  <2>3. QED
    BY <2>1, <2>2
<1>5. registry'[n0] \in Nat \ {0} /\ registry'[n0] <= tp
  BY <1>1, <1>2, <1>4, GetOrCreateTyped
<1>6. /\ Len(engines') = Len(engines) + 1
      /\ engines'[Len(engines) + 1] = registry'[n0]
      /\ \A i \in 1..Len(engines) : engines'[i] = engines[i]
  BY <1>2, <1>3, <1>5, AppendProperties
<1>7. Len(engines) + 1 = owner.rank /\ Len(engines) \in Nat
  BY <1>1, <1>3
<1>8. ASSUME NEW i \in 1..Len(engines')
      PROVE  engines'[i] \in 1..tp
  <2>1. i \in 1..Len(engines) \/ i = Len(engines) + 1
    BY <1>6, <1>7, <1>8
  <2>2. registry'[n0] \in 1..tp
    BY <1>1, <1>5
  <2>3. QED
    BY <1>3, <1>6, <2>1, <2>2
<1>9. QED
  BY <1>4, <1>6, <1>7, <1>8

LEMMA BuiltStep ==
    ASSUME TypeInv, BuiltInv, Next
    PROVE  BuiltInv'
<1>1. tp \in Nat \ {0} /\ (UNCHANGED deployment => tp' = tp)
      /\ owner \in [pc : {"down", "starting", "up", "closing", "destroyed", "forgotten", "closed"},
                    rank : Nat, starts : Nat]
  BY DeploymentType DEF TypeInv
<1>2. CASE UNCHANGED lifeVars
  BY <1>1, <1>2 DEF lifeVars, BuiltInv, First, Built
<1>3. CASE StartBegins
  <2>1. owner'.starts = owner.starts + 1 /\ owner'.pc = "starting" /\ owner'.rank = 0
        /\ tp' = tp /\ UNCHANGED <<registry, created, engines, engine>>
    BY <1>1, <1>3 DEF StartBegins
  <2>2. owner'.starts # 0 /\ (First' => owner.starts = 0)
    BY <1>1, <2>1 DEF First
  <2>3. QED
    BY <1>1, <2>1, <2>2 DEF BuiltInv, Built, First
<1>4. CASE StartConfigures
  <2>1. owner'.starts = owner.starts /\ owner'.pc = "starting" /\ owner'.rank = 1
        /\ owner.pc = "starting" /\ owner.rank = 0
        /\ tp' = tp /\ UNCHANGED <<registry, created, engines, engine>>
    BY <1>1, <1>4 DEF StartConfigures
  <2>2. QED
    BY <1>1, <2>1 DEF BuiltInv, Built, First
<1>5. CASE StartRank
  <2>1. owner.pc = "starting" /\ owner.rank \in 1..tp /\ owner'.starts = owner.starts /\ tp' = tp
        /\ owner.starts # 0
    BY <1>1, <1>5 DEF StartRank, BuiltInv
  <2>2. CASE ~First
    BY <2>1, <2>2 DEF BuiltInv, First
  <2>3. CASE First
    <3>1. /\ created' <= owner.rank /\ Len(engines') = owner.rank
          /\ \A n \in 0..tp : registry'[n] <= created'
          /\ \A i \in 1..Len(engines') : engines'[i] \in 1..tp
      BY <1>5, <2>3, RankBuilt
    <3>2. CASE owner.rank < tp
      <4>1. owner'.pc = "starting" /\ owner'.rank = owner.rank + 1 /\ engine' = engine
            /\ engine = 0
        BY <1>1, <1>5, <2>1, <2>3, <3>2 DEF StartRank, BuiltInv
      <4>2. Built' = owner.rank
        BY <1>1, <2>1, <4>1 DEF Built
      <4>3. QED
        BY <1>1, <2>1, <3>1, <4>1, <4>2 DEF BuiltInv, First
    <3>3. CASE ~(owner.rank < tp)
      <4>1. owner'.pc = "up" /\ engine' = engines'[1]
        BY <1>1, <1>5, <2>1, <3>3 DEF StartRank
      <4>2. owner.rank = tp
        BY <1>1, <2>1, <3>3
      <4>3. QED
        BY <1>1, <2>1, <3>1, <4>1, <4>2 DEF BuiltInv, First
    <3>4. QED
      BY <3>2, <3>3
  <2>4. QED
    BY <2>2, <2>3
<1>6. CASE StartRaises
  BY <1>1, <1>6 DEF StartRaises, BuiltInv, First
<1>7. CASE CloseBegins
  BY <1>1, <1>7 DEF CloseBegins, BuiltInv, First
<1>8. CASE CloseDestroys
  BY <1>1, <1>8 DEF CloseDestroys, BuiltInv, First
<1>9. CASE CloseForgets
  BY <1>1, <1>9 DEF CloseForgets, BuiltInv, First
<1>10. CASE CloseEnds
  BY <1>1, <1>10 DEF CloseEnds, BuiltInv, First
<1>11. Next => UNCHANGED lifeVars \/ Owner \/ OwnerThread
  BY DEF Next, Caller, Rejected, Begin, CallCancelled, ThreadEnds, ThreadReturns, ThreadRaises,
         EngineEvicts
<1>12. QED
  BY <1>2, <1>3, <1>4, <1>5, <1>6, <1>7, <1>8, <1>9, <1>10, <1>11 DEF Owner, OwnerThread

\* A step of the owner changes no call.
LEMMA OwnerKeepsCalls ==
    ASSUME Owner \/ OwnerThread
    PROVE  UNCHANGED <<deployment, callVars>>
  BY DEF Owner, OwnerThread, StartBegins, CloseBegins, StartConfigures, StartRank, StartRaises,
         CloseDestroys, CloseForgets, CloseEnds

\* The ranks' engines are among those that engines can be created for.
LEMMA UpEngines ==
    ASSUME TypeInv, BuiltInv, Up
    PROVE  /\ tp \in Nat \ {0} /\ 1..tp \subseteq EngineIds
           /\ \A i \in 1..tp : engines[i] \in EngineIds
           /\ DOMAIN engines = 1..tp /\ engine = engines[1]
<1>1. tp \in Nat \ {0} /\ deployment.starts \in Nat /\ deployment.starts >= 1
  BY DeploymentType DEF TypeInv, Up, First
<1>2. deployment.starts * tp \in Nat /\ deployment.starts * tp >= tp
  BY <1>1
<1>3. 1..tp \subseteq EngineIds
  BY <1>1, <1>2 DEF EngineIds
<1>4. Len(engines) = tp /\ engine = engines[1] /\ \A i \in 1..tp : engines[i] \in 1..tp
  BY DEF BuiltInv, Up
<1>5. DOMAIN engines = 1..tp
  BY <1>4 DEF TypeInv
<1>6. QED
  BY <1>1, <1>3, <1>4, <1>5

-----------------------------------------------------------------------------
(* Which threads a call waits for *)

NotYet == owner.starts = 0 \/ (First /\ owner.pc = "starting")

LEMMA NotYetBefore ==
    ASSUME TypeInv, Owner \/ OwnerThread, NotYet'
    PROVE  NotYet
<1>1. owner.starts \in Nat /\ owner \in [pc : Phases, rank : Nat, starts : Nat]
  BY DEF TypeInv, Phases
<1>2. CASE StartBegins
  BY <1>1, <1>2 DEF StartBegins, NotYet, First
<1>3. CASE OwnerThread \/ CloseBegins
  BY <1>1, <1>3 DEF OwnerThread, StartConfigures, StartRank, StartRaises, CloseDestroys,
     CloseForgets, CloseEnds, CloseBegins, NotYet, First
<1>4. QED
  BY <1>2, <1>3 DEF Owner

LEMMA BeginCalls ==
    ASSUME TypeInv, BuiltInv, CallInv, NEW c \in Callers, NEW op \in Operations, NEW d \in Docs,
           NEW skip \in Skips(c, op, d), Begin(c, op, d, skip)
    PROVE  CallInv'
<1> DEFINE new(i) == [caller |-> c, awaited |-> TRUE, slot |-> i, op |-> op, doc |-> d,
                      skip |-> skip, engine |-> IF op = "lookup" THEN engine ELSE engines[i]]
<1>1. ~NotYet'
  BY DEF Begin, lifeVars, NotYet, First, BuiltInv
<1>2. /\ call'[c].op = op /\ call'[c].doc = d /\ call'[c].skip = skip
      /\ call'[c].pc = "running" /\ call'[c].waiting = Slots(op)
  BY BeginTyped
<1>3. \A b \in Callers \ {c} : call'[b] = call[b]
  BY DEF Begin, TypeInv
<1>4. threads' = threads \cup {new(i) : i \in Slots(op)}
  BY DEF Begin
<1>5. \A t \in threads : t.awaited => t.caller \in Callers \ {c}
  BY DEF CallInv, Begin, TypeInv, ThreadState
<1>6. \A i \in Slots(op) : /\ new(i).caller = c /\ new(i).awaited /\ new(i).slot = i
                           /\ new(i).op = op /\ new(i).doc = d /\ new(i).skip = skip
  OBVIOUS
<1> HIDE DEF new
<1>7. ASSUME NEW t \in threads', t.awaited
      PROVE  /\ call'[t.caller].pc = "running"
             /\ call'[t.caller].op = t.op
             /\ call'[t.caller].doc = t.doc
             /\ call'[t.caller].skip = t.skip
             /\ t.slot \in call'[t.caller].waiting
  <2>1. CASE t \in threads
    BY <1>3, <1>5, <1>7, <2>1 DEF CallInv
  <2>2. CASE \E i \in Slots(op) : t = new(i)
    BY <1>2, <1>6, <2>2
  <2>3. QED
    BY <1>4, <2>1, <2>2
<1>8. ASSUME NEW t \in threads', NEW u \in threads', t.awaited, u.awaited,
             t.caller = u.caller, t.slot = u.slot
      PROVE  t = u
  <2>1. (t \in threads \/ \E i \in Slots(op) : t = new(i))
        /\ (u \in threads \/ \E i \in Slots(op) : u = new(i))
    BY <1>4
  <2>2. CASE t \in threads /\ u \in threads
    BY <1>8, <2>2 DEF CallInv
  <2>3. CASE t \notin threads /\ u \notin threads
    BY <1>6, <1>8, <2>1, <2>3
  <2>4. QED
    BY <1>5, <1>6, <1>8, <2>1, <2>2, <2>3
<1>9. \A b \in Callers : call'[b].pc = "ok" => call'[b].waiting = {}
  BY <1>2, <1>3 DEF CallInv
<1>10. QED
  BY <1>1, <1>7, <1>8, <1>9 DEF CallInv, NotYet

\* What the caller of a thread that returns is left with.
LEMMA ReturnCall ==
    ASSUME TypeInv, NEW t \in threads, ThreadReturns(t), t.awaited
    PROVE  LET c == t.caller
               found == IF t.op = "store" THEN 0 ELSE Prefix(t.engine, t.doc)
           IN  /\ c \in Callers
               /\ call'[c].op = call[c].op /\ call'[c].doc = call[c].doc
               /\ call'[c].skip = call[c].skip
               /\ call'[c].waiting = call[c].waiting \ {t.slot}
               /\ call'[c].pc = IF call'[c].waiting = {} THEN "ok" ELSE "running"
               /\ t.slot = 1 => call'[c].result = found
               /\ \A b \in Callers \ {c} : call'[b] = call[b]
<1> DEFINE W == call[t.caller].waiting \ {t.slot}
           found == IF t.op = "store" THEN 0 ELSE Prefix(t.engine, t.doc)
           R == IF t.slot = 1 THEN found ELSE call[t.caller].result
           P == IF W = {} THEN "ok" ELSE "running"
<1>1. call' = [call EXCEPT ![t.caller] =
                  [call[t.caller] EXCEPT !.waiting = W, !.result = R, !.pc = P]]
  BY Zenon DEF ThreadReturns
<1>2. t.caller \in Callers /\ call \in [Callers -> CallState] /\ call[t.caller] \in CallState
  BY DEF TypeInv, ThreadState
<1>3. R = IF t.slot = 1 THEN found ELSE call[t.caller].result
  OBVIOUS
<1>4. P = IF W = {} THEN "ok" ELSE "running"
  OBVIOUS
<1> HIDE DEF W, R, P
<1>5. call'[t.caller] = [call[t.caller] EXCEPT !.waiting = W, !.result = R, !.pc = P]
  BY <1>1, <1>2
<1>6. /\ call'[t.caller].op = call[t.caller].op /\ call'[t.caller].doc = call[t.caller].doc
      /\ call'[t.caller].skip = call[t.caller].skip
      /\ call'[t.caller].waiting = W /\ call'[t.caller].result = R /\ call'[t.caller].pc = P
  BY <1>2, <1>5 DEF CallState
<1>7. \A b \in Callers \ {t.caller} : call'[b] = call[b]
  BY <1>1, <1>2
<1>8. W = call[t.caller].waiting \ {t.slot}
  BY DEF W
<1>9. QED
  BY <1>2, <1>3, <1>4, <1>6, <1>7, <1>8

LEMMA ReturnCalls ==
    ASSUME TypeInv, CallInv, NEW t \in threads, ThreadReturns(t)
    PROVE  CallInv'
<1>1. ~NotYet /\ ~NotYet'
  BY DEF CallInv, NotYet, ThreadReturns, lifeVars, First
<1>2. threads' = threads \ {t}
  BY DEF ThreadReturns
<1>3. CASE ~t.awaited
  <2>1. call' = call
    BY <1>3 DEF ThreadReturns
  <2>2. QED
    BY <1>1, <1>2, <2>1 DEF CallInv, NotYet
<1>4. CASE t.awaited
  <2> DEFINE c == t.caller
  <2>1. /\ c \in Callers
        /\ call'[c].op = call[c].op /\ call'[c].doc = call[c].doc
        /\ call'[c].skip = call[c].skip
        /\ call'[c].waiting = call[c].waiting \ {t.slot}
        /\ call'[c].pc = IF call'[c].waiting = {} THEN "ok" ELSE "running"
        /\ \A b \in Callers \ {c} : call'[b] = call[b]
    BY <1>4, ReturnCall
  <2>2. ASSUME NEW u \in threads', u.awaited
        PROVE  /\ call'[u.caller].pc = "running"
               /\ call'[u.caller].op = u.op
               /\ call'[u.caller].doc = u.doc
               /\ call'[u.caller].skip = u.skip
               /\ u.slot \in call'[u.caller].waiting
    <3>1. /\ u \in threads /\ u # t /\ u.caller \in Callers
          /\ call[u.caller].pc = "running"
          /\ call[u.caller].op = u.op
          /\ call[u.caller].doc = u.doc
          /\ call[u.caller].skip = u.skip
          /\ u.slot \in call[u.caller].waiting
      BY <1>2, <2>2 DEF CallInv, TypeInv, ThreadState
    <3>2. CASE u.caller # c
      BY <2>1, <3>1, <3>2
    <3>3. CASE u.caller = c
      <4>1. u.slot # t.slot
        BY <1>4, <2>2, <3>1, <3>3 DEF CallInv
      <4>2. QED
        BY <2>1, <3>1, <3>3, <4>1
    <3>4. QED
      BY <3>2, <3>3
  <2>3. \A u, v \in threads' :
            u.awaited /\ v.awaited /\ u.caller = v.caller /\ u.slot = v.slot => u = v
    BY <1>2 DEF CallInv
  <2>4. \A b \in Callers : call'[b].pc = "ok" => call'[b].waiting = {}
    BY <2>1 DEF CallInv
  <2>5. QED
    BY <1>1, <2>2, <2>3, <2>4 DEF CallInv, NotYet
<1>5. QED
  BY <1>3, <1>4

\* A call that raises or is cancelled waits for nothing; its threads are on their own.
LEMMA DetachedCalls ==
    ASSUME TypeInv, CallInv, NEW c \in Callers, UNCHANGED lifeVars, ~NotYet,
           threads' \subseteq Detached(c),
           call'[c].pc \in {"raised", "cancelled"},
           \A b \in Callers \ {c} : call'[b] = call[b]
    PROVE  CallInv'
<1>1. ~NotYet'
  BY DEF lifeVars, NotYet, First
<1>2. \A t \in threads' : t.awaited => t \in threads /\ t.caller # c
  BY DetachedTyped
<1>3. \A t \in threads : t.caller \in Callers
  BY DEF TypeInv, ThreadState
<1>4. QED
  BY <1>1, <1>2, <1>3 DEF CallInv, NotYet

LEMMA RaiseCalls ==
    ASSUME TypeInv, CallInv, NEW t \in threads, ThreadRaises(t)
    PROVE  CallInv'
<1>1. ~NotYet /\ UNCHANGED lifeVars
  BY DEF CallInv, NotYet, ThreadRaises
<1>2. CASE t.awaited
  <2>1. t.caller \in Callers /\ call \in [Callers -> CallState]
    BY DEF TypeInv, ThreadState
  <2>2. call' = [call EXCEPT ![t.caller] = [call[t.caller] EXCEPT !.pc = "raised", !.waiting = {}]]
        /\ threads' \subseteq Detached(t.caller)
    BY <1>2, <2>1 DEF ThreadRaises
  <2>3. call'[t.caller].pc = "raised" /\ \A b \in Callers \ {t.caller} : call'[b] = call[b]
    BY <2>1, <2>2 DEF CallState
  <2>4. QED
    BY <1>1, <2>1, <2>2, <2>3, DetachedCalls
<1>3. CASE ~t.awaited
  <2>1. UNCHANGED call /\ threads' \subseteq threads
    BY <1>3 DEF ThreadRaises
  <2>2. ~NotYet'
    BY <1>1 DEF lifeVars, NotYet, First
  <2>3. QED
    BY <2>1, <2>2 DEF CallInv, NotYet
<1>4. QED
  BY <1>2, <1>3

LEMMA CancelCalls ==
    ASSUME TypeInv, CallInv, NEW c \in Callers, CallCancelled(c)
    PROVE  CallInv'
<1>1. ~NotYet /\ UNCHANGED lifeVars /\ threads' \subseteq Detached(c)
  BY DEF CallInv, NotYet, CallCancelled
<1>2. call' = [call EXCEPT ![c] = [call[c] EXCEPT !.pc = "cancelled", !.waiting = {}]]
      /\ call \in [Callers -> CallState]
  BY DEF CallCancelled, TypeInv
<1>3. call'[c].pc = "cancelled" /\ \A b \in Callers \ {c} : call'[b] = call[b]
  BY <1>2 DEF CallState
<1>4. QED
  BY <1>1, <1>3, DetachedCalls

LEMMA RejectCalls ==
    ASSUME TypeInv, CallInv, NEW c \in Callers, NEW op, NEW d, Rejected(c, op, d)
    PROVE  CallInv'
<1>1. UNCHANGED <<lifeVars, threads>> /\ call[c].pc # "running"
  BY DEF Rejected
<1>2. call'[c] = [NoCall EXCEPT !.op = op, !.doc = d, !.pc = "raised"]
      /\ \A b \in Callers \ {c} : call'[b] = call[b]
  BY DEF Rejected, TypeInv
<1>3. call'[c].pc = "raised"
  BY <1>2 DEF NoCall
<1>4. \A t \in threads : t.awaited => t.caller \in Callers \ {c}
  BY <1>1 DEF CallInv, TypeInv, ThreadState
<1>5. NotYet' = NotYet
  BY <1>1 DEF lifeVars, NotYet, First
<1>6. ASSUME NEW t \in threads', t.awaited
      PROVE  /\ call'[t.caller].pc = "running"
             /\ call'[t.caller].op = t.op
             /\ call'[t.caller].doc = t.doc
             /\ call'[t.caller].skip = t.skip
             /\ t.slot \in call'[t.caller].waiting
  <2>1. t \in threads /\ call'[t.caller] = call[t.caller]
    BY <1>1, <1>2, <1>4, <1>6
  <2>2. QED
    BY <1>6, <2>1 DEF CallInv
<1>7. NotYet' => threads' = {} /\ \A b \in Callers : call'[b].pc \in {"idle", "raised"}
  BY <1>1, <1>2, <1>3, <1>5 DEF CallInv, NotYet
<1>8. \A b \in Callers : call'[b].pc = "ok" => call'[b].waiting = {}
  BY <1>2, <1>3 DEF CallInv
<1>9. \A t, u \in threads' :
          t.awaited /\ u.awaited /\ t.caller = u.caller /\ t.slot = u.slot => t = u
  BY <1>1 DEF CallInv
<1>10. QED
  BY <1>6, <1>7, <1>8, <1>9 DEF CallInv, NotYet

LEMMA CallStep ==
    ASSUME TypeInv, BuiltInv, CallInv, Next
    PROVE  CallInv'
<1>1. CASE Owner \/ OwnerThread
  <2>1. UNCHANGED <<call, threads>> /\ (NotYet' => NotYet)
    BY <1>1, OwnerKeepsCalls, NotYetBefore DEF callVars
  <2>2. QED
    BY <2>1 DEF CallInv, NotYet
<1>2. ASSUME NEW c \in Callers, Caller(c)
      PROVE  CallInv'
  <2>1. PICK op \in Operations, d \in Docs :
            Rejected(c, op, d) \/ \E skip \in Skips(c, op, d) : Begin(c, op, d, skip)
    BY <1>2 DEF Caller, Operations
  <2>2. QED
    BY <2>1, RejectCalls, BeginCalls
<1>3. ASSUME NEW c \in Callers, CallCancelled(c)
      PROVE  CallInv'
  BY <1>3, CancelCalls
<1>4. CASE ThreadEnds
  BY <1>4, ReturnCalls, RaiseCalls DEF ThreadEnds
<1>5. ASSUME NEW e \in EngineIds, EngineEvicts(e)
      PROVE  CallInv'
  <2>1. UNCHANGED <<lifeVars, call, threads>>
    BY <1>5 DEF EngineEvicts, callVars
  <2>2. QED
    BY <2>1 DEF CallInv, lifeVars, First
<1>6. QED
  BY <1>1, <1>2, <1>3, <1>4, <1>5 DEF Next

-----------------------------------------------------------------------------
(* Where the threads work, and what they leave behind *)

\* The stack comes up only by the last rank of the first start(), when nothing
\* was called yet.
LEMMA ComesUp ==
    ASSUME TypeInv, BuiltInv, CallInv, Owner \/ OwnerThread, Up'
    PROVE  NotYet /\ threads = {} /\ \A c \in Callers : call[c].pc \in {"idle", "raised"}
<1>1. owner \in [pc : Phases, rank : Nat, starts : Nat]
  BY DEF TypeInv, Phases
<1>2. owner'.pc = "up" /\ owner'.starts = 1
  BY DEF Up, First
<1>3. StartRank
  <2>1. ASSUME StartBegins \/ StartConfigures \/ StartRaises
        PROVE  owner'.pc \in {"starting", "down"}
    <3>1. CASE StartBegins
      BY <3>1 DEF StartBegins
    <3>2. CASE StartConfigures
      BY <1>1, <3>2 DEF StartConfigures
    <3>3. CASE StartRaises
      BY <1>1, <3>3 DEF StartRaises
    <3>4. QED
      BY <2>1, <3>1, <3>2, <3>3
  <2>2. ~CloseBegins
    BY <1>1, <1>2 DEF CloseBegins
  <2>3. ~CloseDestroys /\ ~CloseForgets /\ ~CloseEnds
    BY <1>1, <1>2 DEF CloseDestroys, CloseForgets, CloseEnds
  <2>4. QED
    BY <1>2, <2>1, <2>2, <2>3 DEF Owner, OwnerThread
<1>4. owner.pc = "starting" /\ owner.starts = 1
  BY <1>1, <1>2, <1>3 DEF StartRank
<1>5. QED
  BY <1>4 DEF NotYet, First, CallInv

LEMMA ThreadStep ==
    ASSUME TypeInv, BuiltInv, CallInv, ThreadInv, Next
    PROVE  ThreadInv'
<1>1. SUFFICES ASSUME Up'
               PROVE  \A t \in threads' : /\ t.slot \in 1..tp'
                                          /\ t.op = "lookup" => t.slot = 1
                                          /\ t.engine = engines'[t.slot]
  BY DEF ThreadInv
<1>2. CASE Owner \/ OwnerThread
  <2>1. threads' = threads
    BY <1>2, OwnerKeepsCalls DEF callVars
  <2>2. QED
    BY <1>1, <1>2, <2>1, ComesUp
<1>3. ASSUME UNCHANGED lifeVars
      PROVE  /\ tp' = tp /\ engines' = engines /\ Up
             /\ \A t \in threads : /\ t.slot \in 1..tp
                                   /\ t.op = "lookup" => t.slot = 1
                                   /\ t.engine = engines[t.slot]
  BY <1>1, <1>3 DEF lifeVars, tp, Up, First, ThreadInv
<1>4. ASSUME NEW c \in Callers, NEW op \in Operations, NEW d \in Docs,
             NEW skip \in Skips(c, op, d), Begin(c, op, d, skip),
             NEW t \in threads'
      PROVE  t.slot \in 1..tp' /\ (t.op = "lookup" => t.slot = 1) /\ t.engine = engines'[t.slot]
  <2>1. UNCHANGED lifeVars
    BY <1>4 DEF Begin
  <2>2. CASE t \in threads
    BY <1>3, <2>1, <2>2
  <2>3. ASSUME NEW i \in Slots(op),
               t = [caller |-> c, awaited |-> TRUE, slot |-> i, op |-> op, doc |-> d,
                    skip |-> skip, engine |-> IF op = "lookup" THEN engine ELSE engines[i]]
        PROVE  t.slot \in 1..tp' /\ (t.op = "lookup" => t.slot = 1) /\ t.engine = engines'[t.slot]
    <3>1. DOMAIN engines = 1..tp /\ engine = engines[1] /\ tp \in Nat \ {0}
      BY <1>3, <2>1, UpEngines
    <3>2. i \in 1..tp /\ (op = "lookup" => i = 1)
      BY <3>1 DEF Slots
    <3>3. QED
      BY <1>3, <2>1, <2>3, <3>1, <3>2
  <2>4. QED
    BY <1>4, <2>2, <2>3 DEF Begin
<1>5. ASSUME NEW c \in Callers, Caller(c)
      PROVE  \A t \in threads' : /\ t.slot \in 1..tp'
                                 /\ t.op = "lookup" => t.slot = 1
                                 /\ t.engine = engines'[t.slot]
  <2>1. PICK op \in Operations, d \in Docs :
            Rejected(c, op, d) \/ \E skip \in Skips(c, op, d) : Begin(c, op, d, skip)
    BY <1>5 DEF Caller, Operations
  <2>2. CASE Rejected(c, op, d)
    BY <1>3, <2>2 DEF Rejected
  <2>3. QED
    BY <1>4, <2>1, <2>2
<1>6. ASSUME UNCHANGED lifeVars, NEW c, threads' \subseteq threads \cup Detached(c)
      PROVE  \A t \in threads' : /\ t.slot \in 1..tp'
                                 /\ t.op = "lookup" => t.slot = 1
                                 /\ t.engine = engines'[t.slot]
  BY <1>3, <1>6, DetachedTyped
<1>7. CASE ThreadEnds
  <2>1. PICK t \in threads : ThreadReturns(t) \/ ThreadRaises(t)
    BY <1>7 DEF ThreadEnds
  <2>2. UNCHANGED lifeVars /\ threads' \subseteq threads \cup Detached(t.caller)
    BY <2>1 DEF ThreadReturns, ThreadRaises
  <2>3. QED
    BY <1>6, <2>2
<1>8. ASSUME NEW c \in Callers, CallCancelled(c)
      PROVE  UNCHANGED lifeVars /\ threads' \subseteq threads \cup Detached(c)
  BY <1>8 DEF CallCancelled
<1>9. ASSUME NEW e \in EngineIds, EngineEvicts(e)
      PROVE  UNCHANGED <<lifeVars, threads>>
  BY <1>9 DEF EngineEvicts, callVars
<1>10. QED
  BY <1>2, <1>3, <1>5, <1>6, <1>7, <1>8, <1>9 DEF Next

\* Results of calls that have ended, or not begun, survive what only adds chunks.
LEMMA ResultsKept ==
    ASSUME TypeInv, BuiltInv, ResultInv, Steady', UNCHANGED lifeVars,
           \A e \in EngineIds : held[e] \subseteq held'[e],
           NEW c \in Callers,
           call'[c].op = call[c].op, call'[c].doc = call[c].doc, call'[c].skip = call[c].skip,
           call'[c].waiting = call[c].waiting, call'[c].pc = call[c].pc,
           call'[c].result = call[c].result
    PROVE  /\ call'[c].op = "store" /\ call'[c].pc \in {"running", "ok"} =>
                  \A i \in (1..tp) \ call'[c].waiting :
                      Chunks(call'[c].doc, call'[c].skip) \subseteq held'[engines[i]]
           /\ call'[c].op = "lookup" /\ call'[c].pc = "ok" =>
                  Leading(held'[engine], call'[c].doc) >= call'[c].result
<1>1. Steady /\ Up
  BY DEF Steady, Up, First, lifeVars
<1>2. \A i \in 1..tp : engines[i] \in EngineIds
  BY <1>1, UpEngines
<1>3. engine \in EngineIds
  BY <1>1, <1>2, UpEngines
<1>4. ASSUME call[c].op = "store", call[c].pc \in {"running", "ok"},
             NEW i \in (1..tp) \ call[c].waiting
      PROVE  Chunks(call[c].doc, call[c].skip) \subseteq held'[engines[i]]
  BY <1>1, <1>2, <1>4 DEF ResultInv
<1>5. ASSUME call[c].op = "lookup", call[c].pc = "ok"
      PROVE  Leading(held'[engine], call[c].doc) >= call[c].result
  <2>1. Leading(held[engine], call[c].doc) >= call[c].result
    BY <1>1, <1>5 DEF ResultInv, Prefix
  <2>2. Leading(held'[engine], call[c].doc) >= Leading(held[engine], call[c].doc)
    BY <1>3, LeadingGrows
  <2>3. /\ Leading(held[engine], call[c].doc) \in 0..DocLen
        /\ Leading(held'[engine], call[c].doc) \in 0..DocLen
    BY LeadingIsLongest
  <2>4. call[c].result \in Nat
    BY DEF TypeInv, CallState
  <2>5. QED
    BY <2>1, <2>2, <2>3, <2>4, StackAssumption
<1>6. QED
  BY <1>4, <1>5

LEMMA ResultStep ==
    ASSUME TypeInv, BuiltInv, CallInv, ThreadInv, ResultInv, Next
    PROVE  ResultInv'
<1> DEFINE Good(c) ==
        /\ call'[c].op = "store" /\ call'[c].pc \in {"running", "ok"} =>
               \A i \in (1..tp) \ call'[c].waiting :
                   Chunks(call'[c].doc, call'[c].skip) \subseteq held'[engines[i]]
        /\ call'[c].op = "lookup" /\ call'[c].pc = "ok" =>
               Leading(held'[engine], call'[c].doc) >= call'[c].result
<1>1. SUFFICES ASSUME Steady' PROVE ResultInv'
  BY DEF ResultInv
<1>2. CASE Owner \/ OwnerThread
  <2>1. \A c \in Callers : call'[c].pc \in {"idle", "raised"}
    BY <1>1, <1>2, ComesUp, OwnerKeepsCalls DEF Steady, Up, First, callVars
  <2>2. QED
    BY <2>1 DEF ResultInv
<1>3. ASSUME UNCHANGED lifeVars
      PROVE  /\ Steady /\ Up
             /\ (\A c \in Callers : Good(c)) => ResultInv'
             /\ tp' = tp /\ engines' = engines /\ engine' = engine
  BY <1>1, <1>3 DEF lifeVars, Steady, Up, First, tp, ResultInv, Prefix
<1> HIDE DEF Good
<1>4. ASSUME UNCHANGED lifeVars, NEW c \in Callers, call'[c] = call[c],
             \A e \in EngineIds : held[e] \subseteq held'[e]
      PROVE  Good(c)
  BY <1>1, <1>4, ResultsKept DEF Good
<1>5. \A c : call'[c].pc \in {"raised", "cancelled"} => Good(c)
  BY DEF Good
<1>6. ASSUME UNCHANGED <<lifeVars, held>>, NEW c \in Callers,
             call'[c].pc \in {"raised", "cancelled"},
             \A b \in Callers \ {c} : call'[b] = call[b]
      PROVE  ResultInv'
  <2>1. \A e \in EngineIds : held[e] \subseteq held'[e]
    BY <1>6
  <2>2. \A b \in Callers : Good(b)
    BY <1>4, <1>5, <1>6, <2>1
  <2>3. QED
    BY <1>3, <1>6, <2>2
<1>7. ASSUME NEW c \in Callers, NEW op \in Operations, NEW d \in Docs, Rejected(c, op, d)
      PROVE  ResultInv'
  <2>1. call'[c] = [NoCall EXCEPT !.op = op, !.doc = d, !.pc = "raised"]
        /\ \A b \in Callers \ {c} : call'[b] = call[b]
    BY <1>7 DEF Rejected, TypeInv
  <2>2. call'[c].pc = "raised"
    BY <2>1 DEF NoCall
  <2>3. QED
    BY <1>6, <1>7, <2>1, <2>2 DEF Rejected
<1>8. ASSUME NEW c \in Callers, NEW op \in Operations, NEW d \in Docs,
             NEW skip \in Skips(c, op, d), Begin(c, op, d, skip)
      PROVE  ResultInv'
  <2>1. UNCHANGED <<lifeVars, held>> /\ \A b \in Callers \ {c} : call'[b] = call[b]
    BY <1>8 DEF Begin, TypeInv
  <2>2. call'[c].op = op /\ call'[c].pc = "running" /\ call'[c].waiting = Slots(op)
    BY <1>8, BeginTyped
  <2>3. op = "store" => Slots(op) = 1..tp
    BY <1>3, <2>1, UpEngines DEF Slots
  <2>4. Good(c)
    BY <2>2, <2>3 DEF Good
  <2>5. \A b \in Callers : Good(b)
    BY <1>4, <2>1, <2>4
  <2>6. QED
    BY <1>3, <2>1, <2>5
<1>9. ASSUME NEW c \in Callers, Caller(c)
      PROVE  ResultInv'
  <2>1. PICK op \in Operations, d \in Docs :
            Rejected(c, op, d) \/ \E skip \in Skips(c, op, d) : Begin(c, op, d, skip)
    BY <1>9 DEF Caller, Operations
  <2>2. QED
    BY <1>7, <1>8, <2>1
<1>10. ASSUME NEW c \in Callers, CallCancelled(c)
       PROVE  ResultInv'
  <2>1. call' = [call EXCEPT ![c] = [call[c] EXCEPT !.pc = "cancelled", !.waiting = {}]]
        /\ call \in [Callers -> CallState]
    BY <1>10 DEF CallCancelled, TypeInv
  <2>2. call'[c].pc = "cancelled" /\ \A b \in Callers \ {c} : call'[b] = call[b]
    BY <2>1 DEF CallState
  <2>3. QED
    BY <1>6, <1>10, <2>2 DEF CallCancelled
<1>11. ASSUME NEW t \in threads, ThreadRaises(t)
       PROVE  ResultInv'
  <2>1. UNCHANGED <<lifeVars, held>> /\ t.caller \in Callers /\ call \in [Callers -> CallState]
    BY <1>11 DEF ThreadRaises, TypeInv, ThreadState
  <2>2. CASE t.awaited
    <3>1. call' = [call EXCEPT ![t.caller] =
                      [call[t.caller] EXCEPT !.pc = "raised", !.waiting = {}]]
      BY <1>11, <2>1, <2>2 DEF ThreadRaises
    <3>2. call'[t.caller].pc = "raised" /\ \A b \in Callers \ {t.caller} : call'[b] = call[b]
      BY <2>1, <3>1 DEF CallState
    <3>3. QED
      BY <1>6, <2>1, <3>2
  <2>3. CASE ~t.awaited
    <3>1. call' = call /\ \A e \in EngineIds : held[e] \subseteq held'[e]
      BY <1>11, <2>1, <2>3 DEF ThreadRaises
    <3>2. QED
      BY <1>3, <1>4, <2>1, <3>1
  <2>4. QED
    BY <2>2, <2>3
<1>12. ASSUME NEW t \in threads, ThreadReturns(t)
       PROVE  ResultInv'
  <2> DEFINE c == t.caller
  <2>1. UNCHANGED lifeVars /\ Up /\ Steady /\ held \in [EngineIds -> SUBSET (Docs \X Nat)]
    BY <1>3, <1>12 DEF ThreadReturns, TypeInv
  <2>2. /\ t.slot \in 1..tp /\ (t.op = "lookup" => t.slot = 1) /\ t.engine = engines[t.slot]
        /\ engines[t.slot] \in EngineIds /\ engine = engines[1]
    BY <2>1, UpEngines DEF ThreadInv
  <2>3. t.op = "store" =>
            held' = [held EXCEPT ![t.engine] = held[t.engine] \cup Chunks(t.doc, t.skip)]
    BY <1>12 DEF ThreadReturns
  <2>4. t.op # "store" => held' = held
    BY <1>12 DEF ThreadReturns
  <2>5. \A e \in EngineIds : held[e] \subseteq held'[e]
    BY <2>1, <2>3, <2>4
  <2>6. CASE ~t.awaited
    <3>1. call' = call
      BY <1>12, <2>6 DEF ThreadReturns
    <3>2. QED
      BY <1>3, <1>4, <2>1, <2>5, <3>1
  <2>7. CASE t.awaited
    <3>1. /\ c \in Callers
          /\ call'[c].op = call[c].op /\ call'[c].doc = call[c].doc
          /\ call'[c].skip = call[c].skip
          /\ call'[c].waiting = call[c].waiting \ {t.slot}
          /\ call'[c].pc = IF call'[c].waiting = {} THEN "ok" ELSE "running"
          /\ t.slot = 1 => call'[c].result =
                               (IF t.op = "store" THEN 0 ELSE Prefix(t.engine, t.doc))
          /\ \A b \in Callers \ {c} : call'[b] = call[b]
      BY <1>12, <2>7, ReturnCall
    <3>2. /\ call[c].pc = "running" /\ call[c].op = t.op /\ call[c].doc = t.doc
          /\ call[c].skip = t.skip
      BY <2>7 DEF CallInv
    <3>3. ASSUME t.op = "store", NEW i \in (1..tp) \ call'[c].waiting
          PROVE  Chunks(t.doc, t.skip) \subseteq held'[engines[i]]
      <4>1. CASE i = t.slot
        BY <2>1, <2>2, <2>3, <3>3, <4>1
      <4>2. CASE i # t.slot
        <5>1. i \in (1..tp) \ call[c].waiting /\ engines[i] \in EngineIds
          BY <2>1, <3>1, <3>3, <4>2, UpEngines
        <5>2. Chunks(t.doc, t.skip) \subseteq held[engines[i]]
          BY <2>1, <3>1, <3>2, <3>3, <5>1 DEF ResultInv
        <5>3. QED
          BY <2>5, <5>1, <5>2
      <4>3. QED
        BY <4>1, <4>2
    <3>4. ASSUME t.op = "lookup"
          PROVE  Leading(held'[engine], t.doc) >= call'[c].result
      <4>1. call'[c].result = Leading(held[engine], t.doc) /\ held' = held
        BY <2>2, <2>4, <3>1, <3>4 DEF Prefix
      <4>2. Leading(held[engine], t.doc) \in 0..DocLen
        BY LeadingIsLongest
      <4>3. QED
        BY <4>1, <4>2, StackAssumption
    <3>5. Good(c)
      BY <3>1, <3>2, <3>3, <3>4 DEF Good
    <3>6. \A b \in Callers : Good(b)
      BY <1>4, <2>1, <2>5, <3>1, <3>5
    <3>7. QED
      BY <1>3, <2>1, <3>6
  <2>8. QED
    BY <2>6, <2>7
<1>13. ASSUME NEW e \in EngineIds, EngineEvicts(e)
       PROVE  FALSE
  BY <1>1, <1>13 DEF EngineEvicts, Steady, lifeVars
<1>14. QED
  BY <1>2, <1>9, <1>10, <1>11, <1>12, <1>13 DEF Next, ThreadEnds

-----------------------------------------------------------------------------
(* The theorems *)

LEMMA Stutter ==
    ASSUME UNCHANGED vars
    PROVE  (IInv => IInv') /\ (Releasing => Releasing')
<1>1. /\ UNCHANGED <<deployment, owner, registry, opened, created, engines, engine, recorders>>
      /\ UNCHANGED <<held, call, threads>>
      /\ tp' = tp /\ EngineIds' = EngineIds
  BY DEF vars, lifeVars, callVars, tp, EngineIds
<1>2. TypeInv => TypeInv'
  BY <1>1 DEF TypeInv
<1>3. BuiltInv => BuiltInv'
  BY <1>1 DEF BuiltInv, First, Built
<1>4. CallInv => CallInv'
  BY <1>1 DEF CallInv, First
<1>5. ThreadInv => ThreadInv'
  BY <1>1 DEF ThreadInv, Up, First
<1>6. ResultInv => ResultInv'
  BY <1>1 DEF ResultInv, Steady, Prefix
<1>7. Releasing => Releasing'
  BY <1>1 DEF Releasing
<1>8. QED
  BY <1>2, <1>3, <1>4, <1>5, <1>6, <1>7 DEF IInv

LEMMA Invariance == Spec => []IInv
<1>1. IInv /\ [Next]_vars => IInv'
  <2>1. IInv /\ Next => IInv'
    BY StepTyped, BuiltStep, CallStep, ThreadStep, ResultStep DEF IInv
  <2>2. QED
    BY <2>1, Stutter
<1>2. QED
  BY <1>1, InitEstablishes, PTL DEF Spec

\* A store that returned is on every rank, while nothing evicts (lines 211-218):
\* for any number of ranks, whatever other calls run, raise or are cancelled.
THEOREM StoreReachesEveryRank == Spec => []StoreOkMeansStored
<1>1. IInv => StoreOkMeansStored
  <2>1. SUFFICES ASSUME IInv, NEW c \in Callers, Steady, call[c].op = "store", call[c].pc = "ok",
                        NEW r \in 1..tp
                 PROVE  Chunks(call[c].doc, call[c].skip) \subseteq held[engines[r]]
    BY DEF StoreOkMeansStored
  <2>2. call[c].waiting = {}
    BY <2>1 DEF IInv, CallInv
  <2>3. QED
    BY <2>1, <2>2 DEF IInv, ResultInv
<1>2. QED
  BY <1>1, Invariance, PTL

\* What a lookup found stays there to be retrieved, while nothing evicts: stores
\* of other callers only make the prefix longer (lines 195-205 and 225-239).
THEOREM HitsStay == Spec => []HitStaysHit
<1>1. IInv => HitStaysHit
  BY DEF IInv, ResultInv, HitStaysHit
<1>2. QED
  BY <1>1, Invariance, PTL

LEMMA ReleasingStep ==
    ASSUME TypeInv, Releasing, Next
    PROVE  Releasing'
<1>1. /\ UNCHANGED deployment => tp' = tp
      /\ owner \in [pc : Phases, rank : Nat, starts : Nat] /\ owner.rank <= tp
      /\ registry \in [0..tp -> Nat] /\ created \in Nat /\ recorders \in Nat
      /\ engines \in Seq(Nat)
  BY DeploymentType DEF TypeInv, Phases
<1>2. CASE UNCHANGED lifeVars
  BY <1>1, <1>2 DEF lifeVars, Releasing
<1>3. CASE Owner \/ OwnerThread
  <2>1. SUFFICES ASSUME tp = 1, ~deployment.start_fails
                 PROVE  Releasing'
    <3>1. deployment' = deployment /\ tp' = tp
      BY <1>1, <1>3, OwnerKeepsCalls
    <3>2. QED
      BY <3>1 DEF Releasing
  <2>2. CASE StartBegins
    BY <1>1, <2>1, <2>2 DEF StartBegins, Releasing
  <2>3. CASE StartConfigures
    BY <1>1, <2>1, <2>3 DEF StartConfigures, Releasing
  <2>4. CASE StartRank
    <3>1. owner.pc = "starting" /\ owner.rank = 1 /\ Name(owner.rank) = 0
      BY <1>1, <2>1, <2>4 DEF StartRank, Name
    <3>2. registry[0] = 0 /\ opened = {} /\ recorders \in {0, 1}
      BY <2>1, <3>1 DEF Releasing
    <3>3. registry' = [registry EXCEPT ![0] = created + 1] /\ opened' = {created + 1}
      BY <2>4, <3>1, <3>2 DEF StartRank, GetOrCreate
    <3>4. registry'[0] = created + 1 /\ created + 1 \in Nat \ {0}
      BY <1>1, <2>1, <3>3
    <3>5. engines' = Append(engines, created + 1) /\ engine' = engines'[1] /\ owner'.pc = "up"
          /\ UNCHANGED <<deployment, recorders>>
      <4>1. engines' = Append(engines, registry'[Name(owner.rank)])
        BY <2>4 DEF StartRank
      <4>2. ~(owner.rank < tp)
        BY <2>1, <3>1
      <4>3. engine' = engines'[1] /\ owner' = [owner EXCEPT !.pc = "up", !.rank = 0]
            /\ UNCHANGED <<deployment, recorders>>
        BY <2>4, <4>2 DEF StartRank
      <4>4. owner'.pc = "up"
        BY <1>1, <4>3
      <4>5. QED
        BY <3>1, <3>4, <4>1, <4>3, <4>4
    <3>6. /\ Len(engines') = Len(engines) + 1 /\ Len(engines) \in Nat
          /\ engines'[Len(engines) + 1] = created + 1
          /\ \A i \in 1..Len(engines) : engines'[i] = engines[i]
      BY <1>1, <3>4, <3>5, AppendProperties
    <3>7. \A i \in 1..Len(engines') : engines'[i] # 0
      <4>1. ASSUME NEW i \in 1..Len(engines')
            PROVE  engines'[i] # 0
        <5>1. i \in 1..Len(engines) \/ i = Len(engines) + 1
          BY <3>6
        <5>2. QED
          BY <2>1, <3>4, <3>6, <5>1 DEF Releasing
      <4>2. QED
        BY <4>1
    <3>8. engine' # 0
      BY <3>5, <3>6, <3>7
    <3>9. QED
      BY <1>1, <3>2, <3>3, <3>4, <3>5, <3>7, <3>8 DEF Releasing
  <2>5. CASE StartRaises
    BY <2>1, <2>5 DEF StartRaises
  <2>6. CASE CloseBegins
    BY <1>1, <2>1, <2>6 DEF CloseBegins, Releasing
  <2>7. CASE CloseDestroys
    BY <1>1, <2>1, <2>7 DEF CloseDestroys, Releasing
  <2>8. CASE CloseForgets
    BY <1>1, <2>1, <2>8 DEF CloseForgets, Releasing
  <2>9. CASE CloseEnds
    BY <1>1, <2>1, <2>9 DEF CloseEnds, Releasing
  <2>10. QED
    BY <1>3, <2>2, <2>3, <2>4, <2>5, <2>6, <2>7, <2>8, <2>9 DEF Owner, OwnerThread
<1>4. Next => UNCHANGED lifeVars \/ Owner \/ OwnerThread
  BY DEF Next, Caller, Rejected, Begin, CallCancelled, ThreadEnds, ThreadReturns, ThreadRaises,
         EngineEvicts
<1>5. QED
  BY <1>2, <1>3, <1>4

\* Where there is one rank and no start() fails, a closed stack has no engine and
\* no open trace file (lines 169-190), however often it is started and closed and
\* whatever its callers do meanwhile.
THEOREM OneRankIsReleased == Spec => []OneRankReleases
<1>1. IInv /\ Releasing /\ [Next]_vars => Releasing'
  BY ReleasingStep, Stutter DEF IInv
<1>2. Releasing => OneRankReleases
  BY DEF Releasing, OneRankReleases, CloseReleases
<1>3. QED
  BY <1>1, <1>2, InitEstablishes, Invariance, PTL DEF Spec

-----------------------------------------------------------------------------
(* The ranks agree: the calls that were issued, and what the ranks hold.   *)

Running == {c \in Callers : call[c].pc = "running"}

Succeeded == stats.lookups + stats.stores + stats.retrieves

NoneFailed == issued = Succeeded + Cardinality(Running)

StatsState ==
    [lookups : Nat, lookup_chunks : Nat, hit_chunks : Nat, stores : Nat, stored_chunks : Int,
     retrieves : Nat, retrieved_chunks : Nat, errors : Nat]

\* A call that was issued runs, has succeeded, or is one that was rejected, raised
\* or was cancelled; only the latter leave threads behind.
CountInv ==
    /\ stats \in StatsState
    /\ issued \in Nat
    /\ IsFiniteSet(Running)
    /\ issued >= Succeeded + Cardinality(Running)
    /\ NoneFailed => \A t \in threads : t.awaited

\* What one rank holds another holds too, or a store that runs waits for it, as
\* long as no call fails.  No engine holds anything before the stack is up.
AgreeInv ==
    /\ NotYet => \A e \in EngineIds : held[e] = {}
    /\ Steady /\ NoneFailed =>
          \A r, s \in 1..tp : \A x \in held[engines[r]] :
              \/ x \in held[engines[s]]
              \/ \E c \in Running : /\ call[c].op = "store"
                                    /\ s \in call[c].waiting
                                    /\ x \in Chunks(call[c].doc, call[c].skip)

\* A call that is over without success leaves fewer running than were issued.
LEMMA FailureCounted ==
    ASSUME CountInv, NEW c \in Running, UNCHANGED <<stats, issued>>, Running' = Running \ {c}
    PROVE  CountInv' /\ ~NoneFailed'
<1> DEFINE n == Cardinality(Running)
<1>1. /\ IsFiniteSet(Running') /\ Cardinality(Running') = n - 1 /\ n \in Nat
  BY FS_RemoveElement, FS_CardinalityType DEF CountInv
<1>2. Succeeded \in Nat /\ Succeeded' = Succeeded /\ issued \in Nat /\ issued >= Succeeded + n
  BY DEF CountInv, StatsState, Succeeded
<1> HIDE DEF n
<1>3. issued' > Succeeded' + Cardinality(Running')
  BY <1>1, <1>2
<1>4. QED
  BY <1>1, <1>2, <1>3 DEF CountInv, NoneFailed

LEMMA RaiseCounted ==
    ASSUME TypeInv, CallInv, CountInv, NEW t \in threads, ThreadRaises(t)
    PROVE  CountInv' /\ ~NoneFailed'
<1>1. UNCHANGED issued /\ t.caller \in Callers /\ call \in [Callers -> CallState]
  BY DEF ThreadRaises, TypeInv, ThreadState
<1>2. CASE t.awaited
  <2>1. /\ call' = [call EXCEPT ![t.caller] =
                      [call[t.caller] EXCEPT !.pc = "raised", !.waiting = {}]]
        /\ stats' = [stats EXCEPT !.errors = @ + 1]
    BY <1>1, <1>2 DEF ThreadRaises
  <2>2. call'[t.caller].pc = "raised" /\ \A b \in Callers \ {t.caller} : call'[b] = call[b]
    BY <1>1, <2>1 DEF CallState
  <2>3. t.caller \in Running /\ Running' = Running \ {t.caller}
    BY <1>1, <1>2, <2>2 DEF CallInv, Running
  <2> DEFINE n == Cardinality(Running)
  <2>4. /\ IsFiniteSet(Running') /\ Cardinality(Running') = n - 1 /\ n \in Nat
    BY <2>3, FS_RemoveElement, FS_CardinalityType DEF CountInv
  <2>5. stats' \in StatsState /\ Succeeded' = Succeeded /\ Succeeded \in Nat
    BY <2>1 DEF CountInv, StatsState, Succeeded
  <2>6. issued \in Nat /\ issued >= Succeeded + n
    BY DEF CountInv
  <2> HIDE DEF n
  <2>7. issued' > Succeeded' + Cardinality(Running')
    BY <1>1, <2>4, <2>5, <2>6
  <2>8. issued' \in Nat /\ Succeeded' \in Nat /\ Cardinality(Running') \in Nat
    BY <1>1, <2>4, <2>5, <2>6, FS_CardinalityType
  <2>9. QED
    BY <2>4, <2>5, <2>7, <2>8 DEF CountInv, NoneFailed
<1>3. CASE ~t.awaited
  <2>1. UNCHANGED <<call, stats>>
    BY <1>3 DEF ThreadRaises
  <2>2. UNCHANGED <<Running, Succeeded>>
    BY <2>1 DEF Running, Succeeded
  <2>3. ~NoneFailed
    BY <1>3 DEF CountInv
  <2>4. QED
    BY <1>1, <2>1, <2>2, <2>3 DEF CountInv, NoneFailed
<1>4. QED
  BY <1>2, <1>3

LEMMA CancelCounted ==
    ASSUME TypeInv, CountInv, NEW c \in Callers, CallCancelled(c)
    PROVE  CountInv' /\ ~NoneFailed'
<1>1. call' = [call EXCEPT ![c] = [call[c] EXCEPT !.pc = "cancelled", !.waiting = {}]]
      /\ call \in [Callers -> CallState]
  BY DEF CallCancelled, TypeInv
<1>2. call'[c].pc = "cancelled" /\ \A b \in Callers \ {c} : call'[b] = call[b]
  BY <1>1 DEF CallState
<1>3. c \in Running /\ Running' = Running \ {c}
  BY <1>2 DEF CallCancelled, Running
<1>4. QED
  BY <1>3, FailureCounted DEF CallCancelled

LEMMA RejectCounted ==
    ASSUME TypeInv, CountInv, NEW c \in Callers, NEW op, NEW d, Rejected(c, op, d)
    PROVE  CountInv' /\ ~NoneFailed'
<1>1. call'[c] = [NoCall EXCEPT !.op = op, !.doc = d, !.pc = "raised"]
      /\ \A b \in Callers \ {c} : call'[b] = call[b]
  BY DEF Rejected, TypeInv
<1>2. Running' = Running
  BY <1>1 DEF Rejected, Running, NoCall
<1>3. UNCHANGED <<stats, threads, Succeeded>> /\ issued' = issued + 1
  BY DEF Rejected, Succeeded
<1>4. Succeeded \in Nat /\ Cardinality(Running) \in Nat /\ issued \in Nat
  BY FS_CardinalityType DEF CountInv, StatsState, Succeeded
<1>5. issued' > Succeeded' + Cardinality(Running')
  BY <1>2, <1>3, <1>4 DEF CountInv
<1>6. QED
  BY <1>2, <1>3, <1>4, <1>5 DEF CountInv, NoneFailed

LEMMA BeginCounted ==
    ASSUME TypeInv, CountInv, NEW c \in Callers, NEW op \in Operations, NEW d \in Docs,
           NEW skip \in Skips(c, op, d), Begin(c, op, d, skip)
    PROVE  CountInv' /\ (NoneFailed' => NoneFailed) /\ Running \subseteq Running'
<1>1. call'[c].pc = "running" /\ call[c].pc # "running"
      /\ \A b \in Callers \ {c} : call'[b] = call[b]
  BY BeginTyped DEF Begin, TypeInv
<1>2. c \notin Running /\ Running' = Running \cup {c}
  BY <1>1 DEF Running
<1> DEFINE n == Cardinality(Running)
<1>3. /\ IsFiniteSet(Running') /\ Cardinality(Running') = n + 1 /\ n \in Nat
  BY <1>2, FS_AddElement, FS_CardinalityType DEF CountInv
<1>4. UNCHANGED <<stats, Succeeded>> /\ issued' = issued + 1
  BY DEF Begin, Succeeded
<1>5. Succeeded \in Nat /\ issued \in Nat /\ issued >= Succeeded + n
  BY DEF CountInv, StatsState, Succeeded
<1>6. NoneFailed <=> issued = Succeeded + n
  BY DEF NoneFailed
<1>7. \A t \in threads' : t \in threads \/ t.awaited
  BY DEF Begin
<1> HIDE DEF n
<1>8. issued' >= Succeeded' + Cardinality(Running') /\ issued' \in Nat
  BY <1>3, <1>4, <1>5
<1>9. issued' = Succeeded' + Cardinality(Running') => issued = Succeeded + n
  BY <1>3, <1>4, <1>5
<1>10. QED
  BY <1>2, <1>3, <1>4, <1>6, <1>7, <1>8, <1>9 DEF CountInv, NoneFailed

\* A call that succeeds is counted once.
LEMMA CountedOnce ==
    ASSUME stats \in StatsState, NEW c \in Callers, call[c] \in CallState, NEW result \in Nat
    PROVE  LET S == Counted(stats, c, result)
           IN  S \in StatsState /\ S.lookups + S.stores + S.retrieves = Succeeded + 1
<1> DEFINE S == Counted(stats, c, result)
<1>1. DocLen \in Nat /\ call[c].skip \in Nat
  BY StackAssumption DEF CallState
<1>2. CASE call[c].op = "lookup"
  <2> DEFINE i == stats.lookups + 1
             j == stats.lookup_chunks + DocLen
             k == stats.hit_chunks + result
  <2>1. S = [stats EXCEPT !.lookups = i, !.lookup_chunks = j, !.hit_chunks = k]
    BY <1>2 DEF Counted
  <2>2. i \in Nat /\ j \in Nat /\ k \in Nat
    BY <1>1 DEF StatsState
  <2> HIDE DEF S, i, j, k
  <2>3. S \in StatsState /\ S.lookups = i
        /\ S.stores = stats.stores /\ S.retrieves = stats.retrieves
    BY <2>1, <2>2 DEF StatsState
  <2>4. QED
    BY <2>3 DEF StatsState, Succeeded, S, i
<1>3. CASE call[c].op = "store"
  <2> DEFINE i == stats.stores + 1
             j == stats.stored_chunks + DocLen - call[c].skip
  <2>1. S = [stats EXCEPT !.stores = i, !.stored_chunks = j]
    BY <1>3 DEF Counted
  <2>2. i \in Nat /\ j \in Int
    BY <1>1 DEF StatsState
  <2> HIDE DEF S, i, j
  <2>3. S \in StatsState /\ S.stores = i
        /\ S.lookups = stats.lookups /\ S.retrieves = stats.retrieves
    BY <2>1, <2>2 DEF StatsState
  <2>4. QED
    BY <2>3 DEF StatsState, Succeeded, S, i
<1>4. CASE call[c].op \notin {"lookup", "store"}
  <2> DEFINE i == stats.retrieves + 1
             j == stats.retrieved_chunks + result
  <2>1. S = [stats EXCEPT !.retrieves = i, !.retrieved_chunks = j]
    BY <1>4 DEF Counted
  <2>2. i \in Nat /\ j \in Nat
    BY DEF StatsState
  <2> HIDE DEF S, i, j
  <2>3. S \in StatsState /\ S.retrieves = i
        /\ S.lookups = stats.lookups /\ S.stores = stats.stores
    BY <2>1, <2>2 DEF StatsState
  <2>4. QED
    BY <2>3 DEF StatsState, Succeeded, S, i
<1>5. QED
  BY <1>2, <1>3, <1>4

LEMMA ReturnCounted ==
    ASSUME TypeInv, CallInv, CountInv, NEW t \in threads, ThreadReturns(t)
    PROVE  CountInv' /\ (NoneFailed' => NoneFailed /\ t.awaited)
<1>1. UNCHANGED issued /\ threads' = threads \ {t} /\ t.caller \in Callers
      /\ call \in [Callers -> CallState] /\ threads \subseteq ThreadState
  BY DEF ThreadReturns, TypeInv, ThreadState
<1> DEFINE c == t.caller
           n == Cardinality(Running)
<1>2. /\ stats \in StatsState /\ Succeeded \in Nat /\ issued \in Nat /\ n \in Nat
      /\ IsFiniteSet(Running) /\ issued >= Succeeded + n
      /\ NoneFailed <=> issued = Succeeded + n
  BY FS_CardinalityType DEF CountInv, StatsState, Succeeded, NoneFailed
<1>3. CASE ~t.awaited
  <2>1. UNCHANGED <<call, stats>>
    BY <1>3 DEF ThreadReturns
  <2>2. UNCHANGED <<Running, Succeeded>>
    BY <2>1 DEF Running, Succeeded
  <2>3. ~NoneFailed
    BY <1>3 DEF CountInv
  <2>4. QED
    BY <1>1, <2>1, <2>2, <2>3 DEF CountInv, NoneFailed
<1>4. CASE t.awaited
  <2> DEFINE W == call[c].waiting \ {t.slot}
             found == IF t.op = "store" THEN 0 ELSE Prefix(t.engine, t.doc)
             R == IF t.slot = 1 THEN found ELSE call[c].result
  <2>1. /\ call'[c].pc = IF W = {} THEN "ok" ELSE "running"
        /\ \A b \in Callers \ {c} : call'[b] = call[b]
        /\ stats' = IF W = {} THEN Counted(stats, c, R) ELSE stats
    <3>1. stats' = IF W = {} THEN Counted(stats, c, R) ELSE stats
      BY <1>4 DEF ThreadReturns
    <3>2. QED
      BY <1>4, <3>1, ReturnCall
  <2>2. c \in Running
    BY <1>1, <1>4 DEF CallInv, Running
  <2>3. R \in Nat /\ call[c] \in CallState
    <3>1. Prefix(t.engine, t.doc) \in 0..DocLen
      BY LeadingIsLongest DEF Prefix
    <3>2. QED
      BY <1>1, <3>1, StackAssumption DEF CallState
  <2> HIDE DEF R, W, found
  <2>4. CASE W # {}
    <3>1. UNCHANGED <<stats, Succeeded>> /\ Running' = Running
      BY <2>1, <2>2, <2>4, <1>1 DEF Running, Succeeded
    <3>2. QED
      BY <1>1, <1>2, <1>4, <3>1 DEF CountInv, NoneFailed
  <2>5. CASE W = {}
    <3>1. stats' \in StatsState /\ Succeeded' = Succeeded + 1
      <4>1. stats' = Counted(stats, c, R)
        BY <2>1, <2>5
      <4>2. /\ Counted(stats, c, R) \in StatsState
            /\ Counted(stats, c, R).lookups + Counted(stats, c, R).stores
                 + Counted(stats, c, R).retrieves = Succeeded + 1
        BY <1>1, <1>2, <2>3, CountedOnce
      <4>3. QED
        BY <4>1, <4>2 DEF Succeeded
    <3>2. Running' = Running \ {c}
      BY <1>1, <2>1, <2>5 DEF Running
    <3>3. IsFiniteSet(Running') /\ Cardinality(Running') = n - 1
      BY <1>2, <2>2, <3>2, FS_RemoveElement
    <3> HIDE DEF n, c
    <3>4. /\ issued' >= Succeeded' + Cardinality(Running')
          /\ issued' = Succeeded' + Cardinality(Running') => issued = Succeeded + n
      BY <1>1, <1>2, <3>1, <3>3
    <3>5. QED
      BY <1>1, <1>2, <1>4, <3>1, <3>3, <3>4 DEF CountInv, NoneFailed
  <2>6. QED
    BY <2>4, <2>5
<1>5. QED
  BY <1>3, <1>4

\* Nothing is stored before the stack is up.
LEMMA EmptyStep ==
    ASSUME TypeInv, BuiltInv, CallInv, Next, NotYet => \A e \in EngineIds : held[e] = {}
    PROVE  NotYet' => \A e \in EngineIds' : held'[e] = {}
<1>1. SUFFICES ASSUME NotYet' PROVE \A e \in EngineIds' : held'[e] = {}
  OBVIOUS
<1>2. UNCHANGED deployment => EngineIds' = EngineIds
  BY DEF EngineIds, tp
<1>3. CASE Owner \/ OwnerThread
  <2>1. NotYet /\ EngineIds' = EngineIds
    BY <1>1, <1>2, <1>3, NotYetBefore, OwnerKeepsCalls
  <2>2. CASE CloseDestroys
    BY <2>1, <2>2 DEF CloseDestroys
  <2>3. CASE ~CloseDestroys
    <3>1. held' = held
      BY <1>3, <2>3 DEF Owner, OwnerThread, StartBegins, CloseBegins, StartConfigures, StartRank,
         StartRaises, CloseForgets, CloseEnds
    <3>2. QED
      BY <2>1, <3>1
  <2>4. QED
    BY <2>2, <2>3
<1>4. CASE UNCHANGED lifeVars
  <2>1. NotYet /\ threads = {} /\ EngineIds' = EngineIds
    BY <1>1, <1>2, <1>4 DEF lifeVars, NotYet, First, CallInv
  <2>2. CASE UNCHANGED held
    BY <2>1, <2>2
  <2>3. ~ThreadEnds /\ \A e \in EngineIds : ~EngineEvicts(e)
    BY <2>1 DEF ThreadEnds, EngineEvicts
  <2>4. QED
    BY <1>3, <2>2, <2>3 DEF Next, Caller, Rejected, Begin, CallCancelled
<1>5. QED
  BY <1>3, <1>4 DEF Next, Caller, Rejected, Begin, CallCancelled, ThreadEnds, ThreadReturns,
     ThreadRaises, EngineEvicts

\* Chunk x is on the engine of rank s, or is being stored there.
Comes(x, s) ==
    \/ x \in held[engines[s]]
    \/ \E c \in Running : /\ call[c].op = "store"
                          /\ s \in call[c].waiting
                          /\ x \in Chunks(call[c].doc, call[c].skip)

\* A store that returns on one rank leaves the chunks on their way to the others.
LEMMA ReturnAgrees ==
    ASSUME TypeInv, BuiltInv, CallInv, ThreadInv, ResultInv', Steady', AgreeInv, NoneFailed,
           NEW t \in threads, ThreadReturns(t), t.awaited,
           NEW r \in 1..tp, NEW s \in 1..tp, NEW x \in held'[engines[r]]
    PROVE  Comes(x, s)'
<1> DEFINE c == t.caller
<1>1. /\ UNCHANGED lifeVars /\ tp' = tp /\ Up /\ Steady
      /\ engines' = engines /\ held \in [EngineIds -> SUBSET (Docs \X Nat)]
  BY DEF ThreadReturns, TypeInv, lifeVars, tp, Steady, Up, First
<1>2. /\ engines[r] \in EngineIds /\ engines[s] \in EngineIds /\ t.engine \in EngineIds
      /\ t.slot \in 1..tp
  BY <1>1, UpEngines DEF ThreadInv
<1>3. t.op = "store" => held' = [held EXCEPT ![t.engine] = held[t.engine] \cup Chunks(t.doc, t.skip)]
  BY DEF ThreadReturns
<1>4. t.op # "store" => held' = held
  BY DEF ThreadReturns
<1>5. /\ c \in Callers
      /\ call'[c].op = call[c].op /\ call'[c].doc = call[c].doc
      /\ call'[c].skip = call[c].skip
      /\ call'[c].waiting = call[c].waiting \ {t.slot}
      /\ call'[c].pc = IF call'[c].waiting = {} THEN "ok" ELSE "running"
      /\ \A b \in Callers \ {c} : call'[b] = call[b]
  BY ReturnCall
<1>6. call[c].op = t.op /\ call[c].doc = t.doc /\ call[c].skip = t.skip /\ call[c].pc = "running"
  BY DEF CallInv
<1>7. ASSUME t.op = "store", x \in Chunks(t.doc, t.skip)
      PROVE  Comes(x, s)'
  <2>1. CASE s \in call'[c].waiting
    <3>1. c \in Running'
      BY <1>5, <2>1 DEF Running
    <3>2. QED
      BY <1>5, <1>6, <1>7, <2>1, <3>1 DEF Comes
  <2>2. CASE s \notin call'[c].waiting
    <3>1. Chunks(t.doc, t.skip) \subseteq held'[engines'[s]]
      BY <1>1, <1>5, <1>6, <1>7, <2>2 DEF ResultInv
    <3>2. QED
      BY <1>7, <3>1 DEF Comes
  <2>3. QED
    BY <2>1, <2>2
<1>8. ASSUME x \in held[engines[r]]
      PROVE  Comes(x, s)'
  <2>1. Comes(x, s)
    BY <1>1, <1>8 DEF AgreeInv, Comes
  <2>2. CASE x \in held[engines[s]]
    <3>1. x \in held'[engines'[s]]
      BY <1>1, <1>2, <1>3, <1>4, <2>2
    <3>2. QED
      BY <3>1 DEF Comes
  <2>3. ASSUME NEW b \in Running, call[b].op = "store", s \in call[b].waiting,
               x \in Chunks(call[b].doc, call[b].skip)
        PROVE  Comes(x, s)'
    <3>1. CASE b = c
      BY <1>6, <1>7, <2>3, <3>1
    <3>2. CASE b # c
      <4>1. call'[b] = call[b] /\ b \in Running'
        BY <1>5, <3>2 DEF Running
      <4>2. QED
        BY <2>3, <4>1 DEF Comes
    <3>3. QED
      BY <3>1, <3>2
  <2>4. QED
    BY <2>1, <2>2, <2>3 DEF Comes
<1>9. x \in held[engines[r]] \/ (t.op = "store" /\ x \in Chunks(t.doc, t.skip))
  BY <1>1, <1>2, <1>3, <1>4
<1>10. QED
  BY <1>7, <1>8, <1>9

LEMMA AgreeStep ==
    ASSUME IInv, CountInv, AgreeInv, Next
    PROVE  CountInv' /\ AgreeInv'
<1> USE DEF IInv
<1>1. SUFFICES CountInv' /\ (Steady' /\ NoneFailed' =>
          \A r, s \in (1..tp)' : \A x \in held'[engines'[r]] : Comes(x, s)')
  BY EmptyStep DEF AgreeInv, Comes
<1>2. CASE Owner \/ OwnerThread
  <2>1. UNCHANGED <<deployment, callVars>> /\ UNCHANGED <<Running, Succeeded>>
    BY <1>2, OwnerKeepsCalls DEF callVars, Running, Succeeded
  <2>2. CountInv' /\ tp' = tp /\ EngineIds' = EngineIds
    BY <2>1 DEF CountInv, NoneFailed, callVars, tp, EngineIds
  <2>3. ASSUME Steady', NEW r \in 1..tp PROVE held'[engines'[r]] = {}
    <3>1. Up' /\ NotYet /\ TypeInv' /\ BuiltInv'
      BY <1>2, <2>3, ComesUp, StepTyped, BuiltStep DEF Steady, Up, First
    <3>2. engines'[r] \in EngineIds /\ \A e \in EngineIds : held[e] = {}
      <4>1. owner'.starts = 1 /\ owner'.pc = "up"
        BY <3>1 DEF Up, First
      <4>2. \A i \in 1..tp : engines'[i] \in 1..tp
        BY <2>2, <4>1, <3>1 DEF BuiltInv, First
      <4>3. 1..tp \subseteq EngineIds
        <5>1. tp \in Nat \ {0} /\ deployment.starts \in Nat /\ owner'.starts <= deployment.starts
          BY <2>1, <3>1, DeploymentType DEF TypeInv
        <5>2. deployment.starts >= 1
          BY <4>1, <5>1
        <5>3. deployment.starts * tp >= tp /\ deployment.starts * tp \in Nat
          BY <5>1, <5>2, SMTT(30)
        <5>4. QED
          BY <5>1, <5>3 DEF EngineIds
      <4>4. QED
        BY <3>1, <4>2, <4>3 DEF AgreeInv
    <3>3. CASE CloseDestroys
      BY <3>2, <3>3 DEF CloseDestroys
    <3>4. CASE ~CloseDestroys
      <4>1. held' = held
        BY <1>2, <3>4 DEF Owner, OwnerThread, StartBegins, CloseBegins, StartConfigures, StartRank,
           StartRaises, CloseForgets, CloseEnds
      <4>2. QED
        BY <3>2, <4>1
    <3>5. QED
      BY <3>3, <3>4
  <2>4. QED
    BY <2>2, <2>3
<1>3. ASSUME UNCHANGED <<lifeVars, held>>, NoneFailed' => NoneFailed, Steady', NoneFailed',
             NEW r \in 1..tp', NEW s \in 1..tp', NEW x \in held'[engines'[r]],
             \A c \in Running : c \in Running' /\ call'[c] = call[c]
      PROVE  Comes(x, s)'
  <2>1. Steady /\ tp' = tp /\ engines' = engines /\ held' = held
    BY <1>3 DEF lifeVars, Steady, tp
  <2>2. Comes(x, s)
    BY <1>3, <2>1 DEF AgreeInv, Comes
  <2>3. QED
    BY <1>3, <2>1, <2>2 DEF Comes
<1>4. ASSUME NEW c \in Callers, NEW op \in Operations, NEW d \in Docs,
             NEW skip \in Skips(c, op, d), Begin(c, op, d, skip)
      PROVE  CountInv' /\ (Steady' /\ NoneFailed' =>
                 \A r, s \in (1..tp)' : \A x \in held'[engines'[r]] : Comes(x, s)')
  <2>1. CountInv' /\ (NoneFailed' => NoneFailed) /\ Running \subseteq Running'
    BY <1>4, BeginCounted
  <2>2. UNCHANGED <<lifeVars, held>> /\ \A b \in Running : call'[b] = call[b]
    BY <1>4 DEF Begin, TypeInv, Running
  <2>3. QED
    BY <1>3, <2>1, <2>2
<1>5. ASSUME NEW c \in Callers, Caller(c)
      PROVE  CountInv' /\ (Steady' /\ NoneFailed' =>
                 \A r, s \in (1..tp)' : \A x \in held'[engines'[r]] : Comes(x, s)')
  <2>1. PICK op \in Operations, d \in Docs :
            Rejected(c, op, d) \/ \E skip \in Skips(c, op, d) : Begin(c, op, d, skip)
    BY <1>5 DEF Caller, Operations
  <2>2. CASE Rejected(c, op, d)
    BY <2>2, RejectCounted
  <2>3. QED
    BY <1>4, <2>1, <2>2
<1>6. ASSUME NEW c \in Callers, CallCancelled(c)
      PROVE  CountInv' /\ ~NoneFailed'
  BY <1>6, CancelCounted
<1>7. ASSUME NEW t \in threads, ThreadRaises(t)
      PROVE  CountInv' /\ ~NoneFailed'
  BY <1>7, RaiseCounted
<1>8. ASSUME NEW t \in threads, ThreadReturns(t)
      PROVE  CountInv' /\ (Steady' /\ NoneFailed' =>
                 \A r, s \in (1..tp)' : \A x \in held'[engines'[r]] : Comes(x, s)')
  <2>1. CountInv' /\ (NoneFailed' => NoneFailed /\ t.awaited)
    BY <1>8, ReturnCounted
  <2>2. tp' = tp /\ engines' = engines /\ ResultInv'
    BY <1>8, ResultStep DEF ThreadReturns, lifeVars, tp
  <2>3. QED
    BY <1>8, <2>1, <2>2, ReturnAgrees
<1>9. ASSUME NEW e \in EngineIds, EngineEvicts(e)
      PROVE  CountInv' /\ ~Steady'
  <2>1. UNCHANGED <<call, threads, stats, issued, deployment>> /\ deployment.evicts
    BY <1>9 DEF EngineEvicts, lifeVars, callVars
  <2>2. UNCHANGED <<Running, Succeeded>>
    BY <2>1 DEF Running, Succeeded
  <2>3. QED
    BY <2>1, <2>2 DEF CountInv, NoneFailed, Steady
<1>10. QED
  BY <1>2, <1>5, <1>6, <1>7, <1>8, <1>9 DEF Next, ThreadEnds

LEMMA AgreeInvariance == Spec => [](CountInv /\ AgreeInv)
<1>1. Init => CountInv /\ AgreeInv
  <2>1. SUFFICES ASSUME Init PROVE CountInv /\ AgreeInv
    OBVIOUS
  <2>2. Running = {}
    BY <2>1 DEF Init, Running, NoCall
  <2>3. IsFiniteSet(Running) /\ Cardinality(Running) = 0
    BY <2>2, FS_EmptySet
  <2>4. CountInv
    BY <2>1, <2>3 DEF Init, CountInv, StatsState, Succeeded
  <2>5. AgreeInv
    BY <2>1 DEF Init, AgreeInv, Steady
  <2>6. QED
    BY <2>4, <2>5
<1>2. CountInv /\ AgreeInv /\ UNCHANGED vars => CountInv' /\ AgreeInv'
  <2>1. SUFFICES ASSUME CountInv, AgreeInv, UNCHANGED vars
                 PROVE  CountInv' /\ AgreeInv'
    OBVIOUS
  <2>2. /\ UNCHANGED <<deployment, owner, engines, held, call, threads, stats, issued>>
        /\ UNCHANGED <<Running, Succeeded, NotYet, Steady, tp, EngineIds>>
    BY <2>1 DEF vars, lifeVars, callVars, Running, Succeeded, NotYet, First, Steady, tp, EngineIds
  <2>3. CountInv'
    BY <2>1, <2>2 DEF CountInv, NoneFailed
  <2>4. AgreeInv'
    BY <2>1, <2>2 DEF AgreeInv, NoneFailed
  <2>5. QED
    BY <2>3, <2>4
<1>3. IInv /\ CountInv /\ AgreeInv /\ [Next]_vars => CountInv' /\ AgreeInv'
  BY <1>2, AgreeStep
<1>4. QED
  BY <1>1, <1>3, Invariance, PTL DEF Spec

\* While every call that was issued has succeeded, the ranks hold the same chunks
\* (lines 206-221): for any number of ranks, callers and prompts, however the threads
\* of the stores are interleaved, so that a lookup may ask the first rank only.
THEOREM RanksHoldTheSame == Spec => []RanksAgree
<1>1. IInv /\ CountInv /\ AgreeInv => RanksAgree
  <2>1. SUFFICES ASSUME IInv, CountInv, AgreeInv, Steady, issued = Succeeded, NEW r \in 1..tp
                 PROVE  held[engines[r]] = held[engines[1]]
    BY DEF RanksAgree, Succeeded
  <2>2. Running = {} /\ NoneFailed
    <3>1. Cardinality(Running) \in Nat /\ Succeeded \in Nat
      BY <2>1, FS_CardinalityType DEF CountInv, StatsState, Succeeded
    <3>2. Cardinality(Running) = 0
      BY <2>1, <3>1 DEF CountInv
    <3>3. QED
      BY <2>1, <3>1, <3>2, FS_EmptySet DEF CountInv, NoneFailed
  <2>3. 1 \in 1..tp
    BY <2>1, DeploymentType DEF IInv, TypeInv
  <2>4. QED
    BY <2>1, <2>2, <2>3 DEF AgreeInv
<1>2. QED
  BY <1>1, Invariance, AgreeInvariance, PTL

=============================================================================
