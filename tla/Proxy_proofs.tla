---------------------------- MODULE Proxy_proofs ----------------------------
(***************************************************************************)
(* Proofs about Proxy.tla, for any finite set of requests and any numbers  *)
(* of endpoints: the connections counted at an endpoint are the requests   *)
(* that are there, round robin spreads the requests evenly, every request  *)
(* and phase is counted once, and every stream is one ChatStream allows.   *)
(*                                                                         *)
(* Each action moves one request.  What it does to the connections and to  *)
(* the assignments is stated of that request (Moves, Assigns), and counting *)
(* lemmas carry it over to the sets of requests at an endpoint.            *)
(***************************************************************************)
EXTENDS Proxy, FiniteSetTheorems, SequenceTheorems, TLAPS

-----------------------------------------------------------------------------
(* The invariant *)

States == {"idle", "prefill", "refused", "role", "decode", "content", "end", "done", "dropped"}
          \cup Ended

Events == {"error", "role", "content", "end", "done"}

ReqState == [pc : States, stream : BOOLEAN, prefill : Nat, decode : Nat, generated : Nat,
             out : Seq(Events)]

Decoding == {"decode", "content", "dropped"}

TypeInv ==
    /\ deployment \in Deployments
    /\ index \in [Phases -> Nat]
    /\ active \in [Endpoints -> Int]
    /\ req \in [Requests -> ReqState]

\* A request is at endpoints that exist, and at none before it is sent there.
PlacedInv ==
    \A r \in Requests :
        /\ req[r].pc = "idle" => req[r].prefill = 0 /\ req[r].decode = 0
        /\ req[r].pc = "prefill" => /\ req[r].prefill \in 1..deployment.prefill
                                    /\ req[r].decode = 0
        /\ req[r].pc \in Decoding \cup {"role"} => req[r].decode \in 1..deployment.decode

\* Round robin: the endpoints that had their turn in this round are one ahead.
TurnInv ==
    deployment.strategy = "round_robin" =>
        \A p \in Phases : deployment[p] > 0 =>
            \E k \in Nat : \A i \in 1..deployment[p] :
                Cardinality(Assigned(<<p, i>>)) =
                    IF i <= index[p] % deployment[p] THEN k + 1 ELSE k

IInv == TypeInv /\ PlacedInv /\ ConnectionsCounted /\ TurnInv

\* Whether request q is connected to endpoint <<p, i>>.
At(q, p, i) ==
    IF p = "prefill" THEN q.pc = "prefill" /\ q.prefill = i
                     ELSE q.pc \in Decoding /\ q.decode = i

Place(q, p) == IF p = "prefill" THEN q.prefill ELSE q.decode

-----------------------------------------------------------------------------
(* Counting *)

LEMMA Small ==
    ASSUME NEW n \in Nat \ {0}, NEW d \in Int, n * d < n, -n < n * d
    PROVE  d = 0
<1>1. ~(d >= 1)
  OBVIOUS
<1>2. ~(d <= -1)
  OBVIOUS
<1>3. QED
  BY <1>1, <1>2

\* The place in the round after the next turn.
LEMMA NextTurn ==
    ASSUME NEW n \in Nat \ {0}, NEW x \in Nat
    PROVE  /\ x % n \in 0..(n - 1)
           /\ (x + 1) % n = IF (x % n) + 1 = n THEN 0 ELSE (x % n) + 1
<1> DEFINE a == x \div n
           b == (x + 1) \div n
           r == x % n
           s == (x + 1) % n
<1>1. r \in 0..(n - 1) /\ x = n * a + r /\ a \in Int
  OBVIOUS
<1>2. s \in 0..(n - 1) /\ x + 1 = n * b + s /\ b \in Int
  OBVIOUS
<1>3. a \in Int /\ b \in Int /\ r \in 0..(n - 1) /\ s \in 0..(n - 1) /\ n * a + r + 1 = n * b + s
  BY <1>1, <1>2
<1> HIDE DEF a, b, r, s
<1>4. CASE r + 1 = n
  <2>1. n * (a + 1 - b) = s
    BY <1>3, <1>4
  <2>2. a + 1 - b = 0
    BY <1>3, <2>1, Small
  <2>3. QED
    BY <1>3, <1>4, <2>1, <2>2 DEF r, s
<1>5. CASE r + 1 # n
  <2>1. n * (a - b) = s - (r + 1)
    BY <1>3
  <2>2. n * (a - b) < n /\ -n < n * (a - b)
    BY <1>3, <1>5, <2>1
  <2>3. a - b = 0
    BY <1>3, <2>2, Small
  <2>4. s = r + 1
    BY <1>3, <2>1, <2>3
  <2>5. QED
    BY <1>3, <1>5, <2>4 DEF r, s
<1>6. QED
  BY <1>4, <1>5

\* Two sets of requests that differ at most in r.
LEMMA OneMoves ==
    ASSUME NEW A \in SUBSET Requests, NEW B \in SUBSET Requests, NEW r, A \ {r} = B \ {r}
    PROVE  /\ Cardinality(A) \in Nat /\ Cardinality(B) \in Nat
           /\ (r \in A <=> r \in B) => Cardinality(B) = Cardinality(A)
           /\ r \notin A /\ r \in B => Cardinality(B) = Cardinality(A) + 1
           /\ r \in A /\ r \notin B => Cardinality(B) = Cardinality(A) - 1
<1>1. IsFiniteSet(A) /\ IsFiniteSet(B)
  BY FS_Subset, ProxyAssumption
<1>2. Cardinality(A) \in Nat /\ Cardinality(B) \in Nat
  BY <1>1, FS_CardinalityType
<1>3. (r \in A <=> r \in B) => A = B
  OBVIOUS
<1>4. ASSUME r \notin A, r \in B
      PROVE  Cardinality(B) = Cardinality(A) + 1
  <2>1. B = A \cup {r}
    BY <1>4
  <2>2. QED
    BY <1>1, <1>4, <2>1, FS_AddElement
<1>5. ASSUME r \in A, r \notin B
      PROVE  Cardinality(B) = Cardinality(A) - 1
  <2>1. B = A \ {r}
    BY <1>5
  <2>2. QED
    BY <1>1, <1>5, <2>1, FS_RemoveElement
<1>6. QED
  BY <1>2, <1>3, <1>4, <1>5

\* The sets of requests at an endpoint, by request.
LEMMA PhaseFields ==
    ASSUME NEW q \in ReqState, NEW p \in Phases, NEW i
    PROVE  /\ q[p] = Place(q, p)
           /\ (q.pc \in (IF p = "prefill" THEN {"prefill"} ELSE {"decode", "content", "dropped"})
               /\ q[p] = i) <=> At(q, p, i)
<1>1. CASE p = "prefill"
  BY <1>1 DEF ReqState, Place, At
<1>2. CASE p = "decode"
  BY <1>2 DEF ReqState, Place, At, Decoding
<1>3. QED
  BY <1>1, <1>2 DEF Phases

LEMMA WhoIsThere ==
    ASSUME TypeInv, NEW p \in Phases, NEW i
    PROVE  /\ Connected(<<p, i>>) = {r \in Requests : At(req[r], p, i)}
           /\ Assigned(<<p, i>>) = {r \in Requests : Place(req[r], p) = i}
<1>1. \A r \in Requests : req[r] \in ReqState
  BY DEF TypeInv
<1>2. <<p, i>>[1] = p /\ <<p, i>>[2] = i
  OBVIOUS
<1>3. \A r \in Requests :
          /\ (/\ req[r].pc \in (IF p = "prefill" THEN {"prefill"}
                                ELSE {"decode", "content", "dropped"})
              /\ req[r][p] = i) <=> At(req[r], p, i)
          /\ req[r][p] = Place(req[r], p)
  BY <1>1, PhaseFields
<1>4. Connected(<<p, i>>) = {r \in Requests : At(req[r], p, i)}
  BY <1>2, <1>3 DEF Connected
<1>5. Assigned(<<p, i>>) = {r \in Requests : Place(req[r], p) = i}
  BY <1>2, <1>3 DEF Assigned
<1>6. QED
  BY <1>4, <1>5

LEMMA EndpointsAre ==
    \A e : e \in Endpoints <=> \E p \in Phases : \E i \in 1..deployment[p] : e = <<p, i>>
  BY DEF Endpoints

LEMMA DeploymentType ==
    ASSUME deployment \in Deployments
    PROVE  /\ \A p \in Phases : deployment[p] \in Nat
           /\ deployment["prefill"] = deployment.prefill
           /\ deployment["decode"] = deployment.decode
  BY ProxyAssumption DEF Phases

-----------------------------------------------------------------------------
(* One request moves *)

\* The connections opened and closed are those of request r, which becomes q.
Moves(r, q) ==
    \A p \in Phases : \A i \in 1..deployment[p] :
        active'[<<p, i>>] = active[<<p, i>>] + (IF At(q, p, i) THEN 1 ELSE 0)
                                             - (IF At(req[r], p, i) THEN 1 ELSE 0)

LEMMA Recount ==
    ASSUME TypeInv, TypeInv', ConnectionsCounted, UNCHANGED deployment,
           NEW r \in Requests, NEW q \in ReqState, req' = [req EXCEPT ![r] = q], Moves(r, q)
    PROVE  ConnectionsCounted'
<1>1. SUFFICES ASSUME NEW p \in Phases, NEW i \in 1..deployment[p]
               PROVE  active'[<<p, i>>] = Cardinality(Connected(<<p, i>>)')
  <2>1. Endpoints' = Endpoints
    BY DEF Endpoints
  <2>2. QED
    BY <1>1, <2>1, EndpointsAre DEF ConnectionsCounted
<1> DEFINE A == {x \in Requests : At(req[x], p, i)}
           B == {x \in Requests : At(req'[x], p, i)}
<1>2. Connected(<<p, i>>) = A
  BY WhoIsThere
<1>3. Connected(<<p, i>>)' = B
  <2>1. \A x \in Requests : req'[x] \in ReqState
    BY DEF TypeInv
  <2>2. <<p, i>>[1] = p /\ <<p, i>>[2] = i
    OBVIOUS
  <2>3. \A x \in Requests :
            (/\ req'[x].pc \in (IF p = "prefill" THEN {"prefill"}
                                ELSE {"decode", "content", "dropped"})
             /\ req'[x][p] = i) <=> At(req'[x], p, i)
    BY <2>1, PhaseFields
  <2>4. QED
    BY <2>2, <2>3 DEF Connected
<1>4. req'[r] = q /\ \A x \in Requests \ {r} : req'[x] = req[x]
  BY DEF TypeInv
<1>5. A \ {r} = B \ {r} /\ (r \in A <=> At(req[r], p, i)) /\ (r \in B <=> At(q, p, i))
  BY <1>4
<1>6. active[<<p, i>>] = Cardinality(A)
  BY <1>2, EndpointsAre DEF ConnectionsCounted
<1>7. active'[<<p, i>>] = active[<<p, i>>] + (IF At(q, p, i) THEN 1 ELSE 0)
                                           - (IF At(req[r], p, i) THEN 1 ELSE 0)
  BY DEF Moves
<1> HIDE DEF A, B
<1>8. A \in SUBSET Requests /\ B \in SUBSET Requests
  BY DEF A, B
<1>9. active'[<<p, i>>] = Cardinality(B)
  <2>1. Cardinality(A) \in Nat
    BY <1>5, <1>8, OneMoves
  <2>2. CASE At(q, p, i) /\ At(req[r], p, i)
    BY <1>5, <1>6, <1>7, <1>8, <2>1, <2>2, OneMoves
  <2>3. CASE ~At(q, p, i) /\ ~At(req[r], p, i)
    BY <1>5, <1>6, <1>7, <1>8, <2>1, <2>3, OneMoves
  <2>4. CASE At(q, p, i) /\ ~At(req[r], p, i)
    BY <1>5, <1>6, <1>7, <1>8, <2>1, <2>4, OneMoves
  <2>5. CASE ~At(q, p, i) /\ At(req[r], p, i)
    BY <1>5, <1>6, <1>7, <1>8, <2>1, <2>5, OneMoves
  <2>6. QED
    BY <2>2, <2>3, <2>4, <2>5
<1>10. QED
  BY <1>3, <1>9

\* Request r, which becomes q, is assigned nowhere else than before.
Stays(r, q) == \A p \in Phases : Place(q, p) = Place(req[r], p)

\* It is assigned to an endpoint of phase p, whose turn it is.
Assigns(r, q, p) ==
    /\ Place(req[r], p) = 0
    /\ Place(q, p) \in Selectable(p)
    /\ \A o \in Phases \ {p} : Place(q, o) = Place(req[r], o)

LEMMA AssignedAfter ==
    ASSUME TypeInv, TypeInv', NEW r \in Requests, NEW q \in ReqState,
           req' = [req EXCEPT ![r] = q], NEW p \in Phases, NEW i
    PROVE  /\ Assigned(<<p, i>>) \in SUBSET Requests /\ Assigned(<<p, i>>)' \in SUBSET Requests
           /\ Assigned(<<p, i>>) \ {r} = Assigned(<<p, i>>)' \ {r}
           /\ r \in Assigned(<<p, i>>) <=> Place(req[r], p) = i
           /\ r \in Assigned(<<p, i>>)' <=> Place(q, p) = i
<1>1. Assigned(<<p, i>>) = {x \in Requests : Place(req[x], p) = i}
  BY WhoIsThere
<1>2. Assigned(<<p, i>>)' = {x \in Requests : Place(req'[x], p) = i}
  <2>1. \A x \in Requests : req'[x][p] = Place(req'[x], p)
    BY PhaseFields DEF TypeInv
  <2>2. <<p, i>>[1] = p /\ <<p, i>>[2] = i
    OBVIOUS
  <2>3. QED
    BY <2>1, <2>2 DEF Assigned
<1>3. req'[r] = q /\ \A x \in Requests \ {r} : req'[x] = req[x]
  BY DEF TypeInv
<1>4. QED
  BY <1>1, <1>2, <1>3

\* The number of requests at an endpoint follows.
LEMMA AssignedCount ==
    ASSUME TypeInv, TypeInv', NEW r \in Requests, NEW q \in ReqState,
           req' = [req EXCEPT ![r] = q], NEW p \in Phases, NEW i
    PROVE  /\ (Place(req[r], p) = i <=> Place(q, p) = i) =>
                  Cardinality(Assigned(<<p, i>>)') = Cardinality(Assigned(<<p, i>>))
           /\ Place(req[r], p) # i /\ Place(q, p) = i =>
                  Cardinality(Assigned(<<p, i>>)') = Cardinality(Assigned(<<p, i>>)) + 1
<1> DEFINE A == Assigned(<<p, i>>)
           B == Assigned(<<p, i>>)'
<1>1. /\ A \in SUBSET Requests /\ B \in SUBSET Requests
      /\ A \ {r} = B \ {r}
      /\ r \in A <=> Place(req[r], p) = i
      /\ r \in B <=> Place(q, p) = i
  BY AssignedAfter
<1> HIDE DEF A, B
<1>2. /\ (r \in A <=> r \in B) => Cardinality(B) = Cardinality(A)
      /\ r \notin A /\ r \in B => Cardinality(B) = Cardinality(A) + 1
  BY <1>1, OneMoves
<1>3. QED
  BY <1>1, <1>2 DEF A, B

LEMMA TurnKept ==
    ASSUME TypeInv, TypeInv', TurnInv, UNCHANGED <<deployment, index>>,
           NEW r \in Requests, NEW q \in ReqState, req' = [req EXCEPT ![r] = q], Stays(r, q)
    PROVE  TurnInv'
<1>1. ASSUME NEW p \in Phases, NEW i
      PROVE  Cardinality(Assigned(<<p, i>>)') = Cardinality(Assigned(<<p, i>>))
  <2>1. Place(req[r], p) = i <=> Place(q, p) = i
    BY DEF Stays
  <2>2. QED
    BY <2>1, AssignedCount
<1>2. SUFFICES ASSUME deployment.strategy = "round_robin", NEW p \in Phases, deployment[p] > 0
               PROVE  \E k \in Nat : \A i \in 1..deployment[p] :
                          Cardinality(Assigned(<<p, i>>)') =
                              IF i <= index[p] % deployment[p] THEN k + 1 ELSE k
  BY DEF TurnInv
<1>3. PICK k \in Nat : \A i \in 1..deployment[p] :
          Cardinality(Assigned(<<p, i>>)) =
              IF i <= index[p] % deployment[p] THEN k + 1 ELSE k
  BY <1>2 DEF TurnInv
<1>4. \A i : Cardinality(Assigned(<<p, i>>)') = Cardinality(Assigned(<<p, i>>))
  BY <1>1
<1>5. QED
  BY <1>3, <1>4

LEMMA TurnTaken ==
    ASSUME TypeInv, TypeInv', TurnInv, UNCHANGED deployment, NEW p \in Phases, Turn(p),
           NEW r \in Requests, NEW q \in ReqState, req' = [req EXCEPT ![r] = q], Assigns(r, q, p)
    PROVE  TurnInv'
<1>1. SUFFICES ASSUME deployment.strategy = "round_robin", NEW o \in Phases, deployment[o] > 0
               PROVE  \E k \in Nat : \A i \in 1..deployment[o] :
                          Cardinality(Assigned(<<o, i>>)') =
                              IF i <= index'[o] % deployment[o] THEN k + 1 ELSE k
  BY DEF TurnInv
<1> DEFINE n == deployment[o]
           x == index[o]
<1>2. n \in Nat \ {0} /\ x \in Nat
  BY <1>1, DeploymentType DEF TypeInv
<1>3. PICK k \in Nat : \A i \in 1..n :
          Cardinality(Assigned(<<o, i>>)) = IF i <= x % n THEN k + 1 ELSE k
  BY <1>1 DEF TurnInv
<1>4. CASE o # p
  <2>1. index'[o] = x
    BY <1>1, <1>4 DEF Turn, TypeInv
  <2>2. ASSUME NEW i
        PROVE  Cardinality(Assigned(<<o, i>>)') = Cardinality(Assigned(<<o, i>>))
    <3>1. Place(req[r], o) = i <=> Place(q, o) = i
      BY <1>4 DEF Assigns
    <3>2. QED
      BY <3>1, AssignedCount
  <2>3. QED
    BY <1>3, <2>1, <2>2
<1>5. CASE o = p
  <2>1. index'[o] = x + 1
    BY <1>1, <1>5 DEF Turn, TypeInv
  <2>2. Place(q, o) = (x % n) + 1 /\ Place(req[r], o) = 0
    BY <1>1, <1>5 DEF Assigns, Selectable
  <2> HIDE DEF n, x
  <2>3. /\ x % n \in 0..(n - 1)
        /\ (x + 1) % n = IF (x % n) + 1 = n THEN 0 ELSE (x % n) + 1
    BY <1>2, NextTurn
  <2>4. ASSUME NEW i \in 1..n
        PROVE  Cardinality(Assigned(<<o, i>>)') =
                   IF i = (x % n) + 1 THEN k + 1 ELSE Cardinality(Assigned(<<o, i>>))
    <3>1. CASE i = (x % n) + 1
      <4>1. ~(i <= x % n)
        BY <2>3, <3>1
      <4>2. Cardinality(Assigned(<<o, i>>)) = k
        BY <1>3, <2>4, <4>1
      <4>3. Place(req[r], o) # i /\ Place(q, o) = i
        BY <1>2, <2>2, <2>4, <3>1
      <4>4. Cardinality(Assigned(<<o, i>>)') = k + 1
        BY <4>2, <4>3, AssignedCount
      <4>5. QED
        BY <3>1, <4>4
    <3>2. CASE i # (x % n) + 1
      <4>1. Place(req[r], o) # i /\ Place(q, o) # i
        BY <1>2, <2>2, <2>4, <3>2
      <4>2. Cardinality(Assigned(<<o, i>>)') = Cardinality(Assigned(<<o, i>>))
        BY <4>1, AssignedCount
      <4>3. QED
        BY <3>2, <4>2
    <3>3. QED
      BY <3>1, <3>2
  <2>5. CASE (x % n) + 1 = n
    <3>1. (x + 1) % n = 0
      BY <2>3, <2>5
    <3>2. \A i \in 1..n : Cardinality(Assigned(<<o, i>>)') = k + 1
      BY <1>2, <1>3, <2>3, <2>4, <2>5
    <3>3. \A i \in 1..n : ~(i <= 0)
      BY <1>2
    <3>4. k + 1 \in Nat
      OBVIOUS
    <3>5. QED
      BY <2>1, <3>1, <3>2, <3>3, <3>4 DEF n
  <2>6. CASE (x % n) + 1 # n
    <3>1. (x + 1) % n = (x % n) + 1
      BY <2>3, <2>6
    <3>2. \A i \in 1..n :
              Cardinality(Assigned(<<o, i>>)') = IF i <= (x % n) + 1 THEN k + 1 ELSE k
      BY <1>2, <1>3, <2>3, <2>4
    <3>3. QED
      BY <2>1, <3>1, <3>2 DEF n
  <2>7. QED
    BY <2>5, <2>6
<1>6. QED
  BY <1>4, <1>5

\* Where a request may be.
Placed(q) ==
    /\ q.pc = "idle" => q.prefill = 0 /\ q.decode = 0
    /\ q.pc = "prefill" => q.prefill \in 1..deployment.prefill /\ q.decode = 0
    /\ q.pc \in Decoding \cup {"role"} => q.decode \in 1..deployment.decode

\* What every action has to show of the request that it moves.
LEMMA Moved ==
    ASSUME IInv, UNCHANGED deployment, NEW r \in Requests, NEW q \in ReqState,
           req' = [req EXCEPT ![r] = q], active' \in [Endpoints -> Int], Placed(q), Moves(r, q),
           index' \in [Phases -> Nat],
           \/ Stays(r, q) /\ UNCHANGED index
           \/ \E p \in Phases : Turn(p) /\ Assigns(r, q, p)
    PROVE  IInv'
<1>1. TypeInv'
  <2>1. Endpoints' = Endpoints
    BY DEF Endpoints
  <2>2. QED
    BY <2>1 DEF IInv, TypeInv
<1>2. PlacedInv'
  <2>1. req'[r] = q /\ \A x \in Requests \ {r} : req'[x] = req[x]
    BY DEF IInv, TypeInv
  <2>2. QED
    BY <2>1 DEF IInv, PlacedInv, Placed
<1>3. ConnectionsCounted'
  BY <1>1, Recount DEF IInv
<1>4. TurnInv'
  BY <1>1, TurnKept, TurnTaken DEF IInv
<1>5. QED
  BY <1>1, <1>2, <1>3, <1>4 DEF IInv

\* An action that leaves connections and assignments alone.
LEMMA MovedInPlace ==
    ASSUME IInv, NEW r \in Requests, NEW q \in ReqState, req' = [req EXCEPT ![r] = q],
           UNCHANGED <<deployment, index, active>>, Placed(q),
           q.prefill = req[r].prefill, q.decode = req[r].decode,
           q.pc = "prefill" <=> req[r].pc = "prefill",
           q.pc \in Decoding <=> req[r].pc \in Decoding
    PROVE  IInv'
<1>1. ASSUME NEW p \in Phases, NEW i \in 1..deployment[p]
      PROVE  active[<<p, i>>] = active[<<p, i>>] + (IF At(q, p, i) THEN 1 ELSE 0)
                                                 - (IF At(req[r], p, i) THEN 1 ELSE 0)
  <2>1. At(q, p, i) <=> At(req[r], p, i)
    BY DEF At
  <2>2. active[<<p, i>>] \in Int
    BY EndpointsAre DEF IInv, TypeInv
  <2>3. QED
    BY <2>1, <2>2
<1>2. Moves(r, q)
  BY <1>1 DEF Moves
<1>3. Stays(r, q)
  BY DEF Stays, Place
<1>4. QED
  BY <1>2, <1>3, Moved DEF IInv, TypeInv

\* A connection opened or closed.
LEMMA OpenedClosed ==
    ASSUME IInv, NEW conns \in [Endpoints -> Int], NEW p \in Phases, NEW i \in 1..deployment[p]
    PROVE  /\ Opened(conns, p, i) \in [Endpoints -> Int]
           /\ Closed(conns, p, i) \in [Endpoints -> Int]
           /\ \A o \in Phases : \A j \in 1..deployment[o] :
                  /\ Opened(conns, p, i)[<<o, j>>] =
                         IF o = p /\ j = i THEN conns[<<o, j>>] + 1 ELSE conns[<<o, j>>]
                  /\ Closed(conns, p, i)[<<o, j>>] =
                         IF o = p /\ j = i THEN conns[<<o, j>>] - 1 ELSE conns[<<o, j>>]
<1>1. <<p, i>> \in Endpoints
  BY EndpointsAre
<1>2. \A o \in Phases : \A j \in 1..deployment[o] : <<o, j>> \in Endpoints
  BY EndpointsAre
<1>3. \A o, j : <<o, j>> = <<p, i>> <=> o = p /\ j = i
  OBVIOUS
<1>4. QED
  BY <1>1, <1>2, <1>3 DEF Opened, Closed

LEMMA TurnType ==
    ASSUME IInv, NEW p \in Phases, Turn(p)
    PROVE  index' \in [Phases -> Nat]
<1>1. index \in [Phases -> Nat] /\ index[p] + 1 \in Nat
  BY DEF IInv, TypeInv
<1>2. QED
  BY <1>1 DEF Turn

LEMMA Selected ==
    ASSUME NEW p \in Phases, NEW i \in Selectable(p)
    PROVE  i \in 1..deployment[p]
  BY DEF Selectable

LEMMA YieldType ==
    ASSUME NEW q \in ReqState, NEW event \in Events
    PROVE  /\ Yield(q, event) \in ReqState
           /\ Yield(q, event).pc = q.pc /\ Yield(q, event).stream = q.stream
           /\ Yield(q, event).prefill = q.prefill /\ Yield(q, event).decode = q.decode
           /\ Yield(q, event).generated = q.generated
<1>1. Append(q.out, event) \in Seq(Events)
  BY DEF ReqState
<1>2. QED
  BY <1>1 DEF Yield, ReqState

\* A request with another pc.
LEMMA PcType ==
    ASSUME NEW q \in ReqState, NEW pc \in States
    PROVE  /\ [q EXCEPT !.pc = pc] \in ReqState
           /\ [q EXCEPT !.pc = pc].pc = pc
           /\ [q EXCEPT !.pc = pc].prefill = q.prefill
           /\ [q EXCEPT !.pc = pc].decode = q.decode
  BY DEF ReqState

-----------------------------------------------------------------------------
(* The actions *)

LEMMA InitEstablishes == Init => IInv
<1>1. SUFFICES ASSUME Init PROVE IInv
  OBVIOUS
<1>2. TypeInv
  <2>1. <<>> \in Seq(Events)
    OBVIOUS
  <2>2. [pc |-> "idle", stream |-> FALSE, prefill |-> 0, decode |-> 0, generated |-> 0,
         out |-> <<>>] \in ReqState
    BY <2>1 DEF ReqState, States
  <2>3. QED
    BY <1>1, <2>2 DEF Init, TypeInv
<1>3. PlacedInv
  BY <1>1 DEF Init, PlacedInv, Decoding
<1>4. ASSUME NEW p \in Phases, NEW i \in 1..deployment[p]
      PROVE  Connected(<<p, i>>) = {} /\ Assigned(<<p, i>>) = {} /\ <<p, i>> \in Endpoints
  <2>1. i # 0
    BY <1>1, DeploymentType DEF Init
  <2>2. \A r \in Requests : ~At(req[r], p, i) /\ Place(req[r], p) # i
    BY <1>1, <2>1 DEF Init, At, Place, Decoding
  <2>3. QED
    BY <1>2, <2>2, WhoIsThere, EndpointsAre
<1>5. ConnectionsCounted
  <2>1. SUFFICES ASSUME NEW e \in Endpoints PROVE active[e] = Cardinality(Connected(e))
    BY DEF ConnectionsCounted
  <2>2. PICK p \in Phases : \E i \in 1..deployment[p] : e = <<p, i>>
    BY EndpointsAre
  <2>3. Connected(e) = {}
    BY <1>4, <2>2
  <2>4. active[e] = 0
    BY <1>1 DEF Init
  <2>5. QED
    BY <2>3, <2>4, FS_EmptySet
<1>6. TurnInv
  <2>1. SUFFICES ASSUME NEW p \in Phases, deployment[p] > 0
                 PROVE  \A i \in 1..deployment[p] :
                            Cardinality(Assigned(<<p, i>>)) =
                                IF i <= index[p] % deployment[p] THEN 0 + 1 ELSE 0
    BY DEF TurnInv
  <2>2. deployment[p] \in Nat \ {0} /\ index[p] = 0
    BY <1>1, <2>1, DeploymentType DEF Init
  <2>3. 0 % deployment[p] = 0
    BY <2>2
  <2>4. \A i \in 1..deployment[p] : ~(i <= 0)
    BY <2>2
  <2>5. \A i \in 1..deployment[p] : Cardinality(Assigned(<<p, i>>)) = 0
    BY <1>4, FS_EmptySet
  <2>6. QED
    BY <2>2, <2>3, <2>4, <2>5
<1>7. QED
  BY <1>2, <1>3, <1>5, <1>6 DEF IInv

LEMMA ArriveStep ==
    ASSUME IInv, NEW r \in Requests, NEW stream \in BOOLEAN, Arrive(r, stream)
    PROVE  IInv'
<1> DEFINE q == [req[r] EXCEPT !.stream = stream]
<1>1. /\ q \in ReqState /\ q.pc = "idle" /\ q.stream = stream /\ q.prefill = 0 /\ q.decode = 0
      /\ req[r].pc = "idle" /\ req[r].prefill = 0 /\ req[r].decode = 0
  BY DEF Arrive, IInv, TypeInv, PlacedInv, ReqState
<1>2. CASE req' = [req EXCEPT ![r] = Refused(q)] /\ UNCHANGED <<deployment, index, active>>
  <2>1. /\ Refused(q) \in ReqState /\ Refused(q).pc \in {"refused", "failed"}
        /\ Refused(q).prefill = 0 /\ Refused(q).decode = 0
    <3>1. Yield(q, "error") \in ReqState /\ Yield(q, "error").prefill = 0
          /\ Yield(q, "error").decode = 0
      BY <1>1, YieldType DEF Events
    <3> HIDE DEF q
    <3>2. QED
      BY <1>1, <3>1, PcType DEF Refused, States, Ended
  <2>2. Placed(Refused(q))
    BY <2>1 DEF Placed, Decoding
  <2> HIDE DEF q
  <2>3. QED
    BY <1>1, <1>2, <2>1, <2>2, MovedInPlace DEF Decoding
<1>3. ASSUME NEW i \in Selectable("prefill"), Turn("prefill"),
             active' = Opened(active, "prefill", i), UNCHANGED deployment,
             req' = [req EXCEPT ![r] = [q EXCEPT !.pc = "prefill", !.prefill = i]]
      PROVE  IInv'
  <2> DEFINE z == [q EXCEPT !.pc = "prefill", !.prefill = i]
  <2>1. i \in 1..deployment["prefill"] /\ deployment["prefill"] \in Nat
        /\ deployment["prefill"] = deployment.prefill
    BY Selected, DeploymentType DEF Phases, IInv, TypeInv
  <2>2. z \in ReqState /\ z.pc = "prefill" /\ z.prefill = i /\ z.decode = 0
    <3>1. i \in Nat
      BY <2>1
    <3> HIDE DEF q
    <3>2. QED
      BY <1>1, <3>1 DEF ReqState, States
  <2> HIDE DEF z, q
  <2>3. Placed(z)
    BY <2>1, <2>2 DEF Placed, Decoding
  <2>4. Moves(r, z) /\ active' \in [Endpoints -> Int]
    <3>1. ASSUME NEW p \in Phases, NEW j \in 1..deployment[p]
          PROVE  active'[<<p, j>>] = active[<<p, j>>] + (IF At(z, p, j) THEN 1 ELSE 0)
                                                      - (IF At(req[r], p, j) THEN 1 ELSE 0)
      <4>1. active'[<<p, j>>] =
                IF p = "prefill" /\ j = i THEN active[<<p, j>>] + 1 ELSE active[<<p, j>>]
        BY <1>3, <2>1, OpenedClosed DEF Phases, IInv, TypeInv
      <4>2. (At(z, p, j) <=> p = "prefill" /\ j = i) /\ ~At(req[r], p, j)
        BY <1>1, <2>2 DEF At, Decoding
      <4>3. active[<<p, j>>] \in Int
        BY EndpointsAre DEF IInv, TypeInv
      <4>4. QED
        BY <4>1, <4>2, <4>3
    <3>2. QED
      BY <1>3, <2>1, <3>1, OpenedClosed DEF Moves, Phases, IInv, TypeInv
  <2>5. Assigns(r, z, "prefill")
    BY <1>1, <1>3, <2>2 DEF Assigns, Place
  <2>6. index' \in [Phases -> Nat]
    BY <1>3, TurnType DEF Phases
  <2>7. "prefill" \in Phases
    BY DEF Phases
  <2>8. QED
    BY <1>3, <2>2, <2>3, <2>4, <2>5, <2>6, <2>7, Moved DEF z
<1>4. QED
  BY <1>2, <1>3 DEF Arrive

\* What is common to requests at a step: r, at place i of phase p, becomes q,
\* which is nowhere; its connection is closed.
LEMMA LeaveStep ==
    ASSUME IInv, NEW r \in Requests, NEW q \in ReqState, req' = [req EXCEPT ![r] = q],
           NEW p \in Phases, NEW i \in 1..deployment[p],
           active' = Closed(active, p, i), UNCHANGED <<deployment, index>>,
           At(req[r], p, i),
           q.pc \in {"role", "end", "ok", "gone", "refused", "failed"}, Placed(q),
           q.prefill = req[r].prefill, q.decode = req[r].decode
    PROVE  IInv'
<1>1. \A o \in Phases : \A j : (At(req[r], o, j) <=> o = p /\ j = i) /\ ~At(q, o, j)
  BY DEF At, Decoding, Phases
<1>2. active \in [Endpoints -> Int]
  BY DEF IInv, TypeInv
<1>3. active' \in [Endpoints -> Int]
  BY <1>2, OpenedClosed
<1>4. Moves(r, q)
  <2>1. ASSUME NEW o \in Phases, NEW j \in 1..deployment[o]
        PROVE  active'[<<o, j>>] = active[<<o, j>>] + (IF At(q, o, j) THEN 1 ELSE 0)
                                                    - (IF At(req[r], o, j) THEN 1 ELSE 0)
    <3>1. active'[<<o, j>>] =
              IF o = p /\ j = i THEN active[<<o, j>>] - 1 ELSE active[<<o, j>>]
      BY <1>2, OpenedClosed
    <3>2. active[<<o, j>>] \in Int
      BY <1>2, EndpointsAre
    <3>3. QED
      BY <1>1, <3>1, <3>2
  <2>2. QED
    BY <2>1 DEF Moves
<1>5. Stays(r, q)
  BY DEF Stays, Place
<1>6. QED
  BY <1>3, <1>4, <1>5, Moved DEF IInv, TypeInv

\* What is known of a request.
LEMMA RequestFacts ==
    ASSUME IInv, NEW r \in Requests
    PROVE  /\ req[r] \in ReqState /\ Placed(req[r])
           /\ req[r].pc \in States /\ req[r].prefill \in Nat /\ req[r].decode \in Nat
           /\ deployment["prefill"] = deployment.prefill
           /\ deployment["decode"] = deployment.decode
           /\ deployment["prefill"] \in Nat /\ deployment["decode"] \in Nat
<1>1. req[r] \in ReqState
  BY DEF IInv, TypeInv
<1>2. Placed(req[r])
  BY DEF IInv, PlacedInv, Placed
<1>3. /\ deployment["prefill"] = deployment.prefill
      /\ deployment["decode"] = deployment.decode
      /\ deployment["prefill"] \in Nat /\ deployment["decode"] \in Nat
  BY DeploymentType DEF IInv, TypeInv, Phases
<1>4. QED
  BY <1>1, <1>2, <1>3 DEF ReqState

LEMMA RefusedType ==
    ASSUME NEW q \in ReqState
    PROVE  /\ Refused(q) \in ReqState /\ Refused(q).pc \in {"refused", "failed"}
           /\ Refused(q).prefill = q.prefill /\ Refused(q).decode = q.decode
<1>1. Yield(q, "error") \in ReqState /\ Yield(q, "error").prefill = q.prefill
      /\ Yield(q, "error").decode = q.decode
  BY YieldType DEF Events
<1>2. QED
  BY <1>1, PcType DEF Refused, States, Ended

LEMMA PrefillStep ==
    ASSUME IInv, NEW r \in Requests, PrefillEnds(r)
    PROVE  IInv'
<1> DEFINE q == req[r]
           freed == Closed(active, "prefill", q.prefill)
<1>1. /\ q \in ReqState /\ q.pc = "prefill" /\ q.prefill \in 1..deployment["prefill"]
      /\ q.decode = 0 /\ "prefill" \in Phases /\ "decode" \in Phases
  BY RequestFacts DEF PrefillEnds, Placed, Phases
<1>2. CASE /\ req' = [req EXCEPT ![r] = Refused(q)] /\ active' = freed
           /\ UNCHANGED <<deployment, index>>
  <2>1. /\ Refused(q) \in ReqState /\ Refused(q).pc \in {"refused", "failed"}
        /\ Refused(q).prefill = q.prefill /\ Refused(q).decode = q.decode
    BY <1>1, RefusedType
  <2>2. Placed(Refused(q))
    BY <2>1 DEF Placed, Decoding
  <2>3. At(q, "prefill", q.prefill)
    BY <1>1 DEF At
  <2>4. QED
    BY <1>1, <1>2, <2>1, <2>2, <2>3, LeaveStep
<1>3. ASSUME NEW i \in Selectable("decode"), Turn("decode"), UNCHANGED deployment,
             active' = IF q.stream THEN freed ELSE Opened(freed, "decode", i),
             req' = [req EXCEPT ![r] =
                        [Yield(q, "role") EXCEPT !.pc = IF q.stream THEN "role" ELSE "decode",
                                                 !.decode = i]]
      PROVE  IInv'
  <2> DEFINE pc == IF q.stream THEN "role" ELSE "decode"
             z == [Yield(q, "role") EXCEPT !.pc = pc, !.decode = i]
  <2>1. i \in 1..deployment["decode"] /\ i \in Nat
    BY Selected, RequestFacts DEF Phases
  <2>2. pc \in States /\ (q.stream => pc = "role") /\ (~q.stream => pc = "decode")
        /\ pc \in {"role", "decode"}
    BY DEF States
  <2>3. z \in ReqState /\ z.pc = pc /\ z.prefill = q.prefill /\ z.decode = i
    <3>1. Yield(q, "role") \in ReqState /\ Yield(q, "role").prefill = q.prefill
      BY <1>1, YieldType DEF Events
    <3> HIDE DEF pc
    <3>2. QED
      BY <2>1, <2>2, <3>1 DEF ReqState
  <2>4. req' = [req EXCEPT ![r] = z]
    BY <1>3
  <2> HIDE DEF z, pc
  <2>5. Placed(z)
    BY <2>1, <2>2, <2>3, RequestFacts DEF Placed, Decoding
  <2>6. active \in [Endpoints -> Int]
    BY DEF IInv, TypeInv
  <2>7. freed \in [Endpoints -> Int]
    BY <1>1, <2>6, OpenedClosed
  <2>8. active' \in [Endpoints -> Int]
    BY <1>1, <1>3, <2>1, <2>7, OpenedClosed
  <2>9. Moves(r, z)
    <3>1. ASSUME NEW p \in Phases, NEW j \in 1..deployment[p]
          PROVE  active'[<<p, j>>] = active[<<p, j>>] + (IF At(z, p, j) THEN 1 ELSE 0)
                                                      - (IF At(req[r], p, j) THEN 1 ELSE 0)
      <4>1. freed[<<p, j>>] = IF p = "prefill" /\ j = q.prefill THEN active[<<p, j>>] - 1
                                                                ELSE active[<<p, j>>]
        BY <1>1, <2>6, OpenedClosed
      <4> HIDE DEF freed
      <4>2. active'[<<p, j>>] = IF ~q.stream /\ p = "decode" /\ j = i THEN freed[<<p, j>>] + 1
                                                                      ELSE freed[<<p, j>>]
        BY <1>1, <1>3, <2>1, <2>7, OpenedClosed
      <4>3. At(z, p, j) <=> ~q.stream /\ p = "decode" /\ j = i
        BY <2>2, <2>3 DEF At, Decoding, Phases
      <4>4. At(req[r], p, j) <=> p = "prefill" /\ j = q.prefill
        BY <1>1 DEF At, Decoding
      <4>5. active[<<p, j>>] \in Int
        BY <2>6, EndpointsAre
      <4>6. QED
        BY <4>1, <4>2, <4>3, <4>4, <4>5
    <3>2. QED
      BY <3>1 DEF Moves
  <2>10. Assigns(r, z, "decode")
    BY <1>1, <1>3, <2>3 DEF Assigns, Place, Phases
  <2>11. index' \in [Phases -> Nat]
    BY <1>3, TurnType DEF Phases
  <2>12. QED
    BY <1>1, <1>3, <2>3, <2>4, <2>5, <2>8, <2>9, <2>10, <2>11, Moved
<1>4. QED
  BY <1>2, <1>3 DEF PrefillEnds

LEMMA OpenStep ==
    ASSUME IInv, NEW r \in Requests, StreamOpens(r)
    PROVE  IInv'
<1> DEFINE z == [req[r] EXCEPT !.pc = "decode"]
<1>1. /\ req[r] \in ReqState /\ req[r].pc = "role" /\ "decode" \in Phases
      /\ req[r].decode \in 1..deployment["decode"]
  BY RequestFacts DEF StreamOpens, Placed, Phases
<1>2. z \in ReqState /\ z.pc = "decode" /\ z.prefill = req[r].prefill /\ z.decode = req[r].decode
  BY <1>1, PcType DEF States
<1>3. req' = [req EXCEPT ![r] = z] /\ active' = Opened(active, "decode", req[r].decode)
      /\ UNCHANGED <<deployment, index>>
  BY <1>1 DEF StreamOpens, IInv, TypeInv
<1> HIDE DEF z
<1>4. Placed(z)
  BY <1>1, <1>2, RequestFacts DEF Placed, Decoding
<1>5. active \in [Endpoints -> Int]
  BY DEF IInv, TypeInv
<1>6. active' \in [Endpoints -> Int]
  BY <1>1, <1>3, <1>5, OpenedClosed
<1>7. Moves(r, z)
  <2>1. ASSUME NEW p \in Phases, NEW j \in 1..deployment[p]
        PROVE  active'[<<p, j>>] = active[<<p, j>>] + (IF At(z, p, j) THEN 1 ELSE 0)
                                                    - (IF At(req[r], p, j) THEN 1 ELSE 0)
    <3>1. active'[<<p, j>>] = IF p = "decode" /\ j = req[r].decode THEN active[<<p, j>>] + 1
                                                                   ELSE active[<<p, j>>]
      BY <1>1, <1>3, <1>5, OpenedClosed
    <3>2. (At(z, p, j) <=> p = "decode" /\ j = req[r].decode) /\ ~At(req[r], p, j)
      BY <1>1, <1>2 DEF At, Decoding, Phases
    <3>3. active[<<p, j>>] \in Int
      BY <1>5, EndpointsAre
    <3>4. QED
      BY <3>1, <3>2, <3>3
  <2>2. QED
    BY <2>1 DEF Moves
<1>8. Stays(r, z)
  BY <1>2 DEF Stays, Place
<1>9. QED
  BY <1>2, <1>3, <1>4, <1>6, <1>7, <1>8, Moved DEF IInv, TypeInv

\* A connection of a request that decodes is closed.
LEMMA DecodeStep ==
    ASSUME IInv, NEW r \in Requests, NEW z \in ReqState, req' = [req EXCEPT ![r] = z],
           req[r].pc \in Decoding, z.pc \in {"end", "ok", "gone"},
           z.prefill = req[r].prefill, z.decode = req[r].decode,
           active' = Closed(active, "decode", req[r].decode), UNCHANGED <<deployment, index>>
    PROVE  IInv'
<1>1. req[r].decode \in 1..deployment["decode"] /\ "decode" \in Phases
  BY RequestFacts DEF Placed, Phases
<1>2. At(req[r], "decode", req[r].decode)
  BY DEF At
<1>3. Placed(z)
  BY DEF Placed, Decoding
<1>4. QED
  BY <1>1, <1>2, <1>3, LeaveStep

\* Steps that leave the connections alone.
LEMMA QuietStep ==
    ASSUME IInv, NEW r \in Requests,
           RefusalCounted(r) \/ Token(r) \/ NextToken(r) \/ SendDone(r) \/ StreamSucceeds(r)
    PROVE  IInv'
<1>1. req[r] \in ReqState /\ Placed(req[r]) /\ req \in [Requests -> ReqState]
  BY RequestFacts DEF IInv, TypeInv
<1>2. ASSUME NEW z \in ReqState, req' = [req EXCEPT ![r] = z],
             UNCHANGED <<deployment, index, active>>,
             z.prefill = req[r].prefill, z.decode = req[r].decode,
             \/ z.pc \in {"failed", "done", "ok"} /\ req[r].pc \in {"refused", "end", "done"}
             \/ z.pc \in Decoding /\ req[r].pc \in Decoding
      PROVE  IInv'
  <2>1. Placed(z)
    BY <1>1, <1>2 DEF Placed, Decoding
  <2>2. (z.pc = "prefill" <=> req[r].pc = "prefill") /\ (z.pc \in Decoding <=> req[r].pc \in Decoding)
    BY <1>2 DEF Decoding
  <2>3. QED
    BY <1>2, <2>1, <2>2, MovedInPlace
<1>3. CASE RefusalCounted(r)
  <2>1. req' = [req EXCEPT ![r] = [req[r] EXCEPT !.pc = "failed"]]
    BY <1>1, <1>3 DEF RefusalCounted
  <2>2. QED
    BY <1>1, <1>2, <1>3, <2>1, PcType DEF RefusalCounted, States, Ended
<1>4. CASE NextToken(r)
  <2>1. req' = [req EXCEPT ![r] = [req[r] EXCEPT !.pc = "decode"]]
    BY <1>1, <1>4 DEF NextToken
  <2>2. QED
    BY <1>1, <1>2, <1>4, <2>1, PcType DEF NextToken, States, Decoding
<1>5. CASE StreamSucceeds(r)
  <2>1. req' = [req EXCEPT ![r] = [req[r] EXCEPT !.pc = "ok"]]
    BY <1>1, <1>5 DEF StreamSucceeds
  <2>2. QED
    BY <1>1, <1>2, <1>5, <2>1, PcType DEF StreamSucceeds, States, Ended
<1>6. CASE SendDone(r)
  <2> DEFINE y == Yield(req[r], "done")
  <2>1. y \in ReqState /\ y.prefill = req[r].prefill /\ y.decode = req[r].decode
    BY <1>1, YieldType DEF Events
  <2>2. req' = [req EXCEPT ![r] = [y EXCEPT !.pc = "done"]]
    BY <1>1, <1>6 DEF SendDone
  <2> HIDE DEF y
  <2>3. QED
    BY <1>2, <1>6, <2>1, <2>2, PcType DEF SendDone, States
<1>7. CASE Token(r)
  <2> DEFINE y == Yield(req[r], "content")
             pc == IF req[r].stream THEN "content" ELSE "decode"
  <2>1. y \in ReqState /\ y.prefill = req[r].prefill /\ y.decode = req[r].decode
        /\ req[r].generated + 1 \in Nat
    BY <1>1, YieldType DEF Events, ReqState
  <2>2. req' = [req EXCEPT ![r] = [y EXCEPT !.generated = req[r].generated + 1, !.pc = pc]]
    BY <1>7, Zenon DEF Token
  <2>3. pc \in Decoding /\ pc \in States
    BY DEF Decoding, States
  <2> HIDE DEF y, pc
  <2>4. /\ [y EXCEPT !.generated = req[r].generated + 1, !.pc = pc] \in ReqState
        /\ [y EXCEPT !.generated = req[r].generated + 1, !.pc = pc].pc = pc
        /\ [y EXCEPT !.generated = req[r].generated + 1, !.pc = pc].prefill = y.prefill
        /\ [y EXCEPT !.generated = req[r].generated + 1, !.pc = pc].decode = y.decode
    BY <2>1, <2>3 DEF ReqState
  <2>5. req[r].pc \in Decoding /\ UNCHANGED <<deployment, index, active>>
    BY <1>7 DEF Token, Decoding
  <2>6. QED
    BY <1>2, <2>1, <2>2, <2>3, <2>4, <2>5
<1>8. QED
  BY <1>3, <1>4, <1>5, <1>6, <1>7

LEMMA EndStep ==
    ASSUME IInv, NEW r \in Requests, DecodeEnds(r) \/ Finalize(r)
    PROVE  IInv'
<1>1. req[r] \in ReqState /\ req \in [Requests -> ReqState]
  BY RequestFacts DEF IInv, TypeInv
<1>2. CASE DecodeEnds(r)
  <2> DEFINE y == Yield(req[r], "end")
             pc == IF req[r].stream THEN "end" ELSE "ok"
  <2>1. y \in ReqState /\ y.prefill = req[r].prefill /\ y.decode = req[r].decode
    BY <1>1, YieldType DEF Events
  <2>2. req' = [req EXCEPT ![r] = [y EXCEPT !.pc = pc]]
    BY <1>2 DEF DecodeEnds
  <2>3. pc \in {"end", "ok"} /\ pc \in States
    BY DEF States, Ended
  <2>4. req[r].pc \in Decoding /\ UNCHANGED <<deployment, index>>
        /\ active' = Closed(active, "decode", req[r].decode)
    BY <1>2 DEF DecodeEnds, Decoding
  <2> HIDE DEF y, pc
  <2>5. QED
    BY <2>1, <2>2, <2>3, <2>4, PcType, DecodeStep
<1>3. CASE Finalize(r)
  <2>1. req' = [req EXCEPT ![r] = [req[r] EXCEPT !.pc = "gone"]]
    BY <1>1, <1>3 DEF Finalize
  <2>2. req[r].pc \in Decoding /\ UNCHANGED <<deployment, index>>
        /\ active' = Closed(active, "decode", req[r].decode)
    BY <1>3 DEF Finalize, Decoding
  <2>3. "gone" \in States
    BY DEF States, Ended
  <2>4. QED
    BY <1>1, <2>1, <2>2, <2>3, PcType, DecodeStep
<1>4. QED
  BY <1>2, <1>3

LEMMA DisconnectStep ==
    ASSUME IInv, NEW r \in Requests, Disconnect(r)
    PROVE  IInv'
<1> DEFINE gone == [req[r] EXCEPT !.pc = "gone"]
           dropped == [req[r] EXCEPT !.pc = "dropped"]
<1>1. req[r] \in ReqState /\ Placed(req[r]) /\ req \in [Requests -> ReqState]
  BY RequestFacts DEF IInv, TypeInv
<1>2. /\ gone \in ReqState /\ gone.pc = "gone"
      /\ gone.prefill = req[r].prefill /\ gone.decode = req[r].decode
  BY <1>1, PcType DEF States, Ended
<1>3. /\ dropped \in ReqState /\ dropped.pc = "dropped"
      /\ dropped.prefill = req[r].prefill /\ dropped.decode = req[r].decode
  BY <1>1, PcType DEF States
<1>4. UNCHANGED <<deployment, index>>
  BY DEF Disconnect
<1>5. Placed(gone)
  BY <1>2 DEF Placed, Decoding
<1>6. ASSUME req[r].pc \in Phases, active' = Closed(active, req[r].pc, req[r][req[r].pc]),
             req' = [req EXCEPT ![r].pc = "gone"]
      PROVE  IInv'
  <2>1. req' = [req EXCEPT ![r] = gone]
    BY <1>1, <1>6
  <2>2. CASE req[r].pc = "prefill"
    <3>1. req[r][req[r].pc] = req[r].prefill
      BY <1>1, <2>2 DEF ReqState
    <3>2. req[r].prefill \in 1..deployment["prefill"] /\ "prefill" \in Phases
      BY <1>1, <2>2, RequestFacts DEF Placed, Phases
    <3>3. At(req[r], "prefill", req[r].prefill)
      BY <2>2 DEF At
    <3>4. active' = Closed(active, "prefill", req[r].prefill)
      BY <1>6, <2>2, <3>1
    <3> HIDE DEF gone
    <3>5. QED
      BY <1>2, <1>4, <1>5, <2>1, <3>2, <3>3, <3>4, LeaveStep
  <2>3. CASE req[r].pc = "decode"
    <3>1. req[r][req[r].pc] = req[r].decode
      BY <1>1, <2>3 DEF ReqState
    <3>2. active' = Closed(active, "decode", req[r].decode) /\ req[r].pc \in Decoding
      BY <1>6, <2>3, <3>1 DEF Decoding
    <3> HIDE DEF gone
    <3>3. QED
      BY <1>2, <1>4, <2>1, <3>2, DecodeStep
  <2>4. QED
    BY <1>6, <2>2, <2>3 DEF Phases
<1>7. ASSUME req[r].pc \in {"refused", "role", "end", "done"}, UNCHANGED active,
             req' = [req EXCEPT ![r].pc = "gone"]
      PROVE  IInv'
  <2>1. req' = [req EXCEPT ![r] = gone]
    BY <1>1, <1>7
  <2> HIDE DEF gone
  <2>2. QED
    BY <1>2, <1>4, <1>5, <1>7, <2>1, MovedInPlace DEF Decoding
<1>8. ASSUME req[r].pc = "content", UNCHANGED active, req' = [req EXCEPT ![r].pc = "dropped"]
      PROVE  IInv'
  <2>1. req' = [req EXCEPT ![r] = dropped]
    BY <1>1, <1>8
  <2> HIDE DEF dropped
  <2>2. Placed(dropped)
    BY <1>1, <1>3, <1>8 DEF Placed, Decoding
  <2>3. QED
    BY <1>3, <1>4, <1>8, <2>1, <2>2, MovedInPlace DEF Decoding
<1>9. QED
  BY <1>6, <1>7, <1>8 DEF Disconnect

-----------------------------------------------------------------------------
(* The theorems *)

LEMMA Invariance == Spec => []IInv
<1>1. IInv /\ [Next]_vars => IInv'
  <2>1. ASSUME IInv, Next
        PROVE  IInv'
    <3>1. PICK r \in Requests :
              (\E stream \in BOOLEAN : Arrive(r, stream)) \/ Handle(r) \/ Disconnect(r)
      BY <2>1 DEF Next
    <3>2. CASE \E stream \in BOOLEAN : Arrive(r, stream)
      BY <2>1, <3>2, ArriveStep
    <3>3. CASE Handle(r)
      BY <2>1, <3>3, PrefillStep, QuietStep, OpenStep, EndStep DEF Handle
    <3>4. CASE Disconnect(r)
      BY <2>1, <3>4, DisconnectStep
    <3>5. QED
      BY <3>1, <3>2, <3>3, <3>4
  <2>2. ASSUME IInv, UNCHANGED vars
        PROVE  IInv'
    <3>1. UNCHANGED <<deployment, index, active, req>> /\ Endpoints' = Endpoints
      BY <2>2 DEF vars, Endpoints
    <3>2. (\A e : Connected(e)' = Connected(e)) /\ (\A e : Assigned(e)' = Assigned(e))
      BY <3>1 DEF Connected, Assigned
    <3>3. TypeInv' /\ PlacedInv'
      BY <2>2, <3>1 DEF IInv, TypeInv, PlacedInv
    <3>4. ConnectionsCounted'
      BY <2>2, <3>1, <3>2 DEF IInv, ConnectionsCounted
    <3>5. TurnInv'
      BY <2>2, <3>1, <3>2 DEF IInv, TurnInv
    <3>6. QED
      BY <3>3, <3>4, <3>5 DEF IInv
  <2>3. QED
    BY <2>1, <2>2
<1>2. QED
  BY <1>1, InitEstablishes, PTL DEF Spec

\* The connections counted at an endpoint are the requests that are there, whichever
\* way requests end, fail or lose their client (lines 221-311).
THEOREM ConnectionsAreExact == Spec => []ConnectionsCounted
  BY Invariance, PTL DEF IInv

\* Round robin never gives an endpoint more than one request more than another of
\* its phase (lines 155-203), although requests reach the second phase in another
\* order than the first, and some never do.
THEOREM RoundRobinIsEven == Spec => []RoundRobinBalanced
<1>1. IInv => RoundRobinBalanced
  <2>1. SUFFICES ASSUME IInv, deployment.strategy = "round_robin", NEW p \in Phases,
                        NEW i \in 1..deployment[p], NEW j \in 1..deployment[p]
                 PROVE  Cardinality(Assigned(<<p, i>>)) <= Cardinality(Assigned(<<p, j>>)) + 1
    BY DEF RoundRobinBalanced
  <2>2. deployment[p] > 0
    BY <2>1, DeploymentType DEF IInv, TypeInv
  <2>3. PICK k \in Nat : \A l \in 1..deployment[p] :
            Cardinality(Assigned(<<p, l>>)) =
                IF l <= index[p] % deployment[p] THEN k + 1 ELSE k
    BY <2>1, <2>2 DEF IInv, TurnInv
  <2>4. /\ Cardinality(Assigned(<<p, i>>)) \in {k, k + 1}
        /\ Cardinality(Assigned(<<p, j>>)) \in {k, k + 1}
    BY <2>3
  <2>5. QED
    BY <2>4
<1>2. QED
  BY <1>1, Invariance, PTL


-----------------------------------------------------------------------------
(* Every request is counted once.                                          *)

\* The number of requests in one of the states S.
In(S) == Cardinality({r \in Requests : req[r].pc \in S})

Uncounted == States \ {"idle", "ok", "failed"}

StatsType == [{"total", "success", "failed", "prefill", "decode"} -> Nat]

\* A stream that is over has been decoded, and what decodes has been prefilled.
AccountInv ==
    /\ served \in [Endpoints -> Nat]
    /\ stats \in StatsType
    /\ stats.total = stats.success + stats.failed + In(Uncounted)
    /\ \A p \in Phases : IsFiniteSet(ServedBy(p)) /\ stats[p] = Cardinality(ServedBy(p))
    /\ stats.success + In({"end", "done"}) <= stats.decode
    /\ stats.decode + In({"role", "decode", "content"}) <= stats.prefill

\* 1 for a state of S.
One(S, pc) == IF pc \in S THEN 1 ELSE 0

\* A step of request r moves it into or out of the requests in the states S.
LEMMA InMoves ==
    ASSUME NEW r \in Requests, NEW S, \A x \in Requests \ {r} : req'[x].pc = req[x].pc
    PROVE  /\ In(S) \in Nat /\ In(S)' \in Nat
           /\ In(S)' = In(S) + One(S, req'[r].pc) - One(S, req[r].pc)
<1> DEFINE A == {x \in Requests : req[x].pc \in S}
           B == {x \in Requests : req'[x].pc \in S}
<1>1. /\ A \in SUBSET Requests /\ B \in SUBSET Requests /\ A \ {r} = B \ {r}
      /\ r \in A <=> req[r].pc \in S
      /\ r \in B <=> req'[r].pc \in S
  OBVIOUS
<1>2. In(S) = Cardinality(A) /\ In(S)' = Cardinality(B)
  BY DEF In
<1> HIDE DEF A, B
<1>3. /\ Cardinality(A) \in Nat /\ Cardinality(B) \in Nat
      /\ (r \in A <=> r \in B) => Cardinality(B) = Cardinality(A)
      /\ r \notin A /\ r \in B => Cardinality(B) = Cardinality(A) + 1
      /\ r \in A /\ r \notin B => Cardinality(B) = Cardinality(A) - 1
  BY <1>1, OneMoves
<1>. QED BY <1>1, <1>2, <1>3 DEF One

\* An endpoint that has served one request more.
LEMMA ServedOneMore ==
    ASSUME served \in [Endpoints -> Nat], UNCHANGED deployment,
           NEW p \in Phases, NEW i \in 1..deployment[p],
           served' = [served EXCEPT ![<<p, i>>] = @ + 1],
           NEW o \in Phases, IsFiniteSet(ServedBy(o))
    PROVE  /\ IsFiniteSet(ServedBy(o)')
           /\ Cardinality(ServedBy(o)') = Cardinality(ServedBy(o)) + (IF o = p THEN 1 ELSE 0)
<1> DEFINE new == <<<<p, i>>, served[<<p, i>>] + 1>>
<1>1. \A j \in 1..deployment[o] : <<o, j>> \in Endpoints /\ served[<<o, j>>] \in Nat
  BY EndpointsAre
<1>2. <<p, i>> \in Endpoints /\ served[<<p, i>>] \in Nat
  BY EndpointsAre
<1>3. \A j \in 1..deployment[o] :
         served'[<<o, j>>] = IF o = p /\ j = i THEN served[<<p, i>>] + 1 ELSE served[<<o, j>>]
  BY <1>1, <1>2
<1>4. \A x : x \in ServedBy(o) <=>
          \E j \in 1..deployment[o], n \in Nat :
              x = <<<<o, j>>, n>> /\ 1 <= n /\ n <= served[<<o, j>>]
  <2>1. \A j \in 1..deployment[o] : \A n : n \in 1..served[<<o, j>>] <=>
            n \in Nat /\ 1 <= n /\ n <= served[<<o, j>>]
    BY <1>1
  <2>2. \A x : x \in ServedBy(o) <=>
            \E j \in 1..deployment[o] : x \in {<<o, j>>} \X (1..served[<<o, j>>])
    BY DEF ServedBy
  <2>3. \A x, y, S : x \in {y} \X S <=> \E n \in S : x = <<y, n>>
    OBVIOUS
  <2>4. \A x, j : x \in {<<o, j>>} \X (1..served[<<o, j>>]) <=>
            \E n \in 1..served[<<o, j>>] : x = <<<<o, j>>, n>>
    BY <2>3
  <2>. QED BY <2>1, <2>2, <2>4
<1>5. \A x : x \in ServedBy(o)' <=>
          \E j \in 1..deployment[o], n \in Nat :
              x = <<<<o, j>>, n>> /\ 1 <= n /\ n <= served'[<<o, j>>]
  <2>1. \A j \in 1..deployment[o] : \A n : n \in 1..served'[<<o, j>>] <=>
            n \in Nat /\ 1 <= n /\ n <= served'[<<o, j>>]
    BY <1>1, <1>2, <1>3
  <2>2. \A x : x \in ServedBy(o)' <=>
            \E j \in 1..deployment[o] : x \in {<<o, j>>} \X (1..served'[<<o, j>>])
    BY DEF ServedBy
  <2>3. \A x, y, S : x \in {y} \X S <=> \E n \in S : x = <<y, n>>
    OBVIOUS
  <2>4. \A x, j : x \in {<<o, j>>} \X (1..served'[<<o, j>>]) <=>
            \E n \in 1..served'[<<o, j>>] : x = <<<<o, j>>, n>>
    BY <2>3
  <2> SUFFICES ASSUME NEW x
               PROVE  x \in ServedBy(o)' <=>
                          \E j \in 1..deployment[o], n \in Nat :
                              x = <<<<o, j>>, n>> /\ 1 <= n /\ n <= served'[<<o, j>>]
    OBVIOUS
  <2>5. x \in ServedBy(o)' <=> \E j \in 1..deployment[o] : \E n \in 1..served'[<<o, j>>] : x = <<<<o, j>>, n>>
    <3>1. x \in ServedBy(o)' <=>
            \E j \in 1..deployment[o] : x \in {<<o, j>>} \X (1..served'[<<o, j>>])
      BY <2>2
    <3>2. \A j : x \in {<<o, j>>} \X (1..served'[<<o, j>>]) <=>
            \E n \in 1..served'[<<o, j>>] : x = <<<<o, j>>, n>>
      BY <2>4
    <3>. QED BY <3>1, <3>2
  <2>. QED BY <2>1, <2>5
<1>6. CASE o = p
  <2>1. ServedBy(o)' = ServedBy(o) \cup {new}
    <3>1. ASSUME NEW x \in ServedBy(o)' PROVE x \in ServedBy(o) \cup {new}
      <4>1. PICK j \in 1..deployment[o], n \in Nat :
                x = <<<<o, j>>, n>> /\ 1 <= n /\ n <= served'[<<o, j>>]
        BY <1>5, <3>1
      <4>2. n <= served[<<o, j>>] \/ (j = i /\ n = served[<<p, i>>] + 1)
        BY <1>1, <1>2, <1>3, <4>1
      <4>. QED BY <1>4, <1>6, <4>1, <4>2
    <3>2. ASSUME NEW x \in ServedBy(o) PROVE x \in ServedBy(o)'
      <4>1. PICK j \in 1..deployment[o], n \in Nat :
                x = <<<<o, j>>, n>> /\ 1 <= n /\ n <= served[<<o, j>>]
        BY <1>4, <3>2
      <4>2. n <= served'[<<o, j>>]
        BY <1>1, <1>2, <1>3, <4>1
      <4>. QED BY <1>5, <4>1, <4>2
    <3>3. new \in ServedBy(o)'
      <4>1. served[<<p, i>>] + 1 \in Nat /\ 1 <= served[<<p, i>>] + 1
            /\ served'[<<o, i>>] = served[<<p, i>>] + 1 /\ i \in 1..deployment[o]
        BY <1>2, <1>3, <1>6
      <4>2. new = <<<<o, i>>, served[<<p, i>>] + 1>>
        BY <1>6
      <4> HIDE DEF new
      <4>3. \E j \in 1..deployment[o], n \in Nat :
                new = <<<<o, j>>, n>> /\ 1 <= n /\ n <= served'[<<o, j>>]
        BY <4>1, <4>2
      <4>. QED BY <1>5, <4>3
    <3>. QED BY <3>1, <3>2, <3>3
  <2>2. new \notin ServedBy(o)
    <3>1. SUFFICES ASSUME NEW j \in 1..deployment[o], NEW n \in Nat,
                          new = <<<<o, j>>, n>>, n <= served[<<o, j>>]
                   PROVE  FALSE
      BY <1>4
    <3>2. j = i /\ n = served[<<p, i>>] + 1
      BY <3>1
    <3>. QED BY <1>2, <1>6, <3>1, <3>2
  <2> HIDE DEF new
  <2>3. IsFiniteSet(ServedBy(o) \cup {new})
        /\ Cardinality(ServedBy(o) \cup {new}) = Cardinality(ServedBy(o)) + 1
    BY <2>2, FS_AddElement
  <2>. QED BY <1>6, <2>1, <2>3
<1>7. CASE o # p
  <2>1. ServedBy(o)' = ServedBy(o)
    BY <1>3, <1>7 DEF ServedBy
  <2>2. Cardinality(ServedBy(o)) \in Nat
    BY FS_CardinalityType
  <2>. QED BY <1>7, <2>1, <2>2
<1>. QED BY <1>6, <1>7

\* Where a request without an endpoint goes on (lines 331-339, 421-430).
LEMMA RefusedPc ==
    ASSUME NEW q \in ReqState
    PROVE  Refused(q).pc = IF q.stream THEN "refused" ELSE "failed"
<1>1. Yield(q, "error") \in ReqState
  BY YieldType DEF Events
<1>. QED BY <1>1, PcType DEF Refused, States, Ended

\* What a step of request r has to count.
LEMMA Accounted ==
    ASSUME IInv, AccountInv, UNCHANGED deployment,
           NEW r \in Requests, \A x \in Requests \ {r} : req'[x].pc = req[x].pc,
           stats' \in StatsType,
           \/ UNCHANGED <<served, stats.prefill, stats.decode>>
           \/ /\ \E i \in 1..deployment["prefill"] :
                    served' = [served EXCEPT ![<<"prefill", i>>] = @ + 1]
              /\ stats'.prefill = stats.prefill + 1 /\ stats'.decode = stats.decode
           \/ /\ \E i \in 1..deployment["decode"] :
                    served' = [served EXCEPT ![<<"decode", i>>] = @ + 1]
              /\ stats'.prefill = stats.prefill /\ stats'.decode = stats.decode + 1,
           stats'.total + One(Uncounted, req[r].pc) + stats.success + stats.failed
              = stats.total + One(Uncounted, req'[r].pc) + stats'.success + stats'.failed,
           stats'.success + One({"end", "done"}, req'[r].pc) + stats.decode
              <= stats.success + One({"end", "done"}, req[r].pc) + stats'.decode,
           stats'.decode + One({"role", "decode", "content"}, req'[r].pc) + stats.prefill
              <= stats.decode + One({"role", "decode", "content"}, req[r].pc) + stats'.prefill
    PROVE  AccountInv'
<1>1. ASSUME NEW S
      PROVE  /\ In(S) \in Nat /\ In(S)' \in Nat
             /\ One(S, req[r].pc) \in Nat /\ One(S, req'[r].pc) \in Nat
             /\ In(S)' = In(S) + One(S, req'[r].pc) - One(S, req[r].pc)
  BY InMoves DEF One
<1>2. /\ stats.total \in Nat /\ stats.success \in Nat /\ stats.failed \in Nat
      /\ stats.prefill \in Nat /\ stats.decode \in Nat
  BY DEF AccountInv, StatsType
<1>3. /\ stats'.total \in Nat /\ stats'.success \in Nat /\ stats'.failed \in Nat
      /\ stats'.prefill \in Nat /\ stats'.decode \in Nat
  BY DEF StatsType
<1>4. stats'.total = stats'.success + stats'.failed + In(Uncounted)'
  <2>1. stats.total = stats.success + stats.failed + In(Uncounted)
    BY DEF AccountInv
  <2>. QED BY <1>1, <1>2, <1>3, <2>1
<1>5. stats'.success + In({"end", "done"})' <= stats'.decode
  <2>1. stats.success + In({"end", "done"}) <= stats.decode
    BY DEF AccountInv
  <2>. QED BY <1>1, <1>2, <1>3, <2>1
<1>6. stats'.decode + In({"role", "decode", "content"})' <= stats'.prefill
  <2>1. stats.decode + In({"role", "decode", "content"}) <= stats.prefill
    BY DEF AccountInv
  <2>. QED BY <1>1, <1>2, <1>3, <2>1
<1>7. Endpoints' = Endpoints /\ \A o \in Phases : \A i \in 1..deployment[o] : <<o, i>> \in Endpoints
  BY EndpointsAre DEF Endpoints
<1>8. served' \in [Endpoints -> Nat]
  <2>1. CASE UNCHANGED served
    BY <2>1 DEF AccountInv
  <2>2. ASSUME NEW o \in Phases, NEW i \in 1..deployment[o],
               served' = [served EXCEPT ![<<o, i>>] = @ + 1]
        PROVE  served' \in [Endpoints -> Nat]
    <3>1. <<o, i>> \in Endpoints /\ served[<<o, i>>] + 1 \in Nat
      BY <1>7 DEF AccountInv
    <3>. QED BY <2>2, <3>1 DEF AccountInv
  <2>. QED BY <2>1, <2>2 DEF Phases
<1>9. ASSUME NEW o \in Phases
      PROVE  IsFiniteSet(ServedBy(o)') /\ stats'[o] = Cardinality(ServedBy(o)')
  <2>1. IsFiniteSet(ServedBy(o)) /\ stats[o] = Cardinality(ServedBy(o)) /\ served \in [Endpoints -> Nat]
    BY DEF AccountInv
  <2>2. stats[o] \in Nat
    BY <1>2 DEF Phases
  <2>3. CASE UNCHANGED <<served, stats.prefill, stats.decode>>
    <3>1. ServedBy(o)' = ServedBy(o)
      BY <2>3 DEF ServedBy
    <3>. QED BY <2>1, <2>3, <3>1 DEF Phases
  <2>4. ASSUME NEW q \in Phases, NEW i \in 1..deployment[q],
               served' = [served EXCEPT ![<<q, i>>] = @ + 1]
        PROVE  /\ IsFiniteSet(ServedBy(o)')
               /\ Cardinality(ServedBy(o)') = stats[o] + (IF o = q THEN 1 ELSE 0)
    BY <2>1, <2>4, ServedOneMore
  <2>5. CASE /\ \E i \in 1..deployment["prefill"] :
                   served' = [served EXCEPT ![<<"prefill", i>>] = @ + 1]
             /\ stats'.prefill = stats.prefill + 1 /\ stats'.decode = stats.decode
    <3>1. "prefill" \in Phases
      BY DEF Phases
    <3>2. PICK i \in 1..deployment["prefill"] : served' = [served EXCEPT ![<<"prefill", i>>] = @ + 1]
      BY <2>5
    <3>3. /\ IsFiniteSet(ServedBy(o)')
          /\ Cardinality(ServedBy(o)') = stats[o] + (IF o = "prefill" THEN 1 ELSE 0)
      BY <2>4, <3>1, <3>2
    <3>4. stats'[o] = stats[o] + (IF o = "prefill" THEN 1 ELSE 0)
      BY <2>2, <2>5 DEF Phases
    <3>. QED BY <3>3, <3>4
  <2>6. CASE /\ \E i \in 1..deployment["decode"] :
                   served' = [served EXCEPT ![<<"decode", i>>] = @ + 1]
             /\ stats'.prefill = stats.prefill /\ stats'.decode = stats.decode + 1
    <3>1. "decode" \in Phases
      BY DEF Phases
    <3>2. PICK i \in 1..deployment["decode"] : served' = [served EXCEPT ![<<"decode", i>>] = @ + 1]
      BY <2>6
    <3>3. /\ IsFiniteSet(ServedBy(o)')
          /\ Cardinality(ServedBy(o)') = stats[o] + (IF o = "decode" THEN 1 ELSE 0)
      BY <2>4, <3>1, <3>2
    <3>4. stats'[o] = stats[o] + (IF o = "decode" THEN 1 ELSE 0)
      BY <2>2, <2>6 DEF Phases
    <3>. QED BY <3>3, <3>4
  <2>. QED BY <2>3, <2>5, <2>6
<1>10. \A o \in Phases : IsFiniteSet(ServedBy(o))' /\ stats'[o] = Cardinality(ServedBy(o))'
  BY <1>9
<1>. QED BY <1>4, <1>5, <1>6, <1>7, <1>8, <1>10 DEF AccountInv, StatsType

\* The two steps that serve a phase.
LEMMA AccountedPrefill ==
    ASSUME IInv, AccountInv, UNCHANGED deployment,
           NEW r \in Requests, \A x \in Requests \ {r} : req'[x].pc = req[x].pc,
           req[r].pc = "prefill", req'[r].pc \in {"refused", "failed", "role", "decode"},
           stats' \in StatsType,
           stats'.total = stats.total, stats'.success = stats.success,
           stats'.failed = stats.failed + (IF req'[r].pc = "failed" THEN 1 ELSE 0),
           stats'.prefill = stats.prefill + 1, stats'.decode = stats.decode,
           \E i \in 1..deployment["prefill"] : served' = [served EXCEPT ![<<"prefill", i>>] = @ + 1]
    PROVE  AccountInv'
<1>1. /\ stats.total \in Nat /\ stats.success \in Nat /\ stats.failed \in Nat
      /\ stats.prefill \in Nat /\ stats.decode \in Nat
  BY DEF AccountInv, StatsType
<1>2. /\ stats'.total + One(Uncounted, req[r].pc) + stats.success + stats.failed
            = stats.total + One(Uncounted, req'[r].pc) + stats'.success + stats'.failed
      /\ stats'.success + One({"end", "done"}, req'[r].pc) + stats.decode
            <= stats.success + One({"end", "done"}, req[r].pc) + stats'.decode
      /\ stats'.decode + One({"role", "decode", "content"}, req'[r].pc) + stats.prefill
            <= stats.decode + One({"role", "decode", "content"}, req[r].pc) + stats'.prefill
  BY <1>1 DEF One, Uncounted, States, Ended
<1>. QED BY <1>2, Accounted

LEMMA AccountedDecode ==
    ASSUME IInv, AccountInv, UNCHANGED deployment,
           NEW r \in Requests, \A x \in Requests \ {r} : req'[x].pc = req[x].pc,
           \/ req[r].pc = "content" /\ req'[r].pc = "end"
           \/ req[r].pc = "decode" /\ req'[r].pc = "ok",
           stats' \in StatsType,
           stats'.total = stats.total,
           stats'.success = stats.success + (IF req'[r].pc = "ok" THEN 1 ELSE 0),
           stats'.failed = stats.failed,
           stats'.prefill = stats.prefill, stats'.decode = stats.decode + 1,
           \E i \in 1..deployment["decode"] : served' = [served EXCEPT ![<<"decode", i>>] = @ + 1]
    PROVE  AccountInv'
<1>1. /\ stats.total \in Nat /\ stats.success \in Nat /\ stats.failed \in Nat
      /\ stats.prefill \in Nat /\ stats.decode \in Nat
  BY DEF AccountInv, StatsType
<1>2. /\ stats'.total + One(Uncounted, req[r].pc) + stats.success + stats.failed
            = stats.total + One(Uncounted, req'[r].pc) + stats'.success + stats'.failed
      /\ stats'.success + One({"end", "done"}, req'[r].pc) + stats.decode
            <= stats.success + One({"end", "done"}, req[r].pc) + stats'.decode
      /\ stats'.decode + One({"role", "decode", "content"}, req'[r].pc) + stats.prefill
            <= stats.decode + One({"role", "decode", "content"}, req[r].pc) + stats'.prefill
  BY <1>1 DEF One, Uncounted, States, Ended
<1>. QED BY <1>2, Accounted

\* Every action of a request keeps the accounts.
LEMMA AccountStep ==
    ASSUME IInv, IInv', AccountInv, NEW r \in Requests,
           (\E stream \in BOOLEAN : Arrive(r, stream)) \/ Handle(r) \/ Disconnect(r)
    PROVE  AccountInv'
<1>1. /\ req \in [Requests -> ReqState] /\ req[r] \in ReqState /\ UNCHANGED deployment
      /\ stats \in StatsType
  BY DEF IInv, TypeInv, AccountInv, Handle, Arrive, PrefillEnds, RefusalCounted, StreamOpens,
         Token, NextToken, DecodeEnds, SendDone, StreamSucceeds, Finalize, Disconnect
<1>0. /\ stats.total \in Nat /\ stats.success \in Nat /\ stats.failed \in Nat
      /\ stats.prefill \in Nat /\ stats.decode \in Nat
  BY <1>1 DEF StatsType
<1> DEFINE Counts(t, s, f, p, d) ==
             /\ stats' \in StatsType
             /\ stats'.total = stats.total + t /\ stats'.success = stats.success + s
             /\ stats'.failed = stats.failed + f /\ stats'.prefill = stats.prefill + p
             /\ stats'.decode = stats.decode + d
           Becomes(z) == req' = [req EXCEPT ![r] = z]
<1>2. ASSUME UNCHANGED stats PROVE Counts(0, 0, 0, 0, 0)
  BY <1>1, <1>2 DEF StatsType
<1>3. ASSUME NEW z, Becomes(z)
      PROVE  req'[r].pc = z.pc /\ \A x \in Requests \ {r} : req'[x].pc = req[x].pc
  BY <1>1, <1>3
<1>4. ASSUME NEW stream \in BOOLEAN, Arrive(r, stream)
      PROVE  AccountInv'
  <2> DEFINE q == [req[r] EXCEPT !.stream = stream]
  <2>1. q \in ReqState /\ q.stream = stream /\ req[r].pc = "idle" /\ UNCHANGED served
    BY <1>1, <1>4 DEF Arrive, ReqState
  <2>2. CASE /\ Becomes(Refused(q))
             /\ stats' = [stats EXCEPT !.total = @ + 1, !.failed = @ + Failures(q)]
    <3>1. Refused(q).pc = IF stream THEN "refused" ELSE "failed"
      BY <2>1, YieldType, RefusedPc
    <3>2. CASE stream
      <4>1. Refused(q).pc = "refused" /\ Failures(q) = 0
        BY <2>1, <3>1, <3>2 DEF Failures
      <4> HIDE DEF q
      <4>2. stats' = [stats EXCEPT !["total"] = @ + 1, !["failed"] = @ + 0]
        BY <2>2, <4>1
      <4>3. Counts(1, 0, 0, 0, 0)
        BY <1>0, <1>1, <4>2 DEF StatsType
      <4>. QED BY <1>0, <1>1, <1>3, <2>1, <2>2, <4>1, <4>3, Accounted DEF One, Uncounted, States, Ended
    <3>3. CASE ~stream
      <4>1. Refused(q).pc = "failed" /\ Failures(q) = 1
        BY <2>1, <3>1, <3>3 DEF Failures
      <4> HIDE DEF q
      <4>2. stats' = [stats EXCEPT !["total"] = @ + 1, !["failed"] = @ + 1]
        BY <2>2, <4>1
      <4>3. Counts(1, 0, 1, 0, 0)
        BY <1>0, <1>1, <4>2 DEF StatsType
      <4>. QED BY <1>0, <1>1, <1>3, <2>1, <2>2, <4>1, <4>3, Accounted DEF One, Uncounted, States, Ended
    <3>. QED BY <3>2, <3>3
  <2>3. ASSUME NEW i, Becomes([q EXCEPT !.pc = "prefill", !.prefill = i]),
               stats' = [stats EXCEPT !.total = @ + 1]
        PROVE  AccountInv'
    <3>1. [q EXCEPT !.pc = "prefill", !.prefill = i].pc = "prefill"
      BY <2>1 DEF ReqState
    <3>2. Counts(1, 0, 0, 0, 0)
      BY <1>1, <2>3 DEF StatsType
    <3>. QED BY <1>0, <1>1, <1>3, <2>1, <2>3, <3>1, <3>2, Accounted DEF One, Uncounted, States, Ended
  <2>. QED BY <1>4, <2>2, <2>3 DEF Arrive
<1>5. CASE PrefillEnds(r)
  <2> DEFINE q == req[r]
  <2>1. /\ q.pc = "prefill" /\ q.prefill \in 1..deployment["prefill"]
        /\ served' = [served EXCEPT ![<<"prefill", q.prefill>>] = @ + 1]
    BY <1>5, RequestFacts DEF PrefillEnds, Placed
  <2>0. \E i \in 1..deployment["prefill"] : served' = [served EXCEPT ![<<"prefill", i>>] = @ + 1]
    BY <2>1
  <2>2. CASE /\ Becomes(Refused(q))
             /\ stats' = [stats EXCEPT !.prefill = @ + 1, !.failed = @ + Failures(q)]
    <3>1. CASE q.stream
      <4>1. Refused(q).pc = "refused" /\ Failures(q) = 0
        BY <1>1, <3>1, RefusedPc DEF Failures
      <4> HIDE DEF q
      <4>2. stats' = [stats EXCEPT !["prefill"] = @ + 1, !["failed"] = @ + 0]
        BY <2>2, <4>1
      <4>3. Counts(0, 0, 0, 1, 0)
        BY <1>0, <1>1, <4>2 DEF StatsType
      <4>4. /\ req[r].pc = "prefill" /\ req'[r].pc = "refused"
            /\ \A x \in Requests \ {r} : req'[x].pc = req[x].pc
        BY <1>3, <2>1, <2>2, <4>1 DEF q
      <4>5. /\ stats' \in StatsType
            /\ stats'.total = stats.total /\ stats'.success = stats.success
            /\ stats'.failed = stats.failed + (IF req'[r].pc = "failed" THEN 1 ELSE 0)
            /\ stats'.prefill = stats.prefill + 1 /\ stats'.decode = stats.decode
        BY <1>0, <4>3, <4>4
      <4>. QED BY <1>1, <2>0, <4>4, <4>5, AccountedPrefill
    <3>2. CASE ~q.stream
      <4>1. Refused(q).pc = "failed" /\ Failures(q) = 1
        BY <1>1, <3>2, RefusedPc DEF Failures
      <4> HIDE DEF q
      <4>2. stats' = [stats EXCEPT !["prefill"] = @ + 1, !["failed"] = @ + 1]
        BY <2>2, <4>1
      <4>3. Counts(0, 0, 1, 1, 0)
        BY <1>0, <1>1, <4>2 DEF StatsType
      <4>4. /\ req[r].pc = "prefill" /\ req'[r].pc = "failed"
            /\ \A x \in Requests \ {r} : req'[x].pc = req[x].pc
        BY <1>3, <2>1, <2>2, <4>1 DEF q
      <4>5. /\ stats' \in StatsType
            /\ stats'.total = stats.total /\ stats'.success = stats.success
            /\ stats'.failed = stats.failed + (IF req'[r].pc = "failed" THEN 1 ELSE 0)
            /\ stats'.prefill = stats.prefill + 1 /\ stats'.decode = stats.decode
        BY <1>0, <4>3, <4>4
      <4>. QED BY <1>1, <2>0, <4>4, <4>5, AccountedPrefill
    <3>. QED BY <3>1, <3>2
  <2>3. ASSUME NEW i,
               Becomes([Yield(q, "role") EXCEPT !.pc = IF q.stream THEN "role" ELSE "decode",
                                                !.decode = i]),
               stats' = [stats EXCEPT !.prefill = @ + 1]
        PROVE  AccountInv'
    <3> DEFINE z == [Yield(q, "role") EXCEPT !.pc = IF q.stream THEN "role" ELSE "decode",
                                             !.decode = i]
    <3>1. z.pc \in {"role", "decode"}
      <4>1. Yield(q, "role") \in ReqState
        BY <1>1, YieldType DEF Events
      <4>. QED BY <4>1 DEF ReqState
    <3>2. Becomes(z)
      BY <2>3
    <3> HIDE DEF z
    <3>3. Counts(0, 0, 0, 1, 0)
      BY <1>1, <2>3 DEF StatsType
    <3>4. /\ req[r].pc = "prefill" /\ req'[r].pc \in {"role", "decode"}
          /\ \A x \in Requests \ {r} : req'[x].pc = req[x].pc
      BY <1>3, <2>1, <3>1, <3>2
    <3>5. /\ stats' \in StatsType
          /\ stats'.total = stats.total /\ stats'.success = stats.success
          /\ stats'.failed = stats.failed + (IF req'[r].pc = "failed" THEN 1 ELSE 0)
          /\ stats'.prefill = stats.prefill + 1 /\ stats'.decode = stats.decode
      BY <1>0, <3>3, <3>4
    <3>. QED BY <1>1, <2>0, <3>4, <3>5, AccountedPrefill
  <2>. QED BY <1>5, <2>2, <2>3 DEF PrefillEnds
\* The pc changes, nothing is counted.
<1>6. ASSUME NEW z, Becomes(z), UNCHANGED <<stats, served>>,
             \/ req[r].pc = "role" /\ z.pc = "decode"
             \/ req[r].pc = "decode" /\ z.pc \in {"content", "decode"}
             \/ req[r].pc = "content" /\ z.pc \in {"decode", "dropped"}
             \/ req[r].pc = "end" /\ z.pc = "done"
             \/ /\ req[r].pc \in {"prefill", "decode", "refused", "role", "end", "done", "dropped"}
                /\ z.pc = "gone"
      PROVE  AccountInv'
  <2>1. Counts(0, 0, 0, 0, 0)
    BY <1>2, <1>6
  <2>2. /\ One(Uncounted, req[r].pc) = One(Uncounted, z.pc)
        /\ One({"end", "done"}, z.pc) <= One({"end", "done"}, req[r].pc)
        /\ One({"role", "decode", "content"}, z.pc) <= One({"role", "decode", "content"}, req[r].pc)
    BY <1>6 DEF One, Uncounted, States, Ended
  <2>3. \A S : One(S, req[r].pc) \in Nat /\ One(S, z.pc) \in Nat
    BY DEF One
  <2>. QED BY <1>0, <1>1, <1>3, <1>6, <2>1, <2>2, <2>3, Accounted
<1>7. CASE RefusalCounted(r) \/ StreamSucceeds(r)
  <2>1. CASE RefusalCounted(r)
    <3>1. Becomes([req[r] EXCEPT !.pc = "failed"]) /\ [req[r] EXCEPT !.pc = "failed"].pc = "failed"
          /\ req[r].pc = "refused" /\ UNCHANGED served
      BY <1>1, <2>1, PcType DEF RefusalCounted
    <3>2. Counts(0, 0, 1, 0, 0)
      BY <1>1, <2>1 DEF RefusalCounted, StatsType
    <3>. QED BY <1>0, <1>1, <1>3, <3>1, <3>2, Accounted DEF One, Uncounted, States, Ended
  <2>2. CASE StreamSucceeds(r)
    <3>1. Becomes([req[r] EXCEPT !.pc = "ok"]) /\ [req[r] EXCEPT !.pc = "ok"].pc = "ok"
          /\ req[r].pc = "done" /\ UNCHANGED served
      BY <1>1, <2>2, PcType DEF StreamSucceeds
    <3>2. Counts(0, 1, 0, 0, 0)
      BY <1>1, <2>2 DEF StreamSucceeds, StatsType
    <3>. QED BY <1>0, <1>1, <1>3, <3>1, <3>2, Accounted DEF One, Uncounted, States, Ended
  <2>. QED BY <1>7, <2>1, <2>2
<1>8. CASE StreamOpens(r)
  <2>1. Becomes([req[r] EXCEPT !.pc = "decode"]) /\ [req[r] EXCEPT !.pc = "decode"].pc = "decode"
    BY <1>1, <1>8, PcType DEF StreamOpens, States, Ended
  <2>. QED BY <1>6, <1>8, <2>1 DEF StreamOpens
<1>9. CASE NextToken(r)
  <2>1. Becomes([req[r] EXCEPT !.pc = "decode"]) /\ [req[r] EXCEPT !.pc = "decode"].pc = "decode"
    BY <1>1, <1>9, PcType DEF NextToken, States, Ended
  <2>. QED BY <1>6, <1>9, <2>1 DEF NextToken
<1>10. CASE Finalize(r)
  <2>1. Becomes([req[r] EXCEPT !.pc = "gone"]) /\ [req[r] EXCEPT !.pc = "gone"].pc = "gone"
    BY <1>1, <1>10, PcType DEF Finalize, States, Ended
  <2>. QED BY <1>6, <1>10, <2>1 DEF Finalize
<1>11. CASE SendDone(r)
  <2> DEFINE y == Yield(req[r], "done")
  <2>1. y \in ReqState /\ Becomes([y EXCEPT !.pc = "done"])
    BY <1>1, <1>11, YieldType DEF SendDone, Events
  <2> HIDE DEF y
  <2>2. [y EXCEPT !.pc = "done"].pc = "done"
    BY <2>1, PcType
  <2>. QED BY <1>6, <1>11, <2>1, <2>2 DEF SendDone
<1>12. CASE Token(r)
  <2> DEFINE y == Yield(req[r], "content")
             pc == IF req[r].stream THEN "content" ELSE "decode"
             z == [y EXCEPT !.generated = req[r].generated + 1, !.pc = pc]
  <2>1. y \in ReqState
    BY <1>1, YieldType DEF Events
  <2>2. Becomes(z)
    BY <1>12, Zenon DEF Token
  <2>3. pc \in {"content", "decode"}
    OBVIOUS
  <2> HIDE DEF y, pc
  <2>4. z.pc = pc
    BY <2>1 DEF ReqState
  <2> HIDE DEF z
  <2>. QED BY <1>6, <1>12, <2>2, <2>3, <2>4 DEF Token
<1>13. CASE DecodeEnds(r)
  <2> DEFINE y == Yield(req[r], "end")
  <2>1. y \in ReqState
    BY <1>1, YieldType DEF Events
  <2>2. req[r].decode \in 1..deployment["decode"]
    BY <1>13, RequestFacts DEF DecodeEnds, Placed, Decoding
  <2>3. served' = [served EXCEPT ![<<"decode", req[r].decode>>] = @ + 1]
    BY <1>13 DEF DecodeEnds
  <2>0. \E i \in 1..deployment["decode"] : served' = [served EXCEPT ![<<"decode", i>>] = @ + 1]
    BY <2>2, <2>3
  <2>4. CASE req[r].stream
    <3>1. Becomes([y EXCEPT !.pc = "end"]) /\ req[r].pc = "content"
      BY <1>13, <2>4 DEF DecodeEnds
    <3>2. Counts(0, 0, 0, 0, 1)
      <4>1. stats' = [stats EXCEPT !["decode"] = @ + 1, !["success"] = @ + 0]
        BY <1>13, <2>4 DEF DecodeEnds
      <4>. QED BY <1>0, <1>1, <4>1 DEF StatsType
    <3> HIDE DEF y
    <3>3. [y EXCEPT !.pc = "end"].pc = "end"
      BY <2>1, PcType
    <3>4. /\ req[r].pc = "content" /\ req'[r].pc = "end"
          /\ \A x \in Requests \ {r} : req'[x].pc = req[x].pc
      BY <1>3, <3>1, <3>3
    <3>5. /\ stats' \in StatsType
          /\ stats'.total = stats.total /\ stats'.failed = stats.failed
          /\ stats'.success = stats.success + (IF req'[r].pc = "ok" THEN 1 ELSE 0)
          /\ stats'.prefill = stats.prefill /\ stats'.decode = stats.decode + 1
      BY <1>0, <3>2, <3>4
    <3>. QED BY <1>1, <2>0, <3>4, <3>5, AccountedDecode
  <2>5. CASE ~req[r].stream
    <3>1. Becomes([y EXCEPT !.pc = "ok"]) /\ req[r].pc = "decode"
      BY <1>13, <2>5 DEF DecodeEnds
    <3>2. Counts(0, 1, 0, 0, 1)
      <4>1. stats' = [stats EXCEPT !["decode"] = @ + 1, !["success"] = @ + 1]
        BY <1>13, <2>5 DEF DecodeEnds
      <4>. QED BY <1>0, <1>1, <4>1 DEF StatsType
    <3> HIDE DEF y
    <3>3. [y EXCEPT !.pc = "ok"].pc = "ok"
      BY <2>1, PcType
    <3>4. /\ req[r].pc = "decode" /\ req'[r].pc = "ok"
          /\ \A x \in Requests \ {r} : req'[x].pc = req[x].pc
      BY <1>3, <3>1, <3>3
    <3>5. /\ stats' \in StatsType
          /\ stats'.total = stats.total /\ stats'.failed = stats.failed
          /\ stats'.success = stats.success + (IF req'[r].pc = "ok" THEN 1 ELSE 0)
          /\ stats'.prefill = stats.prefill /\ stats'.decode = stats.decode + 1
      BY <1>0, <3>2, <3>4
    <3>. QED BY <1>1, <2>0, <3>4, <3>5, AccountedDecode
  <2>. QED BY <2>4, <2>5
<1>14. CASE Disconnect(r)
  <2>1. \/ /\ Becomes([req[r] EXCEPT !.pc = "gone"])
           /\ req[r].pc \in {"prefill", "decode", "refused", "role", "end", "done"}
        \/ Becomes([req[r] EXCEPT !.pc = "dropped"]) /\ req[r].pc = "content"
    <3>1. \/ /\ req' = [req EXCEPT ![r].pc = "gone"]
             /\ req[r].pc \in {"prefill", "decode", "refused", "role", "end", "done"}
          \/ req' = [req EXCEPT ![r].pc = "dropped"] /\ req[r].pc = "content"
      BY <1>14 DEF Disconnect, Phases
    <3>. QED BY <1>1, <3>1
  <2>2. [req[r] EXCEPT !.pc = "gone"].pc = "gone" /\ [req[r] EXCEPT !.pc = "dropped"].pc = "dropped"
    BY <1>1, PcType
  <2>. QED BY <1>6, <1>14, <2>1, <2>2 DEF Disconnect
<1>. QED
  BY <1>4, <1>5, <1>7, <1>8, <1>9, <1>10, <1>11, <1>12, <1>13, <1>14 DEF Handle

\* Every request is counted once, as a success, a failure or neither yet, and every
\* phase of it at the proxy and at one endpoint, whatever clients do (lines 229-430).
THEOREM PhasesAreAccounted == Spec => []PhasesAccounted
<1>1. Init => AccountInv
  <2>1. SUFFICES ASSUME Init PROVE AccountInv
    OBVIOUS
  <2>2. \A S : "idle" \notin S => In(S) = 0
    BY <2>1, FS_EmptySet DEF Init, In
  <2>3. \A p \in Phases : ServedBy(p) = {}
    <3>1. \A p \in Phases : \A i \in 1..deployment[p] : {<<p, i>>} \X (1..served[<<p, i>>]) = {}
      <4>1. 1..0 = {} /\ \A y : {y} \X {} = {}
        OBVIOUS
      <4>. QED BY <2>1, <4>1, EndpointsAre DEF Init
    <3>. QED BY <3>1 DEF ServedBy
  <2>4. /\ served \in [Endpoints -> Nat] /\ stats \in StatsType
        /\ stats.total = 0 /\ stats.success = 0 /\ stats.failed = 0
        /\ \A p \in Phases : stats[p] = 0
        /\ stats.decode = 0 /\ stats.prefill = 0
    BY <2>1 DEF Init, StatsType, Phases
  <2>5. "idle" \notin Uncounted
    BY DEF Uncounted
  <2>. QED BY <2>2, <2>3, <2>4, <2>5, FS_EmptySet DEF AccountInv
<1>2. IInv /\ IInv' /\ AccountInv /\ [Next]_vars => AccountInv'
  <2>1. CASE Next
    BY <2>1, AccountStep DEF Next
  <2>2. CASE UNCHANGED vars
    <3>1. UNCHANGED <<deployment, served, stats, req>> /\ Endpoints' = Endpoints
      BY <2>2 DEF vars, Endpoints
    <3>2. \A S : In(S)' = In(S)
      BY <3>1 DEF In
    <3>3. \A p : ServedBy(p)' = ServedBy(p)
      BY <3>1 DEF ServedBy
    <3>. QED BY <2>2, <3>1, <3>2, <3>3 DEF AccountInv
  <2>. QED BY <2>1, <2>2
<1>3. IInv /\ AccountInv => PhasesAccounted
  <2>1. SUFFICES ASSUME IInv, AccountInv PROVE PhasesAccounted
    OBVIOUS
  <2>2. \A r \in Requests : req[r].pc \in States
    BY <2>1, RequestFacts
  <2>3. {r \in Requests : req[r].pc \notin {"idle", "ok", "failed"}}
           = {r \in Requests : req[r].pc \in Uncounted}
    BY <2>2 DEF Uncounted
  <2>4. /\ stats.success \in Nat /\ stats.decode \in Nat /\ stats.prefill \in Nat
        /\ In({"end", "done"}) \in Nat /\ In({"role", "decode", "content"}) \in Nat
    BY <2>1, FS_Subset, FS_CardinalityType, ProxyAssumption DEF AccountInv, In, StatsType
  <2>5. In(Uncounted) = Cardinality({r \in Requests : req[r].pc \notin {"idle", "ok", "failed"}})
    BY <2>3 DEF In
  <2>. QED BY <2>1, <2>4, <2>5 DEF AccountInv, PhasesAccounted
<1>. QED BY <1>1, <1>2, <1>3, Invariance, PTL DEF Spec


-----------------------------------------------------------------------------
(* Every stream is one that ChatStream allows.                             *)

\* The lemmas about streams, for those of the proxy.
C == INSTANCE ChatStream_proofs
         WITH out <- [r \in Requests |-> req[r].out],
              over <- [r \in Requests |-> req[r].pc \in Ended \cup {"refused", "dropped"}]

Over(q) == q.pc \in Ended \cup {"refused", "dropped"}

Streaming == {"role", "decode", "content", "end", "done"}

\* The number of events a stream has sent.
Sent(q) ==
    IF q.pc = "done" THEN MaxTokens + 3
    ELSE IF q.pc = "end" THEN MaxTokens + 2 ELSE q.generated + 1

\* What a request has sent is the beginning of a whole stream.
StreamInv(q) ==
    /\ q.generated <= MaxTokens
    /\ q.pc \in {"idle", "prefill"} => q.out = <<>> /\ q.generated = 0
    /\ q.pc = "role" => q.generated = 0
    /\ q.pc \in {"role", "content", "end", "done", "refused", "dropped"} => q.stream
    /\ q.stream /\ q.pc \in Streaming => C!Begins(q.out, Sent(q))

Sends(q, z) ==
    /\ ~Over(q)
    /\ ~Over(z)
    /\ \E n \in 0..(MaxTokens + 2) :
          C!Begins(q.out, n) /\ z.out = Append(q.out, C!Event(n + 1))

Ends(q, z) ==
    /\ ~Over(q)
    /\ Over(z)
    /\ z.out = q.out \/ (q.out = <<>> /\ z.out = <<"error">>)

Unseen(q, z) == z.out = q.out /\ (Over(q) <=> Over(z))

\* A step of a request, as its client sees it.
StreamStep(q, z) == StreamInv(z) /\ (Sends(q, z) \/ Ends(q, z) \/ Unseen(q, z))

\* What sending the next event of a stream leads to.
LEMMA Sending ==
    ASSUME NEW q \in ReqState, StreamInv(q), NEW z \in ReqState,
           NEW n \in 0..(MaxTokens + 2), C!Begins(q.out, n), z.stream = q.stream,
           ~Over(q), z.pc \in Streaming \ {"decode"}, q.stream,
           z.generated <= MaxTokens, z.pc = "role" => z.generated = 0,
           NEW event, z.out = Append(q.out, event), event = C!Event(n + 1), Sent(z) = n + 1
    PROVE  StreamStep(q, z)
<1>1. MaxTokens \in Nat \ {0} /\ q.out \in Seq(C!Kinds)
  BY ProxyAssumption DEF ReqState, Events, C!Kinds
<1>2. C!Begins(z.out, n + 1)
  BY <1>1, C!NextEvent
<1>3. ~Over(z) /\ z.pc \notin {"idle", "prefill"}
  BY DEF Over, Streaming, Ended
<1>. QED BY <1>2, <1>3 DEF StreamStep, StreamInv, Sends

\* The events of a whole stream by what is sent when.
LEMMA EventIs ==
    /\ C!Event(1) = "role"
    /\ \A n \in 1..MaxTokens : C!Event(n + 1) = "content"
    /\ C!Event(MaxTokens + 2) = "end"
    /\ C!Event(MaxTokens + 3) = "done"
<1>1. MaxTokens \in Nat \ {0}
  BY ProxyAssumption
<1>. QED BY <1>1 DEF C!Event

\* A step that sends nothing.
LEMMA Silent ==
    ASSUME NEW q \in ReqState, StreamInv(q), NEW pc \in States,
           \/ q.pc = "role" /\ pc = "decode"
           \/ q.pc = "content" /\ pc \in {"decode", "dropped"}
           \/ q.pc = "refused" /\ pc = "failed"
           \/ q.pc = "done" /\ pc = "ok"
           \/ q.pc # "idle" /\ pc = "gone"
    PROVE  StreamStep(q, [q EXCEPT !.pc = pc])
<1> DEFINE z == [q EXCEPT !.pc = pc]
<1>1. /\ z \in ReqState /\ z.pc = pc /\ z.out = q.out /\ z.stream = q.stream
      /\ z.generated = q.generated
  BY DEF ReqState
<1> HIDE DEF z
<1>2. StreamInv(z)
  <2>1. z.pc = "decode" => Sent(z) = Sent(q) /\ q.pc \in Streaming
    BY <1>1 DEF Sent, Streaming
  <2>2. z.pc \in Streaming => z.pc = "decode"
    BY <1>1 DEF Streaming
  <2>. QED BY <1>1, <2>1, <2>2 DEF StreamInv
<1>3. Ends(q, z) \/ Unseen(q, z)
  <2>1. CASE Over(q) <=> Over(z)
    BY <1>1, <2>1 DEF Unseen
  <2>2. CASE Over(q) /\ ~Over(z)
    BY <1>1, <2>2 DEF Over, Ended
  <2>3. CASE ~Over(q) /\ Over(z)
    BY <1>1, <2>3 DEF Ends
  <2>. QED BY <2>1, <2>2, <2>3
<1>. QED BY <1>2, <1>3 DEF StreamStep, z

\* A request that no endpoint takes.
LEMMA Refusing ==
    ASSUME NEW q \in ReqState, StreamInv(q), q.pc \in {"idle", "prefill"},
           NEW p \in ReqState, p.out = q.out, p.pc = q.pc, p.generated = q.generated
    PROVE  StreamStep(q, Refused(p))
<1> DEFINE y == Yield(p, "error")
           z == Refused(p)
<1>1. /\ y \in ReqState /\ y.stream = p.stream /\ y.generated = p.generated
      /\ y.out = IF p.stream THEN Append(p.out, "error") ELSE p.out
  <2>1. y \in ReqState /\ y.stream = p.stream /\ y.generated = p.generated
    BY YieldType DEF Events
  <2>. QED BY <2>1 DEF Yield, ReqState
<1>2. /\ z.pc = IF p.stream THEN "refused" ELSE "failed"
      /\ z.stream = p.stream /\ z.generated = p.generated
      /\ z.out = IF p.stream THEN Append(p.out, "error") ELSE p.out
  <2> HIDE DEF y
  <2>1. z = IF p.stream THEN [y EXCEPT !.pc = "refused"] ELSE [p EXCEPT !.pc = "failed"]
    BY DEF Refused, y
  <2>. QED BY <1>1, <2>1 DEF ReqState
<1> HIDE DEF z
<1>3. q.out = <<>> /\ Append(<<>>, "error") = <<"error">> /\ ~Over(q)
  BY DEF StreamInv, Over, Ended
<1>4. Over(z) /\ z.pc \notin {"idle", "prefill", "role", "content", "end", "done", "dropped"}
      /\ z.pc \notin Streaming
  BY <1>2 DEF Over, Ended, Streaming
<1>5. StreamInv(z)
  BY <1>2, <1>4 DEF StreamInv
<1>. QED BY <1>2, <1>3, <1>4, <1>5 DEF StreamStep, Ends, z

\* Every action of a request is such a step.
LEMMA StreamSteps ==
    ASSUME IInv, NEW r \in Requests, StreamInv(req[r]),
           (\E stream \in BOOLEAN : Arrive(r, stream)) \/ Handle(r) \/ Disconnect(r)
    PROVE  /\ StreamStep(req[r], req'[r])
           /\ \A x \in Requests \ {r} : req'[x] = req[x]
<1> DEFINE q == req[r]
           Becomes(z) == req' = [req EXCEPT ![r] = z]
           Goal == /\ StreamStep(q, req'[r])
                   /\ \A x \in Requests \ {r} : req'[x] = req[x]
<1>1. /\ req \in [Requests -> ReqState] /\ q \in ReqState /\ StreamInv(q)
      /\ MaxTokens \in Nat \ {0} /\ q.generated \in Nat
  BY ProxyAssumption DEF IInv, TypeInv, ReqState
<1>2. ASSUME NEW z, Becomes(z), StreamStep(q, z) PROVE Goal
  <2>1. req'[r] = z /\ \A x \in Requests \ {r} : req'[x] = req[x]
    BY <1>1, <1>2
  <2>. QED BY <1>2, <2>1
<1>3. ASSUME NEW pc \in States, Becomes([q EXCEPT !.pc = pc]),
             \/ q.pc = "role" /\ pc = "decode"
             \/ q.pc = "content" /\ pc \in {"decode", "dropped"}
             \/ q.pc = "refused" /\ pc = "failed"
             \/ q.pc = "done" /\ pc = "ok"
             \/ q.pc # "idle" /\ pc = "gone"
      PROVE  Goal
  <2>1. StreamStep(q, [q EXCEPT !.pc = pc])
    BY <1>1, <1>3, Silent
  <2>. QED BY <1>2, <1>3, <2>1
<1>20. {"decode", "dropped", "failed", "ok", "gone"} \subseteq States
  BY DEF States, Ended
<1>4. CASE RefusalCounted(r)
  <2>1. Becomes([q EXCEPT !.pc = "failed"]) /\ q.pc = "refused"
    BY <1>4 DEF RefusalCounted
  <2>. QED BY <1>3, <1>20, <2>1
<1>5. CASE StreamOpens(r)
  <2>1. Becomes([q EXCEPT !.pc = "decode"]) /\ q.pc = "role"
    BY <1>5 DEF StreamOpens
  <2>. QED BY <1>3, <1>20, <2>1
<1>6. CASE NextToken(r)
  <2>1. Becomes([q EXCEPT !.pc = "decode"]) /\ q.pc = "content"
    BY <1>6 DEF NextToken
  <2>. QED BY <1>3, <1>20, <2>1
<1>7. CASE StreamSucceeds(r)
  <2>1. Becomes([q EXCEPT !.pc = "ok"]) /\ q.pc = "done"
    BY <1>7 DEF StreamSucceeds
  <2>. QED BY <1>3, <1>20, <2>1
<1>8. CASE Finalize(r)
  <2>1. Becomes([q EXCEPT !.pc = "gone"]) /\ q.pc = "dropped"
    BY <1>8 DEF Finalize
  <2>. QED BY <1>3, <1>20, <2>1
<1>9. CASE Disconnect(r)
  <2>1. \/ Becomes([q EXCEPT !.pc = "gone"]) /\ q.pc # "idle"
        \/ Becomes([q EXCEPT !.pc = "dropped"]) /\ q.pc = "content"
    BY <1>9 DEF Disconnect, Phases
  <2>. QED BY <1>3, <1>20, <2>1
<1>10. CASE \E stream \in BOOLEAN : Arrive(r, stream)
  <2>1. PICK stream \in BOOLEAN : Arrive(r, stream)
    BY <1>10
  <2> DEFINE p == [q EXCEPT !.stream = stream]
  <2>2. p \in ReqState /\ p.out = q.out /\ p.pc = q.pc /\ p.generated = q.generated /\ q.pc = "idle"
    BY <1>1, <2>1 DEF ReqState, Arrive
  <2>3. CASE Becomes(Refused(p))
    <3> HIDE DEF p
    <3>1. StreamStep(q, Refused(p))
      BY <1>1, <2>2, Refusing
    <3>. QED BY <1>2, <2>3, <3>1
  <2>4. ASSUME NEW i, Becomes([p EXCEPT !.pc = "prefill", !.prefill = i])
        PROVE  Goal
    <3> DEFINE z == [p EXCEPT !.pc = "prefill", !.prefill = i]
    <3>1. Becomes(z)
      BY <2>4
    <3>2. z.pc = "prefill" /\ z.out = q.out /\ z.generated = q.generated
      BY <2>2 DEF ReqState
    <3> HIDE DEF z
    <3>3. q.out = <<>> /\ q.generated = 0
      BY <1>1, <2>2 DEF StreamInv
    <3>4. StreamInv(z) /\ Unseen(q, z)
      BY <1>1, <2>2, <3>2, <3>3 DEF StreamInv, Unseen, Over, Ended, Streaming
    <3>. QED BY <1>2, <3>1, <3>4 DEF StreamStep
  <2>. QED BY <2>1, <2>3, <2>4 DEF Arrive
<1>11. CASE PrefillEnds(r)
  <2>1. q.pc = "prefill" /\ q.out = <<>> /\ q.generated = 0 /\ ~Over(q)
    BY <1>1, <1>11 DEF PrefillEnds, StreamInv, Over, Ended
  <2>2. CASE Becomes(Refused(q))
    <3>1. StreamStep(q, Refused(q))
      BY <1>1, <2>1, Refusing
    <3>. QED BY <1>2, <2>2, <3>1
  <2>3. ASSUME NEW i \in Nat,
               Becomes([Yield(q, "role") EXCEPT !.pc = IF q.stream THEN "role" ELSE "decode",
                                                !.decode = i])
        PROVE  Goal
    <3> DEFINE y == Yield(q, "role")
               z == [y EXCEPT !.pc = IF q.stream THEN "role" ELSE "decode", !.decode = i]
    <3>1. y \in ReqState /\ y.stream = q.stream /\ y.generated = q.generated
          /\ y.out = IF q.stream THEN Append(q.out, "role") ELSE q.out
      <4>1. y \in ReqState /\ y.stream = q.stream /\ y.generated = q.generated
        BY <1>1, YieldType DEF Events
      <4>. QED BY <1>1, <4>1 DEF Yield, ReqState
    <3>2. Becomes(z)
      BY <2>3
    <3> HIDE DEF y
    <3>3. /\ z \in ReqState /\ z.pc = IF q.stream THEN "role" ELSE "decode"
          /\ z.stream = q.stream /\ z.generated = 0
          /\ z.out = IF q.stream THEN Append(q.out, "role") ELSE q.out
      BY <1>1, <2>1, <2>3, <3>1 DEF ReqState, States
    <3> HIDE DEF z
    <3>4. CASE q.stream
      <4>1. C!Begins(q.out, 0) /\ Sent(z) = 0 + 1 /\ 0 \in 0..(MaxTokens + 2)
            /\ z.pc \in Streaming \ {"decode"} /\ "role" = C!Event(0 + 1)
        BY <1>1, <2>1, <3>3, <3>4, EventIs DEF C!Begins, Sent, Streaming
      <4>2. z.out = Append(q.out, "role") /\ z.generated <= MaxTokens
        BY <1>1, <3>3, <3>4
      <4>3. StreamStep(q, z)
        BY <1>1, <2>1, <3>3, <3>4, <4>1, <4>2, Sending
      <4>. QED BY <1>2, <3>2, <4>3
    <3>5. CASE ~q.stream
      <4>1. StreamInv(z) /\ Unseen(q, z)
        BY <1>1, <2>1, <3>3, <3>5 DEF StreamInv, Unseen, Over, Ended
      <4>. QED BY <1>2, <3>2, <4>1 DEF StreamStep
    <3>. QED BY <3>4, <3>5
  <2>4. \A i \in Selectable("decode") : i \in Nat
    BY DEF Selectable
  <2>. QED BY <1>11, <2>2, <2>3, <2>4 DEF PrefillEnds
<1>12. CASE Token(r)
  <2> DEFINE y == Yield(q, "content")
             z == [y EXCEPT !.generated = q.generated + 1,
                            !.pc = IF q.stream THEN "content" ELSE "decode"]
  <2>1. y \in ReqState /\ y.stream = q.stream
        /\ y.out = IF q.stream THEN Append(q.out, "content") ELSE q.out
    <3>1. y \in ReqState /\ y.stream = q.stream
      BY <1>1, YieldType DEF Events
    <3>. QED BY <1>1, <3>1 DEF Yield, ReqState
  <2>2. Becomes(z) /\ q.pc = "decode" /\ q.generated < MaxTokens
    BY <1>12 DEF Token
  <2> HIDE DEF y
  <2>3. /\ z \in ReqState /\ z.pc = IF q.stream THEN "content" ELSE "decode"
        /\ z.stream = q.stream /\ z.generated = q.generated + 1
        /\ z.out = IF q.stream THEN Append(q.out, "content") ELSE q.out
    <3> DEFINE n == q.generated + 1
               pc == IF q.stream THEN "content" ELSE "decode"
    <3>1. n \in Nat /\ pc \in States
      BY <1>1 DEF States
    <3>2. z = [y EXCEPT !.generated = n, !.pc = pc]
      OBVIOUS
    <3> HIDE DEF n, pc, z
    <3>3. z \in ReqState /\ z.pc = pc /\ z.stream = y.stream /\ z.generated = n /\ z.out = y.out
      BY <2>1, <3>1, <3>2 DEF ReqState
    <3>. QED BY <2>1, <3>3 DEF n, pc
  <2> HIDE DEF z
  <2>4. ~Over(q)
    BY <2>2 DEF Over, Ended
  <2>5. CASE q.stream
    <3>1. /\ C!Begins(q.out, q.generated + 1) /\ Sent(z) = q.generated + 1 + 1
          /\ q.generated + 1 \in 1..MaxTokens /\ q.generated + 1 \in 0..(MaxTokens + 2)
          /\ z.pc \in Streaming \ {"decode"} /\ z.generated <= MaxTokens /\ z.pc # "role"
      BY <1>1, <2>2, <2>3, <2>5 DEF StreamInv, Sent, Streaming
    <3>2. "content" = C!Event(q.generated + 1 + 1)
      BY <3>1, EventIs
    <3>3. z.out = Append(q.out, "content")
      BY <2>3, <2>5
    <3>4. StreamStep(q, z)
      BY <1>1, <2>3, <2>4, <2>5, <3>1, <3>2, <3>3, Sending
    <3>. QED BY <1>2, <2>2, <3>4
  <2>6. CASE ~q.stream
    <3>1. StreamInv(z) /\ Unseen(q, z)
      BY <1>1, <2>2, <2>3, <2>6 DEF StreamInv, Unseen, Over, Ended
    <3>. QED BY <1>2, <2>2, <3>1 DEF StreamStep
  <2>. QED BY <2>5, <2>6
<1>13. CASE DecodeEnds(r)
  <2> DEFINE y == Yield(q, "end")
             z == [y EXCEPT !.pc = IF q.stream THEN "end" ELSE "ok"]
  <2>1. y \in ReqState /\ y.stream = q.stream /\ y.generated = q.generated
        /\ y.out = IF q.stream THEN Append(q.out, "end") ELSE q.out
    <3>1. y \in ReqState /\ y.stream = q.stream /\ y.generated = q.generated
      BY <1>1, YieldType DEF Events
    <3>. QED BY <1>1, <3>1 DEF Yield, ReqState
  <2>2. Becomes(z) /\ q.generated = MaxTokens /\ q.pc = IF q.stream THEN "content" ELSE "decode"
    BY <1>13 DEF DecodeEnds
  <2> HIDE DEF y
  <2>3. /\ z \in ReqState /\ z.pc = IF q.stream THEN "end" ELSE "ok"
        /\ z.stream = q.stream /\ z.generated = q.generated
        /\ z.out = IF q.stream THEN Append(q.out, "end") ELSE q.out
    BY <1>1, <2>1 DEF ReqState, States, Ended
  <2> HIDE DEF z
  <2>4. ~Over(q)
    BY <2>2 DEF Over, Ended
  <2>5. CASE q.stream
    <3>1. /\ C!Begins(q.out, MaxTokens + 1) /\ Sent(z) = MaxTokens + 1 + 1
          /\ MaxTokens + 1 \in 0..(MaxTokens + 2)
          /\ z.pc \in Streaming \ {"decode"} /\ z.generated <= MaxTokens /\ z.pc # "role"
          /\ MaxTokens + 1 + 1 = MaxTokens + 2
      BY <1>1, <2>2, <2>3, <2>5 DEF StreamInv, Sent, Streaming
    <3>2. "end" = C!Event(MaxTokens + 1 + 1)
      BY <3>1, EventIs
    <3>3. z.out = Append(q.out, "end")
      BY <2>3, <2>5
    <3>4. StreamStep(q, z)
      BY <1>1, <2>3, <2>4, <2>5, <3>1, <3>2, <3>3, Sending
    <3>. QED BY <1>2, <2>2, <3>4
  <2>6. CASE ~q.stream
    <3>1. StreamInv(z) /\ Ends(q, z)
      BY <1>1, <2>2, <2>3, <2>4, <2>6 DEF StreamInv, Ends, Over, Ended
    <3>. QED BY <1>2, <2>2, <3>1 DEF StreamStep
  <2>. QED BY <2>5, <2>6
<1>14. CASE SendDone(r)
  <2> DEFINE y == Yield(q, "done")
             z == [y EXCEPT !.pc = "done"]
  <2>0. q.pc = "end" /\ q.stream
    BY <1>1, <1>14 DEF SendDone, StreamInv
  <2>1. y \in ReqState /\ y.stream = q.stream /\ y.generated = q.generated
        /\ y.out = Append(q.out, "done")
    <3>1. y \in ReqState /\ y.stream = q.stream /\ y.generated = q.generated
      BY <1>1, YieldType DEF Events
    <3>. QED BY <1>1, <2>0, <3>1 DEF Yield, ReqState
  <2>2. Becomes(z)
    BY <1>14 DEF SendDone
  <2> HIDE DEF y
  <2>3. /\ z \in ReqState /\ z.pc = "done" /\ z.stream = q.stream /\ z.generated = q.generated
        /\ z.out = Append(q.out, "done")
    <3>1. z \in ReqState /\ z.pc = "done"
      BY <2>1, PcType DEF States
    <3>2. z.stream = y.stream /\ z.generated = y.generated /\ z.out = y.out
      BY <2>1 DEF ReqState
    <3>. QED BY <2>1, <3>1, <3>2
  <2> HIDE DEF z
  <2>4. ~Over(q)
    BY <2>0 DEF Over, Ended
  <2>5. /\ C!Begins(q.out, MaxTokens + 2) /\ Sent(z) = MaxTokens + 2 + 1
        /\ MaxTokens + 2 \in 0..(MaxTokens + 2)
        /\ z.pc \in Streaming \ {"decode"} /\ z.generated <= MaxTokens /\ z.pc # "role"
        /\ MaxTokens + 2 + 1 = MaxTokens + 3
    BY <1>1, <2>0, <2>3 DEF StreamInv, Sent, Streaming
  <2>6. "done" = C!Event(MaxTokens + 2 + 1)
    BY <2>5, EventIs
  <2>7. StreamStep(q, z)
    BY <1>1, <2>0, <2>3, <2>4, <2>5, <2>6, Sending
  <2>. QED BY <1>2, <2>2, <2>7
<1>. QED
  BY <1>4, <1>5, <1>6, <1>7, <1>8, <1>9, <1>10, <1>11, <1>12, <1>13, <1>14 DEF Handle

\* The types of the streams.
LEMMA StreamsTyped ==
    ASSUME TypeInv PROVE C!StreamsType
  BY DEF TypeInv, ReqState, Events, C!StreamsType, C!Kinds

\* A step of a request is a step of ChatStream, or one no client sees.
LEMMA StreamStepRefines ==
    ASSUME TypeInv, TypeInv', NEW r \in Requests, StreamStep(req[r], req'[r]),
           \A x \in Requests \ {r} : req'[x] = req[x]
    PROVE  [Streams!Next]_(Streams!vars)
<1>1. MaxTokens \in Nat \ {0} /\ C!StreamsType
  BY ProxyAssumption, StreamsTyped
<1>2. C!StreamsType'
  BY DEF TypeInv, ReqState, Events, C!StreamsType, C!Kinds
<1>3. C!OthersKept(r)
  BY DEF C!OthersKept
<1>4. CASE Sends(req[r], req'[r])
  <2>1. PICK n \in 0..(MaxTokens + 2) :
            C!Begins(req[r].out, n) /\ req'[r].out = Append(req[r].out, C!Event(n + 1))
    BY <1>4 DEF Sends
  <2>2. C!Next
    BY <1>1, <1>2, <1>3, <1>4, <2>1, C!SendsNext DEF Sends, Over
  <2>. QED BY <2>2 DEF C!Next, Streams!Next, C!Emit, Streams!Emit, C!Error, Streams!Error,
                       C!Close, Streams!Close, C!IsPrefix, Streams!IsPrefix, C!Whole, Streams!Whole
<1>5. CASE Ends(req[r], req'[r])
  <2>1. C!Next
    BY <1>1, <1>2, <1>3, <1>5, C!EndsNext DEF Ends, Over
  <2>. QED BY <2>1 DEF C!Next, Streams!Next, C!Emit, Streams!Emit, C!Error, Streams!Error,
                       C!Close, Streams!Close, C!IsPrefix, Streams!IsPrefix, C!Whole, Streams!Whole
<1>6. CASE Unseen(req[r], req'[r])
  <2>1. UNCHANGED C!vars
    BY <1>1, <1>2, <1>3, <1>6, C!UnseenStep DEF Unseen, Over, C!OthersKept
  <2>. QED BY <2>1 DEF C!vars, Streams!vars
<1>. QED BY <1>4, <1>5, <1>6 DEF StreamStep

\* Every stream of the proxy is one that ChatStream allows: one error event, or the
\* role, the tokens, the finish reason and [DONE] in this order, cut off or not.
THEOREM ImplementsStreams == Spec => ImplementsChatStream
<1> DEFINE Inv == \A r \in Requests : StreamInv(req[r])
<1>1. Init => Streams!Init /\ Inv
  <2>1. SUFFICES ASSUME Init PROVE Streams!Init /\ Inv
    OBVIOUS
  <2>2. \A r \in Requests : req[r].pc = "idle" /\ req[r].out = <<>> /\ req[r].generated = 0
    BY <2>1 DEF Init
  <2>3. Inv
    BY <2>2, ProxyAssumption DEF StreamInv, Streaming
  <2>4. \A r \in Requests : (req[r].pc \in Ended \cup {"refused", "dropped"}) = FALSE
    BY <2>2 DEF Ended
  <2>5. Streams!Init
    BY <2>2, <2>4 DEF Streams!Init
  <2>. QED BY <2>3, <2>5
<1>2. IInv /\ IInv' /\ Inv /\ [Next]_vars => Inv' /\ [Streams!Next]_(Streams!vars)
  <2>1. SUFFICES ASSUME IInv, IInv', Inv, [Next]_vars
                 PROVE  Inv' /\ [Streams!Next]_(Streams!vars)
    OBVIOUS
  <2>2. CASE Next
    <3>1. PICK r \in Requests :
              (\E stream \in BOOLEAN : Arrive(r, stream)) \/ Handle(r) \/ Disconnect(r)
      BY <2>2 DEF Next
    <3>2. StreamStep(req[r], req'[r]) /\ \A x \in Requests \ {r} : req'[x] = req[x]
      BY <2>1, <3>1, StreamSteps
    <3>3. Inv'
      BY <2>1, <3>2 DEF StreamStep
    <3>4. [Streams!Next]_(Streams!vars)
      BY <2>1, <3>2, StreamStepRefines DEF IInv
    <3>. QED BY <3>3, <3>4
  <2>3. CASE UNCHANGED vars
    BY <2>1, <2>3 DEF vars, Streams!vars
  <2>. QED BY <2>1, <2>2, <2>3
<1>. QED BY <1>1, <1>2, Invariance, PTL DEF Spec, ImplementsChatStream, Streams!Spec

=============================================================================
