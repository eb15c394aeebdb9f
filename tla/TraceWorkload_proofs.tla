------------------------ MODULE TraceWorkload_proofs ------------------------
(***************************************************************************)
(* Theorems about the trace of storage operations, and about the FIO job   *)
(* that is made of it.                                                     *)
(*                                                                         *)
(* IInv is the inductive invariant of the recorder: what is counted has a  *)
(* line, less than a flush of lines is missing from the file, and of every *)
(* chunk as many puts are recorded as there are writes recorded, under way *)
(* or submitted to be.  Two more rest on it: DiskInv balances the files on *)
(* disk, those removed and those written again against all that were       *)
(* written, and ApartInv keeps the intervals of one thread's lines apart.  *)
(***************************************************************************)
EXTENDS TraceWorkload, FiniteSetTheorems, SequenceTheorems,
        WellFoundedInduction, TLAPS

-----------------------------------------------------------------------------
(* The invariant *)

KeyState == Keys \cup {Idle.key}

LineState ==
    [op : Ops, key : Keys, tid : Threads, dur : Int, mono : Int, hit : BOOLEAN]

ThreadState ==
    [pc : {"idle", "running", "recording", "stamped"}, op : Ops, key : KeyState,
     start : Int, dur : Int, mono : Int, hit : BOOLEAN]

RecorderState ==
    [state : {"none", "open", "closed", "dead"}, unflushed : Nat, lastFlush : Int,
     counters : [Ops -> Nat]]

TypeInv ==
    /\ recorder \in RecorderState
    /\ recorder.unflushed < FlushRecords
    /\ clock \in Int
    /\ buffer \in Seq(LineState)
    /\ file \in Seq(LineState)
    /\ thread \in [Threads -> ThreadState]
    /\ submitted \in [Keys -> Nat]

Busy == {t \in Threads : thread[t].pc # "idle"}

\* Finitely many operations are under way, on chunks, and none outlives the process.
BusyInv ==
    /\ IsFiniteSet(Busy)
    /\ \A t \in Busy : thread[t].key \in Keys
    /\ ~Alive => Busy = {}
    /\ recorder.state # "open" => buffer = <<>>

\* What is counted has a line, and what is not flushed is less than a flush.
CountInv ==
    /\ Alive => \A op \in Ops : recorder.counters[op] = Cardinality(LinesOf(Trace, op))
    /\ \A op \in Ops : recorder.counters[op] >= Cardinality(LinesOf(file, op))
    /\ IsFiniteSet(Lost)
    /\ Cardinality(Lost) <= recorder.unflushed

\* Threads that write a chunk, or whose put of it is recorded and not submitted.
Owing(k) ==
    {t \in Busy : /\ thread[t].key = k
                  /\ thread[t].op = "write" \/ (thread[t].op = "put" /\ thread[t].pc = "running")}

\* Of every chunk as many puts are recorded as there are writes recorded, under
\* way or submitted to be.
OrderInv ==
    /\ recorder.state = "open" =>
          \A k \in Keys :
              Cardinality(LinesAbout(Trace, "write", k)) + Cardinality(Owing(k)) + submitted[k]
                  <= Cardinality(LinesAbout(Trace, "put", k))
    /\ PutsPrecedeWrites

IInv == TypeInv /\ BusyInv /\ CountInv /\ OrderInv

-----------------------------------------------------------------------------
(* The lines of a trace *)

\* Lines of an operation, and those about a chunk, are numbers of lines.
LEMMA LinesFinite ==
    ASSUME NEW s \in Seq(LineState), NEW op, NEW k
    PROVE  /\ Len(s) \in Nat
           /\ LinesOf(s, op) \subseteq 1..Len(s)
           /\ LinesAbout(s, op, k) \subseteq 1..Len(s)
           /\ IsFiniteSet(LinesOf(s, op)) /\ IsFiniteSet(LinesAbout(s, op, k))
           /\ Cardinality(LinesOf(s, op)) \in Nat
           /\ Cardinality(LinesAbout(s, op, k)) \in Nat
<1>1. Len(s) \in Nat
  BY LenProperties
<1>2. IsFiniteSet(1..Len(s))
  BY <1>1, FS_Interval
<1>3. LinesOf(s, op) \subseteq 1..Len(s) /\ LinesAbout(s, op, k) \subseteq 1..Len(s)
  BY DEF LinesOf, LinesAbout
<1>4. IsFiniteSet(LinesOf(s, op)) /\ IsFiniteSet(LinesAbout(s, op, k))
  BY <1>2, <1>3, FS_Subset
<1>5. QED
  BY <1>1, <1>3, <1>4, FS_CardinalityType

\* One line more is counted where it belongs.
LEMMA LineAppended ==
    ASSUME NEW s \in Seq(LineState), NEW l \in LineState, NEW op
    PROVE  /\ LinesOf(Append(s, l), op) =
                  LinesOf(s, op) \cup (IF l.op = op THEN {Len(s) + 1} ELSE {})
           /\ Cardinality(LinesOf(Append(s, l), op)) =
                  Cardinality(LinesOf(s, op)) + (IF l.op = op THEN 1 ELSE 0)
<1> DEFINE z == Append(s, l)
<1>1. /\ Len(s) \in Nat /\ Len(z) = Len(s) + 1
      /\ \A i \in 1..Len(s) : z[i] = s[i]
      /\ z[Len(s) + 1] = l
  BY AppendProperties, LenProperties
<1>2. /\ LinesOf(s, op) \subseteq 1..Len(s) /\ IsFiniteSet(LinesOf(s, op))
      /\ Cardinality(LinesOf(s, op)) \in Nat
  BY LinesFinite
<1> HIDE DEF z
<1>3. LinesOf(z, op) = LinesOf(s, op) \cup (IF l.op = op THEN {Len(s) + 1} ELSE {})
  BY <1>1 DEF LinesOf
<1>4. CASE l.op = op
  <2>1. LinesOf(z, op) = LinesOf(s, op) \cup {Len(s) + 1} /\ Len(s) + 1 \notin LinesOf(s, op)
    BY <1>1, <1>2, <1>3, <1>4
  <2>2. Cardinality(LinesOf(z, op)) = Cardinality(LinesOf(s, op)) + 1
    BY <1>2, <2>1, FS_AddElement
  <2>3. QED
    BY <1>3, <1>4, <2>2 DEF z
<1>5. CASE l.op # op
  BY <1>2, <1>3, <1>5 DEF z
<1>6. QED
  BY <1>4, <1>5

LEMMA LineAboutAppended ==
    ASSUME NEW s \in Seq(LineState), NEW l \in LineState, NEW op, NEW k
    PROVE  /\ LinesAbout(Append(s, l), op, k) =
                  LinesAbout(s, op, k)
                    \cup (IF l.op = op /\ l.key = k THEN {Len(s) + 1} ELSE {})
           /\ Cardinality(LinesAbout(Append(s, l), op, k)) =
                  Cardinality(LinesAbout(s, op, k)) + (IF l.op = op /\ l.key = k THEN 1 ELSE 0)
<1> DEFINE z == Append(s, l)
<1>1. /\ Len(s) \in Nat /\ Len(z) = Len(s) + 1
      /\ \A i \in 1..Len(s) : z[i] = s[i]
      /\ z[Len(s) + 1] = l
  BY AppendProperties, LenProperties
<1>2. /\ LinesAbout(s, op, k) \subseteq 1..Len(s) /\ IsFiniteSet(LinesAbout(s, op, k))
      /\ Cardinality(LinesAbout(s, op, k)) \in Nat
  BY LinesFinite
<1> HIDE DEF z
<1>3. LinesAbout(z, op, k) =
          LinesAbout(s, op, k) \cup (IF l.op = op /\ l.key = k THEN {Len(s) + 1} ELSE {})
  BY <1>1 DEF LinesAbout, LinesOf
<1>4. CASE l.op = op /\ l.key = k
  <2>1. /\ LinesAbout(z, op, k) = LinesAbout(s, op, k) \cup {Len(s) + 1}
        /\ Len(s) + 1 \notin LinesAbout(s, op, k)
    BY <1>1, <1>2, <1>3, <1>4
  <2>2. Cardinality(LinesAbout(z, op, k)) = Cardinality(LinesAbout(s, op, k)) + 1
    BY <1>2, <2>1, FS_AddElement
  <2>3. QED
    BY <1>3, <1>4, <2>2 DEF z
<1>5. CASE ~(l.op = op /\ l.key = k)
  <2> DEFINE S == LinesAbout(s, op, k)
             Z == LinesAbout(z, op, k)
  <2>1. Z = S
    BY <1>3, <1>5
  <2> HIDE DEF S, Z
  <2>2. Cardinality(Z) = Cardinality(S) + 0 /\ Cardinality(S) \in Nat
    BY <1>2, <2>1 DEF S
  <2>3. QED
    BY <1>3, <1>5, <2>2 DEF z, S, Z
<1>6. QED
  BY <1>4, <1>5

\* Of a trace that shows its puts first, so does every beginning.
LEMMA OrderAppended ==
    ASSUME NEW s \in Seq(LineState), NEW l \in LineState, NEW k,
           \A n \in 0..Len(s) : Cardinality(LinesAbout(s, "write", k) \cap 1..n)
                                   <= Cardinality(LinesAbout(s, "put", k) \cap 1..n),
           l.op = "write" /\ l.key = k =>
               Cardinality(LinesAbout(s, "write", k)) < Cardinality(LinesAbout(s, "put", k))
    PROVE  \A n \in 0..Len(Append(s, l)) :
               Cardinality(LinesAbout(Append(s, l), "write", k) \cap 1..n)
                   <= Cardinality(LinesAbout(Append(s, l), "put", k) \cap 1..n)
<1> DEFINE z == Append(s, l)
           W == LinesAbout(s, "write", k)
           P == LinesAbout(s, "put", k)
<1>1. /\ Len(s) \in Nat /\ Len(z) = Len(s) + 1
      /\ W \subseteq 1..Len(s) /\ P \subseteq 1..Len(s)
  BY LinesFinite, AppendProperties
<1>2. /\ LinesAbout(z, "write", k) =
             W \cup (IF l.op = "write" /\ l.key = k THEN {Len(s) + 1} ELSE {})
      /\ LinesAbout(z, "put", k) =
             P \cup (IF l.op = "put" /\ l.key = k THEN {Len(s) + 1} ELSE {})
  BY LineAboutAppended
<1>3. /\ Cardinality(LinesAbout(z, "write", k)) =
             Cardinality(W) + (IF l.op = "write" /\ l.key = k THEN 1 ELSE 0)
      /\ Cardinality(LinesAbout(z, "put", k)) =
             Cardinality(P) + (IF l.op = "put" /\ l.key = k THEN 1 ELSE 0)
      /\ Cardinality(W) \in Nat /\ Cardinality(P) \in Nat
  BY LineAboutAppended, LinesFinite
<1>4. Cardinality(W) <= Cardinality(P)
  <2>1. W \cap 1..Len(s) = W /\ P \cap 1..Len(s) = P /\ Len(s) \in 0..Len(s)
    BY <1>1
  <2>2. QED
    BY <2>1
<1> HIDE DEF z, W, P
<1>5. ASSUME NEW n \in 0..Len(z)
      PROVE  Cardinality(LinesAbout(z, "write", k) \cap 1..n)
                 <= Cardinality(LinesAbout(z, "put", k) \cap 1..n)
  <2>1. CASE n \in 0..Len(s)
    <3>1. /\ LinesAbout(z, "write", k) \cap 1..n = W \cap 1..n
          /\ LinesAbout(z, "put", k) \cap 1..n = P \cap 1..n
      BY <1>1, <1>2, <2>1
    <3>2. QED
      BY <2>1, <3>1 DEF W, P
  <2>2. CASE n \notin 0..Len(s)
    <3>1. n = Len(s) + 1
      BY <1>1, <1>5, <2>2
    <3>2. LinesAbout(z, "write", k) \subseteq 1..n /\ LinesAbout(z, "put", k) \subseteq 1..n
      BY <1>1, <3>1 DEF LinesAbout, LinesOf
    <3>3. /\ LinesAbout(z, "write", k) \cap 1..n = LinesAbout(z, "write", k)
          /\ LinesAbout(z, "put", k) \cap 1..n = LinesAbout(z, "put", k)
      BY <3>2
    <3>4. Cardinality(LinesAbout(z, "write", k)) <= Cardinality(LinesAbout(z, "put", k))
      <4>1. CASE l.op = "write" /\ l.key = k
        <5>1. Cardinality(W) < Cardinality(P)
          BY <4>1 DEF W, P
        <5>2. QED
          BY <1>3, <4>1, <5>1
      <4>2. CASE ~(l.op = "write" /\ l.key = k)
        BY <1>3, <1>4, <4>2
      <4>3. QED
        BY <4>1, <4>2
    <3>5. QED
      BY <3>3, <3>4
  <2>3. QED
    BY <2>1, <2>2
<1>6. QED
  BY <1>5 DEF z

-----------------------------------------------------------------------------
(* The recorder *)

LEMMA Assumptions ==
    /\ FlushRecords \in Nat \ {0} /\ FlushTicks \in Nat \ {0}
    /\ {"put", "write", "remove"} \subseteq Ops
  BY RecorderAssumption

LEMMA TraceTyped ==
    ASSUME TypeInv
    PROVE  Trace \in Seq(LineState) /\ Len(Trace) \in Nat
<1>1. Trace \in Seq(LineState)
  BY ConcatProperties DEF TypeInv, Trace
<1>2. QED
  BY <1>1, LenProperties

LEMMA LineTyped ==
    ASSUME TypeInv, BusyInv, NEW t \in Threads, thread[t].pc # "idle"
    PROVE  Line(t) \in LineState /\ Line(t).op = thread[t].op /\ Line(t).key = thread[t].key
  BY DEF TypeInv, BusyInv, Busy, Line, LineState, ThreadState

\* A line that is written is the last of the trace, and is counted; either all
\* lines are in the file then or it is one more that is not flushed.
LEMMA WriteAppends ==
    ASSUME TypeInv, NEW line \in LineState, Write(line)
    PROVE  /\ Trace' = Append(Trace, line)
           /\ recorder' \in RecorderState /\ recorder'.unflushed < FlushRecords
           /\ recorder'.state = recorder.state
           /\ recorder'.counters = [recorder.counters EXCEPT ![line.op] = @ + 1]
           /\ buffer' \in Seq(LineState) /\ file' \in Seq(LineState)
           /\ \/ file' = Trace'
              \/ file' = file /\ recorder'.unflushed = recorder.unflushed + 1
<1>1. /\ recorder \in RecorderState /\ clock \in Int /\ line.op \in Ops
      /\ recorder.counters \in [Ops -> Nat] /\ recorder.unflushed \in Nat
      /\ buffer \in Seq(LineState) /\ file \in Seq(LineState) /\ Trace \in Seq(LineState)
      /\ FlushRecords \in Nat \ {0}
  BY TraceTyped, Assumptions DEF TypeInv, RecorderState, LineState
<1> DEFINE c == [recorder.counters EXCEPT ![line.op] = @ + 1]
<1>2. c \in [Ops -> Nat]
  BY <1>1
<1>3. CASE Due /\ file' = Trace \o <<line>> /\ buffer' = <<>>
           /\ recorder' = [Flushed EXCEPT !.counters[line.op] = @ + 1]
  <2>1. recorder' = [recorder EXCEPT !.unflushed = 0, !.lastFlush = clock, !.counters = c]
    BY <1>1, <1>3 DEF Flushed, RecorderState
  <2>2. file' = Append(Trace, line) /\ file' \in Seq(LineState)
    BY <1>1, <1>3
  <2>3. Trace' = file'
    <3>1. Trace' = file' \o <<>>
      BY <1>3 DEF Trace
    <3>2. QED
      BY <2>2, <3>1, ConcatEmptySeq
  <2>4. buffer' \in Seq(LineState)
    BY <1>3
  <2> HIDE DEF c
  <2>5. /\ recorder' \in RecorderState /\ recorder'.unflushed = 0
        /\ recorder'.state = recorder.state /\ recorder'.counters = c
    BY <1>1, <1>2, <2>1 DEF RecorderState
  <2>6. QED
    BY <1>1, <2>2, <2>3, <2>4, <2>5 DEF c
<1>4. CASE ~Due /\ buffer' = Append(buffer, line) /\ file' = file
           /\ recorder' = [recorder EXCEPT !.counters[line.op] = @ + 1, !.unflushed = @ + 1]
  <2> DEFINE n == recorder.unflushed + 1
  <2>1. recorder' = [recorder EXCEPT !.counters = c, !.unflushed = n] /\ n \in Nat
    BY <1>1, <1>4
  <2>2. buffer' \in Seq(LineState)
    BY <1>1, <1>4
  <2>3. Trace' = Append(Trace, line)
    <3>1. Trace' = file \o Append(buffer, line)
      BY <1>4 DEF Trace
    <3>2. Append(buffer, line) = buffer \o <<line>> /\ <<line>> \in Seq(LineState)
      BY <1>1
    <3>3. file \o (buffer \o <<line>>) = (file \o buffer) \o <<line>>
      BY <1>1, <3>2, ConcatAssociative
    <3>4. Append(Trace, line) = Trace \o <<line>>
      BY <1>1
    <3>5. QED
      BY <3>1, <3>2, <3>3, <3>4 DEF Trace
  <2>4. n < FlushRecords
    BY <1>1, <1>4 DEF Due
  <2> HIDE DEF c, n
  <2>5. /\ recorder' \in RecorderState /\ recorder'.unflushed = n
        /\ recorder'.state = recorder.state /\ recorder'.counters = c
    BY <1>1, <1>2, <2>1 DEF RecorderState
  <2>6. QED
    BY <1>1, <1>4, <2>2, <2>3, <2>4, <2>5 DEF c, n
<1>5. QED
  BY <1>3, <1>4 DEF Write

\* What leaves the recorder is idle, or a put that runs.
LEMMA LeavesTyped ==
    ASSUME TypeInv, NEW t \in Threads, Leaves(t)
    PROVE  /\ thread' \in [Threads -> ThreadState]
           /\ \A u \in Threads \ {t} : thread'[u] = thread[u]
           /\ thread[t].op = "put" => /\ thread'[t].pc = "running"
                                      /\ thread'[t].op = "put" /\ thread'[t].key = thread[t].key
           /\ thread[t].op # "put" => thread'[t].pc = "idle"
<1>1. thread \in [Threads -> ThreadState] /\ Idle \in ThreadState
  BY Assumptions DEF TypeInv, ThreadState, Idle, KeyState
<1> DEFINE z == IF thread[t].op \in RecordedFirst THEN [thread[t] EXCEPT !.pc = "running"] ELSE Idle
<1>2. thread' = [thread EXCEPT ![t] = z]
  BY DEF Leaves
<1>3. /\ z \in ThreadState
      /\ thread[t].op = "put" => z.pc = "running" /\ z.op = "put" /\ z.key = thread[t].key
      /\ thread[t].op # "put" => z.pc = "idle"
  BY <1>1 DEF RecordedFirst, ThreadState, Idle
<1> HIDE DEF z
<1>4. QED
  BY <1>1, <1>2, <1>3

LEMMA InitTyped == Init => TypeInv
<1> SUFFICES ASSUME Init PROVE TypeInv
  OBVIOUS
<1>1. Idle \in ThreadState
  BY Assumptions DEF ThreadState, Idle, KeyState
<1>2. recorder \in RecorderState /\ recorder.unflushed = 0
  BY DEF Init, NewRecorder, RecorderState
<1>3. QED
  BY <1>1, <1>2, Assumptions DEF Init, TypeInv

LEMMA NewTyped == NewRecorder \in RecorderState /\ NewRecorder.unflushed = 0
                  /\ NewRecorder.state = "open" /\ NewRecorder.counters = [op \in Ops |-> 0]
  BY DEF NewRecorder, RecorderState

\* A thread that begins.
LEMMA BeginTyped ==
    ASSUME TypeInv, NEW t \in Threads, NEW op \in Ops, NEW k \in Keys, Begin(t, op, k)
    PROVE  /\ thread' \in [Threads -> ThreadState] /\ submitted' \in [Keys -> Nat]
           /\ \A u \in Threads \ {t} : thread'[u] = thread[u]
           /\ thread'[t].pc = (IF op = "put" THEN "recording" ELSE "running")
           /\ thread'[t].op = op /\ thread'[t].key = k
           /\ \A j \in Keys \ {k} : submitted'[j] = submitted[j]
           /\ submitted'[k] = submitted[k] - (IF op = "write" THEN 1 ELSE 0)
<1>1. /\ thread \in [Threads -> ThreadState] /\ Idle \in ThreadState /\ clock \in Int
      /\ submitted \in [Keys -> Nat]
  BY Assumptions DEF TypeInv, ThreadState, Idle, KeyState
<1> DEFINE z == [Idle EXCEPT !.pc = IF op \in RecordedFirst THEN "recording" ELSE "running",
                             !.op = op, !.key = k, !.start = clock]
           n == submitted[k] - (IF op = "write" THEN 1 ELSE 0)
<1>2. thread' = [thread EXCEPT ![t] = z] /\ submitted' = [submitted EXCEPT ![k] = n]
  BY DEF Begin
<1>3. /\ z \in ThreadState /\ z.pc = (IF op = "put" THEN "recording" ELSE "running")
      /\ z.op = op /\ z.key = k
  BY <1>1 DEF RecordedFirst, ThreadState, Idle, KeyState
<1>4. n \in Nat
  BY <1>1 DEF Begin
<1> HIDE DEF z
<1>5. QED
  BY <1>1, <1>2, <1>3, <1>4

\* A thread whose original returns.
LEMMA ReturnTyped ==
    ASSUME TypeInv, NEW t \in Threads, thread[t].key \in Keys, Returns(t)
    PROVE  /\ thread' \in [Threads -> ThreadState] /\ submitted' \in [Keys -> Nat]
           /\ \A u \in Threads \ {t} : thread'[u] = thread[u]
           /\ thread[t].op = "put" => thread'[t].pc = "idle"
           /\ thread[t].op # "put" => /\ thread'[t].pc = "recording"
                                      /\ thread'[t].op = thread[t].op
                                      /\ thread'[t].key = thread[t].key
           /\ \A j \in Keys \ {thread[t].key} : submitted'[j] = submitted[j]
           /\ submitted'[thread[t].key] =
                  submitted[thread[t].key] + (IF thread[t].op = "put" THEN 1 ELSE 0)
<1> DEFINE o == thread[t]
<1>1. /\ thread \in [Threads -> ThreadState] /\ Idle \in ThreadState /\ clock \in Int
      /\ submitted \in [Keys -> Nat] /\ o \in ThreadState
  BY Assumptions DEF TypeInv, ThreadState, Idle, KeyState
<1> DEFINE h == (o.key \in disk)
           z == IF o.op \in RecordedFirst THEN Idle
                ELSE [o EXCEPT !.pc = "recording", !.dur = clock - o.start, !.hit = h]
           n == submitted[o.key] + (IF o.op = "put" THEN 1 ELSE 0)
<1>2. thread' = [thread EXCEPT ![t] = z] /\ submitted' = [submitted EXCEPT ![o.key] = n]
  BY DEF Returns
<1>3. h \in BOOLEAN /\ clock - o.start \in Int
  BY <1>1 DEF ThreadState
<1>4. /\ z \in ThreadState
      /\ o.op = "put" => z.pc = "idle"
      /\ o.op # "put" => z.pc = "recording" /\ z.op = o.op /\ z.key = o.key
  <2> HIDE DEF h
  <2> QED
    BY <1>1, <1>3 DEF RecordedFirst, ThreadState, Idle
<1>5. n \in Nat
  BY <1>1
<1> HIDE DEF z
<1>6. QED
  BY <1>1, <1>2, <1>4, <1>5

LEMMA StepTyped ==
    ASSUME TypeInv, BusyInv, Next
    PROVE  TypeInv'
<1>1. /\ recorder \in RecorderState /\ recorder.unflushed < FlushRecords /\ clock \in Int
      /\ buffer \in Seq(LineState) /\ file \in Seq(LineState)
      /\ thread \in [Threads -> ThreadState] /\ submitted \in [Keys -> Nat]
      /\ FlushRecords \in Nat \ {0} /\ Idle \in ThreadState
  BY Assumptions DEF TypeInv, Idle, ThreadState, KeyState
<1>2. CASE Open
  BY <1>1, <1>2, NewTyped DEF Open, TypeInv
<1>3. CASE Close
  <2>1. recorder' \in RecorderState /\ recorder'.unflushed = recorder.unflushed
    BY <1>1, <1>3 DEF Close, RecorderState
  <2>2. file' \in Seq(LineState)
    BY <1>3, TraceTyped DEF Close
  <2>3. QED
    BY <1>1, <1>3, <2>1, <2>2 DEF Close, TypeInv
<1>4. CASE Exit
  <2>1. recorder' \in RecorderState /\ recorder'.unflushed = recorder.unflushed
    BY <1>1, <1>4 DEF Exit, RecorderState
  <2>2. QED
    BY <1>1, <1>4, <2>1 DEF Exit, TypeInv
<1>5. CASE Tick
  BY <1>1, <1>5 DEF Tick, TypeInv
<1>6. ASSUME NEW t \in Threads, NEW op \in Ops, NEW k \in Keys, Begin(t, op, k)
      PROVE  TypeInv'
  BY <1>1, <1>6, BeginTyped DEF Begin, TypeInv
<1>7. ASSUME NEW t \in Threads, Returns(t)
      PROVE  TypeInv'
  <2>1. thread[t].key \in Keys
    BY <1>7 DEF Returns, BusyInv, Busy
  <2>2. QED
    BY <1>1, <1>7, <2>1, ReturnTyped DEF Returns, TypeInv
<1>8. ASSUME NEW t \in Threads, OpRaises(t)
      PROVE  TypeInv'
  BY <1>1, <1>8 DEF OpRaises, TypeInv
<1>9. ASSUME NEW t \in Threads, Stamp(t)
      PROVE  TypeInv'
  <2>1. CASE Leaves(t)
    BY <1>1, <1>9, <2>1, LeavesTyped DEF Stamp, TypeInv
  <2>2. CASE thread' = [thread EXCEPT ![t].pc = "stamped", ![t].mono = clock]
    <3>1. thread' = [thread EXCEPT ![t] = [thread[t] EXCEPT !.pc = "stamped", !.mono = clock]]
      BY <1>1, <2>2
    <3>2. [thread[t] EXCEPT !.pc = "stamped", !.mono = clock] \in ThreadState
      BY <1>1 DEF ThreadState
    <3>3. thread' \in [Threads -> ThreadState]
      BY <1>1, <3>1, <3>2
    <3>4. QED
      BY <1>1, <1>9, <3>3 DEF Stamp, TypeInv
  <2>3. QED
    BY <1>9, <2>1, <2>2 DEF Stamp
<1>10. ASSUME NEW t \in Threads, Record(t)
       PROVE  TypeInv'
  <2>1. /\ recorder' \in RecorderState /\ recorder'.unflushed < FlushRecords
        /\ buffer' \in Seq(LineState) /\ file' \in Seq(LineState)
    BY <1>1, <1>10, WriteAppends, LineTyped DEF Record
  <2>2. thread' \in [Threads -> ThreadState]
    BY <1>10, LeavesTyped DEF Record
  <2>3. QED
    BY <1>1, <1>10, <2>1, <2>2 DEF Record, TypeInv
<1>11. QED
  BY <1>2, <1>3, <1>4, <1>5, <1>6, <1>7, <1>8, <1>9, <1>10 DEF Next

-----------------------------------------------------------------------------
(* The operations under way *)

\* One thread moves: what is busy may lose or gain that one.
LEMMA OneMoves ==
    ASSUME TypeInv, BusyInv, NEW t \in Threads,
           \A u \in Threads \ {t} : thread'[u] = thread[u],
           thread'[t].pc # "idle" => thread'[t].key \in Keys
    PROVE  /\ IsFiniteSet(Busy') /\ \A u \in Busy' : thread'[u].key \in Keys
           /\ \A k \in Keys : Owing(k)' \subseteq Owing(k) \cup {t}
           /\ \A k \in Keys : Owing(k) \subseteq Owing(k)' \cup {t}
<1>1. Busy' \subseteq Busy \cup {t} /\ \A u \in Busy' \ {t} : u \in Busy /\ thread'[u] = thread[u]
  BY DEF Busy
<1>2. IsFiniteSet(Busy \cup {t})
  BY FS_AddElement DEF BusyInv
<1>3. IsFiniteSet(Busy')
  BY <1>1, <1>2, FS_Subset
<1>4. \A u \in Busy' : thread'[u].key \in Keys
  BY <1>1 DEF BusyInv, Busy
<1>5. \A u \in Busy \ {t} : u \in Busy' /\ thread'[u] = thread[u]
  BY DEF Busy
<1>6. QED
  BY <1>1, <1>3, <1>4, <1>5 DEF Owing

LEMMA StampCases ==
    ASSUME TypeInv, NEW t \in Threads, Stamp(t)
    PROVE  /\ \A u \in Threads \ {t} : thread'[u] = thread[u]
           /\ \/ recorder.state = "closed" /\ Leaves(t)
              \/ /\ recorder.state = "open" /\ thread'[t].pc = "stamped"
                 /\ thread'[t].op = thread[t].op /\ thread'[t].key = thread[t].key
<1>1. thread \in [Threads -> ThreadState]
  BY DEF TypeInv
<1>2. CASE recorder.state = "open" /\ thread' = [thread EXCEPT ![t].pc = "stamped", ![t].mono = clock]
  <2>1. thread' = [thread EXCEPT ![t] = [thread[t] EXCEPT !.pc = "stamped", !.mono = clock]]
    BY <1>1, <1>2
  <2>2. QED
    BY <1>1, <1>2, <2>1 DEF ThreadState
<1>3. CASE recorder.state = "closed" /\ Leaves(t)
  BY <1>3, LeavesTyped
<1>4. QED
  BY <1>2, <1>3 DEF Stamp

LEMMA BusyStep ==
    ASSUME TypeInv, BusyInv, Next
    PROVE  BusyInv'
<1>1. recorder \in RecorderState /\ thread \in [Threads -> ThreadState]
  BY DEF TypeInv
<1>2. ASSUME NEW t \in Threads, Alive, UNCHANGED <<recorder, buffer>>,
             \A u \in Threads \ {t} : thread'[u] = thread[u],
             thread'[t].pc # "idle" => thread'[t].key \in Keys
      PROVE  BusyInv'
  BY <1>2, OneMoves DEF BusyInv, Alive
<1>3. CASE Open
  <2>1. recorder'.state = "open" /\ Busy = {} /\ Busy' = {}
    BY <1>1, <1>3, NewTyped DEF Open, BusyInv, Alive, RecorderState, Busy
  <2>2. QED
    BY <2>1, FS_EmptySet DEF BusyInv, Alive
<1>4. CASE Close
  <2>1. recorder'.state = "closed" /\ UNCHANGED Busy /\ thread' = thread /\ buffer' = <<>>
    BY <1>1, <1>4 DEF Close, RecorderState, Busy
  <2>2. QED
    BY <2>1 DEF BusyInv, Alive
<1>5. CASE Exit
  <2>1. Busy' = {} /\ buffer' = <<>>
    BY <1>5 DEF Exit, Busy, Idle
  <2>2. QED
    BY <2>1, FS_EmptySet DEF BusyInv
<1>6. CASE Tick
  BY <1>6 DEF Tick, BusyInv, Busy, Alive
<1>7. ASSUME NEW t \in Threads, NEW op \in Ops, NEW k \in Keys, Begin(t, op, k)
      PROVE  BusyInv'
  <2>1. (\A u \in Threads \ {t} : thread'[u] = thread[u]) /\ thread'[t].key = k
    BY <1>7, BeginTyped
  <2>2. QED
    BY <1>2, <1>7, <2>1 DEF Begin
<1>8. ASSUME NEW t \in Threads, thread[t].pc # "idle"
      PROVE  Alive /\ thread[t].key \in Keys
  BY <1>8 DEF BusyInv, Busy
<1>9. ASSUME NEW t \in Threads, Returns(t)
      PROVE  BusyInv'
  <2>1. Alive /\ thread[t].key \in Keys
    BY <1>8, <1>9 DEF Returns
  <2>2. /\ \A u \in Threads \ {t} : thread'[u] = thread[u]
        /\ thread'[t].pc # "idle" => thread'[t].key \in Keys
    BY <1>9, <2>1, ReturnTyped
  <2>3. QED
    BY <1>2, <1>9, <2>1, <2>2 DEF Returns
<1>10. ASSUME NEW t \in Threads, OpRaises(t)
       PROVE  BusyInv'
  <2>1. Alive /\ (\A u \in Threads \ {t} : thread'[u] = thread[u]) /\ thread'[t].pc = "idle"
    BY <1>1, <1>8, <1>10 DEF OpRaises, Idle
  <2>2. QED
    BY <1>2, <1>10, <2>1 DEF OpRaises
<1>11. ASSUME NEW t \in Threads, Stamp(t)
       PROVE  BusyInv'
  <2>1. Alive /\ thread[t].key \in Keys
    BY <1>8, <1>11 DEF Stamp
  <2>2. /\ \A u \in Threads \ {t} : thread'[u] = thread[u]
        /\ thread'[t].pc # "idle" => thread'[t].key \in Keys
    BY <1>11, <2>1, StampCases, LeavesTyped
  <2>3. QED
    BY <1>2, <1>11, <2>1, <2>2 DEF Stamp
<1>12. ASSUME NEW t \in Threads, Record(t)
       PROVE  BusyInv'
  <2>1. Alive /\ thread[t].key \in Keys
    BY <1>8, <1>12 DEF Record
  <2>2. /\ \A u \in Threads \ {t} : thread'[u] = thread[u]
        /\ thread'[t].pc # "idle" => thread'[t].key \in Keys
    BY <1>12, <2>1, LeavesTyped DEF Record
  <2>3. CASE recorder.state = "open" /\ Write(Line(t))
    <3>1. recorder'.state = "open"
      BY <1>12, <2>3, LineTyped, WriteAppends DEF Record
    <3>2. QED
      BY <2>2, <3>1, OneMoves DEF BusyInv, Alive
  <2>4. CASE UNCHANGED <<recorder, buffer, file>>
    BY <1>2, <1>12, <2>1, <2>2, <2>4 DEF Record
  <2>5. QED
    BY <1>12, <2>3, <2>4 DEF Record
<1>13. QED
  BY <1>3, <1>4, <1>5, <1>6, <1>7, <1>9, <1>10, <1>11, <1>12 DEF Next

-----------------------------------------------------------------------------
(* What is counted *)

\* Where the file has all that is counted, nothing is lost.
LEMMA NothingLost ==
    ASSUME recorder'.unflushed \in Nat, recorder'.counters \in [Ops -> Nat],
           \A op \in Ops : recorder'.counters[op] = Cardinality(LinesOf(file', op))
    PROVE  Lost' = {} /\ IsFiniteSet(Lost') /\ Cardinality(Lost') <= recorder'.unflushed
<1>1. Lost' = {}
  <2>1. \A op \in Ops :
            (Cardinality(LinesOf(file', op)) + 1)..recorder'.counters[op] = {}
    OBVIOUS
  <2>2. QED
    BY <2>1 DEF Lost
<1>2. QED
  BY <1>1, FS_EmptySet

LEMMA AtMostOneMore ==
    ASSUME NEW S, NEW x, IsFiniteSet(S)
    PROVE  /\ IsFiniteSet(S \cup {x})
           /\ Cardinality(S \cup {x}) <= Cardinality(S) + 1
<1>1. Cardinality(S) \in Nat
  BY FS_CardinalityType
<1>2. CASE x \in S
  <2>1. IsFiniteSet(S \cup {x}) /\ Cardinality(S \cup {x}) = Cardinality(S)
    BY <1>2, FS_AddElement
  <2>2. QED
    BY <1>1, <2>1
<1>3. CASE x \notin S
  BY <1>1, <1>3, FS_AddElement
<1>4. QED
  BY <1>2, <1>3

\* A line that is counted and not flushed is one that may be lost.
LEMMA OneMoreLost ==
    ASSUME TypeInv, CountInv, NEW op \in Ops, file' = file,
           recorder'.unflushed = recorder.unflushed + 1,
           recorder'.counters = [recorder.counters EXCEPT ![op] = @ + 1]
    PROVE  IsFiniteSet(Lost') /\ Cardinality(Lost') <= recorder'.unflushed
<1> DEFINE n == recorder.counters[op] + 1
           x == <<op, n>>
<1>1. recorder.counters \in [Ops -> Nat] /\ recorder.unflushed \in Nat
  BY DEF TypeInv, RecorderState
<1>2. \A p \in Ops : recorder'.counters[p] = recorder.counters[p] + (IF p = op THEN 1 ELSE 0)
  BY <1>1
<1>3. \A p \in Ops : Cardinality(LinesOf(file, p)) \in Nat
  BY LinesFinite DEF TypeInv
<1>4. Lost' \subseteq Lost \cup {x}
  <2>1. SUFFICES ASSUME NEW p \in Ops,
                        NEW m \in (Cardinality(LinesOf(file, p)) + 1)..recorder'.counters[p]
                 PROVE  <<p, m>> \in Lost \cup {x}
    BY DEF Lost
  <2>2. m \in (Cardinality(LinesOf(file, p)) + 1)..recorder.counters[p] \/ (p = op /\ m = n)
    BY <1>1, <1>2, <1>3
  <2>3. QED
    BY <2>2 DEF Lost
<1> HIDE DEF x
<1>5. IsFiniteSet(Lost \cup {x}) /\ Cardinality(Lost \cup {x}) <= Cardinality(Lost) + 1
  BY AtMostOneMore DEF CountInv
<1>6. /\ IsFiniteSet(Lost') /\ Cardinality(Lost') <= Cardinality(Lost \cup {x})
      /\ Cardinality(Lost') \in Nat /\ Cardinality(Lost) \in Nat
      /\ Cardinality(Lost \cup {x}) \in Nat
  BY <1>4, <1>5, FS_Subset, FS_CardinalityType DEF CountInv
<1>7. QED
  BY <1>1, <1>5, <1>6 DEF CountInv

LEMMA CountStep ==
    ASSUME TypeInv, BusyInv, CountInv, Next
    PROVE  CountInv'
<1>1. /\ recorder \in RecorderState /\ recorder.counters \in [Ops -> Nat]
      /\ recorder.unflushed \in Nat
      /\ file \in Seq(LineState) /\ buffer \in Seq(LineState) /\ Trace \in Seq(LineState)
  BY TraceTyped DEF TypeInv, RecorderState
<1>2. CASE UNCHANGED <<recorder, file, buffer>>
  <2>1. UNCHANGED <<Lost, Trace>>
    BY <1>2 DEF Lost, Trace
  <2>2. QED
    BY <1>2, <2>1 DEF CountInv, Alive
<1>3. CASE Open
  <2>1. /\ recorder' = NewRecorder /\ file' = <<>> /\ buffer' = <<>> /\ Trace' = <<>> \o <<>>
    BY <1>3 DEF Open, Trace, BusyInv
  <2>2. Trace' = <<>>
    BY <2>1
  <2>3. \A op : LinesOf(<<>>, op) = {}
    BY DEF LinesOf
  <2>4. recorder'.counters = [op \in Ops |-> 0] /\ recorder'.unflushed = 0
    BY <2>1, NewTyped
  <2>5. \A op \in Ops : recorder'.counters[op] = Cardinality(LinesOf(file', op))
    BY <2>1, <2>3, <2>4, FS_EmptySet
  <2>6. QED
    BY <2>1, <2>2, <2>4, <2>5, NothingLost DEF CountInv
<1>4. CASE Close
  <2>1. /\ recorder' = [recorder EXCEPT !.state = "closed"] /\ recorder.state = "open"
        /\ file' = Trace /\ buffer' = <<>> /\ Trace' = Trace \o <<>>
    BY <1>4 DEF Close, Trace
  <2>2. Trace' = Trace
    BY <1>1, <2>1, ConcatEmptySeq
  <2>3. recorder'.counters = recorder.counters /\ recorder'.unflushed = recorder.unflushed
    BY <1>1, <2>1 DEF RecorderState
  <2>4. \A op \in Ops : recorder'.counters[op] = Cardinality(LinesOf(file', op))
    BY <2>1, <2>3 DEF CountInv, Alive
  <2>5. QED
    BY <1>1, <2>1, <2>2, <2>3, <2>4, NothingLost DEF CountInv
<1>5. CASE Exit
  <2>1. recorder'.state = "dead" /\ recorder'.counters = recorder.counters
        /\ recorder'.unflushed = recorder.unflushed /\ file' = file
    BY <1>1, <1>5 DEF Exit, RecorderState
  <2>2. Lost' = Lost
    BY <2>1 DEF Lost
  <2>3. QED
    BY <2>1, <2>2 DEF CountInv, Alive
<1>6. ASSUME NEW t \in Threads, Record(t), recorder.state = "open", Write(Line(t))
      PROVE  CountInv'
  <2> DEFINE line == Line(t)
  <2>1. line \in LineState /\ line.op \in Ops
    BY <1>6, LineTyped DEF Record, LineState
  <2>2. /\ Trace' = Append(Trace, line)
        /\ recorder'.state = "open"
        /\ recorder'.counters = [recorder.counters EXCEPT ![line.op] = @ + 1]
        /\ recorder' \in RecorderState
        /\ file' = Trace' \/ (file' = file /\ recorder'.unflushed = recorder.unflushed + 1)
    BY <1>6, <2>1, WriteAppends
  <2> HIDE DEF line
  <2>3. \A op \in Ops : recorder'.counters[op] = Cardinality(LinesOf(Trace', op))
    <3>1. ASSUME NEW op \in Ops
          PROVE  recorder'.counters[op] = Cardinality(LinesOf(Trace', op))
      <4>1. recorder'.counters[op] = recorder.counters[op] + (IF op = line.op THEN 1 ELSE 0)
        BY <1>1, <2>1, <2>2
      <4>2. Cardinality(LinesOf(Trace', op)) =
                Cardinality(LinesOf(Trace, op)) + (IF line.op = op THEN 1 ELSE 0)
        <5>1. \A l \in LineState :
                  Cardinality(LinesOf(Append(Trace, l), op)) =
                      Cardinality(LinesOf(Trace, op)) + (IF l.op = op THEN 1 ELSE 0)
          BY <1>1, LineAppended
        <5>2. QED
          BY <2>1, <2>2, <5>1
      <4>3. recorder.counters[op] = Cardinality(LinesOf(Trace, op))
        BY <1>6 DEF CountInv, Alive
      <4>4. QED
        BY <4>1, <4>2, <4>3
    <3>2. QED
      BY <3>1
  <2>4. CASE file' = Trace'
    <3>1. recorder'.unflushed \in Nat /\ recorder'.counters \in [Ops -> Nat]
      BY <2>2 DEF RecorderState
    <3>2. \A op \in Ops : recorder'.counters[op] = Cardinality(LinesOf(file', op))
      BY <2>3, <2>4
    <3>3. IsFiniteSet(Lost') /\ Cardinality(Lost') <= recorder'.unflushed
      BY <3>1, <3>2, NothingLost
    <3>4. \A op \in Ops : recorder'.counters[op] >= Cardinality(LinesOf(file', op))
      BY <3>1, <3>2
    <3>5. QED
      BY <2>3, <3>3, <3>4 DEF CountInv
  <2>5. CASE file' = file /\ recorder'.unflushed = recorder.unflushed + 1
    <3>1. IsFiniteSet(Lost') /\ Cardinality(Lost') <= recorder'.unflushed
      BY <2>1, <2>2, <2>5, OneMoreLost
    <3>2. \A op \in Ops : recorder'.counters[op] >= Cardinality(LinesOf(file', op))
      <4>1. \A op \in Ops : /\ recorder'.counters[op] >= recorder.counters[op]
                            /\ recorder'.counters[op] \in Nat /\ recorder.counters[op] \in Nat
        BY <1>1, <2>1, <2>2
      <4>2. \A op \in Ops : Cardinality(LinesOf(file, op)) \in Nat
        BY <1>1, LinesFinite
      <4>3. QED
        BY <2>5, <4>1, <4>2 DEF CountInv
    <3>3. QED
      BY <2>3, <3>1, <3>2 DEF CountInv
  <2>6. QED
    BY <2>2, <2>4, <2>5
<1>7. Next => \/ Open \/ Close \/ Exit \/ UNCHANGED <<recorder, file, buffer>>
              \/ \E t \in Threads : Record(t) /\ recorder.state = "open" /\ Write(Line(t))
  BY DEF Next, Tick, Begin, Returns, OpRaises, Stamp, Record
<1>8. QED
  BY <1>2, <1>3, <1>4, <1>5, <1>6, <1>7

-----------------------------------------------------------------------------
(* Puts and writes *)

\* A set that differs in one element, if at all.
LEMMA OneDiffers ==
    ASSUME NEW S, NEW T, NEW x, IsFiniteSet(S), S \ {x} = T \ {x}
    PROVE  /\ Cardinality(S) \in Nat /\ Cardinality(T) \in Nat
           /\ Cardinality(T) + (IF x \in S THEN 1 ELSE 0)
                  = Cardinality(S) + (IF x \in T THEN 1 ELSE 0)
<1> DEFINE R == S \ {x}
<1>1. IsFiniteSet(R) /\ Cardinality(R) \in Nat /\ Cardinality(S) \in Nat
  BY FS_Subset, FS_CardinalityType
<1>2. \A U : x \in U /\ U \ {x} = R => Cardinality(U) = Cardinality(R) + 1
  <2>1. SUFFICES ASSUME NEW U, x \in U, U \ {x} = R PROVE Cardinality(U) = Cardinality(R) + 1
    OBVIOUS
  <2>2. U = R \cup {x} /\ x \notin R
    BY <2>1
  <2> HIDE DEF R
  <2>3. Cardinality(R \cup {x}) = Cardinality(R) + 1
    BY <1>1, <2>2, FS_AddElement
  <2>4. QED
    BY <2>2, <2>3, Zenon
<1>3. \A U : x \notin U /\ U \ {x} = R => Cardinality(U) = Cardinality(R)
  <2>1. SUFFICES ASSUME NEW U, x \notin U, U \ {x} = R PROVE Cardinality(U) = Cardinality(R)
    OBVIOUS
  <2>2. U = R
    BY <2>1
  <2>3. QED
    BY <2>2, Zenon
<1>4. T \ {x} = R
  OBVIOUS
<1>5. Cardinality(S) = Cardinality(R) + (IF x \in S THEN 1 ELSE 0)
  BY <1>1, <1>2, <1>3
<1>6. Cardinality(T) = Cardinality(R) + (IF x \in T THEN 1 ELSE 0)
  BY <1>1, <1>2, <1>3, <1>4
<1> HIDE DEF R
<1>7. QED
  BY <1>1, <1>5, <1>6

LEMMA OwingDiffers ==
    ASSUME TypeInv, BusyInv, NEW t \in Threads,
           \A u \in Threads \ {t} : thread'[u] = thread[u],
           thread'[t].pc # "idle" => thread'[t].key \in Keys, NEW k \in Keys
    PROVE  /\ Cardinality(Owing(k)) \in Nat /\ Cardinality(Owing(k)') \in Nat
           /\ Cardinality(Owing(k)') + (IF t \in Owing(k) THEN 1 ELSE 0)
                  = Cardinality(Owing(k)) + (IF t \in Owing(k)' THEN 1 ELSE 0)
<1>1. IsFiniteSet(Owing(k))
  BY FS_Subset DEF BusyInv, Owing
<1>2. Owing(k) \ {t} = Owing(k)' \ {t}
  BY DEF Owing, Busy
<1> DEFINE T == Owing(k)'
<1>3. T = Owing(k)'
  OBVIOUS
<1> HIDE DEF T
<1>4. /\ Cardinality(Owing(k)) \in Nat /\ Cardinality(T) \in Nat
      /\ Cardinality(T) + (IF t \in Owing(k) THEN 1 ELSE 0)
             = Cardinality(Owing(k)) + (IF t \in T THEN 1 ELSE 0)
  BY <1>1, <1>2, <1>3, OneDiffers
<1>5. QED
  BY <1>3, <1>4

\* The beginning of a trace that a process leaves shows its puts first, too.
LEMMA FileOrdered ==
    ASSUME TypeInv, PutsPrecedeWrites, file' = file, buffer' = <<>>
    PROVE  PutsPrecedeWrites'
<1>1. /\ file \in Seq(LineState) /\ buffer \in Seq(LineState) /\ Trace \in Seq(LineState)
      /\ Len(file) \in Nat /\ Len(buffer) \in Nat /\ Len(Trace) \in Nat
      /\ Len(Trace) = Len(file) + Len(buffer)
      /\ \A i \in 1..Len(file) : Trace[i] = file[i]
  BY TraceTyped, LenProperties, ConcatProperties DEF TypeInv, Trace
<1>2. Trace' = file
  <2>1. Trace' = file \o <<>>
    BY DEF Trace
  <2>2. QED
    BY <1>1, <2>1, ConcatEmptySeq
<1>3. ASSUME NEW k \in Keys, NEW n \in 0..Len(file)
      PROVE  Cardinality(LinesAbout(file, "write", k) \cap 1..n)
                 <= Cardinality(LinesAbout(file, "put", k) \cap 1..n)
  <2>1. n \in 0..Len(Trace)
    BY <1>1
  <2>2. \A op : LinesAbout(file, op, k) \cap 1..n = LinesAbout(Trace, op, k) \cap 1..n
    BY <1>1 DEF LinesAbout, LinesOf
  <2> DEFINE W == LinesAbout(file, "write", k) \cap 1..n
             V == LinesAbout(Trace, "write", k) \cap 1..n
             P == LinesAbout(file, "put", k) \cap 1..n
             Q == LinesAbout(Trace, "put", k) \cap 1..n
  <2>3. W = V /\ P = Q
    BY <2>2
  <2>4. Cardinality(V) <= Cardinality(Q)
    BY <2>1 DEF PutsPrecedeWrites
  <2> HIDE DEF V, W, P, Q
  <2>5. Cardinality(W) <= Cardinality(P)
    BY <2>3, <2>4
  <2>6. QED
    BY <2>5 DEF W, P
<1>4. QED
  BY <1>2, <1>3 DEF PutsPrecedeWrites

LEMMA RecordOrdered ==
    ASSUME TypeInv, BusyInv, OrderInv, NEW t \in Threads, Record(t), recorder.state = "open",
           Write(Line(t))
    PROVE  OrderInv'
<1> DEFINE l == Line(t)
           c == thread[t].key
<1>1. /\ l \in LineState /\ l.op = thread[t].op /\ l.key = c /\ c \in Keys
      /\ Trace \in Seq(LineState) /\ Trace' = Append(Trace, l)
      /\ recorder'.state = "open" /\ t \in Busy /\ thread[t].pc = "stamped"
      /\ submitted \in [Keys -> Nat] /\ submitted' = submitted
  BY LineTyped, WriteAppends, TraceTyped DEF Record, BusyInv, Busy, TypeInv
<1>2. /\ \A u \in Threads \ {t} : thread'[u] = thread[u]
      /\ thread[t].op = "put" => /\ thread'[t].pc = "running"
                                 /\ thread'[t].op = "put" /\ thread'[t].key = c
      /\ thread[t].op # "put" => thread'[t].pc = "idle"
  BY LeavesTyped DEF Record
<1>3. thread'[t].pc # "idle" => thread'[t].key \in Keys
  BY <1>1, <1>2
<1>4. ASSUME NEW k \in Keys
      PROVE  /\ Cardinality(LinesAbout(Trace', "write", k)) + Cardinality(Owing(k)') + submitted'[k]
                    <= Cardinality(LinesAbout(Trace', "put", k))
             /\ l.op = "write" /\ l.key = k => Cardinality(LinesAbout(Trace, "write", k))
                                                   < Cardinality(LinesAbout(Trace, "put", k))
  <2> DEFINE w == Cardinality(LinesAbout(Trace, "write", k))
             p == Cardinality(LinesAbout(Trace, "put", k))
             o == Cardinality(Owing(k))
  <2>1. /\ w \in Nat /\ p \in Nat /\ submitted[k] \in Nat
        /\ w + o + submitted[k] <= p
    BY <1>1, LinesFinite DEF OrderInv
  <2>2. /\ o \in Nat /\ Cardinality(Owing(k)') \in Nat
        /\ Cardinality(Owing(k)') + (IF t \in Owing(k) THEN 1 ELSE 0)
               = o + (IF t \in Owing(k)' THEN 1 ELSE 0)
    BY <1>2, <1>3, OwingDiffers
  <2>3. /\ Cardinality(LinesAbout(Trace', "write", k)) =
               w + (IF l.op = "write" /\ l.key = k THEN 1 ELSE 0)
        /\ Cardinality(LinesAbout(Trace', "put", k)) =
               p + (IF l.op = "put" /\ l.key = k THEN 1 ELSE 0)
    BY <1>1, LineAboutAppended
  <2>4. /\ t \in Owing(k) <=> c = k /\ l.op = "write"
        /\ t \in Owing(k)' <=> c = k /\ l.op = "put"
    BY <1>1, <1>2 DEF Owing, Busy
  <2>5. t \in Owing(k) => o >= 1
    <3>1. IsFiniteSet(Owing(k))
      BY FS_Subset DEF BusyInv, Owing
    <3>2. QED
      BY <2>2, <3>1, FS_EmptySet
  <2> HIDE DEF w, p, o, l, c
  <2>6. CASE c = k /\ l.op = "write"
    BY <1>1, <2>1, <2>2, <2>3, <2>4, <2>5, <2>6 DEF w, p, c
  <2>7. CASE c = k /\ l.op = "put"
    BY <1>1, <2>1, <2>2, <2>3, <2>4, <2>7 DEF w, p, c
  <2>8. CASE c # k \/ l.op \notin {"put", "write"}
    BY <1>1, <2>1, <2>2, <2>3, <2>4, <2>8 DEF w, p, c
  <2>9. QED
    BY <2>6, <2>7, <2>8
<1>5. PutsPrecedeWrites'
  <2>1. ASSUME NEW k \in Keys
        PROVE  \A n \in 0..Len(Trace') :
                   Cardinality(LinesAbout(Trace', "write", k) \cap 1..n)
                       <= Cardinality(LinesAbout(Trace', "put", k) \cap 1..n)
    <3>1. \A n \in 0..Len(Trace) : Cardinality(LinesAbout(Trace, "write", k) \cap 1..n)
                                       <= Cardinality(LinesAbout(Trace, "put", k) \cap 1..n)
      BY DEF OrderInv, PutsPrecedeWrites
    <3> HIDE DEF l
    <3>2. QED
      BY <1>1, <1>4, <3>1, OrderAppended
  <2>2. QED
    BY <2>1 DEF PutsPrecedeWrites
<1>6. QED
  BY <1>4, <1>5 DEF OrderInv

\* A thread that moves without a line keeps the balance, if what is submitted
\* makes up for it.
LEMMA MoveOrdered ==
    ASSUME TypeInv, BusyInv, OrderInv, NEW t \in Threads, UNCHANGED <<recorder, file, buffer>>,
           \A u \in Threads \ {t} : thread'[u] = thread[u],
           thread'[t].pc # "idle" => thread'[t].key \in Keys,
           submitted' \in [Keys -> Nat],
           recorder.state = "open" =>
               \A k \in Keys : submitted'[k] + (IF t \in Owing(k)' THEN 1 ELSE 0)
                                   <= submitted[k] + (IF t \in Owing(k) THEN 1 ELSE 0)
    PROVE  OrderInv'
<1>1. Trace' = Trace /\ Trace \in Seq(LineState) /\ submitted \in [Keys -> Nat]
  BY TraceTyped DEF Trace, TypeInv
<1>2. PutsPrecedeWrites'
  BY <1>1 DEF OrderInv, PutsPrecedeWrites
<1>3. ASSUME recorder.state = "open", NEW k \in Keys
      PROVE  Cardinality(LinesAbout(Trace, "write", k)) + Cardinality(Owing(k)') + submitted'[k]
                 <= Cardinality(LinesAbout(Trace, "put", k))
  <2> DEFINE w == Cardinality(LinesAbout(Trace, "write", k))
             p == Cardinality(LinesAbout(Trace, "put", k))
             o == Cardinality(Owing(k))
             a == IF t \in Owing(k) THEN 1 ELSE 0
             b == IF t \in Owing(k)' THEN 1 ELSE 0
             q == Cardinality(Owing(k)')
  <2>1. w \in Nat /\ p \in Nat /\ w + o + submitted[k] <= p
    BY <1>1, <1>3, LinesFinite DEF OrderInv
  <2>2. o \in Nat /\ q \in Nat /\ q + a = o + b /\ a \in Nat /\ b \in Nat
    BY OwingDiffers
  <2>3. submitted'[k] + b <= submitted[k] + a
    BY <1>3
  <2>4. submitted[k] \in Nat /\ submitted'[k] \in Nat
    BY <1>1
  <2> HIDE DEF w, p, o, a, b, q
  <2>5. w + q + submitted'[k] <= p
    BY <2>1, <2>2, <2>3, <2>4
  <2>6. QED
    BY <2>5 DEF w, p, q
<1>4. QED
  BY <1>1, <1>2, <1>3 DEF OrderInv

LEMMA OrderStep ==
    ASSUME TypeInv, BusyInv, OrderInv, Next
    PROVE  OrderInv'
<1>1. /\ recorder \in RecorderState /\ thread \in [Threads -> ThreadState]
      /\ Trace \in Seq(LineState) /\ submitted \in [Keys -> Nat]
  BY TraceTyped DEF TypeInv
<1>2. ASSUME NEW t \in Threads, thread[t].pc # "idle"
      PROVE  t \in Busy /\ thread[t].key \in Keys
  BY <1>2 DEF BusyInv, Busy
<1>3. CASE Open
  <2>1. /\ recorder'.state = "open" /\ Trace' = <<>> \o <<>> /\ thread' = thread
        /\ submitted' = [k \in Keys |-> 0] /\ Busy = {}
    BY <1>1, <1>3, NewTyped DEF Open, Trace, BusyInv, Alive, RecorderState
  <2>2. Trace' = <<>>
    BY <2>1
  <2>3. \A op, k : LinesAbout(<<>>, op, k) = {}
    BY DEF LinesAbout, LinesOf
  <2>4. \A op, k, n : LinesAbout(<<>>, op, k) \cap 1..n = {}
    BY <2>3
  <2>5. \A k : Owing(k)' = {}
    BY <2>1 DEF Owing, Busy
  <2>6. \A k \in Keys : Cardinality(LinesAbout(Trace', "write", k)) + Cardinality(Owing(k)')
                            + submitted'[k] <= Cardinality(LinesAbout(Trace', "put", k))
    <3>1. ASSUME NEW k \in Keys
          PROVE  /\ Cardinality(LinesAbout(Trace', "write", k)) = 0
                 /\ Cardinality(LinesAbout(Trace', "put", k)) = 0
                 /\ Cardinality(Owing(k)') = 0 /\ submitted'[k] = 0
      BY <2>1, <2>2, <2>3, <2>5, FS_EmptySet
    <3>2. QED
      BY <3>1
  <2>7. PutsPrecedeWrites'
    BY <2>2, <2>4, FS_EmptySet DEF PutsPrecedeWrites
  <2>8. QED
    BY <2>6, <2>7 DEF OrderInv
<1>4. CASE Close
  <2>1. Trace' = Trace \o <<>> /\ recorder'.state = "closed"
    BY <1>1, <1>4 DEF Close, Trace, RecorderState
  <2>2. Trace' = Trace
    BY <1>1, <2>1, ConcatEmptySeq
  <2>3. QED
    BY <2>1, <2>2 DEF OrderInv, PutsPrecedeWrites
<1>5. CASE Exit
  <2>1. recorder'.state = "dead"
    BY <1>1, <1>5 DEF Exit, RecorderState
  <2>2. PutsPrecedeWrites'
    BY <1>5, FileOrdered DEF Exit, OrderInv
  <2>3. QED
    BY <2>1, <2>2 DEF OrderInv
<1>6. CASE Tick
  <2>1. Trace' = Trace /\ UNCHANGED <<recorder, submitted, thread>>
    BY <1>6 DEF Tick, Trace
  <2>2. \A k : Owing(k)' = Owing(k)
    BY <2>1 DEF Owing, Busy
  <2>3. QED
    BY <2>1, <2>2 DEF OrderInv, PutsPrecedeWrites
<1>7. ASSUME NEW t \in Threads, NEW op \in Ops, NEW c \in Keys, Begin(t, op, c)
      PROVE  OrderInv'
  <2>1. /\ submitted' \in [Keys -> Nat]
        /\ \A u \in Threads \ {t} : thread'[u] = thread[u]
        /\ thread'[t].pc = (IF op = "put" THEN "recording" ELSE "running")
        /\ thread'[t].op = op /\ thread'[t].key = c
        /\ \A j \in Keys \ {c} : submitted'[j] = submitted[j]
        /\ submitted'[c] = submitted[c] - (IF op = "write" THEN 1 ELSE 0)
    BY <1>7, BeginTyped
  <2>2. ASSUME NEW k \in Keys
        PROVE  submitted'[k] + (IF t \in Owing(k)' THEN 1 ELSE 0)
                   <= submitted[k] + (IF t \in Owing(k) THEN 1 ELSE 0)
    <3>1. t \notin Owing(k) /\ (t \in Owing(k)' <=> k = c /\ op = "write")
      BY <1>7, <2>1 DEF Begin, Owing, Busy
    <3>2. submitted[k] \in Nat /\ submitted'[k] \in Nat
      BY <1>1, <2>1
    <3>3. submitted'[k] = submitted[k] - (IF k = c /\ op = "write" THEN 1 ELSE 0)
      BY <2>1, <3>2
    <3>4. QED
      BY <3>1, <3>2, <3>3
  <2>3. QED
    BY <1>7, <2>1, <2>2, MoveOrdered DEF Begin
<1>8. ASSUME NEW t \in Threads, Returns(t)
      PROVE  OrderInv'
  <2> DEFINE c == thread[t].key
  <2>1. t \in Busy /\ c \in Keys /\ thread[t].pc = "running"
    BY <1>2, <1>8 DEF Returns
  <2>2. /\ submitted' \in [Keys -> Nat]
        /\ \A u \in Threads \ {t} : thread'[u] = thread[u]
        /\ thread[t].op = "put" => thread'[t].pc = "idle"
        /\ thread[t].op # "put" => /\ thread'[t].pc = "recording"
                                   /\ thread'[t].op = thread[t].op
                                   /\ thread'[t].key = c
        /\ \A j \in Keys \ {c} : submitted'[j] = submitted[j]
        /\ submitted'[c] = submitted[c] + (IF thread[t].op = "put" THEN 1 ELSE 0)
    BY <1>8, <2>1, ReturnTyped
  <2>3. ASSUME NEW k \in Keys
        PROVE  submitted'[k] + (IF t \in Owing(k)' THEN 1 ELSE 0)
                   <= submitted[k] + (IF t \in Owing(k) THEN 1 ELSE 0)
    <3>1. /\ t \in Owing(k) <=> k = c /\ thread[t].op \in {"write", "put"}
          /\ t \in Owing(k)' <=> k = c /\ thread[t].op = "write"
      BY <2>1, <2>2 DEF Owing, Busy
    <3>2. submitted[k] \in Nat /\ submitted'[k] \in Nat
      BY <1>1, <2>2
    <3> HIDE DEF c
    <3>3. submitted'[k] = submitted[k] + (IF k = c /\ thread[t].op = "put" THEN 1 ELSE 0)
      BY <2>2, <3>2 DEF c
    <3>4. QED
      BY <3>1, <3>2, <3>3
  <2>4. QED
    BY <1>8, <2>1, <2>2, <2>3, MoveOrdered DEF Returns
<1>9. ASSUME NEW t \in Threads, thread[t].pc # "idle",
             UNCHANGED <<recorder, file, buffer, submitted>>,
             \A u \in Threads \ {t} : thread'[u] = thread[u],
             \/ recorder.state # "open"
             \/ thread'[t].pc = "idle"
             \/ /\ thread[t].pc = "recording" /\ thread'[t].pc = "stamped"
                /\ thread'[t].op = thread[t].op /\ thread'[t].key = thread[t].key,
             thread'[t].pc # "idle" => thread'[t].key \in Keys
      PROVE  OrderInv'
  <2>1. \A k \in Keys : recorder.state = "open" /\ t \in Owing(k)' => t \in Owing(k)
    BY <1>9, <1>2 DEF Owing, Busy
  <2>2. recorder.state = "open" =>
            \A k \in Keys : submitted'[k] + (IF t \in Owing(k)' THEN 1 ELSE 0)
                                <= submitted[k] + (IF t \in Owing(k) THEN 1 ELSE 0)
    BY <1>1, <1>9, <2>1
  <2>3. QED
    BY <1>1, <1>9, <2>2, MoveOrdered
<1>10. ASSUME NEW t \in Threads, OpRaises(t)
       PROVE  OrderInv'
  <2>1. thread'[t].pc = "idle" /\ \A u \in Threads \ {t} : thread'[u] = thread[u]
    BY <1>1, <1>10 DEF OpRaises, Idle
  <2>2. QED
    BY <1>9, <1>10, <2>1 DEF OpRaises
<1>11. ASSUME NEW t \in Threads, Leaves(t), thread[t].pc # "idle", recorder.state = "closed",
              UNCHANGED <<recorder, file, buffer, submitted>>
       PROVE  OrderInv'
  <2>1. /\ \A u \in Threads \ {t} : thread'[u] = thread[u]
        /\ thread'[t].pc # "idle" => thread'[t].key \in Keys
    BY <1>2, <1>11, LeavesTyped
  <2>2. QED
    BY <1>9, <1>11, <2>1
<1>12. ASSUME NEW t \in Threads, Stamp(t)
       PROVE  OrderInv'
  <2>1. CASE recorder.state = "closed" /\ Leaves(t)
    BY <1>11, <1>12, <2>1 DEF Stamp
  <2>2. CASE ~(recorder.state = "closed" /\ Leaves(t))
    <3>1. /\ \A u \in Threads \ {t} : thread'[u] = thread[u]
          /\ thread'[t].pc = "stamped" /\ thread[t].pc = "recording"
          /\ thread'[t].op = thread[t].op /\ thread'[t].key = thread[t].key
      BY <1>12, <2>2, StampCases DEF Stamp
    <3>2. QED
      BY <1>2, <1>9, <1>12, <3>1 DEF Stamp
  <2>3. QED
    BY <2>1, <2>2
<1>13. ASSUME NEW t \in Threads, Record(t)
       PROVE  OrderInv'
  <2>1. CASE recorder.state = "open" /\ Write(Line(t))
    BY <1>13, <2>1, RecordOrdered
  <2>2. CASE recorder.state = "closed" /\ UNCHANGED <<recorder, buffer, file>>
    BY <1>11, <1>13, <2>2 DEF Record
  <2>3. QED
    BY <1>13, <2>1, <2>2 DEF Record
<1>14. QED
  BY <1>3, <1>4, <1>5, <1>6, <1>7, <1>8, <1>10, <1>12, <1>13 DEF Next

-----------------------------------------------------------------------------
(* The theorems *)

LEMMA InitEstablishes == Init => IInv
<1> SUFFICES ASSUME Init PROVE IInv
  OBVIOUS
<1>1. /\ Trace = <<>> \o <<>> /\ file = <<>> /\ buffer = <<>> /\ Busy = {}
      /\ recorder.state = "none" /\ recorder.unflushed = 0
      /\ recorder.counters = [op \in Ops |-> 0]
  BY DEF Init, Trace, Busy, Idle, NewRecorder
<1>2. Trace = <<>>
  BY <1>1
<1>3. \A op, k : LinesAbout(<<>>, op, k) = {} /\ LinesOf(<<>>, op) = {}
  BY DEF LinesAbout, LinesOf
<1>4. BusyInv
  BY <1>1, FS_EmptySet DEF BusyInv
<1>5. Lost = {}
  <2>1. \A op \in Ops : recorder.counters[op] = 0 /\ Cardinality(LinesOf(file, op)) = 0
    BY <1>1, <1>3, FS_EmptySet
  <2>2. \A op \in Ops : (Cardinality(LinesOf(file, op)) + 1)..recorder.counters[op] = {}
    BY <2>1
  <2>3. QED
    BY <2>2 DEF Lost
<1>6. CountInv
  BY <1>1, <1>3, <1>5, FS_EmptySet DEF CountInv, Alive
<1>7. \A op, k, n : LinesAbout(<<>>, op, k) \cap 1..n = {}
  BY <1>3
<1>8. PutsPrecedeWrites
  BY <1>2, <1>7, FS_EmptySet DEF PutsPrecedeWrites
<1>9. QED
  BY <1>1, <1>4, <1>6, <1>8, InitTyped DEF IInv, OrderInv

LEMMA Invariance == Spec => []IInv
<1>1. IInv /\ UNCHANGED vars => IInv'
  <2>1. SUFFICES ASSUME IInv, UNCHANGED vars PROVE IInv'
    OBVIOUS
  <2>2. UNCHANGED <<recorder, clock, buffer, file, thread, submitted, Trace, Busy, Lost>>
    BY <2>1 DEF vars, Trace, Busy, Lost
  <2>3. \A k : Owing(k)' = Owing(k)
    BY <2>2 DEF Owing
  <2>4. TypeInv' /\ BusyInv' /\ CountInv'
    BY <2>1, <2>2 DEF IInv, TypeInv, BusyInv, CountInv, Alive
  <2>5. OrderInv'
    BY <2>1, <2>2, <2>3 DEF IInv, OrderInv, PutsPrecedeWrites
  <2>6. QED
    BY <2>4, <2>5 DEF IInv
<1>2. IInv /\ [Next]_vars => IInv'
  BY <1>1, StepTyped, BusyStep, CountStep, OrderStep DEF IInv
<1>3. QED
  BY <1>2, InitEstablishes, PTL DEF Spec

\* The counters are the lines of the trace (recorder.py:108-123): whatever threads
\* record at once, a closed trace has all that was counted, and of one that is cut
\* off by a kill less than one flush is missing.
THEOREM CountersAreLines == Spec => []LinesAreCounted
<1>1. IInv => LinesAreCounted
  <2>1. SUFFICES ASSUME IInv PROVE LinesAreCounted
    OBVIOUS
  <2>2. Cardinality(Lost) < FlushRecords
    <3>1. Cardinality(Lost) \in Nat /\ recorder.unflushed \in Nat /\ FlushRecords \in Nat
      BY <2>1, FS_CardinalityType, Assumptions DEF IInv, TypeInv, CountInv, RecorderState
    <3>2. QED
      BY <2>1, <3>1 DEF IInv, TypeInv, CountInv
  <2>3. QED
    BY <2>1, <2>2 DEF IInv, CountInv, BusyInv, LinesAreCounted
<1>2. QED
  BY <1>1, Invariance, PTL

\* A chunk is never shown written more often than it was put (recorder.py:207-216),
\* for any number of threads, in whatever order they get the lock and wherever the
\* trace is closed or cut off: a put is recorded before it is submitted.
THEOREM PutsComeFirst == Spec => []PutsPrecedeWrites
  BY Invariance, PTL DEF IInv, OrderInv

-----------------------------------------------------------------------------
(* The files of the disk *)

\* Threads whose operation has returned and is not recorded, and of those the
\* ones that found a file of their chunk.
Returned(op) == {t \in Busy : thread[t].op = op /\ thread[t].pc # "running"}

Finders(op) == {t \in Returned(op) : thread[t].hit}

\* Operations that found a file, recorded or not.
Finds(op) == Cardinality(Found(Trace, op)) + Cardinality(Finders(op))

Made == Cardinality(LinesOf(Trace, "write")) + Cardinality(Returned("write"))

\* Every write made a file or found one, and every file that was made is there or
\* was found by a removal.
DiskInv ==
    /\ IsFiniteSet(disk)
    /\ recorder.state = "open" =>
          Cardinality(disk) + Finds("remove") + Finds("write") = Made

\* One find more is counted where it belongs.
LEMMA FindAppended ==
    ASSUME NEW s \in Seq(LineState), NEW l \in LineState, NEW op
    PROVE  /\ IsFiniteSet(Found(s, op)) /\ Cardinality(Found(s, op)) \in Nat
           /\ Cardinality(Found(Append(s, l), op)) =
                  Cardinality(Found(s, op)) + (IF l.op = op /\ l.hit THEN 1 ELSE 0)
<1> DEFINE z == Append(s, l)
           R == Found(s, op)
           Z == Found(z, op)
           n == Len(s) + 1
<1>1. /\ Len(s) \in Nat /\ Len(z) = n /\ z[n] = l
      /\ \A i \in 1..Len(s) : z[i] = s[i]
  BY AppendProperties, LenProperties
<1>2. R \subseteq LinesOf(s, op) /\ IsFiniteSet(LinesOf(s, op))
      /\ LinesOf(s, op) \subseteq 1..Len(s)
  BY LinesFinite DEF Found
<1>3. IsFiniteSet(R) /\ Cardinality(R) \in Nat
  BY <1>2, FS_Subset, FS_CardinalityType
<1>4. \A i : i \in Z <=> i \in R \/ (i = n /\ l.op = op /\ l.hit)
  <2> HIDE DEF z
  <2>1. QED
    BY <1>1 DEF Found, LinesOf
<1>5. n \notin R
  BY <1>1, <1>2
<1> HIDE DEF z, R, Z, n
<1>6. CASE l.op = op /\ l.hit
  <2>1. Z = R \cup {n}
    BY <1>4, <1>6
  <2>2. Cardinality(R \cup {n}) = Cardinality(R) + 1
    BY <1>3, <1>5, FS_AddElement
  <2>3. Cardinality(Z) = Cardinality(R) + 1
    BY <2>1, <2>2, Zenon
  <2>4. QED
    BY <1>3, <1>6, <2>3 DEF R, Z, z
<1>7. CASE ~(l.op = op /\ l.hit)
  <2>1. Z = R
    BY <1>4, <1>7
  <2>2. Cardinality(Z) = Cardinality(R)
    BY <2>1, Zenon
  <2>3. QED
    BY <1>3, <1>7, <2>2 DEF R, Z, z
<1>8. QED
  BY <1>6, <1>7

\* One thread moves: each of the sets may lose or gain that one.
LEMMA ReturnedDiffer ==
    ASSUME TypeInv, BusyInv, NEW t \in Threads,
           \A u \in Threads \ {t} : thread'[u] = thread[u], NEW op
    PROVE  /\ Cardinality(Returned(op)) \in Nat /\ Cardinality(Returned(op)') \in Nat
           /\ Cardinality(Returned(op)') + (IF t \in Returned(op) THEN 1 ELSE 0)
                  = Cardinality(Returned(op)) + (IF t \in Returned(op)' THEN 1 ELSE 0)
<1> DEFINE S == Returned(op)
           T == Returned(op)'
<1>1. S \ {t} = T \ {t}
  BY DEF Returned, Busy
<1>2. IsFiniteSet(S)
  BY FS_Subset DEF BusyInv, Returned
<1> HIDE DEF S, T
<1>3. /\ Cardinality(S) \in Nat /\ Cardinality(T) \in Nat
      /\ Cardinality(T) + (IF t \in S THEN 1 ELSE 0)
             = Cardinality(S) + (IF t \in T THEN 1 ELSE 0)
  BY <1>1, <1>2, OneDiffers
<1>4. QED
  BY <1>3 DEF S, T

LEMMA FindersDiffer ==
    ASSUME TypeInv, BusyInv, NEW t \in Threads,
           \A u \in Threads \ {t} : thread'[u] = thread[u], NEW op
    PROVE  /\ Cardinality(Finders(op)) \in Nat /\ Cardinality(Finders(op)') \in Nat
           /\ Cardinality(Finders(op)') + (IF t \in Finders(op) THEN 1 ELSE 0)
                  = Cardinality(Finders(op)) + (IF t \in Finders(op)' THEN 1 ELSE 0)
<1> DEFINE S == Finders(op)
           T == Finders(op)'
<1>1. S \ {t} = T \ {t}
  BY DEF Finders, Returned, Busy
<1>2. IsFiniteSet(S)
  BY FS_Subset DEF BusyInv, Finders, Returned
<1> HIDE DEF S, T
<1>3. /\ Cardinality(S) \in Nat /\ Cardinality(T) \in Nat
      /\ Cardinality(T) + (IF t \in S THEN 1 ELSE 0)
             = Cardinality(S) + (IF t \in T THEN 1 ELSE 0)
  BY <1>1, <1>2, OneDiffers
<1>4. QED
  BY <1>3 DEF S, T

\* What an operation found when it returned, and is the same when it gets its time.
LEMMA ReturnHit ==
    ASSUME TypeInv, NEW t \in Threads, Returns(t), thread[t].op # "put"
    PROVE  thread'[t].hit = (thread[t].key \in disk)
<1> DEFINE z == [thread[t] EXCEPT !.pc = "recording", !.dur = clock - thread[t].start,
                    !.hit = thread[t].key \in disk]
<1>1. thread' = [thread EXCEPT ![t] = z]
  BY DEF Returns, RecordedFirst
<1>2. thread \in [Threads -> ThreadState]
  BY DEF TypeInv
<1>3. z.hit = (thread[t].key \in disk)
  BY <1>2 DEF ThreadState
<1> HIDE DEF z
<1>4. QED
  BY <1>1, <1>2, <1>3

LEMMA StampHit ==
    ASSUME TypeInv, NEW t \in Threads, Stamp(t), recorder.state = "open"
    PROVE  thread'[t].hit = thread[t].hit
<1>1. thread \in [Threads -> ThreadState]
  BY DEF TypeInv
<1>2. thread' = [thread EXCEPT ![t] = [thread[t] EXCEPT !.pc = "stamped", !.mono = clock]]
  BY <1>1 DEF Stamp
<1>3. QED
  BY <1>1, <1>2 DEF ThreadState

\* The invariant is about these alone.
LEMMA DiskKept ==
    ASSUME DiskInv, UNCHANGED <<recorder, disk, Trace>>,
           \A op \in {"write", "remove"} :
               Returned(op)' = Returned(op) /\ Finders(op)' = Finders(op)
    PROVE  DiskInv'
<1>1. Made' = Made
  BY DEF Made
<1>2. Finds("write")' = Finds("write") /\ Finds("remove")' = Finds("remove")
  BY DEF Finds
<1>3. QED
  BY <1>1, <1>2 DEF DiskInv

\* A thread that is on the same side of a return as before changes no count.
LEMMA SameSide ==
    ASSUME TypeInv, BusyInv, DiskInv, NEW t \in Threads,
           UNCHANGED <<recorder, file, buffer, disk>>,
           \A u \in Threads \ {t} : thread'[u] = thread[u],
           recorder.state = "open" =>
               \/ /\ thread'[t].pc \in {"idle", "running"} \/ thread'[t].op = "put"
                  /\ thread[t].pc \in {"idle", "running"} \/ thread[t].op = "put"
               \/ /\ thread[t].pc \notin {"idle", "running"}
                  /\ thread'[t].pc \notin {"idle", "running"}
                  /\ thread'[t].op = thread[t].op
                  /\ thread'[t].hit = thread[t].hit
    PROVE  DiskInv'
<1>1. Trace' = Trace
  BY DEF Trace
<1>2. CASE recorder.state # "open"
  BY <1>2 DEF DiskInv
<1>3. CASE recorder.state = "open"
  <2>1. ASSUME NEW op \in {"write", "remove"}
        PROVE  Returned(op)' = Returned(op) /\ Finders(op)' = Finders(op)
    <3>1. /\ t \in Returned(op)' <=> t \in Returned(op)
          /\ t \in Finders(op)' <=> t \in Finders(op)
      BY <1>3 DEF Returned, Finders, Busy
    <3>2. QED
      BY <3>1 DEF Returned, Finders, Busy
  <2>2. QED
    BY <1>1, <2>1, DiskKept
<1>4. QED
  BY <1>2, <1>3

\* The counts are numbers.
LEMMA DiskTyped ==
    ASSUME TypeInv, BusyInv, IsFiniteSet(disk), NEW op
    PROVE  /\ Cardinality(disk) \in Nat /\ Cardinality(Found(Trace, op)) \in Nat
           /\ Cardinality(LinesOf(Trace, op)) \in Nat
           /\ Cardinality(Finders(op)) \in Nat /\ Cardinality(Returned(op)) \in Nat
<1>1. Trace \in Seq(LineState)
  BY TraceTyped
<1>2. Finders(op) \subseteq Busy /\ Returned(op) \subseteq Busy
  BY DEF Finders, Returned
<1>3. IsFiniteSet(Finders(op)) /\ IsFiniteSet(Returned(op))
  BY <1>2, FS_Subset DEF BusyInv
<1>4. Cardinality(Found(Trace, op)) \in Nat
  <2>1. Found(Trace, op) \subseteq LinesOf(Trace, op) /\ IsFiniteSet(LinesOf(Trace, op))
    BY <1>1, LinesFinite DEF Found
  <2>2. QED
    BY <2>1, FS_Subset, FS_CardinalityType
<1>5. Cardinality(LinesOf(Trace, op)) \in Nat
  BY <1>1, LinesFinite
<1>6. QED
  BY <1>3, <1>4, <1>5, FS_CardinalityType

\* A write or a removal that returns has made or removed a file, or left the files
\* as they were; it is counted as one that found a file accordingly.
LEMMA OpReturns ==
    ASSUME TypeInv, BusyInv, DiskInv, NEW t \in Threads, Returns(t),
           thread[t].op \in {"write", "remove"}, thread[t].key \in Keys
    PROVE  DiskInv'
<1> DEFINE c == thread[t].key
           o == thread[t].op
           D == IF o = "write" THEN disk \cup {c} ELSE disk \ {c}
<1>1. /\ \A u \in Threads \ {t} : thread'[u] = thread[u]
      /\ thread'[t].pc = "recording" /\ thread'[t].op = o
      /\ thread[t].pc = "running" /\ (thread'[t].hit <=> c \in disk)
  <2>1. thread'[t].hit = (c \in disk)
    BY ReturnHit
  <2>2. QED
    BY <2>1, ReturnTyped DEF Returns
<1>2. disk' = D /\ recorder' = recorder /\ Trace' = Trace
  BY DEF Returns, OnDisk, Trace
<1>3. ASSUME NEW op
      PROVE  /\ t \notin Returned(op) /\ (t \in Returned(op)' <=> op = o)
             /\ t \notin Finders(op) /\ (t \in Finders(op)' <=> op = o /\ c \in disk)
  BY <1>1 DEF Returned, Finders, Busy
<1>4. ASSUME NEW op
      PROVE  /\ Cardinality(Returned(op)') = Cardinality(Returned(op)) + (IF op = o THEN 1 ELSE 0)
             /\ Cardinality(Finders(op)') =
                    Cardinality(Finders(op)) + (IF op = o /\ c \in disk THEN 1 ELSE 0)
  <2>1. /\ Cardinality(Returned(op)) \in Nat /\ Cardinality(Returned(op)') \in Nat
        /\ Cardinality(Returned(op)') + 0
               = Cardinality(Returned(op)) + (IF op = o THEN 1 ELSE 0)
    BY <1>1, <1>3, ReturnedDiffer
  <2>2. /\ Cardinality(Finders(op)) \in Nat /\ Cardinality(Finders(op)') \in Nat
        /\ Cardinality(Finders(op)') + 0
               = Cardinality(Finders(op)) + (IF op = o /\ c \in disk THEN 1 ELSE 0)
    BY <1>1, <1>3, FindersDiffer
  <2>3. QED
    BY <2>1, <2>2
<1>5. IsFiniteSet(disk) /\ Cardinality(disk) \in Nat
  BY FS_CardinalityType DEF DiskInv
<1>6. /\ IsFiniteSet(D) /\ Cardinality(D) \in Nat
      /\ Cardinality(D) + (IF o = "remove" /\ c \in disk THEN 1 ELSE 0)
             = Cardinality(disk) + (IF o = "write" /\ c \notin disk THEN 1 ELSE 0)
  <2>1. CASE o = "write"
    <3>1. /\ IsFiniteSet(disk \cup {c})
          /\ Cardinality(disk \cup {c}) = Cardinality(disk) + (IF c \in disk THEN 0 ELSE 1)
      BY <1>5, FS_AddElement
    <3>2. QED
      BY <1>5, <2>1, <3>1
  <2>2. CASE o = "remove"
    <3>1. /\ IsFiniteSet(disk \ {c}) /\ Cardinality(disk \ {c}) \in Nat
          /\ Cardinality(disk \ {c}) = Cardinality(disk) - (IF c \in disk THEN 1 ELSE 0)
      BY <1>5, FS_RemoveElement, FS_CardinalityType
    <3>2. QED
      BY <1>5, <2>2, <3>1
  <2>3. QED
    BY <2>1, <2>2
<1>7. Cardinality(disk') = Cardinality(D)
  BY <1>2, Zenon
<1>8. Made' = Made + (IF o = "write" THEN 1 ELSE 0) /\ Made \in Nat
  BY <1>2, <1>4, <1>5, DiskTyped DEF Made
<1>9. ASSUME NEW op
      PROVE  /\ Finds(op)' = Finds(op) + (IF op = o /\ c \in disk THEN 1 ELSE 0)
             /\ Finds(op) \in Nat
  BY <1>2, <1>4, <1>5, DiskTyped DEF Finds
<1>10. o = "write" \/ o = "remove"
  OBVIOUS
<1> DEFINE w == Finds("write")
           r == Finds("remove")
<1>11. /\ w \in Nat /\ w' = w + (IF o = "write" /\ c \in disk THEN 1 ELSE 0)
       /\ r \in Nat /\ r' = r + (IF o = "remove" /\ c \in disk THEN 1 ELSE 0)
  BY <1>9
<1> HIDE DEF c, o, D, w, r
<1>12. Cardinality(disk) + r + w = Made => Cardinality(disk') + r' + w' = Made'
  BY <1>5, <1>6, <1>7, <1>8, <1>10, <1>11
<1>13. QED
  BY <1>2, <1>6, <1>12 DEF DiskInv, w, r

\* What is recorded is a line where it was a thread that had returned.
LEMMA RecordKeeps ==
    ASSUME TypeInv, BusyInv, DiskInv, NEW t \in Threads, Record(t), recorder.state = "open",
           Write(Line(t))
    PROVE  DiskInv'
<1> DEFINE l == Line(t)
<1>1. /\ l \in LineState /\ l.op = thread[t].op /\ l.hit = thread[t].hit
      /\ Trace \in Seq(LineState) /\ Trace' = Append(Trace, l)
      /\ recorder'.state = "open" /\ t \in Busy /\ thread[t].pc = "stamped" /\ disk' = disk
  BY LineTyped, WriteAppends, TraceTyped DEF Record, Busy, Line
<1>2. /\ \A u \in Threads \ {t} : thread'[u] = thread[u]
      /\ thread'[t].pc = "idle" \/ thread'[t].pc = "running"
  BY LeavesTyped DEF Record
<1> HIDE DEF l
<1>3. ASSUME NEW op
      PROVE  /\ t \in Returned(op) <=> l.op = op
             /\ t \in Finders(op) <=> l.op = op /\ l.hit
             /\ t \notin Returned(op)' /\ t \notin Finders(op)'
  BY <1>1, <1>2 DEF Returned, Finders, Busy
<1>4. Made' = Made
  <2>1. /\ Cardinality(Returned("write")') \in Nat /\ Cardinality(Returned("write")) \in Nat
        /\ Cardinality(Returned("write")') + (IF l.op = "write" THEN 1 ELSE 0)
               = Cardinality(Returned("write")) + 0
    BY <1>2, <1>3, ReturnedDiffer
  <2>2. Cardinality(LinesOf(Trace', "write")) =
            Cardinality(LinesOf(Trace, "write")) + (IF l.op = "write" THEN 1 ELSE 0)
    BY <1>1, LineAppended
  <2>3. Cardinality(LinesOf(Trace, "write")) \in Nat
    BY <1>1, LinesFinite
  <2>4. QED
    BY <2>1, <2>2, <2>3 DEF Made
<1>5. ASSUME NEW op PROVE Finds(op)' = Finds(op)
  <2>1. /\ Cardinality(Finders(op)') \in Nat /\ Cardinality(Finders(op)) \in Nat
        /\ Cardinality(Finders(op)') + (IF l.op = op /\ l.hit THEN 1 ELSE 0)
               = Cardinality(Finders(op)) + 0
    BY <1>2, <1>3, FindersDiffer
  <2>2. /\ Cardinality(Found(Trace, op)) \in Nat
        /\ Cardinality(Found(Trace', op)) =
               Cardinality(Found(Trace, op)) + (IF l.op = op /\ l.hit THEN 1 ELSE 0)
    BY <1>1, FindAppended
  <2>3. QED
    BY <2>1, <2>2 DEF Finds
<1>6. QED
  BY <1>1, <1>4, <1>5 DEF DiskInv

LEMMA DiskStep ==
    ASSUME TypeInv, BusyInv, DiskInv, Next
    PROVE  DiskInv'
<1>1. /\ recorder \in RecorderState /\ thread \in [Threads -> ThreadState]
      /\ IsFiniteSet(disk)
  BY DEF TypeInv, DiskInv
<1>2. CASE Open
  <2>1. /\ disk' = {} /\ file' = <<>> /\ buffer' = <<>> /\ thread' = thread /\ Busy = {}
    BY <1>1, <1>2 DEF Open, BusyInv, Alive, RecorderState
  <2>2. Trace' = <<>>
    <3>1. Trace' = <<>> \o <<>>
      BY <2>1 DEF Trace
    <3>2. QED
      BY <3>1
  <2>3. \A op : /\ LinesOf(Trace', op) = {} /\ Found(Trace', op) = {}
                /\ Returned(op)' = {} /\ Finders(op)' = {}
    BY <2>1, <2>2 DEF LinesOf, Found, Returned, Finders, Busy
  <2>4. Made' = 0 /\ Finds("write")' = 0 /\ Finds("remove")' = 0 /\ Cardinality(disk') = 0
    <3>1. /\ Cardinality(disk') = 0
          /\ \A op : /\ Cardinality(Found(Trace', op)) = 0 /\ Cardinality(Finders(op)') = 0
                     /\ Cardinality(LinesOf(Trace', op)) = 0 /\ Cardinality(Returned(op)') = 0
      BY <2>1, <2>3, FS_EmptySet, Zenon
    <3>2. QED
      BY <3>1 DEF Finds, Made
  <2>5. QED
    BY <2>1, <2>4, FS_EmptySet DEF DiskInv
<1>3. CASE Close \/ Exit
  <2>1. recorder'.state # "open" /\ disk' = disk
    BY <1>1, <1>3 DEF Close, Exit, RecorderState
  <2>2. QED
    BY <1>1, <2>1 DEF DiskInv
<1>4. CASE Tick
  <2>1. UNCHANGED <<recorder, file, buffer, disk, thread>>
    BY <1>4 DEF Tick
  <2>2. UNCHANGED Trace /\ \A op : Returned(op)' = Returned(op) /\ Finders(op)' = Finders(op)
    BY <2>1 DEF Trace, Returned, Finders, Busy
  <2>3. QED
    BY <2>1, <2>2, DiskKept
<1>5. ASSUME NEW t \in Threads, NEW op \in Ops, NEW k \in Keys, Begin(t, op, k)
      PROVE  DiskInv'
  <2>1. /\ \A u \in Threads \ {t} : thread'[u] = thread[u]
        /\ thread[t].pc = "idle"
        /\ thread'[t].pc = "running" \/ thread'[t].op = "put"
    BY <1>5, BeginTyped DEF Begin
  <2>2. QED
    BY <1>5, <2>1, SameSide DEF Begin
<1>6. ASSUME NEW t \in Threads, Returns(t)
      PROVE  DiskInv'
  <2>1. thread[t].pc = "running" /\ thread[t].key \in Keys
    BY <1>6 DEF Returns, BusyInv, Busy
  <2>2. CASE thread[t].op \in {"write", "remove"}
    BY <1>6, <2>1, <2>2, OpReturns
  <2>3. CASE thread[t].op \notin {"write", "remove"}
    <3>1. disk' = disk /\ UNCHANGED <<recorder, file, buffer>>
      BY <1>6, <2>3 DEF Returns, OnDisk
    <3>2. /\ \A u \in Threads \ {t} : thread'[u] = thread[u]
          /\ thread[t].op = "put" => thread'[t].pc = "idle"
          /\ thread[t].op # "put" => thread'[t].op = thread[t].op
      BY <1>6, <2>1, ReturnTyped
    <3>3. \A o \in {"write", "remove"} : Returned(o)' = Returned(o) /\ Finders(o)' = Finders(o)
      BY <2>1, <2>3, <3>2 DEF Returned, Finders, Busy
    <3>4. Trace' = Trace
      BY <3>1 DEF Trace
    <3>5. QED
      BY <3>1, <3>3, <3>4, DiskKept
  <2>4. QED
    BY <2>2, <2>3
<1>7. ASSUME NEW t \in Threads, OpRaises(t)
      PROVE  DiskInv'
  <2>1. /\ \A u \in Threads \ {t} : thread'[u] = thread[u]
        /\ thread[t].pc = "running" /\ thread'[t].pc = "idle"
    BY <1>1, <1>7 DEF OpRaises, Idle
  <2>2. QED
    BY <1>7, <2>1, SameSide DEF OpRaises
<1>8. ASSUME NEW t \in Threads, Stamp(t)
      PROVE  DiskInv'
  <2>1. /\ \A u \in Threads \ {t} : thread'[u] = thread[u]
        /\ recorder.state = "open" =>
               /\ thread'[t].pc = "stamped" /\ thread'[t].op = thread[t].op
               /\ thread'[t].hit = thread[t].hit
    BY <1>8, StampCases, StampHit
  <2>2. thread[t].pc = "recording" /\ UNCHANGED <<recorder, file, buffer, disk>>
    BY <1>8 DEF Stamp
  <2>3. QED
    BY <2>1, <2>2, SameSide
<1>9. ASSUME NEW t \in Threads, Record(t)
      PROVE  DiskInv'
  <2>1. CASE recorder.state = "open" /\ Write(Line(t))
    BY <1>9, <2>1, RecordKeeps
  <2>2. CASE recorder.state = "closed" /\ UNCHANGED <<recorder, buffer, file>>
    BY <1>9, <2>2 DEF Record, DiskInv
  <2>3. QED
    BY <1>9, <2>1, <2>2 DEF Record
<1>10. QED
  BY <1>2, <1>3, <1>4, <1>5, <1>6, <1>7, <1>8, <1>9 DEF Next

LEMMA DiskInvariance == Spec => []DiskInv
<1>1. Init => DiskInv
  BY FS_EmptySet DEF Init, DiskInv, NewRecorder
<1>2. IInv /\ DiskInv /\ [Next]_vars => DiskInv'
  <2>1. SUFFICES ASSUME IInv, DiskInv, UNCHANGED vars PROVE DiskInv'
    BY DiskStep DEF IInv
  <2>2. /\ UNCHANGED <<recorder, disk, Trace>>
        /\ \A op : Returned(op)' = Returned(op) /\ Finders(op)' = Finders(op)
    BY <2>1 DEF vars, Trace, Returned, Finders, Busy
  <2>3. QED
    BY <2>1, <2>2, DiskKept
<1>3. QED
  BY <1>1, <1>2, Invariance, PTL DEF Spec

\* The files that analyze.py makes of a trace (analyze.py:193) are those of the
\* disk between two operations, with every write over a file added and every
\* removal of none taken away: by exactly that much, for any trace.
THEOREM FilesAreOnDisk == Spec => []CountsDisk
<1>1. IInv /\ DiskInv => CountsDisk
  <2> DEFINE d == Cardinality(disk)
             h == Cardinality(Found(Trace, "remove"))
             w == Cardinality(LinesOf(Trace, "write"))
             r == Cardinality(LinesOf(Trace, "remove"))
             m == Cardinality(Misses(Trace))
             a == Cardinality(Overwrites(Trace))
  <2>1. SUFFICES ASSUME IInv, DiskInv, Quiet
                 PROVE  SteadyStateFiles(Trace) = Max({0, d + (a - m)})
    BY DEF CountsDisk
  <2>2. Busy = {} /\ TypeInv /\ BusyInv /\ IsFiniteSet(disk) /\ recorder.state = "open"
    BY <2>1 DEF Quiet, Busy, IInv, DiskInv
  <2>3. \A op : Returned(op) = {} /\ Finders(op) = {}
    BY <2>2 DEF Returned, Finders
  <2>4. d \in Nat /\ h \in Nat /\ w \in Nat /\ a \in Nat
    BY <2>2, DiskTyped DEF Overwrites
  <2>5. Finds("remove") = h /\ Finds("write") = a /\ Made = w
    <3>1. \A op : Cardinality(Finders(op)) = 0 /\ Cardinality(Returned(op)) = 0
      BY <2>3, FS_EmptySet, Zenon
    <3>2. QED
      BY <2>4, <3>1 DEF Finds, Made, Overwrites
  <2>6. r \in Nat /\ m \in Nat /\ r = h + m
    <3>1. /\ IsFiniteSet(LinesOf(Trace, "remove")) /\ r \in Nat
          /\ Found(Trace, "remove") \subseteq LinesOf(Trace, "remove")
      BY <2>2, TraceTyped, LinesFinite DEF Found
    <3> DEFINE R == LinesOf(Trace, "remove")
               H == Found(Trace, "remove")
    <3>2. Misses(Trace) = R \ H /\ R \cap H = H
      BY <3>1 DEF Misses
    <3>3. Cardinality(R \ H) = Cardinality(R) - Cardinality(R \cap H)
      BY <3>1, FS_Difference
    <3>4. IsFiniteSet(R \ H) /\ Cardinality(R \ H) \in Nat
      BY <3>1, FS_Subset, FS_CardinalityType
    <3>5. Cardinality(R \cap H) = Cardinality(H) /\ Cardinality(Misses(Trace)) = Cardinality(R \ H)
      BY <3>2, Zenon
    <3>6. QED
      BY <2>4, <3>1, <3>3, <3>4, <3>5
  <2>7. SteadyStateFiles(Trace) = Max({0, w - r})
    BY DEF SteadyStateFiles
  <2>8. d + h + a = w
    BY <2>1, <2>2, <2>5 DEF DiskInv
  <2> HIDE DEF d, h, w, r, m, a
  <2>9. w - r = d + (a - m)
    BY <2>4, <2>6, <2>8
  <2>10. QED
    BY <2>7, <2>9
<1>2. QED
  BY <1>1, Invariance, DiskInvariance, PTL

-----------------------------------------------------------------------------
(* The size of a job *)

LEMMA LeastExists ==
    ASSUME NEW S, S \subseteq Nat, S # {}
    PROVE  \E m \in S : \A k \in S : m <= k
<1>1. PICK x \in S : \A y \in S : ~(<<y, x>> \in OpToRel(<, Nat))
  BY NatLessThanWellFounded, WFMin, Zenon
<1>2. \A i, j \in Nat : i < j => <<i, j>> \in OpToRel(<, Nat)
  BY Zenon DEF OpToRel
<1>3. \A y \in S : ~(y < x)
  BY <1>1, <1>2, Zenon
<1>4. x \in Nat /\ \A y \in S : y \in Nat
  OBVIOUS
<1>5. \A y \in S : x <= y
  BY <1>3, <1>4
<1>6. QED
  BY <1>5

LEMMA GreatestExists ==
    ASSUME NEW n \in Nat, NEW S, S \subseteq 0..n, S # {}
    PROVE  \E m \in S : \A k \in S : m >= k
<1> DEFINE T == {x \in 0..n : n - x \in S}
<1>1. T \subseteq Nat /\ T # {}
  <2>1. PICK k \in S : TRUE
    OBVIOUS
  <2>2. n - k \in T
    OBVIOUS
  <2>3. T \subseteq Nat
    OBVIOUS
  <2> HIDE DEF T
  <2>4. QED
    BY <2>2, <2>3
<1>2. \A k \in S : n - k \in T
  OBVIOUS
<1>3. \A x \in T : n - x \in S /\ x \in 0..n
  OBVIOUS
<1> HIDE DEF T
<1>4. PICK x \in T : \A y \in T : x <= y
  BY <1>1, LeastExists
<1>5. QED
  BY <1>2, <1>3, <1>4

LEMMA IntervalCount == \A m \in Nat : IsFiniteSet(1..m) /\ Cardinality(1..m) = m
<1>1. \A m \in Nat : /\ IsFiniteSet(1..m)
                      /\ Cardinality(1..m) = IF 1 > m THEN 0 ELSE m - 1 + 1
  BY FS_Interval
<1>2. \A m \in Nat : (IF 1 > m THEN 0 ELSE m - 1 + 1) = m
  OBVIOUS
<1>3. QED
  BY <1>1, <1>2, Zenon

\* A size that is written with one decimal is off by an eightieth at most.
LEMMA TenthsAreClose ==
    ASSUME NEW n \in Nat, NEW f \in Nat \ {0}, n >= 4 * f
    PROVE  /\ n \div 8 \in Nat /\ Tenths(n, f) * f \in Int
           /\ Tenths(n, f) * f - 10 * n \in -(n \div 8)..(n \div 8)
<1> DEFINE q == (10 * n) \div f
           r == (10 * n) % f
           e == n \div 8
           t == Tenths(n, f)
<1>1. 10 * n = f * q + r /\ r \in 0..(f - 1) /\ q \in Nat
  OBVIOUS
<1>2. e \in Nat /\ \A i \in Nat : 8 * i <= n => i <= e
  OBVIOUS
<1>3. (q + 1) * f = q * f + f /\ q * f \in Nat /\ q * f = f * q
  BY <1>1
<1>4. \/ t = q /\ 2 * r <= f
      \/ t = q + 1 /\ 2 * r >= f
  BY <1>1 DEF Tenths
<1> DEFINE p == q * f
<1>5. p \in Nat /\ 10 * n = p + r /\ (q + 1) * f = p + f
  BY <1>1, <1>3
<1> HIDE DEF q, r, e, t
<1>6. CASE t = q /\ 2 * r <= f
  <2>1. t * f = p
    BY <1>6
  <2>2. r \in Nat /\ 8 * r <= n
    BY <1>1, <1>6
  <2>3. r <= e
    BY <1>2, <2>2
  <2> HIDE DEF p
  <2>4. t * f \in Int /\ t * f - 10 * n = -r
    BY <1>5, <2>1, <2>2
  <2>5. QED
    BY <1>2, <2>2, <2>3, <2>4 DEF t, e
<1>7. CASE t = q + 1 /\ 2 * r >= f
  <2> DEFINE s == f - r
  <2>1. t * f = p + f
    BY <1>5, <1>7
  <2>2. s \in Nat /\ 8 * s <= n
    BY <1>1, <1>7
  <2> HIDE DEF p
  <2>3. t * f \in Int /\ t * f - 10 * n = s
    BY <1>1, <1>5, <2>1
  <2> HIDE DEF s
  <2>4. s <= e
    BY <1>2, <2>2
  <2>5. QED
    BY <1>2, <2>2, <2>3, <2>4 DEF t, e
<1>8. QED
  BY <1>4, <1>6, <1>7

\* What a job says of a size is that size, up to one part in eighty.
LEMMA BytesAreClose ==
    ASSUME NEW n \in Nat
    PROVE  FmtBytes(n) - 10 * n \in -(n \div 8)..(n \div 8)
<1> DEFINE Fits(f) == n % f = 0 \/ n >= 4 * f
           units == {f \in Units : Fits(f)}
           u == Max(units)
<1>1. n \div 8 \in Nat /\ 10 * n \in Nat
  OBVIOUS
<1>2. CASE units = {} \/ n % u = 0
  <2>1. FmtBytes(n) = 10 * n
    BY <1>2 DEF FmtBytes
  <2>2. QED
    BY <1>1, <2>1
<1>3. CASE ~(units = {} \/ n % u = 0)
  <2>1. FmtBytes(n) = Tenths(n, u) * u
    BY <1>3 DEF FmtBytes
  <2>2. UnitBase \in Nat \ {0}
    BY WorkloadAssumption
  <2>3. UnitBase * UnitBase \in Nat \ {0}
    BY <2>2
  <2>4. UnitBase * UnitBase * UnitBase \in Nat \ {0}
    BY <2>2, <2>3
  <2>5. Units \subseteq Nat \ {0}
    BY <2>2, <2>3, <2>4 DEF Units
  <2>6. \E m \in units : \A k \in units : m >= k
    <3> DEFINE a == UnitBase
               b == UnitBase * UnitBase
               c == UnitBase * UnitBase * UnitBase
    <3>1. a \in Nat /\ b \in Nat /\ c \in Nat
      BY <2>2, <2>3, <2>4
    <3>2. units \subseteq {a, b, c} /\ units # {}
      BY <1>3 DEF Units
    <3> HIDE DEF a, b, c, units
    <3>3. units \subseteq 0..(a + b + c) /\ a + b + c \in Nat
      BY <3>1, <3>2
    <3> DEFINE bound == a + b + c
    <3>4. units \subseteq 0..bound /\ bound \in Nat
      BY <3>3
    <3> HIDE DEF bound
    <3>5. QED
      BY <3>2, <3>4, GreatestExists
  <2>7. u \in units
    <3> HIDE DEF units
    <3>1. QED
      BY <2>6 DEF Max
  <2>8. u \in Nat \ {0} /\ n >= 4 * u
    <3> HIDE DEF u
    <3>1. QED
      BY <1>3, <2>5, <2>7
  <2> HIDE DEF u
  <2>9. QED
    BY <2>1, <2>8, TenthsAreClose
<1>4. QED
  BY <1>2, <1>3

\* The dominant size is the size of a line, if any has one.
LEMMA DominantIsOfALine ==
    ASSUME NEW s \in Seq(LineState), NEW op
    PROVE  \/ DominantSize(s, op) = 0
           \/ \E i \in LinesOf(s, op) : DominantSize(s, op) = Size[s[i].key]
<1> DEFINE sized == {i \in LinesOf(s, op) : Size[s[i].key] > 0}
           Like(i) == {j \in sized : Size[s[j].key] = Size[s[i].key]}
           More(i, j) == \/ Cardinality(Like(i)) > Cardinality(Like(j))
                         \/ Cardinality(Like(i)) = Cardinality(Like(j)) /\ i <= j
           c == CHOOSE i \in sized : \A j \in sized : More(i, j)
<1>1. DominantSize(s, op) = IF sized = {} THEN 0 ELSE Size[s[c].key]
  BY DEF DominantSize
<1>2. CASE sized = {}
  BY <1>1, <1>2
<1>3. CASE sized # {}
  <2>1. /\ Len(s) \in Nat /\ sized \subseteq 1..Len(s) /\ sized \subseteq LinesOf(s, op)
        /\ IsFiniteSet(1..Len(s)) /\ Cardinality(1..Len(s)) = Len(s)
    <3>1. Len(s) \in Nat /\ LinesOf(s, op) \subseteq 1..Len(s)
      BY LinesFinite
    <3>2. IsFiniteSet(1..Len(s)) /\ Cardinality(1..Len(s)) = Len(s)
      BY <3>1, IntervalCount, Zenon
    <3>3. QED
      BY <3>1, <3>2
  <2>2. \A i \in sized : Cardinality(Like(i)) \in 0..Len(s)
    <3>1. SUFFICES ASSUME NEW i \in sized PROVE Cardinality(Like(i)) \in 0..Len(s)
      OBVIOUS
    <3> DEFINE L == Like(i)
    <3>2. L \subseteq 1..Len(s)
      BY <2>1
    <3> HIDE DEF L
    <3>3. IsFiniteSet(L) /\ Cardinality(L) <= Len(s)
      BY <2>1, <3>2, FS_Subset
    <3>4. Cardinality(L) \in Nat
      BY <3>3, FS_CardinalityType
    <3>5. Cardinality(L) \in 0..Len(s)
      BY <2>1, <3>3, <3>4
    <3>6. QED
      BY <3>5 DEF L
  <2> DEFINE n(i) == Cardinality(Like(i))
             N == {n(i) : i \in sized}
  <2>3. \A i \in sized : n(i) \in 0..Len(s)
    BY <2>2
  <2> HIDE DEF n, sized
  <2>4. PICK m \in N : \A k \in N : m >= k
    <3>1. N \subseteq 0..Len(s) /\ N # {}
      BY <1>3, <2>3
    <3> HIDE DEF N
    <3>2. QED
      BY <2>1, <3>1, GreatestExists
  <2> DEFINE I == {i \in sized : n(i) = m}
  <2>5. PICK i \in I : \A j \in I : i <= j
    <3>1. I \subseteq Nat /\ I # {}
      BY <2>1, <2>4
    <3> HIDE DEF I
    <3>2. QED
      BY <3>1, LeastExists
  <2>6. i \in sized /\ \A j \in sized : n(i) > n(j) \/ (n(i) = n(j) /\ i <= j)
    <3>1. i \in sized /\ n(i) = m
      BY <2>5
    <3>2. ASSUME NEW j \in sized PROVE n(i) > n(j) \/ (n(i) = n(j) /\ i <= j)
      <4>1. n(j) \in N /\ m >= n(j)
        BY <2>4
      <4>2. n(j) = m => i <= j
        BY <2>5
      <4>3. n(j) \in Nat /\ m \in Nat
        BY <2>3, <3>1
      <4>4. QED
        BY <3>1, <4>1, <4>2, <4>3
    <3>3. QED
      BY <3>1, <3>2
  <2>7. i \in sized /\ \A j \in sized : More(i, j)
    BY <2>6 DEF n
  <2> HIDE DEF More
  <2>8. c \in sized
    BY <2>7
  <2>9. QED
    BY <1>1, <1>3, <2>1, <2>8
<1>4. QED
  BY <1>2, <1>3

\* The size of a job is that of a chunk that was written, up to one part in eighty.
JobSizeIsNear ==
    LET job == GenerateFioJob(Trace)
    IN  job # NoJob => \E i \in LinesOf(Trace, "write") :
           LET n == Size[Trace[i].key]
           IN  job.size - 10 * n \in -(n \div 8)..(n \div 8)

\* The size of a job's files is off that of a chunk some thread wrote by what the
\* one decimal of its text may lose (fio.py:34-35), and no more, whatever the sizes
\* of chunks and however their lines are interleaved.
THEOREM JobSizesAreNear == Spec => []JobSizeIsNear
<1>1. IInv => JobSizeIsNear
  <2>1. SUFFICES ASSUME IInv, GenerateFioJob(Trace) # NoJob
                 PROVE  \E i \in LinesOf(Trace, "write") :
                            LET n == Size[Trace[i].key]
                            IN  GenerateFioJob(Trace).size - 10 * n \in -(n \div 8)..(n \div 8)
    BY DEF JobSizeIsNear
  <2> DEFINE d == DominantSize(Trace, "write")
  <2>2. d # 0 /\ GenerateFioJob(Trace).size = FmtBytes(d)
    BY <2>1 DEF GenerateFioJob
  <2>3. Trace \in Seq(LineState)
    BY <2>1, TraceTyped DEF IInv
  <2>4. PICK i \in LinesOf(Trace, "write") : d = Size[Trace[i].key]
    BY <2>2, <2>3, DominantIsOfALine
  <2>5. d \in Nat
    <3>1. i \in 1..Len(Trace)
      BY DEF LinesOf
    <3>2. Trace[i] \in LineState
      BY <2>3, <3>1, ElementOfSeq
    <3>3. Trace[i].key \in Keys
      BY <3>2 DEF LineState
    <3>4. QED
      BY <2>4, <3>3, WorkloadAssumption
  <2> HIDE DEF d
  <2>6. FmtBytes(d) - 10 * d \in -(d \div 8)..(d \div 8)
    BY <2>5, BytesAreClose
  <2>7. QED
    BY <2>2, <2>4, <2>6
<1>2. QED
  BY <1>1, Invariance, PTL

-----------------------------------------------------------------------------
(* The times of a thread *)

\* A thread that will have a line began after all the lines it has.
HasLine(t) == thread[t].pc # "running" \/ thread[t].op # "put"

\* The interval of a line is within the operation it is of, and a thread runs one
\* operation at a time.
ApartInv ==
    /\ \A t \in Busy :
          /\ thread[t].start <= clock
          /\ thread[t].pc = "recording" => thread[t].start + thread[t].dur <= clock
          /\ thread[t].pc = "stamped" => /\ thread[t].start + thread[t].dur <= thread[t].mono
                                         /\ thread[t].mono <= clock
    /\ \A i \in 1..Len(Trace) :
          /\ Alive => Trace[i].mono <= clock
          /\ Trace[i].tid \in Busy /\ HasLine(Trace[i].tid) =>
                 Trace[i].mono <= thread[Trace[i].tid].start
          /\ \A j \in 1..Len(Trace) :
                i < j /\ Trace[i].tid = Trace[j].tid => Trace[i].mono <= Trace[j].mono - Trace[j].dur

LEMMA LineTimes ==
    ASSUME NEW s \in Seq(LineState), NEW i \in 1..Len(s)
    PROVE  s[i].mono \in Int /\ s[i].dur \in Int /\ s[i].tid \in Threads /\ s[i].key \in Keys
<1>1. s[i] \in LineState
  BY ElementOfSeq
<1>2. QED
  BY <1>1 DEF LineState

\* A thread that moves without a line, its times in order.
LEMMA ThreadMoves ==
    ASSUME TypeInv, BusyInv, ApartInv, NEW t \in Threads, UNCHANGED <<recorder, file, buffer, clock>>,
           \A u \in Threads \ {t} : thread'[u] = thread[u],
           \/ thread'[t].pc = "idle"
           \/ /\ thread'[t].start <= clock
              /\ thread'[t].pc = "recording" => thread'[t].start + thread'[t].dur <= clock
              /\ thread'[t].pc = "stamped" =>
                     thread'[t].start + thread'[t].dur <= thread'[t].mono /\ thread'[t].mono <= clock
              /\ \/ ~HasLine(t)'
                 \/ t \in Busy /\ HasLine(t) /\ thread'[t].start = thread[t].start
                 \/ Alive /\ thread'[t].start = clock
    PROVE  ApartInv'
<1>1. Trace' = Trace /\ Trace \in Seq(LineState) /\ Len(Trace) \in Nat
  BY TraceTyped DEF Trace
<1>2. ASSUME NEW u \in Busy'
      PROVE  /\ thread'[u].start <= clock'
             /\ thread'[u].pc = "recording" => thread'[u].start + thread'[u].dur <= clock'
             /\ thread'[u].pc = "stamped" => /\ thread'[u].start + thread'[u].dur <= thread'[u].mono
                                             /\ thread'[u].mono <= clock'
  <2>1. CASE u = t
    BY <1>2, <2>1 DEF Busy
  <2>2. CASE u # t
    BY <1>2, <2>2 DEF Busy, ApartInv
  <2>3. QED
    BY <2>1, <2>2
<1>3. ASSUME NEW i \in 1..Len(Trace), Trace[i].tid \in Busy', HasLine(Trace[i].tid)'
      PROVE  Trace[i].mono <= thread'[Trace[i].tid].start
  <2>1. CASE Trace[i].tid = t
    <3>1. thread'[t].pc # "idle" /\ HasLine(t)'
      BY <1>1, <1>3, <2>1 DEF Busy, HasLine
    <3>2. CASE t \in Busy /\ HasLine(t) /\ thread'[t].start = thread[t].start
      BY <2>1, <3>2 DEF ApartInv
    <3>3. CASE Alive /\ thread'[t].start = clock
      BY <2>1, <3>3 DEF ApartInv
    <3>4. QED
      BY <3>1, <3>2, <3>3
  <2>2. CASE Trace[i].tid # t
    <3>1. Trace[i].tid \in Threads
      BY <1>1, LineTimes
    <3>2. thread'[Trace[i].tid] = thread[Trace[i].tid]
      BY <2>2, <3>1
    <3>3. Trace[i].tid \in Busy /\ HasLine(Trace[i].tid)
      BY <1>1, <1>3, <3>1, <3>2 DEF Busy, HasLine
    <3>4. QED
      BY <3>2, <3>3 DEF ApartInv
  <2>3. QED
    BY <2>1, <2>2
<1>4. Alive' = Alive
  BY DEF Alive
<1>5. QED
  BY <1>1, <1>2, <1>3, <1>4 DEF ApartInv, HasLine

LEMMA BeginTimes ==
    ASSUME TypeInv, NEW t \in Threads, NEW op \in Ops, NEW k \in Keys, Begin(t, op, k)
    PROVE  thread'[t].start = clock /\ thread'[t].dur = 0
<1> DEFINE z == [Idle EXCEPT !.pc = IF op \in RecordedFirst THEN "recording" ELSE "running",
                             !.op = op, !.key = k, !.start = clock]
<1>1. thread' = [thread EXCEPT ![t] = z] /\ thread \in [Threads -> ThreadState]
  BY DEF Begin, TypeInv
<1>2. z.start = clock /\ z.dur = 0
  BY DEF Idle
<1> HIDE DEF z
<1>3. QED
  BY <1>1, <1>2

LEMMA ReturnTimes ==
    ASSUME TypeInv, NEW t \in Threads, Returns(t), thread[t].op # "put"
    PROVE  thread'[t].start = thread[t].start /\ thread'[t].dur = clock - thread[t].start
<1> DEFINE z == [thread[t] EXCEPT !.pc = "recording", !.dur = clock - thread[t].start,
                    !.hit = thread[t].key \in disk]
<1>1. thread' = [thread EXCEPT ![t] = z]
  BY DEF Returns, RecordedFirst
<1>2. thread \in [Threads -> ThreadState]
  BY DEF TypeInv
<1>3. z.start = thread[t].start /\ z.dur = clock - thread[t].start
  BY <1>2 DEF ThreadState
<1> HIDE DEF z
<1>4. QED
  BY <1>1, <1>2, <1>3

LEMMA StampTimes ==
    ASSUME TypeInv, NEW t \in Threads, Stamp(t), recorder.state = "open"
    PROVE  thread'[t].start = thread[t].start /\ thread'[t].dur = thread[t].dur
           /\ thread'[t].mono = clock
<1>1. thread \in [Threads -> ThreadState]
  BY DEF TypeInv
<1>2. thread' = [thread EXCEPT ![t] = [thread[t] EXCEPT !.pc = "stamped", !.mono = clock]]
  BY <1>1 DEF Stamp
<1>3. QED
  BY <1>1, <1>2 DEF ThreadState

LEMMA LeavesTimes ==
    ASSUME TypeInv, NEW t \in Threads, Leaves(t), thread[t].op = "put"
    PROVE  thread'[t].start = thread[t].start
<1>1. thread \in [Threads -> ThreadState]
  BY DEF TypeInv
<1>2. thread' = [thread EXCEPT ![t] = [thread[t] EXCEPT !.pc = "running"]]
  BY <1>1 DEF Leaves, RecordedFirst
<1>3. QED
  BY <1>1, <1>2 DEF ThreadState

LEMMA RecordApart ==
    ASSUME TypeInv, BusyInv, ApartInv, NEW t \in Threads, Record(t), recorder.state = "open",
           Write(Line(t))
    PROVE  ApartInv'
<1> DEFINE l == Line(t)
           n == Len(Trace)
           z == Append(Trace, l)
           N(u) == thread'[u].pc # "running" \/ thread'[u].op # "put"
<1>1. /\ l \in LineState /\ l.tid = t /\ l.mono = thread[t].mono /\ l.dur = thread[t].dur
      /\ Trace \in Seq(LineState) /\ Trace' = z /\ n \in Nat
      /\ recorder'.state = "open" /\ t \in Busy /\ thread[t].pc = "stamped"
      /\ clock' = clock /\ clock \in Int
  BY LineTyped, WriteAppends, TraceTyped DEF Record, Busy, Line, TypeInv
<1>2. /\ \A u \in Threads \ {t} : thread'[u] = thread[u]
      /\ thread'[t].pc # "idle" =>
             thread'[t].pc = "running" /\ thread'[t].op = "put"
             /\ thread'[t].start = thread[t].start
  BY LeavesTyped, LeavesTimes DEF Record
<1>3. Len(z) = n + 1 /\ z[n + 1] = l /\ \A i \in 1..n : z[i] = Trace[i]
  BY <1>1, AppendProperties
<1>4. \A i \in 1..(n + 1) : z[i].mono \in Int /\ z[i].dur \in Int /\ z[i].tid \in Threads
  <2>1. z \in Seq(LineState)
    BY <1>1
  <2> HIDE DEF z
  <2>2. QED
    BY <1>3, <2>1, LineTimes
<1>5. l.mono <= clock /\ thread[t].start + l.dur <= l.mono /\ thread[t].start <= clock
      /\ thread[t].start \in Int /\ l.mono \in Int /\ l.dur \in Int
  BY <1>1 DEF ApartInv, TypeInv, ThreadState, LineState
<1>6. Alive
  BY DEF Alive
<1> HIDE DEF l, n, z, N
<1>7. ASSUME NEW u \in Busy'
      PROVE  /\ thread'[u].start <= clock'
             /\ thread'[u].pc = "recording" => thread'[u].start + thread'[u].dur <= clock'
             /\ thread'[u].pc = "stamped" => /\ thread'[u].start + thread'[u].dur <= thread'[u].mono
                                             /\ thread'[u].mono <= clock'
  <2>1. CASE u = t
    BY <1>1, <1>2, <1>5, <1>7, <2>1 DEF Busy
  <2>2. CASE u # t
    BY <1>1, <1>2, <1>7, <2>2 DEF Busy, ApartInv
  <2>3. QED
    BY <2>1, <2>2
<1>8. ASSUME NEW i \in 1..n
      PROVE  /\ z[i].mono <= clock
             /\ z[i].tid = t => z[i].mono <= l.mono - l.dur
             /\ z[i].tid \in Busy /\ HasLine(z[i].tid) => z[i].mono <= thread[z[i].tid].start
             /\ \A j \in 1..n : i < j /\ z[i].tid = z[j].tid => z[i].mono <= z[j].mono - z[j].dur
  <2>1. /\ z[i].mono <= clock
        /\ z[i].tid \in Busy /\ HasLine(z[i].tid) => z[i].mono <= thread[z[i].tid].start
        /\ \A j \in 1..n : i < j /\ z[i].tid = z[j].tid => z[i].mono <= z[j].mono - z[j].dur
    BY <1>3, <1>6 DEF ApartInv, n
  <2>2. HasLine(t)
    BY <1>1 DEF HasLine
  <2>3. z[i].mono \in Int
    BY <1>1, <1>4
  <2>4. z[i].tid = t => z[i].mono <= l.mono - l.dur
    BY <1>1, <1>5, <2>1, <2>2, <2>3
  <2>5. QED
    BY <2>1, <2>4
<1>9. ASSUME NEW u \in Busy', u # t, N(u)
      PROVE  u \in Busy /\ HasLine(u) /\ thread'[u] = thread[u]
  BY <1>2, <1>9 DEF Busy, HasLine, N
<1>10. ~(t \in Busy' /\ N(t))
  BY <1>2 DEF Busy, N
<1>11. ASSUME NEW i \in 1..(n + 1)
       PROVE  /\ z[i].mono <= clock
              /\ z[i].tid \in Busy' /\ N(z[i].tid) => z[i].mono <= thread'[z[i].tid].start
              /\ \A j \in 1..(n + 1) :
                     i < j /\ z[i].tid = z[j].tid => z[i].mono <= z[j].mono - z[j].dur
  <2>1. CASE i = n + 1
    BY <1>1, <1>3, <1>5, <1>10, <2>1
  <2>2. CASE i \in 1..n
    <3>1. z[i].tid \in Busy' /\ N(z[i].tid) => z[i].mono <= thread'[z[i].tid].start
      <4>1. SUFFICES ASSUME z[i].tid \in Busy', N(z[i].tid)
                     PROVE  z[i].mono <= thread'[z[i].tid].start
        OBVIOUS
      <4>2. z[i].tid # t
        BY <1>10, <4>1
      <4>3. QED
        BY <1>8, <1>9, <2>2, <4>1, <4>2
    <3>2. ASSUME NEW j \in 1..(n + 1), i < j, z[i].tid = z[j].tid
          PROVE  z[i].mono <= z[j].mono - z[j].dur
      <4>1. CASE j \in 1..n
        BY <1>8, <2>2, <3>2, <4>1
      <4>2. CASE j = n + 1
        BY <1>1, <1>3, <1>8, <2>2, <3>2, <4>2
      <4>3. QED
        BY <1>1, <4>1, <4>2
    <3>3. QED
      BY <1>8, <2>2, <3>1, <3>2
  <2>3. QED
    BY <1>1, <2>1, <2>2
<1>12. QED
  <2>1. Len(Trace') = n + 1
    BY <1>1, <1>3
  <2>2. QED
    BY <1>1, <1>7, <1>11, <2>1 DEF ApartInv, HasLine, N

LEMMA ApartStep ==
    ASSUME TypeInv, BusyInv, ApartInv, Next
    PROVE  ApartInv'
<1>1. /\ recorder \in RecorderState /\ thread \in [Threads -> ThreadState] /\ clock \in Int
      /\ Trace \in Seq(LineState) /\ Len(Trace) \in Nat
      /\ file \in Seq(LineState) /\ buffer \in Seq(LineState)
  BY TraceTyped DEF TypeInv
<1>2. \A t \in Threads : thread[t].start \in Int /\ thread[t].dur \in Int /\ thread[t].mono \in Int
  BY <1>1 DEF ThreadState
<1>3. \A t \in Busy : Alive
  BY DEF BusyInv
<1>4. CASE Open
  <2>1. /\ Trace' = <<>> \o <<>> /\ thread' = thread /\ Busy = {}
    BY <1>1, <1>4 DEF Open, BusyInv, Alive, RecorderState, Trace
  <2>2. Trace' = <<>> /\ Busy' = {}
    BY <2>1 DEF Busy
  <2>3. Len(Trace') = 0
    BY <2>2
  <2>4. QED
    BY <2>2, <2>3 DEF ApartInv
<1>5. CASE Close
  <2>1. /\ Trace' = Trace \o <<>> /\ UNCHANGED <<clock, thread>> /\ Alive
    BY <1>5 DEF Close, Trace, Alive
  <2>2. Trace' = Trace /\ Busy' = Busy
    BY <1>1, <2>1, ConcatEmptySeq DEF Busy
  <2>3. QED
    BY <2>1, <2>2 DEF ApartInv, HasLine
<1>6. CASE Exit
  <2>1. Busy' = {} /\ recorder'.state = "dead" /\ Trace' = file \o <<>>
    BY <1>1, <1>6 DEF Exit, Busy, Idle, Trace, RecorderState
  <2>2. Trace' = file /\ ~Alive'
    BY <1>1, <2>1, ConcatEmptySeq DEF Alive
  <2>3. /\ Len(file) \in Nat /\ Len(buffer) \in Nat /\ Len(Trace) = Len(file) + Len(buffer)
        /\ \A i \in 1..Len(file) : Trace[i] = file[i]
    BY <1>1, LenProperties, ConcatProperties DEF Trace
  <2>4. \A i \in 1..Len(file) : i \in 1..Len(Trace)
    BY <2>3
  <2>5. \A i, j \in 1..Len(file) :
            i < j /\ file[i].tid = file[j].tid => file[i].mono <= file[j].mono - file[j].dur
    BY <2>3, <2>4 DEF ApartInv
  <2>6. QED
    BY <2>1, <2>2, <2>5 DEF ApartInv
<1>7. CASE Tick
  <2>1. clock' = clock + 1 /\ UNCHANGED <<recorder, thread, file, buffer>>
    BY <1>7 DEF Tick
  <2>2. UNCHANGED <<Trace, Busy>> /\ Alive' = Alive
    BY <2>1 DEF Trace, Busy, Alive
  <2>3. ASSUME NEW u \in Busy
        PROVE  /\ thread[u].start <= clock'
               /\ thread[u].pc = "recording" => thread[u].start + thread[u].dur <= clock'
               /\ thread[u].pc = "stamped" => /\ thread[u].start + thread[u].dur <= thread[u].mono
                                              /\ thread[u].mono <= clock'
    BY <1>1, <1>2, <2>1 DEF ApartInv, Busy
  <2>4. ASSUME NEW i \in 1..Len(Trace), Alive
        PROVE  Trace[i].mono <= clock'
    <3>1. Trace[i].mono \in Int /\ Trace[i].mono <= clock
      BY <1>1, <2>4, LineTimes DEF ApartInv
    <3>2. QED
      BY <1>1, <2>1, <3>1
  <2>5. QED
    BY <2>1, <2>2, <2>3, <2>4 DEF ApartInv, HasLine
<1>8. ASSUME NEW t \in Threads, NEW op \in Ops, NEW k \in Keys, Begin(t, op, k)
      PROVE  ApartInv'
  <2>1. /\ \A u \in Threads \ {t} : thread'[u] = thread[u]
        /\ thread'[t].pc # "stamped" /\ thread'[t].start = clock /\ thread'[t].dur = 0
    BY <1>8, BeginTyped, BeginTimes
  <2>2. UNCHANGED <<recorder, file, buffer, clock>> /\ Alive
    BY <1>8 DEF Begin
  <2>3. thread'[t].start <= clock /\ thread'[t].start + thread'[t].dur <= clock
    BY <1>1, <2>1
  <2>4. QED
    BY <2>1, <2>2, <2>3, ThreadMoves
<1>9. ASSUME NEW t \in Threads, Returns(t)
      PROVE  ApartInv'
  <2>1. /\ thread[t].pc = "running" /\ t \in Busy /\ thread[t].key \in Keys
        /\ UNCHANGED <<recorder, file, buffer, clock>>
    BY <1>9 DEF Returns, BusyInv, Busy
  <2>2. /\ \A u \in Threads \ {t} : thread'[u] = thread[u]
        /\ thread[t].op = "put" => thread'[t].pc = "idle"
        /\ thread[t].op # "put" => thread'[t].pc = "recording"
    BY <1>9, <2>1, ReturnTyped
  <2>3. CASE thread[t].op = "put"
    BY <2>1, <2>2, <2>3, ThreadMoves
  <2>4. CASE thread[t].op # "put"
    <3>1. /\ thread'[t].start = thread[t].start /\ thread'[t].dur = clock - thread[t].start
          /\ thread[t].start <= clock
      BY <1>9, <2>1, <2>4, ReturnTimes DEF ApartInv
    <3>2. thread'[t].start <= clock /\ thread'[t].start + thread'[t].dur <= clock
      BY <1>1, <1>2, <3>1
    <3>3. HasLine(t)
      BY <2>4 DEF HasLine
    <3>4. QED
      BY <2>1, <2>2, <2>4, <3>1, <3>2, <3>3, ThreadMoves
  <2>5. QED
    BY <2>3, <2>4
<1>10. ASSUME NEW t \in Threads, OpRaises(t)
       PROVE  ApartInv'
  <2>1. /\ \A u \in Threads \ {t} : thread'[u] = thread[u]
        /\ thread'[t].pc = "idle" /\ UNCHANGED <<recorder, file, buffer, clock>>
    BY <1>1, <1>10 DEF OpRaises, Idle
  <2>2. QED
    BY <2>1, ThreadMoves
<1>11. ASSUME NEW t \in Busy, Leaves(t), UNCHANGED <<recorder, file, buffer, clock>>
       PROVE  ApartInv'
  <2>1. t \in Threads
    BY DEF Busy
  <2>2. /\ \A u \in Threads \ {t} : thread'[u] = thread[u]
        /\ thread'[t].pc # "idle" =>
               thread'[t].pc = "running" /\ thread'[t].op = "put"
               /\ thread'[t].start = thread[t].start
    BY <1>11, <2>1, LeavesTyped, LeavesTimes
  <2>3. thread[t].start <= clock
    BY <1>11 DEF ApartInv
  <2>4. thread'[t].pc = "idle" \/ ~HasLine(t)'
    BY <2>2 DEF HasLine
  <2>5. QED
    BY <1>11, <2>1, <2>2, <2>3, <2>4, ThreadMoves
<1>12. ASSUME NEW t \in Threads, Stamp(t)
       PROVE  ApartInv'
  <2>1. /\ t \in Busy /\ thread[t].pc = "recording" /\ HasLine(t)
        /\ UNCHANGED <<recorder, file, buffer, clock>>
    BY <1>12 DEF Stamp, Busy, HasLine
  <2>2. CASE recorder.state = "closed" /\ Leaves(t)
    BY <1>11, <2>1, <2>2
  <2>3. CASE ~(recorder.state = "closed" /\ Leaves(t))
    <3>1. /\ \A u \in Threads \ {t} : thread'[u] = thread[u]
          /\ thread'[t].pc = "stamped" /\ recorder.state = "open"
      BY <1>12, <2>3, StampCases
    <3>2. /\ thread'[t].start = thread[t].start /\ thread'[t].dur = thread[t].dur
          /\ thread'[t].mono = clock
      BY <1>12, <3>1, StampTimes
    <3>3. /\ thread[t].start <= clock /\ thread[t].start + thread[t].dur <= clock
          /\ clock <= clock
      BY <1>1, <2>1 DEF ApartInv
    <3>4. QED
      BY <2>1, <3>1, <3>2, <3>3, ThreadMoves
  <2>4. QED
    BY <2>2, <2>3
<1>13. ASSUME NEW t \in Threads, Record(t)
       PROVE  ApartInv'
  <2>1. CASE recorder.state = "open" /\ Write(Line(t))
    BY <1>13, <2>1, RecordApart
  <2>2. CASE recorder.state = "closed" /\ UNCHANGED <<recorder, buffer, file>>
    <3>1. t \in Busy /\ Leaves(t) /\ UNCHANGED <<recorder, file, buffer, clock>>
      BY <1>13, <2>2 DEF Record, Busy
    <3>2. QED
      BY <1>11, <3>1
  <2>3. QED
    BY <1>13, <2>1, <2>2 DEF Record
<1>14. QED
  BY <1>4, <1>5, <1>6, <1>7, <1>8, <1>9, <1>10, <1>12, <1>13 DEF Next

LEMMA ApartInvariance == Spec => []ApartInv
<1>1. Init => ApartInv
  <2>1. SUFFICES ASSUME Init PROVE ApartInv
    OBVIOUS
  <2>2. Busy = {} /\ Trace = <<>> \o <<>>
    BY <2>1 DEF Init, Busy, Idle, Trace
  <2>3. Len(Trace) = 0
    BY <2>2
  <2>4. QED
    BY <2>2, <2>3 DEF ApartInv
<1>2. IInv /\ ApartInv /\ [Next]_vars => ApartInv'
  <2>1. SUFFICES ASSUME IInv, ApartInv, UNCHANGED vars PROVE ApartInv'
    BY ApartStep DEF IInv
  <2>2. UNCHANGED <<recorder, thread, clock, Trace, Busy>> /\ Alive' = Alive
    BY <2>1 DEF vars, Trace, Busy, Alive
  <2>3. QED
    BY <2>1, <2>2 DEF ApartInv, HasLine
<1>3. QED
  BY <1>1, <1>2, Invariance, PTL DEF Spec

-----------------------------------------------------------------------------
(* The parallelism of a job *)

\* Intervals of one thread are apart.
Apart(s) ==
    \A i, j \in 1..Len(s) : i < j /\ s[i].tid = s[j].tid => s[i].mono <= s[j].mono - s[j].dur

\* Whatever point the sweep is at, each interval it is in is of another thread.
LEMMA ConcurrencyBounded ==
    ASSUME NEW s \in Seq(LineState), Apart(s), NEW op, NEW c \in 1..Len(s), NEW d \in {1, -1}
    PROVE  /\ Concurrency(s, op, Point(s[c], d)) \in Int
           /\ Concurrency(s, op, Point(s[c], d)) <= Cardinality(Writers(s, op))
           /\ IsFiniteSet(Writers(s, op)) /\ Cardinality(Writers(s, op)) \in 0..Len(s)
           /\ LinesOf(s, op) # {} => Cardinality(Writers(s, op)) >= 1
<1> DEFINE p == Point(s[c], d)
           x == IF d = 1 THEN s[c].mono - s[c].dur ELSE s[c].mono
           A == Passed(s, op, 1, p)
           B == Passed(s, op, -1, p)
           I == LinesOf(s, op)
           W == Writers(s, op)
<1>1. /\ Len(s) \in Nat /\ I \subseteq 1..Len(s) /\ IsFiniteSet(I)
      /\ \A i \in 1..Len(s) : s[i].mono \in Int /\ s[i].dur \in Int
  BY LinesFinite, LineTimes
<1>2. p[1] = x /\ p[2] = d /\ x \in Int
  BY <1>1 DEF Point
<1> HIDE DEF p, x
<1>3. \A i \in 1..Len(s) : /\ Point(s[i], 1)[1] = s[i].mono - s[i].dur /\ Point(s[i], 1)[2] = 1
                           /\ Point(s[i], -1)[1] = s[i].mono /\ Point(s[i], -1)[2] = -1
  BY DEF Point
<1>4. A \subseteq I /\ B \subseteq I
  BY DEF Passed
<1>6. \A i \in A \ B : s[i].mono - s[i].dur <= x /\ x < s[i].mono
  <2>1. SUFFICES ASSUME NEW i \in I, ~Before(p, Point(s[i], 1)), Before(p, Point(s[i], -1))
                 PROVE  s[i].mono - s[i].dur <= x /\ x < s[i].mono
    BY DEF Passed
  <2>2. i \in 1..Len(s) /\ s[i].mono \in Int /\ s[i].dur \in Int
    BY <1>1
  <2>3. s[i].mono - s[i].dur <= x
    BY <1>2, <1>3, <2>1, <2>2 DEF Before
  <2>4. x < s[i].mono
    BY <1>2, <1>3, <2>1, <2>2 DEF Before
  <2>5. QED
    BY <2>3, <2>4
<1> HIDE DEF A, B, I, W
<1>7. \A i, j \in A \ B : i # j => s[i].tid # s[j].tid
  <2>1. SUFFICES ASSUME NEW i \in A \ B, NEW j \in A \ B, i < j, s[i].tid = s[j].tid
                 PROVE  FALSE
    <3>1. \A i \in A \ B : i \in Int
      BY <1>1, <1>4
    <3>2. \A i, j \in A \ B : i # j => i < j \/ j < i
      BY <3>1
    <3>3. QED
      BY <3>2
  <2>2. i \in 1..Len(s) /\ j \in 1..Len(s)
    BY <1>1, <1>4
  <2>3. s[i].mono <= s[j].mono - s[j].dur
    BY <2>1, <2>2 DEF Apart
  <2>4. QED
    BY <1>1, <1>2, <1>6, <2>2, <2>3
<1>8. IsFiniteSet(W) /\ Cardinality(W) \in 0..Len(s) /\ (I # {} => Cardinality(W) >= 1)
  <2> DEFINE f == [i \in I |-> s[i].tid]
  <2>1. f \in Surjection(I, W)
    BY DEF Surjection, W, I, Writers
  <2> HIDE DEF f
  <2>2. IsFiniteSet(W) /\ Cardinality(W) <= Cardinality(I)
    BY <1>1, <2>1, FS_Surjection
  <2>3. Cardinality(I) <= Len(s)
    <3>1. \A m \in Nat : IsFiniteSet(1..m) /\ Cardinality(1..m) = m
      BY IntervalCount
    <3> DEFINE J == 1..Len(s)
    <3>2. IsFiniteSet(J) /\ Cardinality(J) = Len(s) /\ I \subseteq J
      BY <1>1, <3>1
    <3> HIDE DEF J
    <3>3. QED
      BY <3>2, FS_Subset
  <2>4. Cardinality(W) \in Nat /\ Cardinality(I) \in Nat
    BY <1>1, <2>2, FS_CardinalityType
  <2>5. I # {} => Cardinality(W) # 0
    <3>1. I # {} => W # {}
      BY DEF W, I, Writers
    <3>2. QED
      BY <2>2, <3>1, FS_EmptySet
  <2>6. QED
    BY <1>1, <2>2, <2>3, <2>4, <2>5
<1>9. Cardinality(A) \in Nat /\ Cardinality(B) \in Nat
      /\ Cardinality(A) - Cardinality(B) <= Cardinality(A \ B)
      /\ IsFiniteSet(A \ B) /\ Cardinality(A \ B) \in Nat
  <2>1. IsFiniteSet(A) /\ IsFiniteSet(B)
    BY <1>1, <1>4, FS_Subset
  <2>2. /\ IsFiniteSet(A \ B)
        /\ Cardinality(A \ B) = Cardinality(A) - Cardinality(A \cap B)
    BY <2>1, FS_Difference
  <2> DEFINE C == A \cap B
             D == A \ B
  <2>3. C \subseteq B
    OBVIOUS
  <2> HIDE DEF C, D
  <2>4. IsFiniteSet(C) /\ Cardinality(C) <= Cardinality(B)
    BY <2>1, <2>3, FS_Subset
  <2>5. Cardinality(A) \in Nat /\ Cardinality(B) \in Nat /\ Cardinality(C) \in Nat
    BY <2>1, <2>4, FS_CardinalityType
  <2>6. Cardinality(D) = Cardinality(A) - Cardinality(C) /\ IsFiniteSet(D)
    BY <2>2 DEF C, D
  <2>7. Cardinality(D) \in Nat
    BY <2>6, FS_CardinalityType
  <2>8. Cardinality(A) - Cardinality(B) <= Cardinality(D)
    BY <2>4, <2>5, <2>6, <2>7
  <2>9. QED
    BY <2>5, <2>6, <2>7, <2>8 DEF D
<1>10. Cardinality(A \ B) <= Cardinality(W)
  <2> DEFINE D == A \ B
             f == [i \in D |-> s[i].tid]
  <2>1. f \in Injection(D, W)
    <3>1. D \subseteq I
      BY <1>4
    <3>2. \A i \in D : s[i].tid \in W
      BY <3>1 DEF W, I, Writers
    <3>3. \A i, j \in D : s[i].tid = s[j].tid => i = j
      BY <1>7
    <3> HIDE DEF D
    <3>4. QED
      BY <3>2, <3>3 DEF Injection, IsInjective
  <2> HIDE DEF D, f
  <2>2. Cardinality(D) <= Cardinality(W)
    BY <1>8, <2>1, FS_Injection
  <2>3. QED
    BY <2>2 DEF D
<1>11. Cardinality(A) - Cardinality(B) \in Int
       /\ Cardinality(A) - Cardinality(B) <= Cardinality(W)
  BY <1>8, <1>9, <1>10
<1>12. QED
  BY <1>8, <1>11 DEF Concurrency, A, B, I, W, p

LEMMA MaxOfTwo ==
    ASSUME NEW a \in Int, NEW b \in Int
    PROVE  Max({a, b}) = IF a >= b THEN a ELSE b
<1> DEFINE m == IF a >= b THEN a ELSE b
<1>1. m \in {a, b} /\ \A y \in {a, b} : m >= y
  OBVIOUS
<1>2. \A x \in {a, b} : (\A y \in {a, b} : x >= y) => x = m
  OBVIOUS
<1> HIDE DEF m
<1>3. QED
  BY <1>1, <1>2 DEF Max, m

LEMMA PeakBounded ==
    ASSUME NEW s \in Seq(LineState), Apart(s), NEW op
    PROVE  /\ MaxConcurrency(s, op) \in Nat
           /\ MaxConcurrency(s, op) <= Cardinality(Writers(s, op))
           /\ Cardinality(Writers(s, op)) \in Nat
           /\ LinesOf(s, op) # {} => Cardinality(Writers(s, op)) >= 1
<1> DEFINE V == {0} \cup {Concurrency(s, op, Point(s[i], d)) : i \in LinesOf(s, op), d \in {1, -1}}
           w == Cardinality(Writers(s, op))
<1>1. LinesOf(s, op) \subseteq 1..Len(s) /\ Len(s) \in Nat
  BY LinesFinite
<1>2. w \in Nat /\ (LinesOf(s, op) # {} => w >= 1)
  <2>1. CASE LinesOf(s, op) = {}
    <3>1. Writers(s, op) = {}
      BY <2>1 DEF Writers
    <3>2. w = 0
      BY <3>1, FS_EmptySet, Zenon
    <3>3. QED
      BY <2>1, <3>2
  <2>2. CASE LinesOf(s, op) # {}
    <3>1. PICK c \in 1..Len(s) : TRUE
      BY <1>1, <2>2
    <3>2. 1 \in {1, -1}
      OBVIOUS
    <3>3. w \in 0..Len(s) /\ w >= 1
      BY <2>2, <3>2, ConcurrencyBounded
    <3>4. QED
      BY <1>1, <3>3
  <2>3. QED
    BY <2>1, <2>2
<1>3. \A v \in V : v \in Int /\ v <= w
  <2>1. ASSUME NEW i \in LinesOf(s, op), NEW d \in {1, -1}
        PROVE  /\ Concurrency(s, op, Point(s[i], d)) \in Int
               /\ Concurrency(s, op, Point(s[i], d)) <= w
    <3>1. i \in 1..Len(s)
      BY <1>1
    <3>2. QED
      BY <3>1, ConcurrencyBounded
  <2> HIDE DEF w
  <2>2. 0 \in Int /\ 0 <= w
    BY <1>2
  <2>3. QED
    BY <2>1, <2>2
<1>4. 0 \in V
  OBVIOUS
<1> HIDE DEF V, w
<1>5. PICK m \in V \cap 0..w : \A k \in V \cap 0..w : m >= k
  <2> DEFINE U == V \cap 0..w
  <2>1. U \subseteq 0..w /\ 0 \in U
    BY <1>2, <1>4
  <2> HIDE DEF U
  <2>2. \E m \in U : \A k \in U : m >= k
    BY <1>2, <2>1, GreatestExists
  <2>3. QED
    BY <2>2 DEF U
<1>6. \A k \in V : m >= k
  BY <1>2, <1>3, <1>5
<1>7. Max(V) \in V /\ \A k \in V : Max(V) >= k
  BY <1>5, <1>6 DEF Max
<1>8. Max(V) \in Nat /\ Max(V) <= w
  BY <1>2, <1>3, <1>4, <1>7
<1>9. QED
  BY <1>2, <1>8 DEF MaxConcurrency, V, w

\* The lines of a trace are apart.
LEMMA TraceApart ==
    ASSUME IInv, ApartInv
    PROVE  Trace \in Seq(LineState) /\ Apart(Trace)
  BY TraceTyped DEF IInv, ApartInv, Apart

\* A job has no more writers, and no more readers, than there were threads that
\* wrote and read (fio.py:71-72): no two lines of one thread overlap, whatever it
\* waited for the lock of the recorder, and the sweep takes ends first.
THEOREM JobsHaveThreads == Spec => []PeakWithinThreads
<1>1. IInv /\ ApartInv => PeakWithinThreads
  <2>1. SUFFICES ASSUME IInv, ApartInv PROVE PeakWithinThreads
    OBVIOUS
  <2> DEFINE W == MaxConcurrency(Trace, "write")
             R == MaxConcurrency(Trace, "read")
             w == Cardinality(Writers(Trace, "write"))
             r == Cardinality(Writers(Trace, "read"))
  <2>2. /\ W \in Nat /\ w \in Nat /\ W <= w /\ (LinesOf(Trace, "write") # {} => w >= 1)
        /\ R \in Nat /\ r \in Nat /\ R <= r /\ (LinesOf(Trace, "read") # {} => r >= 1)
    BY <2>1, TraceApart, PeakBounded
  <2>3. CASE DominantSize(Trace, "write") = 0
    <3>1. GenerateFioJob(Trace).writers = 0 /\ GenerateFioJob(Trace).readers = 0
      BY <2>3 DEF GenerateFioJob, NoJob
    <3>2. QED
      BY <2>2, <3>1 DEF PeakWithinThreads
  <2>4. CASE DominantSize(Trace, "write") # 0
    <3>1. LinesOf(Trace, "write") # {}
      BY <2>4 DEF DominantSize
    <3>2. GenerateFioJob(Trace).writers = Max({1, W})
          /\ GenerateFioJob(Trace).readers = IF LinesOf(Trace, "read") = {} THEN 0 ELSE Max({1, R})
      BY <2>4 DEF GenerateFioJob
    <3> HIDE DEF W, R, w, r
    <3>3. Max({1, W}) = (IF 1 >= W THEN 1 ELSE W) /\ Max({1, R}) = (IF 1 >= R THEN 1 ELSE R)
      BY <2>2, MaxOfTwo
    <3>4. GenerateFioJob(Trace).writers <= w /\ GenerateFioJob(Trace).readers <= r
      BY <2>2, <3>1, <3>2, <3>3
    <3>5. QED
      BY <3>4 DEF PeakWithinThreads, w, r
  <2>5. QED
    BY <2>3, <2>4
<1>2. QED
  BY <1>1, Invariance, ApartInvariance, PTL

\* Of n files, each of w jobs gets as many, and fewer than w are left.
LEMMA SharesAdd ==
    ASSUME NEW n \in Nat, NEW w \in Nat \ {0}, w <= n
    PROVE  w * Share(n, w) \in (n - w + 1)..n
<1> DEFINE q == n \div w
           r == n % w
<1>1. n = w * q + r /\ r \in 0..(w - 1) /\ q \in Nat /\ w * q \in Nat
  OBVIOUS
<1>2. q >= 1
  <2>1. CASE q = 0
    <3>1. w * q = 0
      BY <2>1
    <3>2. n = r
      BY <1>1, <3>1
    <3>3. FALSE
      BY <1>1, <3>2
    <3>4. QED
      BY <3>3
  <2>2. QED
    BY <1>1, <2>1
<1>3. Share(n, w) = q
  <2>1. Share(n, w) = Max({1, q})
    BY DEF Share
  <2> HIDE DEF q
  <2>2. Max({1, q}) = q
    <3>1. Max({1, q}) = IF 1 >= q THEN 1 ELSE q
      BY <1>1, MaxOfTwo
    <3>2. QED
      BY <1>1, <1>2, <3>1
  <2>3. QED
    BY <2>1, <2>2
<1> HIDE DEF q, r
<1>4. QED
  BY <1>1, <1>3

\* The job covers the disk (analyze.py:193, fio.py:78-79): between two operations its
\* files are those there, one more for every write over a file and one less for every
\* removal of none, and its writers share them but for less than a file each.
THEOREM JobsCoverDisk == Spec => []JobCoversDisk
<1>1. IInv /\ ApartInv => SharesFiles
  <2>1. SUFFICES ASSUME IInv, ApartInv, GenerateFioJob(Trace) # NoJob
                 PROVE  GenerateFioJob(Trace).writers * GenerateFioJob(Trace).writeFiles \in
                            (Max({SteadyStateFiles(Trace), MinFiles})
                                 - GenerateFioJob(Trace).writers + 1)
                                ..Max({SteadyStateFiles(Trace), GenerateFioJob(Trace).writers,
                                       MinFiles})
    BY DEF SharesFiles
  <2> DEFINE W == MaxConcurrency(Trace, "write")
             s == SteadyStateFiles(Trace)
             w == Max({1, W})
             n == Max({s, w, MinFiles})
             m == Max({s, MinFiles})
  <2>2. GenerateFioJob(Trace).writers = w /\ GenerateFioJob(Trace).writeFiles = Share(n, w)
    BY <2>1 DEF GenerateFioJob
  <2>3. W \in Nat
    BY <2>1, TraceApart, PeakBounded
  <2>4. s \in Nat
    <3>1. /\ Cardinality(LinesOf(Trace, "write")) \in Nat
          /\ Cardinality(LinesOf(Trace, "remove")) \in Nat
      BY <2>1, TraceApart, LinesFinite
    <3>2. QED
      BY <3>1, MaxOfTwo DEF SteadyStateFiles
  <2> HIDE DEF W, s
  <2>5. w \in Nat \ {0}
    BY <2>3, MaxOfTwo
  <2>6. MinFiles \in Nat
    BY WorkloadAssumption
  <2> HIDE DEF w
  <2>7. n \in {s, w, MinFiles} /\ n >= s /\ n >= w /\ n >= MinFiles
    <3>1. \E x \in {s, w, MinFiles} : \A y \in {s, w, MinFiles} : x >= y
      BY <2>4, <2>5, <2>6
    <3>2. QED
      BY <3>1 DEF Max
  <2>8. m \in Nat /\ m <= n
    <3>1. m = IF s >= MinFiles THEN s ELSE MinFiles
      BY <2>4, <2>6, MaxOfTwo
    <3>2. QED
      BY <2>4, <2>6, <2>7, <3>1
  <2> HIDE DEF n, m
  <2>9. n \in Nat
    BY <2>4, <2>5, <2>6, <2>7
  <2>10. w * Share(n, w) \in (n - w + 1)..n
    BY <2>5, <2>7, <2>9, SharesAdd
  <2>11. w * Share(n, w) \in (m - w + 1)..n
    BY <2>5, <2>8, <2>9, <2>10
  <2>12. QED
    BY <2>2, <2>11 DEF n, m, s
<1>2. QED
  BY <1>1, Invariance, ApartInvariance, FilesAreOnDisk, PTL DEF JobCoversDisk

=============================================================================
