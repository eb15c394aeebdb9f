---------------------------- MODULE TraceRecorder ---------------------------
(***************************************************************************)
(* The trace of storage operations (trace/recorder.py).                    *)
(*                                                                         *)
(* Threads of the engine run operations of a storage backend through the   *)
(* wrappers of the recorder: a put is recorded and then submitted, all     *)
(* others are run and then recorded.  A recorder lives in one process; the *)
(* next process opens the same file again.  What holds the lock is one     *)
(* action: all that others read without it is _closed.                     *)
(***************************************************************************)
EXTENDS Integers, Sequences, FiniteSets

CONSTANTS
    Threads,        \* threads of the storage backend
    Keys,           \* chunk keys
    Ops,            \* operations: put, write, remove and others
    FlushRecords,   \* FLUSH_EVERY_RECORDS
    FlushTicks,     \* FLUSH_EVERY_SECONDS
    MaxOps,         \* bound: operations of one process
    MaxTime         \* bound: ticks of one process

ASSUME RecorderAssumption ==
    /\ {"put", "write", "remove"} \subseteq Ops
    /\ {FlushRecords, FlushTicks} \subseteq Nat \ {0}
    /\ {MaxOps, MaxTime} \subseteq Nat

VARIABLES
    recorder,   \* state of the recorder, its counters and flush policy
    clock,      \* perf_counter since _mono0
    buffer,     \* lines written to the file object and not flushed
    file,       \* lines in the file
    thread,     \* the operation each thread runs
    submitted,  \* external: puts of each key the backend has not written yet
    disk,       \* external: chunks that have a file
    begun       \* operations begun in this process

vars == <<recorder, clock, buffer, file, thread, submitted, disk, begun>>

Idle == [pc |-> "idle", op |-> "put", key |-> CHOOSE k \in Keys : TRUE,
         start |-> 0, dur |-> 0, mono |-> 0, hit |-> TRUE]

NewRecorder == [state |-> "open", unflushed |-> 0, lastFlush |-> 0,
                counters |-> [op \in Ops |-> 0]]

Init ==
    /\ recorder = [NewRecorder EXCEPT !.state = "none"]
    /\ clock = 0
    /\ buffer = <<>>
    /\ file = <<>>
    /\ thread = [t \in Threads |-> Idle]
    /\ submitted = [k \in Keys |-> 0]
    /\ disk = {}
    /\ begun = 0

\* What the process that records has done so far.
Trace == file \o buffer

-----------------------------------------------------------------------------

\* A process opens the trace, over that of an earlier one.
Open ==
    /\ recorder.state \in {"none", "dead"}
    /\ recorder' = NewRecorder
    /\ clock' = 0
    /\ file' = <<>>
    /\ begun' = 0
    /\ submitted' = [k \in Keys |-> 0]
    /\ disk' = {}
    /\ UNCHANGED <<buffer, thread>>

Alive == recorder.state \in {"open", "closed"}

\* Slip: a put is submitted and then recorded, like the other operations.
RecordedFirst_None == {}

\* The wrapper of put records it before it calls the original.
RecordedFirst == {"put"}

\* A thread calls a wrapper.  The backend writes what was submitted to it,
\* and reads a file that is there.
Begin(t, op, k) ==
    /\ Alive
    /\ thread[t].pc = "idle"
    /\ begun < MaxOps
    /\ op = "write" => submitted[k] > 0
    /\ op = "read" => k \in disk
    /\ thread' = [thread EXCEPT ![t] =
                     [Idle EXCEPT !.pc = IF op \in RecordedFirst THEN "recording" ELSE "running",
                                  !.op = op, !.key = k, !.start = clock]]
    /\ submitted' = [submitted EXCEPT ![k] = @ - (IF op = "write" THEN 1 ELSE 0)]
    /\ begun' = begun + 1
    /\ UNCHANGED <<recorder, clock, buffer, file, disk>>

\* What the original does to the files of the chunks.
OnDisk(op, k) ==
    CASE op = "write" -> disk \cup {k}
      [] op = "remove" -> disk \ {k}
      [] OTHER -> disk

\* The original returns: its duration is recorded afterwards, and of a removal
\* whether it hit a file.  hit is kept of the other operations as history, which
\* nothing reads.
Returns(t) ==
    LET o == thread[t]
    IN  /\ o.pc = "running"
        /\ thread' = [thread EXCEPT ![t] =
                         IF o.op \in RecordedFirst THEN Idle
                         ELSE [o EXCEPT !.pc = "recording", !.dur = clock - o.start,
                                        !.hit = o.key \in disk]]
        /\ disk' = OnDisk(o.op, o.key)
        /\ submitted' = [submitted EXCEPT ![o.key] = @ + (IF o.op = "put" THEN 1 ELSE 0)]
        /\ UNCHANGED <<recorder, clock, buffer, file, begun>>

\* The original raises: nothing is recorded that has not been.
OpRaises(t) ==
    /\ thread[t].pc = "running"
    /\ thread' = [thread EXCEPT ![t] = Idle]
    /\ UNCHANGED <<recorder, clock, buffer, file, submitted, disk, begun>>

\* record() has returned: the wrapper returns too, or calls the original.
Leaves(t) ==
    thread' = [thread EXCEPT ![t] =
                 IF @.op \in RecordedFirst THEN [@ EXCEPT !.pc = "running"] ELSE Idle]

\* record() up to its lock: the line gets its time.
Stamp(t) ==
    /\ thread[t].pc = "recording"
    /\ \/ /\ recorder.state = "open"
          /\ thread' = [thread EXCEPT ![t].pc = "stamped", ![t].mono = clock]
       \/ /\ recorder.state = "closed"
          /\ Leaves(t)
    /\ UNCHANGED <<recorder, clock, buffer, file, submitted, disk, begun>>

Line(t) == [op |-> thread[t].op, key |-> thread[t].key, tid |-> t,
            dur |-> thread[t].dur, mono |-> thread[t].mono, hit |-> thread[t].hit]

Due == \/ recorder.unflushed + 1 >= FlushRecords
       \/ clock - recorder.lastFlush >= FlushTicks

Flushed == [recorder EXCEPT !.unflushed = 0, !.lastFlush = clock]

\* The line is written to the file object and counted; some lines flush it.
Write(line) ==
    \/ /\ Due
       /\ file' = Trace \o <<line>>
       /\ buffer' = <<>>
       /\ recorder' = [Flushed EXCEPT !.counters[line.op] = @ + 1]
    \/ /\ ~Due
       /\ buffer' = Append(buffer, line)
       /\ recorder' = [recorder EXCEPT !.counters[line.op] = @ + 1, !.unflushed = @ + 1]
       /\ UNCHANGED file

\* Slip: _closed is not read again under the lock.
Record_Unchecked(t) ==
    /\ thread[t].pc = "stamped"
    /\ Write(Line(t))
    /\ Leaves(t)
    /\ UNCHANGED <<clock, submitted, disk, begun>>

\* record() under its lock: what was closed meanwhile is left alone.
Record(t) ==
    /\ thread[t].pc = "stamped"
    /\ \/ /\ recorder.state = "open"
          /\ Write(Line(t))
       \/ /\ recorder.state = "closed"
          /\ UNCHANGED <<recorder, buffer, file>>
    /\ Leaves(t)
    /\ UNCHANGED <<clock, submitted, disk, begun>>

Close ==
    /\ recorder.state = "open"
    /\ recorder' = [recorder EXCEPT !.state = "closed"]
    /\ file' = Trace
    /\ buffer' = <<>>
    /\ UNCHANGED <<clock, thread, submitted, disk, begun>>

\* The process exits, or is killed with what it did not flush.
Exit ==
    /\ Alive
    /\ recorder' = [recorder EXCEPT !.state = "dead"]
    /\ buffer' = <<>>
    /\ thread' = [t \in Threads |-> Idle]
    /\ UNCHANGED <<clock, file, submitted, disk, begun>>

Tick ==
    /\ Alive
    /\ clock < MaxTime
    /\ clock' = clock + 1
    /\ UNCHANGED <<recorder, buffer, file, thread, submitted, disk, begun>>

Next ==
    \/ Open \/ Close \/ Exit \/ Tick
    \/ \E t \in Threads :
          \/ \E op \in Ops, k \in Keys : Begin(t, op, k)
          \/ Returns(t) \/ OpRaises(t) \/ Stamp(t) \/ Record(t)

Spec == Init /\ [][Next]_vars

-----------------------------------------------------------------------------
(* Properties *)

ThreadType ==
    [pc: {"idle", "running", "recording", "stamped"}, op: Ops, key: Keys,
     start: 0..MaxTime, dur: 0..MaxTime, mono: 0..MaxTime, hit: BOOLEAN]

LineType ==
    [op: Ops, key: Keys, tid: Threads, dur: 0..MaxTime, mono: 0..MaxTime, hit: BOOLEAN]

\* Between two calls fewer than FlushRecords records wait to be flushed.
TypeOK ==
    /\ recorder \in [state: {"none", "open", "closed", "dead"},
                     unflushed: 0..(FlushRecords - 1), lastFlush: 0..MaxTime,
                     counters: [Ops -> 0..MaxOps]]
    /\ clock \in 0..MaxTime
    /\ buffer \in Seq(LineType)
    /\ file \in Seq(LineType)
    /\ thread \in [Threads -> ThreadType]
    /\ submitted \in [Keys -> 0..MaxOps]
    /\ disk \subseteq Keys
    /\ begun \in 0..MaxOps

\* Numbers of the lines of an operation, and of those about one chunk.
LinesOf(lines, op) == {i \in 1..Len(lines) : lines[i].op = op}

LinesAbout(lines, op, k) == {i \in LinesOf(lines, op) : lines[i].key = k}

\* What is counted and not in the file, operation by operation.
Lost == UNION {{<<op, n>> : n \in (Cardinality(LinesOf(file, op)) + 1)..recorder.counters[op]} :
               op \in Ops}

\* The counters Prometheus reads are the lines of the trace, operation by
\* operation: all are in the file once it is closed, and a process that is
\* killed loses fewer than FlushRecords of them.
LinesAreCounted ==
    /\ Alive => \A op \in Ops : recorder.counters[op] = Cardinality(LinesOf(Trace, op))
    /\ recorder.state = "closed" => buffer = <<>>
    /\ recorder.state = "dead" =>
          /\ \A op \in Ops : recorder.counters[op] >= Cardinality(LinesOf(file, op))
          /\ Cardinality(Lost) < FlushRecords

\* The trace shows no write of a chunk before the put it belongs to, in
\* whatever order threads get the lock and whenever it is closed or cut off.
PutsPrecedeWrites ==
    \A k \in Keys, n \in 0..Len(Trace) :
        Cardinality(LinesAbout(Trace, "write", k) \cap 1..n)
            <= Cardinality(LinesAbout(Trace, "put", k) \cap 1..n)

=============================================================================
