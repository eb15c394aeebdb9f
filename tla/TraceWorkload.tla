---------------------------- MODULE TraceWorkload ---------------------------
(***************************************************************************)
(* What trace/analyze.py reads off a trace, and the FIO job that           *)
(* trace/fio.py and `kvbench trace2fio` make of it.                        *)
(*                                                                         *)
(* One backend is traced.  A file holds one chunk, of a size its key       *)
(* tells.  The job is a record of the parameters the file sets.  The text  *)
(* of a size stands for what it says, in tenths of a byte since it may     *)
(* have a decimal; what FIO takes it for is not modelled.                  *)
(***************************************************************************)
EXTENDS TraceRecorder, FiniteSetsExt

CONSTANTS
    Size,       \* bytes of the file of each chunk
    MinFiles,   \* least number of files of a job
    UnitBase    \* bytes in a "K"; "M" and "G" are its powers

ASSUME WorkloadAssumption ==
    /\ Size \in [Keys -> Nat]
    /\ MinFiles \in Nat \ {0}
    /\ UnitBase \in Nat \ {0, 1}

-----------------------------------------------------------------------------
(* Analysis of a trace (trace/analyze.py) *)

\* Slip: at one time, starts come before ends.
Before_StartsFirst(a, b) == a[1] < b[1] \/ (a[1] = b[1] /\ a[2] > b[2])

\* At one time, ends come before starts.
Before(a, b) == a[1] < b[1] \/ (a[1] = b[1] /\ a[2] < b[2])

\* An end of the interval of a line: its time, and 1 if it starts there.
Point(line, d) == <<IF d = 1 THEN line.mono - line.dur ELSE line.mono, d>>

\* The lines of an operation whose start or end a sweep up to p has passed.
Passed(lines, op, d, p) == {i \in LinesOf(lines, op) : ~Before(p, Point(lines[i], d))}

Concurrency(lines, op, p) ==
    Cardinality(Passed(lines, op, 1, p)) - Cardinality(Passed(lines, op, -1, p))

\* Most intervals that overlap, at whatever point of the sweep.
MaxConcurrency(lines, op) ==
    Max({0} \cup {Concurrency(lines, op, Point(lines[i], d)) :
                      i \in LinesOf(lines, op), d \in {1, -1}})

Writers(lines, op) == {lines[i].tid : i \in LinesOf(lines, op)}

\* The most common size of the files of an operation, of two the one that came
\* first; 0 is none.
DominantSize(lines, op) ==
    LET sized == {i \in LinesOf(lines, op) : Size[lines[i].key] > 0}
        Like(i) == {j \in sized : Size[lines[j].key] = Size[lines[i].key]}
        More(i, j) == \/ Cardinality(Like(i)) > Cardinality(Like(j))
                      \/ Cardinality(Like(i)) = Cardinality(Like(j)) /\ i <= j
    IN  IF sized = {} THEN 0
        ELSE Size[lines[CHOOSE i \in sized : \A j \in sized : More(i, j)].key]

\* Slip: the operands are the wrong way round.
SteadyStateFiles_Reversed(lines) ==
    Max({0, Cardinality(LinesOf(lines, "remove")) - Cardinality(LinesOf(lines, "write"))})

\* Every removal counts, of a file or of none.
SteadyStateFiles(lines) ==
    Max({0, Cardinality(LinesOf(lines, "write")) - Cardinality(LinesOf(lines, "remove"))})

-----------------------------------------------------------------------------
(* The FIO job (trace/fio.py) *)

\* Bytes in a "K", an "M" and a "G".
Units == {UnitBase, UnitBase * UnitBase, UnitBase * UnitBase * UnitBase}

\* Ten times n / f, rounded to the nearest integer and to the even one of two.
Tenths(n, f) ==
    LET q == (10 * n) \div f
        r == (10 * n) % f
    IN  IF 2 * r > f \/ (2 * r = f /\ q % 2 = 1) THEN q + 1 ELSE q

\* Tenths of the bytes that the text of n says: a whole number of the largest
\* unit that divides it or of which it is at least four, with one decimal then.
FmtBytes(n) ==
    LET Fits(f) == n % f = 0 \/ n >= 4 * f
        units == {f \in Units : Fits(f)}
        f == Max(units)
    IN  IF units = {} \/ n % f = 0 THEN 10 * n ELSE Tenths(n, f) * f

\* The files of one of the jobs that share them.
Share(files, jobs) == Max({1, files \div jobs})

NoJob == [size |-> 0, writers |-> 0, writeFiles |-> 0, readers |-> 0, readFiles |-> 0]

\* A trace without a write, or an event, makes no job.
GenerateFioJob(lines) ==
    LET writers == Max({1, MaxConcurrency(lines, "write")})
        readers == IF LinesOf(lines, "read") = {} THEN 0
                   ELSE Max({1, MaxConcurrency(lines, "read")})
        files == Max({SteadyStateFiles(lines), writers, MinFiles})
    IN  IF DominantSize(lines, "write") = 0 THEN NoJob
        ELSE [size |-> FmtBytes(DominantSize(lines, "write")),
              writers |-> writers,
              writeFiles |-> Share(files, writers),
              readers |-> readers,
              readFiles |-> IF readers = 0 THEN 0 ELSE Share(files, readers)]

-----------------------------------------------------------------------------
(* Properties *)

\* The parallelism of a job is never more than the threads that ran the
\* operations: no two operations of one thread are taken to overlap
\* (analyze.py:125), though lines are not in time order.
PeakWithinThreads ==
    LET job == GenerateFioJob(Trace)
    IN  /\ job.writers <= Cardinality(Writers(Trace, "write"))
        /\ job.readers <= Cardinality(Writers(Trace, "read"))

\* The lines of operations that found a file of their chunk.
Found(lines, op) == {i \in LinesOf(lines, op) : lines[i].hit}

\* Writes over a file that is there, and removals of none.
Overwrites(lines) == Found(lines, "write")

Misses(lines) == LinesOf(lines, "remove") \ Found(lines, "remove")

\* The recorder is open, and no operation is under way.
Quiet == recorder.state = "open" /\ \A t \in Threads : thread[t].pc = "idle"

\* The set of files of a job stands for what is on disk between operations
\* (fio.py:75).  It is off by exactly the files that were written again, which it
\* counts twice, less the removals that found none: whatever the order in which
\* operations of several threads reached the disk and the trace.
CountsDisk ==
    Quiet => LET drift == Cardinality(Overwrites(Trace)) - Cardinality(Misses(Trace))
             IN  SteadyStateFiles(Trace) = Max({0, Cardinality(disk) + drift})

\* The writers of a job share its files but for less than a file each.
SharesFiles ==
    LET job == GenerateFioJob(Trace)
        steady == SteadyStateFiles(Trace)
    IN  job # NoJob =>
           job.writers * job.writeFiles \in
               (Max({steady, MinFiles}) - job.writers + 1)..Max({steady, job.writers, MinFiles})

\* The job covers the disk: its files are those there but for that drift, and its
\* writers have them.
JobCoversDisk == CountsDisk /\ SharesFiles

\* The block and file size of a job is the size of a chunk that was written ("bs =
\* filesize = chunk size", fio.py:118).
JobWritesChunks ==
    LET job == GenerateFioJob(Trace)
    IN  job # NoJob =>
           \E i \in LinesOf(Trace, "write") : job.size = 10 * Size[Trace[i].key]

=============================================================================
