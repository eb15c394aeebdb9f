------------------------------ MODULE MCWarmup ------------------------------
(***************************************************************************)
(* Instances of Warmup for TLC: two tokens per chunk, one byte per token,  *)
(* tiers that one sequence or two fill.                                    *)
(***************************************************************************)
EXTENDS Warmup, TLC

\* The clients are interchangeable; used by the runs without a temporal property.
MCSymmetry == Permutations(Clients)

\* With tiers of one sequence: fill_factor 1.5 with two workers, which takes two
\* sequences and may take a third; and one worker for exactly two sequences.
MCRequests ==
    {[target |-> 0, fill |-> 150, seq_tokens |-> 3, concurrency |-> 2],
     [target |-> 4, fill |-> 150, seq_tokens |-> 2, concurrency |-> 1]}

\* Two workers for one sequence: whichever is first, the other overshoots.
MCOne == {[target |-> 2, fill |-> 150, seq_tokens |-> 2, concurrency |-> 2]}

\* Three workers for one sequence.
MCCrew == {[target |-> 2, fill |-> 150, seq_tokens |-> 2, concurrency |-> 3]}

-----------------------------------------------------------------------------
(* Two instances in one: two runs of one or two workers with one client and *)
(* no faults, where a run may meet what the last one left; and one run of   *)
(* three workers with faults and clients that cancel beside each other.     *)

MCFill == MCRequests \cup MCCrew

MCLone == CHOOSE c \in Clients : TRUE

\* One client, which does nothing before it is answered, and no faults.
MCQuiet ==
    /\ \A c \in Clients : client[c] # 0 => c = MCLone
    /\ \A w \in WorkerIds : worker[w].pc # "failed"
    /\ task.hit # "raised"

\* A crew's run is first and last, and is the one with faults and rival clients.
MCNext ==
    /\ Next
    /\ run' # run => /\ \A q \in MCCrew : status.concurrency # q.concurrency
                     /\ \A c \in Clients : client[c] = 0
    /\ \/ run' <= 1 /\ \E q \in MCCrew : status'.concurrency = q.concurrency
       \/ MCQuiet' /\ \A q \in MCCrew : status'.concurrency # q.concurrency

MCSpec == Init /\ [][MCNext]_vars /\ Fairness

=============================================================================
