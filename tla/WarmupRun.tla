----------------------------- MODULE WarmupRun ------------------------------
(***************************************************************************)
(* What a client of the warmup API is promised (WarmupState and the class  *)
(* docstring of servers/warmup.py): one run at a time, its byte count      *)
(* starts at zero and only grows, and only while the run is on or after it *)
(* failed, every run ends, and the state of the last run stays as it ended *)
(* until the next one starts.                                              *)
(***************************************************************************)
EXTENDS Naturals

VARIABLES
    state,   \* WarmupState.state
    stored,  \* WarmupState.stored_bytes
    run      \* number of the run the status is about

vars == <<state, stored, run>>

Outcomes == {"done", "cancelled", "error"}

Init ==
    /\ state = "idle"
    /\ stored = 0
    /\ run = 0

Begin ==
    /\ state # "running"
    /\ state' = "running"
    /\ stored' = 0
    /\ run' = run + 1

Progress ==
    /\ state = "running"
    /\ stored' > stored
    /\ UNCHANGED <<state, run>>

Finish ==
    /\ state = "running"
    /\ state' \in Outcomes
    /\ UNCHANGED <<stored, run>>

\* gather leaves the other workers of a failed run alone (line 199), and what they
\* store is still added to its count.
Straggle ==
    /\ state = "error"
    /\ stored' > stored
    /\ UNCHANGED <<state, run>>

Next == Begin \/ Progress \/ Finish \/ Straggle

Spec == Init /\ [][Next]_vars /\ WF_vars(Finish)

=============================================================================
