----------------------------- MODULE ChatStream -----------------------------
(***************************************************************************)
(* What the clients of streaming chat completions are promised: a stream   *)
(* is one error event and nothing else, or the role, MaxTokens pieces of   *)
(* content, the finish reason and [DONE]; it may break off, and nothing    *)
(* follows once it is over.                                                *)
(***************************************************************************)
EXTENDS Naturals, Sequences, SequencesExt

CONSTANTS
    Requests,
    MaxTokens

VARIABLES
    out,   \* the kinds of the events sent, in order
    over   \* whether the response has ended

vars == <<out, over>>

Init ==
    /\ out = [r \in Requests |-> <<>>]
    /\ over = [r \in Requests |-> FALSE]

Whole == <<"role">> \o [i \in 1..MaxTokens |-> "content"] \o <<"end", "done">>

Emit(r) ==
    /\ \E e \in {"role", "content", "end", "done"} : out' = [out EXCEPT ![r] = Append(@, e)]
    /\ IsPrefix(out'[r], Whole)
    /\ UNCHANGED over

Error(r) ==
    /\ out[r] = <<>>
    /\ out' = [out EXCEPT ![r] = <<"error">>]
    /\ over' = [over EXCEPT ![r] = TRUE]

Close(r) ==
    /\ over' = [over EXCEPT ![r] = TRUE]
    /\ UNCHANGED out

Next == \E r \in Requests : ~over[r] /\ (Emit(r) \/ Error(r) \/ Close(r))

Spec == Init /\ [][Next]_vars

=============================================================================
