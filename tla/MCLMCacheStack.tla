--------------------------- MODULE MCLMCacheStack ---------------------------
(***************************************************************************)
(* Instances of LMCacheStack for TLC: one prompt or two of two chunks, one *)
(* rank or two, and a few calls.                                           *)
(***************************************************************************)
EXTENDS LMCacheStack, TLC

\* Two ranks, started once, where the builder may fail; and one rank, started
\* twice, with an engine that evicts.
MCTwoRanks == [tp |-> 2, starts |-> 1, start_fails |-> TRUE, evicts |-> FALSE]
MCOneRank == [tp |-> 1, starts |-> 2, start_fails |-> FALSE, evicts |-> TRUE]

MCDeployments == {MCTwoRanks, MCOneRank}

MCLeak == {[MCTwoRanks EXCEPT !.start_fails = FALSE]}

\* Callers and prompts are interchangeable.
MCSymmetry == Permutations(Callers) \cup Permutations(Docs)

=============================================================================
