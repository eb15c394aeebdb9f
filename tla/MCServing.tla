----------------------------- MODULE MCServing ------------------------------
(***************************************************************************)
(* Instances of Serving for TLC: two tokens per chunk, a prompt of two     *)
(* full chunks, one of a chunk they share and a token more, and no prompt. *)
(***************************************************************************)
EXTENDS Serving, TLC

MCSymmetry == Permutations(Requests)

Long == [chunks |-> <<"x", "y">>, tail |-> 0]
Short == [chunks |-> <<"x">>, tail |-> 1]
Empty == [chunks |-> <<>>, tail |-> 0]

\* Every kind of request the routes tell apart.
MCOffers ==
    [server: {"combined"}, stream: BOOLEAN, prompt: {Long}]
    \cup [server: {"combined"}, stream: {TRUE}, prompt: {Short}]
    \cup [server: {"prefill"}, stream: {FALSE}, prompt: {Long}]
    \cup [server: {"prefill"}, stream: {TRUE}, prompt: {Short}]
    \cup [server: {"combined"}, stream: {FALSE}, prompt: {Empty}]
    \cup [server: {"decode"}, stream: BOOLEAN, prompt: {Long}]
    \cup [server: {"decode"}, stream: {TRUE}, prompt: {Empty}]

\* One stream at a decode server.
MCDecodeStream == [server: {"decode"}, stream: {TRUE}, prompt: {Long}]

=============================================================================
