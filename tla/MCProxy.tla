------------------------------- MODULE MCProxy ------------------------------
(***************************************************************************)
(* Instances of Proxy for TLC.                                             *)
(***************************************************************************)
EXTENDS Proxy

\* The strategy of the servers with two endpoints of each phase, the others
\* with two for decoding, where streams are selected for but not yet connected.
MCDeployments ==
    [prefill: {2}, decode: {2}, strategy: {"round_robin"}]
    \cup [prefill: {1}, decode: {2}, strategy: {"least_connections", "random"}]
    \cup [prefill: {1}, decode: {0}, strategy: {"round_robin"}]
    \cup [prefill: {0}, decode: {1}, strategy: {"round_robin"}]

=============================================================================
