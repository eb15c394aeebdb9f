---------------------------- MODULE MCLifecycle -----------------------------
(* Instances of Lifecycle.tla for TLC. *)
EXTENDS Lifecycle

CONSTANTS w1, w2

Nothing == [s \in Settings |-> None]
With(s, value) == [Nothing EXCEPT ![s] = value]

Call(flags, yaml, env, workers, reload) ==
    [flags |-> flags, file |-> yaml, env |-> env, workers |-> workers, reload |-> reload]

\* A single worker, two of them and --reload; the server type from a flag, the
\* file or the environment, none of them the default; a stack that is accepted
\* but cannot be started; values that validation rejects.
MCScenarios ==
    {Call(Nothing, None, Nothing, {w1}, FALSE),
     Call(Nothing, None, Nothing, {w1, w2}, FALSE),
     Call(With("server_type", "proxy"), None, Nothing, {w1, w2}, FALSE),
     Call(With("server_type", "combined"), With("server_type", "proxy"),
          With("stack", Bad), {w1, w2}, TRUE),
     Call(Nothing, With("stack", "kvbm"), With("server_type", "proxy"), {w1}, FALSE),
     Call(With("server_type", Bad), None, Nothing, {w1}, FALSE),
     Call(With("server_type", "combined"), None, With("server_type", Bad), {w1}, FALSE)}

=============================================================================
