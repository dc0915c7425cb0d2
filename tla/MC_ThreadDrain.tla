---------------------------- MODULE MC_ThreadDrain ----------------------------
EXTENDS ThreadDrain, TLC
CONSTANTS a, b, w1, w2

\* One workspace with both leads, or one lead in each.
Together == (a :> w1) @@ (b :> w1)
Apart == (a :> w1) @@ (b :> w2)

Nightly(fs) == [may |-> fs, keep |-> FALSE]
Cli(fs) == [may |-> fs, keep |-> TRUE]

Killed == Nightly({"kill", "pull_error", "ws_error"})
Erring == Nightly({"pull_error", "append_error", "ws_error"})
Quarantining == Nightly({"apply_error", "ws_error", "ceiling", "rewrite_kill"})
Retrying == Cli({"pull_error", "apply_error"})

\* The combinations the drain survives ...
Survived == {Killed, Erring, Quarantining, Retrying}
\* One fault of any kind, a kill apart from the others.
OneFault == {Nightly({"kill"}),
             Nightly({"pull_error", "append_error", "ws_error", "apply_error", "ceiling", "rewrite_kill"})}
ASSUME SurvivedAssumption == \A s \in Survived : Survives(s) /\ CutDropped(s)
\* ... and one it does not.
KilledOnly == {Nightly({"kill"})}
=============================================================================
