----------------------------- MODULE MCProfiler -----------------------------
\* TLC instance of Profiler: one gang, its members are interchangeable.
EXTENDS Profiler, TLC

OneGang == [p \in Pods |-> "g"]
MCSymmetry == Permutations(Pods)
=============================================================================
