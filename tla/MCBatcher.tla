----------------------------- MODULE MCBatcher -----------------------------
\* TLC instance of Batcher: requests, workers and closers are interchangeable.
EXTENDS Batcher, TLC

MCSymmetry == Permutations(Requests) \cup Permutations(Workers) \cup Permutations(Closers)
=============================================================================
