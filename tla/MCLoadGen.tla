----------------------------- MODULE MCLoadGen -----------------------------
\* TLC instance of LoadGen; the numbers are in the cfg.
EXTENDS LoadGen
=============================================================================
