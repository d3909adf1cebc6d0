----------------------------- MODULE MCSelector -----------------------------
\* Model values for SourceSelector.
EXTENDS SourceSelector, TLC

\* Sources and threads are interchangeable.
Symmetry == Permutations(Sources) \cup Permutations(Threads)
=============================================================================
