---- MODULE MCObjectStore ----
EXTENDS ObjectStore, TLC
\* The requests are interchangeable; the keys are not (Idle's).
TaskSymmetry == Permutations(Task)
====
