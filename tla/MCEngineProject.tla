---- MODULE MCEngineProject ----
EXTENDS EngineProject, TLC
\* The slots are interchangeable; the names are not (AnyName is one of them).
SlotSymmetry == Permutations(Slot)
====
