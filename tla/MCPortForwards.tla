---- MODULE MCPortForwards ----
EXTENDS PortForwards, TLC
\* The slots are interchangeable; the projects are not (AnyProject).
SlotSymmetry == Permutations(Slot)
====
