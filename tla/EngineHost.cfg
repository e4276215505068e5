SPECIFICATION Spec
CONSTANTS
  Name = {p}
  Slot = {r1, r2}
SYMMETRY SlotSymmetry
INVARIANT NeverOnHost
