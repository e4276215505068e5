SPECIFICATION Spec
CONSTANTS
  Name = {p, q}
  Slot = {r1, r2}
  Nobody = Nobody
  MaxSessions = 1
  Legacy = {q}
  Wedging = TRUE
SYMMETRY SlotSymmetry
INVARIANT IndicesUnique
