SPECIFICATION Spec
CONSTANTS
  Project = {p, q}
  Port = {h}
  Slot = {r1, r2}
  User = User
  Host = Host
  Free = Free
SYMMETRY SlotSymmetry
INVARIANTS ForwardsAreDerived
PROPERTIES ReconcileSparesOthers ReconcileReclaims
