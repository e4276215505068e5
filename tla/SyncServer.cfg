SPECIFICATION Spec
CONSTANTS
  Name = {s}
  Machine = {a, b}
  Body = {x}
  Req = {r1, r2}
  NoBody = NoBody
  NoOp = NoOp
  TTL = 1
  MaxId = 2
  MaxFence = 2
  MaxTime = 3
SYMMETRY Symmetry
INVARIANTS
  LeaseIsNewestGrant
  RecordedBundleExists
PROPERTIES
  SupersededNeverActs
  LiveLeaseIsKept
  ImplementsSessions
