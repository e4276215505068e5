SPECIFICATION Spec
CONSTANTS
  Name = {s}
  Machine = {a, b}
  Body = {x, y}
  Req = {r1, r2}
  NoBody = NoBody
  NoOp = NoOp
  TTL = 1
  MaxId = 1
  MaxFence = 2
  MaxTime = 1
SYMMETRY Symmetry
PROPERTY RefusedUploadLeavesBundle
