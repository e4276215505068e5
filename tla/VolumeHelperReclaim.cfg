SPECIFICATION Spec
CONSTANTS
  Name = {a}
  Proc = {p, q}
  MaxLoop = 3
  MaxIno = 2
  MaxFault = 1
  MB = 4
  GB = 16
  Wide = 64
  Smallest = 8
  Largest = 40
  Block = 2
PROPERTIES ReclaimsAll
CHECK_DEADLOCK FALSE
