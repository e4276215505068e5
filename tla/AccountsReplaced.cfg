SPECIFICATION Spec
CONSTANTS
  Runner = {a, b}
  MaxReg = 2
  MaxTok = 2
  MaxFail = 1
INVARIANT ReplacedCodeConfirmsNothing
