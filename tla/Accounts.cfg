SPECIFICATION Spec
CONSTANTS
  Runner = {a, b}
  MaxReg = 2
  MaxTok = 2
  MaxFail = 1
INVARIANTS Recoverable StoredAccountIsGood StoredAccountIsWhole FailuresBounded WrongCodeLosesNothing
