SPECIFICATION Spec
CONSTANTS
  Starts <- MCStarts
  Env <- MCEnv
  BindMaxAttempts = 2
  Leftovers <- MCLeftovers
  AddressOf <- MCAddressOf
  NoAddress = 99
  MaxFail = 1
  Requests <- MCRequests
  KeyOrder <- MCKeyOrder
INVARIANTS TypeOK ReadsAsWritten ServesAsWritten LineByLine RequestRead EchoFaithful FailuresContained
PROPERTY StartsUp
