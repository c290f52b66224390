\* As LogicalIp.cfg: is an address ever left to two names?
CONSTANTS
  Name = {n1, n2, n3, n4}
  Conf <- Small
  MaxClock = 4
SPECIFICATION Spec
INVARIANTS OneNamePerAddress
CHECK_DEADLOCK FALSE
