SPECIFICATION Spec
CONSTANTS
  Pid = {p1, p2}
  NoPid = NoPid
  MaxRestarts = 1
  MaxFaults = 1
INVARIANT
  KeyIsUsable
