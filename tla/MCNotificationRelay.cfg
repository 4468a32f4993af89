SPECIFICATION Spec
CONSTANTS
  s1 = s1
  s2 = s2
  b1 = b1
  b2 = b2
  c1 = c1
  Servers = {s1, s2}
  Boundaries = {b1, b2}
  Calls = {c1}
  ServerOf <- CallServer
  BoundaryOf <- CallBoundary
  Startup = {b1}
  None = None
  MaxCommits = 1
  MaxFaults = 1
  Stoppable = {s1}
INVARIANTS
  NoLostWakeup
  StoppedHoldsNothing
  NoStrandedRegistration
CHECK_DEADLOCK FALSE
