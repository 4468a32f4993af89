\* One client of each kind: in the code the clients of one lock are all relays or
\* all subscriptions, so this has the behaviours of both and more.  The constants
\* of the prompt setting are in the module.
SPECIFICATION MCSpec
CONSTANTS
  a = a
  b = b
  Clients = {a, b}
  Relays = {a}
  Tokens = {t1, t2, t3}
  NoToken = NoToken
  Lease = 1
  Heartbeat = 1
  MaxRetries = 1
  RetryDelay = 1
  BaseDelay = 1
  MaxDelay = 1
  Skew <- NoSkew
  MaxTime = 2
  Cancellable = {b}
  MaxFaults = 1
  Lossy = TRUE
  Prompt = FALSE
SYMMETRY TokenSymmetry
INVARIANTS
  AtMostOneValid
  RelayFailsOver
PROPERTIES
  ChecksFollowOwnership
  ReleaseKeepsReplacement
CHECK_DEADLOCK FALSE
