----------------------------- MODULE MCLockLease -----------------------------
(***************************************************************************)
(* Two instances of LockLease for TLC, told apart by setting.  "lossy" has *)
(* the constants of the configuration: operations fail, processes are slow *)
(* and the clock is short.  "prompt" is a failover of relays: a crash,     *)
(* prompt processes, and a clock that runs until the back-off of a relay   *)
(* has reached its limit.                                                  *)
(***************************************************************************)
EXTENDS LockLease, TLC

CONSTANTS a, b

VARIABLE setting

NoSkew == [x \in Clients |-> 0]

TokenSymmetry == Permutations(Tokens)

Failover == INSTANCE LockLease WITH
  Relays <- {a, b}, Lease <- 2, MaxRetries <- 2, BaseDelay <- 1, MaxDelay <- 2,
  MaxTime <- 6, Cancellable <- {}, Lossy <- FALSE, Prompt <- TRUE

MCInit == setting \in {"lossy", "prompt"} /\ Init

MCNext ==
  /\ UNCHANGED setting
  /\ \/ setting = "lossy" /\ Next
     \/ setting = "prompt" /\ Failover!Next

MCSpec == MCInit /\ [][MCNext]_<<vars, setting>>

\* FailoverIsTimely of the instance whose processes are prompt: without a fault
\* of the bucket a boundary is without a relay for less than a lease and the
\* longest back-off (runBoundary, AcquireLock).
RelayFailsOver == setting = "prompt" => Failover!FailoverIsTimely
=============================================================================
