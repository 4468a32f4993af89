------------------------------ MODULE LockLease ------------------------------
(***************************************************************************)
(* The lock of orisun/jetstream_lock_provider.go: one key of a JetStream   *)
(* key-value bucket, for which clients contend.  A client is a caller of   *)
(* AcquireLock that checks its lease before each piece of work: a relay,   *)
(* which backs off and tries again whenever it has not got the lease or no *)
(* longer has it, or a subscription, which ends then: a stream that is     *)
(* opened again is another client.                                         *)
(*                                                                         *)
(* pc[c] is where the goroutine of the provider is: in AcquireLock         *)
(* ("create" to "wait"), or in maintain ("hold" to "done").  use[c] is     *)
(* where the caller is that holds the lease.  Every write of the bucket is *)
(* conditional on a revision; a write whose caller has given up stays in   *)
(* late and may still arrive.                                              *)
(***************************************************************************)
EXTENDS Integers, FiniteSets

CONSTANTS
  Clients,      \* callers of AcquireLock for one lock name
  Relays,       \* the clients that are relays
  Tokens,       \* the UUIDs that identify leases
  NoToken,      \* the key does not exist, or was deleted
  Lease,        \* leaseDuration
  Heartbeat,    \* heartbeatInterval
  MaxRetries,   \* maxRetries
  RetryDelay,   \* retryDelay
  BaseDelay,    \* Backoff.Base and
  MaxDelay,     \* Backoff.Max of a relay
  Skew,         \* how far the clock of each client is ahead
  MaxTime,      \* bound: the clock stops here
  MaxFaults,    \* bound: how often an operation fails or a client crashes
  Cancellable,  \* the clients whose context may end
  Lossy,        \* operations of the bucket may fail
  Prompt        \* what can be done is done before the clock advances

ASSUME LeaseAssumption ==
  /\ NoToken \notin Tokens
  /\ Relays \subseteq Clients
  /\ Lease \in Nat \ {0} /\ Heartbeat \in Nat \ {0} /\ MaxRetries \in Nat \ {0}
  /\ RetryDelay \in Nat /\ BaseDelay \in Nat /\ MaxDelay \in Nat
  /\ BaseDelay <= MaxDelay
  /\ Skew \in [Clients -> Int]
  /\ MaxTime \in Nat /\ MaxFaults \in Nat
  /\ Cancellable \subseteq Clients
  /\ Lossy \in BOOLEAN /\ Prompt \in BOOLEAN

VARIABLES
  now,          \* time
  kv,           \* the entry of the key
  late,         \* writes under way whose caller does not wait for them
  pc,           \* the goroutine of the provider that serves a client
  token,        \* lease.token
  attempt,      \* the loop counter of AcquireLock and of releaseRemote
  captured,     \* the time read before a write that sets an expiry
  seen,         \* the revision returned by the last Get
  wakeAt,       \* the end of a delay
  pause,        \* Backoff.cur of a relay: how long it backs off next
  beat,         \* when the ticker of maintain fires next
  revision,     \* lease.revision
  expires,      \* lease.expires
  lost,         \* lease.lost is closed
  stop,         \* lease.stop is closed
  cancelled,    \* the context given to AcquireLock is done
  use,          \* the caller that holds the lease
  acquired,     \* history: the revision at which the lease was acquired
  newest,       \* history: acquired of the last lease that passed a check
  vacant,       \* history: how long nobody holds the lock (when Prompt)
  faults        \* bound: the number of faults

leaseVars == <<revision, expires, lost, stop, acquired>>
loopVars == <<attempt, captured, seen>>
timers == <<wakeAt, pause, beat>>
history == <<newest, vacant>>
vars == <<now, kv, late, pc, token, loopVars, timers, leaseVars, cancelled, use,
          history, faults>>

Clock(c) == now + Skew[c]

Maintained == {"hold", "renew", "verify", "inspect", "delete"}
Holding == {c \in Clients : pc[c] \in Maintained}
Alive == {c \in Relays : pc[c] # "crashed" /\ c \notin cancelled}

Init ==
  /\ now = 0
  /\ kv = [token |-> NoToken, expires |-> 0, revision |-> 0]
  /\ late = {}
  /\ pc = [c \in Clients |-> "idle"]
  /\ token = [c \in Clients |-> NoToken]
  /\ attempt = [c \in Clients |-> 0]
  /\ captured = [c \in Clients |-> 0]
  /\ seen = [c \in Clients |-> 0]
  /\ wakeAt = [c \in Clients |-> 0]
  /\ pause = [c \in Clients |-> BaseDelay]
  /\ beat = [c \in Clients |-> 0]
  /\ revision = [c \in Clients |-> 0]
  /\ expires = [c \in Clients |-> 0]
  /\ lost = {}
  /\ stop = {}
  /\ cancelled = {}
  /\ use = [c \in Clients |-> "out"]
  /\ acquired = [c \in Clients |-> 0]
  /\ newest = 0
  /\ vacant = 0
  /\ faults = 0

-----------------------------------------------------------------------------
(* The bucket: a write is accepted only at the revision it expects.         *)

Accepts(expected) == kv.revision = expected

Store(t, e) == kv' = [token |-> t, expires |-> e, revision |-> kv.revision + 1]

\* The write a client may have sent at its present step.
InFlight(c) ==
  LET write(t, e, r) ==
        {[from |-> token[c], token |-> t, expires |-> e, expected |-> r]} IN
  CASE pc[c] = "create" /\ kv.token = NoToken ->
         write(token[c], captured[c] + Lease, kv.revision)
    [] pc[c] = "reclaim" -> write(token[c], captured[c] + Lease, seen[c])
    [] pc[c] = "renew" -> write(token[c], captured[c] + Lease, revision[c])
    [] pc[c] = "delete" -> write(NoToken, 0, seen[c])
    [] OTHER -> {}

\* An operation of c ends with an error that is not an answer of the bucket:
\* it failed, or its context is done.
OpFails(done) ==
  \/ done /\ UNCHANGED faults
  \/ Lossy /\ faults < MaxFaults /\ faults' = faults + 1

\* Its write is dropped or arrives later.
Unanswered(c) == late' \in {late, late \cup InFlight(c)}

LateArrives ==
  \E w \in late :
    /\ Accepts(w.expected)
    /\ late' = late \ {w}
    /\ Store(w.token, w.expires)
    /\ UNCHANGED <<now, pc, token, loopVars, timers, leaseVars, cancelled, use,
                   history, faults>>

LateDropped ==
  \E w \in late :
    /\ late' = late \ {w}
    /\ UNCHANGED <<now, kv, pc, token, loopVars, timers, leaseVars, cancelled,
                   use, history, faults>>

-----------------------------------------------------------------------------
(* AcquireLock                                                              *)

InUse == {token[c] : c \in Clients} \cup {w.from : w \in late} \cup {kv.token}

\* A caller starts: a fresh token, and the first attempt.
Begin(c) ==
  /\ pc[c] = "idle" /\ c \notin cancelled /\ now >= wakeAt[c]
  /\ \E t \in Tokens \ InUse : token' = [token EXCEPT ![c] = t]
  /\ captured' = [captured EXCEPT ![c] = Clock(c)]
  /\ pc' = [pc EXCEPT ![c] = "create"]
  /\ wakeAt' = [wakeAt EXCEPT ![c] = 0]
  /\ UNCHANGED <<now, kv, late, attempt, seen, pause, beat, leaseVars, cancelled,
                 use, history, faults>>

\* The local variables of a loop go out of scope.
EndLoop(c) ==
  /\ attempt' = [attempt EXCEPT ![c] = 0]
  /\ captured' = [captured EXCEPT ![c] = 0]
  /\ seen' = [seen EXCEPT ![c] = 0]

\* b.cur *= 2, capped at Max
NextPause(p) == IF 2 * p > MaxDelay THEN MaxDelay ELSE 2 * p

\* A relay waits for backoff.cur and up to half of it more before it asks
\* again; nothing ever resets backoff.  A subscription returns the error and ends
\* (SubscribeToAllEvents).
BackOff(c) ==
  \/ /\ c \in Relays
     /\ pc' = [pc EXCEPT ![c] = "idle"]
     /\ \E jitter \in 0..(pause[c] \div 2) :
          wakeAt' = [wakeAt EXCEPT ![c] = now + pause[c] + jitter]
     /\ pause' = [pause EXCEPT ![c] = NextPause(pause[c])]
  \/ /\ c \notin Relays
     /\ pc' = [pc EXCEPT ![c] = "ended"]
     /\ UNCHANGED <<wakeAt, pause>>

\* AcquireLock returns an error, or the lease it returned has been released.
GiveUp(c) ==
  /\ BackOff(c)
  /\ token' = [token EXCEPT ![c] = NoToken]
  /\ EndLoop(c)

\* attempt+1 < maxRetries
MayRetry(c) == attempt[c] + 1 < MaxRetries

\* The delay before the next attempt, if there is one left.
NextAttempt(c) ==
  \/ /\ MayRetry(c)
     /\ pc' = [pc EXCEPT ![c] = "wait"]
     /\ wakeAt' = [wakeAt EXCEPT ![c] = now + RetryDelay]
     /\ UNCHANGED <<token, loopVars, pause>>
  \/ ~MayRetry(c) /\ GiveUp(c)

\* Fault: the time is read once, before the loop.
AgainSameTime(c) ==
  /\ attempt' = [attempt EXCEPT ![c] = @ + 1]
  /\ pc' = [pc EXCEPT ![c] = "create"]
  /\ wakeAt' = [wakeAt EXCEPT ![c] = 0]
  /\ UNCHANGED <<token, captured, seen, pause>>

\* The top of the loop, for the next attempt: the time is read again.
Again(c) ==
  /\ attempt' = [attempt EXCEPT ![c] = @ + 1]
  /\ captured' = [captured EXCEPT ![c] = Clock(c)]
  /\ pc' = [pc EXCEPT ![c] = "create"]
  /\ wakeAt' = [wakeAt EXCEPT ![c] = 0]
  /\ UNCHANGED <<token, seen, pause>>

\* Fault: the lease starts when the answer comes, not when it was asked for.
LeaseUntilAnswer(c) == Clock(c) + Lease

\* The expiry written to the bucket and kept in the handle.
LeaseUntil(c) == captured[c] + Lease

\* The write of c has been accepted: startLease.
StartLease(c) ==
  /\ Store(token[c], captured[c] + Lease)
  /\ revision' = [revision EXCEPT ![c] = kv.revision + 1]
  /\ acquired' = [acquired EXCEPT ![c] = kv.revision + 1]
  /\ expires' = [expires EXCEPT ![c] = LeaseUntil(c)]
  /\ lost' = lost \ {c}
  /\ stop' = stop \ {c}
  /\ beat' = [beat EXCEPT ![c] = now + Heartbeat]
  /\ pc' = [pc EXCEPT ![c] = "hold"]
  /\ use' = [use EXCEPT ![c] = "ready"]
  /\ vacant' = 0
  /\ EndLoop(c)
  /\ UNCHANGED <<late, token, wakeAt, pause, faults>>

Create(c) ==
  /\ pc[c] = "create"
  /\ \/ kv.token = NoToken /\ StartLease(c)
     \/ /\ kv.token # NoToken
        /\ pc' = [pc EXCEPT ![c] = "get"]
        /\ UNCHANGED <<kv, late, token, loopVars, timers, leaseVars, use,
                       vacant, faults>>
     \/ /\ OpFails(c \in cancelled) /\ Unanswered(c) /\ GiveUp(c)
        /\ UNCHANGED <<kv, beat, leaseVars, use, vacant>>
  /\ UNCHANGED <<now, cancelled, newest>>

\* current.ExpiresUnixNano <= now.UnixNano()
Expired(c) == kv.expires <= captured[c]

Get(c) ==
  /\ pc[c] = "get"
  /\ \/ /\ c \notin cancelled /\ kv.token = NoToken
        /\ IF MayRetry(c) THEN Again(c) ELSE GiveUp(c)
        /\ UNCHANGED faults
     \/ /\ c \notin cancelled /\ kv.token # NoToken /\ Expired(c)
        /\ seen' = [seen EXCEPT ![c] = kv.revision]
        /\ pc' = [pc EXCEPT ![c] = "reclaim"]
        /\ UNCHANGED <<token, attempt, captured, wakeAt, pause, faults>>
     \/ /\ c \notin cancelled /\ kv.token # NoToken /\ ~Expired(c)
        /\ NextAttempt(c) /\ UNCHANGED faults
     \/ OpFails(c \in cancelled) /\ GiveUp(c)
  /\ UNCHANGED <<now, kv, late, beat, leaseVars, cancelled, use, history>>

Reclaim(c) ==
  /\ pc[c] = "reclaim"
  /\ \/ Accepts(seen[c]) /\ StartLease(c)
     \/ /\ ~Accepts(seen[c]) /\ NextAttempt(c)
        /\ UNCHANGED <<kv, late, beat, leaseVars, use, vacant, faults>>
     \/ /\ OpFails(c \in cancelled) /\ Unanswered(c) /\ NextAttempt(c)
        /\ UNCHANGED <<kv, beat, leaseVars, use, vacant>>
  /\ UNCHANGED <<now, cancelled, newest>>

Retry(c) ==
  /\ pc[c] = "wait"
  /\ \/ c \notin cancelled /\ now >= wakeAt[c] /\ Again(c)
     \/ c \in cancelled /\ GiveUp(c)
  /\ UNCHANGED <<now, kv, late, beat, leaseVars, cancelled, use, history,
                 faults>>

-----------------------------------------------------------------------------
(* maintain: renewals, and the release of the key when the lease ends.      *)

\* lease.ctx is done.
CtxDone(c) == c \in lost \/ c \in cancelled \/ pc[c] = "done"

\* The ticker fires; with its context done, Update fails at once.
Beat(c) ==
  /\ pc[c] = "hold" /\ now >= beat[c]
  /\ captured' = [captured EXCEPT ![c] = Clock(c)]
  /\ beat' = [beat EXCEPT ![c] = now + Heartbeat]
  /\ pc' = [pc EXCEPT ![c] = IF CtxDone(c) THEN "verify" ELSE "renew"]
  /\ UNCHANGED <<now, kv, late, token, attempt, seen, wakeAt, pause, leaseVars,
                 cancelled, use, history, faults>>

Renew(c) ==
  /\ pc[c] = "renew"
  /\ \/ /\ Accepts(revision[c])
        /\ Store(token[c], captured[c] + Lease)
        /\ revision' = [revision EXCEPT ![c] = kv.revision + 1]
        /\ expires' = [expires EXCEPT ![c] = captured[c] + Lease]
        /\ pc' = [pc EXCEPT ![c] = "hold"]
        /\ UNCHANGED <<late, faults>>
     \/ /\ ~Accepts(revision[c])
        /\ pc' = [pc EXCEPT ![c] = "verify"]
        /\ UNCHANGED <<kv, late, revision, expires, faults>>
     \/ /\ OpFails(CtxDone(c)) /\ Unanswered(c)
        /\ pc' = [pc EXCEPT ![c] = "verify"]
        /\ UNCHANGED <<kv, revision, expires>>
  /\ EndLoop(c)
  /\ UNCHANGED <<now, token, timers, lost, stop, acquired, cancelled, use,
                 history>>

\* Fault: the token of the entry is not compared.
StillOwnsAny(c) == kv.token # NoToken /\ kv.expires > Clock(c)

\* What stillOwns finds when it reads the entry.
StillOwns(c) == kv.token = token[c] /\ kv.expires > Clock(c)

\* A failed renewal ends the lease if it is known to be lost or has expired.
AfterFailure(c, owned) ==
  LET ends == ~owned \/ Clock(c) >= expires[c] IN
  /\ pc' = [pc EXCEPT ![c] = IF ends THEN "done" ELSE "hold"]
  /\ lost' = IF ends THEN lost \cup {c} ELSE lost

Verify(c) ==
  /\ pc[c] = "verify"
  /\ \/ ~CtxDone(c) /\ AfterFailure(c, StillOwns(c)) /\ UNCHANGED faults
     \/ OpFails(CtxDone(c)) /\ AfterFailure(c, TRUE)
  /\ UNCHANGED <<now, kv, late, token, loopVars, timers, revision, expires,
                 stop, acquired, cancelled, use, history>>

\* A lost lease is left to its new owner, an ended one is released.
EndMaintain(c) ==
  /\ pc[c] = "hold"
  /\ \/ c \in lost /\ pc' = [pc EXCEPT ![c] = "done"]
     \/ (c \in cancelled \/ c \in stop) /\ pc' = [pc EXCEPT ![c] = "inspect"]
  /\ UNCHANGED <<now, kv, late, token, loopVars, timers, leaseVars, cancelled,
                 use, history, faults>>

\* The next attempt of releaseRemote, after a delay, or its end.
ReleaseAgain(c) ==
  \/ /\ MayRetry(c)
     /\ attempt' = [attempt EXCEPT ![c] = @ + 1]
     /\ wakeAt' = [wakeAt EXCEPT ![c] = now + RetryDelay]
     /\ pc' = [pc EXCEPT ![c] = "inspect"]
     /\ UNCHANGED seen
  \/ /\ ~MayRetry(c)
     /\ pc' = [pc EXCEPT ![c] = "done"]
     /\ UNCHANGED <<attempt, seen, wakeAt>>

\* releaseRemote deletes only an entry that still has the token of the lease.
Releases(c) == kv.token = token[c]

Inspect(c) ==
  /\ pc[c] = "inspect" /\ now >= wakeAt[c]
  /\ \/ /\ Releases(c)
        /\ seen' = [seen EXCEPT ![c] = kv.revision]
        /\ pc' = [pc EXCEPT ![c] = "delete"]
        /\ UNCHANGED <<attempt, wakeAt, faults>>
     \/ /\ ~Releases(c)
        /\ pc' = [pc EXCEPT ![c] = "done"]
        /\ UNCHANGED <<attempt, wakeAt, seen, faults>>
     \/ OpFails(FALSE) /\ ReleaseAgain(c)
  /\ UNCHANGED <<now, kv, late, token, captured, pause, beat, leaseVars,
                 cancelled, use, history>>

\* Fault: the deletion is not conditional on the revision that was inspected.
DeletesAlways(c) == TRUE

\* LastRevision(entry.Revision())
Deletes(c) == Accepts(seen[c])

Delete(c) ==
  /\ pc[c] = "delete"
  /\ \/ /\ Deletes(c)
        /\ Store(NoToken, 0)
        /\ pc' = [pc EXCEPT ![c] = "done"]
        /\ UNCHANGED <<late, attempt, seen, wakeAt, faults>>
     \/ ~Deletes(c) /\ ReleaseAgain(c) /\ UNCHANGED <<kv, late, faults>>
     \/ OpFails(FALSE) /\ Unanswered(c) /\ ReleaseAgain(c) /\ UNCHANGED kv
  /\ UNCHANGED <<now, token, captured, pause, beat, leaseVars, cancelled, use,
                 history>>

-----------------------------------------------------------------------------
(* The caller: Check before each piece of work, and Release at the end.     *)

\* Release closes stop and waits until maintain has ended.
Leave(c) ==
  /\ use' = [use EXCEPT ![c] = "leaving"]
  /\ stop' = stop \cup {c}

MarkLost(c) == lost' = lost \cup {c}

\* The local part of Check.
CheckBegin(c) ==
  /\ use[c] = "ready"
  /\ \/ CtxDone(c) /\ Leave(c) /\ UNCHANGED lost
     \/ ~CtxDone(c) /\ Clock(c) >= expires[c] /\ Leave(c) /\ MarkLost(c)
     \/ /\ ~CtxDone(c) /\ Clock(c) < expires[c]
        /\ use' = [use EXCEPT ![c] = "check"]
        /\ UNCHANGED <<lost, stop>>
  /\ UNCHANGED <<now, kv, late, pc, token, loopVars, timers, revision, expires,
                 acquired, cancelled, history, faults>>

\* The answer of the bucket, or an error.
CheckEnd(c) ==
  /\ use[c] = "check"
  /\ \/ /\ StillOwns(c)
        /\ use' = [use EXCEPT ![c] = "passed"]
        /\ newest' = acquired[c]
        /\ UNCHANGED <<lost, stop, faults>>
     \/ ~StillOwns(c) /\ Leave(c) /\ MarkLost(c) /\ UNCHANGED <<newest, faults>>
     \/ OpFails(CtxDone(c)) /\ Leave(c) /\ UNCHANGED <<lost, newest>>
  /\ UNCHANGED <<now, kv, late, pc, token, loopVars, timers, revision, expires,
                 acquired, cancelled, vacant>>

\* The work that the check was for (a hint, a read, a delivery).
Work(c) ==
  /\ use[c] = "passed"
  /\ use' = [use EXCEPT ![c] = "ready"]
  /\ UNCHANGED <<now, kv, late, pc, token, loopVars, timers, leaseVars,
                 cancelled, history, faults>>

\* The caller ends on its own, or because the context of the lease is done.
Finish(c) ==
  /\ use[c] = "ready" /\ Leave(c)
  /\ UNCHANGED <<now, kv, late, pc, token, loopVars, timers, revision, expires,
                 lost, acquired, cancelled, history, faults>>

\* Release returns and the handle is gone.
Return(c) ==
  /\ use[c] = "leaving" /\ pc[c] = "done"
  /\ use' = [use EXCEPT ![c] = "out"]
  /\ GiveUp(c)
  /\ revision' = [revision EXCEPT ![c] = 0]
  /\ acquired' = [acquired EXCEPT ![c] = 0]
  /\ expires' = [expires EXCEPT ![c] = 0]
  /\ lost' = lost \ {c}
  /\ stop' = stop \ {c}
  /\ beat' = [beat EXCEPT ![c] = 0]
  /\ UNCHANGED <<now, kv, late, cancelled, history, faults>>

-----------------------------------------------------------------------------
(* The surroundings: contexts, crashes and time.                            *)

Cancel(c) ==
  /\ c \in Cancellable /\ c \notin cancelled /\ pc[c] \notin {"ended", "crashed"}
  /\ cancelled' = cancelled \cup {c}
  /\ vacant' = 0
  /\ UNCHANGED <<now, kv, late, pc, token, loopVars, timers, leaseVars, use,
                 newest, faults>>

Crash(c) ==
  /\ faults < MaxFaults /\ faults' = faults + 1
  /\ pc[c] \notin {"ended", "crashed"}
  /\ Unanswered(c)
  /\ pc' = [pc EXCEPT ![c] = "crashed"]
  /\ use' = [use EXCEPT ![c] = "out"]
  /\ token' = [token EXCEPT ![c] = NoToken]
  /\ vacant' = 0
  /\ UNCHANGED <<now, kv, loopVars, timers, leaseVars, cancelled, newest>>

\* The client has something to do that no delay holds back.
Busy(c) ==
  \/ pc[c] \in {"create", "get", "reclaim", "renew", "verify", "delete"}
  \/ pc[c] \in {"wait", "inspect"} /\ now >= wakeAt[c]
  \/ pc[c] = "wait" /\ c \in cancelled
  \/ pc[c] = "idle" /\ c \notin cancelled /\ now >= wakeAt[c]
  \/ pc[c] = "hold" /\ (now >= beat[c] \/ CtxDone(c) \/ c \in stop)
  \/ use[c] \in {"check", "passed"}
  \/ use[c] = "ready" /\ CtxDone(c)
  \/ use[c] = "leaving" /\ pc[c] = "done"

Tick ==
  /\ now < MaxTime
  /\ Prompt => late = {} /\ \A c \in Clients : ~Busy(c)
  /\ now' = now + 1
  /\ vacant' = IF Prompt /\ Holding = {} /\ Alive # {} THEN vacant + 1 ELSE 0
  /\ UNCHANGED <<kv, late, pc, token, loopVars, timers, leaseVars, cancelled,
                 use, newest, faults>>

Acquiring(c) == Begin(c) \/ Create(c) \/ Get(c) \/ Reclaim(c) \/ Retry(c)

Maintaining(c) ==
  Beat(c) \/ Renew(c) \/ Verify(c) \/ EndMaintain(c) \/ Inspect(c) \/ Delete(c)

Using(c) == CheckBegin(c) \/ CheckEnd(c) \/ Work(c) \/ Finish(c) \/ Return(c)

Next ==
  \/ \E c \in Clients :
       Acquiring(c) \/ Maintaining(c) \/ Using(c) \/ Cancel(c) \/ Crash(c)
  \/ LateArrives \/ LateDropped \/ Tick

Spec == Init /\ [][Next]_vars

-----------------------------------------------------------------------------
(* Properties                                                               *)

\* Every variable has its type.
TypeOK ==
  /\ now \in 0..MaxTime
  /\ kv \in [token : Tokens \cup {NoToken}, expires : Int, revision : Nat]
  /\ \A w \in late : w \in [from : Tokens, token : Tokens \cup {NoToken}, expires : Int,
                           expected : Nat]
  /\ pc \in [Clients -> Maintained \cup {"idle", "create", "get", "reclaim", "wait",
                                         "done", "ended", "crashed"}]
  /\ token \in [Clients -> Tokens \cup {NoToken}]
  /\ attempt \in [Clients -> 0..MaxRetries - 1]
  /\ captured \in [Clients -> Int] /\ seen \in [Clients -> Nat]
  /\ wakeAt \in [Clients -> Nat] /\ pause \in [Clients -> Nat]
  /\ beat \in [Clients -> Nat]
  /\ revision \in [Clients -> Nat] /\ acquired \in [Clients -> Nat]
  /\ expires \in [Clients -> Int]
  /\ lost \subseteq Clients /\ stop \subseteq Clients
  /\ cancelled \subseteq Clients
  /\ use \in [Clients -> {"out", "ready", "check", "passed", "leaving"}]
  /\ newest \in Nat /\ vacant \in Nat /\ faults \in 0..MaxFaults

\* The caller may take the lease for its own, without asking the bucket.
Valid(c) ==
  /\ use[c] \in {"ready", "check", "passed"}
  /\ c \notin lost /\ c \notin cancelled /\ Clock(c) < expires[c]

\* With equal clocks, at most one client has a lease that has not expired by
\* its own clock ("one active relay owns a boundary at a time"), however late
\* renewals, reclaims and releases arrive.
AtMostOneValid ==
  (\A c \in Clients : Skew[c] = 0) =>
    \A a, b \in Clients : Valid(a) /\ Valid(b) => a = b

\* Whatever the clocks show, checks pass in the order in which leases were
\* acquired: once a new owner has passed a check the old one never does.
ChecksFollowOwnership == [][newest' >= newest]_vars

\* Only the owner of the entry deletes it: the release of a stale lease does
\* not delete the entry of its replacement.
ReleaseKeepsReplacement ==
  [][kv.token # NoToken /\ kv'.token = NoToken =>
       \/ \E c \in Clients : pc[c] = "delete" /\ token[c] = kv.token
       \/ \E w \in late : w.token = NoToken /\ w.from = kv.token]_vars

\* The longest delay between two attempts of a relay to get the lease.
LongestPause ==
  LET backOff == MaxDelay + MaxDelay \div 2 IN
  IF backOff > RetryDelay THEN backOff ELSE RetryDelay

\* When operations do not fail and processes are prompt, a boundary whose relay
\* has crashed is without a relay for less than a lease and one back-off of a
\* relay that is left, wherever in its attempts and its growing back-off the
\* crash finds it.
FailoverIsTimely == Prompt /\ ~Lossy => vacant < Lease + LongestPause

=============================================================================
