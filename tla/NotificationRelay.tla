--------------------------- MODULE NotificationRelay ---------------------------
(***************************************************************************)
(* The relays that turn a backend's signals into hints for subscribers     *)
(* (orisun/notification_relay.go), one per server and boundary, over the   *)
(* listeners of PGListener.  For each boundary one relay at a time holds   *)
(* the boundary's lease: it publishes a hint when it becomes the owner and *)
(* one more for each wake-up of its own server's signal.                   *)
(*                                                                         *)
(* The lease is the one of module LockLease, reduced to its holder: it may *)
(* be lost at any time, and a holder that crashed loses it eventually.     *)
(* hinted[b] counts the commits of b that precede its latest hint, which   *)
(* is what a subscriber reads up to when the hint reaches it.              *)
(***************************************************************************)
EXTENDS PGListener

CONSTANTS MaxCommits,  \* commits of one boundary
          MaxFaults,   \* disconnections, lost leases, failed publishes and crashes
          Stoppable    \* the servers that may stop or crash

ASSUME RelayAssumption ==
  /\ MaxCommits \in Nat /\ MaxFaults \in Nat
  /\ Stoppable \subseteq Servers

VARIABLES rpc,      \* where each relay is
          holder,   \* the server that owns each boundary's lease
          spc,      \* the progress of Stop on each server
          starting, \* the call of StartBoundary that holds the manager's mutex
          commits, hinted, faults

relayVars == <<rpc, holder, spc, starting>>
vars == <<listenerVars, relayVars, commits, hinted, faults>>

\* The servers whose context is cancelled.
stopping == {s \in Servers : spc[s] # "run"}

\* A server starts the relays of its startup boundaries before anything else.
Init ==
  /\ ListenerInit
  /\ rpc = [s \in Servers |-> [b \in Boundaries |-> IF b \in Startup THEN "acquire" ELSE "off"]]
  /\ holder = [b \in Boundaries |-> None]
  /\ spc = [s \in Servers |-> "run"]
  /\ starting = [s \in Servers |-> None]
  /\ commits = [b \in Boundaries |-> 0]
  /\ hinted = [b \in Boundaries |-> 0]
  /\ faults = 0

-----------------------------------------------------------------------------
(* The environment.                                                         *)

Fault == faults < MaxFaults /\ faults' = faults + 1

Commit(b) ==
  /\ commits[b] < MaxCommits
  /\ commits' = [commits EXCEPT ![b] = @ + 1]
  /\ Notified(b)
  /\ UNCHANGED <<lpc, pending, cancelled, up, signals, wake, call, relayVars, hinted, faults>>

Disconnect(s) ==
  /\ Fault
  /\ Disconnected(s)
  /\ UNCHANGED <<lpc, pending, cancelled, signals, wake, call, relayVars, commits, hinted>>

LoseLease(b) ==
  /\ Fault
  /\ holder[b] # None
  /\ holder' = [holder EXCEPT ![b] = None]
  /\ UNCHANGED <<listenerVars, rpc, spc, starting, commits, hinted>>

\* Nothing of a crashed server runs any more; its leases stay until they expire.
Crash(s) ==
  /\ Fault
  /\ s \in Stoppable /\ spc[s] = "run"
  /\ spc' = [spc EXCEPT ![s] = "crashed"]
  /\ rpc' = [rpc EXCEPT ![s] = [b \in Boundaries |-> "off"]]
  /\ lpc' = [lpc EXCEPT ![s] = "done"]
  /\ up' = up \ {s}
  /\ inbox' = [inbox EXCEPT ![s] = {}]
  /\ call' = [c \in Calls |-> IF ServerOf[c] = s THEN "failed" ELSE call[c]]
  /\ UNCHANGED <<pending, cancelled, signals, wake, holder, starting, commits, hinted>>

ExpireLease(b) ==
  /\ holder[b] # None /\ spc[holder[b]] = "crashed"
  /\ holder' = [holder EXCEPT ![b] = None]
  /\ UNCHANGED <<listenerVars, rpc, spc, starting, commits, hinted, faults>>

-----------------------------------------------------------------------------
(* The manager.                                                             *)

\* StartBoundary, called once the backend has installed the boundary: it looks
\* at its own state under the mutex, and starts the relay.
StartBoundary(c) ==
  LET s == ServerOf[c] IN
  /\ call[c] = "ok" /\ starting[s] = None
  /\ \/ /\ s \in stopping
        /\ call' = [call EXCEPT ![c] = "failed"]
        /\ UNCHANGED starting
     \/ /\ s \notin stopping /\ rpc[s][BoundaryOf[c]] # "off"
        /\ call' = [call EXCEPT ![c] = "installed"]
        /\ UNCHANGED starting
     \/ /\ s \notin stopping /\ rpc[s][BoundaryOf[c]] = "off"
        /\ starting' = [starting EXCEPT ![s] = c]
        /\ UNCHANGED call
  /\ UNCHANGED <<lpc, pending, cancelled, up, inbox, signals, wake, rpc, holder, spc, commits,
                 hinted, faults>>

StartRelay(s) ==
  /\ starting[s] # None /\ spc[s] # "crashed"
  /\ rpc' = [rpc EXCEPT ![s][BoundaryOf[starting[s]]] = "acquire"]
  /\ call' = [call EXCEPT ![starting[s]] = "installed"]
  /\ starting' = [starting EXCEPT ![s] = None]
  /\ UNCHANGED <<lpc, pending, cancelled, up, inbox, signals, wake, holder, spc, commits,
                 hinted, faults>>

StopCancel(s) ==
  /\ s \in Stoppable /\ spc[s] = "run"
  /\ spc' = [spc EXCEPT ![s] = "cancelled"]
  /\ UNCHANGED <<listenerVars, rpc, holder, starting, commits, hinted, faults>>

\* Fault: Stop does not take the mutex before it waits.
MutexIgnored(s) == TRUE

\* No StartBoundary is between its look at the state and its wg.Add.
MutexFree(s) == starting[s] = None

StopMark(s) ==
  /\ spc[s] = "cancelled" /\ MutexFree(s)
  /\ spc' = [spc EXCEPT ![s] = "waiting"]
  /\ UNCHANGED <<listenerVars, rpc, holder, starting, commits, hinted, faults>>

StopReturns(s) ==
  /\ spc[s] = "waiting" /\ \A b \in Boundaries : rpc[s][b] = "off"
  /\ spc' = [spc EXCEPT ![s] = "stopped"]
  /\ UNCHANGED <<listenerVars, rpc, holder, starting, commits, hinted, faults>>

-----------------------------------------------------------------------------
(* A relay: runBoundary and relayBoundaryNotifications.                     *)

At(s, b, p) == rpc[s][b] = p
Goto(s, b, p) == rpc' = [rpc EXCEPT ![s][b] = p]

\* Fault: a new owner waits for a signal before its first hint.
OwnershipWaits == "wait"

\* Publish once immediately on ownership.
OwnershipStarts == "check"

\* AcquireLock fails while another server owns the lease, and is tried again.
\* The new owner asks its listener for the signal of the boundary.
AcquireLock(s, b) ==
  /\ At(s, b, "acquire") /\ holder[b] = None
  /\ holder' = [holder EXCEPT ![b] = s]
  /\ Goto(s, b, IF b \in signals[s] THEN OwnershipStarts ELSE "release")
  /\ UNCHANGED <<listenerVars, spc, starting, commits, hinted, faults>>

RunEnds(s, b) ==
  /\ At(s, b, "acquire") /\ s \in stopping
  /\ Goto(s, b, "off")
  /\ UNCHANGED <<listenerVars, holder, spc, starting, commits, hinted, faults>>

\* lease.Check, and the context the lease hands out.
Owns(s, b) == holder[b] = s /\ s \notin stopping

\* Fault: a failed publish is not tried again.
PublishDropped == "wait"

\* Pending work is retained across publish failures.
PublishRetried == "check"

\* lease.Check and the publish, which may fail.
Publish(s, b) ==
  /\ At(s, b, "check")
  /\ \/ /\ ~Owns(s, b)
        /\ Goto(s, b, "release")
        /\ UNCHANGED <<hinted, faults>>
     \/ /\ Owns(s, b)
        /\ hinted' = [hinted EXCEPT ![b] = commits[b]]
        /\ Goto(s, b, "wait")
        /\ UNCHANGED faults
     \/ /\ Owns(s, b)
        /\ Fault
        /\ Goto(s, b, PublishRetried)
        /\ UNCHANGED hinted
  /\ UNCHANGED <<listenerVars, holder, spc, starting, commits>>

\* signal.Wait returns for a wake-up, or for the end of the lease's context.
WaitSignal(s, b) ==
  /\ At(s, b, "wait")
  /\ \/ /\ b \in wake[s]
        /\ wake' = [wake EXCEPT ![s] = @ \ {b}]
        /\ Goto(s, b, "check")
     \/ /\ ~Owns(s, b)
        /\ Goto(s, b, "release")
        /\ UNCHANGED wake
  /\ UNCHANGED <<lpc, pending, cancelled, up, inbox, signals, call, holder, spc, starting,
                 commits, hinted, faults>>

\* Fault: the lease is left to expire.
Unreleased(s, b) == holder

Released(s, b) == [holder EXCEPT ![b] = IF @ = s THEN None ELSE @]

Release(s, b) ==
  /\ At(s, b, "release")
  /\ holder' = Released(s, b)
  /\ Goto(s, b, IF s \in stopping THEN "off" ELSE "acquire")
  /\ UNCHANGED <<listenerVars, spc, starting, commits, hinted, faults>>

-----------------------------------------------------------------------------
Relay(s, b) ==
  \/ AcquireLock(s, b) \/ RunEnds(s, b) \/ Publish(s, b) \/ WaitSignal(s, b) \/ Release(s, b)

Listen(s) == Start(s, stopping) /\ UNCHANGED <<relayVars, commits, hinted, faults>>

\* EnsureBoundary and StartBoundary, in the order installBoundary calls them.
Install(c) ==
  \/ /\ EnsureBoundary(c) \/ EnsureGivesUp(c, stopping)
     /\ UNCHANGED <<relayVars, commits, hinted, faults>>
  \/ StartBoundary(c)

Stop(s) == StopMark(s) \/ StopReturns(s)

Next ==
  \/ \E b \in Boundaries : Commit(b) \/ LoseLease(b) \/ ExpireLease(b)
  \/ \E s \in Servers : Disconnect(s) \/ Crash(s) \/ StopCancel(s) \/ Stop(s)
                        \/ StartRelay(s) \/ Listen(s)
  \/ \E s \in Servers, b \in Boundaries : Relay(s, b)
  \/ \E c \in Calls : Install(c)

Spec == Init /\ [][Next]_vars

-----------------------------------------------------------------------------
(* Properties.                                                              *)

\* The relay of s is on its way to a hint for b, or something that will wake it
\* exists: a full signal channel, a notification still to be dispatched, a
\* session to rebuild.
HintIsComing(s, b) ==
  \/ rpc[s][b] \in {"check", "release"}
  \/ b \in wake[s] \/ b \in inbox[s]
  \/ s \notin up \/ lpc[s] \in {"reconnect", "swap"}
  \/ s \in stopping

\* No wake-up is lost: whenever a commit of a boundary is not covered by a hint
\* and a relay owns the boundary, that relay is going to publish another hint,
\* whatever the order of commits, registrations that cancel the wait,
\* disconnections and lost leases (relayBoundaryNotifications, PGNotifyListener).
NoLostWakeup ==
  \A b \in Boundaries :
    hinted[b] < commits[b] /\ holder[b] # None => HintIsComing(holder[b], b)

\* Stop has returned only when no relay of the server runs, none can start, and
\* the server holds no lease ("Stop cancels relays and waits for their signals
\* and leases to be released").
StoppedHoldsNothing ==
  \A s \in Servers : spc[s] = "stopped" =>
    /\ starting[s] = None
    /\ \A b \in Boundaries : rpc[s][b] = "off" /\ holder[b] # s

\* No registration is stranded: the listener never waits for a notification of
\* a quiet database while a registration is queued, unless that wait has been
\* cancelled, in whatever order registrations and waits come (EnsureBoundary,
\* nextListenRequest and armNotificationWait each lock for themselves).
NoStrandedRegistration ==
  \A s \in Servers : lpc[s] = "wait" /\ pending[s] # <<>> => s \in cancelled
=============================================================================
