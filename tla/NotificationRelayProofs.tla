------------------------ MODULE NotificationRelayProofs ------------------------
(***************************************************************************)
(* Proofs about the relays and their listeners, for any servers,           *)
(* boundaries and calls, and any number of commits and faults.             *)
(***************************************************************************)
EXTENDS NotificationRelay, TLAPS

-----------------------------------------------------------------------------
(* Types.                                                                   *)

ListenerTypes ==
  /\ lpc \in [Servers -> {"top", "arm", "wait", "reconnect", "swap", "done"}]
  /\ pending \in [Servers -> Seq(Calls)]
  /\ cancelled \subseteq Servers
  /\ up \subseteq Servers
  /\ inbox \in [Servers -> SUBSET Boundaries]
  /\ signals \in [Servers -> SUBSET Boundaries]
  /\ wake \in [Servers -> SUBSET Boundaries]
  /\ call \in [Calls -> {"idle", "queued", "ok", "failed", "installed"}]

RelayLabels == {"off", "acquire", "check", "wait", "release"}

RelayTypes ==
  /\ rpc \in [Servers -> [Boundaries -> RelayLabels]]
  /\ holder \in [Boundaries -> Servers \union {None}]
  /\ spc \in [Servers -> {"run", "cancelled", "waiting", "stopped", "crashed"}]
  /\ starting \in [Servers -> Calls \union {None}]
  /\ commits \in [Boundaries -> Nat]
  /\ hinted \in [Boundaries -> Nat]

Types == ListenerTypes /\ RelayTypes

-----------------------------------------------------------------------------
(* The inductive invariant.                                                 *)

\* Stop: once it has seen the mutex free no relay starts, and it returns when
\* none is left.
StopInv ==
  \A s \in Servers :
    /\ spc[s] \in {"waiting", "stopped"} => starting[s] = None
    /\ spc[s] = "stopped" => \A b \in Boundaries : rpc[s][b] = "off"

\* StartBoundary: the mutex is held for a relay of this server that is off.
StartInv ==
  \A s \in Servers : starting[s] # None /\ spc[s] # "crashed" =>
    rpc[s][BoundaryOf[starting[s]]] = "off"

\* A lease that no crash or loss has orphaned belongs to a relay that knows it.
LeaseInv ==
  \A s \in Servers, b \in Boundaries :
    holder[b] = s /\ spc[s] # "crashed" => rpc[s][b] \in {"check", "wait", "release"}

\* runBoundary: a relay serves its lease only with the signal of its boundary.
SignalInv ==
  \A s \in Servers, b \in Boundaries : rpc[s][b] \in {"check", "wait"} => b \in signals[s]

RelayInv == Types /\ StopInv /\ StartInv /\ LeaseInv /\ SignalInv /\ NoLostWakeup

-----------------------------------------------------------------------------
(* Steps.                                                                   *)

\* The steps of the environment, of Stop and of the manager.
Outer ==
  \/ \E b \in Boundaries : Commit(b) \/ LoseLease(b) \/ ExpireLease(b)
  \/ \E s \in Servers : Disconnect(s) \/ Crash(s) \/ StopCancel(s) \/ StopMark(s)
                        \/ StopReturns(s) \/ StartRelay(s)
  \/ \E c \in Calls : StartBoundary(c)

\* The steps of the listeners and of the calls that register with them.
Inner ==
  \/ \E s \in Servers :
       \/ ListenBoundary(s, stopping) \/ NoListenRequest(s) \/ ArmNotificationWait(s)
       \/ WaitForNotification(s, stopping) \/ Reconnect(s, stopping) \/ SwapConnection(s)
  \/ \E c \in Calls : EnsureBoundary(c) \/ EnsureGivesUp(c, stopping)

\* The steps of the relays.
Owner ==
  \E s \in Servers, b \in Boundaries :
    AcquireLock(s, b) \/ RunEnds(s, b) \/ Publish(s, b) \/ WaitSignal(s, b) \/ Release(s, b)

\* A step is one of these; those of the listeners leave the relays alone.
LEMMA StepCases ==
  ASSUME [Next]_vars
  PROVE  \/ UNCHANGED vars
         \/ Outer
         \/ Inner /\ UNCHANGED <<relayVars, commits, hinted, faults>>
         \/ Owner
BY Zenon DEF Next, Outer, Inner, Owner, Stop, Relay, Install, Listen, Start

\* A step of the listeners keeps the types.
LEMMA InnerTypes ==
  ASSUME Types, Inner, UNCHANGED <<relayVars, commits, hinted, faults>>
  PROVE  Types'
<1>0. RelayTypes' BY Zenon DEF Types, RelayTypes, relayVars
<1>1. ASSUME NEW s \in Servers, ListenBoundary(s, stopping) PROVE ListenerTypes'
  <2>1. /\ pending \in [Servers -> Seq(Calls)] /\ pending[s] # <<>>
        /\ call \in [Calls -> {"idle", "queued", "ok", "failed", "installed"}]
        /\ signals \in [Servers -> SUBSET Boundaries]
    BY <1>1, Zenon DEF ListenBoundary, Types, ListenerTypes
  <2>2. Head(pending[s]) \in Calls /\ Tail(pending[s]) \in Seq(Calls)
    BY <2>1
  <2>3. BoundaryOf[Head(pending[s])] \in Boundaries
    BY <2>2, ListenerAssumption, Zenon
  <2>4. pending' \in [Servers -> Seq(Calls)]
    BY <1>1, <2>1, <2>2, Zenon DEF ListenBoundary, PendingAfter
  <2>5. call' \in [Calls -> {"idle", "queued", "ok", "failed", "installed"}]
    BY <1>1, <2>1, <2>2 DEF ListenBoundary
  <2>6. signals' \in [Servers -> SUBSET Boundaries]
    <3>1. \/ signals' = signals
          \/ signals' = [signals EXCEPT ![s] = @ \union {BoundaryOf[Head(pending[s])]}]
      BY <1>1, Zenon DEF ListenBoundary
    <3> QED BY <2>1, <2>3, <3>1
  <2> QED BY <1>1, <2>4, <2>5, <2>6, Zenon DEF ListenBoundary, Types, ListenerTypes
<1>2. ASSUME NEW s \in Servers, NoListenRequest(s) PROVE ListenerTypes'
  BY <1>2, ListenerAssumption DEF NoListenRequest, Types, ListenerTypes
<1>3. ASSUME NEW s \in Servers, ArmNotificationWait(s) PROVE ListenerTypes'
  BY <1>3, ListenerAssumption DEF ArmNotificationWait, Types, ListenerTypes
<1>4. ASSUME NEW s \in Servers, WaitForNotification(s, stopping) PROVE ListenerTypes'
  <2>1. /\ lpc \in [Servers -> {"top", "arm", "wait", "reconnect", "swap", "done"}]
        /\ inbox \in [Servers -> SUBSET Boundaries]
        /\ wake \in [Servers -> SUBSET Boundaries]
    BY Zenon DEF Types, ListenerTypes
  <2>2. \A err \in {"none", "canceled", "broken"} :
          AfterWait(s, err, stopping) \in {"top", "done", "reconnect"}
    BY DEF AfterWait
  <2>3. \E err \in {"none", "canceled", "broken"} :
          lpc' = [lpc EXCEPT ![s] = AfterWait(s, err, stopping)]
    BY <1>4, Zenon DEF WaitForNotification
  <2>4. lpc' \in [Servers -> {"top", "arm", "wait", "reconnect", "swap", "done"}]
    BY <2>1, <2>2, <2>3
  <2>5. \/ UNCHANGED <<inbox, wake>>
        \/ \E b \in inbox[s] : /\ inbox' = [inbox EXCEPT ![s] = @ \ {b}]
                               /\ wake' = [wake EXCEPT ![s] = @ \union {b}]
    BY <1>4, Zenon DEF WaitForNotification, Dispatched
  <2>6. inbox' \in [Servers -> SUBSET Boundaries] /\ wake' \in [Servers -> SUBSET Boundaries]
    BY <2>1, <2>5
  <2> QED BY <1>4, <2>4, <2>6, Zenon DEF WaitForNotification, Types, ListenerTypes
<1>5. ASSUME NEW s \in Servers, Reconnect(s, stopping) PROVE ListenerTypes'
  BY <1>5, ListenerAssumption, Zenon DEF Reconnect, Types, ListenerTypes
<1>6. ASSUME NEW s \in Servers, SwapConnection(s) PROVE ListenerTypes'
  BY <1>6, ListenerAssumption DEF SwapConnection, WakeRegisteredBoundaries, Types, ListenerTypes
<1>7. ASSUME NEW c \in Calls, EnsureBoundary(c) PROVE ListenerTypes'
  <2>1. /\ pending \in [Servers -> Seq(Calls)] /\ cancelled \subseteq Servers
        /\ call \in [Calls -> {"idle", "queued", "ok", "failed", "installed"}]
        /\ ServerOf[c] \in Servers
    BY <1>7, ListenerAssumption, Zenon DEF Types, ListenerTypes
  <2>2. \A q \in Seq(Calls) : Append(q, c) \in Seq(Calls)
    BY <1>7
  <2>3. pending' \in [Servers -> Seq(Calls)]
    <3>1. pending' = pending \/ pending' = [pending EXCEPT ![ServerOf[c]] = Append(@, c)]
      BY <1>7, Zenon DEF EnsureBoundary
    <3>2. Append(pending[ServerOf[c]], c) \in Seq(Calls) BY <2>1, <2>2, Zenon
    <3> QED BY <2>1, <3>1, <3>2, Zenon
  <2>4. cancelled' \subseteq Servers
    BY <1>7, <2>1 DEF EnsureBoundary, WaitsCancelled
  <2>5. call' \in [Calls -> {"idle", "queued", "ok", "failed", "installed"}]
    BY <1>7, <2>1 DEF EnsureBoundary
  <2> QED BY <1>7, <2>3, <2>4, <2>5, Zenon DEF EnsureBoundary, Types, ListenerTypes
<1>8. ASSUME NEW c \in Calls, EnsureGivesUp(c, stopping) PROVE ListenerTypes'
  BY <1>8, ListenerAssumption DEF EnsureGivesUp, Types, ListenerTypes
<1> QED BY <1>0, <1>1, <1>2, <1>3, <1>4, <1>5, <1>6, <1>7, <1>8, Zenon DEF Inner, Types

\* The relay of b on s moves to p, and no other moves.
Moved(s, b, p) ==
  /\ rpc'[s][b] = p
  /\ \A t \in Servers, c \in Boundaries : t # s \/ c # b => rpc'[t][c] = rpc[t][c]

\* A relay that moves, and the others.
LEMMA RelayMoves ==
  ASSUME Types, NEW s \in Servers, NEW b \in Boundaries, NEW p \in RelayLabels, Goto(s, b, p)
  PROVE  /\ rpc' \in [Servers -> [Boundaries -> RelayLabels]]
         /\ Moved(s, b, p)
<1>1. rpc \in [Servers -> [Boundaries -> RelayLabels]] BY Zenon DEF Types, RelayTypes
<1>2. rpc' = [rpc EXCEPT ![s] = [rpc[s] EXCEPT ![b] = p]] BY <1>1, Zenon DEF Goto
<1>3. [rpc[s] EXCEPT ![b] = p] \in [Boundaries -> RelayLabels] BY <1>1
<1> QED BY <1>1, <1>2, <1>3 DEF Moved

\* So does a step of the environment, of Stop or of the manager.
LEMMA OuterTypes ==
  ASSUME Types, Outer
  PROVE  Types'
<1>1. ASSUME NEW b \in Boundaries, Commit(b) PROVE Types'
  <2>1. commits' \in [Boundaries -> Nat]
    BY <1>1 DEF Commit, Types, RelayTypes
  <2>2. inbox' \in [Servers -> SUBSET Boundaries]
    BY <1>1 DEF Commit, Notified, Types, ListenerTypes
  <2> QED BY <1>1, <2>1, <2>2, Zenon
    DEF Commit, Types, ListenerTypes, RelayTypes, listenerVars, relayVars
<1>2. ASSUME NEW b \in Boundaries, LoseLease(b) PROVE Types'
  <2>1. holder' \in [Boundaries -> Servers \union {None}]
    BY <1>2 DEF LoseLease, Types, RelayTypes
  <2> QED BY <1>2, <2>1, Zenon
    DEF LoseLease, Types, ListenerTypes, RelayTypes, listenerVars, relayVars
<1>3. ASSUME NEW b \in Boundaries, ExpireLease(b) PROVE Types'
  <2>1. holder' \in [Boundaries -> Servers \union {None}]
    BY <1>3 DEF ExpireLease, Types, RelayTypes
  <2> QED BY <1>3, <2>1, Zenon
    DEF ExpireLease, Types, ListenerTypes, RelayTypes, listenerVars, relayVars
<1>4. ASSUME NEW s \in Servers, Disconnect(s) PROVE Types'
  <2>1. up' \in SUBSET Servers
    BY <1>4 DEF Disconnect, Disconnected, Types, ListenerTypes
  <2>2. inbox' \in [Servers -> SUBSET Boundaries]
    BY <1>4 DEF Disconnect, Disconnected, Types, ListenerTypes
  <2> QED BY <1>4, <2>1, <2>2, Zenon
    DEF Disconnect, Types, ListenerTypes, RelayTypes, listenerVars, relayVars
<1>5. ASSUME NEW s \in Servers, Crash(s) PROVE Types'
  <2>1. spc' \in [Servers -> {"run", "cancelled", "waiting", "stopped", "crashed"}]
    BY <1>5 DEF Crash, Types, RelayTypes
  <2>2. rpc' \in [Servers -> [Boundaries -> RelayLabels]]
    BY <1>5 DEF Crash, Types, RelayTypes, RelayLabels
  <2>3. lpc' \in [Servers -> {"top", "arm", "wait", "reconnect", "swap", "done"}]
    BY <1>5 DEF Crash, Types, ListenerTypes
  <2>4. up' \in SUBSET Servers
    BY <1>5 DEF Crash, Types, ListenerTypes
  <2>5. inbox' \in [Servers -> SUBSET Boundaries]
    BY <1>5 DEF Crash, Types, ListenerTypes
  <2>6. call' \in [Calls -> {"idle", "queued", "ok", "failed", "installed"}]
    BY <1>5 DEF Crash, Types, ListenerTypes
  <2> QED BY <1>5, <2>1, <2>2, <2>3, <2>4, <2>5, <2>6, Zenon
    DEF Crash, Types, ListenerTypes, RelayTypes, listenerVars, relayVars
<1>6. ASSUME NEW s \in Servers, StopCancel(s) PROVE Types'
  <2>1. spc' \in [Servers -> {"run", "cancelled", "waiting", "stopped", "crashed"}]
    BY <1>6 DEF StopCancel, Types, RelayTypes
  <2> QED BY <1>6, <2>1, Zenon
    DEF StopCancel, Types, ListenerTypes, RelayTypes, listenerVars, relayVars
<1>7. ASSUME NEW s \in Servers, StopMark(s) PROVE Types'
  <2>1. spc' \in [Servers -> {"run", "cancelled", "waiting", "stopped", "crashed"}]
    BY <1>7 DEF StopMark, Types, RelayTypes
  <2> QED BY <1>7, <2>1, Zenon
    DEF StopMark, Types, ListenerTypes, RelayTypes, listenerVars, relayVars
<1>8. ASSUME NEW s \in Servers, StopReturns(s) PROVE Types'
  <2>1. spc' \in [Servers -> {"run", "cancelled", "waiting", "stopped", "crashed"}]
    BY <1>8 DEF StopReturns, Types, RelayTypes
  <2> QED BY <1>8, <2>1, Zenon
    DEF StopReturns, Types, ListenerTypes, RelayTypes, listenerVars, relayVars
<1>9. ASSUME NEW s \in Servers, StartRelay(s) PROVE Types'
  <2>1. rpc' \in [Servers -> [Boundaries -> RelayLabels]]
    <3>1. Goto(s, BoundaryOf[starting[s]], "acquire")
      BY <1>9, Zenon DEF StartRelay, OwnershipStarts, PublishRetried, RelayLabels, Goto
    <3>2. BoundaryOf[starting[s]] \in Boundaries /\ "acquire" \in RelayLabels
      BY <1>9, ListenerAssumption, Zenon DEF StartRelay, Types, RelayTypes, RelayLabels
    <3> QED BY <3>1, <3>2, RelayMoves, Zenon
  <2>2. call' \in [Calls -> {"idle", "queued", "ok", "failed", "installed"}]
    BY <1>9, ListenerAssumption DEF StartRelay, Types, ListenerTypes, RelayTypes
  <2>3. starting' \in [Servers -> Calls \union {None}]
    BY <1>9, ListenerAssumption DEF StartRelay, Types, RelayTypes
  <2> QED BY <1>9, <2>1, <2>2, <2>3, Zenon
    DEF StartRelay, Types, ListenerTypes, RelayTypes, listenerVars, relayVars
<1>10. ASSUME NEW c \in Calls, StartBoundary(c) PROVE Types'
  <2>1. call' \in [Calls -> {"idle", "queued", "ok", "failed", "installed"}]
    BY <1>10, Zenon DEF StartBoundary, Types, ListenerTypes
  <2>2. starting' \in [Servers -> Calls \union {None}]
    <3>1. starting \in [Servers -> Calls \union {None}] /\ ServerOf[c] \in Servers
      BY <1>10, ListenerAssumption, Zenon DEF Types, RelayTypes
    <3>2. starting' = starting \/ starting' = [starting EXCEPT ![ServerOf[c]] = c]
      BY <1>10, Zenon DEF StartBoundary
    <3> QED BY <1>10, <3>1, <3>2
  <2> QED BY <1>10, <2>1, <2>2, Zenon
    DEF StartBoundary, Types, ListenerTypes, RelayTypes, listenerVars, relayVars
<1> QED BY <1>1, <1>2, <1>3, <1>4, <1>5, <1>6, <1>7, <1>8, <1>9, <1>10, Zenon DEF Outer

\* And a step of a relay.
LEMMA OwnerTypes ==
  ASSUME Types, Owner
  PROVE  Types'
<1>1. ASSUME NEW s \in Servers, NEW b \in Boundaries, AcquireLock(s, b) PROVE Types'
  <2>1. holder' \in [Boundaries -> Servers \union {None}]
    BY <1>1 DEF AcquireLock, Types, RelayTypes
  <2>2. rpc' \in [Servers -> [Boundaries -> RelayLabels]]
    <3>1. \E p \in RelayLabels : Goto(s, b, p)
      BY <1>1, Zenon DEF AcquireLock, OwnershipStarts, PublishRetried, RelayLabels, Goto
    <3> QED BY <3>1, RelayMoves, Zenon
  <2> QED BY <1>1, <2>1, <2>2, Zenon
    DEF AcquireLock, Types, ListenerTypes, RelayTypes, listenerVars, relayVars
<1>2. ASSUME NEW s \in Servers, NEW b \in Boundaries, RunEnds(s, b) PROVE Types'
  <2>1. rpc' \in [Servers -> [Boundaries -> RelayLabels]]
    <3>1. \E p \in RelayLabels : Goto(s, b, p)
      BY <1>2, Zenon DEF RunEnds, OwnershipStarts, PublishRetried, RelayLabels, Goto
    <3> QED BY <3>1, RelayMoves, Zenon
  <2> QED BY <1>2, <2>1, Zenon
    DEF RunEnds, Types, ListenerTypes, RelayTypes, listenerVars, relayVars
<1>3. ASSUME NEW s \in Servers, NEW b \in Boundaries, Publish(s, b) PROVE Types'
  <2>1. rpc' \in [Servers -> [Boundaries -> RelayLabels]]
    <3>1. \E p \in RelayLabels : Goto(s, b, p)
      BY <1>3, Zenon DEF Publish, OwnershipStarts, PublishRetried, RelayLabels, Goto
    <3> QED BY <3>1, RelayMoves, Zenon
  <2>2. hinted' \in [Boundaries -> Nat]
    BY <1>3 DEF Publish, Types, RelayTypes
  <2> QED BY <1>3, <2>1, <2>2, Zenon
    DEF Publish, Types, ListenerTypes, RelayTypes, listenerVars, relayVars
<1>4. ASSUME NEW s \in Servers, NEW b \in Boundaries, WaitSignal(s, b) PROVE Types'
  <2>1. wake' \in [Servers -> SUBSET Boundaries]
    <3>1. wake \in [Servers -> SUBSET Boundaries]
      BY Zenon DEF Types, ListenerTypes
    <3>2. wake' = wake \/ wake' = [wake EXCEPT ![s] = @ \ {b}]
      BY <1>4, Zenon DEF WaitSignal
    <3> QED BY <3>1, <3>2
  <2>2. rpc' \in [Servers -> [Boundaries -> RelayLabels]]
    <3>1. \E p \in RelayLabels : Goto(s, b, p)
      BY <1>4, Zenon DEF WaitSignal, OwnershipStarts, PublishRetried, RelayLabels, Goto
    <3> QED BY <3>1, RelayMoves, Zenon
  <2> QED BY <1>4, <2>1, <2>2, Zenon
    DEF WaitSignal, Types, ListenerTypes, RelayTypes, listenerVars, relayVars
<1>5. ASSUME NEW s \in Servers, NEW b \in Boundaries, Release(s, b) PROVE Types'
  <2>1. holder' \in [Boundaries -> Servers \union {None}]
    BY <1>5 DEF Release, Released, Types, RelayTypes
  <2>2. rpc' \in [Servers -> [Boundaries -> RelayLabels]]
    <3>1. \E p \in RelayLabels : Goto(s, b, p)
      BY <1>5, Zenon DEF Release, OwnershipStarts, PublishRetried, RelayLabels, Goto
    <3> QED BY <3>1, RelayMoves, Zenon
  <2> QED BY <1>5, <2>1, <2>2, Zenon
    DEF Release, Types, ListenerTypes, RelayTypes, listenerVars, relayVars
<1> QED BY <1>1, <1>2, <1>3, <1>4, <1>5, Zenon DEF Owner

\* Every step keeps the types.
LEMMA TypeStep ==
  ASSUME Types, [Next]_vars
  PROVE  Types'
<1>1. CASE UNCHANGED vars
  BY <1>1, Zenon DEF vars, listenerVars, relayVars, Types, ListenerTypes, RelayTypes
<1> QED BY <1>1, StepCases, InnerTypes, OuterTypes, OwnerTypes, Zenon

-----------------------------------------------------------------------------
(* Relays and their leases.                                                 *)

\* The listeners take no registration back, and a wake-up of theirs stays.
LEMMA InnerKeeps ==
  ASSUME Types, Inner
  PROVE  \A s \in Servers : signals[s] \subseteq signals'[s] /\ wake[s] \subseteq wake'[s]
<1>0. signals \in [Servers -> SUBSET Boundaries] /\ wake \in [Servers -> SUBSET Boundaries]
  BY Zenon DEF Types, ListenerTypes
<1>1. ASSUME NEW s \in Servers, ListenBoundary(s, stopping)
      PROVE  \A t \in Servers : signals[t] \subseteq signals'[t] /\ wake[t] \subseteq wake'[t]
  <2>1. UNCHANGED wake /\ \/ signals' = signals
                          \/ signals' = [signals EXCEPT ![s] = @ \union {BoundaryOf[Head(pending[s])]}]
    BY <1>1, Zenon DEF ListenBoundary
  <2> QED BY <1>0, <2>1
<1>2. ASSUME NEW s \in Servers, WaitForNotification(s, stopping)
      PROVE  \A t \in Servers : signals[t] \subseteq signals'[t] /\ wake[t] \subseteq wake'[t]
  <2>1. UNCHANGED signals /\ \/ wake' = wake
                             \/ \E b \in inbox[s] : wake' = [wake EXCEPT ![s] = @ \union {b}]
    BY <1>2, Zenon DEF WaitForNotification, Dispatched
  <2> QED BY <1>0, <2>1
<1>3. ASSUME NEW s \in Servers, SwapConnection(s)
      PROVE  \A t \in Servers : signals[t] \subseteq signals'[t] /\ wake[t] \subseteq wake'[t]
  BY <1>0, <1>3 DEF SwapConnection, WakeRegisteredBoundaries
<1> QED
  BY <1>1, <1>2, <1>3, Zenon
  DEF Inner, NoListenRequest, ArmNotificationWait, Reconnect, EnsureBoundary, EnsureGivesUp

\* What runBoundary and relayBoundaryNotifications do in a step of the relay of
\* b on s: it takes the lease or gives it up, publishes, or consumes a wake-up.
Runs(s, b, p) ==
  /\ Moved(s, b, p)
  /\ rpc[s][b] # "off"
  /\ p \in {"check", "wait"} => rpc[s][b] \in {"check", "wait"} \/ b \in signals[s]
  /\ p = "wait" => hinted'[b] = commits[b]
  /\ UNCHANGED <<lpc, up, inbox, signals, spc, starting, commits>>
  /\ \A c \in Boundaries : c # b => holder'[c] = holder[c] /\ hinted'[c] = hinted[c]
  /\ \/ holder'[b] = s /\ holder[b] = None /\ p \in {"check", "release"}
     \/ holder'[b] = None
     \/ /\ holder'[b] = holder[b]
        /\ holder[b] = s => rpc[s][b] = "acquire" \/ p \in {"check", "wait", "release"}
  /\ hinted'[b] \in {hinted[b], commits[b]}
  /\ \A t \in Servers, c \in Boundaries : (t # s \/ c # b) /\ c \in wake[t] => c \in wake'[t]

\* Each step of a relay is of that kind.
LEMMA OwnerRuns ==
  ASSUME Types, Owner
  PROVE  \E s \in Servers, b \in Boundaries, p \in RelayLabels : Runs(s, b, p)
<1>0. /\ holder \in [Boundaries -> Servers \union {None}] /\ None \notin Servers
      /\ hinted \in [Boundaries -> Nat] /\ commits \in [Boundaries -> Nat]
      /\ wake \in [Servers -> SUBSET Boundaries]
  BY ListenerAssumption, Zenon DEF Types, ListenerTypes, RelayTypes
<1>1. ASSUME NEW s \in Servers, NEW b \in Boundaries, AcquireLock(s, b)
      PROVE  \E p \in RelayLabels : Runs(s, b, p)
  <2>1. PICK p \in {"check", "release"} : Goto(s, b, p) /\ (p = "check" => b \in signals[s])
    BY <1>1, Zenon DEF AcquireLock, OwnershipStarts
  <2>2. p \in RelayLabels BY Zenon DEF RelayLabels
  <2>3. rpc[s][b] = "acquire" /\ holder[b] = None /\ holder' = [holder EXCEPT ![b] = s]
        /\ UNCHANGED <<listenerVars, spc, starting, commits, hinted>>
    BY <1>1, Zenon DEF AcquireLock, At
  <2>4. holder'[b] = s /\ \A c \in Boundaries : c # b => holder'[c] = holder[c]
    BY <1>0, <2>3, Zenon
  <2>5. p # "wait" BY Zenon
  <2>6. Runs(s, b, p)
    <3>1. Moved(s, b, p) BY <2>1, <2>2, <2>3, <2>4, <2>5, RelayMoves, Zenon
    <3> QED BY <2>1, <2>2, <2>3, <2>4, <2>5, <3>1, Zenon DEF Runs, listenerVars
  <2> QED BY <2>2, <2>6, Zenon
<1>2. ASSUME NEW s \in Servers, NEW b \in Boundaries, RunEnds(s, b)
      PROVE  \E p \in RelayLabels : Runs(s, b, p)
  <2>1. rpc[s][b] = "acquire" /\ Goto(s, b, "off") /\ "off" \in RelayLabels
        /\ UNCHANGED <<listenerVars, holder, spc, starting, commits, hinted>>
    BY <1>2, Zenon DEF RunEnds, At, RelayLabels
  <2>2. Runs(s, b, "off")
    <3>1. Moved(s, b, "off") BY <2>1, RelayMoves, Zenon
    <3> QED BY <2>1, <3>1, Zenon DEF Runs, listenerVars
  <2> QED BY <2>1, <2>2, Zenon
<1>3. ASSUME NEW s \in Servers, NEW b \in Boundaries, Publish(s, b)
      PROVE  \E p \in RelayLabels : Runs(s, b, p)
  <2>1. rpc[s][b] = "check" /\ UNCHANGED <<listenerVars, holder, spc, starting, commits>>
    BY <1>3, Zenon DEF Publish, At
  <2>2. CASE Goto(s, b, "wait") /\ hinted' = [hinted EXCEPT ![b] = commits[b]]
    <3>1. hinted'[b] = commits[b] /\ \A c \in Boundaries : c # b => hinted'[c] = hinted[c]
      BY <1>0, <2>2, Zenon
    <3>2. "wait" \in RelayLabels BY Zenon DEF RelayLabels
    <3>3. Runs(s, b, "wait")
      <4>1. Moved(s, b, "wait") BY <2>1, <2>2, <3>1, <3>2, RelayMoves, Zenon
      <4> QED BY <2>1, <2>2, <3>1, <3>2, <4>1, Zenon DEF Runs, listenerVars
    <3> QED BY <3>2, <3>3, Zenon
  <2>3. CASE (Goto(s, b, "release") \/ Goto(s, b, "check")) /\ UNCHANGED hinted
    <3>1. PICK p \in {"release", "check"} : Goto(s, b, p) BY <2>3, Zenon
    <3>2. p \in RelayLabels /\ p # "wait" /\ p # "acquire" BY Zenon DEF RelayLabels
    <3>3. Runs(s, b, p)
      <4>1. Moved(s, b, p) BY <2>1, <2>3, <3>1, <3>2, RelayMoves, Zenon
      <4> QED BY <2>1, <2>3, <3>1, <3>2, <4>1, Zenon DEF Runs, listenerVars
    <3> QED BY <3>2, <3>3, Zenon
  <2> QED BY <1>3, <2>2, <2>3, Zenon DEF Publish, PublishRetried
<1>4. ASSUME NEW s \in Servers, NEW b \in Boundaries, WaitSignal(s, b)
      PROVE  \E p \in RelayLabels : Runs(s, b, p)
  <2>1. rpc[s][b] = "wait" /\ UNCHANGED <<lpc, up, inbox, signals, holder, spc, starting, commits, hinted>>
    BY <1>4, Zenon DEF WaitSignal, At
  <2>2. PICK p \in {"release", "check"} : Goto(s, b, p) BY <1>4, Zenon DEF WaitSignal
  <2>3. p \in RelayLabels /\ p # "wait" /\ p # "acquire" BY Zenon DEF RelayLabels
  <2>4. wake' = wake \/ wake' = [wake EXCEPT ![s] = @ \ {b}]
    BY <1>4, Zenon DEF WaitSignal
  <2>5. \A t \in Servers, c \in Boundaries : (t # s \/ c # b) /\ c \in wake[t] => c \in wake'[t]
    BY <1>0, <2>4
  <2>6. Runs(s, b, p)
    <3>1. Moved(s, b, p) BY <2>1, <2>2, <2>3, <2>5, RelayMoves, Zenon
    <3> QED BY <2>1, <2>2, <2>3, <2>5, <3>1, Zenon DEF Runs
  <2> QED BY <2>3, <2>6, Zenon
<1>5. ASSUME NEW s \in Servers, NEW b \in Boundaries, Release(s, b)
      PROVE  \E p \in RelayLabels : Runs(s, b, p)
  <2>1. rpc[s][b] = "release" /\ UNCHANGED <<listenerVars, spc, starting, commits, hinted>>
        /\ holder' = [holder EXCEPT ![b] = IF @ = s THEN None ELSE @]
    BY <1>5, Zenon DEF Release, At, Released
  <2>2. PICK p \in {"off", "acquire"} : Goto(s, b, p) BY <1>5, Zenon DEF Release
  <2>3. p \in RelayLabels /\ p \notin {"check", "wait"} BY Zenon DEF RelayLabels
  <2>4. /\ \A c \in Boundaries : c # b => holder'[c] = holder[c]
        /\ holder'[b] = None \/ (holder'[b] = holder[b] /\ holder[b] # s)
    BY <1>0, <2>1, Zenon
  <2>5. Runs(s, b, p)
    <3>1. Moved(s, b, p) BY <2>1, <2>2, <2>3, <2>4, RelayMoves, Zenon
    <3> QED BY <2>1, <2>2, <2>3, <2>4, <3>1, Zenon DEF Runs, listenerVars
  <2> QED BY <2>3, <2>5, Zenon
<1> QED BY <1>1, <1>2, <1>3, <1>4, <1>5, Zenon DEF Owner

\* What the lease, the mutex and the labels say of each other is kept.
LEMMA LeaseStep ==
  ASSUME Types, StopInv, StartInv, LeaseInv, SignalInv, [Next]_vars
  PROVE  StopInv' /\ StartInv' /\ LeaseInv' /\ SignalInv'
<1>0. /\ spc \in [Servers -> {"run", "cancelled", "waiting", "stopped", "crashed"}]
      /\ rpc \in [Servers -> [Boundaries -> RelayLabels]]
      /\ holder \in [Boundaries -> Servers \union {None}] /\ None \notin Servers /\ None \notin Calls
      /\ starting \in [Servers -> Calls \union {None}]
      /\ ServerOf \in [Calls -> Servers] /\ BoundaryOf \in [Calls -> Boundaries]
      /\ signals \in [Servers -> SUBSET Boundaries]
  BY ListenerAssumption, Zenon DEF Types, ListenerTypes, RelayTypes
<1>1. CASE UNCHANGED relayVars /\ \A s \in Servers : signals[s] \subseteq signals'[s]
  BY <1>0, <1>1, Zenon DEF relayVars, StopInv, StartInv, LeaseInv, SignalInv
<1>2. CASE Inner /\ UNCHANGED relayVars
  BY <1>1, <1>2, InnerKeeps, Zenon
<1>3. ASSUME NEW b \in Boundaries, LoseLease(b) \/ ExpireLease(b)
      PROVE  StopInv' /\ StartInv' /\ LeaseInv' /\ SignalInv'
  <2>1. holder' = [holder EXCEPT ![b] = None] /\ UNCHANGED <<rpc, spc, starting, signals>>
    BY <1>3, Zenon DEF LoseLease, ExpireLease, listenerVars
  <2>2. \A c \in Boundaries : holder'[c] = holder[c] \/ holder'[c] = None
    BY <1>0, <2>1, Zenon
  <2>3. LeaseInv' BY <1>0, <2>1, <2>2, Zenon DEF LeaseInv
  <2> QED BY <2>1, <2>3, Zenon DEF StopInv, StartInv, SignalInv
<1>4. ASSUME NEW s \in Servers, Crash(s)
      PROVE  StopInv' /\ StartInv' /\ LeaseInv' /\ SignalInv'
  <2>1. /\ spc' = [spc EXCEPT ![s] = "crashed"]
        /\ rpc' = [rpc EXCEPT ![s] = [b \in Boundaries |-> "off"]]
        /\ UNCHANGED <<holder, starting, signals>>
    BY <1>4, Zenon DEF Crash
  <2>2. /\ spc'[s] = "crashed" /\ \A b \in Boundaries : rpc'[s][b] = "off"
        /\ \A t \in Servers : t # s => spc'[t] = spc[t] /\ rpc'[t] = rpc[t]
    BY <1>0, <2>1, Zenon
  <2>3. StopInv' BY <2>1, <2>2 DEF StopInv
  <2>4. StartInv' BY <2>1, <2>2 DEF StartInv
  <2>5. LeaseInv' BY <2>1, <2>2 DEF LeaseInv
  <2>6. SignalInv' BY <2>1, <2>2, Zenon DEF SignalInv
  <2> QED BY <2>3, <2>4, <2>5, <2>6
<1>5. ASSUME NEW s \in Servers, StopCancel(s) \/ StopMark(s) \/ StopReturns(s)
      PROVE  StopInv' /\ StartInv' /\ LeaseInv' /\ SignalInv'
  <2>1. UNCHANGED <<rpc, holder, starting, signals>>
    BY <1>5, Zenon DEF StopCancel, StopMark, StopReturns, listenerVars
  <2>2. PICK v \in {"cancelled", "waiting", "stopped"} :
          /\ spc' = [spc EXCEPT ![s] = v]
          /\ v = "waiting" => starting[s] = None
          /\ v = "stopped" => starting[s] = None /\ \A b \in Boundaries : rpc[s][b] = "off"
    BY <1>5, Zenon DEF StopCancel, StopMark, StopReturns, MutexFree, StopInv
  <2>3. spc[s] # "crashed"
    BY <1>5, Zenon DEF StopCancel, StopMark, StopReturns
  <2>4. spc'[s] = v /\ \A t \in Servers : t # s => spc'[t] = spc[t]
    BY <1>0, <2>2, Zenon
  <2>5. StopInv' BY <2>1, <2>2, <2>4 DEF StopInv
  <2>6. StartInv' BY <2>1, <2>3, <2>4, Zenon DEF StartInv
  <2>7. LeaseInv' BY <2>1, <2>3, <2>4, Zenon DEF LeaseInv
  <2> QED BY <2>1, <2>5, <2>6, <2>7, Zenon DEF SignalInv
<1>6. ASSUME NEW s \in Servers, StartRelay(s)
      PROVE  StopInv' /\ StartInv' /\ LeaseInv' /\ SignalInv'
  <2>1. PICK c \in Boundaries : c = BoundaryOf[starting[s]]
    BY <1>0, <1>6, Zenon DEF StartRelay
  <2>2. /\ Goto(s, c, "acquire") /\ starting[s] # None /\ spc[s] # "crashed"
        /\ starting' = [starting EXCEPT ![s] = None]
        /\ UNCHANGED <<holder, spc, signals>>
    BY <1>6, <2>1, Zenon DEF StartRelay, Goto
  <2>3. Moved(s, c, "acquire")
    <3>1. "acquire" \in RelayLabels BY Zenon DEF RelayLabels
    <3> QED BY <2>2, <3>1, RelayMoves, Zenon
  <2>4. starting'[s] = None /\ \A t \in Servers : t # s => starting'[t] = starting[t]
    BY <1>0, <2>2, Zenon
  <2>5. /\ rpc[s][c] = "off" /\ spc[s] \notin {"waiting", "stopped"}
        /\ holder[c] # s
    BY <2>1, <2>2, Zenon DEF StartInv, StopInv, LeaseInv
  <2>6. StopInv' BY <2>2, <2>3, <2>4, <2>5 DEF StopInv, Moved
  <2>7. StartInv'
    <3> SUFFICES ASSUME NEW t \in Servers, starting'[t] # None, spc[t] # "crashed"
                 PROVE  rpc'[t][BoundaryOf[starting'[t]]] = "off"
      BY <2>2, Zenon DEF StartInv
    <3>1. t # s /\ starting'[t] = starting[t] BY <2>4, Zenon
    <3>2. PICK d \in Boundaries : d = BoundaryOf[starting[t]] BY <1>0, <3>1, Zenon
    <3>3. rpc[t][d] = "off" BY <3>1, <3>2, Zenon DEF StartInv
    <3> QED BY <2>3, <3>1, <3>2, <3>3, Zenon DEF Moved
  <2>8. LeaseInv' BY <2>2, <2>3, <2>5, Zenon DEF LeaseInv, Moved
  <2>9. SignalInv' BY <2>2, <2>3, Zenon DEF SignalInv, Moved
  <2> QED BY <2>6, <2>7, <2>8, <2>9
<1>7. ASSUME NEW c \in Calls, StartBoundary(c)
      PROVE  StopInv' /\ StartInv' /\ LeaseInv' /\ SignalInv'
  <2>1. UNCHANGED <<rpc, holder, spc, signals>>
    BY <1>7, Zenon DEF StartBoundary
  <2>2. PICK s \in Servers : s = ServerOf[c] BY <1>0, Zenon
  <2>3. \/ UNCHANGED starting
        \/ /\ starting' = [starting EXCEPT ![s] = c]
           /\ spc[s] = "run" /\ rpc[s][BoundaryOf[c]] = "off"
    BY <1>7, <2>2, Zenon DEF StartBoundary, stopping
  <2>4. CASE UNCHANGED starting
    BY <2>1, <2>4, Zenon DEF StopInv, StartInv, LeaseInv, SignalInv
  <2>5. CASE /\ starting' = [starting EXCEPT ![s] = c]
             /\ spc[s] = "run" /\ rpc[s][BoundaryOf[c]] = "off"
    <3>1. starting'[s] = c /\ \A t \in Servers : t # s => starting'[t] = starting[t]
      BY <1>0, <2>5, Zenon
    <3>2. StopInv' BY <2>1, <2>5, <3>1, Zenon DEF StopInv
    <3>3. StartInv' BY <2>1, <2>5, <3>1, Zenon DEF StartInv
    <3> QED BY <2>1, <3>2, <3>3, Zenon DEF LeaseInv, SignalInv
  <2> QED BY <2>3, <2>4, <2>5, Zenon
<1>8. ASSUME NEW s \in Servers, NEW b \in Boundaries, NEW p \in RelayLabels, Runs(s, b, p)
      PROVE  StopInv' /\ StartInv' /\ LeaseInv' /\ SignalInv'
  <2>1. /\ Moved(s, b, p) /\ rpc[s][b] # "off" /\ UNCHANGED <<spc, starting, signals>>
        /\ p \in {"check", "wait"} => rpc[s][b] \in {"check", "wait"} \/ b \in signals[s]
    BY <1>8, Zenon DEF Runs
  <2>2. /\ \A c \in Boundaries : c # b => holder'[c] = holder[c]
        /\ \/ holder'[b] = s /\ p \in {"check", "release"}
           \/ holder'[b] = None
           \/ /\ holder'[b] = holder[b]
              /\ holder[b] = s => rpc[s][b] = "acquire" \/ p \in {"check", "wait", "release"}
    BY <1>8, Zenon DEF Runs
  <2>3. StopInv' BY <2>1 DEF StopInv, Moved
  <2>4. StartInv'
    <3> SUFFICES ASSUME NEW t \in Servers, starting[t] # None, spc[t] # "crashed"
                 PROVE  rpc'[t][BoundaryOf[starting[t]]] = "off"
      BY <2>1, Zenon DEF StartInv
    <3>1. PICK c \in Boundaries : c = BoundaryOf[starting[t]] BY <1>0, Zenon
    <3>2. rpc[t][c] = "off" BY <3>1, Zenon DEF StartInv
    <3> QED BY <2>1, <3>1, <3>2, Zenon DEF Moved
  <2>5. LeaseInv'
    <3> SUFFICES ASSUME NEW t \in Servers, NEW c \in Boundaries, holder'[c] = t, spc[t] # "crashed"
                 PROVE  rpc'[t][c] \in {"check", "wait", "release"}
      BY <2>1, Zenon DEF LeaseInv
    <3>1. CASE t # s \/ c # b
      <4>1. holder[c] = t BY <1>0, <2>2, <3>1, Zenon
      <4> QED BY <2>1, <3>1, <4>1, Zenon DEF Moved, LeaseInv
    <3>2. CASE t = s /\ c = b
      <4>1. rpc'[t][c] = p BY <2>1, <3>2, Zenon DEF Moved
      <4>2. p \in {"check", "wait", "release"}
        BY <1>0, <2>2, <3>2, Zenon DEF LeaseInv
      <4> QED BY <4>1, <4>2
    <3> QED BY <3>1, <3>2, Zenon
  <2>6. SignalInv' BY <2>1, Zenon DEF SignalInv, Moved
  <2> QED BY <2>3, <2>4, <2>5, <2>6
<1>9. CASE Outer
  <2>1. ASSUME (\E b \in Boundaries : Commit(b)) \/ (\E s \in Servers : Disconnect(s))
        PROVE  UNCHANGED relayVars /\ \A s \in Servers : signals[s] \subseteq signals'[s]
    BY <2>1, Zenon DEF Commit, Disconnect
  <2> QED BY <1>1, <1>3, <1>4, <1>5, <1>6, <1>7, <1>9, <2>1, Zenon DEF Outer
<1>10. CASE UNCHANGED vars
  BY <1>1, <1>10, Zenon DEF vars, listenerVars
<1> QED BY <1>2, <1>8, <1>9, <1>10, StepCases, OwnerRuns, Zenon DEF relayVars

-----------------------------------------------------------------------------
(* Wake-ups.                                                                *)

\* The owner of b that is not stopping has registered b, or is about to release.
LEMMA OwnerListens ==
  ASSUME Types, LeaseInv, SignalInv, NEW s \in Servers, NEW b \in Boundaries,
         holder[b] = s, s \notin stopping
  PROVE  rpc[s][b] = "release" \/ b \in signals[s]
<1>1. spc[s] # "crashed" BY Zenon DEF stopping
<1> QED BY <1>1, Zenon DEF LeaseInv, SignalInv

\* The listener loses no reason for a hint: a notification becomes a wake-up, a
\* broken session is rebuilt, and a rebuilt one wakes every registered boundary.
LEMMA InnerComing ==
  ASSUME Types, Inner, UNCHANGED <<relayVars, commits, hinted, faults>>, LeaseInv, SignalInv,
         NEW s \in Servers, NEW b \in Boundaries, holder[b] = s, s \notin stopping,
         HintIsComing(s, b)
  PROVE  HintIsComing(s, b)'
<1>0. /\ lpc \in [Servers -> {"top", "arm", "wait", "reconnect", "swap", "done"}]
      /\ wake \in [Servers -> SUBSET Boundaries] /\ inbox \in [Servers -> SUBSET Boundaries]
      /\ wake[s] \subseteq wake'[s] /\ stopping' = stopping /\ rpc' = rpc
  BY InnerKeeps, Zenon DEF Types, ListenerTypes, relayVars, stopping
<1>1. CASE UNCHANGED <<up, inbox>> /\ (lpc'[s] = lpc[s] \/ lpc[s] \notin {"reconnect", "swap"})
  BY <1>0, <1>1, Zenon DEF HintIsComing
<1>2. ASSUME NEW t \in Servers, NoListenRequest(t) \/ ArmNotificationWait(t) PROVE HintIsComing(s, b)'
  <2>1. lpc[t] \notin {"reconnect", "swap"} /\ UNCHANGED <<up, inbox>>
    BY <1>2, Zenon DEF NoListenRequest, ArmNotificationWait
  <2>2. t # s => lpc'[s] = lpc[s]
    BY <1>0, <1>2, Zenon DEF NoListenRequest, ArmNotificationWait
  <2> QED BY <1>1, <2>1, <2>2, Zenon
<1>3. ASSUME NEW t \in Servers, WaitForNotification(t, stopping) PROVE HintIsComing(s, b)'
  <2>1. lpc[t] = "wait" /\ UNCHANGED up /\ \E v : lpc' = [lpc EXCEPT ![t] = v]
    BY <1>3, Zenon DEF WaitForNotification
  <2>2. lpc[s] \notin {"reconnect", "swap"} \/ lpc'[s] = lpc[s]
    BY <1>0, <2>1, Zenon
  <2>3. CASE UNCHANGED inbox BY <1>1, <2>1, <2>2, <2>3, Zenon
  <2>4. ASSUME NEW c \in inbox[t], inbox' = [inbox EXCEPT ![t] = @ \ {c}],
               wake' = [wake EXCEPT ![t] = @ \union {c}]
        PROVE  HintIsComing(s, b)'
    <3>1. b \in inbox[s] => b \in inbox'[s] \/ b \in wake'[s]
      BY <1>0, <2>4
    <3> QED BY <1>0, <2>1, <2>2, <3>1, Zenon DEF HintIsComing
  <2> QED BY <1>3, <2>3, <2>4, Zenon DEF WaitForNotification, Dispatched
<1>4. ASSUME NEW t \in Servers, Reconnect(t, stopping) PROVE HintIsComing(s, b)'
  <2>1. CASE t = s
    <3>1. lpc' = [lpc EXCEPT ![s] = "swap"]
      BY <1>4, <2>1, Zenon DEF Reconnect
    <3>2. lpc'[s] = "swap" BY <1>0, <3>1, Zenon
    <3> QED BY <3>2, Zenon DEF HintIsComing
  <2>2. CASE t # s
    <3>1. lpc'[s] = lpc[s] /\ (s \in up' => s \in up) /\ UNCHANGED inbox
      BY <1>0, <1>4, <2>2, Zenon DEF Reconnect
    <3> QED BY <1>0, <3>1, Zenon DEF HintIsComing
  <2> QED BY <2>1, <2>2
<1>5. ASSUME NEW t \in Servers, SwapConnection(t) PROVE HintIsComing(s, b)'
  <2>1. CASE t = s
    <3>1. signals[s] \subseteq wake'[s]
      BY <1>0, <1>5, <2>1 DEF SwapConnection, WakeRegisteredBoundaries
    <3> QED BY <1>0, <3>1, OwnerListens, Zenon DEF HintIsComing
  <2>2. CASE t # s
    <3>1. lpc'[s] = lpc[s] /\ UNCHANGED <<up, inbox>>
      BY <1>0, <1>5, <2>2, Zenon DEF SwapConnection
    <3> QED BY <1>1, <3>1
  <2> QED BY <2>1, <2>2
<1> QED
  BY <1>1, <1>2, <1>3, <1>4, <1>5, Zenon
  DEF Inner, ListenBoundary, EnsureBoundary, EnsureGivesUp

\* A commit that no hint covers, and what its owner has.
Covered(b) == hinted[b] < commits[b] /\ holder[b] # None => HintIsComing(holder[b], b)

\* A commit reaches the owner's session, unless the session is to be rebuilt.
LEMMA CommitCovered ==
  ASSUME Types, LeaseInv, SignalInv, NoLostWakeup, NEW b \in Boundaries, Commit(b)
  PROVE  \A c \in Boundaries : Covered(c)'
<1>0. /\ holder \in [Boundaries -> Servers \union {None}] /\ commits \in [Boundaries -> Nat]
      /\ inbox \in [Servers -> SUBSET Boundaries]
      /\ commits' = [commits EXCEPT ![b] = @ + 1] /\ UNCHANGED <<lpc, up, signals, wake, relayVars, hinted>>
      /\ Notified(b)
  BY Zenon DEF Commit, Types, ListenerTypes, RelayTypes
<1>1. UNCHANGED <<rpc, holder, spc>> /\ stopping' = stopping BY <1>0, Zenon DEF relayVars, stopping
<1>2. \A s \in Servers : inbox[s] \subseteq inbox'[s] /\ (s \in up /\ b \in signals[s] => b \in inbox'[s])
  BY <1>0 DEF Notified
<1>3. ASSUME NEW c \in Boundaries, c # b PROVE Covered(c)'
  <2>1. commits'[c] = commits[c] BY <1>0, <1>3, Zenon
  <2> QED BY <1>0, <1>1, <1>2, <2>1, Zenon DEF Covered, NoLostWakeup, HintIsComing
<1>4. Covered(b)'
  <2> SUFFICES ASSUME NEW s \in Servers, holder[b] = s PROVE HintIsComing(s, b)'
    BY <1>0, <1>1, Zenon DEF Covered
  <2>1. CASE s \in stopping BY <1>1, <2>1, Zenon DEF HintIsComing
  <2>2. CASE s \notin stopping
    BY <1>0, <1>1, <1>2, <2>2, OwnerListens, Zenon DEF HintIsComing
  <2> QED BY <2>1, <2>2
<1> QED BY <1>3, <1>4, Zenon

\* No step leaves an owner without a reason to publish.
LEMMA WakeStep ==
  ASSUME RelayInv, LeaseInv', [Next]_vars
  PROVE  NoLostWakeup'
<1> SUFFICES \A b \in Boundaries : Covered(b)'
  BY Zenon DEF NoLostWakeup, Covered
<1>0. /\ Types /\ LeaseInv /\ SignalInv /\ NoLostWakeup
      /\ holder \in [Boundaries -> Servers \union {None}] /\ None \notin Servers
      /\ spc \in [Servers -> {"run", "cancelled", "waiting", "stopped", "crashed"}]
      /\ rpc \in [Servers -> [Boundaries -> RelayLabels]]
      /\ up \subseteq Servers /\ lpc \in [Servers -> {"top", "arm", "wait", "reconnect", "swap", "done"}]
      /\ inbox \in [Servers -> SUBSET Boundaries]
      /\ hinted \in [Boundaries -> Nat] /\ commits \in [Boundaries -> Nat]
      /\ \A b \in Boundaries : Covered(b)
  BY ListenerAssumption, Zenon
  DEF RelayInv, Types, ListenerTypes, RelayTypes, NoLostWakeup, Covered
<1>1. CASE UNCHANGED vars
  BY <1>0, <1>1, Zenon DEF vars, listenerVars, relayVars, Covered, HintIsComing, stopping
<1>2. CASE Inner /\ UNCHANGED <<relayVars, commits, hinted, faults>>
  <2> SUFFICES ASSUME NEW b \in Boundaries, hinted[b] < commits[b], NEW s \in Servers, holder[b] = s
               PROVE  HintIsComing(s, b)'
    BY <1>0, <1>2, Zenon DEF Covered, relayVars
  <2>1. HintIsComing(s, b) BY <1>0, Zenon DEF Covered
  <2>2. CASE s \in stopping
    <3>1. s \in stopping' BY <1>2, <2>2, Zenon DEF stopping, relayVars
    <3> QED BY <3>1, Zenon DEF HintIsComing
  <2>3. CASE s \notin stopping BY <1>0, <1>2, <2>1, <2>3, InnerComing, Zenon
  <2> QED BY <2>2, <2>3
<1>3. ASSUME NEW c \in Boundaries, LoseLease(c) \/ ExpireLease(c), NEW b \in Boundaries
      PROVE  Covered(b)'
  <2>1. /\ UNCHANGED <<lpc, up, inbox, wake, rpc, spc, commits, hinted>>
        /\ holder' = [holder EXCEPT ![c] = None]
    BY <1>3, Zenon DEF LoseLease, ExpireLease, listenerVars
  <2>2. holder'[b] = None \/ holder'[b] = holder[b] BY <1>0, <2>1, Zenon
  <2>3. \A s \in Servers : HintIsComing(s, b) => HintIsComing(s, b)'
    BY <2>1, Zenon DEF HintIsComing, stopping
  <2> QED BY <1>0, <2>1, <2>2, <2>3, Zenon DEF Covered
<1>4. ASSUME NEW t \in Servers, Disconnect(t), NEW b \in Boundaries
      PROVE  Covered(b)'
  <2>1. /\ UNCHANGED <<lpc, wake, rpc, holder, spc, commits, hinted>>
        /\ up' = up \ {t} /\ inbox' = [inbox EXCEPT ![t] = {}]
    BY <1>4, Zenon DEF Disconnect, Disconnected, relayVars
  <2>2. \A s \in Servers : s # t => inbox'[s] = inbox[s]
    BY <1>0, <2>1, Zenon
  <2> QED BY <1>0, <2>1, <2>2, Zenon DEF Covered, HintIsComing, stopping
<1>5. ASSUME NEW t \in Servers, Crash(t), NEW b \in Boundaries
      PROVE  Covered(b)'
  <2>1. /\ UNCHANGED <<wake, holder, commits, hinted>>
        /\ spc' = [spc EXCEPT ![t] = "crashed"]
        /\ rpc' = [rpc EXCEPT ![t] = [c \in Boundaries |-> "off"]]
        /\ lpc' = [lpc EXCEPT ![t] = "done"]
        /\ up' = up \ {t} /\ inbox' = [inbox EXCEPT ![t] = {}]
    BY <1>5, Zenon DEF Crash
  <2>2. \A s \in Servers : s # t => /\ inbox'[s] = inbox[s] /\ lpc'[s] = lpc[s]
                                    /\ rpc'[s] = rpc[s] /\ spc'[s] = spc[s]
    BY <1>0, <2>1, Zenon
  <2> QED BY <1>0, <2>1, <2>2, Zenon DEF Covered, HintIsComing, stopping
<1>6. ASSUME NEW t \in Servers, StopCancel(t) \/ StopMark(t) \/ StopReturns(t), NEW b \in Boundaries
      PROVE  Covered(b)'
  <2>1. /\ UNCHANGED <<lpc, up, inbox, wake, rpc, holder, commits, hinted>>
        /\ \E v \in {"cancelled", "waiting", "stopped"} : spc' = [spc EXCEPT ![t] = v]
    BY <1>6, Zenon DEF StopCancel, StopMark, StopReturns, listenerVars
  <2>2. stopping \subseteq stopping' BY <1>0, <2>1 DEF stopping
  <2> QED BY <1>0, <2>1, <2>2, Zenon DEF Covered, HintIsComing
<1>7. ASSUME NEW t \in Servers, StartRelay(t), NEW b \in Boundaries
      PROVE  Covered(b)'
  <2>1. /\ UNCHANGED <<lpc, up, inbox, wake, holder, spc, commits, hinted>>
        /\ starting[t] # None /\ spc[t] # "crashed"
        /\ Goto(t, BoundaryOf[starting[t]], "acquire")
    BY <1>7, Zenon DEF StartRelay, Goto
  <2>2. PICK c \in Boundaries : c = BoundaryOf[starting[t]]
    BY <1>0, <2>1, ListenerAssumption, Zenon DEF Types, RelayTypes
  <2>3. rpc[t][c] = "off" BY <2>1, <2>2, Zenon DEF RelayInv, StartInv
  <2>4. Moved(t, c, "acquire")
    <3>1. "acquire" \in RelayLabels BY Zenon DEF RelayLabels
    <3> QED BY <1>0, <2>1, <2>2, <3>1, RelayMoves, Zenon
  <2>5. \A s \in Servers : rpc[s][b] \in {"check", "release"} => rpc'[s][b] \in {"check", "release"}
    BY <2>3, <2>4, Zenon DEF Moved
  <2> QED BY <1>0, <2>1, <2>5, Zenon DEF Covered, HintIsComing, stopping
<1>8. ASSUME NEW c \in Calls, StartBoundary(c), NEW b \in Boundaries
      PROVE  Covered(b)'
  BY <1>0, <1>8, Zenon DEF StartBoundary, Covered, HintIsComing, stopping
<1>9. CASE Outer
  BY <1>0, <1>3, <1>4, <1>5, <1>6, <1>7, <1>8, <1>9, CommitCovered, Zenon DEF Outer
<1>10. CASE Owner
  <2>1. PICK t \in Servers, c \in Boundaries, p \in RelayLabels : Runs(t, c, p)
    BY <1>0, <1>10, OwnerRuns, Zenon
  <2>2. /\ Moved(t, c, p) /\ UNCHANGED <<lpc, up, inbox, spc, commits>>
        /\ p = "wait" => hinted'[c] = commits[c]
        /\ \A b \in Boundaries : b # c => holder'[b] = holder[b] /\ hinted'[b] = hinted[b]
        /\ holder'[c] = t \/ holder'[c] = None \/ holder'[c] = holder[c]
        /\ hinted'[c] \in {hinted[c], commits[c]}
        /\ \A s \in Servers, b \in Boundaries : (s # t \/ b # c) /\ b \in wake[s] => b \in wake'[s]
    BY <2>1, Zenon DEF Runs
  <2>3. stopping' = stopping BY <2>2, Zenon DEF stopping
  <2>4. ~(commits[c] < commits[c]) BY <1>0
  <2> SUFFICES ASSUME NEW b \in Boundaries, hinted'[b] < commits[b], NEW s \in Servers, holder'[b] = s
               PROVE  HintIsComing(s, b)'
    <3>1. \A b \in Boundaries : holder'[b] \in Servers \union {None} BY <1>0, <2>2, Zenon
    <3> QED BY <2>2, <3>1, Zenon DEF Covered
  <2>5. CASE s # t \/ b # c
    <3>1. holder[b] = s /\ hinted[b] < commits[b] BY <1>0, <2>2, <2>4, <2>5, Zenon
    <3>2. HintIsComing(s, b) BY <1>0, <3>1, Zenon DEF Covered
    <3> QED BY <2>2, <2>3, <2>5, <3>2, Zenon DEF HintIsComing, Moved
  <2>6. CASE s = t /\ b = c
    <3>1. rpc'[s][b] = p /\ p # "wait" BY <2>2, <2>4, <2>6, Zenon DEF Moved
    <3>2. CASE s \in stopping BY <2>3, <3>2, Zenon DEF HintIsComing
    <3>3. CASE s \notin stopping
      <4>1. spc'[s] # "crashed" BY <2>2, <3>3, Zenon DEF stopping
      <4>2. p \in {"check", "release"} BY <3>1, <4>1, Zenon DEF LeaseInv
      <4> QED BY <3>1, <4>2, Zenon DEF HintIsComing
    <3> QED BY <3>2, <3>3
  <2> QED BY <2>5, <2>6
<1> QED BY <1>1, <1>2, <1>9, <1>10, StepCases, Zenon

-----------------------------------------------------------------------------
(* The theorems.                                                            *)

\* The relays start with their startup boundaries registered and no lease.
LEMMA InitRelay == Init => RelayInv /\ NoStrandedRegistration
<1> SUFFICES ASSUME Init PROVE RelayInv /\ NoStrandedRegistration
  OBVIOUS
<1>1. ListenerTypes
  <2>1. <<>> \in Seq(Calls) OBVIOUS
  <2> QED BY <2>1, ListenerAssumption DEF Init, ListenerInit, ListenerTypes
<1>2. RelayTypes BY DEF Init, RelayTypes, RelayLabels
<1>3. StopInv /\ StartInv BY DEF Init, StopInv, StartInv
<1>4. LeaseInv BY ListenerAssumption DEF Init, LeaseInv
<1>5. SignalInv BY DEF Init, SignalInv
<1>6. NoLostWakeup BY DEF Init, NoLostWakeup
<1>7. NoStrandedRegistration BY DEF Init, ListenerInit, NoStrandedRegistration
<1> QED BY <1>1, <1>2, <1>3, <1>4, <1>5, <1>6, <1>7, Zenon DEF RelayInv, Types

\* Every step keeps the invariant.
LEMMA RelayStep ==
  ASSUME RelayInv, [Next]_vars
  PROVE  RelayInv'
<1>1. Types /\ StopInv /\ StartInv /\ LeaseInv /\ SignalInv BY Zenon DEF RelayInv
<1>2. Types' BY <1>1, TypeStep, Zenon
<1>3. StopInv' /\ StartInv' /\ LeaseInv' /\ SignalInv' BY <1>1, LeaseStep, Zenon
<1>4. NoLostWakeup' BY <1>3, WakeStep, Zenon
<1> QED BY <1>2, <1>3, <1>4, Zenon DEF RelayInv

\* A registration is queued while no wait is armed, or cancels the wait that is.
LEMMA RegistrationStep ==
  ASSUME RelayInv, NoStrandedRegistration, [Next]_vars
  PROVE  NoStrandedRegistration'
<1>0. /\ lpc \in [Servers -> {"top", "arm", "wait", "reconnect", "swap", "done"}]
      /\ pending \in [Servers -> Seq(Calls)] /\ ServerOf \in [Calls -> Servers]
  BY ListenerAssumption, Zenon DEF RelayInv, Types, ListenerTypes
<1>1. CASE UNCHANGED <<lpc, pending, cancelled>>
  BY <1>1, Zenon DEF NoStrandedRegistration
<1>2. ASSUME NEW t \in Servers, ListenBoundary(t, stopping) PROVE NoStrandedRegistration'
  <2>1. /\ lpc[t] = "top" /\ UNCHANGED <<lpc, cancelled>>
        /\ pending' = [pending EXCEPT ![t] = PendingAfter(t)]
    BY <1>2, Zenon DEF ListenBoundary
  <2>2. \A s \in Servers : s # t => pending'[s] = pending[s] BY <1>0, <2>1, Zenon
  <2> QED BY <2>1, <2>2 DEF NoStrandedRegistration
<1>3. ASSUME NEW t \in Servers, ArmNotificationWait(t) PROVE NoStrandedRegistration'
  BY <1>0, <1>3 DEF ArmNotificationWait, ArmsWait, NoStrandedRegistration
<1>4. ASSUME NEW t \in Servers, NEW v \in {"top", "arm", "reconnect", "swap", "done"},
             lpc' = [lpc EXCEPT ![t] = v], UNCHANGED <<pending, cancelled>>
      PROVE  NoStrandedRegistration'
  BY <1>0, <1>4 DEF NoStrandedRegistration
<1>5. ASSUME NEW t \in Servers, WaitForNotification(t, stopping) PROVE NoStrandedRegistration'
  <2>1. \A err \in {"none", "canceled", "broken"} :
          AfterWait(t, err, stopping) \in {"top", "done", "reconnect"}
    BY DEF AfterWait
  <2>2. UNCHANGED <<pending, cancelled>> /\ \E err \in {"none", "canceled", "broken"} :
          lpc' = [lpc EXCEPT ![t] = AfterWait(t, err, stopping)]
    BY <1>5, Zenon DEF WaitForNotification
  <2> QED BY <1>4, <2>1, <2>2, Zenon
<1>6. ASSUME NEW t \in Servers,
             NoListenRequest(t) \/ Reconnect(t, stopping) \/ SwapConnection(t) \/ Crash(t)
      PROVE  NoStrandedRegistration'
  BY <1>4, <1>6, Zenon DEF NoListenRequest, Reconnect, SwapConnection, Crash
<1>7. ASSUME NEW c \in Calls, EnsureBoundary(c) PROVE NoStrandedRegistration'
  <2>1. PICK t \in Servers : t = ServerOf[c] BY <1>0, Zenon
  <2>2. UNCHANGED lpc /\ \/ UNCHANGED <<pending, cancelled>>
                         \/ /\ pending' = [pending EXCEPT ![t] = Append(@, c)]
                            /\ cancelled' = WaitsCancelled(t)
    BY <1>7, <2>1, Zenon DEF EnsureBoundary
  <2>3. CASE UNCHANGED <<pending, cancelled>> BY <1>1, <2>2, <2>3
  <2>4. CASE pending' = [pending EXCEPT ![t] = Append(@, c)] /\ cancelled' = WaitsCancelled(t)
    <3>1. \A s \in Servers : s # t => pending'[s] = pending[s] BY <1>0, <2>4, Zenon
    <3>2. cancelled \subseteq cancelled' /\ (lpc[t] = "wait" => t \in cancelled')
      BY <2>4 DEF WaitsCancelled
    <3> QED BY <2>2, <3>1, <3>2, Zenon DEF NoStrandedRegistration
  <2> QED BY <2>2, <2>3, <2>4
<1>8. CASE Inner
  <2>1. ASSUME NEW c \in Calls, EnsureGivesUp(c, stopping) PROVE NoStrandedRegistration'
    BY <1>1, <2>1, Zenon DEF EnsureGivesUp
  <2> QED BY <1>2, <1>3, <1>5, <1>6, <1>7, <1>8, <2>1, Zenon DEF Inner
<1>9. CASE Outer
  BY <1>1, <1>6, <1>9, Zenon
  DEF Outer, Commit, LoseLease, ExpireLease, Disconnect, StopCancel, StopMark, StopReturns,
      StartRelay, StartBoundary, listenerVars
<1>10. CASE Owner
  BY <1>1, <1>10, Zenon
  DEF Owner, AcquireLock, RunEnds, Publish, WaitSignal, Release, listenerVars
<1>11. CASE UNCHANGED vars BY <1>1, <1>11, Zenon DEF vars, listenerVars
<1> QED BY <1>8, <1>9, <1>10, <1>11, StepCases, Zenon

\* relayBoundaryNotifications, PGNotifyListener: a commit of an owned boundary
\* that no hint covers has a reason for another hint.
THEOREM WakeupsAreKept == Spec => []NoLostWakeup
<1>1. RelayInv /\ [Next]_vars => RelayInv' BY RelayStep, Zenon
<1>2. RelayInv => NoLostWakeup BY Zenon DEF RelayInv
<1>3. Init => RelayInv BY InitRelay, Zenon
<1> QED BY <1>1, <1>2, <1>3, PTL DEF Spec

\* Stop: when it has returned nothing of the server runs or holds a lease.
THEOREM StopLeavesNothing == Spec => []StoppedHoldsNothing
<1>1. RelayInv /\ [Next]_vars => RelayInv' BY RelayStep, Zenon
<1>2. RelayInv => StoppedHoldsNothing
  <2> SUFFICES ASSUME RelayInv, NEW s \in Servers, spc[s] = "stopped"
               PROVE  starting[s] = None /\ \A b \in Boundaries : rpc[s][b] = "off" /\ holder[b] # s
    BY Zenon DEF StoppedHoldsNothing
  <2>1. starting[s] = None /\ \A b \in Boundaries : rpc[s][b] = "off"
    BY Zenon DEF RelayInv, StopInv
  <2>2. \A b \in Boundaries : holder[b] # s
    BY <2>1, Zenon DEF RelayInv, LeaseInv
  <2> QED BY <2>1, <2>2, Zenon
<1>3. Init => RelayInv BY InitRelay, Zenon
<1> QED BY <1>1, <1>2, <1>3, PTL DEF Spec

\* EnsureBoundary, nextListenRequest, armNotificationWait: the listener does not
\* wait for a notification while a registration is queued.
THEOREM RegistrationsAreServed == Spec => []NoStrandedRegistration
<1> DEFINE Inv == RelayInv /\ NoStrandedRegistration
<1>1. Inv /\ [Next]_vars => Inv' BY RelayStep, RegistrationStep, Zenon
<1>2. Init => Inv BY InitRelay, Zenon
<1> QED BY <1>1, <1>2, PTL DEF Spec
=============================================================================
