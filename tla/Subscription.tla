----------------------------- MODULE Subscription -----------------------------
(***************************************************************************)
(* One subscription of SubscribeToAllEvents: the reader that drains the    *)
(* backend (orisun/subscription_drain.go) and the receiver of hints with   *)
(* its idle watchdog (orisun/subscription_notifications.go).               *)
(*                                                                         *)
(* An event is its place in the boundary, 1 .. MaxEvents.  A hint carries  *)
(* nothing, so any number of hints in flight is one.  Hints come from the  *)
(* boundary's relay, from other subscriptions and from this one's pings,   *)
(* and are lost at will.  When a session ends, its client subscribes again *)
(* after the last event it was delivered.                                  *)
(***************************************************************************)
EXTENDS Integers, Sequences

CONSTANTS
    MaxEvents,      \* bound on the events of the boundary
    Matching,       \* the events that match the subscription's query
    Starts,         \* the positions a client may first subscribe after
    BatchSize,      \* batchSize of drain
    Threshold,      \* subscriptionIdleThreshold, in ticks
    MaxTroubles     \* bound on lost NATS connections and renewed sessions, together

\* The position of a request that names none.
Nil == -1

ASSUME SubscriptionAssumption ==
    /\ MaxEvents \in Nat
    /\ Matching \subseteq 1 .. MaxEvents
    /\ Starts \subseteq {Nil} \cup Nat
    /\ BatchSize \in Nat /\ BatchSize >= 2
    /\ Threshold \in Nat \ {0}
    /\ MaxTroubles \in Nat

VARIABLES
    stored,       \* the events committed
    stable,       \* those that ascending reads return
    connected,    \* the NATS connection
    disconnects,  \* how often it was lost
    inflight,     \* a hint is on its way
    active,       \* checkActive: context, boundary and lease are good
    reader,       \* the goroutine of run: "waiting", "reading", ...
    pending,      \* d.pending
    initialized,  \* d.initialized
    cursor,       \* d.cursor
    batch,        \* the rest of the batch being delivered
    again,        \* the drain goes on after this batch
    receiver,     \* the goroutine of receiveSubscriptionNotifications
    changed,      \* activity.changed
    elapsed,      \* the time since activity.lastReceived
    timer,        \* what is left of the watchdog's timer
    restored,     \* a CONNECTED status waits to be handled
    sessions,     \* the sessions so far
    floor,        \* the events up to here are not asked for
    delivered,    \* the events the handler has accepted
    announced,    \* what was stable when the session's last hint came
    silent        \* the time since the last hint received or ping published

logVars      == <<stored, stable>>
natsVars     == <<connected, disconnects, inflight>>
readerVars   == <<reader, initialized, cursor, batch, again, floor, delivered>>
receiverVars == <<receiver, announced, elapsed, timer, silent>>
vars == <<logVars, natsVars, active, readerVars, pending, receiverVars, changed, restored, sessions>>

Events == 1 .. MaxEvents

Init ==
    /\ stored = 0
    /\ stable = 0
    /\ connected = TRUE
    /\ disconnects = 0
    /\ inflight = FALSE
    /\ active = TRUE
    /\ reader = "waiting"
    /\ pending = FALSE
    /\ cursor \in Starts
    /\ initialized = (cursor # Nil)
    /\ floor = IF cursor = Nil THEN 0 ELSE cursor
    /\ batch = <<>>
    /\ again = FALSE
    /\ receiver = "opening"
    /\ changed = FALSE
    /\ elapsed = 0
    /\ timer = Threshold
    /\ restored = FALSE
    /\ sessions = 1
    /\ delivered = {}
    /\ announced = 0
    /\ silent = 0

-----------------------------------------------------------------------------
(* The environment *)

\* A commit, and the moment from which ascending reads return it.
Save ==
    /\ stored < MaxEvents
    /\ stored' = stored + 1
    /\ UNCHANGED <<stable, natsVars, active, readerVars, pending, receiverVars, changed, restored, sessions>>

Settle ==
    /\ stable < stored
    /\ stable' = stable + 1
    /\ UNCHANGED <<stored, natsVars, active, readerVars, pending, receiverVars, changed, restored, sessions>>

\* The relay, or another subscription of the boundary, publishes a hint.
Relay ==
    /\ connected
    /\ inflight' = TRUE
    /\ UNCHANGED <<logVars, connected, disconnects, active, readerVars, pending, receiverVars, changed, restored, sessions>>

\* A hint is lost: dropped by NATS, or published while nobody relays.
LoseHint ==
    /\ inflight
    /\ inflight' = FALSE
    /\ UNCHANGED <<logVars, connected, disconnects, active, readerVars, pending, receiverVars, changed, restored, sessions>>

Disconnect ==
    /\ connected
    /\ disconnects + (sessions - 1) < MaxTroubles
    /\ disconnects' = disconnects + 1
    /\ connected' = FALSE
    /\ inflight' = FALSE
    /\ UNCHANGED <<logVars, active, readerVars, pending, receiverVars, changed, restored, sessions>>

Reconnect ==
    /\ ~connected
    /\ connected' = TRUE
    /\ restored' = TRUE
    /\ UNCHANGED <<logVars, disconnects, inflight, active, readerVars, pending, receiverVars, changed, sessions>>

\* The client cancels, the lease is lost or the boundary is not active.
Deactivate ==
    /\ active
    /\ active' = FALSE
    /\ UNCHANGED <<logVars, natsVars, readerVars, pending, receiverVars, changed, restored, sessions>>

-----------------------------------------------------------------------------
(* The receiver and its watchdog *)

\* ping: without a connection the client library keeps the hint or refuses it.
Ping ==
    /\ \/ inflight' = TRUE
       \/ ~connected /\ UNCHANGED inflight
    /\ silent' = 0

\* The listener is registered, which may take retries, and pings.
Open ==
    /\ receiver = "opening"
    /\ connected
    /\ receiver' = "watching"
    /\ timer' = Threshold
    /\ Ping
    /\ UNCHANGED <<logVars, connected, disconnects, active, readerVars, pending, elapsed, changed, restored, sessions, announced>>

\* Fault: a hint that arrives during a drain is taken to be served by it.
WakeWhenIdle == pending \/ reader = "waiting"

\* What is pending after wake: a hint that arrives during a read stays.
Wake == TRUE

\* The callback of the listener, registered before the first read.
ReceiveHint ==
    /\ inflight
    /\ connected
    /\ receiver \in {"opening", "watching"}
    /\ inflight' = FALSE
    /\ elapsed' = 0
    /\ silent' = 0
    /\ announced' = stable
    /\ changed' = TRUE
    /\ pending' = Wake
    /\ UNCHANGED <<logVars, connected, disconnects, active, readerVars, receiver, timer, restored, sessions>>

\* Fault: the timer starts afresh when activity is noticed, not when it was.
RemainingFull == Threshold

\* Fault: the threshold itself does not count.
RemainingLonger == Threshold - elapsed + 1

\* activity.remaining
Remaining == IF elapsed >= Threshold THEN 0 ELSE Threshold - elapsed

NoteActivity ==
    /\ receiver = "watching"
    /\ changed
    /\ changed' = FALSE
    /\ timer' = Remaining
    /\ UNCHANGED <<logVars, natsVars, active, readerVars, pending, receiver, elapsed, silent, restored, sessions, announced>>

\* The timer has fired: too early if a hint came meanwhile.
TimerFires ==
    /\ receiver = "watching"
    /\ timer = 0
    /\ \/ Remaining > 0 /\ timer' = Remaining /\ UNCHANGED <<inflight, silent>>
       \/ Remaining = 0 /\ timer' = Threshold /\ Ping
    /\ UNCHANGED <<logVars, connected, disconnects, active, readerVars, pending, receiver, elapsed, changed, restored, sessions, announced>>

NoteRestored ==
    /\ receiver = "watching"
    /\ restored
    /\ restored' = FALSE
    /\ Ping
    /\ UNCHANGED <<logVars, connected, disconnects, active, readerVars, pending, receiver, elapsed, timer, changed, sessions, announced>>

\* Time passes, but a timer that has fired is looked at first.
Tick ==
    /\ ~(receiver = "watching" /\ timer = 0)
    /\ elapsed' = IF elapsed < Threshold THEN elapsed + 1 ELSE elapsed
    /\ timer' = IF receiver = "watching" THEN timer - 1 ELSE timer
    /\ silent' = IF receiver = "watching" /\ silent <= Threshold THEN silent + 1 ELSE silent
    /\ UNCHANGED <<logVars, natsVars, active, readerVars, pending, receiver, changed, restored, sessions, announced>>

\* Fault: the receiver is not cancelled when the reader ends by itself.
CancelledByClient == ~active

\* The receiver's context is done: the session's is, or cancelWork was called.
Cancelled == ~active \/ reader = "ended"

StopReceiving ==
    /\ receiver \in {"opening", "watching"}
    /\ Cancelled
    /\ receiver' = "ended"
    /\ UNCHANGED <<logVars, natsVars, active, readerVars, pending, elapsed, timer, silent, changed, restored, sessions, announced>>

-----------------------------------------------------------------------------
(* The reader *)

\* run takes a wake-up, before it reads.
Take ==
    /\ reader = "waiting"
    /\ pending
    /\ pending' = FALSE
    /\ reader' = "reading"
    /\ UNCHANGED <<logVars, natsVars, active, initialized, cursor, batch, again, floor, delivered,
                   receiverVars, changed, restored, sessions>>

Count == IF initialized THEN BatchSize ELSE 1

\* Sequences of events that a backend may return.
Batches == UNION {[1 .. n -> Events] : n \in 0 .. BatchSize + 1}

\* What the reader relies on: a backend returns committed matches and leaves
\* none out.  That they are in order, not before the cursor, not repeated and
\* not too many is left to validate.
IsLatestRead(b) ==
    LET found == {e \in Matching : e <= stored} IN
    /\ \A i \in DOMAIN b : b[i] \in found
    /\ \A e \in found : \E i \in DOMAIN b : e <= b[i]

IsAscendingRead(b) ==
    LET found == {e \in Matching : e <= stable} IN
    /\ \A i \in DOMAIN b : b[i] \in found
    /\ \A e \in found : cursor <= e =>
          (\E i \in DOMAIN b : b[i] = e) \/ (Len(b) >= BatchSize /\ \A i \in DOMAIN b : b[i] < e)

\* What GetBatch may return.
Returned(b) == IF initialized THEN IsAscendingRead(b) ELSE IsLatestRead(b)

\* validate: every row is after all rows before it.
Valid(b) ==
    /\ Len(b) <= Count
    /\ \A i \in DOMAIN b : b[i] > cursor \/ (i = 1 /\ b[i] = cursor)
    /\ \A i, j \in DOMAIN b : i < j => b[i] < b[j]

\* The drain reads again after a full batch and after a latest read.
GoesOn(b) == b # <<>> /\ (~initialized \/ Len(b) >= BatchSize)

\* checkActive, GetBatch and validate; any of them ends the subscription.
Read ==
    /\ reader = "reading"
    /\ \/ reader' = "ended" /\ UNCHANGED <<batch, again, floor>>
       \/ /\ active
          /\ \E b \in Batches :
                /\ Returned(b) /\ Valid(b)
                /\ batch' = b
                /\ again' = GoesOn(b)
                /\ floor' = IF initialized THEN floor ELSE IF b = <<>> THEN 0 ELSE b[1] - 1
          /\ reader' = "delivering"
    /\ UNCHANGED <<logVars, natsVars, active, initialized, cursor, delivered, pending, receiverVars, changed,
                   restored, sessions>>

\* The next event of the batch, unless it is the one at the cursor; checkActive
\* refuses when it is not active and when it cannot tell.
Deliver ==
    /\ reader = "delivering"
    /\ batch # <<>>
    /\ \/ Head(batch) = cursor /\ batch' = Tail(batch) /\ UNCHANGED reader
       \/ Head(batch) # cursor /\ active /\ reader' = "handling" /\ UNCHANGED batch
       \/ Head(batch) # cursor /\ reader' = "ended" /\ UNCHANGED batch
    /\ UNCHANGED <<logVars, natsVars, active, initialized, cursor, again, floor, delivered, pending,
                   receiverVars, changed, restored, sessions>>

\* Fault: the cursor follows a delivery that failed.
CursorAlways(ok) == Head(batch)

\* The cursor moves once the handler has accepted the event.
CursorAfter(ok) == IF ok THEN Head(batch) ELSE cursor

Handle ==
    /\ reader = "handling"
    /\ \E ok \in BOOLEAN :
          /\ cursor' = CursorAfter(ok)
          /\ delivered' = IF ok THEN delivered \cup {Head(batch)} ELSE delivered
          /\ batch' = IF ok THEN Tail(batch) ELSE batch
          /\ reader' = IF ok THEN "delivering" ELSE "ended"
    /\ UNCHANGED <<logVars, natsVars, active, initialized, again, floor, pending, receiverVars, changed,
                   restored, sessions>>

EndBatch ==
    /\ reader = "delivering"
    /\ batch = <<>>
    /\ initialized' = TRUE
    /\ reader' = IF again THEN "reading" ELSE "waiting"
    /\ UNCHANGED <<logVars, natsVars, active, cursor, batch, again, floor, delivered, pending, receiverVars,
                   changed, restored, sessions>>

\* run notices that its context is done.
StopReading ==
    /\ reader = "waiting"
    /\ ~active
    /\ reader' = "ended"
    /\ UNCHANGED <<logVars, natsVars, active, initialized, cursor, batch, again, floor, delivered, pending,
                   receiverVars, changed, restored, sessions>>

\* The call returns once the receiver has stopped.
Return ==
    /\ reader = "ended"
    /\ receiver = "ended"
    /\ reader' = "returned"
    /\ UNCHANGED <<logVars, natsVars, active, initialized, cursor, batch, again, floor, delivered, pending,
                   receiverVars, changed, restored, sessions>>

\* The client subscribes again, after the last event it was delivered.
Resubscribe ==
    /\ reader = "returned"
    /\ disconnects + (sessions - 1) < MaxTroubles
    /\ sessions' = sessions + 1
    /\ active' = TRUE
    /\ reader' = "waiting"
    /\ pending' = FALSE
    /\ initialized' = (cursor # Nil)
    /\ batch' = <<>>
    /\ again' = FALSE
    /\ receiver' = "opening"
    /\ changed' = FALSE
    /\ elapsed' = 0
    /\ timer' = Threshold
    /\ silent' = 0
    /\ announced' = 0
    /\ restored' = FALSE
    /\ UNCHANGED <<logVars, natsVars, cursor, floor, delivered>>

-----------------------------------------------------------------------------
Receiving == Open \/ ReceiveHint \/ NoteActivity \/ TimerFires \/ NoteRestored \/ StopReceiving
Reading == Take \/ Read \/ Deliver \/ Handle \/ EndBatch \/ StopReading \/ Return
Environment == Save \/ Settle \/ Relay \/ LoseHint \/ Disconnect \/ Reconnect \/ Deactivate \/ Tick \/ Resubscribe

Next == Receiving \/ Reading \/ Environment

Spec == Init /\ [][Next]_vars

\* The goroutines run, the handler returns, time passes, committed events
\* become stable, the connection, which is lost a bounded number of times,
\* comes back, and of the hints published again and again one arrives.
Fairness ==
    /\ WF_vars(Reading)
    /\ WF_vars(Open) /\ WF_vars(NoteActivity) /\ WF_vars(TimerFires) /\ WF_vars(NoteRestored)
    /\ WF_vars(StopReceiving)
    /\ WF_vars(Tick) /\ WF_vars(Settle) /\ WF_vars(Reconnect)
    /\ SF_vars(ReceiveHint)

FairSpec == Spec /\ Fairness

-----------------------------------------------------------------------------
(* Properties *)

TypeOK ==
    /\ stored \in 0 .. MaxEvents
    /\ stable \in 0 .. stored
    /\ disconnects \in Nat
    /\ connected \in BOOLEAN /\ inflight \in BOOLEAN /\ active \in BOOLEAN
    /\ reader \in {"waiting", "reading", "delivering", "handling", "ended", "returned"}
    /\ pending \in BOOLEAN /\ initialized \in BOOLEAN /\ again \in BOOLEAN
    /\ cursor \in {Nil} \cup Nat
    /\ batch \in Seq(Events)
    /\ receiver \in {"opening", "watching", "ended"}
    /\ changed \in BOOLEAN /\ restored \in BOOLEAN
    /\ elapsed \in 0 .. Threshold
    /\ timer \in 0 .. Threshold
    /\ sessions \in Nat
    /\ floor \in Nat
    /\ delivered \subseteq Events
    /\ announced \in 0 .. stable
    /\ silent \in 0 .. Threshold + 1

\* The subscription delivers every match from where it starts up to its
\* cursor, over failed deliveries, batches cut short and new sessions.
NothingSkipped == delivered = {e \in Matching : floor < e /\ e <= cursor}

\* Whatever the backend returns, an event is delivered after all earlier
\* ones and never again: the whole batch is validated first.
DeliveryAscends ==
    [][\A e \in delivered' \ delivered : e > cursor /\ cursor' = e /\ \A d \in delivered : d < e]_vars

\* Hints are coalesced and none is wasted: when the reader goes back to wait
\* with nothing pending, every match that was visible when the last hint came
\* has been delivered, however many hints came during the drain.
HintsAreServed ==
    reader = "waiting" /\ ~pending =>
        \A e \in Matching : floor < e /\ e <= announced => e \in delivered

\* While it listens, a subscription is never silent for longer than its
\* threshold: it receives a hint or it publishes one.
BoundedSilence == silent <= Threshold

\* A match that ascending reads return is delivered, although its own hint
\* was lost or came before it was visible, unless the session ends.
EventuallyDelivered ==
    \A e \in Events :
        (e \in Matching /\ e <= stable /\ reader # "returned")
            ~> (e \in delivered \/ e <= floor \/ reader = "ended" \/ ~active)

\* A subscription that has lost its lease, or whose client is gone, returns.
SubscribeReturns == (~active \/ reader = "ended") ~> (reader = "returned")
=============================================================================
