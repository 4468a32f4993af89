----------------------------- MODULE GroupCommit -----------------------------
(***************************************************************************)
(* The group-commit coordinator of internal/groupcommit/coordinator.go:    *)
(* calls of Submit, one worker goroutine per boundary, the goroutine that  *)
(* runs Close and the callers' contexts, all running concurrently.         *)
(*                                                                         *)
(* The label of a call says what it holds: a call at "register" holds      *)
(* enqueueMu, the calls at "enqueue" are the members of the senders wait   *)
(* group, and a boundary whose worker is not "absent" has its queue in the *)
(* registry.  A label that is an outcome is the value the call returned.   *)
(***************************************************************************)
EXTENDS Integers, Sequences

CONSTANTS
    Requests,          \* the calls of Submit; a call carries one request
    Boundaries,        \* the boundaries they address
    BoundaryOf,        \* the boundary argument of each call
    EventsOf,          \* the events argument of each call
    MaxBatchRequests, MaxBatchEvents, MaxPending,
    Delayed,           \* whether Config.MaxDelay > 0
    Cancellable,       \* the calls whose context may end
    Stalled            \* boundaries whose executor never returns

ASSUME ConfigAssumption ==
    /\ BoundaryOf \in [Requests -> Boundaries]
    /\ EventsOf \in [Requests -> Int]
    /\ MaxBatchRequests \in Nat \ {0}
    /\ MaxBatchEvents \in Nat \ {0}
    /\ MaxPending \in Nat \ {0}
    /\ Delayed \in BOOLEAN
    /\ Cancellable \subseteq Requests
    /\ Stalled \subseteq Boundaries

VARIABLES
    pc,        \* where each call of Submit is, or what it returned
    ctxDone,   \* whether the context of each call is done
    result,    \* what was put on the result channel of each request
    queue,     \* the contents of each queue channel
    qclosed,   \* whether each queue channel has been closed
    wpc,       \* where the worker of each boundary is
    batch,     \* its batch; runFlush takes it apart into live
    live,      \* the requests of a flush that are handed to the executor
    dropped,   \* the requests of a flush that are not, their contexts being done
    carry,     \* its carried request, a sequence of length 0 or 1
    closed,    \* whether the closed channel has been closed
    closePc,   \* where Close is
    closing,   \* the boundaries whose queues Close has listed
    admitted,  \* history: what was put on each queue, in order
    executed,  \* history: what was handed to the executor, in order
    applied    \* history: what the executor has made durable

callVars    == <<pc, ctxDone>>
channelVars == <<queue, qclosed, admitted>>
workerVars  == <<wpc, batch, live, dropped, carry>>
closeVars   == <<closed, closePc, closing>>
storeVars   == <<executed, applied>>
vars == <<callVars, result, channelVars, workerVars, closeVars, storeVars>>

\* What a call returns: what was delivered to its request (an outcome of the
\* executor, an error of the flush, ErrClosed, the error of its context), or
\* the refusal of a request without events.
Outcomes == {"outcome", "flushError", "ErrClosed", "ctxErr", "noEvents"}
None == "none"

SeqRange(s) == {s[i] : i \in DOMAIN s}

TotalEvents(s) ==
    LET sum[i \in 0 .. Len(s)] == IF i = 0 THEN 0 ELSE sum[i - 1] + EventsOf[s[i]]
    IN  sum[Len(s)]

Init ==
    /\ pc = [r \in Requests |-> "idle"]
    /\ ctxDone = [r \in Requests |-> FALSE]
    /\ result = [r \in Requests |-> None]
    /\ queue = [b \in Boundaries |-> <<>>]
    /\ qclosed = [b \in Boundaries |-> FALSE]
    /\ wpc = [b \in Boundaries |-> "absent"]
    /\ batch = [b \in Boundaries |-> <<>>]
    /\ live = [b \in Boundaries |-> <<>>]
    /\ dropped = [b \in Boundaries |-> {}]
    /\ carry = [b \in Boundaries |-> <<>>]
    /\ closed = FALSE
    /\ closePc = "idle"
    /\ closing = {}
    /\ admitted = [b \in Boundaries |-> <<>>]
    /\ executed = [b \in Boundaries |-> <<>>]
    /\ applied = {}

-----------------------------------------------------------------------------
(* Submit *)

Move(r, label) == pc' = [pc EXCEPT ![r] = label] /\ UNCHANGED ctxDone

\* The context of a call is cancelled or reaches its deadline.
Cancel(r) ==
    /\ r \in Cancellable
    /\ pc[r] \notin Outcomes
    /\ ~ctxDone[r]
    /\ ctxDone' = [ctxDone EXCEPT ![r] = TRUE]
    /\ UNCHANGED <<pc, result, channelVars, workerVars, closeVars, storeVars>>

\* The checks made before the registry lock is taken.
SubmitPrecheck(r) ==
    /\ pc[r] = "idle"
    /\ Move(r, IF closed THEN "ErrClosed"
               ELSE IF ctxDone[r] THEN "ctxErr"
               ELSE IF EventsOf[r] <= 0 THEN "noEvents" ELSE "lock")
    /\ UNCHANGED <<result, channelVars, workerVars, closeVars, storeVars>>

\* Nobody holds enqueueMu.
RegistryFree == \A r \in Requests : pc[r] # "register"

\* The lock is taken and closed is read again under it.  Close closes that
\* channel without the lock, so what was read may be stale at the next step.
SubmitLock(r) ==
    /\ pc[r] = "lock"
    /\ RegistryFree
    /\ Move(r, IF closed THEN "ErrClosed" ELSE "register")
    /\ UNCHANGED <<result, channelVars, workerVars, closeVars, storeVars>>

\* Fault: the registry lock is kept until the queue has room.
SubmitRegisterWithRoom(r) ==
    LET b == BoundaryOf[r] IN
    /\ pc[r] = "register"
    /\ Len(queue[b]) < MaxPending
    /\ wpc' = [wpc EXCEPT ![b] = IF @ = "absent" THEN "top" ELSE @]
    /\ Move(r, "enqueue")
    /\ UNCHANGED <<result, channelVars, batch, live, dropped, carry, closeVars, storeVars>>

\* A missing queue is created with its worker, the call joins the senders and
\* the lock is released.
SubmitRegister(r) ==
    LET b == BoundaryOf[r] IN
    /\ pc[r] = "register"
    /\ wpc' = [wpc EXCEPT ![b] = IF @ = "absent" THEN "top" ELSE @]
    /\ Move(r, "enqueue")
    /\ UNCHANGED <<result, channelVars, batch, live, dropped, carry, closeVars, storeVars>>

\* The select of the admission; each of its ends leaves the senders.
SubmitEnqueue(r) ==
    LET b == BoundaryOf[r] IN
    /\ pc[r] = "enqueue"
    /\ \/ /\ Len(queue[b]) < MaxPending
          /\ queue' = [queue EXCEPT ![b] = Append(@, r)]
          /\ admitted' = [admitted EXCEPT ![b] = Append(@, r)]
          /\ Move(r, "await")
       \/ ctxDone[r] /\ Move(r, "ctxErr") /\ UNCHANGED <<queue, admitted>>
       \/ closed /\ Move(r, "ErrClosed") /\ UNCHANGED <<queue, admitted>>
    /\ UNCHANGED <<result, qclosed, workerVars, closeVars, storeVars>>

\* Fault: shutdown also wakes the calls that wait for a result.
AwaitedOrClosed(r) ==
    ({result[r]} \ {None}) \cup {e \in {"ctxErr"} : ctxDone[r]} \cup {e \in {"ErrClosed"} : closed}

\* The ready cases of the select that waits for the result.
Awaited(r) == ({result[r]} \ {None}) \cup {e \in {"ctxErr"} : ctxDone[r]}

SubmitAwait(r) ==
    /\ pc[r] = "await"
    /\ \E v \in Awaited(r) : Move(r, v)
    /\ UNCHANGED <<result, channelVars, workerVars, closeVars, storeVars>>

-----------------------------------------------------------------------------
(* runWorker, failFast, drainBatch and runFlush *)

\* deliver and fail: a request that has its completion keeps it.
Deliver(rs, v) ==
    result' = [r \in Requests |-> IF r \in rs /\ result[r] = None THEN v ELSE result[r]]

\* A loop iteration that found closed set: rs get ErrClosed, then failFast.
FailFastAfter(b, rs) ==
    /\ Deliver(rs, "ErrClosed")
    /\ wpc' = [wpc EXCEPT ![b] = "failFast"]
    /\ batch' = [batch EXCEPT ![b] = <<>>]
    /\ carry' = [carry EXCEPT ![b] = <<>>]
    /\ UNCHANGED <<live, dropped>>

Continue(b, label) ==
    wpc' = [wpc EXCEPT ![b] = label] /\ UNCHANGED <<batch, live, dropped, carry, result>>

\* The top of the loop: the carried request, or the select on closed and the
\* queue, which ends the worker when the queue is closed and empty.
WorkerTop(b) ==
    /\ wpc[b] = "top"
    /\ \/ /\ carry[b] # <<>>
          /\ batch' = [batch EXCEPT ![b] = carry[b]]
          /\ carry' = [carry EXCEPT ![b] = <<>>]
          /\ wpc' = [wpc EXCEPT ![b] = "check"]
          /\ UNCHANGED <<queue, live, dropped, result>>
       \/ carry[b] = <<>> /\ closed /\ Continue(b, "failFast") /\ UNCHANGED queue
       \/ /\ carry[b] = <<>> /\ queue[b] # <<>>
          /\ batch' = [batch EXCEPT ![b] = <<Head(queue[b])>>]
          /\ queue' = [queue EXCEPT ![b] = Tail(@)]
          /\ wpc' = [wpc EXCEPT ![b] = "check"]
          /\ UNCHANGED <<live, dropped, carry, result>>
       \/ /\ carry[b] = <<>> /\ queue[b] = <<>> /\ qclosed[b]
          /\ Continue(b, "done")
          /\ UNCHANGED queue
    /\ UNCHANGED <<callVars, qclosed, admitted, closeVars, storeVars>>

\* The check of closed that follows the first request of a batch.
WorkerCheck(b) ==
    /\ wpc[b] = "check"
    /\ IF closed THEN FailFastAfter(b, SeqRange(batch[b])) ELSE Continue(b, "drain")
    /\ UNCHANGED <<callVars, channelVars, closeVars, storeVars>>

\* A request that would take a batch beyond its number of events.
Overflows(s, r) == TotalEvents(s) + EventsOf[r] > MaxBatchEvents

\* Fault: a request that does not fit goes back to the end of the queue.
SetAsideRequeued(b) == [queue |-> Append(Tail(queue[b]), Head(queue[b])), carry |-> <<>>]

\* A request that does not fit is taken off the queue and carried.
SetAside(b) == [queue |-> Tail(queue[b]), carry |-> <<Head(queue[b])>>]

\* One turn of drainBatch.  The loop ends when nothing is ready or, with a
\* delay, by the timer (which may fire at any moment) or by closed.
WorkerDrain(b) ==
    LET full == Len(batch[b]) >= MaxBatchRequests \/ TotalEvents(batch[b]) >= MaxBatchEvents
        ready == ~full /\ queue[b] # <<>>
    IN
    /\ wpc[b] = "drain"
    /\ \/ /\ ~ready \/ Delayed
          /\ Continue(b, "drained")
          /\ UNCHANGED queue
       \/ /\ ready /\ Overflows(batch[b], Head(queue[b]))
          /\ queue' = [queue EXCEPT ![b] = SetAside(b).queue]
          /\ carry' = [carry EXCEPT ![b] = SetAside(b).carry]
          /\ wpc' = [wpc EXCEPT ![b] = "drained"]
          /\ UNCHANGED <<batch, live, dropped, result>>
       \/ /\ ready /\ ~Overflows(batch[b], Head(queue[b]))
          /\ queue' = [queue EXCEPT ![b] = Tail(@)]
          /\ batch' = [batch EXCEPT ![b] = Append(@, Head(queue[b]))]
          /\ UNCHANGED <<wpc, live, dropped, carry, result>>
    /\ UNCHANGED <<callVars, qclosed, admitted, closeVars, storeVars>>

\* Fault: the carried request is forgotten by the shutdown path.
HeldBatchOnly(b) == SeqRange(batch[b])

\* The requests a worker holds after drainBatch.
Held(b) == SeqRange(batch[b]) \cup SeqRange(carry[b])

\* The check of closed that follows drainBatch.
WorkerDrained(b) ==
    /\ wpc[b] = "drained"
    /\ IF closed THEN FailFastAfter(b, Held(b)) ELSE Continue(b, "flush")
    /\ UNCHANGED <<callVars, channelVars, closeVars, storeVars>>

\* One turn of the loop that leaves out the requests whose contexts are done,
\* which get the error of their context.
FlushFilter(b) ==
    LET r == Head(batch[b]) IN
    /\ wpc[b] = "flush"
    /\ batch[b] # <<>>
    /\ batch' = [batch EXCEPT ![b] = Tail(@)]
    /\ Deliver({r} \cap {x \in Requests : ctxDone[x]}, "ctxErr")
    /\ live' = [live EXCEPT ![b] = IF ctxDone[r] THEN @ ELSE Append(@, r)]
    /\ dropped' = [dropped EXCEPT ![b] = IF ctxDone[r] THEN @ \cup {r} ELSE @]
    /\ UNCHANGED <<callVars, channelVars, wpc, carry, closeVars, storeVars>>

\* The executor is called, unless no request is left.
FlushStart(b) ==
    /\ wpc[b] = "flush"
    /\ batch[b] = <<>>
    /\ executed' = [executed EXCEPT ![b] = @ \o live[b]]
    /\ wpc' = [wpc EXCEPT ![b] = IF live[b] = <<>> THEN "flushed" ELSE "executing"]
    /\ dropped' = [dropped EXCEPT ![b] = IF live[b] = <<>> THEN {} ELSE @]
    /\ UNCHANGED <<callVars, result, channelVars, batch, live, carry, closeVars, applied>>

\* Fault: an outcome set is used without looking at the error beside it.
CompletionUnchecked(end) == "outcome"

\* What a flush delivers: outcomes only when the executor returns one for each
\* request and no error.
Completion(end) == IF end = "outcomes" THEN "outcome" ELSE "flushError"

\* The executor (a backend's transaction) ends.  It returns outcomes only after
\* its transaction is complete; any other end says nothing about durability.
\* A recovered panic fails the whole batch, the requests left out of the flush
\* included.
FlushEnd(b) ==
    /\ b \notin Stalled
    /\ wpc[b] = "executing"
    /\ \E end \in {"outcomes", "error", "wrongLength", "panic"}, durable \in BOOLEAN :
          /\ end = "outcomes" => durable
          /\ applied' = IF durable THEN applied \cup SeqRange(live[b]) ELSE applied
          /\ Deliver(SeqRange(live[b]) \cup (IF end = "panic" THEN dropped[b] ELSE {}), Completion(end))
    /\ wpc' = [wpc EXCEPT ![b] = "flushed"]
    /\ live' = [live EXCEPT ![b] = <<>>]
    /\ dropped' = [dropped EXCEPT ![b] = {}]
    /\ UNCHANGED <<callVars, channelVars, batch, carry, closeVars, executed>>

\* The check of closed that follows runFlush.
WorkerFlushed(b) ==
    /\ wpc[b] = "flushed"
    /\ IF closed THEN FailFastAfter(b, SeqRange(carry[b]))
       ELSE Continue(b, "top")
    /\ UNCHANGED <<callVars, channelVars, closeVars, storeVars>>

\* failFast ranges over the queue until it is closed and empty.
WorkerFailFast(b) ==
    /\ wpc[b] = "failFast"
    /\ \/ /\ queue[b] # <<>>
          /\ Deliver({Head(queue[b])}, "ErrClosed")
          /\ queue' = [queue EXCEPT ![b] = Tail(@)]
          /\ UNCHANGED <<wpc, batch, live, dropped, carry>>
       \/ queue[b] = <<>> /\ qclosed[b] /\ Continue(b, "done") /\ UNCHANGED queue
    /\ UNCHANGED <<callVars, qclosed, admitted, closeVars, storeVars>>

-----------------------------------------------------------------------------
(* Close *)

CloseSignal ==
    /\ closePc = "idle"
    /\ closed' = TRUE
    /\ closePc' = "lock"
    /\ UNCHANGED <<closing, callVars, result, channelVars, workerVars, storeVars>>

\* Fault: Close does not wait for the registry lock.
CloseListUnlocked ==
    /\ closePc = "lock"
    /\ closing' = {b \in Boundaries : wpc[b] # "absent"}
    /\ closePc' = "settle"
    /\ UNCHANGED <<closed, callVars, result, channelVars, workerVars, storeVars>>

\* The queues are listed under the registry lock.
CloseList ==
    /\ closePc = "lock"
    /\ RegistryFree
    /\ closing' = {b \in Boundaries : wpc[b] # "absent"}
    /\ closePc' = "settle"
    /\ UNCHANGED <<closed, callVars, result, channelVars, workerVars, storeVars>>

\* The calls counted by the senders wait group.
Senders == {r \in Requests : pc[r] = "enqueue"}

\* Admissions are settled, then the listed queues are closed.
CloseQueues ==
    /\ closePc = "settle"
    /\ Senders = {}
    /\ qclosed' = [b \in Boundaries |-> qclosed[b] \/ b \in closing]
    /\ closePc' = "join"
    /\ UNCHANGED <<closed, closing, callVars, result, queue, admitted, workerVars, storeVars>>

\* workerWG.Wait returns when every worker has.
CloseJoin ==
    /\ closePc = "join"
    /\ \A b \in Boundaries : wpc[b] \in {"absent", "done"}
    /\ closePc' = "done"
    /\ UNCHANGED <<closed, closing, callVars, result, channelVars, workerVars, storeVars>>

-----------------------------------------------------------------------------
Submit(r) ==
    SubmitPrecheck(r) \/ SubmitLock(r) \/ SubmitRegister(r) \/ SubmitEnqueue(r) \/ SubmitAwait(r)

RunWorker(b) ==
    \/ WorkerTop(b) \/ WorkerCheck(b) \/ WorkerDrain(b) \/ WorkerDrained(b)
    \/ FlushFilter(b) \/ FlushStart(b) \/ WorkerFlushed(b) \/ WorkerFailFast(b)

CloseStep == CloseList \/ CloseQueues \/ CloseJoin

\* Every call and Close have returned: nothing is left to do.
Finished ==
    /\ closePc = "done"
    /\ \A r \in Requests : pc[r] \in Outcomes
    /\ UNCHANGED vars

Next ==
    \/ \E r \in Requests : Submit(r) \/ Cancel(r)
    \/ \E b \in Boundaries : RunWorker(b) \/ FlushEnd(b)
    \/ CloseSignal \/ CloseStep
    \/ Finished

Spec == Init /\ [][Next]_vars

\* A goroutine that can take a step eventually does.  Calls, cancellations and
\* Close need not come; an executor returns by its flush timeout, except at the
\* boundaries of Stalled.
Fairness ==
    /\ \A r \in Requests : WF_vars(pc[r] # "idle" /\ Submit(r))
    /\ \A b \in Boundaries : WF_vars(RunWorker(b)) /\ WF_vars(FlushEnd(b))
    /\ WF_vars(CloseStep)

FairSpec == Spec /\ Fairness

-----------------------------------------------------------------------------
(* Properties *)

WorkerLabels ==
    {"absent", "top", "check", "drain", "drained", "flush", "executing", "flushed", "failFast", "done"}

TypeOK ==
    /\ pc \in [Requests -> Outcomes \cup {"idle", "lock", "register", "enqueue", "await"}]
    /\ ctxDone \in [Requests -> BOOLEAN]
    /\ result \in [Requests -> Outcomes \cup {None}]
    /\ queue \in [Boundaries -> Seq(Requests)]
    /\ qclosed \in [Boundaries -> BOOLEAN]
    /\ wpc \in [Boundaries -> WorkerLabels]
    /\ batch \in [Boundaries -> Seq(Requests)]
    /\ live \in [Boundaries -> Seq(Requests)]
    /\ dropped \in [Boundaries -> SUBSET Requests]
    /\ carry \in [Boundaries -> Seq(Requests)]
    /\ closed \in BOOLEAN
    /\ closePc \in {"idle", "lock", "settle", "join", "done"}
    /\ closing \subseteq Boundaries
    /\ admitted \in [Boundaries -> Seq(Requests)]
    /\ executed \in [Boundaries -> Seq(Requests)]
    /\ applied \subseteq Requests

\* No call can send on a closed queue, which would panic: once Close has closed
\* the queues no call is, or can again be, in the admission select.
NoSendOnClosedQueue ==
    \A r \in Requests : pc[r] = "enqueue" => ~qclosed[BoundaryOf[r]]

\* A call that waits is owed an answer: its request has a completion, or it is
\* in a place from where a worker that has not ended will answer it.
WaitingRequestIsOwned ==
    \A r \in Requests : pc[r] = "await" /\ result[r] = None =>
        LET b == BoundaryOf[r] IN
        /\ wpc[b] \notin {"absent", "done"}
        /\ r \in SeqRange(queue[b]) \cup Held(b) \cup SeqRange(live[b])

\* ErrClosed is a definite answer: a call that got it was never handed to the
\* executor and never will be.
ErrClosedMeansNotExecuted ==
    \A r \in Requests : pc[r] = "ErrClosed" => r \notin SeqRange(executed[BoundaryOf[r]])

\* A call that returns an outcome had its write made durable.
OutcomeMeansApplied ==
    \A r \in Requests : pc[r] = "outcome" => r \in applied

\* s has x before y, wherever it has them.
Earlier(s, x, y) == \A k, l \in DOMAIN s : s[k] = x /\ s[l] = y => k < l

\* t is s with some members left out: it has them in the order of s, and once.
InOrder(s, t) ==
    /\ SeqRange(t) \subseteq SeqRange(s)
    /\ \A i, j \in DOMAIN t : i < j => Earlier(s, t[i], t[j])

\* A boundary executes requests in the order it admitted them, each at most
\* once: the executed requests are the admitted ones with some left out.
ExecutedInAdmissionOrder ==
    \A b \in Boundaries : InOrder(admitted[b], executed[b])

\* A completion is final: no later step sends a second one, which would block
\* the worker on a full result channel.  A panic of the executor fails requests
\* that already have the error of their context.
CompletionIsFinal ==
    [][\A r \in Requests : result[r] # None => result'[r] = result[r]]_vars

\* A call at a boundary whose executor returns is answered, whatever happens at
\* the other boundaries and whether or not Close is called.
SubmitReturns ==
    \A r \in Requests :
        BoundaryOf[r] \notin Stalled => (pc[r] = "lock" ~> pc[r] \in Outcomes)

\* Close returns once it is called, however full the queues are.
CloseReturns == closePc # "idle" ~> closePc = "done"

=============================================================================
