------------------------- MODULE GroupCommitProofs --------------------------
(***************************************************************************)
(* Theorems about the group-commit coordinator, for any number of calls and *)
(* boundaries and any limits: type correctness, who owns a waiting request, *)
(* what an answer means, that a refusal of the closed coordinator is       *)
(* definite, and the order of execution.                                   *)
(***************************************************************************)
EXTENDS GroupCommit, TLAPS

-----------------------------------------------------------------------------
(* Sequences *)

\* Taking the head off a queue takes one request out of it.
LEMMA RangeOfTail ==
    ASSUME NEW S, NEW s \in Seq(S), s # <<>> PROVE SeqRange(s) = {Head(s)} \cup SeqRange(Tail(s))
<1>1. DOMAIN s = 1 .. Len(s) /\ Len(s) > 0 OBVIOUS
<1>2. DOMAIN Tail(s) = 1 .. Len(s)-1 /\ \A i \in 1 .. Len(s)-1 : Tail(s)[i] = s[i+1]
  OBVIOUS
<1>3. ASSUME NEW x \in SeqRange(s) PROVE x \in {Head(s)} \cup SeqRange(Tail(s))
  <2>1. PICK i \in 1 .. Len(s) : x = s[i] BY <1>1, <1>3, Zenon DEF SeqRange
  <2>2. CASE i = 1 BY <2>1, <2>2, <1>1
  <2>3. CASE i # 1
    <3>1. i - 1 \in 1 .. Len(s)-1 /\ Tail(s)[i-1] = s[i] BY <2>1, <2>3, <1>2
    <3>2. QED BY <3>1, <2>1, <1>2, Zenon DEF SeqRange
  <2>4. QED BY <2>2, <2>3, Zenon
<1>4. ASSUME NEW x \in SeqRange(Tail(s)) PROVE x \in SeqRange(s)
  <2>1. PICK i \in 1 .. Len(s)-1 : x = Tail(s)[i] BY <1>2, <1>4, Zenon DEF SeqRange
  <2>2. i + 1 \in 1 .. Len(s) /\ x = s[i+1] BY <2>1, <1>2
  <2>3. QED BY <2>2, <1>1, Zenon DEF SeqRange
<1>5. Head(s) \in SeqRange(s)
  <2>1. 1 \in DOMAIN s /\ Head(s) = s[1] BY <1>1
  <2>2. QED BY <2>1, Zenon DEF SeqRange
<1>6. QED BY <1>3, <1>4, <1>5, Zenon

\* Appending to a queue adds one request to it.
LEMMA RangeOfAppend ==
    ASSUME NEW S, NEW s \in Seq(S), NEW x \in S PROVE SeqRange(Append(s,x)) = {x} \cup SeqRange(s)
<1> DEFINE t == Append(s, x)
<1>1. DOMAIN s = 1 .. Len(s) /\ Len(s) \in Nat OBVIOUS
<1>2. DOMAIN t = 1 .. Len(s)+1 /\ t[Len(s)+1] = x /\ \A i \in 1 .. Len(s) : t[i] = s[i] OBVIOUS
<1> HIDE DEF t
<1>3. ASSUME NEW y \in SeqRange(t) PROVE y \in {x} \cup SeqRange(s)
  <2>1. PICK i \in 1 .. Len(s)+1 : y = t[i] BY <1>2, <1>3, Zenon DEF SeqRange
  <2>2. CASE i = Len(s)+1 BY <2>1, <2>2, <1>2, Zenon
  <2>3. CASE i \in 1 .. Len(s) BY <2>1, <2>3, <1>2, <1>1, Zenon DEF SeqRange
  <2>4. QED BY <2>2, <2>3, <2>1, <1>1
<1>4. ASSUME NEW y \in SeqRange(s) PROVE y \in SeqRange(t)
  <2>1. PICK i \in 1 .. Len(s) : y = s[i] BY <1>1, <1>4, Zenon DEF SeqRange
  <2>2. i \in DOMAIN t /\ y = t[i] BY <2>1, <1>2, <1>1
  <2>3. QED BY <2>2, Zenon DEF SeqRange
<1>5. x \in SeqRange(t)
  <2>1. Len(s)+1 \in DOMAIN t BY <1>1, <1>2
  <2>2. QED BY <2>1, <1>2, Zenon DEF SeqRange
<1>6. QED BY <1>3, <1>4, <1>5, Zenon DEF t

\* What is in a batch of one request, and in an empty one.
LEMMA RangeOfSmall ==
    ASSUME NEW S, NEW x \in S PROVE SeqRange(<<x>>) = {x} /\ SeqRange(<<>>) = {}
BY DEF SeqRange

\* What is in a history after a batch is added to it.
LEMMA RangeOfConcat ==
    ASSUME NEW S, NEW s \in Seq(S), NEW t \in Seq(S) PROVE SeqRange(s \o t) = SeqRange(s) \cup SeqRange(t)
<1> DEFINE u == s \o t
<1>1. DOMAIN s = 1 .. Len(s) /\ Len(s) \in Nat /\ DOMAIN t = 1 .. Len(t) /\ Len(t) \in Nat OBVIOUS
<1>2. /\ DOMAIN u = 1 .. Len(s)+Len(t)
      /\ \A i \in 1 .. Len(s) : u[i] = s[i]
      /\ \A i \in 1 .. Len(t) : u[Len(s) + i] = t[i] OBVIOUS
<1> HIDE DEF u
<1>3. ASSUME NEW y \in SeqRange(u) PROVE y \in SeqRange(s) \cup SeqRange(t)
  <2>1. PICK i \in 1 .. Len(s)+Len(t) : y = u[i] BY <1>2, <1>3, Zenon DEF SeqRange
  <2>2. CASE i \in 1 .. Len(s) BY <2>1, <2>2, <1>2, <1>1, Zenon DEF SeqRange
  <2>3. CASE i > Len(s)
    <3>1. i - Len(s) \in 1 .. Len(t) /\ y = t[i - Len(s)] BY <2>1, <2>3, <1>1, <1>2
    <3>2. QED BY <3>1, <1>1, Zenon DEF SeqRange
  <2>4. QED BY <2>2, <2>3, <2>1, <1>1
<1>4. ASSUME NEW y \in SeqRange(s) PROVE y \in SeqRange(u)
  <2>1. PICK i \in 1 .. Len(s) : y = s[i] BY <1>1, <1>4, Zenon DEF SeqRange
  <2>2. i \in DOMAIN u /\ y = u[i] BY <2>1, <1>2, <1>1
  <2>3. QED BY <2>2, Zenon DEF SeqRange
<1>5. ASSUME NEW y \in SeqRange(t) PROVE y \in SeqRange(u)
  <2>1. PICK i \in 1 .. Len(t) : y = t[i] BY <1>1, <1>5, Zenon DEF SeqRange
  <2>2. Len(s) + i \in DOMAIN u /\ y = u[Len(s) + i] BY <2>1, <1>2, <1>1
  <2>3. QED BY <2>2, Zenon DEF SeqRange
<1>6. QED BY <1>3, <1>4, <1>5, Zenon DEF u

\* What is in a sequence of requests is a request.
LEMMA RangeIsTyped ==
    ASSUME NEW S, NEW s \in Seq(S) PROVE SeqRange(s) \subseteq S
BY DEF SeqRange

-----------------------------------------------------------------------------
(* Types *)

\* The coordinator that New returns is well typed.
LEMMA TypeInit == Init => TypeOK
<1> SUFFICES ASSUME Init PROVE TypeOK
  BY Zenon
<1>1. closed \in BOOLEAN BY Zenon DEF Init
<1>2. QED BY <1>1 DEF Init, TypeOK, Outcomes, None, WorkerLabels

\* What a worker takes off a queue or out of a batch is a request.
LEMMA TakenType ==
    ASSUME TypeOK, NEW b \in Boundaries
    PROVE  /\ queue[b] \in Seq(Requests) /\ batch[b] \in Seq(Requests)
           /\ live[b] \in Seq(Requests) /\ carry[b] \in Seq(Requests)
           /\ queue[b] # <<>> => /\ Head(queue[b]) \in Requests
                                /\ Tail(queue[b]) \in Seq(Requests)
                                /\ <<Head(queue[b])>> \in Seq(Requests)
                                /\ Append(batch[b], Head(queue[b])) \in Seq(Requests)
           /\ batch[b] # <<>> => /\ Head(batch[b]) \in Requests
                                /\ Tail(batch[b]) \in Seq(Requests)
                                /\ Append(live[b], Head(batch[b])) \in Seq(Requests)
<1>1. /\ queue[b] \in Seq(Requests) /\ batch[b] \in Seq(Requests)
      /\ live[b] \in Seq(Requests) /\ carry[b] \in Seq(Requests)
  BY Zenon DEF TypeOK
<1>2. ASSUME NEW s \in Seq(Requests), s # <<>>, NEW t \in Seq(Requests)
      PROVE  /\ Head(s) \in Requests /\ Tail(s) \in Seq(Requests) /\ <<Head(s)>> \in Seq(Requests)
             /\ Append(t, Head(s)) \in Seq(Requests)
  BY <1>2
<1>3. QED BY <1>1, <1>2, Zenon

\* Completions are outcomes, whatever requests they are delivered to.
LEMMA DeliverType ==
    ASSUME TypeOK, NEW rs, NEW v \in Outcomes, Deliver(rs, v)
    PROVE  result' \in [Requests -> Outcomes \cup {None}]
BY Zenon DEF TypeOK, Deliver

\* What a waiting call can be woken with is an outcome.
LEMMA AwaitedType == ASSUME TypeOK, NEW r \in Requests PROVE Awaited(r) \subseteq Outcomes
<1>1. result[r] \in Outcomes \cup {None} BY Zenon DEF TypeOK
<1>2. QED BY <1>1, Zenon DEF Awaited, Outcomes

\* The steps of a worker that found the coordinator closed keep the types.
LEMMA FailFastType ==
    ASSUME TypeOK, NEW b \in Boundaries, NEW rs, FailFastAfter(b, rs),
           UNCHANGED <<callVars, channelVars, closeVars, storeVars>>
    PROVE  TypeOK'
<1>1. result' \in [Requests -> Outcomes \cup {None}]
  BY DeliverType, "ErrClosed" \in Outcomes, Zenon DEF FailFastAfter, Outcomes
<1>2. QED
  BY <1>1 DEF TypeOK, FailFastAfter, WorkerLabels, callVars, channelVars, closeVars, storeVars

\* A step that only moves a worker on keeps the types.
LEMMA ContinueType ==
    ASSUME TypeOK, NEW b \in Boundaries, NEW label \in WorkerLabels, Continue(b, label),
           UNCHANGED <<callVars, channelVars, closeVars, storeVars>>
    PROVE  TypeOK'
BY Zenon DEF TypeOK, Continue, WorkerLabels, callVars, channelVars, closeVars, storeVars

\* Every step of a call, a worker or Close keeps the types.
LEMMA TypeStep == TypeOK /\ [Next]_vars => TypeOK'
<1> SUFFICES ASSUME TypeOK, [Next]_vars PROVE TypeOK'
  BY Zenon
<1> USE ConfigAssumption
<1>1. ASSUME NEW r \in Requests, Submit(r) \/ Cancel(r) PROVE TypeOK'
  <2> USE DEF TypeOK, Outcomes
  <2>1. CASE Cancel(r) BY <2>1, Zenon DEF Cancel, channelVars, workerVars, closeVars, storeVars
  <2>2. CASE SubmitPrecheck(r) BY <2>2, Zenon DEF SubmitPrecheck, Move, channelVars, workerVars, closeVars, storeVars
  <2>3. CASE SubmitLock(r) BY <2>3, Zenon DEF SubmitLock, Move, channelVars, workerVars, closeVars, storeVars
  <2>4. CASE SubmitRegister(r)
    BY <2>4, Zenon DEF SubmitRegister, Move, WorkerLabels, channelVars, closeVars, storeVars
  <2>5. CASE SubmitEnqueue(r)
    <3>1. pc' \in [Requests -> Outcomes \cup {"idle", "lock", "register", "enqueue", "await"}]
      <4>1. PICK label \in {"await", "ctxErr", "ErrClosed"} : Move(r, label) BY <2>5, Zenon DEF SubmitEnqueue
      <4>2. QED BY <4>1, Zenon DEF Move
    <3>2. queue' \in [Boundaries -> Seq(Requests)] /\ admitted' \in [Boundaries -> Seq(Requests)]
      <4>1. /\ Append(queue[BoundaryOf[r]], r) \in Seq(Requests)
            /\ Append(admitted[BoundaryOf[r]], r) \in Seq(Requests)
        OBVIOUS
      <4>2. \/ UNCHANGED <<queue, admitted>>
            \/ /\ queue' = [queue EXCEPT ![BoundaryOf[r]] = Append(@, r)]
               /\ admitted' = [admitted EXCEPT ![BoundaryOf[r]] = Append(@, r)]
        BY <2>5, Zenon DEF SubmitEnqueue
      <4>3. CASE UNCHANGED <<queue, admitted>> BY <4>3, Zenon
      <4>4. CASE /\ queue' = [queue EXCEPT ![BoundaryOf[r]] = Append(@, r)]
                 /\ admitted' = [admitted EXCEPT ![BoundaryOf[r]] = Append(@, r)]
        <5>1. queue' \in [Boundaries -> Seq(Requests)] BY <4>1, <4>4, Zenon
        <5>2. admitted' \in [Boundaries -> Seq(Requests)] BY <4>1, <4>4, Zenon
        <5>3. QED BY <5>1, <5>2, Zenon
      <4>5. QED BY <4>2, <4>3, <4>4, Zenon
    <3>3. UNCHANGED <<ctxDone, result, qclosed, workerVars, closeVars, storeVars>>
      BY <2>5, Zenon DEF SubmitEnqueue, Move
    <3>4. QED BY <3>1, <3>2, <3>3, Zenon DEF workerVars, closeVars, storeVars
  <2>6. CASE SubmitAwait(r)
    <3>1. PICK label \in Outcomes : Move(r, label) BY <2>6, AwaitedType, Zenon DEF SubmitAwait
    <3>2. UNCHANGED <<ctxDone, result, channelVars, workerVars, closeVars, storeVars>>
      BY <2>6, <3>1, Zenon DEF SubmitAwait, Move
    <3>4. pc' \in [Requests -> Outcomes \cup {"idle", "lock", "register", "enqueue", "await"}]
      BY <3>1, Zenon DEF Move
    <3>5. QED BY <3>2, <3>4, Zenon DEF channelVars, workerVars, closeVars, storeVars
  <2>7. QED BY <1>1, <2>1, <2>2, <2>3, <2>4, <2>5, <2>6, Zenon DEF Submit
<1>2. ASSUME NEW b \in Boundaries, RunWorker(b) \/ FlushEnd(b) PROVE TypeOK'
  <2>1. CASE WorkerTop(b)
    <3>1. wpc' \in [Boundaries -> WorkerLabels]
      <4>1. PICK label \in {"check", "failFast", "done"} : wpc' = [wpc EXCEPT ![b] = label]
        BY <2>1, Zenon DEF WorkerTop, Continue
      <4>2. QED BY <4>1, Zenon DEF TypeOK, WorkerLabels
    <3>2. batch' \in [Boundaries -> Seq(Requests)] /\ carry' \in [Boundaries -> Seq(Requests)]
      <4>1. \/ UNCHANGED <<batch, carry>>
            \/ batch' = [batch EXCEPT ![b] = carry[b]] /\ carry' = [carry EXCEPT ![b] = <<>>]
            \/ /\ queue[b] # <<>> /\ UNCHANGED carry
               /\ batch' = [batch EXCEPT ![b] = <<Head(queue[b])>>]
        BY <2>1, Zenon DEF WorkerTop, Continue
      <4>2. batch \in [Boundaries -> Seq(Requests)] /\ carry \in [Boundaries -> Seq(Requests)]
        BY Zenon DEF TypeOK
      <4>3. batch' \in [Boundaries -> Seq(Requests)]
        <5>1. CASE batch' = batch BY <4>2, <5>1, Zenon
        <5>2. CASE batch' = [batch EXCEPT ![b] = carry[b]] BY <4>2, <5>2, Zenon
        <5>3. CASE queue[b] # <<>> /\ batch' = [batch EXCEPT ![b] = <<Head(queue[b])>>]
          <6>1. <<Head(queue[b])>> \in Seq(Requests) BY <5>3, TakenType, Zenon
          <6>2. QED BY <4>2, <5>3, <6>1, Zenon
        <5>4. QED BY <4>1, <5>1, <5>2, <5>3, Zenon
      <4>4. carry' \in [Boundaries -> Seq(Requests)]
        <5>1. CASE carry' = carry BY <4>2, <5>1, Zenon
        <5>2. CASE carry' = [carry EXCEPT ![b] = <<>>] BY <4>2, <5>2
        <5>3. QED BY <4>1, <5>1, <5>2, Zenon
      <4>5. QED BY <4>3, <4>4, Zenon
    <3>3. queue' \in [Boundaries -> Seq(Requests)]
      <4>1. queue' = queue \/ (queue[b] # <<>> /\ queue' = [queue EXCEPT ![b] = Tail(@)])
        BY <2>1, Zenon DEF WorkerTop
      <4>2. queue \in [Boundaries -> Seq(Requests)] BY Zenon DEF TypeOK
      <4>3. QED BY <4>1, <4>2, TakenType, Zenon
    <3>4. UNCHANGED <<live, dropped, result, callVars, qclosed, admitted, closeVars, storeVars>>
      BY <2>1, Zenon DEF WorkerTop, Continue
    <3>5. QED BY <3>1, <3>2, <3>3, <3>4, Zenon DEF TypeOK, callVars, closeVars, storeVars
  <2>2. CASE WorkerCheck(b)
    BY <2>2, FailFastType, ContinueType, "drain" \in WorkerLabels, Zenon DEF WorkerCheck, WorkerLabels
  <2>3. CASE WorkerDrain(b)
    <3>1. wpc' \in [Boundaries -> WorkerLabels]
      <4>1. wpc' = wpc \/ wpc' = [wpc EXCEPT ![b] = "drained"] BY <2>3, Zenon DEF WorkerDrain, Continue
      <4>2. QED BY <4>1, Zenon DEF TypeOK, WorkerLabels
    <3>2. batch' \in [Boundaries -> Seq(Requests)] /\ carry' \in [Boundaries -> Seq(Requests)]
      <4>1. \/ UNCHANGED <<batch, carry>>
            \/ /\ queue[b] # <<>> /\ UNCHANGED batch
               /\ carry' = [carry EXCEPT ![b] = <<Head(queue[b])>>]
            \/ /\ queue[b] # <<>> /\ UNCHANGED carry
               /\ batch' = [batch EXCEPT ![b] = Append(@, Head(queue[b]))]
        BY <2>3, Zenon DEF WorkerDrain, SetAside, Continue
      <4>2. batch \in [Boundaries -> Seq(Requests)] /\ carry \in [Boundaries -> Seq(Requests)]
        BY Zenon DEF TypeOK
      <4>3. ASSUME queue[b] # <<>>
            PROVE  <<Head(queue[b])>> \in Seq(Requests) /\ Append(batch[b], Head(queue[b])) \in Seq(Requests)
        BY <4>3, TakenType, Zenon
      <4>4. batch' \in [Boundaries -> Seq(Requests)]
        <5>1. CASE batch' = batch BY <4>2, <5>1, Zenon
        <5>2. CASE queue[b] # <<>> /\ batch' = [batch EXCEPT ![b] = Append(@, Head(queue[b]))]
          BY <4>2, <4>3, <5>2, Zenon
        <5>3. QED BY <4>1, <5>1, <5>2, Zenon
      <4>5. carry' \in [Boundaries -> Seq(Requests)]
        <5>1. CASE carry' = carry BY <4>2, <5>1, Zenon
        <5>2. CASE queue[b] # <<>> /\ carry' = [carry EXCEPT ![b] = <<Head(queue[b])>>]
          BY <4>2, <4>3, <5>2, Zenon
        <5>3. QED BY <4>1, <5>1, <5>2, Zenon
      <4>6. QED BY <4>4, <4>5, Zenon
    <3>3. queue' \in [Boundaries -> Seq(Requests)]
      <4>1. queue' = queue \/ (queue[b] # <<>> /\ queue' = [queue EXCEPT ![b] = Tail(queue[b])])
        BY <2>3, Zenon DEF WorkerDrain, SetAside
      <4>2. queue \in [Boundaries -> Seq(Requests)] BY Zenon DEF TypeOK
      <4>3. QED BY <4>1, <4>2, TakenType, Zenon
    <3>4. UNCHANGED <<live, dropped, result, callVars, qclosed, admitted, closeVars, storeVars>>
      BY <2>3, Zenon DEF WorkerDrain, Continue
    <3>5. QED BY <3>1, <3>2, <3>3, <3>4, Zenon DEF TypeOK, callVars, closeVars, storeVars
  <2>4. CASE WorkerDrained(b)
    BY <2>4, FailFastType, ContinueType, "flush" \in WorkerLabels, Zenon DEF WorkerDrained, WorkerLabels
  <2>5. CASE FlushFilter(b)
    <3>1. result' \in [Requests -> Outcomes \cup {None}]
      BY <2>5, DeliverType, "ctxErr" \in Outcomes, Zenon DEF FlushFilter, Outcomes
    <3>2. batch' \in [Boundaries -> Seq(Requests)] BY <2>5 DEF FlushFilter, TypeOK
    <3>3. live' \in [Boundaries -> Seq(Requests)]
      <4>1. batch[b] # <<>> /\ (live' = live \/ live' = [live EXCEPT ![b] = Append(@, Head(batch[b]))])
        <5>1. live \in [Boundaries -> Seq(Requests)] BY Zenon DEF TypeOK
        <5>2. QED BY <5>1, <2>5, Zenon DEF FlushFilter
      <4>2. live \in [Boundaries -> Seq(Requests)] BY Zenon DEF TypeOK
      <4>3. QED BY <4>1, <4>2, TakenType, Zenon
    <3>4. dropped' \in [Boundaries -> SUBSET Requests]
      <4>1. dropped[b] \cup {Head(batch[b])} \in SUBSET Requests
        <5>1. Head(batch[b]) \in Requests BY <2>5, TakenType, Zenon DEF FlushFilter
        <5>2. QED BY <5>1, Zenon DEF TypeOK
      <4>2. dropped' = [dropped EXCEPT ![b] = IF ctxDone[Head(batch[b])] THEN @ \cup {Head(batch[b])} ELSE @]
        BY <2>5, Zenon DEF FlushFilter
      <4>3. dropped \in [Boundaries -> SUBSET Requests] BY Zenon DEF TypeOK
      <4>4. QED BY <4>1, <4>2, <4>3, Zenon
    <3>5. UNCHANGED <<callVars, channelVars, wpc, carry, closeVars, storeVars>> BY <2>5, Zenon DEF FlushFilter
    <3>6. QED
      BY <3>1, <3>2, <3>3, <3>4, <3>5, Zenon DEF TypeOK, callVars, channelVars, closeVars, storeVars
  <2>6. CASE FlushStart(b)
    <3>1. dropped' \in [Boundaries -> SUBSET Requests] BY <2>6, Zenon DEF FlushStart, TypeOK
    <3>2. executed' \in [Boundaries -> Seq(Requests)]
      <4>1. executed[b] \o live[b] \in Seq(Requests) BY DEF TypeOK
      <4>2. QED BY <2>6, <4>1, Zenon DEF FlushStart, TypeOK
    <3>3. wpc' \in [Boundaries -> WorkerLabels]
      <4>1. PICK label \in {"flushed", "executing"} : wpc' = [wpc EXCEPT ![b] = label]
        BY <2>6, Zenon DEF FlushStart
      <4>2. QED BY <4>1, Zenon DEF TypeOK, WorkerLabels
    <3>4. UNCHANGED <<callVars, result, channelVars, batch, live, carry, closeVars, applied>>
      BY <2>6, Zenon DEF FlushStart
    <3>5. QED BY <3>1, <3>2, <3>3, <3>4, Zenon DEF TypeOK, callVars, channelVars, closeVars
  <2>7. CASE FlushEnd(b)
    <3>1. SeqRange(live[b]) \subseteq Requests BY RangeIsTyped, Zenon DEF TypeOK
    <3>2. result' \in [Requests -> Outcomes \cup {None}]
      BY <2>7, DeliverType, Zenon DEF FlushEnd, Completion, Outcomes
    <3>3. QED
      BY <2>7, <3>1, <3>2 DEF FlushEnd, TypeOK, WorkerLabels, callVars, channelVars, closeVars
  <2>8. CASE WorkerFlushed(b)
    BY <2>8, FailFastType, ContinueType, "top" \in WorkerLabels, Zenon DEF WorkerFlushed, WorkerLabels
  <2>9. CASE WorkerFailFast(b)
    <3>1. result' \in [Requests -> Outcomes \cup {None}]
      BY <2>9, DeliverType, "ErrClosed" \in Outcomes, Zenon DEF WorkerFailFast, Continue, Outcomes, TypeOK
    <3>2. wpc' \in [Boundaries -> WorkerLabels]
      <4>1. wpc' = wpc \/ wpc' = [wpc EXCEPT ![b] = "done"]
        BY <2>9, Zenon DEF WorkerFailFast, Continue
      <4>2. wpc \in [Boundaries -> WorkerLabels] /\ "done" \in WorkerLabels BY Zenon DEF TypeOK, WorkerLabels
      <4>3. QED BY <4>1, <4>2, Zenon
    <3>3. queue' \in [Boundaries -> Seq(Requests)]
      <4>1. queue' = queue \/ (queue[b] # <<>> /\ queue' = [queue EXCEPT ![b] = Tail(queue[b])])
        BY <2>9, Zenon DEF WorkerFailFast
      <4>2. queue \in [Boundaries -> Seq(Requests)] BY Zenon DEF TypeOK
      <4>3. QED BY <4>1, <4>2, TakenType, Zenon
    <3>4. UNCHANGED <<batch, live, dropped, carry, callVars, qclosed, admitted, closeVars, storeVars>>
      BY <2>9, Zenon DEF WorkerFailFast, Continue
    <3>5. QED BY <3>1, <3>2, <3>3, <3>4, Zenon DEF TypeOK, callVars, closeVars, storeVars
  <2>10. QED BY <1>2, <2>1, <2>2, <2>3, <2>4, <2>5, <2>6, <2>7, <2>8, <2>9, Zenon DEF RunWorker
<1>3. CASE CloseSignal BY <1>3, Zenon DEF CloseSignal, TypeOK, callVars, channelVars, workerVars, storeVars
<1>4. CASE CloseList BY <1>4, Zenon DEF CloseList, TypeOK, callVars, channelVars, workerVars, storeVars
<1>5. CASE CloseQueues BY <1>5, Zenon DEF CloseQueues, TypeOK, callVars, workerVars, storeVars
<1>6. CASE CloseJoin BY <1>6, Zenon DEF CloseJoin, TypeOK, callVars, channelVars, workerVars, storeVars
<1>7. CASE UNCHANGED vars
  BY <1>7, Zenon DEF vars, TypeOK, callVars, channelVars, workerVars, closeVars, storeVars
<1>8. QED BY <1>1, <1>2, <1>3, <1>4, <1>5, <1>6, <1>7, Zenon DEF Next, CloseStep, Finished

\* The state of the coordinator keeps its types: every queue, batch, carried
\* request and history holds requests, every answer is one of its outcomes.
THEOREM GroupCommitType == Spec => []TypeOK
BY TypeInit, TypeStep, PTL DEF Spec

-----------------------------------------------------------------------------
(* What a worker leaves alone *)

\* A worker touches only its own boundary.
Elsewhere(b) ==
    \A c \in Boundaries \ {b} :
        /\ wpc'[c] = wpc[c] /\ queue'[c] = queue[c] /\ batch'[c] = batch[c] /\ live'[c] = live[c]
        /\ dropped'[c] = dropped[c] /\ carry'[c] = carry[c] /\ executed'[c] = executed[c]

\* A step of runWorker changes the state of its own boundary only, and answers
\* requests only through deliver.
LEMMA WorkerLocal ==
    ASSUME TypeOK, NEW b \in Boundaries, RunWorker(b) \/ FlushEnd(b)
    PROVE  /\ Elsewhere(b)
           /\ UNCHANGED <<pc, ctxDone, qclosed, admitted, closed, closePc, closing>>
           /\ UNCHANGED result \/ \E rs, v : Deliver(rs, v)
<1> USE DEF Elsewhere
<1> DEFINE Typed == /\ wpc \in [Boundaries -> WorkerLabels] /\ queue \in [Boundaries -> Seq(Requests)]
                    /\ batch \in [Boundaries -> Seq(Requests)] /\ live \in [Boundaries -> Seq(Requests)]
                    /\ dropped \in [Boundaries -> SUBSET Requests] /\ carry \in [Boundaries -> Seq(Requests)]
                    /\ executed \in [Boundaries -> Seq(Requests)]
<1>0. Typed BY Zenon DEF TypeOK
<1>1. CASE WorkerTop(b) BY <1>0, <1>1, Zenon DEF WorkerTop, Continue, callVars, closeVars, storeVars
<1>2. CASE WorkerCheck(b)
  BY <1>0, <1>2, Zenon DEF WorkerCheck, FailFastAfter, Continue, callVars, channelVars, closeVars, storeVars
<1>3. CASE WorkerDrain(b) BY <1>0, <1>3, Zenon DEF WorkerDrain, Continue, callVars, closeVars, storeVars
<1>4. CASE WorkerDrained(b)
  BY <1>0, <1>4, Zenon DEF WorkerDrained, FailFastAfter, Continue, callVars, channelVars, closeVars, storeVars
<1>5. CASE FlushFilter(b) BY <1>0, <1>5, Zenon DEF FlushFilter, callVars, channelVars, closeVars, storeVars
<1>6. CASE FlushStart(b) BY <1>0, <1>6, Zenon DEF FlushStart, callVars, channelVars, closeVars
<1>7. CASE FlushEnd(b) BY <1>0, <1>7, Zenon DEF FlushEnd, callVars, channelVars, closeVars
<1>8. CASE WorkerFlushed(b)
  BY <1>0, <1>8, Zenon DEF WorkerFlushed, FailFastAfter, Continue, callVars, channelVars, closeVars, storeVars
<1>9. CASE WorkerFailFast(b) BY <1>0, <1>9, Zenon DEF WorkerFailFast, Continue, callVars, closeVars, storeVars
<1>10. QED BY <1>1, <1>2, <1>3, <1>4, <1>5, <1>6, <1>7, <1>8, <1>9, Zenon DEF RunWorker

-----------------------------------------------------------------------------
(* Shutdown *)

\* Where Close is says what calls can still do: once it has held the registry
\* lock no call registers, and once the senders are settled none sends.
ShutdownInv ==
    /\ closed <=> closePc # "idle"
    /\ closePc \in {"settle", "join", "done"} => \A r \in Requests : pc[r] # "register"
    /\ closePc \in {"join", "done"} => \A r \in Requests : pc[r] # "enqueue"
    /\ \A b \in Boundaries : qclosed[b] => closePc \in {"join", "done"}

\* Before Close is called nothing is closed.
LEMMA ShutdownInit == Init => ShutdownInv
BY Zenon DEF Init, ShutdownInv

\* The order in which Close proceeds is kept by every step.
LEMMA ShutdownStep == TypeOK /\ ShutdownInv /\ [Next]_vars => ShutdownInv'
<1> SUFFICES ASSUME TypeOK, ShutdownInv, [Next]_vars PROVE ShutdownInv'
  BY Zenon
<1>1. ASSUME NEW r \in Requests, Submit(r) \/ Cancel(r) PROVE ShutdownInv'
  <2> USE DEF TypeOK, ShutdownInv
  <2>1. UNCHANGED <<closeVars, qclosed>>
    BY <1>1, Zenon DEF Submit, SubmitPrecheck, SubmitLock, SubmitRegister, SubmitEnqueue, SubmitAwait, Cancel,
                channelVars
  <2>2. CASE Cancel(r) BY <2>1, <2>2 DEF Cancel, closeVars
  <2>3. CASE SubmitPrecheck(r)
    BY <2>1, <2>3 DEF SubmitPrecheck, Move, closeVars
  <2>4. CASE SubmitLock(r) BY <2>1, <2>4 DEF SubmitLock, Move, closeVars
  <2>5. CASE SubmitRegister(r) BY <2>1, <2>5 DEF SubmitRegister, Move, closeVars
  <2>6. CASE SubmitEnqueue(r) BY <2>1, <2>6 DEF SubmitEnqueue, Move, closeVars
  <2>7. CASE SubmitAwait(r)
    <3>1. PICK v \in Outcomes : Move(r, v) BY <2>7, AwaitedType, Zenon DEF SubmitAwait
    <3>2. QED BY <2>1, <3>1, Zenon DEF Move, closeVars, Outcomes
  <2>8. QED BY <1>1, <2>2, <2>3, <2>4, <2>5, <2>6, <2>7, Zenon DEF Submit
<1>2. ASSUME NEW b \in Boundaries, RunWorker(b) \/ FlushEnd(b) PROVE ShutdownInv'
  <2>1. UNCHANGED <<pc, qclosed, closed, closePc>> BY <1>2, WorkerLocal, Zenon
  <2>2. QED BY <2>1, Zenon DEF ShutdownInv
<1>3. CASE CloseSignal BY <1>3, Zenon DEF CloseSignal, ShutdownInv, callVars, channelVars
<1>4. CASE CloseList BY <1>4, Zenon DEF CloseList, RegistryFree, ShutdownInv, callVars, channelVars
<1>5. CASE CloseQueues BY <1>5, Zenon DEF CloseQueues, Senders, ShutdownInv, callVars
<1>6. CASE CloseJoin BY <1>6, Zenon DEF CloseJoin, ShutdownInv, callVars, channelVars
<1>7. CASE UNCHANGED vars BY <1>7, Zenon DEF vars, ShutdownInv, callVars, channelVars, closeVars
<1>8. QED BY <1>1, <1>2, <1>3, <1>4, <1>5, <1>6, <1>7, Zenon DEF Next, CloseStep, Finished

\* No call of Submit can be at the send of its request when Close has closed
\* the queue, so the send on a closed channel, which panics, cannot happen.
THEOREM NoSendOnClosed == Spec => []NoSendOnClosedQueue
<1>1. Init => TypeOK /\ ShutdownInv BY TypeInit, ShutdownInit, Zenon
<1>2. TypeOK /\ ShutdownInv /\ [Next]_vars => (TypeOK /\ ShutdownInv)' BY TypeStep, ShutdownStep, Zenon
<1>3. TypeOK /\ ShutdownInv => NoSendOnClosedQueue
  BY ConfigAssumption, Zenon DEF TypeOK, ShutdownInv, NoSendOnClosedQueue
<1>4. QED BY <1>1, <1>2, <1>3, PTL DEF Spec

-----------------------------------------------------------------------------
(* Where requests are *)

\* What a worker holds follows from where it is.
HeldAt(b) ==
    /\ wpc[b] \notin {"check", "drain", "drained", "flush"} => batch[b] = <<>>
    /\ wpc[b] \notin {"flush", "executing"} => live[b] = <<>>
    /\ wpc[b] \in {"absent", "check", "drain", "failFast", "done"} => carry[b] = <<>>
    /\ wpc[b] = "done" => queue[b] = <<>> /\ qclosed[b]

WorkerInv ==
    /\ \A b \in Boundaries : HeldAt(b)
    /\ \A r \in Requests : pc[r] = "enqueue" => wpc[BoundaryOf[r]] # "absent"

\* An outcome is delivered only to a request that has been applied, and only a
\* delivered outcome is returned.
OutcomeInv ==
    /\ \A r \in Requests : pc[r] = "outcome" => result[r] = "outcome"
    /\ \A r \in Requests : result[r] = "outcome" => r \in applied

\* A boundary without a worker holds nothing.
LEMMA WorkerInit == Init => WorkerInv
BY ConfigAssumption, Zenon DEF Init, WorkerInv, HeldAt

\* A worker that has left its loop holds nothing.
LEMMA FailFastHeld ==
    ASSUME TypeOK, NEW b \in Boundaries, HeldAt(b), NEW rs, FailFastAfter(b, rs),
           wpc[b] \in {"check", "drained", "flushed"}
    PROVE  HeldAt(b)' /\ wpc'[b] # "absent"
BY Zenon DEF TypeOK, HeldAt, FailFastAfter

\* What a worker holds follows from where it is after every step.
LEMMA WorkerStep == TypeOK /\ ShutdownInv /\ WorkerInv /\ [Next]_vars => WorkerInv'
<1> SUFFICES ASSUME TypeOK, ShutdownInv, WorkerInv, [Next]_vars PROVE WorkerInv'
  BY Zenon
<1> USE ConfigAssumption
<1>1. ASSUME NEW r \in Requests, Submit(r) \/ Cancel(r) PROVE WorkerInv'
  <2> USE DEF WorkerInv
  <2>0. /\ pc \in [Requests -> Outcomes \cup {"idle", "lock", "register", "enqueue", "await"}]
        /\ wpc \in [Boundaries -> WorkerLabels] /\ queue \in [Boundaries -> Seq(Requests)]
    BY Zenon DEF TypeOK
  <2>1. CASE Cancel(r) BY <2>1, Zenon DEF Cancel, HeldAt, channelVars, workerVars
  <2>2. CASE SubmitPrecheck(r) BY <2>0, <2>2, Zenon DEF SubmitPrecheck, Move, HeldAt, channelVars, workerVars
  <2>3. CASE SubmitLock(r) BY <2>0, <2>3, Zenon DEF SubmitLock, Move, HeldAt, channelVars, workerVars
  <2>4. CASE SubmitRegister(r)
    <3>1. ASSUME NEW c \in Boundaries PROVE HeldAt(c)'
      <4>1. HeldAt(c) BY Zenon
      <4>2. QED BY <2>0, <2>4, <4>1, Zenon DEF SubmitRegister, HeldAt, channelVars
    <3>2. ASSUME NEW q \in Requests, pc'[q] = "enqueue" PROVE wpc'[BoundaryOf[q]] # "absent"
      BY <2>0, <2>4, <3>2, Zenon DEF SubmitRegister, Move
    <3>3. QED BY <3>1, <3>2, Zenon
  <2>5. CASE SubmitEnqueue(r)
    <3>1. ASSUME NEW c \in Boundaries PROVE HeldAt(c)'
      <4>1. wpc[c] = "done" => BoundaryOf[r] # c
        BY <2>5, Zenon DEF SubmitEnqueue, ShutdownInv, HeldAt
      <4>2. wpc[c] = "done" => queue'[c] = queue[c] BY <2>0, <2>5, <4>1, Zenon DEF SubmitEnqueue
      <4>3. UNCHANGED <<wpc, batch, live, carry, qclosed>> BY <2>5, Zenon DEF SubmitEnqueue, workerVars
      <4>4. QED BY <4>2, <4>3, Zenon DEF HeldAt
    <3>2. ASSUME NEW q \in Requests, pc'[q] = "enqueue" PROVE wpc'[BoundaryOf[q]] # "absent"
      <4>1. pc[q] = "enqueue" BY <2>0, <2>5, <3>2, Zenon DEF SubmitEnqueue, Move
      <4>2. QED BY <2>5, <4>1, Zenon DEF SubmitEnqueue, workerVars
    <3>3. QED BY <3>1, <3>2, Zenon
  <2>6. CASE SubmitAwait(r)
    <3>1. PICK v \in Outcomes : Move(r, v) BY <2>6, AwaitedType, Zenon DEF SubmitAwait
    <3>2. v # "enqueue" BY Zenon DEF Outcomes
    <3>3. UNCHANGED <<wpc, batch, live, carry, queue, qclosed>>
      BY <2>6, Zenon DEF SubmitAwait, channelVars, workerVars
    <3>4. QED BY <2>0, <3>1, <3>2, <3>3, Zenon DEF Move, HeldAt
  <2>7. QED BY <1>1, <2>1, <2>2, <2>3, <2>4, <2>5, <2>6, Zenon DEF Submit
<1>2. ASSUME NEW b \in Boundaries, RunWorker(b) \/ FlushEnd(b) PROVE WorkerInv'
  <2>0. /\ wpc \in [Boundaries -> WorkerLabels] /\ queue \in [Boundaries -> Seq(Requests)]
        /\ batch \in [Boundaries -> Seq(Requests)] /\ live \in [Boundaries -> Seq(Requests)]
        /\ carry \in [Boundaries -> Seq(Requests)]
    BY Zenon DEF TypeOK
  <2>1. HeldAt(b) BY Zenon DEF WorkerInv
  <2>2. UNCHANGED <<pc, qclosed>> /\ Elsewhere(b) BY <1>2, WorkerLocal, Zenon
  <2>3. HeldAt(b)' /\ wpc'[b] # "absent"
    <3>1. CASE WorkerTop(b)
      <4>1. CASE wpc'[b] = "check" BY <3>1, <4>1, <2>0, <2>1, Zenon DEF WorkerTop, Continue, HeldAt
      <4>2. CASE wpc'[b] = "failFast" BY <3>1, <4>2, <2>0, <2>1, Zenon DEF WorkerTop, Continue, HeldAt
      <4>3. CASE wpc'[b] = "done" BY <3>1, <4>3, <2>0, <2>1, <2>2, Zenon DEF WorkerTop, Continue, HeldAt
      <4>4. QED BY <2>0, <3>1, <4>1, <4>2, <4>3, Zenon DEF WorkerTop, Continue
    <3>2. CASE WorkerCheck(b)
      <4>1. CASE closed BY <3>2, <4>1, <2>1, FailFastHeld, Zenon DEF WorkerCheck
      <4>2. CASE ~closed BY <3>2, <4>2, <2>0, <2>1, Zenon DEF WorkerCheck, Continue, HeldAt
      <4>3. QED BY <4>1, <4>2, Zenon
    <3>3. CASE WorkerDrain(b)
      <4>1. UNCHANGED live /\ wpc'[b] \in {"drain", "drained"} BY <3>3, <2>0, Zenon DEF WorkerDrain, Continue
      <4>2. wpc'[b] = "drain" => UNCHANGED carry BY <3>3, <2>0, Zenon DEF WorkerDrain, Continue
      <4>3. QED BY <3>3, <4>1, <4>2, <2>1, Zenon DEF WorkerDrain, HeldAt
    <3>4. CASE WorkerDrained(b)
      <4>1. CASE closed BY <3>4, <4>1, <2>1, FailFastHeld, Zenon DEF WorkerDrained
      <4>2. CASE ~closed BY <3>4, <4>2, <2>0, <2>1, Zenon DEF WorkerDrained, Continue, HeldAt
      <4>3. QED BY <4>1, <4>2, Zenon
    <3>5. CASE FlushFilter(b) BY <3>5, <2>0, <2>1, Zenon DEF FlushFilter, HeldAt
    <3>6. CASE FlushStart(b) BY <3>6, <2>0, <2>1, Zenon DEF FlushStart, HeldAt
    <3>7. CASE FlushEnd(b) BY <3>7, <2>0, <2>1, Zenon DEF FlushEnd, HeldAt
    <3>8. CASE WorkerFlushed(b)
      <4>1. CASE closed BY <3>8, <4>1, <2>1, FailFastHeld, Zenon DEF WorkerFlushed
      <4>2. CASE ~closed BY <3>8, <4>2, <2>0, <2>1, Zenon DEF WorkerFlushed, Continue, HeldAt
      <4>3. QED BY <4>1, <4>2, Zenon
    <3>9. CASE WorkerFailFast(b) BY <3>9, <2>0, <2>1, <2>2, Zenon DEF WorkerFailFast, Continue, HeldAt
    <3>10. QED BY <1>2, <3>1, <3>2, <3>3, <3>4, <3>5, <3>6, <3>7, <3>8, <3>9, Zenon DEF RunWorker
  <2>4. ASSUME NEW c \in Boundaries PROVE HeldAt(c)'
    <3>1. CASE c = b BY <3>1, <2>3, Zenon
    <3>2. CASE c # b BY <3>2, <2>2, Zenon DEF WorkerInv, HeldAt, Elsewhere
    <3>3. QED BY <3>1, <3>2, Zenon
  <2>5. ASSUME NEW r \in Requests, pc'[r] = "enqueue" PROVE wpc'[BoundaryOf[r]] # "absent"
    BY <2>2, <2>3, <2>5, Zenon DEF WorkerInv, Elsewhere
  <2>6. QED BY <2>4, <2>5, Zenon DEF WorkerInv
<1>3. CASE CloseSignal BY <1>3, Zenon DEF CloseSignal, WorkerInv, HeldAt, callVars, channelVars, workerVars
<1>4. CASE CloseList BY <1>4, Zenon DEF CloseList, WorkerInv, HeldAt, callVars, channelVars, workerVars
<1>5. CASE CloseQueues BY <1>5, Zenon DEF CloseQueues, TypeOK, WorkerInv, HeldAt, callVars, workerVars
<1>6. CASE CloseJoin BY <1>6, Zenon DEF CloseJoin, WorkerInv, HeldAt, callVars, channelVars, workerVars
<1>7. CASE UNCHANGED vars BY <1>7, Zenon DEF vars, WorkerInv, HeldAt, callVars, channelVars, workerVars
<1>8. QED BY <1>1, <1>2, <1>3, <1>4, <1>5, <1>6, <1>7, Zenon DEF Next, CloseStep, Finished

\* Nothing has been delivered at first.
LEMMA OutcomeInit == Init => OutcomeInv
BY Zenon DEF Init, OutcomeInv, None

\* No step delivers or returns an outcome that was not applied.
LEMMA OutcomeStep == TypeOK /\ OutcomeInv /\ [Next]_vars => OutcomeInv'
<1> SUFFICES ASSUME TypeOK, OutcomeInv, [Next]_vars PROVE OutcomeInv'
  BY Zenon
<1>1. ASSUME NEW r \in Requests, Submit(r) \/ Cancel(r) PROVE OutcomeInv'
  <2> USE DEF TypeOK, OutcomeInv
  <2>1. CASE Cancel(r) BY <2>1, Zenon DEF Cancel, storeVars
  <2>2. CASE SubmitPrecheck(r) BY <2>2, Zenon DEF SubmitPrecheck, Move, storeVars
  <2>3. CASE SubmitLock(r) BY <2>3, Zenon DEF SubmitLock, Move, storeVars
  <2>4. CASE SubmitRegister(r) BY <2>4, Zenon DEF SubmitRegister, Move, storeVars
  <2>5. CASE SubmitEnqueue(r)
    <3>1. PICK v \in {"await", "ctxErr", "ErrClosed"} : Move(r, v) BY <2>5, Zenon DEF SubmitEnqueue
    <3>2. QED BY <2>5, <3>1, Zenon DEF SubmitEnqueue, Move, storeVars
  <2>6. CASE SubmitAwait(r)
    <3>1. PICK v \in {"ctxErr", result[r]} : Move(r, v) BY <2>6, Zenon DEF SubmitAwait, Awaited
    <3>2. QED BY <2>6, <3>1, Zenon DEF SubmitAwait, Move, storeVars
  <2>7. QED BY <1>1, <2>1, <2>2, <2>3, <2>4, <2>5, <2>6, Zenon DEF Submit
<1>2. ASSUME NEW b \in Boundaries, RunWorker(b) PROVE OutcomeInv'
  <2>1. UNCHANGED pc BY <1>2, WorkerLocal, Zenon
  <2>2. result' = result \/ \E rs \in SUBSET Requests, v \in {"ErrClosed", "ctxErr"} : Deliver(rs, v)
    <3>1. CASE FlushFilter(b) BY <3>1, Zenon DEF FlushFilter
    <3>2. CASE WorkerFailFast(b)
      BY <3>2, TakenType, Zenon DEF WorkerFailFast, Continue
    <3>3. SeqRange(batch[b]) \subseteq Requests /\ SeqRange(carry[b]) \subseteq Requests
      BY RangeIsTyped, Zenon DEF TypeOK
    <3>4. CASE WorkerCheck(b) \/ WorkerDrained(b) \/ WorkerFlushed(b)
      BY <3>3, <3>4, Zenon DEF WorkerCheck, WorkerDrained, WorkerFlushed, Held, FailFastAfter, Continue
    <3>5. CASE WorkerTop(b) \/ WorkerDrain(b) \/ FlushStart(b)
      BY <3>5, Zenon DEF WorkerTop, WorkerDrain, FlushStart, Continue
    <3>6. QED BY <1>2, <3>1, <3>2, <3>4, <3>5, Zenon DEF RunWorker
  <2>3. UNCHANGED applied
    BY <1>2, Zenon DEF RunWorker, WorkerTop, WorkerCheck, WorkerDrain, WorkerDrained, FlushFilter, FlushStart,
                       WorkerFlushed, WorkerFailFast, storeVars
  <2>4. QED BY <2>1, <2>2, <2>3, Zenon DEF OutcomeInv, Deliver, None
<1>3. ASSUME NEW b \in Boundaries, FlushEnd(b) PROVE OutcomeInv'
  BY <1>3, Zenon DEF FlushEnd, Deliver, Completion, OutcomeInv, None, callVars
<1>4. CASE CloseSignal \/ CloseStep
  BY <1>4, Zenon DEF CloseSignal, CloseStep, CloseList, CloseQueues, CloseJoin, OutcomeInv, callVars, storeVars
<1>5. CASE UNCHANGED vars BY <1>5, Zenon DEF vars, OutcomeInv, callVars, storeVars
<1>6. QED BY <1>1, <1>2, <1>3, <1>4, <1>5, Zenon DEF Next, Finished

\* A call of Submit that returns an outcome had its request made durable by the
\* executor: an outcome is never invented by the coordinator.
THEOREM OutcomeIsApplied == Spec => []OutcomeMeansApplied
<1>1. Init => TypeOK /\ OutcomeInv BY TypeInit, OutcomeInit, Zenon
<1>2. TypeOK /\ OutcomeInv /\ [Next]_vars => (TypeOK /\ OutcomeInv)' BY TypeStep, OutcomeStep, Zenon
<1>3. OutcomeInv => OutcomeMeansApplied BY Zenon DEF OutcomeInv, OutcomeMeansApplied
<1>4. QED BY <1>1, <1>2, <1>3, PTL DEF Spec

-----------------------------------------------------------------------------
(* No request is forgotten *)

\* The places of a boundary from where a request is answered.
Places(b) == SeqRange(queue[b]) \cup Held(b) \cup SeqRange(live[b])

\* A worker that finds the coordinator closed answers all it holds.
LEMMA FailFastPlaces ==
    ASSUME TypeOK, NEW b \in Boundaries, HeldAt(b), NEW rs, FailFastAfter(b, rs), UNCHANGED queue,
           wpc[b] \in {"check", "drained", "flushed"}, SeqRange(batch[b]) \cup SeqRange(carry[b]) \subseteq rs,
           NEW r \in Places(b), result'[r] = None, r \in Requests
    PROVE  r \in Places(b)' /\ wpc'[b] = "failFast"
<1>1. r \notin rs BY Zenon DEF FailFastAfter, Deliver, None, Outcomes
<1>2. live[b] = <<>> BY Zenon DEF HeldAt
<1>3. r \in SeqRange(queue[b]) BY <1>1, <1>2, RangeOfSmall, Zenon DEF Places, Held
<1>4. QED BY <1>3, Zenon DEF TypeOK, Places, FailFastAfter

\* A step of a worker keeps the requests of its boundary that have no
\* completion where they can get one, and does not end while there are any.
LEMMA WorkerKeeps ==
    ASSUME TypeOK, NEW b \in Boundaries, HeldAt(b), RunWorker(b) \/ FlushEnd(b),
           NEW r \in Requests, r \in Places(b), result'[r] = None
    PROVE  r \in Places(b)' /\ wpc'[b] \notin {"absent", "done"}
<1> DEFINE Q(s) == SeqRange(s)
<1>a. /\ wpc \in [Boundaries -> WorkerLabels] /\ queue \in [Boundaries -> Seq(Requests)]
      /\ batch \in [Boundaries -> Seq(Requests)] /\ live \in [Boundaries -> Seq(Requests)]
      /\ carry \in [Boundaries -> Seq(Requests)]
  BY Zenon DEF TypeOK
<1>0. /\ queue[b] \in Seq(Requests) /\ batch[b] \in Seq(Requests)
      /\ live[b] \in Seq(Requests) /\ carry[b] \in Seq(Requests)
  BY Zenon DEF TypeOK
<1>1. Q(<<>>) = {} BY RangeOfSmall, Zenon
<1>2. queue[b] # <<>> => Q(queue[b]) = {Head(queue[b])} \cup Q(Tail(queue[b])) BY <1>0, RangeOfTail, Zenon
<1>3. batch[b] # <<>> => Q(batch[b]) = {Head(batch[b])} \cup Q(Tail(batch[b])) BY <1>0, RangeOfTail, Zenon
<1>4. r \in Q(queue[b]) \cup Q(batch[b]) \cup Q(carry[b]) \cup Q(live[b]) BY Zenon DEF Places, Held
<1>5. Places(b)' = Q(queue'[b]) \cup Q(batch'[b]) \cup Q(carry'[b]) \cup Q(live'[b]) BY Zenon DEF Places, Held
<1> HIDE DEF Q
<1>6. CASE WorkerTop(b)
  <2>1. batch[b] = <<>> /\ live[b] = <<>> BY <1>6, Zenon DEF WorkerTop, HeldAt
  <2>2. CASE carry[b] # <<>>
    <3>1. batch'[b] = carry[b] /\ wpc'[b] = "check" /\ UNCHANGED queue /\ UNCHANGED live
      BY <1>a, <1>6, <2>2, Zenon DEF WorkerTop
    <3>2. QED BY <3>1, <2>1, <1>1, <1>4, <1>5, Zenon
  <2>3. CASE carry[b] = <<>> /\ wpc'[b] = "failFast"
    <3>1. UNCHANGED <<queue, live, batch, carry>> BY <1>a, <1>6, <2>3, Zenon DEF WorkerTop, Continue
    <3>2. QED BY <3>1, <2>3, <1>4, <1>5, Zenon
  <2>4. CASE carry[b] = <<>> /\ wpc'[b] = "check"
    <3>1. /\ queue[b] # <<>> /\ UNCHANGED live /\ UNCHANGED carry
          /\ batch'[b] = <<Head(queue[b])>> /\ queue'[b] = Tail(queue[b])
      BY <1>a, <1>6, <2>4, Zenon DEF WorkerTop, Continue
    <3>2. Q(<<Head(queue[b])>>) = {Head(queue[b])} BY <3>1, TakenType, RangeOfSmall, Zenon DEF Q
    <3>3. QED BY <3>1, <3>2, <2>1, <2>4, <1>1, <1>2, <1>4, <1>5, Zenon
  <2>5. CASE carry[b] = <<>> /\ wpc'[b] = "done"
    <3>1. queue[b] = <<>> BY <1>a, <1>6, <2>5, Zenon DEF WorkerTop, Continue
    <3>2. QED BY <3>1, <2>1, <2>5, <1>1, <1>4, Zenon
  <2>6. wpc'[b] \in {"check", "failFast", "done"} BY <1>a, <1>6, Zenon DEF WorkerTop, Continue
  <2>7. QED BY <2>2, <2>3, <2>4, <2>5, <2>6, Zenon
<1>7. CASE WorkerCheck(b)
  <2>1. carry[b] = <<>> BY <1>7, Zenon DEF WorkerCheck, HeldAt
  <2>2. CASE closed
    <3>1. SeqRange(batch[b]) \cup SeqRange(carry[b]) \subseteq SeqRange(batch[b]) BY <2>1, RangeOfSmall, Zenon
    <3>2. QED BY <1>7, <2>2, <3>1, FailFastPlaces, Zenon DEF WorkerCheck, channelVars
  <2>3. CASE ~closed
    <3>1. UNCHANGED <<queue, batch, carry, live>> /\ wpc'[b] = "drain"
      BY <1>a, <1>7, <2>3, Zenon DEF WorkerCheck, Continue, channelVars
    <3>2. QED BY <3>1, <1>4, <1>5, Zenon
  <2>4. QED BY <2>2, <2>3, Zenon
<1>8. CASE WorkerDrain(b)
  <2>1. UNCHANGED live /\ wpc'[b] \in {"drain", "drained"} BY <1>a, <1>8, Zenon DEF WorkerDrain, Continue
  <2>2. carry[b] = <<>> BY <1>8, Zenon DEF WorkerDrain, HeldAt
  <2>3. CASE UNCHANGED <<queue, batch, carry>> BY <2>1, <2>3, <1>4, <1>5, Zenon
  <2>4. CASE /\ queue[b] # <<>> /\ UNCHANGED batch
             /\ queue'[b] = Tail(queue[b]) /\ carry'[b] = <<Head(queue[b])>>
    <3>1. Q(<<Head(queue[b])>>) = {Head(queue[b])} BY <2>4, TakenType, RangeOfSmall, Zenon DEF Q
    <3>2. QED BY <3>1, <2>1, <2>2, <2>4, <1>1, <1>2, <1>4, <1>5, Zenon
  <2>5. CASE /\ queue[b] # <<>> /\ UNCHANGED carry
             /\ queue'[b] = Tail(queue[b]) /\ batch'[b] = Append(batch[b], Head(queue[b]))
    <3>1. Q(Append(batch[b], Head(queue[b]))) = {Head(queue[b])} \cup Q(batch[b])
      BY <1>0, <2>5, TakenType, RangeOfAppend, Zenon DEF Q
    <3>2. QED BY <3>1, <2>1, <2>5, <1>2, <1>4, <1>5, Zenon
  <2>6. QED BY <1>a, <1>8, <2>3, <2>4, <2>5, Zenon DEF WorkerDrain, SetAside, Continue
<1>9. CASE WorkerDrained(b)
  <2>1. CASE closed BY <1>9, <2>1, FailFastPlaces, Zenon DEF WorkerDrained, Held, channelVars
  <2>2. CASE ~closed
    <3>1. UNCHANGED <<queue, batch, carry, live>> /\ wpc'[b] = "flush"
      BY <1>a, <1>9, <2>2, Zenon DEF WorkerDrained, Continue, channelVars
    <3>2. QED BY <3>1, <1>4, <1>5, Zenon
  <2>3. QED BY <2>1, <2>2, Zenon
<1>10. CASE FlushFilter(b)
  <2>1. /\ batch[b] # <<>> /\ batch'[b] = Tail(batch[b]) /\ UNCHANGED <<queue, carry, wpc>>
        /\ wpc[b] = "flush"
        /\ live'[b] = IF ctxDone[Head(batch[b])] THEN live[b] ELSE Append(live[b], Head(batch[b]))
    BY <1>a, <1>10, Zenon DEF FlushFilter, channelVars
  <2>2. Head(batch[b]) \in Requests BY <2>1, TakenType, Zenon
  <2>3. CASE ctxDone[Head(batch[b])]
    <3>1. r # Head(batch[b]) BY <1>10, <2>3, <2>2, Zenon DEF FlushFilter, Deliver, None
    <3>2. QED BY <2>1, <2>3, <3>1, <1>3, <1>4, <1>5, Zenon
  <2>4. CASE ~ctxDone[Head(batch[b])]
    <3>1. Q(Append(live[b], Head(batch[b]))) = {Head(batch[b])} \cup Q(live[b])
      BY <1>0, <2>2, RangeOfAppend, Zenon DEF Q
    <3>2. QED BY <2>1, <2>4, <3>1, <1>3, <1>4, <1>5, Zenon
  <2>5. QED BY <2>3, <2>4, Zenon
<1>11. CASE FlushStart(b)
  <2>1. UNCHANGED <<queue, batch, carry, live>> /\ wpc'[b] \in {"flushed", "executing"}
    BY <1>a, <1>11, Zenon DEF FlushStart, channelVars
  <2>2. QED BY <2>1, <1>4, <1>5, Zenon
<1>12. CASE FlushEnd(b)
  <2>1. UNCHANGED <<queue, batch, carry>> /\ wpc'[b] = "flushed"
    BY <1>a, <1>12, Zenon DEF FlushEnd, channelVars
  <2>2. r \notin Q(live[b]) BY <1>12, Zenon DEF FlushEnd, Deliver, Completion, None, Q
  <2>3. QED BY <2>1, <2>2, <1>4, <1>5, Zenon
<1>13. CASE WorkerFlushed(b)
  <2>1. batch[b] = <<>> BY <1>13, Zenon DEF WorkerFlushed, HeldAt
  <2>2. CASE closed
    <3>1. SeqRange(batch[b]) \cup SeqRange(carry[b]) \subseteq SeqRange(carry[b]) BY <2>1, RangeOfSmall, Zenon
    <3>2. QED BY <1>13, <2>2, <3>1, FailFastPlaces, Zenon DEF WorkerFlushed, channelVars
  <2>3. CASE ~closed
    <3>1. UNCHANGED <<queue, batch, carry, live>> /\ wpc'[b] = "top"
      BY <1>a, <1>13, <2>3, Zenon DEF WorkerFlushed, Continue, channelVars
    <3>2. QED BY <3>1, <1>4, <1>5, Zenon
  <2>4. QED BY <2>2, <2>3, Zenon
<1>14. CASE WorkerFailFast(b)
  <2>1. batch[b] = <<>> /\ carry[b] = <<>> /\ live[b] = <<>> BY <1>14, Zenon DEF WorkerFailFast, HeldAt
  <2>2. r \in Q(queue[b]) BY <2>1, <1>1, <1>4, Zenon
  <2>3. queue[b] # <<>> BY <2>2, <1>1, Zenon
  <2>4. /\ Deliver({Head(queue[b])}, "ErrClosed") /\ queue'[b] = Tail(queue[b])
        /\ wpc'[b] = "failFast"
    BY <1>a, <1>14, <2>3, Zenon DEF WorkerFailFast
  <2>5. r # Head(queue[b]) BY <2>4, Zenon DEF Deliver, None
  <2>6. QED BY <2>2, <2>3, <2>4, <2>5, <1>2, <1>5, Zenon
<1>15. QED BY <1>6, <1>7, <1>8, <1>9, <1>10, <1>11, <1>12, <1>13, <1>14, Zenon DEF RunWorker

\* A call of Submit keeps every request where it is, and adds its own to a
\* queue whose worker has not ended.
LEMMA SubmitKeeps ==
    ASSUME TypeOK, ShutdownInv, WorkerInv, WaitingRequestIsOwned, NEW r \in Requests, Submit(r) \/ Cancel(r)
    PROVE  WaitingRequestIsOwned'
<1> USE ConfigAssumption
<1>1. ASSUME NEW q \in Requests, pc'[q] = "await", result'[q] = None
      PROVE  wpc'[BoundaryOf[q]] \notin {"absent", "done"} /\ q \in Places(BoundaryOf[q])'
  <2> DEFINE b == BoundaryOf[q]
  <2>1. UNCHANGED <<result, batch, live, carry>>
    BY Zenon DEF Submit, SubmitPrecheck, SubmitLock, SubmitRegister, SubmitEnqueue, SubmitAwait, Cancel, workerVars
  <2>2. CASE SubmitEnqueue(r) /\ queue' # queue
    <3>1. /\ queue' = [queue EXCEPT ![BoundaryOf[r]] = Append(@, r)] /\ pc[r] = "enqueue" /\ UNCHANGED wpc
          /\ pc' = [pc EXCEPT ![r] = "await"]
      BY <2>2, Zenon DEF SubmitEnqueue, Move, workerVars
    <3>2. CASE q = r
      <4>1. queue'[b] = Append(queue[b], r) BY <3>1, <3>2, Zenon DEF TypeOK
      <4>2. r \in SeqRange(queue'[b]) BY <4>1, RangeOfAppend DEF TypeOK
      <4>3. wpc[b] \notin {"absent", "done"} BY <3>1, <3>2, Zenon DEF WorkerInv, HeldAt, ShutdownInv, TypeOK
      <4>4. QED BY <4>2, <4>3, <3>1, <3>2, Zenon DEF Places
    <3>3. CASE q # r
      <4>1. pc[q] = "await" /\ result[q] = None BY <3>1, <3>3, <2>1, <1>1, Zenon DEF TypeOK
      <4>2. q \in Places(b) /\ wpc[b] \notin {"absent", "done"}
        BY <4>1, Zenon DEF WaitingRequestIsOwned, Places
      <4>3. SeqRange(queue[b]) \subseteq SeqRange(queue'[b])
        <5>1. queue'[b] = queue[b] \/ queue'[b] = Append(queue[b], r) BY <3>1, Zenon DEF TypeOK
        <5>2. SeqRange(Append(queue[b], r)) = {r} \cup SeqRange(queue[b])
          <6>1. queue[b] \in Seq(Requests) BY Zenon DEF TypeOK
          <6>2. QED BY <6>1, RangeOfAppend, Zenon
        <5>3. QED BY <5>1, <5>2, Zenon
      <4>4. QED BY <4>2, <4>3, <3>1, <2>1, Zenon DEF Places, Held
    <3>4. QED BY <3>2, <3>3, Zenon
  <2>3. CASE queue' = queue
    <3>1. pc[q] = "await"
      <4>1. CASE Cancel(r) BY <4>1, <1>1, Zenon DEF Cancel
      <4>2. CASE SubmitPrecheck(r) BY <4>2, <1>1, Zenon DEF SubmitPrecheck, Move, TypeOK
      <4>3. CASE SubmitLock(r) BY <4>3, <1>1, Zenon DEF SubmitLock, Move, TypeOK
      <4>4. CASE SubmitRegister(r) BY <4>4, <1>1, Zenon DEF SubmitRegister, Move, TypeOK
      <4>5. CASE SubmitEnqueue(r)
        <5>1. queue[BoundaryOf[r]] # Append(queue[BoundaryOf[r]], r)
          <6>1. queue[BoundaryOf[r]] \in Seq(Requests) BY Zenon DEF TypeOK
          <6>2. QED BY <6>1
        <5>2. pc' = [pc EXCEPT ![r] = "ctxErr"] \/ pc' = [pc EXCEPT ![r] = "ErrClosed"]
          BY <4>5, <5>1, <2>3, Zenon DEF SubmitEnqueue, Move, TypeOK
        <5>3. QED BY <5>2, <1>1, Zenon DEF TypeOK
      <4>6. CASE SubmitAwait(r)
        BY <4>6, <1>1, Zenon DEF SubmitAwait, Move, TypeOK
      <4>7. QED BY <4>1, <4>2, <4>3, <4>4, <4>5, <4>6, Zenon DEF Submit
    <3>2. q \in Places(b) /\ wpc[b] \notin {"absent", "done"}
      BY <3>1, <2>1, <1>1, Zenon DEF WaitingRequestIsOwned, Places
    <3>3. wpc'[b] \notin {"absent", "done"}
      <4>1. wpc' = wpc \/ SubmitRegister(r)
        BY Zenon DEF Submit, SubmitPrecheck, SubmitLock, SubmitEnqueue, SubmitAwait, Cancel, workerVars
      <4>2. QED BY <4>1, <3>2 DEF SubmitRegister, TypeOK
    <3>4. QED BY <2>1, <2>3, <3>2, <3>3, Zenon DEF Places, Held
  <2>4. SubmitEnqueue(r) \/ queue' = queue
    BY Zenon DEF Submit, SubmitPrecheck, SubmitLock, SubmitRegister, SubmitAwait, Cancel, channelVars
  <2>5. QED BY <2>2, <2>3, <2>4, Zenon
<1>2. QED BY <1>1, Zenon DEF WaitingRequestIsOwned, Places

\* No step forgets a request that a call waits for.
LEMMA OwnedStep ==
    TypeOK /\ ShutdownInv /\ WorkerInv /\ WaitingRequestIsOwned /\ [Next]_vars => WaitingRequestIsOwned'
<1> SUFFICES ASSUME TypeOK, ShutdownInv, WorkerInv, WaitingRequestIsOwned, [Next]_vars
             PROVE  WaitingRequestIsOwned'
  BY Zenon
<1>1. ASSUME NEW r \in Requests, Submit(r) \/ Cancel(r) PROVE WaitingRequestIsOwned'
  BY <1>1, SubmitKeeps, Zenon
<1>2. ASSUME NEW b \in Boundaries, RunWorker(b) \/ FlushEnd(b) PROVE WaitingRequestIsOwned'
  <2>1. UNCHANGED pc /\ Elsewhere(b) BY <1>2, WorkerLocal, Zenon
  <2>2. ASSUME NEW r \in Requests, pc'[r] = "await", result'[r] = None
        PROVE  wpc'[BoundaryOf[r]] \notin {"absent", "done"} /\ r \in Places(BoundaryOf[r])'
    <3>1. result[r] = None
      <4>1. UNCHANGED result \/ \E rs, v : Deliver(rs, v) BY <1>2, WorkerLocal, Zenon
      <4>2. QED BY <4>1, <2>2, Zenon DEF Deliver
    <3>2. wpc[BoundaryOf[r]] \notin {"absent", "done"} /\ r \in Places(BoundaryOf[r])
      BY <2>1, <2>2, <3>1, Zenon DEF WaitingRequestIsOwned, Places
    <3>3. CASE BoundaryOf[r] = b BY <1>2, <2>2, <3>2, <3>3, WorkerKeeps, Zenon DEF WorkerInv
    <3>4. CASE BoundaryOf[r] # b
      BY <2>1, <3>2, <3>4, ConfigAssumption, Zenon DEF Elsewhere, Places, Held
    <3>5. QED BY <3>3, <3>4, Zenon
  <2>3. QED BY <2>2, Zenon DEF WaitingRequestIsOwned, Places
<1>3. CASE CloseSignal \/ CloseStep \/ UNCHANGED vars
  <2>1. UNCHANGED <<pc, result, queue, wpc, batch, carry, live>>
    BY <1>3, Zenon DEF CloseSignal, CloseStep, CloseList, CloseQueues, CloseJoin, vars, callVars, channelVars, workerVars
  <2>2. QED BY <2>1, Zenon DEF WaitingRequestIsOwned, Held
<1>4. QED BY <1>1, <1>2, <1>3, Zenon DEF Next, Finished

\* A request that a call waits for is held by a worker that runs, or is in the
\* queue of one, until it has its completion: neither the carried request, nor
\* the shutdown, nor a panic of the executor loses one.
THEOREM WaitingIsOwned == Spec => []WaitingRequestIsOwned
<1> DEFINE Inv == TypeOK /\ ShutdownInv /\ WorkerInv /\ WaitingRequestIsOwned
<1>1. Init => Inv
  <2>1. Init => WaitingRequestIsOwned BY Zenon DEF Init, WaitingRequestIsOwned
  <2>2. QED BY <2>1, TypeInit, ShutdownInit, WorkerInit, Zenon
<1>2. Inv /\ [Next]_vars => Inv' BY TypeStep, ShutdownStep, WorkerStep, OwnedStep, Zenon
<1>3. QED BY <1>1, <1>2, PTL DEF Spec

-----------------------------------------------------------------------------
(* Completions *)

\* The completion of a request, once on its result channel, stays what it is.
THEOREM CompletionFinal == Spec => CompletionIsFinal
<1>1. ASSUME TypeOK, [Next]_vars
      PROVE  [\A r \in Requests : result[r] # None => result'[r] = result[r]]_vars
  <2>1. UNCHANGED result \/ \E rs, v : Deliver(rs, v)
    <3>1. ASSUME NEW r \in Requests, Submit(r) \/ Cancel(r) PROVE UNCHANGED result
      BY <3>1, Zenon DEF Submit, SubmitPrecheck, SubmitLock, SubmitRegister, SubmitEnqueue, SubmitAwait, Cancel
    <3>2. ASSUME NEW b \in Boundaries, RunWorker(b) \/ FlushEnd(b)
          PROVE  UNCHANGED result \/ \E rs, v : Deliver(rs, v)
      BY <1>1, <3>2, WorkerLocal, Zenon
    <3>3. CASE CloseSignal \/ CloseStep \/ UNCHANGED vars
      BY <3>3, Zenon DEF CloseSignal, CloseStep, CloseList, CloseQueues, CloseJoin, vars
    <3>4. QED BY <1>1, <3>1, <3>2, <3>3, Zenon DEF Next, Finished
  <2>2. QED BY <2>1, Zenon DEF Deliver
<1>2. QED BY <1>1, GroupCommitType, PTL DEF Spec, CompletionIsFinal

-----------------------------------------------------------------------------
(* ErrClosed *)

\* A queue holds a request once.
Distinct(s) == \A i, j \in DOMAIN s : s[i] = s[j] => i = j

\* The requests of a boundary that have not been handed to the executor.
Unexecuted(b) ==
    SeqRange(queue[b]) \cup SeqRange(batch[b]) \cup SeqRange(carry[b])
        \cup (IF wpc[b] = "executing" THEN {} ELSE SeqRange(live[b]))

\* A request is in one place at a time.
PlaceAt(b) ==
    /\ Distinct(queue[b])
    /\ SeqRange(queue[b]) \cap (SeqRange(batch[b]) \cup SeqRange(carry[b]) \cup SeqRange(live[b])) = {}
    /\ SeqRange(carry[b]) \cap (SeqRange(batch[b]) \cup SeqRange(live[b])) = {}

\* A request that was admitted waits or was answered from its completion or by
\* its context, and one that was executed is not completed with ErrClosed: only
\* a worker that has left its loop delivers that.
AdmittedAt(b) ==
    /\ \A r \in Places(b) \cup SeqRange(executed[b]) :
          BoundaryOf[r] = b /\ pc[r] \in {"await", "ctxErr", result[r]}
    /\ Unexecuted(b) \cap SeqRange(executed[b]) = {}
    /\ \A r \in SeqRange(executed[b]) : result[r] # "ErrClosed"
    /\ wpc[b] \notin {"failFast", "done"} =>
          \A r \in Requests : BoundaryOf[r] = b => result[r] # "ErrClosed"

ErrClosedInv ==
    /\ \A b \in Boundaries : PlaceAt(b) /\ AdmittedAt(b)
    /\ ErrClosedMeansNotExecuted

\* A queue stays free of repetitions when its head is taken off.
LEMMA DistinctTail ==
    ASSUME NEW S, NEW s \in Seq(S), s # <<>>, Distinct(s)
    PROVE  Distinct(Tail(s)) /\ Head(s) \notin SeqRange(Tail(s))
<1>1. DOMAIN s = 1 .. Len(s) /\ Len(s) \in Nat /\ Len(s) > 0 /\ Head(s) = s[1] OBVIOUS
<1>2. DOMAIN Tail(s) = 1 .. Len(s)-1 /\ \A i \in 1 .. Len(s)-1 : Tail(s)[i] = s[i+1] OBVIOUS
<1>3. ASSUME NEW i \in DOMAIN Tail(s), NEW j \in DOMAIN Tail(s), Tail(s)[i] = Tail(s)[j] PROVE i = j
  <2>1. i + 1 \in DOMAIN s /\ j + 1 \in DOMAIN s /\ s[i+1] = s[j+1] BY <1>1, <1>2, <1>3
  <2>2. i + 1 = j + 1 BY <2>1, Zenon DEF Distinct
  <2>3. QED BY <2>2, <1>1, <1>2
<1>4. ASSUME NEW i \in DOMAIN Tail(s), Tail(s)[i] = Head(s) PROVE FALSE
  <2>1. i + 1 \in DOMAIN s /\ 1 \in DOMAIN s /\ s[i+1] = s[1] BY <1>1, <1>2, <1>4
  <2>2. i + 1 = 1 BY <2>1, Zenon DEF Distinct
  <2>3. QED BY <2>2, <1>1, <1>2
<1>5. QED BY <1>3, <1>4, Zenon DEF Distinct, SeqRange

\* A queue stays free of repetitions when a request it does not hold joins.
LEMMA DistinctAppend ==
    ASSUME NEW S, NEW s \in Seq(S), NEW x \in S, x \notin SeqRange(s), Distinct(s)
    PROVE  Distinct(Append(s, x))
<1> DEFINE t == Append(s, x)
<1>1. DOMAIN s = 1 .. Len(s) /\ Len(s) \in Nat OBVIOUS
<1>2. DOMAIN t = 1 .. Len(s)+1 /\ t[Len(s)+1] = x /\ \A i \in 1 .. Len(s) : t[i] = s[i] OBVIOUS
<1> HIDE DEF t
<1>3. ASSUME NEW i \in DOMAIN t, NEW j \in DOMAIN t, t[i] = t[j] PROVE i = j
  <2>1. CASE i \in DOMAIN s /\ j \in DOMAIN s BY <2>1, <1>1, <1>2, <1>3, Zenon DEF Distinct
  <2>2. CASE i = Len(s)+1 /\ j \in DOMAIN s BY <2>2, <1>1, <1>2, <1>3, Zenon DEF SeqRange
  <2>3. CASE j = Len(s)+1 /\ i \in DOMAIN s BY <2>3, <1>1, <1>2, <1>3, Zenon DEF SeqRange
  <2>4. QED BY <2>1, <2>2, <2>3, <1>1, <1>2
<1>4. QED BY <1>3, Zenon DEF Distinct, t

\* A request left out of a flush has the error of its context.
DroppedInv == \A b \in Boundaries : \A r \in dropped[b] : result[r] # None

\* No flush has left anything out at first.
LEMMA DroppedInit == Init => DroppedInv
BY Zenon DEF Init, DroppedInv

\* A request is left out of a flush only when it is answered.
LEMMA DroppedStep == TypeOK /\ DroppedInv /\ [Next]_vars => DroppedInv'
<1> SUFFICES ASSUME TypeOK, DroppedInv, [Next]_vars PROVE DroppedInv'
  BY Zenon
<1>1. ASSUME NEW r \in Requests, Submit(r) \/ Cancel(r) PROVE UNCHANGED <<result, dropped>>
  BY <1>1, Zenon DEF Submit, SubmitPrecheck, SubmitLock, SubmitRegister, SubmitEnqueue, SubmitAwait, Cancel,
                     workerVars
<1>2. ASSUME NEW b \in Boundaries, RunWorker(b) \/ FlushEnd(b) PROVE DroppedInv'
  <2>1. Elsewhere(b) /\ (UNCHANGED result \/ \E rs, v : Deliver(rs, v)) BY <1>2, WorkerLocal, Zenon
  <2>2. \A r \in Requests : result[r] # None => result'[r] # None BY <2>1, Zenon DEF Deliver
  <2>3. ASSUME NEW r \in dropped'[b] PROVE result'[r] # None
    <3>1. dropped[b] \subseteq Requests BY Zenon DEF TypeOK
    <3>2. CASE r \in dropped[b] BY <3>1, <3>2, <2>2, Zenon DEF DroppedInv
    <3>3. CASE r \notin dropped[b]
      <4>1. FlushFilter(b) \/ UNCHANGED dropped \/ dropped'[b] \in {dropped[b], {}}
        <5>1. CASE FlushStart(b) BY <5>1, Zenon DEF FlushStart, TypeOK
        <5>2. CASE FlushEnd(b) BY <5>2, Zenon DEF FlushEnd, TypeOK
        <5>3. CASE WorkerTop(b) \/ WorkerDrain(b) \/ WorkerFailFast(b)
          BY <5>3, Zenon DEF WorkerTop, WorkerDrain, WorkerFailFast, Continue
        <5>4. CASE WorkerCheck(b) \/ WorkerDrained(b) \/ WorkerFlushed(b)
          BY <5>4, Zenon DEF WorkerCheck, WorkerDrained, WorkerFlushed, FailFastAfter, Continue
        <5>5. QED BY <1>2, <5>1, <5>2, <5>3, <5>4, Zenon DEF RunWorker
      <4>2. FlushFilter(b) BY <2>3, <3>3, <4>1, Zenon
      <4>3. r = Head(batch[b]) /\ ctxDone[r] BY <2>3, <3>3, <4>2, Zenon DEF FlushFilter, TypeOK
      <4>4. r \in Requests BY <4>2, <4>3, TakenType, Zenon DEF FlushFilter
      <4>5. QED BY <4>2, <4>3, <4>4, Zenon DEF FlushFilter, Deliver, None
    <3>4. QED BY <3>2, <3>3, Zenon
  <2>4. ASSUME NEW c \in Boundaries, c # b, NEW r \in dropped'[c] PROVE result'[r] # None
    <3>1. r \in dropped[c] /\ dropped[c] \subseteq Requests BY <2>1, <2>4, Zenon DEF Elsewhere, TypeOK
    <3>2. QED BY <3>1, <2>2, Zenon DEF DroppedInv
  <2>5. QED BY <2>3, <2>4, Zenon DEF DroppedInv
<1>3. CASE CloseSignal \/ CloseStep \/ UNCHANGED vars
  <2>1. UNCHANGED <<result, dropped>>
    BY <1>3, Zenon DEF CloseSignal, CloseStep, CloseList, CloseQueues, CloseJoin, vars, workerVars
  <2>2. QED BY <2>1, Zenon DEF DroppedInv
<1>4. QED BY <1>1, <1>2, <1>3, Zenon DEF DroppedInv, Next, Finished

\* What a worker delivers goes to requests it holds, and ErrClosed goes to
\* requests that were not executed, when the worker has left its loop.
LEMMA WorkerDelivers ==
    ASSUME TypeOK, DroppedInv, NEW b \in Boundaries, HeldAt(b), RunWorker(b) \/ FlushEnd(b)
    PROVE  \/ UNCHANGED result
           \/ \E rs \in SUBSET Places(b), v \in Outcomes :
                 /\ Deliver(rs, v)
                 /\ v = "ErrClosed" =>
                       rs \subseteq Unexecuted(b) /\ wpc'[b] = "failFast" /\ UNCHANGED executed
<1> DEFINE Delivers(rs, v) ==
        /\ Deliver(rs, v)
        /\ v = "ErrClosed" => rs \subseteq Unexecuted(b) /\ wpc'[b] = "failFast" /\ UNCHANGED executed
<1>1. CASE WorkerTop(b) \/ WorkerDrain(b) \/ FlushStart(b)
  BY <1>1, Zenon DEF WorkerTop, WorkerDrain, FlushStart, Continue
<1>2. ASSUME NEW rs \in SUBSET Held(b), FailFastAfter(b, rs), UNCHANGED storeVars
      PROVE  \E ss \in SUBSET Places(b), v \in Outcomes : Delivers(ss, v)
  <2>1. rs \in SUBSET Places(b) /\ "ErrClosed" \in Outcomes BY Zenon DEF Places, Outcomes
  <2>2. Delivers(rs, "ErrClosed")
    BY <1>2, Zenon DEF FailFastAfter, Unexecuted, Held, TypeOK, storeVars
  <2>3. QED BY <2>1, <2>2, Zenon
<1>3. CASE WorkerCheck(b) \/ WorkerDrained(b) \/ WorkerFlushed(b)
  <2>1. SeqRange(batch[b]) \in SUBSET Held(b) /\ SeqRange(carry[b]) \in SUBSET Held(b) /\ Held(b) \in SUBSET Held(b)
    BY Zenon DEF Held
  <2>2. CASE closed
    <3>1. (\E rs \in SUBSET Held(b) : FailFastAfter(b, rs)) /\ UNCHANGED storeVars
      BY <1>3, <2>1, <2>2, Zenon DEF WorkerCheck, WorkerDrained, WorkerFlushed
    <3>2. QED BY <3>1, <1>2, Zenon
  <2>3. CASE ~closed BY <1>3, <2>3, Zenon DEF WorkerCheck, WorkerDrained, WorkerFlushed, Continue
  <2>4. QED BY <2>2, <2>3, Zenon
<1>4. CASE FlushFilter(b)
  <2> DEFINE rs == {Head(batch[b])} \cap {x \in Requests : ctxDone[x]}
  <2>1. Head(batch[b]) \in SeqRange(batch[b]) BY <1>4, RangeOfTail DEF FlushFilter, TypeOK
  <2>2. rs \in SUBSET Places(b) BY <2>1, Zenon DEF Places, Held
  <2>3. Delivers(rs, "ctxErr") BY <1>4, Zenon DEF FlushFilter
  <2>4. "ctxErr" \in Outcomes BY Zenon DEF Outcomes
  <2> HIDE DEF rs, Delivers
  <2>5. \E ss \in SUBSET Places(b), v \in Outcomes : Delivers(ss, v) BY <2>2, <2>3, <2>4, Zenon
  <2>6. QED BY <2>5, Zenon DEF Delivers
<1>5. CASE FlushEnd(b)
  <2>1. PICK v \in {"outcome", "flushError"} : Deliver(SeqRange(live[b]), v)
    <3>1. PICK v \in {"outcome", "flushError"}, ds \in SUBSET dropped[b] : Deliver(SeqRange(live[b]) \cup ds, v)
      BY <1>5, Zenon DEF FlushEnd, Completion
    <3>2. \A r \in ds : result[r] # None BY Zenon DEF DroppedInv
    <3>3. Deliver(SeqRange(live[b]), v) BY <3>1, <3>2, Zenon DEF Deliver
    <3>4. QED BY <3>3, Zenon
  <2>2. SeqRange(live[b]) \in SUBSET Places(b) /\ v \in Outcomes BY Zenon DEF Places, Outcomes
  <2>3. Delivers(SeqRange(live[b]), v) BY <2>1, Zenon
  <2>4. QED BY <2>2, <2>3, Zenon
<1>6. CASE WorkerFailFast(b)
  <2>1. CASE queue[b] = <<>> BY <1>6, <2>1, Zenon DEF WorkerFailFast, Continue
  <2>2. CASE queue[b] # <<>>
    <3>1. Head(queue[b]) \in SeqRange(queue[b]) BY <2>2, RangeOfTail DEF TypeOK
    <3>2. {Head(queue[b])} \in SUBSET Places(b) /\ {Head(queue[b])} \subseteq Unexecuted(b)
      BY <3>1, Zenon DEF Places, Unexecuted
    <3>3. Deliver({Head(queue[b])}, "ErrClosed") /\ wpc'[b] = "failFast" /\ UNCHANGED executed
      BY <1>6, <2>2, Zenon DEF WorkerFailFast, storeVars
    <3>4. "ErrClosed" \in Outcomes BY Zenon DEF Outcomes
    <3>5. QED BY <3>2, <3>3, <3>4, Zenon
  <2>3. QED BY <2>1, <2>2, Zenon
<1>7. QED BY <1>1, <1>3, <1>4, <1>5, <1>6, Zenon DEF RunWorker

\* A step of a worker moves requests from one place to the next, and hands to
\* the executor only what it has set apart for it.
LEMMA WorkerMoves ==
    ASSUME TypeOK, NEW b \in Boundaries, HeldAt(b), PlaceAt(b), RunWorker(b) \/ FlushEnd(b),
           Unexecuted(b) \cap SeqRange(executed[b]) = {}
    PROVE  /\ PlaceAt(b)'
           /\ Places(b)' \subseteq Places(b)
           /\ Unexecuted(b)' \cap SeqRange(executed'[b]) = {}
           /\ \/ executed'[b] = executed[b]
              \/ wpc[b] = "flush" /\ SeqRange(executed'[b]) = SeqRange(executed[b]) \cup SeqRange(live[b])
<1> DEFINE Q(s) == SeqRange(s)
           Unrun(w, q, t, c, l) == q \cup t \cup c \cup (IF w = "executing" THEN {} ELSE l)
           Apart(q, t, c, l) == q \cap (t \cup c \cup l) = {} /\ c \cap (t \cup l) = {}
<1>0. /\ queue[b] \in Seq(Requests) /\ batch[b] \in Seq(Requests) /\ live[b] \in Seq(Requests)
      /\ carry[b] \in Seq(Requests) /\ executed[b] \in Seq(Requests)
  BY Zenon DEF TypeOK
<1>1. Q(<<>>) = {} BY RangeOfSmall, Zenon
<1>2. queue[b] # <<>> =>
        /\ Q(queue[b]) = {Head(queue[b])} \cup Q(Tail(queue[b]))
        /\ Q(<<Head(queue[b])>>) = {Head(queue[b])}
        /\ Distinct(Tail(queue[b])) /\ Head(queue[b]) \notin Q(Tail(queue[b]))
  <2>1. SUFFICES ASSUME queue[b] # <<>>
                 PROVE  /\ Q(queue[b]) = {Head(queue[b])} \cup Q(Tail(queue[b]))
                        /\ Q(<<Head(queue[b])>>) = {Head(queue[b])}
                        /\ Distinct(Tail(queue[b])) /\ Head(queue[b]) \notin Q(Tail(queue[b]))
    BY Zenon
  <2>2. Q(queue[b]) = {Head(queue[b])} \cup Q(Tail(queue[b])) BY <1>0, <2>1, RangeOfTail, Zenon
  <2>3. Q(<<Head(queue[b])>>) = {Head(queue[b])} BY <2>1, TakenType, RangeOfSmall, Zenon
  <2>4. Distinct(Tail(queue[b])) /\ Head(queue[b]) \notin Q(Tail(queue[b]))
    BY <1>0, <2>1, DistinctTail, Zenon DEF PlaceAt
  <2>5. QED BY <2>2, <2>3, <2>4, Zenon
<1>3. batch[b] # <<>> =>
        /\ Q(batch[b]) = {Head(batch[b])} \cup Q(Tail(batch[b]))
        /\ Q(Append(live[b], Head(batch[b]))) = {Head(batch[b])} \cup Q(live[b])
  <2>1. ASSUME batch[b] # <<>> PROVE Q(batch[b]) = {Head(batch[b])} \cup Q(Tail(batch[b]))
    BY <1>0, <2>1, RangeOfTail, Zenon
  <2>2. ASSUME batch[b] # <<>> PROVE Q(Append(live[b], Head(batch[b]))) = {Head(batch[b])} \cup Q(live[b])
    <3>1. Head(batch[b]) \in Requests BY <2>2, TakenType, Zenon
    <3>2. QED BY <1>0, <3>1, RangeOfAppend, Zenon
  <2>3. QED BY <2>1, <2>2, Zenon
<1>4. queue[b] # <<>> => Q(Append(batch[b], Head(queue[b]))) = {Head(queue[b])} \cup Q(batch[b])
  BY <1>0, RangeOfAppend, TakenType, Zenon
<1>5. Distinct(queue[b]) /\ Apart(Q(queue[b]), Q(batch[b]), Q(carry[b]), Q(live[b])) BY Zenon DEF PlaceAt
<1>6. Unrun(wpc[b], Q(queue[b]), Q(batch[b]), Q(carry[b]), Q(live[b])) \cap Q(executed[b]) = {}
  BY Zenon DEF Unexecuted
<1>7. SUFFICES
        /\ Distinct(queue'[b]) /\ Apart(Q(queue'[b]), Q(batch'[b]), Q(carry'[b]), Q(live'[b]))
        /\ Q(queue'[b]) \cup Q(batch'[b]) \cup Q(carry'[b]) \cup Q(live'[b])
             \subseteq Q(queue[b]) \cup Q(batch[b]) \cup Q(carry[b]) \cup Q(live[b])
        /\ Unrun(wpc'[b], Q(queue'[b]), Q(batch'[b]), Q(carry'[b]), Q(live'[b])) \cap Q(executed'[b]) = {}
        /\ \/ executed'[b] = executed[b]
           \/ wpc[b] = "flush" /\ Q(executed'[b]) = Q(executed[b]) \cup Q(live[b])
  BY Zenon DEF PlaceAt, Places, Held, Unexecuted
<1> HIDE DEF Q
<1>8. CASE WorkerTop(b)
  <2>1. batch[b] = <<>> /\ live[b] = <<>> BY <1>8, Zenon DEF WorkerTop, HeldAt
  <2>2. UNCHANGED <<live, executed>> /\ wpc[b] = "top" BY <1>8, Zenon DEF WorkerTop, Continue, storeVars
  <2>3. CASE carry[b] # <<>>
    <3>1. batch'[b] = carry[b] /\ carry'[b] = <<>> /\ wpc'[b] = "check" /\ UNCHANGED queue
      BY <1>8, <2>3, Zenon DEF WorkerTop, TypeOK
    <3>2. QED BY <3>1, <2>1, <2>2, <1>1, <1>5, <1>6, Zenon
  <2>4. CASE carry[b] = <<>> /\ wpc'[b] \in {"failFast", "done"}
    <3>1. UNCHANGED <<queue, batch, carry>> BY <1>8, <2>4, Zenon DEF WorkerTop, Continue, TypeOK
    <3>2. QED BY <3>1, <2>1, <2>2, <2>4, <1>1, <1>5, <1>6, Zenon
  <2>5. CASE carry[b] = <<>> /\ wpc'[b] = "check"
    <3>1. /\ queue[b] # <<>> /\ UNCHANGED carry
          /\ batch'[b] = <<Head(queue[b])>> /\ queue'[b] = Tail(queue[b])
      BY <1>8, <2>5, Zenon DEF WorkerTop, Continue, TypeOK
    <3>2. QED BY <3>1, <2>1, <2>2, <2>5, <1>1, <1>2, <1>5, <1>6
  <2>6. wpc'[b] \in {"check", "failFast", "done"} BY <1>8, Zenon DEF WorkerTop, Continue, TypeOK
  <2>7. QED BY <2>3, <2>4, <2>5, <2>6, Zenon
<1>9. CASE WorkerDrain(b)
  <2>1. UNCHANGED <<live, executed>> /\ wpc'[b] \in {"drain", "drained"} /\ wpc[b] = "drain"
    BY <1>9, Zenon DEF WorkerDrain, Continue, TypeOK, storeVars
  <2>2. carry[b] = <<>> /\ live[b] = <<>> BY <1>9, Zenon DEF WorkerDrain, HeldAt
  <2>3. CASE UNCHANGED <<queue, batch, carry>> BY <2>1, <2>2, <2>3, <1>1, <1>5, <1>6, Zenon
  <2>4. CASE /\ queue[b] # <<>> /\ UNCHANGED batch
             /\ queue'[b] = Tail(queue[b]) /\ carry'[b] = <<Head(queue[b])>>
    BY <2>1, <2>2, <2>4, <1>1, <1>2, <1>5, <1>6
  <2>5. CASE /\ queue[b] # <<>> /\ UNCHANGED carry
             /\ queue'[b] = Tail(queue[b]) /\ batch'[b] = Append(batch[b], Head(queue[b]))
    BY <2>1, <2>2, <2>5, <1>1, <1>2, <1>4, <1>5, <1>6
  <2>6. QED BY <1>9, <2>3, <2>4, <2>5, Zenon DEF WorkerDrain, SetAside, Continue, TypeOK
<1>10. CASE WorkerCheck(b) \/ WorkerDrained(b) \/ WorkerFlushed(b)
  <2>1. UNCHANGED <<queue, live, executed>> /\ wpc[b] \in {"check", "drained", "flushed"}
    BY <1>10, Zenon DEF WorkerCheck, WorkerDrained, WorkerFlushed, FailFastAfter, Continue, channelVars, storeVars
  <2>2. live[b] = <<>> BY <2>1, Zenon DEF HeldAt
  <2>3. CASE closed
    <3>1. batch'[b] = <<>> /\ carry'[b] = <<>>
      BY <1>10, <2>3, Zenon DEF WorkerCheck, WorkerDrained, WorkerFlushed, FailFastAfter, TypeOK
    <3>2. QED BY <3>1, <2>1, <2>2, <1>1, <1>5, <1>6, Zenon
  <2>4. CASE ~closed
    <3>1. UNCHANGED <<batch, carry>>
      BY <1>10, <2>4, Zenon DEF WorkerCheck, WorkerDrained, WorkerFlushed, Continue
    <3>2. QED BY <3>1, <2>1, <2>2, <1>1, <1>5, <1>6, Zenon
  <2>5. QED BY <2>3, <2>4, Zenon
<1>11. CASE FlushFilter(b)
  <2>1. /\ batch[b] # <<>> /\ batch'[b] = Tail(batch[b]) /\ UNCHANGED <<queue, carry, wpc, executed>>
        /\ wpc[b] = "flush"
        /\ live'[b] = live[b] \/ live'[b] = Append(live[b], Head(batch[b]))
    BY <1>11, Zenon DEF FlushFilter, channelVars, storeVars, TypeOK
  <2>2. QED BY <2>1, <1>3, <1>5, <1>6, Zenon
<1>12. CASE FlushStart(b)
  <2>1. /\ UNCHANGED <<queue, batch, carry, live>> /\ batch[b] = <<>> /\ wpc[b] = "flush"
        /\ wpc'[b] = (IF live[b] = <<>> THEN "flushed" ELSE "executing")
        /\ executed'[b] = executed[b] \o live[b]
    BY <1>12, Zenon DEF FlushStart, channelVars, TypeOK
  <2>2. Q(executed'[b]) = Q(executed[b]) \cup Q(live[b])
    <3>1. SeqRange(executed[b] \o live[b]) = SeqRange(executed[b]) \cup SeqRange(live[b])
      BY <1>0, RangeOfConcat
    <3>2. QED BY <2>1, <3>1, Zenon DEF Q
  <2>3. CASE live[b] = <<>> BY <2>1, <2>2, <2>3, <1>1, <1>5, <1>6, Zenon
  <2>4. CASE live[b] # <<>> BY <2>1, <2>2, <2>4, <1>1, <1>5, <1>6, Zenon
  <2>5. QED BY <2>3, <2>4, Zenon
<1>13. CASE FlushEnd(b)
  <2>1. UNCHANGED <<queue, batch, carry, executed>> /\ live'[b] = <<>> /\ wpc'[b] = "flushed"
    BY <1>13, Zenon DEF FlushEnd, channelVars, TypeOK
  <2>2. QED BY <2>1, <1>1, <1>5, <1>6, Zenon
<1>14. CASE WorkerFailFast(b)
  <2>1. UNCHANGED <<batch, carry, live, executed>> /\ wpc[b] = "failFast" /\ wpc'[b] \in {"failFast", "done"}
    BY <1>14, Zenon DEF WorkerFailFast, Continue, storeVars, TypeOK
  <2>2. queue'[b] = queue[b] \/ (queue[b] # <<>> /\ queue'[b] = Tail(queue[b]))
    BY <1>14, Zenon DEF WorkerFailFast, TypeOK
  <2>3. QED BY <2>1, <2>2, <1>2, <1>5, <1>6, Zenon
<1>15. QED BY <1>8, <1>9, <1>10, <1>11, <1>12, <1>13, <1>14, Zenon DEF RunWorker

\* A step of a worker keeps ErrClosed apart from execution.
LEMMA ErrClosedWorker ==
    ASSUME TypeOK, WorkerInv, DroppedInv, ErrClosedInv, NEW b \in Boundaries, RunWorker(b) \/ FlushEnd(b)
    PROVE  ErrClosedInv'
<1> USE ConfigAssumption
<1>1. HeldAt(b) /\ PlaceAt(b) /\ AdmittedAt(b) BY Zenon DEF WorkerInv, ErrClosedInv
<1>2. UNCHANGED pc /\ Elsewhere(b) BY WorkerLocal, Zenon
<1>3. /\ PlaceAt(b)' /\ Places(b)' \subseteq Places(b)
      /\ Unexecuted(b)' \cap SeqRange(executed'[b]) = {}
      /\ \/ executed'[b] = executed[b]
         \/ wpc[b] = "flush" /\ SeqRange(executed'[b]) = SeqRange(executed[b]) \cup SeqRange(live[b])
  BY <1>1, WorkerMoves, Zenon DEF AdmittedAt
<1>4. \/ UNCHANGED result
      \/ \E rs \in SUBSET Places(b), v \in Outcomes :
            /\ Deliver(rs, v)
            /\ v = "ErrClosed" => rs \subseteq Unexecuted(b) /\ wpc'[b] = "failFast" /\ UNCHANGED executed
  BY <1>1, WorkerDelivers, Zenon
<1>5. /\ Places(b) \subseteq Requests /\ SeqRange(executed[b]) \subseteq Requests
      /\ SeqRange(live[b]) \subseteq Places(b)
  BY RangeIsTyped, Zenon DEF Places, Held, TypeOK
<1>6. \A r \in Requests : result'[r] # result[r] => r \in Places(b) /\ result[r] = None
  BY <1>4, Zenon DEF Deliver
<1>7. \A r \in Requests : result'[r] = "ErrClosed" /\ result[r] # "ErrClosed" =>
         r \in Unexecuted(b) /\ wpc'[b] = "failFast" /\ UNCHANGED executed
  BY <1>4, Zenon DEF Deliver
<1>8. wpc[b] \in {"failFast", "done"} => wpc'[b] \in {"failFast", "done"}
  BY Zenon DEF RunWorker, WorkerTop, WorkerCheck, WorkerDrain, WorkerDrained, FlushFilter, FlushStart, FlushEnd,
         WorkerFlushed, WorkerFailFast, Continue, TypeOK
<1>9. AdmittedAt(b)'
  <2>1. ASSUME NEW r \in Places(b)' \cup SeqRange(executed'[b])
        PROVE  r \in Requests /\ BoundaryOf[r] = b /\ pc'[r] \in {"await", "ctxErr", result'[r]}
    <3>1. r \in Places(b) \cup SeqRange(executed[b]) BY <1>3, <1>5, Zenon
    <3>2. r \in Requests /\ BoundaryOf[r] = b /\ pc[r] \in {"await", "ctxErr", result[r]}
      BY <3>1, <1>1, <1>5, Zenon DEF AdmittedAt
    <3>3. pc[r] # None BY <3>2, Zenon DEF TypeOK, None, Outcomes
    <3>4. QED BY <3>2, <3>3, <1>2, <1>6, Zenon
  <2>2. wpc'[b] \notin {"failFast", "done"} => \A r \in Requests : BoundaryOf[r] = b => result'[r] # "ErrClosed"
    BY <1>1, <1>7, <1>8, Zenon DEF AdmittedAt
  <2>3. ASSUME NEW r \in SeqRange(executed'[b]) PROVE result'[r] # "ErrClosed"
    <3>1. r \in Requests /\ BoundaryOf[r] = b BY <2>1, Zenon
    <3>2. result[r] # "ErrClosed"
      <4>1. CASE executed'[b] = executed[b] BY <4>1, <1>1, Zenon DEF AdmittedAt
      <4>2. CASE wpc[b] = "flush" BY <4>2, <3>1, <1>1, Zenon DEF AdmittedAt
      <4>3. QED BY <4>1, <4>2, <1>3, Zenon
    <3>3. QED BY <3>1, <3>2, <1>1, <1>7, Zenon DEF AdmittedAt
  <2>4. QED BY <2>1, <2>2, <2>3, <1>3, Zenon DEF AdmittedAt
<1>10. ASSUME NEW c \in Boundaries, c # b PROVE PlaceAt(c)' /\ AdmittedAt(c)'
  <2>1. /\ wpc'[c] = wpc[c] /\ queue'[c] = queue[c] /\ batch'[c] = batch[c]
        /\ live'[c] = live[c] /\ carry'[c] = carry[c] /\ executed'[c] = executed[c]
    BY <1>2, <1>10, Zenon DEF Elsewhere
  <2>2. Places(c) \subseteq Requests /\ SeqRange(executed[c]) \subseteq Requests
    BY RangeIsTyped, Zenon DEF Places, Held, TypeOK
  <2>3. \A r \in Requests : BoundaryOf[r] = c => result'[r] = result[r]
    BY <1>1, <1>6, <1>10, Zenon DEF AdmittedAt
  <2>4. PlaceAt(c) /\ AdmittedAt(c) BY Zenon DEF ErrClosedInv
  <2>5. PlaceAt(c)' BY <2>1, <2>4, Zenon DEF PlaceAt
  <2>6. Places(c)' = Places(c) /\ Unexecuted(c)' = Unexecuted(c) BY <2>1, Zenon DEF Places, Held, Unexecuted
  <2>7. AdmittedAt(c)'
    <3>1. ASSUME NEW r \in Places(c)' \cup SeqRange(executed'[c])
          PROVE  BoundaryOf[r] = c /\ pc'[r] \in {"await", "ctxErr", result'[r]}
      BY <2>1, <2>2, <2>3, <2>4, <2>6, <1>2, Zenon DEF AdmittedAt
    <3>2. Unexecuted(c)' \cap SeqRange(executed'[c]) = {} BY <2>1, <2>4, <2>6, Zenon DEF AdmittedAt
    <3>3. ASSUME NEW r \in SeqRange(executed'[c]) PROVE result'[r] # "ErrClosed"
      BY <2>1, <2>2, <2>3, <2>4, Zenon DEF AdmittedAt
    <3>4. wpc'[c] \notin {"failFast", "done"} => \A r \in Requests : BoundaryOf[r] = c => result'[r] # "ErrClosed"
      BY <2>1, <2>3, <2>4, Zenon DEF AdmittedAt
    <3>5. QED BY <3>1, <3>2, <3>3, <3>4, Zenon DEF AdmittedAt
  <2>8. QED BY <2>5, <2>7, Zenon
<1>11. ErrClosedMeansNotExecuted'
  <2>1. ASSUME NEW r \in Requests, pc'[r] = "ErrClosed" PROVE r \notin SeqRange(executed'[BoundaryOf[r]])
    <3>1. pc[r] = "ErrClosed" /\ r \notin SeqRange(executed[BoundaryOf[r]])
      BY <1>2, <2>1, Zenon DEF ErrClosedInv, ErrClosedMeansNotExecuted
    <3>2. CASE BoundaryOf[r] = b
      <4>1. SUFFICES ASSUME r \in SeqRange(executed'[b]) PROVE FALSE BY <3>2, Zenon
      <4>2. wpc[b] = "flush" /\ r \in SeqRange(live[b]) BY <1>3, <3>1, <3>2, <4>1, Zenon
      <4>3. result[r] = "ErrClosed" BY <4>2, <3>1, <1>1, <1>5, Zenon DEF AdmittedAt
      <4>4. QED BY <4>2, <4>3, <3>2, <1>1, Zenon DEF AdmittedAt
    <3>3. CASE BoundaryOf[r] # b BY <3>1, <3>3, <1>2, Zenon DEF Elsewhere
    <3>4. QED BY <3>2, <3>3, Zenon
  <2>2. QED BY <2>1, Zenon DEF ErrClosedMeansNotExecuted
<1>12. QED BY <1>3, <1>9, <1>10, <1>11, Zenon DEF ErrClosedInv

\* A call of Submit that moves to a new label keeps ErrClosed apart from
\* execution: a request whose call is not waiting was not admitted.
LEMMA ErrClosedMove ==
    ASSUME TypeOK, ErrClosedInv, NEW r \in Requests, NEW label, Move(r, label),
           UNCHANGED <<result, queue, batch, carry, live, executed>>,
           \A b \in Boundaries : wpc'[b] = wpc[b] \/ (wpc[b] = "absent" /\ wpc'[b] = "top"),
           pc[r] \in {"idle", "lock", "register", "enqueue"} \/ (pc[r] = "await" /\ label \in {"ctxErr", result[r]})
    PROVE  ErrClosedInv'
<1> USE ConfigAssumption
<1>1. ASSUME NEW b \in Boundaries PROVE PlaceAt(b)' /\ AdmittedAt(b)'
  <2>1. PlaceAt(b) /\ AdmittedAt(b) BY Zenon DEF ErrClosedInv
  <2>2. PlaceAt(b)' BY <2>1, Zenon DEF PlaceAt
  <2>3. Places(b)' = Places(b) /\ Unexecuted(b)' = Unexecuted(b) BY Zenon DEF Places, Held, Unexecuted
  <2>4. Places(b) \cup SeqRange(executed[b]) \subseteq Requests BY RangeIsTyped, Zenon DEF Places, Held, TypeOK
  <2>5. ASSUME NEW q \in Places(b) \cup SeqRange(executed[b])
        PROVE  BoundaryOf[q] = b /\ pc'[q] \in {"await", "ctxErr", result'[q]}
    <3>1. q \in Requests /\ BoundaryOf[q] = b /\ pc[q] \in {"await", "ctxErr", result[q]}
      BY <2>1, <2>4, Zenon DEF AdmittedAt
    <3>2. result[q] \in Outcomes \cup {None} BY <3>1, Zenon DEF TypeOK
    <3>3. pc[q] \notin {"idle", "lock", "register", "enqueue"} BY <3>1, <3>2, Zenon DEF Outcomes, None
    <3>4. CASE q = r BY <3>1, <3>3, <3>4, Zenon DEF Move, TypeOK
    <3>5. CASE q # r BY <3>1, <3>5, Zenon DEF Move, TypeOK
    <3>6. QED BY <3>4, <3>5, Zenon
  <2>6. AdmittedAt(b)' BY <2>1, <2>3, <2>5, Zenon DEF AdmittedAt
  <2>7. QED BY <2>2, <2>6, Zenon
<1>2. ASSUME NEW q \in Requests, pc'[q] = "ErrClosed" PROVE q \notin SeqRange(executed'[BoundaryOf[q]])
  <2>1. AdmittedAt(BoundaryOf[q]) BY Zenon DEF ErrClosedInv
  <2>2. CASE q = r
    <3>1. SUFFICES ASSUME r \in SeqRange(executed[BoundaryOf[r]]) PROVE FALSE BY <2>2, Zenon
    <3>2. pc[r] \in {"await", "ctxErr", result[r]} /\ result[r] # "ErrClosed" BY <2>1, <2>2, <3>1, Zenon DEF AdmittedAt
    <3>3. result[r] \in Outcomes \cup {None} BY Zenon DEF TypeOK
    <3>4. label = "ErrClosed" BY <1>2, <2>2, Zenon DEF Move, TypeOK
    <3>5. QED BY <3>2, <3>3, <3>4, Zenon DEF Outcomes, None
  <2>3. CASE q # r BY <1>2, <2>3, Zenon DEF Move, TypeOK, ErrClosedInv, ErrClosedMeansNotExecuted
  <2>4. QED BY <2>2, <2>3, Zenon
<1>3. QED BY <1>1, <1>2, Zenon DEF ErrClosedInv, ErrClosedMeansNotExecuted

\* A request that joins its queue is new to its boundary.
LEMMA ErrClosedEnqueue ==
    ASSUME TypeOK, ShutdownInv, WorkerInv, ErrClosedInv, NEW r \in Requests, pc[r] = "enqueue", Move(r, "await"),
           queue' = [queue EXCEPT ![BoundaryOf[r]] = Append(@, r)],
           UNCHANGED <<result, workerVars, executed>>
    PROVE  ErrClosedInv'
<1> USE ConfigAssumption
<1>1. ASSUME NEW b \in Boundaries PROVE PlaceAt(b)' /\ AdmittedAt(b)'
  <2>1. PlaceAt(b) /\ AdmittedAt(b) BY Zenon DEF ErrClosedInv
  <2>2. UNCHANGED <<wpc, batch, carry, live>> BY Zenon DEF workerVars
  <2>3. r \notin Places(b) \cup SeqRange(executed[b])
    <3>1. result[r] \in Outcomes \cup {None} BY Zenon DEF TypeOK
    <3>2. QED BY <2>1, <3>1, Zenon DEF AdmittedAt, Outcomes, None
  <2>4. r \notin Unexecuted(b) BY <2>3, Zenon DEF Unexecuted, Places, Held
  <2>5. Places(b) \cup SeqRange(executed[b]) \subseteq Requests BY RangeIsTyped, Zenon DEF Places, Held, TypeOK
  <2>6. \A q \in Requests : q # r => pc'[q] = pc[q] BY Zenon DEF Move, TypeOK
  <2>7. CASE BoundaryOf[r] # b
    <3>1. queue'[b] = queue[b] BY <2>7, Zenon DEF TypeOK
    <3>2. PlaceAt(b)' BY <3>1, <2>1, <2>2, Zenon DEF PlaceAt
    <3>3. Places(b)' = Places(b) /\ Unexecuted(b)' = Unexecuted(b)
      BY <3>1, <2>2, Zenon DEF Places, Held, Unexecuted
    <3>4. AdmittedAt(b)' BY <3>3, <2>1, <2>2, <2>3, <2>5, <2>6, Zenon DEF AdmittedAt
    <3>5. QED BY <3>2, <3>4, Zenon
  <2>8. CASE BoundaryOf[r] = b
    <3>1. queue'[b] = Append(queue[b], r) /\ queue[b] \in Seq(Requests) BY <2>8, Zenon DEF TypeOK
    <3>2. SeqRange(queue'[b]) = {r} \cup SeqRange(queue[b]) BY <3>1, RangeOfAppend, Zenon
    <3>3. Distinct(queue'[b])
      <4>1. r \notin SeqRange(queue[b]) BY <2>3, Zenon DEF Places
      <4>2. Distinct(queue[b]) BY <2>1, Zenon DEF PlaceAt
      <4>3. Distinct(Append(queue[b], r)) BY <3>1, <4>1, <4>2, DistinctAppend, Zenon
      <4>4. QED BY <3>1, <4>3, Zenon
    <3>4. PlaceAt(b)'
      <4>1. r \notin SeqRange(batch[b]) \cup SeqRange(carry[b]) \cup SeqRange(live[b])
        BY <2>3, Zenon DEF Places, Held
      <4>2. SeqRange(queue'[b]) \cap (SeqRange(batch[b]) \cup SeqRange(carry[b]) \cup SeqRange(live[b])) = {}
        BY <4>1, <3>2, <2>1, Zenon DEF PlaceAt
      <4>3. QED BY <4>2, <3>3, <2>1, <2>2, Zenon DEF PlaceAt
    <3>5. Places(b)' = {r} \cup Places(b) /\ Unexecuted(b)' = {r} \cup Unexecuted(b)
      BY <3>2, <2>2, Zenon DEF Places, Held, Unexecuted
    <3>6. pc'[r] = "await" BY Zenon DEF Move, TypeOK
    <3>7. AdmittedAt(b)'
      <4>1. ASSUME NEW q \in Places(b)' \cup SeqRange(executed'[b])
            PROVE  BoundaryOf[q] = b /\ pc'[q] \in {"await", "ctxErr", result'[q]}
        <5>1. CASE q = r BY <5>1, <3>6, <2>8, Zenon
        <5>2. CASE q # r BY <5>2, <3>5, <2>1, <2>5, <2>6, Zenon DEF AdmittedAt
        <5>3. QED BY <5>1, <5>2, Zenon
      <4>2. Unexecuted(b)' \cap SeqRange(executed'[b]) = {} BY <3>5, <2>1, <2>3, Zenon DEF AdmittedAt
      <4>3. QED BY <4>1, <4>2, <2>1, <2>2, Zenon DEF AdmittedAt
    <3>8. QED BY <3>4, <3>7, Zenon
  <2>9. QED BY <2>7, <2>8, Zenon
<1>2. ErrClosedMeansNotExecuted'
  <2>1. ASSUME NEW q \in Requests, pc'[q] = "ErrClosed" PROVE pc[q] = "ErrClosed" BY <2>1, Zenon DEF Move, TypeOK
  <2>2. QED BY <2>1, Zenon DEF ErrClosedInv, ErrClosedMeansNotExecuted
<1>3. QED BY <1>1, <1>2, Zenon DEF ErrClosedInv

\* No step breaks the separation of ErrClosed and execution.
LEMMA ErrClosedStep ==
    TypeOK /\ ShutdownInv /\ WorkerInv /\ DroppedInv /\ ErrClosedInv /\ [Next]_vars => ErrClosedInv'
<1> SUFFICES ASSUME TypeOK, ShutdownInv, WorkerInv, DroppedInv, ErrClosedInv, [Next]_vars PROVE ErrClosedInv'
  BY Zenon
<1>1. ASSUME NEW r \in Requests, Submit(r) PROVE ErrClosedInv'
  <2>1. CASE SubmitPrecheck(r)
    <3>1. pc[r] = "idle" /\ UNCHANGED <<result, queue, wpc, batch, carry, live, executed>>
      BY <2>1, Zenon DEF SubmitPrecheck, channelVars, workerVars, storeVars
    <3>2. PICK label : Move(r, label) BY <2>1, Zenon DEF SubmitPrecheck
    <3>3. QED BY <3>1, <3>2, ErrClosedMove, Zenon
  <2>2. CASE SubmitLock(r)
    <3>1. pc[r] = "lock" /\ UNCHANGED <<result, queue, wpc, batch, carry, live, executed>>
      BY <2>2, Zenon DEF SubmitLock, channelVars, workerVars, storeVars
    <3>2. PICK label : Move(r, label) BY <2>2, Zenon DEF SubmitLock
    <3>3. QED BY <3>1, <3>2, ErrClosedMove, Zenon
  <2>3. CASE SubmitRegister(r)
    <3>1. \A b \in Boundaries : wpc'[b] = wpc[b] \/ (wpc[b] = "absent" /\ wpc'[b] = "top")
      BY <2>3, Zenon DEF SubmitRegister, TypeOK
    <3>2. QED BY <2>3, <3>1, ErrClosedMove, Zenon DEF SubmitRegister, channelVars, storeVars
  <2>4. CASE SubmitEnqueue(r) /\ queue' = [queue EXCEPT ![BoundaryOf[r]] = Append(@, r)] /\ Move(r, "await")
    <3>1. pc[r] = "enqueue" /\ UNCHANGED <<result, workerVars, executed>> BY <2>4, Zenon DEF SubmitEnqueue, storeVars
    <3>2. QED BY <2>4, <3>1, ErrClosedEnqueue, Zenon
  <2>5. CASE SubmitEnqueue(r) /\ UNCHANGED queue
    <3>1. PICK label : Move(r, label) BY <2>5, Zenon DEF SubmitEnqueue
    <3>2. QED BY <2>5, <3>1, ErrClosedMove, Zenon DEF SubmitEnqueue, workerVars, storeVars
  <2>6. CASE SubmitAwait(r)
    <3>1. PICK label \in {"ctxErr", result[r]} : Move(r, label) BY <2>6, Zenon DEF SubmitAwait, Awaited
    <3>2. QED BY <2>6, <3>1, ErrClosedMove, Zenon DEF SubmitAwait, channelVars, workerVars, storeVars
  <2>7. QED BY <1>1, <2>1, <2>2, <2>3, <2>4, <2>5, <2>6, Zenon DEF Submit, SubmitEnqueue
<1>2. ASSUME NEW b \in Boundaries, RunWorker(b) \/ FlushEnd(b) PROVE ErrClosedInv'
  BY <1>2, ErrClosedWorker, Zenon
<1>3. CASE \/ \E r \in Requests : Cancel(r)
           \/ CloseSignal \/ CloseStep \/ UNCHANGED vars
  <2>1. UNCHANGED <<pc, result, queue, wpc, batch, carry, live, executed>>
    BY <1>3, Zenon DEF Cancel, CloseSignal, CloseStep, CloseList, CloseQueues, CloseJoin, vars, callVars, channelVars,
                workerVars, storeVars
  <2>2. QED
    <3>1. ASSUME NEW b \in Boundaries PROVE PlaceAt(b)' /\ AdmittedAt(b)'
      <4>1. PlaceAt(b) /\ AdmittedAt(b) BY Zenon DEF ErrClosedInv
      <4>2. Places(b)' = Places(b) /\ Unexecuted(b)' = Unexecuted(b) BY <2>1, Zenon DEF Places, Held, Unexecuted
      <4>3. PlaceAt(b)' BY <2>1, <4>1, Zenon DEF PlaceAt
      <4>4. AdmittedAt(b)' BY <2>1, <4>1, <4>2, Zenon DEF AdmittedAt
      <4>5. QED BY <4>3, <4>4, Zenon
    <3>2. QED BY <2>1, <3>1, Zenon DEF ErrClosedInv, ErrClosedMeansNotExecuted
<1>4. QED BY <1>1, <1>2, <1>3, Zenon DEF Next, Finished

\* A call that returns ErrClosed was not handed to the executor and never will
\* be: the coordinator's ErrClosed is a definite answer, whatever the moment of
\* the shutdown, so a caller may submit the write again elsewhere.
THEOREM ErrClosedIsDefinite == Spec => []ErrClosedMeansNotExecuted
<1> DEFINE Inv == TypeOK /\ ShutdownInv /\ WorkerInv /\ DroppedInv /\ ErrClosedInv
<1>1. Init => Inv
  <2>1. Init => ErrClosedInv
    <3> SUFFICES ASSUME Init PROVE ErrClosedInv
      BY Zenon
    <3>1. SeqRange(<<>>) = {} /\ Distinct(<<>>) BY DEF SeqRange, Distinct
    <3>2. ASSUME NEW b \in Boundaries PROVE PlaceAt(b) /\ AdmittedAt(b)
      <4>1. /\ queue[b] = <<>> /\ batch[b] = <<>> /\ carry[b] = <<>> /\ live[b] = <<>> /\ executed[b] = <<>>
            /\ \A r \in Requests : result[r] # "ErrClosed"
        BY Zenon DEF Init, None
      <4>2. Places(b) = {} /\ Unexecuted(b) = {} BY <3>1, <4>1, Zenon DEF Places, Held, Unexecuted
      <4>3. PlaceAt(b) BY <3>1, <4>1, Zenon DEF PlaceAt
      <4>4. AdmittedAt(b) BY <3>1, <4>1, <4>2, Zenon DEF AdmittedAt
      <4>5. QED BY <4>3, <4>4, Zenon
    <3>3. ErrClosedMeansNotExecuted BY Zenon DEF Init, ErrClosedMeansNotExecuted
    <3>4. QED BY <3>2, <3>3, Zenon DEF ErrClosedInv
  <2>2. QED BY <2>1, TypeInit, ShutdownInit, WorkerInit, DroppedInit, Zenon
<1>2. Inv /\ [Next]_vars => Inv' BY TypeStep, ShutdownStep, WorkerStep, DroppedStep, ErrClosedStep, Zenon
<1>3. Inv => ErrClosedMeansNotExecuted BY Zenon DEF ErrClosedInv
<1>4. QED BY <1>1, <1>2, <1>3, PTL DEF Spec

-----------------------------------------------------------------------------
(* The order of execution *)

\* Every member of X was admitted before every member of Y.
Follow(s, X, Y) == \A x \in X, y \in Y : Earlier(s, x, y)

\* The requests of a boundary in the order in which they go: executed, set apart
\* for the executor, batched, carried and queued.
Chain(s, e, l, t, c, q) ==
    /\ InOrder(s, e) /\ InOrder(s, l) /\ InOrder(s, t) /\ InOrder(s, c) /\ InOrder(s, q)
    /\ Follow(s, SeqRange(e), SeqRange(l) \cup SeqRange(t) \cup SeqRange(c) \cup SeqRange(q))
    /\ Follow(s, SeqRange(l), SeqRange(t) \cup SeqRange(c) \cup SeqRange(q))
    /\ Follow(s, SeqRange(t), SeqRange(c) \cup SeqRange(q))
    /\ Follow(s, SeqRange(c), SeqRange(q))

\* What the executor is going to get; it has what it is executing.
Apportioned(b) == IF wpc[b] = "executing" THEN <<>> ELSE live[b]

ChainAt(b) == Chain(admitted[b], executed[b], Apportioned(b), batch[b], carry[b], queue[b])

\* A call whose request was admitted has passed the admission.
OrderInv ==
    /\ \A b \in Boundaries : ChainAt(b)
    /\ \A b \in Boundaries : \A r \in SeqRange(admitted[b]) :
          pc[r] \notin {"idle", "lock", "register", "enqueue"}

\* An empty batch, and one of a request.
LEMMA SmallInOrder ==
    ASSUME NEW s PROVE InOrder(s, <<>>) /\ \A x \in SeqRange(s) : InOrder(s, <<x>>)
<1>1. InOrder(s, <<>>) BY DEF InOrder, SeqRange
<1>2. ASSUME NEW x \in SeqRange(s) PROVE InOrder(s, <<x>>)
  <2>1. DOMAIN <<x>> = {1} /\ <<x>>[1] = x OBVIOUS
  <2>2. \A i, j \in {1} : ~(i < j) OBVIOUS
  <2>3. SeqRange(<<x>>) \subseteq SeqRange(s) BY <1>2, <2>1, Zenon DEF SeqRange
  <2> QED BY <2>1, <2>2, <2>3, Zenon DEF InOrder
<1> QED BY <1>1, <1>2, Zenon

\* The first of some requests and the others.
LEMMA TailInOrder ==
    ASSUME NEW S, NEW s, NEW t \in Seq(S), t # <<>>, InOrder(s, t)
    PROVE  InOrder(s, Tail(t)) /\ Follow(s, {Head(t)}, SeqRange(Tail(t)))
<1> DEFINE u == Tail(t)
<1>1. /\ DOMAIN t = 1 .. Len(t) /\ Len(t) \in Nat /\ 1 \in DOMAIN t /\ Head(t) = t[1]
      /\ DOMAIN u = 1 .. Len(t) - 1 /\ \A i \in DOMAIN u : u[i] = t[i + 1]
  OBVIOUS
<1>2. SeqRange(u) \subseteq SeqRange(s) BY RangeOfTail, Zenon DEF InOrder
<1> HIDE DEF u
<1>3. ASSUME NEW i \in DOMAIN u, NEW j \in DOMAIN u, i < j PROVE Earlier(s, u[i], u[j])
  <2>1. i + 1 \in DOMAIN t /\ j + 1 \in DOMAIN t /\ i + 1 < j + 1 BY <1>1, <1>3
  <2> QED BY <1>1, <2>1, Zenon DEF InOrder
<1>4. ASSUME NEW j \in DOMAIN u PROVE Earlier(s, Head(t), u[j])
  <2>1. j + 1 \in DOMAIN t /\ 1 < j + 1 BY <1>1, <1>4
  <2> QED BY <1>1, <2>1, Zenon DEF InOrder
<1>5. InOrder(s, u) BY <1>2, <1>3, Zenon DEF InOrder
<1>6. Follow(s, {Head(t)}, SeqRange(u)) BY <1>4, Zenon DEF Follow, SeqRange
<1> QED BY <1>5, <1>6, Zenon DEF u

\* One more request at the end.
LEMMA AppendInOrder ==
    ASSUME NEW S, NEW s, NEW t \in Seq(S), NEW x \in S, InOrder(s, t), x \in SeqRange(s),
           Follow(s, SeqRange(t), {x})
    PROVE  InOrder(s, Append(t, x))
<1> DEFINE u == Append(t, x)
<1>1. /\ DOMAIN t = 1 .. Len(t) /\ Len(t) \in Nat
      /\ DOMAIN u = 1 .. Len(t) + 1 /\ u[Len(t) + 1] = x /\ \A i \in DOMAIN t : u[i] = t[i]
  OBVIOUS
<1>2. SeqRange(u) \subseteq SeqRange(s)
  <2>1. SeqRange(u) = {x} \cup SeqRange(t) BY RangeOfAppend, Zenon
  <2> QED BY <2>1, Zenon DEF InOrder
<1> HIDE DEF u
<1>3. ASSUME NEW i \in DOMAIN u, NEW j \in DOMAIN u, i < j PROVE Earlier(s, u[i], u[j])
  <2>1. i \in DOMAIN t BY <1>1, <1>3
  <2>2. CASE j \in DOMAIN t BY <1>1, <1>3, <2>1, <2>2, Zenon DEF InOrder
  <2>3. CASE j = Len(t) + 1
    <3>1. t[i] \in SeqRange(t) BY <2>1, Zenon DEF SeqRange
    <3> QED BY <1>1, <2>1, <2>3, <3>1, Zenon DEF Follow
  <2> QED BY <1>1, <1>3, <2>2, <2>3
<1>4. InOrder(s, u) BY <1>2, <1>3, Zenon DEF InOrder
<1> QED BY <1>4, Zenon DEF u

\* A batch after what was executed before it.
LEMMA ConcatInOrder ==
    ASSUME NEW S, NEW s, NEW t \in Seq(S), NEW v \in Seq(S), InOrder(s, t), InOrder(s, v),
           Follow(s, SeqRange(t), SeqRange(v))
    PROVE  InOrder(s, t \o v)
<1> DEFINE u == t \o v
<1>1. /\ DOMAIN t = 1 .. Len(t) /\ Len(t) \in Nat /\ DOMAIN v = 1 .. Len(v) /\ Len(v) \in Nat
      /\ DOMAIN u = 1 .. Len(t) + Len(v)
      /\ \A i \in DOMAIN t : u[i] = t[i]
      /\ \A i \in DOMAIN v : u[Len(t) + i] = v[i]
  OBVIOUS
<1>2. SeqRange(u) \subseteq SeqRange(s)
  <2>1. SeqRange(u) = SeqRange(t) \cup SeqRange(v) BY RangeOfConcat
  <2> QED BY <2>1, Zenon DEF InOrder
<1> HIDE DEF u
<1>3. ASSUME NEW i \in DOMAIN u, NEW j \in DOMAIN u, i < j PROVE Earlier(s, u[i], u[j])
  <2>1. CASE j \in DOMAIN t
    <3>1. i \in DOMAIN t BY <1>1, <1>3, <2>1
    <3> QED BY <1>1, <1>3, <2>1, <3>1, Zenon DEF InOrder
  <2>2. ASSUME NEW m \in DOMAIN v, j = Len(t) + m PROVE Earlier(s, u[i], u[j])
    <3>1. u[j] = v[m] BY <1>1, <2>2, Zenon
    <3>2. CASE i \in DOMAIN t
      <4>1. t[i] \in SeqRange(t) /\ v[m] \in SeqRange(v) BY <3>2, Zenon DEF SeqRange
      <4> QED BY <1>1, <3>1, <3>2, <4>1, Zenon DEF Follow
    <3>3. ASSUME NEW n \in DOMAIN v, i = Len(t) + n PROVE Earlier(s, u[i], u[j])
      <4>1. n < m BY <1>1, <1>3, <2>2, <3>3
      <4>2. u[i] = v[n] BY <1>1, <3>3, Zenon
      <4> QED BY <3>1, <4>1, <4>2, Zenon DEF InOrder
    <3>4. i \in DOMAIN t \/ (i - Len(t) \in DOMAIN v /\ i = Len(t) + (i - Len(t))) BY <1>1
    <3> QED BY <3>2, <3>3, <3>4, Zenon
  <2>3. j \in DOMAIN t \/ (j - Len(t) \in DOMAIN v /\ j = Len(t) + (j - Len(t))) BY <1>1
  <2> QED BY <2>1, <2>2, <2>3, Zenon
<1>4. InOrder(s, u) BY <1>2, <1>3, Zenon DEF InOrder
<1> QED BY <1>4, Zenon DEF u

\* SubmitEnqueue: a request that is admitted comes after all others.
LEMMA AdmitInOrder ==
    ASSUME NEW S, NEW s \in Seq(S), NEW r \in S, r \notin SeqRange(s)
    PROVE  /\ \A x, y \in SeqRange(s) : Earlier(s, x, y) => Earlier(Append(s, r), x, y)
           /\ \A x \in SeqRange(s) : Earlier(Append(s, r), x, r)
<1> DEFINE u == Append(s, r)
<1>1. /\ DOMAIN s = 1 .. Len(s) /\ Len(s) \in Nat
      /\ DOMAIN u = 1 .. Len(s) + 1 /\ u[Len(s) + 1] = r /\ \A i \in DOMAIN s : u[i] = s[i]
  OBVIOUS
<1> HIDE DEF u
<1>2. \A i \in DOMAIN u : i \in DOMAIN s \/ i = Len(s) + 1 BY <1>1
<1>3. ASSUME NEW x \in SeqRange(s), NEW i \in DOMAIN u, u[i] = x PROVE i \in DOMAIN s /\ s[i] = x
  BY <1>1, <1>2, <1>3, Zenon
<1>4. ASSUME NEW x \in SeqRange(s), NEW y \in SeqRange(s), Earlier(s, x, y) PROVE Earlier(u, x, y)
  BY <1>3, <1>4, Zenon DEF Earlier
<1>5. ASSUME NEW x \in SeqRange(s) PROVE Earlier(u, x, r)
  <2> SUFFICES ASSUME NEW k \in DOMAIN u, NEW l \in DOMAIN u, u[k] = x, u[l] = r PROVE k < l
    BY Zenon DEF Earlier
  <2>1. k \in DOMAIN s BY <1>3, Zenon
  <2>2. l = Len(s) + 1
    <3>1. CASE l \in DOMAIN s
      <4>1. s[l] = r /\ s[l] \in SeqRange(s) BY <1>1, <3>1, Zenon DEF SeqRange
      <4> QED BY <4>1, Zenon
    <3> QED BY <1>2, <3>1, Zenon
  <2> QED BY <1>1, <2>1, <2>2
<1> QED BY <1>4, <1>5, Zenon DEF u

\* Requests go down the line one after the other: taken off the queue into a
\* batch or as the carried request, carried into the next batch, set apart for
\* the executor or left out, executed.  None of it changes their order.
LEMMA ChainMoves ==
    ASSUME NEW s, NEW e \in Seq(Requests), NEW l \in Seq(Requests), NEW t \in Seq(Requests),
           NEW c \in Seq(Requests), NEW q \in Seq(Requests), Chain(s, e, l, t, c, q)
    PROVE  /\ Chain(s, e, l, <<>>, <<>>, q)
           /\ t = <<>> => Chain(s, e, l, c, <<>>, q) /\ Chain(s, e \o l, <<>>, t, c, q)
           /\ c = <<>> /\ q # <<>> => /\ Chain(s, e, l, t, <<Head(q)>>, Tail(q))
                                      /\ Chain(s, e, l, Append(t, Head(q)), <<>>, Tail(q))
           /\ c = <<>> /\ t = <<>> /\ q # <<>> => Chain(s, e, l, <<Head(q)>>, <<>>, Tail(q))
           /\ t # <<>> => Chain(s, e, l, Tail(t), c, q) /\ Chain(s, e, Append(l, Head(t)), Tail(t), c, q)
           /\ q # <<>> => Chain(s, e, l, t, c, Tail(q))
<1> DEFINE R(v) == SeqRange(v)
           Line(E, L, T, C, Q) ==
              /\ Follow(s, E, L \cup T \cup C \cup Q) /\ Follow(s, L, T \cup C \cup Q)
              /\ Follow(s, T, C \cup Q) /\ Follow(s, C, Q)
<1>1. /\ InOrder(s, e) /\ InOrder(s, l) /\ InOrder(s, t) /\ InOrder(s, c) /\ InOrder(s, q)
      /\ Line(R(e), R(l), R(t), R(c), R(q))
  BY Zenon DEF Chain
<1>2. ASSUME NEW e1, NEW l1, NEW t1, NEW c1, NEW q1,
             InOrder(s, e1), InOrder(s, l1), InOrder(s, t1), InOrder(s, c1), InOrder(s, q1),
             Line(R(e1), R(l1), R(t1), R(c1), R(q1))
      PROVE  Chain(s, e1, l1, t1, c1, q1)
  BY <1>2, Zenon DEF Chain
<1>3. R(<<>>) = {} BY DEF SeqRange
<1>4. InOrder(s, <<>>) /\ R(e) \subseteq R(s) /\ R(l) \subseteq R(s) /\ R(t) \subseteq R(s) /\ R(q) \subseteq R(s)
  BY <1>1, SmallInOrder, Zenon DEF InOrder
<1>5. ASSUME NEW v \in Seq(Requests), v # <<>>, InOrder(s, v)
      PROVE  /\ Head(v) \in Requests /\ R(v) = {Head(v)} \cup R(Tail(v)) /\ R(<<Head(v)>>) = {Head(v)}
             /\ InOrder(s, Tail(v)) /\ InOrder(s, <<Head(v)>>) /\ Follow(s, {Head(v)}, R(Tail(v)))
  <2>1. Head(v) \in Requests BY <1>5
  <2>2. R(v) = {Head(v)} \cup R(Tail(v)) BY <1>5, RangeOfTail, Zenon
  <2>3. R(<<Head(v)>>) = {Head(v)} BY <2>1, RangeOfSmall, Zenon
  <2>4. Head(v) \in R(s) BY <1>5, <2>2, Zenon DEF InOrder
  <2>5. InOrder(s, <<Head(v)>>) BY <2>4, SmallInOrder, Zenon
  <2>6. InOrder(s, Tail(v)) /\ Follow(s, {Head(v)}, R(Tail(v))) BY <1>5, TailInOrder, Zenon
  <2> QED BY <2>1, <2>2, <2>3, <2>5, <2>6, Zenon
<1>6. ASSUME NEW v \in Seq(Requests), NEW x \in Requests, x \in R(s), InOrder(s, v), Follow(s, R(v), {x})
      PROVE  InOrder(s, Append(v, x)) /\ R(Append(v, x)) = {x} \cup R(v)
  <2>1. InOrder(s, Append(v, x)) BY <1>6, AppendInOrder, Zenon
  <2>2. R(Append(v, x)) = {x} \cup R(v) BY RangeOfAppend, Zenon
  <2> QED BY <2>1, <2>2, Zenon
<1> HIDE DEF R
<1>7. Chain(s, e, l, <<>>, <<>>, q)
  <2>1. Line(R(e), R(l), {}, {}, R(q)) BY <1>1, Zenon DEF Follow
  <2> QED BY <1>1, <1>2, <1>3, <1>4, <2>1, Zenon
<1>8. ASSUME t = <<>> PROVE Chain(s, e, l, c, <<>>, q)
  <2>1. Line(R(e), R(l), R(c), {}, R(q)) BY <1>1, Zenon DEF Follow
  <2> QED BY <1>1, <1>2, <1>3, <1>4, <2>1, Zenon
<1>9. ASSUME t = <<>> PROVE Chain(s, e \o l, <<>>, t, c, q)
  <2>1. Line(R(e) \cup R(l), {}, R(t), R(c), R(q)) BY <1>1, Zenon DEF Follow
  <2>2. Follow(s, R(e), R(l)) BY <1>1, Zenon DEF Follow
  <2>3. InOrder(s, e \o l) BY <1>1, <2>2, ConcatInOrder, Zenon DEF R
  <2>4. R(e \o l) = R(e) \cup R(l) BY RangeOfConcat DEF R
  <2> QED BY <1>1, <1>2, <1>3, <1>4, <2>1, <2>3, <2>4, Zenon
<1>10. ASSUME c = <<>>, q # <<>> PROVE Chain(s, e, l, t, <<Head(q)>>, Tail(q))
  <2>0. R(q) = {Head(q)} \cup R(Tail(q)) /\ Follow(s, {Head(q)}, R(Tail(q))) BY <1>1, <1>5, <1>10, Zenon
  <2>1. Line(R(e), R(l), R(t), {Head(q)}, R(Tail(q))) BY <1>1, <2>0, Zenon DEF Follow
  <2>2. R(<<Head(q)>>) = {Head(q)} /\ InOrder(s, <<Head(q)>>) /\ InOrder(s, Tail(q)) BY <1>1, <1>5, <1>10, Zenon
  <2> QED BY <1>1, <1>2, <2>1, <2>2, Zenon
<1>11. ASSUME c = <<>>, q # <<>> PROVE Chain(s, e, l, Append(t, Head(q)), <<>>, Tail(q))
  <2>0. R(q) = {Head(q)} \cup R(Tail(q)) /\ Follow(s, {Head(q)}, R(Tail(q))) BY <1>1, <1>5, <1>11, Zenon
  <2>1. Line(R(e), R(l), {Head(q)} \cup R(t), {}, R(Tail(q))) BY <1>1, <2>0, Zenon DEF Follow
  <2>2. Follow(s, R(t), {Head(q)}) /\ Head(q) \in R(s) BY <1>1, <1>4, <1>5, <1>11, Zenon DEF Follow
  <2>3. InOrder(s, Append(t, Head(q))) /\ R(Append(t, Head(q))) = {Head(q)} \cup R(t)
    BY <1>1, <1>5, <1>6, <1>11, <2>2, Zenon
  <2>4. InOrder(s, Tail(q)) BY <1>1, <1>5, <1>11, Zenon
  <2> QED BY <1>1, <1>2, <1>3, <1>4, <2>1, <2>3, <2>4, Zenon
<1>12. ASSUME c = <<>>, t = <<>>, q # <<>> PROVE Chain(s, e, l, <<Head(q)>>, <<>>, Tail(q))
  <2>0. R(q) = {Head(q)} \cup R(Tail(q)) /\ Follow(s, {Head(q)}, R(Tail(q))) BY <1>1, <1>5, <1>12, Zenon
  <2>1. Line(R(e), R(l), {Head(q)}, {}, R(Tail(q))) BY <1>1, <2>0, Zenon DEF Follow
  <2>2. R(<<Head(q)>>) = {Head(q)} /\ InOrder(s, <<Head(q)>>) /\ InOrder(s, Tail(q)) BY <1>1, <1>5, <1>12, Zenon
  <2> QED BY <1>1, <1>2, <1>3, <1>4, <2>1, <2>2, Zenon
<1>13. ASSUME t # <<>> PROVE Chain(s, e, l, Tail(t), c, q)
  <2>0. R(t) = {Head(t)} \cup R(Tail(t)) /\ Follow(s, {Head(t)}, R(Tail(t))) BY <1>1, <1>5, <1>13, Zenon
  <2>1. Line(R(e), R(l), R(Tail(t)), R(c), R(q)) BY <1>1, <2>0, Zenon DEF Follow
  <2>2. InOrder(s, Tail(t)) BY <1>1, <1>5, <1>13, Zenon
  <2> QED BY <1>1, <1>2, <2>1, <2>2, Zenon
<1>14. ASSUME t # <<>> PROVE Chain(s, e, Append(l, Head(t)), Tail(t), c, q)
  <2>0. R(t) = {Head(t)} \cup R(Tail(t)) /\ Follow(s, {Head(t)}, R(Tail(t))) BY <1>1, <1>5, <1>14, Zenon
  <2>1. Line(R(e), {Head(t)} \cup R(l), R(Tail(t)), R(c), R(q)) BY <1>1, <2>0, Zenon DEF Follow
  <2>2. Follow(s, R(l), {Head(t)}) /\ Head(t) \in R(s) BY <1>1, <1>4, <1>5, <1>14, Zenon DEF Follow
  <2>3. InOrder(s, Append(l, Head(t))) /\ R(Append(l, Head(t))) = {Head(t)} \cup R(l)
    BY <1>1, <1>5, <1>6, <1>14, <2>2, Zenon
  <2>4. InOrder(s, Tail(t)) BY <1>1, <1>5, <1>14, Zenon
  <2> QED BY <1>1, <1>2, <2>1, <2>3, <2>4, Zenon
<1>15. ASSUME q # <<>> PROVE Chain(s, e, l, t, c, Tail(q))
  <2>0. R(q) = {Head(q)} \cup R(Tail(q)) /\ Follow(s, {Head(q)}, R(Tail(q))) BY <1>1, <1>5, <1>15, Zenon
  <2>1. Line(R(e), R(l), R(t), R(c), R(Tail(q))) BY <1>1, <2>0, Zenon DEF Follow
  <2>2. InOrder(s, Tail(q)) BY <1>1, <1>5, <1>15, Zenon
  <2> QED BY <1>1, <1>2, <2>1, <2>2, Zenon
<1> QED BY <1>7, <1>8, <1>9, <1>10, <1>11, <1>12, <1>13, <1>14, <1>15, Zenon

\* A request that is admitted joins the end of the line.
LEMMA ChainAdmits ==
    ASSUME NEW s \in Seq(Requests), NEW e, NEW l, NEW t, NEW c, NEW q \in Seq(Requests),
           Chain(s, e, l, t, c, q), NEW r \in Requests, r \notin SeqRange(s)
    PROVE  Chain(Append(s, r), e, l, t, c, Append(q, r))
<1> DEFINE u == Append(s, r)
<1>1. /\ \A x, y \in SeqRange(s) : Earlier(s, x, y) => Earlier(u, x, y)
      /\ \A x \in SeqRange(s) : Earlier(u, x, r)
  BY AdmitInOrder, Zenon
<1>2. SeqRange(u) = {r} \cup SeqRange(s) /\ SeqRange(Append(q, r)) = {r} \cup SeqRange(q) BY RangeOfAppend, Zenon
<1> HIDE DEF u
<1>3. ASSUME NEW v, InOrder(s, v) PROVE InOrder(u, v)
  <2>1. \A i \in DOMAIN v : v[i] \in SeqRange(s) BY <1>3, Zenon DEF InOrder, SeqRange
  <2> QED BY <1>1, <1>2, <1>3, <2>1, Zenon DEF InOrder
<1>4. ASSUME NEW X, NEW Y, X \subseteq SeqRange(s), Y \subseteq SeqRange(s), Follow(s, X, Y)
      PROVE  Follow(u, X, Y \cup {r}) /\ Follow(u, X, Y) /\ Follow(u, X, {r})
  BY <1>1, <1>4, Zenon DEF Follow
<1>5. /\ SeqRange(e) \subseteq SeqRange(s) /\ SeqRange(l) \subseteq SeqRange(s) /\ SeqRange(t) \subseteq SeqRange(s)
      /\ SeqRange(c) \subseteq SeqRange(s) /\ SeqRange(q) \subseteq SeqRange(s)
  BY Zenon DEF Chain, InOrder
<1>6. InOrder(u, Append(q, r))
  <2>1. InOrder(u, q) /\ r \in SeqRange(u) BY <1>2, <1>3, Zenon DEF Chain
  <2>2. Follow(u, SeqRange(q), {r}) BY <1>1, <1>5, Zenon DEF Follow
  <2> QED BY <2>1, <2>2, AppendInOrder, Zenon
<1>7. /\ Follow(u, SeqRange(e), SeqRange(l) \cup SeqRange(t) \cup SeqRange(c) \cup SeqRange(q) \cup {r})
      /\ Follow(u, SeqRange(l), SeqRange(t) \cup SeqRange(c) \cup SeqRange(q) \cup {r})
      /\ Follow(u, SeqRange(t), SeqRange(c) \cup SeqRange(q) \cup {r})
      /\ Follow(u, SeqRange(c), SeqRange(q) \cup {r})
  BY <1>1, <1>5, Zenon DEF Chain, Follow
<1>8. /\ Follow(u, SeqRange(e), SeqRange(l) \cup SeqRange(t) \cup SeqRange(c) \cup SeqRange(Append(q, r)))
      /\ Follow(u, SeqRange(l), SeqRange(t) \cup SeqRange(c) \cup SeqRange(Append(q, r)))
      /\ Follow(u, SeqRange(t), SeqRange(c) \cup SeqRange(Append(q, r)))
      /\ Follow(u, SeqRange(c), SeqRange(Append(q, r)))
  BY <1>2, <1>7, Zenon DEF Follow
<1>9. Chain(u, e, l, t, c, Append(q, r)) BY <1>3, <1>6, <1>8, Zenon DEF Chain
<1> QED BY <1>9, Zenon DEF u

\* A step of a worker, or of the executor, keeps the line of its boundary.
LEMMA WorkerChain ==
    ASSUME TypeOK, NEW b \in Boundaries, HeldAt(b), ChainAt(b), RunWorker(b) \/ FlushEnd(b)
    PROVE  ChainAt(b)'
<1> DEFINE A == Apportioned(b)
<1>1. /\ queue[b] \in Seq(Requests) /\ batch[b] \in Seq(Requests) /\ live[b] \in Seq(Requests)
      /\ carry[b] \in Seq(Requests) /\ executed[b] \in Seq(Requests)
  BY Zenon DEF TypeOK
<1>2. A \in Seq(Requests)
  <2>1. <<>> \in Seq(Requests) OBVIOUS
  <2> QED BY <1>1, <2>1, Zenon DEF Apportioned
<1>3. Chain(admitted[b], executed[b], A, batch[b], carry[b], queue[b]) BY Zenon DEF ChainAt
<1>4. admitted'[b] = admitted[b] BY WorkerLocal, Zenon
<1>5. SUFFICES Chain(admitted[b], executed'[b], Apportioned(b)', batch'[b], carry'[b], queue'[b])
  BY <1>4, Zenon DEF ChainAt
<1> DEFINE s == admitted[b]
           e == executed[b]
           t == batch[b]
           c == carry[b]
           q == queue[b]
<1> HIDE DEF A
<1>0. /\ Chain(s, e, A, <<>>, <<>>, q)
      /\ t = <<>> => Chain(s, e, A, c, <<>>, q) /\ Chain(s, e \o A, <<>>, t, c, q)
      /\ c = <<>> /\ q # <<>> => /\ Chain(s, e, A, t, <<Head(q)>>, Tail(q))
                                 /\ Chain(s, e, A, Append(t, Head(q)), <<>>, Tail(q))
      /\ c = <<>> /\ t = <<>> /\ q # <<>> => Chain(s, e, A, <<Head(q)>>, <<>>, Tail(q))
      /\ t # <<>> => Chain(s, e, A, Tail(t), c, q) /\ Chain(s, e, Append(A, Head(t)), Tail(t), c, q)
      /\ q # <<>> => Chain(s, e, A, t, c, Tail(q))
  <2> HIDE DEF s, e, t, c, q
  <2>1. e \in Seq(Requests) /\ t \in Seq(Requests) /\ c \in Seq(Requests) /\ q \in Seq(Requests)
    BY <1>1, Zenon DEF e, t, c, q
  <2>2. Chain(s, e, A, t, c, q) BY <1>3, Zenon DEF s, e, t, c, q
  <2> QED BY <1>2, <2>1, <2>2, ChainMoves, Zenon
<1>6. CASE WorkerTop(b)
  <2>1. batch[b] = <<>> /\ wpc[b] = "top" BY <1>6, Zenon DEF WorkerTop, HeldAt
  <2>2. UNCHANGED <<live, executed>> /\ wpc'[b] \in {"check", "failFast", "done"}
    BY <1>6, Zenon DEF WorkerTop, Continue, storeVars, TypeOK
  <2>3. Apportioned(b)' = A BY <2>1, <2>2, Zenon DEF Apportioned, A
  <2>4. CASE batch'[b] = carry[b] /\ carry'[b] = <<>> /\ queue'[b] = queue[b]
    BY <1>1, <1>2, <1>3, <2>1, <2>2, <2>3, <2>4, <1>0, Zenon
  <2>5. CASE UNCHANGED <<batch, carry, queue>> BY <1>3, <2>2, <2>3, <2>5, Zenon
  <2>6. CASE /\ carry[b] = <<>> /\ queue[b] # <<>> /\ carry'[b] = <<>>
             /\ batch'[b] = <<Head(queue[b])>> /\ queue'[b] = Tail(queue[b])
    BY <1>1, <1>2, <1>3, <2>1, <2>2, <2>3, <2>6, <1>0, Zenon
  <2> QED BY <1>6, <2>4, <2>5, <2>6, Zenon DEF WorkerTop, Continue, TypeOK
<1>7. CASE WorkerDrain(b)
  <2>1. carry[b] = <<>> /\ wpc[b] = "drain" BY <1>7, Zenon DEF WorkerDrain, HeldAt
  <2>2. UNCHANGED <<live, executed>> /\ wpc'[b] \in {"drain", "drained"}
    BY <1>7, Zenon DEF WorkerDrain, Continue, storeVars, TypeOK
  <2>3. Apportioned(b)' = A BY <2>1, <2>2, Zenon DEF Apportioned, A
  <2>4. CASE UNCHANGED <<queue, batch, carry>> BY <1>3, <2>2, <2>3, <2>4, Zenon
  <2>5. CASE /\ queue[b] # <<>> /\ UNCHANGED batch
             /\ queue'[b] = Tail(queue[b]) /\ carry'[b] = <<Head(queue[b])>>
    BY <1>1, <1>2, <1>3, <2>1, <2>2, <2>3, <2>5, <1>0, Zenon
  <2>6. CASE /\ queue[b] # <<>> /\ UNCHANGED carry
             /\ queue'[b] = Tail(queue[b]) /\ batch'[b] = Append(batch[b], Head(queue[b]))
    BY <1>1, <1>2, <1>3, <2>1, <2>2, <2>3, <2>6, <1>0, Zenon
  <2> QED BY <1>7, <2>4, <2>5, <2>6, Zenon DEF WorkerDrain, SetAside, Continue, TypeOK
<1>8. CASE WorkerCheck(b) \/ WorkerDrained(b) \/ WorkerFlushed(b)
  <2>1. /\ UNCHANGED <<queue, live, executed>> /\ wpc[b] # "executing" /\ wpc'[b] # "executing"
    BY <1>8 DEF WorkerCheck, WorkerDrained, WorkerFlushed, FailFastAfter, Continue, channelVars, storeVars, TypeOK
  <2>2. Apportioned(b)' = A BY <2>1, Zenon DEF Apportioned, A
  <2>3. CASE closed
    <3>1. batch'[b] = <<>> /\ carry'[b] = <<>>
      BY <1>8, <2>3, Zenon DEF WorkerCheck, WorkerDrained, WorkerFlushed, FailFastAfter, TypeOK
    <3> QED BY <1>1, <1>2, <1>3, <2>1, <2>2, <3>1, <1>0, Zenon
  <2>4. CASE ~closed
    <3>1. UNCHANGED <<batch, carry>>
      BY <1>8, <2>4, Zenon DEF WorkerCheck, WorkerDrained, WorkerFlushed, Continue
    <3> QED BY <1>3, <2>1, <2>2, <3>1, Zenon
  <2> QED BY <2>3, <2>4, Zenon
<1>9. CASE FlushFilter(b)
  <2>1. /\ batch[b] # <<>> /\ batch'[b] = Tail(batch[b]) /\ UNCHANGED <<queue, carry, wpc, executed>>
        /\ wpc[b] = "flush"
        /\ live'[b] = live[b] \/ live'[b] = Append(live[b], Head(batch[b]))
    BY <1>9, Zenon DEF FlushFilter, channelVars, storeVars, TypeOK
  <2>2. A = live[b] /\ Apportioned(b)' = live'[b] BY <2>1, Zenon DEF Apportioned, A
  <2> QED BY <1>1, <1>2, <1>3, <2>1, <2>2, <1>0, Zenon
<1>10. CASE FlushStart(b)
  <2>1. /\ UNCHANGED <<queue, batch, carry, live>> /\ batch[b] = <<>> /\ wpc[b] = "flush"
        /\ wpc'[b] = (IF live[b] = <<>> THEN "flushed" ELSE "executing")
        /\ executed'[b] = executed[b] \o live[b]
    BY <1>10, Zenon DEF FlushStart, channelVars, TypeOK
  <2>2. A = live[b] /\ Apportioned(b)' = <<>> BY <2>1, Zenon DEF Apportioned, A
  <2> QED BY <1>1, <1>2, <1>3, <2>1, <2>2, <1>0, Zenon
<1>11. CASE FlushEnd(b)
  <2>1. /\ UNCHANGED <<queue, batch, carry, executed>> /\ live'[b] = <<>>
        /\ wpc[b] = "executing" /\ wpc'[b] = "flushed"
    BY <1>11, Zenon DEF FlushEnd, channelVars, TypeOK
  <2>2. Apportioned(b)' = A BY <2>1, Zenon DEF Apportioned, A
  <2> QED BY <1>3, <2>1, <2>2, Zenon
<1>12. CASE WorkerFailFast(b)
  <2>1. UNCHANGED <<batch, carry, live, executed>> /\ wpc[b] = "failFast" /\ wpc'[b] \in {"failFast", "done"}
    BY <1>12, Zenon DEF WorkerFailFast, Continue, storeVars, TypeOK
  <2>2. queue'[b] = queue[b] \/ (queue[b] # <<>> /\ queue'[b] = Tail(queue[b]))
    BY <1>12, Zenon DEF WorkerFailFast, TypeOK
  <2>3. Apportioned(b)' = A BY <2>1, Zenon DEF Apportioned, A
  <2> QED BY <1>1, <1>2, <1>3, <2>1, <2>2, <2>3, <1>0, Zenon
<1> QED BY <1>6, <1>7, <1>8, <1>9, <1>10, <1>11, <1>12, Zenon DEF RunWorker

\* No step changes the order of the requests of a boundary.
LEMMA OrderStep == TypeOK /\ WorkerInv /\ OrderInv /\ [Next]_vars => OrderInv'
<1> SUFFICES ASSUME TypeOK, WorkerInv, OrderInv, [Next]_vars PROVE OrderInv' BY Zenon
<1> USE ConfigAssumption
<1> DEFINE Before == {"idle", "lock", "register", "enqueue"}
           Lines == UNCHANGED <<admitted, executed, live, batch, carry, queue>>
           Labels == \A b \in Boundaries : wpc'[b] = wpc[b] \/ (wpc[b] = "absent" /\ wpc'[b] = "top")
<1>1. \A b \in Boundaries : SeqRange(admitted[b]) \subseteq Requests BY RangeIsTyped, Zenon DEF TypeOK
<1>2. ASSUME Lines, Labels PROVE \A b \in Boundaries : ChainAt(b)'
  <2>1. ASSUME NEW b \in Boundaries PROVE Apportioned(b)' = Apportioned(b)
    BY <1>2, <2>1 DEF Apportioned
  <2> QED BY <1>2, <2>1, Zenon DEF OrderInv, ChainAt
<1>3. ASSUME NEW r \in Requests, NEW label, Move(r, label), pc[r] \in Before \/ label \notin Before, Lines, Labels
      PROVE  OrderInv'
  <2>1. ASSUME NEW b \in Boundaries, NEW x \in SeqRange(admitted[b]) PROVE pc'[x] \notin Before
    <3>1. x \in Requests /\ pc[x] \notin Before BY <1>1, <2>1, Zenon DEF OrderInv
    <3>2. pc'[x] = pc[x] \/ (x = r /\ pc'[x] = label) BY <1>3, <3>1, Zenon DEF Move, TypeOK
    <3> QED BY <1>3, <3>1, <3>2, Zenon
  <2> QED BY <1>2, <1>3, <2>1, Zenon DEF OrderInv
<1>4. ASSUME NEW r \in Requests, pc[r] = "enqueue", Move(r, "await"),
             queue' = [queue EXCEPT ![BoundaryOf[r]] = Append(@, r)],
             admitted' = [admitted EXCEPT ![BoundaryOf[r]] = Append(@, r)],
             UNCHANGED <<wpc, executed, live, batch, carry>>
      PROVE  OrderInv'
  <2>1. ASSUME NEW b \in Boundaries PROVE r \notin SeqRange(admitted[b]) BY <1>4, <2>1, Zenon DEF OrderInv
  <2>2. ASSUME NEW b \in Boundaries
        PROVE  ChainAt(b)' /\ \A x \in SeqRange(admitted'[b]) : x = r \/ x \in SeqRange(admitted[b])
    <3>1. Apportioned(b)' = Apportioned(b) BY <1>4, Zenon DEF Apportioned
    <3>2. CASE BoundaryOf[r] # b
      <4>1. queue'[b] = queue[b] /\ admitted'[b] = admitted[b] BY <1>4, <3>2, Zenon DEF TypeOK
      <4>2. ChainAt(b) BY Zenon DEF OrderInv
      <4> QED BY <1>4, <3>1, <4>1, <4>2, Zenon DEF ChainAt
    <3>3. CASE BoundaryOf[r] = b
      <4>1. /\ queue'[b] = Append(queue[b], r) /\ admitted'[b] = Append(admitted[b], r)
            /\ queue[b] \in Seq(Requests) /\ admitted[b] \in Seq(Requests)
        BY <1>4, <3>3, Zenon DEF TypeOK
      <4>2. Chain(admitted[b], executed[b], Apportioned(b), batch[b], carry[b], queue[b])
        BY Zenon DEF OrderInv, ChainAt
      <4>3. Chain(Append(admitted[b], r), executed[b], Apportioned(b), batch[b], carry[b], Append(queue[b], r))
        BY <2>1, <4>1, <4>2, ChainAdmits, Zenon
      <4>4. SeqRange(Append(admitted[b], r)) = {r} \cup SeqRange(admitted[b]) BY <4>1, RangeOfAppend, Zenon
      <4> QED BY <1>4, <3>1, <4>1, <4>3, <4>4, Zenon DEF ChainAt
    <3> QED BY <3>2, <3>3, Zenon
  <2>3. ASSUME NEW b \in Boundaries, NEW x \in SeqRange(admitted'[b]) PROVE pc'[x] \notin Before
    <3>1. CASE x = r
      <4>1. pc'[r] = "await" BY <1>4, Zenon DEF Move, TypeOK
      <4> QED BY <3>1, <4>1
    <3>2. CASE x # r
      <4>1. x \in SeqRange(admitted[b]) BY <2>2, <2>3, <3>2, Zenon
      <4>2. x \in Requests /\ pc[x] \notin Before BY <1>1, <4>1, Zenon DEF OrderInv
      <4>3. pc'[x] = pc[x] BY <1>4, <3>2, <4>2, Zenon DEF Move, TypeOK
      <4> QED BY <4>2, <4>3, Zenon
    <3> QED BY <3>1, <3>2, Zenon
  <2> QED BY <2>2, <2>3, Zenon DEF OrderInv
<1>5. ASSUME NEW r \in Requests, Submit(r) PROVE OrderInv'
  <2>1. CASE SubmitPrecheck(r)
    <3>1. PICK label : Move(r, label) BY <2>1, Zenon DEF SubmitPrecheck
    <3> QED BY <1>3, <2>1, <3>1, Zenon DEF SubmitPrecheck, channelVars, workerVars, storeVars
  <2>2. CASE SubmitLock(r)
    <3>1. PICK label : Move(r, label) BY <2>2, Zenon DEF SubmitLock
    <3> QED BY <1>3, <2>2, <3>1, Zenon DEF SubmitLock, channelVars, workerVars, storeVars
  <2>3. CASE SubmitRegister(r)
    <3>1. Labels BY <2>3, Zenon DEF SubmitRegister, TypeOK
    <3> QED BY <1>3, <2>3, <3>1, Zenon DEF SubmitRegister, channelVars, storeVars
  <2>4. CASE SubmitEnqueue(r) /\ Move(r, "await")
             /\ queue' = [queue EXCEPT ![BoundaryOf[r]] = Append(@, r)]
             /\ admitted' = [admitted EXCEPT ![BoundaryOf[r]] = Append(@, r)]
    BY <1>4, <2>4, Zenon DEF SubmitEnqueue, workerVars, storeVars
  <2>5. CASE SubmitEnqueue(r) /\ UNCHANGED <<queue, admitted>>
    <3>1. PICK label : Move(r, label) BY <2>5, Zenon DEF SubmitEnqueue
    <3> QED BY <1>3, <2>5, <3>1, Zenon DEF SubmitEnqueue, workerVars, storeVars
  <2>6. CASE SubmitAwait(r)
    <3>1. PICK label \in Awaited(r) : Move(r, label) BY <2>6, Zenon DEF SubmitAwait
    <3>2. label \notin Before
      <4>1. label \in Outcomes BY <3>1, AwaitedType, Zenon
      <4> QED BY <4>1 DEF Outcomes
    <3> QED BY <1>3, <2>6, <3>1, <3>2, Zenon DEF SubmitAwait, channelVars, workerVars, storeVars
  <2> QED BY <1>5, <2>1, <2>2, <2>3, <2>4, <2>5, <2>6, Zenon DEF Submit, SubmitEnqueue
<1>6. ASSUME NEW b \in Boundaries, RunWorker(b) \/ FlushEnd(b) PROVE OrderInv'
  <2>1. Elsewhere(b) /\ UNCHANGED <<pc, admitted>> BY <1>6, WorkerLocal, Zenon
  <2>2. ChainAt(b)' BY <1>6, WorkerChain, Zenon DEF WorkerInv, OrderInv
  <2>3. ASSUME NEW d \in Boundaries \ {b} PROVE ChainAt(d)'
    <3>1. Apportioned(d)' = Apportioned(d) BY <2>1, Zenon DEF Elsewhere, Apportioned
    <3>2. ChainAt(d) BY Zenon DEF OrderInv
    <3> QED BY <2>1, <3>1, <3>2, Zenon DEF Elsewhere, ChainAt
  <2> QED BY <2>1, <2>2, <2>3, Zenon DEF OrderInv
<1>7. CASE (\E r \in Requests : Cancel(r)) \/ CloseSignal \/ CloseStep \/ UNCHANGED vars
  <2>1. UNCHANGED <<pc, wpc>> /\ Lines
    BY <1>7, Zenon DEF Cancel, CloseSignal, CloseStep, CloseList, CloseQueues, CloseJoin, vars, callVars, channelVars,
                workerVars, storeVars
  <2> QED BY <1>2, <2>1, Zenon DEF OrderInv
<1> QED BY <1>5, <1>6, <1>7, Zenon DEF Next, Finished

\* Each boundary hands its requests to the executor in the order in which Submit
\* put them on its queue, each at most once, whatever is carried over to the next
\* batch, left out of a flush or refused by a shutdown.
THEOREM AdmissionOrderIsKept == Spec => []ExecutedInAdmissionOrder
<1> DEFINE Inv == TypeOK /\ ShutdownInv /\ WorkerInv /\ OrderInv
<1>1. Init => Inv
  <2>1. ASSUME Init PROVE OrderInv
    <3>1. SeqRange(<<>>) = {} BY DEF SeqRange
    <3>2. Chain(<<>>, <<>>, <<>>, <<>>, <<>>, <<>>) BY <3>1, SmallInOrder, Zenon DEF Chain, Follow
    <3>3. ASSUME NEW b \in Boundaries
          PROVE  /\ admitted[b] = <<>> /\ executed[b] = <<>> /\ Apportioned(b) = <<>> /\ batch[b] = <<>>
                 /\ carry[b] = <<>> /\ queue[b] = <<>>
      BY <2>1, Zenon DEF Init, Apportioned
    <3> QED BY <3>1, <3>2, <3>3, Zenon DEF OrderInv, ChainAt
  <2> QED BY <2>1, TypeInit, ShutdownInit, WorkerInit, Zenon
<1>2. Inv /\ [Next]_vars => Inv' BY TypeStep, ShutdownStep, WorkerStep, OrderStep, Zenon
<1>3. Inv => ExecutedInAdmissionOrder BY Zenon DEF OrderInv, ChainAt, Chain, ExecutedInAdmissionOrder
<1> QED BY <1>1, <1>2, <1>3, PTL DEF Spec
=============================================================================
