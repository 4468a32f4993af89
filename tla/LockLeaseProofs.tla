-------------------------- MODULE LockLeaseProofs ---------------------------
(***************************************************************************)
(* Theorems about LockLease that hold whatever the clocks show, for any    *)
(* clients, durations and bounds: type correctness, the order of the checks, *)
(* and that a release only removes its own entry.                          *)
(***************************************************************************)
EXTENDS LockLease, TLAPS

Leased == Maintained \cup {"done"}

\* Where handles and tokens are: a client has a token while it is in
\* AcquireLock or holds a handle, no two clients have the same, and what is
\* known of revisions is never ahead of the bucket.
TokenInv ==
  /\ \A c \in Clients : use[c] = "out" <=> pc[c] \notin Leased
  /\ \A c \in Clients : token[c] = NoToken <=> pc[c] \in {"idle", "ended", "crashed"}
  /\ \A c, d \in Clients : token[c] = token[d] /\ token[c] # NoToken => c = d
  /\ \A c \in Clients : seen[c] <= kv.revision
  /\ \A c \in Clients : pc[c] = "wait" => attempt[c] + 1 < MaxRetries
  /\ \A w \in late : w.expected <= kv.revision /\ w.token \in {NoToken, w.from}

\* What a revision says about the entry: a client that knows the present
\* revision as its own owns the entry, and a write that is still to arrive
\* replaces or deletes an entry of its own lease.
OwnInv ==
  /\ newest <= kv.revision
  /\ \A c \in Clients : pc[c] \in Leased =>
       /\ acquired[c] <= revision[c] /\ revision[c] <= kv.revision
       /\ revision[c] = kv.revision => kv.token = token[c]
       /\ kv.token = token[c] => acquired[c] >= newest
  /\ \A c \in Clients :
       pc[c] = "delete" /\ seen[c] = kv.revision => kv.token = token[c]
  /\ \A w \in late : w.expected = kv.revision =>
       /\ w.token = NoToken => kv.token = w.from
       /\ \A c \in Clients : pc[c] \in Leased /\ w.token = token[c] => kv.token = token[c]

-----------------------------------------------------------------------------
(* Types                                                                    *)

Writes == [from : Tokens, token : Tokens \cup {NoToken}, expires : Int, expected : Nat]

\* The write that a client may have sent, by its step.
LEMMA InFlightShape ==
  ASSUME TypeOK, TokenInv, NEW c \in Clients, NEW w \in InFlight(c)
  PROVE  /\ w \in Writes
         /\ w.from = token[c]
         /\ \/ /\ pc[c] = "create" /\ kv.token = NoToken /\ w.expected = kv.revision
               /\ w.token = token[c] /\ w.expires = captured[c] + Lease
            \/ /\ pc[c] = "reclaim" /\ w.expected = seen[c]
               /\ w.token = token[c] /\ w.expires = captured[c] + Lease
            \/ /\ pc[c] = "renew" /\ w.expected = revision[c]
               /\ w.token = token[c] /\ w.expires = captured[c] + Lease
            \/ /\ pc[c] = "delete" /\ w.expected = seen[c]
               /\ w.token = NoToken
PROOF
<1> USE LeaseAssumption
<1>t. /\ token[c] \in Tokens \cup {NoToken} /\ captured[c] \in Int
      /\ seen[c] \in Nat /\ revision[c] \in Nat /\ kv.revision \in Nat /\ Lease \in Int
  BY DEF TypeOK
<1>n. pc[c] \in {"create", "reclaim", "renew", "delete"} => token[c] \in Tokens
  BY <1>t, Zenon DEF TokenInv
<1>1. CASE pc[c] = "create"
  <2>1. kv.token = NoToken BY <1>1, Zenon DEF InFlight
  <2>2. w = [from |-> token[c], token |-> token[c], expires |-> captured[c] + Lease,
             expected |-> kv.revision]
    BY <1>1, <2>1, Zenon DEF InFlight
  <2>3. QED BY <1>1, <1>t, <1>n, <2>1, <2>2 DEF Writes
<1>2. CASE pc[c] = "reclaim"
  <2>2. w = [from |-> token[c], token |-> token[c], expires |-> captured[c] + Lease,
             expected |-> seen[c]]
    BY <1>2, Zenon DEF InFlight
  <2>3. QED BY <1>2, <1>t, <1>n, <2>2 DEF Writes
<1>3. CASE pc[c] = "renew"
  <2>2. w = [from |-> token[c], token |-> token[c], expires |-> captured[c] + Lease,
             expected |-> revision[c]]
    BY <1>3, Zenon DEF InFlight
  <2>3. QED BY <1>3, <1>t, <1>n, <2>2 DEF Writes
<1>4. CASE pc[c] = "delete"
  <2>2. w = [from |-> token[c], token |-> NoToken, expires |-> 0, expected |-> seen[c]]
    BY <1>4, Zenon DEF InFlight
  <2>3. QED BY <1>4, <1>t, <1>n, <2>2 DEF Writes
<1>5. CASE pc[c] \notin {"create", "reclaim", "renew", "delete"}
  BY <1>5, Zenon DEF InFlight
<1>6. QED BY <1>1, <1>2, <1>3, <1>4, <1>5, Zenon

\* A client that gives up rests or ends, and its timers keep their types.
LEMMA BackOffEnds ==
  ASSUME TypeOK, NEW c \in Clients, BackOff(c)
  PROVE  /\ \/ pc' = [pc EXCEPT ![c] = "idle"]
            \/ pc' = [pc EXCEPT ![c] = "ended"]
         /\ wakeAt' \in [Clients -> Nat] /\ pause' \in [Clients -> Nat]
PROOF
<1>1. now \in Nat /\ pause \in [Clients -> Nat] /\ wakeAt \in [Clients -> Nat]
  BY LeaseAssumption DEF TypeOK
<1>2. CASE c \in Relays
  <2>1. NextPause(pause[c]) \in Nat BY <1>1, LeaseAssumption DEF NextPause
  <2>2. PICK jitter \in 0..(pause[c] \div 2) :
          wakeAt' = [wakeAt EXCEPT ![c] = now + pause[c] + jitter]
    BY <1>2, Zenon DEF BackOff
  <2>3. jitter \in Nat BY <1>1
  <2>4. QED BY <1>1, <1>2, <2>1, <2>2, <2>3 DEF BackOff
<1>3. CASE c \notin Relays BY <1>1, <1>3, Zenon DEF BackOff
<1>4. QED BY <1>2, <1>3, Zenon

\* A step of AcquireLock that gets no lease, or the end of one: the client is left
\* without a lease, and the others are where they were.
AttemptMoves(c) ==
  /\ pc'[c] \notin Leased /\ token'[c] \in {token[c], NoToken}
  /\ pc'[c] \in {"create", "get", "reclaim"} => captured'[c] \in {captured[c], Clock(c)}
  /\ pc'[c] = "reclaim" => captured'[c] = captured[c] /\ Expired(c)
  /\ \A d \in Clients : d # c =>
       /\ pc'[d] = pc[d] /\ token'[d] = token[d]
       /\ seen'[d] = seen[d] /\ captured'[d] = captured[d]

\* A client that gives up moves nobody else.
LEMMA GiveUpMoves ==
  ASSUME TypeOK, NEW c \in Clients, GiveUp(c)
  PROVE  AttemptMoves(c) /\ pc'[c] \in {"idle", "ended"} /\ token'[c] = NoToken
PROOF
<1>1. /\ \A d \in Clients : d # c => pc'[d] = pc[d]
      /\ pc'[c] \in {"idle", "ended"}
  <2>1. pc \in [Clients -> Maintained \cup {"idle", "create", "get", "reclaim", "wait",
                                           "done", "ended", "crashed"}]
    BY Zenon DEF TypeOK
  <2>2. pc' = [pc EXCEPT ![c] = "idle"] \/ pc' = [pc EXCEPT ![c] = "ended"]
    BY BackOffEnds, Zenon DEF GiveUp
  <2>3. QED BY <2>1, <2>2, Zenon
<1>2. /\ token'[c] = NoToken
      /\ \A d \in Clients : d # c =>
           token'[d] = token[d] /\ seen'[d] = seen[d] /\ captured'[d] = captured[d]
  BY Zenon DEF GiveUp, EndLoop, TypeOK
<1>3. QED BY <1>1, <1>2, Zenon DEF AttemptMoves, Leased, Maintained

\* The steps of AcquireLock that get no lease move one client, and leave alone the
\* entry, the handles and what their callers do.
LEMMA AttemptFrame ==
  ASSUME TypeOK, NEW c \in Clients,
         Get(c) \/ Retry(c) \/ (Create(c) /\ ~StartLease(c)) \/ (Reclaim(c) /\ ~StartLease(c))
  PROVE  /\ AttemptMoves(c) /\ pc[c] \notin Leased /\ (late' = late \/ Unanswered(c))
         /\ UNCHANGED <<now, kv, newest, cancelled, use, leaseVars>>
PROOF
<1>t. /\ pc \in [Clients -> Maintained \cup {"idle", "create", "get", "reclaim", "wait",
                                            "done", "ended", "crashed"}]
      /\ captured \in [Clients -> Int] /\ seen \in [Clients -> Nat]
  BY Zenon DEF TypeOK
<1>g. GiveUp(c) => AttemptMoves(c) BY GiveUpMoves, Zenon
<1>a. Again(c) => AttemptMoves(c) BY <1>t, Zenon DEF Again, AttemptMoves, Leased, Maintained
<1>n. NextAttempt(c) => AttemptMoves(c)
  BY <1>t, <1>g, Zenon DEF NextAttempt, loopVars, AttemptMoves, Leased, Maintained
<1>1. CASE Get(c)
  <2>1. CASE /\ Expired(c) /\ seen' = [seen EXCEPT ![c] = kv.revision]
             /\ pc' = [pc EXCEPT ![c] = "reclaim"] /\ UNCHANGED <<token, captured>>
    <3>1. AttemptMoves(c) BY <1>t, <2>1, Zenon DEF AttemptMoves, Leased, Maintained
    <3>2. QED BY <1>1, <3>1, Zenon DEF Get, history, Leased, Maintained
  <2>2. CASE GiveUp(c) \/ Again(c) \/ NextAttempt(c)
    BY <1>1, <2>2, <1>g, <1>a, <1>n, Zenon DEF Get, history, Leased, Maintained
  <2>3. QED BY <1>1, <2>1, <2>2, Zenon DEF Get
<1>2. CASE Retry(c)
  BY <1>2, <1>g, <1>a, Zenon DEF Retry, history, Leased, Maintained
<1>3. CASE Create(c) /\ ~StartLease(c)
  <2>1. CASE /\ pc' = [pc EXCEPT ![c] = "get"]
             /\ UNCHANGED <<late, kv, token, loopVars, leaseVars, use>>
    <3>1. AttemptMoves(c) BY <1>t, <2>1, Zenon DEF AttemptMoves, loopVars, Leased, Maintained
    <3>2. QED BY <1>3, <2>1, <3>1, Zenon DEF Create, Leased, Maintained
  <2>2. CASE GiveUp(c) /\ Unanswered(c) /\ UNCHANGED <<kv, leaseVars, use>>
    BY <1>3, <2>2, <1>g, Zenon DEF Create, Leased, Maintained
  <2>3. QED BY <1>3, <2>1, <2>2, Zenon DEF Create
<1>4. CASE Reclaim(c) /\ ~StartLease(c)
  BY <1>4, <1>n, Zenon DEF Reclaim, Leased, Maintained
<1>5. QED BY <1>1, <1>2, <1>3, <1>4, Zenon

\* The end of a lease moves one client, and leaves the entry alone.
LEMMA ReturnFrame ==
  ASSUME TypeOK, NEW c \in Clients, Return(c)
  PROVE  /\ AttemptMoves(c) /\ pc'[c] \in {"idle", "ended"}
         /\ token'[c] = NoToken /\ use'[c] = "out"
         /\ UNCHANGED <<now, kv, late, newest, cancelled>>
         /\ \A d \in Clients : d # c =>
              /\ revision'[d] = revision[d] /\ acquired'[d] = acquired[d]
              /\ expires'[d] = expires[d] /\ use'[d] = use[d]
              /\ d \in lost' <=> d \in lost
              /\ d \in stop' <=> d \in stop
PROOF
<1>1. AttemptMoves(c) /\ pc'[c] \in {"idle", "ended"} /\ token'[c] = NoToken
  BY GiveUpMoves, Zenon DEF Return
<1>2. UNCHANGED <<now, kv, late, newest, cancelled>> BY Zenon DEF Return, history
<1>3. use'[c] = "out" /\ \A d \in Clients : d # c => use'[d] = use[d]
  BY Zenon DEF Return, TypeOK
<1>4. \A d \in Clients : d # c =>
        /\ revision'[d] = revision[d] /\ acquired'[d] = acquired[d]
        /\ expires'[d] = expires[d]
  BY Zenon DEF Return, TypeOK
<1>5. \A d \in Clients : d # c => (d \in lost' <=> d \in lost) /\ (d \in stop' <=> d \in stop)
  BY Zenon DEF Return
<1>6. QED BY <1>1, <1>2, <1>3, <1>4, <1>5, Zenon

\* Every step of the clients and of the bucket keeps the types.
LEMMA TypeStep ==
  ASSUME TypeOK, TokenInv, Next
  PROVE  TypeOK'
PROOF
<1> USE LeaseAssumption DEF loopVars, leaseVars, timers, history
<1>w. ASSUME NEW c \in Clients, Unanswered(c) PROVE \A w \in late' : w \in Writes
  BY <1>w, InFlightShape, Zenon DEF Unanswered, TypeOK, Writes
<1>1. ASSUME NEW c \in Clients PROVE Begin(c) => TypeOK'
  BY DEF Begin, Clock, TypeOK, Maintained
<1>2. ASSUME NEW c \in Clients, Create(c) PROVE TypeOK'
  <2>1. \A w \in late' : w \in Writes
    BY <1>2, <1>w, Zenon DEF Create, StartLease, TypeOK, Writes
  <2>2. CASE StartLease(c)
    BY <1>2, <2>2 DEF Create, StartLease, EndLoop, Store, LeaseUntil, TypeOK, Maintained
  <2>3. CASE GiveUp(c) /\ OpFails(c \in cancelled) /\ UNCHANGED <<kv, beat, leaseVars, use, vacant>>
    BY <1>2, <2>1, <2>3, BackOffEnds
        DEF Create, GiveUp, EndLoop, OpFails, TypeOK, Maintained, Writes
  <2>4. CASE /\ pc' = [pc EXCEPT ![c] = "get"]
             /\ UNCHANGED <<kv, late, token, loopVars, timers, leaseVars, use, vacant, faults>>
    BY <1>2, <2>4, Zenon DEF Create, TypeOK, Maintained
  <2>5. QED BY <1>2, <2>2, <2>3, <2>4, Zenon DEF Create
<1>3. ASSUME NEW c \in Clients PROVE Get(c) => TypeOK'
  BY BackOffEnds, SMTT(60)
      DEF Get, Again, GiveUp, NextAttempt, EndLoop, MayRetry, Clock, OpFails,
      TypeOK, Maintained
<1>4. ASSUME NEW c \in Clients, Reclaim(c) PROVE TypeOK'
  <2>1. \A w \in late' : w \in Writes
    BY <1>4, <1>w, Zenon DEF Reclaim, StartLease, TypeOK, Writes
  <2>2. QED BY <1>4, <2>1, BackOffEnds, SMTT(60)
      DEF Reclaim, StartLease, NextAttempt, MayRetry, GiveUp, EndLoop, Store, LeaseUntil,
      OpFails, TypeOK, Maintained, Writes
<1>5. ASSUME NEW c \in Clients, Retry(c) PROVE TypeOK'
  <2>1. CASE Again(c)
    BY <1>5, <2>1 DEF Retry, Again, Clock, TypeOK, TokenInv, Maintained
  <2>2. CASE GiveUp(c)
    BY <1>5, <2>2, BackOffEnds DEF Retry, GiveUp, EndLoop, TypeOK, Maintained
  <2>3. QED BY <1>5, <2>1, <2>2, Zenon DEF Retry
<1>6. ASSUME NEW c \in Clients PROVE Beat(c) => TypeOK'
  BY DEF Beat, Clock, TypeOK, Maintained
<1>7. ASSUME NEW c \in Clients, Renew(c) PROVE TypeOK'
  <2>1. \A w \in late' : w \in Writes
    BY <1>7, <1>w, Zenon DEF Renew, TypeOK, Writes
  <2>2. QED BY <1>7, <2>1 DEF Renew, EndLoop, Store, OpFails, TypeOK, Maintained, Writes
<1>8. ASSUME NEW c \in Clients PROVE Verify(c) => TypeOK'
  BY DEF Verify, AfterFailure, OpFails, TypeOK, Maintained
<1>9. ASSUME NEW c \in Clients PROVE EndMaintain(c) => TypeOK'
  BY Zenon DEF EndMaintain, TypeOK, Maintained
<1>10. ASSUME NEW c \in Clients PROVE Inspect(c) => TypeOK'
  BY DEF Inspect, ReleaseAgain, MayRetry, OpFails, TypeOK, Maintained
<1>11. ASSUME NEW c \in Clients, Delete(c) PROVE TypeOK'
  <2>1. \A w \in late' : w \in Writes
    BY <1>11, <1>w, Zenon DEF Delete, TypeOK, Writes
  <2>2. QED BY <1>11, <2>1
      DEF Delete, Store, ReleaseAgain, MayRetry, OpFails, TypeOK, Maintained, Writes
<1>12. ASSUME NEW c \in Clients PROVE CheckBegin(c) => TypeOK'
  BY Zenon DEF CheckBegin, Leave, MarkLost, TypeOK, Maintained
<1>13. ASSUME NEW c \in Clients PROVE CheckEnd(c) => TypeOK'
  BY DEF CheckEnd, Leave, MarkLost, OpFails, TypeOK, Maintained
<1>14. ASSUME NEW c \in Clients PROVE Work(c) => TypeOK'
  BY Zenon DEF Work, TypeOK, Maintained
<1>15. ASSUME NEW c \in Clients PROVE Finish(c) => TypeOK'
  BY Zenon DEF Finish, Leave, TypeOK, Maintained
<1>16. ASSUME NEW c \in Clients PROVE Return(c) => TypeOK'
  BY BackOffEnds DEF Return, GiveUp, EndLoop, TypeOK, Maintained
<1>17. ASSUME NEW c \in Clients PROVE Cancel(c) => TypeOK'
  BY DEF Cancel, TypeOK, Maintained
<1>18. ASSUME NEW c \in Clients, Crash(c) PROVE TypeOK'
  <2>1. \A w \in late' : w \in Writes
    BY <1>18, <1>w, Zenon DEF Crash, TypeOK, Writes
  <2>2. QED BY <1>18, <2>1 DEF Crash, TypeOK, Maintained, Writes
<1>19. LateArrives => TypeOK' BY DEF LateArrives, Store, TypeOK, Maintained
<1>20. LateDropped => TypeOK' BY Zenon DEF LateDropped, TypeOK, Maintained
<1>21. Tick => TypeOK' BY DEF Tick, TypeOK, Maintained
<1>22. QED
  BY Zenon, <1>1, <1>2, <1>3, <1>4, <1>5, <1>6, <1>7, <1>8, <1>9, <1>10, <1>11,
     <1>12, <1>13, <1>14, <1>15, <1>16, <1>17, <1>18, <1>19, <1>20, <1>21
  DEF Next, Acquiring, Maintaining, Using

-----------------------------------------------------------------------------
(* Tokens                                                                   *)

\* A client's token is its own, and no write under it asks for a revision to come.
LEMMA TokenStep ==
  ASSUME TypeOK, TokenInv, OwnInv, Next
  PROVE  TokenInv'
PROOF
<1> USE LeaseAssumption DEF loopVars, leaseVars, timers, history, Leased, Maintained
<1>w. ASSUME NEW c \in Clients, Unanswered(c)
      PROVE  \A w \in late' : w.expected <= kv.revision /\ w.token \in {NoToken, w.from}
  <2>1. \A w \in InFlight(c) : w.expected <= kv.revision /\ w.token \in {NoToken, w.from}
    BY InFlightShape DEF TokenInv, OwnInv, TypeOK
  <2>2. QED BY <1>w, <2>1, Zenon DEF Unanswered, TokenInv
<1>s. ASSUME NEW c \in Clients, StartLease(c), pc[c] \in {"create", "reclaim"} PROVE TokenInv'
  BY <1>s DEF StartLease, EndLoop, Store, TypeOK, TokenInv
<1>g. ASSUME NEW c \in Clients, GiveUp(c), use' = use, kv' = kv, pc[c] \notin Leased,
             \A w \in late' : w.expected <= kv.revision /\ w.token \in {NoToken, w.from}
      PROVE  TokenInv'
  BY <1>g, BackOffEnds DEF GiveUp, EndLoop, TypeOK, TokenInv
<1>a. ASSUME NEW c \in Clients, Again(c), UNCHANGED <<use, kv, late>>, pc[c] \in {"get", "wait"}
      PROVE  TokenInv'
  BY <1>a DEF Again, TypeOK, TokenInv
<1>n. ASSUME NEW c \in Clients, NextAttempt(c), UNCHANGED <<use, kv>>, pc[c] \in {"get", "reclaim"},
             \A w \in late' : w.expected <= kv.revision /\ w.token \in {NoToken, w.from}
      PROVE  TokenInv'
  <2>1. CASE GiveUp(c) BY <2>1, <1>n, <1>g, Zenon
  <2>2. CASE ~GiveUp(c) BY <2>2, <1>n DEF NextAttempt, MayRetry, TypeOK, TokenInv
  <2>3. QED BY <2>1, <2>2, Zenon
<1>1. ASSUME NEW c \in Clients PROVE Begin(c) => TokenInv'
  BY DEF Begin, Clock, InUse, TypeOK, TokenInv
<1>2. ASSUME NEW c \in Clients, Create(c) PROVE TokenInv'
  <2>1. \A w \in late' : w.expected <= kv.revision /\ w.token \in {NoToken, w.from}
    BY <1>2, <1>w, Zenon DEF Create, StartLease, TokenInv
  <2>2. CASE StartLease(c) BY <1>2, <2>2, <1>s, Zenon DEF Create
  <2>3. CASE GiveUp(c) /\ kv' = kv /\ use' = use BY <1>2, <2>1, <2>3, <1>g, Zenon DEF Create
  <2>4. CASE /\ pc' = [pc EXCEPT ![c] = "get"]
             /\ UNCHANGED <<kv, late, token, loopVars, use>>
    BY <1>2, <2>4 DEF Create, TypeOK, TokenInv
  <2>5. QED BY <1>2, <2>2, <2>3, <2>4, Zenon DEF Create
<1>3. ASSUME NEW c \in Clients, Get(c) PROVE TokenInv'
  <2>1. \A w \in late' : w.expected <= kv.revision /\ w.token \in {NoToken, w.from}
    BY <1>3, Zenon DEF Get, TokenInv
  <2>2. CASE GiveUp(c) BY <1>3, <2>1, <2>2, <1>g, Zenon DEF Get
  <2>3. CASE Again(c) BY <1>3, <2>3, <1>a, Zenon DEF Get
  <2>4. CASE NextAttempt(c) BY <1>3, <2>1, <2>4, <1>n, Zenon DEF Get
  <2>5. CASE /\ seen' = [seen EXCEPT ![c] = kv.revision]
             /\ pc' = [pc EXCEPT ![c] = "reclaim"]
             /\ UNCHANGED <<token, attempt>>
    BY <1>3, <2>5 DEF Get, TypeOK, TokenInv
  <2>6. QED BY <1>3, <2>2, <2>3, <2>4, <2>5, Zenon DEF Get
<1>4. ASSUME NEW c \in Clients, Reclaim(c) PROVE TokenInv'
  <2>1. \A w \in late' : w.expected <= kv.revision /\ w.token \in {NoToken, w.from}
    BY <1>4, <1>w, Zenon DEF Reclaim, StartLease, TokenInv
  <2>2. CASE StartLease(c) BY <1>4, <2>2, <1>s, Zenon DEF Reclaim
  <2>3. CASE NextAttempt(c) /\ UNCHANGED <<kv, use>> BY <1>4, <2>1, <2>3, <1>n, Zenon DEF Reclaim
  <2>4. QED BY <1>4, <2>2, <2>3, Zenon DEF Reclaim
<1>5. ASSUME NEW c \in Clients, Retry(c) PROVE TokenInv'
  <2>1. \A w \in late' : w.expected <= kv.revision /\ w.token \in {NoToken, w.from}
    BY <1>5, Zenon DEF Retry, TokenInv
  <2>2. CASE GiveUp(c) BY <1>5, <2>1, <2>2, <1>g, Zenon DEF Retry
  <2>3. CASE Again(c) BY <1>5, <2>3, <1>a, Zenon DEF Retry
  <2>4. QED BY <1>5, <2>2, <2>3, Zenon DEF Retry
<1>6. ASSUME NEW c \in Clients PROVE Beat(c) => TokenInv'
  BY DEF Beat, Clock, TypeOK, TokenInv
<1>7. ASSUME NEW c \in Clients, Renew(c) PROVE TokenInv'
  <2>1. \A w \in late' : w.expected <= kv.revision /\ w.token \in {NoToken, w.from}
    BY <1>7, <1>w, Zenon DEF Renew, TokenInv
  <2>2. QED BY <1>7, <2>1, SMTT(30) DEF Renew, EndLoop, Store, OpFails, TypeOK, TokenInv
<1>8. ASSUME NEW c \in Clients PROVE Verify(c) => TokenInv'
  BY DEF Verify, AfterFailure, OpFails, TypeOK, TokenInv
<1>9. ASSUME NEW c \in Clients PROVE EndMaintain(c) => TokenInv'
  BY DEF EndMaintain, TypeOK, TokenInv
<1>10. ASSUME NEW c \in Clients PROVE Inspect(c) => TokenInv'
  BY SMTT(30) DEF Inspect, ReleaseAgain, MayRetry, OpFails, TypeOK, TokenInv
<1>11. ASSUME NEW c \in Clients, Delete(c) PROVE TokenInv'
  <2>1. \A w \in late' : w.expected <= kv.revision /\ w.token \in {NoToken, w.from}
    BY <1>11, <1>w, Zenon DEF Delete, TokenInv
  <2>2. QED BY <1>11, <2>1 DEF Delete, Store, ReleaseAgain, MayRetry, OpFails, TypeOK, TokenInv
<1>12. ASSUME NEW c \in Clients PROVE CheckBegin(c) => TokenInv'
  BY DEF CheckBegin, Leave, MarkLost, TypeOK, TokenInv
<1>13. ASSUME NEW c \in Clients PROVE CheckEnd(c) => TokenInv'
  BY DEF CheckEnd, Leave, MarkLost, OpFails, TypeOK, TokenInv
<1>14. ASSUME NEW c \in Clients PROVE Work(c) => TokenInv'
  BY DEF Work, TypeOK, TokenInv
<1>15. ASSUME NEW c \in Clients PROVE Finish(c) => TokenInv'
  BY DEF Finish, Leave, TypeOK, TokenInv
<1>16. ASSUME NEW c \in Clients PROVE Return(c) => TokenInv'
  BY BackOffEnds DEF Return, GiveUp, EndLoop, TypeOK, TokenInv
<1>17. ASSUME NEW c \in Clients PROVE Cancel(c) => TokenInv'
  BY DEF Cancel, TypeOK, TokenInv
<1>18. ASSUME NEW c \in Clients, Crash(c) PROVE TokenInv'
  <2>1. \A w \in late' : w.expected <= kv.revision /\ w.token \in {NoToken, w.from}
    BY <1>18, <1>w, Zenon DEF Crash, TokenInv
  <2>2. QED BY <1>18, <2>1 DEF Crash, TypeOK, TokenInv
<1>19. LateArrives => TokenInv' BY DEF LateArrives, Store, TypeOK, TokenInv
<1>20. LateDropped => TokenInv' BY DEF LateDropped, TypeOK, TokenInv
<1>21. Tick => TokenInv' BY DEF Tick, TypeOK, TokenInv
<1>22. QED
  BY Zenon, <1>1, <1>2, <1>3, <1>4, <1>5, <1>6, <1>7, <1>8, <1>9, <1>10, <1>11,
     <1>12, <1>13, <1>14, <1>15, <1>16, <1>17, <1>18, <1>19, <1>20, <1>21
  DEF Next, Acquiring, Maintaining, Using

(* Ownership                                                                *)

\* What OwnInv says of a write that may still arrive.
OwnWrite(w) ==
  w.expected = kv.revision =>
    /\ w.token = NoToken => kv.token = w.from
    /\ \A c \in Clients : pc[c] \in Leased /\ w.token = token[c] => kv.token = token[c]

\* A call the server never answers adds at most a write its client may still make.
LEMMA OwnUnanswered ==
  ASSUME TypeOK, TokenInv, OwnInv, NEW c \in Clients, Unanswered(c)
  PROVE  \A w \in late' : OwnWrite(w)
PROOF
<1>1. \A w \in late : OwnWrite(w) BY Zenon DEF OwnInv, OwnWrite
<1>2. ASSUME NEW w \in InFlight(c) PROVE OwnWrite(w)
  BY <1>2, InFlightShape, LeaseAssumption, SMTT(30)
      DEF OwnWrite, TypeOK, TokenInv, OwnInv, Leased, Maintained
<1>3. QED BY <1>1, <1>2, Zenon DEF Unanswered

\* A step that leaves the entry and the handles alone.
OwnFrame ==
  /\ kv' = kv /\ newest' = newest
  /\ \A w \in late' : OwnWrite(w)
  /\ \A d \in Clients : pc'[d] \in Leased =>
       /\ pc[d] \in Leased /\ token'[d] = token[d]
       /\ revision'[d] = revision[d] /\ acquired'[d] = acquired[d]
  /\ \A d \in Clients :
       pc'[d] = "delete" /\ seen'[d] = kv.revision => kv.token = token'[d]

\* A step that changes neither the entry nor who holds a lease keeps OwnInv.
LEMMA OwnQuiet ==
  ASSUME OwnInv, OwnFrame
  PROVE  OwnInv'
BY Zenon DEF OwnInv, OwnWrite, OwnFrame

\* A step in which the bucket accepts a write.
LEMMA OwnStore ==
  ASSUME TypeOK, TokenInv, OwnInv, NEW t, NEW e, Store(t, e), newest' = newest,
         late' \subseteq late,
         \A d \in Clients : seen'[d] <= kv.revision,
         \A d \in Clients : pc'[d] \in Leased =>
           /\ acquired'[d] <= revision'[d] /\ revision'[d] <= kv.revision + 1
           /\ revision'[d] = kv.revision + 1 => t = token'[d]
           /\ t = token'[d] => acquired'[d] >= newest
  PROVE  OwnInv'
PROOF
<1>1. kv'.token = t /\ kv'.revision = kv.revision + 1 BY Zenon DEF Store
<1>2. \A w \in late' : w.expected <= kv.revision /\ w.expected \in Nat BY DEF TokenInv, TypeOK
<1>3. kv.revision \in Nat /\ newest \in Nat /\ newest <= kv.revision BY Zenon DEF TypeOK, OwnInv
<1>4. \A w \in late' : w.expected # kv'.revision BY <1>1, <1>2, <1>3
<1>5. \A d \in Clients : ~(seen'[d] = kv.revision + 1) BY <1>3
<1>6. QED BY <1>1, <1>3, <1>4, <1>5 DEF OwnInv

\* AcquireLock writes the entry.
LEMMA OwnStart ==
  ASSUME TypeOK, TokenInv, OwnInv, NEW c \in Clients, StartLease(c), newest' = newest,
         pc[c] \in {"create", "reclaim"}
  PROVE  OwnInv'
PROOF
<1>1. Store(token[c], captured[c] + Lease) /\ late' = late BY Zenon DEF StartLease
<1>2. \A d \in Clients : seen'[d] <= kv.revision BY DEF StartLease, EndLoop, TypeOK, TokenInv
<1>3. \A d \in Clients : pc'[d] \in Leased =>
        /\ acquired'[d] <= revision'[d] /\ revision'[d] <= kv.revision + 1
        /\ revision'[d] = kv.revision + 1 => token[c] = token'[d]
        /\ token[c] = token'[d] => acquired'[d] >= newest
  BY DEF StartLease, TypeOK, TokenInv, OwnInv, Leased, Maintained
<1>4. QED BY <1>1, <1>2, <1>3, OwnStore, Zenon

\* A renewal is accepted.
LEMMA OwnRenew ==
  ASSUME TypeOK, TokenInv, OwnInv, NEW c \in Clients, Renew(c), kv' # kv
  PROVE  OwnInv'
PROOF
<1> USE LeaseAssumption DEF leaseVars, history
<1>1. /\ Store(token[c], captured[c] + Lease) /\ late' = late /\ newest' = newest
      /\ revision[c] = kv.revision /\ pc[c] = "renew"
  BY Zenon DEF Renew, Accepts
<1>2. \A d \in Clients : seen'[d] <= kv.revision BY DEF Renew, EndLoop, TypeOK, TokenInv
<1>3. kv.token = token[c] /\ acquired[c] >= newest BY <1>1, Zenon DEF OwnInv, Leased, Maintained
<1>4. \A d \in Clients : pc'[d] \in Leased =>
        /\ acquired'[d] <= revision'[d] /\ revision'[d] <= kv.revision + 1
        /\ revision'[d] = kv.revision + 1 => token[c] = token'[d]
        /\ token[c] = token'[d] => acquired'[d] >= newest
  BY <1>1, <1>3 DEF Renew, TypeOK, TokenInv, OwnInv, Leased, Maintained
<1>5. QED BY <1>1, <1>2, <1>4, OwnStore, Zenon

\* releaseRemote deletes the entry.
LEMMA OwnDelete ==
  ASSUME TypeOK, TokenInv, OwnInv, NEW c \in Clients, Delete(c), kv' # kv
  PROVE  OwnInv'
PROOF
<1> USE LeaseAssumption DEF leaseVars, history
<1>1. /\ Store(NoToken, 0) /\ late' = late /\ UNCHANGED <<newest, token, revision, acquired>>
      /\ seen' = seen
  BY Zenon DEF Delete, ReleaseAgain
<1>2. \A d \in Clients : pc'[d] \in Leased => pc[d] \in Leased
  BY Zenon DEF Delete, ReleaseAgain, TypeOK, Leased, Maintained
<1>3. \A d \in Clients : pc[d] \in Leased => token[d] # NoToken
  BY Zenon DEF TokenInv, Leased, Maintained
<1>4. \A d \in Clients : seen'[d] <= kv.revision BY <1>1, Zenon DEF TokenInv
<1>5. \A d \in Clients : pc'[d] \in Leased =>
        /\ acquired'[d] <= revision'[d] /\ revision'[d] <= kv.revision + 1
        /\ revision'[d] = kv.revision + 1 => NoToken = token'[d]
        /\ NoToken = token'[d] => acquired'[d] >= newest
  BY <1>1, <1>2, <1>3 DEF OwnInv, TypeOK
<1>6. QED BY <1>1, <1>4, <1>5, OwnStore, Zenon

\* A check passes.
LEMMA OwnCheck ==
  ASSUME TypeOK, TokenInv, OwnInv, NEW c \in Clients, CheckEnd(c), newest' # newest
  PROVE  OwnInv'
PROOF
<1>1. newest' = acquired[c] /\ kv.token = token[c] /\ use[c] = "check"
  BY Zenon DEF CheckEnd, StillOwns
<1>2. pc[c] \in Leased BY <1>1, Zenon DEF TokenInv
<1>3. token[c] # NoToken BY <1>2, Zenon DEF TokenInv, Leased, Maintained
<1>4. acquired[c] <= kv.revision /\ acquired[c] \in Nat BY <1>2 DEF OwnInv, TypeOK
<1>5. \A d \in Clients : kv.token = token[d] => acquired[d] >= newest'
  <2>1. \A d \in Clients : kv.token = token[d] => d = c
    BY <1>1, <1>3, Zenon DEF TokenInv
  <2>2. QED BY <1>1, <1>4, <2>1
<1>6. UNCHANGED <<kv, late, pc, token, revision, acquired, seen>>
  BY Zenon DEF CheckEnd, loopVars
<1>7. QED BY <1>1, <1>4, <1>5, <1>6, Zenon DEF OwnInv

\* A late write is accepted.
LEMMA OwnLate ==
  ASSUME TypeOK, TokenInv, OwnInv, LateArrives
  PROVE  OwnInv'
PROOF
<1>1. PICK w \in late : /\ w.expected = kv.revision
                       /\ Store(w.token, w.expires) /\ late' \subseteq late
                       /\ UNCHANGED <<newest, pc, seen, token, revision, acquired>>
  BY Zenon DEF LateArrives, Accepts, loopVars, leaseVars, history
<1>2. \A d \in Clients : seen'[d] <= kv.revision BY <1>1, Zenon DEF TokenInv
<1>3. OwnWrite(w) BY Zenon DEF OwnInv, OwnWrite
<1>4. \A d \in Clients : pc'[d] \in Leased =>
        /\ acquired'[d] <= revision'[d] /\ revision'[d] <= kv.revision + 1
        /\ revision'[d] = kv.revision + 1 => w.token = token'[d]
        /\ w.token = token'[d] => acquired'[d] >= newest
  BY <1>1, <1>3 DEF OwnWrite, OwnInv, TypeOK
<1>5. QED BY <1>1, <1>2, <1>4, OwnStore, Zenon

\* Every step keeps what a client knows of the revision of its entry.
LEMMA OwnStep ==
  ASSUME TypeOK, TokenInv, OwnInv, Next
  PROVE  OwnInv'
PROOF
<1> USE LeaseAssumption DEF loopVars, leaseVars, timers, history
<1>u. \A w \in late : OwnWrite(w) BY Zenon DEF OwnInv, OwnWrite
<1> USE <1>u
<1>1. ASSUME NEW c \in Clients PROVE Begin(c) => OwnFrame
  BY SMTT(30) DEF OwnFrame, Begin, TypeOK, Leased, Maintained, OwnInv
<1>2. ASSUME NEW c \in Clients,
             \/ Get(c) \/ Retry(c)
             \/ (Create(c) /\ ~StartLease(c)) \/ (Reclaim(c) /\ ~StartLease(c))
      PROVE  OwnFrame
  <2>1. /\ AttemptMoves(c) /\ (late' = late \/ Unanswered(c))
        /\ UNCHANGED <<kv, newest, revision, acquired>>
    BY <1>2, AttemptFrame, Zenon
  <2>2. \A w \in late' : OwnWrite(w) BY <2>1, OwnUnanswered, Zenon
  <2>3. QED BY <2>1, <2>2, Zenon DEF OwnFrame, AttemptMoves, Leased, Maintained, OwnInv
<1>6. ASSUME NEW c \in Clients PROVE Beat(c) => OwnFrame
  BY SMTT(30) DEF OwnFrame, Beat, TypeOK, Leased, Maintained, OwnInv
<1>7. ASSUME NEW c \in Clients, kv' = kv PROVE Renew(c) => OwnFrame
  BY <1>7, OwnUnanswered, SMTT(30) DEF OwnFrame, Renew, EndLoop, Store, TypeOK, Leased,
      Maintained, OwnInv
<1>8. ASSUME NEW c \in Clients PROVE Verify(c) => OwnFrame
  BY DEF OwnFrame, Verify, AfterFailure, TypeOK, Leased, Maintained, OwnInv
<1>9. ASSUME NEW c \in Clients PROVE EndMaintain(c) => OwnFrame
  BY DEF OwnFrame, EndMaintain, TypeOK, Leased, Maintained, OwnInv
<1>10. ASSUME NEW c \in Clients PROVE Inspect(c) => OwnFrame
  BY ZenonT(60) DEF OwnFrame, Inspect, ReleaseAgain, MayRetry, TypeOK, Leased, Maintained,
      OwnInv, Releases
<1>11. ASSUME NEW c \in Clients, kv' = kv PROVE Delete(c) => OwnFrame
  BY <1>11, OwnUnanswered, ZenonT(60) DEF OwnFrame, Delete, ReleaseAgain, MayRetry, Store, TypeOK,
      Leased, Maintained, OwnInv
<1>12. ASSUME NEW c \in Clients PROVE CheckBegin(c) => OwnFrame
  BY Zenon DEF OwnFrame, CheckBegin, Leave, MarkLost, TypeOK, Leased, Maintained, OwnInv
<1>13. ASSUME NEW c \in Clients, newest' = newest PROVE CheckEnd(c) => OwnFrame
  BY <1>13, Zenon DEF OwnFrame, CheckEnd, Leave, MarkLost, TypeOK, Leased, Maintained, OwnInv
<1>14. ASSUME NEW c \in Clients PROVE Work(c) => OwnFrame
  BY Zenon DEF OwnFrame, Work, TypeOK, Leased, Maintained, OwnInv
<1>15. ASSUME NEW c \in Clients PROVE Finish(c) => OwnFrame
  BY Zenon DEF OwnFrame, Finish, Leave, TypeOK, Leased, Maintained, OwnInv
<1>16. ASSUME NEW c \in Clients, Return(c) PROVE OwnFrame
  <2>1. /\ AttemptMoves(c) /\ UNCHANGED <<kv, late, newest>>
        /\ \A d \in Clients : d # c => revision'[d] = revision[d] /\ acquired'[d] = acquired[d]
    BY <1>16, ReturnFrame, Zenon
  <2>2. QED BY <2>1, Zenon DEF OwnFrame, AttemptMoves, Leased, Maintained, OwnInv
<1>17. ASSUME NEW c \in Clients PROVE Cancel(c) => OwnFrame
  BY Zenon DEF OwnFrame, Cancel, TypeOK, Leased, Maintained, OwnInv
<1>18. ASSUME NEW c \in Clients PROVE Crash(c) => OwnFrame
  BY OwnUnanswered, SMTT(30) DEF OwnFrame, Crash, TypeOK, Leased, Maintained, OwnInv
<1>19. ASSUME NEW c \in Clients, StartLease(c) PROVE Create(c) \/ Reclaim(c) => OwnInv'
  BY <1>19, OwnStart, Zenon DEF Create, Reclaim
<1>20. LateDropped => OwnFrame
  BY Zenon DEF OwnFrame, LateDropped, TypeOK, Leased, Maintained, OwnInv
<1>21. Tick => OwnFrame
  BY Zenon DEF OwnFrame, Tick, TypeOK, Leased, Maintained, OwnInv
<1>22. QED
  BY Zenon, <1>1, <1>2, <1>6, <1>7, <1>8, <1>9, <1>10, <1>11,
     <1>12, <1>13, <1>14, <1>15, <1>16, <1>17, <1>18, <1>19, <1>20, <1>21,
     OwnQuiet, OwnRenew, OwnDelete, OwnCheck, OwnLate
  DEF Next, Acquiring, Maintaining, Using

-----------------------------------------------------------------------------
(* What follows, whatever the clocks show                                   *)

Inv == TypeOK /\ TokenInv /\ OwnInv

\* Initially no client has a token or a lease.
LEMMA InvInit == Init => Inv
BY LeaseAssumption DEF Init, Inv, TypeOK, TokenInv, OwnInv, Leased, Maintained

\* The invariants about types, tokens and ownership are inductive together.
LEMMA InvStep == Inv /\ [Next]_vars => Inv'
PROOF
<1> SUFFICES ASSUME Inv, [Next]_vars PROVE Inv' BY Zenon
<1>1. CASE Next BY <1>1, TypeStep, TokenStep, OwnStep, Zenon DEF Inv
<1>2. CASE UNCHANGED vars
  <2>1. TypeOK' BY <1>2, Zenon DEF Inv, TypeOK, vars, loopVars, leaseVars, timers, history
  <2>2. TokenInv' BY <1>2, Zenon DEF Inv, TokenInv, vars, loopVars, leaseVars, timers, history
  <2>3. OwnInv' BY <1>2, Zenon DEF Inv, OwnInv, vars, loopVars, leaseVars, timers, history
  <2>4. QED BY <2>1, <2>2, <2>3, Zenon DEF Inv
<1>3. QED BY <1>1, <1>2, Zenon

\* TypeOK holds for any clients, durations and bounds.
THEOREM LockLeaseType == Spec => []TypeOK
<1>1. Inv => TypeOK BY Zenon DEF Inv
<1>2. QED BY InvInit, InvStep, <1>1, PTL DEF Spec

\* The newest lease a caller has passed its check with is never an older one.
LEMMA CheckStep ==
  ASSUME TypeOK, TokenInv, OwnInv, [Next]_vars
  PROVE  newest' >= newest
PROOF
<1>1. newest \in Nat BY Zenon DEF TypeOK
<1>2. ASSUME NEW c \in Clients, CheckEnd(c), newest' # newest PROVE newest' >= newest
  <2>1. newest' = acquired[c] /\ kv.token = token[c] /\ use[c] = "check"
    BY <1>2, Zenon DEF CheckEnd, StillOwns
  <2>2. pc[c] \in Leased BY <2>1, Zenon DEF TokenInv
  <2>3. QED BY <2>1, <2>2, Zenon DEF OwnInv
<1>3. ASSUME NEW c \in Clients
      PROVE  Acquiring(c) \/ Maintaining(c) => newest' = newest
  BY Zenon DEF history, Acquiring, Maintaining, Begin, Create, Get, Reclaim, Retry, Beat,
       Renew, Verify, EndMaintain, Inspect, Delete
<1>4. ASSUME NEW c \in Clients
      PROVE  Using(c) \/ Cancel(c) \/ Crash(c) => newest' = newest \/ CheckEnd(c)
  BY Zenon DEF history, Using, CheckBegin, Work, Finish, Return, Cancel, Crash
<1>5. LateArrives \/ LateDropped \/ Tick \/ UNCHANGED vars => newest' = newest
  BY Zenon DEF history, vars, LateArrives, LateDropped, Tick
<1>6. newest' = newest \/ newest' >= newest BY <1>2, <1>3, <1>4, <1>5, Zenon DEF Next
<1>7. QED BY <1>1, <1>6

\* Checks pass in the order of acquisition for any difference between clocks,
\* any number of late writes and any crashes.
THEOREM ChecksInOrder == Spec => ChecksFollowOwnership
<1>1. Inv /\ [Next]_vars => [newest' >= newest]_vars BY CheckStep, Zenon DEF Inv
<1>2. QED BY InvInit, InvStep, <1>1, PTL DEF Spec, ChecksFollowOwnership

\* A step removes the entry of a lease only on behalf of that lease.
OwnRelease ==
  kv.token # NoToken /\ kv'.token = NoToken =>
    \/ \E c \in Clients : pc[c] = "delete" /\ token[c] = kv.token
    \/ \E w \in late : w.token = NoToken /\ w.from = kv.token

\* A step that frees the entry frees the one of its own lease.
LEMMA ReleaseStep ==
  ASSUME TokenInv, OwnInv, [Next]_vars
  PROVE  OwnRelease
PROOF
<1>1. ASSUME NEW c \in Clients
      PROVE  Create(c) \/ Reclaim(c) \/ Renew(c) =>
               kv' = kv \/ (kv'.token = token[c] /\ token[c] # NoToken)
  <2>1. Create(c) \/ Reclaim(c) \/ Renew(c) => token[c] # NoToken
    BY Zenon DEF Create, Reclaim, Renew, TokenInv
  <2>2. ASSUME Create(c) \/ Reclaim(c) \/ Renew(c), kv' # kv PROVE kv'.token = token[c]
    <3>1. Store(token[c], captured[c] + Lease)
      BY <2>2, Zenon DEF Create, Reclaim, Renew, StartLease
    <3>2. QED BY <3>1, Zenon DEF Store
  <2>3. QED BY <2>1, <2>2, Zenon
<1>2. ASSUME NEW c \in Clients, Delete(c), kv' # kv
      PROVE  pc[c] = "delete" /\ token[c] = kv.token
  <2>1. pc[c] = "delete" /\ seen[c] = kv.revision
    BY <1>2, Zenon DEF Delete, Deletes, Accepts
  <2>2. QED BY <2>1, Zenon DEF OwnInv
<1>3. LateArrives =>
        \E w \in late : kv'.token = w.token /\ (w.token = NoToken => w.from = kv.token)
  BY DEF LateArrives, Accepts, Store, OwnInv
<1>4. ASSUME NEW c \in Clients
      PROVE  Begin(c) \/ Get(c) \/ Retry(c) \/ Beat(c) \/ Verify(c) \/ EndMaintain(c)
               \/ Inspect(c) \/ Using(c) \/ Cancel(c) \/ Crash(c) => kv' = kv
  BY Zenon DEF Begin, Get, Retry, Beat, Verify, EndMaintain, Inspect, Using, CheckBegin,
       CheckEnd, Work, Finish, Return, Cancel, Crash
<1>5. LateDropped \/ Tick \/ UNCHANGED vars => kv' = kv
  BY Zenon DEF LateDropped, Tick, vars
<1>6. QED
  BY <1>1, <1>2, <1>3, <1>4, <1>5, Zenon DEF Next, Acquiring, Maintaining, OwnRelease

\* The release of a stale lease never deletes the entry of its replacement.
THEOREM ReleaseIsFenced == Spec => ReleaseKeepsReplacement
<1>1. Inv /\ [Next]_vars => [OwnRelease]_vars BY ReleaseStep, Zenon DEF Inv
<1>2. QED BY InvInit, InvStep, <1>1, PTL DEF Spec, ReleaseKeepsReplacement, OwnRelease
=============================================================================
