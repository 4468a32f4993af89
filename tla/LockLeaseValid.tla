--------------------------- MODULE LockLeaseValid ---------------------------
(***************************************************************************)
(* With equal clocks the times that the clients of LockLease have read are *)
(* in the past, a lease is released only when its use has ended, and at most *)
(* one lease is valid at a time: for any clients, durations and bounds.    *)
(***************************************************************************)
EXTENDS LockLeaseProofs

NoClockSkew == \A c \in Clients : Skew[c] = 0

\* The caller of c has been told to end, or has ended.
Ended(c) == c \in cancelled \/ use[c] \in {"leaving", "out"}

\* The times that a client has read are in the past.
PastInv ==
  /\ \A c \in Clients :
       /\ pc[c] \in {"create", "get", "reclaim", "renew"} => captured[c] <= now
       /\ pc[c] \in Leased => expires[c] <= now + Lease
       /\ pc[c] = "renew" => expires[c] <= captured[c] + Lease
       /\ pc[c] \in Leased /\ c \in stop => use[c] = "leaving"
       /\ pc[c] \in {"inspect", "delete"} => Ended(c)
  /\ \A w \in late :
       /\ w.token # NoToken => w.expires <= now + Lease
       /\ \A c \in Clients :
            w.token = NoToken /\ w.from = token[c] => pc[c] \in Leased /\ Ended(c)

-----------------------------------------------------------------------------
(* Times                                                                    *)

PastWrite(w) ==
  /\ w.token # NoToken => w.expires <= now + Lease
  /\ \A c \in Clients :
       w.token = NoToken /\ w.from = token[c] => pc[c] \in Leased /\ Ended(c)

\* A write whose answer is lost asks for an expiry counted from a time in the past.
LEMMA PastUnanswered ==
  ASSUME Inv, PastInv, NEW c \in Clients, Unanswered(c)
  PROVE  \A w \in late' : PastWrite(w)
PROOF
<1>1. \A w \in late : PastWrite(w) BY Zenon DEF PastInv, PastWrite
<1>2. ASSUME NEW w \in InFlight(c) PROVE PastWrite(w)
  <2>1. /\ w.from = token[c] /\ pc[c] \in {"create", "reclaim", "renew", "delete"}
        /\ w.token # NoToken => w.expires = captured[c] + Lease /\ pc[c] # "delete"
        /\ w.token = NoToken => pc[c] = "delete"
    BY <1>2, InFlightShape, Zenon DEF Inv, TokenInv
  <2>2. token[c] # NoToken BY <2>1, Zenon DEF Inv, TokenInv
  <2>3. \A d \in Clients : w.from = token[d] => d = c
    BY <2>1, <2>2, Zenon DEF Inv, TokenInv
  <2>4. w.token # NoToken => w.expires <= now + Lease
    BY <2>1, LeaseAssumption DEF PastInv, Inv, TypeOK
  <2>5. w.token = NoToken => pc[c] \in Leased /\ Ended(c)
    BY <2>1, Zenon DEF PastInv, Leased, Maintained
  <2>6. QED BY <2>3, <2>4, <2>5, Zenon DEF PastWrite
<1>3. QED BY <1>1, <1>2, Zenon DEF Unanswered

\* The part of PastInv that speaks of one client.
PastClient(c) ==
  /\ pc[c] \in {"create", "get", "reclaim", "renew"} => captured[c] <= now
  /\ pc[c] \in Leased => expires[c] <= now + Lease
  /\ pc[c] = "renew" => expires[c] <= captured[c] + Lease
  /\ pc[c] \in Leased /\ c \in stop => use[c] = "leaving"
  /\ pc[c] \in {"inspect", "delete"} => Ended(c)

\* A step that keeps the times of the clients and what is known of the writes
\* that may still arrive.
PastFrame ==
  /\ \A c \in Clients : PastClient(c)'
  /\ \A w \in late' : PastWrite(w)
  /\ \A c \in Clients :
       \/ token'[c] = NoToken
       \/ \A w \in late' : w.from # token'[c]
       \/ /\ token'[c] = token[c]
          /\ pc[c] \in Leased /\ Ended(c) => pc'[c] \in Leased /\ Ended(c)'
  /\ now' >= now

\* A step that reads no clock leaves the times read in the past.
LEMMA PastQuiet ==
  ASSUME Inv, Inv', PastFrame
  PROVE  PastInv'
PROOF
<1>1. ASSUME NEW w \in late' PROVE PastWrite(w)'
  <2>1. w.from # NoToken /\ w.expires \in Int BY <1>1, LeaseAssumption DEF Inv, TypeOK
  <2>2. now \in Int /\ now' \in Int /\ Lease \in Int BY LeaseAssumption DEF Inv, TypeOK
  <2>3. w.token # NoToken => w.expires <= now' + Lease
    BY <1>1, <2>1, <2>2 DEF PastFrame, PastWrite
  <2>4. ASSUME NEW c \in Clients, w.token = NoToken, w.from = token'[c]
        PROVE  pc'[c] \in Leased /\ Ended(c)'
    BY <1>1, <2>1, <2>4, Zenon DEF PastFrame, PastWrite
  <2>5. QED BY <2>3, <2>4, Zenon DEF PastWrite
<1>2. QED BY <1>1, Zenon DEF PastFrame, PastInv, PastClient, PastWrite

\* With equal clocks every step keeps the times read in the past.
LEMMA PastStep ==
  ASSUME Inv, PastInv, NoClockSkew, Next, Inv'
  PROVE  PastInv'
PROOF
<1> USE LeaseAssumption DEF loopVars, leaseVars, timers, history, NoClockSkew
<1>t. TypeOK /\ TypeOK' /\ TokenInv BY Zenon DEF Inv
<1>c. \A d \in Clients : PastClient(d) BY Zenon DEF PastInv, PastClient
<1>u. \A w \in late : PastWrite(w) BY Zenon DEF PastInv, PastWrite
<1>g. ASSUME NEW c \in Clients, Retry(c)
      PROVE  pc'[c] \in {"create", "get", "reclaim"} => captured'[c] = Clock(c)
  <2>1. Again(c) \/ GiveUp(c) BY <1>g, Zenon DEF Retry
  <2>2. CASE Again(c) BY <1>t, <2>2, Zenon DEF Again, TypeOK
  <2>3. CASE GiveUp(c) BY <1>t, <2>3, GiveUpMoves, Zenon
  <2>4. QED BY <2>1, <2>2, <2>3, Zenon
<1> USE <1>t, <1>c, <1>u
<1>1. ASSUME NEW c \in Clients PROVE Begin(c) => PastFrame
  BY DEF PastFrame, Begin, Clock, PastClient, Ended, TypeOK, TokenInv, Leased,
      Maintained, InUse
<1>2. ASSUME NEW c \in Clients,
             \/ Get(c) \/ Retry(c)
             \/ (Create(c) /\ ~StartLease(c)) \/ (Reclaim(c) /\ ~StartLease(c))
      PROVE  PastFrame
  <2>1. /\ AttemptMoves(c) /\ pc[c] \notin Leased /\ (late' = late \/ Unanswered(c))
        /\ UNCHANGED <<now, cancelled, use, leaseVars>>
    BY <1>2, AttemptFrame, Zenon
  <2>2. \A w \in late' : PastWrite(w) BY <2>1, PastUnanswered, Zenon
  <2>3. Clock(c) = now BY DEF Clock, TypeOK
  <2>4. pc'[c] \in {"create", "get", "reclaim"} => captured'[c] <= now
    <3>1. pc[c] \in {"create", "get", "reclaim", "wait"}
      BY <1>2, Zenon DEF Get, Retry, Create, Reclaim
    <3>2. pc[c] = "wait" /\ pc'[c] \in {"create", "get", "reclaim"} => captured'[c] = now
      BY <1>2, <2>3, <1>g, Zenon DEF Get, Retry, Create, Reclaim
    <3>3. now <= now BY DEF TypeOK
    <3>4. QED BY <2>1, <2>3, <3>1, <3>2, <3>3, Zenon DEF AttemptMoves, PastClient
  <2>5. PastClient(c)'
    BY <2>1, <2>4, Zenon DEF AttemptMoves, PastClient, Leased, Maintained
  <2>6. ASSUME NEW d \in Clients, d # c
        PROVE  PastClient(d)' /\ token'[d] = token[d] /\ pc'[d] = pc[d] /\ (Ended(d)' <=> Ended(d))
    BY <2>1, <2>6, Zenon DEF AttemptMoves, PastClient, Ended
  <2>7. now' >= now BY <2>1 DEF TypeOK
  <2>8. QED BY <2>1, <2>2, <2>5, <2>6, <2>7, Zenon DEF PastFrame, AttemptMoves
<1>3. ASSUME NEW c \in Clients, StartLease(c), Create(c) \/ Reclaim(c) PROVE PastFrame
  BY <1>3, SMTT(30) DEF PastFrame, Create, Reclaim, StartLease, EndLoop, Store,
      LeaseUntil, PastClient, Ended, TypeOK, TokenInv, Leased, Maintained, Clock
<1>6. ASSUME NEW c \in Clients PROVE Beat(c) => PastFrame
  BY SMTT(30) DEF PastFrame, Beat, Clock, PastClient, Ended, TypeOK, TokenInv, Leased,
      Maintained
<1>7. ASSUME NEW c \in Clients PROVE Renew(c) => PastFrame
  BY PastUnanswered DEF PastFrame, Renew, EndLoop, Store, OpFails, PastClient,
      Ended, TypeOK, TokenInv, Leased, Maintained, Clock
<1>8. ASSUME NEW c \in Clients PROVE Verify(c) => PastFrame
  BY DEF PastFrame, Verify, AfterFailure, OpFails, PastClient, Ended, TypeOK,
      TokenInv, Leased, Maintained, Clock
<1>9. ASSUME NEW c \in Clients PROVE EndMaintain(c) => PastFrame
  BY DEF PastFrame, EndMaintain, PastClient, Ended, TypeOK, TokenInv, Leased,
      Maintained, Clock
<1>10. ASSUME NEW c \in Clients PROVE Inspect(c) => PastFrame
  BY DEF PastFrame, Inspect, ReleaseAgain, MayRetry, OpFails, PastClient, Ended,
      TypeOK, TokenInv, Leased, Maintained, Clock
<1>11. ASSUME NEW c \in Clients PROVE Delete(c) => PastFrame
  BY PastUnanswered DEF PastFrame, Delete, Store, ReleaseAgain, MayRetry, OpFails,
      PastClient, Ended, TypeOK, TokenInv, Leased, Maintained, Clock
<1>12. ASSUME NEW c \in Clients PROVE CheckBegin(c) => PastFrame
  BY DEF PastFrame, CheckBegin, Leave, MarkLost, PastClient, Ended, TypeOK,
      TokenInv, Leased, Maintained, Clock
<1>13. ASSUME NEW c \in Clients PROVE CheckEnd(c) => PastFrame
  BY DEF PastFrame, CheckEnd, Leave, MarkLost, OpFails, PastClient, Ended, TypeOK,
      TokenInv, Leased, Maintained, Clock
<1>14. ASSUME NEW c \in Clients PROVE Work(c) => PastFrame
  BY DEF PastFrame, Work, PastClient, Ended, TypeOK, TokenInv, Leased, Maintained,
      Clock
<1>15. ASSUME NEW c \in Clients PROVE Finish(c) => PastFrame
  BY SMTT(30) DEF PastFrame, Finish, Leave, PastClient, Ended, TypeOK, TokenInv, Leased,
      Maintained, Clock
<1>16. ASSUME NEW c \in Clients, Return(c) PROVE PastFrame
  <2>1. AttemptMoves(c) /\ token'[c] = NoToken /\ UNCHANGED <<now, late, cancelled>>
    BY <1>16, ReturnFrame, Zenon
  <2>2. pc'[c] \in {"idle", "ended"} BY <1>16, ReturnFrame, Zenon
  <2>3. PastClient(c)' BY <2>2, Zenon DEF PastClient, Leased, Maintained
  <2>4. ASSUME NEW d \in Clients, d # c
        PROVE  PastClient(d)' /\ token'[d] = token[d] /\ pc'[d] = pc[d] /\ (Ended(d)' <=> Ended(d))
    <3>1. expires'[d] = expires[d] /\ use'[d] = use[d] /\ (d \in stop' <=> d \in stop)
      BY <1>16, <2>4, ReturnFrame, Zenon
    <3>2. QED BY <2>1, <2>4, <3>1, Zenon DEF AttemptMoves, PastClient, Ended
  <2>5. now' >= now BY <2>1 DEF TypeOK
  <2>6. QED BY <2>1, <2>3, <2>4, <2>5, Zenon DEF PastFrame
<1>17. ASSUME NEW c \in Clients PROVE Cancel(c) => PastFrame
  BY DEF PastFrame, Cancel, PastClient, Ended, TypeOK, TokenInv, Leased, Maintained,
      Clock
<1>18. ASSUME NEW c \in Clients PROVE Crash(c) => PastFrame
  BY PastUnanswered DEF PastFrame, Crash, PastClient, Ended, TypeOK, TokenInv,
      Leased, Maintained, Clock
<1>19. LateArrives => PastFrame
  BY DEF PastFrame, LateArrives, Store, PastClient, Ended, TypeOK, TokenInv, Leased,
      Maintained, Clock
<1>20. LateDropped => PastFrame
  BY DEF PastFrame, LateDropped, PastClient, Ended, TypeOK, TokenInv, Leased,
      Maintained, Clock
<1>21. Tick => PastFrame
  BY DEF PastFrame, Tick, PastClient, Ended, TypeOK, TokenInv, Leased, Maintained,
      Clock
<1>22. QED BY Zenon, <1>1, <1>2, <1>3, <1>6, <1>7, <1>8, <1>9, <1>10, <1>11, <1>12,
    <1>13, <1>14, <1>15, <1>16, <1>17, <1>18, <1>19, <1>20, <1>21, PastQuiet
  DEF Next, Acquiring, Maintaining, Using

\* The entry of a valid lease lasts at least as long as its holder believes,
\* and nothing that may still arrive takes it away before.
ValidInv ==
  /\ \A c \in Clients :
       pc[c] = "reclaim" /\ seen[c] = kv.revision => kv.expires <= captured[c]
  /\ \A w \in late : w.token # NoToken /\ w.expected = kv.revision =>
       /\ kv.token \notin {NoToken, w.token} => kv.expires <= w.expires - Lease
       /\ \A c \in Clients :
            pc[c] \in Leased /\ w.token = token[c] => w.expires >= expires[c]
  /\ \A c \in Clients :
       Valid(c) => kv.token = token[c] /\ kv.expires >= expires[c]

ValidWrite(w) ==
  w.token # NoToken /\ w.expected = kv.revision =>
    /\ kv.token \notin {NoToken, w.token} => kv.expires <= w.expires - Lease
    /\ \A c \in Clients :
         pc[c] \in Leased /\ w.token = token[c] => w.expires >= expires[c]

\* A write whose answer is lost takes no valid lease away.
LEMMA ValidUnanswered ==
  ASSUME Inv, PastInv, ValidInv, NEW c \in Clients, Unanswered(c)
  PROVE  \A w \in late' : ValidWrite(w)
PROOF
<1>1. \A w \in late : ValidWrite(w) BY Zenon DEF ValidInv, ValidWrite
<1>2. ASSUME NEW w \in InFlight(c) PROVE ValidWrite(w)
  <2> USE LeaseAssumption
  <2>t. /\ captured[c] \in Int /\ Lease \in Int /\ kv.expires \in Int
        /\ \A d \in Clients : expires[d] \in Int
    BY DEF Inv, TypeOK
  <2>1. CASE pc[c] = "create"
    <3>1. kv.token = NoToken /\ w.token = token[c] BY <1>2, <2>1, InFlightShape, Zenon DEF Inv
    <3>2. \A d \in Clients : token[d] = token[c] => d = c BY <2>1, Zenon DEF Inv, TokenInv
    <3>3. QED BY <2>1, <3>1, <3>2, Zenon DEF ValidWrite, Leased, Maintained
  <2>2. CASE pc[c] = "reclaim"
    <3>1. w.expected = seen[c] /\ w.token = token[c] /\ w.expires = captured[c] + Lease
      BY <1>2, <2>2, InFlightShape, Zenon DEF Inv
    <3>2. \A d \in Clients : token[d] = token[c] => d = c BY <2>2, Zenon DEF Inv, TokenInv
    <3>3. seen[c] = kv.revision => kv.expires <= captured[c] BY <2>2, Zenon DEF ValidInv
    <3>4. QED BY <2>t, <2>2, <3>1, <3>2, <3>3 DEF ValidWrite, Leased, Maintained
  <2>3. CASE pc[c] = "renew"
    <3>1. w.expected = revision[c] /\ w.token = token[c] /\ w.expires = captured[c] + Lease
      BY <1>2, <2>3, InFlightShape, Zenon DEF Inv
    <3>2. \A d \in Clients : token[d] = token[c] => d = c BY <2>3, Zenon DEF Inv, TokenInv
    <3>3. revision[c] = kv.revision => kv.token = token[c]
      BY <2>3, Zenon DEF Inv, OwnInv, Leased, Maintained
    <3>4. expires[c] <= captured[c] + Lease BY <2>3, Zenon DEF PastInv
    <3>5. QED BY <2>t, <3>1, <3>2, <3>3, <3>4, Zenon DEF ValidWrite
  <2>4. CASE pc[c] = "delete"
    BY <1>2, <2>4, InFlightShape, Zenon DEF Inv, ValidWrite
  <2>5. CASE pc[c] \notin {"create", "reclaim", "renew", "delete"}
    BY <1>2, <2>5, InFlightShape, Zenon DEF Inv
  <2>6. QED BY <2>1, <2>2, <2>3, <2>4, <2>5, Zenon
<1>3. QED BY <1>1, <1>2, Zenon DEF Unanswered

\* A step that leaves the entry alone and makes no lease valid.
ValidFrame ==
  /\ kv' = kv
  /\ \A w \in late' : ValidWrite(w)
  /\ \A d \in Clients : pc'[d] \in Leased =>
       pc[d] \in Leased /\ token'[d] = token[d] /\ expires'[d] = expires[d]
  /\ \A d \in Clients : pc'[d] = "reclaim" /\ seen'[d] = kv.revision =>
       kv.expires <= captured'[d]
  /\ \A d \in Clients : Valid(d)' => Valid(d)

\* A step that neither changes the entry nor makes a lease valid keeps ValidInv.
LEMMA ValidQuiet ==
  ASSUME Inv', ValidInv, ValidFrame
  PROVE  ValidInv'
PROOF
<1>1. \A d \in Clients : Valid(d)' => pc'[d] \in Leased BY Zenon DEF Valid, Inv, TokenInv
<1>2. \A d \in Clients : Valid(d)' => kv'.token = token'[d] /\ kv'.expires >= expires'[d]
  BY <1>1, Zenon DEF ValidInv, ValidFrame
<1>3. \A w \in late' : ValidWrite(w)' BY Zenon DEF ValidWrite, ValidFrame
<1>4. QED BY <1>2, <1>3, Zenon DEF ValidInv, ValidWrite, ValidFrame

\* A step that writes the entry makes every revision known so far an old one.
LEMMA ValidStore ==
  ASSUME Inv, NEW t, NEW e, Store(t, e), late' \subseteq late,
         \A d \in Clients : seen'[d] <= kv.revision,
         \A d \in Clients : Valid(d)' => t = token'[d] /\ e >= expires'[d]
  PROVE  ValidInv'
PROOF
<1>1. kv'.revision = kv.revision + 1 /\ kv'.token = t /\ kv'.expires = e BY Zenon DEF Store
<1>2. kv.revision \in Int BY DEF Inv, TypeOK
<1>3. \A w \in late' : w.expected # kv'.revision
  BY <1>1, <1>2 DEF Inv, TypeOK, TokenInv
<1>4. \A d \in Clients : seen'[d] # kv'.revision BY <1>1, <1>2
<1>5. QED BY <1>1, <1>3, <1>4, Zenon DEF ValidInv

\* The entry of a valid lease is its holder's and has not expired.
LEMMA ValidHolder ==
  ASSUME Inv, ValidInv, NoClockSkew
  PROVE  \A d \in Clients : Valid(d) =>
           /\ kv.token = token[d] /\ token[d] # NoToken
           /\ kv.expires >= expires[d] /\ expires[d] > now
PROOF
<1>1. \A d \in Clients : Valid(d) => token[d] # NoToken
  BY Zenon DEF Inv, Valid, TokenInv, Leased, Maintained
<1>2. QED BY <1>1, LeaseAssumption DEF Inv, ValidInv, Valid, Clock, NoClockSkew, TypeOK

\* AcquireLock writes the entry only when no lease is valid.
LEMMA ValidStart ==
  ASSUME Inv, NEW c \in Clients, StartLease(c), UNCHANGED <<now, cancelled>>,
         pc[c] \in {"create", "reclaim"}, \A d \in Clients : ~Valid(d)
  PROVE  ValidInv'
PROOF
<1> USE LeaseAssumption DEF Inv, loopVars, leaseVars
<1>1. Store(token[c], captured[c] + Lease) /\ late' = late BY Zenon DEF StartLease
<1>2. \A d \in Clients : seen'[d] <= kv.revision BY DEF StartLease, EndLoop, TypeOK, TokenInv
<1>3. \A d \in Clients : d # c => ~Valid(d)' BY Zenon DEF StartLease, Valid, Clock, TypeOK
<1>4. token'[c] = token[c] /\ expires'[c] = captured[c] + Lease
  BY Zenon DEF StartLease, LeaseUntil, TypeOK
<1>5. captured[c] + Lease \in Int BY DEF TypeOK
<1>6. QED BY <1>1, <1>2, <1>3, <1>4, <1>5, ValidStore

\* A renewal is accepted only from the owner of the entry.
LEMMA ValidRenew ==
  ASSUME Inv, ValidInv, NoClockSkew, NEW c \in Clients, Renew(c), kv' # kv
  PROVE  ValidInv'
PROOF
<1> USE LeaseAssumption DEF Inv, loopVars, leaseVars
<1>1. /\ Store(token[c], captured[c] + Lease) /\ late' = late
      /\ revision[c] = kv.revision /\ pc[c] = "renew"
      /\ token' = token /\ expires' = [expires EXCEPT ![c] = captured[c] + Lease]
  BY Zenon DEF Renew, Accepts
<1>2. \A d \in Clients : seen'[d] <= kv.revision BY DEF Renew, EndLoop, TypeOK, TokenInv
<1>3. kv.token = token[c] BY <1>1, Zenon DEF OwnInv, Leased, Maintained
<1>4. \A d \in Clients : d # c /\ Valid(d)' => Valid(d) BY DEF Renew, Valid, Clock, TypeOK
<1>5. \A d \in Clients : Valid(d)' => d = c BY <1>3, <1>4, ValidHolder DEF TokenInv
<1>6. captured[c] + Lease \in Int /\ expires'[c] = captured[c] + Lease BY <1>1 DEF TypeOK
<1>7. QED BY <1>1, <1>2, <1>5, <1>6, ValidStore, SMTT(30)

\* releaseRemote deletes its own entry, after the lease has ended.
LEMMA ValidDelete ==
  ASSUME Inv, PastInv, ValidInv, NoClockSkew, NEW c \in Clients, Delete(c), kv' # kv
  PROVE  ValidInv'
PROOF
<1> USE LeaseAssumption DEF Inv, loopVars, leaseVars
<1>1. Store(NoToken, 0) /\ late' = late /\ seen[c] = kv.revision /\ pc[c] = "delete"
  BY Zenon DEF Delete, Deletes, Accepts
<1>2. \A d \in Clients : seen'[d] <= kv.revision
  BY Zenon DEF Delete, ReleaseAgain, TypeOK, TokenInv
<1>3. kv.token = token[c] BY <1>1, Zenon DEF OwnInv
<1>4. ~Valid(c) BY <1>1, Zenon DEF PastInv, Ended, Valid
<1>5. \A d \in Clients : Valid(d)' => Valid(d) BY Zenon DEF Delete, Valid, Clock, TypeOK
<1>6. \A d \in Clients : ~Valid(d)' BY <1>3, <1>4, <1>5, ValidHolder, Zenon DEF TokenInv
<1>7. QED BY <1>1, <1>2, <1>6, ValidStore, Zenon

\* A late write that is accepted is one of the holder of the lease.
LEMMA ValidLate ==
  ASSUME Inv, PastInv, ValidInv, NoClockSkew, LateArrives
  PROVE  ValidInv'
PROOF
<1> USE DEF Inv
<1>1. PICK w \in late : Accepts(w.expected) /\ Store(w.token, w.expires)
  BY Zenon DEF LateArrives
<1>2. late' \subseteq late /\ UNCHANGED <<now, pc, token, loopVars, leaseVars, cancelled, use>>
  BY Zenon DEF LateArrives
<1>3. \A d \in Clients : seen'[d] <= kv.revision BY <1>2, Zenon DEF TokenInv, loopVars
<1>4. \A d \in Clients : Valid(d)' => Valid(d) BY <1>2, Zenon DEF Valid, Clock, leaseVars
<1>5. w.expected = kv.revision /\ ValidWrite(w) /\ PastWrite(w) /\ w \in Writes
  BY <1>1, Zenon DEF Accepts, PastInv, PastWrite, ValidInv, ValidWrite, TypeOK, Writes
<1>6. ASSUME NEW d \in Clients, Valid(d)
      PROVE  w.token = token[d] /\ w.expires >= expires[d]
  <2>1. /\ kv.token = token[d] /\ kv.expires >= expires[d] /\ expires[d] > now
        /\ token[d] # NoToken
    BY <1>6, ValidHolder, Zenon
  <2>2. pc[d] \in Leased /\ ~Ended(d) BY <1>6, Zenon DEF Valid, TokenInv, Ended
  <2>3. w.token # NoToken
    <3>1. w.token = NoToken => kv.token = w.from BY <1>5, Zenon DEF OwnInv
    <3>2. QED BY <3>1, <2>1, <2>2, <1>5, Zenon DEF PastWrite
  <2>4. w.token = kv.token
    <3>1. w.expires <= now + Lease BY <2>3, <1>5, Zenon DEF PastWrite
    <3>2. kv.token \notin {NoToken, w.token} => kv.expires <= w.expires - Lease
      BY <2>3, <1>5, Zenon DEF ValidWrite
    <3>3. /\ w.expires \in Int /\ Lease \in Int /\ now \in Int
          /\ kv.expires \in Int /\ expires[d] \in Int
      BY <1>5, LeaseAssumption DEF Writes, TypeOK
    <3>4. QED BY <2>1, <3>1, <3>2, <3>3
  <2>5. QED BY <2>1, <2>2, <2>3, <2>4, <1>5, Zenon DEF ValidWrite
<1>7. QED BY <1>1, <1>2, <1>3, <1>4, <1>6, ValidStore, Zenon DEF leaseVars

\* With equal clocks every step keeps the entry of a valid lease its own.
LEMMA ValidStep ==
  ASSUME Inv, PastInv, ValidInv, NoClockSkew, Next, Inv'
  PROVE  ValidInv'
PROOF
<1> USE LeaseAssumption DEF loopVars, leaseVars, timers, history
<1>t. TypeOK /\ TypeOK' /\ TokenInv BY Zenon DEF Inv
<1>u. \A w \in late : ValidWrite(w) BY Zenon DEF ValidInv, ValidWrite
<1>r. \A d \in Clients :
        pc[d] = "reclaim" /\ seen[d] = kv.revision => kv.expires <= captured[d]
  BY Zenon DEF ValidInv
<1>a. ASSUME NEW c \in Clients,
             \/ Get(c) \/ Retry(c)
             \/ (Create(c) /\ ~StartLease(c)) \/ (Reclaim(c) /\ ~StartLease(c))
      PROVE  ValidFrame
  <2>1. /\ AttemptMoves(c) /\ (late' = late \/ Unanswered(c))
        /\ UNCHANGED <<now, kv, cancelled, use, leaseVars>>
    BY <1>a, <1>t, AttemptFrame, Zenon
  <2>2. \A w \in late' : ValidWrite(w) BY <2>1, <1>u, ValidUnanswered, Zenon
  <2>3. \A d \in Clients : Valid(d)' => Valid(d) BY <2>1, Zenon DEF Valid, Clock
  <2>4. \A d \in Clients : pc'[d] \in Leased \/ (pc'[d] = "reclaim" /\ d # c) =>
          /\ pc[d] = pc'[d] /\ token'[d] = token[d] /\ expires'[d] = expires[d]
          /\ seen'[d] = seen[d] /\ captured'[d] = captured[d]
    BY <2>1, Zenon DEF AttemptMoves
  <2>5. pc'[c] = "reclaim" => kv.expires <= captured'[c]
    BY <2>1, Zenon DEF AttemptMoves, Expired
  <2>6. QED BY <1>r, <2>1, <2>2, <2>3, <2>4, <2>5, Zenon DEF ValidFrame
<1> USE <1>t, <1>u, <1>r
<1>k. ASSUME NEW t, NEW e, Store(t, e) PROVE kv' # kv
  <2>1. kv.revision \in Nat /\ kv'.revision = kv.revision + 1 BY <1>k DEF Store, TypeOK
  <2>2. QED BY <2>1
<1>1. ASSUME NEW c \in Clients PROVE Begin(c) => ValidFrame
  BY SMTT(30) DEF ValidFrame, Begin, Clock, TypeOK, TokenInv, Leased, Maintained, Valid
<1>2. ASSUME NEW c \in Clients, Create(c), StartLease(c) PROVE ValidInv'
  <2>1. kv.token = NoToken BY <1>2, <1>k, Zenon DEF Create, StartLease, Store
  <2>2. QED BY <1>2, <2>1, ValidHolder, ValidStart, Zenon DEF Create
<1>4. ASSUME NEW c \in Clients, Reclaim(c), StartLease(c) PROVE ValidInv'
  <2>1. Accepts(seen[c]) BY <1>4, <1>k, Zenon DEF Reclaim, StartLease, Store
  <2>2. kv.expires <= captured[c] /\ captured[c] <= now
    BY <1>4, <2>1, Zenon DEF Reclaim, Accepts, PastInv
  <2>3. \A d \in Clients : ~Valid(d) BY <2>2, ValidHolder DEF TypeOK
  <2>4. QED BY <1>4, <2>3, ValidStart, Zenon DEF Reclaim
<1>6. ASSUME NEW c \in Clients PROVE Beat(c) => ValidFrame
  BY DEF ValidFrame, Beat, Clock, TypeOK, TokenInv, Leased, Maintained, Valid
<1>7. ASSUME NEW c \in Clients, kv' = kv PROVE Renew(c) => ValidFrame
  BY <1>7, ValidUnanswered, SMTT(30) DEF ValidFrame, Renew, EndLoop, Store, OpFails, TypeOK,
      TokenInv, Leased, Maintained, Valid, Clock
<1>8. ASSUME NEW c \in Clients PROVE Verify(c) => ValidFrame
  BY DEF ValidFrame, Verify, AfterFailure, OpFails, TypeOK, TokenInv, Leased,
      Maintained, Valid, Clock
<1>9. ASSUME NEW c \in Clients PROVE EndMaintain(c) => ValidFrame
  BY SMTT(30) DEF ValidFrame, EndMaintain, TypeOK, TokenInv, Leased, Maintained, Valid, Clock
<1>10. ASSUME NEW c \in Clients PROVE Inspect(c) => ValidFrame
  BY SMTT(30) DEF ValidFrame, Inspect, ReleaseAgain, MayRetry, OpFails, TypeOK, TokenInv,
      Leased, Maintained, Valid, Clock
<1>11. ASSUME NEW c \in Clients, kv' = kv PROVE Delete(c) => ValidFrame
  BY <1>11, ValidUnanswered, SMTT(30) DEF ValidFrame, Delete, Store, ReleaseAgain, MayRetry,
      OpFails, TypeOK, TokenInv, Leased, Maintained, Valid, Clock
<1>12. ASSUME NEW c \in Clients PROVE CheckBegin(c) => ValidFrame
  BY SMTT(30) DEF ValidFrame, CheckBegin, Leave, MarkLost, TypeOK, TokenInv, Leased,
      Maintained, Valid, Clock
<1>13. ASSUME NEW c \in Clients PROVE CheckEnd(c) => ValidFrame
  BY SMTT(30) DEF ValidFrame, CheckEnd, Leave, MarkLost, OpFails, TypeOK, TokenInv, Leased,
      Maintained, Valid, Clock
<1>14. ASSUME NEW c \in Clients PROVE Work(c) => ValidFrame
  BY DEF ValidFrame, Work, TypeOK, TokenInv, Leased, Maintained, Valid, Clock
<1>15. ASSUME NEW c \in Clients PROVE Finish(c) => ValidFrame
  BY SMTT(30) DEF ValidFrame, Finish, Leave, TypeOK, TokenInv, Leased, Maintained, Valid,
      Clock
<1>16. ASSUME NEW c \in Clients, Return(c) PROVE ValidFrame
  <2>1. AttemptMoves(c) /\ use'[c] = "out" /\ UNCHANGED <<now, kv, late, cancelled>>
    BY <1>16, ReturnFrame, Zenon
  <2>2. ASSUME NEW d \in Clients, d # c
        PROVE  expires'[d] = expires[d] /\ use'[d] = use[d] /\ (d \in lost' <=> d \in lost)
    BY <1>16, <2>2, ReturnFrame, Zenon
  <2>3. \A d \in Clients : Valid(d)' => Valid(d) BY <2>1, <2>2, Zenon DEF Valid, Clock
  <2>4. pc'[c] # "reclaim" BY <1>16, ReturnFrame, Zenon
  <2>5. QED BY <2>1, <2>2, <2>3, <2>4, Zenon DEF ValidFrame, AttemptMoves
<1>17. ASSUME NEW c \in Clients PROVE Cancel(c) => ValidFrame
  BY Zenon DEF ValidFrame, Cancel, TypeOK, TokenInv, Leased, Maintained, Valid, Clock
<1>18. ASSUME NEW c \in Clients PROVE Crash(c) => ValidFrame
  BY ValidUnanswered, SMTT(30) DEF ValidFrame, Crash, TypeOK, TokenInv, Leased, Maintained,
      Valid, Clock
<1>20. LateDropped => ValidFrame
  BY Zenon DEF ValidFrame, LateDropped, TypeOK, TokenInv, Leased, Maintained, Valid, Clock
<1>21. Tick => ValidFrame
  BY DEF ValidFrame, Tick, TypeOK, TokenInv, Leased, Maintained, Valid, Clock,
      NoClockSkew
<1>22. QED BY Zenon, <1>a, <1>1, <1>2, <1>4, <1>6, <1>7, <1>8, <1>9, <1>10, <1>11, <1>12,
    <1>13, <1>14, <1>15, <1>16, <1>17, <1>18, <1>20, <1>21, ValidRenew,
    ValidDelete, ValidLate, ValidQuiet
  DEF Next, Acquiring, Maintaining, Using

-----------------------------------------------------------------------------

\* The clocks of the clients agree, and then times and leases are in order.
TimedInv == NoClockSkew => PastInv /\ ValidInv

\* With equal clocks the invariants about times are inductive.
LEMMA TimedStep == Inv /\ TimedInv /\ Inv' /\ [Next]_vars => TimedInv'
PROOF
<1> SUFFICES ASSUME Inv, PastInv, ValidInv, NoClockSkew, Inv', [Next]_vars
             PROVE  PastInv' /\ ValidInv'
  BY Zenon DEF TimedInv, NoClockSkew
<1>1. CASE Next BY <1>1, PastStep, ValidStep, Zenon
<1>2. CASE UNCHANGED vars
  <2>1. PastInv' BY <1>2, Zenon DEF vars, loopVars, leaseVars, timers, history, PastInv, Ended
  <2>2. ValidInv'
    BY <1>2, Zenon DEF vars, loopVars, leaseVars, timers, history, ValidInv, Valid, Clock
  <2>3. QED BY <2>1, <2>2, Zenon
<1>3. QED BY <1>1, <1>2, Zenon

\* Initially no time has been read and no lease is valid.
LEMMA TimedInit == Init => TimedInv
PROOF BY LeaseAssumption, Zenon
      DEF Init, TimedInv, PastInv, ValidInv, Valid, Leased, Maintained

\* Two valid leases would need two entries under one key.
LEMMA TimedValid == Inv /\ TimedInv => AtMostOneValid
PROOF
<1> SUFFICES ASSUME Inv, PastInv, ValidInv, NEW a \in Clients, NEW b \in Clients,
                    Valid(a), Valid(b)
             PROVE  a = b
  BY Zenon DEF TimedInv, AtMostOneValid, NoClockSkew
<1>1. token[a] = kv.token /\ token[b] = kv.token BY Zenon DEF ValidInv
<1>2. token[a] # NoToken BY Zenon DEF Inv, TokenInv, Valid, Leased, Maintained
<1>3. QED BY <1>1, <1>2, Zenon DEF Inv, TokenInv

\* While the clocks of the servers agree, no two handles of AcquireLock are
\* believed valid at the same time, for any number of servers, lease and
\* heartbeat, lost and late writes, crashes and cancellations included.
THEOREM OneValidLease == Spec => []AtMostOneValid
PROOF
<1>1. Inv /\ TimedInv /\ [Next]_vars => Inv' /\ TimedInv' BY InvStep, TimedStep, Zenon
<1>2. Init => Inv /\ TimedInv BY InvInit, TimedInit, Zenon
<1>3. QED BY <1>1, <1>2, TimedValid, PTL DEF Spec
=============================================================================
