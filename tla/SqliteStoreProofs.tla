-------------------------- MODULE SqliteStoreProofs --------------------------
(***************************************************************************)
(* Proofs about SqliteStore, for any requests, flushes, number of crashes  *)
(* and size of integers: the positions have no gaps and do not overflow,   *)
(* callers are told the truth, and a boundary is a history of the abstract *)
(* event log.                                                              *)
(***************************************************************************)
EXTENDS SqliteStore, ConsistencyProofs

TypeInv ==
    /\ seqRow \in 1 .. MaxId
    /\ DOMAIN observed = Requests
    /\ DOMAIN outcome = Requests
    /\ stage \in {"idle", "running", "committed"}
    /\ batch \in Seq(Requests)
    /\ results \in Seq({"ctxErr", "conflict", "error", "accepted"})
    /\ Len(results) <= Len(batch)
    /\ stage = "running" => nextId \in seqRow .. MaxId

\* A write as SaveRequest makes them.
WriteOK(w) ==
    /\ w.first \in Nat \ {0}
    /\ w.docs \in Seq(SUBSET Predicates) \ {<<>>}
    /\ w.commit = w.first + Len(w.docs) - 1
    /\ w.request \in Requests

\* No two writes share a position.
Apart(ws) == \A w, x \in ws : w = x \/ w.commit < x.first \/ x.commit < w.first

\* The committed writes and then those of the open transaction follow each other
\* without a gap.
LogInv ==
    /\ \A w \in writes : WriteOK(w) /\ w.commit < seqRow
    /\ Apart(writes)
    /\ \A n \in 1 .. seqRow - 1 : \E w \in writes : w.first <= n /\ n <= w.commit
    /\ stage = "running" =>
          /\ \A w \in inserted : WriteOK(w) /\ seqRow <= w.first /\ w.commit < nextId
          /\ Apart(inserted)
          /\ \A n \in seqRow .. nextId - 1 : \E w \in inserted : w.first <= n /\ n <= w.commit
          /\ Accepted = {} => nextId = seqRow

\* Each write of the open transaction stood when it was inserted.
CheckInv ==
    stage = "running" =>
        \A w \in inserted : Satisfied(w.checks, Rows({x \in writes \cup inserted : x.commit < w.commit}))

\* The writes of ws that a request has.
WritesOf(ws, r) == {w \in ws : w.request = r}

\* The answers res of the requests of a flush are so of the writes ws.
Explained(ws, requests, res) ==
    \A i \in DOMAIN res :
        IF res[i] = "accepted" THEN \E w \in ws : WritesOf(ws, requests[i]) = {w}
        ELSE WritesOf(ws, requests[i]) = {}

\* The flush's requests are different and unanswered and have been observed.
\* Those accepted have one write, in the open transaction or committed, and a
\* committed write of an unanswered request is one of theirs.
FlushInv ==
    /\ \A w \in writes : outcome[w.request] = "none" =>
          stage = "committed" /\ \E i \in DOMAIN batch : batch[i] = w.request
    /\ stage # "idle" =>
          /\ \A i, j \in DOMAIN batch : batch[i] = batch[j] => i = j
          /\ \A i \in DOMAIN batch : Waiting(batch[i])
    /\ stage = "running" =>
          /\ \A w \in inserted : \E i \in DOMAIN results : batch[i] = w.request
          /\ Explained(inserted, batch, results)
    /\ stage = "committed" => Len(results) = Len(batch) /\ Explained(writes, batch, results)

\* What the answered callers were told is so.
ToldInv ==
    \A r \in Requests :
        /\ outcome[r] = "accepted" => \E w \in writes : WritesOf(writes, r) = {w}
        /\ outcome[r] \in {"conflict", "ctxErr", "error"} => WritesOf(writes, r) = {}

StoreInv == TypeInv /\ LogInv /\ CheckInv /\ FlushInv /\ ToldInv

-----------------------------------------------------------------------------
(* The steps.                                                               *)

\* Clients that observe or cancel leave the log and the flush alone.
Quiet ==
    /\ UNCHANGED <<durableVars, outcome, flushVars>>
    /\ DOMAIN observed' = DOMAIN observed
    /\ \A r \in Requests : Waiting(r) => Waiting(r)'

\* Observe, Cancel and stuttering are such steps; the others are executeBatch's,
\* the coordinator's and the crash.
LEMMA StepCases ==
  ASSUME TypeInv, [Next]_vars
  PROVE  \/ Quiet
         \/ \E s \in Flushes : Begin(s)
         \/ SaveRequest \/ Commit \/ Fail \/ Complete \/ Crash
<1>1. ASSUME NEW r \in Requests, NEW q \in Queries[r], Observe(r, q) PROVE Quiet
  <2>1. /\ UNCHANGED <<durableVars, outcome, flushVars>>
        /\ observed[r][q] = Unread
        /\ observed' = [observed EXCEPT ![r] = [@ EXCEPT ![q] = LatestPosition(q, Rows(writes))]]
    BY <1>1, Zenon DEF Observe
  <2>2. DOMAIN observed' = DOMAIN observed /\ \A s \in Requests : s # r => observed'[s] = observed[s]
    BY <2>1, Zenon DEF TypeInv
  <2>3. ~Waiting(r)
    BY <2>1, Zenon DEF Waiting
  <2>4. \A s \in Requests : Waiting(s) => Waiting(s)'
    BY <2>1, <2>2, <2>3, Zenon DEF Waiting
  <2> QED BY <2>1, <2>2, <2>4, Zenon DEF Quiet
<1>2. ASSUME NEW r \in Requests, Cancel(r) PROVE Quiet
  BY <1>2, Zenon DEF Cancel, Quiet, Waiting
<1>3. CASE UNCHANGED vars
  BY <1>3, Zenon DEF vars, Quiet, Waiting
<1> QED BY <1>1, <1>2, <1>3, Zenon DEF Next

\* The requests of a flush are different.
LEMMA FlushIs ==
  ASSUME NEW s \in Flushes
  PROVE  s \in Seq(Requests) /\ \A i, j \in DOMAIN s : s[i] = s[j] => i = j
<1>1. PICK n \in 1 .. MaxBatch : /\ s \in [1 .. n -> Requests]
                                 /\ \A i, j \in 1 .. n : s[i] = s[j] => i = j
  BY Zenon DEF Flushes
<1>2. n \in Nat
  BY StoreAssumption
<1> QED BY <1>1, <1>2

\* A request of the flush is answered without a write.
Refuses(o) ==
    /\ o \in {"ctxErr", "conflict", "error"}
    /\ results' = Append(results, o)
    /\ UNCHANGED <<inserted, nextId>>

\* The request r of the flush is accepted, its events in write v.
Accepts(r, v) ==
    /\ Passes(r)
    /\ results' = Append(results, "accepted")
    /\ inserted' = inserted \cup {v}
    /\ nextId' = v.commit + 1 /\ nextId' <= MaxId
    /\ WriteOK(v) /\ v.first = nextId /\ v.commit \in Nat /\ v.first <= v.commit
    /\ v.checks = ChecksOf(r) /\ v.request = r

\* SaveRequest answers the next request of the flush; the positions it gives do
\* not overflow.
LEMMA SaveCases ==
  ASSUME TypeInv, SaveRequest
  PROVE  /\ stage = "running"
         /\ UNCHANGED <<writes, seqRow, observed, outcome, stage, batch>>
         /\ Len(results) + 1 \in DOMAIN batch
         /\ \/ \E o : Refuses(o)
            \/ \E v : Accepts(batch[Len(results) + 1], v)
<1>0. /\ stage = "running"
      /\ UNCHANGED <<writes, seqRow, observed, outcome, stage, batch>>
      /\ Len(results) < Len(batch)
  BY Zenon DEF SaveRequest, durableVars
<1>1. Len(results) + 1 \in DOMAIN batch
  BY <1>0 DEF TypeInv
<1>2. PICK r : r = batch[Len(results) + 1]
  BY Zenon
<1>3. r \in Requests
  BY <1>1, <1>2 DEF TypeInv
<1>4. Docs[r] \in Seq(SUBSET Predicates) \ {<<>>} /\ Len(Docs[r]) \in Nat \ {0}
  <2>1. Docs[r] \in Seq(SUBSET Predicates) \ {<<>>}
    BY <1>3, StoreAssumption, Zenon
  <2> QED BY <2>1, FirstOf, Zenon
<1>5. nextId \in Nat \ {0} /\ nextId <= MaxId /\ MaxId \in Nat
  BY <1>0, StoreAssumption DEF TypeInv
<1> DEFINE last == Wrap(nextId + Len(Docs[r]) - 1)
           v == [commit |-> last, first |-> nextId, docs |-> Docs[r], checks |-> ChecksOf(r), request |-> r]
<1>6. \/ \E o : Refuses(o)
      \/ /\ Passes(r) /\ Fits(Len(Docs[r]))
         /\ results' = Append(results, "accepted")
         /\ inserted' = inserted \cup {v}
         /\ nextId' = Wrap(last + 1)
  <2>1. \A o : o \in {"ctxErr", "conflict", "error"} /\ results' = Append(results, o)
               /\ UNCHANGED <<inserted, nextId>> => Refuses(o)
    BY Zenon DEF Refuses
  <2> QED BY <1>2, <2>1, Zenon DEF SaveRequest
<1>7. CASE /\ Passes(r) /\ Fits(Len(Docs[r]))
           /\ results' = Append(results, "accepted")
           /\ inserted' = inserted \cup {v}
           /\ nextId' = Wrap(last + 1)
  <2>1. Len(Docs[r]) <= MaxId - nextId
    BY <1>7, Zenon DEF Fits
  <2>2. last = nextId + Len(Docs[r]) - 1 /\ Wrap(last + 1) = last + 1
    <3>1. \A n \in Int : n <= MaxId => Wrap(n) = n
      BY <1>5 DEF Wrap
    <3>2. PICK n : n = nextId + Len(Docs[r]) - 1
      BY Zenon
    <3>3. n \in Int /\ n <= MaxId /\ n + 1 \in Int /\ n + 1 <= MaxId
      BY <1>4, <1>5, <2>1, <3>2
    <3> QED BY <3>1, <3>2, <3>3, Zenon
  <2>3. last \in Nat /\ nextId <= last /\ last + 1 <= MaxId
    BY <1>4, <1>5, <2>1, <2>2
  <2> HIDE DEF last
  <2>4. /\ v.commit = last /\ v.first = nextId /\ v.docs = Docs[r] /\ v.checks = ChecksOf(r)
        /\ v.request = r
    BY Zenon
  <2> HIDE DEF v
  <2>5. WriteOK(v)
    BY <1>3, <1>4, <1>5, <2>2, <2>4, Zenon DEF WriteOK
  <2>6. Accepts(r, v)
    BY <1>7, <2>2, <2>3, <2>4, <2>5, Zenon DEF Accepts
  <2> QED BY <1>0, <1>1, <1>2, <2>6, Zenon
<1> QED BY <1>0, <1>1, <1>2, <1>6, <1>7, Zenon

-----------------------------------------------------------------------------
(* The inductive invariant, action by action.                               *)

\* Every step keeps the types, and the sequence row within the positions.
LEMMA TypeStep ==
  ASSUME TypeInv, [Next]_vars
  PROVE  TypeInv'
<1>0. /\ seqRow \in 1 .. MaxId
      /\ DOMAIN observed = Requests /\ DOMAIN outcome = Requests
      /\ stage \in {"idle", "running", "committed"}
      /\ batch \in Seq(Requests)
      /\ results \in Seq({"ctxErr", "conflict", "error", "accepted"})
      /\ Len(results) <= Len(batch)
      /\ stage = "running" => nextId \in seqRow .. MaxId
  BY Zenon DEF TypeInv
<1>1. CASE Quiet
  BY <1>1, Zenon DEF Quiet, TypeInv, durableVars, flushVars
<1>2. ASSUME NEW s \in Flushes, Begin(s) PROVE TypeInv'
  <2>1. /\ UNCHANGED <<seqRow, observed, outcome>> /\ stage' = "running"
        /\ batch' = s /\ results' = <<>> /\ nextId' = seqRow
    BY <1>2, Zenon DEF Begin, durableVars
  <2>2. s \in Seq(Requests)
    BY FlushIs, Zenon
  <2>3. /\ <<>> \in Seq({"ctxErr", "conflict", "error", "accepted"}) /\ Len(<<>>) <= Len(s)
        /\ seqRow \in seqRow .. MaxId
    BY <1>0, <2>2, StoreAssumption
  <2> QED BY <1>0, <2>1, <2>2, <2>3, Zenon DEF TypeInv
<1>3. CASE SaveRequest
  <2>1. /\ UNCHANGED <<seqRow, observed, outcome, stage, batch>> /\ stage = "running"
        /\ Len(results) + 1 \in DOMAIN batch
        /\ \E o \in {"ctxErr", "conflict", "error", "accepted"} : results' = Append(results, o)
        /\ nextId' = nextId \/ \E m \in Nat : nextId' = m + 1 /\ nextId <= m /\ m + 1 <= MaxId
    BY <1>3, SaveCases, Zenon DEF Refuses, Accepts
  <2>2. /\ results' \in Seq({"ctxErr", "conflict", "error", "accepted"})
        /\ Len(results') <= Len(batch)
    BY <1>0, <2>1
  <2>3. nextId' \in seqRow .. MaxId
    BY <1>0, <2>1, StoreAssumption
  <2> QED BY <1>0, <2>1, <2>2, <2>3, Zenon DEF TypeInv
<1>4. CASE Commit
  <2>1. /\ UNCHANGED <<observed, outcome, batch, results, nextId>> /\ stage' = "committed"
        /\ seqRow' = seqRow \/ seqRow' = nextId
        /\ stage = "running"
    BY <1>4, Zenon DEF Commit, SeqRowAfter
  <2>2. seqRow' \in 1 .. MaxId
    BY <1>0, <2>1, StoreAssumption
  <2> QED BY <1>0, <2>1, <2>2, Zenon DEF TypeInv
<1>5. CASE Fail \/ Complete \/ Crash
  <2>1. /\ UNCHANGED <<seqRow, observed>> /\ DOMAIN outcome' = Requests
        /\ stage' = "idle" /\ batch' = <<>> /\ results' = <<>>
    BY <1>5, Zenon DEF Fail, Complete, Crash, NoFlush, durableVars
  <2>2. /\ <<>> \in Seq({"ctxErr", "conflict", "error", "accepted"}) /\ <<>> \in Seq(Requests)
        /\ Len(<<>>) <= Len(<<>>)
    OBVIOUS
  <2> QED BY <1>0, <2>1, <2>2, Zenon DEF TypeInv
<1> QED BY <1>1, <1>2, <1>3, <1>4, <1>5, StepCases, Zenon

\* A write has at least one position.
LEMMA WriteNumbers ==
  ASSUME NEW w, WriteOK(w)
  PROVE  w.first \in Nat \ {0} /\ w.commit \in Nat /\ w.first <= w.commit
<1>1. Len(w.docs) \in Nat \ {0}
  BY FirstOf, Zenon DEF WriteOK
<1>2. w.first \in Nat \ {0} /\ w.commit = w.first + Len(w.docs) - 1
  BY Zenon DEF WriteOK
<1> QED BY <1>1, <1>2

\* The answers of a flush only grow.
LEMMA Answered ==
  ASSUME TypeInv, NEW o, results' = Append(results, o)
  PROVE  /\ DOMAIN results' = DOMAIN results \cup {Len(results) + 1}
         /\ Len(results) + 1 \notin DOMAIN results
         /\ \A i \in DOMAIN results : results'[i] = results[i]
         /\ results'[Len(results) + 1] = o
<1>1. DOMAIN results = 1 .. Len(results) /\ Len(results) \in Nat
  BY DEF TypeInv
<1>2. DOMAIN results' = 1 .. Len(results) + 1
  BY DEF TypeInv
<1>3. /\ \A i \in 1 .. Len(results) : results'[i] = results[i]
      /\ results'[Len(results) + 1] = o
  BY DEF TypeInv
<1>4. 1 .. Len(results) + 1 = (1 .. Len(results)) \cup {Len(results) + 1}
  BY <1>1
<1>5. Len(results) + 1 \notin 1 .. Len(results)
  BY <1>1
<1> QED BY <1>1, <1>2, <1>3, <1>4, <1>5, Zenon

\* Every step keeps the positions of the log apart and without a gap.
LEMMA LogStep ==
  ASSUME TypeInv, LogInv, [Next]_vars
  PROVE  LogInv'
<1>0. /\ \A w \in writes : WriteOK(w) /\ w.commit < seqRow
      /\ Apart(writes)
      /\ \A n \in 1 .. seqRow - 1 : \E w \in writes : w.first <= n /\ n <= w.commit
      /\ stage = "running" =>
            /\ \A w \in inserted : WriteOK(w) /\ seqRow <= w.first /\ w.commit < nextId
            /\ Apart(inserted)
            /\ \A n \in seqRow .. nextId - 1 : \E w \in inserted : w.first <= n /\ n <= w.commit
            /\ Accepted = {} => nextId = seqRow
  BY Zenon DEF LogInv
<1>n. seqRow \in Nat \ {0} /\ (stage = "running" => nextId \in Nat /\ seqRow <= nextId)
  BY StoreAssumption DEF TypeInv
<1>1. CASE Quiet
  BY <1>1, Zenon DEF Quiet, durableVars, flushVars, LogInv, WriteOK, Apart, Accepted
<1>2. ASSUME NEW s \in Flushes, Begin(s) PROVE LogInv'
  <2>1. UNCHANGED <<writes, seqRow>> /\ inserted' = {} /\ nextId' = seqRow
    BY <1>2, Zenon DEF Begin, durableVars
  <2>2. seqRow .. seqRow - 1 = {}
    BY <1>n
  <2>3. /\ \A n \in 1 .. seqRow' - 1 : \E w \in writes' : w.first <= n /\ n <= w.commit
        /\ \A n \in seqRow' .. nextId' - 1 : \E w \in inserted' : w.first <= n /\ n <= w.commit
    BY <1>0, <2>1, <2>2, Zenon
  <2>4. \A w \in writes' : WriteOK(w)' /\ w.commit < seqRow'
    BY <1>0, <2>1, Zenon DEF WriteOK
  <2>5. Apart(writes)' /\ Apart(inserted)'
    BY <1>0, <2>1, Zenon DEF Apart
  <2> QED BY <2>1, <2>3, <2>4, <2>5, Zenon DEF LogInv
<1>3. CASE SaveRequest
  <2>1. UNCHANGED <<writes, seqRow, stage>> /\ stage = "running"
    BY <1>3, SaveCases, Zenon
  <2>2. /\ \A w \in writes' : WriteOK(w)' /\ w.commit < seqRow'
        /\ Apart(writes)'
        /\ \A n \in 1 .. seqRow' - 1 : \E w \in writes' : w.first <= n /\ n <= w.commit
    BY <1>0, <2>1, Zenon DEF WriteOK, Apart
  <2>3. ASSUME NEW o, Refuses(o) PROVE LogInv'
    <3>1. UNCHANGED <<inserted, nextId>> /\ (Accepted' = {} => Accepted = {})
      BY <2>3, Answered, Zenon DEF Refuses, Accepted
    <3> QED BY <1>0, <2>1, <2>2, <3>1, Zenon DEF LogInv, WriteOK, Apart
  <2>4. ASSUME NEW v, Accepts(batch[Len(results) + 1], v) PROVE LogInv'
    <3>1. /\ inserted' = inserted \cup {v} /\ nextId' = v.commit + 1 /\ v.first = nextId
          /\ WriteOK(v) /\ v.commit \in Nat /\ v.first <= v.commit
          /\ results' = Append(results, "accepted")
      BY <2>4, Zenon DEF Accepts
    <3>2. Accepted' # {}
      BY <3>1, Answered, Zenon DEF Accepted
    <3>3. \A w \in inserted : /\ WriteOK(w) /\ w.first \in Nat /\ w.commit \in Nat
                              /\ seqRow <= w.first /\ w.commit < nextId
      BY <1>0, <2>1, WriteNumbers, Zenon
    <3>4. \A w \in inserted : w.commit < nextId'
      BY <1>n, <2>1, <3>1, <3>3
    <3>5. seqRow <= v.first /\ v.commit < nextId'
      BY <1>n, <2>1, <3>1
    <3>6. \A w \in inserted' : WriteOK(w)' /\ seqRow' <= w.first /\ w.commit < nextId'
      BY <2>1, <3>1, <3>3, <3>4, <3>5, Zenon DEF WriteOK
    <3>7. Apart(inserted')
      BY <1>0, <2>1, <3>1, <3>3, Zenon DEF Apart
    <3>8. ASSUME NEW n \in seqRow .. nextId' - 1
          PROVE  \E w \in inserted' : w.first <= n /\ n <= w.commit
      <4>1. n \in seqRow .. nextId - 1 \/ (v.first <= n /\ n <= v.commit)
        BY <1>n, <2>1, <3>1
      <4> QED BY <1>0, <2>1, <3>1, <4>1, Zenon
    <3> QED BY <2>1, <2>2, <3>2, <3>6, <3>7, <3>8, Zenon DEF LogInv, Apart
  <2> QED BY <1>3, <2>3, <2>4, SaveCases, Zenon
<1>4. CASE Commit
  <2>1. writes' = writes \cup inserted /\ stage = "running" /\ stage' = "committed" /\ seqRow' = nextId
    BY <1>0, <1>4, Zenon DEF Commit, SeqRowAfter
  <2>2. /\ \A w \in writes : w.first \in Nat /\ w.commit \in Nat
        /\ \A w \in inserted : w.first \in Nat /\ w.commit \in Nat
    BY <1>0, <2>1, WriteNumbers, Zenon
  <2>3. \A w \in writes : w.commit < nextId
    BY <1>0, <1>n, <2>1, <2>2
  <2>4. \A w \in writes' : WriteOK(w)' /\ w.commit < seqRow'
    BY <1>0, <2>1, <2>3, Zenon DEF WriteOK
  <2>5. \A w \in writes, x \in inserted : w.commit < x.first
    BY <1>0, <1>n, <2>1, <2>2
  <2>6. Apart(writes')
    BY <1>0, <2>1, <2>5, Zenon DEF Apart
  <2>7. ASSUME NEW n \in 1 .. nextId - 1
        PROVE  \E w \in writes' : w.first <= n /\ n <= w.commit
    <3>1. n \in 1 .. seqRow - 1 \/ n \in seqRow .. nextId - 1
      BY <1>n, <2>1
    <3> QED BY <1>0, <2>1, <3>1, Zenon
  <2> QED BY <2>1, <2>4, <2>6, <2>7, Zenon DEF LogInv, Apart
<1>5. CASE Fail \/ Complete \/ Crash
  <2>1. UNCHANGED <<writes, seqRow>> /\ stage' = "idle"
    BY <1>5, Zenon DEF Fail, Complete, Crash, NoFlush, durableVars
  <2> QED BY <1>0, <2>1, Zenon DEF LogInv, WriteOK, Apart
<1> QED BY <1>1, <1>2, <1>3, <1>4, <1>5, StepCases, Zenon

-----------------------------------------------------------------------------
(* The checks.                                                              *)

\* Every criterion of a query is covered by one that the checks read.
Covering ==
    \A r \in Requests : \A q \in Queries[r] : \A c \in q :
        \E d \in MinimalCriteria(q) : d \subseteq c

\* The rows of a write are at its positions.
LEMMA RowsWithin ==
  ASSUME NEW w, WriteOK(w), NEW n \in Nat, w.commit <= n
  PROVE  Within(WriteRows(w), n)
<1> SUFFICES ASSUME NEW x \in WriteRows(w) PROVE x.pos \in (0 .. n) \X (0 .. n)
  BY Zenon DEF Within
<1>1. PICK i \in DOMAIN w.docs : x = [pos |-> <<w.commit, w.first + i - 1>>, doc |-> w.docs[i]]
  BY Zenon DEF WriteRows
<1>2. Len(w.docs) \in Nat /\ DOMAIN w.docs = 1 .. Len(w.docs)
  BY FirstOf, Zenon DEF WriteOK
<1>3. w.first \in Nat \ {0} /\ w.commit = w.first + Len(w.docs) - 1 /\ w.commit \in Nat
  BY WriteNumbers, Zenon DEF WriteOK
<1>4. w.commit \in 0 .. n /\ w.first + i - 1 \in 0 .. n
  BY <1>1, <1>2, <1>3
<1> QED BY <1>1, <1>4, Zenon

\* The checks of a request read the minimal criteria of its queries, which is to
\* read all of them.
LEMMA PassesIs ==
  ASSUME LeastExists, Covering, TypeInv, LogInv, stage = "running", NEW r \in Requests, Passes(r)
  PROVE  Satisfied(ChecksOf(r), Rows(writes \cup inserted))
<1>0. PICK rows : rows = Rows(writes \cup inserted)
  BY Zenon
<1>1. MaxId \in Nat
  BY StoreAssumption, Zenon
<1>2. ASSUME NEW w \in writes \cup inserted PROVE Within(WriteRows(w), MaxId)
  <2>1. /\ WriteOK(w) /\ w.commit \in Nat
        /\ w.commit < seqRow \/ w.commit < nextId
    BY WriteNumbers, Zenon DEF LogInv
  <2>2. w.commit <= MaxId
    BY <1>1, <2>1 DEF TypeInv
  <2> QED BY <1>1, <2>1, <2>2, RowsWithin, Zenon
<1>3. Within(rows, MaxId)
  BY <1>0, <1>2, Zenon DEF Within, Rows
<1>4. ASSUME NEW check \in ChecksOf(r) PROVE LatestPosition(check.criteria, rows) = check.position
  <2>1. PICK q \in Queries[r] : check = [criteria |-> q, position |-> observed[r][q]]
    BY Zenon DEF ChecksOf
  <2>2. check.criteria = q
    BY <2>1, Zenon
  <2>3. LatestPosition(MinimalCriteria(q), rows) = check.position
    BY <1>0, <1>4, <2>2, Zenon DEF Passes
  <2>4. PICK m : m = MinimalCriteria(q)
    BY Zenon
  <2>5. m \in SUBSET q /\ \A c \in q : \E d \in m : d \subseteq c
    <3>1. m \in SUBSET q
      BY <2>4, Zenon DEF MinimalCriteria
    <3>2. \A c \in q : \E d \in MinimalCriteria(q) : d \subseteq c
      BY Zenon DEF Covering
    <3> QED BY <2>4, <3>1, <3>2, Zenon
  <2>6. LatestPosition(m, rows) = LatestPosition(q, rows)
    BY <1>1, <1>3, <2>5, CoveredQuery, Zenon
  <2> QED BY <2>2, <2>3, <2>4, <2>6, Zenon
<1> QED BY <1>0, <1>4, Zenon DEF Satisfied

\* An insert is after everything its checks have read, and what follows it does
\* not change that.
LEMMA CheckStep ==
  ASSUME LeastExists, Covering, TypeInv, LogInv, CheckInv, [Next]_vars
  PROVE  CheckInv'
<1>1. CASE Quiet
  BY <1>1, Zenon DEF Quiet, durableVars, flushVars, CheckInv
<1>2. CASE (\E s \in Flushes : Begin(s)) \/ Commit \/ Fail \/ Complete \/ Crash
  <2>1. stage' # "running" \/ inserted' = {}
    BY <1>2, Zenon DEF Begin, Commit, Fail, Complete, Crash, NoFlush
  <2> QED BY <2>1, Zenon DEF CheckInv
<1>3. CASE SaveRequest
  <2>1. UNCHANGED <<writes, stage>> /\ stage = "running" /\ Len(results) + 1 \in DOMAIN batch
    BY <1>3, SaveCases, Zenon
  <2>2. ASSUME NEW o, Refuses(o) PROVE CheckInv'
    BY <2>1, <2>2, Zenon DEF Refuses, CheckInv
  <2>3. ASSUME NEW r, r = batch[Len(results) + 1], NEW v, Accepts(r, v) PROVE CheckInv'
    <3>0. PICK old : old = writes \cup inserted
      BY Zenon
    <3>1. /\ writes' \cup inserted' = old \cup {v} /\ inserted' = inserted \cup {v}
          /\ v.checks = ChecksOf(r) /\ v.first = nextId /\ v.commit \in Nat /\ v.first <= v.commit
      BY <2>1, <2>3, <3>0, Zenon DEF Accepts
    <3>2. r \in Requests
      BY <2>1, <2>3 DEF TypeInv
    <3>3. Satisfied(v.checks, Rows(old))
      BY <2>1, <2>3, <3>0, <3>1, <3>2, PassesIs, Zenon DEF Accepts
    <3>4. ASSUME NEW x \in old PROVE x.commit < v.commit /\ ~(v.commit < x.commit)
      <4>1. x.commit \in Nat /\ (x.commit < seqRow \/ x.commit < nextId)
        BY <2>1, <3>0, WriteNumbers, Zenon DEF LogInv
      <4>2. seqRow \in Nat /\ nextId \in Nat /\ seqRow <= nextId
        BY <2>1, StoreAssumption DEF TypeInv
      <4> QED BY <3>1, <4>1, <4>2
    <3>5. ~(v.commit < v.commit)
      BY <3>1
    <3>6. {x \in old \cup {v} : x.commit < v.commit} = old
      BY <3>4, <3>5, Zenon
    <3>7. \A w \in inserted : {x \in old \cup {v} : x.commit < w.commit} = {x \in old : x.commit < w.commit}
      BY <3>0, <3>4, Zenon
    <3>8. \A w \in inserted : Satisfied(w.checks, Rows({x \in old : x.commit < w.commit}))
      BY <2>1, <3>0, Zenon DEF CheckInv
    <3>9. \A w \in inserted' : Satisfied(w.checks, Rows({x \in old \cup {v} : x.commit < w.commit}))
      BY <3>1, <3>3, <3>6, <3>7, <3>8, Zenon
    <3> QED BY <3>1, <3>9, Zenon DEF CheckInv
  <2> QED BY <1>3, <2>2, <2>3, SaveCases, Zenon
<1> QED BY <1>1, <1>2, <1>3, StepCases, Zenon

-----------------------------------------------------------------------------
(* The outcomes.                                                            *)

\* Begin, the requests of the flush one by one, and the commit keep what is known
\* of the writes of the flush.
LEMMA FlushStep ==
  ASSUME TypeInv, LogInv, FlushInv, [Next]_vars
  PROVE  FlushInv'
<1>0. /\ \A w \in writes : outcome[w.request] = "none" =>
            stage = "committed" /\ \E i \in DOMAIN batch : batch[i] = w.request
      /\ stage # "idle" =>
            /\ \A i, j \in DOMAIN batch : batch[i] = batch[j] => i = j
            /\ \A i \in DOMAIN batch : Waiting(batch[i])
      /\ stage = "running" =>
            /\ \A w \in inserted : \E i \in DOMAIN results : batch[i] = w.request
            /\ Explained(inserted, batch, results)
  BY Zenon DEF FlushInv
<1>d. /\ \A i \in DOMAIN batch : batch[i] \in Requests
      /\ DOMAIN results \subseteq DOMAIN batch
      /\ Len(results) = Len(batch) => DOMAIN results = DOMAIN batch
  BY DEF TypeInv
<1>w. \A w \in writes : w.request \in Requests
  BY Zenon DEF LogInv, WriteOK
<1>1. CASE Quiet
  <2>1. UNCHANGED <<writes, outcome, stage, batch, results, inserted>>
    BY <1>1, Zenon DEF Quiet, durableVars, flushVars
  <2>2. \A r \in Requests : Waiting(r) => Waiting(r)'
    BY <1>1, Zenon DEF Quiet
  <2>3. stage # "idle" => \A i \in DOMAIN batch : Waiting(batch[i])'
    BY <1>0, <1>d, <2>1, <2>2, Zenon
  <2> QED BY <2>1, <2>3, Zenon DEF FlushInv
<1>2. ASSUME NEW s \in Flushes, Begin(s) PROVE FlushInv'
  <2>1. /\ UNCHANGED <<writes, outcome, observed>> /\ inserted' = {} /\ results' = <<>> /\ batch' = s
        /\ stage = "idle" /\ stage' = "running"
        /\ \A i \in DOMAIN s : Waiting(s[i])
    BY <1>2, Zenon DEF Begin, durableVars
  <2>2. \A i, j \in DOMAIN s : s[i] = s[j] => i = j
    BY FlushIs, Zenon
  <2>3. \A i \in DOMAIN s : Waiting(s[i])'
    BY <2>1, Zenon DEF Waiting
  <2>4. \A w \in writes : outcome[w.request] # "none"
    BY <1>0, <2>1, Zenon
  <2>5. DOMAIN results' = {}
    BY <2>1
  <2> QED BY <2>1, <2>2, <2>3, <2>4, <2>5, Zenon DEF FlushInv, Explained
<1>3. CASE SaveRequest
  <2>1. /\ UNCHANGED <<writes, observed, outcome, stage, batch>> /\ stage = "running"
        /\ Len(results) + 1 \in DOMAIN batch
    BY <1>3, SaveCases, Zenon
  <2>2. PICK k : k = Len(results) + 1
    BY Zenon
  <2>3. \A i \in DOMAIN batch : Waiting(batch[i])'
    BY <1>0, <2>1, Zenon DEF Waiting
  <2>4. ASSUME NEW o, results' = Append(results, o)
        PROVE  /\ DOMAIN results' = DOMAIN results \cup {k} /\ k \notin DOMAIN results
               /\ \A i \in DOMAIN results : results'[i] = results[i]
               /\ results'[k] = o
    BY <2>2, <2>4, Answered, Zenon
  <2>5. WritesOf(inserted, batch[k]) = {}
    <3>1. ASSUME NEW w \in inserted, w.request = batch[k] PROVE FALSE
      <4>1. PICK i \in DOMAIN results : batch[i] = w.request
        BY <1>0, <2>1, Zenon
      <4>2. i = k
        BY <1>0, <1>d, <2>1, <2>2, <3>1, <4>1, Zenon
      <4> QED BY <2>2, <4>1, <4>2 DEF TypeInv
    <3> QED BY <3>1, Zenon DEF WritesOf
  <2>6. ASSUME NEW o, Refuses(o) PROVE FlushInv'
    <3>1. inserted' = inserted /\ results' = Append(results, o) /\ o # "accepted"
      BY <2>6 DEF Refuses
    <3>2. Explained(inserted, batch, results')
      <4>1. /\ DOMAIN results' = DOMAIN results \cup {k}
            /\ \A i \in DOMAIN results : results'[i] = results[i]
            /\ results'[k] # "accepted"
        BY <2>4, <3>1, Zenon
      <4>2. Explained(inserted, batch, results)
        BY <1>0, <2>1, Zenon
      <4> QED BY <2>5, <4>1, <4>2, Zenon DEF Explained
    <3>3. \A w \in inserted : \E i \in DOMAIN results' : batch[i] = w.request
      BY <1>0, <2>1, <2>4, <3>1, Zenon
    <3> QED BY <1>0, <2>1, <2>3, <3>1, <3>2, <3>3, Zenon DEF FlushInv
  <2>7. ASSUME NEW v, Accepts(batch[k], v) PROVE FlushInv'
    <3>1. inserted' = inserted \cup {v} /\ results' = Append(results, "accepted") /\ v.request = batch[k]
      BY <2>7, Zenon DEF Accepts
    <3>2. WritesOf(inserted', batch[k]) = {v}
      <4>1. \A w \in inserted : w.request # batch[k]
        BY <2>5, Zenon DEF WritesOf
      <4> QED BY <3>1, <4>1 DEF WritesOf
    <3>3. \A i \in DOMAIN results : WritesOf(inserted', batch[i]) = WritesOf(inserted, batch[i])
      <4>1. \A i \in DOMAIN results : batch[i] # batch[k]
        BY <1>0, <1>d, <2>1, <2>2, <2>4, <3>1, Zenon
      <4> QED BY <3>1, <4>1, Zenon DEF WritesOf
    <3>4. Explained(inserted', batch, results')
      <4>1. v \in inserted' /\ inserted \subseteq inserted'
        BY <3>1, Zenon
      <4>2. ASSUME NEW i \in DOMAIN results
            PROVE  IF results[i] = "accepted" THEN \E w \in inserted' : WritesOf(inserted', batch[i]) = {w}
                   ELSE WritesOf(inserted', batch[i]) = {}
        BY <1>0, <2>1, <3>3, <4>1, Zenon DEF Explained
      <4>3. /\ DOMAIN results' = DOMAIN results \cup {k}
            /\ \A i \in DOMAIN results : results'[i] = results[i]
            /\ results'[k] = "accepted"
        BY <2>4, <3>1, Zenon
      <4> QED BY <3>2, <4>1, <4>2, <4>3, Zenon DEF Explained
    <3>5. \A w \in inserted' : \E i \in DOMAIN results' : batch[i] = w.request
      BY <1>0, <2>1, <2>4, <3>1, Zenon
    <3> QED BY <1>0, <2>1, <2>3, <3>1, <3>4, <3>5, Zenon DEF FlushInv
  <2> QED BY <1>3, <2>2, <2>6, <2>7, SaveCases, Zenon
<1>4. CASE Commit
  <2>1. /\ UNCHANGED <<observed, outcome, batch, results>> /\ writes' = writes \cup inserted
        /\ stage = "running" /\ stage' = "committed" /\ Len(results) = Len(batch)
    BY <1>4, Zenon DEF Commit
  <2>2. \A i \in DOMAIN batch : Waiting(batch[i])' /\ outcome[batch[i]] = "none"
    BY <1>0, <2>1, Zenon DEF Waiting
  <2>3. \A w \in writes : outcome[w.request] # "none"
    BY <1>0, <2>1, Zenon
  <2>4. \A i \in DOMAIN batch : WritesOf(writes', batch[i]) = WritesOf(inserted, batch[i])
    BY <2>1, <2>2, <2>3, Zenon DEF WritesOf
  <2>5. Explained(writes', batch, results)
    BY <1>0, <1>d, <2>1, <2>4, Zenon DEF Explained
  <2>6. \A w \in writes' : outcome[w.request] = "none" => \E i \in DOMAIN batch : batch[i] = w.request
    BY <1>0, <1>d, <2>1, <2>3, Zenon
  <2> QED BY <1>0, <2>1, <2>2, <2>5, <2>6, Zenon DEF FlushInv
<1>5. ASSUME Fail \/ Complete \/ Crash PROVE FlushInv'
  <2>1. UNCHANGED writes /\ stage' = "idle"
    BY <1>5, Zenon DEF Fail, Complete, Crash, NoFlush, durableVars
  <2>2. ASSUME NEW w \in writes, outcome'[w.request] = "none" PROVE FALSE
    <3>1. w.request \in Requests
      BY <1>w, Zenon
    <3>2. CASE Crash
      <4>1. ~Waiting(w.request) /\ outcome[w.request] = "none"
        BY <2>2, <3>1, <3>2 DEF Crash
      <4> QED BY <1>0, <4>1, Zenon
    <3>3. CASE Fail
      <4>1. stage = "running" /\ outcome[w.request] = "none"
        BY <2>2, <3>1, <3>3 DEF Fail, FailureOutcome
      <4> QED BY <1>0, <4>1, Zenon
    <3>4. CASE Complete
      <4>1. stage = "committed" /\ DOMAIN results = DOMAIN batch
        BY <1>d, <3>4, Zenon DEF Complete, FlushInv
      <4>2. ~\E i \in DOMAIN batch : batch[i] = w.request
        <5>1. ASSUME NEW i \in DOMAIN batch, batch[i] = w.request PROVE FALSE
          <6>1. PICK j : j = CHOOSE x \in DOMAIN batch : batch[x] = w.request
            BY Zenon
          <6>2. j \in DOMAIN batch
            BY <5>1, <6>1, Zenon
          <6>3. outcome'[w.request] = results[j]
            BY <3>1, <3>4, <5>1, <6>1, Zenon DEF Complete
          <6>4. results[j] # "none"
            BY <4>1, <6>2 DEF TypeInv
          <6> QED BY <2>2, <6>3, <6>4, Zenon
        <5> QED BY <5>1, Zenon
      <4>3. outcome[w.request] = "none"
        BY <2>2, <3>1, <3>4, <4>2, Zenon DEF Complete
      <4> QED BY <1>0, <4>2, <4>3, Zenon
    <3> QED BY <1>5, <3>2, <3>3, <3>4, Zenon
  <2> QED BY <2>1, <2>2, Zenon DEF FlushInv
<1> QED BY <1>1, <1>2, <1>3, <1>4, <1>5, StepCases, Zenon

\* What a flush delivers to its callers is so, and what was delivered stays so.
LEMMA ToldStep ==
  ASSUME TypeInv, LogInv, FlushInv, ToldInv, [Next]_vars
  PROVE  ToldInv'
<1>1. CASE UNCHANGED <<writes, outcome>>
  BY <1>1, Zenon DEF ToldInv
<1>2. Quiet \/ (\E s \in Flushes : Begin(s)) \/ SaveRequest => UNCHANGED <<writes, outcome>>
  BY Zenon DEF Quiet, Begin, SaveRequest, durableVars
<1>3. CASE Commit
  <2>1. stage = "running" /\ writes' = writes \cup inserted /\ outcome' = outcome
    BY <1>3, Zenon DEF Commit
  <2>2. ASSUME NEW r \in Requests, outcome[r] # "none" PROVE WritesOf(writes', r) = WritesOf(writes, r)
    <3>1. ASSUME NEW w \in inserted PROVE w.request # r
      <4>1. PICK i \in DOMAIN results : batch[i] = w.request
        BY <2>1, Zenon DEF FlushInv
      <4>2. i \in DOMAIN batch
        BY <4>1 DEF TypeInv
      <4> QED BY <2>1, <2>2, <4>1, <4>2, Zenon DEF FlushInv, Waiting
    <3> QED BY <2>1, <3>1, Zenon DEF WritesOf
  <2>3. ASSUME NEW r \in Requests
        PROVE  /\ outcome[r] = "accepted" => \E w \in writes' : WritesOf(writes', r) = {w}
               /\ outcome[r] \in {"conflict", "ctxErr", "error"} => WritesOf(writes', r) = {}
    <3>1. /\ outcome[r] = "accepted" => outcome[r] # "none"
          /\ outcome[r] \in {"conflict", "ctxErr", "error"} => outcome[r] # "none"
      OBVIOUS
    <3>2. writes \subseteq writes'
      BY <2>1, Zenon
    <3> QED BY <2>2, <3>1, <3>2, Zenon DEF ToldInv
  <2> QED BY <2>1, <2>3, Zenon DEF ToldInv
<1>4. CASE Fail
  <2>1. /\ writes' = writes /\ stage = "running"
        /\ \A r \in Requests :
              outcome'[r] = IF \E i \in DOMAIN batch : batch[i] = r THEN "error" ELSE outcome[r]
    BY <1>4, Zenon DEF Fail, FailureOutcome, durableVars
  <2>2. ASSUME NEW r \in Requests, \E i \in DOMAIN batch : batch[i] = r PROVE WritesOf(writes, r) = {}
    <3>1. outcome[r] = "none"
      BY <2>1, <2>2, Zenon DEF FlushInv, Waiting
    <3>2. \A w \in writes : w.request # r
      BY <2>1, <3>1 DEF FlushInv
    <3> QED BY <3>2, Zenon DEF WritesOf
  <2>3. "error" # "accepted"
    OBVIOUS
  <2> QED BY <2>1, <2>2, <2>3, Zenon DEF ToldInv
<1>5. CASE Complete
  <2>1. /\ writes' = writes /\ stage = "committed"
        /\ \A r \in Requests :
              outcome'[r] = IF \E i \in DOMAIN batch : batch[i] = r
                            THEN results[CHOOSE i \in DOMAIN batch : batch[i] = r] ELSE outcome[r]
    BY <1>5, Zenon DEF Complete, durableVars
  <2>2. Explained(writes, batch, results) /\ DOMAIN results = DOMAIN batch
    <3>1. Explained(writes, batch, results) /\ Len(results) = Len(batch)
      BY <2>1, Zenon DEF FlushInv
    <3> QED BY <3>1 DEF TypeInv
  <2>3. ASSUME NEW r \in Requests, \E i \in DOMAIN batch : batch[i] = r
        PROVE  IF outcome'[r] = "accepted" THEN \E w \in writes : WritesOf(writes, r) = {w}
               ELSE WritesOf(writes, r) = {}
    <3>1. PICK j : j = CHOOSE i \in DOMAIN batch : batch[i] = r
      BY Zenon
    <3>2. j \in DOMAIN batch /\ batch[j] = r
      BY <2>3, <3>1, Zenon
    <3>3. outcome'[r] = results[j]
      BY <2>1, <2>3, <3>1, Zenon
    <3> QED BY <2>2, <3>2, <3>3, Zenon DEF Explained
  <2>4. \A o : o \in {"conflict", "ctxErr", "error"} => o # "accepted"
    OBVIOUS
  <2>5. ASSUME NEW r \in Requests
        PROVE  /\ outcome'[r] = "accepted" => \E w \in writes : WritesOf(writes, r) = {w}
               /\ outcome'[r] \in {"conflict", "ctxErr", "error"} => WritesOf(writes, r) = {}
    <3>1. CASE \E i \in DOMAIN batch : batch[i] = r
      BY <2>3, <2>4, <3>1, Zenon
    <3>2. CASE ~\E i \in DOMAIN batch : batch[i] = r
      BY <2>1, <3>2, Zenon DEF ToldInv
    <3> QED BY <3>1, <3>2, Zenon
  <2> QED BY <2>1, <2>5, Zenon DEF ToldInv
<1>6. CASE Crash
  <2>1. /\ writes' = writes
        /\ \A r \in Requests : outcome'[r] = outcome[r] \/ outcome'[r] = "unknown"
    BY <1>6, Zenon DEF Crash, durableVars
  <2>2. "unknown" \notin {"accepted", "conflict", "ctxErr", "error"}
    OBVIOUS
  <2> QED BY <2>1, <2>2, Zenon DEF ToldInv
<1> QED BY <1>1, <1>2, <1>3, <1>4, <1>5, <1>6, StepCases, Zenon

-----------------------------------------------------------------------------
(* The event log.                                                           *)

\* The event log reads rows and positions as the store does.
LEMMA SameReading ==
  /\ \A w : Log!WriteRows(w) = WriteRows(w)
  /\ \A ws : Log!Rows(ws) = Rows(ws)
  /\ \A p, q : Log!Before(p, q) = Before(p, q)
  /\ \A checks, rows : Log!Satisfied(checks, rows) = Satisfied(checks, rows)
BY Zenon DEF Log!WriteRows, WriteRows, Log!Rows, Rows, Log!Before, Before, Log!Satisfied, Satisfied,
       Log!LatestPosition, LatestPosition, Log!LatestMatch, LatestMatch, Log!Greatest, Greatest,
       Log!Matches, Matches, Log!NotExists, NotExists

\* Every step leaves the history of the boundary, and the commit of a flush saves
\* to it.
LEMMA LogRefined ==
  ASSUME TypeInv, LogInv, CheckInv, [Next]_vars
  PROVE  [Log!Save]_(Saved(writes))
<1>0. Saved(writes) = History(writes) /\ Saved(writes)' = History(writes')
  BY Zenon DEF Saved, History, Slim
<1>1. CASE Quiet \/ (\E s \in Flushes : Begin(s)) \/ SaveRequest \/ Fail \/ Complete \/ Crash
  <2>1. writes' = writes
    BY <1>1, Zenon DEF Quiet, Begin, SaveRequest, Fail, Complete, Crash, durableVars
  <2> QED BY <1>0, <2>1, Zenon
<1>2. CASE Commit
  <2>0. PICK old, new : old = writes /\ new = inserted
    BY Zenon
  <2>1. stage = "running" /\ writes' = old \cup new
    BY <1>2, <2>0, Zenon DEF Commit
  <2>2. \A w \in old \cup new : WriteOK(w) /\ w.commit \in Nat /\ w.first \in Nat /\ w.first <= w.commit
    BY <2>0, <2>1, WriteNumbers, Zenon DEF LogInv
  <2>3. \A w \in new, x \in old : x.commit < seqRow /\ seqRow <= w.first
    BY <2>0, <2>1, Zenon DEF LogInv
  <2>4. \A w, x \in new : w = x \/ w.commit < x.first \/ x.commit < w.first
    BY <2>0, <2>1, Zenon DEF LogInv, Apart
  <2>5. \A w \in new : Satisfied(w.checks, Rows({x \in old \cup new : x.commit < w.commit}))
    BY <2>0, <2>1, Zenon DEF CheckInv
  <2>6. Following(old, new)
    <3>1. \A w \in new, x \in old : x.commit < w.commit
      BY <2>2, <2>3 DEF TypeInv
    <3>2. \A w, x \in new : w = x \/ w.commit # x.commit
      BY <2>2, <2>4
    <3>3. \A w \in old \cup new : w.commit \in Int
      BY <2>2
    <3>4. \A w \in new : DOMAIN w.docs # {}
      BY <2>2, FirstOf, Zenon DEF WriteOK
    <3> QED BY <2>5, <3>1, <3>2, <3>3, <3>4, Zenon DEF Following
  <2>7. PICK all : all = History(old \cup new)
    BY Zenon
  <2>8. Saved(writes) = History(old) /\ Saved(writes)' = all /\ History(old) \subseteq all
    BY <1>0, <2>0, <2>1, <2>7, Zenon DEF History
  <2>9. \A h \in all \ History(old) : SavedLast(h, History(old), Log!Earlier(h, all), all)
    BY <2>6, <2>7, SavedAtEnd, Zenon DEF Log!Earlier
  <2> QED BY <2>8, <2>9, SameReading, Zenon DEF Log!Save, SavedLast
<1> QED BY <1>1, <1>2, StepCases, Zenon

-----------------------------------------------------------------------------
(* Theorems.                                                                *)

\* An empty boundary satisfies the invariants.
LEMMA InitStore ==
  ASSUME Init
  PROVE  StoreInv
<1>1. /\ writes = {} /\ seqRow = 1 /\ stage = "idle" /\ batch = <<>> /\ results = <<>>
      /\ DOMAIN observed = Requests /\ DOMAIN outcome = Requests
      /\ \A r \in Requests : outcome[r] = "none"
  BY Zenon DEF Init
<1>2. TypeInv
  <2>1. <<>> \in Seq(Requests) /\ <<>> \in Seq({"ctxErr", "conflict", "error", "accepted"})
    OBVIOUS
  <2>2. 1 \in 1 .. MaxId /\ Len(<<>>) <= Len(<<>>)
    BY StoreAssumption
  <2> QED BY <1>1, <2>1, <2>2, Zenon DEF TypeInv
<1>3. LogInv
  <2>1. 1 .. 1 - 1 = {}
    OBVIOUS
  <2> QED BY <1>1, <2>1, Zenon DEF LogInv, Apart
<1>4. CheckInv /\ FlushInv
  BY <1>1, Zenon DEF CheckInv, FlushInv
<1>5. ToldInv
  <2>1. "none" \notin {"accepted", "conflict", "ctxErr", "error"}
    OBVIOUS
  <2> QED BY <1>1, <2>1, Zenon DEF ToldInv
<1> QED BY <1>2, <1>3, <1>4, <1>5, Zenon DEF StoreInv

\* Every step keeps the invariants of the store.
LEMMA StoreStep ==
  ASSUME LeastExists, Covering, StoreInv, [Next]_vars
  PROVE  StoreInv'
BY TypeStep, LogStep, CheckStep, FlushStep, ToldStep, Zenon DEF StoreInv

\* The rows of the log number its positions one by one.
LEMMA RowNumbers ==
  ASSUME TypeInv, LogInv
  PROVE  /\ \A x \in Rows(writes) : x.pos[2] \in 1 .. seqRow - 1
         /\ \A x, y \in Rows(writes) : x.pos[2] = y.pos[2] => x = y
         /\ \A n \in 1 .. seqRow - 1 : \E x \in Rows(writes) : x.pos[2] = n
<1> DEFINE Row(w, i) == [pos |-> <<w.commit, w.first + i - 1>>, doc |-> w.docs[i]]
<1>0. seqRow \in Nat \ {0}
  BY DEF TypeInv
<1>1. ASSUME NEW w \in writes
      PROVE  /\ w.first \in Nat \ {0} /\ w.commit \in Nat /\ w.commit < seqRow
             /\ DOMAIN w.docs = 1 .. Len(w.docs) /\ Len(w.docs) \in Nat
             /\ w.commit = w.first + Len(w.docs) - 1
  BY WriteNumbers, FirstOf, Zenon DEF LogInv, WriteOK
<1>2. ASSUME NEW x \in Rows(writes) PROVE \E w \in writes : \E i \in DOMAIN w.docs : x = Row(w, i)
  BY <1>2, Zenon DEF Rows, WriteRows
<1>3. ASSUME NEW w \in writes, NEW i \in DOMAIN w.docs
      PROVE  /\ Row(w, i) \in Rows(writes) /\ Row(w, i).pos[2] = w.first + i - 1
             /\ w.first <= w.first + i - 1 /\ w.first + i - 1 <= w.commit
  <2>1. Row(w, i) \in Rows(writes)
    <3>1. Row(w, i) \in WriteRows(w)
      BY Zenon DEF WriteRows
    <3> HIDE DEF Row
    <3> QED BY <3>1, Zenon DEF Rows
  <2>2. Row(w, i).pos[2] = w.first + i - 1
    OBVIOUS
  <2>3. w.first <= w.first + i - 1 /\ w.first + i - 1 <= w.commit
    BY <1>1
  <2> QED BY <2>1, <2>2, <2>3, Zenon
<1> HIDE DEF Row
<1>4. ASSUME NEW x \in Rows(writes) PROVE x.pos[2] \in 1 .. seqRow - 1
  <2>1. PICK w \in writes : \E i \in DOMAIN w.docs : x = Row(w, i)
    BY <1>2, Zenon
  <2>2. PICK i \in DOMAIN w.docs : x = Row(w, i)
    BY <2>1, Zenon
  <2>3. x.pos[2] = w.first + i - 1 /\ w.first <= w.first + i - 1 /\ w.first + i - 1 <= w.commit /\ i \in Nat
    BY <1>1, <1>3, <2>2
  <2>4. w.first \in Nat \ {0} /\ w.commit \in Nat /\ w.commit < seqRow
    BY <1>1, Zenon
  <2> QED BY <1>0, <2>3, <2>4
<1>5. ASSUME NEW x \in Rows(writes), NEW y \in Rows(writes), x.pos[2] = y.pos[2] PROVE x = y
  <2>1. PICK w \in writes : \E i \in DOMAIN w.docs : x = Row(w, i)
    BY <1>2, Zenon
  <2>2. PICK i \in DOMAIN w.docs : x = Row(w, i)
    BY <2>1, Zenon
  <2>3. PICK z \in writes : \E j \in DOMAIN z.docs : y = Row(z, j)
    BY <1>2, Zenon
  <2>4. PICK j \in DOMAIN z.docs : y = Row(z, j)
    BY <2>3, Zenon
  <2>5. PICK n : n = x.pos[2]
    BY Zenon
  <2>6. n = w.first + i - 1 /\ w.first <= n /\ n <= w.commit /\ i \in Nat /\ w.first \in Nat /\ w.commit \in Nat
    BY <1>1, <1>3, <2>2, <2>5
  <2>7. n = z.first + j - 1 /\ z.first <= n /\ n <= z.commit /\ j \in Nat /\ z.first \in Nat /\ z.commit \in Nat
    BY <1>1, <1>3, <1>5, <2>4, <2>5
  <2>8. w = z
    <3>1. ~(w.commit < z.first) /\ ~(z.commit < w.first)
      BY <2>6, <2>7
    <3> QED BY <3>1, Zenon DEF LogInv, Apart
  <2>9. i = j
    BY <2>6, <2>7, <2>8
  <2> QED BY <2>2, <2>4, <2>8, <2>9, Zenon
<1>6. ASSUME NEW n \in 1 .. seqRow - 1 PROVE \E x \in Rows(writes) : x.pos[2] = n
  <2>1. PICK w \in writes : w.first <= n /\ n <= w.commit
    BY Zenon DEF LogInv
  <2>2. PICK i : i = n - w.first + 1
    BY Zenon
  <2>3. i \in DOMAIN w.docs /\ w.first + i - 1 = n
    <3>1. n \in Nat
      BY <1>0
    <3> QED BY <1>1, <2>1, <2>2, <3>1
  <2> QED BY <1>3, <2>3, Zenon
<1> QED BY <1>4, <1>5, <1>6, Zenon

INSTANCE FiniteSetTheorems

\* From the well-foundedness of < on the natural numbers.
LEMMA LeastNatural == LeastExists
<1> SUFFICES ASSUME NEW T \in SUBSET Nat, T # {} PROVE \E x \in T : \A y \in T : x <= y
  BY Zenon DEF LeastExists
<1> DEFINE R == {ss \in Nat \X Nat : ss[1] < ss[2]}
<1>1. IsWellFoundedOn(R, Nat)
  BY NatLessThanWellFounded, Zenon DEF OpToRel
<1>2. PICK x \in T : \A y \in T : ~(<<y, x>> \in R)
  <2> HIDE DEF R
  <2> QED BY <1>1, WFMin, Zenon
<1>3. \A y \in T : ~(y < x)
  BY <1>2, Zenon
<1> QED BY <1>3

\* A query lists finitely many criteria, so each is covered by a minimal one.
LEMMA QueriesCovered == Covering
<1> SUFFICES ASSUME NEW r \in Requests, NEW q \in Queries[r], NEW c \in q
             PROVE  \E d \in MinimalCriteria(q) : d \subseteq c
  BY Zenon DEF Covering
<1> DEFINE Under(d) == {e \in q : e \subseteq d}
           F == {Under(d) : d \in Under(c)}
           R == StrictSubsetOrdering(q)
<1>1. IsFiniteSet(q)
  BY StoreAssumption, Zenon
<1>2. IsWellFoundedOn(R, SUBSET q)
  BY <1>1, FS_StrictSubsetOrderingWellFounded, FS_FiniteSubsetsOfFinite, Zenon
<1>3. F \subseteq SUBSET q /\ F # {}
  <2>1. F \subseteq SUBSET q
    BY Zenon
  <2>2. c \in Under(c)
    BY Zenon
  <2>3. Under(c) \in F
    BY <2>2, Zenon
  <2> QED BY <2>1, <2>3, Zenon
<1>4. PICK m \in F : \A y \in F : ~(<<y, m>> \in R)
  <2> HIDE DEF F, R
  <2> QED BY <1>2, <1>3, WFMin, Zenon
<1>5. PICK d \in q : d \subseteq c /\ m = Under(d)
  BY <1>4, Zenon
<1>6. ASSUME NEW e \in q, e \subseteq d PROVE e = d
  <2>1. Under(e) \in F /\ Under(e) \subseteq Under(d) /\ Under(d) \subseteq q
    BY <1>5, <1>6, Zenon
  <2>2. d \in Under(e)
    <3>1. Under(e) = m
      BY <1>4, <1>5, <2>1, Zenon DEF StrictSubsetOrdering
    <3> QED BY <1>5, <3>1, Zenon
  <2> QED BY <1>6, <2>2, Zenon
<1> QED BY <1>5, <1>6, Zenon DEF MinimalCriteria

\* PositionsAreDense and OutcomesAreTrue follow from the invariant.
LEMMA StoreInvMeans ==
  ASSUME StoreInv
  PROVE  PositionsAreDense /\ OutcomesAreTrue
<1>1. PositionsAreDense
  <2> DEFINE S == Rows(writes)
             f == [x \in S |-> x.pos[2]]
  <2>1. /\ \A x \in S : x.pos[2] \in 1 .. seqRow - 1
        /\ \A x, y \in S : x.pos[2] = y.pos[2] => x = y
        /\ \A n \in 1 .. seqRow - 1 : \E x \in S : x.pos[2] = n
    BY RowNumbers, Zenon DEF StoreInv
  <2>2. f \in Injection(S, 1 .. seqRow - 1) /\ f \in Surjection(S, 1 .. seqRow - 1)
    BY <2>1, Zenon DEF Injection, Surjection, IsInjective
  <2>3. seqRow \in 1 .. MaxId
    BY Zenon DEF StoreInv, TypeInv
  <2>4. seqRow - 1 \in Int /\ 1 \in Int /\ seqRow <= MaxId
    BY <2>3, StoreAssumption
  <2>5. IsFiniteSet(1 .. seqRow - 1) /\ Cardinality(1 .. seqRow - 1) = seqRow - 1
    BY <2>3, <2>4, FS_Interval, StoreAssumption
  <2> HIDE DEF S, f
  <2>6. Cardinality(S) = seqRow - 1
    BY <2>2, <2>5, FS_Injection, Zenon
  <2>7. seqRow = Cardinality(S) + 1
    <3>1. PICK n : n = Cardinality(S)
      BY Zenon
    <3>2. n = seqRow - 1 /\ seqRow \in Int
      BY <2>3, <2>6, <3>1
    <3>3. seqRow = n + 1
      BY <3>2
    <3> QED BY <3>1, <3>3, Zenon
  <2> QED BY <2>4, <2>7, Zenon DEF PositionsAreDense, S
<1>2. OutcomesAreTrue
  BY FS_Singleton, Zenon DEF StoreInv, ToldInv, WritesOf, OutcomesAreTrue
<1> QED BY <1>1, <1>2, Zenon

\* executeBatch gives positions without a gap and never overflows, whatever
\* requests it rejects or rolls back, transactions fail and processes die.
THEOREM DensePositions == Spec => []PositionsAreDense
<1>1. Init => StoreInv
  BY InitStore, Zenon
<1>2. StoreInv /\ [Next]_vars => StoreInv'
  BY StoreStep, LeastNatural, QueriesCovered, Zenon
<1>3. StoreInv => PositionsAreDense
  BY StoreInvMeans, Zenon
<1> QED BY <1>1, <1>2, <1>3, PTL DEF Spec

\* What executeBatch answers is so: an accepted request has one durable write,
\* and one that was refused or failed has none, then and later.
THEOREM OutcomesHold == Spec => []OutcomesAreTrue
<1>1. Init => StoreInv
  BY InitStore, Zenon
<1>2. StoreInv /\ [Next]_vars => StoreInv'
  BY StoreStep, LeastNatural, QueriesCovered, Zenon
<1>3. StoreInv => OutcomesAreTrue
  BY StoreInvMeans, Zenon
<1> QED BY <1>1, <1>2, <1>3, PTL DEF Spec

\* executeBatch implements the event log: every write of a flush was saved at the
\* end while everything it had observed stood, although the checks read only the
\* criteria that no other of the query covers.
THEOREM StoreIsEventLog == Spec => ImplementsEventLog
<1>1. Init => StoreInv
  BY InitStore, Zenon
<1>2. Init => Log!Init
  BY Zenon DEF Init, Log!Init, Saved
<1>3. StoreInv /\ [Next]_vars => StoreInv'
  BY StoreStep, LeastNatural, QueriesCovered, Zenon
<1>4. StoreInv /\ [Next]_vars => [Log!Save]_(Saved(writes))
  BY LogRefined, Zenon DEF StoreInv
<1> QED BY <1>1, <1>2, <1>3, <1>4, PTL DEF Spec, ImplementsEventLog, Log!Spec
=============================================================================
