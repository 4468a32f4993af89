----------------------------- MODULE SqliteStore -----------------------------
(***************************************************************************)
(* One boundary of the SQLite backend: the transaction that executeBatch   *)
(* (sqlite/group_commit_executor.go) runs for each flush, the reads that   *)
(* clients take their observations from, cancellation, and a process that  *)
(* may crash at any moment and start again.                                *)
(*                                                                         *)
(* SQLite is modelled by what the code relies on: BEGIN IMMEDIATE gives    *)
(* the single writer, readers see committed rows only, a savepoint undoes  *)
(* one request and a failed or interrupted transaction leaves nothing.     *)
(* Positions are integers of MaxId and wrap beyond it, as int64 does.      *)
(***************************************************************************)
EXTENDS Consistency, Sequences, FiniteSets

CONSTANTS
    Predicates,    \* the tag predicates of documents and criteria
    Requests,      \* requests to save events
    Docs,          \* the documents of each request, in order
    Queries,       \* the queries each request has to have observed
    MaxBatch,      \* the most requests in a flush
    MaxId,         \* math.MaxInt64
    MaxCrashes     \* bound on crashes of the process

ASSUME StoreAssumption ==
    /\ Docs \in [Requests -> Seq(SUBSET Predicates) \ {<<>>}]
    /\ \A r \in Requests : Queries[r] \subseteq SUBSET (SUBSET Predicates \ {{}})
    /\ \A r \in Requests : \A q \in Queries[r] : IsFiniteSet(q)
    /\ MaxBatch \in Nat \ {0}
    /\ MaxId \in Nat \ {0}
    /\ MaxCrashes \in Nat

VARIABLES
    writes,     \* the committed writes
    seqRow,     \* next_id of the orisun_es_seq row
    observed,   \* the positions observed for each request's queries
    ctxDone,    \* whether the context of each request is done
    outcome,    \* what the caller of each request was told
    stage,      \* the writer: "idle", "running", "committed"
    batch,      \* the requests of the flush, in order
    results,    \* their provisional outcomes, as far as it has got
    inserted,   \* the writes of the open transaction
    nextId,     \* the flush's next position
    crashes

durableVars == <<writes, seqRow>>
flushVars   == <<stage, batch, results, inserted, nextId>>
vars == <<durableVars, observed, ctxDone, outcome, flushVars, crashes>>

Unread == <<-2, -2>>

\* int64 arithmetic.
Wrap(n) == IF n > MaxId THEN n - 2 * (MaxId + 1) ELSE n

ChecksOf(r) == {[criteria |-> q, position |-> observed[r][q]] : q \in Queries[r]}

NoFlush ==
    /\ stage' = "idle"
    /\ batch' = <<>>
    /\ results' = <<>>
    /\ inserted' = {}
    /\ nextId' = 0

Init ==
    /\ writes = {}
    /\ seqRow = 1
    /\ observed = [r \in Requests |-> [q \in Queries[r] |-> Unread]]
    /\ ctxDone = [r \in Requests |-> FALSE]
    /\ outcome = [r \in Requests |-> "none"]
    /\ stage = "idle"
    /\ batch = <<>>
    /\ results = <<>>
    /\ inserted = {}
    /\ nextId = 0
    /\ crashes = 0

-----------------------------------------------------------------------------
\* A client reads the latest position of one query of its request, from one
\* read snapshot.
Observe(r, q) ==
    /\ observed[r][q] = Unread
    /\ observed' = [observed EXCEPT ![r][q] = LatestPosition(q, Rows(writes))]
    /\ UNCHANGED <<durableVars, ctxDone, outcome, flushVars, crashes>>

Cancel(r) ==
    /\ ~ctxDone[r]
    /\ outcome[r] = "none"
    /\ ctxDone' = [ctxDone EXCEPT ![r] = TRUE]
    /\ UNCHANGED <<durableVars, observed, outcome, flushVars, crashes>>

\* Requests that can be in a flush: submitted and not answered.
Waiting(r) == outcome[r] = "none" /\ \A q \in Queries[r] : observed[r][q] # Unread

\* The coordinator hands a batch to executeBatch; the transaction begins and
\* reads the sequence row, which has to be there.
Begin(requests) ==
    /\ stage = "idle"
    /\ \A i \in DOMAIN requests : Waiting(requests[i])
    /\ seqRow >= 1
    /\ stage' = "running"
    /\ batch' = requests
    /\ results' = <<>>
    /\ inserted' = {}
    /\ nextId' = seqRow
    /\ UNCHANGED <<durableVars, observed, ctxDone, outcome, crashes>>

\* Criteria whose matches another criterion of the query covers are dropped.
MinimalCriteria(q) == {c \in q : \A d \in q : d \subseteq c => d = c}

\* Fault: the checks read the committed rows, not the open transaction.
PassesCommitted(r) ==
    \A check \in ChecksOf(r) :
        LatestPosition(MinimalCriteria(check.criteria), Rows(writes)) = check.position

\* The checks of a request, read on the writer's connection: committed rows
\* and those of earlier requests of the flush.
Passes(r) ==
    \A check \in ChecksOf(r) :
        LatestPosition(MinimalCriteria(check.criteria), Rows(writes \cup inserted)) = check.position

\* The positions of n events fit, and so does the next value of the sequence.
Fits(n) == n <= MaxId - nextId

\* The next request of the flush.  A done context, a check that fails or
\* cannot be read, positions that do not fit and an insert that fails (its
\* savepoint is rolled back) leave no trace.  That SQLite undoes the savepoint and
\* nothing else is assumed: errors on which it may roll back the whole transaction,
\* a full disk among them, are not told apart.
SaveRequest ==
    LET r == batch[Len(results) + 1]
        n == Len(Docs[r])
        last == Wrap(nextId + n - 1)
    IN
    /\ stage = "running"
    /\ Len(results) < Len(batch)
    /\ \/ /\ \/ ctxDone[r] /\ results' = Append(results, "ctxErr")
             \/ ~ctxDone[r] /\ ~Passes(r) /\ results' = Append(results, "conflict")
             \/ ~ctxDone[r] /\ results' = Append(results, "error")
          /\ UNCHANGED <<inserted, nextId>>
       \/ /\ ~ctxDone[r] /\ Passes(r) /\ Fits(n)
          /\ results' = Append(results, "accepted")
          /\ inserted' = inserted \cup
                {[commit |-> last, first |-> nextId, docs |-> Docs[r], checks |-> ChecksOf(r), request |-> r]}
          /\ nextId' = Wrap(last + 1)
    /\ UNCHANGED <<durableVars, observed, ctxDone, outcome, stage, batch, crashes>>

Accepted == {i \in DOMAIN results : results[i] = "accepted"}

\* Fault: the sequence keeps its value.
SeqRowKept == seqRow

\* The sequence row once the flush has written it, if it accepted anything.
SeqRowAfter == IF Accepted = {} THEN seqRow ELSE nextId

\* The sequence is updated and the transaction commits.
Commit ==
    /\ stage = "running"
    /\ Len(results) = Len(batch)
    /\ writes' = writes \cup inserted
    /\ seqRow' = SeqRowAfter
    /\ stage' = "committed"
    /\ UNCHANGED <<observed, ctxDone, outcome, batch, results, inserted, nextId, crashes>>

\* Fault: the provisional outcomes outlive a failed transaction.
FailedOutcome(i) == IF i \in DOMAIN results THEN results[i] ELSE "error"

\* What a request of a failed flush is told.
FailureOutcome(i) == "error"

\* The connection, BEGIN, the sequence read, the sequence update or the commit
\* fails: nothing is left of the flush.
Fail ==
    /\ stage = "running"
    /\ Len(results) \in {0, Len(batch)}
    /\ outcome' = [r \in Requests |->
          IF \E i \in DOMAIN batch : batch[i] = r
          THEN FailureOutcome(CHOOSE i \in DOMAIN batch : batch[i] = r) ELSE outcome[r]]
    /\ NoFlush
    /\ UNCHANGED <<durableVars, observed, ctxDone, crashes>>

\* The outcomes are delivered after the commit.
Complete ==
    /\ stage = "committed"
    /\ outcome' = [r \in Requests |->
          IF \E i \in DOMAIN batch : batch[i] = r
          THEN results[CHOOSE i \in DOMAIN batch : batch[i] = r] ELSE outcome[r]]
    /\ NoFlush
    /\ UNCHANGED <<durableVars, observed, ctxDone, crashes>>

\* The process dies: an open transaction is lost, a committed one is not, and
\* the callers of the requests in flight learn nothing.
Crash ==
    /\ crashes < MaxCrashes
    /\ crashes' = crashes + 1
    /\ outcome' = [r \in Requests |-> IF Waiting(r) THEN "unknown" ELSE outcome[r]]
    /\ NoFlush
    /\ UNCHANGED <<durableVars, observed, ctxDone>>

Flushes ==
    UNION {{s \in [1 .. n -> Requests] : \A i, j \in 1 .. n : s[i] = s[j] => i = j} : n \in 1 .. MaxBatch}

Next ==
    \/ \E r \in Requests : Cancel(r) \/ \E q \in Queries[r] : Observe(r, q)
    \/ \E s \in Flushes : Begin(s)
    \/ SaveRequest \/ Commit \/ Fail \/ Complete \/ Crash

Spec == Init /\ [][Next]_vars

-----------------------------------------------------------------------------
(* Properties *)

Saved(ws) == {[commit |-> w.commit, first |-> w.first, docs |-> w.docs, checks |-> w.checks] : w \in ws}

Log == INSTANCE EventLog WITH Initial <- {}, history <- Saved(writes)

\* The rows of the boundary are a history of the abstract event log: every
\* write of a flush was saved at the end and while its observations stood,
\* earlier requests of the same flush included, and up to the last position.
ImplementsEventLog == Log!Spec

\* Positions have no gaps, whatever was rejected, rolled back or lost in a
\* crash: the sequence row is one more than the number of events, and it stays
\* within the positions there are.
PositionsAreDense == seqRow = Cardinality(Rows(writes)) + 1 /\ seqRow <= MaxId

\* A caller is told "accepted" only of a durable write, and a rejection or an
\* error only of one that left nothing and never will.
OutcomesAreTrue ==
    \A r \in Requests :
        LET saved == {w \in writes : w.request = r} IN
        /\ outcome[r] = "accepted" => Cardinality(saved) = 1
        /\ outcome[r] \in {"conflict", "ctxErr", "error"} => saved = {}
=============================================================================
