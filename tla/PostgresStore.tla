---------------------------- MODULE PostgresStore ----------------------------
(***************************************************************************)
(* One boundary of the PostgreSQL backend: insert_event_requests_v2, called *)
(* by executeBatch (postgres/group_commit_executor.go) of any number of    *)
(* server processes, the ascending reads of get_matching_events_v4 and the *)
(* latest-position reads that clients take their observations from.        *)
(*                                                                         *)
(* PostgreSQL itself is modelled by what the scripts rely on: an advisory  *)
(* lock held to the end of its transaction, transaction ids handed out in  *)
(* order, a sequence that is not rolled back, statement snapshots, and     *)
(* commits that make all rows of a transaction visible at once.            *)
(***************************************************************************)
EXTENDS Consistency, Sequences

CONSTANTS
    Predicates,  \* the tag predicates of documents and criteria
    Requests,    \* requests to save events
    Docs,        \* the documents of each request, in order
    Queries,     \* the queries each request has to have observed
    Batches,     \* calls of insert_event_requests_v2
    BatchOf,     \* the requests of each batch, in order
    Servers,     \* server processes that start
    Others,      \* unrelated transactions of the database cluster
    Readers,     \* subscriptions reading in ascending order
    Restored     \* writes restored from another cluster, with its xids

ASSUME StoreAssumption ==
    /\ Docs \in [Requests -> Seq(SUBSET Predicates) \ {<<>>}]
    /\ \A r \in Requests : Queries[r] \subseteq SUBSET SUBSET Predicates
    /\ BatchOf \in [Batches -> Seq(Requests) \ {<<>>}]

\* A request is queued once, so it is in one batch, and once in it.
ASSUME BatchAssumption ==
    \A t, u \in Batches : \A i \in DOMAIN BatchOf[t], j \in DOMAIN BatchOf[u] :
        BatchOf[t][i] = BatchOf[u][j] => t = u /\ i = j

\* The restored writes are those of another boundary of this kind: one of them
\* is the last.
ASSUME RestoredAssumption ==
    /\ Restored = {} \/ \E last \in Restored : \A w \in Restored : w.commit <= last.commit
    /\ \A w \in Restored :
          /\ w = [commit |-> w.commit, first |-> w.first, docs |-> w.docs,
                  checks |-> w.checks, request |-> w.request, xid |-> w.xid]
          /\ w.first \in Nat /\ w.xid \in Nat
          /\ w.docs \in Seq(SUBSET Predicates) \ {<<>>}
          /\ w.commit = w.first + Len(w.docs)
          /\ w.request \notin Requests
    /\ \A w, x \in Restored : w = x \/ w.commit <= x.first \/ x.commit <= w.first

VARIABLES
    writes,     \* the committed writes; xid is the pg_xact_id of their rows
    sequence,   \* the next value of the global_id sequence
    nextXid,    \* the next transaction id of the cluster
    active,     \* the transaction ids in progress
    migration,  \* how far each server is with initializeBoundaryTables
    serverXid,  \* the transaction id it does that under
    observed,   \* the positions observed for each request's queries
    stage,      \* how far each batch is
    xid,        \* the transaction id of each batch, 0 before it has one
    latest,     \* each batch's criterion_tx_ids and criterion_gids
    index,      \* the request each batch is at
    pending,    \* the writes each batch has accepted and not committed
    outcome,    \* what the callers of each request were told
    otherXid,   \* the transaction id of each unrelated transaction
    cursor,     \* the position each reader has reached
    delivered   \* the positions each reader has delivered

clusterVars == <<nextXid, active, otherXid>>
serverVars  == <<migration, serverXid>>
batchVars   == <<stage, xid, latest, index, pending, outcome>>
readerVars  == <<cursor, delivered>>
vars == <<writes, sequence, serverVars, observed, clusterVars, batchVars, readerVars>>

NullXid == 0
Unread == <<-2, -2>>

\* The checks a request carries: each of its queries with the observed position.
ChecksOf(r) == {[criteria |-> q, position |-> observed[r][q]] : q \in Queries[r]}

\* Every criterion of a batch.
CriteriaOf(t) == UNION {UNION Queries[BatchOf[t][i]] : i \in DOMAIN BatchOf[t]}

Init ==
    /\ writes = Restored
    /\ sequence = IF Restored = {} THEN 0 ELSE Greatest({<<w.commit, 0>> : w \in Restored})[1]
    /\ nextXid = 1
    /\ active = {}
    /\ migration = [s \in Servers |-> "idle"]
    /\ serverXid = [s \in Servers |-> NullXid]
    /\ observed = [r \in Requests |-> [q \in Queries[r] |-> Unread]]
    /\ stage = [t \in Batches |-> "idle"]
    /\ xid = [t \in Batches |-> NullXid]
    /\ latest = [t \in Batches |-> [c \in CriteriaOf(t) |-> NotExists]]
    /\ index = [t \in Batches |-> 1]
    /\ pending = [t \in Batches |-> {}]
    /\ outcome = [r \in Requests |-> "none"]
    /\ otherXid = [o \in Others |-> NullXid]
    /\ cursor = [c \in Readers |-> NotExists]
    /\ delivered = [c \in Readers |-> {}]

-----------------------------------------------------------------------------
(* The cluster *)

\* An unrelated transaction takes a transaction id, and later ends.
OtherBegin(o) ==
    /\ otherXid[o] = NullXid
    /\ otherXid' = [otherXid EXCEPT ![o] = nextXid]
    /\ active' = active \cup {nextXid}
    /\ nextXid' = nextXid + 1
    /\ UNCHANGED <<writes, sequence, serverVars, observed, batchVars, readerVars>>

OtherEnd(o) ==
    /\ otherXid[o] \in active
    /\ active' = active \ {otherXid[o]}
    /\ UNCHANGED <<writes, sequence, serverVars, observed, nextXid, otherXid, batchVars, readerVars>>

\* A server starts and initializes the boundary, which may be in use: its
\* transaction has its id from locking the boundary's schema version ...
MigrateBegin(s) ==
    /\ migration[s] = "idle"
    /\ \A other \in Servers : migration[other] # "running"
    /\ migration' = [migration EXCEPT ![s] = "running"]
    /\ serverXid' = [serverXid EXCEPT ![s] = nextXid]
    /\ active' = active \cup {nextXid}
    /\ nextXid' = nextXid + 1
    /\ UNCHANGED <<writes, sequence, observed, otherXid, batchVars, readerVars>>

\* ... and takes the ids at or above its own for those of another cluster.
MigrateEnd(s) ==
    /\ migration[s] = "running"
    /\ migration' = [migration EXCEPT ![s] = "done"]
    /\ writes' = {[w EXCEPT !.xid = IF @ >= serverXid[s] THEN NullXid ELSE @] : w \in writes}
    /\ active' = active \ {serverXid[s]}
    /\ UNCHANGED <<sequence, observed, nextXid, otherXid, serverXid, batchVars, readerVars>>

\* Some server has registered the boundary.
Registered == \E s \in Servers : migration[s] = "done"

-----------------------------------------------------------------------------
(* Writes *)

\* A client reads the latest position of one query of its request.
Observe(r, q) ==
    /\ Registered
    /\ observed[r][q] = Unread
    /\ observed' = [observed EXCEPT ![r][q] = LatestPosition(q, Rows(writes))]
    /\ UNCHANGED <<writes, sequence, serverVars, clusterVars, batchVars, readerVars>>

\* Phase 1: the batch is compiled; no state of the boundary is read.
Compile(t) ==
    /\ stage[t] = "idle"
    /\ Registered
    /\ \A i \in DOMAIN BatchOf[t] : \A q \in Queries[BatchOf[t][i]] : observed[BatchOf[t][i]][q] # Unread
    /\ stage' = [stage EXCEPT ![t] = "waiting"]
    /\ UNCHANGED <<writes, sequence, serverVars, observed, clusterVars, xid, latest, index, pending, outcome, readerVars>>

HoldsLock(t) == stage[t] \in {"locked", "looping"}

\* Fault: the advisory lock is not taken.
LockAlwaysFree == TRUE

\* Nobody holds the boundary's advisory transaction lock.
LockFree == \A t \in Batches : ~HoldsLock(t)

\* Phase 2: the advisory lock ...
Lock(t) ==
    /\ stage[t] = "waiting"
    /\ LockFree
    /\ stage' = [stage EXCEPT ![t] = "locked"]
    /\ UNCHANGED <<writes, sequence, serverVars, observed, clusterVars, xid, latest, index, pending, outcome, readerVars>>

\* Fault: the transaction has its id before it waits for the lock.
XidDueEarly(t) == stage[t] \in {"waiting", "locked"}

\* The transaction id is taken once the lock is held.
XidDue(t) == stage[t] = "locked"

\* ... then the transaction id ...
AssignXid(t) ==
    /\ XidDue(t)
    /\ xid[t] = NullXid
    /\ xid' = [xid EXCEPT ![t] = nextXid]
    /\ active' = active \cup {nextXid}
    /\ nextXid' = nextXid + 1
    /\ UNCHANGED <<writes, sequence, serverVars, observed, otherXid, stage, latest, index, pending, outcome, readerVars>>

\* ... then the latest stored match of every criterion, in a new snapshot.
ReadLatest(t) ==
    /\ stage[t] = "locked"
    /\ xid[t] # NullXid
    /\ stage' = [stage EXCEPT ![t] = "looping"]
    /\ latest' = [latest EXCEPT ![t] = [c \in CriteriaOf(t) |-> LatestMatch(c, Rows(writes))]]
    /\ UNCHANGED <<writes, sequence, serverVars, observed, clusterVars, xid, index, pending, outcome, readerVars>>

\* The checks of a request hold against a batch's criterion positions.
Passes(t, r) ==
    \A check \in ChecksOf(r) : Greatest({latest[t][c] : c \in check.criteria}) = check.position

\* Fault: only the last event of an accepted request is looked at.
LatestAfterLastOnly(t, r) ==
    LET n == Len(Docs[r]) IN
    [c \in CriteriaOf(t) |->
        IF Matches(c, Docs[r][n]) THEN <<sequence + n, sequence + n - 1>> ELSE latest[t][c]]

\* The criterion positions once r is accepted: the last of its events that
\* matches a criterion is that criterion's latest.
LatestAfter(t, r) ==
    LET n == Len(Docs[r])
        hits(c) == {i \in 1 .. n : Matches(c, Docs[r][i])}
    IN  [c \in CriteriaOf(t) |->
            IF hits(c) = {} THEN latest[t][c]
            ELSE <<sequence + n, sequence + (CHOOSE i \in hits(c) : \A j \in hits(c) : j <= i) - 1>>]

\* Phase 3: one request.  A rejected request changes neither the sequence nor
\* the criterion positions; an accepted one draws an id for each event.
ExecuteRequest(t) ==
    LET r == BatchOf[t][index[t]]
        n == Len(Docs[r])
    IN
    /\ stage[t] = "looping"
    /\ index[t] <= Len(BatchOf[t])
    /\ index' = [index EXCEPT ![t] = @ + 1]
    /\ IF Passes(t, r)
       THEN /\ sequence' = sequence + n
            /\ latest' = [latest EXCEPT ![t] = LatestAfter(t, r)]
            /\ pending' = [pending EXCEPT ![t] = @ \cup
                  {[commit |-> sequence + n, first |-> sequence, docs |-> Docs[r],
                    checks |-> ChecksOf(r), request |-> r, xid |-> xid[t]]}]
       ELSE UNCHANGED <<sequence, latest, pending>>
    /\ UNCHANGED <<writes, serverVars, observed, clusterVars, stage, xid, outcome, readerVars>>

RequestsIn(t) == {BatchOf[t][i] : i \in DOMAIN BatchOf[t]}

\* Fault: the rows of rejected requests are taken for acceptances.
AcceptedInAll(t) == RequestsIn(t)

\* The requests whose result rows carry a position.
AcceptedIn(t) == {w.request : w \in pending[t]}

\* Phases 4 and 5: the accepted writes are inserted and committed together.
\* The callers get their outcomes, unless the connection is lost first: an
\* error invalidates all of them.
Commit(t) ==
    /\ stage[t] = "looping"
    /\ index[t] > Len(BatchOf[t])
    /\ writes' = writes \cup pending[t]
    /\ active' = active \ {xid[t]}
    /\ stage' = [stage EXCEPT ![t] = "committed"]
    /\ \E lost \in BOOLEAN :
          outcome' = [r \in Requests |->
              IF r \notin RequestsIn(t) THEN outcome[r]
              ELSE IF lost THEN "error"
              ELSE IF r \in AcceptedIn(t) THEN "accepted" ELSE "conflict"]
    /\ UNCHANGED <<sequence, serverVars, observed, nextXid, otherXid, xid, latest, index, pending, readerVars>>

\* The statement fails, or its flush timeout cancels it: everything but the
\* sequence is rolled back.
Abort(t) ==
    /\ stage[t] \in {"waiting", "locked", "looping"}
    /\ stage' = [stage EXCEPT ![t] = "aborted"]
    /\ active' = active \ {xid[t]}
    /\ outcome' = [r \in Requests |-> IF r \in RequestsIn(t) THEN "error" ELSE outcome[r]]
    /\ UNCHANGED <<writes, sequence, serverVars, observed, nextXid, otherXid, xid, latest, index, pending, readerVars>>

-----------------------------------------------------------------------------
(* Ascending reads *)

\* pg_snapshot_xmin: below it every transaction has ended.
Xmin == CHOOSE x \in active \cup {nextXid} : \A y \in active \cup {nextXid} : x <= y

\* The rows an ascending read may return.
VisibleAscending ==
    UNION {WriteRows(w) : w \in {x \in writes : x.xid = NullXid \/ x.xid < Xmin}}

\* A reader takes the first visible event after its cursor.
ReadNext(c) ==
    /\ Registered
    /\ \E row \in VisibleAscending :
          /\ Before(cursor[c], row.pos)
          /\ \A other \in VisibleAscending :
                Before(cursor[c], other.pos) => ~Before(other.pos, row.pos)
          /\ cursor' = [cursor EXCEPT ![c] = row.pos]
          /\ delivered' = [delivered EXCEPT ![c] = @ \cup {row.pos}]
    /\ UNCHANGED <<writes, sequence, serverVars, observed, clusterVars, batchVars>>

-----------------------------------------------------------------------------
Next ==
    \/ \E s \in Servers : MigrateBegin(s) \/ MigrateEnd(s)
    \/ \E o \in Others : OtherBegin(o) \/ OtherEnd(o)
    \/ \E r \in Requests : \E q \in Queries[r] : Observe(r, q)
    \/ \E t \in Batches :
          \/ Compile(t) \/ Lock(t) \/ AssignXid(t) \/ ReadLatest(t)
          \/ ExecuteRequest(t) \/ Commit(t) \/ Abort(t)
    \/ \E c \in Readers : ReadNext(c)

Spec == Init /\ [][Next]_vars

-----------------------------------------------------------------------------
(* Properties *)

\* The writes of the boundary are a history of the abstract event log: every
\* write was saved at the end and while all its observations stood, although
\* the batch decided it from its own criterion positions.
Saved(ws) == {[commit |-> w.commit, first |-> w.first, docs |-> w.docs, checks |-> w.checks] : w \in ws}

Log == INSTANCE EventLog WITH Initial <- Saved(Restored), history <- Saved(writes)

ImplementsEventLog == Log!Spec

\* An ascending reader that moves its cursor to what it has delivered never
\* passes an event: no event at or before its cursor can appear later.
AscendingReadsMissNothing ==
    \A c \in Readers : \A row \in Rows(writes) :
        row.pos = cursor[c] \/ Before(row.pos, cursor[c]) => row.pos \in delivered[c]

\* An outcome is told only of what is durable: accepted requests are in the
\* history, once, and rejected ones are not and never will be.
OutcomesAreTrue ==
    \A r \in Requests :
        LET saved == {w \in writes : w.request = r} IN
        /\ outcome[r] = "accepted" => \E w \in saved : saved = {w}
        /\ outcome[r] = "conflict" => saved = {}
=============================================================================
